--------------------------- MODULE SendBlockData ---------------------------
(***************************************************************************)
(* The data field of a send block, as the app accumulates it.  A block's   *)
(* data may be longer than one APDU; the host then sends it in chunks that *)
(* cache_send_block_data absorbs into a record with two views of the same  *)
(* bytes: the running Blake2b context c, whose digest is signed, and the   *)
(* first DataCap bytes, kept for the confirmation screen.  The screen      *)
(* shows the first eight of them in hexadecimal, and two dots if the data  *)
(* is longer (libv_bagl_nanos.c:110-120, ConfirmText).  sign_send_block    *)
(* finishes both views with the bytes that its own APDU carries.           *)
(*                                                                         *)
(* A context is the sequence it has absorbed.  live tells whether it was   *)
(* ever initialised: the record of a freshly started app is all zeroes,    *)
(* which is not a context that blake2b_init has prepared.                  *)
(***************************************************************************)
EXTENDS Naturals, Sequences

CONSTANTS
  Byte,        \* byte values that data can hold
  Printable,   \* the bytes from 32 to 126
  ZeroByte,    \* what os_memset writes
  Garbage,     \* a byte of the stack that nothing has written
  DataCap      \* bytes of data kept for the screen: 64 in the source

ASSUME DataAssumption ==
  /\ DataCap \in Nat \ {0}
  /\ Printable \subseteq Byte
  /\ ZeroByte \in Byte
  /\ Garbage \notin Byte

Buffer == [1..DataCap -> Byte \cup {Garbage}]

Data == [data: Buffer, dataLen: Nat, dataIsNote: BOOLEAN,
         c: Seq(Byte), live: BOOLEAN]

AllPrintable(s) == \A i \in 1..Len(s) : s[i] \in Printable

\* os_memmove(buf + offset, s, MIN(Len(s), DataCap - offset)), skipped when
\* offset is past the end.
CopyAt(buf, offset, s) ==
  [i \in 1..DataCap |->
     IF offset < i /\ i <= offset + Len(s) THEN s[i - offset] ELSE buf[i]]

Uninitialised == [i \in 1..DataCap |-> Garbage]

\* libv_context_init clears the whole context, the cached data included.
ZeroData ==
  [data |-> [i \in 1..DataCap |-> ZeroByte], dataLen |-> 0,
   dataIsNote |-> FALSE, c |-> << >>, live |-> FALSE]

\* The record that P1_FIRST_DATA starts from.
FreshData ==
  [data |-> Uninitialised, dataLen |-> 0,
   dataIsNote |-> TRUE, c |-> << >>, live |-> TRUE]

\* Mutant: every chunk is copied to the start of the buffer.
AbsorbAtStart(d, s) ==
  [data |-> CopyAt(d.data, 0, s), dataLen |-> d.dataLen + Len(s),
   dataIsNote |-> d.dataIsNote /\ AllPrintable(s), c |-> d.c \o s,
   live |-> d.live]

\* One chunk: hashed, copied behind the bytes already there, counted, and
\* checked for bytes that are no text.
Absorb(d, s) ==
  [data |-> CopyAt(d.data, d.dataLen, s), dataLen |-> d.dataLen + Len(s),
   dataIsNote |-> d.dataIsNote /\ AllPrintable(s), c |-> d.c \o s,
   live |-> d.live]

\* Only the bytes that dataLen counts are copied out of the cache.
CopyOut(d) ==
  [d EXCEPT !.data = [i \in 1..DataCap |->
                        IF i <= d.dataLen THEN d.data[i] ELSE Garbage]]

\* Data of length zero is never a note, and is left out of the signed block.
NoteUnlessEmpty(d) ==
  [d EXCEPT !.dataIsNote = d.dataIsNote /\ d.dataLen > 0]

\* P1_USE_CACHED_DATA: a copy of the cache finished by the APDU's own bytes.
\* The cache itself, its hash context included, is left as it was.
FromCache(cache, tail) == NoteUnlessEmpty(Absorb(CopyOut(cache), tail))

\* P1_NOT_USE_CACHED_DATA: the APDU's bytes alone.  No branch assigns
\* dataIsNote, so the test on it reads whatever the stack held: garbage.
FromApdu(tail, garbage) ==
  NoteUnlessEmpty(Absorb([FreshData EXCEPT !.dataIsNote = garbage], tail))

\* What the user is shown is taken from what is hashed: the length, the bytes
\* kept for the screen, and the claim that the data is text, for every record
\* whose context was initialised.
Faithful(d) ==
  d.live =>
    /\ d.dataLen = Len(d.c)
    /\ \A i \in 1..DataCap : i <= d.dataLen => d.data[i] = d.c[i]
    /\ d.dataIsNote => AllPrintable(d.c)
=============================================================================
