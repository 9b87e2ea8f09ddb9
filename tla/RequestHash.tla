---------------------------- MODULE RequestHash ----------------------------
(***************************************************************************)
(* libv_simple_hash, by which app_dispatch knows the retry of a U2F call.  *)
(* What matters is a relation between two of its runs, that for the call   *)
(* on record and that for the call at hand, so the module makes both at    *)
(* once, byte by byte.                                                     *)
(***************************************************************************)
EXTENDS Integers, Sequences

CONSTANTS
  Byte,       \* the values of a uint8_t
  Word,       \* the number of values of a uint32_t
  Calls       \* the calls that hosts make: sequences of bytes

\* 29 is prime to the size of a word, so no difference is multiplied away.
ASSUME HashAssumption ==
  /\ Word \in Nat /\ Word > 5
  /\ Byte \subseteq 0..(Word - 1)
  /\ Calls \subseteq Seq(Byte)
  /\ \A k \in 1..(Word - 1) : (29 * k) % Word # 0

Seed == 5

\* Mutant: a shift in place of the multiplication.
NextHashShift(h, b) == (32 * h + b) % Word

\* Mutant: the result is wider than its type.
NextHashWide(h, b) == 29 * h + b

\* result = 29 * result + data[i], in uint32_t.
NextHash(h, b) == (29 * h + b) % Word

VARIABLES
  recorded,      \* the call on record, whose hash was kept
  data,          \* the call at hand
  i,             \* bytes hashed of each
  recordedHash, result

vars == <<recorded, data, i, recordedHash, result>>

Init ==
  /\ recorded \in Calls /\ data \in Calls
  /\ Len(recorded) = Len(data)
  /\ i = 0
  /\ recordedHash = Seed /\ result = Seed

HashByte ==
  /\ i < Len(data)
  /\ i' = i + 1
  /\ recordedHash' = NextHash(recordedHash, recorded[i + 1])
  /\ result' = NextHash(result, data[i + 1])
  /\ UNCHANGED <<recorded, data>>

Next == HashByte
Spec == Init /\ [][Next]_vars
-----------------------------------------------------------------------------
(* Properties *)

\* The type invariant.
TypeOK ==
  /\ recorded \in Calls /\ data \in Calls
  /\ i \in 0..Len(data)
  /\ recordedHash \in 0..(Word - 1) /\ result \in 0..(Word - 1)

AlikeBut(d) == \A j \in (1..Len(data)) \ {d} : recorded[j] = data[j]

\* A retry is recognised, and a call that differs from the one on record in one
\* byte only, as the request for the next account does, is not taken for its
\* retry (libv_app.c:58-59, libv_helpers.c:313-319): no later byte brings the
\* two hashes together again.
OneByteApart ==
  (i = Len(data) /\ \E d \in 1..Len(data) : AlikeBut(d))
    => (recordedHash = result <=> recorded = data)
=============================================================================
