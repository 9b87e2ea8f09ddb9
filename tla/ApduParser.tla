----------------------------- MODULE ApduParser -----------------------------
(***************************************************************************)
(* How the handlers walk through G_io_apdu_buffer.  The buffer is shared   *)
(* by every call and its response and is never cleared: behind the bytes   *)
(* of the call at hand lie those of earlier ones.  A handler checks P1, P2 *)
(* and LC, takes the key path, whose first byte says how many components   *)
(* follow, moves a pointer over fields of fixed size, and takes what LC    *)
(* leaves as the data.  reads follows how far into the buffer it looked.   *)
(*                                                                         *)
(* Lengths of fields are uint8_t, the length of the data is uint64_t.      *)
(***************************************************************************)
EXTENDS Integers, Sequences

CONSTANTS
  Calls,      \* the calls that hosts make
  NoCall,
  LenWord     \* size of the word that holds the length of the data: 2^64

CDATA == 5            \* ISO_OFFSET_CDATA
IO_APDU_BUFFER_SIZE == 260
MAX_BIP32_PATH == 10
KeyPathSize == 4 * MAX_BIP32_PATH + 1

Handlers == {"get_app_conf", "get_address", "sign_receive_block",
             "cache_send_block_data", "sign_send_block", "get_token_info",
             "test_amount_text"}

\* components: the byte at CDATA, which handlers with a path read as the
\* number of its components; inLength: what io_exchange returned.
CallFields == [ins: Handlers \cup {"unknown"}, p1: 0..255, p2: 0..255,
               lc: 0..255, components: 0..255, inLength: 0..IO_APDU_BUFFER_SIZE]

ASSUME CallAssumption ==
  /\ Calls \subseteq CallFields
  /\ NoCall \notin Calls
  /\ LenWord \in Nat /\ LenWord >= 2^16

MIN(a, b) == IF a < b THEN a ELSE b

VARIABLES
  pc,       \* what comes next in the handler
  call,     \* the call at hand
  field,    \* the field to read next
  ptr,      \* where it starts in the buffer
  reads,    \* every byte read so far lies before this offset
  dataLen,  \* what the handler takes for the length of the data
  answer    \* how the call was answered

cursor == <<field, ptr, reads, dataLen>>
vars == <<pc, call, cursor, answer>>

DataIn == Handlers \ {"get_app_conf"}
WithPath == {"get_address", "sign_receive_block", "sign_send_block"}

ValidP1 == [ins \in Handlers |->
  CASE ins = "get_address" -> {0, 1}
    [] ins \in {"cache_send_block_data", "sign_send_block"} -> {1, 2}
    [] OTHER -> {0}]

\* Mutant: one byte less is asked for.
ValidLCOffByOne == [ins \in Handlers |->
  CASE ins = "get_app_conf" -> {0}
    [] ins = "get_address" -> 1..255
    [] ins = "sign_receive_block" -> 93..255
    [] ins = "cache_send_block_data" -> 1..224
    [] ins = "sign_send_block" -> 155..255
    [] ins = "get_token_info" -> {2}
    [] OTHER -> {42}]

ValidLC == [ins \in Handlers |->
  CASE ins = "get_app_conf" -> {0}
    [] ins = "get_address" -> 1..255
    [] ins = "sign_receive_block" -> 93..255
    [] ins = "cache_send_block_data" -> 1..224
    [] ins = "sign_send_block" -> 156..255
    [] ins = "get_token_info" -> {2}
    [] OTHER -> {42}]

\* The sizes of the fields read after the path, if there is one: previous
\* hash, height, receiver, amount, token, fee, nonce; previous hash, height,
\* hash of the send block, nonce; index; amount, token.
Fields == [ins \in Handlers |->
  CASE ins = "sign_send_block" -> <<32, 8, 21, 32, 10, 32, 8>>
    [] ins = "sign_receive_block" -> <<32, 8, 32, 8>>
    [] ins = "get_token_info" -> <<2>>
    [] ins = "test_amount_text" -> <<32, 10>>
    [] OTHER -> << >>]

Init ==
  /\ pc = "idle" /\ call = NoCall
  /\ field = 1 /\ ptr = 0 /\ reads = 0 /\ dataLen = 0
  /\ answer = "none"

Receive(c) ==
  /\ pc = "idle"
  /\ pc' = "dispatch" /\ call' = c /\ ptr' = CDATA /\ reads' = CDATA
  /\ UNCHANGED <<field, dataLen, answer>>

\* The answer leaves with the next io_exchange; the bytes stay in the buffer.
Reply ==
  /\ pc = "answered"
  /\ pc' = "idle" /\ call' = NoCall
  /\ field' = 1 /\ ptr' = 0 /\ reads' = 0 /\ dataLen' = 0
  /\ answer' = "none"

Answer(sw) == pc' = "answered" /\ answer' = sw /\ UNCHANGED <<call, cursor>>
Go(next) == pc' = next /\ UNCHANGED <<call, cursor, answer>>

NoData == call.lc = 0 \/ call.inLength = CDATA

Dispatch ==
  /\ pc = "dispatch"
  /\ \/ call.ins = "unknown" /\ Answer("6D00")
     \/ call.ins \in DataIn /\ NoData /\ Answer("6700")
     \/ /\ call.ins \in Handlers
        /\ call.ins \in DataIn => ~NoData
        /\ Go("check")

CheckHeader ==
  /\ pc = "check"
  /\ IF call.p1 \notin ValidP1[call.ins] \/ call.p2 # 0 THEN Answer("6B00")
     ELSE IF call.lc \notin ValidLC[call.ins] THEN Answer("6700")
     ELSE Go(IF call.ins \in WithPath THEN "path" ELSE "fields")

\* The length of a path; the sum wraps.
PathLen(n) == (1 + 4 * n) % 256

\* The path is copied, as much of it as the destination holds; get_address
\* derives from the buffer itself.
ReadPath ==
  /\ pc = "path"
  /\ pc' = "derive"
  /\ IF call.ins = "get_address"
     THEN UNCHANGED <<ptr, reads>>
     ELSE LET len == PathLen(call.components)
          IN  ptr' = ptr + len /\ reads' = ptr + MIN(len, KeyPathSize)
  /\ UNCHANGED <<call, field, dataLen, answer>>

\* The device is locked or another prompt is open.
Refuse ==
  /\ \/ pc = "derive"
     \/ pc = "fields" /\ field = 1 /\ call.ins = "cache_send_block_data"
  /\ Answer("6982")

\* get_address derives from the buffer: it looks at the number of components
\* and, if that is not too large, at each of them.
PathRead ==
  IF call.ins # "get_address" THEN reads
  ELSE IF call.components > MAX_BIP32_PATH THEN CDATA + 1
  ELSE CDATA + 1 + 4 * call.components

\* Mutant: the number of components is not bounded.
DeriveAnyPath ==
  /\ pc = "derive"
  /\ \/ call.components >= 2 /\ pc' = "fields" /\ answer' = answer
     \/ pc' = "answered" /\ answer' = "6Fxx"
  /\ reads' = PathRead
  /\ UNCHANGED <<call, field, ptr, dataLen>>

\* libv_derive_keypair: throws for a path too long or too short, and, in the
\* system call, for one that is not the app's.
DeriveKeypair ==
  /\ pc = "derive"
  /\ \/ /\ call.components \in 2..MAX_BIP32_PATH
        /\ pc' = "fields" /\ answer' = answer
     \/ pc' = "answered" /\ answer' = "6Fxx"
  /\ reads' = PathRead
  /\ UNCHANGED <<call, field, ptr, dataLen>>

\* os_memmove(field, ptr, len); ptr += len.
ReadField ==
  /\ pc = "fields" /\ field <= Len(Fields[call.ins])
  /\ field' = field + 1
  /\ ptr' = ptr + Fields[call.ins][field]
  /\ reads' = ptr'
  /\ UNCHANGED <<pc, call, dataLen, answer>>

\* Mutant: the length of the data is not a word.
TakeDataSigned ==
  /\ pc = "fields" /\ field > Len(Fields[call.ins])
  /\ pc' = "finish"
  /\ dataLen' = CASE call.ins = "sign_send_block" -> call.lc - (ptr - CDATA)
                  [] call.ins = "cache_send_block_data" -> call.lc
                  [] OTHER -> 0
  /\ reads' = IF dataLen' > 0 THEN ptr + dataLen' ELSE reads
  /\ UNCHANGED <<call, field, ptr, answer>>

\* Mutant: the path is taken to have three components.
TakeDataFixed ==
  /\ pc = "fields" /\ field > Len(Fields[call.ins])
  /\ pc' = "finish"
  /\ dataLen' = CASE call.ins = "sign_send_block" -> call.lc - 156
                  [] call.ins = "cache_send_block_data" -> call.lc
                  [] OTHER -> 0
  /\ reads' = IF dataLen' > 0 THEN ptr + dataLen' ELSE reads
  /\ UNCHANGED <<call, field, ptr, answer>>

\* The data of a send block is what LC leaves, computed in int and stored in
\* a uint64_t; a chunk to cache is all of LC.
TakeData ==
  /\ pc = "fields" /\ field > Len(Fields[call.ins])
  /\ pc' = "finish"
  /\ dataLen' = CASE call.ins = "sign_send_block" ->
                       (call.lc - (ptr - CDATA)) % LenWord
                  [] call.ins = "cache_send_block_data" -> call.lc
                  [] OTHER -> 0
  /\ reads' = IF dataLen' > 0 THEN ptr + dataLen' ELSE reads
  /\ UNCHANGED <<call, field, ptr, answer>>

\* Also the end of a call that waits for the user.  get_token_info may find
\* that its index is past the table.
Finish ==
  /\ pc = "finish"
  /\ \/ Answer("9000")
     \/ call.ins = "get_token_info" /\ Answer("6A83")

Next ==
  \/ \E c \in Calls : Receive(c)
  \/ Dispatch
  \/ CheckHeader
  \/ ReadPath
  \/ Refuse
  \/ DeriveKeypair
  \/ ReadField
  \/ TakeData
  \/ Finish
  \/ Reply

Spec == Init /\ [][Next]_vars
-----------------------------------------------------------------------------
(* Properties *)

\* The type invariant.
TypeOK ==
  /\ pc \in {"idle", "dispatch", "check", "path", "derive", "fields", "finish",
          "answered"}
  /\ call \in Calls \cup {NoCall}
  /\ call = NoCall <=> pc = "idle"
  /\ field \in 1..8
  /\ ptr \in Nat /\ reads \in Nat
  /\ dataLen \in 0..(LenWord - 1)
  /\ answer \in {"none", "9000", "6700", "6982", "6A83", "6B00", "6D00", "6Fxx"}

\* LC counts the bytes that came behind it.
Complete == call # NoCall /\ call.inLength = CDATA + call.lc

\* The path the app is used with has three components, 44'/666666'/account
\* (Makefile:37, test.py:24); the sizes tested are those of such a block.
ShortPath == call # NoCall /\ call.components <= 3

\* No handler uses a byte that an earlier call left in the buffer: all that it
\* reads lies within the call at hand, whatever the fields and the data, for
\* paths of at most three components.  (A request for an address is tested for
\* one byte only: see get_address in the README.)
ReadsOwnBytes ==
  (Complete /\ ShortPath /\ call.ins # "get_address") => reads <= call.inLength

\* The data of a send block is exactly what follows the fields: all of the call
\* is signed, the length does not wrap (libv_apdu_sign_send_block.c:111).
DataIsTheRest ==
  (pc = "finish" /\ Complete /\ ShortPath /\ call.ins = "sign_send_block")
    => ptr + dataLen = call.inLength

\* Whatever a call claims about its path, the path and the fields are read inside
\* the buffer: a path whose length wraps or is too long is copied in part, and
\* refused before any field is looked for behind it (libv_helpers.c:286-298).
StaysInBuffer ==
  pc \in {"path", "derive", "fields"} => reads <= IO_APDU_BUFFER_SIZE

-----------------------------------------------------------------------------
(* What a comment says and the code does not do *)

\* libv_apdu_sign_send_block.c:55, libv_apdu_sign_receive_block.c:57: "Verify
\* the minimum size": past that test a block is complete, for any path that
\* doc/vite.md allows.
MinimumSizeVerified ==
  (Complete /\ pc = "finish"
     /\ call.ins \in {"sign_send_block", "sign_receive_block"})
    => reads <= call.inLength
=============================================================================
