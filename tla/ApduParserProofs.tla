-------------------------- MODULE ApduParserProofs --------------------------
(***************************************************************************)
(* What a handler reads of G_io_apdu_buffer, for every set of calls: the   *)
(* inductive invariant says where the pointer is before each field, from   *)
(* the number of components of the path alone.                             *)
(***************************************************************************)
EXTENDS ApduParser, TLAPS

Signs == {"sign_receive_block", "sign_send_block"}

\* Where the fields start behind the path, and the end of the last one.
Offset == [ins \in Handlers |->
  CASE ins = "sign_send_block" -> <<0, 32, 40, 61, 93, 103, 135, 143>>
    [] ins = "sign_receive_block" -> <<0, 32, 40, 72, 80>>
    [] ins = "get_token_info" -> <<0, 2>>
    [] ins = "test_amount_text" -> <<0, 32, 42>>
    [] OTHER -> <<0>>]

FirstField(c) == IF c.ins \in Signs THEN CDATA + 1 + 4 * c.components ELSE CDATA

AtStart ==
  /\ pc \in {"idle", "dispatch", "check", "path"} => field = 1 /\ dataLen = 0
  /\ pc \in {"dispatch", "check", "path"} => ptr = CDATA /\ reads = CDATA

Checked == pc \in {"path", "derive", "fields", "finish"} =>
  call.ins \in Handlers /\ call.lc \in ValidLC[call.ins]

AtCheck == pc = "check" => call.ins \in Handlers

PathAt == pc \in {"path", "derive"} => call.ins \in WithPath

AtDerive == pc = "derive" =>
  /\ field = 1 /\ dataLen = 0
  /\ call.ins = "get_address" => ptr = CDATA /\ reads = CDATA
  /\ call.ins # "get_address" =>
       /\ ptr = CDATA + PathLen(call.components)
       /\ reads = CDATA + MIN(PathLen(call.components), KeyPathSize)

PathTaken == pc \in {"fields", "finish"} /\ call.ins \in WithPath
  => call.components \in 2..MAX_BIP32_PATH

AtFields == pc \in {"fields", "finish"} =>
  /\ field \in 1..(Len(Fields[call.ins]) + 1)
  /\ ptr = FirstField(call) + Offset[call.ins][field]

ReadsFields == pc = "fields" =>
  reads = IF call.ins = "get_address" THEN CDATA + 1 + 4 * call.components
          ELSE ptr

AtFinish == pc = "finish" =>
  /\ field = Len(Fields[call.ins]) + 1
  /\ call.ins = "sign_send_block" => dataLen = (call.lc - (ptr - CDATA)) % LenWord
  /\ reads <= IF call.ins = "get_address" THEN CDATA + 1 + 4 * call.components
              ELSE ptr + dataLen

IInv ==
  /\ TypeOK /\ AtStart /\ Checked /\ AtCheck /\ PathAt /\ AtDerive /\ PathTaken
  /\ AtFields /\ ReadsFields /\ AtFinish
  /\ ReadsOwnBytes
-----------------------------------------------------------------------------
LEMMA CallIsRecord == ASSUME NEW c \in Calls
  PROVE /\ c \in CallFields /\ c # NoCall
        /\ c.lc \in 0..255 /\ c.components \in 0..255
        /\ c.inLength \in 0..IO_APDU_BUFFER_SIZE
  BY CallAssumption DEF CallFields

\* The end of a field is the start of the next one.
LEMMA NextOffset ==
  ASSUME NEW ins \in Handlers, NEW f \in 1..Len(Fields[ins])
  PROVE  /\ Fields[ins][f] \in Nat
         /\ Offset[ins][f] \in Nat
         /\ Offset[ins][f + 1] = Offset[ins][f] + Fields[ins][f]
         /\ f + 1 \in 1..8
<1>1. CASE ins = "sign_send_block"
  <2>1. f \in {1, 2, 3, 4, 5, 6, 7}
    BY <1>1 DEF Fields, Handlers
  <2> QED BY <1>1, <2>1 DEF Fields, Offset, Handlers
<1>2. CASE ins = "sign_receive_block"
  <2>1. f \in {1, 2, 3, 4}
    BY <1>2 DEF Fields, Handlers
  <2> QED BY <1>2, <2>1 DEF Fields, Offset, Handlers
<1>3. CASE ins = "get_token_info"
  <2>1. f = 1
    BY <1>3 DEF Fields, Handlers
  <2> QED BY <1>3, <2>1 DEF Fields, Offset, Handlers
<1>4. CASE ins = "test_amount_text"
  <2>1. f \in {1, 2}
    BY <1>4 DEF Fields, Handlers
  <2> QED BY <1>4, <2>1 DEF Fields, Offset, Handlers
<1>5. CASE ins \in {"get_app_conf", "get_address", "cache_send_block_data"}
  BY <1>5 DEF Fields, Handlers
<1> QED BY <1>1, <1>2, <1>3, <1>4, <1>5 DEF Handlers

\* The end of the fields, and the length that was tested for.
LEMMA LastOffset ==
  ASSUME NEW ins \in Handlers
  PROVE  /\ Len(Fields[ins]) \in 0..7
         /\ Offset[ins][1] = 0
         /\ Offset[ins][Len(Fields[ins]) + 1] =
              CASE ins = "sign_send_block" -> 143
                [] ins = "sign_receive_block" -> 80
                [] ins = "get_token_info" -> 2
                [] ins = "test_amount_text" -> 42
                [] OTHER -> 0
  BY DEF Fields, Offset, Handlers

LEMMA OffsetRange ==
  ASSUME NEW ins \in Handlers, NEW f \in 1..(Len(Fields[ins]) + 1)
  PROVE  Offset[ins][f] \in 0..Offset[ins][Len(Fields[ins]) + 1]
<1>1. CASE ins = "sign_send_block"
  <2>1. f \in {1, 2, 3, 4, 5, 6, 7, 8}
    BY <1>1 DEF Fields, Handlers
  <2> QED BY <1>1, <2>1 DEF Fields, Offset, Handlers
<1>2. CASE ins = "sign_receive_block"
  <2>1. f \in {1, 2, 3, 4, 5}
    BY <1>2 DEF Fields, Handlers
  <2> QED BY <1>2, <2>1 DEF Fields, Offset, Handlers
<1>3. CASE ins \in {"get_token_info", "test_amount_text"}
  <2>1. f \in {1, 2, 3}
    BY <1>3 DEF Fields, Handlers
  <2> QED BY <1>3, <2>1 DEF Fields, Offset, Handlers
<1>5. CASE ins \in {"get_app_conf", "get_address", "cache_send_block_data"}
  BY <1>5 DEF Fields, Offset, Handlers
<1> QED BY <1>1, <1>2, <1>3, <1>5 DEF Handlers

LEMMA PathLenRange == ASSUME NEW n \in 0..255
  PROVE /\ PathLen(n) \in 1..255
        /\ n \in 0..MAX_BIP32_PATH => PathLen(n) = 1 + 4 * n /\ PathLen(n) <= KeyPathSize
  BY SMTT(30) DEF PathLen, MAX_BIP32_PATH, KeyPathSize

\* The test of LC is enough for paths of three components.
LEMMA LCIsEnough ==
  ASSUME NEW c \in Calls, c.ins \in Handlers, c.lc \in ValidLC[c.ins],
         c.components <= 3, c.ins \notin {"get_address"}
  PROVE  FirstField(c) + Offset[c.ins][Len(Fields[c.ins]) + 1] <= CDATA + c.lc
<1> DEFINE last == Offset[c.ins][Len(Fields[c.ins]) + 1]
<1>a. c.lc \in Nat /\ c.components \in Nat
  BY CallIsRecord
<1>b. last = CASE c.ins = "sign_send_block" -> 143
               [] c.ins = "sign_receive_block" -> 80
               [] c.ins = "get_token_info" -> 2
               [] c.ins = "test_amount_text" -> 42
               [] OTHER -> 0
  BY LastOffset
<1> HIDE DEF last
<1>1. CASE c.ins = "sign_send_block"
  <2>1. last = 143 /\ c.lc >= 156
    BY <1>1, <1>b DEF ValidLC, Handlers
  <2>2. FirstField(c) = CDATA + 1 + 4 * c.components
    BY <1>1 DEF FirstField, Signs
  <2> QED BY <1>a, <2>1, <2>2 DEF CDATA, last
<1>2. CASE c.ins = "sign_receive_block"
  <2>1. last = 80 /\ c.lc >= 93
    BY <1>2, <1>b DEF ValidLC, Handlers
  <2>2. FirstField(c) = CDATA + 1 + 4 * c.components
    BY <1>2 DEF FirstField, Signs
  <2> QED BY <1>a, <2>1, <2>2 DEF CDATA, last
<1>3. CASE c.ins \in {"get_app_conf", "cache_send_block_data", "get_token_info",
                     "test_amount_text"}
  <2>1. last <= c.lc
    BY <1>3, <1>a, <1>b DEF ValidLC, Handlers
  <2>2. FirstField(c) = CDATA
    BY <1>3 DEF FirstField, Signs
  <2>3. last \in Nat
    BY <1>3, <1>b
  <2> QED BY <1>a, <2>1, <2>2, <2>3 DEF CDATA, last
<1> QED BY <1>1, <1>2, <1>3 DEF Handlers
-----------------------------------------------------------------------------
LEMMA InitInv == Init => IInv
  BY CallAssumption DEF Init, IInv, TypeOK, AtStart, Checked, AtCheck, PathAt,
    AtDerive, PathTaken, AtFields, ReadsFields, AtFinish, ReadsOwnBytes, Complete,
    ShortPath

\* What the invariant says of one place in a handler.
LEMMA AnsweredInv ==
  ASSUME TypeOK, ReadsOwnBytes, call # NoCall,
         NEW sw \in {"9000", "6700", "6982", "6A83", "6B00", "6D00", "6Fxx"},
         Answer(sw)
  PROVE  IInv'
  BY DEF Answer, cursor, IInv, TypeOK, AtStart, Checked, AtCheck, PathAt, AtDerive,
    PathTaken, AtFields, ReadsFields, AtFinish, ReadsOwnBytes, Complete, ShortPath

LEMMA ReceiveInv == ASSUME IInv, NEW c \in Calls, Receive(c) PROVE IInv'
<1>1. c \in CallFields /\ c # NoCall /\ c.lc \in Nat
  BY CallIsRecord
<1> QED
  BY <1>1 DEF Receive, CDATA, IInv, TypeOK, AtStart, Checked, AtCheck, PathAt, AtDerive,
    PathTaken, AtFields, ReadsFields, AtFinish, ReadsOwnBytes, Complete, ShortPath

LEMMA ReplyInv == ASSUME IInv, Reply PROVE IInv'
  BY CallAssumption DEF Reply, IInv, TypeOK, AtStart, Checked, AtCheck, PathAt, AtDerive,
    PathTaken, AtFields, ReadsFields, AtFinish, ReadsOwnBytes, Complete, ShortPath

LEMMA DispatchInv == ASSUME IInv, Dispatch PROVE IInv'
<1>1. call # NoCall
  BY DEF Dispatch, IInv, TypeOK
<1>2. CASE \E sw \in {"6D00", "6700"} : Answer(sw)
  BY <1>1, <1>2, AnsweredInv DEF IInv
<1>3. CASE call.ins \in Handlers /\ Go("check")
  BY <1>1, <1>3 DEF Dispatch, Go, cursor, IInv, TypeOK, AtStart, Checked, AtCheck, PathAt, AtDerive,
    PathTaken, AtFields, ReadsFields, AtFinish, ReadsOwnBytes, Complete, ShortPath
<1> QED BY <1>2, <1>3 DEF Dispatch

LEMMA CheckHeaderInv == ASSUME IInv, CheckHeader PROVE IInv'
<1>1. call # NoCall
  BY DEF CheckHeader, IInv, TypeOK
<1>2. CASE \E sw \in {"6B00", "6700"} : Answer(sw)
  BY <1>1, <1>2, AnsweredInv DEF IInv
<1>3. CASE /\ call.lc \in ValidLC[call.ins]
           /\ Go(IF call.ins \in WithPath THEN "path" ELSE "fields")
  <2>1. /\ call.ins \in Handlers /\ field = 1 /\ ptr = CDATA /\ reads = CDATA
        /\ dataLen = 0 /\ UNCHANGED <<call, cursor, answer>>
        /\ call.ins \in WithPath => pc' = "path"
        /\ call.ins \notin WithPath => pc' = "fields"
    BY <1>3 DEF CheckHeader, Go, IInv, AtStart, AtCheck
  <2>2. Offset[call.ins][1] = 0 /\ 1 \in 1..(Len(Fields[call.ins]) + 1)
    BY <2>1, LastOffset
  <2> QED BY <1>1, <1>3, <2>1, <2>2 DEF Go, cursor, CDATA, Signs, WithPath, FirstField,
    CheckHeader, IInv, TypeOK, AtStart, Checked, AtCheck, PathAt, AtDerive,
    PathTaken, AtFields, ReadsFields, AtFinish, ReadsOwnBytes, Complete, ShortPath
<1> QED BY <1>2, <1>3 DEF CheckHeader

LEMMA RefuseInv == ASSUME IInv, Refuse PROVE IInv'
<1>1. call # NoCall
  BY DEF Refuse, IInv, TypeOK
<1> QED BY <1>1, AnsweredInv DEF Refuse, IInv

LEMMA FinishInv == ASSUME IInv, Finish PROVE IInv'
<1>1. call # NoCall
  BY DEF Finish, IInv, TypeOK
<1> QED BY <1>1, AnsweredInv DEF Finish, IInv

LEMMA ReadPathInv == ASSUME IInv, ReadPath PROVE IInv'
<1>1. /\ call \in Calls /\ call # NoCall
      /\ call.ins \in Handlers /\ call.lc \in ValidLC[call.ins] /\ call.ins \in WithPath
      /\ field = 1 /\ ptr = CDATA /\ reads = CDATA /\ dataLen = 0
  BY DEF ReadPath, IInv, TypeOK, AtStart, Checked, PathAt
<1>2. PathLen(call.components) \in 1..255
  BY <1>1, CallIsRecord, PathLenRange
<1>3. CASE call.ins = "get_address"
  BY <1>1, <1>3 DEF ReadPath, IInv, TypeOK, AtStart, Checked, AtCheck, PathAt, AtDerive,
    PathTaken, AtFields, ReadsFields, AtFinish, ReadsOwnBytes, Complete, ShortPath
<1>4. CASE call.ins # "get_address"
  <2> DEFINE len == PathLen(call.components)
  <2>1. ptr' = CDATA + len /\ reads' = CDATA + MIN(len, KeyPathSize)
    BY <1>1, <1>4 DEF ReadPath
  <2>2. ptr' \in Nat /\ reads' \in Nat
    BY <1>2, <2>1 DEF MIN, KeyPathSize, MAX_BIP32_PATH, CDATA
  <2>3. Complete /\ ShortPath => reads' <= call.inLength
    <3>1. SUFFICES ASSUME Complete, ShortPath PROVE reads' <= call.inLength
      OBVIOUS
    <3>2. len <= 13
      <4>1. call.components \in 0..255 /\ call.components <= 3
        BY <1>1, <3>1, CallIsRecord DEF ShortPath
      <4>2. call.components \in 0..MAX_BIP32_PATH
        BY <4>1 DEF MAX_BIP32_PATH
      <4>3. PathLen(call.components) = 1 + 4 * call.components
        BY <4>1, <4>2, PathLenRange
      <4> QED BY <4>1, <4>3
    <3>3. call.lc \in Nat /\ call.lc >= 93
      BY <1>1, <1>4, CallIsRecord DEF ValidLC, Handlers, WithPath
    <3> QED BY <1>2, <2>1, <3>1, <3>2, <3>3 DEF Complete, MIN, KeyPathSize, MAX_BIP32_PATH, CDATA
  <2> QED BY <1>1, <1>4, <2>1, <2>2, <2>3 DEF ReadPath, IInv, TypeOK, AtStart, Checked, AtCheck, PathAt, AtDerive,
    PathTaken, AtFields, ReadsFields, AtFinish, ReadsOwnBytes, Complete, ShortPath
<1> QED BY <1>3, <1>4

LEMMA DeriveKeypairInv == ASSUME IInv, DeriveKeypair PROVE IInv'
<1>1. /\ call \in Calls /\ call # NoCall
      /\ call.ins \in Handlers /\ call.lc \in ValidLC[call.ins] /\ call.ins \in WithPath
      /\ field = 1 /\ dataLen = 0
  BY DEF DeriveKeypair, IInv, TypeOK, Checked, PathAt, AtDerive
<1>2. /\ call.components \in Nat /\ reads' \in Nat
      /\ call.ins # "get_address" => reads' = reads
  BY <1>1, CallIsRecord DEF DeriveKeypair, PathRead, IInv, TypeOK, CDATA
<1>3. CASE pc' = "answered" /\ answer' = "6Fxx"
  BY <1>1, <1>2, <1>3 DEF DeriveKeypair, IInv, TypeOK, AtStart, Checked, AtCheck, PathAt, AtDerive,
    PathTaken, AtFields, ReadsFields, AtFinish, ReadsOwnBytes, Complete, ShortPath
<1>4. CASE call.components \in 2..MAX_BIP32_PATH /\ pc' = "fields" /\ answer' = answer
  <2>1. PathLen(call.components) = 1 + 4 * call.components
        /\ PathLen(call.components) <= KeyPathSize
    <3>1. call.components \in 0..255 /\ call.components \in 0..MAX_BIP32_PATH
      BY <1>1, <1>4, CallIsRecord DEF MAX_BIP32_PATH
    <3> QED BY <3>1, PathLenRange
  <2>2. Offset[call.ins][1] = 0 /\ 1 \in 1..(Len(Fields[call.ins]) + 1)
    BY <1>1, LastOffset
  <2>3. ptr = FirstField(call)
    BY <1>1, <1>2, <2>1 DEF DeriveKeypair, IInv, AtDerive, FirstField, Signs, WithPath, CDATA
  <2>4. reads' = IF call.ins = "get_address" THEN CDATA + 1 + 4 * call.components ELSE ptr
    <3>1. CASE call.ins = "get_address"
      BY <1>2, <1>4, <3>1 DEF DeriveKeypair, PathRead, MAX_BIP32_PATH
    <3>2. CASE call.ins # "get_address"
      <4>1. /\ reads' = CDATA + MIN(PathLen(call.components), KeyPathSize)
            /\ ptr = CDATA + PathLen(call.components)
        BY <1>2, <3>2 DEF DeriveKeypair, IInv, AtDerive
      <4>2. MIN(PathLen(call.components), KeyPathSize) = PathLen(call.components)
        BY <1>2, <2>1 DEF MIN, KeyPathSize, MAX_BIP32_PATH
      <4> QED BY <3>2, <4>1, <4>2
    <3> QED BY <3>1, <3>2
  <2>5. ptr \in Nat
    BY DEF IInv, TypeOK
  <2>6. call' = call /\ field' = 1 /\ ptr' = ptr /\ dataLen' = 0
    BY <1>1 DEF DeriveKeypair
  <2>7. ptr' = FirstField(call) + Offset[call.ins][field']
    BY <2>2, <2>3, <2>5, <2>6
  <2> QED BY <1>1, <1>2, <1>4, <2>2, <2>4, <2>6, <2>7 DEF DeriveKeypair, FirstField, IInv, TypeOK, AtStart, Checked, AtCheck, PathAt, AtDerive,
    PathTaken, AtFields, ReadsFields, AtFinish, ReadsOwnBytes, Complete, ShortPath
<1> QED BY <1>3, <1>4 DEF DeriveKeypair
LEMMA FieldsFacts ==
  ASSUME IInv, pc = "fields"
  PROVE  /\ call \in Calls /\ call # NoCall
         /\ call.ins \in Handlers /\ call.lc \in ValidLC[call.ins]
         /\ call.lc \in Nat /\ call.components \in Nat
         /\ FirstField(call) \in Nat
         /\ field \in 1..(Len(Fields[call.ins]) + 1)
         /\ ptr = FirstField(call) + Offset[call.ins][field]
<1>1. call \in Calls /\ call # NoCall /\ call.ins \in Handlers /\ call.lc \in ValidLC[call.ins]
  BY DEF IInv, TypeOK, Checked
<1>2. call.lc \in Nat /\ call.components \in Nat
  BY <1>1, CallIsRecord
<1> QED BY <1>1, <1>2 DEF IInv, AtFields, FirstField, CDATA

\* Sums that the steps below rest on.
LEMMA Within ==
  ASSUME NEW first \in Nat, NEW off \in Nat, NEW last \in Nat, NEW end \in Nat,
         off <= last, first + last <= end
  PROVE  first + off <= end
  OBVIOUS

LEMMA ReadFieldInv == ASSUME IInv, ReadField PROVE IInv'
<1>1. /\ pc = "fields" /\ pc' = "fields" /\ field' = field + 1
      /\ ptr' = ptr + Fields[call.ins][field] /\ reads' = ptr'
      /\ UNCHANGED <<call, dataLen, answer>>
      /\ field <= Len(Fields[call.ins])
  BY DEF ReadField
<1>2. /\ call \in Calls /\ call # NoCall
      /\ call.ins \in Handlers /\ call.lc \in ValidLC[call.ins]
      /\ call.lc \in Nat /\ FirstField(call) \in Nat
      /\ field \in 1..(Len(Fields[call.ins]) + 1)
      /\ ptr = FirstField(call) + Offset[call.ins][field]
  BY <1>1, FieldsFacts
<1>3. Len(Fields[call.ins]) \in 0..7
  BY <1>2, LastOffset
<1>4. field \in 1..Len(Fields[call.ins])
  BY <1>1, <1>2, <1>3
<1>5. /\ Fields[call.ins][field] \in Nat /\ Offset[call.ins][field] \in Nat
      /\ Offset[call.ins][field + 1] = Offset[call.ins][field] + Fields[call.ins][field]
      /\ field + 1 \in 1..8
  BY <1>2, <1>4, NextOffset
<1>6. ptr' = FirstField(call) + Offset[call.ins][field + 1] /\ ptr' \in Nat
  <2>1. ptr' = (FirstField(call) + Offset[call.ins][field]) + Fields[call.ins][field]
    BY <1>1, <1>2
  <2>2. ptr' = FirstField(call) + (Offset[call.ins][field] + Fields[call.ins][field])
    BY <1>2, <1>5, <2>1
  <2>3. ptr' \in Nat
    BY <1>2, <1>5, <2>2
  <2> QED BY <1>5, <2>2, <2>3
<1>7. field + 1 \in 1..(Len(Fields[call.ins]) + 1)
  BY <1>3, <1>4
<1>8. call.ins # "get_address"
  BY <1>4 DEF Fields, Handlers
<1>9. Complete /\ ShortPath => ptr' <= call.inLength
  <2>1. SUFFICES ASSUME Complete, ShortPath PROVE ptr' <= call.inLength
    OBVIOUS
  <2>2. FirstField(call) + Offset[call.ins][Len(Fields[call.ins]) + 1] <= CDATA + call.lc
    BY <1>2, <1>8, <2>1, LCIsEnough DEF ShortPath
  <2>3. Offset[call.ins][field + 1] \in 0..Offset[call.ins][Len(Fields[call.ins]) + 1]
    BY <1>2, <1>7, OffsetRange
  <2>4. Offset[call.ins][Len(Fields[call.ins]) + 1] \in Nat
    BY <1>2, LastOffset
  <2>5. CDATA + call.lc \in Nat
    BY <1>2 DEF CDATA
  <2>6. FirstField(call) + Offset[call.ins][field + 1] <= CDATA + call.lc
    BY <1>2, <2>2, <2>3, <2>4, <2>5, Within
  <2> QED BY <1>6, <2>1, <2>6 DEF Complete
<1> QED BY <1>1, <1>2, <1>5, <1>6, <1>7, <1>8, <1>9 DEF FirstField, IInv, TypeOK, AtStart, Checked, AtCheck, PathAt, AtDerive,
    PathTaken, AtFields, ReadsFields, AtFinish, ReadsOwnBytes, Complete, ShortPath

LEMMA TakeDataInv == ASSUME IInv, TakeData PROVE IInv'
<1> DEFINE rest == call.lc - (ptr - CDATA)
<1>1. /\ pc = "fields" /\ pc' = "finish" /\ UNCHANGED <<call, field, ptr, answer>>
      /\ reads' = IF dataLen' > 0 THEN ptr + dataLen' ELSE reads
      /\ dataLen' = CASE call.ins = "sign_send_block" -> rest % LenWord
                      [] call.ins = "cache_send_block_data" -> call.lc
                      [] OTHER -> 0
      /\ field > Len(Fields[call.ins])
  BY DEF TakeData
<1>2. /\ call \in Calls /\ call # NoCall
      /\ call.ins \in Handlers /\ call.lc \in ValidLC[call.ins]
      /\ FirstField(call) \in Nat
      /\ field \in 1..(Len(Fields[call.ins]) + 1)
      /\ ptr = FirstField(call) + Offset[call.ins][field]
  BY <1>1, FieldsFacts
<1>3. call.lc \in 0..255
  BY <1>2, CallIsRecord
<1>4. field = Len(Fields[call.ins]) + 1
  BY <1>1, <1>2, LastOffset
<1>5. ptr \in Nat /\ reads \in Nat
  BY DEF IInv, TypeOK
<1>6. LenWord \in Nat /\ LenWord > 255
  BY CallAssumption
<1>7. rest \in Int
  BY <1>3, <1>5 DEF CDATA
<1>8. rest % LenWord \in 0..(LenWord - 1)
  BY <1>6, <1>7
<1>9. dataLen' \in 0..(LenWord - 1)
  <2>1. CASE call.ins = "sign_send_block"
    BY <1>1, <1>8, <2>1
  <2>2. CASE call.ins # "sign_send_block"
    <3>1. dataLen' \in {0, call.lc}
      BY <1>1, <2>2
    <3> QED BY <1>3, <1>6, <3>1
  <2> QED BY <2>1, <2>2
<1>10. dataLen' \in Nat
  BY <1>6, <1>9
<1>11. reads = IF call.ins = "get_address" THEN CDATA + 1 + 4 * call.components ELSE ptr
  BY <1>1 DEF IInv, ReadsFields
<1>12. reads' \in Nat
  BY <1>1, <1>5, <1>10
<1>13. call.ins # "get_address" => reads' = ptr + dataLen'
  BY <1>1, <1>5, <1>10, <1>11
<1>14. call.ins = "get_address" => reads' = reads
  BY <1>1
<1>15. Complete /\ ShortPath /\ call.ins # "get_address" => reads' <= call.inLength
  <2>1. SUFFICES ASSUME Complete, ShortPath, call.ins # "get_address"
                 PROVE  ptr + dataLen' <= CDATA + call.lc
    BY <1>13 DEF Complete
  <2>2. ptr <= CDATA + call.lc
    BY <1>2, <1>4, <2>1, LCIsEnough DEF ShortPath
  <2>3. CASE call.ins = "sign_send_block"
    <3>1. ptr >= CDATA
      BY <1>2, <1>4, <2>3, LastOffset, CallIsRecord DEF FirstField, Signs, CDATA
    <3>2. rest \in 0..(LenWord - 1)
      BY <1>3, <1>5, <1>6, <2>2, <3>1 DEF CDATA
    <3>3. rest % LenWord = rest
      BY <1>6, <3>2
    <3>4. dataLen' = call.lc - (ptr - CDATA)
      BY <1>1, <2>3, <3>3
    <3> QED BY <1>3, <1>5, <3>4 DEF CDATA
  <2>4. CASE call.ins = "cache_send_block_data"
    <3>1. ptr = CDATA
      BY <1>2, <1>4, <2>4, LastOffset DEF FirstField, Signs, CDATA
    <3>2. dataLen' = call.lc
      BY <1>1, <2>4
    <3> QED BY <1>3, <3>1, <3>2 DEF CDATA
  <2>5. CASE call.ins \notin {"sign_send_block", "cache_send_block_data"}
    BY <1>1, <1>5, <2>2, <2>5
  <2> QED BY <2>3, <2>4, <2>5
<1>16. PathTaken' /\ AtFields'
  BY <1>1, <1>2 DEF IInv, PathTaken, AtFields, FirstField
<1>17. AtFinish'
  BY <1>1, <1>4, <1>5, <1>10, <1>11, <1>13, <1>14 DEF AtFinish
<1> QED BY <1>1, <1>2, <1>5, <1>9, <1>12, <1>15, <1>16, <1>17 DEF IInv, TypeOK,
  AtStart, Checked, AtCheck, PathAt, AtDerive, ReadsFields, ReadsOwnBytes, Complete, ShortPath

LEMMA NextInv == ASSUME IInv, [Next]_vars PROVE IInv'
<1>1. CASE \E c \in Calls : Receive(c)
  BY <1>1, ReceiveInv
<1>2. CASE UNCHANGED vars
  BY <1>2 DEF vars, cursor, IInv, TypeOK, AtStart, Checked, AtCheck, PathAt, AtDerive,
    PathTaken, AtFields, ReadsFields, AtFinish, ReadsOwnBytes, Complete, ShortPath
<1> QED
  BY <1>1, <1>2, DispatchInv, CheckHeaderInv, ReadPathInv, RefuseInv, DeriveKeypairInv,
     ReadFieldInv, TakeDataInv, FinishInv, ReplyInv DEF Next
-----------------------------------------------------------------------------
THEOREM Invariance == Spec => []IInv
  BY InitInv, NextInv, PTL DEF Spec

\* The type invariant.
THEOREM TypeCorrect == Spec => []TypeOK
<1>1. IInv => TypeOK
  BY DEF IInv
<1> QED BY <1>1, Invariance, PTL

\* For every call whose path has at most three components and whose LC counts
\* its bytes, no byte of an earlier call is read: the lengths asked for
\* (libv_apdu_sign_send_block.c:56, libv_apdu_sign_receive_block.c:58 and those
\* of the other handlers) cover every field.
THEOREM NoStaleByte == Spec => []ReadsOwnBytes
<1>1. IInv => ReadsOwnBytes
  BY DEF IInv
<1> QED BY <1>1, Invariance, PTL

\* For every such call, what is signed as the data of a send block is all that
\* follows the fields; the length never wraps, whatever the word it is kept in.
THEOREM AllDataSigned == Spec => []DataIsTheRest
<1>1. ASSUME IInv PROVE DataIsTheRest
  <2>1. SUFFICES ASSUME pc = "finish", Complete, ShortPath, call.ins = "sign_send_block"
                 PROVE  ptr + dataLen = call.inLength
    BY DEF DataIsTheRest
  <2> DEFINE last == Offset[call.ins][Len(Fields[call.ins]) + 1]
  <2>2. /\ call \in Calls /\ call.ins \in Handlers /\ call.lc \in ValidLC[call.ins]
        /\ ptr = FirstField(call) + last
        /\ dataLen = (call.lc - (ptr - CDATA)) % LenWord
    BY <1>1, <2>1 DEF IInv, TypeOK, Checked, AtFields, AtFinish
  <2>3. ptr <= CDATA + call.lc
    BY <2>1, <2>2, LCIsEnough DEF ShortPath
  <2>4. call.lc \in 0..255 /\ call.components \in 0..255
    BY <2>2, CallIsRecord
  <2>5. last = 143 /\ FirstField(call) = CDATA + 1 + 4 * call.components
    BY <2>1, <2>2, LastOffset DEF FirstField, Signs
  <2>6. LenWord \in Nat /\ LenWord > 255
    BY CallAssumption
  <2>7. ptr \in Nat /\ ptr >= CDATA
    <3>1. ptr = (CDATA + 1 + 4 * call.components) + 143
      BY <2>2, <2>5
    <3> QED BY <2>4, <3>1 DEF CDATA
  <2>8. call.lc - (ptr - CDATA) \in 0..(LenWord - 1)
    BY <2>3, <2>4, <2>6, <2>7 DEF CDATA
  <2>9. dataLen = call.lc - (ptr - CDATA)
    BY <2>2, <2>6, <2>8
  <2>10. ptr + dataLen = CDATA + call.lc
    BY <2>4, <2>7, <2>9 DEF CDATA
  <2> QED BY <2>1, <2>10 DEF Complete
<1> QED BY <1>1, Invariance, PTL

\* Whatever a call says of its path, the path and the fields lie in the buffer.
THEOREM FieldsInBuffer == Spec => []StaysInBuffer
<1>1. ASSUME IInv PROVE StaysInBuffer
  <2>1. CASE pc = "path"
    BY <1>1, <2>1 DEF IInv, AtStart, StaysInBuffer, CDATA, IO_APDU_BUFFER_SIZE
  <2>2. CASE pc = "derive"
    <3>1. PathLen(call.components) \in 1..255
      BY <1>1, <2>2, CallIsRecord, PathLenRange DEF IInv, TypeOK
    <3> QED BY <1>1, <2>2, <3>1 DEF IInv, AtDerive, StaysInBuffer, MIN, KeyPathSize,
      MAX_BIP32_PATH, CDATA, IO_APDU_BUFFER_SIZE
  <2>3. CASE pc = "fields"
    <3>1. /\ call.ins \in Handlers /\ call.components \in Nat
          /\ field \in 1..(Len(Fields[call.ins]) + 1)
          /\ ptr = FirstField(call) + Offset[call.ins][field]
      BY <1>1, <2>3, FieldsFacts
    <3>2. Offset[call.ins][field] \in 0..143
      <4>1. Offset[call.ins][Len(Fields[call.ins]) + 1] \in 0..143
        <5> DEFINE last == Offset[call.ins][Len(Fields[call.ins]) + 1]
        <5>1. last = 143 \/ last = 80 \/ last = 2 \/ last = 42 \/ last = 0
          BY <3>1, LastOffset
        <5> HIDE DEF last
        <5> QED BY <5>1 DEF last
      <4>2. Offset[call.ins][field] \in 0..Offset[call.ins][Len(Fields[call.ins]) + 1]
        BY <3>1, OffsetRange
      <4> DEFINE last == Offset[call.ins][Len(Fields[call.ins]) + 1]
                 off == Offset[call.ins][field]
      <4> HIDE DEF last, off
      <4>3. last \in 0..143 /\ off \in 0..last
        BY <4>1, <4>2 DEF last, off
      <4>4. off \in 0..143
        BY <4>3
      <4> QED BY <4>4 DEF off
    <3>3. call.ins \in WithPath => call.components <= 10
      BY <1>1, <2>3 DEF IInv, PathTaken, MAX_BIP32_PATH
    <3>4. reads = IF call.ins = "get_address" THEN CDATA + 1 + 4 * call.components ELSE ptr
      BY <1>1, <2>3 DEF IInv, ReadsFields
    <3>5. FirstField(call) <= CDATA + 41 /\ FirstField(call) \in Nat
      BY <3>1, <3>3 DEF FirstField, Signs, WithPath, CDATA
    <3>6. reads <= CDATA + 41 + 143
      <4>1. CASE call.ins = "get_address"
        BY <3>1, <3>3, <3>4, <4>1 DEF WithPath, CDATA
      <4>2. CASE call.ins # "get_address"
        <5>1. reads = FirstField(call) + Offset[call.ins][field]
          BY <3>1, <3>4, <4>2
        <5> QED BY <3>2, <3>5, <5>1 DEF CDATA
      <4> QED BY <4>1, <4>2
    <3>7. reads \in Nat
      BY <1>1 DEF IInv, TypeOK
    <3> QED BY <3>6, <3>7 DEF StaysInBuffer, CDATA, IO_APDU_BUFFER_SIZE
  <2> QED BY <2>1, <2>2, <2>3 DEF StaysInBuffer
<1> QED BY <1>1, Invariance, PTL
=============================================================================
