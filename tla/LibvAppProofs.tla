---------------------------- MODULE LibvAppProofs ----------------------------
(***************************************************************************)
(* Proofs about LibvApp that hold for every set of APDUs, every hash of    *)
(* them, every transport and overlap the SDK may allow, every timeout and  *)
(* every size of the data buffer.                                          *)
(***************************************************************************)
EXTENDS LibvApp, TLAPS

-----------------------------------------------------------------------------
(* What the operators of SendBlockData preserve, for every set of bytes and
   every size of the screen buffer. *)

(* The buffer after a copy is a buffer. *)
LEMMA CopyAtType ==
  ASSUME NEW buf \in Buffer, NEW n \in Nat, NEW s \in Seq(Byte)
  PROVE  CopyAt(buf, n, s) \in Buffer
<1>1. ASSUME NEW i \in 1..DataCap, n < i, i <= n + Len(s)
      PROVE  s[i - n] \in Byte
  <2>1. Len(s) \in Nat /\ DataCap \in Nat /\ i \in Nat
    BY DataAssumption
  <2>2. i - n \in 1..Len(s)
    BY <1>1, <2>1
  <2> QED
    BY <2>2
<1> QED
  BY <1>1 DEF CopyAt, Buffer

(* An absorbed record is a record. *)
LEMMA AbsorbType ==
  ASSUME NEW d \in Data, NEW s \in Seq(Byte)
  PROVE  Absorb(d, s) \in Data
<1>1. CopyAt(d.data, d.dataLen, s) \in Buffer
  BY CopyAtType DEF Data
<1>2. d.dataLen + Len(s) \in Nat
  BY DEF Data
<1>3. d.c \o s \in Seq(Byte) /\ d.live \in BOOLEAN
  BY DEF Data
<1>4. (d.dataIsNote /\ AllPrintable(s)) \in BOOLEAN
  OBVIOUS
<1> QED
  BY <1>1, <1>2, <1>3, <1>4 DEF Absorb, Data

(* Text is printable in all its parts and in no others. *)
LEMMA PrintableConcat ==
  ASSUME NEW c \in Seq(Byte), NEW s \in Seq(Byte),
         AllPrintable(c), AllPrintable(s)
  PROVE  AllPrintable(c \o s)
<1> SUFFICES ASSUME NEW i \in 1..Len(c \o s)
             PROVE  (c \o s)[i] \in Printable
  BY DEF AllPrintable
<1>1. CASE i <= Len(c)
  BY <1>1 DEF AllPrintable
<1>2. CASE i > Len(c)
  <2>1. i - Len(c) \in 1..Len(s) /\ (c \o s)[i] = s[i - Len(c)]
    BY <1>2
  <2> QED
    BY <2>1 DEF AllPrintable
<1> QED
  BY <1>1, <1>2

(* Absorbing a chunk keeps the screen's view and the hashed bytes equal. *)
LEMMA AbsorbFaithful ==
  ASSUME NEW d \in Data, NEW s \in Seq(Byte), Faithful(d)
  PROVE  Faithful(Absorb(d, s))
<1> DEFINE e == Absorb(d, s)
<1> SUFFICES ASSUME d.live
             PROVE  /\ e.dataLen = Len(e.c)
                    /\ \A i \in 1..DataCap : i <= e.dataLen => e.data[i] = e.c[i]
                    /\ e.dataIsNote => AllPrintable(e.c)
  BY DEF Faithful, Absorb
<1>1. /\ d.dataLen = Len(d.c)
      /\ \A i \in 1..DataCap : i <= d.dataLen => d.data[i] = d.c[i]
      /\ d.dataIsNote => AllPrintable(d.c)
  BY DEF Faithful
<1>2. d.c \in Seq(Byte) /\ d.dataLen \in Nat /\ DataCap \in Nat
  BY DataAssumption DEF Data
<1>3. e.dataLen = Len(e.c)
  BY <1>1, <1>2 DEF Absorb
<1>4. ASSUME NEW i \in 1..DataCap, i <= e.dataLen
      PROVE  e.data[i] = e.c[i]
  <2>1. e.data[i] = IF d.dataLen < i /\ i <= d.dataLen + Len(s)
                    THEN s[i - d.dataLen] ELSE d.data[i]
    BY DEF Absorb, CopyAt
  <2>2. e.c = d.c \o s /\ i <= d.dataLen + Len(s)
    BY <1>4 DEF Absorb
  <2>3. CASE i <= d.dataLen
    <3>1. e.c[i] = d.c[i]
      BY <1>1, <1>2, <2>2, <2>3
    <3> QED
      BY <1>1, <1>2, <2>1, <2>3, <3>1
  <2>4. CASE i > d.dataLen
    <3>1. e.c[i] = s[i - Len(d.c)]
      BY <1>1, <1>2, <2>2, <2>4
    <3> QED
      BY <1>1, <1>2, <2>1, <2>2, <2>4, <3>1
  <2> QED
    BY <1>2, <2>3, <2>4
<1>5. e.dataIsNote => AllPrintable(e.c)
  BY <1>1, <1>2, PrintableConcat DEF Absorb
<1> QED
  BY <1>3, <1>4, <1>5

(* The two records that absorption starts from. *)
LEMMA StartType == ZeroData \in Data /\ FreshData \in Data
BY DataAssumption DEF ZeroData, FreshData, Data, Buffer, Uninitialised

LEMMA StartFaithful == Faithful(ZeroData) /\ Faithful(FreshData)
<1>1. Len(<< >>) = 0 /\ AllPrintable(<< >>)
  BY DEF AllPrintable
<1>2. ~ZeroData.live
  BY DEF ZeroData
<1>3. \A i \in 1..DataCap : ~(i <= 0)
  BY DataAssumption
<1> QED
  BY <1>1, <1>2, <1>3 DEF Faithful, FreshData

(* Copying the cache out keeps what it counts, and NoteUnlessEmpty only ever
   withdraws the claim that the data is text. *)
LEMMA CopyOutKeeps ==
  ASSUME NEW d \in Data
  PROVE  CopyOut(d) \in Data /\ (Faithful(d) => Faithful(CopyOut(d)))
BY DEF CopyOut, Data, Buffer, Faithful

LEMMA NoteUnlessEmptyKeeps ==
  ASSUME NEW d \in Data
  PROVE  /\ NoteUnlessEmpty(d) \in Data
         /\ Faithful(d) => Faithful(NoteUnlessEmpty(d))
BY DEF NoteUnlessEmpty, Data, Faithful

(* A send block's data, from the cache or not, is a record, and shows what is
   hashed if the cache does. *)
LEMMA FromCacheKeeps ==
  ASSUME NEW d \in Data, NEW s \in Seq(Byte)
  PROVE  /\ FromCache(d, s) \in Data
         /\ Faithful(d) => Faithful(FromCache(d, s))
BY CopyOutKeeps, AbsorbType, AbsorbFaithful, NoteUnlessEmptyKeeps
   DEF FromCache

LEMMA FromApduKeeps ==
  ASSUME NEW g \in BOOLEAN, NEW s \in Seq(Byte)
  PROVE  FromApdu(s, g) \in Data /\ Faithful(FromApdu(s, g))
<1> DEFINE d == [FreshData EXCEPT !.dataIsNote = g]
<1>1. d \in Data
  BY StartType DEF Data
<1>2. Faithful(d)
  <2>1. AllPrintable(<< >>) /\ d.c = << >> /\ Len(<< >>) = 0
    BY DEF AllPrintable, FreshData
  <2>2. \A i \in 1..DataCap : ~(i <= 0)
    BY DataAssumption
  <2>3. d.dataLen = 0
    BY DEF FreshData
  <2> QED
    BY <2>1, <2>2, <2>3 DEF Faithful
<1> QED
  BY <1>1, <1>2, AbsorbType, AbsorbFaithful, NoteUnlessEmptyKeeps DEF FromApdu

-----------------------------------------------------------------------------
(* The invariant.  TypeOK is not inductive on its own: a button queues the
   contents of the union as the request that was answered, which is a request
   only because a screen is installed for the current state, and that state
   never leaves the union empty. *)
UnionMatchesState ==
  /\ state # "READY" => request # NoRequest /\ async = NoAnswer
  /\ channel = "IDLE" <=> waiting = NoApdu

IInv == TypeOK /\ ScreenMatchesRequest /\ UnionMatchesState

(* What the dispatcher may rely on about an APDU. *)
LEMMA ApduFacts ==
  ASSUME NEW a \in Apdu
  PROVE  /\ a.op \in Ops /\ a.form \in Form /\ a.path \in BOOLEAN
         /\ a.data \in Seq(Byte) /\ Hash[a] \in Nat /\ a # NoApdu
<1>1. a \in ApduFields
  BY AppAssumption
<1>2. Hash[a] \in Nat /\ a # NoApdu
  BY AppAssumption
<1> QED
  BY <1>1, <1>2 DEF ApduFields

(* Every transport has a name other than "IDLE". *)
LEMMA TransportFacts ==
  ASSUME NEW t \in Transports
  PROVE  t \in {"HID", "U2F"} /\ t # "IDLE"
BY AppAssumption

(* A response is a message, and leaves nobody waiting. *)
LEMMA RespondType ==
  ASSUME NEW a \in Apdu \cup {NoApdu}, NEW sw \in StatusWord,
         NEW r \in Request \cup {NoRequest}, Respond(a, sw, r)
  PROVE  /\ channel' = "IDLE" /\ waiting' = NoApdu
         /\ sent' \in Messages
BY DEF Respond, Messages

(* So is silence. *)
LEMMA SilenceType == Silence \in Messages /\ Boot \in Messages
<1>1. /\ NoApdu \in Apdu \cup {NoApdu}
      /\ NoRequest \in Request \cup {NoRequest}
      /\ "none" \in StatusWord \cup {"none", "boot"}
      /\ "boot" \in StatusWord \cup {"none", "boot"}
  OBVIOUS
<1> QED
  BY <1>1 DEF Silence, Boot, Messages

(* The status words of a refusal. *)
LEMMA RefusalType ==
  ASSUME NEW a \in Apdu, NEW pin \in BOOLEAN
  PROVE  Refusal(a, pin) \in StatusWord
BY ApduFacts DEF Refusal, StatusWord

LEMMA InitIInv == Init => IInv
<1> SUFFICES ASSUME Init PROVE IInv
  OBVIOUS
<1>1. TypeOK
  <2>1. cached \in Data /\ sent \in Messages /\ halted \in BOOLEAN
    BY StartType, SilenceType DEF Init
  <2>2. u2fTimeout \in 0..Timeout /\ u2fRequestHash \in Nat
    BY AppAssumption DEF Init
  <2>3. /\ state \in States /\ bagl_state \in States
        /\ displayed \in BOOLEAN /\ channel \in {"IDLE"} \cup Transports
    BY DEF Init, States
  <2>4. /\ request \in Request \cup {NoRequest}
        /\ async \in Answers \cup {NoAnswer}
        /\ shown \in Request \cup {NoRequest}
        /\ waiting \in Apdu \cup {NoApdu}
    BY DEF Init
  <2> QED
    BY <2>1, <2>2, <2>3, <2>4 DEF TypeOK
<1>2. ScreenMatchesRequest /\ UnionMatchesState
  BY DEF Init, ScreenMatchesRequest, UnionMatchesState
<1> QED
  BY <1>1, <1>2 DEF IInv

(* A handler that answers at once and changes nothing keeps the invariant. *)
LEMMA SyncKeepsIInv ==
  ASSUME IInv, NEW a \in Apdu, NEW sw \in StatusWord,
         Respond(a, sw, NoRequest), UNCHANGED <<op, ui, u2f>>,
         halted' \in BOOLEAN, cached' \in Data
  PROVE  IInv'
<1>1. channel' = "IDLE" /\ waiting' = NoApdu /\ sent' \in Messages
  BY RespondType
<1>2. TypeOK'
  BY <1>1 DEF IInv, TypeOK, op, ui, u2f
<1>3. ScreenMatchesRequest' /\ UnionMatchesState'
  BY <1>1 DEF IInv, ScreenMatchesRequest, UnionMatchesState, op, ui
<1> QED
  BY <1>2, <1>3 DEF IInv

(* So does one that prompts. *)
LEMMA PromptKeepsIInv ==
  ASSUME IInv, NEW t \in Transports, NEW a \in Apdu,
         NEW screen \in Screens, NEW d \in Data, a.op \in PromptOps,
         Prompt(t, a, screen, d)
  PROVE  IInv'
<1>1. state = "READY" /\ bagl_state = "READY"
  <2>1. Refusal(a, TRUE) = LIBV_SW_OK
    BY DEF Prompt, Accepted
  <2>2. state = "READY"
    BY <2>1 DEF Refusal, Denied, ReadyOps, LIBV_SW_OK,
                LIBV_SW_SECURITY_STATUS_NOT_SATISFIED
  <2> QED
    BY <2>2 DEF IInv, ScreenMatchesRequest
<1>2. request' = [apdu |-> a, d |-> d] /\ request' \in Request
  BY DEF Prompt, Request
<1>3. request' # NoRequest
  BY <1>2, RequestAssumption
<1>4. screen \in States /\ screen # "READY"
  BY DEF Screens, States
<1>5. sent' \in Messages /\ waiting' = a /\ channel' = t
  BY SilenceType DEF Prompt, Await
<1>6. u2fRequestHash' \in Nat /\ u2fTimeout' \in 0..Timeout
  BY ApduFacts, AppAssumption DEF Prompt, TrackU2f, IInv, TypeOK
<1>7. /\ bagl_state' \in States /\ displayed' \in BOOLEAN
      /\ shown' \in Request \cup {NoRequest}
      /\ bagl_state' # "READY" => bagl_state' = screen /\ shown' = request'
  BY <1>1, <1>2, <1>4 DEF Prompt, Install, ui, IInv, TypeOK
<1>8. TypeOK'
  BY <1>2, <1>4, <1>5, <1>6, <1>7 DEF Prompt, TypeOK, IInv
<1>9. ScreenMatchesRequest'
  BY <1>7 DEF Prompt, ScreenMatchesRequest
<1>10. UnionMatchesState'
  BY <1>3, <1>5, ApduFacts, TransportFacts DEF Prompt, UnionMatchesState
<1> QED
  BY <1>8, <1>9, <1>10 DEF IInv

LEMMA DeliverKeepsIInv ==
  ASSUME IInv, NEW t \in Transports, NEW a \in Apdu, Deliver(t, a)
  PROVE  IInv'
<1> USE ApduFacts, TransportFacts
<1>1. CASE AnswerHalted(t, a)
  BY <1>1, SyncKeepsIInv
     DEF AnswerHalted, IInv, TypeOK, StatusWord
<1>2. CASE ResumePending(t, a)
  <2>1. /\ UNCHANGED <<halted, op, cached, ui, u2fRequestHash>>
        /\ u2fTimeout' \in 0..Timeout
        /\ channel' = t /\ waiting' = a /\ sent' \in Messages
    BY <1>2, AppAssumption, SilenceType DEF ResumePending, Await
  <2>2. TypeOK'
    BY <2>1 DEF IInv, TypeOK, op, ui
  <2> QED
    BY <2>1, <2>2
       DEF IInv, ScreenMatchesRequest, UnionMatchesState, op, ui
<1>3. CASE ReturnQueued(t, a)
  <2>1. async \in Answers
    BY <1>3 DEF ReturnQueued, Queued, NoAnswer, IInv, TypeOK
  <2>2. async.request \in Request /\ async.sw \in StatusWord
    BY <2>1 DEF Answers, StatusWord, Form
  <2>3. channel' = "IDLE" /\ waiting' = NoApdu /\ sent' \in Messages
    BY <1>3, <2>2, RespondType DEF ReturnQueued
  <2>4. TypeOK'
    BY <1>3, <2>3 DEF ReturnQueued, IInv, TypeOK, ui, u2f
  <2> QED
    BY <1>3, <2>3, <2>4
       DEF ReturnQueued, IInv, ScreenMatchesRequest, UnionMatchesState, ui
<1>4. CASE Reject(t, a)
  BY <1>4, SyncKeepsIInv, RefusalType DEF Reject, IInv, TypeOK
<1>5. CASE Fault(t, a)
  BY <1>5, SyncKeepsIInv DEF Fault, IInv, TypeOK, StatusWord
<1>6. ASSUME NEW handler, AnswerAtOnce(t, a, handler), cached' \in Data
      PROVE  IInv'
  BY <1>6, SyncKeepsIInv
     DEF AnswerAtOnce, IInv, TypeOK, StatusWord, Form
<1>7. ASSUME UNCHANGED cached
      PROVE  cached' \in Data
  BY <1>7 DEF IInv, TypeOK
<1>8. CASE GetAppConf(t, a)
  BY <1>6, <1>7, <1>8 DEF GetAppConf
<1>9. CASE GetTokenInfo(t, a)
  BY <1>6, <1>7, <1>9 DEF GetTokenInfo
<1>10. CASE TestAmountText(t, a)
  BY <1>6, <1>7, <1>10 DEF TestAmountText
<1>11. CASE GetAddress(t, a)
  BY <1>6, <1>7, <1>11 DEF GetAddress
<1>12. CASE SignReceiveBlock(t, a)
  BY <1>6, <1>7, <1>12 DEF SignReceiveBlock
<1>13. CASE CacheFirst(t, a)
  BY <1>6, <1>13, StartType, AbsorbType DEF CacheFirst
<1>14. CASE CacheOther(t, a)
  <2>1. cached' \in Data
    BY <1>14, AbsorbType DEF CacheOther, IInv, TypeOK
  <2> QED
    BY <1>6, <1>14, <2>1 DEF CacheOther
<1>15. CASE DisplayAddress(t, a)
  <2>1. << >> \in Seq(Byte) /\ FALSE \in BOOLEAN
    OBVIOUS
  <2>2. FromApdu(<< >>, FALSE) \in Data
    BY ONLY <2>1, FromApduKeeps
  <2> QED
    BY <1>15, <2>2, PromptKeepsIInv DEF DisplayAddress, Screens, PromptOps
<1>16. CASE SignSendBlock(t, a)
  BY <1>16, FromApduKeeps, PromptKeepsIInv
     DEF SignSendBlock, Screens, PromptOps
<1>17. CASE SignSendCached(t, a)
  <2>1. FromCache(cached, a.data) \in Data
    BY FromCacheKeeps DEF IInv, TypeOK
  <2> QED
    BY <1>17, <2>1, PromptKeepsIInv DEF SignSendCached, Screens, PromptOps
<1> QED
  BY <1>1, <1>2, <1>3, <1>4, <1>5, <1>8, <1>9, <1>10, <1>11, <1>12, <1>13,
     <1>14, <1>15, <1>16, <1>17 DEF Deliver

(* The events.  app_apply_state's two halves first. *)
LEMMA RedrawKeepsIInv ==
  ASSUME IInv, Redraw
  PROVE  IInv'
<1>1. /\ bagl_state' = state /\ displayed' = FALSE /\ sent' \in Messages
      /\ shown' = IF state = "READY" THEN NoRequest ELSE request
      /\ UNCHANGED <<halted, op, cached, link, u2f>>
  BY SilenceType DEF Redraw, Install
<1>2. TypeOK'
  BY <1>1 DEF IInv, TypeOK, op, link, u2f
<1> QED
  BY <1>1, <1>2
     DEF IInv, ScreenMatchesRequest, UnionMatchesState, op, link

LEMMA SendQueuedKeepsIInv ==
  ASSUME IInv, SendQueued
  PROVE  IInv'
<1>1. async \in Answers /\ state = "READY" /\ bagl_state = "READY"
  BY DEF SendQueued, Sendable, Queued, NoAnswer, IInv, TypeOK
<1>2. async.request \in Request /\ async.sw \in StatusWord
  BY <1>1 DEF Answers, StatusWord, Form
<1>3. waiting \in Apdu \cup {NoApdu}
  BY DEF IInv, TypeOK
<1>4. channel' = "IDLE" /\ waiting' = NoApdu /\ sent' \in Messages
  BY <1>2, <1>3, RespondType DEF SendQueued
<1>5. TypeOK'
  BY <1>4, AppAssumption DEF SendQueued, IInv, TypeOK
<1> QED
  BY <1>1, <1>4, <1>5
     DEF SendQueued, IInv, ScreenMatchesRequest, UnionMatchesState

LEMMA ButtonKeepsIInv ==
  ASSUME IInv, NEW confirmed \in BOOLEAN, Button(confirmed)
  PROVE  IInv'
<1>1. request \in Request
  BY DEF Button, SignSendBlockButton, DisplayAddressButton,
         Callback, AsyncResponse, IInv, TypeOK, ScreenMatchesRequest, UnionMatchesState
<1>2. async' \in Answers
  BY <1>1 DEF Button, SignSendBlockButton, DisplayAddressButton,
         Callback, AsyncResponse, Answers
<1>3. /\ state' = "READY" /\ bagl_state' = "READY" /\ shown' = NoRequest
      /\ displayed' = FALSE /\ sent' \in Messages
      /\ UNCHANGED <<halted, request, cached, link, u2f>>
  BY SilenceType DEF Button, SignSendBlockButton, DisplayAddressButton,
         Callback, AsyncResponse, Install
<1>4. TypeOK'
  BY <1>2, <1>3 DEF IInv, TypeOK, States, link, u2f
<1> QED
  BY <1>3, <1>4
     DEF IInv, ScreenMatchesRequest, UnionMatchesState, link

LEMMA DisplayProcessedKeepsIInv ==
  ASSUME IInv, DisplayProcessed
  PROVE  IInv'
<1>1. CASE Redraw
  BY <1>1, RedrawKeepsIInv
<1>2. CASE SendQueued
  BY <1>2, SendQueuedKeepsIInv
<1>3. CASE /\ displayed' = TRUE /\ sent' = Silence
           /\ UNCHANGED <<halted, op, cached, bagl_state, shown, link, u2f>>
  <2>1. TypeOK'
    BY <1>3, SilenceType DEF IInv, TypeOK, op, link, u2f
  <2> QED
    BY <1>3, <2>1
       DEF IInv, ScreenMatchesRequest, UnionMatchesState, op, link
<1> QED
  BY <1>1, <1>2, <1>3 DEF DisplayProcessed

LEMMA TickerKeepsIInv ==
  ASSUME IInv, Ticker
  PROVE  IInv'
<1>1. CASE Redraw
  BY <1>1, RedrawKeepsIInv
<1>2. CASE SendQueued
  BY <1>2, SendQueuedKeepsIInv
<1>3. CASE RequestTimeout
  <2>1. /\ waiting \in Apdu \cup {NoApdu}
        /\ LIBV_SW_CONDITIONS_OF_USE_NOT_SATISFIED \in StatusWord
    BY DEF IInv, TypeOK, StatusWord
  <2>2. channel' = "IDLE" /\ waiting' = NoApdu /\ sent' \in Messages
    BY <1>3, <2>1, RespondType DEF RequestTimeout
  <2>3. TypeOK'
    BY <1>3, <2>2, AppAssumption DEF RequestTimeout, IInv, TypeOK, op, ui
  <2> QED
    BY <1>3, <2>2, <2>3 DEF RequestTimeout, IInv, ScreenMatchesRequest,
                            UnionMatchesState, op, ui
<1>4. CASE CountDown
  <2>1. u2fTimeout' \in 0..Timeout
    BY <1>4, AppAssumption DEF CountDown, IInv, TypeOK
  <2>2. displayed \in BOOLEAN
    BY DEF IInv, TypeOK
  <2>3. displayed' = displayed \/ displayed' = FALSE
    BY <1>4, Zenon DEF CountDown
  <2>4. displayed' \in BOOLEAN
    BY <2>2, <2>3
  <2>5. TypeOK'
    BY <1>4, <2>1, <2>4, SilenceType DEF CountDown, IInv, TypeOK, op, link
  <2> QED
    BY <1>4, <2>5 DEF CountDown, IInv, ScreenMatchesRequest,
                      UnionMatchesState, op, link
<1> QED
  BY <1>1, <1>2, <1>3, <1>4 DEF Ticker

LEMMA MenuRedrawKeepsIInv ==
  ASSUME IInv, MenuRedraw
  PROVE  IInv'
<1>1. TypeOK'
  BY SilenceType DEF MenuRedraw, IInv, TypeOK, op, link, u2f
<1> QED
  BY <1>1 DEF MenuRedraw, IInv, ScreenMatchesRequest, UnionMatchesState,
              op, link

LEMMA RestartKeepsIInv ==
  ASSUME Restart
  PROVE  IInv'
<1>1. TypeOK'
  <2>1. cached' \in Data /\ sent' \in Messages /\ halted' \in BOOLEAN
    BY StartType, SilenceType DEF Restart
  <2>2. u2fTimeout' \in 0..Timeout /\ u2fRequestHash' \in Nat
    BY AppAssumption DEF Restart
  <2>3. /\ state' \in States /\ bagl_state' \in States
        /\ displayed' \in BOOLEAN /\ channel' \in {"IDLE"} \cup Transports
    BY DEF Restart, Install, States
  <2>4. /\ request' \in Request \cup {NoRequest}
        /\ async' \in Answers \cup {NoAnswer}
        /\ shown' \in Request \cup {NoRequest}
        /\ waiting' \in Apdu \cup {NoApdu}
    BY DEF Restart, Install
  <2> QED
    BY <2>1, <2>2, <2>3, <2>4 DEF TypeOK
<1> QED
  BY <1>1 DEF Restart, Install, IInv, ScreenMatchesRequest, UnionMatchesState

LEMMA StutterKeepsIInv ==
  ASSUME IInv, UNCHANGED vars
  PROVE  IInv'
<1>1. TypeOK'
  BY DEF IInv, TypeOK, vars, op, ui, link, u2f
<1> QED
  BY <1>1 DEF IInv, ScreenMatchesRequest, UnionMatchesState,
              vars, op, ui, link, u2f

LEMMA NextKeepsIInv == IInv /\ [Next]_vars => IInv'
BY DeliverKeepsIInv, ButtonKeepsIInv, DisplayProcessedKeepsIInv,
   TickerKeepsIInv, MenuRedrawKeepsIInv, RestartKeepsIInv, StutterKeepsIInv
   DEF Next

(* The invariant holds in every reachable state. *)
THEOREM Invariance == Spec => []IInv
BY InitIInv, NextKeepsIInv, PTL DEF Spec

(* Every variable keeps its type. *)
THEOREM TypeCorrect == Spec => []TypeOK
<1>1. IInv => TypeOK
  BY DEF IInv
<1> QED
  BY <1>1, Invariance, PTL

(* The screen a button answers is that of the current request: whatever the
   interleaving of APDUs, events and restarts, on any transport. *)
THEOREM ScreenSafe == Spec => []ScreenMatchesRequest
<1>1. IInv => ScreenMatchesRequest
  BY DEF IInv
<1> QED
  BY <1>1, Invariance, PTL

-----------------------------------------------------------------------------
(* Halted *)

(* A halted app has freed its channel, so nothing can be sent from the queue;
   the retry of an answered request is stopped by the test at the top. *)
LEMMA NextKeepsHalted ==
  HaltedReleasesNothing /\ [Next]_vars => HaltedReleasesNothing'
<1> SUFFICES ASSUME HaltedReleasesNothing, [Next]_vars
             PROVE  HaltedReleasesNothing'
  OBVIOUS
<1> USE DEF HaltedReleasesNothing
<1>1. ASSUME NEW t \in Transports, NEW a \in Apdu, Deliver(t, a)
      PROVE  HaltedReleasesNothing'
  <2>1. CASE AnswerHalted(t, a)
    BY <2>1 DEF AnswerHalted, Respond
  <2>2. CASE Fault(t, a)
    BY <2>2 DEF Fault, Respond
  <2>3. CASE ~halted /\ UNCHANGED halted
    BY <2>3
  <2>4. \/ AnswerHalted(t, a) \/ Fault(t, a)
        \/ ~halted /\ UNCHANGED halted
    BY <1>1 DEF Deliver, ResumePending, ReturnQueued, Reject, Accepted,
         Dispatched, GetAppConf, GetTokenInfo, TestAmountText, GetAddress,
         SignReceiveBlock, CacheFirst, CacheOther, AnswerAtOnce,
         DisplayAddress, SignSendBlock, SignSendCached, Prompt
  <2> QED
    BY <2>1, <2>2, <2>3, <2>4
<1>2. CASE \E confirmed \in BOOLEAN : Button(confirmed)
  <2>1. sent' = Silence /\ UNCHANGED <<halted, link>>
    BY <1>2 DEF Button, SignSendBlockButton, DisplayAddressButton, Callback
  <2> QED
    BY <2>1 DEF Silence, link
<1>3. CASE DisplayProcessed
  <2>1. CASE SendQueued
    BY <2>1 DEF SendQueued, Sendable
  <2>2. CASE sent' = Silence /\ UNCHANGED <<halted, link>>
    BY <2>2 DEF Silence, link
  <2>3. SendQueued \/ (sent' = Silence /\ UNCHANGED <<halted, link>>)
    BY <1>3 DEF DisplayProcessed, Redraw
  <2> QED
    BY <2>1, <2>2, <2>3
<1>4. CASE Ticker
  <2>1. CASE Redraw \/ CountDown
    <3>1. sent' = Silence /\ UNCHANGED <<halted, link>>
      BY <2>1 DEF Redraw, CountDown
    <3> QED
      BY <3>1 DEF Silence, link
  <2>2. CASE SendQueued
    BY <2>2 DEF SendQueued, Sendable
  <2>3. CASE RequestTimeout
    BY <2>3 DEF RequestTimeout, Respond
  <2> QED
    BY <1>4, <2>1, <2>2, <2>3 DEF Ticker
<1>5. CASE MenuRedraw
  <2>1. sent' = Silence /\ UNCHANGED <<halted, link>>
    BY <1>5 DEF MenuRedraw
  <2> QED
    BY <2>1 DEF Silence, link
<1>6. CASE Restart
  BY <1>6 DEF Restart
<1>7. CASE UNCHANGED vars
  BY <1>7 DEF vars, link
<1> QED
  BY <1>1, <1>2, <1>3, <1>4, <1>5, <1>6, <1>7 DEF Next

(* No answer of a confirmation leaves an app that has halted. *)
THEOREM HaltedSafe == Spec => []HaltedReleasesNothing
<1>1. Init => HaltedReleasesNothing
  BY DEF Init, HaltedReleasesNothing
<1> QED
  BY <1>1, NextKeepsHalted, PTL DEF Spec

-----------------------------------------------------------------------------
(* Shown and hashed *)

(* A prompt installs data that is faithful, and leaves the cache alone. *)
LEMMA PromptKeepsShown ==
  ASSUME ShownIsHashed, NEW t, NEW a, NEW screen, NEW d, Faithful(d),
         Prompt(t, a, screen, d)
  PROVE  ShownIsHashed'
<1>1. request' = [apdu |-> a, d |-> d] /\ cached' = cached
  BY DEF Prompt
<1>2. request'.d = d
  BY <1>1
<1>3. Faithful(cached)
  BY DEF ShownIsHashed
<1>4. Faithful(request'.d)
  BY <1>2
<1>5. Faithful(cached')
  BY <1>1, <1>3
<1> QED
  BY <1>4, <1>5 DEF ShownIsHashed, Faithful, AllPrintable

(* Nor does anything that touches neither. *)
LEMMA UnchangedKeepsShown ==
  ASSUME ShownIsHashed, UNCHANGED <<request, cached>>
  PROVE  ShownIsHashed'
BY DEF ShownIsHashed, Faithful, AllPrintable

(* Absorbing into the cache. *)
LEMMA CacheKeepsShown ==
  ASSUME ShownIsHashed, UNCHANGED request, NEW d, Faithful(d), cached' = d
  PROVE  ShownIsHashed'
BY DEF ShownIsHashed, Faithful, AllPrintable

LEMMA NextKeepsShown == IInv /\ ShownIsHashed /\ [Next]_vars => ShownIsHashed'
<1> SUFFICES ASSUME IInv, ShownIsHashed, [Next]_vars
             PROVE  ShownIsHashed'
  OBVIOUS
<1>1. ASSUME NEW t \in Transports, NEW a \in Apdu, Deliver(t, a)
      PROVE  ShownIsHashed'
  <2>1. cached \in Data /\ Faithful(cached) /\ a.data \in Seq(Byte)
    BY ApduFacts DEF IInv, TypeOK, ShownIsHashed
  <2>2. CASE CacheFirst(t, a)
    BY <2>1, <2>2, StartType, StartFaithful, AbsorbFaithful, CacheKeepsShown
       DEF CacheFirst, AnswerAtOnce, op
  <2>3. CASE CacheOther(t, a)
    BY <2>1, <2>3, AbsorbFaithful, CacheKeepsShown
       DEF CacheOther, AnswerAtOnce, op
  <2>4. CASE DisplayAddress(t, a)
    <3>1. << >> \in Seq(Byte) /\ FALSE \in BOOLEAN
      OBVIOUS
    <3>2. Faithful(FromApdu(<< >>, FALSE))
      BY ONLY <3>1, FromApduKeeps
    <3> QED
      BY <2>4, <3>2, PromptKeepsShown DEF DisplayAddress
  <2>5. CASE SignSendBlock(t, a)
    BY <2>1, <2>5, FromApduKeeps, PromptKeepsShown DEF SignSendBlock
  <2>6. CASE SignSendCached(t, a)
    BY <2>1, <2>6, FromCacheKeeps, PromptKeepsShown DEF SignSendCached
  <2>7. CASE UNCHANGED <<request, cached>>
    BY <2>7, UnchangedKeepsShown
  <2>8. \/ CacheFirst(t, a) \/ CacheOther(t, a) \/ DisplayAddress(t, a)
        \/ SignSendBlock(t, a) \/ SignSendCached(t, a)
        \/ UNCHANGED <<request, cached>>
    BY <1>1 DEF Deliver, AnswerHalted, ResumePending, ReturnQueued, Reject,
         Fault, GetAppConf, GetTokenInfo, TestAmountText, GetAddress,
         SignReceiveBlock, AnswerAtOnce, op
  <2> QED
    BY <2>2, <2>3, <2>4, <2>5, <2>6, <2>7, <2>8
<1>2. CASE Restart
  <2>1. cached' = ZeroData /\ request' = NoRequest
    BY <1>2 DEF Restart
  <2>2. ~ZeroData.live
    BY DEF ZeroData
  <2> QED
    BY <2>1, <2>2 DEF ShownIsHashed, Faithful
<1>3. CASE UNCHANGED <<request, cached>>
  BY <1>3, UnchangedKeepsShown
<1>4. \/ \E t \in Transports, a \in Apdu : Deliver(t, a)
      \/ Restart
      \/ UNCHANGED <<request, cached>>
  BY DEF Next, Button, SignSendBlockButton, DisplayAddressButton,
         Callback, AsyncResponse, DisplayProcessed, Ticker, MenuRedraw, Redraw,
         SendQueued, RequestTimeout, CountDown, vars, op
<1> QED
  BY <1>1, <1>2, <1>3, <1>4

(* What the screen shows of a block's data is what its hash was computed
   from, for data of any length cut in any way. *)
THEOREM DataSafe == Spec => []ShownIsHashed
<1>1. Init => ShownIsHashed
  BY StartFaithful DEF Init, ShownIsHashed
<1> QED
  BY <1>1, Invariance, NextKeepsShown, PTL DEF Spec
=============================================================================
