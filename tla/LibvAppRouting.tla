--------------------------- MODULE LibvAppRouting ---------------------------
(***************************************************************************)
(* Every answer goes to the host that asked for it.                        *)
(*                                                                         *)
(* Whatever the hash is, an answer leaves only to a call with the hash of  *)
(* the call it was computed for (HashRouting); where the hash tells apart  *)
(* the calls that hosts send, that is the very call (RoutingSafe).  The    *)
(* app relies on the SDK for one more thing, that no call gets in while a  *)
(* host waits on HID: its request is not known by a hash.  The SDK that    *)
(* delivers one call at a time gives that, and so does an app that is used *)
(* over U2F only, where calls may overtake each other.                     *)
(***************************************************************************)
EXTENDS LibvAppProofs

OneAtATime == Overlap = {}
U2fOnly == "HID" \notin Transports
HashInjective == \A a, b \in Apdu : Hash[a] = Hash[b] => a = b

(* The operation in progress, and the APDU that started it. *)
InProgress == state # "READY" \/ Queued
Owner == IF state # "READY" THEN request.apdu ELSE async.request.apdu

(* A host that waits sent the call that started the operation, or one with
   its hash; the operation of a host that does not wait on HID can be found
   again by the hash. *)
OwnerWaits ==
  channel # "IDLE" => /\ InProgress /\ waiting \in Apdu
                      /\ Hash[Owner] = Hash[waiting]
OwnerKnown == channel # "HID" /\ InProgress => Hash[Owner] = u2fRequestHash
OwnerPrompts ==
  /\ request # NoRequest => request.apdu.op \in PromptOps
  /\ Queued => async.request.apdu.op \in PromptOps

(* An answer is for an APDU with the hash of the one it was computed from;
   9000 without such an answer is for an APDU that needs no consent. *)
AnswerOfHash ==
  /\ sent.answer # NoRequest =>
       /\ sent.to \in Apdu /\ Hash[sent.answer.apdu] = Hash[sent.to]
       /\ sent.answer.apdu.op \in PromptOps
  /\ (sent.answer = NoRequest /\ sent.to # NoApdu /\ sent.sw = LIBV_SW_OK)
       => sent.to.op \notin PromptOps

RInv == OwnerWaits /\ OwnerKnown /\ OwnerPrompts /\ AnswerOfHash

(* While a host waits on HID no call is delivered and no timer runs. *)
HidUndisturbed ==
  channel = "HID" => u2fTimeout = 0 /\ \A t \in Transports : ~Delivered(t)

(* An event that is silent and leaves operation, channel and hash alone. *)
LEMMA SilentKeepsRInv ==
  ASSUME RInv, sent' = Silence, UNCHANGED <<op, link, u2fRequestHash>>
  PROVE  RInv'
<1>1. UNCHANGED <<state, request, async, channel, waiting>>
  BY DEF op, link
<1>2. OwnerWaits' /\ OwnerKnown' /\ OwnerPrompts'
  BY <1>1 DEF RInv, OwnerWaits, OwnerKnown, OwnerPrompts,
              InProgress, Owner, Queued
<1>3. AnswerOfHash'
  BY DEF AnswerOfHash, Silence
<1> QED
  BY <1>2, <1>3 DEF RInv

(* A synchronous response while no host waits on HID: whoever waited on U2F
   is sent away and can come back. *)
LEMMA SyncKeepsRInv ==
  ASSUME RInv, channel # "HID", NEW a \in Apdu, NEW sw \in StatusWord,
         sw = LIBV_SW_OK => a.op \notin PromptOps,
         Respond(a, sw, NoRequest), UNCHANGED <<op, u2fRequestHash>>
  PROVE  RInv'
<1>1. /\ UNCHANGED <<state, request, async, u2fRequestHash>>
      /\ channel' = "IDLE"
  BY DEF op, Respond
<1>2. OwnerWaits' /\ OwnerKnown' /\ OwnerPrompts'
  BY <1>1 DEF RInv, OwnerWaits, OwnerKnown, OwnerPrompts,
              InProgress, Owner, Queued
<1>3. sent'.answer = NoRequest /\ sent'.to = a /\ sent'.sw = sw
  BY DEF Respond
<1>4. AnswerOfHash'
  BY <1>3 DEF AnswerOfHash
<1> QED
  BY <1>2, <1>4 DEF RInv

(* A prompt makes its APDU the owner. *)
LEMMA PromptKeepsRInv ==
  ASSUME RInv, NEW t \in Transports, NEW a \in Apdu,
         NEW screen \in Screens, NEW d, a.op \in PromptOps,
         Prompt(t, a, screen, d)
  PROVE  RInv'
<1>1. /\ state' = screen /\ request' = [apdu |-> a, d |-> d]
      /\ async' = NoAnswer /\ channel' = t /\ waiting' = a /\ sent' = Silence
  BY DEF Prompt, Await
<1>2. state' # "READY" /\ Owner' = a /\ InProgress' /\ ~Queued'
  BY <1>1 DEF Screens, Owner, InProgress, Queued, NoAnswer
<1>3. OwnerWaits' /\ OwnerPrompts'
  BY <1>1, <1>2 DEF OwnerWaits, OwnerPrompts
<1>4. t = "U2F" => u2fRequestHash' = Hash[a]
  BY DEF Prompt, TrackU2f
<1>5. OwnerKnown'
  BY <1>1, <1>2, <1>4, TransportFacts DEF OwnerKnown
<1>6. AnswerOfHash'
  BY <1>1 DEF AnswerOfHash, Silence
<1> QED
  BY <1>3, <1>5, <1>6 DEF RInv

(* Sending the queued answer to a call with the owner's hash ends the
   operation. *)
LEMMA ReleaseKeepsRInv ==
  ASSUME RInv, state = "READY", Queued,
         NEW a \in Apdu, Hash[Owner] = Hash[a],
         Respond(a, async.sw, async.request), async' = NoAnswer,
         UNCHANGED <<state, request>>
  PROVE  RInv'
<1>1. /\ channel' = "IDLE" /\ sent'.answer = async.request /\ sent'.to = a
  BY DEF Respond
<1>2. ~InProgress' /\ ~Queued'
  BY DEF InProgress, Queued, NoAnswer
<1>3. OwnerWaits' /\ OwnerKnown' /\ OwnerPrompts'
  BY <1>1, <1>2 DEF RInv, OwnerWaits, OwnerKnown, OwnerPrompts
<1>4. Owner = async.request.apdu /\ Owner.op \in PromptOps
  BY DEF Owner, RInv, OwnerPrompts
<1>5. AnswerOfHash'
  BY <1>1, <1>4 DEF AnswerOfHash, Queued
<1> QED
  BY <1>3, <1>5 DEF RInv

(* Every APDU that has an effect was delivered. *)
LEMMA DeliverDelivered ==
  ASSUME NEW t \in Transports, NEW a \in Apdu, Deliver(t, a)
  PROVE  Delivered(t)
BY DEF Deliver, AnswerHalted, ResumePending, ReturnQueued, Reject, Fault,
       GetAppConf, GetTokenInfo, TestAmountText, GetAddress,
       SignReceiveBlock, CacheFirst, CacheOther, AnswerAtOnce, Accepted,
       DisplayAddress, SignSendBlock, SignSendCached, Prompt, Dispatched

LEMMA DeliverKeepsRInv ==
  ASSUME HidUndisturbed, IInv, RInv,
         NEW t \in Transports, NEW a \in Apdu, Deliver(t, a)
  PROVE  RInv'
<1>1. channel # "HID"
  BY DeliverDelivered DEF HidUndisturbed
<1>2. ASSUME SameU2fRequest(t, a), InProgress
      PROVE  Hash[Owner] = Hash[a]
  BY <1>1, <1>2 DEF SameU2fRequest, RInv, OwnerKnown
<1>3. UNCHANGED u2f => u2fRequestHash' = u2fRequestHash
  BY DEF u2f
<1>4. CASE AnswerHalted(t, a)
  BY <1>1, <1>3, <1>4, SyncKeepsRInv
     DEF AnswerHalted, StatusWord, LIBV_SW_HALTED, LIBV_SW_OK
<1>5. CASE ResumePending(t, a)
  <2>1. t = "U2F" /\ InProgress /\ Hash[Owner] = Hash[a]
    BY <1>2, <1>5 DEF ResumePending, InProgress, SameU2fRequest
  <2>2. /\ UNCHANGED <<state, request, async, u2fRequestHash>>
        /\ channel' = t /\ waiting' = a /\ sent' = Silence
    BY <1>5 DEF ResumePending, Await, op
  <2>3. Owner' = Owner /\ InProgress' = InProgress /\ Queued' = Queued
    BY <2>2 DEF Owner, InProgress, Queued
  <2>4. OwnerWaits' /\ OwnerKnown' /\ OwnerPrompts'
    BY <1>1, <2>1, <2>2, <2>3 DEF RInv, OwnerWaits, OwnerKnown, OwnerPrompts
  <2>5. AnswerOfHash'
    BY <2>2 DEF AnswerOfHash, Silence
  <2> QED
    BY <2>4, <2>5 DEF RInv
<1>6. CASE ReturnQueued(t, a)
  <2>1. Hash[Owner] = Hash[a]
    BY <1>2, <1>6 DEF ReturnQueued, InProgress
  <2> QED
    BY <1>6, <2>1, ReleaseKeepsRInv DEF ReturnQueued
<1>7. CASE Reject(t, a)
  BY <1>1, <1>3, <1>7, SyncKeepsRInv, RefusalType DEF Reject
<1>8. CASE Fault(t, a)
  BY <1>1, <1>3, <1>8, SyncKeepsRInv
     DEF Fault, StatusWord, LIBV_SW_FAULT, LIBV_SW_OK
<1>9. ASSUME NEW handler, handler \notin PromptOps,
             AnswerAtOnce(t, a, handler)
      PROVE  RInv'
  BY <1>1, <1>3, <1>9, SyncKeepsRInv DEF AnswerAtOnce, StatusWord, Form
<1>10. CASE \/ GetAppConf(t, a) \/ GetTokenInfo(t, a) \/ TestAmountText(t, a)
            \/ GetAddress(t, a) \/ SignReceiveBlock(t, a)
            \/ CacheFirst(t, a) \/ CacheOther(t, a)
  BY <1>9, <1>10 DEF GetAppConf, GetTokenInfo, TestAmountText, GetAddress,
                     SignReceiveBlock, CacheFirst, CacheOther, PromptOps
<1>11. CASE \/ DisplayAddress(t, a) \/ SignSendBlock(t, a)
            \/ SignSendCached(t, a)
  <2>1. a.op \in PromptOps
    BY <1>11 DEF DisplayAddress, SignSendBlock, SignSendCached, PromptOps
  <2>2. PICK screen \in Screens : \E d : Prompt(t, a, screen, d)
    BY <1>11, Zenon
       DEF DisplayAddress, SignSendBlock, SignSendCached, Screens
  <2>3. PICK d : Prompt(t, a, screen, d)
    BY <2>2
  <2> QED
    BY <2>1, <2>3, PromptKeepsRInv
<1> QED
  BY <1>4, <1>5, <1>6, <1>7, <1>8, <1>10, <1>11 DEF Deliver

LEMMA ButtonKeepsRInv ==
  ASSUME IInv, RInv, NEW confirmed \in BOOLEAN, Button(confirmed)
  PROVE  RInv'
<1>1. state # "READY" /\ request # NoRequest
  BY DEF Button, SignSendBlockButton, DisplayAddressButton,
         Callback, AsyncResponse, IInv, ScreenMatchesRequest, UnionMatchesState
<1>2. /\ state' = "READY" /\ async'.request = request /\ sent' = Silence
      /\ UNCHANGED <<request, channel, waiting, u2fRequestHash>>
  BY DEF Button, SignSendBlockButton, DisplayAddressButton,
         Callback, AsyncResponse, link, u2f
<1>3. Queued' /\ Owner' = Owner /\ InProgress' /\ InProgress
  BY <1>1, <1>2 DEF Queued, Owner, InProgress
<1>4. OwnerWaits' /\ OwnerKnown' /\ OwnerPrompts'
  BY <1>1, <1>2, <1>3 DEF RInv, OwnerWaits, OwnerKnown, OwnerPrompts
<1>5. AnswerOfHash'
  BY <1>2 DEF AnswerOfHash, Silence
<1> QED
  BY <1>4, <1>5 DEF RInv

LEMMA SendQueuedKeepsRInv ==
  ASSUME RInv, SendQueued
  PROVE  RInv'
<1>1. waiting \in Apdu /\ Hash[Owner] = Hash[waiting]
  BY DEF SendQueued, Sendable, RInv, OwnerWaits
<1> QED
  BY <1>1, ReleaseKeepsRInv DEF SendQueued, Sendable

(* The timer sends its host away; the operation stays known by its hash. *)
LEMMA RequestTimeoutKeepsRInv ==
  ASSUME HidUndisturbed, RInv, RequestTimeout
  PROVE  RInv'
<1>1. channel # "HID" /\ UNCHANGED <<state, request, async, u2fRequestHash>>
  BY DEF RequestTimeout, HidUndisturbed, op
<1>2. channel' = "IDLE" /\ sent'.answer = NoRequest
  BY DEF RequestTimeout, Respond
<1>3. Owner' = Owner /\ InProgress' = InProgress /\ Queued' = Queued
  BY <1>1 DEF Owner, InProgress, Queued
<1>4. OwnerWaits' /\ OwnerKnown' /\ OwnerPrompts'
  BY <1>1, <1>2, <1>3 DEF RInv, OwnerWaits, OwnerKnown, OwnerPrompts
<1>5. sent'.sw # LIBV_SW_OK
  BY DEF RequestTimeout, Respond, LIBV_SW_OK,
         LIBV_SW_CONDITIONS_OF_USE_NOT_SATISFIED
<1>6. AnswerOfHash'
  BY <1>2, <1>5 DEF AnswerOfHash
<1> QED
  BY <1>4, <1>6 DEF RInv

LEMMA NextKeepsRInv ==
  ASSUME HidUndisturbed, IInv, RInv, [Next]_vars
  PROVE  RInv'
<1>1. ASSUME NEW t \in Transports, NEW a \in Apdu, Deliver(t, a)
      PROVE  RInv'
  BY <1>1, DeliverKeepsRInv
<1>2. CASE \E confirmed \in BOOLEAN : Button(confirmed)
  BY <1>2, ButtonKeepsRInv
<1>3. CASE SendQueued
  BY <1>3, SendQueuedKeepsRInv
<1>4. CASE RequestTimeout
  BY <1>4, RequestTimeoutKeepsRInv
<1>5. CASE sent' = Silence /\ UNCHANGED <<op, link, u2fRequestHash>>
  BY <1>5, SilentKeepsRInv
<1>6. CASE Restart
  BY <1>6 DEF Restart, RInv, OwnerWaits, OwnerKnown, OwnerPrompts,
              AnswerOfHash, InProgress, Queued, NoAnswer, Boot
<1>7. CASE UNCHANGED vars
  BY <1>7 DEF vars, op, link, u2f, RInv, OwnerWaits, OwnerKnown,
              OwnerPrompts, AnswerOfHash, InProgress, Queued, Owner
<1>8. DisplayProcessed \/ Ticker \/ MenuRedraw
        => \/ SendQueued \/ RequestTimeout
           \/ sent' = Silence /\ UNCHANGED <<op, link, u2fRequestHash>>
  BY DEF DisplayProcessed, Ticker, MenuRedraw, Redraw, CountDown, u2f
<1> QED
  BY <1>1, <1>2, <1>3, <1>4, <1>5, <1>6, <1>7, <1>8 DEF Next

LEMMA InitRInv == Init => RInv
BY DEF Init, RInv, OwnerWaits, OwnerKnown, OwnerPrompts,
       AnswerOfHash, InProgress, Queued, NoAnswer, Boot

(* The timer alone needs no assumption on the hash: a prompt arms it for a
   U2F host, and whatever frees the channel while it runs stops it. *)
LEMMA NextKeepsTimer ==
  ASSUME OneAtATime, IInv, TimerOnlyOnU2f, [Next]_vars
  PROVE  TimerOnlyOnU2f'
<1> USE DEF TimerOnlyOnU2f
<1>1. ASSUME NEW t \in Transports, NEW a \in Apdu, Deliver(t, a)
      PROVE  TimerOnlyOnU2f'
  <2>1. channel = "IDLE"
    BY <1>1, DeliverDelivered DEF Delivered, OneAtATime
  <2>2. u2fTimeout = 0
    BY <2>1 DEF IInv, TypeOK
  <2>3. CASE UNCHANGED u2f
    BY <2>2, <2>3 DEF u2f
  <2>4. CASE ResumePending(t, a)
    BY <2>4 DEF ResumePending, SameU2fRequest, Await
  <2>5. CASE \E screen, d : Prompt(t, a, screen, d)
    BY <2>2, <2>5 DEF Prompt, TrackU2f, Await
  <2>6. \/ UNCHANGED u2f \/ ResumePending(t, a)
        \/ \E screen, d : Prompt(t, a, screen, d)
    BY <1>1, Zenon DEF Deliver, AnswerHalted, ReturnQueued, Reject, Fault,
       GetAppConf, GetTokenInfo, TestAmountText, GetAddress,
       SignReceiveBlock, CacheFirst, CacheOther, AnswerAtOnce,
       DisplayAddress, SignSendBlock, SignSendCached
  <2> QED
    BY <2>3, <2>4, <2>5, <2>6
<1>2. CASE SendQueued \/ RequestTimeout \/ Restart
  BY <1>2 DEF SendQueued, RequestTimeout, Restart
<1>3. CASE CountDown
  <2>1. u2fTimeout' > 0 => u2fTimeout > 0
    BY <1>3 DEF CountDown, IInv, TypeOK
  <2> QED
    BY <1>3, <2>1 DEF CountDown, link
<1>4. CASE UNCHANGED <<link, u2f>>
  BY <1>4 DEF link, u2f
<1>5. \/ \E t \in Transports, a \in Apdu : Deliver(t, a)
      \/ SendQueued \/ RequestTimeout \/ Restart \/ CountDown
      \/ UNCHANGED <<link, u2f>>
  BY DEF Next, Button, SignSendBlockButton, DisplayAddressButton,
         Callback, AsyncResponse, DisplayProcessed, Ticker, MenuRedraw, Redraw, vars
<1> QED
  BY <1>1, <1>2, <1>3, <1>4, <1>5

(* The timer sends away nobody but a host that waits on U2F. *)
THEOREM TimerSafe ==
  ASSUME OneAtATime
  PROVE  Spec => []TimerOnlyOnU2f
<1>1. IInv /\ TimerOnlyOnU2f /\ [Next]_vars => TimerOnlyOnU2f'
  BY NextKeepsTimer
<1>2. Init => TimerOnlyOnU2f
  BY DEF Init, TimerOnlyOnU2f
<1> QED
  BY <1>1, <1>2, Invariance, PTL DEF Spec

(* A call that waits on U2F armed the timer when it began to wait, or when it
   came back; the timer stops by sending it away. *)
LEMMA NextKeepsTimed ==
  IInv /\ U2fHostIsTimed /\ [Next]_vars => U2fHostIsTimed'
<1> SUFFICES ASSUME IInv, U2fHostIsTimed, [Next]_vars PROVE U2fHostIsTimed'
  OBVIOUS
<1> USE DEF U2fHostIsTimed
<1>1. Timeout > 0 /\ u2fTimeout \in 0..Timeout
  BY AppAssumption DEF IInv, TypeOK
<1>2. ASSUME NEW t \in Transports, NEW a \in Apdu, Deliver(t, a)
      PROVE  U2fHostIsTimed'
  <2>1. CASE channel' = "IDLE"
    BY <2>1
  <2>2. CASE ResumePending(t, a)
    BY <1>1, <2>2 DEF ResumePending
  <2>3. CASE \E screen, d : Prompt(t, a, screen, d)
    BY <1>1, <2>3 DEF Prompt, TrackU2f, Await
  <2>4. \/ channel' = "IDLE" \/ ResumePending(t, a)
        \/ \E screen, d : Prompt(t, a, screen, d)
    BY <1>2, Zenon DEF Deliver, AnswerHalted, ReturnQueued, Reject, Fault,
       GetAppConf, GetTokenInfo, TestAmountText, GetAddress,
       SignReceiveBlock, CacheFirst, CacheOther, AnswerAtOnce,
       DisplayAddress, SignSendBlock, SignSendCached, Respond
  <2> QED
    BY <2>1, <2>2, <2>3, <2>4
<1>3. CASE SendQueued \/ RequestTimeout \/ Restart
  BY <1>3 DEF SendQueued, RequestTimeout, Restart, Respond
<1>4. CASE CountDown
  BY <1>1, <1>4 DEF CountDown, link
<1>5. CASE UNCHANGED <<link, u2f>>
  BY <1>5 DEF link, u2f
<1>6. \/ \E t \in Transports, a \in Apdu : Deliver(t, a)
      \/ SendQueued \/ RequestTimeout \/ Restart \/ CountDown
      \/ UNCHANGED <<link, u2f>>
  BY DEF Next, Button, SignSendBlockButton, DisplayAddressButton,
         Callback, AsyncResponse, DisplayProcessed, Ticker, MenuRedraw, Redraw, vars
<1> QED
  BY <1>2, <1>3, <1>4, <1>5, <1>6

(* No host waits on U2F without a timer, on any transports and however calls
   overtake each other: what U2fNeverHangs needs of the ticks. *)
THEOREM U2fTimed == Spec => []U2fHostIsTimed
<1>1. Init => U2fHostIsTimed
  BY DEF Init, U2fHostIsTimed
<1> QED
  BY <1>1, NextKeepsTimed, Invariance, PTL DEF Spec

(* Nothing disturbs a host that waits on HID. *)
LEMMA OneAtATimeUndisturbed ==
  ASSUME OneAtATime, TimerOnlyOnU2f, IInv
  PROVE  HidUndisturbed
BY DEF OneAtATime, TimerOnlyOnU2f, IInv, TypeOK, HidUndisturbed, Delivered

LEMMA U2fOnlyUndisturbed ==
  ASSUME U2fOnly, IInv
  PROVE  HidUndisturbed
BY DEF U2fOnly, IInv, TypeOK, HidUndisturbed

LEMMA RoutingInvariance ==
  ASSUME OneAtATime \/ U2fOnly
  PROVE  Spec => []RInv
<1>1. CASE OneAtATime
  <2>1. IInv /\ TimerOnlyOnU2f /\ RInv /\ [Next]_vars => RInv'
    BY <1>1, OneAtATimeUndisturbed, NextKeepsRInv
  <2>2. Spec => []TimerOnlyOnU2f
    BY <1>1, TimerSafe
  <2> QED
    BY <2>1, <2>2, InitRInv, Invariance, PTL DEF Spec
<1>2. CASE U2fOnly
  <2>1. IInv /\ RInv /\ [Next]_vars => RInv'
    BY <1>2, U2fOnlyUndisturbed, NextKeepsRInv
  <2> QED
    BY <2>1, InitRInv, Invariance, PTL DEF Spec
<1> QED
  BY <1>1, <1>2

(* Whatever the hash: an answer leaves only to a call with the hash of the
   call it was computed for, and an APDU that needs consent is not answered
   9000 without one (libv_app.c:57-72, 144-159). *)
THEOREM HashRouting ==
  ASSUME OneAtATime \/ U2fOnly
  PROVE  Spec => []AnswerOfHash
<1>1. RInv => AnswerOfHash
  BY DEF RInv
<1> QED
  BY <1>1, RoutingInvariance, PTL

(* Every answer goes to the host of the request it answers, and every APDU
   that needs consent is answered 9000 with consent only. *)
THEOREM RoutingSafe ==
  ASSUME OneAtATime \/ U2fOnly, HashInjective
  PROVE  Spec => []ReplyMatchesRequest
<1>1. IInv /\ AnswerOfHash => ReplyMatchesRequest
  <2> SUFFICES ASSUME IInv, AnswerOfHash PROVE ReplyMatchesRequest
    OBVIOUS
  <2>1. ASSUME sent.answer # NoRequest
        PROVE  sent.answer.apdu = sent.to /\ sent.to.op \in PromptOps
    <3>1. sent.answer.apdu \in Apdu
      BY <2>1 DEF IInv, TypeOK, Messages, Request
    <3> QED
      BY <2>1, <3>1 DEF AnswerOfHash, HashInjective
  <2> QED
    BY <2>1 DEF AnswerOfHash, ReplyMatchesRequest
<1> QED
  BY <1>1, HashRouting, Invariance, PTL
=============================================================================
