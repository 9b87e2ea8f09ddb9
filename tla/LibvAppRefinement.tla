-------------------------- MODULE LibvAppRefinement --------------------------
(***************************************************************************)
(* LibvApp implements ConfirmOnce and Prompts: every step of the app is a  *)
(* step that the abstract promises allow, for every overlap of APDUs and   *)
(* every hash.                                                             *)
(***************************************************************************)
EXTENDS LibvAppProofs

(* A step that answers nobody's confirmation and leaves the operation alone. *)
LEMMA OtherStep ==
  ASSUME UNCHANGED op, sent'.answer = NoRequest, sent'.sw # "boot"
  PROVE  Abstract!Other
<1>1. UNCHANGED <<state, request, async>>
  BY DEF op
<1>2. AbstractOut' = Abstract!Nothing
  BY DEF AbstractOut, Boot, Abstract!Nothing
<1> QED
  BY <1>1, <1>2 DEF Abstract!Other, Queued, Abstract!Nothing

(* A queued answer that leaves is a release. *)
LEMMA ReleaseStep ==
  ASSUME IInv, state = "READY", Queued, NEW a,
         Respond(a, async.sw, async.request),
         async' = NoAnswer, UNCHANGED <<state, request>>
  PROVE  Abstract!Release
<1>1. async \in Answers
  BY DEF IInv, TypeOK, Queued, NoAnswer
<1>2. /\ sent'.answer = async.request /\ sent'.sw = async.sw
      /\ async.sw # "boot" /\ async.request # NoRequest
  BY <1>1 DEF Respond, Answers, Queued, LIBV_SW_OK,
              LIBV_SW_CONDITIONS_OF_USE_NOT_SATISFIED
<1>3. AbstractOut' = [kind |-> "answer", req |-> async.request,
                      verdict |-> AbstractVerdict(async.sw)]
  BY <1>2 DEF AbstractOut, Boot, AbstractVerdict
<1>4. ~Queued' /\ state' = "READY" /\ async'.request = NoRequest
  BY DEF Queued, NoAnswer
<1> QED
  BY <1>3, <1>4 DEF Abstract!Release

(* A prompt is a question. *)
LEMMA PromptStep ==
  ASSUME IInv, NEW t \in Transports, NEW a \in Apdu,
         NEW screen \in Screens, NEW d \in Data, a.op \in PromptOps,
         Prompt(t, a, screen, d)
  PROVE  Abstract!Ask
<1>1. state = "READY"
  BY DEF Prompt, Accepted, Refusal, Denied, ReadyOps, LIBV_SW_OK,
         LIBV_SW_SECURITY_STATUS_NOT_SATISFIED
<1>2. state' # "READY" /\ request' \in Request
  BY DEF Prompt, Screens, Request
<1>3. sent' = Silence
  BY DEF Prompt, Await
<1>4. AbstractOut' = Abstract!Nothing
  BY <1>3 DEF Silence, Boot, AbstractOut, Abstract!Nothing
<1> QED
  BY <1>1, <1>2, <1>4 DEF Abstract!Ask, Abstract!Nothing

(* A button is a decision. *)
LEMMA ButtonStep ==
  ASSUME IInv, NEW confirmed \in BOOLEAN, Button(confirmed)
  PROVE  \E v \in Abstract!Verdict : Abstract!Decide(v)
<1>1. state # "READY" /\ request # NoRequest
  BY DEF Button, SignSendBlockButton, DisplayAddressButton,
         Callback, AsyncResponse, IInv, ScreenMatchesRequest, UnionMatchesState
<1>2. /\ state' = "READY" /\ async'.request = request /\ sent' = Silence
  BY DEF Button, SignSendBlockButton, DisplayAddressButton,
         Callback, AsyncResponse
<1>3. Queued'
  BY <1>1, <1>2 DEF Queued
<1>4. AbstractOut' = Abstract!Nothing
  BY <1>2 DEF Silence, Boot, AbstractOut, Abstract!Nothing
<1>5. AbstractVerdict(async'.sw) \in Abstract!Verdict
  BY DEF AbstractVerdict, Abstract!Verdict
<1>6. Abstract!Decide(AbstractVerdict(async'.sw))
  BY <1>1, <1>2, <1>3, <1>4 DEF Abstract!Decide, Abstract!Nothing
<1> QED
  BY <1>5, <1>6

LEMMA RestartStep == Restart => Abstract!Restart
<1> SUFFICES ASSUME Restart PROVE Abstract!Restart
  OBVIOUS
<1>1. state' = "READY" /\ async' = NoAnswer /\ sent' = Boot
  BY DEF Restart
<1>2. ~Queued' /\ async'.request = NoRequest
  BY <1>1 DEF Queued, NoAnswer
<1>3. AbstractOut' = Abstract!Reset
  BY <1>1 DEF AbstractOut, Boot, Abstract!Reset
<1> QED
  BY <1>1, <1>2, <1>3 DEF Abstract!Restart, Abstract!Idle, Abstract!Reset

LEMMA DeliverStep ==
  ASSUME IInv, NEW t \in Transports, NEW a \in Apdu, Deliver(t, a)
  PROVE  Abstract!Next
<1> USE DEF Abstract!Next
<1>1. CASE ReturnQueued(t, a)
  BY <1>1, ReleaseStep DEF ReturnQueued
<1>2. CASE ResumePending(t, a)
  <2>1. UNCHANGED op /\ sent'.answer = NoRequest /\ sent'.sw # "boot"
    BY <1>2 DEF ResumePending, Await, Silence
  <2> QED
    BY <2>1, OtherStep
<1>3. ASSUME NEW sw \in StatusWord, Respond(a, sw, NoRequest), UNCHANGED op
      PROVE  Abstract!Next
  <2>1. sent'.answer = NoRequest /\ sent'.sw = sw
    BY <1>3 DEF Respond
  <2>2. sw # "boot"
    BY DEF StatusWord, Form, LIBV_SW_OK, LIBV_SW_INCORRECT_LENGTH,
           LIBV_SW_SECURITY_STATUS_NOT_SATISFIED,
           LIBV_SW_CONDITIONS_OF_USE_NOT_SATISFIED,
           LIBV_SW_ARRAY_OUT_OF_BOUNDS, LIBV_SW_INCORRECT_P1_P2,
           LIBV_SW_INS_NOT_SUPPORTED, LIBV_SW_FAULT, LIBV_SW_HALTED
  <2> QED
    BY <1>3, <2>1, <2>2, OtherStep
<1>4. CASE AnswerHalted(t, a)
  BY <1>3, <1>4 DEF AnswerHalted, StatusWord
<1>5. CASE Reject(t, a)
  BY <1>3, <1>5, RefusalType DEF Reject
<1>6. CASE Fault(t, a)
  BY <1>3, <1>6 DEF Fault, StatusWord
<1>7. ASSUME NEW handler, AnswerAtOnce(t, a, handler)
      PROVE  Abstract!Next
  BY <1>3, <1>7 DEF AnswerAtOnce, StatusWord, Form
<1>8. CASE \/ GetAppConf(t, a) \/ GetTokenInfo(t, a) \/ TestAmountText(t, a)
           \/ GetAddress(t, a) \/ SignReceiveBlock(t, a)
           \/ CacheFirst(t, a) \/ CacheOther(t, a)
  BY <1>7, <1>8 DEF GetAppConf, GetTokenInfo, TestAmountText, GetAddress,
                    SignReceiveBlock, CacheFirst, CacheOther
<1>9. CASE \/ DisplayAddress(t, a) \/ SignSendBlock(t, a)
           \/ SignSendCached(t, a)
  <2>1. a.op \in PromptOps
    BY <1>9 DEF DisplayAddress, SignSendBlock, SignSendCached, PromptOps
  <2>2. a.data \in Seq(Byte) /\ cached \in Data
    BY ApduFacts DEF IInv, TypeOK
  <2>3. << >> \in Seq(Byte) /\ FALSE \in BOOLEAN
    OBVIOUS
  <2>4. /\ FromApdu(<< >>, FALSE) \in Data
        /\ FromCache(cached, a.data) \in Data
        /\ \A g \in BOOLEAN : FromApdu(a.data, g) \in Data
    BY ONLY <2>2, <2>3, FromApduKeeps, FromCacheKeeps
  <2>5. PICK screen \in Screens, d \in Data : Prompt(t, a, screen, d)
    BY <1>9, <2>4, Zenon
       DEF DisplayAddress, SignSendBlock, SignSendCached, Screens
  <2> QED
    BY <2>1, <2>5, PromptStep
<1> QED
  BY <1>1, <1>2, <1>4, <1>5, <1>6, <1>8, <1>9 DEF Deliver

LEMMA NextStep ==
  ASSUME IInv, [Next]_vars
  PROVE  Abstract!Next \/ UNCHANGED Abstract!vars
<1>1. ASSUME NEW t \in Transports, NEW a \in Apdu, Deliver(t, a)
      PROVE  Abstract!Next
  BY <1>1, DeliverStep
<1>2. CASE \E confirmed \in BOOLEAN : Button(confirmed)
  BY <1>2, ButtonStep DEF Abstract!Next
<1>3. CASE SendQueued
  BY <1>3, ReleaseStep DEF SendQueued, Sendable, Abstract!Next
<1>4. CASE RequestTimeout
  <2>1. sent'.answer = NoRequest /\ sent'.sw # "boot" /\ UNCHANGED op
    BY <1>4 DEF RequestTimeout, Respond,
                LIBV_SW_CONDITIONS_OF_USE_NOT_SATISFIED
  <2> QED
    BY <2>1, OtherStep DEF Abstract!Next
<1>5. CASE sent' = Silence /\ UNCHANGED op
  BY <1>5, OtherStep DEF Silence, Abstract!Next
<1>6. CASE Restart
  BY <1>6, RestartStep DEF Abstract!Next
<1>7. CASE UNCHANGED vars
  BY <1>7 DEF vars, op, Abstract!vars, Queued, AbstractOut
<1>8. DisplayProcessed => SendQueued \/ (sent' = Silence /\ UNCHANGED op)
  BY DEF DisplayProcessed, Redraw
<1>9. Ticker => \/ SendQueued \/ RequestTimeout
                \/ (sent' = Silence /\ UNCHANGED op)
  BY DEF Ticker, Redraw, CountDown
<1>10. MenuRedraw => sent' = Silence /\ UNCHANGED op
  BY DEF MenuRedraw
<1> QED
  BY <1>1, <1>2, <1>3, <1>4, <1>5, <1>6, <1>7, <1>8, <1>9, <1>10 DEF Next

LEMMA InitStep == Init => Abstract!Init
BY DEF Init, Abstract!Init, Abstract!Idle, Abstract!Reset, AbstractOut,
       NoAnswer, Boot, Queued

(* The app keeps the promise. *)
THEOREM Refinement == Spec => ImplementsConfirmOnce
<1>1. IInv /\ [Next]_vars => [Abstract!Next]_(Abstract!vars)
  BY NextStep
<1> QED
  BY <1>1, InitStep, Invariance, PTL
     DEF Spec, ImplementsConfirmOnce, Abstract!Spec
-----------------------------------------------------------------------------
(* Prompts *)

ScreenUnchanged == UNCHANGED <<state, request, bagl_state, displayed>>

(* What a handler does to the screen: a prompt or nothing. *)
LEMMA HandlerScreen ==
  ASSUME IInv, NEW t \in Transports, NEW a \in Apdu, Deliver(t, a)
  PROVE  PromptsOfApp!Next \/ ScreenUnchanged
<1>1. CASE \/ DisplayAddress(t, a) \/ SignSendBlock(t, a)
           \/ SignSendCached(t, a)
  <2>1. a.data \in Seq(Byte) /\ cached \in Data
    BY ApduFacts DEF IInv, TypeOK
  <2>2. << >> \in Seq(Byte) /\ FALSE \in BOOLEAN
    OBVIOUS
  <2>3. /\ FromApdu(<< >>, FALSE) \in Data
        /\ FromCache(cached, a.data) \in Data
        /\ \A g \in BOOLEAN : FromApdu(a.data, g) \in Data
    BY ONLY <2>1, <2>2, FromApduKeeps, FromCacheKeeps
  <2>4. PICK screen \in Screens, d \in Data :
          a.op \in PromptOps /\ Prompt(t, a, screen, d)
    BY <1>1, <2>3, Zenon
       DEF DisplayAddress, SignSendBlock, SignSendCached, Screens, PromptOps
  <2>5. state = "READY"
    BY <2>4 DEF Prompt, Accepted, Refusal, Denied, ReadyOps, LIBV_SW_OK,
                LIBV_SW_SECURITY_STATUS_NOT_SATISFIED
  <2>6. state' = screen /\ request' \in Request
    BY <2>4 DEF Prompt, Request
  <2>7. \/ displayed /\ bagl_state' = screen /\ displayed' = FALSE
        \/ UNCHANGED <<bagl_state, displayed>>
    BY <2>4 DEF Prompt, Install, ui
  <2>8. PromptsOfApp!Ask(screen)
    BY <2>5, <2>6, <2>7 DEF PromptsOfApp!Ask, PromptsOfApp!Install
  <2> QED
    BY <2>8 DEF PromptsOfApp!Next
<1>2. CASE \/ AnswerHalted(t, a) \/ ResumePending(t, a) \/ ReturnQueued(t, a)
           \/ Reject(t, a) \/ Fault(t, a)
  BY <1>2 DEF AnswerHalted, ResumePending, ReturnQueued, Reject, Fault,
              op, ui, ScreenUnchanged
<1>3. CASE \/ GetAppConf(t, a) \/ GetTokenInfo(t, a) \/ TestAmountText(t, a)
           \/ GetAddress(t, a) \/ SignReceiveBlock(t, a)
           \/ CacheFirst(t, a) \/ CacheOther(t, a)
  BY <1>3 DEF GetAppConf, GetTokenInfo, TestAmountText, GetAddress,
              SignReceiveBlock, CacheFirst, CacheOther, AnswerAtOnce,
              op, ui, ScreenUnchanged
<1> QED
  BY <1>1, <1>2, <1>3 DEF Deliver

(* What an event does to the screen. *)
LEMMA EventScreen ==
  ASSUME IInv, [Next]_vars,
         ~ \E t \in Transports, a \in Apdu : Deliver(t, a)
  PROVE  PromptsOfApp!Next \/ ScreenUnchanged
<1> USE DEF PromptsOfApp!Next
<1>1. CASE \E confirmed \in BOOLEAN : Button(confirmed)
  <2>1. /\ bagl_state # "READY" /\ state' = "READY" /\ request' = request
        /\ bagl_state' = "READY" /\ displayed' = FALSE
    BY <1>1 DEF Button, SignSendBlockButton, DisplayAddressButton,
                Callback, AsyncResponse, Install
  <2>2. bagl_state = state
    BY <2>1 DEF IInv, ScreenMatchesRequest
  <2> QED
    BY <2>1, <2>2 DEF PromptsOfApp!Answer, PromptsOfApp!Install
<1>2. CASE Redraw
  <2>1. bagl_state = "READY" /\ state # "READY"
    BY <1>2 DEF Redraw, IInv, ScreenMatchesRequest
  <2> QED
    BY <1>2, <2>1 DEF Redraw, Install, op,
                      PromptsOfApp!Follow, PromptsOfApp!Install
<1>3. CASE SendQueued
  BY <1>3 DEF SendQueued, PromptsOfApp!Drawn
<1>4. CASE /\ displayed' = TRUE
           /\ UNCHANGED <<op, bagl_state>>
  BY <1>4 DEF op, PromptsOfApp!Drawn
<1>5. CASE RequestTimeout
  BY <1>5 DEF RequestTimeout, op, ui, ScreenUnchanged
<1>6. CASE CountDown
  <2>1. displayed' = displayed \/ displayed' = FALSE
    BY <1>6 DEF CountDown
  <2> QED
    BY <1>6, <2>1 DEF CountDown, op, ScreenUnchanged, PromptsOfApp!Erase
<1>7. CASE MenuRedraw
  BY <1>7 DEF MenuRedraw, op, PromptsOfApp!Erase
<1>8. CASE Restart
  BY <1>8 DEF Restart, Install, PromptsOfApp!Restart, PromptsOfApp!Init
<1>9. CASE UNCHANGED vars
  BY <1>9 DEF vars, op, ui, ScreenUnchanged
<1>10. DisplayProcessed =>
         \/ Redraw \/ SendQueued
         \/ displayed' = TRUE /\ UNCHANGED <<op, bagl_state>>
  BY DEF DisplayProcessed
<1>11. Ticker => Redraw \/ SendQueued \/ RequestTimeout \/ CountDown
  BY DEF Ticker
<1> QED
  BY <1>1, <1>2, <1>3, <1>4, <1>5, <1>6, <1>7, <1>8, <1>9, <1>10, <1>11
     DEF Next

(* A screen is installed for an open request, when the display is free, and
   leaves with the answer: ImplementsPrompts. *)
THEOREM PromptRefinement == Spec => ImplementsPrompts
<1>1. Init => PromptsOfApp!Init
  BY DEF Init, PromptsOfApp!Init
<1>2. IInv /\ [Next]_vars => [PromptsOfApp!Next]_(PromptsOfApp!vars)
  BY HandlerScreen, EventScreen DEF ScreenUnchanged, PromptsOfApp!vars
<1> QED
  BY <1>1, <1>2, Invariance, PTL
     DEF Spec, ImplementsPrompts, PromptsOfApp!Spec
=============================================================================
