------------------------------ MODULE LibvApp ------------------------------
(***************************************************************************)
(* The control of the Vite app: its dispatcher, its APDU handlers, the     *)
(* confirmation prompt, the queued response of an asynchronous APDU, the   *)
(* U2F retry and timeout logic, and the events that drive them.            *)
(*                                                                         *)
(* The app is one thread.  io_exchange sends the previous response, then   *)
(* calls io_event for every event until an APDU has arrived; app_dispatch  *)
(* then runs to its end.  So an APDU and its synchronous response are one  *)
(* step, and each event is one step.  What interleaves is the arrival of   *)
(* APDUs on either transport, button presses, ticks and display events.    *)
(***************************************************************************)
EXTENDS SendBlockData

CONSTANTS
  Apdu,        \* the APDUs that hosts send
  Hash,        \* libv_simple_hash of each APDU
  Transports,  \* "HID", "U2F" or both
  Overlap,     \* <<c, t>>: the SDK delivers an APDU on transport t although
               \* one that came on transport c still waits for its response
  Timeout,     \* U2F_REQUEST_TIMEOUT in ticks of 100 ms
  MaxData,     \* bound on the data cached for one block
  NoApdu, NoRequest

LIBV_SW_OK == "9000"
LIBV_SW_INCORRECT_LENGTH == "6700"
LIBV_SW_SECURITY_STATUS_NOT_SATISFIED == "6982"
LIBV_SW_CONDITIONS_OF_USE_NOT_SATISFIED == "6985"
LIBV_SW_ARRAY_OUT_OF_BOUNDS == "6A83"
LIBV_SW_INCORRECT_P1_P2 == "6B00"
LIBV_SW_INS_NOT_SUPPORTED == "6D00"
LIBV_SW_FAULT == "6Fxx"
LIBV_SW_HALTED == "6FAA"

\* Outcomes of the checks that look at nothing but the APDU's bytes.
Form == {LIBV_SW_OK, LIBV_SW_INCORRECT_LENGTH, LIBV_SW_INCORRECT_P1_P2,
         LIBV_SW_INS_NOT_SUPPORTED, LIBV_SW_ARRAY_OUT_OF_BOUNDS}

StatusWord == Form \cup
  {LIBV_SW_SECURITY_STATUS_NOT_SATISFIED, LIBV_SW_FAULT, LIBV_SW_HALTED,
   LIBV_SW_CONDITIONS_OF_USE_NOT_SATISFIED}

\* An INS whose handler branches on P1 before anything else is two ops.
PromptOps == {"display_address", "sign_send_block", "sign_send_cached"}
ReadyOps == PromptOps \cup {"sign_receive_block", "cache_first", "cache_other"}
PinOps == ReadyOps \cup {"get_address"}
Ops == PinOps \cup {"get_app_conf", "get_token_info", "test_amount_text",
                    "unknown"}

\* form: the status word of the checks on CLA, INS, P1, P2, LC and index;
\* path: whether libv_derive_keypair accepts the path; data: the bytes of
\* block data carried; id tells apart APDUs that differ in other bytes.
ApduFields == [op: Ops, form: Form, path: BOOLEAN, data: Seq(Byte), id: Nat]

ASSUME AppAssumption ==
  /\ Apdu \subseteq ApduFields
  /\ \A a \in Apdu : a.op = "unknown" => a.form = LIBV_SW_INS_NOT_SUPPORTED
  /\ Hash \in [Apdu -> Nat]
  /\ Transports \subseteq {"HID", "U2F"}
  /\ Overlap \subseteq Transports \X Transports
  /\ Timeout \in Nat \ {0}
  /\ MaxData \in Nat
  /\ NoApdu \notin Apdu

Screens == {"CONFIRM_ADDRESS", "CONFIRM_SEND_SIGNATURE"}
States == {"READY"} \cup Screens

\* What a prompt handler leaves in the state union.
Request == [apdu: Apdu, d: Data]

ASSUME RequestAssumption == NoRequest \notin Request

VARIABLES
  halted,         \* an exception escaped a handler since the app started
  state,          \* libv_context_D.state
  request,        \* the request bytes of stateData, stale ones included
  async,          \* stateData.asyncResponse: the answer queued for a host
  cached,         \* cachedSendBlockData
  bagl_state,     \* the screen installed: "READY" is the menu
  shown,          \* (history) the request for which it was installed
  displayed,      \* UX_DISPLAYED(): every element of it has been drawn
  channel,        \* G_io_apdu_state: transport of the APDU being answered
  waiting,        \* (history) the APDU that waits there for a response
  u2fRequestHash, \* hash of the last asynchronous U2F request
  u2fTimeout,     \* ticks left before the U2F host is sent away
  sent            \* what the last step sent, and to which APDU

op   == <<state, request, async>>
ui   == <<bagl_state, shown, displayed>>
link == <<channel, waiting>>
u2f  == <<u2fRequestHash, u2fTimeout>>
vars == <<halted, op, cached, ui, link, u2f, sent>>

NoAnswer == [request |-> NoRequest, sw |-> "none"]
Queued == async.request # NoRequest

Silence == [to |-> NoApdu, sw |-> "none", answer |-> NoRequest]
Boot    == [to |-> NoApdu, sw |-> "boot", answer |-> NoRequest]

Answers == [request: Request,
            sw: {LIBV_SW_OK, LIBV_SW_CONDITIONS_OF_USE_NOT_SATISFIED}]
Messages == [to: Apdu \cup {NoApdu}, sw: StatusWord \cup {"none", "boot"},
             answer: Request \cup {NoRequest}]

\* The type invariant.
TypeOK ==
  /\ halted \in BOOLEAN
  /\ state \in States
  /\ request \in Request \cup {NoRequest}
  /\ async \in Answers \cup {NoAnswer}
  /\ cached \in Data
  /\ bagl_state \in States
  /\ shown \in Request \cup {NoRequest}
  /\ displayed \in BOOLEAN
  /\ channel \in {"IDLE"} \cup Transports
  /\ waiting \in Apdu \cup {NoApdu}
  /\ u2fRequestHash \in Nat
  /\ u2fTimeout \in 0..Timeout
  /\ sent \in Messages

Init ==
  /\ halted = FALSE
  /\ state = "READY" /\ request = NoRequest /\ async = NoAnswer
  /\ cached = ZeroData
  /\ bagl_state = "READY" /\ shown = NoRequest /\ displayed = FALSE
  /\ channel = "IDLE" /\ waiting = NoApdu
  /\ u2fRequestHash = 0 /\ u2fTimeout = 0
  /\ sent = Boot

-----------------------------------------------------------------------------
(* The dispatcher *)

\* External: when the SDK hands an APDU to io_exchange.
Delivered(t) ==
  t \in Transports /\ (channel = "IDLE" \/ <<channel, t>> \in Overlap)

\* A response leaves with the next io_exchange, which frees the channel.
Respond(a, sw, answer) ==
  /\ channel' = "IDLE" /\ waiting' = NoApdu
  /\ sent' = [to |-> a, sw |-> sw, answer |-> answer]

\* IO_ASYNCH_REPLY: nothing is sent, the host keeps waiting.
Await(t, a) == channel' = t /\ waiting' = a /\ sent' = Silence

AnswerHalted(t, a) ==
  /\ Delivered(t) /\ halted
  /\ Respond(a, LIBV_SW_HALTED, NoRequest)
  /\ UNCHANGED <<halted, op, cached, ui, u2f>>

\* Mutant: any U2F request is taken for a retry of the one in progress.
AnyU2f(t, a) == t = "U2F"

\* A U2F request with the hash of the last asynchronous one.
SameU2fRequest(t, a) == t = "U2F" /\ Hash[a] = u2fRequestHash

\* The retry of a request that the user has not answered yet.
ResumePending(t, a) ==
  /\ Delivered(t) /\ ~halted
  /\ SameU2fRequest(t, a) /\ state # "READY"
  /\ u2fTimeout' = Timeout
  /\ Await(t, a)
  /\ UNCHANGED <<halted, op, cached, ui, u2fRequestHash>>

\* Mutant: the queued answer is looked for before the halted flag.
ReturnQueuedIfHalted(t, a) ==
  /\ Delivered(t)
  /\ SameU2fRequest(t, a) /\ state = "READY" /\ Queued
  /\ Respond(a, async.sw, async.request)
  /\ async' = NoAnswer
  /\ UNCHANGED <<halted, state, request, cached, ui, u2f>>

\* Mutant: the answer returned is not taken from the queue.
ReturnQueuedAgain(t, a) ==
  /\ Delivered(t) /\ ~halted
  /\ SameU2fRequest(t, a) /\ state = "READY" /\ Queued
  /\ Respond(a, async.sw, async.request)
  /\ UNCHANGED <<halted, op, cached, ui, u2f>>

\* The retry of a request that the user answered while no host was waiting.
ReturnQueued(t, a) ==
  /\ Delivered(t) /\ ~halted
  /\ SameU2fRequest(t, a) /\ state = "READY" /\ Queued
  /\ Respond(a, async.sw, async.request)
  /\ async' = NoAnswer
  /\ UNCHANGED <<halted, state, request, cached, ui, u2f>>

\* Every other APDU goes to the handler of its INS.
Dispatched(t, a) ==
  /\ Delivered(t) /\ ~halted
  /\ ~(SameU2fRequest(t, a) /\ (state # "READY" \/ Queued))

\* Mutant: handlers do not ask whether another operation is in progress.
DeniedByPinOnly(a, pin) == a.op \in PinOps /\ ~pin

\* The device is locked, or another prompt is in progress.
Denied(a, pin) ==
  \/ a.op \in PinOps /\ ~pin
  \/ a.op \in ReadyOps /\ state # "READY"

Refusal(a, pin) ==
  IF a.form # LIBV_SW_OK THEN a.form
  ELSE IF Denied(a, pin) THEN LIBV_SW_SECURITY_STATUS_NOT_SATISFIED
  ELSE LIBV_SW_OK

\* Mutant: every U2F request is recorded as if it were asynchronous.
RejectTracked(t, a) ==
  /\ Dispatched(t, a)
  /\ \E pin \in BOOLEAN :
       /\ Refusal(a, pin) # LIBV_SW_OK
       /\ Respond(a, Refusal(a, pin), NoRequest)
  /\ u2fRequestHash' = IF t = "U2F" THEN Hash[a] ELSE u2fRequestHash
  /\ UNCHANGED <<halted, op, cached, ui, u2fTimeout>>

Reject(t, a) ==
  /\ Dispatched(t, a)
  /\ \E pin \in BOOLEAN :
       /\ Refusal(a, pin) # LIBV_SW_OK
       /\ Respond(a, Refusal(a, pin), NoRequest)
  /\ UNCHANGED <<halted, op, cached, ui, u2f>>

Accepted(t, a) == Dispatched(t, a) /\ Refusal(a, TRUE) = LIBV_SW_OK

PathThrows(a) ==
  /\ a.op \in PinOps \ {"cache_first", "cache_other"}
  /\ ~a.path

\* External: hashing with a context that was never initialised may throw; if
\* it does not, its digest is garbage (live stays FALSE).
ColdContext(a) == a.op \in {"cache_other", "sign_send_cached"} /\ ~cached.live

\* An exception escapes the handler before it changed anything.
Fault(t, a) ==
  /\ Accepted(t, a)
  /\ PathThrows(a) \/ ColdContext(a)
  /\ halted' = TRUE
  /\ Respond(a, LIBV_SW_FAULT, NoRequest)
  /\ UNCHANGED <<op, cached, ui, u2f>>

-----------------------------------------------------------------------------
(* The handlers that answer at once *)

AnswerAtOnce(t, a, handler) ==
  /\ Accepted(t, a) /\ a.op = handler /\ ~PathThrows(a)
  /\ Respond(a, LIBV_SW_OK, NoRequest)
  /\ UNCHANGED <<halted, op, ui, u2f>>

GetAppConf(t, a) ==
  AnswerAtOnce(t, a, "get_app_conf") /\ UNCHANGED cached
GetTokenInfo(t, a) ==
  AnswerAtOnce(t, a, "get_token_info") /\ UNCHANGED cached
TestAmountText(t, a) ==
  AnswerAtOnce(t, a, "test_amount_text") /\ UNCHANGED cached
GetAddress(t, a) ==
  AnswerAtOnce(t, a, "get_address") /\ UNCHANGED cached
\* Receive blocks are signed without a prompt.
SignReceiveBlock(t, a) ==
  AnswerAtOnce(t, a, "sign_receive_block") /\ UNCHANGED cached

\* Bound: no more than MaxData bytes are cached for one block.
CacheFirst(t, a) ==
  /\ AnswerAtOnce(t, a, "cache_first")
  /\ Len(a.data) <= MaxData
  /\ cached' = Absorb(FreshData, a.data)

CacheOther(t, a) ==
  /\ AnswerAtOnce(t, a, "cache_other")
  /\ cached.dataLen + Len(a.data) <= MaxData
  /\ cached' = Absorb(cached, a.data)

-----------------------------------------------------------------------------
(* The handlers that ask the user *)

Install(screen, r) ==
  bagl_state' = screen /\ shown' = r /\ displayed' = FALSE

\* Mutant: the timer is not armed.
RecordHashOnly(t, a) ==
  /\ u2fRequestHash' = IF t = "U2F" THEN Hash[a] ELSE u2fRequestHash
  /\ UNCHANGED u2fTimeout

\* After an asynchronous handler, on U2F only.
TrackU2f(t, a) ==
  /\ u2fRequestHash' = IF t = "U2F" THEN Hash[a] ELSE u2fRequestHash
  /\ u2fTimeout' = IF t = "U2F" THEN Timeout ELSE u2fTimeout

\* Mutant: the screen is installed although the last one is still drawn.
PromptAtOnce(t, a, screen, d) ==
  /\ Accepted(t, a) /\ ~PathThrows(a)
  /\ state' = screen
  /\ request' = [apdu |-> a, d |-> d]
  /\ async' = NoAnswer
  /\ Install(screen, request')
  /\ TrackU2f(t, a)
  /\ Await(t, a)
  /\ UNCHANGED <<halted, cached>>

\* The request overwrites the union, and with it an answer still queued.
\* The screen is drawn at once if the display is free (SDK: the status of
\* the event that brought the APDU may have been sent), later if not.
Prompt(t, a, screen, d) ==
  /\ Accepted(t, a) /\ ~PathThrows(a)
  /\ state' = screen
  /\ request' = [apdu |-> a, d |-> d]
  /\ async' = NoAnswer
  /\ \/ displayed /\ bagl_state # screen /\ Install(screen, request')
     \/ UNCHANGED ui
  /\ TrackU2f(t, a)
  /\ Await(t, a)
  /\ UNCHANGED <<halted, cached>>

DisplayAddress(t, a) ==
  /\ a.op = "display_address"
  /\ Prompt(t, a, "CONFIRM_ADDRESS", FromApdu(<< >>, FALSE))

SignSendBlock(t, a) ==
  /\ a.op = "sign_send_block"
  /\ \E garbage \in BOOLEAN :
       Prompt(t, a, "CONFIRM_SEND_SIGNATURE", FromApdu(a.data, garbage))

SignSendCached(t, a) ==
  /\ a.op = "sign_send_cached"
  /\ Prompt(t, a, "CONFIRM_SEND_SIGNATURE", FromCache(cached, a.data))

Deliver(t, a) ==
  \/ AnswerHalted(t, a)
  \/ ResumePending(t, a)
  \/ ReturnQueued(t, a)
  \/ Reject(t, a)
  \/ Fault(t, a)
  \/ GetAppConf(t, a)
  \/ GetTokenInfo(t, a)
  \/ TestAmountText(t, a)
  \/ GetAddress(t, a)
  \/ SignReceiveBlock(t, a)
  \/ CacheFirst(t, a)
  \/ CacheOther(t, a)
  \/ DisplayAddress(t, a)
  \/ SignSendBlock(t, a)
  \/ SignSendCached(t, a)

-----------------------------------------------------------------------------
(* Events *)

\* app_async_response: the answer is queued where the request was.
AsyncResponse(r, sw) ==
  state' = "READY" /\ async' = [request |-> r, sw |-> sw]

\* The user answers the screen installed.  Its callback reads the union
\* without looking at state, computes the answer, clears sizeof(pointer)
\* bytes of the request, and queues the answer over the next few: the rest
\* of the request stays.
Callback(confirmed) ==
  /\ AsyncResponse(request, IF confirmed THEN LIBV_SW_OK
                            ELSE LIBV_SW_CONDITIONS_OF_USE_NOT_SATISFIED)
  /\ sent' = Silence
  /\ UNCHANGED <<halted, request, cached, link, u2f>>

\* Mutant: the button handler does not go back to the menu; app_apply_state
\* does, but only when the screen has been drawn.
SignSendBlockButtonOnly(confirmed) ==
  /\ bagl_state = "CONFIRM_SEND_SIGNATURE"
  /\ Callback(confirmed)
  /\ IF displayed THEN Install("READY", NoRequest) ELSE UNCHANGED ui

\* Both handlers go back to the menu.  app_apply_state cannot send the answer
\* yet: the screen is still being drawn, or is redrawn as the menu.
SignSendBlockButton(confirmed) ==
  /\ bagl_state = "CONFIRM_SEND_SIGNATURE"
  /\ Callback(confirmed)
  /\ Install("READY", NoRequest)

DisplayAddressButton(confirmed) ==
  /\ bagl_state = "CONFIRM_ADDRESS"
  /\ Callback(confirmed)
  /\ Install("READY", NoRequest)

Button(confirmed) ==
  SignSendBlockButton(confirmed) \/ DisplayAddressButton(confirmed)

\* Mutant: only the menu is ever redrawn.
RedrawMenu ==
  /\ bagl_state # state /\ state = "READY"
  /\ Install(state, NoRequest)
  /\ sent' = Silence
  /\ UNCHANGED <<halted, op, cached, link, u2f>>

\* app_apply_state, first part: the screen is not that of the state.
Redraw ==
  /\ bagl_state # state
  /\ Install(state, IF state = "READY" THEN NoRequest ELSE request)
  /\ sent' = Silence
  /\ UNCHANGED <<halted, op, cached, link, u2f>>

Sendable ==
  bagl_state = state /\ state = "READY" /\ Queued /\ channel # "IDLE"

\* Mutant: the timer of the request that has been answered keeps running.
SendQueuedKeepTimer ==
  /\ Sendable
  /\ Respond(waiting, async.sw, async.request)
  /\ async' = NoAnswer
  /\ displayed' = TRUE
  /\ UNCHANGED <<halted, state, request, cached, bagl_state, shown, u2f>>

\* Mutant: only U2F hosts get queued answers.
SendQueuedU2f ==
  /\ Sendable /\ channel = "U2F"
  /\ Respond(waiting, async.sw, async.request)
  /\ async' = NoAnswer
  /\ u2fTimeout' = 0
  /\ displayed' = TRUE
  /\ UNCHANGED <<halted, state, request, cached, bagl_state, shown,
                 u2fRequestHash>>

\* app_apply_state, second part: a queued answer and a host to send it to.
SendQueued ==
  /\ Sendable
  /\ Respond(waiting, async.sw, async.request)
  /\ async' = NoAnswer
  /\ u2fTimeout' = 0
  /\ displayed' = TRUE
  /\ UNCHANGED <<halted, state, request, cached, bagl_state, shown,
                 u2fRequestHash>>

InSync == bagl_state = state /\ ~Sendable

\* The last element of a screen has been drawn.
DisplayProcessed ==
  /\ ~displayed
  /\ \/ Redraw
     \/ SendQueued
     \/ /\ InSync
        /\ displayed' = TRUE /\ sent' = Silence
        /\ UNCHANGED <<halted, op, cached, bagl_state, shown, link, u2f>>

\* u2f_message_timeout: the host is told 6985 and the channel is freed, but
\* the operation goes on.
RequestTimeout ==
  /\ u2fTimeout = 1
  /\ u2fTimeout' = 0
  /\ Respond(waiting, LIBV_SW_CONDITIONS_OF_USE_NOT_SATISFIED, NoRequest)
  /\ UNCHANGED <<halted, op, cached, ui, u2fRequestHash>>

\* Mutant: the timer is decremented without looking whether it runs.
CountDownAlways ==
  /\ u2fTimeout # 1
  /\ u2fTimeout' = u2fTimeout - 1
  /\ displayed' \in (IF bagl_state = "READY" THEN {displayed}
                     ELSE {displayed, FALSE})
  /\ sent' = Silence
  /\ UNCHANGED <<halted, op, cached, bagl_state, shown, link, u2fRequestHash>>

\* The timer counts down; a prompt whose interval is over draws its next step.
CountDown ==
  /\ u2fTimeout # 1
  /\ u2fTimeout' = IF u2fTimeout > 0 THEN u2fTimeout - 1 ELSE 0
  /\ displayed' \in (IF bagl_state = "READY" THEN {displayed}
                     ELSE {displayed, FALSE})
  /\ sent' = Silence
  /\ UNCHANGED <<halted, op, cached, bagl_state, shown, link, u2fRequestHash>>

Ticker ==
  \/ displayed /\ (Redraw \/ SendQueued)
  \/ (~displayed \/ InSync) /\ (RequestTimeout \/ CountDown)

\* The user browses the menu.
MenuRedraw ==
  /\ bagl_state = "READY" /\ displayed
  /\ displayed' = FALSE /\ sent' = Silence
  /\ UNCHANGED <<halted, op, cached, bagl_state, shown, link, u2f>>

\* USB power lost while an APDU came by HID (EXCEPTION_IO_RESET), "Quit app"
\* and a new launch, or loss of power: app_init clears everything.
Restart ==
  /\ halted' = FALSE
  /\ state' = "READY" /\ request' = NoRequest /\ async' = NoAnswer
  /\ cached' = ZeroData
  /\ Install("READY", NoRequest)
  /\ channel' = "IDLE" /\ waiting' = NoApdu
  /\ u2fRequestHash' = 0 /\ u2fTimeout' = 0
  /\ sent' = Boot

Next ==
  \/ \E t \in Transports, a \in Apdu : Deliver(t, a)
  \/ \E confirmed \in BOOLEAN : Button(confirmed)
  \/ DisplayProcessed
  \/ Ticker
  \/ MenuRedraw
  \/ Restart

Spec == Init /\ [][Next]_vars

\* The MCU sends a ticker event every 100 ms and, after each element drawn, a
\* display event.  Nothing obliges a host to call or a user to press.
Fairness == WF_vars(DisplayProcessed) /\ WF_vars(Ticker)
FairSpec == Spec /\ Fairness
-----------------------------------------------------------------------------
(* Properties *)

\* Button callbacks read the state union as the type of the screen that is
\* installed, without testing state (libv_bagl_nanos.c:309, 707): the screen a
\* button answers is always that of the current state, drawn for the request
\* that the union holds now.
ScreenMatchesRequest ==
  bagl_state # "READY" => state = bagl_state /\ shown = request

\* An answer computed from a request is sent to the host of that very request,
\* whether it was waiting or came back (libv_app.c:57-72, 144-159), and an APDU
\* that needs the user's consent gets 9000 with such an answer only.
ReplyMatchesRequest ==
  /\ sent.answer # NoRequest => sent.answer.apdu = sent.to
  /\ (sent.to # NoApdu /\ sent.sw = LIBV_SW_OK)
       => (sent.to.op \in PromptOps <=> sent.answer # NoRequest)

\* The timer never runs for a host that is not waiting on U2F, which it would
\* interrupt with 6985 (libv_app.c:331-336, 247-258).
TimerOnlyOnU2f == u2fTimeout > 0 => channel = "U2F"

\* No host waits on U2F but on a running timer, which will send it away if the
\* user does not answer: however hosts call again, overtake each other and come
\* back, whatever frees or takes the channel (libv_app.c:57-66, 102-107, 331-336).
U2fHostIsTimed == channel = "U2F" => u2fTimeout > 0

\* Once halted, the app keeps no host waiting and lets no answer of an earlier
\* confirmation out, not even one already queued (libv_app.c:50-54, 120-127).
HaltedReleasesNothing ==
  halted => channel = "IDLE" /\ sent.answer = NoRequest

\* The data that the screen of a send block shows is the data of the signed
\* hash, however it was cut into chunks and whatever the cache went through
\* (libv_apdu_cache_send_block_data.c:64-89, libv_apdu_sign_send_block.c:127-168).
ShownIsHashed ==
  /\ Faithful(cached)
  /\ request # NoRequest => Faithful(request.d)

\* Refinement: seen from the user and the host, the app is ConfirmOnce.
AbstractVerdict(sw) == IF sw = LIBV_SW_OK THEN "approved" ELSE "declined"

AbstractOut ==
  [kind |-> IF sent = Boot THEN "reset"
            ELSE IF sent.answer = NoRequest THEN "nothing" ELSE "answer",
   req |-> sent.answer,
   verdict |-> IF sent.answer = NoRequest THEN "none"
               ELSE AbstractVerdict(sent.sw)]

Abstract == INSTANCE ConfirmOnce WITH
  phase   <- IF state # "READY" THEN "asking"
             ELSE IF Queued THEN "answered" ELSE "idle",
  req     <- IF state # "READY" THEN request ELSE async.request,
  verdict <- IF state = "READY" /\ Queued
             THEN AbstractVerdict(async.sw) ELSE "none",
  out     <- AbstractOut

\* A verdict leaves the device once, after the user gave it, for the request
\* that was asked, and is given up only for a new question or at a restart.
ImplementsConfirmOnce == Abstract!Spec

\* Refinement: seen from the display, the app is Prompts.
PromptsOfApp == INSTANCE Prompts WITH
  Screen <- Screens, req <- request, screen <- bagl_state

\* Screens are installed for a request that is open, when the display is free,
\* and leave it with the answer, never before (libv_bagl_nanos.c:309-327,
\* 707-725, 760-793).
ImplementsPrompts == PromptsOfApp!Spec

\* Under FairSpec, a request accepted is put before the user
\* (libv_app.c:161-170, 318-328), unless the app restarts.
PromptShown == state # "READY" ~> (bagl_state = state \/ sent = Boot)

\* Under FairSpec, the host that waits while its answer is queued gets it;
\* on U2F the timer may send it away first, and the answer stays queued for
\* its next call (libv_app.c:57-72, 318-337).
AnswerDelivered ==
  \A a \in Apdu :
    (Queued /\ waiting = a) ~>
      \/ sent.to = a /\ sent.answer # NoRequest
      \/ sent.to = a /\ u2fTimeout = 0 /\ Queued
      \/ sent = Boot

\* Under FairSpec, no U2F host waits for ever, whatever the user does: it is
\* answered or sent away (libv_app.c:331-336, 247-258).
U2fNeverHangs == channel = "U2F" ~> channel = "IDLE"

-----------------------------------------------------------------------------
(* What the documents say and the code does not do *)

\* doc/vite.md:300 has a status word for "cache-miss (cache parent before
\* sign)": data that was never cached leads neither to a prompt nor to an
\* internal error.
CacheMissReported ==
  /\ request # NoRequest => request.d.live
  /\ sent.sw = LIBV_SW_FAULT => ~sent.to.path

\* libv_apdu_sign_send_block.c:242, libv_apdu_get_address.c:120: "sanitise
\* request data": nothing of a request is left once it has been answered.
Sanitised == state = "READY" => request = NoRequest
=============================================================================
