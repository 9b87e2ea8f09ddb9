---------------------------- MODULE ConfirmOnce ----------------------------
(***************************************************************************)
(* What the app promises about confirmations, with no screen, transport,   *)
(* timer or buffer: the user is asked about one request at a time; the     *)
(* answer that leaves the device is the verdict the user gave on the       *)
(* request that was asked; each verdict leaves at most once; and one that  *)
(* has not left is given up only when a new question is asked or when the  *)
(* device restarts.                                                        *)
(***************************************************************************)
CONSTANTS
  Request,     \* what the user can be asked to confirm
  NoRequest    \* no request

VARIABLES
  phase,       \* "idle", "asking" the user, or "answered" and not yet sent
  req,         \* the request of the current question or verdict
  verdict,     \* the verdict that waits to be sent
  out          \* what the last step sent

vars == <<phase, req, verdict, out>>

Verdict == {"approved", "declined"}

Nothing == [kind |-> "nothing", req |-> NoRequest, verdict |-> "none"]
Reset   == [kind |-> "reset",   req |-> NoRequest, verdict |-> "none"]

Idle == phase = "idle" /\ req = NoRequest /\ verdict = "none"

Init == Idle /\ out = Reset

Ask ==
  /\ phase # "asking"
  /\ phase' = "asking" /\ req' \in Request /\ verdict' = "none"
  /\ out' = Nothing

Decide(v) ==
  /\ phase = "asking"
  /\ phase' = "answered" /\ verdict' = v /\ req' = req
  /\ out' = Nothing

Release ==
  /\ phase = "answered"
  /\ out' = [kind |-> "answer", req |-> req, verdict |-> verdict]
  /\ phase' = "idle" /\ req' = NoRequest /\ verdict' = "none"

Restart == Idle' /\ out' = Reset

\* Every other message and event is none of the user's business.
Other == out' = Nothing /\ UNCHANGED <<phase, req, verdict>>

Next ==
  \/ Ask
  \/ \E v \in Verdict : Decide(v)
  \/ Release
  \/ Restart
  \/ Other

Spec == Init /\ [][Next]_vars
=============================================================================
