------------------------------ MODULE Prompts ------------------------------
(***************************************************************************)
(* What the app promises about its screens, with no host, timer, text or   *)
(* element: a request is put before the user when no other is; the screen  *)
(* follows the state, at once if the display is free and else as soon as   *)
(* it is; a button answers the prompt on the screen, ends the request and  *)
(* goes back to the menu in one step.  A screen is never exchanged for     *)
(* another while its request is open.                                      *)
(*                                                                         *)
(* LibvApp and ConfirmScreen both model this part of the code, each with   *)
(* its own detail next to it; both are shown to implement this module.     *)
(***************************************************************************)
CONSTANTS
  Screen,      \* the screens that are prompts; "READY" is the menu
  Request,     \* what the user can be asked to confirm
  NoRequest    \* no request

VARIABLES
  state,       \* "READY", or the screen of the open request
  req,         \* the request, which stays where it is when it is answered
  screen,      \* the screen installed
  displayed    \* all of it has been drawn

vars == <<state, req, screen, displayed>>

Init ==
  /\ state = "READY" /\ req = NoRequest
  /\ screen = "READY" /\ displayed = FALSE

Install(s) == screen' = s /\ displayed' = FALSE

Ask(s) ==
  /\ state = "READY"
  /\ state' = s /\ req' \in Request
  /\ \/ displayed /\ Install(s)
     \/ UNCHANGED <<screen, displayed>>

\* The step that draws the last element may be the one that finds the screen
\* out of date.
Follow ==
  /\ screen = "READY" /\ state # "READY"
  /\ Install(state)
  /\ UNCHANGED <<state, req>>

\* A button is for the prompt on the screen, which is that of the request.
Answer ==
  /\ screen # "READY" /\ screen = state
  /\ state' = "READY" /\ UNCHANGED req
  /\ Install("READY")

Drawn == displayed' = TRUE /\ UNCHANGED <<state, req, screen>>
Erase == displayed' = FALSE /\ UNCHANGED <<state, req, screen>>

Restart == Init'

Next ==
  \/ \E s \in Screen : Ask(s)
  \/ Follow
  \/ Answer
  \/ Drawn
  \/ Erase
  \/ Restart

Spec == Init /\ [][Next]_vars
=============================================================================
