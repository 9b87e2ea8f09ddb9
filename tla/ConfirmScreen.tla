--------------------------- MODULE ConfirmScreen ---------------------------
(***************************************************************************)
(* What the user sees before pressing a button: the stepped screens of     *)
(* libv_bagl_nanos.c.  A prompt is a title followed by one step for each   *)
(* field of the request; ux_step runs around them, a step per interval,    *)
(* modulo ux_step_count, which is computed apart from the code that finds  *)
(* the field of a step.  A step is drawn element by element, one display   *)
(* event each; drawing the label rewrites the strings of label and value.  *)
(*                                                                         *)
(* The state machine around the screen is that of LibvApp, reduced to the  *)
(* state, the request, and the moments when app_apply_state is called.     *)
(***************************************************************************)
EXTENDS Naturals, Sequences

LOCAL INSTANCE Functions   \* Range

CONSTANTS
  Block,       \* the requests that can be put before the user
  NoBlock, Nothing

Screens == {"CONFIRM_ADDRESS", "CONFIRM_SEND_SIGNATURE"}
States == {"READY"} \cup Screens

\* What decides the steps: the screen asked for, whether the receiver is a
\* built-in contract, whether the token is in the table, whether a fee and
\* data are there.
BlockFields == [screen: Screens, contract: BOOLEAN, known: BOOLEAN,
                hasFee: BOOLEAN, hasData: BOOLEAN, id: Nat]

ASSUME BlockAssumption == Block \subseteq BlockFields /\ NoBlock \notin Block

VARIABLES
  state, block,   \* libv_context_D: the state and the request
  bagl_state,     \* the screen installed
  ux_step,        \* the step on the screen, 0 being the title
  ux_step_count,  \* how many there are; 0 for the menu
  text,           \* what confirmLabel and confirmValue hold
  drawn,          \* elements of the step drawn since it was redisplayed
  visible,        \* what the display shows
  interval        \* a step change is scheduled

request == <<state, block>>
steps   == <<bagl_state, ux_step, ux_step_count>>
vars    == <<request, steps, text, drawn, visible, interval>>

If(c, field) == IF c THEN <<field>> ELSE << >>

\* The fields in the order of the steps that show them.
Fields(b) ==
  IF b.screen = "CONFIRM_ADDRESS" THEN <<"Address">>
  ELSE <<"Your account", IF b.contract THEN "Contract" ELSE "To address">>
       \o If(~b.known, "Token ID")
       \o <<"Send amount">>
       \o If(b.hasFee, "Fee")
       \o If(b.hasData, "Data")

FieldName == {"Address", "Your account", "Contract", "To address", "Token ID",
              "Send amount", "Fee", "Data"}

One(c) == IF c THEN 1 ELSE 0

\* Mutant: the step that shows the identifier of an unknown token is not
\* counted.
CountKnown(b) ==
  IF b.screen = "CONFIRM_ADDRESS" THEN 2
  ELSE 4 + One(b.hasFee) + One(b.hasData)

Count(b) ==
  IF b.screen = "CONFIRM_ADDRESS" THEN 2
  ELSE 4 + One(b.hasFee) + One(b.hasData) + One(~b.known)

\* of: the block the string was written for; intact: every character of it
\* was read from memory that still belongs to what was stored there.
Text == [of: Block, field: FieldName, intact: BOOLEAN] \cup {Nothing}
Written(b, f, ok) == [of |-> b, field |-> f, intact |-> ok]

ASSUME NothingAssumption ==
  Nothing \notin [of: Block, field: FieldName, intact: BOOLEAN]

Blank == [title |-> FALSE, label |-> Nothing, value |-> Nothing]

MaxStep == 6   \* a send block with an unknown token, a fee and data

\* The type invariant.
TypeOK ==
  /\ state \in States
  /\ block \in Block \cup {NoBlock}
  /\ bagl_state \in States
  /\ ux_step \in 0..MaxStep
  /\ ux_step_count \in 0..(MaxStep + 1)
  /\ text \in Text
  /\ drawn \in 0..2
  /\ visible \in [title: BOOLEAN, label: Text, value: Text]
  /\ interval \in BOOLEAN

Init ==
  /\ state = "READY" /\ block = NoBlock
  /\ bagl_state = "READY" /\ ux_step = 0 /\ ux_step_count = 0
  /\ text = Nothing
  /\ drawn = 0 /\ visible = Blank
  /\ interval = FALSE

-----------------------------------------------------------------------------
(* Drawing *)

\* Elements that the preprocessors let through, besides the frame: the menu
\* and the title count as one each.
Elements == IF bagl_state = "READY" \/ ux_step = 0 THEN 1 ELSE 2

Displayed == drawn = Elements

\* External: the frame is drawn at once and erases the display.  The SDK may
\* or may not forget the step change scheduled for the previous screen.
Redisplay(scheduled) ==
  /\ drawn' = 0 /\ visible' = Blank
  /\ interval' \in {scheduled, FALSE}

\* What is in the strings when a prompt is installed: the address is written
\* there and then, a block's fields when their step is drawn.
Prepared(s, b) ==
  IF s = "CONFIRM_ADDRESS" THEN Written(b, "Address", TRUE) ELSE Nothing

Idle ==
  /\ bagl_state' = "READY" /\ ux_step_count' = 0
  /\ Redisplay(interval)
  /\ UNCHANGED <<ux_step, text>>

\* Mutant: the step of the previous prompt is kept.
InstallAtStep(s, b) ==
  /\ bagl_state' = s /\ ux_step_count' = Count(b)
  /\ text' = Prepared(s, b)
  /\ Redisplay(interval)
  /\ UNCHANGED ux_step

Install(s, b) ==
  /\ bagl_state' = s
  /\ ux_step' = 0 /\ ux_step_count' = Count(b)
  /\ text' = Prepared(s, b)
  /\ Redisplay(interval)

DrawMenu ==
  /\ bagl_state = "READY" /\ drawn = 0
  /\ drawn' = 1
  /\ UNCHANGED <<request, steps, text, visible, interval>>

DrawTitle ==
  /\ bagl_state # "READY" /\ ux_step = 0 /\ drawn = 0
  /\ drawn' = 1 /\ visible' = [Blank EXCEPT !.title = TRUE]
  /\ interval' = TRUE
  /\ UNCHANGED <<request, steps, text>>

\* The strings of the step on the screen; those of a step past the last field
\* stay what they were.  amountFmt.suffix points into the local variable of a
\* function that has returned: what is read through it is a known token's
\* symbol only as long as nothing else was written there.
PrepareStep ==
  IF bagl_state = "CONFIRM_SEND_SIGNATURE" /\ state = bagl_state
       /\ ux_step <= Len(Fields(block))
  THEN \E ok \in BOOLEAN :
         /\ ok \/ (Fields(block)[ux_step] = "Send amount" /\ block.known)
         /\ text' = Written(block, Fields(block)[ux_step], ok)
  ELSE text' = text

\* Mutant: the strings are not rewritten when the label is drawn.
DrawLabelAsIs ==
  /\ bagl_state # "READY" /\ ux_step > 0 /\ drawn = 0
  /\ text' = text
  /\ drawn' = 1 /\ visible' = [visible EXCEPT !.label = text']
  /\ interval' = (interval \/ bagl_state = "CONFIRM_ADDRESS")
  /\ UNCHANGED <<request, steps>>

DrawLabel ==
  /\ bagl_state # "READY" /\ ux_step > 0 /\ drawn = 0
  /\ PrepareStep
  /\ drawn' = 1 /\ visible' = [visible EXCEPT !.label = text']
  /\ interval' = (interval \/ bagl_state = "CONFIRM_ADDRESS")
  /\ UNCHANGED <<request, steps>>

DrawValue ==
  /\ bagl_state # "READY" /\ ux_step > 0 /\ drawn = 1
  /\ drawn' = 2 /\ visible' = [visible EXCEPT !.value = text]
  /\ interval' = TRUE
  /\ UNCHANGED <<request, steps, text>>

-----------------------------------------------------------------------------
(* Events *)

\* app_apply_state, called for every display and ticker event: the screen
\* follows the state once the one installed has been drawn.
ApplyState ==
  /\ Displayed /\ bagl_state # state
  /\ IF state = "READY" THEN Idle ELSE Install(state, block)
  /\ UNCHANGED request

\* A handler puts a new request before the user.  The screen follows at once
\* or, if it is busy, later.
Prompt(b) ==
  /\ state = "READY"
  /\ state' = b.screen /\ block' = b
  /\ \/ Displayed /\ bagl_state # b.screen /\ Install(b.screen, b)
     \/ UNCHANGED <<steps, text, drawn, visible, interval>>

\* Mutant: the screen of the request answered is left to app_apply_state.
ButtonOnly ==
  /\ bagl_state # "READY"
  /\ state' = "READY" /\ UNCHANGED block
  /\ UNCHANGED <<steps, text, drawn, visible, interval>>

Button ==
  /\ bagl_state # "READY"
  /\ state' = "READY" /\ UNCHANGED block
  /\ Idle

\* Mutant: the last step is not followed by the title.
RotateOn ==
  /\ interval /\ ux_step_count > 0
  /\ ~(Displayed /\ bagl_state # state)
  /\ ux_step' = ux_step + 1
  /\ Redisplay(FALSE)
  /\ UNCHANGED <<request, bagl_state, ux_step_count, text>>

\* The interval is over: the next step, around the prompt.
Rotate ==
  /\ interval /\ ux_step_count > 0
  /\ ~(Displayed /\ bagl_state # state)
  /\ ux_step' = (ux_step + 1) % ux_step_count
  /\ Redisplay(FALSE)
  /\ UNCHANGED <<request, bagl_state, ux_step_count, text>>

\* The interval of a prompt that is gone is over: the menu has no steps.
Expire ==
  /\ interval /\ ux_step_count = 0
  /\ interval' = FALSE
  /\ UNCHANGED <<request, steps, text, drawn, visible>>

MenuRedraw ==
  /\ bagl_state = "READY" /\ Displayed
  /\ Redisplay(interval)
  /\ UNCHANGED <<request, steps, text>>

\* app_init, in mid-operation or not: the context is cleared and the menu is
\* installed; the strings and the step are globals that keep what they hold.
Restart ==
  /\ state' = "READY" /\ block' = NoBlock
  /\ Idle

Next ==
  \/ DrawMenu
  \/ DrawTitle
  \/ DrawLabel
  \/ DrawValue
  \/ ApplyState
  \/ \E b \in Block : Prompt(b)
  \/ Button
  \/ Rotate
  \/ Expire
  \/ MenuRedraw
  \/ Restart

Spec == Init /\ [][Next]_vars

\* The MCU answers each element drawn with a display event and ticks for ever.
\* Strong fairness of the drawing: an element takes milliseconds to draw, a
\* step at least two seconds to go, so steps do not go undrawn for ever; nor
\* does the user browse the menu fast enough to keep a prompt away for ever.
Fairness ==
  /\ SF_vars(DrawMenu) /\ SF_vars(DrawTitle)
  /\ SF_vars(DrawLabel) /\ SF_vars(DrawValue)
  /\ SF_vars(ApplyState) /\ WF_vars(Rotate)

FairSpec == Spec /\ Fairness

-----------------------------------------------------------------------------
(* Properties *)

Shows(t) ==
  /\ t # Nothing
  /\ t.of = block
  /\ ux_step <= Len(Fields(block))
  /\ t.field = Fields(block)[ux_step]

\* A string drawn for a step is that of the field the step stands for, of the
\* request that a button would answer, its label and its value alike; there
\* is no step without a field (libv_bagl_nanos.c:582-704, 727-758).
ScreenShowsStep ==
  (bagl_state # "READY" /\ ux_step > 0) =>
    /\ drawn >= 1 => Shows(visible.label)
    /\ drawn = 2 => Shows(visible.value)

\* Refinement: the stepped screens are those that LibvApp installs in one step.
Steps == INSTANCE Prompts WITH
  Screen <- Screens, Request <- Block, NoRequest <- NoBlock,
  req <- block, screen <- bagl_state, displayed <- Displayed

\* Whatever a screen draws and whichever step it is at, it is installed and
\* left with its request, as Prompts says (libv_bagl_nanos.c:309-345, 707-793).
ImplementsPrompts == Steps!Spec

Asked(b, f) == state = b.screen /\ block = b /\ f \in Range(Fields(b))

Seen(b, f) ==
  /\ visible.label # Nothing /\ visible.value # Nothing
  /\ visible.label.field = f
  /\ visible.value.of = b /\ visible.value.field = f

\* Under FairSpec, a user who waits sees every field of the request that the
\* signature or the address confirmed stands for: none is skipped, whatever
\* fields the request has (libv_bagl_nanos.c:206-215, 751-755).
FieldsShown ==
  \A b \in Block, f \in FieldName :
    Asked(b, f) ~> (Seen(b, f) \/ state = "READY")

-----------------------------------------------------------------------------
(* What the comments say and the code does not do *)

\* libv_helpers.c:266 "Append the unique symbol": the amount of a token in the
\* table is shown with the symbol of that token.
AmountHasSymbol ==
  visible.value # Nothing => visible.value.intact
=============================================================================
