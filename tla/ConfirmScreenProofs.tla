------------------------ MODULE ConfirmScreenProofs ------------------------
(***************************************************************************)
(* Theorems on the stepped screens, for any set of requests: what is drawn *)
(* belongs to the step and to the request, and the screens implement       *)
(* Prompts.                                                                *)
(***************************************************************************)
EXTENDS ConfirmScreen, TLAPS

-----------------------------------------------------------------------------
(* The steps and their number *)

LEMMA IfLength ==
  ASSUME NEW c \in BOOLEAN, NEW f \in FieldName
  PROVE  If(c, f) \in Seq(FieldName) /\ Len(If(c, f)) = One(c)
<1>1. CASE c
  <2>1. If(c, f) = <<f>> /\ One(c) = 1
    BY <1>1 DEF If, One
  <2> QED
    BY <2>1
<1>2. CASE ~c
  <2>1. If(c, f) = << >> /\ One(c) = 0
    BY <1>2 DEF If, One
  <2> QED
    BY <2>1
<1> QED
  BY <1>1, <1>2

LEMMA Joined ==
  \A s, t \in Seq(FieldName) :
    s \o t \in Seq(FieldName) /\ Len(s \o t) = Len(s) + Len(t)
OBVIOUS

(* The number of steps, counted in one function, is one more than the number
   of fields, found one by one in another. *)
LEMMA StepsOfFields ==
  ASSUME NEW b \in BlockFields
  PROVE  /\ Fields(b) \in Seq(FieldName)
         /\ Len(Fields(b)) + 1 = Count(b)
         /\ Count(b) \in 2..(MaxStep + 1)
<1>1. CASE b.screen = "CONFIRM_ADDRESS"
  <2>1. Fields(b) = <<"Address">> /\ Count(b) = 2
    BY <1>1 DEF Fields, Count
  <2> QED
    BY <2>1 DEF FieldName, MaxStep
<1>2. CASE b.screen # "CONFIRM_ADDRESS"
  <2> DEFINE first == <<"Your account",
                        IF b.contract THEN "Contract" ELSE "To address">>
             one   == <<"Send amount">>
             id    == If(~b.known, "Token ID")
             fee   == If(b.hasFee, "Fee")
             data  == If(b.hasData, "Data")
             ids   == One(~b.known)
             fees  == One(b.hasFee)
             datas == One(b.hasData)
  <2>1. b.known \in BOOLEAN /\ b.hasFee \in BOOLEAN /\ b.hasData \in BOOLEAN
    BY DEF BlockFields
  <2>2. /\ first \in Seq(FieldName) /\ Len(first) = 2
        /\ one \in Seq(FieldName) /\ Len(one) = 1
    BY DEF FieldName
  <2>3. /\ id \in Seq(FieldName) /\ Len(id) = ids
        /\ fee \in Seq(FieldName) /\ Len(fee) = fees
        /\ data \in Seq(FieldName) /\ Len(data) = datas
    BY <2>1, IfLength DEF FieldName
  <2>4. ids \in 0..1 /\ fees \in 0..1 /\ datas \in 0..1
    BY DEF One
  <2>5. Fields(b) = first \o id \o one \o fee \o data
    BY <1>2 DEF Fields
  <2>6. Count(b) = 4 + fees + datas + ids
    BY <1>2 DEF Count
  <2> HIDE DEF first, one, id, fee, data, ids, fees, datas
  <2>7. first \o id \in Seq(FieldName) /\ Len(first \o id) = 2 + ids
    BY <2>2, <2>3, Joined
  <2>8. /\ first \o id \o one \in Seq(FieldName)
        /\ Len(first \o id \o one) = 3 + ids
    <3>1. /\ first \o id \o one \in Seq(FieldName)
          /\ Len(first \o id \o one) = Len(first \o id) + Len(one)
      BY <2>2, <2>7, Joined
    <3>2. Len(first \o id) + Len(one) = 3 + ids
      BY <2>2, <2>4, <2>7
    <3> QED
      BY <3>1, <3>2
  <2>9. /\ first \o id \o one \o fee \in Seq(FieldName)
        /\ Len(first \o id \o one \o fee) = 3 + ids + fees
    BY <2>3, <2>8, Joined
  <2>10. /\ Fields(b) \in Seq(FieldName)
         /\ Len(Fields(b)) = 3 + ids + fees + datas
    BY <2>3, <2>5, <2>9, Joined
  <2> QED
    BY <2>4, <2>6, <2>10 DEF MaxStep
<1> QED
  BY <1>1, <1>2

LEMMA Modulo ==
  ASSUME NEW n \in Nat \ {0}, NEW i \in 0..(n - 1)
  PROVE  (i + 1) % n \in 0..(n - 1)
BY SMT
-----------------------------------------------------------------------------
(* The invariant *)

(* A request that is open is for the screen of its state. *)
RequestOfState ==
  state # "READY" => block \in Block /\ block.screen = state

(* The screen installed is that of the open request, and has its steps. *)
StepsOfRequest ==
  bagl_state # "READY" =>
    /\ state = bagl_state
    /\ ux_step_count = Count(block)
    /\ ux_step < ux_step_count

(* Once the label is drawn, the strings are those of the step until the next
   one; those of an address never change. *)
StringsOfStep ==
  /\ (bagl_state # "READY" /\ ux_step > 0 /\ drawn >= 1) => Shows(text)
  /\ bagl_state = "CONFIRM_ADDRESS" => text = Written(block, "Address", TRUE)

IInv ==
  /\ TypeOK
  /\ RequestOfState
  /\ StepsOfRequest
  /\ bagl_state = "READY" => ux_step_count = 0
  /\ StringsOfStep
  /\ ScreenShowsStep

LEMMA BlankType ==
  /\ Blank \in [title: BOOLEAN, label: Text, value: Text]
  /\ [Blank EXCEPT !.title = TRUE] \in [title: BOOLEAN, label: Text, value: Text]
BY DEF Blank, Text

(* The menu or a prompt has been installed, or the step is drawn anew. *)
LEMMA RedisplayType ==
  ASSUME NEW scheduled \in BOOLEAN, Redisplay(scheduled)
  PROVE  /\ drawn' = 0 /\ drawn' \in 0..2
         /\ visible' \in [title: BOOLEAN, label: Text, value: Text]
         /\ interval' \in BOOLEAN
<1>1. interval' = scheduled \/ interval' = FALSE
  BY DEF Redisplay
<1>2. interval' \in BOOLEAN
  BY <1>1, Zenon
<1> QED
  BY <1>2, BlankType DEF Redisplay

LEMMA InitInv == Init => IInv
<1> SUFFICES ASSUME Init PROVE IInv
  OBVIOUS
<1>1. visible \in [title: BOOLEAN, label: Text, value: Text]
  BY BlankType DEF Init
<1>2. interval \in BOOLEAN
  BY Zenon DEF Init
<1>3. TypeOK
  BY <1>1, <1>2 DEF Init, TypeOK, States, Text, MaxStep
<1> QED
  BY <1>3 DEF Init, IInv, RequestOfState, StepsOfRequest, StringsOfStep,
              ScreenShowsStep

LEMMA WrittenIsText ==
  ASSUME NEW b \in Block, NEW f \in FieldName, NEW ok \in BOOLEAN
  PROVE  Written(b, f, ok) \in Text /\ Written(b, f, ok) # Nothing
BY NothingAssumption DEF Written, Text

(* A prompt that has just been installed is at its title, nothing drawn. *)
LEMMA InstallKeeps ==
  ASSUME IInv, NEW b \in Block, Install(b.screen, b),
         state' = b.screen, block' = b
  PROVE  IInv'
<1>1. b \in BlockFields /\ b.screen \in Screens
  BY BlockAssumption DEF BlockFields
<1>2. Count(b) \in 2..(MaxStep + 1)
  BY <1>1, StepsOfFields
<1>3. "READY" \notin Screens
  BY DEF Screens
<1>4. /\ bagl_state' = b.screen /\ ux_step' = 0 /\ ux_step_count' = Count(b)
      /\ text' = Prepared(b.screen, b)
      /\ drawn' = 0 /\ drawn' \in 0..2
      /\ visible' \in [title: BOOLEAN, label: Text, value: Text]
      /\ interval' \in BOOLEAN
  BY RedisplayType DEF Install, IInv, TypeOK
<1>5. text' \in Text
  <2>1. Written(b, "Address", TRUE) \in Text
    BY WrittenIsText DEF FieldName
  <2>2. Nothing \in Text
    BY DEF Text
  <2> QED
    BY <1>4, <2>1, <2>2 DEF Prepared
<1>6. TypeOK'
  BY <1>1, <1>2, <1>4, <1>5 DEF TypeOK, States, MaxStep
<1>7. RequestOfState' /\ StepsOfRequest'
  <2>1. Count(block)' = Count(b)
    BY DEF Count, One
  <2> QED
    BY <1>2, <1>4, <2>1 DEF RequestOfState, StepsOfRequest
<1>8. StringsOfStep' /\ ScreenShowsStep'
  <2>1. b.screen = "CONFIRM_ADDRESS" => text' = Written(b, "Address", TRUE)
    BY <1>4 DEF Prepared
  <2> QED
    BY <1>4, <2>1 DEF StringsOfStep, ScreenShowsStep, Written
<1> QED
  BY <1>1, <1>3, <1>4, <1>6, <1>7, <1>8 DEF IInv

(* The menu has no steps and no strings. *)
LEMMA IdleKeeps ==
  ASSUME IInv, Idle, state' = "READY", block' \in Block \cup {NoBlock}
  PROVE  IInv'
<1>1. /\ bagl_state' = "READY" /\ ux_step_count' = 0
      /\ drawn' = 0 /\ drawn' \in 0..2
      /\ visible' \in [title: BOOLEAN, label: Text, value: Text]
      /\ interval' \in BOOLEAN
      /\ ux_step' = ux_step /\ text' = text
  BY RedisplayType DEF Idle, IInv, TypeOK
<1>2. TypeOK'
  BY <1>1 DEF IInv, TypeOK, States, MaxStep
<1> QED
  BY <1>1, <1>2 DEF IInv, RequestOfState, StepsOfRequest, StringsOfStep,
                    ScreenShowsStep

(* Every step that a prompt can be at has a field. *)
LEMMA StepHasField ==
  ASSUME IInv, bagl_state # "READY", ux_step > 0
  PROVE  /\ block \in Block
         /\ ux_step \in 1..Len(Fields(block))
         /\ Fields(block)[ux_step] \in FieldName
<1>1. block \in Block
  BY DEF IInv, RequestOfState, StepsOfRequest
<1>2. block \in BlockFields
  BY <1>1, BlockAssumption
<1>3. ux_step \in Nat /\ ux_step < Count(block)
  BY DEF IInv, TypeOK, StepsOfRequest
<1>4. /\ Fields(block) \in Seq(FieldName)
      /\ Len(Fields(block)) + 1 = Count(block)
      /\ Len(Fields(block)) \in Nat
  BY <1>2, StepsOfFields
<1>5. ux_step \in 1..Len(Fields(block))
  BY <1>3, <1>4
<1> QED
  BY <1>1, <1>4, <1>5

(* Drawing the label writes the strings of the step. *)
LEMMA StepPrepared ==
  ASSUME IInv, bagl_state # "READY", ux_step > 0, PrepareStep, UNCHANGED request
  PROVE  /\ text' \in Text
         /\ text' # Nothing
         /\ text'.of = block /\ text'.field = Fields(block)[ux_step]
         /\ bagl_state = "CONFIRM_ADDRESS" => text' = text
<1>1. /\ block \in Block
      /\ ux_step \in 1..Len(Fields(block))
      /\ Fields(block)[ux_step] \in FieldName
  BY StepHasField
<1>2. state = bagl_state /\ block.screen = bagl_state
  BY DEF IInv, StepsOfRequest, RequestOfState
<1>3. CASE bagl_state = "CONFIRM_SEND_SIGNATURE"
  <2>1. PICK ok \in BOOLEAN :
          text' = Written(block, Fields(block)[ux_step], ok)
    <3>1. ux_step <= Len(Fields(block))
      BY <1>1
    <3>2. \E ok \in BOOLEAN :
            text' = Written(block, Fields(block)[ux_step], ok)
      BY <1>2, <1>3, <3>1, Zenon DEF PrepareStep
    <3> QED
      BY <3>2
  <2> QED
    BY <1>1, <1>3, <2>1, WrittenIsText DEF Written
<1>4. CASE bagl_state = "CONFIRM_ADDRESS"
  <2>1. text' = text /\ text = Written(block, "Address", TRUE)
    BY <1>4 DEF PrepareStep, IInv, StringsOfStep
  <2>2. Fields(block) = <<"Address">>
    BY <1>2, <1>4 DEF Fields
  <2>3. Fields(block)[ux_step] = "Address"
    BY <1>1, <2>2
  <2> QED
    BY <1>1, <2>1, <2>3, WrittenIsText DEF Written, FieldName
<1>5. bagl_state \in {"CONFIRM_ADDRESS", "CONFIRM_SEND_SIGNATURE"}
  BY DEF IInv, TypeOK, States, Screens
<1> QED
  BY <1>3, <1>4, <1>5

LEMMA DrawLabelKeeps == IInv /\ DrawLabel => IInv'
<1> SUFFICES ASSUME IInv, DrawLabel PROVE IInv'
  OBVIOUS
<1>1. /\ UNCHANGED <<state, block, bagl_state, ux_step, ux_step_count>>
      /\ bagl_state # "READY" /\ ux_step > 0
      /\ drawn' = 1 /\ visible' = [visible EXCEPT !.label = text']
      /\ interval' = (interval \/ bagl_state = "CONFIRM_ADDRESS")
      /\ PrepareStep
  BY DEF DrawLabel, request, steps
<1>2. /\ text' \in Text /\ text' # Nothing
      /\ text'.of = block /\ text'.field = Fields(block)[ux_step]
      /\ bagl_state = "CONFIRM_ADDRESS" => text' = text
  BY <1>1, StepPrepared DEF request
<1>3. ux_step \in 1..Len(Fields(block))
  BY <1>1, StepHasField
<1>4. Shows(text)' /\ Shows(visible.label)'
  <2>1. visible'.label = text'
    BY <1>1 DEF IInv, TypeOK
  <2>2. Fields(block)' = Fields(block)
    BY <1>1 DEF Fields, If
  <2> QED
    BY <1>1, <1>2, <1>3, <2>1, <2>2 DEF Shows
<1>5. TypeOK'
  BY <1>1, <1>2 DEF IInv, TypeOK
<1>6. RequestOfState' /\ StepsOfRequest'
  BY <1>1 DEF IInv, RequestOfState, StepsOfRequest, Count, One
<1>7. StringsOfStep' /\ ScreenShowsStep'
  BY <1>1, <1>2, <1>4 DEF IInv, StringsOfStep, ScreenShowsStep, Written
<1> QED
  BY <1>1, <1>5, <1>6, <1>7 DEF IInv

LEMMA DrawValueKeeps == IInv /\ DrawValue => IInv'
<1> SUFFICES ASSUME IInv, DrawValue PROVE IInv'
  OBVIOUS
<1>1. /\ UNCHANGED <<state, block, bagl_state, ux_step, ux_step_count, text>>
      /\ bagl_state # "READY" /\ ux_step > 0 /\ drawn = 1
      /\ drawn' = 2 /\ visible' = [visible EXCEPT !.value = text]
      /\ interval' = TRUE
  BY DEF DrawValue, request, steps
<1>2. Shows(text) /\ Shows(visible.label)
  BY <1>1 DEF IInv, StringsOfStep, ScreenShowsStep
<1>3. visible'.value = text /\ visible'.label = visible.label
  BY <1>1 DEF IInv, TypeOK
<1>4. Shows(text)' /\ Shows(visible.value)' /\ Shows(visible.label)'
  <2>1. Fields(block)' = Fields(block)
    BY <1>1 DEF Fields, If
  <2> QED
    BY <1>1, <1>2, <1>3, <2>1 DEF Shows
<1>5. TypeOK'
  BY <1>1 DEF IInv, TypeOK
<1>6. RequestOfState' /\ StepsOfRequest'
  BY <1>1 DEF IInv, RequestOfState, StepsOfRequest, Count, One
<1>7. StringsOfStep' /\ ScreenShowsStep'
  BY <1>1, <1>4 DEF IInv, StringsOfStep, ScreenShowsStep, Written
<1> QED
  BY <1>1, <1>5, <1>6, <1>7 DEF IInv

(* The step stays below the number of steps, and nothing of it is drawn. *)
LEMMA RotateKeeps == IInv /\ Rotate => IInv'
<1> SUFFICES ASSUME IInv, Rotate PROVE IInv'
  OBVIOUS
<1>1. /\ UNCHANGED <<state, block, bagl_state, ux_step_count, text>>
      /\ ux_step_count > 0 /\ ux_step' = (ux_step + 1) % ux_step_count
      /\ drawn' = 0 /\ drawn' \in 0..2
      /\ visible' \in [title: BOOLEAN, label: Text, value: Text]
      /\ interval' \in BOOLEAN
  BY RedisplayType DEF Rotate, request
<1>2. bagl_state # "READY"
  BY <1>1 DEF IInv
<1>3. /\ ux_step_count \in 1..(MaxStep + 1)
      /\ ux_step \in 0..(ux_step_count - 1)
  BY <1>1, <1>2 DEF IInv, TypeOK, StepsOfRequest, MaxStep
<1>4. ux_step' \in 0..(ux_step_count - 1)
  BY <1>1, <1>3, Modulo DEF MaxStep
<1>5. TypeOK'
  BY <1>1, <1>3, <1>4 DEF IInv, TypeOK, MaxStep
<1>6. RequestOfState' /\ StepsOfRequest'
  BY <1>1, <1>3, <1>4
     DEF IInv, RequestOfState, StepsOfRequest, Count, One, MaxStep
<1>7. StringsOfStep' /\ ScreenShowsStep'
  BY <1>1 DEF IInv, StringsOfStep, ScreenShowsStep, Written
<1> QED
  BY <1>1, <1>2, <1>5, <1>6, <1>7 DEF IInv

LEMMA ApplyStateKeeps == IInv /\ ApplyState => IInv'
<1> SUFFICES ASSUME IInv, ApplyState PROVE IInv'
  OBVIOUS
<1>1. state' = state /\ block' = block /\ bagl_state # state
  BY DEF ApplyState, request
<1>2. state # "READY"
  BY <1>1 DEF IInv, StepsOfRequest
<1>3. block \in Block /\ block.screen = state
  BY <1>2 DEF IInv, RequestOfState
<1>4. Install(block.screen, block)
  BY <1>2, <1>3 DEF ApplyState
<1> QED
  BY <1>1, <1>3, <1>4, InstallKeeps

LEMMA PromptKeeps ==
  ASSUME IInv, NEW b \in Block, Prompt(b)
  PROVE  IInv'
<1>1. state' = b.screen /\ block' = b /\ state = "READY"
  BY DEF Prompt
<1>2. bagl_state = "READY"
  BY <1>1 DEF IInv, StepsOfRequest
<1>3. CASE Install(b.screen, b)
  BY <1>1, <1>3, InstallKeeps
<1>4. CASE UNCHANGED <<steps, text, drawn, visible, interval>>
  <2>1. b.screen \in Screens
    BY BlockAssumption DEF BlockFields
  <2>2. TypeOK'
    BY <1>1, <1>4, <2>1 DEF IInv, TypeOK, States, steps
  <2>3. RequestOfState'
    BY <1>1, <2>1 DEF RequestOfState, Screens
  <2> QED
    BY <1>2, <1>4, <2>2, <2>3
       DEF IInv, StepsOfRequest, StringsOfStep, ScreenShowsStep, steps
<1> QED
  BY <1>3, <1>4 DEF Prompt

LEMMA NextInv == IInv /\ [Next]_vars => IInv'
<1> SUFFICES ASSUME IInv, [Next]_vars PROVE IInv'
  OBVIOUS
<1> USE DEF request, steps
<1>1. CASE DrawMenu
  BY <1>1 DEF DrawMenu, IInv, TypeOK, RequestOfState, StepsOfRequest,
              StringsOfStep, ScreenShowsStep
<1>2. CASE DrawTitle
  <2>1. TypeOK'
    BY <1>2, BlankType DEF DrawTitle, IInv, TypeOK
  <2>2. RequestOfState' /\ StepsOfRequest'
    BY <1>2 DEF DrawTitle, IInv, RequestOfState, StepsOfRequest, Count, One
  <2>3. StringsOfStep' /\ ScreenShowsStep'
    BY <1>2 DEF DrawTitle, IInv, StringsOfStep, ScreenShowsStep, Written
  <2> QED
    BY <1>2, <2>1, <2>2, <2>3 DEF DrawTitle, IInv
<1>3. CASE DrawLabel
  BY <1>3, DrawLabelKeeps
<1>4. CASE DrawValue
  BY <1>4, DrawValueKeeps
<1>5. CASE ApplyState
  BY <1>5, ApplyStateKeeps
<1>6. ASSUME NEW b \in Block, Prompt(b)
      PROVE  IInv'
  BY <1>6, PromptKeeps
<1>7. CASE Button
  BY <1>7, IdleKeeps DEF Button, IInv, TypeOK
<1>8. CASE Rotate
  BY <1>8, RotateKeeps
<1>9. CASE Expire \/ UNCHANGED vars
  <2>1. UNCHANGED <<state, block, bagl_state, ux_step, ux_step_count, text,
                    drawn, visible>> /\ interval' \in {interval, FALSE}
    BY <1>9 DEF Expire, vars
  <2>2. TypeOK'
    BY <2>1 DEF IInv, TypeOK
  <2>3. RequestOfState' /\ StepsOfRequest'
    BY <2>1 DEF IInv, RequestOfState, StepsOfRequest, Count, One
  <2>4. Fields(block)' = Fields(block)
    BY <2>1 DEF Fields, If
  <2>5. StringsOfStep' /\ ScreenShowsStep'
    BY <2>1, <2>4
       DEF IInv, StringsOfStep, ScreenShowsStep, Shows, Written
  <2> QED
    BY <2>1, <2>2, <2>3, <2>5 DEF IInv
<1>10. CASE MenuRedraw
  <2>1. TypeOK'
    BY <1>10, RedisplayType DEF MenuRedraw, IInv, TypeOK
  <2> QED
    BY <1>10, <2>1 DEF MenuRedraw, Redisplay, IInv, RequestOfState,
                       StepsOfRequest, StringsOfStep, ScreenShowsStep
<1>11. CASE Restart
  BY <1>11, IdleKeeps DEF Restart
<1> QED
  BY <1>1, <1>2, <1>3, <1>4, <1>5, <1>6, <1>7, <1>8, <1>9, <1>10, <1>11
     DEF Next

THEOREM Invariance == Spec => []IInv
BY InitInv, NextInv, PTL DEF Spec

(* The type invariant, for any requests. *)
THEOREM TypeCorrect == Spec => []TypeOK
<1>1. IInv => TypeOK
  BY DEF IInv
<1> QED
  BY <1>1, Invariance, PTL

(* What is drawn for a step is the field of that step, of the request that a
   button answers: ScreenShowsStep. *)
THEOREM StepSafe == Spec => []ScreenShowsStep
<1>1. IInv => ScreenShowsStep
  BY DEF IInv
<1> QED
  BY <1>1, Invariance, PTL
-----------------------------------------------------------------------------
(* The screens implement Prompts *)

(* Nothing of a screen just installed or redisplayed has been drawn. *)
LEMMA NotDisplayed == drawn' = 0 => Displayed' = FALSE
BY DEF Displayed, Elements

LEMMA PromptsInstalled ==
  ASSUME NEW s, bagl_state' = s, drawn' = 0
  PROVE  Steps!Install(s)
<1>1. Displayed' = FALSE
  BY NotDisplayed
<1> QED
  BY <1>1 DEF Steps!Install

(* Steps that draw, element by element: only the last one is seen. *)
LEMMA DrawingRefines ==
  ASSUME DrawMenu \/ DrawTitle \/ DrawLabel \/ DrawValue
  PROVE  Steps!Next \/ UNCHANGED Steps!vars
<1>1. UNCHANGED <<state, block, bagl_state, ux_step>>
  BY DEF DrawMenu, DrawTitle, DrawLabel, DrawValue, request, steps
<1>2. Elements' = Elements
  BY <1>1 DEF Elements
<1>3. CASE DrawLabel
  <2>1. drawn = 0 /\ drawn' = 1 /\ Elements = 2
    BY <1>3 DEF DrawLabel, Elements
  <2>2. Displayed = FALSE /\ Displayed' = FALSE
    BY <1>2, <2>1 DEF Displayed
  <2> QED
    BY <1>1, <2>2 DEF Steps!vars
<1>4. CASE DrawMenu \/ DrawTitle \/ DrawValue
  <2>1. drawn' = Elements
    BY <1>4 DEF DrawMenu, DrawTitle, DrawValue, Elements
  <2>2. Displayed' = TRUE
    BY <1>2, <2>1 DEF Displayed
  <2> QED
    BY <1>1, <2>2 DEF Steps!Next, Steps!Drawn
<1> QED
  BY <1>3, <1>4

LEMMA StepRefines ==
  ASSUME IInv, [Next]_vars
  PROVE  Steps!Next \/ UNCHANGED Steps!vars
<1> USE DEF Steps!Next
<1>1. CASE DrawMenu \/ DrawTitle \/ DrawLabel \/ DrawValue
  BY <1>1, DrawingRefines
<1>2. CASE ApplyState
  <2>1. /\ state' = state /\ block' = block
        /\ bagl_state = "READY" /\ state # "READY"
    BY <1>2 DEF ApplyState, IInv, StepsOfRequest, request
  <2>2. Steps!Install(state)
    BY <1>2, <2>1, PromptsInstalled DEF ApplyState, Install, Redisplay
  <2> QED
    BY <2>1, <2>2 DEF Steps!Follow
<1>3. ASSUME NEW b \in Block, Prompt(b)
      PROVE  Steps!Next
  <2>1. b.screen \in Screens
    BY BlockAssumption DEF BlockFields
  <2>2. state = "READY" /\ state' = b.screen /\ block' \in Block
    BY <1>3 DEF Prompt
  <2>3. CASE Displayed /\ Install(b.screen, b)
    <3>1. Steps!Install(b.screen)
      BY <2>3, PromptsInstalled DEF Install, Redisplay
    <3> QED
      BY <2>1, <2>2, <2>3, <3>1 DEF Steps!Ask
  <2>4. CASE UNCHANGED <<steps, text, drawn, visible, interval>>
    <3>1. bagl_state' = bagl_state /\ Displayed' = Displayed
      BY <2>4 DEF steps, Displayed, Elements
    <3> QED
      BY <2>1, <2>2, <3>1 DEF Steps!Ask
  <2> QED
    BY <1>3, <2>3, <2>4 DEF Prompt
<1>4. CASE Button
  <2>1. bagl_state # "READY" /\ bagl_state = state
    BY <1>4 DEF Button, IInv, StepsOfRequest
  <2>2. Steps!Install("READY")
    BY <1>4, PromptsInstalled DEF Button, Idle, Redisplay
  <2> QED
    BY <1>4, <2>1, <2>2 DEF Button, Steps!Answer
<1>5. CASE Rotate \/ MenuRedraw
  <2>1. drawn' = 0 /\ UNCHANGED <<state, block, bagl_state>>
    BY <1>5 DEF Rotate, MenuRedraw, Redisplay, request, steps
  <2>2. Displayed' = FALSE
    BY <2>1, NotDisplayed
  <2> QED
    BY <2>1, <2>2 DEF Steps!Erase
<1>6. CASE Expire \/ UNCHANGED vars
  <2>1. UNCHANGED <<state, block, bagl_state, ux_step, drawn>>
    BY <1>6 DEF Expire, vars, request, steps
  <2>2. Displayed' = Displayed
    BY <2>1 DEF Displayed, Elements
  <2> QED
    BY <2>1, <2>2 DEF Steps!vars
<1>7. CASE Restart
  <2>1. /\ state' = "READY" /\ block' = NoBlock
        /\ bagl_state' = "READY" /\ drawn' = 0
    BY <1>7 DEF Restart, Idle, Redisplay
  <2>2. Displayed' = FALSE
    BY <2>1, NotDisplayed
  <2> QED
    BY <2>1, <2>2 DEF Steps!Restart, Steps!Init
<1> QED
  BY <1>1, <1>2, <1>3, <1>4, <1>5, <1>6, <1>7 DEF Next

(* Drawn element by element and step by step, the screens are those that
   Prompts installs: ImplementsPrompts. *)
THEOREM ScreenRefinement == Spec => ImplementsPrompts
<1>1. Init => Steps!Init
  <2> SUFFICES ASSUME Init PROVE Steps!Init
    OBVIOUS
  <2>1. Displayed = FALSE
    BY DEF Init, Displayed, Elements
  <2> QED
    BY <2>1 DEF Init, Steps!Init
<1>2. IInv /\ [Next]_vars => [Steps!Next]_(Steps!vars)
  BY StepRefines
<1> QED
  BY <1>1, <1>2, Invariance, PTL DEF Spec, ImplementsPrompts, Steps!Spec
=============================================================================
