----------------------------- MODULE Parameters -----------------------------
(***************************************************************************)
(* What one parameter of a model holds: Live2LOVE::update and the calls a  *)
(* game makes between updates.  The value is abstracted to what has made   *)
(* it: the last writer that replaced it, and the contributions added since *)
(* then.  A write of weight 1 replaces, an addition adds one contribution. *)
(*                                                                         *)
(* Cubism's model keeps the present values and a saved copy.  When a       *)
(* motion manager exists update starts from the copy and saves it again    *)
(* before the contributions of the frame are added.                        *)
(***************************************************************************)
EXTENDS Integers, Sequences

CONSTANTS
    Parameter,          \* the parameter modelled
    OtherParameter,     \* any other one
    MaxAdded            \* bound: contributions are counted up to this number

ASSUME MaxAddedAssumption == MaxAdded \in Nat /\ MaxAdded > 1
ASSUME ParametersAssumption == Parameter # OtherParameter

\* Who replaced the value last: nobody, the game (setParamValue and the other
\* setters), a motion, the eye blink, or the game after the update
\* (setParamValuePost)
Writers == {"default", "game", "motion", "blink", "post"}
Counts == 0 .. MaxAdded
Contents == [base : Writers, breath : Counts, expression : Counts, physics : BOOLEAN]
Replaced(w) == [base |-> w, breath |-> 0, expression |-> 0, physics |-> FALSE]
More(n) == IF n < MaxAdded THEN n + 1 ELSE n

\* The lists a game may pass to initializeEyeBlink, and the default one, which
\* for a model with this parameter is assumed to name it
NameLists == {<<>>, <<Parameter>>, <<OtherParameter>>,
              <<Parameter, OtherParameter>>, <<OtherParameter, Parameter>>}
DefaultNames == {Parameter}

VARIABLES
    current,            \* the parameter's present value
    saved,              \* its value in the copy
    motion,             \* the motion manager exists
    expression,         \* "none": no expression manager, "empty", "set"
    physics,            \* physics is loaded
    movementAnimation, eyeBlinkMovement,    \* the two switches
    eyeBlinkIds,        \* the parameters the eye blink drives
    post                \* setParamValuePost is pending

vars == <<current, saved, motion, expression, physics, movementAnimation,
          eyeBlinkMovement, eyeBlinkIds, post>>
switches == <<movementAnimation, eyeBlinkMovement>>
loaded == <<motion, expression, physics, eyeBlinkIds>>

\* The state the constructor leaves
Init ==
    /\ current = Replaced("default") /\ saved = Replaced("default")
    /\ motion = FALSE
    /\ expression = "none"
    /\ physics = FALSE
    /\ movementAnimation = TRUE /\ eyeBlinkMovement = TRUE
    /\ eyeBlinkIds = DefaultNames
    /\ post = FALSE

-----------------------------------------------------------------------------
(* update, stage by stage: each operator maps a value to the next one.     *)

\* Mutant: update does not load the saved copy.
NotLoaded == current

Loaded == IF motion THEN saved ELSE current

\* UpdateMotion: a playing motion replaces the value if it drives the parameter
AfterMotion(v, drives) == IF motion /\ drives THEN Replaced("motion") ELSE v

Blinks(playing) ==
    motion /\ ~playing /\ movementAnimation /\ eyeBlinkMovement
AfterBlink(v, playing) ==
    IF Blinks(playing) /\ Parameter \in eyeBlinkIds THEN Replaced("blink") ELSE v

AfterExpression(v) ==
    IF expression = "set" THEN [v EXCEPT !.expression = More(@)] ELSE v

\* Mutant: the switch is tested for the physics only.
BreathAlways(v) ==
    [v EXCEPT !.breath = More(@), !.physics = @ \/ (physics /\ movementAnimation)]

AfterMovement(v) ==
    IF ~movementAnimation THEN v
    ELSE [v EXCEPT !.breath = More(@), !.physics = @ \/ physics]

AfterPost(v) == IF post THEN Replaced("post") ELSE v

\* Mutant: the copy is saved at the end of the frame.
UpdateSavingLast(playing, drives) ==
    LET toShow == AfterPost(AfterMovement(AfterExpression(
                    AfterBlink(AfterMotion(Loaded, drives), playing))))
    IN  /\ drives => playing
        /\ playing => motion
        /\ saved' = IF motion THEN toShow ELSE saved
        /\ current' = toShow
        /\ post' = FALSE
        /\ UNCHANGED <<loaded, switches>>

\* Mutant: the pending value is set before breath and physics are added.
UpdatePostEarly(playing, drives) ==
    LET toSave == AfterBlink(AfterMotion(Loaded, drives), playing)
    IN  /\ drives => playing
        /\ playing => motion
        /\ saved' = IF motion THEN toSave ELSE saved
        /\ current' = AfterMovement(AfterPost(AfterExpression(toSave)))
        /\ post' = FALSE
        /\ UNCHANGED <<loaded, switches>>

\* One frame, in which a motion plays or not, and drives the parameter or not
Update(playing, drives) ==
    LET toSave == AfterBlink(AfterMotion(Loaded, drives), playing)
    IN  /\ drives => playing
        /\ playing => motion
        /\ saved' = IF motion THEN toSave ELSE saved
        /\ current' = AfterPost(AfterMovement(AfterExpression(toSave)))
        /\ post' = FALSE
        /\ UNCHANGED <<loaded, switches>>

-----------------------------------------------------------------------------
(* What the game does between frames.                                      *)

\* setParamValue with weight 1
SetParamValue ==
    /\ current' = Replaced("game")
    /\ UNCHANGED <<saved, loaded, switches, post>>

\* addParamValue, mulParamValue
AdjustParamValue ==
    /\ current' = [current EXCEPT !.base = "game"]
    /\ UNCHANGED <<saved, loaded, switches, post>>

\* setParamValuePost with weight 1; a second one before the update replaces the
\* first
SetParamValuePost ==
    /\ post' = TRUE
    /\ UNCHANGED <<current, saved, loaded, switches>>

SetAnimationMovement(b) ==
    /\ movementAnimation' = b
    /\ UNCHANGED <<current, saved, loaded, eyeBlinkMovement, post>>

SetEyeBlinkMovement(b) ==
    /\ eyeBlinkMovement' = b
    /\ UNCHANGED <<current, saved, loaded, movementAnimation, post>>

\* loadMotion, also when it fails: the manager is made first
LoadMotion ==
    /\ motion' = TRUE
    /\ UNCHANGED <<current, saved, expression, physics, eyeBlinkIds, switches, post>>

\* loadExpression, also when it fails
LoadExpression ==
    /\ expression' = IF expression = "none" THEN "empty" ELSE expression
    /\ UNCHANGED <<current, saved, motion, physics, eyeBlinkIds, switches, post>>

SetExpression ==
    /\ expression # "none"
    /\ expression' = "set"
    /\ UNCHANGED <<current, saved, motion, physics, eyeBlinkIds, switches, post>>

\* loadPhysics: the old one is deleted first, so a failure leaves none
LoadPhysics(succeeds) ==
    /\ physics' = succeeds
    /\ UNCHANGED <<current, saved, motion, expression, eyeBlinkIds, switches, post>>

\* Mutant: what a list does not hold is passed on as a name.
NamesReadWithNil(list) ==
    {IF i \in DOMAIN list THEN list[i] ELSE "nil" : i \in 0 .. (Len(list) - 1)}

\* Main.cpp, initializeEyeBlink(list): the loop reads the indices 0 to Len - 1
\* of a Lua list, which starts at 1
NamesRead(list) == {list[i] : i \in (0 .. Len(list) - 1) \cap DOMAIN list}
InitializeEyeBlink(list) ==
    /\ eyeBlinkIds' = IF NamesRead(list) = {} THEN eyeBlinkIds ELSE NamesRead(list)
    /\ UNCHANGED <<current, saved, motion, expression, physics, switches, post>>

\* initializeEyeBlink()
InitializeDefaultEyeBlink ==
    /\ eyeBlinkIds' = DefaultNames
    /\ UNCHANGED <<current, saved, motion, expression, physics, switches, post>>

Next ==
    \/ \E playing, drives \in BOOLEAN : Update(playing, drives)
    \/ SetParamValue \/ AdjustParamValue \/ SetParamValuePost
    \/ \E b \in BOOLEAN : SetAnimationMovement(b) \/ SetEyeBlinkMovement(b)
    \/ LoadMotion \/ LoadExpression \/ SetExpression
    \/ \E succeeds \in BOOLEAN : LoadPhysics(succeeds)
    \/ \E list \in NameLists : InitializeEyeBlink(list)
    \/ InitializeDefaultEyeBlink

Spec == Init /\ [][Next]_vars

-----------------------------------------------------------------------------

\* The shape of the state.
TypeOK ==
    /\ current \in Contents /\ saved \in Contents
    /\ motion \in BOOLEAN /\ physics \in BOOLEAN /\ post \in BOOLEAN
    /\ expression \in {"none", "empty", "set"}
    /\ movementAnimation \in BOOLEAN /\ eyeBlinkMovement \in BOOLEAN
    /\ eyeBlinkIds \in SUBSET {Parameter, OtherParameter}

Updated == \E playing, drives \in BOOLEAN : Update(playing, drives)

\* The saved copy, from which the next frame starts, holds what motions and the
\* eye blink wrote and nothing a frame adds: no breath, expression, physics,
\* nor a value of setParamValue or setParamValuePost.
SavedIsClean ==
    /\ saved.breath = 0 /\ saved.expression = 0 /\ ~saved.physics
    /\ saved.base \in {"default", "motion", "blink"}

\* Breath and expression are added once per frame, they do not pile up over the
\* frames, once the model has a motion manager.
NoDrift ==
    [][Updated /\ motion => current'.breath <= 1 /\ current'.expression <= 1]_vars

\* A value of setParamValuePost is exactly what the parameter holds after the
\* next update, and, once the model has a motion manager, only after that one.
PostOnce ==
    [][Updated => /\ post => current' = Replaced("post")
                  /\ motion /\ ~post => current'.base # "post"]_vars

\* With the animation switched off an update of a model with motions leaves no
\* breath and no physics in the parameter, those of earlier frames included
\* (Live2LOVE.h: physics & dynamic move over time).
AnimationOff ==
    [][Updated /\ motion /\ ~movementAnimation
        => current'.breath = 0 /\ ~current'.physics]_vars

=============================================================================
