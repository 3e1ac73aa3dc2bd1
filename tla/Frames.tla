------------------------------- MODULE Frames --------------------------------
(***************************************************************************)
(* The whole of update: the motions of an object and what they do to a     *)
(* parameter.  In Parameters whether a motion plays is open; here it is    *)
(* what the motion manager of Motions has queued, the loop motion that     *)
(* update has just started again among it.  The two share the manager.     *)
(***************************************************************************)
EXTENDS Parameters

CONSTANTS
    Names, EmptyName, None, Duration, FadeOut, MaxLoads, MaxCalls   \* of Motions

ASSUME MotionsAssumption ==
    /\ Duration \in Nat /\ Duration > 1 /\ FadeOut \in 1 .. Duration
    /\ MaxLoads \in Nat \ {0} /\ MaxCalls \in Nat

VARIABLES motionList, queue, motionLoop, calls, request, crashed

\* The game loads no name whose motion plays: what happens then is in Motions.
Motion == INSTANCE Motions WITH ReloadPlaying <- FALSE

motionVars == <<motionList, queue, motionLoop, calls, request, crashed>>
allVars == <<vars, motionVars>>

FramesInit == Init /\ Motion!Init

\* Mutant: the motions that were queued before the loop motion is started.
PlayingBefore == motion /\ ~Motion!IsFinished

\* UpdateMotion tells whether it has updated a motion.
Playing == motion /\ \E o \in Motion!MotionObjects : Motion!QueueToUpdate[o] > 0

\* One frame: only with a motion manager are there motions to update.
UpdateModel ==
    /\ \E drives \in BOOLEAN : Update(Playing, drives)
    /\ IF motion THEN Motion!Update ELSE UNCHANGED motionVars

LoadNamedMotion(n) == LoadMotion /\ Motion!LoadMotion(n)
LoadMotionFails == LoadMotion /\ Motion!LoadMotionFails

SetNamedMotion ==
    /\ \/ \E n \in Names, mode \in {"normal", "loop", "preserve"} : Motion!SetMotion(n, mode)
       \/ Motion!StopMotions
    /\ UNCHANGED vars

\* The calls between frames that do not touch the motions
ParameterCall ==
    /\ \/ SetParamValue \/ AdjustParamValue \/ SetParamValuePost
       \/ \E b \in BOOLEAN : SetAnimationMovement(b) \/ SetEyeBlinkMovement(b)
       \/ LoadExpression \/ SetExpression
       \/ \E succeeds \in BOOLEAN : LoadPhysics(succeeds)
       \/ \E list \in NameLists : InitializeEyeBlink(list)
       \/ InitializeDefaultEyeBlink
    /\ UNCHANGED motionVars

FramesNext ==
    \/ UpdateModel
    \/ \E n \in Names : LoadNamedMotion(n)
    \/ LoadMotionFails
    \/ SetNamedMotion
    \/ ParameterCall

FramesSpec == FramesInit /\ [][FramesNext]_allVars

-----------------------------------------------------------------------------

\* While a motion is looped or plays the eyes never blink, not even in the frame
\* between the end of the motion and its next start: update starts it first.
NoBlinkInMotion ==
    [][UpdateModel /\ (motionLoop # EmptyName \/ ~Motion!IsFinished)
        => (saved'.base = "blink" => saved' = saved)]_allVars

=============================================================================
