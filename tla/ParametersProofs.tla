-------------------------- MODULE ParametersProofs --------------------------
(***************************************************************************)
(* Proofs about Parameters, for any bound on the counted contributions,    *)
(* and about Frames, which composes it with Motions, for any motions: an   *)
(* object with both is a Parameters and a Motions.                         *)
(***************************************************************************)
EXTENDS Frames, TLAPS

M == INSTANCE MotionsProofs WITH ReloadPlaying <- FALSE

\* One more contribution is still within the bound.
LEMMA MoreIsCount == \A n \in Counts : More(n) \in Counts
  BY MaxAddedAssumption DEF Counts, More

\* A value that was replaced counts nothing.
LEMMA ReplacedIsContents == \A w \in Writers : Replaced(w) \in Contents
  BY MaxAddedAssumption DEF Replaced, Contents, Counts

\* Every stage of update maps a value to a value.
LEMMA StageTypes ==
    ASSUME TypeOK, NEW v \in Contents, NEW b \in BOOLEAN
    PROVE  /\ AfterMotion(v, b) \in Contents
           /\ AfterBlink(v, b) \in Contents
           /\ AfterExpression(v) \in Contents
           /\ AfterMovement(v) \in Contents
           /\ AfterPost(v) \in Contents
<1>1. /\ Replaced("motion") \in Contents
      /\ Replaced("blink") \in Contents
      /\ Replaced("post") \in Contents
  BY ReplacedIsContents DEF Writers
<1>2. More(v.expression) \in Counts /\ More(v.breath) \in Counts
  BY MoreIsCount DEF Contents
<1>3. AfterExpression(v) \in Contents
  BY <1>2 DEF AfterExpression, Contents
<1>4. (v.physics \/ physics) \in BOOLEAN
  OBVIOUS
<1>5. AfterMovement(v) \in Contents
  BY <1>2, <1>4 DEF AfterMovement, Contents
<1> QED
  BY <1>1, <1>3, <1>5 DEF AfterMotion, AfterBlink, AfterPost

\* Update keeps the types.
LEMMA UpdateTypes ==
    ASSUME TypeOK, NEW playing \in BOOLEAN, NEW drives \in BOOLEAN,
           Update(playing, drives)
    PROVE  TypeOK'
<1> DEFINE toSave == AfterBlink(AfterMotion(Loaded, drives), playing)
<1>1. Loaded \in Contents
  BY DEF TypeOK, Loaded
<1>2. AfterMotion(Loaded, drives) \in Contents
  BY <1>1, StageTypes
<1>3. toSave \in Contents
  BY <1>2, StageTypes
<1>4. AfterExpression(toSave) \in Contents
  BY <1>3, StageTypes
<1>5. AfterMovement(AfterExpression(toSave)) \in Contents
  BY <1>4, StageTypes
<1>6. AfterPost(AfterMovement(AfterExpression(toSave))) \in Contents
  BY <1>5, StageTypes
<1>7. current' \in Contents /\ saved' \in Contents
  BY <1>3, <1>6 DEF Update, TypeOK
<1> QED
  BY <1>7 DEF Update, TypeOK, loaded, switches

\* The calls of the game keep the types.
LEMMA NextTypes == TypeOK /\ [Next]_vars => TypeOK'
<1> SUFFICES ASSUME TypeOK, [Next]_vars PROVE TypeOK'
  OBVIOUS
<1>1. ASSUME NEW playing \in BOOLEAN, NEW drives \in BOOLEAN, Update(playing, drives)
      PROVE  TypeOK'
  BY <1>1, UpdateTypes
<1>2. CASE SetParamValue
  <2>1. Replaced("game") \in Contents
    BY ReplacedIsContents DEF Writers
  <2> QED
    BY <1>2, <2>1 DEF SetParamValue, TypeOK, loaded, switches
<1>3. CASE AdjustParamValue
  <2>1. [current EXCEPT !.base = "game"] \in Contents
    BY DEF TypeOK, Contents, Writers
  <2> QED
    BY <1>3, <2>1 DEF AdjustParamValue, TypeOK, loaded, switches
<1>4. CASE SetParamValuePost
  BY <1>4 DEF SetParamValuePost, TypeOK, loaded, switches
<1>5. ASSUME NEW b \in BOOLEAN, SetAnimationMovement(b) \/ SetEyeBlinkMovement(b)
      PROVE  TypeOK'
  BY <1>5 DEF SetAnimationMovement, SetEyeBlinkMovement, TypeOK, loaded
<1>6. CASE LoadMotion \/ LoadExpression \/ SetExpression
  BY <1>6 DEF LoadMotion, LoadExpression, SetExpression, TypeOK, switches
<1>7. ASSUME NEW b \in BOOLEAN, LoadPhysics(b) PROVE TypeOK'
  BY <1>7 DEF LoadPhysics, TypeOK, switches
<1>8. ASSUME NEW list \in NameLists, InitializeEyeBlink(list) PROVE TypeOK'
  <2>1. \A i \in DOMAIN list : list[i] \in {Parameter, OtherParameter}
    BY DEF NameLists
  <2>2. NamesRead(list) \subseteq {Parameter, OtherParameter}
    BY <2>1 DEF NamesRead
  <2> QED
    BY <1>8, <2>2 DEF InitializeEyeBlink, TypeOK, switches
<1>9. CASE InitializeDefaultEyeBlink
  BY <1>9 DEF InitializeDefaultEyeBlink, DefaultNames, TypeOK, switches
<1>10. CASE UNCHANGED vars
  BY <1>10 DEF vars, TypeOK
<1> QED
  BY <1>1, <1>2, <1>3, <1>4, <1>5, <1>6, <1>7, <1>8, <1>9, <1>10 DEF Next

\* The state keeps its types.
THEOREM TypeCorrect == Spec => []TypeOK
<1>1. Init => TypeOK
  <2>1. Replaced("default") \in Contents
    BY ReplacedIsContents DEF Writers
  <2> QED
    BY <2>1 DEF Init, TypeOK, DefaultNames
<1> QED
  BY <1>1, NextTypes, PTL DEF Spec

-----------------------------------------------------------------------------
(* The saved copy.                                                         *)

Clean(v) ==
    /\ v.breath = 0 /\ v.expression = 0 /\ v.physics = FALSE
    /\ v.base \in {"default", "motion", "blink"}

\* What update saves is clean: the stages before the save replace, they do not
\* add.
LEMMA SavesClean ==
    ASSUME NEW v, Clean(v), NEW playing, NEW drives
    PROVE  Clean(AfterBlink(AfterMotion(v, drives), playing))
  BY DEF Clean, AfterBlink, AfterMotion, Replaced

\* Every step keeps the saved copy clean.
LEMMA NextClean == SavedIsClean /\ [Next]_vars => SavedIsClean'
<1> SUFFICES ASSUME SavedIsClean, [Next]_vars PROVE SavedIsClean'
  OBVIOUS
<1>1. ASSUME NEW playing \in BOOLEAN, NEW drives \in BOOLEAN, Update(playing, drives)
      PROVE  SavedIsClean'
  <2>1. CASE motion
    <3>1. Loaded = saved
      BY <2>1 DEF Loaded
    <3>2. Clean(Loaded)
      BY <3>1 DEF SavedIsClean, Clean
    <3>3. Clean(saved')
      BY <1>1, <2>1, <3>2, SavesClean DEF Update
    <3> QED
      BY <3>3 DEF SavedIsClean, Clean
  <2>2. CASE ~motion
    BY <1>1, <2>2 DEF Update, SavedIsClean
  <2> QED
    BY <2>1, <2>2
<1>2. CASE saved' = saved
  BY <1>2 DEF SavedIsClean
<1> QED
  BY <1>1, <1>2 DEF Next, SetParamValue, AdjustParamValue, SetParamValuePost,
     SetAnimationMovement, SetEyeBlinkMovement, LoadMotion, LoadExpression,
     SetExpression, LoadPhysics, InitializeEyeBlink, InitializeDefaultEyeBlink, vars

\* The saved copy holds nothing that a frame adds.
THEOREM SavedStaysClean == Spec => []SavedIsClean
<1>1. Init => SavedIsClean
  BY DEF Init, SavedIsClean, Replaced
<1> QED
  BY <1>1, NextClean, PTL DEF Spec

-----------------------------------------------------------------------------
(* What an update leaves in the parameter of a model with motions.         *)

\* The contributions of one frame on top of a clean value.
LEMMA FrameAdds ==
    ASSUME TypeOK, NEW v \in Contents, Clean(v)
    PROVE  LET w == AfterMovement(AfterExpression(v))
           IN  /\ w.breath <= 1 /\ w.expression <= 1
               /\ w.base = v.base
               /\ ~movementAnimation => w.breath = 0 /\ w.physics = FALSE
<1> USE DEF Contents, Counts
<1>1. More(0) = 1
  BY MaxAddedAssumption DEF More
<1>2. /\ AfterExpression(v).breath = 0 /\ AfterExpression(v).physics = FALSE
      /\ AfterExpression(v).base = v.base
      /\ AfterExpression(v).expression \in {0, 1}
      /\ AfterExpression(v) \in Contents
  BY <1>1, StageTypes DEF AfterExpression, Clean
<1> DEFINE e == AfterExpression(v)
<1> HIDE DEF e
<1>3. /\ e.breath = 0 /\ e.physics = FALSE /\ e.base = v.base
      /\ e.expression \in {0, 1} /\ e \in Contents
  BY <1>2 DEF e
<1>4. /\ AfterMovement(e).breath \in {0, 1} /\ AfterMovement(e).expression \in {0, 1}
      /\ AfterMovement(e).base = v.base
      /\ ~movementAnimation => AfterMovement(e) = e
  BY <1>1, <1>3 DEF AfterMovement
<1> QED
  BY <1>3, <1>4 DEF e

\* The value update computes for a model with motions.
LEMMA UpdateValue ==
    ASSUME TypeOK, SavedIsClean, motion,
           NEW playing \in BOOLEAN, NEW drives \in BOOLEAN, Update(playing, drives)
    PROVE  /\ current'.breath <= 1 /\ current'.expression <= 1
           /\ post => current' = Replaced("post")
           /\ ~post => current'.base # "post"
           /\ ~movementAnimation => current'.breath = 0 /\ current'.physics = FALSE
<1> DEFINE v == AfterBlink(AfterMotion(Loaded, drives), playing)
           w == AfterMovement(AfterExpression(v))
<1>1. Loaded = saved /\ Loaded \in Contents /\ Clean(Loaded)
  BY DEF Loaded, TypeOK, SavedIsClean, Clean
<1>2. AfterMotion(Loaded, drives) \in Contents
  BY <1>1, StageTypes
<1>3. v \in Contents /\ Clean(v)
  BY <1>1, <1>2, StageTypes, SavesClean
<1>4. /\ w.breath <= 1 /\ w.expression <= 1 /\ w.base = v.base
      /\ ~movementAnimation => w.breath = 0 /\ w.physics = FALSE
  BY <1>3, FrameAdds
<1>5. w.base # "post"
  BY <1>3, <1>4 DEF Clean
<1>6. current' = IF post THEN Replaced("post") ELSE w
  BY DEF Update, AfterPost
<1> HIDE DEF v, w
<1> QED
  BY <1>4, <1>5, <1>6 DEF Replaced

\* Breath and expression do not pile up.
THEOREM DriftFree == Spec => NoDrift
<1>1. TypeOK /\ SavedIsClean /\ [Next]_vars
        => [Updated /\ motion => current'.breath <= 1 /\ current'.expression <= 1]_vars
  BY UpdateValue DEF Updated
<1> QED
  BY <1>1, TypeCorrect, SavedStaysClean, PTL DEF Spec, NoDrift

\* With the animation off nothing of breath and physics remains.
THEOREM AnimationIsOff == Spec => AnimationOff
<1>1. TypeOK /\ SavedIsClean /\ [Next]_vars
        => [Updated /\ motion /\ ~movementAnimation
              => current'.breath = 0 /\ ~current'.physics]_vars
  BY UpdateValue DEF Updated
<1> QED
  BY <1>1, TypeCorrect, SavedStaysClean, PTL DEF Spec, AnimationOff

\* A pending value is what the next update leaves, and only that one.
THEOREM PostIsOnce == Spec => PostOnce
<1>1. ASSUME NEW playing \in BOOLEAN, NEW drives \in BOOLEAN,
             Update(playing, drives), post
      PROVE  current' = Replaced("post")
  BY <1>1 DEF Update, AfterPost
<1>2. TypeOK /\ SavedIsClean /\ [Next]_vars
        => [Updated => /\ post => current' = Replaced("post")
                       /\ motion /\ ~post => current'.base # "post"]_vars
  BY <1>1, UpdateValue DEF Updated
<1> QED
  BY <1>2, TypeCorrect, SavedStaysClean, PTL DEF Spec, PostOnce

-----------------------------------------------------------------------------
(* Frames: an object with motions and parameters.                          *)

\* A step of an object leaves its parameter as a step of Parameters does.
LEMMA FramesNextIsNext == ASSUME [FramesNext]_allVars PROVE [Next]_vars
<1>1. CASE UpdateModel
  <2>1. PICK drives \in BOOLEAN : Update(Playing, drives)
    BY <1>1 DEF UpdateModel
  <2>2. Playing \in BOOLEAN
    BY DEF Playing
  <2> QED
    BY <2>1, <2>2 DEF Next
<1>2. CASE \E n \in Names : LoadNamedMotion(n)
  BY <1>2 DEF LoadNamedMotion, Next
<1>3. CASE LoadMotionFails
  BY <1>3 DEF LoadMotionFails, Next
<1>4. CASE SetNamedMotion
  BY <1>4 DEF SetNamedMotion
<1>5. CASE ParameterCall
  BY <1>5 DEF ParameterCall, Next
<1>6. CASE UNCHANGED allVars
  BY <1>6 DEF allVars
<1> QED
  BY <1>1, <1>2, <1>3, <1>4, <1>5, <1>6 DEF FramesNext

\* Every object is a Parameters: what is proved of one parameter holds with the
\* motions the manager really plays.
LEMMA FramesIsParameters == FramesSpec => Spec
<1>1. FramesInit => Init
  BY DEF FramesInit
<1> QED
  BY <1>1, FramesNextIsNext, PTL DEF FramesSpec, Spec

\* update leaves the manager as it is,
LEMMA UpdateKeepsManager ==
    ASSUME NEW playing, NEW drives, Update(playing, drives) PROVE motion' = motion
  BY DEF Update, loaded

\* and so do the calls that are not about motions.
LEMMA CallsKeepManager == ASSUME ParameterCall PROVE motion' = motion
  BY DEF ParameterCall, SetParamValue, AdjustParamValue, SetParamValuePost,
     SetAnimationMovement, SetEyeBlinkMovement, LoadExpression, SetExpression,
     LoadPhysics, InitializeEyeBlink, InitializeDefaultEyeBlink, loaded

\* A step of an object leaves its motions as a step of Motions does.
LEMMA FramesNextIsMotions ==
    ASSUME [FramesNext]_allVars PROVE [Motion!Next]_(Motion!vars)
<1> USE DEF Motion!vars, motionVars
<1>1. CASE UpdateModel
  <2>1. motion' = motion
    BY <1>1, UpdateKeepsManager DEF UpdateModel
  <2> QED
    BY <1>1, <2>1 DEF UpdateModel, Motion!Next
<1>2. CASE \E n \in Names : LoadNamedMotion(n)
  BY <1>2 DEF LoadNamedMotion, Motion!Next
<1>3. CASE LoadMotionFails
  BY <1>3 DEF LoadMotionFails, Motion!Next
<1>4. CASE SetNamedMotion
  <2>1. {"normal", "loop", "preserve"} \subseteq Motion!ModeArguments
    BY DEF Motion!ModeArguments
  <2> QED
    BY <1>4, <2>1 DEF SetNamedMotion, Motion!Next
<1>5. CASE ParameterCall
  BY <1>5, CallsKeepManager DEF ParameterCall
<1>6. CASE UNCHANGED allVars
  BY <1>6 DEF allVars, vars
<1> QED
  BY <1>1, <1>2, <1>3, <1>4, <1>5, <1>6 DEF FramesNext

\* The two instances of Motions are the same.
LEMMA SameMotions ==
    /\ Motion!Init => M!Init
    /\ [Motion!Next]_(Motion!vars) => [M!Next]_(M!vars)
    /\ M!IInv => Motion!TypeOK /\ Motion!LoopIsLoaded
<1> USE DEF Motion!MotionObjects, M!MotionObjects, Motion!Versions, M!Versions,
      Motion!NotLoaded, M!NotLoaded, Motion!NoRequest, M!NoRequest, Motion!IsLoaded, M!IsLoaded,
      Motion!Queued, M!Queued, Motion!IsFinished, M!IsFinished,
      Motion!StartMotion, M!StartMotion, Motion!UsesDeleted, M!UsesDeleted,
      Motion!Deleted, M!Deleted, Motion!ModeArguments, M!ModeArguments,
      Motion!Modes, M!Modes, Motion!MOTION_NORMAL, M!MOTION_NORMAL,
      Motion!MOTION_LOOP, M!MOTION_LOOP, Motion!MOTION_PRESERVE, M!MOTION_PRESERVE,
      Motion!InvalidMode, M!InvalidMode
<1>1. Motion!Init => M!Init
  BY DEF Motion!Init, M!Init
<1>2. \A n : Motion!LoadMotion(n) => M!LoadMotion(n)
  BY DEF Motion!LoadMotion, M!LoadMotion
<1>3. \A n, a : Motion!SetMotion(n, a) => M!SetMotion(n, a)
  BY Zenon DEF Motion!SetMotion, M!SetMotion, Motion!LoopAfter, M!LoopAfter,
     Motion!Request, M!Request, Motion!ModeOf, M!ModeOf, Motion!ModeName, M!ModeName
<1>4. /\ Motion!LoadMotionFails => M!LoadMotionFails
      /\ Motion!StopMotions => M!StopMotions
      /\ Motion!UseDeleted => M!UseDeleted
  BY DEF Motion!LoadMotionFails, M!LoadMotionFails, Motion!StopMotions, M!StopMotions,
         Motion!UseDeleted, M!UseDeleted
<1>5. Motion!Update => M!Update
  BY Zenon DEF Motion!Update, M!Update, Motion!QueueToUpdate, M!QueueToUpdate
<1>6. [Motion!Next]_(Motion!vars) => [M!Next]_(M!vars)
  BY <1>2, <1>3, <1>4, <1>5 DEF Motion!Next, M!Next, Motion!vars, M!vars
<1>7. M!IInv => Motion!TypeOK /\ Motion!LoopIsLoaded
  BY DEF M!IInv, M!TypeOK, M!LoopIsLoaded, Motion!TypeOK, Motion!LoopIsLoaded,
         Motion!Requests, M!Requests
<1> QED
  BY <1>1, <1>6, <1>7

\* So an object keeps the invariant of its motions: what is looped is loaded.
LEMMA FramesKeepMotions == FramesSpec => [](Motion!TypeOK /\ Motion!LoopIsLoaded)
<1>1. FramesInit => M!IInv
  BY M!InitIInv, SameMotions, MotionsAssumption DEF FramesInit
<1>2. M!IInv /\ [FramesNext]_allVars => M!IInv'
  BY M!NextIInv, SameMotions, FramesNextIsMotions, MotionsAssumption
<1>3. M!IInv => Motion!TypeOK /\ Motion!LoopIsLoaded
  BY SameMotions
<1> QED
  BY <1>1, <1>2, <1>3, PTL DEF FramesSpec

\* When a motion plays or is looped, UpdateMotion updates one: the loop motion, if
\* all others have ended, has been started by then.
LEMMA MotionPlays ==
    ASSUME Motion!TypeOK, Motion!LoopIsLoaded, motion,
           motionLoop # EmptyName \/ ~Motion!IsFinished
    PROVE  Playing
<1>1. CASE ~Motion!IsFinished
  BY <1>1 DEF Motion!IsFinished, Motion!Queued, Motion!QueueToUpdate, Playing
<1>2. CASE Motion!IsFinished
  <2> DEFINE o == <<motionLoop, motionList[motionLoop]>>
  <2>1. o \in Motion!MotionObjects
    BY <1>2, MotionsAssumption
    DEF Motion!TypeOK, Motion!LoopIsLoaded, Motion!IsLoaded, Motion!NotLoaded,
        Motion!MotionObjects, Motion!Versions
  <2>2. Motion!QueueToUpdate[o] = Duration
    BY <1>2, <2>1 DEF Motion!QueueToUpdate, Motion!StartMotion
  <2> QED
    BY <2>1, <2>2, MotionsAssumption DEF Playing
<1> QED
  BY <1>1, <1>2

\* An update in which a motion plays does not blink.
LEMMA NoBlink ==
    ASSUME Motion!TypeOK, Motion!LoopIsLoaded, UpdateModel,
           motionLoop # EmptyName \/ ~Motion!IsFinished, saved'.base = "blink"
    PROVE  saved' = saved
<1>1. PICK drives \in BOOLEAN : Update(Playing, drives)
  BY DEF UpdateModel
<1>2. CASE ~motion
  BY <1>1, <1>2 DEF Update
<1>3. CASE motion
  <2>1. Playing
    BY <1>3, MotionPlays
  <2>2. saved' = AfterMotion(saved, drives)
    BY <1>1, <1>3, <2>1 DEF Update, Loaded, AfterBlink, Blinks
  <2> QED
    BY <2>2 DEF AfterMotion, Replaced
<1> QED
  BY <1>2, <1>3

\* While a motion is looped or plays the eyes do not blink, not even in the frame
\* between two rounds of the loop.
THEOREM NoBlinkWhileMoving == FramesSpec => NoBlinkInMotion
<1>1. Motion!TypeOK /\ Motion!LoopIsLoaded /\ [FramesNext]_allVars
        => [UpdateModel /\ (motionLoop # EmptyName \/ ~Motion!IsFinished)
              => (saved'.base = "blink" => saved' = saved)]_allVars
  BY NoBlink
<1> QED
  BY <1>1, FramesKeepMotions, PTL DEF FramesSpec, NoBlinkInMotion

\* What is proved of Parameters holds of an object with motions: types and the
\* saved copy,
THEOREM FramesKeepClean == FramesSpec => []TypeOK /\ []SavedIsClean
  BY FramesIsParameters, TypeCorrect, SavedStaysClean, PTL

\* and what an update leaves in the parameter.
THEOREM FramesUpdate == FramesSpec => NoDrift /\ PostOnce /\ AnimationOff
  BY FramesIsParameters, DriftFree, PostIsOnce, AnimationIsOff, PTL
=============================================================================
