------------------------------ MODULE Motions -------------------------------
(***************************************************************************)
(* The motions of one Live2LOVE object: which are loaded, which are queued *)
(* in Cubism's motion manager, and which one is to be looped.  The game    *)
(* loads and sets motions between frames and calls update once per frame.  *)
(*                                                                         *)
(* The manager (external) keeps a queue of started motions.  Starting one  *)
(* makes those already queued fade out; an entry leaves the queue in the   *)
(* update in which it ends.  It holds pointers: the motions belong to the  *)
(* Live2LOVE object.                                                       *)
(***************************************************************************)
EXTENDS Integers

CONSTANTS
    Names,          \* the names of motions
    EmptyName,      \* the empty string
    None,           \* no name
    Duration,       \* updates a motion lasts (bound)
    FadeOut,        \* updates a replaced motion still plays (bound)
    MaxLoads,       \* how often a name may be loaded (bound)
    MaxCalls,       \* calls of setMotion the game makes (bound)
    ReloadPlaying   \* TRUE: the game may load a name whose motion is queued

ASSUME DurationAssumption == Duration \in Nat /\ Duration > 1
ASSUME FadeOutAssumption == FadeOut \in 1 .. Duration
ASSUME LoadsAssumption == MaxLoads \in Nat \ {0} /\ MaxCalls \in Nat

NotLoaded == 0
Versions == 1 .. MaxLoads
\* The CubismMotion objects: what the v-th loadMotion of the name has created.
MotionObjects == Names \X Versions

\* MotionModeID, and the values of Lua's mode argument: absent, a string, or
\* one of the integers 0 to 3, written as strings too
MOTION_NORMAL == 0
MOTION_LOOP == 1
MOTION_PRESERVE == 2
Modes == {MOTION_NORMAL, MOTION_LOOP, MOTION_PRESERVE}
ModeArguments == {"absent", "normal", "loop", "preserve", "0", "1", "2", "3"}
InvalidMode == 3

VARIABLES
    motion,         \* the manager exists
    motionList,     \* name -> the version that is loaded, or NotLoaded
    queue,          \* object -> updates it has left in the manager's queue
    motionLoop,     \* the name of the motion to loop, or the empty string
    calls,          \* calls of setMotion made so far
    request,        \* history: the last successful call of setMotion
    crashed         \* a deleted motion has been used

vars == <<motion, motionList, queue, motionLoop, calls, request, crashed>>

Requests ==
    [mode : {"none", "normal", "loop", "preserve", "stop"}, loop : Names \cup {None}]
NoRequest == [mode |-> "none", loop |-> None]

Init ==
    /\ motion = FALSE
    /\ motionList = [n \in Names |-> NotLoaded]
    /\ queue = [o \in MotionObjects |-> 0]
    /\ motionLoop = EmptyName
    /\ calls = 0
    /\ request = NoRequest
    /\ crashed = FALSE

Queued(o) == queue[o] > 0
IsFinished == \A o \in MotionObjects : ~Queued(o)
IsLoaded(n) == motionList[n] # NotLoaded
Deleted(o) == motionList[o[1]] # o[2]
UsesDeleted == \E o \in MotionObjects : Queued(o) /\ Deleted(o)

\* CubismMotionManager::StartMotion
StartMotion(q, o) ==
    [p \in MotionObjects |->
        IF p = o THEN Duration ELSE IF q[p] > FadeOut THEN FadeOut ELSE q[p]]

-----------------------------------------------------------------------------

\* loadMotion: the manager is there from the first attempt on; the motion that
\* had the name is deleted, queued or not
LoadMotion(n) ==
    /\ ~crashed
    /\ motionList[n] < MaxLoads
    /\ IsLoaded(n) /\ Queued(<<n, motionList[n]>>) => ReloadPlaying
    /\ motion' = TRUE
    /\ motionList' = [motionList EXCEPT ![n] = @ + 1]
    /\ UNCHANGED <<queue, motionLoop, calls, request, crashed>>

\* loadMotion of bad data: an exception after initializeMotion
LoadMotionFails ==
    /\ ~crashed
    /\ motion' = TRUE
    /\ UNCHANGED <<motionList, queue, motionLoop, calls, request, crashed>>

\* Main.cpp, setMotion: a number is taken as it is, a string by its position in
\* motionStringMode
ModeOf(argument) ==
    CASE argument \in {"absent", "normal", "0"} -> MOTION_NORMAL
      [] argument \in {"loop", "1"} -> MOTION_LOOP
      [] argument \in {"preserve", "2"} -> MOTION_PRESERVE
      [] OTHER -> InvalidMode

\* Mutant: "preserve" keeps the loop motion.
LoopAfterPreserving(n, mode) == IF mode = MOTION_LOOP THEN n ELSE motionLoop

\* Mutant: "normal" ends the loop.
LoopAfterEnding(n, mode) == IF mode = MOTION_LOOP THEN n ELSE EmptyName

\* What motionLoop becomes
LoopAfter(n, mode) ==
    CASE mode = MOTION_NORMAL -> motionLoop
      [] mode = MOTION_LOOP -> n
      [] mode = MOTION_PRESERVE -> EmptyName

\* History: what the game asks for with SetMotion
ModeName(mode) == <<"normal", "loop", "preserve">>[mode + 1]
Request(n, argument) ==
    LET mode == ModeOf(argument)
    IN  [mode |-> ModeName(mode),
         loop |-> IF mode = MOTION_LOOP THEN n
                  ELSE IF mode = MOTION_NORMAL THEN request.loop ELSE None]

\* Mutant: the name is not looked up before it is used.
SetAnyMotion(n, argument) ==
    /\ ~crashed /\ ~UsesDeleted
    /\ calls < MaxCalls
    /\ motion /\ ModeOf(argument) \in Modes
    /\ queue' = StartMotion(queue, <<n, motionList[n]>>)
    /\ motionLoop' = LoopAfter(n, ModeOf(argument))
    /\ calls' = calls + 1
    /\ request' = Request(n, argument)
    /\ UNCHANGED <<motion, motionList, crashed>>

\* setMotion(name, mode).  An unknown name, an invalid mode and a missing
\* manager raise an error and change nothing.
SetMotion(n, argument) ==
    /\ ~crashed /\ ~UsesDeleted
    /\ calls < MaxCalls
    /\ motion /\ IsLoaded(n) /\ ModeOf(argument) \in Modes
    /\ queue' = StartMotion(queue, <<n, motionList[n]>>)
    /\ motionLoop' = LoopAfter(n, ModeOf(argument))
    /\ calls' = calls + 1
    /\ request' = Request(n, argument)
    /\ UNCHANGED <<motion, motionList, crashed>>

\* Mutant: the loop motion outlives the stop.
StopQueue ==
    /\ ~crashed
    /\ calls < MaxCalls
    /\ motion
    /\ queue' = [o \in MotionObjects |-> 0]
    /\ calls' = calls + 1
    /\ request' = [NoRequest EXCEPT !.mode = "stop"]
    /\ UNCHANGED <<motion, motionList, motionLoop, crashed>>

\* setMotion(): stop all motions
StopMotions ==
    /\ ~crashed
    /\ calls < MaxCalls
    /\ motion
    /\ motionLoop' = EmptyName
    /\ queue' = [o \in MotionObjects |-> 0]
    /\ calls' = calls + 1
    /\ request' = [NoRequest EXCEPT !.mode = "stop"]
    /\ UNCHANGED <<motion, motionList, crashed>>

\* The motions part of update: the loop motion is started again when nothing is
\* queued any more, then the queued motions advance.
QueueToUpdate ==
    IF IsFinished /\ motionLoop # EmptyName
    THEN StartMotion(queue, <<motionLoop, motionList[motionLoop]>>)
    ELSE queue

\* Mutant: an entry that has ended is counted on.
UpdatePastTheEnd ==
    /\ ~crashed /\ ~UsesDeleted
    /\ motion
    /\ queue' = [o \in MotionObjects |-> QueueToUpdate[o] - 1]
    /\ UNCHANGED <<motion, motionList, motionLoop, calls, request, crashed>>

Update ==
    /\ ~crashed /\ ~UsesDeleted
    /\ motion
    /\ queue' = [o \in MotionObjects |->
                    IF QueueToUpdate[o] > 0 THEN QueueToUpdate[o] - 1 ELSE 0]
    /\ UNCHANGED <<motion, motionList, motionLoop, calls, request, crashed>>

\* StartMotion and UpdateMotion read every queued motion: one that has been
\* deleted is read after its memory was freed
UseDeleted ==
    /\ ~crashed /\ UsesDeleted
    /\ crashed' = TRUE
    /\ UNCHANGED <<motion, motionList, queue, motionLoop, calls, request>>

Next ==
    \/ \E n \in Names : LoadMotion(n)
    \/ LoadMotionFails
    \/ \E n \in Names, argument \in ModeArguments : SetMotion(n, argument)
    \/ StopMotions
    \/ Update
    \/ UseDeleted

\* love.update calls update in every frame (demo/main.lua), whatever the update
\* will read; nothing makes the game load or set a motion.
Fairness == WF_vars(Update \/ UseDeleted)

Spec == Init /\ [][Next]_vars
FairSpec == Spec /\ Fairness

-----------------------------------------------------------------------------

\* The shape of the state.
TypeOK ==
    /\ motion \in BOOLEAN /\ crashed \in BOOLEAN
    /\ motionList \in [Names -> 0 .. MaxLoads]
    /\ queue \in [MotionObjects -> 0 .. Duration]
    /\ motionLoop \in Names \cup {EmptyName}
    /\ calls \in 0 .. MaxCalls
    /\ request \in Requests

\* The name update looks up when everything has ended is a loaded motion, and
\* the manager that plays it exists: motionList[motionLoop] in update does not
\* check (and would start a null motion).
LoopIsLoaded ==
    motionLoop # EmptyName => motion /\ motionLoop \in Names /\ IsLoaded(motionLoop)

\* After a motion set with mode "preserve", and after all motions were stopped,
\* an update starts no motion, whatever was looped before: "preserve" plays
\* once and stays that way.
StaysStopped ==
    [][Update /\ request.mode \in {"preserve", "stop"}
        => \A o \in MotionObjects : queue'[o] <= queue[o]]_vars

\* The manager never reads a motion that loadMotion has deleted: loading a name
\* again sets its motion, it does not break the one that plays.
NoUseAfterDelete == ~crashed

Playing(n) == \E v \in Versions : Queued(<<n, v>>)

\* "loop" plays the motion again when it has finished: while the game wants a
\* name looped, also through motions it sets with mode "normal" in between, that
\* motion plays again and again, once the game stops setting others (unless the
\* program has crashed).
LoopResumes ==
    \A n \in Names :
        (request.loop = n) ~> (Playing(n) \/ request.loop # n \/ crashed)

\* "normal" and "preserve" play a motion for once: when the game wants no name
\* looped, and calls nothing any more, all motions end for good, whatever was
\* looped, replaced or loaded before.
PlaysOnce == <>[](request.loop = None) => <>[](IsFinished \/ crashed)

=============================================================================
