--------------------------- MODULE MotionsProofs ----------------------------
(***************************************************************************)
(* Proofs about Motions, for any set of names, also one with the empty     *)
(* name, and any bounds.                                                   *)
(***************************************************************************)
EXTENDS Motions, TLAPS

USE DEF Modes, MOTION_NORMAL, MOTION_LOOP, MOTION_PRESERVE

\* Starting a motion makes the others at most shorter.
LEMMA StartTypes ==
    ASSUME NEW q \in [MotionObjects -> 0 .. Duration], NEW o \in MotionObjects
    PROVE  StartMotion(q, o) \in [MotionObjects -> 0 .. Duration]
  BY DurationAssumption, FadeOutAssumption DEF StartMotion

\* The queue update works on is a queue.
LEMMA QueueToUpdateTypes ==
    ASSUME TypeOK, LoopIsLoaded
    PROVE  QueueToUpdate \in [MotionObjects -> 0 .. Duration]
<1>1. CASE IsFinished /\ motionLoop # EmptyName
  <2>1. <<motionLoop, motionList[motionLoop]>> \in MotionObjects
    BY <1>1, LoadsAssumption
    DEF TypeOK, LoopIsLoaded, IsLoaded, NotLoaded, MotionObjects, Versions
  <2> QED
    BY <1>1, <2>1, StartTypes DEF QueueToUpdate, TypeOK
<1>2. CASE ~(IsFinished /\ motionLoop # EmptyName)
  BY <1>2 DEF QueueToUpdate, TypeOK
<1> QED
  BY <1>1, <1>2

\* The invariant: the loop motion is loaded, and there is none after "preserve"
\* and after setMotion().
NoLoopLeft == request.mode \in {"preserve", "stop"} => motionLoop = EmptyName
IInv == TypeOK /\ LoopIsLoaded /\ NoLoopLeft

\* The modes have the names the history uses.
LEMMA ModeNames ==
    /\ ModeName(MOTION_NORMAL) = "normal"
    /\ ModeName(MOTION_LOOP) = "loop"
    /\ ModeName(MOTION_PRESERVE) = "preserve"
  BY DEF ModeName

\* setMotion(name, mode) keeps the invariant.
LEMMA SetMotionIInv ==
    ASSUME IInv, NEW n \in Names, NEW argument \in ModeArguments,
           SetMotion(n, argument)
    PROVE  IInv'
<1> USE DEF IInv, TypeOK
<1> DEFINE mode == ModeOf(argument)
<1>1. /\ motion /\ IsLoaded(n) /\ mode \in Modes /\ calls < MaxCalls
      /\ queue' = StartMotion(queue, <<n, motionList[n]>>)
      /\ motionLoop' = LoopAfter(n, mode)
      /\ calls' = calls + 1
      /\ request' = Request(n, argument)
      /\ motion' = motion /\ motionList' = motionList /\ crashed' = crashed
  BY DEF SetMotion
<1>2. <<n, motionList[n]>> \in MotionObjects
  BY <1>1, LoadsAssumption DEF IsLoaded, NotLoaded, MotionObjects, Versions
<1>3. queue' \in [MotionObjects -> 0 .. Duration]
  BY <1>1, <1>2, StartTypes
<1> HIDE DEF mode
<1>4. ModeName(mode) \in {"normal", "loop", "preserve"}
      /\ (ModeName(mode) = "preserve" => mode = MOTION_PRESERVE)
  BY <1>1, ModeNames
<1>5. motionLoop' \in Names \cup {EmptyName}
      /\ (motionLoop' = motionLoop \/ motionLoop' = n \/ motionLoop' = EmptyName)
  BY <1>1 DEF LoopAfter
<1>6. request' = [mode |-> ModeName(mode),
                  loop |-> IF mode = MOTION_LOOP THEN n
                           ELSE IF mode = MOTION_NORMAL THEN request.loop ELSE None]
  BY <1>1 DEF Request, mode
<1>7. /\ request'.mode = ModeName(mode)
      /\ request' \in Requests
  BY <1>4, <1>6 DEF Requests
<1>8. TypeOK'
  BY <1>1, <1>3, <1>5, <1>7, LoadsAssumption
<1>9. LoopIsLoaded'
  BY <1>1, <1>5 DEF LoopIsLoaded, IsLoaded
<1>10. NoLoopLeft'
  BY <1>1, <1>4, <1>7 DEF NoLoopLeft, LoopAfter
<1> QED
  BY <1>8, <1>9, <1>10

\* setMotion() keeps the invariant.
LEMMA StopMotionsIInv == ASSUME IInv, StopMotions PROVE IInv'
<1> USE DEF IInv, TypeOK
<1>1. request' \in Requests
  BY DEF StopMotions, NoRequest, Requests
<1>2. TypeOK'
  BY <1>1, LoadsAssumption, DurationAssumption DEF StopMotions
<1> QED
  BY <1>2 DEF StopMotions, LoopIsLoaded, NoLoopLeft

\* loadMotion keeps the invariant: a loaded name stays loaded.
LEMMA LoadMotionIInv ==
    ASSUME IInv, NEW n \in Names, LoadMotion(n) PROVE IInv'
<1> USE DEF IInv, TypeOK
<1>1. motionList'[n] = motionList[n] + 1 /\ motionList[n] + 1 \in 1 .. MaxLoads
      /\ \A m \in Names \ {n} : motionList'[m] = motionList[m]
  BY LoadsAssumption DEF LoadMotion
<1>2. motionList' \in [Names -> 0 .. MaxLoads]
  BY <1>1, LoadsAssumption DEF LoadMotion
<1> QED
  BY <1>1, <1>2, LoadsAssumption DEF LoadMotion, LoopIsLoaded, NoLoopLeft, IsLoaded, NotLoaded

\* update keeps the invariant.
LEMMA UpdateIInv == ASSUME IInv, Update PROVE IInv'
<1> USE DEF IInv
<1>1. QueueToUpdate \in [MotionObjects -> 0 .. Duration]
  BY QueueToUpdateTypes
<1>2. queue' \in [MotionObjects -> 0 .. Duration]
  BY <1>1, DurationAssumption DEF Update
<1> QED
  BY <1>2 DEF Update, TypeOK, LoopIsLoaded, NoLoopLeft, IsLoaded

\* The invariant is inductive.
LEMMA NextIInv == IInv /\ [Next]_vars => IInv'
<1> SUFFICES ASSUME IInv, [Next]_vars PROVE IInv'
  OBVIOUS
<1>1. CASE \E n \in Names : LoadMotion(n)
  BY <1>1, LoadMotionIInv
<1>2. CASE LoadMotionFails
  BY <1>2 DEF LoadMotionFails, IInv, TypeOK, LoopIsLoaded, NoLoopLeft, IsLoaded
<1>3. CASE \E n \in Names, argument \in ModeArguments : SetMotion(n, argument)
  BY <1>3, SetMotionIInv
<1>4. CASE StopMotions
  BY <1>4, StopMotionsIInv
<1>5. CASE Update
  BY <1>5, UpdateIInv
<1>6. CASE UseDeleted
  BY <1>6 DEF UseDeleted, IInv, TypeOK, LoopIsLoaded, NoLoopLeft, IsLoaded
<1>7. CASE UNCHANGED vars
  BY <1>7 DEF vars, IInv, TypeOK, LoopIsLoaded, NoLoopLeft, IsLoaded
<1> QED
  BY <1>1, <1>2, <1>3, <1>4, <1>5, <1>6, <1>7 DEF Next

\* Initially no motion is loaded, queued or looped.
LEMMA InitIInv == Init => IInv
<1> SUFFICES ASSUME Init PROVE IInv
  OBVIOUS
<1>1. motionList \in [Names -> 0 .. MaxLoads]
  BY LoadsAssumption DEF Init, NotLoaded
<1>2. queue \in [MotionObjects -> 0 .. Duration]
  BY DurationAssumption DEF Init
<1>3. calls \in 0 .. MaxCalls
  BY LoadsAssumption DEF Init
<1>4. request = NoRequest /\ motion = FALSE /\ crashed = FALSE /\ motionLoop = EmptyName
  BY DEF Init
<1>5. NoRequest \in Requests
  BY DEF NoRequest, Requests
<1>6. TypeOK
  BY <1>1, <1>2, <1>3, <1>4, <1>5 DEF TypeOK
<1>7. LoopIsLoaded /\ NoLoopLeft
  BY <1>4 DEF LoopIsLoaded, NoLoopLeft, NoRequest
<1> QED
  BY <1>6, <1>7 DEF IInv

-----------------------------------------------------------------------------

\* The state keeps its types.
THEOREM TypeCorrect == Spec => []TypeOK
<1>1. IInv => TypeOK
  BY DEF IInv
<1> QED
  BY InitIInv, NextIInv, <1>1, PTL DEF Spec

\* The motion update would restart is always loaded.
THEOREM LoopAlwaysLoaded == Spec => []LoopIsLoaded
<1>1. IInv => LoopIsLoaded
  BY DEF IInv
<1> QED
  BY InitIInv, NextIInv, <1>1, PTL DEF Spec

\* After "preserve" and setMotion() an update starts nothing.
THEOREM NothingRestarts == Spec => StaysStopped
<1>1. IInv /\ [Next]_vars
        => [Update /\ request.mode \in {"preserve", "stop"}
              => \A o \in MotionObjects : queue'[o] <= queue[o]]_vars
  <2> SUFFICES ASSUME IInv, Update, request.mode \in {"preserve", "stop"},
                      NEW o \in MotionObjects
               PROVE  queue'[o] <= queue[o]
    OBVIOUS
  <2>1. QueueToUpdate = queue
    BY DEF IInv, NoLoopLeft, QueueToUpdate
  <2>2. queue[o] \in Nat
    BY DurationAssumption DEF IInv, TypeOK
  <2> QED
    BY <2>1, <2>2 DEF Update
<1> QED
  BY InitIInv, NextIInv, <1>1, PTL DEF Spec, StaysStopped

=============================================================================
