--------------------------- MODULE TexturesProofs ----------------------------
(***************************************************************************)
(* Proofs of what Textures promises, for any drawables, textures and limit *)
(* of LOVE's: the game's graphics states survive a call whatever fails,    *)
(* and drawables keep showing what they were given.                        *)
(***************************************************************************)
EXTENDS Textures, SequenceTheorems, TLAPS

States == [target : {"the game's", Screen, "canvas"}, settings : {"the game's", "default"}]

\* One state more than before the call, on top
Pushed ==
    /\ Len(call.before) > 0
    /\ Len(graphics) = Len(call.before) + 1
    /\ SubSeq(graphics, 1, Len(call.before)) = call.before

\* The steps outside the pushed state, and inside
Outside == {"number", "dimensions", "canvas", "push", "meshes"}
Inside == {"reset", "set canvas", "clear", "draw", "pop"}

StatesOK ==
    /\ stage \in Outside \cup Inside \cup {"idle"}
    /\ graphics \in Seq(States) /\ Len(graphics) > 0
    /\ call.before \in Seq(States)

\* The step decides where the call is: the game's states, or one more, with the
\* canvas as its target when it is cleared and drawn to.
StatesInv ==
    /\ StatesOK
    /\ touched \subseteq {"canvas"}
    /\ stage \in Outside => graphics = call.before
    /\ stage \in Inside => Pushed
    /\ stage \in {"clear", "draw"} => Current.target = "canvas"
    /\ At("idle") /\ call # NoCall =>
            /\ outcome = "returned" => graphics = call.before
            /\ outcome = "failed" => graphics = call.before \/ Pushed

-----------------------------------------------------------------------------

\* The graphics of the game before the first call
LEMMA StatesInit == Init => StatesInv
<1> SUFFICES ASSUME Init PROVE StatesInv
  OBVIOUS
<1>1. call = NoCall /\ call.before = <<>> /\ touched = {} /\ stage = "idle"
  BY DEF Init, NoCall
<1> DEFINE g == [target |-> "the game's", settings |-> "the game's"]
<1>2. graphics \in Seq(States) /\ Len(graphics) > 0
  <2>1. g \in States
    BY DEF States
  <2>2. graphics = <<g>>
    BY DEF Init
  <2> HIDE DEF g
  <2> QED
    BY <2>1, <2>2
<1>3. StatesOK
  BY <1>1, <1>2 DEF StatesOK
<1> QED
  BY <1>1, <1>3 DEF StatesInv, Outside, Inside

\* A call that fails leaves the states as they are.
LEMMA FailKeepsStates ==
    ASSUME StatesInv, Fail, stage # "idle" PROVE StatesInv'
<1>1. /\ stage' = "idle" /\ outcome' = "failed"
      /\ graphics' = graphics /\ call' = call /\ touched' = touched
  BY DEF Fail
<1>2. StatesOK'
  BY <1>1 DEF StatesInv, StatesOK
<1>3. graphics = call.before \/ Pushed
  BY DEF StatesInv, StatesOK
<1>4. graphics' = call'.before \/ Pushed'
  BY <1>1, <1>3 DEF Pushed
<1> QED
  BY <1>1, <1>2, <1>4 DEF StatesInv, Outside, Inside

\* A step that stays outside or inside the pushed state and touches nothing
LEMMA StaysKeepsStates ==
    ASSUME StatesInv, NEW s \in Outside \cup Inside,
           stage' = s, UNCHANGED <<graphics, call, touched>>,
           \/ stage \in Outside /\ s \in Outside
           \/ stage \in Inside /\ s \in Inside \ {"clear", "draw"}
           \/ stage = "clear" /\ s = "draw"
    PROVE  StatesInv'
<1>1. StatesOK'
  BY DEF StatesInv, StatesOK
<1>2. stage \in Inside => Pushed'
  BY DEF StatesInv, Pushed
<1>3. stage \in {"clear", "draw"} => Current'.target = "canvas"
  BY DEF StatesInv, Current
<1> QED
  BY <1>1, <1>2, <1>3 DEF StatesInv, Outside, Inside, At

\* Sequences of graphics states
LEMMA Lengths ==
    ASSUME StatesOK
    PROVE  Len(graphics) \in Nat \ {0} /\ Len(call.before) \in Nat
  BY DEF StatesOK

\* The current state is a state.
LEMMA CurrentTypes == ASSUME StatesOK PROVE Current \in States
<1>1. graphics \in Seq(States) /\ Len(graphics) \in 1 .. Len(graphics)
  BY DEF StatesOK
<1> QED
  BY <1>1, ElementOfSeq DEF Current

\* What replaces the state on top leaves those below alone.
LEMMA SetCurrentKeeps ==
    ASSUME StatesInv, Pushed, NEW g \in States, SetCurrent(g), call' = call
    PROVE  /\ graphics' \in Seq(States) /\ Len(graphics') > 0
           /\ Pushed' /\ Current' = g
<1>1. /\ graphics \in Seq(States) /\ Len(graphics) > 0 /\ call.before \in Seq(States)
  BY DEF StatesInv, StatesOK
<1>2. /\ graphics' \in Seq(States) /\ Len(graphics') = Len(graphics)
      /\ graphics'[Len(graphics)] = g
      /\ \A i \in 1 .. Len(graphics) - 1 : graphics'[i] = graphics[i]
  BY <1>1, ExceptSeq DEF SetCurrent
<1>3. SubSeq(graphics', 1, Len(call.before)) = SubSeq(graphics, 1, Len(call.before))
  BY <1>1, <1>2 DEF Pushed
<1> QED
  BY <1>1, <1>2, <1>3 DEF Pushed, Current

\* Every step of a call keeps the invariant.
LEMMA StatesStep == ASSUME StatesInv, Step PROVE StatesInv'
<1> USE DEF At, Go, Calls, Outside, Inside
<1>1. CASE Number
  BY <1>1, FailKeepsStates, StaysKeepsStates DEF Number
<1>2. CASE Dimensions
  BY <1>2, FailKeepsStates, StaysKeepsStates DEF Dimensions
<1>3. CASE NewCanvas
  BY <1>3, FailKeepsStates, StaysKeepsStates DEF NewCanvas
<1>4. CASE Push
  <2>1. CASE Fail
    BY <1>4, <2>1, FailKeepsStates DEF Push
  <2>2. CASE ~Fail
    <3>1. /\ graphics' = Append(graphics, Current) /\ stage' = "reset"
          /\ call' = call /\ touched' = touched /\ graphics = call.before
      BY <1>4, <2>2 DEF Push, StatesInv
    <3>2. Current \in States
      BY CurrentTypes DEF StatesInv
    <3>3. graphics \in Seq(States) /\ Len(graphics) \in Nat \ {0}
      BY Lengths DEF StatesInv, StatesOK
    <3>4. /\ graphics' \in Seq(States) /\ Len(graphics') = Len(graphics) + 1
          /\ \A i \in 1 .. Len(graphics) : graphics'[i] = graphics[i]
      BY <3>1, <3>2, <3>3, AppendProperties
    <3>5. SubSeq(graphics', 1, Len(graphics)) = graphics
      BY <3>3, <3>4
    <3>6. call'.before = graphics
      BY <3>1
    <3>7. StatesOK'
      BY <3>1, <3>3, <3>4, <3>6 DEF StatesOK
    <3>8. Pushed'
      BY <3>3, <3>4, <3>5, <3>6 DEF Pushed
    <3> QED
      BY <3>1, <3>7, <3>8 DEF StatesInv
  <2> QED
    BY <2>1, <2>2
<1>5. CASE Reset
  <2>1. CASE Fail
    BY <1>5, <2>1, FailKeepsStates DEF Reset
  <2>2. CASE ~Fail
    <3>1. /\ SetCurrent([target |-> Screen, settings |-> "default"])
          /\ stage' = "set canvas" /\ call' = call /\ touched' = touched /\ Pushed
      BY <1>5, <2>2 DEF Reset, StatesInv
    <3>2. [target |-> Screen, settings |-> "default"] \in States
      BY DEF States
    <3> QED
      BY <3>1, <3>2, SetCurrentKeeps DEF StatesInv, StatesOK
  <2> QED
    BY <2>1, <2>2
<1>6. CASE SetCanvas
  <2>1. CASE Fail
    BY <1>6, <2>1, FailKeepsStates DEF SetCanvas
  <2>2. CASE ~Fail
    <3> DEFINE g == [Current EXCEPT !.target = "canvas"]
    <3>1. /\ SetCurrent(g)
          /\ stage' = "clear" /\ call' = call /\ touched' = touched /\ Pushed
      BY <1>6, <2>2 DEF SetCanvas, StatesInv
    <3>2. Current \in States
      BY CurrentTypes DEF StatesInv
    <3>3. g \in States /\ g.target = "canvas"
      BY <3>2 DEF States
    <3> HIDE DEF g
    <3>4. /\ graphics' \in Seq(States) /\ Len(graphics') > 0
          /\ Pushed' /\ Current' = g
      BY <3>1, <3>3, SetCurrentKeeps
    <3> QED
      BY <3>1, <3>3, <3>4 DEF StatesInv, StatesOK
  <2> QED
    BY <2>1, <2>2
<1>7. CASE Clear
  <2>1. CASE Fail
    BY <1>7, <2>1, FailKeepsStates DEF Clear
  <2>2. CASE ~Fail
    <3>1. /\ touched' = touched \cup {Current.target} /\ Current.target = "canvas"
          /\ stage' = "draw" /\ UNCHANGED <<graphics, call, outcome>> /\ Pushed
      BY <1>7, <2>2 DEF Clear, StatesInv
    <3>2. Pushed' /\ Current' = Current
      BY <3>1 DEF Pushed, Current
    <3> QED
      BY <3>1, <3>2 DEF StatesInv, StatesOK
  <2> QED
    BY <2>1, <2>2
<1>8. CASE DrawImage
  <2>1. CASE Fail
    BY <1>8, <2>1, FailKeepsStates DEF DrawImage
  <2>2. CASE ~Fail
    <3>1. /\ touched' = touched \cup {Current.target} /\ Current.target = "canvas"
          /\ stage' = "pop" /\ UNCHANGED <<graphics, call, outcome>> /\ Pushed
      BY <1>8, <2>2 DEF DrawImage, StatesInv
    <3>2. Pushed'
      BY <3>1 DEF Pushed
    <3> QED
      BY <3>1, <3>2 DEF StatesInv, StatesOK
  <2> QED
    BY <2>1, <2>2
<1>9. CASE PopState
  <2>1. CASE Fail
    BY <1>9, <2>1, FailKeepsStates DEF PopState
  <2>2. CASE ~Fail
    <3>1. /\ graphics' = SubSeq(graphics, 1, Len(graphics) - 1)
          /\ stage' = "meshes" /\ UNCHANGED <<call, touched, outcome>> /\ Pushed
      BY <1>9, <2>2 DEF PopState, StatesInv
    <3>2. Len(graphics) - 1 = Len(call.before)
      <4>1. Len(call.before) \in Nat
        BY Lengths DEF StatesInv
      <4> QED
        BY <3>1, <4>1 DEF Pushed
    <3>3. graphics' = call.before
      BY <3>1, <3>2 DEF Pushed
    <3>4. Len(call.before) > 0
      BY <3>1 DEF Pushed
    <3> QED
      BY <3>1, <3>3, <3>4 DEF StatesInv, StatesOK
  <2> QED
    BY <2>1, <2>2
<1>10. CASE \E d \in Drawables : Mesh(d)
  <2>1. PICK d \in Drawables : Mesh(d)
    BY <1>10
  <2>2. Fail \/ (stage' = "meshes" /\ UNCHANGED <<graphics, call, touched>>)
    BY <2>1 DEF Mesh
  <2> QED
    BY <2>1, <2>2, FailKeepsStates, StaysKeepsStates DEF Mesh
<1>11. CASE Return
  BY <1>11 DEF Return, StatesInv, StatesOK
<1> QED
  BY <1>1, <1>2, <1>3, <1>4, <1>5, <1>6, <1>7, <1>8, <1>9, <1>10, <1>11 DEF Step

\* A call starts from the states there are.
LEMMA StatesCall ==
    ASSUME StatesInv, NEW n, NEW v, NEW slot, Call(n, v, slot)
    PROVE  StatesInv'
<1>1. /\ stage' = "number" /\ touched' = {} /\ graphics' = graphics
      /\ call'.before = graphics
  BY DEF Call
<1>2. StatesOK'
  BY <1>1 DEF StatesInv, StatesOK, Outside
<1> QED
  BY <1>1, <1>2 DEF StatesInv, Outside, Inside, At

\* Every step keeps the stack of states.
LEMMA StatesNext == ASSUME StatesInv, [Next]_vars PROVE StatesInv'
<1>1. CASE UNCHANGED vars
  BY <1>1 DEF vars, StatesInv, StatesOK, Pushed, Current, At
<1>2. CASE Next
  BY <1>2, StatesStep, StatesCall DEF Next
<1> QED
  BY <1>1, <1>2

\* setTexture leaves the graphics of the game alone: it clears and draws on its
\* canvas only, and the pushed states below its own are as they were, however
\* the call ends (setupPMATexture, push to pop).
THEOREM GraphicsAreKept == Spec => []GraphicsKept
<1>1. StatesInv => GraphicsKept
  <2> SUFFICES ASSUME StatesInv PROVE GraphicsKept
    OBVIOUS
  <2>1. /\ call.before \in Seq(States) /\ Len(call.before) \in Nat
    BY Lengths DEF StatesInv, StatesOK
  <2>2. graphics = call.before =>
            /\ Len(graphics) - Len(call.before) = 0 /\ Len(graphics) >= Len(call.before)
            /\ SubSeq(graphics, 1, Len(call.before)) = call.before
    BY <2>1
  <2>3. Pushed =>
            /\ Len(graphics) - Len(call.before) = 1 /\ Len(graphics) >= Len(call.before)
            /\ SubSeq(graphics, 1, Len(call.before)) = call.before
    BY <2>1 DEF Pushed
  <2>4. touched \subseteq {"canvas"}
    BY DEF StatesInv
  <2>5. ~At("idle") => graphics = call.before \/ Pushed
    BY DEF StatesInv, StatesOK, At
  <2>6. At("idle") /\ call # NoCall =>
            /\ outcome = "returned" => graphics = call.before
            /\ outcome = "failed" => graphics = call.before \/ Pushed
    BY DEF StatesInv
  <2> QED
    BY <2>2, <2>3, <2>4, <2>5, <2>6 DEF GraphicsKept
<1> QED
  BY <1>1, StatesInit, StatesNext, PTL DEF Spec

-----------------------------------------------------------------------------

Contents == Images \cup Others \cup {Nil, Blank}
Shows == [of : Contents, copy : BOOLEAN]

\* What the call does not concern keeps what it shows; the copy is made before the
\* meshes are looked at; and those looked at show it.
Kept(d) ==
    given[TextureOf[d]] \in Images => texture[d] = Expected(d, given[TextureOf[d]])
TexturesInv ==
    /\ texture \in [Drawables -> Shows]
    /\ call.slot \in Contents /\ canvas \in Contents
    /\ \A d \in Drawables : At("idle") \/ TextureOf[d] # call.number => Kept(d)
    /\ stage \notin {"meshes", "idle"} => todo = Drawables
    /\ At("pop") => canvas = call.slot
    /\ At("meshes") /\ HasSize /\ NeedPMA(call.number) => canvas = call.slot
    /\ At("meshes") =>
            \A d \in Drawables \ todo : TextureOf[d] = call.number => texture[d] = Shown(d)

\* No drawable has a texture before the first call.
LEMMA TexturesInit == Init => TexturesInv
<1> SUFFICES ASSUME Init PROVE TexturesInv
  OBVIOUS
<1>1. /\ texture = [d \in Drawables |-> Plain(Nil)] /\ stage = "idle"
      /\ canvas = Blank /\ call.slot = Nil /\ given = [n \in Numbers |-> Nil]
  BY DEF Init, NoCall
<1>2. Plain(Nil) \in Shows
  BY DEF Plain, Shows, Contents
<1>3. \A d \in Drawables : given[TextureOf[d]] \notin Images
  BY <1>1, ImagesAssumption DEF Numbers, Nil
<1> QED
  BY <1>1, <1>2, <1>3 DEF TexturesInv, Kept, Contents, At

\* After a failure the number of the call has no image.
LEMMA FailKeepsTextures ==
    ASSUME TexturesInv, Fail PROVE TexturesInv'
<1>1. /\ stage' = "idle" /\ UNCHANGED <<texture, call, canvas, todo>>
      /\ given' = [n \in Numbers |-> IF n = call.number THEN Nil ELSE given[n]]
  BY DEF Fail, Remember
<1>2. ASSUME NEW d \in Drawables PROVE Kept(d)'
  <2>1. TextureOf[d] \in Numbers
    BY DEF Numbers
  <2>2. CASE TextureOf[d] = call.number
    BY <1>1, <2>1, <2>2, ImagesAssumption DEF Kept, Nil
  <2>3. CASE TextureOf[d] # call.number
    BY <1>1, <2>1, <2>3 DEF Kept, TexturesInv, Expected, Plain, Copy
  <2> QED
    BY <2>2, <2>3
<1> QED
  BY <1>1, <1>2 DEF TexturesInv, At

\* A step that changes no texture and does not enter the meshes
LEMMA StaysKeepsTextures ==
    ASSUME TexturesInv, stage # "idle", stage' \notin {"idle", "pop", "meshes"},
           canvas' \in Contents, UNCHANGED <<texture, call, given, todo>>,
           stage # "meshes"
    PROVE  TexturesInv'
  BY DEF TexturesInv, At, Kept, Expected, Plain, Copy

\* The mesh of a drawable gets what it is to show.
LEMMA MeshKeepsTextures ==
    ASSUME TexturesInv, NEW d \in Drawables, Mesh(d) PROVE TexturesInv'
<1>1. CASE Fail
  BY <1>1, FailKeepsTextures
<1>2. CASE ~Fail
  <2>1. /\ At("meshes") /\ At("meshes")' /\ todo' = todo \ {d}
        /\ UNCHANGED <<call, canvas, given>>
        /\ texture' = IF TextureOf[d] = call.number
                      THEN [texture EXCEPT ![d] = Shown(d)] ELSE texture
    BY <1>2 DEF Mesh, At
  <2>2. Shown(d) \in Shows
    BY DEF Shown, Shows, Contents, Plain, Copy, TexturesInv
  <2>3. texture' \in [Drawables -> Shows]
    BY <2>1, <2>2 DEF TexturesInv
  <2>4. \A e \in Drawables : TextureOf[e] # call.number => texture'[e] = texture[e]
    BY <2>1, <2>2 DEF TexturesInv
  <2>5. \A e \in Drawables \ todo' : TextureOf[e] = call.number => texture'[e] = Shown(e)
    <3>1. TAKE e \in Drawables \ todo'
    <3>2. CASE e = d
      BY <2>1, <3>2 DEF TexturesInv
    <3>3. CASE e # d
      BY <2>1, <3>3 DEF TexturesInv
    <3> QED
      BY <3>2, <3>3
  <2>6. (\A e \in Drawables : Shown(e)' = Shown(e)) /\ HasSize' = HasSize
        /\ NeedPMA(call.number)' = NeedPMA(call.number)
    BY <2>1 DEF Shown, HasSize, NeedPMA
  <2>7. \A e \in Drawables : TextureOf[e] # call.number => Kept(e)'
    BY <2>1, <2>4 DEF TexturesInv, Kept, Expected, Plain, Copy
  <2> QED
    BY <2>1, <2>3, <2>5, <2>6, <2>7 DEF TexturesInv, At
<1> QED
  BY <1>1, <1>2

\* When every mesh has been looked at, those of the texture show the image.
LEMMA ReturnKeepsTextures ==
    ASSUME TexturesInv, Return PROVE TexturesInv'
<1> DEFINE v == IF call.slot = call.value THEN call.value ELSE Nil
<1>1. /\ At("meshes") /\ todo = {} /\ stage' = "idle"
      /\ UNCHANGED <<texture, call, canvas, todo>>
      /\ given' = [n \in Numbers |-> IF n = call.number THEN v ELSE given[n]]
  BY DEF Return, Remember
<1>2. ASSUME NEW d \in Drawables PROVE Kept(d)'
  <2>1. TextureOf[d] \in Numbers
    BY DEF Numbers
  <2>2. CASE TextureOf[d] = call.number
    <3>1. given'[TextureOf[d]] = v /\ texture'[d] = Shown(d)
      BY <1>1, <2>1, <2>2 DEF TexturesInv
    <3>2. CASE v \notin Images
      BY <3>1, <3>2 DEF Kept
    <3>3. CASE v \in Images
      <4>1. v = call.slot /\ HasSize
        BY <3>3, ImagesAssumption DEF HasSize, Nil
      <4>2. d \in Multiply => canvas = call.slot
        BY <1>1, <2>2, <4>1 DEF TexturesInv, NeedPMA
      <4>3. Shown(d) = Expected(d, v)
        BY <4>1, <4>2 DEF Shown, Expected
      <4> HIDE DEF v
      <4> QED
        BY <3>1, <4>3 DEF Kept, Expected, Plain, Copy
    <3> QED
      BY <3>2, <3>3
  <2>3. CASE TextureOf[d] # call.number
    BY <1>1, <2>1, <2>3 DEF Kept, TexturesInv, Expected, Plain, Copy
  <2> QED
    BY <2>2, <2>3
<1> QED
  BY <1>1, <1>2 DEF TexturesInv, At

\* A step of a call keeps the textures.
LEMMA TexturesStep ==
    ASSUME StatesInv, TexturesInv, Step PROVE TexturesInv'
<1> USE DEF At, Go, Calls
<1>1. CASE Number
  BY <1>1, FailKeepsTextures, StaysKeepsTextures DEF Number, TexturesInv
<1>2. CASE Dimensions
  <2>1. CASE stage' \in {"idle", "canvas"}
    BY <1>2, <2>1, FailKeepsTextures, StaysKeepsTextures DEF Dimensions, TexturesInv
  <2>2. CASE stage' \notin {"idle", "canvas"}
    BY <1>2, <2>2
    DEF Dimensions, Fail, TexturesInv, Kept, HasSize, NeedPMA, Expected, Plain, Copy
  <2> QED
    BY <2>1, <2>2
<1>3. CASE NewCanvas \/ Push \/ Reset \/ SetCanvas
  BY <1>3, FailKeepsTextures, StaysKeepsTextures
  DEF NewCanvas, Push, Reset, SetCanvas, TexturesInv
<1>4. CASE Clear
  BY <1>4, FailKeepsTextures, StaysKeepsTextures DEF Clear, Onto, Contents, TexturesInv
<1>5. CASE DrawImage
  <2>1. CASE Fail
    BY <2>1, FailKeepsTextures
  <2>2. CASE ~Fail
    <3>1. canvas' = call.slot /\ stage' = "pop" /\ UNCHANGED <<texture, call, given, todo>>
      BY <1>5, <2>2 DEF DrawImage, Onto, StatesInv
    <3> QED
      BY <1>5, <3>1 DEF DrawImage, TexturesInv, Kept, Expected, Plain, Copy
  <2> QED
    BY <2>1, <2>2
<1>6. CASE PopState
  <2>1. CASE Fail
    BY <2>1, FailKeepsTextures
  <2>2. CASE ~Fail
    <3>1. /\ stage = "pop" /\ stage' = "meshes"
          /\ UNCHANGED <<texture, call, given, canvas, todo>>
      BY <1>6, <2>2 DEF PopState
    <3>2. canvas' = call'.slot
      BY <3>1 DEF TexturesInv
    <3>3. todo' = Drawables
      BY <3>1 DEF TexturesInv
    <3> QED
      BY <3>1, <3>2, <3>3 DEF TexturesInv, Kept, Expected, Plain, Copy
  <2> QED
    BY <2>1, <2>2
<1> QED
  BY <1>1, <1>2, <1>3, <1>4, <1>5, <1>6, MeshKeepsTextures, ReturnKeepsTextures DEF Step

\* So does the start of a call.
LEMMA TexturesCall ==
    ASSUME TexturesInv, NEW n, NEW v, NEW slot \in Images \cup Others \cup {Nil},
           Call(n, v, slot)
    PROVE  TexturesInv'
<1>1. /\ At("idle") /\ stage' = "number" /\ canvas' = Blank /\ todo' = Drawables
      /\ call'.slot = slot /\ UNCHANGED <<texture, given>>
  BY DEF Call
<1>2. \A d \in Drawables : Kept(d)'
  BY <1>1 DEF TexturesInv, Kept, Expected, Plain, Copy
<1> QED
  BY <1>1, <1>2 DEF TexturesInv, Contents, At

\* So does every step.
LEMMA TexturesNext ==
    ASSUME StatesInv, TexturesInv, [Next]_vars PROVE TexturesInv'
<1>1. CASE UNCHANGED vars
  BY <1>1
  DEF vars, TexturesInv, Kept, Expected, Plain, Copy, Shown, HasSize, NeedPMA, At
<1>2. CASE Next
  BY <1>2, TexturesStep, TexturesCall DEF Next
<1> QED
  BY <1>1, <1>2

\* A drawable keeps showing the image its texture was given last, or the finished
\* copy of it, whatever calls for other textures do and wherever they fail
\* (setTexture's loop over the meshes).
THEOREM DrawablesStayTextured == Spec => []Textured
<1>1. TexturesInv => Textured
  BY DEF TexturesInv, Textured, Kept
<1> QED
  BY <1>1, StatesInit, StatesNext, TexturesInit, TexturesNext, PTL DEF Spec

=============================================================================
