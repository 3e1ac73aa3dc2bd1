----------------------------- MODULE DrawProofs ------------------------------
(***************************************************************************)
(* Proofs about Draw, for any number of drawables, any models and any      *)
(* state of the game: its types, the order of drawing, the masks, the      *)
(* blend function and the shader of every drawable, and the state that a   *)
(* draw leaves.                                                            *)
(***************************************************************************)
EXTENDS Draw, FiniteSetTheorems, SequenceTheorems, TLAPS

\* The types of what TypeOK leaves open
Blends == GameBlends \cup BlendModes
Frames == [mesh : Drawables, mask : Nat \ {0}, inner : BOOLEAN]
Calls == [stage : Stages, next : 1 .. (Meshes + 1), stack : Seq(Frames),
          savedBlend : Blends \cup {"none"}, savedShader : Shaders \cup {"none"},
          cached : BlendModes]
Marks == [mesh : Drawables, func : Blends \cup {"separate"}, shader : Shaders,
          pixels : SUBSET Pixels]

\* The stages outside draw, those in which a drawable is chosen, and those in
\* which it has masks
Resting == {"idle", "vertices"}
Choosing == {"idle", "vertices", "clear", "mesh"}
InMasks == {"masks", "stencil"}
Masking == {"masks", "stencil", "test", "shader"}
Drawing == {"clear", "mesh", "masks", "stencil", "test", "shader", "blend", "draw"}
OfMasked == {"masks", "stencil", "test", "shader", "blend", "unset", "cleanup"}

Types ==
    /\ model \in ModelShapes /\ meshData \in Orders /\ settled \in Orders
    /\ modelOrder \in Orders /\ renderOrder \in [Drawables -> Drawables]
    /\ gfx \in GfxStates /\ before \in GfxStates
    /\ buffer \in [Pixels -> Nat] /\ call \in Calls
    /\ drawn \in Seq(Marks) /\ refused \in BOOLEAN
    /\ call.stage \notin Resting => call.savedBlend \in Blends
    /\ call.stage \in Masking => call.savedShader \in Shaders
    /\ call.stage \notin Choosing => call.next <= Meshes
    /\ call.stage \in OfMasked => IsMasked(Current)

\* The calls of drawStencil: below the last one each waits for the masks of its
\* present mask, which will make it fail.
MaskOf(f) == Masks(f.mesh)[f.mask]
Within(f) == f.mask <= Len(Masks(f.mesh))
FrameOK(f, waits) ==
    /\ f.mask <= Len(Masks(f.mesh)) + 1
    /\ waits => f.inner
    /\ f.inner => Within(f) /\ IsMasked(MaskOf(f))
Nested ==
    call.stage \in InMasks =>
        /\ call.stack # <<>> /\ call.stack[1].mesh = Current
        /\ \A d \in 1 .. Len(call.stack) : FrameOK(call.stack[d], d < Len(call.stack))
        /\ call.stage = "stencil" => Within(Frame) /\ ~IsMasked(Mask)

\* The stencil buffer after the first k masks of drawable m
Stencil(shape, m, k) ==
    [p \in Pixels |-> IF \E j \in 1 .. k : p \in shape.covers[shape.masks[m][j]] THEN 1
                      ELSE Cleared]
Empty == [p \in Pixels |-> Cleared]

Buffered ==
    /\ call.stage = "mesh" => buffer = Empty
    /\ call.stage \in InMasks /\ ~call.stack[1].inner =>
            buffer = Stencil(model, Current, call.stack[1].mask - 1)
    /\ call.stage \in {"test", "shader"} => buffer = Stencil(model, Current, Len(Masks(Current)))
    /\ call.stage \in {"blend", "draw"} =>
            buffer = IF IsMasked(Current) THEN Stencil(model, Current, Len(Masks(Current))) ELSE Empty

\* LOVE's graphics state.  The game's stencil test is in force until the first
\* drawable with masks ends it.
MaskTest == [mode |-> "equal", value |-> 1]
Ended(n) == \E j \in 1 .. n : IsMasked(meshData[j])
TestOf(n) == IF Ended(n) THEN NoTest ELSE before.test
State ==
    /\ call.stage \notin Resting =>
            /\ call.savedBlend = before.blend /\ gfx.func = BlendFunc(call.cached)
            /\ IF call.stage \in Masking
               THEN call.savedShader = before.shader
               ELSE gfx.shader = before.shader
    /\ call.stage \in {"clear", "mesh"} => gfx.test = TestOf(call.next - 1)
    /\ call.stage = "stencil" => gfx.test.mode # "equal"
    /\ call.stage = "shader" => gfx.test = MaskTest
    /\ call.stage \in {"blend", "draw"} =>
            gfx.test = IF IsMasked(Current) THEN MaskTest ELSE TestOf(call.next - 1)
    /\ call.stage = "cleanup" => gfx.test = NoTest
    /\ call.stage = "draw" => call.cached = model.blending[Current]

\* What has been drawn, and what draw and update do to the order: the drawables
\* are sorted by the render orders of the last update that has returned, also
\* while the next one copies those of its own.
InOrder ==
    /\ \A i, j \in Drawables : i < j => settled[meshData[i]] < settled[meshData[j]]
    /\ call.stage = "vertices" =>
            /\ drawn = <<>>
            /\ \A i \in 1 .. (call.next - 1) :
                    renderOrder[meshData[i]] = modelOrder[meshData[i]]
    /\ Len(drawn) <= Meshes
    /\ \A i \in 1 .. Len(drawn) : drawn[i].mesh = meshData[i]
    /\ call.stage \in {"unset", "cleanup"} => Len(drawn) = call.next
    /\ call.stage \in Drawing => Len(drawn) = call.next - 1

DrawInv ==
    /\ Types /\ Nested /\ InOrder /\ Buffered /\ State
    /\ Clipped /\ OwnBlend

-----------------------------------------------------------------------------
(* The drawables and their masks                                           *)

\* The masks of a drawable are drawables.
LEMMA MasksAre ==
    ASSUME model \in ModelShapes, NEW m \in Drawables
    PROVE  /\ Masks(m) \in Seq(Drawables) /\ Len(Masks(m)) \in Nat
           /\ \A k \in 1 .. Len(Masks(m)) : Masks(m)[k] \in Drawables
           /\ DOMAIN Masks(m) = 1 .. Len(Masks(m))
           /\ model.blending[m] \in BlendModes /\ model.covers[m] \subseteq Pixels
<1>1. /\ model.masks \in [Drawables -> Seq(Drawables)]
      /\ model.blending \in [Drawables -> BlendModes]
      /\ model.covers \in [Drawables -> SUBSET Pixels]
  BY ModelsAssumption
<1>2. model.masks[m] \in Seq(Drawables)
  BY <1>1
<1> QED
  BY <1>1, <1>2 DEF Masks

\* Every drawable has a place in an order.
LEMMA OrdersOnto ==
    ASSUME NEW o \in Orders
    PROVE  \A m \in Drawables : \E i \in Drawables : o[i] = m
<1>1. o \in Injection(Drawables, Drawables)
  BY DEF Orders, Injection, IsInjective
<1>2. IsFiniteSet(Drawables)
  BY MeshesAssumption, FS_Interval DEF Drawables
<1>3. o \in Surjection(Drawables, Drawables)
  BY <1>1, <1>2, FS_Injection
<1> QED
  BY <1>3 DEF Surjection

\* The drawable being drawn, and the call of drawStencil that is running
LEMMA CurrentIs ==
    ASSUME Types, call.next <= Meshes
    PROVE  call.next \in Drawables /\ Current \in Drawables
<1>1. meshData \in [Drawables -> Drawables] /\ call \in Calls
  BY DEF Types, Orders
<1>2. call.next \in Drawables
  BY <1>1, MeshesAssumption DEF Calls, Drawables
<1> QED
  BY <1>1, <1>2 DEF Current

\* Inside drawStencil there is a call, whose mask is a drawable as long as it has one.
LEMMA FrameIs ==
    ASSUME Types, Nested, call.stage \in InMasks
    PROVE  /\ Depth \in Nat \ {0} /\ Frame \in Frames /\ call.stack \in Seq(Frames)
           /\ Depth = Len(call.stack) /\ Frame = call.stack[Depth]
           /\ Within(Frame) => Mask \in Drawables
<1>1. call.stack \in Seq(Frames) /\ call.stack # <<>> /\ model \in ModelShapes
  <2>1. call \in Calls /\ model \in ModelShapes
    BY DEF Types
  <2> QED
    BY <2>1 DEF Calls, Nested
<1>2. Depth \in Nat \ {0}
  BY <1>1 DEF Depth
<1>3. Frame \in Frames
  BY <1>1, <1>2 DEF Frame, Depth
<1>4. Frame.mesh \in Drawables /\ Frame.mask \in Nat \ {0}
  BY <1>3 DEF Frames
<1>5. Within(Frame) => Mask \in Drawables
  BY <1>1, <1>4, MasksAre DEF Mask, Within
<1> QED
  BY <1>1, <1>2, <1>3, <1>5 DEF Depth, Frame

-----------------------------------------------------------------------------
(* What the parts of the actions do to the call and to LOVE's state        *)

\* Go and NextMesh change the stage, and the second one the drawable.
LEMMA GoIs ==
    ASSUME call \in Calls, NEW s \in Stages, Go(s)
    PROVE  /\ call' \in Calls /\ call'.stage = s
           /\ call'.next = call.next /\ call'.stack = call.stack
           /\ call'.savedBlend = call.savedBlend /\ call'.savedShader = call.savedShader
           /\ call'.cached = call.cached
  BY DEF Go, Calls

\* draw goes on to the next drawable; what it has saved stays.
LEMMA NextMeshIs ==
    ASSUME call \in Calls, call.next <= Meshes, NextMesh
    PROVE  /\ call' \in Calls /\ call'.stage = "mesh"
           /\ call'.next = call.next + 1 /\ call'.stack = call.stack
           /\ call'.savedBlend = call.savedBlend /\ call'.savedShader = call.savedShader
           /\ call'.cached = call.cached
<1>1. call.next \in 1 .. (Meshes + 1) /\ "mesh" \in Stages
  BY DEF Calls, Stages
<1>2. call.next + 1 \in 1 .. (Meshes + 1)
  BY <1>1, MeshesAssumption
<1>3. call' = [call EXCEPT !.stage = "mesh", !.next = call.next + 1]
  BY DEF NextMesh
<1> QED
  BY <1>1, <1>2, <1>3 DEF Calls

\* draw ends.
LEMMA IdleIs == Idle \in Calls /\ Idle.stage = "idle" /\ Idle.next = 1 /\ Idle.cached = "normal"
  BY MeshesAssumption DEF Idle, Calls, Stages, BlendModes

\* LOVE's setters change what they are called for.
LEMMA SetBlendModeIs ==
    ASSUME gfx \in GfxStates, NEW mode \in Blends, NEW func \in Blends \cup {"separate"},
           SetBlendMode(mode, func)
    PROVE  /\ gfx' \in GfxStates /\ gfx'.blend = mode /\ gfx'.func = func
           /\ gfx'.shader = gfx.shader /\ gfx'.test = gfx.test
  BY DEF SetBlendMode, GfxStates, Blends

\* love.graphics.setShader changes the shader only,
LEMMA SetShaderIs ==
    ASSUME gfx \in GfxStates, NEW shader \in Shaders, SetShader(shader)
    PROVE  /\ gfx' \in GfxStates /\ gfx'.shader = shader
           /\ gfx'.blend = gfx.blend /\ gfx'.func = gfx.func /\ gfx'.test = gfx.test
  BY DEF SetShader, GfxStates

\* and setStencilTest the stencil test only.
LEMMA SetStencilTestIs ==
    ASSUME gfx \in GfxStates, NEW mode \in {"off", "equal", "always"}, NEW value \in Nat,
           SetStencilTest(mode, value)
    PROVE  /\ gfx' \in GfxStates /\ gfx'.test = [mode |-> mode, value |-> value]
           /\ gfx'.blend = gfx.blend /\ gfx'.func = gfx.func /\ gfx'.shader = gfx.shader
  BY DEF SetStencilTest, GfxStates, Tests

\* The state a game sets from scratch is one of LOVE's.
LEMMA GameStateIs ==
    ASSUME NEW g \in GameStates
    PROVE  GameState(g) \in GfxStates
  BY GameAssumption DEF GameState, GameStates, GfxStates, Shaders

\* A step that keeps the model and the order keeps what they say.
LEMMA CurrentStays ==
    ASSUME UNCHANGED <<model, order>>, call'.next = call.next
    PROVE  /\ Current' = Current /\ IsMasked(Current)' = IsMasked(Current)
           /\ Masks(Current)' = Masks(Current)
  BY DEF order, Current, IsMasked, Masks

\* So does the stencil test that draw leaves to a drawable without masks,
LEMMA TestStays ==
    ASSUME UNCHANGED <<model, order, before>>, call'.next = call.next
    PROVE  TestOf(call.next - 1)' = TestOf(call.next - 1)
  BY DEF order, TestOf, Ended, IsMasked, Masks

\* which a drawable with masks ends for all that follow.
LEMMA TestOfNext ==
    ASSUME UNCHANGED <<model, order, before>>, call'.next = call.next + 1, call.next \in Nat \ {0}
    PROVE  TestOf(call.next - 1)' = IF IsMasked(Current) THEN NoTest ELSE TestOf(call.next - 1)
<1>1. \A j : j \in 1 .. (call'.next - 1) <=> j \in 1 .. (call.next - 1) \/ j = call.next
  OBVIOUS
<1>2. Ended(call.next - 1)' <=> IsMasked(Current) \/ Ended(call.next - 1)
  BY <1>1 DEF order, Ended, Current, IsMasked, Masks
<1> QED
  BY <1>2 DEF TestOf, order
-----------------------------------------------------------------------------
(* Types                                                                   *)

\* The types the proofs use are finer than those TLC checks.
LEMMA TypesImply == Types => TypeOK
<1> SUFFICES ASSUME Types PROVE TypeOK
  OBVIOUS
<1>1. call \in Calls /\ gfx \in GfxStates
  BY DEF Types
<1>2. /\ call.stage \in Stages /\ call.next \in 1 .. (Meshes + 1)
      /\ call.savedBlend \in GameBlends \cup BlendModes \cup {"none"}
      /\ call.savedShader \in Shaders \cup {"none"}
      /\ call.cached \in BlendModes
  BY <1>1 DEF Calls, Blends
<1> QED
  BY <1>1, <1>2, Zenon DEF TypeOK, Types, GfxStates, Blends

\* They hold at the start, where no draw is under way.
LEMMA InitInv == Init => Types /\ Nested
<1> SUFFICES ASSUME Init PROVE Types /\ Nested
  OBVIOUS
<1>1. meshData \in Orders /\ settled \in Orders
  BY DEF Init, Orders
<1>2. modelOrder \in Orders /\ renderOrder \in [Drawables -> Drawables]
  BY OrdersAssumption DEF Init, Orders
<1>3. buffer \in [Pixels -> Nat]
  BY DEF Init
<1>4. call \in Calls /\ call.stage = "idle" /\ drawn \in Seq(Marks)
  BY IdleIs DEF Init
<1>5. gfx \in GfxStates /\ before \in GfxStates
  BY GameStateIs DEF Init
<1>6. Types
  BY <1>1, <1>2, <1>3, <1>4, <1>5
  DEF Init, Types, Resting, Choosing, Masking, OfMasked
<1> QED
  BY <1>4, <1>6 DEF Nested, InMasks

\* Arithmetic of the outermost call
LEMMA AboveOne ==
    \A n \in Nat \ {0} : n # 1 => 1 < n /\ 1 \in 1 .. n /\ 1 \in 1 .. n - 1
  OBVIOUS

\* The stack of drawStencil's calls: one more, with the present mask waiting for
\* its masks; the next mask of the last call; the last call has returned.
LEMMA EnterIs ==
    ASSUME Types, Nested, EnterMask
    PROVE  /\ call' \in Calls /\ call'.stage = "masks" /\ call'.next = call.next
           /\ call'.savedBlend = call.savedBlend /\ call'.savedShader = call.savedShader
           /\ call'.cached = call.cached
           /\ Len(call'.stack) = Depth + 1
           /\ \A d \in 1 .. Depth :
                /\ call'.stack[d].mesh = call.stack[d].mesh
                /\ call'.stack[d].mask = call.stack[d].mask
                /\ call'.stack[d].inner = IF d = Depth THEN TRUE ELSE call.stack[d].inner
           /\ call'.stack[Depth + 1] = [mesh |-> Mask, mask |-> 1, inner |-> FALSE]
<1>1. /\ At("masks") /\ Depth \in Nat \ {0} /\ call.stack \in Seq(Frames)
      /\ Mask \in Drawables /\ Depth = Len(call.stack)
  BY FrameIs DEF EnterMask, AtMask, At, InMasks, Within
<1> DEFINE below == [call.stack EXCEPT ![Depth].inner = TRUE]
           new == [mesh |-> Mask, mask |-> 1, inner |-> FALSE]
<1>2. new \in Frames
  BY <1>1 DEF Frames
<1>3. Depth \in 1 .. Len(call.stack) /\ call.stack[Depth] \in Frames
  BY <1>1
<1>4. [call.stack[Depth] EXCEPT !.inner = TRUE] \in Frames
  BY <1>3 DEF Frames
<1>5. below = [call.stack EXCEPT ![Depth] = [call.stack[Depth] EXCEPT !.inner = TRUE]]
  OBVIOUS
<1>6. /\ below \in Seq(Frames) /\ Len(below) = Depth
      /\ \A d \in 1 .. Depth :
            below[d] = IF d = Depth THEN [call.stack[Depth] EXCEPT !.inner = TRUE]
                       ELSE call.stack[d]
  BY <1>1, <1>3, <1>4, <1>5, ExceptSeq
<1>7. \A d \in 1 .. Depth :
        /\ below[d].mesh = call.stack[d].mesh /\ below[d].mask = call.stack[d].mask
        /\ below[d].inner = IF d = Depth THEN TRUE ELSE call.stack[d].inner
  <2>1. SUFFICES ASSUME NEW d \in 1 .. Depth
        PROVE  /\ below[d].mesh = call.stack[d].mesh /\ below[d].mask = call.stack[d].mask
               /\ below[d].inner = IF d = Depth THEN TRUE ELSE call.stack[d].inner
    OBVIOUS
  <2>2. CASE d = Depth
    <3>1. below[d] = [call.stack[Depth] EXCEPT !.inner = TRUE]
      BY <1>6, <2>2
    <3> HIDE DEF below
    <3> QED
      BY <1>3, <2>2, <3>1 DEF Frames
  <2>3. CASE d # Depth
    <3>1. below[d] = call.stack[d]
      BY <1>6, <2>3
    <3> HIDE DEF below
    <3> QED
      BY <2>3, <3>1
  <2> QED
    BY <2>2, <2>3
<1> HIDE DEF below, new
<1>8. /\ Append(below, new) \in Seq(Frames) /\ Len(Append(below, new)) = Depth + 1
      /\ \A d \in 1 .. Depth : Append(below, new)[d] = below[d]
      /\ Append(below, new)[Depth + 1] = new
  BY <1>2, <1>6, AppendProperties
<1>9. call' = [call EXCEPT !.stack = Append(below, new)] /\ call \in Calls
  BY DEF EnterMask, Types, below, new
<1>10. /\ call' \in Calls /\ call'.stage = call.stage /\ call'.next = call.next
       /\ call'.savedBlend = call.savedBlend /\ call'.savedShader = call.savedShader
       /\ call'.cached = call.cached /\ call'.stack = Append(below, new)
  BY <1>8, <1>9 DEF Calls
<1>11. \A d \in 1 .. Depth : call'.stack[d] = below[d]
  BY <1>8, <1>10
<1>12. Len(call'.stack) = Depth + 1 /\ call'.stack[Depth + 1] = new
  BY <1>8, <1>10
<1>13. call.stage = "masks"
  BY <1>1 DEF At
<1> QED
  BY <1>7, <1>10, <1>11, <1>12, <1>13 DEF new

\* A mask written into the buffer: the last call goes on to its next mask.
LEMMA WriteIs ==
    ASSUME Types, Nested, WriteMask
    PROVE  /\ call' \in Calls /\ call'.stage = "masks" /\ call'.next = call.next
           /\ call'.savedBlend = call.savedBlend /\ call'.savedShader = call.savedShader
           /\ call'.cached = call.cached
           /\ Len(call'.stack) = Depth
           /\ \A d \in 1 .. Depth :
                /\ call'.stack[d].mesh = call.stack[d].mesh
                /\ d # Depth => call'.stack[d] = call.stack[d]
           /\ call'.stack[Depth].mask = call.stack[Depth].mask + 1
           /\ call'.stack[Depth].inner = FALSE
<1>1. /\ At("stencil") /\ Depth \in Nat \ {0} /\ call.stack \in Seq(Frames)
      /\ Depth = Len(call.stack) /\ call \in Calls
  BY FrameIs DEF WriteMask, At, InMasks, Types
<1> DEFINE last == [call.stack[Depth] EXCEPT !.mask = call.stack[Depth].mask + 1,
                                             !.inner = FALSE]
           new == [call.stack EXCEPT ![Depth] = last]
<1>2. Depth \in 1 .. Len(call.stack) /\ call.stack[Depth] \in Frames
  BY <1>1
<1>3. /\ last \in Frames /\ last.mesh = call.stack[Depth].mesh
      /\ last.mask = call.stack[Depth].mask + 1 /\ last.inner = FALSE
  <2> DEFINE f == call.stack[Depth]
  <2>1. f \in Frames
    BY <1>2
  <2> HIDE DEF f
  <2>2. f.mask + 1 \in Nat \ {0}
    BY <2>1 DEF Frames
  <2>3. LET l == [f EXCEPT !.mask = f.mask + 1, !.inner = FALSE]
        IN  /\ l \in Frames /\ l.mesh = f.mesh /\ l.mask = f.mask + 1 /\ l.inner = FALSE
    BY <2>1, <2>2 DEF Frames
  <2> QED
    BY <2>3 DEF f
<1>4. call' = [call EXCEPT !.stage = "masks", !.stack[Depth] = last]
  BY DEF WriteMask, Frame
<1>5. call' = [call EXCEPT !.stage = "masks", !.stack = new]
  BY <1>4
<1> HIDE DEF last
<1>6. /\ new \in Seq(Frames) /\ Len(new) = Depth
      /\ \A d \in 1 .. Depth : new[d] = IF d = Depth THEN last ELSE call.stack[d]
  BY <1>1, <1>2, <1>3, ExceptSeq
<1> HIDE DEF new
<1>7. /\ call' \in Calls /\ call'.stage = "masks" /\ call'.next = call.next
      /\ call'.savedBlend = call.savedBlend /\ call'.savedShader = call.savedShader
      /\ call'.cached = call.cached /\ call'.stack = new
  BY <1>1, <1>5, <1>6 DEF Calls, Stages
<1> QED
  BY <1>1, <1>3, <1>6, <1>7

\* drawStencil returns: its caller has the stack as it was.
LEMMA ReturnIs ==
    ASSUME Types, Nested, ReturnFromMasks
    PROVE  /\ call' \in Calls
           /\ call'.stage = IF Depth = 1 THEN "test" ELSE "masks"
           /\ call'.next = call.next
           /\ call'.savedBlend = call.savedBlend /\ call'.savedShader = call.savedShader
           /\ call'.cached = call.cached
           /\ Len(call'.stack) = Depth - 1
           /\ \A d \in 1 .. Depth - 1 : call'.stack[d] = call.stack[d]
<1>1. /\ Depth \in Nat \ {0} /\ call.stack \in Seq(Frames)
      /\ Depth = Len(call.stack) /\ call \in Calls
  BY FrameIs DEF ReturnFromMasks, At, InMasks, Types
<1> DEFINE new == SubSeq(call.stack, 1, Depth - 1)
<1>2. \A d \in 1 .. Depth - 1 : call.stack[d] \in Frames
  BY <1>1
<1>3. /\ new \in Seq(Frames) /\ Len(new) = Depth - 1
      /\ \A d \in 1 .. Depth - 1 : new[d] = call.stack[d]
  BY <1>1, <1>2, SubSeqProperties
<1>4. call' = [call EXCEPT !.stage = IF Depth = 1 THEN "test" ELSE "masks", !.stack = new]
  BY DEF ReturnFromMasks
<1> HIDE DEF new
<1>5. (IF Depth = 1 THEN "test" ELSE "masks") \in Stages
  BY DEF Stages
<1>6. /\ call' \in Calls /\ call'.next = call.next
      /\ call'.stage = IF Depth = 1 THEN "test" ELSE "masks"
      /\ call'.savedBlend = call.savedBlend /\ call'.savedShader = call.savedShader
      /\ call'.cached = call.cached /\ call'.stack = new
  BY <1>1, <1>3, <1>4, <1>5 DEF Calls
<1> QED
  BY <1>3, <1>6

\* Every step keeps the types.
LEMMA NextTypes ==
    ASSUME Types, Nested, [Next]_vars
    PROVE  Types'
<1>0. call \in Calls /\ gfx \in GfxStates /\ <<>> \in Seq(Marks)
  BY DEF Types
<1>1. ASSUME NEW g \in GameStates, SetGameState(g)
      PROVE  Types'
  <2>1. gfx' \in GfxStates /\ before' \in GfxStates /\ drawn' \in Seq(Marks)
    BY <1>0, <1>1, GameStateIs DEF SetGameState
  <2> QED
    BY <1>1, <2>1
    DEF SetGameState, At, Types, order, Resting, Choosing, Masking, OfMasked
<1>2. ASSUME NEW o \in RenderOrders, UpdateModel(o)
      PROVE  Types'
  <2>1. modelOrder' \in Orders /\ drawn' \in Seq(Marks) /\ before' \in GfxStates
    BY <1>0, <1>2, OrdersAssumption DEF UpdateModel
  <2>2. call' \in Calls /\ call'.stage = "vertices"
    BY <1>2, IdleIs DEF UpdateModel, Calls, Stages
  <2> QED
    BY <1>2, <2>1, <2>2
    DEF UpdateModel, Types, Resting, Choosing, Masking, OfMasked
<1>20. CASE SetVertices
  <2>1. call.stage = "vertices" /\ call.next <= Meshes /\ Current \in Drawables
    BY <1>20, CurrentIs DEF SetVertices, At
  <2>2. renderOrder' \in [Drawables -> Drawables]
    BY <1>20, <2>1 DEF SetVertices, Types, Orders
  <2>3. call' \in Calls /\ call'.stage \in Resting
    <3>1. CASE call' = Idle
      BY <3>1, IdleIs DEF Resting
    <3>2. CASE call' = [call EXCEPT !.next = call.next + 1]
      <4>1. call.next \in 1 .. (Meshes + 1)
        BY <1>0 DEF Calls
      <4>2. call.next + 1 \in 1 .. (Meshes + 1)
        BY <2>1, <4>1, MeshesAssumption
      <4> QED
        BY <1>0, <2>1, <3>2, <4>2 DEF Calls, Resting
    <3> QED
      BY <1>20, <3>1, <3>2 DEF SetVertices
  <2> QED
    BY <1>20, <2>2, <2>3
    DEF SetVertices, Types, Resting, Choosing, Masking, OfMasked
<1>21. CASE Sort
  BY <1>21, IdleIs DEF Sort, Types, Resting, Choosing, Masking, OfMasked
<1>3. CASE Begin
  <2>1. gfx' \in GfxStates /\ drawn' \in Seq(Marks)
    BY <1>0, <1>3, SetBlendModeIs DEF Begin, Blends, BlendModes
  <2>2. gfx.blend \in Blends
    BY <1>0 DEF GfxStates, Blends
  <2>3. call' \in Calls /\ call'.stage = "clear" /\ call'.savedBlend \in Blends
    BY <1>3, <2>2, IdleIs DEF Begin, Calls, Stages
  <2> QED
    BY <1>3, <2>1, <2>3 DEF Begin, Types, order, Resting, Choosing, Masking, OfMasked
<1>4. CASE Clear
  <2>1. call' \in Calls /\ call'.stage = "mesh" /\ call'.savedBlend = call.savedBlend
    BY <1>0, <1>4, GoIs DEF Clear, Stages
  <2> QED
    BY <1>4, <2>1
    DEF Clear, ClearStencil, Cleared, At, Types, order, Resting, Choosing, Masking, OfMasked
<1>5. CASE BeginMasks
  <2>1. Current \in Drawables /\ gfx.shader \in Shaders
    BY <1>0, <1>5, CurrentIs DEF BeginMasks, GfxStates
  <2>2. <<[mesh |-> Current, mask |-> 1, inner |-> FALSE]>> \in Seq(Frames)
    BY <2>1 DEF Frames
  <2>3. gfx' \in GfxStates
    BY <1>0, <1>5, SetShaderIs DEF BeginMasks, Shaders
  <2>4. /\ call' \in Calls /\ call'.stage = "masks" /\ call'.savedShader \in Shaders
        /\ call'.next = call.next /\ call'.savedBlend = call.savedBlend
    BY <1>0, <1>5, <2>1, <2>2 DEF BeginMasks, Calls, Stages
  <2>5. IsMasked(Current)'
    BY <1>5, <2>4, CurrentStays DEF BeginMasks
  <2> QED
    BY <1>5, <2>3, <2>4, <2>5
    DEF BeginMasks, At, Types, order, Resting, Choosing, Masking, OfMasked
<1>6. CASE EnterMask
  BY <1>6, EnterIs, CurrentStays DEF EnterMask, AtMask, At, Types, order
<1>7. CASE TestInnerMask
  BY <1>7, IdleIs DEF TestInnerMask, Types, order, Resting, Choosing, Masking, OfMasked
<1>8. CASE TestMask
  <2>1. /\ call' \in Calls /\ call'.stage = "stencil" /\ call'.savedBlend = call.savedBlend
        /\ call'.next = call.next /\ call'.savedShader = call.savedShader
    BY <1>0, <1>8, GoIs DEF TestMask, Stages
  <2>2. gfx' \in GfxStates
    BY <1>0, <1>8, SetStencilTestIs DEF TestMask
  <2> QED
    BY <1>8, <2>1, <2>2, CurrentStays
    DEF TestMask, AtMask, At, Types, order, Resting, Choosing, Masking, OfMasked
<1>9. CASE WriteMask
  <2>1. buffer' \in [Pixels -> Nat]
    BY <1>9, FrameIs DEF WriteMask, At, InMasks, Types
  <2> QED
    BY <1>9, <2>1, WriteIs, CurrentStays
    DEF WriteMask, At, Types, order, Resting, Choosing, Masking, OfMasked
<1>10. CASE ReturnFromMasks
  BY <1>10, ReturnIs, CurrentStays
  DEF ReturnFromMasks, At, Types, order, Resting, Choosing, Masking, OfMasked
<1>11. CASE TestEqual
  <2>1. /\ call' \in Calls /\ call'.stage = "shader" /\ call'.savedBlend = call.savedBlend
        /\ call'.next = call.next /\ call'.savedShader = call.savedShader
    BY <1>0, <1>11, GoIs DEF TestEqual, Stages
  <2>2. gfx' \in GfxStates
    BY <1>0, <1>11, SetStencilTestIs DEF TestEqual
  <2> QED
    BY <1>11, <2>1, <2>2, CurrentStays
    DEF TestEqual, At, Types, order, Resting, Choosing, Masking, OfMasked
<1>12. CASE RestoreShader
  <2>1. /\ call' \in Calls /\ call'.stage = "blend" /\ call'.savedBlend = call.savedBlend
        /\ call'.next = call.next
    BY <1>0, <1>12, GoIs DEF RestoreShader, Stages
  <2>2. call.savedShader \in Shaders
    BY <1>12 DEF RestoreShader, At, Types, Masking
  <2>3. gfx' \in GfxStates
    BY <1>0, <1>12, <2>2, SetShaderIs DEF RestoreShader
  <2> QED
    BY <1>12, <2>1, <2>3, CurrentStays
    DEF RestoreShader, At, Types, order, Resting, Choosing, Masking, OfMasked
<1>13. CASE SetBlend
  <2>1. call.next <= Meshes /\ call.stage \notin Resting /\ Current \in Drawables
    BY <1>13, CurrentIs DEF SetBlend, At, Types, Resting, Choosing
  <2>2. model.blending[Current] \in BlendModes
    BY <2>1, MasksAre DEF Types
  <2>3. gfx' \in GfxStates
    <3>1. CASE model.blending[Current] = call.cached
      BY <1>0, <1>13, <3>1 DEF SetBlend
    <3>2. CASE model.blending[Current] # call.cached
      <4>1. /\ model.blending[Current] \in Blends
            /\ BlendFunc(model.blending[Current]) \in Blends \cup {"separate"}
        BY <2>2 DEF BlendFunc, Blends
      <4> QED
        BY <1>0, <1>13, <3>2, <4>1, SetBlendModeIs DEF SetBlend
    <3> QED
      BY <3>1, <3>2
  <2>4. /\ call' \in Calls /\ call'.stage = "draw" /\ call'.next = call.next
        /\ call'.savedBlend = call.savedBlend
    BY <1>0, <1>13, <2>2 DEF SetBlend, Calls, Stages
  <2>5. UNCHANGED <<model, order, buffer, before, drawn, refused>>
    BY <1>13 DEF SetBlend
  <2> QED
    BY <2>1, <2>3, <2>4, <2>5 DEF Types, order, Resting, Choosing, Masking, OfMasked
<1>14. CASE DrawMesh
  <2>1. call.next <= Meshes /\ Current \in Drawables
    BY <1>14, CurrentIs DEF DrawMesh, At, Types, Choosing
  <2>2. [mesh |-> Current, func |-> gfx.func, shader |-> gfx.shader,
         pixels |-> {p \in model.covers[Current] : Passes(p)}] \in Marks
    BY <1>0, <2>1, MasksAre DEF Types, GfxStates, Marks, Blends
  <2>3. drawn' \in Seq(Marks)
    BY <1>14, <2>2, AppendProperties DEF DrawMesh, Types
  <2>4. CASE IsMasked(Current)
    <3>1. /\ call' \in Calls /\ call'.stage = "unset" /\ call'.next = call.next
          /\ call'.savedBlend = call.savedBlend
      BY <1>0, <1>14, <2>4, GoIs DEF DrawMesh, Stages
    <3> QED
      BY <1>14, <2>1, <2>3, <2>4, <3>1, CurrentStays
      DEF DrawMesh, At, Types, order, Resting, Choosing, Masking, OfMasked
  <2>5. CASE ~IsMasked(Current)
    <3>1. call' \in Calls /\ call'.stage = "mesh" /\ call'.savedBlend = call.savedBlend
      BY <1>0, <1>14, <2>1, <2>5, NextMeshIs DEF DrawMesh
    <3> QED
      BY <1>14, <2>3, <3>1 DEF DrawMesh, At, Types, order, Resting, Choosing, Masking, OfMasked
  <2> QED
    BY <2>4, <2>5
<1>15. CASE UnsetTest
  <2>1. /\ call' \in Calls /\ call'.stage = "cleanup" /\ call'.next = call.next
        /\ call'.savedBlend = call.savedBlend
    BY <1>0, <1>15, GoIs DEF UnsetTest, Stages
  <2>2. gfx' \in GfxStates
    BY <1>0, <1>15, SetStencilTestIs DEF UnsetTest
  <2> QED
    BY <1>15, <2>1, <2>2, CurrentStays
    DEF UnsetTest, At, Types, order, Resting, Choosing, Masking, OfMasked
<1>16. CASE ClearMasks
  <2>1. call.next <= Meshes
    BY <1>16 DEF ClearMasks, At, Types, Choosing
  <2>2. call' \in Calls /\ call'.stage = "mesh" /\ call'.savedBlend = call.savedBlend
    BY <1>0, <1>16, <2>1, NextMeshIs DEF ClearMasks
  <2> QED
    BY <1>16, <2>2
    DEF ClearMasks, ClearStencil, Cleared, At, Types, order, Resting, Choosing, Masking, OfMasked
<1>17. CASE Return
  <2>1. gfx' \in GfxStates
    BY <1>0, <1>17, SetBlendModeIs DEF Return, At, Types, Resting
  <2> QED
    BY <1>17, <2>1, IdleIs DEF Return, Types, order, Resting, Choosing, Masking, OfMasked
<1>18. CASE Fail
  BY <1>18, IdleIs DEF Fail, Types, order, Resting, Choosing, Masking, OfMasked
<1>19. CASE UNCHANGED vars
  BY <1>19, CurrentStays DEF vars, Types, order
<1> QED
  BY <1>1, <1>2, <1>3, <1>4, <1>5, <1>6, <1>7, <1>8, <1>9, <1>10, <1>11, <1>12, <1>13,
     <1>14, <1>15, <1>16, <1>17, <1>18, <1>19, <1>20, <1>21 DEF Next

-----------------------------------------------------------------------------
(* The calls of drawStencil, and the order of drawing                      *)

\* Only these steps lead into drawStencil or stay in it.
LEMMA IntoMasks ==
    ASSUME Types, [Next]_vars, call'.stage \in InMasks
    PROVE  \/ BeginMasks \/ EnterMask \/ TestMask \/ WriteMask \/ ReturnFromMasks
           \/ call.stage \in InMasks /\ UNCHANGED <<model, order, call>>
<1>0. call \in Calls /\ Idle.stage = "idle"
  BY IdleIs DEF Types
<1>1. ASSUME NEW g \in GameStates, SetGameState(g)
      PROVE  FALSE
  BY <1>1 DEF SetGameState, At, InMasks
<1>2. ASSUME NEW o \in RenderOrders, UpdateModel(o)
      PROVE  FALSE
  BY <1>2, IdleIs DEF UpdateModel, InMasks, Calls
<1>15. CASE SetVertices \/ Sort
  BY <1>0, <1>15 DEF SetVertices, Sort, At, InMasks, Calls
<1>3. CASE Begin
  BY <1>3, IdleIs DEF Begin, InMasks, Calls
<1>4. CASE Clear
  BY <1>0, <1>4, GoIs DEF Clear, InMasks, Stages
<1>5. CASE TestInnerMask
  BY <1>0, <1>5 DEF TestInnerMask, InMasks
<1>6. CASE TestEqual
  BY <1>0, <1>6, GoIs DEF TestEqual, InMasks, Stages
<1>7. CASE RestoreShader
  BY <1>0, <1>7, GoIs DEF RestoreShader, InMasks, Stages
<1>8. CASE SetBlend
  BY <1>0, <1>8 DEF SetBlend, InMasks, Calls
<1>9. CASE DrawMesh
  BY <1>0, <1>9, GoIs DEF DrawMesh, NextMesh, InMasks, Stages, Calls
<1>10. CASE UnsetTest
  BY <1>0, <1>10, GoIs DEF UnsetTest, InMasks, Stages
<1>11. CASE ClearMasks
  BY <1>0, <1>11 DEF ClearMasks, NextMesh, InMasks, Calls
<1>12. CASE Return
  BY <1>0, <1>12 DEF Return, InMasks
<1>13. CASE Fail
  BY <1>0, <1>13 DEF Fail, InMasks
<1>14. CASE UNCHANGED vars
  BY <1>14 DEF vars, order
<1> QED
  BY <1>1, <1>2, <1>3, <1>4, <1>5, <1>6, <1>7, <1>8, <1>9, <1>10, <1>11, <1>12, <1>13,
     <1>14, <1>15 DEF Next

\* Every step keeps the calls of drawStencil in order.
LEMMA NextNested ==
    ASSUME Types, Nested, [Next]_vars
    PROVE  Nested'
<1> SUFFICES ASSUME call'.stage \in InMasks
             PROVE  Nested'
  BY DEF Nested
<1> USE DEF FrameOK, Within, MaskOf, IsMasked, Masks
<1>0. call \in Calls
  BY DEF Types
<1>1. ASSUME UNCHANGED <<model, order>>, call'.next = call.next, call'.stage = "masks",
             call'.stack # <<>>, call'.stack[1].mesh = Current,
             \A d \in 1 .. Len(call'.stack) :
                FrameOK(call'.stack[d], d < Len(call'.stack))
      PROVE  Nested'
  BY <1>1 DEF Nested, order, Current
<1>2. CASE BeginMasks
  <2>1. call'.stack = <<[mesh |-> Current, mask |-> 1, inner |-> FALSE]>>
    BY <1>0, <1>2 DEF BeginMasks, Calls
  <2>2. call'.stage = "masks" /\ call'.next = call.next /\ UNCHANGED <<model, order>>
    BY <1>0, <1>2 DEF BeginMasks, Calls
  <2>3. Current \in Drawables /\ model \in ModelShapes
    BY <1>2, CurrentIs DEF BeginMasks, Types
  <2>4. Len(model.masks[Current]) \in Nat
    BY <2>3, MasksAre
  <2>5. Len(call'.stack) = 1 /\ call'.stack # <<>>
        /\ call'.stack[1] = [mesh |-> Current, mask |-> 1, inner |-> FALSE]
    BY <2>1
  <2>6. \A d \in 1 .. Len(call'.stack) : FrameOK(call'.stack[d], d < Len(call'.stack))
    BY <2>4, <2>5
  <2> QED
    BY <1>1, <2>2, <2>5, <2>6
<1>3. CASE EnterMask
  <2>1. /\ Depth \in Nat \ {0} /\ Depth = Len(call.stack) /\ Frame = call.stack[Depth]
        /\ Mask \in Drawables
    BY <1>3, FrameIs DEF EnterMask, AtMask, At, InMasks
  <2>2. /\ call.stage = "masks" /\ Within(Frame) /\ IsMasked(Mask)
        /\ UNCHANGED <<model, order>>
    BY <1>3 DEF EnterMask, AtMask, At
  <2>3. /\ call.stack[1].mesh = Current
        /\ \A d \in 1 .. Depth : FrameOK(call.stack[d], d < Depth)
    BY <2>1, <2>2 DEF Nested, InMasks
  <2>4. /\ call'.stage = "masks" /\ call'.next = call.next /\ Len(call'.stack) = Depth + 1
        /\ call'.stack[Depth + 1] = [mesh |-> Mask, mask |-> 1, inner |-> FALSE]
    BY <1>3, EnterIs
  <2>5. \A d \in 1 .. Depth :
            /\ call'.stack[d].mesh = call.stack[d].mesh
            /\ call'.stack[d].mask = call.stack[d].mask
            /\ call'.stack[d].inner = IF d = Depth THEN TRUE ELSE call.stack[d].inner
    BY <1>3, EnterIs
  <2>6. ASSUME NEW d \in 1 .. Len(call'.stack)
        PROVE  FrameOK(call'.stack[d], d < Len(call'.stack))
    <3>1. CASE d \in 1 .. Depth
      <4>1. FrameOK(call.stack[d], d < Depth)
        BY <2>3, <3>1
      <4>2. /\ call'.stack[d].mesh = call.stack[d].mesh
            /\ call'.stack[d].mask = call.stack[d].mask
            /\ call'.stack[d].inner = IF d = Depth THEN TRUE ELSE call.stack[d].inner
        BY <2>5, <3>1
      <4>3. d = Depth => Within(call.stack[d]) /\ IsMasked(MaskOf(call.stack[d]))
        BY <2>1, <2>2 DEF Mask
      <4>4. d # Depth => d < Depth
        BY <2>1, <3>1
      <4> QED
        BY <4>1, <4>2, <4>3, <4>4
    <3>2. CASE d = Depth + 1
      <4>1. Len(model.masks[Mask]) \in Nat
        BY <2>1, MasksAre DEF Types
      <4>2. /\ call'.stack[d].mesh = Mask /\ call'.stack[d].mask = 1
            /\ call'.stack[d].inner = FALSE
        BY <2>4, <3>2
      <4>3. ~(d < Len(call'.stack))
        BY <2>1, <2>4, <3>2
      <4> QED
        BY <4>1, <4>2, <4>3
    <3> QED
      BY <2>1, <2>4, <3>1, <3>2
  <2>7. call'.stack # <<>>
    <3>1. Len(call'.stack) # 0
      BY <2>1, <2>4
    <3> QED
      BY <3>1
  <2>8. call'.stack[1].mesh = Current
    <3>1. 1 \in 1 .. Depth
      BY <2>1
    <3> QED
      BY <2>3, <2>5, <3>1
  <2> QED
    BY <1>1, <2>2, <2>4, <2>6, <2>7, <2>8
<1>4. CASE TestMask
  <2>1. call'.stage = "stencil" /\ call'.next = call.next /\ call'.stack = call.stack
    BY <1>0, <1>4, GoIs DEF TestMask, Stages
  <2> QED
    BY <1>4, <2>1
    DEF TestMask, AtMask, At, InMasks, Nested, order, Frame, Depth, Mask, Current
<1>5. CASE WriteMask
  <2>1. /\ Depth \in Nat \ {0} /\ Depth = Len(call.stack) /\ Frame = call.stack[Depth]
        /\ Frame.mesh \in Drawables /\ Frame.mask \in Nat
    BY <1>5, FrameIs DEF WriteMask, At, InMasks, Frames
  <2>2. /\ call.stage = "stencil" /\ UNCHANGED <<model, order>>
    BY <1>5 DEF WriteMask, At
  <2>3. /\ call.stack[1].mesh = Current /\ Within(Frame)
        /\ \A d \in 1 .. Depth : FrameOK(call.stack[d], d < Depth)
    BY <2>1, <2>2 DEF Nested, InMasks
  <2>4. /\ call'.stage = "masks" /\ call'.next = call.next /\ Len(call'.stack) = Depth
        /\ call'.stack[Depth].mask = call.stack[Depth].mask + 1
        /\ call'.stack[Depth].inner = FALSE
    BY <1>5, WriteIs
  <2>5. \A d \in 1 .. Depth :
            /\ call'.stack[d].mesh = call.stack[d].mesh
            /\ d # Depth => call'.stack[d] = call.stack[d]
    BY <1>5, WriteIs
  <2>6. Len(model.masks[Frame.mesh]) \in Nat
    BY <2>1, MasksAre DEF Types
  <2>7. ASSUME NEW d \in 1 .. Len(call'.stack)
        PROVE  FrameOK(call'.stack[d], d < Len(call'.stack))
    <3>1. CASE d # Depth
      <4>1. FrameOK(call.stack[d], d < Depth) /\ call'.stack[d] = call.stack[d]
        BY <2>3, <2>4, <2>5, <3>1
      <4> QED
        BY <2>4, <4>1
    <3>2. CASE d = Depth
      <4>1. /\ call'.stack[d].mesh = Frame.mesh /\ call'.stack[d].mask = Frame.mask + 1
            /\ call'.stack[d].inner = FALSE
        BY <2>1, <2>4, <2>5, <3>2
      <4>2. Frame.mask + 1 <= Len(model.masks[Frame.mesh]) + 1
        BY <2>1, <2>3, <2>6
      <4>3. ~(d < Len(call'.stack))
        BY <2>1, <2>4, <3>2
      <4> QED
        BY <4>1, <4>2, <4>3
    <3> QED
      BY <3>1, <3>2
  <2>8. call'.stack # <<>>
    <3>1. Len(call'.stack) # 0
      BY <2>1, <2>4
    <3> QED
      BY <3>1
  <2>9. call'.stack[1].mesh = Current
    BY <2>1, <2>3, <2>5
  <2> QED
    BY <1>1, <2>2, <2>4, <2>7, <2>8, <2>9
<1>6. CASE ReturnFromMasks
  <2>1. Depth \in Nat \ {0} /\ Depth = Len(call.stack)
    BY <1>6, FrameIs DEF ReturnFromMasks, At, InMasks
  <2>2. call.stage = "masks" /\ UNCHANGED <<model, order>>
    BY <1>6 DEF ReturnFromMasks, At
  <2>3. /\ call.stack[1].mesh = Current
        /\ \A d \in 1 .. Depth : FrameOK(call.stack[d], d < Depth)
    BY <2>1, <2>2 DEF Nested, InMasks
  <2>4. /\ call'.stage = IF Depth = 1 THEN "test" ELSE "masks"
        /\ call'.next = call.next /\ Len(call'.stack) = Depth - 1
    BY <1>6, ReturnIs
  <2>5. \A d \in 1 .. Depth - 1 : call'.stack[d] = call.stack[d]
    BY <1>6, ReturnIs
  <2>6. Depth # 1 /\ call'.stage = "masks"
    BY <2>4 DEF InMasks
  <2>7. ASSUME NEW d \in 1 .. Len(call'.stack)
        PROVE  FrameOK(call'.stack[d], d < Len(call'.stack))
    <3>1. d \in 1 .. Depth /\ d < Depth /\ call'.stack[d] = call.stack[d]
      BY <2>1, <2>4, <2>5
    <3>2. FrameOK(call.stack[d], d < Depth)
      BY <2>3, <3>1
    <3> QED
      BY <3>1, <3>2
  <2>8. call'.stack # <<>>
    <3>1. Len(call'.stack) # 0
      BY <2>1, <2>4, <2>6
    <3> QED
      BY <3>1
  <2>9. call'.stack[1].mesh = Current
    <3>1. 1 \in 1 .. Depth - 1
      BY <2>1, <2>6, AboveOne
    <3> QED
      BY <2>3, <2>5, <3>1
  <2> QED
    BY <1>1, <2>2, <2>4, <2>6, <2>7, <2>8, <2>9
<1>7. CASE call.stage \in InMasks /\ UNCHANGED <<model, order, call>>
  BY <1>7 DEF Nested, order, Frame, Depth, Mask, Current
<1> QED
  BY <1>2, <1>3, <1>4, <1>5, <1>6, <1>7, IntoMasks

\* Every step keeps the drawables in their order.
LEMMA NextInOrder ==
    ASSUME Types, Nested, InOrder, [Next]_vars
    PROVE  InOrder'
<1>0. call \in Calls /\ drawn \in Seq(Marks) /\ call.next \in 1 .. (Meshes + 1)
      /\ Meshes \in Nat \ {0} /\ Len(drawn) \in Nat
  BY MeshesAssumption DEF Types, Calls
<1> USE DEF Drawing
\* Steps that draw nothing, and end draw or stay at the same drawable
<1>A. ASSUME UNCHANGED <<order, drawn>>, call'.stage = "idle"
      PROVE  InOrder'
  BY <1>A DEF InOrder, order
<1>B. ASSUME UNCHANGED <<order, drawn>>, call'.next = call.next,
             call.stage \in Drawing, call'.stage \in Drawing
      PROVE  InOrder'
  BY <1>B DEF InOrder, order
\* Steps that start anew
<1>C. ASSUME drawn' = <<>>, call'.stage \in {"idle", "vertices", "clear"}, call'.next = 1,
             meshData' = meshData, settled' = settled
      PROVE  InOrder'
  <2>1. Len(drawn') = 0 /\ \A i \in 1 .. (call'.next - 1) : FALSE
    BY <1>C
  <2> QED
    BY <1>0, <1>C, <2>1 DEF InOrder
<1>1. ASSUME NEW g \in GameStates, SetGameState(g)
      PROVE  InOrder'
  <2>1. Len(drawn') = 0 /\ call'.stage = "idle"
    BY <1>1 DEF SetGameState, At
  <2> QED
    BY <1>0, <1>1, <2>1 DEF SetGameState, InOrder, order
<1>2. ASSUME NEW o \in RenderOrders, UpdateModel(o)
      PROVE  InOrder'
  <2>1. call'.stage = "vertices" /\ call'.next = 1
    BY <1>2, IdleIs DEF UpdateModel, Calls
  <2> QED
    BY <1>2, <1>C, <2>1 DEF UpdateModel
<1>20. CASE SetVertices
  <2>1. /\ call.stage = "vertices" /\ call.next <= Meshes /\ Current \in Drawables
        /\ UNCHANGED <<meshData, modelOrder, settled, drawn>>
    BY <1>20, CurrentIs DEF SetVertices, At
  <2>2. CASE call' = Idle
    BY <2>1, <2>2, IdleIs DEF InOrder
  <2>3. CASE call' = [call EXCEPT !.next = call.next + 1]
    <3>1. call'.stage = "vertices" /\ call'.next = call.next + 1
      BY <1>0, <2>1, <2>3 DEF Calls
    <3>2. ASSUME NEW i \in 1 .. (call'.next - 1)
          PROVE  renderOrder'[meshData[i]] = modelOrder[meshData[i]]
      <4>0. i \in Drawables
        BY <1>0, <2>1, <3>1 DEF Drawables
      <4>1. meshData[i] \in Drawables
        BY <4>0 DEF Types, Orders
      <4>2. renderOrder'[meshData[i]] = IF meshData[i] = Current THEN modelOrder[Current]
                                        ELSE renderOrder[meshData[i]]
        BY <1>20, <2>1, <4>1 DEF SetVertices, Types
      <4>3. CASE i = call.next
        BY <4>2, <4>3 DEF Current
      <4>4. CASE i \in 1 .. (call.next - 1)
        BY <2>1, <4>2, <4>4 DEF InOrder
      <4> QED
        BY <1>0, <3>1, <4>3, <4>4
    <3> QED
      BY <2>1, <3>1, <3>2 DEF InOrder
  <2> QED
    BY <1>20, <2>2, <2>3 DEF SetVertices
<1>21. CASE Sort
  <2>1. /\ call.stage = "vertices" /\ call.next > Meshes /\ call' = Idle
        /\ meshData' \in Orders /\ settled' = modelOrder /\ drawn' = drawn
        /\ \A i, j \in Drawables :
                i < j => renderOrder[meshData'[i]] <= renderOrder[meshData'[j]]
    BY <1>21 DEF Sort, At
  <2>2. \A m \in Drawables : renderOrder[m] = modelOrder[m]
    <3>1. SUFFICES ASSUME NEW m \in Drawables PROVE renderOrder[m] = modelOrder[m]
      OBVIOUS
    <3>2. PICK i \in Drawables : meshData[i] = m
      BY OrdersOnto DEF Types
    <3>3. i \in 1 .. (call.next - 1)
      BY <1>0, <2>1 DEF Drawables
    <3> QED
      BY <2>1, <3>2, <3>3 DEF InOrder
  <2>3. ASSUME NEW i \in Drawables, NEW j \in Drawables, i < j
        PROVE  settled'[meshData'[i]] < settled'[meshData'[j]]
    <3>1. meshData'[i] \in Drawables /\ meshData'[j] \in Drawables /\ meshData'[i] # meshData'[j]
      BY <2>1, <2>3 DEF Orders, Drawables
    <3>2. modelOrder[meshData'[i]] <= modelOrder[meshData'[j]]
      BY <2>1, <2>2, <2>3, <3>1
    <3>3. modelOrder[meshData'[i]] # modelOrder[meshData'[j]]
      BY <3>1 DEF Types, Orders
    <3>4. modelOrder[meshData'[i]] \in Nat /\ modelOrder[meshData'[j]] \in Nat
      BY <3>1 DEF Types, Orders, Drawables
    <3> QED
      BY <2>1, <3>2, <3>3, <3>4
  <2>4. drawn' = <<>> /\ Len(drawn') = 0 /\ call'.stage = "idle"
    BY <2>1, IdleIs DEF InOrder
  <2> QED
    BY <1>0, <2>3, <2>4 DEF InOrder
<1>3. CASE Begin
  <2>1. call'.stage = "clear" /\ call'.next = 1
    BY <1>3, IdleIs DEF Begin, Calls
  <2> QED
    BY <1>3, <1>C, <2>1 DEF Begin, order
<1>4. CASE Clear
  BY <1>0, <1>4, <1>B, GoIs DEF Clear, At, Stages
<1>5. CASE BeginMasks
  BY <1>0, <1>5, <1>B DEF BeginMasks, At, Calls
<1>6. CASE EnterMask
  BY <1>6, <1>B, EnterIs DEF EnterMask, AtMask, At
<1>7. CASE TestInnerMask
  BY <1>7, <1>A, IdleIs DEF TestInnerMask
<1>8. CASE TestMask
  BY <1>0, <1>8, <1>B, GoIs DEF TestMask, AtMask, At, Stages
<1>9. CASE WriteMask
  BY <1>9, <1>B, WriteIs DEF WriteMask, At
<1>10. CASE ReturnFromMasks
  BY <1>10, <1>B, ReturnIs DEF ReturnFromMasks, At
<1>11. CASE TestEqual
  BY <1>0, <1>11, <1>B, GoIs DEF TestEqual, At, Stages
<1>12. CASE RestoreShader
  BY <1>0, <1>12, <1>B, GoIs DEF RestoreShader, At, Stages
<1>13. CASE SetBlend
  <2>1. call'.stage = "draw" /\ call'.next = call.next
    BY <1>0, <1>13 DEF SetBlend, Calls
  <2>2. call.stage \in Drawing /\ UNCHANGED <<order, drawn>>
    BY <1>13 DEF SetBlend, At
  <2> QED
    BY <1>B, <2>1, <2>2
<1>14. CASE DrawMesh
  <2>1. call.next <= Meshes /\ Current \in Drawables /\ call.stage = "draw"
    BY <1>14, CurrentIs DEF DrawMesh, At, Types, Choosing
  <2> DEFINE mark == [mesh |-> Current, func |-> gfx.func, shader |-> gfx.shader,
                      pixels |-> {p \in model.covers[Current] : Passes(p)}]
  <2>2. mark \in Marks /\ mark.mesh = Current
    BY <2>1, MasksAre DEF Types, GfxStates, Marks, Blends
  <2>3. drawn' = Append(drawn, mark)
    BY <1>14 DEF DrawMesh
  <2> HIDE DEF mark
  <2>4. /\ Len(drawn') = Len(drawn) + 1 /\ drawn'[Len(drawn) + 1] = mark
        /\ \A i \in 1 .. Len(drawn) : drawn'[i] = drawn[i]
    BY <1>0, <2>2, <2>3, AppendProperties
  <2>5. Len(drawn) = call.next - 1 /\ Len(drawn') = call.next
    BY <1>0, <2>1, <2>4 DEF InOrder
  <2>6. \A i \in 1 .. Len(drawn') : drawn'[i].mesh = meshData[i]
    <3>1. SUFFICES ASSUME NEW i \in 1 .. Len(drawn') PROVE drawn'[i].mesh = meshData[i]
      OBVIOUS
    <3>2. CASE i \in 1 .. Len(drawn)
      BY <2>4, <3>2 DEF InOrder
    <3>3. CASE i = Len(drawn) + 1
      <4>1. i = call.next
        BY <1>0, <2>5, <3>3
      <4> QED
        BY <2>2, <2>4, <3>3, <4>1 DEF Current
    <3> QED
      BY <1>0, <2>4, <3>2, <3>3
  <2>7. \/ call'.stage = "unset" /\ call'.next = call.next
        \/ call'.stage = "mesh" /\ call'.next = call.next + 1
    BY <1>0, <1>14, <2>1, GoIs, NextMeshIs DEF DrawMesh, Stages
  <2> QED
    BY <1>0, <1>14, <2>1, <2>5, <2>6, <2>7 DEF DrawMesh, InOrder, order
<1>15. CASE UnsetTest
  <2>1. call'.stage = "cleanup" /\ call'.next = call.next
    BY <1>0, <1>15, GoIs DEF UnsetTest, Stages
  <2> QED
    BY <1>15, <2>1 DEF UnsetTest, At, InOrder, order
<1>16. CASE ClearMasks
  <2>1. call.next <= Meshes /\ call.stage = "cleanup"
    BY <1>16 DEF ClearMasks, At, Types, Choosing
  <2>2. call'.stage = "mesh" /\ call'.next = call.next + 1
    BY <1>0, <1>16, <2>1, NextMeshIs DEF ClearMasks
  <2> QED
    BY <1>0, <1>16, <2>1, <2>2 DEF ClearMasks, InOrder, order
<1>17. CASE Return
  BY <1>17, <1>A, IdleIs DEF Return
<1>18. CASE Fail
  BY <1>18, <1>A, IdleIs DEF Fail
<1>19. CASE UNCHANGED vars
  BY <1>19 DEF vars, InOrder, order
<1> QED
  BY <1>1, <1>2, <1>3, <1>4, <1>5, <1>6, <1>7, <1>8, <1>9, <1>10, <1>11, <1>12, <1>13,
     <1>14, <1>15, <1>16, <1>17, <1>18, <1>19, <1>20, <1>21 DEF Next

-----------------------------------------------------------------------------
(* The stencil buffer                                                      *)

\* Writing the next mask of a drawable.
LEMMA OneMask ==
    ASSUME Types, NEW m \in Drawables, NEW k \in 1 .. Len(Masks(m))
    PROVE  [p \in Pixels |-> IF p \in model.covers[Masks(m)[k]] THEN 1
                             ELSE Stencil(model, m, k - 1)[p]] = Stencil(model, m, k)
<1>1. Len(Masks(m)) \in Nat
  BY MasksAre DEF Types
<1>2. ASSUME NEW p \in Pixels
      PROVE  (IF p \in model.covers[Masks(m)[k]] THEN 1 ELSE Stencil(model, m, k - 1)[p])
                = Stencil(model, m, k)[p]
  <2>1. \A j : j \in 1 .. k <=> j \in 1 .. (k - 1) \/ j = k
    BY <1>1
  <2>2. (\E j \in 1 .. k : p \in model.covers[Masks(m)[j]]) <=>
            \/ \E j \in 1 .. (k - 1) : p \in model.covers[Masks(m)[j]]
            \/ p \in model.covers[Masks(m)[k]]
    BY <2>1
  <2> QED
    BY <2>2 DEF Stencil, Masks
<1> QED
  BY <1>2 DEF Stencil

\* Before the first mask the buffer is empty.
LEMMA NoMask ==
    ASSUME NEW shape, NEW m
    PROVE  Stencil(shape, m, 0) = Empty
<1>1. \A j : j \notin 1 .. 0
  OBVIOUS
<1> QED
  BY <1>1 DEF Stencil, Empty

\* Every step leaves in the buffer the masks so far.
LEMMA NextBuffered ==
    ASSUME Types, Nested, Buffered, State, [Next]_vars
    PROVE  Buffered'
<1>0. call \in Calls
  BY DEF Types
<1>A. ASSUME call'.stage \in {"idle", "vertices", "clear", "unset", "cleanup"}
      PROVE  Buffered'
  BY <1>A DEF Buffered, InMasks
<1>1. ASSUME NEW g \in GameStates, SetGameState(g)
      PROVE  Buffered'
  BY <1>1, <1>A DEF SetGameState, At
<1>2. ASSUME NEW o \in RenderOrders, UpdateModel(o)
      PROVE  Buffered'
  BY <1>2, <1>A, IdleIs DEF UpdateModel, Calls
<1>20. CASE SetVertices
  BY <1>0, <1>20, <1>A, IdleIs DEF SetVertices, At, Calls
<1>21. CASE Sort
  BY <1>21, <1>A, IdleIs DEF Sort
<1>3. CASE Begin
  BY <1>3, <1>A, IdleIs DEF Begin, Calls
<1>4. CASE Clear
  <2>1. call'.stage = "mesh"
    BY <1>0, <1>4, GoIs DEF Clear, Stages
  <2> QED
    BY <1>4, <2>1 DEF Clear, ClearStencil, Empty, Buffered, InMasks
<1>5. CASE BeginMasks
  <2>1. /\ call'.stage = "masks" /\ call'.next = call.next /\ call.stage = "mesh"
        /\ call'.stack = <<[mesh |-> Current, mask |-> 1, inner |-> FALSE]>>
    BY <1>0, <1>5 DEF BeginMasks, At, Calls
  <2>2. buffer' = Empty
    BY <1>5, <2>1 DEF BeginMasks, Buffered
  <2>3. call'.stack[1].mask - 1 = 0
    BY <2>1
  <2> QED
    BY <2>1, <2>2, <2>3, NoMask DEF Buffered, InMasks
<1>6. CASE EnterMask
  <2>1. Depth \in Nat \ {0} /\ call.stage = "masks"
    BY <1>6, FrameIs DEF EnterMask, AtMask, At, InMasks
  <2>2. /\ call'.stage = "masks" /\ call'.next = call.next
        /\ call'.stack[1].mask = call.stack[1].mask
        /\ ~call'.stack[1].inner => ~call.stack[1].inner
    <3>1. 1 \in 1 .. Depth
      BY <2>1
    <3>2. /\ call'.stage = "masks" /\ call'.next = call.next
          /\ \A d \in 1 .. Depth :
                /\ call'.stack[d].mask = call.stack[d].mask
                /\ call'.stack[d].inner = IF d = Depth THEN TRUE ELSE call.stack[d].inner
      BY <1>6, EnterIs
    <3> QED
      BY <3>1, <3>2
  <2>3. UNCHANGED <<model, order, buffer>> /\ Buffered
    BY <1>6 DEF EnterMask
  <2> QED
    BY <2>1, <2>2, <2>3, CurrentStays DEF Buffered, InMasks
<1>7. CASE TestInnerMask
  BY <1>7, <1>A, IdleIs DEF TestInnerMask
<1>8. CASE TestMask
  <2>1. call'.stage = "stencil" /\ call'.next = call.next /\ call'.stack = call.stack
    BY <1>0, <1>8, GoIs DEF TestMask, Stages
  <2>2. UNCHANGED <<model, order, buffer>> /\ Buffered /\ call.stage = "masks"
    BY <1>8 DEF TestMask, AtMask, At
  <2> QED
    BY <2>1, <2>2, CurrentStays DEF Buffered, InMasks
<1>9. CASE WriteMask
  <2>1. /\ Depth \in Nat \ {0} /\ Depth = Len(call.stack) /\ Frame = call.stack[Depth]
        /\ Frame.mesh \in Drawables /\ Frame.mask \in Nat \ {0} /\ call.stage = "stencil"
    BY <1>9, FrameIs DEF WriteMask, At, InMasks, Frames
  <2>2. /\ call'.stage = "masks" /\ call'.next = call.next
        /\ call'.stack[Depth].mask = Frame.mask + 1
        /\ \A d \in 1 .. Depth : d # Depth => call'.stack[d] = call.stack[d]
    BY <1>9, <2>1, WriteIs
  <2>3. CASE Depth # 1
    <3>1. 1 \in 1 .. Depth /\ 1 # Depth /\ 1 < Depth
      BY <2>1, <2>3, AboveOne
    <3>2. FrameOK(call.stack[1], 1 < Depth)
      BY <2>1, <3>1 DEF Nested, InMasks
    <3>3. call'.stack[1].inner
      BY <2>2, <3>1, <3>2 DEF FrameOK
    <3> QED
      BY <2>2, <3>3 DEF Buffered, InMasks
  <2>4. CASE Depth = 1
    <3>1. /\ Within(Frame) /\ ~IsMasked(Mask) /\ Frame.mesh = Current
          /\ FrameOK(Frame, 1 < Depth)
      BY <2>1, <2>4 DEF Nested, InMasks
    <3>2. ~Frame.inner
      BY <3>1 DEF FrameOK, MaskOf, Mask
    <3>3. buffer = Stencil(model, Current, Frame.mask - 1) /\ gfx.test.mode # "equal"
      BY <1>9, <2>1, <2>4, <3>2 DEF WriteMask, Buffered, State, InMasks
    <3>4. Frame.mask \in 1 .. Len(Masks(Current)) /\ Current \in Drawables
      BY <2>1, <3>1, MasksAre DEF Types, Within
    <3>5. buffer' = [p \in Pixels |-> IF p \in model.covers[Masks(Current)[Frame.mask]] THEN 1
                                      ELSE Stencil(model, Current, Frame.mask - 1)[p]]
      BY <1>9, <2>4, <3>1, <3>3 DEF WriteMask, Passes, Mask
    <3>6. buffer' = Stencil(model, Current, Frame.mask)
      BY <3>4, <3>5, OneMask
    <3>7. call'.stack[1].mask - 1 = Frame.mask
      BY <2>1, <2>2, <2>4
    <3>8. UNCHANGED <<model, order>>
      BY <1>9 DEF WriteMask
    <3> QED
      BY <2>2, <3>6, <3>7, <3>8, CurrentStays DEF Buffered, InMasks
  <2> QED
    BY <2>3, <2>4
<1>10. CASE ReturnFromMasks
  <2>1. /\ Depth \in Nat \ {0} /\ Depth = Len(call.stack) /\ Frame = call.stack[Depth]
        /\ Frame.mesh \in Drawables /\ Frame.mask \in Nat \ {0} /\ call.stage = "masks"
    BY <1>10, FrameIs DEF ReturnFromMasks, At, InMasks, Frames
  <2>2. /\ call'.stage = IF Depth = 1 THEN "test" ELSE "masks"
        /\ call'.next = call.next
        /\ \A d \in 1 .. Depth - 1 : call'.stack[d] = call.stack[d]
    BY <1>10, ReturnIs
  <2>3. UNCHANGED <<model, order, buffer>> /\ Buffered /\ ~Within(Frame)
    BY <1>10, <2>1, MasksAre DEF ReturnFromMasks, Within, Types
  <2>4. CASE Depth # 1
    <3>1. 1 \in 1 .. Depth - 1 /\ 1 \in 1 .. Depth /\ 1 < Depth
      BY <2>1, <2>4, AboveOne
    <3>2. FrameOK(call.stack[1], 1 < Depth)
      BY <2>1, <3>1 DEF Nested, InMasks
    <3>3. call'.stack[1].inner
      BY <2>2, <3>1, <3>2 DEF FrameOK
    <3> QED
      BY <2>2, <2>4, <3>3 DEF Buffered, InMasks
  <2>5. CASE Depth = 1
    <3>1. Frame.mesh = Current /\ FrameOK(Frame, 1 < Depth)
      BY <2>1, <2>5 DEF Nested, InMasks
    <3>2. ~Frame.inner
      BY <2>3, <3>1 DEF FrameOK
    <3>3. buffer = Stencil(model, Current, Frame.mask - 1)
      BY <2>1, <2>3, <2>5, <3>2 DEF Buffered, InMasks
    <3>4. Len(Masks(Current)) \in Nat
      BY <2>1, <3>1, MasksAre DEF Types
    <3>5. Frame.mask - 1 = Len(Masks(Current))
      BY <2>1, <2>3, <3>1, <3>4 DEF FrameOK, Within
    <3> QED
      BY <2>2, <2>3, <2>5, <3>3, <3>5, CurrentStays DEF Buffered, InMasks
  <2> QED
    BY <2>4, <2>5
<1>11. CASE TestEqual
  <2>1. call'.stage = "shader" /\ call'.next = call.next
    BY <1>0, <1>11, GoIs DEF TestEqual, Stages
  <2>2. UNCHANGED <<model, order, buffer>> /\ Buffered /\ call.stage = "test"
    BY <1>11 DEF TestEqual, At
  <2> QED
    BY <2>1, <2>2, CurrentStays DEF Buffered, InMasks
<1>12. CASE RestoreShader
  <2>1. call'.stage = "blend" /\ call'.next = call.next
    BY <1>0, <1>12, GoIs DEF RestoreShader, Stages
  <2>2. UNCHANGED <<model, order, buffer>> /\ Buffered /\ call.stage = "shader"
    BY <1>12 DEF RestoreShader, At
  <2>3. IsMasked(Current)
    BY <2>2 DEF Types, OfMasked
  <2> QED
    BY <2>1, <2>2, <2>3, CurrentStays DEF Buffered, InMasks
<1>13. CASE SetBlend
  <2>1. call'.stage = "draw" /\ call'.next = call.next
    BY <1>0, <1>13 DEF SetBlend, Calls
  <2>2. UNCHANGED <<model, order, buffer>> /\ Buffered
    BY <1>13 DEF SetBlend
  <2>3. call.stage = "blend" \/ (call.stage = "mesh" /\ ~IsMasked(Current))
    BY <1>13 DEF SetBlend, At
  <2> QED
    BY <2>1, <2>2, <2>3, CurrentStays DEF Buffered, InMasks
<1>14. CASE DrawMesh
  <2>1. call.stage = "draw" /\ call.next <= Meshes /\ buffer' = buffer /\ Buffered
    BY <1>14 DEF DrawMesh, At, Types, Choosing
  <2>2. CASE IsMasked(Current)
    BY <1>0, <1>14, <1>A, <2>2, GoIs DEF DrawMesh, Stages
  <2>3. CASE ~IsMasked(Current)
    <3>1. call'.stage = "mesh"
      BY <1>0, <1>14, <2>1, <2>3, NextMeshIs DEF DrawMesh
    <3> QED
      BY <2>1, <2>3, <3>1 DEF Buffered, InMasks
  <2> QED
    BY <2>2, <2>3
<1>15. CASE UnsetTest
  BY <1>0, <1>15, <1>A, GoIs DEF UnsetTest, Stages
<1>16. CASE ClearMasks
  <2>1. call'.stage = "mesh"
    BY <1>0, <1>16 DEF ClearMasks, NextMesh, Calls
  <2> QED
    BY <1>16, <2>1 DEF ClearMasks, ClearStencil, Empty, Buffered, InMasks
<1>17. CASE Return
  BY <1>17, <1>A, IdleIs DEF Return
<1>18. CASE Fail
  BY <1>18, <1>A, IdleIs DEF Fail
<1>19. CASE UNCHANGED vars
  <2>1. UNCHANGED <<model, order, buffer, call>> /\ Buffered
    BY <1>19 DEF vars, order
  <2> QED
    BY <2>1, CurrentStays DEF Buffered
<1> QED
  BY <1>1, <1>2, <1>3, <1>4, <1>5, <1>6, <1>7, <1>8, <1>9, <1>10, <1>11, <1>12, <1>13,
     <1>14, <1>15, <1>16, <1>17, <1>18, <1>19, <1>20, <1>21 DEF Next

-----------------------------------------------------------------------------
(* LOVE's graphics state                                                   *)

\* Every step keeps track of LOVE's graphics state.
LEMMA NextState ==
    ASSUME Types, Nested, Buffered, State, [Next]_vars
    PROVE  State'
<1>0. call \in Calls /\ gfx \in GfxStates
  BY DEF Types
<1> USE DEF Resting, Masking, InMasks
\* Outside draw the state is the game's.
<1>A. ASSUME call'.stage \in Resting
      PROVE  State'
  BY <1>A DEF State
\* Steps at one drawable
<1>B. ASSUME UNCHANGED <<model, order, before>>, call'.next = call.next
      PROVE  /\ TestOf(call.next - 1)' = TestOf(call.next - 1)
             /\ Current' = Current /\ IsMasked(Current)' = IsMasked(Current)
  BY <1>B, TestStays, CurrentStays
<1>1. ASSUME NEW g \in GameStates, SetGameState(g)
      PROVE  State'
  BY <1>1, <1>A DEF SetGameState, At
<1>2. ASSUME NEW o \in RenderOrders, UpdateModel(o)
      PROVE  State'
  BY <1>2, <1>A, IdleIs DEF UpdateModel, Calls
<1>20. CASE SetVertices
  BY <1>0, <1>20, <1>A, IdleIs DEF SetVertices, At, Calls
<1>21. CASE Sort
  BY <1>21, <1>A, IdleIs DEF Sort
<1>3. CASE Begin
  <2>1. /\ call'.stage = "clear" /\ call'.savedBlend = gfx.blend /\ call'.cached = "normal"
        /\ call'.next = 1
    BY <1>3, IdleIs DEF Begin, Calls
  <2>2. gfx'.func = "normal" /\ gfx'.shader = gfx.shader /\ gfx'.test = gfx.test
    BY <1>0, <1>3, SetBlendModeIs DEF Begin, Blends, BlendModes
  <2>3. before' = gfx
    BY <1>3 DEF Begin
  <2>4. \A j \in 1 .. (call'.next - 1) : FALSE
    BY <2>1
  <2>5. TestOf(call.next - 1)' = gfx.test
    BY <2>3, <2>4 DEF TestOf, Ended
  <2> QED
    BY <2>1, <2>2, <2>3, <2>5 DEF State, BlendFunc
<1>4. CASE Clear
  <2>1. call.stage = "clear" /\ UNCHANGED <<model, order, gfx, before>>
    BY <1>4 DEF Clear, At
  <2>2. /\ call'.stage = "mesh" /\ call'.savedBlend = call.savedBlend
        /\ call'.cached = call.cached /\ call'.next = call.next
    BY <1>0, <1>4, GoIs DEF Clear, Stages
  <2> QED
    BY <1>B, <2>1, <2>2 DEF State
<1>5. CASE BeginMasks
  <2>1. call.stage = "mesh" /\ UNCHANGED before
    BY <1>5 DEF BeginMasks, At
  <2>2. /\ call'.stage = "masks" /\ call'.savedBlend = call.savedBlend
        /\ call'.cached = call.cached /\ call'.savedShader = gfx.shader
    BY <1>0, <1>5 DEF BeginMasks, Calls
  <2>3. gfx'.func = gfx.func
    BY <1>0, <1>5, SetShaderIs DEF BeginMasks, Shaders
  <2> QED
    BY <2>1, <2>2, <2>3 DEF State
<1>6. CASE EnterMask
  <2>1. call.stage = "masks" /\ UNCHANGED <<gfx, before>>
    BY <1>6 DEF EnterMask, AtMask, At
  <2>2. /\ call'.stage = "masks" /\ call'.savedBlend = call.savedBlend
        /\ call'.cached = call.cached /\ call'.savedShader = call.savedShader
    BY <1>6, EnterIs
  <2> QED
    BY <2>1, <2>2 DEF State
<1>7. CASE TestInnerMask
  BY <1>7, <1>A, IdleIs DEF TestInnerMask
<1>8. CASE TestMask
  <2>1. call.stage = "masks" /\ UNCHANGED before
    BY <1>8 DEF TestMask, AtMask, At
  <2>2. /\ call'.stage = "stencil" /\ call'.savedBlend = call.savedBlend
        /\ call'.cached = call.cached /\ call'.savedShader = call.savedShader
    BY <1>0, <1>8, GoIs DEF TestMask, Stages
  <2>3. /\ gfx'.func = gfx.func /\ gfx'.shader = gfx.shader
        /\ gfx'.test = [mode |-> "always", value |-> 0]
    BY <1>0, <1>8, SetStencilTestIs DEF TestMask
  <2>4. gfx'.test.mode # "equal"
    BY <2>3
  <2> QED
    BY <2>1, <2>2, <2>3, <2>4 DEF State
<1>9. CASE WriteMask
  <2>1. call.stage = "stencil" /\ UNCHANGED <<gfx, before>>
    BY <1>9 DEF WriteMask, At
  <2>2. /\ call'.stage = "masks" /\ call'.savedBlend = call.savedBlend
        /\ call'.cached = call.cached /\ call'.savedShader = call.savedShader
    BY <1>9, WriteIs
  <2> QED
    BY <2>1, <2>2 DEF State
<1>10. CASE ReturnFromMasks
  <2>1. call.stage = "masks" /\ UNCHANGED <<gfx, before>>
    BY <1>10 DEF ReturnFromMasks, At
  <2>2. /\ call'.stage \in {"masks", "test"} /\ call'.savedBlend = call.savedBlend
        /\ call'.cached = call.cached /\ call'.savedShader = call.savedShader
    BY <1>10, ReturnIs
  <2> QED
    BY <2>1, <2>2 DEF State
<1>11. CASE TestEqual
  <2>1. call.stage = "test" /\ UNCHANGED before
    BY <1>11 DEF TestEqual, At
  <2>2. /\ call'.stage = "shader" /\ call'.savedBlend = call.savedBlend
        /\ call'.cached = call.cached /\ call'.savedShader = call.savedShader
    BY <1>0, <1>11, GoIs DEF TestEqual, Stages
  <2>3. gfx'.func = gfx.func /\ gfx'.test = MaskTest
    BY <1>0, <1>11, SetStencilTestIs DEF TestEqual, MaskTest
  <2> QED
    BY <2>1, <2>2, <2>3 DEF State
<1>12. CASE RestoreShader
  <2>1. call.stage = "shader" /\ UNCHANGED <<before, model, order>>
        /\ call.savedShader \in Shaders /\ IsMasked(Current)
    BY <1>12 DEF RestoreShader, At, Types, OfMasked
  <2>2. /\ call'.stage = "blend" /\ call'.savedBlend = call.savedBlend
        /\ call'.cached = call.cached /\ call'.next = call.next
    BY <1>0, <1>12, GoIs DEF RestoreShader, Stages
  <2>3. gfx'.func = gfx.func /\ gfx'.shader = call.savedShader /\ gfx'.test = gfx.test
    BY <1>0, <1>12, <2>1, SetShaderIs DEF RestoreShader
  <2>4. IsMasked(Current)'
    BY <2>1, <2>2, CurrentStays
  <2> QED
    BY <2>1, <2>2, <2>3, <2>4 DEF State
<1>13. CASE SetBlend
  <2> DEFINE mode == model.blending[Current]
  <2>1. /\ call.stage = "blend" \/ (call.stage = "mesh" /\ ~IsMasked(Current))
        /\ UNCHANGED <<before, model, order>>
        /\ IF mode = call.cached THEN UNCHANGED gfx ELSE SetBlendMode(mode, BlendFunc(mode))
    BY <1>13 DEF SetBlend, At
  <2>2. /\ call'.stage = "draw" /\ call'.savedBlend = call.savedBlend
        /\ call'.cached = mode /\ call'.next = call.next
    BY <1>0, <1>13 DEF SetBlend, Calls
  <2>3. mode \in BlendModes
    <3>1. call.next <= Meshes
      BY <1>13 DEF SetBlend, At, Types, Choosing
    <3> QED
      BY <3>1, CurrentIs, MasksAre DEF Types
  <2>4. mode \in Blends /\ BlendFunc(mode) \in Blends \cup {"separate"}
    BY <2>3 DEF Blends, BlendFunc
  <2> HIDE DEF mode
  <2>5. gfx'.func = BlendFunc(mode) /\ gfx'.shader = gfx.shader /\ gfx'.test = gfx.test
    <3>1. CASE mode = call.cached
      BY <2>1, <3>1 DEF State
    <3>2. CASE mode # call.cached
      BY <1>0, <2>1, <2>4, <3>2, SetBlendModeIs
    <3> QED
      BY <3>1, <3>2
  <2>6. /\ Current' = Current /\ IsMasked(Current)' = IsMasked(Current)
        /\ TestOf(call.next - 1)' = TestOf(call.next - 1)
    BY <1>B, <2>1, <2>2
  <2>7. mode = model'.blending[Current']
    BY <2>1, <2>6 DEF mode
  <2> QED
    BY <2>1, <2>2, <2>5, <2>6, <2>7 DEF State
<1>14. CASE DrawMesh
  <2>1. /\ call.stage = "draw" /\ UNCHANGED <<gfx, before, model, order>>
        /\ call.next <= Meshes /\ call.next \in Nat \ {0}
    BY <1>0, <1>14 DEF DrawMesh, At, Types, Choosing, Calls
  <2>2. CASE IsMasked(Current)
    <3>1. /\ call'.stage = "unset" /\ call'.savedBlend = call.savedBlend
          /\ call'.cached = call.cached
      BY <1>0, <1>14, <2>2, GoIs DEF DrawMesh, Stages
    <3> QED
      BY <2>1, <3>1 DEF State
  <2>3. CASE ~IsMasked(Current)
    <3>1. /\ call'.stage = "mesh" /\ call'.savedBlend = call.savedBlend
          /\ call'.cached = call.cached /\ call'.next = call.next + 1
      BY <1>0, <1>14, <2>1, <2>3, NextMeshIs DEF DrawMesh
    <3>2. TestOf(call.next - 1)' = TestOf(call.next - 1)
      BY <2>1, <2>3, <3>1, TestOfNext
    <3> QED
      BY <2>1, <2>3, <3>1, <3>2 DEF State
  <2> QED
    BY <2>2, <2>3
<1>15. CASE UnsetTest
  <2>1. call.stage = "unset" /\ UNCHANGED before
    BY <1>15 DEF UnsetTest, At
  <2>2. /\ call'.stage = "cleanup" /\ call'.savedBlend = call.savedBlend
        /\ call'.cached = call.cached
    BY <1>0, <1>15, GoIs DEF UnsetTest, Stages
  <2>3. gfx'.func = gfx.func /\ gfx'.shader = gfx.shader /\ gfx'.test = NoTest
    BY <1>0, <1>15, SetStencilTestIs DEF UnsetTest, NoTest
  <2> QED
    BY <2>1, <2>2, <2>3 DEF State
<1>16. CASE ClearMasks
  <2>1. /\ call.stage = "cleanup" /\ UNCHANGED <<gfx, before, model, order>>
        /\ call.next <= Meshes /\ call.next \in Nat \ {0} /\ IsMasked(Current)
    BY <1>0, <1>16 DEF ClearMasks, At, Types, Choosing, OfMasked, Calls
  <2>2. /\ call'.stage = "mesh" /\ call'.savedBlend = call.savedBlend
        /\ call'.cached = call.cached /\ call'.next = call.next + 1
    BY <1>0, <1>16, <2>1, NextMeshIs DEF ClearMasks
  <2>3. TestOf(call.next - 1)' = NoTest
    BY <2>1, <2>2, TestOfNext
  <2> QED
    BY <2>1, <2>2, <2>3 DEF State
<1>17. CASE Return
  BY <1>17, <1>A, IdleIs DEF Return
<1>18. CASE Fail
  BY <1>18, <1>A, IdleIs DEF Fail
<1>19. CASE UNCHANGED vars
  <2>1. UNCHANGED <<model, order, gfx, before, call>>
    BY <1>19 DEF vars, order
  <2> QED
    BY <1>B, <2>1 DEF State
<1> QED
  BY <1>1, <1>2, <1>3, <1>4, <1>5, <1>6, <1>7, <1>8, <1>9, <1>10, <1>11, <1>12, <1>13,
     <1>14, <1>15, <1>16, <1>17, <1>18, <1>19, <1>20, <1>21 DEF Next

-----------------------------------------------------------------------------
(* What is drawn                                                           *)

\* A step either draws nothing, or starts anew, or draws the current drawable.
LEMMA OnlyDrawMesh ==
    ASSUME [Next]_vars
    PROVE  \/ drawn' = <<>>
           \/ UNCHANGED <<model, before, drawn>>
           \/ DrawMesh
<1>1. ASSUME NEW g \in GameStates, SetGameState(g)
      PROVE  drawn' = <<>>
  BY <1>1 DEF SetGameState
<1>2. ASSUME NEW o \in RenderOrders, UpdateModel(o)
      PROVE  drawn' = <<>>
  BY <1>2 DEF UpdateModel
<1>3. CASE SetVertices \/ Sort \/ TestInnerMask \/ Fail
  BY <1>3 DEF SetVertices, Sort, TestInnerMask, Fail
<1>4. CASE Begin
  BY <1>4 DEF Begin
<1>5. CASE Clear \/ BeginMasks \/ EnterMask \/ TestMask \/ WriteMask \/ ReturnFromMasks
  BY <1>5 DEF Clear, BeginMasks, EnterMask, TestMask, WriteMask, ReturnFromMasks
<1>6. CASE TestEqual \/ RestoreShader \/ SetBlend \/ UnsetTest \/ ClearMasks \/ Return
  BY <1>6 DEF TestEqual, RestoreShader, SetBlend, UnsetTest, ClearMasks, Return
<1>7. CASE UNCHANGED vars
  BY <1>7 DEF vars
<1> QED
  BY <1>1, <1>2, <1>3, <1>4, <1>5, <1>6, <1>7 DEF Next

\* A drawable is drawn where it should be, as it should be.
ClippedAt(shape, test, marks, i) ==
    marks[i].pixels =
        IF shape.masks[marks[i].mesh] # <<>>
        THEN shape.covers[marks[i].mesh] \cap
                UNION {shape.covers[shape.masks[marks[i].mesh][k]] :
                            k \in DOMAIN shape.masks[marks[i].mesh]}
        ELSE IF \/ \E j \in 1 .. (i - 1) : shape.masks[marks[j].mesh] # <<>>
                \/ test.mode # "equal" \/ test.value = Cleared
        THEN shape.covers[marks[i].mesh]
        ELSE {}
OwnMark(shape, shader, mark) ==
    mark.func = BlendFunc(shape.blending[mark.mesh]) /\ mark.shader = shader

\* That is what the two properties say.
LEMMA DrawnIs ==
    /\ Clipped <=> \A i \in DOMAIN drawn : ClippedAt(model, before.test, drawn, i)
    /\ OwnBlend <=> \A i \in DOMAIN drawn : OwnMark(model, before.shader, drawn[i])
<1>1. Clipped <=> \A i \in DOMAIN drawn : ClippedAt(model, before.test, drawn, i)
  BY Zenon DEF Clipped, ClippedAt, Masks, IsMasked
<1>2. OwnBlend <=> \A i \in DOMAIN drawn : OwnMark(model, before.shader, drawn[i])
  BY Zenon DEF OwnBlend, OwnMark
<1> QED
  BY <1>1, <1>2

\* The test against the stencil buffer lets through what one of the masks covers.
LEMMA MaskedPixels ==
    ASSUME Types, NEW m \in Drawables, IsMasked(m), gfx.test = MaskTest,
           buffer = Stencil(model, m, Len(Masks(m)))
    PROVE  {p \in model.covers[m] : Passes(p)} =
                model.covers[m] \cap UNION {model.covers[Masks(m)[k]] : k \in DOMAIN Masks(m)}
<1>1. model.covers[m] \subseteq Pixels /\ DOMAIN Masks(m) = 1 .. Len(Masks(m))
  BY MasksAre DEF Types
<1>2. ASSUME NEW p \in Pixels
      PROVE  Passes(p) <=> p \in UNION {model.covers[Masks(m)[k]] : k \in DOMAIN Masks(m)}
  <2>1. Passes(p) <=> buffer[p] = 1
    BY DEF Passes, MaskTest
  <2>2. buffer[p] = 1 <=> \E k \in 1 .. Len(Masks(m)) : p \in model.covers[Masks(m)[k]]
    BY DEF Stencil, Masks, Cleared
  <2> QED
    BY <1>1, <2>1, <2>2
<1> QED
  BY <1>1, <1>2

\* On the empty buffer a test lets through everything or nothing.
LEMMA UnmaskedPixels ==
    ASSUME Types, NEW m \in Drawables, buffer = Empty
    PROVE  {p \in model.covers[m] : Passes(p)} =
                IF gfx.test.mode # "equal" \/ gfx.test.value = Cleared
                THEN model.covers[m] ELSE {}
<1>1. model.covers[m] \subseteq Pixels
  BY MasksAre DEF Types
<1>2. \A p \in Pixels : Passes(p) <=> gfx.test.mode # "equal" \/ gfx.test.value = Cleared
  BY DEF Passes, Empty
<1> QED
  BY <1>1, <1>2

\* Every step keeps what has been drawn clipped and blended as it must be.
LEMMA NextDrawn ==
    ASSUME Types, InOrder, Buffered, State, Clipped, OwnBlend, [Next]_vars
    PROVE  Clipped' /\ OwnBlend'
<1>0. /\ \A i \in DOMAIN drawn : ClippedAt(model, before.test, drawn, i)
      /\ \A i \in DOMAIN drawn : OwnMark(model, before.shader, drawn[i])
  BY DrawnIs
<1>1. SUFFICES /\ \A i \in DOMAIN drawn' : ClippedAt(model', before'.test, drawn', i)
               /\ \A i \in DOMAIN drawn' : OwnMark(model', before'.shader, drawn'[i])
  <2>1. Clipped' <=> \A i \in DOMAIN drawn' : ClippedAt(model', before'.test, drawn', i)
    BY Zenon DEF Clipped, ClippedAt, Masks, IsMasked
  <2>2. OwnBlend' <=> \A i \in DOMAIN drawn' : OwnMark(model', before'.shader, drawn'[i])
    BY Zenon DEF OwnBlend, OwnMark
  <2> QED
    BY <2>1, <2>2
<1>2. CASE drawn' = <<>>
  <2>1. \A i \in DOMAIN drawn' : FALSE
    BY <1>2
  <2> QED
    BY <2>1
<1>3. CASE UNCHANGED <<model, before, drawn>>
  BY <1>0, <1>3
<1>4. CASE DrawMesh
  <2>1. call.stage = "draw" /\ call.next <= Meshes /\ UNCHANGED <<model, before>>
    BY <1>4 DEF DrawMesh, At, Types, Choosing
  <2> DEFINE mark == [mesh |-> Current, func |-> gfx.func, shader |-> gfx.shader,
                      pixels |-> {p \in model.covers[Current] : Passes(p)}]
             n == Len(drawn) + 1
  <2>2. Current \in Drawables /\ drawn' = Append(drawn, mark) /\ drawn \in Seq(Marks)
    BY <1>4, <2>1, CurrentIs DEF DrawMesh, Types
  <2>3. mark \in Marks
    BY <2>2, MasksAre DEF Types, GfxStates, Marks, Blends
  <2>4. /\ mark.mesh = Current /\ mark.pixels = {p \in model.covers[Current] : Passes(p)}
        /\ mark.func = gfx.func /\ mark.shader = gfx.shader
    OBVIOUS
  <2> HIDE DEF mark
  <2>5. /\ Len(drawn) \in Nat /\ DOMAIN drawn = 1 .. Len(drawn) /\ DOMAIN drawn' = 1 .. n
        /\ drawn'[n] = mark /\ \A i \in 1 .. Len(drawn) : drawn'[i] = drawn[i]
    BY <2>2, <2>3, AppendProperties
  <2>6. call.next = n /\ \A j \in 1 .. (n - 1) : drawn'[j].mesh = meshData[j]
    <3>1. call.next \in Nat
      BY DEF Types, Calls
    <3> QED
      BY <2>1, <2>5, <3>1 DEF InOrder, Drawing
  <2>7. OwnMark(model, before.shader, mark)
    BY <2>1, <2>4 DEF State, OwnMark, Masking, Resting
  <2>8. ClippedAt(model, before.test, drawn', n)
    <3>1. CASE IsMasked(Current)
      <4>1. gfx.test = MaskTest /\ buffer = Stencil(model, Current, Len(Masks(Current)))
        BY <2>1, <3>1 DEF State, Buffered
      <4>2. mark.pixels = model.covers[Current] \cap
                UNION {model.covers[Masks(Current)[k]] : k \in DOMAIN Masks(Current)}
        BY <2>2, <2>4, <3>1, <4>1, MaskedPixels
      <4>3. drawn'[n].mesh = Current /\ drawn'[n].pixels = mark.pixels
        BY <2>4, <2>5
      <4> HIDE DEF n
      <4> QED
        BY <3>1, <4>2, <4>3, Zenon DEF ClippedAt, Masks, IsMasked
    <3>2. CASE ~IsMasked(Current)
      <4>1. gfx.test = TestOf(call.next - 1) /\ buffer = Empty
        BY <2>1, <3>2 DEF State, Buffered
      <4>2. mark.pixels = IF gfx.test.mode # "equal" \/ gfx.test.value = Cleared
                          THEN model.covers[Current] ELSE {}
        BY <2>2, <2>4, <4>1, UnmaskedPixels
      <4>3. Ended(call.next - 1) <=> \E j \in 1 .. (n - 1) : model.masks[drawn'[j].mesh] # <<>>
        BY <2>6 DEF Ended, IsMasked, Masks
      <4>4. model.masks[mark.mesh] = <<>>
        BY <2>4, <3>2 DEF IsMasked, Masks
      <4> QED
        BY <2>4, <2>5, <4>1, <4>2, <4>3, <4>4 DEF ClippedAt, TestOf, NoTest
    <3> QED
      BY <3>1, <3>2
  <2>9. ASSUME NEW i \in 1 .. Len(drawn)
        PROVE  ClippedAt(model, before.test, drawn', i) /\ OwnMark(model, before.shader, drawn'[i])
    <3>1. \A j \in 1 .. (i - 1) : drawn'[j] = drawn[j]
      BY <2>5
    <3>2. drawn'[i] = drawn[i] /\ ClippedAt(model, before.test, drawn, i)
          /\ OwnMark(model, before.shader, drawn[i])
      BY <1>0, <2>5
    <3>3. (\E j \in 1 .. (i - 1) : model.masks[drawn'[j].mesh] # <<>>) <=>
            (\E j \in 1 .. (i - 1) : model.masks[drawn[j].mesh] # <<>>)
      BY <3>1
    <3> QED
      BY <3>2, <3>3, Zenon DEF ClippedAt
  <2>10. \A i : i \in 1 .. n <=> i \in 1 .. Len(drawn) \/ i = n
    BY <2>5
  <2> HIDE DEF n
  <2> QED
    BY <2>1, <2>5, <2>7, <2>8, <2>9, <2>10
<1> QED
  BY <1>2, <1>3, <1>4, OnlyDrawMesh

-----------------------------------------------------------------------------
(* The theorems                                                            *)

\* The whole invariant holds at the start,
LEMMA InitDraw == Init => DrawInv
<1> SUFFICES ASSUME Init PROVE DrawInv
  OBVIOUS
<1>1. Types /\ Nested
  BY InitInv
<1>2. call.stage = "idle" /\ Len(drawn) = 0 /\ \A i \in DOMAIN drawn : FALSE
  BY IdleIs DEF Init
<1>3. InOrder
  <2>1. \A i \in Drawables : settled[meshData[i]] = i
    BY DEF Init
  <2> QED
    BY <1>2, <2>1, MeshesAssumption DEF InOrder, Drawing
<1>4. Clipped /\ OwnBlend
  BY <1>2, DrawnIs
<1> QED
  BY <1>1, <1>2, <1>3, <1>4 DEF DrawInv, Buffered, State, InMasks, Masking, Resting

\* and every step keeps it.
LEMMA NextDraw == DrawInv /\ [Next]_vars => DrawInv'
<1> SUFFICES ASSUME DrawInv, [Next]_vars PROVE DrawInv'
  OBVIOUS
<1>1. Types' /\ Nested'
  BY NextTypes, NextNested DEF DrawInv
<1>2. InOrder'
  BY NextInOrder DEF DrawInv
<1>3. Buffered' /\ State'
  BY NextBuffered, NextState DEF DrawInv
<1>4. Clipped' /\ OwnBlend'
  BY NextDrawn DEF DrawInv
<1> QED
  BY <1>1, <1>2, <1>3, <1>4 DEF DrawInv

\* The invariant holds of every behaviour of draw.
THEOREM DrawInvariant == Spec => []DrawInv
  BY InitDraw, NextDraw, PTL DEF Spec

\* The state keeps its shape: LOVE's graphics state, the stencil buffer and the
\* position of update, of draw and of drawStencil's calls.
THEOREM DrawTypes == Spec => []TypeOK
<1>1. DrawInv => TypeOK
  BY TypesImply DEF DrawInv
<1> QED
  BY <1>1, DrawInvariant, PTL

\* However masks are shared and wherever draws have failed before, a drawable with
\* masks is drawn where it and one of its masks are: Live2LOVE::draw leaves
\* nothing in the stencil buffer.  One without masks is drawn wherever it is, or,
\* before the first one with masks, where the game's own stencil test lets it.
THEOREM DrawClipped == Spec => []Clipped
<1>1. DrawInv => Clipped
  BY DEF DrawInv
<1> QED
  BY <1>1, DrawInvariant, PTL

\* Each drawable is drawn with its own blend function, though draw sets it only
\* when it differs from the one it believes is set, and with the game's shader,
\* though the masks are drawn with another.
THEOREM DrawOwnBlend == Spec => []OwnBlend
<1>1. DrawInv => OwnBlend
  BY DEF DrawInv
<1> QED
  BY <1>1, DrawInvariant, PTL

\* The drawables are drawn in the render order of the last update that has
\* returned, none of them twice, however many updates have failed since with some
\* of their orders copied (setVertices may raise an error before the sort).
THEOREM DrawInRenderOrder == Spec => []PaintersOrder
<1>1. DrawInv => PaintersOrder
  <2> SUFFICES ASSUME DrawInv, NEW i \in DOMAIN drawn, NEW j \in DOMAIN drawn, i < j
               PROVE  settled[drawn[i].mesh] < settled[drawn[j].mesh]
    BY DEF PaintersOrder
  <2>1. InOrder /\ DOMAIN drawn = 1 .. Len(drawn) /\ Len(drawn) \in Nat
    BY DEF DrawInv, Types
  <2>2. i \in Drawables /\ j \in Drawables
    BY <2>1, MeshesAssumption DEF InOrder, Drawables
  <2> QED
    BY <2>1, <2>2 DEF InOrder
<1> QED
  BY <1>1, DrawInvariant, PTL

\* A draw that returns leaves the blend mode, the blend function and the shader as
\* they were when it began; the stencil test too if no drawable has masks, and
\* otherwise none, also where the game had one.
THEOREM DrawRestores == Spec => Restored
<1> DEFINE Left == [blend |-> before.blend, func |-> before.blend, shader |-> before.shader,
                    test |-> IF \E m \in Drawables : IsMasked(m) THEN NoTest
                             ELSE before.test]
<1>1. DrawInv /\ [Next]_vars => [Return => gfx' = Left]_vars
  <2> SUFFICES ASSUME DrawInv, Next, Return
               PROVE  gfx' = Left
    OBVIOUS
  <2>1. /\ call.stage = "mesh" /\ call.next > Meshes /\ call \in Calls /\ gfx \in GfxStates
        /\ SetBlendMode(call.savedBlend, call.savedBlend)
    BY DEF DrawInv, Types, Return, At
  <2>2. /\ call.savedBlend = before.blend /\ gfx.shader = before.shader
        /\ gfx.test = TestOf(call.next - 1) /\ call.savedBlend \in Blends
    BY <2>1 DEF DrawInv, State, Types, Resting, Masking
  <2>3. call.next - 1 = Meshes
    BY <2>1, MeshesAssumption DEF Calls
  <2>4. Ended(Meshes) <=> \E m \in Drawables : IsMasked(m)
    <3>1. meshData \in Orders
      BY DEF DrawInv, Types
    <3>2. \A m \in Drawables : \E i \in Drawables : meshData[i] = m
      BY <3>1, OrdersOnto
    <3>3. \A i \in Drawables : meshData[i] \in Drawables
      BY <3>1 DEF Orders
    <3> QED
      BY <3>2, <3>3 DEF Ended, Drawables
  <2>5. gfx.test = Left.test
    BY <2>2, <2>3, <2>4 DEF TestOf
  <2>6. /\ gfx' \in GfxStates /\ gfx'.blend = before.blend /\ gfx'.func = before.blend
        /\ gfx'.shader = before.shader /\ gfx'.test = Left.test
    BY <2>1, <2>2, <2>5, SetBlendModeIs
  <2> QED
    BY <2>6 DEF GfxStates
<1> QED
  BY <1>1, DrawInvariant, PTL DEF Spec, Restored

=============================================================================
