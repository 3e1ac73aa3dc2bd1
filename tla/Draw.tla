-------------------------------- MODULE Draw --------------------------------
(***************************************************************************)
(* Live2LOVE::draw: the drawables of one model, drawn with LOVE's own      *)
(* functions, in the order that the end of update has sorted them in.  A   *)
(* drawable with masks is drawn through the stencil buffer.  Each call of  *)
(* LOVE is a step of its own, because it may raise a Lua error, which ends *)
(* draw or update at that point with no clean-up.                          *)
(*                                                                         *)
(* Abstractions: a drawable covers a set of pixels, positions and textures *)
(* are left out, and a blend mode stands for the pair of mode and alpha    *)
(* mode ("normal" is alpha, alphamultiply).  LOVE (external) keeps a       *)
(* graphics state and a stencil buffer; glBlendFuncSeparate was found.     *)
(***************************************************************************)
EXTENDS Integers, Sequences

CONSTANTS
    Meshes,         \* number of drawables
    Pixels,
    ModelShapes,    \* the models considered: [masks, blending, covers]
    RenderOrders,   \* the render orders a model may have in a frame
    GameBlends,     \* blend modes the game draws with
    GameShaders,    \* shaders the game draws with
    GameTests       \* stencil tests the game draws with

Drawables == 1 .. Meshes
BlendModes == {"normal", "add", "multiply"}
Orders == {o \in [Drawables -> Drawables] : \A i, j \in Drawables : o[i] = o[j] => i = j}
Tests == [mode : {"off", "equal", "always"}, value : Nat]
NoTest == [mode |-> "off", value |-> 0]

ASSUME MeshesAssumption == Meshes \in Nat \ {0}
ASSUME ModelsAssumption ==
    ModelShapes \subseteq [masks : [Drawables -> Seq(Drawables)],
                      blending : [Drawables -> BlendModes],
                      covers : [Drawables -> SUBSET Pixels]]
ASSUME OrdersAssumption == RenderOrders \subseteq Orders
ASSUME GameAssumption ==
    /\ GameBlends # {} /\ GameShaders # {} /\ GameTests \subseteq Tests
    /\ "stencil" \notin GameShaders

Cleared == 255      \* what draw clears the stencil buffer to

VARIABLES
    model,          \* the model, which does not change
    meshData,       \* the drawables in the order of drawing
    renderOrder,    \* drawable -> its place, as update has copied it
    modelOrder,     \* the model's render orders
    gfx,            \* LOVE's state: blend mode, blend function, shader, stencil test
    buffer,         \* the stencil buffer
    call,           \* the call of update or draw that is under way
    settled,        \* history: the render orders of the last update that has
                    \* returned, at first the order of the model's file
    before,         \* history: LOVE's state when the last draw began
    drawn,          \* history: what the draw under way, or the last one since
                    \* another call, has drawn
    refused         \* history: LOVE has refused an argument of the last draw's

vars == <<model, meshData, renderOrder, modelOrder, gfx, buffer, call,
          settled, before, drawn, refused>>
order == <<meshData, renderOrder, modelOrder, settled>>

Masks(m) == model.masks[m]
IsMasked(m) == Masks(m) # <<>>

GameStates == [blend : GameBlends, shader : GameShaders, test : GameTests]
GameState(g) == [blend |-> g.blend, func |-> g.blend, shader |-> g.shader, test |-> g.test]
Idle == [stage |-> "idle", next |-> 1, stack |-> <<>>,
         savedBlend |-> "none", savedShader |-> "none", cached |-> "normal"]

\* The constructor copies the render orders and leaves the drawables in the
\* order of the model's file.
Init ==
    /\ model \in ModelShapes
    /\ meshData = [i \in Drawables |-> i] /\ settled = meshData
    /\ modelOrder \in RenderOrders /\ renderOrder = modelOrder
    /\ \E g \in GameStates : gfx = GameState(g)
    /\ before = gfx
    /\ buffer = [p \in Pixels |-> 0]
    /\ call = Idle
    /\ drawn = <<>> /\ refused = FALSE

At(stage) == call.stage = stage
Go(stage) == call' = [call EXCEPT !.stage = stage]
Current == meshData[call.next]
NextMesh == call' = [call EXCEPT !.stage = "mesh", !.next = @ + 1]

\* love.graphics.setBlendMode, setShader, setStencilTest and clear
SetBlendMode(mode, func) == gfx' = [gfx EXCEPT !.blend = mode, !.func = func]
SetShader(shader) == gfx' = [gfx EXCEPT !.shader = shader]
SetStencilTest(mode, value) == gfx' = [gfx EXCEPT !.test = [mode |-> mode, value |-> value]]
ClearStencil == buffer' = [p \in Pixels |-> Cleared]

\* The pixels a draw reaches
Passes(p) == gfx.test.mode = "equal" => buffer[p] = gfx.test.value

-----------------------------------------------------------------------------

\* The game sets its graphics state, from scratch (love.graphics.reset).
SetGameState(g) ==
    /\ At("idle")
    /\ gfx' = GameState(g) /\ before' = gfx'
    /\ drawn' = <<>> /\ refused' = FALSE
    /\ UNCHANGED <<model, order, buffer, call>>

\* update: the model has the render orders of this frame
UpdateModel(o) ==
    /\ At("idle")
    /\ modelOrder' = o
    /\ call' = [Idle EXCEPT !.stage = "vertices"]
    /\ before' = gfx /\ drawn' = <<>> /\ refused' = FALSE
    /\ UNCHANGED <<model, meshData, renderOrder, settled, gfx, buffer>>

\* Mutant: the order of a drawable is read at its place instead of its index.
SetVerticesByPlace ==
    /\ At("vertices") /\ call.next <= Meshes
    /\ renderOrder' = [renderOrder EXCEPT ![Current] = modelOrder[call.next]]
    /\ call' = [call EXCEPT !.next = @ + 1] \/ call' = Idle
    /\ UNCHANGED <<model, meshData, modelOrder, settled, gfx, buffer, before, drawn, refused>>

\* The order of a drawable is copied, then setVertices called, which may raise an
\* error: the orders copied so far stay, the drawables are not sorted.
SetVertices ==
    /\ At("vertices") /\ call.next <= Meshes
    /\ renderOrder' = [renderOrder EXCEPT ![Current] = modelOrder[Current]]
    /\ call' = [call EXCEPT !.next = @ + 1] \/ call' = Idle
    /\ UNCHANGED <<model, meshData, modelOrder, settled, gfx, buffer, before, drawn, refused>>

\* std::sort with compareDrawOrder
Sort ==
    /\ At("vertices") /\ call.next > Meshes
    /\ meshData' \in {s \in Orders : \A i, j \in Drawables :
                        i < j => renderOrder[s[i]] <= renderOrder[s[j]]}
    /\ settled' = modelOrder
    /\ call' = Idle
    /\ UNCHANGED <<model, renderOrder, modelOrder, gfx, buffer, before, drawn, refused>>

\* Mutant: the blend mode is not saved.
BeginUnsaved ==
    /\ At("idle")
    /\ call' = [Idle EXCEPT !.stage = "clear"]
    /\ SetBlendMode("normal", "normal")
    /\ before' = gfx /\ drawn' = <<>> /\ refused' = FALSE
    /\ UNCHANGED <<model, order, buffer>>

\* draw: save the blend mode, set alpha
Begin ==
    /\ At("idle")
    /\ call' = [Idle EXCEPT !.stage = "clear", !.savedBlend = gfx.blend]
    /\ SetBlendMode("normal", "normal")
    /\ before' = gfx /\ drawn' = <<>> /\ refused' = FALSE
    /\ UNCHANGED <<model, order, buffer>>

Clear ==
    /\ At("clear")
    /\ ClearStencil
    /\ Go("mesh")
    /\ UNCHANGED <<model, order, gfx, before, drawn, refused>>

\* A drawable with masks: back up the shader, set the stencil shader
BeginMasks ==
    /\ At("mesh") /\ call.next <= Meshes
    /\ IsMasked(Current)
    /\ call' = [call EXCEPT !.stage = "masks", !.savedShader = gfx.shader,
                            !.stack = <<[mesh |-> Current, mask |-> 1, inner |-> FALSE]>>]
    /\ SetShader("stencil")
    /\ UNCHANGED <<model, order, buffer, before, drawn, refused>>

\* drawStencil(mesh, drawInfo, depth) is recursive: a stack of its calls, the
\* depth is the height of the stack.  "inner" says that the call for the masks
\* of the present mask has returned.
Depth == Len(call.stack)
Frame == call.stack[Depth]
Mask == Masks(Frame.mesh)[Frame.mask]
AtMask == At("masks") /\ Frame.mask <= Len(Masks(Frame.mesh))

EnterMask ==
    /\ AtMask /\ IsMasked(Mask) /\ ~Frame.inner
    /\ call' = [call EXCEPT !.stack =
                    Append([@ EXCEPT ![Depth].inner = TRUE],
                           [mesh |-> Mask, mask |-> 1, inner |-> FALSE])]
    /\ UNCHANGED <<model, order, gfx, buffer, before, drawn, refused>>

\* setStencilTest for a mask that has masks: the string is cut off after four
\* characters, "equa" is no mode of LOVE's
TestInnerMask ==
    /\ AtMask /\ IsMasked(Mask) /\ Frame.inner
    /\ call' = Idle
    /\ refused' = TRUE
    /\ UNCHANGED <<model, order, gfx, buffer, before, drawn>>

TestMask ==
    /\ AtMask /\ ~IsMasked(Mask)
    /\ SetStencilTest("always", 0)
    /\ Go("stencil")
    /\ UNCHANGED <<model, order, buffer, before, drawn, refused>>

\* love.graphics.stencil: the mask's pixels become the depth
WriteMask ==
    /\ At("stencil")
    /\ buffer' = [p \in Pixels |->
                    IF p \in model.covers[Mask] /\ Passes(p) THEN Depth ELSE buffer[p]]
    /\ call' = [call EXCEPT !.stage = "masks",
                            !.stack[Depth] = [Frame EXCEPT !.mask = @ + 1, !.inner = FALSE]]
    /\ UNCHANGED <<model, order, gfx, before, drawn, refused>>

ReturnFromMasks ==
    /\ At("masks") /\ Frame.mask > Len(Masks(Frame.mesh))
    /\ call' = [call EXCEPT !.stage = IF Depth = 1 THEN "test" ELSE "masks",
                            !.stack = SubSeq(@, 1, Depth - 1)]
    /\ UNCHANGED <<model, order, gfx, buffer, before, drawn, refused>>

TestEqual ==
    /\ At("test")
    /\ SetStencilTest("equal", 1)
    /\ Go("shader")
    /\ UNCHANGED <<model, order, buffer, before, drawn, refused>>

RestoreShader ==
    /\ At("shader")
    /\ SetShader(call.savedShader)
    /\ Go("blend")
    /\ UNCHANGED <<model, order, buffer, before, drawn, refused>>

\* The drawable's blend mode, if it differs from the one set last; that of
\* multiply is overridden with glBlendFuncSeparate
BlendFunc(mode) == IF mode = "multiply" THEN "separate" ELSE mode

\* Mutant: the blend mode that was set is not remembered.
SetBlendForgotten ==
    /\ At("blend") \/ (At("mesh") /\ call.next <= Meshes /\ ~IsMasked(Current))
    /\ LET mode == model.blending[Current]
       IN  IF mode = call.cached THEN UNCHANGED gfx
           ELSE SetBlendMode(mode, BlendFunc(mode))
    /\ Go("draw")
    /\ UNCHANGED <<model, order, buffer, before, drawn, refused>>

SetBlend ==
    /\ At("blend") \/ (At("mesh") /\ call.next <= Meshes /\ ~IsMasked(Current))
    /\ LET mode == model.blending[Current]
       IN  /\ IF mode = call.cached THEN UNCHANGED gfx
              ELSE SetBlendMode(mode, BlendFunc(mode))
           /\ call' = [call EXCEPT !.stage = "draw", !.cached = mode]
    /\ UNCHANGED <<model, order, buffer, before, drawn, refused>>

DrawMesh ==
    /\ At("draw")
    /\ drawn' = Append(drawn,
                  [mesh |-> Current, func |-> gfx.func, shader |-> gfx.shader,
                   pixels |-> {p \in model.covers[Current] : Passes(p)}])
    /\ IF IsMasked(Current) THEN Go("unset") ELSE NextMesh
    /\ UNCHANGED <<model, order, gfx, buffer, before, refused>>

\* A drawable with masks: no stencil test, then an empty stencil buffer
UnsetTest ==
    /\ At("unset")
    /\ SetStencilTest("off", 0)
    /\ Go("cleanup")
    /\ UNCHANGED <<model, order, buffer, before, drawn, refused>>

\* Mutant: the stencil buffer is not cleared.
ClearNoMasks ==
    /\ At("cleanup")
    /\ NextMesh
    /\ UNCHANGED <<model, order, gfx, buffer, before, drawn, refused>>

ClearMasks ==
    /\ At("cleanup")
    /\ ClearStencil
    /\ NextMesh
    /\ UNCHANGED <<model, order, gfx, before, drawn, refused>>

\* Mutant: the blend mode draw works with is left set.
ReturnInAlpha ==
    /\ At("mesh") /\ call.next > Meshes
    /\ SetBlendMode("normal", "normal")
    /\ call' = Idle
    /\ UNCHANGED <<model, order, buffer, before, drawn, refused>>

\* Reset the blend mode
Return ==
    /\ At("mesh") /\ call.next > Meshes
    /\ SetBlendMode(call.savedBlend, call.savedBlend)
    /\ call' = Idle
    /\ UNCHANGED <<model, order, buffer, before, drawn, refused>>

\* A call of LOVE raises an error (no stencil buffer in the canvas, a mesh whose
\* texture is the canvas, ...): draw ends as it is.  Of the steps at "masks" only
\* TestMask calls LOVE (and TestInnerMask, which always fails).
Fail ==
    /\ call.stage \notin {"idle", "vertices"}
    /\ At("masks") => AtMask /\ ~IsMasked(Mask)
    /\ call' = Idle
    /\ UNCHANGED <<model, order, gfx, buffer, before, drawn, refused>>

Next ==
    \/ \E g \in GameStates : SetGameState(g)
    \/ \E o \in RenderOrders : UpdateModel(o)
    \/ SetVertices \/ Sort
    \/ Begin \/ Clear \/ BeginMasks
    \/ EnterMask \/ TestInnerMask \/ TestMask \/ WriteMask \/ ReturnFromMasks
    \/ TestEqual \/ RestoreShader \/ SetBlend \/ DrawMesh
    \/ UnsetTest \/ ClearMasks \/ Return \/ Fail

Spec == Init /\ [][Next]_vars

-----------------------------------------------------------------------------

Stages == {"idle", "vertices", "clear", "mesh", "masks", "stencil", "test", "shader",
           "blend", "draw", "unset", "cleanup"}
Shaders == GameShaders \cup {"stencil"}

\* LOVE's graphics states
GfxStates == [blend : GameBlends \cup BlendModes,
              func : GameBlends \cup BlendModes \cup {"separate"},
              shader : Shaders, test : Tests]

\* The shape of the state.
TypeOK ==
    /\ model \in ModelShapes
    /\ meshData \in Orders /\ settled \in Orders
    /\ modelOrder \in Orders /\ renderOrder \in [Drawables -> Drawables]
    /\ gfx \in GfxStates /\ before \in GfxStates
    /\ buffer \in [Pixels -> Nat]
    /\ call.stage \in Stages /\ call.next \in 1 .. (Meshes + 1)
    /\ call.savedBlend \in GameBlends \cup BlendModes \cup {"none"}
    /\ call.savedShader \in Shaders \cup {"none"}
    /\ call.cached \in BlendModes
    /\ refused \in BOOLEAN

\* A drawable with masks is drawn where it and one of its masks are: no mask of a
\* drawable, a frame or a failed draw before is left in the stencil buffer, and
\* the game's own stencil test does not matter.  One without masks is drawn
\* wherever it is, except that a stencil test the game has set is in force, on
\* the stencil buffer that draw has cleared, until the first drawable with masks
\* ends it.
Clipped ==
    \A i \in DOMAIN drawn :
        LET m == drawn[i].mesh
            mask == UNION {model.covers[Masks(m)[k]] : k \in DOMAIN Masks(m)}
            testEnded == \E j \in 1 .. (i - 1) : IsMasked(drawn[j].mesh)
        IN  drawn[i].pixels =
                IF IsMasked(m) THEN model.covers[m] \cap mask
                ELSE IF testEnded \/ before.test.mode # "equal" \/ before.test.value = Cleared
                THEN model.covers[m]
                ELSE {}

\* Each drawable is drawn with its own blend function, though draw sets it only
\* when it differs from the one it believes is set, and with the shader the game
\* has set, also after a draw that has failed.
OwnBlend ==
    \A i \in DOMAIN drawn :
        /\ drawn[i].func = BlendFunc(model.blending[drawn[i].mesh])
        /\ drawn[i].shader = before.shader

\* The drawables are drawn in the render order of the last update that has
\* returned, each one once: an update that fails half way, with some of the
\* orders copied, changes nothing about it, and the next one makes it good.
PaintersOrder ==
    \A i, j \in DOMAIN drawn :
        i < j => settled[drawn[i].mesh] < settled[drawn[j].mesh]

\* A draw that returns leaves the blend mode and the shader as the game has set
\* them (the comments "Save blending", "Restore shader", "Reset blend mode"), and
\* the blend function is that of the mode again.  The stencil test it leaves alone
\* if no drawable has masks; otherwise none is left, also none of the game's.
Restored ==
    [][Return => gfx' = [blend |-> before.blend, func |-> before.blend,
                         shader |-> before.shader,
                         test |-> IF \E m \in Drawables : IsMasked(m) THEN NoTest
                                  ELSE before.test]]_vars

\* The comment "love.graphics.setStencilTest("equal", depth + 1)": draw itself
\* does not raise an error, also when masks have masks.
MasksNest == ~refused

=============================================================================
