------------------------------ MODULE Textures ------------------------------
(***************************************************************************)
(* setTexture: a game gives one of the model's textures an image.          *)
(* Drawables that multiply get a canvas with a copy of it, drawn with      *)
(* premultiplied alpha in a graphics state of its own.  Every call of      *)
(* LOVE's may raise an error, which leaves the rest undone.  The values    *)
(* are read from the Lua stack of the thread that made the object, which   *)
(* need not be the one that calls.                                         *)
(***************************************************************************)
EXTENDS Integers, Sequences

CONSTANTS
    Drawables,      \* the drawables of the model
    Multiply,       \* those that multiply
    TextureOf,      \* the number of each drawable's texture, from 1
    Images,         \* textures of LOVE's
    OtherThreads,   \* whether a coroutine other than the object's may call
    MaxDepth        \* LOVE's limit of pushed graphics states

Numbers == {TextureOf[d] : d \in Drawables}

ASSUME DrawablesAssumption ==
    /\ Multiply \subseteq Drawables
    /\ TextureOf \in [Drawables -> Nat \ {0}]
    /\ Drawables # {}
ASSUME ImagesAssumption == "nil" \notin Images
ASSUME DepthAssumption == MaxDepth \in Nat \ {0} /\ OtherThreads \in BOOLEAN

\* Userdata that are not textures: texts have dimensions, an empty one 0 by 0,
\* and can be drawn; other objects cannot.
Others == {"text", "empty text", "object"}
Nil == "nil"
Screen == "screen"
\* A mesh shows a texture itself or a canvas with a copy of it.
Plain(v) == [of |-> v, copy |-> FALSE]
Copy(v) == [of |-> v, copy |-> TRUE]
Blank == "blank"

VARIABLES
    texture,    \* what each drawable shows
    graphics,   \* LOVE's graphics states, the pushed ones below the current one
    call,       \* the number and the value of the call, what stands in the slot
                \* of the value on the object's own stack, the states before
    stage,      \* the step of setTexture that is next, "idle" between calls
    canvas,     \* what the canvas of the call holds
    touched,    \* the targets the call has cleared or drawn to
    todo,       \* the drawables whose mesh has not been looked at
    outcome,    \* of the last call: "returned" or "failed"
    given       \* per number the image of the last call, Nil before and after a
                \* call that failed or came from another thread (a history)

vars == <<texture, graphics, call, stage, canvas, touched, todo, outcome, given>>

\* needPMATexture has an entry for every number up to the largest.
InRange(n) == n >= 1 /\ \E m \in Numbers : n <= m
NeedPMA(n) == \E d \in Multiply : TextureOf[d] = n

NoCall == [number |-> 0, value |-> Nil, slot |-> Nil, before |-> <<>>]

Init ==
    /\ texture = [d \in Drawables |-> Plain(Nil)]
    /\ graphics = <<[target |-> "the game's", settings |-> "the game's"]>>
    /\ call = NoCall
    /\ stage = "idle" /\ canvas = Blank /\ touched = {} /\ todo = {}
    /\ outcome = "returned"
    /\ given = [n \in Numbers |-> Nil]

At(s) == stage = s
Go(s) == stage' = s /\ UNCHANGED <<call, outcome, given>>

Remember(v) ==
    given' = [n \in Numbers |-> IF n = call.number THEN v ELSE given[n]]

\* A Lua error or an exception: what is done is done.
Fail ==
    /\ stage' = "idle" /\ outcome' = "failed"
    /\ Remember(Nil)
    /\ UNCHANGED <<texture, graphics, call, canvas, touched, todo>>

\* A call of LOVE's that gets as far as done or fails
Calls(done) == done \/ Fail

-----------------------------------------------------------------------------

\* The third argument has to be a userdata, on the stack of the thread that
\* calls; setTexture then reads the third slot of the object's thread.
Call(n, v, slot) ==
    /\ At("idle")
    /\ slot = v \/ OtherThreads
    /\ call' = [number |-> n, value |-> v, slot |-> slot, before |-> graphics]
    /\ stage' = "number"
    /\ canvas' = Blank /\ touched' = {} /\ todo' = Drawables
    /\ UNCHANGED <<texture, graphics, outcome, given>>

Number ==
    /\ At("number")
    /\ IF InRange(call.number)
       THEN Go("dimensions") /\ UNCHANGED <<texture, graphics, canvas, touched, todo>>
       ELSE Fail

\* getDimensions; nil has none, and with none there is no copy.
HasSize == call.slot \in Images \cup {"text"}
Dimensions ==
    /\ At("dimensions")
    /\ IF call.slot = "object" THEN Fail
       ELSE /\ Go(IF NeedPMA(call.number) /\ HasSize THEN "canvas" ELSE "meshes")
            /\ UNCHANGED <<texture, graphics, canvas, touched, todo>>

NewCanvas ==
    /\ At("canvas")
    /\ Calls(Go("push") /\ UNCHANGED <<texture, graphics, canvas, touched, todo>>)

Current == graphics[Len(graphics)]
SetCurrent(g) == graphics' = [graphics EXCEPT ![Len(graphics)] = g]

\* love.graphics.push("all"), an error at the limit
Push ==
    /\ At("push")
    /\ IF Len(graphics) >= MaxDepth THEN Fail
       ELSE /\ graphics' = Append(graphics, Current)
            /\ Go("reset")
            /\ UNCHANGED <<texture, canvas, touched, todo>>

Reset ==
    /\ At("reset")
    /\ Calls(/\ SetCurrent([target |-> Screen, settings |-> "default"])
             /\ Go("set canvas")
             /\ UNCHANGED <<texture, canvas, touched, todo>>)

\* Mutant: the canvas is not set.
SetNoCanvas ==
    /\ At("set canvas")
    /\ Calls(/\ Go("clear")
             /\ UNCHANGED <<texture, graphics, canvas, touched, todo>>)

SetCanvas ==
    /\ At("set canvas")
    /\ Calls(/\ SetCurrent([Current EXCEPT !.target = "canvas"])
             /\ Go("clear")
             /\ UNCHANGED <<texture, canvas, touched, todo>>)

\* What is drawn where the canvas is not the target does not get there.
Onto(what) == IF Current.target = "canvas" THEN what ELSE canvas

Clear ==
    /\ At("clear")
    /\ Calls(/\ canvas' = Onto(Blank)
             /\ touched' = touched \cup {Current.target}
             /\ Go("draw")
             /\ UNCHANGED <<texture, graphics, todo>>)

DrawImage ==
    /\ At("draw")
    /\ Calls(/\ canvas' = Onto(call.slot)
             /\ touched' = touched \cup {Current.target}
             /\ Go("pop")
             /\ UNCHANGED <<texture, graphics, todo>>)

PopState ==
    /\ At("pop")
    /\ Calls(/\ graphics' = SubSeq(graphics, 1, Len(graphics) - 1)
             /\ Go("meshes")
             /\ UNCHANGED <<texture, canvas, touched, todo>>)

\* Mutant: drawables that multiply get the image, too.
ShownAlike(d) == Plain(call.slot)

\* What a drawable is to show: one that multiplies the copy, nil without one
Shown(d) ==
    IF d \notin Multiply THEN Plain(call.slot)
    ELSE IF HasSize THEN Copy(canvas) ELSE Plain(Nil)

\* The meshes come in the order of the last update: any.  mesh:setTexture takes
\* a texture or nil.
Mesh(d) ==
    /\ At("meshes") /\ d \in todo
    /\ IF TextureOf[d] # call.number
       THEN todo' = todo \ {d}
            /\ UNCHANGED <<texture, graphics, call, stage, canvas, touched, outcome, given>>
       ELSE IF ~Shown(d).copy /\ Shown(d).of \in Others THEN Fail
       ELSE /\ texture' = [texture EXCEPT ![d] = Shown(d)]
            /\ todo' = todo \ {d}
            /\ UNCHANGED <<graphics, call, stage, canvas, touched, outcome, given>>

Return ==
    /\ At("meshes") /\ todo = {}
    /\ stage' = "idle" /\ outcome' = "returned"
    /\ Remember(IF call.slot = call.value THEN call.value ELSE Nil)
    /\ UNCHANGED <<texture, graphics, call, canvas, touched, todo>>

Step ==
    \/ Number \/ Dimensions
    \/ NewCanvas \/ Push \/ Reset \/ SetCanvas \/ Clear \/ DrawImage \/ PopState
    \/ \E d \in Drawables : Mesh(d)
    \/ Return

\* The numbers tried reach past the last texture on both sides.
Tried == UNION {{n - 1, n, n + 1} : n \in Numbers}

Next ==
    \/ \E n \in Tried, v \in Images \cup Others, slot \in Images \cup Others \cup {Nil} :
            Call(n, v, slot)
    \/ Step

Spec == Init /\ [][Next]_vars

-----------------------------------------------------------------------------

\* Between calls every drawable of a texture shows the image the game gave that
\* texture last, or a finished copy of it when it multiplies, whatever calls for
\* other textures did or failed to do in between.
Expected(d, v) == IF d \in Multiply THEN Copy(v) ELSE Plain(v)
Textured ==
    At("idle") =>
        \A d \in Drawables :
            given[TextureOf[d]] \in Images => texture[d] = Expected(d, given[TextureOf[d]])

\* setTexture leaves the graphics of the game alone: nothing is cleared or drawn
\* but the canvas, neither the screen nor a canvas the game has set; the graphics
\* states are as they were when the call has returned; and an error leaves at
\* most one more state, on top of all of them.
GraphicsKept ==
    /\ touched \subseteq {"canvas"}
    /\ ~At("idle") =>
            /\ Len(graphics) >= Len(call.before)
            /\ SubSeq(graphics, 1, Len(call.before)) = call.before
    /\ At("idle") /\ call # NoCall =>
            /\ outcome = "returned" => graphics = call.before
            /\ outcome = "failed" =>
                /\ Len(graphics) - Len(call.before) \in {0, 1}
                /\ SubSeq(graphics, 1, Len(call.before)) = call.before

=============================================================================
