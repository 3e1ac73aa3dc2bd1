# Live2LOVE in TLA+

Live2LOVE is a C++ library that lets games written for LÖVE (a Lua game
framework) show Live2D models. This directory holds a specification of the parts
of it in which order, history and ownership matter: TLA+ modules, TLC
configurations that check them on small instances, and proofs that TLAPS checks
for every instance. `PROJECT.json` lists the runs, the theorems, the findings,
and for each definition the lines of the source it stands for.

    tlc -config MCRefData.cfg MCRefData        # a run
    tlapm RefDataProofs.tla                    # a proof

## The system

One thread runs the game, Lua, and the library. There is no other thread, no
message and no file format of its own that is written. What makes the code hard
is that

- Lua's garbage collector may run at any call into Lua, and then calls the
  finalizer of a dropped Live2LOVE object, which changes the same reference table
  the interrupted call is changing;
- a Lua error is a `longjmp` (or a foreign exception) through C++ code, and a C++
  exception that leaves a Lua function goes through Lua: every step of a
  constructor or of a draw may be the last;
- statics outlive the Lua state when the library is linked into LÖVE;
- an object is used frame after frame, and what one frame leaves (parameters,
  queued motions, references) the next one starts from;
- the Cubism objects it drives hold raw pointers to what the library deletes.

### Components

| Component | State | Operations | Correct when |
|---|---|---|---|
| **RefData** (`RefData.cpp`) | a table in the Lua registry, threaded with luaL_ref's free list; the static map `namedRef` | `setRef`, `delRef`, `getRef`, by number and by name | no slot has two owners, what was stored is read back, what was released can be collected |
| **Object life** (`Live2LOVE.cpp` constructor, `setupMeshData`, destructor; `Main.cpp` `luaopen_Live2LOVE`, `loadMocFile`, `__gc`) | the static `stencilFragRef`, per object two references per drawable | open, construct, abort, drop, finalize, close the Lua state | an object reads its own meshes, names give their functions, nothing leaks |
| **Motions** (`loadMotion`, `setMotion`, first part of `update`) | `motionList`, `motionLoop`, the motion manager's queue | load, set (three modes), stop, update | the loop motion is loaded, comes back, and only then |
| **Parameter pipeline** (`update`, `setParamValue`… `setParamValuePost`, the switches, `initializeEyeBlink`) | the model's parameters and their saved copy, pending post values, switches | update and the setters | a frame's contributions do not pile up, the last writer wins |
| **Renderer** (`draw`, `drawStencil`, `setTexture`, `setupPMATexture`, mesh part of `update`) | graphics state of LÖVE, stencil, draw order, mesh data | draw | state restored, masks respected, painter's order |
| **Loader** (`loadModel`) | JSON, the object under construction | one stage per section of model3.json | on error nothing is left and nothing is deleted twice |
| **Arguments** (`argToData`, `getLoveData`, `loadFileData`) | the Lua stack | path, FileData, file object to buffer | the buffer stays alive, the stack is balanced |
| **Allocator** (`Live2LOVEAllocator`) | – | aligned allocation | aligned, inside the block, freed as allocated |
| Getters, `__tostring` | – | read only | – |
| Lua headers, picojson, Cubism SDK | third party | | |

They interact as follows. `luaopen_Live2LOVE` stores LÖVE's functions in RefData
by name; constructors store a shader once, and two objects per drawable;
`update`, `draw` and the loader read them back. `update` drives the motion
manager first, which decides what the parameter pipeline starts from, and then
fills the meshes that `draw` draws. `__gc` undoes what the constructor stored.

## The modules

| Module | Models |
|---|---|
| `LuaRef` | external: the reference tables of Lua's auxiliary library, slot by slot, with the free list and the freedom `lua_objlen` has on tables with holes |
| `RefStore` | the abstract specification of RefData: references and names to values |
| `RefData` | `RefData.cpp`, one action per function; `setRef(name)` is two actions, because a finalizer may run between the release and the new reference |
| `RefDataProofs` | its type correctness, invariants, the reuse of slots and the refinement of `RefStore`, proved |
| `Models` | `luaopen_Live2LOVE`, constructor, destructor, `__gc`, `lua_close` and restart, one action per reference taken or released; shown to use RefData as `RefData` says (property `UsesRefData`) |
| `ModelsProofs` | its type correctness, invariants and that it uses RefData within its contract, proved; cites the lemmas of `RefDataProofs` about the table |
| `Motions` | `loadMotion`, both `setMotion`, the motion part of `update`, and Cubism's motion manager as far as they use it |
| `MotionsProofs` | its type correctness and safety properties, proved |
| `Parameters` | one parameter of a model through `update`, stage by stage, and the calls of the game between updates |
| `ParametersProofs` | its type correctness and properties, proved; and those of `Frames`, which composes it with `Motions` |
| `Frames` | `Motions` and `Parameters` composed: the whole `update` of an object, and every call between two frames |
| `Draw` | `draw` and `drawStencil`, one action per call of LÖVE; the part of `update` that decides the draw order, drawable by drawable, up to the sort |
| `DrawProofs` | its type correctness and four properties, proved |
| `Textures` | `setTexture` and `setupPMATexture`, one action per call of LÖVE, also from a thread that is not the object's |
| `TexturesProofs` | its two properties, proved |
| `Loader` | `loadModel`, one action per section or file of model3.json, with the ways each can fail, and what it leaves on the Lua stack |
| `LoaderProofs` | who owns the object, what loses it, the stack, what has been started, and that all is loaded but the fade-out times of motions in groups of several: proved |
| `Arguments` | `argToData`, `loadFileData`, `getLoveData` and the six functions that take data, on the Lua stack, with the garbage collector; the list of `initializeEyeBlink` |
| `ArgumentsProofs` | its three invariants, proved |
| `MC*` | instances for TLC |

They compose as follows: `Models` shows that the life of objects uses `RefData`
within its contract, `RefData` implements `RefStore`; `Frames` conjoins
`Motions` and `Parameters`, which share the motion manager. `Draw`, `Textures`,
`Loader` and `Arguments` share no state with each other that their properties
tell apart: a load of data is one step in `Loader` ("good", "bad" or "missing"),
and `Arguments` shows what happens inside it on the Lua stack.

How state and actions correspond to the code:

- **RefData.** `tbl` is the registry table (slot 0 is the head of the free list),
  `namedRef` the static map, with `Absent` for a missing entry. `held` is what
  the callers of `setRef` have not released: the code keeps these numbers in
  `Live2LOVEMesh` and in `stencilFragRef`. `rebinding` is the program counter of
  `setRef(name)`.
- **Models.** `status` is where an object is in its life (the call stack of the
  C++ code): under construction, live (the game holds it), dropped, being
  finalized, being deleted by the handler in `loadModel`, aborted. `refs` are the
  `meshRefID` and `tableRefID` fields. A finalizer blocks every other action but
  its own, and may start before any of them, which is what Lua does. An exception
  or Lua error in the constructor is `Abort`: C++ runs no destructor, so its
  references stay until the Lua state is closed.
- **Motions.** A motion object is a name and the number of the load that made
  it, so a deleted object is one whose number is not the loaded one. The queue
  gives each object the updates it still has. `UseDeleted` is undefined
  behaviour: the manager reads a deleted motion, and the program counts as
  crashed. `request` is history: what the game asked for last.
- **Parameters.** A value is abstracted to what made it: the last writer that
  replaced it and the contributions added since. `saved` is the copy of
  `SaveParameters`. What a motion, the breath or the physics compute is not
  modelled, only that they write. Writes of weights other than 1 blend and are
  left out.
- **Frames.** Its state is that of the two modules, with one `motion` (the
  manager exists). Whether a motion plays, an input of `Parameters`, is what
  `Motions` has queued after `update` has started the loop motion again, as the
  code decides it. The game loads no name that is playing
  (`ReloadPlaying = FALSE`): what happens then is the finding of
  `motions_reload`.
- **Draw.** `gfx` is the graphics state LÖVE keeps (blend mode, the blend function
  the GPU really has, shader, stencil test), `buffer` its stencil buffer. `call` is
  the draw under way: the stage it is at, what it has saved on the Lua stack, the
  local `blendMode` (`cached`), and the recursion of `drawStencil` as a stack whose
  height is the argument `depth`. `Fail` is a Lua error out of any of the calls of
  LÖVE: `draw` ends there and restores nothing. A drawable is a set of pixels;
  positions and textures are left out. `update` is there from its copying of the
  render orders (`SetVertices`, one drawable a step, each of which may raise an
  error) to its sort (`Sort`). `settled`, `before`, `drawn` and `refused` are history:
  the orders of the last update that has returned, the game's state when `draw`
  began, what has been drawn, and that LÖVE has refused an argument. The game sets
  any blend mode, shader and stencil test. `glBlendFuncSeparate` is taken to have
  been found.
- **Textures.** `graphics` is LÖVE's stack of graphics states (`push("all")`,
  `pop`), each with its target (the game's, the screen, the canvas of the call).
  `call.slot` is what stands in the third slot of the Lua stack of the thread
  that made the object: `setTexture` reads the image there, so it is the image
  passed only when that thread calls. `given` is history: the image each texture
  of the model was given last, or `Nil` after a call that failed or read another
  value.
- **Loader.** A file is good, bad, missing, or its field malformed; `stack` names
  the values that stay on the Lua stack, of which the constructor leaves one or
  two (`newMesh`, and once per process the message of an FFI that fails:
  `attempted` is the static `glBlendFuncSeparateAttempted`). `stage` is the section
  `loadModel` is in, `next` and `part` its loop
  variables. `object` tells who has the object: nobody, the call, the userdata,
  or that it was deleted or lost. A failure is one of three: `Refuse`
  (`luaL_error` with no object), `Discard` (deleted, then an error), `Lose` (a Lua
  error, or an exception outside the handler: nobody deletes it). `model` is what
  was loaded and started; `chosen` the locals `defaultExpr` and `idleMotion`.
- **Arguments.** `stack` is the Lua stack of the call, values named by what they
  are; `alive` what the collector has not freed; `buffer` the pointer that is
  passed to the load, named by the value its bytes belong to. `Collect` may run at
  every step and frees any value that is not on the stack. What a step pushes and
  pops itself appears only where it decides something: the six values
  `argToData` pushes for a LÖVE object decide what is called (`FunctionSlot`).
  `loadModel` is there with both its files, the JSON and the moc, and `Left` is what
  each function leaves; the sections after its constructor are in `Loader`.

## The runs

| Run | Instance | Shows |
|---|---|---|
| `refdata` | 2 objects, 2 names, a table of 5 slots | the free list stays well-formed, owners are disjoint, nothing leaks, the table grows only when full, RefData implements RefStore |
| `models` | 2 objects of one drawable, 2 names, 2 Lua states one after the other, the library unloaded in between or linked into LÖVE | each object reads its own meshes, finalized objects leave nothing, names resolve, callers keep RefData's contract; `newShader` may fail |
| `motions` | 2 names, each loaded at most twice, motions of 3 updates, 4 calls | the loop motion is loaded and comes back; stopped stays stopped; what is not looped ends for good |
| `frames` | one motion of 2 updates, one parameter, contributions counted up to 2, 2 calls of setMotion | the saved copy stays clean, no drift, post values last a frame, animation off is off, no blink while a motion plays or loops |
| `draw` | 4 drawables on 2 pixels; no masks, two drawables with a mask each, one with two, a mask with a mask; 2 render orders besides that of the file; 2 blend modes, 2 shaders and 2 stencil tests of the game; errors in every call of `draw` and `update` | masks clip exactly, every drawable has its own blend function and the game's shader, painter's order also after failed updates, what a draw that returns restores |
| `textures` | 3 drawables, two on one texture of which one multiplies; 2 images and 3 other kinds of values; 3 graphics states; calls from other threads | drawables show what their texture was given, the game's graphics are left alone |
| `loader` | 42 documents: every section whole, empty, and broken in each way, before and after good ones; names that collide; 2 calls | one owner, what loses an object, completeness but for the fade-out times of motions in groups of several, what was started stays, stack, every call ends as its document deserves |
| `arguments` | 6 functions, 6 kinds of value, three kinds of further arguments, lists of up to 4 names | the bytes are the right ones and stay alive; arguments and result are in their places on the stack |

The other four runs find a violation; see the findings below.

Bounds. Two objects and two names are enough for every pair of owners to meet in
the free list, including a finalizer inside another's constructor, and an aborted
construction beside a live one; the free list reaches length three and more, so
its head, middle and end occur. `MaxRef` is large enough that no action is
blocked before the leaks of an aborted object have had their effect; a table
that is full blocks allocation, which the code cannot see either (memory). Two
Lua states show everything a restart can leave: the state after the second
restart is as after the first. In `Motions` a motion of three updates with a fade
of one can be interrupted while it plays and while it fades; two loads suffice
for a deleted object, four calls for loop, normal and preserve in any order.
In `Frames` a second contribution already distinguishes "once per frame"
from "piling up" (the proofs hold for any bound), and one motion of two updates
can play, be looped, end, be started again and be stopped.
In `Draw` two drawables with different masks are what it takes for one's
mask to be left over for the next; masks on either pixel tell a mask from the
union of two and from none. The two render orders and the order of
the file put every drawable before every other; a failed update may mix any two
render orders. All game states occur, frame after frame, and an error may end any
call. The stencil test the game may have lets nothing of the cleared buffer
through, so it shows wherever it is still in force. In `Textures` one texture is shared
by a drawable that gets a copy and one that gets the image itself, and another
is not; two images tell an old one from a new one; every call may fail, and one
failed call leaves a state that the limit of three makes matter for the third.
`Loader`'s sections do not read what earlier ones loaded except by name, so one
or two sections at a time are varied; two calls show that nothing of the first
is left for the second.

Deadlock is checked except in the runs of `MCMotions` (a crash ends the program),
of `MCLoader` (after `MaxCalls` calls nothing happens) and of `MCArguments` (the
null pointer that a plain userdata leads to ends the program).

Fairness. `LoopResumes` and `PlaysOnce` (`motions`) assume weak fairness of update. The game loop
calls `love.update` in every frame, and the demo calls `update` there
(`demo/main.lua:46-49`). Nothing is assumed of the calls that load or set
motions. Both are about a game that sets finitely many motions: one that interrupts
for ever can starve the loop, by design of mode "normal", and always has one
playing. `LoadEnds`
(`loader`) assumes that a step of a call that is under way is taken: `loadModel` is
one C function on the one thread, it neither waits nor yields. Nothing makes a
game call it.

### Findings

Four runs must find a violation: each states what a comment or a message of the
code says, and TLC shows what the code does instead.

| Run | The repository says | The code does |
|---|---|---|
| `models_relinked` | the constructor initializes the clip fragment shader (`Live2LOVE.cpp:236`), also of a library linked into LÖVE (`README.md:94`) | the static `stencilFragRef` survives a restart of Lua and its table does not (`Live2LOVE.cpp:237`): the next object finds anything under the number |
| `motions_reload` | `loadMotion` sets a motion (`Live2LOVE.cpp:878`) | it deletes one the manager may be playing; the next update reads it |
| `draw_nested` | `love.graphics.setStencilTest("equal", depth + 1)` (`Live2LOVE.cpp:1037`) | the string is cut to `"equa"`, and a mask that has masks makes `draw` fail |
| `arguments_data` | "Data, File, or string expected" (`Main.cpp:216`) | for a LÖVE object the string `"File"` is called instead of `typeOf` (`Main.cpp:195`): always an error |

`StencilHeld`, which `models_relinked` refutes, takes the message of a failing
`newShader` for as good as the shader: it is about the reference. If the library is
unloaded with the Lua state it holds (`StencilStaysHeld`, proved).

Seen while modelling and not checked by a run:

- The constructor's test for an error of `newShader` reads the slot below the result
  (`Live2LOVE.cpp:242`), which is never false: the error message is kept as the
  shader, and the object returned (`NewStencil` allows both).
- `initializeEyeBlink` reads its list from index 0 (`Main.cpp:598`), so the last name
  is lost (`NamesRead`); and it leaves a value per name on the stack without asking
  for more slots (600), of which a C function has 20 (`include/lua.h:86-87`).
- Motions: modes are numbered 1, 2, 3 in `docs/live2love.lua:75-77` and 0, 1, 2 in
  `Main.cpp:363`, so 1 loops, 2 preserves and 3 is refused (`ModeOf`). "normal" reverts to the previous motion according to
  `docs/live2love.lua:75`, while only a looped motion comes back; a motion whose
  name is the empty string can be set but never loops (`Live2LOVE.cpp:422`).
- Frames: without a motion manager the eyes do not blink (`Live2LOVE.cpp:428`) and
  nothing restores the parameters before breath and expressions are added; with
  one, a value set by `setParamValue` lasts until the next update, which loads the
  saved copy over it (`Live2LOVE.cpp:421`).
- `loadExpression` deletes a queued expression as `loadMotion` does a motion.
- Draw: a drawable with masks ends with no stencil test (`Live2LOVE.cpp:657-658`), so
  a test the game has set is gone for the drawables after it and after the draw;
  `Restored` and `Clipped` say exactly that. An error in `update` between two
  drawables leaves new render orders on drawables that are not sorted; the next
  update that returns makes it good (`PaintersOrder`).
- Loader: for a motion of a group of several `FadeOutTime` is looked for and
  `FadeInTime` read (`Main.cpp:905`; a single one is read right, 938). `FadeOut` has
  it, and `Complete` says nothing of these times. A texture that is missing, that is no image, that is one too many or
  whose path is shorter than four characters raises past the handler
  (`Main.cpp:829`, `836`, `837`), and the object is lost; so it is by a missing file
  of any section after the moc. A `Physics` or `Pose` that is not a string is passed
  over in silence (`Main.cpp:965`, `979`): `LoadEnds` counts it as absent.
- Arguments: a userdata without `typeOf`, a file of `io.open`, say, gives `strstr` a
  null pointer (`Main.cpp:166`). The constructor leaves `love.graphics.newMesh` on
  the stack (`Live2LOVE.cpp:330`) and, the first time, the message of a failing FFI
  (124-135), and `loadModel` keeps its JSON and its moc: at most four values below
  the object (`Balanced`), six while it loads (`StackBounded`), of the 24 slots it
  asks for.
- Textures: a call of `setTexture` from another coroutine than the one that made
  the object reads the third slot of the latter's stack (`OtherThreads`).

## The proofs

Every invariant and action property that a passing run checks, the use of
`RefData` by `Models` and its refinement of `RefStore` among them, is also a
theorem. They hold for every value of the constants under
the named assumptions of the modules (positive bounds, `Nil` is no object,
`NoName` is no name, and those named below).

- **RefData.** The inductive invariant is `TypeOK`, the free list, disjoint
  owners and no leaks together with the facts that link them: none of the three
  is inductive alone. That the slot `setRef` takes is free needs the free list;
  that the free list survives `delRef` needs that the slot released holds an
  object, so it is on no list, which is what disjoint ownership says; and that
  ownership survives `setRef` needs that free slots belong to nobody. The effects
  of `luaL_ref` and `luaL_unref` on a well-formed table are lemmas (`RefEffect`,
  `UnrefEffect`). `ImplementsStore` maps the references in use to `owned` and the
  names to `bound`: the two steps of `setRef(name)` are a binding to nil and a
  binding to the value.
  `GrowsOnlyWhenFull` needs more (`Tight`): that the head reaches every slot on the
  list, said without recursion as "a set that has the head and with each slot its
  successor has the list", and that the free slots which are not on it are the
  end of the table. `FreeList` alone would allow a second piece of list that
  nothing leads to, whose slots would be lost.
- **Life of objects.** `ModelsInv` adds to `TypeOK` and the free list which parts of
  the program can be under way together (`Phases`), that each value is in the slot
  its owner's field names and in no other (`Placements`), that an object that is
  gone holds nothing (`Released`), and the state of the names inside `luaopen`
  (`NamesBound`). `Placements` is about all objects, aborted ones too: without them
  a reference of a live object could be one that an abort has left. `NamesBound` is
  long because names may be older than the Lua state: a stale number must not be
  released while the new table has a free list, which is so because `luaopen` binds
  in one fixed order, so that at most the slot of the name in work is free. The table
  is that of `RefDataProofs`, whose lemmas are instantiated (`T`).
  `ModelsUseRefData` shows each step to be one of `RefData`, so that its theorems
  hold for this use. `StencilStaysHeld` is what is left of the shader's reference
  when it holds the shader or the error message and the Lua state is still the one
  it was made in.
- **Motions.** `IInv` adds to `TypeOK` that the loop motion is loaded and that
  none is left after "preserve" and after a stop. The action properties follow:
  what update would restart is then either nothing, or not yet due.
- **Parameters.** `SavedIsClean` is inductive with `TypeOK`; `NoDrift`, `PostOnce`
  and `AnimationOff` follow from what update starts from.
- **Frames.** A step of an object is a step of `Parameters` and one of `Motions`, by
  the way it is composed, so their theorems hold of whole frames
  (`FramesKeepClean`, `FramesUpdate`). `NoBlinkInMotion` takes both: that the loop
  motion is loaded, from `Motions`, makes `UpdateMotion` report a motion in the very
  frame that restarts it, and the eye blink of `Parameters` then writes nothing.
- **Draw.** `DrawInv` gives for every stage of `draw` the stencil buffer
  (`Buffered`: the union of the masks so far), LÖVE's state (`State`: whose shader,
  which stencil test, the game's until the first drawable with masks, and that the
  blend function is that of the local `blendMode`), and for `update` and `draw` the
  order (`InOrder`: the drawables are sorted by the orders of the last update that
  has returned, while the next one copies its own). The recursion is in `Nested`:
  every call of `drawStencil` that waits for an inner one is at a mask which has
  masks itself, so it ends in the error the finding describes; a call that
  returns therefore never had one, and its buffer holds its own masks. None of it
  asks that the draw before has returned. Assumed: the shapes of models, render
  orders and game states.
- **Textures.** `StatesInv` says where in the call the extra graphics state is on
  the stack and what lies below it; `GraphicsKept` needs both: that `pop` gives the
  game its state back depends on every step since `push` having replaced the top
  only. `TexturesInv` adds that the canvas holds the image once the meshes are
  looked at, and that the drawables of other textures keep theirs; the two
  together give `Textured`, errors included. Assumed: textures are numbered from 1,
  `Nil` is no image, LÖVE allows at least one state.
- **Loader.** `Place` (the document is one of those considered, the stage is known,
  `Ownership` holds) is inductive alone; the other invariants are proved on
  top of it. `LostOnlyByFiles` needs the cases of every section, stated once as
  lemmas (`TextureCases`, `MotionCases` and so on). The stack is bounded because
  its height depends on the stage and on the FFI's message only (`StackInv`). `StartedInv` says that the
  names chosen so far are loaded and that nothing is started before the section
  that ends the loading of its kind. `LoadedInv`, for `Complete`, says that the
  sections before the present one are whole and the present one is loaded up to
  its next element; one lemma per kind adds an element (`ExpressionMore`,
  `MotionMore`, `GroupMore`), and motions are counted by the order of their places
  (`Before`), since their section is a loop in a loop. Assumed of documents: their
  fields are of the types JSON gives them, an absent list of textures is empty,
  and a name that begins with "idle" is not the empty one.
- **Arguments.** `StackInv` gives the whole stack at each step: the arguments, then
  the data, for `loadModel` those of one file and then of two. That the data cannot be collected needs it at every step between
  push and load, since `Collect` takes what is not on it; that the right bytes are
  parsed needs that the pushed value is on top when its pointer is asked for.
  Assumed: what a game passes further is values.

TLC has checked each of the strengthened invariants on the instance of the run
before it was proved. Only model-checked are the three liveness properties,
`LoopResumes`, `PlaysOnce` and `LoadEnds`: the proof system has no rule for
fairness here.

## Not modelled yet, and the plan

In this order:

1. What the index of `getMesh` means after `update` has sorted the drawables, and
   the lifetime of the Lua thread an object remembers (`Live2LOVE.cpp:231`).
2. `Allocator`: `AllocateAligned` with the width of `size_t`; it is arithmetic of one
   call, without state.

Left out for good: the Cubism SDK and LÖVE (modelled only where the code leans on
them), picojson and the Lua headers (third party, 1900 lines of the tree), getters
(no state), weights of `setParamValue` and `addParamValue` other than 1, the pose
(part opacities, which nothing else of the model reads), vertices and indices,
and the numbers a motion or the physics compute (floating point, in Cubism).
