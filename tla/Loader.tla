------------------------------- MODULE Loader -------------------------------
(***************************************************************************)
(* loadModel: a model3.json and the files it names become a Live2LOVE      *)
(* object.  Each file is a step.  What can go wrong ends the call in three *)
(* ways: luaL_error before there is an object or after it was deleted; a   *)
(* C++ exception, which the handler around the later sections turns into   *)
(* a deletion and an error; and a Lua error inside a called function, or   *)
(* an exception outside the handler, which leave the object to nobody.     *)
(*                                                                         *)
(* Abstractions: a file is there or not and holds good data or not; the    *)
(* names of motions are sequences, a number after the colon appended.      *)
(***************************************************************************)
EXTENDS Integers, Sequences

CONSTANTS
    Documents,          \* the model3.json files considered
    TextureCount,       \* textures the model's drawables use
    DefaultNames,       \* names of expressions that contain "default"
    IdleNames,          \* first parts of names of motions that begin with "idle"
    DefaultEyes,        \* the parameters of the default eye blink
    NoName,             \* no name, the empty string
    MaxCalls            \* calls of loadModel (bound)

\* "malformed": the field that names the file is missing or of another type
Files == {"ok", "bad", "missing", "malformed"}
\* "short": with its directory the path has less than four characters; "bad": the
\* file is no image that can be decoded
TexturePaths == {"ok", "bad", "missing", "short", "not a string"}
OptionalFiles == {"absent", "not a string", "ok", "bad", "missing"}
NoTime == -1

ASSUME CountAssumption == TextureCount \in Nat /\ MaxCalls \in Nat
ASSUME NamesAssumption == NoName \notin DefaultNames
ASSUME DocumentsAssumption ==
    \A d \in Documents :
        /\ d.json \in {"ok", "missing", "malformed"}
        /\ d.moc \in {"ok", "bad", "missing"}
        /\ d.texturesField \in {"absent", "array", "other"}
        /\ d.textures \in Seq(TexturePaths)
        /\ d.texturesField = "absent" => d.textures = <<>>
        /\ Len(d.expressions) \in Nat /\ DOMAIN d.expressions = 1 .. Len(d.expressions)
        /\ \A i \in DOMAIN d.expressions : d.expressions[i].file \in Files
        /\ Len(d.motions) \in Nat /\ DOMAIN d.motions = 1 .. Len(d.motions)
        /\ \A g \in DOMAIN d.motions : d.motions[g].list \in
                Seq([file : Files, fadeIn : Nat \cup {NoTime}, fadeOut : Nat \cup {NoTime}])
        /\ \A g \in DOMAIN d.motions : \A j \in DOMAIN d.motions[g].list :
            \A n \in {d.motions[g].name, Append(d.motions[g].name, j)} :
                n[1] \in IdleNames => n # NoName
        /\ d.physics \in OptionalFiles /\ d.pose \in OptionalFiles
        /\ Len(d.groups) \in Nat /\ DOMAIN d.groups = 1 .. Len(d.groups)

VARIABLES
    doc,            \* the document of the call under way
    stage,          \* the section of loadModel, "idle" between calls
    next,           \* the element of the section that is next
    part,           \* the next motion of a group
    stack,          \* what the call has left on the Lua stack
    object,         \* the object of the call, the last one when idle: "none",
                    \* "made", "wrapped" in a userdata, "deleted" or "lost"
    model,          \* what has been loaded into it
    chosen,         \* the locals defaultExpr and idleMotion
    calls,          \* calls made so far
    attempted       \* a constructor has looked for glBlendFuncSeparate (static)

vars == <<doc, stage, next, part, stack, object, model, chosen, calls, attempted>>
process == <<calls, attempted>>

EmptyMap == [n \in {} |-> NoName]
Put(map, n, v) == [k \in DOMAIN map \cup {n} |-> IF k = n THEN v ELSE map[k]]

\* What the constructor leaves
NewModel ==
    [expressions |-> EmptyMap, motions |-> EmptyMap,
     expression |-> NoName, loaded |-> 0,
     motion |-> NoName, started |-> NoName,
     physics |-> FALSE, pose |-> FALSE, eyeBlink |-> DefaultEyes,
     textures |-> {}]

NothingChosen == [expression |-> NoName, motion |-> NoName]

Init ==
    /\ doc \in Documents
    /\ stage = "idle" /\ next = 1 /\ part = 1
    /\ stack = <<>>
    /\ object = "none"
    /\ model = NewModel
    /\ chosen = NothingChosen
    /\ calls = 0
    /\ attempted \in BOOLEAN       \* loadMocFile may have come before

At(s) == stage = s
Go(s) == stage' = s /\ next' = 1 /\ part' = 1

\* The end of the call with an error: nothing of the call stays on the stack.
Ended == Go("idle") /\ stack' = <<>> /\ UNCHANGED <<doc, model, chosen>>

\* luaL_error while there is no object
Refuse == Ended /\ UNCHANGED <<object, process>>

\* Mutant: the object is deleted, no error raised.
DeleteAndGoOn ==
    /\ object' = "deleted"
    /\ Go("wrap")
    /\ UNCHANGED <<doc, stack, model, chosen, process>>

\* The object is deleted, then luaL_error: by the checks of the textures, and by
\* the handler of the sections from the expressions on
Discard == Ended /\ object' = "deleted" /\ UNCHANGED process

\* A Lua error, or an exception outside the handler: no destructor runs
Lose == Ended /\ object' = "lost" /\ UNCHANGED process

-----------------------------------------------------------------------------

Call(d) ==
    /\ At("idle") /\ calls < MaxCalls
    /\ doc' = d
    /\ object' = "none" /\ model' = NewModel /\ chosen' = NothingChosen
    /\ calls' = calls + 1
    /\ Go("json")
    /\ UNCHANGED <<stack, attempted>>

\* loadFileData leaves the FileData on the stack
ReadJson ==
    /\ At("json")
    /\ IF doc.json # "ok" THEN Refuse
       ELSE /\ stack' = Append(stack, "model3.json")
            /\ Go("moc")
            /\ UNCHANGED <<doc, object, model, chosen, process>>

\* The first constructor of the process looks for glBlendFuncSeparate with the
\* FFI.  That may fail, and then its error message stays on the stack.
FFIMessages == IF attempted THEN {<<>>} ELSE {<<>>, <<"message">>}

\* The file of the moc, then the constructor, which leaves love.graphics.newMesh
\* on the stack
Construct ==
    /\ At("moc")
    /\ IF doc.moc = "missing" THEN Refuse
       ELSE /\ attempted' = TRUE /\ UNCHANGED calls
            /\ IF doc.moc = "bad" THEN Ended /\ UNCHANGED object
               ELSE /\ object' = "made"
                    /\ \E message \in FFIMessages :
                            stack' = stack \o <<"moc3">> \o message \o <<"newMesh">>
                    /\ Go("textures")
                    /\ UNCHANGED <<doc, model, chosen>>

BeginTextures ==
    /\ At("textures")
    /\ CASE doc.texturesField = "absent" ->
                Go("expressions") /\ UNCHANGED <<doc, stack, object, model, chosen, process>>
         [] doc.texturesField = "other" -> Discard
         [] doc.texturesField = "array" ->
                /\ stack' = stack \o <<"settings", "newImage">>
                /\ Go("texture")
                /\ UNCHANGED <<doc, object, model, chosen, process>>

\* Mutant: no lua_settop, a value per texture stays on the stack.
LoadTextureLeaving ==
    /\ At("texture") /\ next <= Len(doc.textures)
    /\ CASE doc.textures[next] = "not a string" -> Discard
         [] doc.textures[next] \in {"short", "missing", "bad"} -> Lose
         [] doc.textures[next] = "ok" /\ next > TextureCount -> Lose
         [] OTHER ->
                /\ model' = [model EXCEPT !.textures = @ \cup {next}]
                /\ next' = next + 1
                /\ stack' = Append(stack, "newImage")
                /\ UNCHANGED <<doc, stage, part, object, chosen, process>>

\* substr throws for a path that is too short, newImage raises a Lua error for a
\* file that is not there or no image, setTexture throws for a number that is out
\* of range: all outside any handler.
LoadTexture ==
    /\ At("texture") /\ next <= Len(doc.textures)
    /\ CASE doc.textures[next] = "not a string" -> Discard
         [] doc.textures[next] \in {"short", "missing", "bad"} -> Lose
         [] doc.textures[next] = "ok" /\ next > TextureCount -> Lose
         [] OTHER ->
                /\ model' = [model EXCEPT !.textures = @ \cup {next}]
                /\ next' = next + 1
                /\ UNCHANGED <<doc, stage, part, stack, object, chosen, process>>

Pop(n) == SubSeq(stack, 1, Len(stack) - n)

EndTextures ==
    /\ At("texture") /\ next > Len(doc.textures)
    /\ stack' = Pop(2)
    /\ Go("expressions")
    /\ UNCHANGED <<doc, object, model, chosen, process>>

\* Mutant: the handler does not catch what the loads throw.
LoadUnhandled(file, loaded) ==
    CASE file # "ok" -> Lose
      [] file = "ok" -> loaded

\* loadFileData and a load of the object's: the file is dropped from the stack
\* afterwards; a file that is not there is a Lua error, which passes by the
\* handler, bad data an exception.
Load(file, loaded) ==
    CASE file = "missing" -> Lose
      [] file \in {"bad", "malformed"} -> Discard
      [] file = "ok" -> loaded

\* Mutant: the last that fits.
LastChosen(present, n, fits) == IF fits THEN n ELSE present

\* The locals keep the first name that fits.
FirstChosen(present, n, fits) == IF present = NoName /\ fits THEN n ELSE present

\* Mutant: the default expression is set as soon as it is loaded.
LoadExpressionAndSet ==
    /\ At("expressions") /\ next <= Len(doc.expressions)
    /\ LET e == doc.expressions[next]
       IN  Load(e.file,
                /\ model' = IF chosen.expression = NoName /\ e.name \in DefaultNames
                            THEN [model EXCEPT !.expressions = Put(@, e.name, next),
                                               !.expression = e.name, !.loaded = next]
                            ELSE [model EXCEPT !.expressions = Put(@, e.name, next)]
                /\ chosen' = [chosen EXCEPT !.expression =
                                FirstChosen(@, e.name, e.name \in DefaultNames)]
                /\ next' = next + 1
                /\ UNCHANGED <<doc, stage, part, stack, object, process>>)

LoadExpression ==
    /\ At("expressions") /\ next <= Len(doc.expressions)
    /\ LET e == doc.expressions[next]
       IN  Load(e.file,
                /\ model' = [model EXCEPT !.expressions = Put(@, e.name, next)]
                /\ chosen' = [chosen EXCEPT !.expression =
                                FirstChosen(@, e.name, e.name \in DefaultNames)]
                /\ next' = next + 1
                /\ UNCHANGED <<doc, stage, part, stack, object, process>>)

\* setExpression(defaultExpr)
SetDefaultExpression ==
    /\ At("expressions") /\ next > Len(doc.expressions)
    /\ model' = IF chosen.expression = NoName THEN model
                ELSE [model EXCEPT !.expression = chosen.expression,
                                   !.loaded = model.expressions[chosen.expression]]
    /\ Go("motions")
    /\ UNCHANGED <<doc, stack, object, chosen, process>>

\* The groups come in the order of the map's keys.  The motions of a group with
\* more than one get a number.
Group(g) == doc.motions[g]
MotionName(g, j) ==
    IF Len(Group(g).list) > 1 THEN Append(Group(g).name, j) ELSE Group(g).name

\* Absent times are 1 second.  For a motion with a number the fade-out time is
\* read from the field of the fade-in time.
Time(t) == IF t = NoTime THEN 1 ELSE t
FadeOut(g, info) ==
    IF info.fadeOut = NoTime THEN 1
    ELSE IF Len(Group(g).list) > 1 THEN Time(info.fadeIn) ELSE info.fadeOut

Motion(g, j) ==
    LET info == Group(g).list[j]
    IN  [group |-> g, index |-> j,
         fadeIn |-> Time(info.fadeIn), fadeOut |-> FadeOut(g, info)]

LoadMotion ==
    /\ At("motions") /\ next <= Len(doc.motions)
    /\ part <= Len(Group(next).list)
    /\ Load(Group(next).list[part].file,
            LET n == MotionName(next, part)
            IN  /\ model' = [model EXCEPT !.motions = Put(@, n, Motion(next, part))]
                /\ chosen' = [chosen EXCEPT !.motion =
                                FirstChosen(@, n, n[1] \in IdleNames)]
                /\ part' = part + 1
                /\ UNCHANGED <<doc, stage, next, stack, object, process>>)

NextGroup ==
    /\ At("motions") /\ next <= Len(doc.motions)
    /\ part > Len(Group(next).list)
    /\ next' = next + 1 /\ part' = 1
    /\ UNCHANGED <<doc, stage, stack, object, model, chosen, process>>

\* setMotion(idleMotion, MOTION_LOOP)
SetIdleMotion ==
    /\ At("motions") /\ next > Len(doc.motions)
    /\ model' = IF chosen.motion = NoName THEN model
                ELSE [model EXCEPT !.motion = chosen.motion,
                                   !.started = model.motions[chosen.motion]]
    /\ Go("physics")
    /\ UNCHANGED <<doc, stack, object, chosen, process>>

\* Physics and pose: a field that is not a string is passed over in silence.
LoadPhysics ==
    /\ At("physics")
    /\ IF doc.physics \in {"absent", "not a string"}
       THEN Go("pose") /\ UNCHANGED <<doc, stack, object, model, chosen, process>>
       ELSE Load(doc.physics,
                 /\ model' = [model EXCEPT !.physics = TRUE]
                 /\ Go("pose")
                 /\ UNCHANGED <<doc, stack, object, chosen, process>>)

LoadPose ==
    /\ At("pose")
    /\ IF doc.pose \in {"absent", "not a string"}
       THEN Go("groups") /\ UNCHANGED <<doc, stack, object, model, chosen, process>>
       ELSE Load(doc.pose,
                 /\ model' = [model EXCEPT !.pose = TRUE]
                 /\ Go("groups")
                 /\ UNCHANGED <<doc, stack, object, chosen, process>>)

\* Mutant: an empty group is not passed over.
LoadGroupStuck ==
    /\ At("groups") /\ next <= Len(doc.groups)
    /\ model' = IF doc.groups[next] = {} THEN model
                ELSE [model EXCEPT !.eyeBlink = doc.groups[next]]
    /\ next' = IF doc.groups[next] = {} THEN next ELSE next + 1
    /\ UNCHANGED <<doc, stage, part, stack, object, chosen, process>>

\* The groups named EyeBlink: a set of parameters each, an empty one is ignored
LoadGroup ==
    /\ At("groups") /\ next <= Len(doc.groups)
    /\ model' = IF doc.groups[next] = {} THEN model
                ELSE [model EXCEPT !.eyeBlink = doc.groups[next]]
    /\ next' = next + 1
    /\ UNCHANGED <<doc, stage, part, stack, object, chosen, process>>

EndGroups ==
    /\ At("groups") /\ next > Len(doc.groups)
    /\ Go("wrap")
    /\ UNCHANGED <<doc, stack, object, model, chosen, process>>

\* The userdata, which is returned
Wrap ==
    /\ At("wrap")
    /\ object' = "wrapped"
    /\ stack' = <<>>
    /\ Go("idle")
    /\ UNCHANGED <<doc, model, chosen, process>>

Step ==
    \/ ReadJson \/ Construct
    \/ BeginTextures \/ LoadTexture \/ EndTextures
    \/ LoadExpression \/ SetDefaultExpression
    \/ LoadMotion \/ NextGroup \/ SetIdleMotion
    \/ LoadPhysics \/ LoadPose \/ LoadGroup \/ EndGroups \/ Wrap

Next == (\E d \in Documents : Call(d)) \/ Step

Spec == Init /\ [][Next]_vars
FairSpec == Spec /\ WF_vars(Step)

-----------------------------------------------------------------------------

\* The stages in which the call owns an object
Owning == {"textures", "texture", "expressions", "motions", "physics", "pose",
           "groups", "wrap"}

\* The shape of the state.
TypeOK ==
    /\ doc \in Documents
    /\ stage \in Owning \cup {"idle", "json", "moc"}
    /\ next \in Nat \ {0} /\ part \in Nat \ {0}
    /\ stack \in Seq({"model3.json", "moc3", "message", "newMesh", "settings", "newImage"})
    /\ object \in {"none", "made", "wrapped", "deleted", "lost"}
    /\ model.physics \in BOOLEAN /\ model.pose \in BOOLEAN
    /\ model.textures \subseteq 1 .. TextureCount
    /\ calls \in 0 .. MaxCalls /\ attempted \in BOOLEAN

\* Every section works on an object that exists and that the call alone owns:
\* none uses or wraps one that an error path has deleted, and no call ends with
\* an object it still owns (loadModel deletes by hand in three places).
Ownership == stage \in Owning <=> object = "made"

\* An object is lost only by a file that is not there or by a texture: one with a
\* short path, no image, or one too many.  Bad or malformed data in the sections
\* after the textures, which the handler "Must be in try-catch block" is for, and
\* malformed texture paths never lose it.
FilesNamed(d) ==
    {d.expressions[i].file : i \in DOMAIN d.expressions}
    \cup (UNION {{d.motions[g].list[j].file : j \in DOMAIN d.motions[g].list}
                 : g \in DOMAIN d.motions})
    \cup {d.physics, d.pose}
TexturesFit(d) ==
    /\ \A i \in DOMAIN d.textures : d.textures[i] \notin {"missing", "short", "bad"}
    /\ Len(d.textures) <= TextureCount
LostOnlyByFiles ==
    object = "lost" => "missing" \in FilesNamed(doc) \/ ~TexturesFit(doc)

\* What loadModel returns has all textures of the document, per name the last
\* expression and motion with its fade times, the first default expression and
\* the first idle motion started, physics and pose if their fields are strings,
\* and the last eye blink group that is not empty.  NOT kept, and so left out
\* here, are the fade-out times of motions in groups of several: the code reads
\* FadeInTime in place of FadeOutTime there (FadeOut above).
Places == UNION {{<<g, j>> : j \in DOMAIN Group(g).list} : g \in DOMAIN doc.motions}
Before(p, q) == p[1] < q[1] \/ (p[1] = q[1] /\ p[2] < q[2])
NameAt(p) == MotionName(p[1], p[2])
IsLast(p) == \A q \in Places : NameAt(q) = NameAt(p) => ~Before(p, q)
IsFirstIdle(p) ==
    /\ NameAt(p)[1] \in IdleNames
    /\ \A q \in Places : NameAt(q)[1] \in IdleNames => ~Before(q, p)

ExpressionsComplete ==
    LET e == doc.expressions
        defaults == {i \in DOMAIN e : e[i].name \in DefaultNames}
    IN  /\ DOMAIN model.expressions = {e[i].name : i \in DOMAIN e}
        /\ \A i \in DOMAIN e : model.expressions[e[i].name] >= i
        /\ \A n \in DOMAIN model.expressions : e[model.expressions[n]].name = n
        /\ IF defaults = {} THEN model.expression = NoName
           ELSE \E i \in defaults : /\ model.expression = e[i].name
                                    /\ \A k \in defaults : i <= k
MotionsComplete ==
    /\ DOMAIN model.motions = {NameAt(p) : p \in Places}
    /\ \A p \in Places : IsLast(p) =>
            LET m == model.motions[NameAt(p)]
                info == Group(p[1]).list[p[2]]
            IN  /\ m.group = p[1] /\ m.index = p[2] /\ m.fadeIn = Time(info.fadeIn)
                /\ Len(Group(p[1]).list) = 1 => m.fadeOut = Time(info.fadeOut)
    /\ IF \E p \in Places : IsFirstIdle(p)
       THEN \E p \in Places : IsFirstIdle(p) /\ model.motion = NameAt(p)
       ELSE model.motion = NoName
EyesComplete ==
    LET full == {i \in DOMAIN doc.groups : doc.groups[i] # {}}
    IN  IF full = {} THEN model.eyeBlink = DefaultEyes
        ELSE \E i \in full : /\ model.eyeBlink = doc.groups[i]
                             /\ \A k \in full : k <= i
Complete ==
    object = "wrapped" =>
        /\ ExpressionsComplete /\ MotionsComplete /\ EyesComplete
        /\ model.textures = DOMAIN doc.textures
        /\ model.physics = (doc.physics = "ok") /\ model.pose = (doc.pose = "ok")

\* What loadModel has started is never deleted by what it loads afterwards: the
\* managers hold pointers, and loadMotion and loadExpression delete what had the
\* name.
StartedStays ==
    /\ model.motion # NoName =>
            /\ model.motion \in DOMAIN model.motions
            /\ model.motions[model.motion] = model.started
    /\ model.expression # NoName =>
            /\ model.expression \in DOMAIN model.expressions
            /\ model.expressions[model.expression] = model.loaded

\* What the call leaves on the Lua stack does not grow with the document: the
\* 24 slots it asks for at its start are enough for every model.
StackBounded == Len(stack) <= 6

\* Every call ends, with an object exactly if the document is whole: all files it
\* names are there and good, a field Physics or Pose that is not a string counting
\* as one that names none.  No section is refused for good data, and no failure of
\* one swallowed.
IsWhole(d) ==
    /\ d.json = "ok" /\ d.moc = "ok" /\ d.texturesField # "other"
    /\ \A i \in DOMAIN d.textures : d.textures[i] = "ok" /\ i <= TextureCount
    /\ FilesNamed(d) \subseteq {"ok", "absent", "not a string"}
LoadEnds == ~At("idle") ~> At("idle") /\ (object = "wrapped" <=> IsWhole(doc))

=============================================================================
