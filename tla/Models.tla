------------------------------- MODULE Models -------------------------------
(***************************************************************************)
(* The life of Live2LOVE objects in one process: luaopen_Live2LOVE stores  *)
(* the functions it needs, loadMocFile and loadModel construct objects,    *)
(* the garbage collector finalizes the dropped ones, and LOVE may close    *)
(* the Lua state and start another.  All of them take their references     *)
(* from the one table of RefData.                                          *)
(*                                                                         *)
(* One thread runs everything, but a finalizer may run at every call into  *)
(* Lua: between two references that luaopen or a constructor takes, and    *)
(* inside setRef(name).  The collector does not start a second finalizer   *)
(* before the first has returned.                                          *)
(***************************************************************************)
EXTENDS Integers, Sequences

CONSTANTS
    Nil, MaxRef, NoName,    \* see LuaRef and RefData
    NameOrder,      \* the names luaopen binds, in its order
    ModelIds,       \* the objects that exist at one time (bound)
    Meshes,         \* drawables of a model (bound)
    MaxSessions     \* Lua states the process opens one after the other (bound)

ASSUME MeshesAssumption == Meshes \in Nat \ {0}
ASSUME NameOrderAssumption ==
    \A i, j \in DOMAIN NameOrder :
        NameOrder[i] # NoName /\ (NameOrder[i] = NameOrder[j] => i = j)
ASSUME SessionsAssumption == MaxSessions \in Nat \ {0}

Names == {NameOrder[i] : i \in DOMAIN NameOrder}
ASSUME NamesAssumption == NameOrder \in Seq(Names) /\ NameOrder # <<>>
Drawables == 1 .. Meshes

\* The Lua values that are stored: <<kind, whose, which>>.
Function(n) == <<"function", n, 0>>
Mesh(m, i) == <<"mesh", m, i>>
Data(m, i) == <<"data", m, i>>
Shader == <<"shader", NoName, 0>>
ErrorMessage == <<"error message", NoName, 0>>
LuaObjects ==
    {Function(n) : n \in Names} \cup {Shader, ErrorMessage}
    \cup {Mesh(m, i) : m \in ModelIds, i \in Drawables}
    \cup {Data(m, i) : m \in ModelIds, i \in Drawables}

ASSUME TableAssumption == MaxRef \in Nat \ {0} /\ Nil \notin LuaObjects
INSTANCE LuaRef WITH Objects <- LuaObjects

Absent == 0             \* no entry in namedRef
NoRef == 0              \* the object has not taken, or has released, this one
NoRefs == [i \in Drawables |-> [meshRefID |-> NoRef, tableRefID |-> NoRef]]

VARIABLES
    tbl,            \* the table registry["Live2LOVE"] of the present Lua state
    namedRef,       \* static: name -> reference, or Absent
    rebinding,      \* the name whose setRef has released the old reference
    stencilFragRef, \* static: the reference of the stencil shader
    opened,         \* luaopen has returned in this Lua state
    opening,        \* the index of the name luaopen binds next, 0: not in luaopen
    status,         \* what becomes of each object
    refs,           \* the references of its meshes (Live2LOVEMesh)
    closing,        \* lua_close has begun
    sessions,       \* how many Lua states the process has opened
    staticLink      \* the library is linked into LOVE (README.md, Android), so
                    \* its statics outlive a Lua state, or unloaded with it

vars == <<tbl, namedRef, rebinding, stencilFragRef, opened, opening, status,
          refs, closing, sessions, staticLink>>
statics == <<namedRef, stencilFragRef>>
session == <<opened, opening, closing, sessions>>

Init ==
    /\ tbl = EmptyTable
    /\ namedRef = [n \in Names |-> Absent]
    /\ rebinding = NoName
    /\ stencilFragRef = RefNil
    /\ opened = FALSE
    /\ opening = 0
    /\ status = [m \in ModelIds |-> "none"]
    /\ refs = [m \in ModelIds |-> NoRefs]
    /\ closing = FALSE
    /\ sessions = 1
    /\ staticLink \in BOOLEAN

\* The thread runs the program, not a finalizer.
NoFinalizer == \A m \in ModelIds : status[m] # "finalizing"
Idle ==
    /\ NoFinalizer
    /\ opening = 0 /\ ~closing
    /\ \A m \in ModelIds : status[m] \notin {"constructing", "discarding"}

-----------------------------------------------------------------------------
(* luaopen_Live2LOVE.  A program may require the library again.            *)

Open ==
    /\ Idle
    /\ opening' = 1
    /\ UNCHANGED <<tbl, statics, rebinding, opened, status, refs, closing, sessions>>

\* setRef(L, name, function): release the reference of an earlier luaopen, of
\* this Lua state or, when the statics outlive it, of another one
OpenRelease ==
    /\ opening # 0 /\ NoFinalizer /\ rebinding = NoName
    /\ namedRef[NameOrder[opening]] # Absent
    /\ tbl' = UnrefTable(tbl, namedRef[NameOrder[opening]])
    /\ rebinding' = NameOrder[opening]
    /\ UNCHANGED <<statics, session, status, refs>>

\* Mutant: namedRef.insert, which leaves an entry that exists as it is.
OpenInserts ==
    /\ opening # 0 /\ NoFinalizer
    /\ LET n == NameOrder[opening]
       IN  /\ rebinding = n \/ namedRef[n] = Absent
           /\ \E r \in FreshRefs(tbl, Function(n)) :
                /\ tbl' = RefTable(tbl, Function(n), r)
                /\ namedRef' = [namedRef EXCEPT ![n] = IF @ = Absent THEN r ELSE @]
    /\ rebinding' = NoName
    /\ opening' = IF opening = Len(NameOrder) THEN 0 ELSE opening + 1
    /\ opened' = (opening = Len(NameOrder) \/ opened)
    /\ UNCHANGED <<stencilFragRef, status, refs, closing, sessions>>

\* Mutant: luaopen does not stop after the last name.
OpenRunsOn ==
    /\ opening # 0 /\ NoFinalizer
    /\ LET n == NameOrder[opening]
       IN  /\ rebinding = n \/ namedRef[n] = Absent
           /\ \E r \in FreshRefs(tbl, Function(n)) :
                /\ tbl' = RefTable(tbl, Function(n), r)
                /\ namedRef' = [namedRef EXCEPT ![n] = r]
    /\ rebinding' = NoName
    /\ opening' = opening + 1
    /\ opened' = (opening = Len(NameOrder) \/ opened)
    /\ UNCHANGED <<stencilFragRef, status, refs, closing, sessions>>

\* setRef(L, name, function): take a reference, go on to the next name
OpenStore ==
    /\ opening # 0 /\ NoFinalizer
    /\ LET n == NameOrder[opening]
       IN  /\ rebinding = n \/ namedRef[n] = Absent
           /\ \E r \in FreshRefs(tbl, Function(n)) :
                /\ tbl' = RefTable(tbl, Function(n), r)
                /\ namedRef' = [namedRef EXCEPT ![n] = r]
    /\ rebinding' = NoName
    /\ opening' = IF opening = Len(NameOrder) THEN 0 ELSE opening + 1
    /\ opened' = (opening = Len(NameOrder) \/ opened)
    /\ UNCHANGED <<stencilFragRef, status, refs, closing, sessions>>

\* love.data, needed for the last name, is not there: require raises an error
OpenFails ==
    /\ opening = Len(NameOrder) /\ NoFinalizer /\ rebinding = NoName
    /\ opening' = 0
    /\ UNCHANGED <<tbl, statics, rebinding, opened, status, refs, closing, sessions>>

-----------------------------------------------------------------------------
(* The constructor, called by loadMocFile and loadModel.                   *)

New(m) ==
    /\ Idle /\ opened
    /\ status[m] = "none"
    /\ status' = [status EXCEPT ![m] = "constructing"]
    /\ UNCHANGED <<tbl, statics, rebinding, session, refs>>

Constructing(m) == status[m] = "constructing" /\ NoFinalizer

\* The stencil shader, once per process.  The test for an error of newShader
\* reads the stack slot below the result, which is never false: an error
\* message is stored like a shader.
NewStencil(m) ==
    /\ Constructing(m) /\ stencilFragRef = RefNil
    /\ \E v \in {Shader, ErrorMessage} :
       \E r \in FreshRefs(tbl, v) :
            /\ tbl' = RefTable(tbl, v, r)
            /\ stencilFragRef' = r
    /\ UNCHANGED <<namedRef, rebinding, session, status, refs>>

\* setupMeshData, drawable i: the Mesh, then, after its vertex map is set, the
\* ByteData of its vertices
NewMesh(m, i) ==
    /\ Constructing(m) /\ stencilFragRef # RefNil
    /\ refs[m][i].meshRefID = NoRef
    /\ \A j \in 1 .. (i - 1) : refs[m][j].tableRefID # NoRef
    /\ \E r \in FreshRefs(tbl, Mesh(m, i)) :
            /\ tbl' = RefTable(tbl, Mesh(m, i), r)
            /\ refs' = [refs EXCEPT ![m][i].meshRefID = r]
    /\ UNCHANGED <<statics, rebinding, session, status>>

NewData(m, i) ==
    /\ Constructing(m)
    /\ refs[m][i].meshRefID # NoRef /\ refs[m][i].tableRefID = NoRef
    /\ \E r \in FreshRefs(tbl, Data(m, i)) :
            /\ tbl' = RefTable(tbl, Data(m, i), r)
            /\ refs' = [refs EXCEPT ![m][i].tableRefID = r]
    /\ UNCHANGED <<statics, rebinding, session, status>>

\* The object is wrapped in a userdata, which the program now holds.
Return(m) ==
    /\ Constructing(m)
    /\ \A i \in Drawables : refs[m][i].tableRefID # NoRef
    /\ status' = [status EXCEPT ![m] = "live"]
    /\ UNCHANGED <<tbl, statics, rebinding, session, refs>>

\* An exception in a later stage of loadModel: its handler deletes the object.
Discard(m) ==
    /\ Constructing(m)
    /\ \A i \in Drawables : refs[m][i].tableRefID # NoRef
    /\ status' = [status EXCEPT ![m] = "discarding"]
    /\ UNCHANGED <<tbl, statics, rebinding, session, refs>>

\* A bad moc, a Lua error of newMesh or newByteData, or one in a later stage of
\* loadModel, which its handler does not catch: no destructor runs, and there is
\* no userdata yet that would run it.
Abort(m) ==
    /\ Constructing(m) /\ stencilFragRef # RefNil
    /\ status' = [status EXCEPT ![m] = "aborted"]
    /\ UNCHANGED <<tbl, statics, rebinding, session, refs>>

-----------------------------------------------------------------------------
(* The end of an object.                                                   *)

\* The program forgets the object.
Drop(m) ==
    /\ Idle
    /\ status[m] = "live"
    /\ status' = [status EXCEPT ![m] = "dropped"]
    /\ UNCHANGED <<tbl, statics, rebinding, session, refs>>

\* __gc: at any call into Lua for a dropped object, in lua_close for every one
Finalize(m) ==
    /\ NoFinalizer
    /\ status[m] = "dropped" \/ (closing /\ status[m] = "live")
    /\ status' = [status EXCEPT ![m] = "finalizing"]
    /\ UNCHANGED <<tbl, statics, rebinding, session, refs>>

\* ~Live2LOVE, mesh i: delRef of the data, then of the mesh.  The destructor is
\* called by a finalizer, or by the handler in loadModel, which a finalizer may
\* interrupt in turn.
Destructing(m) ==
    \/ status[m] = "finalizing"
    \/ status[m] = "discarding" /\ NoFinalizer
Releasing(m, i) ==
    /\ Destructing(m)
    /\ \A j \in 1 .. (i - 1) : refs[m][j].meshRefID = NoRef

\* Mutant: the mesh's reference is released in place of the data's.
DeleteMeshForData(m, i) ==
    /\ Releasing(m, i)
    /\ refs[m][i].tableRefID # NoRef
    /\ tbl' = UnrefTable(tbl, refs[m][i].meshRefID)
    /\ refs' = [refs EXCEPT ![m][i].tableRefID = NoRef]
    /\ UNCHANGED <<statics, rebinding, session, status>>

DeleteData(m, i) ==
    /\ Releasing(m, i)
    /\ refs[m][i].tableRefID # NoRef
    /\ tbl' = UnrefTable(tbl, refs[m][i].tableRefID)
    /\ refs' = [refs EXCEPT ![m][i].tableRefID = NoRef]
    /\ UNCHANGED <<statics, rebinding, session, status>>

\* Mutant: the mesh's reference is not released.
DeleteMeshForgets(m, i) ==
    /\ Releasing(m, i)
    /\ refs[m][i].tableRefID = NoRef /\ refs[m][i].meshRefID # NoRef
    /\ refs' = [refs EXCEPT ![m][i].meshRefID = NoRef]
    /\ UNCHANGED <<tbl, statics, rebinding, session, status>>

DeleteMesh(m, i) ==
    /\ Releasing(m, i)
    /\ refs[m][i].tableRefID = NoRef /\ refs[m][i].meshRefID # NoRef
    /\ tbl' = UnrefTable(tbl, refs[m][i].meshRefID)
    /\ refs' = [refs EXCEPT ![m][i].meshRefID = NoRef]
    /\ UNCHANGED <<statics, rebinding, session, status>>

\* Mutant: the destructor leaves out the last mesh.
DestroyedButLast(m) ==
    /\ Destructing(m)
    /\ \A i \in 1 .. (Meshes - 1) : refs[m][i].meshRefID = NoRef
    /\ status' = [status EXCEPT ![m] = "none"]
    /\ refs' = [refs EXCEPT ![m] = NoRefs]
    /\ UNCHANGED <<tbl, statics, rebinding, session>>

Destroyed(m) ==
    /\ Destructing(m)
    /\ refs[m] = NoRefs
    /\ status' = [status EXCEPT ![m] = "none"]
    /\ UNCHANGED <<tbl, statics, rebinding, session, refs>>

-----------------------------------------------------------------------------
(* The end of a Lua state (love.event.quit "restart") and the next one.    *)

Close ==
    /\ Idle /\ sessions < MaxSessions
    /\ closing' = TRUE
    /\ UNCHANGED <<tbl, statics, rebinding, opened, opening, status, refs, sessions>>

Restart ==
    /\ closing
    /\ \A m \in ModelIds : status[m] \in {"none", "aborted"}
    /\ closing' = FALSE /\ sessions' = sessions + 1
    /\ opened' = FALSE
    /\ tbl' = EmptyTable
    /\ status' = [m \in ModelIds |-> "none"]
    /\ refs' = [m \in ModelIds |-> NoRefs]
    /\ IF staticLink THEN UNCHANGED statics
       ELSE /\ namedRef' = [n \in Names |-> Absent]
            /\ stencilFragRef' = RefNil
    /\ UNCHANGED <<rebinding, opening>>

Step ==
    \/ Open \/ OpenRelease \/ OpenStore \/ OpenFails
    \/ \E m \in ModelIds : New(m) \/ NewStencil(m) \/ Return(m) \/ Discard(m) \/ Abort(m)
    \/ \E m \in ModelIds, i \in Drawables : NewMesh(m, i) \/ NewData(m, i)
    \/ \E m \in ModelIds : Drop(m) \/ Finalize(m) \/ Destroyed(m)
    \/ \E m \in ModelIds, i \in Drawables : DeleteData(m, i) \/ DeleteMesh(m, i)
    \/ Close \/ Restart

Next == Step /\ UNCHANGED staticLink

Spec == Init /\ [][Next]_vars

-----------------------------------------------------------------------------

GetRef(r) == RawGet(tbl, r)
GetNamed(n) == IF namedRef[n] = Absent THEN NilSlot ELSE GetRef(namedRef[n])

Exists(m) == status[m] \in {"constructing", "live", "dropped", "finalizing",
                        "discarding"}

\* The shape of the state.
TypeOK ==
    /\ tbl \in Tables
    /\ namedRef \in [Names -> RefIds \cup {Absent}]
    /\ rebinding \in Names \cup {NoName}
    /\ stencilFragRef \in RefIds
    /\ opened \in BOOLEAN /\ closing \in BOOLEAN /\ staticLink \in BOOLEAN
    /\ opening \in 0 .. Len(NameOrder) /\ sessions \in 1 .. MaxSessions
    /\ status \in [ModelIds -> {"none", "constructing", "live", "dropped",
                               "finalizing", "discarding", "aborted"}]
    /\ refs \in [ModelIds -> [Drawables -> [meshRefID : Slots, tableRefID : Slots]]]

\* An object reads its own meshes and vertex data under its references, from
\* the moment it takes them to the moment it releases them, whatever is
\* constructed, finalized, opened again or aborted meanwhile (getMesh, update
\* and draw read them with no further check).
OwnRefs ==
    \A m \in ModelIds, i \in Drawables : Exists(m) =>
        LET r == refs[m][i]
        IN  /\ r.meshRefID # NoRef => GetRef(r.meshRefID) = Holding(Mesh(m, i))
            /\ r.tableRefID # NoRef => GetRef(r.tableRefID) = Holding(Data(m, i))

\* A finalized object leaves nothing in the table: its meshes and their data
\* can be collected.
Collected ==
    \A m \in ModelIds, r \in Refs : status[m] = "none" =>
        tbl[r].obj \notin {Mesh(m, i) : i \in Drawables} \cup {Data(m, i) : i \in Drawables}

\* Once luaopen has returned, each name but the one being bound again yields
\* the function of that name, in every Lua state of the process and also when
\* the map of names is older than the Lua state.
NamesResolve ==
    opened => \A n \in Names \ {rebinding} : GetNamed(n) = Holding(Function(n))

\* A live object finds under the reference of the stencil shader, which
\* drawStencil passes to love.graphics.setShader with no further check, what
\* newShader returned when the constructor was to initialize the clip fragment
\* shader: also an object made in a later Lua state.  (That this is not the
\* message of an error is what the constructor's test is for, and misses.)
StencilHeld ==
    \A m \in ModelIds : status[m] = "live" =>
        GetRef(stencilFragRef) \in {Holding(Shader), Holding(ErrorMessage)}

(***************************************************************************)
(* Within a Lua state, the objects and luaopen use RefData as its contract *)
(* says: they release what they hold, once.  A library that is unloaded    *)
(* with the Lua state starts the next one from the beginning.  One that is *)
(* linked into LOVE releases names the next table never held: there only   *)
(* the invariants above hold.                                              *)
(***************************************************************************)
Held ==
    ({refs[m][i].meshRefID : m \in ModelIds, i \in Drawables}
     \cup {refs[m][i].tableRefID : m \in ModelIds, i \in Drawables}
     \cup {stencilFragRef}) \ {NoRef, RefNil}
RefTableOf == INSTANCE RefData WITH Objects <- LuaObjects, held <- Held
UsesRefData ==
    RefTableOf!Init
    /\ [][staticLink \/ RefTableOf!Next \/ (Restart /\ RefTableOf!Init')]_(RefTableOf!vars)

=============================================================================
