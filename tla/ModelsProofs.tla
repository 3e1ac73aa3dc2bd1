---------------------------- MODULE ModelsProofs ----------------------------
(***************************************************************************)
(* Proofs about Models, for any names, any number of objects, meshes and   *)
(* Lua states, and any bound on the table.                                 *)
(***************************************************************************)
EXTENDS Models, TLAPS

T == INSTANCE RefDataProofs WITH Objects <- LuaObjects, held <- Held

-----------------------------------------------------------------------------
(* The inductive invariant.                                                *)

\* Which parts of the program can be under way together.
Phases ==
    /\ closing => opening = 0 /\ sessions < MaxSessions
    /\ opening # 0 => \A m \in ModelIds : status[m] \notin {"constructing", "discarding"}
    /\ rebinding # NoName => opening # 0 /\ rebinding = NameOrder[opening]
    /\ ~opened => \A m \in ModelIds : status[m] = "none"

\* The value v is in the slot r of the table, and nowhere else; nowhere at all
\* when r is NoRef.
Placed(t, v, r) ==
    /\ r # NoRef => t[r] = Holding(v)
    /\ \A s \in Refs : t[s].obj = v => s = r

\* What an object has taken and not released is under its own references, an
\* aborted object's too; a finalized object has released everything.
Placements ==
    \A m \in ModelIds, i \in Drawables :
        /\ Placed(tbl, Mesh(m, i), refs[m][i].meshRefID)
        /\ Placed(tbl, Data(m, i), refs[m][i].tableRefID)
Released == \A m \in ModelIds : status[m] = "none" => refs[m] = NoRefs

\* The shader, or the message of newShader's error, is there before the first
\* mesh, and is never released.
Stencil ==
    /\ \A m \in ModelIds : status[m] = "live" \/ refs[m] # NoRefs => stencilFragRef # RefNil
    /\ ~staticLink /\ stencilFragRef # RefNil =>
          \/ tbl[stencilFragRef] = Holding(Shader)
          \/ tbl[stencilFragRef] = Holding(ErrorMessage)

\* The name's reference holds the function of the name.
Bound(n) == namedRef[n] # Absent /\ tbl[namedRef[n]] = Holding(Function(n))

\* Once luaopen has returned in this Lua state, every name is bound or is being
\* bound again.  Before, a name that the map has from an earlier Lua state may
\* be under a slot that is still empty, and the free list has at most the slot
\* of the name that is being bound.
Unlinked(t, n) ==
    \A s \in Slots : t[s].link = IF s = 0 /\ n \in Names THEN namedRef[n] ELSE 0
NamesBound ==
    /\ \A n \in Names : namedRef[n] # RefNil
    /\ \A n, k \in Names : namedRef[n] = namedRef[k] /\ namedRef[n] # Absent => n = k
    /\ \A j \in 1 .. (opening - 1) : Bound(NameOrder[j])
    /\ \A i, j \in 1 .. Len(NameOrder) :
          i < j /\ namedRef[NameOrder[j]] # Absent => namedRef[NameOrder[i]] # Absent
    /\ rebinding # NoName => namedRef[rebinding] # Absent
    /\ opened => \A n \in Names \ {rebinding} : Bound(n)
    /\ ~opened =>
          /\ \A n \in Names : namedRef[n] # Absent =>
                \/ n # rebinding /\ Bound(n)
                \/ tbl[namedRef[n]] = NilSlot
          /\ Unlinked(tbl, rebinding)

ModelsInv ==
    TypeOK /\ FreeList(tbl) /\ Phases /\ Placements /\ Released /\ Stencil /\ NamesBound


-----------------------------------------------------------------------------
(* The reference table: the lemmas of RefDataProofs, for these objects.    *)

\* The assumptions of RefData hold of the names and objects of Models.
LEMMA Assumptions ==
    /\ NoName \notin Names /\ MaxRef \in Nat \ {0} /\ Nil \notin LuaObjects
    /\ Len(NameOrder) \in Nat \ {0} /\ DOMAIN NameOrder = 1 .. Len(NameOrder)
    /\ \A j \in 1 .. Len(NameOrder) : NameOrder[j] \in Names
    /\ 1 \in Drawables
<1>1. NoName \notin Names
  BY NameOrderAssumption DEF Names
<1>2. NameOrder \in Seq(Names) /\ NameOrder # <<>>
  BY NamesAssumption
<1>3. Len(NameOrder) \in Nat \ {0} /\ DOMAIN NameOrder = 1 .. Len(NameOrder)
  BY <1>2
<1>4. \A j \in 1 .. Len(NameOrder) : NameOrder[j] \in Names
  BY <1>3 DEF Names
<1> QED
  BY <1>1, <1>3, <1>4, TableAssumption, MeshesAssumption DEF Drawables

\* These are the tables, slots and free lists of RefDataProofs.
LEMMA SameTables ==
    /\ T!Refs = Refs /\ T!Tables = Tables
    /\ \A t : T!FreeList(t) <=> FreeList(t)
    /\ \A t, v : T!FreshRefs(t, v) = FreshRefs(t, v)
    /\ \A t, v, r : T!RefTable(t, v, r) = RefTable(t, v, r)
    /\ \A t, r : T!UnrefTable(t, r) = UnrefTable(t, r)
    /\ \A v : T!Holding(v) = Holding(v)
<1> USE DEF T!Slots, Slots, T!Refs, Refs, T!RefNil, RefNil, T!NilSlot, NilSlot,
            T!Holding, Holding, T!Number, Number, T!Values, Values
<1>1. T!Refs = Refs /\ T!Tables = Tables
  BY DEF T!Tables, T!Slot, Tables, Slot
<1>2. ASSUME NEW t PROVE T!FreeList(t) <=> FreeList(t)
  BY DEF T!FreeList, T!OneContent, T!OnePredecessor, T!ListedAreFree, T!OneEnd,
         T!Listed, T!Linked, FreeList, OneContent, OnePredecessor,
         ListedAreFree, OneEnd, Listed, Linked
<1>3. \A t, v : T!FreshRefs(t, v) = FreshRefs(t, v)
  BY DEF T!FreshRefs, FreshRefs, T!Borders, Borders
<1>4. \A t, v, r : T!RefTable(t, v, r) = RefTable(t, v, r)
  BY DEF T!RefTable, RefTable
<1>5. \A t, r : T!UnrefTable(t, r) = UnrefTable(t, r)
  BY DEF T!UnrefTable, UnrefTable
<1> QED
  BY <1>1, <1>2, <1>3, <1>4, <1>5

\* luaL_ref returns a free slot, stores the value there, changes no other slot
\* but the head of the free list, and keeps the free list well formed.
LEMMA RefEffect ==
    ASSUME NEW t \in Tables, FreeList(t), NEW v \in LuaObjects,
           NEW r \in FreshRefs(t, v)
    PROVE  /\ r \in Refs /\ t[r].obj = Nil
           /\ RefTable(t, v, r) \in Tables
           /\ RefTable(t, v, r)[r] = Holding(v)
           /\ \A s \in Refs \ {r} : RefTable(t, v, r)[s] = t[s]
           /\ FreeList(RefTable(t, v, r))
<1>1. t \in T!Tables /\ T!FreeList(t) /\ r \in T!FreshRefs(t, v)
  BY SameTables
<1>2. r \in T!Refs /\ t[r].obj = Nil
  BY <1>1, Assumptions, T!FreshIsFree
<1>3. /\ T!RefTable(t, v, r) \in T!Tables
      /\ T!RefTable(t, v, r)[r] = T!Holding(v)
      /\ \A s \in T!Refs \ {r} : T!RefTable(t, v, r)[s] = t[s]
      /\ T!FreeList(T!RefTable(t, v, r))
  BY <1>1, Assumptions, T!RefEffect
<1> QED
  BY <1>2, <1>3, SameTables

\* luaL_unref empties the slot of an object, changes no other slot but the head
\* of the free list, and keeps the free list well formed.
LEMMA UnrefEffect ==
    ASSUME NEW t \in Tables, FreeList(t), NEW r \in Refs, t[r].obj # Nil
    PROVE  /\ UnrefTable(t, r) \in Tables
           /\ UnrefTable(t, r)[r].obj = Nil
           /\ \A s \in Refs \ {r} : UnrefTable(t, r)[s] = t[s]
           /\ FreeList(UnrefTable(t, r))
<1>1. t \in T!Tables /\ T!FreeList(t) /\ r \in T!Refs
  BY SameTables
<1>2. /\ T!UnrefTable(t, r) \in T!Tables
      /\ T!UnrefTable(t, r)[r].obj = Nil
      /\ \A s \in T!Refs \ {r} : T!UnrefTable(t, r)[s] = t[s]
      /\ T!FreeList(T!UnrefTable(t, r))
  BY <1>1, Assumptions, T!UnrefEffect
<1> QED
  BY <1>2, SameTables

\* luaL_unref of a reference from an earlier Lua state, whose slot this table
\* never used: the slot is put on the free list like any other.
LEMMA StaleUnref ==
    ASSUME NEW t \in Tables, FreeList(t), NEW r \in Refs, t[r] = NilSlot,
           \A s \in Slots : t[s].link = 0
    PROVE  /\ UnrefTable(t, r) \in Tables
           /\ UnrefTable(t, r)[r] = NilSlot
           /\ \A s \in Refs \ {r} : UnrefTable(t, r)[s] = t[s]
           /\ UnrefTable(t, r)[0] = Number(r)
           /\ FreeList(UnrefTable(t, r))
<1> USE Assumptions DEF Slots, Refs
<1> DEFINE u == UnrefTable(t, r)
<1>1. r # RefNil /\ r # 0 /\ 0 \in Slots /\ r \in Slots
  BY DEF RefNil
<1>2. t[0] = NilSlot
  <2>1. t[0].obj = Nil /\ t[0].link = 0 /\ t[0] \in Slot
    BY <1>1 DEF FreeList, ListedAreFree, Listed, Tables
  <2> QED
    BY <2>1 DEF Slot, NilSlot
<1>3. u = [t EXCEPT ![r] = t[0], ![0] = Number(r)] /\ Number(r) \in Slot
  BY <1>1 DEF UnrefTable, Number, Slot, Values
<1>4. /\ u \in Tables /\ u[0] = Number(r) /\ u[r] = NilSlot
      /\ \A s \in Slots \ {0, r} : u[s] = t[s]
  BY <1>1, <1>2, <1>3 DEF Tables
<1>5. Number(r).link = r /\ Number(r).obj = Nil /\ Number(r) # NilSlot
      /\ NilSlot.link = 0 /\ NilSlot.obj = Nil
  BY <1>1 DEF Number, NilSlot
<1>6. \A s \in Slots : u[s].link = IF s = 0 THEN r ELSE 0
  BY <1>4, <1>5
<1>7. Listed(u) = {0, r}
  BY <1>1, <1>6 DEF Listed, Linked
<1>8. OneContent(u) /\ OnePredecessor(u)
  BY <1>1, <1>4, <1>5, <1>6 DEF OneContent, OnePredecessor
<1>9. ListedAreFree(u) /\ OneEnd(u)
  BY <1>4, <1>5, <1>7 DEF ListedAreFree, OneEnd
<1> QED
  BY <1>1, <1>4, <1>8, <1>9 DEF FreeList


-----------------------------------------------------------------------------
(* What the steps do to the placement of a value.                          *)

\* Taking a reference for the value w leaves another value where it is ...
LEMMA PlacedRef ==
    ASSUME NEW t \in Tables, FreeList(t), NEW w \in LuaObjects,
           NEW r \in FreshRefs(t, w), NEW v \in LuaObjects, v # w,
           NEW q \in Slots, Placed(t, v, q)
    PROVE  Placed(RefTable(t, w, r), v, q)
<1>1. /\ r \in Refs /\ t[r].obj = Nil
      /\ RefTable(t, w, r)[r] = Holding(w)
      /\ \A s \in Refs \ {r} : RefTable(t, w, r)[s] = t[s]
  BY RefEffect
<1>2. Holding(w).obj = w /\ Holding(v).obj = v /\ v # Nil
  BY Assumptions DEF Holding
<1>3. q # NoRef => q \in Refs \ {r}
  BY <1>1, <1>2, Assumptions DEF Placed, Slots, Refs, NoRef
<1> QED
  BY <1>1, <1>2, <1>3 DEF Placed

\* ... and puts w, which was nowhere, under that reference.
LEMMA PlacedNew ==
    ASSUME NEW t \in Tables, FreeList(t), NEW w \in LuaObjects,
           NEW r \in FreshRefs(t, w), Placed(t, w, NoRef)
    PROVE  Placed(RefTable(t, w, r), w, r)
<1>1. /\ r \in Refs
      /\ RefTable(t, w, r)[r] = Holding(w)
      /\ \A s \in Refs \ {r} : RefTable(t, w, r)[s] = t[s]
  BY RefEffect
<1>2. \A s \in Refs : t[s].obj # w
  BY Assumptions DEF Placed, Refs, NoRef
<1> QED
  BY <1>1, <1>2 DEF Placed

\* Releasing the reference of an object leaves every other value where it is ...
LEMMA PlacedUnref ==
    ASSUME NEW t \in Tables, FreeList(t), NEW r \in Refs, t[r].obj # Nil,
           NEW v \in LuaObjects, t[r].obj # v,
           NEW q \in Slots, Placed(t, v, q)
    PROVE  Placed(UnrefTable(t, r), v, q)
<1>1. /\ UnrefTable(t, r)[r].obj = Nil
      /\ \A s \in Refs \ {r} : UnrefTable(t, r)[s] = t[s]
  BY UnrefEffect
<1>2. Holding(v).obj = v /\ v # Nil
  BY Assumptions DEF Holding
<1>3. q # NoRef => q \in Refs \ {r}
  BY <1>1, <1>2, Assumptions DEF Placed, Slots, Refs, NoRef
<1> QED
  BY <1>1, <1>2, <1>3 DEF Placed

\* ... and leaves its own value nowhere.
LEMMA PlacedNoMore ==
    ASSUME NEW t \in Tables, FreeList(t), NEW v \in LuaObjects,
           NEW r \in Refs, Placed(t, v, r)
    PROVE  t[r].obj = v /\ v # Nil /\ Placed(UnrefTable(t, r), v, NoRef)
<1>1. t[r].obj = v /\ v # Nil
  BY Assumptions DEF Placed, Refs, NoRef, Holding
<1>2. /\ UnrefTable(t, r)[r].obj = Nil
      /\ \A s \in Refs \ {r} : UnrefTable(t, r)[s] = t[s]
  BY <1>1, UnrefEffect
<1> QED
  BY <1>1, <1>2 DEF Placed

\* The values of different owners are different.
LEMMA Distinct ==
    /\ \A n \in Names : Function(n) \in LuaObjects
    /\ Shader \in LuaObjects /\ ErrorMessage \in LuaObjects
    /\ \A m \in ModelIds, i \in Drawables :
          Mesh(m, i) \in LuaObjects /\ Data(m, i) \in LuaObjects
    /\ \A n, k : Function(n) = Function(k) => n = k
    /\ \A m, i, k, j : Mesh(m, i) = Mesh(k, j) => m = k /\ i = j
    /\ \A m, i, k, j : Data(m, i) = Data(k, j) => m = k /\ i = j
    /\ \A m, i, k, j : Mesh(m, i) # Data(k, j)
    /\ \A n, m, i : Function(n) # Mesh(m, i) /\ Function(n) # Data(m, i)
    /\ \A n : Function(n) # Shader /\ Function(n) # ErrorMessage
    /\ \A m, i : Mesh(m, i) # Shader /\ Mesh(m, i) # ErrorMessage
    /\ \A m, i : Data(m, i) # Shader /\ Data(m, i) # ErrorMessage
<1>1. /\ \A n \in Names : Function(n) \in LuaObjects
      /\ Shader \in LuaObjects /\ ErrorMessage \in LuaObjects
      /\ \A m \in ModelIds, i \in Drawables :
            Mesh(m, i) \in LuaObjects /\ Data(m, i) \in LuaObjects
  BY DEF LuaObjects
<1>2. /\ \A n, k : Function(n) = Function(k) => n = k
      /\ \A m, i, k, j : Mesh(m, i) = Mesh(k, j) => m = k /\ i = j
      /\ \A m, i, k, j : Data(m, i) = Data(k, j) => m = k /\ i = j
  BY DEF Function, Mesh, Data
<1>3. /\ \A m, i, k, j : Mesh(m, i) # Data(k, j)
      /\ \A n, m, i : Function(n) # Mesh(m, i) /\ Function(n) # Data(m, i)
  BY DEF Function, Mesh, Data
<1>4. /\ \A n : Function(n) # Shader /\ Function(n) # ErrorMessage
      /\ \A m, i : Mesh(m, i) # Shader /\ Mesh(m, i) # ErrorMessage
      /\ \A m, i : Data(m, i) # Shader /\ Data(m, i) # ErrorMessage
  BY DEF Function, Mesh, Data, Shader, ErrorMessage
<1> QED
  BY <1>1, <1>2, <1>3, <1>4

-----------------------------------------------------------------------------
(* The invariant is inductive.                                             *)

\* Initially the table is empty, and no name and no object has a reference.
LEMMA InitModelsInv == Init => ModelsInv
<1> SUFFICES ASSUME Init PROVE ModelsInv
  OBVIOUS
<1> USE Assumptions DEF Init
<1>1. /\ \A s \in Slots : tbl[s] = NilSlot
      /\ NilSlot.obj = Nil /\ NilSlot.link = 0
  BY DEF EmptyTable, NilSlot
<1>2. TypeOK
  <2>1. tbl \in Tables
    BY <1>1 DEF EmptyTable, Tables, Slot, Slots, Values, NilSlot
  <2>2. refs \in [ModelIds -> [Drawables -> [meshRefID : Slots, tableRefID : Slots]]]
    BY DEF NoRefs, NoRef, Slots
  <2>3. namedRef \in [Names -> RefIds \cup {Absent}] /\ stencilFragRef \in RefIds
    BY DEF RefIds
  <2>4. opening \in 0 .. Len(NameOrder) /\ sessions \in 1 .. MaxSessions
    BY SessionsAssumption
  <2> QED
    BY <2>1, <2>2, <2>3, <2>4 DEF TypeOK
<1>3. FreeList(tbl)
  <2>1. Listed(tbl) = {0}
    BY <1>1 DEF Listed, Linked, Slots
  <2> QED
    BY <1>1, <2>1 DEF FreeList, OneContent, OnePredecessor, ListedAreFree, OneEnd, Slots
<1>4. Phases /\ Released
  BY DEF Phases, Released
<1>5. Placements
  <2>1. \A v \in LuaObjects : Placed(tbl, v, NoRef)
    BY <1>1 DEF Placed, Slots, Refs
  <2> QED
    BY <2>1, Distinct DEF Placements, NoRefs
<1>6. Stencil
  BY DEF Stencil
<1>7. NamesBound
  BY <1>1 DEF NamesBound, Unlinked, Absent, RefNil
<1> QED
  BY <1>2, <1>3, <1>4, <1>5, <1>6, <1>7 DEF ModelsInv

\* A step that leaves the slots of the functions alone keeps the names bound.
LEMMA NamesKept ==
    ASSUME ModelsInv, opened,
           UNCHANGED <<namedRef, rebinding, opened, opening>>,
           \A s \in Refs, n \in Names : tbl[s] = Holding(Function(n)) => tbl'[s] = tbl[s]
    PROVE  NamesBound'
<1> USE DEF ModelsInv
<1>1. \A n \in Names : Bound(n) => Bound(n)'
  BY DEF Bound, TypeOK, NamesBound, RefIds
<1>2. \A j \in 1 .. (opening - 1) : NameOrder[j] \in Names
  BY Assumptions DEF TypeOK
<1>3. \A j \in 1 .. (opening - 1) : Bound(NameOrder[j])'
  BY <1>1, <1>2 DEF NamesBound
<1>4. \A n \in Names \ {rebinding} : Bound(n)'
  BY <1>1 DEF NamesBound
<1> QED
  BY <1>3, <1>4 DEF NamesBound

\* So does one that leaves the slot of the shader alone, for the shader.
LEMMA StencilKept ==
    ASSUME ModelsInv, UNCHANGED <<stencilFragRef, staticLink>>,
           \A s \in Refs : tbl[s] \in {Holding(Shader), Holding(ErrorMessage)} => tbl'[s] = tbl[s],
           \A m \in ModelIds : status'[m] = "live" \/ refs'[m] # NoRefs => stencilFragRef # RefNil
    PROVE  Stencil'
  BY DEF ModelsInv, Stencil, TypeOK, RefIds

\* The steps that only change what becomes of an object.
LEMMA StatusStep ==
    ASSUME ModelsInv, UNCHANGED <<tbl, statics, rebinding, session, refs, staticLink>>,
           NEW m \in ModelIds, New(m) \/ Return(m) \/ Discard(m) \/ Abort(m)
                               \/ Drop(m) \/ Finalize(m) \/ Destroyed(m)
    PROVE  ModelsInv'
<1> USE DEF ModelsInv, statics, session
<1>1. PICK x \in {"none", "constructing", "live", "dropped", "finalizing", "discarding", "aborted"} :
        status' = [status EXCEPT ![m] = x]
  BY DEF New, Return, Discard, Abort, Drop, Finalize, Destroyed
<1>2. opened
  BY DEF Phases, New, Return, Discard, Abort, Drop, Finalize, Destroyed, Constructing, Destructing
<1>3. x = "none" => refs[m] = NoRefs
  BY <1>1 DEF New, Return, Discard, Abort, Drop, Finalize, Destroyed, TypeOK
<1>4. x \in {"constructing", "discarding"} => opening = 0
  BY <1>1 DEF New, Return, Discard, Abort, Drop, Finalize, Destroyed, TypeOK, Idle, Phases,
              Constructing
<1>5. x = "live" => refs[m] # NoRefs
  <2>1. x = "live" => refs[m][1].tableRefID # NoRef
    BY <1>1, Assumptions DEF New, Return, Discard, Abort, Drop, Finalize, Destroyed, TypeOK
  <2> QED
    BY <2>1, Assumptions DEF NoRefs
<1>6. TypeOK'
  BY <1>1 DEF TypeOK
<1>7. Phases'
  BY <1>1, <1>2, <1>4 DEF Phases, TypeOK
<1>8. Placements'
  BY DEF Placements
<1>9. Released'
  BY <1>1, <1>3 DEF Released, TypeOK
<1>10. Stencil'
  <2>1. \A k \in ModelIds : status'[k] = "live" \/ refs'[k] # NoRefs => stencilFragRef # RefNil
    BY <1>1, <1>5 DEF Stencil, TypeOK
  <2> QED
    BY <2>1, StencilKept
<1>11. NamesBound'
  BY <1>2, NamesKept
<1> QED
  BY <1>6, <1>7, <1>8, <1>9, <1>10, <1>11

\* luaopen begins, luaopen stops with an error, lua_close begins.
LEMMA PhaseStep ==
    ASSUME ModelsInv, Open \/ OpenFails \/ Close, UNCHANGED staticLink
    PROVE  ModelsInv'
<1> USE DEF ModelsInv, statics
<1>1. UNCHANGED <<tbl, namedRef, stencilFragRef, rebinding, opened, status, refs>>
  BY DEF Open, OpenFails, Close
<1>2. rebinding = NoName /\ (opening' # 0 => Open)
  BY DEF Open, OpenFails, Close, Idle, Phases
<1>3. TypeOK'
  <2>1. opening' \in 0 .. Len(NameOrder)
    <3>1. Len(NameOrder) \in Nat \ {0}
      BY Assumptions
    <3>2. opening' \in {0, 1, opening} /\ opening \in 0 .. Len(NameOrder)
      BY DEF TypeOK, Open, OpenFails, Close
    <3> QED
      BY <3>1, <3>2
  <2>2. sessions' = sessions /\ closing' \in BOOLEAN
    BY DEF TypeOK, Open, OpenFails, Close
  <2> QED
    BY <1>1, <2>1, <2>2 DEF TypeOK
<1>4. Phases'
  <2>1. closing' => opening' = 0 /\ sessions' < MaxSessions
    BY DEF Open, OpenFails, Close, Idle, Phases
  <2>2. opening' # 0 => \A m \in ModelIds : status'[m] \notin {"constructing", "discarding"}
    BY <1>1, <1>2 DEF Open, Idle
  <2> QED
    BY <1>1, <1>2, <2>1, <2>2 DEF Phases
<1>5. Placements' /\ Released'
  BY <1>1 DEF Placements, Released
<1>6. Stencil'
  BY <1>1 DEF Stencil
<1>7. NamesBound'
  <2>1. 1 .. (opening' - 1) = {}
    BY DEF Open, OpenFails, Close, Idle
  <2> QED
    BY <1>1, <2>1 DEF NamesBound, Bound, Unlinked
<1> QED
  BY <1>1, <1>3, <1>4, <1>5, <1>6, <1>7

\* Taking a reference leaves the slots of other values alone.
LEMMA SlotsKept ==
    ASSUME TypeOK, FreeList(tbl), NEW w \in LuaObjects, NEW r \in FreshRefs(tbl, w),
           tbl' = RefTable(tbl, w, r)
    PROVE  /\ r \in Refs /\ tbl' \in Tables /\ FreeList(tbl') /\ tbl'[r] = Holding(w)
           /\ \A v \in LuaObjects, s \in Refs : tbl[s] = Holding(v) => tbl'[s] = tbl[s]
<1>1. \A v \in LuaObjects : Holding(v).obj # Nil
  BY Assumptions DEF Holding
<1> QED
  BY <1>1, RefEffect DEF TypeOK

\* The stencil shader.
LEMMA NewStencilStep ==
    ASSUME ModelsInv, NEW m \in ModelIds, NewStencil(m), UNCHANGED staticLink
    PROVE  ModelsInv'
<1> USE DEF ModelsInv, session
<1>a. PICK v \in {Shader, ErrorMessage} :
        \E r \in FreshRefs(tbl, v) : tbl' = RefTable(tbl, v, r) /\ stencilFragRef' = r
  BY DEF NewStencil
<1>1. PICK r \in FreshRefs(tbl, v) : tbl' = RefTable(tbl, v, r) /\ stencilFragRef' = r
  BY <1>a
<1>2. UNCHANGED <<namedRef, rebinding, session, status, refs>> /\ opened
  BY DEF NewStencil, Constructing, Phases
<1>3. v \in LuaObjects
  BY Distinct
<1>4. /\ r \in Refs /\ tbl' \in Tables /\ FreeList(tbl') /\ tbl'[r] = Holding(v)
      /\ \A w \in LuaObjects, s \in Refs : tbl[s] = Holding(w) => tbl'[s] = tbl[s]
  BY <1>1, <1>3, SlotsKept
<1>5. TypeOK'
  BY <1>1, <1>2, <1>4 DEF TypeOK, RefIds
<1>6. Phases' /\ Released'
  BY <1>2 DEF Phases, Released
<1>7. Placements'
  <2>1. ASSUME NEW k \in ModelIds, NEW i \in Drawables
        PROVE  /\ Placed(tbl', Mesh(k, i), refs[k][i].meshRefID)
               /\ Placed(tbl', Data(k, i), refs[k][i].tableRefID)
    <3>1. /\ Mesh(k, i) # v /\ Data(k, i) # v
          /\ Mesh(k, i) \in LuaObjects /\ Data(k, i) \in LuaObjects
      BY Distinct
    <3>2. refs[k][i].meshRefID \in Slots /\ refs[k][i].tableRefID \in Slots
      BY DEF TypeOK
    <3> QED
      BY <1>1, <1>3, <3>1, <3>2, PlacedRef DEF Placements, TypeOK
  <2> QED
    BY <1>2, <2>1 DEF Placements
<1>8. Stencil'
  BY <1>1, <1>4, Assumptions DEF Stencil, RefNil, Refs
<1>9. NamesBound'
  BY <1>2, <1>4, Distinct, NamesKept
<1> QED
  BY <1>4, <1>5, <1>6, <1>7, <1>8, <1>9

\* One reference of one mesh is written.
LEMMA RefsTyped ==
    ASSUME TypeOK, NEW m \in ModelIds, NEW i \in Drawables, NEW r \in Slots,
           \/ refs' = [refs EXCEPT ![m][i].meshRefID = r]
           \/ refs' = [refs EXCEPT ![m][i].tableRefID = r]
    PROVE  refs' \in [ModelIds -> [Drawables -> [meshRefID : Slots, tableRefID : Slots]]]
<1> DEFINE R == [meshRefID : Slots, tableRefID : Slots]
<1>1. refs[m] \in [Drawables -> R] /\ refs[m][i] \in R
  BY DEF TypeOK
<1>2. [refs[m][i] EXCEPT !.meshRefID = r] \in R /\ [refs[m][i] EXCEPT !.tableRefID = r] \in R
  BY <1>1
<1>3. PICK x \in R : refs' = [refs EXCEPT ![m][i] = x]
  BY <1>2
<1>4. [refs[m] EXCEPT ![i] = x] \in [Drawables -> R]
  BY <1>1
<1> HIDE DEF R
<1> QED
  BY <1>3, <1>4 DEF TypeOK, R

\* A mesh.
LEMMA NewMeshStep ==
    ASSUME ModelsInv, NEW m \in ModelIds, NEW i \in Drawables, NewMesh(m, i),
           UNCHANGED staticLink
    PROVE  ModelsInv'
<1> USE DEF ModelsInv, statics, session
<1>1. PICK r \in FreshRefs(tbl, Mesh(m, i)) :
        /\ tbl' = RefTable(tbl, Mesh(m, i), r)
        /\ refs' = [refs EXCEPT ![m][i].meshRefID = r]
  BY DEF NewMesh
<1>2. /\ UNCHANGED <<statics, rebinding, session, status>> /\ opened
      /\ stencilFragRef # RefNil /\ refs[m][i].meshRefID = NoRef
      /\ status[m] = "constructing"
  BY DEF NewMesh, Constructing, Phases
<1>3. Mesh(m, i) \in LuaObjects
  BY Distinct
<1>4. /\ r \in Refs /\ tbl' \in Tables /\ FreeList(tbl') /\ tbl'[r] = Holding(Mesh(m, i))
      /\ \A w \in LuaObjects, s \in Refs : tbl[s] = Holding(w) => tbl'[s] = tbl[s]
  BY <1>1, <1>3, SlotsKept
<1>5. \A k \in ModelIds, j \in Drawables :
        /\ refs'[k][j].meshRefID = IF k = m /\ j = i THEN r ELSE refs[k][j].meshRefID
        /\ refs'[k][j].tableRefID = refs[k][j].tableRefID
        /\ refs[k][j].meshRefID \in Slots /\ refs[k][j].tableRefID \in Slots
  BY <1>1 DEF TypeOK
<1>6. TypeOK'
  <2>1. r \in Slots
    BY <1>4, Assumptions DEF Refs, Slots
  <2>2. refs' \in [ModelIds -> [Drawables -> [meshRefID : Slots, tableRefID : Slots]]]
    BY <1>1, <2>1, RefsTyped
  <2> QED
    BY <1>2, <1>4, <2>2 DEF TypeOK
<1>7. Phases' /\ Released'
  BY <1>1, <1>2 DEF Phases, Released, TypeOK
<1>8. Placements'
  <2>1. ASSUME NEW k \in ModelIds, NEW j \in Drawables
        PROVE  Placed(tbl', Mesh(k, j), refs'[k][j].meshRefID)
    <3>1. CASE k = m /\ j = i
      BY <1>1, <1>2, <1>3, <1>5, <3>1, PlacedNew DEF Placements, TypeOK
    <3>2. CASE ~ (k = m /\ j = i)
      <4>1. Mesh(k, j) # Mesh(m, i) /\ Mesh(k, j) \in LuaObjects
        BY <3>2, Distinct
      <4> QED
        BY <1>1, <1>3, <1>5, <3>2, <4>1, PlacedRef DEF Placements, TypeOK
    <3> QED
      BY <3>1, <3>2
  <2>2. ASSUME NEW k \in ModelIds, NEW j \in Drawables
        PROVE  Placed(tbl', Data(k, j), refs'[k][j].tableRefID)
    <3>1. Data(k, j) # Mesh(m, i) /\ Data(k, j) \in LuaObjects
      BY Distinct
    <3> QED
      BY <1>1, <1>3, <1>5, <3>1, PlacedRef DEF Placements, TypeOK
  <2> QED
    BY <2>1, <2>2 DEF Placements
<1>9. Stencil'
  BY <1>2, <1>4, Distinct, StencilKept
<1>10. NamesBound'
  BY <1>2, <1>4, Distinct, NamesKept
<1> QED
  BY <1>4, <1>6, <1>7, <1>8, <1>9, <1>10

\* The vertex data of a mesh.
LEMMA NewDataStep ==
    ASSUME ModelsInv, NEW m \in ModelIds, NEW i \in Drawables, NewData(m, i),
           UNCHANGED staticLink
    PROVE  ModelsInv'
<1> USE DEF ModelsInv, statics, session
<1>1. PICK r \in FreshRefs(tbl, Data(m, i)) :
        /\ tbl' = RefTable(tbl, Data(m, i), r)
        /\ refs' = [refs EXCEPT ![m][i].tableRefID = r]
  BY DEF NewData
<1>2. /\ UNCHANGED <<statics, rebinding, session, status>> /\ opened
      /\ refs[m] # NoRefs /\ refs[m][i].tableRefID = NoRef
      /\ status[m] = "constructing"
  BY DEF NewData, Constructing, Phases, NoRefs
<1>3. Data(m, i) \in LuaObjects
  BY Distinct
<1>4. /\ r \in Refs /\ tbl' \in Tables /\ FreeList(tbl') /\ tbl'[r] = Holding(Data(m, i))
      /\ \A w \in LuaObjects, s \in Refs : tbl[s] = Holding(w) => tbl'[s] = tbl[s]
  BY <1>1, <1>3, SlotsKept
<1>5. \A k \in ModelIds, j \in Drawables :
        /\ refs'[k][j].tableRefID = IF k = m /\ j = i THEN r ELSE refs[k][j].tableRefID
        /\ refs'[k][j].meshRefID = refs[k][j].meshRefID
        /\ refs[k][j].meshRefID \in Slots /\ refs[k][j].tableRefID \in Slots
  BY <1>1 DEF TypeOK
<1>6. TypeOK'
  <2>1. r \in Slots
    BY <1>4, Assumptions DEF Refs, Slots
  <2>2. refs' \in [ModelIds -> [Drawables -> [meshRefID : Slots, tableRefID : Slots]]]
    BY <1>1, <2>1, RefsTyped
  <2> QED
    BY <1>2, <1>4, <2>2 DEF TypeOK
<1>7. Phases' /\ Released'
  BY <1>1, <1>2 DEF Phases, Released, TypeOK
<1>8. Placements'
  <2>1. ASSUME NEW k \in ModelIds, NEW j \in Drawables
        PROVE  Placed(tbl', Data(k, j), refs'[k][j].tableRefID)
    <3>1. CASE k = m /\ j = i
      BY <1>1, <1>2, <1>3, <1>5, <3>1, PlacedNew DEF Placements, TypeOK
    <3>2. CASE ~ (k = m /\ j = i)
      <4>1. Data(k, j) # Data(m, i) /\ Data(k, j) \in LuaObjects
        BY <3>2, Distinct
      <4> QED
        BY <1>1, <1>3, <1>5, <3>2, <4>1, PlacedRef DEF Placements, TypeOK
    <3> QED
      BY <3>1, <3>2
  <2>2. ASSUME NEW k \in ModelIds, NEW j \in Drawables
        PROVE  Placed(tbl', Mesh(k, j), refs'[k][j].meshRefID)
    <3>1. Mesh(k, j) # Data(m, i) /\ Mesh(k, j) \in LuaObjects
      BY Distinct
    <3> QED
      BY <1>1, <1>3, <1>5, <3>1, PlacedRef DEF Placements, TypeOK
  <2> QED
    BY <2>1, <2>2 DEF Placements
<1>9. Stencil'
  <2>1. \A k \in ModelIds : status'[k] = "live" \/ refs'[k] # NoRefs => stencilFragRef # RefNil
    BY <1>1, <1>2 DEF Stencil, TypeOK
  <2> QED
    BY <1>2, <1>4, <2>1, Distinct, StencilKept
<1>10. NamesBound'
  BY <1>2, <1>4, Distinct, NamesKept
<1> QED
  BY <1>4, <1>6, <1>7, <1>8, <1>9, <1>10

\* Releasing the reference of an object leaves the slots of other values alone.
LEMMA SlotsLeft ==
    ASSUME TypeOK, FreeList(tbl), NEW w \in LuaObjects, NEW r \in Refs,
           Placed(tbl, w, r), tbl' = UnrefTable(tbl, r)
    PROVE  /\ tbl' \in Tables /\ FreeList(tbl') /\ tbl[r].obj = w /\ w # Nil
           /\ \A v \in LuaObjects, s \in Refs :
                 v # w /\ tbl[s] = Holding(v) => tbl'[s] = tbl[s]
<1>1. tbl[r].obj = w /\ w # Nil
  BY PlacedNoMore DEF TypeOK
<1>2. /\ tbl' \in Tables /\ FreeList(tbl')
      /\ \A s \in Refs \ {r} : tbl'[s] = tbl[s]
  BY <1>1, UnrefEffect DEF TypeOK
<1>3. \A v \in LuaObjects : tbl[r] = Holding(v) => v = w
  BY <1>1 DEF Holding
<1> QED
  BY <1>1, <1>2, <1>3

\* ~Live2LOVE: the vertex data of a mesh.
LEMMA DeleteDataStep ==
    ASSUME ModelsInv, NEW m \in ModelIds, NEW i \in Drawables, DeleteData(m, i),
           UNCHANGED staticLink
    PROVE  ModelsInv'
<1> USE DEF ModelsInv, statics, session
<1> DEFINE r == refs[m][i].tableRefID
<1>1. /\ tbl' = UnrefTable(tbl, r) /\ r # NoRef
      /\ refs' = [refs EXCEPT ![m][i].tableRefID = NoRef]
  BY DEF DeleteData
<1>2. /\ UNCHANGED <<statics, rebinding, session, status>> /\ opened
      /\ status[m] \in {"finalizing", "discarding"}
  BY DEF DeleteData, Releasing, Destructing, Phases
<1>3. Data(m, i) \in LuaObjects /\ r \in Refs /\ Placed(tbl, Data(m, i), r)
  <2>1. r \in Slots
    BY DEF TypeOK
  <2> QED
    BY <1>1, <2>1, Distinct, Assumptions DEF Placements, Slots, Refs, NoRef
<1>4. /\ tbl' \in Tables /\ FreeList(tbl') /\ tbl[r].obj = Data(m, i) /\ Data(m, i) # Nil
      /\ \A v \in LuaObjects, s \in Refs :
            v # Data(m, i) /\ tbl[s] = Holding(v) => tbl'[s] = tbl[s]
  BY <1>1, <1>3, SlotsLeft
<1>5. \A k \in ModelIds, j \in Drawables :
        /\ refs'[k][j].tableRefID = IF k = m /\ j = i THEN NoRef ELSE refs[k][j].tableRefID
        /\ refs'[k][j].meshRefID = refs[k][j].meshRefID
        /\ refs[k][j].meshRefID \in Slots /\ refs[k][j].tableRefID \in Slots
  BY <1>1 DEF TypeOK
<1>6. TypeOK'
  <2>1. NoRef \in Slots
    BY Assumptions DEF NoRef, Slots
  <2>2. refs' \in [ModelIds -> [Drawables -> [meshRefID : Slots, tableRefID : Slots]]]
    BY <1>1, <2>1, RefsTyped
  <2> QED
    BY <1>2, <1>4, <2>2 DEF TypeOK
<1>7. Phases' /\ Released'
  BY <1>1, <1>2 DEF Phases, Released, TypeOK
<1>8. Placements'
  <2>1. ASSUME NEW k \in ModelIds, NEW j \in Drawables
        PROVE  Placed(tbl', Data(k, j), refs'[k][j].tableRefID)
    <3>1. CASE k = m /\ j = i
      BY <1>1, <1>3, <1>5, <3>1, PlacedNoMore DEF TypeOK
    <3>2. CASE ~ (k = m /\ j = i)
      <4>1. Data(k, j) # Data(m, i) /\ Data(k, j) \in LuaObjects
        BY <3>2, Distinct
      <4> QED
        BY <1>1, <1>3, <1>4, <1>5, <3>2, <4>1, PlacedUnref DEF Placements, TypeOK
    <3> QED
      BY <3>1, <3>2
  <2>2. ASSUME NEW k \in ModelIds, NEW j \in Drawables
        PROVE  Placed(tbl', Mesh(k, j), refs'[k][j].meshRefID)
    <3>1. Mesh(k, j) # Data(m, i) /\ Mesh(k, j) \in LuaObjects
      BY Distinct
    <3> QED
      BY <1>1, <1>3, <1>4, <1>5, <3>1, PlacedUnref DEF Placements, TypeOK
  <2> QED
    BY <2>1, <2>2 DEF Placements
<1>9. Stencil'
  <2>1. refs[m] # NoRefs
    BY <1>1 DEF NoRefs
  <2>2. \A k \in ModelIds : status'[k] = "live" \/ refs'[k] # NoRefs => stencilFragRef # RefNil
    BY <1>1, <1>2, <2>1 DEF Stencil, TypeOK
  <2> QED
    BY <1>2, <1>4, <2>2, Distinct, StencilKept
<1>10. NamesBound'
  BY <1>2, <1>4, Distinct, NamesKept
<1> QED
  BY <1>4, <1>6, <1>7, <1>8, <1>9, <1>10

\* ~Live2LOVE: the mesh.
LEMMA DeleteMeshStep ==
    ASSUME ModelsInv, NEW m \in ModelIds, NEW i \in Drawables, DeleteMesh(m, i),
           UNCHANGED staticLink
    PROVE  ModelsInv'
<1> USE DEF ModelsInv, statics, session
<1> DEFINE r == refs[m][i].meshRefID
<1>1. /\ tbl' = UnrefTable(tbl, r) /\ r # NoRef
      /\ refs' = [refs EXCEPT ![m][i].meshRefID = NoRef]
  BY DEF DeleteMesh
<1>2. /\ UNCHANGED <<statics, rebinding, session, status>> /\ opened
      /\ status[m] \in {"finalizing", "discarding"}
  BY DEF DeleteMesh, Releasing, Destructing, Phases
<1>3. Mesh(m, i) \in LuaObjects /\ r \in Refs /\ Placed(tbl, Mesh(m, i), r)
  <2>1. r \in Slots
    BY DEF TypeOK
  <2> QED
    BY <1>1, <2>1, Distinct, Assumptions DEF Placements, Slots, Refs, NoRef
<1>4. /\ tbl' \in Tables /\ FreeList(tbl') /\ tbl[r].obj = Mesh(m, i) /\ Mesh(m, i) # Nil
      /\ \A v \in LuaObjects, s \in Refs :
            v # Mesh(m, i) /\ tbl[s] = Holding(v) => tbl'[s] = tbl[s]
  BY <1>1, <1>3, SlotsLeft
<1>5. \A k \in ModelIds, j \in Drawables :
        /\ refs'[k][j].meshRefID = IF k = m /\ j = i THEN NoRef ELSE refs[k][j].meshRefID
        /\ refs'[k][j].tableRefID = refs[k][j].tableRefID
        /\ refs[k][j].meshRefID \in Slots /\ refs[k][j].tableRefID \in Slots
  BY <1>1 DEF TypeOK
<1>6. TypeOK'
  <2>1. NoRef \in Slots
    BY Assumptions DEF NoRef, Slots
  <2>2. refs' \in [ModelIds -> [Drawables -> [meshRefID : Slots, tableRefID : Slots]]]
    BY <1>1, <2>1, RefsTyped
  <2> QED
    BY <1>2, <1>4, <2>2 DEF TypeOK
<1>7. Phases' /\ Released'
  BY <1>1, <1>2 DEF Phases, Released, TypeOK
<1>8. Placements'
  <2>1. ASSUME NEW k \in ModelIds, NEW j \in Drawables
        PROVE  Placed(tbl', Mesh(k, j), refs'[k][j].meshRefID)
    <3>1. CASE k = m /\ j = i
      BY <1>1, <1>3, <1>5, <3>1, PlacedNoMore DEF TypeOK
    <3>2. CASE ~ (k = m /\ j = i)
      <4>1. Mesh(k, j) # Mesh(m, i) /\ Mesh(k, j) \in LuaObjects
        BY <3>2, Distinct
      <4> QED
        BY <1>1, <1>3, <1>4, <1>5, <3>2, <4>1, PlacedUnref DEF Placements, TypeOK
    <3> QED
      BY <3>1, <3>2
  <2>2. ASSUME NEW k \in ModelIds, NEW j \in Drawables
        PROVE  Placed(tbl', Data(k, j), refs'[k][j].tableRefID)
    <3>1. Data(k, j) # Mesh(m, i) /\ Data(k, j) \in LuaObjects
      BY Distinct
    <3> QED
      BY <1>1, <1>3, <1>4, <1>5, <3>1, PlacedUnref DEF Placements, TypeOK
  <2> QED
    BY <2>1, <2>2 DEF Placements
<1>9. Stencil'
  <2>1. refs[m] # NoRefs
    BY <1>1 DEF NoRefs
  <2>2. \A k \in ModelIds : status'[k] = "live" \/ refs'[k] # NoRefs => stencilFragRef # RefNil
    BY <1>1, <1>2, <2>1 DEF Stencil, TypeOK
  <2> QED
    BY <1>2, <1>4, <2>2, Distinct, StencilKept
<1>10. NamesBound'
  BY <1>2, <1>4, Distinct, NamesKept
<1> QED
  BY <1>4, <1>6, <1>7, <1>8, <1>9, <1>10

-----------------------------------------------------------------------------
(* luaopen.                                                                *)

\* Before luaopen has returned no object has a reference.
LEMMA NoObjects ==
    ASSUME ModelsInv, ~opened, NEW m \in ModelIds, NEW i \in Drawables
    PROVE  refs[m][i].meshRefID = NoRef /\ refs[m][i].tableRefID = NoRef
  BY DEF ModelsInv, Phases, Released, NoRefs

\* The release of a name's reference, bound in this Lua state or in an earlier
\* one.
LEMMA ReleaseEffect ==
    ASSUME ModelsInv, OpenRelease
    PROVE  LET n == NameOrder[opening]
               r == namedRef[n]
           IN  /\ n \in Names /\ r \in Refs
               /\ tbl[r] \in {Holding(Function(n)), NilSlot}
               /\ tbl' \in Tables /\ FreeList(tbl')
               /\ tbl'[r].obj = Nil
               /\ \A s \in Refs \ {r} : tbl'[s] = tbl[s]
               /\ ~opened => tbl'[0] = Number(r) /\ tbl'[r] = NilSlot
<1> USE DEF ModelsInv
<1> DEFINE n == NameOrder[opening]
           r == namedRef[n]
<1>1. opening # 0 /\ rebinding = NoName /\ r # Absent /\ tbl' = UnrefTable(tbl, r)
  BY DEF OpenRelease
<1>2. n \in Names
  <2>1. opening \in 1 .. Len(NameOrder)
    BY <1>1, Assumptions DEF TypeOK
  <2> QED
    BY <2>1, Assumptions
<1>3. r \in Refs /\ r \in Slots
  <2>1. r \in RefIds /\ r # RefNil
    BY <1>1, <1>2 DEF TypeOK, NamesBound
  <2> QED
    BY <2>1, Assumptions DEF RefIds, Refs, Slots
<1>4. n # rebinding
  BY <1>1, <1>2, Assumptions
<1>5. ~opened => \A s \in Slots : tbl[s].link = 0
  BY <1>1, Assumptions DEF NamesBound, Unlinked
<1>6. CASE tbl[r] = Holding(Function(n))
  <2>1. tbl[r].obj # Nil
    BY <1>2, <1>6, Distinct, Assumptions DEF Holding
  <2>2. /\ tbl' \in Tables /\ FreeList(tbl') /\ tbl'[r].obj = Nil
        /\ \A s \in Refs \ {r} : tbl'[s] = tbl[s]
    BY <1>1, <1>3, <2>1, UnrefEffect DEF TypeOK
  <2>3. ~opened => tbl'[0] = Number(r) /\ tbl'[r] = NilSlot
    <3>1. 0 \in Slots /\ r # 0 /\ r # RefNil
      BY <1>3, Assumptions DEF Slots, Refs, RefNil
    <3>2. tbl' = [tbl EXCEPT ![r] = tbl[0], ![0] = Number(r)]
      BY <1>1, <3>1 DEF UnrefTable
    <3>3. tbl[0].obj = Nil /\ tbl[0] \in Slot
      BY <3>1 DEF FreeList, ListedAreFree, Listed, TypeOK, Tables
    <3>4. ~opened => tbl[0] = NilSlot
      BY <3>1, <3>3, <1>5 DEF Slot, NilSlot
    <3> QED
      BY <1>3, <3>1, <3>2, <3>4 DEF TypeOK, Tables
  <2> QED
    BY <1>2, <1>3, <1>6, <2>2, <2>3
<1>7. CASE tbl[r] # Holding(Function(n))
  <2>1. ~opened /\ tbl[r] = NilSlot
    BY <1>1, <1>2, <1>4, <1>7 DEF NamesBound, Bound
  <2>2. /\ tbl' \in Tables /\ FreeList(tbl') /\ tbl'[r] = NilSlot
        /\ \A s \in Refs \ {r} : tbl'[s] = tbl[s]
        /\ tbl'[0] = Number(r)
    BY <1>1, <1>3, <1>5, <2>1, StaleUnref DEF TypeOK
  <2>3. NilSlot.obj = Nil
    BY DEF NilSlot
  <2> QED
    BY <1>2, <1>3, <2>1, <2>2, <2>3
<1> QED
  BY <1>6, <1>7

\* setRef(L, name, function) releases the old reference.
LEMMA OpenReleaseStep ==
    ASSUME ModelsInv, OpenRelease, UNCHANGED staticLink
    PROVE  ModelsInv'
<1> USE DEF ModelsInv, statics, session
<1> DEFINE n == NameOrder[opening]
           r == namedRef[n]
<1>1. /\ opening # 0 /\ rebinding = NoName /\ r # Absent /\ rebinding' = n
      /\ UNCHANGED <<statics, session, status, refs>>
  BY DEF OpenRelease
<1>2. /\ n \in Names /\ r \in Refs
      /\ tbl[r] \in {Holding(Function(n)), NilSlot}
      /\ tbl' \in Tables /\ FreeList(tbl')
      /\ tbl'[r].obj = Nil
      /\ \A s \in Refs \ {r} : tbl'[s] = tbl[s]
      /\ ~opened => tbl'[0] = Number(r) /\ tbl'[r] = NilSlot
  BY ReleaseEffect
<1>3. \A v \in LuaObjects, s \in Refs :
        v # Function(n) /\ tbl[s] = Holding(v) => tbl'[s] = tbl[s]
  BY <1>2, Assumptions DEF Holding, NilSlot
<1>4. TypeOK'
  BY <1>1, <1>2 DEF TypeOK
<1>5. Phases' /\ Released'
  BY <1>1 DEF Phases, Released
<1>6. Placements'
  <2>1. ASSUME NEW v \in LuaObjects, v # Function(n), NEW q \in Slots, Placed(tbl, v, q)
        PROVE  Placed(tbl', v, q)
    <3>1. v # Nil /\ \A s \in Refs : tbl'[s].obj = v => tbl[s].obj = v
      BY <1>2, Assumptions
    <3>2. q # NoRef => tbl'[q] = Holding(v)
      BY <2>1, <1>3, Assumptions DEF Placed, Slots, Refs, NoRef
    <3> QED
      BY <2>1, <3>1, <3>2 DEF Placed
  <2>2. \A m \in ModelIds, i \in Drawables :
          refs[m][i].meshRefID \in Slots /\ refs[m][i].tableRefID \in Slots
    BY DEF TypeOK
  <2> QED
    BY <1>1, <2>1, <2>2, Distinct DEF Placements
<1>7. Stencil'
  <2>1. \A m \in ModelIds : status'[m] = "live" \/ refs'[m] # NoRefs => stencilFragRef # RefNil
    BY <1>1 DEF Stencil
  <2> QED
    BY <1>1, <1>3, <2>1, Distinct, StencilKept
<1>8. NamesBound'
  <2>1. ASSUME NEW k \in Names, k # n, namedRef[k] # Absent
        PROVE  tbl'[namedRef[k]] = tbl[namedRef[k]] /\ (Bound(k) => Bound(k)')
    <3>1. namedRef[k] \in Refs /\ namedRef[k] # r
      BY <1>1, <1>2, <2>1 DEF NamesBound, TypeOK, RefIds
    <3> QED
      BY <1>1, <1>2, <3>1 DEF Bound
  <2>2. \A j \in 1 .. (opening - 1) : NameOrder[j] \in Names /\ NameOrder[j] # n
    <3>1. opening \in 1 .. Len(NameOrder)
      BY <1>1, Assumptions DEF TypeOK
    <3> QED
      BY <3>1, Assumptions, NameOrderAssumption
  <2>3. \A j \in 1 .. (opening - 1) : Bound(NameOrder[j])'
    BY <2>1, <2>2 DEF NamesBound, Bound
  <2>4. opened => \A k \in Names \ {n} : Bound(k)'
    <3>1. opened => \A k \in Names \ {n} : Bound(k)
      BY <1>1, Assumptions DEF NamesBound
    <3> QED
      BY <2>1, <3>1 DEF Bound
  <2>5. ASSUME ~opened, NEW k \in Names, namedRef[k] # Absent
        PROVE  \/ k # n /\ Bound(k)'
               \/ tbl'[namedRef[k]] = NilSlot
    BY <2>5, <2>1, <1>1, <1>2 DEF NamesBound
  <2>6. ASSUME ~opened
        PROVE  \A s \in Slots : tbl'[s].link = IF s = 0 THEN r ELSE 0
    <3>1. \A s \in Slots : tbl[s].link = 0
      BY <2>6, <1>1, Assumptions DEF NamesBound, Unlinked
    <3>2. Number(r).link = r /\ NilSlot.link = 0
      BY DEF Number, NilSlot
    <3>3. \A s \in Slots : s = 0 \/ s = r \/ s \in Refs \ {r}
      BY Assumptions DEF Slots, Refs
    <3>4. r # 0 /\ Refs \subseteq Slots
      BY <1>2, Assumptions DEF Slots, Refs
    <3> QED
      BY <2>6, <1>2, <3>1, <3>2, <3>3, <3>4
  <2> QED
    BY <1>1, <1>2, <2>3, <2>4, <2>5, <2>6 DEF NamesBound, Unlinked
<1> QED
  BY <1>2, <1>4, <1>5, <1>6, <1>7, <1>8

\* The reference that luaL_ref returns for a name is no other name's, also
\* when the map has names from an earlier Lua state.
LEMMA StoreEffect ==
    ASSUME ModelsInv, OpenStore
    PROVE  LET n == NameOrder[opening]
           IN  /\ n \in Names /\ opening \in 1 .. Len(NameOrder)
               /\ rebinding \in {n, NoName}
               /\ \E r \in FreshRefs(tbl, Function(n)) :
                    /\ tbl' = RefTable(tbl, Function(n), r)
                    /\ namedRef' = [namedRef EXCEPT ![n] = r]
                    /\ \A k \in Names \ {n} : namedRef[k] # r
                    /\ ~opened => \A s \in Slots : tbl'[s].link = 0
<1> USE DEF ModelsInv
<1> DEFINE n == NameOrder[opening]
<1>1. opening \in 1 .. Len(NameOrder) /\ n \in Names
  <2>1. opening \in 1 .. Len(NameOrder)
    BY Assumptions DEF TypeOK, OpenStore
  <2> QED
    BY <2>1, Assumptions
<1>2. /\ rebinding \in {n, NoName}
      /\ rebinding = n \/ (namedRef[n] = Absent /\ rebinding = NoName)
  <2>1. rebinding = n \/ namedRef[n] = Absent
    BY DEF OpenStore
  <2>2. rebinding # NoName => rebinding = n /\ namedRef[rebinding] # Absent
    BY DEF Phases, NamesBound
  <2> QED
    BY <2>1, <2>2
<1>3. PICK r \in FreshRefs(tbl, Function(n)) :
        /\ tbl' = RefTable(tbl, Function(n), r)
        /\ namedRef' = [namedRef EXCEPT ![n] = r]
  BY DEF OpenStore
<1>4. Function(n) \in LuaObjects
  BY <1>1, Distinct
<1>5. r \in Refs /\ tbl[r].obj = Nil
  BY <1>3, <1>4, RefEffect DEF TypeOK
<1>6. r # RefNil /\ r # 0 /\ 0 \in Slots /\ r \in Slots
  BY <1>5, Assumptions DEF Refs, Slots, RefNil
<1>7. \A k \in Names : Bound(k) => namedRef[k] # r
  BY <1>5, Distinct, Assumptions DEF Bound, Holding
<1>8. tbl' = [tbl EXCEPT ![0] = IF tbl[0].link # 0 THEN tbl[r] ELSE tbl[0],
                         ![r] = Holding(Function(n))]
  BY <1>3, <1>6 DEF RefTable
<1>9. /\ \A s \in Slots \ {0, r} : tbl'[s] = tbl[s]
      /\ tbl'[0] = IF tbl[0].link # 0 THEN tbl[r] ELSE tbl[0]
      /\ tbl'[r].link = 0
  BY <1>6, <1>8 DEF TypeOK, Tables, Holding
<1>10. CASE opened
  <2>1. \A k \in Names \ {n} : Bound(k)
    BY <1>2, <1>10, Assumptions DEF NamesBound
  <2> QED
    BY <1>1, <1>2, <1>3, <1>7, <1>10, <2>1
<1>11. CASE ~opened /\ rebinding = n
  <2>1. \A s \in Slots : tbl[s].link = IF s = 0 THEN namedRef[n] ELSE 0
    BY <1>1, <1>11 DEF NamesBound, Unlinked
  <2>2. namedRef[n] # Absent /\ tbl[namedRef[n]] = NilSlot
    BY <1>1, <1>11, Assumptions DEF NamesBound
  <2>3. r = namedRef[n]
    BY <1>3, <1>4, <1>6, <2>1, <2>2, Assumptions DEF FreshRefs, Absent
  <2>4. \A k \in Names \ {n} : namedRef[k] # r
    BY <1>1, <2>2, <2>3 DEF NamesBound
  <2>5. \A s \in Slots : tbl'[s].link = 0
    BY <1>6, <1>9, <2>1, <2>2, <2>3 DEF NilSlot
  <2> QED
    BY <1>1, <1>2, <1>3, <2>4, <2>5
<1>12. CASE ~opened /\ namedRef[n] = Absent /\ rebinding = NoName
  <2>1. \A s \in Slots : tbl[s].link = 0
    BY <1>12, Assumptions DEF NamesBound, Unlinked
  <2>2. \A s \in Slots : tbl'[s].link = 0
    BY <1>6, <1>9, <2>1
  <2>3. ASSUME NEW k \in Names \ {n} PROVE namedRef[k] # r
    <3>1. PICK j \in 1 .. Len(NameOrder) : k = NameOrder[j]
      BY Assumptions DEF Names
    <3>2. CASE j < opening
      <4>1. j \in 1 .. (opening - 1)
        BY <1>1, <3>2, Assumptions
      <4> QED
        BY <1>7, <3>1, <4>1 DEF NamesBound
    <3>3. CASE ~ (j < opening)
      <4>1. opening < j
        BY <1>1, <3>1, <3>3, Assumptions
      <4>2. namedRef[NameOrder[j]] = Absent
        BY <1>1, <1>12, <4>1 DEF NamesBound
      <4> QED
        BY <1>6, <3>1, <4>2 DEF Absent
    <3> QED
      BY <3>2, <3>3
  <2> QED
    BY <1>1, <1>2, <1>3, <2>2, <2>3
<1> QED
  BY <1>2, <1>10, <1>11, <1>12

\* setRef(L, name, function) stores the function.
LEMMA OpenStoreStep ==
    ASSUME ModelsInv, OpenStore, UNCHANGED staticLink
    PROVE  ModelsInv'
<1> USE DEF ModelsInv
<1>a. NameOrder[opening] \in Names
  BY StoreEffect
<1>b. PICK n \in Names : n = NameOrder[opening]
  BY <1>a
<1>c. Len(NameOrder) \in Nat \ {0}
  BY Assumptions
<1>1. n \in Names /\ opening \in 1 .. Len(NameOrder) /\ rebinding \in {n, NoName}
  BY <1>b, StoreEffect
<1>2. PICK r \in FreshRefs(tbl, Function(n)) :
        /\ tbl' = RefTable(tbl, Function(n), r)
        /\ namedRef' = [namedRef EXCEPT ![n] = r]
        /\ \A k \in Names \ {n} : namedRef[k] # r
        /\ ~opened => \A s \in Slots : tbl'[s].link = 0
  BY <1>b, StoreEffect
<1>3. /\ rebinding' = NoName
      /\ opening' = IF opening = Len(NameOrder) THEN 0 ELSE opening + 1
      /\ opened' = (opening = Len(NameOrder) \/ opened)
      /\ UNCHANGED <<stencilFragRef, status, refs, closing, sessions>>
      /\ opening # 0
  BY DEF OpenStore
<1>4. Function(n) \in LuaObjects
  BY <1>1, Distinct
<1>5. /\ r \in Refs /\ tbl' \in Tables /\ FreeList(tbl') /\ tbl'[r] = Holding(Function(n))
      /\ \A v \in LuaObjects, s \in Refs : tbl[s] = Holding(v) => tbl'[s] = tbl[s]
      /\ \A s \in Refs \ {r} : tbl'[s] = tbl[s]
  BY <1>2, <1>4, SlotsKept, RefEffect DEF TypeOK
<1>6. TypeOK'
  <2>1. opening' \in 0 .. Len(NameOrder)
    BY <1>1, <1>3, <1>c
  <2>2. namedRef' \in [Names -> RefIds \cup {Absent}]
    BY <1>2, <1>5 DEF TypeOK, RefIds
  <2>3. opened' \in BOOLEAN
    BY <1>3 DEF TypeOK
  <2> QED
    BY <1>3, <1>5, <2>1, <2>2, <2>3 DEF TypeOK
<1>7. Phases' /\ Released'
  <2>1. ~opened' => ~opened
    BY <1>3
  <2> QED
    BY <1>3, <2>1 DEF Phases, Released
<1>8. Placements'
  <2>1. ASSUME NEW m \in ModelIds, NEW i \in Drawables
        PROVE  /\ Placed(tbl', Mesh(m, i), refs[m][i].meshRefID)
               /\ Placed(tbl', Data(m, i), refs[m][i].tableRefID)
    <3>1. /\ Mesh(m, i) # Function(n) /\ Data(m, i) # Function(n)
          /\ Mesh(m, i) \in LuaObjects /\ Data(m, i) \in LuaObjects
      BY Distinct
    <3>2. refs[m][i].meshRefID \in Slots /\ refs[m][i].tableRefID \in Slots
      BY DEF TypeOK
    <3> QED
      BY <1>2, <1>4, <3>1, <3>2, PlacedRef DEF Placements, TypeOK
  <2> QED
    BY <1>3, <2>1 DEF Placements
<1>9. Stencil'
  <2>1. \A m \in ModelIds : status'[m] = "live" \/ refs'[m] # NoRefs => stencilFragRef # RefNil
    BY <1>3 DEF Stencil
  <2> QED
    BY <1>3, <1>5, <2>1, Distinct, StencilKept
<1>10. NamesBound'
  <2>1. namedRef'[n] = r /\ \A k \in Names \ {n} : namedRef'[k] = namedRef[k]
    BY <1>1, <1>2 DEF TypeOK
  <2>2. r # RefNil /\ r # Absent
    BY <1>5, Assumptions DEF Refs, RefNil, Absent
  <2>3. Bound(n)'
    BY <1>5, <2>1, <2>2 DEF Bound
  <2>4. ASSUME NEW k \in Names \ {n}, namedRef[k] # Absent
        PROVE  tbl'[namedRef[k]] = tbl[namedRef[k]] /\ (Bound(k) => Bound(k)')
    <3>1. namedRef[k] \in Refs \ {r}
      BY <1>2, <2>4 DEF NamesBound, TypeOK, RefIds
    <3> QED
      BY <1>5, <2>1, <3>1 DEF Bound
  <2>5. \A k \in Names : Bound(k) => Bound(k)'
    BY <2>3, <2>4 DEF Bound
  <2>6. \A k \in Names : namedRef'[k] # RefNil
    BY <2>1, <2>2 DEF NamesBound
  <2>7. \A k, l \in Names : namedRef'[k] = namedRef'[l] /\ namedRef'[k] # Absent => k = l
    BY <1>1, <1>2, <2>1 DEF NamesBound
  <2>8. \A j \in 1 .. opening : NameOrder[j] \in Names /\ Bound(NameOrder[j])'
    <3> TAKE j \in 1 .. opening
    <3>1. NameOrder[j] \in Names
      BY <1>1, Assumptions
    <3>2. CASE j = opening
      BY <1>b, <2>3, <3>1, <3>2
    <3>3. CASE j # opening
      <4>1. j \in 1 .. (opening - 1)
        BY <1>1, <3>3, Assumptions
      <4> QED
        BY <2>5, <3>1, <4>1 DEF NamesBound
    <3> QED
      BY <3>2, <3>3
  <2>9. \A j \in 1 .. (opening' - 1) : Bound(NameOrder[j])'
    <3>1. (1 .. (opening' - 1)) \subseteq 1 .. opening
      BY <1>1, <1>3, <1>c
    <3> QED
      BY <2>8, <3>1
  <2>10. ASSUME NEW i \in 1 .. Len(NameOrder), NEW j \in 1 .. Len(NameOrder), i < j,
                namedRef'[NameOrder[j]] # Absent
         PROVE  namedRef'[NameOrder[i]] # Absent
    <3>1. NameOrder[i] \in Names /\ NameOrder[j] \in Names
      BY Assumptions
    <3>2. CASE i \in 1 .. opening
      BY <2>8, <3>2 DEF Bound
    <3>3. CASE i \notin 1 .. opening
      <4>1. j # opening /\ i # opening
        BY <1>1, <2>10, <3>3, Assumptions
      <4>2. NameOrder[j] # n /\ NameOrder[i] # n
        BY <1>1, <1>b, <4>1, Assumptions, NameOrderAssumption
      <4> QED
        BY <2>1, <2>10, <3>1, <4>2 DEF NamesBound
    <3> QED
      BY <3>2, <3>3
  <2>11. ASSUME opened', NEW k \in Names PROVE Bound(k)'
    <3>1. CASE opened
      <4>1. k = n \/ Bound(k)
        BY <1>1, <3>1, Assumptions DEF NamesBound
      <4> QED
        BY <2>3, <2>5, <4>1
    <3>2. CASE opening = Len(NameOrder)
      <4>1. PICK j \in 1 .. Len(NameOrder) : k = NameOrder[j]
        BY Assumptions DEF Names
      <4> QED
        BY <2>8, <3>2, <4>1
    <3> QED
      BY <1>3, <2>11, <3>1, <3>2
  <2>12. ASSUME ~opened', NEW k \in Names, namedRef'[k] # Absent
         PROVE  Bound(k)' \/ tbl'[namedRef'[k]] = NilSlot
    <3>1. CASE k = n
      BY <2>3, <3>1
    <3>2. CASE k # n
      BY <1>3, <2>1, <2>4, <2>12, <3>2 DEF NamesBound
    <3> QED
      BY <3>1, <3>2
  <2>13. ~opened' => \A s \in Slots : tbl'[s].link = 0
    BY <1>2, <1>3
  <2> QED
    BY <1>3, <2>6, <2>7, <2>9, <2>10, <2>11, <2>12, <2>13, Assumptions DEF NamesBound, Unlinked
<1> QED
  BY <1>5, <1>6, <1>7, <1>8, <1>9, <1>10

\* The next Lua state: an empty table, no object, and the map of names as it
\* was when the library is linked into LOVE.
LEMMA RestartStep ==
    ASSUME ModelsInv, Restart, UNCHANGED staticLink
    PROVE  ModelsInv'
<1> USE DEF ModelsInv
<1>1. /\ closing /\ closing' = FALSE /\ sessions' = sessions + 1 /\ opened' = FALSE
      /\ tbl' = EmptyTable
      /\ status' = [m \in ModelIds |-> "none"]
      /\ refs' = [m \in ModelIds |-> NoRefs]
      /\ UNCHANGED <<rebinding, opening>>
  BY DEF Restart
<1>2. \/ UNCHANGED statics
      \/ namedRef' = [n \in Names |-> Absent] /\ stencilFragRef' = RefNil
  BY DEF Restart
<1>3. opening = 0 /\ rebinding = NoName /\ sessions < MaxSessions
  BY <1>1 DEF Phases
<1>4. /\ \A s \in Slots : tbl'[s] = NilSlot
      /\ NilSlot.obj = Nil /\ NilSlot.link = 0
  BY <1>1 DEF EmptyTable, NilSlot
<1>5. TypeOK'
  <2>1. tbl' \in Tables
    BY <1>1, Assumptions DEF EmptyTable, Tables, Slot, Slots, Values, NilSlot
  <2>2. refs' \in [ModelIds -> [Drawables -> [meshRefID : Slots, tableRefID : Slots]]]
    BY <1>1, Assumptions DEF NoRefs, NoRef, Slots
  <2>3. namedRef' \in [Names -> RefIds \cup {Absent}] /\ stencilFragRef' \in RefIds
    BY <1>2 DEF RefIds, TypeOK, statics
  <2>4. sessions' \in 1 .. MaxSessions
    BY <1>1, <1>3, SessionsAssumption DEF TypeOK
  <2> QED
    BY <1>1, <1>3, <2>1, <2>2, <2>3, <2>4 DEF TypeOK
<1>6. FreeList(tbl')
  <2>1. Listed(tbl') = {0}
    BY <1>4, Assumptions DEF Listed, Linked, Slots
  <2> QED
    BY <1>4, <2>1, Assumptions DEF FreeList, OneContent, OnePredecessor, ListedAreFree, OneEnd, Slots
<1>7. Phases' /\ Released'
  BY <1>1, <1>3 DEF Phases, Released
<1>8. Placements'
  <2>1. \A v \in LuaObjects : Placed(tbl', v, NoRef)
    BY <1>4, Assumptions DEF Placed, Slots, Refs
  <2> QED
    BY <1>1, <2>1, Distinct DEF Placements, NoRefs
<1>9. Stencil'
  <2>1. ~staticLink => stencilFragRef' = RefNil
    BY DEF Restart
  <2>2. \A m \in ModelIds : refs'[m] = NoRefs /\ status'[m] = "none"
    BY <1>1
  <2> QED
    BY <2>1, <2>2 DEF Stencil
<1>10. NamesBound'
  <2>1. /\ \A n \in Names : namedRef'[n] # RefNil
        /\ \A n, k \in Names : namedRef'[n] = namedRef'[k] /\ namedRef'[n] # Absent => n = k
        /\ \A i, j \in 1 .. Len(NameOrder) :
              i < j /\ namedRef'[NameOrder[j]] # Absent => namedRef'[NameOrder[i]] # Absent
    <3>1. CASE UNCHANGED statics
      BY <3>1 DEF NamesBound, statics
    <3>2. CASE namedRef' = [n \in Names |-> Absent]
      BY <3>2, Assumptions DEF Absent, RefNil
    <3> QED
      BY <1>2, <3>1, <3>2
  <2>2. \A n \in Names : namedRef'[n] # Absent => tbl'[namedRef'[n]] = NilSlot
    <3>1. \A n \in Names : namedRef'[n] \in Refs \cup {Absent}
      BY <1>5, <2>1 DEF TypeOK, RefIds
    <3>2. Refs \subseteq Slots
      BY Assumptions DEF Refs, Slots
    <3> QED
      BY <1>4, <3>1, <3>2
  <2>3. 1 .. (opening' - 1) = {}
    BY <1>1, <1>3
  <2> QED
    BY <1>1, <1>3, <1>4, <2>1, <2>2, <2>3, Assumptions DEF NamesBound, Unlinked
<1> QED
  BY <1>5, <1>6, <1>7, <1>8, <1>9, <1>10

\* Every step of the program, of a finalizer and of LOVE keeps the invariant.
LEMMA NextModelsInv == ModelsInv /\ [Next]_vars => ModelsInv'
<1> SUFFICES ASSUME ModelsInv, [Next]_vars PROVE ModelsInv'
  OBVIOUS
<1>1. ASSUME Step, UNCHANGED staticLink PROVE ModelsInv'
  <2>1. CASE Open \/ OpenFails \/ Close
    BY <1>1, <2>1, PhaseStep
  <2>2. CASE OpenRelease
    BY <1>1, <2>2, OpenReleaseStep
  <2>3. CASE OpenStore
    BY <1>1, <2>3, OpenStoreStep
  <2>4. ASSUME NEW m \in ModelIds, New(m) \/ Return(m) \/ Discard(m) \/ Abort(m)
                                    \/ Drop(m) \/ Finalize(m) \/ Destroyed(m)
        PROVE  ModelsInv'
    <3>1. UNCHANGED <<tbl, statics, rebinding, session, refs>>
      BY <2>4 DEF New, Return, Discard, Abort, Drop, Finalize, Destroyed
    <3> QED
      BY <1>1, <2>4, <3>1, StatusStep
  <2>5. CASE \E m \in ModelIds : NewStencil(m)
    BY <1>1, <2>5, NewStencilStep
  <2>6. CASE \E m \in ModelIds, i \in Drawables : NewMesh(m, i)
    BY <1>1, <2>6, NewMeshStep
  <2>7. CASE \E m \in ModelIds, i \in Drawables : NewData(m, i)
    BY <1>1, <2>7, NewDataStep
  <2>8. CASE \E m \in ModelIds, i \in Drawables : DeleteData(m, i)
    BY <1>1, <2>8, DeleteDataStep
  <2>9. CASE \E m \in ModelIds, i \in Drawables : DeleteMesh(m, i)
    BY <1>1, <2>9, DeleteMeshStep
  <2>10. CASE Restart
    BY <1>1, <2>10, RestartStep
  <2> QED
    BY <1>1, <2>1, <2>2, <2>3, <2>4, <2>5, <2>6, <2>7, <2>8, <2>9, <2>10 DEF Step
<1>2. CASE UNCHANGED vars
  <2>1. UNCHANGED <<tbl, namedRef, rebinding, stencilFragRef, opened, opening, status,
                    refs, closing, sessions, staticLink>>
    BY <1>2 DEF vars
  <2> USE DEF ModelsInv
  <2>2. TypeOK' /\ FreeList(tbl') /\ Phases' /\ Placements' /\ Released' /\ Stencil'
    BY <2>1 DEF TypeOK, Phases, Placements, Released, Stencil
  <2>3. NamesBound'
    BY <2>1 DEF NamesBound, Bound, Unlinked
  <2> QED
    BY <2>2, <2>3
<1> QED
  BY <1>1, <1>2 DEF Next

\* The inductive invariant holds in every reachable state.
LEMMA ModelsInvariant == Spec => []ModelsInv
  BY InitModelsInv, NextModelsInv, PTL DEF Spec

-----------------------------------------------------------------------------

\* The state of the life of objects keeps its types.
THEOREM ModelsTypes == Spec => []TypeOK
<1>1. ModelsInv => TypeOK
  BY DEF ModelsInv
<1> QED
  BY ModelsInvariant, <1>1, PTL

\* An object reads its own meshes and vertex data for as long as it has them,
\* for any number of objects and any order of constructors, finalizers, aborted
\* constructions, further luaopen calls and restarts.
THEOREM ModelsOwnRefs == Spec => []OwnRefs
<1>1. ModelsInv => OwnRefs
  BY DEF ModelsInv, TypeOK, Placements, Placed, OwnRefs, GetRef, RawGet
<1> QED
  BY ModelsInvariant, <1>1, PTL

\* A finalized object leaves nothing in the table.
THEOREM ModelsCollected == Spec => []Collected
<1>1. ModelsInv => Collected
  <2> SUFFICES ASSUME ModelsInv, NEW m \in ModelIds, NEW r \in Refs, status[m] = "none",
                      NEW i \in Drawables
               PROVE  tbl[r].obj # Mesh(m, i) /\ tbl[r].obj # Data(m, i)
    BY DEF Collected
  <2>1. refs[m][i].meshRefID = NoRef /\ refs[m][i].tableRefID = NoRef
    BY DEF ModelsInv, Released, NoRefs
  <2>2. r # NoRef
    BY Assumptions DEF Refs, NoRef
  <2> QED
    BY <2>1, <2>2 DEF ModelsInv, Placements, Placed
<1> QED
  BY ModelsInvariant, <1>1, PTL

\* After luaopen each name yields its function, also when the map of names is
\* older than the Lua state.
THEOREM ModelsNames == Spec => []NamesResolve
<1>1. ModelsInv => NamesResolve
  <2> SUFFICES ASSUME ModelsInv, opened, NEW n \in Names \ {rebinding}
               PROVE  GetNamed(n) = Holding(Function(n))
    BY DEF NamesResolve
  <2>1. Bound(n) /\ namedRef[n] \in RefIds \cup {Absent} /\ namedRef[n] # RefNil
    BY DEF ModelsInv, NamesBound, TypeOK
  <2>2. namedRef[n] \in Slots
    BY <2>1, Assumptions DEF RefIds, Refs, Slots, Absent
  <2> QED
    BY <2>1, <2>2 DEF Bound, GetNamed, GetRef, RawGet
<1> QED
  BY ModelsInvariant, <1>1, PTL

\* Of a library that is unloaded with the Lua state: what newShader returned,
\* the shader or its error message, stays under the reference that all objects
\* share, whatever is constructed, aborted, finalized or opened again.
THEOREM StencilStaysHeld == Spec => [](staticLink \/ StencilHeld)
<1>1. ModelsInv => staticLink \/ StencilHeld
  <2> SUFFICES ASSUME ModelsInv, ~staticLink, NEW m \in ModelIds, status[m] = "live"
               PROVE  GetRef(stencilFragRef) \in {Holding(Shader), Holding(ErrorMessage)}
    BY DEF StencilHeld
  <2>1. /\ stencilFragRef # RefNil
        /\ tbl[stencilFragRef] \in {Holding(Shader), Holding(ErrorMessage)}
    BY DEF ModelsInv, Stencil
  <2>2. stencilFragRef \in Slots
    BY <2>1, Assumptions DEF ModelsInv, TypeOK, RefIds, Refs, Slots
  <2> QED
    BY <2>1, <2>2 DEF GetRef, RawGet
<1> QED
  BY ModelsInvariant, <1>1, PTL

-----------------------------------------------------------------------------
(* The use of RefData.                                                     *)

\* These are the operators of RefData.
LEMMA SameRefData ==
    /\ RefTableOf!EmptyTable = EmptyTable /\ RefTableOf!Values = Values
    /\ RefTableOf!Refs = Refs
    /\ \A t, v : RefTableOf!FreshRefs(t, v) = FreshRefs(t, v)
    /\ \A t, v, r : RefTableOf!RefTable(t, v, r) = RefTable(t, v, r)
    /\ \A t, r : RefTableOf!UnrefTable(t, r) = UnrefTable(t, r)
    /\ RefTableOf!Absent = Absent
<1> USE DEF RefTableOf!Slots, Slots, RefTableOf!Refs, Refs, RefTableOf!RefNil, RefNil,
            RefTableOf!NilSlot, NilSlot, RefTableOf!Holding, Holding,
            RefTableOf!Number, Number, RefTableOf!Values, Values
<1>1. RefTableOf!EmptyTable = EmptyTable
  BY DEF RefTableOf!EmptyTable, EmptyTable
<1>2. \A t, v : RefTableOf!FreshRefs(t, v) = FreshRefs(t, v)
  BY DEF RefTableOf!FreshRefs, FreshRefs, RefTableOf!Borders, Borders
<1>3. \A t, v, r : RefTableOf!RefTable(t, v, r) = RefTable(t, v, r)
  BY DEF RefTableOf!RefTable, RefTable
<1>4. \A t, r : RefTableOf!UnrefTable(t, r) = UnrefTable(t, r)
  BY DEF RefTableOf!UnrefTable, UnrefTable
<1>5. RefTableOf!Absent = Absent
  BY DEF RefTableOf!Absent, Absent
<1> QED
  BY <1>1, <1>2, <1>3, <1>4, <1>5

\* Which references the callers of setRef hold.
LEMMA HeldIs ==
    \A x : x \in Held <=>
        /\ x # NoRef /\ x # RefNil
        /\ \/ x = stencilFragRef
           \/ \E m \in ModelIds, i \in Drawables :
                x = refs[m][i].meshRefID \/ x = refs[m][i].tableRefID
  BY DEF Held

\* The same after a step.
LEMMA HeldIsNext ==
    \A x : x \in Held' <=>
        /\ x # NoRef /\ x # RefNil
        /\ \/ x = stencilFragRef'
           \/ \E m \in ModelIds, i \in Drawables :
                x = refs'[m][i].meshRefID \/ x = refs'[m][i].tableRefID
  BY DEF Held

\* A reference is taken: the caller's place for it was empty.
LEMMA TakesRef ==
    ASSUME ModelsInv, NEW v \in LuaObjects, NEW r \in FreshRefs(tbl, v),
           tbl' = RefTable(tbl, v, r), Held' = Held \cup {r},
           rebinding = NoName, UNCHANGED <<namedRef, rebinding>>
    PROVE  RefTableOf!Next
<1>1. RefTableOf!SetRef(v)
  BY SameRefData DEF RefTableOf!SetRef
<1> QED
  BY <1>1 DEF RefTableOf!Next

\* A reference is released: it was held, and by nobody else.
LEMMA ReleasesRef ==
    ASSUME ModelsInv, NEW r \in Refs, r \in Held,
           tbl' = UnrefTable(tbl, r), Held' = Held \ {r},
           UNCHANGED <<namedRef, rebinding>>
    PROVE  RefTableOf!Next
<1>1. RefTableOf!DelRef(r)
  BY SameRefData DEF RefTableOf!DelRef
<1> QED
  BY <1>1, SameRefData DEF RefTableOf!Next

\* The constructors take references only outside luaopen.
LEMMA NotRebinding ==
    ASSUME ModelsInv, NEW m \in ModelIds, Constructing(m)
    PROVE  rebinding = NoName
  BY DEF ModelsInv, Phases, Constructing

\* The shader's reference, where it is not left from another Lua state, is no
\* object's.
LEMMA ShaderApart ==
    ASSUME ModelsInv, ~staticLink, NEW v \in LuaObjects, v # Shader, v # ErrorMessage,
           NEW r \in Refs, Placed(tbl, v, r)
    PROVE  stencilFragRef # r
<1>1. tbl[r].obj = v
  BY Assumptions DEF Placed, Refs, NoRef, Holding
<1>2. r # RefNil
  BY Assumptions DEF Refs, RefNil
<1> QED
  BY <1>1, <1>2 DEF ModelsInv, Stencil, Holding

\* Two values are not under one reference.
LEMMA PlacesApart ==
    ASSUME NEW t, NEW v, NEW w, v # w, NEW r \in Refs, NEW q \in Slots,
           Placed(t, v, r), Placed(t, w, q)
    PROVE  q # r
<1>1. r # NoRef
  BY Assumptions DEF Refs, NoRef
<1> QED
  BY <1>1 DEF Placed, Holding

\* Within a Lua state each step uses RefData as its contract says.
LEMMA UseStep ==
    ASSUME ModelsInv, Next, ~staticLink
    PROVE  \/ RefTableOf!Next
           \/ Restart /\ RefTableOf!Init'
           \/ UNCHANGED RefTableOf!vars
<1> USE DEF ModelsInv
<1>a. ASSUME UNCHANGED <<refs, stencilFragRef>> PROVE Held' = Held
  BY <1>a DEF Held
<1>b. \A m \in ModelIds, i \in Drawables :
        /\ refs[m][i].meshRefID \in Slots /\ refs[m][i].tableRefID \in Slots
        /\ Placed(tbl, Mesh(m, i), refs[m][i].meshRefID)
        /\ Placed(tbl, Data(m, i), refs[m][i].tableRefID)
  BY DEF TypeOK, Placements
<1>c. \A r \in Slots : r # NoRef => r \in Refs
  BY Assumptions DEF Slots, Refs, NoRef
<1>1. ASSUME UNCHANGED <<tbl, namedRef, rebinding, stencilFragRef, refs>>
      PROVE  UNCHANGED RefTableOf!vars
  BY <1>1, <1>a DEF RefTableOf!vars
<1>2. CASE OpenRelease
  <2> DEFINE n == NameOrder[opening]
  <2>1. n \in Names
    BY <1>2, ReleaseEffect
  <2>2. RefTableOf!SetNamedRelease(n)
    BY <1>2, <1>a, SameRefData DEF OpenRelease, RefTableOf!SetNamedRelease, statics
  <2> QED
    BY <2>1, <2>2 DEF RefTableOf!Next
<1>3. CASE OpenStore
  <2> DEFINE n == NameOrder[opening]
  <2>1. n \in Names /\ Function(n) \in RefTableOf!Values
    BY <1>3, StoreEffect, Distinct, SameRefData DEF Values
  <2>2. rebinding = n \/ (rebinding = NoName /\ namedRef[n] = Absent)
    BY <1>3, StoreEffect DEF OpenStore
  <2>3. \E r \in FreshRefs(tbl, Function(n)) :
          /\ tbl' = RefTable(tbl, Function(n), r)
          /\ namedRef' = [namedRef EXCEPT ![n] = r]
    BY <1>3 DEF OpenStore
  <2>4. rebinding' = NoName /\ Held' = Held
    BY <1>3, <1>a DEF OpenStore
  <2>5. RefTableOf!SetNamedStore(n, Function(n))
    BY <2>2, <2>3, <2>4, SameRefData DEF RefTableOf!SetNamedStore
  <2> QED
    BY <2>1, <2>5 DEF RefTableOf!Next
<1>4. ASSUME NEW m \in ModelIds, NewStencil(m) PROVE RefTableOf!Next
  <2>1. PICK v \in {Shader, ErrorMessage} :
          \E r \in FreshRefs(tbl, v) : tbl' = RefTable(tbl, v, r) /\ stencilFragRef' = r
    BY <1>4 DEF NewStencil
  <2>2. PICK r \in FreshRefs(tbl, v) : tbl' = RefTable(tbl, v, r) /\ stencilFragRef' = r
    BY <2>1
  <2>3. v \in LuaObjects /\ r \in Refs /\ r # NoRef /\ r # RefNil
    <3>1. v \in LuaObjects
      BY Distinct
    <3>2. r \in Refs
      BY <3>1, RefEffect DEF TypeOK
    <3> QED
      BY <3>1, <3>2, Assumptions DEF Refs, NoRef, RefNil
  <2>4. stencilFragRef = RefNil /\ refs' = refs /\ UNCHANGED <<namedRef, rebinding>>
        /\ rebinding = NoName
    BY <1>4, NotRebinding DEF NewStencil
  <2>5. Held' = Held \cup {r}
    BY <2>2, <2>3, <2>4 DEF Held
  <2> QED
    BY <2>2, <2>3, <2>4, <2>5, TakesRef
<1>5. ASSUME NEW m \in ModelIds, NEW i \in Drawables, NewMesh(m, i) PROVE RefTableOf!Next
  <2>1. PICK r \in FreshRefs(tbl, Mesh(m, i)) :
          /\ tbl' = RefTable(tbl, Mesh(m, i), r)
          /\ refs' = [refs EXCEPT ![m][i].meshRefID = r]
    BY <1>5 DEF NewMesh
  <2>2. Mesh(m, i) \in LuaObjects /\ r \in Refs /\ r # NoRef /\ r # RefNil
    <3>1. r \in Refs
      BY Distinct, RefEffect DEF TypeOK
    <3> QED
      BY <3>1, Distinct, Assumptions DEF Refs, NoRef, RefNil
  <2>3. /\ stencilFragRef' = stencilFragRef /\ refs[m][i].meshRefID = NoRef
        /\ UNCHANGED <<namedRef, rebinding>> /\ rebinding = NoName
    BY <1>5, NotRebinding DEF NewMesh, statics
  <2>4. \A k \in ModelIds, j \in Drawables :
          /\ refs'[k][j].meshRefID = IF k = m /\ j = i THEN r ELSE refs[k][j].meshRefID
          /\ refs'[k][j].tableRefID = refs[k][j].tableRefID
    BY <2>1 DEF TypeOK
  <2>5. Held' = Held \cup {r}
    <3>1. \A x \in Held' : x \in Held \cup {r}
      BY <2>3, <2>4, HeldIs, HeldIsNext
    <3>2. \A x \in Held : x \in Held'
      BY <2>3, <2>4, HeldIs, HeldIsNext
    <3>3. r \in Held'
      BY <2>2, <2>4, HeldIsNext
    <3> QED
      BY <3>1, <3>2, <3>3
  <2> QED
    BY <2>1, <2>2, <2>3, <2>5, TakesRef
<1>6. ASSUME NEW m \in ModelIds, NEW i \in Drawables, NewData(m, i) PROVE RefTableOf!Next
  <2>1. PICK r \in FreshRefs(tbl, Data(m, i)) :
          /\ tbl' = RefTable(tbl, Data(m, i), r)
          /\ refs' = [refs EXCEPT ![m][i].tableRefID = r]
    BY <1>6 DEF NewData
  <2>2. Data(m, i) \in LuaObjects /\ r \in Refs /\ r # NoRef /\ r # RefNil
    <3>1. r \in Refs
      BY Distinct, RefEffect DEF TypeOK
    <3> QED
      BY <3>1, Distinct, Assumptions DEF Refs, NoRef, RefNil
  <2>3. /\ stencilFragRef' = stencilFragRef /\ refs[m][i].tableRefID = NoRef
        /\ UNCHANGED <<namedRef, rebinding>> /\ rebinding = NoName
    BY <1>6, NotRebinding DEF NewData, statics
  <2>4. \A k \in ModelIds, j \in Drawables :
          /\ refs'[k][j].tableRefID = IF k = m /\ j = i THEN r ELSE refs[k][j].tableRefID
          /\ refs'[k][j].meshRefID = refs[k][j].meshRefID
    BY <2>1 DEF TypeOK
  <2>5. Held' = Held \cup {r}
    <3>1. \A x \in Held' : x \in Held \cup {r}
      BY <2>3, <2>4, HeldIs, HeldIsNext
    <3>2. \A x \in Held : x \in Held'
      BY <2>3, <2>4, HeldIs, HeldIsNext
    <3>3. r \in Held'
      BY <2>2, <2>4, HeldIsNext
    <3> QED
      BY <3>1, <3>2, <3>3
  <2> QED
    BY <2>1, <2>2, <2>3, <2>5, TakesRef
<1>7. ASSUME NEW m \in ModelIds, NEW i \in Drawables, DeleteData(m, i) PROVE RefTableOf!Next
  <2> DEFINE r == refs[m][i].tableRefID
  <2>1. /\ tbl' = UnrefTable(tbl, r) /\ r # NoRef
        /\ refs' = [refs EXCEPT ![m][i].tableRefID = NoRef]
        /\ stencilFragRef' = stencilFragRef /\ UNCHANGED <<namedRef, rebinding>>
    BY <1>7 DEF DeleteData, statics
  <2>2. r \in Refs /\ Placed(tbl, Data(m, i), r)
    BY <1>b, <1>c, <2>1
  <2>3. \A k \in ModelIds, j \in Drawables :
          /\ refs'[k][j].tableRefID = IF k = m /\ j = i THEN NoRef ELSE refs[k][j].tableRefID
          /\ refs'[k][j].meshRefID = refs[k][j].meshRefID
    BY <2>1 DEF TypeOK
  <2>4. stencilFragRef # r
    BY <2>2, Distinct, ShaderApart
  <2>5. ASSUME NEW k \in ModelIds, NEW j \in Drawables
        PROVE  /\ refs[k][j].meshRefID # r
               /\ refs[k][j].tableRefID = r => k = m /\ j = i
    <3>1. Mesh(k, j) # Data(m, i) /\ (Data(k, j) = Data(m, i) => k = m /\ j = i)
      BY Distinct
    <3> QED
      BY <1>b, <2>2, <3>1, PlacesApart
  <2>6. Held' = Held \ {r}
    <3>1. \A x \in Held' : x \in Held /\ x # r
      BY <2>1, <2>3, <2>4, <2>5, HeldIs, HeldIsNext
    <3>2. \A x \in Held \ {r} : x \in Held'
      BY <2>1, <2>3, HeldIs, HeldIsNext
    <3> QED
      BY <3>1, <3>2
  <2>7. r \in Held
    <3>1. r # RefNil
      BY <2>2, Assumptions DEF Refs, RefNil
    <3> QED
      BY <2>1, <3>1, HeldIs
  <2> QED
    BY <2>1, <2>2, <2>6, <2>7, ReleasesRef
<1>8. ASSUME NEW m \in ModelIds, NEW i \in Drawables, DeleteMesh(m, i) PROVE RefTableOf!Next
  <2> DEFINE r == refs[m][i].meshRefID
  <2>1. /\ tbl' = UnrefTable(tbl, r) /\ r # NoRef
        /\ refs' = [refs EXCEPT ![m][i].meshRefID = NoRef]
        /\ stencilFragRef' = stencilFragRef /\ UNCHANGED <<namedRef, rebinding>>
    BY <1>8 DEF DeleteMesh, statics
  <2>2. r \in Refs /\ Placed(tbl, Mesh(m, i), r)
    BY <1>b, <1>c, <2>1
  <2>3. \A k \in ModelIds, j \in Drawables :
          /\ refs'[k][j].meshRefID = IF k = m /\ j = i THEN NoRef ELSE refs[k][j].meshRefID
          /\ refs'[k][j].tableRefID = refs[k][j].tableRefID
    BY <2>1 DEF TypeOK
  <2>4. stencilFragRef # r
    BY <2>2, Distinct, ShaderApart
  <2>5. ASSUME NEW k \in ModelIds, NEW j \in Drawables
        PROVE  /\ refs[k][j].tableRefID # r
               /\ refs[k][j].meshRefID = r => k = m /\ j = i
    <3>1. Data(k, j) # Mesh(m, i) /\ (Mesh(k, j) = Mesh(m, i) => k = m /\ j = i)
      BY Distinct
    <3> QED
      BY <1>b, <2>2, <3>1, PlacesApart
  <2>6. Held' = Held \ {r}
    <3>1. \A x \in Held' : x \in Held /\ x # r
      BY <2>1, <2>3, <2>4, <2>5, HeldIs, HeldIsNext
    <3>2. \A x \in Held \ {r} : x \in Held'
      BY <2>1, <2>3, HeldIs, HeldIsNext
    <3> QED
      BY <3>1, <3>2
  <2>7. r \in Held
    <3>1. r # RefNil
      BY <2>2, Assumptions DEF Refs, RefNil
    <3> QED
      BY <2>1, <3>1, HeldIs
  <2> QED
    BY <2>1, <2>2, <2>6, <2>7, ReleasesRef
<1>9. CASE Restart
  <2>1. /\ tbl' = EmptyTable /\ namedRef' = [n \in Names |-> Absent]
        /\ stencilFragRef' = RefNil /\ refs' = [m \in ModelIds |-> NoRefs]
        /\ rebinding' = NoName
    BY <1>9 DEF Restart, Phases
  <2>2. Held' = {}
    BY <2>1, HeldIsNext DEF NoRefs
  <2> QED
    BY <1>9, <2>1, <2>2, SameRefData DEF RefTableOf!Init
<1>10. ASSUME NEW m \in ModelIds, New(m) \/ Return(m) \/ Discard(m) \/ Abort(m)
                                   \/ Drop(m) \/ Finalize(m) \/ Destroyed(m)
       PROVE  UNCHANGED RefTableOf!vars
  BY <1>1, <1>10 DEF New, Return, Discard, Abort, Drop, Finalize, Destroyed, statics
<1>11. CASE Open \/ OpenFails \/ Close
  BY <1>1, <1>11 DEF Open, OpenFails, Close, statics
<1> QED
  BY <1>2, <1>3, <1>4, <1>5, <1>6, <1>7, <1>8, <1>9, <1>10, <1>11 DEF Next, Step

\* Within a Lua state the objects and luaopen release what they hold, once: every
\* step is a step of RefData, so what RefDataProofs proves of the table holds for
\* this use of it.
THEOREM ModelsUseRefData == Spec => UsesRefData
<1>1. Init => RefTableOf!Init
  <2> SUFFICES ASSUME Init PROVE RefTableOf!Init
    OBVIOUS
  <2>1. Held = {}
    BY HeldIs DEF Init, NoRefs
  <2> QED
    BY <2>1, SameRefData DEF Init, RefTableOf!Init
<1>2. ModelsInv /\ [Next]_vars =>
        [staticLink \/ RefTableOf!Next \/ (Restart /\ RefTableOf!Init')]_(RefTableOf!vars)
  <2>1. ASSUME UNCHANGED vars PROVE UNCHANGED RefTableOf!vars
    BY <2>1 DEF vars, Held, RefTableOf!vars
  <2> QED
    BY <2>1, UseStep
<1> QED
  BY ModelsInvariant, <1>1, <1>2, PTL DEF Spec, UsesRefData
=============================================================================
