--------------------------- MODULE RefDataProofs ----------------------------
(***************************************************************************)
(* Proofs about RefData, for any set of objects and names and any bound on *)
(* the table.                                                              *)
(***************************************************************************)
EXTENDS RefData, WellFoundedInduction, TLAPS

-----------------------------------------------------------------------------
(* The reference table.                                                    *)

\* What luaL_ref returns: a free slot that is not in the table's interior, or
\* LUA_REFNIL for nil.
LEMMA FreshIsFree ==
    ASSUME NEW t \in Tables, FreeList(t), NEW v \in Objects,
           NEW r \in FreshRefs(t, v)
    PROVE  r \in Refs /\ t[r].obj = Nil
<1> USE ObjectsAssumption, MaxRefAssumption DEF Slots, Refs
<1>1. CASE t[0].link # 0
  <2>1. r = t[0].link
    BY <1>1 DEF FreshRefs, Values
  <2>2. r \in Listed(t) /\ r \in Refs
    BY <1>1, <2>1 DEF Listed, Linked, Tables, Slot
  <2> QED
    BY <2>2 DEF FreeList, ListedAreFree
<1>2. CASE t[0].link = 0
  <2>1. PICK n \in Borders(t) : r = n + 1
    BY <1>2 DEF FreshRefs, Values
  <2>2. n \in 0 .. (MaxRef - 1) /\ t[n + 1] = NilSlot
    BY <2>1 DEF Borders
  <2> QED
    BY <2>1, <2>2 DEF NilSlot
<1> QED
  BY <1>1, <1>2

\* luaL_ref stores the value in the slot it returns, changes no other slot but
\* the head of the free list, and keeps the free list well formed.
LEMMA RefEffect ==
    ASSUME NEW t \in Tables, FreeList(t), NEW v \in Objects,
           NEW r \in FreshRefs(t, v)
    PROVE  /\ RefTable(t, v, r) \in Tables
           /\ RefTable(t, v, r)[r] = Holding(v)
           /\ \A s \in Refs \ {r} : RefTable(t, v, r)[s] = t[s]
           /\ FreeList(RefTable(t, v, r))
<1> USE ObjectsAssumption, MaxRefAssumption DEF Slots, Refs
<1> DEFINE u == RefTable(t, v, r)
<1>1. r \in Refs /\ t[r].obj = Nil
  BY FreshIsFree
<1>2. r # RefNil /\ r # 0 /\ 0 \in Slots /\ r \in Slots
  BY <1>1 DEF RefNil
<1>3. u = [t EXCEPT ![0] = IF t[0].link # 0 THEN t[r] ELSE t[0], ![r] = Holding(v)]
  BY <1>2 DEF RefTable
<1>4. Holding(v) \in Slot /\ \A s \in Slots : t[s] \in Slot
  BY DEF Holding, Slot, Values, Tables
<1>5. /\ u \in Tables
      /\ u[r] = Holding(v)
      /\ u[0] = IF t[0].link # 0 THEN t[r] ELSE t[0]
      /\ \A s \in Slots \ {0, r} : u[s] = t[s]
  BY <1>2, <1>3, <1>4 DEF Tables
<1>6. Holding(v).link = 0 /\ Holding(v).obj = v /\ v # Nil
  BY DEF Holding
<1>7. FreeList(u)
  <2>1. CASE t[0].link # 0
    <3>1. r = t[0].link
      BY <2>1 DEF FreshRefs, Values
    <3>2. u[0] = t[r]
      BY <1>5, <2>1
    <3>3. r \notin Linked(u)
      <4>1. \A s \in Slots : t[s].link = r => s = 0
        BY <2>1, <3>1, <1>2 DEF FreeList, OnePredecessor
      <4> QED
        BY <4>1, <3>2, <1>5, <1>6, <1>2 DEF Linked
    <3>4. Linked(u) \subseteq Linked(t)
      BY <3>2, <1>5, <1>6, <1>2 DEF Linked
    <3>5. OneContent(u)
      BY <1>5, <1>6, <3>2, <1>2 DEF FreeList, OneContent
    <3>6. OnePredecessor(u)
      BY <1>5, <1>6, <3>2, <1>2 DEF FreeList, OnePredecessor
    <3>7. ListedAreFree(u)
      BY <1>1, <1>5, <3>2, <3>3, <3>4, <1>2 DEF FreeList, ListedAreFree, Listed, Linked, Tables, Slot
    <3>8. OneEnd(u)
      <4>1. r \in Linked(t)
        BY <3>1, <1>2 DEF Linked
      <4>2. \A s \in Listed(u) \ {0} : s \in Linked(t) /\ s # r /\ u[s] = t[s]
        BY <3>3, <3>4, <1>5 DEF Listed, Linked, Tables, Slot
      <4>3. ASSUME NEW s \in Listed(u) \ {0}
            PROVE  ~ (u[s] = NilSlot /\ u[0] = NilSlot)
        BY <4>1, <4>2, <3>2 DEF FreeList, OneEnd, Listed
      <4> QED
        BY <4>2, <4>3 DEF FreeList, OneEnd, Listed
    <3> QED
      BY <3>5, <3>6, <3>7, <3>8 DEF FreeList
  <2>2. CASE t[0].link = 0
    <3>1. t[r] = NilSlot
      BY <2>2 DEF FreshRefs, Borders, Values
    <3>2. t[0] = NilSlot
      BY <2>2, <1>2, <1>4 DEF FreeList, ListedAreFree, Listed, NilSlot, Slot
    <3>3. r \notin Listed(t)
      BY <3>1, <3>2, <1>2 DEF FreeList, OneEnd, Listed
    <3>4. u[0] = t[0]
      BY <2>2, <1>5
    <3>5. \A s \in Slots : u[s].link = t[s].link
      BY <1>5, <1>6, <3>1, <3>4 DEF NilSlot
    <3>6. Listed(u) = Listed(t)
      BY <3>5 DEF Listed, Linked
    <3>7. \A s \in Listed(u) : u[s] = t[s]
      BY <3>3, <3>4, <3>6, <1>5 DEF Listed, Linked, Tables, Slot
    <3>8. OneContent(u) /\ OnePredecessor(u)
      <4>1. OneContent(u)
        BY <3>4, <1>2, <1>5, <1>6 DEF FreeList, OneContent
      <4>2. OnePredecessor(u)
        BY <3>5 DEF FreeList, OnePredecessor
      <4> QED
        BY <4>1, <4>2
    <3>9. ListedAreFree(u) /\ OneEnd(u)
      BY <3>6, <3>7 DEF FreeList, ListedAreFree, OneEnd
    <3> QED
      BY <3>8, <3>9 DEF FreeList
  <2> QED
    BY <2>1, <2>2
<1> QED
  BY <1>2, <1>5, <1>7

\* luaL_unref empties the slot of an object, changes no other slot but the head
\* of the free list, and keeps the free list well formed.
LEMMA UnrefEffect ==
    ASSUME NEW t \in Tables, FreeList(t), NEW r \in Refs, t[r].obj # Nil
    PROVE  /\ UnrefTable(t, r) \in Tables
           /\ UnrefTable(t, r)[r].obj = Nil
           /\ \A s \in Refs \ {r} : UnrefTable(t, r)[s] = t[s]
           /\ FreeList(UnrefTable(t, r))
<1> USE ObjectsAssumption, MaxRefAssumption DEF Slots, Refs
<1> DEFINE u == UnrefTable(t, r)
<1>1. r # RefNil /\ r # 0 /\ 0 \in Slots /\ r \in Slots
  BY DEF RefNil
<1>2. u = [t EXCEPT ![r] = t[0], ![0] = Number(r)]
  BY <1>1 DEF UnrefTable
<1>3. Number(r) \in Slot /\ \A s \in Slots : t[s] \in Slot
  BY <1>1 DEF Number, Slot, Values, Tables
<1>4. /\ u \in Tables
      /\ u[0] = Number(r)
      /\ u[r] = t[0]
      /\ \A s \in Slots \ {0, r} : u[s] = t[s]
  BY <1>1, <1>2, <1>3 DEF Tables
<1>5. Number(r).link = r /\ Number(r).obj = Nil /\ Number(r) # NilSlot
  BY <1>1 DEF Number, NilSlot
<1>6. t[0].obj = Nil
  BY <1>1 DEF FreeList, ListedAreFree, Listed
<1>7. r \notin Linked(t) /\ t[r].link = 0
  BY <1>1, <1>3 DEF FreeList, ListedAreFree, OneContent, Listed, Slot
<1>8. \A s \in Slots : t[s].link # r
  BY <1>1, <1>7 DEF Linked
<1>9. Linked(u) \subseteq Linked(t) \cup {r}
  BY <1>1, <1>4, <1>5 DEF Linked
<1>10. \A s \in Linked(u) \ {r} : s \in Linked(t) /\ s # 0 /\ s \in Slots /\ u[s] = t[s]
  BY <1>9, <1>4, <1>1, <1>3 DEF Linked, Slot
<1>11. OneContent(u)
  BY <1>1, <1>4, <1>5, <1>6 DEF FreeList, OneContent
<1>12. OnePredecessor(u)
  BY <1>1, <1>4, <1>5, <1>7, <1>8 DEF FreeList, OnePredecessor
<1>13. ListedAreFree(u)
  BY <1>1, <1>4, <1>5, <1>6, <1>10 DEF FreeList, ListedAreFree, Listed
<1>14. OneEnd(u)
  <2>1. \A s \in Listed(u) : u[s] = NilSlot => s = r \/ (s \in Linked(t) /\ t[s] = NilSlot)
    BY <1>4, <1>5, <1>10 DEF Listed
  <2>2. \A s \in Linked(t) : ~ (t[s] = NilSlot /\ t[0] = NilSlot)
    BY <1>1 DEF FreeList, OneEnd, Listed, Linked
  <2> QED
    BY <2>1, <2>2, <1>4 DEF FreeList, OneEnd, Listed
<1> QED
  BY <1>1, <1>4, <1>6, <1>11, <1>12, <1>13, <1>14 DEF FreeList

-----------------------------------------------------------------------------
(* The inductive invariant: types, the free list, and who owns which slot. *)

IInv == TypeOK /\ Inv

\* Initially the table is empty and nothing is in use.
LEMMA InitIInv == Init => IInv
<1> SUFFICES ASSUME Init PROVE IInv
  OBVIOUS
<1> USE ObjectsAssumption, MaxRefAssumption, NamesAssumption
    DEF Init, EmptyTable, NilSlot
<1>1. TypeOK
  BY DEF TypeOK, Tables, Slot, Slots, Values, Absent
<1>2. \A s \in Slots : tbl[s] = NilSlot
  OBVIOUS
<1>3. Listed(tbl) = {0}
  BY <1>2 DEF Listed, Linked, Slots
<1>4. FreeListOK
  BY <1>2, <1>3 DEF FreeListOK, FreeList, OneContent, OnePredecessor, ListedAreFree, OneEnd, Slots
<1>5. InUse = {} /\ NamedInUse = {}
  BY DEF InUse, NamedInUse, Absent, Refs
<1>6. OwnersDisjoint /\ NoLeak
  BY <1>2, <1>5 DEF OwnersDisjoint, NoLeak, Slots, Refs
<1> QED
  BY <1>1, <1>4, <1>6 DEF IInv, Inv

\* setRef(L, luaval) keeps the invariant: the slot it takes is nobody's.
LEMMA SetRefIInv == ASSUME IInv, NEW v \in Objects, SetRef(v) PROVE IInv'
<1> USE DEF IInv, Inv, TypeOK
<1>1. PICK r \in FreshRefs(tbl, v) :
        tbl' = RefTable(tbl, v, r) /\ held' = held \cup {r}
  BY DEF SetRef
<1>2. namedRef' = namedRef /\ rebinding' = rebinding
  BY DEF SetRef
<1>3. r \in Refs /\ tbl[r].obj = Nil
  BY FreshIsFree DEF FreeListOK
<1>4. /\ tbl' \in Tables
      /\ tbl'[r] = Holding(v)
      /\ \A s \in Refs \ {r} : tbl'[s] = tbl[s]
      /\ FreeList(tbl')
  BY <1>1, RefEffect DEF FreeListOK
<1>5. tbl'[r].obj # Nil
  BY <1>4, ObjectsAssumption DEF Holding
<1>6. NamedInUse' = NamedInUse /\ InUse' = InUse \cup {r}
  BY <1>1, <1>2 DEF NamedInUse, InUse
<1>7. r \notin InUse /\ InUse \subseteq Refs
  BY <1>3 DEF OwnersDisjoint, InUse, NamedInUse
<1>8. OwnersDisjoint'
  BY <1>1, <1>2, <1>4, <1>5, <1>6, <1>7 DEF OwnersDisjoint, InUse
<1>9. NoLeak'
  BY <1>4, <1>6 DEF NoLeak
<1> QED
  BY <1>1, <1>2, <1>3, <1>4, <1>8, <1>9 DEF FreeListOK

\* delRef(L, refID) by the owner keeps the invariant.
LEMMA DelRefIInv == ASSUME IInv, NEW r \in Refs, DelRef(r) PROVE IInv'
<1> USE DEF IInv, Inv, TypeOK
<1>1. /\ r \in held /\ tbl' = UnrefTable(tbl, r) /\ held' = held \ {r}
      /\ namedRef' = namedRef /\ rebinding' = rebinding
  BY DEF DelRef
<1>2. tbl[r].obj # Nil
  BY <1>1 DEF OwnersDisjoint, InUse
<1>3. /\ tbl' \in Tables
      /\ tbl'[r].obj = Nil
      /\ \A s \in Refs \ {r} : tbl'[s] = tbl[s]
      /\ FreeList(tbl')
  BY <1>1, <1>2, UnrefEffect DEF FreeListOK
<1>4. NamedInUse' = NamedInUse /\ InUse' = InUse \ {r}
  BY <1>1 DEF NamedInUse, InUse, OwnersDisjoint
<1>5. InUse \subseteq Refs
  BY DEF InUse, NamedInUse
<1>6. OwnersDisjoint'
  BY <1>1, <1>3, <1>4, <1>5 DEF OwnersDisjoint, InUse
<1>7. NoLeak'
  BY <1>3, <1>4 DEF NoLeak
<1> QED
  BY <1>1, <1>3, <1>6, <1>7 DEF FreeListOK

\* The release of a name's reference, which DelNamed and SetNamedRelease share.
LEMMA NamedRelease ==
    ASSUME IInv, NEW n \in Names, rebinding = NoName, namedRef[n] # Absent
    PROVE  LET t == UnrefTable(tbl, namedRef[n])
           IN  /\ t \in Tables
               /\ FreeList(t)
               /\ namedRef[n] \in Refs => t[namedRef[n]].obj = Nil
               /\ \A s \in Refs \ {namedRef[n]} : t[s] = tbl[s]
<1> USE DEF IInv, Inv, TypeOK, FreeListOK
<1>1. CASE namedRef[n] = RefNil
  BY <1>1 DEF UnrefTable, RefNil, Refs
<1>2. CASE namedRef[n] \in Refs
  <2>1. n \in NamedInUse
    BY <1>2, NamesAssumption DEF NamedInUse
  <2>2. tbl[namedRef[n]].obj # Nil
    BY <2>1 DEF OwnersDisjoint, InUse
  <2> QED
    BY <1>2, <2>2, UnrefEffect
<1> QED
  BY <1>1, <1>2 DEF RefIds

\* The first half of setRef(L, name, luaval) keeps the invariant.
LEMMA SetNamedReleaseIInv ==
    ASSUME IInv, NEW n \in Names, SetNamedRelease(n) PROVE IInv'
<1> USE DEF IInv, Inv, TypeOK
<1>1. /\ rebinding = NoName /\ namedRef[n] # Absent
      /\ tbl' = UnrefTable(tbl, namedRef[n]) /\ rebinding' = n
      /\ namedRef' = namedRef /\ held' = held
  BY DEF SetNamedRelease
<1>2. /\ tbl' \in Tables
      /\ FreeList(tbl')
      /\ namedRef[n] \in Refs => tbl'[namedRef[n]].obj = Nil
      /\ \A s \in Refs \ {namedRef[n]} : tbl'[s] = tbl[s]
  BY <1>1, NamedRelease
<1>3. NamedInUse' = NamedInUse \ {n}
  BY <1>1, NamesAssumption DEF NamedInUse
<1>4. namedRef[n] \notin InUse'
  BY <1>1, <1>3, NamesAssumption DEF InUse, OwnersDisjoint, NamedInUse, Refs
<1>5. InUse' \subseteq InUse /\ InUse \subseteq Refs /\ InUse \subseteq InUse' \cup {namedRef[n]}
  BY <1>1, <1>3 DEF InUse, NamedInUse
<1>6. OwnersDisjoint'
  BY <1>1, <1>2, <1>3, <1>4, <1>5 DEF OwnersDisjoint
<1>7. NoLeak'
  BY <1>2, <1>5 DEF NoLeak
<1> QED
  BY <1>1, <1>2, <1>6, <1>7 DEF FreeListOK

\* delRef(L, name) keeps the invariant.
LEMMA DelNamedIInv ==
    ASSUME IInv, NEW n \in Names, DelNamed(n) PROVE IInv'
<1> USE DEF IInv, Inv, TypeOK
<1>1. /\ rebinding = NoName /\ namedRef[n] # Absent
      /\ tbl' = UnrefTable(tbl, namedRef[n]) /\ rebinding' = rebinding
      /\ namedRef' = [namedRef EXCEPT ![n] = Absent] /\ held' = held
  BY DEF DelNamed
<1>2. /\ tbl' \in Tables
      /\ FreeList(tbl')
      /\ namedRef[n] \in Refs => tbl'[namedRef[n]].obj = Nil
      /\ \A s \in Refs \ {namedRef[n]} : tbl'[s] = tbl[s]
  BY <1>1, NamedRelease
<1>3. NamedInUse' = NamedInUse \ {n} /\ \A m \in NamedInUse' : namedRef'[m] = namedRef[m]
  BY <1>1 DEF NamedInUse, Absent, Refs
<1>4. namedRef[n] \notin InUse'
  BY <1>1, <1>3, NamesAssumption DEF InUse, OwnersDisjoint, NamedInUse, Refs
<1>5. InUse' \subseteq InUse /\ InUse \subseteq Refs /\ InUse \subseteq InUse' \cup {namedRef[n]}
  BY <1>1, <1>3 DEF InUse, NamedInUse
<1>6. OwnersDisjoint'
  BY <1>1, <1>2, <1>3, <1>4, <1>5 DEF OwnersDisjoint
<1>7. NoLeak'
  BY <1>2, <1>5 DEF NoLeak
<1> QED
  BY <1>1, <1>2, <1>6, <1>7 DEF FreeListOK

\* The second half of setRef(L, name, luaval) keeps the invariant.
LEMMA SetNamedStoreIInv ==
    ASSUME IInv, NEW n \in Names, NEW v \in Values, SetNamedStore(n, v) PROVE IInv'
<1> USE DEF IInv, Inv, TypeOK
<1>1. PICK r \in FreshRefs(tbl, v) :
        tbl' = RefTable(tbl, v, r) /\ namedRef' = [namedRef EXCEPT ![n] = r]
  BY DEF SetNamedStore
<1>2. /\ rebinding' = NoName /\ held' = held
      /\ rebinding = n \/ (rebinding = NoName /\ namedRef[n] = Absent)
  BY DEF SetNamedStore
<1>3. n \notin NamedInUse /\ \A m \in NamedInUse : namedRef'[m] = namedRef[m]
  BY <1>1, <1>2 DEF NamedInUse, Absent, Refs
<1>4. CASE v = Nil
  <2>1. r = RefNil /\ tbl' = tbl
    BY <1>1, <1>4 DEF FreshRefs, RefTable
  <2>2. r \notin Refs /\ namedRef'[n] = r
    BY <1>1, <2>1 DEF RefNil, Refs
  <2>3. NamedInUse' = NamedInUse
    BY <1>1, <1>2, <2>2, NamesAssumption DEF NamedInUse, Absent, Refs
  <2>4. InUse' = InUse
    BY <1>2, <1>3, <2>3 DEF InUse
  <2>5. namedRef' \in [Names -> RefIds \cup {Absent}]
    BY <1>1, <2>1 DEF RefIds
  <2> QED
    BY <1>2, <1>3, <2>1, <2>3, <2>4, <2>5
    DEF OwnersDisjoint, NoLeak, FreeListOK
<1>5. CASE v \in Objects
  <2>1. r \in Refs /\ tbl[r].obj = Nil
    BY <1>5, FreshIsFree DEF FreeListOK
  <2>2. /\ tbl' \in Tables
        /\ tbl'[r] = Holding(v)
        /\ \A s \in Refs \ {r} : tbl'[s] = tbl[s]
        /\ FreeList(tbl')
    BY <1>1, <1>5, RefEffect DEF FreeListOK
  <2>3. tbl'[r].obj # Nil
    BY <2>2, <1>5, ObjectsAssumption DEF Holding
  <2>4. namedRef'[n] = r /\ namedRef' \in [Names -> RefIds \cup {Absent}]
    BY <1>1, <2>1 DEF RefIds
  <2>5. NamedInUse' = NamedInUse \cup {n}
    BY <1>1, <1>2, <2>1, <2>4, NamesAssumption DEF NamedInUse, Absent, Refs
  <2>6. InUse' = InUse \cup {r}
    BY <1>2, <1>3, <2>4, <2>5 DEF InUse, NamedInUse
  <2>7. r \notin InUse /\ InUse \subseteq Refs
    BY <2>1 DEF OwnersDisjoint, InUse, NamedInUse
  <2>8. OwnersDisjoint'
    <3>1. \A s \in InUse' : tbl'[s].obj # Nil
      BY <2>2, <2>3, <2>6, <2>7 DEF OwnersDisjoint
    <3>2. \A m \in NamedInUse : namedRef[m] # r /\ m # n
      BY <1>3, <2>7 DEF InUse
    <3>3. \A m \in NamedInUse' : namedRef'[m] \notin held'
      BY <1>2, <1>3, <2>4, <2>5, <2>7 DEF OwnersDisjoint, InUse
    <3>4. \A l, m \in NamedInUse' : namedRef'[l] = namedRef'[m] => l = m
      BY <1>3, <2>4, <2>5, <3>2 DEF OwnersDisjoint
    <3> QED
      BY <3>1, <3>3, <3>4 DEF OwnersDisjoint
  <2>9. NoLeak'
    BY <2>2, <2>6 DEF NoLeak
  <2> QED
    BY <1>2, <2>2, <2>4, <2>8, <2>9 DEF FreeListOK
<1> QED
  BY <1>4, <1>5 DEF Values

\* The invariant is inductive.
LEMMA NextIInv == IInv /\ [Next]_vars => IInv'
<1> SUFFICES ASSUME IInv, [Next]_vars PROVE IInv'
  OBVIOUS
<1>1. CASE \E v \in Objects : SetRef(v)
  BY <1>1, SetRefIInv
<1>2. CASE \E r \in Refs : DelRef(r)
  BY <1>2, DelRefIInv
<1>3. CASE \E n \in Names : SetNamedRelease(n)
  BY <1>3, SetNamedReleaseIInv
<1>4. CASE \E n \in Names, v \in Values : SetNamedStore(n, v)
  BY <1>4, SetNamedStoreIInv
<1>5. CASE \E n \in Names : DelNamed(n)
  BY <1>5, DelNamedIInv
<1>6. CASE UNCHANGED vars
  BY <1>6 DEF vars, IInv, Inv, TypeOK, FreeListOK, OwnersDisjoint, NoLeak, InUse, NamedInUse
<1> QED
  BY <1>1, <1>2, <1>3, <1>4, <1>5, <1>6 DEF Next

-----------------------------------------------------------------------------

\* The state of RefData keeps its types.
THEOREM TypeCorrect == Spec => []TypeOK
<1>1. IInv => TypeOK
  BY DEF IInv
<1> QED
  BY InitIInv, NextIInv, <1>1, PTL DEF Spec

\* The free list stays well formed over every history of setRef and delRef.
THEOREM FreeListCorrect == Spec => []FreeListOK
<1>1. IInv => FreeListOK
  BY DEF IInv, Inv
<1> QED
  BY InitIInv, NextIInv, <1>1, PTL DEF Spec

\* Every reference in use holds an object and has one owner.
THEOREM OwnersCorrect == Spec => []OwnersDisjoint
<1>1. IInv => OwnersDisjoint
  BY DEF IInv, Inv
<1> QED
  BY InitIInv, NextIInv, <1>1, PTL DEF Spec

\* No object stays in the table without an owner.
THEOREM NothingLeaks == Spec => []NoLeak
<1>1. IInv => NoLeak
  BY DEF IInv, Inv
<1> QED
  BY InitIInv, NextIInv, <1>1, PTL DEF Spec

-----------------------------------------------------------------------------
(* RefData implements RefStore.                                            *)

Owned == [r \in held |-> tbl[r].obj]
Bound == [n \in Names |-> IF n = rebinding THEN Nil ELSE GetNamed(n).obj]

\* A reference that is no slot of the table, LUA_REFNIL or a missing entry,
\* reads as nil.
LEMMA ReadSlot ==
    ASSUME NEW t \in Tables, NEW r \in RefIds \cup {Absent}
    PROVE  (IF r = Absent THEN NilSlot ELSE RawGet(t, r)).obj =
             IF r \in Refs THEN t[r].obj ELSE Nil
  BY MaxRefAssumption DEF RefIds, Absent, RefNil, Refs, Slots, RawGet, NilSlot

\* A step that leaves a name's reference and its slot alone leaves what the
\* name is bound to alone.
LEMMA BoundStable ==
    ASSUME TypeOK, TypeOK', NEW n \in Names,
           n \in NamedInUse <=> n \in NamedInUse',
           n \in NamedInUse =>
              namedRef'[n] = namedRef[n] /\ tbl'[namedRef[n]] = tbl[namedRef[n]]
    PROVE  Bound'[n] = Bound[n]
<1>1. Bound[n] = IF n \in NamedInUse THEN tbl[namedRef[n]].obj ELSE Nil
  BY ReadSlot DEF Bound, GetNamed, GetRef, NamedInUse, TypeOK
<1>2. Bound'[n] = IF n \in NamedInUse' THEN tbl'[namedRef'[n]].obj ELSE Nil
  BY ReadSlot DEF Bound, GetNamed, GetRef, NamedInUse, TypeOK
<1> QED
  BY <1>1, <1>2

\* Every step of RefData is a step of the store or changes nothing there.
LEMMA StepRefines == IInv /\ IInv' /\ [Next]_vars => [Store!Next]_Store!vars
<1> SUFFICES ASSUME IInv, IInv', [Next]_vars PROVE [Store!Next]_Store!vars
  OBVIOUS
<1> USE DEF IInv, Inv
<1>a. InUse \subseteq Refs /\ \A n \in NamedInUse : namedRef[n] \in InUse
  BY DEF InUse, NamedInUse, TypeOK
<1>b. Store!vars = <<Owned, Bound>>
  BY DEF Store!vars, Owned, Bound
<1>c. Owned = [r \in held |-> tbl[r].obj] /\ DOMAIN Owned = held
  BY DEF Owned
<1>1. ASSUME NEW v \in Objects, SetRef(v) PROVE Store!Next
  <2>1. PICK r \in FreshRefs(tbl, v) :
          tbl' = RefTable(tbl, v, r) /\ held' = held \cup {r}
    BY <1>1 DEF SetRef
  <2>2. namedRef' = namedRef /\ rebinding' = rebinding /\ NamedInUse' = NamedInUse
    BY <1>1 DEF SetRef, NamedInUse
  <2>3. r \in Refs /\ tbl[r].obj = Nil /\ r \notin InUse
    BY FreshIsFree DEF FreeListOK, TypeOK, OwnersDisjoint
  <2>4. tbl'[r] = Holding(v) /\ \A s \in Refs \ {r} : tbl'[s] = tbl[s]
    BY <2>1, RefEffect DEF FreeListOK, TypeOK
  <2>5. \A n \in Names : Bound'[n] = Bound[n]
    BY <2>2, <2>3, <2>4, <1>a, BoundStable
  <2>6. Bound' = Bound
    BY <2>5 DEF Bound
  <2>7. r \notin held
    BY <2>3 DEF InUse
  <2>8. Owned' = [k \in held \cup {r} |-> IF k = r THEN v ELSE Owned[k]]
    BY <2>1, <2>4, <2>7, <1>c DEF Owned, TypeOK, Holding
  <2>9. Store!Acquire(r, v)
    BY <2>6, <2>7, <2>8, <1>c DEF Store!Acquire, Owned, Bound
  <2> QED
    BY <2>3, <2>9 DEF Store!Next
<1>2. ASSUME NEW r \in Refs, DelRef(r) PROVE Store!Next
  <2>1. /\ r \in held /\ tbl' = UnrefTable(tbl, r) /\ held' = held \ {r}
        /\ namedRef' = namedRef /\ rebinding' = rebinding /\ NamedInUse' = NamedInUse
    BY <1>2 DEF DelRef, NamedInUse
  <2>2. \A s \in Refs \ {r} : tbl'[s] = tbl[s]
    BY <2>1, UnrefEffect DEF FreeListOK, TypeOK, OwnersDisjoint, InUse
  <2>3. \A n \in NamedInUse : namedRef[n] # r
    BY <2>1 DEF OwnersDisjoint
  <2>4. \A n \in Names : Bound'[n] = Bound[n]
    BY <2>1, <2>2, <2>3, <1>a, BoundStable
  <2>5. Bound' = Bound
    BY <2>4 DEF Bound
  <2>6. Owned' = [k \in held \ {r} |-> Owned[k]]
    BY <2>1, <2>2, <1>c DEF Owned, TypeOK
  <2>7. Store!Release(r)
    BY <2>1, <2>5, <2>6, <1>c DEF Store!Release, Owned, Bound
  <2> QED
    BY <2>7 DEF Store!Next
<1>3. ASSUME NEW n \in Names, namedRef[n] # Absent, rebinding = NoName,
             tbl' = UnrefTable(tbl, namedRef[n]), held' = held,
             NamedInUse' = NamedInUse \ {n},
             \A m \in Names \ {n} : namedRef'[m] = namedRef[m],
             Bound'[n] = Nil
      PROVE  Store!Next
  <2>1. \A s \in Refs \ {namedRef[n]} : tbl'[s] = tbl[s]
    BY <1>3, NamedRelease
  <2>2. \A r \in held : tbl'[r] = tbl[r]
    BY <1>3, <2>1, <1>a, NamesAssumption DEF OwnersDisjoint, NamedInUse, TypeOK
  <2>3. \A m \in NamedInUse \ {n} : namedRef[m] # namedRef[n]
    BY <1>3, NamesAssumption DEF OwnersDisjoint, NamedInUse
  <2>4. \A m \in Names \ {n} : Bound'[m] = Bound[m]
    BY <1>3, <2>1, <2>3, <1>a, BoundStable
  <2>5. Bound' = [Bound EXCEPT ![n] = Nil]
    BY <1>3, <2>4 DEF Bound
  <2>6. Owned' = Owned
    BY <1>3, <2>2 DEF Owned
  <2>7. Store!Bind(n, Nil)
    BY <2>5, <2>6 DEF Store!Bind, Owned, Bound
  <2> QED
    BY <2>7 DEF Store!Next
<1>4. ASSUME NEW n \in Names, SetNamedRelease(n) PROVE Store!Next
  <2>1. NamedInUse' = NamedInUse \ {n}
    BY <1>4, NamesAssumption DEF SetNamedRelease, NamedInUse
  <2>2. Bound'[n] = Nil
    BY <1>4 DEF SetNamedRelease, Bound
  <2> QED
    BY <1>3, <1>4, <2>1, <2>2 DEF SetNamedRelease
<1>5. ASSUME NEW n \in Names, DelNamed(n) PROVE Store!Next
  <2>1. NamedInUse' = NamedInUse \ {n} /\ namedRef'[n] = Absent
    BY <1>5, NamesAssumption DEF DelNamed, NamedInUse, Absent, Refs, TypeOK
  <2>2. Bound'[n] = Nil
    BY <2>1 DEF Bound, GetNamed, NilSlot
  <2>3. \A m \in Names \ {n} : namedRef'[m] = namedRef[m]
    BY <1>5 DEF DelNamed, TypeOK
  <2> QED
    BY <1>3, <1>5, <2>1, <2>2, <2>3 DEF DelNamed
<1>6. ASSUME NEW n \in Names, NEW v \in Values, SetNamedStore(n, v)
      PROVE  Store!Next
  <2>1. PICK r \in FreshRefs(tbl, v) :
          tbl' = RefTable(tbl, v, r) /\ namedRef' = [namedRef EXCEPT ![n] = r]
    BY <1>6 DEF SetNamedStore
  <2>2. /\ rebinding' = NoName /\ held' = held
        /\ rebinding = n \/ (rebinding = NoName /\ namedRef[n] = Absent)
    BY <1>6 DEF SetNamedStore
  <2>3. namedRef'[n] = r /\ n # rebinding'
    BY <2>1, <2>2, NamesAssumption DEF TypeOK
  <2>4. \A s \in Refs \cap InUse : tbl'[s] = tbl[s]
    <3>1. CASE v = Nil
      BY <2>1, <3>1 DEF FreshRefs, RefTable
    <3>2. CASE v \in Objects
      <4>1. tbl[r].obj = Nil /\ \A s \in Refs \ {r} : tbl'[s] = tbl[s]
        BY <2>1, <3>2, FreshIsFree, RefEffect DEF FreeListOK, TypeOK
      <4> QED
        BY <4>1 DEF OwnersDisjoint
    <3> QED
      BY <3>1, <3>2 DEF Values
  <2>5. Bound'[n] = v
    <3>1. CASE v = Nil
      <4>1. r = RefNil
        BY <3>1 DEF FreshRefs
      <4> QED
        BY <3>1, <4>1, <2>3 DEF Bound, GetNamed, GetRef, RawGet, RefNil, Absent, Slots, NilSlot
    <3>2. CASE v \in Objects
      <4>1. r \in Refs /\ tbl'[r] = Holding(v)
        BY <2>1, <3>2, FreshIsFree, RefEffect DEF FreeListOK, TypeOK
      <4>2. tbl'[r].obj = v
        BY <4>1 DEF Holding
      <4> QED
        BY <4>1, <4>2, <2>3, MaxRefAssumption DEF Bound, GetNamed, GetRef, RawGet, Absent, Refs, Slots
    <3> QED
      BY <3>1, <3>2 DEF Values
  <2>6. \A m \in Names \ {n} : Bound'[m] = Bound[m]
    <3> TAKE m \in Names \ {n}
    <3>1. namedRef'[m] = namedRef[m]
      BY <2>1 DEF TypeOK
    <3>2. m \in NamedInUse <=> m \in NamedInUse'
      BY <2>2, <3>1, NamesAssumption DEF NamedInUse
    <3> QED
      BY <2>4, <3>1, <3>2, <1>a, BoundStable
  <2>7. Bound' = [Bound EXCEPT ![n] = v]
    BY <2>5, <2>6 DEF Bound
  <2>8. Owned' = Owned
    BY <2>2, <2>4, <1>a DEF Owned, InUse
  <2>9. Store!Bind(n, v)
    BY <2>7, <2>8 DEF Store!Bind, Owned, Bound
  <2> QED
    BY <2>9 DEF Store!Next, Values
<1>7. CASE UNCHANGED vars
  BY <1>7, <1>b DEF vars, Store!vars, GetNamed, GetRef
<1> QED
  BY <1>1, <1>2, <1>4, <1>5, <1>6, <1>7 DEF Next

\* RefData implements the store: what is put in under a reference or a name is
\* read back unchanged until its owner releases or rebinds it, whatever the
\* other callers, names and finalizers do.
THEOREM ImplementsStore == Spec => StoreSpec
<1>1. Init => Store!Init
  BY NamesAssumption DEF Init, Store!Init, GetNamed, NilSlot
<1>2. Spec => []IInv
  BY InitIInv, NextIInv, PTL DEF Spec
<1> QED
  BY <1>1, <1>2, StepRefines, PTL DEF Spec, StoreSpec, Store!Spec


-----------------------------------------------------------------------------
(***************************************************************************)
(* The table grows only when it is full.  The free list of FreeList could  *)
(* still be in pieces, so the invariant needs that the head reaches all of *)
(* it: a set that has the head and with each slot its successor has all    *)
(* slots on the list.  And every free slot below one that has been used is *)
(* on it.                                                                  *)
(***************************************************************************)

Reached(t) ==
    \A S \in SUBSET Slots :
        0 \in S /\ (\A s \in S : t[s].link \in S) => Linked(t) \subseteq S
UnusedAbove(t) ==
    \A s \in Refs : t[s].obj = Nil /\ s \notin Linked(t) =>
        \A u \in s .. MaxRef : t[u] = NilSlot /\ u \notin Linked(t)
Tight(t) == Reached(t) /\ UnusedAbove(t)

\* A non-empty set of slots has a highest one.
LEMMA Highest ==
    ASSUME NEW S \in SUBSET Slots, S # {}
    PROVE  \E x \in S : \A y \in S : y <= x
<1> USE MaxRefAssumption DEF Slots
<1> DEFINE T == {MaxRef - s : s \in S}
           Less == OpToRel(<, Nat)
<1>1. T \subseteq Nat /\ T # {}
  OBVIOUS
<1>2. IsWellFoundedOn(Less, Nat)
  BY NatLessThanWellFounded
<1>3. \A a, b \in Nat : a < b => <<a, b>> \in Less
  BY DEF OpToRel
<1> HIDE DEF Less
<1>4. PICK m \in T : \A k \in T : ~ (<<k, m>> \in Less)
  <2> HIDE DEF T
  <2> QED
    BY <1>1, <1>2, WFMin
<1>5. PICK x \in S : m = MaxRef - x
  BY <1>4
<1>6. ASSUME NEW y \in S PROVE y <= x
  <2>1. MaxRef - y \in T /\ MaxRef - y \in Nat /\ m \in Nat
    BY <1>1
  <2>2. ~ (MaxRef - y < m)
    BY <1>3, <1>4, <2>1
  <2> QED
    BY <1>5, <2>2
<1> QED
  BY <1>6

\* The last slot that is not nil, or 0
LEMMA TopIsLast ==
    ASSUME NEW t \in Tables
    PROVE  /\ Top(t) \in Slots
           /\ Top(t) # 0 => t[Top(t)] # NilSlot
           /\ \A u \in Slots : u > Top(t) => t[u] = NilSlot
<1> USE MaxRefAssumption DEF Slots
<1> DEFINE Used == {s \in Slots : s = 0 \/ t[s] # NilSlot}
<1>1. PICK x \in Used : \A y \in Used : y <= x
  <2>1. Used \in SUBSET Slots /\ 0 \in Used
    OBVIOUS
  <2> HIDE DEF Used
  <2> QED
    BY <2>1, Highest
<1>2. /\ x \in Slots /\ x # 0 => t[x] # NilSlot
      /\ \A u \in Slots : u > x => t[u] = NilSlot
  BY <1>1
<1> QED
  BY <1>2 DEF Top

\* What is on the list when its head has no successor
LEMMA ShortList ==
    ASSUME NEW t \in Tables, Reached(t), t[t[0].link].link = 0 \/ t[0].link = 0
    PROVE  Linked(t) \subseteq {t[0].link}
<1> USE MaxRefAssumption DEF Slots
<1>1. t[0].link \in Slots
  BY DEF Tables, Slot
<1>2. {0, t[0].link} \in SUBSET Slots /\ \A s \in {0, t[0].link} : t[s].link \in {0, t[0].link}
  BY <1>1
<1>3. Linked(t) \subseteq {0, t[0].link}
  BY <1>2 DEF Reached
<1> QED
  BY <1>3 DEF Linked

\* The table is empty at the start.
LEMMA EmptyTight == Tight(EmptyTable)
  BY MaxRefAssumption
  DEF Tight, Reached, UnusedAbove, Linked, EmptyTable, NilSlot, Slots, Refs

\* luaL_ref keeps the list in one piece: it takes its head, or the slot after the
\* last one used when there is none.
LEMMA RefTight ==
    ASSUME NEW t \in Tables, FreeList(t), Tight(t), NEW v \in Objects,
           NEW r \in FreshRefs(t, v)
    PROVE  Tight(RefTable(t, v, r))
<1> USE ObjectsAssumption, MaxRefAssumption DEF Slots, Refs
<1> DEFINE u == RefTable(t, v, r)
<1>1. r \in Refs /\ t[r].obj = Nil /\ r # RefNil /\ r # 0
  BY FreshIsFree DEF RefNil
<1>2. u = [t EXCEPT ![0] = IF t[0].link # 0 THEN t[r] ELSE t[0], ![r] = Holding(v)]
  BY <1>1 DEF RefTable
<1>3. /\ u[r] = Holding(v)
      /\ u[0] = IF t[0].link # 0 THEN t[r] ELSE t[0]
      /\ \A s \in Slots \ {0, r} : u[s] = t[s]
  BY <1>1, <1>2 DEF Tables
<1>4. Holding(v).link = 0 /\ Holding(v).obj = v /\ v # Nil
  BY DEF Holding
<1>5. \A s \in Slots : t[s].link \in Slots
  BY DEF Tables, Slot
<1> HIDE DEF u
<1>6. CASE t[0].link # 0
  <2>1. r = t[0].link /\ u[0] = t[r]
    BY <1>3, <1>6 DEF FreshRefs, Values
  <2>2. Linked(u) \subseteq Linked(t) /\ r \in Linked(t)
    BY <1>1, <1>3, <1>4, <2>1 DEF Linked
  <2>3. \A s \in Slots : t[s].link = r => s = 0
    BY <1>1, <2>1 DEF FreeList, OnePredecessor
  <2>4. r \notin Linked(u)
    BY <1>1, <1>3, <1>4, <2>1, <2>3 DEF Linked
  <2>5. Linked(t) \subseteq Linked(u) \cup {r}
    <3> SUFFICES ASSUME NEW s \in Slots, t[s].link # 0, t[s].link # r
                 PROVE  t[s].link \in Linked(u)
      BY DEF Linked
    <3>1. s # 0
      BY <2>1
    <3>2. CASE s = r
      BY <2>1, <3>2 DEF Linked
    <3>3. CASE s # r
      BY <1>3, <3>1, <3>3 DEF Linked
    <3> QED
      BY <3>2, <3>3
  <2>6. Reached(u)
    <3> SUFFICES ASSUME NEW S \in SUBSET Slots, 0 \in S, \A s \in S : u[s].link \in S
                 PROVE  Linked(u) \subseteq S
      BY DEF Reached
    <3>1. \A s \in S \cup {r} : t[s].link \in S \cup {r}
      BY <1>3, <2>1
    <3>2. S \cup {r} \in SUBSET Slots /\ 0 \in S \cup {r}
      <4>1. r \in Slots
        BY <1>1
      <4>2. \A s \in S \cup {r} : s \in Slots
        BY <4>1
      <4> QED
        BY <4>2
    <3>3. Linked(t) \subseteq S \cup {r}
      BY <3>1, <3>2 DEF Tight, Reached
    <3> QED
      BY <2>4, <2>2, <3>3
  <2>7. UnusedAbove(u)
    <3> SUFFICES ASSUME NEW s \in Refs, u[s].obj = Nil, s \notin Linked(u),
                        NEW k \in s .. MaxRef
                 PROVE  u[k] = NilSlot /\ k \notin Linked(u)
      BY DEF UnusedAbove
    <3>1. s # r /\ t[s].obj = Nil /\ s \notin Linked(t)
      BY <1>3, <1>4, <2>5
    <3>2. \A l \in s .. MaxRef : t[l] = NilSlot /\ l \notin Linked(t)
      BY <3>1 DEF Tight, UnusedAbove
    <3>3. k # r /\ k # 0 /\ k \in Slots
      BY <2>2, <3>2
    <3> QED
      BY <1>3, <2>2, <3>2, <3>3
  <2>8. Tight(u)
    BY <2>6, <2>7 DEF Tight
  <2> QED
    BY <2>8 DEF u
<1>7. CASE t[0].link = 0
  <2>1. PICK n \in Borders(t) : r = n + 1
    BY <1>7 DEF FreshRefs, Values
  <2>2. n \in Nat /\ (n # 0 => n \in Refs /\ t[n] # NilSlot) /\ t[r] = NilSlot
    BY <2>1 DEF Borders
  <2>3. Linked(t) = {}
    BY <1>7, ShortList DEF Tight, Linked
  <2>4. \A s \in Slots : t[s].link = 0
    BY <2>3 DEF Linked
  <2>5. \A s \in Slots : u[s].link = 0
    BY <1>3, <1>4, <1>7, <2>4
  <2>6. Linked(u) = {}
    BY <2>5 DEF Linked
  <2>7. UnusedAbove(u)
    <3> SUFFICES ASSUME NEW s \in Refs, u[s].obj = Nil, NEW k \in s .. MaxRef
                 PROVE  u[k] = NilSlot
      BY <2>6 DEF UnusedAbove
    <3>1. s # r /\ t[s].obj = Nil
      BY <1>3, <1>4
    <3>2. \A l \in s .. MaxRef : t[l] = NilSlot
      BY <2>3, <3>1 DEF Tight, UnusedAbove
    <3>3. r < s
      BY <2>1, <2>2, <3>1, <3>2
    <3> QED
      BY <1>3, <3>2, <3>3
  <2>8. Reached(u)
    BY <2>6 DEF Reached
  <2>9. Tight(u)
    BY <2>7, <2>8 DEF Tight
  <2> QED
    BY <2>9 DEF u
<1> QED
  BY <1>6, <1>7

\* luaL_unref puts the slot in front of the list.
LEMMA UnrefTight ==
    ASSUME NEW t \in Tables, FreeList(t), Tight(t), NEW r \in Refs, t[r].obj # Nil
    PROVE  Tight(UnrefTable(t, r))
<1> USE ObjectsAssumption, MaxRefAssumption DEF Slots, Refs
<1> DEFINE u == UnrefTable(t, r)
<1>1. r # RefNil /\ r # 0 /\ 0 \in Slots /\ r \in Slots
  BY DEF RefNil
<1>2. u = [t EXCEPT ![r] = t[0], ![0] = Number(r)]
  BY <1>1 DEF UnrefTable
<1>3. u[0] = Number(r) /\ u[r] = t[0] /\ \A s \in Slots \ {0, r} : u[s] = t[s]
  BY <1>1, <1>2 DEF Tables
<1>4. Number(r).link = r /\ t[r].link = 0
  BY <1>1 DEF Number, FreeList, OneContent, Tables, Slot
<1> HIDE DEF u
<1>5. Linked(u) = Linked(t) \cup {r}
  <2>1. Linked(u) \subseteq Linked(t) \cup {r}
    BY <1>1, <1>3, <1>4 DEF Linked
  <2>2. r \in Linked(u)
    BY <1>1, <1>3, <1>4 DEF Linked
  <2>3. ASSUME NEW s \in Slots, t[s].link # 0 PROVE t[s].link \in Linked(u)
    <3>1. CASE s = 0
      BY <1>1, <1>3, <2>3, <3>1 DEF Linked
    <3>2. CASE s # 0
      BY <1>3, <1>4, <2>3, <3>2 DEF Linked
    <3> QED
      BY <3>1, <3>2
  <2> QED
    BY <2>1, <2>2, <2>3 DEF Linked
<1>6. Reached(u)
  <2> SUFFICES ASSUME NEW S \in SUBSET Slots, 0 \in S, \A s \in S : u[s].link \in S
               PROVE  Linked(u) \subseteq S
    BY DEF Reached
  <2>1. r \in S
    BY <1>3, <1>4
  <2>2. \A s \in S : t[s].link \in S
    BY <1>3, <1>4, <2>1
  <2>3. Linked(t) \subseteq S
    BY <2>2 DEF Tight, Reached
  <2> QED
    BY <1>5, <2>1, <2>3
<1>7. UnusedAbove(u)
  <2> SUFFICES ASSUME NEW s \in Refs, u[s].obj = Nil, s \notin Linked(u),
                      NEW k \in s .. MaxRef
               PROVE  u[k] = NilSlot /\ k \notin Linked(u)
    BY DEF UnusedAbove
  <2>1. s # r /\ t[s].obj = Nil /\ s \notin Linked(t)
    BY <1>3, <1>5
  <2>2. \A l \in s .. MaxRef : t[l] = NilSlot /\ l \notin Linked(t)
    BY <2>1 DEF Tight, UnusedAbove
  <2>3. k # r /\ k # 0 /\ k \in Slots
    BY <2>2 DEF NilSlot
  <2> QED
    BY <1>3, <1>5, <2>2, <2>3
<1> QED
  BY <1>6, <1>7 DEF Tight, u

\* What a step does to the table: nothing, one luaL_ref of an object, or one
\* luaL_unref of a slot with an object.
LEMMA TableSteps ==
    ASSUME IInv, [Next]_vars
    PROVE  \/ tbl' = tbl
           \/ \E v \in Objects : \E r \in FreshRefs(tbl, v) : tbl' = RefTable(tbl, v, r)
           \/ \E r \in Refs : tbl[r].obj # Nil /\ tbl' = UnrefTable(tbl, r)
<1> USE DEF IInv, Inv
<1>1. CASE \E v \in Objects : SetRef(v)
  BY <1>1 DEF SetRef
<1>2. CASE \E r \in Refs : DelRef(r)
  BY <1>2 DEF DelRef, OwnersDisjoint, InUse
<1>3. ASSUME NEW n \in Names, rebinding = NoName, namedRef[n] # Absent,
             tbl' = UnrefTable(tbl, namedRef[n])
      PROVE  tbl' = tbl \/ \E r \in Refs : tbl[r].obj # Nil /\ tbl' = UnrefTable(tbl, r)
  <2>1. CASE namedRef[n] = RefNil
    BY <1>3, <2>1 DEF UnrefTable
  <2>2. CASE namedRef[n] \in Refs
    <3>1. n \in NamedInUse
      BY <1>3, <2>2, NamesAssumption DEF NamedInUse
    <3> QED
      BY <1>3, <2>2, <3>1 DEF OwnersDisjoint, InUse
  <2> QED
    BY <1>3, <2>1, <2>2 DEF TypeOK, RefIds
<1>4. CASE \E n \in Names : SetNamedRelease(n) \/ DelNamed(n)
  BY <1>3, <1>4 DEF SetNamedRelease, DelNamed
<1>5. ASSUME NEW n \in Names, NEW v \in Values, SetNamedStore(n, v)
      PROVE  \/ tbl' = tbl
             \/ v \in Objects /\ \E r \in FreshRefs(tbl, v) : tbl' = RefTable(tbl, v, r)
  <2>1. CASE v = Nil
    BY <1>5, <2>1 DEF SetNamedStore, FreshRefs, RefTable
  <2> QED
    BY <1>5, <2>1 DEF SetNamedStore, Values
<1>6. CASE UNCHANGED vars
  BY <1>6 DEF vars
<1> QED
  BY <1>1, <1>2, <1>4, <1>5, <1>6 DEF Next

\* Every step keeps the list in one piece.
LEMMA TightNext == ASSUME IInv, Tight(tbl), [Next]_vars PROVE Tight(tbl')
<1>1. tbl \in Tables /\ FreeList(tbl)
  BY DEF IInv, Inv, TypeOK, FreeListOK
<1>2. ASSUME NEW v \in Objects, NEW r \in FreshRefs(tbl, v), tbl' = RefTable(tbl, v, r)
      PROVE  Tight(tbl')
  BY <1>1, <1>2, RefTight
<1>3. ASSUME NEW r \in Refs, tbl[r].obj # Nil, tbl' = UnrefTable(tbl, r)
      PROVE  Tight(tbl')
  BY <1>1, <1>3, UnrefTight
<1> QED
  BY <1>2, <1>3, TableSteps

\* luaL_ref past the last used slot: there was no free slot below it.
LEMMA RefGrows ==
    ASSUME NEW t \in Tables, FreeList(t), Tight(t), NEW v \in Objects,
           NEW r \in FreshRefs(t, v), r > Top(t), NEW s \in 1 .. Top(t)
    PROVE  t[s].obj # Nil
<1> USE ObjectsAssumption, MaxRefAssumption DEF Slots, Refs
<1>1. r \in Refs
  BY FreshIsFree
<1>2. Top(t) \in Slots /\ t[Top(t)] # NilSlot /\ t[r] = NilSlot
  BY <1>1, TopIsLast
<1>3. Linked(t) \subseteq {r, 0}
  <2>1. CASE t[0].link = 0
    BY <2>1, ShortList DEF Tight
  <2>2. CASE t[0].link # 0
    <3>1. r = t[0].link
      BY <2>2 DEF FreshRefs, Values
    <3> QED
      BY <1>2, <3>1, ShortList DEF Tight, NilSlot
  <2> QED
    BY <2>1, <2>2
<1>4. s \notin Linked(t) /\ s \in Refs
  BY <1>2, <1>3
<1> QED
  BY <1>2, <1>4 DEF Tight, UnusedAbove

\* luaL_unref never moves the end of the table up.
LEMMA UnrefShrinks ==
    ASSUME NEW t \in Tables, NEW r \in Refs, t[r].obj # Nil
    PROVE  ~ (Top(UnrefTable(t, r)) > Top(t))
<1> USE MaxRefAssumption DEF Slots, Refs
<1> DEFINE u == UnrefTable(t, r)
<1>1. u = [t EXCEPT ![r] = t[0], ![0] = Number(r)] /\ t[r] # NilSlot
  BY DEF UnrefTable, RefNil, NilSlot
<1>a. Number(r) \in Slot /\ 0 \in Slots /\ r \in Slots /\ \A s \in Slots : t[s] \in Slot
  BY DEF Number, Slot, Values, Tables
<1>2. u \in Tables /\ \A s \in Slots \ {0, r} : u[s] = t[s]
  BY <1>1, <1>a DEF Tables
<1> HIDE DEF u
<1>3. /\ Top(u) \in Slots /\ (Top(u) # 0 => u[Top(u)] # NilSlot)
      /\ Top(t) \in Slots /\ \A k \in Slots : k > Top(t) => t[k] = NilSlot
  BY <1>2, TopIsLast
<1>4. ~ (r > Top(t))
  BY <1>1, <1>3
<1>5. ~ (Top(u) > Top(t))
  BY <1>2, <1>3, <1>4
<1> QED
  BY <1>5 DEF u

\* What luaL_ref can move the end to
LEMMA RefTop ==
    ASSUME NEW t \in Tables, NEW v \in Objects, NEW r \in FreshRefs(t, v), FreeList(t),
           Top(RefTable(t, v, r)) > Top(t)
    PROVE  r > Top(t)
<1> USE MaxRefAssumption DEF Slots, Refs
<1> DEFINE u == RefTable(t, v, r)
<1>1. r \in Refs /\ u \in Tables /\ \A s \in Refs \ {r} : u[s] = t[s]
  BY FreshIsFree, RefEffect
<1> HIDE DEF u
<1>2. /\ Top(u) \in Slots /\ (Top(u) # 0 => u[Top(u)] # NilSlot)
      /\ Top(t) \in Slots /\ \A k \in Slots : k > Top(t) => t[k] = NilSlot
  BY <1>1, TopIsLast
<1>3. Top(u) > Top(t)
  BY DEF u
<1>4. Top(u) \in Refs /\ t[Top(u)] = NilSlot /\ u[Top(u)] # NilSlot
  BY <1>2, <1>3
<1> QED
  BY <1>1, <1>3, <1>4

\* A step that makes the table longer finds it full.
LEMMA GrowsWhenFull ==
    ASSUME IInv, Tight(tbl), [Next]_vars, Top(tbl') > Top(tbl), NEW s \in 1 .. Top(tbl)
    PROVE  tbl[s].obj # Nil
<1>1. tbl \in Tables /\ FreeList(tbl)
  BY DEF IInv, Inv, TypeOK, FreeListOK
<1>2. Top(tbl) \in Slots
  BY <1>1, TopIsLast
<1>3. CASE tbl' = tbl
  BY <1>2, <1>3, MaxRefAssumption DEF Slots
<1>4. ASSUME NEW v \in Objects, NEW r \in FreshRefs(tbl, v), tbl' = RefTable(tbl, v, r)
      PROVE  tbl[s].obj # Nil
  BY <1>1, <1>4, RefTop, RefGrows
<1>5. ASSUME NEW r \in Refs, tbl[r].obj # Nil, tbl' = UnrefTable(tbl, r)
      PROVE  FALSE
  BY <1>1, <1>5, UnrefShrinks
<1> QED
  BY <1>3, <1>4, <1>5, TableSteps

\* The table grows only when every slot below its end holds an object: a game that
\* creates and drops models for ever does not grow it, however the calls of
\* delRef and setRef interleave.
THEOREM SlotsAreReused == Spec => GrowsOnlyWhenFull
<1>1. Init => IInv /\ Tight(tbl)
  BY InitIInv, EmptyTight DEF Init
<1>2. IInv /\ Tight(tbl) /\ [Next]_vars => IInv' /\ Tight(tbl)'
  BY NextIInv, TightNext
<1>3. IInv /\ Tight(tbl) /\ [Next]_vars
        => [Top(tbl') > Top(tbl) => \A s \in 1 .. Top(tbl) : tbl[s].obj # Nil]_vars
  BY GrowsWhenFull
<1> QED
  BY <1>1, <1>2, <1>3, PTL DEF Spec, GrowsOnlyWhenFull
=============================================================================
