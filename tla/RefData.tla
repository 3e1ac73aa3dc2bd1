------------------------------ MODULE RefData -------------------------------
(***************************************************************************)
(* RefData.cpp: the table that keeps Lua objects alive for the C++ side.   *)
(* References are numbered, or kept under a name in the static map         *)
(* namedRef.                                                               *)
(*                                                                         *)
(* All calls come from one thread, but each call pushes a string, and that *)
(* may run a step of the garbage collector, whose finalizer of a           *)
(* Live2LOVE object calls delRef.  setRef(name) first releases the old     *)
(* reference and then takes a new one; a finalizer may run in between.     *)
(***************************************************************************)
EXTENDS LuaRef, FiniteSets

CONSTANTS
    Names,      \* the names objects are stored under
    NoName      \* no setRef(name) is between its two steps

ASSUME NamesAssumption == NoName \notin Names

Absent == 0     \* the name has no entry in namedRef

VARIABLES
    tbl,        \* the table registry["Live2LOVE"]
    namedRef,   \* the static map: name -> reference, or Absent
    held,       \* the references the callers of setRef have not released yet
    rebinding   \* the name whose setRef has released the old reference

vars == <<tbl, namedRef, held, rebinding>>

Init ==
    /\ tbl = EmptyTable
    /\ namedRef = [n \in Names |-> Absent]
    /\ held = {}
    /\ rebinding = NoName

\* Mutant: the index of the value is not made positive before the table is
\* pushed, so that it names the table itself.
SetRefOfTable(v) ==
    /\ rebinding = NoName
    /\ \E r \in FreshRefs(tbl, v) :
        /\ tbl' = RefTable(tbl, "the table", r)
        /\ held' = held \cup {r}
    /\ UNCHANGED <<namedRef, rebinding>>

\* int setRef(L, luaval)
SetRef(v) ==
    /\ rebinding = NoName
    /\ \E r \in FreshRefs(tbl, v) :
        /\ tbl' = RefTable(tbl, v, r)
        /\ held' = held \cup {r}
    /\ UNCHANGED <<namedRef, rebinding>>

\* Mutant: the slot is set to nil in place of luaL_unref.
DelRefByNil(r) ==
    /\ r \in held
    /\ tbl' = [tbl EXCEPT ![r] = NilSlot]
    /\ held' = held \ {r}
    /\ UNCHANGED <<namedRef, rebinding>>

\* void delRef(L, refID), from a caller or from a finalizer
DelRef(r) ==
    /\ r \in held
    /\ tbl' = UnrefTable(tbl, r)
    /\ held' = held \ {r}
    /\ UNCHANGED <<namedRef, rebinding>>

\* Mutant: the old reference is forgotten, not released.
SetNamedForget(n) ==
    /\ rebinding = NoName
    /\ namedRef[n] # Absent
    /\ rebinding' = n
    /\ UNCHANGED <<tbl, namedRef, held>>

\* int setRef(L, name, luaval): the name has an entry, release its reference
SetNamedRelease(n) ==
    /\ rebinding = NoName
    /\ namedRef[n] # Absent
    /\ tbl' = UnrefTable(tbl, namedRef[n])
    /\ rebinding' = n
    /\ UNCHANGED <<namedRef, held>>

\* Mutant: namedRef.insert, which leaves an entry that exists as it is.
SetNamedInsert(n, v) ==
    /\ \/ rebinding = n
       \/ rebinding = NoName /\ namedRef[n] = Absent
    /\ \E r \in FreshRefs(tbl, v) :
        /\ tbl' = RefTable(tbl, v, r)
        /\ namedRef' = [namedRef EXCEPT ![n] = IF @ = Absent THEN r ELSE @]
    /\ rebinding' = NoName
    /\ UNCHANGED held

\* int setRef(L, name, luaval): store the value and enter its reference
SetNamedStore(n, v) ==
    /\ \/ rebinding = n
       \/ rebinding = NoName /\ namedRef[n] = Absent
    /\ \E r \in FreshRefs(tbl, v) :
        /\ tbl' = RefTable(tbl, v, r)
        /\ namedRef' = [namedRef EXCEPT ![n] = r]
    /\ rebinding' = NoName
    /\ UNCHANGED held

\* Mutant: the entry of the name is not erased.
DelNamedKeepsEntry(n) ==
    /\ rebinding = NoName
    /\ namedRef[n] # Absent
    /\ tbl' = UnrefTable(tbl, namedRef[n])
    /\ UNCHANGED <<namedRef, held, rebinding>>

\* void delRef(L, name)
DelNamed(n) ==
    /\ rebinding = NoName
    /\ namedRef[n] # Absent
    /\ tbl' = UnrefTable(tbl, namedRef[n])
    /\ namedRef' = [namedRef EXCEPT ![n] = Absent]
    /\ UNCHANGED <<held, rebinding>>

Next ==
    \/ \E v \in Objects : SetRef(v)
    \/ \E r \in Refs : DelRef(r)
    \/ \E n \in Names : SetNamedRelease(n)
    \/ \E n \in Names, v \in Values : SetNamedStore(n, v)
    \/ \E n \in Names : DelNamed(n)

Spec == Init /\ [][Next]_vars

\* getRef(L, refID) and getRef(L, name): the value a caller reads
GetRef(r) == RawGet(tbl, r)
GetNamed(n) == IF namedRef[n] = Absent THEN NilSlot ELSE GetRef(namedRef[n])

-----------------------------------------------------------------------------

\* The references in use: the callers' and those of the names.  The one of the
\* name being rebound has been released.
NamedInUse == {n \in Names \ {rebinding} : namedRef[n] \in Refs}
InUse == held \cup {namedRef[n] : n \in NamedInUse}

\* The shape of the state: slots, references and names have their types.
TypeOK ==
    /\ tbl \in Tables
    /\ namedRef \in [Names -> RefIds \cup {Absent}]
    /\ held \in SUBSET Refs
    /\ rebinding \in Names \cup {NoName}

\* Any history of setRef and delRef, of callers, names and finalizers, leaves a
\* well-formed free list in the table: luaL_ref never hands out a slot twice.
FreeListOK == FreeList(tbl)

\* A reference in use holds an object and belongs to one owner: no two names,
\* and no name and a caller, share it (setRef after any history of delRef).
OwnersDisjoint ==
    /\ \A r \in InUse : tbl[r].obj # Nil
    /\ \A n \in NamedInUse : namedRef[n] \notin held
    /\ \A m, n \in NamedInUse : namedRef[m] = namedRef[n] => m = n

\* Nothing is kept alive for nobody: a slot that holds an object is in use,
\* so what delRef released can be collected.
NoLeak == \A r \in Refs : tbl[r].obj # Nil => r \in InUse

Inv == FreeListOK /\ OwnersDisjoint /\ NoLeak

\* The table grows only when no slot below its end is free: a released slot is
\* found again, so a game that creates and drops models for ever does not grow
\* the table.
Top(t) == CHOOSE s \in Slots :
            /\ s # 0 => t[s] # NilSlot
            /\ \A u \in Slots : u > s => t[u] = NilSlot
GrowsOnlyWhenFull ==
    [][Top(tbl') > Top(tbl) => \A s \in 1 .. Top(tbl) : tbl[s].obj # Nil]_vars

(***************************************************************************)
(* RefData implements the store of RefStore.                               *)
(***************************************************************************)
Store == INSTANCE RefStore WITH
            Handles <- Refs,
            owned <- [r \in held |-> tbl[r].obj],
            bound <- [n \in Names |->
                        IF n = rebinding THEN Nil ELSE GetNamed(n).obj]
StoreSpec == Store!Spec

=============================================================================
