------------------------------- MODULE LuaRef -------------------------------
(***************************************************************************)
(* The reference tables of the Lua auxiliary library (luaL_ref and         *)
(* luaL_unref of Lua 5.1 and LuaJIT), which RefData.cpp uses to keep Lua   *)
(* objects alive.  The library is external: the operators say what         *)
(* RefData.cpp relies on.                                                  *)
(*                                                                         *)
(* A table maps small integers to values.  Slot 0 is the head of the free  *)
(* list: it holds the number of a free slot, which holds the number of the *)
(* next one, and so on.  A slot therefore holds an object, or a number, or *)
(* nil; it is the record [obj, link], of which at most one field is set.   *)
(***************************************************************************)
EXTENDS Integers

CONSTANTS
    Objects,    \* the Lua values the program stores (functions, meshes, data)
    Nil,        \* the Lua value nil
    MaxRef      \* bound: the highest slot of a table

ASSUME ObjectsAssumption == Nil \notin Objects
ASSUME MaxRefAssumption == MaxRef \in Nat \ {0}

Values == Objects \cup {Nil}
Slots == 0 .. MaxRef
Refs == 1 .. MaxRef

RefNil == -1                            \* LUA_REFNIL, the reference of nil
RefIds == Refs \cup {RefNil}

Slot == [obj : Values, link : Slots]
NilSlot == [obj |-> Nil, link |-> 0]
Holding(v) == [obj |-> v, link |-> 0]
Number(n) == [obj |-> Nil, link |-> n]

Tables == [Slots -> Slot]
EmptyTable == [s \in Slots |-> NilSlot]

(***************************************************************************)
(* lua_objlen: any n such that slot n is occupied (or n = 0) and slot      *)
(* n + 1 is nil.  A table with holes has several.                          *)
(***************************************************************************)
Borders(t) ==
    {n \in 0 .. (MaxRef - 1) :
        /\ n # 0 => t[n] # NilSlot
        /\ t[n + 1] = NilSlot}

(***************************************************************************)
(* The references luaL_ref may return for the value v: LUA_REFNIL for nil, *)
(* the head of the free list if there is one, otherwise a slot past the    *)
(* end.  Empty when the table has reached its bound.                       *)
(***************************************************************************)
FreshRefs(t, v) ==
    IF v = Nil THEN {RefNil}
    ELSE IF t[0].link # 0 THEN {t[0].link}
    ELSE {n + 1 : n \in Borders(t)}

\* The table after luaL_ref has stored v under the reference r.
RefTable(t, v, r) ==
    IF r = RefNil THEN t
    ELSE [t EXCEPT ![0] = IF t[0].link # 0 THEN t[r] ELSE t[0],
                   ![r] = Holding(v)]

\* The table after luaL_unref(r): slot r becomes the head of the free list.
UnrefTable(t, r) ==
    IF r = RefNil THEN t
    ELSE [t EXCEPT ![r] = t[0], ![0] = Number(r)]

\* lua_rawgeti: slots that are not in the table read as nil.
RawGet(t, r) == IF r \in Slots THEN t[r] ELSE NilSlot

-----------------------------------------------------------------------------

(***************************************************************************)
(* The free list that luaL_ref and luaL_unref thread through a table: a    *)
(* slot holds an object or a number, has at most one predecessor, no slot  *)
(* on the list holds an object, and the list has at most one end.          *)
(***************************************************************************)
Linked(t) == {t[s].link : s \in Slots} \ {0}
Listed(t) == Linked(t) \cup {0}

OneContent(t) == \A s \in Slots : t[s].link # 0 => t[s].obj = Nil
OnePredecessor(t) ==
    \A s, u \in Slots : t[s].link # 0 /\ t[s].link = t[u].link => s = u
ListedAreFree(t) == \A s \in Listed(t) : t[s].obj = Nil
OneEnd(t) ==
    \A s, u \in Listed(t) : t[s] = NilSlot /\ t[u] = NilSlot => s = u

FreeList(t) ==
    /\ OneContent(t)
    /\ OnePredecessor(t)
    /\ ListedAreFree(t)
    /\ OneEnd(t)

=============================================================================
