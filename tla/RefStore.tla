------------------------------ MODULE RefStore ------------------------------
(***************************************************************************)
(* What RefData promises: a store of Lua objects.  An object put in under  *)
(* a reference, or under a name, is read back unchanged until its owner    *)
(* releases it, whatever happens to the other references and names.        *)
(***************************************************************************)
CONSTANTS Objects, Nil, Names, Handles

VARIABLES
    owned,      \* reference in use -> the object it holds
    bound       \* name -> the value stored under it, or Nil

vars == <<owned, bound>>

Init ==
    /\ owned = [h \in {} |-> Nil]
    /\ bound = [n \in Names |-> Nil]

Acquire(h, v) ==
    /\ h \notin DOMAIN owned
    /\ owned' = [k \in DOMAIN owned \cup {h} |-> IF k = h THEN v ELSE owned[k]]
    /\ UNCHANGED bound

Release(h) ==
    /\ h \in DOMAIN owned
    /\ owned' = [k \in DOMAIN owned \ {h} |-> owned[k]]
    /\ UNCHANGED bound

Bind(n, v) ==
    /\ bound' = [bound EXCEPT ![n] = v]
    /\ UNCHANGED owned

Next ==
    \/ \E h \in Handles, v \in Objects : Acquire(h, v)
    \/ \E h \in Handles : Release(h)
    \/ \E n \in Names, v \in Objects \cup {Nil} : Bind(n, v)

Spec == Init /\ [][Next]_vars

=============================================================================
