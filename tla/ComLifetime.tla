---------------------------- MODULE ComLifetime ----------------------------
(***************************************************************************)
(* The lifetime COM asks of an object, without a count or a registry: it   *)
(* is alive as long as somebody holds a reference to it, a reference is    *)
(* only made from one that is held, and once nobody is left it goes away   *)
(* for good.                                                               *)
(***************************************************************************)
CONSTANTS Reference,  \* the references that can ever be held
          First       \* the one its creator starts with

VARIABLES holding,    \* the references that are held
          life        \* "unborn", "alive" or "gone"

vars == <<holding, life>>

Init == holding = {} /\ life = "unborn"

Create ==
    /\ life = "unborn"
    /\ life' = "alive"
    /\ holding' = {First}

Acquire(r) ==
    /\ holding # {}
    /\ holding' = holding \cup {r}
    /\ UNCHANGED life

Drop(r) ==
    /\ r \in holding
    /\ holding' = holding \ {r}
    /\ UNCHANGED life

Vanish ==
    /\ life = "alive"
    /\ holding = {}
    /\ life' = "gone"
    /\ UNCHANGED holding

Next ==
    \/ Create
    \/ \E r \in Reference : Acquire(r) \/ Drop(r)
    \/ Vanish

Spec == Init /\ [][Next]_vars /\ WF_vars(Vanish)
=============================================================================
