-------------------------------- MODULE Exclusive ------------------------------
(***************************************************************************)
(* One place that at most one holder has at a time: a holder comes only    *)
(* when the one before is gone, and none ever turns into another.          *)
(***************************************************************************)
CONSTANT Holder

VARIABLE holders    \* who is there, its going away included

Init == holders = {}

Take(h) == holders = {} /\ holders' = {h}

Leave == holders # {} /\ holders' = {}

Next == Leave \/ \E h \in Holder : Take(h)

Spec == Init /\ [][Next]_holders
================================================================================
