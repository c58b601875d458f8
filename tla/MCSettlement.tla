---------------------------- MODULE MCSettlement ----------------------------
(***************************************************************************)
(* Settlement for TLC.  Payments and handlers are interchangeable: none is *)
(* named by an action or a property, the only CHOOSE picks the one event   *)
(* with the highest timestamp, and no property is about liveness.          *)
(***************************************************************************)
EXTENDS Settlement, TLC

Symmetry == Permutations(Payments) \cup Permutations(Handlers)
=============================================================================
