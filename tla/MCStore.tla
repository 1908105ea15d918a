------------------------------ MODULE MCStore ------------------------------
(***************************************************************************)
(* Instances of Store for TLC: one subnet that holds another, and one that *)
(* overlaps neither.                                                       *)
(***************************************************************************)
EXTENDS Store, TLC

CONSTANTS wide, narrow, apart

Nested ==
  {<<p, p>> : p \in Prefixes} \cup
  ({<<wide, narrow>>, <<narrow, wide>>} \cap (Prefixes \X Prefixes))
=============================================================================
