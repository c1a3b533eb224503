------------------------------ MODULE MCStoreOpen -------------------------------
(* Two processes of the present build and one of a build before its last       *)
(* migration.                                                                *)
EXTENDS StoreOpen

CONSTANTS p1, p2, old

MCProcs == {p1, p2, old}
MCKnows == [p \in MCProcs |-> IF p = old THEN 1 ELSE 2]
===============================================================================
