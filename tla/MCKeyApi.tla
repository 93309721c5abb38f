------------------------------ MODULE MCKeyApi ------------------------------
(* KeyApi for TLC: one usage whose keys overlap and one whose keys do not, and *)
(* four keys, two of them imported.                                            *)
EXTENDS KeyApi

CONSTANTS auth, refresh, k1, k2, k3, k4, c1

MCUsage    == {auth, refresh}
MCRotation == [u \in MCUsage |-> IF u = auth THEN 1 ELSE 2]
MCTTL      == [u \in MCUsage |-> IF u = auth THEN 2 ELSE 1]

=============================================================================
