----------------------------- MODULE MCMasterKey ----------------------------
(***************************************************************************)
(* Small instances of MasterKey for TLC.                                   *)
(***************************************************************************)
EXTENDS MasterKey

CONSTANTS Auth, Refresh   \* usages

\* One usage rotates twice as often as the other, and its keys live no longer than the
\* other's rotation interval, as those of auth and auth-refresh do.
TwoPaces == [u \in Usage |-> IF u = Auth THEN 1 ELSE 2]
TwoLives == [u \in Usage |-> IF u = Auth THEN 2 ELSE 4]

=============================================================================
