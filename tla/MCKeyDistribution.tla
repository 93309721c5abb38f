-------------------------- MODULE MCKeyDistribution -------------------------
(***************************************************************************)
(* Small instances of KeyDistribution for TLC.                             *)
(***************************************************************************)
EXTENDS KeyDistribution, TLC

CONSTANTS CacheTicks, RetryTicks, TokenTicks, LeewayTicks,
          RotationSeconds, TTLSeconds

SameRotation == [u \in Usage |-> RotationSeconds]
SameTTL      == [u \in Usage |-> TTLSeconds]
SameCache    == [u \in Usage |-> CacheTicks]
SameRetry    == [u \in Usage |-> RetryTicks]
SameTokenTTL == [u \in Usage |-> TokenTicks]
SameLeeway   == [u \in Usage |-> LeewayTicks]

KeyIdSymmetry == Permutations(KeyId)

=============================================================================
