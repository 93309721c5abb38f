---------------------------- MODULE MCKeyRotation ---------------------------
(***************************************************************************)
(* Small instances of KeyRotation for TLC.                                 *)
(***************************************************************************)
EXTENDS KeyRotation, TLC

CONSTANTS Auth, Refresh,   \* usages
          Cron, Replica    \* jobs

\* Rotation of one or two seconds, lifetimes of up to three.
ShortRotation == [u \in Usage |-> IF u = Auth THEN 1 ELSE 2]
ShortTTL      == [u \in Usage |-> IF u = Auth THEN 2 ELSE 3]

\* Hosts on the database's clock, or two thirds of a second ahead of it and a
\* second behind.
NoSkew  == [j \in Job |-> 0]
TwoWays == [j \in Job |-> IF j = Cron THEN 2 ELSE -3]

KeyIdSymmetry == Permutations(KeyId)

\* Where a liveness property rules symmetry out and identities are numbers: they are
\* taken in order.  With one run at a time, of one usage, what a failed run gives back
\* is the last one taken, so that every behaviour is one of these but for the names of
\* its keys.
IdsInOrder ==
    LET used == {k.id : k \in keys \cup UNION {written[j] : j \in Job}}
    IN  used = 1..Cardinality(used)

=============================================================================
