---------------------------- MODULE MCDeployment ----------------------------
(* Deployment for TLC: a standalone gRPC server, one of a later release that adds *)
(* a usage with a symmetric algorithm, and a REST server of the base image.       *)
EXTENDS Deployment

CONSTANTS grpc, later, rest, auth, extra, g1, r1, r2

MCHome == [r \in {g1, r1, r2} |-> IF r = g1 THEN grpc ELSE rest]

MCRelease ==
    [s \in {grpc, later, rest} |->
        IF s = later THEN [u \in {auth, extra} |-> IF u = extra THEN "HS256" ELSE "EdDSA"]
                     ELSE [u \in {auth} |-> "EdDSA"]]

=============================================================================
