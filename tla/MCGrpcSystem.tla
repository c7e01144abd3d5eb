----------------------------- MODULE MCGrpcSystem -----------------------------
(***************************************************************************)
(* Instances of GrpcSystem for TLC: call b is kept alive for a second      *)
(* event and may be cancelled.                                             *)
(***************************************************************************)
EXTENDS GrpcSystem, TLC

CONSTANTS a, b

MCCalls == {a, b}
MCCancellable == {b}
MCEvents == (a :> 1) @@ (b :> 2)
=============================================================================
