----------------------------- MODULE MCConfigFile -----------------------------
(***************************************************************************)
(* Instances of ConfigFile for TLC                                         *)
(***************************************************************************)
EXTENDS ConfigFile, TLC

CONSTANTS A, B, wA, tB, rB, v1, v2

\* Config A is set and written; B is polled by two threads, one of which also
\* writes it.
SharedConfigOf == (wA :> A) @@ (tB :> B) @@ (rB :> B)

\* One config that writes what another reads.
PairConfigOf == (wA :> A) @@ (rB :> B)
=============================================================================
