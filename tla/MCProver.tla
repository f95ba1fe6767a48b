------------------------------- MODULE MCProver -------------------------------
(***************************************************************************)
(* Prover on a small instance: more requests than slots, two attempts, two *)
(* promises settled in a turn.                                             *)
(***************************************************************************)
EXTENDS Prover

CONSTANTS a, b, c, d
=============================================================================
