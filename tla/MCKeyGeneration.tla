---------------------------- MODULE MCKeyGeneration ----------------------------
(***************************************************************************)
(* Small instances of KeyGeneration for TLC.                               *)
(***************************************************************************)
EXTENDS KeyGeneration, TLC

CONSTANTS g1, g2, g3

\* Two invocations for one node and one for another.
MCNodeOf == g1 :> "n1" @@ g2 :> "n1" @@ g3 :> "n2"
=============================================================================
