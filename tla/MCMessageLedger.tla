--------------------------- MODULE MCMessageLedger ---------------------------
(***************************************************************************)
(* Small instances of MessageLedger.                                       *)
(***************************************************************************)
EXTENDS MessageLedger, TLC

\* keys and workflows are names only
Symmetry == Permutations(Keys) \cup Permutations(Workflows)
=============================================================================
