------------------------- MODULE MCWorkspaceUsage -------------------------
(***************************************************************************)
(* Small instances of WorkspaceUsage: three senders compete for a limit    *)
(* of one or two units across one change of month.                         *)
(***************************************************************************)
EXTENDS WorkspaceUsage, TLC

\* The jobs of the worker are alike.
Symmetry == Permutations(Jobs)
=============================================================================
