---------------------------- MODULE MCSetterInbox ---------------------------
(***************************************************************************)
(* Small instances of SetterInbox: one or two job slots and two or three   *)
(* messages beside the setter's own.                                       *)
(***************************************************************************)
EXTENDS SetterInbox, TLC

\* The slots of the worker are alike.
Symmetry == Permutations(Workers)
=============================================================================
