-------------------------- MODULE MCCommentWorker --------------------------
(***************************************************************************)
(* Small instances of CommentWorker: one comment with two campaigns, or    *)
(* two comments with one.                                                  *)
(***************************************************************************)
EXTENDS CommentWorker, TLC

\* The slots of the worker are alike.
Symmetry == Permutations(Workers)
=============================================================================
