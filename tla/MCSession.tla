----------------------------- MODULE MCSession -----------------------------
(***************************************************************************)
(* CopySession on two files, each name also one to rename the other to.    *)
(***************************************************************************)
EXTENDS CopySession

CONSTANTS a, b
=============================================================================
