---------------------------- MODULE MCSyncMirror ----------------------------
(***************************************************************************)
(* SyncMirror on two files with contents of two chunks; what is at the     *)
(* destination first is shorter.                                           *)
(***************************************************************************)
EXTENDS SyncMirror

CONSTANTS f1, f2, v1, v2

MCLength == [v \in Versions |-> 2]

Opt(m, v) == [mirror |-> m, verify |-> v]
MCOptions == {Opt(TRUE, FALSE), Opt(FALSE, TRUE)}
=============================================================================
