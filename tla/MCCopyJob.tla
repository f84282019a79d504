------------------------------ MODULE MCCopyJob ------------------------------
(***************************************************************************)
(* CopyJob on two folders of the same name, chosen in different places:    *)
(* the first holds x (two chunks) and y (one chunk), the second another y. *)
(* The two files y have one destination, x has its own.                    *)
(***************************************************************************)
EXTENDS CopyJob, TLC

CONSTANTS A, B,                      \* the folders
          ax, ay, by,                \* the files, also their paths
          dx, dy,                    \* the paths dest/<name>/x and dest/<name>/y
          spare1, spare2             \* inodes of files made while a path is unlinked

MCSources  == {A, B}
MCFiles    == {ax, ay, by}
MCPaths    == {ax, ay, by, dx, dy}
MCInodes   == MCPaths \union {spare1, spare2}
MCSourceOf == ax :> A @@ ay :> A @@ by :> B
MCSrcPath  == [f \in MCFiles |-> f]
MCDstPath  == ax :> dx @@ ay :> dy @@ by :> dy
MCDstTree  == [s \in MCSources |-> {dx, dy}]
MCSize     == ax :> 2 @@ ay :> 1 @@ by :> 1
\* The second y is empty.
MCSizeEmpty == ax :> 2 @@ ay :> 1 @@ by :> 0

Opt(m, o, v, f) == [mode |-> m, overwrite |-> o, verify |-> v, fast |-> f]

\* The default options, and a move that overwrites, clones and verifies.
MCOptions == {Opt("copy", "SkipIfSameSize", FALSE, FALSE),
              Opt("move", "Always", TRUE, TRUE)}

\* What the tab offers first, as a copy and as a move.
MCResume == {Opt("copy", "SkipIfSameSize", FALSE, TRUE)}
MCMove   == {Opt("move", "SkipIfSameSize", FALSE, TRUE)}
=============================================================================
