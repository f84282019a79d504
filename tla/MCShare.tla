------------------------------ MODULE MCShare ------------------------------
(***************************************************************************)
(* Two offers. Two of the first one's files, the second two chunks long,    *)
(* go where nothing else goes; its last file has the name of a file of the  *)
(* second offer. The first file of the second is called something that a    *)
(* receiver on Windows refuses.                                             *)
(***************************************************************************)
EXTENDS ShareTransfer, TLC

CONSTANTS o1, o2, r1, r2, a, b, c, colon

MCNames    == {a, b, c, colon}
MCPaths    == {a, b, c}
MCSafePath == a :> a @@ b :> b @@ c :> c @@ colon :> NoPath

File(n, s) == [name |-> n, size |-> s]
MCManifest == o1 :> <<File(a, 1), File(c, 2), File(b, 1)>> @@ o2 :> <<File(colon, 1), File(b, 1)>>
\* Files of the second offer may grow or shrink by a chunk.
MCDrift   == o1 :> {0} @@ o2 :> {0, 1}
=============================================================================
