----------------------------- MODULE MCArchive -----------------------------
(***************************************************************************)
(* Archive on two files, the second in a folder, given with or without the *)
(* archive itself, or with the first file given twice, which is refused.   *)
(* What may be at its name at first: nothing, or an archive from elsewhere *)
(* with an unsafe name and an entry that lands on the first file's place.  *)
(***************************************************************************)
EXTENDS Archive, TLC

CONSTANTS f1, f2, twin, slip, o1, o2

MCLength == (f1 :> 2) @@ (f2 :> 1) @@ (twin :> 1) @@ (slip :> 1)
MCTarget == (f1 :> o1) @@ (f2 :> o2) @@ (twin :> o1) @@ (slip :> NoPath)

Ent(n, from, len) == [name |-> n, from |-> from, len |-> len]

Foreign ==
  [bytes |-> <<<<slip, 0>>>> \o Whole(slip) \o <<<<f1, 0>>>> \o Whole(f1) \o <<<<twin, 0>>>>
               \o Whole(twin),
   toc |-> <<Ent(slip, 2, 1), Ent(f1, 4, 2), Ent(twin, 7, 1)>>]

MCFound == {NoFile, Foreign}
MCSources == {<<f1>>, <<f1, Dest>>, <<f1, f1>>}
MCWalked == <<f2>>
=============================================================================
