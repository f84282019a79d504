---------------------------- MODULE MCResultTabs ----------------------------
(***************************************************************************)
(* ResultTabs on three files, with two contents of one size and one        *)
(* beginning, so that only the full hash tells them apart; in the tabs     *)
(* that know folders, on a folder and something in it.                     *)
(***************************************************************************)
EXTENDS ResultTabs

CONSTANTS a, b, c, v, w

MCSize == [x \in Contents |-> 1]
MCStart == [x \in Contents |-> "begin"]
MCWalks ==
  [t \in Tabs |-> IF t = "duplicates" THEN {<<a, b, c>>} ELSE {<<a, b>>}]
Disk(x, y) == (a :> x) @@ (b :> x) @@ (c :> y)
MCDisks ==
  [t \in Tabs |-> IF t = "duplicates" THEN {Disk(v, w), Disk(v, v)} ELSE {Disk(v, v)}]
MCWithin == [p \in Paths |-> IF p = a THEN {a, b} ELSE {p}]
\* What a file holds matters to Duplicates only.
MCEdits == [t \in Tabs |-> IF t = "duplicates" THEN 1 ELSE 0]
MCNeedles == {Paths, {a}}
=============================================================================
