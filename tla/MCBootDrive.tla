----------------------------- MODULE MCBootDrive -----------------------------
(***************************************************************************)
(* BootDrive with two sticks, one of them too small for the dump, and two  *)
(* images: a Windows ISO with two WIMs that must be split and whose pieces *)
(* have one name, and a dump that is no ISO and has no boot sector. It     *)
(* leaves some of the larger stick as it was.                              *)
(***************************************************************************)
EXTENDS BootDrive, TLC
CONSTANTS stick, small, a, b

MCSize == [d \in Drives |-> IF d = small THEN 1 ELSE 3]

File(n, p, big) == [name |-> n, place |-> p, big |-> big, wim |-> big]
Image(boot, iso, size, files) ==
  [readable |-> TRUE, boot |-> boot, iso |-> iso, size |-> size, files |-> files]

Windows == Image(FALSE, TRUE, 1, {File("bootmgr", "bootmgr", FALSE),
                                  File("install.wim", "install.swm", TRUE),
                                  File("other.wim", "install.swm", TRUE)})
Dump    == Image(FALSE, FALSE, 2, {})
MCImages == {Windows, Dump}
Symmetry == Permutations(Ids)
=============================================================================
