------------------------------ MODULE MCFileOps ------------------------------
(***************************************************************************)
(* FileOps on a folder with two new pictures and one that is sorted, or    *)
(* with a picture and a file without a type.                               *)
(***************************************************************************)
EXTENDS FileOps, TLC

CONSTANTS pic1, pic2, old, other

Name(s, e) == [stem |-> s, ext |-> e]
A == Name("a", "jpg")
B == Name("1", "jpg")
C == Name("2", "jpg")
Images == Name("Images", "")
Other == Name("Other", "")
May == Name("2026-05", "")

MCNames == {A, B, C, Images, Other, May}
MCCategory == [n \in MCNames |-> IF n.ext = "jpg" THEN Images ELSE Other]
MCMonth == [f \in Files |-> May]
MCNumeral == <<"1", "2">>

\* Images/a.jpg from an earlier sorting, and two more files called a.jpg and 1.jpg; or a
\* picture and a file that bears the name of the folder the picture belongs in.
MCTrees == {<<A>> :> pic1 @@ <<B>> :> pic2 @@ <<Images, A>> :> old,
            <<A>> :> pic1 @@ <<Images>> :> other}
MCLists == {<<<<A>>, <<B>>>>}
MCPatterns == {[stem |-> "{n}", ext |-> TRUE], [stem |-> "Images", ext |-> FALSE]}

\* The pictures are kept on another disk, linked into the folder.
MCElsewhere == {Images}
=============================================================================
