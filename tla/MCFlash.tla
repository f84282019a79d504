------------------------------ MODULE MCFlash ------------------------------
(***************************************************************************)
(* FlashHelper on a drive of eight bytes, with sectors of two bytes and    *)
(* chunks of four: an image of one byte, one of a chunk and a byte, and    *)
(* one that is larger than the drive.                                      *)
(***************************************************************************)
EXTENDS FlashHelper
=============================================================================
