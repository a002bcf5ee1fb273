----------------------------- MODULE MCCapture -----------------------------
(***************************************************************************)
(* Small instances of Capture for TLC.                                     *)
(***************************************************************************)
EXTENDS Capture

(* A filesystem that can be shrunk, one that cannot, and swap.             *)
PlainKinds == {"ext4", "vfat", "swap"}

(* With the volume that must not be captured.                              *)
WithBitlocker == {"ntfs", "bitlocker"}
=============================================================================
