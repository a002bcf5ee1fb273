------------------------------ MODULE MCDeploy ------------------------------
(***************************************************************************)
(* Small instances of Deploy for TLC.                                      *)
(***************************************************************************)
EXTENDS Deploy

(* A filesystem and the swap sentinel.  A filesystem without a case in     *)
(* Expand behaves as an "ext4" that blkid does not recognise.              *)
WellFormedKinds == {"ext4", "swap"}

(* With a stream that only looks like a sentinel.                          *)
WithBrace == WellFormedKinds \union {"brace"}
=============================================================================
