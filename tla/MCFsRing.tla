------------------------------ MODULE MCFsRing ------------------------------
(* Instances of FsRing for TLC.                                            *)
EXTENDS FsRing, TLC
=============================================================================
