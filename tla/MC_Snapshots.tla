---------------------------- MODULE MC_Snapshots ----------------------------
(* Two saves that overlap, with or without an earlier snapshot, and a      *)
(* preview, a delete and an advice that hold or want its row meanwhile.    *)
EXTENDS Snapshots, TLC
=============================================================================
