----------------------------- MODULE MCUidsFile -----------------------------
(* The uid store on a handful of uids: with four of them a file of two      *)
(* and a memory part of two can interleave in every order, and the search   *)
(* runs over files of every length up to four.                              *)
EXTENDS UidsFile

MCUIds == 1..4
=============================================================================
