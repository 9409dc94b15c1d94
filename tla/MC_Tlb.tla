------------------------------- MODULE MC_Tlb -------------------------------
(* Instantiates Tlb with integer addresses for TLC.  Pages are multiples   *)
(* of PageSize; the constructor's filler entries 1..CacheSize are not.     *)
EXTENDS Tlb
====
