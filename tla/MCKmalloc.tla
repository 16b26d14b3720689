----------------------------- MODULE MCKmalloc -----------------------------
(* Three frames, two callers, requests at the edges of the two largest size  *)
(* classes: 1945 bytes at a 64-byte boundary need 2016 and just fit class 6, *)
(* 2017 need class 7, and no class holds 4049.                               *)
EXTENDS Kmalloc, TLC

MCFrameZone == (0 :> "DMA16") @@ (1 :> "NORMAL") @@ (2 :> "NORMAL")

MCRequests ==
  {[size |-> 1945, align |-> 64], [size |-> 2017, align |-> 0], [size |-> 4049, align |-> 0]}

Callers == Permutations(Procs)
=============================================================================
