---------------------------- MODULE PdfAiQueueMC ----------------------------
(* Instances of PdfAiQueue for TLC: r1, r2, r3 are jobs of a review, a1 is *)
(* an actor's profile import.                                              *)
EXTENDS PdfAiQueue, TLC

CONSTANTS r1, r2, r3, a1

(* Review jobs are interchangeable: nothing orders two jobs but instants.  *)
ReviewSymmetry == Permutations({r1, r2, r3})
=============================================================================
