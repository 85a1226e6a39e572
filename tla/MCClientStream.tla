----------------------------- MODULE MCClientStream -----------------------------
(* Two frames, and an event channel small enough to be full while both     *)
(* threads want to report.                                                 *)
EXTENDS ClientStream, TLC
CONSTANTS f1, f2
FrameSymmetry == Permutations({f1, f2})
================================================================================
