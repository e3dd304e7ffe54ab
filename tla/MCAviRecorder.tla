---------------------------- MODULE MCAviRecorder ----------------------------
(* Small instances of AviRecorder for TLC. *)
EXTENDS AviRecorder, TLC

(* The threads of the recorder run the same code. *)
RecorderSymmetry == Permutations(Recorders)
=============================================================================
