---------------------------- MODULE MCDesignTask ----------------------------
(* Instances of DesignTask for TLC. *)
EXTENDS DesignTask, TLC

\* Requests are interchangeable.
MCSymmetry == Permutations(Submissions)
=============================================================================
