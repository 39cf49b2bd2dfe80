---------------------------- MODULE MCMediaJobs ----------------------------
(***************************************************************************)
(* Instances of MediaJobs for TLC.                                         *)
(***************************************************************************)
EXTENDS MediaJobs, TLC

\* Workers are interchangeable, and jobs of one kind; the runs of safety properties
\* use this.
Symmetry == Permutations(Worker) \cup Permutations(Job \ Avatar)
=============================================================================
