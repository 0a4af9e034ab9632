--------------------------- MODULE MCNightShift ---------------------------
(* Instances of NightShift for TLC.                                        *)
EXTENDS NightShift, TLC

Symmetries == Permutations(Worker) \cup Permutations(ApprovalId)

(* A bound: releases are installed before the first process starts, so     *)
(* that a job may have been enqueued under another classification.         *)
EarlyReleases ==
    kind' # kind /\ UNCHANGED job => \A w \in Worker : loc[w].at = "unborn"
=============================================================================
