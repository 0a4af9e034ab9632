-------------------------- MODULE MCNightShiftPair --------------------------
(* Two processes that run the worker at once, in one of two settings,      *)
(* chosen at the start: a calm one, where no lease runs out, no            *)
(* transaction fails and no release is installed, and a rough one, where   *)
(* all of that may happen.                                                 *)
EXTENDS NightShift

CONSTANT Settings

VARIABLE setting

Calm == INSTANCE NightShift WITH LeasesExpire <- FALSE, DatabaseErrors <- FALSE, Deploys <- FALSE

PairVars == <<setting, vars>>

PairInit == setting \in Settings /\ Init

PairNext ==
    /\ \/ setting = "calm" /\ Calm!Next
       \/ setting = "rough" /\ Next
    /\ UNCHANGED setting

(* The calm setting is treated fairly, as in FairSpec; leases do not run   *)
(* out there.                                                              *)
Fairness ==
    /\ \A w \in Worker : /\ WF_vars(setting = "calm" /\ (Calm!Loop(w) \/ Calm!Body(w)))
                         /\ WF_vars(setting = "calm" /\ Calm!Launch(w))
    /\ \A j \in Job : WF_vars(setting = "calm" /\ Calm!PassBackoff(j))

PairSpec == PairInit /\ [][PairNext]_PairVars /\ Fairness

-----------------------------------------------------------------------------
(* While no lease runs out, no two workers are at work on one job.         *)
CalmWorkersKeepApart == setting = "calm" => Calm!OneWorkerPerJob

(* In the calm setting every job of a night settles.                       *)
CalmJobsSettle == setting = "calm" => Calm!JobsSettle
=============================================================================
