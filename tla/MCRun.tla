------------------------------- MODULE MCRun -------------------------------
(* RunLifecycle for TLC.  WithWorkload chooses among the options so that a  *)
(* run concentrates on the target's processes or on the workload's.         *)
EXTENDS RunLifecycle

CONSTANT WithWorkload

MCInit == Init /\ opts.workload = WithWorkload
MCSpec == MCInit /\ [][Next]_vars
MCFairSpec == MCSpec /\ Fairness
=============================================================================
