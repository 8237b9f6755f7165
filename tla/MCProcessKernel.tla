-------------------------- MODULE MCProcessKernel ---------------------------
(* ProcessKernel with a four-slot table (PIDs 1 to 3 usable).                *)
EXTENDS ProcessKernel, TLC

Symmetry == Permutations(Contexts)

(* No action reads on_cpu, and of the properties of the run that uses this   *)
(* view only TypeOK names it: states that differ in it alone have the same   *)
(* future.                                                                   *)
WithoutRegisters == <<tableVars, sched_current, preemption_enabled, kernelVars>>
=============================================================================
