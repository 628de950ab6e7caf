------------------------------ MODULE MC_Clock ------------------------------
(* Processors on which CPUID ends before leaf 15H, has no ratio, has no crystal *)
(* (Intel: two models, and another vendor), or has it all.  The dates of the    *)
(* leap cycle of 400 years are checked on those where nothing is to be measured. *)
EXTENDS Clock, Epoch

Cpuid(max, isIntel, model, a, b, c) ==
  [maxIndex |-> max, intel |-> isIntel, family |-> IF isIntel THEN 6 ELSE 23,
   model |-> model, eax |-> a, ebx |-> b, ecx |-> c]

MC_Machines ==
  {Cpuid(20, TRUE, 60, 2, 3, 0), Cpuid(22, TRUE, 60, 0, 0, 0), Cpuid(22, FALSE, 1, 2, 3, 0),
   Cpuid(22, TRUE, 92, 2, 3, 0), Cpuid(22, TRUE, 142, 2, 3, 5)}

MC_Init == Init /\ year \in Years /\ (year # 1970 => tsc > 0)
MC_Spec == MC_Init /\ [][Next /\ UNCHANGED year]_<<vars, year>> /\ Fairness
=============================================================================
