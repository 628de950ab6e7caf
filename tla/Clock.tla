------------------------------- MODULE Clock -------------------------------
(***************************************************************************)
(* TicksFrequency of uefi/clock.go: the frequency of the time stamp        *)
(* counter, measured once with a timer event of the firmware, under a      *)
(* mutex, and kept in calculatedFrequency, unless CPUID tells it           *)
(* (uefi/device/x86/cpu.go).  Several goroutines call it.                  *)
(***************************************************************************)
EXTENDS Integers

CONSTANTS
  Procs,        \* goroutines
  None,         \* no goroutine
  Machines,     \* processors: what CPUID returns
  Diffs,        \* ticks that may pass until WaitForEvent returns
  MaxCalls      \* bound: calls of each goroutine

ASSUME ClockAssumptions ==
  /\ None \notin Procs /\ MaxCalls \in Nat
  /\ Diffs \subseteq Nat
  /\ \A c \in Machines : /\ c.maxIndex \in Nat /\ c.family \in Nat /\ c.model \in Nat
                         /\ c.eax \in Nat /\ c.ebx \in Nat /\ c.ecx \in Nat
                         /\ c.intel \in BOOLEAN

VARIABLES
  cpu,                   \* the processor
  pc,
  calibrateMutex,        \* its holder
  calculatedFrequency,
  events,                \* timer events that exist
  ret,                   \* the value each goroutine last got, or is about to get
  calls

vars == <<cpu, pc, calibrateMutex, calculatedFrequency, events, ret, calls>>

(***************************************************************************)
(* CPUID                                                                   *)
(***************************************************************************)
CPUID_TIME_STAMP_COUNTER == 21

\* The frequency of the crystal, when leaf 15H leaves it out, goes by the family; only
\* family 6 comes here, and so the cases 5FH, 5CH and 7AH are never met.
CoreXtalFrequency(c) ==
  IF c.ecx # 0 THEN c.ecx
  ELSE IF c.family = 95 THEN 25000000
  ELSE IF c.family \in {92, 122} THEN 19200000 ELSE 24000000

IsIntelFamilyCore(c) == c.intel /\ c.family = 6

\* Rounded to the nearest.  0 when CPUID does not tell.
CpuidCoreClockCalculateTscFrequency(c) ==
  IF c.eax = 0 \/ c.ebx = 0 \/ (c.ecx = 0 /\ ~IsIntelFamilyCore(c)) THEN 0
  ELSE (CoreXtalFrequency(c) * c.ebx + c.eax \div 2) \div c.eax

InternalGetPerformanceCounterFrequency(c) ==
  IF c.maxIndex >= CPUID_TIME_STAMP_COUNTER THEN CpuidCoreClockCalculateTscFrequency(c) ELSE 0

(***************************************************************************)
(* TicksFrequency                                                          *)
(***************************************************************************)
Init ==
  /\ cpu \in Machines
  /\ pc = [p \in Procs |-> "idle"]
  /\ calibrateMutex = None /\ calculatedFrequency = 0 /\ events = 0
  /\ ret = [p \in Procs |-> 0]
  /\ calls = [p \in Procs |-> 0]

Goto(p, line) == pc' = [pc EXCEPT ![p] = line]
Returns(p, value, line) == ret' = [ret EXCEPT ![p] = value] /\ Goto(p, line)

tsc == InternalGetPerformanceCounterFrequency(cpu)

\* A frequency known from CPUID needs no mutex.
Call(p) ==
  /\ pc[p] = "idle" /\ calls[p] < MaxCalls
  /\ calls' = [calls EXCEPT ![p] = @ + 1]
  /\ IF tsc > 0 THEN Returns(p, tsc, "idle") ELSE Goto(p, "lock") /\ UNCHANGED ret
  /\ UNCHANGED <<cpu, calibrateMutex, calculatedFrequency, events>>

Lock(p) ==
  /\ pc[p] = "lock" /\ calibrateMutex = None
  /\ calibrateMutex' = p
  /\ Goto(p, "cached")
  /\ UNCHANGED <<cpu, calculatedFrequency, events, ret, calls>>

\* Mutant: the kept value is not looked at.
Cached_Ignored(p) ==
  /\ pc[p] = "cached"
  /\ Goto(p, "create")
  /\ UNCHANGED <<cpu, calibrateMutex, calculatedFrequency, events, ret, calls>>

Cached(p) ==
  /\ pc[p] = "cached"
  /\ IF calculatedFrequency > 0
     THEN Returns(p, calculatedFrequency, "unlock")
     ELSE Goto(p, "create") /\ UNCHANGED ret
  /\ UNCHANGED <<cpu, calibrateMutex, calculatedFrequency, events, calls>>

CreateEvent(p) ==
  /\ pc[p] = "create"
  /\ \/ events' = events + 1 /\ Goto(p, "timer") /\ UNCHANGED ret
     \/ Returns(p, 0, "unlock") /\ UNCHANGED events
  /\ UNCHANGED <<cpu, calibrateMutex, calculatedFrequency, calls>>

\* Mutants: an error return without the deferred CloseEvent, or without any of them.
SetTimer_Open(p) ==
  /\ pc[p] = "timer"
  /\ \/ Goto(p, "wait") /\ UNCHANGED ret
     \/ Returns(p, 0, "unlock")
  /\ UNCHANGED <<cpu, calibrateMutex, calculatedFrequency, events, calls>>

SetTimer_Locked(p) ==
  /\ pc[p] = "timer"
  /\ \/ Goto(p, "wait") /\ UNCHANGED ret
     \/ Returns(p, 0, "idle")
  /\ UNCHANGED <<cpu, calibrateMutex, calculatedFrequency, events, calls>>

SetTimer(p) ==
  /\ pc[p] = "timer"
  /\ \/ Goto(p, "wait") /\ UNCHANGED ret
     \/ Returns(p, 0, "close")
  /\ UNCHANGED <<cpu, calibrateMutex, calculatedFrequency, events, calls>>

\* The status is not looked at: whenever WaitForEvent comes back, and were it at
\* once, a quarter of a second is taken to have passed.
WaitForEvent(p) ==
  /\ pc[p] = "wait"
  /\ \E diff \in Diffs : calculatedFrequency' = diff * 4
  /\ Returns(p, calculatedFrequency', "close")
  /\ UNCHANGED <<cpu, calibrateMutex, events, calls>>

\* The deferred calls, the last one first.
CloseEvent(p) ==
  /\ pc[p] = "close"
  /\ events' = events - 1
  /\ Goto(p, "unlock")
  /\ UNCHANGED <<cpu, calibrateMutex, calculatedFrequency, ret, calls>>

Unlock(p) ==
  /\ pc[p] = "unlock"
  /\ calibrateMutex' = None
  /\ Goto(p, "idle")
  /\ UNCHANGED <<cpu, calculatedFrequency, events, ret, calls>>

TicksFrequency(p) ==
  \/ Lock(p) \/ Cached(p) \/ CreateEvent(p) \/ SetTimer(p) \/ WaitForEvent(p)
  \/ CloseEvent(p) \/ Unlock(p)

Next == \E p \in Procs : Call(p) \/ TicksFrequency(p)

\* Every firmware call returns, a runnable goroutine runs, and a sync.Mutex hands
\* itself to a goroutine that has waited too long (its starvation mode).
Spec == Init /\ [][Next]_vars
Fairness == \A p \in Procs : WF_vars(TicksFrequency(p)) /\ SF_vars(Lock(p))
FairSpec == Spec /\ Fairness
-----------------------------------------------------------------------------
Steps == {"idle", "lock", "cached", "create", "timer", "wait", "close", "unlock"}

\* Types.
TypeOK ==
  /\ cpu \in Machines
  /\ pc \in [Procs -> Steps]
  /\ calibrateMutex \in Procs \cup {None}
  /\ calculatedFrequency \in Nat /\ events \in Nat
  /\ ret \in [Procs -> Nat] /\ calls \in [Procs -> 0..MaxCalls]

\* All goroutines that were told a frequency were told the same one, at any time and
\* however their calls overlapped (the mutex, and the check of the kept value under it).
FrequenciesAgree ==
  \A p, q \in Procs : ret[p] > 0 /\ ret[q] > 0 => ret[p] = ret[q]

\* There is at most one timer event, and none when nobody calibrates, whatever the
\* firmware calls returned (the deferred CloseEvent).
EventsClosed ==
  /\ events <= 1
  /\ calibrateMutex = None => events = 0

\* A call returns: no path leaves the mutex locked.
CallsReturn == \A p \in Procs : pc[p] = "lock" ~> pc[p] = "idle"

-----------------------------------------------------------------------------
\* What the repository says and the code does not do: the statement is false in this
\* specification, as TLC shows when it stands in the configuration (see README).

\* "case 0x5C: // INTEL_FAM6_ATOM_GOLDMONT" (cpu.go:124): a model of family 6 with a
\* crystal of its own is told from the others.
GoldmontCrystal ==
  cpu.intel /\ cpu.family = 6 /\ cpu.model = 92 /\ cpu.ecx = 0
    => CoreXtalFrequency(cpu) = 19200000
=============================================================================
