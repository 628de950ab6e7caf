---------------------------- MODULE UefiProofs ----------------------------
(***************************************************************************)
(* Proofs about the components of package uefi.                            *)
(*                                                                         *)
(* Clock: for any number of goroutines and of calls, every processor and   *)
(* every count of ticks.  Epoch: for every year from 1970 on.  SerialPort: *)
(* for any buffer, line and number of calls.  Devices: for any handles,    *)
(* any drivers that come and go, and any number of enumerations.           *)
(***************************************************************************)
EXTENDS Clock, Epoch, SerialPort, Devices, FiniteSetTheorems, SequenceTheorems,
        WellFoundedInduction, TLAPS

\* Places at which a goroutine has the mutex, and those at which it has the event too.
Held == {"cached", "create", "timer", "wait", "close", "unlock"}
WithEvent == {"timer", "wait", "close"}
Measuring == {"create", "timer", "wait"}

\* The mutex is with the goroutine that is between Lock and Unlock, and only there.
MutexInv == \A p \in Procs : pc[p] \in Held <=> calibrateMutex = p

\* The event exists while its owner is between CreateEvent and CloseEvent.
EventInv ==
  \/ events = 0 /\ \A p \in Procs : pc[p] \notin WithEvent
  \/ events = 1 /\ \E p \in Procs : pc[p] \in WithEvent

\* A goroutine was told nothing, or the frequency from CPUID, or the one that is kept;
\* and none is kept yet while one is measured.
ToldInv ==
  /\ tsc > 0 => \A p \in Procs : pc[p] = "idle" /\ ret[p] \in {0, tsc}
  /\ ~(tsc > 0) => \A p \in Procs : ret[p] \in {0, calculatedFrequency}
  /\ \A p \in Procs : pc[p] \in Measuring => calculatedFrequency = 0

IInv == TypeOK /\ MutexInv /\ EventInv /\ ToldInv

-----------------------------------------------------------------------------
\* Each frequency that CPUID tells is a natural number: the quotient is only taken when
\* the denominator is not zero.
LEMMA XtalIsNat ==
  ASSUME NEW c \in Machines
  PROVE  CoreXtalFrequency(c) \in Nat
BY ClockAssumptions, SMT DEF CoreXtalFrequency

\* Division rounds down, and so a natural number divided by a positive one is natural.
LEMMA Quotient ==
  ASSUME NEW a \in Nat, NEW b \in Nat, b > 0
  PROVE  a \div b \in Nat
OBVIOUS

\* The frequency from CPUID is a natural number.
LEMMA TscIsNat ==
  ASSUME cpu \in Machines
  PROVE  tsc \in Nat
<1> DEFINE x == CoreXtalFrequency(cpu)
           h == cpu.eax \div 2
           n == x * cpu.ebx + h
<1>1. x \in Nat /\ cpu.eax \in Nat /\ cpu.ebx \in Nat
  BY XtalIsNat, ClockAssumptions
<1>2. h \in Nat
  BY <1>1, Quotient
<1>3. x * cpu.ebx \in Nat
  BY <1>1
<1>4. n \in Nat
  <2> HIDE DEF x, h
  <2> QED BY <1>2, <1>3
<1>5. cpu.eax # 0 => n \div cpu.eax \in Nat
  <2> HIDE DEF n
  <2> QED BY <1>1, <1>4, Quotient
<1>6. tsc \in {0, n \div cpu.eax} /\ (cpu.eax = 0 => tsc = 0)
  <2> HIDE DEF x, h
  <2> QED
    BY Zenon DEF tsc, InternalGetPerformanceCounterFrequency,
                 CpuidCoreClockCalculateTscFrequency, n, x, h
<1> QED
  <2> HIDE DEF n
  <2> QED BY <1>5, <1>6

\* The frequency from CPUID is the same after each step.
LEMMA SameTsc == cpu' = cpu => tsc' = tsc
BY DEF tsc

\* No goroutine has been told anything, none has called.
LEMMA Initial == Init => IInv
<1> SUFFICES ASSUME Init PROVE IInv
  OBVIOUS
<1>1. TypeOK
  BY ClockAssumptions DEF Init, TypeOK, Steps
<1>2. MutexInv
  BY ClockAssumptions DEF Init, MutexInv, Held
<1>3. EventInv
  BY DEF Init, EventInv, WithEvent
<1>4. ToldInv
  BY DEF Init, ToldInv, Measuring
<1> QED BY <1>1, <1>2, <1>3, <1>4 DEF IInv

\* A call returns what CPUID tells, or waits for the mutex.
LEMMA CallStep ==
  ASSUME NEW p \in Procs, IInv, Call(p)
  PROVE  IInv'
<1> USE DEF Goto, Returns
<1>1. pc[p] \in Steps /\ pc'[p] \in Steps /\ \A q \in Procs : q # p => pc'[q] = pc[q]
  BY DEF IInv, TypeOK, Steps, Call
<1>2. TypeOK'
  BY TscIsNat, ClockAssumptions DEF IInv, TypeOK, Steps, Call
<1>3. MutexInv'
  BY <1>1, ClockAssumptions DEF IInv, TypeOK, MutexInv, Held, Call
<1>4. EventInv'
  BY <1>1, ClockAssumptions DEF IInv, TypeOK, MutexInv, EventInv, Held, WithEvent, Call
<1>5. ToldInv'
  BY <1>1, SameTsc, TscIsNat DEF IInv, TypeOK, MutexInv, ToldInv, Held, Measuring, Call
<1> QED BY <1>2, <1>3, <1>4, <1>5 DEF IInv

\* Only a free mutex is taken, and nobody has the event then.
LEMMA LockStep ==
  ASSUME NEW p \in Procs, IInv, Lock(p)
  PROVE  IInv'
<1> USE DEF Goto, Returns
<1>1. pc[p] \in Steps /\ pc'[p] \in Steps /\ \A q \in Procs : q # p => pc'[q] = pc[q]
  BY DEF IInv, TypeOK, Steps, Lock
<1>2. TypeOK'
  BY ClockAssumptions DEF IInv, TypeOK, Steps, Lock
<1>3. MutexInv'
  BY <1>1, ClockAssumptions DEF IInv, TypeOK, MutexInv, Held, Lock
<1>4. EventInv'
  BY <1>1, ClockAssumptions DEF IInv, TypeOK, MutexInv, EventInv, Held, WithEvent, Lock
<1>5. ToldInv'
  BY <1>1, SameTsc, TscIsNat DEF IInv, TypeOK, MutexInv, ToldInv, Held, Measuring, Lock
<1> QED BY <1>2, <1>3, <1>4, <1>5 DEF IInv

\* The goroutine with the mutex takes the kept value, or finds none.
LEMMA CachedStep ==
  ASSUME NEW p \in Procs, IInv, Cached(p)
  PROVE  IInv'
<1> USE DEF Goto, Returns
<1>1. pc[p] \in Steps /\ pc'[p] \in Steps /\ \A q \in Procs : q # p => pc'[q] = pc[q]
  BY DEF IInv, TypeOK, Steps, Cached
<1>2. TypeOK'
  BY ClockAssumptions DEF IInv, TypeOK, Steps, Cached
<1>3. MutexInv'
  BY <1>1, ClockAssumptions DEF IInv, TypeOK, MutexInv, Held, Cached
<1>4. EventInv'
  BY <1>1, ClockAssumptions DEF IInv, TypeOK, MutexInv, EventInv, Held, WithEvent, Cached
<1>5. ToldInv'
  BY <1>1, SameTsc, TscIsNat DEF IInv, TypeOK, MutexInv, ToldInv, Held, Measuring, Cached
<1> QED BY <1>2, <1>3, <1>4, <1>5 DEF IInv

\* There was no event: only the goroutine with the mutex could have one.
LEMMA CreateEventStep ==
  ASSUME NEW p \in Procs, IInv, CreateEvent(p)
  PROVE  IInv'
<1> USE DEF Goto, Returns
<1>1. pc[p] \in Steps /\ pc'[p] \in Steps /\ \A q \in Procs : q # p => pc'[q] = pc[q]
  BY DEF IInv, TypeOK, Steps, CreateEvent
<1>2. TypeOK'
  BY ClockAssumptions DEF IInv, TypeOK, Steps, CreateEvent
<1>3. MutexInv'
  BY <1>1, ClockAssumptions DEF IInv, TypeOK, MutexInv, Held, CreateEvent
<1>4. EventInv'
  BY <1>1, ClockAssumptions DEF IInv, TypeOK, MutexInv, EventInv, Held, WithEvent, CreateEvent
<1>5. ToldInv'
  BY <1>1, SameTsc, TscIsNat DEF IInv, TypeOK, MutexInv, ToldInv, Held, Measuring, CreateEvent
<1> QED BY <1>2, <1>3, <1>4, <1>5 DEF IInv

\* A failure is told as 0, and leaves the event to be closed.
LEMMA SetTimerStep ==
  ASSUME NEW p \in Procs, IInv, SetTimer(p)
  PROVE  IInv'
<1> USE DEF Goto, Returns
<1>1. pc[p] \in Steps /\ pc'[p] \in Steps /\ \A q \in Procs : q # p => pc'[q] = pc[q]
  BY DEF IInv, TypeOK, Steps, SetTimer
<1>2. TypeOK'
  BY ClockAssumptions DEF IInv, TypeOK, Steps, SetTimer
<1>3. MutexInv'
  BY <1>1, ClockAssumptions DEF IInv, TypeOK, MutexInv, Held, SetTimer
<1>4. EventInv'
  BY <1>1, ClockAssumptions DEF IInv, TypeOK, MutexInv, EventInv, Held, WithEvent, SetTimer
<1>5. ToldInv'
  BY <1>1, SameTsc, TscIsNat DEF IInv, TypeOK, MutexInv, ToldInv, Held, Measuring, SetTimer
<1> QED BY <1>2, <1>3, <1>4, <1>5 DEF IInv

\* The value that is kept now is the first one, and nobody was told another.
LEMMA WaitForEventStep ==
  ASSUME NEW p \in Procs, IInv, WaitForEvent(p)
  PROVE  IInv'
<1> USE DEF Goto, Returns
<1>1. pc[p] \in Steps /\ pc'[p] \in Steps /\ \A q \in Procs : q # p => pc'[q] = pc[q]
  BY DEF IInv, TypeOK, Steps, WaitForEvent
<1>2. TypeOK'
  BY ClockAssumptions DEF IInv, TypeOK, Steps, WaitForEvent
<1>3. MutexInv'
  BY <1>1, ClockAssumptions DEF IInv, TypeOK, MutexInv, Held, WaitForEvent
<1>4. EventInv'
  BY <1>1, ClockAssumptions DEF IInv, TypeOK, MutexInv, EventInv, Held, WithEvent, WaitForEvent
<1>5. ToldInv'
  BY <1>1, SameTsc, TscIsNat DEF IInv, TypeOK, MutexInv, ToldInv, Held, Measuring, WaitForEvent
<1> QED BY <1>2, <1>3, <1>4, <1>5 DEF IInv

\* The event that is closed is the only one.
LEMMA CloseEventStep ==
  ASSUME NEW p \in Procs, IInv, CloseEvent(p)
  PROVE  IInv'
<1> USE DEF Goto, Returns
<1>1. pc[p] \in Steps /\ pc'[p] \in Steps /\ \A q \in Procs : q # p => pc'[q] = pc[q]
  BY DEF IInv, TypeOK, Steps, CloseEvent
<1>2. TypeOK'
  <2>1. events = 1
    BY DEF IInv, EventInv, WithEvent, CloseEvent
  <2> QED BY <2>1, ClockAssumptions DEF IInv, TypeOK, Steps, CloseEvent
<1>3. MutexInv'
  BY <1>1, ClockAssumptions DEF IInv, TypeOK, MutexInv, Held, CloseEvent
<1>4. EventInv'
  BY <1>1, ClockAssumptions DEF IInv, TypeOK, MutexInv, EventInv, Held, WithEvent, CloseEvent
<1>5. ToldInv'
  BY <1>1, SameTsc, TscIsNat DEF IInv, TypeOK, MutexInv, ToldInv, Held, Measuring, CloseEvent
<1> QED BY <1>2, <1>3, <1>4, <1>5 DEF IInv

\* The goroutine that gives the mutex back has no event.
LEMMA UnlockStep ==
  ASSUME NEW p \in Procs, IInv, Unlock(p)
  PROVE  IInv'
<1> USE DEF Goto, Returns
<1>1. pc[p] \in Steps /\ pc'[p] \in Steps /\ \A q \in Procs : q # p => pc'[q] = pc[q]
  BY DEF IInv, TypeOK, Steps, Unlock
<1>2. TypeOK'
  BY ClockAssumptions DEF IInv, TypeOK, Steps, Unlock
<1>3. MutexInv'
  BY <1>1, ClockAssumptions DEF IInv, TypeOK, MutexInv, Held, Unlock
<1>4. EventInv'
  BY <1>1, ClockAssumptions DEF IInv, TypeOK, MutexInv, EventInv, Held, WithEvent, Unlock
<1>5. ToldInv'
  BY <1>1, SameTsc, TscIsNat DEF IInv, TypeOK, MutexInv, ToldInv, Held, Measuring, Unlock
<1> QED BY <1>2, <1>3, <1>4, <1>5 DEF IInv

\* Every step keeps the inductive invariant.
LEMMA Step ==
  ASSUME IInv, [Next]_vars
  PROVE  IInv'
<1>1. CASE UNCHANGED vars
  <2>1. tsc' = tsc
    BY <1>1, SameTsc DEF vars
  <2> QED
    BY <1>1, <2>1 DEF vars, IInv, TypeOK, MutexInv, EventInv, ToldInv
<1>2. ASSUME NEW p \in Procs, Call(p) \/ TicksFrequency(p)
      PROVE  IInv'
  BY <1>2, CallStep, LockStep, CachedStep, CreateEventStep, SetTimerStep, WaitForEventStep,
     CloseEventStep, UnlockStep DEF TicksFrequency
<1> QED BY <1>1, <1>2 DEF Next

-----------------------------------------------------------------------------
\* The inductive invariant holds in every reachable state: the mutex is with the one
\* goroutine that is between Lock and Unlock of TicksFrequency, the event with the one that is
\* between CreateEvent and CloseEvent, and no frequency is kept while one is measured.
THEOREM Invariance == Spec => []IInv
<1>1. Init => IInv
  BY Initial
<1>2. IInv /\ [Next]_vars => IInv'
  BY Step
<1> QED BY <1>1, <1>2, PTL DEF Spec

\* The values are of their types: a frequency is never negative, and the quotient of
\* CpuidCoreClockCalculateTscFrequency is always that of a division by a positive number.
THEOREM TypeCorrect == Spec => []TypeOK
<1>1. IInv => TypeOK
  BY DEF IInv
<1> QED BY <1>1, Invariance, PTL

\* Any number of goroutines that were told a frequency by TicksFrequency were told the
\* same one, however their calls overlapped.
THEOREM FrequenciesDoAgree == Spec => []FrequenciesAgree
<1>1. IInv => FrequenciesAgree
  BY TscIsNat DEF IInv, TypeOK, ToldInv, FrequenciesAgree
<1> QED BY <1>1, Invariance, PTL

\* There is never a second timer event, and none when nobody has the mutex: each return of
\* TicksFrequency, an early one too, has closed the event that it created.
THEOREM EventsAreClosed == Spec => []EventsClosed
<1>1. IInv => EventsClosed
  BY ClockAssumptions DEF IInv, MutexInv, EventInv, Held, WithEvent, EventsClosed
<1> QED BY <1>1, Invariance, PTL

(***************************************************************************)
(* GetEpoch, for every year from 1970 on: the days it counts, by cycles    *)
(* and by a table, against those of the calendar, counted one by one.      *)
(***************************************************************************)
\* Leap years up to the year x, by the rule of the Gregorian calendar.
LeapYears(x) == x \div 4 - x \div 100 + x \div 400

\* A set of natural numbers that is not empty has a least one.
LEMMA Least ==
  ASSUME NEW S \in SUBSET Nat, S # {}
  PROVE  \E x \in S : \A y \in S : x <= y
<1>1. PICK x \in S : \A y \in S : ~(<<y, x>> \in OpToRel(<, Nat))
  <2> DEFINE R == OpToRel(<, Nat)
  <2>1. IsWellFoundedOn(R, Nat)
    BY NatLessThanWellFounded
  <2> HIDE DEF R
  <2>2. \E x \in S : \A y \in S : ~(<<y, x>> \in R)
    BY <2>1, WFMin
  <2> QED BY <2>2 DEF R
<1>2. \A y \in S : ~(y < x)
  BY <1>1 DEF OpToRel
<1> QED BY <1>2

\* Each leap year counts for one.
LEMMA LeapStep ==
  ASSUME NEW y \in Nat, y > 0
  PROVE  /\ LeapYears(y - 1) \in Int
         /\ LeapYears(y) = LeapYears(y - 1) + IF LeapYear(y) THEN 1 ELSE 0
<1>1. y \div 4 = (y - 1) \div 4 + IF y % 4 = 0 THEN 1 ELSE 0
  OBVIOUS
<1>2. y \div 100 = (y - 1) \div 100 + IF y % 100 = 0 THEN 1 ELSE 0
  OBVIOUS
<1>3. y \div 400 = (y - 1) \div 400 + IF y % 400 = 0 THEN 1 ELSE 0
  OBVIOUS
<1>4. (y % 100 = 0 => y % 4 = 0) /\ (y % 400 = 0 => y % 100 = 0)
  OBVIOUS
<1>5. /\ (y - 1) \div 4 \in Int /\ (y - 1) \div 100 \in Int /\ (y - 1) \div 400 \in Int
  OBVIOUS
<1> QED BY <1>1, <1>2, <1>3, <1>4, <1>5 DEF LeapYears, LeapYear

\* The leap years from 1970 on, counted one by one.
LEMMA LeapCount ==
  ASSUME NEW y \in Nat, 1970 <= y
  PROVE  Cardinality({l \in 1970..y - 1 : LeapYear(l)}) = LeapYears(y - 1) - 477
<1> DEFINE Leap(z) == {l \in 1970..z - 1 : LeapYear(l)}
           Right(z) == Cardinality(Leap(z)) = LeapYears(z - 1) - 477
           bad == {z \in Nat : 1970 <= z /\ ~Right(z)}
<1> SUFFICES ASSUME ~Right(y)
             PROVE  FALSE
  OBVIOUS
<1> HIDE DEF Right
<1>1. bad \in SUBSET Nat /\ bad # {}
  OBVIOUS
<1>2. PICK z \in bad : \A x \in bad : z <= x
  <2> HIDE DEF bad
  <2> QED BY <1>1, Least
<1>3. z \in Nat /\ 1970 <= z /\ ~Right(z)
  OBVIOUS
<1>4. z # 1970
  <2>1. Leap(1970) = {}
    OBVIOUS
  <2>2. Cardinality(Leap(1970)) = 0
    BY <2>1, FS_EmptySet
  <2>3. LeapYears(1969) = 477
    BY DEF LeapYears
  <2>4. Right(1970)
    BY <2>2, <2>3 DEF Right
  <2> QED BY <1>3, <2>4
<1> DEFINE w == z - 1
<1>5. w \in Nat /\ 1970 <= w /\ z = w + 1 /\ w \notin bad
  BY <1>2, <1>3, <1>4
<1>6. Right(w)
  BY <1>5
<1> HIDE DEF w, bad
<1>7. IsFiniteSet(Leap(w))
  <2>1. IsFiniteSet(1970..w - 1)
    BY <1>5, FS_Interval
  <2>2. Leap(w) \in SUBSET (1970..w - 1)
    OBVIOUS
  <2> DEFINE I == 1970..w - 1
             L == Leap(w)
  <2>3. IsFiniteSet(I) /\ L \in SUBSET I
    BY <2>1, <2>2
  <2> HIDE DEF I, L
  <2>4. IsFiniteSet(L)
    BY <2>3, FS_Subset
  <2> QED BY <2>4 DEF L
<1>8. w \notin Leap(w)
  BY <1>5
<1>9. Leap(z) = IF LeapYear(w) THEN Leap(w) \cup {w} ELSE Leap(w)
  BY <1>5
<1> HIDE DEF Leap
<1>10. Cardinality(Leap(w) \cup {w}) = Cardinality(Leap(w)) + 1
  BY <1>7, <1>8, FS_AddElement
<1>11. /\ LeapYears(w - 1) \in Int
       /\ LeapYears(w) = LeapYears(w - 1) + IF LeapYear(w) THEN 1 ELSE 0
  BY <1>5, LeapStep
<1>12. Cardinality(Leap(z)) = LeapYears(w) - 477
  BY <1>6, <1>9, <1>10, <1>11 DEF Right
<1> QED BY <1>3, <1>5, <1>12 DEF Right, w

\* The days up to a year, by the cycles of daysSinceEpoch.
LEMMA YearDays ==
  ASSUME NEW y \in Nat, 1970 <= y
  PROVE  daysSinceEpoch(y) + toUnix = 365 * (y - 1970) + LeapYears(y - 1) - 477
<1> DEFINE x == y - 1
           q == (ZeroYear - 1) \div 400
           a == x \div 400
           b == (x % 400) \div 100
           c == (x % 100) \div 4
           d == x % 4
           n == y - ZeroYear
<1>1. ZeroYear \in Int /\ q \in Int /\ ZeroYear = 400 * q + 1
  BY EpochAssumptions
<1>2. x \in Nat /\ a \in Int /\ b \in Int /\ c \in Int /\ d \in Int
  OBVIOUS
<1>3. x = 400 * a + 100 * b + 4 * c + d
  OBVIOUS
<1>4. x \div 4 = 100 * a + 25 * b + c
  OBVIOUS
<1>5. x \div 100 = 4 * a + b
  OBVIOUS
<1>6. n = x - 400 * q
  BY <1>1
<1> HIDE DEF n, q
<1>7. n \div 400 = a - q
  BY <1>1, <1>2, <1>6
<1>8. (n % 400) \div 100 = b
  BY <1>1, <1>2, <1>6
<1>9. (n % 100) \div 4 = c
  BY <1>1, <1>2, <1>6
<1>10. n % 4 = d
  BY <1>1, <1>2, <1>6
<1>11. daysSinceEpoch(y) = 146097 * (a - q) + 36524 * b + 1461 * c + 365 * d
  BY <1>7, <1>8, <1>9, <1>10 DEF daysSinceEpoch, n, daysPer400Years, daysPer100Years, daysPer4Years
<1>12. toUnix = 146097 * q - 1969 * 365 - 477
  BY <1>1 DEF toUnix, q, daysPer400Years
<1>13. LeapYears(x) = 100 * a + 25 * b + c - (4 * a + b) + a
  BY <1>4, <1>5 DEF LeapYears
<1>14. y - 1970 = x - 1969
  OBVIOUS
<1> HIDE DEF a, b, c, d, x
<1>15. 365 * (y - 1970) = 365 * (400 * a + 100 * b + 4 * c + d) - 365 * 1969
  BY <1>2, <1>3, <1>14
<1>16. daysSinceEpoch(y) + toUnix = 365 * (y - 1970) + LeapYears(x) - 477
  BY <1>1, <1>2, <1>11, <1>12, <1>13, <1>15
<1> QED BY <1>16 DEF x

\* The dates of the months before one.
LEMMA NoDates ==
  ASSUME NEW y
  PROVE  IsFiniteSet(DatesBefore(y, 1)) /\ Cardinality(DatesBefore(y, 1)) = 0
<1>1. DatesBefore(y, 1) = {}
  BY DEF DatesBefore
<1> QED BY <1>1, FS_EmptySet

LEMMA DatesOfMonth ==
  ASSUME NEW y, NEW m \in Nat, m >= 1,
         IsFiniteSet(DatesBefore(y, m))
  PROVE  /\ IsFiniteSet(DatesBefore(y, m + 1))
         /\ Cardinality(DatesBefore(y, m + 1)) = Cardinality(DatesBefore(y, m)) + MonthLength(y, m)
<1> DEFINE l == MonthLength(y, m)
           D == DatesBefore(y, m)
           A == {m}
           B == 1..l
           M == A \X B
<1>1. l \in Nat /\ 1 <= l /\ l <= 31
  BY DEF MonthLength
<1>2. DatesBefore(y, m + 1) = D \cup M
  <2>1. \A k \in 1..m : k \in 1..m - 1 \/ k = m
    OBVIOUS
  <2>2. m \in 1..m /\ \A k \in 1..m - 1 : k \in 1..m
    OBVIOUS
  <2>3. m + 1 - 1 = m
    OBVIOUS
  <2>4. \A i \in 1..31 : i \in 1..l <=> i <= l
    BY <1>1
  <2>5. \A i \in 1..l : i \in 1..31
    BY <1>1
  <2> HIDE DEF l
  <2>6. DatesBefore(y, m + 1) = {d \in (1..m) \X (1..31) : d[2] <= MonthLength(y, d[1])}
    BY <2>3 DEF DatesBefore
  <2> QED BY <2>1, <2>2, <2>4, <2>5, <2>6 DEF DatesBefore, l
<1>3. D \cap M = {}
  BY DEF DatesBefore
<1>4. IsFiniteSet(A) /\ Cardinality(A) = 1
  BY FS_Singleton
<1> HIDE DEF l
<1>5. IsFiniteSet(B) /\ Cardinality(B) = l
  BY <1>1, FS_Interval
<1> HIDE DEF A, B
<1>6. IsFiniteSet(M) /\ Cardinality(M) = 1 * l
  BY <1>4, <1>5, FS_Product
<1> HIDE DEF D, M
<1>7. /\ IsFiniteSet(D \cup M)
      /\ Cardinality(D \cup M) = Cardinality(D) + Cardinality(M) - Cardinality(D \cap M)
  BY <1>6, FS_Union DEF D
<1>8. Cardinality(D \cap M) = 0
  BY <1>3, FS_EmptySet
<1>9. Cardinality(D) \in Nat
  BY FS_CardinalityType DEF D
<1>10. Cardinality(D \cup M) = Cardinality(D) + l
  BY <1>1, <1>6, <1>7, <1>8, <1>9
<1>11. IsFiniteSet(DatesBefore(y, m + 1)) /\ Cardinality(DatesBefore(y, m + 1)) = Cardinality(D) + l
  BY <1>2, <1>7, <1>10, Zenon
<1> QED BY <1>11 DEF D, l

\* The days before each month, as the table daysBefore has them, and one more from March on.
LEMMA TableRight ==
  ASSUME NEW y, NEW m \in 1..12
  PROVE  Cardinality(DatesBefore(y, m))
           = daysBefore[m - 1] + IF LeapYear(y) /\ m >= 3 THEN 1 ELSE 0
<1> DEFINE C(k) == Cardinality(DatesBefore(y, k))
           leap == IF LeapYear(y) THEN 1 ELSE 0
<1> HIDE DEF C
<1>1. IsFiniteSet(DatesBefore(y, 1)) /\ C(1) = 0
  BY NoDates DEF C
<1>2. /\ \A k \in 1..11 : IsFiniteSet(DatesBefore(y, k)) =>
           IsFiniteSet(DatesBefore(y, k + 1)) /\ C(k + 1) = C(k) + MonthLength(y, k)
      /\ leap \in Nat
  BY DatesOfMonth DEF C
<1>3. IsFiniteSet(DatesBefore(y, 2)) /\ C(2) = 31
  BY <1>2, <1>1 DEF MonthLength
<1>4. IsFiniteSet(DatesBefore(y, 3)) /\ C(3) = 59 + leap
  BY <1>2, <1>3 DEF MonthLength
<1>5. IsFiniteSet(DatesBefore(y, 4)) /\ C(4) = 90 + leap
  BY <1>2, <1>4 DEF MonthLength
<1>6. IsFiniteSet(DatesBefore(y, 5)) /\ C(5) = 120 + leap
  BY <1>2, <1>5 DEF MonthLength
<1>7. IsFiniteSet(DatesBefore(y, 6)) /\ C(6) = 151 + leap
  BY <1>2, <1>6 DEF MonthLength
<1>8. IsFiniteSet(DatesBefore(y, 7)) /\ C(7) = 181 + leap
  BY <1>2, <1>7 DEF MonthLength
<1>9. IsFiniteSet(DatesBefore(y, 8)) /\ C(8) = 212 + leap
  BY <1>2, <1>8 DEF MonthLength
<1>10. IsFiniteSet(DatesBefore(y, 9)) /\ C(9) = 243 + leap
  BY <1>2, <1>9 DEF MonthLength
<1>11. IsFiniteSet(DatesBefore(y, 10)) /\ C(10) = 273 + leap
  BY <1>2, <1>10 DEF MonthLength
<1>12. IsFiniteSet(DatesBefore(y, 11)) /\ C(11) = 304 + leap
  BY <1>2, <1>11 DEF MonthLength
<1>13. IsFiniteSet(DatesBefore(y, 12)) /\ C(12) = 334 + leap
  BY <1>2, <1>12 DEF MonthLength
<1>14. /\ daysBefore[0] = 0 /\ daysBefore[1] = 31 /\ daysBefore[2] = 59
       /\ daysBefore[3] = 90 /\ daysBefore[4] = 120 /\ daysBefore[5] = 151
       /\ daysBefore[6] = 181 /\ daysBefore[7] = 212 /\ daysBefore[8] = 243
       /\ daysBefore[9] = 273 /\ daysBefore[10] = 304 /\ daysBefore[11] = 334
  BY DEF daysBefore
<1>15. C(m) = daysBefore[m - 1] + IF LeapYear(y) /\ m >= 3 THEN 1 ELSE 0
  BY <1>1, <1>3, <1>4, <1>5, <1>6, <1>7, <1>8, <1>9, <1>10, <1>11, <1>12, <1>13, <1>14
<1> QED BY <1>15 DEF C

\* The sum of GetEpoch is exact, for every year from 1970 on and every zero year that is
\* 1 mod 400: the cycles of daysSinceEpoch count the leap years, and the table counts the
\* days of the months, for a month counted from 1.
THEOREM DaysAreExact ==
  ASSUME year \in Years
  PROVE  DaysExact
<1>1. year \in Nat /\ 1970 <= year
  BY EpochAssumptions DEF Years
<1>2. YearStart[year] = 365 * (year - 1970) + (LeapYears(year - 1) - 477)
  <2>1. YearStart[year] = 365 * (year - 1970) + Cardinality({l \in 1970..year - 1 : LeapYear(l)})
    BY Zenon DEF YearStart
  <2> QED BY <1>1, <2>1, LeapCount
<1>3. daysSinceEpoch(year) + toUnix = 365 * (year - 1970) + LeapYears(year - 1) - 477
  BY <1>1, YearDays
<1>4. isLeap(year) <=> LeapYear(year)
  <2>1. (year % 100 = 0 => year % 4 = 0) /\ (year % 400 = 0 => year % 100 = 0)
    BY <1>1
  <2> QED BY <2>1 DEF isLeap, LeapYear
<1>5. LeapYears(year - 1) \in Int /\ daysSinceEpoch(year) \in Int /\ toUnix \in Int
  BY <1>1, LeapStep, EpochAssumptions
     DEF daysSinceEpoch, toUnix, daysPer400Years, daysPer100Years, daysPer4Years
<1>6. \A k \in 0..12 : daysBefore[k] \in Int
  BY DEF daysBefore
<1> SUFFICES ASSUME NEW m \in 1..12, NEW d \in 1..MonthLength(year, m)
             PROVE  daysTo(year, m, d) = MonthStart(year, m) + d - 1
  BY DEF DaysExact
<1>7. d \in Int /\ m - 1 \in 0..12
  BY DEF MonthLength
<1>8. MonthStart(year, m)
        = YearStart[year] + (daysBefore[m - 1] + IF LeapYear(year) /\ m >= 3 THEN 1 ELSE 0)
  BY TableRight DEF MonthStart
<1>9. daysTo(year, m, d)
        = daysSinceEpoch(year) + daysBefore[m - 1]
          + (IF LeapYear(year) /\ m >= 3 THEN 1 ELSE 0) + d - 1 + toUnix
  BY <1>4 DEF daysTo
<1> QED BY <1>1, <1>2, <1>3, <1>5, <1>6, <1>7, <1>8, <1>9

(***************************************************************************)
(* The serial port, for every length of the buffers and any number of      *)
(* bytes.                                                                  *)
(***************************************************************************)
\* Types, as far as each step keeps them by itself.
PortTypes ==
  /\ rpc \in {"idle", "loop", "assert", "read", "switch"}
  /\ wpc \in {"idle", "kick", "write", "attributes"}
  /\ control \subseteq Outputs /\ controlBits \subseteq Outputs
  /\ bufLen \in 0..BufLen /\ fifo \in Nat /\ status \in Statuses
  /\ dropped \in [Losses -> Nat]
  /\ arrived \in 0..MaxBytes /\ delivered \in Nat /\ sent \in 0..MaxBytes

\* The bytes that a firmware read has taken with success, before Read returns them.
Taken == IF rpc = "switch" /\ status = "success" THEN bufLen ELSE 0

\* The books: each byte that has arrived is waiting, was returned, is about to be, or was
\* lost to a read that timed out or failed, or to a Reset.  No success loses any.
PortBooks ==
  /\ arrived = fifo + delivered + Taken
                 + dropped["timeout"] + dropped["error"] + dropped["reset"]
  /\ dropped["success"] = 0

\* A Write that has come past its check was started without flow control, or with CTS;
\* flow control cannot be turned on before it has ended.
PortCTS == wpc = "write" /\ flowControl => seenCTS

PortInv == PortTypes /\ PortBooks /\ PortCTS

\* Nothing has arrived, and nothing is being written.
LEMMA PortInitial ==
  ASSUME PortSizes, PortInit
  PROVE  PortInv
<1> USE DEF PortSizes, PortInit
<1>1. PortTypes
  BY DEF PortTypes, Losses, Statuses
<1>2. PortBooks
  BY DEF PortBooks, Taken, Losses, Statuses
<1>3. PortCTS
  BY DEF PortCTS
<1> QED BY <1>1, <1>2, <1>3 DEF PortInv

\* A firmware read that takes bytes takes them off the line; they are kept for Read only
\* if its status is success, and counted as lost otherwise.
LEMMA FirmwareReadStep ==
  ASSUME PortSizes, PortInv, FirmwareRead
  PROVE  PortInv'
<1> USE DEF PortSizes, PortInv
<1>1. PICK n \in 0..bufLen :
        \E s \in Statuses :
          /\ n <= fifo
          /\ s = "success" => n = bufLen \/ n = fifo
          /\ bufLen' = n /\ fifo' = fifo - n
          /\ status' = Effective(s, n)
          /\ dropped' = [dropped EXCEPT ![s] = IF s = "success" THEN 0 ELSE @ + n]
  BY Zenon DEF FirmwareRead
<1>2. PICK s \in Statuses :
          /\ n <= fifo
          /\ bufLen' = n /\ fifo' = fifo - n
          /\ status' = Effective(s, n)
          /\ dropped' = [dropped EXCEPT ![s] = IF s = "success" THEN 0 ELSE @ + n]
  BY <1>1, Zenon
<1>3. n \in Nat /\ n <= BufLen
  BY DEF PortTypes
<1>4. PortTypes'
  <2>1. dropped' \in [Losses -> Nat]
    BY <1>2, <1>3 DEF PortTypes, Losses, Statuses
  <2> QED
    BY <1>2, <1>3, <2>1 DEF PortTypes, FirmwareRead, Effective, Statuses,
                            writing, port
<1>5. PortBooks'
  <2>1. /\ dropped'["success"] = 0
        /\ s # "success" => dropped'[s] = dropped[s] + n
        /\ \A l \in Losses \ {s, "success"} : dropped'[l] = dropped[l]
    BY <1>2, <1>3 DEF PortTypes, PortBooks, Losses, Statuses
  <2>2. Taken' = IF s = "success" THEN n ELSE 0
    BY <1>2, <1>3 DEF Taken, FirmwareRead, Effective, Statuses
  <2>3. Taken = 0
    BY DEF Taken, FirmwareRead
  <2>4. /\ dropped["timeout"] \in Nat /\ dropped["error"] \in Nat /\ dropped["reset"] \in Nat
    BY DEF PortTypes, Losses, Statuses
  <2>5. arrived' = arrived /\ delivered' = delivered
    BY DEF FirmwareRead, port
  <2>6. dropped'["timeout"] + dropped'["error"] + dropped'["reset"]
          = dropped["timeout"] + dropped["error"] + dropped["reset"]
              + IF s = "success" THEN 0 ELSE n
    BY <1>3, <2>1, <2>4 DEF Losses, Statuses
  <2> QED
    BY <1>2, <1>3, <2>1, <2>2, <2>3, <2>4, <2>5, <2>6 DEF PortBooks, PortTypes, Losses, Statuses
<1>6. PortCTS'
  BY DEF PortCTS, FirmwareRead, writing, port
<1> QED BY <1>4, <1>5, <1>6

\* What a Reset discards is counted as lost.
LEMMA ResetStep ==
  ASSUME PortSizes, PortInv, Reset
  PROVE  PortInv'
<1> USE DEF PortSizes, PortInv
<1>1. fifo \in Nat /\ fifo' \in Nat /\ fifo - fifo' \in Nat
  <2>1. fifo \in Nat /\ (fifo' = 0 \/ fifo' = fifo)
    BY Zenon DEF PortTypes, Reset
  <2> QED BY <2>1
<1>2. /\ dropped["timeout"] \in Nat /\ dropped["error"] \in Nat /\ dropped["reset"] \in Nat
      /\ dropped["success"] = 0
  BY DEF PortTypes, PortBooks, Losses, Statuses
<1>3. /\ dropped'["reset"] = dropped["reset"] + fifo - fifo'
      /\ \A l \in Statuses : dropped'[l] = dropped[l]
      /\ dropped' \in [Losses -> Nat]
  BY <1>1, <1>2 DEF PortTypes, Reset, Losses, Statuses
<1>4. PortTypes'
  BY <1>1, <1>3 DEF PortTypes, Reset, port
<1>5. PortBooks'
  BY <1>1, <1>2, <1>3 DEF PortTypes, PortBooks, Taken, Reset, port, Statuses
<1>6. PortCTS'
  BY DEF PortCTS, Reset
<1> QED BY <1>4, <1>5, <1>6

\* Every other step moves no byte, but for one that arrives and for those that Read
\* returns.  A Write comes past its check only without flow control, or with CTS.
LEMMA PortStep ==
  ASSUME PortSizes, PortInv, [PortNext]_portVars
  PROVE  PortInv'
<1> USE DEF PortSizes, PortInv, PortTypes, PortBooks, PortCTS, Taken, reading,
            writing, port
<1>0. /\ dropped["timeout"] \in Nat /\ dropped["error"] \in Nat /\ dropped["reset"] \in Nat
  BY DEF PortTypes, Losses, Statuses
<1>1. CASE Arrive
  BY <1>0, <1>1 DEF Arrive
<1>2. CASE MoveCTS
  BY <1>2 DEF MoveCTS
<1>3. CASE Switch
  BY <1>3 DEF Switch
<1>4. CASE GetControl
  BY <1>4 DEF GetControl
<1>5. CASE AssertRTS
  BY <1>5 DEF AssertRTS, Outputs
<1>6. CASE FirmwareRead
  BY <1>6, FirmwareReadStep
<1>7. CASE ReadResult
  BY <1>0, <1>7 DEF ReadResult
<1>8. CASE Reset
  BY <1>8, ResetStep
<1>9. CASE StartWrite
  BY <1>9 DEF StartWrite, Written, Caller
<1>10. CASE FirmwareWrite
  BY <1>10 DEF FirmwareWrite, Written
<1>11. CASE SetAttributes
  BY <1>11 DEF SetAttributes
<1>12. CASE UseFlowControl
  BY <1>12 DEF UseFlowControl
<1>13. CASE UNCHANGED portVars
  BY <1>13 DEF portVars
<1> QED
  BY <1>1, <1>2, <1>3, <1>4, <1>5, <1>6, <1>7, <1>8, <1>9, <1>10, <1>11, <1>12, <1>13
  DEF PortNext, Read, Write

\* The invariant of the port holds in every reachable state.
LEMMA PortInvariance == PortSpec => []PortInv
<1>1. PortInit => PortInv
  BY SerialAssumptions, PortInitial
<1>2. PortInv /\ [PortNext]_portVars => PortInv'
  BY SerialAssumptions, PortStep
<1> QED BY <1>1, <1>2, PTL DEF PortSpec

\* The values of a serial port are of their types; no more bytes are delivered than have
\* arrived, nor lost in any one way.
THEOREM PortTypeCorrect == PortSpec => []PortTypeOK
<1>1. PortInv => PortTypeOK
  <2> SUFFICES ASSUME PortInv PROVE PortTypeOK
    OBVIOUS
  <2>1. \A l \in Losses : dropped[l] \in Nat
    BY DEF PortInv, PortTypes
  <2>2. Taken \in Nat
    BY DEF PortInv, PortTypes, Taken
  <2>3. delivered <= arrived /\ \A l \in Losses : dropped[l] <= arrived
    BY <2>1, <2>2 DEF PortInv, PortTypes, PortBooks, Losses, Statuses
  <2>4. dropped \in [Losses -> 0..MaxBytes]
    BY <2>1, <2>3, SerialAssumptions DEF PortInv, PortTypes, PortSizes
  <2> QED BY <2>3, <2>4, SerialAssumptions DEF PortInv, PortTypes, PortTypeOK, PortSizes
<1> QED BY <1>1, PortInvariance, PTL

\* As long as every firmware read that took bytes was a success and no Reset took any,
\* Read of SerialPort has returned, or is about to return, each byte that was taken, over
\* any number of time-outs and of turns of its loop.
THEOREM PortLosesNothing == PortSpec => []NoByteLostButPartial
<1>1. PortInv => NoByteLostButPartial
  <2> SUFFICES ASSUME PortInv, \A s \in Losses : dropped[s] = 0
               PROVE  arrived = fifo + delivered + Taken
    BY DEF NoByteLostButPartial, Taken
  <2>1. dropped["timeout"] = 0 /\ dropped["error"] = 0 /\ dropped["reset"] = 0
    BY DEF Losses, Statuses
  <2>2. Taken \in Nat
    BY DEF PortInv, PortTypes, Taken
  <2> QED BY <2>1, <2>2 DEF PortInv, PortTypes, PortBooks
<1> QED BY <1>1, PortInvariance, PTL

\* With flow control nothing is sent, by Write or by the one in Init, unless CTS was set
\* at some moment of that call, whatever the two goroutines and the other side of the line
\* do in between.
THEOREM PortRespectsCTS == PortSpec => CTSRespected
<1>1. PortInv /\ [PortNext]_portVars
        => [sent' # sent /\ flowControl => seenCTS]_portVars
  <2> SUFFICES ASSUME PortInv, PortNext, sent' # sent, flowControl
               PROVE  seenCTS
    BY DEF portVars
  <2>1. FirmwareWrite
    BY DEF PortNext, Read, Write, Arrive, MoveCTS, Switch,
           GetControl, AssertRTS, FirmwareRead, ReadResult, Reset,
           StartWrite, SetAttributes, UseFlowControl, writing
  <2> QED BY <2>1 DEF PortInv, PortCTS, FirmwareWrite
<1> QED BY <1>1, PortInvariance, PTL DEF PortSpec, CTSRespected

(***************************************************************************)
(* The enumerations of devices, for any number of handles and of changes   *)
(* that drivers make, between any two calls of the firmware.               *)
(***************************************************************************)
Loop == {"handle", "first", "second", "child", "childProtocol"}

\* The handles whose turn has not come.
Rest == IF stage \in Loop THEN {handles[i] : i \in 1..Len(handles)} ELSE {}

\* The protocols an element of the result has interfaces of.
Parts == IF kind = "snp" THEN {"DHCP4Binding"} ELSE UsedAs[kind]

\* The handles that the elements of the result belong to.
Owners == {Owner(found[i]) : i \in 1..Len(found)}

\* Types, with the children numbered one after the other.
BusTypes ==
  /\ kind \in Kinds
  /\ db \in [Handles -> SUBSET Relevant(kind)]
  /\ always \in [Handles -> SUBSET Relevant(kind)]
  /\ ever \in [Handles -> SUBSET Relevant(kind)]
  /\ stage \in Loop \cup {"idle", "locate"}
  /\ handles \in Seq(Handles) /\ found \in Seq([Parts -> Nat]) /\ begun \in Nat
  /\ Cardinality(children) \in Nat
  /\ children = NumHandles + 1..NumHandles + Cardinality(children)

\* The history brackets the database.
HistoryInv == \A h \in Handles : always[h] \subseteq db[h] /\ db[h] \subseteq ever[h]

\* The loop goes over handles that had the protocol it was looking for, each of them once.
LoopInv ==
  /\ stage \in Loop =>
       /\ \A i, j \in 1..Len(handles) : handles[i] = handles[j] => i = j
       /\ \A h \in Rest : Search[kind] \in ever[h]
  /\ stage \in Loop \ {"handle"} => handles # <<>>
  /\ stage = "first" => kind = "snp"
  /\ stage = "second" => kind = "disks"
  /\ stage \in {"child", "childProtocol"} => kind = "dhcpv4"
  /\ stage = "childProtocol" => Cardinality(children) > 0
  /\ stage = "locate" => found = <<>> /\ refused = {}

\* The interfaces of an element are all of one handle, and no two elements are of one; a
\* child that was just created is in no element.
ItemsInv ==
  /\ \A i \in 1..Len(found) : found[i] = [q \in Parts |-> Owner(found[i])]
  /\ \A i, j \in 1..Len(found) : Owner(found[i]) = Owner(found[j]) => i = j
  /\ kind = "dhcpv4" => \A i \in 1..Len(found) :
       /\ Owner(found[i]) \in children
       /\ stage = "childProtocol" => Owner(found[i]) # NumHandles + Cardinality(children)

\* Of the handles whose turn has come, those that kept the protocols are in the result, and
\* those in the result had them; DHCP children are only counted.
Accounted(kept, had, rest) ==
  IF kind = "dhcpv4"
  THEN /\ Cardinality((kept \ refused) \ rest) <= Len(found)
       /\ Len(found) <= Cardinality(had \ rest)
  ELSE kept \subseteq Owners \cup rest /\ Owners \subseteq had \ rest

AccountInv == stage \in Loop \/ Returned => Accounted(Kept, Had, Rest)

BusInv == BusTypes /\ HistoryInv /\ LoopInv /\ ItemsInv /\ AccountInv

-----------------------------------------------------------------------------
\* What each enumeration asks for: a handle is found by the interfaces it is asked for, and
\* these are all the protocols that matter.
LEMMA KindFacts ==
  ASSUME kind \in Kinds
  PROVE  /\ Search[kind] \in Relevant(kind)
         /\ Wanted[kind][1] \in Relevant(kind)
         /\ Parts # {}
         /\ kind # "snp" => Parts = UsedAs[kind]
         /\ kind = "disks" =>
              /\ Len(Wanted[kind]) = 2 /\ Wanted[kind][1] = Search[kind]
              /\ Wanted[kind][2] \in Relevant(kind)
              /\ Relevant(kind) = {Search[kind], Wanted[kind][2]}
              /\ Range(Wanted[kind]) = Parts
         /\ kind # "disks" =>
              /\ Len(Wanted[kind]) = 1
              /\ Relevant(kind) = {Search[kind], Wanted[kind][1]}
         /\ kind \in {"fileSystems", "serialPorts", "snp"} => Parts = {Wanted[kind][1]}
         /\ kind = "dhcpv4" => /\ Parts = {"DHCP4"}
                               /\ Relevant(kind) = {Search[kind]}
         /\ kind = "snp" => "DHCP4Binding" \in Relevant(kind)
<1> USE DEF Parts, Search, Wanted, UsedAs, Relevant, Range
<1>1. CASE kind = "disks"
  BY <1>1
<1>2. CASE kind = "fileSystems"
  BY <1>2
<1>3. CASE kind = "serialPorts"
  BY <1>3
<1>4. CASE kind = "dhcpv4"
  BY <1>4
<1>5. CASE kind = "snp"
  BY <1>5
<1> QED BY <1>1, <1>2, <1>3, <1>4, <1>5 DEF Kinds

\* The handle of an element whose interfaces are all of one.
LEMMA OwnerOf ==
  ASSUME NEW S, S # {}, NEW h
  PROVE  /\ Owner([q \in S |-> h]) = h
         /\ Range([q \in S |-> h]) = {h}
<1>1. Range([q \in S |-> h]) = {h}
  BY Zenon DEF Range
<1>2. Owner([q \in S |-> h]) \in {h}
  BY <1>1, Zenon DEF Owner
<1> QED BY <1>1, <1>2

\* The handles behind the first.
LEMMA RestTail ==
  ASSUME NEW S, NEW s \in Seq(S), s # <<>>,
         \A i, j \in 1..Len(s) : s[i] = s[j] => i = j
  PROVE  /\ Head(s) \in S /\ Tail(s) \in Seq(S)
         /\ \A i, j \in 1..Len(Tail(s)) : Tail(s)[i] = Tail(s)[j] => i = j
         /\ {Tail(s)[i] : i \in 1..Len(Tail(s))} = {s[i] : i \in 1..Len(s)} \ {Head(s)}
         /\ Head(s) \in {s[i] : i \in 1..Len(s)}
<1>1. /\ Tail(s) \in Seq(S) /\ Len(s) \in Nat /\ Len(s) > 0 /\ Len(Tail(s)) = Len(s) - 1
      /\ Head(s) = s[1] /\ Head(s) \in S
      /\ \A i \in 1..Len(s) - 1 : Tail(s)[i] = s[i + 1]
  BY HeadTailProperties, EmptySeq
<1>2. \A i, j \in 1..Len(Tail(s)) : Tail(s)[i] = Tail(s)[j] => i = j
  <2> SUFFICES ASSUME NEW i \in 1..Len(s) - 1, NEW j \in 1..Len(s) - 1, s[i + 1] = s[j + 1]
               PROVE  i = j
    BY <1>1
  <2>1. i + 1 \in 1..Len(s) /\ j + 1 \in 1..Len(s)
    BY <1>1
  <2>2. i + 1 = j + 1
    BY <2>1
  <2> QED BY <2>2
<1>3. ASSUME NEW x
      PROVE  (\E i \in 1..Len(Tail(s)) : x = Tail(s)[i])
               <=> (\E i \in 1..Len(s) : x = s[i]) /\ x # s[1]
  <2>1. ASSUME NEW i \in 1..Len(Tail(s)), x = Tail(s)[i]
        PROVE  (\E j \in 1..Len(s) : x = s[j]) /\ x # s[1]
    <3>1. i + 1 \in 1..Len(s) /\ i + 1 # 1 /\ x = s[i + 1] /\ 1 \in 1..Len(s)
      BY <1>1, <2>1
    <3> QED BY <3>1
  <2>2. ASSUME NEW j \in 1..Len(s), x = s[j], x # s[1]
        PROVE  \E i \in 1..Len(Tail(s)) : x = Tail(s)[i]
    <3>1. j - 1 \in 1..Len(Tail(s)) /\ (j - 1) + 1 = j
      BY <1>1, <2>2
    <3> QED BY <1>1, <2>2, <3>1
  <2> QED BY <2>1, <2>2
<1>4. 1 \in 1..Len(s)
  BY <1>1
<1>5. \A x : x \in {Tail(s)[i] : i \in 1..Len(Tail(s))}
             <=> x \in {s[i] : i \in 1..Len(s)} \ {s[1]}
  <2> TAKE x
  <2> QED BY <1>3
<1>6. {Tail(s)[i] : i \in 1..Len(Tail(s))} = {s[i] : i \in 1..Len(s)} \ {s[1]}
  BY <1>5, Zenon
<1>7. s[1] \in {s[i] : i \in 1..Len(s)}
  BY <1>4, Zenon
<1> QED BY <1>1, <1>2, <1>6, <1>7

\* The sets of handles are finite.
LEMMA HandleSets ==
  ASSUME DevicesSizes, NEW S \in SUBSET Handles
  PROVE  IsFiniteSet(S) /\ Cardinality(S) \in Nat
<1>1. IsFiniteSet(Handles)
  BY FS_Interval DEF DevicesSizes, Handles
<1>2. IsFiniteSet(S)
  BY <1>1, FS_Subset
<1> QED BY <1>2, FS_CardinalityType

\* A smaller set of handles has no more members.
LEMMA HandleSubset ==
  ASSUME DevicesSizes, NEW S \in SUBSET Handles, NEW T \in SUBSET S
  PROVE  Cardinality(T) <= Cardinality(S)
BY HandleSets, FS_Subset

\* What the books say holds of fewer handles that kept the protocols, and of more that had
\* them.
LEMMA AccountedMonotone ==
  ASSUME DevicesSizes, found \in Seq([Parts -> Nat]),
         NEW kept \in SUBSET Handles, NEW kept2 \in SUBSET kept,
         NEW had2 \in SUBSET Handles, NEW had \in SUBSET had2, NEW rest,
         Accounted(kept, had, rest)
  PROVE  Accounted(kept2, had2, rest)
<1>1. CASE kind = "dhcpv4"
  <2> DEFINE a == (kept \ refused) \ rest
             a2 == (kept2 \ refused) \ rest
             b == had \ rest
             b2 == had2 \ rest
  <2>1. a \in SUBSET Handles /\ a2 \in SUBSET a /\ b2 \in SUBSET Handles /\ b \in SUBSET b2
    OBVIOUS
  <2>2. Cardinality(a) <= Len(found) /\ Len(found) <= Cardinality(b) /\ Len(found) \in Nat
    BY <1>1 DEF Accounted
  <2> HIDE DEF a, a2, b, b2
  <2>3. Cardinality(a2) <= Cardinality(a) /\ Cardinality(b) <= Cardinality(b2)
    BY <2>1, HandleSubset
  <2>4. a2 \in SUBSET Handles /\ b \in SUBSET Handles
    BY <2>1
  <2>5. /\ Cardinality(a) \in Nat /\ Cardinality(a2) \in Nat
        /\ Cardinality(b) \in Nat /\ Cardinality(b2) \in Nat
    BY <2>1, <2>4, HandleSets
  <2>6. Cardinality(a2) <= Len(found) /\ Len(found) <= Cardinality(b2)
    BY <2>2, <2>3, <2>5
  <2> QED BY <1>1, <2>6 DEF Accounted, a2, b2
<1>2. CASE kind # "dhcpv4"
  BY <1>2 DEF Accounted
<1> QED BY <1>1, <1>2

\* A handle that did not keep the protocols may be left out.
LEMMA AccountedSkip ==
  ASSUME DevicesSizes, found \in Seq([Parts -> Nat]),
         NEW kept \in SUBSET Handles, NEW had \in SUBSET Handles, NEW rest,
         NEW h, h \notin kept, Accounted(kept, had, rest)
  PROVE  Accounted(kept, had, rest \ {h})
<1>1. CASE kind = "dhcpv4"
  <2> DEFINE b == had \ rest
             b2 == had \ (rest \ {h})
  <2>1. (kept \ refused) \ (rest \ {h}) = (kept \ refused) \ rest
    OBVIOUS
  <2>2. b2 \in SUBSET Handles /\ b \in SUBSET b2 /\ b \in SUBSET Handles
    OBVIOUS
  <2>3. /\ Cardinality((kept \ refused) \ rest) <= Len(found)
        /\ Len(found) <= Cardinality(b) /\ Len(found) \in Nat
    BY <1>1 DEF Accounted
  <2> HIDE DEF b, b2
  <2>4. Cardinality(b) <= Cardinality(b2) /\ Cardinality(b) \in Nat /\ Cardinality(b2) \in Nat
    BY <2>2, HandleSubset, HandleSets
  <2>5. Len(found) <= Cardinality(b2)
    BY <2>3, <2>4
  <2> QED BY <1>1, <2>1, <2>3, <2>5 DEF Accounted, b2
<1>2. CASE kind # "dhcpv4"
  BY <1>2 DEF Accounted
<1> QED BY <1>1, <1>2

\* One element more, of a handle that is in none.
LEMMA ItemsMore ==
  ASSUME BusTypes, NEW g \in Nat, g \notin Owners, kind' = kind,
         \A i \in 1..Len(found) : found[i] = [q \in Parts |-> Owner(found[i])],
         \A i, j \in 1..Len(found) : Owner(found[i]) = Owner(found[j]) => i = j,
         found' = Append(found, [q \in Parts |-> g])
  PROVE  /\ Parts' = Parts /\ found' \in Seq([Parts -> Nat]) /\ Len(found') = Len(found) + 1
         /\ \A i \in 1..Len(found) : found'[i] = found[i]
         /\ Owner(found'[Len(found) + 1]) = g
         /\ \A i \in 1..Len(found') : found'[i] = [q \in Parts |-> Owner(found'[i])]
         /\ \A i, j \in 1..Len(found') :
              Owner(found'[i]) = Owner(found'[j]) => i = j
         /\ {Owner(found'[i]) : i \in 1..Len(found')} = Owners \cup {g}
<1> DEFINE item == [q \in Parts |-> g]
           l == Len(found)
<1>1. Parts' = Parts
  BY DEF Parts
<1>2. found \in Seq([Parts -> Nat]) /\ item \in [Parts -> Nat] /\ l \in Nat
  BY DEF BusTypes
<1>3. Parts # {}
  BY KindFacts DEF BusTypes
<1>4. Owner(item) = g
  BY <1>3, OwnerOf, Zenon
<1> HIDE DEF item
<1>5. /\ Append(found, item) \in Seq([Parts -> Nat]) /\ Len(Append(found, item)) = l + 1
      /\ \A i \in 1..l : Append(found, item)[i] = found[i]
      /\ Append(found, item)[l + 1] = item
  BY <1>2, AppendProperties
<1>6. found' = Append(found, item)
  BY DEF item
<1>7. /\ found' \in Seq([Parts -> Nat]) /\ Len(found') = l + 1
      /\ \A i \in 1..l : found'[i] = found[i]
      /\ found'[l + 1] = item
  BY <1>5, <1>6, Zenon
<1> HIDE DEF l
<1>8. \A i \in 1..Len(found') : i \in 1..l \/ i = l + 1
  BY <1>2, <1>7
<1>9. \A i \in 1..l : i \in 1..Len(found') /\ l + 1 \in 1..Len(found')
  BY <1>2, <1>7
<1>10. l + 1 \in 1..Len(found')
  BY <1>2, <1>7
<1>11. \A i \in 1..l : Owner(found'[i]) \in Owners
  BY <1>7, Zenon DEF Owners, l
<1>12. \A i \in 1..Len(found') : found'[i] = [q \in Parts |-> Owner(found'[i])]
  <2> TAKE i \in 1..Len(found')
  <2>1. CASE i \in 1..l
    <3>1. found'[i] = found[i] /\ found[i] = [q \in Parts |-> Owner(found[i])]
      BY <1>7, <2>1 DEF l
    <3> QED BY <3>1, Zenon
  <2>2. CASE i = l + 1
    BY <1>4, <1>7, <2>2, Zenon DEF item
  <2> QED BY <1>8, <2>1, <2>2
<1>13. \A i, j \in 1..Len(found') : Owner(found'[i]) = Owner(found'[j]) => i = j
  <2> TAKE i, j \in 1..Len(found')
  <2> HAVE Owner(found'[i]) = Owner(found'[j])
  <2>1. CASE i \in 1..l /\ j \in 1..l
    BY <1>7, <2>1, Zenon DEF l
  <2>2. CASE i = l + 1 \/ j = l + 1
    BY <1>4, <1>7, <1>8, <1>11, <2>2, Zenon
  <2> QED BY <1>8, <2>1, <2>2
<1>14. {Owner(found'[i]) : i \in 1..Len(found')} = Owners \cup {g}
  <2>1. \A i \in 1..l : Owner(found'[i]) = Owner(found[i])
    BY <1>7, Zenon
  <2>2. \A x : (\E i \in 1..Len(found') : x = Owner(found'[i]))
                 <=> (\E i \in 1..l : x = Owner(found[i])) \/ x = g
    BY <1>4, <1>7, <1>8, <1>9, <1>10, <2>1, Zenon
  <2>3. Owners = {Owner(found[i]) : i \in 1..l}
    BY DEF Owners, l
  <2>4. \A x : x \in {Owner(found'[i]) : i \in 1..Len(found')} <=> x \in Owners \cup {g}
    <3> TAKE x
    <3>1. x \in Owners <=> \E i \in 1..l : x = Owner(found[i])
      BY <2>3, Zenon
    <3>2. x \in {Owner(found'[i]) : i \in 1..Len(found')}
            <=> \E i \in 1..Len(found') : x = Owner(found'[i])
      BY Zenon
    <3> QED BY <2>2, <3>1, <3>2, Zenon
  <2> QED BY <2>4, Zenon
<1> QED BY <1>1, <1>4, <1>7, <1>12, <1>13, <1>14 DEF l

\* Handles that kept the protocols, or had them, are handles.
LEMMA KeptHad == Kept \in SUBSET Handles /\ Had \in SUBSET Handles
BY DEF Kept, Had

\* A change of the database keeps the brackets around it, and they only widen.
LEMMA DbChange ==
  ASSUME BusTypes, HistoryInv, NEW h \in Handles, NEW ps \in SUBSET Relevant(kind),
         SetProtocols(h, ps), kind' = kind
  PROVE  /\ db' \in [Handles -> SUBSET Relevant(kind)]
         /\ always' \in [Handles -> SUBSET Relevant(kind)]
         /\ ever' \in [Handles -> SUBSET Relevant(kind)]
         /\ HistoryInv'
         /\ \A g \in Handles : ever[g] \subseteq ever'[g]
         /\ Kept' \in SUBSET Kept /\ Had \in SUBSET Had'
<1> DEFINE R == Relevant(kind)
<1>1. /\ db \in [Handles -> SUBSET R] /\ always \in [Handles -> SUBSET R]
      /\ ever \in [Handles -> SUBSET R] /\ ps \in SUBSET R
  BY DEF BusTypes
<1>2. /\ db' = [db EXCEPT ![h] = ps]
      /\ always' = [always EXCEPT ![h] = always[h] \cap ps]
      /\ ever' = [ever EXCEPT ![h] = ever[h] \cup ps]
  BY DEF SetProtocols
<1>3. Relevant(kind)' = R
  OBVIOUS
<1> HIDE DEF R
<1>4. /\ db' \in [Handles -> SUBSET R] /\ always' \in [Handles -> SUBSET R]
      /\ ever' \in [Handles -> SUBSET R]
  BY <1>1, <1>2
<1>5. \A g \in Handles :
        /\ db'[g] = IF g = h THEN ps ELSE db[g]
        /\ always'[g] = IF g = h THEN always[g] \cap ps ELSE always[g]
        /\ ever'[g] = IF g = h THEN ever[g] \cup ps ELSE ever[g]
  BY <1>1, <1>2
<1>6. HistoryInv'
  BY <1>5 DEF HistoryInv
<1>7. \A g \in Handles : always'[g] \subseteq always[g] /\ ever[g] \subseteq ever'[g]
  BY <1>5
<1>8. Kept' = {g \in Handles : R \subseteq always'[g]}
  BY <1>3 DEF Kept, R
<1>9. Kept = {g \in Handles : R \subseteq always[g]}
  BY DEF Kept, R
<1>10. Had' = {g \in Handles : R \subseteq ever'[g]}
  BY <1>3 DEF Had, R
<1>11. Had = {g \in Handles : R \subseteq ever[g]}
  BY DEF Had, R
<1>12. Kept' \in SUBSET Kept
  BY <1>7, <1>8, <1>9
<1>13. Had \in SUBSET Had'
  BY <1>7, <1>10, <1>11
<1> QED BY <1>4, <1>6, <1>7, <1>12, <1>13 DEF R

\* Steps that only move between points of the loop, or change the database.
LEMMA SameResult ==
  ASSUME DevicesSizes, BusInv, UNCHANGED <<kind, handles, found, err, children, begun, refused>>,
         db' \in [Handles -> SUBSET Relevant(kind)],
         always' \in [Handles -> SUBSET Relevant(kind)],
         ever' \in [Handles -> SUBSET Relevant(kind)],
         HistoryInv', \A g \in Handles : ever[g] \subseteq ever'[g],
         Kept' \in SUBSET Kept, Had \in SUBSET Had',
         \/ stage' = stage
         \/ stage = "handle" /\ handles # <<>> /\ kind = "snp" /\ stage' = "first"
         \/ stage \in Loop /\ handles # <<>> /\ kind = "disks" /\ stage' = "second"
         \/ stage \in Loop /\ handles # <<>> /\ kind = "dhcpv4" /\ stage' = "child"
  PROVE  BusInv'
<1>1. /\ Parts' = Parts /\ Owners' = Owners /\ Rest' = Rest
      /\ (stage' \in Loop <=> stage \in Loop) /\ (Returned' <=> Returned)
  BY DEF Parts, Owners, Rest, Returned, Loop
<1>2. BusTypes'
  BY <1>1 DEF BusInv, BusTypes, Loop
<1>3. LoopInv'
  <2>1. \A h \in Rest : h \in Handles
    BY DEF BusInv, BusTypes, Rest
  <2>2. stage \in Loop => \A h \in Rest : Search[kind] \in ever'[h]
    BY <2>1 DEF BusInv, LoopInv
  <2> QED BY <1>1, <2>2 DEF BusInv, LoopInv, Loop
<1>4. ItemsInv'
  BY <1>1 DEF BusInv, ItemsInv
<1>5. AccountInv'
  <2> SUFFICES ASSUME stage \in Loop \/ Returned
               PROVE  Accounted(Kept, Had, Rest)'
    BY <1>1 DEF AccountInv
  <2>1. Accounted(Kept, Had, Rest) /\ found \in Seq([Parts -> Nat])
    BY DEF BusInv, BusTypes, AccountInv
  <2>2. Had' \in SUBSET Handles
    BY DEF Had, Handles
  <2>3. Accounted(Kept', Had', Rest)
    BY <2>1, <2>2, KeptHad, AccountedMonotone
  <2> QED BY <1>1, <2>3 DEF Accounted
<1> QED BY <1>2, <1>3, <1>4, <1>5 DEF BusInv

\* Drivers change the database, at any time.
LEMMA DriverChangeStep ==
  ASSUME DevicesSizes, BusInv, DriverChange
  PROVE  BusInv'
<1>1. UNCHANGED <<kind, stage, handles, found, err, children, begun, refused>>
  BY DEF DriverChange, result
<1>2. PICK h \in Handles : \E q \in Relevant(kind) :
        SetProtocols(h, IF q \in db[h] THEN db[h] \ {q} ELSE db[h] \cup {q})
  BY DEF DriverChange
<1>3. PICK q \in Relevant(kind) :
        SetProtocols(h, IF q \in db[h] THEN db[h] \ {q} ELSE db[h] \cup {q})
  BY <1>2
<1> DEFINE ps == IF q \in db[h] THEN db[h] \ {q} ELSE db[h] \cup {q}
<1>4. ps \in SUBSET Relevant(kind) /\ SetProtocols(h, ps)
  BY <1>3 DEF BusInv, BusTypes
<1> HIDE DEF ps
<1>5. BusTypes /\ HistoryInv
  BY DEF BusInv
<1>6. /\ db' \in [Handles -> SUBSET Relevant(kind)]
      /\ always' \in [Handles -> SUBSET Relevant(kind)]
      /\ ever' \in [Handles -> SUBSET Relevant(kind)]
      /\ HistoryInv' /\ \A g \in Handles : ever[g] \subseteq ever'[g]
      /\ Kept' \in SUBSET Kept /\ Had \in SUBSET Had'
  BY <1>1, <1>4, <1>5, DbChange
<1> QED BY <1>1, <1>6, SameResult

\* ConnectController may give the first handle the binding of DHCP.
LEMMA ConnectStep ==
  ASSUME DevicesSizes, BusInv, ConnectController
  PROVE  BusInv'
<1>1. /\ UNCHANGED <<kind, handles, found, err, children, begun, refused>>
      /\ stage = "handle" /\ handles # <<>> /\ kind = "snp" /\ stage' = "first"
  BY DEF ConnectController, result
<1>2. BusTypes /\ HistoryInv
  BY DEF BusInv
<1> DEFINE h == Head(handles)
           ps == db[h] \cup {"DHCP4Binding"}
<1>3. h \in Handles /\ ps \in SUBSET Relevant(kind)
  <2>1. h \in Handles
    BY <1>1, <1>2, HeadTailProperties DEF BusTypes
  <2> HIDE DEF h
  <2>2. "DHCP4Binding" \in Relevant(kind)
    BY <1>1, <1>2, KindFacts DEF BusTypes
  <2> QED BY <1>2, <2>1, <2>2 DEF BusTypes
<1>4. SetProtocols(h, ps) \/ UNCHANGED <<db, always, ever>>
  BY DEF ConnectController, history
<1> HIDE DEF h, ps
<1>5. /\ db' \in [Handles -> SUBSET Relevant(kind)]
      /\ always' \in [Handles -> SUBSET Relevant(kind)]
      /\ ever' \in [Handles -> SUBSET Relevant(kind)]
      /\ HistoryInv' /\ \A g \in Handles : ever[g] \subseteq ever'[g]
      /\ Kept' \in SUBSET Kept /\ Had \in SUBSET Had'
  <2>1. CASE SetProtocols(h, ps)
    BY <1>1, <1>2, <1>3, <2>1, DbChange
  <2>2. CASE UNCHANGED <<db, always, ever>>
    BY <1>1, <1>2, <2>2 DEF BusTypes, HistoryInv, Kept, Had
  <2> QED BY <1>4, <2>1, <2>2
<1> QED BY <1>1, <1>5, SameResult

\* The first of the handles, and the ones behind it.
LEMMA Turn ==
  ASSUME BusInv, stage \in Loop, handles # <<>>
  PROVE  /\ Head(handles) \in Handles /\ Head(handles) \in Rest
         /\ Tail(handles) \in Seq(Handles)
         /\ \A i, j \in 1..Len(Tail(handles)) : Tail(handles)[i] = Tail(handles)[j] => i = j
         /\ {Tail(handles)[i] : i \in 1..Len(Tail(handles))} = Rest \ {Head(handles)}
         /\ Search[kind] \in ever[Head(handles)]
<1>1. /\ handles \in Seq(Handles)
      /\ \A i, j \in 1..Len(handles) : handles[i] = handles[j] => i = j
      /\ Rest = {handles[i] : i \in 1..Len(handles)}
      /\ \A h \in Rest : Search[kind] \in ever[h]
  BY DEF BusInv, BusTypes, LoopInv, Rest
<1>2. /\ Head(handles) \in Handles /\ Tail(handles) \in Seq(Handles)
      /\ \A i, j \in 1..Len(Tail(handles)) : Tail(handles)[i] = Tail(handles)[j] => i = j
      /\ {Tail(handles)[i] : i \in 1..Len(Tail(handles))}
           = {handles[i] : i \in 1..Len(handles)} \ {Head(handles)}
      /\ Head(handles) \in {handles[i] : i \in 1..Len(handles)}
  BY <1>1, RestTail
<1> QED BY <1>1, <1>2

\* The loop goes on to the next handle: types, and what does not depend on the result.
LEMMA TurnStep ==
  ASSUME BusInv, stage \in Loop, handles # <<>>, handles' = Tail(handles), stage' = "handle",
         UNCHANGED <<kind, db, begun, children, always, ever>>, found' \in Seq([Parts -> Nat])
  PROVE  /\ BusTypes' /\ HistoryInv' /\ LoopInv' /\ Parts' = Parts
         /\ Rest' = Rest \ {Head(handles)}
         /\ Kept' = Kept /\ Had' = Had
<1>1. Parts' = Parts
  BY DEF Parts
<1>2. Rest' = Rest \ {Head(handles)}
  BY Turn DEF Rest, Loop
<1>3. BusTypes'
  BY <1>1, Turn DEF BusInv, BusTypes, Loop
<1>4. HistoryInv'
  BY DEF BusInv, HistoryInv
<1>5. LoopInv'
  BY <1>2, Turn DEF BusInv, LoopInv, Loop
<1> QED BY <1>1, <1>2, <1>3, <1>4, <1>5 DEF Kept, Had

\* A handle that did not keep the protocols is left out, and so is one without a child.
LEMMA SkipStep ==
  ASSUME DevicesSizes, BusInv, stage \in Loop, handles # <<>>, handles' = Tail(handles),
         stage' = "handle", UNCHANGED <<kind, db, found, begun, children, always, ever>>,
         \/ Head(handles) \notin Kept /\ refused' = refused
         \/ kind = "dhcpv4" /\ refused' = refused \cup {Head(handles)}
  PROVE  BusInv'
<1> DEFINE h == Head(handles)
<1>1. found \in Seq([Parts -> Nat]) /\ Accounted(Kept, Had, Rest)
  BY DEF BusInv, BusTypes, AccountInv
<1>2. /\ BusTypes' /\ HistoryInv' /\ LoopInv' /\ Parts' = Parts
      /\ Rest' = Rest \ {h} /\ Kept' = Kept /\ Had' = Had
  BY <1>1, TurnStep
<1>3. ItemsInv'
  BY <1>2 DEF BusInv, ItemsInv
<1>4. Owners' = Owners
  BY DEF Owners
<1> HIDE DEF h
<1>5. CASE h \notin Kept /\ refused' = refused
  <2>1. Accounted(Kept, Had, Rest \ {h})
    BY <1>1, <1>5, KeptHad, AccountedSkip
  <2>2. Accounted(Kept, Had, Rest)'
    BY <1>2, <1>4, <1>5, <2>1 DEF Accounted
  <2> QED BY <1>2, <1>3, <2>2 DEF BusInv, AccountInv
<1>6. CASE kind = "dhcpv4" /\ refused' = refused \cup {h}
  <2> DEFINE a == (Kept \ refused) \ Rest
             a2 == (Kept \ refused') \ (Rest \ {h})
             b == Had \ Rest
             b2 == Had \ (Rest \ {h})
  <2>1. /\ a \in SUBSET Handles /\ a2 \in SUBSET a /\ a2 \in SUBSET Handles
        /\ b \in SUBSET Handles /\ b2 \in SUBSET Handles /\ b \in SUBSET b2
    BY <1>6, KeptHad
  <2>2. Cardinality(a) <= Len(found) /\ Len(found) <= Cardinality(b) /\ Len(found) \in Nat
    BY <1>1, <1>6 DEF Accounted
  <2> HIDE DEF a, a2, b, b2
  <2>3. Cardinality(a2) <= Cardinality(a) /\ Cardinality(b) <= Cardinality(b2)
    BY <2>1, HandleSubset
  <2>4. /\ Cardinality(a) \in Nat /\ Cardinality(a2) \in Nat
        /\ Cardinality(b) \in Nat /\ Cardinality(b2) \in Nat
    BY <2>1, HandleSets
  <2>5. Cardinality(a2) <= Len(found) /\ Len(found) <= Cardinality(b2)
    BY <2>2, <2>3, <2>4
  <2>6. Accounted(Kept, Had, Rest)'
    BY <1>2, <1>6, <2>5 DEF Accounted, a2, b2
  <2> QED BY <1>2, <1>3, <2>6 DEF BusInv, AccountInv
<1> QED BY <1>5, <1>6 DEF h

\* The interfaces of a handle that had all the protocols are appended.
LEMMA AppendStep ==
  ASSUME DevicesSizes, BusInv, kind # "dhcpv4", stage \in Loop, handles # <<>>,
         handles' = Tail(handles), stage' = "handle",
         UNCHANGED <<kind, db, begun, children, always, ever, refused>>,
         Head(handles) \in Had, found' = Append(found, [q \in Parts |-> Head(handles)])
  PROVE  BusInv'
<1> DEFINE h == Head(handles)
<1>1. /\ BusTypes /\ Accounted(Kept, Had, Rest)
      /\ \A i \in 1..Len(found) : found[i] = [q \in Parts |-> Owner(found[i])]
      /\ \A i, j \in 1..Len(found) : Owner(found[i]) = Owner(found[j]) => i = j
  BY DEF BusInv, AccountInv, ItemsInv
<1>2. h \in Rest /\ h \in Handles /\ h \in Nat
  BY Turn DEF Handles
<1>3. Kept \subseteq Owners \cup Rest /\ Owners \subseteq Had \ Rest
  BY <1>1 DEF Accounted
<1>4. h \notin Owners
  BY <1>2, <1>3
<1> HIDE DEF h
<1>5. /\ found' \in Seq([Parts -> Nat])
      /\ \A i \in 1..Len(found') : found'[i] = [q \in Parts |-> Owner(found'[i])]
      /\ \A i, j \in 1..Len(found') : Owner(found'[i]) = Owner(found'[j]) => i = j
      /\ {Owner(found'[i]) : i \in 1..Len(found')} = Owners \cup {h}
  BY <1>1, <1>2, <1>4, ItemsMore DEF h
<1>6. /\ BusTypes' /\ HistoryInv' /\ LoopInv' /\ Parts' = Parts
      /\ Rest' = Rest \ {h} /\ Kept' = Kept /\ Had' = Had
  BY <1>5, TurnStep DEF h
<1>7. ItemsInv'
  BY <1>5, <1>6 DEF ItemsInv
<1>8. Owners' = Owners \cup {h}
  BY <1>5 DEF Owners
<1>9. h \in Had
  BY DEF h
<1>10. AccountInv'
  BY <1>2, <1>3, <1>6, <1>8, <1>9 DEF AccountInv, Accounted
<1> QED BY <1>6, <1>7, <1>10 DEF BusInv

\* A result of no elements.
LEMMA NothingFound ==
  ASSUME DevicesSizes, found = <<>>, NEW kept \in SUBSET Handles,
         NEW had \in SUBSET Handles, NEW rest, kept \subseteq rest
  PROVE  Accounted(kept, had, rest)
<1>1. Owners = {} /\ Len(found) = 0
  BY DEF Owners
<1>2. (kept \ refused) \ rest = {}
  OBVIOUS
<1>3. Cardinality((kept \ refused) \ rest) = 0
  BY <1>2, FS_EmptySet
<1>4. Cardinality(had \ rest) \in Nat
  <2>1. had \ rest \in SUBSET Handles
    OBVIOUS
  <2> QED BY <2>1, HandleSets
<1>5. kind # "dhcpv4" => Accounted(kept, had, rest)
  BY <1>1 DEF Accounted
<1>6. kind = "dhcpv4" => Accounted(kept, had, rest)
  BY <1>1, <1>3, <1>4 DEF Accounted
<1> QED BY <1>5, <1>6

\* Every handle is in the slice that LocateHandleBuffer returns, once.
LEMMA EachOnce ==
  ASSUME NEW S, IsFiniteSet(S), NEW s \in SetToSeqs(S)
  PROVE  /\ s \in Seq(S) /\ \A i, j \in 1..Len(s) : s[i] = s[j] => i = j
         /\ {s[i] : i \in 1..Len(s)} = S
<1> DEFINE c == Cardinality(S)
<1>1. c \in Nat
  BY FS_CardinalityType
<1>2. s \in [1..c -> S] /\ \A i, j \in 1..c : i # j => s[i] # s[j]
  BY DEF SetToSeqs
<1> HIDE DEF c
<1>3. s \in Seq(S) /\ Len(s) = c
  BY <1>1, <1>2, IsASeq, LenProperties
<1>4. s \in Injection(1..c, S)
  BY <1>2 DEF Injection, IsInjective
<1>5. IsFiniteSet(1..c) /\ Cardinality(1..c) = c
  BY <1>1, FS_Interval
<1>6. s \in Surjection(1..c, S)
  BY <1>4, <1>5, FS_Injection DEF c
<1>7. \A x \in S : \E i \in 1..c : s[i] = x
  BY <1>6 DEF Surjection
<1> QED BY <1>2, <1>3, <1>7

\* Before the first call.
LEMMA BusInitial ==
  ASSUME DevicesSizes, DevicesInit
  PROVE  BusInv
<1>1. Cardinality(children) = 0 /\ children = NumHandles + 1..NumHandles + 0
  BY FS_EmptySet DEF DevicesInit, DevicesSizes
<1>2. BusTypes
  BY <1>1 DEF DevicesInit, BusTypes
<1>3. HistoryInv /\ LoopInv /\ ItemsInv
  BY DEF DevicesInit, HistoryInv, LoopInv, ItemsInv, Loop
<1>4. AccountInv
  BY DEF DevicesInit, AccountInv, Loop, Returned
<1> QED BY <1>2, <1>3, <1>4 DEF BusInv

\* A call begins with nothing found.
LEMMA CallBusStep ==
  ASSUME DevicesSizes, BusInv, Begin
  PROVE  BusInv'
<1>1. /\ UNCHANGED <<kind, db, handles, children>> /\ stage' = "locate" /\ found' = <<>>
      /\ refused' = {} /\ always' = db /\ ever' = db /\ begun' = begun + 1
  BY DEF Begin
<1>2. Parts' = Parts
  BY <1>1 DEF Parts
<1>3. BusTypes'
  BY <1>1, <1>2 DEF BusInv, BusTypes, Loop
<1>4. HistoryInv' /\ LoopInv' /\ ItemsInv'
  BY <1>1 DEF HistoryInv, LoopInv, ItemsInv, Loop
<1>5. AccountInv'
  BY <1>1 DEF AccountInv, Loop, Returned
<1> QED BY <1>3, <1>4, <1>5 DEF BusInv

\* A call that fails promises nothing.
LEMMA ErrorStep ==
  ASSUME BusInv, stage' = "idle", err' = TRUE, found' = found \/ found' = <<>>,
         UNCHANGED <<kind, db, handles, children, begun, always, ever>>
  PROVE  BusInv'
<1>1. Parts' = Parts
  BY DEF Parts
<1>2. BusTypes'
  <2>1. found' \in Seq([Parts -> Nat])
    BY EmptySeq DEF BusInv, BusTypes
  <2> QED BY <1>1, <2>1 DEF BusInv, BusTypes, Loop
<1>3. HistoryInv' /\ LoopInv'
  BY DEF BusInv, HistoryInv, LoopInv, Loop
<1>4. ItemsInv'
  BY <1>1 DEF BusInv, ItemsInv
<1>5. AccountInv'
  BY DEF AccountInv, Loop, Returned
<1> QED BY <1>2, <1>3, <1>4, <1>5 DEF BusInv

\* Every handle that keeps the protocols is among those that LocateHandleBuffer returns.
LEMMA LocateStep ==
  ASSUME DevicesSizes, BusInv, LocateHandleBuffer
  PROVE  BusInv'
<1> DEFINE matching == {h \in Handles : Search[kind] \in db[h]}
<1>1. /\ UNCHANGED <<kind, db, found, children, begun, always, ever, refused>>
      /\ stage = "locate"
  BY DEF LocateHandleBuffer, history
<1>2. \/ matching # {} /\ handles' \in SetToSeqs(matching) /\ stage' = "handle"
      \/ matching = {} /\ stage' = "idle" /\ handles' = handles
      \/ stage' = "idle" /\ err' = TRUE /\ handles' = handles
  BY DEF LocateHandleBuffer, Return
<1>3. found = <<>> /\ Parts' = Parts /\ Kept' = Kept /\ Had' = Had
  BY <1>1 DEF BusInv, LoopInv, Parts, Kept, Had
<1>4. Kept \subseteq matching
  <2>1. Search[kind] \in Relevant(kind)
    BY KindFacts DEF BusInv, BusTypes
  <2> QED BY <2>1 DEF Kept, BusInv, HistoryInv
<1>5. matching \in SUBSET Handles /\ IsFiniteSet(matching)
  <2>1. matching \in SUBSET Handles
    OBVIOUS
  <2> HIDE DEF matching
  <2> QED BY <2>1, HandleSets
<1>6. \A h \in matching : Search[kind] \in ever[h]
  BY DEF BusInv, HistoryInv
<1> HIDE DEF matching
<1>7. HistoryInv' /\ ItemsInv'
  BY <1>1, <1>2, <1>3 DEF BusInv, HistoryInv, ItemsInv
<1>8. CASE handles' \in SetToSeqs(matching) /\ stage' = "handle"
  <2>1. /\ handles' \in Seq(matching)
        /\ \A i, j \in 1..Len(handles') : handles'[i] = handles'[j] => i = j
        /\ {handles'[i] : i \in 1..Len(handles')} = matching
    BY <1>5, <1>8, EachOnce
  <2>2. handles' \in Seq(Handles)
    BY <1>5, <2>1, SeqMonotonic
  <2>3. Rest' = matching
    BY <1>8, <2>1 DEF Rest, Loop
  <2>4. BusTypes'
    BY <1>1, <1>3, <1>8, <2>2 DEF BusInv, BusTypes, Loop
  <2>5. LoopInv'
    BY <1>1, <1>6, <1>8, <2>1, <2>3 DEF LoopInv, Loop
  <2>6. Accounted(Kept, Had, matching)
    BY <1>3, <1>4, KeptHad, NothingFound
  <2>7. AccountInv'
    BY <1>1, <1>3, <2>3, <2>6 DEF AccountInv, Accounted, Owners
  <2> QED BY <1>7, <2>4, <2>5, <2>7 DEF BusInv
<1>9. CASE matching = {} /\ stage' = "idle" /\ handles' = handles
  <2>1. Rest' = {}
    BY <1>9 DEF Rest, Loop
  <2>2. BusTypes'
    BY <1>1, <1>3, <1>9 DEF BusInv, BusTypes, Loop
  <2>3. LoopInv'
    BY <1>9 DEF LoopInv, Loop
  <2>4. Accounted(Kept, Had, {})
    BY <1>3, <1>4, <1>9, KeptHad, NothingFound
  <2>5. AccountInv'
    BY <1>1, <1>3, <2>1, <2>4 DEF AccountInv, Accounted, Owners
  <2> QED BY <1>7, <2>2, <2>3, <2>5 DEF BusInv
<1>10. CASE stage' = "idle" /\ err' = TRUE /\ handles' = handles
  BY <1>1, <1>10, ErrorStep
<1> QED BY <1>2, <1>8, <1>9, <1>10

\* The loop ends when no handle is left.
LEMMA DoneStep ==
  ASSUME DevicesSizes, BusInv, Done
  PROVE  BusInv'
<1>1. /\ UNCHANGED <<kind, db, handles, found, children, begun, always, ever, refused>>
      /\ stage = "handle" /\ handles = <<>> /\ stage' = "idle"
  BY DEF Done, history, Return
<1>2. /\ Rest = {} /\ Rest' = {} /\ Parts' = Parts /\ Owners' = Owners
      /\ Kept' = Kept /\ Had' = Had
  BY <1>1 DEF Rest, Loop, Parts, Owners, Kept, Had
<1>3. BusTypes' /\ HistoryInv' /\ LoopInv'
  BY <1>1, <1>2 DEF BusInv, BusTypes, HistoryInv, LoopInv, Loop
<1>4. ItemsInv'
  BY <1>1, <1>2 DEF BusInv, ItemsInv
<1>5. Accounted(Kept, Had, Rest)
  BY <1>1 DEF BusInv, AccountInv, Loop
<1>6. AccountInv'
  BY <1>1, <1>2, <1>5 DEF AccountInv, Accounted
<1> QED BY <1>3, <1>4, <1>6 DEF BusInv

\* The first handle lost a protocol: it is left out, or the call fails.
LEMMA MissingStep ==
  ASSUME DevicesSizes, BusInv, stage \in Loop, handles # <<>>, Missing,
         Head(handles) \notin Kept,
         UNCHANGED <<kind, db, children, begun, always, ever, refused>>
  PROVE  BusInv'
<1>1. CASE kind = "serialPorts"
  <2>1. stage' = "idle" /\ err' = TRUE /\ found' = <<>> /\ handles' = handles
    BY <1>1 DEF Missing, Return
  <2> QED BY <2>1, ErrorStep
<1>2. CASE kind # "serialPorts"
  <2>1. stage' = "handle" /\ handles' = Tail(handles) /\ found' = found
    BY <1>2 DEF Missing, NextHandle, result
  <2> QED BY <2>1, SkipStep
<1> QED BY <1>1, <1>2

\* The first HandleProtocol: what it finds in the database is what the handle has now.
LEMMA HandleProtocolStep ==
  ASSUME DevicesSizes, BusInv, HandleProtocol
  PROVE  BusInv'
<1> DEFINE h == Head(handles)
           w == Wanted[kind][1]
<1>1. stage \in Loop /\ handles # <<>>
  BY DEF HandleProtocol, BusInv, LoopInv, Loop
<1>2. h \in Handles /\ Search[kind] \in ever[h]
  BY <1>1, Turn
<1>3. UNCHANGED <<kind, db, children, begun, always, ever, refused>>
  BY DEF HandleProtocol, history
<1>4. kind \in Kinds
  BY DEF BusInv, BusTypes
<1>5. CASE w \notin db[h]
  <2>1. Missing
    BY <1>5 DEF HandleProtocol
  <2>2. w \in Relevant(kind)
    BY <1>4, KindFacts
  <2>3. h \notin Kept
    BY <1>2, <1>5, <2>2 DEF BusInv, HistoryInv, Kept
  <2> QED BY <1>1, <1>3, <2>1, <2>3, MissingStep
<1>6. CASE w \in db[h] /\ kind \in {"dhcpv4", "disks"}
  <2>1. /\ UNCHANGED <<handles, found, err>>
        /\ \/ kind = "dhcpv4" /\ stage' = "child"
           \/ kind = "disks" /\ stage' = "second"
    BY <1>4, <1>6, KindFacts DEF HandleProtocol, result
  <2>2. /\ db' \in [Handles -> SUBSET Relevant(kind)]
        /\ always' \in [Handles -> SUBSET Relevant(kind)]
        /\ ever' \in [Handles -> SUBSET Relevant(kind)]
        /\ HistoryInv' /\ \A g \in Handles : ever[g] \subseteq ever'[g]
        /\ Kept' \in SUBSET Kept /\ Had \in SUBSET Had'
    BY <1>3 DEF BusInv, BusTypes, HistoryInv, Kept, Had
  <2> QED BY <1>1, <1>3, <2>1, <2>2, SameResult
<1>7. CASE w \in db[h] /\ kind \notin {"dhcpv4", "disks"}
  <2>1. Len(Wanted[kind]) # 2 /\ Parts = {w}
    BY <1>4, <1>7, KindFacts DEF Kinds
  <2>2. /\ handles' = Tail(handles) /\ stage' = "handle"
        /\ found' = Append(found, [q \in {w} |-> h])
    BY <1>7, <2>1 DEF HandleProtocol, NextHandle, Append1
  <2>3. h \in Had
    <3>1. Relevant(kind) = {Search[kind], w}
      BY <1>4, <1>7, KindFacts
    <3>2. w \in ever[h]
      BY <1>2, <1>7 DEF BusInv, HistoryInv
    <3> QED BY <1>2, <3>1, <3>2 DEF Had
  <2> QED BY <1>1, <1>3, <1>7, <2>1, <2>2, <2>3, AppendStep
<1> QED BY <1>5, <1>6, <1>7

\* The second HandleProtocol, of disks, when the first one may be long ago.
LEMMA HandleProtocol2Step ==
  ASSUME DevicesSizes, BusInv, HandleProtocol2
  PROVE  BusInv'
<1> DEFINE h == Head(handles)
           w == Wanted[kind][2]
<1>1. stage \in Loop /\ handles # <<>> /\ kind = "disks"
  BY DEF HandleProtocol2, BusInv, LoopInv, Loop
<1>2. h \in Handles /\ Search[kind] \in ever[h]
  BY <1>1, Turn
<1>3. UNCHANGED <<kind, db, children, begun, always, ever, refused>>
  BY DEF HandleProtocol2, history
<1>4. /\ w \in Relevant(kind) /\ Relevant(kind) = {Search[kind], w}
      /\ Range(Wanted[kind]) = Parts
  BY <1>1, KindFacts DEF BusInv, BusTypes
<1>5. CASE w \notin db[h]
  <2>1. Missing
    BY <1>5 DEF HandleProtocol2
  <2>2. h \notin Kept
    BY <1>2, <1>4, <1>5 DEF BusInv, HistoryInv, Kept
  <2> QED BY <1>1, <1>3, <2>1, <2>2, MissingStep
<1>6. CASE w \in db[h]
  <2>1. /\ handles' = Tail(handles) /\ stage' = "handle"
        /\ found' = Append(found, [q \in Parts |-> h])
    BY <1>4, <1>6 DEF HandleProtocol2, NextHandle, Append1
  <2>2. w \in ever[h]
    BY <1>2, <1>6 DEF BusInv, HistoryInv
  <2>3. h \in Had
    BY <1>2, <1>4, <2>2 DEF Had
  <2> QED BY <1>1, <1>3, <2>1, <2>3, AppendStep
<1> QED BY <1>5, <1>6

\* A child gets a number that no other has, or the handle is left out.
LEMMA CreateChildStep ==
  ASSUME DevicesSizes, BusInv, CreateChild
  PROVE  BusInv'
<1> DEFINE c == Cardinality(children)
<1>1. /\ UNCHANGED <<kind, db, found, err, begun, always, ever>>
      /\ stage = "child" /\ stage \in Loop /\ handles # <<>> /\ kind = "dhcpv4"
  BY DEF CreateChild, result, history, BusInv, LoopInv, Loop
<1>2. CASE /\ children' = children \cup {NewChild} /\ stage' = "childProtocol"
           /\ UNCHANGED <<handles, refused>>
  <2>1. NewChild = NumHandles + 1 + c
    BY DEF NewChild
  <2>2. c \in Nat /\ children = NumHandles + 1..NumHandles + c /\ NumHandles \in Nat
    BY DEF BusInv, BusTypes, DevicesSizes
  <2> HIDE DEF c
  <2>3. children' = NumHandles + 1..NumHandles + (c + 1)
    BY <1>2, <2>1, <2>2
  <2>4. Cardinality(NumHandles + 1..NumHandles + (c + 1)) = c + 1
    BY <2>2, FS_Interval
  <2>5. Cardinality(children') = c + 1 /\ Cardinality(children') \in Nat
    BY <2>2, <2>3, <2>4
  <2>6. /\ Parts' = Parts /\ Owners' = Owners /\ Rest' = Rest
        /\ Kept' = Kept /\ Had' = Had
    BY <1>1, <1>2 DEF Parts, Owners, Rest, Loop, Kept, Had
  <2>7. BusTypes'
    BY <1>1, <1>2, <2>3, <2>5, <2>6 DEF BusInv, BusTypes, Loop
  <2>8. HistoryInv' /\ LoopInv'
    BY <1>1, <1>2, <2>2, <2>5, <2>6 DEF BusInv, HistoryInv, LoopInv, Loop
  <2>9. ItemsInv'
    <3>1. \A i \in 1..Len(found) : Owner(found[i]) \in children
      BY <1>1 DEF BusInv, ItemsInv
    <3>2. \A x \in children : x \in children' /\ x # NumHandles + Cardinality(children')
      BY <2>2, <2>3, <2>5
    <3> QED BY <1>1, <2>6, <3>1, <3>2 DEF BusInv, ItemsInv
  <2>10. AccountInv'
    BY <1>1, <1>2, <2>6 DEF BusInv, AccountInv, Accounted
  <2> QED BY <2>7, <2>8, <2>9, <2>10 DEF BusInv
<1>3. CASE NextHandle /\ refused' = refused \cup {Head(handles)} /\ UNCHANGED children
  BY <1>1, <1>3, SkipStep DEF NextHandle
<1> QED BY <1>2, <1>3 DEF CreateChild

\* One handle more has had its turn: at most one more kept the protocols.
LEMMA OneMore ==
  ASSUME DevicesSizes, NEW kept \in SUBSET Handles, NEW had \in SUBSET Handles,
         NEW rest, NEW h, h \in had, h \in rest
  PROVE  /\ Cardinality((kept \ refused) \ (rest \ {h}))
              <= Cardinality((kept \ refused) \ rest) + 1
         /\ Cardinality(had \ (rest \ {h})) = Cardinality(had \ rest) + 1
<1> DEFINE a == (kept \ refused) \ rest
           a2 == (kept \ refused) \ (rest \ {h})
           b == had \ rest
<1>1. /\ h \in Handles /\ a \in SUBSET Handles /\ b \in SUBSET Handles
      /\ a \cup {h} \in SUBSET Handles /\ a2 \in SUBSET (a \cup {h}) /\ h \notin b
  OBVIOUS
<1>2. had \ (rest \ {h}) = b \cup {h}
  OBVIOUS
<1> HIDE DEF a, a2, b
<1>3. IsFiniteSet(a) /\ IsFiniteSet(b)
  BY <1>1, HandleSets
<1>4. Cardinality(a \cup {h}) = IF h \in a THEN Cardinality(a) ELSE Cardinality(a) + 1
  BY <1>3, FS_AddElement
<1>5. Cardinality(b \cup {h}) = IF h \in b THEN Cardinality(b) ELSE Cardinality(b) + 1
  BY <1>3, FS_AddElement
<1>6. Cardinality(b \cup {h}) = Cardinality(b) + 1
  BY <1>1, <1>5
<1>7. a2 \in SUBSET Handles
  BY <1>1
<1>8. Cardinality(a2) <= Cardinality(a \cup {h})
  BY <1>1, HandleSubset
<1>9. Cardinality(a) \in Nat /\ Cardinality(a2) \in Nat
  BY <1>1, <1>7, HandleSets
<1>10. Cardinality(a2) <= Cardinality(a) + 1
  BY <1>4, <1>8, <1>9
<1> QED BY <1>2, <1>6, <1>10 DEF a, a2, b

\* The interface of the child is appended, or the handle is left out.
LEMMA ChildProtocolStep ==
  ASSUME DevicesSizes, BusInv, ChildProtocol
  PROVE  BusInv'
<1> DEFINE h == Head(handles)
           c == Cardinality(children)
           g == NumHandles + c
<1>1. /\ UNCHANGED <<kind, db, err, children, begun, always, ever>>
      /\ stage = "childProtocol" /\ stage \in Loop /\ handles # <<>> /\ kind = "dhcpv4"
      /\ handles' = Tail(handles) /\ stage' = "handle"
  BY DEF ChildProtocol, NextHandle, history, BusInv, LoopInv, Loop
<1>2. h \in Handles /\ h \in Rest /\ Search[kind] \in ever[h]
  BY <1>1, Turn
<1>3. /\ c \in Nat /\ c > 0 /\ children = NumHandles + 1..NumHandles + c
      /\ NumHandles \in Nat
  BY <1>1 DEF BusInv, BusTypes, LoopInv, DevicesSizes
<1>4. NewChild = NumHandles + 1 + c
  BY DEF NewChild
<1>5. kind \in Kinds /\ Parts = {"DHCP4"} /\ Relevant(kind) = {Search[kind]}
  BY <1>1, KindFacts DEF BusInv, BusTypes
<1>6. \A i \in 1..Len(found) : Owner(found[i]) \in children /\ Owner(found[i]) # g
  BY <1>1 DEF BusInv, ItemsInv
<1> HIDE DEF h, c
<1>7. NewChild - 1 = g /\ g \in Nat /\ g \in children
  BY <1>3, <1>4
<1>8. g \notin Owners
  BY <1>6, Zenon DEF Owners
<1>9. CASE found' = Append(found, [q \in {"DHCP4"} |-> NewChild - 1]) /\ refused' = refused
  <2>1. found' = Append(found, [q \in Parts |-> g])
    BY <1>5, <1>7, <1>9, Zenon
  <2>2. /\ BusTypes /\ Accounted(Kept, Had, Rest) /\ found \in Seq([Parts -> Nat])
        /\ \A i \in 1..Len(found) : found[i] = [q \in Parts |-> Owner(found[i])]
        /\ \A i, j \in 1..Len(found) : Owner(found[i]) = Owner(found[j]) => i = j
    BY <1>1 DEF BusInv, BusTypes, AccountInv, ItemsInv
  <2> HIDE DEF g
  <2>3. /\ found' \in Seq([Parts -> Nat]) /\ Len(found') = Len(found) + 1
        /\ \A i \in 1..Len(found) : found'[i] = found[i]
        /\ Owner(found'[Len(found) + 1]) = g
        /\ \A i \in 1..Len(found') : found'[i] = [q \in Parts |-> Owner(found'[i])]
        /\ \A i, j \in 1..Len(found') : Owner(found'[i]) = Owner(found'[j]) => i = j
        /\ {Owner(found'[i]) : i \in 1..Len(found')} = Owners \cup {g}
    BY <1>1, <1>7, <1>8, <2>1, <2>2, ItemsMore
  <2>4. /\ BusTypes' /\ HistoryInv' /\ LoopInv' /\ Parts' = Parts
        /\ Rest' = Rest \ {h} /\ Kept' = Kept /\ Had' = Had
    BY <1>1, <2>3, TurnStep DEF h
  <2>5. \A i \in 1..Len(found') : Owner(found'[i]) \in children
    <3>1. Owners \subseteq children
      BY <1>6, Zenon DEF Owners
    <3>2. \A i \in 1..Len(found') : Owner(found'[i]) \in Owners \cup {g}
      BY <2>3, Zenon
    <3> QED BY <1>7, <3>1, <3>2
  <2>6. ItemsInv'
    BY <1>1, <2>3, <2>4, <2>5 DEF ItemsInv
  <2>7. h \in Had
    BY <1>2, <1>5 DEF Had
  <2>8. /\ Cardinality((Kept \ refused) \ Rest) <= Len(found) /\ Len(found) \in Nat
        /\ Len(found) <= Cardinality(Had \ Rest)
    BY <1>1, <2>2 DEF Accounted
  <2>9. /\ Cardinality((Kept \ refused) \ (Rest \ {h}))
             <= Cardinality((Kept \ refused) \ Rest) + 1
        /\ Cardinality(Had \ (Rest \ {h})) = Cardinality(Had \ Rest) + 1
    BY <1>2, <2>7, KeptHad, OneMore
  <2>10. /\ Cardinality((Kept \ refused) \ Rest) \in Nat
         /\ Cardinality(Had \ Rest) \in Nat
         /\ Cardinality((Kept \ refused) \ (Rest \ {h})) \in Nat
    <3>1. /\ (Kept \ refused) \ Rest \in SUBSET Handles
          /\ Had \ Rest \in SUBSET Handles
          /\ (Kept \ refused) \ (Rest \ {h}) \in SUBSET Handles
      BY KeptHad
    <3> QED BY <3>1, HandleSets
  <2>11. /\ Cardinality((Kept \ refused) \ (Rest \ {h})) <= Len(found')
         /\ Len(found') <= Cardinality(Had \ (Rest \ {h}))
    BY <2>3, <2>8, <2>9, <2>10
  <2>12. AccountInv'
    BY <1>1, <1>9, <2>4, <2>11 DEF AccountInv, Accounted
  <2> QED BY <2>4, <2>6, <2>12 DEF BusInv
<1>10. CASE refused' = refused \cup {Head(handles)} /\ found' = found
  BY <1>1, <1>10, SkipStep
<1> QED BY <1>9, <1>10 DEF ChildProtocol, Append1

\* Every step keeps the invariant.
LEMMA BusStep ==
  ASSUME DevicesSizes, BusInv, [DevicesNext]_devicesVars
  PROVE  BusInv'
<1>1. CASE Enumerate
  BY <1>1, LocateStep, DoneStep, ConnectStep, HandleProtocolStep, HandleProtocol2Step,
     CreateChildStep, ChildProtocolStep DEF Enumerate
<1>2. CASE UNCHANGED devicesVars
  <2>1. UNCHANGED <<kind, db, stage, handles, found, err, children, begun, always, ever, refused>>
    BY <1>2 DEF devicesVars
  <2>2. /\ Parts' = Parts /\ Owners' = Owners /\ Rest' = Rest
        /\ Kept' = Kept /\ Had' = Had /\ (Returned' <=> Returned)
    BY <2>1 DEF Parts, Owners, Rest, Kept, Had, Returned
  <2>3. BusTypes' /\ HistoryInv' /\ LoopInv'
    BY <2>1, <2>2 DEF BusInv, BusTypes, HistoryInv, LoopInv
  <2>4. ItemsInv' /\ AccountInv'
    BY <2>1, <2>2 DEF BusInv, ItemsInv, AccountInv, Accounted
  <2> QED BY <2>3, <2>4 DEF BusInv
<1> QED BY <1>1, <1>2, DriverChangeStep, CallBusStep DEF DevicesNext

\* The invariant holds in every state.
LEMMA BusInvariance == DevicesSpec => []BusInv
<1>1. DevicesInit => BusInv
  BY DevicesAssumptions, BusInitial
<1>2. BusInv /\ [DevicesNext]_devicesVars => BusInv'
  BY DevicesAssumptions, BusStep
<1> QED BY <1>1, <1>2, PTL DEF DevicesSpec

\* An enumeration that returns without an error has found every device that was there all
\* through the call, none twice and none that never was, whatever drivers install and remove
\* between its calls of the firmware (EnumerateDisks, EnumerateFileSystems,
\* EnumerateSerialPorts, EnumerateDHCPv4, EnumerateSNP).
THEOREM EnumerationsAreComplete == DevicesSpec => []FoundIsComplete
<1>1. ASSUME BusInv
      PROVE  FoundIsComplete
  <2> SUFFICES ASSUME Returned
               PROVE  FoundIsComplete
    BY DEF FoundIsComplete
  <2>1. /\ found \in Seq([Parts -> Nat]) /\ kind \in Kinds
        /\ \A i \in 1..Len(found) : found[i] = [q \in Parts |-> Owner(found[i])]
        /\ \A i, j \in 1..Len(found) : Owner(found[i]) = Owner(found[j]) => i = j
        /\ Accounted(Kept, Had, Rest)
    BY <1>1 DEF BusInv, BusTypes, ItemsInv, AccountInv
  <2>2. DOMAIN found = 1..Len(found)
    BY <2>1, LenProperties
  <2>3. Parts # {} /\ (kind # "snp" => Parts = UsedAs[kind])
    BY <2>1, KindFacts
  <2>4. Rest = {}
    BY DEF Rest, Returned, Loop
  <2>5. \A i \in DOMAIN found : Cardinality(Range(found[i])) = 1
    <3> TAKE i \in DOMAIN found
    <3> DEFINE o == Owner(found[i])
    <3>1. found[i] = [q \in Parts |-> o]
      BY <2>1, <2>2, Zenon
    <3> HIDE DEF o
    <3>2. Range([q \in Parts |-> o]) = {o}
      BY <2>3, OwnerOf
    <3>3. Range(found[i]) = {o}
      BY <3>1, <3>2, Zenon
    <3>4. Cardinality({o}) = 1
      BY FS_Singleton
    <3> QED BY <3>3, <3>4
  <2>6. \A i, j \in DOMAIN found : Owner(found[i]) = Owner(found[j]) => i = j
    BY <2>1, <2>2
  <2>7. kind # "snp" => \A i \in DOMAIN found : DOMAIN found[i] = UsedAs[kind]
    <3> SUFFICES ASSUME kind # "snp", NEW i \in DOMAIN found
                 PROVE  DOMAIN found[i] = UsedAs[kind]
      OBVIOUS
    <3>1. DOMAIN found[i] = Parts
      BY <2>1, <2>2
    <3> QED BY <2>3, <3>1
  <2>8. Owners = {Owner(found[i]) : i \in DOMAIN found}
    BY <2>2, Zenon DEF Owners
  <2>9. CASE kind = "dhcpv4"
    <3>1. (Kept \ refused) \ Rest = Kept \ refused /\ Had \ Rest = Had
      BY <2>4
    <3>2. /\ Cardinality(Kept \ refused) <= Len(found)
          /\ Len(found) <= Cardinality(Had)
      BY <2>1, <2>9, <3>1 DEF Accounted
    <3> QED BY <2>5, <2>6, <2>7, <2>9, <3>2 DEF FoundIsComplete
  <2>10. CASE kind # "dhcpv4"
    <3>1. Kept \subseteq Owners /\ Owners \subseteq Had
      BY <2>1, <2>4, <2>10 DEF Accounted
    <3> QED BY <2>5, <2>6, <2>7, <2>8, <2>10, <3>1 DEF FoundIsComplete
  <2> QED BY <2>9, <2>10
<1> QED BY <1>1, BusInvariance, PTL
=============================================================================
