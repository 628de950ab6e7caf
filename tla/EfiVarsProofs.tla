--------------------------- MODULE EfiVarsProofs ---------------------------
(***************************************************************************)
(* Proofs about EfiVars, for any number of variables with names and data   *)
(* of any length, and any number of changes meanwhile.                     *)
(***************************************************************************)
EXTENDS EfiVars, WellFoundedInduction, TLAPS

Asking == {"get", "get2", "print"}
Lengths == DataSizes \cup {0}
Values == [len : Nat, found : BOOLEAN]

Types ==
  /\ pc \in {"next", "done", "panicked"} \cup Asking
  /\ store \in [Names -> Lengths] /\ stable \subseteq Names
  /\ current \in Names \cup {NoVar} /\ cap \in Nat /\ varKeySize \in Nat
  /\ dataSize \in Nat /\ data \in Nat /\ val \in Values
  /\ listed \in [Names -> Nat] /\ changes \in Nat

\* The buffer is as large as the size passed to the firmware, and that is not below the
\* name it holds, so that a buffer for a longer name has room for the current one too.
BufferInv ==
  /\ varKeySize <= cap
  /\ current # NoVar => NameSize[current] <= varKeySize

\* The names behind the current one are not printed yet, the stable ones before it are;
\* the current one is, unless its value is still being asked for.
ListedInv ==
  /\ pc \in Asking => current # NoVar /\ listed[current] = 0
  /\ \A x \in Names : listed[x] <= 1 /\ (x > current => listed[x] = 0)
  /\ \A x \in stable : /\ store[x] > 0
                       /\ x < current => listed[x] = 1
                       /\ x = current /\ pc \notin Asking => listed[x] = 1
  /\ pc = "done" => \A x \in stable : listed[x] = 1

\* What getkey holds of the data is of a length that the variable had since the firmware
\* named it.
LengthInv ==
  /\ pc \in Asking => store[current] \in lens
  /\ pc = "get2" => data \in lens
  /\ pc = "print" /\ val.found => val.len \in lens

IInv == Types /\ BufferInv /\ ListedInv /\ LengthInv

-----------------------------------------------------------------------------
\* A set of natural numbers that is not empty has a least one.
LEMMA Least ==
  ASSUME NEW S, S \subseteq Nat, S # {}
  PROVE  \E x \in S : \A y \in S : x <= y
<1>1. PICK x \in S : \A y \in S : ~(<<y, x>> \in OpToRel(<, Nat))
  <2> DEFINE R == OpToRel(<, Nat)
  <2>1. IsWellFoundedOn(R, Nat)
    BY NatLessThanWellFounded
  <2> HIDE DEF R
  <2>2. \E x \in S : \A y \in S : ~(<<y, x>> \in R)
    BY <2>1, WFMin
  <2> QED BY <2>2 DEF R
<1>2. \A y \in S : ~(y < x)
  BY <1>1 DEF OpToRel
<1> QED BY <1>2

\* GetNextVariableName: the variable it answers with is the first one behind the current.
LEMMA NextIsFirst ==
  ASSUME Types, Following(current) # {}
  PROVE  /\ Following1(current) \in Names /\ Following1(current) > current
         /\ store[Following1(current)] > 0
         /\ \A z \in Names : z > current /\ store[z] > 0 => Following1(current) <= z
<1> DEFINE S == Following(current)
<1>1. S \subseteq Nat /\ S # {}
  BY EfiVarsAssumptions DEF Following
<1>2. \E y \in S : \A z \in S : y <= z
  <2> HIDE DEF S
  <2> QED BY <1>1, Least
<1>3. Following1(current) \in S /\ \A z \in S : Following1(current) <= z
  BY <1>2 DEF Following1
<1> QED BY <1>3 DEF Following, Exists

\* The listing starts before the first name.
LEMMA Initial == Init => IInv
<1> SUFFICES ASSUME Init PROVE IInv
  OBVIOUS
<1>1. Types
  BY EfiVarsAssumptions DEF Init, Types, Lengths, Values, NoVar, Exists
<1>2. BufferInv
  BY DEF Init, BufferInv
<1>3. ListedInv
  BY EfiVarsAssumptions DEF Init, ListedInv, Asking, NoVar, Exists
<1>4. LengthInv
  BY DEF Init, LengthInv, Asking
<1> QED BY <1>1, <1>2, <1>3, <1>4 DEF IInv

\* A variable that is set is not a stable one unless it was, and a deleted one no longer;
\* its new length counts for the value that is being asked for.
LEMMA ChangeStep ==
  ASSUME IInv, Change
  PROVE  IInv'
<1> USE DEF enumeration, getting
<1>1. PICK x \in Names, n \in Lengths :
        /\ store' = [store EXCEPT ![x] = n]
        /\ stable' = IF n = 0 THEN stable \ {x} ELSE stable
        /\ lens' = IF x = current THEN lens \cup {n} ELSE lens
  BY DEF Change, Lengths
<1>2. Types'
  BY <1>1 DEF IInv, Types, Change
<1>3. BufferInv'
  BY DEF IInv, BufferInv, Change
<1>4. ListedInv'
  <2>1. \A y \in stable' : y \in stable /\ store'[y] > 0
    BY <1>1, EfiVarsAssumptions DEF IInv, Types, ListedInv, Lengths
  <2> QED BY <2>1 DEF IInv, Types, ListedInv, Change
<1>5. LengthInv'
  <2>1. lens \subseteq lens'
    BY <1>1
  <2>2. pc \in Asking => store'[current] \in lens'
    BY <1>1 DEF IInv, Types, ListedInv, LengthInv
  <2> QED BY <2>1, <2>2 DEF IInv, LengthInv, Change
<1> QED BY <1>2, <1>3, <1>4, <1>5 DEF IInv

\* The new buffer is as long as the next name, and longer than the current one.
LEMMA NextTooSmallStep ==
  ASSUME IInv, NextTooSmall
  PROVE  IInv'
<1> USE DEF firmware, getting
<1>1. Following1(current) \in Names
  BY NextIsFirst DEF IInv, NextTooSmall
<1>2. PICK k \in Nat : k = NameSize[Following1(current)]
  BY <1>1, EfiVarsAssumptions
<1>3. varKeySize < k /\ varKeySize' = k /\ cap' = k
  BY <1>2 DEF NextTooSmall
<1>4. Types'
  BY <1>3 DEF IInv, Types, NextTooSmall
<1>5. BufferInv'
  BY <1>3, EfiVarsAssumptions DEF IInv, Types, BufferInv, NextTooSmall, NoVar
<1>6. ListedInv'
  BY DEF IInv, ListedInv, NextTooSmall
<1>7. LengthInv'
  BY DEF IInv, LengthInv, NextTooSmall
<1> QED BY <1>4, <1>5, <1>6, <1>7 DEF IInv

\* No stable variable is skipped, since each of them is there when the firmware looks for
\* the next one.
LEMMA NextFoundStep ==
  ASSUME IInv, NextFound
  PROVE  IInv'
<1> USE DEF firmware
<1>1. PICK f \in Names : f = Following1(current)
  BY NextIsFirst DEF IInv, NextFound
<1>2. /\ f > current /\ store[f] > 0
      /\ \A z \in Names : z > current /\ store[z] > 0 => f <= z
  BY <1>1, NextIsFirst DEF IInv, NextFound
<1>3. /\ current' = f /\ varKeySize' = NameSize[f] /\ NameSize[f] <= varKeySize
      /\ lens' = {store[f]} /\ pc' = "get" /\ dataSize' = 0 /\ data' = 16
  BY <1>1 DEF NextFound
<1>4. Types'
  BY <1>3, EfiVarsAssumptions DEF IInv, Types, Asking, NextFound
<1>5. BufferInv'
  BY <1>3, EfiVarsAssumptions DEF IInv, Types, BufferInv, NextFound
<1>6. ListedInv'
  <2>1. pc \notin Asking /\ pc' \in Asking /\ pc' # "done"
    BY DEF NextFound, Asking
  <2>2. current' # NoVar /\ listed'[current'] = 0
    BY <1>2, <1>3, EfiVarsAssumptions DEF IInv, ListedInv, NextFound, NoVar
  <2>3. \A x \in Names : listed'[x] <= 1 /\ (x > f => listed'[x] = 0)
    BY <1>2, EfiVarsAssumptions DEF IInv, Types, ListedInv, NextFound, NoVar
  <2>4. \A x \in stable : store[x] > 0 /\ (x < f => listed[x] = 1)
    BY <1>2, <2>1, EfiVarsAssumptions DEF IInv, Types, ListedInv, NoVar
  <2> QED BY <1>3, <2>1, <2>2, <2>3, <2>4 DEF ListedInv, NextFound
<1>7. LengthInv'
  BY <1>3 DEF LengthInv, NextFound
<1> QED BY <1>4, <1>5, <1>6, <1>7 DEF IInv

\* With no variable behind the current one, all stable ones are printed.
LEMMA NextDoneStep ==
  ASSUME IInv, NextDone
  PROVE  IInv'
<1> USE DEF firmware, enumeration, getting
<1>1. Types'
  BY DEF IInv, Types, NextDone
<1>2. BufferInv'
  BY DEF IInv, BufferInv, NextDone
<1>3. ListedInv'
  <2>1. pc \notin Asking /\ pc' \notin Asking
    BY DEF NextDone, Asking
  <2>2. \A x \in stable : x \in Names /\ ~(x > current)
    BY DEF IInv, Types, ListedInv, NextDone, Following, Exists
  <2>3. \A x \in stable : listed[x] = 1
    BY <2>1, <2>2, EfiVarsAssumptions DEF IInv, Types, ListedInv, NoVar
  <2> QED BY <2>1, <2>3 DEF IInv, ListedInv, NextDone
<1>4. LengthInv'
  BY DEF LengthInv, NextDone, Asking
<1> QED BY <1>1, <1>2, <1>3, <1>4 DEF IInv

\* A panic leaves everything as it was.
LEMMA PanicStep ==
  ASSUME IInv, NextInvalid \/ NextError
  PROVE  IInv'
<1> USE DEF firmware, enumeration, getting
<1>1. pc' = "panicked" /\ pc = "next"
      /\ UNCHANGED <<store, stable, changes, lens, current, cap, varKeySize, dataSize, data,
                     val, listed>>
  BY DEF NextInvalid, NextError
<1>2. Types'
  BY <1>1 DEF IInv, Types
<1>3. BufferInv'
  BY <1>1 DEF IInv, BufferInv
<1>4. ListedInv'
  BY <1>1 DEF IInv, ListedInv, Asking
<1>5. LengthInv'
  BY <1>1 DEF LengthInv, Asking
<1> QED BY <1>2, <1>3, <1>4, <1>5 DEF IInv

\* getkey moves on with the same variable.
LEMMA GetStep ==
  ASSUME IInv, GetSize \/ GetData
  PROVE  IInv'
<1> USE DEF firmware, enumeration
<1>1. pc \in Asking /\ pc' \in Asking
      /\ UNCHANGED <<store, stable, changes, lens, current, cap, varKeySize, listed>>
  BY DEF GetSize, GetData, Returns, Asking
<1>2. current \in Names /\ store[current] \in Nat /\ store[current] \in lens
  BY <1>1, EfiVarsAssumptions DEF IInv, Types, ListedInv, LengthInv, Lengths
<1>3. Types'
  <2>1. dataSize' \in Nat /\ data' \in Nat
    BY <1>2 DEF IInv, Types, GetSize, GetData
  <2>2. val' \in Values
    <3>1. \A n \in Nat, b \in BOOLEAN : [len |-> n, found |-> b] \in Values
      BY DEF Values
    <3>2. val' \in {val, [len |-> 0, found |-> FALSE], [len |-> data, found |-> TRUE]}
      BY DEF GetSize, GetData, Returns
    <3> QED BY <3>1, <3>2 DEF IInv, Types
  <2> QED BY <1>1, <2>1, <2>2 DEF IInv, Types
<1>4. BufferInv'
  BY <1>1 DEF IInv, BufferInv
<1>5. ListedInv'
  BY <1>1 DEF IInv, ListedInv, Asking
<1>6. LengthInv'
  <2>1. pc' = "get2" => data' \in lens
    BY <1>2 DEF GetSize, GetData, Returns
  <2>2. pc' = "print" /\ val'.found => val'.len \in lens
    BY DEF IInv, LengthInv, GetSize, GetData, Returns
  <2> QED BY <1>1, <1>2, <2>1, <2>2 DEF LengthInv
<1> QED BY <1>3, <1>4, <1>5, <1>6 DEF IInv

\* A name is printed once: it was not yet, and the enumeration goes on behind it.
LEMMA PrintVarStep ==
  ASSUME IInv, PrintVar
  PROVE  IInv'
<1> USE DEF firmware, enumeration, getting
<1>1. current \in Names /\ listed[current] = 0 /\ pc' = "next"
  BY DEF IInv, Types, ListedInv, PrintVar, Asking
<1>2. listed' = [listed EXCEPT ![current] = 1]
  BY <1>1 DEF PrintVar
<1>3. Types'
  BY <1>1, <1>2 DEF IInv, Types, PrintVar
<1>4. BufferInv'
  BY DEF IInv, BufferInv, PrintVar
<1>5. ListedInv'
  <2>1. \A x \in Names : listed'[x] = IF x = current THEN 1 ELSE listed[x]
    BY <1>2 DEF IInv, Types
  <2>2. \A x \in Names : listed'[x] <= 1 /\ (x > current => listed'[x] = 0)
    BY <1>1, <2>1, EfiVarsAssumptions DEF IInv, Types, ListedInv
  <2>3. \A x \in stable : (x < current \/ x = current) => listed'[x] = 1
    BY <2>1 DEF IInv, Types, ListedInv
  <2> QED BY <1>1, <2>2, <2>3 DEF IInv, ListedInv, PrintVar, Asking
<1>6. LengthInv'
  BY <1>1 DEF LengthInv, Asking
<1> QED BY <1>3, <1>4, <1>5, <1>6 DEF IInv

\* Every step keeps the inductive invariant.
LEMMA Step ==
  ASSUME IInv, [Next]_vars
  PROVE  IInv'
<1>1. CASE UNCHANGED vars
  BY <1>1 DEF vars, IInv, Types, BufferInv, ListedInv, LengthInv
<1>2. CASE Next
  BY <1>2, ChangeStep, NextTooSmallStep, NextFoundStep, NextDoneStep, PanicStep, GetStep,
     PrintVarStep DEF Next, Listing
<1> QED BY <1>1, <1>2

-----------------------------------------------------------------------------
\* The inductive invariant holds in every reachable state: what the listing of vars has
\* printed, relative to the current name, and what the buffer has room for.
THEOREM Invariance == Spec => []IInv
<1>1. Init => IInv
  BY Initial
<1>2. IInv /\ [Next]_vars => IInv'
  BY Step
<1> QED BY <1>1, <1>2, PTL DEF Spec

\* The firmware never writes behind varKey: however names of any length follow each
\* other, the size that vars passes is within the buffer, and so is the name in it.
THEOREM NameIsInBuffer == Spec => []NameInBuffer
<1>1. IInv => NameInBuffer
  BY EfiVarsAssumptions DEF IInv, Types, BufferInv, NameInBuffer, NoVar
<1> QED BY <1>1, Invariance, PTL

\* vars prints no variable twice, and at its end each one that was there all the time;
\* a value that getkey found has a length that its variable had during the two calls.
THEOREM EachIsListedOnce == Spec => []EachListedOnce
<1>1. IInv => EachListedOnce
  BY DEF IInv, ListedInv, LengthInv, EachListedOnce
<1> QED BY <1>1, Invariance, PTL
=============================================================================
