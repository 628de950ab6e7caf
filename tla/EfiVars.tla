------------------------------ MODULE EfiVars ------------------------------
(***************************************************************************)
(* The listing of the firmware's variables in cmd/efiload/main.go: vars    *)
(* (a loop over GetNextVariableName with a growing buffer) and getkey (two *)
(* calls of GetVariable, the first one to learn the size).  The firmware   *)
(* and its event handlers may set and delete variables between two calls.  *)
(* Names are numbers in the order of the enumeration; sizes are in CHAR16  *)
(* units with the NUL (the code's sizes are twice that), data in bytes.    *)
(***************************************************************************)
EXTENDS Integers, FiniteSets

CONSTANTS
  Names,        \* 1..n: possible variables, in the order of the enumeration
  NameSize,     \* length of each name, at least 2
  DataSizes,    \* possible lengths of data, at least 1
  MaxChanges    \* bound: variables set or deleted meanwhile

ASSUME EfiVarsAssumptions ==
  /\ \A x \in Names : x \in Nat /\ x > 0
  /\ NameSize \in [Names -> Nat] /\ \A x \in Names : NameSize[x] > 1
  /\ \A n \in DataSizes : n \in Nat /\ n > 0
  /\ MaxChanges \in Nat

NoVar == 0      \* the empty name, with which the enumeration starts

VARIABLES
  pc,
  store,        \* the variables there are: name -> length of data
  current,      \* the name in varKey
  cap,          \* len(varKey)
  varKeySize,   \* size in and out of GetNextVariableName
  dataSize,     \* size in and out of GetVariable
  data,         \* len(data)
  val,          \* what getkey returned: its length and found
  listed,       \* history: the lines printed, name -> how often
  stable,       \* history: names that were there all the time
  lens,         \* history: the lengths each variable had since it was asked for
  changes

vars == <<pc, store, current, cap, varKeySize, dataSize, data, val, listed, stable, lens,
          changes>>
enumeration == <<current, cap, varKeySize>>
getting == <<dataSize, data, val>>
firmware == <<store, stable, changes>>

Exists(x) == store[x] > 0
Following(x) == {y \in Names : y > x /\ Exists(y)}
Following1(x) == CHOOSE y \in Following(x) : \A z \in Following(x) : y <= z

Init ==
  /\ pc = "next"
  /\ store \in [Names -> DataSizes \cup {0}]
  /\ current = NoVar /\ cap = 1 /\ varKeySize = 1
  /\ dataSize = 0 /\ data = 0 /\ val = [len |-> 0, found |-> FALSE]
  /\ listed = [x \in Names |-> 0]
  /\ stable = {x \in Names : Exists(x)} /\ lens = {}
  /\ changes = 0

\* A driver sets a variable, or deletes one (length 0).
Change ==
  /\ changes < MaxChanges /\ pc \notin {"done", "panicked"}
  /\ \E x \in Names, n \in DataSizes \cup {0} :
       /\ store[x] # n
       /\ store' = [store EXCEPT ![x] = n]
       /\ stable' = IF n = 0 THEN stable \ {x} ELSE stable
       /\ lens' = IF x = current THEN lens \cup {n} ELSE lens
  /\ changes' = changes + 1
  /\ UNCHANGED <<pc, enumeration, getting, listed>>

(***************************************************************************)
(* vars: the answers of GetNextVariableName.                               *)
(***************************************************************************)
Known == current \in {NoVar} \cup {x \in Names : Exists(x)}

\* Mutants: the buffer is kept; the current name is lost with the old buffer.
NextTooSmall_Kept ==
  /\ pc = "next" /\ Known /\ Following(current) # {}
  /\ varKeySize < NameSize[Following1(current)]
  /\ varKeySize' = NameSize[Following1(current)]
  /\ UNCHANGED <<pc, firmware, lens, current, cap, getting, listed>>

NextTooSmall_NoCopy ==
  /\ pc = "next" /\ Known /\ Following(current) # {}
  /\ varKeySize < NameSize[Following1(current)]
  /\ varKeySize' = NameSize[Following1(current)]
  /\ cap' = varKeySize' /\ current' = NoVar
  /\ UNCHANGED <<pc, firmware, lens, getting, listed>>

\* EFI_BUFFER_TOO_SMALL: varKeySize is the size needed.  The new buffer keeps the
\* current name, from which the enumeration goes on.
NextTooSmall ==
  /\ pc = "next" /\ Known /\ Following(current) # {}
  /\ varKeySize < NameSize[Following1(current)]
  /\ varKeySize' = NameSize[Following1(current)]
  /\ cap' = varKeySize'
  /\ UNCHANGED <<pc, firmware, lens, current, getting, listed>>

\* EFI_SUCCESS: the name is in varKey and varKeySize is its size.
NextFound ==
  /\ pc = "next" /\ Known /\ Following(current) # {}
  /\ NameSize[Following1(current)] <= varKeySize
  /\ current' = Following1(current)
  /\ varKeySize' = NameSize[current']
  /\ lens' = {store[current']}
  /\ dataSize' = 0 /\ data' = 16
  /\ pc' = "get"
  /\ UNCHANGED <<firmware, cap, val, listed>>

\* EFI_NOT_FOUND: all done.
NextDone ==
  /\ pc = "next" /\ Known /\ Following(current) = {}
  /\ pc' = "done"
  /\ UNCHANGED <<firmware, lens, enumeration, getting, listed>>

\* EFI_INVALID_PARAMETER: the current name is not that of a variable.
NextInvalid ==
  /\ pc = "next" /\ ~Known
  /\ pc' = "panicked"
  /\ UNCHANGED <<firmware, lens, enumeration, getting, listed>>

\* Any other status.
NextError ==
  /\ pc = "next"
  /\ pc' = "panicked"
  /\ UNCHANGED <<firmware, lens, enumeration, getting, listed>>

(***************************************************************************)
(* getkey                                                                  *)
(***************************************************************************)
Returns(len, found) == val' = [len |-> len, found |-> found] /\ pc' = "print"

\* The first call, with dataSize 0: EFI_BUFFER_TOO_SMALL and the size; or
\* EFI_NOT_FOUND; or another error, and then data[0:dataSize] is empty.
GetSize ==
  /\ pc = "get"
  /\ \/ /\ Exists(current)
        /\ dataSize' = store[current] /\ data' = store[current]
        /\ pc' = "get2" /\ UNCHANGED val
     \/ Returns(0, FALSE) /\ UNCHANGED <<dataSize, data>>
  /\ UNCHANGED <<firmware, lens, enumeration, listed>>

\* Mutant: a failed second call starts getkey again.
GetData_Retry ==
  /\ pc = "get2"
  /\ \/ /\ Exists(current) /\ store[current] <= dataSize
        /\ dataSize' = store[current]
        /\ Returns(data, TRUE) /\ UNCHANGED data
     \/ /\ dataSize' = 0 /\ data' = 16
        /\ pc' = "get" /\ UNCHANGED val
  /\ UNCHANGED <<firmware, lens, enumeration, listed>>

\* The second call: the buffer is returned, all of it, or the variable is gone, has
\* grown, or cannot be read.
GetData ==
  /\ pc = "get2"
  /\ \/ /\ Exists(current) /\ store[current] <= dataSize
        /\ dataSize' = store[current]
        /\ Returns(data, TRUE)
     \/ /\ dataSize' = IF store[current] > dataSize THEN store[current] ELSE dataSize
        /\ Returns(0, FALSE)
  /\ UNCHANGED <<firmware, lens, enumeration, data, listed>>

\* fmt.Println("VAR", keyString, val), and the next turn of the loop.
PrintVar ==
  /\ pc = "print"
  /\ listed' = [listed EXCEPT ![current] = @ + 1]
  /\ pc' = "next"
  /\ UNCHANGED <<firmware, lens, enumeration, getting>>

Listing ==
  \/ NextTooSmall \/ NextFound \/ NextDone \/ NextInvalid \/ NextError
  \/ GetSize \/ GetData \/ PrintVar

Next == Change \/ Listing

\* One goroutine, and every firmware call returns; the drivers need not do anything.
Spec == Init /\ [][Next]_vars /\ WF_vars(Listing)
-----------------------------------------------------------------------------
\* Types.
TypeOK ==
  /\ pc \in {"next", "get", "get2", "print", "done", "panicked"}
  /\ store \in [Names -> DataSizes \cup {0}]
  /\ current \in Names \cup {NoVar} /\ cap \in Nat /\ varKeySize \in Nat
  /\ dataSize \in Nat /\ val \in [len : Nat, found : BOOLEAN]
  /\ listed \in [Names -> Nat]

\* The firmware never writes behind varKey: the size passed to it is within the buffer
\* over all turns, although it shrinks with each name and grows with each reallocation.
NameInBuffer ==
  /\ varKeySize <= cap
  /\ current # NoVar => NameSize[current] <= cap

\* A listing that comes to its end has every variable that was there all the time, and
\* none twice, however the buffer was reallocated in between; and a value that getkey
\* found has a length that its variable had at some moment of the two calls.
EachListedOnce ==
  /\ \A x \in Names : listed[x] <= 1
  /\ pc = "done" => \A x \in stable : listed[x] = 1
  /\ pc = "print" /\ val.found => val.len \in lens

\* The listing ends: the loop of vars goes forward through the names with every turn,
\* the buffer is reallocated at most once for each, and getkey makes two calls.
Ends == <>(pc \in {"done", "panicked"})

-----------------------------------------------------------------------------
\* What the repository says and the code does not do: each statement is false in this
\* specification, as TLC shows when it stands in the configuration (see README).

\* "after call: how much was written to the buffer" (efiload/main.go:48): a value that
\* was found is what the second call wrote, and no byte more.
ValueWritten == pc = "print" /\ val.found => val.len = dataSize

\* "this gets its own branch because it means something in this function was done
\* incorrectly" (efiload/main.go:95): with firmware calls that do not fail, no name that
\* the firmware does not know is passed.
NeverInvalid == pc = "next" => Known
=============================================================================
