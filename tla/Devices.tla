------------------------------ MODULE Devices ------------------------------
(***************************************************************************)
(* How package uefi finds devices: EnumerateDisks, EnumerateFileSystems,   *)
(* EnumerateSerialPorts, EnumerateDHCPv4 and EnumerateSNP ask the firmware *)
(* for the handles that have a protocol, and then each handle for its      *)
(* interfaces.  The handle database is the firmware's (external): drivers  *)
(* install and remove protocols between any two calls of it.               *)
(***************************************************************************)
EXTENDS Integers, Sequences, FiniteSets, SequencesExt

CONSTANTS
  NumHandles,   \* handles of devices: 1..NumHandles; a DHCP child has a number above
  MaxChanges,   \* bound: protocols that drivers install or remove
  MaxEnumerations  \* bound: enumerations, one after the other

DevicesSizes == NumHandles \in Nat /\ MaxChanges \in Nat /\ MaxEnumerations \in Nat

ASSUME DevicesAssumptions == DevicesSizes

VARIABLES
  kind,         \* the enumeration that the program uses
  db,           \* handle -> protocols installed on it
  stage,
  handles,      \* the rest of the slice that LocateHandleBuffer returned
  found,        \* what is returned: sequence of functions, protocol -> handle
  err,          \* and the error
  children,     \* DHCP children that exist
  changes, begun,
  always, ever, \* history: protocols each handle had all through the call, and at all
  refused       \* history: handles for which a child could not be had

devicesVars == <<kind, db, stage, handles, found, err, children, changes, begun, always, ever,
                 refused>>
result == <<found, err>>
history == <<always, ever>>

Handles == 1..NumHandles
Kinds == {"disks", "fileSystems", "serialPorts", "dhcpv4", "snp"}

(***************************************************************************)
(* What the functions ask for                                              *)
(***************************************************************************)
Search ==
  [disks |-> "DiskIO", fileSystems |-> "FileSystem", serialPorts |-> "SerialIO",
   dhcpv4 |-> "DHCP4Binding", snp |-> "SimpleNetwork"]

\* The interfaces of each handle, in this order.  EnumerateSNP asks for the binding of
\* DHCP, and takes what it gets for a simple network.
Wanted ==
  [disks |-> <<"DiskIO", "BlockIO">>, fileSystems |-> <<"FileSystem">>,
   serialPorts |-> <<"SerialIO">>, dhcpv4 |-> <<"DHCP4Binding">>,
   snp |-> <<"DHCP4Binding">>]

\* What an element of the result is used as.
UsedAs ==
  [disks |-> {"DiskIO", "BlockIO"}, fileSystems |-> {"FileSystem"},
   serialPorts |-> {"SerialIO"}, dhcpv4 |-> {"DHCP4"}, snp |-> {"SimpleNetwork"}]

\* The protocols that matter to an enumeration.
Relevant(k) == {Search[k]} \cup Range(Wanted[k])

\* No handles: nothing was found, and for the others that is an error.
NotFoundIsEmpty(k) == k \in {"disks", "fileSystems"}

DevicesInit ==
  /\ kind \in Kinds
  /\ db \in [Handles -> SUBSET Relevant(kind)]
  /\ stage = "idle" /\ handles = <<>> /\ found = <<>> /\ err = FALSE
  /\ children = {} /\ changes = 0 /\ begun = 0 /\ refused = {}
  /\ always = db /\ ever = db

(***************************************************************************)
(* The firmware and its drivers (external)                                 *)
(***************************************************************************)
SetProtocols(h, ps) ==
  /\ db' = [db EXCEPT ![h] = ps]
  /\ always' = [always EXCEPT ![h] = @ \cap ps]
  /\ ever' = [ever EXCEPT ![h] = @ \cup ps]

DriverChange ==
  /\ changes < MaxChanges
  /\ changes' = changes + 1
  /\ \E h \in Handles, p \in Relevant(kind) :
       SetProtocols(h, IF p \in db[h] THEN db[h] \ {p} ELSE db[h] \cup {p})
  /\ UNCHANGED <<kind, stage, handles, result, children, begun, refused>>

(***************************************************************************)
(* The enumerations                                                        *)
(***************************************************************************)
Return(e) == stage' = "idle" /\ err' = e

Begin ==
  /\ stage = "idle" /\ begun < MaxEnumerations
  /\ begun' = begun + 1
  /\ stage' = "locate"
  /\ found' = <<>> /\ err' = FALSE /\ refused' = {}
  /\ always' = db /\ ever' = db
  /\ UNCHANGED <<kind, db, handles, children, changes>>

\* LocateHandleBuffer: the handles, in any order, or EFI_NOT_FOUND, or no memory.
LocateHandleBuffer ==
  /\ stage = "locate"
  /\ LET matching == {h \in Handles : Search[kind] \in db[h]} IN
     \/ matching # {} /\ handles' \in SetToSeqs(matching) /\ stage' = "handle" /\ UNCHANGED err
     \/ matching = {} /\ Return(~NotFoundIsEmpty(kind)) /\ UNCHANGED handles
     \/ Return(TRUE) /\ UNCHANGED handles
  /\ UNCHANGED <<kind, db, found, children, changes, begun, history, refused>>

NextHandle == handles' = Tail(handles) /\ stage' = "handle"

\* The end of the loop.
Done ==
  /\ stage = "handle" /\ handles = <<>>
  /\ Return(FALSE)
  /\ UNCHANGED <<kind, db, handles, found, children, changes, begun, history, refused>>

\* EnumerateSNP connects the drivers first, whose status it does not look at: the
\* handle may get the protocols of the network stack.
ConnectController ==
  /\ stage = "handle" /\ handles # <<>> /\ kind = "snp"
  /\ \/ SetProtocols(Head(handles), db[Head(handles)] \cup {"DHCP4Binding"})
     \/ UNCHANGED <<db, history>>
  /\ stage' = "first"
  /\ UNCHANGED <<kind, handles, result, children, changes, begun, refused>>

Append1(item) == found' = Append(found, item)

\* Mutant: the loop ends at the first handle that has lost a protocol.
Missing_Break ==
  /\ Return(kind = "serialPorts")
  /\ found' = IF kind = "serialPorts" THEN <<>> ELSE found
  /\ UNCHANGED handles

\* A handle without the protocol is left out; for serial ports the call fails.
Missing ==
  IF kind = "serialPorts"
  THEN Return(TRUE) /\ found' = <<>> /\ UNCHANGED handles
  ELSE NextHandle /\ UNCHANGED result

\* The first HandleProtocol.
HandleProtocol ==
  /\ \/ stage = "first"
     \/ stage = "handle" /\ handles # <<>> /\ kind # "snp"
  /\ LET h == Head(handles) IN
     IF Wanted[kind][1] \notin db[h] THEN Missing
     ELSE IF kind = "dhcpv4"
     THEN stage' = "child" /\ UNCHANGED <<handles, result>>
     ELSE IF Len(Wanted[kind]) = 2
     THEN stage' = "second" /\ UNCHANGED <<handles, result>>
     ELSE NextHandle /\ Append1([p \in {Wanted[kind][1]} |-> h]) /\ UNCHANGED err
  /\ UNCHANGED <<kind, db, children, changes, begun, history, refused>>

\* The second one, for disks.
HandleProtocol2 ==
  /\ stage = "second"
  /\ LET h == Head(handles) IN
     IF Wanted[kind][2] \in db[h]
     THEN NextHandle /\ Append1([p \in Range(Wanted[kind]) |-> h]) /\ UNCHANGED err
     ELSE Missing
  /\ UNCHANGED <<kind, db, children, changes, begun, history, refused>>

\* A DHCP child, with a number of its own.
NewChild == NumHandles + 1 + Cardinality(children)

CreateChild ==
  /\ stage = "child"
  /\ \/ children' = children \cup {NewChild} /\ stage' = "childProtocol"
        /\ UNCHANGED <<handles, refused>>
     \/ NextHandle /\ refused' = refused \cup {Head(handles)} /\ UNCHANGED children
  /\ UNCHANGED <<kind, db, result, changes, begun, history>>

\* Its interface; without one the child stays behind.
ChildProtocol ==
  /\ stage = "childProtocol"
  /\ NextHandle
  /\ \/ Append1([p \in {"DHCP4"} |-> NewChild - 1]) /\ UNCHANGED refused
     \/ refused' = refused \cup {Head(handles)} /\ UNCHANGED found
  /\ UNCHANGED <<kind, db, err, children, changes, begun, history>>

Enumerate ==
  \/ LocateHandleBuffer \/ Done \/ ConnectController \/ HandleProtocol \/ HandleProtocol2
  \/ CreateChild \/ ChildProtocol

DevicesNext == DriverChange \/ Begin \/ Enumerate

DevicesSpec == DevicesInit /\ [][DevicesNext]_devicesVars
-----------------------------------------------------------------------------
Returned == stage = "idle" /\ begun > 0 /\ ~err

\* The handles that kept the protocols all through the call, and those that had them.
Kept == {h \in Handles : Relevant(kind) \subseteq always[h]}
Had == {h \in Handles : Relevant(kind) \subseteq ever[h]}

\* The handle an element of the result belongs to, when it has one.
Owner(item) == CHOOSE h \in Range(item) : TRUE

\* A call that returns without an error has found each device that was there all the
\* time, none twice and none that never was, whatever drivers did meanwhile; the
\* interfaces of one device are all of one handle, and are those it is used by (not so
\* for EnumerateSNP: NetworksAreNetworks).
FoundIsComplete ==
  Returned =>
    /\ \A i \in DOMAIN found : Cardinality(Range(found[i])) = 1
    /\ \A i, j \in DOMAIN found : Owner(found[i]) = Owner(found[j]) => i = j
    /\ kind # "snp" => \A i \in DOMAIN found : DOMAIN found[i] = UsedAs[kind]
    /\ IF kind = "dhcpv4"
       THEN Cardinality(Kept \ refused) <= Len(found) /\ Len(found) <= Cardinality(Had)
       ELSE LET owners == {Owner(found[i]) : i \in DOMAIN found} IN
            Kept \subseteq owners /\ owners \subseteq Had

-----------------------------------------------------------------------------
\* What the repository says and the code does not do: each statement is false in this
\* specification, as TLC shows when it stands in the configuration (see README).

\* The result of EnumerateSNP is of type []*SimpleNetworkProtocol
\* (simple_network_protocol.go:95).
NetworksAreNetworks == \A i \in DOMAIN found : DOMAIN found[i] = UsedAs[kind]

\* "TODO: track and clean up after the children" (dhcpv4.go:213): every child that exists
\* is in a result the program has.
ChildrenTracked ==
  Returned => children = UNION {Range(found[i]) : i \in DOMAIN found} \ Handles
=============================================================================
