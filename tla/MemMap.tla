------------------------------- MODULE MemMap -------------------------------
(***************************************************************************)
(* Memory of the Go runtime under UEFI: x64/mem.go (allocateHeap), and     *)
(* ueficore/mem.go (GetMemoryMap, E820), pages.go and exit.go.  Sizes, and *)
(* the addresses that are not in a descriptor or in the E820 map, are in   *)
(* pages.  At start the program takes the memory behind its image for its  *)
(* heap; a boot manager later exits boot services and converts the map to  *)
(* E820.  The firmware's own event handlers may change the map between any *)
(* two calls, and its descriptors may be of any size.                      *)
(***************************************************************************)
EXTENDS Integers, FiniteSets, Sequences

CONSTANTS
  Pages,        \* number of pages of physical memory
  Layouts,      \* what memory may hold at start: functions page -> type
  RamStart,     \* where the image is loaded
  RamSize0,     \* RamSize as linked in
  MaxEntries,   \* maxEntries, 1000
  DescriptorSizes,   \* what the firmware may report, in words of 8 bytes
  MaxEvents,    \* bound: changes made by event handlers
  MaxExits      \* bound: calls of ExitBootServices

Hole == "Hole"   \* no memory: in no descriptor
RAMTypes ==
  {"LoaderCode", "LoaderData", "BootServicesCode", "BootServicesData", "Conventional"}
Types == RAMTypes \cup {"Persistent", "ACPIReclaim", "ACPINVS", "Reserved", Hole}

\* EFI_MEMORY_TYPE
Code ==
  [Reserved |-> 0, LoaderCode |-> 1, LoaderData |-> 2, BootServicesCode |-> 3,
   BootServicesData |-> 4, Conventional |-> 7, ACPIReclaim |-> 9, ACPINVS |-> 10,
   Persistent |-> 14]
PageSize == 4096

ASSUME MemMapAssumptions ==
  /\ Pages \in Nat /\ RamStart \in Nat /\ RamSize0 \in Nat
  /\ MaxEntries \in Nat /\ MaxEvents \in Nat /\ MaxExits \in Nat
  /\ Layouts \subseteq [0..Pages - 1 -> Types]
  /\ RamStart > 0
  /\ \A s \in DescriptorSizes : s \in Nat /\ s >= 5

VARIABLES
  pc,
  mem, key,     \* the firmware's memory and MapKey
  DescriptorSize,    \* of the firmware
  m,            \* the MemoryMap last read: descriptors and MapKey
  heapStart, RamSize,
  warned,       \* history: allocateHeap printed a warning
  exited,       \* boot services are gone
  i, e820,      \* the loop of E820
  events, exits

vars == <<pc, mem, key, DescriptorSize, m, heapStart, RamSize, warned, exited, i, e820, events,
          exits>>
firmware == <<mem, key, DescriptorSize, events>>
runtime == <<heapStart, RamSize, warned>>
table == <<i, e820>>

ramEnd == RamStart + RamSize

(***************************************************************************)
(* The firmware (external): one descriptor for each run of pages of a type, *)
(* in the order of addresses.                                               *)
(***************************************************************************)
RunStart(f, p) == f[p] # Hole /\ (p = 0 \/ f[p - 1] # f[p])
RunEnd(f, p) == CHOOSE q \in p + 1..Pages :
                  /\ \A r \in p..q - 1 : f[r] = f[p]
                  /\ q < Pages => f[q] # f[p]
Descriptors(f) ==
  LET S == {p \in 0..Pages - 1 : RunStart(f, p)} IN
  [k \in 1..Cardinality(S) |->
     LET p == CHOOSE s \in S : Cardinality({t \in S : t < s}) = k - 1 IN
     [type |-> f[p], start |-> p, pages |-> RunEnd(f, p) - p]]

PhysicalEnd(d) == d.start + d.pages * PageSize

Init ==
  /\ pc = "heapMap"
  /\ mem \in Layouts /\ key = 0 /\ DescriptorSize \in DescriptorSizes
  /\ m = [descs |-> <<>>, key |-> 0]
  /\ heapStart = 0 /\ RamSize = RamSize0 /\ warned = FALSE
  /\ exited = FALSE /\ i = 1 /\ e820 = <<>> /\ events = 0 /\ exits = 0

\* A timer or driver callback takes a free page, or gives one back.
Event ==
  /\ ~exited /\ events < MaxEvents
  /\ \E p \in 0..Pages - 1, t \in {"Conventional", "BootServicesData"} :
       /\ mem[p] \in {"Conventional", "BootServicesData"} \ {t}
       /\ mem' = [mem EXCEPT ![p] = t]
  /\ key' = key + 1 /\ events' = events + 1
  /\ UNCHANGED <<pc, DescriptorSize, m, runtime, exited, table, exits>>

\* The words of a descriptor: Type, PhysicalStart, VirtualStart, NumberOfPages, and
\* Attribute (which is 15).
Fields(d) == <<Code[d.type], d.start * PageSize, 0, d.pages, 15>>

\* Word w of the buffer; what is in no field is 0.
Word(ds, size, w) ==
  LET k == w \div size + 1 field == w % size IN
  IF k <= Len(ds) /\ field < 5 THEN Fields(ds[k])[field + 1] ELSE 0

(***************************************************************************)
(* GetMemoryMap: a buffer for MaxEntries descriptors, or an error.  They   *)
(* are decoded at a stride of six words, whatever DescriptorSize is.       *)
(***************************************************************************)
Stride == 6

Decoded(ds, size) ==
  [k \in 1..(Len(ds) * size + Stride - 1) \div Stride |->
     LET w == Stride * (k - 1) IN
     [type |-> Word(ds, size, w), start |-> Word(ds, size, w + 1),
      pages |-> Word(ds, size, w + 3)]]

GetMemoryMap ==
  /\ Len(Descriptors(mem)) * DescriptorSize <= Stride * MaxEntries
  /\ m' = [descs |-> Decoded(Descriptors(mem), DescriptorSize), key |-> key]

(***************************************************************************)
(* allocateHeap                                                             *)
(***************************************************************************)
HeapMap ==
  /\ pc = "heapMap"
  /\ \/ GetMemoryMap /\ pc' = "locate" /\ UNCHANGED warned
     \/ warned' = TRUE /\ pc' = "main" /\ UNCHANGED m
  /\ UNCHANGED <<firmware, heapStart, RamSize, exited, table, exits>>

IsImage(d) == d.type = Code["LoaderCode"] /\ d.start = RamStart * PageSize

\* The heap starts where the image ends, and ends with the descriptor after it; the
\* last descriptor has none after it.
Locate ==
  /\ pc = "locate"
  /\ \/ /\ \A k \in DOMAIN m.descs : ~IsImage(m.descs[k])
        /\ warned' = TRUE
        /\ UNCHANGED <<heapStart, RamSize>>
     \/ \E k \in DOMAIN m.descs :
          /\ IsImage(m.descs[k]) /\ \A j \in 1..k - 1 : ~IsImage(m.descs[j])
          /\ heapStart' = PhysicalEnd(m.descs[k]) \div PageSize
          /\ RamSize' = IF k < Len(m.descs)
                        THEN heapStart' + m.descs[k + 1].pages - RamStart
                        ELSE RamSize
          /\ UNCHANGED warned
  /\ pc' = "alloc"
  /\ UNCHANGED <<firmware, m, exited, table, exits>>

\* AllocatePages(AllocateAddress): the very pages asked for, if all are free.
Heap == heapStart..ramEnd - 1
CanAllocate ==
  /\ heapStart < ramEnd /\ ramEnd <= Pages
  /\ \A p \in Heap : mem[p] = "Conventional"

\* Mutant: the error is not looked at.
AllocatePages_Ignored ==
  /\ pc = "alloc"
  /\ \/ /\ CanAllocate
        /\ mem' = [p \in DOMAIN mem |-> IF p \in Heap THEN "LoaderData" ELSE mem[p]]
        /\ key' = key + 1
     \/ UNCHANGED <<mem, key>>
  /\ pc' = "main"
  /\ UNCHANGED <<DescriptorSize, events, m, runtime, exited, table, exits>>

AllocatePages ==
  /\ pc = "alloc"
  /\ \/ /\ CanAllocate
        /\ mem' = [p \in DOMAIN mem |-> IF p \in Heap THEN "LoaderData" ELSE mem[p]]
        /\ key' = key + 1
        /\ UNCHANGED warned
     \/ warned' = TRUE /\ UNCHANGED <<mem, key>>
  /\ pc' = "main"
  /\ UNCHANGED <<DescriptorSize, events, m, heapStart, RamSize, exited, table, exits>>

(***************************************************************************)
(* ExitBootServices: the map, then the call with its key.  A stale key is   *)
(* an error for the caller.                                                 *)
(***************************************************************************)
ExitMap ==
  /\ pc = "main" /\ exits < MaxExits
  /\ exits' = exits + 1
  /\ GetMemoryMap
  /\ pc' = "exit"
  /\ UNCHANGED <<firmware, runtime, exited, table>>

\* Mutant: the key is asked for again.
ExitBootServices_NewKey ==
  /\ pc = "exit"
  /\ exited' = TRUE /\ pc' = "join"
  /\ UNCHANGED <<firmware, m, runtime, table, exits>>

ExitBootServices ==
  /\ pc = "exit"
  /\ \/ m.key = key /\ exited' = TRUE /\ pc' = "join"
     \/ m.key # key /\ pc' = "main" /\ UNCHANGED exited
  /\ UNCHANGED <<firmware, m, runtime, table, exits>>

(***************************************************************************)
(* E820                                                                     *)
(***************************************************************************)
MemType(t) ==
  CASE t \in {Code[ram] : ram \in RAMTypes} -> "RAM"
    [] t = Code["Persistent"] -> "PersistentMemory" [] t = Code["ACPIReclaim"] -> "ACPI"
    [] t = Code["ACPINVS"] -> "NVS" [] OTHER -> "Reserved"

E820Types == {"RAM", "PersistentMemory", "ACPI", "NVS", "Reserved"}

Entry(d) == [addr |-> d.start, size |-> d.pages * PageSize, type |-> MemType(d.type)]

\* Mutant: entries of a type are joined across a gap.
Joins_Gap(prev, entry) ==
  /\ entry.addr # RamStart * PageSize /\ prev.addr + prev.size # ramEnd * PageSize
  /\ prev.type = entry.type

\* Joins adjacent entries of a type, but neither at the start nor at the end of the
\* runtime's memory.
Joins(prev, entry) ==
  /\ entry.addr # RamStart * PageSize /\ prev.addr + prev.size # ramEnd * PageSize
  /\ prev.type = entry.type /\ prev.addr + prev.size = entry.addr

Join ==
  /\ pc = "join" /\ i <= Len(m.descs)
  /\ LET entry == Entry(m.descs[i]) last == Len(e820) IN
     IF last > 0 /\ Joins(e820[last], entry)
     THEN e820' = [e820 EXCEPT ![last].size = @ + entry.size]
     ELSE e820' = Append(e820, entry)
  /\ i' = i + 1
  /\ UNCHANGED <<pc, firmware, m, runtime, exited, exits>>

Joined ==
  /\ pc = "join" /\ i > Len(m.descs)
  /\ pc' = "done"
  /\ UNCHANGED <<firmware, m, runtime, exited, table, exits>>

Next ==
  \/ Event \/ HeapMap \/ Locate \/ AllocatePages
  \/ ExitMap \/ ExitBootServices \/ Join \/ Joined

Spec == Init /\ [][Next]_vars
-----------------------------------------------------------------------------
\* Types.
TypeOK ==
  /\ pc \in {"heapMap", "locate", "alloc", "main", "exit", "join", "done"}
  /\ mem \in [0..Pages - 1 -> Types] /\ key \in Nat
  /\ m.descs \in Seq([type : Nat, start : Nat, pages : Nat]) /\ m.key \in Nat
  /\ heapStart \in Nat /\ RamSize \in Nat
  /\ e820 \in Seq([addr : Nat, size : Nat, type : E820Types])
  /\ i \in Nat /\ i > 0 /\ warned \in BOOLEAN /\ exited \in BOOLEAN

\* Unless allocateHeap warned, all memory that the Go runtime may use, up to the RamSize
\* it was raised to, belongs to the program: the image and the pages it allocated,
\* although the map may have changed between reading it and allocating, and although
\* it is read at the wrong stride when the firmware's descriptors are not of 48 bytes.
HeapOwned ==
  pc \notin {"heapMap", "locate", "alloc"} /\ ~warned =>
    \A p \in RamStart..ramEnd - 1 : mem[p] \in {"LoaderCode", "LoaderData"}

\* The map that ExitBootServices returns with success is the map of the machine at the
\* moment boot services ended: no page in it has changed hands.  Of descriptors that are
\* not of 48 bytes only the first is sure to be right.
MapCurrent ==
  exited =>
    LET ds == Descriptors(mem) IN
    \A k \in DOMAIN ds \cup DOMAIN m.descs :
      DescriptorSize = Stride \/ k = 1 =>
        m.descs[k] = [type |-> Code[ds[k].type], start |-> ds[k].start * PageSize,
                      pages |-> ds[k].pages]

In(a, addr, size) == addr <= a /\ a < addr + size

\* "join and isolate runtime.MemRegion()" (mem.go:103): the runtime's memory is one
\* entry of the E820 map, and nothing else is in that entry.
RuntimeIsolated ==
  pc = "done" /\ ~warned =>
    \E k \in DOMAIN e820 : e820[k].addr = RamStart * PageSize /\ e820[k].size = RamSize * PageSize

\* The E820 map says of each page what the descriptors converted so far say, and of no page
\* more; with descriptors of 48 bytes its entries are in order and do not overlap, and
\* the runtime's memory is an entry of its own, where no other loader data follows it.
E820Exact ==
  /\ \A p \in 0..Pages - 1, t \in E820Types :
       LET a == p * PageSize IN
       (\E k \in 1..i - 1 : /\ In(a, m.descs[k].start, m.descs[k].pages * PageSize)
                            /\ MemType(m.descs[k].type) = t)
       <=> (\E k \in DOMAIN e820 : In(a, e820[k].addr, e820[k].size) /\ e820[k].type = t)
  /\ DescriptorSize = Stride =>
       /\ \A k \in 1..Len(e820) - 1 : e820[k].addr + e820[k].size <= e820[k + 1].addr
       /\ (ramEnd \in DOMAIN mem => mem[ramEnd] # "LoaderData") => RuntimeIsolated

-----------------------------------------------------------------------------
\* What the repository says and the code does not do: the statement is false in this
\* specification, as is RuntimeIsolated, as TLC shows when it stands in the configuration
\* (see README).

\* "MemoryMap represents an EFI Memory Map" (mem.go:74), whose descriptors are
\* DescriptorSize bytes apart.
MapDecoded == exited => Len(m.descs) = Len(Descriptors(mem))
=============================================================================
