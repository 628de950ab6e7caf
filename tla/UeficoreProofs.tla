---------------------------- MODULE UeficoreProofs --------------------------
(***************************************************************************)
(* Proofs about the components of ueficore.                                *)
(*                                                                         *)
(* Volume: for files of any length, any growth of the slice, any device    *)
(* path in the firmware's memory and any number of calls.  Console: for    *)
(* any keys, texts, buffers, tabs and capacities of the runtime's slices.  *)
(***************************************************************************)
EXTENDS Volume, Console, FiniteSetTheorems, SequenceTheorems, WellFoundedInduction, TLAPS

\* Which files are open where, and which root directories.
OpenInv ==
  /\ pc \notin {"stat", "read", "close", "closeError"} => files = refused
  /\ pc \in {"stat", "read", "close", "closeError"} => files = refused + 1
  /\ dirs <= calls
  /\ pc \in {"image", "device", "system", "volume"} => dirs < calls

\* What was read: never more than there is, never more than the slice holds, and when
\* ReadFile comes to the end, all of it or the bytes before a read that failed.
ReadInv ==
  /\ pc \in {"image", "device", "system", "volume", "open", "stat"} => got = 0
  /\ pc = "read" => got <= fileLen /\ got <= size /\ 0 < size
  /\ pc \in {"close", "node", "path", "load"} => got <= fileLen /\ (got = fileLen \/ cut)
  /\ image # None => pc = "idle"
  /\ pc # "idle" => outcome # "panicked"

\* A node of the nodes m that the walk went over: it leads to the next one, or to the offset e.
Leads(m, o, e) ==
  /\ o < e /\ ~m[o].end /\ m[o].len \in Nat /\ 4 <= m[o].len /\ m[o].len <= 255
  /\ o + m[o].len \in DOMAIN m \cup {e}
  /\ o + m[o].len <= e

\* The nodes before the offset e are a chain from 0 to e.
ChainTo(m, e) ==
  /\ \A o \in DOMAIN m \ {e} : Leads(m, o, e)
  /\ e = 0 <=> DOMAIN m \ {e} = {}
  /\ e # 0 => 0 \in DOMAIN m /\ \E o \in DOMAIN m \ {e} : o + m[o].len = e

\* The walk.
WalkInv ==
  /\ IsFiniteSet(DOMAIN mem) /\ DOMAIN mem \subseteq Nat
  /\ Cardinality(DOMAIN mem) <= MaxDepth /\ off <= 255 * MaxDepth
  /\ pc = "node" =>
       /\ off \notin DOMAIN mem /\ ChainTo(mem, off)
       /\ off <= 255 * Cardinality(DOMAIN mem)
  /\ pc = "path" => off \in DOMAIN mem /\ mem[off].end /\ ChainTo(mem, off)
  /\ pc \in {"image", "device", "system", "volume", "open", "stat", "read", "close", "closeError"} =>
       DOMAIN mem = {} /\ off = 0

IInv == TypeOK /\ fileLen \in Nat /\ OpenInv /\ ReadInv /\ WalkInv /\ ImageWholeUnlessCut /\ PathIsChain
-----------------------------------------------------------------------------
\* The data of a node, in 16 bits: for a length of 4 or more what follows the header, for
\* a shorter one nearly the whole buffer.
LEMMA DataSizes ==
  ASSUME NEW node \in Nodes
  PROVE  /\ node.len \in Nat /\ DataSize(node.len) \in Nat
         /\ node.len >= 4 => DataSize(node.len) = node.len - 4
         /\ node.len < 4 => DataSize(node.len) = node.len + 65532
<1>1. node.len \in NodeLens \cup {4}
  BY DEF Nodes
<1>2. node.len \in Nat /\ node.len < 65536
  BY <1>1, VolumeAssumptions DEF bufferSize
<1> QED
  BY <1>2 DEF DataSize, Word16

\* The variables keep their types.
LEMMA TypesStep == TypeOK /\ fileLen \in Nat /\ OpenInv /\ ReadInv /\ [Next]_vars => TypeOK' /\ fileLen' \in Nat
<1> SUFFICES ASSUME TypeOK, fileLen \in Nat, OpenInv, ReadInv, [Next]_vars
             PROVE  TypeOK' /\ fileLen' \in Nat
  OBVIOUS
<1> USE DEF TypeOK, None, opened, reading, walking, Goto, Return
<1>1. CASE LoadImage
  <2>1. /\ UNCHANGED <<fileLen, outcome, dirs, files, refused>> /\ pc' = "image"
        /\ size' = 0 /\ got' = 0 /\ off' = 0 /\ cut' = FALSE /\ image' = None /\ calls' = calls + 1
    BY <1>1 DEF LoadImage
  <2>2. image' \in Nat \cup {None} /\ cut' \in BOOLEAN
    BY <2>1, Zenon
  <2>3. size' \in Nat /\ got' \in Nat /\ off' \in Nat /\ calls' \in Nat
    BY <2>1
  <2> QED
    BY <2>1, <2>2, <2>3
<1>2. CASE Protocols
  BY <1>2 DEF Protocols
<1>3. CASE OpenVolume
  BY <1>3 DEF OpenVolume
<1>4. CASE Open
  BY <1>4 DEF Open
<1>5. CASE Stat
  BY <1>5 DEF Stat
<1>6. CASE Read
  <2>1. Free \in Nat
    BY VolumeAssumptions DEF bufferSize
  <2>2. size' \in Nat /\ got' \in Nat /\ cut' \in BOOLEAN /\ pc' \in {"close", "read", "closeError"}
    BY <1>6, <2>1 DEF Read, AtEOF, ReadInv
  <2>3. UNCHANGED <<fileLen, outcome, dirs, files, refused, off, image, calls>>
    BY <1>6 DEF Read
  <2> QED
    BY <2>2, <2>3
<1>7. CASE Close
  BY <1>7 DEF Close, OpenInv
<1>8. CASE Node
  <2>1. /\ UNCHANGED <<fileLen, dirs, files, refused, size, got, cut, image, calls>>
        /\ pc' \in {"idle", "node", "path"} /\ outcome' \in {outcome, "error", "panicked"}
        /\ off' = off \/ \E node \in Nodes : off' = off + 4 + DataSize(node.len)
    BY <1>8 DEF Node
  <2>2. off' \in Nat
    BY <2>1, DataSizes
  <2> QED
    BY <2>1, <2>2
<1>9. CASE FilePath
  BY <1>9 DEF FilePath
<1>10. CASE CallLoadImage
  BY <1>10 DEF CallLoadImage
<1>11. CASE UNCHANGED vars
  BY <1>11 DEF vars
<1> QED
  BY <1>1, <1>2, <1>3, <1>4, <1>5, <1>6, <1>7, <1>8, <1>9, <1>10, <1>11 DEF Next

\* Open files and root directories are counted right.
LEMMA OpenStep == TypeOK /\ OpenInv /\ [Next]_vars => OpenInv'
<1> SUFFICES ASSUME TypeOK, OpenInv, [Next]_vars
             PROVE  OpenInv'
  OBVIOUS
<1> USE DEF TypeOK, OpenInv, opened, reading, walking, Goto, Return
<1>1. CASE LoadImage
  BY <1>1 DEF LoadImage
<1>2. CASE Protocols
  BY <1>2 DEF Protocols
<1>3. CASE OpenVolume
  BY <1>3 DEF OpenVolume
<1>4. CASE Open
  BY <1>4 DEF Open
<1>5. CASE Stat
  BY <1>5 DEF Stat
<1>6. CASE Read
  <2>1. pc = "read" /\ pc' \in {"close", "read", "closeError"} /\ UNCHANGED <<dirs, files, refused, calls>>
    BY <1>6 DEF Read
  <2> QED
    BY <2>1
<1>7. CASE Close
  BY <1>7 DEF Close
<1>8. CASE Node
  <2>1. pc = "node" /\ pc' \in {"idle", "node", "path"} /\ UNCHANGED <<dirs, files, refused, calls>>
    BY <1>8 DEF Node
  <2> QED
    BY <2>1
<1>9. CASE FilePath
  BY <1>9 DEF FilePath
<1>10. CASE CallLoadImage
  BY <1>10 DEF CallLoadImage
<1>11. CASE UNCHANGED vars
  BY <1>11 DEF vars
<1> QED
  BY <1>1, <1>2, <1>3, <1>4, <1>5, <1>6, <1>7, <1>8, <1>9, <1>10, <1>11 DEF Next

\* ReadFile stops at the end of the file, or where a read failed.
LEMMA FileReadStep ==
  TypeOK /\ fileLen \in Nat /\ ReadInv /\ ImageWholeUnlessCut /\ [Next]_vars => ReadInv' /\ ImageWholeUnlessCut'
<1> SUFFICES ASSUME TypeOK, fileLen \in Nat, ReadInv, ImageWholeUnlessCut, [Next]_vars
             PROVE  ReadInv' /\ ImageWholeUnlessCut'
  OBVIOUS
<1> USE DEF TypeOK, None, ReadInv, ImageWholeUnlessCut, opened, reading, walking, Goto, Return
<1>1. CASE LoadImage
  BY <1>1 DEF LoadImage
<1>2. CASE Protocols
  BY <1>2 DEF Protocols
<1>3. CASE OpenVolume
  BY <1>3 DEF OpenVolume
<1>4. CASE Open
  BY <1>4 DEF Open
<1>5. CASE Stat
  BY <1>5 DEF Stat
<1>6. CASE Read
  <2> DEFINE capacity == IF got >= size THEN size + Free ELSE size
             room == capacity - got
             rest == fileLen - got
  <2>1. /\ capacity \in Nat /\ room \in Nat /\ room > 0 /\ rest \in Nat
        /\ pc = "read" /\ got + room = capacity
    <3>1. Free \in Nat /\ Free > 0
      BY VolumeAssumptions DEF bufferSize
    <3>2. pc = "read"
      BY <1>6 DEF Read
    <3>3. got \in Nat /\ size \in Nat /\ got <= size /\ got <= fileLen
      BY <3>2
    <3> QED
      BY <3>1, <3>2, <3>3
  <2>2. PICK failed \in BOOLEAN, taken \in 0..room :
          /\ ~failed => taken = IF rest < room THEN rest ELSE room
          /\ cut' = (cut \/ (failed /\ taken = 0))
          /\ \/ taken = 0 /\ got' = got /\ Goto("close")
             \/ taken # 0 /\ ~failed /\ got' = got + taken /\ Goto("read")
             \/ taken # 0 /\ failed /\ got' = got + taken /\ Goto("closeError")
    BY <1>6 DEF Read, AtEOF
  <2>3. size' = capacity /\ UNCHANGED <<fileLen, image>>
    BY <1>6 DEF Read
  <2>4. ~failed /\ taken = 0 => got = fileLen
    BY <2>1, <2>2
  <2>5. ~failed => got + taken <= fileLen /\ got + taken <= capacity
    BY <2>1, <2>2
  <2>6. size' = capacity /\ capacity > 0
    BY <2>1, <2>3
  <2> HIDE DEF capacity, room, rest
  <2>7. CASE taken = 0
    BY <2>1, <2>2, <2>3, <2>4, <2>7
  <2>8. CASE taken # 0 /\ ~failed
    BY <2>1, <2>2, <2>3, <2>5, <2>6, <2>8
  <2>9. CASE taken # 0 /\ failed
    BY <2>1, <2>2, <2>3, <2>9
  <2> QED
    BY <2>7, <2>8, <2>9
<1>7. CASE Close
  BY <1>7 DEF Close
<1>8. CASE Node
  <2>1. pc = "node" /\ pc' \in {"idle", "node", "path"} /\ UNCHANGED <<fileLen, got, size, cut, image>>
    BY <1>8 DEF Node
  <2>2. pc' # "idle" => outcome' = outcome
    BY <1>8 DEF Node
  <2> QED
    BY <2>1, <2>2
<1>9. CASE FilePath
  BY <1>9 DEF FilePath
<1>10. CASE CallLoadImage
  BY <1>10 DEF CallLoadImage, None
<1>11. CASE UNCHANGED vars
  BY <1>11 DEF vars
<1> QED
  BY <1>1, <1>2, <1>3, <1>4, <1>5, <1>6, <1>7, <1>8, <1>9, <1>10, <1>11 DEF Next

-----------------------------------------------------------------------------
(***************************************************************************)
(* The device path                                                         *)
(***************************************************************************)
\* One node more: a chain to the same offset, if it ends there, and else to the next one.
LEMMA ChainMore ==
  ASSUME NEW m, NEW e \in Nat, NEW node, DOMAIN m \subseteq Nat, e \notin DOMAIN m, ChainTo(m, e),
         NEW m2, DOMAIN m2 = DOMAIN m \cup {e}, m2[e] = node, \A o \in DOMAIN m : m2[o] = m[o]
  PROVE  /\ ChainTo(m2, e)
         /\ ~node.end /\ node.len \in Nat /\ 4 <= node.len /\ node.len <= 255 =>
              e + node.len \notin DOMAIN m2 /\ ChainTo(m2, e + node.len)
<1>1. DOMAIN m2 \ {e} = DOMAIN m /\ DOMAIN m \ {e} = DOMAIN m
  OBVIOUS
<1>2. ASSUME NEW o \in DOMAIN m
      PROVE  /\ o \in Nat /\ o < e /\ ~m2[o].end /\ m2[o].len \in Nat
             /\ 4 <= m2[o].len /\ m2[o].len <= 255
             /\ o + m2[o].len \in DOMAIN m \cup {e} /\ o + m2[o].len <= e
  BY <1>1, <1>2 DEF ChainTo, Leads
<1>3. ChainTo(m2, e)
  <2>1. \A o \in DOMAIN m2 \ {e} : Leads(m2, o, e)
    BY <1>1, <1>2 DEF Leads
  <2>2. e = 0 <=> DOMAIN m2 \ {e} = {}
    BY <1>1 DEF ChainTo
  <2>3. e # 0 => 0 \in DOMAIN m2 /\ \E o \in DOMAIN m2 \ {e} : o + m2[o].len = e
    BY <1>1 DEF ChainTo
  <2> QED
    BY <2>1, <2>2, <2>3 DEF ChainTo
<1>4. ASSUME ~node.end /\ node.len \in Nat /\ 4 <= node.len /\ node.len <= 255
      PROVE  e + node.len \notin DOMAIN m2 /\ ChainTo(m2, e + node.len)
  <2> DEFINE next == e + node.len
  <2>1. next \in Nat /\ e < next
    BY <1>4
  <2>2. \A o \in DOMAIN m2 : o < next
    BY <1>2, <2>1
  <2>3. next \notin DOMAIN m2 /\ DOMAIN m2 \ {next} = DOMAIN m2 /\ DOMAIN m2 # {} /\ next # 0
    BY <2>1, <2>2
  <2>4. Leads(m2, e, next)
    BY <1>4, <2>1 DEF Leads
  <2>5. \A o \in DOMAIN m : Leads(m2, o, next)
    BY <1>2, <1>4, <2>1 DEF Leads
  <2>6. \E o \in DOMAIN m2 \ {next} : o + m2[o].len = next
    BY <2>3
  <2>7. 0 \in DOMAIN m2
    BY DEF ChainTo
  <2> HIDE DEF next
  <2>8. ChainTo(m2, next)
    BY <2>3, <2>4, <2>5, <2>6, <2>7 DEF ChainTo
  <2> QED
    BY <2>3, <2>8 DEF next
<1> QED
  BY <1>3, <1>4

\* The walk goes over a chain, and no further than its depth lets it.
LEMMA WalkStep == TypeOK /\ WalkInv /\ [Next]_vars => WalkInv'
<1> SUFFICES ASSUME TypeOK, WalkInv, [Next]_vars
             PROVE  WalkInv'
  OBVIOUS
<1> DEFINE before == {"image", "device", "system", "volume", "open", "stat", "read", "close", "closeError"}
<1>1. off \in Nat /\ MaxDepth \in Nat /\ 255 * MaxDepth >= 0
  BY VolumeAssumptions DEF TypeOK, bufferSize
<1>2. CASE LoadImage
  <2>1. DOMAIN mem' = {} /\ off' = 0 /\ pc' = "image"
    BY <1>2 DEF LoadImage, NoNodes, Goto
  <2> QED
    BY <1>1, <2>1, FS_EmptySet DEF WalkInv
<1>3. CASE Protocols \/ OpenVolume \/ Open \/ Stat \/ Read \/ Close
  <2>1. mem' = mem /\ off' = off
    BY <1>3 DEF Protocols, OpenVolume, Open, Stat, Read, Close, walking
  <2>2. pc \in before /\ pc' \in before \cup {"idle", "node"}
    BY <1>3 DEF Protocols, OpenVolume, Open, Stat, Read, Close, Goto, Return
  <2>3. DOMAIN mem = {} /\ off = 0
    BY <2>2 DEF WalkInv
  <2>4. ChainTo(mem, off) /\ off \notin DOMAIN mem /\ off <= 255 * Cardinality(DOMAIN mem)
    BY <2>3, FS_EmptySet DEF ChainTo
  <2> QED
    BY <2>1, <2>2, <2>3, <2>4 DEF WalkInv
<1>4. CASE FilePath \/ CallLoadImage
  BY <1>4 DEF FilePath, CallLoadImage, walking, WalkInv, Goto, Return
<1>5. CASE Node
  <2>1. CASE Return("error") /\ UNCHANGED <<mem, off>>
    BY <2>1 DEF WalkInv, Return
  <2>2. ASSUME Cardinality(DOMAIN mem) < MaxDepth, NEW node \in Nodes,
               mem' = Put(mem, off, node),
               \/ off' = off /\ pc' = "idle"
               \/ off' = off /\ pc' = "path" /\ node.end
               \/ /\ pc' = "node" /\ ~node.end /\ ~BadLength(node.len) /\ ~SlicePanics(node.len)
                  /\ off' = off + 4 + DataSize(node.len)
        PROVE  WalkInv'
    <3>1. pc = "node" /\ off \notin DOMAIN mem /\ ChainTo(mem, off)
          /\ off <= 255 * Cardinality(DOMAIN mem)
      BY <1>5 DEF Node, WalkInv
    <3>2. /\ DOMAIN mem' = DOMAIN mem \cup {off} /\ mem'[off] = node
          /\ \A x \in DOMAIN mem : mem'[x] = mem[x]
      <4>1. /\ DOMAIN Put(mem, off, node) = DOMAIN mem \cup {off} /\ Put(mem, off, node)[off] = node
            /\ \A x \in DOMAIN mem \ {off} : Put(mem, off, node)[x] = mem[x]
        BY DEF Put
      <4> QED
        BY <2>2, <3>1, <4>1
    <3>3. IsFiniteSet(DOMAIN mem) /\ Cardinality(DOMAIN mem) \in Nat
      BY FS_CardinalityType DEF WalkInv
    <3>4. IsFiniteSet(DOMAIN mem') /\ Cardinality(DOMAIN mem') = Cardinality(DOMAIN mem) + 1
      BY <3>1, <3>2, <3>3, FS_AddElement
    <3>5. DOMAIN mem' \subseteq Nat /\ Cardinality(DOMAIN mem') <= MaxDepth
      BY <1>1, <2>2, <3>2, <3>3, <3>4 DEF WalkInv
    <3>6. /\ ChainTo(mem', off)
          /\ ~node.end /\ node.len \in Nat /\ 4 <= node.len /\ node.len <= 255 =>
               off + node.len \notin DOMAIN mem' /\ ChainTo(mem', off + node.len)
      BY <1>1, <3>1, <3>2, ChainMore DEF WalkInv
    <3>7. CASE off' = off /\ pc' \in {"idle", "path"}
      BY <2>2, <3>2, <3>4, <3>5, <3>6, <3>7 DEF WalkInv
    <3>8. CASE /\ pc' = "node" /\ ~node.end /\ ~BadLength(node.len) /\ ~SlicePanics(node.len)
               /\ off' = off + 4 + DataSize(node.len)
      <4>1. node.len \in Nat /\ 1 <= node.len /\ node.len <= 255
        BY <3>8, DataSizes DEF BadLength
      <4>2. 4 <= node.len /\ off' = off + node.len
        BY <1>1, <3>8, <4>1, DataSizes DEF SlicePanics, bufferSize
      <4>3. off' <= 255 * Cardinality(DOMAIN mem') /\ off' <= 255 * MaxDepth
        BY <1>1, <3>1, <3>3, <3>4, <3>5, <4>1, <4>2
      <4> QED
        BY <3>4, <3>5, <3>6, <3>8, <4>1, <4>2, <4>3 DEF WalkInv
    <3> QED
      BY <2>2, <3>7, <3>8
  <2> QED
    BY <1>5, <2>1, <2>2 DEF Node, Goto, Return
<1>6. CASE UNCHANGED vars
  BY <1>6 DEF vars, WalkInv
<1> QED
  BY <1>2, <1>3, <1>4, <1>5, <1>6 DEF Next

\* FilePath appends to a chain: what it hands on is one, and has one end.
LEMMA PathMade ==
  ASSUME TypeOK, WalkInv, FilePath
  PROVE  /\ 0 \in DOMAIN desc'
         /\ Cardinality({o \in DOMAIN desc' : desc'[o].end}) = 1
         /\ \A o \in DOMAIN desc' : desc'[o].end \/ o + desc'[o].len \in DOMAIN desc'
         /\ \A o \in DOMAIN mem : ~mem[o].end => o \in DOMAIN desc' /\ desc'[o] = mem[o]
<1>1. pc = "path" /\ off \in DOMAIN mem /\ mem[off].end /\ ChainTo(mem, off) /\ DOMAIN mem \subseteq Nat
      /\ off \in Nat /\ NameBytes \in Nat
  BY VolumeAssumptions DEF FilePath, WalkInv, TypeOK, bufferSize
<1>2. Copied = DOMAIN mem \ {off}
  BY <1>1 DEF Copied, ChainTo, Leads
<1> DEFINE fileAt == IF Copied = {} THEN 0
                     ELSE CHOOSE e \in {o + mem[o].len : o \in Copied} :
                            \A o \in Copied : o + mem[o].len <= e
           endAt == off + 4 + NameBytes
           fileNode == [end |-> FALSE, len |-> Word16(4 + NameBytes)]
           endNode == [end |-> TRUE, len |-> 4]
           nodes0 == [o \in Copied |-> mem[o]]
           withFile == Put(nodes0, off, fileNode)
<1>3. fileAt = off
  <2>1. CASE Copied = {}
    BY <1>1, <1>2, <2>1 DEF ChainTo
  <2>2. CASE Copied # {}
    <3> DEFINE ends == {o + mem[o].len : o \in Copied}
    <3>1. off # 0
      BY <1>1, <1>2, <2>2 DEF ChainTo
    <3>2. off \in ends
      BY <1>1, <1>2, <3>1 DEF ChainTo
    <3>3. \A o \in Copied : o + mem[o].len <= off
      BY <1>1, <1>2 DEF ChainTo, Leads
    <3>4. ends \subseteq Nat
      BY <1>1, <1>2 DEF ChainTo, Leads
    <3> DEFINE IsLast(e) == \A o \in Copied : o + mem[o].len <= e
    <3>5. \A e \in ends : IsLast(e) => e = off
      <4> SUFFICES ASSUME NEW e \in ends, IsLast(e)
                   PROVE  e = off
        OBVIOUS
      <4>1. e <= off
        BY <3>3
      <4>2. off <= e
        BY <3>2
      <4> QED
        BY <1>1, <3>4, <4>1, <4>2
    <3>6. IsLast(off)
      BY <3>3
    <3> HIDE DEF ends, IsLast
    <3>7. (CHOOSE e \in ends : IsLast(e)) = off
      BY <3>2, <3>5, <3>6
    <3> QED
      BY <2>2, <3>7 DEF ends, IsLast
  <2> QED
    BY <2>1, <2>2
<1>4. desc' = Put(withFile, endAt, endNode)
  <2>1. desc' = Put(Put(nodes0, fileAt, fileNode), fileAt + 4 + NameBytes, endNode)
    BY Zenon DEF FilePath
  <2> HIDE DEF fileAt, nodes0, fileNode, endNode
  <2> QED
    BY <1>3, <2>1
<1>5. fileNode.len = 4 + NameBytes /\ ~fileNode.end /\ endNode.end
  BY <1>1, VolumeAssumptions DEF bufferSize, Word16
<1>6. endAt \in Nat /\ off < endAt /\ endAt \notin DOMAIN mem
  BY <1>1 DEF ChainTo, Leads
<1>7. DOMAIN nodes0 = Copied /\ \A o \in Copied : nodes0[o] = mem[o]
  OBVIOUS
<1> HIDE DEF endAt, fileNode, endNode, nodes0
<1>8. /\ DOMAIN withFile = Copied \cup {off} /\ withFile[off] = fileNode
      /\ \A o \in Copied : withFile[o] = mem[o]
  <2>1. /\ DOMAIN withFile = DOMAIN nodes0 \cup {off} /\ withFile[off] = fileNode
        /\ \A o \in DOMAIN nodes0 \ {off} : withFile[o] = nodes0[o]
    BY DEF Put
  <2> HIDE DEF withFile
  <2> QED
    BY <1>2, <1>7, <2>1
<1> HIDE DEF withFile
<1>9. /\ DOMAIN desc' = DOMAIN mem \cup {endAt} /\ desc'[endAt] = endNode /\ desc'[off] = fileNode
      /\ \A o \in DOMAIN mem \ {off} : desc'[o] = mem[o]
  <2> DEFINE new == Put(withFile, endAt, endNode)
  <2>1. /\ DOMAIN new = DOMAIN withFile \cup {endAt} /\ new[endAt] = endNode
        /\ \A o \in DOMAIN withFile \ {endAt} : new[o] = withFile[o]
    BY DEF Put
  <2>2. desc' = new
    BY <1>4
  <2> HIDE DEF new
  <2>3. DOMAIN withFile = DOMAIN mem /\ endAt \notin DOMAIN withFile
    BY <1>1, <1>2, <1>6, <1>8
  <2> QED
    BY <1>1, <1>2, <1>8, <2>1, <2>2, <2>3
<1>10. 0 \in DOMAIN desc'
  BY <1>1, <1>9 DEF ChainTo
<1>11. {o \in DOMAIN desc' : desc'[o].end} = {endAt}
  <2>1. \A o \in DOMAIN mem \ {off} : ~desc'[o].end
    BY <1>1, <1>9 DEF ChainTo, Leads
  <2> QED
    BY <1>1, <1>5, <1>6, <1>9, <2>1
<1>12. \A o \in DOMAIN desc' : desc'[o].end \/ o + desc'[o].len \in DOMAIN desc'
  <2>1. \A o \in DOMAIN mem \ {off} : o + desc'[o].len \in DOMAIN mem
    BY <1>1, <1>9 DEF ChainTo, Leads
  <2>2. off + desc'[off].len = endAt
    BY <1>1, <1>5, <1>9 DEF endAt
  <2> QED
    BY <1>5, <1>9, <2>1, <2>2
<1>13. \A o \in DOMAIN mem : ~mem[o].end => o \in DOMAIN desc' /\ desc'[o] = mem[o]
  BY <1>1, <1>9
<1> QED
  BY <1>10, <1>11, <1>12, <1>13, FS_Singleton

\* The path that is handed on stays as it is made, and a walk that panics is at a node that
\* is shorter than its header.
LEMMA PathStep ==
  TypeOK /\ TypeOK' /\ ReadInv /\ WalkInv /\ WalkInv' /\ PathIsChain /\ [Next]_vars => PathIsChain'
<1> SUFFICES ASSUME TypeOK, TypeOK', ReadInv, WalkInv, WalkInv', PathIsChain, [Next]_vars
             PROVE  PathIsChain'
  OBVIOUS
<1>1. off' + 4 <= bufferSize
  <2>1. PICK o \in Nat : o = off'
    BY DEF TypeOK
  <2>2. o <= 255 * MaxDepth
    BY <2>1 DEF WalkInv
  <2>3. MaxDepth \in Nat /\ 255 * MaxDepth + 4 <= 65536
    BY VolumeAssumptions DEF bufferSize
  <2>4. o + 4 <= bufferSize
    BY <2>2, <2>3 DEF bufferSize
  <2> QED
    BY <2>1, <2>4, Zenon
<1>2. outcome' = "panicked" => got' = 0 \/ (off' \in DOMAIN mem' /\ mem'[off'].len \in 1..3)
  <2>1. CASE Node
    <3>1. outcome # "panicked" /\ pc = "node"
      BY <2>1 DEF Node, ReadInv
    <3>2. ASSUME NEW node \in Nodes, mem' = Put(mem, off, node), off' = off,
                 ~BadLength(node.len), SlicePanics(node.len),
                 Cardinality(DOMAIN mem) < MaxDepth
          PROVE  off' \in DOMAIN mem' /\ mem'[off'].len \in 1..3
      <4>1. off \in DOMAIN Put(mem, off, node) /\ Put(mem, off, node)[off] = node
        BY DEF Put
      <4>2. node.len \in Nat /\ 1 <= node.len /\ node.len <= 255
        BY <3>2, DataSizes DEF BadLength
      <4>3. off <= 255 * Cardinality(DOMAIN mem) /\ Cardinality(DOMAIN mem) \in Nat
        BY <3>1, FS_CardinalityType DEF WalkInv
      <4>4. off \in Nat /\ MaxDepth \in Nat /\ 255 * MaxDepth + 4 <= 65536
        BY VolumeAssumptions DEF TypeOK, bufferSize
      <4>5. node.len < 4
        <5> SUFFICES ASSUME node.len >= 4
                     PROVE  FALSE
          BY <4>2
        <5>1. off + node.len > 65536
          BY <3>2, <4>2, <4>4, DataSizes DEF SlicePanics, bufferSize
        <5> QED
          BY <3>2, <4>2, <4>3, <4>4, <5>1
      <4>6. node.len \in 1..3
        BY <4>2, <4>5
      <4> QED
        BY <3>2, <4>1, <4>6
    <3> QED
      BY <2>1, <3>1, <3>2 DEF Node, Goto, Return
  <2>2. CASE CallLoadImage
    BY <2>2 DEF CallLoadImage, Return, reading
  <2>3. CASE ~Node /\ ~CallLoadImage
    <3>1. CASE outcome = "panicked"
      <4>1. pc = "idle"
        BY <3>1 DEF ReadInv
      <4>2. UNCHANGED vars
        BY <2>3, <3>1, <4>1 DEF Next, LoadImage, Protocols, OpenVolume, Open, Stat, Read, Close, FilePath
      <4> QED
        BY <3>1, <4>2 DEF vars, PathIsChain
    <3>2. CASE outcome # "panicked"
      BY <2>3, <3>2
         DEF Next, vars, LoadImage, Protocols, OpenVolume, Open, Stat, Read, Close, FilePath, Goto, Return
    <3> QED
      BY <3>1, <3>2
  <2> QED
    BY <2>1, <2>2, <2>3
<1>3. CASE FilePath
  <2>1. mem' = mem
    BY <1>3 DEF FilePath
  <2> QED
    BY <1>1, <1>2, <1>3, <2>1, PathMade DEF PathIsChain
<1>4. CASE pc' # "load"
  BY <1>1, <1>2, <1>4 DEF PathIsChain
<1>5. CASE UNCHANGED vars
  BY <1>5 DEF PathIsChain, vars
<1>6. CASE ~FilePath /\ Next
  <2>1. pc' # "load"
    BY <1>6 DEF Next, LoadImage, Protocols, OpenVolume, Open, Stat, Read, Close, Node, CallLoadImage, Goto, Return
  <2> QED
    BY <1>4, <2>1
<1> QED
  BY <1>3, <1>5, <1>6

\* The first call finds nothing open and nothing read.
LEMMA InitIInv == Init => IInv
<1> SUFFICES ASSUME Init
             PROVE  IInv
  OBVIOUS
<1>1. DOMAIN mem = {} /\ off = 0 /\ pc = "idle" /\ outcome = "none"
  BY DEF Init, NoNodes
<1>2. MaxDepth \in Nat /\ 255 * MaxDepth >= 0
  BY VolumeAssumptions DEF bufferSize
<1>3. WalkInv
  BY <1>1, <1>2, FS_EmptySet DEF WalkInv
<1>4. PathIsChain
  BY <1>1 DEF PathIsChain, bufferSize
<1>5. fileLen \in Nat
  BY VolumeAssumptions DEF Init, bufferSize
<1>6. TypeOK
  <2>1. image \in Nat \cup {None} /\ cut \in BOOLEAN
    BY Zenon DEF Init
  <2> QED
    BY <2>1 DEF Init, TypeOK
<1>7. OpenInv /\ ReadInv /\ ImageWholeUnlessCut
  BY DEF Init, OpenInv, ReadInv, ImageWholeUnlessCut
<1> QED
  BY <1>3, <1>4, <1>5, <1>6, <1>7 DEF IInv

-----------------------------------------------------------------------------
\* The inductive invariant of LoadImage, over any number of calls.
THEOREM Invariance == Spec => []IInv
<1>1. IInv /\ [Next]_vars => IInv'
  <2> SUFFICES ASSUME IInv, [Next]_vars
               PROVE  IInv'
    OBVIOUS
  <2>1. TypeOK' /\ fileLen' \in Nat /\ OpenInv' /\ WalkInv'
    BY TypesStep, OpenStep, WalkStep DEF IInv
  <2>2. ReadInv' /\ ImageWholeUnlessCut' /\ PathIsChain'
    BY <2>1, FileReadStep, PathStep DEF IInv
  <2> QED
    BY <2>1, <2>2 DEF IInv
<1> QED
  BY <1>1, InitIInv, PTL DEF Spec

\* For files of every length and every growth of the slice: the image that the firmware is
\* given is the whole file, unless a firmware read failed with no byte (file.go, read).
THEOREM ImageIsWholeUnlessCut == Spec => []ImageWholeUnlessCut
BY Invariance, PTL DEF IInv

\* For any number of calls: every call closes its file, however it ends, except one of unknown
\* revision, and leaves at most one root directory open (file.go, fs.go).
THEOREM FilesAreClosed == Spec => []FilesClosed
<1>1. IInv => FilesClosed
  BY DEF IInv, OpenInv, FilesClosed
<1> QED
  BY <1>1, Invariance, PTL

\* For every device path in the firmware's memory: what FilePath hands on is a chain of nodes
\* with one end, and the walk stays in its buffer (path.go).
THEOREM PathIsAChain == Spec => []PathIsChain
BY Invariance, PTL DEF IInv

(***************************************************************************)
(* The console: Read, for every sequence of keys, errors and pauses, and   *)
(* every size of the shell's buffer that is a number of whole units.       *)
(***************************************************************************)
\* The two bytes of a unit.
LEMMA BytesOfUnit ==
  ASSUME NEW u \in Nat
  PROVE  /\ Bytes(u) \in Seq(Nat) /\ Len(Bytes(u)) = 2
         /\ Bytes(u)[1] = u % 256 /\ Bytes(u)[2] = u \div 256
BY DEF Bytes

\* Pairs is a sequence of bytes, two of each code.
LEMMA PairsOf ==
  ASSUME NEW s \in Seq(Nat)
  PROVE  /\ Pairs(s) \in Seq(Nat) /\ Len(Pairs(s)) = 2 * Len(s)
         /\ \A j \in 1..Len(s) : /\ Pairs(s)[2 * j - 1] = Bytes(s[j])[1]
                                 /\ Pairs(s)[2 * j] = Bytes(s[j])[2]
<1>1. ASSUME NEW i \in 1..2 * Len(s)
      PROVE  /\ (i + 1) \div 2 \in 1..Len(s)
             /\ 2 - (i % 2) \in 1..2
             /\ Bytes(s[(i + 1) \div 2])[2 - (i % 2)] \in Nat
  <2>1. (i + 1) \div 2 \in 1..Len(s) /\ 2 - (i % 2) \in 1..2
    OBVIOUS
  <2>2. s[(i + 1) \div 2] \in Nat
    BY <2>1
  <2>3. \A u \in Nat : Bytes(u)[1] \in Nat /\ Bytes(u)[2] \in Nat
    <3> TAKE u \in Nat
    <3>1. u % 256 \in Nat /\ u \div 256 \in Nat
      OBVIOUS
    <3> QED BY <3>1, BytesOfUnit
  <2> QED BY <2>1, <2>2, <2>3
<1>2. Pairs(s) \in Seq(Nat) /\ Len(Pairs(s)) = 2 * Len(s)
  <2>1. Pairs(s) \in [1..2 * Len(s) -> Nat]
    BY <1>1 DEF Pairs
  <2>2. 2 * Len(s) \in Nat
    OBVIOUS
  <2> QED BY <2>1, <2>2, IsASeq, LenProperties
<1>3. ASSUME NEW j \in 1..Len(s)
      PROVE  /\ Pairs(s)[2 * j - 1] = Bytes(s[j])[1]
             /\ Pairs(s)[2 * j] = Bytes(s[j])[2]
  <2>1. /\ 2 * j - 1 \in 1..2 * Len(s) /\ 2 * j \in 1..2 * Len(s)
        /\ ((2 * j - 1) + 1) \div 2 = j /\ (2 * j + 1) \div 2 = j
        /\ 2 - ((2 * j - 1) % 2) = 1 /\ 2 - ((2 * j) % 2) = 2
    OBVIOUS
  <2> QED BY <2>1, Zenon DEF Pairs
<1> QED BY <1>2, <1>3

\* What is where in a concatenation.
LEMMA ConcatParts ==
  ASSUME NEW x \in Seq(Nat), NEW y \in Seq(Nat)
  PROVE  /\ x \o y \in Seq(Nat) /\ Len(x \o y) = Len(x) + Len(y)
         /\ \A i \in 1..Len(x) : (x \o y)[i] = x[i]
         /\ \A i \in 1..Len(y) : (x \o y)[Len(x) + i] = y[i]
BY ConcatProperties

\* Concatenation is associative.
LEMMA ConcatAssoc ==
  ASSUME NEW x \in Seq(Nat), NEW y \in Seq(Nat), NEW z \in Seq(Nat)
  PROVE  (x \o y) \o z = x \o (y \o z)
OBVIOUS

\* One more code is two more bytes, at the end.
LEMMA PairsAppend ==
  ASSUME NEW s \in Seq(Nat), NEW c \in Nat
  PROVE  Pairs(Append(s, c)) = Pairs(s) \o Bytes(c)
<1> DEFINE a == Pairs(Append(s, c))
           b == Pairs(s) \o Bytes(c)
<1>1. /\ Append(s, c) \in Seq(Nat) /\ Len(Append(s, c)) = Len(s) + 1 /\ Len(s) \in Nat
      /\ \A j \in 1..Len(s) : Append(s, c)[j] = s[j]
      /\ Append(s, c)[Len(s) + 1] = c
  BY AppendProperties
<1>2. /\ a \in Seq(Nat) /\ Len(a) = 2 * (Len(s) + 1)
      /\ \A j \in 1..Len(s) + 1 : /\ a[2 * j - 1] = Bytes(Append(s, c)[j])[1]
                                  /\ a[2 * j] = Bytes(Append(s, c)[j])[2]
  BY <1>1, PairsOf
<1>3. /\ Pairs(s) \in Seq(Nat) /\ Len(Pairs(s)) = 2 * Len(s)
      /\ \A j \in 1..Len(s) : /\ Pairs(s)[2 * j - 1] = Bytes(s[j])[1]
                              /\ Pairs(s)[2 * j] = Bytes(s[j])[2]
  BY PairsOf
<1>4. Bytes(c) \in Seq(Nat) /\ Len(Bytes(c)) = 2
  BY BytesOfUnit
<1>5. /\ b \in Seq(Nat) /\ Len(b) = 2 * Len(s) + 2
      /\ \A i \in 1..2 * Len(s) : b[i] = Pairs(s)[i]
      /\ b[2 * Len(s) + 1] = Bytes(c)[1] /\ b[2 * Len(s) + 2] = Bytes(c)[2]
  <2> DEFINE x == Pairs(s)
             y == Bytes(c)
  <2>1. x \in Seq(Nat) /\ Len(x) = 2 * Len(s) /\ y \in Seq(Nat) /\ Len(y) = 2
    BY <1>3, <1>4
  <2> HIDE DEF x, y
  <2>2. /\ x \o y \in Seq(Nat) /\ Len(x \o y) = 2 * Len(s) + 2
        /\ \A i \in 1..2 * Len(s) : (x \o y)[i] = x[i]
        /\ (x \o y)[2 * Len(s) + 1] = y[1] /\ (x \o y)[2 * Len(s) + 2] = y[2]
    <3>1. /\ x \o y \in Seq(Nat) /\ Len(x \o y) = Len(x) + Len(y)
          /\ \A i \in 1..Len(x) : (x \o y)[i] = x[i]
          /\ \A i \in 1..Len(y) : (x \o y)[Len(x) + i] = y[i]
      BY <2>1, ConcatParts, Zenon
    <3>2. 1 \in 1..Len(y) /\ 2 \in 1..Len(y)
      BY <2>1
    <3> QED BY <2>1, <3>1, <3>2, Zenon
  <2> QED BY <2>2 DEF x, y
<1> HIDE DEF a, b
<1>6. ASSUME NEW i \in 1..2 * Len(s) + 2
      PROVE  a[i] = b[i]
  <2>1. PICK j \in 1..Len(s) + 1 : i = 2 * j - 1 \/ i = 2 * j
    <3>1. (i + 1) \div 2 \in 1..Len(s) + 1
      BY <1>1
    <3>2. i = 2 * ((i + 1) \div 2) - 1 \/ i = 2 * ((i + 1) \div 2)
      BY <1>1
    <3> QED BY <3>1, <3>2
  <2>2. CASE j = Len(s) + 1
    <3>1. a[2 * j - 1] = Bytes(c)[1] /\ a[2 * j] = Bytes(c)[2]
      BY <1>1, <1>2, <2>2, Zenon
    <3>2. 2 * j - 1 = 2 * Len(s) + 1 /\ 2 * j = 2 * Len(s) + 2
      BY <1>1, <2>2
    <3> QED BY <1>5, <2>1, <3>1, <3>2, Zenon
  <2>3. CASE j # Len(s) + 1
    <3>1. j \in 1..Len(s) /\ 2 * j - 1 \in 1..2 * Len(s) /\ 2 * j \in 1..2 * Len(s)
      BY <1>1, <2>3
    <3>2. a[2 * j - 1] = Bytes(s[j])[1] /\ a[2 * j] = Bytes(s[j])[2]
      BY <1>1, <1>2, <3>1, Zenon
    <3>3. b[2 * j - 1] = Bytes(s[j])[1] /\ b[2 * j] = Bytes(s[j])[2]
      BY <1>3, <1>5, <3>1, Zenon
    <3> QED BY <2>1, <3>2, <3>3, Zenon
  <2> QED BY <2>2, <2>3
<1>7. a = b
  <2>1. Len(a) = Len(b) /\ Len(a) = 2 * Len(s) + 2
    BY <1>1, <1>2, <1>5
  <2> QED BY <1>2, <1>5, <1>6, <2>1, SeqEqual, Zenon
<1> QED BY <1>7 DEF a, b

\* The first two bytes are those of the first code.
LEMMA PairsHead ==
  ASSUME NEW s \in Seq(Nat), s # <<>>
  PROVE  Pairs(s) = Bytes(Head(s)) \o Pairs(Tail(s))
<1> DEFINE t == Tail(s)
           a == Pairs(s)
           b == Bytes(Head(s)) \o Pairs(t)
<1>1. /\ t \in Seq(Nat) /\ Len(s) \in Nat /\ Len(s) > 0 /\ Len(t) = Len(s) - 1
      /\ Head(s) = s[1] /\ Head(s) \in Nat
      /\ \A j \in 1..Len(s) - 1 : t[j] = s[j + 1]
  BY HeadTailProperties, EmptySeq
<1>2. /\ a \in Seq(Nat) /\ Len(a) = 2 * Len(s)
      /\ \A j \in 1..Len(s) : /\ a[2 * j - 1] = Bytes(s[j])[1]
                              /\ a[2 * j] = Bytes(s[j])[2]
  BY <1>1, PairsOf
<1>3. /\ Pairs(t) \in Seq(Nat) /\ Len(Pairs(t)) = 2 * Len(t)
      /\ \A j \in 1..Len(t) : /\ Pairs(t)[2 * j - 1] = Bytes(t[j])[1]
                              /\ Pairs(t)[2 * j] = Bytes(t[j])[2]
  <2> HIDE DEF t
  <2> QED BY <1>1, PairsOf
<1>4. Bytes(Head(s)) \in Seq(Nat) /\ Len(Bytes(Head(s))) = 2
  BY <1>1, BytesOfUnit
<1> HIDE DEF t
<1>5. /\ b \in Seq(Nat) /\ Len(b) = 2 * Len(s)
      /\ b[1] = Bytes(s[1])[1] /\ b[2] = Bytes(s[1])[2]
      /\ \A i \in 1..2 * Len(t) : b[i + 2] = Pairs(t)[i]
  <2> DEFINE x == Bytes(Head(s))
             y == Pairs(t)
  <2>1. x \in Seq(Nat) /\ Len(x) = 2 /\ y \in Seq(Nat) /\ Len(y) = 2 * Len(t)
    BY <1>3, <1>4
  <2> HIDE DEF x, y
  <2>2. /\ x \o y \in Seq(Nat) /\ Len(x \o y) = 2 + 2 * Len(t)
        /\ (x \o y)[1] = x[1] /\ (x \o y)[2] = x[2]
        /\ \A i \in 1..2 * Len(t) : (x \o y)[2 + i] = y[i]
    <3>1. /\ x \o y \in Seq(Nat) /\ Len(x \o y) = Len(x) + Len(y)
          /\ \A i \in 1..Len(x) : (x \o y)[i] = x[i]
          /\ \A i \in 1..Len(y) : (x \o y)[Len(x) + i] = y[i]
      BY <2>1, ConcatParts, Zenon
    <3>2. 1 \in 1..Len(x) /\ 2 \in 1..Len(x)
      BY <2>1
    <3> QED BY <2>1, <3>1, <3>2, Zenon
  <2>3. 2 + 2 * Len(t) = 2 * Len(s) /\ \A i \in 1..2 * Len(t) : i + 2 = 2 + i
    BY <1>1
  <2> QED BY <1>1, <2>2, <2>3 DEF x, y
<1> HIDE DEF a, b
<1>6. ASSUME NEW i \in 1..2 * Len(s)
      PROVE  a[i] = b[i]
  <2>1. PICK j \in 1..Len(s) : i = 2 * j - 1 \/ i = 2 * j
    <3>1. (i + 1) \div 2 \in 1..Len(s)
      BY <1>1
    <3>2. i = 2 * ((i + 1) \div 2) - 1 \/ i = 2 * ((i + 1) \div 2)
      BY <1>1
    <3> QED BY <3>1, <3>2
  <2>2. CASE j = 1
    <3>1. 2 * j - 1 = 1 /\ 2 * j = 2
      BY <2>2
    <3> QED BY <1>2, <1>5, <2>1, <2>2, <3>1, Zenon
  <2>3. CASE j # 1
    <3>1. PICK k \in 1..Len(t) : j = k + 1
      BY <1>1, <2>3
    <3>2. /\ 2 * k - 1 \in 1..2 * Len(t) /\ 2 * k \in 1..2 * Len(t)
          /\ 2 * j - 1 = (2 * k - 1) + 2 /\ 2 * j = 2 * k + 2
      BY <1>1, <3>1
    <3>3. b[2 * j - 1] = Pairs(t)[2 * k - 1] /\ b[2 * j] = Pairs(t)[2 * k]
      BY <1>5, <3>2
    <3>4. t[k] = s[j]
      BY <1>1, <3>1
    <3> QED BY <1>2, <1>3, <2>1, <3>1, <3>3, <3>4
  <2> QED BY <2>2, <2>3
<1>7. a = b
  BY <1>1, <1>2, <1>5, <1>6, SeqEqual
<1> QED BY <1>7 DEF a, b, t

\* The code of a key is a number.
LEMMA CodeIsNat ==
  ASSUME KeyParameters, NEW k \in Keys
  PROVE  Code(k) \in Nat
BY DEF KeyParameters, Code

\* The codes of keys, one of each.
LEMMA CodesOf ==
  ASSUME KeyParameters, NEW ks \in Seq(Keys)
  PROVE  /\ Codes(ks) \in Seq(Nat) /\ Len(Codes(ks)) = Len(ks)
         /\ \A i \in 1..Len(ks) : Codes(ks)[i] = Code(ks[i])
<1>1. \A i \in 1..Len(ks) : Code(ks[i]) \in Nat
  BY CodeIsNat
<1>2. Codes(ks) \in [1..Len(ks) -> Nat]
  BY <1>1 DEF Codes
<1>3. Len(ks) \in Nat
  OBVIOUS
<1>4. Codes(ks) \in Seq(Nat) /\ Len(Codes(ks)) = Len(ks)
  BY <1>2, <1>3, IsASeq, LenProperties
<1> QED BY <1>4, Zenon DEF Codes

\* A key more is a code more.
LEMMA CodesAppend ==
  ASSUME KeyParameters, NEW ks \in Seq(Keys), NEW k \in Keys
  PROVE  Codes(Append(ks, k)) = Append(Codes(ks), Code(k))
<1> DEFINE a == Codes(Append(ks, k))
           b == Append(Codes(ks), Code(k))
<1>1. /\ Append(ks, k) \in Seq(Keys) /\ Len(Append(ks, k)) = Len(ks) + 1 /\ Len(ks) \in Nat
      /\ \A i \in 1..Len(ks) : Append(ks, k)[i] = ks[i]
      /\ Append(ks, k)[Len(ks) + 1] = k
  BY AppendProperties
<1>2. /\ a \in Seq(Nat) /\ Len(a) = Len(ks) + 1
      /\ \A i \in 1..Len(ks) + 1 : a[i] = Code(Append(ks, k)[i])
  BY <1>1, CodesOf
<1>3. /\ Codes(ks) \in Seq(Nat) /\ Len(Codes(ks)) = Len(ks)
      /\ \A i \in 1..Len(ks) : Codes(ks)[i] = Code(ks[i])
  BY CodesOf
<1>4. /\ b \in Seq(Nat) /\ Len(b) = Len(ks) + 1
      /\ \A i \in 1..Len(ks) : b[i] = Codes(ks)[i]
      /\ b[Len(ks) + 1] = Code(k)
  <2> DEFINE x == Codes(ks)
             c == Code(k)
  <2>1. x \in Seq(Nat) /\ Len(x) = Len(ks) /\ c \in Nat
    BY <1>3, CodeIsNat
  <2> HIDE DEF x, c
  <2>2. /\ Append(x, c) \in Seq(Nat) /\ Len(Append(x, c)) = Len(x) + 1
        /\ \A i \in 1..Len(x) : Append(x, c)[i] = x[i]
        /\ Append(x, c)[Len(x) + 1] = c
    BY <2>1, AppendProperties
  <2> QED BY <2>1, <2>2, Zenon DEF x, c
<1> HIDE DEF a, b
<1>5. \A i \in 1..Len(a) : a[i] = b[i]
  <2>1. \A i \in 1..Len(ks) + 1 : i \in 1..Len(ks) \/ i = Len(ks) + 1
    BY <1>1
  <2> QED BY <1>1, <1>2, <1>3, <1>4, <2>1, Zenon
<1>6. a = b
  BY <1>2, <1>4, <1>5, SeqEqual, Zenon
<1> QED BY <1>6 DEF a, b

\* A key less is a code less.
LEMMA CodesTail ==
  ASSUME KeyParameters, NEW ks \in Seq(Keys), ks # <<>>
  PROVE  /\ Codes(ks) # <<>> /\ Head(Codes(ks)) = Code(Head(ks))
         /\ Tail(Codes(ks)) = Codes(Tail(ks))
<1> DEFINE x == Codes(ks)
           b == Codes(Tail(ks))
<1>1. /\ Tail(ks) \in Seq(Keys) /\ Len(ks) \in Nat /\ Len(ks) > 0
      /\ Len(Tail(ks)) = Len(ks) - 1 /\ Head(ks) = ks[1]
      /\ \A i \in 1..Len(ks) - 1 : Tail(ks)[i] = ks[i + 1]
  BY HeadTailProperties, EmptySeq
<1>2. /\ x \in Seq(Nat) /\ Len(x) = Len(ks)
      /\ \A i \in 1..Len(ks) : x[i] = Code(ks[i])
  BY CodesOf
<1>3. /\ b \in Seq(Nat) /\ Len(b) = Len(ks) - 1
      /\ \A i \in 1..Len(ks) - 1 : b[i] = Code(Tail(ks)[i])
  BY <1>1, CodesOf
<1> HIDE DEF x, b
<1>4. x # <<>>
  BY <1>1, <1>2, EmptySeq
<1>5. /\ Head(x) = x[1] /\ Tail(x) \in Seq(Nat) /\ Len(Tail(x)) = Len(ks) - 1
      /\ \A i \in 1..Len(ks) - 1 : Tail(x)[i] = x[i + 1]
  BY <1>2, <1>4, HeadTailProperties
<1>6. \A i \in 1..Len(ks) - 1 : Tail(x)[i] = b[i]
  <2>1. \A i \in 1..Len(ks) - 1 : i + 1 \in 1..Len(ks)
    BY <1>1
  <2> QED BY <1>1, <1>2, <1>3, <1>5, <2>1, Zenon
<1>7. Tail(x) = b
  BY <1>3, <1>5, <1>6, SeqEqual, Zenon
<1>8. Head(x) = Code(Head(ks))
  BY <1>1, <1>2, <1>5
<1> QED BY <1>4, <1>7, <1>8 DEF x, b

\* What the running Read has in the buffer.
Running == IF stage = "read" THEN p ELSE <<>>

\* Values of the console, with a keyboard and a buffer of whole units: the count is even,
\* and that of the bytes in the buffer, so that PutUint16 never finds room for only one.
ReadTypes ==
  /\ In /\ bufLen \in Nat /\ bufLen % 2 = 0
  /\ stage \in {"idle", "read"}
  /\ keys \in Seq(Keys) /\ pressed \in Seq(Nat) /\ delivered \in Seq(Nat)
  /\ stage = "read" => /\ p \in Seq(Nat) /\ Len(p) = n
                    /\ n \in Nat /\ n % 2 = 0 /\ n <= bufLen

\* The bytes, in the order of the keys.
ReadOrder == (delivered \o Running) \o Pairs(Codes(keys)) = Pairs(pressed)

ReadKeysInv == In /\ bufLen % 2 = 0 => ReadTypes /\ ReadOrder

\* The smaller of two numbers.
LEMMA MinOfTwo ==
  ASSUME NEW a \in Int, NEW b \in Int, a <= b
  PROVE  Min({a, b}) = a
BY DEF Min

\* The bytes of the waiting keys, and those of the running Read, are sequences.
LEMMA ReadSeqs ==
  ASSUME KeyParameters, ReadTypes
  PROVE  /\ Running \in Seq(Nat)
         /\ Pairs(Codes(keys)) \in Seq(Nat)
<1>1. Running \in Seq(Nat)
  BY DEF ReadTypes, Running
<1>2. Codes(keys) \in Seq(Nat)
  BY CodesOf DEF ReadTypes
<1> QED BY <1>1, <1>2, PairsOf

\* No key has been pressed.
LEMMA ReadInitial ==
  ASSUME KeyParameters, ConsoleInit
  PROVE  ReadKeysInv
<1> SUFFICES ASSUME In, bufLen % 2 = 0
             PROVE  ReadTypes /\ ReadOrder
  BY DEF ReadKeysInv
<1>1. ReadTypes
  BY DEF ReadTypes, ConsoleInit, KeyParameters
<1>2. Len(keys) = 0 /\ Len(pressed) = 0 /\ keys \in Seq(Keys)
  BY DEF ConsoleInit
<1>3. Codes(keys) \in Seq(Nat) /\ Len(Codes(keys)) = 0
  BY <1>2, CodesOf
<1>4. ASSUME NEW s \in Seq(Nat), Len(s) = 0
      PROVE  Pairs(s) = <<>>
  <2>1. Pairs(s) \in Seq(Nat) /\ Len(Pairs(s)) = 0
    <3>1. Pairs(s) \in Seq(Nat) /\ Len(Pairs(s)) = 2 * Len(s)
      BY PairsOf, Zenon
    <3> QED BY <1>4, <3>1
  <2> QED BY <2>1, EmptySeq
<1>5. Pairs(Codes(keys)) = <<>> /\ Pairs(pressed) = <<>>
  BY <1>1, <1>2, <1>3, <1>4 DEF ReadTypes
<1>6. delivered = <<>> /\ Running = <<>>
  BY DEF ConsoleInit, Running
<1> QED BY <1>1, <1>5, <1>6 DEF ReadOrder

\* A key that is pressed goes behind those that wait.
LEMMA PressStep ==
  ASSUME KeyParameters, ReadTypes, ReadOrder, Press
  PROVE  (ReadTypes /\ ReadOrder)'
<1>1. PICK k \in Keys : keys' = Append(keys, k) /\ pressed' = Append(pressed, Code(k))
  BY DEF Press
<1>2. /\ UNCHANGED <<In, bufLen, stage, n, p, delivered>>
  BY DEF Press, device
<1>3. Code(k) \in Nat /\ Codes(keys) \in Seq(Nat)
  BY CodeIsNat, CodesOf DEF ReadTypes
<1>4. ReadTypes'
  BY <1>1, <1>2, <1>3 DEF ReadTypes
<1> DEFINE c == Code(k)
           w == Pairs(Codes(keys))
           d == delivered \o Running
<1>5. Pairs(Codes(keys')) = w \o Bytes(c)
  BY <1>1, <1>3, CodesAppend, PairsAppend DEF ReadTypes
<1>6. Pairs(pressed') = Pairs(pressed) \o Bytes(c)
  BY <1>1, <1>3, PairsAppend DEF ReadTypes
<1>7. d \in Seq(Nat) /\ w \in Seq(Nat) /\ Bytes(c) \in Seq(Nat) /\ d' = d
  BY <1>2, <1>3, ReadSeqs, ConcatParts, BytesOfUnit DEF ReadTypes, Running
<1>8. ReadOrder'
  <2>1. (d \o w) \o Bytes(c) = d \o (w \o Bytes(c))
    <3> HIDE DEF d, w, c
    <3> QED BY <1>7, ConcatAssociative
  <2> QED BY <1>5, <1>6, <1>7, <2>1 DEF ReadOrder
<1> QED BY <1>4, <1>8

\* A key that is read goes from the head of those that wait to the end of the buffer, both
\* of its bytes: there is room for two.
LEMMA ReadKeyStep ==
  ASSUME KeyParameters, ReadTypes, ReadOrder, ReadKey
  PROVE  (ReadTypes /\ ReadOrder)'
<1> DEFINE k == Head(keys)
           c == Code(k)
<1>1. /\ stage = "read" /\ keys # <<>> /\ keys' = Tail(keys)
      /\ UNCHANGED <<In, bufLen, pressed, delivered>>
  BY DEF ReadTypes, ReadKey, device
<1>2. n + 2 <= bufLen /\ n + 1 # bufLen /\ (n + 2) % 2 = 0
  <2>1. n \in Nat /\ bufLen \in Nat /\ n < bufLen /\ n % 2 = 0 /\ bufLen % 2 = 0
    BY <1>1 DEF ReadTypes, ReadKey
  <2> QED BY <2>1
<1>3. /\ p' = p \o SubSeq(Bytes(c), 1, Min({2, bufLen - n}))
      /\ n' = n + 2 /\ stage' = stage
  BY <1>2 DEF ReadTypes, ReadKey, Key, KeyBytes
<1>4. k \in Keys /\ Tail(keys) \in Seq(Keys)
  BY <1>1, HeadTailProperties DEF ReadTypes
<1>5. c \in Nat /\ Bytes(c) \in Seq(Nat) /\ Len(Bytes(c)) = 2
  <2>1. c \in Nat
    BY <1>4, CodeIsNat
  <2> HIDE DEF c
  <2> QED BY <2>1, BytesOfUnit
<1>6. SubSeq(Bytes(c), 1, Min({2, bufLen - n})) = Bytes(c)
  <2>1. Min({2, bufLen - n}) = 2
    <3>1. n \in Nat /\ bufLen \in Nat
      BY <1>1 DEF ReadTypes
    <3>2. 2 \in Int /\ bufLen - n \in Int /\ 2 <= bufLen - n
      BY <1>2, <3>1
    <3> QED BY <3>2, MinOfTwo, Zenon
  <2>2. SubSeq(Bytes(c), 1, Len(Bytes(c))) = Bytes(c)
    BY <1>5, SubSeqFull
  <2> QED BY <1>5, <2>1, <2>2
<1> DEFINE b == Bytes(c)
           w == Pairs(Codes(Tail(keys)))
<1>7. b \in Seq(Nat) /\ Len(b) = 2 /\ p \in Seq(Nat) /\ Len(p) = n /\ p' = p \o b
  BY <1>1, <1>3, <1>5, <1>6 DEF ReadTypes
<1>8. p' \in Seq(Nat) /\ Len(p') = n'
  <2> HIDE DEF b
  <2>1. p \o b \in Seq(Nat) /\ Len(p \o b) = Len(p) + Len(b)
    BY <1>7, ConcatParts, Zenon
  <2> QED BY <1>3, <1>7, <2>1
<1>9. ReadTypes'
  <2>1. n' \in Nat /\ n' % 2 = 0 /\ n' <= bufLen
    BY <1>1, <1>2, <1>3 DEF ReadTypes
  <2> QED BY <1>1, <1>3, <1>4, <1>8, <2>1 DEF ReadTypes
<1>10. Pairs(Codes(keys)) = b \o w
  <2>1. /\ Codes(keys) \in Seq(Nat) /\ Codes(keys) # <<>>
        /\ Head(Codes(keys)) = c /\ Tail(Codes(keys)) = Codes(Tail(keys))
    BY <1>1, CodesOf, CodesTail DEF ReadTypes
  <2> QED BY <2>1, PairsHead, Zenon
<1>11. w \in Seq(Nat) /\ delivered \in Seq(Nat)
  BY <1>4, CodesOf, PairsOf DEF ReadTypes
<1>12. ReadOrder'
  <2> HIDE DEF b, w
  <2>1. (delivered \o (p \o b)) \o w = ((delivered \o p) \o b) \o w
    BY <1>7, <1>11, ConcatAssoc, Zenon
  <2>2. delivered \o p \in Seq(Nat)
    BY <1>7, <1>11, ConcatParts
  <2>3. ((delivered \o p) \o b) \o w = (delivered \o p) \o (b \o w)
    BY <1>7, <1>11, <2>2, ConcatAssoc, Zenon
  <2>4. Running = p /\ Running' = p \o b
    BY <1>1, <1>3, <1>7 DEF Running
  <2>5. Pairs(Codes(keys')) = w
    BY <1>1 DEF w
  <2> QED BY <1>1, <1>10, <2>1, <2>3, <2>4, <2>5, Zenon DEF ReadOrder
<1> QED BY <1>9, <1>12

\* Read returns all that is in the buffer, on each of its ways out.
LEMMA ReturnStep ==
  ASSUME ReadTypes, ReadOrder, stage = "read", ReturnsRead(n, p),
         UNCHANGED <<In, bufLen, keys, pressed>>
  PROVE  (ReadTypes /\ ReadOrder)'
<1>1. p \in Seq(Nat) /\ Len(p) = n /\ n \in Nat
  BY DEF ReadTypes
<1>2. SubSeq(p, 1, Min({n, Len(p)})) = p
  <2>1. Min({n, Len(p)}) = Len(p)
    BY <1>1, MinOfTwo
  <2> QED BY <1>1, <2>1, SubSeqFull
<1>3. delivered' = delivered \o p /\ stage' = "idle"
  BY <1>2 DEF ReturnsRead
<1>4. delivered' \in Seq(Nat) /\ delivered' \o <<>> = delivered'
  <2>1. delivered \o p \in Seq(Nat)
    BY <1>1, ConcatParts DEF ReadTypes
  <2> QED BY <1>3, <2>1, ConcatEmptySeq
<1>5. Running = p /\ Running' = <<>>
  BY <1>3 DEF Running
<1>6. ReadTypes'
  BY <1>3, <1>4 DEF ReadTypes
<1>7. ReadOrder'
  BY <1>3, <1>4, <1>5, Zenon DEF ReadOrder
<1> QED BY <1>6, <1>7

\* Every step keeps the invariant.  Those of Write and printk do not touch the keys.
LEMMA ShellStep ==
  ASSUME KeyParameters, ReadKeysInv, [ConsoleNext]_consoleVars
  PROVE  ReadKeysInv'
<1>1. In' = In /\ bufLen' = bufLen
  BY DEF ConsoleNext, ReadStep, Press, StartRead, ReadError, NotReady,
         ReadKey, ReadFull, Write, printk, device, consoleVars
<1> SUFFICES ASSUME In, bufLen % 2 = 0
             PROVE  (ReadTypes /\ ReadOrder)'
  BY <1>1 DEF ReadKeysInv
<1>2. ReadTypes /\ ReadOrder
  BY DEF ReadKeysInv
<1>3. ASSUME UNCHANGED <<keys, pressed, delivered, stage, n, p>>
      PROVE  (ReadTypes /\ ReadOrder)'
  BY <1>1, <1>2, <1>3 DEF ReadTypes, ReadOrder, Running
<1>4. CASE Press
  BY <1>2, <1>4, PressStep
<1>5. CASE StartRead
  <2>1. /\ stage = "idle" /\ stage' = "read" /\ n' = 0 /\ p' = <<>>
        /\ UNCHANGED <<keys, pressed, delivered>>
    BY <1>5 DEF StartRead
  <2>2. ReadTypes'
    BY <1>1, <1>2, <2>1 DEF ReadTypes
  <2>3. Running = <<>> /\ Running' = <<>>
    BY <2>1 DEF Running
  <2> QED BY <1>2, <2>1, <2>2, <2>3, Zenon DEF ReadOrder
<1>6. CASE ReadError
  BY <1>1, <1>2, <1>6, ReturnStep DEF ReadError
<1>7. CASE NotReady
  BY <1>1, <1>2, <1>7, ReturnStep DEF NotReady
<1>8. CASE ReadKey
  BY <1>2, <1>8, ReadKeyStep
<1>9. CASE ReadFull
  BY <1>1, <1>2, <1>9, ReturnStep DEF ReadFull
<1>10. CASE Write
  BY <1>3, <1>10 DEF Write, keyboard
<1>11. CASE printk
  BY <1>3, <1>11 DEF printk, keyboard
<1>12. CASE UNCHANGED consoleVars
  BY <1>3, <1>12 DEF consoleVars
<1> QED
  BY <1>4, <1>5, <1>6, <1>7, <1>8, <1>9, <1>10, <1>11, <1>12 DEF ConsoleNext, ReadStep

\* With a buffer of whole units, Read of the console loses, doubles and reorders no byte
\* of a key, over any sequence of calls, errors of the keyboard and pauses.
THEOREM ShellKeysInOrder == ConsoleSpec => []KeysInOrder
<1>1. ConsoleInit => ReadKeysInv
  BY ConsoleAssumptions, ReadInitial
<1>2. ReadKeysInv /\ [ConsoleNext]_consoleVars => ReadKeysInv'
  BY ConsoleAssumptions, ShellStep
<1>3. ReadKeysInv => KeysInOrder
  <2> SUFFICES ASSUME In, bufLen % 2 = 0, ReadTypes, ReadOrder
               PROVE  KeysInOrder
    BY DEF ReadKeysInv, KeysInOrder
  <2>1. stage = "read" => SubSeq(p, 1, n) = p
    BY SubSeqFull DEF ReadTypes
  <2> QED BY <2>1, Zenon DEF ReadOrder, Running, KeysInOrder
<1> QED BY <1>1, <1>2, <1>3, PTL DEF ConsoleSpec

\* With a buffer of whole units, no sequence of keys makes PutUint16 panic: the count is
\* always even.
THEOREM ShellNoPanic == ConsoleSpec => [](In /\ bufLen % 2 = 0 => NoPanic)
<1>1. ConsoleInit => ReadKeysInv
  BY ConsoleAssumptions, ReadInitial
<1>2. ReadKeysInv /\ [ConsoleNext]_consoleVars => ReadKeysInv'
  BY ConsoleAssumptions, ShellStep
<1>3. ReadKeysInv => (In /\ bufLen % 2 = 0 => NoPanic)
  BY DEF ReadKeysInv, ReadTypes, NoPanic
<1> QED BY <1>1, <1>2, <1>3, PTL DEF ConsoleSpec
-----------------------------------------------------------------------------
(***************************************************************************)
(* The console: Write and printk, for every text of code points, every     *)
(* number of spaces for a tab and all even capacities of the runtime.      *)
(***************************************************************************)
\* A set of natural numbers that is not empty has a least one.
LEMMA Least ==
  ASSUME NEW S \in SUBSET Nat, S # {}
  PROVE  \E x \in S : \A y \in S : x <= y
<1>1. PICK x \in S : \A y \in S : ~(<<y, x>> \in OpToRel(<, Nat))
  <2> DEFINE R == OpToRel(<, Nat)
  <2>1. IsWellFoundedOn(R, Nat)
    BY NatLessThanWellFounded
  <2> HIDE DEF R
  <2>2. \E x \in S : \A y \in S : ~(<<y, x>> \in R)
    BY <2>1, WFMin
  <2> QED BY <2>2 DEF R
<1>2. \A y \in S : ~(y < x)
  BY <1>1 DEF OpToRel
<1> QED BY <1>2

\* A function on the first numbers is a sequence.
LEMMA FunctionIsSeq ==
  ASSUME NEW S, NEW k \in Nat, NEW f \in [1..k -> S]
  PROVE  f \in Seq(S) /\ Len(f) = k
OBVIOUS

\* What has been put together of a sequence of sequences, part by part.
Partial(g, s, k, S) ==
  /\ g \in [0..k -> Seq(S)] /\ g[0] = <<>>
  /\ \A i \in 1..k : g[i] = g[i - 1] \o s[i]

\* The function that FlattenSeq chooses.
IsFlatten(f, s) == f = [i \in 1..Len(s) |-> IF i = 1 THEN s[i] ELSE f[i - 1] \o s[i]]

\* FlattenSeq returns what is put together in the end, whichever way it is computed.
LEMMA FlattenIs ==
  ASSUME NEW S, NEW s \in Seq(Seq(S)), NEW g, Partial(g, s, Len(s), S)
  PROVE  FlattenSeq(s) = g[Len(s)] /\ g[Len(s)] \in Seq(S)
<1> DEFINE l == Len(s)
<1>1. /\ l \in Nat /\ \A i \in 1..l : s[i] \in Seq(S)
      /\ g \in [0..l -> Seq(S)] /\ g[0] = <<>> /\ \A i \in 1..l : g[i] = g[i - 1] \o s[i]
  BY DEF Partial
<1>2. g[l] \in Seq(S)
  BY <1>1
<1>3. 1 - 1 = 0
  OBVIOUS
<1>4. CASE l = 0
  <2>1. s = <<>>
    BY <1>4, EmptySeq
  <2>2. FlattenSeq(s) = s
    BY <1>4, Zenon DEF FlattenSeq
  <2> QED BY <1>1, <1>2, <1>4, <2>1, <2>2
<1>5. CASE l # 0
  <2> DEFINE h == [i \in 1..l |-> g[i]]
             f == CHOOSE x : IsFlatten(x, s)
  <2>1. IsFlatten(h, s)
    <3>1. ASSUME NEW i \in 1..l
          PROVE  g[i] = IF i = 1 THEN s[i] ELSE h[i - 1] \o s[i]
      <4>1. CASE i = 1
        <5>1. g[1] = <<>> \o s[1] /\ s[1] \in Seq(S)
          BY <1>1, <1>3, <4>1, Zenon
        <5>2. <<>> \o s[1] = s[1]
          BY <5>1, ConcatEmptySeq
        <5> QED BY <4>1, <5>1, <5>2
      <4>2. CASE i # 1
        <5>1. i - 1 \in 1..l
          BY <1>1, <4>2
        <5>2. h[i - 1] = g[i - 1]
          BY <5>1
        <5> QED BY <1>1, <4>2, <5>2
      <4> QED BY <4>1, <4>2
    <3> QED BY <3>1, Zenon DEF IsFlatten
  <2>2. IsFlatten(f, s)
    BY <2>1, Zenon
  <2>3. FlattenSeq(s) = f[l]
    BY <1>5, Zenon DEF FlattenSeq, IsFlatten
  <2> HIDE DEF h, f
  <2>4. \A i \in 1..l : f[i] = IF i = 1 THEN s[i] ELSE f[i - 1] \o s[i]
    BY <2>2, Zenon DEF IsFlatten
  <2> DEFINE bad == {i \in 1..l : f[i] # g[i]}
  <2>5. bad = {}
    <3> SUFFICES ASSUME bad # {}
                 PROVE  FALSE
      OBVIOUS
    <3>1. PICK i \in bad : \A j \in bad : i <= j
      <4>1. bad \in SUBSET Nat
        OBVIOUS
      <4> HIDE DEF bad
      <4> QED BY <4>1, Least
    <3>2. i \in 1..l /\ f[i] # g[i]
      OBVIOUS
    <3>3. CASE i = 1
      <4>1. f[1] = s[1]
        BY <2>4, <3>2, <3>3
      <4>2. g[1] = <<>> \o s[1] /\ s[1] \in Seq(S)
        BY <1>1, <1>3, <3>2, <3>3, Zenon
      <4>3. <<>> \o s[1] = s[1]
        BY <4>2, ConcatEmptySeq
      <4> QED BY <3>2, <3>3, <4>1, <4>2, <4>3
    <3>4. CASE i # 1
      <4>1. i - 1 \in 1..l /\ i - 1 \notin bad
        <5>1. i \in Nat /\ i - 1 \in 1..l
          BY <1>1, <3>2, <3>4
        <5> HIDE DEF bad
        <5>2. ~(i <= i - 1)
          BY <5>1
        <5> QED BY <3>1, <5>1, <5>2, Zenon
      <4>2. f[i - 1] = g[i - 1]
        BY <4>1
      <4> QED BY <1>1, <2>4, <3>2, <3>4, <4>2, Zenon
    <3> QED BY <3>3, <3>4
  <2>6. l \in 1..l
    BY <1>1, <1>5
  <2>7. f[l] = g[l]
    BY <2>5, <2>6
  <2> QED BY <1>2, <2>3, <2>7
<1> QED BY <1>4, <1>5

\* It can be put together.
LEMMA PartialExists ==
  ASSUME NEW S, NEW s \in Seq(Seq(S))
  PROVE  \E g : Partial(g, s, Len(s), S)
<1> DEFINE l == Len(s)
           Fine(k) == \E g : Partial(g, s, k, S)
           bad == {k \in 0..l : ~Fine(k)}
<1>1. l \in Nat /\ \A i \in 1..l : s[i] \in Seq(S)
  OBVIOUS
<1> SUFFICES ASSUME ~Fine(l)
             PROVE  FALSE
  OBVIOUS
<1> HIDE DEF Fine
<1>2. bad \in SUBSET Nat /\ bad # {}
  BY <1>1
<1>3. PICK k \in bad : \A j \in bad : k <= j
  <2> HIDE DEF bad
  <2> QED BY <1>2, Least
<1>4. k \in 0..l /\ ~Fine(k)
  OBVIOUS
<1>5. CASE k = 0
  <2> DEFINE g == [i \in 0..0 |-> <<>>]
  <2>1. g \in [0..0 -> Seq(S)] /\ g[0] = <<>>
    BY EmptySeq
  <2>2. Partial(g, s, 0, S)
    BY <2>1 DEF Partial
  <2> QED BY <1>4, <1>5, <2>2, Zenon DEF Fine
<1>6. CASE k # 0
  <2> DEFINE m == k - 1
  <2>1. m \in Nat /\ m \in 0..l /\ m + 1 \in 1..l /\ k = m + 1 /\ m \notin bad
    BY <1>1, <1>3, <1>4, <1>6
  <2>2. Fine(m)
    BY <2>1
  <2> HIDE DEF m
  <2>3. PICK g : Partial(g, s, m, S)
    BY <2>2 DEF Fine
  <2>4. /\ g \in [0..m -> Seq(S)] /\ g[0] = <<>>
        /\ \A i \in 1..m : g[i] = g[i - 1] \o s[i]
    BY <2>3 DEF Partial
  <2>5. m \in 0..m /\ g[m] \in Seq(S) /\ s[m + 1] \in Seq(S)
    BY <1>1, <2>1, <2>4
  <2>6. g[m] \o s[m + 1] \in Seq(S)
    BY <2>5, ConcatProperties
  <2> DEFINE h == [i \in 0..m + 1 |-> IF i \in 0..m THEN g[i] ELSE g[m] \o s[m + 1]]
  <2>7. h \in [0..m + 1 -> Seq(S)]
    BY <2>4, <2>6
  <2>8. h[0] = <<>> /\ h[m + 1] = g[m] \o s[m + 1] /\ \A i \in 0..m : h[i] = g[i]
    <3>1. /\ 0 \in 0..m /\ m + 1 \in 0..m + 1 /\ m + 1 \notin 0..m
          /\ \A i \in 0..m : i \in 0..m + 1
      BY <2>1
    <3> QED BY <2>4, <3>1, Zenon
  <2> HIDE DEF h
  <2>9. ASSUME NEW i \in 1..m + 1
        PROVE  h[i] = h[i - 1] \o s[i]
    <3>1. i - 1 \in 0..m /\ h[i - 1] = g[i - 1]
      BY <2>1, <2>8
    <3>2. CASE i = m + 1
      <4>1. i - 1 = m
        BY <2>1, <3>2
      <4> QED BY <2>8, <3>1, <3>2, <4>1, Zenon
    <3>3. CASE i # m + 1
      <4>1. i \in 1..m /\ i \in 0..m
        BY <2>1, <3>3
      <4> QED BY <2>4, <2>8, <3>1, <4>1, Zenon
    <3> QED BY <3>2, <3>3
  <2>10. Partial(h, s, k, S)
    BY <2>1, <2>7, <2>8, <2>9 DEF Partial
  <2> QED BY <1>4, <2>10, Zenon DEF Fine
<1> QED BY <1>5, <1>6

\* A part more goes to the end.
LEMMA FlattenAppend ==
  ASSUME NEW S, NEW s \in Seq(Seq(S)), NEW x \in Seq(S)
  PROVE  /\ FlattenSeq(s) \in Seq(S)
         /\ FlattenSeq(Append(s, x)) = FlattenSeq(s) \o x
<1> DEFINE l == Len(s)
           r == Append(s, x)
<1>1. PICK g : Partial(g, r, Len(r), S)
  <2>1. r \in Seq(Seq(S))
    BY AppendProperties
  <2> HIDE DEF r
  <2> QED BY <2>1, PartialExists
<1>2. /\ r \in Seq(Seq(S)) /\ Len(r) = l + 1 /\ l \in Nat
      /\ \A i \in 1..l : r[i] = s[i]
      /\ r[l + 1] = x
  BY AppendProperties
<1> HIDE DEF r
<1>3. /\ g \in [0..l + 1 -> Seq(S)] /\ g[0] = <<>>
      /\ \A i \in 1..l + 1 : g[i] = g[i - 1] \o r[i]
  BY <1>1, <1>2 DEF Partial
<1> DEFINE h == [i \in 0..l |-> g[i]]
<1>4. Partial(h, s, l, S)
  <2>1. h \in [0..l -> Seq(S)] /\ h[0] = <<>> /\ \A i \in 0..l : h[i] = g[i]
    BY <1>2, <1>3
  <2> HIDE DEF h
  <2>2. ASSUME NEW i \in 1..l
        PROVE  h[i] = h[i - 1] \o s[i]
    <3>1. i \in 0..l /\ i - 1 \in 0..l /\ i \in 1..l + 1
      BY <1>2
    <3> QED BY <1>2, <1>3, <2>1, <3>1, Zenon
  <2> QED BY <2>1, <2>2 DEF Partial
<1>5. l \in 0..l /\ l + 1 \in 1..l + 1 /\ (l + 1) - 1 = l
  BY <1>2
<1>6. h[l] = g[l] /\ g[l + 1] = g[l] \o x
  BY <1>2, <1>3, <1>5
<1> HIDE DEF h
<1>7. FlattenSeq(s) = h[l] /\ h[l] \in Seq(S)
  BY <1>4, FlattenIs
<1>8. FlattenSeq(r) = g[l + 1]
  BY <1>1, <1>2, FlattenIs
<1> QED BY <1>6, <1>7, <1>8, Zenon DEF r

\* Units, and the units that end no string.
Unit16 == {u \in Nat : u < 65536}
Visible == {u \in Nat : 0 < u /\ u < 65536}

\* Code points, and those of the basic plane.
Rune(r) == r \in Nat /\ r < 1114112
Basic(r) == r < 65536

\* What becomes of the units, one after the other, and what is wanted for a rune.
Expanded(e) == FlattenSeq([i \in DOMAIN e |-> Expand(e[i])])
Shows(r, spaces) ==
  IF r = tab /\ spaces > 0 THEN [j \in 1..spaces |-> space]
  ELSE IF r = lf /\ ForceLine THEN <<lf, cr>> ELSE Utf16(r)

\* One unit for a rune of the basic plane, and else two, both of them surrogates.
LEMMA Utf16Cases ==
  ASSUME NEW r, Rune(r)
  PROVE  \/ Basic(r) /\ Utf16(r) = <<r>>
         \/ \E a, b \in Visible : /\ a > 13 /\ b > 13 /\ r > 13
                                  /\ Utf16(r) = <<a, b>>
<1>1. CASE Basic(r)
  BY <1>1, SMT DEF Utf16, Basic
<1>2. CASE ~Basic(r)
  <2> DEFINE a == 55296 + (r - 65536) \div 1024
             b == 56320 + ((r - 65536) % 1024)
  <2>1. Utf16(r) = <<a, b>>
    BY <1>2, SMT DEF Utf16, Basic
  <2>2. /\ a \in Nat /\ 13 < a /\ a < 65536 /\ b \in Nat /\ 13 < b /\ b < 65536 /\ r > 13
    BY <1>2, SMT DEF Basic, Rune
  <2> HIDE DEF a, b
  <2>3. a \in Visible /\ b \in Visible
    BY <2>2, SMT DEF Visible
  <2>4. a > 13 /\ b > 13 /\ r > 13
    BY <2>2, SMT DEF Rune
  <2> QED BY <2>1, <2>3, <2>4
<1> QED BY <1>1, <1>2

\* A sequence of spaces.
LEMMA Spaces ==
  ASSUME NEW k \in Nat
  PROVE  /\ [j \in 1..k |-> space] \in Seq(Visible)
         /\ Len([j \in 1..k |-> space]) = k
<1>1. space \in Visible
  BY SMT DEF space, Visible
<1> DEFINE f == [j \in 1..k |-> space]
<1>2. f \in [1..k -> Visible]
  BY <1>1
<1> HIDE DEF f
<1>3. f \in Seq(Visible) /\ Len(f) = k
  BY <1>2, IsASeq, LenProperties
<1> QED BY <1>3 DEF f

\* What is wanted for a rune is not empty, and has no zero.
LEMMA ShowsVisible ==
  ASSUME NEW r, Rune(r), 0 < r, NEW k \in Nat
  PROVE  Shows(r, k) \in Seq(Visible) /\ Len(Shows(r, k)) > 0
<1>1. CASE r = tab /\ k > 0
  <2>1. Shows(r, k) = [j \in 1..k |-> space]
    BY <1>1 DEF Shows
  <2> QED BY <1>1, <2>1, Spaces, Zenon
<1>2. CASE ~(r = tab /\ k > 0) /\ r = lf /\ ForceLine
  <2>1. Shows(r, k) = <<10, 13>>
    BY <1>2 DEF Shows, lf, cr
  <2>2. 10 \in Visible /\ 13 \in Visible
    BY SMT DEF Visible
  <2> QED BY <2>1, <2>2
<1>3. CASE ~(r = tab /\ k > 0) /\ ~(r = lf /\ ForceLine)
  <2>1. Shows(r, k) = Utf16(r)
    BY <1>3 DEF Shows
  <2>2. CASE Basic(r) /\ Utf16(r) = <<r>>
    <3>1. r \in Visible
      BY <2>2, SMT DEF Visible, Basic, Rune
    <3> QED BY <2>1, <2>2, <3>1
  <2>3. CASE \E a, b \in Visible : Utf16(r) = <<a, b>>
    <3>1. PICK a, b \in Visible : Utf16(r) = <<a, b>>
      BY <2>3
    <3> QED BY <2>1, <3>1
  <2> QED BY <2>2, <2>3, Utf16Cases
<1> QED BY <1>1, <1>2, <1>3

\* What a unit becomes.
LEMMA ExpandIn ==
  ASSUME NEW u \in Unit16, ReplaceTabs \in Nat
  PROVE  Expand(u) \in Seq(Unit16)
<1>1. CASE u = tab /\ ReplaceTabs > 0
  <2>1. Expand(u) = [i \in 1..ReplaceTabs |-> space]
    BY <1>1 DEF Expand
  <2>2. Expand(u) \in Seq(Visible)
    BY <2>1, Spaces, Zenon
  <2>3. Visible \subseteq Unit16
    BY SMT DEF Visible, Unit16
  <2> QED BY <2>2, <2>3, SeqMonotonic
<1>2. CASE ~(u = tab /\ ReplaceTabs > 0)
  <2>1. Expand(u) = <<u, 13>> \/ Expand(u) = <<u>>
    BY <1>2 DEF Expand, cr
  <2>2. 13 \in Unit16
    BY SMT DEF Unit16
  <2>3. \A c \in Unit16 : <<u, c>> \in Seq(Unit16) /\ <<u>> \in Seq(Unit16)
    OBVIOUS
  <2> QED BY <2>1, <2>2, <2>3, Zenon
<1> QED BY <1>1, <1>2

\* A unit more.
LEMMA ExpandedAppend ==
  ASSUME NEW e \in Seq(Unit16), NEW u \in Unit16, ReplaceTabs \in Nat
  PROVE  /\ Expanded(e) \in Seq(Unit16)
         /\ Expanded(Append(e, u)) = Expanded(e) \o Expand(u)
<1> DEFINE s == [i \in DOMAIN e |-> Expand(e[i])]
           l == Len(e)
           f == Append(e, u)
           r == [i \in DOMAIN f |-> Expand(f[i])]
           x == Expand(u)
<1>1. DOMAIN e = 1..l /\ l \in Nat
  BY LenProperties
<1>2. /\ f \in Seq(Unit16) /\ Len(f) = l + 1
      /\ \A i \in 1..l : f[i] = e[i]
      /\ f[l + 1] = u
  BY AppendProperties
<1>3. DOMAIN f = 1..l + 1
  <2> HIDE DEF f
  <2> QED BY <1>2, LenProperties
<1>4. x \in Seq(Unit16) /\ \A i \in 1..l : Expand(e[i]) \in Seq(Unit16)
  BY ExpandIn
<1>5. s \in [1..l -> Seq(Unit16)]
  BY <1>1, <1>4
<1>6. \A i \in 1..l : s[i] = Expand(e[i])
  BY <1>1, Zenon
<1>7. r = [i \in 1..l + 1 |-> Expand(f[i])]
  BY <1>3, Zenon
<1> HIDE DEF s, f, x, r
<1>8. s \in Seq(Seq(Unit16)) /\ Len(s) = l
  BY <1>1, <1>5, IsASeq, LenProperties
<1>9. /\ Append(s, x) \in Seq(Seq(Unit16)) /\ Len(Append(s, x)) = l + 1
      /\ \A i \in 1..l : Append(s, x)[i] = s[i]
      /\ Append(s, x)[l + 1] = x
  BY <1>4, <1>8, AppendProperties
<1>10. \A i \in 1..l + 1 : r[i] = Append(s, x)[i]
  <2>1. \A i \in 1..l + 1 : i \in 1..l \/ i = l + 1
    BY <1>1
  <2>2. \A i \in 1..l + 1 : r[i] = Expand(f[i])
    BY <1>7, Zenon
  <2>3. Expand(f[l + 1]) = x
    BY <1>2, Zenon DEF x
  <2> QED BY <1>2, <1>6, <1>9, <2>1, <2>2, <2>3, Zenon
<1>11. r \in Seq(Seq(Unit16)) /\ Len(r) = l + 1
  <2>1. r \in [1..l + 1 -> Seq(Unit16)]
    <3>1. \A i \in 1..l + 1 : Append(s, x)[i] \in Seq(Unit16)
      BY <1>9
    <3>2. \A i \in 1..l + 1 : r[i] \in Seq(Unit16)
      BY <1>10, <3>1
    <3> QED BY <1>7, <3>2
  <2>2. l + 1 \in Nat
    BY <1>1
  <2> QED BY <2>1, <2>2, IsASeq, LenProperties
<1>12. r = Append(s, x)
  BY <1>9, <1>10, <1>11, SeqEqual
<1>13. FlattenSeq(Append(s, x)) = FlattenSeq(s) \o x /\ FlattenSeq(s) \in Seq(Unit16)
  BY <1>4, <1>8, FlattenAppend
<1> QED BY <1>12, <1>13, Zenon DEF Expanded, s, x, r, f

\* The units of a rune, expanded behind others.
LEMMA ExpandedRune ==
  ASSUME NEW e \in Seq(Unit16), NEW r, Rune(r), ReplaceTabs \in Nat
  PROVE  /\ e \o Utf16(r) \in Seq(Unit16)
         /\ Expanded(e \o Utf16(r)) = Expanded(e) \o Shows(r, ReplaceTabs)
<1>1. CASE Basic(r) /\ Utf16(r) = <<r>>
  <2>1. r \in Unit16
    BY <1>1, SMT DEF Unit16, Basic, Rune
  <2>2. e \o <<r>> = Append(e, r) /\ Append(e, r) \in Seq(Unit16)
    BY <2>1
  <2>3. Expanded(Append(e, r)) = Expanded(e) \o Expand(r)
    BY <2>1, ExpandedAppend
  <2>4. Expand(r) = Shows(r, ReplaceTabs)
    BY <1>1, Zenon DEF Expand, Shows
  <2> QED BY <1>1, <2>2, <2>3, <2>4, Zenon
<1>2. CASE \E a, b \in Visible : a > 13 /\ b > 13 /\ r > 13 /\ Utf16(r) = <<a, b>>
  <2>1. PICK a, b \in Visible : a > 13 /\ b > 13 /\ r > 13 /\ Utf16(r) = <<a, b>>
    BY <1>2
  <2>2. a \in Unit16 /\ b \in Unit16 /\ a \in Nat /\ b \in Nat /\ r \in Nat
    BY SMT DEF Unit16, Visible, Rune
  <2>3. /\ Append(e, a) \in Seq(Unit16) /\ Append(Append(e, a), b) \in Seq(Unit16)
        /\ e \o <<a, b>> = Append(Append(e, a), b)
    BY <2>2
  <2>4. /\ Expanded(e) \in Seq(Unit16) /\ Expanded(Append(e, a)) = Expanded(e) \o Expand(a)
    BY <2>2, ExpandedAppend
  <2>5. Expanded(Append(Append(e, a), b)) = Expanded(Append(e, a)) \o Expand(b)
    BY <2>2, <2>3, ExpandedAppend
  <2>6. Expand(a) = <<a>> /\ Expand(b) = <<b>>
    BY <2>1, <2>2, SMT DEF Expand, tab, lf
  <2>7. Shows(r, ReplaceTabs) = <<a, b>>
    BY <2>1, <2>2, SMT DEF Shows, tab, lf
  <2>8. ASSUME NEW x \in Seq(Unit16)
        PROVE  (x \o <<a>>) \o <<b>> = x \o <<a, b>>
    <3>1. x \o <<a>> = Append(x, a) /\ Append(x, a) \in Seq(Unit16)
      BY <2>2
    <3>2. Append(x, a) \o <<b>> = Append(Append(x, a), b)
      BY <2>2, <3>1
    <3>3. x \o <<a, b>> = Append(Append(x, a), b)
      BY <2>2
    <3> QED BY <3>1, <3>2, <3>3, Zenon
  <2> QED BY <2>1, <2>3, <2>4, <2>5, <2>6, <2>7, <2>8, Zenon
<1> QED BY <1>1, <1>2, Utf16Cases

\* The units that Write puts out are those wanted for each rune.
LEMMA TextUnits ==
  ASSUME NEW t \in Seq(Nat), \A i \in 1..Len(t) : Rune(t[i]), ReplaceTabs \in Nat
  PROVE  /\ Expanded(Encode(t)) \in Seq(Unit16)
         /\ \E h : /\ Partial(h, [i \in 1..Len(t) |-> Shows(t[i], ReplaceTabs)], Len(t), Unit16)
                   /\ h[Len(t)] = Expanded(Encode(t))
<1> DEFINE l == Len(t)
           s == [i \in 1..l |-> Utf16(t[i])]
           w == [i \in 1..l |-> Shows(t[i], ReplaceTabs)]
<1>1. l \in Nat /\ DOMAIN t = 1..l
  BY LenProperties
<1>2. Encode(t) = FlattenSeq(s)
  BY <1>1, Zenon DEF Encode
<1>3. ASSUME NEW i \in 1..l
      PROVE  Utf16(t[i]) \in Seq(Unit16)
  <2>1. Rune(t[i])
    OBVIOUS
  <2>2. CASE Basic(t[i]) /\ Utf16(t[i]) = <<t[i]>>
    <3>1. t[i] \in Unit16
      BY <2>1, <2>2, SMT DEF Unit16, Basic, Rune
    <3> QED BY <2>2, <3>1
  <2>3. CASE \E a, b \in Visible : Utf16(t[i]) = <<a, b>>
    <3>1. PICK a, b \in Visible : Utf16(t[i]) = <<a, b>>
      BY <2>3
    <3>2. a \in Unit16 /\ b \in Unit16
      BY SMT DEF Unit16, Visible
    <3> QED BY <3>1, <3>2
  <2> QED BY <2>1, <2>2, <2>3, Utf16Cases
<1>4. s \in Seq(Seq(Unit16)) /\ Len(s) = l
  <2>1. s \in [1..l -> Seq(Unit16)]
    BY <1>3
  <2> HIDE DEF s
  <2> QED BY <1>1, <2>1, IsASeq, LenProperties
<1>5. \A i \in 1..l : s[i] = Utf16(t[i]) /\ w[i] = Shows(t[i], ReplaceTabs)
  BY Zenon
<1> HIDE DEF s
<1>6. PICK g : Partial(g, s, l, Unit16)
  BY <1>4, PartialExists
<1>7. FlattenSeq(s) = g[l]
  BY <1>4, <1>6, FlattenIs
<1>8. /\ g \in [0..l -> Seq(Unit16)] /\ g[0] = <<>>
      /\ \A i \in 1..l : g[i] = g[i - 1] \o s[i]
  BY <1>6 DEF Partial
<1> DEFINE h == [i \in 0..l |-> Expanded(g[i])]
<1>9. \A e \in Seq(Unit16) : Expanded(e) \in Seq(Unit16)
  <2>1. 0 \in Unit16
    BY SMT DEF Unit16
  <2> QED BY <2>1, ExpandedAppend
<1>10. h \in [0..l -> Seq(Unit16)]
  BY <1>8, <1>9
<1>11. \A i \in 0..l : h[i] = Expanded(g[i])
  BY Zenon
<1>12. Expanded(<<>>) = <<>>
  <2>1. Partial([i \in 0..0 |-> <<>>], <<>>, 0, Unit16)
    BY DEF Partial
  <2>2. <<>> \in Seq(Seq(Unit16)) /\ Len(<<>>) = 0
    OBVIOUS
  <2>3. FlattenSeq(<<>>) = <<>>
    <3>1. FlattenSeq(<<>>) = [i \in 0..0 |-> <<>>][0]
      BY <2>1, <2>2, FlattenIs
    <3> QED BY <3>1
  <2>4. [i \in DOMAIN <<>> |-> Expand(<<>>[i])] = <<>>
    OBVIOUS
  <2> QED BY <2>3, <2>4 DEF Expanded
<1> HIDE DEF h, w
<1>13. ASSUME NEW i \in 1..l
       PROVE  h[i] = h[i - 1] \o w[i]
  <2>1. i \in 0..l /\ i - 1 \in 0..l /\ g[i - 1] \in Seq(Unit16) /\ Rune(t[i])
    <3>1. i \in 0..l /\ i - 1 \in 0..l
      BY <1>1
    <3>2. g[i - 1] \in Seq(Unit16)
      BY <1>8, <3>1, Zenon
    <3>3. Rune(t[i])
      BY Zenon
    <3> QED BY <3>1, <3>2, <3>3
  <2>2. g[i] = g[i - 1] \o Utf16(t[i])
    BY <1>5, <1>8
  <2>3. Expanded(g[i - 1] \o Utf16(t[i])) = Expanded(g[i - 1]) \o Shows(t[i], ReplaceTabs)
    BY <2>1, ExpandedRune
  <2> QED BY <1>5, <1>11, <2>1, <2>2, <2>3, Zenon
<1>14. 0 \in 0..l /\ l \in 0..l
  BY <1>1
<1>15. h[0] = <<>> /\ h[l] = Expanded(Encode(t))
  BY <1>2, <1>7, <1>8, <1>11, <1>12, <1>14, Zenon
<1>16. Partial(h, w, l, Unit16)
  BY <1>10, <1>13, <1>15 DEF Partial
<1>17. Expanded(Encode(t)) \in Seq(Unit16)
  BY <1>10, <1>14, <1>15
<1> QED BY <1>15, <1>16, <1>17, Zenon DEF w

\* What is wanted for a text is what Write makes of it, has no zero, and is not empty.
LEMMA WantedUnits ==
  ASSUME NEW t \in Seq(Nat), \A i \in 1..Len(t) : Rune(t[i]) /\ 0 < t[i],
         t # cub, t # <<>>, ReplaceTabs \in Nat
  PROVE  LET w == Wanted(t, ReplaceTabs)
         IN  w = Expanded(Encode(t)) /\ w \in Seq(Visible) /\ w # <<>>
<1> DEFINE l == Len(t)
           s == [i \in 1..l |-> Shows(t[i], ReplaceTabs)]
<1>1. l \in Nat /\ DOMAIN t = 1..l /\ l # 0
  BY LenProperties, EmptySeq
<1>2. Wanted(t, ReplaceTabs) = FlattenSeq(s)
  BY <1>1, Zenon DEF Wanted, Shows
<1>3. \A i \in 1..l : Shows(t[i], ReplaceTabs) \in Seq(Visible) /\ Len(Shows(t[i], ReplaceTabs)) > 0
  BY ShowsVisible, Zenon
<1>4. \A i \in 1..l : s[i] = Shows(t[i], ReplaceTabs)
  BY Zenon
<1>5. PICK h : Partial(h, s, l, Unit16) /\ h[l] = Expanded(Encode(t))
  <2>1. \A i \in 1..Len(t) : Rune(t[i])
    OBVIOUS
  <2> QED BY <2>1, TextUnits, Zenon
<1>6. s \in [1..l -> Seq(Visible)]
  BY <1>3
<1> HIDE DEF s
<1>7. s \in Seq(Seq(Visible)) /\ Len(s) = l
  BY <1>1, <1>6, IsASeq, LenProperties
<1>8. s \in Seq(Seq(Unit16))
  <2>1. Visible \subseteq Unit16
    BY SMT DEF Visible, Unit16
  <2>2. Seq(Visible) \subseteq Seq(Unit16)
    BY <2>1, SeqMonotonic
  <2> QED BY <1>7, <2>2, SeqMonotonic
<1>9. FlattenSeq(s) = h[l]
  BY <1>5, <1>7, <1>8, FlattenIs
<1>10. PICK g : Partial(g, s, l, Visible)
  BY <1>7, PartialExists
<1>11. FlattenSeq(s) = g[l] /\ g[l] \in Seq(Visible)
  BY <1>7, <1>10, FlattenIs
<1>12. g[l] # <<>>
  <2>1. l - 1 \in 0..l /\ l \in 1..l
    BY <1>1
  <2>2. g[l - 1] \in Seq(Visible) /\ g[l] = g[l - 1] \o s[l]
    BY <1>10, <2>1, Zenon DEF Partial
  <2>3. s[l] \in Seq(Visible) /\ Len(s[l]) > 0
    BY <1>3, <1>4, <2>1, Zenon
  <2>4. Len(g[l - 1] \o s[l]) = Len(g[l - 1]) + Len(s[l]) /\ Len(g[l - 1]) \in Nat /\ Len(s[l]) \in Nat
    BY <2>2, <2>3, ConcatProperties, LenProperties
  <2> QED BY <2>2, <2>3, <2>4
<1> QED BY <1>2, <1>5, <1>9, <1>11, <1>12

\* The slice of Write holds the two bytes of each unit.
LEMMA BytesTogether ==
  ASSUME NEW U \in Seq(Nat)
  PROVE  FlattenSeq([i \in DOMAIN U |-> Bytes(U[i])]) = Pairs(U)
<1> DEFINE l == Len(U)
           s == [i \in DOMAIN U |-> Bytes(U[i])]
           g == [k \in 0..l |-> Pairs(SubSeq(U, 1, k))]
<1>1. l \in Nat /\ DOMAIN U = 1..l /\ \A i \in 1..l : U[i] \in Nat
  BY LenProperties
<1>2. s \in [1..l -> Seq(Nat)] /\ \A i \in 1..l : s[i] = Bytes(U[i])
  BY <1>1, BytesOfUnit
<1>3. \A k \in 0..l : SubSeq(U, 1, k) \in Seq(Nat)
  BY <1>1
<1>4. g \in [0..l -> Seq(Nat)]
  BY <1>3, PairsOf
<1>5. \A k \in 0..l : g[k] = Pairs(SubSeq(U, 1, k))
  BY Zenon
<1> HIDE DEF g, s
<1>6. s \in Seq(Seq(Nat)) /\ Len(s) = l
  BY <1>1, <1>2, IsASeq, LenProperties
<1>7. ASSUME NEW i \in 1..l
      PROVE  g[i] = g[i - 1] \o s[i]
  <2>1. i \in 0..l /\ i - 1 \in 0..l
    BY <1>1
  <2>2. SubSeq(U, 1, i) = Append(SubSeq(U, 1, i - 1), U[i])
    BY <1>1, <2>1
  <2>3. Pairs(Append(SubSeq(U, 1, i - 1), U[i])) = Pairs(SubSeq(U, 1, i - 1)) \o Bytes(U[i])
    BY <1>1, <1>3, <2>1, PairsAppend
  <2> QED BY <1>2, <1>5, <2>1, <2>2, <2>3, Zenon
<1>8. g[0] = <<>>
  <2>1. 0 \in 0..l /\ SubSeq(U, 1, 0) = <<>>
    BY <1>1
  <2>2. <<>> \in Seq(Nat) /\ Len(<<>>) = 0
    OBVIOUS
  <2>3. Pairs(<<>>) \in Seq(Nat) /\ Len(Pairs(<<>>)) = 2 * 0
    BY <2>2, PairsOf, Zenon
  <2>4. Pairs(<<>>) = <<>>
    BY <2>3, EmptySeq
  <2> QED BY <1>5, <2>1, <2>4, Zenon
<1>9. Partial(g, s, l, Nat)
  BY <1>4, <1>7, <1>8 DEF Partial
<1>10. FlattenSeq(s) = g[l]
  BY <1>6, <1>9, FlattenIs
<1>11. l \in 0..l /\ SubSeq(U, 1, l) = U
  BY <1>1
<1> QED BY <1>5, <1>10, <1>11, Zenon DEF s

\* The memory of a slice: what is in it, and zeros up to a capacity.
LEMMA MemoryOf ==
  ASSUME NEW s \in Seq(Nat), NEW c \in Capacities, c >= Len(s),
         \A d \in Capacities : d \in Nat
  PROVE  LET m == Memory(s)
         IN  /\ m \in Seq(Nat) /\ Len(m) \in Capacities /\ Len(m) >= Len(s)
             /\ \A i \in 1..Len(s) : m[i] = s[i]
             /\ \A i \in Len(s) + 1..Len(m) : m[i] = 0
<1> DEFINE l == Len(s)
           fits == {d \in Capacities : d >= l}
           k == Capacity(l)
           z == [i \in 1..k - l |-> 0]
<1>1. l \in Nat
  OBVIOUS
<1>2. \E x \in fits : \A y \in fits : x <= y
  <2>1. fits \in SUBSET Nat /\ fits # {}
    OBVIOUS
  <2> HIDE DEF fits
  <2> QED BY <2>1, Least
<1>3. \E x \in Capacities : x >= l /\ \A d \in Capacities : d >= l => x <= d
  BY <1>2
<1>4. k \in Capacities /\ k >= l
  BY <1>3 DEF Capacity
<1> HIDE DEF k
<1>5. k \in Nat /\ k - l \in Nat
  BY <1>1, <1>4
<1>6. z \in [1..k - l -> Nat] /\ \A i \in 1..k - l : z[i] = 0
  OBVIOUS
<1>7. Memory(s) = s \o z
  BY DEF Memory, k
<1> HIDE DEF z, l
<1>8. z \in Seq(Nat) /\ Len(z) = k - l
  BY <1>5, <1>6, IsASeq, LenProperties
<1>9. /\ s \o z \in Seq(Nat) /\ Len(s \o z) = l + Len(z)
      /\ \A i \in 1..l : (s \o z)[i] = s[i]
      /\ \A i \in 1..Len(z) : (s \o z)[l + i] = z[i]
  BY <1>8, ConcatParts, Zenon DEF l
<1>10. Len(s \o z) = k
  BY <1>1, <1>5, <1>8, <1>9
<1>11. ASSUME NEW i \in l + 1..k
       PROVE  (s \o z)[i] = 0
  <2>1. i - l \in 1..k - l /\ l + (i - l) = i
    BY <1>1, <1>5
  <2> QED BY <1>6, <1>8, <1>9, <2>1, Zenon
<1> QED BY <1>4, <1>7, <1>9, <1>10, <1>11, Zenon DEF l

\* The units in memory.
LEMMA UnitsOf ==
  ASSUME NEW m \in Seq(Nat)
  PROVE  /\ Units(m) \in Seq(Nat) /\ Len(Units(m)) = Len(m) \div 2
         /\ \A i \in 1..Len(m) \div 2 : Units(m)[i] = m[2 * i - 1] + 256 * m[2 * i]
<1> DEFINE u == Units(m)
           h == Len(m) \div 2
           at(i) == m[2 * i - 1] + 256 * m[2 * i]
<1>1. Len(m) \in Nat /\ h \in Nat
  OBVIOUS
<1>2. u = [i \in 1..h |-> at(i)]
  BY DEF Units
<1>3. ASSUME NEW i \in 1..h
      PROVE  at(i) \in Nat
  <2>1. 2 * i - 1 \in 1..Len(m) /\ 2 * i \in 1..Len(m)
    BY <1>1
  <2>2. m[2 * i - 1] \in Nat /\ m[2 * i] \in Nat
    BY <2>1, ElementOfSeq, Zenon
  <2>3. \A x, y \in Nat : x + 256 * y \in Nat
    OBVIOUS
  <2> QED BY <2>2, <2>3, Zenon
<1> HIDE DEF at, u, h
<1>4. u \in [1..h -> Nat] /\ \A i \in 1..h : u[i] = at(i)
  BY <1>2, <1>3
<1>5. u \in Seq(Nat) /\ Len(u) = h
  BY <1>1, <1>4, IsASeq, LenProperties
<1> QED BY <1>4, <1>5, Zenon DEF at, u, h

\* The beginning of a sequence.
LEMMA PrefixOf ==
  ASSUME NEW x \in Seq(Nat), NEW k \in 0..Len(x)
  PROVE  /\ SubSeq(x, 1, k) \in Seq(Nat) /\ Len(SubSeq(x, 1, k)) = k
         /\ \A i \in 1..k : SubSeq(x, 1, k)[i] = x[i]
OBVIOUS

\* What the firmware shows of memory in which a zero unit follows the units of w.
LEMMA DisplaysUpToZero ==
  ASSUME NEW w \in Seq(Visible), NEW m \in Seq(Nat), Len(m) >= 2 * Len(w) + 2,
         \A i \in 1..Len(w) : m[2 * i - 1] + 256 * m[2 * i] = w[i],
         m[2 * Len(w) + 1] = 0, m[2 * Len(w) + 2] = 0
  PROVE  Displays(Units(m)) = {w}
<1> DEFINE l == Len(w)
           u == Units(m)
           zeros == {i \in DOMAIN u : u[i] = 0}
           h == Len(m) \div 2
<1>1. l \in Nat /\ h \in Nat /\ l + 1 \in 1..h
  <2>1. l \in Nat /\ Len(m) \in Nat /\ Len(m) >= 2 * l + 2
    OBVIOUS
  <2> HIDE DEF l
  <2> QED BY <2>1
<1>2. /\ u \in Seq(Nat) /\ Len(u) = h
      /\ \A i \in 1..h : u[i] = m[2 * i - 1] + 256 * m[2 * i]
  BY UnitsOf, Zenon
<1> HIDE DEF u, h
<1>3. DOMAIN u = 1..h
  BY <1>2, LenProperties
<1>4. \A i \in 1..l : u[i] = w[i] /\ w[i] # 0
  <2>1. \A i \in 1..l : i \in 1..h
    BY <1>1
  <2>2. \A i \in 1..l : w[i] \in Visible
    OBVIOUS
  <2>3. \A x \in Visible : x # 0
    BY SMT DEF Visible
  <2> QED BY <1>2, <2>1, <2>2, <2>3, Zenon
<1>5. u[l + 1] = 0
  <2>1. 2 * (l + 1) - 1 = 2 * l + 1 /\ 2 * (l + 1) = 2 * l + 2 /\ 0 + 256 * 0 = 0
    BY <1>1
  <2>2. u[l + 1] = m[2 * (l + 1) - 1] + 256 * m[2 * (l + 1)]
    BY <1>1, <1>2, Zenon
  <2>3. m[2 * (l + 1) - 1] = 0 /\ m[2 * (l + 1)] = 0
    BY <2>1, Zenon
  <2> QED BY <2>2, <2>3
<1>6. l + 1 \in zeros /\ \A i \in zeros : l + 1 <= i
  <2>1. l + 1 \in zeros
    BY <1>1, <1>3, <1>5
  <2>2. ASSUME NEW i \in zeros
        PROVE  l + 1 <= i
    <3>1. i \in 1..h /\ u[i] = 0 /\ i \notin 1..l
      BY <1>3, <1>4
    <3> QED BY <1>1, <3>1
  <2> QED BY <2>1, <2>2
<1>7. Min(zeros) = l + 1
  <2>1. zeros \in SUBSET Nat
    BY <1>3
  <2> HIDE DEF zeros
  <2>2. \A x \in zeros : (\A y \in zeros : x <= y) => x = l + 1
    BY <1>1, <1>6, <2>1
  <2> QED BY <1>6, <2>2 DEF Min
<1>8. SubSeq(u, 1, l) = w
  <2>1. SubSeq(u, 1, l) \in Seq(Nat) /\ Len(SubSeq(u, 1, l)) = l /\ \A i \in 1..l : SubSeq(u, 1, l)[i] = u[i]
    <3>1. l \in 0..Len(u)
      BY <1>1, <1>2
    <3> HIDE DEF l
    <3> QED BY <1>2, <3>1, PrefixOf, Zenon
  <2>2. w \in Seq(Nat)
    <3>1. Visible \subseteq Nat
      BY SMT DEF Visible
    <3> QED BY <3>1, SeqMonotonic
  <2> QED BY <1>4, <2>1, <2>2, SeqEqual
<1>9. Displays(u) = {SubSeq(u, 1, Min(zeros) - 1)}
  BY <1>6 DEF Displays
<1>10. (l + 1) - 1 = l
  BY <1>1
<1> QED BY <1>7, <1>8, <1>9, <1>10, Zenon DEF u

\* A unit is what its two bytes make.
LEMMA UnitOfBytes ==
  ASSUME NEW u \in Nat
  PROVE  Bytes(u)[1] + 256 * Bytes(u)[2] = u
<1>1. (u % 256) + 256 * (u \div 256) = u
  OBVIOUS
<1> QED BY <1>1, BytesOfUnit

\* The same, of the bytes of the units.
LEMMA DisplaysBytes ==
  ASSUME NEW w \in Seq(Visible), NEW m \in Seq(Nat), Len(m) >= 2 * Len(w) + 2,
         \A i \in 1..2 * Len(w) : m[i] = Pairs(w)[i],
         m[2 * Len(w) + 1] = 0, m[2 * Len(w) + 2] = 0
  PROVE  Displays(Units(m)) = {w}
<1>1. w \in Seq(Nat) /\ Len(w) \in Nat
  <2>1. Visible \subseteq Nat
    BY SMT DEF Visible
  <2>2. w \in Seq(Nat)
    BY <2>1, SeqMonotonic, Zenon
  <2> QED BY <2>2, LenProperties
<1>2. ASSUME NEW i \in 1..Len(w)
      PROVE  m[2 * i - 1] + 256 * m[2 * i] = w[i]
  <2>1. 2 * i - 1 \in 1..2 * Len(w) /\ 2 * i \in 1..2 * Len(w)
    BY <1>1
  <2>2. m[2 * i - 1] = Bytes(w[i])[1] /\ m[2 * i] = Bytes(w[i])[2]
    BY <1>1, <2>1, PairsOf, Zenon
  <2>3. w[i] \in Nat
    BY <1>1
  <2>4. Bytes(w[i])[1] + 256 * Bytes(w[i])[2] = w[i]
    BY <2>3, UnitOfBytes
  <2> QED BY <2>2, <2>4
<1> QED BY <1>2, DisplaysUpToZero, Zenon

\* What the runtime's capacities are.
Grows == \A d \in Capacities : d \in Nat /\ d >= 8 /\ d % 2 = 0

\* What a display shows of a slice.
OnDisplay(s) == Displays(Units(Memory(Terminated(s))))

\* A byte more.
LEMMA AppendParts ==
  ASSUME NEW s \in Seq(Nat), NEW z \in Nat
  PROVE  /\ Append(s, z) \in Seq(Nat) /\ Len(Append(s, z)) = Len(s) + 1
         /\ \A i \in 1..Len(s) : Append(s, z)[i] = s[i]
         /\ Append(s, z)[Len(s) + 1] = z
BY AppendProperties

\* Output shows the units that it was given, if the last has a high byte or if there is
\* room behind them.
LEMMA OutputWhole ==
  ASSUME NEW w \in Seq(Visible), w # <<>>, Grows,
         NEW c \in Capacities, c > 2 * Len(w),
         Last(w) >= 256 \/ 2 * Len(w) \notin Capacities
  PROVE  OnDisplay(Pairs(w)) = {w}
<1> DEFINE l == Len(w)
           s == Pairs(w)
           x == Terminated(s)
           m == Memory(x)
<1>1. w \in Seq(Nat) /\ l \in Nat /\ l >= 1 /\ l \in 1..l
  <2>1. Visible \subseteq Nat
    BY SMT DEF Visible
  <2>2. w \in Seq(Nat)
    BY <2>1, SeqMonotonic
  <2>3. l # 0
    BY <2>2, EmptySeq
  <2> QED BY <2>2, <2>3
<1>2. /\ s \in Seq(Nat) /\ Len(s) = 2 * l
      /\ s[2 * l] = Bytes(w[l])[2]
  BY <1>1, PairsOf, Zenon
<1>3. w[l] \in Nat /\ s[2 * l] = w[l] \div 256
  <2>1. w[l] \in Nat
    BY <1>1
  <2> QED BY <1>2, <2>1, BytesOfUnit
<1>4. Last(w) = w[l] /\ Last(s) = s[2 * l]
  BY <1>2, Zenon DEF Last
<1> HIDE DEF s
<1>5. /\ x \in Seq(Nat) /\ Len(x) \in {2 * l, 2 * l + 1}
      /\ \A i \in 1..2 * l : x[i] = s[i]
      /\ Len(x) = 2 * l + 1 => x[2 * l + 1] = 0
      /\ Len(x) = 2 * l => 2 * l \notin Capacities
  <2>1. CASE s[2 * l] # 0
    <3>1. x = Append(s, 0)
      BY <1>4, <2>1 DEF Terminated
    <3>2. /\ Append(s, 0) \in Seq(Nat) /\ Len(Append(s, 0)) = Len(s) + 1
          /\ \A i \in 1..Len(s) : Append(s, 0)[i] = s[i]
          /\ Append(s, 0)[Len(s) + 1] = 0
      <4>1. 0 \in Nat
        OBVIOUS
      <4> QED BY <1>2, <4>1, AppendParts, Zenon
    <3>3. Len(x) = 2 * l + 1 /\ Len(x) # 2 * l
      BY <1>1, <1>2, <3>1, <3>2
    <3> QED BY <1>2, <3>1, <3>2, <3>3, Zenon
  <2>2. CASE s[2 * l] = 0
    <3>1. x = s
      BY <1>4, <2>2 DEF Terminated
    <3>2. ~(Last(w) >= 256)
      BY <1>3, <1>4, <2>2
    <3>3. Len(x) = 2 * l /\ Len(x) # 2 * l + 1
      BY <1>1, <1>2, <3>1
    <3> QED BY <1>2, <3>1, <3>2, <3>3, Zenon
  <2> QED BY <2>1, <2>2
<1> HIDE DEF x
<1>6. c >= Len(x) /\ \A d \in Capacities : d \in Nat
  BY <1>1, <1>5 DEF Grows
<1>7. /\ m \in Seq(Nat) /\ Len(m) \in Capacities /\ Len(m) >= Len(x)
      /\ \A i \in 1..Len(x) : m[i] = x[i]
      /\ \A i \in Len(x) + 1..Len(m) : m[i] = 0
  BY <1>5, <1>6, MemoryOf, Zenon
<1> HIDE DEF m
<1>8. Len(m) >= 2 * l + 2
  <2>1. Len(m) \in Nat /\ Len(m) % 2 = 0 /\ Len(m) # 2 * l
    <3>1. Len(m) \in Nat /\ Len(m) % 2 = 0
      BY <1>7 DEF Grows
    <3>2. CASE Len(x) = 2 * l
      BY <1>5, <1>7, <3>1, <3>2
    <3>3. CASE Len(x) = 2 * l + 1
      BY <1>1, <1>7, <3>1, <3>3
    <3> QED BY <1>5, <3>1, <3>2, <3>3
  <2>2. Len(m) >= 2 * l
    <3>1. Len(x) >= 2 * l /\ Len(x) \in Nat
      <4> HIDE DEF l
      <4> QED BY <1>1, <1>5
    <3>2. Len(m) >= Len(x)
      BY <1>7
    <3> HIDE DEF l
    <3> QED BY <1>1, <2>1, <3>1, <3>2
  <2> HIDE DEF l
  <2> QED BY <1>1, <2>1, <2>2
<1>9. \A i \in 1..2 * l : m[i] = s[i]
  <2>1. \A i \in 1..2 * l : i \in 1..Len(x)
    BY <1>1, <1>5
  <2> QED BY <1>5, <1>7, <2>1, Zenon
<1>10. m[2 * l + 1] = 0 /\ m[2 * l + 2] = 0
  <2>1. 2 * l + 2 \in Len(x) + 1..Len(m)
    BY <1>1, <1>5, <1>7, <1>8
  <2>2. CASE Len(x) = 2 * l
    <3>1. 2 * l + 1 \in Len(x) + 1..Len(m)
      BY <1>1, <1>7, <1>8, <2>2
    <3> QED BY <1>7, <2>1, <3>1, Zenon
  <2>3. CASE Len(x) = 2 * l + 1
    <3>1. 2 * l + 1 \in 1..Len(x)
      BY <1>1, <2>3
    <3> QED BY <1>5, <1>7, <2>1, <2>3, <3>1, Zenon
  <2> QED BY <1>5, <2>2, <2>3
<1>11. Displays(Units(m)) = {w}
  BY <1>7, <1>8, <1>9, <1>10, DisplaysBytes, Zenon DEF s
<1> QED BY <1>11, Zenon DEF OnDisplay, m, x, s

\* Two together.
LEMMA TwoBytes ==
  ASSUME NEW w \in Nat, NEW z \in Nat
  PROVE  Append(<<w>>, z) = <<w, z>> /\ <<w>> \o <<z>> = <<w, z>>
<1> DEFINE x == <<w>>
           b == <<w, z>>
<1>1. x \in Seq(Nat) /\ Len(x) = 1 /\ x[1] = w
  OBVIOUS
<1>2. b \in Seq(Nat) /\ Len(b) = 2 /\ b[1] = w /\ b[2] = z
  OBVIOUS
<1> HIDE DEF x, b
<1>3. Append(x, z) \in Seq(Nat) /\ Len(Append(x, z)) = 2 /\ Append(x, z)[1] = w /\ Append(x, z)[2] = z
  <2>1. /\ Append(x, z) \in Seq(Nat) /\ Len(Append(x, z)) = Len(x) + 1
        /\ \A i \in 1..Len(x) : Append(x, z)[i] = x[i]
        /\ Append(x, z)[Len(x) + 1] = z
    BY <1>1, AppendParts, Zenon
  <2>2. Len(x) + 1 = 2 /\ 1 \in 1..Len(x)
    BY <1>1
  <2> QED BY <1>1, <2>1, <2>2, Zenon
<1>4. \A i \in 1..2 : Append(x, z)[i] = b[i]
  <2>1. \A i \in 1..2 : i = 1 \/ i = 2
    OBVIOUS
  <2> QED BY <1>2, <1>3, <2>1, Zenon
<1>5. Append(x, z) = b
  BY <1>2, <1>3, <1>4, SeqEqual, Zenon
<1>6. x \o <<z>> = Append(x, z)
  BY <1>1
<1> QED BY <1>5, <1>6 DEF x, b

\* One character, as a byte or followed by a unit that is zero, is shown as it is.
LEMMA OutputSmall ==
  ASSUME NEW w \in Visible, NEW s \in {<<w>>, <<w, 0, 0, 0>>}, Grows, NEW c \in Capacities
  PROVE  OnDisplay(s) = {<<w>>}
<1> DEFINE x == Terminated(s)
           m == Memory(x)
<1>0. w \in Nat /\ w # 0
  BY SMT DEF Visible
<1>1. /\ x \in Seq(Nat) /\ Len(x) \in {2, 4} /\ x[1] = w /\ x[2] = 0
      /\ Len(x) = 4 => x[3] = 0 /\ x[4] = 0
  <2>1. CASE s = <<w>>
    <3>1. x = <<w, 0>>
      <4>1. Last(<<w>>) = w
        BY DEF Last
      <4>2. Append(<<w>>, 0) = <<w, 0>>
        <5>1. 0 \in Nat
          OBVIOUS
        <5> QED BY <1>0, <5>1, TwoBytes, Zenon
      <4> QED BY <1>0, <2>1, <4>1, <4>2, Zenon DEF Terminated
    <3> QED BY <1>0, <3>1
  <2>2. CASE s = <<w, 0, 0, 0>>
    <3>1. x = <<w, 0, 0, 0>>
      BY <2>2 DEF Terminated, Last
    <3> QED BY <1>0, <3>1
  <2> QED BY <2>1, <2>2
<1> HIDE DEF x
<1>2. c >= Len(x) /\ \A d \in Capacities : d \in Nat
  <2>1. c \in Nat /\ c >= 8 /\ \A d \in Capacities : d \in Nat
    BY DEF Grows
  <2>2. CASE Len(x) = 2
    BY <2>1, <2>2
  <2>3. CASE Len(x) = 4
    BY <2>1, <2>3
  <2> QED BY <1>1, <2>2, <2>3, Zenon
<1>3. /\ m \in Seq(Nat) /\ Len(m) \in Capacities /\ Len(m) >= Len(x)
      /\ \A i \in 1..Len(x) : m[i] = x[i]
      /\ \A i \in Len(x) + 1..Len(m) : m[i] = 0
  BY <1>1, <1>2, MemoryOf, Zenon
<1> HIDE DEF m
<1>4. Len(m) >= 8 /\ Len(m) \in Nat
  BY <1>3 DEF Grows
<1>5. m[1] + 256 * m[2] = w /\ m[3] = 0 /\ m[4] = 0
  <2>1. 1 \in 1..Len(x) /\ 2 \in 1..Len(x)
    BY <1>1
  <2>2. m[1] = x[1] /\ m[2] = x[2]
    BY <1>3, <2>1, Zenon
  <2>5. w + 256 * 0 = w
    BY <1>0
  <2>3. CASE Len(x) = 2
    <3>1. 3 \in Len(x) + 1..Len(m) /\ 4 \in Len(x) + 1..Len(m)
      BY <1>4, <2>3
    <3> QED BY <1>1, <1>3, <2>2, <2>5, <3>1, Zenon
  <2>4. CASE Len(x) = 4
    <3>1. 3 \in 1..Len(x) /\ 4 \in 1..Len(x)
      BY <2>4
    <3> QED BY <1>1, <1>3, <2>2, <2>4, <2>5, <3>1, Zenon
  <2> QED BY <1>1, <2>3, <2>4
<1>6. <<w>> \in Seq(Visible) /\ Len(<<w>>) = 1 /\ <<w>>[1] = w
  OBVIOUS
<1> DEFINE y == <<w>>
<1>7. y \in Seq(Visible) /\ Len(y) = 1 /\ y[1] = w
  BY <1>6
<1> HIDE DEF y
<1>8. \A i \in 1..Len(y) : m[2 * i - 1] + 256 * m[2 * i] = y[i]
  <2>1. \A i \in 1..Len(y) : i = 1
    BY <1>7
  <2>2. 2 * 1 - 1 = 1 /\ 2 * 1 = 2
    OBVIOUS
  <2> QED BY <1>5, <1>7, <2>1, <2>2, Zenon
<1>9. Len(m) >= 2 * Len(y) + 2 /\ m[2 * Len(y) + 1] = 0 /\ m[2 * Len(y) + 2] = 0
  BY <1>4, <1>5, <1>7
<1>10. Displays(Units(m)) = {y}
  BY <1>3, <1>7, <1>8, <1>9, DisplaysUpToZero, Zenon
<1> QED BY <1>10, Zenon DEF OnDisplay, m, x, y

\* The parameters of the texts, in the words of the lemmas.
LEMMA TextFacts ==
  ASSUME TextParameters
  PROVE  /\ Grows /\ ReplaceTabs \in Nat
         /\ \A t \in Texts : t \in Seq(Nat) /\ \A i \in 1..Len(t) : Rune(t[i]) /\ 0 < t[i]
<1>1. ASSUME NEW t \in Texts, NEW i \in 1..Len(t)
      PROVE  Rune(t[i]) /\ 0 < t[i]
  <2>1. t \in Seq(Nat)
    BY SMT DEF TextParameters
  <2>2. t[i] \in Nat
    BY <2>1
  <2>3. 0 < t[i] /\ t[i] < 1114112
    BY SMT DEF TextParameters
  <2> QED BY <2>2, <2>3, SMT DEF Rune
<1>2. Grows
  BY SMT DEF TextParameters, Grows
<1>3. ReplaceTabs \in Nat /\ \A t \in Texts : t \in Seq(Nat)
  BY SMT DEF TextParameters
<1> QED BY <1>1, <1>2, <1>3

\* The slice of a text is the bytes of what is wanted for it.
LEMMA SliceOf ==
  ASSUME NEW t \in Seq(Nat), \A i \in 1..Len(t) : Rune(t[i]) /\ 0 < t[i],
         t # cub, t # <<>>, ReplaceTabs \in Nat
  PROVE  Slice(t) = Pairs(Wanted(t, ReplaceTabs))
<1> DEFINE w == Wanted(t, ReplaceTabs)
<1>1. w = Expanded(Encode(t)) /\ w \in Seq(Visible)
  BY WantedUnits, Zenon
<1>2. Line(t) = t
  BY Zenon DEF Line
<1>3. Slice(t) = FlattenSeq([i \in DOMAIN w |-> Bytes(w[i])])
  BY <1>1, <1>2, Zenon DEF Slice, Expanded
<1>4. w \in Seq(Nat)
  <2>1. Visible \subseteq Nat
    BY SMT DEF Visible
  <2> HIDE DEF w
  <2> QED BY <1>1, <2>1, SeqMonotonic, Zenon
<1> HIDE DEF w
<1>5. FlattenSeq([i \in DOMAIN w |-> Bytes(w[i])]) = Pairs(w)
  BY <1>4, BytesTogether
<1> QED BY <1>3, <1>5, Zenon DEF w

\* The slice of one character back: a backspace and a zero unit.
LEMMA SliceOfBack ==
  ASSUME ReplaceTabs \in Nat
  PROVE  Slice(cub) = <<8, 0, 0, 0>>
<1> DEFINE t == <<8, 0>>
           e == Expanded(Encode(t))
           s == [i \in 1..2 |-> Shows(t[i], ReplaceTabs)]
<1>1. t \in Seq(Nat) /\ Len(t) = 2 /\ t[1] = 8 /\ t[2] = 0
  OBVIOUS
<1>2. Rune(8) /\ Rune(0)
  BY SMT DEF Rune
<1>3. Shows(8, ReplaceTabs) = <<8>> /\ Shows(0, ReplaceTabs) = <<0>>
  BY SMT DEF Shows, Utf16, tab, lf
<1>4. s[1] = <<8>> /\ s[2] = <<0>>
  BY <1>1, <1>3
<1> HIDE DEF t, s
<1>5. \A i \in 1..Len(t) : Rune(t[i])
  <2>1. \A i \in 1..Len(t) : i = 1 \/ i = 2
    BY <1>1
  <2> QED BY <1>1, <1>2, <2>1, Zenon
<1>6. PICK h : Partial(h, s, 2, Unit16) /\ h[2] = e
  <2>1. \E h : /\ Partial(h, [i \in 1..Len(t) |-> Shows(t[i], ReplaceTabs)], Len(t), Unit16)
               /\ h[Len(t)] = Expanded(Encode(t))
    BY <1>1, <1>5, TextUnits, Zenon
  <2> QED BY <1>1, <2>1, Zenon DEF s
<1>7. e = <<8, 0>>
  <2>1. h[0] = <<>> /\ \A i \in 1..2 : h[i] = h[i - 1] \o s[i]
    BY <1>6, Zenon DEF Partial
  <2>2. 1 \in 1..2 /\ 2 \in 1..2 /\ 1 - 1 = 0 /\ 2 - 1 = 1
    OBVIOUS
  <2>3. h[1] = <<>> \o <<8>> /\ h[2] = h[1] \o <<0>>
    BY <1>4, <2>1, <2>2, Zenon
  <2>4. (<<>> \o <<8>>) \o <<0>> = <<8, 0>>
    <3>1. <<8>> \in Seq(Nat) /\ 8 \in Nat /\ 0 \in Nat
      OBVIOUS
    <3>2. <<>> \o <<8>> = <<8>>
      BY <3>1, ConcatEmptySeq
    <3> QED BY <3>1, <3>2, TwoBytes, Zenon
  <2> QED BY <1>6, <2>3, <2>4, Zenon
<1>8. Line(cub) = t
  BY DEF Line, bs, t
<1>9. Slice(cub) = FlattenSeq([i \in DOMAIN e |-> Bytes(e[i])])
  BY <1>8, Zenon DEF Slice, Expanded
<1> HIDE DEF e
<1>10. e \in Seq(Nat) /\ Len(e) = 2 /\ e[1] = 8 /\ e[2] = 0
  BY <1>7
<1>11. Slice(cub) = Pairs(e)
  BY <1>9, <1>10, BytesTogether, Zenon
<1> DEFINE x == Pairs(e)
           y == <<8, 0, 0, 0>>
<1>12. /\ x \in Seq(Nat) /\ Len(x) = 4
       /\ \A j \in 1..Len(e) : /\ x[2 * j - 1] = Bytes(e[j])[1]
                               /\ x[2 * j] = Bytes(e[j])[2]
  <2>1. /\ x \in Seq(Nat) /\ Len(x) = 2 * Len(e)
        /\ \A j \in 1..Len(e) : /\ x[2 * j - 1] = Bytes(e[j])[1]
                                /\ x[2 * j] = Bytes(e[j])[2]
    BY <1>10, PairsOf, Zenon
  <2>2. 2 * Len(e) = 4
    BY <1>10
  <2> QED BY <2>1, <2>2, Zenon
<1> HIDE DEF x
<1>13. x[1] = 8 /\ x[2] = 0 /\ x[3] = 0 /\ x[4] = 0
  <2>1. 1 \in 1..Len(e) /\ 2 \in 1..Len(e)
    BY <1>10
  <2>2. 2 * 1 - 1 = 1 /\ 2 * 1 = 2 /\ 2 * 2 - 1 = 3 /\ 2 * 2 = 4
    OBVIOUS
  <2>3. /\ x[1] = Bytes(8)[1] /\ x[2] = Bytes(8)[2]
        /\ x[3] = Bytes(0)[1] /\ x[4] = Bytes(0)[2]
    <3>1. /\ x[2 * 1 - 1] = Bytes(e[1])[1] /\ x[2 * 1] = Bytes(e[1])[2]
          /\ x[2 * 2 - 1] = Bytes(e[2])[1] /\ x[2 * 2] = Bytes(e[2])[2]
      BY <1>12, <2>1, Zenon
    <3> QED BY <1>10, <2>2, <3>1, Zenon
  <2>4. 8 % 256 = 8 /\ 8 \div 256 = 0 /\ 0 % 256 = 0 /\ 0 \div 256 = 0
    OBVIOUS
  <2>5. 8 \in Nat /\ 0 \in Nat
    OBVIOUS
  <2>6. Bytes(8)[1] = 8 % 256 /\ Bytes(8)[2] = 8 \div 256
    BY <2>5, BytesOfUnit, Zenon
  <2>7. Bytes(0)[1] = 0 % 256 /\ Bytes(0)[2] = 0 \div 256
    BY <2>5, BytesOfUnit, Zenon
  <2> QED BY <2>3, <2>4, <2>6, <2>7, Zenon
<1>14. x = y
  <2>1. y \in Seq(Nat) /\ Len(y) = 4 /\ y[1] = 8 /\ y[2] = 0 /\ y[3] = 0 /\ y[4] = 0
    OBVIOUS
  <2> HIDE DEF y
  <2>2. \A i \in 1..4 : i = 1 \/ i = 2 \/ i = 3 \/ i = 4
    OBVIOUS
  <2>3. \A i \in 1..4 : x[i] = y[i]
    BY <1>13, <2>1, <2>2, Zenon
  <2> QED BY <1>12, <2>1, <2>3, SeqEqual, Zenon
<1> QED BY <1>11, <1>14, Zenon DEF x, y

\* Write shows a text as it is wanted, if its last unit has a high byte or there is room.
LEMMA WriteExact ==
  ASSUME TextParameters, Room, NEW t \in Texts, t # <<>>,
         LET w == Wanted(t, ReplaceTabs)
         IN  Last(w) >= 256 \/ 2 * Len(w) \notin Capacities
  PROVE  OnDisplay(Slice(t)) = {Wanted(t, ReplaceTabs)}
<1>1. /\ Grows /\ ReplaceTabs \in Nat
      /\ t \in Seq(Nat) /\ \A i \in 1..Len(t) : Rune(t[i]) /\ 0 < t[i]
  BY TextFacts, Zenon
<1>2. PICK c \in Capacities : c > Len(Slice(t))
  BY DEF Room
<1>3. CASE t = cub
  <2>1. Wanted(t, ReplaceTabs) = <<8>>
    BY <1>3, Zenon DEF Wanted, bs
  <2>2. 8 \in Visible
    BY SMT DEF Visible
  <2>3. OnDisplay(<<8, 0, 0, 0>>) = {<<8>>}
    BY <1>1, <2>2, OutputSmall, Zenon
  <2> QED BY <1>1, <1>3, <2>1, <2>3, SliceOfBack, Zenon
<1>4. CASE t # cub
  <2> DEFINE w == Wanted(t, ReplaceTabs)
  <2>1. w \in Seq(Visible) /\ w # <<>>
    BY <1>1, <1>4, WantedUnits, Zenon
  <2>2. Slice(t) = Pairs(w)
    BY <1>1, <1>4, SliceOf, Zenon
  <2>3. Last(w) >= 256 \/ 2 * Len(w) \notin Capacities
    OBVIOUS
  <2> HIDE DEF w
  <2>4. w \in Seq(Nat)
    <3>1. Visible \subseteq Nat
      BY SMT DEF Visible
    <3> QED BY <2>1, <3>1, SeqMonotonic, Zenon
  <2>5. c > 2 * Len(w)
    BY <1>2, <2>2, <2>4, PairsOf, Zenon
  <2>6. OnDisplay(Pairs(w)) = {w}
    BY <1>1, <2>1, <2>3, <2>5, OutputWhole, Zenon
  <2> QED BY <2>2, <2>6, Zenon DEF w
<1> QED BY <1>3, <1>4

\* What is wanted for one character of printk.
LEMMA WantedOne ==
  ASSUME NEW c \in 1..127
  PROVE  Wanted(<<c>>, 0) = IF c = 10 /\ ForceLine THEN <<10, 13>> ELSE <<c>>
<1> DEFINE t == <<c>>
           s == [i \in DOMAIN t |-> Shows(t[i], 0)]
           y == IF c = 10 /\ ForceLine THEN <<10, 13>> ELSE <<c>>
<1>1. t # cub
  <2>1. Len(t) = 1
    OBVIOUS
  <2>2. Len(cub) = 7
    BY DEF cub
  <2> QED BY <2>1, <2>2
<1>2. DOMAIN t = 1..1 /\ t[1] = c
  OBVIOUS
<1>3. Wanted(t, 0) = FlattenSeq(s)
  BY <1>1, Zenon DEF Wanted, Shows
<1>4. Shows(c, 0) = y /\ c \in Visible /\ 10 \in Visible /\ 13 \in Visible
  BY SMT DEF Shows, Utf16, tab, lf, cr, Visible
<1>5. y \in Seq(Visible)
  <2>1. \A a, b \in Visible : <<a>> \in Seq(Visible) /\ <<a, b>> \in Seq(Visible)
    OBVIOUS
  <2> QED BY <1>4, <2>1, Zenon
<1> HIDE DEF t, y
<1>6. s = [i \in 1..1 |-> Shows(t[i], 0)] /\ s[1] = y
  <2>1. 1 \in 1..1
    OBVIOUS
  <2> QED BY <1>2, <1>4, <2>1, Zenon
<1>7. s \in [1..1 -> Seq(Visible)]
  <2>1. \A i \in 1..1 : Shows(t[i], 0) \in Seq(Visible)
    <3>1. \A i \in 1..1 : i = 1
      OBVIOUS
    <3> QED BY <1>2, <1>4, <1>5, <3>1, Zenon
  <2> QED BY <1>6, <2>1
<1> HIDE DEF s
<1>8. s \in Seq(Seq(Visible)) /\ Len(s) = 1
  <2>1. 1 \in Nat
    OBVIOUS
  <2> QED BY <1>7, <2>1, FunctionIsSeq, Zenon
<1> DEFINE g == [i \in 0..1 |-> IF i = 0 THEN <<>> ELSE y]
<1>9. g \in [0..1 -> Seq(Visible)] /\ g[0] = <<>> /\ g[1] = y
  BY <1>5, EmptySeq
<1> HIDE DEF g
<1>10. Partial(g, s, 1, Visible)
  <2>1. \A i \in 1..1 : i = 1 /\ i - 1 = 0
    OBVIOUS
  <2>2. <<>> \o y = y
    BY <1>5, ConcatEmptySeq
  <2>3. \A i \in 1..1 : g[i] = g[i - 1] \o s[i]
    BY <1>6, <1>9, <2>1, <2>2, Zenon
  <2> QED BY <1>9, <2>3 DEF Partial
<1>11. FlattenSeq(s) = g[1]
  BY <1>8, <1>10, FlattenIs
<1> QED BY <1>3, <1>9, <1>11, Zenon DEF t, y

\* What a write shows is what is wanted for the text.
Exact ==
  (text' # <<>> /\ Out /\ (text' # text \/ shown' # shown)) =>
    LET w == Wanted(text', tabs')
    IN  (Last(w) >= 256 \/ 2 * Len(w) \notin Capacities) => shown' = w

\* printk: one character, and a carriage return after a line feed.
LEMMA PrintkExact ==
  ASSUME TextParameters, Room, printk
  PROVE  Exact
<1>1. Grows /\ \E c : c \in Capacities
  <2>1. Grows
    BY TextFacts, Zenon
  <2>2. cub \in Texts
    BY SMT DEF TextParameters
  <2> QED BY <2>1, <2>2, Zenon DEF Room
<1>2. PICK c \in 1..127 :
        /\ text' = <<c>> /\ tabs' = 0
        /\ \E a \in Output(<<c>>),
              b \in IF c = 10 /\ ForceLine THEN Output(<<13>>) ELSE {<<>>} : shown' = a \o b
  BY Zenon DEF printk, lf, cr
<1>3. Out
  BY DEF printk
<1>4. c \in Visible /\ 13 \in Visible
  BY SMT DEF Visible
<1>5. \A x \in Visible : Output(<<x>>) = {<<x>>}
  <2>1. \A x \in Visible : OnDisplay(<<x>>) = {<<x>>}
    BY <1>1, OutputSmall, Zenon
  <2> QED BY <1>3, <2>1, Zenon DEF Output, OnDisplay
<1>6. shown' = IF c = 10 /\ ForceLine THEN <<c>> \o <<13>> ELSE <<c>> \o <<>>
  BY <1>2, <1>4, <1>5, Zenon
<1>7. <<10>> \o <<13>> = <<10, 13>> /\ <<c>> \o <<>> = <<c>>
  <2>1. <<c>> \in Seq(Nat)
    OBVIOUS
  <2>2. <<c>> \o <<>> = <<c>>
    BY <2>1, ConcatEmptySeq
  <2>3. <<10>> \o <<13>> = <<10, 13>>
    <3>1. 10 \in Nat /\ 13 \in Nat
      OBVIOUS
    <3> QED BY <3>1, TwoBytes, Zenon
  <2> QED BY <2>2, <2>3
<1>8. shown' = Wanted(<<c>>, 0)
  BY <1>6, <1>7, WantedOne, Zenon
<1> QED BY <1>2, <1>8, Zenon DEF Exact

\* Write and printk (console.go): a text is shown exactly, if its last unit has a high
\* byte or if it does not fill the memory of the slice.
THEOREM ShellShownExactly == ConsoleSpec => ShownExactly
<1>1. ASSUME [ConsoleNext]_consoleVars
      PROVE  [Exact]_consoleVars
  <2>1. ASSUME UNCHANGED <<text, shown>>
        PROVE  Exact
    BY <2>1, Zenon DEF Exact
  <2>2. CASE Press \/ ReadError \/ NotReady \/ ReadKey \/ ReadFull
    <3>1. UNCHANGED <<text, shown>>
      BY <2>2, Zenon DEF Press, ReadError, NotReady, ReadKey,
                         ReadFull, writing
    <3> QED BY <2>1, <3>1
  <2>3. CASE StartRead
    BY <2>3, Zenon DEF StartRead, Exact
  <2>4. CASE Write
    <3>1. PICK t \in Texts :
            /\ text' = t /\ tabs' = ReplaceTabs
            /\ shown' \in IF t = <<>> THEN {<<>>} ELSE Output(Slice(t))
      BY <2>4, Zenon DEF Write
    <3>2. ASSUME t # <<>>, Out,
                 LET w == Wanted(t, ReplaceTabs)
                 IN  Last(w) >= 256 \/ 2 * Len(w) \notin Capacities
          PROVE  shown' = Wanted(t, ReplaceTabs)
      <4>1. OnDisplay(Slice(t)) = {Wanted(t, ReplaceTabs)}
        BY <3>2, ConsoleAssumptions, RoomAssumption, WriteExact, Zenon
      <4>2. Output(Slice(t)) = OnDisplay(Slice(t))
        BY <3>2, Zenon DEF Output, OnDisplay
      <4> QED BY <3>1, <3>2, <4>1, <4>2, Zenon
    <3> QED BY <3>1, <3>2, Zenon DEF Exact
  <2>5. CASE printk
    BY <2>5, ConsoleAssumptions, RoomAssumption, PrintkExact, Zenon
  <2>6. CASE UNCHANGED consoleVars
    BY <2>6
  <2> QED BY <1>1, <2>2, <2>3, <2>4, <2>5, <2>6, Zenon DEF ConsoleNext, ReadStep
<1> QED BY <1>1, PTL DEF ConsoleSpec, ShownExactly, Exact
=============================================================================
