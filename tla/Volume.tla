------------------------------- MODULE Volume -------------------------------
(***************************************************************************)
(* BootServices.LoadImage of ueficore/image.go and what it is made of: the *)
(* volume of the running image (Services.Root, fs.go), the file, read with *)
(* fs.ReadFile (file.go), and its device path, walked node by node in the  *)
(* firmware's memory (path.go).  Every firmware call may fail.  Addresses  *)
(* and lengths are in bytes and 16 bits wide, as in the code.              *)
(***************************************************************************)
EXTENDS Integers, FiniteSets

CONSTANTS
  FileLens,     \* possible lengths of the file
  Free,         \* room that append leaves, when it grows a slice
  NodeLens,     \* values of the Length of a device path node
  NameBytes,    \* length of the file's name in UTF-16, with its NUL
  MaxDepth,     \* 16
  MaxCalls      \* bound: calls of LoadImage, one after the other

bufferSize == 65536
Word16(n) == n % 65536

ASSUME VolumeAssumptions ==
  /\ FileLens \subseteq Nat /\ Free \in Nat /\ Free > 0
  /\ \A n \in NodeLens : n \in Nat /\ n < 65536
  /\ MaxDepth \in Nat /\ MaxCalls \in Nat /\ 255 * MaxDepth + 4 <= bufferSize
  /\ NameBytes \in Nat /\ NameBytes + 4 < bufferSize

VARIABLES
  fileLen,      \* the file
  pc, outcome,  \* outcome of the last call: "none", "loaded", "error" or "panicked"
  dirs,         \* root directories open at the firmware
  files,        \* files open at the firmware
  refused,      \* history: of these, those whose revision was unknown
  size,         \* ReadFile: capacity of the slice
  got,          \* ReadFile: bytes in it
  cut,          \* history: a firmware read failed with no byte
  mem,          \* offsets of the device path that were read -> node found there
  off,          \* devicePath: offset
  desc,         \* the path that is passed on: offset -> node
  image,        \* length of the image that LoadImage was given
  calls

vars == <<fileLen, pc, outcome, dirs, files, refused, size, got, cut, mem, off, desc, image,
          calls>>
opened == <<dirs, files, refused>>
reading == <<size, got, cut>>
walking == <<mem, off, desc>>

NoNodes == [o \in {} |-> 0]
None == -1

Init ==
  /\ fileLen \in FileLens
  /\ pc = "idle" /\ outcome = "none"
  /\ dirs = 0 /\ files = 0 /\ refused = 0
  /\ size = 0 /\ got = 0 /\ cut = FALSE
  /\ mem = NoNodes /\ off = 0 /\ desc = NoNodes
  /\ image = None /\ calls = 0

Goto(p) == pc' = p /\ UNCHANGED outcome
Return(how) == pc' = "idle" /\ outcome' = how

LoadImage ==
  /\ pc = "idle" /\ calls < MaxCalls /\ outcome # "panicked"
  /\ calls' = calls + 1
  /\ Goto("image")
  /\ size' = 0 /\ got' = 0 /\ cut' = FALSE
  /\ mem' = NoNodes /\ off' = 0 /\ desc' = NoNodes /\ image' = None
  /\ UNCHANGED <<fileLen, opened>>

(***************************************************************************)
(* Services.Root                                                           *)
(***************************************************************************)
\* LoadImageHandle, HandleProtocol for the device path, HandleProtocol for the file
\* system: a failure, or a revision that is not the known one, ends the call.
Protocols ==
  /\ \/ pc = "image" /\ (Goto("device") \/ Return("error"))
     \/ pc = "device" /\ (Goto("system") \/ Return("error"))
     \/ pc = "system" /\ (Goto("volume") \/ Return("error"))
  /\ UNCHANGED <<fileLen, opened, reading, walking, image, calls>>

\* openVolume: a root directory of unknown revision is open, and stays so.
OpenVolume ==
  /\ pc = "volume"
  /\ \/ Goto("open") /\ dirs' = dirs + 1
     \/ Return("error") /\ dirs' \in {dirs, dirs + 1}
  /\ UNCHANGED <<fileLen, files, refused, reading, walking, image, calls>>

(***************************************************************************)
(* fs.ReadFile                                                             *)
(***************************************************************************)
\* FS.Open, and open of file.go.
Open ==
  /\ pc = "open"
  /\ \/ Goto("stat") /\ files' = files + 1 /\ UNCHANGED refused
     \/ Return("error") /\ UNCHANGED <<files, refused>>
     \/ Return("error") /\ files' = files + 1 /\ refused' = refused + 1
  /\ UNCHANGED <<fileLen, dirs, reading, walking, image, calls>>

\* File.Stat and getInfo; ReadFile does without a size when they fail.
Stat ==
  /\ pc = "stat"
  /\ size' \in {1, fileLen + 1}
  /\ Goto("read")
  /\ UNCHANGED <<fileLen, opened, got, cut, walking, image, calls>>

\* Mutant: a short read is the end.
AtEOF_Short(n, room) == n < room

\* No byte is the end of the file, whatever the status (EFI_DEVICE_ERROR, the other
\* half of the test, has no error bit and equals no status).
AtEOF(n, room) == n = 0

\* One turn of ReadFile's loop: a slice that is full grows first; then File.Read.
\* A firmware read that fails leaves the size as it was, or makes it less.
Read ==
  /\ pc = "read"
  /\ LET capacity == IF got >= size THEN size + Free ELSE size
         room == capacity - got
         rest == fileLen - got IN
     /\ size' = capacity
     /\ \E failed \in BOOLEAN, n \in 0..room :
          /\ ~failed => n = IF rest < room THEN rest ELSE room
          /\ cut' = (cut \/ (failed /\ n = 0))
          /\ \/ AtEOF(n, room) /\ got' = got /\ Goto("close")
             \/ ~AtEOF(n, room) /\ ~failed /\ got' = got + n /\ Goto("read")
             \/ ~AtEOF(n, room) /\ failed /\ got' = got + n /\ Goto("closeError")
  /\ UNCHANGED <<fileLen, opened, walking, image, calls>>

\* Mutant: the file is not closed after an error.
Close_NotDeferred ==
  /\ pc \in {"close", "closeError"}
  /\ files' = IF pc = "close" THEN files - 1 ELSE files
  /\ IF pc = "close" THEN Goto("node") ELSE Return("error")
  /\ UNCHANGED <<fileLen, dirs, refused, reading, walking, image, calls>>

\* The deferred File.Close, whose error nobody sees.
Close ==
  /\ pc \in {"close", "closeError"}
  /\ files' = files - 1
  /\ IF pc = "close" THEN Goto("node") ELSE Return("error")
  /\ UNCHANGED <<fileLen, dirs, refused, reading, walking, image, calls>>

(***************************************************************************)
(* FS.FilePath                                                             *)
(***************************************************************************)
Nodes == [end : {FALSE}, len : NodeLens] \cup [end : {TRUE}, len : {4}]
Put(f, o, node) == [x \in DOMAIN f \cup {o} |-> IF x = o THEN node ELSE f[x]]

BadLength(len) == len = 0 \/ len > 255

\* d.Length - 4, in 16 bits, is out of the buffer for the lengths below 4.
DataSize(len) == Word16(len - 4)
SlicePanics(len) == off + 4 + DataSize(len) > bufferSize

\* One turn of devicePath's loop, over the firmware's memory.
Node ==
  /\ pc = "node"
  /\ \/ /\ Cardinality(DOMAIN mem) = MaxDepth
        /\ Return("error") /\ UNCHANGED <<mem, off>>
     \/ /\ Cardinality(DOMAIN mem) < MaxDepth
        /\ \E node \in Nodes :
             /\ mem' = Put(mem, off, node)
             /\ \/ node.end /\ Goto("path") /\ UNCHANGED off
                \/ ~node.end /\ BadLength(node.len) /\ Return("error") /\ UNCHANGED off
                \/ /\ ~node.end /\ ~BadLength(node.len) /\ SlicePanics(node.len)
                   /\ Return("panicked") /\ UNCHANGED off
                \/ /\ ~node.end /\ ~BadLength(node.len) /\ ~SlicePanics(node.len)
                   /\ off' = off + 4 + DataSize(node.len) /\ Goto("node")
  /\ UNCHANGED <<fileLen, opened, reading, desc, image, calls>>

\* Mutant: the end node of the device is copied, too.
Copied_End == {o \in DOMAIN mem : o <= off}

\* desc = make([]byte, off); copy(desc, buf)
Copied == {o \in DOMAIN mem : o < off}

\* The end of devicePath; then the node of the file and an end node are appended.
FilePath ==
  /\ pc = "path"
  /\ LET fileAt == IF Copied = {} THEN 0
                   ELSE CHOOSE e \in {o + mem[o].len : o \in Copied} :
                          \A o \in Copied : o + mem[o].len <= e
         endAt == fileAt + 4 + NameBytes IN
     desc' = Put(Put([o \in Copied |-> mem[o]],
                     fileAt, [end |-> FALSE, len |-> Word16(4 + NameBytes)]),
                 endAt, [end |-> TRUE, len |-> 4])
  /\ Goto("load")
  /\ UNCHANGED <<fileLen, opened, reading, mem, off, image, calls>>

\* ptrval(&buf[0]) panics for an empty file; else the firmware loads the image, or not.
CallLoadImage ==
  /\ pc = "load"
  /\ \/ got = 0 /\ Return("panicked") /\ UNCHANGED image
     \/ got > 0 /\ image' = got /\ (Return("loaded") \/ Return("error"))
  /\ UNCHANGED <<fileLen, opened, reading, walking, calls>>

Next ==
  \/ LoadImage \/ Protocols \/ OpenVolume \/ Open \/ Stat \/ Read \/ Close \/ Node
  \/ FilePath \/ CallLoadImage

Spec == Init /\ [][Next]_vars
-----------------------------------------------------------------------------
\* Types.
TypeOK ==
  /\ pc \in {"idle", "image", "device", "system", "volume", "open", "stat", "read", "close",
             "closeError", "node", "path", "load"}
  /\ outcome \in {"none", "loaded", "error", "panicked"}
  /\ dirs \in Nat /\ files \in Nat /\ refused \in Nat /\ calls \in Nat
  /\ size \in Nat /\ got \in Nat /\ cut \in BOOLEAN /\ off \in Nat
  /\ image \in Nat \cup {None}

\* The firmware gets the whole file as an image, over all sizes of the slice and failures
\* of Stat, unless a firmware read failed with no byte (ImageWhole).
ImageWholeUnlessCut ==
  image # None => image <= fileLen /\ (image = fileLen \/ cut)

\* However a call ends, its file is closed; only a file whose revision is not known
\* stays open.  Root directories stay open, one for each call at most.
FilesClosed ==
  /\ pc = "idle" => files = refused
  /\ dirs <= calls

\* The path that the firmware gets is a chain: the length of each node leads to the next,
\* from the device's first node over the file's to the end node, and no other node is
\* an end node.  The walk stays inside the 64 KiB that were reserved, and when it comes
\* to no result and no error, then at a node that is shorter than its own header.
PathIsChain ==
  /\ pc = "load" =>
       /\ 0 \in DOMAIN desc
       /\ Cardinality({o \in DOMAIN desc : desc[o].end}) = 1
       /\ \A o \in DOMAIN desc : desc[o].end \/ o + desc[o].len \in DOMAIN desc
       /\ \A o \in DOMAIN mem : ~mem[o].end => o \in DOMAIN desc /\ desc[o] = mem[o]
  /\ off + 4 <= bufferSize
  /\ outcome = "panicked" => got = 0 \/ (off \in DOMAIN mem /\ mem[off].len \in 1..3)

-----------------------------------------------------------------------------
\* What the repository says and the code does not do: each statement is false in this
\* specification, as TLC shows when it stands in the configuration (see README).

\* "At end of file, Read returns 0, io.EOF" (file.go:242), and at no other place.
ImageWhole == image # None => image = fileLen

\* "we prefer to keep have control on this parsing tiven that UEFI firmware does not
\* handle gracefully invalid pointers" (path.go:45-47).
NeverPanics == outcome = "panicked" => got = 0

\* "File.Close must be called to release any associated resources" (fs.go:84): nothing
\* stays open after a call.
NothingOpen == pc = "idle" => dirs = 0 /\ files = 0
=============================================================================
