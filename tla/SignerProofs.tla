---------------------------- MODULE SignerProofs ----------------------------
(***************************************************************************)
(* Proofs about Signer, for every set of kernels, initrds and command      *)
(* lines, and any number of runs and of faults.  What a boot accepts was   *)
(* written several commands earlier, line by line: EfiInv says for each    *)
(* line of efi what /tmp/ukicfg and the .cfg section have by then, with    *)
(* the lines that a failed pipeline shortens or leaves out, and BootInv    *)
(* keeps it for the signed image, whatever is run afterwards.              *)
(*                                                                         *)
(* And about Stub0, which boots what `setup-efi unsigned' leaves: for any  *)
(* length of CMDLINE and of its buffers.                                   *)
(***************************************************************************)
EXTENDS Signer, Stub0, SequenceTheorems, TLAPS

FileOrNone == Blobs \cup {NoBlob}
Text == Cmds \cup {""}

Lines ==
  [t : {"UKI", "blank"}] \cup [t : {"len"}, n : 0..MaxLen]
  \cup [t : {"sha"}, d : {Sha(Full(b)) : b \in Blobs}] \cup [t : {"cmd"}, c : Text]

Results == [how : {"off", "refused", "verified", "unverified"}, kernel : FileOrNone,
            initrd : FileOrNone, cmd : Text]

Images == [kind : {"none", "torn", "signed", "stub0", "ministub"}, cfg : Seq(Lines),
           names : Results, raced : BOOLEAN, lost : BOOLEAN]

Points == {"idle", "uki", "cp", "cp2", "klen", "ksha", "initrd", "isha", "cmd", "objcopy", "sign",
           "sign2", "cmdline", "cmdline2", "stub", "stub2", "write", "write2"} \cup KeyFiles

Runs == [op : {"idle", "efi", "unsigned", "base_initrd", "sign_init"}, at : Points,
         env : {"default", "NONE", "other"}, cmd : Text,
         stub : {"", "ministub", "stub0"}, raced : BOOLEAN, lost : BOOLEAN]

Partitions == [kernel : Kernels \cup Torns \cup {NoBlob},
               initrd : Initrds \cup Torns \cup {NoBlob}, boot : Images,
               cmdline : [text : Text, initrd : BOOLEAN]]

\* Types of all variables.
Types ==
  /\ run \in Runs
  /\ src \in [kernel : Kernels, other : Initrds]
  /\ esp \in Partitions
  /\ ukicfg \in Seq(Lines) /\ efi_in \in Seq(Lines)
  /\ hashed \in [kernel : FileOrNone, initrd : FileOrNone]
  /\ fresh \in Results /\ ran \in Results

\* What a configuration says of a kernel k: its digest, and, if no upgrade came in
\* between and no pipeline failed, its length.
KernelLines(c, k, exact) ==
  /\ Len(c) >= 3 /\ c[1] = Magic
  /\ \E n \in 0..MaxLen : c[2] = LenLine(n) /\ (exact => n = BlobLen[k])
  /\ c[3] = ShaLine(Sha(Full(k)))

\* A configuration without the digest of the kernel: a length stands in its place.
NoDigest(c) == Len(c) >= 3 /\ c[3].t = "len"

\* The fourth line, for an initrd i or none: its length, or less.
LenOf(i) == IF Present(i) THEN BlobLen[i] ELSE 0
InitrdLen(c, i, exact) ==
  /\ Len(c) >= 4
  /\ \E n \in 0..LenOf(i) : c[4] = LenLine(n) /\ (exact => n = LenOf(i))

\* The fifth line.
InitrdSha(c, i) == Len(c) >= 5 /\ (Present(i) => c[5] = ShaLine(Sha(Full(i))))

\* A whole configuration: the six lines; or five, the command line in the place of the
\* digest of the initrd; or one that stub2 refuses.
Describes(c, k, i, cmd, exact, lost) ==
  \/ /\ KernelLines(c, k, exact /\ ~lost) /\ InitrdLen(c, i, ~lost)
     /\ \/ InitrdSha(c, i) /\ Len(c) >= 6 /\ c[6] = CmdLine(cmd)
        \/ lost /\ Len(c) >= 6 /\ c[5] = CmdLine(cmd) /\ c[6] = Blank
  \/ lost /\ NoDigest(c)

Exact == ~run.raced /\ ~run.lost

\* A run of efi, line by line.
EfiInv ==
  run.op = "efi" =>
    /\ run.at \in {"cp", "cp2", "klen"} => Len(ukicfg) = 1 /\ ukicfg[1] = Magic
    /\ run.at = "ksha" =>
         /\ Len(ukicfg) = 2 /\ ukicfg[1] = Magic
         /\ \E n \in 0..MaxLen : ukicfg[2] = LenLine(n) /\ (Exact => n = BlobLen[src.kernel])
    /\ run.at \in {"initrd", "isha", "cmd", "objcopy", "sign", "sign2"} =>
         hashed.kernel \in Kernels /\ (~run.raced => hashed.kernel = src.kernel)
    /\ run.at = "initrd" =>
         \/ Len(ukicfg) = 3 /\ KernelLines(ukicfg, hashed.kernel, Exact)
         \/ run.lost /\ Len(ukicfg) = 2
    /\ run.at = "isha" =>
         /\ hashed.initrd = InitrdFile
         /\ \/ /\ Len(ukicfg) = 4 /\ KernelLines(ukicfg, hashed.kernel, Exact)
               /\ InitrdLen(ukicfg, hashed.initrd, ~run.lost)
            \/ run.lost /\ NoDigest(ukicfg)
    /\ run.at = "cmd" =>
         \/ /\ KernelLines(ukicfg, hashed.kernel, Exact)
            /\ InitrdLen(ukicfg, hashed.initrd, ~run.lost)
            /\ \/ Len(ukicfg) = 5 /\ InitrdSha(ukicfg, hashed.initrd)
               \/ run.lost /\ Len(ukicfg) = 4
         \/ run.lost /\ NoDigest(ukicfg)
    /\ run.at = "objcopy" =>
         Describes(ukicfg, hashed.kernel, hashed.initrd, run.cmd, ~run.raced, run.lost)
    /\ run.at \in {"sign", "sign2"} =>
         Describes(efi_in, hashed.kernel, hashed.initrd, run.cmd, ~run.raced, run.lost)
    /\ run.at \in {"klen", "ksha", "initrd", "isha", "cmd", "objcopy", "sign", "sign2"} /\ ~run.raced =>
         esp.kernel = src.kernel

\* A signed image: its configuration describes what its names say.
BootInv ==
  esp.boot.kind = "signed" =>
    \E k \in Kernels, i \in FileOrNone :
      /\ Describes(esp.boot.cfg, k, i, esp.boot.names.cmd, ~esp.boot.raced, esp.boot.lost)
      /\ esp.boot.names = Started("verified", k, InEffect(i), esp.boot.names.cmd)

\* A run of another command.
CommandInv ==
  /\ run.op = "sign_init" => run.at \in KeyFiles
  /\ run.op = "unsigned" =>
       /\ run.at \in {"cmdline", "cmdline2", "cp", "cp2", "stub", "stub2"}
       /\ run.stub \in {"ministub", "stub0"}
       /\ run.at \notin {"cmdline", "cmdline2"} =>
            esp.cmdline = [text |-> run.cmd, initrd |-> Present(esp.initrd)]
       /\ run.at \in {"stub", "stub2"} => esp.kernel \in Kernels

\* While a command runs, nothing was booted and nothing is fresh; the last boot was that of
\* the image that is there, and a fresh image is that of the files that are there.
LastInv ==
  /\ run.op = "idle" <=> run = Idle
  /\ run # Idle => ran = NotBooted /\ fresh = NotBooted
  /\ ran.how = "verified" => esp.boot.kind = "signed"
  /\ fresh.how = "verified" =>
       /\ esp.boot.kind = "signed" /\ ~esp.boot.raced /\ ~esp.boot.lost
       /\ fresh = esp.boot.names /\ fresh.kernel = esp.kernel
  /\ fresh.how = "unverified" =>
       /\ esp.boot.kind # "signed" /\ esp.kernel \in Kernels
       /\ esp.cmdline = [text |-> fresh.cmd, initrd |-> Present(esp.initrd)]
       /\ fresh = Started("unverified", esp.kernel, esp.initrd, fresh.cmd)

IInv == Types /\ EfiInv /\ BootInv /\ CommandInv /\ LastInv /\ RunsOnlyBound
-----------------------------------------------------------------------------
(***************************************************************************)
(* The constants, and the lines of a configuration                         *)
(***************************************************************************)
\* Files have lengths, and NoBlob is none of them.
LEMMA FileFacts ==
  /\ NoBlob \notin Blobs /\ MaxLen \in Nat
  /\ Kernels \subseteq Blobs /\ Initrds \subseteq Blobs /\ Torns \subseteq Blobs
  /\ \A b \in Blobs : BlobLen[b] \in 0..MaxLen
  /\ \A b \in Blobs : Full(b) \in Bytes
BY FilesAssumptions, SignerAssumptions DEF Full, Prefix, Bytes

\* Every line that efi writes is a line.
LEMMA LineTypes ==
  /\ {Magic, Blank} \subseteq Lines
  /\ \A n \in 0..MaxLen : LenLine(n) \in Lines
  /\ \A b \in Blobs : ShaLine(Sha(Full(b))) \in Lines
  /\ \A c \in Text : CmdLine(c) \in Lines
BY DEF Magic, Blank, LenLine, ShaLine, CmdLine, Lines

\* A line more: the earlier ones stay, the new one is the last.
LEMMA OneMore ==
  ASSUME NEW c \in Seq(Lines), NEW line \in Lines
  PROVE  /\ Append(c, line) \in Seq(Lines)
         /\ Len(Append(c, line)) = Len(c) + 1
         /\ \A j \in 1..Len(c) : Append(c, line)[j] = c[j]
         /\ Append(c, line)[Len(c) + 1] = line
BY AppendProperties

\* Two lines more.
LEMMA TwoMore ==
  ASSUME NEW c \in Seq(Lines), NEW x \in Lines, NEW y \in Lines
  PROVE  /\ c \o <<x, y>> \in Seq(Lines)
         /\ Len(c \o <<x, y>>) = Len(c) + 2
         /\ \A j \in 1..Len(c) : (c \o <<x, y>>)[j] = c[j]
         /\ (c \o <<x, y>>)[Len(c) + 1] = x /\ (c \o <<x, y>>)[Len(c) + 2] = y
<1>1. <<x, y>> \in Seq(Lines) /\ Len(<<x, y>>) = 2 /\ <<x, y>>[1] = x /\ <<x, y>>[2] = y
  OBVIOUS
<1>2. Len(c) \in Nat
  OBVIOUS
<1> DEFINE d == <<x, y>>
<1> HIDE DEF d
<1> QED
  BY <1>1, <1>2, ConcatProperties DEF d

\* What a configuration says of its kernel and its initrd stays when lines are added.
Extends(d, c) == Len(c) <= Len(d) /\ \A j \in 1..Len(c) : d[j] = c[j]

LEMMA KernelStays ==
  ASSUME NEW c \in Seq(Lines), NEW d \in Seq(Lines), Extends(d, c),
         NEW k, NEW exact \in BOOLEAN, KernelLines(c, k, exact)
  PROVE  KernelLines(d, k, exact)
BY LenProperties DEF Extends, KernelLines

LEMMA InitrdStays ==
  ASSUME NEW c \in Seq(Lines), NEW d \in Seq(Lines), Extends(d, c),
         NEW i, NEW exact \in BOOLEAN, InitrdLen(c, i, exact)
  PROVE  InitrdLen(d, i, exact)
BY LenProperties DEF Extends, InitrdLen

LEMMA DigestStays ==
  ASSUME NEW c \in Seq(Lines), NEW d \in Seq(Lines), Extends(d, c)
  PROVE  /\ \A i : InitrdSha(c, i) => InitrdSha(d, i)
         /\ NoDigest(c) => NoDigest(d)
BY LenProperties DEF Extends, InitrdSha, NoDigest

\* And when less is asked of it.
LEMMA LinesWeaken ==
  ASSUME NEW c, NEW exact \in BOOLEAN, NEW weaker \in BOOLEAN, weaker => exact
  PROVE  /\ \A k : KernelLines(c, k, exact) => KernelLines(c, k, weaker)
         /\ \A i : InitrdLen(c, i, exact) => InitrdLen(c, i, weaker)
BY DEF KernelLines, InitrdLen

\* The length of an initrd that is not there is zero.
LEMMA LenOfFacts ==
  ASSUME NEW i \in FileOrNone
  PROVE  /\ LenOf(i) \in Nat /\ (Present(i) => i \in Blobs)
         /\ LenOf(i) > 0 => Present(i) /\ InEffect(i) = i /\ LenOf(i) = BlobLen[i]
         /\ LenOf(i) = 0 => InEffect(i) = NoBlob
BY FileFacts DEF LenOf, InEffect, Present, FileOrNone

-----------------------------------------------------------------------------
(***************************************************************************)
(* Types                                                                   *)
(***************************************************************************)
\* An assignment to one field of a record keeps its type.
LEMMA FieldTypes ==
  /\ \A r \in Runs : /\ \A x \in Points : [r EXCEPT !.at = x] \in Runs
                     /\ \A b \in BOOLEAN : [r EXCEPT !.raced = b] \in Runs
  /\ \A e \in Partitions :
       /\ \A k \in Kernels \cup Torns : [e EXCEPT !.kernel = k] \in Partitions
       /\ \A i \in Initrds \cup Torns : [e EXCEPT !.initrd = i] \in Partitions
       /\ \A b \in Images : [e EXCEPT !.boot = b] \in Partitions
       /\ \A c \in [text : Text, initrd : BOOLEAN] : [e EXCEPT !.cmdline = c] \in Partitions
  /\ \A h \in [kernel : FileOrNone, initrd : FileOrNone], f \in FileOrNone :
       /\ [h EXCEPT !.kernel = f] \in [kernel : FileOrNone, initrd : FileOrNone]
       /\ [h EXCEPT !.initrd = f] \in [kernel : FileOrNone, initrd : FileOrNone]
BY DEF Runs, Partitions

\* What the files and the firmware may give is of the right type.
LEMMA ValueTypes ==
  /\ Idle \in Runs
  /\ \A env \in InitrdEnv, cmd \in Cmds :
       [Idle EXCEPT !.op = "efi", !.at = "uki", !.env = env, !.cmd = cmd] \in Runs
  /\ \A stub \in {"ministub", "stub0"}, cmd \in Cmds :
       [Idle EXCEPT !.op = "unsigned", !.at = "cmdline", !.cmd = cmd, !.stub = stub] \in Runs
  /\ [Idle EXCEPT !.op = "base_initrd", !.at = "write"] \in Runs
  /\ [Idle EXCEPT !.op = "sign_init", !.at = "db.key"] \in Runs
  /\ {NotBooted, Refused} \subseteq Results
  /\ \A how \in {"verified", "unverified"}, k \in FileOrNone, i \in FileOrNone, c \in Text :
       Started(how, k, i, c) \in Results
  /\ \A kind \in {"none", "torn", "stub0", "ministub"} : Image(kind) \in Images
  /\ \A c \in Seq(Lines), r \in Results, raced \in BOOLEAN, lost \in BOOLEAN :
       Signed(c, r, raced, lost) \in Images
<1>1. Idle \in Runs
  BY DEF Idle, Text, Runs, Points
<1>2. \A env \in InitrdEnv, cmd \in Cmds :
       [Idle EXCEPT !.op = "efi", !.at = "uki", !.env = env, !.cmd = cmd] \in Runs
  BY <1>1, SignerAssumptions DEF Text, Runs, Points
<1>3. \A stub \in {"ministub", "stub0"}, cmd \in Cmds :
       [Idle EXCEPT !.op = "unsigned", !.at = "cmdline", !.cmd = cmd, !.stub = stub] \in Runs
  BY <1>1 DEF Text, Runs, Points
<1>4. /\ [Idle EXCEPT !.op = "base_initrd", !.at = "write"] \in Runs
      /\ [Idle EXCEPT !.op = "sign_init", !.at = "db.key"] \in Runs
  BY <1>1 DEF Runs, Points, KeyFiles
<1>5. {NotBooted, Refused} \subseteq Results
  <2>1. Refused \in Results
    BY DEF Refused, Results, Text, FileOrNone
  <2> QED
    BY <2>1 DEF NotBooted, Results
<1>6. \A how \in {"verified", "unverified"}, k \in FileOrNone, i \in FileOrNone, c \in Text :
       Started(how, k, i, c) \in Results
  BY DEF Started, Results
<1>7. \A kind \in {"none", "torn", "stub0", "ministub"} : Image(kind) \in Images
  BY <1>5, EmptySeq DEF Image, Images
<1>8. \A c \in Seq(Lines), r \in Results, raced \in BOOLEAN, lost \in BOOLEAN :
       Signed(c, r, raced, lost) \in Images
  BY DEF Signed, Images
<1> QED
  BY <1>1, <1>2, <1>3, <1>4, <1>5, <1>6, <1>7, <1>8

\* A boot ends in one of three ways.
LEMMA BootResults ==
  ASSUME NEW m \in Machines
  PROVE  /\ esp.boot.kind = "signed" => BootResult(m) = Stub2Boot(esp.boot.cfg, m)
         /\ esp.boot.kind = "stub0" /\ ~m.secure => BootResult(m) = Stub0Boot
         /\ esp.boot.kind # "signed" => BootResult(m) \in {Stub0Boot, Refused}
BY Zenon DEF BootResult

\* The initrd that efi looks at.
LEMMA InitrdFileType == Types => InitrdFile \in FileOrNone
BY FileFacts DEF Types, Runs, Partitions, InitrdFile, FileOrNone

\* The next line of a command is one of the same command.
Moved(line) ==
  /\ line \in Points => run' \in Runs
  /\ run'.op = run.op /\ run'.at = line
  /\ run'.cmd = run.cmd /\ run'.raced = run.raced /\ run'.stub = run.stub /\ run'.env = run.env

LEMMA Advanced ==
  ASSUME Types, NEW line, Advance(line)
  PROVE  Moved(line) /\ run'.lost = run.lost
<1>1. line \in Points => run' \in Runs
  BY FieldTypes DEF Types, Advance
<1> QED
  BY <1>1 DEF Types, Runs, Advance, Moved

LEMMA PipeTypes ==
  ASSUME NEW r \in Runs, NEW x \in Points, NEW b \in BOOLEAN
  PROVE  [r EXCEPT !.at = x, !.lost = b] \in Runs
BY DEF Runs

LEMMA Piped ==
  ASSUME Types, NEW line, NEW lost \in BOOLEAN, Pipe(line, lost)
  PROVE  Moved(line) /\ run'.lost = (run.lost \/ lost)
<1>1. run \in Runs /\ run.lost \in BOOLEAN
  BY DEF Types, Runs
<1>2. run' = [run EXCEPT !.at = line, !.lost = run.lost \/ lost]
  BY DEF Pipe
<1>3. line \in Points => run' \in Runs
  BY <1>1, <1>2, PipeTypes
<1> QED
  BY <1>1, <1>2, <1>3 DEF Moved, Runs

\* /tmp/ukicfg with one line more.
Grown(line) ==
  /\ ukicfg' \in Seq(Lines) /\ Len(ukicfg') = Len(ukicfg) + 1
  /\ \A j \in 1..Len(ukicfg) : ukicfg'[j] = ukicfg[j]
  /\ ukicfg'[Len(ukicfg) + 1] = line

LEMMA Appended ==
  ASSUME Types, NEW line \in Lines, Append1(line)
  PROVE  Grown(line)
<1>1. ukicfg \in Seq(Lines) /\ ukicfg' = Append(ukicfg, line)
  BY DEF Types, Append1
<1> QED
  BY <1>1, OneMore DEF Grown

\* cat | wc -c adds a length, that of the file if cat did not fail.
LEMMA Counted ==
  ASSUME Types, NEW f \in Blobs, NEW line, CatWc(f, line)
  PROVE  /\ Moved(line)
         /\ \E n \in 0..BlobLen[f] :
              /\ n \in 0..MaxLen /\ Grown(LenLine(n))
              /\ run'.lost = (run.lost \/ n # BlobLen[f])
<1>1. PICK n \in 0..BlobLen[f] : Append1(LenLine(n)) /\ Pipe(line, n # BlobLen[f])
  BY DEF CatWc
<1>2. BlobLen[f] \in 0..MaxLen /\ MaxLen \in Nat
  BY FileFacts
<1>3. n \in 0..MaxLen
  BY <1>2
<1>4. Grown(LenLine(n))
  BY <1>1, <1>3, LineTypes, Appended
<1>5. Moved(line) /\ run'.lost = (run.lost \/ n # BlobLen[f])
  <2> DEFINE short == n # BlobLen[f]
  <2>1. short \in BOOLEAN /\ Pipe(line, short)
    BY <1>1
  <2> HIDE DEF short
  <2>2. Moved(line) /\ run'.lost = (run.lost \/ short)
    BY <2>1, Piped
  <2> QED
    BY <2>2 DEF short
<1> QED
  BY <1>3, <1>4, <1>5

\* sha256sum | cut adds the digest, or nothing and says nothing.
LEMMA Digested ==
  ASSUME Types, NEW f \in Blobs, NEW line, Sha256sum(f, line)
  PROVE  /\ Moved(line)
         /\ \/ Grown(ShaLine(Sha(Full(f)))) /\ run'.lost = run.lost
            \/ ukicfg' = ukicfg /\ run'.lost
<1>1. CASE Append1(ShaLine(Sha(Full(f)))) /\ Pipe(line, FALSE)
  <2>1. ShaLine(Sha(Full(f))) \in Lines
    BY LineTypes
  <2>2. Moved(line) /\ run'.lost = (run.lost \/ FALSE)
    BY <1>1, Piped
  <2>3. run.lost \in BOOLEAN
    BY DEF Types, Runs
  <2> QED
    BY <1>1, <2>1, <2>2, <2>3, Appended
<1>2. CASE UNCHANGED ukicfg /\ Pipe(line, TRUE)
  <2>1. Moved(line) /\ run'.lost = (run.lost \/ TRUE)
    BY <1>2, Piped
  <2> QED
    BY <1>2, <2>1
<1> QED
  BY <1>1, <1>2 DEF Sha256sum

\* echo 0 adds a zero.
LEMMA Zeroed ==
  ASSUME Types, NEW line, Append1(LenLine(0)), Pipe(line, FALSE)
  PROVE  Moved(line) /\ run'.lost = run.lost /\ Grown(LenLine(0))
<1>1. LenLine(0) \in Lines
  BY FileFacts, LineTypes
<1>2. Moved(line) /\ run'.lost = (run.lost \/ FALSE)
  BY Piped
<1>3. run.lost \in BOOLEAN
  BY DEF Types, Runs
<1> QED
  BY <1>1, <1>2, <1>3, Appended

\* Every variable keeps its type.
LEMMA TypesStep == Types /\ CommandInv /\ [Next]_vars => Types'
<1> SUFFICES ASSUME Types, CommandInv, [Next]_vars
             PROVE  Types'
  OBVIOUS
<1> USE DEF Types
<1>1. ASSUME NEW r \in Runs, Begin(r)
      PROVE  Types'
  BY <1>1, ValueTypes DEF Begin, NoneHashed, FileOrNone
<1>2. Kernels \cup Initrds \cup Torns \subseteq FileOrNone
  BY FileFacts DEF FileOrNone
<1>3. CASE \E env \in InitrdEnv, cmd \in Cmds : Efi(env, cmd)
  BY <1>1, <1>3, ValueTypes DEF Efi
<1>4. CASE \E stub \in {"ministub", "stub0"}, cmd \in Cmds : Unsigned(stub, cmd)
  BY <1>1, <1>4, ValueTypes DEF Unsigned
<1>5. CASE BaseInitrd
  BY <1>1, <1>5, ValueTypes DEF BaseInitrd
<1>6. CASE SignInit
  BY <1>1, <1>6, ValueTypes DEF SignInit
<1>7. CASE EfiUki
  <2>1. ukicfg' \in Seq(Lines)
    BY <1>7, LineTypes DEF EfiUki
  <2> QED
    BY <1>7, <2>1, FieldTypes DEF EfiUki, At, Advance, Points, Runs
<1>8. CASE CopyKernel("efi", "klen") \/ CopyKernel("unsigned", "stub")
  <2>1. esp' \in Partitions
    BY <1>8, FieldTypes DEF CopyKernel
  <2>2. run' \in Runs /\ run'.op \in {"efi", "unsigned"}
    BY <1>8 DEF CopyKernel, At, Advance, Points, Runs
  <2> QED
    BY <1>8, <2>1, <2>2 DEF CopyKernel
<1>9. CASE EfiKernelLen
  <2>1. src.kernel \in Blobs
    BY FileFacts
  <2>2. run' \in Runs /\ ukicfg' \in Seq(Lines)
    BY <1>9, <2>1, Counted DEF EfiKernelLen, Moved, Grown, Points
  <2> QED
    BY <1>9, <2>2 DEF EfiKernelLen
<1>10. CASE EfiKernelSha
  <2>1. src.kernel \in Blobs
    BY FileFacts
  <2>2. run' \in Runs /\ ukicfg' \in Seq(Lines)
    BY <1>10, <2>1, Digested DEF EfiKernelSha, Moved, Grown, Points
  <2>3. hashed' \in [kernel : FileOrNone, initrd : FileOrNone]
    BY <1>2, <1>10, FieldTypes DEF EfiKernelSha
  <2> QED
    BY <1>10, <2>2, <2>3 DEF EfiKernelSha
<1>11. CASE EfiInitrdLen \/ EfiInitrdSha
  <2>1. InitrdFile \in FileOrNone /\ (Present(InitrdFile) => InitrdFile \in Blobs)
    BY InitrdFileType DEF Present, FileOrNone
  <2>2. run' \in Runs /\ ukicfg' \in Seq(Lines)
    <3>1. CASE Present(InitrdFile) /\ EfiInitrdLen
      BY <2>1, <3>1, Counted DEF EfiInitrdLen, Moved, Grown, Points
    <3>2. CASE Present(InitrdFile) /\ EfiInitrdSha
      BY <2>1, <3>2, Digested DEF EfiInitrdSha, Moved, Grown, Points
    <3>3. CASE ~Present(InitrdFile)
      BY <1>11, <3>3, Zeroed DEF EfiInitrdLen, EfiInitrdSha, Moved, Grown, Points
    <3> QED
      BY <1>11, <3>1, <3>2, <3>3
  <2>3. hashed' \in [kernel : FileOrNone, initrd : FileOrNone]
    BY <1>11, <2>1, FieldTypes DEF EfiInitrdLen, EfiInitrdSha
  <2> QED
    BY <1>11, <2>2, <2>3 DEF EfiInitrdLen, EfiInitrdSha
<1>12. CASE EfiCmd
  <2>1. run.cmd \in Text
    BY DEF Runs
  <2> QED
    BY <1>12, <2>1, LineTypes, TwoMore, FieldTypes DEF EfiCmd, Advance, Points
<1>13. CASE EfiObjcopy
  BY <1>13, FieldTypes DEF EfiObjcopy, Advance, Points
<1>14. CASE EfiSign
  <2>1. run.cmd \in Text /\ run.raced \in BOOLEAN /\ run.lost \in BOOLEAN
    BY DEF Runs
  <2>2. hashed.kernel \in FileOrNone /\ InEffect(hashed.initrd) \in FileOrNone
    BY DEF InEffect, FileOrNone
  <2>3. esp' \in Partitions /\ fresh' \in Results
    <3> DEFINE names == Started("verified", hashed.kernel, InEffect(hashed.initrd), run.cmd)
               signed == Signed(efi_in, names, run.raced, run.lost)
    <3>1. names \in Results /\ NotBooted \in Results
      BY <2>1, <2>2, ValueTypes
    <3>2. Image("torn") \in Images /\ signed \in Images
      BY <2>1, <3>1, ValueTypes
    <3>3. [esp EXCEPT !.boot = Image("torn")] \in Partitions /\ [esp EXCEPT !.boot = signed] \in Partitions
      BY <3>2, FieldTypes
    <3> QED
      BY <1>14, <3>1, <3>3 DEF EfiSign
  <2>4. run' \in Runs
    <3>1. Idle \in Runs /\ [run EXCEPT !.at = "sign2"] \in Runs
      BY ValueTypes, FieldTypes DEF Points
    <3> QED
      BY <1>14, <3>1 DEF EfiSign, Advance
  <2> QED
    BY <1>14, <2>3, <2>4 DEF EfiSign
<1>15. CASE UnsignedCmdline
  <2>1. run.cmd \in Text /\ "" \in Text
    BY DEF Runs, Text
  <2>2. /\ [text |-> run.cmd, initrd |-> Present(esp.initrd)] \in [text : Text, initrd : BOOLEAN]
        /\ [text |-> "", initrd |-> FALSE] \in [text : Text, initrd : BOOLEAN]
    BY <2>1 DEF Present
  <2>3. esp' \in Partitions
    <3>1. \A c \in [text : Text, initrd : BOOLEAN] : [esp EXCEPT !.cmdline = c] \in Partitions
      BY FieldTypes
    <3> QED
      BY <1>15, <2>2, <3>1 DEF UnsignedCmdline
  <2>4. run' \in Runs
    BY <1>15, Advanced DEF UnsignedCmdline, Moved, Points
  <2> QED
    BY <1>15, <2>3, <2>4 DEF UnsignedCmdline
<1>16. CASE UnsignedStub
  <2>1. run.cmd \in Text /\ run.stub \in {"ministub", "stub0"}
    BY <1>16 DEF UnsignedStub, At, CommandInv, Runs
  <2>2. esp.kernel \in FileOrNone /\ esp.initrd \in FileOrNone
    BY <1>2 DEF Partitions, FileOrNone
  <2>3. Image("torn") \in Images /\ Image(run.stub) \in Images
    BY <2>1, ValueTypes
  <2>4. esp' \in Partitions
    <3>1. \A b \in Images : [esp EXCEPT !.boot = b] \in Partitions
      BY FieldTypes
    <3> QED
      BY <1>16, <2>3, <3>1 DEF UnsignedStub
  <2>5. run' \in Runs
    BY <1>16, Advanced, ValueTypes DEF UnsignedStub, Moved, Points
  <2>6. fresh' \in Results
    <3>1. Started("unverified", esp.kernel, esp.initrd, run.cmd) \in Results
      BY <2>1, <2>2, ValueTypes
    <3> QED
      BY <1>16, <3>1 DEF UnsignedStub
  <2> QED
    BY <1>16, <2>4, <2>5, <2>6 DEF UnsignedStub
<1>17. CASE WriteInitrd
  <2>1. esp' \in Partitions
    <3>1. \A i \in Initrds \cup Torns : [esp EXCEPT !.initrd = i] \in Partitions
      BY FieldTypes
    <3> QED
      BY <1>17, <3>1 DEF WriteInitrd
  <2>2. run' \in Runs
    <3>1. Idle \in Runs /\ [run EXCEPT !.at = "write2"] \in Runs
      BY ValueTypes, FieldTypes DEF Points
    <3> QED
      BY <1>17, <3>1 DEF WriteInitrd, Advance
  <2> QED
    BY <1>17, <2>1, <2>2 DEF WriteInitrd
<1>18. CASE MakeKey
  <2>1. NextKey[run.at] \in KeyFiles
    <3>1. run.at \in KeyFiles
      BY <1>18 DEF MakeKey, CommandInv
    <3> QED
      BY <3>1, Zenon DEF NextKey, KeyFiles
  <2>2. run' \in Runs
    <3>1. Idle \in Runs /\ [run EXCEPT !.at = NextKey[run.at]] \in Runs
      BY <2>1, ValueTypes, FieldTypes DEF Points
    <3> QED
      BY <1>18, <3>1 DEF MakeKey, Advance
  <2> QED
    BY <1>18, <2>1, <2>2 DEF MakeKey
<1>19. CASE Stop
  BY <1>19, ValueTypes DEF Stop
<1>20. CASE NewKernel
  BY <1>20, FieldTypes DEF NewKernel
<1>21. CASE Boot
  <2>1. ASSUME NEW m \in Machines
        PROVE  Stub2Boot(esp.boot.cfg, m) \in Results
    <3>1. CmdOf(esp.boot.cfg) \in Text
      <4>1. esp.boot.cfg \in Seq(Lines)
        BY DEF Partitions, Images
      <4>2. Len(esp.boot.cfg) >= 6 => esp.boot.cfg[6] \in Lines
        BY <4>1
      <4>3. Len(esp.boot.cfg) >= 6 /\ esp.boot.cfg[6].t = "cmd" => esp.boot.cfg[6].c \in Text
        BY <4>2 DEF Lines
      <4> QED
        BY <4>3 DEF CmdOf, Text
    <3>2. esp.kernel \in FileOrNone /\ esp.initrd \in FileOrNone /\ NoBlob \in FileOrNone
      BY <1>2 DEF Partitions, FileOrNone
    <3>3. \A n : InitrdRead(n, m).blob \in FileOrNone
      BY <3>2 DEF InitrdRead, Loaded, Prefix, Machines, FileOrNone
    <3> QED
      BY <3>1, <3>2, <3>3, ValueTypes DEF Stub2Boot
  <2>2. Stub0Boot \in Results
    <3>1. esp.cmdline.text \in Text
      BY DEF Partitions
    <3>2. esp.kernel \in FileOrNone /\ esp.initrd \in FileOrNone /\ NoBlob \in FileOrNone
      BY <1>2 DEF Partitions, FileOrNone
    <3> QED
      BY <3>1, <3>2, ValueTypes DEF Stub0Boot
  <2>3. \A m \in Machines : BootResult(m) \in Results
    BY <2>1, <2>2, BootResults, ValueTypes
  <2> QED
    BY <1>21, <2>3 DEF Boot
<1>22. CASE UNCHANGED vars
  BY <1>22 DEF vars
<1> QED
  BY <1>3, <1>4, <1>5, <1>6, <1>7, <1>8, <1>9, <1>10, <1>11, <1>12, <1>13, <1>14, <1>15, <1>16,
     <1>17, <1>18, <1>19, <1>20, <1>21, <1>22 DEF Next, EfiNext, UnsignedNext

-----------------------------------------------------------------------------
(***************************************************************************)
(* The inductive invariant, conjunct by conjunct                           *)
(***************************************************************************)
\* A step outside efi, and the first one of it, have nothing to do with its lines.
LEMMA OutsideEfi ==
  ASSUME run'.op # "efi" \/ run'.at = "uki"
  PROVE  EfiInv'
BY DEF EfiInv

\* efi writes its lines one after the other.
LEMMA EfiStep == Types /\ CommandInv /\ EfiInv /\ LastInv /\ [Next]_vars => EfiInv'
<1> SUFFICES ASSUME Types, CommandInv, EfiInv, LastInv, [Next]_vars
             PROVE  EfiInv'
  OBVIOUS
<1>1. Idle.op = "idle" /\ Idle.at = "idle"
  BY DEF Idle
<1>2. ukicfg \in Seq(Lines) /\ src.kernel \in Kernels /\ src.kernel \in Blobs /\ run.raced \in BOOLEAN
      /\ run.cmd \in Text /\ run.lost \in BOOLEAN /\ Exact \in BOOLEAN
  BY FileFacts DEF Types, Runs, Exact
<1>3. CASE \E env \in InitrdEnv, cmd \in Cmds : Efi(env, cmd)
  BY <1>3, OutsideEfi DEF Efi, Begin, Idle
<1>4. CASE \E stub \in {"ministub", "stub0"}, cmd \in Cmds : Unsigned(stub, cmd)
  BY <1>4, OutsideEfi DEF Unsigned, Begin, Idle
<1>5. CASE BaseInitrd
  BY <1>5, OutsideEfi DEF BaseInitrd, Begin, Idle
<1>6. CASE SignInit
  <2>1. CASE "root.key" \in keys
    BY <1>1, <1>6, <2>1, OutsideEfi DEF SignInit
  <2>2. CASE "root.key" \notin keys
    BY <1>6, <2>2, OutsideEfi DEF SignInit, Begin, Idle
  <2> QED
    BY <2>1, <2>2
<1>7. CASE EfiUki
  <2>1. Len(ukicfg') = 1 /\ ukicfg'[1] = Magic
    BY <1>7 DEF EfiUki
  <2>2. run'.at = "cp"
    BY <1>7, Advanced DEF EfiUki, Moved
  <2> QED
    BY <2>1, <2>2 DEF EfiInv
<1>8. CASE CopyKernel("efi", "klen")
  <2>1. run.op = "efi" /\ run.at \in {"cp", "cp2"} /\ run'.at \in {"cp2", "klen"}
        /\ run'.raced = run.raced
    BY <1>8, Advanced DEF CopyKernel, At, Moved
  <2>2. ukicfg' = ukicfg /\ src' = src
    BY <1>8 DEF CopyKernel
  <2>3. run'.at = "klen" => esp'.kernel = src.kernel
    BY <1>8, Advanced DEF CopyKernel, At, Moved, Types, Partitions
  <2> QED
    BY <2>1, <2>2, <2>3 DEF EfiInv
<1>9. CASE EfiKernelLen
  <2>1. PICK n \in 0..BlobLen[src.kernel] :
          /\ Moved("ksha") /\ n \in 0..MaxLen /\ Grown(LenLine(n))
          /\ run'.lost = (run.lost \/ n # BlobLen[src.kernel])
    BY <1>2, <1>9, Counted DEF EfiKernelLen
  <2>2. run.op = "efi" /\ run.at = "klen" /\ src' = src /\ esp' = esp
    BY <1>9 DEF EfiKernelLen, At
  <2>3. Len(ukicfg) = 1 /\ ukicfg[1] = Magic /\ (~run.raced => esp.kernel = src.kernel)
    BY <2>2 DEF EfiInv
  <2>4. Len(ukicfg') = 2 /\ ukicfg'[1] = Magic /\ ukicfg'[2] = LenLine(n)
    BY <2>1, <2>3 DEF Grown
  <2>5. Exact' => n = BlobLen[src.kernel]
    BY <2>1 DEF Exact
  <2>6. run'.at = "ksha" /\ run'.raced = run.raced
    BY <2>1 DEF Moved
  <2> QED
    BY <2>1, <2>2, <2>3, <2>4, <2>5, <2>6 DEF EfiInv
<1>10. CASE EfiKernelSha
  <2> DEFINE k == src.kernel
  <2>1. /\ Moved("initrd")
        /\ \/ Grown(ShaLine(Sha(Full(k)))) /\ run'.lost = run.lost
           \/ ukicfg' = ukicfg /\ run'.lost
    BY <1>2, <1>10, Digested DEF EfiKernelSha
  <2>2. run.op = "efi" /\ run.at = "ksha" /\ src' = src /\ esp' = esp /\ hashed'.kernel = k
    BY <1>10 DEF EfiKernelSha, At, Types
  <2>3. /\ Len(ukicfg) = 2 /\ ukicfg[1] = Magic /\ (~run.raced => esp.kernel = k)
        /\ \E n \in 0..MaxLen : ukicfg[2] = LenLine(n) /\ (Exact => n = BlobLen[k])
    BY <2>2 DEF EfiInv
  <2>4. run'.at = "initrd" /\ run'.raced = run.raced
    BY <2>1 DEF Moved
  <2>5. CASE Grown(ShaLine(Sha(Full(k)))) /\ run'.lost = run.lost
    <3>1. Len(ukicfg') = 3 /\ ukicfg'[1] = Magic /\ ukicfg'[2] = ukicfg[2]
          /\ ukicfg'[3] = ShaLine(Sha(Full(k)))
      BY <2>3, <2>5 DEF Grown
    <3>2. Exact' = Exact
      BY <2>4, <2>5 DEF Exact
    <3>3. KernelLines(ukicfg', k, Exact')
      BY <2>3, <3>1, <3>2 DEF KernelLines
    <3> QED
      BY <1>2, <2>2, <2>3, <2>4, <3>1, <3>3 DEF EfiInv
  <2>6. CASE ukicfg' = ukicfg /\ run'.lost
    BY <1>2, <2>2, <2>3, <2>4, <2>6 DEF EfiInv
  <2> QED
    BY <2>1, <2>5, <2>6
<1>11. CASE EfiInitrdLen
  <2> DEFINE f == InitrdFile
  <2>1. \E n \in 0..LenOf(f) :
          /\ Moved("isha") /\ Grown(LenLine(n)) /\ (~run'.lost => ~run.lost /\ n = LenOf(f))
    <3>1. CASE Present(f)
      <4>1. f \in Blobs
        BY <3>1, InitrdFileType DEF Present, FileOrNone
      <4> QED
        BY <1>11, <3>1, <4>1, Counted DEF EfiInitrdLen, LenOf
    <3>2. CASE ~Present(f)
      <4>1. Moved("isha") /\ run'.lost = run.lost /\ Grown(LenLine(0))
        BY <1>11, <3>2, Zeroed DEF EfiInitrdLen
      <4>2. LenOf(f) = 0 /\ 0 \in 0..LenOf(f)
        BY <3>2 DEF LenOf
      <4> HIDE DEF f
      <4> QED
        BY <4>1, <4>2
    <3> QED
      BY <3>1, <3>2
  <2>2. PICK n \in 0..LenOf(f) :
          /\ Moved("isha") /\ Grown(LenLine(n)) /\ (~run'.lost => ~run.lost /\ n = LenOf(f))
    BY <2>1
  <2>3. run.op = "efi" /\ run.at = "initrd" /\ src' = src /\ esp' = esp
        /\ hashed'.kernel = hashed.kernel /\ hashed'.initrd = f
    BY <1>11 DEF EfiInitrdLen, At, Types
  <2>4. run'.at = "isha" /\ run'.raced = run.raced /\ run'.env = run.env
    BY <2>2 DEF Moved
  <2>5. f' = f
    BY <2>3, <2>4 DEF InitrdFile
  <2>6. /\ hashed.kernel \in Kernels /\ (~run.raced => hashed.kernel = src.kernel)
        /\ ~run.raced => esp.kernel = src.kernel
        /\ \/ Len(ukicfg) = 3 /\ KernelLines(ukicfg, hashed.kernel, Exact)
           \/ run.lost /\ Len(ukicfg) = 2
    BY <2>3 DEF EfiInv
  <2>7. run'.lost \in BOOLEAN /\ Exact' \in BOOLEAN /\ (Exact' => Exact) /\ (~run'.lost) \in BOOLEAN
    BY <2>2, <2>4 DEF Exact, Moved, Points, Runs
  <2> HIDE DEF f
  <2>8. CASE Len(ukicfg) = 3 /\ KernelLines(ukicfg, hashed.kernel, Exact)
    <3>1. /\ Len(ukicfg') = 4 /\ ukicfg'[4] = LenLine(n)
          /\ ukicfg' \in Seq(Lines) /\ Extends(ukicfg', ukicfg)
      BY <2>2, <2>8 DEF Grown, Extends
    <3>2. KernelLines(ukicfg', hashed.kernel, Exact')
      <4>1. KernelLines(ukicfg', hashed.kernel, Exact)
        <5> HIDE DEF Exact
        <5> QED
          BY <1>2, <2>8, <3>1, KernelStays
      <4> DEFINE new == Exact'
      <4>2. new \in BOOLEAN /\ (new => Exact)
        BY <2>7
      <4> HIDE DEF new, Exact
      <4>3. KernelLines(ukicfg', hashed.kernel, new)
        BY <1>2, <4>1, <4>2, LinesWeaken
      <4> QED
        BY <4>3 DEF new
    <3>3. InitrdLen(ukicfg', f, ~run'.lost)
      BY <2>2, <3>1 DEF InitrdLen
    <3> QED
      BY <2>3, <2>4, <2>5, <2>6, <3>1, <3>2, <3>3 DEF EfiInv, f
  <2>9. CASE run.lost /\ Len(ukicfg) = 2
    <3>1. Len(ukicfg') = 3 /\ ukicfg'[3] = LenLine(n)
      BY <2>2, <2>9 DEF Grown
    <3>2. NoDigest(ukicfg') /\ run'.lost
      BY <2>2, <2>7, <2>9, <3>1 DEF NoDigest, LenLine
    <3> QED
      BY <2>3, <2>4, <2>5, <2>6, <3>2 DEF EfiInv, f
  <2> QED
    BY <2>6, <2>8, <2>9
<1>12. CASE EfiInitrdSha
  <2> DEFINE f == InitrdFile
             k == hashed.kernel
  <2>1. /\ Moved("cmd") /\ (~run'.lost => ~run.lost)
        /\ \/ \E line \in Lines : Grown(line) /\ (Present(f) => line = ShaLine(Sha(Full(f))))
           \/ ukicfg' = ukicfg /\ run'.lost
    <3>1. CASE Present(f)
      <4>1. f \in Blobs
        BY <3>1, InitrdFileType DEF Present, FileOrNone
      <4>2. ShaLine(Sha(Full(f))) \in Lines
        BY <4>1, LineTypes
      <4> QED
        BY <1>12, <3>1, <4>1, <4>2, Digested DEF EfiInitrdSha
    <3>2. CASE ~Present(f)
      <4>1. LenLine(0) \in Lines
        BY FileFacts, LineTypes
      <4> QED
        BY <1>12, <3>2, <4>1, Zeroed DEF EfiInitrdSha
    <3> QED
      BY <3>1, <3>2
  <2>2. run.op = "efi" /\ run.at = "isha" /\ UNCHANGED <<src, esp, hashed>>
    BY <1>12 DEF EfiInitrdSha, At
  <2>3. run'.at = "cmd" /\ run'.raced = run.raced
    BY <2>1 DEF Moved
  <2>4. /\ k \in Kernels /\ (~run.raced => k = src.kernel) /\ (~run.raced => esp.kernel = src.kernel)
        /\ hashed.initrd = f
        /\ \/ /\ Len(ukicfg) = 4 /\ KernelLines(ukicfg, k, Exact)
              /\ InitrdLen(ukicfg, f, ~run.lost)
           \/ run.lost /\ NoDigest(ukicfg)
    BY <2>2 DEF EfiInv
  <2>5. /\ run'.lost \in BOOLEAN /\ Exact' \in BOOLEAN /\ (Exact' => Exact)
        /\ (~run'.lost) \in BOOLEAN /\ (~run.lost) \in BOOLEAN /\ (~run'.lost => ~run.lost)
    BY <2>1, <2>3 DEF Exact, Moved, Points, Runs
  <2>6. Len(ukicfg) \in Nat
    BY <1>2
  <2> HIDE DEF f, k
  <2>7. Extends(ukicfg', ukicfg) /\ ukicfg' \in Seq(Lines)
    BY <1>2, <2>1, <2>6 DEF Grown, Extends
  <2>8. CASE run.lost /\ NoDigest(ukicfg)
    <3>1. NoDigest(ukicfg')
      BY <1>2, <2>7, <2>8, DigestStays
    <3>2. run'.lost
      BY <2>5, <2>8
    <3> QED
      BY <2>2, <2>3, <2>4, <3>1, <3>2 DEF EfiInv, k
  <2>9. CASE /\ Len(ukicfg) = 4 /\ KernelLines(ukicfg, k, Exact)
             /\ InitrdLen(ukicfg, f, ~run.lost)
    <3>1. KernelLines(ukicfg', k, Exact') /\ InitrdLen(ukicfg', f, ~run'.lost)
      <4> DEFINE new == Exact'
                 was == ~run.lost
                 is == ~run'.lost
      <4>1. /\ new \in BOOLEAN /\ (new => Exact) /\ was \in BOOLEAN /\ is \in BOOLEAN /\ (is => was)
            /\ Exact \in BOOLEAN /\ KernelLines(ukicfg, k, Exact) /\ InitrdLen(ukicfg, f, was)
        BY <1>2, <2>5, <2>9
      <4> HIDE DEF new, was, is, Exact
      <4>2. KernelLines(ukicfg', k, Exact) /\ InitrdLen(ukicfg', f, was)
        BY <1>2, <2>7, <4>1, KernelStays, InitrdStays
      <4>3. KernelLines(ukicfg', k, new) /\ InitrdLen(ukicfg', f, is)
        BY <4>1, <4>2, LinesWeaken
      <4> QED
        BY <4>3 DEF new, is
    <3>2. \/ Len(ukicfg') = 5 /\ InitrdSha(ukicfg', f)
          \/ run'.lost /\ Len(ukicfg') = 4
      BY <2>1, <2>9 DEF Grown, InitrdSha
    <3> QED
      BY <2>2, <2>3, <2>4, <3>1, <3>2 DEF EfiInv, k
  <2> QED
    BY <2>4, <2>8, <2>9
<1>13. CASE EfiCmd
  <2> DEFINE k == hashed.kernel
             i == hashed.initrd
  <2>1. Moved("objcopy") /\ run'.lost = run.lost
    BY <1>13, Advanced DEF EfiCmd
  <2>2. run.op = "efi" /\ run.at = "cmd" /\ UNCHANGED <<src, esp, hashed>>
    BY <1>13 DEF EfiCmd, At
  <2>3. run'.at = "objcopy" /\ run'.raced = run.raced /\ run'.cmd = run.cmd
    BY <2>1 DEF Moved
  <2>4. /\ k \in Kernels /\ (~run.raced => k = src.kernel) /\ (~run.raced => esp.kernel = src.kernel)
        /\ \/ /\ KernelLines(ukicfg, k, Exact) /\ InitrdLen(ukicfg, i, ~run.lost)
              /\ \/ Len(ukicfg) = 5 /\ InitrdSha(ukicfg, i)
                 \/ run.lost /\ Len(ukicfg) = 4
           \/ run.lost /\ NoDigest(ukicfg)
    BY <2>2 DEF EfiInv
  <2> DEFINE x == CmdLine(run.cmd)
             new == ukicfg \o <<x, Blank>>
  <2>5. x \in Lines /\ Blank \in Lines
    BY <1>2, LineTypes
  <2>6. ukicfg' = new
    BY <1>13 DEF EfiCmd
  <2> HIDE DEF x, k, i
  <2>7. /\ new \in Seq(Lines) /\ Len(new) = Len(ukicfg) + 2
        /\ \A j \in 1..Len(ukicfg) : new[j] = ukicfg[j]
        /\ new[Len(ukicfg) + 1] = x /\ new[Len(ukicfg) + 2] = Blank
    BY <1>2, <2>5, TwoMore
  <2> HIDE DEF new
  <2>8. Len(ukicfg) \in Nat /\ Extends(new, ukicfg) /\ (~run.lost) \in BOOLEAN
    BY <1>2, <2>7 DEF Extends
  <2>9. Describes(new, k, i, run.cmd, ~run.raced, run.lost)
    <3>1. CASE run.lost /\ NoDigest(ukicfg)
      BY <1>2, <2>7, <2>8, <3>1, DigestStays DEF Describes
    <3>2. CASE KernelLines(ukicfg, k, Exact) /\ InitrdLen(ukicfg, i, ~run.lost)
      <4>1. KernelLines(new, k, Exact) /\ InitrdLen(new, i, ~run.lost)
        <5> DEFINE whole == ~run.lost
        <5>1. InitrdLen(ukicfg, i, whole) /\ whole \in BOOLEAN
          BY <2>8, <3>2
        <5> HIDE DEF whole, Exact
        <5>2. KernelLines(new, k, Exact) /\ InitrdLen(new, i, whole)
          BY <1>2, <2>7, <2>8, <3>2, <5>1, KernelStays, InitrdStays
        <5> QED
          BY <5>2 DEF whole
      <4>2. KernelLines(new, k, ~run.raced /\ ~run.lost)
        BY <4>1 DEF Exact
      <4>3. CASE Len(ukicfg) = 5 /\ InitrdSha(ukicfg, i)
        <5>1. InitrdSha(new, i) /\ Len(new) >= 6 /\ new[6] = x
          BY <1>2, <2>7, <2>8, <4>3, DigestStays
        <5> QED
          BY <4>1, <4>2, <5>1 DEF Describes, x
      <4>4. CASE run.lost /\ Len(ukicfg) = 4
        <5>1. Len(new) >= 6 /\ new[5] = x /\ new[6] = Blank
          BY <2>7, <4>4
        <5> QED
          BY <4>1, <4>2, <4>4, <5>1 DEF Describes, x
      <4>5. CASE run.lost /\ NoDigest(ukicfg)
        BY <3>1, <4>5
      <4> QED
        BY <2>4, <4>3, <4>4, <4>5
    <3> QED
      BY <2>4, <3>1, <3>2
  <2> QED
    BY <2>1, <2>2, <2>3, <2>4, <2>6, <2>9 DEF EfiInv, k, i
<1>14. CASE EfiObjcopy
  <2>1. /\ run.op = "efi" /\ run.at = "objcopy" /\ run'.at = "sign" /\ run'.raced = run.raced
        /\ run'.cmd = run.cmd /\ run'.lost = run.lost
    BY <1>14, Advanced DEF EfiObjcopy, At, Moved
  <2>2. src' = src /\ esp' = esp /\ hashed' = hashed /\ efi_in' = ukicfg
    BY <1>14 DEF EfiObjcopy
  <2> QED
    BY <2>1, <2>2 DEF EfiInv
<1>15. CASE EfiSign
  <2>1. CASE run' = Idle
    BY <1>1, <2>1, OutsideEfi
  <2>2. CASE Advance("sign2")
    <3>1. /\ run'.at = "sign2" /\ run'.raced = run.raced /\ run'.cmd = run.cmd /\ run'.op = run.op
          /\ run'.lost = run.lost
      BY <2>2, Advanced DEF Moved
    <3>2. run.op = "efi" /\ run.at \in {"sign", "sign2"} /\ UNCHANGED <<src, hashed, efi_in>>
          /\ esp'.kernel = esp.kernel
      BY <1>15 DEF EfiSign, At, Types, Partitions
    <3> QED
      BY <3>1, <3>2 DEF EfiInv
  <2> QED
    BY <1>15, <2>1, <2>2 DEF EfiSign
<1>16. CASE UnsignedCmdline \/ CopyKernel("unsigned", "stub")
  BY <1>16, Advanced, OutsideEfi DEF UnsignedCmdline, CopyKernel, At, Moved
<1>17. CASE UnsignedStub \/ Stop
  BY <1>1, <1>17, Advanced, OutsideEfi DEF UnsignedStub, Stop, At, Moved
<1>18. CASE WriteInitrd
  BY <1>1, <1>18, Advanced, OutsideEfi DEF WriteInitrd, At, Moved
<1>19. CASE MakeKey
  BY <1>1, <1>19, Advanced, OutsideEfi DEF MakeKey, Moved
<1>20. CASE NewKernel
  <2>1. CASE run.op = "efi"
    <3>1. run # Idle
      BY <1>1, <2>1
    <3>2. /\ run'.raced /\ run'.op = run.op /\ run'.at = run.at /\ run'.cmd = run.cmd
          /\ run'.lost = run.lost /\ run'.env = run.env
      BY <1>20, <3>1 DEF NewKernel, Types, Runs
    <3>3. UNCHANGED <<ukicfg, efi_in, hashed, esp>> /\ src'.other = src.other
      BY <1>20 DEF NewKernel, Types
    <3>4. InitrdFile' = InitrdFile /\ ~Exact'
      BY <3>2, <3>3 DEF InitrdFile, Exact
    <3>5. ASSUME NEW c, NEW k, NEW exact \in BOOLEAN, KernelLines(c, k, exact)
          PROVE  KernelLines(c, k, Exact')
      BY <3>4, <3>5 DEF KernelLines
    <3>6. KernelLines(ukicfg, hashed.kernel, Exact) => KernelLines(ukicfg, hashed.kernel, Exact')
      BY <1>2, <3>5
    <3>7. ASSUME NEW c, Describes(c, hashed.kernel, hashed.initrd, run.cmd, ~run.raced, run.lost)
          PROVE  Describes(c, hashed.kernel, hashed.initrd, run.cmd, ~run'.raced, run.lost)
      <4>1. (~run.raced /\ ~run.lost) \in BOOLEAN
        OBVIOUS
      <4>2. KernelLines(c, hashed.kernel, ~run.raced /\ ~run.lost) =>
              KernelLines(c, hashed.kernel, ~run'.raced /\ ~run.lost)
        BY <3>2 DEF KernelLines
      <4> QED
        BY <3>7, <4>2 DEF Describes
    <3> HIDE DEF Exact
    <3>8. run.at = "ksha" =>
            /\ Len(ukicfg) = 2 /\ ukicfg[1] = Magic
            /\ \E n \in 0..MaxLen : ukicfg[2] = LenLine(n)
      BY <2>1 DEF EfiInv
    <3> QED
      BY <2>1, <3>2, <3>3, <3>4, <3>6, <3>7, <3>8 DEF EfiInv
  <2>2. CASE run.op # "efi"
    <3>1. run'.op = run.op
      BY <1>20 DEF NewKernel, Types, Runs
    <3> QED
      BY <2>2, <3>1, OutsideEfi
  <2> QED
    BY <2>1, <2>2
<1>21. CASE Boot \/ UNCHANGED vars
  BY <1>21 DEF Boot, vars, EfiInv, Exact, InitrdFile
<1> QED
  BY <1>3, <1>4, <1>5, <1>6, <1>7, <1>8, <1>9, <1>10, <1>11, <1>12, <1>13, <1>15, <1>16, <1>17,
     <1>18, <1>19, <1>20, <1>21, <1>14 DEF Next, EfiNext, UnsignedNext

\* The lines of efi that go through a pipe write nothing but /tmp/ukicfg.
LEMMA PipedLines ==
  ASSUME Types, EfiKernelLen \/ EfiKernelSha \/ EfiInitrdLen \/ EfiInitrdSha
  PROVE  run.op = "efi" /\ run'.op = "efi" /\ UNCHANGED <<esp, fresh, ran>>
<1>1. src.kernel \in Blobs /\ (Present(InitrdFile) => InitrdFile \in Blobs)
  BY FileFacts, InitrdFileType DEF Types, Present, FileOrNone
<1>2. CASE EfiKernelLen
  BY <1>1, <1>2, Counted DEF EfiKernelLen, At, Moved
<1>3. CASE EfiKernelSha
  BY <1>1, <1>3, Digested DEF EfiKernelSha, At, Moved
<1>4. CASE EfiInitrdLen
  BY <1>1, <1>4, Counted, Zeroed DEF EfiInitrdLen, At, Moved
<1>5. CASE EfiInitrdSha
  BY <1>1, <1>5, Digested, Zeroed DEF EfiInitrdSha, At, Moved
<1> QED
  BY <1>2, <1>3, <1>4, <1>5

\* Only the last lines of efi and unsigned write BOOTx64.EFI.
LEMMA BootKept ==
  ASSUME Types, [Next]_vars, ~EfiSign, ~UnsignedStub
  PROVE  esp'.boot = esp.boot
<1>1. CASE CopyKernel("efi", "klen") \/ CopyKernel("unsigned", "stub")
  BY <1>1 DEF CopyKernel, Types, Partitions
<1>2. CASE UnsignedCmdline
  BY <1>2 DEF UnsignedCmdline, Types, Partitions
<1>3. CASE WriteInitrd
  BY <1>3 DEF WriteInitrd, Types, Partitions
<1>4. CASE UNCHANGED esp
  BY <1>4
<1> QED
  BY <1>1, <1>2, <1>3, <1>4
     DEF Next, EfiNext, UnsignedNext, vars, Efi, Unsigned, BaseInitrd, SignInit, Begin, EfiUki, EfiKernelLen,
         EfiKernelSha, EfiInitrdLen, EfiInitrdSha, EfiCmd, EfiObjcopy, MakeKey, Stop, NewKernel, Boot

\* sbsign writes an image whose configuration describes its names.
LEMMA BootStep == Types /\ CommandInv /\ EfiInv /\ BootInv /\ [Next]_vars => BootInv'
<1> SUFFICES ASSUME Types, CommandInv, EfiInv, BootInv, [Next]_vars
             PROVE  BootInv'
  OBVIOUS
<1>1. CASE ~EfiSign /\ ~UnsignedStub
  BY <1>1, BootKept DEF BootInv
<1>2. CASE UnsignedStub
  <2>1. run.stub \in {"ministub", "stub0"}
    BY <1>2 DEF UnsignedStub, At, CommandInv
  <2>2. esp'.boot = Image(run.stub) \/ esp'.boot = Image("torn")
    BY <1>2 DEF UnsignedStub, Types, Partitions
  <2> QED
    BY <2>1, <2>2 DEF BootInv, Image
<1>3. CASE EfiSign
  <2>1. CASE At("efi", "sign2")
    <3> DEFINE names == Started("verified", hashed.kernel, InEffect(hashed.initrd), run.cmd)
    <3>1. esp'.boot = Signed(efi_in, names, run.raced, run.lost)
      BY <1>3, <2>1 DEF EfiSign, At, Types, Partitions
    <3>2. /\ hashed.kernel \in Kernels
          /\ Describes(efi_in, hashed.kernel, hashed.initrd, run.cmd, ~run.raced, run.lost)
      BY <2>1 DEF EfiInv, At
    <3>3. hashed.initrd \in FileOrNone
      BY DEF Types
    <3>4. names.cmd = run.cmd
      BY DEF Started
    <3>5. /\ esp'.boot.cfg = efi_in /\ esp'.boot.names = names
          /\ esp'.boot.raced = run.raced /\ esp'.boot.lost = run.lost
      BY <3>1 DEF Signed
    <3> HIDE DEF names
    <3>6. /\ Describes(esp'.boot.cfg, hashed.kernel, hashed.initrd, esp'.boot.names.cmd,
                       ~esp'.boot.raced, esp'.boot.lost)
          /\ esp'.boot.names = Started("verified", hashed.kernel, InEffect(hashed.initrd), esp'.boot.names.cmd)
      BY <3>2, <3>4, <3>5 DEF names
    <3> QED
      BY <3>2, <3>3, <3>6 DEF BootInv
  <2>2. CASE ~At("efi", "sign2")
    <3>1. esp'.boot = Image("torn")
      BY <1>3, <2>2 DEF EfiSign, Types, Partitions
    <3> QED
      BY <3>1 DEF BootInv, Image
  <2> QED
    BY <2>1, <2>2
<1> QED
  BY <1>1, <1>2, <1>3

\* The commands other than efi, line by line.
LEMMA CommandStep == Types /\ CommandInv /\ LastInv /\ [Next]_vars => CommandInv'
<1> SUFFICES ASSUME Types, CommandInv, LastInv, [Next]_vars
             PROVE  CommandInv'
  OBVIOUS
<1>1. Idle.op = "idle"
  BY DEF Idle
<1>2. ASSUME run'.op \notin {"sign_init", "unsigned"}
      PROVE  CommandInv'
  BY <1>2 DEF CommandInv
<1>3. CASE \E env \in InitrdEnv, cmd \in Cmds : Efi(env, cmd)
  BY <1>2, <1>3 DEF Efi, Begin, Idle
<1>4. CASE \E stub \in {"ministub", "stub0"}, cmd \in Cmds : Unsigned(stub, cmd)
  <2>1. run'.op = "unsigned" /\ run'.at = "cmdline" /\ run'.stub \in {"ministub", "stub0"}
    BY <1>4 DEF Unsigned, Begin, Idle
  <2> QED
    BY <2>1 DEF CommandInv
<1>5. CASE BaseInitrd
  BY <1>2, <1>5 DEF BaseInitrd, Begin, Idle
<1>6. CASE SignInit
  <2>1. CASE "root.key" \in keys
    BY <1>1, <1>2, <1>6, <2>1 DEF SignInit
  <2>2. CASE "root.key" \notin keys
    <3>1. run'.op = "sign_init" /\ run'.at = "db.key"
      BY <1>6, <2>2 DEF SignInit, Begin, Idle
    <3> QED
      BY <3>1 DEF CommandInv, KeyFiles
  <2> QED
    BY <2>1, <2>2
<1>7. CASE EfiUki \/ EfiCmd \/ EfiObjcopy
  BY <1>2, <1>7, Advanced DEF EfiUki, EfiCmd, EfiObjcopy, At, Moved
<1>8. CASE EfiKernelLen \/ EfiKernelSha \/ EfiInitrdLen \/ EfiInitrdSha
  BY <1>2, <1>8, PipedLines
<1>9. CASE CopyKernel("efi", "klen") \/ EfiSign \/ WriteInitrd
  BY <1>1, <1>2, <1>9, Advanced DEF CopyKernel, EfiSign, WriteInitrd, At, Moved
<1>10. CASE UnsignedCmdline
  <2>1. /\ run.op = "unsigned" /\ run'.op = "unsigned" /\ run'.at \in {"cmdline2", "cp"}
        /\ run'.cmd = run.cmd /\ run'.stub = run.stub
    BY <1>10, Advanced DEF UnsignedCmdline, At, Moved
  <2>2. /\ esp'.initrd = esp.initrd
        /\ run'.at = "cp" => esp'.cmdline = [text |-> run.cmd, initrd |-> Present(esp.initrd)]
    <3>1. CASE At("unsigned", "cmdline") /\ Advance("cmdline2")
               /\ esp' = [esp EXCEPT !.cmdline = [text |-> "", initrd |-> FALSE]]
      <4>1. run'.at = "cmdline2"
        BY <3>1, Advanced DEF Moved
      <4> QED
        BY <3>1, <4>1 DEF Types, Partitions
    <3>2. CASE esp' = [esp EXCEPT !.cmdline = [text |-> run.cmd, initrd |-> Present(esp.initrd)]]
      BY <3>2 DEF Types, Partitions
    <3> QED
      BY <1>10, <3>1, <3>2 DEF UnsignedCmdline
  <2> QED
    BY <2>1, <2>2 DEF CommandInv
<1>11. CASE CopyKernel("unsigned", "stub")
  <2>1. /\ run.op = "unsigned" /\ run'.op = "unsigned" /\ run.at \in {"cp", "cp2"}
        /\ run'.at \in {"cp2", "stub"} /\ run'.cmd = run.cmd /\ run'.stub = run.stub
    BY <1>11, Advanced DEF CopyKernel, At, Moved
  <2>2. esp'.cmdline = esp.cmdline /\ esp'.initrd = esp.initrd
    BY <1>11 DEF CopyKernel, Types, Partitions
  <2>3. run'.at = "stub" => esp'.kernel \in Kernels
    BY <1>11, Advanced DEF CopyKernel, Moved, Types, Partitions
  <2> QED
    BY <2>1, <2>2, <2>3 DEF CommandInv
<1>12. CASE Stop
  BY <1>1, <1>2, <1>12 DEF Stop
<1>13. CASE UnsignedStub
  <2>1. CASE run' = Idle
    BY <1>1, <1>2, <2>1
  <2>2. CASE Advance("stub2")
    <3>1. /\ run.op = "unsigned" /\ run.at \in {"stub", "stub2"} /\ run'.op = "unsigned"
          /\ run'.at = "stub2" /\ run'.cmd = run.cmd /\ run'.stub = run.stub
      BY <1>13, <2>2, Advanced DEF UnsignedStub, At, Moved
    <3>2. esp'.cmdline = esp.cmdline /\ esp'.initrd = esp.initrd /\ esp'.kernel = esp.kernel
      BY <1>13 DEF UnsignedStub, Types, Partitions
    <3> QED
      BY <3>1, <3>2 DEF CommandInv
  <2> QED
    BY <1>13, <2>1, <2>2 DEF UnsignedStub
<1>14. CASE MakeKey
  <2>1. CASE run.at = "minisign.pub"
    BY <1>1, <1>2, <1>14, <2>1 DEF MakeKey
  <2>2. CASE run.at # "minisign.pub"
    <3>1. run.at \in KeyFiles
      BY <1>14 DEF MakeKey, CommandInv
    <3>2. NextKey[run.at] \in KeyFiles
      BY <3>1, Zenon DEF NextKey, KeyFiles
    <3>3. run'.op = "sign_init" /\ run'.at = NextKey[run.at]
      BY <1>14, <2>2, Advanced DEF MakeKey, Moved
    <3> QED
      BY <3>2, <3>3 DEF CommandInv
  <2> QED
    BY <2>1, <2>2
<1>15. CASE NewKernel
  <2>1. run'.op = run.op /\ run'.at = run.at /\ run'.cmd = run.cmd /\ run'.stub = run.stub
    BY <1>15 DEF NewKernel, Types, Runs
  <2>2. esp' = esp
    BY <1>15 DEF NewKernel
  <2> QED
    BY <2>1, <2>2 DEF CommandInv
<1>16. CASE Boot \/ UNCHANGED vars
  BY <1>16 DEF Boot, vars, CommandInv
<1> QED
  BY <1>3, <1>4, <1>5, <1>6, <1>7, <1>9, <1>10, <1>11, <1>12, <1>14, <1>15, <1>16, <1>8, <1>13
     DEF Next, EfiNext, UnsignedNext

-----------------------------------------------------------------------------
(***************************************************************************)
(* What stub2 makes of a configuration                                     *)
(***************************************************************************)
\* Reading no more than the length of a file gives bytes of that file, and reading its
\* whole length gives all of them.
LEMMA LoadedFacts ==
  ASSUME NEW f \in Blobs, NEW n \in 0..MaxLen
  PROVE  /\ Loaded(f, n) \in Bytes /\ Loaded(f, n).blob = f
         /\ Full(f) \in Bytes /\ Full(f).blob = f
         /\ Loaded(f, BlobLen[f]) = Full(f)
<1>1. BlobLen[f] \in 0..MaxLen /\ MaxLen \in Nat
  BY FileFacts
<1>2. Min(n, BlobLen[f]) \in 0..MaxLen /\ Min(BlobLen[f], BlobLen[f]) = BlobLen[f]
  BY <1>1 DEF Min
<1> QED
  BY <1>1, <1>2 DEF Loaded, Full, Prefix, Bytes

\* Bytes that stub2 accepts under the digest of a file are that file, all of it.
LEMMA VerifiesFacts ==
  ASSUME NEW x \in Bytes, NEW g \in Blobs
  PROVE  Verifies(x, ShaLine(Sha(Full(g)))) <=> x = Full(g)
<1>1. Full(g) \in Bytes
  BY FileFacts
<1>2. Verifies(x, ShaLine(Sha(Full(g)))) <=> Sha(x) = Sha(Full(g))
  BY DEF Verifies, ShaLine
<1> QED
  BY <1>1, <1>2, ShaInjective

\* What stub2 finds in the buffer of the initrd, and in that of the kernel.
LEMMA ReadFacts ==
  ASSUME Types, NEW m \in Machines, NEW n \in 0..MaxLen
  PROVE  /\ InitrdRead(n, m) \in Bytes
         /\ \A i \in Blobs : esp.initrd = i /\ n = BlobLen[i] => InitrdRead(n, m) = Full(i)
         /\ Present(esp.kernel) => /\ Loaded(esp.kernel, n) \in Bytes
                                   /\ Loaded(esp.kernel, n).blob = esp.kernel
         /\ \A k \in Blobs : esp.kernel = k /\ n = BlobLen[k] => Loaded(esp.kernel, n) = Full(k)
<1>1. /\ esp.kernel \in FileOrNone /\ esp.initrd \in FileOrNone
      /\ \A f \in FileOrNone : Present(f) <=> f \in Blobs
  BY FileFacts DEF Types, Partitions, FileOrNone, Present
<1>2. m.stale \in Blobs
  BY DEF Machines
<1>3. Prefix(m.stale, n) \in Bytes
  BY <1>2 DEF Prefix, Bytes
<1> QED
  BY <1>1, <1>3, LoadedFacts DEF InitrdRead

\* What a boot of a configuration for kernel k, initrd i and command line cmd may start:
\* these, or, after a failed pipeline, no initrd, and then perhaps no command line.
Bound(k, i, cmd, lost) ==
  {Started("verified", k, InEffect(i), cmd)} \cup
  (IF lost THEN {Started("verified", k, NoBlob, cmd), Started("verified", k, NoBlob, "")} ELSE {})

\* The conditions of stub2 one by one.
Accepts(c, m) ==
  /\ CmdOf(c) \in Cmds2 \cup {""}
  /\ c[4].n > 0 => Verifies(InitrdRead(c[4].n, m), c[5])
  /\ Present(esp.kernel) /\ Verifies(Loaded(esp.kernel, c[2].n), c[3])
  /\ m.low

\* A configuration without the digest of the kernel does not boot.
LEMMA NoDigestRefused ==
  ASSUME NEW c, NEW m, NoDigest(c)
  PROVE  Stub2Boot(c, m) = Refused
<1>1. ~Verifies(Loaded(esp.kernel, c[2].n), c[3])
  BY DEF NoDigest, Verifies
<1> QED
  BY <1>1 DEF Stub2Boot

\* A configuration with the lines of the kernel and the length of an initrd: stub2 starts
\* that kernel or nothing, and accepts it when it is there and its length is right.
LEMMA KernelBoots ==
  ASSUME Types, NEW c \in Seq(Lines), NEW k \in Kernels, NEW i \in FileOrNone,
         NEW exact \in BOOLEAN, NEW whole \in BOOLEAN, NEW m \in Machines,
         KernelLines(c, k, exact), InitrdLen(c, i, whole), Len(c) >= 6
  PROVE  /\ c[4].n \in 0..LenOf(i) /\ (whole => c[4].n = LenOf(i)) /\ c[4].n \in 0..MaxLen
         /\ Stub2Boot(c, m) =
              IF Accepts(c, m)
              THEN Started("verified", esp.kernel,
                           IF c[4].n > 0 THEN InitrdRead(c[4].n, m).blob ELSE NoBlob, CmdOf(c))
              ELSE Refused
         /\ Accepts(c, m) => esp.kernel = k
         /\ exact /\ esp.kernel = k =>
              Present(esp.kernel) /\ Verifies(Loaded(esp.kernel, c[2].n), c[3])
<1>1. k \in Blobs /\ NoBlob \notin Blobs
  BY FileFacts
<1>2. PICK n \in 0..MaxLen : c[2] = LenLine(n) /\ (exact => n = BlobLen[k])
  BY DEF KernelLines
<1>3. c[1] = Magic /\ c[3] = ShaLine(Sha(Full(k))) /\ c[2].t = "len" /\ c[2].n = n
  BY <1>2 DEF KernelLines, LenLine
<1>4. c[4].t = "len" /\ c[4].n \in 0..LenOf(i) /\ (whole => c[4].n = LenOf(i))
  BY DEF InitrdLen, LenLine
<1>5. c[4].n \in 0..MaxLen
  <2>1. LenOf(i) \in 0..MaxLen /\ MaxLen \in Nat
    BY FileFacts DEF LenOf, Present, FileOrNone
  <2> QED
    BY <1>4, <2>1
<1>6. Stub2Boot(c, m) =
        IF Accepts(c, m)
        THEN Started("verified", esp.kernel,
                     IF c[4].n > 0 THEN InitrdRead(c[4].n, m).blob ELSE NoBlob, CmdOf(c))
        ELSE Refused
  <2>1. Len(c) >= 5
    BY LenProperties
  <2> QED
    BY <1>3, <1>4, <2>1 DEF Stub2Boot, Accepts
<1>7. Accepts(c, m) => esp.kernel = k
  <2> SUFFICES ASSUME Accepts(c, m)
               PROVE  esp.kernel = k
    OBVIOUS
  <2>1. Present(esp.kernel) /\ Verifies(Loaded(esp.kernel, n), ShaLine(Sha(Full(k))))
    BY <1>3 DEF Accepts
  <2>2. Loaded(esp.kernel, n) = Full(k) /\ Loaded(esp.kernel, n).blob = esp.kernel
    BY <1>1, <2>1, ReadFacts, VerifiesFacts
  <2> QED
    BY <2>2 DEF Full, Prefix
<1>8. exact /\ esp.kernel = k =>
        Present(esp.kernel) /\ Verifies(Loaded(esp.kernel, c[2].n), c[3])
  <2> SUFFICES ASSUME exact, esp.kernel = k
               PROVE  Present(esp.kernel) /\ Verifies(Loaded(esp.kernel, n), ShaLine(Sha(Full(k))))
    BY <1>3
  <2>1. Present(esp.kernel)
    BY <1>1 DEF Present
  <2>2. Loaded(esp.kernel, n) = Full(k) /\ Loaded(esp.kernel, n) \in Bytes
    BY <1>1, <1>2, <2>1, ReadFacts
  <2> QED
    BY <1>1, <2>1, <2>2, VerifiesFacts
<1> QED
  BY <1>4, <1>5, <1>6, <1>7, <1>8

\* The command line of a configuration: its sixth line, if that is one.
LEMMA CmdOfLine ==
  ASSUME NEW c \in Seq(Lines), NEW cmd, Len(c) >= 6, c[6] = CmdLine(cmd)
  PROVE  CmdOf(c) = cmd
<1>1. CmdLine(cmd).t = "cmd" /\ CmdLine(cmd).c = cmd
  BY DEF CmdLine
<1> QED
  BY <1>1 DEF CmdOf

LEMMA CmdOfBlank ==
  ASSUME NEW c \in Seq(Lines), c[6] = Blank
  PROVE  CmdOf(c) = ""
<1>1. Blank.t # "cmd"
  BY DEF Blank
<1> QED
  BY <1>1 DEF CmdOf

\* An initrd of which the configuration has some length and the digest: the bytes that
\* verify are its own, and its own bytes verify.
LEMMA InitrdBoots ==
  ASSUME Types, NEW i \in FileOrNone, NEW n \in 0..LenOf(i), n > 0, NEW m \in Machines,
         NEW sha, Present(i) => sha = ShaLine(Sha(Full(i)))
  PROVE  /\ Verifies(InitrdRead(n, m), sha) => InitrdRead(n, m).blob = InEffect(i)
         /\ n = LenOf(i) /\ InEffect(i) \in {NoBlob, esp.initrd} => Verifies(InitrdRead(n, m), sha)
<1>1. /\ LenOf(i) \in Nat /\ (Present(i) => i \in Blobs)
      /\ LenOf(i) > 0 => Present(i) /\ InEffect(i) = i /\ LenOf(i) = BlobLen[i]
  BY LenOfFacts
<1>2. LenOf(i) > 0
  BY <1>1
<1>3. i \in Blobs /\ i # NoBlob /\ InEffect(i) = i /\ LenOf(i) = BlobLen[i] /\ sha = ShaLine(Sha(Full(i)))
  BY <1>1, <1>2, FileFacts
<1>4. n \in 0..MaxLen
  <2>1. BlobLen[i] \in 0..MaxLen /\ MaxLen \in Nat
    BY <1>3, FileFacts
  <2> QED
    BY <1>1, <1>3, <2>1
<1>5. /\ InitrdRead(n, m) \in Bytes
      /\ esp.initrd = i /\ n = BlobLen[i] => InitrdRead(n, m) = Full(i)
  BY <1>3, <1>4, ReadFacts
<1>6. Verifies(InitrdRead(n, m), sha) <=> InitrdRead(n, m) = Full(i)
  BY <1>3, <1>5, VerifiesFacts
<1>7. Full(i).blob = i
  BY DEF Full, Prefix
<1> QED
  BY <1>3, <1>5, <1>6, <1>7

\* The described files are on the partition.
There(k, i) == esp.kernel = k /\ InEffect(i) \in {NoBlob, esp.initrd}

\* A configuration of six lines: a boot that verifies starts what they describe, whatever
\* is on the partition; and it does verify when the described files are there.
LEMMA WholeBoots ==
  ASSUME Types, NEW c \in Seq(Lines), NEW k \in Kernels, NEW i \in FileOrNone, NEW cmd,
         NEW exact \in BOOLEAN, NEW whole \in BOOLEAN, NEW m \in Machines,
         KernelLines(c, k, exact), InitrdLen(c, i, whole), InitrdSha(c, i),
         Len(c) >= 6, c[6] = CmdLine(cmd)
  PROVE  /\ \/ Stub2Boot(c, m) = Refused
            \/ Stub2Boot(c, m) = Started("verified", k, InEffect(i), cmd)
            \/ ~whole /\ Stub2Boot(c, m) = Started("verified", k, NoBlob, cmd)
         /\ exact /\ whole /\ m.low /\ cmd \in Cmds2 /\ There(k, i)
            => Stub2Boot(c, m) = Started("verified", k, InEffect(i), cmd)
<1>1. PICK n : n = c[4].n
  OBVIOUS
<1>2. CmdOf(c) = cmd
  BY CmdOfLine
<1>3. /\ n \in 0..LenOf(i) /\ (whole => n = LenOf(i))
      /\ Stub2Boot(c, m) =
           IF Accepts(c, m)
           THEN Started("verified", esp.kernel, IF n > 0 THEN InitrdRead(n, m).blob ELSE NoBlob, cmd)
           ELSE Refused
      /\ Accepts(c, m) => esp.kernel = k
      /\ exact /\ esp.kernel = k =>
           Present(esp.kernel) /\ Verifies(Loaded(esp.kernel, c[2].n), c[3])
  BY <1>1, <1>2, KernelBoots
<1>4. Accepts(c, m) <=> /\ cmd \in Cmds2 \cup {""}
                        /\ n > 0 => Verifies(InitrdRead(n, m), c[5])
                        /\ Present(esp.kernel) /\ Verifies(Loaded(esp.kernel, c[2].n), c[3])
                        /\ m.low
  BY <1>1, <1>2 DEF Accepts
<1>5. LenOf(i) \in Nat /\ (LenOf(i) = 0 => InEffect(i) = NoBlob)
  BY LenOfFacts
<1>6. CASE n > 0
  <2>1. /\ Verifies(InitrdRead(n, m), c[5]) => InitrdRead(n, m).blob = InEffect(i)
        /\ n = LenOf(i) /\ InEffect(i) \in {NoBlob, esp.initrd} => Verifies(InitrdRead(n, m), c[5])
    <3>1. Present(i) => c[5] = ShaLine(Sha(Full(i)))
      BY DEF InitrdSha
    <3> QED
      BY <1>3, <1>6, <3>1, InitrdBoots
  <2>2. Accepts(c, m) => Stub2Boot(c, m) = Started("verified", k, InEffect(i), cmd)
    BY <1>3, <1>4, <1>6, <2>1
  <2>3. ~Accepts(c, m) => Stub2Boot(c, m) = Refused
    BY <1>3
  <2>4. exact /\ whole /\ m.low /\ cmd \in Cmds2 /\ There(k, i) => Accepts(c, m)
    BY <1>3, <1>4, <2>1 DEF There
  <2> QED
    BY <2>2, <2>3, <2>4
<1>7. CASE ~(n > 0)
  <2>1. whole => InEffect(i) = NoBlob
    BY <1>3, <1>5, <1>7
  <2>2. Accepts(c, m) => Stub2Boot(c, m) = Started("verified", k, NoBlob, cmd)
    BY <1>3, <1>7
  <2>3. ~Accepts(c, m) => Stub2Boot(c, m) = Refused
    BY <1>3
  <2>4. exact /\ m.low /\ cmd \in Cmds2 /\ There(k, i) => Accepts(c, m)
    BY <1>3, <1>4, <1>7 DEF There
  <2> QED
    BY <2>1, <2>2, <2>3, <2>4
<1> QED
  BY <1>6, <1>7

\* A configuration that lost the digest of the initrd: the command line stands in its
\* place, which verifies nothing, so it boots at most without initrd and command line.
LEMMA ShortBoots ==
  ASSUME Types, NEW c \in Seq(Lines), NEW k \in Kernels, NEW i \in FileOrNone, NEW m \in Machines,
         KernelLines(c, k, FALSE), InitrdLen(c, i, FALSE),
         Len(c) >= 6, c[5].t = "cmd", c[6] = Blank
  PROVE  Stub2Boot(c, m) \in {Refused, Started("verified", k, NoBlob, "")}
<1>1. PICK n : n = c[4].n
  OBVIOUS
<1>2. CmdOf(c) = ""
  BY CmdOfBlank
<1>3. /\ Stub2Boot(c, m) =
           IF Accepts(c, m)
           THEN Started("verified", esp.kernel, IF n > 0 THEN InitrdRead(n, m).blob ELSE NoBlob, "")
           ELSE Refused
      /\ Accepts(c, m) => esp.kernel = k
  BY <1>1, <1>2, KernelBoots
<1>4. ~Verifies(InitrdRead(n, m), c[5])
  BY DEF Verifies
<1>5. Accepts(c, m) => ~(n > 0)
  BY <1>1, <1>4 DEF Accepts
<1> QED
  BY <1>3, <1>5

\* Any configuration of a completed run.
LEMMA Stub2Facts ==
  ASSUME Types, NEW c \in Seq(Lines), NEW k \in Kernels, NEW i \in FileOrNone, NEW cmd,
         NEW exact \in BOOLEAN, NEW lost \in BOOLEAN, NEW m \in Machines,
         Describes(c, k, i, cmd, exact, lost)
  PROVE  Stub2Boot(c, m) \in {Refused} \cup Bound(k, i, cmd, lost)
<1>1. PICK strict \in BOOLEAN, whole \in BOOLEAN : strict = (exact /\ ~lost) /\ whole = ~lost
  OBVIOUS
<1>2. CASE lost /\ NoDigest(c)
  BY <1>2, NoDigestRefused
<1>3. CASE /\ KernelLines(c, k, strict) /\ InitrdLen(c, i, whole)
           /\ InitrdSha(c, i) /\ Len(c) >= 6 /\ c[6] = CmdLine(cmd)
  <2>1. \/ Stub2Boot(c, m) = Refused
        \/ Stub2Boot(c, m) = Started("verified", k, InEffect(i), cmd)
        \/ ~whole /\ Stub2Boot(c, m) = Started("verified", k, NoBlob, cmd)
    BY <1>3, WholeBoots
  <2> QED
    BY <1>1, <2>1 DEF Bound
<1>4. CASE /\ KernelLines(c, k, strict) /\ InitrdLen(c, i, whole)
           /\ lost /\ Len(c) >= 6 /\ c[5] = CmdLine(cmd) /\ c[6] = Blank
  <2>1. KernelLines(c, k, FALSE) /\ InitrdLen(c, i, FALSE) /\ c[5].t = "cmd"
    BY <1>4 DEF KernelLines, InitrdLen, CmdLine
  <2>2. Stub2Boot(c, m) \in {Refused, Started("verified", k, NoBlob, "")}
    BY <1>4, <2>1, ShortBoots
  <2> QED
    BY <1>4, <2>2 DEF Bound
<1> QED
  BY <1>1, <1>2, <1>3, <1>4 DEF Describes

\* In particular that of a run which nothing disturbed.
LEMMA FilesBoot ==
  ASSUME Types, NEW c \in Seq(Lines), NEW k \in Kernels, NEW i \in FileOrNone, NEW cmd \in Cmds2,
         NEW m \in Machines, Describes(c, k, i, cmd, TRUE, FALSE), m.low, There(k, i)
  PROVE  Stub2Boot(c, m) = Started("verified", k, InEffect(i), cmd)
<1>1. PICK strict \in BOOLEAN, whole \in BOOLEAN : strict /\ whole
  OBVIOUS
<1>2. /\ KernelLines(c, k, strict) /\ InitrdLen(c, i, whole)
      /\ InitrdSha(c, i) /\ Len(c) >= 6 /\ c[6] = CmdLine(cmd)
  BY <1>1 DEF Describes
<1>3. /\ \/ Stub2Boot(c, m) = Refused
         \/ Stub2Boot(c, m) = Started("verified", k, InEffect(i), cmd)
         \/ ~whole /\ Stub2Boot(c, m) = Started("verified", k, NoBlob, cmd)
      /\ strict /\ whole /\ m.low /\ cmd \in Cmds2 /\ There(k, i)
         => Stub2Boot(c, m) = Started("verified", k, InEffect(i), cmd)
  BY <1>2, WholeBoots
<1> QED
  BY <1>1, <1>3

\* The image on the partition: a boot of a signed one is refused or starts its names, less
\* what a failed pipeline took from them.
Whole(r, boot) ==
  /\ r.kernel = boot.names.kernel
  /\ r.initrd # boot.names.initrd => boot.lost /\ r.initrd = NoBlob
  /\ r.cmd # boot.names.cmd => boot.lost /\ r.initrd = NoBlob /\ r.cmd = ""

LEMMA SignedBoots ==
  ASSUME Types, BootInv, esp.boot.kind = "signed", NEW m \in Machines
  PROVE  /\ \/ Stub2Boot(esp.boot.cfg, m) = Refused
            \/ Whole(Stub2Boot(esp.boot.cfg, m), esp.boot)
         /\ esp.boot.names.how = "verified"
         /\ /\ ~esp.boot.raced /\ ~esp.boot.lost /\ m.low /\ esp.boot.names.cmd \in Cmds2
            /\ esp.boot.names.kernel = esp.kernel
            /\ esp.boot.names.initrd \in {NoBlob, esp.initrd}
            => Stub2Boot(esp.boot.cfg, m) = esp.boot.names
<1>1. PICK c \in Seq(Lines), cmd \in Text, exact \in BOOLEAN, lost \in BOOLEAN :
        c = esp.boot.cfg /\ cmd = esp.boot.names.cmd /\ exact = ~esp.boot.raced /\ lost = esp.boot.lost
  BY DEF Types, Partitions, Images, Results
<1>2. PICK k \in Kernels, i \in FileOrNone :
        /\ Describes(c, k, i, cmd, exact, lost)
        /\ esp.boot.names = Started("verified", k, InEffect(i), cmd)
  BY <1>1 DEF BootInv
<1>3. esp.boot.names.how = "verified" /\ esp.boot.names.kernel = k /\ esp.boot.names.initrd = InEffect(i)
  BY <1>2 DEF Started
<1>4. /\ Stub2Boot(c, m) \in {Refused} \cup Bound(k, i, cmd, lost)
      /\ exact /\ ~lost /\ m.low /\ cmd \in Cmds2 /\ There(k, i)
         => Stub2Boot(c, m) = Started("verified", k, InEffect(i), cmd)
  <2>1. Types /\ Describes(c, k, i, cmd, exact, lost)
    BY <1>2
  <2>2. ASSUME exact, ~lost, m.low, cmd \in Cmds2, There(k, i)
        PROVE  Stub2Boot(c, m) = Started("verified", k, InEffect(i), cmd)
    <3>1. exact = TRUE /\ lost = FALSE
      BY <2>2
    <3>2. Describes(c, k, i, cmd, TRUE, FALSE)
      BY <2>1, <3>1
    <3> QED
      BY <2>2, <3>2, FilesBoot
  <2>3. Stub2Boot(c, m) \in {Refused} \cup Bound(k, i, cmd, lost)
    BY <2>1, Stub2Facts, Zenon
  <2> QED
    BY <2>2, <2>3
<1>5. ASSUME NEW r \in Bound(k, i, cmd, lost)
      PROVE  Whole(r, esp.boot)
  <2>1. CASE r = Started("verified", k, InEffect(i), cmd)
    BY <1>1, <1>3, <2>1 DEF Whole, Started
  <2>2. CASE lost /\ r = Started("verified", k, NoBlob, cmd)
    BY <1>1, <1>3, <2>2 DEF Whole, Started
  <2>3. CASE lost /\ r = Started("verified", k, NoBlob, "")
    BY <1>1, <1>3, <2>3 DEF Whole, Started
  <2> QED
    BY <2>1, <2>2, <2>3 DEF Bound
<1> QED
  BY <1>1, <1>2, <1>3, <1>4, <1>5 DEF There

-----------------------------------------------------------------------------
(***************************************************************************)
(* The last boot and the last run                                          *)
(***************************************************************************)
\* What a boot leaves in ran.
LEMMA BootEffect ==
  ASSUME Types, BootInv, Boot
  PROVE  ran'.how = "verified" => esp.boot.kind = "signed" /\ Whole(ran', esp.boot)
<1>1. PICK m \in Machines : ran' = BootResult(m)
  BY DEF Boot
<1>2. Refused.how # "verified"
  BY DEF Refused
<1>3. CASE esp.boot.kind = "signed"
  <2>1. BootResult(m) = Stub2Boot(esp.boot.cfg, m)
    BY <1>3, BootResults
  <2>2. Stub2Boot(esp.boot.cfg, m) = Refused \/ Whole(Stub2Boot(esp.boot.cfg, m), esp.boot)
    BY <1>3, SignedBoots
  <2> QED
    BY <1>1, <1>3, <1>2, <2>1, <2>2
<1>4. CASE esp.boot.kind # "signed"
  <2>1. BootResult(m) \in {Stub0Boot, Refused}
    BY <1>4, BootResults
  <2>2. Stub0Boot.how # "verified"
    BY DEF Stub0Boot, Started, Refused
  <2> QED
    BY <1>1, <1>2, <2>1, <2>2
<1> QED
  BY <1>3, <1>4

\* A command that runs has nothing fresh and nothing booted; its last line sets fresh.
LEMMA LastStep == Types /\ CommandInv /\ EfiInv /\ BootInv /\ LastInv /\ [Next]_vars => LastInv'
<1> SUFFICES ASSUME Types, CommandInv, EfiInv, BootInv, LastInv, [Next]_vars
             PROVE  LastInv'
  OBVIOUS
<1>1. Idle.op = "idle" /\ NotBooted.how = "off"
  BY DEF Idle, NotBooted, Refused
<1>2. ASSUME ran' = NotBooted, fresh' = NotBooted, run'.op = "idle" <=> run' = Idle
      PROVE  LastInv'
  BY <1>1, <1>2 DEF LastInv
<1>3. ASSUME NEW r, r.op # "idle", Begin(r)
      PROVE  LastInv'
  BY <1>1, <1>2, <1>3 DEF Begin
<1>4. ASSUME run.op # "idle", ran' = ran, fresh' = fresh, (run' = Idle) \/ (run'.op = run.op)
      PROVE  LastInv'
  <2>1. run # Idle
    BY <1>1, <1>4
  <2> QED
    BY <1>1, <1>2, <1>4, <2>1 DEF LastInv
<1>5. CASE \E env \in InitrdEnv, cmd \in Cmds : Efi(env, cmd)
  BY <1>3, <1>5 DEF Efi, Idle
<1>6. CASE \E stub \in {"ministub", "stub0"}, cmd \in Cmds : Unsigned(stub, cmd)
  BY <1>3, <1>6 DEF Unsigned, Idle
<1>7. CASE BaseInitrd
  BY <1>3, <1>7 DEF BaseInitrd, Idle
<1>8. CASE SignInit
  <2>1. CASE "root.key" \in keys
    BY <1>8, <2>1 DEF SignInit, LastInv
  <2>2. CASE "root.key" \notin keys
    BY <1>3, <1>8, <2>2 DEF SignInit, Idle
  <2> QED
    BY <2>1, <2>2
<1>9. CASE EfiUki \/ EfiCmd \/ EfiObjcopy \/ UnsignedCmdline
  BY <1>4, <1>9, Advanced DEF EfiUki, EfiCmd, EfiObjcopy, UnsignedCmdline, At, Moved
<1>10. CASE EfiKernelLen \/ EfiKernelSha \/ EfiInitrdLen \/ EfiInitrdSha
  BY <1>4, <1>10, PipedLines
<1>11. CASE CopyKernel("efi", "klen") \/ CopyKernel("unsigned", "stub")
  BY <1>4, <1>11, Advanced DEF CopyKernel, At, Moved
<1>12. CASE WriteInitrd
  BY <1>4, <1>12, Advanced DEF WriteInitrd, At, Moved
<1>13. CASE MakeKey
  BY <1>4, <1>13, Advanced DEF MakeKey, Moved
<1>14. CASE Stop
  BY <1>1, <1>4, <1>14 DEF Stop, LastInv
<1>15. CASE NewKernel
  <2>1. run'.op = run.op /\ esp' = esp /\ ran' = ran /\ fresh' = fresh
    BY <1>15 DEF NewKernel, Types, Runs
  <2>2. CASE run = Idle
    <3>1. run' = Idle
      BY <1>15, <2>2 DEF NewKernel, Idle
    <3> QED
      BY <2>1, <2>2, <3>1 DEF LastInv
  <2>3. CASE run # Idle
    BY <1>4, <2>1, <2>3 DEF LastInv
  <2> QED
    BY <2>2, <2>3
<1>16. CASE EfiSign
  <2>1. CASE At("efi", "sign2")
    <3> DEFINE names == Started("verified", hashed.kernel, InEffect(hashed.initrd), run.cmd)
    <3>1. /\ esp'.boot = Signed(efi_in, names, run.raced, run.lost) /\ esp'.kernel = esp.kernel
          /\ fresh' = IF run.raced \/ run.lost THEN NotBooted ELSE names
          /\ run' = Idle /\ ran' = ran
      BY <1>16, <2>1 DEF EfiSign, At, Types, Partitions
    <3>2. /\ esp'.boot.kind = "signed" /\ esp'.boot.names = names
          /\ esp'.boot.raced = run.raced /\ esp'.boot.lost = run.lost
      BY <3>1 DEF Signed
    <3>3. names.kernel = hashed.kernel /\ names.how = "verified"
      BY DEF Started
    <3>4. ~run.raced => hashed.kernel = esp.kernel
      BY <2>1 DEF EfiInv, At
    <3>5. run # Idle /\ ran = NotBooted
      BY <1>1, <2>1 DEF At, LastInv
    <3> HIDE DEF names
    <3> QED
      BY <1>1, <3>1, <3>2, <3>3, <3>4, <3>5 DEF LastInv
  <2>2. CASE ~At("efi", "sign2")
    BY <1>4, <1>16, <2>2, Advanced DEF EfiSign, At, Moved
  <2> QED
    BY <2>1, <2>2
<1>17. CASE UnsignedStub
  <2>1. CASE At("unsigned", "stub2")
    <3>1. /\ esp'.boot = Image(run.stub) /\ esp'.kernel = esp.kernel /\ esp'.initrd = esp.initrd
          /\ esp'.cmdline = esp.cmdline /\ run' = Idle /\ ran' = ran
          /\ fresh' = Started("unverified", esp.kernel, esp.initrd, run.cmd)
      BY <1>17, <2>1 DEF UnsignedStub, At, Types, Partitions
    <3>2. /\ run.stub # "signed" /\ esp.kernel \in Kernels
          /\ esp.cmdline = [text |-> run.cmd, initrd |-> Present(esp.initrd)]
      BY <1>17, <2>1 DEF UnsignedStub, At, CommandInv
    <3>3. esp'.boot.kind # "signed" /\ fresh'.how = "unverified" /\ fresh'.cmd = run.cmd
      BY <3>1, <3>2 DEF Image, Started
    <3>4. run # Idle /\ ran = NotBooted
      BY <1>1, <1>17, <2>1 DEF UnsignedStub, At, LastInv
    <3> QED
      BY <1>1, <3>1, <3>2, <3>3, <3>4 DEF LastInv
  <2>2. CASE ~At("unsigned", "stub2")
    BY <1>4, <1>17, <2>2, Advanced DEF UnsignedStub, At, Moved
  <2> QED
    BY <2>1, <2>2
<1>18. CASE Boot
  <2>1. run = Idle /\ UNCHANGED <<run, esp, fresh>>
    BY <1>18 DEF Boot
  <2> QED
    BY <1>18, <2>1, BootEffect DEF LastInv
<1>19. CASE UNCHANGED vars
  BY <1>19 DEF vars, LastInv
<1> QED
  BY <1>5, <1>6, <1>7, <1>8, <1>9, <1>11, <1>12, <1>13, <1>14, <1>15, <1>16, <1>17, <1>18, <1>19, <1>10
     DEF Next, EfiNext, UnsignedNext

\* Only a boot sets ran, and no image is written after a boot before the next command resets it.
LEMMA BoundStep == Types /\ BootInv /\ LastInv /\ RunsOnlyBound /\ [Next]_vars => RunsOnlyBound'
<1> SUFFICES ASSUME Types, BootInv, LastInv, RunsOnlyBound, [Next]_vars
             PROVE  RunsOnlyBound'
  OBVIOUS
<1>1. Idle.op = "idle" /\ NotBooted.how = "off"
  BY DEF Idle, NotBooted, Refused
<1>2. CASE Boot
  <2>1. esp' = esp
    BY <1>2 DEF Boot
  <2> QED
    BY <1>2, <2>1, BootEffect DEF RunsOnlyBound, Whole
<1>3. CASE EfiSign \/ UnsignedStub
  <2>1. run # Idle /\ ran' = ran
    BY <1>1, <1>3 DEF EfiSign, UnsignedStub, At
  <2> QED
    BY <1>1, <2>1 DEF LastInv, RunsOnlyBound
<1>4. CASE ~Boot /\ ~EfiSign /\ ~UnsignedStub
  <2>1. esp'.boot = esp.boot
    BY <1>4, BootKept
  <2>2. ran' \in {ran, NotBooted}
    BY <1>4 DEF Next, EfiNext, UnsignedNext, vars, Efi, Unsigned, BaseInitrd, SignInit, Begin, EfiUki,
                EfiKernelLen, EfiKernelSha, EfiInitrdLen, EfiInitrdSha, EfiCmd, EfiObjcopy, MakeKey, Stop, NewKernel,
                CopyKernel, UnsignedCmdline, WriteInitrd
  <2> QED
    BY <1>1, <2>1, <2>2 DEF RunsOnlyBound
<1> QED
  BY <1>2, <1>3, <1>4

\* The partition as it is formatted.
LEMMA InitIInv == Init => IInv
<1> SUFFICES ASSUME Init
             PROVE  IInv
  OBVIOUS
<1>1. Idle.op = "idle" /\ NotBooted.how = "off" /\ Image("none").kind = "none"
  BY DEF Idle, NotBooted, Refused, Image
<1>2. esp \in Partitions
  <2>1. Image("none") \in Images /\ "" \in Text
    BY ValueTypes DEF Text
  <2>2. PICK i \in Initrds \cup {NoBlob} :
          esp = [kernel |-> NoBlob, initrd |-> i, boot |-> Image("none"),
                 cmdline |-> [text |-> "", initrd |-> FALSE]]
    BY DEF Init
  <2> QED
    BY <2>1, <2>2 DEF Partitions
<1>3. Types
  <2>1. Idle \in Runs /\ NotBooted \in Results
    BY ValueTypes
  <2>2. <<>> \in Seq(Lines)
    BY EmptySeq
  <2> QED
    BY <1>2, <2>1, <2>2 DEF Init, Types, NoneHashed, FileOrNone
<1>4. esp.boot.kind = "none"
  <2>1. PICK i : esp = [kernel |-> NoBlob, initrd |-> i, boot |-> Image("none"),
                        cmdline |-> [text |-> "", initrd |-> FALSE]]
    BY DEF Init
  <2> QED
    BY <1>1, <2>1
<1> QED
  BY <1>1, <1>3, <1>4 DEF Init, IInv, EfiInv, BootInv, CommandInv, LastInv, RunsOnlyBound

-----------------------------------------------------------------------------
\* The inductive invariant, through every run, interruption and upgrade of setup-efi.
THEOREM Invariance == Spec => []IInv
<1>1. IInv /\ [Next]_vars => IInv'
  BY TypesStep, EfiStep, BootStep, CommandStep, LastStep, BoundStep DEF IInv
<1> QED
  BY <1>1, InitIInv, PTL DEF Spec

\* For every set of files: no sequence of complete, interrupted or raced runs of efi,
\* unsigned and base_initrd, whatever pipelines fail in them, makes stub2 start a kernel
\* other than the one that one run of efi hashed, nor another initrd or command line than
\* those of that run; only a failed pipeline of that run can take them away
\* (setup-efi, lines 103-142).
THEOREM OnlyBoundRuns == Spec => []RunsOnlyBound
BY Invariance, PTL DEF IInv

\* For every set of files and of command lines: once the partition has the files that a
\* signed image with all its lines names, it boots them, with secure boot and without it,
\* if the command line fits cmdx_buffer and the memory is below 4G.
THEOREM MatchingBoots == Spec => []MatchingSetBoots
<1>1. IInv => MatchingSetBoots
  <2> SUFFICES ASSUME Types, BootInv, esp.boot.kind = "signed" /\ ~esp.boot.raced /\ ~esp.boot.lost,
                      esp.boot.names.kernel = esp.kernel,
                      esp.boot.names.initrd \in {NoBlob, esp.initrd},
                      esp.boot.names.cmd \in Cmds2,
                      NEW m \in Machines, m.low
               PROVE  BootResult(m) = esp.boot.names
    BY DEF IInv, MatchingSetBoots
  <2> QED
    BY BootResults, SignedBoots
<1> QED
  BY <1>1, Invariance, PTL

\* For every set of files and of command lines: right after a complete run of efi that no
\* upgrade raced and in which no pipeline failed, or of unsigned with stub0, the partition
\* boots what the run meant it to, if the command line fits the stub.
THEOREM FreshRunsBoot == Spec => []FreshBoots
<1>1. IInv => FreshBoots
  <2> SUFFICES ASSUME Types, BootInv, LastInv
               PROVE  FreshBoots
    BY DEF IInv
  <2>1. ASSUME fresh.how = "verified", fresh.cmd \in Cmds2,
               fresh.initrd \in {NoBlob, InEffect(esp.initrd)}, NEW m \in Machines, m.low
        PROVE  BootResult(m) = fresh
    <3>1. /\ esp.boot.kind = "signed" /\ ~esp.boot.raced /\ ~esp.boot.lost
          /\ fresh = esp.boot.names /\ fresh.kernel = esp.kernel
      BY <2>1 DEF LastInv
    <3>2. esp.boot.names.initrd \in {NoBlob, esp.initrd}
      BY <2>1, <3>1 DEF InEffect
    <3>3. Stub2Boot(esp.boot.cfg, m) = esp.boot.names
      BY <2>1, <3>1, <3>2, SignedBoots
    <3> QED
      BY <3>1, <3>3, BootResults
  <2>2. ASSUME fresh.how = "unverified", esp.boot.kind = "stub0",
               fresh.cmd \in Cmds0[Present(fresh.initrd)], NEW m \in Machines, ~m.secure
        PROVE  BootResult(m) = fresh
    <3>1. /\ esp.kernel \in Kernels
          /\ esp.cmdline.initrd = Present(esp.initrd) /\ esp.cmdline.text = fresh.cmd
          /\ fresh = Started("unverified", esp.kernel, esp.initrd, fresh.cmd)
      BY <2>2 DEF LastInv
    <3>2. (IF esp.cmdline.initrd THEN esp.initrd ELSE NoBlob) = esp.initrd
      BY <3>1 DEF Present
    <3>3. fresh.initrd = esp.initrd
      BY <3>1 DEF Started
    <3>4. esp.cmdline.text \in Cmds0[esp.cmdline.initrd] \cup {""}
      BY <2>2, <3>1, <3>3
    <3>5. Stub0Boot = fresh
      BY <3>1, <3>2, <3>4 DEF Stub0Boot
    <3> QED
      BY <2>2, <3>5, BootResults
  <2> QED
    BY <2>1, <2>2 DEF FreshBoots
<1> QED
  BY <1>1, Invariance, PTL

-----------------------------------------------------------------------------
(***************************************************************************)
(* stub0, which boots what setup-efi unsigned leaves, for every length of  *)
(* CMDLINE and of its buffers.                                             *)
(***************************************************************************)
Copied == {"freePool", "devicePathFor", "loadImage", "openKernel", "startImage", "inKernel"}
Freed == Copied \ {"freePool"}
BeforePool == Lookups \cup {"allocatePool"}

\* Where main is, and what it has ended with.
Stub0Control ==
  /\ pc \in BeforePool \cup Copied \cup {"loadFile", "end"}
  /\ outcome = "kernel" <=> pc = "inKernel"
  /\ outcome \in {"returned", "panicked"} <=> pc = "end"

\* The pool at each point of main.  It is held at the end only after a panic.
Stub0Pool ==
  /\ pc \in BeforePool => pool = "none"
  /\ pc \in Freed => pool = "freed"
  /\ pc = "end" /\ outcome = "returned" => pool # "held"
  /\ image => pool = "freed"

\* What cmdx_buffer holds: nothing, until the loop has copied cmd_size units, which are
\* the whole file if they are the file's.
Stub0Text ==
  /\ pc \in BeforePool \cup {"loadFile"} => cmdx = [text |-> "none", n |-> 0]
  /\ pc \in Copied =>
       /\ cmdx.n = cmd_size /\ cmdx.n + 1 < CmdxLen
       /\ cmdx.text = "file" => cmdx.n = file
  /\ pc \in {"startImage", "inKernel"} =>
       /\ options.text = cmdx.text /\ options.n = cmdx.n
       /\ options.size = 2 * (cmdx.n + 1)

Stub0Inv == Stub0TypeOK /\ Stub0Control /\ Stub0Pool /\ Stub0Text

\* main starts with nothing read, allocated or loaded.
LEMMA Stub0Initial ==
  ASSUME Stub0Sizes, Stub0Init
  PROVE  Stub0Inv
<1> USE DEF Stub0Init, Stub0Sizes, BeforePool, Lookups,
            Copied, Freed
<1>1. Stub0TypeOK
  <2>1. cmdx.text = "none" /\ cmdx.n = 0 /\ options.text = "none" /\ options.size = 0
    BY DEF NoOptions
  <2>2. cmdx.n \in 0..CmdxLen /\ cmd_size \in 0..PoolSize /\ options.size \in Nat
    BY <2>1
  <2> QED BY <2>1, <2>2, Zenon DEF Stub0TypeOK
<1>2. Stub0Control /\ Stub0Pool /\ Stub0Text
  BY DEF Stub0Control, Stub0Pool, Stub0Text
<1> QED BY <1>1, <1>2 DEF Stub0Inv

\* Each step keeps the types; the text that is copied fits into cmdx_buffer.
LEMMA Stub0Types ==
  ASSUME Stub0Sizes, Stub0Inv, Stub0Next
  PROVE  Stub0TypeOK'
<1> USE DEF Stub0Sizes, Stub0Inv, Stub0TypeOK, Goto,
            End, Data, NoFile
<1>1. CASE Lookup
  BY <1>1 DEF Lookup
<1>2. CASE AllocatePool
  BY <1>2 DEF AllocatePool
<1>3. CASE LoadFile
  BY <1>3 DEF LoadFile, Copy
<1>4. CASE LoadFileFails
  BY <1>4 DEF LoadFileFails
<1>5. CASE FreePool
  BY <1>5 DEF FreePool
<1>6. CASE KernelPath
  BY <1>6 DEF KernelPath
<1>7. CASE LoadImage
  BY <1>7 DEF LoadImage
<1>8. CASE SetOptions
  BY <1>8 DEF SetOptions
<1>9. CASE StartImage
  BY <1>9 DEF StartImage
<1>10. CASE KernelReturns
  BY <1>10 DEF KernelReturns
<1> QED
  BY <1>1, <1>2, <1>3, <1>4, <1>5, <1>6, <1>7, <1>8, <1>9, <1>10 DEF Stub0Next

\* Each step keeps the rest of the invariant: the pool is freed on the only way to the
\* kernel, and what cmdx_buffer holds does not change after the loop.
LEMMA Stub0Step ==
  ASSUME Stub0Sizes, Stub0Inv, Stub0Next
  PROVE  (Stub0Control /\ Stub0Pool /\ Stub0Text)'
<1> USE DEF Stub0Sizes, Stub0Inv, Stub0TypeOK, Stub0Control, Stub0Pool,
            Stub0Text, BeforePool, Copied, Freed, Lookups, Goto,
            End, Data
<1>1. CASE Lookup
  BY <1>1 DEF Lookup, NextLookup
<1>2. CASE AllocatePool
  BY <1>2 DEF AllocatePool
<1>3. CASE LoadFile
  BY <1>3 DEF LoadFile, Copy, NoFile
<1>4. CASE LoadFileFails
  BY <1>4 DEF LoadFileFails
<1>5. CASE FreePool
  BY <1>5 DEF FreePool
<1>6. CASE KernelPath
  BY <1>6 DEF KernelPath
<1>7. CASE LoadImage
  BY <1>7 DEF LoadImage
<1>8. CASE SetOptions
  BY <1>8 DEF SetOptions
<1>9. CASE StartImage
  BY <1>9 DEF StartImage
<1>10. CASE KernelReturns
  BY <1>10 DEF KernelReturns
<1> QED
  BY <1>1, <1>2, <1>3, <1>4, <1>5, <1>6, <1>7, <1>8, <1>9, <1>10 DEF Stub0Next

\* The invariant of stub0 holds in every reachable state.
LEMMA Stub0Invariance ==
  ASSUME Stub0Sizes
  PROVE  Stub0Spec => []Stub0Inv
<1>1. Stub0Init => Stub0Inv
  BY Stub0Initial
<1>2. Stub0Inv /\ [Stub0Next]_stub0Vars => Stub0Inv'
  <2> SUFFICES ASSUME Stub0Inv, [Stub0Next]_stub0Vars PROVE Stub0Inv'
    OBVIOUS
  <2>1. CASE Stub0Next
    BY <2>1, Stub0Types, Stub0Step DEF Stub0Inv
  <2>2. CASE UNCHANGED stub0Vars
    BY <2>2 DEF stub0Vars, Stub0Inv, Stub0TypeOK, Stub0Control, Stub0Pool,
                Stub0Text
  <2> QED BY <2>1, <2>2
<1> QED BY <1>1, <1>2, PTL DEF Stub0Spec

\* The load options that stub0 gives the kernel are one NUL-terminated string inside
\* cmdx_buffer, whose text is the whole of CMDLINE or nothing, for every length of the
\* file and of the buffers.
THEOREM Stub0Options == Stub0Spec => []OptionsWellFormed
<1>1. Stub0Inv => OptionsWellFormed
  BY DEF Stub0Inv, Stub0Control, Stub0Text, Copied, Stub0TypeOK,
         OptionsWellFormed
<1> QED BY <1>1, Stub0Assumptions, Stub0Invariance, PTL

\* stub0 has given its pool back when an image is loaded, and when it returns, on every
\* path; only a panic leaves it allocated.
THEOREM Stub0PoolReleased == Stub0Spec => []PoolReleased
<1>1. Stub0Inv => PoolReleased
  BY DEF Stub0Inv, Stub0Control, Stub0Pool, PoolReleased
<1> QED BY <1>1, Stub0Assumptions, Stub0Invariance, PTL
=============================================================================
