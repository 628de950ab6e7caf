------------------------------- MODULE Signer -------------------------------
(***************************************************************************)
(* signer/sbin/setup-efi: the script that fills an EFI system partition,   *)
(* as build.sh runs it (secure, secure_noinitrd, initrd, simple, init_     *)
(* secrets), and the boots of the partition it leaves.  A run is a list of *)
(* commands under set -e: it may stop after any of them (a failed command, *)
(* a killed container, a power loss), and a write may stop half way.  The  *)
(* shell is sh and sets no pipefail: a failure on the left of a pipe does  *)
(* not stop the run.                                                       *)
(* A boot is one step here; modules Stub2 and Stub0 have its steps.        *)
(***************************************************************************)
EXTENDS Files, Sequences

CONSTANTS
  Kernels, Initrds,   \* contents of ${KERNEL} (Linux kernels below 2G) and of cpio(/initrd)
  Torns,              \* contents of a file whose writing was interrupted or lost its input
  Cmds,               \* command lines: the fixed text with an xtra_cmd
  Cmds2,              \* those that stub2's cmdx_buffer takes: UTF-8, at most 256 units
  Cmds0,              \* those whose CMDLINE stub0 takes, below 255 bytes: without and
                      \* with initrd= in front
  InitrdEnv,          \* values of INITRD: "default", "NONE" or "other"
  MaxRuns, MaxFaults  \* bounds: number of commands started, and of faults

ASSUME SignerAssumptions ==
  /\ Kernels \cup Initrds \cup Torns \subseteq Blobs
  /\ Kernels \cap Torns = {} /\ Initrds \cap Torns = {}
  /\ "" \notin Cmds /\ Cmds2 \subseteq Cmds /\ Cmds0 \in [BOOLEAN -> SUBSET Cmds]
  /\ InitrdEnv \subseteq {"default", "NONE", "other"}

VARIABLES
  runs,     \* number of commands started
  faults,   \* number of faults: failed pipelines of efi and kernel upgrades
  run,      \* the running command: [op, at] plus its arguments
  src,      \* the inputs: src.kernel at ${KERNEL}, src.other the file INITRD names
  esp,      \* ${DEST}/EFI: LINUX/KERNEL.EFI, INITRD.IMG, CMDLINE, BOOT/BOOTx64.EFI
  ukicfg,   \* /tmp/ukicfg, a sequence of lines; /tmp outlives a run
  efi_in,   \* the .cfg section of /tmp/InitOS-unsigned.EFI
  keys,     \* the files in ${SECRETS}
  initOK,   \* history: some sign_init returned 0
  hashed,   \* history: what the digests of ukicfg are of
  fresh,    \* history: what the last run of efi or unsigned, if it was the last
            \* command, was meant to make bootable
  ran       \* what the last boot did

vars == <<runs, faults, run, src, esp, ukicfg, efi_in, keys, initOK, hashed, fresh, ran>>

Idle == [op |-> "idle", at |-> "idle", env |-> "default", cmd |-> "", stub |-> "",
         raced |-> FALSE, lost |-> FALSE]
Refused == [how |-> "refused", kernel |-> NoBlob, initrd |-> NoBlob, cmd |-> ""]
NotBooted == [Refused EXCEPT !.how = "off"]
Started(how, k, i, c) == [how |-> how, kernel |-> k, initrd |-> i, cmd |-> c]

NoneHashed == [kernel |-> NoBlob, initrd |-> NoBlob]

KeyFiles == {"db.key", "root.key", "root.pem", "authorized_keys", "minisign.pub"}

\* Lines of ukicfg.
Magic == [t |-> "UKI"]
LenLine(n) == [t |-> "len", n |-> n]
ShaLine(d) == [t |-> "sha", d |-> d]
CmdLine(c) == [t |-> "cmd", c |-> c]
Blank == [t |-> "blank"]

\* BOOTx64.EFI: nothing, a copied stub, or the signed stub with its .cfg section.
\* names, raced and lost are history: the files that the run was to bind, and whether a
\* kernel upgrade or a failed pipeline came in between.
Image(kind) ==
  [kind |-> kind, cfg |-> <<>>, names |-> NotBooted, raced |-> FALSE, lost |-> FALSE]
Signed(c, names, raced, lost) ==
  [kind |-> "signed", cfg |-> c, names |-> names, raced |-> raced, lost |-> lost]

Init ==
  /\ runs = 0 /\ faults = 0 /\ run = Idle
  /\ src \in [kernel : Kernels, other : Initrds]
  \* "The files are expected to be in ${OUT}/EFI/LINUX": an initrd may be there.
  /\ \E i \in Initrds \cup {NoBlob} :
       esp = [kernel |-> NoBlob, initrd |-> i, boot |-> Image("none"),
              cmdline |-> [text |-> "", initrd |-> FALSE]]
  /\ ukicfg = <<>> /\ efi_in = <<>>
  /\ keys \in {{}, KeyFiles} /\ initOK = FALSE
  /\ hashed = NoneHashed
  /\ fresh = NotBooted /\ ran = NotBooted

(***************************************************************************)
(* Commands.  Begin starts one, Advance goes to its next line.             *)
(***************************************************************************)
Begin(r) ==
  /\ run = Idle /\ runs < MaxRuns
  /\ run' = r /\ runs' = runs + 1
  /\ fresh' = NotBooted /\ ran' = NotBooted
  /\ hashed' = NoneHashed
  /\ UNCHANGED <<faults, src, esp, ukicfg, efi_in, keys, initOK>>

Fault == faults < MaxFaults /\ faults' = faults + 1

At(op, line) == run.op = op /\ run.at = line
Advance(line) == run' = [run EXCEPT !.at = line]
Append1(line) == ukicfg' = Append(ukicfg, line)

\* ${INITRD:-${DEST}/EFI/LINUX/INITRD.IMG}
InitrdFile ==
  CASE run.env = "default" -> esp.initrd
    [] run.env = "NONE" -> NoBlob
    [] run.env = "other" -> src.other

Present(f) == f # NoBlob

Efi(env, cmd) == Begin([Idle EXCEPT !.op = "efi", !.at = "uki", !.env = env, !.cmd = cmd])

\* Mutant: >> for >.
EfiUki_Append ==
  /\ At("efi", "uki")
  /\ "minisign.pub" \in keys
  /\ Append1(Magic)
  /\ Advance("cp")
  /\ UNCHANGED <<runs, faults, src, esp, efi_in, keys, initOK, hashed, fresh, ran>>

\* PUB is read first: without minisign.pub set -e ends the run.  Then the
\* directories are made and /tmp/ukicfg is started over with its first line.
EfiUki ==
  /\ At("efi", "uki")
  /\ "minisign.pub" \in keys
  /\ ukicfg' = <<Magic>>
  /\ Advance("cp")
  /\ UNCHANGED <<runs, faults, src, esp, efi_in, keys, initOK, hashed, fresh, ran>>

\* cp ${KERNEL} ${DEST}/EFI/LINUX/KERNEL.EFI, in place, in two steps.
CopyKernel(op, next) ==
  /\ UNCHANGED <<runs, faults, src, ukicfg, efi_in, keys, initOK, hashed, fresh, ran>>
  /\ \/ /\ At(op, "cp")
        /\ \E t \in Torns : esp' = [esp EXCEPT !.kernel = t]
        /\ Advance("cp2")
     \/ At(op, "cp2") /\ esp' = [esp EXCEPT !.kernel = src.kernel] /\ Advance(next)

\* f | ... >>/tmp/ukicfg goes to the next line of the script also when f fails (lost).
Pipe(next, lost) ==
  /\ IF lost THEN Fault ELSE UNCHANGED faults
  /\ run' = [run EXCEPT !.at = next, !.lost = @ \/ lost]

\* cat f | wc -c: the bytes that cat could read.
CatWc(f, next) ==
  \E n \in 0..BlobLen[f] : Append1(LenLine(n)) /\ Pipe(next, n # BlobLen[f])

\* sha256sum f | cut: without a digest there is no line.
Sha256sum(f, next) ==
  \/ Append1(ShaLine(Sha(Full(f)))) /\ Pipe(next, FALSE)
  \/ UNCHANGED ukicfg /\ Pipe(next, TRUE)

\* The source again, not the copy.
EfiKernelLen ==
  /\ At("efi", "klen")
  /\ CatWc(src.kernel, "ksha")
  /\ UNCHANGED <<runs, src, esp, efi_in, keys, initOK, hashed, fresh, ran>>

EfiKernelSha ==
  /\ At("efi", "ksha")
  /\ Sha256sum(src.kernel, "initrd")
  /\ hashed' = [hashed EXCEPT !.kernel = src.kernel]
  /\ UNCHANGED <<runs, src, esp, efi_in, keys, initOK, fresh, ran>>

\* if [ -f ${initrd} ], and the first command of either branch.
EfiInitrdLen ==
  /\ At("efi", "initrd")
  /\ IF Present(InitrdFile)
     THEN CatWc(InitrdFile, "isha")
     ELSE Append1(LenLine(0)) /\ Pipe("isha", FALSE)
  /\ hashed' = [hashed EXCEPT !.initrd = InitrdFile]
  /\ UNCHANGED <<runs, src, esp, efi_in, keys, initOK, fresh, ran>>

\* Mutant: one echo in the else branch.
EfiInitrdSha_OneZero ==
  /\ At("efi", "isha")
  /\ IF Present(InitrdFile)
     THEN Sha256sum(InitrdFile, "cmd")
     ELSE UNCHANGED ukicfg /\ Pipe("cmd", FALSE)
  /\ UNCHANGED <<runs, src, esp, efi_in, keys, initOK, hashed, fresh, ran>>

\* The second command of that branch.
EfiInitrdSha ==
  /\ At("efi", "isha")
  /\ IF Present(InitrdFile)
     THEN Sha256sum(InitrdFile, "cmd")
     ELSE Append1(LenLine(0)) /\ Pipe("cmd", FALSE)
  /\ UNCHANGED <<runs, src, esp, efi_in, keys, initOK, hashed, fresh, ran>>

\* Two appends in one step: nothing but the next line of this run reads the file.
EfiCmd ==
  /\ At("efi", "cmd")
  /\ ukicfg' = ukicfg \o <<CmdLine(run.cmd), Blank>>
  /\ Advance("objcopy")
  /\ UNCHANGED <<runs, faults, src, esp, efi_in, keys, initOK, hashed, fresh, ran>>

EfiObjcopy ==
  /\ At("efi", "objcopy")
  /\ efi_in' = ukicfg
  /\ Advance("sign")
  /\ UNCHANGED <<runs, faults, src, esp, ukicfg, keys, initOK, hashed, fresh, ran>>

\* An empty initrd is no initrd: its length line reads 0.
InEffect(f) == IF Present(f) /\ BlobLen[f] > 0 THEN f ELSE NoBlob

\* sbsign writes BOOTx64.EFI, in two steps; then ls and chmod.
EfiSign ==
  /\ UNCHANGED <<runs, faults, src, ukicfg, efi_in, keys, initOK, hashed, ran>>
  /\ \/ /\ At("efi", "sign") /\ "db.key" \in keys
        /\ esp' = [esp EXCEPT !.boot = Image("torn")]
        /\ Advance("sign2")
        /\ UNCHANGED fresh
     \/ /\ At("efi", "sign2")
        /\ LET names == Started("verified", hashed.kernel, InEffect(hashed.initrd), run.cmd) IN
           /\ esp' = [esp EXCEPT !.boot = Signed(efi_in, names, run.raced, run.lost)]
           /\ fresh' = IF run.raced \/ run.lost THEN NotBooted ELSE names
        /\ run' = Idle

\* setup-efi unsigned: CMDLINE (naming the initrd if there is one), KERNEL.EFI,
\* and the stub as it is.
Unsigned(stub, cmd) ==
  Begin([Idle EXCEPT !.op = "unsigned", !.at = "cmdline", !.cmd = cmd, !.stub = stub])

\* echo truncates CMDLINE and then writes it.
UnsignedCmdline ==
  /\ UNCHANGED <<runs, faults, src, ukicfg, efi_in, keys, initOK, hashed, fresh, ran>>
  /\ \/ /\ At("unsigned", "cmdline")
        /\ esp' = [esp EXCEPT !.cmdline = [text |-> "", initrd |-> FALSE]]
        /\ Advance("cmdline2")
     \/ /\ At("unsigned", "cmdline2")
        /\ esp' = [esp EXCEPT !.cmdline = [text |-> run.cmd, initrd |-> Present(esp.initrd)]]
        /\ Advance("cp")

\* cp ${STUB} ${DEST}/EFI/BOOT/BOOTx64.EFI, in two steps.
UnsignedStub ==
  /\ UNCHANGED <<runs, faults, src, ukicfg, efi_in, keys, initOK, hashed, ran>>
  /\ \/ /\ At("unsigned", "stub")
        /\ esp' = [esp EXCEPT !.boot = Image("torn")]
        /\ Advance("stub2")
        /\ UNCHANGED fresh
     \/ /\ At("unsigned", "stub2")
        /\ esp' = [esp EXCEPT !.boot = Image(run.stub)]
        /\ fresh' = Started("unverified", esp.kernel, esp.initrd, run.cmd)
        /\ run' = Idle

\* setup-efi base_initrd: cpio of /initrd written over INITRD.IMG, in two steps.  It is
\* a pipeline too: an archive whose find or cpio failed is not whole, and the run ends well.
BaseInitrd == Begin([Idle EXCEPT !.op = "base_initrd", !.at = "write"])

WriteInitrd ==
  /\ UNCHANGED <<runs, faults, src, ukicfg, efi_in, keys, initOK, hashed, fresh, ran>>
  /\ \/ /\ At("base_initrd", "write")
        /\ \E t \in Torns : esp' = [esp EXCEPT !.initrd = t]
        /\ Advance("write2")
     \/ /\ At("base_initrd", "write2")
        /\ \E i \in Initrds \cup Torns : esp' = [esp EXCEPT !.initrd = i]
        /\ run' = Idle

\* setup-efi sign_init: nothing if root.key is there, else every key in turn.
SignInit ==
  IF "root.key" \in keys
  THEN /\ run = Idle
       /\ initOK' = TRUE
       /\ UNCHANGED <<runs, faults, run, src, esp, ukicfg, efi_in, keys, hashed, fresh, ran>>
  ELSE Begin([Idle EXCEPT !.op = "sign_init", !.at = "db.key"])

NextKey == [k \in KeyFiles |->
  CASE k = "db.key" -> "root.key" [] k = "root.key" -> "root.pem"
    [] k = "root.pem" -> "authorized_keys" [] OTHER -> "minisign.pub"]

MakeKey ==
  /\ run.op = "sign_init"
  /\ keys' = keys \cup {run.at}
  /\ IF run.at = "minisign.pub"
     THEN run' = Idle /\ initOK' = TRUE
     ELSE Advance(NextKey[run.at]) /\ UNCHANGED initOK
  /\ UNCHANGED <<runs, faults, src, esp, ukicfg, efi_in, hashed, fresh, ran>>

\* A command fails, or the machine goes down.
Stop ==
  /\ run # Idle
  /\ run' = Idle
  /\ UNCHANGED <<runs, faults, src, esp, ukicfg, efi_in, keys, initOK, hashed, fresh, ran>>

\* A new kernel package appears at ${KERNEL}, possibly during a run.
NewKernel ==
  /\ \E k \in Kernels \ {src.kernel} : src' = [src EXCEPT !.kernel = k]
  /\ run' = [run EXCEPT !.raced = (run # Idle)]
  /\ Fault
  /\ UNCHANGED <<runs, esp, ukicfg, efi_in, keys, initOK, hashed, fresh, ran>>

(***************************************************************************)
(* Booting the partition on a machine whose firmware calls work (Stub2 and *)
(* Stub0 have them fail).                                                  *)
(***************************************************************************)
\* secure: with secure boot; low: the memory that stub2 gets is below 4G; stale: what
\* the memory for the initrd held before.
Machines == [secure : BOOLEAN, low : BOOLEAN, stale : Blobs]

\* Mutant: no digest, no check.
Verifies_NoDigest(bytes, sha) == sha.t = "sha" => Sha(bytes) = sha.d

\* checkSha: a line that is no digest is not that of any bytes.
Verifies(bytes, sha) == sha.t = "sha" /\ Sha(bytes) = sha.d

\* loadFile on INITRD.IMG, whose failure is not looked at: a missing file leaves the
\* buffer as it was.
InitrdRead(n, m) ==
  IF Present(esp.initrd) THEN Loaded(esp.initrd, n) ELSE Prefix(m.stale, n)

\* The sixth of the lines splitAny gives: what follows the last newline is one too.
CmdOf(c) == IF Len(c) >= 6 /\ c[6].t = "cmd" THEN c[6].c ELSE ""

\* stub2 on the lines c of its .cfg section.  It refuses or panics for want of a line, on
\* a length that is no number, a command line that does not fit, a file that does not
\* verify, and an address that does not fit 32 bits.
Stub2Boot(c, m) ==
  IF /\ Len(c) >= 5 /\ c[1] = Magic
     /\ c[2].t = "len" /\ c[4].t = "len"
     /\ CmdOf(c) \in Cmds2 \cup {""}
     /\ c[4].n > 0 => Verifies(InitrdRead(c[4].n, m), c[5])
     /\ Present(esp.kernel) /\ Verifies(Loaded(esp.kernel, c[2].n), c[3])
     /\ m.low
  THEN Started("verified", esp.kernel,
               IF c[4].n > 0 THEN InitrdRead(c[4].n, m).blob ELSE NoBlob, CmdOf(c))
  ELSE Refused

\* stub0: it panics on a long CMDLINE; then the kernel (a torn one does not load), with
\* the command line, and the initrd if that names it; the kernel refuses a missing one.
Stub0Boot ==
  IF /\ esp.cmdline.text \in Cmds0[esp.cmdline.initrd] \cup {""}
     /\ esp.kernel \in Kernels
     /\ esp.cmdline.initrd => Present(esp.initrd)
  THEN Started("unverified", esp.kernel, IF esp.cmdline.initrd THEN esp.initrd ELSE NoBlob,
               esp.cmdline.text)
  ELSE Refused

\* The firmware starts BOOTx64.EFI; with secure boot only a signed one.
BootResult(m) ==
  CASE esp.boot.kind = "signed" -> Stub2Boot(esp.boot.cfg, m)
    [] esp.boot.kind = "stub0" /\ ~m.secure -> Stub0Boot
    [] OTHER -> Refused

Boot ==
  /\ run = Idle
  /\ \E m \in Machines : ran' = BootResult(m)
  /\ UNCHANGED <<runs, faults, run, src, esp, ukicfg, efi_in, keys, initOK, hashed, fresh>>

EfiNext ==
  \/ \E env \in InitrdEnv, cmd \in Cmds : Efi(env, cmd)
  \/ EfiUki \/ CopyKernel("efi", "klen") \/ EfiKernelLen \/ EfiKernelSha
  \/ EfiInitrdLen \/ EfiInitrdSha \/ EfiCmd \/ EfiObjcopy \/ EfiSign
UnsignedNext ==
  \/ \E stub \in {"ministub", "stub0"}, cmd \in Cmds : Unsigned(stub, cmd)
  \/ UnsignedCmdline \/ CopyKernel("unsigned", "stub") \/ UnsignedStub

Next ==
  \/ EfiNext \/ UnsignedNext
  \/ BaseInitrd \/ WriteInitrd \/ SignInit \/ MakeKey
  \/ Stop \/ NewKernel \/ Boot

Spec == Init /\ [][Next]_vars

-----------------------------------------------------------------------------
\* The commands keep the files, the configuration and the images in their types.
TypeOK ==
  /\ run.op \in {"idle", "efi", "unsigned", "base_initrd", "sign_init"}
  /\ src \in [kernel : Kernels, other : Initrds]
  /\ esp.kernel \in Kernels \cup Torns \cup {NoBlob}
  /\ esp.initrd \in Initrds \cup Torns \cup {NoBlob}
  /\ esp.boot.kind \in {"none", "torn", "signed", "stub0", "ministub"}
  /\ Len(ukicfg) <= 7 /\ Len(efi_in) <= 7
  /\ keys \subseteq KeyFiles
  /\ ran.how \in {"off", "refused", "verified", "unverified"}

\* Whatever runs of setup-efi were completed, interrupted or raced by a kernel upgrade,
\* and whatever pipelines failed in them, a verified boot starts the kernel of one run of
\* efi, with the initrd and the command line of that run: never a mixture of two runs.
\* Only a failed pipeline of that run can take away the initrd, and with it the command
\* line (efi, lines 103-142).
RunsOnlyBound ==
  LET boot == esp.boot IN
  ran.how = "verified" =>
    /\ ran.kernel = boot.names.kernel
    /\ ran.initrd # boot.names.initrd => boot.lost /\ ran.initrd = NoBlob
    /\ ran.cmd # boot.names.cmd => boot.lost /\ ran.initrd = NoBlob /\ ran.cmd = ""

\* A partition whose files are those the signed image names boots them, with or without
\* secure boot, also after later runs were interrupted, if no pipeline of the signing run
\* failed, the command line fits stub2 and the memory stub2 gets is below 4G.
MatchingSetBoots ==
  LET boot == esp.boot IN
  /\ boot.kind = "signed" /\ ~boot.raced /\ ~boot.lost
  /\ boot.names.kernel = esp.kernel
  /\ boot.names.initrd \in {NoBlob, esp.initrd}
  /\ boot.names.cmd \in Cmds2
  => \A m \in Machines : m.low => BootResult(m) = boot.names

\* An efi run that completed without a failed pipeline, for the initrd on the partition
\* or for none, and that no kernel upgrade raced, leaves a partition that boots what it
\* signed; so does unsigned with the unverified stub, as build.sh uses it.  Either only
\* with a command line that fits the stub.
FreshBoots ==
  /\ /\ fresh.how = "verified" /\ fresh.cmd \in Cmds2
     /\ fresh.initrd \in {NoBlob, InEffect(esp.initrd)}
     => \A m \in Machines : m.low => BootResult(m) = fresh
  /\ /\ fresh.how = "unverified" /\ esp.boot.kind = "stub0"
     /\ fresh.cmd \in Cmds0[Present(fresh.initrd)]
     => \A m \in Machines : ~m.secure => BootResult(m) = fresh

-----------------------------------------------------------------------------
\* What the repository says and the code does not do: each statement is false in this
\* specification, as TLC shows when it stands in the configuration (see README).

\* "EFI will generate a config including SHA256 of initrd (if any), kernel size and
\* command line" (setup-efi:73): the image that a completed run signed for an initrd
\* holds its digest.  A sha256sum that fails (line 110) leaves no line and no error.
ConfigHasInitrd ==
  esp.boot.names.initrd # NoBlob =>
    \E j \in DOMAIN esp.boot.cfg :
      esp.boot.cfg[j] = ShaLine(Sha(Full(esp.boot.names.initrd)))

\* efi with INITRD naming any file: "the files are expected to be in
\* ${OUT}/EFI/LINUX" (setup-efi:75), so a completed run leaves a bootable disk.
EfiBoots ==
  fresh.how = "verified" /\ fresh.cmd \in Cmds2 =>
    \A m \in Machines : m.low => BootResult(m) = fresh

\* unsigned "simply copies files to the right place for signing or use without
\* signature" (setup-efi:51), with any value of STUB, its default included.
UnsignedBoots ==
  fresh.how = "unverified" /\ fresh.cmd \in Cmds0[Present(fresh.initrd)] =>
    \A m \in Machines : ~m.secure => BootResult(m) = fresh

\* The keys "will be created if missing" (setup-efi:7): after a sign_init that
\* returned 0 they are all there.
KeysCreated == initOK => keys = KeyFiles
=============================================================================
