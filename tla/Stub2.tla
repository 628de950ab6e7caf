------------------------------- MODULE Stub2 -------------------------------
(***************************************************************************)
(* The verified-boot stub, src/stub2/main.zig: main, linuxExec, checkSha,  *)
(* loadFile, fatal.  One action per firmware call (each may fail) or       *)
(* straight-line block.  The build is zig's default Debug mode, so failed  *)
(* safety checks (@intCast, .?, slice bounds) end in a panic.              *)
(*                                                                         *)
(* What a buffer holds is a prefix of a file's content (module Files).     *)
(***************************************************************************)
EXTENDS Files

CONSTANTS
  Headers,      \* boot headers: [valid, setup, handover]
  Header,       \* the header at the start of each blob
  NaN,          \* a config line that is not a number
  Configs,      \* contents of the .cfg section
  PageSize,     \* 0x1000
  HeaderSize,   \* @sizeOf(SetupHeader)
  CmdxLen,      \* cmdx_buffer: 256 UTF-16 units
  SetupSize,    \* 0x4000, the boot setup block
  SetupMax,     \* 0x40000000
  KernelMax,    \* image_base + 0x20000000
  I32Max,       \* 2^31 - 1
  FourG,        \* 2^32
  MemTop        \* end of physical memory

\* A line of the configuration that std.fmt.parseInt accepts.
IsNumber(x) == x # NaN

ASSUME Stub2Assumptions ==
  /\ NaN \notin Nat
  /\ Headers \subseteq [valid : BOOLEAN, setup : Nat, handover : Nat]
  /\ Header \in [Blobs -> Headers]
  /\ PageSize \in Nat \ {0}
  /\ HeaderSize \in Nat /\ HeaderSize <= PageSize /\ HeaderSize <= SetupSize
  /\ {CmdxLen, SetupSize, SetupMax, KernelMax, I32Max, FourG, MemTop} \subseteq Nat
  /\ \A c \in Configs :
       /\ c.magic \in BOOLEAN /\ c.lines \in Nat
       /\ c.kernelLength \in 0..MaxLen \cup {NaN}
       /\ c.initrdLength \in 0..MaxLen \cup {NaN}
       /\ c.cmdLen \in Nat
       /\ c.utf8 \in BOOLEAN

VARIABLES
  pc,           \* where main is
  outcome,      \* "running", "returned", "panicked" or "kernel"
  status,       \* the variable status of main; the value returned by main
  cfg,          \* the .cfg section: lines, parsed on the way
  esp,          \* \EFI\LINUX: kernel and initrd, a blob or NoBlob
  initrdBuf, initrdLen, initrdBytes,     \* the buffer, initrdLen, its content
  kernelBuf, rdKernelLen, kernelBytes,   \* likewise for the kernel
  hdr,                                   \* the header at linux_addr
  setupBuf, bootSetup,                   \* the block handed to the kernel
  started                                \* history: the kernel got control

vars == <<pc, outcome, status, cfg, esp, initrdBuf, initrdLen, initrdBytes,
          kernelBuf, rdKernelLen, kernelBytes, hdr, setupBuf, bootSetup, started>>
initrdVars == <<initrdBuf, initrdLen, initrdBytes>>
kernelVars == <<kernelBuf, rdKernelLen, kernelBytes>>
setupVars == <<hdr, setupBuf, bootSetup>>
input == <<cfg, esp>>

NoBuf == [addr |-> 0, size |-> 0]
NoHeader == [valid |-> FALSE, setup |-> 0, handover |-> 0]
NoSetup == [code32_start |-> 0, cmd_line_ptr |-> 0, nul |-> 0,
            ramdisk_start |-> 0, ramdisk_len |-> 0]

\* Any status but success that a firmware call may return.
FirmwareError == "firmware_error"

Lookups == {"loadedImage", "fileSystem", "devicePath", "openVolume"}
Steps == Lookups \cup
  {"config", "allocInitrd", "loadInitrd", "checkInitrd", "allocKernel", "loadKernel",
   "checkKernel", "header", "allocSetup", "allocPool", "handover", "inKernel", "end"}

Init ==
  /\ pc = "loadedImage" /\ outcome = "running" /\ status = "success"
  /\ cfg \in Configs
  /\ esp \in [kernel : Blobs \cup {NoBlob}, initrd : Blobs \cup {NoBlob}]
  /\ initrdBuf = NoBuf /\ initrdLen = 0 /\ initrdBytes = NoBytes
  /\ kernelBuf = NoBuf /\ rdKernelLen = 0 /\ kernelBytes = NoBytes
  /\ hdr = NoHeader /\ setupBuf = NoBuf /\ bootSetup = NoSetup
  /\ started = FALSE

(***************************************************************************)
(* Ways out of main.                                                       *)
(***************************************************************************)
End(how, s) == pc' = "end" /\ outcome' = how /\ status' = s

\* fatal logs, stalls three seconds and returns the status it was given.
fatal(s) == End("returned", s)

Panic == End("panicked", status)

Goto(step) == pc' = step /\ outcome' = outcome /\ status' = "success"

(***************************************************************************)
(* Firmware (external).                                                    *)
(***************************************************************************)
Taken == {initrdBuf, kernelBuf, setupBuf}

\* The addresses at which AllocatePages(AllocateMaxAddress) may place size
\* bytes: page aligned, free, and ending at or below max.
FreeBelow(max, size) ==
  {a \in 0..Min(max, MemTop) :
     /\ a % PageSize = 0
     /\ a + size <= Min(max + 1, MemTop)
     /\ \A r \in Taken : r.size = 0 \/ a + size <= r.addr \/ r.addr + r.size <= a}

\* What memory nobody has written holds: anything, the blob that an earlier
\* boot left there included.
Stale(n) == {Prefix(b, n) : b \in Blobs}

(***************************************************************************)
(* main                                                                    *)
(***************************************************************************)
NextLookup == [loadedImage |-> "fileSystem", fileSystem |-> "devicePath",
               devicePath |-> "openVolume", openVolume |-> "config"]

\* OpenProtocol(LoadedImage), HandleProtocol(SimpleFileSystem and DevicePath)
\* and OpenVolume: the error of the call is the status of the stub.
Lookup ==
  /\ pc \in Lookups
  /\ \/ Goto(NextLookup[pc])
     \/ fatal(FirmwareError)
  /\ UNCHANGED <<input, initrdVars, kernelVars, setupVars, started>>

\* No "UKI" at image_base + CONFIG_SECTION.  status still holds the success of
\* OpenVolume, and that is what fatal returns.
Unbound ==
  /\ pc = "config" /\ ~cfg.magic
  /\ fatal(status)
  /\ UNCHANGED <<input, initrdVars, kernelVars, setupVars, started>>

\* configLines.next().? on a configuration with too few lines, in the order in
\* which main asks for the lines, or a command line longer than cmdx_buffer.
ConfigPanics(c) ==
  \/ c.lines < 2
  \/ IsNumber(c.kernelLength) /\ c.lines < 4
  \/ /\ IsNumber(c.kernelLength) /\ IsNumber(c.initrdLength)
     /\ c.lines < 6 \/ c.cmdLen > CmdxLen

\* A length that does not parse, or a command line that is not UTF-8.
ConfigInvalid(c) ==
  /\ ~ConfigPanics(c)
  /\ ~IsNumber(c.kernelLength) \/ ~IsNumber(c.initrdLength) \/ ~c.utf8

ReadConfig ==
  /\ pc = "config" /\ cfg.magic
  /\ \/ /\ ConfigPanics(cfg)
        /\ Panic
        /\ UNCHANGED initrdLen
     \/ /\ ConfigInvalid(cfg)
        /\ End("returned", "invalid_parameter")
        /\ UNCHANGED initrdLen
     \/ /\ ~ConfigPanics(cfg) /\ ~ConfigInvalid(cfg)
        /\ initrdLen' = cfg.initrdLength
        /\ Goto(IF cfg.initrdLength > 0 THEN "allocInitrd" ELSE "allocKernel")
  /\ UNCHANGED <<input, initrdBuf, initrdBytes, kernelVars, setupVars, started>>

\* Mutants: rounding down, and a sign.
pages_needed_Down(len) == len \div PageSize
pages_needed_Minus(len) == 1 - (len + PageSize - 1) \div PageSize

\* 1 + (length + 0xfff) / 0x1000 pages: one more than the length needs.
pages_needed(len) == 1 + (len + PageSize - 1) \div PageSize

\* The limit passed for the initrd is an undefined pointer: no limit holds.
AllocInitrd ==
  /\ pc = "allocInitrd"
  /\ \/ /\ fatal(FirmwareError)
        /\ UNCHANGED initrdBuf
     \/ LET size == pages_needed(initrdLen) * PageSize IN
        \E a \in FreeBelow(MemTop, size) :
          /\ initrdBuf' = [addr |-> a, size |-> size]
          /\ Goto("loadInitrd")
  /\ UNCHANGED <<input, initrdLen, initrdBytes, kernelVars, setupVars, started>>

\* The status of loadFile is overwritten by that of checkSha, so a failed open
\* or read goes on, with whatever the buffer holds.
LoadInitrd ==
  /\ pc = "loadInitrd"
  /\ \/ /\ esp.initrd # NoBlob
        /\ initrdBytes' = Loaded(esp.initrd, initrdLen)
        /\ initrdLen' = initrdBytes'.len
     \/ \E n \in 0..initrdLen :
          /\ initrdBytes' \in Stale(n)
          /\ initrdLen' = n
  /\ Goto("checkInitrd")
  /\ UNCHANGED <<input, initrdBuf, kernelVars, setupVars, started>>

\* Mutant: an empty read passes.
ShaOK_Empty(bytes, expected) == bytes.len = 0 \/ Sha(bytes) = expected

\* checkSha: success only if the digest of the first len bytes is the expected one.
ShaOK(bytes, expected) == Sha(bytes) = expected

\* Mutants: the digest is not looked at; the status of loadFile is returned.
CheckInitrd_Skipped ==
  /\ pc = "checkInitrd" /\ Goto("allocKernel")
  /\ UNCHANGED <<input, initrdVars, kernelVars, setupVars, started>>

CheckInitrd_Status ==
  /\ pc = "checkInitrd"
  /\ \/ ShaOK(initrdBytes, cfg.initrdSha) /\ Goto("allocKernel")
     \/ ~ShaOK(initrdBytes, cfg.initrdSha) /\ fatal(status)
  /\ UNCHANGED <<input, initrdVars, kernelVars, setupVars, started>>

CheckInitrd ==
  /\ pc = "checkInitrd"
  /\ \/ ShaOK(initrdBytes, cfg.initrdSha) /\ Goto("allocKernel")
     \/ ~ShaOK(initrdBytes, cfg.initrdSha) /\ fatal("load_error")
  /\ UNCHANGED <<input, initrdVars, kernelVars, setupVars, started>>

AllocKernel ==
  /\ pc = "allocKernel"
  /\ \/ /\ cfg.kernelLength + PageSize - 1 > I32Max
        /\ Panic
        /\ UNCHANGED <<kernelBuf, rdKernelLen>>
     \/ /\ cfg.kernelLength + PageSize - 1 <= I32Max
        /\ fatal(FirmwareError)
        /\ UNCHANGED <<kernelBuf, rdKernelLen>>
     \/ LET size == pages_needed(cfg.kernelLength) * PageSize IN
        \E a \in FreeBelow(KernelMax, size) :
          /\ cfg.kernelLength + PageSize - 1 <= I32Max
          /\ kernelBuf' = [addr |-> a, size |-> size]
          /\ rdKernelLen' = cfg.kernelLength
          /\ Goto("loadKernel")
  /\ UNCHANGED <<input, initrdVars, kernelBytes, setupVars, started>>

LoadKernel ==
  /\ pc = "loadKernel"
  /\ \/ /\ esp.kernel # NoBlob
        /\ kernelBytes' = Loaded(esp.kernel, rdKernelLen)
        /\ rdKernelLen' = kernelBytes'.len
        /\ Goto("checkKernel")
     \/ fatal("load_error") /\ UNCHANGED <<rdKernelLen, kernelBytes>>
  /\ UNCHANGED <<input, initrdVars, kernelBuf, setupVars, started>>

\* Mutant: the digest is not looked at.
CheckKernel_Skipped ==
  /\ pc = "checkKernel" /\ Goto("header")
  /\ UNCHANGED <<input, initrdVars, kernelVars, setupVars, started>>

CheckKernel ==
  /\ pc = "checkKernel"
  /\ \/ ShaOK(kernelBytes, cfg.kernelSha) /\ Goto("header")
     \/ ~ShaOK(kernelBytes, cfg.kernelSha) /\ fatal("load_error")
  /\ UNCHANGED <<input, initrdVars, kernelVars, setupVars, started>>

(***************************************************************************)
(* linuxExec                                                               *)
(***************************************************************************)
\* The header at linux_addr; a kernel shorter than the header leaves part of
\* it to what the buffer held before.
HeaderIn(bytes) ==
  IF bytes.len >= HeaderSize THEN {Header[bytes.blob]} ELSE Headers

\* Signature, "HdrS", version >= 0x20b and relocatable_kernel.
CheckHeader ==
  /\ pc = "header"
  /\ hdr' \in HeaderIn(kernelBytes)
  /\ \/ hdr'.valid /\ Goto("allocSetup")
     \/ ~hdr'.valid /\ fatal("load_error")
  /\ UNCHANGED <<input, initrdVars, kernelVars, setupBuf, bootSetup, started>>

\* Mutant: @truncate for @intCast.
FitsU32_Truncate(x) == x = x

\* @intCast to u32 of an address that does not fit panics.
FitsU32(x) == x < FourG

\* The setup block: allocated below 1G, zeroed, filled from the kernel's header.
AllocSetup ==
  /\ pc = "allocSetup"
  /\ \/ /\ fatal(FirmwareError)
        /\ UNCHANGED <<setupBuf, bootSetup>>
     \/ \E a \in FreeBelow(SetupMax, SetupSize) :
          LET start == kernelBuf.addr + hdr.setup IN
          /\ setupBuf' = [addr |-> a, size |-> SetupSize]
          /\ \/ /\ FitsU32(start)
                /\ bootSetup' = [NoSetup EXCEPT !.code32_start = start]
                /\ Goto("allocPool")
             \/ ~FitsU32(start) /\ Panic /\ UNCHANGED bootSetup
  /\ UNCHANGED <<input, initrdVars, kernelVars, hdr, started>>

\* The pool for the command line has cmdline.len * 2 bytes; the terminating NUL
\* goes to index cmdline.len.  Then the initrd, if there is one.
AllocPool ==
  /\ pc = "allocPool"
  /\ \/ fatal("load_error") /\ UNCHANGED bootSetup
     \/ \E p \in FreeBelow(MemTop, 2 * cfg.cmdLen) :
          \/ /\ FitsU32(p)
             /\ initrdLen > 0 => FitsU32(initrdBuf.addr) /\ FitsU32(initrdLen)
             /\ bootSetup' =
                  [code32_start |-> bootSetup.code32_start,
                   cmd_line_ptr |-> p, nul |-> cfg.cmdLen,
                   ramdisk_start |-> IF initrdLen > 0 THEN initrdBuf.addr ELSE 0,
                   ramdisk_len |-> initrdLen]
             /\ Goto("handover")
          \/ /\ \/ ~FitsU32(p)
                \/ initrdLen > 0 /\ ~(FitsU32(initrdBuf.addr) /\ FitsU32(initrdLen))
             /\ Panic
             /\ UNCHANGED bootSetup
  /\ UNCHANGED <<input, initrdVars, kernelVars, hdr, setupBuf, started>>

\* linuxEfiHandover: cli, then a jump to code32_start + 512 + handover_offset
\* (a u32 sum, which panics on overflow).
Handover ==
  /\ pc = "handover"
  /\ \/ /\ FitsU32(bootSetup.code32_start + hdr.handover)
        /\ pc' = "inKernel" /\ outcome' = "kernel" /\ status' = status
        /\ started' = TRUE
     \/ /\ ~FitsU32(bootSetup.code32_start + hdr.handover)
        /\ Panic
        /\ UNCHANGED started
  /\ UNCHANGED <<input, initrdVars, kernelVars, setupVars>>

\* "Should never return": a kernel that does is a load error.
KernelReturns ==
  /\ pc = "inKernel"
  /\ fatal("load_error")
  /\ UNCHANGED <<input, initrdVars, kernelVars, setupVars, started>>

Next ==
  \/ Lookup \/ Unbound \/ ReadConfig
  \/ AllocInitrd \/ LoadInitrd \/ CheckInitrd
  \/ AllocKernel \/ LoadKernel \/ CheckKernel
  \/ CheckHeader \/ AllocSetup \/ AllocPool \/ Handover
  \/ KernelReturns

\* main is one thread and every firmware call returns.
Spec == Init /\ [][Next]_vars
FairSpec == Spec /\ WF_vars(Next)

-----------------------------------------------------------------------------
(***************************************************************************)
(* Properties                                                              *)
(***************************************************************************)
Bufs == [addr : Nat, size : Nat]

\* Every variable of the stub keeps its type.
TypeOK ==
  /\ pc \in Steps
  /\ outcome \in {"running", "returned", "panicked", "kernel"}
  /\ status \in {"success", "load_error", "invalid_parameter", FirmwareError}
  /\ cfg \in Configs
  /\ esp \in [kernel : Blobs \cup {NoBlob}, initrd : Blobs \cup {NoBlob}]
  /\ initrdBuf \in Bufs /\ kernelBuf \in Bufs /\ setupBuf \in Bufs
  /\ initrdLen \in 0..MaxLen /\ rdKernelLen \in 0..MaxLen
  /\ initrdBytes \in Bytes /\ kernelBytes \in Bytes
  /\ hdr \in Headers \cup {NoHeader}
  /\ bootSetup \in [code32_start : Nat, cmd_line_ptr : Nat, nul : Nat,
                     ramdisk_start : Nat, ramdisk_len : Nat]
  /\ started \in BOOLEAN

\* The kernel gets control only when the bytes it was loaded as have the digest
\* of the signed configuration, and with an initrd only when exactly the
\* ramdisk_len bytes it is told about have the configured digest
\* (checkSha before linuxExec, although the status of loadFile is dropped).
HandoverVerified ==
  started =>
    /\ Sha(kernelBytes) = cfg.kernelSha
    /\ bootSetup.ramdisk_len = initrdBytes.len
    /\ cfg.initrdLength # 0 => Sha(initrdBytes) = cfg.initrdSha
    /\ cfg.initrdLength = 0 => bootSetup.ramdisk_len = 0

\* The configuration setup-efi writes: the length and the digest of one file
\* for the kernel, and of one file, or 0 and no digest, for the initrd.
WellBound(c) ==
  /\ \E k \in Blobs : c.kernelLength = BlobLen[k] /\ c.kernelSha = Sha(Full(k))
  /\ \/ c.initrdLength = 0
     \/ \E i \in Blobs : c.initrdLength = BlobLen[i] /\ c.initrdSha = Sha(Full(i))

\* No byte is missing: under a configuration that setup-efi wrote, the kernel and
\* the initrd handed over have the configured lengths, although files may be
\* shorter or longer than configured, missing, or fail to read.
HandoverComplete ==
  started /\ WellBound(cfg) =>
    /\ kernelBytes.len = cfg.kernelLength
    /\ bootSetup.ramdisk_len = cfg.initrdLength

\* Every access of the stub stays inside the pages it allocated: the reads of
\* loadFile and the boot header of even the shortest kernel (pages_needed).  The NUL
\* of the command line is NulInPool, below.
AccessesInBounds ==
  /\ initrdBytes.len <= initrdBuf.size
  /\ kernelBytes.len <= kernelBuf.size
  /\ hdr # NoHeader => HeaderSize <= kernelBuf.size

\* The 32-bit fields of the setup block are the addresses of what was verified,
\* never a truncation of them (the @intCasts of linuxExec).
HandoverPointers ==
  started =>
    /\ bootSetup.code32_start = kernelBuf.addr + hdr.setup
    /\ bootSetup.code32_start < FourG
    /\ bootSetup.ramdisk_len > 0 => bootSetup.ramdisk_start = initrdBuf.addr
    /\ bootSetup.ramdisk_start + bootSetup.ramdisk_len <= MemTop
    /\ bootSetup.ramdisk_start < FourG /\ bootSetup.cmd_line_ptr < FourG

\* A stub that gives up says so: whatever path led out of main, a boot that was
\* not handed over is not reported to the firmware as a success.  (The message
\* of line 63 calls the unbound stub fatal.)
FailureReported == outcome = "returned" => status # "success"

\* The same for a stub that carries a configuration.
BoundFailureReported == cfg.magic => FailureReported

\* What a configuration names: a kernel and an initrd by their digests.
Names(c, k, i) ==
  /\ Sha(k) = c.kernelSha
  /\ \/ c.initrdLength = 0 /\ i = NoBytes
     \/ c.initrdLength # 0 /\ Sha(i) = c.initrdSha

\* The stub as a verified boot: what it did, seen from outside.
Phase ==
  IF started THEN "started" ELSE IF outcome = "running" THEN "deciding" ELSE "refused"
Ran ==
  [kernel |-> IF started THEN kernelBytes ELSE NoBytes,
   initrd |-> IF started THEN initrdBytes ELSE NoBytes]

VB == INSTANCE VerifiedBoot WITH
        Bindings <- Configs, Images <- Bytes, NoImage <- NoBytes,
        binding <- cfg, phase <- Phase, ran <- Ran

\* The stub implements VerifiedBoot: it decides once, and starts only what its
\* configuration names.
ImplementsVerifiedBoot == VB!ASpec

-----------------------------------------------------------------------------
\* The NUL after the command line stays in its pool.  This is false, as is FailureReported:
\* an empty command line gets a pool of 0 bytes, and its NUL goes to index 0 (linuxExec).
NulInPool == pc \in {"handover", "inKernel"} => bootSetup.nul < 2 * cfg.cmdLen
=============================================================================
