------------------------------- MODULE Stub0 -------------------------------
(***************************************************************************)
(* The unverified stub, src/stub0/main.zig: it reads the command line from *)
(* \EFI\LINUX\CMDLINE, lets the firmware load \EFI\LINUX\KERNEL.EFI, and   *)
(* starts it with that command line as UTF-16 load options.  One action    *)
(* per firmware call; Debug build, so an index out of bounds is a panic.   *)
(***************************************************************************)
EXTENDS Naturals

CONSTANTS
  CmdxLen,      \* cmdx_buffer: 256 units
  PoolSize,     \* 64 * 1024
  MaxFile       \* bound: the longest CMDLINE considered

Stub0Sizes ==
  /\ CmdxLen \in Nat /\ PoolSize \in Nat /\ MaxFile \in Nat
  /\ 1 < CmdxLen /\ CmdxLen <= PoolSize

ASSUME Stub0Assumptions == Stub0Sizes

NoFile == MaxFile + 1

VARIABLES
  pc, outcome, status,
  file,         \* length of CMDLINE, or NoFile
  pool,         \* cmdline_buffer: "none", "held" or "freed"
  cmd_size,     \* what the code believes the command line's length is
  cmdx,         \* cmdx_buffer: the first n units are those of text, the rest 0
  image,        \* kimage was loaded
  options       \* load_options of the kernel: text, size in bytes

stub0Vars == <<pc, outcome, status, file, pool, cmd_size, cmdx, image, options>>

Lookups == {"loadedImage", "fileSystem", "devicePath", "openVolume"}
NoOptions == [text |-> "none", n |-> 0, size |-> 0]

Stub0Init ==
  /\ pc = "loadedImage" /\ outcome = "running" /\ status = "success"
  /\ file \in 0..NoFile
  /\ pool = "none" /\ cmd_size = PoolSize
  /\ cmdx = [text |-> "none", n |-> 0]
  /\ image = FALSE /\ options = NoOptions

End(how, s) == pc' = "end" /\ outcome' = how /\ status' = s
Goto(p) == pc' = p /\ UNCHANGED <<outcome, status>>

Data == <<file, pool, cmd_size, cmdx, image, options>>

NextLookup == [loadedImage |-> "fileSystem", fileSystem |-> "devicePath",
               devicePath |-> "openVolume", openVolume |-> "allocatePool"]

\* The first lookup returns the firmware's status, the others load_error.
Lookup ==
  /\ pc \in Lookups
  /\ \/ Goto(NextLookup[pc])
     \/ End("returned", IF pc = "loadedImage" THEN "firmware_error" ELSE "load_error")
  /\ UNCHANGED Data

AllocatePool ==
  /\ pc = "allocatePool"
  /\ \/ Goto("loadFile") /\ pool' = "held"
     \/ End("returned", "load_error") /\ UNCHANGED pool
  /\ UNCHANGED <<file, cmd_size, cmdx, image, options>>

\* CMDLINE was read: at most PoolSize bytes, each one widened into cmdx_buffer,
\* then unit cmd_size + 1 is zeroed.
Copy(n) ==
  \/ n + 1 < CmdxLen /\ cmdx' = [text |-> "file", n |-> n] /\ Goto("freePool")
  \/ n + 1 >= CmdxLen /\ End("panicked", status) /\ UNCHANGED cmdx

LoadFile ==
  /\ pc = "loadFile" /\ file # NoFile
  /\ cmd_size' = IF file < PoolSize THEN file ELSE PoolSize
  /\ Copy(cmd_size')
  /\ UNCHANGED <<file, pool, image, options>>

\* CMDLINE is missing or cannot be read.  cmd_size becomes 0, the default text is
\* logged, and the copy loop over 0..cmd_size copies nothing.
LoadFileFails ==
  /\ pc = "loadFile"
  /\ cmd_size' = 0
  /\ Goto("freePool")
  /\ UNCHANGED <<file, pool, cmdx, image, options>>

\* Mutant: the pool is kept.
FreePool_Kept ==
  /\ pc = "freePool"
  /\ Goto("devicePathFor")
  /\ UNCHANGED Data

\* The result of FreePool is ignored.
FreePool ==
  /\ pc = "freePool"
  /\ pool' = "freed"
  /\ Goto("devicePathFor")
  /\ UNCHANGED <<file, cmd_size, cmdx, image, options>>

\* create_file_device_path in a fixed buffer of 1000 bytes.
KernelPath ==
  /\ pc = "devicePathFor"
  /\ \/ Goto("loadImage")
     \/ End("returned", "invalid_parameter")
  /\ UNCHANGED Data

LoadImage ==
  /\ pc = "loadImage"
  /\ \/ Goto("openKernel") /\ image' = TRUE
     \/ End("returned", "load_error") /\ UNCHANGED image
  /\ UNCHANGED <<file, pool, cmd_size, cmdx, options>>

\* Mutant: load_options_size without the NUL.
SetOptions_NoNul ==
  /\ pc = "openKernel"
  /\ \/ /\ options' = [text |-> cmdx.text, n |-> cmdx.n, size |-> cmd_size * 2]
        /\ Goto("startImage")
     \/ End("returned", "firmware_error") /\ UNCHANGED options
  /\ UNCHANGED <<file, pool, cmd_size, cmdx, image>>

\* OpenProtocol on the kernel, then load_options and load_options_size are set.
SetOptions ==
  /\ pc = "openKernel"
  /\ \/ /\ options' = [text |-> cmdx.text, n |-> cmdx.n, size |-> (cmd_size + 1) * 2]
        /\ Goto("startImage")
     \/ End("returned", "firmware_error") /\ UNCHANGED options
  /\ UNCHANGED <<file, pool, cmd_size, cmdx, image>>

\* The kernel runs; a stub whose kernel comes back returns the kernel's status.
StartImage ==
  /\ pc = "startImage"
  /\ pc' = "inKernel" /\ outcome' = "kernel" /\ UNCHANGED status
  /\ UNCHANGED Data

KernelReturns ==
  /\ pc = "inKernel"
  /\ \E s \in {"success", "kernel_error"} : End("returned", s)
  /\ UNCHANGED Data

Stub0Next ==
  \/ Lookup \/ AllocatePool \/ LoadFile \/ LoadFileFails \/ FreePool \/ KernelPath
  \/ LoadImage \/ SetOptions \/ StartImage \/ KernelReturns

Stub0Spec == Stub0Init /\ [][Stub0Next]_stub0Vars
-----------------------------------------------------------------------------
\* Types.
Stub0TypeOK ==
  /\ outcome \in {"running", "returned", "panicked", "kernel"}
  /\ file \in 0..NoFile /\ cmd_size \in 0..PoolSize
  /\ pool \in {"none", "held", "freed"}
  /\ cmdx.text \in {"none", "file"} /\ cmdx.n \in 0..CmdxLen
  /\ image \in BOOLEAN
  /\ options.text \in {"none", "file"} /\ options.size \in Nat

\* The load options the kernel gets are a NUL-terminated string inside cmdx_buffer:
\* load_options_size counts the text, all of it, and exactly one NUL.
OptionsWellFormed ==
  outcome = "kernel" =>
    /\ options.size = 2 * (options.n + 1)
    /\ options.n + 1 < CmdxLen
    /\ options.text = "file" => options.n = file

\* The kernel never starts while the stub still holds its 64 kB of pool memory, and
\* once the stub has ended without a panic the pool is only held if it was never used.
PoolReleased ==
  /\ image => pool = "freed"
  /\ outcome = "returned" => pool # "held"

-----------------------------------------------------------------------------
\* What the repository says and the code does not do: each statement is false in this
\* specification, as TLC shows when it stands in the configuration (see README).

\* "Unable to load cmdline, using default" (main.zig:77): a kernel started without a
\* CMDLINE file gets the default command line of line 83.
DefaultApplied == outcome = "kernel" /\ file = NoFile => options.text = "default"

\* "64kB max" (main.zig:64): a command line of up to 64 kB does not stop the stub.
UpTo64kB == file <= PoolSize => outcome # "panicked"
=============================================================================
