------------------------------- MODULE GoBoot -------------------------------
(***************************************************************************)
(* The Go loaders, goefi/cmd/{efi-verify,efiload,recovery}/main.go, on the *)
(* library goefi/pkg/ueficore (fs.go, file.go, path.go, image.go, exit.go, *)
(* reset.go); recovery has the same functions from the external package    *)
(* go-boot/uefi.  efi-verify and efiload start the kernel in a section of  *)
(* their own, signed, image; recovery is a shell command that reads        *)
(* kernel and command line from the partition.  One action per firmware    *)
(* call or straight-line block; every firmware call may fail.              *)
(***************************************************************************)
EXTENDS Integers

CONSTANTS
  Configs,      \* the config section: [lines, kerLen], kerLen as Atoi returns it
  MinPrint,     \* 16: efiload prints kerData[0:16]
  Files,        \* possible lengths of a file on the partition
  NoFile,       \* the file does not exist
  ReadSize,     \* free space io.ReadAll offers to one Read, at least 1
  Texts,        \* command lines: how many characters have 1, 2, 3 and 4 bytes in UTF-8
  MaxCmds       \* bound: commands given to the recovery shell

\* The default command line.  A byte that is no UTF-8 counts as one character.
Ascii == [bytes \in 1..4 |-> IF bytes = 1 THEN 2 ELSE 0]

ASSUME GoBootAssumptions ==
  /\ \A c \in Configs : c.lines \in 1..3 /\ c.kerLen \in Int
  /\ Files \subseteq Nat /\ NoFile \notin Nat
  /\ MinPrint \in Nat /\ MaxCmds \in Nat /\ ReadSize \in Nat /\ ReadSize > 0
  /\ Texts \subseteq [1..4 -> Nat] /\ Ascii \in Texts

VARIABLES
  prog,      \* the program
  pc, outcome,
  cfg,       \* its config section
  disk,      \* lengths of \EFI\linux\kernel.efi and \EFI\linux\cmdline
  arg,       \* recovery: the command line was given as an argument
  target,    \* load: the file being read
  got,       \* load: bytes that io.ReadAll has
  data,      \* the kernel in memory: where from, how long, read to the end
  cmdline,   \* where the command line is from; "none": it is empty
  image,     \* what LoadImage was given
  options,   \* load options of the image: "unset" or where they are from
  buffer,    \* and their text, with the LoadOptionsSize that was written
  started,   \* history: StartImage was called for image
  wild,      \* history: something was written at addresses 48 and 56
  handles,   \* root directories and files open at the firmware
  cmds       \* commands given so far

vars == <<prog, pc, outcome, cfg, disk, arg, target, got, data, cmdline, image, options,
          buffer, started, wild, handles, cmds>>
inputs == <<prog, cfg, disk>>
call == <<arg, cmds>>
loading == <<target, got>>
kernel == <<image, options, buffer, started, wild>>

Nil == [src |-> "nil", len |-> 0, whole |-> FALSE]
Empty == [text |-> Ascii, size |-> 0]

Entry == [p \in {"efi-verify", "efiload", "recovery"} |->
            CASE p = "efi-verify" -> "config" [] p = "efiload" -> "vars" [] OTHER -> "shell"]

Init ==
  /\ prog \in DOMAIN Entry
  /\ pc = Entry[prog] /\ outcome = "running"
  /\ cfg \in Configs
  /\ disk \in [kernel : Files \cup {NoFile}, cmdline : Files \cup {NoFile}]
  /\ arg = FALSE /\ target = "kernel" /\ got = 0
  /\ data = Nil /\ cmdline = "none" /\ image = Nil /\ options = "unset" /\ buffer = Empty
  /\ started = FALSE /\ wild = FALSE /\ handles = [dirs |-> 0, files |-> 0] /\ cmds = 0

Goto(p) == pc' = p /\ UNCHANGED outcome
End(how) == pc' = "end" /\ outcome' = how

\* executeKernel returns err: recovery goes back to its shell, the others end
\* with os.Exit(1) or go on to Boot.Exit.
Return(err) ==
  \/ prog = "recovery" /\ Goto("shell")
  \/ prog # "recovery" /\ err /\ End("exit1")
  \/ prog # "recovery" /\ ~err /\ Goto("exit")

(***************************************************************************)
(* main                                                                    *)
(***************************************************************************)
\* efiload lists the firmware's variables first; errors panic.
Vars ==
  /\ pc = "vars"
  /\ Goto("config") \/ End("panicked")
  /\ UNCHANGED <<inputs, call, loading, data, cmdline, kernel, handles>>

\* A section with one line has no parts[1]; unsafe.Slice panics on a negative
\* length; efiload prints the first MinPrint bytes.
ConfigPanics ==
  \/ cfg.lines < 2
  \/ cfg.kerLen < 0
  \/ prog = "efiload" /\ cfg.kerLen < MinPrint

\* kerData is a slice at a fixed address, not nil even when kerLen is 0.
ReadConfig ==
  /\ pc = "config"
  /\ \/ ConfigPanics /\ End("panicked") /\ UNCHANGED <<data, cmdline>>
     \/ /\ ~ConfigPanics
        /\ data' = [src |-> "section", len |-> cfg.kerLen, whole |-> TRUE]
        /\ cmdline' = "section"
        /\ Goto("root")
  /\ UNCHANGED <<inputs, call, loading, kernel, handles>>

\* Mutant: the command line is not reset.
Command_Stale ==
  /\ pc = "shell" /\ cmds < MaxCmds
  /\ arg' \in BOOLEAN
  /\ cmdline' = IF arg' THEN "arg" ELSE cmdline
  /\ data' = Nil /\ image' = Nil /\ options' = "unset" /\ buffer' = Empty
  /\ started' = FALSE
  /\ cmds' = cmds + 1
  /\ Goto("root")
  /\ UNCHANGED <<inputs, loading, wild, handles>>

\* The recovery command of the shell, with or without a command line.
Command ==
  /\ pc = "shell" /\ cmds < MaxCmds
  /\ arg' \in BOOLEAN
  /\ cmdline' = IF arg' THEN "arg" ELSE "none"
  /\ data' = Nil /\ image' = Nil /\ options' = "unset" /\ buffer' = Empty
  /\ started' = FALSE
  /\ cmds' = cmds + 1
  /\ Goto("root")
  /\ UNCHANGED <<inputs, loading, wild, handles>>

ShellExit ==
  /\ pc = "shell"
  /\ Goto("exit")
  /\ UNCHANGED <<inputs, call, loading, data, cmdline, kernel, handles>>

(***************************************************************************)
(* Loading a file                                                          *)
(***************************************************************************)
RootOpened == [handles EXCEPT !.dirs = @ + 1]

\* Services.Root: LoadedImage, device path and file system of the device the
\* program came from, then OpenVolume, which opens the root directory.  A volume
\* of unknown revision is an error although it is open.
Root(at, next) ==
  /\ pc = at
  /\ \/ Goto(next) /\ handles' = RootOpened
     \/ Return(TRUE) /\ handles' \in {handles, RootOpened}

\* Mutant: len(data) == 0.
NilData_Empty(d) == d.len = 0

\* if data == nil { data, err = load(path) }
NilData(d) == d.src = "nil"

ExecuteRoot ==
  /\ Root("root", IF NilData(data) THEN "loadRoot" ELSE "filePath")
  /\ target' = "kernel" /\ got' = 0
  /\ UNCHANGED <<inputs, call, data, cmdline, kernel>>

\* The file is there: load has it.  Its digest is printed and not compared.
LoadDone(bytes) ==
  /\ got' = 0
  /\ \/ /\ target = "kernel"
        /\ data' = bytes
        /\ target' = "cmdline"
        /\ Goto(IF cmdline = "none" THEN "loadRoot" ELSE "filePath")
        /\ UNCHANGED cmdline
     \/ /\ target = "cmdline"
        /\ cmdline' = "file"
        /\ Goto("filePath")
        /\ UNCHANGED <<data, target>>

\* load returned an error: no kernel, or the default command line.
LoadFails ==
  /\ got' = 0
  /\ \/ target = "kernel" /\ Return(TRUE) /\ UNCHANGED <<data, cmdline, target>>
     \/ target = "cmdline" /\ cmdline' = "default" /\ Goto("filePath")
        /\ UNCHANGED <<data, target>>

\* Mutant: retried until it works.
LoadRoot_Retry ==
  /\ pc = "loadRoot"
  /\ Goto("open") \/ Goto("loadRoot")
  /\ handles' = RootOpened
  /\ UNCHANGED <<inputs, call, loading, data, cmdline, kernel>>

\* load opens the root a second time.
LoadRoot ==
  /\ pc = "loadRoot"
  /\ \/ /\ Goto("open") /\ handles' = RootOpened
        /\ UNCHANGED <<loading, data, cmdline>>
     \/ LoadFails /\ handles' \in {handles, RootOpened}
  /\ UNCHANGED <<inputs, call, kernel>>

\* A file of a revision that open does not know is refused, and stays open.
Open ==
  LET opened == [handles EXCEPT !.files = @ + 1] IN
  /\ pc = "open"
  /\ \/ /\ disk[target] # NoFile
        /\ Goto("read") /\ handles' = opened
        /\ UNCHANGED <<loading, data, cmdline>>
     \/ LoadFails /\ UNCHANGED handles
     \/ disk[target] # NoFile /\ LoadFails /\ handles' = opened
  /\ UNCHANGED <<inputs, call, kernel>>

Rest == disk[target] - got
File(n) == [src |-> "file", len |-> n, whole |-> (n = disk[target])]

\* read: the firmware puts the number of bytes into size.  Size 0 is io.EOF,
\* whatever the status (the other test, status == EFI_DEVICE_ERROR, compares with
\* a code without the error bit and never holds).
AtEOF(size) == size = 0

\* One Read of io.ReadAll.  A failed Read leaves size as it is, or anything below;
\* its n bytes are appended, and loadAndVerify returns what there is, without the
\* error.
Read ==
  /\ pc = "read"
  /\ \E failed \in BOOLEAN, size \in 0..ReadSize :
       /\ ~failed => size = IF Rest < ReadSize THEN Rest ELSE ReadSize
       /\ \/ AtEOF(size) /\ LoadDone(File(got))
          \/ /\ ~AtEOF(size) /\ ~failed
             /\ got' = got + size
             /\ Goto("read") /\ UNCHANGED <<data, cmdline, target>>
          \/ ~AtEOF(size) /\ failed /\ LoadDone([File(got + size) EXCEPT !.whole = FALSE])
  /\ UNCHANGED <<inputs, call, kernel, handles>>

(***************************************************************************)
(* Starting the kernel                                                     *)
(***************************************************************************)
\* FS.FilePath: the device path of the file, parsed from the firmware's.  A node of
\* length 1 to 3 (uint16, minus 4) is a slice out of range.
FilePath ==
  /\ pc = "filePath"
  /\ Goto("loadImage") \/ Return(TRUE) \/ End("panicked")
  /\ UNCHANGED <<inputs, call, loading, data, cmdline, kernel, handles>>

\* LoadImageMem takes &buf[0], which panics for an empty buffer.
LoadImageMem ==
  /\ pc = "loadImage"
  /\ \/ data.len = 0 /\ End("panicked") /\ UNCHANGED image
     \/ data.len > 0 /\ image' = data /\ Goto("options")
     \/ data.len > 0 /\ Return(TRUE) /\ UNCHANGED image
  /\ UNCHANGED <<inputs, call, loading, data, cmdline, options, buffer, started, wild, handles>>

\* utf16.Encode, without the NUL: a character of four bytes is a surrogate pair.
Utf16(t) == t[1] + t[2] + t[3] + 2 * t[4]

\* Mutant: two bytes for each character.
LoadOptionsSize_Runes(t) == 2 * (t[1] + t[2] + t[3] + t[4])

\* uint32(len(cmdline) * 2), where len counts bytes.
LoadOptionsSize(t) == 2 * (t[1] + 2 * t[2] + 3 * t[3] + 4 * t[4])

\* LoadImageHandle, whose error is dropped: its address is then 0.  Nothing before has
\* looked at the text.
SetOptions ==
  /\ pc = "options"
  /\ \/ /\ options' = cmdline
        /\ \E t \in IF cmdline = "default" THEN {Ascii} ELSE Texts :
             buffer' = [text |-> t, size |-> LoadOptionsSize(t)]
        /\ UNCHANGED wild
     \/ wild' = TRUE /\ UNCHANGED <<options, buffer>>
  /\ Goto("start")
  /\ UNCHANGED <<inputs, call, loading, data, cmdline, image, started, handles>>

StartImage ==
  /\ pc = "start"
  /\ started' = TRUE
  /\ Goto("inKernel")
  /\ UNCHANGED <<inputs, call, loading, data, cmdline, image, options, buffer, wild, handles>>

\* The kernel keeps the machine, or StartImage returns, with or without an error.
InKernel ==
  /\ pc = "inKernel"
  /\ End("kernel") \/ \E err \in BOOLEAN : Return(err)
  /\ UNCHANGED <<inputs, call, loading, data, cmdline, kernel, handles>>

\* Boot.Exit does not return unless it fails; then the machine is shut down.
\* efiload tries both twice.
Exit ==
  /\ pc \in {"exit", "exit2"}
  /\ End("exited") \/ Goto(IF pc = "exit" THEN "reset" ELSE "reset2")
  /\ UNCHANGED <<inputs, call, loading, data, cmdline, kernel, handles>>

\* Mutant: efiload tries for ever.
ResetSystem_Loop ==
  /\ pc = "reset"
  /\ End("reset") \/ Goto("exit")
  /\ UNCHANGED <<inputs, call, loading, data, cmdline, kernel, handles>>

ResetSystem ==
  /\ pc \in {"reset", "reset2"}
  /\ \/ End("reset")
     \/ IF pc = "reset" /\ prog = "efiload" THEN Goto("exit2") ELSE End("returned")
  /\ UNCHANGED <<inputs, call, loading, data, cmdline, kernel, handles>>

Next ==
  \/ Vars \/ ReadConfig \/ Command \/ ShellExit
  \/ ExecuteRoot \/ LoadRoot \/ Open \/ Read
  \/ FilePath \/ LoadImageMem \/ SetOptions \/ StartImage \/ InKernel
  \/ Exit \/ ResetSystem

\* One goroutine; every firmware call returns.  Nobody has to leave the shell.
Spec == Init /\ [][Next]_vars
FairSpec == Spec /\ WF_vars(pc # "shell" /\ Next)
-----------------------------------------------------------------------------
Srcs == {"nil", "section", "file"}

\* Types of the loaders' state.
TypeOK ==
  /\ outcome \in {"running", "panicked", "exit1", "kernel", "exited", "reset", "returned"}
  /\ target \in {"kernel", "cmdline"} /\ got \in Nat
  /\ data.src \in Srcs /\ image.src \in Srcs /\ data.len \in Nat
  /\ cmdline \in {"none", "section", "arg", "file", "default"}
  /\ options \in {"unset", "section", "arg", "file", "default"}
  /\ handles \in [dirs : Nat, files : Nat] /\ cmds \in 0..MaxCmds

\* The signed loaders start their own section, all of it, with the command line of
\* their own section, and never a file of the partition; the command line is missing
\* only where LoadImageHandle failed.
SignedStartsOnlySection ==
  started /\ prog # "recovery" =>
    /\ image = [src |-> "section", len |-> cfg.kerLen, whole |-> TRUE]
    /\ options = "section" \/ (options = "unset" /\ wild)

\* The command line of a kernel that recovery starts: the argument if there was one,
\* else the content of the file, if there is one, or else the default; that of
\* an earlier command does not leak into a later one.  It is missing only where
\* LoadImageHandle failed.
RecoveryCmdline ==
  started /\ prog = "recovery" =>
    /\ options # "none" /\ (options = "unset" => wild)
    /\ options = "arg" => arg
    /\ options \in {"file", "default"} => ~arg
    /\ options = "file" => disk.cmdline # NoFile

\* LoadOptionsSize never cuts the command line, whatever its characters, and is exact for
\* one in ASCII.  (It may well go past the end of the buffer: OptionsInBuffer.)
CmdlineNotCut ==
  LET units == Utf16(buffer.text) IN
  started /\ options # "unset" =>
    /\ buffer.size >= 2 * units
    /\ buffer.text[1] = units => buffer.size = 2 * units

\* Handles are leaked, but boundedly: at most five for each command (three root
\* directories and two files), and the root directory in efi-verify and efiload.
HandlesBounded ==
  IF prog = "recovery"
  THEN handles.dirs <= 3 * cmds /\ handles.files <= 2 * cmds
  ELSE handles.dirs <= 1 /\ handles.files = 0

\* Every program but the shell comes to an end, and every command of the shell returns
\* to it or to an end: io.ReadAll terminates, whatever the reads return.
Decides == pc # "shell" ~> (pc = "shell" \/ outcome # "running")

-----------------------------------------------------------------------------
\* What the repository says and the code does not do: each statement is false in this
\* specification, as TLC shows when it stands in the configuration (see README).

\* "may be used if a kernel is not built in" (efi-verify/main.go:44): with no kernel in
\* the image, what goes to LoadImage is the file, and not the empty section (of which
\* LoadImageMem takes the first byte).
FallbackLoads ==
  prog = "efi-verify" /\ cfg.kerLen = 0 /\ pc = "loadImage" => data.src = "file"

\* "Use LoadedImage protocol to get set the command line" (efi-verify/main.go:134): a
\* kernel is not started without its command line.
StartedWithCmdline == started => options = cmdline

\* "null terminate" (efi-verify/main.go:78): the options end at the NUL, if not before.
OptionsInBuffer == buffer.size <= 2 * (Utf16(buffer.text) + 1)

\* "At end of file, Read returns 0, io.EOF" (file.go:242): when a read adds nothing and
\* io.ReadAll returns without an error, the file is read to its end.
EOFIsEnd ==
  [][pc = "read" /\ target = "kernel" /\ pc' # "read" /\ data'.len = got => data'.whole]_vars

\* "File.Close must be called to release any associated resources" (fs.go:84): the
\* kernel starts with no file left open.
FilesClosed == started => handles.files = 0
=============================================================================
