---------------------------- MODULE GoBootProofs ----------------------------
(***************************************************************************)
(* Proofs about GoBoot, for every config section, every file length and    *)
(* text, and any number of commands of the recovery shell.                 *)
(***************************************************************************)
EXTENDS GoBoot, TLAPS

Section == [src |-> "section", len |-> cfg.kerLen, whole |-> TRUE]

\* Places before StartImage, in the order in which a command comes by them.
Loading == {"loadRoot", "open", "read"}
Before == {"filePath", "loadImage", "options"}
AtStart == {"start", "inKernel"}
Leaving == {"exit", "exit2", "reset", "reset2", "end"}

Types ==
  /\ prog \in DOMAIN Entry
  /\ pc \in {"vars", "config", "shell", "root"} \cup Loading \cup Before \cup AtStart \cup Leaving
  /\ target \in {"kernel", "cmdline"}
  /\ handles \in [dirs : Nat, files : Nat] /\ cmds \in Nat
  /\ arg \in BOOLEAN /\ started \in BOOLEAN /\ wild \in BOOLEAN

\* efi-verify and efiload: from ReadConfig on, kernel and command line are the sections,
\* and what there is to load from the partition is never reached.
SignedInv ==
  prog # "recovery" =>
    /\ pc \notin Loading \cup {"shell"}
    /\ pc \in {"root"} \cup Before \cup AtStart => data = Section /\ cmdline = "section"
    /\ pc \in {"options"} \cup AtStart => image = Section
    /\ pc \in AtStart => options = "section" \/ (options = "unset" /\ wild)
    /\ pc \in {"vars", "config", "root"} \cup Before => ~started /\ options = "unset"
    /\ pc \in {"vars", "config", "root"} => handles.dirs = 0
    /\ handles.dirs <= 1 /\ handles.files = 0

\* The command line that recovery has found, c, is the one it is to use.
Chosen(c) ==
  /\ c \in {"arg", "file", "default"}
  /\ c = "arg" <=> arg
  /\ c = "file" => disk.cmdline # NoFile

\* recovery: a command begins with nothing, reads the kernel, then the command line if the
\* argument did not give one.
RecoveryInv ==
  prog = "recovery" =>
    /\ pc \notin {"vars", "config"}
    /\ pc = "root" => data = Nil
    /\ pc \in {"root"} \cup Loading => cmdline = IF arg THEN "arg" ELSE "none"
    /\ pc \in Loading /\ target = "cmdline" => ~arg
    /\ pc = "read" => disk[target] # NoFile
    /\ pc \in Before => Chosen(cmdline)
    /\ pc \in {"root"} \cup Loading \cup Before => ~started /\ options = "unset"
    /\ pc \in AtStart => Chosen(options) \/ (options = "unset" /\ wild)

\* recovery: what is open at each place of a command.
HandlesInv ==
  prog = "recovery" =>
    LET first == target = "kernel" IN
    /\ handles.dirs <= 3 * cmds /\ handles.files <= 2 * cmds
    /\ pc = "root" => handles.dirs + 3 <= 3 * cmds /\ handles.files + 2 <= 2 * cmds
    /\ pc = "loadRoot" =>
         /\ handles.dirs + (IF first THEN 2 ELSE 1) <= 3 * cmds
         /\ handles.files + (IF first THEN 2 ELSE 1) <= 2 * cmds
    /\ pc = "open" =>
         /\ handles.dirs + (IF first THEN 1 ELSE 0) <= 3 * cmds
         /\ handles.files + (IF first THEN 2 ELSE 1) <= 2 * cmds
    /\ pc = "read" =>
         /\ handles.dirs + (IF first THEN 1 ELSE 0) <= 3 * cmds
         /\ handles.files + (IF first THEN 1 ELSE 0) <= 2 * cmds

\* The load options: the size was computed from the text.
BufferInv ==
  options # "unset" => buffer.text \in [1..4 -> Nat] /\ buffer.size = LoadOptionsSize(buffer.text)

IInv ==
  /\ Types /\ SignedInv /\ RecoveryInv /\ HandlesInv /\ BufferInv
  /\ SignedStartsOnlySection /\ RecoveryCmdline

-----------------------------------------------------------------------------
\* executeKernel returns: to the shell in recovery, to an end in the others.
LEMMA Returns ==
  ASSUME NEW err \in BOOLEAN, Return(err)
  PROVE  \/ prog = "recovery" /\ pc' = "shell"
         \/ prog # "recovery" /\ pc' \in {"exit", "end"}
BY DEF Return, Goto, End

\* A root directory or a file more.
LEMMA OneMoreHandle ==
  ASSUME NEW h \in [dirs : Nat, files : Nat]
  PROVE  /\ [h EXCEPT !.dirs = @ + 1] \in [dirs : Nat, files : Nat]
         /\ [h EXCEPT !.dirs = @ + 1].dirs = h.dirs + 1 /\ [h EXCEPT !.dirs = @ + 1].files = h.files
         /\ [h EXCEPT !.files = @ + 1] \in [dirs : Nat, files : Nat]
         /\ [h EXCEPT !.files = @ + 1].files = h.files + 1 /\ [h EXCEPT !.files = @ + 1].dirs = h.dirs
OBVIOUS

\* The variables keep their types.
LEMMA TypesStep == Types /\ [Next]_vars => Types'
<1> SUFFICES ASSUME Types, [Next]_vars
             PROVE  Types'
  OBVIOUS
<1> USE DEF inputs, call, loading, kernel
<1>1. prog' = prog
  BY DEF Next, vars, Vars, ReadConfig, Command, ShellExit, ExecuteRoot, LoadRoot, Open, Read, FilePath,
         LoadImageMem, SetOptions, StartImage, InKernel, Exit, ResetSystem
<1>2. pc' \in {"vars", "config", "shell", "root"} \cup Loading \cup Before \cup AtStart \cup Leaving
  BY Returns
     DEF Types, Next, vars, Vars, ReadConfig, Command, ShellExit, ExecuteRoot, LoadRoot, Open, Read, FilePath,
         LoadImageMem, SetOptions, StartImage, InKernel, Exit, ResetSystem, Root, LoadFails, LoadDone,
         Goto, End, Loading, Before, AtStart, Leaving
<1>3. target' \in {"kernel", "cmdline"}
  BY DEF Types, Next, vars, Vars, ReadConfig, Command, ShellExit, ExecuteRoot, LoadRoot, Open, Read, FilePath,
         LoadImageMem, SetOptions, StartImage, InKernel, Exit, ResetSystem, LoadFails, LoadDone
<1>4. handles' \in [dirs : Nat, files : Nat]
  <2>1. handles \in [dirs : Nat, files : Nat] /\ RootOpened \in [dirs : Nat, files : Nat]
        /\ [handles EXCEPT !.files = @ + 1] \in [dirs : Nat, files : Nat]
    BY OneMoreHandle DEF Types, RootOpened
  <2>2. handles' \in {handles, RootOpened, [handles EXCEPT !.files = @ + 1]}
    BY DEF Next, vars, Vars, ReadConfig, Command, ShellExit, ExecuteRoot, LoadRoot, Open, Read, FilePath,
           LoadImageMem, SetOptions, StartImage, InKernel, Exit, ResetSystem, Root
  <2> QED
    BY <2>1, <2>2
<1>5. cmds' \in Nat
  <2>1. cmds' \in {cmds, cmds + 1}
    BY Zenon
       DEF Next, vars, Vars, ReadConfig, Command, ShellExit, ExecuteRoot, LoadRoot, Open, Read, FilePath,
           LoadImageMem, SetOptions, StartImage, InKernel, Exit, ResetSystem
  <2> QED
    BY <2>1 DEF Types
<1>6. arg' \in BOOLEAN /\ started' \in BOOLEAN /\ wild' \in BOOLEAN
  BY Zenon
     DEF Types, Next, vars, Vars, ReadConfig, Command, ShellExit, ExecuteRoot, LoadRoot, Open, Read, FilePath,
         LoadImageMem, SetOptions, StartImage, InKernel, Exit, ResetSystem
<1> QED
  BY <1>1, <1>2, <1>3, <1>4, <1>5, <1>6 DEF Types

\* The signed loaders never come to a file of the partition.
LEMMA SignedStep == Types /\ SignedInv /\ SignedStartsOnlySection /\ [Next]_vars => SignedInv' /\ SignedStartsOnlySection'
<1> SUFFICES ASSUME Types, SignedInv, SignedStartsOnlySection, [Next]_vars
             PROVE  SignedInv' /\ SignedStartsOnlySection'
  OBVIOUS
<1> USE DEF SignedInv, SignedStartsOnlySection, Section, Loading, Before, AtStart, Leaving, Goto, End, inputs, call, loading, kernel
<1>1. CASE Vars
  BY <1>1 DEF Vars
<1>2. CASE ReadConfig
  BY <1>2 DEF ReadConfig
<1>3. CASE Command
  BY <1>3 DEF Command, Types
<1>4. CASE ShellExit
  BY <1>4 DEF ShellExit
<1>5. CASE ExecuteRoot
  <2>1. /\ pc = "root" /\ UNCHANGED <<prog, cfg, data, cmdline, image, options, started, wild>>
        /\ handles'.files = handles.files /\ handles'.dirs \in {handles.dirs, handles.dirs + 1}
    BY <1>5, OneMoreHandle DEF ExecuteRoot, Root, RootOpened, Types
  <2>2. prog # "recovery" => ~NilData(data)
    BY <2>1 DEF NilData
  <2>3. prog # "recovery" => pc' \in {"filePath", "exit", "end"}
    BY <1>5, <2>2, Returns DEF ExecuteRoot, Root
  <2> QED
    BY <2>1, <2>3
<1>6. CASE LoadRoot
  BY <1>6 DEF LoadRoot
<1>7. CASE Open
  BY <1>7 DEF Open
<1>8. CASE Read
  BY <1>8 DEF Read
<1>9. CASE FilePath
  BY <1>9, Returns DEF FilePath
<1>10. CASE LoadImageMem
  BY <1>10, Returns DEF LoadImageMem
<1>11. CASE SetOptions
  BY <1>11 DEF SetOptions
<1>12. CASE StartImage
  BY <1>12 DEF StartImage
<1>13. CASE InKernel
  BY <1>13, Returns DEF InKernel
<1>14. CASE Exit
  BY <1>14 DEF Exit
<1>15. CASE ResetSystem
  BY <1>15 DEF ResetSystem
<1>16. CASE UNCHANGED vars
  BY <1>16 DEF vars
<1> QED
  BY <1>1, <1>2, <1>3, <1>4, <1>5, <1>6, <1>7, <1>8, <1>9, <1>10, <1>11, <1>12, <1>13, <1>14, <1>15, <1>16 DEF Next

\* recovery looks for the command line in the order it promises, and starts over with each command.
LEMMA RecoveryStep == Types /\ RecoveryInv /\ RecoveryCmdline /\ [Next]_vars => RecoveryInv' /\ RecoveryCmdline'
<1> SUFFICES ASSUME Types, RecoveryInv, RecoveryCmdline, [Next]_vars
             PROVE  RecoveryInv' /\ RecoveryCmdline'
  OBVIOUS
<1> USE DEF RecoveryInv, RecoveryCmdline, Loading, Before, AtStart, Leaving, Chosen, Goto, End, inputs, call, loading, kernel
<1>1. CASE Vars
  BY <1>1 DEF Vars
<1>2. CASE ReadConfig
  BY <1>2 DEF ReadConfig
<1>3. CASE Command
  BY <1>3 DEF Command, Types
<1>4. CASE ShellExit
  BY <1>4 DEF ShellExit
<1>5. CASE ExecuteRoot
  <2>1. /\ pc = "root" /\ UNCHANGED <<prog, disk, arg, cmdline, options, started, wild>>
        /\ target' = "kernel"
    BY <1>5 DEF ExecuteRoot, Root
  <2>2. prog = "recovery" => NilData(data)
    BY <2>1 DEF NilData, Nil
  <2>3. prog = "recovery" => pc' \in {"loadRoot", "shell"}
    BY <1>5, <2>2, Returns DEF ExecuteRoot, Root
  <2> QED
    BY <2>1, <2>3
<1>6. CASE LoadRoot
  BY <1>6, Returns DEF LoadRoot, LoadFails, Types
<1>7. CASE Open
  BY <1>7, Returns DEF Open, LoadFails, Types
<1>8. CASE Read
  <2>1. /\ pc = "read" /\ UNCHANGED <<prog, disk, arg, options, started, wild>>
        /\ \/ pc' = "read" /\ UNCHANGED <<cmdline, target>>
           \/ /\ target = "kernel" /\ target' = "cmdline" /\ cmdline' = cmdline
              /\ pc' = IF cmdline = "none" THEN "loadRoot" ELSE "filePath"
           \/ target = "cmdline" /\ cmdline' = "file" /\ pc' = "filePath"
    BY <1>8 DEF Read, LoadDone
  <2>2. target = "cmdline" /\ disk[target] # NoFile => disk.cmdline # NoFile
    OBVIOUS
  <2> QED
    BY <2>1, <2>2 DEF Types
<1>9. CASE FilePath
  BY <1>9, Returns DEF FilePath
<1>10. CASE LoadImageMem
  BY <1>10, Returns DEF LoadImageMem
<1>11. CASE SetOptions
  BY <1>11 DEF SetOptions
<1>12. CASE StartImage
  BY <1>12 DEF StartImage
<1>13. CASE InKernel
  BY <1>13, Returns DEF InKernel
<1>14. CASE Exit
  BY <1>14 DEF Exit
<1>15. CASE ResetSystem
  BY <1>15 DEF ResetSystem
<1>16. CASE UNCHANGED vars
  BY <1>16 DEF vars
<1> QED
  BY <1>1, <1>2, <1>3, <1>4, <1>5, <1>6, <1>7, <1>8, <1>9, <1>10, <1>11, <1>12, <1>13, <1>14, <1>15, <1>16 DEF Next

\* Each command of recovery opens at most three root directories and two files.
LEMMA HandlesStep == Types /\ RecoveryInv /\ HandlesInv /\ [Next]_vars => HandlesInv'
<1> SUFFICES ASSUME Types, RecoveryInv, HandlesInv, [Next]_vars
             PROVE  HandlesInv'
  OBVIOUS
<1> USE DEF HandlesInv, Loading, Before, AtStart, Leaving, Goto, End, inputs, call, loading, kernel
<1>1. CASE Vars
  BY <1>1 DEF Vars
<1>2. CASE ReadConfig
  <2>1. prog # "recovery" /\ prog' = prog
    BY <1>2 DEF ReadConfig, RecoveryInv
  <2> QED
    BY <2>1
<1>3. CASE Command
  <2>1. /\ handles' = handles /\ cmds' = cmds + 1 /\ pc' = "root" /\ prog' = prog
    BY <1>3 DEF Command
  <2>2. handles.dirs \in Nat /\ handles.files \in Nat /\ cmds \in Nat
    BY DEF Types
  <2> QED
    BY <2>1, <2>2
<1>4. CASE ShellExit
  BY <1>4 DEF ShellExit
<1>5. CASE ExecuteRoot
  <2>1. /\ pc = "root" /\ UNCHANGED <<prog, cmds>> /\ target' = "kernel"
        /\ pc' \in {"loadRoot", "filePath", "shell", "exit", "end"}
    BY <1>5, Returns DEF ExecuteRoot, Root
  <2>2. /\ handles'.dirs \in {handles.dirs, handles.dirs + 1} /\ handles'.files = handles.files
        /\ handles.dirs \in Nat /\ handles.files \in Nat /\ cmds \in Nat
    BY <1>5, OneMoreHandle DEF ExecuteRoot, Root, RootOpened, Types
  <2> QED
    BY <2>1, <2>2
<1>6. CASE LoadRoot
  <2>1. /\ pc = "loadRoot" /\ UNCHANGED <<prog, cmds, target>>
        /\ pc' \in {"open", "filePath", "shell", "exit", "end"}
    BY <1>6, Returns DEF LoadRoot, LoadFails
  <2>2. /\ handles'.dirs \in {handles.dirs, handles.dirs + 1} /\ handles'.files = handles.files
        /\ handles.dirs \in Nat /\ handles.files \in Nat /\ cmds \in Nat
    BY <1>6, OneMoreHandle DEF LoadRoot, RootOpened, Types
  <2> QED
    BY <2>1, <2>2
<1>7. CASE Open
  <2>1. /\ pc = "open" /\ UNCHANGED <<prog, cmds, target>>
        /\ pc' \in {"read", "filePath", "shell", "exit", "end"}
    BY <1>7, Returns DEF Open, LoadFails
  <2>2. /\ handles'.files \in {handles.files, handles.files + 1} /\ handles'.dirs = handles.dirs
        /\ handles.dirs \in Nat /\ handles.files \in Nat /\ cmds \in Nat
    BY <1>7, OneMoreHandle DEF Open, Types
  <2> QED
    BY <2>1, <2>2
<1>8. CASE Read
  <2>1. /\ pc = "read" /\ UNCHANGED <<prog, cmds, handles>>
        /\ \/ pc' = "read" /\ UNCHANGED target
           \/ target = "kernel" /\ target' = "cmdline" /\ pc' \in {"loadRoot", "filePath"}
           \/ pc' = "filePath"
    BY <1>8 DEF Read, LoadDone
  <2>2. handles.dirs \in Nat /\ handles.files \in Nat /\ cmds \in Nat
    BY DEF Types
  <2> QED
    BY <2>1, <2>2
<1>9. CASE FilePath
  BY <1>9, Returns DEF FilePath
<1>10. CASE LoadImageMem
  BY <1>10, Returns DEF LoadImageMem
<1>11. CASE SetOptions
  BY <1>11 DEF SetOptions
<1>12. CASE StartImage
  BY <1>12 DEF StartImage
<1>13. CASE InKernel
  BY <1>13, Returns DEF InKernel
<1>14. CASE Exit
  BY <1>14 DEF Exit
<1>15. CASE ResetSystem
  BY <1>15 DEF ResetSystem
<1>16. CASE UNCHANGED vars
  BY <1>16 DEF vars
<1> QED
  BY <1>1, <1>2, <1>3, <1>4, <1>5, <1>6, <1>7, <1>8, <1>9, <1>10, <1>11, <1>12, <1>13, <1>14, <1>15, <1>16 DEF Next

\* LoadOptionsSize is that of the text it stands beside.
LEMMA BufferStep == BufferInv /\ [Next]_vars => BufferInv'
<1> SUFFICES ASSUME BufferInv, [Next]_vars
             PROVE  BufferInv'
  OBVIOUS
<1>1. CASE SetOptions
  <2>1. Texts \subseteq [1..4 -> Nat] /\ Ascii \in Texts
    BY GoBootAssumptions
  <2> QED
    BY <1>1, <2>1 DEF SetOptions, BufferInv
<1>2. CASE ~SetOptions
  <2>1. options' = "unset" \/ UNCHANGED <<options, buffer>>
    BY <1>2 DEF Next, vars, Vars, ReadConfig, Command, ShellExit, ExecuteRoot, LoadRoot, Open, Read, FilePath,
                LoadImageMem, StartImage, InKernel, Exit, ResetSystem, inputs, call, loading, kernel
  <2> QED
    BY <2>1 DEF BufferInv
<1> QED
  BY <1>1, <1>2

\* A loader at its entry has nothing open and nothing started.
LEMMA InitIInv == Init => IInv
<1> SUFFICES ASSUME Init
             PROVE  IInv
  OBVIOUS
<1>1. /\ prog \in {"efi-verify", "efiload", "recovery"} /\ DOMAIN Entry = {"efi-verify", "efiload", "recovery"}
      /\ pc = Entry[prog]
  BY Zenon DEF Init, Entry
<1>2. /\ pc \in {"config", "vars", "shell"}
      /\ prog = "recovery" <=> pc = "shell"
  BY <1>1, Zenon DEF Entry
<1>3. handles = [dirs |-> 0, files |-> 0] /\ cmds = 0 /\ target = "kernel" /\ options = "unset"
  BY DEF Init
<1>4. arg = FALSE /\ started = FALSE /\ wild = FALSE
  BY DEF Init
<1>5. Types
  BY <1>1, <1>2, <1>3, <1>4 DEF Types
<1>6. SignedInv /\ RecoveryInv
  BY <1>2, <1>3, <1>4 DEF SignedInv, RecoveryInv, Loading, Before, AtStart, Leaving
<1>7. HandlesInv /\ BufferInv
  BY <1>2, <1>3 DEF HandlesInv, BufferInv
<1> QED
  BY <1>4, <1>5, <1>6, <1>7 DEF IInv, SignedStartsOnlySection, RecoveryCmdline

-----------------------------------------------------------------------------
\* The inductive invariant of the loaders.
THEOREM Invariance == Spec => []IInv
<1>1. IInv /\ [Next]_vars => IInv'
  BY TypesStep, SignedStep, RecoveryStep, HandlesStep, BufferStep DEF IInv
<1> QED
  BY <1>1, InitIInv, PTL DEF Spec

\* For every config section and every partition: efi-verify and efiload start their own
\* kernel section with their own command line and nothing else (main.go of both).
THEOREM SignedStartOnlySection == Spec => []SignedStartsOnlySection
BY Invariance, PTL DEF IInv

\* For any number of commands: the kernel that recovery starts has the argument, the content
\* of the file or the default for a command line, in that order of preference (recovery, main.go).
THEOREM RecoveryCmdlineIsRight == Spec => []RecoveryCmdline
BY Invariance, PTL DEF IInv

\* For every text: LoadOptionsSize, which counts bytes of UTF-8, is never less than what
\* UTF-16 takes (executeKernel).
THEOREM CmdlineIsNotCut == Spec => []CmdlineNotCut
<1>1. ASSUME NEW t \in [1..4 -> Nat]
      PROVE  /\ LoadOptionsSize(t) >= 2 * Utf16(t)
             /\ t[1] = Utf16(t) => LoadOptionsSize(t) = 2 * Utf16(t)
  <2>1. PICK a \in Nat, b \in Nat, c \in Nat, d \in Nat : a = t[1] /\ b = t[2] /\ c = t[3] /\ d = t[4]
    OBVIOUS
  <2>2. LoadOptionsSize(t) = 2 * (a + 2 * b + 3 * c + 4 * d) /\ Utf16(t) = a + b + c + 2 * d
    BY <2>1, Zenon DEF LoadOptionsSize, Utf16
  <2>3. /\ 2 * (a + 2 * b + 3 * c + 4 * d) >= 2 * (a + b + c + 2 * d)
        /\ a = a + b + c + 2 * d => 2 * (a + 2 * b + 3 * c + 4 * d) = 2 * (a + b + c + 2 * d)
    OBVIOUS
  <2> QED
    BY <2>1, <2>2, <2>3, Zenon
<1>2. IInv => CmdlineNotCut
  BY <1>1 DEF IInv, BufferInv, CmdlineNotCut
<1> QED
  BY <1>2, Invariance, PTL

\* For any number of commands: recovery leaks at most three root directories and two files
\* each time, the signed loaders one root directory (fs.go, file.go).
THEOREM HandlesAreBounded == Spec => []HandlesBounded
<1>1. IInv => HandlesBounded
  BY DEF IInv, SignedInv, HandlesInv, HandlesBounded
<1> QED
  BY <1>1, Invariance, PTL
=============================================================================
