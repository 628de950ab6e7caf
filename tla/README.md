# uki-stub in TLA+

Specifications of the boot chain in this repository: the two zig stubs, the script
that signs what they boot, the Go loaders, and the parts of the Go UEFI libraries
those loaders stand on. TLC checks every module on a small instance; TLAPS proves the
safety properties of all components for all files, texts, configurations, memory layouts,
stacks, devices and numbers of goroutines, commands or changes.

Run from this directory: `tlc -config X.cfg M` for a run, `tlapm XProofs.tla` for the
proofs of a module or of a package. `PROJECT.json` maps each definition to the lines it models.

## 1. The system

| part | state | operations | works with | what makes it correct |
|---|---|---|---|---|
| **stub2** (`src/stub2/main.zig`), verified boot | status, two page buffers with their lengths, the setup block | find its volume, parse the `.cfg` section, load and hash initrd and kernel, fill the setup block, jump | files and configuration that setup-efi wrote; the firmware | only what the configuration names is started, all of it, with exact pointers; failure is reported |
| **stub0** (`src/stub0/main.zig`), unverified boot | pool buffer, 256-unit buffer, load options | read CMDLINE, LoadImage, StartImage | CMDLINE and KERNEL.EFI that `setup-efi unsigned` wrote | load options are whole and terminated, nothing overflows, the pool goes back |
| **setup-efi** (`signer/sbin/setup-efi`) | `/tmp/ukicfg`, `/tmp/InitOS-unsigned.EFI`, the EFI partition, the key files | `efi`, `unsigned`, `base_initrd`, `sign_init` | build.sh runs it; the stubs boot its output | a boot never mixes two runs; a completed run boots, if its pipelines worked and the stub takes its command line; keys exist after sign_init |
| **Go loaders** (`goefi/cmd/*`) | kernel bytes, command line, image handle, open handles | read the section or the files, LoadImageMem, set options, StartImage, Exit, ResetSystem | ueficore; the shell | signed loaders start their own section; the right command line; bounded leaks; an end |
| **efiload's variable listing** | name buffer, its size, data buffer | GetNextVariableName, GetVariable | drivers that change variables | buffer sizes hold, each variable once, an end |
| **ueficore memory** (`mem.go`, `x64/mem.go`, `exit.go`) | memory map, heap bounds, E820 table | allocateHeap, GetMemoryMap, ExitBootServices, E820 | the Go runtime, the kernel that gets the table | the heap is owned, the map is current at exit, the table is exact |
| **firmware calls** (`uefi.s`, `asm_amd64.S`, `call.go`) and the two descriptions of the firmware (`ueficore/*.go`, `uefi/uefi_spec.go` and the protocols) | stack, argument registers, frame pointer; offsets, slots and structures | callFn, uefiCall0..10, CallService, 112 methods | every call of the libraries | arguments arrive, the caller's frame survives, the stack is aligned, the service is the one that was meant, structures are read where they lie |
| **files and images** (`ueficore/fs.go`, `file.go`, `path.go`, `image.go`) | open directories and files, the slice being filled, the device path | Root, Open, Stat, Read, Close, FilePath, LoadImage | the firmware's file system and device paths | the image is the whole file, nothing stays open, the path is a chain of nodes |
| **devices** (`uefi/media_io_protocol.go`, `simple_file_system_protocol.go`, `serial_io_protocol.go`, `dhcpv4.go`, `simple_network_protocol.go`) | handles still to be asked, what was found, DHCP children | EnumerateDisks, EnumerateFileSystems, EnumerateSerialPorts, EnumerateDHCPv4, EnumerateSNP | drivers that install and remove protocols | each device once, with interfaces that belong together |
| **console** (`ueficore/console.go`, `x64/console.go`) | the keyboard's queue, the shell's buffer, the slice put out | Read, Write, Output, printk | the recovery shell | no key lost or out of order, each reaches the shell, texts are shown exactly |
| **clock** (`uefi/clock.go`, `uefi/device/x86/cpu.go`) | mutex, cached frequency, timer event; what CPUID tells | TicksFrequency, GetEpoch | goroutines | one frequency, no event left open, every call returns; dates |
| **serial ports** (`uefi/serial_io_protocol.go`) | control bits, FIFO, flow-control flag | Init, Read, Write, UseFlowControl | goroutines without preemption | no byte lost, none left waiting, flow control respected |

Hard behaviours: firmware calls that fail at any point with partial results; state
that changes between two calls (memory map, variables, protocols of a handle, files,
`${KERNEL}`); a script stopped after any line, with files in `/tmp` and on the partition
that outlive it, and not stopped by a pipeline whose first command fails; goroutines around
a mutex and around a port; hand-written stack frames; buffer sizes that travel in and out of one variable. `PROJECT.json` lists them as hazards, each at
its line, with the properties that watch it.

## 2. Modules

`Files` (contents of files, reading a prefix) is shared by `Stub2` and `Signer`.
`VerifiedBoot` is the abstract specification that `Stub2` implements. `Signer`
composes setup-efi with the boots of the partition it leaves, a boot being one step
there, with the panics of the stubs but no failing firmware calls; that such a step starts
nothing but what the configuration names is what `Stub2` shows step by step and
`Stub2Proofs` proves. `CallConv` extends `Abi`: the calls
that the packages make are the ones it carries out. `MC_Clock` takes `Clock` and `Epoch`
together, `MC_Signer` `Signer` and `Stub0`, and `MC_Uefi` `Devices` and `SerialPort`, the last
two side by side (section 3). MC modules hold the values of constants. `Stub2Proofs`, `GoBootProofs`,
`EfiVarsProofs`, `MemMapProofs` and `CallConvProofs` each extend the module they are named
for (section 4). `SignerProofs` extends `Signer` and `Stub0`, `UeficoreProofs` extends
`Volume` and `Console`, and `UefiProofs` extends `Clock`, `Epoch`, `SerialPort` and
`Devices`. Modules that share a proof module share its names, so the specifications of
`Stub0`, `Console`, `SerialPort` and `Devices` carry a prefix (`Stub0Spec`, `ConsoleInit`,
`PortNext`, `devicesVars`), and `Console` and `Devices` call their `pc` `stage`.

- **Stub2.** `pc` names the next firmware call or straight-line block of `main` and
  `linuxExec`; each action is one call, with success and failure. `status` is the
  variable of that name: `fatal(status)` returns whatever it holds. A buffer is an
  address and a size, its content a prefix of a blob, or stale memory where `loadFile`
  failed and its status is overwritten (line 107). Debug builds turn a failed
  `@intCast`, `.?` or overflow into a panic, and so does the model. The limit that is
  passed when the initrd's pages are allocated is an undefined pointer: any address
  may come back. A command line may be empty.
- **VerifiedBoot.** `deciding`, then once `started` (with a kernel and an initrd the
  binding names) or `refused`; a started kernel is never taken back.
- **Stub0.** The same style; `cmdx` and `options` keep where the text is from, how
  many units it has, and the size passed on.
- **Signer.** `run` is the running command and its line. Every write of a file that
  the partition keeps is two steps, an interrupted content and the complete one;
  `Stop` may come after each, `NewKernel` replaces `${KERNEL}` at any moment. The shell
  is `sh` with `set -e` and without pipefail, so `cat | wc -c` and `sha256sum | cut` do not
  stop a run when their first command fails: `CatWc` then appends the length that was read, from
  0 on, and `Sha256sum` no line, so that the lines behind it move up (`lost`). `Stub2Boot`
  reads whatever six lines are there, a blank one included. It refuses or panics where
  stub2 does: a missing line, a length that is no number, a command line longer than
  `cmdx_buffer` (not in `Cmds2`), a digest that does not match, an address above 4G (`low`
  of `Machines`). `Stub0Boot` panics on a CMDLINE of 255 bytes or more (not in `Cmds0`, which
  depends on whether `initrd=` is put in front). `names`, `hashed`, `raced`, `lost` and
  `fresh` are history: which contents a run was to bind, and what came in between.
- **GoBoot.** The three programs share `executeKernel` and its calls; `prog` picks the
  entry. `handles` counts what is open at the firmware. The digest that recovery
  prints is not compared with anything and is not in the model. efiload and recovery also link
  the external module github.com/usbarmory/go-boot (`go.mod:6`): both its `uefi/x64`, which
  starts the runtime, and recovery its `cmd`, `shell` and `uefi` too, so that recovery's Root,
  Open, LoadImageMem and the others are those of that module. They are taken to do what the
  functions of the same names in ueficore do. A command line is the
  number of its characters of one, two, three and four bytes in UTF-8, which is what its
  length in bytes and in UTF-16 units depends on.
- **EfiVars.** `Change` is a driver that creates, deletes or resizes a variable
  between two calls. A value is its length.
- **MemMap.** Pages with a type, a map key that each change of the firmware's raises.
  `Descriptors` merges neighbours of one type, as firmware does; `Word` is the buffer it
  fills, in words, with descriptors `DescriptorSize` apart, and `Decoded` reads it six
  words at a time, as `mem.go` does.
- **Abi.** Two descriptions of one firmware. Package uefi: the slots of its tables, and for
  each method the number of words it passes, the function it goes through, and whether
  it passes the word in the slot or the slot's address. Package ueficore: an offset and a
  number of words for each call; the slot is computed from the offset. Structures are
  sequences of fields with their widths, laid out without padding (`encoding/binary`) and
  as the Go compiler does.
- **CallConv.** The stack as a function from word addresses to words; one action per
  block of `callFn`, one for the frame of an `uefiCall`. `Firmware` may overwrite all
  words that belong to the callee. `call` is one of the calls of `Abi`, or one with any
  number of words.
- **Volume.** Root, `fs.ReadFile` and `FilePath` under `LoadImage`. The nodes of the device
  path are chosen as they are read, so that a path is any path; lengths have 16 bits.
- **Devices.** One enumeration after the other, of one of five kinds; `DriverChange` may
  come between any two firmware calls. `always` and `ever` are history: what a handle had
  all through a call, and what it had at some time of it.
- **Console.** One key per turn of Read's loop; `Write` is one step, from the text over
  the slice of bytes and the memory behind it to the units that the firmware shows. The
  runtime zeroes what append leaves free behind a slice (8, 16, 32, ... bytes); behind
  that the memory is unknown.
- **Clock.** Goroutines in `TicksFrequency`, deferred calls in their order. The processor
  is what CPUID returns on it; `tsc` is the frequency computed from that, or 0.
- **Epoch.** `GetEpoch` and its tables as functions of a date, against a calendar that
  counts leap years and months; `year` is the year of the date, and does not change. `daysTo`
  is the sum of `GetEpoch` as a function of its variable `month`, and `GetEpoch` gives it the
  month of the date less one.
- **SerialPort.** One port, a reading and a writing goroutine, which also resets the port
  and sets its attributes (Init); `Switch` is possible only between calls.

Unusual choices: a mutant `X_Name` stands before the definition `X` it changes, the way
a plausible bug would; no `Next` uses one. `TypeOK` of `Stub2`, `Clock`, `CallConv`, `Volume`
and `SerialPort` (there `PortTypeOK`) is proved; where a proof needs more, its module has a `Types` of its own.

`Clock`, `SerialPort` and `Devices` describe Go code above the methods of package uefi, as if
each method reached the service it is named for. `CallConv` shows which do
(`MethodsReach` below): those that pass three or five words do not, but for
GetVariable and GetNextVariableName. `clock.go` is built
with the tag `uefi` only, and `getTscFrequency` and `Ticks` are comments in
`arch_x86.go`; they are modelled as those comments have them.

## 3. Runs

| run | checks | shows |
|---|---|---|
| `stub2` | `HandoverVerified`, `HandoverComplete`, `AccessesInBounds`, `HandoverPointers`, `BoundFailureReported`, `ImplementsVerifiedBoot` | Over every failure of the firmware, missing, short and long files, stale memory, and configurations written by hand: what starts is what was configured, complete, in bounds, with exact pointers. The refinement includes that the stub decides in the end. |
| `signer` | `RunsOnlyBound`, `MatchingSetBoots`, `FreshBoots`; `OptionsWellFormed`, `PoolReleased` | Two commands, each stopped anywhere, raced or with failed pipelines: no mixture of two runs boots as verified, a partition whose files match its image boots, a completed run boots. The last two for command lines that fit the stub, on machines with memory below 4G, and if no pipeline failed; a failed one can only take the initrd, and with it the command line, away. Beside them stub0: its load options for every length of CMDLINE around both limits. |
| `signer_config` | `ConfigHasInitrd`, violated | A completed run may sign a configuration without the digest of the initrd. |
| `goboot` | `SignedStartsOnlySection`, `RecoveryCmdline`, `CmdlineNotCut`, `HandlesBounded`, `Decides` | The loaders over all failures, two shell commands, command lines of any characters. |
| `memmap` | `HeapOwned`, `MapCurrent`, `E820Exact` | Layouts of seven pages, descriptors of three sizes, changes between all calls. |
| `callconv` | `ArgsDelivered`, `CallerIntact`, `ServiceReached`, `DescriptionsAgree` | All calls of both packages, zero to ten arguments, both alignments; where the two descriptions of the firmware differ. |
| `efivars` | `NameInBuffer`, `EachListedOnce`, `Ends` | Listing with variables that change under it: sizes stay in the buffer, each variable once with a length it had, an end. |
| `clock` | `FrequenciesAgree`, `EventsClosed`, `DaysExact`, `CallsReturn` | Three goroutines calibrate at once, on five processors; and the sum of `GetEpoch` for all dates of a leap cycle. |
| `epoch` | `EpochExact`, violated | `GetEpoch` gives its sum the wrong month. |
| `uefi` | `FoundIsComplete`; `NoByteLostButPartial`, `StarvesOnlyOnSilence`, `CTSRespected` | Five enumerations while drivers come and go; a reader and a writer on one port. |
| `console` | `KeysInOrder`, `KeysRead`, `ShownExactly` | Keys at any moment of a read, keyboard errors, texts that fill their memory and that do not. |
| `volume` | `ImageWholeUnlessCut`, `FilesClosed`, `PathIsChain` | Loading an image by its path over all failures, capacities and device paths. |

`signer_config` and `epoch` state what comments of the repository say, and TLC refutes them;
the other runs pass. What else the code does not do is in section 5. `signer` and `uefi` check
two modules each: a behaviour is one of the first or one of the second, chosen in the initial
state (`part` in `MC_Signer` and `MC_Uefi`), and the other module's variables stay as they are.

### Bounds, and why they are enough

- `stub2`: pages of four bytes, ten of them, six below "4G": room for three buffers in
  several orders, and addresses on both sides of the limit. Contents of 5 bytes (more
  than a page), 4 (exactly one) and 1 (less than the boot header); configured lengths
  that are right, longer than the file, shorter than it, zero, not a number, too large.
  Command lines of 0 units, of 2, and of one more than fit.
- `signer`: `MaxRuns` 2: one run to leave something and one to be stopped on top of it, or the
  other way round; on an initial partition with an initrd or without. `MaxFaults` 2: a
  length and a digest that are both lost, or one of them and an upgrade. Two kernels of
  different lengths, two initrds, and the empty file that an interruption leaves; a command
  line that fits everywhere, and one that fits stub0 only without `initrd=`.
- `signer`, the part of `Stub0`: 8 units instead of 256 and a pool of 12 bytes instead of 64 kB, with files up
  to 13: below, at and above both limits.
- `goboot`: reads of 2 bytes, files of 0, 2 and 3: zero, one and two reads before the
  end; two commands, enough for one to leave something to the other. Command lines in
  ASCII, and with one character of two, three and four bytes.
- `memmap`: seven pages, one change by an event handler, two attempts to exit; descriptors
  of five, six and seven words, below, at and above the stride.
- `callconv`: all numbers of arguments the code has (0..10), both alignments at entry; all
  tables and structures as they are.
- `efivars`: three names of different sizes, two changes: one before and one after any
  call.
- `clock`: three goroutines (one calibrating, one waiting, one arriving late), two calls
  each, measurements 0 included.
- `clock`, the dates: 1970 to 2400, more than the 400 years after which the rule repeats.
  The zero year is 401 and not -292277022399; both are 1 modulo 400, and the difference
  leaves by `absoluteToInternal`. Dates and calibration do not meet; years after 1970 go
  with the processors where nothing is measured.
- `uefi`, the part of `SerialPort`: a buffer of 2 and 3 bytes on the line: a full, a partial and an empty read.
- `console`: buffers of one, two and four bytes (half a unit, one, two), two keys, one
  error of the keyboard; texts of one, three and four runes and a tab (eight spaces), so
  that slices of 8 and 16 bytes, fuller and emptier ones, and each kind of last unit
  occur.
- `uefi`, the part of `Devices`: three handles and two changes: one handle that changes while
  another is asked, and one that does not; two calls.
- `volume`: files of 0, 1 and 3 bytes against capacities that are short of them, equal
  and larger; node lengths 0, below, at and above the header, 255 and 256; a depth of 5
  instead of 16; two calls.

### Fairness

- `Stub2`, `GoBoot`, `EfiVars`: weak fairness of the program's steps. One thread runs
  and every firmware call returns. Nobody has to leave the recovery shell: its command
  prompt is excluded. A kernel that has control need not return, but it may.
- `Clock`: weak fairness of each goroutine's steps and strong fairness of `Lock`.
  `sync.Mutex` has a starvation mode that hands the mutex to a waiter after 1 ms. A
  goroutine need not call at all.
- `SerialPort`: a goroutine in a call goes on, one between calls blocks in the end (tamago
  does not preempt), and the firmware's reads do not all fail while bytes are waiting,
  which is strong fairness of a read that succeeds. `StarvesOnlyOnSilence` uses it; the
  other properties are safety.
- `Console`: weak fairness of Read. The shell reads again after each Read, whatever it
  returned, and nothing but a panic ends its loop.
- `Signer`, `Stub0`, `MemMap`, `CallConv`, `Epoch`, `Devices`, `Volume`: safety only.

Deadlock is switched off: programs end, or a bound on calls does. In `Signer` and `SerialPort` a
boot and the line can always move.

## 4. Proofs

Hardly any of the properties is inductive: each speaks of a moment (the hand-over, a return, the
end of a listing) at which it holds because of what was done many steps before. Each
component has an inductive invariant (`IInv`, and `Stub0Inv`, `ReadKeysInv`, `PortInv`,
`BusInv` where a proof module has a second component) that says what is true on the way,
place by place. TLC checked every `IInv` on the instance of the module's run before it was
proved. There is a lemma for each conjunct, or for each action, with one case per action
that can disturb it, and `Invariance` is `Spec => []IInv`. The bounds of the runs
(`MaxRuns`, `MaxCmds`, `MaxCalls`, `MaxChanges`, `MaxEvents`, ...) are arbitrary natural
numbers in the theorems.

| property | theorem | in |
|---|---|---|
| `HandoverVerified`, `HandoverComplete` | `HandoverIsVerified`, `HandoverIsComplete` | `Stub2Proofs` |
| `AccessesInBounds`, `HandoverPointers` | `AccessesAreInBounds`, `HandoverPointersExact` | |
| `BoundFailureReported`, `TypeOK` | `BoundFailureIsReported`, `TypeCorrect` | |
| steps of `VerifiedBoot` | `StubImplementsVerifiedBoot` | |
| `RunsOnlyBound` | `OnlyBoundRuns` | `SignerProofs` |
| `MatchingSetBoots`, `FreshBoots` | `MatchingBoots`, `FreshRunsBoot` | |
| `OptionsWellFormed`, `PoolReleased` | `Stub0Options`, `Stub0PoolReleased` | |
| `SignedStartsOnlySection`, `RecoveryCmdline` | `SignedStartOnlySection`, `RecoveryCmdlineIsRight` | `GoBootProofs` |
| `CmdlineNotCut`, `HandlesBounded` | `CmdlineIsNotCut`, `HandlesAreBounded` | |
| `NameInBuffer`, `EachListedOnce` | `NameIsInBuffer`, `EachIsListedOnce` | `EfiVarsProofs` |
| `ImageWholeUnlessCut`, `FilesClosed`, `PathIsChain` | `ImageIsWholeUnlessCut`, `FilesAreClosed`, `PathIsAChain` | `UeficoreProofs` |
| `KeysInOrder`, `ShownExactly` | `ShellKeysInOrder`, `ShellShownExactly` | |
| `NoPanic`, for buffers of whole units | `ShellNoPanic` | |
| `HeapOwned`, `MapCurrent`, `E820Exact` | `HeapIsOwned`, `MapIsCurrent`, `E820IsExact` | `MemMapProofs` |
| `ArgsDelivered`, `CallerIntact`, `ServiceReached`, `TypeOK` | `ArgsAreDelivered`, `CallerIsIntact`, `ServiceIsReached`, `TypeCorrect` | `CallConvProofs` |
| `FrequenciesAgree`, `EventsClosed`, `TypeOK` | `FrequenciesDoAgree`, `EventsAreClosed`, `TypeCorrect` | `UefiProofs` |
| `DaysExact` | `DaysAreExact` | |
| `NoByteLostButPartial`, `CTSRespected`, `PortTypeOK` | `PortLosesNothing`, `PortRespectsCTS`, `PortTypeCorrect` | |
| `FoundIsComplete` | `EnumerationsAreComplete` | |

### The arguments

**Stub2.** Assumptions: `FilesAssumptions` (lengths are natural numbers), `Stub2Assumptions`
(a page size above 0, a boot header no larger than a page, command lines that are not
empty, as setup-efi writes them, lengths in the range considered), and for
`HandoverIsComplete` alone `ShaInjective`: the digest tells contents apart. `IInv` is the
conjunction of

- `TypeOK` and `ControlInv`: which outcome and status belong to which step, and that a
  stub on its way has status success;
- `ConfigInv`: after `ReadConfig` the configuration is bound and its lengths are numbers;
- `InitrdInv`, `KernelInv`: from allocation to hand-over, what the buffers hold, how it
  relates to the lengths in the variables and, after the check, to the digests;
- `BoundsInv`: pages cover the lengths, buffers lie in memory;
- `SetupInv`: the fields of the setup block are those of the verified buffers.

The lemmas `TypeStep` to `SetupStep` rest on `PagesCover` (1 + (n + p - 1) / p pages hold n
bytes) and `FreeBelowInMemory`. `StubImplementsVerifiedBoot` is the safety part of the
refinement; the run also checks that the stub decides.

**Stub0.** `Stub0Inv`: `Stub0Pool` has the state of the pool at each point of `main`,
`Stub0Text` that the copying loop ran only if text and terminator fit into `cmdx_buffer`, and
that text, length and size reach the loaded image together. Assumed (`Stub0Sizes`): the pool is
no smaller than `cmdx_buffer` has units, as 64 kB and 256 are.

**Signer.** Kernels, initrds, interrupted contents and command lines are any sets. `EfiInv` says
for each line of `efi` what `/tmp/ukicfg` holds by then and of which files (`KernelLines`,
`InitrdLen`, `InitrdSha`), and `Describes` what a whole configuration is: six lines as they should
be, perhaps with shorter lengths; five, with the command line in the place of the digest
of the initrd; or, without the digest of the kernel, anything, since a length then stands in its
place and verifies nothing. `BootInv` keeps it for the signed image on the partition,
whatever is run, stopped or upgraded later; `LastInv` ties the last boot and the last fresh
run to that image. A length may be that of another kernel only if `${KERNEL}` was replaced
during the run (`raced`) or a pipeline failed (`lost`), and the digest then still refuses it.
`WholeBoots` and `ShortBoots` are what stub2 makes of the first two kinds. That a boot succeeds
is proved for the command lines in `Cmds2` and `Cmds0` and machines that are `low`, whatever
these sets are. `ShaInjective` is assumed here too.

**GoBoot.** `SignedInv`: from `ReadConfig` on, efi-verify and efiload hold the sections and
never reach the code that loads from the partition. `RecoveryInv`: a command starts from
nothing, and the command line is chosen before the image is loaded. `HandlesInv` counts, at
each place of a command, what the rest of it may still open. `CmdlineIsNotCut` is
arithmetic over all texts.

**EfiVars.** `ListedInv`: names behind the current one are not printed, stable ones before it
are. That GetNextVariableName returns the least name behind the current one needs that a
non-empty set of names has a least element (`Least`, from well-foundedness of the natural
numbers). `LengthInv` says which lengths the value may have.

**Volume.** `ReadInv` relates the bytes read to the file and to the slice; `WalkInv` says that
the nodes before the current offset are a chain that starts at 0 and leads there
(`ChainTo`), by node lengths of 4 to 255. The assumption
`255 * MaxDepth + 4 <= bufferSize` is needed for the walk to stay in its buffer: the code has
16 nodes and 64 kB, and its nodes end before byte 4084.

**Console, reading.** `ReadKeysInv`: what was delivered, what is in the buffer and the bytes of
the waiting keys are, one after the other, those of the keys pressed (`ReadOrder`), and the
count is even (`ReadTypes`), so that there is always room for a whole unit. `PairsAppend` and
`PairsHead` say what one key more, and one less, does to the bytes. Assumed: codes of 16
bits, and buffers that are not empty.

**Console, writing.** No invariant is needed: the text of one call is shown, or is not, by that
call. What is hard is that the code goes over the text three times (units, expansion,
bytes) where `Wanted` goes over it once. `FlattenIs` says that FlattenSeq returns what is
put together part by part in any way; `PartialExists` that this can be done. Both are
inductions over the length, by a least counterexample. From them follow `TextUnits` (the units
expanded are those wanted for each rune, since a surrogate is neither a tab nor a line feed) and
`BytesTogether`. `OutputWhole` then counts bytes: a last unit with a high byte gets one zero more,
and since capacities are even a whole zero unit is behind it; else the memory must be larger
than the slice. Assumed: runes are not zero and below 0x110000; capacities are even and at
least 8, and one of them holds the slice (`Room`).

**MemMap.** The hard part is what is read at a stride of 48 bytes from descriptors of another
size. `Ranked` shows that `Descriptors` enumerates the runs of equal pages, `NextWord` and
`FieldWords` where the words of a descriptor are, and `ImageIsReal` that what looks like the
image's descriptor (its type, at `RamStart`) is one, whatever the descriptor size: addresses
are multiples of a page and attributes are 15, so that no other word is the number of
LoaderCode with the image's address behind it. `OwnedInv`
carries this over the allocation and over events; `MapInv` ties the map to its key. The table
has an invariant of its own, `EInv`: what it says is what the descriptors so far say
(`TableInv`), it is ordered (`OrderInv`), and the image's entry stays apart
(`IsolatedInv`), one lemma for each in a turn of the loop (`TurnSays`, `TurnOrder`,
`TurnIsolates`). Assumed of the firmware: a descriptor has at least the five words of the
specification.

**CallConv.** `CallFnInv` has, block by block of `callFn`, where the stack pointer is relative to
`Base` (the entry aligned down, one lower for a single stack word), which words were pushed,
and that BX has the entry's stack pointer; `UefiCallInv` the frame of uefiCallN; `FrameInv` the
caller's words. `OwnIsBelow` is the reason that the caller survives: what the callee may write is
below the entry, and, except with six arguments, below the saved frame pointer.
`ProgramFacts` goes through the tables of `Abi`: each call of a program passes one to six or ten
words and has the offset of its slot, so that the stack is aligned and the service the
one that is meant. Assumed: ten arguments are allowed, the stack has a top, and room below the
entry.

**Clock.** `MutexInv`, `EventInv`: the mutex and the event belong to the goroutine between the
two calls that take and give them back. `ToldInv`: no frequency is kept while one is measured,
so that at most one ever is.

**Epoch.** The calendar counts: leap years of a range, and dates of a month, one by one. The code
adds cycles of 400, 100 and 4 years and looks months up. `LeapCount` shows that the number of leap
years is x/4 - x/100 + x/400 (by a least counterexample), `YearDays` that the cycles give the
same for every zero year that is 1 mod 400, `TableRight` that each entry of `daysBefore` is the
number of dates before it. `DaysExact` is then arithmetic for every year from 1970 on, where
the run has one leap cycle.

**SerialPort.** `PortBooks` balances: what has arrived is waiting, was returned, is about to be
returned, or was lost in one of three ways. `PortCTS`: a Write past its check was started
without flow control or saw CTS, and flow control cannot be turned on before it ends.

**Devices.** `HistoryInv`: a handle has what it had all along, and had what it has. `LoopInv`: each
handle has one turn. `ItemsInv`: the interfaces of an element are of one handle, and no two
elements of one. `AccountInv` ties these to the result: of the handles whose turn has come,
those that kept their protocols are in the result, and those in it had them. DHCP children are
only counted, which takes the cardinalities of differences of finite sets (`OneMore`).

### Model-checked only

- Liveness: `Decides`, `Ends`, `CallsReturn`, `KeysRead`, `StarvesOnlyOnSilence`, and the
  fairness part of `ImplementsVerifiedBoot`. Fairness and ENABLED are out of the prover's
  reach.
- `DescriptionsAgree` has no parameter: it compares the two packages' tables and structures, and
  TLC evaluates all there is to evaluate. A proof would repeat that evaluation, fold by fold.

### What the proofs changed in the modules

Definitions with overlapping `CASE` arms, of which TLC takes the first and a proof may take
either, became disjunctions or `IF`s in the order of the code (`Return` of `GoBoot`,
`CoreXtalFrequency` of `Clock`). `Word` of `MemMap` got its field order from `Fields`.
Assumptions that only the instances satisfied are now stated: the depth against the
buffer in `Volume`, ten arguments and a top of the stack in `CallConv`. `Stub0`,
`Console`, `SerialPort` and `Devices` name what they assume in definitions (`Stub0Sizes`,
`KeyParameters`, `TextParameters`, `Room`, `PortSizes`, `DevicesSizes`), so that a lemma takes as
hypothesis the part it needs; the theorems have no hypothesis but the modules' `ASSUME`s, which
TLC evaluates. The handles of `Devices` come in any order, by `SetToSeqs`;
`Capacities` of `Console` became a constant; the calendar of `Epoch` counts dates (`DatesBefore`)
and its property covers every day of a month, where it summed lengths.

## 5. Departures found

Definitions in the modules that state what a comment or a document of the repository
says, or what memory safety asks; TLC refutes each when it takes the place of the properties in
the module's configuration. `ConfigHasInitrd` and `EpochExact` have a run. The properties that
pass hold the exact remainder.

| statement | module | what the code does | what passes |
|---|---|---|---|
| `FailureReported` | Stub2 | `main.zig:63` returns the status of openVolume, success, for an unbound stub | `BoundFailureReported` |
| `NulInPool` | Stub2 | the NUL of an empty command line is written to a pool of 0 bytes (`main.zig:260,267`) | `AccessesInBounds`, without it |
| `ConfigHasInitrd` | Signer | a failing `sha256sum` (`setup-efi:110`) leaves no line and no error, against `setup-efi:73`; if `cat` failed too the image boots as verified without initrd and command line | `RunsOnlyBound` |
| `EfiBoots` | Signer | `efi` with INITRD naming another file (`setup-efi:92`) hashes that file and does not copy it to where stub2 reads | `FreshBoots` |
| `UnsignedBoots` | Signer | `unsigned` with the default STUB (`setup-efi:41,70`) installs the verifying stub unbound | `FreshBoots` |
| `KeysCreated` | Signer | `setup-efi:7` says of the keys "will be created if missing"; sign_init returns as soon as `root.key` exists (`setup-efi:158`), so that one that was stopped in between is never completed | - |
| `DefaultApplied` | Stub0 | `main.zig:77` logs a default for a missing CMDLINE; the kernel gets an empty command line | `OptionsWellFormed` |
| `UpTo64kB` | Stub0 | 64 kB are read (`main.zig:64`), 255 bytes or more panic (`main.zig:95-97`) | `OptionsWellFormed` |
| `FallbackLoads` | GoBoot | `efi-verify/main.go:44` speaks of a file if no kernel is built in; the slice is never nil, and an empty one panics in `image.go:64` | `SignedStartsOnlySection` |
| `StartedWithCmdline` | GoBoot | the error of LoadImageHandle is dropped (`efi-verify/main.go:135`), and address 0 is used | `SignedStartsOnlySection`, `RecoveryCmdline` |
| `EOFIsEnd` | GoBoot | a failed read with no bytes is `io.EOF` (`file.go:128`) | `ImageWholeUnlessCut` |
| `OptionsInBuffer` | GoBoot | LoadOptionsSize is twice the number of bytes (`efi-verify/main.go:143`): with characters that are not ASCII it goes past the buffer | `CmdlineNotCut` |
| `FilesClosed` | GoBoot | files are never closed (`recovery/main.go:52`), though `fs.go:84` asks for it | `HandlesBounded` |
| `RuntimeIsolated` | MemMap | `mem.go:103` isolates the runtime's region only where descriptors end | `E820Exact` |
| `MapDecoded` | MemMap | `mem.go:147` decodes at a stride of 48 bytes, whatever DescriptorSize was reported | `HeapOwned`, `MapCurrent`, which hold all the same |
| `AlignedAtCall` | CallConv | `uefi.s:61` pads only for exactly one stack word: seven and nine arguments are misaligned | `ArgsDelivered`: no program makes such a call |
| `FramePointerKept` | CallConv | `asm_amd64.S:90` reserves 0x28 for 0x30: uefiCall6 overwrites the saved rbp | `CallerIntact` |
| `MethodsReach` | CallConv | UefiCall3 and UefiCall5 go through callFn, which takes "a pointer to the table entry - not to the function" (`ueficore/uefi.go:31-32`); all methods but GetVariable and GetNextVariableName pass the word in the entry (`uefi_spec.go`) | `ServiceReached` |
| `TimesDecoded` | CallConv | `file.go:44` has a Nanosecond of one byte: from there the fields of a time are misplaced, its size is right | `DescriptionsAgree` |
| `ValueWritten` | EfiVars | `efiload/main.go:53` returns the buffer of the first size | `EachListedOnce` |
| `NeverInvalid` | EfiVars | a variable deleted during the listing gives EFI_INVALID_PARAMETER (`efiload/main.go:94`) | `EachListedOnce` |
| `EpochExact` | Epoch | `clock.go:64` and `clock.go:70` both subtract 1 from the month: the result is a month early, and the index is -1 in January | `DaysExact` |
| `GoldmontCrystal` | Clock | `cpu.go:121` switches on the family, where 5FH, 5CH and 7AH are models: the crystal is always 24 MHz | `FrequenciesAgree` |
| `NoByteLost` | SerialPort | bytes of a read that timed out are overwritten (`serial_io_protocol.go:239`) | `NoByteLostButPartial` |
| `Yields` (with `PortFairSpec`) | SerialPort | the call of gosched is commented out (`serial_io_protocol.go:242`) | `StarvesOnlyOnSilence` |
| `NetworksAreNetworks` | Devices | EnumerateSNP asks for the binding of DHCP (`simple_network_protocol.go:114`) and takes it for a network | `FoundIsComplete` |
| `ChildrenTracked` | Devices | a DHCP child without an interface is left behind (`dhcpv4.go:224`), and all of them by the next call | `FoundIsComplete` |
| `ImageWhole` | Volume | as `EOFIsEnd`, for LoadImage by path: a truncated image goes to the firmware | `ImageWholeUnlessCut` |
| `NeverPanics` | Volume | a node of length 1 to 3 passes `path.go:79` and its data size wraps (`path.go:89`) | `PathIsChain` |
| `NothingOpen` | Volume | root directories are never closed; nor is a file of unknown revision (`file.go:94`) | `FilesClosed` |
| `OutputTerminated` | Console | a text that ends in ASCII gets no terminator (`console.go:151`); one of 4, 8, 16, ... units has no zero behind it, and the firmware reads on | `ShownExactly` |
| `ReadCount` | Console | with an odd buffer Read returns more than the buffer's length (`console.go:171`) | `KeysInOrder` |
| `WriteCount` | Console | Write returns 0 and no error (`console.go:236`) | - |
| `NothingWithoutKeyboard` | Console | without ConIn, Input reports success (`console.go:137`), and Read fills the buffer with zeros | `KeysInOrder` |
| `NoPanic` | Console | a cursor key with one byte left in the buffer (`console.go:192`) | `KeysInOrder` |

## 6. Abstractions and what is left out

- Contents of files are blobs with a length; a digest is a function of a prefix.
  Formatting, logging, stalls and paths are left out.
- `kernelLength` is parsed as an i32 and may be negative only in a section written by
  hand; the model has natural numbers. The ramdisk fields of a kernel's own header are
  zero, as Linux builds them.
- Command lines are lengths and origins; in the stubs they are ASCII.
- What OutputString shows when it fails, and its error (`console.go:232`), are left out, as are
  the input bits that the serial port writes back and failing GetControl and SetControl
  (`serial_io_protocol.go:231`); no property depends on them.
- A measurement of `TicksFrequency` is one of a few values, 0 included.
- A method of package uefi that passes a handle of the wrong kind or a word too many is
  counted, not judged: Unload passes the package's image handle, Open a sixth word,
  Blt ten words. The buffers of LocateHandleBuffer are never freed.
- Not modelled: the container pipelines of setup-efi (sqfs, prepare, mkinitramfs, ...),
  which hold no state; ReadAt, WriteAt, Size and Flush of a disk, Init of the graphics
  output and the single finders of uefi, which make one or two firmware calls each,
  without state, and which no program uses; GUIDs, status texts and the constants of the
  UEFI specification; the mutexes around firmware calls, since nothing preempts a
  goroutine in a call; the Go collector.

## 7. What is left

1. Abstract specifications: an atomic calibration for `Clock`, an owned-memory
   specification for `MemMap`, an atomic replacement of the partition for `Signer`; the first
   two are close to the invariants that are proved.
2. Liveness beyond TLC's instances: the properties above under "Model-checked only".
