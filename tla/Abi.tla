-------------------------------- MODULE Abi --------------------------------
(***************************************************************************)
(* The firmware's tables and structures, of which the Go code has two      *)
(* descriptions.  Package uefi has Go structs, and one method per service, *)
(* which calls UefiCallN with the word in the service's slot.  Package     *)
(* ueficore has offsets of slots for CallService, and structures that      *)
(* encoding/binary reads, which knows no padding.  Offsets are in bytes.   *)
(***************************************************************************)
EXTENDS Integers, Sequences, SequencesExt, FiniteSets

Header == 24                  \* of a table of services
Word == 8

(***************************************************************************)
(* Package uefi: the slots of each table                                   *)
(***************************************************************************)
EFI_BOOT_SERVICES == <<
  "raiseTPL", "restoreTPL", "allocatePages", "freePages", "getMemoryMap", "allocatePool",
  "freePool", "createEvent", "setTimer", "waitForEvent", "signalEvent", "closeEvent",
  "checkEvent", "installProtocolInterface", "reinstallProtocolInterface",
  "uninstallProtocolInterface", "handleProtocol", "Reserved", "registerProtocolNotify",
  "locateHandle", "locateDevicePath", "installConfigurationTable", "loadImage",
  "startImage", "exit", "unloadImage", "exitBootServices", "getNextMonotonicCount", "stall",
  "setWatchdogTimer", "connectController", "disconnectController", "openProtocol",
  "closeProtocol", "openProtocolInformation", "protocolsPerHandle", "locateHandleBuffer",
  "locateProtocol", "installMultipleProtocolInterfaces",
  "uninstallMultipleProtocolInterfaces", "calculateCrc32", "copyMem", "setMem",
  "createEventEx">>

EFI_RUNTIME_SERVICES == <<
  "getTime", "setTime", "getWakeupTime", "setWakeupTime", "setVirtualAddressMap",
  "convertPointer", "getVariable", "getNextVariableName", "setVariable",
  "getNextHighMonotonicCount", "resetSystem", "updateCapsule", "queryCapsuleCapabilities",
  "queryVariableInfo">>

EFI_SIMPLE_TEXT_INPUT_PROTOCOL == <<"reset", "readKeyStroke", "WaitForKey">>

EFI_SIMPLE_TEXT_OUTPUT_PROTOCOL == <<
  "reset", "outputString", "testString", "queryMode", "setMode", "setAttribute",
  "clearScreen", "setCursorPosition", "enableCursor", "Mode">>

EFI_GRAPHICS_OUTPUT_PROTOCOL == <<"queryMode", "setMode", "blt", "Mode">>

EFI_SIMPLE_FILE_SYSTEM_PROTOCOL == <<"Revision", "openVolume">>

EFI_FILE_PROTOCOL == <<
  "Revision", "open", "close", "delete", "read", "write", "getPosition", "setPosition",
  "getInfo", "setInfo", "flush">>

Slots == [
  boot |-> EFI_BOOT_SERVICES, runtime |-> EFI_RUNTIME_SERVICES,
  textIn |-> EFI_SIMPLE_TEXT_INPUT_PROTOCOL, textOut |-> EFI_SIMPLE_TEXT_OUTPUT_PROTOCOL,
  graphics |-> EFI_GRAPHICS_OUTPUT_PROTOCOL, volume |-> EFI_SIMPLE_FILE_SYSTEM_PROTOCOL,
  file |-> EFI_FILE_PROTOCOL]

\* The slot at an offset.
SlotAt(table, offset) ==
  (offset - IF table \in {"boot", "runtime"} THEN Header ELSE 0) \div Word + 1

(***************************************************************************)
(* Package uefi: the number of arguments each method passes                *)
(***************************************************************************)
TplAndMemory == [
  raiseTPL |-> 1, restoreTPL |-> 1, allocatePages |-> 4, freePages |-> 2,
  getMemoryMap |-> 5, allocatePool |-> 3, freePool |-> 1]

Events == [
  createEvent |-> 5, setTimer |-> 3, waitForEvent |-> 3, signalEvent |-> 1,
  closeEvent |-> 1, checkEvent |-> 1]

Protocols == [
  installProtocolInterface |-> 4, reinstallProtocolInterface |-> 4,
  uninstallProtocolInterface |-> 3, handleProtocol |-> 3, registerProtocolNotify |-> 3,
  locateHandle |-> 5, locateDevicePath |-> 3, installConfigurationTable |-> 2]

Images == [
  loadImage |-> 6, startImage |-> 3, exit |-> 4, unloadImage |-> 1, exitBootServices |-> 2,
  getNextMonotonicCount |-> 1, stall |-> 1, setWatchdogTimer |-> 4]

Controllers == [
  connectController |-> 4, disconnectController |-> 3, openProtocol |-> 6,
  closeProtocol |-> 4, openProtocolInformation |-> 4, protocolsPerHandle |-> 3]

Lookup == [
  locateHandleBuffer |-> 5, locateProtocol |-> 3, installMultipleProtocolInterfaces |-> 1,
  uninstallMultipleProtocolInterfaces |-> 1, calculateCrc32 |-> 3, copyMem |-> 3,
  setMem |-> 3, createEventEx |-> 6]

Time == [
  getTime |-> 2, setTime |-> 1, getWakeupTime |-> 3, setWakeupTime |-> 2,
  setVirtualAddressMap |-> 4, convertPointer |-> 2]

Variables == [
  getVariable |-> 5, getNextVariableName |-> 3, setVariable |-> 5,
  getNextHighMonotonicCount |-> 1]

ResetAndCapsules == [
  resetSystem |-> 4, updateCapsule |-> 3, queryCapsuleCapabilities |-> 4,
  queryVariableInfo |-> 4]

TextIn == [reset |-> 2, readKeyStroke |-> 2]
TextInEx == [resetEx |-> 2, readKeyStrokeEx |-> 2]

TextOut == [
  reset |-> 2, outputString |-> 2, testString |-> 2, queryMode |-> 4, setMode |-> 2,
  setAttribute |-> 2, clearScreen |-> 1, setCursorPosition |-> 3, enableCursor |-> 2]

Graphics == [queryMode |-> 4, setMode |-> 2, blt |-> 10]
Volume == [openVolume |-> 2]

\* The sixth argument of Open is a 0 the protocol does not have.
File == [
  open |-> 6, close |-> 1, delete |-> 1, read |-> 3, write |-> 3, getPosition |-> 2,
  setPosition |-> 2, getInfo |-> 4, setInfo |-> 4, flush |-> 1]

BlockIo == [reset |-> 2, readBlocks |-> 5, writeBlocks |-> 5, flushBlocks |-> 1]
DiskIo == [readDisk |-> 5, writeDisk |-> 5]

Serial == [
  reset |-> 1, setAttributes |-> 7, setControl |-> 2, getControl |-> 2, write |-> 3,
  read |-> 3]

Dhcp4Binding == [createChild |-> 2, destroyChild |-> 2]
Dhcp4 == [
  getModeData |-> 2, configure |-> 2, start |-> 2, renewRebind |-> 2, release |-> 2,
  stop |-> 1, build |-> 2, transmitReceive |-> 2, parse |-> 3]

SimpleNetwork == [start |-> 1, stop |-> 1, initialize |-> 1, shutdown |-> 1]
LoadedImageMethods == [unload |-> 1]

\* The methods of each table, in groups.
Methods == {
  <<"boot", TplAndMemory>>, <<"boot", Events>>, <<"boot", Protocols>>, <<"boot", Images>>,
  <<"boot", Controllers>>, <<"boot", Lookup>>, <<"runtime", Time>>,
  <<"runtime", Variables>>, <<"runtime", ResetAndCapsules>>, <<"textIn", TextIn>>,
  <<"textInEx", TextInEx>>, <<"textOut", TextOut>>, <<"graphics", Graphics>>,
  <<"volume", Volume>>, <<"file", File>>, <<"blockIo", BlockIo>>, <<"diskIo", DiskIo>>,
  <<"serial", Serial>>, <<"dhcp4Binding", Dhcp4Binding>>, <<"dhcp4", Dhcp4>>,
  <<"network", SimpleNetwork>>, <<"loadedImage", LoadedImageMethods>>}

\* UefiCall3 and UefiCall5 are Go functions around callFn, the others assembly.
Via(n) == IF n \in {3, 5} THEN "callFn" ELSE "uefiCall"

\* Mutant: one of them passes the word in the slot.
PassesEntry_One == {"getVariable"}

\* The methods that pass the address of the slot; all others pass the word in it.
PassesEntry == {"getVariable", "getNextVariableName"}

UefiCalls ==
  UNION {{[package |-> "uefi", table |-> g[1], meant |-> s, slot |-> s,
           n |-> g[2][s], via |-> Via(g[2][s]),
           passes |-> IF s \in PassesEntry THEN "entry" ELSE "function"] :
            s \in DOMAIN g[2]} : g \in Methods}

(***************************************************************************)
(* Package ueficore: the offset of each slot, the number of arguments      *)
(***************************************************************************)
BootProtocol == [handleProtocol |-> <<\h98, 3>>, locateProtocol |-> <<\h140, 3>>]
BootImage == [loadImage |-> <<\hc8, 6>>, startImage |-> <<\hd0, 3>>]
BootExit == [exit |-> <<\hd8, 4>>, exitBootServices |-> <<\he8, 2>>]
BootPages == [allocatePages |-> <<\h28, 4>>, freePages |-> <<\h30, 2>>]
BootMap == [getMemoryMap |-> <<\h38, 5>>]
BootWatchdog == [setWatchdogTimer |-> <<\h100, 4>>]
Runtime == [getVariable |-> <<\h48, 4>>, resetSystem |-> <<\h68, 4>>]
ConsoleIn == [readKeyStroke |-> <<\h08, 2>>]
ConsoleOut == [outputString |-> <<\h08, 2>>, setMode |-> <<\h20, 2>>,
               setAttribute |-> <<\h28, 2>>, clearScreen |-> <<\h30, 1>>]
GraphicsBlt == [blt |-> <<\h10, 10>>]

\* Fields of structures that were decoded: their offsets are those of the fields.
OpenVolume == [openVolume |-> <<\h08, 2>>]
FileCalls == [open |-> <<\h08, 5>>, close |-> <<\h10, 1>>, read |-> <<\h20, 3>>,
              getInfo |-> <<\h40, 4>>]

UeficoreTables == {
  <<"boot", BootProtocol>>, <<"boot", BootImage>>, <<"boot", BootExit>>,
  <<"boot", BootPages>>, <<"boot", BootMap>>, <<"boot", BootWatchdog>>,
  <<"runtime", Runtime>>, <<"textIn", ConsoleIn>>, <<"textOut", ConsoleOut>>,
  <<"graphics", GraphicsBlt>>, <<"volume", OpenVolume>>, <<"file", FileCalls>>}

UeficoreCalls ==
  UNION {{[package |-> "ueficore", table |-> g[1], meant |-> s,
           slot |-> Slots[g[1]][SlotAt(g[1], g[2][s][1])],
           n |-> g[2][s][2], via |-> "callFn", passes |-> "entry"] :
            s \in DOMAIN g[2]} : g \in UeficoreTables}

\* Anybody may call CallService, and the UefiCalls, with any number of words.
AnyCalls(max) ==
  {[package |-> "any", table |-> "any", meant |-> "any", slot |-> "any", n |-> k,
    via |-> v, passes |-> IF v = "callFn" THEN "entry" ELSE "function"] :
     k \in 0..max, v \in {"callFn", "uefiCall"}}

\* The calls that the programs under cmd/ can make: they use ueficore, and efiload lists
\* variables with package uefi.
ProgramCalls == UeficoreCalls \cup {c \in UefiCalls : c.meant \in {"getVariable", "getNextVariableName"}}

(***************************************************************************)
(* Structures: sequences of fields <<name, bytes>>, "_" being padding.     *)
(* Fields have the names of package uefi where the packages differ.        *)
(***************************************************************************)
SystemTable == <<
  <<"Hdr", 24>>, <<"FirmwareVendor", 8>>, <<"FirmwareRevision", 4>>, <<"_", 4>>,
  <<"ConsoleInHandle", 8>>, <<"ConIn", 8>>, <<"ConsoleOutHandle", 8>>, <<"ConOut", 8>>,
  <<"StandardErrorHandle", 8>>, <<"StdErr", 8>>, <<"RuntimeServices", 8>>,
  <<"BootServices", 8>>, <<"NumberOfTableEntries", 8>>, <<"ConfigurationTable", 8>>>>

EFI_SYSTEM_TABLE == <<
  <<"Hdr", 24>>, <<"FirmwareVendor", 8>>, <<"FirmwareRevision", 4>>,
  <<"ConsoleInHandle", 8>>, <<"ConIn", 8>>, <<"ConsoleOutHandle", 8>>, <<"ConOut", 8>>,
  <<"StandardErrorHandle", 8>>, <<"StdErr", 8>>, <<"RuntimeServices", 8>>,
  <<"BootServices", 8>>, <<"NumberOfTableEntries", 8>>, <<"ConfigurationTable", 8>>>>

\* Mutant: the padding after Revision is missing.
LoadedImage_NoPad == <<
  <<"Revision", 4>>, <<"ParentHandle", 8>>, <<"SystemTable", 8>>, <<"DeviceHandle", 8>>,
  <<"FilePath", 8>>, <<"_", 8>>, <<"LoadOptionsSize", 4>>, <<"_", 4>>, <<"LoadOptions", 8>>>>

LoadedImage == <<
  <<"Revision", 4>>, <<"_", 4>>, <<"ParentHandle", 8>>, <<"SystemTable", 8>>,
  <<"DeviceHandle", 8>>, <<"FilePath", 8>>, <<"_", 8>>, <<"LoadOptionsSize", 4>>, <<"_", 4>>,
  <<"LoadOptions", 8>>, <<"ImageBase", 8>>, <<"ImageSize", 8>>, <<"ImageCodeType", 8>>,
  <<"ImageDataType", 8>>, <<"unload", 8>>>>

EFI_LOADED_IMAGE_PROTOCOL == <<
  <<"Revision", 4>>, <<"ParentHandle", 8>>, <<"SystemTable", 8>>, <<"DeviceHandle", 8>>,
  <<"FilePath", 8>>, <<"Reserved", 8>>, <<"LoadOptionsSize", 4>>, <<"LoadOptions", 8>>,
  <<"ImageBase", 8>>, <<"ImageSize", 8>>, <<"ImageCodeType", 8>>, <<"ImageDataType", 8>>,
  <<"unload", 8>>>>

efiTime == <<
  <<"Year", 2>>, <<"Month", 1>>, <<"Day", 1>>, <<"Hour", 1>>, <<"Minute", 1>>,
  <<"Second", 1>>, <<"_", 1>>, <<"Nanosecond", 1>>, <<"TimeZone", 2>>, <<"Daylight", 1>>,
  <<"_", 4>>>>

EFI_TIME == <<
  <<"Year", 2>>, <<"Month", 1>>, <<"Day", 1>>, <<"Hour", 1>>, <<"Minute", 1>>,
  <<"Second", 1>>, <<"Pad1", 1>>, <<"Nanosecond", 4>>, <<"TimeZone", 2>>, <<"Daylight", 1>>,
  <<"Pad2", 1>>>>

FieldBytes(fs) == FoldLeft(LAMBDA n, f : n + f[2], 0, fs)

\* Both describe the same words, one with times of its own.
fileInfo == <<
  <<"Size", 8>>, <<"FileSize", 8>>, <<"PhysicalSize", 8>>,
  <<"CreateTime", FieldBytes(efiTime)>>, <<"LastAccessTime", FieldBytes(efiTime)>>,
  <<"ModificationTime", FieldBytes(efiTime)>>, <<"Attribute", 8>>>>

EFI_FILE_INFO == <<
  <<"Size", 8>>, <<"FileSize", 8>>, <<"PhysicalSize", 8>>, <<"CreateTime", 16>>,
  <<"LastAccessTime", 16>>, <<"ModificationTime", 16>>, <<"Attribute", 8>>>>

MemoryDescriptor == <<
  <<"Type", 4>>, <<"_", 4>>, <<"PhysicalStart", 8>>, <<"VirtualStart", 8>>,
  <<"NumberOfPages", 8>>, <<"Attribute", 8>>, <<"_", 8>>>>

EFI_MEMORY_DESCRIPTOR == <<
  <<"Type", 4>>, <<"PhysicalStart", 8>>, <<"VirtualStart", 8>>, <<"NumberOfPages", 8>>,
  <<"Attribute", 8>>>>

ModeInformation == <<
  <<"Version", 4>>, <<"HorizontalResolution", 4>>, <<"VerticalResolution", 4>>,
  <<"PixelFormat", 4>>, <<"RedMask", 4>>, <<"GreenMask", 4>>, <<"BlueMask", 4>>,
  <<"ReservedMask", 4>>, <<"PixelsPerScanLine", 4>>>>

EFI_GRAPHICS_OUTPUT_MODE_INFORMATION == <<
  <<"Version", 4>>, <<"HorizontalResolution", 4>>, <<"VerticalResolution", 4>>,
  <<"PixelFormat", 4>>, <<"RedMask", 4>>, <<"GreenMask", 4>>, <<"BlueMask", 4>>,
  <<"ReservedMask", 4>>, <<"PixelsPerScanLine", 4>>>>

ProtocolMode == <<
  <<"MaxMode", 4>>, <<"Mode", 4>>, <<"Info", 8>>, <<"SizeOfInfo", 8>>,
  <<"FrameBufferBase", 8>>, <<"FrameBufferSize", 8>>>>

EFI_GRAPHICS_OUTPUT_PROTOCOL_MODE == <<
  <<"MaxMode", 4>>, <<"Mode", 4>>, <<"Info", 8>>, <<"SizeOfInfo", 8>>,
  <<"FrameBufferBase", 8>>, <<"FrameBufferSize", 8>>>>

ConfigurationTable == <<<<"VendorGuid", 16>>, <<"VendorTable", 8>>>>
EFI_CONFIGURATION_TABLE == <<<<"VendorGuid", 16>>, <<"VendorTable", 8>>>>

\* Each structure that ueficore decodes, and the struct of package uefi.
Structures == {
  <<SystemTable, EFI_SYSTEM_TABLE>>, <<LoadedImage, EFI_LOADED_IMAGE_PROTOCOL>>,
  <<efiTime, EFI_TIME>>, <<fileInfo, EFI_FILE_INFO>>,
  <<MemoryDescriptor, EFI_MEMORY_DESCRIPTOR>>,
  <<ModeInformation, EFI_GRAPHICS_OUTPUT_MODE_INFORMATION>>,
  <<ProtocolMode, EFI_GRAPHICS_OUTPUT_PROTOCOL_MODE>>,
  <<ConfigurationTable, EFI_CONFIGURATION_TABLE>>}

\* unmarshalBinary: each field follows the one before.
PackedAt(fs, i) == FieldBytes(SubSeq(fs, 1, i - 1))

\* The Go compiler (external) aligns a field to its size, a GUID and an EFI_TIME to four
\* bytes and a header to eight.
Alignment(f) == CASE f[2] = 16 -> 4 [] f[2] = 24 -> 8 [] OTHER -> f[2]
RoundUp(k, a) == ((k + a - 1) \div a) * a
AlignedAt(fs, i) ==
  RoundUp(FoldLeft(LAMBDA n, f : RoundUp(n, Alignment(f)) + f[2], 0, SubSeq(fs, 1, i - 1)),
          Alignment(fs[i]))

\* The fields of a decoded structure that do not lie where package uefi has them.
Misplaced(pair) ==
  {pair[1][i][1] : i \in {j \in DOMAIN pair[1] :
     /\ pair[1][j][1] # "_"
     /\ ~\E k \in DOMAIN pair[2] :
           /\ pair[2][k] = pair[1][j]
           /\ AlignedAt(pair[2], k) = PackedAt(pair[1], j)}}

\* Package uefi passes as many words to the service as this call does.
SameCount(c) == \E u \in UefiCalls : u.table = c.table /\ u.meant = c.meant /\ u.n = c.n
=============================================================================
