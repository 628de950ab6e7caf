---------------------------- MODULE Stub2Proofs ----------------------------
(***************************************************************************)
(* Proofs about Stub2, for every machine, file, configuration and header.  *)
(* IInv is the inductive invariant: for each point of main, what is known  *)
(* there about the buffers, the digests and the setup block.  The promises *)
(* of the handover only mention its state; what makes them true was        *)
(* established several firmware calls earlier, and IInv carries it along.  *)
(***************************************************************************)
EXTENDS Stub2, TLAPS

Parsed == {"allocInitrd", "loadInitrd", "checkInitrd", "allocKernel", "loadKernel",
           "checkKernel", "header", "allocSetup", "allocPool", "handover", "inKernel"}
InitrdDone == Parsed \ {"allocInitrd", "loadInitrd", "checkInitrd"}
KernelDone == InitrdDone \ {"allocKernel", "loadKernel", "checkKernel"}
Running == Steps \ {"inKernel", "end"}

\* Control: the outcome follows pc, and only the way out sets a failure.
ControlInv ==
  /\ pc \in Running => outcome = "running" /\ status = "success" /\ ~started
  /\ pc = "inKernel" => outcome = "kernel" /\ started
  /\ pc = "end" => outcome \in {"returned", "panicked"}
  /\ BoundFailureReported

\* Past the configuration both lengths are numbers.
ConfigInv ==
  pc \in Parsed \/ started =>
    /\ cfg.kernelLength \in 0..MaxLen
    /\ cfg.initrdLength \in 0..MaxLen

\* The initrd: what is in its buffer before, at and after the check.
InitrdInv ==
  /\ pc \in Lookups \cup {"config", "allocInitrd", "loadInitrd"} => initrdBytes = NoBytes
  /\ pc \in Parsed \ InitrdDone => cfg.initrdLength # 0
  /\ pc = "checkInitrd" => initrdLen = initrdBytes.len
  /\ pc \in InitrdDone \/ started =>
       /\ initrdLen = initrdBytes.len
       /\ cfg.initrdLength # 0 => Sha(initrdBytes) = cfg.initrdSha
       /\ cfg.initrdLength = 0 => initrdBytes = NoBytes

\* The kernel: read from a file, and verified from checkSha on.
KernelInv ==
  /\ pc \in Running \ ({"checkKernel"} \cup KernelDone) => kernelBytes = NoBytes
  /\ pc \in {"checkKernel"} \cup KernelDone => kernelBytes.blob \in Blobs
  /\ pc \in KernelDone \/ started => Sha(kernelBytes) = cfg.kernelSha

\* Buffers are large enough from the moment they are allocated.
BoundsInv ==
  /\ initrdBytes.len <= initrdBuf.size
  /\ kernelBytes.len <= kernelBuf.size
  /\ pc = "loadInitrd" => initrdLen <= initrdBuf.size
  /\ pc = "loadKernel" => rdKernelLen <= kernelBuf.size
  /\ pc \in {"loadKernel", "checkKernel"} \cup KernelDone \/ hdr # NoHeader =>
       HeaderSize <= kernelBuf.size
  /\ initrdBuf.addr + initrdBuf.size <= MemTop

\* The setup block is filled field by field.
SetupInv ==
  /\ pc = "allocPool" =>
       /\ bootSetup.code32_start = kernelBuf.addr + hdr.setup
       /\ bootSetup.code32_start < FourG
  /\ pc \in {"handover", "inKernel"} \/ started =>
       /\ bootSetup.code32_start = kernelBuf.addr + hdr.setup
       /\ bootSetup.code32_start < FourG
       /\ bootSetup.cmd_line_ptr < FourG
       /\ bootSetup.ramdisk_len = initrdLen
       /\ bootSetup.ramdisk_start = IF initrdLen > 0 THEN initrdBuf.addr ELSE 0
       /\ bootSetup.ramdisk_start < FourG

IInv == ControlInv /\ ConfigInv /\ InitrdInv /\ KernelInv /\ BoundsInv /\ SetupInv

-----------------------------------------------------------------------------
(***************************************************************************)
(* Arithmetic                                                              *)
(***************************************************************************)
\* pages_needed reserves a page more than the bytes need: the buffer holds len
\* bytes, and a boot header even when len is 0 (main.zig:99 and 117).
LEMMA PagesCover ==
  ASSUME NEW len \in Nat
  PROVE  /\ pages_needed(len) * PageSize \in Nat
         /\ len + PageSize <= pages_needed(len) * PageSize
<1> DEFINE n == len + PageSize - 1
           q == n \div PageSize
<1>1. PageSize \in Nat /\ PageSize > 0
  BY Stub2Assumptions, FilesAssumptions
<1>2. n \in Nat
  BY <1>1
<1>3. q \in Nat /\ n < PageSize * (q + 1)
  BY <1>1, <1>2, SMT
<1> HIDE DEF q
<1>4. PageSize * (q + 1) \in Nat /\ (1 + q) * PageSize = PageSize * (q + 1)
  BY <1>1, <1>3, SMT
<1>5. len + PageSize <= PageSize * (q + 1)
  BY <1>1, <1>3, <1>4
<1>6. pages_needed(len) = 1 + q
  BY DEF pages_needed, q
<1> QED
  BY <1>4, <1>5, <1>6

\* A region that AllocatePages returns lies in memory.
LEMMA FreeBelowInMemory ==
  ASSUME NEW max \in Nat, NEW size \in Nat, NEW a \in FreeBelow(max, size)
  PROVE  a \in Nat /\ a + size <= MemTop
<1>1. MemTop \in Nat
  BY Stub2Assumptions, FilesAssumptions
<1> QED
  BY <1>1 DEF FreeBelow, Min

-----------------------------------------------------------------------------
(***************************************************************************)
(* Types                                                                   *)
(***************************************************************************)
\* TypeOK is inductive, given that a parsed length is a number (ConfigInv) and
\* that the header is read from a file's bytes (KernelInv).
LEMMA TypeStep == TypeOK /\ ConfigInv /\ KernelInv /\ [Next]_vars => TypeOK'
<1> SUFFICES ASSUME TypeOK, ConfigInv, KernelInv, [Next]_vars
             PROVE  TypeOK'
  OBVIOUS
<1> USE Stub2Assumptions, FilesAssumptions DEF TypeOK, Steps, Lookups, Bytes, Bufs, NoBytes, Prefix
<1>1. CASE Lookup
  BY <1>1 DEF Lookup, NextLookup, Goto, fatal, End, FirmwareError, input, initrdVars, kernelVars, setupVars
<1>2. CASE Unbound
  BY <1>2 DEF Unbound, fatal, End, input, initrdVars, kernelVars, setupVars
<1>3. CASE ReadConfig
  BY <1>3 DEF ReadConfig, ConfigPanics, ConfigInvalid, IsNumber, Goto, Panic, End,
              input, kernelVars, setupVars
<1>4. CASE AllocInitrd
  <2>1. CASE initrdBuf' = initrdBuf
    BY <1>4, <2>1 DEF AllocInitrd, Goto, fatal, End, FirmwareError, input, kernelVars, setupVars
  <2>2. CASE \E a \in FreeBelow(MemTop, pages_needed(initrdLen) * PageSize) :
               initrdBuf' = [addr |-> a, size |-> pages_needed(initrdLen) * PageSize]
    <3>1. initrdBuf' \in Bufs
      BY <2>2, PagesCover, FreeBelowInMemory
    <3> QED
      BY <1>4, <3>1 DEF AllocInitrd, Goto, fatal, End, FirmwareError, input, kernelVars, setupVars
  <2> QED
    BY <1>4, <2>1, <2>2 DEF AllocInitrd
<1>5. CASE LoadInitrd
  BY <1>5 DEF LoadInitrd, Loaded, Stale, Min, Goto, input, kernelVars, setupVars
<1>6. CASE CheckInitrd
  BY <1>6 DEF CheckInitrd, Goto, fatal, End, input, initrdVars, kernelVars, setupVars
<1>7. CASE AllocKernel
  <2>1. cfg.kernelLength \in 0..MaxLen
    BY <1>7 DEF AllocKernel, ConfigInv, Parsed
  <2> DEFINE size == pages_needed(cfg.kernelLength) * PageSize
  <2>5. size \in Nat
    BY <2>1, PagesCover
  <2>6. \A a \in FreeBelow(KernelMax, size) : a \in Nat
    BY <2>5, FreeBelowInMemory
  <2>2. kernelBuf' \in Bufs /\ rdKernelLen' \in 0..MaxLen
    <3> HIDE Stub2Assumptions, FilesAssumptions DEF size
    <3> QED
      BY <1>7, <2>1, <2>5, <2>6 DEF AllocKernel, size
  <2>3. /\ pc' \in Steps /\ outcome' \in {"running", "returned", "panicked", "kernel"}
        /\ status' \in {"success", "load_error", "invalid_parameter", FirmwareError}
    BY <1>7 DEF AllocKernel, Goto, fatal, Panic, End
  <2>4. UNCHANGED <<input, initrdVars, kernelBytes, setupVars, started>>
    BY <1>7 DEF AllocKernel
  <2> QED
    BY <2>2, <2>3, <2>4 DEF input, initrdVars, setupVars
<1>8. CASE LoadKernel
  BY <1>8 DEF LoadKernel, Loaded, Min, Goto, fatal, End, input, initrdVars, setupVars
<1>9. CASE CheckKernel
  BY <1>9 DEF CheckKernel, Goto, fatal, End, input, initrdVars, kernelVars, setupVars
<1>10. CASE CheckHeader
  BY <1>10 DEF KernelInv, KernelDone, InitrdDone, Parsed, CheckHeader, HeaderIn, Goto, fatal, End, input, initrdVars, kernelVars
<1>11. CASE AllocSetup
  <2>1. hdr.setup \in Nat
    BY DEF NoHeader
  <2>2. setupBuf' \in Bufs
    BY <1>11, FreeBelowInMemory DEF AllocSetup
  <2> QED
    BY <1>11, <2>1, <2>2 DEF AllocSetup, NoSetup, Goto, fatal, Panic, End, FirmwareError,
       input, initrdVars, kernelVars
<1>12. CASE AllocPool
  <2>1. \A p \in FreeBelow(MemTop, 2 * cfg.cmdLen) : p \in Nat
    BY FreeBelowInMemory
  <2>2. bootSetup' \in [code32_start : Nat, cmd_line_ptr : Nat, nul : Nat,
                        ramdisk_start : Nat, ramdisk_len : Nat]
    <3>1. cfg.cmdLen \in Nat /\ initrdLen \in Nat /\ initrdBuf.addr \in Nat
      OBVIOUS
    <3> HIDE Stub2Assumptions, FilesAssumptions
    <3> QED
      BY <1>12, <2>1, <3>1 DEF AllocPool
  <2>3. /\ pc' \in Steps /\ outcome' \in {"running", "returned", "panicked", "kernel"}
        /\ status' \in {"success", "load_error", "invalid_parameter", FirmwareError}
    BY <1>12 DEF AllocPool, Goto, fatal, Panic, End
  <2>4. UNCHANGED <<input, initrdVars, kernelVars, hdr, setupBuf, started>>
    BY <1>12 DEF AllocPool
  <2> QED
    BY <2>2, <2>3, <2>4 DEF input, initrdVars, kernelVars
<1>13. CASE Handover
  BY <1>13 DEF Handover, Panic, End, input, initrdVars, kernelVars, setupVars
<1>14. CASE KernelReturns
  BY <1>14 DEF KernelReturns, fatal, End, input, initrdVars, kernelVars, setupVars
<1>15. CASE UNCHANGED vars
  BY <1>15 DEF vars
<1> QED
  BY <1>1, <1>2, <1>3, <1>4, <1>5, <1>6, <1>7, <1>8, <1>9, <1>10, <1>11, <1>12, <1>13,
     <1>14, <1>15 DEF Next

-----------------------------------------------------------------------------
(***************************************************************************)
(* The inductive invariant, conjunct by conjunct                           *)
(***************************************************************************)
\* Every way out of main goes through End.
LEMMA ControlStep == TypeOK /\ ControlInv /\ [Next]_vars => ControlInv'
<1> SUFFICES ASSUME TypeOK, ControlInv, [Next]_vars
             PROVE  ControlInv'
  OBVIOUS
<1> USE DEF ControlInv, BoundFailureReported, FailureReported, Goto, fatal, Panic, End, FirmwareError, Steps, Lookups, Parsed, InitrdDone, KernelDone, Running, input, initrdVars, kernelVars, setupVars
<1>1. CASE Lookup
  BY <1>1 DEF Lookup, NextLookup
<1>2. CASE Unbound
  BY <1>2 DEF Unbound
<1>3. CASE ReadConfig
  BY <1>3 DEF ReadConfig, ConfigPanics, ConfigInvalid, IsNumber
<1>4. CASE AllocInitrd
  BY <1>4 DEF AllocInitrd
<1>5. CASE LoadInitrd
  BY <1>5 DEF LoadInitrd, Loaded, Stale, Prefix, Min
<1>6. CASE CheckInitrd
  BY <1>6 DEF CheckInitrd, ShaOK
<1>7. CASE AllocKernel
  BY <1>7 DEF AllocKernel
<1>8. CASE LoadKernel
  BY <1>8 DEF LoadKernel, Loaded, Prefix, Min
<1>9. CASE CheckKernel
  BY <1>9 DEF CheckKernel, ShaOK
<1>10. CASE CheckHeader
  BY <1>10 DEF CheckHeader
<1>11. CASE AllocSetup
  BY <1>11 DEF AllocSetup, FitsU32
<1>12. CASE AllocPool
  BY <1>12 DEF AllocPool, FitsU32
<1>13. CASE Handover
  BY <1>13 DEF Handover, FitsU32
<1>14. CASE KernelReturns
  BY <1>14 DEF KernelReturns
<1>15. CASE UNCHANGED vars
  BY <1>15 DEF vars
<1> QED
  BY <1>1, <1>2, <1>3, <1>4, <1>5, <1>6, <1>7, <1>8,
     <1>9, <1>10, <1>11, <1>12, <1>13, <1>14, <1>15 DEF Next

\* Parsing precedes every use of a length.
LEMMA ConfigStep == TypeOK /\ ControlInv /\ ConfigInv /\ [Next]_vars => ConfigInv'
<1> SUFFICES ASSUME TypeOK, ControlInv, ConfigInv, [Next]_vars
             PROVE  ConfigInv'
  OBVIOUS
<1> USE DEF ConfigInv, ControlInv, Goto, fatal, Panic, End, FirmwareError, Steps, Lookups, Parsed, InitrdDone, KernelDone, Running, input, initrdVars, kernelVars, setupVars
<1>1. CASE Lookup
  BY <1>1 DEF Lookup, NextLookup
<1>2. CASE Unbound
  BY <1>2 DEF Unbound
<1>3. CASE ReadConfig
  <2>1. cfg \in Configs
    BY DEF TypeOK
  <2>2. cfg.kernelLength \in 0..MaxLen \cup {NaN} /\ cfg.initrdLength \in 0..MaxLen \cup {NaN}
    BY <2>1, Stub2Assumptions, FilesAssumptions
  <2> QED
    BY <1>3, <2>2 DEF ReadConfig, ConfigPanics, ConfigInvalid, IsNumber
<1>4. CASE AllocInitrd
  BY <1>4 DEF AllocInitrd
<1>5. CASE LoadInitrd
  BY <1>5 DEF LoadInitrd, Loaded, Stale, Prefix, Min
<1>6. CASE CheckInitrd
  BY <1>6 DEF CheckInitrd, ShaOK
<1>7. CASE AllocKernel
  BY <1>7 DEF AllocKernel
<1>8. CASE LoadKernel
  BY <1>8 DEF LoadKernel, Loaded, Prefix, Min
<1>9. CASE CheckKernel
  BY <1>9 DEF CheckKernel, ShaOK
<1>10. CASE CheckHeader
  BY <1>10 DEF CheckHeader
<1>11. CASE AllocSetup
  BY <1>11 DEF AllocSetup, FitsU32
<1>12. CASE AllocPool
  BY <1>12 DEF AllocPool, FitsU32
<1>13. CASE Handover
  BY <1>13 DEF Handover, FitsU32
<1>14. CASE KernelReturns
  BY <1>14 DEF KernelReturns
<1>15. CASE UNCHANGED vars
  BY <1>15 DEF vars
<1> QED
  BY <1>1, <1>2, <1>3, <1>4, <1>5, <1>6, <1>7, <1>8,
     <1>9, <1>10, <1>11, <1>12, <1>13, <1>14, <1>15 DEF Next

\* Nothing touches the initrd between checkSha and the handover.
LEMMA InitrdStep == TypeOK /\ ControlInv /\ ConfigInv /\ InitrdInv /\ [Next]_vars => InitrdInv'
<1> SUFFICES ASSUME TypeOK, ControlInv, ConfigInv, InitrdInv, [Next]_vars
             PROVE  InitrdInv'
  OBVIOUS
<1> USE DEF InitrdInv, ControlInv, ConfigInv, NoBytes, Goto, fatal, Panic, End, FirmwareError, Steps, Lookups, Parsed, InitrdDone, KernelDone, Running, input, initrdVars, kernelVars, setupVars
<1>1. CASE Lookup
  BY <1>1 DEF Lookup, NextLookup
<1>2. CASE Unbound
  BY <1>2 DEF Unbound
<1>3. CASE ReadConfig
  <2>1. cfg.initrdLength \in 0..MaxLen \cup {NaN}
    BY Stub2Assumptions, FilesAssumptions DEF TypeOK
  <2> QED
    BY <1>3, <2>1 DEF ReadConfig, ConfigPanics, ConfigInvalid, IsNumber
<1>4. CASE AllocInitrd
  BY <1>4 DEF AllocInitrd
<1>5. CASE LoadInitrd
  BY <1>5 DEF LoadInitrd, Loaded, Stale, Prefix, Min
<1>6. CASE CheckInitrd
  BY <1>6 DEF CheckInitrd, ShaOK
<1>7. CASE AllocKernel
  BY <1>7 DEF AllocKernel
<1>8. CASE LoadKernel
  BY <1>8 DEF LoadKernel, Loaded, Prefix, Min
<1>9. CASE CheckKernel
  BY <1>9 DEF CheckKernel, ShaOK
<1>10. CASE CheckHeader
  BY <1>10 DEF CheckHeader
<1>11. CASE AllocSetup
  BY <1>11 DEF AllocSetup, FitsU32
<1>12. CASE AllocPool
  BY <1>12 DEF AllocPool, FitsU32
<1>13. CASE Handover
  BY <1>13 DEF Handover, FitsU32
<1>14. CASE KernelReturns
  BY <1>14 DEF KernelReturns
<1>15. CASE UNCHANGED vars
  BY <1>15 DEF vars
<1> QED
  BY <1>1, <1>2, <1>3, <1>4, <1>5, <1>6, <1>7, <1>8,
     <1>9, <1>10, <1>11, <1>12, <1>13, <1>14, <1>15 DEF Next

\* Nothing touches the kernel between checkSha and the handover.
LEMMA KernelStep == TypeOK /\ ControlInv /\ KernelInv /\ [Next]_vars => KernelInv'
<1> SUFFICES ASSUME TypeOK, ControlInv, KernelInv, [Next]_vars
             PROVE  KernelInv'
  OBVIOUS
<1> USE DEF KernelInv, ControlInv, Goto, fatal, Panic, End, FirmwareError, Steps, Lookups, Parsed, InitrdDone, KernelDone, Running, input, initrdVars, kernelVars, setupVars
<1>1. CASE Lookup
  BY <1>1 DEF Lookup, NextLookup
<1>2. CASE Unbound
  BY <1>2 DEF Unbound
<1>3. CASE ReadConfig
  BY <1>3 DEF ReadConfig, ConfigPanics, ConfigInvalid, IsNumber
<1>4. CASE AllocInitrd
  BY <1>4 DEF AllocInitrd
<1>5. CASE LoadInitrd
  BY <1>5 DEF LoadInitrd, Loaded, Stale, Prefix, Min
<1>6. CASE CheckInitrd
  BY <1>6 DEF CheckInitrd, ShaOK
<1>7. CASE AllocKernel
  BY <1>7 DEF AllocKernel
<1>8. CASE LoadKernel
  <2>1. esp.kernel \in Blobs \cup {NoBlob}
    BY DEF TypeOK
  <2> QED
    BY <1>8, <2>1 DEF LoadKernel, Loaded, Prefix, Min
<1>9. CASE CheckKernel
  BY <1>9 DEF CheckKernel, ShaOK
<1>10. CASE CheckHeader
  BY <1>10 DEF CheckHeader
<1>11. CASE AllocSetup
  BY <1>11 DEF AllocSetup, FitsU32
<1>12. CASE AllocPool
  BY <1>12 DEF AllocPool, FitsU32
<1>13. CASE Handover
  BY <1>13 DEF Handover, FitsU32
<1>14. CASE KernelReturns
  BY <1>14 DEF KernelReturns
<1>15. CASE UNCHANGED vars
  BY <1>15 DEF vars
<1> QED
  BY <1>1, <1>2, <1>3, <1>4, <1>5, <1>6, <1>7, <1>8,
     <1>9, <1>10, <1>11, <1>12, <1>13, <1>14, <1>15 DEF Next

\* A buffer is allocated for the length that loadFile is then given.
LEMMA BoundsStep == TypeOK /\ ConfigInv /\ InitrdInv /\ KernelInv /\ BoundsInv /\ [Next]_vars => BoundsInv'
<1> SUFFICES ASSUME TypeOK, ConfigInv, InitrdInv, KernelInv, BoundsInv, [Next]_vars
             PROVE  BoundsInv'
  OBVIOUS
<1> USE DEF TypeOK, BoundsInv, Bufs, Goto, fatal, Panic, End, FirmwareError, Steps, Lookups, Parsed, InitrdDone, KernelDone, Running, input, initrdVars, kernelVars, setupVars
<1>1. CASE Lookup
  BY <1>1 DEF Lookup, NextLookup
<1>2. CASE Unbound
  BY <1>2 DEF Unbound
<1>3. CASE ReadConfig
  BY <1>3 DEF ReadConfig, ConfigPanics, ConfigInvalid, IsNumber
<1>4. CASE AllocInitrd
  <2> DEFINE size == pages_needed(initrdLen) * PageSize
  <2>1. initrdLen \in Nat /\ MemTop \in Nat /\ PageSize \in Nat
    BY Stub2Assumptions, FilesAssumptions
  <2>2. size \in Nat /\ initrdLen <= size
    BY <2>1, PagesCover
  <2>3. \A a \in FreeBelow(MemTop, size) : a + size <= MemTop
    BY <2>1, <2>2, FreeBelowInMemory
  <2>4. initrdBytes.len = 0
    BY <1>4 DEF AllocInitrd, InitrdInv, NoBytes
  <2> HIDE DEF size
  <2> QED
    BY <1>4, <2>1, <2>2, <2>3, <2>4 DEF AllocInitrd, size
<1>5. CASE LoadInitrd
  <2>1. \A b \in Blobs : BlobLen[b] \in Nat
    BY Stub2Assumptions, FilesAssumptions
  <2>2. initrdLen \in Nat /\ esp.initrd \in Blobs \cup {NoBlob}
    BY Stub2Assumptions, FilesAssumptions
  <2>3. initrdBytes'.len <= initrdLen
    BY <1>5, <2>1, <2>2 DEF LoadInitrd, Loaded, Stale, Prefix, Min
  <2>4. initrdBytes'.len \in Nat
    BY <1>5, <2>1, <2>2 DEF LoadInitrd, Loaded, Stale, Prefix, Min
  <2> QED
    BY <1>5, <2>2, <2>3, <2>4 DEF LoadInitrd
<1>6. CASE CheckInitrd
  BY <1>6 DEF CheckInitrd, ShaOK
<1>7. CASE AllocKernel
  <2> DEFINE size == pages_needed(cfg.kernelLength) * PageSize
  <2>1. cfg.kernelLength \in Nat
    BY <1>7, Stub2Assumptions, FilesAssumptions DEF AllocKernel, ConfigInv
  <2>2. /\ size \in Nat /\ HeaderSize \in Nat
        /\ cfg.kernelLength <= size /\ HeaderSize <= size
    BY <2>1, PagesCover, Stub2Assumptions, FilesAssumptions
  <2>3. kernelBytes.len = 0
    BY <1>7 DEF AllocKernel, KernelInv, NoBytes
  <2> HIDE DEF size
  <2> QED
    BY <1>7, <2>1, <2>2, <2>3 DEF AllocKernel, size
<1>8. CASE LoadKernel
  <2>1. \A b \in Blobs : BlobLen[b] \in Nat
    BY Stub2Assumptions, FilesAssumptions
  <2>2. rdKernelLen \in Nat /\ esp.kernel \in Blobs \cup {NoBlob}
    BY Stub2Assumptions, FilesAssumptions
  <2>3. CASE UNCHANGED kernelBytes
    BY <1>8, <2>3 DEF LoadKernel
  <2>4. CASE esp.kernel # NoBlob /\ kernelBytes' = Loaded(esp.kernel, rdKernelLen)
    <3>1. kernelBytes'.len \in Nat /\ kernelBytes'.len <= rdKernelLen
      BY <2>1, <2>2, <2>4 DEF Loaded, Prefix, Min
    <3> QED
      BY <1>8, <2>2, <3>1 DEF LoadKernel
  <2> QED
    BY <1>8, <2>3, <2>4 DEF LoadKernel
<1>9. CASE CheckKernel
  BY <1>9 DEF CheckKernel, ShaOK
<1>10. CASE CheckHeader
  BY <1>10 DEF CheckHeader
<1>11. CASE AllocSetup
  BY <1>11 DEF AllocSetup, FitsU32
<1>12. CASE AllocPool
  BY <1>12 DEF AllocPool
<1>13. CASE Handover
  BY <1>13 DEF Handover, FitsU32
<1>14. CASE KernelReturns
  BY <1>14 DEF KernelReturns
<1>15. CASE UNCHANGED vars
  BY <1>15 DEF vars
<1> QED
  BY <1>1, <1>2, <1>3, <1>4, <1>5, <1>6, <1>7, <1>8,
     <1>9, <1>10, <1>11, <1>12, <1>13, <1>14, <1>15 DEF Next

\* The setup block keeps the addresses it was given.
LEMMA SetupStep == TypeOK /\ ControlInv /\ SetupInv /\ [Next]_vars => SetupInv'
<1> SUFFICES ASSUME TypeOK, ControlInv, SetupInv, [Next]_vars
             PROVE  SetupInv'
  OBVIOUS
<1> USE DEF SetupInv, ControlInv, Goto, fatal, Panic, End, FirmwareError, Steps, Lookups, Parsed, InitrdDone, KernelDone, Running, input, initrdVars, kernelVars, setupVars
<1>1. CASE Lookup
  BY <1>1 DEF Lookup, NextLookup
<1>2. CASE Unbound
  BY <1>2 DEF Unbound
<1>3. CASE ReadConfig
  BY <1>3 DEF ReadConfig, ConfigPanics, ConfigInvalid, IsNumber
<1>4. CASE AllocInitrd
  BY <1>4 DEF AllocInitrd
<1>5. CASE LoadInitrd
  BY <1>5 DEF LoadInitrd, Loaded, Stale, Prefix, Min
<1>6. CASE CheckInitrd
  BY <1>6 DEF CheckInitrd, ShaOK
<1>7. CASE AllocKernel
  BY <1>7 DEF AllocKernel
<1>8. CASE LoadKernel
  BY <1>8 DEF LoadKernel, Loaded, Prefix, Min
<1>9. CASE CheckKernel
  BY <1>9 DEF CheckKernel, ShaOK
<1>10. CASE CheckHeader
  BY <1>10 DEF CheckHeader
<1>11. CASE AllocSetup
  <2>2. pc' \in {"allocPool", "end"} /\ (pc' = "allocPool" =>
          /\ FitsU32(kernelBuf.addr + hdr.setup)
          /\ bootSetup'.code32_start = kernelBuf.addr + hdr.setup)
    BY <1>11 DEF AllocSetup, NoSetup
  <2>3. UNCHANGED <<kernelBuf, hdr, started>>
    BY <1>11 DEF AllocSetup
  <2>4. ~started
    BY <1>11 DEF AllocSetup
  <2> QED
    BY <2>2, <2>3, <2>4 DEF FitsU32
<1>12. CASE AllocPool
  <2>1. \A p \in FreeBelow(MemTop, 2 * cfg.cmdLen) : p \in Nat
    BY Stub2Assumptions, FilesAssumptions, FreeBelowInMemory DEF TypeOK
  <2>2. FourG \in Nat /\ initrdLen \in Nat
    BY Stub2Assumptions, FilesAssumptions DEF TypeOK
  <2> QED
    BY <1>12, <2>1, <2>2 DEF AllocPool, FitsU32
<1>13. CASE Handover
  BY <1>13 DEF Handover, FitsU32
<1>14. CASE KernelReturns
  BY <1>14 DEF KernelReturns
<1>15. CASE UNCHANGED vars
  BY <1>15 DEF vars
<1> QED
  BY <1>1, <1>2, <1>3, <1>4, <1>5, <1>6, <1>7, <1>8,
     <1>9, <1>10, <1>11, <1>12, <1>13, <1>14, <1>15 DEF Next

\* The initial state of the stub satisfies the invariant.
LEMMA InitInv == Init => TypeOK /\ IInv
<1> SUFFICES ASSUME Init
             PROVE  TypeOK /\ IInv
  OBVIOUS
<1> USE DEF Init
<1>1. TypeOK
  <2>1. 0 \in 0..MaxLen
    BY Stub2Assumptions, FilesAssumptions
  <2>2. NoBytes \in Bytes
    BY <2>1 DEF NoBytes, Bytes
  <2>3. NoBuf \in Bufs
    BY DEF NoBuf, Bufs
  <2> QED
    BY <2>1, <2>2, <2>3 DEF TypeOK, Steps, Lookups, NoSetup
<1>2. ControlInv /\ ConfigInv /\ InitrdInv /\ KernelInv /\ SetupInv
  BY DEF ControlInv, BoundFailureReported, FailureReported, ConfigInv, InitrdInv, KernelInv,
         SetupInv, Steps, Lookups, Parsed, InitrdDone, KernelDone, Running, NoBytes
<1>3. BoundsInv
  <2>1. MemTop \in Nat
    BY Stub2Assumptions, FilesAssumptions
  <2> QED
    BY <2>1 DEF BoundsInv, NoBytes, NoBuf, NoHeader, Parsed, InitrdDone, KernelDone
<1> QED
  BY <1>1, <1>2, <1>3 DEF IInv

\* The invariant holds in every state of the stub.
THEOREM Invariance == Spec => [](TypeOK /\ IInv)
<1>1. TypeOK /\ IInv /\ [Next]_vars => (TypeOK /\ IInv)'
  BY TypeStep, ControlStep, ConfigStep, InitrdStep, KernelStep, BoundsStep, SetupStep DEF IInv
<1> QED
  BY <1>1, InitInv, PTL DEF Spec

-----------------------------------------------------------------------------
(***************************************************************************)
(* What the stub guarantees                                                *)
(***************************************************************************)
\* Types: every variable of the stub keeps its type.
THEOREM TypeCorrect == Spec => []TypeOK
BY Invariance, PTL

\* The kernel gets control only after both digests were checked, and the initrd
\* it is told about is the one that was hashed.
THEOREM HandoverIsVerified == Spec => []HandoverVerified
<1>1. TypeOK /\ IInv => HandoverVerified
  <2> SUFFICES ASSUME TypeOK, IInv, started
               PROVE  /\ Sha(kernelBytes) = cfg.kernelSha
                      /\ bootSetup.ramdisk_len = initrdBytes.len
                      /\ cfg.initrdLength # 0 => Sha(initrdBytes) = cfg.initrdSha
                      /\ cfg.initrdLength = 0 => bootSetup.ramdisk_len = 0
    BY DEF HandoverVerified
  <2> QED
    BY DEF IInv, InitrdInv, KernelInv, SetupInv, NoBytes
<1> QED
  BY <1>1, Invariance, PTL

\* Under a configuration of the signer nothing is missing at the handover; this
\* is where the collision freedom of the digest is used.
THEOREM HandoverIsComplete == Spec => []HandoverComplete
<1>1. TypeOK /\ IInv => HandoverComplete
  <2> SUFFICES ASSUME TypeOK, IInv, started, WellBound(cfg)
               PROVE  /\ kernelBytes.len = cfg.kernelLength
                      /\ bootSetup.ramdisk_len = cfg.initrdLength
    BY DEF HandoverComplete
  <2>1. \A b \in Blobs : Full(b) \in Bytes /\ Full(b).len = BlobLen[b]
    BY Stub2Assumptions, FilesAssumptions DEF Full, Prefix, Bytes
  <2>2. kernelBytes \in Bytes /\ initrdBytes \in Bytes
    BY DEF TypeOK
  <2>3. kernelBytes.len = cfg.kernelLength
    <3>1. PICK k \in Blobs : cfg.kernelLength = BlobLen[k] /\ cfg.kernelSha = Sha(Full(k))
      BY DEF WellBound
    <3>2. Sha(kernelBytes) = Sha(Full(k))
      BY <3>1 DEF IInv, KernelInv
    <3> QED
      BY <2>1, <2>2, <3>1, <3>2, ShaInjective
  <2>4. bootSetup.ramdisk_len = initrdBytes.len
    BY DEF IInv, SetupInv, InitrdInv
  <2>5. CASE cfg.initrdLength = 0
    BY <2>3, <2>4, <2>5 DEF IInv, InitrdInv, NoBytes
  <2>6. CASE cfg.initrdLength # 0
    <3>1. PICK i \in Blobs : cfg.initrdLength = BlobLen[i] /\ cfg.initrdSha = Sha(Full(i))
      BY <2>6 DEF WellBound
    <3>2. Sha(initrdBytes) = Sha(Full(i))
      BY <2>6, <3>1 DEF IInv, InitrdInv
    <3> QED
      BY <2>1, <2>2, <2>3, <2>4, <3>1, <3>2, ShaInjective
  <2> QED
    BY <2>5, <2>6
<1> QED
  BY <1>1, Invariance, PTL

\* All reads and writes stay inside the allocations of pages_needed.
THEOREM AccessesAreInBounds == Spec => []AccessesInBounds
<1>1. IInv => AccessesInBounds
  BY DEF IInv, BoundsInv, AccessesInBounds
<1> QED
  BY <1>1, Invariance, PTL

\* No address is truncated to 32 bits.
THEOREM HandoverPointersExact == Spec => []HandoverPointers
<1>1. TypeOK /\ IInv => HandoverPointers
  <2> SUFFICES ASSUME TypeOK, IInv, started
               PROVE  /\ bootSetup.code32_start = kernelBuf.addr + hdr.setup
                      /\ bootSetup.code32_start < FourG
                      /\ bootSetup.ramdisk_len > 0 => bootSetup.ramdisk_start = initrdBuf.addr
                      /\ bootSetup.ramdisk_start + bootSetup.ramdisk_len <= MemTop
                      /\ bootSetup.ramdisk_start < FourG /\ bootSetup.cmd_line_ptr < FourG
    BY DEF HandoverPointers
  <2>1. initrdBuf.addr \in Nat /\ initrdBuf.size \in Nat /\ initrdLen \in Nat /\ MemTop \in Nat
    BY Stub2Assumptions, FilesAssumptions DEF TypeOK, Bufs
  <2>2. initrdLen <= initrdBuf.size /\ initrdBuf.addr + initrdBuf.size <= MemTop
    BY DEF IInv, BoundsInv, InitrdInv
  <2> QED
    BY <2>1, <2>2 DEF IInv, SetupInv
<1> QED
  BY <1>1, Invariance, PTL

\* A stub that carries a configuration never reports a failed boot as a success.
THEOREM BoundFailureIsReported == Spec => []BoundFailureReported
<1>1. IInv => BoundFailureReported
  BY DEF IInv, ControlInv
<1> QED
  BY <1>1, Invariance, PTL

(***************************************************************************)
(* Refinement: the stub is a verified boot.                                *)
(***************************************************************************)
\* A step of the stub is a step of VerifiedBoot, or changes nothing it sees.
LEMMA RefinementStep == TypeOK /\ IInv /\ [Next]_vars => [VB!ANext]_VB!avars
<1> SUFFICES ASSUME TypeOK, IInv, [Next]_vars
             PROVE  [VB!ANext]_VB!avars
  OBVIOUS
<1> USE DEF VB!ANext, VB!avars, Phase, Ran
<1> DEFINE Quiet == UNCHANGED <<cfg, started>>
<1>1. ASSUME Quiet, ~started, outcome = "running"
      PROVE  [VB!ANext]_VB!avars
  BY <1>1 DEF VB!Refuse
<1>2. ASSUME pc \in Running, Quiet
      PROVE  [VB!ANext]_VB!avars
  BY <1>1, <1>2 DEF IInv, ControlInv
<1>3. CASE Handover
  <2>1. CASE started'
    <3>1. /\ Phase = "deciding" /\ Phase' = "started"
          /\ UNCHANGED <<cfg, initrdBytes, kernelBytes>>
      BY <1>3, <2>1 DEF Handover, IInv, ControlInv, Running, Steps, Lookups, input, initrdVars, kernelVars
    <3>2. Names(cfg, kernelBytes, initrdBytes)
      BY <1>3 DEF Handover, IInv, InitrdInv, KernelInv, KernelDone, InitrdDone, Parsed, Names
    <3>3. Ran' = [kernel |-> kernelBytes, initrd |-> initrdBytes]
      BY <2>1, <3>1
    <3>4. kernelBytes \in Bytes /\ initrdBytes \in Bytes
      BY DEF TypeOK
    <3> QED
      BY <3>1, <3>2, <3>3, <3>4 DEF VB!Start
  <2>2. CASE ~started'
    BY <1>2, <1>3, <2>2 DEF Handover, IInv, ControlInv, Running, Steps, Lookups, input
  <2> QED
    BY <2>1, <2>2
<1>4. CASE KernelReturns
  BY <1>4 DEF KernelReturns, fatal, End, IInv, ControlInv, input, initrdVars, kernelVars
<1>5. CASE UNCHANGED vars
  BY <1>5 DEF vars
<1>6. CASE Lookup \/ Unbound \/ ReadConfig \/ CheckInitrd \/ CheckKernel
  BY <1>2, <1>6 DEF Lookup, Unbound, ReadConfig, CheckInitrd, CheckKernel, Running, Steps, Lookups, input
<1>7. CASE AllocInitrd \/ LoadInitrd \/ AllocKernel \/ LoadKernel
  BY <1>2, <1>7 DEF AllocInitrd, LoadInitrd, AllocKernel, LoadKernel, Running, Steps, Lookups, input
<1>8. CASE CheckHeader \/ AllocSetup \/ AllocPool
  BY <1>2, <1>8 DEF CheckHeader, AllocSetup, AllocPool, Running, Steps, Lookups, input
<1> QED
  BY <1>3, <1>4, <1>5, <1>6, <1>7, <1>8 DEF Next

\* The stub decides once, and starts only what its configuration names (the
\* safety part of ImplementsVerifiedBoot; that it decides is checked by TLC).
THEOREM StubImplementsVerifiedBoot == Spec => VB!ASafety
<1>1. Init => VB!AInit
  BY DEF Init, VB!AInit, VB!Nothing, Phase, Ran
<1> QED
  BY <1>1, RefinementStep, Invariance, PTL DEF Spec, VB!ASafety
=============================================================================
