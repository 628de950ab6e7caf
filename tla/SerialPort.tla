----------------------------- MODULE SerialPort -----------------------------
(***************************************************************************)
(* SerialPort of uefi/serial_io_protocol.go: Init, Read, Write and          *)
(* UseFlowControl of one port by two goroutines, a reader and a writer.     *)
(* The runtime has one thread and no preemption: the processor goes to the  *)
(* other goroutine only between calls.  The port is external: bytes arrive, *)
(* the other side moves CTS, and a read of the firmware ends with success,  *)
(* a time-out or another error, having taken some of the bytes.             *)
(***************************************************************************)
EXTENDS Integers

CONSTANTS
  BufLen,       \* len(buf) of the reads and of the writes
  MaxBytes      \* bound: bytes that arrive, and bytes that are sent

PortSizes == BufLen \in Nat \ {0} /\ MaxBytes \in Nat

ASSUME SerialAssumptions == PortSizes

VARIABLES
  running,      \* the goroutine that has the processor
  rpc, wpc,
  flowControl,
  control,      \* the output bits of the port: RTS, DTR and LOOP (loopback)
  controlBits,  \* of Read
  cts,          \* the input bit CLEAR_TO_SEND
  fifo,         \* bytes that have arrived and were not taken
  status, bufLen,    \* of the firmware's read
  arrived,
  delivered,    \* history: bytes that Read returned
  dropped,      \* history: bytes taken by firmware reads that failed, and by Reset
  during,       \* the call a Write is part of: "Init" or "Write"
  sent,
  seenCTS       \* history: CTS was set at some moment of this Write

portVars == <<running, rpc, wpc, flowControl, control, controlBits, cts, fifo, status, bufLen,
          arrived, delivered, dropped, during, sent, seenCTS>>
reading == <<rpc, control, controlBits, status, bufLen, fifo, delivered, dropped>>
writing == <<wpc, during, sent>>
port == <<cts, arrived, seenCTS>>

Outputs == {"RTS", "DTR", "LOOP"}
Statuses == {"success", "timeout", "error"}
Losses == Statuses \cup {"reset"}

PortInit ==
  /\ running \in {"reader", "writer"}
  /\ rpc = "idle" /\ wpc = "idle"
  /\ flowControl = FALSE
  /\ control \in SUBSET Outputs /\ controlBits = {} /\ cts \in BOOLEAN
  /\ fifo = 0 /\ status = "success" /\ bufLen = 0
  /\ arrived = 0 /\ delivered = 0 /\ dropped = [s \in Losses |-> 0]
  /\ during = "Write" /\ sent = 0 /\ seenCTS = FALSE

(***************************************************************************)
(* The other side of the line (external).                                  *)
(***************************************************************************)
Arrive ==
  /\ arrived < MaxBytes
  /\ arrived' = arrived + 1 /\ fifo' = fifo + 1
  /\ UNCHANGED <<running, rpc, control, controlBits, status, bufLen, delivered, dropped,
                 writing, flowControl, cts, seenCTS>>

MoveCTS ==
  /\ cts' = ~cts
  /\ seenCTS' = (seenCTS \/ cts')
  /\ UNCHANGED <<running, flowControl, reading, writing, arrived>>

\* The goroutine that runs blocks between two calls.
Switch ==
  /\ \/ running = "reader" /\ rpc = "idle" /\ running' = "writer"
     \/ running = "writer" /\ wpc = "idle" /\ running' = "reader"
  /\ UNCHANGED <<flowControl, reading, writing, port>>

(***************************************************************************)
(* Read                                                                    *)
(***************************************************************************)
\* Mutant: the length is set before the loop, and the firmware has made it 0.
GetControl_LenOnce ==
  /\ running = "reader" /\ rpc \in {"idle", "loop"}
  /\ controlBits' = control
  /\ bufLen' = IF rpc = "idle" THEN BufLen ELSE bufLen
  /\ rpc' = "assert"
  /\ UNCHANGED <<running, flowControl, control, status, fifo, delivered, dropped, writing,
                 port>>

\* The call, and the top of its loop: the control bits, and the length, once more.  The
\* input bits that SetControl is given back, and the failures of both calls, which nobody
\* looks at, are left out.
GetControl ==
  /\ running = "reader" /\ rpc \in {"idle", "loop"}
  /\ controlBits' = control
  /\ bufLen' = BufLen
  /\ rpc' = "assert"
  /\ UNCHANGED <<running, flowControl, control, status, fifo, delivered, dropped, writing,
                 port>>

AssertRTS ==
  /\ running = "reader" /\ rpc = "assert"
  /\ control' = controlBits \cup {"RTS", "DTR"}
  /\ rpc' = "read"
  /\ UNCHANGED <<running, flowControl, controlBits, status, bufLen, fifo, delivered,
                 dropped, writing, port>>

\* Mutant: a single byte is taken for none.
Effective_One(s, n) == IF n <= 1 THEN "timeout" ELSE s

\* No byte is a time-out, whatever the status.
Effective(s, n) == IF n = 0 THEN "timeout" ELSE s

\* The firmware's read fills the buffer, or gives up before with what there was.
FirmwareRead ==
  /\ running = "reader" /\ rpc = "read"
  /\ \E n \in 0..bufLen, s \in Statuses :
       /\ n <= fifo
       /\ s = "success" => n = bufLen \/ n = fifo
       /\ bufLen' = n
       /\ fifo' = fifo - n
       /\ status' = Effective(s, n)
       /\ dropped' = [dropped EXCEPT ![s] = IF s = "success" THEN 0 ELSE @ + n]
  /\ rpc' = "switch"
  /\ UNCHANGED <<running, flowControl, control, controlBits, delivered, writing, port>>

\* switch status: the bytes are returned; or RTS is cleared and the loop goes on (the
\* call of gosched is commented out); or the error is returned.
ReadResult ==
  /\ running = "reader" /\ rpc = "switch"
  /\ \/ /\ status = "success"
        /\ delivered' = delivered + bufLen
        /\ rpc' = "idle" /\ UNCHANGED control
     \/ /\ status = "timeout"
        /\ control' = controlBits \ {"RTS"}
        /\ rpc' = "loop" /\ UNCHANGED delivered
     \/ /\ status = "error"
        /\ rpc' = "idle" /\ UNCHANGED <<control, delivered>>
  /\ UNCHANGED <<running, flowControl, controlBits, status, bufLen, fifo, dropped, writing,
                 port>>

(***************************************************************************)
(* Write                                                                   *)
(***************************************************************************)
\* Init resets the port, which may lose what has arrived, and returns if that fails.
Reset ==
  /\ running = "writer" /\ wpc = "idle"
  /\ wpc' \in {"idle", "kick"}
  /\ fifo' \in {0, fifo}
  /\ dropped' = [dropped EXCEPT !["reset"] = @ + fifo - fifo']
  /\ UNCHANGED <<running, flowControl, rpc, control, controlBits, status, bufLen, delivered,
                 during, sent, port>>

\* A Write of one byte, whose result Init does not look at, or that of the program.
Caller == IF wpc = "kick" THEN "Init" ELSE "Write"
Written(caller) == IF caller = "Init" THEN "attributes" ELSE "idle"

\* Mutant: flow control is not asked for.
StartWrite_Always ==
  /\ running = "writer" /\ (wpc = "kick" \/ (wpc = "idle" /\ sent < MaxBytes))
  /\ during' = Caller
  /\ wpc' = "write"
  /\ seenCTS' = cts
  /\ UNCHANGED <<running, flowControl, reading, sent, cts, arrived>>

\* The control bits are read; with flow control and without CTS nothing is written.
StartWrite ==
  /\ running = "writer" /\ (wpc = "kick" \/ (wpc = "idle" /\ sent < MaxBytes))
  /\ during' = Caller
  /\ wpc' = IF flowControl /\ ~cts THEN Written(during') ELSE "write"
  /\ seenCTS' = cts
  /\ UNCHANGED <<running, flowControl, reading, sent, cts, arrived>>

\* The firmware writes some of the bytes, with or without an error.
FirmwareWrite ==
  /\ running = "writer" /\ wpc = "write"
  /\ \E n \in 0..IF during = "Init" THEN 1 ELSE BufLen :
       sent' = IF sent + n > MaxBytes THEN MaxBytes ELSE sent + n
  /\ wpc' = Written(during)
  /\ UNCHANGED <<running, flowControl, reading, during, port>>

\* The end of Init: the speed and the format of the line, with or without an error.
SetAttributes ==
  /\ running = "writer" /\ wpc = "attributes"
  /\ wpc' = "idle"
  /\ UNCHANGED <<running, flowControl, reading, during, sent, port>>

UseFlowControl ==
  /\ running = "writer" /\ wpc = "idle"
  /\ flowControl' \in BOOLEAN
  /\ UNCHANGED <<running, reading, writing, port>>

Read == GetControl \/ AssertRTS \/ FirmwareRead \/ ReadResult
Write == Reset \/ StartWrite \/ FirmwareWrite \/ SetAttributes

PortNext == Arrive \/ MoveCTS \/ Switch \/ Read \/ Write \/ UseFlowControl

\* A goroutine in a call runs on, and one that is between calls blocks in the end.  The
\* firmware's reads do not all fail while bytes are waiting.
PortSpec == PortInit /\ [][PortNext]_portVars
PortFairSpec ==
  /\ PortSpec
  /\ WF_portVars(rpc # "idle" /\ Read) /\ WF_portVars(wpc # "idle" /\ Write) /\ SF_portVars(Switch)
  /\ SF_portVars(FirmwareRead /\ status' = "success")
-----------------------------------------------------------------------------
\* Types.
PortTypeOK ==
  /\ rpc \in {"idle", "loop", "assert", "read", "switch"}
  /\ wpc \in {"idle", "kick", "write", "attributes"}
  /\ control \subseteq Outputs /\ controlBits \subseteq Outputs
  /\ bufLen \in 0..BufLen /\ fifo \in Nat
  /\ status \in Statuses /\ dropped \in [Losses -> 0..MaxBytes]
  /\ arrived \in 0..MaxBytes /\ delivered \in 0..MaxBytes /\ sent \in 0..MaxBytes

\* As long as every firmware read that took bytes was a success, and no Reset took any,
\* each byte that was taken from the port is returned by Read, or about to be.
NoByteLostButPartial ==
  (\A s \in Losses : dropped[s] = 0) =>
    arrived = fifo + delivered + IF rpc = "switch" /\ status = "success" THEN bufLen ELSE 0

\* A Read that never returns, and so keeps the processor for ever, does so on a silent
\* line only: no byte is left waiting, over all time-outs and all turns of the loop.
StarvesOnlyOnSilence == <>[](rpc # "idle") => <>[](fifo = 0)

\* With flow control nothing is sent in a Write, that of Init too, during which CTS was
\* never set.
CTSRespected == [][sent' # sent /\ flowControl => seenCTS]_portVars

-----------------------------------------------------------------------------
\* What the repository says and the code does not do: each statement is false in this
\* specification, as TLC shows when it stands in the configuration (see README).

\* "Read implements io.Reader.  Reads are blocking operations" (serial_io_protocol.go:
\* 221): a read that timed out half way loses no byte; a call that returns, with no
\* firmware read having failed, has returned all that was taken.
NoByteLost == rpc = "idle" /\ dropped["error"] = 0 /\ dropped["reset"] = 0
                => arrived = fifo + delivered

\* "if the read operation times out, this method yields to other goroutines"
\* (serial_io_protocol.go:221-222).
Yields == (rpc = "loop") ~> (running = "writer")
=============================================================================
