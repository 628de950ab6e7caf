------------------------------ MODULE Console ------------------------------
(***************************************************************************)
(* The console of the recovery shell: Read, Write and Output of            *)
(* ueficore/console.go as Services.Init of ueficore/uefi.go sets them up,  *)
(* and printk of x64/console.go.  The shell (external) is one goroutine:   *)
(* it reads into a buffer of one size again and again, and writes texts in *)
(* between.  Keys are pressed at any moment.                               *)
(*                                                                         *)
(* A byte, a UTF-16 unit and a rune are numbers.  The runtime zeroes what  *)
(* append leaves free behind a slice; what is behind its capacity is       *)
(* unknown, and OutputString reads on up to the first unit that is zero.   *)
(***************************************************************************)
EXTENDS Integers, Sequences, SequencesExt

CONSTANTS
  Texts,          \* bound: the texts written, sequences of runes
  Keys,           \* keys: records of a ScanCode and a UnicodeChar
  MaxKeys,        \* bound: keys pressed
  MaxErrors,      \* bound: device errors of the keyboard
  BufLens,        \* sizes of the shell's buffer
  ForceLine, ReplaceTabs,  \* of Services.Init: TRUE and 8
  Capacities      \* the runtime grows a slice of bytes to 8, 16, 32, ... (external)

bs == 8
tab == 9
lf == 10
cr == 13
space == 32
cub == <<27, 91, 68, 32, 27, 91, 68>>
Unknown == -1                      \* what the firmware shows of unknown memory

KeyParameters ==
  /\ MaxKeys \in Nat /\ MaxErrors \in Nat /\ BufLens \subseteq Nat \ {0}
  /\ \A k \in Keys : /\ k.ScanCode \in Nat /\ k.ScanCode < 65536
                     /\ k.UnicodeChar \in Nat /\ k.UnicodeChar < 65536
TextParameters ==
  /\ \A t \in Texts : t \in Seq(Nat) /\ \A i \in 1..Len(t) : 0 < t[i] /\ t[i] < 1114112
  /\ cub \in Texts /\ ReplaceTabs \in Nat /\ ForceLine \in BOOLEAN
  /\ \A c \in Capacities : c \in Nat /\ c >= 8 /\ c % 2 = 0

ASSUME ConsoleAssumptions == KeyParameters /\ TextParameters

VARIABLES
  In, Out,        \* the firmware has a keyboard, a display
  bufLen,         \* len(p) of the reads
  stage,
  keys,           \* pressed and not yet read
  n, p,           \* of Read: the count, and the bytes in the buffer
  errors,
  pressed,        \* history: the codes of the keys pressed
  delivered,      \* history: the bytes Read returned
  returned,       \* the count of the last Read or Write, and of what it was asked
  text, shown,    \* the last text written, and the units displayed for it
  tabs            \* ReplaceTabs of the console that wrote it

consoleVars == <<In, Out, bufLen, stage, keys, n, p, errors, pressed, delivered, returned,
                 text, shown, tabs>>
keyboard == <<keys, n, p, errors, pressed, delivered>>
writing == <<text, shown, tabs>>
device == <<In, Out, bufLen>>

ConsoleInit ==
  /\ In \in BOOLEAN /\ Out \in BOOLEAN /\ bufLen \in BufLens
  /\ stage = "idle" /\ keys = <<>> /\ n = 0 /\ p = <<>> /\ errors = 0
  /\ pressed = <<>> /\ delivered = <<>> /\ returned = [n |-> 0, of |-> 0]
  /\ text = <<>> /\ shown = <<>> /\ tabs = ReplaceTabs

Bytes(u) == <<u % 256, u \div 256>>

\* What Read makes of a key: its scan code, or its character where it has none.
Code(k) == IF k.ScanCode > 0 THEN k.ScanCode ELSE k.UnicodeChar

(***************************************************************************)
(* Read                                                                    *)
(***************************************************************************)
\* A key is pressed (external).
Press ==
  /\ In /\ Len(pressed) < MaxKeys
  /\ \E k \in Keys :
       /\ keys' = Append(keys, k)
       /\ pressed' = Append(pressed, Code(k))
  /\ UNCHANGED <<device, stage, n, p, errors, delivered, returned, writing>>

\* The shell reads (the bound keeps a console without a keyboard finite).
StartRead ==
  /\ stage = "idle" /\ Len(delivered) <= 2 * MaxKeys
  /\ n' = 0 /\ p' = <<>>
  /\ stage' = "read"
  /\ text' = <<>> /\ shown' = <<>>     \* only the last write before it is remembered
  /\ UNCHANGED <<device, keys, errors, pressed, delivered, returned, tabs>>

\* Read returns n bytes.  Past the end of the buffer there are none.
ReturnsRead(count, bytes) ==
  /\ delivered' = delivered \o SubSeq(bytes, 1, Min({count, Len(bytes)}))
  /\ returned' = [n |-> count, of |-> bufLen]
  /\ stage' = "idle"

\* Mutant: on an error nothing has been read.
ReadError_None ==
  /\ stage = "read" /\ n < bufLen /\ In /\ errors < MaxErrors
  /\ errors' = errors + 1
  /\ ReturnsRead(0, p)
  /\ UNCHANGED <<device, keys, n, p, pressed, writing>>

\* The keyboard fails: what was read before is returned with the error.
ReadError ==
  /\ stage = "read" /\ n < bufLen /\ In /\ errors < MaxErrors
  /\ errors' = errors + 1
  /\ ReturnsRead(n, p)
  /\ UNCHANGED <<device, keys, n, p, pressed, writing>>

\* EFI_NOT_READY: a nap, and what was read before is returned.
NotReady ==
  /\ stage = "read" /\ n < bufLen /\ In /\ keys = <<>>
  /\ ReturnsRead(n, p)
  /\ UNCHANGED <<device, keys, n, p, errors, pressed, writing>>

\* Without a keyboard Input returns success and leaves the key of zeros alone.
Key == IF In THEN Head(keys) ELSE [ScanCode |-> 0, UnicodeChar |-> 0]

\* Mutant: the character, also of a key that has none.
KeyBytes_Char(k) == Bytes(k.UnicodeChar)

KeyBytes(k) == Bytes(Code(k))

\* One turn of the loop: PutUint16 panics where only one byte is left, copy takes it.
ReadKey ==
  /\ stage = "read" /\ n < bufLen /\ (In => keys # <<>>)
  /\ keys' = IF In THEN Tail(keys) ELSE keys
  /\ IF Key.ScanCode > 0 /\ n + 1 = bufLen
     THEN stage' = "panic" /\ UNCHANGED <<n, p>>
     ELSE /\ p' = p \o SubSeq(KeyBytes(Key), 1, Min({2, bufLen - n}))
          /\ n' = n + 2
          /\ UNCHANGED stage
  /\ UNCHANGED <<device, errors, pressed, delivered, returned, writing>>

\* The buffer is full.
ReadFull ==
  /\ stage = "read" /\ n >= bufLen
  /\ ReturnsRead(n, p)
  /\ UNCHANGED <<device, keys, n, p, errors, pressed, writing>>

(***************************************************************************)
(* Write                                                                   *)
(***************************************************************************)
\* utf16.Encode of one rune.
Utf16(r) ==
  IF r < 65536 THEN <<r>>
  ELSE <<55296 + (r - 65536) \div 1024, 56320 + ((r - 65536) % 1024)>>

Encode(runes) == FlattenSeq([i \in DOMAIN runes |-> Utf16(runes[i])])

\* Tabs become spaces, a line feed is followed by a carriage return.
Expand(u) ==
  IF u = tab /\ ReplaceTabs > 0 THEN [i \in 1..ReplaceTabs |-> space]
  ELSE IF u = lf /\ ForceLine THEN <<u, cr>>
  ELSE <<u>>

\* The sequence of the shell for one character back is a backspace, and a zero.
Line(t) == IF t = cub THEN <<bs, 0>> ELSE t

\* The slice s of Write.
Slice(t) ==
  LET units == FlattenSeq([i \in DOMAIN Encode(Line(t)) |-> Expand(Encode(Line(t))[i])])
  IN  FlattenSeq([i \in DOMAIN units |-> Bytes(units[i])])

\* Mutant: nothing is appended.
Terminated_Not(s) == s

\* Output appends one zero byte, unless the last byte is zero already.
Terminated(s) == IF Last(s) # 0 THEN Append(s, 0) ELSE s

\* The least capacity that holds a slice, and that there is one (external).
Capacity(len) == CHOOSE c \in Capacities : c >= len /\ \A d \in Capacities : d >= len => c <= d

Room == \A t \in Texts : \E c \in Capacities : c > Len(Slice(t))

ASSUME RoomAssumption == Room

\* The memory of a slice: zeros up to the capacity (external).
Memory(s) == s \o [i \in 1..Capacity(Len(s)) - Len(s) |-> 0]

Units(mem) == [i \in 1..Len(mem) \div 2 |-> mem[2 * i - 1] + 256 * mem[2 * i]]

\* What OutputString (external) may show: the units before the first zero; where there
\* is none it goes on behind the memory of the slice.
Displays(units) ==
  LET zeros == {i \in DOMAIN units : units[i] = 0}
  IN  IF zeros # {} THEN {SubSeq(units, 1, Min(zeros) - 1)}
      ELSE {units, Append(units, Unknown)}

\* Output calls the firmware if there is a display.
Output(s) == IF Out THEN Displays(Units(Memory(Terminated(s)))) ELSE {<<>>}

\* An empty text is not put out; the count is never set.  A display that fails, whose
\* error Write returns, is left out: what it shows is not known.
Write ==
  /\ stage = "idle"
  /\ \E t \in Texts :
       /\ text' = t /\ tabs' = ReplaceTabs
       /\ shown' \in IF t = <<>> THEN {<<>>} ELSE Output(Slice(t))
       /\ returned' = [n |-> 0, of |-> Len(t)]
  /\ UNCHANGED <<device, stage, keyboard>>

\* printk puts out one byte, and a carriage return after a line feed; its console does
\* not replace tabs.
printk ==
  /\ stage = "idle" /\ Out
  /\ \E c \in 1..127 :
       /\ <<c>> \in Texts /\ text' = <<c>> /\ tabs' = 0
       /\ \E a \in Output(<<c>>),
             b \in IF c = lf /\ ForceLine THEN Output(<<cr>>) ELSE {<<>>} : shown' = a \o b
  /\ UNCHANGED <<device, stage, keyboard, returned>>

ReadStep == StartRead \/ ReadError \/ NotReady \/ ReadKey \/ ReadFull

ConsoleNext == Press \/ ReadStep \/ Write \/ printk

\* The shell goes on reading, and a call that has begun runs on.
ConsoleSpec == ConsoleInit /\ [][ConsoleNext]_consoleVars /\ WF_consoleVars(ReadStep)
-----------------------------------------------------------------------------
\* Types.
ConsoleTypeOK ==
  /\ stage \in {"idle", "read", "panic"}
  /\ n \in 0..bufLen + 1 /\ Len(p) <= bufLen /\ errors \in 0..MaxErrors
  /\ Len(pressed) <= MaxKeys /\ text \in Texts /\ tabs \in {0, ReplaceTabs}
  /\ returned \in [n : Nat, of : Nat]

\* The units that a text is to be shown as.
Wanted(t, spaces) ==
  IF t = cub THEN <<bs>>
  ELSE FlattenSeq([i \in DOMAIN t |->
         IF t[i] = tab /\ spaces > 0 THEN [j \in 1..spaces |-> space]
         ELSE IF t[i] = lf /\ ForceLine THEN <<lf, cr>> ELSE Utf16(t[i])])

\* The bytes of codes, one after the other, two of each.
Pairs(codes) == [i \in 1..2 * Len(codes) |-> Bytes(codes[(i + 1) \div 2])[2 - (i % 2)]]
Codes(ks) == [i \in 1..Len(ks) |-> Code(ks[i])]

\* Read: with a buffer of whole units, every key pressed is still to be read, in the
\* buffer of the running Read, or was returned, in the order in which they were pressed,
\* whatever errors and pauses there were in between.
KeysInOrder ==
  In /\ bufLen % 2 = 0 =>
    LET running == IF stage = "read" THEN SubSeq(p, 1, n) ELSE <<>>
    IN  delivered \o running \o Pairs(Codes(keys)) = Pairs(pressed)

\* Read: with a buffer of whole units each key that is pressed reaches the shell.
KeysRead ==
  \A k \in 1..MaxKeys :
    (In /\ bufLen % 2 = 0 /\ Len(pressed) >= k) ~> (Len(delivered) >= 2 * k)

\* Write and printk: a text is shown exactly, if its last unit has a high byte, or if it
\* does not fill the memory of the slice.
ShownExactly ==
  [][(text' # <<>> /\ Out /\ (text' # text \/ shown' # shown)) =>
       LET w == Wanted(text', tabs')
       IN  (Last(w) >= 256 \/ 2 * Len(w) \notin Capacities) => shown' = w]_consoleVars
-----------------------------------------------------------------------------
\* What the repository says and the code does not do: each statement is false in this
\* specification, as TLC shows when it stands in the configuration (see README).

\* "String The NULL-terminated string to be displayed" (uefi/simple_text_out.go:46):
\* a text that ends in ASCII has a zero byte at its end already, and gets no zero unit.
OutputTerminated == [][\A i \in DOMAIN shown' : shown'[i] # Unknown]_consoleVars

\* "Console implements the [io.ReadWriter] interface" (console.go:69): no count is
\* larger than the buffer.
ReadCount == returned.n <= returned.of

\* The same, for Write, which returns 0 without an error.
WriteCount == [][text' # text => returned'.n = returned'.of]_consoleVars

\* "Read available data to buffer from console" (console.go:167): nothing, without a
\* keyboard.
NothingWithoutKeyboard == In \/ delivered = <<>>

\* No sequence of keys ends the shell.
NoPanic == stage # "panic"
=============================================================================
