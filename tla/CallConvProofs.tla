--------------------------- MODULE CallConvProofs ---------------------------
(***************************************************************************)
(* Proofs about CallConv, for every stack pointer at entry and every call: *)
(* the callee finds its arguments where the convention has them, with an   *)
(* aligned stack in the calls that programs make; the caller gets its      *)
(* stack pointer, its frame and its frame pointer back; and the offsets of *)
(* ueficore lead to the services that are meant.                           *)
(***************************************************************************)
EXTENDS CallConv, TLAPS

(***************************************************************************)
(* The inductive invariant.                                                *)
(***************************************************************************)
\* Where callFn starts to push, and how many words it pushes.
Base == AlignDown(sp0) - (IF n = 5 THEN 1 ELSE 0)
Spilled == IF n > 4 THEN n - 4 ELSE 0

RegsLoaded == \A k \in Regs : k <= n => reg[k] = k

CallInv == call \in Calls /\ sp0 \in Entries

\* The caller's words over the entry, but for the arguments it passes itself.
FrameInv ==
  \A w \in Stack : w >= sp0 /\ ~(fn = "uefiCall" /\ w - sp0 \in 5..n + 1)
    => stack[w] = FrameWord

\* At entry nothing has moved, and uefiCall finds d, e, ... over its entry.
EnterInv ==
  pc = "enter" =>
    /\ sp = sp0 /\ rbp = OldRbp
    /\ fn = "uefiCall" => \A k \in 4..n : stack[sp0 + k + 1] = k

\* callFn, block by block: where SP is, what was pushed, and that BX keeps the entry's SP.
CallFnInv ==
  fn = "callFn" =>
    /\ rbp = OldRbp
    /\ pc \notin {"enter", "ret"} => n > 0 /\ bx = sp0
    /\ pc \in {"pad", "push", "shadow", "call", "firmware"} => RegsLoaded
    /\ pc = "pad" => n > 4 /\ left = n - 4 /\ sp = sp0
    /\ pc = "push" =>
         /\ n > 4 /\ left \in 1..n - 4 /\ sp = Base - (n - 4 - left)
         /\ \A k \in left + 5..n : stack[sp + k - left - 5] = k
    /\ pc = "shadow" => n <= 4 /\ left = 0 /\ sp = sp0
    /\ pc = "call" =>
         /\ left = Spilled /\ sp = Base - Spilled
         /\ \A k \in 5..n : stack[sp + k - 5] = k
    /\ pc \in {"firmware", "back"} => left = Spilled /\ sp = Base - Spilled - Shadow
    /\ pc = "firmware" => \A k \in 5..n : stack[sp + k - 1] = k
    /\ pc = "ret" => sp = sp0

\* uefiCallN: the frame, and the saved frame pointer where the frame is large enough.
UefiCallInv ==
  fn = "uefiCall" =>
    /\ pc \in {"enter", "firmware", "back", "ret"}
    /\ pc \in {"firmware", "back"} =>
         /\ rbp = sp0 - 1 /\ sp = sp0 - 1 - FrameSize(n)
         /\ n # 6 => stack[sp0 - 1] = OldRbp
    /\ pc = "firmware" => RegsLoaded /\ \A k \in 5..n : stack[sp + k - 1] = k
    /\ pc = "ret" => sp = sp0 /\ (n # 6 => rbp = OldRbp)

IInv == TypeOK /\ bx \in Nat /\ CallInv /\ FrameInv /\ EnterInv /\ CallFnInv /\ UefiCallInv
-----------------------------------------------------------------------------
(***************************************************************************)
(* The calls of the packages.                                              *)
(***************************************************************************)
\* The methods of a group pass at most ten words.
Counts(g) == \A s \in DOMAIN g : g[s] \in 1..10

\* No method of package uefi passes more than ten words (uefi_spec.go, the protocols).
LEMMA MethodCounts == \A g \in Methods : Counts(g[2])
<1>1. Counts(TplAndMemory) BY DEF Counts, TplAndMemory
<1>2. Counts(Events) BY DEF Counts, Events
<1>3. Counts(Protocols) BY DEF Counts, Protocols
<1>4. Counts(Images) BY DEF Counts, Images
<1>5. Counts(Controllers) BY DEF Counts, Controllers
<1>6. Counts(Lookup) BY DEF Counts, Lookup
<1>7. Counts(Time) BY DEF Counts, Time
<1>8. Counts(Variables) BY DEF Counts, Variables
<1>9. Counts(ResetAndCapsules) BY DEF Counts, ResetAndCapsules
<1>10. Counts(TextIn) BY DEF Counts, TextIn
<1>11. Counts(TextInEx) BY DEF Counts, TextInEx
<1>12. Counts(TextOut) BY DEF Counts, TextOut
<1>13. Counts(Graphics) BY DEF Counts, Graphics
<1>14. Counts(Volume) BY DEF Counts, Volume
<1>15. Counts(File) BY DEF Counts, File
<1>16. Counts(BlockIo) BY DEF Counts, BlockIo
<1>17. Counts(DiskIo) BY DEF Counts, DiskIo
<1>18. Counts(Serial) BY DEF Counts, Serial
<1>19. Counts(Dhcp4Binding) BY DEF Counts, Dhcp4Binding
<1>20. Counts(Dhcp4) BY DEF Counts, Dhcp4
<1>21. Counts(SimpleNetwork) BY DEF Counts, SimpleNetwork
<1>22. Counts(LoadedImageMethods) BY DEF Counts, LoadedImageMethods
<1> QED
  BY <1>1, <1>2, <1>3, <1>4, <1>5, <1>6, <1>7, <1>8, <1>9, <1>10, <1>11,
     <1>12, <1>13, <1>14, <1>15, <1>16, <1>17, <1>18, <1>19, <1>20, <1>21, <1>22 DEF Methods

\* The words of a call of ueficore: one to six or ten, the numbers for which callFn
\* leaves the stack aligned.
Few == {1, 2, 3, 4, 5, 6, 10}

\* Each offset of a group is that of the slot of the same name.
Finds(t, g) == \A s \in DOMAIN g : g[s][2] \in Few /\ Slots[t][SlotAt(t, g[s][1])] = s

\* The offsets of ueficore are those of the slots that package uefi has by that name.
LEMMA OffsetsFind == \A g \in UeficoreTables : Finds(g[1], g[2])
<1>1. Finds("boot", BootProtocol)
  BY DEF Finds, Few, SlotAt, Header, Word, Slots, EFI_BOOT_SERVICES, BootProtocol
<1>2. Finds("boot", BootImage)
  BY DEF Finds, Few, SlotAt, Header, Word, Slots, EFI_BOOT_SERVICES, BootImage
<1>3. Finds("boot", BootExit)
  BY DEF Finds, Few, SlotAt, Header, Word, Slots, EFI_BOOT_SERVICES, BootExit
<1>4. Finds("boot", BootPages)
  BY DEF Finds, Few, SlotAt, Header, Word, Slots, EFI_BOOT_SERVICES, BootPages
<1>5. Finds("boot", BootMap)
  BY DEF Finds, Few, SlotAt, Header, Word, Slots, EFI_BOOT_SERVICES, BootMap
<1>6. Finds("boot", BootWatchdog)
  BY DEF Finds, Few, SlotAt, Header, Word, Slots, EFI_BOOT_SERVICES, BootWatchdog
<1>7. Finds("runtime", Runtime)
  BY DEF Finds, Few, SlotAt, Header, Word, Slots, EFI_RUNTIME_SERVICES, Runtime
<1>8. Finds("textIn", ConsoleIn)
  BY DEF Finds, Few, SlotAt, Header, Word, Slots, EFI_SIMPLE_TEXT_INPUT_PROTOCOL, ConsoleIn
<1>9. Finds("textOut", ConsoleOut)
  BY DEF Finds, Few, SlotAt, Header, Word, Slots, EFI_SIMPLE_TEXT_OUTPUT_PROTOCOL, ConsoleOut
<1>10. Finds("graphics", GraphicsBlt)
  BY DEF Finds, Few, SlotAt, Header, Word, Slots, EFI_GRAPHICS_OUTPUT_PROTOCOL, GraphicsBlt
<1>11. Finds("volume", OpenVolume)
  BY DEF Finds, Few, SlotAt, Header, Word, Slots, EFI_SIMPLE_FILE_SYSTEM_PROTOCOL, OpenVolume
<1>12. Finds("file", FileCalls)
  BY DEF Finds, Few, SlotAt, Header, Word, Slots, EFI_FILE_PROTOCOL, FileCalls
<1> QED
  BY <1>1, <1>2, <1>3, <1>4, <1>5, <1>6,
     <1>7, <1>8, <1>9, <1>10, <1>11, <1>12 DEF UeficoreTables

\* Three words or five where a method reads or lists variables.
OfVariables(g) == \A s \in DOMAIN g :
  s \in {"getVariable", "getNextVariableName"} => g[s] \in {3, 5}

\* GetVariable and GetNextVariableName pass five and three words, so they go through callFn.
LEMMA VariableCounts == \A g \in Methods : OfVariables(g[2])
<1>1. OfVariables(TplAndMemory) BY DEF OfVariables, TplAndMemory
<1>2. OfVariables(Events) BY DEF OfVariables, Events
<1>3. OfVariables(Protocols) BY DEF OfVariables, Protocols
<1>4. OfVariables(Images) BY DEF OfVariables, Images
<1>5. OfVariables(Controllers) BY DEF OfVariables, Controllers
<1>6. OfVariables(Lookup) BY DEF OfVariables, Lookup
<1>7. OfVariables(Time) BY DEF OfVariables, Time
<1>8. OfVariables(Variables) BY DEF OfVariables, Variables
<1>9. OfVariables(ResetAndCapsules) BY DEF OfVariables, ResetAndCapsules
<1>10. OfVariables(TextIn) BY DEF OfVariables, TextIn
<1>11. OfVariables(TextInEx) BY DEF OfVariables, TextInEx
<1>12. OfVariables(TextOut) BY DEF OfVariables, TextOut
<1>13. OfVariables(Graphics) BY DEF OfVariables, Graphics
<1>14. OfVariables(Volume) BY DEF OfVariables, Volume
<1>15. OfVariables(File) BY DEF OfVariables, File
<1>16. OfVariables(BlockIo) BY DEF OfVariables, BlockIo
<1>17. OfVariables(DiskIo) BY DEF OfVariables, DiskIo
<1>18. OfVariables(Serial) BY DEF OfVariables, Serial
<1>19. OfVariables(Dhcp4Binding) BY DEF OfVariables, Dhcp4Binding
<1>20. OfVariables(Dhcp4) BY DEF OfVariables, Dhcp4
<1>21. OfVariables(SimpleNetwork) BY DEF OfVariables, SimpleNetwork
<1>22. OfVariables(LoadedImageMethods) BY DEF OfVariables, LoadedImageMethods
<1> QED
  BY <1>1, <1>2, <1>3, <1>4, <1>5, <1>6, <1>7, <1>8, <1>9, <1>10, <1>11,
     <1>12, <1>13, <1>14, <1>15, <1>16, <1>17, <1>18, <1>19, <1>20, <1>21, <1>22 DEF Methods

\* A call has at most ten words, or as many as anybody passes.
LEMMA CallFacts ==
  ASSUME NEW c \in Calls
  PROVE  c.n \in 0..MaxArgs /\ c.via \in {"callFn", "uefiCall"}
<1>0. MaxArgs \in Nat /\ MaxArgs >= 10
  BY CallConvAssumptions
<1>1. CASE c \in UefiCalls
  <2>0. PICK g \in Methods : \E s \in DOMAIN g[2] : c.n = g[2][s] /\ c.via = Via(g[2][s])
    BY <1>1 DEF UefiCalls
  <2>1. PICK s \in DOMAIN g[2] : c.n = g[2][s] /\ c.via = Via(g[2][s])
    BY <2>0
  <2>2. g[2][s] \in 1..10
    BY MethodCounts DEF Counts
  <2> QED BY <1>0, <2>1, <2>2 DEF Via
<1>2. CASE c \in UeficoreCalls
  <2>0. PICK g \in UeficoreTables : \E s \in DOMAIN g[2] : c.n = g[2][s][2] /\ c.via = "callFn"
    BY <1>2 DEF UeficoreCalls
  <2>1. PICK s \in DOMAIN g[2] : c.n = g[2][s][2] /\ c.via = "callFn"
    BY <2>0
  <2>2. g[2][s][2] \in Few
    BY OffsetsFind DEF Finds
  <2> QED BY <1>0, <2>1, <2>2 DEF Few
<1>3. CASE c \in AnyCalls(MaxArgs)
  BY <1>0, <1>3 DEF AnyCalls
<1> QED BY <1>1, <1>2, <1>3 DEF Calls

\* The calls that programs make all go through callFn, with the entry of the slot of the
\* service that is meant, and with a number of words that keeps the stack aligned.
LEMMA ProgramFacts ==
  ASSUME NEW c \in ProgramCalls
  PROVE  /\ c.via = "callFn" /\ c.passes = "entry" /\ c.slot = c.meant /\ c.n \in Few
<1>1. CASE c \in UeficoreCalls
  <2>0. PICK g \in UeficoreTables : \E s \in DOMAIN g[2] :
          /\ c.n = g[2][s][2] /\ c.via = "callFn" /\ c.passes = "entry" /\ c.meant = s
          /\ c.slot = Slots[g[1]][SlotAt(g[1], g[2][s][1])]
    BY <1>1 DEF UeficoreCalls
  <2>1. PICK s \in DOMAIN g[2] :
          /\ c.n = g[2][s][2] /\ c.via = "callFn" /\ c.passes = "entry" /\ c.meant = s
          /\ c.slot = Slots[g[1]][SlotAt(g[1], g[2][s][1])]
    BY <2>0
  <2>2. g[2][s][2] \in Few /\ Slots[g[1]][SlotAt(g[1], g[2][s][1])] = s
    BY OffsetsFind DEF Finds
  <2> QED BY <2>1, <2>2
<1>2. CASE c \in UefiCalls /\ c.meant \in {"getVariable", "getNextVariableName"}
  <2>0. PICK g \in Methods : \E s \in DOMAIN g[2] :
          /\ c.n = g[2][s] /\ c.via = Via(g[2][s]) /\ c.meant = s /\ c.slot = s
          /\ c.passes = IF s \in PassesEntry THEN "entry" ELSE "function"
    BY <1>2 DEF UefiCalls
  <2>1. PICK s \in DOMAIN g[2] :
          /\ c.n = g[2][s] /\ c.via = Via(g[2][s]) /\ c.meant = s /\ c.slot = s
          /\ c.passes = IF s \in PassesEntry THEN "entry" ELSE "function"
    BY <2>0
  <2>2. \A h \in Methods : \A t \in DOMAIN h[2] :
          t \in {"getVariable", "getNextVariableName"} => h[2][t] \in {3, 5}
    BY VariableCounts DEF OfVariables
  <2>3. g[2][s] \in {3, 5}
    BY <1>2, <2>1, <2>2
  <2> QED BY <1>2, <2>1, <2>3 DEF Via, PassesEntry, Few
<1> QED BY <1>1, <1>2 DEF ProgramCalls
-----------------------------------------------------------------------------
(***************************************************************************)
(* The stack.                                                              *)
(***************************************************************************)
\* The stack has a top, and the entry lies under it with room below.
LEMMA Room ==
  ASSUME CallInv
  PROVE  /\ n \in 0..MaxArgs /\ fn \in {"callFn", "uefiCall"} /\ MaxArgs \in Nat /\ MaxArgs >= 10
         /\ sp0 \in Nat /\ sp0 > 3 * MaxArgs /\ Top \in Nat /\ sp0 <= Top
<1>1. n \in 0..MaxArgs /\ fn \in {"callFn", "uefiCall"}
  BY CallFacts DEF CallInv, n, fn
<1>2. Top \in Entries /\ \A t \in Entries : t <= Top
  BY CallConvAssumptions, Zenon DEF Top
<1> QED BY <1>1, <1>2, CallConvAssumptions DEF CallInv

\* ANDQ $~15 takes a stack pointer down by at most one word, to an even one.
LEMMA AlignDownEven ==
  ASSUME NEW s \in Nat
  PROVE  /\ AlignDown(s) \in {s, s - 1}
         /\ \E h \in Int : AlignDown(s) = 2 * h
<1>1. s % 2 \in 0..1 /\ s = 2 * (s \div 2) + (s % 2)
  OBVIOUS
<1>2. AlignDown(s) = 2 * (s \div 2)
  BY <1>1 DEF AlignDown
<1>3. s \div 2 \in Int
  OBVIOUS
<1> QED BY <1>1, <1>2, <1>3 DEF AlignDown

\* callFn starts to push at most two words below its entry.
LEMMA BaseNear ==
  ASSUME CallInv
  PROVE  /\ Base \in Int /\ Base <= sp0 /\ Base >= sp0 - 2 /\ Spilled \in 0..MaxArgs
         /\ n \in Few => \E h \in Int : Base - Spilled - Shadow = 2 * h
<1>1. n \in Nat /\ sp0 \in Nat /\ n <= MaxArgs /\ MaxArgs \in Nat
  BY Room
<1>2. AlignDown(sp0) \in {sp0, sp0 - 1}
  BY <1>1, AlignDownEven
<1>3. PICK h \in Int : AlignDown(sp0) = 2 * h
  BY <1>1, AlignDownEven
<1>4. ASSUME n \in Few PROVE \E k \in Int : Base - Spilled - Shadow = 2 * k
  <2>1. CASE n \in {1, 2, 3, 4}
    <3>1. Base - Spilled - Shadow = 2 * (h - 2) /\ h - 2 \in Int
      BY <1>3, <2>1 DEF Base, Spilled, Shadow
    <3> QED BY <3>1
  <2>2. CASE n \in {5, 6}
    <3>1. Base - Spilled - Shadow = 2 * (h - 3) /\ h - 3 \in Int
      BY <1>3, <2>2 DEF Base, Spilled, Shadow
    <3> QED BY <3>1
  <2>3. CASE n = 10
    <3>1. Base - Spilled - Shadow = 2 * (h - 5) /\ h - 5 \in Int
      BY <1>3, <2>3 DEF Base, Spilled, Shadow
    <3> QED BY <3>1
  <2> QED BY <1>4, <2>1, <2>2, <2>3 DEF Few
<1> QED BY <1>1, <1>2, <1>4 DEF Base, Spilled

\* The frame of uefiCallN, in words.
LEMMA Frame ==
  ASSUME NEW k \in Nat
  PROVE  FrameSize(k) = IF k <= 4 THEN 4 ELSE IF k \in {5, 6} THEN 5 ELSE k
BY DEF FrameSize

\* A step of the call changes neither the call nor what is derived from it.
LEMMA SameCall ==
  ASSUME UNCHANGED entry
  PROVE  n' = n /\ fn' = fn /\ sp0' = sp0 /\ call' = call /\ Base' = Base /\ Spilled' = Spilled
<1>1. n' = n /\ fn' = fn /\ sp0' = sp0 /\ call' = call
  BY DEF entry, n, fn
<1> QED BY <1>1 DEF Base, Spilled, AlignDown

\* At entry the invariant holds.
LEMMA InitIInv == Init => IInv
<1> SUFFICES ASSUME Init PROVE IInv
  OBVIOUS
<1>1. CallInv
  BY DEF Init, CallInv
<1>2. /\ n \in 0..MaxArgs /\ fn \in {"callFn", "uefiCall"} /\ MaxArgs \in Nat /\ MaxArgs >= 10
      /\ sp0 \in Nat /\ sp0 > 3 * MaxArgs /\ Top \in Nat /\ sp0 <= Top
  BY <1>1, Room
<1>3. TypeOK /\ bx \in Nat
  <2>1. \A w \in Stack : stack[w] \in Words
    BY <1>2 DEF Init, Stack, Words, Junk, FrameWord
  <2>2. stack \in [Stack -> Words]
    BY <2>1 DEF Init
  <2> QED BY <1>2, <2>2 DEF Init, TypeOK, Stack, Words, Junk, FrameWord, OldRbp, Regs
<1>4. FrameInv
  BY <1>2 DEF Init, FrameInv, Stack
<1>5. EnterInv
  <2>1. ASSUME fn = "uefiCall", NEW k \in 4..n PROVE stack[sp0 + k + 1] = k
    <3>1. sp0 + k + 1 \in Stack /\ ~(sp0 + k + 1 < sp0) /\ sp0 + k + 1 - sp0 \in 5..n + 1
          /\ sp0 + k + 1 - sp0 - 1 = k
      BY <1>2 DEF Stack
    <3>2. \A w \in Stack : w >= sp0 /\ w - sp0 \in 5..n + 1 => stack[w] = w - sp0 - 1
      BY <1>2, <2>1 DEF Init, Stack
    <3> QED BY <1>2, <3>1, <3>2
  <2> QED BY <2>1 DEF Init, EnterInv
<1>6. CallFnInv /\ UefiCallInv
  BY DEF Init, CallFnInv, UefiCallInv
<1> QED BY <1>1, <1>3, <1>4, <1>5, <1>6 DEF IInv
-----------------------------------------------------------------------------
(***************************************************************************)
(* The steps of callFn.                                                    *)
(***************************************************************************)
\* What a step that leaves the stack as it is need not show again.
LEMMA SameFrame ==
  ASSUME IInv, UNCHANGED entry, UNCHANGED stack
  PROVE  CallInv' /\ FrameInv' /\ (stack \in [Stack -> Words])'
<1>1. n' = n /\ fn' = fn /\ sp0' = sp0 /\ call' = call
  BY SameCall
<1> QED BY <1>1 DEF IInv, CallInv, FrameInv, TypeOK, Stack, Words

\* The registers are loaded; without arguments nothing happens.
LEMMA CallFnStep == IInv /\ CallFn => IInv'
<1> SUFFICES ASSUME IInv, CallFn PROVE IInv'
  OBVIOUS
<1>1. n' = n /\ fn' = fn /\ sp0' = sp0 /\ call' = call
  BY SameCall DEF CallFn
<1>2. /\ n \in 0..MaxArgs /\ MaxArgs \in Nat /\ MaxArgs >= 10
      /\ sp0 \in Nat /\ sp0 > 3 * MaxArgs /\ Top \in Nat /\ sp0 <= Top
  BY Room DEF IInv
<1>3. CallInv' /\ FrameInv' /\ (stack \in [Stack -> Words])'
  BY SameFrame DEF CallFn
<1>4. sp = sp0 /\ rbp = OldRbp /\ sp' = sp /\ rbp' = rbp /\ fn = "callFn" /\ fn' # "uefiCall"
  BY <1>1 DEF CallFn, IInv, EnterInv
<1>5. CASE n = 0
  <2>1. pc' = "ret" /\ bx' = bx /\ reg' = reg /\ left' = left
    BY <1>5 DEF CallFn
  <2>2. TypeOK' /\ (bx \in Nat)'
    BY <1>3, <1>4, <2>1 DEF IInv, TypeOK
  <2>3. EnterInv' /\ CallFnInv' /\ UefiCallInv'
    BY <1>1, <1>4, <2>1 DEF EnterInv, CallFnInv, UefiCallInv, OldRbp
  <2> QED BY <1>3, <2>2, <2>3 DEF IInv
<1>6. CASE n # 0
  <2>1. /\ bx' = sp /\ reg' = [k \in Regs |-> IF k <= n THEN k ELSE Junk]
        /\ left' = (IF n > 4 THEN n - 4 ELSE 0)
        /\ pc' = (IF n > 4 THEN "pad" ELSE "shadow")
    BY <1>6 DEF CallFn
  <2>2. reg' \in [Regs -> Words]
    BY <1>2, <2>1 DEF Regs, Words, Junk, FrameWord
  <2>3. left' \in 0..MaxArgs /\ bx' \in Nat
    BY <1>2, <1>4, <2>1
  <2>4. TypeOK' /\ (bx \in Nat)'
    BY <1>3, <1>4, <2>1, <2>2, <2>3 DEF IInv, TypeOK
  <2>5. RegsLoaded'
    BY <1>1, <2>1 DEF RegsLoaded
  <2>6. CallFnInv'
    BY <1>1, <1>2, <1>4, <1>6, <2>1, <2>5 DEF CallFnInv, OldRbp
  <2>7. EnterInv' /\ UefiCallInv'
    BY <1>4, <2>1 DEF EnterInv, UefiCallInv
  <2> QED BY <1>3, <2>4, <2>6, <2>7 DEF IInv
<1> QED BY <1>5, <1>6

\* The padding is below the entry, and SP is Base.
LEMMA PadStep == IInv /\ Pad => IInv'
<1> SUFFICES ASSUME IInv, Pad PROVE IInv'
  OBVIOUS
<1>1. n' = n /\ fn' = fn /\ sp0' = sp0 /\ call' = call /\ Base' = Base
  BY SameCall DEF Pad
<1>2. /\ n \in 0..MaxArgs /\ MaxArgs \in Nat /\ MaxArgs >= 10
      /\ sp0 \in Nat /\ sp0 > 3 * MaxArgs /\ Top \in Nat /\ sp0 <= Top
      /\ fn \in {"callFn", "uefiCall"}
  BY Room DEF IInv
<1>3. pc = "pad" /\ pc' = "push" /\ rbp' = rbp /\ bx' = bx /\ left' = left /\ reg' = reg
  BY DEF Pad
<1>4. fn = "callFn" /\ fn' # "uefiCall"
  BY <1>1, <1>2, <1>3 DEF IInv, UefiCallInv
<1>5. rbp = OldRbp /\ bx = sp0 /\ RegsLoaded /\ n > 4 /\ left = n - 4 /\ sp = sp0
  BY <1>3, <1>4 DEF IInv, CallFnInv
<1>6. Base \in Int /\ Base <= sp0 /\ Base >= sp0 - 2
  BY BaseNear DEF IInv
<1>7. AlignDown(sp0) \in {sp0, sp0 - 1}
  BY <1>2, AlignDownEven
<1>8. Padded(left) <=> n = 5
  <2>1. n - 4 \in Nat /\ n - 4 > 0 /\ (n - 4) % 2 \in 0..1
    BY <1>2, <1>5
  <2>2. n = 5 => (n - 4) % 2 = 1
    OBVIOUS
  <2>3. n - 4 = (n - 4) % 2 => n = 5
    BY <1>2, <2>1
  <2> QED BY <1>5, <2>2, <2>3 DEF Padded
<1>9. sp' = Base /\ stack' \in [Stack -> Words] /\ \A w \in Stack : w >= sp0 => stack'[w] = stack[w]
  <2>1. CASE n = 5
    <3>1. sp' = AlignDown(sp0) - 1 /\ stack' = [stack EXCEPT ![AlignDown(sp0) - 1] = Junk]
      BY <1>5, <1>8, <2>1 DEF Pad
    <3>2. AlignDown(sp0) - 1 < sp0 /\ Junk \in Words
      BY <1>2, <1>7 DEF Words, Junk, FrameWord
    <3>3. sp' = Base
      BY <2>1, <3>1 DEF Base
    <3>4. stack \in [Stack -> Words]
      BY DEF IInv, TypeOK
    <3>5. stack' \in [Stack -> Words] /\ \A w \in Stack : w # AlignDown(sp0) - 1 => stack'[w] = stack[w]
      BY <3>1, <3>2, <3>4, Zenon
    <3>6. \A w \in Stack : w >= sp0 => w # AlignDown(sp0) - 1
      BY <1>2, <1>7, <3>2 DEF Stack
    <3> QED BY <3>3, <3>5, <3>6
  <2>2. CASE n # 5
    <3>1. sp' = AlignDown(sp0) /\ stack' = stack
      BY <1>5, <1>8, <2>2 DEF Pad
    <3>2. sp' = Base
      BY <1>2, <1>7, <2>2, <3>1 DEF Base
    <3> QED BY <3>1, <3>2 DEF IInv, TypeOK
  <2> QED BY <2>1, <2>2
<1>10. TypeOK' /\ (bx \in Nat)'
  <2>1. sp' \in Stack
    BY <1>2, <1>6, <1>9 DEF Stack
  <2> QED BY <1>3, <1>9, <2>1 DEF IInv, TypeOK
<1>11. CallInv' /\ FrameInv'
  BY <1>1, <1>9 DEF IInv, CallInv, FrameInv
<1>12. CallFnInv'
  <2>1. RegsLoaded'
    BY <1>1, <1>3, <1>5 DEF RegsLoaded
  <2>2. left' \in 1..n - 4 /\ sp' = Base - (n - 4 - left') /\ left' + 5 > n
    BY <1>2, <1>3, <1>5, <1>6, <1>9
  <2>3. left' + 5 = n + 1 /\ \A k \in n + 1..n : FALSE
    BY <1>2, <1>3, <1>5
  <2>4. \A k \in left' + 5..n : stack'[sp' + k - left' - 5] = k
    BY <2>3
  <2>5. pc' = "push" /\ rbp' = OldRbp /\ n > 0 /\ n > 4 /\ bx' = sp0
    BY <1>2, <1>3, <1>5
  <2> QED BY <1>1, <2>1, <2>2, <2>4, <2>5 DEF CallFnInv, OldRbp
<1>13. EnterInv' /\ UefiCallInv'
  BY <1>3, <1>4 DEF EnterInv, UefiCallInv
<1> QED BY <1>10, <1>11, <1>12, <1>13 DEF IInv

\* Each push is below the entry, and the words pushed before stay.
LEMMA PushArgStep == IInv /\ PushArg => IInv'
<1> SUFFICES ASSUME IInv, PushArg PROVE IInv'
  OBVIOUS
<1>1. n' = n /\ fn' = fn /\ sp0' = sp0 /\ call' = call /\ Base' = Base /\ Spilled' = Spilled
  BY SameCall DEF PushArg
<1>2. /\ n \in 0..MaxArgs /\ MaxArgs \in Nat /\ MaxArgs >= 10
      /\ sp0 \in Nat /\ sp0 > 3 * MaxArgs /\ Top \in Nat /\ sp0 <= Top
      /\ fn \in {"callFn", "uefiCall"}
  BY Room DEF IInv
<1>3. /\ pc = "push" /\ rbp' = rbp /\ bx' = bx /\ reg' = reg
      /\ sp' = sp - 1 /\ stack' = [stack EXCEPT ![sp - 1] = 4 + left]
      /\ left' = (IF left = 1 THEN n - 4 ELSE left - 1)
      /\ pc' = (IF left = 1 THEN "call" ELSE "push")
  BY DEF PushArg, Push
<1>4. fn = "callFn" /\ fn' # "uefiCall"
  BY <1>1, <1>2, <1>3 DEF IInv, UefiCallInv
<1>5. /\ rbp = OldRbp /\ bx = sp0 /\ RegsLoaded /\ n > 4 /\ left \in 1..n - 4
      /\ sp = Base - (n - 4 - left)
      /\ \A k \in left + 5..n : stack[sp + k - left - 5] = k
  BY <1>3, <1>4 DEF IInv, CallFnInv
<1>6. Base \in Int /\ Base <= sp0 /\ Base >= sp0 - 2
  BY BaseNear DEF IInv
<1>7. sp - 1 \in Stack /\ sp - 1 < sp0 /\ sp \in Int /\ left \in Nat /\ 4 + left \in Words
  BY <1>2, <1>5, <1>6 DEF Stack, Words, FrameWord
<1>8. /\ stack' \in [Stack -> Words] /\ stack'[sp - 1] = 4 + left
      /\ \A w \in Stack : w # sp - 1 => stack'[w] = stack[w]
  <2>1. stack \in [Stack -> Words]
    BY DEF IInv, TypeOK
  <2> QED BY <1>3, <1>7, <2>1, Zenon
<1>9. \A w \in Stack : w >= sp0 => stack'[w] = stack[w]
  <2>1. \A w \in Stack : w >= sp0 => w # sp - 1
    BY <1>2, <1>7 DEF Stack
  <2> QED BY <1>8, <2>1
<1>10. \A k \in left + 4..n : stack'[sp - 1 + k - left - 4] = k
  <2> SUFFICES ASSUME NEW k \in left + 4..n PROVE stack'[sp - 1 + k - left - 4] = k
    OBVIOUS
  <2>1. CASE k = left + 4
    <3>1. sp - 1 + k - left - 4 = sp - 1
      BY <1>7, <2>1
    <3> QED BY <1>7, <1>8, <2>1, <3>1
  <2>2. CASE k # left + 4
    <3>1. /\ k \in left + 5..n /\ sp - 1 + k - left - 4 = sp + k - left - 5
          /\ sp + k - left - 5 \in Stack /\ sp + k - left - 5 # sp - 1
      BY <1>2, <1>5, <1>6, <1>7, <2>2 DEF Stack
    <3>2. stack[sp + k - left - 5] = k
      BY <1>5, <3>1
    <3> QED BY <1>8, <3>1, <3>2
  <2> QED BY <2>1, <2>2
<1>11. TypeOK' /\ (bx \in Nat)'
  <2>1. left' \in 0..MaxArgs
    BY <1>2, <1>3, <1>5, <1>7
  <2> QED BY <1>3, <1>7, <1>8, <2>1 DEF IInv, TypeOK
<1>12. CallInv' /\ FrameInv'
  BY <1>1, <1>9 DEF IInv, CallInv, FrameInv
<1>13. RegsLoaded'
  BY <1>1, <1>3, <1>5 DEF RegsLoaded
<1>14. CallFnInv'
  <2>0. rbp' = OldRbp /\ bx' = sp0 /\ n > 0
    BY <1>2, <1>3, <1>5
  <2>1. CASE left = 1
    <3>1. pc' = "call" /\ left' = Spilled /\ sp' = Base - Spilled
      BY <1>2, <1>3, <1>5, <1>6, <2>1 DEF Spilled
    <3>2. \A k \in 5..n : stack'[sp' + k - 5] = k
      <4>1. left + 4 = 5 /\ \A k \in 5..n : sp - 1 + k - left - 4 = sp' + k - 5
        BY <1>3, <1>7, <2>1
      <4> QED BY <1>10, <4>1
    <3> QED BY <1>1, <1>13, <2>0, <3>1, <3>2 DEF CallFnInv, OldRbp
  <2>2. CASE left # 1
    <3>1. pc' = "push" /\ left' = left - 1 /\ sp' = sp - 1
      BY <1>3, <2>2
    <3>2. left' \in 1..n - 4 /\ sp' = Base - (n - 4 - left')
      BY <1>2, <1>5, <1>6, <1>7, <2>2, <3>1
    <3>3. \A k \in left' + 5..n : stack'[sp' + k - left' - 5] = k
      <4>1. left' + 5 = left + 4 /\ \A k \in left + 4..n : sp - 1 + k - left - 4 = sp' + k - left' - 5
        BY <1>2, <1>7, <3>1
      <4> QED BY <1>10, <4>1
    <3> QED BY <1>1, <1>5, <1>13, <2>0, <3>1, <3>2, <3>3 DEF CallFnInv, OldRbp
  <2> QED BY <2>1, <2>2
<1>15. EnterInv' /\ UefiCallInv'
  BY <1>3, <1>4 DEF EnterInv, UefiCallInv
<1> QED BY <1>11, <1>12, <1>14, <1>15 DEF IInv

\* With at most four arguments SP is aligned and nothing pushed.
LEMMA ShadowOnlyStep == IInv /\ ShadowOnly => IInv'
<1> SUFFICES ASSUME IInv, ShadowOnly PROVE IInv'
  OBVIOUS
<1>1. n' = n /\ fn' = fn /\ sp0' = sp0 /\ call' = call /\ Base' = Base /\ Spilled' = Spilled
  BY SameCall DEF ShadowOnly
<1>2. /\ n \in 0..MaxArgs /\ MaxArgs \in Nat /\ MaxArgs >= 10
      /\ sp0 \in Nat /\ sp0 > 3 * MaxArgs /\ Top \in Nat /\ sp0 <= Top
      /\ fn \in {"callFn", "uefiCall"}
  BY Room DEF IInv
<1>3. /\ pc = "shadow" /\ pc' = "call" /\ sp' = AlignDown(sp) /\ rbp' = rbp /\ bx' = bx
      /\ reg' = reg /\ left' = left
  BY DEF ShadowOnly
<1>4. fn = "callFn" /\ fn' # "uefiCall"
  BY <1>1, <1>2, <1>3 DEF IInv, UefiCallInv
<1>5. /\ rbp = OldRbp /\ bx = sp0 /\ n > 0 /\ RegsLoaded /\ n <= 4 /\ left = 0 /\ sp = sp0
  BY <1>3, <1>4 DEF IInv, CallFnInv
<1>6. CallInv' /\ FrameInv' /\ (stack \in [Stack -> Words])'
  BY SameFrame DEF ShadowOnly
<1>7. AlignDown(sp0) \in {sp0, sp0 - 1}
  BY <1>2, AlignDownEven
<1>8. Spilled = 0 /\ Base = AlignDown(sp0)
  BY <1>2, <1>5, <1>7 DEF Spilled, Base
<1>9. sp' = Base - Spilled /\ sp' \in Stack /\ left' = Spilled
  BY <1>2, <1>3, <1>5, <1>7, <1>8 DEF Stack
<1>10. RegsLoaded' /\ \A k \in 5..n : FALSE
  BY <1>1, <1>2, <1>3, <1>5 DEF RegsLoaded
<1>11. TypeOK' /\ (bx \in Nat)'
  BY <1>3, <1>6, <1>9 DEF IInv, TypeOK
<1>12. CallFnInv'
  BY <1>1, <1>3, <1>5, <1>9, <1>10 DEF CallFnInv, OldRbp
<1>13. EnterInv' /\ UefiCallInv'
  BY <1>3, <1>4 DEF EnterInv, UefiCallInv
<1> QED BY <1>6, <1>11, <1>12, <1>13 DEF IInv

\* The home words of the callee go below the words that were pushed.
LEMMA CallWithShadowStep == IInv /\ CallWithShadow => IInv'
<1> SUFFICES ASSUME IInv, CallWithShadow PROVE IInv'
  OBVIOUS
<1>1. n' = n /\ fn' = fn /\ sp0' = sp0 /\ call' = call /\ Base' = Base /\ Spilled' = Spilled
  BY SameCall DEF CallWithShadow
<1>2. /\ n \in 0..MaxArgs /\ MaxArgs \in Nat /\ MaxArgs >= 10
      /\ sp0 \in Nat /\ sp0 > 3 * MaxArgs /\ Top \in Nat /\ sp0 <= Top
      /\ fn \in {"callFn", "uefiCall"}
  BY Room DEF IInv
<1>3. /\ pc = "call" /\ pc' = "firmware" /\ sp' = sp - Shadow /\ rbp' = rbp /\ bx' = bx
      /\ reg' = reg /\ left' = left /\ stack' = stack
  BY DEF CallWithShadow
<1>4. fn = "callFn" /\ fn' # "uefiCall"
  BY <1>1, <1>2, <1>3 DEF IInv, UefiCallInv
<1>5. /\ rbp = OldRbp /\ bx = sp0 /\ n > 0 /\ RegsLoaded /\ left = Spilled
      /\ sp = Base - Spilled /\ \A k \in 5..n : stack[sp + k - 5] = k
  BY <1>3, <1>4 DEF IInv, CallFnInv
<1>6. CallInv' /\ FrameInv' /\ (stack \in [Stack -> Words])'
  BY SameFrame DEF CallWithShadow
<1>7. Base \in Int /\ Base <= sp0 /\ Base >= sp0 - 2 /\ Spilled \in 0..MaxArgs
  BY BaseNear DEF IInv
<1>8. sp' = Base - Spilled - Shadow /\ sp' \in Stack
  BY <1>2, <1>3, <1>5, <1>7 DEF Stack, Shadow
<1>9. \A k \in 5..n : stack'[sp' + k - 1] = k
  <2>1. \A k \in 5..n : sp' + k - 1 = sp + k - 5
    BY <1>2, <1>3, <1>5, <1>7 DEF Shadow
  <2> QED BY <1>3, <1>5, <2>1
<1>10. RegsLoaded'
  BY <1>1, <1>3, <1>5 DEF RegsLoaded
<1>11. TypeOK' /\ (bx \in Nat)'
  BY <1>3, <1>6, <1>8 DEF IInv, TypeOK
<1>12. CallFnInv'
  BY <1>1, <1>3, <1>5, <1>8, <1>9, <1>10 DEF CallFnInv, OldRbp
<1>13. EnterInv' /\ UefiCallInv'
  BY <1>3, <1>4 DEF EnterInv, UefiCallInv
<1> QED BY <1>6, <1>11, <1>12, <1>13 DEF IInv

\* BX restores the stack pointer, however the stack was padded.
LEMMA CallFnReturnStep == IInv /\ CallFnReturn => IInv'
<1> SUFFICES ASSUME IInv, CallFnReturn PROVE IInv'
  OBVIOUS
<1>1. n' = n /\ fn' = fn /\ sp0' = sp0 /\ call' = call
  BY SameCall DEF CallFnReturn
<1>2. /\ n \in 0..MaxArgs /\ MaxArgs \in Nat /\ MaxArgs >= 10
      /\ sp0 \in Nat /\ sp0 > 3 * MaxArgs /\ Top \in Nat /\ sp0 <= Top
  BY Room DEF IInv
<1>3. /\ pc = "back" /\ pc' = "ret" /\ sp' = bx /\ rbp' = rbp /\ bx' = bx /\ left' = 0
      /\ reg' = (IF left > 0 THEN [reg EXCEPT ![1] = stack[sp + Shadow + left - 1]] ELSE reg)
      /\ fn = "callFn"
  BY DEF CallFnReturn
<1>4. rbp = OldRbp /\ bx = sp0 /\ left = Spilled /\ sp = Base - Spilled - Shadow
  BY <1>3 DEF IInv, CallFnInv
<1>5. CallInv' /\ FrameInv' /\ (stack \in [Stack -> Words])'
  BY SameFrame DEF CallFnReturn
<1>6. Base \in Int /\ Base <= sp0 /\ Base >= sp0 - 2 /\ Spilled \in 0..MaxArgs
  BY BaseNear DEF IInv
<1>7. stack \in [Stack -> Words] /\ reg \in [Regs -> Words]
  BY DEF IInv, TypeOK
<1>8. reg' \in [Regs -> Words]
  <2>1. sp + Shadow + left - 1 \in Stack
    BY <1>2, <1>4, <1>6 DEF Stack, Shadow
  <2>2. stack[sp + Shadow + left - 1] \in Words
    BY <1>7, <2>1
  <2> QED BY <1>3, <1>7, <2>2, Zenon
<1>9. sp' \in Stack /\ left' \in 0..MaxArgs
  BY <1>2, <1>3, <1>4 DEF Stack
<1>10. TypeOK' /\ (bx \in Nat)'
  BY <1>3, <1>5, <1>8, <1>9 DEF IInv, TypeOK
<1>11. EnterInv' /\ CallFnInv' /\ UefiCallInv'
  BY <1>1, <1>3, <1>4 DEF EnterInv, CallFnInv, UefiCallInv, OldRbp
<1> QED BY <1>5, <1>10, <1>11 DEF IInv
-----------------------------------------------------------------------------
(***************************************************************************)
(* The steps of uefiCallN.                                                 *)
(***************************************************************************)
\* The frame is below the entry; the stores stay below the saved frame pointer, but for
\* the sixth argument of uefiCall6.
LEMMA UefiCallStep == IInv /\ UefiCall => IInv'
<1> SUFFICES ASSUME IInv, UefiCall PROVE IInv'
  OBVIOUS
<1>1. n' = n /\ fn' = fn /\ sp0' = sp0 /\ call' = call
  BY SameCall DEF UefiCall
<1>2. /\ n \in 0..MaxArgs /\ MaxArgs \in Nat /\ MaxArgs >= 10
      /\ sp0 \in Nat /\ sp0 > 3 * MaxArgs /\ Top \in Nat /\ sp0 <= Top
  BY Room DEF IInv
<1>3. pc = "enter" /\ pc' = "firmware" /\ fn = "uefiCall" /\ bx' = bx /\ left' = left
  BY DEF UefiCall
<1>4. sp = sp0 /\ rbp = OldRbp /\ \A k \in 4..n : stack[sp0 + k + 1] = k
  BY <1>3 DEF IInv, EnterInv
<1>5. FrameSize(n) = IF n <= 4 THEN 4 ELSE IF n \in {5, 6} THEN 5 ELSE n
  BY <1>2, Frame
<1> DEFINE f == sp0 - 1 - FrameSize(n)
<1>6. /\ f \in Int /\ f \in Stack /\ f < sp0 - 1 /\ f >= sp0 - 1 - MaxArgs
      /\ \A k \in 5..n : f + k - 1 < sp0
      /\ n # 6 => \A k \in 5..n : f + k - 1 < sp0 - 1
  BY <1>2, <1>5 DEF Stack
<1>7. /\ rbp' = sp0 - 1 /\ sp' = f
      /\ reg' = [k \in Regs |-> IF k > n THEN Junk ELSE IF k = 4 THEN stack[sp0 + 5] ELSE k]
      /\ stack' = [w \in Stack |->
           IF w - f \in 4..n - 1 THEN stack[sp0 + 2 + w - f]
           ELSE IF w = sp0 - 1 THEN OldRbp ELSE stack[w]]
  BY <1>4 DEF UefiCall
<1> HIDE DEF f
<1>8. stack \in [Stack -> Words] /\ \A w \in Stack : stack[w] \in Words
  BY DEF IInv, TypeOK
<1>9. \A k \in 5..n : stack'[f + k - 1] = k
  <2> SUFFICES ASSUME NEW k \in 5..n PROVE stack'[f + k - 1] = k
    OBVIOUS
  <2>1. /\ f + k - 1 \in Stack /\ f + k - 1 - f \in 4..n - 1
        /\ sp0 + 2 + (f + k - 1) - f = sp0 + k + 1 /\ k \in 4..n
    BY <1>2, <1>6 DEF Stack
  <2>2. \A w \in Stack : w - f \in 4..n - 1 => stack'[w] = stack[sp0 + 2 + w - f]
    BY <1>7, Zenon
  <2>3. PICK w \in Stack : w = f + k - 1
    BY <2>1
  <2>4. w - f \in 4..n - 1 /\ sp0 + 2 + w - f = sp0 + k + 1
    BY <1>2, <1>6, <2>1, <2>3
  <2>5. stack'[w] = stack[sp0 + k + 1]
    BY <2>2, <2>4
  <2> QED BY <1>4, <2>1, <2>3, <2>5
<1>10. \A w \in Stack : w > sp0 - 1 => stack'[w] = stack[w]
  <2> SUFFICES ASSUME NEW w \in Stack, w > sp0 - 1 PROVE stack'[w] = stack[w]
    OBVIOUS
  <2>1. ~(w - f \in 4..n - 1) /\ w # sp0 - 1
    <3>1. w \in Int /\ f \in Int
      BY <1>6, <1>2 DEF Stack
    <3>2. ASSUME w - f \in 4..n - 1 PROVE FALSE
      <4>1. w - f + 1 \in 5..n /\ f + (w - f + 1) - 1 = w
        BY <1>2, <3>1, <3>2
      <4>2. w < sp0
        BY <1>6, <4>1
      <4> QED BY <1>2, <3>1, <4>2
    <3> QED BY <1>2, <3>1, <3>2
  <2> QED BY <1>7, <2>1
<1>11. n # 6 => stack'[sp0 - 1] = OldRbp
  <2> SUFFICES ASSUME n # 6 PROVE stack'[sp0 - 1] = OldRbp
    OBVIOUS
  <2>1. ASSUME sp0 - 1 - f \in 4..n - 1 PROVE FALSE
    <3>1. sp0 - 1 - f + 1 \in 5..n /\ f + (sp0 - 1 - f + 1) - 1 = sp0 - 1
      BY <1>2, <1>6, <2>1
    <3>2. sp0 - 1 < sp0 - 1
      BY <1>6, <3>1
    <3> QED BY <1>2, <3>2
  <2>2. sp0 - 1 \in Stack
    BY <1>2 DEF Stack
  <2> QED BY <1>7, <2>1, <2>2
<1>12. stack' \in [Stack -> Words]
  <2> SUFFICES ASSUME NEW w \in Stack
               PROVE  (IF w - f \in 4..n - 1 THEN stack[sp0 + 2 + w - f]
                       ELSE IF w = sp0 - 1 THEN OldRbp ELSE stack[w]) \in Words
    BY <1>7
  <2>1. w - f \in 4..n - 1 => sp0 + 2 + w - f \in Stack
    BY <1>2, <1>6 DEF Stack
  <2>2. OldRbp \in Words
    BY <1>2 DEF OldRbp, Words, FrameWord
  <2> QED BY <1>8, <2>1, <2>2
<1>13. reg' \in [Regs -> Words] /\ RegsLoaded'
  <2>1. sp0 + 5 \in Stack /\ Junk \in Words /\ \A k \in Regs : k \in Words
    BY <1>2 DEF Stack, Words, Junk, Regs, FrameWord
  <2>2. stack[sp0 + 5] \in Words
    BY <1>8, <2>1
  <2>3. reg' \in [Regs -> Words]
    BY <1>7, <2>1, <2>2
  <2>4. n >= 4 => stack[sp0 + 5] = 4
    <3>1. n >= 4 => 4 \in 4..n /\ sp0 + 4 + 1 = sp0 + 5
      BY <1>2
    <3> QED BY <1>4, <3>1
  <2>5. \A k \in Regs : k <= n => reg'[k] = k
    BY <1>2, <1>7, <2>4 DEF Regs
  <2> QED BY <1>1, <2>3, <2>5 DEF RegsLoaded
<1>14. TypeOK' /\ (bx \in Nat)'
  <2>1. sp' \in Stack /\ rbp' \in Words
    BY <1>2, <1>6, <1>7 DEF Words, FrameWord
  <2> QED BY <1>3, <1>12, <1>13, <2>1 DEF IInv, TypeOK
<1>15. CallInv' /\ FrameInv'
  <2>1. \A w \in Stack : w >= sp0 => w > sp0 - 1
    BY <1>2 DEF Stack
  <2> QED BY <1>1, <1>10, <2>1 DEF IInv, CallInv, FrameInv
<1>16. UefiCallInv'
  BY <1>1, <1>3, <1>7, <1>9, <1>11, <1>13 DEF UefiCallInv, OldRbp, f
<1>17. EnterInv' /\ CallFnInv'
  BY <1>1, <1>3 DEF EnterInv, CallFnInv
<1> QED BY <1>14, <1>15, <1>16, <1>17 DEF IInv

\* The saved frame pointer comes back, and SP is that of the entry.
LEMMA UefiCallReturnStep == IInv /\ UefiCallReturn => IInv'
<1> SUFFICES ASSUME IInv, UefiCallReturn PROVE IInv'
  OBVIOUS
<1>1. n' = n /\ fn' = fn /\ sp0' = sp0 /\ call' = call
  BY SameCall DEF UefiCallReturn
<1>2. /\ n \in 0..MaxArgs /\ MaxArgs \in Nat /\ MaxArgs >= 10
      /\ sp0 \in Nat /\ sp0 > 3 * MaxArgs /\ Top \in Nat /\ sp0 <= Top
  BY Room DEF IInv
<1>3. /\ pc = "back" /\ pc' = "ret" /\ fn = "uefiCall" /\ rbp' = stack[rbp] /\ sp' = rbp + 1
      /\ bx' = bx /\ left' = left /\ reg' = reg
  BY DEF UefiCallReturn
<1>4. rbp = sp0 - 1 /\ (n # 6 => stack[sp0 - 1] = OldRbp)
  BY <1>3 DEF IInv, UefiCallInv
<1>5. CallInv' /\ FrameInv' /\ (stack \in [Stack -> Words])'
  BY SameFrame DEF UefiCallReturn
<1>6. sp' = sp0 /\ sp' \in Stack /\ rbp \in Stack
  BY <1>2, <1>3, <1>4 DEF Stack
<1>7. rbp' \in Words
  BY <1>3, <1>6 DEF IInv, TypeOK
<1>8. TypeOK' /\ (bx \in Nat)'
  BY <1>3, <1>5, <1>6, <1>7 DEF IInv, TypeOK
<1>9. EnterInv' /\ CallFnInv' /\ UefiCallInv'
  BY <1>1, <1>3, <1>4, <1>6 DEF EnterInv, CallFnInv, UefiCallInv, OldRbp
<1> QED BY <1>5, <1>8, <1>9 DEF IInv
-----------------------------------------------------------------------------
(***************************************************************************)
(* The callee, and the theorems.                                           *)
(***************************************************************************)
\* What the callee may write is below the caller's frame, and below the saved frame
\* pointer of uefiCallN but for n = 6.
LEMMA OwnIsBelow ==
  ASSUME IInv, pc = "firmware", NEW w \in Stack, w < sp \/ w \in Own
  PROVE  w < sp0 /\ (fn = "uefiCall" /\ n # 6 => w < sp0 - 1)
<1>1. /\ n \in 0..MaxArgs /\ MaxArgs \in Nat /\ MaxArgs >= 10
      /\ sp0 \in Nat /\ sp0 > 3 * MaxArgs /\ fn \in {"callFn", "uefiCall"} /\ w \in Int
  BY Room DEF IInv, Stack
<1>2. \/ w < sp \/ w \in sp..sp + 3 \/ \E k \in 5..n : w = sp + k - 1
  BY DEF Own
<1>3. CASE fn = "callFn"
  <2>1. sp = Base - Spilled - Shadow
    BY <1>3 DEF IInv, CallFnInv
  <2>2. Base \in Int /\ Base <= sp0
    BY BaseNear DEF IInv
  <2> QED BY <1>1, <1>2, <1>3, <2>1, <2>2 DEF Spilled, Shadow
<1>4. CASE fn = "uefiCall"
  <2>1. sp = sp0 - 1 - FrameSize(n)
    BY <1>4 DEF IInv, UefiCallInv
  <2>2. FrameSize(n) = IF n <= 4 THEN 4 ELSE IF n \in {5, 6} THEN 5 ELSE n
    BY <1>1, Frame
  <2> QED BY <1>1, <1>2, <1>4, <2>1, <2>2
<1> QED BY <1>1, <1>3, <1>4

\* The callee leaves the caller's frame and the saved frame pointer alone.
LEMMA FirmwareStep == IInv /\ Firmware => IInv'
<1> SUFFICES ASSUME IInv, Firmware PROVE IInv'
  OBVIOUS
<1>1. n' = n /\ fn' = fn /\ sp0' = sp0 /\ call' = call /\ Base' = Base /\ Spilled' = Spilled
  BY SameCall DEF Firmware
<1>2. /\ n \in 0..MaxArgs /\ MaxArgs \in Nat /\ MaxArgs >= 10
      /\ sp0 \in Nat /\ sp0 > 3 * MaxArgs /\ Top \in Nat /\ sp0 <= Top
  BY Room DEF IInv
<1>3. pc = "firmware" /\ pc' = "back" /\ sp' = sp /\ rbp' = rbp /\ bx' = bx /\ left' = left
  BY DEF Firmware
<1>4. stack \in [Stack -> Words] /\ reg \in [Regs -> Words] /\ Junk \in Words
  BY <1>2 DEF IInv, TypeOK, Junk, Words, FrameWord
<1>5. /\ stack' \in [Stack -> Words] /\ reg' \in [Regs -> Words]
      /\ \A w \in Stack : ~(w < sp \/ w \in Own) => stack'[w] = stack[w]
  <2>1. CASE stack' = stack /\ reg' = reg
    BY <1>4, <2>1
  <2>2. CASE /\ stack' = [w \in Stack |-> IF w < sp \/ w \in Own THEN Junk ELSE stack[w]]
             /\ reg' = [k \in Regs |-> Junk]
    BY <1>4, <2>2, Zenon
  <2> QED BY <2>1, <2>2 DEF Firmware
<1>6. \A w \in Stack : w >= sp0 => stack'[w] = stack[w]
  <2>1. \A w \in Stack : w >= sp0 => ~(w < sp0)
    BY <1>2 DEF Stack
  <2> QED BY <1>3, <1>5, <2>1, OwnIsBelow
<1>7. fn = "uefiCall" /\ n # 6 => stack'[sp0 - 1] = stack[sp0 - 1]
  <2>1. sp0 - 1 \in Stack /\ ~(sp0 - 1 < sp0 - 1)
    BY <1>2 DEF Stack
  <2> QED BY <1>3, <1>5, <2>1, OwnIsBelow
<1>8. TypeOK' /\ (bx \in Nat)'
  BY <1>3, <1>5 DEF IInv, TypeOK
<1>9. CallInv' /\ FrameInv'
  BY <1>1, <1>6 DEF IInv, CallInv, FrameInv
<1>10. EnterInv' /\ CallFnInv'
  BY <1>1, <1>3 DEF IInv, EnterInv, CallFnInv, OldRbp
<1>11. UefiCallInv'
  BY <1>1, <1>3, <1>7 DEF IInv, UefiCallInv, OldRbp
<1> QED BY <1>8, <1>9, <1>10, <1>11 DEF IInv

\* The invariant holds in every state of a call, for all stacks and all numbers of words.
THEOREM Invariance == Spec => []IInv
<1>1. IInv /\ [Next]_vars => IInv'
  <2> SUFFICES ASSUME IInv, [Next]_vars PROVE IInv'
    OBVIOUS
  <2>1. CASE UNCHANGED vars
    <3>1. UNCHANGED entry /\ UNCHANGED stack /\ pc' = pc /\ sp' = sp /\ reg' = reg /\ rbp' = rbp
          /\ bx' = bx /\ left' = left
      BY <2>1 DEF vars, entry
    <3>2. n' = n /\ fn' = fn /\ sp0' = sp0 /\ Base' = Base /\ Spilled' = Spilled
      BY <3>1, SameCall
    <3>3. CallInv' /\ FrameInv' /\ (stack \in [Stack -> Words])'
      BY <3>1, SameFrame
    <3>4. TypeOK' /\ (bx \in Nat)'
      BY <3>1, <3>3 DEF IInv, TypeOK
    <3>5. EnterInv' /\ CallFnInv' /\ UefiCallInv'
      BY <3>1, <3>2 DEF IInv, EnterInv, CallFnInv, UefiCallInv, RegsLoaded, OldRbp
    <3> QED BY <3>3, <3>4, <3>5 DEF IInv
  <2> QED
    BY <2>1, CallFnStep, PadStep, PushArgStep, ShadowOnlyStep, CallWithShadowStep,
       CallFnReturnStep, UefiCallStep, UefiCallReturnStep, FirmwareStep DEF Next
<1> QED BY InitIInv, <1>1, PTL DEF Spec

\* The variables of a call keep their types: SP stays in the stack, whatever is pushed.
THEOREM TypeCorrect == Spec => []TypeOK
<1>1. IInv => TypeOK
  BY DEF IInv
<1> QED BY <1>1, Invariance, PTL

\* The callee of callFn and of uefiCallN finds argument k in register k or in word k - 1
\* over its stack pointer, for every number of arguments and every stack pointer at entry;
\* and in the calls that programs make the stack is aligned to 16 bytes.
THEOREM ArgsAreDelivered == Spec => []ArgsDelivered
<1>1. IInv => ArgsDelivered
  <2> SUFFICES ASSUME IInv, pc = "firmware"
               PROVE  /\ \A k \in 1..n : k = IF k <= 4 THEN reg[k] ELSE stack[sp + k - 1]
                      /\ call \in ProgramCalls => sp % 2 = 0
    BY DEF ArgsDelivered
  <2>1. n \in 0..MaxArgs /\ fn \in {"callFn", "uefiCall"} /\ MaxArgs \in Nat
    BY Room DEF IInv
  <2>2. RegsLoaded /\ \A k \in 5..n : stack[sp + k - 1] = k
    BY <2>1 DEF IInv, CallFnInv, UefiCallInv
  <2>3. ASSUME NEW k \in 1..n PROVE k = IF k <= 4 THEN reg[k] ELSE stack[sp + k - 1]
    <3>1. k <= 4 => k \in Regs /\ k <= n
      BY <2>1 DEF Regs
    <3>2. ~(k <= 4) => k \in 5..n
      BY <2>1
    <3> QED BY <2>2, <3>1, <3>2 DEF RegsLoaded
  <2>4. ASSUME call \in ProgramCalls PROVE sp % 2 = 0
    <3>1. fn = "callFn" /\ n \in Few
      BY <2>4, ProgramFacts DEF fn, n
    <3>2. sp = Base - Spilled - Shadow
      BY <3>1 DEF IInv, CallFnInv
    <3>3. PICK h \in Int : sp = 2 * h
      BY <3>1, <3>2, BaseNear DEF IInv
    <3> QED BY <3>3
  <2> QED BY <2>3, <2>4
<1> QED BY <1>1, Invariance, PTL

\* When a call of the firmware returns, the caller has its stack pointer, its frame and,
\* but for uefiCall6, its frame pointer.
THEOREM CallerIsIntact == Spec => []CallerIntact
<1>1. IInv => CallerIntact
  <2> SUFFICES ASSUME IInv, pc = "ret"
               PROVE  /\ sp = sp0
                      /\ ~(fn = "uefiCall" /\ n = 6) => rbp = OldRbp
    BY DEF CallerIntact, IInv, FrameInv
  <2>1. fn \in {"callFn", "uefiCall"}
    BY Room DEF IInv
  <2> QED BY <2>1 DEF IInv, CallFnInv, UefiCallInv
<1> QED BY <1>1, Invariance, PTL

\* Every call that a program makes arrives at the service that is meant: through the
\* offset of its slot in ueficore, through the slot's address in package uefi.
THEOREM ServiceIsReached == Spec => []ServiceReached
<1>1. ServiceReached
  BY ProgramFacts DEF ServiceReached, Reached, fn
<1> QED BY <1>1, PTL
=============================================================================
