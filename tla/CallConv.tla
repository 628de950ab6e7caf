------------------------------ MODULE CallConv ------------------------------
(***************************************************************************)
(* How Go calls the firmware: callFn (ueficore/uefi.s, and its copy in     *)
(* uefi/uefi.s) and uefiCall0..uefiCall10 (uefi/asm_amd64.S).  Addresses   *)
(* and offsets are in words of 8 bytes, so 16-byte alignment is evenness.  *)
(* Word k of the argument list is the number k.                            *)
(*                                                                         *)
(* The callee (external) follows the UEFI x64 convention: four arguments   *)
(* in rcx, rdx, r8 and r9, the k-th above four in word k - 1 over the      *)
(* stack pointer of the call; it keeps rbx, rbp, r12-r15, and may write    *)
(* the volatile registers, its home words and its own arguments.           *)
(* Module Abi has the calls that the packages make.                        *)
(***************************************************************************)
EXTENDS Abi

CONSTANTS
  MaxArgs,      \* 10
  Entries       \* stack pointers at entry, in words

Shadow == 4
Regs == 1..4                       \* rcx, rdx, r8, r9
Junk == 0                          \* what nobody wrote
OldRbp == MaxArgs + 1              \* the caller's frame pointer
FrameWord == MaxArgs + 2           \* a word of the caller's frame

ASSUME CallConvAssumptions ==
  /\ MaxArgs \in Nat /\ MaxArgs >= 10
  /\ \A s \in Entries : s \in Nat /\ s > 3 * MaxArgs
  /\ \E s \in Entries : \A t \in Entries : t <= s

VARIABLES
  call,      \* the call: which service, through which function, and with what
  sp0,       \* stack pointer at entry
  pc, sp,
  stack,     \* the words of the stack
  reg,       \* the argument registers
  rbp, bx,
  left       \* r13, then r14: words to push or to pop

vars == <<call, sp0, pc, sp, stack, reg, rbp, bx, left>>
entry == <<call, sp0>>

fn == call.via      \* "callFn" or "uefiCall"
n == call.n         \* number of arguments

Top == CHOOSE s \in Entries : \A t \in Entries : t <= s
Stack == 0..Top + MaxArgs + 2

\* UefiCall3 and UefiCall5 are not in asm_amd64.S's place: they are Go functions.
Calls ==
  UeficoreCalls \cup UefiCalls
  \cup {c \in AnyCalls(MaxArgs) : c.via = "uefiCall" => Via(c.n) = "uefiCall"}

\* Over the entry of uefiCall are the return address, four home words, and the
\* arguments d, e, ...; over that of callFn the Go frame.
Init ==
  /\ call \in Calls
  /\ sp0 \in {s \in Entries : fn = "uefiCall" => s % 2 = 1}
  /\ pc = "enter" /\ sp = sp0
  /\ stack = [w \in Stack |->
       IF w < sp0 THEN Junk
       ELSE IF fn = "uefiCall" /\ w - sp0 \in 5..n + 1 THEN w - sp0 - 1
       ELSE FrameWord]
  /\ reg = [k \in Regs |-> Junk]
  /\ rbp = OldRbp /\ bx = 0 /\ left = 0

Push(v) == sp' = sp - 1 /\ stack' = [stack EXCEPT ![sp - 1] = v]

(***************************************************************************)
(* callFn                                                                  *)
(***************************************************************************)
\* Without arguments nothing is called.  Else SP is kept in BX, and the registers
\* are loaded.
CallFn ==
  /\ pc = "enter" /\ fn = "callFn"
  /\ IF n = 0
     THEN pc' = "ret" /\ UNCHANGED <<bx, reg, left>>
     ELSE /\ bx' = sp
          /\ reg' = [k \in Regs |-> IF k <= n THEN k ELSE Junk]
          /\ left' = IF n > 4 THEN n - 4 ELSE 0
          /\ pc' = IF n > 4 THEN "pad" ELSE "shadow"
  /\ UNCHANGED <<entry, sp, stack, rbp>>

AlignDown(s) == s - (s % 2)


\* CMPQ R13, (R13 & 1): equal only for one word on the stack.
Padded(r) == r = r % 2

Pad ==
  /\ pc = "pad"
  /\ IF Padded(left)
     THEN sp' = AlignDown(sp) - 1 /\ stack' = [stack EXCEPT ![AlignDown(sp) - 1] = Junk]
     ELSE sp' = AlignDown(sp) /\ UNCHANGED stack
  /\ pc' = "push"
  /\ UNCHANGED <<entry, reg, rbp, bx, left>>

\* Mutant: the first word on the stack is pushed first.
PushArg_Order ==
  /\ pc = "push"
  /\ Push(n + 1 - left)
  /\ left' = IF left = 1 THEN n - 4 ELSE left - 1
  /\ pc' = IF left = 1 THEN "call" ELSE "push"
  /\ UNCHANGED <<entry, reg, rbp, bx>>

\* From the last argument down to the fifth; R14 counts them for the way back.
PushArg ==
  /\ pc = "push"
  /\ Push(4 + left)
  /\ left' = IF left = 1 THEN n - 4 ELSE left - 1
  /\ pc' = IF left = 1 THEN "call" ELSE "push"
  /\ UNCHANGED <<entry, reg, rbp, bx>>

\* At most four arguments.
ShadowOnly ==
  /\ pc = "shadow"
  /\ sp' = AlignDown(sp)
  /\ pc' = "call"
  /\ UNCHANGED <<entry, stack, reg, rbp, bx, left>>

CallWithShadow ==
  /\ pc = "call"
  /\ sp' = sp - Shadow
  /\ pc' = "firmware"
  /\ UNCHANGED <<entry, stack, reg, rbp, bx, left>>

\* Mutant: SP is computed, not restored.
CallFnReturn_Add ==
  /\ pc = "back" /\ fn = "callFn"
  /\ sp' = sp + Shadow + left
  /\ left' = 0
  /\ pc' = "ret"
  /\ UNCHANGED <<entry, stack, reg, rbp, bx>>

\* The words are popped into CX, one by one; then BX is SP again.
CallFnReturn ==
  /\ pc = "back" /\ fn = "callFn"
  /\ reg' = IF left > 0 THEN [reg EXCEPT ![1] = stack[sp + Shadow + left - 1]] ELSE reg
  /\ sp' = bx /\ left' = 0
  /\ pc' = "ret"
  /\ UNCHANGED <<entry, stack, rbp, bx>>

(***************************************************************************)
(* uefiCallN                                                               *)
(***************************************************************************)

\* subq: 0x20 up to four arguments, then 0x28, 0x28, 0x38, 0x40, 0x48, 0x50.
FrameSize(k) == CASE k <= 4 -> 4 [] k \in {5, 6} -> 5 [] OTHER -> k

\* pushq %rbp; movq %rsp, %rbp; subq; the register arguments move down by one, d
\* and the following ones come from the caller's frame.  Stores go up from 0x20(%rsp).
UefiCall ==
  /\ pc = "enter" /\ fn = "uefiCall"
  /\ rbp' = sp - 1
  /\ sp' = sp - 1 - FrameSize(n)
  /\ reg' = [k \in Regs |-> IF k > n THEN Junk ELSE IF k = 4 THEN stack[sp + 5] ELSE k]
  /\ stack' = [w \in Stack |->
       IF w - sp' \in 4..n - 1 THEN stack[sp + 2 + w - sp']
       ELSE IF w = sp - 1 THEN rbp ELSE stack[w]]
  /\ pc' = "firmware"
  /\ UNCHANGED <<entry, bx, left>>

\* movq %rbp, %rsp; popq %rbp; ret
UefiCallReturn ==
  /\ pc = "back" /\ fn = "uefiCall"
  /\ rbp' = stack[rbp]
  /\ sp' = rbp + 1
  /\ pc' = "ret"
  /\ UNCHANGED <<entry, stack, reg, bx, left>>

(***************************************************************************)
(* The callee (external).                                                  *)
(***************************************************************************)
Own == sp..sp + 3 \cup {sp + k - 1 : k \in 5..n}

Firmware ==
  /\ pc = "firmware"
  /\ \/ UNCHANGED <<stack, reg>>
     \/ /\ stack' = [w \in Stack |-> IF w < sp \/ w \in Own THEN Junk ELSE stack[w]]
        /\ reg' = [k \in Regs |-> Junk]
  /\ pc' = "back"
  /\ UNCHANGED <<entry, sp, rbp, bx, left>>

\* CALL (DI) goes where the word at DI says, callq *%rax to rax itself: the service, or
\* what the first bytes of its code are as an address.
Reached == IF (fn = "callFn") = (call.passes = "entry") THEN call.slot ELSE "its code"

Next ==
  \/ CallFn \/ Pad \/ PushArg \/ ShadowOnly \/ CallWithShadow \/ CallFnReturn
  \/ UefiCall \/ UefiCallReturn \/ Firmware

Spec == Init /\ [][Next]_vars
-----------------------------------------------------------------------------
Words == 0..Top + FrameWord

\* Types.
TypeOK ==
  /\ pc \in {"enter", "pad", "push", "shadow", "call", "firmware", "back", "ret"}
  /\ sp \in Stack /\ left \in 0..MaxArgs
  /\ stack \in [Stack -> Words] /\ reg \in [Regs -> Words] /\ rbp \in Words

\* The callee finds each argument in its place, whatever their number; and in the calls
\* that programs make the stack is aligned (callFn pads one word, two or six need none).
ArgsDelivered ==
  pc = "firmware" =>
    /\ \A k \in 1..n : k = IF k <= 4 THEN reg[k] ELSE stack[sp + k - 1]
    /\ call \in ProgramCalls => sp % 2 = 0

\* A call leaves the stack pointer, the caller's frame and its frame pointer as they were,
\* whatever the callee wrote into the words that are its own.  (uefiCall6 alone stores
\* its last argument over the saved frame pointer: FramePointerKept.)
CallerIntact ==
  pc = "ret" =>
    /\ sp = sp0
    /\ \A w \in Stack : w >= sp0 /\ ~(fn = "uefiCall" /\ w - sp0 \in 5..n + 1)
         => stack[w] = FrameWord
    /\ ~(fn = "uefiCall" /\ n = 6) => rbp = OldRbp

\* Each call that a program makes arrives at the service it is meant for, through an
\* offset, a slot and one or two loads of an address.
ServiceReached == pc = "firmware" /\ call \in ProgramCalls => Reached = call.meant

\* The two descriptions of the firmware agree: fields lie at the same place and have the
\* same width, but for the end of a time; services get the same number of words, but for
\* the 0 after the arguments of Open, and Attributes, which GetVariable leaves out.
DescriptionsAgree ==
  pc = "firmware" /\ call.package = "ueficore" =>
    /\ SameCount(call) \/ call.meant \in {"getVariable", "open"}
    /\ \A pair \in Structures :
         Misplaced(pair) \subseteq
           IF pair[1] = efiTime THEN {"Nanosecond", "TimeZone", "Daylight"} ELSE {}

-----------------------------------------------------------------------------
\* What the repository says and the code does not do: each statement is false in this
\* specification, as TLC shows when it stands in the configuration (see README).

\* "ensure 16-byte alignment" (uefi.s:63): the stack is aligned at each call of callFn.
AlignedAtCall == pc = "firmware" /\ fn = "callFn" => sp % 2 = 0

\* "0x20 shadow + 2x8 spill" (asm_amd64.S:90): the spilled words are in the frame of
\* uefiCall, so that the caller gets its frame pointer back.
FramePointerKept == pc = "ret" => rbp = OldRbp

\* "callService calls an UEFI service" (uefi/call.go:13), and the methods of package uefi
\* the one they are named for.
MethodsReach == pc = "firmware" => Reached = call.meant

\* "fileInfo represents an EFI_FILE_INFO instance", and efiTime an EFI_TIME
\* (ueficore/file.go:44, 59).
TimesDecoded == pc = "ret" => \A pair \in Structures : Misplaced(pair) = {}
=============================================================================
