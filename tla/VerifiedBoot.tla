---------------------------- MODULE VerifiedBoot ----------------------------
(***************************************************************************)
(* What a verified boot promises, with no word on how the stub works: the  *)
(* signed stub carries one binding; a boot attempt ends at most once,      *)
(* either by starting exactly what the binding names or by refusing.       *)
(* This is the sentence "the boot stub verifies that kernel/cmdline/initrd *)
(* are signed" of README.md as a specification.                            *)
(***************************************************************************)
CONSTANTS
  Bindings,        \* what a signed stub may be bound to
  Images,          \* what can be in memory as a kernel or an initrd
  NoImage,         \* no initrd
  Names(_, _, _)   \* Names(b, k, i): binding b names kernel k and initrd i

VARIABLES
  binding,         \* the binding of the stub that is running
  phase,           \* "deciding", then "started" or "refused"
  ran              \* the started kernel and initrd

avars == <<binding, phase, ran>>

Nothing == [kernel |-> NoImage, initrd |-> NoImage]

AInit ==
  /\ binding \in Bindings
  /\ phase = "deciding"
  /\ ran = Nothing

\* Control passes to the kernel, once, and only to what the binding names.
Start ==
  /\ phase = "deciding"
  /\ phase' = "started"
  /\ ran' \in [kernel : Images, initrd : Images \cup {NoImage}]
  /\ Names(binding, ran'.kernel, ran'.initrd)
  /\ UNCHANGED binding

\* The attempt ends without starting a kernel.
Refuse ==
  /\ phase = "deciding"
  /\ phase' = "refused"
  /\ UNCHANGED <<binding, ran>>

ANext == Refuse \/ Start

ASafety == AInit /\ [][ANext]_avars

\* A boot attempt does not hang: it is decided in the end.
ASpec == ASafety /\ WF_avars(ANext)
=============================================================================
