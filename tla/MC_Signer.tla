------------------------------ MODULE MC_Signer ------------------------------
(* Two kernels of different lengths, two initrds (symmetric), and the file    *)
(* an interrupted redirection leaves: an empty one.  Stub0, which boots what  *)
(* the unsigned command leaves, is checked beside it: a behaviour is one of   *)
(* the commands or one of the stub, while the other is at its start.          *)
EXTENDS Signer, Stub0, TLC

CONSTANTS k1, k2, i1, i2, t0

MC_Kernels == {k1, k2}
MC_Initrds == {i1, i2}
MC_Torns == {t0}
MC_Blobs == MC_Kernels \cup MC_Initrds \cup MC_Torns
MC_BlobLen == [b \in MC_Blobs |-> IF b = t0 THEN 0 ELSE IF b = k2 THEN 2 ELSE 1]
MC_Sha(b) == [sha256 |-> b]
\* "long" is too long for stub2, and for stub0 if initrd= comes before it.
MC_Cmds0 == [initrd \in BOOLEAN |-> IF initrd THEN {"quiet"} ELSE {"quiet", "long"}]

VARIABLE part

MC_Init ==
  \/ part = "signer" /\ Init /\ Stub0Init /\ file = NoFile
  \/ part = "stub0" /\ Stub0Init /\ Init /\ src = [kernel |-> k1, other |-> i1]
     /\ esp.initrd = NoBlob /\ keys = {}

SignerStep == part = "signer" /\ Next /\ UNCHANGED <<part, stub0Vars>>
Stub0Step == part = "stub0" /\ Stub0Next /\ UNCHANGED <<part, vars>>

MC_Spec == MC_Init /\ [][SignerStep \/ Stub0Step]_<<part, vars, stub0Vars>>

MC_Symmetry == Permutations(MC_Initrds)
=============================================================================
