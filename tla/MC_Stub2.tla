------------------------------ MODULE MC_Stub2 ------------------------------
(***************************************************************************)
(* A machine with ten pages of four bytes, six of them below "4G".  Blob   *)
(* kernel is a bootable kernel, tiny one shorter than the boot header,     *)
(* initrd an initrd of exactly one page.                                   *)
(***************************************************************************)
EXTENDS Stub2, FiniteSets

MC_Blobs == {"kernel", "tiny", "initrd"}
MC_BlobLen == [kernel |-> 5, tiny |-> 1, initrd |-> 4]
Linux == [valid |-> TRUE, setup |-> 2, handover |-> 2]
NotLinux == [valid |-> FALSE, setup |-> 0, handover |-> 0]
MC_Headers == {Linux, NotLinux}
MC_Header == [kernel |-> Linux, tiny |-> NotLinux, initrd |-> NotLinux]
MC_Sha(b) == <<"sha256", b.blob, b.len>>

Bound(k, i) ==
  [magic |-> TRUE, lines |-> 8, cmdLen |-> 2, utf8 |-> TRUE,
   kernelLength |-> BlobLen[k], kernelSha |-> Sha(Full(k)),
   initrdLength |-> IF i = NoBlob THEN 0 ELSE BlobLen[i],
   initrdSha |-> IF i = NoBlob THEN "0" ELSE Sha(Full(i))]

\* What setup-efi writes, for every choice of files.
SignerConfigs == {Bound(k, i) : k \in {"kernel", "tiny"}, i \in {NoBlob, "initrd", "tiny"}}

\* Sections written by hand: none at all, too few lines, lengths that do not
\* parse or are too large, a command line that is too long, not UTF-8 or empty
\* (setup-efi can leave that one too, see Signer), and a length that is not that
\* of the hashed file.
OtherConfigs ==
  LET b == Bound("kernel", "initrd") IN
  {[b EXCEPT !.magic = FALSE], [b EXCEPT !.lines = 1], [b EXCEPT !.lines = 3],
   [b EXCEPT !.lines = 5], [b EXCEPT !.kernelLength = NaN],
   [b EXCEPT !.initrdLength = NaN], [b EXCEPT !.kernelLength = 12],
   [b EXCEPT !.cmdLen = 5], [b EXCEPT !.utf8 = FALSE], [b EXCEPT !.cmdLen = 0],
   [b EXCEPT !.initrdLength = 6], [b EXCEPT !.kernelLength = 8]}

MC_Configs == SignerConfigs \cup OtherConfigs
=============================================================================
