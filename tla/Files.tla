------------------------------- MODULE Files -------------------------------
(***************************************************************************)
(* Files of the EFI system partition and what is read of them.  A content  *)
(* is a blob with a length; bytes are the first len bytes of a blob; blobs *)
(* differ from their first byte on.  Sha is SHA-256 as hexadecimal text.   *)
(***************************************************************************)
EXTENDS Naturals

CONSTANTS
  Blobs,        \* contents that files (and stale memory) can have
  BlobLen,      \* their lengths in bytes
  NoBlob,       \* no file
  MaxLen,       \* the largest usize
  Sha(_)        \* digest of bytes

Min(a, b) == IF a <= b THEN a ELSE b

Bytes == [blob : Blobs \cup {NoBlob}, len : 0..MaxLen]
NoBytes == [blob |-> NoBlob, len |-> 0]
Prefix(b, n) == [blob |-> b, len |-> n]
Full(b) == Prefix(b, BlobLen[b])

\* The bytes that loadFile reads: at most size, and size becomes their number.
Loaded(file, size) == Prefix(file, Min(size, BlobLen[file]))

ASSUME FilesAssumptions ==
  /\ NoBlob \notin Blobs
  /\ MaxLen \in Nat
  /\ BlobLen \in [Blobs -> 0..MaxLen]

\* SHA-256 has no collision among the byte strings that occur.
ASSUME ShaInjective == \A x, y \in Bytes : Sha(x) = Sha(y) => x = y
=============================================================================
