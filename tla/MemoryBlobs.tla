----------------------------- MODULE MemoryBlobs -----------------------------
(***************************************************************************)
(* MemoryBlobStore: PDF bytes by tenant and hash, under one limit on the   *)
(* bytes of all, the least recently used going first.  Called from the     *)
(* event loop only, so that calls do not overlap.                          *)
(***************************************************************************)
EXTENDS Integers, Sequences, SequencesExt

CONSTANTS BlobTenants,
          BlobSize,      \* by hash, the size of the bytes
          MaxBlobBytes   \* max_bytes

ASSUME BlobAssumption == /\ BlobSize \in [DOMAIN BlobSize -> Nat \ {0}]
                         /\ MaxBlobBytes \in Nat

VARIABLES blobs,       \* _store: its keys, in its order
          totalBytes,  \* _total_bytes
          recent       \* history: keys ever put, in the order of their last use

blobVars == <<blobs, totalBytes, recent>>

Scoped(sha, tenant) == <<tenant, sha>>
SizeOf(key) == BlobSize[key[2]]
Bytes(keys) == LET upTo[n \in 0 .. Len(keys)] ==
                     IF n = 0 THEN 0 ELSE upTo[n - 1] + SizeOf(keys[n])
               IN  upTo[Len(keys)]
Held(key) == Contains(blobs, key)
Without(seq, key) == IF Contains(seq, key)
                     THEN RemoveAt(seq, CHOOSE i \in DOMAIN seq : seq[i] = key) ELSE seq
MovedToEnd(seq, key) == Append(Without(seq, key), key)

BlobInit == blobs = <<>> /\ totalBytes = 0 /\ recent = <<>>

(* popitem while the total is over the limit and two blobs are left.       *)
Popped(seq, total) ==
  CHOOSE n \in 0 .. Len(seq) - 1 :
    LET fits(i) == total - Bytes(SubSeq(seq, 1, i)) <= MaxBlobBytes \/ i = Len(seq) - 1
    IN  fits(n) /\ \A i \in 0 .. n - 1 : ~fits(i)

(* A mutant: the old bytes stay in the total.                              *)
PutBlobAgain(key) ==
  LET order == MovedToEnd(blobs, key)
      total == totalBytes + SizeOf(key)
      n == Popped(order, total)
  IN  /\ blobs' = SubSeq(order, n + 1, Len(order))
      /\ totalBytes' = total - Bytes(SubSeq(order, 1, n))
      /\ recent' = MovedToEnd(recent, key)

(* A put of what is held takes the old bytes out of the total first.       *)
PutBlob(key) ==
  LET order == MovedToEnd(blobs, key)
      total == totalBytes - (IF Held(key) THEN SizeOf(key) ELSE 0) + SizeOf(key)
      n == Popped(order, total)
  IN  /\ blobs' = SubSeq(order, n + 1, Len(order))
      /\ totalBytes' = total - Bytes(SubSeq(order, 1, n))
      /\ recent' = MovedToEnd(recent, key)

(* A hit moves to the end; a miss changes nothing.                         *)
GetBlob(key) ==
  /\ Held(key)
  /\ blobs' = MovedToEnd(blobs, key)
  /\ recent' = MovedToEnd(recent, key)
  /\ UNCHANGED totalBytes

BlobNext == \E sha \in DOMAIN BlobSize, tenant \in BlobTenants :
              PutBlob(Scoped(sha, tenant)) \/ GetBlob(Scoped(sha, tenant))
BlobSpec == BlobInit /\ [][BlobNext]_blobVars

(***************************************************************************)
(* Property.                                                               *)
(***************************************************************************)

(* A client may send a hash instead of bytes it has lately sent or named:  *)
(* a blob is held as long as it and everything used since fit the limit,   *)
(* whatever was replaced, evicted or too large in between; and the blobs   *)
(* together keep the limit, but for a single one that is larger alone.     *)
RecentBlobsHeld ==
  /\ \A i \in DOMAIN recent :
       Bytes(SubSeq(recent, i, Len(recent))) <= MaxBlobBytes => Held(recent[i])
  /\ recent # <<>> => Held(Last(recent))
  /\ Bytes(blobs) <= MaxBlobBytes \/ Len(blobs) = 1
=============================================================================
