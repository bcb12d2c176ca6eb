------------------------------ MODULE Retention ------------------------------
(***************************************************************************)
(* Retention for training: an extract whose caller consents writes three   *)
(* objects to a bucket, one after another, in an executor thread; POST     *)
(* /v1/retention/delete lists the whole bucket page by page, collects the  *)
(* keys of a sha, and deletes them in batches.  Puts and deletes of many   *)
(* threads and replicas interleave at every call to the bucket; a call may *)
(* fail.  The bucket is strongly consistent and lists keys in order.       *)
(***************************************************************************)
EXTENDS Integers, FiniteSets

CONSTANTS Puts,         \* extract requests
          Deletes,      \* delete requests
          Shas,         \* documents, as numbers, for the order of keys
          KnownTenants, \* valid tenant slugs, as numbers; Default is one
          Default,      \* the slug "default"
          Days,         \* dates, 1 .. Days
          ListPage,     \* keys in one page of a listing (1000 in S3)
          DeleteBatch,  \* keys in one delete call (1000)
          MaxS3Faults   \* bound on failing calls and refused keys

ASSUME RetentionAssumption ==
  /\ Shas \subseteq Nat /\ KnownTenants \subseteq Nat /\ Default \in KnownTenants
  /\ Days \in Nat \ {0} /\ ListPage \in Nat \ {0} /\ DeleteBatch \in Nat \ {0}
  /\ MaxS3Faults \in Nat

VARIABLES bucket,    \* the keys that hold an object
          put,       \* the extract requests
          erase,     \* the delete requests
          day,       \* today
          s3Faults,  \* failures so far
          torn,      \* history: documents that a failure, or a delete that
                     \* overlapped a put, may have left in parts
          refused    \* history: keys the bucket declined to delete

retentionVars == <<bucket, put, erase, day, s3Faults, torn, refused>>

(* document.pdf, extract.json and meta.json, in the order of their names   *)
(* and of their writing.                                                   *)
Parts == 1 .. 3
ObjectKey(t, d, s, part) == [tenant |-> t, dt |-> d, sha |-> s, part |-> part]
ObjectKeys == [tenant : KnownTenants, dt : 1 .. Days, sha : Shas, part : Parts]
Folder(k) == [tenant |-> k.tenant, dt |-> k.dt, sha |-> k.sha]

(* prefix/tenant=/dt=/sha256=/name compares as its segments do.            *)
Before(j, k) == \/ j.tenant < k.tenant
                \/ j.tenant = k.tenant /\ j.dt < k.dt
                \/ j.tenant = k.tenant /\ j.dt = k.dt /\ j.sha < k.sha
                \/ Folder(j) = Folder(k) /\ j.part < k.part

(* What a form field or header says: yes, no, or nothing at all.           *)
Tokens == {"absent", "yes", "no"}

(* The form is canonical, the header counts only in its absence.           *)
Consent(form, header) == \/ form = "yes"
                         \/ form = "absent" /\ header = "yes"

(* An absent or malformed tenant header falls back to the default.         *)
Absent == 0 - 1
Malformed == 0 - 2
Headers == KnownTenants \union {Absent, Malformed}
NormaliseTenant(header) == IF header \in {Absent, Malformed} THEN Default ELSE header

NoKey == [tenant |-> 0, dt |-> 0, sha |-> 0, part |-> 0]
RetentionInit ==
  /\ bucket = {}
  /\ put = [p \in Puts |-> [pc |-> "idle", tenant |-> Default, sha |-> 0, dt |-> 0, next |-> 1]]
  /\ erase = [e \in Deletes |-> [pc |-> "idle", sha |-> 0, token |-> NoKey,
                                 matches |-> {}, there |-> {}]]
  /\ day = 1
  /\ s3Faults = 0
  /\ torn = {}
  /\ refused = {}

PutFolder(p) == [tenant |-> put[p].tenant, dt |-> put[p].dt, sha |-> put[p].sha]
Putting == {p \in Puts : put[p].pc = "putting"}
Erasing == {e \in Deletes : erase[e].pc \in {"listing", "deleting"}}

(* _maybe_retain: no consent, no put.  The date of the keys is today's.    *)
MaybeRetain(p, tenantHeader, s, form, header) ==
  /\ put[p].pc = "idle"
  /\ LET t == NormaliseTenant(tenantHeader)
         here == [tenant |-> t, dt |-> day, sha |-> s]
     IN  IF Consent(form, header)
         THEN /\ put' = [put EXCEPT ![p] = [pc |-> "putting", tenant |-> t, sha |-> s,
                                            dt |-> day, next |-> 1]]
              /\ torn' = IF \E e \in Erasing : erase[e].sha = s
                         THEN torn \union {here} ELSE torn
         ELSE /\ put' = [put EXCEPT ![p].pc = "done"]
              /\ UNCHANGED torn
  /\ UNCHANGED <<bucket, erase, day, s3Faults, refused>>

(* A mutant: each part is filed under the day it is written.               *)
PutObjectDatedNow(p) ==
  /\ put[p].pc = "putting"
  /\ bucket' = bucket \union {ObjectKey(put[p].tenant, day, put[p].sha, put[p].next)}
  /\ put' = [put EXCEPT ![p].next = @ + 1,
                        ![p].pc = IF put[p].next = 3 THEN "done" ELSE @]
  /\ UNCHANGED <<erase, day, s3Faults, torn, refused>>

(* One put_object; the thread goes on to the next part.  For history, what *)
(* is written anew is no longer what a delete found.                       *)
PutObject(p) ==
  /\ put[p].pc = "putting"
  /\ LET key == ObjectKey(put[p].tenant, put[p].dt, put[p].sha, put[p].next)
     IN  /\ bucket' = bucket \union {key}
         /\ erase' = [e \in Deletes |-> [erase[e] EXCEPT !.there = @ \ {key}]]
  /\ put' = [put EXCEPT ![p].next = @ + 1,
                        ![p].pc = IF put[p].next = 3 THEN "done" ELSE @]
  /\ UNCHANGED <<day, s3Faults, torn, refused>>

(* A put_object raises: the rest is not written, the extract is answered.  *)
PutFails(p) ==
  /\ put[p].pc = "putting"
  /\ s3Faults < MaxS3Faults
  /\ s3Faults' = s3Faults + 1
  /\ put' = [put EXCEPT ![p].pc = "done"]
  /\ torn' = torn \union {PutFolder(p)}
  /\ UNCHANGED <<bucket, erase, day, refused>>

(* What was there when a delete began is kept for EraseComplete only.      *)
StartErase(e, s) ==
  /\ erase[e].pc = "idle"
  /\ erase' = [erase EXCEPT ![e] = [pc |-> "listing", sha |-> s, token |-> NoKey,
                 matches |-> {}, there |-> {k \in bucket : k.sha = s}]]
  /\ torn' = torn \union {PutFolder(p) : p \in {q \in Putting : put[q].sha = s}}
  /\ UNCHANGED <<bucket, put, day, s3Faults, refused>>

(* One page of list_objects_v2: the first keys after the token.            *)
Later(token) == {k \in bucket : token = NoKey \/ Before(token, k)}
PageAfter(token) ==
  {k \in Later(token) : Cardinality({j \in Later(token) : Before(j, k)}) < ListPage}

(* A mutant: the listing stops at its first page.                          *)
ListObjectsOnce(e) ==
  /\ erase[e].pc = "listing"
  /\ erase' = [erase EXCEPT ![e].matches = {k \in PageAfter(NoKey) : k.sha = erase[e].sha},
                            ![e].pc = "deleting"]
  /\ UNCHANGED <<bucket, put, day, s3Faults, torn, refused>>

ListObjects(e) ==
  /\ erase[e].pc = "listing"
  /\ LET page == PageAfter(erase[e].token)
         truncated == page # Later(erase[e].token)
     IN  erase' = [erase EXCEPT
           ![e].matches = @ \union {k \in page : k.sha = erase[e].sha},
           ![e].token = IF truncated
                        THEN CHOOSE k \in page : \A j \in page : j = k \/ Before(j, k)
                        ELSE @,
           ![e].pc = IF truncated THEN @ ELSE "deleting"]
  /\ UNCHANGED <<bucket, put, day, s3Faults, torn, refused>>

(* One delete_objects over the next batch.  The bucket may decline single  *)
(* keys and says so in an answer the code does not read.                   *)
Batch(e) == {k \in erase[e].matches :
               Cardinality({j \in erase[e].matches : Before(j, k)}) < DeleteBatch}
DeleteObjects(e, declined) ==
  /\ erase[e].pc = "deleting"
  /\ erase[e].matches # {}
  /\ declined \subseteq Batch(e)
  /\ s3Faults + Cardinality(declined) <= MaxS3Faults
  /\ s3Faults' = s3Faults + Cardinality(declined)
  /\ bucket' = bucket \ (Batch(e) \ declined)
  /\ refused' = refused \union declined
  /\ erase' = [erase EXCEPT ![e].matches = @ \ Batch(e)]
  /\ torn' = torn \union {Folder(k) : k \in declined}
  /\ UNCHANGED <<put, day>>

FinishErase(e) ==
  /\ erase[e].pc = "deleting"
  /\ erase[e].matches = {}
  /\ erase' = [erase EXCEPT ![e].pc = "done"]
  /\ UNCHANGED <<bucket, put, day, s3Faults, torn, refused>>

(* A listing or a delete call raises: the caller is told by a 500, and     *)
(* what was deleted so far stays deleted.                                  *)
EraseFails(e) ==
  /\ erase[e].pc \in {"listing", "deleting"}
  /\ s3Faults < MaxS3Faults
  /\ s3Faults' = s3Faults + 1
  /\ erase' = [erase EXCEPT ![e].pc = "failed"]
  /\ torn' = torn \union {Folder(k) : k \in erase[e].there}
  /\ UNCHANGED <<bucket, put, day, refused>>

Midnight == /\ day < Days
            /\ day' = day + 1
            /\ UNCHANGED <<bucket, put, erase, s3Faults, torn, refused>>

RetentionNext ==
  \/ \E p \in Puts, h \in Headers, s \in Shas, form, header \in Tokens :
       MaybeRetain(p, h, s, form, header)
  \/ \E p \in Puts : PutObject(p) \/ PutFails(p)
  \/ \E e \in Deletes, s \in Shas : StartErase(e, s)
  \/ \E e \in Deletes : ListObjects(e) \/ FinishErase(e) \/ EraseFails(e)
  \/ \E e \in Deletes : \E declined \in SUBSET Batch(e) : DeleteObjects(e, declined)
  \/ Midnight

RetentionSpec == RetentionInit /\ [][RetentionNext]_retentionVars

(***************************************************************************)
(* Properties.                                                             *)
(***************************************************************************)

(* "Erase every object" of the sha, in every partition: when a delete      *)
(* answers, nothing it found at its start stands any more, however the     *)
(* puts and deletes of others shifted the pages of its listing; unless the *)
(* bucket declined the key, which the code does not notice, or it has been *)
(* written again since.                                                    *)
EraseComplete ==
  \A e \in Deletes : erase[e].pc = "done" => erase[e].there \intersect bucket \subseteq refused

(* No retained document is left in parts, its PDF without its metadata:    *)
(* one nobody is writing or erasing is whole, unless a call failed or a    *)
(* delete overlapped its put.                                              *)
WholeUnlessTorn ==
  \A k \in bucket :
    \/ Folder(k) \in torn
    \/ \E p \in Putting : PutFolder(p) = Folder(k)
    \/ \E e \in Erasing : erase[e].sha = k.sha
    \/ \A part \in Parts : ObjectKey(k.tenant, k.dt, k.sha, part) \in bucket
=============================================================================
