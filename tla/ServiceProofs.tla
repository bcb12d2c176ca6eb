---------------------------- MODULE ServiceProofs ---------------------------
(***************************************************************************)
(* Theorems about the parts beside the pipeline: Retention, the ingest of  *)
(* a URL, the edge worker, the renders, the in-memory blob store, the      *)
(* estimates of spot colours and the colours of a summary.                 *)
(***************************************************************************)
EXTENDS Retention, UrlIngest, Edge, RenderApi, MemoryBlobs, SpotColor, SelectionProofs,
        FiniteSetTheorems, SequenceTheorems, NaturalsInduction, TLAPS

-----------------------------------------------------------------------------
(* Retention, for any number of requests, documents, tenants and days.     *)

PutRecord == [pc : {"idle", "putting", "done"}, tenant : Nat, sha : Nat, dt : Nat, next : 1 .. 4]
EraseRecord == [pc : {"idle", "listing", "deleting", "done", "failed"}, sha : Nat,
                token : ObjectKeys \union {NoKey}, matches : SUBSET ObjectKeys,
                there : SUBSET ObjectKeys]

RetentionType ==
  /\ bucket \subseteq ObjectKeys /\ IsFiniteSet(bucket)
  /\ put \in [Puts -> PutRecord]
  /\ erase \in [Deletes -> EraseRecord]
  /\ day \in 1 .. Days

\* A put under way writes keys of a known tenant, a document and a day of this deployment.
PutsInPlace ==
  \A p \in Putting : /\ put[p].tenant \in KnownTenants /\ put[p].dt \in 1 .. Days
                     /\ put[p].sha \in Shas /\ put[p].next \in Parts

\* What an erase found at its start stands only where its listing or its batches have yet
\* to come, or where the bucket declined.
ErasesReach ==
  \A e \in Deletes : \A k \in erase[e].there \intersect bucket :
    /\ erase[e].pc = "listing" => \/ k \in erase[e].matches \union refused
                                 \/ erase[e].token = NoKey
                                 \/ Before(erase[e].token, k)
    /\ erase[e].pc = "deleting" => k \in erase[e].matches \union refused
    /\ erase[e].pc = "done" => k \in refused

ErasesOwn == \A e \in Erasing : \A k \in erase[e].matches \union erase[e].there :
                k.sha = erase[e].sha

RefusedTorn == \A k \in refused : Folder(k) \in torn

\* A put and an erase of the same document never overlap unnoticed.
OverlapTorn == \A p \in Putting, e \in Erasing :
                  put[p].sha = erase[e].sha => PutFolder(p) \in torn

\* What was written since an erase began is of a put that it overlapped.
NewTorn == \A e \in Erasing, k \in bucket :
              k.sha = erase[e].sha /\ k \notin erase[e].there => Folder(k) \in torn

PutsSoFar ==
  \A p \in Putting :
    \/ PutFolder(p) \in torn
    \/ \A part \in 1 .. put[p].next - 1 :
         ObjectKey(put[p].tenant, put[p].dt, put[p].sha, part) \in bucket

RetentionInv == /\ RetentionType /\ PutsInPlace
                /\ ErasesReach /\ ErasesOwn
                /\ RefusedTorn /\ OverlapTorn /\ NewTorn /\ PutsSoFar /\ WholeUnlessTorn

-----------------------------------------------------------------------------
(* The order of keys.                                                      *)

LEMMA BeforeIsOrder ==
  ASSUME NEW j \in ObjectKeys, NEW k \in ObjectKeys, NEW l \in ObjectKeys
  PROVE  /\ ~Before(j, j)
         /\ j = k \/ Before(j, k) \/ Before(k, j)
         /\ Before(j, k) /\ Before(k, l) => Before(j, l)
<1>1. ASSUME NEW x \in ObjectKeys
      PROVE  x.tenant \in Nat /\ x.dt \in Nat /\ x.sha \in Nat /\ x.part \in Nat
  <2>1. x.tenant \in KnownTenants /\ x.dt \in 1 .. Days /\ x.sha \in Shas /\ x.part \in 1 .. 3
    BY DEF ObjectKeys, Parts
  <2>2. KnownTenants \subseteq Nat /\ Shas \subseteq Nat /\ Days \in Nat
    BY RetentionAssumption DEF RetentionAssumption
  <2>3. x.tenant \in Nat /\ x.sha \in Nat
    BY <2>1, <2>2
  <2>4. x.dt \in Nat
    BY <2>1, <2>2
  <2>5. x.part \in Nat
    BY <2>1
  <2> QED
    BY <2>3, <2>4, <2>5
<1>2. \A a, b \in ObjectKeys : Folder(a) = Folder(b)
        <=> a.tenant = b.tenant /\ a.dt = b.dt /\ a.sha = b.sha
  BY DEF Folder
<1>3. j.tenant = k.tenant /\ j.dt = k.dt /\ j.sha = k.sha /\ j.part = k.part => j = k
  BY DEF ObjectKeys
<1> QED
  BY <1>1, <1>2, <1>3 DEF Before

\* A finite set of keys that is not empty has a first and a last key.
LEMMA KeysHaveEnds ==
  ASSUME NEW S \in SUBSET ObjectKeys, IsFiniteSet(S), S # {}
  PROVE  /\ \E k \in S : \A j \in S : j = k \/ Before(j, k)
         /\ \E k \in S : \A j \in S : j = k \/ Before(k, j)
<1> DEFINE Less(k) == {j \in S : Before(j, k)}
           More(k) == {j \in S : Before(k, j)}
           downs == {Less(k) : k \in S}
           ups == {More(k) : k \in S}
<1>1. downs \subseteq FiniteSubsetsOf(S) /\ ups \subseteq FiniteSubsetsOf(S)
  BY FS_Subset DEF FiniteSubsetsOf
<1>2. IsWellFoundedOn(StrictSubsetOrdering(S), FiniteSubsetsOf(S))
  BY FS_StrictSubsetOrderingWellFounded
<1>3. \A D \in SUBSET FiniteSubsetsOf(S) :
        D # {} => \E x \in D : \A y \in D : <<y, x>> \notin StrictSubsetOrdering(S)
  BY <1>2, WFMin
<1>4. PICK a \in S : \A j \in S : <<Less(j), Less(a)>> \notin StrictSubsetOrdering(S)
  <2>1. downs # {} /\ downs \in SUBSET FiniteSubsetsOf(S)
    BY <1>1
  <2>2. PICK x \in downs : \A y \in downs : <<y, x>> \notin StrictSubsetOrdering(S)
    <3> HIDE DEF downs
    <3> QED
      BY <1>3, <2>1
  <2>3. PICK a \in S : x = Less(a)
    OBVIOUS
  <2>4. \A j \in S : Less(j) \in downs
    OBVIOUS
  <2> QED
    BY <2>2, <2>3, <2>4
<1>5. PICK z \in S : \A j \in S : <<More(j), More(z)>> \notin StrictSubsetOrdering(S)
  <2>1. ups # {} /\ ups \in SUBSET FiniteSubsetsOf(S)
    BY <1>1
  <2>2. PICK x \in ups : \A y \in ups : <<y, x>> \notin StrictSubsetOrdering(S)
    <3> HIDE DEF ups
    <3> QED
      BY <1>3, <2>1
  <2>3. PICK z \in S : x = More(z)
    OBVIOUS
  <2>4. \A j \in S : More(j) \in ups
    OBVIOUS
  <2> QED
    BY <2>2, <2>3, <2>4
<1>6. ASSUME NEW j \in S, Before(j, a) PROVE FALSE
  <2>1. Less(j) \subseteq Less(a) /\ j \in Less(a) /\ j \notin Less(j)
    BY <1>6, BeforeIsOrder
  <2> QED
    BY <1>4, <2>1 DEF StrictSubsetOrdering
<1>7. ASSUME NEW j \in S, Before(z, j) PROVE FALSE
  <2>1. More(j) \subseteq More(z) /\ j \in More(z) /\ j \notin More(j)
    BY <1>7, BeforeIsOrder
  <2> QED
    BY <1>5, <2>1 DEF StrictSubsetOrdering
<1> QED
  BY <1>6, <1>7, BeforeIsOrder

\* A page holds the first keys after the token: it comes before whatever it leaves out.
LEMMA PagesInOrder ==
  ASSUME RetentionType, NEW token \in ObjectKeys \union {NoKey}
  PROVE  /\ PageAfter(token) \subseteq Later(token)
         /\ \A k \in Later(token) \ PageAfter(token), j \in PageAfter(token) : Before(j, k)
         /\ PageAfter(token) # Later(token) =>
              \E k \in PageAfter(token) : \A j \in PageAfter(token) : j = k \/ Before(j, k)
<1> DEFINE L == Later(token)
           Less(k) == {j \in L : Before(j, k)}
<1>1. L \in SUBSET ObjectKeys /\ IsFiniteSet(L)
  BY FS_Subset DEF RetentionType, Later
<1>2. PageAfter(token) = {k \in L : Cardinality(Less(k)) < ListPage}
  BY DEF PageAfter
<1>3. \A k \in L : IsFiniteSet(Less(k)) /\ Cardinality(Less(k)) \in Nat
  BY <1>1, FS_Subset, FS_CardinalityType
<1>4. ListPage \in Nat \ {0}
  BY RetentionAssumption DEF RetentionAssumption
<1> HIDE DEF L
<1>5. ASSUME NEW k \in L \ PageAfter(token), NEW j \in PageAfter(token), ~Before(j, k)
      PROVE  FALSE
  <2>1. j \in L /\ j # k /\ Before(k, j)
    BY <1>1, <1>2, <1>5, BeforeIsOrder
  <2>2. Less(k) \in SUBSET Less(j)
    BY <1>1, <2>1, BeforeIsOrder
  <2>3. Cardinality(Less(k)) <= Cardinality(Less(j))
    BY <1>3, <2>1, <2>2, FS_Subset
  <2>4. Cardinality(Less(j)) < ListPage /\ ~(Cardinality(Less(k)) < ListPage)
    BY <1>2
  <2>5. Cardinality(Less(j)) \in Nat /\ Cardinality(Less(k)) \in Nat
    BY <1>3, <2>1
  <2> HIDE DEF Less
  <2> QED
    BY <1>4, <2>3, <2>4, <2>5
<1>6. ASSUME PageAfter(token) # L
      PROVE  \E k \in PageAfter(token) : \A j \in PageAfter(token) : j = k \/ Before(j, k)
  <2>1. L # {}
    BY <1>2, <1>6
  <2>2. PICK a \in L : \A j \in L : j = a \/ Before(a, j)
    BY <1>1, <2>1, KeysHaveEnds
  <2>3. Less(a) = {}
    BY <1>1, <2>2, BeforeIsOrder
  <2>4. a \in PageAfter(token)
    BY <1>2, <1>4, <2>2, <2>3, FS_EmptySet
  <2>5. PageAfter(token) \in SUBSET ObjectKeys /\ IsFiniteSet(PageAfter(token))
    BY <1>1, <1>2, FS_Subset
  <2> QED
    BY <2>4, <2>5, KeysHaveEnds
<1> QED
  BY <1>2, <1>5, <1>6 DEF L

-----------------------------------------------------------------------------
(* The invariant holds at the start and is kept by every action.           *)

\* Nothing is stored and nothing is under way at the start.
LEMMA InitRetention == RetentionInit => RetentionInv
<1> SUFFICES ASSUME RetentionInit PROVE RetentionInv
  OBVIOUS
<1>1. /\ Default \in Nat /\ Days \in Nat \ {0}
  BY RetentionAssumption DEF RetentionAssumption
<1>2. RetentionType
  BY <1>1, FS_EmptySet DEF RetentionInit, RetentionType, PutRecord, EraseRecord
<1>3. Putting = {} /\ Erasing = {}
  BY DEF RetentionInit, Putting, Erasing
<1> QED
  BY <1>2, <1>3 DEF RetentionInit, RetentionInv, PutsInPlace, ErasesReach, ErasesOwn, RefusedTorn,
     OverlapTorn, NewTorn, PutsSoFar, WholeUnlessTorn

\* A put begins: it is marked torn when an erase of its document is under way.
LEMMA MaybeRetainKeeps ==
  ASSUME RetentionInv, NEW p \in Puts, NEW h \in Headers, NEW s \in Shas,
         NEW form \in Tokens, NEW header \in Tokens, MaybeRetain(p, h, s, form, header)
  PROVE  RetentionInv'
<1> DEFINE tenant == NormaliseTenant(h)
<1>0. /\ Shas \subseteq Nat /\ KnownTenants \subseteq Nat /\ Default \in KnownTenants
      /\ Days \in Nat \ {0}
  BY RetentionAssumption DEF RetentionAssumption
<1>1. tenant \in KnownTenants
  BY <1>0 DEF NormaliseTenant, Headers
<1>2. /\ put \in [Puts -> PutRecord] /\ put[p].pc = "idle" /\ p \notin Putting
      /\ UNCHANGED <<bucket, erase, day, refused>>
      /\ torn \subseteq torn'
  BY DEF RetentionInv, RetentionType, MaybeRetain, Putting
<1>3. CASE Consent(form, header)
  <2>1. put' = [put EXCEPT ![p] = [pc |-> "putting", tenant |-> tenant, sha |-> s,
                                   dt |-> day, next |-> 1]]
    BY <1>3 DEF MaybeRetain
  <2> HIDE DEF tenant
  <2>2. /\ put' \in [Puts -> PutRecord]
        /\ \A q \in Puts : q # p => put'[q] = put[q]
        /\ put'[p].pc = "putting" /\ put'[p].tenant = tenant /\ put'[p].sha = s
        /\ put'[p].dt = day /\ put'[p].next = 1
    BY <1>0, <1>1, <1>2, <2>1 DEF PutRecord, RetentionInv, RetentionType
  <2>3. Putting' = Putting \union {p} /\ Erasing' = Erasing
    BY <1>2, <2>2 DEF Putting, Erasing
  <2>4. \A q \in Putting : put'[q] = put[q] /\ PutFolder(q)' = PutFolder(q)
    BY <1>2, <2>2 DEF Putting, PutFolder
  <2>5. \A e \in Erasing : erase[e].sha = s => PutFolder(p)' \in torn'
    BY <1>3, <2>2 DEF MaybeRetain, PutFolder, tenant
  <2>6. PutsInPlace'
    BY <1>1, <2>2, <2>3, <2>4 DEF RetentionInv, RetentionType, PutsInPlace, Parts
  <2>7. OverlapTorn'
    BY <1>2, <2>2, <2>3, <2>4, <2>5 DEF RetentionInv, OverlapTorn
  <2>8. PutsSoFar'
    <3>1. \A part \in 1 .. put'[p].next - 1 : FALSE
      BY <2>2
    <3> QED
      BY <1>2, <2>3, <2>4, <3>1 DEF RetentionInv, PutsSoFar
  <2>9. WholeUnlessTorn'
    BY <1>2, <2>3, <2>4 DEF RetentionInv, WholeUnlessTorn
  <2> QED
    BY <1>2, <2>2, <2>3, <2>6, <2>7, <2>8, <2>9
       DEF RetentionInv, RetentionType, ErasesReach, ErasesOwn, RefusedTorn, NewTorn
<1>4. CASE ~Consent(form, header)
  <2>1. put' = [put EXCEPT ![p].pc = "done"] /\ torn' = torn
    BY <1>4 DEF MaybeRetain
  <2>2. /\ put' \in [Puts -> PutRecord]
        /\ \A q \in Puts : q # p => put'[q] = put[q]
        /\ put'[p].pc = "done"
    BY <1>2, <2>1 DEF PutRecord
  <2>3. Putting' = Putting /\ Erasing' = Erasing
    BY <1>2, <2>2 DEF Putting, Erasing
  <2>4. \A q \in Putting : put'[q] = put[q] /\ PutFolder(q)' = PutFolder(q)
    BY <1>2, <2>2 DEF Putting, PutFolder
  <2> QED
    BY <1>2, <2>1, <2>2, <2>3, <2>4
       DEF RetentionInv, RetentionType, PutsInPlace, ErasesReach, ErasesOwn, RefusedTorn,
           OverlapTorn, NewTorn, PutsSoFar, WholeUnlessTorn
<1> QED
  BY <1>3, <1>4

\* A part is written: the last one makes a document whole that no erase has overlapped.
LEMMA PutObjectKeeps ==
  ASSUME RetentionInv, NEW p \in Puts, PutObject(p)
  PROVE  RetentionInv'
<1> DEFINE key == ObjectKey(put[p].tenant, put[p].dt, put[p].sha, put[p].next)
<1>1. /\ put \in [Puts -> PutRecord] /\ erase \in [Deletes -> EraseRecord]
      /\ p \in Putting /\ put[p].next \in 1 .. 3
      /\ bucket' = bucket \union {key}
      /\ UNCHANGED <<day, torn, refused>>
  BY DEF RetentionInv, RetentionType, PutsInPlace, PutObject, Putting, Parts
<1>2. key \in ObjectKeys /\ Folder(key) = PutFolder(p) /\ key.sha = put[p].sha
  BY <1>1 DEF RetentionInv, PutsInPlace, ObjectKey, ObjectKeys, Folder, PutFolder
<1>3. /\ put' \in [Puts -> PutRecord]
      /\ \A q \in Puts : /\ q # p => put'[q] = put[q]
                         /\ put'[q].tenant = put[q].tenant /\ put'[q].sha = put[q].sha
                         /\ put'[q].dt = put[q].dt
      /\ put'[p].next = put[p].next + 1
      /\ put'[p].pc = IF put[p].next = 3 THEN "done" ELSE put[p].pc
  <2> DEFINE half == [put EXCEPT ![p].next = put[p].next + 1]
  <2>1. put' = [half EXCEPT ![p].pc = IF put[p].next = 3 THEN "done" ELSE put[p].pc]
    BY DEF PutObject
  <2>2. put[p].next + 1 \in 1 .. 4
    BY <1>1
  <2>3. /\ half \in [Puts -> PutRecord]
        /\ \A q \in Puts : /\ q # p => half[q] = put[q]
                           /\ half[q].tenant = put[q].tenant /\ half[q].sha = put[q].sha
                           /\ half[q].dt = put[q].dt
        /\ half[p].next = put[p].next + 1 /\ half[p].pc = put[p].pc
    BY <1>1, <2>2 DEF PutRecord
  <2>4. (IF put[p].next = 3 THEN "done" ELSE put[p].pc) \in {"idle", "putting", "done"}
    BY <1>1 DEF PutRecord
  <2> HIDE DEF half
  <2> QED
    BY <1>1, <2>1, <2>3, <2>4 DEF PutRecord
<1>4. erase' = [e \in Deletes |-> [pc |-> erase[e].pc, sha |-> erase[e].sha,
                                   token |-> erase[e].token, matches |-> erase[e].matches,
                                   there |-> erase[e].there \ {key}]]
  <2>1. \A x \in EraseRecord : \A t : [x EXCEPT !.there = t]
          = [pc |-> x.pc, sha |-> x.sha, token |-> x.token, matches |-> x.matches, there |-> t]
    BY DEF EraseRecord
  <2>2. erase' = [e \in Deletes |-> [erase[e] EXCEPT !.there = erase[e].there \ {key}]]
    BY DEF PutObject
  <2> HIDE DEF key
  <2>3. \A e \in Deletes : erase[e] \in EraseRecord
    BY <1>1
  <2> QED
    BY <2>1, <2>2, <2>3
<1> HIDE DEF key
<1>5. /\ put'[p].pc = "putting" <=> put[p].next # 3
      /\ \A q \in Puts : PutFolder(q)' = PutFolder(q)
  BY <1>1, <1>3 DEF PutFolder, Putting
<1>6. /\ erase' \in [Deletes -> EraseRecord]
      /\ \A e \in Deletes : /\ erase'[e].pc = erase[e].pc /\ erase'[e].sha = erase[e].sha
                            /\ erase'[e].token = erase[e].token
                            /\ erase'[e].matches = erase[e].matches
                            /\ erase'[e].there = erase[e].there \ {key}
  BY <1>1, <1>4 DEF EraseRecord
<1>7. Erasing' = Erasing /\ Putting' \subseteq Putting
      /\ (put[p].next # 3 => Putting' = Putting) /\ (put[p].next = 3 => Putting' = Putting \ {p})
  BY <1>1, <1>3, <1>5, <1>6 DEF Erasing, Putting
<1>8. RetentionType'
  BY <1>1, <1>2, <1>3, <1>5, <1>6, FS_AddElement DEF RetentionInv, RetentionType
<1>9. PutsInPlace'
  <2> SUFFICES ASSUME NEW q \in Putting'
               PROVE  /\ put'[q].tenant \in KnownTenants /\ put'[q].dt \in 1 .. Days
                      /\ put'[q].sha \in Shas /\ put'[q].next \in Parts
    BY DEF PutsInPlace
  <2>1. q \in Puts /\ q \in Putting /\ (q = p => put[p].next # 3)
    BY <1>7 DEF Putting
  <2>2. /\ put[q].tenant \in KnownTenants /\ put[q].dt \in 1 .. Days
        /\ put[q].sha \in Shas /\ put[q].next \in Parts
    BY <2>1 DEF RetentionInv, PutsInPlace
  <2>3. put'[q].next \in Parts
    BY <1>1, <1>3, <1>5, <2>1, <2>2 DEF Parts
  <2> QED
    BY <1>3, <1>5, <2>1, <2>2, <2>3
<1>10. ErasesReach' /\ ErasesOwn'
  BY <1>1, <1>6, <1>7 DEF RetentionInv, ErasesReach, ErasesOwn, Erasing
<1>11. OverlapTorn' /\ RefusedTorn'
  BY <1>1, <1>3, <1>5, <1>6, <1>7 DEF RetentionInv, OverlapTorn, RefusedTorn, Putting, Erasing
<1>12. NewTorn'
  <2> SUFFICES ASSUME NEW e \in Erasing, NEW k \in bucket \union {key},
                      k.sha = erase[e].sha, k \notin erase[e].there \ {key}
               PROVE  Folder(k) \in torn
    BY <1>1, <1>6, <1>7 DEF NewTorn, Erasing
  <2>1. CASE k = key
    BY <1>1, <1>2, <2>1 DEF RetentionInv, OverlapTorn
  <2>2. CASE k # key
    BY <2>2 DEF RetentionInv, NewTorn
  <2> QED
    BY <2>1, <2>2
<1>13. ASSUME NEW q \in Putting, PutFolder(q) \notin torn,
              NEW part \in 1 .. put'[q].next - 1
       PROVE  ObjectKey(put[q].tenant, put[q].dt, put[q].sha, part) \in bucket'
  <2>1. CASE q = p
    <3>1. part \in 1 .. put[p].next - 1 \/ part = put[p].next
      BY <1>1, <1>3, <1>5, <1>13, <2>1
    <3> QED
      BY <1>1, <1>13, <2>1, <3>1 DEF RetentionInv, PutsSoFar, key
  <2>2. CASE q # p
    BY <1>1, <1>3, <1>5, <1>13, <2>2 DEF RetentionInv, PutsSoFar, Putting
  <2> QED
    BY <2>1, <2>2
<1>14. PutsSoFar'
  BY <1>1, <1>3, <1>5, <1>7, <1>13 DEF PutsSoFar, Putting
<1>15. WholeUnlessTorn'
  <2> SUFFICES ASSUME NEW k \in bucket \union {key}, Folder(k) \notin torn,
                      \A q \in Putting' : PutFolder(q) # Folder(k),
                      \A e \in Erasing : erase[e].sha # k.sha,
                      NEW part \in Parts
               PROVE  ObjectKey(k.tenant, k.dt, k.sha, part) \in bucket'
    BY <1>1, <1>3, <1>5, <1>6, <1>7 DEF WholeUnlessTorn, Putting, Erasing
  <2>1. CASE Folder(k) = PutFolder(p)
    <3>1. put[p].next = 3 /\ part \in 1 .. put'[p].next - 1
      BY <1>1, <1>3, <1>5, <1>7, <2>1 DEF Parts
    <3>2. k.tenant = put[p].tenant /\ k.dt = put[p].dt /\ k.sha = put[p].sha
      BY <2>1 DEF Folder, PutFolder
    <3> QED
      BY <1>1, <1>13, <2>1, <3>1, <3>2
  <2>2. CASE Folder(k) # PutFolder(p)
    BY <1>1, <1>2, <1>7, <2>2 DEF RetentionInv, WholeUnlessTorn
  <2> QED
    BY <2>1, <2>2
<1> QED
  BY <1>8, <1>9, <1>10, <1>11, <1>12, <1>14, <1>15 DEF RetentionInv

\* A put that raises leaves a document marked torn.
LEMMA PutFailsKeeps ==
  ASSUME RetentionInv, NEW p \in Puts, PutFails(p)
  PROVE  RetentionInv'
<1>1. /\ put \in [Puts -> PutRecord] /\ put' = [put EXCEPT ![p].pc = "done"]
      /\ p \in Putting /\ torn' = torn \union {PutFolder(p)}
      /\ UNCHANGED <<bucket, erase, day, refused>>
  BY DEF RetentionInv, RetentionType, PutFails, Putting
<1>2. /\ put' \in [Puts -> PutRecord] /\ put'[p].pc = "done"
      /\ \A q \in Puts : q # p => put'[q] = put[q]
  BY <1>1 DEF PutRecord
<1>3. Putting' = Putting \ {p} /\ Erasing' = Erasing
  BY <1>1, <1>2 DEF Putting, Erasing
<1>4. \A q \in Putting' : put'[q] = put[q] /\ PutFolder(q)' = PutFolder(q)
  BY <1>2, <1>3 DEF Putting, PutFolder
<1>5. \A q \in Putting : q # p => q \in Putting'
  BY <1>3
<1>6. WholeUnlessTorn'
  BY <1>1, <1>3, <1>4, <1>5 DEF RetentionInv, WholeUnlessTorn
<1>7. PutsSoFar' /\ PutsInPlace' /\ OverlapTorn'
  BY <1>1, <1>3, <1>4 DEF RetentionInv, PutsSoFar, PutsInPlace, OverlapTorn
<1> QED
  BY <1>1, <1>2, <1>3, <1>6, <1>7
     DEF RetentionInv, RetentionType, ErasesReach, ErasesOwn, RefusedTorn, NewTorn

\* An erase begins: the puts of its document that are under way are marked torn.
LEMMA StartEraseKeeps ==
  ASSUME RetentionInv, NEW e \in Deletes, NEW s \in Shas, StartErase(e, s)
  PROVE  RetentionInv'
<1>1. /\ erase \in [Deletes -> EraseRecord] /\ e \notin Erasing
      /\ torn' = torn \union {PutFolder(p) : p \in {q \in Putting : put[q].sha = s}}
      /\ erase' = [erase EXCEPT ![e] = [pc |-> "listing", sha |-> s, token |-> NoKey,
                     matches |-> {}, there |-> {k \in bucket : k.sha = s}]]
      /\ UNCHANGED <<bucket, put, day, refused>>
  BY DEF RetentionInv, RetentionType, StartErase, Erasing
<1>2. s \in Nat
  BY RetentionAssumption DEF RetentionAssumption
<1>3. /\ erase' \in [Deletes -> EraseRecord]
      /\ \A d \in Deletes : d # e => erase'[d] = erase[d]
      /\ erase'[e].pc = "listing" /\ erase'[e].sha = s /\ erase'[e].token = NoKey
      /\ erase'[e].matches = {} /\ erase'[e].there = {k \in bucket : k.sha = s}
  BY <1>1, <1>2 DEF RetentionInv, RetentionType, EraseRecord
<1>4. Erasing' = Erasing \union {e} /\ Putting' = Putting
  BY <1>1, <1>3 DEF Erasing, Putting
<1>5. \A d \in Erasing : erase'[d] = erase[d]
  BY <1>1, <1>3 DEF Erasing
<1>6. \A p \in Putting : PutFolder(p)' = PutFolder(p) /\ (put[p].sha = s => PutFolder(p) \in torn')
  BY <1>1 DEF PutFolder
<1>7. ErasesReach'
  BY <1>1, <1>3 DEF RetentionInv, ErasesReach
<1>8. ErasesOwn' /\ NewTorn'
  BY <1>1, <1>3, <1>4, <1>5 DEF RetentionInv, ErasesOwn, NewTorn
<1>9. OverlapTorn'
  BY <1>1, <1>3, <1>4, <1>5, <1>6 DEF RetentionInv, OverlapTorn
<1>10. PutsSoFar' /\ PutsInPlace' /\ RefusedTorn'
  BY <1>1, <1>4, <1>6 DEF RetentionInv, PutsSoFar, PutsInPlace, RefusedTorn
<1>11. WholeUnlessTorn'
  BY <1>1, <1>4, <1>5, <1>6 DEF RetentionInv, WholeUnlessTorn
<1> QED
  BY <1>1, <1>3, <1>7, <1>8, <1>9, <1>10, <1>11 DEF RetentionInv, RetentionType

\* One page is listed: its keys of the document are matches, and the token moves to the
\* last of its keys, past none that it leaves out.
LEMMA ListObjectsKeeps ==
  ASSUME RetentionInv, NEW e \in Deletes, ListObjects(e)
  PROVE  RetentionInv'
<1> DEFINE page == PageAfter(erase[e].token)
           truncated == page # Later(erase[e].token)
           last == CHOOSE k \in page : \A j \in page : j = k \/ Before(j, k)
           found == {k \in page : k.sha = erase[e].sha}
<1>1. /\ erase \in [Deletes -> EraseRecord] /\ erase[e].pc = "listing" /\ e \in Erasing
      /\ UNCHANGED <<bucket, put, day, torn, refused>>
  BY DEF RetentionInv, RetentionType, ListObjects, Erasing
<1>2. erase[e].token \in ObjectKeys \union {NoKey}
  BY <1>1 DEF EraseRecord
<1>3. /\ page \subseteq Later(erase[e].token)
      /\ \A k \in Later(erase[e].token) \ page, j \in page : Before(j, k)
      /\ truncated => last \in page
  <2>1. RetentionType
    BY DEF RetentionInv
  <2> QED
    BY <1>2, <2>1, PagesInOrder
<1>4. page \subseteq ObjectKeys /\ found \subseteq ObjectKeys
  BY <1>3 DEF Later, RetentionInv, RetentionType
<1>5. /\ erase' \in [Deletes -> EraseRecord]
      /\ \A d \in Deletes : d # e => erase'[d] = erase[d]
      /\ \A d \in Deletes : erase'[d].sha = erase[d].sha /\ erase'[d].there = erase[d].there
      /\ erase'[e].matches = erase[e].matches \union found
      /\ erase'[e].token = IF truncated THEN last ELSE erase[e].token
      /\ erase'[e].pc = IF truncated THEN "listing" ELSE "deleting"
  <2> DEFINE one == [erase EXCEPT ![e].matches = erase[e].matches \union found]
             two == [one EXCEPT ![e].token = IF truncated THEN last ELSE erase[e].token]
             pc == IF truncated THEN "listing" ELSE "deleting"
  <2> HIDE DEF last, truncated, found, page
  <2>1. /\ one \in [Deletes -> EraseRecord]
        /\ \A d \in Deletes : /\ d # e => one[d] = erase[d]
                              /\ one[d].sha = erase[d].sha /\ one[d].there = erase[d].there
        /\ one[e].matches = erase[e].matches \union found
        /\ one[e].token = erase[e].token
        /\ one[e].pc = erase[e].pc
    BY <1>1, <1>4 DEF EraseRecord
  <2>2. (IF truncated THEN last ELSE erase[e].token) \in ObjectKeys \union {NoKey}
    BY <1>2, <1>3, <1>4
  <2>3. erase' = [two EXCEPT ![e].pc = pc]
    BY <1>1, <2>1 DEF ListObjects, last, truncated, found, page
  <2> HIDE DEF one
  <2>4. /\ two \in [Deletes -> EraseRecord]
        /\ \A d \in Deletes : /\ d # e => two[d] = erase[d]
                              /\ two[d].sha = erase[d].sha /\ two[d].there = erase[d].there
        /\ two[e].matches = erase[e].matches \union found
        /\ two[e].token = IF truncated THEN last ELSE erase[e].token
    BY <2>1, <2>2 DEF EraseRecord
  <2>5. pc \in {"listing", "deleting"}
    OBVIOUS
  <2> HIDE DEF two, pc
  <2>6. /\ erase' \in [Deletes -> EraseRecord]
        /\ \A d \in Deletes : /\ d # e => erase'[d] = two[d]
                              /\ erase'[d].sha = two[d].sha /\ erase'[d].there = two[d].there
        /\ erase'[e].matches = two[e].matches /\ erase'[e].token = two[e].token
        /\ erase'[e].pc = pc
    BY <2>3, <2>4, <2>5 DEF EraseRecord
  <2> QED
    BY <2>4, <2>6 DEF pc
<1>6. Erasing' = Erasing /\ Putting' = Putting /\ \A p \in Puts : PutFolder(p)' = PutFolder(p)
  BY <1>1, <1>5 DEF Erasing, Putting, PutFolder
<1>7. ASSUME NEW k \in erase[e].there \intersect bucket
      PROVE  \/ k \in erase'[e].matches \union refused
             \/ truncated /\ Before(last, k)
  <2>1. k.sha = erase[e].sha
    BY <1>1 DEF RetentionInv, ErasesOwn
  <2>2. k \in erase[e].matches \union refused \/ k \in Later(erase[e].token)
    BY <1>1, <1>7 DEF RetentionInv, ErasesReach, Later
  <2> HIDE DEF page, last
  <2>3. k \in page => k \in found
    BY <2>1
  <2>4. k \in Later(erase[e].token) \ page => truncated /\ Before(last, k)
    BY <1>3
  <2> QED
    BY <1>5, <2>2, <2>3, <2>4
<1> HIDE DEF page, last, truncated
<1>8. ErasesReach'
  <2> SUFFICES ASSUME NEW d \in Deletes, NEW k \in erase[d].there \intersect bucket
               PROVE  /\ erase'[d].pc = "listing" => \/ k \in erase'[d].matches \union refused
                                                     \/ erase'[d].token = NoKey
                                                     \/ Before(erase'[d].token, k)
                      /\ erase'[d].pc = "deleting" => k \in erase'[d].matches \union refused
                      /\ erase'[d].pc = "done" => k \in refused
    BY <1>1, <1>5 DEF ErasesReach
  <2>1. CASE d = e
    BY <1>5, <1>7, <2>1
  <2>2. CASE d # e
    BY <1>5, <2>2 DEF RetentionInv, ErasesReach
  <2> QED
    BY <2>1, <2>2
<1>9. ErasesOwn'
  <2> SUFFICES ASSUME NEW d \in Erasing, NEW k \in erase'[d].matches \union erase'[d].there
               PROVE  k.sha = erase[d].sha
    BY <1>5, <1>6 DEF ErasesOwn, Erasing
  <2>1. CASE d = e
    BY <1>1, <1>5, <2>1 DEF RetentionInv, ErasesOwn
  <2>2. CASE d # e
    BY <1>5, <2>2 DEF RetentionInv, ErasesOwn, Erasing
  <2> QED
    BY <2>1, <2>2
<1>10. PutsInPlace' /\ RefusedTorn' /\ PutsSoFar'
  BY <1>1, <1>6 DEF RetentionInv, PutsInPlace, RefusedTorn, PutsSoFar, Putting
<1>11. OverlapTorn' /\ NewTorn'
  <2>1. \A d \in Erasing : erase'[d].sha = erase[d].sha /\ erase'[d].there = erase[d].there
    BY <1>5 DEF Erasing
  <2> QED
    BY <1>1, <1>6, <2>1 DEF RetentionInv, OverlapTorn, NewTorn, Putting
<1>12. WholeUnlessTorn'
  BY <1>1, <1>5, <1>6 DEF RetentionInv, WholeUnlessTorn, Putting, Erasing
<1> QED
  BY <1>1, <1>5, <1>8, <1>9, <1>10, <1>11, <1>12 DEF RetentionInv, RetentionType

\* A batch is deleted, but for the keys the bucket declines.
LEMMA DeleteObjectsKeeps ==
  ASSUME RetentionInv, NEW e \in Deletes, NEW declined \in SUBSET Batch(e),
         DeleteObjects(e, declined)
  PROVE  RetentionInv'
<1>1. /\ erase \in [Deletes -> EraseRecord] /\ erase[e].pc = "deleting" /\ e \in Erasing
      /\ bucket' = bucket \ (Batch(e) \ declined)
      /\ refused' = refused \union declined
      /\ erase' = [erase EXCEPT ![e].matches = erase[e].matches \ Batch(e)]
      /\ torn' = torn \union {Folder(k) : k \in declined}
      /\ UNCHANGED <<put, day>>
  BY DEF RetentionInv, RetentionType, DeleteObjects, Erasing
<1>2. Batch(e) \subseteq erase[e].matches
  BY DEF Batch
<1> DEFINE gone == Batch(e)
<1> HIDE DEF gone
<1>3. /\ erase' \in [Deletes -> EraseRecord]
      /\ \A d \in Deletes : /\ d # e => erase'[d] = erase[d]
                            /\ erase'[d].sha = erase[d].sha /\ erase'[d].there = erase[d].there
                            /\ erase'[d].pc = erase[d].pc /\ erase'[d].token = erase[d].token
                            /\ erase'[d].matches \subseteq erase[d].matches
      /\ erase'[e].matches = erase[e].matches \ gone
  BY <1>1 DEF EraseRecord, gone
<1>4. Erasing' = Erasing /\ Putting' = Putting /\ \A p \in Puts : PutFolder(p)' = PutFolder(p)
  BY <1>1, <1>3 DEF Erasing, Putting, PutFolder
<1>5. /\ bucket' \subseteq bucket /\ torn \subseteq torn' /\ refused \subseteq refused'
      /\ \A k \in gone \intersect bucket' : k \in refused'
      /\ \A k \in bucket \ bucket' : k.sha = erase[e].sha
  BY <1>1, <1>2 DEF RetentionInv, ErasesOwn, gone
<1>6. RetentionType'
  BY <1>1, <1>3, <1>5, FS_Subset DEF RetentionInv, RetentionType
<1>7. ErasesReach'
  <2> SUFFICES ASSUME NEW d \in Deletes, NEW k \in erase[d].there \intersect bucket'
               PROVE  /\ erase'[d].pc = "listing" => \/ k \in erase'[d].matches \union refused'
                                                     \/ erase'[d].token = NoKey
                                                     \/ Before(erase'[d].token, k)
                      /\ erase'[d].pc = "deleting" => k \in erase'[d].matches \union refused'
                      /\ erase'[d].pc = "done" => k \in refused'
    BY <1>3 DEF ErasesReach
  <2>1. CASE d = e
    BY <1>1, <1>3, <1>5, <2>1 DEF RetentionInv, ErasesReach
  <2>2. CASE d # e
    BY <1>3, <1>5, <2>2 DEF RetentionInv, ErasesReach
  <2> QED
    BY <2>1, <2>2
<1>8. ErasesOwn' /\ NewTorn'
  BY <1>3, <1>4, <1>5 DEF RetentionInv, ErasesOwn, NewTorn, Erasing
<1>9. RefusedTorn' /\ OverlapTorn' /\ PutsInPlace'
  BY <1>1, <1>3, <1>4, <1>5 DEF RetentionInv, RefusedTorn, OverlapTorn, PutsInPlace, Erasing, Putting
<1>10. PutsSoFar'
  <2> SUFFICES ASSUME NEW p \in Putting, PutFolder(p) \notin torn',
                      NEW part \in 1 .. put[p].next - 1
               PROVE  ObjectKey(put[p].tenant, put[p].dt, put[p].sha, part) \in bucket'
    BY <1>1, <1>4 DEF PutsSoFar, Putting
  <2>1. put[p].sha # erase[e].sha
    BY <1>1, <1>5 DEF RetentionInv, OverlapTorn
  <2>2. ObjectKey(put[p].tenant, put[p].dt, put[p].sha, part) \in bucket
    BY <1>5 DEF RetentionInv, PutsSoFar
  <2> QED
    BY <1>5, <2>1, <2>2 DEF ObjectKey
<1>11. WholeUnlessTorn'
  <2> SUFFICES ASSUME NEW k \in bucket', Folder(k) \notin torn',
                      \A p \in Putting : PutFolder(p) # Folder(k),
                      \A d \in Erasing : erase[d].sha # k.sha,
                      NEW part \in Parts
               PROVE  ObjectKey(k.tenant, k.dt, k.sha, part) \in bucket'
    BY <1>3, <1>4 DEF WholeUnlessTorn, Putting, Erasing
  <2>1. ObjectKey(k.tenant, k.dt, k.sha, part) \in bucket
    BY <1>5 DEF RetentionInv, WholeUnlessTorn
  <2>2. erase[e].sha # k.sha
    BY <1>1
  <2> QED
    BY <1>5, <2>1, <2>2 DEF ObjectKey
<1> QED
  BY <1>6, <1>7, <1>8, <1>9, <1>10, <1>11 DEF RetentionInv

\* An erase ends, having answered or failed: what is left of its document is torn.
LEMMA EraseEndsKeeps ==
  ASSUME RetentionInv, NEW e \in Deletes, FinishErase(e) \/ EraseFails(e)
  PROVE  RetentionInv'
<1>1. /\ erase \in [Deletes -> EraseRecord] /\ e \in Erasing
      /\ torn \subseteq torn'
      /\ UNCHANGED <<bucket, put, day, refused>>
  BY DEF RetentionInv, RetentionType, FinishErase, EraseFails, Erasing
<1>2. PICK c \in {"done", "failed"} : erase' = [erase EXCEPT ![e].pc = c]
  BY DEF FinishErase, EraseFails
<1>3. /\ erase' \in [Deletes -> EraseRecord]
      /\ \A d \in Deletes : d # e => erase'[d] = erase[d]
      /\ erase'[e].pc = c /\ erase'[e].sha = erase[e].sha /\ erase'[e].there = erase[e].there
  BY <1>1, <1>2 DEF EraseRecord
<1>4. /\ Erasing' = Erasing \ {e} /\ Putting' = Putting
      /\ \A d \in Erasing' : erase'[d] = erase[d]
      /\ \A p \in Puts : PutFolder(p)' = PutFolder(p)
  BY <1>1, <1>3 DEF Erasing, Putting, PutFolder
<1>5. ASSUME NEW k \in erase[e].there \intersect bucket
      PROVE  Folder(k) \in torn' /\ (c = "done" => k \in refused)
  <2>1. CASE FinishErase(e)
    <3>1. k \in refused
      BY <2>1 DEF RetentionInv, ErasesReach, FinishErase
    <3> QED
      BY <1>1, <3>1 DEF RetentionInv, RefusedTorn
  <2>2. CASE EraseFails(e)
    <3>1. erase' = [erase EXCEPT ![e].pc = "failed"] /\ Folder(k) \in torn'
      BY <2>2 DEF EraseFails
    <3>2. c = "failed"
      BY <1>1, <1>3, <3>1 DEF EraseRecord
    <3> QED
      BY <3>1, <3>2
  <2> QED
    BY <2>1, <2>2
<1>6. \A k \in bucket : k.sha = erase[e].sha => Folder(k) \in torn'
  BY <1>1, <1>5 DEF RetentionInv, NewTorn
<1>7. ErasesReach'
  BY <1>1, <1>3, <1>5 DEF RetentionInv, ErasesReach
<1>8. WholeUnlessTorn'
  <2> SUFFICES ASSUME NEW k \in bucket, Folder(k) \notin torn',
                      \A p \in Putting : PutFolder(p) # Folder(k),
                      \A d \in Erasing \ {e} : erase[d].sha # k.sha,
                      NEW part \in Parts
               PROVE  ObjectKey(k.tenant, k.dt, k.sha, part) \in bucket
    BY <1>1, <1>4 DEF WholeUnlessTorn, Putting
  <2>1. \A d \in Erasing : erase[d].sha # k.sha
    BY <1>6
  <2> QED
    BY <1>1, <2>1 DEF RetentionInv, WholeUnlessTorn
<1>9. /\ PutsInPlace' /\ ErasesOwn' /\ RefusedTorn' /\ OverlapTorn' /\ NewTorn' /\ PutsSoFar'
  BY <1>1, <1>4 DEF RetentionInv, PutsInPlace, ErasesOwn, RefusedTorn, OverlapTorn, NewTorn,
     PutsSoFar, Putting
<1> QED
  BY <1>1, <1>3, <1>7, <1>8, <1>9 DEF RetentionInv, RetentionType

\* Midnight changes no put under way: it keeps the date it began with.
LEMMA MidnightKeeps == RetentionInv /\ Midnight => RetentionInv'
<1> SUFFICES ASSUME RetentionInv, Midnight PROVE RetentionInv'
  OBVIOUS
<1>1. day' \in 1 .. Days
  BY RetentionAssumption DEF RetentionAssumption, RetentionInv, RetentionType, Midnight
<1> QED
  BY <1>1 DEF Midnight, RetentionInv, RetentionType, PutsInPlace, ErasesReach, ErasesOwn,
     RefusedTorn, OverlapTorn, NewTorn, PutsSoFar, WholeUnlessTorn, Putting, Erasing, PutFolder

\* The invariant of puts and erases holds in every reachable state.
THEOREM RetentionInvariance == RetentionSpec => []RetentionInv
<1>1. RetentionInv /\ [RetentionNext]_retentionVars => RetentionInv'
  <2> SUFFICES ASSUME RetentionInv, [RetentionNext]_retentionVars PROVE RetentionInv'
    OBVIOUS
  <2>1. CASE UNCHANGED retentionVars
    BY <2>1 DEF retentionVars, RetentionInv, RetentionType, PutsInPlace, ErasesReach, ErasesOwn,
       RefusedTorn, OverlapTorn, NewTorn, PutsSoFar, WholeUnlessTorn, Putting, Erasing, PutFolder
  <2>2. CASE RetentionNext
    BY <2>2, MaybeRetainKeeps, PutObjectKeeps, PutFailsKeeps, StartEraseKeeps, ListObjectsKeeps,
       DeleteObjectsKeeps, EraseEndsKeeps, MidnightKeeps DEF RetentionNext
  <2> QED
    BY <2>1, <2>2
<1> QED
  BY <1>1, InitRetention, PTL DEF RetentionSpec

\* When an erase answers, nothing of the document that it found at its start stands any more,
\* unless the bucket declined the key or it was written anew (RetentionStore.delete), for any
\* page and batch size and however puts and other erases shift the pages of its listing.
THEOREM ErasesAreComplete == RetentionSpec => []EraseComplete
<1>1. RetentionInv => EraseComplete
  BY DEF RetentionInv, ErasesReach, EraseComplete
<1> QED
  BY <1>1, RetentionInvariance, PTL

\* A retained document nobody writes or erases is whole, unless a call failed or an erase
\* overlapped its put (RetentionStore.put and delete).
THEOREM DocumentsAreWhole == RetentionSpec => []WholeUnlessTorn
<1>1. RetentionInv => WholeUnlessTorn
  BY DEF RetentionInv
<1> QED
  BY <1>1, RetentionInvariance, PTL

-----------------------------------------------------------------------------
(* The ingest of a URL, whatever resolvers and servers answer.             *)

\* At the gate it is decided, from what the deployment set, who passes.
Gated == fetch.pc = "gate" => /\ fetch.list \in ModeLists
                              /\ fetch.passed = Authenticated(fetch.list, fetch.set, fetch.presented)

FetchFields == {"pc", "hop", "current", "visited", "allowPrivate", "connected"}

\* A fetch under way has visited and connected to one URL per hop, and is yet to visit the
\* current one while the hop has not been checked.
HopByHop ==
  fetch.pc \in {"hop", "request", "reading", "fetched"} =>
    /\ FetchFields \subseteq DOMAIN fetch
    /\ fetch.pc \in {"hop", "request"} => DOMAIN fetch = FetchFields
    /\ fetch.hop \in 0 .. MaxRedirects
    /\ fetch.visited \in Seq(Urls) /\ fetch.current \in Urls
    /\ fetch.connected \in Seq(Addresses)
    /\ Len(fetch.visited) = fetch.hop + (IF fetch.pc = "hop" THEN 0 ELSE 1)
    /\ Len(fetch.connected) = Len(fetch.visited)
    /\ IsInjective(fetch.visited)
    /\ "private" \in ToSet(fetch.connected) => fetch.allowPrivate

Capped == fetch.pc \in {"reading", "fetched"} =>
            "received" \in DOMAIN fetch /\ fetch.received \in 0 .. MaxBytes

IngestInv == /\ fetch.pc \in {"auth", "gate", "hop", "request", "reading", "fetched", "answered"}
             /\ Gated /\ HopByHop /\ Capped

-----------------------------------------------------------------------------
\* What is appended to a sequence, and what the sequence then holds.
LEMMA Appended ==
  ASSUME NEW S, NEW s \in Seq(S), NEW e \in S
  PROVE  /\ Append(s, e) \in Seq(S) /\ Len(Append(s, e)) = Len(s) + 1
         /\ ToSet(Append(s, e)) = ToSet(s) \union {e}
         /\ IsInjective(s) /\ (\A i \in DOMAIN s : s[i] # e) => IsInjective(Append(s, e))
<1>1. Append(s, e) \in Seq(S) /\ Len(Append(s, e)) = Len(s) + 1
  OBVIOUS
<1>2. DOMAIN s = 1 .. Len(s) /\ DOMAIN Append(s, e) = 1 .. Len(s) + 1 /\ Len(s) \in Nat
  BY <1>1
<1>3. (\A i \in 1 .. Len(s) : Append(s, e)[i] = s[i]) /\ Append(s, e)[Len(s) + 1] = e
  OBVIOUS
<1>4. ToSet(Append(s, e)) = ToSet(s) \union {e}
  BY <1>2, <1>3 DEF ToSet
<1>5. IsInjective(s) /\ (\A i \in DOMAIN s : s[i] # e) => IsInjective(Append(s, e))
  BY <1>2, <1>3 DEF IsInjective
<1> QED
  BY <1>1, <1>4, <1>5

LEMMA Settled ==
  ASSUME NEW code, Answer(code) PROVE IngestInv'
BY DEF Answer, IngestInv, Gated, HopByHop, Capped

LEMMA AuthenticateKeeps ==
  ASSUME NEW list \in ModeLists, NEW set, NEW presented, Authenticate(list, set, presented)
  PROVE  IngestInv'
<1>1. fetch'.pc = "gate" /\ fetch'.list = list /\ fetch'.set = set
      /\ fetch'.presented = presented /\ fetch'.passed = Authenticated(list, set, presented)
  BY DEF Authenticate
<1> QED
  BY <1>1 DEF IngestInv, Gated, HopByHop, Capped

LEMMA FetchPdfKeeps ==
  ASSUME NEW enabled, NEW allow \in BOOLEAN, NEW url \in Urls, FetchPdf(enabled, allow, url)
  PROVE  IngestInv'
<1>1. CASE ~enabled
  BY <1>1, Settled DEF FetchPdf
<1>2. CASE enabled
  <2>1. fetch' = [pc |-> "hop", hop |-> 0, current |-> url, visited |-> <<>>,
                  allowPrivate |-> allow, connected |-> <<>>]
    BY <1>2 DEF FetchPdf
  <2>2. /\ fetch'.pc = "hop" /\ fetch'.hop = 0 /\ fetch'.current = url /\ fetch'.visited = <<>>
        /\ fetch'.connected = <<>> /\ DOMAIN fetch' = FetchFields
    BY <2>1 DEF FetchFields
  <2>3. IsInjective(<<>>) /\ ToSet(<<>>) = {} /\ <<>> \in Seq(Urls) /\ <<>> \in Seq(Addresses)
        /\ Len(<<>>) = 0
    BY DEF IsInjective, ToSet
  <2>4. 0 \in 0 .. MaxRedirects
    BY IngestAssumption DEF IngestAssumption
  <2> QED
    BY <2>2, <2>3, <2>4 DEF IngestInv, Gated, HopByHop, Capped
<1> QED
  BY <1>1, <1>2

\* A hop that passes the checks visits a new URL, and connects to an address it checked.
LEMMA ResolveSafeKeeps ==
  ASSUME IngestInv, NEW addresses \in SeqOf(Addresses, 2), ResolveSafe(addresses)
  PROVE  IngestInv'
<1> DEFINE spoilt == \/ \E i \in DOMAIN fetch.visited : fetch.visited[i] = fetch.current
                     \/ fetch.current \in UnfetchableUrls
                     \/ addresses = <<>>
                     \/ ~fetch.allowPrivate /\ \E i \in DOMAIN addresses : addresses[i] = "private"
<1>1. CASE spoilt
  <2>1. Answer("400")
    BY <1>1 DEF ResolveSafe
  <2> QED
    BY <2>1, Settled
<1>2. CASE ~spoilt
  <2> DEFINE url == fetch.current
             address == Head(addresses)
  <2>1. fetch.pc = "hop" /\ fetch' = [fetch EXCEPT !.pc = "request",
           !.visited = Append(fetch.visited, url), !.connected = Append(fetch.connected, address)]
    BY <1>2 DEF ResolveSafe
  <2>2. addresses \in Seq(Addresses)
    <3>1. PICK m \in 0 .. 2 : addresses \in [1 .. m -> Addresses]
      BY DEF SeqOf
    <3>2. m \in Nat
      OBVIOUS
    <3> QED
      BY <3>1, <3>2, SeqDef
  <2>3. address \in Addresses /\ (address = "private" => fetch.allowPrivate)
    BY <1>2, <2>2
  <2>4. /\ fetch.visited \in Seq(Urls) /\ url \in Urls /\ fetch.connected \in Seq(Addresses)
        /\ DOMAIN fetch = FetchFields /\ fetch.hop \in 0 .. MaxRedirects
        /\ Len(fetch.visited) = fetch.hop /\ Len(fetch.connected) = fetch.hop
        /\ IsInjective(fetch.visited)
        /\ ("private" \in ToSet(fetch.connected) => fetch.allowPrivate)
    BY <2>1 DEF IngestInv, HopByHop
  <2>5. \A i \in DOMAIN fetch.visited : fetch.visited[i] # url
    BY <1>2
  <2> HIDE DEF url, address
  <2>6. /\ fetch'.pc = "request" /\ fetch'.hop = fetch.hop /\ fetch'.current = fetch.current
        /\ fetch'.visited = Append(fetch.visited, url)
        /\ fetch'.connected = Append(fetch.connected, address)
        /\ fetch'.allowPrivate = fetch.allowPrivate /\ DOMAIN fetch' = FetchFields
    BY <2>1, <2>4 DEF FetchFields
  <2>7. /\ fetch'.visited \in Seq(Urls) /\ Len(fetch'.visited) = fetch.hop + 1
        /\ IsInjective(fetch'.visited)
    BY <2>4, <2>5, <2>6, Appended
  <2>8. /\ fetch'.connected \in Seq(Addresses) /\ Len(fetch'.connected) = fetch.hop + 1
        /\ ToSet(fetch'.connected) = ToSet(fetch.connected) \union {address}
    BY <2>3, <2>4, <2>6, Appended
  <2>9. fetch'.current \in Urls
    BY <2>4, <2>6 DEF url
  <2> QED
    BY <2>3, <2>4, <2>6, <2>7, <2>8, <2>9 DEF IngestInv, Gated, HopByHop, Capped
<1> QED
  BY <1>1, <1>2

\* A redirect starts a hop within the limit, which no fetch outlives.
LEMMA RedirectKeeps ==
  ASSUME IngestInv, NEW target \in Urls, Redirect(target)
  PROVE  IngestInv'
<1>1. CASE fetch.hop >= MaxRedirects
  <2>1. Answer("400")
    BY <1>1 DEF Redirect
  <2> QED
    BY <2>1, Settled
<1>2. CASE ~(fetch.hop >= MaxRedirects)
  <2>1. MaxRedirects \in Nat
    BY IngestAssumption DEF IngestAssumption
  <2>2. /\ fetch.pc = "request" /\ DOMAIN fetch = FetchFields /\ fetch.hop \in 0 .. MaxRedirects
        /\ fetch.visited \in Seq(Urls) /\ fetch.connected \in Seq(Addresses)
        /\ Len(fetch.visited) = fetch.hop + 1 /\ Len(fetch.connected) = fetch.hop + 1
        /\ IsInjective(fetch.visited)
        /\ ("private" \in ToSet(fetch.connected) => fetch.allowPrivate)
    BY DEF IngestInv, HopByHop, Redirect
  <2>3. fetch.hop + 1 \in 0 .. MaxRedirects
    BY <1>2, <2>1, <2>2
  <2>4. fetch' = [fetch EXCEPT !.pc = "hop", !.hop = fetch.hop + 1, !.current = target]
    BY <1>2, <2>3 DEF Redirect
  <2>5. /\ fetch'.pc = "hop" /\ fetch'.hop = fetch.hop + 1 /\ fetch'.current = target
        /\ fetch'.visited = fetch.visited /\ fetch'.connected = fetch.connected
        /\ fetch'.allowPrivate = fetch.allowPrivate /\ DOMAIN fetch' = FetchFields
    BY <2>2, <2>4 DEF FetchFields
  <2> QED
    BY <2>2, <2>3, <2>5 DEF IngestInv, Gated, HopByHop, Capped
<1> QED
  BY <1>1, <1>2

\* A body is begun with nothing received, and read a chunk at a time under the cap.
LEMMA BodyBeginsKeeps ==
  ASSUME IngestInv, NEW declared, NEW pdfType, NEW magic, BodyBegins(declared, pdfType, magic)
  PROVE  IngestInv'
<1>1. CASE declared > MaxBytes
  BY <1>1, Settled DEF BodyBegins
<1>2. CASE ~(declared > MaxBytes)
  <2>1. fetch.pc = "request" /\ DOMAIN fetch = FetchFields
    BY DEF IngestInv, HopByHop, BodyBegins
  <2>2. fetch' = [pc |-> "reading", hop |-> fetch.hop, current |-> fetch.current,
                  visited |-> fetch.visited, allowPrivate |-> fetch.allowPrivate,
                  connected |-> fetch.connected, received |-> 0,
                  pdfType |-> pdfType, magic |-> magic]
    BY <1>2 DEF BodyBegins
  <2>3. /\ fetch'.pc = "reading" /\ fetch'.hop = fetch.hop /\ fetch'.current = fetch.current
        /\ fetch'.visited = fetch.visited /\ fetch'.connected = fetch.connected
        /\ fetch'.allowPrivate = fetch.allowPrivate /\ fetch'.received = 0
        /\ FetchFields \subseteq DOMAIN fetch' /\ "received" \in DOMAIN fetch'
    BY <2>2 DEF FetchFields
  <2>4. 0 \in 0 .. MaxBytes
    BY IngestAssumption DEF IngestAssumption
  <2> QED
    BY <2>1, <2>3, <2>4 DEF IngestInv, Gated, HopByHop, Capped
<1> QED
  BY <1>1, <1>2

LEMMA ReadingKeeps ==
  ASSUME IngestInv, (\E n \in ChunkSizes : ReadChunk(n)) \/ BodyEnds
  PROVE  IngestInv'
<1>1. ASSUME NEW n \in ChunkSizes, ReadChunk(n), ~(fetch.received + n > MaxBytes)
      PROVE  IngestInv'
  <2>1. fetch.pc = "reading" /\ fetch' = [fetch EXCEPT !.received = fetch.received + n]
    BY <1>1 DEF ReadChunk
  <2>2. FetchFields \subseteq DOMAIN fetch /\ "received" \in DOMAIN fetch /\ fetch.received \in 0 .. MaxBytes
    BY <2>1 DEF IngestInv, HopByHop, Capped
  <2>3. fetch.received + n \in 0 .. MaxBytes
    BY <1>1, <2>2, IngestAssumption DEF IngestAssumption
  <2>4. /\ DOMAIN fetch' = DOMAIN fetch /\ fetch'.received = fetch.received + n
        /\ fetch'.pc = "reading" /\ fetch'.hop = fetch.hop /\ fetch'.current = fetch.current
        /\ fetch'.visited = fetch.visited /\ fetch'.connected = fetch.connected
        /\ fetch'.allowPrivate = fetch.allowPrivate
    BY <2>1, <2>2 DEF FetchFields
  <2> QED
    BY <2>1, <2>2, <2>3, <2>4 DEF IngestInv, Gated, HopByHop, Capped
<1>2. ASSUME BodyEnds, fetch' = [fetch EXCEPT !.pc = "fetched"] PROVE IngestInv'
  <2>1. fetch.pc = "reading" /\ FetchFields \subseteq DOMAIN fetch /\ "received" \in DOMAIN fetch
    BY <1>2 DEF BodyEnds, IngestInv, HopByHop, Capped
  <2>2. /\ DOMAIN fetch' = DOMAIN fetch /\ fetch'.received = fetch.received
        /\ fetch'.pc = "fetched" /\ fetch'.hop = fetch.hop /\ fetch'.current = fetch.current
        /\ fetch'.visited = fetch.visited /\ fetch'.connected = fetch.connected
        /\ fetch'.allowPrivate = fetch.allowPrivate
    BY <1>2, <2>1 DEF FetchFields
  <2> QED
    BY <2>1, <2>2 DEF IngestInv, Gated, HopByHop, Capped
<1> QED
  BY <1>1, <1>2, Settled DEF ReadChunk, BodyEnds

-----------------------------------------------------------------------------
(* Theorems.                                                               *)

\* The invariant under every step of the specification.
THEOREM IngestInvariance == IngestSpec => []IngestInv
<1>1. IngestInit => IngestInv
  BY DEF IngestInit, IngestInv, Gated, HopByHop, Capped
<1>2. IngestInv /\ [IngestNext]_ingestVars => IngestInv'
  <2> SUFFICES ASSUME IngestInv, [IngestNext]_ingestVars PROVE IngestInv'
    OBVIOUS
  <2>1. CASE UNCHANGED ingestVars
    BY <2>1 DEF ingestVars, IngestInv, Gated, HopByHop, Capped
  <2>2. CASE IngestNext
    <3>1. CASE \/ Unauthorized \/ UpstreamRefuses \/ ReadFails
               \/ \E code \in {"500", "408", "400"} : RequestFails(code)
      BY <3>1, Settled DEF Unauthorized, UpstreamRefuses, ReadFails, RequestFails
    <3>2. CASE \E list \in ModeLists, set \in SUBSET AuthSettings, presented \in Presentable :
                 Authenticate(list, set, presented)
      BY <3>2, AuthenticateKeeps
    <3>3. CASE \E enabled, allow \in BOOLEAN, url \in Urls : FetchPdf(enabled, allow, url)
      BY <3>3, FetchPdfKeeps
    <3>4. CASE \/ \E addresses \in SeqOf(Addresses, 2) : ResolveSafe(addresses)
               \/ \E target \in Urls : Redirect(target)
      BY <3>4, ResolveSafeKeeps, RedirectKeeps
    <3>5. CASE \E declared \in 0 .. MaxBytes + 1, pdfType, magic \in BOOLEAN :
                 BodyBegins(declared, pdfType, magic)
      BY <3>5, BodyBeginsKeeps
    <3> QED
      BY <2>2, <3>1, <3>2, <3>3, <3>4, <3>5, ReadingKeeps DEF IngestNext
  <2> QED
    BY <2>1, <2>2
<1> QED
  BY <1>1, <1>2, PTL DEF IngestSpec

\* A fetch connects only to addresses it checked, a new URL at each hop and at most one more
\* than the redirects allowed, and keeps no more of a body than its cap; no fetch runs out of
\* hops without an answer (fetch_pdf_from_url).
THEOREM FetchesAreContained == IngestSpec => []FetchContained
<1>1. IngestInv => FetchContained
  <2> SUFFICES ASSUME IngestInv PROVE FetchContained
    OBVIOUS
  <2>1. MaxRedirects \in Nat
    BY IngestAssumption DEF IngestAssumption
  <2> QED
    BY <2>1 DEF IngestInv, HopByHop, Capped, FetchContained
<1> QED
  BY <1>1, IngestInvariance, PTL

\* Whoever passes the gate presented a whole secret of the deployment, or the deployment is
\* open: told so, or without any secret (allowed_modes, require_auth).
THEOREM SecretsLock == IngestSpec => []SecretLocks
<1>1. IngestInv => SecretLocks
  <2> SUFFICES ASSUME IngestInv, fetch.pc = "gate", fetch.passed,
                      \A m \in fetch.presented : ~(Secret(m) \subseteq fetch.set)
               PROVE  \/ fetch.list = {"none"}
                      \/ /\ fetch.list = {}
                         /\ fetch.set \intersect {"bearer", "api-key", "internal"} = {}
                         /\ "basic-enabled" \in fetch.set =>
                              {"user", "password"} \intersect fetch.set = {}
    BY DEF SecretLocks
  <2> DEFINE modes == AllowedModes(fetch.list, fetch.set)
  <2>1. fetch.list \in ModeLists /\ Authenticated(fetch.list, fetch.set, fetch.presented)
    BY DEF IngestInv, Gated
  <2>2. \A m \in modes : m = "none"
    BY <2>1 DEF Authenticated, AuthRequired
  <2>3. CASE fetch.list # {}
    <3>1. modes = fetch.list
      BY <2>3 DEF AllowedModes
    <3> QED
      BY <2>2, <2>3, <3>1
  <2>4. CASE fetch.list = {}
    <3> DEFINE inferred == (fetch.set \intersect {"bearer", "api-key", "internal"})
                  \union (IF "basic-enabled" \in fetch.set /\ fetch.set \intersect {"user", "password"} # {}
                          THEN {"basic"} ELSE {})
    <3>1. modes = IF inferred # {} THEN inferred ELSE {"none"}
      BY <2>4 DEF AllowedModes
    <3>2. inferred \subseteq {"bearer", "api-key", "internal", "basic"}
      OBVIOUS
    <3>3. inferred = {}
      <4> HIDE DEF inferred, modes
      <4> QED
        BY <2>2, <3>1, <3>2
    <3> QED
      BY <2>4, <3>3
  <2> QED
    BY <2>3, <2>4
<1> QED
  BY <1>1, IngestInvariance, PTL

-----------------------------------------------------------------------------
(* The edge worker, for any documents, URLs and hashes.                    *)

Endpoints == {"probe", "two-phase", "granular"}
First(endpoint) == KindsOf(endpoint)[1]
Second(endpoint) == KindsOf(endpoint)[2]

\* An entry under a hash is of the document of that hash, or the hash was once sent with the
\* URL of another; and it is of its key's kind, or it is a second result that came first.
TrueEntry(key, entry, c, d) ==
  /\ entry.doc = key.sha \/ key.sha \in c
  /\ \/ entry.kind = key.kind
     \/ /\ \E endpoint \in Endpoints \ {"granular"} :
             key.kind = First(endpoint) /\ entry.kind = Second(endpoint)
        /\ key.sha \in c \union d

Frames == [doc : EdgeDocs,
           kind : {"probe-min", "probe-std", "extract-phase-1", "extract-phase-1-min", "extract", Pass}]

RequestFields == {"pc", "endpoint", "tenant", "body", "replay", "frames", "index"}

\* Where in a stream a frame comes: all that Target looks at.
Place(endpoint, nth) == [endpoint |-> endpoint, index |-> nth]

\* What the body of a request under way claims has been noted.
Noted(body, c) == body.sha # Nothing /\ body.doc \notin {Nothing, body.sha} => body.sha \in c

\* What a request has read, is about to file and has sent is true.
TrueRequest(q, c, d) ==
  /\ q.pc \in {"get", "proxy", "relay", "done"}
  /\ q.pc \in {"get", "proxy", "relay"} =>
       DOMAIN q = RequestFields /\ q.endpoint \in Endpoints /\ q.body \in EdgeBodies
  /\ q.pc = "get" =>
       \/ q.replay = <<>>
       \/ \E entry : /\ q.replay = <<entry>>
                     /\ TrueEntry(CacheKey(q.body.sha, First(q.endpoint)), entry, c, d)
  /\ q.pc \in {"get", "proxy"} => q.index = 0 /\ Noted(q.body, c)
  /\ q.pc = "relay" =>
       /\ q.index \in Nat /\ q.frames \in Seq(Frames)
       /\ \A i \in 1 .. Len(q.frames) :
            \A k \in Target(Place(q.endpoint, q.index + i - 1), q.frames[i]) :
              TrueEntry(CacheKey(q.body.sha, k), q.frames[i], c, d)
  /\ q.pc = "done" /\ q.cache = "hit" =>
       /\ q.endpoint \in Endpoints
       /\ TrueEntry(CacheKey(q.sha, First(q.endpoint)), q.sent[1], c, d)
       /\ TrueEntry(CacheKey(q.sha, Second(q.endpoint)), q.sent[2], c, d)

EdgeInv ==
  /\ DOMAIN edge = EdgeRequests
  /\ \A key \in DOMAIN kv : TrueEntry(key, kv[key], claimed, dropped)
  /\ \A w \in writes : TrueEntry(w[1], w[2], claimed, dropped)
  /\ \A r \in EdgeRequests : TrueRequest(edge[r], claimed, dropped)

\* What is noted of claims and of drops only grows, and truth stays.
LEMMA TruthStays ==
  ASSUME NEW c, NEW d, NEW c2, NEW d2, c \subseteq c2, d \subseteq d2
  PROVE  /\ \A key, entry : TrueEntry(key, entry, c, d) => TrueEntry(key, entry, c2, d2)
         /\ \A q : TrueRequest(q, c, d) => TrueRequest(q, c2, d2)
<1>1. \A key, entry : TrueEntry(key, entry, c, d) => TrueEntry(key, entry, c2, d2)
  BY DEF TrueEntry
<1>2. \A body : Noted(body, c) => Noted(body, c2)
  BY DEF Noted
<1>3. \A q : TrueRequest(q, c, d) => TrueRequest(q, c2, d2)
  BY <1>1, <1>2 DEF TrueRequest
<1> QED
  BY <1>1, <1>3

\* One request moves and the histories grow.
LEMMA EdgeMoves ==
  ASSUME EdgeInv, NEW r \in EdgeRequests, NEW q, edge' = [edge EXCEPT ![r] = q],
         claimed \subseteq claimed', dropped \subseteq dropped', TrueRequest(q, claimed', dropped'),
         UNCHANGED kv,
         \A w \in writes' : w \in writes \/ TrueEntry(w[1], w[2], claimed', dropped')
  PROVE  EdgeInv'
<1>1. /\ \A key, entry : TrueEntry(key, entry, claimed, dropped) =>
                           TrueEntry(key, entry, claimed', dropped')
      /\ \A x : TrueRequest(x, claimed, dropped) => TrueRequest(x, claimed', dropped')
  BY TruthStays
<1>2. DOMAIN edge' = EdgeRequests /\ edge'[r] = q
      /\ \A x \in EdgeRequests : x # r => edge'[x] = edge[x]
  BY DEF EdgeInv
<1>3. \A x \in EdgeRequests : TrueRequest(edge'[x], claimed', dropped')
  BY <1>1, <1>2 DEF EdgeInv
<1>4. \A key \in DOMAIN kv' : TrueEntry(key, kv'[key], claimed', dropped')
  BY <1>1 DEF EdgeInv
<1>5. \A w \in writes' : TrueEntry(w[1], w[2], claimed', dropped')
  BY <1>1 DEF EdgeInv
<1> QED
  BY <1>2, <1>3, <1>4, <1>5 DEF EdgeInv

LEMMA DoneIsTrue == \A c, d : TrueRequest(Done, c, d)
BY DEF TrueRequest, Done

LEMMA HandleTrue ==
  ASSUME EdgeInv, NEW r \in EdgeRequests, NEW endpoint \in Endpoints, NEW tenant,
         NEW body \in EdgeBodies, Handle(r, endpoint, tenant, body)
  PROVE  EdgeInv'
<1> DEFINE q == [pc |-> IF body.sha = Nothing THEN "proxy" ELSE "get",
                 endpoint |-> endpoint, tenant |-> tenant, body |-> body,
                 replay |-> <<>>, frames |-> <<>>, index |-> 0]
<1>1. /\ edge' = [edge EXCEPT ![r] = q] /\ UNCHANGED <<kv, writes, dropped>>
      /\ claimed \subseteq claimed' /\ Noted(body, claimed')
  BY DEF Handle, Noted
<1>2. TrueRequest(q, claimed', dropped')
  BY <1>1 DEF TrueRequest, RequestFields
<1> QED
  BY <1>1, <1>2, EdgeMoves

LEMMA TryReplayTrue ==
  ASSUME EdgeInv, NEW r \in EdgeRequests, TryReplay(r)
  PROVE  EdgeInv'
<1> DEFINE q == edge[r]
           i == Len(q.replay) + 1
           key == CacheKey(q.body.sha, KindsOf(q.endpoint)[i])
<1>1. /\ q.pc = "get" /\ TrueRequest(q, claimed, dropped)
      /\ UNCHANGED <<kv, writes, claimed, dropped>>
  BY DEF TryReplay, EdgeInv
<1>2. /\ DOMAIN q = RequestFields /\ q.endpoint \in Endpoints /\ q.body \in EdgeBodies
      /\ q.index = 0 /\ Noted(q.body, claimed)
      /\ \/ q.replay = <<>>
         \/ \E entry :
              /\ q.replay = <<entry>>
              /\ TrueEntry(CacheKey(q.body.sha, First(q.endpoint)), entry, claimed, dropped)
  BY <1>1 DEF TrueRequest
<1>3. ASSUME NEW new, edge' = [edge EXCEPT ![r] = new], TrueRequest(new, claimed, dropped)
      PROVE  EdgeInv'
  BY <1>1, <1>3, EdgeMoves
<1>4. CASE key \notin DOMAIN kv
  <2> DEFINE new == [q EXCEPT !.pc = "proxy", !.replay = <<>>]
  <2>1. edge' = [edge EXCEPT ![r] = new]
    BY <1>4 DEF TryReplay
  <2>2. /\ new.pc = "proxy" /\ DOMAIN new = RequestFields /\ new.endpoint = q.endpoint
        /\ new.body = q.body /\ new.index = q.index
    BY <1>2 DEF RequestFields
  <2> HIDE DEF new
  <2>3. TrueRequest(new, claimed, dropped)
    BY <1>2, <2>2 DEF TrueRequest
  <2> QED
    BY <1>3, <2>1, <2>3
<1>5. CASE key \in DOMAIN kv /\ q.replay = <<>>
  <2> DEFINE new == [q EXCEPT !.replay = <<kv[key]>>]
  <2>1. i = 1
    BY <1>5
  <2>2. edge' = [edge EXCEPT ![r] = new]
    BY <1>5, <2>1 DEF TryReplay
  <2>3. /\ new.pc = "get" /\ DOMAIN new = RequestFields /\ new.endpoint = q.endpoint
        /\ new.body = q.body /\ new.index = q.index /\ new.replay = <<kv[key]>>
    BY <1>1, <1>2 DEF RequestFields
  <2>4. TrueEntry(CacheKey(q.body.sha, First(q.endpoint)), kv[key], claimed, dropped)
    BY <1>5, <2>1 DEF EdgeInv, First
  <2> HIDE DEF new
  <2>5. TrueRequest(new, claimed, dropped)
    BY <1>2, <2>3, <2>4 DEF TrueRequest
  <2> QED
    BY <1>3, <2>2, <2>5
<1>6. CASE key \in DOMAIN kv /\ q.replay # <<>>
  <2>1. PICK entry :
          /\ q.replay = <<entry>>
          /\ TrueEntry(CacheKey(q.body.sha, First(q.endpoint)), entry, claimed, dropped)
    BY <1>2, <1>6
  <2>2. i = 2 /\ i # 1
    BY <2>1
  <2> DEFINE new == [pc |-> "done", cache |-> "hit", endpoint |-> q.endpoint,
                     sha |-> q.body.sha, sent |-> Append(q.replay, kv[key])]
  <2>3. edge' = [edge EXCEPT ![r] = new]
    <3>1. edge' = [edge EXCEPT ![r] =
                     IF key \notin DOMAIN kv THEN [q EXCEPT !.pc = "proxy", !.replay = <<>>]
                     ELSE IF i = 1 THEN [q EXCEPT !.replay = <<kv[key]>>]
                     ELSE new]
      BY DEF TryReplay
    <3> HIDE DEF new, i, key
    <3> QED
      BY <1>6, <2>2, <3>1
  <2>4. new.sent[1] = entry /\ new.sent[2] = kv[key]
    BY <2>1
  <2>5. TrueEntry(CacheKey(q.body.sha, Second(q.endpoint)), kv[key], claimed, dropped)
    BY <1>6, <2>2 DEF EdgeInv, Second
  <2>6. new.pc = "done" /\ new.endpoint = q.endpoint /\ new.sha = q.body.sha
    OBVIOUS
  <2> HIDE DEF new
  <2>7. TrueRequest(new, claimed, dropped)
    BY <1>2, <2>1, <2>4, <2>5, <2>6 DEF TrueRequest
  <2> QED
    BY <1>3, <2>3, <2>7
<1> QED
  BY <1>4, <1>5, <1>6

\* Of a stream, only the second result may come in another's place, as the first event.
LEMMA StreamFrames ==
  ASSUME NEW endpoint \in Endpoints, NEW doc \in EdgeDocs,
         NEW first \in BOOLEAN, NEW second \in BOOLEAN
  PROVE  LET f == Stream(endpoint, doc, first, second)
         IN  /\ f \in Seq(Frames)
             /\ \A i \in 1 .. Len(f) :
                  /\ f[i].doc = doc
                  /\ endpoint # "granular" =>
                       \/ i = 1 /\ f[i].kind = First(endpoint)
                       \/ i = 2 /\ f[i].kind = Second(endpoint)
                       \/ i = 1 /\ ~first /\ f[i].kind = Second(endpoint)
<1> DEFINE p(k) == Payload(doc, k)
           a == IF first THEN <<p(First(endpoint))>> ELSE <<>>
           b == IF endpoint = "granular" THEN <<p(Pass)>> ELSE <<>>
           c == IF second THEN <<p(Second(endpoint))>> ELSE <<>>
<1>1. Stream(endpoint, doc, first, second) = (a \o b) \o c
  BY DEF Stream, First, Second
<1>2. p(First(endpoint)) \in Frames /\ p(Pass) \in Frames /\ p(Second(endpoint)) \in Frames
  BY DEF Frames, Payload, KindsOf, First, Second, Endpoints
<1>3. \A k : p(k).doc = doc /\ p(k).kind = k
  BY DEF Payload
<1> HIDE DEF p
<1>4. a \in Seq(Frames) /\ b \in Seq(Frames) /\ c \in Seq(Frames) /\ a \o b \in Seq(Frames)
  BY <1>2
<1>5. /\ \A i \in 1 .. Len(a) : a[i].doc = doc /\ i = 1 /\ a[i].kind = First(endpoint) /\ first
      /\ \A i \in 1 .. Len(b) : b[i].doc = doc /\ endpoint = "granular"
      /\ \A i \in 1 .. Len(c) : c[i].doc = doc /\ i = 1 /\ c[i].kind = Second(endpoint)
      /\ Len(a) = IF first THEN 1 ELSE 0
      /\ Len(b) = IF endpoint = "granular" THEN 1 ELSE 0
  BY <1>3
<1> HIDE DEF a, b, c
<1>6. /\ (a \o b) \o c \in Seq(Frames)
      /\ Len((a \o b) \o c) = Len(a) + Len(b) + Len(c)
      /\ \A i \in 1 .. Len((a \o b) \o c) :
           ((a \o b) \o c)[i] = IF i <= Len(a) THEN a[i]
                               ELSE IF i <= Len(a) + Len(b) THEN b[i - Len(a)]
                               ELSE c[i - (Len(a) + Len(b))]
  BY <1>4
<1>7. ASSUME NEW i \in 1 .. Len((a \o b) \o c)
      PROVE  LET f == (a \o b) \o c
             IN  /\ f[i].doc = doc
                 /\ endpoint # "granular" =>
                      \/ i = 1 /\ f[i].kind = First(endpoint)
                      \/ i = 2 /\ f[i].kind = Second(endpoint)
                      \/ i = 1 /\ ~first /\ f[i].kind = Second(endpoint)
  <2>1. Len(a) \in Nat /\ Len(b) \in Nat /\ Len(c) \in Nat
    BY <1>4
  <2>2. CASE i <= Len(a)
    BY <1>5, <1>6, <1>7, <2>1, <2>2
  <2>3. CASE ~(i <= Len(a)) /\ i <= Len(a) + Len(b)
    <3>1. i - Len(a) \in 1 .. Len(b)
      BY <2>1, <2>3
    <3> QED
      BY <1>5, <1>6, <1>7, <2>1, <2>3, <3>1
  <2>4. CASE ~(i <= Len(a)) /\ ~(i <= Len(a) + Len(b))
    <3>1. i - (Len(a) + Len(b)) \in 1 .. Len(c)
      BY <1>6, <2>1, <2>4
    <3>2. i - (Len(a) + Len(b)) = 1
      BY <1>5, <3>1
    <3> QED
      BY <1>5, <1>6, <1>7, <2>1, <2>4, <3>1, <3>2, SMTT(30)
  <2> QED
    BY <2>2, <2>3, <2>4
<1> QED
  BY <1>1, <1>6, <1>7

\* A frame of the document goes under a key where it is true.
LEMMA FiledTrue ==
  ASSUME NEW q, q.endpoint \in Endpoints, NEW frame \in Frames, NEW i \in Nat \ {0}, NEW c, NEW d,
         NEW place, place.endpoint = q.endpoint, place.index = i - 1,
         frame.doc = q.body.sha \/ q.body.sha \in c,
         q.endpoint # "granular" =>
           \/ i = 1 /\ frame.kind = First(q.endpoint)
           \/ i = 2 /\ frame.kind = Second(q.endpoint)
           \/ i = 1 /\ q.body.sha \in c \union d /\ frame.kind = Second(q.endpoint),
         NEW k \in Target(place, frame)
  PROVE  TrueEntry(CacheKey(q.body.sha, k), frame, c, d)
<1>1. q.endpoint = "granular" => frame.kind = k
  BY DEF Target, CaptureExtractStream
<1>2. q.endpoint # "granular" => k = KindsOf(q.endpoint)[i] /\ i \in {1, 2}
  BY DEF Target, CaptureExtractStream, OrderedProbeCache
<1>3. CacheKey(q.body.sha, k).sha = q.body.sha /\ CacheKey(q.body.sha, k).kind = k
  BY DEF CacheKey
<1> QED
  BY <1>1, <1>2, <1>3 DEF TrueEntry, First, Second

LEMMA ProxyTrue ==
  ASSUME EdgeInv, NEW r \in EdgeRequests, NEW first \in BOOLEAN, NEW second \in BOOLEAN,
         Proxy(r, first, second)
  PROVE  EdgeInv'
<1> DEFINE q == edge[r]
           doc == OriginReads(q.endpoint, q.tenant, q.body)
           frames == IF doc = Nothing THEN <<>> ELSE Stream(q.endpoint, doc, first, second)
           new == [q EXCEPT !.pc = "relay", !.frames = frames]
<1>1. /\ q.pc = "proxy" /\ TrueRequest(q, claimed, dropped) /\ UNCHANGED <<kv, writes, claimed>>
      /\ dropped' = IF first \/ q.endpoint = "granular" THEN dropped ELSE dropped \union {doc}
      /\ edge' = [edge EXCEPT ![r] = IF doc = Nothing \/ q.body.sha = Nothing THEN Done ELSE new]
  BY DEF Proxy, EdgeInv
<1>2. /\ DOMAIN q = RequestFields /\ q.endpoint \in Endpoints /\ q.body \in EdgeBodies
      /\ q.index = 0 /\ Noted(q.body, claimed)
  BY <1>1 DEF TrueRequest
<1>3. dropped \subseteq dropped'
  BY <1>1
<1> HIDE DEF doc, new
<1>4. CASE doc = Nothing \/ q.body.sha = Nothing
  BY <1>1, <1>3, <1>4, DoneIsTrue, EdgeMoves
<1>5. CASE ~(doc = Nothing \/ q.body.sha = Nothing)
  <2>1. edge' = [edge EXCEPT ![r] = new]
    BY <1>1, <1>5
  <2>2. q.body.json /\ q.body \in Bodies
    BY <1>2, <1>5, EdgeAssumption
  <2>3. doc \in EdgeDocs /\ (doc = q.body.sha \/ q.body.sha \in claimed')
    BY <1>1, <1>2, <1>5, <2>2 DEF doc, OriginReads, Noted, Bodies, Endpoints
  <2>4. /\ new.pc = "relay" /\ DOMAIN new = RequestFields /\ new.endpoint = q.endpoint
        /\ new.body = q.body /\ new.index = 0 /\ new.frames = Stream(q.endpoint, doc, first, second)
    BY <1>2, <1>5 DEF new, RequestFields
  <2> DEFINE f == new.frames
  <2>5. /\ f \in Seq(Frames)
        /\ \A i \in 1 .. Len(f) :
             /\ f[i].doc = doc
             /\ q.endpoint # "granular" =>
                  \/ i = 1 /\ f[i].kind = First(q.endpoint)
                  \/ i = 2 /\ f[i].kind = Second(q.endpoint)
                  \/ i = 1 /\ ~first /\ f[i].kind = Second(q.endpoint)
    BY <1>2, <2>3, <2>4, StreamFrames
  <2>6. q.endpoint # "granular" /\ ~first => q.body.sha \in claimed' \union dropped'
    BY <1>1, <2>3
  <2>7. ASSUME NEW i \in 1 .. Len(f), NEW k \in Target(Place(new.endpoint, new.index + i - 1), f[i])
        PROVE  TrueEntry(CacheKey(new.body.sha, k), f[i], claimed', dropped')
    <3> DEFINE place == Place(new.endpoint, new.index + i - 1)
    <3>1. place.endpoint = new.endpoint /\ place.index = i - 1
      BY <2>4 DEF Place
    <3>2. f[i] \in Frames /\ i \in Nat \ {0}
      BY <2>5
    <3>3. k \in Target(place, f[i])
      BY <2>7
    <3> HIDE DEF place, f
    <3> QED
      BY <1>2, <2>3, <2>4, <2>5, <2>6, <3>1, <3>2, <3>3, FiledTrue, ZenonT(30)
  <2>8. TrueRequest(new, claimed', dropped')
    BY <1>2, <2>4, <2>5, <2>7 DEF TrueRequest
  <2> QED
    BY <1>1, <1>3, <2>1, <2>8, EdgeMoves
<1> QED
  BY <1>4, <1>5

LEMMA RelayTrue ==
  ASSUME EdgeInv, NEW r \in EdgeRequests, Relay(r)
  PROVE  EdgeInv'
<1> DEFINE q == edge[r]
           f == q.frames
           new == [q EXCEPT !.frames = Tail(@), !.index = @ + 1]
<1>1. /\ q.pc = "relay" /\ f # <<>> /\ TrueRequest(q, claimed, dropped)
      /\ writes' = writes \union {<<CacheKey(q.body.sha, k), Head(f)>> : k \in Target(q, Head(f))}
      /\ edge' = [edge EXCEPT ![r] = new] /\ UNCHANGED <<kv, claimed, dropped>>
  BY DEF Relay, EdgeInv
<1>2. /\ DOMAIN q = RequestFields /\ q.endpoint \in Endpoints /\ q.body \in EdgeBodies
      /\ q.index \in Nat /\ f \in Seq(Frames)
      /\ \A i \in 1 .. Len(f) : \A k \in Target(Place(q.endpoint, q.index + i - 1), f[i]) :
           TrueEntry(CacheKey(q.body.sha, k), f[i], claimed, dropped)
  BY <1>1 DEF TrueRequest
<1>3. /\ 1 \in 1 .. Len(f) /\ Head(f) = f[1] /\ Len(Tail(f)) = Len(f) - 1
      /\ Tail(f) \in Seq(Frames) /\ \A i \in 1 .. Len(Tail(f)) : Tail(f)[i] = f[i + 1]
  BY <1>1, <1>2
<1>4. \A frame : Target(Place(q.endpoint, q.index), frame) = Target(q, frame)
  BY DEF Target, OrderedProbeCache, CaptureExtractStream, Place
<1>5. \A k \in Target(q, Head(f)) : TrueEntry(CacheKey(q.body.sha, k), Head(f), claimed, dropped)
  <2>1. q.index + 1 - 1 = q.index
    BY <1>2
  <2> QED
    BY <1>2, <1>3, <1>4, <2>1
<1>6. /\ new.pc = "relay" /\ DOMAIN new = RequestFields /\ new.endpoint = q.endpoint
      /\ new.body = q.body /\ new.index = q.index + 1 /\ new.frames = Tail(f)
  BY <1>1, <1>2 DEF RequestFields
<1> HIDE DEF new
<1>7. \A i \in 1 .. Len(Tail(f)) : \A k \in Target(Place(q.endpoint, q.index + 1 + i - 1), Tail(f)[i]) :
         TrueEntry(CacheKey(q.body.sha, k), Tail(f)[i], claimed, dropped)
  <2> SUFFICES ASSUME NEW i \in 1 .. Len(Tail(f)),
                      NEW k \in Target(Place(q.endpoint, q.index + 1 + i - 1), Tail(f)[i])
               PROVE  TrueEntry(CacheKey(q.body.sha, k), Tail(f)[i], claimed, dropped)
    OBVIOUS
  <2>1. i + 1 \in 1 .. Len(f) /\ q.index + 1 + i - 1 = q.index + (i + 1) - 1
    BY <1>2, <1>3
  <2>2. k \in Target(Place(q.endpoint, q.index + (i + 1) - 1), f[i + 1])
    BY <1>3, <2>1
  <2> QED
    BY <1>2, <1>3, <2>1, <2>2
<1>8. TrueRequest(new, claimed, dropped)
  BY <1>1, <1>2, <1>3, <1>6, <1>7, SMTT(30) DEF TrueRequest
<1>9. \A w \in writes' : w \in writes \/ TrueEntry(w[1], w[2], claimed, dropped)
  BY <1>1, <1>5
<1> QED
  BY <1>1, <1>8, <1>9, EdgeMoves

LEMMA OthersTrue ==
  ASSUME EdgeInv, NEW r \in EdgeRequests, GetRejects(r) \/ Close(r) \/ Cancel(r)
  PROVE  EdgeInv'
<1>1. edge' = [edge EXCEPT ![r] = Done] /\ UNCHANGED <<kv, writes, claimed, dropped>>
  BY DEF GetRejects, Close, Cancel
<1> QED
  BY <1>1, DoneIsTrue, EdgeMoves

\* A put lands, fails, or its entry expires.
LEMMA StoreTrue ==
  ASSUME EdgeInv, UNCHANGED <<edge, claimed, dropped>>, writes' \subseteq writes,
         \A key \in DOMAIN kv' : \/ key \in DOMAIN kv /\ kv'[key] = kv[key]
                                \/ \E w \in writes : key = w[1] /\ kv'[key] = w[2]
  PROVE  EdgeInv'
BY DEF EdgeInv

LEMMA EdgeStep == EdgeInv /\ [EdgeNext]_edgeVars => EdgeInv'
<1> SUFFICES ASSUME EdgeInv, [EdgeNext]_edgeVars PROVE EdgeInv'
  OBVIOUS
<1>1. ASSUME NEW r \in EdgeRequests, NEW t \in EdgeTenants, NEW b \in EdgeBodies,
             \/ HandleProbe(r, t, b)
             \/ \E granular \in BOOLEAN : HandleExtractStream(r, granular, t, b)
      PROVE  EdgeInv'
  BY <1>1, HandleTrue DEF HandleProbe, HandleExtractStream, Endpoints
<1>2. ASSUME NEW w \in writes, PutLands(w) \/ PutRejects(w) PROVE EdgeInv'
  BY <1>2, StoreTrue DEF PutLands, PutRejects
<1>3. ASSUME NEW key, KvExpires(key) PROVE EdgeInv'
  BY <1>3, StoreTrue DEF KvExpires
<1>4. ASSUME NEW b, BlobExpires(b) PROVE EdgeInv'
  BY <1>4, StoreTrue DEF BlobExpires
<1>5. CASE UNCHANGED edgeVars
  BY <1>5, StoreTrue DEF edgeVars
<1> QED
  BY <1>1, <1>2, <1>3, <1>4, <1>5, TryReplayTrue, RelayTrue, ProxyTrue, OthersTrue DEF EdgeNext

LEMMA InvIsTrue == EdgeInv => ReplayTrue
<1> SUFFICES ASSUME EdgeInv, NEW r \in EdgeRequests, edge[r].pc = "done", edge[r].cache = "hit"
             PROVE  LET q == edge[r]
                        sent == q.sent
                        kinds == KindsOf(q.endpoint)
                    IN  /\ \A i \in {1, 2} : sent[i].doc = q.sha \/ q.sha \in claimed
                        /\ sent[2].kind = kinds[2]
                        /\ \/ sent[1].kind = kinds[1]
                           \/ /\ sent[1].kind = kinds[2]
                              /\ q.endpoint # "granular"
                              /\ q.sha \in dropped \union claimed
  BY DEF ReplayTrue
<1> DEFINE q == edge[r]
<1>1. /\ q.endpoint \in Endpoints
      /\ TrueEntry(CacheKey(q.sha, First(q.endpoint)), q.sent[1], claimed, dropped)
      /\ TrueEntry(CacheKey(q.sha, Second(q.endpoint)), q.sent[2], claimed, dropped)
  BY DEF EdgeInv, TrueRequest
<1>2. \A sha, kind : CacheKey(sha, kind).sha = sha /\ CacheKey(sha, kind).kind = kind
  BY DEF CacheKey
<1>3. /\ First("probe") = "probe-min" /\ Second("probe") = "probe-std"
      /\ First("two-phase") = "extract-phase-1" /\ Second("two-phase") = "extract"
      /\ First("granular") = "extract-phase-1-min" /\ Second("granular") = "extract"
  BY DEF First, Second, KindsOf
<1>4. \A endpoint \in Endpoints, other \in Endpoints \ {"granular"} :
         /\ Second(endpoint) # First(other)
         /\ First(endpoint) = First(other) => endpoint = other
  BY <1>3 DEF Endpoints
<1>5. First(q.endpoint) = KindsOf(q.endpoint)[1] /\ Second(q.endpoint) = KindsOf(q.endpoint)[2]
  BY DEF First, Second
<1> HIDE DEF q
<1>6. \A i \in {1, 2} : q.sent[i].doc = q.sha \/ q.sha \in claimed
  BY <1>1, <1>2 DEF TrueEntry
<1>7. q.sent[2].kind = Second(q.endpoint)
  BY <1>1, <1>2, <1>4 DEF TrueEntry
<1>8. \/ q.sent[1].kind = First(q.endpoint)
      \/ /\ q.sent[1].kind = Second(q.endpoint) /\ q.endpoint # "granular"
         /\ q.sha \in dropped \union claimed
  BY <1>1, <1>2, <1>4 DEF TrueEntry
<1> QED
  BY <1>5, <1>6, <1>7, <1>8 DEF q

\* A replay is of the document the client named and in the kinds and order of the stream, except
\* after a body that named one document and linked another, or a stream whose first result was
\* lost: then a second result may stand for a first, in a stream that is not filed by name.
THEOREM ReplaysAreTrue == EdgeSpec => []ReplayTrue
<1>1. EdgeInit => EdgeInv
  BY DoneIsTrue DEF EdgeInit, EdgeInv
<1> QED
  BY <1>1, EdgeStep, InvIsTrue, PTL DEF EdgeSpec

-----------------------------------------------------------------------------
(* The renders, for any replicas, tenants, documents and requests.         *)

\* What has been rendered: the shot s of the document, as a page, for the tenant of k.
WasDrawn(k, s, seen) ==
    \E a \in Args : /\ Shot(a) = s
                    /\ [tenant |-> k.tenant,
                        image |-> [kind |-> "page", doc |-> k.doc, args |-> a]] \in seen

\* A list that may stand in the index of k.
TrueList(list, k, seen) == /\ list \in Seq(Shots) /\ IsInjective(list)
                           /\ \A s \in ToSet(list) : WasDrawn(k, s, seen)

\* A replica has what its request named, an image of exactly that, and, when it is to
\* record a page, a page it has drawn and a list it may write back.
Sound(j, seen) ==
    /\ j \in Job
    /\ j.pc # "idle" => j.kind \in Kinds /\ j.tenant \in Tenants /\ j.doc \in Docs /\ j.args \in Args
    /\ j.pc \in {"read", "record", "done"} => j.image = Drawing(j)
    /\ j.pc \in {"read", "record"} =>
          j.kind = "page" /\ [tenant |-> j.tenant, image |-> j.image] \in seen
    /\ j.pc = "record" /\ j.list # None => TrueList(j.list, IndexKey(j), seen)

SoundReplicas == replica \in [Replicas -> Job] /\ \A r \in Replicas : Sound(replica[r], drawn)

TrueRenders ==
    /\ renders \in [RenderKeys -> Image \cup {None}]
    /\ \A k \in RenderKeys : renders[k] # None =>
          renders[k] = [kind |-> k.kind, doc |-> k.doc, args |-> k.args]

TrueIndex ==
    /\ index \in [IndexKeys -> Seq(Shots) \cup {None}]
    /\ \A k \in IndexKeys : index[k] # None => TrueList(index[k], k, drawn)

Counted ==
    /\ faults \in 0 .. MaxFaults /\ requests \in 0 .. MaxRequests
    /\ drawn \subseteq [tenant: Tenants, image: Image]
    /\ clean \subseteq Replicas

RenderInv == TrueRenders /\ TrueIndex /\ SoundReplicas /\ Counted /\ RerenderRelists

-----------------------------------------------------------------------------
(* Lists.                                                                  *)

\* What is added to a list is added once, and nothing is lost.
LEMMA EntryAdded ==
    ASSUME NEW list, NEW s \in Shots, list # None => list \in Seq(Shots) /\ IsInjective(list)
    PROVE  /\ WithEntry(list, s) \in Seq(Shots) /\ IsInjective(WithEntry(list, s))
           /\ ToSet(WithEntry(list, s)) = (IF list = None THEN {} ELSE ToSet(list)) \cup {s}
<1>1. CASE list = None
  <2>1. WithEntry(list, s) = <<s>>
    BY <1>1 DEF WithEntry
  <2>2. <<s>> \in Seq(Shots) /\ IsInjective(<<s>>) /\ ToSet(<<s>>) = {s}
    BY DEF IsInjective, ToSet
  <2> QED
    BY <1>1, <2>1, <2>2
<1>2. CASE list # None /\ Contains(list, s)
  <2>1. WithEntry(list, s) = list /\ s \in ToSet(list)
    BY <1>2 DEF WithEntry, Contains, ToSet
  <2> QED
    BY <1>2, <2>1
<1>3. CASE list # None /\ ~Contains(list, s)
  <2>1. WithEntry(list, s) = Append(list, s)
    BY <1>3 DEF WithEntry
  <2>2. Append(list, s) \in Seq(Shots) /\ Len(Append(list, s)) = Len(list) + 1
    BY <1>3
  <2>3. \A i \in 1 .. Len(list) : Append(list, s)[i] = list[i] /\ list[i] # s
    BY <1>3 DEF Contains
  <2>4. Append(list, s)[Len(list) + 1] = s
    BY <1>3
  <2>5. DOMAIN list = 1 .. Len(list) /\ DOMAIN Append(list, s) = 1 .. Len(list) + 1
        /\ Len(list) \in Nat
    BY <1>3, <2>2
  <2>6. IsInjective(Append(list, s))
    BY <1>3, <2>3, <2>4, <2>5 DEF IsInjective
  <2>7. ToSet(Append(list, s)) = ToSet(list) \cup {s}
    BY <2>3, <2>4, <2>5 DEF ToSet
  <2> QED
    BY <1>3, <2>1, <2>2, <2>6, <2>7
<1> QED
  BY <1>1, <1>2, <1>3

-----------------------------------------------------------------------------
(* What a step of one replica leaves alone.                                *)

\* What was drawn stays drawn, so true lists stay true.
LEMMA DrawnStays ==
    ASSUME NEW seen, NEW more, seen \subseteq more
    PROVE  /\ \A list, k : TrueList(list, k, seen) => TrueList(list, k, more)
           /\ \A j : Sound(j, seen) => Sound(j, more)
<1>1. \A list, k : TrueList(list, k, seen) => TrueList(list, k, more)
  BY DEF TrueList, WasDrawn
<1> QED
  BY <1>1 DEF Sound

LEMMA OthersStaySound ==
    ASSUME SoundReplicas, NEW r \in Replicas, drawn \subseteq drawn',
           NEW j, replica' = [replica EXCEPT ![r] = j], Sound(j, drawn')
    PROVE  SoundReplicas' /\ (TrueIndex /\ UNCHANGED index => TrueIndex')
BY DrawnStays DEF SoundReplicas, TrueIndex, Sound

\* The index lists what is clean as long as nobody writes it.
LEMMA IndexLeftAlone ==
    ASSUME SoundReplicas, RerenderRelists, NEW r \in Replicas, NEW j \in Job,
           replica' = [replica EXCEPT ![r] = j],
           UNCHANGED index, clean' \subseteq clean \cup {r},
           ~(j.pc = "done" /\ j.kind = "page"), clean \subseteq Replicas
    PROVE  RerenderRelists'
<1> SUFFICES ASSUME NEW q \in clean', replica'[q].pc = "done", replica'[q].kind = "page"
             PROVE  (Shot(replica[q].args) \in Listed(IndexKey(replica[q])))'
  BY DEF RerenderRelists, Listed, IndexKey, Shot
<1>1. q # r /\ q \in clean /\ replica'[q] = replica[q]
  BY DEF SoundReplicas
<1> QED
  BY <1>1 DEF RerenderRelists, Listed, IndexKey, Shot
-----------------------------------------------------------------------------
(* The initial state and the steps.                                        *)

LEMMA InitRender == Init => RenderInv
<1> SUFFICES ASSUME Init PROVE RenderInv
  OBVIOUS
<1>1. Idle \in Job /\ Idle.pc = "idle"
  BY DEF Idle, Job, Phases
<1>2. SoundReplicas
  BY <1>1 DEF Init, SoundReplicas, Sound
<1>3. TrueRenders /\ TrueIndex
  BY DEF Init, TrueRenders, TrueIndex
<1>4. Counted /\ RerenderRelists
  BY RenderAssumption DEF Init, Counted, RerenderRelists, RenderAssumption
<1> QED
  BY <1>2, <1>3, <1>4 DEF RenderInv

LEMMA ChargeCounts ==
    ASSUME RenderInv, NEW fails \in BOOLEAN, Charge(fails)
    PROVE  faults' \in 0 .. MaxFaults
BY RenderAssumption DEF RenderInv, Counted, Charge, RenderAssumption

LEMMA StartKeeps == ASSUME RenderInv, NEW r \in Replicas, Start(r) PROVE RenderInv'
<1> PICK k \in Kinds, t \in Tenants, d \in Docs, a \in Args :
       Become(r, [Idle EXCEPT !.pc = "lookup", !.kind = k, !.tenant = t, !.doc = d, !.args = a])
  BY DEF Start
<1> DEFINE j == [Idle EXCEPT !.pc = "lookup", !.kind = k, !.tenant = t, !.doc = d, !.args = a]
<1>1. j \in Job /\ j.pc = "lookup" /\ j.kind = k /\ j.tenant = t /\ j.doc = d /\ j.args = a
  BY DEF Idle, Job, Phases
<1>2. replica' = [replica EXCEPT ![r] = j]
  BY DEF Become
<1> HIDE DEF j
<1>3. Sound(j, drawn')
  BY <1>1 DEF Sound
<1>4. clean' \subseteq clean \cup {r} /\ UNCHANGED <<renders, index, faults, drawn>>
  BY DEF Start
<1>5. SoundReplicas' /\ TrueIndex'
  BY <1>2, <1>3, <1>4, OthersStaySound DEF RenderInv
<1>6. RerenderRelists'
  BY <1>1, <1>2, <1>4, IndexLeftAlone DEF RenderInv, Counted
<1>7. requests' \in 0 .. MaxRequests
  BY RenderAssumption DEF Start, RenderInv, Counted, RenderAssumption
<1> QED
  BY <1>4, <1>5, <1>6, <1>7 DEF RenderInv, TrueRenders, Counted

\* A replica that is through with its image has the image it was asked for.
LEMMA DrawnIsSound ==
    ASSUME NEW seen, NEW j, Sound(j, seen), j.pc \in {"lookup", "render"},
           NEW more, more = seen \cup {[tenant |-> j.tenant, image |-> Drawing(j)]}
    PROVE  /\ Sound(Drawn(j, Drawing(j)), more)
           /\ Drawn(j, Drawing(j)).image = Drawing(j) /\ Drawn(j, Drawing(j)).tenant = j.tenant
           /\ RenderKey(Drawn(j, Drawing(j))) = RenderKey(j)
           /\ ~(Drawn(j, Drawing(j)).pc = "done" /\ Drawn(j, Drawing(j)).kind = "page")
           /\ Drawing(j) \in Image /\ j.tenant \in Tenants
<1>1. j \in Job /\ j.kind \in Kinds /\ j.tenant \in Tenants /\ j.doc \in Docs /\ j.args \in Args
  BY DEF Sound
<1>2. Drawing(j) \in Image
  BY <1>1 DEF Drawing, Image
<1> DEFINE next == Drawn(j, Drawing(j))
<1>3. /\ next \in Job /\ next.kind = j.kind /\ next.tenant = j.tenant /\ next.doc = j.doc
      /\ next.args = j.args /\ next.image = Drawing(j)
      /\ next.pc = IF j.kind = "page" THEN "read" ELSE "done"
  BY <1>1, <1>2 DEF Drawn, Job, Phases
<1> HIDE DEF next
<1>4. Drawing(next) = Drawing(j) /\ RenderKey(next) = RenderKey(j)
  BY <1>3 DEF Drawing, RenderKey
<1>5. Sound(next, more)
  BY <1>1, <1>3, <1>4 DEF Sound
<1> QED
  BY <1>1, <1>2, <1>3, <1>4, <1>5 DEF next

LEMMA LookupKeeps == ASSUME RenderInv, NEW r \in Replicas, Lookup(r) PROVE RenderInv'
<1> DEFINE j == replica[r]
<1>1. PICK fails \in BOOLEAN :
        LET image == IF fails THEN None ELSE renders[RenderKey(j)]
            next == IF image = None THEN [j EXCEPT !.pc = "render"] ELSE Drawn(j, image)
        IN  /\ Charge(fails) /\ Spoil(fails, {r})
            /\ Become(r, next)
            /\ IF image = None THEN UNCHANGED drawn ELSE Answered(next)
  BY DEF Lookup
<1> DEFINE image == IF fails THEN None ELSE renders[RenderKey(j)]
<1>2. Sound(j, drawn) /\ j.pc = "lookup" /\ j \in Job
  BY DEF RenderInv, SoundReplicas, Lookup, Sound
<1>3. RenderKey(j) \in RenderKeys /\ (image # None => image = Drawing(j))
  <2>1. RenderKey(j) \in RenderKeys
    BY <1>2 DEF Sound, RenderKey, RenderKeys
  <2>2. renders[RenderKey(j)] # None =>
          renders[RenderKey(j)] = [kind |-> RenderKey(j).kind, doc |-> RenderKey(j).doc,
                                   args |-> RenderKey(j).args]
    BY <2>1 DEF RenderInv, TrueRenders
  <2> QED
    BY <2>1, <2>2 DEF RenderKey, Drawing
<1>4. UNCHANGED <<renders, index, requests>> /\ clean' \subseteq clean /\ faults' \in 0 .. MaxFaults
  BY <1>1, ChargeCounts DEF Lookup, Spoil
<1>5. CASE image = None
  <2> DEFINE next == [j EXCEPT !.pc = "render"]
  <2>1. replica' = [replica EXCEPT ![r] = next] /\ drawn' = drawn
    BY <1>1, <1>5 DEF Become
  <2>2. next.pc = "render" /\ Sound(next, drawn) /\ next \in Job
    BY <1>2 DEF Sound, Job, Phases
  <2> HIDE DEF next
  <2>3. SoundReplicas' /\ TrueIndex'
    BY <1>4, <2>1, <2>2, OthersStaySound DEF RenderInv
  <2>4. RerenderRelists'
    BY <1>4, <2>1, <2>2, IndexLeftAlone DEF RenderInv, Counted
  <2> QED
    BY <1>4, <2>1, <2>3, <2>4 DEF RenderInv, TrueRenders, Counted
<1>6. CASE image # None
  <2> DEFINE next == Drawn(j, Drawing(j))
  <2>1. replica' = [replica EXCEPT ![r] = next]
        /\ drawn' = drawn \cup {[tenant |-> next.tenant, image |-> next.image]}
    BY <1>1, <1>3, <1>6 DEF Become, Answered
  <2> HIDE DEF next
  <2>2. /\ next.tenant = j.tenant /\ next.image = Drawing(j) /\ Sound(next, drawn')
        /\ ~(next.pc = "done" /\ next.kind = "page")
        /\ Drawing(j) \in Image /\ j.tenant \in Tenants
    <3> HIDE DEF j
    <3>1. /\ next.tenant = j.tenant /\ next.image = Drawing(j)
      BY <1>2, DrawnIsSound DEF next
    <3> QED
      BY <1>2, <2>1, <3>1, DrawnIsSound DEF next
  <2>3. SoundReplicas' /\ TrueIndex'
    BY <1>4, <2>1, <2>2, OthersStaySound DEF RenderInv
  <2>4. RerenderRelists'
    BY <1>4, <2>1, <2>2, IndexLeftAlone DEF RenderInv, Counted, Sound
  <2>5. drawn' \subseteq [tenant: Tenants, image: Image]
    BY <2>1, <2>2 DEF RenderInv, Counted
  <2> QED
    BY <1>4, <2>1, <2>3, <2>4, <2>5 DEF RenderInv, TrueRenders, Counted
<1> QED
  BY <1>5, <1>6

\* An image is drawn and, unless the call fails, stored under its key.
LEMMA RenderKeeps == ASSUME RenderInv, NEW r \in Replicas, Render(r) PROVE RenderInv'
<1> DEFINE j == replica[r]
           next == Drawn(j, Drawing(j))
<1>1. Sound(j, drawn) /\ j.pc = "render"
  BY DEF RenderInv, SoundReplicas, Render
<1>2. PICK fails \in BOOLEAN :
        /\ Charge(fails) /\ Spoil(fails, {r})
        /\ renders' = IF fails THEN renders ELSE [renders EXCEPT ![RenderKey(next)] = next.image]
  BY DEF Render
<1>3. replica' = [replica EXCEPT ![r] = next]
      /\ drawn' = drawn \cup {[tenant |-> next.tenant, image |-> next.image]}
      /\ UNCHANGED <<index, requests>>
  BY DEF Render, Become, Answered
<1>4. clean' \subseteq clean /\ faults' \in 0 .. MaxFaults
  BY <1>2, ChargeCounts DEF Spoil
<1> HIDE DEF next
<1>5. /\ next.tenant = j.tenant /\ next.image = Drawing(j) /\ RenderKey(next) = RenderKey(j)
      /\ Sound(next, drawn') /\ ~(next.pc = "done" /\ next.kind = "page")
      /\ Drawing(j) \in Image /\ j.tenant \in Tenants
  <2> HIDE DEF j
  <2>1. next.tenant = j.tenant /\ next.image = Drawing(j)
    BY <1>1, DrawnIsSound DEF next
  <2> QED
    BY <1>1, <1>3, <2>1, DrawnIsSound DEF next
<1>6. TrueRenders'
  <2>1. RenderKey(j) \in RenderKeys
        /\ Drawing(j) = [kind |-> RenderKey(j).kind, doc |-> RenderKey(j).doc,
                         args |-> RenderKey(j).args]
    BY <1>1 DEF Sound, RenderKey, RenderKeys, Drawing
  <2>2. renders' = renders \/ renders' = [renders EXCEPT ![RenderKey(j)] = Drawing(j)]
    BY <1>2, <1>5
  <2> DEFINE key == RenderKey(j)
             image == Drawing(j)
  <2> HIDE DEF key, image, j
  <2> QED
    BY <1>5, <2>1, <2>2 DEF RenderInv, TrueRenders, key, image
<1>7. SoundReplicas' /\ TrueIndex'
  BY <1>3, <1>5, OthersStaySound DEF RenderInv
<1>8. RerenderRelists'
  BY <1>3, <1>4, <1>5, IndexLeftAlone DEF RenderInv, Counted, Sound
<1>9. Counted'
  BY <1>3, <1>4, <1>5 DEF RenderInv, Counted
<1> QED
  BY <1>6, <1>7, <1>8, <1>9 DEF RenderInv

LEMMA RenderRaisesKeeps == ASSUME RenderInv, NEW r \in Replicas, RenderRaises(r) PROVE RenderInv'
<1> DEFINE next == [replica[r] EXCEPT !.pc = "failed"]
<1>1. Sound(replica[r], drawn) /\ replica[r].pc = "render"
  BY DEF RenderInv, SoundReplicas, RenderRaises
<1>2. /\ replica' = [replica EXCEPT ![r] = next] /\ faults' \in 0 .. MaxFaults
      /\ UNCHANGED <<renders, index, requests, drawn, clean>>
  BY ChargeCounts DEF RenderRaises, Become
<1>3. next \in Job /\ next.pc = "failed" /\ Sound(next, drawn')
  BY <1>1, <1>2 DEF Sound, Job, Phases
<1> HIDE DEF next
<1>4. SoundReplicas' /\ TrueIndex'
  BY <1>2, <1>3, OthersStaySound DEF RenderInv
<1>5. RerenderRelists'
  BY <1>2, <1>3, IndexLeftAlone DEF RenderInv, Counted
<1> QED
  BY <1>2, <1>4, <1>5 DEF RenderInv, TrueRenders, Counted

\* What is read of the index is true, so it may be written back whatever happens meanwhile.
LEMMA ReadIndexKeeps == ASSUME RenderInv, NEW r \in Replicas, ReadIndex(r) PROVE RenderInv'
<1> DEFINE j == replica[r]
<1>1. Sound(j, drawn) /\ j.pc = "read" /\ j \in Job
  BY DEF RenderInv, SoundReplicas, ReadIndex, Sound
<1>2. PICK list \in {None, index[IndexKey(j)]} :
        replica' = [replica EXCEPT ![r] = [j EXCEPT !.pc = "record", !.list = list]]
  <2>1. PICK fails \in BOOLEAN :
          Become(r, [j EXCEPT !.pc = "record",
                              !.list = IF fails THEN None ELSE index[IndexKey(j)]])
    BY DEF ReadIndex
  <2> QED
    BY <2>1 DEF Become
<1>3. UNCHANGED <<renders, index, requests, drawn>> /\ clean' \subseteq clean
      /\ faults' \in 0 .. MaxFaults
  BY ChargeCounts DEF ReadIndex, Spoil
<1>4. IndexKey(j) \in IndexKeys
  BY <1>1 DEF Sound, IndexKey, IndexKeys
<1>5. list # None => TrueList(list, IndexKey(j), drawn)
  BY <1>2, <1>4 DEF RenderInv, TrueIndex
<1>6. list \in Seq(Shots) \cup {None}
  BY <1>5 DEF TrueList
<1> DEFINE next == [j EXCEPT !.pc = "record", !.list = list]
<1>7. /\ next \in Job /\ next.pc = "record" /\ next.list = list /\ next.kind = j.kind
      /\ next.tenant = j.tenant /\ next.doc = j.doc /\ next.args = j.args /\ next.image = j.image
  BY <1>1, <1>6 DEF Job, Phases
<1> HIDE DEF next
<1>8. Drawing(next) = Drawing(j) /\ IndexKey(next) = IndexKey(j)
  BY <1>7 DEF Drawing, IndexKey
<1>9. Sound(next, drawn')
  BY <1>1, <1>3, <1>5, <1>7, <1>8 DEF Sound
<1>10. replica' = [replica EXCEPT ![r] = next]
  BY <1>2 DEF next
<1>11. SoundReplicas' /\ TrueIndex'
  BY <1>3, <1>9, <1>10, OthersStaySound DEF RenderInv
<1>12. RerenderRelists'
  BY <1>3, <1>7, <1>10, IndexLeftAlone DEF RenderInv, Counted
<1> QED
  BY <1>3, <1>11, <1>12 DEF RenderInv, TrueRenders, Counted

\* The list written back is the list read with the entry, whatever the index holds by now.
LEMMA WriteIndexKeeps == ASSUME RenderInv, NEW r \in Replicas, WriteIndex(r) PROVE RenderInv'
<1> DEFINE j == replica[r]
           k == IndexKey(j)
           list == WithEntry(j.list, Shot(j.args))
           next == [j EXCEPT !.pc = "done"]
<1>1. Sound(j, drawn) /\ j.pc = "record" /\ j \in Job
  BY DEF RenderInv, SoundReplicas, WriteIndex, Sound
<1>2. PICK fails \in BOOLEAN :
        /\ Charge(fails)
        /\ index' = IF fails THEN index ELSE [index EXCEPT ![k] = list]
        /\ clean' = clean \ ((IF fails THEN {r} ELSE {}) \cup (ReadingIndex(k) \ {r}))
        /\ replica' = [replica EXCEPT ![r] = next]
  BY DEF WriteIndex, Become
<1>3. UNCHANGED <<renders, requests, drawn>> /\ clean' \subseteq clean
      /\ faults' \in 0 .. MaxFaults
  BY <1>2, ChargeCounts DEF WriteIndex
<1>4. k \in IndexKeys /\ Shot(j.args) \in Shots
  BY <1>1 DEF Sound, IndexKey, IndexKeys, Args, Shot
<1>5. WasDrawn(k, Shot(j.args), drawn)
  BY <1>1 DEF Sound, WasDrawn, IndexKey, Drawing
<1>6. TrueList(list, k, drawn) /\ list # None /\ Shot(j.args) \in ToSet(list)
  <2>1. j.list # None => TrueList(j.list, k, drawn)
    BY <1>1 DEF Sound
  <2>2. /\ list \in Seq(Shots) /\ IsInjective(list)
        /\ ToSet(list) = (IF j.list = None THEN {} ELSE ToSet(j.list)) \cup {Shot(j.args)}
    BY <1>4, <2>1, EntryAdded DEF TrueList
  <2>3. None \notin Seq(Shots)
    BY RenderAssumption DEF RenderAssumption
  <2> HIDE DEF list, k
  <2> QED
    BY <1>5, <2>1, <2>2, <2>3 DEF TrueList
<1>7. /\ next \in Job /\ next.pc = "done" /\ next.kind = j.kind /\ next.tenant = j.tenant
      /\ next.doc = j.doc /\ next.args = j.args /\ next.image = j.image
  BY <1>1 DEF Job, Phases
<1> HIDE DEF list, next
<1>8. Drawing(next) = Drawing(j) /\ IndexKey(next) = k
  BY <1>7 DEF Drawing, IndexKey
<1>9. Sound(next, drawn')
  BY <1>1, <1>7, <1>8 DEF Sound
<1>10. SoundReplicas'
  BY <1>2, <1>3, <1>9, OthersStaySound DEF RenderInv
<1> HIDE DEF k
<1>11. TrueIndex'
  <2>1. index' = index \/ index' = [index EXCEPT ![k] = list]
    BY <1>2
  <2>2. list \in Seq(Shots)
    BY <1>6 DEF TrueList
  <2>3. index' \in [IndexKeys -> Seq(Shots) \cup {None}]
    BY <2>1, <2>2 DEF RenderInv, TrueIndex
  <2>4. ASSUME NEW x \in IndexKeys, index'[x] # None PROVE TrueList(index'[x], x, drawn)
    BY <1>4, <1>6, <2>1, <2>4 DEF RenderInv, TrueIndex
  <2> QED
    BY <1>3, <2>3, <2>4 DEF TrueIndex
<1>12. RerenderRelists'
  <2> SUFFICES ASSUME NEW q \in clean', replica'[q].pc = "done", replica'[q].kind = "page"
               PROVE  (Shot(replica[q].args) \in Listed(IndexKey(replica[q])))'
    BY DEF RerenderRelists, Listed, IndexKey, Shot
  <2>1. q \in clean /\ q \in Replicas
    BY <1>3 DEF RenderInv, Counted
  <2>2. index \in [IndexKeys -> Seq(Shots) \cup {None}]
        /\ replica \in [Replicas -> Job]
    BY DEF RenderInv, TrueIndex, SoundReplicas
  <2>3. CASE q = r
    <3>1. index' = [index EXCEPT ![k] = list] /\ replica'[r] = next
      BY <1>2, <2>2, <2>3
    <3>2. index'[k] = list
      BY <1>4, <2>2, <3>1
    <3>3. Shot(next.args) = Shot(j.args)
      BY <1>7
    <3>4. IndexKey(replica[r])' = k
      BY <1>8, <3>1 DEF IndexKey
    <3> QED
      BY <1>6, <2>3, <3>1, <3>2, <3>3, <3>4 DEF Listed, Shot
  <2>4. CASE q # r
    <3>1. replica'[q] = replica[q] /\ replica[q].pc = "done"
      BY <1>2, <2>1, <2>2, <2>4
    <3>2. IndexKey(replica[q]) # k
      BY <1>2, <2>1, <2>4, <3>1 DEF ReadingIndex
    <3>3. index'[IndexKey(replica[q])] = index[IndexKey(replica[q])]
      <4>1. Sound(replica[q], drawn)
        BY <2>1 DEF RenderInv, SoundReplicas
      <4>2. IndexKey(replica[q]) \in IndexKeys
        BY <3>1, <4>1 DEF Sound, IndexKey, IndexKeys
      <4> QED
        BY <1>2, <2>2, <3>2, <4>2
    <3> QED
      BY <2>1, <3>1, <3>3 DEF RenderInv, RerenderRelists, Listed, IndexKey, Shot
  <2> QED
    BY <2>3, <2>4
<1>13. Counted'
  BY <1>2, <1>3 DEF RenderInv, Counted
<1> QED
  BY <1>3, <1>10, <1>11, <1>12, <1>13 DEF RenderInv, TrueRenders

LEMMA ExpiryKeeps ==
    ASSUME RenderInv, \/ \E k \in RenderKeys : RenderExpires(k)
                      \/ \E k \in IndexKeys : IndexExpires(k)
    PROVE  RenderInv'
<1>1. ASSUME NEW k \in RenderKeys, RenderExpires(k) PROVE RenderInv'
  <2>1. /\ renders' = [renders EXCEPT ![k] = None]
        /\ UNCHANGED <<index, replica, requests, faults, drawn, clean>>
    BY <1>1 DEF RenderExpires
  <2>2. TrueRenders'
    BY <2>1 DEF RenderInv, TrueRenders
  <2>3. RerenderRelists' /\ SoundReplicas' /\ TrueIndex' /\ Counted'
    BY <2>1 DEF RenderInv, RerenderRelists, Listed, IndexKey, Shot, SoundReplicas, TrueIndex, Counted
  <2> QED
    BY <2>2, <2>3 DEF RenderInv
<1>2. ASSUME NEW k \in IndexKeys, IndexExpires(k) PROVE RenderInv'
  <2>1. /\ index' = [index EXCEPT ![k] = None] /\ clean' = clean \ ReadingIndex(k)
        /\ UNCHANGED <<renders, replica, requests, faults, drawn>>
    BY <1>2 DEF IndexExpires
  <2>2. TrueIndex' /\ TrueRenders' /\ SoundReplicas' /\ Counted'
    BY <2>1 DEF RenderInv, TrueIndex, TrueRenders, SoundReplicas, Counted
  <2>3. ASSUME NEW q \in clean', replica[q].pc = "done", replica[q].kind = "page"
        PROVE  (Shot(replica[q].args) \in Listed(IndexKey(replica[q])))'
    <3>1. q \in clean /\ q \in Replicas /\ IndexKey(replica[q]) # k
      BY <2>1, <2>3 DEF ReadingIndex, RenderInv, Counted
    <3>2. Sound(replica[q], drawn)
      BY <3>1 DEF RenderInv, SoundReplicas
    <3>3. IndexKey(replica[q]) \in IndexKeys
      BY <2>3, <3>2 DEF Sound, IndexKey, IndexKeys
    <3>4. index'[IndexKey(replica[q])] = index[IndexKey(replica[q])]
      BY <2>1, <3>1, <3>3 DEF RenderInv, TrueIndex
    <3> QED
      BY <2>1, <2>3, <3>1, <3>4 DEF RenderInv, RerenderRelists, Listed, IndexKey, Shot
  <2>4. RerenderRelists'
    BY <2>1, <2>3 DEF RerenderRelists, Listed, IndexKey, Shot
  <2> QED
    BY <2>2, <2>4 DEF RenderInv
<1> QED
  BY <1>1, <1>2

-----------------------------------------------------------------------------
(* Theorems.                                                               *)

\* The invariant under every step of the specification.
THEOREM RenderInvariance == Spec => []RenderInv
<1>1. RenderInv /\ [Next]_vars => RenderInv'
  <2> SUFFICES ASSUME RenderInv, [Next]_vars PROVE RenderInv'
    OBVIOUS
  <2>1. CASE UNCHANGED vars
    BY <2>1 DEF vars, RenderInv, TrueRenders, TrueIndex, SoundReplicas, Counted,
       RerenderRelists, Listed, IndexKey, Shot
  <2>2. ASSUME NEW r \in Replicas, Start(r) \/ Serve(r) PROVE RenderInv'
    BY <2>2, StartKeeps, LookupKeeps, RenderKeeps, RenderRaisesKeeps, ReadIndexKeeps,
       WriteIndexKeeps DEF Serve
  <2> QED
    BY <2>1, <2>2, ExpiryKeeps DEF Next
<1> QED
  BY <1>1, InitRender, PTL DEF Spec

\* Every variable has its type, and no list of the index names a render twice
\* (record_render, "if entry not in entries").
THEOREM RenderTypes == Spec => []TypeOK
<1>1. RenderInv => TypeOK
  BY DEF RenderInv, TrueRenders, TrueIndex, TrueList, SoundReplicas, Counted, TypeOK
<1> QED
  BY <1>1, RenderInvariance, PTL

\* What a render endpoint answers, from its cache or anew, shows what was asked for.
THEOREM RendersMatch == Spec => []AnswersMatch
<1>1. RenderInv => AnswersMatch
  BY DEF RenderInv, SoundReplicas, Sound, AnswersMatch
<1> QED
  BY <1>1, RenderInvariance, PTL

\* The index lists nothing that was not rendered for its tenant and document.
THEOREM IndexTellsTrue == Spec => []ListedWasDrawn
<1>1. RenderInv => ListedWasDrawn
  BY DEF RenderInv, TrueIndex, TrueList, WasDrawn, ListedWasDrawn, Listed
<1> QED
  BY <1>1, RenderInvariance, PTL

\* A render that is asked for again is back in the index, unless a call failed, the index
\* expired or another record came between (record_render after the lookup).
THEOREM RerenderingRelists == Spec => []RerenderRelists
<1>1. RenderInv => RerenderRelists
  BY DEF RenderInv
<1> QED
  BY <1>1, RenderInvariance, PTL

-----------------------------------------------------------------------------
(* The in-memory blob store, for any blobs and any limit.                  *)

\* Induction over a set of numbers.
LEMMA FromZeroOn ==
  ASSUME NEW S, 0 \in S, \A n \in Nat : n \in S => n + 1 \in S
  PROVE  Nat \subseteq S
<1> DEFINE bad == {n \in Nat : n \notin S}
<1>0. bad \subseteq Nat
  OBVIOUS
<1> SUFFICES ASSUME bad # {} PROVE FALSE
  OBVIOUS
<1>1. PICK x \in bad : \A y \in bad : ~(<<y, x>> \in OpToRel(<, Nat))
  BY <1>0, NatLessThanWellFounded, WFMin
<1>2. \A y \in bad : ~(y < x)
  BY <1>0, <1>1 DEF OpToRel
<1>3. x \in Nat /\ x \notin S /\ x # 0
  OBVIOUS
<1>4. x - 1 \in Nat /\ x - 1 < x /\ (x - 1) + 1 = x
  BY <1>3
<1>5. x - 1 \in S
  BY <1>2, <1>4
<1> QED
  BY <1>3, <1>4, <1>5

BlobKeys == BlobTenants \X DOMAIN BlobSize

LEMMA SizesPositive == \A key \in BlobKeys : SizeOf(key) \in Nat \ {0}
BY BlobAssumption DEF BlobAssumption, BlobKeys, SizeOf

\* The bytes of the first n keys, for every n.
Upto(f, s) == f = [n \in 0 .. Len(s) |-> IF n = 0 THEN 0 ELSE f[n - 1] + SizeOf(s[n])]
Sums(f, s, k) == /\ DOMAIN f = 0 .. k /\ f[0] = 0
                 /\ \A n \in 1 .. k : f[n] = f[n - 1] + SizeOf(s[n])

LEMMA UptoExists ==
  ASSUME NEW s \in Seq(BlobKeys)
  PROVE  \E f : Upto(f, s)
<1> DEFINE S == {k \in Nat : \E f : Sums(f, s, k)}
<1>1. 0 \in S
  <2> DEFINE f == [n \in 0 .. 0 |-> 0]
  <2>1. Sums(f, s, 0)
    BY DEF Sums
  <2> QED
    BY <2>1
<1>2. ASSUME NEW k \in Nat, k \in S PROVE k + 1 \in S
  <2>1. PICK f : Sums(f, s, k)
    BY <1>2
  <2> DEFINE g == [n \in 0 .. k + 1 |-> IF n = k + 1 THEN f[k] + SizeOf(s[k + 1]) ELSE f[n]]
  <2>2. DOMAIN g = 0 .. k + 1 /\ g[0] = 0 /\ g[k + 1] = f[k] + SizeOf(s[k + 1])
        /\ \A n \in 0 .. k : g[n] = f[n]
    BY <2>1 DEF Sums
  <2> HIDE DEF g
  <2>3. \A n \in 1 .. k + 1 : n = k + 1 \/ n \in 1 .. k
    OBVIOUS
  <2>4. (k + 1) - 1 = k /\ k \in 0 .. k /\ \A n \in 1 .. k : n - 1 \in 0 .. k /\ n \in 0 .. k
    OBVIOUS
  <2>5. Sums(g, s, k + 1)
    BY <2>1, <2>2, <2>3, <2>4 DEF Sums
  <2> QED
    BY <2>5
<1> HIDE DEF S
<1>3. Len(s) \in S
  BY <1>1, <1>2, FromZeroOn
<1>4. PICK f : Sums(f, s, Len(s))
  BY <1>3 DEF S
<1> DEFINE g == [n \in 0 .. Len(s) |-> f[n]]
<1>5. \A n \in 0 .. Len(s) : g[n] = IF n = 0 THEN 0 ELSE g[n - 1] + SizeOf(s[n])
  BY <1>4 DEF Sums
<1>6. Upto(g, s)
  BY <1>5 DEF Upto
<1> QED
  BY <1>6

LEMMA UptoIs ==
  ASSUME NEW s \in Seq(BlobKeys), NEW f, Upto(f, s)
  PROVE  /\ DOMAIN f = 0 .. Len(s) /\ f[0] = 0
         /\ \A n \in 1 .. Len(s) : f[n] = f[n - 1] + SizeOf(s[n])
<1>1. \A n \in 0 .. Len(s) : f[n] = IF n = 0 THEN 0 ELSE f[n - 1] + SizeOf(s[n])
  BY DEF Upto
<1>2. DOMAIN f = 0 .. Len(s)
  BY DEF Upto
<1>3. Len(s) \in Nat
  OBVIOUS
<1> QED
  BY <1>1, <1>2, <1>3

Same(s, i, t, j, c) == \A k \in 1 .. c : s[i + k] = t[j + k]
Shifted(f, i, g, j, c, d) == \A k \in 0 .. c : f[i + k] = g[j + k] + d /\ g[j + k] \in Int

\* The sums of two sequences agree as far as the sequences do, from any two places on.
LEMMA SumsAgree ==
  ASSUME NEW s \in Seq(BlobKeys), NEW f, Upto(f, s), NEW t \in Seq(BlobKeys), NEW g, Upto(g, t),
         NEW i \in Nat, NEW j \in Nat, NEW c \in Nat, i + c <= Len(s), j + c <= Len(t),
         Same(s, i, t, j, c), NEW d \in Int, f[i] = g[j] + d, g[j] \in Int
  PROVE  Shifted(f, i, g, j, c, d)
<1> DEFINE S == {k \in Nat : k <= c => f[i + k] = g[j + k] + d /\ g[j + k] \in Int}
<1>1. 0 \in S
  OBVIOUS
<1>2. ASSUME NEW k \in Nat, k \in S PROVE k + 1 \in S
  <2> SUFFICES ASSUME k + 1 <= c
               PROVE  f[i + (k + 1)] = g[j + (k + 1)] + d /\ g[j + (k + 1)] \in Int
    OBVIOUS
  <2>1. f[i + k] = g[j + k] + d /\ g[j + k] \in Int
    BY <1>2
  <2>2. /\ i + (k + 1) \in 1 .. Len(s) /\ (i + (k + 1)) - 1 = i + k
        /\ j + (k + 1) \in 1 .. Len(t) /\ (j + (k + 1)) - 1 = j + k
        /\ k + 1 \in 1 .. c
    OBVIOUS
  <2>3. /\ f[i + (k + 1)] = f[i + k] + SizeOf(s[i + (k + 1)])
        /\ g[j + (k + 1)] = g[j + k] + SizeOf(t[j + (k + 1)])
    BY <2>2, UptoIs
  <2>4. s[i + (k + 1)] = t[j + (k + 1)] /\ t[j + (k + 1)] \in BlobKeys
    <3>1. t[j + (k + 1)] \in BlobKeys
      BY <2>2
    <3>2. s[i + (k + 1)] = t[j + (k + 1)]
      BY <2>2 DEF Same
    <3> QED
      BY <3>1, <3>2
  <2>5. SizeOf(t[j + (k + 1)]) \in Nat
    BY <2>4, SizesPositive
  <2> DEFINE a == f[i + (k + 1)]
             b == g[j + (k + 1)]
             e == SizeOf(t[j + (k + 1)])
  <2>6. a = (g[j + k] + d) + e /\ b = g[j + k] + e /\ e \in Nat /\ g[j + k] \in Int
    BY <2>1, <2>3, <2>4, <2>5
  <2> HIDE DEF a, b, e
  <2>7. a = b + d /\ b \in Int
    <3> DEFINE x == g[j + k]
    <3>1. a = (x + d) + e /\ b = x + e /\ e \in Nat /\ x \in Int
      BY <2>6
    <3> HIDE DEF x
    <3> QED
      BY <3>1
  <2> QED
    BY <2>7 DEF a, b
<1> HIDE DEF S
<1>3. \A k \in Nat : k \in S
  BY <1>1, <1>2, FromZeroOn
<1> QED
  BY <1>3 DEF S, Shifted

LEMMA UptoIsUnique ==
  ASSUME NEW s \in Seq(BlobKeys), NEW f, Upto(f, s), NEW g, Upto(g, s)
  PROVE  f = g
<1>1. f[0] = 0 /\ g[0] = 0
  BY UptoIs
<1>2. Len(s) \in Nat
  OBVIOUS
<1>3. Same(s, 0, s, 0, Len(s))
  BY DEF Same
<1> DEFINE c == Len(s)
           z == 0
<1>4. /\ z \in Nat /\ c \in Nat /\ z \in Int /\ z + c <= Len(s) /\ Same(s, z, s, z, c)
      /\ f[z] = g[z] + z /\ g[z] \in Int
  BY <1>1, <1>2, <1>3
<1> HIDE DEF c, z
<1>5. Shifted(f, z, g, z, c, z)
  BY <1>4, SumsAgree
<1>6. \A k \in 0 .. Len(s) : f[0 + k] = g[0 + k] + 0 /\ g[0 + k] \in Int
  BY <1>5 DEF Shifted, z, c
<1>7. \A k \in 0 .. Len(s) : f[k] = g[k]
  BY <1>6
<1>8. f = [n \in 0 .. Len(s) |-> f[n]] /\ g = [n \in 0 .. Len(s) |-> g[n]]
  BY DEF Upto
<1> QED
  BY <1>7, <1>8

LEMMA BytesAre ==
  ASSUME NEW s \in Seq(BlobKeys), NEW f, Upto(f, s)
  PROVE  Bytes(s) = f[Len(s)]
<1> DEFINE upTo == CHOOSE g : g = [n \in 0 .. Len(s) |->
                                    IF n = 0 THEN 0 ELSE g[n - 1] + SizeOf(s[n])]
<1>1. Bytes(s) = upTo[Len(s)]
  BY DEF Bytes
<1>2. Upto(upTo, s)
  BY UptoExists, Zenon DEF Upto
<1> HIDE DEF upTo
<1>3. upTo = f
  BY <1>2, UptoIsUnique
<1> QED
  BY <1>1, <1>3

\* The sums grow, and are numbers.
LEMMA UptoGrows ==
  ASSUME NEW s \in Seq(BlobKeys), NEW f, Upto(f, s)
  PROVE  /\ \A n \in 0 .. Len(s) : f[n] \in Nat
         /\ \A n, m \in 0 .. Len(s) : n <= m => f[n] <= f[m]
<1>0. Len(s) \in Nat
  OBVIOUS
<1>1. \A n \in 0 .. Len(s) : f[n] \in Nat
  <2> DEFINE S == {k \in Nat : k <= Len(s) => f[k] \in Nat}
  <2>1. 0 \in S
    BY UptoIs
  <2>2. ASSUME NEW k \in Nat, k \in S PROVE k + 1 \in S
    <3> SUFFICES ASSUME k + 1 <= Len(s) PROVE f[k + 1] \in Nat
      OBVIOUS
    <3>1. k + 1 \in 1 .. Len(s) /\ (k + 1) - 1 = k
      BY <1>0
    <3>2. f[k + 1] = f[k] + SizeOf(s[k + 1])
      BY <3>1, UptoIs
    <3>3. s[k + 1] \in BlobKeys /\ f[k] \in Nat
      BY <2>2, <3>1, <1>0
    <3> QED
      BY <3>2, <3>3, SizesPositive
  <2> HIDE DEF S
  <2>3. \A k \in Nat : k \in S
    BY <2>1, <2>2, FromZeroOn
  <2> QED
    BY <2>3 DEF S
<1>2. ASSUME NEW n \in 0 .. Len(s) PROVE \A m \in 0 .. Len(s) : n <= m => f[n] <= f[m]
  <2> DEFINE S == {c \in Nat : n + c <= Len(s) => f[n] <= f[n + c]}
  <2>1. 0 \in S
    BY <1>1
  <2>2. ASSUME NEW c \in Nat, c \in S PROVE c + 1 \in S
    <3> SUFFICES ASSUME n + (c + 1) <= Len(s) PROVE f[n] <= f[n + (c + 1)]
      OBVIOUS
    <3>1. n + (c + 1) \in 1 .. Len(s) /\ (n + (c + 1)) - 1 = n + c /\ n + c \in 0 .. Len(s)
      BY <1>0
    <3>2. f[n + (c + 1)] = f[n + c] + SizeOf(s[n + (c + 1)])
      BY <3>1, UptoIs
    <3>3. s[n + (c + 1)] \in BlobKeys /\ f[n] <= f[n + c]
      BY <2>2, <3>1, <1>0
    <3>4. SizeOf(s[n + (c + 1)]) \in Nat
      BY <3>3, SizesPositive
    <3> QED
      BY <1>1, <3>1, <3>2, <3>3, <3>4
  <2> HIDE DEF S
  <2>3. \A c \in Nat : c \in S
    BY <2>1, <2>2, FromZeroOn
  <2>4. ASSUME NEW m \in 0 .. Len(s), n <= m PROVE f[n] <= f[m]
    <3>1. m - n \in Nat /\ n + (m - n) = m /\ m <= Len(s)
      BY <2>4, <1>0
    <3> QED
      BY <2>3, <3>1 DEF S
  <2> QED
    BY <2>4
<1> QED
  BY <1>1, <1>2

\* The bytes of a run of keys are the difference of two sums.
Run(t, s, i, j) ==
  t \in Seq(BlobKeys) /\ Len(t) = j - i /\ \A k \in 1 .. j - i : t[k] = s[i + k]

LEMMA BytesOfRun ==
  ASSUME NEW s \in Seq(BlobKeys), NEW f, Upto(f, s),
         NEW i \in 0 .. Len(s), NEW j \in 0 .. Len(s), i <= j, NEW t, Run(t, s, i, j)
  PROVE  Bytes(t) = f[j] - f[i]
<1>0. t \in Seq(BlobKeys) /\ Len(t) = j - i /\ \A k \in 1 .. j - i : t[k] = s[i + k]
  BY DEF Run
<1>1. PICK g : Upto(g, t)
  BY <1>0, UptoExists
<1>2. f[i] \in Nat /\ f[j] \in Nat /\ g[0] = 0 /\ Len(s) \in Nat
  BY <1>0, <1>1, UptoGrows, UptoIs
<1> DEFINE c == j - i
           d == f[i]
           z == 0
<1>3. c \in Nat /\ i + c = j /\ 0 + c = c /\ i \in Nat /\ d \in Int /\ g[0] \in Int /\ f[i] = g[0] + d
  BY <1>2
<1>4. Same(s, i, t, z, c)
  BY <1>0 DEF Same
<1>5. i + c <= Len(s) /\ z + c <= Len(t) /\ z \in Nat /\ f[i] = g[z] + d /\ g[z] \in Int
  BY <1>0, <1>2, <1>3
<1> HIDE DEF c, d, z
<1>6. Shifted(f, i, g, z, c, d)
  BY <1>0, <1>1, <1>3, <1>4, <1>5, SumsAgree
<1>7. f[j] = g[c] + d /\ g[c] \in Int
  <2>1. c \in 0 .. c /\ z + c = c
    BY <1>3 DEF z
  <2>2. f[i + c] = g[z + c] + d /\ g[z + c] \in Int
    BY <1>6, <2>1 DEF Shifted
  <2> QED
    BY <1>3, <2>1, <2>2
<1>8. Bytes(t) = g[c]
  BY <1>0, <1>1, BytesAre DEF c
<1> QED
  BY <1>2, <1>7, <1>8 DEF d

-----------------------------------------------------------------------------
(* A key moved to the end.                                                 *)

Distinct(s) == \A i, j \in DOMAIN s : s[i] = s[j] => i = j

\* u is s with its p-th element, the key, moved to the end; or with the key, p being a place
\* behind the last.
MovedFrom(s, key, u, p) ==
  /\ p \in 1 .. Len(s) + 1
  /\ p <= Len(s) => s[p] = key /\ Len(u) = Len(s)
  /\ p = Len(s) + 1 => ~Contains(s, key) /\ Len(u) = Len(s) + 1
  /\ \A i \in 1 .. p - 1 : u[i] = s[i]
  /\ \A i \in p .. Len(u) - 1 : u[i] = s[i + 1]
  /\ u[Len(u)] = key

LEMMA MovedToEndIs ==
  ASSUME NEW s \in Seq(BlobKeys), Distinct(s), NEW key \in BlobKeys
  PROVE  LET u == MovedToEnd(s, key)
         IN  u \in Seq(BlobKeys) /\ Distinct(u) /\ \E p : MovedFrom(s, key, u, p)
<1> DEFINE u == MovedToEnd(s, key)
<1>0. Len(s) \in Nat /\ DOMAIN s = 1 .. Len(s) /\ \A i \in 1 .. Len(s) : s[i] \in BlobKeys
  OBVIOUS
<1>1. CASE ~Contains(s, key)
  <2>1. u = Append(s, key)
    BY <1>1 DEF MovedToEnd, Without
  <2> HIDE DEF u
  <2>2. /\ u \in Seq(BlobKeys) /\ Len(u) = Len(s) + 1 /\ u[Len(s) + 1] = key
        /\ \A i \in 1 .. Len(s) : u[i] = s[i]
    BY <2>1
  <2> DEFINE p == Len(s) + 1
  <2>3. MovedFrom(s, key, u, p)
    <3>1. p \in 1 .. Len(s) + 1 /\ ~(p <= Len(s)) /\ p = Len(s) + 1 /\ Len(u) = p /\ u[p] = key
      BY <1>0, <2>2
    <3>2. (\A i \in 1 .. p - 1 : u[i] = s[i]) /\ p .. Len(u) - 1 = {}
      BY <1>0, <2>2
    <3> HIDE DEF p
    <3> QED
      BY <1>1, <3>1, <3>2 DEF MovedFrom
  <2> HIDE DEF p
  <2>4. \A i \in 1 .. Len(s) : u[i] # key
    BY <1>1, <2>2 DEF Contains
  <2>5. Distinct(u)
    <3> SUFFICES ASSUME NEW i \in 1 .. Len(s) + 1, NEW j \in 1 .. Len(s) + 1, u[i] = u[j]
                 PROVE  i = j
      BY <2>2 DEF Distinct
    <3>1. CASE i \in 1 .. Len(s) /\ j \in 1 .. Len(s)
      BY <1>0, <2>2, <3>1 DEF Distinct
    <3>2. CASE i = Len(s) + 1 \/ j = Len(s) + 1
      BY <1>0, <2>2, <2>4, <3>2
    <3> QED
      BY <1>0, <3>1, <3>2
  <2> QED
    BY <2>2, <2>3, <2>5 DEF u
<1>2. CASE Contains(s, key)
  <2> DEFINE p == CHOOSE i \in DOMAIN s : s[i] = key
             before == SubSeq(s, 1, p - 1)
             after == SubSeq(s, p + 1, Len(s))
             w == before \o after
  <2>1. p \in 1 .. Len(s) /\ s[p] = key
    BY <1>0, <1>2 DEF Contains
  <2>2. u = Append(w, key)
    BY <1>2 DEF MovedToEnd, Without, RemoveAt
  <2> HIDE DEF p, u
  <2>3. before \in Seq(BlobKeys) /\ Len(before) = p - 1 /\ \A i \in 1 .. p - 1 : before[i] = s[i]
    <3>1. \A i \in 1 .. p - 1 : s[i] \in BlobKeys
      BY <1>0, <2>1
    <3>2. p - 1 \in Int /\ 1 \in Int
      BY <2>1
    <3>3. /\ before \in Seq(BlobKeys) /\ Len(before) = IF 1 <= p - 1 THEN (p - 1) - 1 + 1 ELSE 0
          /\ \A i \in 1 .. (p - 1) - 1 + 1 : before[i] = s[1 + i - 1]
      BY <3>1, <3>2, SubSeqProperties
    <3> QED
      BY <2>1, <3>3
  <2>4. /\ after \in Seq(BlobKeys) /\ Len(after) = Len(s) - p
        /\ \A i \in 1 .. Len(s) - p : after[i] = s[p + i]
    <3>1. \A i \in p + 1 .. Len(s) : s[i] \in BlobKeys
      BY <1>0, <2>1
    <3>2. p + 1 \in Int /\ Len(s) \in Int
      BY <1>0, <2>1
    <3>3. /\ after \in Seq(BlobKeys) /\ Len(after) = IF p + 1 <= Len(s) THEN Len(s) - (p + 1) + 1 ELSE 0
          /\ \A i \in 1 .. Len(s) - (p + 1) + 1 : after[i] = s[(p + 1) + i - 1]
      BY <3>1, <3>2, SubSeqProperties
    <3> QED
      BY <1>0, <2>1, <3>3, SMTT(30)
  <2> HIDE DEF before, after
  <2>5. /\ w \in Seq(BlobKeys) /\ Len(w) = Len(s) - 1
        /\ \A i \in 1 .. p - 1 : w[i] = s[i]
        /\ \A i \in p .. Len(s) - 1 : w[i] = s[i + 1]
    <3>1. /\ w \in Seq(BlobKeys) /\ Len(w) = Len(before) + Len(after)
          /\ \A i \in 1 .. Len(before) + Len(after) :
               w[i] = IF i <= Len(before) THEN before[i] ELSE after[i - Len(before)]
      BY <2>3, <2>4, ConcatProperties
    <3>2. \A i \in p .. Len(s) - 1 : w[i] = s[i + 1]
      <4> SUFFICES ASSUME NEW i \in p .. Len(s) - 1 PROVE w[i] = s[i + 1]
        OBVIOUS
      <4>1. w[i] = after[i - (p - 1)]
        BY <1>0, <2>1, <2>3, <2>4, <3>1, SMTT(30)
      <4>2. i - (p - 1) \in 1 .. Len(s) - p /\ p + (i - (p - 1)) = i + 1
        BY <1>0, <2>1
      <4> QED
        BY <2>4, <4>1, <4>2
    <3>3. \A i \in 1 .. p - 1 : w[i] = s[i]
      BY <1>0, <2>1, <2>3, <2>4, <3>1
    <3> QED
      BY <1>0, <2>1, <2>3, <2>4, <3>1, <3>2, <3>3
  <2> HIDE DEF w
  <2>6. /\ u \in Seq(BlobKeys) /\ Len(u) = Len(s) /\ u[Len(s)] = key
        /\ \A i \in 1 .. p - 1 : u[i] = s[i]
        /\ \A i \in p .. Len(s) - 1 : u[i] = s[i + 1]
    <3>1. /\ u \in Seq(BlobKeys) /\ Len(u) = Len(w) + 1 /\ u[Len(w) + 1] = key
          /\ \A i \in 1 .. Len(w) : u[i] = w[i]
      BY <2>2, <2>5
    <3>2. Len(w) + 1 = Len(s) /\ \A i \in 1 .. Len(s) - 1 : u[i] = w[i]
      BY <1>0, <2>5, <3>1
    <3>3. \A i \in 1 .. p - 1 : i \in 1 .. Len(s) - 1
      BY <1>0, <2>1
    <3>4. \A i \in p .. Len(s) - 1 : i \in 1 .. Len(s) - 1
      BY <1>0, <2>1
    <3> QED
      BY <2>5, <3>1, <3>2, <3>3, <3>4
  <2>7. MovedFrom(s, key, u, p)
    <3>1. p \in 1 .. Len(s) + 1 /\ p # Len(s) + 1
      BY <1>0, <2>1
    <3> QED
      BY <2>1, <2>6, <3>1 DEF MovedFrom
  <2>8. Distinct(u)
    <3> DEFINE from(i) == IF i < p THEN i ELSE IF i = Len(s) THEN p ELSE i + 1
    <3>1. ASSUME NEW i \in 1 .. Len(s)
          PROVE  from(i) \in 1 .. Len(s) /\ u[i] = s[from(i)]
      <4> DEFINE n == Len(s)
      <4>0. n \in Nat /\ p \in 1 .. n /\ i \in 1 .. n
        BY <1>0, <2>1
      <4>4. from(i) = IF i < p THEN i ELSE IF i = n THEN p ELSE i + 1
        OBVIOUS
      <4>5. s[p] = key /\ u[n] = key
        BY <2>1, <2>6
      <4>6. /\ \A k \in 1 .. p - 1 : u[k] = s[k]
            /\ \A k \in p .. n - 1 : u[k] = s[k + 1]
        BY <2>6
      <4> HIDE DEF n, from
      <4>1. CASE i < p
        BY <4>0, <4>1, <4>4, <4>6 DEF n
      <4>2. CASE ~(i < p) /\ i = n
        BY <4>0, <4>2, <4>4, <4>5 DEF n
      <4>3. CASE ~(i < p) /\ i # n
        <5>1. i \in p .. n - 1 /\ from(i) = i + 1 /\ i + 1 \in 1 .. n
          BY <4>0, <4>3, <4>4
        <5> QED
          BY <4>6, <5>1 DEF n
      <4> QED
        BY <4>1, <4>2, <4>3
    <3>2. ASSUME NEW i \in 1 .. Len(s), NEW j \in 1 .. Len(s), from(i) = from(j) PROVE i = j
      <4> DEFINE n == Len(s)
      <4>1. n \in Nat /\ p \in 1 .. n /\ i \in 1 .. n /\ j \in 1 .. n
        BY <1>0, <2>1
      <4>2. (IF i < p THEN i ELSE IF i = n THEN p ELSE i + 1)
              = (IF j < p THEN j ELSE IF j = n THEN p ELSE j + 1)
        BY <3>2
      <4> HIDE DEF n, from
      <4> QED
        BY <4>1, <4>2
    <3> HIDE DEF from
    <3> QED
      BY <1>0, <2>6, <3>1, <3>2 DEF Distinct
  <2> QED
    BY <2>6, <2>7, <2>8 DEF u
<1> QED
  BY <1>1, <1>2

\* The sums of what was moved: what stood behind the key comes one place earlier.
LEMMA SumsOfMoved ==
  ASSUME NEW s \in Seq(BlobKeys), NEW f, Upto(f, s), NEW u \in Seq(BlobKeys), NEW g, Upto(g, u),
         NEW key \in BlobKeys, NEW p, MovedFrom(s, key, u, p)
  PROVE  /\ \A n \in 0 .. p - 1 : g[n] = f[n]
         /\ p <= Len(s) => /\ \A n \in p - 1 .. Len(s) - 1 : g[n] = f[n + 1] - SizeOf(key)
                           /\ g[Len(s)] = f[Len(s)]
         /\ p = Len(s) + 1 => g[Len(s) + 1] = f[Len(s)] + SizeOf(key)
<1>0. /\ Len(s) \in Nat /\ Len(u) \in Nat /\ p \in 1 .. Len(s) + 1 /\ SizeOf(key) \in Nat \ {0}
      /\ p <= Len(s) => s[p] = key /\ Len(u) = Len(s)
      /\ p = Len(s) + 1 => Len(u) = Len(s) + 1
      /\ \A i \in 1 .. p - 1 : u[i] = s[i]
      /\ \A i \in p .. Len(u) - 1 : u[i] = s[i + 1]
      /\ u[Len(u)] = key
  BY SizesPositive DEF MovedFrom
<1>1. f[0] = 0 /\ g[0] = 0 /\ (\A n \in 0 .. Len(s) : f[n] \in Nat) /\ (\A n \in 0 .. Len(u) : g[n] \in Nat)
  BY UptoIs, UptoGrows
<1>2. \A n \in 0 .. p - 1 : g[n] = f[n]
  <2> DEFINE c == p - 1
             z == 0
  <2>1. /\ c \in Nat /\ z \in Nat /\ z \in Int /\ z + c <= Len(s) /\ z + c <= Len(u)
        /\ f[z] = g[z] + z /\ g[z] \in Int
    <3>1. p - 1 \in Nat /\ p - 1 <= Len(s) /\ p - 1 <= Len(u)
      <4>1. p <= Len(s) \/ p = Len(s) + 1
        BY <1>0
      <4> QED
        BY <1>0, <4>1
    <3> QED
      BY <1>1, <3>1
  <2>2. Same(s, z, u, z, c)
    BY <1>0 DEF Same
  <2> HIDE DEF c, z
  <2>3. Shifted(f, z, g, z, c, z)
    BY <2>1, <2>2, SumsAgree
  <2>4. \A k \in 0 .. c : f[z + k] = g[z + k] + z /\ g[z + k] \in Int
    BY <2>3 DEF Shifted
  <2> QED
    BY <2>1, <2>4 DEF c, z
<1>3. ASSUME p <= Len(s) PROVE /\ \A n \in p - 1 .. Len(s) - 1 : g[n] = f[n + 1] - SizeOf(key)
                               /\ g[Len(s)] = f[Len(s)]
  <2> DEFINE c == Len(s) - p
             j == p - 1
             d == SizeOf(key)
  <2>1. f[p] = f[p - 1] + SizeOf(key) /\ f[p - 1] = g[p - 1] /\ g[p - 1] \in Nat
    <3>1. p \in 1 .. Len(s) /\ p - 1 \in 0 .. p - 1 /\ p - 1 \in 0 .. Len(u) /\ s[p] = key
      BY <1>0, <1>3
    <3>2. f[p] = f[p - 1] + SizeOf(s[p])
      BY <3>1, UptoIs
    <3> QED
      BY <1>1, <1>2, <3>1, <3>2
  <2>2. /\ c \in Nat /\ j \in Nat /\ d \in Int /\ p \in Nat /\ p + c <= Len(s) /\ j + c <= Len(u)
        /\ f[p] = g[j] + d /\ g[j] \in Int
    BY <1>0, <1>3, <2>1
  <2>3. Same(s, p, u, j, c)
    <3> SUFFICES ASSUME NEW k \in 1 .. c PROVE s[p + k] = u[j + k]
      BY DEF Same
    <3>1. j + k \in p .. Len(u) - 1 /\ (j + k) + 1 = p + k
      BY <1>0, <1>3
    <3> QED
      BY <1>0, <3>1
  <2> HIDE DEF c, j, d
  <2>4. Shifted(f, p, g, j, c, d)
    BY <2>2, <2>3, SumsAgree
  <2>5. \A k \in 0 .. c : f[p + k] = g[j + k] + d /\ g[j + k] \in Int
    BY <2>4 DEF Shifted
  <2>6. \A n \in p - 1 .. Len(s) - 1 : g[n] = f[n + 1] - SizeOf(key)
    <3> SUFFICES ASSUME NEW n \in p - 1 .. Len(s) - 1 PROVE g[n] = f[n + 1] - SizeOf(key)
      OBVIOUS
    <3>1. n - (p - 1) \in 0 .. c /\ p + (n - (p - 1)) = n + 1 /\ j + (n - (p - 1)) = n
      BY <1>0, <1>3 DEF c, j
    <3>2. f[n + 1] = g[n] + d /\ g[n] \in Int
      BY <2>5, <3>1
    <3> QED
      BY <1>0, <3>2 DEF d
  <2>7. g[Len(s)] = f[Len(s)]
    <3>1. Len(s) \in 1 .. Len(u) /\ Len(u) = Len(s) /\ Len(s) - 1 \in p - 1 .. Len(s) - 1
          /\ (Len(s) - 1) + 1 = Len(s)
      BY <1>0, <1>3
    <3>2. g[Len(s)] = g[Len(s) - 1] + SizeOf(key)
      <4>1. g[Len(s)] = g[Len(s) - 1] + SizeOf(u[Len(s)])
        BY <3>1, UptoIs
      <4>2. u[Len(s)] = key
        BY <1>0, <3>1
      <4> QED
        BY <4>1, <4>2
    <3>3. g[Len(s) - 1] = f[Len(s)] - SizeOf(key)
      BY <2>6, <3>1
    <3>4. f[Len(s)] \in Nat
      BY <1>0, <1>1
    <3> QED
      BY <1>0, <3>2, <3>3, <3>4
  <2> QED
    BY <2>6, <2>7
<1>4. ASSUME p = Len(s) + 1 PROVE g[Len(s) + 1] = f[Len(s)] + SizeOf(key)
  <2>1. Len(s) + 1 \in 1 .. Len(u) /\ (Len(s) + 1) - 1 = Len(s) /\ Len(s) \in 0 .. p - 1 /\ Len(u) = Len(s) + 1
    BY <1>0, <1>4
  <2>2. g[Len(s) + 1] = g[Len(s)] + SizeOf(u[Len(s) + 1])
    BY <2>1, UptoIs
  <2> QED
    BY <1>0, <1>2, <2>1, <2>2
<1> QED
  BY <1>2, <1>3, <1>4

-----------------------------------------------------------------------------
(* What is held is the end of what was ever used, and no more of it fits.  *)

Trails(f, s, r, total) ==
  LET m == Len(r) - Len(s)
  IN  /\ m \in Nat /\ \A i \in 1 .. Len(s) : s[i] = r[m + i]
      /\ total = f[Len(r)] - f[m]
      /\ m >= 1 => f[Len(r)] - f[m - 1] > MaxBlobBytes

\* What is over the limit stays so when less is taken from it.
LEMMA MoreIsLeft ==
  ASSUME NEW all \in Nat, NEW before \in Nat, NEW limit \in Nat, all - before > limit
  PROVE  /\ \A z \in Nat : all - (before - z) > limit
         /\ \A less \in Nat : less <= before => all - less > limit
OBVIOUS

\* Any use of a key, of those held or not, moves it to the end of both.
LEMMA UseTrails ==
  ASSUME NEW r \in Seq(BlobKeys), Distinct(r), NEW s \in Seq(BlobKeys), NEW f, Upto(f, r),
         NEW total, Trails(f, s, r, total), NEW key \in BlobKeys,
         NEW u \in Seq(BlobKeys), NEW q, MovedFrom(r, key, u, q), NEW g, Upto(g, u),
         NEW o \in Seq(BlobKeys), NEW p, MovedFrom(s, key, o, p)
  PROVE  /\ Contains(s, key) => Trails(g, o, u, total)
         /\ ~Contains(s, key) => Trails(g, o, u, total + SizeOf(key))
<1> DEFINE L == Len(r)
           n == Len(s)
           m == L - n
           z == SizeOf(key)
<1>1. /\ L \in Nat /\ n \in Nat /\ m \in Nat /\ n + m = L /\ z \in Nat \ {0}
      /\ total = f[L] - f[m] /\ (m >= 1 => f[L] - f[m - 1] > MaxBlobBytes)
      /\ MaxBlobBytes \in Nat
  BY SizesPositive, BlobAssumption DEF Trails, BlobAssumption
<1>2. \A i \in 1 .. n : s[i] = r[m + i]
  BY DEF Trails
<1>3. /\ p \in 1 .. n + 1 /\ (p <= n => s[p] = key /\ Len(o) = n)
      /\ (p = n + 1 => ~Contains(s, key) /\ Len(o) = n + 1)
      /\ \A i \in 1 .. p - 1 : o[i] = s[i]
      /\ \A i \in p .. Len(o) - 1 : o[i] = s[i + 1]
      /\ o[Len(o)] = key
  BY DEF MovedFrom
<1>4. /\ q \in 1 .. L + 1 /\ (q <= L => r[q] = key /\ Len(u) = L)
      /\ (q = L + 1 => (\A i \in 1 .. L : r[i] # key) /\ Len(u) = L + 1)
      /\ \A i \in 1 .. q - 1 : u[i] = r[i]
      /\ \A i \in q .. Len(u) - 1 : u[i] = r[i + 1]
      /\ u[Len(u)] = key
  BY DEF MovedFrom, Contains
<1>5. /\ \A i \in 0 .. q - 1 : g[i] = f[i]
      /\ q <= L => (\A i \in q - 1 .. L - 1 : g[i] = f[i + 1] - z) /\ g[L] = f[L]
      /\ q = L + 1 => g[L + 1] = f[L] + z
  BY SumsOfMoved
<1>6. (\A i \in 0 .. L : f[i] \in Nat) /\ \A i, j \in 0 .. L : i <= j => f[i] <= f[j]
  BY UptoGrows
<1>7. Contains(s, key) <=> p <= n
  BY <1>1, <1>3 DEF Contains
<1>8. \A i, j \in 1 .. L : r[i] = r[j] => i = j
  BY DEF Distinct
<1> HIDE DEF L, n, m, z
<1>9. CASE p <= n
  <2>1. m + p \in 1 .. L /\ r[m + p] = key
    BY <1>1, <1>2, <1>3, <1>9
  <2>2. q <= L
    BY <1>1, <1>4, <2>1
  <2>3. q = m + p
    <3>1. q \in 1 .. L /\ r[q] = key
      BY <1>1, <1>4, <2>2
    <3> QED
      BY <1>8, <2>1, <3>1
  <2>4. Len(u) = L /\ Len(o) = n
    BY <1>3, <1>4, <1>9, <2>2
  <2>5. \A i \in 1 .. n : o[i] = u[m + i]
    <3> SUFFICES ASSUME NEW i \in 1 .. n PROVE o[i] = u[m + i]
      OBVIOUS
    <3>1. CASE i < p
      <4>1. i \in 1 .. p - 1 /\ m + i \in 1 .. q - 1
        BY <1>1, <1>3, <2>3, <3>1
      <4> QED
        BY <1>2, <1>3, <1>4, <4>1
    <3>2. CASE p <= i /\ i < n
      <4>1. i \in p .. Len(o) - 1 /\ m + i \in q .. Len(u) - 1 /\ i + 1 \in 1 .. n /\ m + (i + 1) = (m + i) + 1
        BY <1>1, <1>3, <2>3, <2>4, <3>2
      <4> QED
        BY <1>2, <1>3, <1>4, <4>1
    <3>3. CASE i = n
      <4>1. m + i = L /\ o[i] = key
        BY <1>1, <1>3, <2>4, <3>3
      <4> QED
        BY <1>4, <2>4, <4>1
    <3> QED
      BY <1>1, <1>3, <3>1, <3>2, <3>3
  <2>6. g[L] = f[L] /\ g[m] = f[m] /\ (m >= 1 => g[m - 1] = f[m - 1])
    <3>1. m \in 0 .. q - 1 /\ (m >= 1 => m - 1 \in 0 .. q - 1)
      BY <1>1, <1>3, <2>3
    <3> QED
      BY <1>5, <2>2, <3>1
  <2>7. Len(u) - Len(o) = m
    BY <1>1, <2>4
  <2>8. Trails(g, o, u, total)
    BY <1>1, <2>4, <2>5, <2>6, <2>7 DEF Trails
  <2> QED
    BY <1>7, <1>9, <2>8
<1>10. CASE p = n + 1 /\ q <= L
  <2>1. q <= m
    <3> SUFFICES ASSUME q > m PROVE FALSE
      BY <1>1, <1>4
    <3>1. q - m \in 1 .. n /\ m + (q - m) = q
      BY <1>1, <1>4, <1>10
    <3>2. s[q - m] = key
      BY <1>2, <1>4, <1>10, <3>1
    <3>3. Contains(s, key)
      BY <3>1, <3>2 DEF Contains, n
    <3> QED
      BY <1>3, <1>10, <3>3
  <2>2. Len(u) = L /\ Len(o) = n + 1 /\ m >= 1 /\ Len(u) - Len(o) = m - 1
    <3>1. Len(u) = L
      BY <1>4, <1>10
    <3>2. Len(o) = n + 1
      BY <1>3, <1>10
    <3>3. m >= 1
      BY <1>1, <1>4, <2>1
    <3> QED
      BY <1>1, <3>1, <3>2, <3>3
  <2>3. \A i \in 1 .. n + 1 : o[i] = u[(m - 1) + i]
    <3> SUFFICES ASSUME NEW i \in 1 .. n + 1 PROVE o[i] = u[(m - 1) + i]
      OBVIOUS
    <3>1. CASE i \in 1 .. n
      <4>1. i \in 1 .. p - 1 /\ (m - 1) + i \in q .. Len(u) - 1 /\ ((m - 1) + i) + 1 = m + i
        BY <1>1, <1>4, <1>10, <2>1, <2>2, <3>1
      <4> QED
        BY <1>2, <1>3, <1>4, <3>1, <4>1
    <3>2. CASE i = n + 1
      BY <1>1, <1>3, <1>4, <2>2, <3>2
    <3> QED
      BY <1>1, <3>1, <3>2
  <2>4. g[L] = f[L] /\ g[m - 1] = f[m] - z
    <3>1. m - 1 \in q - 1 .. L - 1 /\ (m - 1) + 1 = m
      BY <1>1, <1>4, <2>1
    <3> QED
      BY <1>5, <1>10, <3>1
  <2>5. m - 1 >= 1 => g[L] - g[(m - 1) - 1] > MaxBlobBytes
    <3> SUFFICES ASSUME m - 1 >= 1 PROVE g[L] - g[(m - 1) - 1] > MaxBlobBytes
      OBVIOUS
    <3>0. f[L] \in Nat /\ f[m - 1] \in Nat /\ f[(m - 1) - 1] \in Nat /\ f[(m - 1) - 1] <= f[m - 1]
      <4>1. L \in 0 .. L /\ m - 1 \in 0 .. L /\ (m - 1) - 1 \in 0 .. L /\ (m - 1) - 1 <= m - 1
        BY <1>1
      <4> QED
        BY <1>6, <4>1
    <3>4. g[L] = f[L]
      BY <2>4
    <3>5. f[L] - f[m - 1] > MaxBlobBytes /\ MaxBlobBytes \in Nat /\ z \in Nat /\ f[L] \in Nat
          /\ f[m - 1] \in Nat
      BY <1>1, <2>2, <3>0
    <3>1. CASE q <= m - 1
      <4>1. (m - 1) - 1 \in q - 1 .. L - 1 /\ ((m - 1) - 1) + 1 = m - 1
        BY <1>1, <1>4, <3>1
      <4>2. g[(m - 1) - 1] = f[m - 1] - z
        BY <1>5, <1>10, <4>1
      <4> QED
        BY <3>4, <3>5, <4>2, MoreIsLeft
    <3>2. CASE q = m
      <4>1. (m - 1) - 1 \in 0 .. q - 1
        BY <1>1, <3>2
      <4>2. g[(m - 1) - 1] = f[(m - 1) - 1]
        BY <1>5, <4>1
      <4> QED
        BY <3>0, <3>4, <3>5, <4>2, MoreIsLeft
    <3> QED
      BY <1>1, <1>4, <2>1, <3>1, <3>2
  <2>6. f[L] \in Nat /\ f[m] \in Nat
    BY <1>1, <1>6
  <2>7. Trails(g, o, u, total + z)
    <3>1. m - 1 \in Nat /\ total + z = g[L] - g[m - 1]
      BY <1>1, <2>2, <2>4, <2>6, SMTT(30)
    <3> QED
      BY <2>2, <2>3, <2>5, <3>1 DEF Trails
  <2> QED
    BY <1>1, <1>7, <1>10, <2>7 DEF z
<1>11. CASE p = n + 1 /\ q = L + 1
  <2>1. Len(u) = L + 1 /\ Len(o) = n + 1 /\ Len(u) - Len(o) = m
    <3>1. Len(u) = L + 1
      BY <1>4, <1>11
    <3>2. Len(o) = n + 1
      BY <1>3, <1>11
    <3> QED
      BY <1>1, <3>1, <3>2
  <2>2. \A i \in 1 .. n + 1 : o[i] = u[m + i]
    <3> SUFFICES ASSUME NEW i \in 1 .. n + 1 PROVE o[i] = u[m + i]
      OBVIOUS
    <3>1. CASE i \in 1 .. n
      <4>1. i \in 1 .. p - 1 /\ m + i \in 1 .. q - 1
        BY <1>1, <1>11, <3>1
      <4> QED
        BY <1>2, <1>3, <1>4, <3>1, <4>1
    <3>2. CASE i = n + 1
      <4>1. m + i = L + 1
        BY <1>1, <3>2
      <4> QED
        BY <1>3, <1>4, <2>1, <3>2, <4>1
    <3> QED
      BY <1>1, <3>1, <3>2
  <2>3. g[L + 1] = f[L] + z /\ g[m] = f[m] /\ (m >= 1 => g[m - 1] = f[m - 1])
    <3>1. m \in 0 .. q - 1 /\ (m >= 1 => m - 1 \in 0 .. q - 1)
      BY <1>1, <1>11
    <3> QED
      BY <1>5, <1>11, <3>1
  <2>4. f[L] \in Nat /\ f[m] \in Nat /\ (m >= 1 => f[m - 1] \in Nat)
    BY <1>1, <1>6
  <2>5. Trails(g, o, u, total + z)
    <3>1. total + z = g[L + 1] - g[m] /\ (m >= 1 => g[L + 1] - g[m - 1] > MaxBlobBytes)
      <4>1. total + z = g[L + 1] - g[m]
        BY <1>1, <2>3, <2>4
      <4>2. ASSUME m >= 1 PROVE g[L + 1] - g[m - 1] > MaxBlobBytes
        <5>1. /\ g[L + 1] = f[L] + z /\ g[m - 1] = f[m - 1] /\ f[L] - f[m - 1] > MaxBlobBytes
              /\ f[L] \in Nat /\ f[m - 1] \in Nat /\ z \in Nat /\ MaxBlobBytes \in Nat
          BY <1>1, <2>3, <2>4, <4>2
        <5> QED
          BY <5>1
      <4> QED
        BY <4>1, <4>2
    <3> QED
      BY <1>1, <2>1, <2>2, <3>1 DEF Trails
  <2> QED
    BY <1>1, <1>7, <1>11, <2>5 DEF z
<1> QED
  BY <1>1, <1>3, <1>4, <1>9, <1>10, <1>11

\* What the limit takes away, it takes from the front, and never the last.
LEMMA PopTrails ==
  ASSUME NEW r \in Seq(BlobKeys), NEW s \in Seq(BlobKeys), s # <<>>, NEW f, Upto(f, r),
         NEW total, Trails(f, s, r, total), NEW n, n = Popped(s, total)
  PROVE  LET left == SubSeq(s, n + 1, Len(s))
             after == total - Bytes(SubSeq(s, 1, n))
         IN  /\ left \in Seq(BlobKeys) /\ left # <<>> /\ Trails(f, left, r, after)
             /\ after <= MaxBlobBytes \/ Len(left) = 1
<1> DEFINE L == Len(r)
           k == Len(s)
           m == L - k
           Left(i) == total - Bytes(SubSeq(s, 1, i))
           fits(i) == Left(i) <= MaxBlobBytes \/ i = k - 1
           left == SubSeq(s, n + 1, k)
<1>1. /\ L \in Nat /\ k \in Nat \ {0} /\ m \in Nat /\ m + k = L /\ MaxBlobBytes \in Nat
      /\ total = f[L] - f[m] /\ (m >= 1 => f[L] - f[m - 1] > MaxBlobBytes)
  BY BlobAssumption DEF Trails, BlobAssumption
<1>2. (\A i \in 1 .. k : s[i] = r[m + i]) /\ \A i \in 1 .. k : s[i] \in BlobKeys
  BY DEF Trails
<1>3. (\A i \in 0 .. L : f[i] \in Nat)
  BY UptoGrows
<1>4. n = CHOOSE i \in 0 .. k - 1 : fits(i) /\ \A j \in 0 .. i - 1 : ~fits(j)
  BY DEF Popped
<1> HIDE DEF L, k, m
<1>5. ASSUME NEW i \in 0 .. k - 1 PROVE Left(i) = f[L] - f[m + i]
  <2> DEFINE t == SubSeq(s, 1, i)
  <2>1. t \in Seq(BlobKeys) /\ Len(t) = i /\ \A j \in 1 .. i : t[j] = s[j]
    <3>1. i \in Int /\ 1 \in Int /\ \A j \in 1 .. i : s[j] \in BlobKeys
      BY <1>1, <1>2
    <3>2. /\ t \in Seq(BlobKeys) /\ Len(t) = IF 1 <= i THEN i - 1 + 1 ELSE 0
          /\ \A j \in 1 .. i - 1 + 1 : t[j] = s[1 + j - 1]
      BY <3>1, SubSeqProperties
    <3> QED
      BY <1>1, <3>1, <3>2
  <2> HIDE DEF t
  <2> DEFINE e == m + i
  <2>2. /\ m \in 0 .. L /\ e \in 0 .. L /\ m <= e /\ e - m = i
    BY <1>1
  <2>3. Len(t) = e - m /\ \A j \in 1 .. e - m : t[j] = r[m + j]
    <3>1. \A j \in 1 .. i : j \in 1 .. k
      BY <1>1
    <3> QED
      BY <1>2, <2>1, <2>2, <3>1
  <2> HIDE DEF e
  <2>6. Run(t, r, m, e)
    BY <2>1, <2>3 DEF Run
  <2>4. Bytes(t) = f[e] - f[m]
    BY <2>1, <2>2, <2>6, BytesOfRun DEF L
  <2>5. f[e] \in Nat /\ f[m] \in Nat /\ f[L] \in Nat
    BY <1>1, <1>3, <2>2
  <2> QED
    BY <1>1, <2>4, <2>5 DEF t, e
<1> DEFINE Fit(i) == f[L] - f[m + i] <= MaxBlobBytes \/ i = k - 1
<1>6. n \in 0 .. k - 1 /\ Fit(n) /\ \A j \in 0 .. n - 1 : ~Fit(j)
  <2> DEFINE some == {i \in 0 .. k - 1 : fits(i)}
  <2>1. some \subseteq Nat /\ k - 1 \in some
    BY <1>1
  <2>2. PICK i \in some : \A j \in some : ~(<<j, i>> \in OpToRel(<, Nat))
    BY <2>1, NatLessThanWellFounded, WFMin
  <2>3. \A j \in some : ~(j < i)
    BY <2>1, <2>2 DEF OpToRel
  <2>4. i \in 0 .. k - 1 /\ fits(i) /\ \A j \in 0 .. i - 1 : ~fits(j)
    <3>1. \A j \in 0 .. i - 1 : j \in 0 .. k - 1 /\ j < i
      BY <1>1
    <3> QED
      BY <2>3, <3>1
  <2> HIDE DEF fits
  <2>5. n \in 0 .. k - 1 /\ fits(n) /\ \A j \in 0 .. n - 1 : ~fits(j)
    BY <1>4, <2>4
  <2>6. \A j \in 0 .. n - 1 : j \in 0 .. k - 1
    BY <1>1, <2>5
  <2>7. \A j \in 0 .. k - 1 : fits(j) <=> Fit(j)
    BY <1>5 DEF fits
  <2> QED
    BY <2>5, <2>6, <2>7
<1>7. /\ left \in Seq(BlobKeys) /\ Len(left) = k - n /\ \A i \in 1 .. k - n : left[i] = s[n + i]
  <2>1. n + 1 \in Int /\ k \in Int /\ \A j \in n + 1 .. k : s[j] \in BlobKeys
    BY <1>1, <1>2, <1>6, SMTT(30)
  <2>2. /\ left \in Seq(BlobKeys) /\ Len(left) = IF n + 1 <= k THEN k - (n + 1) + 1 ELSE 0
        /\ \A i \in 1 .. k - (n + 1) + 1 : left[i] = s[(n + 1) + i - 1]
    BY <2>1, SubSeqProperties
  <2>3. n + 1 <= k /\ k - (n + 1) + 1 = k - n
    BY <1>1, <1>6
  <2>4. \A i \in 1 .. k - n : (n + 1) + i - 1 = n + i
    BY <1>1, <1>6
  <2> HIDE DEF left
  <2> QED
    BY <2>2, <2>3, <2>4
<1> HIDE DEF left
<1>8. Len(left) >= 1 /\ left # <<>>
  BY <1>1, <1>6, <1>7
<1>9. Left(n) = f[L] - f[m + n]
  BY <1>5, <1>6
<1> HIDE DEF Left
<1>10. Left(n) <= MaxBlobBytes \/ Len(left) = 1
  BY <1>1, <1>6, <1>7, <1>9
<1>11. Trails(f, left, r, Left(n))
  <2>1. L - Len(left) = m + n /\ m + n \in Nat
    <3>1. L \in Nat /\ k \in Nat /\ m \in Nat /\ n \in Nat /\ m + k = L /\ n <= k - 1
      <4>1. L \in Nat /\ k \in Nat \ {0} /\ m \in Nat /\ m + k = L
        BY <1>1
      <4>2. n \in 0 .. k - 1
        BY <1>6
      <4> QED
        BY <4>1, <4>2
    <3>2. L - (k - n) = m + n /\ m + n \in Nat
      BY <3>1
    <3>3. Len(left) = k - n
      BY <1>7
    <3> QED
      BY <3>2, <3>3
  <2>2. \A i \in 1 .. k - n : left[i] = r[(m + n) + i]
    <3> SUFFICES ASSUME NEW i \in 1 .. k - n PROVE left[i] = r[(m + n) + i]
      OBVIOUS
    <3>1. n + i \in 1 .. k /\ m + (n + i) = (m + n) + i
      BY <1>1, <1>6, SMTT(30)
    <3> QED
      BY <1>2, <1>7, <3>1
  <2>3. m + n >= 1 => f[L] - f[(m + n) - 1] > MaxBlobBytes
    <3>1. CASE n = 0
      BY <1>1, <3>1
    <3>2. CASE n > 0
      <4>1. n - 1 \in 0 .. n - 1 /\ n - 1 # k - 1 /\ m + (n - 1) = (m + n) - 1 /\ (m + n) - 1 \in 0 .. L /\ L \in 0 .. L
        BY <1>1, <1>6, <3>2, SMTT(30)
      <4>2. ~(f[L] - f[(m + n) - 1] <= MaxBlobBytes)
        BY <1>6, <4>1
      <4>3. f[L] \in Nat /\ f[(m + n) - 1] \in Nat
        BY <1>3, <4>1
      <4> QED
        BY <1>1, <4>2, <4>3
    <3> QED
      BY <1>6, <3>1, <3>2
  <2> QED
    BY <1>7, <1>9, <2>1, <2>2, <2>3 DEF Trails, L
<1> QED
  BY <1>7, <1>8, <1>10, <1>11 DEF left, Left, k

BlobInv ==
  /\ recent \in Seq(BlobKeys) /\ blobs \in Seq(BlobKeys) /\ Distinct(recent)
  /\ \E f : Upto(f, recent) /\ Trails(f, blobs, recent, totalBytes)
  /\ recent # <<>> => blobs # <<>>
  /\ totalBytes <= MaxBlobBytes \/ Len(blobs) = 1

\* The end of a sequence without repetitions is one.
LEMMA EndIsDistinct ==
  ASSUME NEW r \in Seq(BlobKeys), Distinct(r), NEW s \in Seq(BlobKeys), NEW f, NEW total,
         Trails(f, s, r, total)
  PROVE  Distinct(s)
<1> DEFINE m == Len(r) - Len(s)
<1>1. m \in Nat /\ \A i \in 1 .. Len(s) : s[i] = r[m + i] /\ m + i \in 1 .. Len(r)
  BY DEF Trails
<1>2. \A i, j \in 1 .. Len(s) : m + i = m + j => i = j
  BY <1>1
<1> HIDE DEF m
<1>3. ASSUME NEW i \in 1 .. Len(s), NEW j \in 1 .. Len(s), s[i] = s[j] PROVE i = j
  <2>1. m + i \in DOMAIN r /\ m + j \in DOMAIN r /\ r[m + i] = r[m + j]
    BY <1>1, <1>3
  <2>2. m + i = m + j
    BY <2>1 DEF Distinct
  <2> QED
    BY <1>2, <2>2
<1> QED
  BY <1>3 DEF Distinct

LEMMA PutKeeps ==
  ASSUME BlobInv, NEW key \in BlobKeys, PutBlob(key)
  PROVE  BlobInv'
<1> DEFINE order == MovedToEnd(blobs, key)
           u == MovedToEnd(recent, key)
           total == totalBytes - (IF Held(key) THEN SizeOf(key) ELSE 0) + SizeOf(key)
           n == Popped(order, total)
           left == SubSeq(order, n + 1, Len(order))
           after == total - Bytes(SubSeq(order, 1, n))
<1>1. blobs' = left /\ totalBytes' = after /\ recent' = u
  BY DEF PutBlob
<1>2. PICK f : Upto(f, recent) /\ Trails(f, blobs, recent, totalBytes)
  BY DEF BlobInv
<1>3. recent \in Seq(BlobKeys) /\ blobs \in Seq(BlobKeys) /\ Distinct(recent) /\ Distinct(blobs)
  BY <1>2, EndIsDistinct DEF BlobInv
<1>4. PICK q : MovedFrom(recent, key, u, q)
  BY <1>3, MovedToEndIs
<1>5. PICK p : MovedFrom(blobs, key, order, p)
  BY <1>3, MovedToEndIs
<1>6. u \in Seq(BlobKeys) /\ Distinct(u) /\ order \in Seq(BlobKeys)
  BY <1>3, MovedToEndIs
<1>7. PICK g : Upto(g, u)
  BY <1>6, UptoExists
<1> HIDE DEF order, u
<1>8. /\ Contains(blobs, key) => Trails(g, order, u, totalBytes)
      /\ ~Contains(blobs, key) => Trails(g, order, u, totalBytes + SizeOf(key))
  BY <1>2, <1>3, <1>4, <1>5, <1>6, <1>7, UseTrails
<1>9. Trails(g, order, u, total)
  <2>1. totalBytes \in Int
    <3>1. Len(recent) - Len(blobs) \in 0 .. Len(recent) /\ Len(recent) \in 0 .. Len(recent)
      BY <1>2, <1>3 DEF Trails
    <3>2. f[Len(recent)] \in Nat /\ f[Len(recent) - Len(blobs)] \in Nat
      BY <1>2, <1>3, <3>1, UptoGrows
    <3> QED
      BY <1>2, <3>2 DEF Trails
  <2>2. SizeOf(key) \in Nat
    BY SizesPositive
  <2>3. CASE Contains(blobs, key)
    <3>1. total = totalBytes
      BY <2>1, <2>2, <2>3 DEF Held
    <3> QED
      BY <1>8, <2>3, <3>1
  <2>4. CASE ~Contains(blobs, key)
    <3>1. total = totalBytes + SizeOf(key)
      BY <2>1, <2>2, <2>4 DEF Held
    <3> QED
      BY <1>8, <2>4, <3>1
  <2> QED
    BY <2>3, <2>4
<1>10. order # <<>>
  <2>1. Len(order) >= 1
    BY <1>3, <1>5 DEF MovedFrom
  <2> QED
    BY <1>6, <2>1
<1> HIDE DEF total
<1>11. n = Popped(order, total)
  OBVIOUS
<1> HIDE DEF n
<1>12. /\ left \in Seq(BlobKeys) /\ left # <<>> /\ Trails(g, left, u, after)
       /\ after <= MaxBlobBytes \/ Len(left) = 1
  BY <1>6, <1>7, <1>9, <1>10, <1>11, PopTrails
<1> HIDE DEF left, after
<1> QED
  BY <1>1, <1>6, <1>7, <1>12 DEF BlobInv

LEMMA GetKeeps ==
  ASSUME BlobInv, NEW key \in BlobKeys, GetBlob(key)
  PROVE  BlobInv'
<1> DEFINE order == MovedToEnd(blobs, key)
           u == MovedToEnd(recent, key)
<1>1. blobs' = order /\ totalBytes' = totalBytes /\ recent' = u /\ Contains(blobs, key)
  BY DEF GetBlob, Held
<1>2. PICK f : Upto(f, recent) /\ Trails(f, blobs, recent, totalBytes)
  BY DEF BlobInv
<1>3. recent \in Seq(BlobKeys) /\ blobs \in Seq(BlobKeys) /\ Distinct(recent) /\ Distinct(blobs)
  BY <1>2, EndIsDistinct DEF BlobInv
<1>4. PICK q : MovedFrom(recent, key, u, q)
  BY <1>3, MovedToEndIs
<1>5. PICK p : MovedFrom(blobs, key, order, p)
  BY <1>3, MovedToEndIs
<1>6. u \in Seq(BlobKeys) /\ Distinct(u) /\ order \in Seq(BlobKeys)
  BY <1>3, MovedToEndIs
<1>7. PICK g : Upto(g, u)
  BY <1>6, UptoExists
<1> HIDE DEF order, u
<1>8. Trails(g, order, u, totalBytes)
  BY <1>1, <1>2, <1>3, <1>4, <1>5, <1>6, <1>7, UseTrails
<1>9. Len(order) = Len(blobs) /\ Len(order) >= 1
  BY <1>1, <1>3, <1>5 DEF MovedFrom
<1>10. order # <<>> /\ (totalBytes <= MaxBlobBytes \/ Len(order) = 1)
  BY <1>6, <1>9 DEF BlobInv
<1> QED
  BY <1>1, <1>6, <1>7, <1>8, <1>10 DEF BlobInv

LEMMA BlobInvHolds == BlobSpec => []BlobInv
<1>1. BlobInit => BlobInv
  <2> SUFFICES ASSUME BlobInit PROVE BlobInv
    OBVIOUS
  <2>1. /\ blobs = <<>> /\ recent = <<>> /\ totalBytes = 0 /\ Len(recent) = 0 /\ Len(blobs) = 0
        /\ <<>> \in Seq(BlobKeys)
    BY DEF BlobInit
  <2>2. PICK f : Upto(f, recent)
    BY <2>1, UptoExists
  <2>3. Trails(f, blobs, recent, totalBytes)
    <3>1. f[0] = 0
      BY <2>1, <2>2, UptoIs
    <3> QED
      BY <2>1, <3>1 DEF Trails
  <2>4. Distinct(recent)
    BY <2>1 DEF Distinct
  <2>5. 0 <= MaxBlobBytes
    BY BlobAssumption DEF BlobAssumption
  <2> QED
    BY <2>1, <2>2, <2>3, <2>4, <2>5 DEF BlobInv
<1>2. BlobInv /\ [BlobNext]_blobVars => BlobInv'
  <2> SUFFICES ASSUME BlobInv, [BlobNext]_blobVars PROVE BlobInv'
    OBVIOUS
  <2>1. ASSUME NEW sha \in DOMAIN BlobSize, NEW tenant \in BlobTenants,
               PutBlob(Scoped(sha, tenant)) \/ GetBlob(Scoped(sha, tenant))
        PROVE  BlobInv'
    <3> DEFINE key == Scoped(sha, tenant)
    <3>1. key \in BlobKeys
      BY DEF Scoped, BlobKeys
    <3>2. PutBlob(key) \/ GetBlob(key)
      BY <2>1
    <3> HIDE DEF key
    <3> QED
      BY <3>1, <3>2, PutKeeps, GetKeeps
  <2>2. CASE UNCHANGED blobVars
    BY <2>2 DEF blobVars, BlobInv
  <2> QED
    BY <2>1, <2>2 DEF BlobNext
<1> QED
  BY <1>1, <1>2, PTL DEF BlobSpec

\* A blob is held as long as it and all that was used since fit the limit, and the blobs held
\* keep it, or are one; for any sizes, limit, tenants and calls of put and get.
THEOREM BlobsAreHeld == BlobSpec => []RecentBlobsHeld
<1>1. BlobInv => RecentBlobsHeld
  <2> SUFFICES ASSUME BlobInv PROVE RecentBlobsHeld
    OBVIOUS
  <2> DEFINE L == Len(recent)
             k == Len(blobs)
             m == L - k
  <2>1. PICK f : Upto(f, recent) /\ Trails(f, blobs, recent, totalBytes)
    BY DEF BlobInv
  <2>2. /\ recent \in Seq(BlobKeys) /\ blobs \in Seq(BlobKeys) /\ L \in Nat /\ k \in Nat /\ m \in Nat
        /\ m + k = L /\ totalBytes = f[L] - f[m] /\ (m >= 1 => f[L] - f[m - 1] > MaxBlobBytes)
        /\ MaxBlobBytes \in Nat
    BY <2>1, BlobAssumption DEF BlobInv, Trails, BlobAssumption
  <2>3. \A i \in 1 .. k : blobs[i] = recent[m + i]
    BY <2>1 DEF Trails
  <2>4. (\A i \in 0 .. L : f[i] \in Nat) /\ \A i, j \in 0 .. L : i <= j => f[i] <= f[j]
    BY <2>1, <2>2, UptoGrows
  <2>5. \A i \in 1 .. L : recent[i] \in BlobKeys
    BY <2>2
  <2>6. DOMAIN recent = 1 .. L
    BY <2>2
  <2>7. \A i \in m + 1 .. L : Held(recent[i])
    <3> SUFFICES ASSUME NEW i \in m + 1 .. L PROVE Held(recent[i])
      OBVIOUS
    <3>1. i - m \in 1 .. k /\ m + (i - m) = i
      BY <2>2
    <3> QED
      BY <2>3, <3>1 DEF Held, Contains
  <2>8. recent # <<>> => Held(Last(recent))
    <3> SUFFICES ASSUME recent # <<>> PROVE Held(Last(recent))
      OBVIOUS
    <3>1. k >= 1
      BY <2>2 DEF BlobInv
    <3>2. L \in m + 1 .. L
      BY <2>2, <3>1
    <3> QED
      BY <2>7, <3>2 DEF Last
  <2>9. Bytes(blobs) = totalBytes
    <3> HIDE DEF m
    <3>1. /\ m \in 0 .. L /\ L \in 0 .. L /\ m <= L /\ Len(blobs) = L - m
          /\ \A i \in 1 .. L - m : blobs[i] = recent[m + i]
      <4>1. L - m = k
        BY <2>2
      <4> QED
        BY <2>2, <2>3, <4>1
    <3>2. Run(blobs, recent, m, L)
      BY <2>2, <3>1 DEF Run
    <3> QED
      BY <2>1, <2>2, <3>1, <3>2, BytesOfRun
  <2> HIDE DEF L, k, m
  <2>10. ASSUME NEW i \in 1 .. L, Bytes(SubSeq(recent, i, L)) <= MaxBlobBytes
         PROVE  Held(recent[i])
    <3> DEFINE t == SubSeq(recent, i, L)
               b == i - 1
    <3>1. t \in Seq(BlobKeys) /\ Len(t) = L - b /\ \A j \in 1 .. L - b : t[j] = recent[b + j]
      <4>1. i \in Int /\ L \in Int /\ \A j \in i .. L : recent[j] \in BlobKeys
        BY <2>2, <2>5
      <4>2. /\ t \in Seq(BlobKeys) /\ Len(t) = IF i <= L THEN L - i + 1 ELSE 0
            /\ \A j \in 1 .. L - i + 1 : t[j] = recent[i + j - 1]
        BY <4>1, SubSeqProperties
      <4>3. i <= L /\ L - i + 1 = L - b /\ \A j \in 1 .. L - b : i + j - 1 = b + j
        BY <2>2
      <4> HIDE DEF t, b
      <4> QED
        BY <4>2, <4>3
    <3>2. b \in 0 .. L /\ L \in 0 .. L /\ b <= L
      BY <2>2
    <3> HIDE DEF t, b
    <3>3. Bytes(t) = f[L] - f[b]
      <4>1. L \in 0 .. Len(recent) /\ b \in 0 .. Len(recent)
        BY <3>2 DEF L
      <4>2. recent \in Seq(BlobKeys) /\ Upto(f, recent)
        BY <2>1, <2>2
      <4>3. Run(t, recent, b, L)
        BY <3>1 DEF Run
      <4> QED
        BY <3>2, <4>1, <4>2, <4>3, BytesOfRun
    <3>4. i \in m + 1 .. L
      <4> SUFFICES ASSUME i <= m PROVE FALSE
        BY <2>2
      <4>1. m >= 1 /\ m - 1 \in 0 .. L /\ b <= m - 1
        BY <2>2 DEF b
      <4>2. f[b] <= f[m - 1] /\ f[b] \in Nat /\ f[m - 1] \in Nat /\ f[L] \in Nat
        BY <2>4, <3>2, <4>1
      <4>3. f[L] - f[b] <= MaxBlobBytes
        BY <2>10, <3>3 DEF t
      <4> QED
        BY <2>2, <4>1, <4>2, <4>3
    <3> QED
      BY <2>7, <3>4
  <2>11. Bytes(blobs) <= MaxBlobBytes \/ Len(blobs) = 1
    BY <2>9 DEF BlobInv
  <2> QED
    BY <2>6, <2>8, <2>10, <2>11 DEF RecentBlobsHeld, L
<1> QED
  BY <1>1, BlobInvHolds, PTL

-----------------------------------------------------------------------------
(* The estimates of spot colours, for any documents and cache.             *)

\* The names the lru_cache holds an estimate for.
Cached == {e[1] : e \in ToSet(estimates)}

\* A worker is about to ask for a name.
Asks(w, n) == painter[w].doing = "ask" /\ Head(painter[w].todo).name = n

\* What a worker's record holds.
Paints(j) == j = [doing |-> j.doing, todo |-> j.todo, doc |-> j.doc, shown |-> j.shown]

\* The model was asked for a name at most once, and then the cache holds the answer; and what
\* a worker is about to ask for is not there.
SpotInv ==
    /\ estimates \in Seq(ToSet(estimates))
    /\ painter = [w \in SpotWorkers |-> painter[w]]
    /\ \A w \in SpotWorkers : Paints(painter[w])
    /\ calls \in [InkNames -> Nat]
    /\ \A n \in InkNames \ excused :
          /\ calls[n] <= 1 /\ (calls[n] # 0 => n \in Cached)
          /\ \A w \in SpotWorkers : Asks(w, n) => n \notin Cached

LEMMA SpotInitially == SpotInit => SpotInv
<1> SUFFICES ASSUME SpotInit PROVE SpotInv
  OBVIOUS
<1>1. estimates \in Seq(ToSet(estimates)) /\ calls \in [InkNames -> Nat]
  BY DEF SpotInit
<1>2. \A w \in SpotWorkers : Paints(painter[w]) /\ ~(painter[w].doing = "ask")
  BY DEF SpotInit, Resting, Paints
<1>3. painter = [w \in SpotWorkers |-> painter[w]]
  BY DEF SpotInit
<1>4. \A n \in InkNames : calls[n] = 0
  BY DEF SpotInit
<1> QED
  BY <1>1, <1>2, <1>3, <1>4 DEF SpotInv, Asks

\* A worker's step that does not ask, and keeps the names of the cache.
LEMMA SpotSettles ==
    ASSUME SpotInv, NEW w \in SpotWorkers, NEW j,
           painter' = [painter EXCEPT ![w] = j], calls' = calls, excused' = excused,
           estimates' \in Seq(ToSet(estimates')), Cached' = Cached, Paints(j),
           j.doing = "ask" => Head(j.todo).name \notin Cached
    PROVE  SpotInv'
<1>1. \A v \in SpotWorkers : painter'[v] = IF v = w THEN j ELSE painter[v]
  BY DEF SpotInv
<1>2. /\ painter' = [v \in SpotWorkers |-> painter'[v]]
      /\ \A v \in SpotWorkers : Paints(painter'[v])
  BY <1>1 DEF SpotInv
<1>3. ASSUME NEW n \in InkNames \ excused, NEW v \in SpotWorkers, Asks(v, n)'
      PROVE  n \notin Cached
  <2>1. CASE v = w
    BY <1>1, <1>3, <2>1 DEF Asks
  <2>2. CASE v # w
    BY <1>1, <1>3, <2>2 DEF Asks, SpotInv
  <2> QED
    BY <2>1, <2>2
<1> QED
  BY <1>2, <1>3 DEF SpotInv

\* Sequences by the set of their elements.
LEMMA SeqOfItsOwn ==
    ASSUME NEW S, NEW s \in Seq(S)
    PROVE  s \in Seq(ToSet(s)) /\ ToSet(s) \subseteq S
BY DEF ToSet

LEMMA ToSetAppended ==
    ASSUME NEW S, NEW s \in Seq(S), NEW e
    PROVE  Append(s, e) \in Seq(S \cup {e}) /\ ToSet(Append(s, e)) = ToSet(s) \cup {e}
<1>1. s \in Seq(S \cup {e})
  OBVIOUS
<1>2. /\ Append(s, e) \in Seq(S \cup {e}) /\ Len(Append(s, e)) = Len(s) + 1
      /\ \A i \in 1 .. Len(s) : Append(s, e)[i] = s[i]
      /\ Append(s, e)[Len(s) + 1] = e
  BY <1>1
<1>3. Len(s) \in Nat /\ DOMAIN s = 1 .. Len(s) /\ DOMAIN Append(s, e) = 1 .. Len(s) + 1
  BY <1>1, <1>2
<1>4. 1 .. Len(s) + 1 = 1 .. Len(s) \cup {Len(s) + 1}
  BY <1>3
<1>5. ToSet(Append(s, e)) = {Append(s, e)[i] : i \in 1 .. Len(s)} \cup {Append(s, e)[Len(s) + 1]}
  BY <1>3, <1>4 DEF ToSet
<1>6. {Append(s, e)[i] : i \in 1 .. Len(s)} = ToSet(s)
  BY <1>2, <1>3 DEF ToSet
<1> QED
  BY <1>2, <1>5, <1>6

LEMMA ToSetTail ==
    ASSUME NEW S, NEW s \in Seq(S), Len(s) # 0
    PROVE  Tail(s) \in Seq(S) /\ ToSet(Tail(s)) \subseteq ToSet(s)
<1>1. Tail(s) \in Seq(S) /\ Len(Tail(s)) = Len(s) - 1 /\ Len(s) \in Nat
  OBVIOUS
<1>2. \A i \in 1 .. Len(s) - 1 : Tail(s)[i] = s[i + 1]
  OBVIOUS
<1> QED
  BY <1>1, <1>2 DEF ToSet

LEMMA ToSetJoined ==
    ASSUME NEW S, NEW u \in Seq(S), NEW v \in Seq(S)
    PROVE  u \o v \in Seq(S) /\ ToSet(u \o v) = ToSet(u) \cup ToSet(v)
<1>1. /\ u \o v \in Seq(S) /\ Len(u \o v) = Len(u) + Len(v)
      /\ Len(u) \in Nat /\ Len(v) \in Nat
  OBVIOUS
<1>2. \A i \in 1 .. Len(u) : (u \o v)[i] = u[i]
  OBVIOUS
<1>3. \A i \in 1 .. Len(v) : (u \o v)[Len(u) + i] = v[i]
  OBVIOUS
<1>4. \A i \in 1 .. Len(u) + Len(v) : i \in 1 .. Len(u) \/ \E k \in 1 .. Len(v) : i = Len(u) + k
  <2> TAKE i \in 1 .. Len(u) + Len(v)
  <2>1. CASE i > Len(u)
    <3>1. i - Len(u) \in 1 .. Len(v) /\ i = Len(u) + (i - Len(u))
      BY <1>1, <2>1
    <3> QED
      BY <3>1
  <2> QED
    BY <1>1, <2>1
<1>5. /\ DOMAIN u = 1 .. Len(u) /\ DOMAIN v = 1 .. Len(v)
      /\ DOMAIN (u \o v) = 1 .. Len(u) + Len(v)
  BY <1>1
<1>6. \A k \in 1 .. Len(v) : Len(u) + k \in 1 .. Len(u) + Len(v)
  BY <1>1
<1>7. 1 .. Len(u) \subseteq 1 .. Len(u) + Len(v)
  BY <1>1
<1> DEFINE t == u \o v
<1> HIDE DEF t
<1>9. /\ DOMAIN t = 1 .. Len(u) + Len(v)
      /\ \A i \in 1 .. Len(u) : t[i] = u[i]
      /\ \A i \in 1 .. Len(v) : t[Len(u) + i] = v[i]
  BY <1>2, <1>3, <1>5 DEF t
<1>8. ToSet(t) = ToSet(u) \cup ToSet(v)
  <2>1. ASSUME NEW x \in ToSet(t) PROVE x \in ToSet(u) \cup ToSet(v)
    <3>1. PICK i \in 1 .. Len(u) + Len(v) : x = t[i]
      BY <1>9 DEF ToSet
    <3>2. CASE i \in 1 .. Len(u)
      BY <1>5, <1>9, <3>1, <3>2 DEF ToSet
    <3>3. CASE \E k \in 1 .. Len(v) : i = Len(u) + k
      BY <1>5, <1>9, <3>1, <3>3 DEF ToSet
    <3> QED
      BY <1>4, <3>2, <3>3
  <2>2. ASSUME NEW x \in ToSet(u) PROVE x \in ToSet(t)
    BY <1>5, <1>7, <1>9, <2>2 DEF ToSet
  <2>3. ASSUME NEW x \in ToSet(v) PROVE x \in ToSet(t)
    BY <1>5, <1>6, <1>9, <2>3 DEF ToSet
  <2> QED
    BY <2>1, <2>2, <2>3
<1> QED
  BY <1>1, <1>8 DEF t

LEMMA WithTodo ==
    ASSUME NEW j, NEW todo, Paints(j)
    PROVE  LET k == [j EXCEPT !.todo = todo]
           IN  /\ Paints(k) /\ k.doing = j.doing /\ k.todo = todo
               /\ k.doc = j.doc /\ k.shown = j.shown
<1> DEFINE k == [doing |-> j.doing, todo |-> j.todo, doc |-> j.doc, shown |-> j.shown]
<1>1. j = k
  BY DEF Paints
<1>2. [k EXCEPT !.todo = todo] =
          [doing |-> j.doing, todo |-> todo, doc |-> j.doc, shown |-> j.shown]
  OBVIOUS
<1> HIDE DEF k
<1>3. [j EXCEPT !.todo = todo] =
          [doing |-> j.doing, todo |-> todo, doc |-> j.doc, shown |-> j.shown]
  BY <1>1, <1>2
<1> QED
  BY <1>3 DEF Paints

LEMMA WithDoing ==
    ASSUME NEW j, NEW doing, Paints(j)
    PROVE  LET k == [j EXCEPT !.doing = doing]
           IN  /\ Paints(k) /\ k.doing = doing /\ k.todo = j.todo
               /\ k.doc = j.doc /\ k.shown = j.shown
<1> DEFINE k == [doing |-> j.doing, todo |-> j.todo, doc |-> j.doc, shown |-> j.shown]
<1>1. j = k
  BY DEF Paints
<1>2. [k EXCEPT !.doing = doing] =
          [doing |-> doing, todo |-> j.todo, doc |-> j.doc, shown |-> j.shown]
  OBVIOUS
<1> HIDE DEF k
<1>3. [j EXCEPT !.doing = doing] =
          [doing |-> doing, todo |-> j.todo, doc |-> j.doc, shown |-> j.shown]
  BY <1>1, <1>2
<1> QED
  BY <1>3 DEF Paints

LEMMA WithShown ==
    ASSUME NEW j, NEW shown, Paints(j)
    PROVE  LET k == [j EXCEPT !.shown = shown]
           IN  /\ Paints(k) /\ k.doing = j.doing /\ k.todo = j.todo
               /\ k.doc = j.doc /\ k.shown = shown
<1> DEFINE k == [doing |-> j.doing, todo |-> j.todo, doc |-> j.doc, shown |-> j.shown]
<1>1. j = k
  BY DEF Paints
<1>2. [k EXCEPT !.shown = shown] =
          [doing |-> j.doing, todo |-> j.todo, doc |-> j.doc, shown |-> shown]
  OBVIOUS
<1> HIDE DEF k
<1>3. [j EXCEPT !.shown = shown] =
          [doing |-> j.doing, todo |-> j.todo, doc |-> j.doc, shown |-> shown]
  BY <1>1, <1>2
<1> QED
  BY <1>3 DEF Paints

LEMMA ShownLooks ==
    ASSUME NEW j, NEW swatch, Paints(j)
    PROVE  LET l == Shown(j, swatch)
           IN  /\ Paints(l) /\ l.doing = "look" /\ l.todo = Tail(j.todo) /\ l.doc = j.doc
               /\ l.shown = Append(j.shown, [name |-> Head(j.todo).name,
                                             swatch |-> SwatchGiven(Head(j.todo), swatch)])
<1> DEFINE todo == Tail(j.todo)
           shown == Append(j.shown, [name |-> Head(j.todo).name,
                                     swatch |-> SwatchGiven(Head(j.todo), swatch)])
           k == [j EXCEPT !.doing = "look"]
           l == [k EXCEPT !.todo = todo]
<1>1. Shown(j, swatch) = [j EXCEPT !.doing = "look", !.todo = todo, !.shown = shown]
  BY DEF Shown
<1> HIDE DEF todo, shown
<1>2. Shown(j, swatch) = [l EXCEPT !.shown = shown]
  BY <1>1
<1>3. Paints(k) /\ k.doing = "look" /\ k.doc = j.doc /\ k.shown = j.shown
  BY WithDoing
<1> HIDE DEF k
<1>4. Paints(l) /\ l.doing = "look" /\ l.todo = todo /\ l.doc = j.doc /\ l.shown = j.shown
  BY <1>3, WithTodo
<1> HIDE DEF l
<1>5. LET m == Shown(j, swatch)
      IN  /\ Paints(m) /\ m.doing = "look" /\ m.todo = todo /\ m.doc = j.doc /\ m.shown = shown
  BY <1>2, <1>4, WithShown
<1> QED
  BY <1>5 DEF todo, shown

LEMMA AskKeeps ==
    ASSUME SpotInv, NEW w \in SpotWorkers, Ask(w)
    PROVE  SpotInv'
<1>1. PICK todo, doc : painter' = [painter EXCEPT ![w] =
          [doing |-> "look", todo |-> todo, doc |-> doc, shown |-> <<>>]]
  BY DEF Ask
<1> DEFINE j == [doing |-> "look", todo |-> todo, doc |-> doc, shown |-> <<>>]
<1>4. Paints(j) /\ j.doing = "look"
  BY DEF Paints
<1>2. estimates' = estimates /\ calls' = calls /\ excused' = excused
  BY DEF Ask
<1>3. estimates' \in Seq(ToSet(estimates')) /\ Cached' = Cached
  BY <1>2 DEF SpotInv, Cached
<1> HIDE DEF j
<1>5. painter' = [painter EXCEPT ![w] = j]
  BY <1>1 DEF j
<1> QED
  BY <1>2, <1>3, <1>4, <1>5, SpotSettles

LEMMA RespondKeeps ==
    ASSUME SpotInv, NEW w \in SpotWorkers, Respond(w)
    PROVE  SpotInv'
<1>1. painter' = [painter EXCEPT ![w] = Resting] /\ Resting.doing = "rest" /\ Paints(Resting)
  BY DEF Respond, Resting, Paints
<1>2. estimates' = estimates /\ calls' = calls /\ excused' = excused
  BY DEF Respond
<1>3. estimates' \in Seq(ToSet(estimates')) /\ Cached' = Cached
  BY <1>2 DEF SpotInv, Cached
<1> QED
  BY <1>1, <1>2, <1>3, SpotSettles

\* Moving the estimates of a name to the end keeps the names.
LEMMA MovedKeepsNames ==
    ASSUME NEW name, estimates \in Seq(ToSet(estimates)),
           estimates' = Those(estimates, ToSet(estimates) \ EstimatesOf(name))
                            \o Those(estimates, EstimatesOf(name))
    PROVE  estimates' \in Seq(ToSet(estimates')) /\ Cached' = Cached
<1> DEFINE S == ToSet(estimates)
           T == EstimatesOf(name)
           u == Those(estimates, S \ T)
           v == Those(estimates, T)
<1> HIDE DEF u, v, T, S
<1>0. T \subseteq S
  BY DEF T, S, EstimatesOf
<1>1. u \in Seq(S) /\ ToSet(u) = S \cap (S \ T)
  BY ThoseAreInOrder DEF u, S
<1>2. v \in Seq(S) /\ ToSet(v) = S \cap T
  BY ThoseAreInOrder DEF v, S
<1>3. estimates' = u \o v
  BY DEF u, v, S, T
<1>4. u \o v \in Seq(S) /\ ToSet(u \o v) = ToSet(u) \cup ToSet(v)
  BY <1>1, <1>2, ToSetJoined
<1>5. ToSet(estimates') = S
  BY <1>0, <1>1, <1>2, <1>3, <1>4
<1> QED
  BY <1>3, <1>4, <1>5 DEF Cached, S

LEMMA LookKeeps ==
    ASSUME SpotInv, NEW w \in SpotWorkers, Look(w)
    PROVE  SpotInv'
<1> DEFINE j == painter[w]
           head == Head(j.todo)
           known == Known(head.name, head.host, head.intent, head.extra)
           cached == Those(estimates, EstimatesOf(head.name))
<1>0. calls' = calls /\ excused' = excused /\ j.doing = "look" /\ Paints(j)
  BY DEF Look, SpotInv
<1>1. estimates \in Seq(ToSet(estimates)) /\ painter = [v \in SpotWorkers |-> painter[v]]
  BY DEF SpotInv
<1>2. CASE Repeated(j)
  <2> DEFINE k == [j EXCEPT !.todo = Tail(j.todo)]
  <2>1. painter' = [painter EXCEPT ![w] = k] /\ estimates' = estimates
    BY <1>1, <1>2 DEF Look
  <2>2. Paints(k) /\ k.doing = "look"
    BY <1>0, WithTodo
  <2>3. estimates' \in Seq(ToSet(estimates')) /\ Cached' = Cached
    BY <1>1, <2>1 DEF Cached
  <2> QED
    BY <1>0, <2>1, <2>2, <2>3, SpotSettles
<1>3. CASE ~Repeated(j) /\ known # {}
  <2>1. PICK swatch : painter' = [painter EXCEPT ![w] = Shown(j, swatch)]
    BY <1>3 DEF Look
  <2>2. estimates' = estimates
    BY <1>3 DEF Look
  <2>3. estimates' \in Seq(ToSet(estimates')) /\ Cached' = Cached
    BY <1>1, <2>2 DEF Cached
  <2> QED
    BY <1>0, <2>1, <2>3, SpotSettles, ShownLooks
<1>4. CASE ~Repeated(j) /\ known = {} /\ cached # <<>>
  <2>1. painter' = [painter EXCEPT ![w] = Shown(j, Estimated(head.name, cached[1][2]))]
    BY <1>4 DEF Look
  <2>2. estimates' = Those(estimates, ToSet(estimates) \ EstimatesOf(head.name)) \o cached
    BY <1>4 DEF Look
  <2>3. estimates' \in Seq(ToSet(estimates')) /\ Cached' = Cached
    BY <1>1, <2>2, MovedKeepsNames
  <2> QED
    BY <1>0, <2>1, <2>3, SpotSettles, ShownLooks
<1>5. CASE ~Repeated(j) /\ known = {} /\ cached = <<>>
  <2> DEFINE k == [j EXCEPT !.doing = "ask"]
  <2>1. painter' = [painter EXCEPT ![w] = k] /\ estimates' = estimates
    BY <1>1, <1>5 DEF Look
  <2>2. ToSet(cached) = ToSet(estimates) \cap EstimatesOf(head.name)
    BY <1>1, ThoseAreInOrder
  <2>3. ToSet(cached) = {}
    BY <1>5 DEF ToSet
  <2>4. head.name \notin Cached
    BY <2>2, <2>3 DEF Cached, EstimatesOf
  <2>5. estimates' \in Seq(ToSet(estimates')) /\ Cached' = Cached
    BY <1>1, <2>1 DEF Cached
  <2>6. Paints(k) /\ k.todo = j.todo
    BY <1>0, WithDoing
  <2> QED
    BY <1>0, <2>1, <2>4, <2>5, <2>6, SpotSettles
<1> QED
  BY <1>2, <1>3, <1>4, <1>5

\* What is remembered: the name is there, and no other name came.
LEMMA RememberedIsCached ==
    ASSUME NEW name, NEW lab, estimates \in Seq(ToSet(estimates)),
           EstimateSlots \in Nat \ {0}, estimates' = Remember(name, lab)
    PROVE  /\ estimates' \in Seq(ToSet(estimates'))
           /\ name \in Cached' /\ Cached' \subseteq Cached \cup {name}
<1> DEFINE S == ToSet(estimates)
           e == <<name, lab>>
           kept == IF Len(estimates) < EstimateSlots THEN estimates ELSE Tail(estimates)
<1>1. CASE \E i \in DOMAIN estimates : estimates[i][1] = name
  <2>1. estimates' = estimates
    BY <1>1 DEF Remember
  <2>2. name \in Cached
    BY <1>1 DEF Cached, ToSet
  <2> QED
    BY <2>1, <2>2 DEF Cached
<1>2. CASE ~\E i \in DOMAIN estimates : estimates[i][1] = name
  <2>1. estimates' = Append(kept, e)
    BY <1>2 DEF Remember
  <2>2. kept \in Seq(S) /\ ToSet(kept) \subseteq S
    BY ToSetTail
  <2> HIDE DEF kept, S
  <2>3. Append(kept, e) \in Seq(S \cup {e}) /\ ToSet(Append(kept, e)) = ToSet(kept) \cup {e}
    BY <2>2, ToSetAppended
  <2> DEFINE t == Append(kept, e)
             U == S \cup {e}
  <2>6. t \in Seq(U) /\ ToSet(t) = ToSet(kept) \cup {e}
    BY <2>3
  <2> HIDE DEF t, U
  <2>7. t \in Seq(ToSet(t))
    BY <2>6, SeqOfItsOwn
  <2>4. estimates' \in Seq(ToSet(estimates')) /\ ToSet(estimates') = ToSet(kept) \cup {e}
    BY <2>1, <2>6, <2>7 DEF t
  <2>5. e[1] = name
    OBVIOUS
  <2> QED
    BY <2>2, <2>4, <2>5 DEF Cached, S
<1> QED
  BY <1>1, <1>2

LEMMA EstimateKeeps ==
    ASSUME SpotInv, NEW w \in SpotWorkers, Estimate(w), EstimateSlots \in Nat \ {0}
    PROVE  SpotInv'
<1> DEFINE j == painter[w]
           name == Head(j.todo).name
<1>1. PICK lab : /\ painter' = [painter EXCEPT ![w] = Shown(j, Estimated(name, lab))]
                 /\ estimates' = Remember(name, lab)
  BY DEF Estimate
<1>2. /\ estimates' \in Seq(ToSet(estimates'))
      /\ name \in Cached' /\ Cached' \subseteq Cached \cup {name}
  BY <1>1, RememberedIsCached DEF SpotInv
<1>3. /\ painter' = [v \in SpotWorkers |-> painter'[v]]
      /\ painter'[w].doing = "look"
      /\ \A v \in SpotWorkers : v # w => painter'[v] = painter[v]
      /\ \A v \in SpotWorkers : Paints(painter'[v])
  <2> DEFINE k == Shown(j, Estimated(name, lab))
  <2>1. painter = [v \in SpotWorkers |-> painter[v]] /\ \A v \in SpotWorkers : Paints(painter[v])
    BY DEF SpotInv
  <2>2. Paints(k) /\ k.doing = "look"
    BY <2>1, ShownLooks
  <2>3. painter' = [painter EXCEPT ![w] = k]
    BY <1>1
  <2> HIDE DEF k
  <2> QED
    BY <2>1, <2>2, <2>3
<1>11. /\ calls \in [InkNames -> Nat]
       /\ calls' = IF aiEnabled THEN [calls EXCEPT ![name] = @ + 1] ELSE calls
  BY DEF Estimate, SpotInv
<1>4. calls' \in [InkNames -> Nat] /\ \A n \in InkNames : n # name => calls'[n] = calls[n]
  <2>1. CASE ~aiEnabled
    BY <1>11, <2>1
  <2>2. CASE aiEnabled /\ name \notin InkNames
    BY <1>11, <2>2
  <2>3. CASE aiEnabled /\ name \in InkNames
    <3>1. calls[name] + 1 \in Nat
      BY <1>11, <2>3
    <3> QED
      BY <1>11, <2>3, <3>1
  <2> QED
    BY <2>1, <2>2, <2>3
<1>5. name \in InkNames => calls'[name] <= calls[name] + 1
  BY <1>11
<1>6. excused \subseteq excused'
  BY DEF Estimate
<1>7. \A n \in InkNames \ excused' : n \in Cached => n \in Cached'
  <2>1. \A n \in InkNames :
            (\E i \in DOMAIN estimates : estimates[i][1] = n)
                /\ ~(\E k \in DOMAIN estimates' : estimates'[k][1] = n)
            => n \in excused'
    <3>1. excused' = excused
              \cup {n \in InkNames : \E i \in DOMAIN estimates :
                       estimates[i][1] = n /\ ~\E k \in DOMAIN estimates' : estimates'[k][1] = n}
              \cup {n \in {name} : \E v \in SpotWorkers \ {w} :
                       painter[v].doing = "ask" /\ Head(painter[v].todo).name = n}
      BY DEF Estimate
    <3> QED
      BY <3>1
  <2>2. Cached = {estimates[i][1] : i \in DOMAIN estimates}
    BY DEF Cached, ToSet
  <2>3. Cached' = {estimates'[i][1] : i \in DOMAIN estimates'}
    BY DEF Cached, ToSet
  <2>4. ASSUME NEW n \in InkNames, n \in Cached, n \notin Cached'
        PROVE  n \in excused'
    <3>1. \E i \in DOMAIN estimates : estimates[i][1] = n
      BY <2>2, <2>4
    <3>2. ~\E k \in DOMAIN estimates' : estimates'[k][1] = n
      BY <2>3, <2>4
    <3> QED
      BY <2>1, <3>1, <3>2
  <2> QED
    BY <2>4
<1>8. \A v \in SpotWorkers : v # w /\ Asks(v, name) => name \in excused'
  BY DEF Estimate, Asks
<1>9. Asks(w, name)
  BY DEF Estimate, Asks
<1>10. ASSUME NEW n \in InkNames \ excused'
       PROVE  /\ calls'[n] <= 1 /\ (calls'[n] # 0 => n \in Cached')
              /\ \A v \in SpotWorkers : Asks(v, n)' => n \notin Cached'
  <2>1. /\ n \in InkNames \ excused /\ calls[n] \in Nat /\ calls'[n] \in Nat
        /\ calls[n] <= 1 /\ (calls[n] # 0 => n \in Cached)
        /\ \A v \in SpotWorkers : Asks(v, n) => n \notin Cached
    BY <1>4, <1>6 DEF SpotInv
  <2>2. ~(Asks(w, n)')
    BY <1>3 DEF Asks
  <2>3. CASE n = name
    <3>1. calls[n] = 0
      BY <1>9, <2>1, <2>3
    <3>2. calls'[n] <= 1
      BY <1>5, <2>1, <2>3, <3>1
    <3>3. \A v \in SpotWorkers : ~(Asks(v, n)')
      BY <1>3, <1>8, <2>2, <2>3 DEF Asks
    <3> QED
      BY <1>2, <2>3, <3>2, <3>3
  <2>4. CASE n # name
    <3>1. calls'[n] = calls[n]
      BY <1>4, <2>4
    <3>2. \A v \in SpotWorkers : Asks(v, n)' => n \notin Cached'
      BY <1>2, <1>3, <2>1, <2>2, <2>4 DEF Asks
    <3> QED
      BY <1>7, <2>1, <3>1, <3>2
  <2> QED
    BY <2>3, <2>4
<1> QED
  BY <1>2, <1>3, <1>4, <1>10 DEF SpotInv

SpotSpec == SpotInit /\ [][SpotNext]_spotVars

\* However many requests share the estimates, the model is asked for a name once in the life
\* of the process, unless the name was evicted or two workers missed it at once
\* (_ai_lab_estimate under lru_cache): whatever the documents, the catalogue, the tint
\* transforms and the size of the cache.
THEOREM EachNameAskedOnce == SpotSpec => []AskedOnce
<1>1. SpotInit => SpotInv
  BY SpotInitially
<1>2. SpotInv /\ [SpotNext]_spotVars => SpotInv'
  <2> SUFFICES ASSUME SpotInv, [SpotNext]_spotVars PROVE SpotInv'
    OBVIOUS
  <2>1. CASE SpotNext
    BY <2>1, SpotAssumption, AskKeeps, LookKeeps, EstimateKeeps, RespondKeeps DEF SpotNext
  <2>2. CASE UNCHANGED spotVars
    BY <2>2 DEF spotVars, SpotInv, Cached, Asks
  <2> QED
    BY <2>1, <2>2
<1>3. SpotInv => AskedOnce
  BY DEF SpotInv, AskedOnce
<1> QED
  BY <1>1, <1>2, <1>3, PTL DEF SpotSpec

-----------------------------------------------------------------------------
(* Tint transforms.                                                        *)

\* Rounding down.
LEMMA RoundsDown ==
  ASSUME NEW n \in Int, NEW d \in Nat \ {0}
  PROVE  n \div d \in Int /\ n - d * (n \div d) \in 0 .. d - 1
OBVIOUS

\* A product with a share of d is between zero and the whole.
LEMMA ShareOfRange ==
  ASSUME NEW d \in Nat \ {0}, NEW s \in 0 .. d, NEW w \in Int, NEW q \in Int,
         s * w - d * q \in 0 .. d - 1
  PROVE  IF w >= 0 THEN q \in 0 .. w ELSE q \in w .. 0
<1>1. CASE w >= 0
  <2>1. s * w >= 0 /\ s * w <= d * w
    BY <1>1
  <2>2. q >= 0
    <3> SUFFICES ASSUME q <= 0 - 1 PROVE FALSE
      OBVIOUS
    <3>1. d * q <= 0 - d
      OBVIOUS
    <3> QED
      BY <2>1, <3>1
  <2>3. q <= w
    <3> SUFFICES ASSUME q >= w + 1 PROVE FALSE
      BY <1>1
    <3>1. d * q >= d * w + d
      OBVIOUS
    <3> QED
      BY <2>1, <3>1
  <2> QED
    BY <1>1, <2>2, <2>3
<1>2. CASE w < 0
  <2>1. s * w <= 0 /\ s * w >= d * w
    BY <1>2
  <2>2. q <= 0
    <3> SUFFICES ASSUME q >= 1 PROVE FALSE
      OBVIOUS
    <3>1. d * q >= d
      OBVIOUS
    <3> QED
      BY <2>1, <3>1
  <2>3. q >= w
    <3> SUFFICES ASSUME q <= w - 1 PROVE FALSE
      BY <1>2
    <3>1. d * q <= d * w - d
      OBVIOUS
    <3> QED
      BY <2>1, <3>1
  <2> QED
    BY <1>2, <2>2, <2>3
<1> QED
  BY <1>1, <1>2

\* What a stitched function is made of.
IsStitched(fn) ==
    /\ Domain(fn) /\ fn.encode \in Seq(Int) /\ fn.bounds \in Seq(Int)
    /\ fn.functions \in Seq(Transforms) /\ Len(fn.functions) = Len(fn.bounds) + 1

LEMMA StitchedTransforms ==
  ASSUME NEW fn \in Transforms
  PROVE  fn.type = 3 => IsStitched(fn)
BY TintAssumption DEF IsStitched

LEMMA InDomain ==
  ASSUME NEW fn, NEW x \in Int, Domain(fn)
  PROVE  OnDomain(fn, x) \in fn.domain[1] .. fn.domain[2] /\ OnDomain(fn, x) \in Int
<1>1. fn.domain[1] \in Int /\ fn.domain[2] \in Int /\ fn.domain[1] <= fn.domain[2]
  BY DEF Domain
<1> QED
  BY <1>1 DEF OnDomain, Least, Most

\* The edges of a piece are the ends of its interval.
LEMMA EdgesOfPiece ==
  ASSUME NEW fn, IsStitched(fn), NEW k \in DOMAIN fn.functions
  PROVE  /\ Edges(fn)[k] = Lower(fn, k) /\ Edges(fn)[k + 1] = Upper(fn, k)
         /\ Lower(fn, k) \in Int /\ Upper(fn, k) \in Int
<1> DEFINE d1 == fn.domain[1]
           d2 == fn.domain[2]
           bs == fn.bounds
           n == Len(bs)
           es == <<d1>> \o bs \o <<d2>>
<1>1. /\ d1 \in Int /\ d2 \in Int /\ bs \in Seq(Int) /\ n \in Nat
      /\ Len(fn.functions) = n + 1 /\ k \in 1 .. n + 1
  <2>1. /\ fn.domain \in Seq(Int) /\ Len(fn.domain) = 2 /\ bs \in Seq(Int)
        /\ fn.functions \in Seq(Transforms) /\ Len(fn.functions) = n + 1
    BY DEF IsStitched, Domain
  <2>2. d1 \in Int /\ d2 \in Int
    BY <2>1
  <2>3. n \in Nat /\ k \in 1 .. Len(fn.functions)
    BY <2>1
  <2> QED
    BY <2>1, <2>2, <2>3
<1> HIDE DEF d1, d2, bs
<1>2. /\ es \in Seq(Int) /\ Len(es) = n + 2 /\ es[1] = d1 /\ es[n + 2] = d2
      /\ \A i \in 2 .. n + 1 : es[i] = bs[i - 1] /\ bs[i - 1] \in Int
  BY <1>1
<1>3. Edges(fn) = es
  BY DEF Edges, bs, d1, d2
<1> HIDE DEF es, n
<1>4. es[k] = (IF k = 1 THEN d1 ELSE bs[k - 1]) /\ es[k] \in Int
  <2>1. k = 1 \/ k \in 2 .. n + 1
    BY <1>1
  <2> QED
    BY <1>1, <1>2, <2>1
<1>5. es[k + 1] = (IF k = n + 1 THEN d2 ELSE bs[k]) /\ es[k + 1] \in Int
  <2>1. (k = n + 1 /\ k + 1 = n + 2) \/ (k # n + 1 /\ k + 1 \in 2 .. n + 1 /\ (k + 1) - 1 = k)
    BY <1>1
  <2> QED
    BY <1>1, <1>2, <2>1
<1> QED
  BY <1>1, <1>3, <1>4, <1>5 DEF Lower, Upper, bs, d1, d2

\* The chosen piece has x between its edges, and in its interval when x is no bound.
LEMMA PieceHolds ==
  ASSUME NEW fn, IsStitched(fn), NEW x \in fn.domain[1] .. fn.domain[2]
  PROVE  LET k == Piece(fn, x)
         IN  /\ k \in DOMAIN fn.functions /\ x \in Lower(fn, k) .. Upper(fn, k)
             /\ x \notin ToSet(fn.bounds) => Within(fn, k, x)
<1> DEFINE n == Len(fn.functions)
           upTo == {k \in DOMAIN fn.functions : x <= Edges(fn)[k + 1]}
           k == Piece(fn, x)
<1>1. /\ DOMAIN fn.functions = 1 .. n /\ n \in Nat /\ n >= 1
      /\ fn.domain[1] \in Int /\ fn.domain[2] \in Int /\ x \in Int
      /\ fn.domain[1] <= x /\ x <= fn.domain[2]
  BY DEF IsStitched, Domain
<1>2. \A i \in 1 .. n : /\ Edges(fn)[i] = Lower(fn, i) /\ Edges(fn)[i + 1] = Upper(fn, i)
                        /\ Lower(fn, i) \in Int /\ Upper(fn, i) \in Int
  BY <1>1, EdgesOfPiece
<1>3. n \in upTo
  <2>1. n \in 1 .. n /\ Upper(fn, n) = fn.domain[2]
    BY <1>1 DEF Upper
  <2>2. Edges(fn)[n + 1] = fn.domain[2]
    BY <1>2, <2>1
  <2> QED
    BY <1>1, <2>1, <2>2
<1>4. PICK m \in upTo : \A j \in upTo : m <= j
  <2>1. \A i \in upTo : i \in 1 .. n
    BY <1>1
  <2> DEFINE f == [i \in upTo |-> i]
  <2>2. upTo \subseteq 1 .. n
    BY <2>1
  <2>3. IsFiniteSet(1 .. n)
    BY <1>1, FS_Interval
  <2>4. IsFiniteSet(upTo)
    BY <2>2, <2>3, FS_Subset
  <2> HIDE DEF upTo
  <2>5. f \in [upTo -> Int]
    BY <2>1
  <2>6. upTo # {}
    BY <1>3
  <2> HIDE DEF f
  <2>7. \E i \in upTo : \A j \in upTo : f[i] <= f[j]
    BY <2>4, <2>5, <2>6, LeastAt
  <2> QED
    BY <2>7 DEF f
<1>5. k = CHOOSE i \in upTo : \A j \in upTo : i <= j
  BY <1>3 DEF Piece
<1>6. k \in upTo /\ \A j \in upTo : k <= j
  BY <1>4, <1>5, Zenon
<1> HIDE DEF k
<1>7. k \in 1 .. n /\ x <= Upper(fn, k)
  BY <1>1, <1>2, <1>6
<1>8. Lower(fn, k) <= x
  <2>1. CASE k = 1
    BY <1>1, <2>1 DEF Lower
  <2>2. CASE k # 1
    <3>1. k - 1 \in 1 .. n /\ k - 1 < k /\ (k - 1) + 1 = k /\ ~(k <= k - 1)
      BY <1>7, <2>2
    <3>2. k - 1 \notin upTo
      BY <1>6, <3>1
    <3>3. ~(x <= Edges(fn)[k])
      BY <1>1, <3>1, <3>2
    <3> QED
      BY <1>1, <1>2, <1>7, <3>3
  <2> QED
    BY <2>1, <2>2
<1>9. Lower(fn, k) \in Int /\ Upper(fn, k) \in Int
  BY <1>2, <1>7
<1>10. ASSUME x \notin ToSet(fn.bounds) PROVE Within(fn, k, x)
  <2>1. CASE k = n
    BY <1>1, <1>7, <1>8, <1>9, <2>1 DEF Within
  <2>2. CASE k # n
    <3>1. fn.bounds \in Seq(Int) /\ n = Len(fn.bounds) + 1 /\ Upper(fn, k) = fn.bounds[k]
      BY <2>2 DEF Upper, IsStitched
    <3>2. k \in DOMAIN fn.bounds
      BY <1>1, <1>7, <2>2, <3>1
    <3>3. Upper(fn, k) # x
      BY <1>10, <3>1, <3>2 DEF ToSet
    <3> QED
      BY <1>1, <1>7, <1>8, <1>9, <3>3 DEF Within
  <2> QED
    BY <2>1, <2>2
<1> QED
  BY <1>1, <1>7, <1>8, <1>9, <1>10 DEF k

LEMMA TwoOf ==
  ASSUME NEW c \in Seq(Int), NEW m \in Nat, NEW l, m >= 1, l = m + 1, l <= Len(c)
  PROVE  /\ SubSeq(c, m, l)[1] = c[m] /\ SubSeq(c, m, l)[2] = c[l]
         /\ c[m] \in Int /\ c[l] \in Int
<1>1. m \in 1 .. Len(c) /\ l \in 1 .. Len(c) /\ m <= l
  OBVIOUS
<1>2. c[m] \in Int /\ c[l] \in Int
  BY <1>1
<1>3. \A i \in m .. l : c[i] \in Int
  BY <1>1
<1>4. SubSeq(c, m, l) = [i \in 1 .. 2 |-> c[m + i - 1]]
  <2>1. l - m + 1 = 2
    OBVIOUS
  <2> QED
    BY <2>1 DEF SubSeq
<1>5. m + 1 - 1 = m /\ m + 2 - 1 = l /\ 1 \in 1 .. 2 /\ 2 \in 1 .. 2
  OBVIOUS
<1> QED
  BY <1>2, <1>4, <1>5

\* The Encode range of a piece, as the code reads it.
LEMMA EncodeRangeIs ==
  ASSUME NEW fn, IsStitched(fn), NEW k \in DOMAIN fn.functions
  PROVE  LET e == EncodeRange(fn, k)
         IN  /\ e[1] \in Int /\ e[2] \in Int
             /\ e[1] = IF 2 * k <= Len(fn.encode) THEN fn.encode[2 * k - 1] ELSE Lower(fn, k)
             /\ e[2] = IF 2 * k <= Len(fn.encode) THEN fn.encode[2 * k] ELSE Upper(fn, k)
<1> DEFINE c == fn.encode
           e == EncodeRange(fn, k)
<1>1. c \in Seq(Int) /\ Len(c) \in Nat /\ k \in Nat /\ k >= 1
  BY DEF IsStitched
<1>2. Lower(fn, k) \in Int /\ Upper(fn, k) \in Int
  BY EdgesOfPiece
<1>3. CASE 2 * k > Len(c)
  <2>1. e = <<Lower(fn, k), Upper(fn, k)>>
    BY <1>3 DEF EncodeRange
  <2>2. ~(2 * k <= Len(c))
    BY <1>1, <1>3
  <2> QED
    BY <1>2, <2>1, <2>2
<1>4. CASE 2 * k <= Len(c)
  <2> DEFINE m == 2 * k - 1
             l == 2 * k
  <2>1. m \in Nat /\ m >= 1 /\ l = m + 1 /\ l <= Len(c)
    BY <1>1, <1>4
  <2>2. e = SubSeq(c, m, l)
    <3>1. ~(2 * k > Len(fn.encode))
      BY <1>1, <1>4
    <3> QED
      BY <3>1, Zenon DEF EncodeRange
  <2> HIDE DEF c, m, l
  <2>3. e[1] = c[m] /\ e[2] = c[l] /\ c[m] \in Int /\ c[l] \in Int
    BY <1>1, <2>1, <2>2, TwoOf
  <2> QED
    BY <1>4, <2>3 DEF c, m, l
<1> QED
  BY <1>1, <1>3, <1>4

\* Interpolation is as far into the Encode range as x is into the piece's interval.
LEMMA EncodedMaps ==
  ASSUME NEW fn, IsStitched(fn), NEW k \in DOMAIN fn.functions,
         NEW x \in Lower(fn, k) .. Upper(fn, k)
  PROVE  LET e == EncodeRange(fn, k)
             y == Encoded(fn, k, x)
         IN  /\ y \in Int /\ y \in Least(e[1], e[2]) .. Most(e[1], e[2])
             /\ Within(fn, k, x) => Maps(fn, k, x, y)
<1> DEFINE a == Lower(fn, k)
           b == Upper(fn, k)
           e == EncodeRange(fn, k)
           e1 == e[1]
           e2 == e[2]
           y == Encoded(fn, k, x)
           q == ((x - a) * (e2 - e1)) \div (b - a)
<1>1. a \in Int /\ b \in Int /\ Edges(fn)[k] = a /\ Edges(fn)[k + 1] = b
  BY EdgesOfPiece
<1>2. e1 \in Int /\ e2 \in Int
  BY EncodeRangeIs
<1>3. y = IF a = b THEN e1 ELSE e1 + q
  BY <1>1, EncodeRangeIs DEF Encoded
<1>4. x \in Int /\ a <= x /\ x <= b
  BY <1>1
<1>5. Maps(fn, k, x, y) <=> /\ Within(fn, k, x)
                           /\ IF a = b THEN y = e1
                              ELSE (x - a) * (e2 - e1) - (y - e1) * (b - a) \in 0 .. b - a - 1
  BY DEF Maps
<1>6. Least(e1, e2) = (IF e1 < e2 THEN e1 ELSE e2) /\ Most(e1, e2) = (IF e1 > e2 THEN e1 ELSE e2)
  BY DEF Least, Most
<1> HIDE DEF a, b, e1, e2, y, q
<1>7. CASE a = b
  BY <1>1, <1>2, <1>3, <1>4, <1>5, <1>6, <1>7 DEF e1, e2, y
<1>8. CASE a # b
  <2> DEFINE d == b - a
             s == x - a
             w == e2 - e1
  <2>1. d \in Nat \ {0} /\ s \in 0 .. d /\ w \in Int /\ s * w \in Int
    BY <1>1, <1>2, <1>4, <1>8
  <2>2. q = (s * w) \div d
    BY DEF q
  <2> HIDE DEF d, s, w
  <2>3. q \in Int /\ s * w - d * q \in 0 .. d - 1
    BY <2>1, <2>2, RoundsDown
  <2>4. IF w >= 0 THEN q \in 0 .. w ELSE q \in w .. 0
    BY <2>1, <2>3, ShareOfRange
  <2>5. y = e1 + q /\ y \in Int /\ y - e1 = q
    BY <1>2, <1>3, <1>8, <2>3
  <2>6. y \in (IF e1 < e2 THEN e1 ELSE e2) .. (IF e1 > e2 THEN e1 ELSE e2)
    BY <1>2, <2>3, <2>4, <2>5 DEF w
  <2>7. s * w - (y - e1) * d \in 0 .. d - 1
    BY <2>1, <2>3, <2>5
  <2>8. (x - a) * (e2 - e1) - (y - e1) * (b - a) \in 0 .. b - a - 1
    BY <2>7 DEF s, w, d
  <2> QED
    BY <1>1, <1>4, <1>5, <1>6, <1>8, <2>5, <2>6, <2>8 DEF y, e1, e2
<1> QED
  BY <1>7, <1>8

\* A call of a function of the documents.
Calls == {Call(fn, x) : fn \in Transforms, x \in Int}

LEMMA CallsAre ==
  /\ \A call \in Calls : call.fn \in Transforms /\ call.x \in Int /\ call = Call(call.fn, call.x)
  /\ \A fn \in Transforms, x \in Int :
        Call(fn, x) \in Calls /\ Call(fn, x).fn = fn /\ Call(fn, x).x = x
BY DEF Calls, Call

\* One stitched function evaluated is its piece read, off the bounds.
LEMMA StitchIsAPiece ==
  ASSUME NEW call \in Calls
  PROVE  Stitch(call) \in Calls /\ (~OnBound(call) => Stitch(call) \in Pieces(call))
<1> DEFINE fn == call.fn
           x == OnDomain(fn, call.x)
           k == Piece(fn, x)
           y == Encoded(fn, k, x)
           e == EncodeRange(fn, k)
<1>1. fn \in Transforms /\ call.x \in Int
  BY CallsAre
<1>2. CASE fn.type # 3
  BY <1>2 DEF Stitch, Pieces
<1>3. CASE fn.type = 3
  <2>1. IsStitched(fn)
    BY <1>1, <1>3, StitchedTransforms
  <2>2. x \in fn.domain[1] .. fn.domain[2]
    BY <1>1, <2>1, InDomain DEF IsStitched
  <2>0. ~OnBound(call) => x \notin ToSet(fn.bounds)
    BY <1>3 DEF OnBound
  <2> HIDE DEF x, fn
  <2>3. /\ k \in DOMAIN fn.functions /\ x \in Lower(fn, k) .. Upper(fn, k)
        /\ ~OnBound(call) => Within(fn, k, x)
    BY <2>0, <2>1, <2>2, PieceHolds
  <2> HIDE DEF k
  <2>4. /\ y \in Int /\ y \in Least(e[1], e[2]) .. Most(e[1], e[2])
        /\ ~OnBound(call) => Maps(fn, k, x, y)
    BY <2>1, <2>3, EncodedMaps
  <2>5. fn.functions[k] \in Transforms
    BY <2>1, <2>3 DEF IsStitched
  <2>6. Stitch(call) = Call(fn.functions[k], y)
    BY <1>3 DEF Stitch, fn, x, k
  <2> HIDE DEF y
  <2>7. Stitch(call) \in Calls
    BY <2>4, <2>5, <2>6, CallsAre
  <2>8. ~OnBound(call) => Stitch(call) \in
            {Call(fn.functions[k], v) : v \in {u \in Least(e[1], e[2]) .. Most(e[1], e[2]) :
                                                  Maps(fn, k, x, u)}}
    BY <2>4, <2>6
  <2>9. ~OnBound(call) => Stitch(call) \in Pieces(call)
    BY <1>3, <2>3, <2>8 DEF Pieces, fn, x
  <2> QED
    BY <2>7, <2>9
<1> QED
  BY <1>2, <1>3

LEMMA PiecesAreCalls ==
  ASSUME NEW call \in Calls
  PROVE  Pieces(call) \in SUBSET Calls
<1> DEFINE fn == call.fn
           x == OnDomain(fn, call.x)
<1>1. fn \in Transforms
  BY CallsAre
<1>2. CASE fn.type # 3
  BY <1>2 DEF Pieces
<1>3. CASE fn.type = 3
  <2>1. IsStitched(fn)
    BY <1>1, <1>3, StitchedTransforms
  <2> HIDE DEF x, fn
  <2>2. ASSUME NEW k \in DOMAIN fn.functions,
               NEW y \in Least(EncodeRange(fn, k)[1], EncodeRange(fn, k)[2]) ..
                            Most(EncodeRange(fn, k)[1], EncodeRange(fn, k)[2])
        PROVE  Call(fn.functions[k], y) \in Calls
    <3>1. y \in Int
      <4>1. EncodeRange(fn, k)[1] \in Int /\ EncodeRange(fn, k)[2] \in Int
        BY <2>1, EncodeRangeIs
      <4> QED
        BY <4>1 DEF Least, Most
    <3>2. fn.functions[k] \in Transforms
      BY <2>1 DEF IsStitched
    <3> QED
      BY <3>1, <3>2, CallsAre
  <2>3. Pieces(call) =
          UNION {{Call(fn.functions[k], y) :
                     y \in {v \in Least(EncodeRange(fn, k)[1], EncodeRange(fn, k)[2]) ..
                                      Most(EncodeRange(fn, k)[1], EncodeRange(fn, k)[2]) :
                               Maps(fn, k, x, v)}} : k \in DOMAIN fn.functions}
    BY <1>3 DEF Pieces, fn, x
  <2> QED
    BY <2>2, <2>3
<1> QED
  BY <1>2, <1>3

\* The calls that follow one another, and the readings.
LEMMA CallsFollow ==
  ASSUME NEW fn \in Transforms, NEW x \in Int
  PROVE  \E f : /\ DOMAIN f = 0 .. MaxNesting /\ f[0] = Call(fn, x)
                /\ \A n \in 1 .. MaxNesting : f[n] = Stitch(f[n - 1])
                /\ LastCall(fn, x) = f[MaxNesting]
<1> DEFINE K == MaxNesting
           a == Call(fn, x)
           step == [p \in Nat \X Calls |-> Stitch(p[2])]
           made == CHOOSE f : f = [n \in 0 .. K |-> IF n = 0 THEN a ELSE Stitch(f[n - 1])]
<1>1. a \in Calls /\ K \in Nat
  BY TintAssumption, CallsAre
<1>2. step \in [(Nat \X Calls) -> Calls]
  <2>1. \A p \in Nat \X Calls : Stitch(p[2]) \in Calls
    BY StitchIsAPiece
  <2> QED
    BY <2>1
<1>3. ASSUME NEW n \in Nat, NEW c \in Calls PROVE step[n, c] = Stitch(c)
  <2>1. <<n, c>> \in Nat \X Calls /\ <<n, c>>[2] = c
    OBVIOUS
  <2> QED
    BY <2>1, Zenon
<1> HIDE DEF a, K, step
<1>4. PICK f \in [0 .. K -> Calls] : Follows(f, a, step, K)
  BY <1>1, <1>2, StatesFollow
<1>5. \A n \in 1 .. K : n \in Nat /\ n # 0 /\ n - 1 \in 0 .. K /\ n \in 0 .. K
  BY <1>1
<1>6. \A n \in 1 .. K : f[n] = Stitch(f[n - 1])
  <2> TAKE n \in 1 .. K
  <2>1. f[n - 1] \in Calls
    BY <1>4, <1>5
  <2> QED
    BY <1>3, <1>4, <1>5, <2>1 DEF Follows
<1>7. \A n \in 0 .. K : n = 0 \/ n \in 1 .. K
  BY <1>1
<1>8. f = [n \in 0 .. K |-> IF n = 0 THEN a ELSE Stitch(f[n - 1])]
  <2>1. \A n \in 0 .. K : f[n] = IF n = 0 THEN a ELSE Stitch(f[n - 1])
    BY <1>4, <1>5, <1>6, <1>7 DEF Follows
  <2>2. f = [n \in 0 .. K |-> f[n]]
    OBVIOUS
  <2> QED
    BY <2>1, <2>2
<1>9. made = [n \in 0 .. K |-> IF n = 0 THEN a ELSE Stitch(made[n - 1])]
  BY <1>8, Zenon
<1>10. LastCall(fn, x) = made[K]
  BY DEF LastCall, K, a
<1> HIDE DEF made
<1>11. DOMAIN made = 0 .. K /\ \A n \in 0 .. K : made[n] = IF n = 0 THEN a ELSE Stitch(made[n - 1])
  BY <1>9
<1>12. 0 \in 0 .. K
  BY <1>1
<1> QED
  BY <1>5, <1>10, <1>11, <1>12 DEF K, a

LEMMA ReadingsFollow ==
  ASSUME NEW fn \in Transforms, NEW x \in Int
  PROVE  \E f : /\ DOMAIN f = 0 .. MaxNesting /\ f[0] = {Call(fn, x)}
                /\ \A n \in 1 .. MaxNesting : f[n] = UNION {Pieces(call) : call \in f[n - 1]}
                /\ Reading(fn, x) = f
<1> DEFINE K == MaxNesting
           S == SUBSET Calls
           a == {Call(fn, x)}
           Further(r) == UNION {Pieces(call) : call \in r}
           step == [p \in Nat \X S |-> Further(p[2])]
           made == CHOOSE f : f = [n \in 0 .. K |-> IF n = 0 THEN a ELSE Further(f[n - 1])]
<1>1. a \in S /\ K \in Nat
  BY TintAssumption, CallsAre
<1>0. \A r \in S : Further(r) \in S
  BY PiecesAreCalls
<1> HIDE DEF Further
<1>2. step \in [(Nat \X S) -> S]
  <2>1. \A p \in Nat \X S : Further(p[2]) \in S
    BY <1>0
  <2> HIDE DEF S
  <2> QED
    BY <2>1
<1>3. ASSUME NEW n \in Nat, NEW c \in S PROVE step[n, c] = Further(c)
  <2> HIDE DEF S
  <2>1. <<n, c>> \in Nat \X S /\ <<n, c>>[2] = c
    OBVIOUS
  <2> QED
    BY <2>1, Zenon
<1> HIDE DEF a, K, step, S
<1>4. PICK f \in [0 .. K -> S] : Follows(f, a, step, K)
  BY <1>1, <1>2, StatesFollow
<1>5. \A n \in 1 .. K : n \in Nat /\ n # 0 /\ n - 1 \in 0 .. K /\ n \in 0 .. K
  BY <1>1
<1>6. \A n \in 1 .. K : f[n] = Further(f[n - 1])
  <2> TAKE n \in 1 .. K
  <2>1. f[n - 1] \in S
    BY <1>4, <1>5
  <2> QED
    BY <1>3, <1>4, <1>5, <2>1 DEF Follows
<1>7. \A n \in 0 .. K : n = 0 \/ n \in 1 .. K
  BY <1>1
<1>8. f = [n \in 0 .. K |-> IF n = 0 THEN a ELSE Further(f[n - 1])]
  <2>1. \A n \in 0 .. K : f[n] = IF n = 0 THEN a ELSE Further(f[n - 1])
    BY <1>4, <1>5, <1>6, <1>7 DEF Follows
  <2>2. f = [n \in 0 .. K |-> f[n]]
    OBVIOUS
  <2> QED
    BY <2>1, <2>2
<1>9. made = [n \in 0 .. K |-> IF n = 0 THEN a ELSE Further(made[n - 1])]
  BY <1>8, Zenon
<1>10. Reading(fn, x) = made
  BY DEF Reading, K, a, Further
<1> HIDE DEF made
<1>11. DOMAIN made = 0 .. K /\ \A n \in 0 .. K : made[n] = IF n = 0 THEN a ELSE Further(made[n - 1])
  BY <1>9
<1>12. 0 \in 0 .. K
  BY <1>1
<1> QED
  BY <1>5, <1>10, <1>11, <1>12 DEF K, a, Further

\* The function the evaluation ends in is that of one of the readings, when no bound is met.
LEMMA LastCallIsRead ==
  ASSUME NEW fn \in Transforms, NEW x \in Int, ~ReachesBound(fn, x)
  PROVE  LastCall(fn, x) \in Calls /\ LastCall(fn, x) \in Readings(fn, x)
<1>1. PICK f : /\ DOMAIN f = 0 .. MaxNesting /\ f[0] = Call(fn, x)
               /\ \A n \in 1 .. MaxNesting : f[n] = Stitch(f[n - 1])
               /\ LastCall(fn, x) = f[MaxNesting]
  BY CallsFollow
<1>2. PICK g : /\ DOMAIN g = 0 .. MaxNesting /\ g[0] = {Call(fn, x)}
               /\ \A n \in 1 .. MaxNesting : g[n] = UNION {Pieces(call) : call \in g[n - 1]}
               /\ Reading(fn, x) = g
  BY ReadingsFollow
<1>8. \A n \in 0 .. MaxNesting : \A call \in g[n] : ~OnBound(call)
  BY <1>2 DEF ReachesBound
<1> DEFINE P == {n \in Nat : f[n] \in Calls /\ f[n] \in g[n]}
<1>3. 0 \in P
  BY <1>1, <1>2, CallsAre
<1>4. ASSUME NEW n \in Nat, n < MaxNesting, n \in P PROVE n + 1 \in P
  <2>1. n + 1 \in 1 .. MaxNesting /\ (n + 1) - 1 = n /\ n + 1 \in Nat
    BY <1>4, TintAssumption
  <2>2. f[n + 1] = Stitch(f[n]) /\ g[n + 1] = UNION {Pieces(call) : call \in g[n]}
    BY <1>1, <1>2, <2>1
  <2>4. n \in 0 .. MaxNesting
    BY <1>4, TintAssumption
  <2>3. Stitch(f[n]) \in Calls /\ Stitch(f[n]) \in Pieces(f[n])
    BY <1>4, <1>8, <2>4, StitchIsAPiece
  <2> QED
    BY <1>4, <2>1, <2>2, <2>3
<1> HIDE DEF P
<1>5. MaxNesting \in Nat
  BY TintAssumption
<1>6. 0 .. MaxNesting \subseteq P
  BY <1>3, <1>4, <1>5, CountingUp
<1>7. MaxNesting \in P
  BY <1>5, <1>6
<1> QED
  BY <1>1, <1>2, <1>7 DEF P, Readings

-----------------------------------------------------------------------------
(* The colours of a summary, for any documents.                            *)

\* A component brought between 0 and Full is a share of its exact value.
LEMMA ClampedShares ==
  ASSUME NEW c \in Int, NEW x \in Int, NEW w \in Int, NEW exact, exact = Full * c + x * w
  PROVE  Shares(exact, Clamp01(c + (x * w) \div Full))
<1> DEFINE p == x * w
           q == p \div Full
           v == c + q
<1>1. Full \in Nat \ {0} /\ p \in Int
  BY TintAssumption
<1> HIDE DEF p
<1>2. q \in Int /\ p - Full * q \in 0 .. Full - 1
  BY <1>1, RoundsDown
<1> HIDE DEF q
<1>3. v \in Int /\ exact - Full * v = p - Full * q /\ Full * v \in Int /\ exact \in Int
  BY <1>1, <1>2 DEF p
<1> HIDE DEF v
<1>4. exact - Full * v \in 0 .. Full - 1
  BY <1>2, <1>3
<1>5. Clamp01(v) = IF v < 0 THEN 0 ELSE IF v > Full THEN Full ELSE v
  BY <1>1, <1>3 DEF Clamp01, Least, Most
<1>6. CASE v < 0
  <2>1. Full * v <= 0 - Full
    BY <1>1, <1>3, <1>6
  <2>2. exact < 0
    BY <1>1, <1>3, <1>4, <2>1
  <2> QED
    BY <1>1, <1>5, <1>6, <2>2 DEF Shares, v, q, p
<1>7. CASE v > Full
  <2>1. Full * v >= Full * Full + Full /\ Full * Full \in Int
    BY <1>1, <1>3, <1>7
  <2>2. exact > Full * Full
    BY <1>1, <1>3, <1>4, <2>1
  <2>3. Clamp01(v) = Full
    BY <1>1, <1>3, <1>5, <1>7
  <2> QED
    BY <1>1, <2>2, <2>3 DEF Shares, v, q, p
<1>8. CASE v \in 0 .. Full
  <2>1. Clamp01(v) = v
    BY <1>1, <1>5, <1>8
  <2> QED
    BY <1>4, <1>8, <2>1 DEF Shares, v, q, p
<1> QED
  BY <1>1, <1>3, <1>6, <1>7, <1>8

\* A supported reading evaluated and clamped gives its shares.
LEMMA SupportedGives ==
  ASSUME NEW call \in Calls, Supported(call)
  PROVE  LET values == EvalType2(call.fn, call.x)
         IN  /\ Len(values) = 4 /\ DOMAIN Clamped(values) = 1 .. 4
             /\ Gives(call, Clamped(values))
<1> DEFINE fn == call.fn
           x == OnDomain(fn, call.x)
           values == EvalType2(fn, call.x)
           v == Clamped(values)
<1>1. fn \in Transforms /\ call.x \in Int
  BY CallsAre
<1>2. Domain(fn) /\ fn.c0 \in Seq(Int) /\ fn.c1 \in Seq(Int) /\ Len(fn.c0) = 4 /\ Len(fn.c1) = 4
  BY <1>1, TintAssumption DEF Supported
<1>3. x \in Int
  BY <1>1, <1>2, InDomain
<1>4. EvalType2(fn, call.x) = [i \in DOMAIN fn.c0 |-> fn.c0[i] + (x * (fn.c1[i] - fn.c0[i])) \div Full]
  BY <1>2 DEF EvalType2
<1> HIDE DEF x, fn
<1>5. DOMAIN fn.c0 = 1 .. 4 /\ \A i \in 1 .. 4 : fn.c0[i] \in Int /\ fn.c1[i] \in Int
  <2> DEFINE a == fn.c0
             b == fn.c1
  <2>1. a \in Seq(Int) /\ b \in Seq(Int) /\ Len(a) = 4 /\ Len(b) = 4
    BY <1>2
  <2> HIDE DEF a, b
  <2>2. DOMAIN a = 1 .. 4 /\ DOMAIN b = 1 .. 4
    BY <2>1
  <2>3. \A i \in 1 .. 4 : a[i] \in Int /\ b[i] \in Int
    <3> TAKE i \in 1 .. 4
    <3>1. i \in 1 .. Len(a) /\ i \in 1 .. Len(b)
      BY <2>1
    <3> QED
      BY <2>1, <3>1, ElementOfSeq
  <2> QED
    BY <2>2, <2>3 DEF a, b
<1> DEFINE e == [i \in 1 .. 4 |-> fn.c0[i] + (x * (fn.c1[i] - fn.c0[i])) \div Full]
<1>6. values = e
  BY <1>4, <1>5
<1> HIDE DEF values
<1>7. DOMAIN values = 1 .. 4 /\ Len(values) = 4
  <2>1. DOMAIN e = 1 .. 4
    OBVIOUS
  <2>2. Len(e) = 4
    BY <2>1
  <2> QED
    BY <1>6, <2>1, <2>2
<1>8. v = [i \in 1 .. 4 |-> Clamp01(values[i])]
  BY <1>7 DEF Clamped
<1> HIDE DEF v
<1>9. Len(v) = 4 /\ DOMAIN v = 1 .. 4
  BY <1>8
<1>10. ASSUME NEW i \in 1 .. 4 PROVE Shares(Exactly(fn, i, x), v[i])
  <2> DEFINE c == fn.c0[i]
             w == fn.c1[i] - fn.c0[i]
  <2>1. c \in Int /\ w \in Int
    BY <1>5
  <2>2. v[i] = Clamp01(c + (x * w) \div Full)
    BY <1>6, <1>8
  <2>3. Exactly(fn, i, x) = Full * c + x * w
    BY DEF Exactly
  <2> HIDE DEF c, w
  <2> QED
    BY <1>3, <2>1, <2>2, <2>3, ClampedShares
<1>11. Gives(call, v)
  BY <1>9, <1>10 DEF Gives, fn, x
<1> QED
  BY <1>7, <1>9, <1>11 DEF values, v, fn

\* What extraction makes of a supported separation over CMYK has the colour of a reading.
LEMMA IntentIsFullTint ==
  ASSUME NEW space, space.fn \in Transforms, Readable(space), ~ReachesBound(space.fn, Full)
  PROVE  LET i == SeparationIntent(space)
         IN  Colored(i) /\ IsFullTint(space, Swatch("codex", i))
<1> DEFINE last == LastCall(space.fn, Full)
           values == EvalType2(last.fn, last.x)
           v == Clamped(values)
<1>1. Full \in Int
  BY TintAssumption
<1>0. OverCmyk(space.alt) /\ \A call \in Readings(space.fn, Full) : Supported(call)
  BY DEF Readable
<1>2. last \in Calls /\ last \in Readings(space.fn, Full)
  BY <1>1, LastCallIsRead
<1>3. Supported(last)
  BY <1>0, <1>2
<1> HIDE DEF last
<1>4. Len(values) = 4 /\ DOMAIN v = 1 .. 4 /\ Gives(last, v)
  BY <1>2, <1>3, SupportedGives
<1>5. EvaluateFunction(space.fn, Full) = values
  BY <1>3 DEF EvaluateFunction, Supported, last
<1> HIDE DEF values
<1>6. Family(space.alt, values) = "DeviceCMYK" /\ space.alt.family # "none"
  BY <1>0, <1>4 DEF Family, OverCmyk
<1>7. AltToSwatch(values, space.alt) = Intent(OfCmyk(v), <<>>, v, <<>>)
  BY <1>4, <1>6 DEF AltToSwatch
<1>8. SeparationIntent(space) = Intent(OfCmyk(v), <<>>, v, <<>>)
  BY <1>5, <1>6, <1>7 DEF SeparationIntent
<1> HIDE DEF v
<1>9. SeparationIntent(space).cmyk = v /\ SeparationIntent(space).rgb = OfCmyk(v)
  BY <1>8 DEF Intent
<1>10. v # <<>>
  <2>1. 1 \in DOMAIN v /\ 1 \notin DOMAIN <<>>
    BY <1>4
  <2> QED
    BY <2>1
<1>11. LET swatch == Swatch("codex", SeparationIntent(space))
       IN  swatch.cmyk = v /\ swatch.rgb = OfCmyk(v)
  <2>1. OfCmyk(v) # <<>>
    <3>1. v = [i \in 1 .. 4 |-> v[i]]
      BY <1>4 DEF v, Clamped
    <3>2. v \in Seq({v[1], v[2], v[3], v[4]})
      BY <3>1
    <3> QED
      BY <3>2 DEF OfCmyk
  <2> QED
    BY <1>9, <2>1 DEF Swatch
<1> QED
  BY <1>2, <1>4, <1>9, <1>10, <1>11 DEF Colored, IsFullTint

\* A page's own space: the first of its name.
Own(all, i) == ~\E j \in 1 .. i - 1 : all[j].id = all[i].id

\* The colour world is the pages' own spaces that are not broken, in their order.
WorldOf(place, world, all) ==
    /\ place \in [1 .. Len(world) -> 1 .. Len(all)]
    /\ \A m, n \in 1 .. Len(world) : m < n => place[m] < place[n]
    /\ \A m \in 1 .. Len(world) : world[m] = all[place[m]] /\ Own(all, place[m])
    /\ \A i \in 1 .. Len(all) : Own(all, i) /\ all[i].space.family # "broken" =>
           \E m \in 1 .. Len(world) : place[m] = i

LEMMA WorldIs ==
  ASSUME NEW doc \in SpotDocs
  PROVE  LET all == FlattenSeq(doc.pages)
             world == ColorWorld(doc)
         IN  /\ all \in Seq(NamedSpaces) /\ world \in Seq(NamedSpaces)
             /\ \E place : WorldOf(place, world, all)
<1> DEFINE all == FlattenSeq(doc.pages)
           L == Len(all)
           sound == {i \in 1 .. L : Own(all, i) /\ all[i].space.family # "broken"}
           numbers == [i \in 1 .. L |-> i]
           places == Those(numbers, sound)
           world == ColorWorld(doc)
<1>1. all \in Seq(NamedSpaces)
  BY DocAssumption, FlattenJoins
<1> HIDE DEF all
<1>2. L \in Nat /\ DOMAIN all = 1 .. L
  BY <1>1
<1>3. {i \in {i \in DOMAIN all : \A j \in 1 .. i - 1 : all[j].id # all[i].id} :
          all[i].space.family # "broken"} = sound
  BY <1>2 DEF Own
<1>4. world = [n \in DOMAIN places |-> all[places[n]]]
  <2>1. ColorWorld(doc) =
           [n \in DOMAIN Those([i \in DOMAIN all |-> i],
                               {i \in {i \in DOMAIN all : \A j \in 1 .. i - 1 : all[j].id # all[i].id} :
                                   all[i].space.family # "broken"}) |->
               all[Those([i \in DOMAIN all |-> i],
                         {i \in {i \in DOMAIN all : \A j \in 1 .. i - 1 : all[j].id # all[i].id} :
                             all[i].space.family # "broken"})[n]]]
    BY Zenon DEF ColorWorld, all
  <2> HIDE DEF sound
  <2> QED
    BY <1>2, <1>3, <2>1
<1> HIDE DEF world
<1> USE <1>2
<1>5. numbers \in Seq(1 .. L) /\ Len(numbers) = L
  <2>1. numbers \in [1 .. L -> 1 .. L]
    OBVIOUS
  <2> QED
    BY <2>1
<1>6. \A i \in 1 .. L : numbers[i] = i
  OBVIOUS
<1> HIDE DEF numbers, L
<1>7. PICK place : ReadAt(place, places, numbers, sound)
  BY <1>5, ThoseReadPlaces
<1>8. places \in Seq(1 .. L)
  BY <1>5, ThoseReadPlaces
<1> HIDE DEF places
<1> DEFINE c == Len(places)
<1>9. c \in Nat /\ DOMAIN places = 1 .. c
  BY <1>8
<1>10. {i \in 1 .. L : numbers[i] \in sound} = sound
  BY <1>6 DEF sound, L
<1>11. /\ place \in [1 .. c -> sound] /\ {place[m] : m \in 1 .. c} = sound
       /\ \A m, n \in 1 .. c : m < n => place[m] < place[n]
       /\ \A m \in 1 .. c : places[m] = numbers[place[m]]
  <2> DEFINE T == {i \in 1 .. L : numbers[i] \in sound}
  <2>1. /\ place \in [1 .. c -> T] /\ Increasing(place, T)
        /\ \A m \in 1 .. c : places[m] = numbers[place[m]]
    BY <1>5, <1>7 DEF ReadAt, ReadUpTo
  <2>4. T = sound
    BY <1>10
  <2> HIDE DEF sound, c, T
  <2>2. /\ place \in [1 .. c -> sound] /\ Increasing(place, sound)
        /\ \A m \in 1 .. c : places[m] = numbers[place[m]]
    BY <2>1, <2>4
  <2>3. DOMAIN place = 1 .. c
    BY <2>2
  <2> QED
    BY <2>2, <2>3 DEF Increasing
<1>12. \A m \in 1 .. c : place[m] \in sound /\ places[m] = place[m]
  BY <1>6, <1>11 DEF sound
<1>13. world = [n \in 1 .. c |-> all[places[n]]]
  BY <1>4, <1>9
<1>14. /\ DOMAIN world = 1 .. c /\ Len(world) = c
       /\ \A m \in 1 .. c : world[m] = all[place[m]]
  BY <1>9, <1>12, <1>13
<1>15. \A i \in sound : i \in 1 .. L /\ Own(all, i) /\ all[i] \in NamedSpaces
  BY <1>1 DEF sound, L
<1>16. world \in Seq(NamedSpaces)
  <2>1. \A m \in 1 .. c : world[m] \in NamedSpaces
    BY <1>12, <1>14, <1>15
  <2>2. world = [m \in 1 .. c |-> world[m]]
    BY <1>13
  <2> QED
    BY <1>9, <2>1, <2>2
<1>17. WorldOf(place, world, all)
  <2>1. place \in [1 .. c -> 1 .. L]
    BY <1>11, <1>15
  <2>2. \A i \in 1 .. L : Own(all, i) /\ all[i].space.family # "broken" => \E m \in 1 .. c : place[m] = i
    BY <1>11 DEF sound
  <2>3. \A m \in 1 .. c : world[m] = all[place[m]] /\ Own(all, place[m])
    BY <1>12, <1>14, <1>15
  <2> HIDE DEF c, sound
  <2> QED
    BY <1>11, <1>14, <2>1, <2>2, <2>3 DEF WorldOf, L
<1> QED
  BY <1>1, <1>16, <1>17 DEF all, world

\* The spot colorants of a document's spaces.
SpotInks == {Ink(n, i) : n \in InkNames,
                         i \in {NoIntent} \cup {SeparationIntent(e.space) : e \in NamedSpaces}}

LEMMA InkIs == \A n, i : Ink(n, i).name = n /\ Ink(n, i).intent = i
BY DEF Ink

LEMMA ColorantsAre ==
  ASSUME NEW entry \in NamedSpaces
  PROVE  LET space == entry.space
             inks == Colorants(space)
         IN  /\ inks \in Seq(SpotInks)
             /\ \A c \in ToSet(inks) : c.name \in CarriedBy(space)
             /\ \A n \in CarriedBy(space) : \E c \in ToSet(inks) : c.name = n
             /\ space.family = "Separation" =>
                   \A c \in ToSet(inks) : c.intent = SeparationIntent(space)
<1> DEFINE space == entry.space
           inks == Colorants(space)
<1>1. CASE space.family = "Separation"
  <2> DEFINE one == Ink(space.names[1], SeparationIntent(space))
  <2>1. inks = <<one>> /\ CarriedBy(space) = {space.names[1]}
    BY <1>1 DEF Colorants, CarriedBy
  <2>2. space.names[1] \in InkNames
    BY <1>1, DocAssumption
  <2>3. one \in SpotInks
    BY <2>2 DEF SpotInks
  <2>4. one.name = space.names[1] /\ one.intent = SeparationIntent(space)
    BY InkIs
  <2> HIDE DEF one
  <2>5. <<one>> \in Seq(SpotInks) /\ ToSet(<<one>>) = {one}
    BY <2>3 DEF ToSet
  <2> QED
    BY <2>1, <2>4, <2>5
<1>2. CASE space.family = "DeviceN"
  <2> DEFINE T == ToSet(space.names) \ {"All", "None"}
             names == Those(space.names, T)
             S == InkNames \cup {"All", "None"}
  <2>1. space.names \in Seq(S)
    BY <1>2, DocAssumption
  <2>2. T \subseteq InkNames
    BY <2>1 DEF ToSet
  <2>3. inks = [i \in DOMAIN names |-> Ink(names[i], NoIntent)] /\ CarriedBy(space) = T
    BY <1>2 DEF Colorants, CarriedBy
  <2> HIDE DEF S, T, inks
  <2>4. names \in Seq(S) /\ ToSet(names) = ToSet(space.names) \cap T
    BY <2>1, ThoseAreInOrder
  <2>5. ToSet(names) = T
    BY <2>4 DEF T
  <2> HIDE DEF names
  <2>6. Len(names) \in Nat /\ DOMAIN names = 1 .. Len(names)
    BY <2>4
  <2>7. \A i \in 1 .. Len(names) : names[i] \in T
    BY <2>5, <2>6 DEF ToSet
  <2>8. /\ inks = [i \in 1 .. Len(names) |-> Ink(names[i], NoIntent)]
        /\ DOMAIN inks = 1 .. Len(names)
    BY <2>3, <2>6
  <2>9. \A i \in 1 .. Len(names) : inks[i] = Ink(names[i], NoIntent) /\ inks[i].name = names[i]
    BY <2>8, InkIs
  <2>10. inks \in Seq(SpotInks)
    <3>1. \A i \in 1 .. Len(names) : Ink(names[i], NoIntent) \in SpotInks
      <4>1. \A n \in InkNames : Ink(n, NoIntent) \in SpotInks
        BY DEF SpotInks
      <4> QED
        BY <2>2, <2>7, <4>1
    <3> QED
      BY <2>6, <2>8, <3>1
  <2>11. \A c \in ToSet(inks) : c.name \in T
    BY <2>7, <2>8, <2>9 DEF ToSet
  <2>12. \A n \in T : \E c \in ToSet(inks) : c.name = n
    <3> TAKE n \in T
    <3>1. PICK i \in 1 .. Len(names) : names[i] = n
      BY <2>5, <2>6 DEF ToSet
    <3>2. inks[i] \in ToSet(inks)
      BY <2>8 DEF ToSet
    <3> QED
      BY <2>9, <3>1, <3>2
  <2> QED
    BY <1>2, <2>3, <2>10, <2>11, <2>12 DEF inks
<1>3. CASE space.family \notin {"Separation", "DeviceN"}
  <2>1. inks = <<>> /\ CarriedBy(space) = {}
    BY <1>3 DEF Colorants, CarriedBy
  <2>2. ToSet(<<>>) = {}
    BY DEF ToSet
  <2> QED
    BY <1>3, <2>1, <2>2
<1> QED
  BY <1>1, <1>2, <1>3

\* Where the inks of a summary come from: the space at which each one was found, the analysis
\* standing behind all spaces.
Sourced(source, inks, doc) ==
    LET all == FlattenSeq(doc.pages)
        N == Len(all) + 1
    IN  /\ source \in [1 .. Len(inks) -> 1 .. N]
        /\ \A m, n \in 1 .. Len(inks) : m <= n => source[m] <= source[n]
        /\ \A m \in 1 .. Len(inks) :
              IF source[m] = N THEN inks[m].name \in ToSet(doc.analysis)
              ELSE LET space == all[source[m]].space
                   IN  /\ Own(all, source[m]) /\ inks[m].name \in CarriedBy(space)
                       /\ space.family = "Separation" => inks[m].intent = SeparationIntent(space)
        /\ \A i \in 1 .. Len(all) : Own(all, i) =>
              \A n \in CarriedBy(all[i].space) :
                  \E m \in 1 .. Len(inks) : source[m] = i /\ inks[m].name = n
        /\ \A n \in ToSet(doc.analysis) : \E m \in 1 .. Len(inks) : inks[m].name = n

LEMMA ItemIs ==
  \A f, n, h, i, e : LET item == Item(f, n, h, i, e)
                     IN  item.name = n /\ item.host = h /\ item.intent = i /\ item.extra = e
BY DEF Item

\* The colorants of the colour world, joined, come from the pages' own spaces.
FoundIn(at, flat, all) ==
    /\ at \in [1 .. Len(flat) -> 1 .. Len(all)]
    /\ \A m, n \in 1 .. Len(flat) : m <= n => at[m] <= at[n]
    /\ \A m \in 1 .. Len(flat) :
          LET space == all[at[m]].space
          IN  /\ Own(all, at[m]) /\ flat[m].name \in CarriedBy(space)
              /\ space.family = "Separation" => flat[m].intent = SeparationIntent(space)
    /\ \A i \in 1 .. Len(all) : Own(all, i) =>
          \A n \in CarriedBy(all[i].space) : \E m \in 1 .. Len(flat) : at[m] = i /\ flat[m].name = n

LEMMA WorldInks ==
  ASSUME NEW doc \in SpotDocs, NEW flat,
         flat = FlattenSeq([i \in DOMAIN ColorWorld(doc) |-> Colorants(ColorWorld(doc)[i].space)])
  PROVE  flat \in Seq(SpotInks) /\ \E at : FoundIn(at, flat, FlattenSeq(doc.pages))
<1> DEFINE all == FlattenSeq(doc.pages)
           world == ColorWorld(doc)
           K == Len(world)
           ss == [i \in DOMAIN world |-> Colorants(world[i].space)]
           c == Len(flat)
           L == Len(all)
<1>1. all \in Seq(NamedSpaces) /\ world \in Seq(NamedSpaces)
  BY WorldIs
<1>2. PICK place : WorldOf(place, world, all)
  BY WorldIs
<1>3. flat = FlattenSeq(ss)
  OBVIOUS
<1> HIDE DEF all, world
<1>4. K \in Nat /\ DOMAIN world = 1 .. K /\ L \in Nat /\ DOMAIN all = 1 .. L
  BY <1>1
<1>5. \A i \in 1 .. K : world[i] \in NamedSpaces
  BY <1>1
<1>6. ss \in Seq(Seq(SpotInks)) /\ Len(ss) = K /\ \A i \in 1 .. K : ss[i] = Colorants(world[i].space)
  <2>1. \A i \in 1 .. K : Colorants(world[i].space) \in Seq(SpotInks)
    BY <1>5, ColorantsAre
  <2>2. ss = [i \in 1 .. K |-> Colorants(world[i].space)]
    BY <1>4
  <2> HIDE DEF ss, K
  <2>3. ss \in Seq(Seq(SpotInks))
    BY <1>4, <2>1, <2>2
  <2>4. DOMAIN ss = 1 .. K
    BY <2>2
  <2>5. Len(ss) = K
    BY <1>4, <2>3, <2>4
  <2> QED
    BY <2>2, <2>3, <2>5
<1> HIDE DEF ss
<1>7. flat \in Seq(SpotInks) /\ \E from : ComesFrom(from, flat, ss, K)
  BY <1>3, <1>6, FlattenJoins
<1>8. PICK from : ComesFrom(from, flat, ss, K)
  BY <1>7
<1>9. /\ from \in [1 .. c -> 1 .. K] /\ c \in Nat
      /\ \A m, n \in 1 .. c : m <= n => from[m] <= from[n]
      /\ \A m \in 1 .. c : flat[m] \in ToSet(ss[from[m]])
      /\ \A i \in 1 .. K : \A x \in ToSet(ss[i]) : \E m \in 1 .. c : from[m] = i /\ flat[m] = x
  <2>1. c \in Nat
    BY <1>7
  <2> QED
    BY <1>8, <2>1, Zenon DEF ComesFrom
<1>10. /\ place \in [1 .. K -> 1 .. L]
       /\ \A m, n \in 1 .. K : m < n => place[m] < place[n]
       /\ \A m \in 1 .. K : world[m] = all[place[m]] /\ Own(all, place[m])
       /\ \A i \in 1 .. L : Own(all, i) /\ all[i].space.family # "broken" =>
             \E m \in 1 .. K : place[m] = i
  BY <1>2 DEF WorldOf
<1> HIDE DEF c, K, L
<1> DEFINE at == [m \in 1 .. c |-> place[from[m]]]
<1>11. /\ \A m \in 1 .. c : from[m] \in 1 .. K /\ place[from[m]] \in 1 .. L
       /\ \A m \in 1 .. c : at[m] = place[from[m]]
  BY <1>9, <1>10
<1>12. at \in [1 .. c -> 1 .. L]
  BY <1>11
<1> HIDE DEF at
<1>13. \A m, n \in 1 .. c : m <= n => at[m] <= at[n]
  <2> SUFFICES ASSUME NEW m \in 1 .. c, NEW n \in 1 .. c, m <= n PROVE at[m] <= at[n]
    OBVIOUS
  <2>1. from[m] <= from[n] /\ from[m] \in 1 .. K /\ from[n] \in 1 .. K
    BY <1>9, <1>11
  <2>2. from[m] = from[n] \/ from[m] < from[n]
    BY <1>4, <2>1
  <2>3. at[m] = place[from[m]] /\ at[n] = place[from[n]] /\ at[m] \in 1 .. L /\ at[n] \in 1 .. L
    BY <1>11
  <2>4. at[m] = at[n] \/ at[m] < at[n]
    BY <1>10, <2>1, <2>2, <2>3
  <2> QED
    BY <1>4, <2>3, <2>4
<1>14. ASSUME NEW m \in 1 .. c
       PROVE  LET space == all[at[m]].space
              IN  /\ Own(all, at[m]) /\ flat[m].name \in CarriedBy(space)
                  /\ space.family = "Separation" => flat[m].intent = SeparationIntent(space)
  <2>1. from[m] \in 1 .. K /\ at[m] = place[from[m]]
    BY <1>11
  <2>2. world[from[m]] = all[at[m]] /\ Own(all, at[m]) /\ world[from[m]] \in NamedSpaces
    BY <1>5, <1>10, <2>1
  <2>3. flat[m] \in ToSet(Colorants(all[at[m]].space))
    BY <1>6, <1>9, <2>1, <2>2
  <2> QED
    BY <2>2, <2>3, ColorantsAre
<1>15. ASSUME NEW i \in 1 .. L, Own(all, i), NEW n \in CarriedBy(all[i].space)
       PROVE  \E m \in 1 .. c : at[m] = i /\ flat[m].name = n
  <2>1. all[i].space.family # "broken"
    BY <1>15 DEF CarriedBy
  <2>2. PICK k \in 1 .. K : place[k] = i
    BY <1>10, <1>15, <2>1
  <2>3. world[k] = all[i] /\ world[k] \in NamedSpaces
    BY <1>5, <1>10, <2>2
  <2>4. PICK x \in ToSet(Colorants(all[i].space)) : x.name = n
    BY <2>3, ColorantsAre
  <2>5. PICK m \in 1 .. c : from[m] = k /\ flat[m] = x
    <3>1. ss[k] = Colorants(all[i].space)
      BY <1>6, <2>3
    <3>2. \A y \in ToSet(ss[k]) : \E m \in 1 .. c : from[m] = k /\ flat[m] = y
      BY <1>9
    <3> QED
      BY <3>1, <3>2
  <2> QED
    BY <1>11, <2>2, <2>4, <2>5
<1>16. FoundIn(at, flat, all)
  BY <1>12, <1>13, <1>14, <1>15, Zenon DEF FoundIn, c, L
<1> QED
  BY <1>7, <1>16 DEF all

LEMMA JoinedAt ==
  ASSUME NEW S, NEW u \in Seq(S), NEW v \in Seq(S), NEW w, w = u \o v
  PROVE  /\ DOMAIN w = 1 .. Len(u) + Len(v)
         /\ \A m \in 1 .. Len(u) : w[m] = u[m]
         /\ \A m \in 1 .. Len(v) : w[Len(u) + m] = v[m]
OBVIOUS

\* The inks of a document: what is to be looked up has no host colour and no overrides.
LEMMA InksAre ==
  ASSUME NEW doc \in SpotDocs
  PROVE  LET inks == InksOf(doc)
         IN  /\ inks \in Seq(ToSet(inks))
             /\ \A m \in 1 .. Len(inks) : inks[m].host = NoIntent
             /\ \E source : Sourced(source, inks, doc)
<1> DEFINE all == FlattenSeq(doc.pages)
           L == Len(all)
           flat == FlattenSeq([i \in DOMAIN ColorWorld(doc) |-> Colorants(ColorWorld(doc)[i].space)])
           found == [i \in DOMAIN doc.analysis |-> Ink(doc.analysis[i], NoIntent)]
           both == flat \o found
           inks == InksOf(doc)
           c == Len(flat)
           d == Len(doc.analysis)
           N == L + 1
<1>0. flat = FlattenSeq([i \in DOMAIN ColorWorld(doc) |-> Colorants(ColorWorld(doc)[i].space)])
  OBVIOUS
<1> HIDE DEF flat
<1>1. flat \in Seq(SpotInks)
  BY <1>0, WorldInks
<1>20. PICK at : FoundIn(at, flat, all)
  BY <1>0, WorldInks
<1>2. /\ at \in [1 .. c -> 1 .. L]
      /\ \A m, n \in 1 .. c : m <= n => at[m] <= at[n]
      /\ \A m \in 1 .. c :
            LET space == all[at[m]].space
            IN  /\ Own(all, at[m]) /\ flat[m].name \in CarriedBy(space)
                /\ space.family = "Separation" => flat[m].intent = SeparationIntent(space)
      /\ \A i \in 1 .. L : Own(all, i) =>
            \A n \in CarriedBy(all[i].space) : \E m \in 1 .. c : at[m] = i /\ flat[m].name = n
  BY <1>20, Zenon DEF FoundIn
<1>3. doc.analysis \in Seq(InkNames)
  BY DocAssumption
<1>4. inks = [i \in DOMAIN both |-> Item(IF i <= Len(flat) THEN "page" ELSE "analysis",
                                          both[i].name, NoIntent, both[i].intent, NoExtra)]
  BY Zenon DEF InksOf, flat
<1>5. all \in Seq(NamedSpaces)
  BY WorldIs
<1> HIDE DEF all, flat, inks
<1>6. c \in Nat /\ d \in Nat /\ L \in Nat /\ DOMAIN doc.analysis = 1 .. d
  BY <1>1, <1>3, <1>5
<1>7. found \in Seq(SpotInks) /\ Len(found) = d
      /\ \A i \in 1 .. d : found[i].name = doc.analysis[i]
  <2>1. \A i \in 1 .. d : doc.analysis[i] \in InkNames
    BY <1>3
  <2>2. \A n \in InkNames : Ink(n, NoIntent) \in SpotInks
    BY DEF SpotInks
  <2>3. found = [i \in 1 .. d |-> Ink(doc.analysis[i], NoIntent)]
    BY <1>6
  <2> HIDE DEF found, d
  <2>4. found \in Seq(SpotInks)
    BY <1>6, <2>1, <2>2, <2>3
  <2>5. Len(found) = d
    BY <1>6, <2>3, <2>4
  <2> QED
    BY <2>3, <2>4, <2>5, InkIs
<1> HIDE DEF found, L, c, d
<1>8. /\ DOMAIN both = 1 .. c + d
      /\ \A m \in 1 .. c : both[m] = flat[m]
      /\ \A m \in 1 .. d : both[c + m] = found[m]
  <2>1. Len(flat) = c
    BY DEF c
  <2>2. /\ DOMAIN both = 1 .. Len(flat) + Len(found)
        /\ \A m \in 1 .. Len(flat) : both[m] = flat[m]
        /\ \A m \in 1 .. Len(found) : both[Len(flat) + m] = found[m]
    <3>1. both = flat \o found
      OBVIOUS
    <3> HIDE DEF both
    <3> QED
      BY <1>1, <1>7, <3>1, JoinedAt
  <2> HIDE DEF both
  <2> QED
    BY <1>7, <2>1, <2>2
<1> HIDE DEF both
<1>9. inks = [i \in 1 .. c + d |-> Item(IF i <= Len(flat) THEN "page" ELSE "analysis",
                                        both[i].name, NoIntent, both[i].intent, NoExtra)]
  BY <1>4, <1>8
<1>10. c + d \in Nat /\ DOMAIN inks = 1 .. c + d
  BY <1>6, <1>9
<1>11. inks \in Seq(ToSet(inks)) /\ Len(inks) = c + d
  <2>1. \A i \in 1 .. c + d : inks[i] \in ToSet(inks)
    BY <1>10 DEF ToSet
  <2>2. inks = [i \in 1 .. c + d |-> inks[i]]
    BY <1>9
  <2>3. inks \in Seq(ToSet(inks))
    BY <1>10, <2>1, <2>2
  <2> QED
    BY <1>10, <2>3
<1>12. \A m \in 1 .. c + d : /\ inks[m].name = both[m].name /\ inks[m].host = NoIntent
                             /\ inks[m].intent = both[m].intent
  <2>1. \A m \in 1 .. c + d : inks[m] = Item(IF m <= Len(flat) THEN "page" ELSE "analysis",
                                           both[m].name, NoIntent, both[m].intent, NoExtra)
    BY <1>9
  <2> QED
    BY <2>1, ItemIs
<1>13. /\ \A m \in 1 .. c + d : m \in 1 .. c \/ (~(m <= c) /\ m - c \in 1 .. d /\ c + (m - c) = m)
       /\ \A m \in 1 .. c : m \in 1 .. c + d /\ m <= c
       /\ \A m \in 1 .. d : c + m \in 1 .. c + d
       /\ \A i \in 1 .. L : i \in 1 .. N /\ i # N /\ i <= N
       /\ N \in 1 .. N
  BY <1>6
<1> DEFINE source == [m \in 1 .. c + d |-> IF m <= c THEN at[m] ELSE N]
<1>14. /\ \A m \in 1 .. c : source[m] = at[m] /\ at[m] \in 1 .. L /\ source[m] # N
       /\ \A m \in 1 .. c + d : ~(m <= c) => source[m] = N
  <2>1. \A m \in 1 .. c : at[m] \in 1 .. L
    BY <1>2
  <2> HIDE DEF N
  <2> QED
    BY <1>13, <2>1
<1>15. source \in [1 .. c + d -> 1 .. N]
  <2> HIDE DEF N
  <2>1. \A m \in 1 .. c + d : source[m] \in 1 .. N
    BY <1>13, <1>14
  <2>2. source = [m \in 1 .. c + d |-> source[m]]
    OBVIOUS
  <2> QED
    BY <2>1, <2>2
<1> HIDE DEF source
<1>16. \A m, n \in 1 .. c + d : m <= n => source[m] <= source[n]
  <2> SUFFICES ASSUME NEW m \in 1 .. c + d, NEW n \in 1 .. c + d, m <= n
               PROVE  source[m] <= source[n]
    OBVIOUS
  <2>1. CASE n <= c
    <3>1. m \in 1 .. c /\ n \in 1 .. c
      BY <1>6, <2>1
    <3> QED
      BY <1>2, <1>14, <3>1
  <2>2. CASE ~(n <= c)
    <3>1. source[n] = N /\ source[m] \in 1 .. N
      BY <1>14, <1>15, <2>2
    <3> QED
      BY <1>6, <3>1
  <2> QED
    BY <2>1, <2>2
<1>17. ASSUME NEW m \in 1 .. c + d
       PROVE  IF source[m] = N THEN inks[m].name \in ToSet(doc.analysis)
              ELSE LET space == all[source[m]].space
                   IN  /\ Own(all, source[m]) /\ inks[m].name \in CarriedBy(space)
                       /\ space.family = "Separation" => inks[m].intent = SeparationIntent(space)
  <2>1. CASE m \in 1 .. c
    <3>1. inks[m].name = flat[m].name /\ inks[m].intent = flat[m].intent
      BY <1>8, <1>12, <2>1
    <3>2. source[m] = at[m] /\ source[m] # N
      BY <1>14, <2>1
    <3> QED
      BY <1>2, <2>1, <3>1, <3>2
  <2>2. CASE ~(m <= c) /\ m - c \in 1 .. d /\ c + (m - c) = m
    <3>1. inks[m].name = doc.analysis[m - c] /\ source[m] = N
      BY <1>7, <1>8, <1>12, <1>14, <2>2
    <3>2. doc.analysis[m - c] \in ToSet(doc.analysis)
      BY <1>6, <2>2 DEF ToSet
    <3> QED
      BY <3>1, <3>2
  <2> QED
    BY <1>13, <2>1, <2>2
<1>18. ASSUME NEW i \in 1 .. L, Own(all, i), NEW n \in CarriedBy(all[i].space)
       PROVE  \E m \in 1 .. c + d : source[m] = i /\ inks[m].name = n
  <2>1. PICK m \in 1 .. c : at[m] = i /\ flat[m].name = n
    BY <1>2, <1>18
  <2>2. m \in 1 .. c + d /\ source[m] = i /\ inks[m].name = n
    BY <1>8, <1>12, <1>13, <1>14, <2>1
  <2> QED
    BY <2>2
<1>19. ASSUME NEW n \in ToSet(doc.analysis) PROVE \E m \in 1 .. c + d : inks[m].name = n
  <2>1. PICK i \in 1 .. d : doc.analysis[i] = n
    BY <1>6 DEF ToSet
  <2>2. c + i \in 1 .. c + d /\ inks[c + i].name = n
    BY <1>7, <1>8, <1>12, <1>13, <2>1
  <2> QED
    BY <2>2
<1>21. Sourced(source, inks, doc)
  <2>1. 1 .. Len(inks) = 1 .. c + d
    BY <1>11
  <2>2. source \in [1 .. Len(inks) -> 1 .. N]
    BY <1>11, <1>15
  <2>3. \A m, n \in 1 .. Len(inks) : m <= n => source[m] <= source[n]
    BY <1>16, <2>1
  <2>4. \A m \in 1 .. Len(inks) :
           IF source[m] = N THEN inks[m].name \in ToSet(doc.analysis)
           ELSE LET space == all[source[m]].space
                IN  /\ Own(all, source[m]) /\ inks[m].name \in CarriedBy(space)
                    /\ space.family = "Separation" => inks[m].intent = SeparationIntent(space)
    BY <1>17, <2>1
  <2>5. ASSUME NEW i \in 1 .. L, Own(all, i), NEW n \in CarriedBy(all[i].space)
        PROVE  \E m \in 1 .. Len(inks) : source[m] = i /\ inks[m].name = n
    <3>1. PICK m \in 1 .. c + d : source[m] = i /\ inks[m].name = n
      BY <1>18, <2>5
    <3> QED
      BY <2>1, <3>1
  <2>6. ASSUME NEW n \in ToSet(doc.analysis) PROVE \E m \in 1 .. Len(inks) : inks[m].name = n
    BY <1>19, <2>1, <2>6
  <2> QED
    BY <2>2, <2>3, <2>4, <2>5, <2>6, Zenon DEF Sourced, all, L
<1> QED
  BY <1>11, <1>12, <1>21 DEF inks

-----------------------------------------------------------------------------
(* The invariant of a summary.                                             *)

Named(inks, m) == Lowered[inks[m].name]

\* The first n inks are done: each is shown, once, as its first mention was; and a colour the
\* document itself gives is shown as it is.
Through(inks, shown, n) ==
    /\ n \in 0 .. Len(inks) /\ shown \in Seq(ToSet(shown))
    /\ \A m \in 1 .. n : \E k \in 1 .. Len(shown) : Named(shown, k) = Named(inks, m)
    /\ \A k \in 1 .. Len(shown) : \E m \in 1 .. n :
          /\ shown[k].name = inks[m].name
          /\ \A l \in 1 .. m - 1 : Named(inks, l) # Named(inks, m)
          /\ Colored(inks[m].intent) => shown[k].swatch = Swatch("codex", inks[m].intent)
    /\ \A i, k \in 1 .. Len(shown) : Named(shown, i) = Named(shown, k) => i = k

\* What is left is the inks behind the first n.
Left(inks, todo, n) ==
    /\ todo \in Seq(ToSet(inks)) /\ Len(todo) = Len(inks) - n
    /\ \A i \in 1 .. Len(todo) : todo[i] = inks[n + i]

\* The worker is n inks into a document; it asks only for an ink without a colour, that is
\* not shown yet.
Progress(j, n) ==
    LET inks == InksOf(j.doc[1])
    IN  /\ j.doc[1] \in SpotDocs
        /\ Left(inks, j.todo, n) /\ Through(inks, j.shown, n)
        /\ j.doing = "ask" => /\ j.todo # <<>> /\ ~Colored(Head(j.todo).intent)
                              /\ ~Repeated(j)

SummaryInv ==
    /\ painter = [w \in SpotWorkers |-> painter[w]]
    /\ \A w \in SpotWorkers :
          Paints(painter[w]) /\ (painter[w].doc # <<>> => \E n : Progress(painter[w], n))

\* The head of what is left is the next ink.
LEMMA HeadIsNext ==
  ASSUME NEW inks, inks \in Seq(ToSet(inks)), NEW n, n \in 0 .. Len(inks), NEW todo,
         Left(inks, todo, n), todo # <<>>
  PROVE  /\ n + 1 \in 0 .. Len(inks) /\ n + 1 \in 1 .. Len(inks)
         /\ Head(todo) = inks[n + 1] /\ Left(inks, Tail(todo), n + 1)
<1> DEFINE S == ToSet(inks)
           L == Len(inks)
           c == Len(todo)
           t == Tail(todo)
<1>1. /\ todo \in Seq(S) /\ c = L - n /\ L \in Nat /\ c \in Nat /\ n \in Nat /\ n <= L
      /\ \A i \in 1 .. c : todo[i] = inks[n + i]
  BY DEF Left
<1> HIDE DEF S, L
<1>2. c # 0
  BY <1>1
<1>3. t \in Seq(S) /\ Len(t) = c - 1 /\ Head(todo) = todo[1] /\ \A i \in 1 .. c - 1 : t[i] = todo[i + 1]
  BY <1>1, <1>2
<1> HIDE DEF t, c
<1>4. n + 1 \in 0 .. L /\ n + 1 \in 1 .. L /\ c - 1 = L - (n + 1) /\ 1 \in 1 .. c
  BY <1>1, <1>2
<1>5. \A i \in 1 .. c - 1 : t[i] = inks[(n + 1) + i]
  <2> TAKE i \in 1 .. c - 1
  <2>1. i + 1 \in 1 .. c /\ n + (i + 1) = (n + 1) + i
    BY <1>1
  <2> QED
    BY <1>1, <1>3, <2>1
<1>6. Left(inks, t, n + 1)
  BY <1>3, <1>4, <1>5 DEF Left, S, L
<1> QED
  BY <1>1, <1>3, <1>4, <1>6 DEF t, L

\* An ink that is shown already adds nothing.
LEMMA DoneRepeated ==
  ASSUME NEW inks, NEW shown, NEW n, Through(inks, shown, n), n + 1 \in 0 .. Len(inks),
         \E k \in 1 .. Len(shown) : Named(shown, k) = Named(inks, n + 1)
  PROVE  Through(inks, shown, n + 1)
<1>1. n \in Int /\ n >= 0
  BY DEF Through
<1>2. \A m \in 1 .. n + 1 : m \in 1 .. n \/ m = n + 1
  BY <1>1
<1>3. \A m \in 1 .. n : m \in 1 .. n + 1
  BY <1>1
<1>4. \A m \in 1 .. n + 1 : \E k \in 1 .. Len(shown) : Named(shown, k) = Named(inks, m)
  BY <1>2 DEF Through
<1>5. \A k \in 1 .. Len(shown) : \E m \in 1 .. n + 1 :
          /\ shown[k].name = inks[m].name
          /\ \A l \in 1 .. m - 1 : Named(inks, l) # Named(inks, m)
          /\ Colored(inks[m].intent) => shown[k].swatch = Swatch("codex", inks[m].intent)
  <2> TAKE k \in 1 .. Len(shown)
  <2>1. PICK m \in 1 .. n :
          /\ shown[k].name = inks[m].name
          /\ \A l \in 1 .. m - 1 : Named(inks, l) # Named(inks, m)
          /\ Colored(inks[m].intent) => shown[k].swatch = Swatch("codex", inks[m].intent)
    BY DEF Through
  <2> QED
    BY <1>3, <2>1
<1> QED
  BY <1>4, <1>5, Zenon DEF Through

\* An ink that is not shown yet is added behind the others.
LEMMA DoneShown ==
  ASSUME NEW inks, NEW shown, NEW n, Through(inks, shown, n), n + 1 \in 0 .. Len(inks),
         ~\E k \in 1 .. Len(shown) : Named(shown, k) = Named(inks, n + 1),
         NEW swatch, Colored(inks[n + 1].intent) => swatch = Swatch("codex", inks[n + 1].intent),
         NEW more, more = Append(shown, [name |-> inks[n + 1].name, swatch |-> swatch])
  PROVE  Through(inks, more, n + 1)
<1> DEFINE e == [name |-> inks[n + 1].name, swatch |-> swatch]
           c == Len(shown)
<1>0. e.name = inks[n + 1].name /\ e.swatch = swatch
  OBVIOUS
<1>6. shown \in Seq(ToSet(shown)) /\ more = Append(shown, e)
  BY DEF Through
<1> HIDE DEF e
<1>1. n \in Int /\ n >= 0 /\ c \in Nat
  BY <1>6 DEF Through
<1>2. /\ \A m \in 1 .. n + 1 : m \in 1 .. n \/ m = n + 1
      /\ \A m \in 1 .. n : m \in 1 .. n + 1 /\ m # n + 1
      /\ n + 1 \in 1 .. n + 1
      /\ \A k \in 1 .. c + 1 : k \in 1 .. c \/ k = c + 1
      /\ \A k \in 1 .. c : k \in 1 .. c + 1
      /\ c + 1 \in 1 .. c + 1
      /\ \A l \in 1 .. (n + 1) - 1 : l \in 1 .. n
  BY <1>1
<1>3. /\ Len(more) = c + 1 /\ more[c + 1] = e /\ \A k \in 1 .. c : more[k] = shown[k]
      /\ more \in Seq(ToSet(more))
  <2>1. Append(shown, e) \in Seq(ToSet(shown) \cup {e})
    BY <1>6, ToSetAppended
  <2>2. more \in Seq(ToSet(more))
    BY <1>6, <2>1, SeqOfItsOwn
  <2> QED
    BY <1>6, <2>2
<1> HIDE DEF c
<1>4. /\ \A k \in 1 .. c : Named(more, k) = Named(shown, k)
      /\ Named(more, c + 1) = Named(inks, n + 1)
  BY <1>0, <1>3 DEF Named
<1>5. /\ \A m \in 1 .. n : \E k \in 1 .. c : Named(shown, k) = Named(inks, m)
      /\ \A k \in 1 .. c : \E m \in 1 .. n :
            /\ shown[k].name = inks[m].name
            /\ \A l \in 1 .. m - 1 : Named(inks, l) # Named(inks, m)
            /\ Colored(inks[m].intent) => shown[k].swatch = Swatch("codex", inks[m].intent)
      /\ \A i, k \in 1 .. c : Named(shown, i) = Named(shown, k) => i = k
  BY Zenon DEF Through, c
<1>7. \A m \in 1 .. n + 1 : \E k \in 1 .. c + 1 : Named(more, k) = Named(inks, m)
  <2> TAKE m \in 1 .. n + 1
  <2>1. CASE m = n + 1
    BY <1>2, <1>4, <2>1
  <2>2. CASE m \in 1 .. n
    <3>1. PICK k \in 1 .. c : Named(shown, k) = Named(inks, m)
      BY <1>5, <2>2
    <3> QED
      BY <1>2, <1>4, <3>1
  <2> QED
    BY <1>2, <2>1, <2>2
<1>8. \A k \in 1 .. c + 1 : \E m \in 1 .. n + 1 :
          /\ more[k].name = inks[m].name
          /\ \A l \in 1 .. m - 1 : Named(inks, l) # Named(inks, m)
          /\ Colored(inks[m].intent) => more[k].swatch = Swatch("codex", inks[m].intent)
  <2> TAKE k \in 1 .. c + 1
  <2>1. CASE k = c + 1
    <3>1. \A l \in 1 .. (n + 1) - 1 : Named(inks, l) # Named(inks, n + 1)
      <4> TAKE l \in 1 .. (n + 1) - 1
      <4>1. PICK i \in 1 .. c : Named(shown, i) = Named(inks, l)
        BY <1>2, <1>5
      <4>2. Named(shown, i) # Named(inks, n + 1)
        BY DEF c
      <4> QED
        BY <4>1, <4>2
    <3>2. more[k].name = inks[n + 1].name /\ more[k].swatch = swatch
      BY <1>0, <1>3, <2>1
    <3> QED
      BY <1>2, <3>1, <3>2
  <2>2. CASE k \in 1 .. c
    <3>1. PICK m \in 1 .. n :
            /\ shown[k].name = inks[m].name
            /\ \A l \in 1 .. m - 1 : Named(inks, l) # Named(inks, m)
            /\ Colored(inks[m].intent) => shown[k].swatch = Swatch("codex", inks[m].intent)
      BY <1>5, <2>2
    <3> QED
      BY <1>2, <1>3, <2>2, <3>1
  <2> QED
    BY <1>2, <2>1, <2>2
<1>9. \A i, k \in 1 .. c + 1 : Named(more, i) = Named(more, k) => i = k
  <2>1. \A k \in 1 .. c : Named(more, k) # Named(more, c + 1)
    BY <1>4 DEF c
  <2> TAKE i, k \in 1 .. c + 1
  <2>2. CASE i \in 1 .. c /\ k \in 1 .. c
    <3>1. Named(more, i) = Named(shown, i) /\ Named(more, k) = Named(shown, k)
      BY <1>4, <2>2
    <3>2. Named(shown, i) = Named(shown, k) => i = k
      BY <1>5, <2>2, Zenon
    <3> QED
      BY <3>1, <3>2
  <2>3. CASE i = c + 1 /\ k = c + 1
    BY <2>3
  <2>4. CASE (i \in 1 .. c /\ k = c + 1) \/ (i = c + 1 /\ k \in 1 .. c)
    BY <2>1, <2>4
  <2> QED
    BY <1>2, <2>2, <2>3, <2>4
<1>10. 1 .. Len(more) = 1 .. c + 1
  BY <1>3
<1>11. /\ \A m \in 1 .. n + 1 : \E k \in 1 .. Len(more) : Named(more, k) = Named(inks, m)
       /\ \A k \in 1 .. Len(more) : \E m \in 1 .. n + 1 :
             /\ more[k].name = inks[m].name
             /\ \A l \in 1 .. m - 1 : Named(inks, l) # Named(inks, m)
             /\ Colored(inks[m].intent) => more[k].swatch = Swatch("codex", inks[m].intent)
       /\ \A i, k \in 1 .. Len(more) : Named(more, i) = Named(more, k) => i = k
  BY <1>3, <1>7, <1>8, <1>9, Zenon
<1> QED
  BY <1>3, <1>11, Zenon DEF Through

\* The ladder stops at the document's colour when it gives one.
LEMMA DocumentColourWins ==
  ASSUME NEW head, head.host = NoIntent, NEW known,
         known = Known(head.name, head.host, head.intent, head.extra), Colored(head.intent)
  PROVE  known = {Swatch("codex", head.intent)}
<1>1. ~Colored(NoIntent)
  BY DEF Colored, NoIntent, Intent
<1> QED
  BY <1>1 DEF Known

\* What is looked up next.
LEMMA NextInk ==
  ASSUME NEW j, NEW n, Progress(j, n), j.todo # <<>>
  PROVE  LET inks == InksOf(j.doc[1])
         IN  /\ n + 1 \in 0 .. Len(inks) /\ Head(j.todo) = inks[n + 1]
             /\ Left(inks, Tail(j.todo), n + 1) /\ Head(j.todo).host = NoIntent
             /\ Repeated(j) <=> \E k \in 1 .. Len(j.shown) : Named(j.shown, k) = Named(inks, n + 1)
<1> DEFINE inks == InksOf(j.doc[1])
<1>1. /\ j.doc[1] \in SpotDocs /\ Left(inks, j.todo, n) /\ Through(inks, j.shown, n)
      /\ n \in 0 .. Len(inks) /\ j.shown \in Seq(ToSet(j.shown))
  BY DEF Progress, Through
<1>2. inks \in Seq(ToSet(inks)) /\ \A m \in 1 .. Len(inks) : inks[m].host = NoIntent
  BY <1>1, InksAre
<1> HIDE DEF inks
<1>3. /\ n + 1 \in 0 .. Len(inks) /\ n + 1 \in 1 .. Len(inks)
      /\ Head(j.todo) = inks[n + 1] /\ Left(inks, Tail(j.todo), n + 1)
  BY <1>1, <1>2, HeadIsNext
<1>4. DOMAIN j.shown = 1 .. Len(j.shown)
  BY <1>1
<1>5. Repeated(j) <=> \E k \in 1 .. Len(j.shown) : Named(j.shown, k) = Named(inks, n + 1)
  BY <1>3, <1>4 DEF Repeated, Named
<1> QED
  BY <1>2, <1>3, <1>5 DEF inks

\* A summary shows the document's own colour as it is.
LEMMA OwnColourAnswered ==
  ASSUME NEW item
  PROVE  SwatchGiven(item, Swatch("codex", item.intent)) = Swatch("codex", item.intent)
BY DEF SwatchGiven, Swatch

LEMMA ProgressShown ==
  ASSUME NEW j, Paints(j), NEW n, Progress(j, n), j.todo # <<>>, ~Repeated(j), NEW swatch,
         Colored(Head(j.todo).intent) => swatch = Swatch("codex", Head(j.todo).intent)
  PROVE  Progress(Shown(j, swatch), n + 1)
<1> DEFINE inks == InksOf(j.doc[1])
           l == Shown(j, swatch)
           entry == SwatchGiven(Head(j.todo), swatch)
           more == Append(j.shown, [name |-> Head(j.todo).name, swatch |-> entry])
<1>1. l.doing = "look" /\ l.todo = Tail(j.todo) /\ l.doc = j.doc /\ l.shown = more
  BY ShownLooks
<1>2. /\ n + 1 \in 0 .. Len(inks) /\ Head(j.todo) = inks[n + 1]
      /\ Left(inks, Tail(j.todo), n + 1)
      /\ ~\E k \in 1 .. Len(j.shown) : Named(j.shown, k) = Named(inks, n + 1)
  BY NextInk
<1>3. j.doc[1] \in SpotDocs /\ Through(inks, j.shown, n)
  BY DEF Progress
<1>9. Colored(Head(j.todo).intent) => entry = Swatch("codex", Head(j.todo).intent)
  BY OwnColourAnswered
<1> HIDE DEF inks, l, entry
<1>4. more = Append(j.shown, [name |-> inks[n + 1].name, swatch |-> entry])
  BY <1>2
<1> HIDE DEF more
<1>5. Colored(inks[n + 1].intent) => entry = Swatch("codex", inks[n + 1].intent)
  BY <1>2, <1>9
<1>6. Through(inks, more, n + 1)
  BY <1>2, <1>3, <1>4, <1>5, DoneShown
<1>7. Left(inks, l.todo, n + 1) /\ Through(inks, l.shown, n + 1) /\ ~(l.doing = "ask")
  BY <1>1, <1>2, <1>6
<1>8. inks = InksOf(l.doc[1]) /\ l.doc[1] \in SpotDocs
  BY <1>1, <1>3 DEF inks
<1> HIDE DEF inks
<1> QED
  BY <1>7, <1>8 DEF Progress, l

\* A step of a worker that makes progress on its document.
LEMMA SummarySettles ==
  ASSUME SummaryInv, NEW w \in SpotWorkers, NEW j, painter' = [painter EXCEPT ![w] = j],
         Paints(j), j.doc # <<>> => \E n : Progress(j, n)
  PROVE  SummaryInv'
<1>1. \A v \in SpotWorkers : painter'[v] = IF v = w THEN j ELSE painter[v]
  BY DEF SummaryInv
<1>2. painter' = [v \in SpotWorkers |-> painter'[v]]
  BY <1>1 DEF SummaryInv
<1>3. \A v \in SpotWorkers :
         Paints(painter'[v]) /\ (painter'[v].doc # <<>> => \E n : Progress(painter'[v], n))
  BY <1>1 DEF SummaryInv
<1> QED
  BY <1>2, <1>3 DEF SummaryInv

LEMMA SummaryInitially == SpotInit => SummaryInv
<1> SUFFICES ASSUME SpotInit PROVE SummaryInv
  OBVIOUS
<1>1. \A w \in SpotWorkers : Paints(painter[w]) /\ painter[w].doc = <<>>
  BY DEF SpotInit, Resting, Paints
<1>2. painter = [w \in SpotWorkers |-> painter[w]]
  BY DEF SpotInit
<1> QED
  BY <1>1, <1>2 DEF SummaryInv

\* A summary starts with all of the document's inks left.
LEMMA AskStarts ==
  ASSUME SummaryInv, NEW w \in SpotWorkers, Ask(w)
  PROVE  SummaryInv'
<1>1. CASE \E doc \in SpotDocs :
              painter' = [painter EXCEPT ![w] =
                 [doing |-> "look", todo |-> InksOf(doc), doc |-> <<doc>>, shown |-> <<>>]]
  <2>1. PICK doc \in SpotDocs :
              painter' = [painter EXCEPT ![w] =
                 [doing |-> "look", todo |-> InksOf(doc), doc |-> <<doc>>, shown |-> <<>>]]
    BY <1>1
  <2> DEFINE inks == InksOf(doc)
             j == [doing |-> "look", todo |-> inks, doc |-> <<doc>>, shown |-> <<>>]
  <2>2. inks \in Seq(ToSet(inks))
    BY InksAre
  <2>7. painter' = [painter EXCEPT ![w] = j]
    BY <2>1
  <2>8. InksOf(doc) = inks
    OBVIOUS
  <2> HIDE DEF inks
  <2>3. Paints(j) /\ j.doc[1] = doc /\ j.todo = inks /\ j.shown = <<>> /\ j.doing # "ask"
    BY DEF Paints
  <2>4. Left(inks, inks, 0)
    BY <2>2 DEF Left
  <2>5. Through(inks, <<>>, 0)
    <3>1. 0 \in 0 .. Len(inks)
      BY <2>2
    <3>2. <<>> \in Seq(ToSet(<<>>)) /\ 1 .. Len(<<>>) = {} /\ 1 .. 0 = {}
      OBVIOUS
    <3> QED
      BY <3>1, <3>2 DEF Through
  <2> HIDE DEF j
  <2>6. Progress(j, 0)
    BY <2>3, <2>4, <2>5, <2>8 DEF Progress
  <2> QED
    BY <2>3, <2>6, <2>7, SummarySettles
<1>2. CASE \E body \in ColorBodies :
              painter' = [painter EXCEPT ![w] =
                 [doing |-> "look", todo |-> <<body>>, doc |-> <<>>, shown |-> <<>>]]
  <2>1. PICK body \in ColorBodies :
              painter' = [painter EXCEPT ![w] =
                 [doing |-> "look", todo |-> <<body>>, doc |-> <<>>, shown |-> <<>>]]
    BY <1>2
  <2> DEFINE j == [doing |-> "look", todo |-> <<body>>, doc |-> <<>>, shown |-> <<>>]
  <2>2. Paints(j) /\ j.doc = <<>>
    BY DEF Paints
  <2>3. painter' = [painter EXCEPT ![w] = j]
    BY <2>1
  <2> HIDE DEF j
  <2> QED
    BY <2>2, <2>3, SummarySettles
<1> QED
  BY <1>1, <1>2 DEF Ask

LEMMA RespondEnds ==
  ASSUME SummaryInv, NEW w \in SpotWorkers, Respond(w)
  PROVE  SummaryInv'
<1>1. painter' = [painter EXCEPT ![w] = Resting] /\ Resting.doc = <<>> /\ Paints(Resting)
  BY DEF Respond, Resting, Paints
<1> QED
  BY <1>1, SummarySettles

LEMMA LookProgresses ==
  ASSUME SummaryInv, NEW w \in SpotWorkers, Look(w)
  PROVE  SummaryInv'
<1> DEFINE j == painter[w]
           head == Head(j.todo)
           known == Known(head.name, head.host, head.intent, head.extra)
           cached == Those(estimates, EstimatesOf(head.name))
           inks == InksOf(j.doc[1])
<1>1. /\ Paints(j) /\ j.todo # <<>> /\ j.doing = "look"
      /\ j.doc # <<>> => \E n : Progress(j, n)
  BY DEF Look, SummaryInv
<1>2. CASE Repeated(j)
  <2> DEFINE k == [j EXCEPT !.todo = Tail(j.todo)]
  <2>1. painter' = [painter EXCEPT ![w] = k]
    BY <1>2 DEF Look, SummaryInv
  <2>2. /\ Paints(k) /\ k.doing = "look" /\ k.todo = Tail(j.todo)
        /\ k.doc = j.doc /\ k.shown = j.shown
    BY <1>1, WithTodo
  <2> HIDE DEF k, j
  <2>3. ASSUME j.doc # <<>> PROVE \E n : Progress(k, n)
    <3>1. PICK n : Progress(j, n)
      BY <1>1, <2>3
    <3>2. /\ n + 1 \in 0 .. Len(inks) /\ Left(inks, Tail(j.todo), n + 1)
          /\ \E i \in 1 .. Len(j.shown) : Named(j.shown, i) = Named(inks, n + 1)
      BY <1>1, <1>2, <3>1, NextInk
    <3>3. j.doc[1] \in SpotDocs /\ Through(inks, j.shown, n)
      BY <3>1 DEF Progress
    <3> HIDE DEF inks
    <3>4. Through(inks, j.shown, n + 1)
      BY <3>2, <3>3, DoneRepeated
    <3>5. Progress(k, n + 1)
      BY <2>2, <3>2, <3>3, <3>4 DEF Progress, inks
    <3> QED
      BY <3>5
  <2> QED
    BY <2>1, <2>2, <2>3, SummarySettles
<1>3. ASSUME NEW swatch, ~Repeated(j), painter' = [painter EXCEPT ![w] = Shown(j, swatch)],
             \A n : Progress(j, n) /\ Colored(head.intent) => swatch = Swatch("codex", head.intent)
      PROVE  SummaryInv'
  <2> DEFINE k == Shown(j, swatch)
  <2>1. Paints(k) /\ k.doc = j.doc
    BY <1>1, ShownLooks
  <2> HIDE DEF j
  <2>2. ASSUME j.doc # <<>> PROVE \E n : Progress(k, n)
    <3>1. PICK n : Progress(j, n)
      BY <1>1, <2>2
    <3>2. Colored(head.intent) => swatch = Swatch("codex", head.intent)
      BY <1>3, <3>1
    <3>3. Progress(k, n + 1)
      BY <1>1, <1>3, <3>1, <3>2, ProgressShown
    <3> QED
      BY <3>3
  <2>3. painter' = [painter EXCEPT ![w] = k]
    BY <1>3
  <2> HIDE DEF k
  <2> QED
    BY <2>1, <2>2, <2>3, SummarySettles
<1>4. \A n : Progress(j, n) /\ Colored(head.intent) => known = {Swatch("codex", head.intent)}
  <2> TAKE n
  <2> HAVE Progress(j, n) /\ Colored(head.intent)
  <2> HIDE DEF j
  <2>1. head.host = NoIntent
    BY <1>1, NextInk
  <2> HIDE DEF head
  <2> QED
    BY <2>1, DocumentColourWins
<1>5. CASE ~Repeated(j) /\ known # {}
  <2>1. PICK swatch \in known : painter' = [painter EXCEPT ![w] = Shown(j, swatch)]
    BY <1>5 DEF Look
  <2> HIDE DEF known, j, head
  <2>2. \A n : Progress(j, n) /\ Colored(head.intent) => swatch = Swatch("codex", head.intent)
    BY <1>4
  <2> QED
    BY <1>3, <1>5, <2>1, <2>2
<1>6. CASE ~Repeated(j) /\ known = {} /\ cached # <<>>
  <2> DEFINE swatch == Estimated(head.name, cached[1][2])
  <2>1. painter' = [painter EXCEPT ![w] = Shown(j, swatch)]
    BY <1>6 DEF Look
  <2> HIDE DEF known, j, head, swatch
  <2>2. \A n : Progress(j, n) /\ Colored(head.intent) => swatch = Swatch("codex", head.intent)
    BY <1>4, <1>6
  <2> QED
    BY <1>3, <1>6, <2>1, <2>2
<1>7. CASE ~Repeated(j) /\ known = {} /\ cached = <<>>
  <2> DEFINE k == [j EXCEPT !.doing = "ask"]
  <2>1. painter' = [painter EXCEPT ![w] = k]
    BY <1>7 DEF Look, SummaryInv
  <2>2. /\ Paints(k) /\ k.doing = "ask" /\ k.todo = j.todo
        /\ k.doc = j.doc /\ k.shown = j.shown
    BY <1>1, WithDoing
  <2> HIDE DEF k, j, known
  <2>3. ASSUME j.doc # <<>> PROVE \E n : Progress(k, n)
    <3>1. PICK n : Progress(j, n)
      BY <1>1, <2>3
    <3>2. ~Colored(Head(k.todo).intent)
      BY <1>4, <1>7, <2>2, <3>1
    <3>3. ~Repeated(k)
      BY <1>7, <2>2 DEF Repeated
    <3>4. Progress(k, n)
      BY <1>1, <2>2, <3>1, <3>2, <3>3 DEF Progress
    <3> QED
      BY <3>4
  <2> QED
    BY <2>1, <2>2, <2>3, SummarySettles
<1> QED
  BY <1>2, <1>5, <1>6, <1>7

LEMMA EstimateProgresses ==
  ASSUME SummaryInv, NEW w \in SpotWorkers, Estimate(w)
  PROVE  SummaryInv'
<1> DEFINE j == painter[w]
           name == Head(j.todo).name
<1>1. PICK lab : painter' = [painter EXCEPT ![w] = Shown(j, Estimated(name, lab))]
  BY DEF Estimate
<1> DEFINE swatch == Estimated(name, lab)
           k == Shown(j, swatch)
<1>2. Paints(j) /\ j.doing = "ask" /\ (j.doc # <<>> => \E n : Progress(j, n))
  BY DEF Estimate, SummaryInv
<1>3. painter' = [painter EXCEPT ![w] = k]
  BY <1>1
<1> HIDE DEF j, swatch
<1>4. Paints(k) /\ k.doc = j.doc
  BY <1>2, ShownLooks
<1>5. ASSUME j.doc # <<>> PROVE \E n : Progress(k, n)
  <2>1. PICK n : Progress(j, n)
    BY <1>2, <1>5
  <2>2. j.todo # <<>> /\ ~Colored(Head(j.todo).intent) /\ ~Repeated(j)
    BY <1>2, <2>1 DEF Progress
  <2>3. Progress(k, n + 1)
    BY <1>2, <2>1, <2>2, ProgressShown
  <2> QED
    BY <2>3
<1> HIDE DEF k
<1> QED
  BY <1>3, <1>4, <1>5, SummarySettles

-----------------------------------------------------------------------------
(* What is shown at the end.                                               *)

\* The first space of the pages that carries an ink, and what comes from it: the first of the
\* inks of that name.
FirstToCarry(all, i, ink) ==
    i \in DOMAIN all /\ Carries(all, i, ink) /\ \A j \in 1 .. i - 1 : ~Carries(all, j, ink)
StandsAt(inks, source, i, ink) ==
    /\ \E m \in 1 .. Len(inks) : Named(inks, m) = ink
    /\ \A m \in 1 .. Len(inks) :
          Named(inks, m) = ink /\ (\A l \in 1 .. m - 1 : Named(inks, l) # ink) => source[m] = i

LEMMA FirstCarrier ==
  ASSUME NEW inks, NEW source, NEW doc, NEW all, all = FlattenSeq(doc.pages), all \in Seq(NamedSpaces),
         Sourced(source, inks, doc), Len(inks) \in Nat,
         NEW i, NEW ink, FirstToCarry(all, i, ink)
  PROVE  StandsAt(inks, source, i, ink)
<1> DEFINE N == Len(all) + 1
           c == Len(inks)
<1>1. /\ Len(all) \in Nat /\ i \in 1 .. Len(all)
      /\ Carries(all, i, ink) /\ \A j \in 1 .. i - 1 : ~Carries(all, j, ink)
  BY DEF FirstToCarry
<1>2. PICK n \in CarriedBy(all[i].space) : Lowered[n] = ink
  BY <1>1 DEF Carries
<1>3. Own(all, i)
  BY <1>1 DEF Carries, Own
<1>4. PICK m0 \in 1 .. c : source[m0] = i /\ inks[m0].name = n
  <2>1. \A h \in 1 .. Len(all) : Own(all, h) =>
           \A a \in CarriedBy(all[h].space) : \E m \in 1 .. c : source[m] = h /\ inks[m].name = a
    BY Zenon DEF Sourced
  <2> QED
    BY <1>1, <1>2, <1>3, <2>1
<1>5. Named(inks, m0) = ink
  BY <1>2, <1>4 DEF Named
<1>6. ASSUME NEW m \in 1 .. c, Named(inks, m) = ink, \A l \in 1 .. m - 1 : Named(inks, l) # ink
      PROVE  source[m] = i
  <2>1. m <= m0
    BY <1>5, <1>6 DEF StandsAt
  <2>2. source[m] <= i /\ source[m] \in 1 .. N
    BY <1>4, <2>1 DEF Sourced
  <2>3. source[m] # N
    BY <1>1, <2>2
  <2>4. Own(all, source[m]) /\ inks[m].name \in CarriedBy(all[source[m]].space)
    BY <2>3 DEF Sourced
  <2>5. Carries(all, source[m], ink)
    BY <1>6, <2>4 DEF Carries, Own, Named
  <2>6. ~(source[m] \in 1 .. i - 1)
    BY <1>1, <2>5
  <2> QED
    BY <1>1, <2>2, <2>6
<1> QED
  BY <1>5, <1>6 DEF StandsAt

LEMMA FinishedIsTrue ==
  ASSUME NEW j, NEW n, Progress(j, n), j.todo = <<>>
  PROVE  LET doc == j.doc[1]
             shown == j.shown
             all == FlattenSeq(doc.pages)
             Name(k) == Lowered[shown[k].name]
         IN  /\ \A i, k \in DOMAIN shown : Name(i) = Name(k) => i = k
             /\ \A k \in DOMAIN shown :
                   \/ \E a \in ToSet(doc.analysis) : Lowered[a] = Name(k)
                   \/ \E i \in DOMAIN all : Carries(all, i, Name(k))
             /\ \A a \in ToSet(doc.analysis) : \E k \in DOMAIN shown : Name(k) = Lowered[a]
             /\ \A ink \in {Lowered[a] : a \in InkNames} : \A i \in DOMAIN all :
                   Carries(all, i, ink) /\ (\A l \in 1 .. i - 1 : ~Carries(all, l, ink)) =>
                       \E k \in DOMAIN shown :
                           Name(k) = ink /\ FullTint(all[i].space, shown[k].swatch)
<1> DEFINE doc == j.doc[1]
           shown == j.shown
           all == FlattenSeq(doc.pages)
           inks == InksOf(doc)
           N == Len(all) + 1
           c == Len(inks)
           s == Len(shown)
<1>1. doc \in SpotDocs /\ Left(inks, j.todo, n) /\ Through(inks, shown, n)
  BY DEF Progress
<1>2. inks \in Seq(ToSet(inks)) /\ all \in Seq(NamedSpaces)
  BY <1>1, InksAre, WorldIs
<1>3. PICK source : Sourced(source, inks, doc)
  BY <1>1, InksAre
<1> HIDE DEF inks
<1>4. c \in Nat /\ n = c
  BY <1>1, <1>2 DEF Left, Through
<1>5. /\ shown \in Seq(ToSet(shown)) /\ s \in Nat /\ DOMAIN shown = 1 .. s
      /\ DOMAIN all = 1 .. Len(all) /\ Len(all) \in Nat
  BY <1>1, <1>2 DEF Through
<1>6. all = FlattenSeq(doc.pages)
  OBVIOUS
<1> HIDE DEF all, shown, doc
<1>7. /\ \A m \in 1 .. c : \E k \in 1 .. s : Named(shown, k) = Named(inks, m)
      /\ \A k \in 1 .. s : \E m \in 1 .. c :
            /\ shown[k].name = inks[m].name
            /\ \A l \in 1 .. m - 1 : Named(inks, l) # Named(inks, m)
            /\ Colored(inks[m].intent) => shown[k].swatch = Swatch("codex", inks[m].intent)
      /\ \A i, k \in 1 .. s : Named(shown, i) = Named(shown, k) => i = k
  BY <1>1, <1>4 DEF Through
<1>8. /\ source \in [1 .. c -> 1 .. N]
      /\ \A m \in 1 .. c :
              IF source[m] = N THEN inks[m].name \in ToSet(doc.analysis)
              ELSE LET space == all[source[m]].space
                   IN  /\ Own(all, source[m]) /\ inks[m].name \in CarriedBy(space)
                       /\ space.family = "Separation" => inks[m].intent = SeparationIntent(space)
      /\ \A a \in ToSet(doc.analysis) : \E m \in 1 .. c : inks[m].name = a
  BY <1>3, <1>6, Zenon DEF Sourced
<1>9. ASSUME NEW k \in 1 .. s
      PROVE  \/ \E a \in ToSet(doc.analysis) : Lowered[a] = Named(shown, k)
             \/ \E i \in DOMAIN all : Carries(all, i, Named(shown, k))
  <2>1. PICK m \in 1 .. c : shown[k].name = inks[m].name
    BY <1>7
  <2>2. CASE source[m] = N
    BY <1>8, <2>1, <2>2 DEF Named
  <2>3. CASE source[m] # N
    <3>1. source[m] \in DOMAIN all
      BY <1>5, <1>8, <2>3
    <3>2. Carries(all, source[m], Named(shown, k))
      BY <1>8, <2>1, <2>3 DEF Carries, Own, Named
    <3> QED
      BY <3>1, <3>2
  <2> QED
    BY <2>2, <2>3
<1>10. ASSUME NEW a \in ToSet(doc.analysis) PROVE \E k \in 1 .. s : Named(shown, k) = Lowered[a]
  <2>1. PICK m \in 1 .. c : inks[m].name = a
    BY <1>8
  <2> QED
    BY <1>7, <2>1 DEF Named
<1>11. ASSUME NEW i \in DOMAIN all, NEW ink, Carries(all, i, ink),
              \A l \in 1 .. i - 1 : ~Carries(all, l, ink)
       PROVE  \E k \in 1 .. s : Named(shown, k) = ink /\ FullTint(all[i].space, shown[k].swatch)
  <2> DEFINE space == all[i].space
  <2>0. /\ \E m \in 1 .. c : Named(inks, m) = ink
        /\ \A m \in 1 .. c :
              Named(inks, m) = ink /\ (\A l \in 1 .. m - 1 : Named(inks, l) # ink) => source[m] = i
    <3>1. all \in Seq(NamedSpaces) /\ Len(inks) \in Nat
      BY <1>2, <1>4
    <3>2. FirstToCarry(all, i, ink)
      BY <1>11 DEF FirstToCarry
    <3>3. StandsAt(inks, source, i, ink)
      BY <1>3, <1>6, <3>1, <3>2, FirstCarrier
    <3> QED
      BY <3>3 DEF StandsAt
  <2>1. PICK m0 \in 1 .. c : Named(inks, m0) = ink
    BY <2>0
  <2>2. PICK k \in 1 .. s : Named(shown, k) = ink
    BY <1>7, <2>1
  <2>3. PICK m \in 1 .. c :
            /\ shown[k].name = inks[m].name
            /\ \A l \in 1 .. m - 1 : Named(inks, l) # Named(inks, m)
            /\ Colored(inks[m].intent) => shown[k].swatch = Swatch("codex", inks[m].intent)
    BY <1>7
  <2>4. Named(inks, m) = ink
    BY <2>2, <2>3 DEF Named
  <2>5. source[m] = i
    BY <2>0, <2>3, <2>4
  <2>6. source[m] # N
    BY <1>5, <2>5
  <2>7. CASE Readable(space) /\ ~ReachesBound(space.fn, Full)
    <3>0. space.family = "Separation"
      BY <2>7 DEF Readable
    <3>1. inks[m].intent = SeparationIntent(space)
      BY <1>8, <2>5, <2>6, <3>0
    <3>2. space.fn \in Transforms
      BY <1>2, <3>0, DocAssumption
    <3>3. Colored(inks[m].intent) /\ IsFullTint(space, Swatch("codex", inks[m].intent))
      BY <2>7, <3>1, <3>2, IntentIsFullTint
    <3>4. shown[k].swatch = Swatch("codex", inks[m].intent)
      BY <2>3, <3>3
    <3> QED
      BY <2>2, <3>3, <3>4 DEF FullTint
  <2>8. CASE ~(Readable(space) /\ ~ReachesBound(space.fn, Full))
    BY <2>2, <2>8 DEF FullTint
  <2> QED
    BY <2>7, <2>8
<1> QED
  BY <1>5, <1>7, <1>9, <1>10, <1>11 DEF Named, shown, all, doc

LEMMA SummarySound == SummaryInv => SummaryTrue
<1> SUFFICES ASSUME SummaryInv, NEW w \in SpotWorkers, painter[w].doc # <<>>, painter[w].todo = <<>>
             PROVE  LET doc == painter[w].doc[1]
                        shown == painter[w].shown
                        all == FlattenSeq(doc.pages)
                        Name(k) == Lowered[shown[k].name]
                    IN  /\ \A i, k \in DOMAIN shown : Name(i) = Name(k) => i = k
                        /\ \A k \in DOMAIN shown :
                              \/ \E n \in ToSet(doc.analysis) : Lowered[n] = Name(k)
                              \/ \E i \in DOMAIN all : Carries(all, i, Name(k))
                        /\ \A n \in ToSet(doc.analysis) : \E k \in DOMAIN shown : Name(k) = Lowered[n]
                        /\ \A ink \in {Lowered[n] : n \in InkNames} : \A i \in DOMAIN all :
                              Carries(all, i, ink) /\ (\A j \in 1 .. i - 1 : ~Carries(all, j, ink)) =>
                                  \E k \in DOMAIN shown :
                                      Name(k) = ink /\ FullTint(all[i].space, shown[k].swatch)
  BY Zenon DEF SummaryTrue
<1>1. PICK n : Progress(painter[w], n)
  BY DEF SummaryInv
<1> QED
  BY <1>1, FinishedIsTrue, Zenon

\* A finished summary lists each ink of the document once and no other, and gives an ink over
\* CMYK the full tint of the first of the pages' own spaces that carries it (_spot_colors,
\* extract_color_world_pikepdf, resolve_spot and evaluate_function): whatever the documents,
\* their stitched functions, the catalogue and the model's estimates. The one exception is a
\* full tint that falls on a bound of a stitched function, of which nothing is said.
THEOREM SummaryIsTrue == SpotSpec => []SummaryTrue
<1>1. SpotInit => SummaryInv
  BY SummaryInitially
<1>2. SummaryInv /\ [SpotNext]_spotVars => SummaryInv'
  <2> SUFFICES ASSUME SummaryInv, [SpotNext]_spotVars PROVE SummaryInv'
    OBVIOUS
  <2>1. CASE SpotNext
    BY <2>1, AskStarts, LookProgresses, EstimateProgresses, RespondEnds DEF SpotNext
  <2>2. CASE UNCHANGED spotVars
    BY <2>2 DEF spotVars, SummaryInv
  <2> QED
    BY <2>1, <2>2
<1>3. SummaryInv => SummaryTrue
  BY SummarySound
<1> QED
  BY <1>1, <1>2, <1>3, PTL DEF SpotSpec
=============================================================================
