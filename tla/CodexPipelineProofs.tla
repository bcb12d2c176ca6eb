------------------------ MODULE CodexPipelineProofs ------------------------
(***************************************************************************)
(* Type correctness, content addressing and tenant isolation of the        *)
(* pipeline, for every number of requests, tenants, documents and faults.  *)
(*                                                                         *)
(* CacheSound, TierIsolation and AnswersIsolated are not inductive alone:  *)
(* what a handler or the consumer is about to write must be known to be    *)
(* right as well, so the invariant follows every document from the bytes   *)
(* of the request (or of the blob) to the entry and the event.             *)
(*                                                                         *)
(* And what the pipeline promises whatever fails: a request fails only for *)
(* the reasons FailuresExplained names, the consumer passes over no entry  *)
(* of the stream, and the answers are those of ExtractPromise.  All three  *)
(* rest on that invariant and each on a strengthening of its own.          *)
(***************************************************************************)
EXTENDS CodexPipeline, FiniteSetTheorems, TLAPS

\* Explained, with the history of raised passes as an argument.
ExplainedBy(kind, value, l) ==
    /\ value.got \subseteq Whole(kind)
    /\ Whole(kind) \ value.got \subseteq l[value.doc]

\* Bytes held by a handler past its blob lookup are those its tenant has sent, and
\* what it is about to emit or store was made from them.
SoundRequest(q, s, l) ==
    /\ q.pc \notin {"idle", "resolve", "done"} =>
          q.raw \in Docs /\ q.sha = Sha(q.raw) /\ <<q.tenant, q.sha>> \in s
    /\ q.pc \in {"idle", "resolve"} => q.stage = 1 /\ q.events = <<>>
    /\ q.pc = "resolve" => q.sha \in Shas
    /\ q.stage = 2 => q.op # "extract"
    /\ q.pc = "emit" =>
          /\ q.val \in Document
          /\ Sha(q.val.doc) = q.sha
          /\ ExplainedBy(Stages[q.op][q.stage], q.val, l)
    /\ q.pc \in {"passes", "assemble"} =>
          /\ q.op = "granular" /\ q.stage = 2
          /\ q.kept \subseteq PikepdfPasses
          /\ (PikepdfPasses \ q.kept) \ q.pending \subseteq l[q.raw]
          /\ q.pc = "assemble" => q.pending = {}
    /\ \A i \in DOMAIN q.events :
          /\ <<q.tenant, q.sha>> \in s
          /\ Sha(q.events[i].doc) = q.sha
          /\ ExplainedBy(q.events[i].kind, q.events[i], l)

SoundCache(c, s, l) ==
    \A key \in CacheKeys :
        c[key] # None => /\ Sha(c[key].doc) = key.sha
                         /\ ExplainedBy(key.kind, c[key], l)
                         /\ <<key.tenant, key.sha>> \in s

SoundBlobs(b, s) ==
    \A key \in ScopedKeys : b[key] # None => Sha(b[key]) = key[2] /\ key \in s

SoundConsumer(c, s) ==
    /\ c.pc # "idle" => c.sha \in Shas
    /\ c.pc \in {"check", "phase1", "phase2"} =>
          c.blob \in Docs /\ <<DefaultTenant, Sha(c.blob)>> \in s
    /\ \A i \in DOMAIN c.batch : c.batch[i] \in 1 .. Len(stream)

IInv ==
    /\ TypeOK
    /\ \A r \in Requests : SoundRequest(req[r], seen, lost)
    /\ SoundCache(cache, seen, lost)
    /\ SoundBlobs(blobs, seen)
    /\ SoundConsumer(spec, seen)

----------------------------------------------------------------------------
(* What can only grow: the bytes tenants have sent and the failures seen.  *)

Grows(s, l, s2, l2) ==
    /\ s \subseteq s2
    /\ \A d \in Docs : l[d] \subseteq l2[d]

\* A sound request stays sound as the histories grow.
LEMMA RequestStaysSound ==
    ASSUME NEW q \in Request, NEW s, NEW l, NEW s2, NEW l2,
           SoundRequest(q, s, l), Grows(s, l, s2, l2)
    PROVE  SoundRequest(q, s2, l2)
<1>1. \A i \in DOMAIN q.events : q.events[i] \in Event
  BY DEF Request
<1>2. ASSUME NEW d \in Docs, NEW kind, NEW value, value.doc = d, ExplainedBy(kind, value, l)
      PROVE  ExplainedBy(kind, value, l2)
  BY <1>2 DEF Grows, ExplainedBy
<1>3. q.val \in Document => q.val.doc \in Docs
  BY DEF Document
<1>4. \A i \in DOMAIN q.events : q.events[i].doc \in Docs
  BY <1>1 DEF Event
<1>5. q.pc \in {"passes", "assemble"} => q.raw \in Docs
  BY DEF SoundRequest
<1>6. s \subseteq s2 /\ \A d \in Docs : l[d] \subseteq l2[d]
  BY DEF Grows
<1>7. QED
  BY <1>2, <1>3, <1>4, <1>5, <1>6 DEF SoundRequest

\* So do the entries of the cache and of the blob store.
LEMMA CacheStaysSound ==
    ASSUME NEW c \in [CacheKeys -> Document \cup {None}], NEW s, NEW l, NEW s2, NEW l2,
           SoundCache(c, s, l), Grows(s, l, s2, l2)
    PROVE  SoundCache(c, s2, l2)
BY DEF SoundCache, Grows, ExplainedBy, Document

LEMMA BlobsStaySound ==
    ASSUME NEW b, NEW s, NEW s2, s \subseteq s2, SoundBlobs(b, s)
    PROVE  SoundBlobs(b, s2)
BY DEF SoundBlobs

----------------------------------------------------------------------------
(* The calls on the tier keep its types, and what they store is sound.     *)

LEMMA ChargeType ==
    ASSUME faults \in 0 .. MaxFaults, NEW n \in Nat, Charge(n)
    PROVE  faults' \in 0 .. MaxFaults
BY StoresAssumption DEF Charge

LEMMA ShaType == \A d \in Docs : Sha(d) \in Shas
BY DEF Shas

LEMMA ShaInjective == \A d, e \in Docs : Sha(d) = Sha(e) => d = e
BY DEF Sha

LEMMA KeyTypes ==
    ASSUME NEW raw \in Docs, NEW k \in CachedKinds, NEW t \in Tenants
    PROVE  CacheKey(raw, k, t) \in CacheKeys
BY ShaType DEF CacheKey, CacheKeys

LEMMA ReadType ==
    ASSUME faults \in 0 .. MaxFaults, NEW stored, NEW v, ReadOutcome(stored, v)
    PROVE  faults' \in 0 .. MaxFaults
BY ChargeType DEF ReadOutcome, Fault

LEMMA XAddTypes ==
    ASSUME StoresTypeOK, NEW e \in StreamEntry, XAdd(e)
    PROVE  /\ stream' \in Seq(StreamEntry) /\ Len(stream) <= Len(stream')
           /\ trimmed' \in Nat
           /\ window' \in [Shas -> Nat]
<1>1. stream' \in Seq(StreamEntry) /\ Len(stream') = Len(stream) + 1
  BY DEF XAdd, StoresTypeOK
<1>2. trimmed' \in Nat
  BY <1>1, StoresAssumption DEF XAdd, StoresTypeOK
<1>3. window' \in [Shas -> Nat]
  BY DEF XAdd, StoresTypeOK, StreamEntry
<1>4. QED
  BY <1>1, <1>2, <1>3, StoresAssumption DEF StoresTypeOK

LEMMA XAddIfNewTypes ==
    ASSUME StoresTypeOK, NEW key \in ScopedKeys, NEW e \in StreamEntry, XAddIfNew(key, e)
    PROVE  /\ dedupe' \in SUBSET ScopedKeys
           /\ stream' \in Seq(StreamEntry) /\ Len(stream) <= Len(stream')
           /\ trimmed' \in Nat
           /\ window' \in [Shas -> Nat]
           /\ faults' \in 0 .. MaxFaults
<1>1. CASE UNCHANGED <<stream, trimmed, window>>
  BY <1>1, ChargeType DEF XAddIfNew, StoresTypeOK, Fault
<1>2. CASE XAdd(e) /\ UNCHANGED faults /\ dedupe' = dedupe \cup {key}
  BY <1>2, XAddTypes DEF StoresTypeOK
<1>3. QED
  BY <1>1, <1>2 DEF XAddIfNew

LEMMA BlobPutSound ==
    ASSUME StoresTypeOK, NEW raw \in Docs, NEW t \in Tenants, BlobPut(raw, t),
           SoundBlobs(blobs, seen), <<t, Sha(raw)>> \in seen
    PROVE  /\ blobs' \in [ScopedKeys -> Docs \cup {None}]
           /\ SoundBlobs(blobs', seen)
           /\ gone' \in SUBSET ScopedKeys
           /\ dedupe' \in SUBSET ScopedKeys
           /\ stream' \in Seq(StreamEntry) /\ Len(stream) <= Len(stream')
           /\ trimmed' \in Nat
           /\ window' \in [Shas -> Nat]
           /\ faults' \in 0 .. MaxFaults
<1> DEFINE key == Scoped(Sha(raw), t)
           e == [sha |-> Sha(raw), tenant |-> t, source |-> "blob_put"]
<1>1. key \in ScopedKeys /\ key[2] = Sha(raw) /\ key \in seen
  BY ShaType DEF Scoped, ScopedKeys
<1>2. e \in StreamEntry
  BY ShaType DEF StreamEntry
<1>3. blobs' \in {blobs, [blobs EXCEPT ![key] = raw]}
  BY DEF BlobPut
<1>4. \/ UNCHANGED <<dedupe, stream, trimmed, window>> /\ Fault
      \/ XAddIfNew(key, e)
  BY DEF BlobPut
<1>9. gone' \in SUBSET ScopedKeys
  BY <1>1 DEF BlobPut, StoresTypeOK
<1> HIDE DEF key, e
<1>5. blobs' \in [ScopedKeys -> Docs \cup {None}] /\ SoundBlobs(blobs', seen)
  BY <1>1, <1>3 DEF SoundBlobs, StoresTypeOK
<1>6. CASE UNCHANGED <<dedupe, stream, trimmed, window>> /\ Fault
  BY <1>5, <1>6, <1>9, ChargeType DEF StoresTypeOK, Fault
<1>7. CASE XAddIfNew(key, e)
  BY <1>1, <1>2, <1>5, <1>7, <1>9, XAddIfNewTypes
<1>8. QED
  BY <1>4, <1>6, <1>7

LEMMA PassesOfType == \A k \in CachedKinds : PassesOf[k] \subseteq Passes /\ Whole(k) = PassesOf[k]
BY DEF PassesOf, Whole, Passes

\* A set of a document made from the key's bytes by the key's extractor.
LEMMA CacheSetSound ==
    ASSUME StoresTypeOK, NEW raw \in Docs, NEW k \in CachedKinds, NEW t \in Tenants,
           NEW value \in Document, NEW s, NEW l,
           cache' \in {cache, [cache EXCEPT ![CacheKey(raw, k, t)] = value]}, SoundCache(cache, s, l),
           Sha(value.doc) = Sha(raw), ExplainedBy(k, value, l), <<t, Sha(raw)>> \in s
    PROVE  cache' \in [CacheKeys -> Document \cup {None}] /\ SoundCache(cache', s, l)
<1> DEFINE key == CacheKey(raw, k, t)
<1>1. key \in CacheKeys /\ key.sha = Sha(raw) /\ key.kind = k /\ key.tenant = t
  BY KeyTypes DEF CacheKey
<1>2. cache' = cache \/ cache' = [cache EXCEPT ![key] = value]
  OBVIOUS
<1> HIDE DEF key
<1>3. cache' \in [CacheKeys -> Document \cup {None}]
  BY <1>1, <1>2 DEF StoresTypeOK
<1>4. SoundCache(cache', s, l)
  BY <1>1, <1>2 DEF SoundCache, StoresTypeOK
<1>5. QED
  BY <1>3, <1>4

\* An extractor run: the document misses only passes the history holds.
LEMMA ExtractionSound ==
    ASSUME lost \in [Docs -> SUBSET Passes], NEW raw \in Docs, NEW passes \in SUBSET Passes,
           NEW failed \in SUBSET passes, PassesFail(raw, failed)
    PROVE  /\ Extracted(raw, passes, failed) \in Document
           /\ lost' \in [Docs -> SUBSET Passes]
           /\ \A d \in Docs : lost[d] \subseteq lost'[d]
           /\ failed \subseteq lost'[raw]
BY DEF PassesFail, Extracted, Document

----------------------------------------------------------------------------
(* Frames: what is left to show of a step once its own effect is known.    *)

\* A consumer that does not move stays sound as entries are added.
LEMMA ConsumerStaysSound ==
    ASSUME SpecTypeOK, SoundConsumer(spec, seen), UNCHANGED specVars,
           seen \subseteq seen', Len(stream) \in Nat, Len(stream') \in Nat,
           Len(stream) <= Len(stream')
    PROVE  SpecTypeOK' /\ SoundConsumer(spec, seen)'
<1>1. \A n \in 1 .. Len(stream) : n \in 1 .. Len(stream')
  OBVIOUS
<1>2. spec' = spec /\ handled' = handled
  BY DEF specVars
<1>3. QED
  BY <1>1, <1>2 DEF SoundConsumer, SpecTypeOK

\* A step of one request.
LEMMA RequestMoves ==
    ASSUME IInv, NEW r \in Requests, NEW new \in Request, Become(r, new),
           SoundRequest(new, seen', lost'), Grows(seen, lost, seen', lost'),
           StoresTypeOK', seen' \in SUBSET (Tenants \X Shas),
           SoundCache(cache', seen', lost'), SoundBlobs(blobs', seen'),
           Len(stream) <= Len(stream'), UNCHANGED specVars
    PROVE  IInv'
<1>1. req' \in [Requests -> Request]
  BY DEF Become, IInv, TypeOK, ApiTypeOK
<1>2. ApiTypeOK'
  BY <1>1 DEF ApiTypeOK
<1>3. ASSUME NEW x \in Requests
      PROVE  SoundRequest(req'[x], seen', lost')
  <2>1. CASE x = r
    BY <2>1 DEF Become, IInv, TypeOK, ApiTypeOK
  <2>2. CASE x # r
    <3>1. req'[x] = req[x] /\ req[x] \in Request
      BY <2>2 DEF Become, IInv, TypeOK, ApiTypeOK
    <3>2. QED
      BY <3>1, RequestStaysSound DEF IInv
  <2>3. QED
    BY <2>1, <2>2
<1>4. Len(stream) \in Nat /\ Len(stream') \in Nat
  BY DEF IInv, TypeOK, StoresTypeOK
<1>5. SpecTypeOK' /\ SoundConsumer(spec, seen)'
  BY <1>4, ConsumerStaysSound DEF IInv, TypeOK, Grows
<1>6. QED
  BY <1>2, <1>3, <1>5 DEF IInv, TypeOK

LEMMA GrowsRefl == \A s, l : Grows(s, l, s, l)
BY DEF Grows

\* The operations' stages, spelled out.
LEMMA StagesFacts ==
    ASSUME NEW q \in Request
    PROVE  /\ Stages[q.op][q.stage] \in CachedKinds \/ (q.op = "extract" /\ q.stage = 2)
           /\ q.stage = 2 /\ q.op \in {"stream", "granular"} => Stages[q.op][q.stage] = "extract"
           /\ Len(Stages[q.op]) \in 1 .. 2
           /\ q.op # "extract" => Len(Stages[q.op]) = 2
           /\ q.op = "extract" => Len(Stages[q.op]) = 1
BY DEF Request, Stages, CachedKinds

----------------------------------------------------------------------------
(* The ways a request moves on.                                            *)

LEMMA FinishedSound ==
    ASSUME NEW q \in Request, NEW s, NEW l, SoundRequest(q, s, l), NEW status \in Statuses
    PROVE  Finished(q, status) \in Request /\ SoundRequest(Finished(q, status), s, l)
<1> DEFINE new == Finished(q, status)
<1>1. new \in Request
  BY DEF Finished, Request, PcStates
<1>2. /\ new.pc = "done" /\ new.stage = q.stage /\ new.op = q.op
      /\ new.events = q.events /\ new.tenant = q.tenant /\ new.sha = q.sha
  BY DEF Finished, Request
<1> HIDE DEF new
<1>3. SoundRequest(new, s, l)
  BY <1>2 DEF SoundRequest
<1>4. QED
  BY <1>1, <1>3 DEF new

LEMMA WithEventSound ==
    ASSUME NEW q \in Request, NEW s, NEW l, SoundRequest(q, s, l), NEW e \in Event,
           q.pc \notin {"idle", "resolve"},
           <<q.tenant, q.sha>> \in s, Sha(e.doc) = q.sha, ExplainedBy(e.kind, e, l)
    PROVE  WithEvent(q, e) \in Request /\ SoundRequest(WithEvent(q, e), s, l)
<1> DEFINE new == WithEvent(q, e)
<1>1. q.events \in Seq(Event) /\ Append(q.events, e) \in Seq(Event)
  BY DEF Request
<1>2. new \in Request
  BY <1>1 DEF WithEvent, Request
<1>3. /\ new.pc = q.pc /\ new.stage = q.stage /\ new.op = q.op /\ new.raw = q.raw
      /\ new.tenant = q.tenant /\ new.sha = q.sha /\ new.val = q.val
      /\ new.kept = q.kept /\ new.pending = q.pending
      /\ new.events = Append(q.events, e)
  BY DEF WithEvent, Request
<1>4. \A i \in DOMAIN new.events : new.events[i] = e \/ (i \in DOMAIN q.events /\ new.events[i] = q.events[i])
  BY <1>1, <1>3
<1> HIDE DEF new
<1>5. SoundRequest(new, s, l)
  BY <1>3, <1>4 DEF SoundRequest
<1>6. QED
  BY <1>2, <1>5 DEF new

LEMMA AdvancedSound ==
    ASSUME NEW q \in Request, NEW s, NEW l, SoundRequest(q, s, l), q.pc \in {"fill", "emit"}
    PROVE  Advanced(q) \in Request /\ SoundRequest(Advanced(q), s, l)
<1>1. CASE q.stage = 1 /\ q.op = "granular"
  <2> DEFINE new == [q EXCEPT !.pc = "passes", !.stage = 2, !.val = None,
                              !.pending = PikepdfPasses, !.kept = {}]
  <2>1. Advanced(q) = new
    BY <1>1 DEF Advanced
  <2>2. new \in Request
    <3>1. 2 \in 1 .. 2 /\ {"passes", "lookup", "publish"} \subseteq PcStates
      BY DEF PcStates
    <3>2. QED
      BY <3>1 DEF Request
  <2>3. /\ new.pc = "passes" /\ new.stage = 2 /\ new.op = q.op /\ new.raw = q.raw
        /\ new.tenant = q.tenant /\ new.sha = q.sha /\ new.events = q.events
        /\ new.kept = {} /\ new.pending = PikepdfPasses
    BY DEF Request
  <2> HIDE DEF new
  <2>4. SoundRequest(new, s, l)
    BY <1>1, <2>3 DEF SoundRequest
  <2>5. QED
    BY <2>1, <2>2, <2>4
<1>2. CASE ~(q.stage = 1 /\ q.op = "granular") /\ q.stage < Len(Stages[q.op])
  <2> DEFINE new == [q EXCEPT !.pc = "lookup", !.stage = 2, !.val = None]
  <2>1. Advanced(q) = new
    BY <1>2 DEF Advanced
  <2>2. new \in Request
    <3>1. 2 \in 1 .. 2 /\ {"passes", "lookup", "publish"} \subseteq PcStates
      BY DEF PcStates
    <3>2. QED
      BY <3>1 DEF Request
  <2>3. /\ new.pc = "lookup" /\ new.stage = 2 /\ new.op = q.op /\ new.raw = q.raw
        /\ new.tenant = q.tenant /\ new.sha = q.sha /\ new.events = q.events
    BY DEF Request
  <2>4. q.op # "extract"
    <3>1. ASSUME q.op = "extract" PROVE FALSE
      <4>1. q.stage \in 1 .. 2
        BY DEF Request
      <4>2. Len(Stages[q.op]) = 1
        BY <3>1, StagesFacts
      <4>3. q.stage < 1
        BY <1>2, <4>2
      <4>4. QED
        BY <4>1, <4>3
    <3>2. QED
      BY <3>1
  <2> HIDE DEF new
  <2>5. SoundRequest(new, s, l)
    BY <2>3, <2>4 DEF SoundRequest
  <2>6. QED
    BY <2>1, <2>2, <2>5
<1>3. CASE /\ ~(q.stage = 1 /\ q.op = "granular") /\ ~(q.stage < Len(Stages[q.op]))
           /\ q.op = "probe"
  <2> DEFINE new == [q EXCEPT !.pc = "publish", !.val = None]
  <2>1. Advanced(q) = new
    BY <1>3 DEF Advanced
  <2>2. new \in Request
    <3>1. 2 \in 1 .. 2 /\ {"passes", "lookup", "publish"} \subseteq PcStates
      BY DEF PcStates
    <3>2. QED
      BY <3>1 DEF Request
  <2>3. /\ new.pc = "publish" /\ new.stage = q.stage /\ new.op = q.op /\ new.raw = q.raw
        /\ new.tenant = q.tenant /\ new.sha = q.sha /\ new.events = q.events
    BY DEF Request
  <2> HIDE DEF new
  <2>4. SoundRequest(new, s, l)
    BY <1>3, <2>3 DEF SoundRequest
  <2>5. QED
    BY <2>1, <2>2, <2>4
<1>4. CASE /\ ~(q.stage = 1 /\ q.op = "granular") /\ ~(q.stage < Len(Stages[q.op]))
           /\ q.op # "probe"
  <2>1. Advanced(q) = Finished(q, "200")
    BY <1>4 DEF Advanced
  <2>2. QED
    BY <2>1, FinishedSound DEF Statuses
<1>5. QED
  BY <1>1, <1>2, <1>3, <1>4

\* A request past its blob lookup is about a kind its operation reads from the cache.
LEMMA KindType ==
    ASSUME NEW q \in Request, NEW s, NEW l, SoundRequest(q, s, l)
    PROVE  Stages[q.op][q.stage] \in CachedKinds
BY StagesFacts DEF SoundRequest

----------------------------------------------------------------------------
(* Extraction and the set that follows it, for handlers and consumer.      *)

LEMMA ExtractedExplained ==
    ASSUME NEW raw \in Docs, NEW k \in CachedKinds, NEW passes \in SUBSET PassesOf[k],
           NEW failed \in SUBSET passes, NEW l, failed \subseteq l[raw],
           PassesOf[k] \ passes \subseteq l[raw]
    PROVE  ExplainedBy(k, Extracted(raw, passes, failed), l)
BY PassesOfType DEF ExplainedBy, Extracted

\* An extractor run of some passes, of which some raise, followed by a set.
FillsWith(raw, k, t, passes, failed) ==
    /\ raw \in Docs /\ k \in CachedKinds /\ t \in Tenants
    /\ passes \subseteq PassesOf[k] /\ failed \subseteq passes
    /\ PassesFail(raw, failed)
    /\ PassesOf[k] \ passes \subseteq lost[raw]
    /\ cache' \in {cache, [cache EXCEPT ![CacheKey(raw, k, t)] =
                                  Extracted(raw, passes, failed)]}
    /\ <<t, Sha(raw)>> \in seen

\* What comes of it.
FillResult(raw, k, value) ==
    /\ value \in Document /\ value.doc = raw /\ ExplainedBy(k, value, lost')
    /\ lost' \in [Docs -> SUBSET Passes] /\ Grows(seen, lost, seen, lost')
    /\ cache' \in [CacheKeys -> Document \cup {None}]
    /\ SoundCache(cache', seen, lost')

LEMMA FillSound ==
    ASSUME StoresTypeOK, SoundCache(cache, seen, lost),
           NEW raw, NEW k, NEW t, NEW passes, NEW failed,
           FillsWith(raw, k, t, passes, failed)
    PROVE  FillResult(raw, k, Extracted(raw, passes, failed))
<1> USE DEF FillsWith
<1> DEFINE value == Extracted(raw, passes, failed)
<1>1. passes \in SUBSET Passes
  BY PassesOfType
<1>2. /\ value \in Document
      /\ lost' \in [Docs -> SUBSET Passes]
      /\ \A d \in Docs : lost[d] \subseteq lost'[d]
      /\ failed \subseteq lost'[raw]
  BY <1>1, ExtractionSound DEF StoresTypeOK
<1>3. value.doc = raw
  BY DEF Extracted
<1>4. PassesOf[k] \ passes \subseteq lost'[raw]
  BY <1>2
<1>5. ExplainedBy(k, value, lost')
  BY <1>2, <1>4, ExtractedExplained
<1>6. Grows(seen, lost, seen, lost')
  BY <1>2 DEF Grows
<1>7. SoundCache(cache, seen, lost')
  BY <1>6, CacheStaysSound DEF StoresTypeOK
<1> HIDE DEF value
<1>8. cache' \in [CacheKeys -> Document \cup {None}] /\ SoundCache(cache', seen, lost')
  BY <1>2, <1>3, <1>5, <1>7, CacheSetSound DEF value
<1>9. QED
  BY <1>2, <1>3, <1>5, <1>6, <1>8 DEF value, FillResult

----------------------------------------------------------------------------
(* One lemma per action of a request.                                      *)

\* What the invariant says of the request at hand.
LEMMA AtHand ==
    ASSUME IInv, NEW r \in Requests
    PROVE  /\ req[r] \in Request /\ SoundRequest(req[r], seen, lost)
           /\ Kind(r) \in CachedKinds
           /\ req[r].tenant \in Tenants
           /\ req[r].pc \notin {"idle", "resolve", "done"} =>
                 /\ req[r].raw \in Docs /\ req[r].sha = Sha(req[r].raw)
                 /\ <<req[r].tenant, Sha(req[r].raw)>> \in seen
<1>1. req[r] \in Request /\ SoundRequest(req[r], seen, lost)
  BY DEF IInv, TypeOK, ApiTypeOK
<1>2. Kind(r) \in CachedKinds
  BY <1>1, KindType DEF Kind
<1>3. QED
  BY <1>1, <1>2 DEF SoundRequest, Request

\* A step of one request that leaves the stores and the histories alone.
LEMMA RequestMovesAlone ==
    ASSUME IInv, NEW r \in Requests, NEW new \in Request, Become(r, new),
           SoundRequest(new, seen, lost), UNCHANGED <<seen, tier, window, lost, raised>>,
           faults' \in 0 .. MaxFaults, UNCHANGED specVars
    PROVE  IInv'
<1>1. Grows(seen, lost, seen', lost') /\ SoundRequest(new, seen', lost')
  BY GrowsRefl
<1>2. StoresTypeOK' /\ seen' \in SUBSET (Tenants \X Shas)
  BY DEF IInv, TypeOK, StoresTypeOK, ApiTypeOK, tier
<1>3. SoundCache(cache', seen', lost') /\ SoundBlobs(blobs', seen')
  BY DEF IInv, tier
<1>4. Len(stream) <= Len(stream')
  BY DEF IInv, TypeOK, StoresTypeOK, tier
<1>5. QED
  BY <1>1, <1>2, <1>3, <1>4, RequestMoves

LEMMA SubmitSound ==
    ASSUME IInv, NEW r \in Requests, NEW op \in Operations, NEW t \in Tenants,
           NEW d \in Docs, Submit(r, op, t, d), UNCHANGED specVars
    PROVE  IInv'
<1> DEFINE new == [req[r] EXCEPT !.pc = "put", !.op = op, !.tenant = t,
                                 !.sha = Sha(d), !.raw = d]
<1>1. Become(r, new) /\ seen' = seen \cup {<<t, Sha(d)>>} /\ UNCHANGED storeVars
  BY DEF Submit
<1>2. op \in DOMAIN Stages /\ "put" \in PcStates /\ Sha(d) \in Shas
  BY ApiAssumption, ShaType DEF Stages, PcStates
<1>3. req[r] \in Request /\ SoundRequest(req[r], seen, lost)
  BY AtHand
<1>4. new \in Request
  BY <1>2, <1>3 DEF Request
<1>5. /\ new.pc = "put" /\ new.op = op /\ new.tenant = t /\ new.sha = Sha(d) /\ new.raw = d
      /\ new.stage = req[r].stage /\ new.events = req[r].events
  BY <1>3 DEF Request
<1>6. Grows(seen, lost, seen', lost')
  BY <1>1 DEF storeVars, Grows
<1> HIDE DEF new
<1>7. req[r].stage = 1 /\ req[r].events = <<>>
  BY <1>3 DEF Submit, SoundRequest
<1>8. SoundRequest(new, seen', lost')
  BY <1>1, <1>5, <1>7 DEF SoundRequest
<1>9. StoresTypeOK' /\ seen' \in SUBSET (Tenants \X Shas) /\ Len(stream) <= Len(stream')
  BY <1>1, <1>2 DEF IInv, TypeOK, StoresTypeOK, ApiTypeOK, storeVars
<1>10. SoundCache(cache', seen', lost') /\ SoundBlobs(blobs', seen')
  BY <1>1, <1>6, CacheStaysSound, BlobsStaySound, SMTT(30)
     DEF IInv, TypeOK, StoresTypeOK, storeVars, Grows
<1>11. QED
  BY <1>1, <1>4, <1>6, <1>8, <1>9, <1>10, RequestMoves

LEMMA SubmitHashSound ==
    ASSUME IInv, NEW r \in Requests, NEW t \in Tenants, NEW s \in Shas,
           SubmitHash(r, t, s), UNCHANGED specVars
    PROVE  IInv'
<1> DEFINE new == [req[r] EXCEPT !.pc = "resolve", !.op = "probe", !.tenant = t, !.sha = s]
<1>1. Become(r, new) /\ UNCHANGED <<seen, storeVars>>
  BY DEF SubmitHash
<1>2. req[r] \in Request /\ SoundRequest(req[r], seen, lost)
  BY AtHand
<1>3. "probe" \in DOMAIN Stages /\ "resolve" \in PcStates
  BY DEF Stages, PcStates
<1>4. new \in Request
  BY <1>2, <1>3 DEF Request
<1>5. /\ new.pc = "resolve" /\ new.op = "probe" /\ new.sha = s
      /\ new.stage = req[r].stage /\ new.events = req[r].events
  BY <1>2 DEF Request
<1> HIDE DEF new
<1>6. req[r].stage = 1 /\ req[r].events = <<>>
  BY <1>2 DEF SubmitHash, SoundRequest
<1>7. SoundRequest(new, seen, lost)
  BY <1>5, <1>6 DEF SoundRequest
<1>8. UNCHANGED <<seen, tier, window, lost, raised>> /\ faults' \in 0 .. MaxFaults
  BY <1>1 DEF storeVars, tier, IInv, TypeOK, StoresTypeOK
<1>9. QED
  BY <1>1, <1>4, <1>7, <1>8, RequestMovesAlone

LEMMA ResolveSound ==
    ASSUME IInv, NEW r \in Requests, Resolve(r), UNCHANGED specVars
    PROVE  IInv'
<1> DEFINE key == Scoped(req[r].sha, req[r].tenant)
<1>1. PICK raw : /\ raw \in {blobs[key], None}
                 /\ ReadOutcome(blobs[key], raw)
                 /\ IF raw = None
                      THEN Become(r, Finished(req[r], "412"))
                      ELSE Become(r, [req[r] EXCEPT !.pc = "put", !.raw = raw, !.sha = Sha(raw)])
  BY DEF Resolve
<1>2. req[r] \in Request /\ SoundRequest(req[r], seen, lost) /\ req[r].tenant \in Tenants
  BY AtHand
<1>3. UNCHANGED <<seen, tier, window, lost, raised>> /\ faults' \in 0 .. MaxFaults
  BY <1>1, ReadType DEF Resolve, IInv, TypeOK, StoresTypeOK
<1>4. CASE raw = None
  BY <1>1, <1>2, <1>3, <1>4, FinishedSound, RequestMovesAlone DEF Statuses
<1>5. CASE raw # None
  <2> DEFINE new == [req[r] EXCEPT !.pc = "put", !.raw = raw, !.sha = Sha(raw)]
  <2>1. req[r].sha \in Shas /\ req[r].stage = 1 /\ req[r].events = <<>>
    BY <1>2 DEF Resolve, SoundRequest
  <2>2. key \in ScopedKeys /\ key[2] = req[r].sha /\ key[1] = req[r].tenant
        /\ key = <<req[r].tenant, req[r].sha>>
    BY <1>2, <2>1 DEF ScopedKeys, Scoped
  <2> HIDE DEF key
  <2>3. raw = blobs[key]
    BY <1>1, <1>5
  <2>4. raw \in Docs /\ Sha(raw) = req[r].sha /\ key \in seen
    BY <1>5, <2>2, <2>3 DEF IInv, TypeOK, StoresTypeOK, SoundBlobs
  <2>5. "put" \in PcStates /\ Sha(raw) \in Shas
    BY <2>4, ShaType DEF PcStates
  <2>6. new \in Request
    BY <1>2, <2>4, <2>5 DEF Request
  <2>7. /\ new.pc = "put" /\ new.raw = raw /\ new.sha = Sha(raw) /\ new.op = req[r].op
        /\ new.tenant = req[r].tenant /\ new.stage = 1 /\ new.events = <<>>
    BY <1>2, <2>1 DEF Request
  <2> HIDE DEF new
  <2>8. SoundRequest(new, seen, lost)
    BY <2>2, <2>4, <2>7 DEF SoundRequest
  <2>9. Become(r, new)
    BY <1>1, <1>5 DEF new
  <2>10. QED
    BY <1>3, <2>6, <2>8, <2>9, RequestMovesAlone
<1>6. QED
  BY <1>4, <1>5

LEMMA PutSound ==
    ASSUME IInv, NEW r \in Requests, Put(r), UNCHANGED specVars
    PROVE  IInv'
<1> DEFINE new == [req[r] EXCEPT !.pc = "lookup"]
<1>1. Become(r, new) /\ BlobPut(req[r].raw, req[r].tenant) /\ UNCHANGED <<seen, cache, lost, raised>>
  BY DEF Put
<1>2. req[r].pc \notin {"idle", "resolve", "done"} /\ req[r].pc = "put"
  BY DEF Put
<1>3. /\ req[r] \in Request /\ SoundRequest(req[r], seen, lost) /\ req[r].tenant \in Tenants
      /\ req[r].raw \in Docs /\ <<req[r].tenant, Sha(req[r].raw)>> \in seen
  BY <1>2, AtHand
<1>4. new \in Request
  BY <1>3 DEF Request, PcStates
<1>5. /\ new.pc = "lookup" /\ new.raw = req[r].raw /\ new.sha = req[r].sha /\ new.op = req[r].op
      /\ new.tenant = req[r].tenant /\ new.stage = req[r].stage /\ new.events = req[r].events
  BY <1>3 DEF Request
<1> HIDE DEF new
<1>6. SoundRequest(new, seen', lost')
  BY <1>1, <1>2, <1>3, <1>5 DEF SoundRequest
<1>7. /\ blobs' \in [ScopedKeys -> Docs \cup {None}]
      /\ SoundBlobs(blobs', seen)
      /\ gone' \in SUBSET ScopedKeys
      /\ dedupe' \in SUBSET ScopedKeys
      /\ stream' \in Seq(StreamEntry) /\ Len(stream) <= Len(stream')
      /\ trimmed' \in Nat
      /\ window' \in [Shas -> Nat]
      /\ faults' \in 0 .. MaxFaults
  BY <1>1, <1>3, BlobPutSound DEF IInv, TypeOK
<1>8. StoresTypeOK' /\ seen' \in SUBSET (Tenants \X Shas)
  BY <1>1, <1>7 DEF IInv, TypeOK, StoresTypeOK, ApiTypeOK
<1>9. SoundCache(cache', seen', lost') /\ SoundBlobs(blobs', seen') /\ Grows(seen, lost, seen', lost')
  BY <1>1, <1>7, GrowsRefl DEF IInv
<1>10. QED
  BY <1>1, <1>4, <1>6, <1>7, <1>8, <1>9, RequestMoves

LEMMA LookupSound ==
    ASSUME IInv, NEW r \in Requests, Lookup(r), UNCHANGED specVars
    PROVE  IInv'
<1>1. PICK hit : /\ hit \in {cache[Key(r)], None}
                 /\ ReadOutcome(cache[Key(r)], hit)
                 /\ IF hit = None
                      THEN Become(r, [req[r] EXCEPT !.pc = "fill"])
                      ELSE Become(r, [req[r] EXCEPT !.pc = "emit", !.val = hit])
  BY DEF Lookup
<1>2. req[r].pc \notin {"idle", "resolve", "done"} /\ req[r].pc = "lookup"
  BY DEF Lookup
<1>3. /\ req[r] \in Request /\ SoundRequest(req[r], seen, lost) /\ req[r].tenant \in Tenants
      /\ req[r].raw \in Docs /\ req[r].sha = Sha(req[r].raw) /\ Kind(r) \in CachedKinds
  BY <1>2, AtHand
<1>4. UNCHANGED <<seen, tier, window, lost, raised>> /\ faults' \in 0 .. MaxFaults
  BY <1>1, ReadType DEF Lookup, IInv, TypeOK, StoresTypeOK
<1>5. CASE hit = None
  <2> DEFINE new == [req[r] EXCEPT !.pc = "fill"]
  <2>1. new \in Request
    BY <1>3 DEF Request, PcStates
  <2>2. /\ new.pc = "fill" /\ new.raw = req[r].raw /\ new.sha = req[r].sha /\ new.op = req[r].op
        /\ new.tenant = req[r].tenant /\ new.stage = req[r].stage /\ new.events = req[r].events
    BY <1>3 DEF Request
  <2>3. Become(r, new)
    BY <1>1, <1>5
  <2> HIDE DEF new
  <2>4. SoundRequest(new, seen, lost)
    BY <1>2, <1>3, <2>2 DEF SoundRequest
  <2>5. QED
    BY <1>4, <2>1, <2>3, <2>4, RequestMovesAlone
<1>6. CASE hit # None
  <2> DEFINE new == [req[r] EXCEPT !.pc = "emit", !.val = hit]
  <2>1. Key(r) \in CacheKeys /\ Key(r).sha = req[r].sha /\ Key(r).kind = Kind(r)
    BY <1>3, KeyTypes DEF Key, CacheKey
  <2>2. hit = cache[Key(r)]
    BY <1>1, <1>6
  <2>3. hit \in Document /\ Sha(hit.doc) = req[r].sha /\ ExplainedBy(Kind(r), hit, lost)
    BY <1>6, <2>1, <2>2 DEF IInv, TypeOK, StoresTypeOK, SoundCache
  <2>4. new \in Request
    BY <1>3, <2>3 DEF Request, PcStates
  <2>5. /\ new.pc = "emit" /\ new.val = hit /\ new.raw = req[r].raw /\ new.sha = req[r].sha
        /\ new.op = req[r].op /\ new.tenant = req[r].tenant /\ new.stage = req[r].stage
        /\ new.events = req[r].events
    BY <1>3 DEF Request
  <2>6. Become(r, new)
    BY <1>1, <1>6
  <2> HIDE DEF new
  <2>7. SoundRequest(new, seen, lost)
    BY <1>2, <1>3, <2>3, <2>5 DEF SoundRequest, Kind
  <2>8. QED
    BY <1>4, <2>4, <2>6, <2>7, RequestMovesAlone
<1>7. QED
  BY <1>5, <1>6

LEMMA FillStepSound ==
    ASSUME IInv, NEW r \in Requests, Fill(r), UNCHANGED specVars
    PROVE  IInv'
<1> DEFINE raw == req[r].raw
<1>1. PICK failed \in SUBSET (PassesOf[Kind(r)] \cap Faulty), stored \in BOOLEAN :
          LET value == Extracted(raw, PassesOf[Kind(r)], failed)
          IN  /\ PassesFail(raw, failed)
              /\ CacheSet(Key(r), value, stored)
              /\ Charge(Cost(failed # {}) + Cost(~stored))
              /\ Become(r, [req[r] EXCEPT !.pc = "emit", !.val = value])
  BY DEF Fill
<1> DEFINE value == Extracted(raw, PassesOf[Kind(r)], failed)
           new == [req[r] EXCEPT !.pc = "emit", !.val = value]
<1>2. req[r].pc \notin {"idle", "resolve", "done"} /\ req[r].pc = "fill"
  BY DEF Fill
<1>3. /\ req[r] \in Request /\ SoundRequest(req[r], seen, lost) /\ req[r].tenant \in Tenants
      /\ raw \in Docs /\ req[r].sha = Sha(raw) /\ Kind(r) \in CachedKinds
      /\ <<req[r].tenant, Sha(raw)>> \in seen
  BY <1>2, AtHand
<1>4. StoresTypeOK /\ SoundCache(cache, seen, lost)
  BY DEF IInv, TypeOK
<1>5. /\ failed \in SUBSET PassesOf[Kind(r)] /\ PassesOf[Kind(r)] \in SUBSET PassesOf[Kind(r)]
      /\ PassesOf[Kind(r)] \ PassesOf[Kind(r)] \subseteq lost[raw]
      /\ cache' \in {cache, [cache EXCEPT ![CacheKey(raw, Kind(r), req[r].tenant)] = value]}
      /\ PassesFail(raw, failed)
  BY <1>1 DEF Key, CacheSet
<1>6. /\ value \in Document /\ value.doc = raw /\ ExplainedBy(Kind(r), value, lost')
      /\ lost' \in [Docs -> SUBSET Passes] /\ Grows(seen, lost, seen, lost')
      /\ cache' \in [CacheKeys -> Document \cup {None}]
      /\ SoundCache(cache', seen, lost')
  <2>1. FillsWith(raw, Kind(r), req[r].tenant, PassesOf[Kind(r)], failed)
    BY <1>3, <1>5 DEF FillsWith
  <2>2. FillResult(raw, Kind(r), value)
    BY <1>4, <2>1, FillSound
  <2>3. QED
    BY <2>2 DEF FillResult
<1>7. faults' \in 0 .. MaxFaults
  <2>1. Cost(failed # {}) + Cost(~stored) \in Nat
    BY DEF Cost
  <2>2. QED
    BY <1>1, <1>4, <2>1, ChargeType DEF StoresTypeOK
<1>8. UNCHANGED <<seen, blobs, dedupe, stream, trimmed, gone, window, raised>>
  BY <1>5 DEF Fill, PassesFail
<1>9. Become(r, new)
  BY <1>1
<1> HIDE DEF value
<1>10. new \in Request
  BY <1>3, <1>6 DEF Request, PcStates
<1>11. /\ new.pc = "emit" /\ new.val = value /\ new.raw = raw /\ new.sha = req[r].sha
       /\ new.op = req[r].op /\ new.tenant = req[r].tenant /\ new.stage = req[r].stage
       /\ new.events = req[r].events
  BY <1>3 DEF Request
<1>12. SoundRequest(req[r], seen, lost')
  BY <1>3, <1>6, RequestStaysSound
<1> HIDE DEF new
<1>13. SoundRequest(new, seen, lost')
  BY <1>2, <1>3, <1>6, <1>11, <1>12 DEF SoundRequest, Kind
<1>14. StoresTypeOK' /\ seen' \in SUBSET (Tenants \X Shas) /\ Len(stream) <= Len(stream')
  BY <1>6, <1>7, <1>8 DEF IInv, TypeOK, StoresTypeOK, ApiTypeOK
<1>15. SoundBlobs(blobs', seen') /\ seen' = seen
  BY <1>8 DEF IInv
<1>16. QED
  BY <1>6, <1>8, <1>9, <1>10, <1>13, <1>14, <1>15, RequestMoves

LEMMA AssembleSound ==
    ASSUME IInv, NEW r \in Requests, Assemble(r), UNCHANGED specVars
    PROVE  IInv'
<1> DEFINE raw == req[r].raw
           passes == req[r].kept \cup {"fitz"}
<1>1. PICK failed \in SUBSET ({"fitz"} \cap Faulty), stored \in BOOLEAN :
          LET value == Extracted(raw, passes, failed)
          IN  /\ PassesFail(raw, failed)
              /\ CacheSet(Key(r), value, stored)
              /\ Charge(Cost(failed # {}) + Cost(~stored))
              /\ Become(r, [req[r] EXCEPT !.pc = "emit", !.val = value])
  BY DEF Assemble
<1> DEFINE value == Extracted(raw, passes, failed)
           new == [req[r] EXCEPT !.pc = "emit", !.val = value]
<1>2. req[r].pc \notin {"idle", "resolve", "done"} /\ req[r].pc = "assemble"
  BY DEF Assemble
<1>3. /\ req[r] \in Request /\ SoundRequest(req[r], seen, lost) /\ req[r].tenant \in Tenants
      /\ raw \in Docs /\ req[r].sha = Sha(raw) /\ Kind(r) \in CachedKinds
      /\ <<req[r].tenant, Sha(raw)>> \in seen
  BY <1>2, AtHand
<1>4. StoresTypeOK /\ SoundCache(cache, seen, lost)
  BY DEF IInv, TypeOK
<1>5. /\ req[r].op = "granular" /\ req[r].stage = 2 /\ req[r].kept \subseteq PikepdfPasses
      /\ PikepdfPasses \ req[r].kept \subseteq lost[raw]
  BY <1>2, <1>3 DEF SoundRequest
<1>6. Kind(r) = "extract" /\ PassesOf["extract"] = Passes
  BY <1>3, <1>5, StagesFacts DEF Kind, PassesOf, CachedKinds
<1>7. /\ passes \in SUBSET PassesOf[Kind(r)] /\ failed \in SUBSET passes
      /\ PassesOf[Kind(r)] \ passes \subseteq lost[raw]
  BY <1>5, <1>6 DEF Passes
<1>8. cache' \in {cache, [cache EXCEPT ![CacheKey(raw, Kind(r), req[r].tenant)] = value]} /\ PassesFail(raw, failed)
  BY <1>1 DEF Key, CacheSet
<1>9. faults' \in 0 .. MaxFaults
  <2>1. Cost(failed # {}) + Cost(~stored) \in Nat
    BY DEF Cost
  <2>2. QED
    BY <1>1, <1>4, <2>1, ChargeType DEF StoresTypeOK
<1>10. Become(r, new)
  BY <1>1
<1> HIDE DEF passes
<1>11. /\ value \in Document /\ value.doc = raw /\ ExplainedBy(Kind(r), value, lost')
       /\ lost' \in [Docs -> SUBSET Passes] /\ Grows(seen, lost, seen, lost')
       /\ cache' \in [CacheKeys -> Document \cup {None}]
       /\ SoundCache(cache', seen, lost')
  <2>1. FillsWith(raw, Kind(r), req[r].tenant, passes, failed)
    BY <1>3, <1>7, <1>8 DEF FillsWith
  <2>2. FillResult(raw, Kind(r), value)
    BY <1>4, <2>1, FillSound
  <2>3. QED
    BY <2>2 DEF FillResult
<1>12. UNCHANGED <<seen, blobs, dedupe, stream, trimmed, gone, window, raised>>
  BY <1>8 DEF Assemble, PassesFail
<1> HIDE DEF value
<1>13. new \in Request
  BY <1>3, <1>11 DEF Request, PcStates
<1>14. /\ new.pc = "emit" /\ new.val = value /\ new.raw = raw /\ new.sha = req[r].sha
       /\ new.op = req[r].op /\ new.tenant = req[r].tenant /\ new.stage = req[r].stage
       /\ new.events = req[r].events
  BY <1>3 DEF Request
<1>15. SoundRequest(req[r], seen, lost')
  BY <1>3, <1>11, RequestStaysSound
<1> HIDE DEF new
<1>16. SoundRequest(new, seen, lost')
  BY <1>2, <1>3, <1>11, <1>14, <1>15 DEF SoundRequest, Kind
<1>17. StoresTypeOK' /\ seen' \in SUBSET (Tenants \X Shas) /\ Len(stream) <= Len(stream')
  BY <1>9, <1>11, <1>12 DEF IInv, TypeOK, StoresTypeOK, ApiTypeOK
<1>18. SoundBlobs(blobs', seen') /\ seen' = seen
  BY <1>12 DEF IInv
<1>19. QED
  BY <1>10, <1>11, <1>12, <1>13, <1>16, <1>17, <1>18, RequestMoves

LEMMA EmitSound ==
    ASSUME IInv, NEW r \in Requests, Emit(r), UNCHANGED specVars
    PROVE  IInv'
<1> DEFINE e == EventOf(Kind(r), req[r].val)
           q == WithEvent(req[r], e)
<1>1. req[r].pc \notin {"idle", "resolve", "done"} /\ req[r].pc = "emit"
  BY DEF Emit
<1>2. /\ req[r] \in Request /\ SoundRequest(req[r], seen, lost) /\ req[r].tenant \in Tenants
      /\ req[r].raw \in Docs /\ req[r].sha = Sha(req[r].raw) /\ Kind(r) \in CachedKinds
      /\ <<req[r].tenant, Sha(req[r].raw)>> \in seen
  BY <1>1, AtHand
<1>3. /\ req[r].val \in Document /\ Sha(req[r].val.doc) = req[r].sha
      /\ ExplainedBy(Kind(r), req[r].val, lost)
  BY <1>1, <1>2 DEF SoundRequest, Kind
<1>4. e \in Event /\ e.kind = Kind(r) /\ e.doc = req[r].val.doc /\ ExplainedBy(e.kind, e, lost)
  BY <1>2, <1>3 DEF EventOf, Event, EventKinds, Document, ExplainedBy
<1> HIDE DEF e
<1>5. q \in Request /\ SoundRequest(q, seen, lost) /\ q.pc = "emit"
  <2>1. q \in Request /\ SoundRequest(q, seen, lost)
    BY <1>1, <1>2, <1>3, <1>4, WithEventSound
  <2>2. q.pc = "emit"
    BY <1>1, <1>2 DEF WithEvent, Request
  <2>3. QED
    BY <2>1, <2>2
<1>6. Become(r, Advanced(q)) /\ UNCHANGED <<seen, storeVars>>
  BY DEF Emit, e
<1> HIDE DEF q
<1>7. Advanced(q) \in Request /\ SoundRequest(Advanced(q), seen, lost)
  BY <1>5, AdvancedSound
<1>8. UNCHANGED <<seen, tier, window, lost, raised>> /\ faults' \in 0 .. MaxFaults
  BY <1>6 DEF storeVars, tier, IInv, TypeOK, StoresTypeOK
<1>9. QED
  BY <1>6, <1>7, <1>8, RequestMovesAlone

LEMMA FillRaisesSound ==
    ASSUME IInv, NEW r \in Requests, FillRaises(r), UNCHANGED specVars
    PROVE  IInv'
<1> DEFINE new == IF req[r].op = "extract" THEN Finished(req[r], "500") ELSE Advanced(req[r])
<1>1. Become(r, new) /\ UNCHANGED <<seen, tier, window, lost>> /\ Fault
      /\ raised' = raised \cup {req[r].raw}
  BY DEF FillRaises, ExtractorRaises
<1>2. req[r].pc \notin {"idle", "resolve", "done"} /\ req[r].pc = "fill"
  BY DEF FillRaises
<1>3. req[r] \in Request /\ SoundRequest(req[r], seen, lost) /\ req[r].raw \in Docs
  BY <1>2, AtHand
<1>4. new \in Request /\ SoundRequest(new, seen, lost)
  BY <1>2, <1>3, FinishedSound, AdvancedSound DEF Statuses
<1> HIDE DEF new
<1>5. faults' \in 0 .. MaxFaults
  BY <1>1, ChargeType DEF Fault, IInv, TypeOK, StoresTypeOK
<1>6. StoresTypeOK' /\ seen' \in SUBSET (Tenants \X Shas) /\ Len(stream) <= Len(stream')
  BY <1>1, <1>3, <1>5 DEF IInv, TypeOK, StoresTypeOK, ApiTypeOK, tier
<1>7. /\ SoundCache(cache', seen', lost') /\ SoundBlobs(blobs', seen')
      /\ Grows(seen, lost, seen', lost') /\ SoundRequest(new, seen', lost')
  BY <1>1, <1>4, GrowsRefl DEF IInv, tier
<1>8. QED
  BY <1>1, <1>4, <1>6, <1>7, RequestMoves

LEMMA AssembleRaisesSound ==
    ASSUME IInv, NEW r \in Requests, AssembleRaises(r), UNCHANGED specVars
    PROVE  IInv'
<1> DEFINE new == Finished(req[r], "200")
<1>1. Become(r, new) /\ UNCHANGED <<seen, tier, window, lost>> /\ Fault
      /\ raised' = raised \cup {req[r].raw}
  BY DEF AssembleRaises, ExtractorRaises
<1>2. req[r].pc \notin {"idle", "resolve", "done"}
  BY DEF AssembleRaises
<1>3. req[r] \in Request /\ SoundRequest(req[r], seen, lost) /\ req[r].raw \in Docs
  BY <1>2, AtHand
<1>4. new \in Request /\ SoundRequest(new, seen, lost)
  BY <1>3, FinishedSound DEF Statuses
<1> HIDE DEF new
<1>5. faults' \in 0 .. MaxFaults
  BY <1>1, ChargeType DEF Fault, IInv, TypeOK, StoresTypeOK
<1>6. StoresTypeOK' /\ seen' \in SUBSET (Tenants \X Shas) /\ Len(stream) <= Len(stream')
  BY <1>1, <1>3, <1>5 DEF IInv, TypeOK, StoresTypeOK, ApiTypeOK, tier
<1>7. /\ SoundCache(cache', seen', lost') /\ SoundBlobs(blobs', seen')
      /\ Grows(seen, lost, seen', lost') /\ SoundRequest(new, seen', lost')
  BY <1>1, <1>4, GrowsRefl DEF IInv, tier
<1>8. QED
  BY <1>1, <1>4, <1>6, <1>7, RequestMoves

LEMMA AbortSound ==
    ASSUME IInv, NEW r \in Requests, Abort(r), UNCHANGED specVars
    PROVE  IInv'
<1>1. req[r] \in Request /\ SoundRequest(req[r], seen, lost)
  BY AtHand
<1>2. Finished(req[r], "aborted") \in Request /\ SoundRequest(Finished(req[r], "aborted"), seen, lost)
  BY <1>1, FinishedSound DEF Statuses
<1>3. faults' \in 0 .. MaxFaults
  BY ChargeType DEF Abort, Fault, IInv, TypeOK, StoresTypeOK
<1>4. QED
  BY <1>2, <1>3, RequestMovesAlone DEF Abort

LEMMA PublishSpeculateSound ==
    ASSUME IInv, NEW r \in Requests, PublishSpeculate(r), UNCHANGED specVars
    PROVE  IInv'
<1> DEFINE new == Finished(req[r], "200")
           e == [sha |-> req[r].sha, tenant |-> NoTenant, source |-> "probe"]
<1>1. req[r].pc \notin {"idle", "resolve", "done"}
  BY DEF PublishSpeculate
<1>2. req[r] \in Request /\ SoundRequest(req[r], seen, lost) /\ req[r].sha \in Shas
  BY <1>1, AtHand, ShaType
<1>3. new \in Request /\ SoundRequest(new, seen, lost)
  BY <1>2, FinishedSound DEF Statuses
<1>4. Become(r, new) /\ UNCHANGED <<seen, cache, blobs, gone, lost, raised>>
  BY DEF PublishSpeculate
<1>5. e \in StreamEntry /\ Unscoped(req[r].sha) \in ScopedKeys
  BY <1>2 DEF StreamEntry, Unscoped, ScopedKeys
<1>6. XAddIfNew(Unscoped(req[r].sha), e)
  BY DEF PublishSpeculate
<1> HIDE DEF new, e
<1>7. /\ dedupe' \in SUBSET ScopedKeys
      /\ stream' \in Seq(StreamEntry) /\ Len(stream) <= Len(stream')
      /\ trimmed' \in Nat
      /\ window' \in [Shas -> Nat]
      /\ faults' \in 0 .. MaxFaults
  BY <1>5, <1>6, XAddIfNewTypes DEF IInv, TypeOK
<1>8. StoresTypeOK' /\ seen' \in SUBSET (Tenants \X Shas)
  BY <1>4, <1>7 DEF IInv, TypeOK, StoresTypeOK, ApiTypeOK
<1>9. /\ SoundCache(cache', seen', lost') /\ SoundBlobs(blobs', seen')
      /\ Grows(seen, lost, seen', lost') /\ SoundRequest(new, seen', lost')
  BY <1>3, <1>4, GrowsRefl DEF IInv
<1>10. QED
  BY <1>3, <1>4, <1>7, <1>8, <1>9, RequestMoves

LEMMA PassSettlesSound ==
    ASSUME IInv, NEW r \in Requests, NEW p \in PikepdfPasses, PassSettles(r, p),
           UNCHANGED specVars
    PROVE  IInv'
<1> DEFINE raw == req[r].raw
           rest == req[r].pending \ {p}
<1>1. PICK failed \in SUBSET ({p} \cap Faulty) :
          /\ PassesFail(raw, failed)
          /\ Charge(Cost(failed # {}))
          /\ Become(r, WithEvent([req[r] EXCEPT !.pending = rest,
                                     !.kept = @ \cup ({p} \ failed),
                                     !.pc = IF rest = {} THEN "assemble" ELSE "passes"],
                                 EventOf(p, Extracted(raw, {p}, failed))))
  BY DEF PassSettles
<1> DEFINE next == [req[r] EXCEPT !.pending = rest, !.kept = @ \cup ({p} \ failed),
                                  !.pc = IF rest = {} THEN "assemble" ELSE "passes"]
           e == EventOf(p, Extracted(raw, {p}, failed))
<1>2. req[r].pc = "passes" /\ req[r].pc \notin {"idle", "resolve", "done"}
  BY DEF PassSettles
<1>3. /\ req[r] \in Request /\ SoundRequest(req[r], seen, lost) /\ req[r].tenant \in Tenants
      /\ raw \in Docs /\ req[r].sha = Sha(raw) /\ <<req[r].tenant, Sha(raw)>> \in seen
  BY <1>2, AtHand
<1>4. /\ req[r].op = "granular" /\ req[r].stage = 2 /\ req[r].kept \subseteq PikepdfPasses
      /\ (PikepdfPasses \ req[r].kept) \ req[r].pending \subseteq lost[raw]
  BY <1>2, <1>3 DEF SoundRequest
<1>5. {p} \in SUBSET Passes /\ failed \in SUBSET {p}
  BY DEF Passes
<1>6. lost \in [Docs -> SUBSET Passes]
  BY DEF IInv, TypeOK, StoresTypeOK
<1>7. /\ lost' \in [Docs -> SUBSET Passes]
      /\ \A d \in Docs : lost[d] \subseteq lost'[d]
      /\ failed \subseteq lost'[raw]
  BY <1>1, <1>3, <1>5, <1>6, ExtractionSound
<1>8. UNCHANGED <<seen, tier, window, raised>>
  BY <1>1 DEF PassSettles, PassesFail
<1>9. faults' \in 0 .. MaxFaults
  <2>1. Cost(failed # {}) \in Nat
    BY DEF Cost
  <2>2. QED
    BY <1>1, <2>1, ChargeType DEF IInv, TypeOK, StoresTypeOK
<1>10. p \notin CachedKinds /\ Whole(p) = {p}
  BY StoresAssumption DEF CachedKinds, Whole
<1>11. e \in Event /\ e.kind = p /\ e.doc = raw /\ ExplainedBy(e.kind, e, lost')
  <2>1. e.kind = p /\ e.doc = raw /\ e.got = {p} \ failed
    BY DEF EventOf, Extracted
  <2>2. e \in Event
    BY <1>3, <1>5 DEF EventOf, Extracted, Event, EventKinds
  <2>3. ExplainedBy(e.kind, e, lost')
    BY <1>5, <1>7, <1>10, <2>1 DEF ExplainedBy
  <2>4. QED
    BY <2>1, <2>2, <2>3
<1>12. Grows(seen, lost, seen, lost')
  BY <1>7 DEF Grows
<1>13. SoundRequest(req[r], seen, lost')
  BY <1>3, <1>12, RequestStaysSound
<1>14. Become(r, WithEvent(next, e))
  BY <1>1
<1> HIDE DEF e
<1>15. next \in Request /\ SoundRequest(next, seen, lost') /\ next.pc \notin {"idle", "resolve"}
       /\ next.tenant = req[r].tenant /\ next.sha = req[r].sha
  <2>1. next \in Request
    BY <1>3, <1>4 DEF Request, PcStates
  <2>2. /\ next.pending = rest /\ next.kept = req[r].kept \cup ({p} \ failed)
        /\ next.pc = IF rest = {} THEN "assemble" ELSE "passes"
        /\ next.op = req[r].op /\ next.stage = req[r].stage /\ next.raw = raw
        /\ next.sha = req[r].sha /\ next.tenant = req[r].tenant
        /\ next.events = req[r].events
    BY <1>3 DEF Request
  <2> HIDE DEF next
  <2>3. next.kept \subseteq PikepdfPasses
    BY <1>4, <2>2
  <2>4. (PikepdfPasses \ next.kept) \ next.pending \subseteq lost'[raw]
    BY <1>3, <1>4, <1>7, <2>2
  <2>5. next.pc \in {"passes", "assemble"} /\ (next.pc = "assemble" => next.pending = {})
    BY <2>2
  <2>6. SoundRequest(next, seen, lost')
    BY <1>3, <1>4, <1>13, <2>2, <2>3, <2>4, <2>5 DEF SoundRequest
  <2>7. QED
    BY <2>1, <2>2, <2>5, <2>6
<1> HIDE DEF next
<1>16. WithEvent(next, e) \in Request /\ SoundRequest(WithEvent(next, e), seen, lost')
  BY <1>3, <1>11, <1>15, WithEventSound
<1>17. StoresTypeOK' /\ seen' \in SUBSET (Tenants \X Shas) /\ Len(stream) <= Len(stream')
  BY <1>7, <1>8, <1>9 DEF IInv, TypeOK, StoresTypeOK, ApiTypeOK, tier
<1>18. SoundCache(cache', seen, lost') /\ SoundBlobs(blobs', seen) /\ seen' = seen
  BY <1>8, <1>12, CacheStaysSound DEF IInv, TypeOK, StoresTypeOK, tier
<1>19. QED
  BY <1>8, <1>12, <1>14, <1>16, <1>17, <1>18, RequestMoves

----------------------------------------------------------------------------
(* One lemma per action of the consumer.                                   *)

\* A step of the consumer that may set a cache entry.
LEMMA ConsumerMoves ==
    ASSUME IInv, UNCHANGED <<apiVars, blobs, stream>>, StoresTypeOK', SpecTypeOK',
           Grows(seen, lost, seen, lost'), SoundCache(cache', seen, lost'),
           SoundConsumer(spec', seen)
    PROVE  IInv'
<1>1. seen' = seen /\ req' = req /\ blobs' = blobs /\ stream' = stream
  BY DEF apiVars
<1>2. ApiTypeOK'
  BY <1>1 DEF IInv, TypeOK, ApiTypeOK
<1>3. ASSUME NEW x \in Requests PROVE SoundRequest(req'[x], seen', lost')
  BY <1>1, RequestStaysSound DEF IInv, TypeOK, ApiTypeOK
<1>4. SoundConsumer(spec, seen)'
  BY <1>1 DEF SoundConsumer
<1>5. QED
  BY <1>1, <1>2, <1>3, <1>4 DEF IInv, TypeOK

\* A step of the consumer that only moves it.
LEMMA ConsumerMovesAlone ==
    ASSUME IInv, UNCHANGED <<apiVars, tier, window, lost, raised>>,
           faults' \in 0 .. MaxFaults, SpecTypeOK', SoundConsumer(spec', seen)
    PROVE  IInv'
<1>1. StoresTypeOK' /\ UNCHANGED <<apiVars, blobs, stream>>
  BY DEF IInv, TypeOK, StoresTypeOK, tier
<1>2. Grows(seen, lost, seen, lost') /\ SoundCache(cache', seen, lost')
  BY GrowsRefl DEF IInv, tier
<1>3. QED
  BY <1>1, <1>2, ConsumerMoves

\* The message at hand is finished with.
LEMMA FinishSound ==
    ASSUME IInv, NEW c \in Counters, Finish(c)
    PROVE  SpecTypeOK' /\ SoundConsumer(spec', seen)
<1>1. spec \in SpecState /\ handled \in SUBSET Nat /\ spec.last \in Nat
  BY DEF IInv, TypeOK, SpecTypeOK, SpecState
<1>2. Counted(spec, c) \in SpecState
  <2>1. [spec.count EXCEPT ![c] = @ + 1] \in [Counters -> Nat]
    BY <1>1 DEF SpecState
  <2>2. Counted(spec, c) = [spec EXCEPT !.count = [spec.count EXCEPT ![c] = @ + 1]]
    BY <1>1 DEF Counted, SpecState
  <2>3. QED
    BY <1>1, <2>1, <2>2 DEF SpecState
<1>3. MessageDone(spec, c) \in SpecState
  BY <1>2 DEF MessageDone, SpecState
<1>4. MessageDone(spec, c).pc = "idle" /\ MessageDone(spec, c).batch = spec.batch
  BY <1>1 DEF MessageDone, Counted, SpecState
<1>5. spec' = MessageDone(spec, c) /\ handled' \in SUBSET Nat
  BY <1>1 DEF Finish
<1>6. QED
  BY <1>3, <1>4, <1>5 DEF SpecTypeOK, SoundConsumer, IInv

LEMMA XReadSound ==
    ASSUME IInv, XRead, UNCHANGED apiVars
    PROVE  IInv'
<1> DEFINE first == IF spec.last > trimmed THEN spec.last ELSE trimmed
           size == IF Cardinality(Ready) < BatchSize THEN Cardinality(Ready) ELSE BatchSize
           n == Len(stream)
<1>1. spec \in SpecState /\ spec.last \in Nat /\ trimmed \in Nat /\ n \in Nat
  BY DEF IInv, TypeOK, SpecTypeOK, SpecState, StoresTypeOK
<1>2. Ready = (first + 1) .. n /\ first \in Nat
  BY <1>1 DEF Ready
<1>3. first + 1 <= n
  <2>1. Ready # {}
    BY DEF XRead
  <2>2. QED
    BY <1>1, <1>2, <2>1
<1>4. Cardinality(Ready) = n - first
  <2> HIDE DEF first, n
  <2>1. first + 1 \in Int /\ n \in Int /\ ~(first + 1 > n)
    BY <1>1, <1>2, <1>3
  <2>2. Cardinality((first + 1) .. n) = n - (first + 1) + 1
    BY <2>1, FS_Interval
  <2>3. QED
    BY <1>1, <1>2, <2>2
<1>5. size \in Nat /\ size <= n - first
  BY <1>1, <1>2, <1>3, <1>4, SpeculatorAssumption
<1>6. Reply = [i \in 1 .. size |-> first + i]
  BY DEF Reply
<1> HIDE DEF first, size
<1>7. Reply \in Seq(1 .. n)
  <2>1. \A i \in 1 .. size : first + i \in 1 .. n
    BY <1>1, <1>2, <1>5
  <2>2. Reply \in [1 .. size -> 1 .. n]
    BY <1>6, <2>1
  <2>3. QED
    BY <1>5, <2>2
<1>8. Reply \in Seq(Nat)
  <2>1. 1 .. n \subseteq Nat
    BY <1>1
  <2>2. QED
    BY <1>7, <2>1
<1> DEFINE new == [spec EXCEPT !.batch = Reply]
<1>9. spec' = new /\ handled' = handled /\ UNCHANGED storeVars
  BY DEF XRead
<1>10. new \in SpecState /\ new.batch = Reply /\ new.pc = "idle"
  BY <1>1, <1>8 DEF SpecState, XRead
<1> HIDE DEF new
<1>11. SpecTypeOK' /\ SoundConsumer(spec', seen)
  BY <1>7, <1>9, <1>10 DEF SpecTypeOK, SoundConsumer, IInv, TypeOK
<1>12. QED
  BY <1>9, <1>11, ConsumerMovesAlone DEF storeVars, tier, IInv, TypeOK, StoresTypeOK

LEMMA XReadFailsSound ==
    ASSUME IInv, XReadFails, UNCHANGED apiVars
    PROVE  IInv'
<1>1. spec \in SpecState
  BY DEF IInv, TypeOK, SpecTypeOK
<1>2. Counted(spec, "errors") \in SpecState
  BY <1>1 DEF Counted, SpecState, Counters
<1>3. Counted(spec, "errors").pc = spec.pc /\ Counted(spec, "errors").batch = spec.batch
  BY <1>1 DEF Counted, SpecState
<1>4. spec' = Counted(spec, "errors") /\ handled' = handled /\ spec.pc = "idle"
  BY DEF XReadFails
<1>5. SpecTypeOK' /\ SoundConsumer(spec', seen)
  BY <1>2, <1>3, <1>4 DEF SpecTypeOK, SoundConsumer, IInv, TypeOK
<1>6. faults' \in 0 .. MaxFaults
  BY ChargeType DEF XReadFails, Fault, IInv, TypeOK, StoresTypeOK
<1>7. QED
  BY <1>5, <1>6, ConsumerMovesAlone DEF XReadFails

LEMMA TakeMessageSound ==
    ASSUME IInv, TakeMessage, UNCHANGED apiVars
    PROVE  IInv'
<1> DEFINE id == Head(spec.batch)
           new == [spec EXCEPT !.pc = "fetch", !.last = id, !.batch = Tail(spec.batch),
                               !.sha = stream[id].sha]
<1>1. spec \in SpecState /\ spec.batch \in Seq(Nat) /\ spec.batch # <<>>
  BY DEF IInv, TypeOK, SpecTypeOK, SpecState, TakeMessage
<1>2. /\ id \in Nat /\ Tail(spec.batch) \in Seq(Nat)
      /\ id = spec.batch[1] /\ 1 \in DOMAIN spec.batch
      /\ \A i \in DOMAIN Tail(spec.batch) :
            i + 1 \in DOMAIN spec.batch /\ Tail(spec.batch)[i] = spec.batch[i + 1]
  BY <1>1
<1>3. \A i \in DOMAIN spec.batch : spec.batch[i] \in 1 .. Len(stream)
  BY DEF IInv, SoundConsumer
<1>4. stream[id] \in StreamEntry
  BY <1>2, <1>3 DEF IInv, TypeOK, StoresTypeOK
<1>5. stream[id].sha \in Shas
  BY <1>4 DEF StreamEntry
<1>6. new \in SpecState
  BY <1>1, <1>2, <1>5 DEF SpecState
<1>7. new.pc = "fetch" /\ new.batch = Tail(spec.batch) /\ new.sha = stream[id].sha
  BY <1>1 DEF SpecState
<1>8. spec' = new /\ handled' = handled /\ UNCHANGED storeVars
  BY DEF TakeMessage
<1> HIDE DEF new, id
<1>9. \A i \in DOMAIN new.batch : new.batch[i] \in 1 .. Len(stream)
  BY <1>2, <1>3, <1>7
<1>10. SpecTypeOK' /\ SoundConsumer(spec', seen)
  BY <1>5, <1>6, <1>7, <1>8, <1>9 DEF SpecTypeOK, SoundConsumer, IInv, TypeOK
<1>11. QED
  BY <1>8, <1>10, ConsumerMovesAlone DEF storeVars, tier, IInv, TypeOK, StoresTypeOK

\* The unscoped key holds no blob (its tenant segment is no tenant); what the
\* fallback finds the default tenant has sent.
LEMMA FetchBlobSound ==
    ASSUME IInv, FetchBlob, UNCHANGED apiVars
    PROVE  IInv'
<1>1. PICK blob \in Docs \cup {None}, failures \in 0 .. 2 :
          /\ \/ failures = 0 /\ blob = blobs[BlobGetKey(spec.sha)]
             \/ failures = 1 /\ blob = blobs[Scoped(spec.sha, DefaultTenant)]
             \/ failures = 2 /\ blob = None
          /\ Charge(failures)
          /\ IF blob = None
               THEN Finish("blob_missing")
               ELSE /\ spec' = [spec EXCEPT !.pc = "check", !.blob = blob]
                    /\ UNCHANGED handled
  BY DEF FetchBlob
<1>2. UNCHANGED <<apiVars, tier, window, lost, raised>>
  BY DEF FetchBlob
<1>3. faults' \in 0 .. MaxFaults
  <2>1. failures \in Nat
    OBVIOUS
  <2>2. QED
    BY <1>1, <2>1, ChargeType DEF IInv, TypeOK, StoresTypeOK
<1>4. CASE blob = None
  BY <1>1, <1>2, <1>3, <1>4, FinishSound, ConsumerMovesAlone DEF Counters
<1>5. CASE blob # None
  <2> DEFINE new == [spec EXCEPT !.pc = "check", !.blob = blob]
  <2>1. spec \in SpecState /\ spec.sha \in Shas
    BY DEF IInv, TypeOK, SpecTypeOK, SoundConsumer, FetchBlob
  <2>2. Unscoped(spec.sha) \in ScopedKeys /\ Unscoped(spec.sha) \notin seen
    BY <2>1, StoresAssumption DEF Unscoped, ScopedKeys, IInv, TypeOK, ApiTypeOK
  <2>3. blobs[Unscoped(spec.sha)] = None
    BY <2>2 DEF IInv, SoundBlobs
  <2>4. blob = blobs[Scoped(spec.sha, DefaultTenant)]
    BY <1>1, <1>5, <2>3 DEF BlobGetKey
  <2>5. /\ Scoped(spec.sha, DefaultTenant) \in ScopedKeys
        /\ Scoped(spec.sha, DefaultTenant) = <<DefaultTenant, spec.sha>>
        /\ Scoped(spec.sha, DefaultTenant)[2] = spec.sha
    BY <2>1, StoresAssumption DEF Scoped, ScopedKeys
  <2>6. blob \in Docs /\ Sha(blob) = spec.sha /\ <<DefaultTenant, spec.sha>> \in seen
    BY <1>5, <2>4, <2>5 DEF IInv, SoundBlobs
  <2>7. new \in SpecState
    BY <2>1, <2>6 DEF SpecState
  <2>8. new.pc = "check" /\ new.blob = blob /\ new.sha = spec.sha /\ new.batch = spec.batch
    BY <2>1 DEF SpecState
  <2>9. spec' = new /\ handled' = handled
    BY <1>1, <1>5
  <2> HIDE DEF new
  <2>10. SpecTypeOK' /\ SoundConsumer(spec', seen)
    BY <2>1, <2>6, <2>7, <2>8, <2>9 DEF SpecTypeOK, SoundConsumer, IInv, TypeOK
  <2>11. QED
    BY <1>2, <1>3, <2>10, ConsumerMovesAlone
<1>6. QED
  BY <1>4, <1>5

LEMMA CheckCachedSound ==
    ASSUME IInv, CheckCached, UNCHANGED apiVars
    PROVE  IInv'
<1>1. PICK hit : /\ ReadOutcome(cache[SpecKey("extract")], hit)
                 /\ IF hit # None
                      THEN Finish("skipped")
                      ELSE spec' = [spec EXCEPT !.pc = "phase1"] /\ UNCHANGED handled
  BY DEF CheckCached
<1>2. UNCHANGED <<apiVars, tier, window, lost, raised>>
  BY DEF CheckCached
<1>3. faults' \in 0 .. MaxFaults
  BY <1>1, ReadType DEF IInv, TypeOK, StoresTypeOK
<1>4. CASE hit # None
  BY <1>1, <1>2, <1>3, <1>4, FinishSound, ConsumerMovesAlone DEF Counters
<1>5. CASE hit = None
  <2> DEFINE new == [spec EXCEPT !.pc = "phase1"]
  <2>1. spec \in SpecState /\ spec.pc = "check"
    BY DEF IInv, TypeOK, SpecTypeOK, CheckCached
  <2>2. new \in SpecState
    BY <2>1 DEF SpecState
  <2>3. new.pc = "phase1" /\ new.blob = spec.blob /\ new.sha = spec.sha /\ new.batch = spec.batch
    BY <2>1 DEF SpecState
  <2>4. spec' = new /\ handled' = handled
    BY <1>1, <1>5
  <2> HIDE DEF new
  <2>5. SpecTypeOK' /\ SoundConsumer(spec', seen)
    BY <2>1, <2>2, <2>3, <2>4 DEF SpecTypeOK, SoundConsumer, IInv, TypeOK
  <2>6. QED
    BY <1>2, <1>3, <2>5, ConsumerMovesAlone
<1>6. QED
  BY <1>4, <1>5

\* A phase of the consumer's work, whatever it does to the consumer.
LEMMA SpecFillSound ==
    ASSUME IInv, NEW kind \in CachedKinds, spec.pc \in {"phase1", "phase2"}, SpecFill(kind),
           UNCHANGED <<apiVars, blobs, dedupe, stream, trimmed, gone, window>>,
           SpecTypeOK', SoundConsumer(spec', seen)
    PROVE  IInv'
<1> DEFINE raw == spec.blob
<1>1. PICK failed \in SUBSET (PassesOf[kind] \cap Faulty), stored \in BOOLEAN :
          /\ PassesFail(raw, failed)
          /\ CacheSet(SpecKey(kind), Extracted(raw, PassesOf[kind], failed), stored)
          /\ Charge(Cost(failed # {}) + Cost(~stored))
  BY DEF SpecFill
<1>2. raw \in Docs /\ <<DefaultTenant, Sha(raw)>> \in seen /\ DefaultTenant \in Tenants
  BY StoresAssumption DEF IInv, SoundConsumer
<1>3. StoresTypeOK /\ SoundCache(cache, seen, lost)
  BY DEF IInv, TypeOK
<1>4. faults' \in 0 .. MaxFaults
  <2>1. Cost(failed # {}) + Cost(~stored) \in Nat
    BY DEF Cost
  <2>2. QED
    BY <1>1, <1>3, <2>1, ChargeType DEF StoresTypeOK
<1>5. FillsWith(raw, kind, DefaultTenant, PassesOf[kind], failed)
  BY <1>1, <1>2 DEF FillsWith, SpecKey, CacheSet
<1>6. FillResult(raw, kind, Extracted(raw, PassesOf[kind], failed))
  BY <1>3, <1>5, FillSound
<1>7. /\ lost' \in [Docs -> SUBSET Passes] /\ Grows(seen, lost, seen, lost')
      /\ cache' \in [CacheKeys -> Document \cup {None}]
      /\ SoundCache(cache', seen, lost')
  BY <1>6 DEF FillResult
<1>8. raised' = raised
  BY <1>1 DEF PassesFail
<1>9. StoresTypeOK'
  BY <1>3, <1>4, <1>7, <1>8 DEF StoresTypeOK
<1>10. QED
  BY <1>7, <1>9, ConsumerMoves

LEMMA FillPhase1Sound ==
    ASSUME IInv, FillPhase1, UNCHANGED apiVars
    PROVE  IInv'
<1> DEFINE new == [spec EXCEPT !.pc = "phase2"]
<1>1. spec \in SpecState /\ spec.pc = "phase1"
  BY DEF IInv, TypeOK, SpecTypeOK, FillPhase1
<1>2. new \in SpecState
  BY <1>1 DEF SpecState
<1>3. new.pc = "phase2" /\ new.blob = spec.blob /\ new.sha = spec.sha /\ new.batch = spec.batch
  BY <1>1 DEF SpecState
<1>4. spec' = new /\ handled' = handled
  BY DEF FillPhase1
<1> HIDE DEF new
<1>5. SpecTypeOK' /\ SoundConsumer(spec', seen)
  BY <1>1, <1>2, <1>3, <1>4 DEF SpecTypeOK, SoundConsumer, IInv, TypeOK
<1>6. "extract-phase-1" \in CachedKinds
  BY DEF CachedKinds
<1>7. QED
  BY <1>1, <1>5, <1>6, SpecFillSound DEF FillPhase1

LEMMA FillPhase2Sound ==
    ASSUME IInv, FillPhase2, UNCHANGED apiVars
    PROVE  IInv'
<1>1. SpecTypeOK' /\ SoundConsumer(spec', seen)
  BY FinishSound DEF FillPhase2, Counters
<1>2. "extract" \in CachedKinds
  BY DEF CachedKinds
<1>3. QED
  BY <1>1, <1>2, SpecFillSound DEF FillPhase2

LEMMA SpecRaisesSound ==
    ASSUME IInv, SpecRaises, UNCHANGED apiVars
    PROVE  IInv'
<1>1. SpecTypeOK' /\ SoundConsumer(spec', seen)
  BY FinishSound DEF SpecRaises, Counters
<1>2. spec.blob \in Docs
  BY DEF SpecRaises, IInv, SoundConsumer
<1>3. /\ UNCHANGED <<tier, window, lost>> /\ Fault /\ raised' = raised \cup {spec.blob}
  BY DEF SpecRaises, ExtractorRaises
<1>4. faults' \in 0 .. MaxFaults
  BY <1>3, ChargeType DEF Fault, IInv, TypeOK, StoresTypeOK
<1>5. StoresTypeOK' /\ UNCHANGED <<blobs, stream>>
  BY <1>2, <1>3, <1>4 DEF IInv, TypeOK, StoresTypeOK, tier
<1>6. Grows(seen, lost, seen, lost') /\ SoundCache(cache', seen, lost')
  BY <1>3, GrowsRefl DEF IInv, tier
<1>7. QED
  BY <1>1, <1>5, <1>6, ConsumerMoves

LEMMA FreshConsumerType == FreshConsumer \in SpecState /\ FreshConsumer.pc = "idle" /\ FreshConsumer.batch = <<>>
BY DEF FreshConsumer, SpecState, Counters

LEMMA RestartSound ==
    ASSUME IInv, Restart, UNCHANGED apiVars
    PROVE  IInv'
<1>1. SpecTypeOK' /\ SoundConsumer(spec', seen)
  BY FreshConsumerType DEF Restart, SpecTypeOK, SoundConsumer
<1>2. faults' \in 0 .. MaxFaults
  BY ChargeType DEF Restart, Fault, IInv, TypeOK, StoresTypeOK
<1>3. QED
  BY <1>1, <1>2, ConsumerMovesAlone DEF Restart

----------------------------------------------------------------------------
(* Expiry only takes entries away.                                         *)

LEMMA ExpirySound ==
    ASSUME IInv, Expiry, UNCHANGED <<apiVars, specVars>>
    PROVE  IInv'
<1> USE DEF apiVars, specVars
<1>0. /\ StoresTypeOK /\ SoundCache(cache, seen, lost) /\ SoundBlobs(blobs, seen)
      /\ \A x \in Requests : SoundRequest(req[x], seen, lost)
  BY DEF IInv, TypeOK
<1>1. ASSUME NEW key \in CacheKeys, CacheExpire(key)
      PROVE  /\ StoresTypeOK' /\ SoundCache(cache', seen, lost) /\ SoundBlobs(blobs', seen)
             /\ UNCHANGED <<stream, lost>>
  <2>1. cache' \in [CacheKeys -> Document \cup {None}]
    BY <1>0, <1>1 DEF CacheExpire, StoresTypeOK
  <2>2. StoresTypeOK'
    BY <1>0, <1>1, <2>1 DEF CacheExpire, StoresTypeOK
  <2>3. SoundCache(cache', seen, lost)
    BY <1>0, <1>1 DEF CacheExpire, StoresTypeOK, SoundCache
  <2>4. QED
    BY <1>0, <1>1, <2>2, <2>3 DEF CacheExpire
<1>2. ASSUME NEW key \in ScopedKeys, BlobExpire(key)
      PROVE  /\ StoresTypeOK' /\ SoundCache(cache', seen, lost) /\ SoundBlobs(blobs', seen)
             /\ UNCHANGED <<stream, lost>>
  <2>1. blobs' \in [ScopedKeys -> Docs \cup {None}]
    BY <1>0, <1>2 DEF BlobExpire, StoresTypeOK
  <2>2. StoresTypeOK'
    BY <1>0, <1>2, <2>1 DEF BlobExpire, StoresTypeOK
  <2>3. SoundBlobs(blobs', seen)
    BY <1>0, <1>2 DEF BlobExpire, StoresTypeOK, SoundBlobs
  <2>4. QED
    BY <1>0, <1>2, <2>2, <2>3 DEF BlobExpire
<1>3. ASSUME NEW key \in ScopedKeys, DedupeExpire(key)
      PROVE  /\ StoresTypeOK' /\ SoundCache(cache', seen, lost) /\ SoundBlobs(blobs', seen)
             /\ UNCHANGED <<stream, lost>>
  <2>1. window' \in [Shas -> Nat]
    <3>1. window' = window \/ window' = [window EXCEPT ![key[2]] = 0]
      BY <1>3 DEF DedupeExpire
    <3>2. QED
      BY <1>0, <3>1 DEF StoresTypeOK
  <2>2. dedupe' \in SUBSET ScopedKeys
    BY <1>0, <1>3 DEF DedupeExpire, StoresTypeOK
  <2>3. StoresTypeOK'
    BY <1>0, <1>3, <2>1, <2>2 DEF DedupeExpire, StoresTypeOK
  <2>4. QED
    BY <1>0, <1>3, <2>3 DEF DedupeExpire
<1>4. /\ StoresTypeOK' /\ SoundCache(cache', seen, lost) /\ SoundBlobs(blobs', seen)
      /\ UNCHANGED <<stream, lost>>
  BY <1>1, <1>2, <1>3 DEF Expiry
<1>5. ApiTypeOK' /\ SpecTypeOK' /\ SoundConsumer(spec, seen)'
  BY <1>4 DEF IInv, TypeOK, ApiTypeOK, SpecTypeOK, SoundConsumer
<1>6. QED
  BY <1>0, <1>4, <1>5 DEF IInv, TypeOK

----------------------------------------------------------------------------
(* The invariant is inductive.                                             *)

LEMMA InitSound == Init => IInv
<1> SUFFICES ASSUME Init PROVE IInv
  OBVIOUS
<1> USE DEF Init
<1>1. StoresTypeOK
  BY StoresAssumption DEF StoresInit, StoresTypeOK
<1>2. ApiTypeOK
  <2> DEFINE q == [pc |-> "idle", op |-> "extract", tenant |-> DefaultTenant, sha |-> None,
                   raw |-> None, stage |-> 1, val |-> None, pending |-> {}, kept |-> {},
                   events |-> <<>>, status |-> None]
  <2>1. "extract" \in DOMAIN Stages /\ "idle" \in PcStates /\ 1 \in 1 .. 2 /\ <<>> \in Seq(Event)
    BY DEF Stages, PcStates
  <2>2. q \in Request
    BY <2>1, StoresAssumption DEF Request
  <2>3. QED
    BY <2>2 DEF ApiInit, ApiTypeOK
<1>3. SpecTypeOK /\ SoundConsumer(spec, seen)
  BY FreshConsumerType DEF SpecInit, SpecTypeOK, SoundConsumer
<1>4. \A x \in Requests : SoundRequest(req[x], seen, lost)
  BY DEF ApiInit, SoundRequest
<1>5. SoundCache(cache, seen, lost) /\ SoundBlobs(blobs, seen)
  BY DEF StoresInit, SoundCache, SoundBlobs
<1>6. QED
  BY <1>1, <1>2, <1>3, <1>4, <1>5 DEF IInv, TypeOK

LEMMA NextSound == IInv /\ [Next]_vars => IInv'
<1> SUFFICES ASSUME IInv, [Next]_vars PROVE IInv'
  OBVIOUS
<1>1. ASSUME NEW r \in Requests, Arrive(r), UNCHANGED specVars PROVE IInv'
  BY <1>1, SubmitSound, SubmitHashSound DEF Arrive
<1>2. ASSUME NEW r \in Requests, Step(r), UNCHANGED specVars PROVE IInv'
  BY <1>2, ResolveSound, PutSound, LookupSound, FillStepSound, FillRaisesSound, EmitSound,
     PassSettlesSound, AssembleSound, AssembleRaisesSound, PublishSpeculateSound DEF Step
<1>3. ASSUME NEW r \in Requests, Abort(r), UNCHANGED specVars PROVE IInv'
  BY <1>3, AbortSound
<1>4. ASSUME SpecNext, UNCHANGED apiVars PROVE IInv'
  BY <1>4, XReadSound, TakeMessageSound, FetchBlobSound, CheckCachedSound, FillPhase1Sound,
     FillPhase2Sound, SpecRaisesSound, XReadFailsSound, RestartSound DEF SpecNext, Consume
<1>5. ASSUME Expiry, UNCHANGED <<apiVars, specVars>> PROVE IInv'
  BY <1>5, ExpirySound
<1>6. CASE UNCHANGED vars
  <2>1. UNCHANGED <<apiVars, tier, window, lost, raised, faults, specVars>>
    BY <1>6 DEF vars, storeVars, tier
  <2>2. SpecTypeOK' /\ SoundConsumer(spec', seen)
    BY <2>1 DEF IInv, TypeOK, SpecTypeOK, specVars
  <2>3. faults' \in 0 .. MaxFaults
    BY <2>1 DEF IInv, TypeOK, StoresTypeOK
  <2>4. QED
    BY <2>1, <2>2, <2>3, ConsumerMovesAlone
<1>7. QED
  BY <1>1, <1>2, <1>3, <1>4, <1>5, <1>6 DEF Next, ApiNext

\* In every reachable state handlers, consumer and tier are sound together.
THEOREM Invariance == Spec => []IInv
BY InitSound, NextSound, PTL DEF Spec

\* Every variable keeps its type: TypeOK holds in every reachable state.
THEOREM TypeCorrectness == Spec => []TypeOK
<1>1. IInv => TypeOK
  BY DEF IInv
<1>2. QED
  BY <1>1, Invariance, PTL

\* Content addressing of codex:{version}:{kind}:{tenant}:{sha} entries: however handlers,
\* the consumer, failed calls and expiry fall, an entry holds a document of its key's
\* bytes and kind, and misses only what a raised pass has lost.
THEOREM CacheSoundness == Spec => []CacheSound
<1>1. IInv => CacheSound
  BY DEF IInv, SoundCache, CacheSound, ExplainedBy, Explained
<1>2. QED
  BY <1>1, Invariance, PTL

\* Tenant scoping of the tier: a blob or result stands under a tenant only if that
\* tenant has sent those bytes, so the consumer, too, writes for nobody else.
THEOREM TierIsolated == Spec => []TierIsolation
<1>1. IInv => TierIsolation
  BY DEF IInv, SoundCache, SoundBlobs, TierIsolation
<1>2. QED
  BY <1>1, Invariance, PTL

\* No answer describes other bytes than its request's, nor bytes its tenant has not sent
\* (a probe may name any hash), whatever the shared tier held.
THEOREM AnswersAreIsolated == Spec => []AnswersIsolated
<1>1. IInv => AnswersIsolated
  BY DEF IInv, SoundRequest, AnswersIsolated, ExplainedBy, Explained
<1>2. QED
  BY <1>1, Invariance, PTL

-----------------------------------------------------------------------------
(* Ends and their reasons.                                                 *)

\* How a request can have ended: only a finished one has a status, only one that raised
\* a 500, and only one that brought no bytes is still without them.
ExplainedEnd(q, b) ==
    /\ q.pc # "done" => q.status = None
    /\ q.pc \in {"idle", "resolve"} => q.raw = None
    /\ q.pc = "resolve" => q.op = "probe"
    /\ q.status = "500" => \E d \in b : Sha(d) = q.sha
    /\ q.status = "412" => q.op = "probe" /\ q.raw = None

EndsExplained == \A r \in Requests : ExplainedEnd(req[r], raised)

\* Another request of which nothing is known but that the failures can only grow.
LEMMA OtherEndsStay ==
    ASSUME NEW q, NEW b, NEW b2, b \subseteq b2, ExplainedEnd(q, b)
    PROVE  ExplainedEnd(q, b2)
BY DEF ExplainedEnd

LEMMA RequestEnds ==
    ASSUME ApiTypeOK, EndsExplained, NEW r \in Requests, NEW new, Become(r, new),
           raised \subseteq raised', ExplainedEnd(new, raised')
    PROVE  EndsExplained'
<1> SUFFICES ASSUME NEW x \in Requests PROVE ExplainedEnd(req'[x], raised')
  BY DEF EndsExplained
<1>1. CASE x = r
  BY <1>1 DEF Become, ApiTypeOK
<1>2. CASE x # r
  BY <1>2, OtherEndsStay DEF Become, ApiTypeOK, EndsExplained
<1>3. QED
  BY <1>1, <1>2

----------------------------------------------------------------------------
(* The ways a request moves on, with q before and new after.               *)

\* It goes on, past its blob lookup, with no status yet.
LEMMA GoesOn ==
    ASSUME NEW q, NEW new, NEW b, ExplainedEnd(q, b), q.pc # "done",
           new.pc \notin {"idle", "resolve", "done"}, new.status = q.status
    PROVE  ExplainedEnd(new, b)
BY ApiAssumption DEF ExplainedEnd, Statuses

\* It ends, neither with a 500 nor with a 412.
LEMMA EndsWell ==
    ASSUME NEW q \in Request, NEW b, NEW status \in {"200", "aborted"}
    PROVE  ExplainedEnd(Finished(q, status), b)
<1> DEFINE new == Finished(q, status)
<1>1. new.pc = "done" /\ new.status = status
  BY DEF Finished, Request
<1> HIDE DEF new
<1>2. ExplainedEnd(new, b)
  BY <1>1 DEF ExplainedEnd
<1>3. QED
  BY <1>2 DEF new

LEMMA AdvancesOrEnds ==
    ASSUME NEW q \in Request, NEW b, ExplainedEnd(q, b), q.pc # "done"
    PROVE  ExplainedEnd(Advanced(q), b)
<1>1. CASE Advanced(q) = Finished(q, "200")
  BY <1>1, EndsWell
<1>2. CASE Advanced(q) # Finished(q, "200")
  <2>1. /\ Advanced(q).pc \in {"passes", "lookup", "publish"}
        /\ Advanced(q).status = q.status
    BY <1>2 DEF Advanced, Request
  <2>2. QED
    BY <2>1, GoesOn
<1>3. QED
  BY <1>1, <1>2

----------------------------------------------------------------------------
(* A step of a request, under the invariant.                               *)

LEMMA ArriveEnds ==
    ASSUME IInv, EndsExplained, NEW r \in Requests, Arrive(r)
    PROVE  EndsExplained'
<1> DEFINE q == req[r]
<1>1. q \in Request /\ ExplainedEnd(q, raised) /\ ApiTypeOK
  BY DEF IInv, TypeOK, ApiTypeOK, EndsExplained
<1>2. ASSUME NEW op, NEW t, NEW d, Submit(r, op, t, d)
      PROVE  EndsExplained'
  <2> DEFINE new == [q EXCEPT !.pc = "put", !.op = op, !.tenant = t, !.sha = Sha(d), !.raw = d]
  <2>1. new.pc = "put" /\ new.status = q.status
    BY <1>1 DEF Request
  <2>2. Become(r, new) /\ raised' = raised /\ q.pc = "idle"
    BY <1>2 DEF Submit, storeVars
  <2> HIDE DEF new, q
  <2>3. ExplainedEnd(new, raised)
    BY <1>1, <2>1, <2>2, GoesOn
  <2>4. QED
    BY <1>1, <2>2, <2>3, RequestEnds
<1>3. ASSUME NEW t, NEW s, SubmitHash(r, t, s)
      PROVE  EndsExplained'
  <2> DEFINE new == [q EXCEPT !.pc = "resolve", !.op = "probe", !.tenant = t, !.sha = s]
  <2>1. new.pc = "resolve" /\ new.op = "probe" /\ new.status = q.status /\ new.raw = q.raw
    BY <1>1 DEF Request
  <2>2. Become(r, new) /\ raised' = raised /\ q.pc = "idle"
    BY <1>3 DEF SubmitHash, storeVars
  <2> HIDE DEF new, q
  <2>3. ExplainedEnd(new, raised)
    BY <1>1, <2>1, <2>2, ApiAssumption DEF ExplainedEnd, Statuses
  <2>4. QED
    BY <1>1, <2>2, <2>3, RequestEnds
<1>4. QED
  BY <1>2, <1>3 DEF Arrive

LEMMA ResolveEnds ==
    ASSUME IInv, EndsExplained, NEW r \in Requests, Resolve(r)
    PROVE  EndsExplained'
<1> DEFINE q == req[r]
<1>1. q \in Request /\ ExplainedEnd(q, raised) /\ ApiTypeOK /\ q.pc = "resolve"
  BY DEF IInv, TypeOK, ApiTypeOK, EndsExplained, Resolve
<1>2. raised' = raised
  BY DEF Resolve
<1>3. PICK raw : \/ Become(r, Finished(q, "412"))
                 \/ Become(r, [q EXCEPT !.pc = "put", !.raw = raw, !.sha = Sha(raw)])
  BY DEF Resolve
<1> HIDE DEF q
<1>4. CASE Become(r, Finished(q, "412"))
  <2> DEFINE new == Finished(q, "412")
  <2>1. new.pc = "done" /\ new.status = "412" /\ new.op = q.op /\ new.raw = q.raw
    BY <1>1 DEF Finished, Request
  <2> HIDE DEF new
  <2>2. ExplainedEnd(new, raised)
    BY <1>1, <2>1 DEF ExplainedEnd
  <2>3. QED
    BY <1>1, <1>2, <1>4, <2>2, RequestEnds DEF new
<1>5. CASE Become(r, [q EXCEPT !.pc = "put", !.raw = raw, !.sha = Sha(raw)])
  <2> DEFINE new == [q EXCEPT !.pc = "put", !.raw = raw, !.sha = Sha(raw)]
  <2>1. new.pc = "put" /\ new.status = q.status
    BY <1>1 DEF Request
  <2> HIDE DEF new
  <2>2. ExplainedEnd(new, raised)
    BY <1>1, <2>1, GoesOn
  <2>3. QED
    BY <1>1, <1>2, <1>5, <2>2, RequestEnds DEF new
<1>6. QED
  BY <1>3, <1>4, <1>5

\* The steps after which the request has merely moved to another point.
LEMMA MoveEnds ==
    ASSUME IInv, EndsExplained, NEW r \in Requests,
           Put(r) \/ Lookup(r) \/ Fill(r) \/ Assemble(r)
    PROVE  EndsExplained'
<1> DEFINE q == req[r]
<1>1. q \in Request /\ ExplainedEnd(q, raised) /\ ApiTypeOK
  BY DEF IInv, TypeOK, ApiTypeOK, EndsExplained
<1>2. q.pc # "done" /\ raised' = raised
  BY DEF Put, Lookup, Fill, Assemble, PassesFail
<1>3. PICK v : \/ Become(r, [q EXCEPT !.pc = "lookup"])
               \/ Become(r, [q EXCEPT !.pc = "fill"])
               \/ Become(r, [q EXCEPT !.pc = "emit", !.val = v])
  BY DEF Put, Lookup, Fill, Assemble
<1>4. ASSUME NEW new, Become(r, new), new.pc \in {"lookup", "fill", "emit"},
             new.status = q.status
      PROVE  EndsExplained'
  <2> HIDE DEF q
  <2>1. ExplainedEnd(new, raised)
    BY <1>1, <1>2, <1>4, GoesOn
  <2>2. QED
    BY <1>1, <1>2, <1>4, <2>1, RequestEnds
<1>5. /\ [q EXCEPT !.pc = "lookup"].pc = "lookup"
      /\ [q EXCEPT !.pc = "fill"].pc = "fill"
      /\ [q EXCEPT !.pc = "emit", !.val = v].pc = "emit"
      /\ [q EXCEPT !.pc = "lookup"].status = q.status
      /\ [q EXCEPT !.pc = "fill"].status = q.status
      /\ [q EXCEPT !.pc = "emit", !.val = v].status = q.status
  BY <1>1 DEF Request
<1> HIDE DEF q
<1>6. QED
  BY <1>3, <1>4, <1>5

LEMMA PassSettlesEnds ==
    ASSUME IInv, EndsExplained, NEW r \in Requests, NEW p \in PikepdfPasses, PassSettles(r, p)
    PROVE  EndsExplained'
<1> DEFINE q == req[r]
           rest == q.pending \ {p}
<1>1. q \in Request /\ ExplainedEnd(q, raised) /\ ApiTypeOK
  BY DEF IInv, TypeOK, ApiTypeOK, EndsExplained
<1>2. q.pc = "passes" /\ raised' = raised
  BY DEF PassSettles, PassesFail
<1>3. PICK failed, e :
         Become(r, WithEvent([q EXCEPT !.pending = rest, !.kept = @ \cup ({p} \ failed),
                                !.pc = IF rest = {} THEN "assemble" ELSE "passes"], e))
  BY DEF PassSettles
<1> DEFINE new == WithEvent([q EXCEPT !.pending = rest, !.kept = @ \cup ({p} \ failed),
                                !.pc = IF rest = {} THEN "assemble" ELSE "passes"], e)
<1>4. new.pc \in {"assemble", "passes"} /\ new.status = q.status
  BY <1>1 DEF Request, WithEvent
<1> HIDE DEF new, q
<1>5. ExplainedEnd(new, raised)
  BY <1>1, <1>2, <1>4, GoesOn
<1>6. QED
  BY <1>1, <1>2, <1>3, <1>5, RequestEnds DEF new

LEMMA EmitEnds ==
    ASSUME IInv, EndsExplained, NEW r \in Requests, Emit(r)
    PROVE  EndsExplained'
<1> DEFINE e == EventOf(Kind(r), req[r].val)
           q == WithEvent(req[r], e)
<1>1. req[r] \in Request /\ SoundRequest(req[r], seen, lost) /\ Kind(r) \in CachedKinds
      /\ req[r].pc = "emit" /\ ExplainedEnd(req[r], raised) /\ ApiTypeOK
  BY AtHand DEF Emit, EndsExplained, IInv, TypeOK
<1>2. e \in Event
  BY <1>1 DEF SoundRequest, EventOf, Event, EventKinds, Document
<1>3. q \in Request /\ q.pc = "emit" /\ q.status = req[r].status
  <2>1. Append(req[r].events, e) \in Seq(Event)
    BY <1>1, <1>2 DEF Request
  <2>2. QED
    BY <1>1, <2>1 DEF WithEvent, Request
<1>4. Become(r, Advanced(q)) /\ raised' = raised
  BY DEF Emit, storeVars
<1> HIDE DEF q
<1>5. ExplainedEnd(q, raised)
  BY <1>1, <1>3, GoesOn
<1>6. ExplainedEnd(Advanced(q), raised)
  BY <1>3, <1>5, AdvancesOrEnds
<1>7. QED
  BY <1>1, <1>4, <1>6, RequestEnds

\* The one step that may end a request with a 500, just after its extractor raised.
LEMMA FillRaisesEnds ==
    ASSUME IInv, EndsExplained, NEW r \in Requests, FillRaises(r)
    PROVE  EndsExplained'
<1> DEFINE q == req[r]
           new == Finished(q, "500")
<1>1. q.pc \notin {"idle", "resolve", "done"} /\ raised' = raised \cup {q.raw}
  BY DEF FillRaises, ExtractorRaises
<1>2. q \in Request /\ q.sha = Sha(q.raw) /\ ExplainedEnd(q, raised) /\ ApiTypeOK
  BY <1>1, AtHand DEF EndsExplained, IInv, TypeOK
<1>3. ExplainedEnd(q, raised')
  BY <1>1, <1>2, OtherEndsStay
<1>4. Become(r, new) \/ Become(r, Advanced(q))
  BY DEF FillRaises
<1>5. new.pc = "done" /\ new.status = "500" /\ new.sha = q.sha
  BY <1>2 DEF Finished, Request
<1> HIDE DEF q
<1>6. ExplainedEnd(Advanced(q), raised')
  BY <1>1, <1>2, <1>3, AdvancesOrEnds
<1> HIDE DEF new
<1>7. ExplainedEnd(new, raised')
  BY <1>1, <1>2, <1>5 DEF ExplainedEnd
<1>8. QED
  BY <1>1, <1>2, <1>4, <1>6, <1>7, RequestEnds

\* The steps that end a request with 200, or break it off.
LEMMA LastEnds ==
    ASSUME IInv, EndsExplained, NEW r \in Requests,
           AssembleRaises(r) \/ PublishSpeculate(r) \/ Abort(r)
    PROVE  EndsExplained'
<1>1. req[r] \in Request /\ ApiTypeOK
  BY DEF IInv, TypeOK, ApiTypeOK
<1>2. raised \subseteq raised'
  BY DEF AssembleRaises, PublishSpeculate, Abort, ExtractorRaises
<1>3. PICK status \in {"200", "aborted"} : Become(r, Finished(req[r], status))
  BY DEF AssembleRaises, PublishSpeculate, Abort
<1>4. ExplainedEnd(Finished(req[r], status), raised')
  BY <1>1, EndsWell
<1>5. QED
  BY <1>1, <1>2, <1>3, <1>4, RequestEnds

\* Consumer and expiry touch no request and take no raised document back.
LEMMA OthersEnd ==
    ASSUME EndsExplained, UNCHANGED apiVars, raised \subseteq raised'
    PROVE  EndsExplained'
BY OtherEndsStay DEF EndsExplained, apiVars

LEMMA OthersRaiseMore == SpecNext \/ Expiry \/ UNCHANGED vars => raised \subseteq raised'
<1>1. SpecNext => raised \subseteq raised'
  BY DEF SpecNext, Consume, XRead, TakeMessage, FetchBlob, CheckCached, FillPhase1,
     FillPhase2, SpecRaises, XReadFails, Restart, SpecFill, PassesFail, ExtractorRaises,
     storeVars
<1>2. Expiry => raised \subseteq raised'
  BY DEF Expiry, CacheExpire, BlobExpire, DedupeExpire
<1>3. UNCHANGED vars => raised \subseteq raised'
  BY DEF vars, storeVars
<1>4. QED
  BY <1>1, <1>2, <1>3

LEMMA NextEnds == IInv /\ EndsExplained /\ [Next]_vars => EndsExplained'
<1> SUFFICES ASSUME IInv, EndsExplained, [Next]_vars PROVE EndsExplained'
  OBVIOUS
<1>1. ASSUME NEW r \in Requests, Step(r) PROVE EndsExplained'
  BY <1>1, ResolveEnds, MoveEnds, PassSettlesEnds, EmitEnds, FillRaisesEnds, LastEnds DEF Step
<1>2. CASE ApiNext
  BY <1>1, <1>2, ArriveEnds, LastEnds DEF ApiNext
<1>3. SpecNext \/ Expiry => raised \subseteq raised'
  BY OthersRaiseMore
<1>5. CASE UNCHANGED vars
  BY <1>5, OthersEnd DEF vars, storeVars
<1>6. QED
  BY <1>2, <1>3, <1>5, OthersEnd DEF Next

----------------------------------------------------------------------------
(* The consumer's position.                                                *)

\* The batch in hand is a run of ids, and what lies between the position and the batch
\* had been trimmed by the time the batch was read.
BatchFollows ==
    /\ spec.last \in 0 .. Len(stream)
    /\ \A i \in 1 .. Len(spec.batch) : spec.batch[i] = spec.batch[1] + (i - 1)
    /\ spec.batch # <<>> =>
          /\ spec.last < spec.batch[1]
          /\ \A n \in Nat : spec.last < n /\ n < spec.batch[1] => n <= trimmed

PositionOK == BatchFollows /\ NoEntrySkipped

\* The types the arithmetic below needs.
LEMMA PositionTypes ==
    ASSUME IInv
    PROVE  /\ spec \in SpecState /\ spec.last \in Nat /\ spec.batch \in Seq(Nat)
           /\ trimmed \in Nat /\ stream \in Seq(StreamEntry) /\ Len(stream) \in Nat
BY DEF IInv, TypeOK, StoresTypeOK, SpecTypeOK, SpecState

\* The stream only grows, at either end.
LEMMA StreamGrows ==
    ASSUME IInv, NEW key \in ScopedKeys, NEW e \in StreamEntry, XAddIfNew(key, e)
    PROVE  Len(stream) <= Len(stream') /\ trimmed <= trimmed' /\ trimmed' \in Nat
<1>1. StoresTypeOK
  BY DEF IInv, TypeOK
<1>2. Len(stream) <= Len(stream') /\ trimmed' \in Nat
  BY <1>1, XAddIfNewTypes
<1>3. trimmed' = trimmed \/ trimmed' > trimmed
  BY DEF XAddIfNew, XAdd
<1>4. QED
  BY <1>1, <1>2, <1>3 DEF StoresTypeOK

LEMMA RequestsGrowStream ==
    ASSUME IInv, NEW r \in Requests, Arrive(r) \/ Step(r) \/ Abort(r)
    PROVE  Len(stream) <= Len(stream') /\ trimmed <= trimmed' /\ trimmed' \in Nat
<1>1. CASE UNCHANGED <<stream, trimmed>>
  BY <1>1, PositionTypes
<1>2. CASE Put(r)
  <2>1. req[r].raw \in Docs /\ req[r].tenant \in Tenants /\ Sha(req[r].raw) \in Shas
    BY <1>2, AtHand, ShaType DEF Put
  <2>2. /\ Scoped(Sha(req[r].raw), req[r].tenant) \in ScopedKeys
        /\ [sha |-> Sha(req[r].raw), tenant |-> req[r].tenant, source |-> "blob_put"] \in StreamEntry
    BY <2>1 DEF Scoped, ScopedKeys, StreamEntry
  <2>3. CASE UNCHANGED <<stream, trimmed>>
    BY <2>3, PositionTypes
  <2>4. CASE XAddIfNew(Scoped(Sha(req[r].raw), req[r].tenant),
                       [sha |-> Sha(req[r].raw), tenant |-> req[r].tenant, source |-> "blob_put"])
    BY <2>2, <2>4, StreamGrows
  <2>5. QED
    BY <1>2, <2>3, <2>4 DEF Put, BlobPut
<1>3. CASE PublishSpeculate(r)
  <2>1. req[r].sha \in Shas
    BY <1>3, AtHand, ShaType DEF PublishSpeculate
  <2>2. /\ Unscoped(req[r].sha) \in ScopedKeys
        /\ [sha |-> req[r].sha, tenant |-> NoTenant, source |-> "probe"] \in StreamEntry
    BY <2>1 DEF Unscoped, ScopedKeys, StreamEntry
  <2>3. QED
    BY <1>3, <2>2, StreamGrows DEF PublishSpeculate
<1>4. QED
  BY <1>1, <1>2, <1>3 DEF Arrive, Step, Submit, SubmitHash, Resolve, Lookup, Fill, FillRaises, Emit,
        PassSettles, Assemble, AssembleRaises, Abort, storeVars, tier

\* A consumer that stands still while the stream grows passes over nothing.
LEMMA StandsStill ==
    ASSUME IInv, PositionOK, UNCHANGED specVars, stream' \in Seq(StreamEntry),
           Len(stream) <= Len(stream'), trimmed <= trimmed', trimmed' \in Nat
    PROVE  PositionOK'
<1>1. spec' = spec /\ handled' = handled
  BY DEF specVars
<1>2. /\ trimmed \in Nat /\ Len(stream) \in Nat /\ Len(stream') \in Nat
      /\ spec.last \in Nat /\ spec.last <= Len(stream)
  BY PositionTypes DEF PositionOK, BatchFollows
<1>3. BatchFollows'
  BY <1>1, <1>2 DEF PositionOK, BatchFollows
<1>4. NoEntrySkipped'
  <2>1. ASSUME NEW n \in 1 .. Len(stream'), n <= spec.last
        PROVE  n \in handled \/ n <= trimmed' \/ (n = spec.last /\ spec.pc # "idle")
    <3>1. n \in 1 .. Len(stream)
      BY <1>2, <2>1
    <3>2. QED
      BY <1>2, <2>1, <3>1 DEF PositionOK, NoEntrySkipped
  <2>2. QED
    BY <1>1, <2>1 DEF NoEntrySkipped
<1>5. QED
  BY <1>3, <1>4 DEF PositionOK

\* Nor does one that works on the message in hand, or finishes it.
LEMMA WorksOn ==
    ASSUME IInv, PositionOK, UNCHANGED <<stream, trimmed>>,
           spec'.last = spec.last, spec'.batch = spec.batch, handled \subseteq handled',
           spec'.pc = "idle" => spec.pc = "idle" \/ spec.last \in handled'
    PROVE  PositionOK'
BY DEF PositionOK, BatchFollows, NoEntrySkipped

LEMMA FinishWorksOn ==
    ASSUME IInv, PositionOK, UNCHANGED <<stream, trimmed>>, NEW c, Finish(c)
    PROVE  PositionOK'
<1>1. spec' = MessageDone(spec, c) /\ handled' = handled \cup {spec.last}
  BY DEF Finish
<1>2. spec'.last = spec.last /\ spec'.batch = spec.batch
  BY <1>1, PositionTypes DEF MessageDone, Counted, SpecState
<1>3. QED
  BY <1>1, <1>2, WorksOn

LEMMA XReadFollows ==
    ASSUME IInv, IInv', PositionOK, XRead
    PROVE  PositionOK'
<1> DEFINE first == IF spec.last > trimmed THEN spec.last ELSE trimmed
           size == IF Cardinality(Ready) < BatchSize THEN Cardinality(Ready) ELSE BatchSize
<1>1. /\ spec.last \in Nat /\ trimmed \in Nat /\ spec \in SpecState
      /\ UNCHANGED <<stream, trimmed, handled>>
  BY PositionTypes DEF XRead, storeVars
<1>2. spec' = [spec EXCEPT !.batch = Reply]
  BY DEF XRead
<1>3. spec'.last = spec.last /\ spec'.pc = spec.pc /\ spec'.batch = Reply
  BY <1>1, <1>2 DEF SpecState
<1>4. Reply \in Seq(Nat)
  BY <1>3 DEF IInv, TypeOK, SpecTypeOK, SpecState
<1>5. Reply = [i \in 1 .. size |-> first + i]
  BY DEF Reply
<1>6. /\ first \in Nat /\ spec.last <= first
      /\ \A n \in Nat : spec.last < n /\ n <= first => n <= trimmed
  BY <1>1
<1> HIDE DEF first, size
<1>7. 1 .. Len(Reply) = 1 .. size
  <2>1. DOMAIN Reply = 1 .. size
    BY <1>5
  <2>2. DOMAIN Reply = 1 .. Len(Reply)
    BY <1>4
  <2>3. QED
    BY <2>1, <2>2
<1>8. \A i \in 1 .. Len(Reply) : Reply[i] = first + i
  BY <1>5, <1>7
<1>9. Reply # <<>> => Reply[1] = first + 1
  BY <1>4, <1>8
<1>10. \A i \in 1 .. Len(Reply) : Reply[i] = Reply[1] + (i - 1)
  <2>1. ASSUME NEW i \in 1 .. Len(Reply)
        PROVE  Reply[i] = Reply[1] + (i - 1)
    <3>1. Len(Reply) \in Nat
      BY <1>4
    <3>2. 1 \in 1 .. Len(Reply)
      BY <3>1
    <3>3. Reply[1] = first + 1 /\ Reply[i] = first + i
      BY <1>8, <3>2
    <3>4. QED
      BY <1>6, <3>1, <3>3
  <2>2. QED
    BY <2>1
<1>11. Reply # <<>> => /\ spec.last < Reply[1]
                       /\ \A n \in Nat : spec.last < n /\ n < Reply[1] => n <= trimmed
  BY <1>1, <1>6, <1>9
<1>12. BatchFollows'
  BY <1>1, <1>3, <1>10, <1>11 DEF PositionOK, BatchFollows
<1>13. NoEntrySkipped'
  BY <1>1, <1>3 DEF PositionOK, NoEntrySkipped
<1>14. QED
  BY <1>12, <1>13 DEF PositionOK

LEMMA TakeMessageFollows ==
    ASSUME IInv, PositionOK, TakeMessage
    PROVE  PositionOK'
<1> DEFINE id == Head(spec.batch)
           rest == Tail(spec.batch)
<1>1. /\ spec \in SpecState /\ spec.last \in Nat /\ trimmed \in Nat /\ spec.batch \in Seq(Nat)
      /\ spec.batch # <<>> /\ spec.pc = "idle" /\ UNCHANGED <<stream, trimmed, handled>>
      /\ Len(stream) \in Nat
  BY PositionTypes DEF TakeMessage, storeVars
<1>2. /\ id = spec.batch[1] /\ 1 \in DOMAIN spec.batch /\ rest \in Seq(Nat)
      /\ Len(rest) = Len(spec.batch) - 1
      /\ \A i \in 1 .. Len(rest) : i + 1 \in 1 .. Len(spec.batch) /\ rest[i] = spec.batch[i + 1]
  BY <1>1
<1>3. id \in 1 .. Len(stream)
  BY <1>2 DEF IInv, SoundConsumer
<1>4. spec'.last = id /\ spec'.batch = rest /\ spec'.pc = "fetch"
  BY <1>1 DEF TakeMessage, SpecState
<1>5. \A i \in 1 .. Len(rest) : rest[i] = id + i
  <2>1. ASSUME NEW i \in 1 .. Len(rest)
        PROVE  rest[i] = id + i
    <3>1. i + 1 \in 1 .. Len(spec.batch) /\ rest[i] = spec.batch[i + 1]
      BY <1>2
    <3>2. spec.batch[i + 1] = spec.batch[1] + ((i + 1) - 1)
      BY <3>1 DEF PositionOK, BatchFollows
    <3>3. QED
      BY <1>2, <1>3, <3>1, <3>2
  <2>2. QED
    BY <2>1
<1>6. spec.last < id /\ \A n \in Nat : spec.last < n /\ n < id => n <= trimmed
  BY <1>1, <1>2 DEF PositionOK, BatchFollows
<1> HIDE DEF id, rest
<1>7. BatchFollows'
  <2>1. \A i \in 1 .. Len(rest) : rest[i] = rest[1] + (i - 1)
    <3>1. ASSUME NEW i \in 1 .. Len(rest)
          PROVE  rest[i] = rest[1] + (i - 1)
      <4>1. Len(rest) \in Nat
        BY <1>2
      <4>2. 1 \in 1 .. Len(rest)
        BY <4>1
      <4>3. rest[1] = id + 1 /\ rest[i] = id + i
        BY <1>5, <4>2
      <4>4. QED
        BY <1>3, <4>1, <4>3
    <3>2. QED
      BY <3>1
  <2>2. rest # <<>> => rest[1] = id + 1
    BY <1>2, <1>5
  <2>3. rest # <<>> => /\ id < rest[1]
                       /\ \A n \in Nat : id < n /\ n < rest[1] => n <= trimmed
    BY <1>3, <2>2
  <2>4. id \in 0 .. Len(stream)
    BY <1>1, <1>3
  <2>5. QED
    BY <1>1, <1>4, <2>1, <2>3, <2>4 DEF BatchFollows
<1>8. NoEntrySkipped'
  <2>1. ASSUME NEW n \in 1 .. Len(stream), n <= id
        PROVE  n \in handled \/ n <= trimmed \/ n = id
    <3>1. CASE n <= spec.last
      BY <1>1, <3>1 DEF PositionOK, NoEntrySkipped
    <3>2. CASE ~(n <= spec.last)
      BY <1>1, <1>3, <1>6, <2>1, <3>2
    <3>3. QED
      BY <3>1, <3>2
  <2>2. QED
    BY <1>1, <1>4, <2>1 DEF NoEntrySkipped
<1>9. QED
  BY <1>7, <1>8 DEF PositionOK

LEMMA NextFollows == IInv /\ PositionOK /\ [Next]_vars => PositionOK'
<1> SUFFICES ASSUME IInv, PositionOK, [Next]_vars PROVE PositionOK'
  OBVIOUS
<1>1. IInv' /\ stream' \in Seq(StreamEntry)
  BY NextSound DEF IInv, TypeOK, StoresTypeOK
<1>2. CASE ApiNext /\ UNCHANGED specVars
  BY <1>1, <1>2, RequestsGrowStream, StandsStill DEF ApiNext
<1>3. CASE UNCHANGED <<stream, trimmed, specVars>>
  BY <1>1, <1>3, PositionTypes, StandsStill
<1>4. CASE SpecNext
  <2>1. ASSUME NEW pc, spec' = [spec EXCEPT !.pc = pc] \/ \E b : spec' = [spec EXCEPT !.pc = pc, !.blob = b],
               pc # "idle", UNCHANGED <<stream, trimmed, handled>>
        PROVE  PositionOK'
    <3>1. spec'.last = spec.last /\ spec'.batch = spec.batch /\ spec'.pc = pc
      BY <2>1, PositionTypes DEF SpecState
    <3>2. QED
      BY <2>1, <3>1, WorksOn
  <2>2. CASE FetchBlob
    <3>1. UNCHANGED <<stream, trimmed>>
      BY <2>2 DEF FetchBlob, tier
    <3>2. \/ Finish("blob_missing")
          \/ handled' = handled /\ \E b : spec' = [spec EXCEPT !.pc = "check", !.blob = b]
      BY <2>2 DEF FetchBlob
    <3>3. QED
      BY <2>1, <3>1, <3>2, FinishWorksOn
  <2>3. CASE CheckCached
    <3>1. UNCHANGED <<stream, trimmed>>
      BY <2>3 DEF CheckCached, tier
    <3>2. Finish("skipped") \/ (handled' = handled /\ spec' = [spec EXCEPT !.pc = "phase1"])
      BY <2>3 DEF CheckCached
    <3>3. QED
      BY <2>1, <3>1, <3>2, FinishWorksOn
  <2>4. CASE FillPhase1
    BY <2>1, <2>4 DEF FillPhase1
  <2>5. CASE FillPhase2
    BY <2>5, FinishWorksOn DEF FillPhase2
  <2>6. CASE SpecRaises
    BY <2>6, FinishWorksOn DEF SpecRaises, tier
  <2>7. CASE XReadFails
    <3>1. spec' = Counted(spec, "errors") /\ UNCHANGED <<stream, trimmed, handled>>
      BY <2>7 DEF XReadFails, tier
    <3>2. spec'.last = spec.last /\ spec'.batch = spec.batch /\ spec'.pc = spec.pc
      BY <3>1, PositionTypes DEF Counted, SpecState
    <3>3. QED
      BY <3>1, <3>2, WorksOn
  <2>8. CASE Restart
    <3>1. spec' = FreshConsumer /\ UNCHANGED <<stream, trimmed>>
      BY <2>8 DEF Restart, tier
    <3>2. spec'.last = 0 /\ spec'.batch = <<>> /\ Len(spec'.batch) = 0
      BY <3>1 DEF FreshConsumer
    <3>3. QED
      BY <3>1, <3>2, PositionTypes DEF PositionOK, BatchFollows, NoEntrySkipped
  <2>9. QED
    BY <1>1, <1>4, <2>2, <2>3, <2>4, <2>5, <2>6, <2>7, <2>8, XReadFollows, TakeMessageFollows
       DEF SpecNext, Consume
<1>5. QED
  BY <1>2, <1>3, <1>4 DEF Next, Expiry, CacheExpire, BlobExpire, DedupeExpire, vars, storeVars

\* The consumer's in-memory position never jumps an entry: each one behind it was finished by
\* this process, is in hand, or was trimmed from the stream.
THEOREM PositionIsSound == Spec => []NoEntrySkipped
<1>1. Init => PositionOK
  <2>1. ASSUME Init PROVE PositionOK
    <3>1. spec.last = 0 /\ spec.batch = <<>> /\ stream = <<>> /\ Len(stream) = 0 /\ Len(spec.batch) = 0
      BY <2>1 DEF Init, SpecInit, StoresInit, FreshConsumer
    <3>2. QED
      BY <3>1 DEF PositionOK, BatchFollows, NoEntrySkipped
  <2>2. QED
    BY <2>1
<1>2. PositionOK => NoEntrySkipped
  BY DEF PositionOK
<1>3. QED
  BY <1>1, <1>2, NextFollows, Invariance, PTL DEF Spec

----------------------------------------------------------------------------
(* The pipeline implements the promise.  The mapping keeps of a request    *)
(* what was asked, what was answered and how it ended; the tier vanishes.  *)

AskedOf(q) == IF q.pc = "idle" THEN None
              ELSE [op |-> q.op, tenant |-> q.tenant, sha |-> q.sha]

\* The kinds of event a request may have behind it.
Behind(q) ==
    CASE q.stage = 1 -> {}
      [] q.stage = 2 /\ q.op # "granular" -> {Stages[q.op][1]}
      [] q.stage = 2 /\ q.op = "granular" /\ q.pc = "passes" ->
           {"extract-phase-1-min"} \cup (PikepdfPasses \ q.pending)
      [] OTHER -> {"extract-phase-1-min"} \cup PikepdfPasses

OrderedRequest(q) ==
    /\ q.pc \notin {"publish", "done"} =>
          \A i \in DOMAIN q.events : q.events[i].kind \in Behind(q)
    /\ q.pc = "publish" => q.op = "probe"

InOrderInv == \A r \in Requests : OrderedRequest(req[r])

\* A kind of event has been given, or the extractor that makes it raised on these bytes.
Told(q, k, b) ==
    \/ \E j \in DOMAIN q.events : q.events[j].kind = k
    \/ k \notin PikepdfPasses /\ \E d \in b : Sha(d) = q.sha

\* Of what a request has behind it nothing was left out.
CompleteRequest(q, b) ==
    /\ q.pc \notin {"publish", "done"} => \A k \in Behind(q) : Told(q, k, b)
    /\ q.pc = "publish" => \A k \in {"probe-min", "probe-std"} : Told(q, k, b)

CompleteInv == \A r \in Requests : CompleteRequest(req[r], raised)

PromiseInv == IInv /\ EndsExplained /\ InOrderInv /\ CompleteInv

LEMMA BarsMove ==
    ASSUME ApiTypeOK, NEW r \in Requests, NEW new, Become(r, new)
    PROVE  /\ AskedBar' = [AskedBar EXCEPT ![r] = AskedOf(new)]
           /\ EventsBar' = [EventsBar EXCEPT ![r] = new.events]
           /\ StatusBar' = [StatusBar EXCEPT ![r] = new.status]
<1>1. req' = [req EXCEPT ![r] = new] /\ DOMAIN req = Requests
  BY DEF Become, ApiTypeOK
<1>2. QED
  BY <1>1 DEF AskedBar, AskedOf, EventsBar, StatusBar

LEMMA BarsStand ==
    ASSUME ApiTypeOK, NEW r \in Requests, NEW new, Become(r, new),
           AskedOf(new) = AskedOf(req[r])
    PROVE  /\ AskedBar' = AskedBar
           /\ new.events = req[r].events => EventsBar' = EventsBar
           /\ new.status = req[r].status => StatusBar' = StatusBar
<1>1. /\ AskedBar' = [AskedBar EXCEPT ![r] = AskedOf(new)]
      /\ EventsBar' = [EventsBar EXCEPT ![r] = new.events]
      /\ StatusBar' = [StatusBar EXCEPT ![r] = new.status]
  BY BarsMove
<1>2. AskedBar[r] = AskedOf(req[r]) /\ EventsBar[r] = req[r].events /\ StatusBar[r] = req[r].status
  BY DEF AskedBar, AskedOf, EventsBar, StatusBar
<1>3. DOMAIN AskedBar = Requests /\ DOMAIN EventsBar = Requests /\ DOMAIN StatusBar = Requests
  BY DEF AskedBar, EventsBar, StatusBar
<1>4. \A f : f = [x \in DOMAIN f |-> f[x]] => [f EXCEPT ![r] = f[r]] = f
  OBVIOUS
<1>5. /\ AskedBar = [x \in DOMAIN AskedBar |-> AskedBar[x]]
      /\ EventsBar = [x \in DOMAIN EventsBar |-> EventsBar[x]]
      /\ StatusBar = [x \in DOMAIN StatusBar |-> StatusBar[x]]
  BY DEF AskedBar, EventsBar, StatusBar
<1>6. QED
  BY <1>1, <1>2, <1>4, <1>5

\* A request that was made is Open until it is done.
LEMMA OpenUntilDone ==
    ASSUME PromiseInv, NEW r \in Requests, req[r].pc \notin {"idle", "done"}
    PROVE  /\ Promise!Open(r)
           /\ AskedBar[r] = [op |-> req[r].op, tenant |-> req[r].tenant, sha |-> req[r].sha]
           /\ StatusBar[r] = None
<1>1. req[r] \in Request /\ req[r].status = None
  BY DEF PromiseInv, EndsExplained, ExplainedEnd, IInv, TypeOK, ApiTypeOK
<1>2. [op |-> req[r].op, tenant |-> req[r].tenant, sha |-> req[r].sha] # None
  BY <1>1, PromiseAssumption DEF Request
<1>3. QED
  BY <1>1, <1>2 DEF Promise!Open, AskedBar, StatusBar

----------------------------------------------------------------------------
(* The announced order.                                                    *)

LEMMA PlaceUnique ==
    ASSUME NEW A, NEW k, NEW n \in DOMAIN A, \A i \in DOMAIN A : k \in A[i] <=> i = n
    PROVE  (CHOOSE i \in DOMAIN A : k \in A[i]) = n
OBVIOUS

LEMMA Announcements ==
    /\ Promise!Announced["extract"] = <<{"extract"}>>
    /\ Promise!Announced["stream"] = <<{"extract-phase-1"}, {"extract"}>>
    /\ Promise!Announced["granular"] = <<{"extract-phase-1-min"}, PikepdfPasses, {"extract"}>>
    /\ Promise!Announced["probe"] = <<{"probe-min"}, {"probe-std"}>>
BY DEF Promise!Announced

LEMMA Places ==
    /\ Promise!Place("extract", "extract") = 1
    /\ Promise!Place("stream", "extract-phase-1") = 1
    /\ Promise!Place("stream", "extract") = 2
    /\ Promise!Place("granular", "extract-phase-1-min") = 1
    /\ \A p \in PikepdfPasses : Promise!Place("granular", p) = 2
    /\ Promise!Place("granular", "extract") = 3
    /\ Promise!Place("probe", "probe-min") = 1
    /\ Promise!Place("probe", "probe-std") = 2
<1>1. \A i \in 1 .. 1 : "extract" \in <<{"extract"}>>[i] <=> i = 1
  OBVIOUS
<1>2. /\ \A i \in 1 .. 2 : "extract-phase-1" \in <<{"extract-phase-1"}, {"extract"}>>[i] <=> i = 1
      /\ \A i \in 1 .. 2 : "extract" \in <<{"extract-phase-1"}, {"extract"}>>[i] <=> i = 2
      /\ \A i \in 1 .. 2 : "probe-min" \in <<{"probe-min"}, {"probe-std"}>>[i] <=> i = 1
      /\ \A i \in 1 .. 2 : "probe-std" \in <<{"probe-min"}, {"probe-std"}>>[i] <=> i = 2
  OBVIOUS
<1> DEFINE A == <<{"extract-phase-1-min"}, PikepdfPasses, {"extract"}>>
<1>3. /\ DOMAIN A = 1 .. 3 /\ A[1] = {"extract-phase-1-min"} /\ A[2] = PikepdfPasses
      /\ A[3] = {"extract"}
  OBVIOUS
<1>4. "extract-phase-1-min" \notin PikepdfPasses /\ "extract" \notin PikepdfPasses
  BY StoresAssumption
<1> HIDE DEF A
<1>5. /\ \A i \in DOMAIN A : "extract-phase-1-min" \in A[i] <=> i = 1
      /\ \A p \in PikepdfPasses : \A i \in DOMAIN A : p \in A[i] <=> i = 2
      /\ \A i \in DOMAIN A : "extract" \in A[i] <=> i = 3
  BY <1>3, <1>4
<1>6. /\ DOMAIN <<{"extract"}>> = 1 .. 1
      /\ DOMAIN <<{"extract-phase-1"}, {"extract"}>> = 1 .. 2
      /\ DOMAIN <<{"probe-min"}, {"probe-std"}>> = 1 .. 2
  OBVIOUS
<1>7. Promise!Announced["granular"] = A
  BY Announcements DEF A
<1>8. Promise!Place("extract", "extract") = 1
  BY <1>1, <1>6, PlaceUnique, Announcements DEF Promise!Place
<1>9. Promise!Place("stream", "extract-phase-1") = 1 /\ Promise!Place("stream", "extract") = 2
  BY <1>2, <1>6, PlaceUnique, Announcements DEF Promise!Place
<1>10. Promise!Place("probe", "probe-min") = 1 /\ Promise!Place("probe", "probe-std") = 2
  BY <1>2, <1>6, PlaceUnique, Announcements DEF Promise!Place
<1>11. /\ Promise!Place("granular", "extract-phase-1-min") = 1
       /\ \A p \in PikepdfPasses : Promise!Place("granular", p) = 2
       /\ Promise!Place("granular", "extract") = 3
  BY <1>3, <1>5, <1>7, PlaceUnique DEF Promise!Place
<1>12. QED
  BY <1>8, <1>9, <1>10, <1>11

\* What a request is about to be given: the kind of its stage, or of a pass that settles.
Given(q, k) ==
    \/ q.pc = "emit" /\ k = Stages[q.op][q.stage]
    \/ q.pc = "passes" /\ k \in q.pending

LEMMA GivenInOrder ==
    ASSUME NEW q \in Request, NEW s, NEW l, SoundRequest(q, s, l), OrderedRequest(q),
           NEW k, Given(q, k)
    PROVE  /\ \E i \in DOMAIN Promise!Announced[q.op] : k \in Promise!Announced[q.op][i]
           /\ Promise!InOrder(q.op, q.events, k)
           /\ Promise!Complete(k) = Whole(k)
<1>1. q.op \in {"extract", "stream", "granular", "probe"} /\ q.stage \in 1 .. 2
  BY DEF Request, Stages
<1>2. \A i \in DOMAIN q.events : q.events[i].kind \in Behind(q)
  BY DEF Given, OrderedRequest
<1>3. q.pending \subseteq PikepdfPasses
  BY DEF Request
<1>4. q.op = "extract" => q.stage = 1
  BY <1>1 DEF SoundRequest
<1>5. q.pc = "passes" => q.op = "granular" /\ q.stage = 2
  BY DEF SoundRequest
<1> DEFINE first == Stages[q.op][1]
           second == Stages[q.op][2]
<1>6. /\ q.op = "extract" => first = "extract"
      /\ q.op = "stream" => first = "extract-phase-1" /\ second = "extract"
      /\ q.op = "granular" => first = "extract-phase-1-min" /\ second = "extract"
      /\ q.op = "probe" => first = "probe-min" /\ second = "probe-std"
  BY DEF Stages
<1>7. \A e \in Behind(q) : e # k /\ Promise!Place(q.op, e) <= Promise!Place(q.op, k)
  <2>1. CASE q.stage = 1
    BY <2>1 DEF Behind
  <2>2. CASE q.stage = 2 /\ q.op # "granular"
    <3>1. Behind(q) = {first} /\ k = second
      BY <1>5, <2>2 DEF Behind, Given
    <3>2. q.op \in {"stream", "probe"}
      BY <1>1, <1>4, <2>2
    <3>3. /\ first # second
          /\ Promise!Place(q.op, first) = 1 /\ Promise!Place(q.op, second) = 2
      BY <1>6, <3>2, Places
    <3>4. QED
      BY <3>1, <3>3
  <2>3. CASE q.stage = 2 /\ q.op = "granular" /\ q.pc = "passes"
    <3>1. Behind(q) = {"extract-phase-1-min"} \cup (PikepdfPasses \ q.pending) /\ k \in q.pending
      BY <2>3 DEF Behind, Given
    <3>2. k \in PikepdfPasses /\ Promise!Place(q.op, k) = 2 /\ k # "extract-phase-1-min"
      BY <1>3, <2>3, <3>1, Places, StoresAssumption
    <3>3. ASSUME NEW e \in Behind(q)
          PROVE  e # k /\ Promise!Place(q.op, e) <= 2
      <4>1. CASE e = "extract-phase-1-min"
        BY <2>3, <3>2, <4>1, Places
      <4>2. CASE e \in PikepdfPasses \ q.pending
        BY <2>3, <3>1, <4>2, Places
      <4>3. QED
        BY <3>1, <3>3, <4>1, <4>2
    <3>4. QED
      BY <3>2, <3>3
  <2>4. CASE q.stage = 2 /\ q.op = "granular" /\ q.pc # "passes"
    <3>1. Behind(q) = {"extract-phase-1-min"} \cup PikepdfPasses /\ k = "extract"
      BY <1>6, <2>4 DEF Behind, Given
    <3>2. Promise!Place(q.op, k) = 3
      BY <2>4, <3>1, Places
    <3>3. ASSUME NEW e \in Behind(q)
          PROVE  e # k /\ Promise!Place(q.op, e) <= 3
      <4>1. CASE e = "extract-phase-1-min"
        BY <2>4, <3>1, <4>1, Places
      <4>2. CASE e \in PikepdfPasses
        BY <2>4, <3>1, <4>2, Places, StoresAssumption
      <4>3. QED
        BY <3>1, <3>3, <4>1, <4>2
    <3>4. QED
      BY <3>2, <3>3
  <2>5. QED
    BY <1>1, <2>1, <2>2, <2>3, <2>4
<1>8. Promise!InOrder(q.op, q.events, k)
  BY <1>2, <1>7 DEF Promise!InOrder
<1>9. \/ q.op = "extract" /\ k = "extract"
      \/ q.op = "stream" /\ k \in {"extract-phase-1", "extract"}
      \/ q.op = "granular" /\ k \in {"extract-phase-1-min", "extract"} \cup PikepdfPasses
      \/ q.op = "probe" /\ k \in {"probe-min", "probe-std"}
  <2>1. CASE q.pc = "passes"
    BY <1>3, <1>5, <2>1 DEF Given
  <2>2. CASE q.pc = "emit" /\ q.stage = 1
    BY <1>1, <1>6, <2>2 DEF Given
  <2>3. CASE q.pc = "emit" /\ q.stage = 2
    BY <1>1, <1>4, <1>6, <2>3 DEF Given
  <2>4. QED
    BY <1>1, <2>1, <2>2, <2>3 DEF Given
<1>10. \E i \in DOMAIN Promise!Announced[q.op] : k \in Promise!Announced[q.op][i]
  <2>1. /\ 1 \in DOMAIN <<{"extract"}>> /\ <<{"extract"}>>[1] = {"extract"}
    OBVIOUS
  <2>2. \A a, b : LET A == <<a, b>> IN {1, 2} \subseteq DOMAIN A /\ A[1] = a /\ A[2] = b
    OBVIOUS
  <2>3. \A a, b, c : LET A == <<a, b, c>>
                     IN  {1, 2, 3} \subseteq DOMAIN A /\ A[1] = a /\ A[2] = b /\ A[3] = c
    OBVIOUS
  <2>4. CASE q.op = "extract"
    BY <1>9, <2>1, <2>4, Announcements
  <2>5. CASE q.op = "stream" \/ q.op = "probe"
    BY <1>9, <2>2, <2>5, Announcements
  <2>6. CASE q.op = "granular"
    BY <1>9, <2>3, <2>6, Announcements
  <2>7. QED
    BY <1>1, <2>4, <2>5, <2>6
<1>11. Promise!Complete(k) = Whole(k)
  BY <1>9, StoresAssumption DEF Promise!Complete, Whole, CachedKinds, PassesOf
<1>12. QED
  BY <1>8, <1>10, <1>11

----------------------------------------------------------------------------
(* Events come in order.                                                   *)

\* Where a request stands after a stage of it.
LEMMA AdvancedFields ==
    ASSUME NEW q \in Request, NEW s, NEW l, SoundRequest(q, s, l)
    PROVE  LET new == Advanced(q)
           IN  /\ new.op = q.op /\ new.tenant = q.tenant /\ new.sha = q.sha
               /\ new.events = q.events
               /\ \/ /\ q.stage = 1 /\ q.op = "granular" /\ new.pc = "passes"
                     /\ new.stage = 2 /\ new.pending = PikepdfPasses /\ new.status = q.status
                  \/ /\ q.stage = 1 /\ q.op \in {"stream", "probe"} /\ new.pc = "lookup"
                     /\ new.stage = 2 /\ new.status = q.status
                  \/ /\ q.stage = 2 /\ q.op = "probe" /\ new.pc = "publish"
                     /\ new.status = q.status
                  \/ /\ \/ q.op = "extract" /\ q.stage = 1
                        \/ q.op \in {"stream", "granular"} /\ q.stage = 2
                     /\ new.pc = "done" /\ new.status = "200"
<1>1. q.op \in {"extract", "stream", "granular", "probe"} /\ q.stage \in 1 .. 2
  BY DEF Request, Stages
<1>2. q.stage = 2 => q.op # "extract"
  BY DEF SoundRequest
<1>3. /\ q.op # "extract" => Len(Stages[q.op]) = 2
      /\ q.op = "extract" => Len(Stages[q.op]) = 1
  BY StagesFacts
<1>4. CASE q.stage = 1 /\ q.op = "granular"
  BY <1>4 DEF Advanced, Request
<1>5. CASE q.stage = 1 /\ q.op \in {"stream", "probe"}
  <2> DEFINE new == [q EXCEPT !.pc = "lookup", !.stage = 2, !.val = None]
  <2>1. Advanced(q) = new
    BY <1>3, <1>5 DEF Advanced
  <2>2. /\ new.pc = "lookup" /\ new.stage = 2 /\ new.op = q.op /\ new.tenant = q.tenant
        /\ new.sha = q.sha /\ new.events = q.events /\ new.status = q.status
    BY DEF Request
  <2>3. QED
    BY <1>5, <2>1, <2>2
<1>6. CASE q.stage = 2 /\ q.op = "probe"
  <2> DEFINE new == [q EXCEPT !.pc = "publish", !.val = None]
  <2>1. ~(2 < 2)
    OBVIOUS
  <2>2. Advanced(q) = new
    BY <1>3, <1>6, <2>1 DEF Advanced
  <2>3. /\ new.pc = "publish" /\ new.op = q.op /\ new.tenant = q.tenant
        /\ new.sha = q.sha /\ new.events = q.events /\ new.status = q.status
    BY DEF Request
  <2>4. QED
    BY <1>6, <2>2, <2>3
<1>7. CASE \/ q.op = "extract" /\ q.stage = 1
           \/ q.op \in {"stream", "granular"} /\ q.stage = 2
  <2> DEFINE new == Finished(q, "200")
  <2>1. ~(1 < 1) /\ ~(2 < 2) /\ q.op # "probe" /\ ~(q.stage = 1 /\ q.op = "granular")
    BY <1>7
  <2>2. ~(q.stage < Len(Stages[q.op]))
    <3>1. CASE q.op = "extract" /\ q.stage = 1
      BY <1>3, <2>1, <3>1
    <3>2. CASE q.op \in {"stream", "granular"} /\ q.stage = 2
      BY <1>3, <2>1, <3>2
    <3>3. QED
      BY <1>7, <3>1, <3>2
  <2>3. Advanced(q) = new
    BY <2>1, <2>2 DEF Advanced
  <2>4. /\ new.pc = "done" /\ new.op = q.op /\ new.tenant = q.tenant
        /\ new.sha = q.sha /\ new.events = q.events /\ new.status = "200"
    BY DEF Request, Finished
  <2>5. QED
    BY <1>7, <2>3, <2>4
<1>8. QED
  BY <1>1, <1>2, <1>4, <1>5, <1>6, <1>7

LEMMA AdvancedOrdered ==
    ASSUME NEW q \in Request, NEW s, NEW l, SoundRequest(q, s, l),
           \A i \in DOMAIN q.events :
              q.stage = 1 => q.events[i].kind = Stages[q.op][1]
    PROVE  OrderedRequest(Advanced(q))
<1> DEFINE new == Advanced(q)
<1>1. /\ new.op = q.op /\ new.events = q.events
      /\ \/ /\ q.stage = 1 /\ q.op = "granular" /\ new.pc = "passes"
            /\ new.stage = 2 /\ new.pending = PikepdfPasses
         \/ /\ q.stage = 1 /\ q.op \in {"stream", "probe"} /\ new.pc = "lookup"
            /\ new.stage = 2
         \/ q.op = "probe" /\ new.pc = "publish"
         \/ new.pc = "done"
  BY AdvancedFields
<1> HIDE DEF new
<1>2. Stages["granular"][1] = "extract-phase-1-min"
  BY DEF Stages
<1>3. OrderedRequest(new)
  BY <1>1, <1>2 DEF OrderedRequest, Behind
<1>4. QED
  BY <1>3 DEF new

\* A request of which nothing changes that the order is told by.
LEMMA OrderStays ==
    ASSUME NEW q, NEW new, OrderedRequest(q), q.pc \notin {"publish", "done", "passes"},
           new.pc \notin {"publish", "passes"}, new.op = q.op, new.stage = q.stage,
           new.events = q.events
    PROVE  OrderedRequest(new)
BY DEF OrderedRequest, Behind

LEMMA OrderMoves ==
    ASSUME ApiTypeOK, InOrderInv, NEW r \in Requests, NEW new, Become(r, new),
           OrderedRequest(new)
    PROVE  InOrderInv'
BY DEF Become, ApiTypeOK, InOrderInv

LEMMA EndedInOrder ==
    ASSUME ApiTypeOK, InOrderInv, NEW r \in Requests, NEW status,
           Become(r, Finished(req[r], status))
    PROVE  InOrderInv'
<1> DEFINE new == Finished(req[r], status)
<1>1. new.pc = "done"
  BY DEF Finished, ApiTypeOK, Request
<1> HIDE DEF new
<1>2. OrderedRequest(new)
  BY <1>1 DEF OrderedRequest
<1>3. QED
  BY <1>2, OrderMoves DEF new

\* What Emit gives the request: an event of its stage's kind.
LEMMA EmitGives ==
    ASSUME IInv, NEW r \in Requests, Emit(r)
    PROVE  LET q == req[r]
               e == EventOf(Kind(r), q.val)
               given == WithEvent(q, e)
           IN  /\ q.pc = "emit" /\ Become(r, Advanced(given))
               /\ e \in Event /\ e.kind = Stages[q.op][q.stage]
               /\ given \in Request /\ SoundRequest(given, seen, lost)
               /\ given.op = q.op /\ given.stage = q.stage /\ given.tenant = q.tenant
               /\ given.sha = q.sha /\ given.status = q.status /\ given.pc = q.pc
               /\ given.events = Append(q.events, e)
<1> DEFINE q == req[r]
           e == EventOf(Kind(r), q.val)
           given == WithEvent(q, e)
<1>1. q \in Request /\ SoundRequest(q, seen, lost)
  BY AtHand
<1>2. q.pc = "emit" /\ Become(r, Advanced(given))
  BY DEF Emit
<1>3. e \in Event /\ e.kind = Stages[q.op][q.stage] /\ <<q.tenant, q.sha>> \in seen
      /\ Sha(e.doc) = q.sha /\ ExplainedBy(e.kind, e, lost)
  BY <1>1, <1>2, AtHand DEF SoundRequest, EventOf, Event, EventKinds, Document, Kind, ExplainedBy
<1> HIDE DEF e
<1>4. given \in Request /\ SoundRequest(given, seen, lost)
  BY <1>1, <1>2, <1>3, WithEventSound
<1>5. /\ given.op = q.op /\ given.stage = q.stage /\ given.tenant = q.tenant
      /\ given.sha = q.sha /\ given.status = q.status /\ given.pc = q.pc
      /\ given.events = Append(q.events, e)
  BY <1>1 DEF WithEvent, Request
<1>6. QED
  BY <1>2, <1>3, <1>4, <1>5 DEF e

\* What a pass that settles gives the request, and what it leaves pending.
LEMMA PassGives ==
    ASSUME IInv, NEW r \in Requests, NEW p \in PikepdfPasses, PassSettles(r, p)
    PROVE  \E new, e :
              /\ req[r].pc = "passes" /\ p \in req[r].pending /\ Become(r, new)
              /\ e \in Event /\ e.kind = p
              /\ new.pending = req[r].pending \ {p}
              /\ new.pc = IF new.pending = {} THEN "assemble" ELSE "passes"
              /\ new.op = req[r].op /\ new.stage = req[r].stage
              /\ new.tenant = req[r].tenant /\ new.sha = req[r].sha
              /\ new.status = req[r].status /\ new.events = Append(req[r].events, e)
              /\ \A d \in Docs : lost[d] \subseteq lost'[d]
<1> DEFINE q == req[r]
<1>1. q \in Request /\ q.pc = "passes" /\ p \in q.pending /\ q.raw \in Docs
  BY AtHand DEF PassSettles
<1>2. PICK failed \in SUBSET ({p} \cap Faulty) :
         /\ PassesFail(q.raw, failed)
         /\ LET rest == q.pending \ {p}
                next == [q EXCEPT !.pending = rest, !.kept = @ \cup ({p} \ failed),
                                  !.pc = IF rest = {} THEN "assemble" ELSE "passes"]
            IN  Become(r, WithEvent(next, EventOf(p, Extracted(q.raw, {p}, failed))))
  BY DEF PassSettles
<1> DEFINE rest == q.pending \ {p}
           next == [q EXCEPT !.pending = rest, !.kept = @ \cup ({p} \ failed),
                             !.pc = IF rest = {} THEN "assemble" ELSE "passes"]
           e == EventOf(p, Extracted(q.raw, {p}, failed))
           new == WithEvent(next, e)
<1>3. Become(r, new)
  BY <1>2
<1>4. /\ next.op = q.op /\ next.stage = q.stage /\ next.pending = rest
      /\ next.tenant = q.tenant /\ next.sha = q.sha /\ next.status = q.status
      /\ next.pc = IF rest = {} THEN "assemble" ELSE "passes"
      /\ next.events = q.events /\ DOMAIN next = DOMAIN q
  BY <1>1 DEF Request
<1>5. e \in Event /\ e.kind = p
  BY <1>1 DEF EventOf, Extracted, Event, EventKinds, Passes
<1>6. \A d \in Docs : lost[d] \subseteq lost'[d]
  BY <1>1, <1>2 DEF PassesFail, IInv, TypeOK, StoresTypeOK
<1> HIDE DEF next, e
<1>7. /\ new.op = q.op /\ new.stage = q.stage /\ new.pending = rest
      /\ new.tenant = q.tenant /\ new.sha = q.sha /\ new.status = q.status
      /\ new.pc = IF rest = {} THEN "assemble" ELSE "passes"
      /\ new.events = Append(q.events, e)
  BY <1>1, <1>4 DEF WithEvent, Request
<1> HIDE DEF new
<1>8. QED
  BY <1>1, <1>3, <1>5, <1>6, <1>7

LEMMA StepInOrder ==
    ASSUME IInv, InOrderInv, NEW r \in Requests, Arrive(r) \/ Step(r) \/ Abort(r)
    PROVE  InOrderInv'
<1> DEFINE q == req[r]
<1>1. /\ ApiTypeOK /\ q \in Request /\ SoundRequest(q, seen, lost) /\ OrderedRequest(q)
  BY DEF IInv, TypeOK, ApiTypeOK, InOrderInv
<1>2. ASSUME NEW new, Become(r, new), q.pc \in {"idle", "resolve"}, new.pc \notin {"publish"},
             new.events = q.events
      PROVE  InOrderInv'
  <2>1. new.events = <<>> /\ DOMAIN new.events = {}
    BY <1>1, <1>2 DEF SoundRequest
  <2>2. OrderedRequest(new)
    BY <1>2, <2>1 DEF OrderedRequest
  <2>3. QED
    BY <1>1, <1>2, <2>2, OrderMoves
<1>3. CASE Arrive(r)
  <2>1. ASSUME NEW op, NEW t, NEW d, Submit(r, op, t, d) PROVE InOrderInv'
    <3> DEFINE new == [q EXCEPT !.pc = "put", !.op = op, !.tenant = t, !.sha = Sha(d), !.raw = d]
    <3>1. Become(r, new) /\ q.pc = "idle"
      BY <2>1 DEF Submit
    <3>2. new.pc = "put" /\ new.events = q.events
      BY <1>1 DEF Request
    <3> HIDE DEF new
    <3>3. QED
      BY <1>2, <3>1, <3>2
  <2>2. ASSUME NEW t, NEW s, SubmitHash(r, t, s) PROVE InOrderInv'
    <3> DEFINE new == [q EXCEPT !.pc = "resolve", !.op = "probe", !.tenant = t, !.sha = s]
    <3>1. Become(r, new) /\ q.pc = "idle"
      BY <2>2 DEF SubmitHash
    <3>2. new.pc = "resolve" /\ new.events = q.events
      BY <1>1 DEF Request
    <3> HIDE DEF new
    <3>3. QED
      BY <1>2, <3>1, <3>2
  <2>3. QED
    BY <1>3, <2>1, <2>2 DEF Arrive
<1>4. CASE Resolve(r)
  <2>1. PICK raw : \/ Become(r, Finished(q, "412"))
                   \/ Become(r, [q EXCEPT !.pc = "put", !.raw = raw, !.sha = Sha(raw)])
    BY <1>4 DEF Resolve
  <2> DEFINE new == [q EXCEPT !.pc = "put", !.raw = raw, !.sha = Sha(raw)]
  <2>2. new.pc = "put" /\ new.events = q.events /\ q.pc = "resolve"
    BY <1>1, <1>4 DEF Request, Resolve
  <2> HIDE DEF new
  <2>3. CASE Become(r, new)
    BY <1>2, <2>2, <2>3
  <2>4. CASE Become(r, Finished(q, "412"))
    BY <1>1, <2>4, EndedInOrder
  <2>5. QED
    BY <2>1, <2>3, <2>4 DEF new
<1>5. CASE Put(r) \/ Lookup(r) \/ Fill(r) \/ Assemble(r)
  <2>1. PICK v : \/ Become(r, [q EXCEPT !.pc = "lookup"])
                 \/ Become(r, [q EXCEPT !.pc = "fill"])
                 \/ Become(r, [q EXCEPT !.pc = "emit", !.val = v])
    <3>1. Put(r) => Become(r, [q EXCEPT !.pc = "lookup"])
      BY DEF Put
    <3>2. Lookup(r) => \E hit : \/ Become(r, [q EXCEPT !.pc = "fill"])
                                \/ Become(r, [q EXCEPT !.pc = "emit", !.val = hit])
      BY DEF Lookup
    <3>3. Fill(r) \/ Assemble(r) => \E v : Become(r, [q EXCEPT !.pc = "emit", !.val = v])
      BY DEF Fill, Assemble
    <3>4. QED
      BY <1>5, <3>1, <3>2, <3>3
  <2>2. q.pc \in {"put", "lookup", "fill", "assemble"}
    BY <1>5 DEF Put, Lookup, Fill, Assemble
  <2>3. ASSUME NEW new, Become(r, new), new.pc \in {"lookup", "fill", "emit"},
               new.op = q.op, new.stage = q.stage, new.events = q.events
        PROVE  InOrderInv'
    <3>1. OrderedRequest(new)
      BY <1>1, <2>2, <2>3, OrderStays
    <3>2. QED
      BY <1>1, <2>3, <3>1, OrderMoves
  <2> DEFINE moved(pc) == [q EXCEPT !.pc = pc]
             filled == [q EXCEPT !.pc = "emit", !.val = v]
  <2>4. /\ \A pc : LET new == moved(pc)
                   IN  /\ new.pc = pc /\ new.op = q.op /\ new.stage = q.stage
                       /\ new.events = q.events
        /\ filled.pc = "emit" /\ filled.op = q.op /\ filled.stage = q.stage
        /\ filled.events = q.events
    BY <1>1 DEF Request
  <2>5. Become(r, moved("lookup")) \/ Become(r, moved("fill")) \/ Become(r, filled)
    BY <2>1
  <2> HIDE DEF moved, filled
  <2>6. QED
    BY <2>3, <2>4, <2>5
<1>6. CASE FillRaises(r)
  <2>1. q.pc = "fill" /\ (Become(r, Finished(q, "500")) \/ Become(r, Advanced(q)))
    BY <1>6 DEF FillRaises
  <2>2. \A i \in DOMAIN q.events : q.stage = 1 => q.events[i].kind = Stages[q.op][1]
    BY <1>1, <2>1 DEF OrderedRequest, Behind
  <2>3. OrderedRequest(Advanced(q))
    BY <1>1, <2>2, AdvancedOrdered
  <2>4. QED
    BY <1>1, <2>1, <2>3, OrderMoves, EndedInOrder
<1>7. CASE Emit(r)
  <2> DEFINE e == EventOf(Kind(r), q.val)
             given == WithEvent(q, e)
  <2>1. /\ q.pc = "emit" /\ Become(r, Advanced(given)) /\ e.kind = Stages[q.op][q.stage]
        /\ given \in Request /\ SoundRequest(given, seen, lost)
        /\ given.stage = q.stage /\ given.op = q.op /\ given.events = Append(q.events, e)
    BY <1>7, EmitGives
  <2> HIDE DEF given, e
  <2>2. \A i \in DOMAIN given.events :
           given.events[i] = e \/ (i \in DOMAIN q.events /\ given.events[i] = q.events[i])
    BY <1>1, <2>1 DEF Request
  <2>3. \A i \in DOMAIN q.events : q.stage = 1 => q.events[i].kind = Stages[q.op][1]
    BY <1>1, <2>1 DEF OrderedRequest, Behind
  <2>4. OrderedRequest(Advanced(given))
    BY <2>1, <2>2, <2>3, AdvancedOrdered, ZenonT(30)
  <2>5. QED
    BY <1>1, <2>1, <2>4, OrderMoves
<1>8. ASSUME NEW p \in PikepdfPasses, PassSettles(r, p) PROVE InOrderInv'
  <2>1. PICK new, e :
           /\ q.pc = "passes" /\ p \in q.pending /\ Become(r, new) /\ e.kind = p
           /\ new.pending = q.pending \ {p}
           /\ new.pc = IF new.pending = {} THEN "assemble" ELSE "passes"
           /\ new.op = q.op /\ new.stage = q.stage /\ new.events = Append(q.events, e)
    BY <1>8, PassGives
  <2>2. \A i \in DOMAIN new.events :
           new.events[i].kind = p \/ (i \in DOMAIN q.events /\ new.events[i] = q.events[i])
    BY <1>1, <2>1 DEF Request
  <2>3. q.op = "granular" /\ q.stage = 2
    BY <1>1, <2>1 DEF SoundRequest
  <2>4. OrderedRequest(new)
    BY <1>1, <1>8, <2>1, <2>2, <2>3 DEF OrderedRequest, Behind
  <2>5. QED
    BY <1>1, <2>1, <2>4, OrderMoves
<1>9. CASE AssembleRaises(r) \/ PublishSpeculate(r) \/ Abort(r)
  BY <1>1, <1>9, EndedInOrder DEF AssembleRaises, PublishSpeculate, Abort
<1>10. QED
  BY <1>3, <1>4, <1>5, <1>6, <1>7, <1>8, <1>9 DEF Step

\* The consumer and the clock touch no request.
LEMMA NextInOrder ==
    ASSUME IInv, InOrderInv, [Next]_vars
    PROVE  InOrderInv'
<1>1. UNCHANGED req => InOrderInv'
  BY DEF InOrderInv
<1>2. UNCHANGED apiVars \/ UNCHANGED vars => UNCHANGED req
  BY DEF apiVars, vars
<1>3. CASE ApiNext
  BY <1>3, StepInOrder DEF ApiNext
<1>4. QED
  BY <1>1, <1>2, <1>3 DEF Next

LEMMA InitInOrder == Init => InOrderInv
BY DEF Init, ApiInit, InOrderInv, OrderedRequest, Behind

----------------------------------------------------------------------------
(* Nothing is left out.                                                    *)

\* What a move to another step of the handler keeps.
LEMMA MovedFields ==
    ASSUME NEW q \in Request, NEW pc, NEW v
    PROVE  /\ LET new == [q EXCEPT !.pc = pc]
               IN  /\ new.pc = pc /\ new.op = q.op /\ new.tenant = q.tenant
                   /\ new.sha = q.sha /\ new.events = q.events /\ new.status = q.status
           /\ LET new == [q EXCEPT !.pc = pc, !.val = v]
               IN  /\ new.pc = pc /\ new.op = q.op /\ new.tenant = q.tenant
                   /\ new.sha = q.sha /\ new.events = q.events /\ new.status = q.status
           /\ LET new == Finished(q, v)
               IN  /\ new.pc = "done" /\ new.op = q.op /\ new.tenant = q.tenant
                   /\ new.sha = q.sha /\ new.events = q.events /\ new.status = v
BY DEF Request, Finished

\* The steps between two stages' ends: a request goes on, with what it was asked and
\* what it has been given.
LEMMA MovesOn ==
    ASSUME IInv, NEW r \in Requests, Put(r) \/ Lookup(r) \/ Fill(r) \/ Assemble(r)
    PROVE  /\ req[r].pc \in {"put", "lookup", "fill", "assemble"}
           /\ UNCHANGED raised
           /\ \E new : /\ Become(r, new) /\ new.pc \in {"lookup", "fill", "emit"}
                       /\ new.op = req[r].op /\ new.stage = req[r].stage
                       /\ new.tenant = req[r].tenant /\ new.sha = req[r].sha
                       /\ new.events = req[r].events /\ new.status = req[r].status
<1> DEFINE q == req[r]
           moved(pc) == [q EXCEPT !.pc = pc]
           filled(v) == [q EXCEPT !.pc = "emit", !.val = v]
<1>1. q \in Request
  BY DEF IInv, TypeOK, ApiTypeOK
<1>2. \E v : Become(r, moved("lookup")) \/ Become(r, moved("fill")) \/ Become(r, filled(v))
  <2>1. Put(r) => Become(r, moved("lookup"))
    BY DEF Put
  <2>2. Lookup(r) => \E hit : Become(r, moved("fill")) \/ Become(r, filled(hit))
    BY DEF Lookup
  <2>3. Fill(r) \/ Assemble(r) => \E v : Become(r, filled(v))
    BY DEF Fill, Assemble
  <2>4. QED
    BY <2>1, <2>2, <2>3
<1>3. /\ \A pc : LET new == moved(pc)
                 IN  /\ new.pc = pc /\ new.op = q.op /\ new.tenant = q.tenant
                     /\ new.sha = q.sha /\ new.events = q.events /\ new.status = q.status
                     /\ new.stage = q.stage
      /\ \A v : LET new == filled(v)
                IN  /\ new.pc = "emit" /\ new.op = q.op /\ new.tenant = q.tenant
                    /\ new.sha = q.sha /\ new.events = q.events /\ new.status = q.status
                    /\ new.stage = q.stage
  BY <1>1 DEF Request
<1>4. q.pc \in {"put", "lookup", "fill", "assemble"} /\ UNCHANGED raised
  BY DEF Put, Lookup, Fill, Assemble, PassesFail
<1> HIDE DEF moved, filled, q
<1>5. \E new : /\ Become(r, new) /\ new.pc \in {"lookup", "fill", "emit"}
               /\ new.op = q.op /\ new.stage = q.stage
               /\ new.tenant = q.tenant /\ new.sha = q.sha
               /\ new.events = q.events /\ new.status = q.status
  BY <1>2, <1>3
<1>6. QED
  BY <1>4, <1>5 DEF q

\* What is told stays told, as more is given and more extractors raise.
LEMMA ToldStays ==
    ASSUME NEW q, NEW new, NEW b, NEW b2, NEW k, Told(q, k, b), b \subseteq b2,
           new.sha = q.sha,
           \A j \in DOMAIN q.events : j \in DOMAIN new.events /\ new.events[j] = q.events[j]
    PROVE  Told(new, k, b2)
BY DEF Told

LEMMA CompleteStays ==
    ASSUME NEW q, NEW new, NEW b, NEW b2, CompleteRequest(q, b), b \subseteq b2,
           q.pc \notin {"publish", "done", "passes"}, new.pc \notin {"publish", "passes"},
           new.op = q.op, new.stage = q.stage, new.sha = q.sha, new.events = q.events
    PROVE  CompleteRequest(new, b2)
<1>1. Behind(new) = Behind(q)
  BY DEF Behind
<1>2. \A k \in Behind(q) : Told(new, k, b2)
  BY ToldStays DEF CompleteRequest
<1>3. QED
  BY <1>1, <1>2 DEF CompleteRequest

LEMMA OtherCompleteStays ==
    ASSUME NEW q, NEW b, NEW b2, CompleteRequest(q, b), b \subseteq b2
    PROVE  CompleteRequest(q, b2)
BY DEF CompleteRequest, Told

LEMMA CompleteMoves ==
    ASSUME ApiTypeOK, CompleteInv, NEW r \in Requests, NEW new, Become(r, new),
           CompleteRequest(new, raised'), raised \subseteq raised'
    PROVE  CompleteInv'
<1> SUFFICES ASSUME NEW x \in Requests PROVE CompleteRequest(req'[x], raised')
  BY DEF CompleteInv
<1>1. CASE x = r
  BY <1>1 DEF Become, ApiTypeOK
<1>2. CASE x # r
  BY <1>2, OtherCompleteStays DEF Become, ApiTypeOK, CompleteInv
<1>3. QED
  BY <1>1, <1>2

LEMMA EndedComplete ==
    ASSUME ApiTypeOK, CompleteInv, NEW r \in Requests, NEW status,
           Become(r, Finished(req[r], status)), raised \subseteq raised'
    PROVE  CompleteInv'
<1> DEFINE new == Finished(req[r], status)
<1>1. new.pc = "done"
  BY DEF Finished, ApiTypeOK, Request
<1> HIDE DEF new
<1>2. CompleteRequest(new, raised')
  BY <1>1 DEF CompleteRequest
<1>3. QED
  BY <1>2, CompleteMoves DEF new

\* A stage whose event was given, or whose extractor raised, leaves nothing out.
LEMMA AdvancedComplete ==
    ASSUME NEW q \in Request, NEW s, NEW l, NEW b, SoundRequest(q, s, l),
           CompleteRequest(q, b), q.pc \in {"fill", "emit"},
           Told(q, Stages[q.op][q.stage], b)
    PROVE  CompleteRequest(Advanced(q), b)
<1> DEFINE new == Advanced(q)
<1>1. /\ new.op = q.op /\ new.sha = q.sha /\ new.events = q.events
      /\ \/ /\ q.stage = 1 /\ q.op = "granular" /\ new.pc = "passes"
            /\ new.stage = 2 /\ new.pending = PikepdfPasses
         \/ /\ q.stage = 1 /\ q.op \in {"stream", "probe"} /\ new.pc = "lookup"
            /\ new.stage = 2
         \/ q.stage = 2 /\ q.op = "probe" /\ new.pc = "publish"
         \/ new.pc = "done"
  BY AdvancedFields
<1> HIDE DEF new
<1>2. \A k : Told(q, k, b) => Told(new, k, b)
  BY <1>1 DEF Told
<1>3. Stages["granular"][1] = "extract-phase-1-min"
      /\ Stages["probe"][1] = "probe-min" /\ Stages["probe"][2] = "probe-std"
  BY DEF Stages
<1>4. CASE q.stage = 1 /\ q.op = "granular" /\ new.pc = "passes" /\ new.stage = 2
           /\ new.pending = PikepdfPasses
  <2>1. Behind(new) = {"extract-phase-1-min"}
    BY <1>1, <1>4 DEF Behind
  <2>2. QED
    BY <1>2, <1>3, <1>4, <2>1 DEF CompleteRequest, new
<1>5. CASE q.stage = 1 /\ q.op \in {"stream", "probe"} /\ new.pc = "lookup" /\ new.stage = 2
  <2>1. Behind(new) = {Stages[q.op][1]}
    BY <1>1, <1>5 DEF Behind
  <2>2. QED
    BY <1>2, <1>5, <2>1 DEF CompleteRequest, new
<1>6. CASE q.stage = 2 /\ q.op = "probe" /\ new.pc = "publish"
  <2>1. Behind(q) = {"probe-min"}
    BY <1>3, <1>6 DEF Behind
  <2>2. Told(q, "probe-min", b) /\ Told(q, "probe-std", b)
    BY <1>3, <1>6, <2>1 DEF CompleteRequest
  <2>3. QED
    BY <1>2, <1>6, <2>2 DEF CompleteRequest, new
<1>7. CASE new.pc = "done"
  BY <1>7 DEF CompleteRequest, new
<1>8. QED
  BY <1>1, <1>4, <1>5, <1>6, <1>7

\* The kind a stage reads is no pass.
LEMMA StageKinds ==
    ASSUME NEW q \in Request
    PROVE  Stages[q.op][1] \notin PikepdfPasses
           /\ (q.op # "extract" => Stages[q.op][2] \notin PikepdfPasses)
BY StoresAssumption DEF Request, Stages

LEMMA RaisedTold ==
    ASSUME IInv, NEW r \in Requests, FillRaises(r) \/ AssembleRaises(r)
    PROVE  /\ raised \subseteq raised'
           /\ Told(req[r], Stages[req[r].op][req[r].stage], raised')
<1> DEFINE q == req[r]
<1>1. q.pc \in {"fill", "assemble"} /\ raised' = raised \cup {q.raw}
  BY DEF FillRaises, AssembleRaises, ExtractorRaises
<1>2. q \in Request /\ SoundRequest(q, seen, lost) /\ q.sha = Sha(q.raw)
  BY <1>1, AtHand
<1>3. q.stage \in 1 .. 2 /\ (q.stage = 2 => q.op # "extract")
  BY <1>2 DEF Request, SoundRequest
<1>4. Stages[q.op][q.stage] \notin PikepdfPasses
  BY <1>2, <1>3, StageKinds
<1>5. QED
  BY <1>1, <1>2, <1>4 DEF Told

LEMMA EmitComplete ==
    ASSUME IInv, CompleteInv, NEW r \in Requests, Emit(r)
    PROVE  /\ CompleteInv'
           /\ LET given == WithEvent(req[r], EventOf(Kind(r), req[r].val))
              IN  /\ CompleteRequest(given, raised)
                  /\ Told(given, Stages[req[r].op][req[r].stage], raised)
<1> DEFINE q == req[r]
           e == EventOf(Kind(r), q.val)
           given == WithEvent(q, e)
<1>1. /\ q \in Request /\ ApiTypeOK /\ CompleteRequest(q, raised) /\ raised' = raised
      /\ q.events \in Seq(Event)
  BY DEF IInv, TypeOK, ApiTypeOK, CompleteInv, Emit, storeVars, Request
<1>2. /\ q.pc = "emit" /\ Become(r, Advanced(given)) /\ e.kind = Stages[q.op][q.stage]
      /\ given \in Request /\ SoundRequest(given, seen, lost) /\ given.sha = q.sha
      /\ given.stage = q.stage /\ given.op = q.op /\ given.pc = q.pc
      /\ given.events = Append(q.events, e)
  BY EmitGives
<1> HIDE DEF given, e
<1>3. /\ Len(given.events) \in DOMAIN given.events
      /\ given.events[Len(given.events)] = e
      /\ \A j \in DOMAIN q.events : j \in DOMAIN given.events /\ given.events[j] = q.events[j]
  BY <1>1, <1>2
<1>4. Told(given, Stages[q.op][q.stage], raised)
  BY <1>2, <1>3 DEF Told
<1>5. CompleteRequest(given, raised)
  <2>1. Behind(given) = Behind(q)
    BY <1>2 DEF Behind
  <2>2. \A k \in Behind(q) : Told(given, k, raised)
    BY <1>1, <1>2, <1>3, ToldStays DEF CompleteRequest
  <2>3. QED
    BY <1>2, <2>1, <2>2 DEF CompleteRequest
<1>6. CompleteRequest(Advanced(given), raised)
  BY <1>2, <1>4, <1>5, AdvancedComplete
<1>7. QED
  BY <1>1, <1>2, <1>4, <1>5, <1>6, CompleteMoves DEF given, e

LEMMA StepComplete ==
    ASSUME IInv, CompleteInv, NEW r \in Requests, Arrive(r) \/ Step(r) \/ Abort(r)
    PROVE  CompleteInv'
<1> DEFINE q == req[r]
<1>1. /\ ApiTypeOK /\ q \in Request /\ SoundRequest(q, seen, lost)
      /\ CompleteRequest(q, raised) /\ q.events \in Seq(Event)
  BY DEF IInv, TypeOK, ApiTypeOK, CompleteInv, Request
<1>2. ASSUME NEW new, Become(r, new), q.pc \in {"idle", "resolve"},
             new.pc \in {"put", "resolve"}, new.stage = q.stage, raised \subseteq raised'
      PROVE  CompleteInv'
  <2>1. Behind(new) = {}
    BY <1>1, <1>2 DEF SoundRequest, Behind
  <2>2. CompleteRequest(new, raised')
    BY <1>2, <2>1 DEF CompleteRequest
  <2>3. QED
    BY <1>1, <1>2, <2>2, CompleteMoves
<1>3. CASE Arrive(r)
  <2>1. ASSUME NEW op, NEW t, NEW d, Submit(r, op, t, d) PROVE CompleteInv'
    <3> DEFINE new == [q EXCEPT !.pc = "put", !.op = op, !.tenant = t, !.sha = Sha(d), !.raw = d]
    <3>1. Become(r, new) /\ q.pc = "idle" /\ raised' = raised
      BY <2>1 DEF Submit, storeVars
    <3>2. new.pc = "put" /\ new.stage = q.stage
      BY <1>1 DEF Request
    <3> HIDE DEF new
    <3>3. QED
      BY <1>2, <3>1, <3>2
  <2>2. ASSUME NEW t, NEW s, SubmitHash(r, t, s) PROVE CompleteInv'
    <3> DEFINE new == [q EXCEPT !.pc = "resolve", !.op = "probe", !.tenant = t, !.sha = s]
    <3>1. Become(r, new) /\ q.pc = "idle" /\ raised' = raised
      BY <2>2 DEF SubmitHash, storeVars
    <3>2. new.pc = "resolve" /\ new.stage = q.stage
      BY <1>1 DEF Request
    <3> HIDE DEF new
    <3>3. QED
      BY <1>2, <3>1, <3>2
  <2>3. QED
    BY <1>3, <2>1, <2>2 DEF Arrive
<1>4. CASE Resolve(r)
  <2>1. PICK raw : \/ Become(r, Finished(q, "412"))
                   \/ Become(r, [q EXCEPT !.pc = "put", !.raw = raw, !.sha = Sha(raw)])
    BY <1>4 DEF Resolve
  <2> DEFINE new == [q EXCEPT !.pc = "put", !.raw = raw, !.sha = Sha(raw)]
  <2>2. new.pc = "put" /\ new.stage = q.stage /\ q.pc = "resolve" /\ raised' = raised
    BY <1>1, <1>4 DEF Request, Resolve
  <2> HIDE DEF new
  <2>3. CASE Become(r, new)
    BY <1>2, <2>2, <2>3
  <2>4. CASE Become(r, Finished(q, "412"))
    BY <1>1, <2>2, <2>4, EndedComplete
  <2>5. QED
    BY <2>1, <2>3, <2>4 DEF new
<1>5. CASE Put(r) \/ Lookup(r) \/ Fill(r) \/ Assemble(r)
  <2>1. q.pc \in {"put", "lookup", "fill", "assemble"} /\ raised' = raised
    BY <1>5, MovesOn
  <2>2. PICK new : /\ Become(r, new) /\ new.pc \in {"lookup", "fill", "emit"}
                   /\ new.op = q.op /\ new.stage = q.stage /\ new.sha = q.sha
                   /\ new.events = q.events
    BY <1>5, MovesOn
  <2>3. CompleteRequest(new, raised')
    BY <1>1, <2>1, <2>2, CompleteStays
  <2>4. QED
    BY <1>1, <2>1, <2>2, <2>3, CompleteMoves
<1>6. CASE FillRaises(r)
  <2>1. q.pc = "fill" /\ (Become(r, Finished(q, "500")) \/ Become(r, Advanced(q)))
    BY <1>6 DEF FillRaises
  <2>2. raised \subseteq raised' /\ Told(q, Stages[q.op][q.stage], raised')
    BY <1>6, RaisedTold
  <2>3. CompleteRequest(q, raised')
    BY <1>1, <2>2, OtherCompleteStays
  <2>4. CompleteRequest(Advanced(q), raised')
    BY <1>1, <2>1, <2>2, <2>3, AdvancedComplete
  <2>5. QED
    BY <1>1, <2>1, <2>2, <2>4, CompleteMoves, EndedComplete
<1>7. CASE Emit(r)
  BY <1>7, EmitComplete
<1>8. ASSUME NEW p \in PikepdfPasses, PassSettles(r, p) PROVE CompleteInv'
  <2>1. PICK new, e :
           /\ q.pc = "passes" /\ p \in q.pending /\ Become(r, new) /\ e.kind = p
           /\ new.pending = q.pending \ {p}
           /\ new.pc = IF new.pending = {} THEN "assemble" ELSE "passes"
           /\ new.op = q.op /\ new.stage = q.stage /\ new.sha = q.sha
           /\ new.events = Append(q.events, e)
    BY <1>8, PassGives
  <2>2. /\ Len(new.events) \in DOMAIN new.events /\ new.events[Len(new.events)] = e
        /\ \A j \in DOMAIN q.events : j \in DOMAIN new.events /\ new.events[j] = q.events[j]
    BY <1>1, <2>1
  <2>3. q.op = "granular" /\ q.stage = 2 /\ raised' = raised
    BY <1>1, <1>8, <2>1 DEF SoundRequest, PassSettles, PassesFail
  <2>4. Told(new, p, raised')
    BY <2>1, <2>2 DEF Told
  <2>5. Behind(new) \subseteq Behind(q) \cup {p}
    BY <2>1, <2>3 DEF Behind
  <2>6. \A k \in Behind(q) : Told(new, k, raised')
    BY <1>1, <2>1, <2>2, <2>3, ToldStays DEF CompleteRequest
  <2>7. CompleteRequest(new, raised')
    BY <2>1, <2>4, <2>5, <2>6 DEF CompleteRequest
  <2>8. QED
    BY <1>1, <2>1, <2>3, <2>7, CompleteMoves
<1>9. CASE AssembleRaises(r) \/ PublishSpeculate(r) \/ Abort(r)
  BY <1>1, <1>9, EndedComplete DEF AssembleRaises, PublishSpeculate, Abort, ExtractorRaises
<1>10. QED
  BY <1>3, <1>4, <1>5, <1>6, <1>7, <1>8, <1>9 DEF Step

LEMMA NextComplete ==
    ASSUME IInv, CompleteInv, [Next]_vars
    PROVE  CompleteInv'
<1>1. UNCHANGED req /\ raised \subseteq raised' => CompleteInv'
  BY OtherCompleteStays DEF CompleteInv
<1>2. UNCHANGED apiVars \/ UNCHANGED vars => UNCHANGED req
  BY DEF apiVars, vars
<1>3. CASE ApiNext
  BY <1>3, StepComplete DEF ApiNext
<1>4. SpecNext \/ Expiry \/ UNCHANGED vars => raised \subseteq raised'
  BY OthersRaiseMore
<1>5. QED
  BY <1>1, <1>2, <1>3, <1>4 DEF Next

LEMMA InitComplete == Init => CompleteInv
BY DEF Init, ApiInit, CompleteInv, CompleteRequest, Behind

\* All the kinds an operation announces.
KindsOf(op) ==
    CASE op = "extract"  -> {"extract"}
      [] op = "stream"   -> {"extract-phase-1", "extract"}
      [] op = "granular" -> {"extract-phase-1-min", "extract"} \cup PikepdfPasses
      [] op = "probe"    -> {"probe-min", "probe-std"}

LEMMA AnnouncedKinds ==
    ASSUME NEW op \in DOMAIN Stages, NEW i \in DOMAIN Promise!Announced[op]
    PROVE  Promise!Announced[op][i] \subseteq KindsOf(op)
<1>1. op \in {"extract", "stream", "granular", "probe"}
  BY DEF Stages
<1>2. \A a : DOMAIN <<a>> = {1} /\ <<a>>[1] = a
  OBVIOUS
<1>3. \A a, b : DOMAIN <<a, b>> = {1, 2} /\ <<a, b>>[1] = a /\ <<a, b>>[2] = b
  OBVIOUS
<1>4. \A a, b, c : /\ DOMAIN <<a, b, c>> = {1, 2, 3}
                   /\ <<a, b, c>>[1] = a /\ <<a, b, c>>[2] = b /\ <<a, b, c>>[3] = c
  OBVIOUS
<1>5. CASE op = "extract"
  BY <1>2, <1>5, Announcements DEF KindsOf
<1>6. CASE op = "stream"
  BY <1>3, <1>6, Announcements DEF KindsOf
<1>7. CASE op = "granular"
  BY <1>4, <1>7, Announcements DEF KindsOf
<1>8. CASE op = "probe"
  BY <1>3, <1>8, Announcements DEF KindsOf
<1>9. QED
  BY <1>1, <1>5, <1>6, <1>7, <1>8

\* An answer that ends with everything told is one the promise lets end.
LEMMA ToldIsEnough ==
    ASSUME NEW r \in Requests, NEW q \in Request, AskedBar[r].op = q.op,
           AskedBar[r].sha = q.sha, NEW new, EventsBar'[r] = new.events, new.sha = q.sha,
           \A k \in KindsOf(q.op) : Told(new, k, raised')
    PROVE  Promise!NothingLost(r)
<1>1. q.op \in DOMAIN Stages
  BY DEF Request
<1>2. \A i \in DOMAIN Promise!Announced[q.op] : Promise!Announced[q.op][i] \subseteq KindsOf(q.op)
  BY <1>1, AnnouncedKinds
<1>3. QED
  BY <1>2 DEF Promise!NothingLost, Told

\* At its last stage a request has behind it all but that stage's kind.
LEMMA LastStage ==
    ASSUME NEW q \in Request, NEW b, CompleteRequest(q, b), q.stage = 2, q.op # "extract",
           q.pc \in {"fill", "emit", "assemble"}, Told(q, Stages[q.op][2], b)
    PROVE  \A k \in KindsOf(q.op) : Told(q, k, b)
<1>1. q.op \in {"stream", "granular", "probe"}
  BY DEF Request, Stages
<1>2. /\ Stages["stream"][1] = "extract-phase-1" /\ Stages["stream"][2] = "extract"
      /\ Stages["granular"][1] = "extract-phase-1-min" /\ Stages["granular"][2] = "extract"
      /\ Stages["probe"][1] = "probe-min" /\ Stages["probe"][2] = "probe-std"
  BY DEF Stages
<1>3. KindsOf(q.op) \subseteq Behind(q) \cup {Stages[q.op][2]}
  BY <1>1, <1>2 DEF KindsOf, Behind
<1>4. QED
  BY <1>3 DEF CompleteRequest

----------------------------------------------------------------------------
(* What has been uploaded is there, or its absence is on record.           *)

OnRecord(key, b, g) == b[key] # None \/ key \in g

Held(q, b, g) ==
    q.raw # None /\ q.pc \notin {"idle", "resolve", "put"} /\ q.status # "aborted" =>
        Scoped(q.sha, q.tenant) \in ScopedKeys /\ OnRecord(Scoped(q.sha, q.tenant), b, g)

HeldInv == \A r \in Requests : Held(req[r], blobs, gone)

RecordsKept ==
    \A key \in ScopedKeys : OnRecord(key, blobs, gone) => OnRecord(key, blobs', gone')

LEMMA PutRecords ==
    ASSUME IInv, NEW r \in Requests, Put(r)
    PROVE  /\ RecordsKept
           /\ LET key == Scoped(req[r].sha, req[r].tenant)
              IN  key \in ScopedKeys /\ OnRecord(key, blobs', gone')
<1> DEFINE raw == req[r].raw
           t == req[r].tenant
           key == Scoped(Sha(raw), t)
<1>1. /\ raw \in Docs /\ t \in Tenants /\ req[r].sha = Sha(raw) /\ BlobPut(raw, t)
  BY AtHand DEF Put
<1>2. key \in ScopedKeys /\ raw # None
  BY <1>1, ShaType, StoresAssumption DEF Scoped, ScopedKeys
<1>3. blobs \in [ScopedKeys -> Docs \cup {None}]
  BY DEF IInv, TypeOK, StoresTypeOK
<1>4. \/ /\ blobs' \in {blobs, [blobs EXCEPT ![key] = raw]}
         /\ gone' = IF blobs'[key] = None THEN gone \cup {key} ELSE gone \ {key}
      \/ blobs' = [blobs EXCEPT ![key] = raw] /\ gone' = gone \ {key}
  BY <1>1 DEF BlobPut
<1> HIDE DEF key, raw
<1>5. OnRecord(key, blobs', gone')
  BY <1>2, <1>3, <1>4 DEF OnRecord
<1>6. ASSUME NEW other \in ScopedKeys, other # key, OnRecord(other, blobs, gone)
      PROVE  OnRecord(other, blobs', gone')
  BY <1>2, <1>3, <1>4, <1>6 DEF OnRecord
<1>7. QED
  BY <1>1, <1>2, <1>5, <1>6 DEF RecordsKept, key

LEMMA ExpiryRecords ==
    ASSUME IInv, Expiry
    PROVE  RecordsKept
<1>1. blobs \in [ScopedKeys -> Docs \cup {None}]
  BY DEF IInv, TypeOK, StoresTypeOK
<1>2. ASSUME NEW key \in ScopedKeys, BlobExpire(key) PROVE RecordsKept
  BY <1>1, <1>2 DEF BlobExpire, RecordsKept, OnRecord
<1>3. ASSUME UNCHANGED <<blobs, gone>> PROVE RecordsKept
  BY <1>3 DEF RecordsKept
<1>4. QED
  BY <1>2, <1>3 DEF Expiry, CacheExpire, DedupeExpire

\* Only a put and an expiry touch the blobs.
LEMMA NextRecords ==
    ASSUME IInv, [Next]_vars
    PROVE  RecordsKept
<1>1. ASSUME UNCHANGED <<blobs, gone>> PROVE RecordsKept
  BY <1>1 DEF RecordsKept
<1>2. ASSUME NEW r \in Requests, Arrive(r) \/ Step(r) \/ Abort(r), ~Put(r)
      PROVE  UNCHANGED <<blobs, gone>>
  BY <1>2 DEF Arrive, Submit, SubmitHash, Step, Resolve, Lookup, Fill, FillRaises, Emit,
        PassSettles, Assemble, AssembleRaises, PublishSpeculate, Abort, storeVars, tier
<1>3. ASSUME SpecNext PROVE UNCHANGED <<blobs, gone>>
  BY <1>3 DEF SpecNext, Consume, XRead, TakeMessage, FetchBlob, CheckCached, FillPhase1,
        FillPhase2, SpecRaises, XReadFails, Restart, storeVars, tier
<1>4. CASE UNCHANGED vars
  BY <1>1, <1>4 DEF vars, storeVars
<1>5. QED
  BY <1>1, <1>2, <1>3, <1>4, PutRecords, ExpiryRecords DEF Next, ApiNext

\* A request that arrives is before its put, and open.
LEMMA Arrives ==
    ASSUME IInv, NEW r \in Requests, Arrive(r)
    PROVE  \E new : /\ Become(r, new) /\ new.pc \in {"put", "resolve"}
                    /\ new.status = req[r].status
<1> DEFINE q == req[r]
           Shape(new) == new.pc \in {"put", "resolve"} /\ new.status = q.status
           brought(op, t, d) ==
               [q EXCEPT !.pc = "put", !.op = op, !.tenant = t, !.sha = Sha(d), !.raw = d]
           named(t, s) == [q EXCEPT !.pc = "resolve", !.op = "probe", !.tenant = t, !.sha = s]
<1>1. q \in Request
  BY DEF IInv, TypeOK, ApiTypeOK
<1>2. /\ \A op, t, d : Shape(brought(op, t, d))
      /\ \A t, s : Shape(named(t, s))
  BY <1>1 DEF Request
<1>3. \/ \E op, t, d : Become(r, brought(op, t, d))
      \/ \E t, s : Become(r, named(t, s))
  BY DEF Arrive, Submit, SubmitHash
<1> HIDE DEF Shape, brought, named
<1>4. \E new : Become(r, new) /\ Shape(new)
  BY <1>2, <1>3
<1>5. QED
  BY <1>4 DEF Shape

\* Past its resolve a request keeps its tenant and hash, and no step refuses it.
LEMMA KeepsBytes ==
    ASSUME IInv, NEW r \in Requests, Step(r) \/ Abort(r), ~Resolve(r)
    PROVE  /\ req[r].pc \notin {"idle", "resolve", "done"} \/ Abort(r)
           /\ \E new : /\ Become(r, new)
                       /\ new.tenant = req[r].tenant /\ new.sha = req[r].sha
                       /\ new.status \in {req[r].status, "200", "500", "aborted"}
<1> DEFINE q == req[r]
<1>1. q \in Request /\ SoundRequest(q, seen, lost)
  BY AtHand
<1>2. q.pc \notin {"idle", "resolve", "done"} \/ Abort(r)
  BY DEF Step, Put, Lookup, Fill, FillRaises, Emit, PassSettles, Assemble, AssembleRaises,
        PublishSpeculate
<1> DEFINE Kept(new) ==
        /\ new.tenant = q.tenant /\ new.sha = q.sha
        /\ new.status \in {q.status, "200", "500", "aborted"}
<1>3. \A status \in {"200", "500", "aborted"} : Kept(Finished(q, status))
  BY <1>1, MovedFields
<1>4. Kept(Advanced(q))
  BY <1>1, AdvancedFields
<1> HIDE DEF Kept
<1>5. CASE Put(r) \/ Lookup(r) \/ Fill(r) \/ Assemble(r)
  <2>1. PICK new : /\ Become(r, new) /\ new.tenant = q.tenant /\ new.sha = q.sha
                   /\ new.status = q.status
    BY <1>5, MovesOn
  <2>2. QED
    BY <1>2, <2>1
<1>6. CASE FillRaises(r)
  <2>1. \E new : Become(r, new) /\ Kept(new)
    BY <1>3, <1>4, <1>6 DEF FillRaises
  <2>2. QED
    BY <1>2, <2>1 DEF Kept
<1>7. CASE Emit(r)
  <2> DEFINE given == WithEvent(q, EventOf(Kind(r), q.val))
  <2>1. /\ Become(r, Advanced(given)) /\ given \in Request
        /\ SoundRequest(given, seen, lost) /\ given.tenant = q.tenant
        /\ given.sha = q.sha /\ given.status = q.status
    BY <1>7, EmitGives
  <2> HIDE DEF given
  <2>2. LET new == Advanced(given)
        IN  /\ new.tenant = given.tenant /\ new.sha = given.sha
            /\ new.status \in {given.status, "200"}
    BY <2>1, AdvancedFields
  <2>3. \E new : Become(r, new) /\ Kept(new)
    BY <2>1, <2>2 DEF Kept
  <2>4. QED
    BY <1>2, <2>3 DEF Kept
<1>8. ASSUME NEW p \in PikepdfPasses, PassSettles(r, p)
      PROVE  \E new : Become(r, new) /\ Kept(new)
  <2>1. PICK new : /\ Become(r, new) /\ new.tenant = q.tenant /\ new.sha = q.sha
                   /\ new.status = q.status
    BY <1>8, PassGives
  <2>2. QED
    BY <2>1 DEF Kept
<1>9. CASE AssembleRaises(r) \/ PublishSpeculate(r) \/ Abort(r)
  <2>1. \E new : Become(r, new) /\ Kept(new)
    BY <1>3, <1>9 DEF AssembleRaises, PublishSpeculate, Abort
  <2>2. QED
    BY <1>2, <2>1 DEF Kept
<1>10. QED
  BY <1>2, <1>5, <1>6, <1>7, <1>8, <1>9 DEF Step, Kept

LEMMA HeldMoves ==
    ASSUME IInv, HeldInv, RecordsKept, NEW r \in Requests, NEW new, Become(r, new),
           Held(new, blobs', gone')
    PROVE  HeldInv'
<1> SUFFICES ASSUME NEW x \in Requests PROVE Held(req'[x], blobs', gone')
  BY DEF HeldInv
<1>1. req \in [Requests -> Request]
  BY DEF IInv, TypeOK, ApiTypeOK
<1>2. CASE x = r
  BY <1>1, <1>2 DEF Become
<1>3. CASE x # r
  <2>1. req'[x] = req[x] /\ Held(req[x], blobs, gone)
    BY <1>1, <1>3 DEF Become, HeldInv
  <2>2. QED
    BY <2>1 DEF Held, RecordsKept
<1>4. QED
  BY <1>2, <1>3

LEMMA StepHeld ==
    ASSUME IInv, EndsExplained, HeldInv, RecordsKept, NEW r \in Requests,
           Arrive(r) \/ Step(r) \/ Abort(r)
    PROVE  HeldInv'
<1> DEFINE q == req[r]
<1>1. q \in Request /\ ExplainedEnd(q, raised) /\ Held(q, blobs, gone)
  BY AtHand DEF EndsExplained, HeldInv
<1>2. CASE Arrive(r)
  <2>1. \E new : Become(r, new) /\ new.pc \in {"put", "resolve"}
    BY <1>2, Arrives
  <2>2. QED
    BY <2>1, HeldMoves DEF Held
<1>3. CASE Resolve(r)
  <2>1. q.pc = "resolve" /\ q.raw = None
    BY <1>1, <1>3 DEF Resolve, ExplainedEnd
  <2>2. \E new : Become(r, new) /\ (new.pc = "put" \/ new.raw = None)
    <3>1. PICK raw : \/ Become(r, Finished(q, "412"))
                     \/ Become(r, [q EXCEPT !.pc = "put", !.raw = raw, !.sha = Sha(raw)])
      BY <1>3 DEF Resolve
    <3>2. Finished(q, "412").raw = None
      BY <1>1, <2>1 DEF Request, Finished
    <3>3. [q EXCEPT !.pc = "put", !.raw = raw, !.sha = Sha(raw)].pc = "put"
      BY <1>1 DEF Request
    <3>4. QED
      BY <3>1, <3>2, <3>3
  <2>3. QED
    BY <2>2, HeldMoves DEF Held
<1>4. CASE Abort(r)
  <2> DEFINE ended == Finished(q, "aborted")
  <2>1. Become(r, ended)
    BY <1>4 DEF Abort
  <2>2. ended.status = "aborted"
    BY <1>1, MovedFields
  <2> HIDE DEF ended
  <2>3. Held(ended, blobs', gone')
    BY <2>2 DEF Held
  <2>4. QED
    BY <2>1, <2>3, HeldMoves
<1>5. CASE Step(r) /\ ~Resolve(r) /\ ~Abort(r)
  <2>1. q.pc \notin {"idle", "resolve", "done"} /\ q.status = None
    BY <1>1, <1>5, KeepsBytes DEF ExplainedEnd
  <2>2. q.raw # None /\ "aborted" # None
    BY <2>1, AtHand, StoresAssumption, ApiAssumption DEF Statuses
  <2>3. PICK new : Become(r, new) /\ new.tenant = q.tenant /\ new.sha = q.sha
    BY <1>5, KeepsBytes
  <2> DEFINE key == Scoped(q.sha, q.tenant)
  <2>4. key \in ScopedKeys /\ OnRecord(key, blobs', gone')
    <3>1. CASE q.pc # "put"
      <4>1. key \in ScopedKeys /\ OnRecord(key, blobs, gone)
        BY <1>1, <2>1, <2>2, <3>1 DEF Held
      <4>2. QED
        BY <4>1 DEF RecordsKept
    <3>2. CASE q.pc = "put"
      <4>1. Put(r)
        BY <1>5, <3>2 DEF Step, Lookup, Fill, FillRaises, Emit, PassSettles, Assemble,
              AssembleRaises, PublishSpeculate
      <4>2. QED
        BY <4>1, PutRecords
    <3>3. QED
      BY <3>1, <3>2
  <2> HIDE DEF key
  <2>5. Held(new, blobs', gone')
    BY <2>3, <2>4 DEF Held, key
  <2>6. QED
    BY <2>3, <2>5, HeldMoves
<1>6. QED
  BY <1>2, <1>3, <1>4, <1>5

LEMMA NextHeld ==
    ASSUME IInv, EndsExplained, HeldInv, [Next]_vars
    PROVE  HeldInv'
<1>1. RecordsKept
  BY NextRecords
<1>2. UNCHANGED req => HeldInv'
  BY <1>1 DEF HeldInv, Held, RecordsKept
<1>3. UNCHANGED apiVars \/ UNCHANGED vars => UNCHANGED req
  BY DEF apiVars, vars
<1>4. CASE ApiNext
  BY <1>1, <1>4, StepHeld DEF ApiNext
<1>5. QED
  BY <1>2, <1>3, <1>4 DEF Next

\* A request is refused only by its lookup of the blob, which found none or failed.
LEMMA RefusedByLookup ==
    ASSUME IInv, EndsExplained, HeldInv, [Next]_vars, NEW r \in Requests,
           req'[r].status # req[r].status, req'[r].status = "412"
    PROVE  \/ <<req[r].tenant, req[r].sha>> \in gone
           \/ faults' > faults
           \/ ~\E x \in Requests : Uploaded(x, req[r].tenant, req[r].sha)
<1> DEFINE q == req[r]
           key == Scoped(q.sha, q.tenant)
<1>1. q \in Request /\ req \in [Requests -> Request] /\ ExplainedEnd(q, raised)
  BY DEF IInv, TypeOK, ApiTypeOK, EndsExplained
<1>2. PICK y \in Requests : Arrive(y) \/ Step(y) \/ Abort(y)
  BY DEF Next, ApiNext, apiVars, vars
<1>3. \E new : Become(y, new)
  BY <1>2, KeepsBytes DEF Arrive, Submit, SubmitHash, Resolve, Step
<1>4. y = r
  BY <1>1, <1>3 DEF Become
<1>5. ~Arrive(r)
  <2>1. ASSUME Arrive(r) PROVE \E new : Become(r, new) /\ new.status = q.status
    BY <2>1, Arrives
  <2>2. QED
    BY <1>1, <2>1 DEF Become
<1>6. Resolve(r)
  <2>1. ASSUME ~Resolve(r)
        PROVE  \E new : Become(r, new) /\ new.status \in {q.status, "200", "500", "aborted"}
    BY <1>2, <1>4, <1>5, <2>1, KeepsBytes
  <2>2. QED
    BY <1>1, <2>1 DEF Become
<1>7. PICK raw \in {blobs[key], None} :
         /\ ReadOutcome(blobs[key], raw)
         /\ IF raw = None
              THEN Become(r, Finished(q, "412"))
              ELSE Become(r, [q EXCEPT !.pc = "put", !.raw = raw, !.sha = Sha(raw)])
  BY <1>6 DEF Resolve
<1>8. raw = None
  <2>1. [q EXCEPT !.pc = "put", !.raw = raw, !.sha = Sha(raw)].status = q.status
    BY <1>1 DEF Request
  <2>2. QED
    BY <1>1, <1>7, <2>1 DEF Become
<1>9. CASE blobs[key] # None
  <2>1. Fault
    BY <1>7, <1>8, <1>9 DEF ReadOutcome
  <2>2. faults \in Nat
    BY StoresAssumption DEF IInv, TypeOK, StoresTypeOK
  <2>3. QED
    BY <2>1, <2>2 DEF Fault, Charge
<1>10. CASE blobs[key] = None
  <2>1. ASSUME NEW x \in Requests, Uploaded(x, q.tenant, q.sha)
        PROVE  <<q.tenant, q.sha>> \in gone
    <3>1. Held(req[x], blobs, gone)
      BY DEF HeldInv
    <3>2. OnRecord(key, blobs, gone)
      BY <2>1, <3>1 DEF Held, Uploaded
    <3>3. QED
      BY <1>10, <3>2 DEF OnRecord, Scoped
  <2>2. QED
    BY <2>1
<1>11. QED
  BY <1>9, <1>10

\* No failure of the tier turns into a 500, and a probe by hash is refused only if its
\* tenant has uploaded no such bytes, or their blob expired or failed to be put since,
\* or the read failed then and there.
THEOREM FailuresAreExplained == Spec => FailuresExplained
<1>1. Init => EndsExplained
  BY ApiAssumption DEF Init, ApiInit, EndsExplained, ExplainedEnd, Statuses
<1>2. Init => HeldInv
  BY DEF Init, ApiInit, HeldInv, Held
<1> DEFINE Step412(r) ==
        req'[r].status # req[r].status =>
          /\ req'[r].status = "500" => \E d \in raised' : Sha(d) = req'[r].sha
          /\ req'[r].status = "412" =>
                \/ <<req[r].tenant, req[r].sha>> \in gone
                \/ faults' > faults
                \/ ~\E x \in Requests : Uploaded(x, req[r].tenant, req[r].sha)
<1>3. IInv /\ EndsExplained /\ HeldInv /\ EndsExplained' /\ [Next]_vars =>
         [\A r \in Requests : Step412(r)]_vars
  <2> SUFFICES ASSUME IInv, EndsExplained, HeldInv, EndsExplained', [Next]_vars,
                      NEW r \in Requests
               PROVE  Step412(r)
    OBVIOUS
  <2>1. req'[r].status = "500" => \E d \in raised' : Sha(d) = req'[r].sha
    BY DEF EndsExplained, ExplainedEnd
  <2>2. QED
    BY <2>1, RefusedByLookup
<1>4. QED
  BY <1>1, <1>2, <1>3, NextEnds, NextHeld, Invariance, PTL DEF Spec, FailuresExplained

----------------------------------------------------------------------------
(* Each step is a step of the promise, or shows in no answer.              *)

\* The last event of a request that has just been given one is a right one.
LEMMA GivenIsRight ==
    ASSUME PromiseInv, IInv', UNCHANGED seen, NEW r \in Requests, NEW e \in Event,
           Given(req[r], e.kind), NEW new, Become(r, new), AskedOf(new) = AskedOf(req[r]),
           new.events = Append(req[r].events, e), new.tenant = req[r].tenant,
           new.sha = req[r].sha
    PROVE  Promise!Answers(r)
<1> DEFINE q == req[r]
<1>1. /\ q \in Request /\ SoundRequest(q, seen, lost) /\ OrderedRequest(q)
      /\ ApiTypeOK /\ DOMAIN req = Requests
  BY DEF PromiseInv, IInv, TypeOK, ApiTypeOK, InOrderInv
<1>2. q.events \in Seq(Event) /\ Len(q.events) \in Nat
  BY <1>1 DEF Request
<1>3. /\ new.events # <<>> /\ new.events[Len(new.events)] = e
      /\ Len(new.events) \in DOMAIN new.events
  BY <1>2
<1>4. req'[r] = new
  BY <1>1 DEF Become
<1>5. /\ <<q.tenant, q.sha>> \in seen /\ Sha(e.doc) = q.sha /\ ExplainedBy(e.kind, e, lost')
  <2>1. SoundRequest(new, seen', lost')
    BY <1>4 DEF IInv
  <2>2. QED
    BY <1>3, <2>1 DEF SoundRequest
<1>6. /\ EventsBar' = [EventsBar EXCEPT ![r] = new.events]
      /\ EventsBar'[r] = new.events /\ EventsBar[r] = q.events
  <2>1. EventsBar' = [EventsBar EXCEPT ![r] = new.events]
    BY <1>1, BarsMove
  <2>2. DOMAIN EventsBar = Requests /\ EventsBar[r] = q.events
    BY DEF EventsBar
  <2>3. QED
    BY <2>1, <2>2
<1>7. q.pc \notin {"idle", "done"}
  BY DEF Given
<1>8. AskedBar[r] = [op |-> q.op, tenant |-> q.tenant, sha |-> q.sha]
  BY <1>7 DEF AskedBar
<1>9. /\ \E i \in DOMAIN Promise!Announced[q.op] : e.kind \in Promise!Announced[q.op][i]
      /\ Promise!InOrder(q.op, q.events, e.kind)
      /\ Promise!Complete(e.kind) = Whole(e.kind)
  BY <1>1, GivenInOrder
<1>10. Promise!Right(AskedBar[r], EventsBar[r], e)
  BY <1>5, <1>6, <1>8, <1>9 DEF Promise!Right, ExplainedBy
<1>11. e.doc \in Docs
  BY DEF Event
<1>12. QED
  BY <1>3, <1>6, <1>10, <1>11 DEF Promise!Answers

LEMMA ArriveKept ==
    ASSUME PromiseInv, NEW r \in Requests, Arrive(r)
    PROVE  Promise!Next
<1> DEFINE q == req[r]
<1>1. q \in Request /\ ApiTypeOK /\ q.pc = "idle" /\ AskedBar[r] = None
  BY DEF PromiseInv, IInv, TypeOK, ApiTypeOK, Arrive, Submit, SubmitHash, AskedBar
<1>2. ASSUME NEW new, Become(r, new), new.pc \in {"put", "resolve"},
             new.events = q.events, new.status = q.status
      PROVE  /\ AskedBar' = [AskedBar EXCEPT ![r] =
                                [op |-> new.op, tenant |-> new.tenant, sha |-> new.sha]]
             /\ EventsBar' = EventsBar /\ StatusBar' = StatusBar
  <2>1. /\ AskedBar' = [AskedBar EXCEPT ![r] = AskedOf(new)]
        /\ EventsBar' = [EventsBar EXCEPT ![r] = new.events]
        /\ StatusBar' = [StatusBar EXCEPT ![r] = new.status]
    BY <1>1, <1>2, BarsMove
  <2>2. AskedOf(new) = [op |-> new.op, tenant |-> new.tenant, sha |-> new.sha]
    BY <1>2 DEF AskedOf
  <2>3. [EventsBar EXCEPT ![r] = EventsBar[r]] = EventsBar /\ EventsBar[r] = q.events
    BY DEF EventsBar
  <2>4. [StatusBar EXCEPT ![r] = StatusBar[r]] = StatusBar /\ StatusBar[r] = q.status
    BY DEF StatusBar
  <2>5. QED
    BY <1>2, <2>1, <2>2, <2>3, <2>4
<1>3. DOMAIN Promise!Announced = DOMAIN Stages
  BY DEF Promise!Announced, Stages
<1>4. ASSUME NEW op \in Operations, NEW t \in Tenants, NEW d \in Docs, Submit(r, op, t, d)
      PROVE  Promise!Ask(r)
  <2> DEFINE new == [q EXCEPT !.pc = "put", !.op = op, !.tenant = t, !.sha = Sha(d), !.raw = d]
  <2>1. Become(r, new) /\ seen' = seen \cup {<<t, Sha(d)>>} /\ UNCHANGED storeVars
    BY <1>4 DEF Submit
  <2>2. /\ new.pc = "put" /\ new.events = q.events /\ new.status = q.status
        /\ new.op = op /\ new.tenant = t /\ new.sha = Sha(d)
    BY <1>1 DEF Request
  <2> HIDE DEF new
  <2>3. /\ AskedBar' = [AskedBar EXCEPT ![r] = [op |-> op, tenant |-> t, sha |-> Sha(d)]]
        /\ EventsBar' = EventsBar /\ StatusBar' = StatusBar
    BY <1>2, <2>1, <2>2
  <2>4. op \in DOMAIN Promise!Announced /\ Sha(d) \in Shas
    BY <1>3, ApiAssumption, ShaType DEF Stages
  <2>5. QED
    BY <1>1, <2>1, <2>3, <2>4 DEF Promise!Ask, storeVars
<1>5. ASSUME NEW t \in Tenants, NEW s \in Shas, SubmitHash(r, t, s)
      PROVE  Promise!Ask(r)
  <2> DEFINE new == [q EXCEPT !.pc = "resolve", !.op = "probe", !.tenant = t, !.sha = s]
  <2>1. Become(r, new) /\ UNCHANGED <<seen, storeVars>>
    BY <1>5 DEF SubmitHash
  <2>2. /\ new.pc = "resolve" /\ new.events = q.events /\ new.status = q.status
        /\ new.op = "probe" /\ new.tenant = t /\ new.sha = s
    BY <1>1 DEF Request
  <2> HIDE DEF new
  <2>3. /\ AskedBar' = [AskedBar EXCEPT ![r] = [op |-> "probe", tenant |-> t, sha |-> s]]
        /\ EventsBar' = EventsBar /\ StatusBar' = StatusBar
    BY <1>2, <2>1, <2>2
  <2>4. "probe" \in DOMAIN Promise!Announced
    BY <1>3 DEF Stages
  <2>5. QED
    BY <1>1, <2>1, <2>3, <2>4 DEF Promise!Ask, storeVars
<1>6. QED
  BY <1>4, <1>5 DEF Arrive, Promise!Next

\* A step the caller sees nothing of.
LEMMA HiddenStep ==
    ASSUME PromiseInv, NEW r \in Requests, NEW new, Become(r, new), UNCHANGED seen,
           AskedOf(new) = AskedOf(req[r]), new.events = req[r].events,
           new.status = req[r].status
    PROVE  /\ UNCHANGED <<lost, raised>> => UNCHANGED Promise!vars
           /\ IInv' /\ UNCHANGED raised /\ (\A d \in Docs : lost[d] \subseteq lost'[d]) =>
                 Promise!PassesRaise
           /\ UNCHANGED lost /\ (\E d \in Docs : raised' = raised \cup {d}) =>
                 Promise!ExtractorRaises
<1>1. ApiTypeOK
  BY DEF PromiseInv, IInv, TypeOK
<1>2. AskedBar' = AskedBar /\ EventsBar' = EventsBar /\ StatusBar' = StatusBar
  BY <1>1, BarsStand
<1>3. IInv' => lost' \in [Docs -> SUBSET Passes]
  BY DEF IInv, TypeOK, StoresTypeOK
<1>4. QED
  BY <1>2, <1>3 DEF Promise!vars, Promise!PassesRaise, Promise!MoreFailures,
        Promise!ExtractorRaises

\* The steps up to a result: at most a pass has raised in them.
LEMMA MoveKept ==
    ASSUME PromiseInv, IInv', NEW r \in Requests, Put(r) \/ Lookup(r) \/ Fill(r) \/ Assemble(r)
    PROVE  Promise!Next \/ UNCHANGED Promise!vars
<1> DEFINE q == req[r]
           moved(pc) == [q EXCEPT !.pc = pc]
           filled(v) == [q EXCEPT !.pc = "emit", !.val = v]
<1>1. q \in Request /\ IInv
  BY DEF PromiseInv, IInv, TypeOK, ApiTypeOK
<1>2. q.pc # "idle" /\ UNCHANGED <<seen, raised>>
  BY DEF Put, Lookup, Fill, Assemble, PassesFail
<1>3. /\ \A pc : LET new == moved(pc)
                 IN  /\ new.pc = pc /\ new.op = q.op /\ new.tenant = q.tenant
                     /\ new.sha = q.sha /\ new.events = q.events /\ new.status = q.status
      /\ \A v : LET new == filled(v)
                IN  /\ new.pc = "emit" /\ new.op = q.op /\ new.tenant = q.tenant
                    /\ new.sha = q.sha /\ new.events = q.events /\ new.status = q.status
  BY <1>1, MovedFields
<1>4. PICK v : Become(r, moved("lookup")) \/ Become(r, moved("fill")) \/ Become(r, filled(v))
  <2>1. Put(r) => Become(r, moved("lookup"))
    BY DEF Put
  <2>2. Lookup(r) => \E hit : Become(r, moved("fill")) \/ Become(r, filled(hit))
    BY DEF Lookup
  <2>3. Fill(r) \/ Assemble(r) => \E v : Become(r, filled(v))
    BY DEF Fill, Assemble
  <2>4. QED
    BY <2>1, <2>2, <2>3
<1> HIDE DEF moved, filled
<1>5. PICK new : /\ Become(r, new) /\ AskedOf(new) = AskedOf(q)
                 /\ new.events = q.events /\ new.status = q.status
  BY <1>2, <1>3, <1>4 DEF AskedOf
<1>6. \A d \in Docs : lost[d] \subseteq lost'[d]
  <2>1. Put(r) \/ Lookup(r) => UNCHANGED lost
    BY DEF Put, Lookup
  <2>2. Fill(r) \/ Assemble(r) => \E failed : lost' = [lost EXCEPT ![q.raw] = @ \cup failed]
    BY DEF Fill, Assemble, PassesFail
  <2>3. lost \in [Docs -> SUBSET Passes]
    BY <1>1 DEF IInv, TypeOK, StoresTypeOK
  <2>4. QED
    BY <2>1, <2>2, <2>3
<1> HIDE DEF q
<1>7. Promise!PassesRaise
  BY <1>2, <1>5, <1>6, HiddenStep DEF q
<1>8. QED
  BY <1>7 DEF Promise!Next

\* A request ends.
LEMMA EndMoves ==
    ASSUME PromiseInv, NEW r \in Requests, req[r].pc \notin {"idle", "done"}, NEW status,
           Become(r, Finished(req[r], status))
    PROVE  /\ Promise!Open(r)
           /\ AskedBar[r] = [op |-> req[r].op, tenant |-> req[r].tenant, sha |-> req[r].sha]
           /\ EventsBar[r] = req[r].events
           /\ AskedBar' = AskedBar /\ EventsBar' = EventsBar
           /\ StatusBar' = [StatusBar EXCEPT ![r] = status]
<1> DEFINE new == Finished(req[r], status)
<1>1. ApiTypeOK /\ req[r] \in Request
  BY DEF PromiseInv, IInv, TypeOK, ApiTypeOK
<1>2. new.events = req[r].events /\ new.status = status /\ AskedOf(new) = AskedOf(req[r])
  BY <1>1, MovedFields DEF AskedOf
<1>3. Become(r, new)
  OBVIOUS
<1> HIDE DEF new
<1>4. AskedBar' = AskedBar /\ EventsBar' = EventsBar
  BY <1>1, <1>2, <1>3, BarsStand
<1>5. StatusBar' = [StatusBar EXCEPT ![r] = status]
  BY <1>1, <1>2, <1>3, BarsMove
<1>6. /\ Promise!Open(r) /\ EventsBar[r] = req[r].events
      /\ AskedBar[r] = [op |-> req[r].op, tenant |-> req[r].tenant, sha |-> req[r].sha]
  BY OpenUntilDone DEF EventsBar
<1>7. QED
  BY <1>4, <1>5, <1>6

LEMMA ResolveKept ==
    ASSUME PromiseInv, NEW r \in Requests, Resolve(r)
    PROVE  Promise!Next \/ UNCHANGED Promise!vars
<1> DEFINE q == req[r]
           key == Scoped(q.sha, q.tenant)
<1>1. q \in Request /\ ApiTypeOK /\ SoundRequest(q, seen, lost) /\ SoundBlobs(blobs, seen)
  BY DEF PromiseInv, IInv, TypeOK, ApiTypeOK
<1>2. q.pc = "resolve" /\ UNCHANGED <<seen, lost, raised>>
  BY DEF Resolve
<1>3. q.op = "probe" /\ q.events = <<>>
  BY <1>1, <1>2 DEF SoundRequest, PromiseInv, EndsExplained, ExplainedEnd
<1>4. key \in ScopedKeys /\ key[2] = q.sha
  BY <1>1, <1>2 DEF Scoped, ScopedKeys, SoundRequest, Request
<1>5. CASE Become(r, Finished(q, "412"))
  <2>1. /\ Promise!Open(r) /\ EventsBar[r] = <<>>
        /\ AskedBar[r] = [op |-> "probe", tenant |-> q.tenant, sha |-> q.sha]
        /\ AskedBar' = AskedBar /\ EventsBar' = EventsBar
        /\ StatusBar' = [StatusBar EXCEPT ![r] = "412"]
    BY <1>2, <1>3, <1>5, EndMoves
  <2>2. Promise!Refuse(r)
    BY <1>2, <2>1 DEF Promise!Refuse
  <2>3. QED
    BY <2>2 DEF Promise!Next
<1>6. ASSUME NEW raw, raw = blobs[key], raw # None,
             Become(r, [q EXCEPT !.pc = "put", !.raw = raw, !.sha = Sha(raw)])
      PROVE  UNCHANGED Promise!vars
  <2> DEFINE new == [q EXCEPT !.pc = "put", !.raw = raw, !.sha = Sha(raw)]
  <2>1. Sha(raw) = q.sha
    BY <1>1, <1>4, <1>6 DEF SoundBlobs
  <2>2. /\ new.pc = "put" /\ new.op = q.op /\ new.tenant = q.tenant /\ new.sha = q.sha
        /\ new.events = q.events /\ new.status = q.status
    BY <1>1, <2>1 DEF Request
  <2>3. Become(r, new)
    BY <1>6
  <2> HIDE DEF new
  <2>4. AskedOf(new) = AskedOf(q)
    BY <1>2, <2>2 DEF AskedOf
  <2>5. QED
    BY <1>2, <2>2, <2>3, <2>4, HiddenStep
<1>7. QED
  BY <1>5, <1>6 DEF Resolve, ReadOutcome

LEMMA LastKept ==
    ASSUME PromiseInv, NEW r \in Requests,
           AssembleRaises(r) \/ PublishSpeculate(r) \/ Abort(r)
    PROVE  Promise!Next
<1> DEFINE q == req[r]
<1>1. /\ SoundRequest(q, seen, lost) /\ OrderedRequest(q) /\ IInv /\ q \in Request
      /\ CompleteRequest(q, raised)
  BY DEF PromiseInv, IInv, TypeOK, ApiTypeOK, InOrderInv, CompleteInv
<1>2. CASE Abort(r)
  <2>1. /\ Promise!Open(r) /\ AskedBar' = AskedBar /\ EventsBar' = EventsBar
        /\ StatusBar' = [StatusBar EXCEPT ![r] = "aborted"]
    BY <1>2, EndMoves DEF Abort
  <2>2. Promise!Break(r)
    BY <1>2, <2>1 DEF Promise!Break, Abort
  <2>3. QED
    BY <2>2 DEF Promise!Next
<1>3. CASE AssembleRaises(r) \/ PublishSpeculate(r)
  <2>1. q.pc \in {"assemble", "publish"} /\ Become(r, Finished(q, "200"))
        /\ UNCHANGED <<seen, lost>>
    BY <1>3 DEF AssembleRaises, PublishSpeculate, ExtractorRaises
  <2>2. /\ Promise!Open(r) /\ AskedBar' = AskedBar /\ EventsBar' = EventsBar
        /\ AskedBar[r] = [op |-> q.op, tenant |-> q.tenant, sha |-> q.sha]
        /\ StatusBar' = [StatusBar EXCEPT ![r] = "200"]
    BY <2>1, EndMoves
  <2>3. q.op # "extract" /\ <<q.tenant, q.sha>> \in seen
    BY <1>1, <2>1 DEF SoundRequest, OrderedRequest
  <2>4. UNCHANGED raised \/ \E d \in Docs : raised' = raised \cup {d}
    BY <1>1, <1>3, AtHand DEF AssembleRaises, PublishSpeculate, ExtractorRaises
  <2>5. \A k \in KindsOf(q.op) : Told(q, k, raised')
    <3>1. CASE PublishSpeculate(r)
      <4>1. q.pc = "publish" /\ raised' = raised
        BY <3>1 DEF PublishSpeculate
      <4>2. q.op = "probe" /\ \A k \in {"probe-min", "probe-std"} : Told(q, k, raised)
        BY <1>1, <4>1 DEF OrderedRequest, CompleteRequest
      <4>3. QED
        BY <4>1, <4>2 DEF KindsOf
    <3>2. CASE AssembleRaises(r)
      <4>1. q.pc = "assemble" /\ q.op = "granular" /\ q.stage = 2
        BY <1>1, <3>2 DEF AssembleRaises, SoundRequest
      <4>2. raised \subseteq raised' /\ Told(q, Stages[q.op][2], raised')
        BY <1>1, <3>2, <4>1, RaisedTold
      <4>3. CompleteRequest(q, raised')
        BY <1>1, <4>2, OtherCompleteStays
      <4>4. QED
        BY <1>1, <4>1, <4>2, <4>3, LastStage
    <3>3. QED
      BY <1>3, <3>1, <3>2
  <2>6. Promise!NothingLost(r)
    <3>1. EventsBar'[r] = q.events
      BY <2>2 DEF EventsBar
    <3>2. QED
      BY <1>1, <2>2, <2>5, <3>1, ToldIsEnough
  <2>7. Promise!End(r)
    BY <2>1, <2>2, <2>3, <2>4, <2>6 DEF Promise!End
  <2>8. QED
    BY <2>7 DEF Promise!Next
<1>4. QED
  BY <1>2, <1>3

\* An extractor that raises refuses an extract, ends a stream or leaves an event out.
LEMMA FillRaisesKept ==
    ASSUME PromiseInv, NEW r \in Requests, FillRaises(r)
    PROVE  Promise!Next
<1> DEFINE q == req[r]
           new == Advanced(q)
<1>1. /\ q \in Request /\ SoundRequest(q, seen, lost) /\ OrderedRequest(q) /\ IInv /\ ApiTypeOK
      /\ CompleteRequest(q, raised)
  BY DEF PromiseInv, IInv, TypeOK, ApiTypeOK, InOrderInv, CompleteInv
<1>2. /\ q.pc = "fill" /\ UNCHANGED <<seen, lost>> /\ raised' = raised \cup {q.raw}
      /\ q.raw \in Docs /\ q.sha = Sha(q.raw) /\ <<q.tenant, q.sha>> \in seen
  BY <1>1, AtHand DEF FillRaises, ExtractorRaises
<1>3. CASE q.op = "extract"
  <2>1. Become(r, Finished(q, "500"))
    BY <1>3 DEF FillRaises
  <2>2. q.events = <<>>
    <3>1. q.stage = 1
      BY <1>1, <1>3 DEF SoundRequest, Request
    <3>2. DOMAIN q.events = {}
      BY <1>1, <1>2, <3>1 DEF OrderedRequest, Behind
    <3>3. q.events \in Seq(Event)
      BY <1>1 DEF Request
    <3>4. Len(q.events) = 0
      <4>1. Len(q.events) \in Nat /\ DOMAIN q.events = 1 .. Len(q.events)
        BY <3>3
      <4>2. Len(q.events) # 0 => 1 \in DOMAIN q.events
        BY <4>1
      <4>3. QED
        BY <3>2, <4>2
    <3>5. QED
      BY <3>3, <3>4
  <2>3. /\ Promise!Open(r) /\ AskedBar' = AskedBar /\ EventsBar' = EventsBar
        /\ AskedBar[r] = [op |-> q.op, tenant |-> q.tenant, sha |-> q.sha]
        /\ EventsBar[r] = <<>> /\ StatusBar' = [StatusBar EXCEPT ![r] = "500"]
    BY <1>2, <2>1, <2>2, EndMoves
  <2>4. Promise!Refuse(r)
    BY <1>2, <1>3, <2>3 DEF Promise!Refuse
  <2>5. QED
    BY <2>4 DEF Promise!Next
<1>4. CASE q.op # "extract" /\ new.pc # "done"
  <2>1. Become(r, new)
    BY <1>4 DEF FillRaises
  <2>2. /\ AskedOf(new) = AskedOf(q) /\ new.events = q.events /\ new.status = q.status
    BY <1>1, <1>2, <1>4, AdvancedFields DEF AskedOf
  <2> HIDE DEF new
  <2>3. Promise!ExtractorRaises
    BY <1>2, <2>1, <2>2, HiddenStep
  <2>4. QED
    BY <2>3 DEF Promise!Next
<1>5. CASE q.op # "extract" /\ new.pc = "done"
  <2>1. Become(r, new)
    BY <1>5 DEF FillRaises
  <2>2. /\ AskedOf(new) = AskedOf(q) /\ new.events = q.events /\ new.status = "200"
    BY <1>1, <1>2, <1>5, AdvancedFields DEF AskedOf
  <2> HIDE DEF new
  <2>3. /\ Promise!Open(r)
        /\ AskedBar[r] = [op |-> q.op, tenant |-> q.tenant, sha |-> q.sha]
    BY <1>2, OpenUntilDone
  <2>4. AskedBar' = AskedBar /\ EventsBar' = EventsBar
    BY <1>1, <2>1, <2>2, BarsStand
  <2>5. StatusBar' = [StatusBar EXCEPT ![r] = "200"]
    BY <1>1, <2>1, <2>2, BarsMove
  <2>6. q.stage = 2 /\ new.sha = q.sha
    BY <1>1, <1>5, AdvancedFields DEF new
  <2>7. raised \subseteq raised' /\ Told(q, Stages[q.op][2], raised')
    BY <1>1, <2>6, RaisedTold
  <2>8. CompleteRequest(q, raised')
    BY <1>1, <2>7, OtherCompleteStays
  <2>9. \A k \in KindsOf(q.op) : Told(q, k, raised')
    BY <1>1, <1>2, <1>5, <2>6, <2>7, <2>8, LastStage
  <2>10. Promise!NothingLost(r)
    <3>1. EventsBar'[r] = q.events
      BY <2>4 DEF EventsBar
    <3>2. QED
      BY <1>1, <2>3, <2>9, <3>1, ToldIsEnough
  <2>11. Promise!End(r)
    BY <1>2, <1>5, <2>3, <2>4, <2>5, <2>10 DEF Promise!End
  <2>12. QED
    BY <2>11 DEF Promise!Next
<1>6. QED
  BY <1>3, <1>4, <1>5

LEMMA EmitKept ==
    ASSUME PromiseInv, IInv', NEW r \in Requests, Emit(r)
    PROVE  Promise!Next
<1> DEFINE q == req[r]
           e == EventOf(Kind(r), q.val)
           given == WithEvent(q, e)
           new == Advanced(given)
<1>1. /\ q \in Request /\ IInv /\ ApiTypeOK /\ UNCHANGED <<seen, lost, raised>>
      /\ lost \in [Docs -> SUBSET Passes]
  BY DEF PromiseInv, IInv, TypeOK, ApiTypeOK, StoresTypeOK, Emit, storeVars
<1>2. /\ q.pc = "emit" /\ Become(r, new) /\ e \in Event
      /\ e.kind = Stages[q.op][q.stage]
      /\ given \in Request /\ SoundRequest(given, seen, lost)
      /\ given.op = q.op /\ given.tenant = q.tenant /\ given.sha = q.sha
      /\ given.status = q.status /\ given.events = Append(q.events, e)
  BY <1>1, EmitGives
<1> HIDE DEF given, e
<1>3. /\ new.op = q.op /\ new.tenant = q.tenant /\ new.sha = q.sha
      /\ new.events = Append(q.events, e) /\ new.pc # "idle"
      /\ new.events = given.events
      /\ \/ new.status = q.status /\ q.op # "extract"
         \/ /\ new.status = "200" /\ q.op # "probe"
            /\ q.op # "extract" => given.stage = 2
  BY <1>2, AdvancedFields
<1> HIDE DEF new
<1>4. AskedOf(new) = AskedOf(q)
  BY <1>2, <1>3 DEF AskedOf
<1>5. /\ AskedBar' = AskedBar /\ StatusBar' = [StatusBar EXCEPT ![r] = new.status]
      /\ new.status = q.status => StatusBar' = StatusBar
  BY <1>1, <1>2, <1>4, BarsStand, BarsMove
<1>6. Given(q, e.kind)
  BY <1>2 DEF Given
<1>7. Promise!Answers(r)
  BY <1>1, <1>2, <1>3, <1>4, <1>6, GivenIsRight
<1>8. /\ Promise!Open(r)
      /\ AskedBar[r] = [op |-> q.op, tenant |-> q.tenant, sha |-> q.sha]
  BY <1>2, OpenUntilDone
<1>9. CASE q.op = "extract"
  <2>1. AskedBar[r].op = "extract" /\ StatusBar' = [StatusBar EXCEPT ![r] = "200"]
    <3>1. new.status = "200"
      BY <1>3, <1>9
    <3>2. AskedBar[r].op = "extract"
      BY <1>8, <1>9
    <3>3. QED
      BY <1>5, <3>1, <3>2
  <2>2. Promise!Reply(r)
    BY <1>1, <1>5, <1>7, <1>8, <2>1 DEF Promise!Reply
  <2>3. QED
    BY <2>2 DEF Promise!Next
<1>10. CASE q.op # "extract"
  <2>1. Promise!MoreFailures
    BY <1>1 DEF Promise!MoreFailures
  <2>2. \/ StatusBar' = StatusBar
        \/ /\ q.op # "probe" /\ StatusBar' = [StatusBar EXCEPT ![r] = "200"]
           /\ Promise!NothingLost(r)
    <3>1. CASE given.stage = 2
      <4>1. CompleteRequest(given, raised) /\ Told(given, Stages[q.op][q.stage], raised)
        BY EmitComplete DEF PromiseInv, given, e
      <4>2. given.stage = q.stage /\ given.pc = q.pc
        BY <1>1, EmitGives DEF given, e
      <4>3. \A k \in KindsOf(q.op) : Told(given, k, raised')
        BY <1>1, <1>2, <1>10, <3>1, <4>1, <4>2, LastStage
      <4>4. \A k \in KindsOf(q.op) : Told(new, k, raised')
        BY <1>2, <1>3, <4>3 DEF Told
      <4>5. EventsBar'[r] = new.events
        BY <1>1, <1>2 DEF EventsBar, Become, ApiTypeOK
      <4>6. Promise!NothingLost(r)
        BY <1>1, <1>3, <1>8, <4>4, <4>5, ToldIsEnough
      <4>7. QED
        BY <1>3, <1>5, <4>6
    <3>2. CASE given.stage # 2
      BY <1>3, <1>5, <1>10, <3>2
    <3>3. QED
      BY <3>1, <3>2
  <2>3. Promise!Deliver(r)
    BY <1>1, <1>5, <1>7, <1>8, <1>10, <2>1, <2>2 DEF Promise!Deliver
  <2>4. QED
    BY <2>3 DEF Promise!Next
<1>11. QED
  BY <1>9, <1>10

LEMMA PassSettlesKept ==
    ASSUME PromiseInv, IInv', NEW r \in Requests, NEW p \in PikepdfPasses, PassSettles(r, p)
    PROVE  Promise!Next
<1> DEFINE q == req[r]
<1>1. /\ q \in Request /\ IInv /\ ApiTypeOK /\ UNCHANGED <<seen, raised>>
      /\ SoundRequest(q, seen, lost) /\ lost' \in [Docs -> SUBSET Passes]
  BY DEF PromiseInv, IInv, TypeOK, ApiTypeOK, StoresTypeOK, PassSettles, PassesFail
<1>2. PICK new, e :
         /\ q.pc = "passes" /\ p \in q.pending /\ Become(r, new)
         /\ e \in Event /\ e.kind = p
         /\ new.pending = q.pending \ {p}
         /\ new.pc = IF new.pending = {} THEN "assemble" ELSE "passes"
         /\ new.op = q.op /\ new.stage = q.stage /\ new.tenant = q.tenant
         /\ new.sha = q.sha /\ new.status = q.status /\ new.events = Append(q.events, e)
         /\ \A d \in Docs : lost[d] \subseteq lost'[d]
  BY PassGives DEF PromiseInv
<1>3. AskedOf(new) = AskedOf(q)
  BY <1>2 DEF AskedOf
<1>4. AskedBar' = AskedBar /\ StatusBar' = StatusBar
  BY <1>1, <1>2, <1>3, BarsStand
<1>5. Given(q, e.kind)
  BY <1>2 DEF Given
<1>6. Promise!Answers(r)
  BY <1>1, <1>2, <1>3, <1>5, GivenIsRight
<1>7. /\ Promise!Open(r)
      /\ AskedBar[r] = [op |-> q.op, tenant |-> q.tenant, sha |-> q.sha]
  BY <1>2, OpenUntilDone
<1>8. q.op # "extract"
  BY <1>1, <1>2 DEF SoundRequest
<1>9. Promise!MoreFailures
  BY <1>1, <1>2 DEF Promise!MoreFailures
<1>10. Promise!Deliver(r)
  BY <1>1, <1>4, <1>6, <1>7, <1>8, <1>9 DEF Promise!Deliver
<1>11. QED
  BY <1>10 DEF Promise!Next

\* The speculator only ever adds to what has raised; time shows in nothing.
LEMMA OthersKept ==
    ASSUME PromiseInv, IInv', UNCHANGED apiVars, SpecNext \/ Expiry \/ UNCHANGED vars
    PROVE  Promise!Next \/ UNCHANGED Promise!vars
<1>1. AskedBar' = AskedBar /\ EventsBar' = EventsBar /\ StatusBar' = StatusBar /\ seen' = seen
  BY DEF AskedBar, EventsBar, StatusBar, apiVars
<1>2. /\ lost \in [Docs -> SUBSET Passes] /\ lost' \in [Docs -> SUBSET Passes]
      /\ SoundConsumer(spec, seen)
  BY DEF PromiseInv, IInv, TypeOK, StoresTypeOK
<1>3. CASE SpecRaises
  <2>1. spec.blob \in Docs /\ raised' = raised \cup {spec.blob} /\ lost' = lost
    <3>1. spec.pc \in {"phase1", "phase2"} /\ ExtractorRaises(spec.blob)
      BY <1>3 DEF SpecRaises
    <3>2. QED
      BY <1>2, <3>1 DEF ExtractorRaises, SoundConsumer
  <2>2. Promise!ExtractorRaises
    BY <1>1, <2>1 DEF Promise!ExtractorRaises
  <2>3. QED
    BY <2>2 DEF Promise!Next
<1>4. CASE FillPhase1 \/ FillPhase2
  <2>1. PICK failed : PassesFail(spec.blob, failed)
    BY <1>4 DEF FillPhase1, FillPhase2, SpecFill
  <2>2. (\A d \in Docs : lost[d] \subseteq lost'[d]) /\ UNCHANGED raised
    BY <1>2, <2>1 DEF PassesFail
  <2>3. Promise!PassesRaise
    BY <1>1, <1>2, <2>1, <2>2 DEF Promise!PassesRaise, Promise!MoreFailures
  <2>4. QED
    BY <2>3 DEF Promise!Next
<1>5. CASE \/ XRead \/ TakeMessage \/ FetchBlob \/ CheckCached \/ XReadFails \/ Restart
           \/ Expiry \/ UNCHANGED vars
  <2>1. UNCHANGED <<lost, raised>>
    BY <1>5 DEF XRead, TakeMessage, FetchBlob, CheckCached, XReadFails, Restart, Expiry,
          CacheExpire, BlobExpire, DedupeExpire, vars, storeVars
  <2>2. QED
    BY <1>1, <2>1 DEF Promise!vars
<1>6. QED
  BY <1>3, <1>4, <1>5 DEF SpecNext, Consume

LEMMA NextKept ==
    ASSUME PromiseInv, IInv', [Next]_vars
    PROVE  Promise!Next \/ UNCHANGED Promise!vars
<1>1. ASSUME NEW r \in Requests, Step(r) PROVE Promise!Next \/ UNCHANGED Promise!vars
  BY <1>1, ResolveKept, MoveKept, FillRaisesKept, EmitKept, PassSettlesKept, LastKept DEF Step
<1>2. CASE ApiNext
  BY <1>1, <1>2, ArriveKept, LastKept DEF ApiNext
<1>3. CASE (SpecNext \/ Expiry) /\ UNCHANGED apiVars
  BY <1>3, OthersKept
<1>4. CASE UNCHANGED vars
  BY <1>4, OthersKept DEF vars
<1>5. QED
  BY <1>2, <1>3, <1>4 DEF Next

\* What a caller is told by the whole pipeline is what extractors without a cache, a blob
\* store, a stream and a speculator would have told him: the right bytes, each announced
\* kind once and in order, nothing missing but to passes and extractors that raised.
THEOREM PipelineKeepsPromise == Spec => KeepsPromise
<1>1. Init => Promise!Init
  <2>1. Init => /\ AskedBar = [r \in Requests |-> None]
                /\ EventsBar = [r \in Requests |-> <<>>]
                /\ StatusBar = [r \in Requests |-> None]
    BY DEF Init, ApiInit, AskedBar, EventsBar, StatusBar
  <2>2. QED
    BY <2>1 DEF Init, ApiInit, StoresInit, Promise!Init
<1>2. IInv /\ EndsExplained /\ InOrderInv /\ CompleteInv /\ IInv' /\ [Next]_vars =>
         [Promise!Next]_(Promise!vars)
  BY NextKept DEF PromiseInv
<1>3. IInv /\ InOrderInv /\ [Next]_vars => InOrderInv'
  BY NextInOrder
<1>4. Init => EndsExplained
  BY ApiAssumption DEF Init, ApiInit, EndsExplained, ExplainedEnd, Statuses
<1>5. IInv /\ CompleteInv /\ [Next]_vars => CompleteInv'
  BY NextComplete
<1>6. QED
  BY <1>1, <1>2, <1>3, <1>4, <1>5, InitInOrder, InitComplete, NextEnds, Invariance, PTL
     DEF Spec, KeepsPromise, Promise!Spec
=============================================================================
