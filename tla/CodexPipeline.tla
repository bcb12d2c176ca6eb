--------------------------- MODULE CodexPipeline ---------------------------
(***************************************************************************)
(* The extract pipeline as deployed: the API replicas and the speculator   *)
(* over one Redis tier, where entries expire and calls fail.               *)
(***************************************************************************)
EXTENDS ExtractApi, Speculator

vars == <<storeVars, apiVars, specVars>>

TypeOK == StoresTypeOK /\ ApiTypeOK /\ SpecTypeOK

Init == StoresInit /\ ApiInit /\ SpecInit

Next ==
    \/ ApiNext /\ UNCHANGED specVars
    \/ SpecNext /\ UNCHANGED apiVars
    \/ Expiry /\ UNCHANGED <<apiVars, specVars>>

Spec == Init /\ [][Next]_vars

\* A handler that has been given control runs on, and so does the consumer: asyncio,
\* the executor threads and run_forever schedule whatever is ready.  Nothing obliges
\* a caller to send a request, an entry to expire or a call to fail.
FairSpec ==
    /\ Spec
    /\ \A r \in Requests : WF_vars(Step(r) /\ UNCHANGED specVars)
    /\ WF_vars(Consume /\ UNCHANGED apiVars)

----------------------------------------------------------------------------
\* What a cached kind or an event kind carries when no pass has raised.
Whole(kind) == IF kind \in CachedKinds THEN PassesOf[kind] ELSE {kind}

\* A document of a kind has nothing its extractor does not produce, and what it
\* misses was lost to a pass that did raise on those bytes.
Explained(kind, value) ==
    /\ value.got \subseteq Whole(kind)
    /\ Whole(kind) \ value.got \subseteq lost[value.doc]

\* Content addressing: whatever the writers were and however their steps fell, an
\* entry holds a document of its key's bytes and of its key's kind.
CacheSound ==
    \A key \in CacheKeys :
        cache[key] # None => /\ Sha(cache[key].doc) = key.sha
                             /\ Explained(key.kind, cache[key])

\* Tenant scoping of the tier: a blob or a cached result stands under a tenant only
\* if that tenant has sent those very bytes.
TierIsolation ==
    /\ \A key \in ScopedKeys : blobs[key] # None => /\ Sha(blobs[key]) = key[2]
                                                    /\ key \in seen
    /\ \A key \in CacheKeys : cache[key] # None => <<key.tenant, key.sha>> \in seen

\* Nobody is answered about bytes his own tenant has not sent, not even by naming
\* their hash, and every event describes the bytes of its request.
AnswersIsolated ==
    \A r \in Requests : \A i \in DOMAIN req[r].events :
        /\ <<req[r].tenant, req[r].sha>> \in seen
        /\ Sha(req[r].events[i].doc) = req[r].sha
        /\ Explained(req[r].events[i].kind, req[r].events[i])

\* A request is past its blob put and was not cut off: its bytes have been uploaded.
Uploaded(r, t, s) ==
    /\ req[r].tenant = t /\ req[r].sha = s /\ req[r].raw # None
    /\ req[r].pc \notin {"idle", "resolve", "put"} /\ req[r].status # "aborted"

\* What a failure of the tier can do to a caller, and what it cannot.  A 500 needs an
\* extractor that raised on the request's own bytes: no failed read or write of the
\* cache, the blob store or the stream turns into one.  A probe by hash is refused (412)
\* only if its tenant has uploaded no such bytes so far, or the blob has expired or its
\* put failed since, or this very read failed: a blob, once put, is found again under
\* its tenant and hash, whoever else puts, probes or consumes meanwhile.
FailuresExplained ==
    [][\A r \in Requests : req'[r].status # req[r].status =>
        /\ req'[r].status = "500" => \E d \in raised' : Sha(d) = req'[r].sha
        /\ req'[r].status = "412" =>
              \/ <<req[r].tenant, req[r].sha>> \in gone
              \/ faults' > faults
              \/ ~\E x \in Requests : Uploaded(x, req[r].tenant, req[r].sha)]_vars

\* The consumer passes over no entry of the stream: what lies behind its position
\* was finished by this process, is in hand, or was trimmed away.
NoEntrySkipped ==
    \A n \in 1 .. Len(stream) :
        n <= spec.last =>
            n \in handled \/ n <= trimmed \/ (n = spec.last /\ spec.pc # "idle")

----------------------------------------------------------------------------
\* Every request that arrives ends, whatever fails.
EveryRequestEnds == \A r \in Requests : req[r].pc # "idle" ~> req[r].pc = "done"

\* Every entry of the stream is handled or trimmed, across restarts too (a request
\* adds at most two entries).
EveryEntryConsumed ==
    \A n \in 1 .. 2 * Cardinality(Requests) :
        (n <= Len(stream)) ~> (n \in handled \/ n <= trimmed)

\* Python's None is no request.
ASSUME PromiseAssumption ==
    None \notin [op : DOMAIN Stages, tenant : Tenants, sha : Shas \cup {None}]

\* What the promise sees of the requests: what was asked, what was answered, how it ended.
AskedBar == [r \in Requests |-> IF req[r].pc = "idle" THEN None
                ELSE [op |-> req[r].op, tenant |-> req[r].tenant, sha |-> req[r].sha]]
EventsBar == [r \in Requests |-> req[r].events]
StatusBar == [r \in Requests |-> req[r].status]

\* The whole pipeline implements the promise, which knows no cache, no stream and no
\* speculator.  (It lets any probe by hash be refused: when a blob may be missing is what
\* FailuresExplained says.)
Promise == INSTANCE ExtractPromise WITH
    ShaOf <- Sha,
    asked <- AskedBar,
    events <- EventsBar,
    status <- StatusBar,
    sent <- seen,
    failed <- lost,
    broken <- raised

KeepsPromise == Promise!Spec

----------------------------------------------------------------------------
\* consumer.py says of blob_get that it reads "the bytes the API wrote": a sha is
\* counted missing, with no failed call, only if no tenant's blob holds it.
MissingMeansAbsent ==
    [][ (spec'.count["blob_missing"] > spec.count["blob_missing"] /\ faults' = faults)
          => \A t \in Tenants : blobs[Scoped(spec.sha, t)] = None ]_vars

\* main.py says of the dedupe key that it collapses "repeated probes / blob puts for
\* the same sha into a single XADD": no sha is added twice while a key of it lives.
OneXaddPerWindow == \A s \in Shas : window[s] <= 1
=============================================================================
