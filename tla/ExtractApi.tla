----------------------------- MODULE ExtractApi -----------------------------
(***************************************************************************)
(* The API replicas' extract and probe handlers over the shared tier:      *)
(* POST /v1/extract, POST /v1/extract/stream (two-phase and ?granular=1)   *)
(* and POST /v1/probe.  A request is a process: it takes in bytes (or      *)
(* resolves a hash), puts the blob, and walks the stages of its operation; *)
(* a stage is a cache lookup, on a miss an extractor run and a cache set,  *)
(* and an event (or the reply).  Requests interleave between those steps,  *)
(* as handlers do across await points, executor threads and replicas.      *)
(***************************************************************************)
EXTENDS CodexStores

CONSTANTS
    Requests,   \* request identities; each is used once
    Operations  \* the operations this instance may submit

Statuses == {"200", "412", "500", "aborted"}

ASSUME ApiAssumption ==
    /\ Operations \subseteq {"extract", "stream", "granular", "probe"}
    /\ None \notin Statuses

\* The cached kinds an operation reads, in order.  A granular stream reads only
\* the first from the cache; its second is assembled from the passes.
Stages ==
    [op \in {"extract", "stream", "granular", "probe"} |->
        CASE op = "extract"  -> <<"extract">>
          [] op = "stream"   -> <<"extract-phase-1", "extract">>
          [] op = "granular" -> <<"extract-phase-1-min", "extract">>
          [] op = "probe"    -> <<"probe-min", "probe-std">>]

\* An event of a stream, or the reply of /v1/extract: what it is, the document it
\* describes and the passes whose result it carries.
EventKinds == CachedKinds \cup PikepdfPasses
Event == [kind : EventKinds, doc : Docs, got : SUBSET Passes]

VARIABLES
    req,   \* Requests -> the request's local state
    seen   \* history: <<tenant, sha>> pairs whose bytes the tenant has sent

apiVars == <<req, seen>>

PcStates ==
    {"idle", "resolve", "put", "lookup", "fill", "emit", "passes", "assemble",
     "publish", "done"}

Request ==
    [pc : PcStates, op : DOMAIN Stages, tenant : Tenants, sha : Shas \cup {None},
     raw : Docs \cup {None}, stage : 1 .. 2, val : Document \cup {None},
     pending : SUBSET PikepdfPasses, kept : SUBSET PikepdfPasses,
     events : Seq(Event), status : Statuses \cup {None}]

ApiTypeOK ==
    /\ req \in [Requests -> Request]
    /\ seen \in SUBSET (Tenants \X Shas)

ApiInit ==
    /\ req = [r \in Requests |->
                [pc |-> "idle", op |-> "extract", tenant |-> DefaultTenant, sha |-> None,
                 raw |-> None, stage |-> 1, val |-> None, pending |-> {}, kept |-> {},
                 events |-> <<>>, status |-> None]]
    /\ seen = {}

----------------------------------------------------------------------------
Kind(r) == Stages[req[r].op][req[r].stage]
Key(r) == CacheKey(req[r].raw, Kind(r), req[r].tenant)

Become(r, new) == req' = [req EXCEPT ![r] = new]

Finished(q, status) == [q EXCEPT !.pc = "done", !.status = status, !.val = None]

\* After a stage has emitted its event, or has raised and emitted none: the next
\* stage, then what the operation does at its end.
Advanced(q) ==
    IF q.stage = 1 /\ q.op = "granular"
      THEN [q EXCEPT !.pc = "passes", !.stage = 2, !.val = None,
                     !.pending = PikepdfPasses, !.kept = {}]
    ELSE IF q.stage < Len(Stages[q.op])
      THEN [q EXCEPT !.pc = "lookup", !.stage = 2, !.val = None]
    ELSE IF q.op = "probe"
      THEN [q EXCEPT !.pc = "publish", !.val = None]
    ELSE Finished(q, "200")

EventOf(kind, value) == [kind |-> kind, doc |-> value.doc, got |-> value.got]

WithEvent(q, event) == [q EXCEPT !.events = Append(@, event)]

----------------------------------------------------------------------------
\* A request with the bytes in it (multipart, or a URL the API fetched).
Submit(r, op, t, d) ==
    /\ req[r].pc = "idle"
    /\ Become(r, [req[r] EXCEPT !.pc = "put", !.op = op, !.tenant = t,
                                !.sha = Sha(d), !.raw = d])
    /\ seen' = seen \cup {<<t, Sha(d)>>}
    /\ UNCHANGED storeVars

\* A probe by hash: only the digest of the bytes is sent.
SubmitHash(r, t, s) ==
    /\ req[r].pc = "idle"
    /\ "probe" \in Operations
    /\ Become(r, [req[r] EXCEPT !.pc = "resolve", !.op = "probe", !.tenant = t, !.sha = s])
    /\ UNCHANGED <<seen, storeVars>>

\* Mistake: the blob is looked for without the tenant, where put never stores it.
ResolveUnscoped(r) ==
    /\ req[r].pc = "resolve"
    /\ LET raw == blobs[Unscoped(req[r].sha)]
       IN  IF raw = None
             THEN Become(r, Finished(req[r], "412"))
             ELSE Become(r, [req[r] EXCEPT !.pc = "put", !.raw = raw, !.sha = Sha(raw)])
    /\ UNCHANGED <<seen, storeVars>>

\* _read_probe_pdf: the blob of the caller's tenant, or 412.  A blob store's get that
\* fails gives None as well.
Resolve(r) ==
    /\ req[r].pc = "resolve"
    /\ \E raw \in {blobs[Scoped(req[r].sha, req[r].tenant)], None} :
          /\ ReadOutcome(blobs[Scoped(req[r].sha, req[r].tenant)], raw)
          /\ IF raw = None
               THEN Become(r, Finished(req[r], "412"))
               ELSE Become(r, [req[r] EXCEPT !.pc = "put", !.raw = raw, !.sha = Sha(raw)])
    /\ UNCHANGED <<seen, tier, window, lost, raised>>

\* _blob_store.put; the sha is published to the speculator with it.
Put(r) ==
    /\ req[r].pc = "put"
    /\ BlobPut(req[r].raw, req[r].tenant)
    /\ Become(r, [req[r] EXCEPT !.pc = "lookup"])
    /\ UNCHANGED <<seen, cache, lost, raised>>

\* _run_extract and its siblings: a hit skips the extractor and the set.
Lookup(r) ==
    /\ req[r].pc = "lookup"
    /\ \E hit \in {cache[Key(r)], None} :
          /\ ReadOutcome(cache[Key(r)], hit)
          /\ IF hit = None
               THEN Become(r, [req[r] EXCEPT !.pc = "fill"])
               ELSE Become(r, [req[r] EXCEPT !.pc = "emit", !.val = hit])
    /\ UNCHANGED <<seen, tier, window, lost, raised>>

\* The miss: run the extractor and store what came out, degraded or not.
Fill(r) ==
    /\ req[r].pc = "fill"
    /\ \E failed \in SUBSET (PassesOf[Kind(r)] \cap Faulty), stored \in BOOLEAN :
          LET value == Extracted(req[r].raw, PassesOf[Kind(r)], failed)
          IN  /\ PassesFail(req[r].raw, failed)
              /\ CacheSet(Key(r), value, stored)
              /\ Charge(Cost(failed # {}) + Cost(~stored))
              /\ Become(r, [req[r] EXCEPT !.pc = "emit", !.val = value])
    /\ UNCHANGED <<seen, blobs, dedupe, stream, trimmed, gone, window>>

\* The extractor raises: /v1/extract answers 500, a stream drops the event and
\* goes on with its next stage.
FillRaises(r) ==
    /\ req[r].pc = "fill"
    /\ ExtractorRaises(req[r].raw)
    /\ Become(r, IF req[r].op = "extract" THEN Finished(req[r], "500")
                 ELSE Advanced(req[r]))
    /\ UNCHANGED <<seen, tier, window>>

Emit(r) ==
    /\ req[r].pc = "emit"
    /\ Become(r, Advanced(WithEvent(req[r], EventOf(Kind(r), req[r].val))))
    /\ UNCHANGED <<seen, storeVars>>

\* Mistake: a settled future stays in the pending set until it is the last.
PassSettlesAgain(r, p) ==
    /\ req[r].pc = "passes"
    /\ p \in req[r].pending
    /\ \E rest \in {req[r].pending \ {p}, req[r].pending} :
          /\ Len(req[r].events) < 8
          /\ Become(r, WithEvent([req[r] EXCEPT !.pending = rest, !.kept = @ \cup {p},
                                     !.pc = IF rest = {} THEN "assemble" ELSE "passes"],
                                 EventOf(p, Extracted(req[r].raw, {p}, {}))))
    /\ UNCHANGED <<seen, storeVars>>

\* Granular stream: the pikepdf passes settle, and are emitted, in any order.
PassSettles(r, p) ==
    /\ req[r].pc = "passes"
    /\ p \in req[r].pending
    /\ \E failed \in SUBSET ({p} \cap Faulty) :
          /\ PassesFail(req[r].raw, failed)
          /\ Charge(Cost(failed # {}))
          /\ LET rest == req[r].pending \ {p}
                 next == [req[r] EXCEPT !.pending = rest, !.kept = @ \cup ({p} \ failed),
                                        !.pc = IF rest = {} THEN "assemble" ELSE "passes"]
             IN  Become(r, WithEvent(next, EventOf(p, Extracted(req[r].raw, {p}, failed))))
    /\ UNCHANGED <<seen, tier, window>>

\* The merged document: kept pikepdf results plus a PyMuPDF run of its own, set
\* under the plain extract key without a lookup.
Assemble(r) ==
    /\ req[r].pc = "assemble"
    /\ \E failed \in SUBSET ({"fitz"} \cap Faulty), stored \in BOOLEAN :
          LET value == Extracted(req[r].raw, req[r].kept \cup {"fitz"}, failed)
          IN  /\ PassesFail(req[r].raw, failed)
              /\ CacheSet(Key(r), value, stored)
              /\ Charge(Cost(failed # {}) + Cost(~stored))
              /\ Become(r, [req[r] EXCEPT !.pc = "emit", !.val = value])
    /\ UNCHANGED <<seen, blobs, dedupe, stream, trimmed, gone, window>>

AssembleRaises(r) ==
    /\ req[r].pc = "assemble"
    /\ ExtractorRaises(req[r].raw)
    /\ Become(r, Finished(req[r], "200"))
    /\ UNCHANGED <<seen, tier, window>>

\* The probe's own hand-off to the speculator, under a dedupe key of its own.
PublishSpeculate(r) ==
    /\ req[r].pc = "publish"
    /\ XAddIfNew(Unscoped(req[r].sha),
                 [sha |-> req[r].sha, tenant |-> NoTenant, source |-> "probe"])
    /\ Become(r, Finished(req[r], "200"))
    /\ UNCHANGED <<seen, cache, blobs, gone, lost, raised>>

\* The worker process dies, or the client goes away mid-stream.  (An executor thread
\* outlives its client: its cache set is then a Fill that came before the Abort.)
Abort(r) ==
    /\ req[r].pc \notin {"idle", "done"}
    /\ Fault
    /\ Become(r, Finished(req[r], "aborted"))
    /\ UNCHANGED <<seen, tier, window, lost, raised>>

Step(r) ==
    \/ Resolve(r) \/ Put(r) \/ Lookup(r) \/ Fill(r) \/ FillRaises(r) \/ Emit(r)
    \/ \E p \in PikepdfPasses : PassSettles(r, p)
    \/ Assemble(r) \/ AssembleRaises(r) \/ PublishSpeculate(r)

Arrive(r) ==
    \/ \E op \in Operations, t \in Tenants, d \in Docs : Submit(r, op, t, d)
    \/ \E t \in Tenants, s \in Shas : SubmitHash(r, t, s)

ApiNext == \E r \in Requests : Arrive(r) \/ Step(r) \/ Abort(r)
=============================================================================
