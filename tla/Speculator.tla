----------------------------- MODULE Speculator -----------------------------
(***************************************************************************)
(* codex-speculator: the single-threaded consumer of the codex:speculate   *)
(* stream.  It reads batches by XREAD from the last id it has seen, and    *)
(* for each sha fetches the blob and runs the phase-1 and full extracts    *)
(* into the result cache, unless the full extract is cached already.  It   *)
(* keeps its position in memory only: a restart reads from 0-0 again.      *)
(***************************************************************************)
EXTENDS CodexStores

CONSTANT BatchSize  \* XREAD COUNT (4 in the code)

ASSUME SpeculatorAssumption == BatchSize \in Nat \ {0}

Counters == {"processed", "skipped", "blob_missing", "errors"}

VARIABLES
    spec,     \* the consumer's local state
    handled   \* history: ids this process has finished with

specVars == <<spec, handled>>

SpecState ==
    [pc : {"idle", "fetch", "check", "phase1", "phase2"},
     last : Nat,                   \* _last_id; 0 is "0-0"
     batch : Seq(Nat),             \* ids of the XREAD reply still to process
     sha : Shas \cup {None},
     blob : Docs \cup {None},
     count : [Counters -> Nat]]

SpecTypeOK ==
    /\ spec \in SpecState
    /\ handled \in SUBSET Nat

\* Mistake: a new process starts at the end of the stream.
ConsumerFromTheEnd ==
    [pc |-> "idle", last |-> Len(stream), batch |-> <<>>, sha |-> None, blob |-> None,
     count |-> [c \in Counters |-> 0]]

FreshConsumer ==
    [pc |-> "idle", last |-> 0, batch |-> <<>>, sha |-> None, blob |-> None,
     count |-> [c \in Counters |-> 0]]

SpecInit ==
    /\ spec = FreshConsumer
    /\ handled = {}

----------------------------------------------------------------------------
Counted(s, c) == [s EXCEPT !.count[c] = @ + 1]

\* The message at hand is done with: count it and go on with the batch.
MessageDone(s, c) == [Counted(s, c) EXCEPT !.pc = "idle", !.sha = None, !.blob = None]

Finish(c) ==
    /\ spec' = MessageDone(spec, c)
    /\ handled' = handled \cup {spec.last}

\* What XREAD returns: untrimmed ids after the last one, at most BatchSize.
Ready == {n \in 1 .. Len(stream) : n > spec.last /\ n > trimmed}

Reply ==
    LET first == IF spec.last > trimmed THEN spec.last ELSE trimmed
        size == IF Cardinality(Ready) < BatchSize THEN Cardinality(Ready) ELSE BatchSize
    IN  [i \in 1 .. size |-> first + i]

\* Mistake: the position moves to the end of the batch as the batch arrives.
XReadMovesOn ==
    /\ spec.pc = "idle" /\ spec.batch = <<>>
    /\ Ready # {}
    /\ spec' = [spec EXCEPT !.batch = Reply, !.last = Reply[Len(Reply)]]
    /\ UNCHANGED <<handled, storeVars>>

XRead ==
    /\ spec.pc = "idle" /\ spec.batch = <<>>
    /\ Ready # {}
    /\ spec' = [spec EXCEPT !.batch = Reply]
    /\ UNCHANGED <<handled, storeVars>>

XReadFails ==
    /\ spec.pc = "idle" /\ spec.batch = <<>>
    /\ Fault
    /\ spec' = Counted(spec, "errors")
    /\ UNCHANGED <<handled, tier, window, lost, raised>>

\* process_batch moves _last_id to the entry before it processes it.  The entry
\* was copied by XREAD, so trimming it meanwhile does not matter.
TakeMessage ==
    /\ spec.pc = "idle" /\ spec.batch # <<>>
    /\ spec' = [spec EXCEPT !.pc = "fetch", !.last = Head(spec.batch),
                            !.batch = Tail(spec.batch),
                            !.sha = stream[Head(spec.batch)].sha]
    /\ UNCHANGED <<handled, storeVars>>

\* The key blob_get reads: the prefix and the sha, with no tenant segment.
BlobGetKey(s) == Unscoped(s)

\* blob_get: GET on that key; when the call raises, the blob store's own get,
\* which reads the default tenant's blob (and gives None when it fails as well).
FetchBlob ==
    /\ spec.pc = "fetch"
    /\ \E blob \in Docs \cup {None}, failures \in 0 .. 2 :
          /\ \/ failures = 0 /\ blob = blobs[BlobGetKey(spec.sha)]
             \/ failures = 1 /\ blob = blobs[Scoped(spec.sha, DefaultTenant)]
             \/ failures = 2 /\ blob = None
          /\ Charge(failures)
          /\ IF blob = None
               THEN Finish("blob_missing")
               ELSE /\ spec' = [spec EXCEPT !.pc = "check", !.blob = blob]
                    /\ UNCHANGED handled
    /\ UNCHANGED <<tier, window, lost, raised>>

\* already_cached: cache_key with its default tenant.
SpecKey(kind) == CacheKey(spec.blob, kind, DefaultTenant)

CheckCached ==
    /\ spec.pc = "check"
    /\ \E hit \in {cache[SpecKey("extract")], None} :
          /\ ReadOutcome(cache[SpecKey("extract")], hit)
          /\ IF hit # None
               THEN Finish("skipped")
               ELSE spec' = [spec EXCEPT !.pc = "phase1"] /\ UNCHANGED handled
    /\ UNCHANGED <<tier, window, lost, raised>>

\* One extract and its cache set; a failed set does not raise.
SpecFill(kind) ==
    \E failed \in SUBSET (PassesOf[kind] \cap Faulty), stored \in BOOLEAN :
        /\ PassesFail(spec.blob, failed)
        /\ CacheSet(SpecKey(kind), Extracted(spec.blob, PassesOf[kind], failed), stored)
        /\ Charge(Cost(failed # {}) + Cost(~stored))

FillPhase1 ==
    /\ spec.pc = "phase1"
    /\ SpecFill("extract-phase-1")
    /\ spec' = [spec EXCEPT !.pc = "phase2"]
    /\ UNCHANGED <<handled, blobs, dedupe, stream, trimmed, gone, window>>

FillPhase2 ==
    /\ spec.pc = "phase2"
    /\ SpecFill("extract")
    /\ Finish("processed")
    /\ UNCHANGED <<blobs, dedupe, stream, trimmed, gone, window>>

SpecRaises ==
    /\ spec.pc \in {"phase1", "phase2"}
    /\ ExtractorRaises(spec.blob)
    /\ Finish("errors")
    /\ UNCHANGED <<tier, window>>

\* SIGTERM or a crash, and a new process: nothing is kept.
Restart ==
    /\ spec # FreshConsumer
    /\ Fault
    /\ spec' = FreshConsumer
    /\ handled' = {}
    /\ UNCHANGED <<tier, window, lost, raised>>

Consume ==
    XRead \/ TakeMessage \/ FetchBlob \/ CheckCached \/ FillPhase1 \/ FillPhase2 \/ SpecRaises

SpecNext == Consume \/ XReadFails \/ Restart
=============================================================================
