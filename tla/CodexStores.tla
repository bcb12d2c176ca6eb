---------------------------- MODULE CodexStores ----------------------------
(***************************************************************************)
(* The Redis tier the API replicas and the speculator share: the result    *)
(* cache, the blob store, the SET-NX dedupe keys and the codex:speculate   *)
(* stream, with the calls the code makes on them.  Every call may fail     *)
(* (a fault); the code turns a failed read into a miss and drops a failed  *)
(* write.  A module that EXTENDS this one supplies the callers.            *)
(***************************************************************************)
EXTENDS Naturals, Sequences, FiniteSets

CONSTANTS
    Tenants,        \* tenants an X-Codex-Tenant header can name
    DefaultTenant,  \* the "default" every keyword argument falls back to
    NoTenant,       \* the absent tenant segment of an unscoped key
    Docs,           \* distinct PDF byte strings
    PikepdfPasses,  \* the pikepdf passes: color_world, ocgs, form_xobjects, analysis
    Faulty,         \* the extractor passes that may raise in this instance
    Expiring,       \* what may expire: any of "cache", "blob", "dedupe"
    StreamMax,      \* XADD maxlen (10000 in the code)
    MaxFaults,      \* bound: failed calls, raised passes and crashes
    None            \* Python's None: a miss

CachedKinds ==
    {"extract", "extract-phase-1", "extract-phase-1-min", "probe-min", "probe-std"}

ASSUME StoresAssumption ==
    /\ PikepdfPasses \subseteq {"color_world", "ocgs", "form_xobjects", "analysis"}
    /\ DefaultTenant \in Tenants
    /\ NoTenant \notin Tenants
    /\ None \notin Docs
    /\ StreamMax \in Nat \ {0}
    /\ MaxFaults \in Nat

----------------------------------------------------------------------------
(* Extracted documents.  A document is known by the bytes it was made from *)
(* and by the passes whose result it holds: a pass that raised leaves its  *)
(* field at the empty default.  "fitz" stands for the PyMuPDF pipeline.    *)

Passes == PikepdfPasses \cup {"fitz"}

\* What the extractor of a kind runs: extract_document, extract_document_fast,
\* extract_document_pymupdf_only and the two probes.
PassesOf ==
    [k \in CachedKinds |->
        IF k = "extract" THEN Passes
        ELSE IF k = "extract-phase-1" THEN Passes \ {"analysis"}
        ELSE {"fitz"}]

Document == [doc : Docs, got : SUBSET Passes]

\* sha256 is taken to be injective: a digest wraps the bytes it was taken of.
Sha(raw) == [sha256 |-> raw]
Shas == {Sha(d) : d \in Docs}

\* codex:{VERSION}:{kind}:{tenant}:{pdf_sha}:{args_sha}; args is {} for these kinds.
CacheKeys == [kind : CachedKinds, tenant : Tenants, sha : Shas]
\* Mistakes: the tenant left at its default; every document under one kind.
DefaultTenantKey(raw, k, t) == [kind |-> k, tenant |-> DefaultTenant, sha |-> Sha(raw)]
OneKindKey(raw, k, t) == [kind |-> "extract", tenant |-> t, sha |-> Sha(raw)]
CacheKey(raw, k, t) == [kind |-> k, tenant |-> t, sha |-> Sha(raw)]

\* {tenant}:{sha}, and the same key without its tenant segment.
Unscoped(s) == <<NoTenant, s>>
\* Mistake: the tenant is not part of a blob's key.
OneSlotPerSha(s, t) == <<DefaultTenant, s>>
Scoped(s, t) == <<t, s>>
ScopedKeys == (Tenants \cup {NoTenant}) \X Shas

StreamEntry ==
    [sha : Shas, tenant : Tenants \cup {NoTenant}, source : {"blob_put", "probe"}]

----------------------------------------------------------------------------
VARIABLES
    cache,    \* result cache: CacheKeys -> Document or None
    blobs,    \* blob store: ScopedKeys -> bytes or None
    dedupe,   \* live codex:speculate:dedupe:* keys
    stream,   \* every entry ever XADDed; an entry's id is its position
    trimmed,  \* ids up to this one have been trimmed from the stream
    gone,     \* history: keys whose blob expired, or whose last put failed, leaving none
    faults,   \* faults so far
    window,   \* history: XADDs of a sha since it last had no dedupe key
    lost,     \* history: the passes that ever raised on a document
    raised    \* history: documents on which a whole extractor raised

tier == <<cache, blobs, dedupe, stream, trimmed, gone>>
storeVars == <<cache, blobs, dedupe, stream, trimmed, gone, faults, window, lost, raised>>

StoresTypeOK ==
    /\ cache \in [CacheKeys -> Document \cup {None}]
    /\ blobs \in [ScopedKeys -> Docs \cup {None}]
    /\ dedupe \in SUBSET ScopedKeys
    /\ stream \in Seq(StreamEntry)
    /\ trimmed \in Nat
    /\ gone \in SUBSET ScopedKeys
    /\ faults \in 0 .. MaxFaults
    /\ window \in [Shas -> Nat]
    /\ lost \in [Docs -> SUBSET Passes]
    /\ raised \in SUBSET Docs

StoresInit ==
    /\ cache = [k \in CacheKeys |-> None]
    /\ blobs = [k \in ScopedKeys |-> None]
    /\ dedupe = {}
    /\ stream = <<>>
    /\ trimmed = 0
    /\ gone = {}
    /\ faults = 0
    /\ window = [s \in Shas |-> 0]
    /\ lost = [d \in Docs |-> {}]
    /\ raised = {}

\* A step with n faults in it: no more than MaxFaults over a behaviour.
Charge(n) == faults + n <= MaxFaults /\ faults' = faults + n
Fault == Charge(1)
Cost(happened) == IF happened THEN 1 ELSE 0

----------------------------------------------------------------------------
(* Calls on the tier.  Each constrains the primed variables it names.      *)

\* A read gives what is stored, or None when the call fails.
ReadOutcome(stored, v) ==
    \/ v = stored /\ UNCHANGED faults
    \/ v = None /\ stored # None /\ Fault

\* A write that fails is logged and skipped.
CacheSet(key, value, ok) == cache' = IF ok THEN [cache EXCEPT ![key] = value] ELSE cache

\* Mistake: the tail is cut by count even while the stream is short.
XAddCutsBlindly(entry) ==
    /\ stream' = Append(stream, entry)
    /\ trimmed' = Len(stream') - (StreamMax + 1)
    /\ window' = [window EXCEPT ![entry.sha] = @ + 1]

\* XADD ... MAXLEN ~: trimming may leave more than StreamMax entries, never fewer.
XAdd(entry) ==
    /\ stream' = Append(stream, entry)
    /\ \/ UNCHANGED trimmed
       \/ trimmed' = Len(stream') - StreamMax /\ trimmed' > trimmed
    /\ window' = [window EXCEPT ![entry.sha] = @ + 1]

\* Mistake: wait for the dedupe key to go away rather than skip the XADD.
XAddWhenFree(key, entry) ==
    /\ key \notin dedupe
    /\ dedupe' = dedupe \cup {key}
    /\ XAdd(entry) /\ UNCHANGED faults

XAddIfNew(key, entry) ==
    \/ /\ key \in dedupe
       /\ UNCHANGED <<dedupe, stream, trimmed, window, faults>>
    \/ /\ key \notin dedupe
       /\ dedupe' = dedupe \cup {key}
       /\ \/ XAdd(entry) /\ UNCHANGED faults
          \/ UNCHANGED <<stream, trimmed, window>> /\ Fault
    \/ UNCHANGED <<dedupe, stream, trimmed, window>> /\ Fault

\* RedisBlobStore.put: a failed SET (which a timeout may report although Redis has
\* carried it out) returns before anything is published.
BlobPut(raw, t) ==
    \/ /\ blobs' \in {blobs, [blobs EXCEPT ![Scoped(Sha(raw), t)] = raw]}
       /\ gone' = IF blobs'[Scoped(Sha(raw), t)] = None THEN gone \cup {Scoped(Sha(raw), t)}
                                                        ELSE gone \ {Scoped(Sha(raw), t)}
       /\ UNCHANGED <<dedupe, stream, trimmed, window>> /\ Fault
    \/ /\ blobs' = [blobs EXCEPT ![Scoped(Sha(raw), t)] = raw]
       /\ gone' = gone \ {Scoped(Sha(raw), t)}
       /\ XAddIfNew(Scoped(Sha(raw), t),
                    [sha |-> Sha(raw), tenant |-> t, source |-> "blob_put"])

\* An extractor runs its passes on some bytes; those in failed raise and leave
\* their field empty, which the caller never hears of.
Extracted(raw, passes, failed) == [doc |-> raw, got |-> passes \ failed]

PassesFail(raw, failed) ==
    /\ failed \subseteq Faulty
    /\ lost' = [lost EXCEPT ![raw] = @ \cup failed]
    /\ UNCHANGED raised

\* The extractor itself raises: no result.
ExtractorRaises(raw) ==
    /\ raised' = raised \cup {raw}
    /\ UNCHANGED lost
    /\ Fault

----------------------------------------------------------------------------
(* TTLs run out (and Redis may evict) at any time.                         *)

CacheExpire(key) ==
    /\ "cache" \in Expiring
    /\ cache[key] # None
    /\ cache' = [cache EXCEPT ![key] = None]
    /\ UNCHANGED <<blobs, dedupe, stream, trimmed, gone, faults, window, lost, raised>>

BlobExpire(key) ==
    /\ "blob" \in Expiring
    /\ blobs[key] # None
    /\ blobs' = [blobs EXCEPT ![key] = None]
    /\ gone' = gone \cup {key}
    /\ UNCHANGED <<cache, dedupe, stream, trimmed, faults, window, lost, raised>>

DedupeExpire(key) ==
    /\ "dedupe" \in Expiring
    /\ key \in dedupe
    /\ dedupe' = dedupe \ {key}
    /\ window' = IF \E other \in dedupe' : other[2] = key[2]
                   THEN window
                   ELSE [window EXCEPT ![key[2]] = 0]
    /\ UNCHANGED <<cache, blobs, stream, trimmed, gone, faults, lost, raised>>

Expiry ==
    \/ \E key \in CacheKeys : CacheExpire(key)
    \/ \E key \in ScopedKeys : BlobExpire(key) \/ DedupeExpire(key)
=============================================================================
