# Formal models of codex-pdf

TLA+ models, TLC configurations and TLAPS proofs of the codex-pdf service: the extract and
probe handlers of the API, the Redis tier its replicas share, the speculator that warms it,
the in-memory stores, the render endpoints with their index and their plates, retention, the
AI lane, URL ingest and authentication, the sparse path, colour, geometry, the edge worker in
front, and the rate limiter with the client that retries against it.

Run a check with `tlc -workers 2 -config MCPipelineCache.cfg MCPipeline.tla` (each `.cfg` names
its module by its prefix: `MCComponents.cfg` goes with `MCComponents.tla`, `MCMissing`,
`MCDedupe` and `MCPipeline*` with `MCPipeline`, `MCClient*` with `MCHttpClient`,
`MCMemoryRaises` with `MCMemoryCache`, `MCRendersStale` with `MCRenders`, `MCFolds` with
`MCDieline`), the proofs with `tlapm` on the eight modules named `*Proofs.tla`. `MCAiLane`,
`MCPress`, `MCSpot` and `MCGeometry` have no run of their own: they give `MCComponents` its values.

## 1. The system: an inventory

| Component | State it keeps | Operations | Hard behaviour | What makes it correct |
|---|---|---|---|---|
| Result cache on Redis (`api/cache.py`) | key -> body, with a TTL | `get`, `set` | calls fail and are swallowed; many writers of one key; expiry between lookup and use | an entry is a result for exactly its key's bytes, kind and tenant |
| Result cache in memory (`api/cache.py`) | an ordered dictionary of `maxsize` keys, no lock | `get`, `set` | executor threads and the event loop interleave between dictionary operations | a get answers the last set of its key or misses; the size stays bounded; nothing raises |
| Blob store (`api/blob_store.py`) | tenant:sha -> bytes; byte total in memory | `put`, `get`; `put` also publishes the sha | SET, SET NX and XADD fail separately; eviction | a blob stands only under tenants that sent it; memory accounting is exact |
| Dedupe keys and `codex:speculate` stream | live keys, entries, trimming | SET NX, XADD, XREAD | trimming under a slow reader; key set but entry lost | one entry per sha and window; no entry silently skipped |
| Extract, stream, probe handlers (`api/main.py`) | locals of each request | lookup, extract, set, emit | requests interleave at awaits, in executor threads and across replicas; passes fail; clients leave | right events, once, in order; a failure of the tier costs time, and at most refuses a probe by hash |
| Extractors (`extract/`) | none | one function per kind | passes run in a pool and may raise singly | a lost pass leaves a default, no more |
| Speculator (`speculator/consumer.py`) | `_last_id`, batch, counters | XREAD, blob GET, two extracts, two sets | crash between any two steps; position in memory only | no entry skipped; nothing written that a request could not have written |
| Renders and their index (`api/renders_index.py`, `render/`) | a JSON list per document | `record_render`, `list_renders` | replicas read, change and write the list without a lock; it expires apart from the renders | a listed render was made for that tenant; rendering again lists it |
| Rate limiter (`api/rate_limit.py`) | a token bucket per tenant and endpoint, in each replica | `acquire` | refill, cap and rounding over any window of time | never more than burst + rate x time; an honest Retry-After |
| Retention (`api/retention.py`) | objects in a bucket | `put`, `delete` | three objects per document, a paged delete whose pages shift, keys the bucket declines | nothing found is left behind; no document in parts |
| AI lane (`ai/`) | per-request budget, result cache | two entry points, dispatch per kind and page | models fail; the budget runs out; empties are cached | spend stays under the cap; no cached gap is served for a result; the status tells the truth |
| Edge worker (`codex-edge/`) | KV of SSE frames | replay, relay and file frames | frames counted by position; no tenant in the key; a key taken from the caller | a replay describes the document named, in order |
| HTTP client (`client/http_client.py`) | pool of targets, contracts read so far | `_post`: order the targets, check the contract, retry, fail over | lost answers, refusals, deployments; clients compete for tokens | gives up only after the whole pool; answers only from compatible targets |
| URL ingest, auth (`api/url_ingest.py`, `api/auth.py`) | the fetch under way | authenticate, fetch | redirects, lengths that lie, secrets half set | the limits hold on every hop; a secret that is set locks |
| Sparse extraction (`extract/sparse.py`) | none | resolve fields, run their passes, project | passes raise; a table kept by hand | the sparse answer is a projection of the full one |
| Dieline detector (`extract/dieline_detector.py`) | the path under construction | content operators | subpaths sealed, painted or dropped together | the size is that of the ink, where content is drawn without a matrix; every rule can fire |
| Separations, layers, heatmap (`render/`) | plate files, OCG states | list, render, measure | dictionaries that lead to each other; names inside names; layers off by default; merged words | an ink is shown and measured by its own plate, once |
| Colour (`color/`, `extract/color.py`, `extract/summary.py`) | cached model estimates of the process | read spaces, resolve a name, summarise | threads share the cache; the first space of a name wins | a name is asked once; an ink has the colour of its full tint |
| Geometry (`geom/`) | none | booleans, offset, tile | rectangles cut into pieces; an optional library; lists of paths taken together or in turn | the area is the one the operation names; a grid fits |
| Type 4 functions, Lab and ICC colour | none | functions | float arithmetic | agree with the specification (not modelled) |

Interaction: clients (or the edge worker) call the API; handlers share the tier and
run extractors in a thread pool; `put` and the probe hand shas to the speculator
through the stream; the speculator reads blobs and writes results, which handlers find
by key. There are no callbacks other than the settling of pool futures.

## 2. The plan

Done, the most important first (the extract pipeline, because everything else stands on
its keys):

1. `CodexStores` (tier), `ExtractApi` (handlers), `Speculator`, composed in
   `CodexPipeline`; `ExtractPromise`, what a caller may rely on; the theorems in
   `CodexPipelineProofs`, the refinement among them.
2. `MemoryCache` and the abstract map it implements, `CachePromise`; proved in
   `MemoryCacheProofs`.
3. `RenderApi`: the render endpoints, their cache and the index of renders.
4. `RateLimiter`, and `HttpClient` over it; proved in `HttpClientProofs`.

5. `AiLane`: budget, cache and dispatch, with the status the response reports; proved in
   `AiLaneProofs`.
6. `Retention`: put and paged delete over a bucket that fails; proved in `ServiceProofs`.
7. `Edge`: KV, relay and replay, the origin seen from outside; proved in `ServiceProofs`.
8. `UrlIngest`: authentication, redirects, reading under a cap; proved in `ServiceProofs`.
9. `SparseFields`, `Dieline`, `MemoryBlobs`, `Separations`, `Heatmap`, `SpotColor`, `Geometry`:
   algorithms with little or no concurrency, each against a reference definition. They and 5 to
   8 share no state, so one configuration, `MCComponents`, runs them side by side. Proved in
   `PageProofs` (sparse, render, heatmap, dieline), `ServiceProofs` (blobs, colour) and
   `GeometryProofs`.
10. Proofs of the render invariants (`ServiceProofs`) and of all invariants of the client.

What would come next: the exact byte account of `MemoryBlobs` and the counters of the consumer as
invariants of their own; the sparse path and retention composed with the pipeline rather than beside
it; the pre-render; exponents other than 1 in a tint transform.

## 3. The modules

**CodexStores** holds the tier: `cache`, `blobs`, `dedupe`, `stream` and `trimmed`, and
operators for the calls of the code. `CacheKey` is `cache_key` with kind, tenant and sha
(the version is constant and the arguments are `{}` for the kinds modelled); `Scoped` is
`_scoped`; `BlobPut` is `RedisBlobStore.put` with its three Redis calls: the SET, the SET
NX of the dedupe key and the XADD, each of which may fail, with what the code then skips; a
SET that fails may have been carried out all the same (a timeout on the answer).
They are one action, since the tier has no other reader of the states between them than the
consumer, to which they look like a slower publish. `ReadOutcome` is the `get` that turns
an exception into a miss, `CacheSet` the `set` that drops it. Expiry may strike any entry
at any time. A document is abstracted to the bytes it was made from and the set of passes
whose result it holds: a pass that raises leaves its field empty, silently. The pass
`"fitz"` stands for the whole PyMuPDF pipeline and the fields derived from it. Sha-256 is
taken to be injective. Entries are never removed from the model's `stream`: an entry's id is
its position and `trimmed` says which ids are gone.

Four history variables serve properties only: `lost` and `raised` (which passes and
extractors ever raised on a document), `gone` (keys whose blob has expired, or whose put failed
and left none, since it last stood) and `window` (XADDs of a sha since it last had no
dedupe key). `faults` counts failed calls, raised passes and crashes, up to `MaxFaults`.

**ExtractApi** makes each request a process with its own `pc`. The steps are those
between which other requests, threads or replicas can run: `Submit`/`SubmitHash`, `Resolve`
(the blob lookup of a probe by hash; a miss, an expired blob and a failed read alike are a 412), `Put`, `Lookup` (`_cache.get`), `Fill` (extract
and `_cache.set`; one action since the extract is a function of the bytes, and nothing
else reads the request's result before the set), `Emit`, `PassSettles` (one of the pikepdf
futures of the granular stream), `Assemble`, `PublishSpeculate`, `Abort`. The operations
differ in their `Stages`. A stream that loses a stage to an exception goes on; `/v1/extract`
answers 500. History: `seen`, the tenant and sha of every upload.

**Speculator** is `run_once`, `process_batch` and `process_one_message`: `XRead`,
`TakeMessage` (which moves `_last_id`), `FetchBlob` (the two-step `blob_get`), `CheckCached`,
`FillPhase1`, `FillPhase2`, with `SpecRaises`, `XReadFails` and `Restart`.

**CodexPipeline** composes the three. **ExtractPromise** is the abstract specification:
it knows no cache, blob store, stream or consumer. An answer that ends well has left out no event
it announced, but for an extractor that raised on the same bytes. The refinement mapping hides the
tier and maps the histories of failures to the promise's own.

**CodexPipelineProofs** holds the theorems. **MCPipeline** instantiates the pipeline for TLC.

**MemoryCache** is `MemoryCache.get` and `.set` called by threads (`run_in_executor` in
`_extract_impl` calls the cache from the default executor while the render endpoints call it
on the event loop). One action is one operation on the `OrderedDict`: the test `in`,
`move_to_end`, the read, the assignment, `len`, `popitem`. The interpreter may switch threads
between two of them and not inside one (CPython with its lock, keys are strings). `order` is
the order of use, `held` the values, `call` each thread's place in the code; a KeyError takes
it to `"raised"`. The history `alone` remembers the calls that nothing has overlapped.
**CachePromise** is the abstraction: a map that may forget any entry at any moment.

**RenderApi** gives each replica one request at a time, since a render endpoint awaits nothing
once it has the bytes: `Start`, `Lookup`, `Render` (with the `set`), `RenderRaises`, and for
pages `ReadIndex` and `WriteIndex` (the two halves of `record_render`). A shot is what the
index names (page, dpi), a view the arguments it leaves out, an image what was drawn. The
other three endpoints differ from `/v1/render/page` only in their kind and in recording
nothing; a malformed index cannot arise. Histories: `drawn`, and `clean`, the replicas whose
request no failure, expiry or record of another replica has touched.

**RateLimiter** counts time in ticks and tokens in units, a token being the units of one
minute, so that the refill of `acquire` is exact; the code's floats round. **HttpClient** is
`_post`: `EnsureContract`, one of `Unreached`, `Refused`, `Served` per attempt, `Wake` after
each sleep (the code also sleeps after the last attempt), `GiveUp`. `OrderedTargets` is
`_ordered_targets` with its four modes; in failover mode without a plant it yields the first
target twice, and so does the code. `Deploy` changes a server's contract after the client may
have read it. `mark` opens a window of time at any moment, for one of the buckets in `Watched`.

**Selections** has one operator, `Those`: the elements of a sequence that are in a set, in order.
It is the filter of the comprehensions in `_ordered_targets`, of the page jobs of the AI lane, of
the runs of a heatmap, of plate files and of the cache of estimates. It is a recursive function in a
LET, so that `SelectionProofs` can say what it returns.

**AiLane** gives each request its `endpoint`, `work` (the worklist of `run_signals_on_document` or
the one signal asked for), what it has spent and what it was sent. `Lookup` and
`Dispatch` (or `Refuse`, when the budget is out) of each signal are separate steps, since requests share
only the cache, `signals`. A model's answer is found, empty or failed. The text kinds never
reach a model: no page of a document carries text. History: `failed`, the keys on which something
failed.

**Retention** is the three `PutObject`s of a put and the pages, batches and end of an erase.
Keys are ordered as S3 lists them, by tenant, date, sha and part, so that what others put or erase
shifts the pages. Histories: `there` (what an erase found when it began and nobody has written
since), `refused` (keys the bucket declined), `torn` (folders a failure or an overlap has touched).

**Edge** is the worker: `HandleProbe`, `HandleExtractStream`, `TryReplay`, `Stream` (the origin's
events, of which an exception may take one), `Relay` (frames filed by position for the probe and
the two-phase stream, by name for the granular one), `PutLands` after the response. KV calls fail
and entries expire. `claimed` remembers hashes sent with the URL of another document.

**UrlIngest** is `authenticate` and then `fetch_pdf_from_url`: each hop resolves, checks, connects,
and redirects, refuses or reads. Addresses and servers answer anew every time.

**SparseFields** runs one extract. A value is the set of passes it carries, so that the assembled
documents, full and sparse, can be compared field by field whichever passes raised.

**Dieline** walks the operators of a page's content, on a small grid. `LintRelevantOps` are those
`signals.py` records; the detector counts and boxes what it is given, so that `d` and `w`, which are
never recorded, change none of its counters (`Counted`), and `q`, `Q`, `cm` and `Do`, which are
recorded and passed over, change nothing but the reference. The reference is what the format makes of
the operators: the matrix in force and those saved, where each vertex lies on the page, and what a
stroke or a form inks. A curve is its end points, in the model as in the code; clipping and
`UserUnit` are outside both.

**MemoryBlobs** is `MemoryBlobStore`, whose calls never overlap.

**Separations** scans a document for inks, lets Ghostscript write its plates and picks them by file
name, and sets OCG states. The resources of a document are dictionaries that may lead to each other
and to themselves, through patterns and through forms. The walk of `_scan_resources_dict` is a stack
of `Frame`s no deeper than `MaxDepth`, in the code's order: a dictionary's own spaces (`Entered`),
its patterns, then its XObjects. These are known by the `id()` of wrappers made for the loop
(`OpenXObjects`), and the ids of a loop that is over may come again in a later one: such an XObject is
passed over with all that is below it (`PassOver`). A page that inherits its Resources is not
scanned. `Reached` and `SpacesOn`, the least set closed under "leads to", are the reference for what
a page can paint; `lost` and `cut` remember what was passed over and what was too deep.

**Heatmap** merges words, scales lines into pixels, and samples.

**SpotColor** reads the spaces of a document and resolves names through host, document,
Pantone, curated and model sources, in several threads over the `lru_cache`. Below it,
**TintFunctions** evaluates a tint transform of type 2 (with N = 1) or 3, on integers that are rounded
down. A stitched function ends in a call of one of its pieces, so the evaluation is a sequence of calls
(`Stitch`, `LastCall`), a recursive function bounded by `MaxNesting`: a deeper one is taken for
unsupported. (In the code the only bound is Python's recursion limit, and a space that hits it is
dropped, which is the family "broken" of the model.) The reference is the format's (`Readings`): the interval of a piece is
closed below and open above, but for the last, so a bound belongs to the piece above it. The code takes
the piece below. What a summary says of where a colour came from is left out (`SwatchGiven`).

**Geometry** is `Box`, the booleans and offset over paths, with and without pyclipr, and the tile
grid. A path covers a set of unit cells. An offset has the request's join:
mitred unless the limit is too low for a right corner, round, or square, to whole cells (`Swept`,
`Spared`); `end_type` never matters, since a request's value either names the closed end or is not
in the code's table, which gives the closed one. Its rings are rectilinear, and no ring comes to a point
twice but for its first; there Clipper's non-zero fill, which `Covered` stands for, is plain
to state. A ring that is slanted or crosses itself is outside the model. The code's loops over a list
of paths are recursive functions: `InTurn` (what `main.py` does one clip after another), `BoxesMet`
and `BoxesAround` (the shortcut of `path.py`, when every path is a rectangle).

**MCComponents** chooses one of these as the `subject` of a behaviour; the others stand still.
**MCStores** does the same for the memory cache and the renders.

## 4. The runs

| Run | Instance | Shows |
|---|---|---|
| `pipeline_cache` | `extract` and `granular`, 1 document, 2 tenants, 2 requests, 1 fault, cache expiry, one of the passes may raise | `CacheSound` (content addressing under concurrent writers), `KeepsPromise` (the pipeline implements `ExtractPromise`) |
| `pipeline_tenants` | `extract`, and `probe` by bytes or hash, 2 documents, 2 tenants, 2 requests, 1 fault, blob expiry | `TierIsolation`, `AnswersIsolated` (nothing of bytes the tenant has not sent), `FailuresExplained` (no failed call of the tier becomes a 500; when a probe by hash may be refused), `NoEntrySkipped` (the consumer's position) |
| `pipeline_live` | two-phase streams, 1 tenant, 2 requests, 1 fault, dedupe expiry | `EveryRequestEnds`, `EveryEntryConsumed` under fairness |
| `blob_missing` | 1 request, no faults | finding: a stored blob is counted missing |
| `probe_dedupe` | 1 probe, no faults | finding: one probe, two XADDs of a sha |
| `stores` | one of the two at a time. Memory cache: 2 threads, 3 keys, 2 values, 2 entries. Renders: 2 replicas, 2 tenants, 2 endpoints, 2 shots, 2 views, 3 requests, 1 fault | `CacheTypeOK` (order and entries in step), `SizeBounded`, `EvictsWhenFull` (concurrent trimming), `KeepsCachePromise` (implements `CachePromise`); `TypeOK`, `AnswersMatch`, `ListedWasDrawn`, `RerenderRelists` |
| `memory_raises` | 2 threads, 3 keys, 1 value | finding: a get raises KeyError |
| `renders_stale` | 1 replica, 1 tenant, no faults | finding: the index lists a render that is gone |
| `client_quota` | 2 clients, 2 tenants, 1 server, 45 a minute, burst 1, 3 calls, 4 seconds | `QuotaHolds`, `HonestRetry`, `RefusedWhenSpent` |
| `client_failover` | 1 client in 16 configurations, 2 servers of 2 plants, 2 calls, 1 deployment, 9 seconds | `FailsAfterAll`, `AnswersFromChecked` |
| `components` | one component at a time, see below | `BudgetKept`, `EmptiesExplained`, `StatusHonest` (AI lane); `EraseComplete`, `WholeUnlessTorn` (retention); `ReplayTrue` (edge); `SecretLocks`, `FetchContained` (ingest); `SparseAgrees`; `SizeOfInk` (dieline); `RecentBlobsHeld`; `PlatesTrue`, `LayersObeyed` (render); `HeatmapTrue`; `AskedOnce`, `SummaryTrue` (colour); `GeometryTrue` |
| `fold_lines` | 1 page, 4 operators | finding: dashes are never counted |

Bounds. Two requests are the fewest that race on a key, two tenants the fewest that can
leak, two documents the fewest whose bytes can be mixed up. Two pikepdf passes (of four)
settle in either order, and one of them is the one phase 1 leaves out. `StreamMax` is 1 so
that two entries already trim. One fault reaches every single failure point, in every
interleaving; two faults matter only inside `FetchBlob`, whose fallback also fails, and
`MaxFaults` bounds that. The stream can hold at most two entries per request, so nothing
else is bounded. Deadlock is not checked: the system is at rest when all requests are done.

In `stores` the memory cache needs no bound: its state space is finite. Two threads
are enough to evict what the other has just tested; the theorems cover any number. Three keys
are one more than the cache holds. For the renders `MaxRequests` is 3: two that race and one that
comes after. In `client_quota` a token takes 4/3 seconds, so that waits are rounded, and three
calls by two clients outrun the burst; in `client_failover` `MaxTime` is the sum of all
back-offs (1 + 2 seconds for each target, three targets in failover mode, where the first comes
twice), so that a call can fail everywhere in every mode.
Deadlock is not checked where a bound on requests or on the clock ends the run.

The bounds of `components`, by component. AI lane: two requests of two tenants over a one-page
document, costs of 2 and 3 under a cap of 4, so that the second call is refused; one fault.
Retention: two puts and one erase, two shas, tenants and days, pages and batches of two keys under
three objects per document, so that every listing has several pages; one fault. Edge: three
requests in two slots, two documents, the four kinds of body; one fault or expiry. Ingest: three
URLs, one of them unfetchable, one redirect, a cap of three units read in chunks of one or two; authentication
runs every combination of the six settings. Sparse: all pairs of fields and no
failure or any single one. Dieline: four operators on two pages, two points and two rectangles,
one mirrored, and a matrix that scales and shifts. Blobs: two tenants, sizes 1, 2 and 6 under a limit of 5. Separations: two forms that lead to each
other, walked to depth 2 so that the loop is cut, a pattern with an image of its own, a page without
Resources, nine plates among which names contain each other, three layers under both base
states. Heatmap: three of six words, two lines kept, zero and odd sizes. Colour: two threads, two
documents, three jobs, two cache slots; transforms that stitch others, reverse their range or are
nested as deep as `MaxNesting` = 2, one of them reaching an inner bound. Geometry: rectangles and an L
on a 4 by 4 grid, lists of up to three subjects, distances from -1 to 2 under every join, and 288 tile
bodies. Symmetry is over requests and puts, which are alike, and no liveness is checked here.

Fairness. `FairSpec` asks weak fairness of each request's `Step` and of `Consume`: asyncio
and the thread pool run what is ready, and `run_forever` loops. Nothing asks that a request
arrive, an entry expire, or a call fail. A crash of the consumer may come at any time; the
fault bound says that it does not crash for ever.

### Findings

* `blob_missing`: `blob_get` in `speculator/consumer.py` reads the blob under prefix + sha,
  whereas every writer stores it under prefix + tenant:sha. The consumer therefore finds no
  blob unless the Redis call fails and the fallback store is asked. `TierIsolation` shows the
  other side: that key is never written.
* `probe_dedupe`: a probe's `_publish_speculate` sets a dedupe key without a tenant, `put` one
  with the tenant, so each probe publishes its sha twice.
* `memory_raises`: the in-memory cache is documented to always work, but a `get` whose key
  another thread evicts after the test raises KeyError, which a handler turns into a 500.
  `KeepsCachePromise` bounds the damage: only calls that overlap raise.
* `renders_stale`: `GET /v1/documents/{pdf_hash}/renders` is described as the renders that are in
  the cache; a render that has expired is listed on, because the index has a TTL of its own, which
  every later render of the document sets anew.
* `fold_lines`: `extract/signals.py` drops `d` and `w` because "no downstream reader uses them"; the
  dieline detector counts both, so its fold rule never fires.

### Observed while modelling

Where the code does something a reader of its documents may not expect, the properties above say so
by an exception, and the model has the behaviour:

* `ReplayTrue`: a body that names one hash and links another document files the answer under the
  hash, for every later caller. When the origin loses its first event the second one is replayed
  as the first (`codex-edge/src/handlers/probe.ts`). `/v1/extract/stream` itself refuses a body that
  has only a hash.
* `FailuresExplained`: a blob read that fails looks like a blob that is not there, so a failure of
  the blob store, like its expiry, refuses a probe by hash with 412 ("send the bytes").
* `StatusHonest`: the status is told that the gates are open, not that anything ran. A sparse request
  for no AI field skips the lane and is given the code `ai_tier`, "AI ran" (`api/main.py:1008`, `:1981`).
  A vision call that fails or finds nothing leaves an empty result and no warning but that one,
  though `docs/policies.md:120` promises a warning whenever signals come back empty.
* `PlatesTrue`: `_find_channel_tif` takes the first file whose name contains the channel's, so "Black"
  is shown the plate of a spot "All Black"; density then counts that one twice. `list_separations`
  says it returns the channels that are actually present. It reads resource dictionaries that pages
  own: an ink of inherited Resources, or set by a colour operator alone, is not listed and Ghostscript
  paints it all the same. An XObject whose wrapper has the `id()` of an earlier one is passed over
  (`visited` holds the ids of temporaries), and one too deep is not walked, with all below them.
* `LayersObeyed`: a forced layer of a document whose base state is OFF stays hidden.
* `SparseAgrees`: `trap_evidence` asked for alone misses the layers found by OCG names.
* `SizeOfInk`: a rectangle with a negative extent shrinks the box (`dieline_detector.py:249`). The
  detector passes over `q`, `Q`, `cm` and `Do`: of a page drawn under a matrix or by a form the size is
  that of the operands, in whatever unit the matrix makes of them, and nothing is claimed of it.
* `SummaryTrue`: says nothing of a full tint that reaches a bound of a stitched function. There the
  code takes the piece below (`color/alt_space.py:133`), the format the one above.
* `EraseComplete`: `DeleteObjects` reports keys it declined in a list the code does not read.
* `AskedOnce`: two threads that miss a name at once both ask; a failure is remembered for ever.
* `GeometryTrue`: the union of rectangles is the box around them, with pyclipr as well as without,
  since the shortcut for rectangles comes before the test for the library (`geom/path.py:194`);
  `docs/contract.md:38` has a Boolean union. Without clips, one path that is no rectangle is
  intersected with nothing and answered empty, and three or more that are not all rectangles are
  answered with the first's part of the union of the others. Without pyclipr a
  rectangle is offset with mitred corners whatever join was asked for, where the docstring
  (`geom/path.py:233`) has that fallback for mitred joins only. All else is exact.
* The AI text kinds answer nothing at all, and a refusal by the budget on the signal endpoint is an
  empty answer without a warning.

## 5. The proofs

Every invariant the runs check is a theorem, and so are both refinements. Each is proved for all values of the constants that the named assumptions admit, and the assumptions are
few: mostly that a constant has its type, with the others listed below. No property is inductive by
itself; what is added to make it so is the substance of each argument.

### The pipeline: `CodexPipelineProofs`

For every number of tenants, documents, requests, operations and faults, and every set of passes:
`TypeCorrectness`, `CacheSoundness` (`Spec => []CacheSound`), `TierIsolated` (`TierIsolation`),
`AnswersAreIsolated` (`AnswersIsolated`), `FailuresAreExplained` (`FailuresExplained`),
`PositionIsSound` (`NoEntrySkipped`) and `PipelineKeepsPromise` (`Spec => KeepsPromise`).

Assumptions: `StoresAssumption` (the default tenant is a tenant, the absent segment is none, `None`
is no document, `StreamMax` is positive), `ApiAssumption` (the operations are known ones, and `None`
is no HTTP status), `SpeculatorAssumption` (a batch holds something) and `PromiseAssumption` (`None`
is no request).

* `IInv` adds what is in flight: bytes in a handler past
  its blob lookup are those its tenant has sent (`SoundRequest`), the value it is about to emit
  was made from them and lacks only what `lost` explains, the kept and pending passes of a
  granular stream account for every pass not lost, and the bytes the consumer holds were sent
  by the default tenant (`SoundConsumer`: the unscoped key holds nothing, because no tenant is
  `NoTenant`, so only the fallback can find a blob). The step lemma `RequestMoves` says what is
  left to show when one request moves and the histories grow; then there is one lemma per
  action. `lost` and `seen` only grow, which keeps everybody else sound (`RequestStaysSound`).
* `FailuresExplained` is about the step that ends a request: `Spec => [][...]_vars`. Besides the
  invariants it needs that a blob once put stands until it expires or is put again: an upload that is past
  its put has its key's blob, or the key is in `gone`. Then a refused read is one of
  a key nobody uploaded, one in `gone`, or one that failed in that very step.
  `EndsExplained` says how a request can have ended at all; the causes are histories that only grow
  (`OtherEndsStay`), so one lemma says what is left when one request ends (`RequestEnds`).
* `PositionOK`: the batch in hand is a run of ids, and all between the position and the batch had been
  trimmed when it was read. Trimming under a held batch, a failed fetch and a restart leave it
  alone; `XRead` establishes it.
* The refinement needs one invariant more, `InOrderInv`: what a request has emitted is what the
  stages behind it emit (`Behind`), so that an event it is about to emit is a new one. The mapping
  keeps what was asked, what was answered and how it ended, and hides the tier and the consumer.
  `BarsMove` gives the mapped variables when one request moves; then each action of the pipeline is
  a step of `ExtractPromise` or a stutter. A cached answer is an allowed one because of `CacheSound`,
  the failures because of `EndsExplained`.

### The in-memory cache: `MemoryCacheProofs`

`CacheTypeCorrect`, `CacheIsBounded`, `CacheEvictsWhenFull` and
`CacheKeepsPromise` for every number of threads, keys and values, provided that there are no
more threads than entries (`MemoryCacheAssumption`; the executor has at most 32 threads, the
cache 256 entries). `CacheInv` adds to the type and `SizeBounded` what the threads know:
`PopInv` (a thread about to pop has seen the store over its limit, so it is over still but for
what others have popped since; hence nobody pops an empty store) and `AloneInv` (an entry that
a call running alone has seen is there). The refinement to `CachePromise` goes by action: the
read of a get, the assignment of a set and the last length test are visible, a pop forgets.

### The limiter and its client: `HttpClientProofs`

For every rate, burst, resolution of the clock, number of clients, configuration, pool and retries:

* `QuotaIsKept`: `Spec => []QuotaHolds`. The quota alone is not inductive: `WithinQuota` adds what
  the bucket could still grant to what it has granted since the mark. A grant moves a token from the
  one to the other; a tick adds as much to the bucket, at most, as to the quota.
* `ClientTypes`, `AnswersAreFromChecked`, `FailuresAreLast`, by `CallsInv`: a call that sends holds a
  contract it accepted (`Checked`), and every target it has left behind was skipped or tried out
  (`LeavesNone`). `FailuresAreLast` needs that the order of targets misses no server
  (`TargetsOfPool`), which needs `Those` to keep all that it should.
* `RefusalsAreEarned` and `RetriesAreHonest`, by `RefusalInv`: what a bucket has granted and what it
  holds make up its burst, and, for a client that was told to wait, its bucket's content plus the
  refill of the rest of the wait is worth a token, until another takes one. A tick moves from the
  second to the first. `RetrySuffices` is the arithmetic at the moment of the refusal: the wait,
  rounded and capped at 60 seconds, is enough.

Assumptions: `LimiterAssumption` (rate, burst and ticks per second are positive, as `__init__` makes
the first two) and `ClientAssumption` (a pool without targets is a
client that is not enabled; modes are the four known ones).

### The AI lane: `AiLaneProofs`

`BudgetsAreKept`, `EmptiesAreExplained` and `StatusIsHonest`. `AiInv` adds to the first two that each
lane has the parts its budget is worked out from (`LaneShape`) and that an idle one has
sent nothing, since the cap is set before the first request; `EmptiesExplained` then only needs that
`failed` grows and that each way to store an empty answer names its cause. `HonestInv` follows the
worklist: what is done, in hand and to do makes up all the work, what the gate did not enable got
nothing and sent nothing (`Gated`), and the status is still what the gate says (`GateStands`).
`CodeIsOfGate` is that the warning, which asks the gate's questions in another order, comes to the
same answer. `GapsInv` is that an empty result of a kind that looks at the page, in hand or attached,
has its own key among the failed ones: a worklist names pages of the document only, and a cached
empty answer was left by such a failure because of `EmptiesExplained`. `AiAssumption`: costs and caps are natural numbers, there is some cap.

### Retention, ingest, edge, renders, blobs and colours: `ServiceProofs`

* Retention: `ErasesAreComplete` and `DocumentsAreWhole`. `RetentionInv` follows an
  erase through its listing (`ErasesReach`): whatever it found at its start and still stands lies
  beyond the last key listed, or is among the keys collected and not yet deleted, or was refused. That
  needs `Before` to be an order of the keys (`BeforeIsOrder`). It follows a put through its three writes
  (`PutsSoFar`: what it has written stands, or the folder is torn), and says that a put and an erase of
  one document never overlap unnoticed (`OverlapTorn`, `NewTorn`).
* Ingest: `FetchesAreContained` and `SecretsLock`. `IngestInv` counts along
  (`HopByHop`): one URL visited and one address connected per hop, no URL twice, and no private address
  unless that is allowed; `Gated` keeps what the gate decided with the settings it decided from.
* Edge: `ReplaysAreTrue`. `EdgeInv` says of every frame wherever it is (filed, being written, read and
  not yet replayed, relayed and not yet filed) that it describes the document its key names, unless
  that hash was claimed for another document or a stream of it lost its first event. Both histories
  only grow (`TruthStays`); a claim is noted before the frames of its stream are filed (`Noted`).
* Renders: `RenderTypes`, `RendersMatch`, `IndexTellsTrue` and `RerenderingRelists`.
  `RenderInv` says that each cached image is the drawing its key names (`TrueRenders`), that the index
  and the list a request has read hold only what was drawn, each shot once (`TrueIndex`,
  `SoundReplicas`), and that the image a request carries is its own drawing.
  `RenderAssumption`: `None` is neither a list nor an image.
* Blobs: `BlobsAreHeld`. `BlobInv`: what is stored is the end of the sequence of all keys ever put, in
  the order of last use, the byte total is the sum of their sizes, and what was put before the
  ones stored would have gone over the limit (`Trails`). So whatever fits in the limit with all that
  was used after it is stored. Sums are differences of running totals (`BytesOfRun`).
  `BlobAssumption`: sizes are positive (an empty body is refused with 400).
* Colours: `EachNameAskedOnce`, for any documents and catalogue. `SpotInv`: a name that was never evicted nor asked
  for by two threads at once was asked at most once, is in the cache if it was, and is not in the
  cache if a thread is about to ask. `SpotAssumption`: the `lru_cache` has a slot.
* Summaries: `SummaryIsTrue`, for any documents and transforms, and whatever the other threads leave
  in the cache. `SummaryInv` follows a summary under way: its first n inks are done, each is shown
  once and as its first mention was, and a colour the document itself gives is shown as it is
  (`Progress`, with `Left` and `Through`). Where an ink comes from is `Sourced`: the inks stand in
  the order of the spaces that carry them, those of analysis last, so the first mention of an ink is
  in the first of the pages' own spaces that carries it (`FirstCarrier`). That its colour is the
  full tint is about the evaluator alone: the call it ends in is the reading of the format, as long as
  no step of that reading is on a bound
  (`LastCallIsRead`; `PieceHolds`, `EncodedMaps` for one step), and rounding and clamping give a
  share of the exact value (`ClampedShares`). `TintAssumption` and `DocAssumption` say what a
  function and a space that pikepdf could read hold: a domain from a lower to an upper end, one
  bound fewer than pieces, names. A malformed function is one of an unsupported type, for both give
  None; a space that raises is of the family "broken". Bounds need not be in order, nor `Encode`
  complete.

### Pages: `PageProofs`

* `SparseAnswersAgree`. `SparseInv` keeps the payload made so far; `FieldAgrees` compares one field
  of the two documents, whichever passes raised. `SparseAssumption` types the inputs; the table
  of passes is the code's own.
* `LayersAreObeyed` and `PlatesAreTrue`, for any documents, spaces, file order and way in which names
  contain each other, and for resources nested to any depth or in loops. `WalkInv` follows the walk: all
  it has found is used on some page (`Sound`), and for each page begun, each thing below a dictionary it
  has come to is found, or noted as lost or cut, or is still ahead of some frame on the stack (`Traced`,
  `Settled`). When the stack is empty nothing is ahead, so what was reached is a closed set and holds
  all that `Reached` does (`ReachedOn`, `FoundOnPage`). Ids left by earlier loops are none as long as
  the page's own dictionary is the first and only one with XObjects (`AloneInv`). `FilesInv`:
  Ghostscript writes the process inks. `PressAssumption` types the documents; files have distinct names,
  and "no file" is none of them.
* `HeatmapIsTrue`, for any words, rasters and page sizes, zero included. `HeatInv` follows the merging
  (`Merging`: each word read so far lies in the line it was put into); the rest is the
  arithmetic of scaling and rounding. `HeatAssumption`: words have an extent, rasters a pixel.
* `SizeIsOfInk`, for any operators, matrices, thresholds and number of pages; what it says is of
  documents whose chosen pages draw under no matrix and invoke no form, the others being where the
  code's size is not that of the ink. `DielineInv` follows the path
  under construction (`Walked`: what is drawn, sealed, and inked) and the boxes of the
  pages done (`Measured`). That the hull of the boxes is the box of the ink takes extremes of unions
  of finite sets (`ExtremesOf`, `LeastAt`). `DielineAssumption` types the inputs.

### Geometry: `GeometryProofs`

`GeometryIsTrue`, for all rectilinear paths, offsets and grids: what the endpoints answer with 200
is the area the operation names, but for a union of rectangles, which is exactly the box around
them, an intersection without clips of one or of three and more paths, which keeps within the first,
and the corners of an offset without pyclipr.
`GeomInv` says that the answer is the one computed, so that the theorem is about the functions:

* Grids: `Count` is the greatest number that fits (`CountFits`), and cells so many apart lie within
  the sheet and a gutter from each other, counted from either end (`Spread`).
* Rings: a ring of four points, or of five that ends where it began, that the code takes for a
  rectangle covers the cells of that rectangle (`RingIsRect`): a ray crosses a side of it
  once if it starts inside (`CoveredBySides`). A path with a box therefore covers that box (`Sound`).
* Booleans: each operation on two boxes covers what it does on cells, and answers with sound paths,
  so that it can be applied to its own answers. The box around the boxes is the box around all they cover
  (`AroundIsBox`), for the union of rectangles, whether or not pyclipr is there; what Clipper makes
  of an intersection without clips lies within the first path and holds what all cover
  (`IntersectOthers`).
* Lists: what the code does to one path after another, it has done to all. The loops are
  characterised by `Walk`, and a walk that went wrong would have gone wrong first at some index.
* Offsets: with pyclipr the answer is Clipper's by its joins, which is external. Without it, growing a
  box moves its sides by as much as growing its cells does, and a box shrunk
  beyond itself is empty.

`GeometryAssumption` says what is in the model: the rings are rectilinear, as in section 3.

### Lemmas

`SelectionProofs` has the lemmas several proofs need: `Those` keeps the members of the set in their
order and no others, finitely many numbers have a least and a greatest, the sequences that
`FlattenSeq` joins are all there in their order (`FlattenJoins`), and where each state gives the next
there is a sequence of any number of them (`StatesFollow`). Recursive functions
(`Those`, `FlattenSeq`, tint transforms, sums of sizes, the loops of `Geometry`) are reasoned about in two steps: a function with
such a definition exists, and all have a property, both by a minimal counterexample, from the
library's well-foundedness of the naturals, since the library's induction theorems take an operator
as parameter.

### Only model-checked

* `EveryRequestEnds` and `EveryEntryConsumed`: liveness under fairness is beyond the prover.
* The findings, which are violations: each is a state or a step TLC comes to on the instance of its run.

## 6. What is not modelled

* The composition of the sparse path, retention and the AI lane with the extract handlers: each is
  modelled alone, from the point where the handler calls it. A 500 raised by one of them is outside
  `FailuresExplained`.
* The pre-render in the background, which files its entries under a kind nobody reads, and the
  choice of a backend at start-up.
* The client's GETs (each target once), its local fallback, and the TypeScript client, which keeps
  no state.
* Float arithmetic: the rounding of the rate limiter, Lab and ICC colour, Delta E, neutral density,
  exponents other than 1 in a function of type 2, `geom/matrix.py`, `geom/units.py`, pixel blending, and the interpreter of Type 4 functions, whose
  operators are one line of arithmetic each.
* What a third-party library returns: PyMuPDF, pikepdf, Ghostscript, pyclipr, the models, S3,
  Cloudflare KV are nondeterministic or given by how the code uses them. The retries the SDK of the
  models makes by itself (`claude.py:49`) are outside: a call is charged once, however often it is sent. The extractors that copy
  what a parser says, field by field, are passes that run or raise.
* The data model, schema and parity declarations, the CLI and the vision sidecar, which have no
  state of their own.
