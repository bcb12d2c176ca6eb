------------------------------ MODULE RenderApi ------------------------------
(***************************************************************************)
(* The render endpoints of api/main.py and the renders index of            *)
(* api/renders_index.py, over the Redis cache that replicas share.         *)
(*                                                                         *)
(* A render endpoint does not await anything once it has the bytes, so a   *)
(* replica serves one render at a time; two replicas interleave at each    *)
(* call to Redis.  The index of a document is one JSON list, read, changed *)
(* and written back without a lock.                                        *)
(***************************************************************************)
EXTENDS Naturals, Sequences, SequencesExt

CONSTANTS
    Replicas, Tenants, Docs,
    Kinds,         \* endpoints: a subset of {"page", "separations", "heatmap", "layer"}
    Shots,         \* page and dpi, what the index says of a render
    Views,         \* the arguments the index leaves out: layers, overprint, ink limit
    Expiring,      \* what may expire: a subset of {"render", "index"}
    MaxFaults,     \* bound on failed Redis calls and failed renders
    MaxRequests,   \* bound on requests
    None

ASSUME RenderAssumption ==
    /\ Kinds \subseteq {"page", "separations", "heatmap", "layer"}
    /\ MaxFaults \in Nat /\ MaxRequests \in Nat
    /\ None \notin Seq(Shots) /\ None \notin [kind: Kinds, doc: Docs, args: Shots \X Views]

VARIABLES
    renders,    \* the cached images: what each key's image shows, or None
    index,      \* the renders index of each tenant and document: a list, or None
    replica,    \* what each replica is doing
    requests,   \* requests so far, for the bound
    faults,     \* failures so far, for the bound
    drawn,      \* history: what has been rendered or answered, for whom
    clean       \* history: replicas whose request no failure, expiry or other record touched

vars == <<renders, index, replica, requests, faults, drawn, clean>>

Args == Shots \X Views
RenderKeys == [kind: Kinds, tenant: Tenants, doc: Docs, args: Args]
Image == [kind: Kinds, doc: Docs, args: Args]
IndexKeys == [tenant: Tenants, doc: Docs]
Phases == {"idle", "lookup", "render", "read", "record", "done", "failed"}
Job == [pc: Phases, kind: Kinds \cup {None}, tenant: Tenants \cup {None},
        doc: Docs \cup {None}, args: Args \cup {None}, image: Image \cup {None},
        list: Seq(Shots) \cup {None}]

Idle == [pc |-> "idle", kind |-> None, tenant |-> None, doc |-> None, args |-> None,
         image |-> None, list |-> None]

Shot(args) == args[1]

\* A mutant: one kind for every endpoint.
RenderKeyOneKind(j) ==
    [kind |-> CHOOSE k \in Kinds : TRUE, tenant |-> j.tenant, doc |-> j.doc, args |-> j.args]

\* cache_key(raw, args, kind=..., tenant=...).
RenderKey(j) == [kind |-> j.kind, tenant |-> j.tenant, doc |-> j.doc, args |-> j.args]
\* A mutant: the index of a hash, whoever renders it.
IndexKeyOfHash(j) == [tenant |-> CHOOSE t \in Tenants : TRUE, doc |-> j.doc]

\* _index_key(pdf_hash, tenant).
IndexKey(j) == [tenant |-> j.tenant, doc |-> j.doc]

Drawing(j) == [kind |-> j.kind, doc |-> j.doc, args |-> j.args]

\* A failed call or render counts against MaxFaults.
Charge(fails) == faults' = faults + (IF fails THEN 1 ELSE 0) /\ faults' <= MaxFaults
Become(r, j) == replica' = [replica EXCEPT ![r] = j]
Spoil(fails, rs) == clean' = IF fails THEN clean \ rs ELSE clean

-----------------------------------------------------------------------------
Init ==
    /\ renders = [k \in RenderKeys |-> None]
    /\ index = [k \in IndexKeys |-> None]
    /\ replica = [r \in Replicas |-> Idle]
    /\ requests = 0 /\ faults = 0 /\ drawn = {} /\ clean = {}

\* A request comes in and its bytes are resolved.
Start(r) ==
    /\ replica[r].pc \in {"idle", "done", "failed"}
    /\ requests < MaxRequests /\ requests' = requests + 1
    /\ \E k \in Kinds, t \in Tenants, d \in Docs, a \in Args :
          Become(r, [Idle EXCEPT !.pc = "lookup", !.kind = k, !.tenant = t, !.doc = d, !.args = a])
    /\ clean' = clean \cup {r}
    /\ UNCHANGED <<renders, index, faults, drawn>>

\* After its image a page is recorded in the index; the other endpoints are through.
Drawn(j, image) ==
    [j EXCEPT !.image = image, !.pc = IF j.kind = "page" THEN "read" ELSE "done"]

Answered(j) == drawn' = drawn \cup {[tenant |-> j.tenant, image |-> j.image]}

\* A mutant: a hit is answered without record_render.
LookupHitReturns(r) ==
    /\ replica[r].pc = "lookup"
    /\ \E fails \in BOOLEAN :
          LET image == IF fails THEN None ELSE renders[RenderKey(replica[r])]
              next == IF image = None THEN [replica[r] EXCEPT !.pc = "render"]
                      ELSE [replica[r] EXCEPT !.image = image, !.pc = "done"]
          IN  /\ Charge(fails) /\ Spoil(fails, {r})
              /\ Become(r, next)
              /\ IF image = None THEN UNCHANGED drawn ELSE Answered(next)
    /\ UNCHANGED <<renders, index, requests>>

\* _cache.get(key): a failed call is a miss.
Lookup(r) ==
    /\ replica[r].pc = "lookup"
    /\ \E fails \in BOOLEAN :
          LET image == IF fails THEN None ELSE renders[RenderKey(replica[r])]
              next == IF image = None THEN [replica[r] EXCEPT !.pc = "render"]
                      ELSE Drawn(replica[r], image)
          IN  /\ Charge(fails) /\ Spoil(fails, {r})
              /\ Become(r, next)
              /\ IF image = None THEN UNCHANGED drawn ELSE Answered(next)
    /\ UNCHANGED <<renders, index, requests>>

\* Render, then _cache.set(key, png), which may fail unnoticed.
Render(r) ==
    /\ replica[r].pc = "render"
    /\ LET next == Drawn(replica[r], Drawing(replica[r]))
       IN  /\ \E fails \in BOOLEAN :
                 /\ Charge(fails) /\ Spoil(fails, {r})
                 /\ renders' = IF fails THEN renders
                               ELSE [renders EXCEPT ![RenderKey(next)] = next.image]
           /\ Become(r, next)
           /\ Answered(next)
    /\ UNCHANGED <<index, requests>>

\* The renderer raises: 422 or 500.
RenderRaises(r) ==
    /\ replica[r].pc = "render"
    /\ Charge(TRUE)
    /\ Become(r, [replica[r] EXCEPT !.pc = "failed"])
    /\ UNCHANGED <<renders, index, requests, drawn, clean>>

\* record_render: cache.get.  RedisCache answers a failed call with None, so the list then
\* looks absent.
ReadIndex(r) ==
    /\ replica[r].pc = "read"
    /\ \E fails \in BOOLEAN :
          /\ Charge(fails) /\ Spoil(fails, {r})
          /\ Become(r, [replica[r] EXCEPT !.pc = "record",
                            !.list = IF fails THEN None ELSE index[IndexKey(replica[r])]])
    /\ UNCHANGED <<renders, index, requests, drawn>>

\* A mutant: `entry not in entries` is forgotten.
WithEntryAgain(list, entry) == IF list = None THEN <<entry>> ELSE Append(list, entry)

\* The list to write back: with the entry, once.
WithEntry(list, entry) ==
    IF list = None THEN <<entry>>
    ELSE IF Contains(list, entry) THEN list ELSE Append(list, entry)

Recording(k) == {r \in Replicas : replica[r].pc = "record" /\ IndexKey(replica[r]) = k}
ReadingIndex(k) == {r \in Replicas : replica[r].pc \in {"record", "done"} /\ IndexKey(replica[r]) = k}

\* record_render: cache.set, which may fail unnoticed.  It spoils what the others recorded.
WriteIndex(r) ==
    /\ replica[r].pc = "record"
    /\ LET j == replica[r]
           k == IndexKey(j)
       IN  \E fails \in BOOLEAN :
              /\ Charge(fails)
              /\ index' = IF fails THEN index
                          ELSE [index EXCEPT ![k] = WithEntry(j.list, Shot(j.args))]
              /\ clean' = clean \ ((IF fails THEN {r} ELSE {}) \cup (ReadingIndex(k) \ {r}))
              /\ Become(r, [j EXCEPT !.pc = "done"])
    /\ UNCHANGED <<renders, requests, drawn>>

\* A TTL of the cache runs out.
RenderExpires(k) ==
    /\ "render" \in Expiring /\ renders[k] # None
    /\ renders' = [renders EXCEPT ![k] = None]
    /\ UNCHANGED <<index, replica, requests, faults, drawn, clean>>

IndexExpires(k) ==
    /\ "index" \in Expiring /\ index[k] # None
    /\ index' = [index EXCEPT ![k] = None]
    /\ clean' = clean \ ReadingIndex(k)
    /\ UNCHANGED <<renders, replica, requests, faults, drawn>>

Serve(r) == Lookup(r) \/ Render(r) \/ RenderRaises(r) \/ ReadIndex(r) \/ WriteIndex(r)

Next ==
    \/ \E r \in Replicas : Start(r) \/ Serve(r)
    \/ \E k \in RenderKeys : RenderExpires(k)
    \/ \E k \in IndexKeys : IndexExpires(k)

Spec == Init /\ [][Next]_vars

-----------------------------------------------------------------------------
(* Properties.                                                             *)

\* Every variable has its type; no list of the index names a render twice.
TypeOK ==
    /\ renders \in [RenderKeys -> Image \cup {None}]
    /\ DOMAIN index = IndexKeys
    /\ \A k \in IndexKeys : index[k] # None => index[k] \in Seq(Shots) /\ IsInjective(index[k])
    /\ replica \in [Replicas -> Job]
    /\ faults \in 0 .. MaxFaults /\ requests \in 0 .. MaxRequests
    /\ drawn \subseteq [tenant: Tenants, image: Image]
    /\ clean \subseteq Replicas

\* GET /v1/documents/{pdf_hash}/renders.
Listed(k) == IF index[k] = None THEN {} ELSE ToSet(index[k])

\* A render, cached or not, is of the document and with the arguments the request named
\* (render_page_endpoint and its siblings, whose keys differ in kind only).
AnswersMatch ==
    \A r \in Replicas :
        replica[r].pc \in {"read", "record", "done"} => replica[r].image = Drawing(replica[r])

\* The index lists only what was rendered for the same tenant and document, however the
\* records of the replicas interleave (record_render).
ListedWasDrawn ==
    \A k \in IndexKeys : \A s \in Listed(k) :
        \E a \in Args : /\ Shot(a) = s
                        /\ [tenant |-> k.tenant,
                            image |-> [kind |-> "page", doc |-> k.doc, args |-> a]] \in drawn

\* Rendering again brings an entry back ("consumers should refresh the index by
\* re-rendering"): it is listed once the request is through, unless a call failed, the index
\* expired, or another replica recorded a render of the same document meanwhile.
RerenderRelists ==
    \A r \in clean :
        replica[r].pc = "done" /\ replica[r].kind = "page" =>
            Shot(replica[r].args) \in Listed(IndexKey(replica[r]))

\* The endpoint's description: "List tuples that are already in the render cache ... so
\* consumers can skip re-requests".
ListedIsCached ==
    \A k \in IndexKeys : \A s \in Listed(k) :
        \E a \in Args : /\ Shot(a) = s
                        /\ renders[[kind |-> "page", tenant |-> k.tenant,
                                    doc |-> k.doc, args |-> a]] # None
=============================================================================
