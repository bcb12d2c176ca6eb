-------------------------------- MODULE Edge --------------------------------
(***************************************************************************)
(* codex-edge: the Cloudflare worker in front of the API.  It answers a    *)
(* hash-keyed POST /v1/probe or /v1/extract/stream from its KV namespace,  *)
(* or relays the origin's event stream and files its frames on the way.    *)
(* The origin is seen from outside: what of a body it accepts, and that an *)
(* exception takes one of the two results out of a stream.                 *)
(***************************************************************************)
EXTENDS Integers, Sequences

CONSTANTS EdgeRequests, EdgeDocs, EdgeTenants,
          EdgeBodies,     \* the bodies clients send
          MaxHandled,     \* bound on the requests handled
          MaxEdgeFaults   \* bound on dropped events, lost or failing KV calls,
                          \* expiries and cancelled clients

(* Bodies: an upload, a hash, a hash beside a URL and the document it      *)
(* serves, or JSON that does not parse.                                    *)
Nothing == "nothing"
Bodies == [json : BOOLEAN, sha : EdgeDocs \union {Nothing}, doc : EdgeDocs \union {Nothing}]

ASSUME EdgeAssumption ==
  /\ MaxHandled \in Nat /\ MaxEdgeFaults \in Nat
  /\ EdgeBodies \subseteq {b \in Bodies : b.json \/ b.sha = Nothing}

VARIABLES kv,         \* the namespace: [kind, sha] -> a payload
          writes,     \* puts under way, kept alive by ctx.waitUntil
          edge,       \* the requests
          handled,    \* requests so far
          held,       \* the origin's blob store: <<tenant, sha>>
          edgeFaults, \* faults so far
          dropped,    \* history: documents of which a stream lost its first event
          claimed     \* history: hashes sent with the URL of another document

edgeVars == <<kv, writes, edge, handled, held, edgeFaults, dropped, claimed>>

(* The kinds an endpoint replays and files, in the order of their events.  *)
KindsOf(endpoint) == CASE endpoint = "probe" -> <<"probe-min", "probe-std">>
                       [] endpoint = "two-phase" -> <<"extract-phase-1", "extract">>
                       [] endpoint = "granular" -> <<"extract-phase-1-min", "extract">>

(* A mutant: the key forgets the kind.                                     *)
CacheKeyOfHash(sha, kind) == [sha |-> sha, kind |-> "any"]

(* cacheKey has neither the tenant nor anything of the body but the hash.  *)
CacheKey(sha, kind) == [sha |-> sha, kind |-> kind]

Payload(doc, kind) == [doc |-> doc, kind |-> kind]

(* A worker that has answered without a hit, or not at all, takes another. *)
Done == [pc |-> "done", cache |-> "miss"]

EdgeInit == /\ kv = [k \in {} |-> Nothing]
            /\ writes = {}
            /\ edge = [r \in EdgeRequests |-> Done]
            /\ handled = 0
            /\ held = {}
            /\ edgeFaults = 0
            /\ dropped = {}
            /\ claimed = {}

EdgeFault == edgeFaults < MaxEdgeFaults /\ edgeFaults' = edgeFaults + 1

(* Only JSON with a hash is looked up.                                     *)
Handle(r, endpoint, tenant, body) ==
  /\ edge[r].pc = "done"
  /\ handled < MaxHandled
  /\ handled' = handled + 1
  /\ edge' = [edge EXCEPT ![r] = [pc |-> IF body.sha = Nothing THEN "proxy" ELSE "get",
                                  endpoint |-> endpoint, tenant |-> tenant, body |-> body,
                                  replay |-> <<>>, frames |-> <<>>, index |-> 0]]
  /\ claimed' = IF body.sha # Nothing /\ body.doc \notin {Nothing, body.sha}
                THEN claimed \union {body.sha} ELSE claimed
  /\ UNCHANGED <<kv, writes, held, edgeFaults, dropped>>

HandleProbe(r, tenant, body) == Handle(r, "probe", tenant, body)
HandleExtractStream(r, granular, tenant, body) ==
  Handle(r, IF granular THEN "granular" ELSE "two-phase", tenant, body)

(* tryReplay: one of the two KV reads, which may not see the same moment.  *)
(* Both found is a hit.                                                    *)
TryReplay(r) ==
  /\ edge[r].pc = "get"
  /\ LET kinds == KindsOf(edge[r].endpoint)
         i == Len(edge[r].replay) + 1
         key == CacheKey(edge[r].body.sha, kinds[i])
     IN  edge' = [edge EXCEPT ![r] =
           IF key \notin DOMAIN kv THEN [@ EXCEPT !.pc = "proxy", !.replay = <<>>]
           ELSE IF i = 1 THEN [@ EXCEPT !.replay = <<kv[key]>>]
           ELSE [pc |-> "done", cache |-> "hit", endpoint |-> edge[r].endpoint,
                 sha |-> edge[r].body.sha, sent |-> Append(edge[r].replay, kv[key])]]
  /\ UNCHANGED <<kv, writes, held, edgeFaults, dropped, claimed, handled>>

(* A read that rejects is caught nowhere: the worker throws.               *)
GetRejects(r) ==
  /\ edge[r].pc = "get"
  /\ EdgeFault
  /\ edge' = [edge EXCEPT ![r] = Done]
  /\ UNCHANGED <<kv, writes, held, dropped, claimed, handled>>

(* The document the origin reads from a body, if it accepts the body: an   *)
(* upload, for a probe a hash it holds, for an extract a URL.              *)
OriginReads(endpoint, tenant, body) ==
  CASE ~body.json -> body.doc
    [] body.json /\ endpoint = "probe" ->
         IF <<tenant, body.sha>> \in held THEN body.sha ELSE Nothing
    [] body.json /\ endpoint # "probe" -> body.doc

(* The origin's stream of two results, of which exceptions may take some;  *)
(* in a granular stream the passes' own events come between the two.       *)
Pass == "pass"
Stream(endpoint, doc, first, second) ==
  LET kinds == KindsOf(endpoint)
  IN  (IF first THEN <<Payload(doc, kinds[1])>> ELSE <<>>)
        \o (IF endpoint = "granular" THEN <<Payload(doc, Pass)>> ELSE <<>>)
        \o (IF second THEN <<Payload(doc, kinds[2])>> ELSE <<>>)

(* proxy: an error answer, or one to a body without a hash, passes through; *)
(* else the stream is relayed with a reader of its frames attached.        *)
Proxy(r, first, second) ==
  /\ edge[r].pc = "proxy"
  /\ LET q == edge[r]
         doc == OriginReads(q.endpoint, q.tenant, q.body)
         frames == IF doc = Nothing THEN <<>> ELSE Stream(q.endpoint, doc, first, second)
     IN  /\ doc = Nothing => first /\ second
         /\ IF first /\ second THEN UNCHANGED edgeFaults ELSE EdgeFault
         /\ held' = IF doc = Nothing THEN held ELSE held \union {<<q.tenant, doc>>}
         /\ dropped' = IF first \/ q.endpoint = "granular" THEN dropped ELSE dropped \union {doc}
         /\ edge' = [edge EXCEPT ![r] =
              IF doc = Nothing \/ q.body.sha = Nothing
              THEN Done
              ELSE [q EXCEPT !.pc = "relay", !.frames = frames]]
  /\ UNCHANGED <<kv, writes, claimed, handled>>

(* The key a frame is filed under: by its event's name in a granular       *)
(* stream, by its position in the others.                                  *)
OrderedProbeCache(q) == {KindsOf("probe")[i] : i \in {q.index + 1} \intersect {1, 2}}
CaptureExtractStream(q, frame) ==
  LET kinds == KindsOf(q.endpoint)
  IN  IF q.endpoint = "granular" THEN {k \in {kinds[1], kinds[2]} : frame.kind = k}
      ELSE {kinds[i] : i \in {q.index + 1} \intersect {1, 2}}
Target(q, frame) == IF q.endpoint = "probe" THEN OrderedProbeCache(q)
                                            ELSE CaptureExtractStream(q, frame)

(* One frame reaches the client, and a put of it is started.               *)
Relay(r) ==
  /\ edge[r].pc = "relay"
  /\ edge[r].frames # <<>>
  /\ LET q == edge[r]
         frame == Head(q.frames)
     IN  /\ writes' = writes \union {<<CacheKey(q.body.sha, k), frame>> : k \in Target(q, frame)}
         /\ edge' = [edge EXCEPT ![r] = [q EXCEPT !.frames = Tail(@), !.index = @ + 1]]
  /\ UNCHANGED <<kv, held, edgeFaults, dropped, claimed, handled>>

Close(r) == /\ edge[r].pc = "relay"
            /\ edge[r].frames = <<>>
            /\ edge' = [edge EXCEPT ![r] = Done]
            /\ UNCHANGED <<kv, writes, held, edgeFaults, dropped, claimed, handled>>

(* The client goes away: the rest of the stream is neither read nor filed. *)
Cancel(r) == /\ edge[r].pc = "relay"
             /\ edge[r].frames # <<>>
             /\ EdgeFault
             /\ edge' = [edge EXCEPT ![r] = Done]
             /\ UNCHANGED <<kv, writes, held, dropped, claimed, handled>>

(* Puts land in any order, each at its time, or fail and are forgotten.    *)
PutLands(w) == /\ writes' = writes \ {w}
               /\ kv' = [k \in DOMAIN kv \union {w[1]} |-> IF k = w[1] THEN w[2] ELSE kv[k]]
               /\ UNCHANGED <<edge, held, edgeFaults, dropped, claimed, handled>>
PutRejects(w) == /\ EdgeFault
                 /\ writes' = writes \ {w}
                 /\ UNCHANGED <<kv, edge, held, dropped, claimed, handled>>

(* An entry, or a blob of the origin, reaches the end of its time.         *)
KvExpires(key) == /\ EdgeFault
                  /\ kv' = [k \in DOMAIN kv \ {key} |-> kv[k]]
                  /\ UNCHANGED <<writes, edge, held, dropped, claimed, handled>>
BlobExpires(b) == /\ EdgeFault
                  /\ held' = held \ {b}
                  /\ UNCHANGED <<kv, writes, edge, dropped, claimed, handled>>

EdgeNext ==
  \/ \E r \in EdgeRequests, t \in EdgeTenants, b \in EdgeBodies :
       \/ HandleProbe(r, t, b)
       \/ \E granular \in BOOLEAN : HandleExtractStream(r, granular, t, b)
  \/ \E r \in EdgeRequests : TryReplay(r) \/ GetRejects(r) \/ Relay(r) \/ Close(r) \/ Cancel(r)
  \/ \E r \in EdgeRequests, first, second \in BOOLEAN : Proxy(r, first, second)
  \/ \E w \in writes : PutLands(w) \/ PutRejects(w)
  \/ \E key \in DOMAIN kv : KvExpires(key)
  \/ \E b \in held : BlobExpires(b)

EdgeSpec == EdgeInit /\ [][EdgeNext]_edgeVars

(***************************************************************************)
(* Properties.                                                             *)
(***************************************************************************)

(* What a client is replayed describes the document it named, and carries  *)
(* the kinds of result the endpoint streams, in their order; except that a *)
(* body that named one document and linked another mislabels it for        *)
(* everyone after, and that a stream the origin began late has its second  *)
(* result replayed as the first.  The granular stream is filed by name and *)
(* no fault puts a wrong kind into its replay; and the second event is     *)
(* never anything but the second.                                          *)
ReplayTrue ==
  \A r \in EdgeRequests :
    edge[r].pc = "done" /\ edge[r].cache = "hit" =>
      LET q == edge[r]
          sent == q.sent
          kinds == KindsOf(q.endpoint)
      IN  /\ \A i \in {1, 2} : sent[i].doc = q.sha \/ q.sha \in claimed
          /\ sent[2].kind = kinds[2]
          /\ \/ sent[1].kind = kinds[1]
             \/ /\ sent[1].kind = kinds[2]
                /\ q.endpoint # "granular"
                /\ q.sha \in dropped \union claimed
=============================================================================
