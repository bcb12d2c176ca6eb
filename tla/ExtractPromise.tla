--------------------------- MODULE ExtractPromise ---------------------------
(***************************************************************************)
(* What the extract and probe endpoints promise a caller, with no cache,   *)
(* blob store, stream or speculator in sight: every event of an answer     *)
(* describes exactly the bytes the caller's own tenant has sent, is of a   *)
(* kind its operation announces, comes once and in the announced order,    *)
(* and misses only results of passes that did raise on those bytes; and an *)
(* answer that ends well left out no event but for an extractor that       *)
(* raised on them.                                                         *)
(***************************************************************************)
EXTENDS Naturals, Sequences

CONSTANTS Requests, Tenants, Shas, Docs, Passes, PikepdfPasses, None
CONSTANT ShaOf(_)

VARIABLES
    asked,    \* Requests -> [op, tenant, sha] or None
    events,   \* Requests -> the events delivered so far
    status,   \* Requests -> None while open, then how it ended
    sent,     \* <<tenant, sha>> pairs whose bytes the tenant has sent
    failed,   \* Docs -> passes that have raised on the document
    broken    \* documents a whole extractor has raised on

vars == <<asked, events, status, sent, failed, broken>>

\* The kinds an operation announces, by their place in the answer.
Announced ==
    [op \in {"extract", "stream", "granular", "probe"} |->
        CASE op = "extract"  -> <<{"extract"}>>
          [] op = "stream"   -> <<{"extract-phase-1"}, {"extract"}>>
          [] op = "granular" -> <<{"extract-phase-1-min"}, PikepdfPasses, {"extract"}>>
          [] op = "probe"    -> <<{"probe-min"}, {"probe-std"}>>]

Place(op, kind) ==
    CHOOSE i \in DOMAIN Announced[op] : kind \in Announced[op][i]

InOrder(op, earlier, kind) ==
    \A i \in DOMAIN earlier :
        /\ earlier[i].kind # kind
        /\ Place(op, earlier[i].kind) <= Place(op, kind)

\* The results a complete answer of a kind carries.
Complete(kind) ==
    CASE kind = "extract" -> Passes
      [] kind = "extract-phase-1" -> Passes \ {"analysis"}
      [] kind \in PikepdfPasses -> {kind}
      [] OTHER -> {"fitz"}

\* An event this request may be given now.
Right(q, earlier, e) ==
    /\ \E i \in DOMAIN Announced[q.op] : e.kind \in Announced[q.op][i]
    /\ InOrder(q.op, earlier, e.kind)
    /\ ShaOf(e.doc) = q.sha
    /\ <<q.tenant, q.sha>> \in sent
    /\ e.got \subseteq Complete(e.kind)
    /\ Complete(e.kind) \ e.got \subseteq failed'[e.doc]

\* One more event, and a right one.
Answers(r) ==
    /\ events'[r] # <<>>
    /\ LET e == events'[r][Len(events'[r])]
       IN  /\ e.doc \in Docs
           /\ Right(asked[r], events[r], e)
           /\ events' = [events EXCEPT ![r] = Append(@, e)]

\* Of what was announced nothing is missing but what an extractor that raised on these
\* very bytes left out; the result of a pass is never left out.
NothingLost(r) ==
    \A i \in DOMAIN Announced[asked[r].op] : \A kind \in Announced[asked[r].op][i] :
        \/ \E j \in DOMAIN events'[r] : events'[r][j].kind = kind
        \/ kind \notin PikepdfPasses /\ \E d \in broken' : ShaOf(d) = asked[r].sha

Open(r) == asked[r] # None /\ status[r] = None

Init ==
    /\ asked = [r \in Requests |-> None]
    /\ events = [r \in Requests |-> <<>>]
    /\ status = [r \in Requests |-> None]
    /\ sent = {}
    /\ failed = [d \in Docs |-> {}]
    /\ broken = {}

Ask(r) ==
    /\ asked[r] = None
    /\ \E op \in DOMAIN Announced, t \in Tenants, s \in Shas :
          /\ asked' = [asked EXCEPT ![r] = [op |-> op, tenant |-> t, sha |-> s]]
          /\ \/ sent' = sent \cup {<<t, s>>}
             \/ op = "probe" /\ UNCHANGED sent
    /\ UNCHANGED <<events, status, failed, broken>>

\* Passes may raise on a document at any time, for whoever runs them.
MoreFailures ==
    /\ failed' \in [Docs -> SUBSET Passes]
    /\ \A d \in Docs : failed[d] \subseteq failed'[d]

PassesRaise ==
    /\ MoreFailures
    /\ UNCHANGED <<asked, events, status, sent, broken>>

ExtractorRaises ==
    /\ \E d \in Docs : broken' = broken \cup {d}
    /\ UNCHANGED <<asked, events, status, sent, failed>>

\* A streamed event; its own pass may raise in the same step.
Deliver(r) ==
    /\ Open(r) /\ asked[r].op # "extract"
    /\ MoreFailures
    /\ Answers(r)
    /\ \/ UNCHANGED status
       \/ /\ asked[r].op # "probe" /\ status' = [status EXCEPT ![r] = "200"]
          /\ NothingLost(r)
    /\ UNCHANGED <<asked, sent, broken>>

\* /v1/extract: one event and the end of the request.
Reply(r) ==
    /\ Open(r) /\ asked[r].op = "extract"
    /\ Answers(r)
    /\ status' = [status EXCEPT ![r] = "200"]
    /\ UNCHANGED <<asked, sent, failed, broken>>

\* A stream that ends with 200 has left nothing else out.
End(r) ==
    /\ Open(r) /\ asked[r].op # "extract"
    /\ <<asked[r].tenant, asked[r].sha>> \in sent
    /\ status' = [status EXCEPT ![r] = "200"]
    /\ \/ UNCHANGED broken
       \/ \E d \in Docs : broken' = broken \cup {d}
    /\ UNCHANGED <<asked, events, sent, failed>>
    /\ NothingLost(r)

\* 412 only to a request that named a hash (the blob may be missing), 500 only after
\* the extractor itself raised on the bytes.
Refuse(r) ==
    /\ Open(r) /\ events[r] = <<>>
    /\ \/ /\ asked[r].op = "probe"
          /\ status' = [status EXCEPT ![r] = "412"]
          /\ UNCHANGED broken
       \/ /\ asked[r].op = "extract"
          /\ \E d \in Docs : ShaOf(d) = asked[r].sha /\ broken' = broken \cup {d}
          /\ status' = [status EXCEPT ![r] = "500"]
    /\ UNCHANGED <<asked, events, sent, failed>>

\* The process behind the request dies, or the caller hangs up.
Break(r) ==
    /\ Open(r)
    /\ status' = [status EXCEPT ![r] = "aborted"]
    /\ UNCHANGED <<asked, events, sent, failed, broken>>

Next ==
    \/ \E r \in Requests :
          Ask(r) \/ Deliver(r) \/ Reply(r) \/ End(r) \/ Refuse(r) \/ Break(r)
    \/ PassesRaise \/ ExtractorRaises

Spec == Init /\ [][Next]_vars
=============================================================================
