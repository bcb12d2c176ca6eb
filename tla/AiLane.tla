------------------------------- MODULE AiLane -------------------------------
(***************************************************************************)
(* The AI signal lane: the gate of a request, the budget of a request, the *)
(* cache its signals share, and the dispatch of one signal after another.  *)
(* A request is a POST /v1/extract, whose lane works through the document, *)
(* or a GET .../signals/{kind}, which wants one signal.  Requests of many  *)
(* threads and replicas interleave; the steps are those between which the  *)
(* cache can change.                                                       *)
(*                                                                         *)
(* No page of a CodexDocument carries its text (CodexPage has no such      *)
(* field and no extractor fills analysis["text"]), so the text kinds never *)
(* reach a model: TextOf is empty and they answer nothing, free of charge. *)
(***************************************************************************)
EXTENDS Integers, Sequences, Selections, FiniteSets

CONSTANTS AiRequests,    \* the requests
          AiTenants,     \* tenant slugs
          PageCount,     \* pages of the document
          VisionCost,    \* projected cost of a vision call, by kind
          Caps,          \* the cost caps a deployment may set
          AskedKinds,    \* what sparse requests may ask for: sets of kinds
          MaxAiFaults    \* bound on failures of renders, decoders and models,
                         \* and on expiries

PageKinds == <<"language", "barcodes", "symbols", "logos", "spell", "trap_zones">>
TextKinds == {"language", "spell", "classification"}
VisionKinds == {"symbols", "logos", "trap_zones"}
Kinds == {PageKinds[i] : i \in DOMAIN PageKinds} \union {"classification"}
SignalKinds == Kinds \ {"trap_zones"}
NoPage == 0 - 1

ASSUME AiAssumption == /\ PageCount \in Nat
                       /\ VisionCost \in [VisionKinds -> Nat \ {0}]
                       /\ Caps \subseteq Nat \ {0} /\ Caps # {}
                       /\ AskedKinds \subseteq SUBSET Kinds
                       /\ MaxAiFaults \in Nat

VARIABLES deployment,  \* operator switch, tenant lists, credentials, cap
          signals,     \* the signal cache: entries by key
          lane,        \* the requests
          aiFaults,    \* failures and expiries so far
          failed       \* history: keys some failure left without a result

aiVars == <<deployment, signals, lane, aiFaults, failed>>

Deployments == [on : BOOLEAN, allow : {{}} \union {{t} : t \in AiTenants},
                deny : {{}} \union {{t} : t \in AiTenants},
                credentials : BOOLEAN, cap : Caps]
SignalKey(t, k, p) == [tenant |-> t, kind |-> k, page |-> p]
Keys == [tenant : AiTenants, kind : Kinds, page : (0 .. PageCount) \union {NoPage}]

(* What an entry or an answer holds: nothing at all, JSON null, an empty   *)
(* list or mapping, or what the page of its key shows.                     *)
Data == {"none", "null", "empty", "found"}
EmptyForKind(k) == IF k = "language" THEN "null" ELSE "empty"

Idle == [pc |-> "idle", endpoint |-> "extract", tenant |-> CHOOSE t \in AiTenants : TRUE,
         skip |-> FALSE, status |-> "disabled", todo |-> <<>>, spent |-> 0,
         sent |-> 0, got |-> {}, warned |-> {}, code |-> "none", wanted |-> {}]

AiInit == /\ deployment = [on |-> FALSE, allow |-> {}, deny |-> {},
                           credentials |-> FALSE, cap |-> CHOOSE c \in Caps : TRUE]
          /\ signals = [k \in {} |-> "none"]
          /\ lane = [r \in AiRequests |-> Idle]
          /\ aiFaults = 0
          /\ failed = {}

(* The operator starts the service with some environment, before it serves. *)
Deploy == /\ \A r \in AiRequests : lane[r].pc = "idle"
          /\ ~deployment.on
          /\ deployment' \in Deployments
          /\ UNCHANGED <<signals, lane, aiFaults, failed>>

(* A mutant: an allow list does not shut out those it leaves out.          *)
EntitledUnlessDenied(t) == t \notin deployment.deny

(* The gate, decided once per request: an allow list overrides a deny list. *)
Entitled(t) == IF deployment.allow # {} THEN t \in deployment.allow
                                        ELSE t \notin deployment.deny
BuildContext(t, skip) ==
  CASE ~deployment.on -> "disabled"
    [] deployment.on /\ skip -> "skipped"
    [] deployment.on /\ ~skip /\ ~Entitled(t) -> "tenant_excluded"
    [] deployment.on /\ ~skip /\ Entitled(t) /\ ~deployment.credentials
         -> "missing_credentials"
    [] OTHER -> "enabled"

(* The lane's order: the document first, then page by page the kinds asked *)
(* for, each in its place among the kinds of a page.                       *)
PageJobs == LET n == Len(PageKinds)
            IN  [i \in 1 .. n * PageCount |-> <<PageKinds[((i - 1) % n) + 1], (i - 1) \div n>>]
Worklist(asked) ==
  LET doc == IF "classification" \in asked THEN <<<<"classification", NoPage>>>> ELSE <<>>
  IN  doc \o Those(PageJobs, asked \X (0 .. PageCount - 1))

(* POST /v1/extract: the lane runs when the gate is open and, on the       *)
(* sparse path, when an AI field was asked for.                            *)
StartExtract(r, t, skip, asked) ==
  /\ lane[r].pc = "idle"
  /\ LET status == BuildContext(t, skip)
         todo == IF status = "enabled" THEN Worklist(asked) ELSE <<>>
     IN  lane' = [lane EXCEPT ![r] = [Idle EXCEPT
           !.pc = IF todo = <<>> THEN "annotate" ELSE "lookup",
           !.endpoint = "extract", !.tenant = t, !.skip = skip, !.status = status,
           !.todo = todo, !.wanted = {todo[i] : i \in DOMAIN todo}]]
  /\ UNCHANGED <<deployment, signals, aiFaults, failed>>

(* GET .../signals/{kind}?page_index=p: no bound on the page is checked.   *)
StartSignal(r, t, skip, k, p) ==
  /\ lane[r].pc = "idle"
  /\ LET job == <<k, IF k = "classification" THEN NoPage ELSE p>>
     IN  lane' = [lane EXCEPT ![r] = [Idle EXCEPT
           !.pc = "lookup", !.endpoint = "signal", !.tenant = t, !.skip = skip,
           !.status = BuildContext(t, skip), !.todo = <<job>>, !.wanted = {job},
           !.code = CASE ~deployment.on -> "disabled"
                      [] deployment.on /\ skip -> "skipped"
                      [] OTHER -> "enabled"]]
  /\ UNCHANGED <<deployment, signals, aiFaults, failed>>

Job(r) == Head(lane[r].todo)
JobKey(r) == SignalKey(lane[r].tenant, Job(r)[1], Job(r)[2])

(* A null is read back as a miss, so a language is never a hit.            *)
GetCached(key) == IF key \in DOMAIN signals /\ signals[key] # "null"
                  THEN signals[key] ELSE "none"
SetCached(key, data) == [k \in DOMAIN signals \union {key} |->
                           IF k = key THEN data ELSE signals[k]]

(* One signal is answered and its value, if any, attached to its page.     *)
After(q) == CASE Len(q.todo) > 1 -> "lookup"
              [] Len(q.todo) <= 1 /\ q.endpoint = "extract" -> "annotate"
              [] OTHER -> "done"
Attached(q, data) == [q EXCEPT !.pc = After(q), !.todo = Tail(q.todo),
                               !.got = q.got \union {<<Head(q.todo), data>>}]

(* The cache is asked before the gate: a closed gate still answers a hit.  *)
Lookup(r) ==
  /\ lane[r].pc = "lookup"
  /\ LET q == lane[r]
         data == GetCached(JobKey(r))
     IN  lane' = [lane EXCEPT ![r] =
           CASE data # "none" -> Attached(q, data)
             [] data = "none" /\ q.status # "enabled"
                  -> Attached(q, EmptyForKind(Job(r)[1]))
             [] OTHER -> [q EXCEPT !.pc = "dispatch"]]
  /\ UNCHANGED <<deployment, signals, aiFaults, failed>>

TextOf(page) == ""
PagePng(p) == p \in 0 .. PageCount - 1      \* a raster unless the page is missing

(* A mutant: each call is held against the cap by itself.                  *)
AdmitsEach(q, k) == VisionCost[k] <= deployment.cap

(* A call is admitted when its projected cost still fits under the cap.    *)
Admits(q, k) == q.spent + VisionCost[k] <= deployment.cap

Stored(r, data) == /\ signals' = SetCached(JobKey(r), data)
                   /\ lane' = [lane EXCEPT ![r] = Attached(lane[r], data)]

(* The text kinds have no text to send.                                    *)
NoText(r) == /\ TextOf(Job(r)[2]) = ""
             /\ Stored(r, EmptyForKind(Job(r)[1]))
             /\ UNCHANGED <<aiFaults, failed>>
ExtractLanguage(r) == Job(r)[1] = "language" /\ NoText(r)
ExtractSpell(r) == Job(r)[1] = "spell" /\ NoText(r)
ExtractClassification(r) == Job(r)[1] = "classification" /\ NoText(r)

(* Without a raster there is nothing to decode or to look at, and no call. *)
NoRaster(r, broken) ==
  /\ Job(r)[1] \notin TextKinds
  /\ PagePng(Job(r)[2]) = broken
  /\ Stored(r, "empty")
  /\ IF broken THEN /\ aiFaults < MaxAiFaults
                    /\ aiFaults' = aiFaults + 1
                    /\ failed' = failed \union {JobKey(r)}
               ELSE UNCHANGED <<aiFaults, failed>>

(* The decoders see the raster, or each of them fails and finds nothing.   *)
ExtractBarcodes(r, works) ==
  /\ Job(r)[1] = "barcodes"
  /\ PagePng(Job(r)[2])
  /\ Stored(r, IF works THEN "found" ELSE "empty")
  /\ IF works THEN UNCHANGED <<aiFaults, failed>>
              ELSE /\ aiFaults < MaxAiFaults
                   /\ aiFaults' = aiFaults + 1
                   /\ failed' = failed \union {JobKey(r)}

(* A vision call is charged when admitted, whatever becomes of it; a call  *)
(* that fails or answers no JSON yields an empty result, stored like any.  *)
CallVision(r, works) ==
  /\ PagePng(Job(r)[2])
  /\ Admits(lane[r], Job(r)[1])
  /\ LET data == IF works THEN "found" ELSE "empty"
         cost == VisionCost[Job(r)[1]]
     IN  /\ signals' = SetCached(JobKey(r), data)
         /\ lane' = [lane EXCEPT ![r] = [Attached(lane[r], data) EXCEPT
                       !.spent = lane[r].spent + cost, !.sent = lane[r].sent + cost]]
  /\ IF works THEN UNCHANGED <<aiFaults, failed>>
              ELSE /\ aiFaults < MaxAiFaults
                   /\ aiFaults' = aiFaults + 1
                   /\ failed' = failed \union {JobKey(r)}

ExtractLogos(r, works) == Job(r)[1] = "logos" /\ CallVision(r, works)
ExtractSymbols(r, works) == Job(r)[1] = "symbols" /\ CallVision(r, works)
ExtractTrapZones(r, works) == Job(r)[1] = "trap_zones" /\ CallVision(r, works)

(* A mutant: the refused kind is stored as empty.                          *)
RefuseStoring(r) ==
  /\ Job(r)[1] \in VisionKinds
  /\ PagePng(Job(r)[2])
  /\ ~Admits(lane[r], Job(r)[1])
  /\ Stored(r, "empty")
  /\ UNCHANGED <<aiFaults, failed>>
(* Over the cap: nothing is stored, and the extract's lane ends here.      *)
Refuse(r) ==
  /\ Job(r)[1] \in VisionKinds
  /\ PagePng(Job(r)[2])
  /\ ~Admits(lane[r], Job(r)[1])
  /\ lane' = [lane EXCEPT ![r] = [lane[r] EXCEPT
       !.pc = IF lane[r].endpoint = "extract" THEN "annotate" ELSE "done",
       !.todo = <<>>, !.warned = lane[r].warned \union {Job(r)[1]}]]
  /\ UNCHANGED <<signals, aiFaults, failed>>

Dispatch(r) ==
  /\ lane[r].pc = "dispatch"
  /\ \/ ExtractLanguage(r) \/ ExtractSpell(r) \/ ExtractClassification(r)
     \/ \E broken \in BOOLEAN : NoRaster(r, broken)
     \/ \E works \in BOOLEAN : \/ ExtractBarcodes(r, works)
                              \/ ExtractLogos(r, works)
                              \/ ExtractSymbols(r, works)
                              \/ ExtractTrapZones(r, works)
     \/ Refuse(r)
  /\ UNCHANGED deployment

(* The status warning is worked out anew from the environment.             *)
TenantExcluded(t) == IF deployment.allow # {} THEN t \notin deployment.allow
                                              ELSE t \in deployment.deny
StatusCode(q) ==
  CASE ~deployment.on -> "ai_disabled"
    [] deployment.on /\ TenantExcluded(q.tenant) -> "ai_tenant_excluded"
    [] deployment.on /\ ~TenantExcluded(q.tenant) /\ q.skip -> "ai_skipped"
    [] deployment.on /\ ~TenantExcluded(q.tenant) /\ ~q.skip /\ q.status # "enabled"
         -> "ai_missing_credentials"
    [] OTHER -> "ai_tier"

Annotate(r) ==
  /\ lane[r].pc = "annotate"
  /\ lane' = [lane EXCEPT ![r] = [lane[r] EXCEPT !.pc = "done", !.code = StatusCode(lane[r])]]
  /\ UNCHANGED <<deployment, signals, aiFaults, failed>>

(* Redis drops an entry a week after it was set, or earlier.               *)
SignalExpires(key) ==
  /\ aiFaults < MaxAiFaults
  /\ aiFaults' = aiFaults + 1
  /\ signals' = [k \in DOMAIN signals \ {key} |-> signals[k]]
  /\ UNCHANGED <<deployment, lane, failed>>

AiNext ==
  \/ Deploy
  \/ \E r \in AiRequests, t \in AiTenants, skip \in BOOLEAN :
       \/ \E asked \in AskedKinds : StartExtract(r, t, skip, asked)
       \/ \E k \in SignalKinds, p \in 0 .. PageCount : StartSignal(r, t, skip, k, p)
  \/ \E r \in AiRequests : Lookup(r) \/ Dispatch(r) \/ Annotate(r)
  \/ \E key \in DOMAIN signals : SignalExpires(key)

AiSpec == AiInit /\ [][AiNext]_aiVars

(***************************************************************************)
(* Properties.                                                             *)
(***************************************************************************)

(* docs/slos.md promises a hard cap per request: what was sent to models   *)
(* never costs more than the cap, and is what the request reports spent.   *)
BudgetKept == \A r \in AiRequests : /\ lane[r].sent <= deployment.cap
                                    /\ lane[r].spent = lane[r].sent

(* The cache never serves a gap for a result: an empty entry of a kind     *)
(* that looks at the page was left by a failure on that very key, or the   *)
(* page does not exist.  Neither a closed gate nor an exhausted budget may *)
(* leave one, or every later request would be answered by it.              *)
EmptiesExplained ==
  \A k \in DOMAIN signals :
    k.kind \notin TextKinds /\ signals[k] # "found"
      => k \in failed \/ k.page \notin 0 .. PageCount - 1

(* The gate is worked out twice, by build_context and for the status       *)
(* warning, with the tests in another order.  They agree: the code ai_tier *)
(* means that the gate was open, and a request with another code has spent *)
(* nothing and carries nothing.  Each signal a request wanted is attached  *)
(* to its page, or a single warning names the kind the budget refused, and *)
(* none is given for a lane that went through.  What is attached empty,    *)
(* where the kind looks at the page, has a failure on its own key behind   *)
(* it: no gap of another tenant, kind or page is taken for this one's.     *)
(* Nothing is said of whether anything was asked: a request for no AI      *)
(* field skips the lane and is given ai_tier all the same; nor does an     *)
(* empty result of a failed call come with a warning.                      *)
StatusHonest ==
  \A r \in AiRequests :
    lane[r].pc = "done" /\ lane[r].endpoint = "extract" =>
      /\ lane[r].code = "ai_tier" <=> lane[r].status = "enabled"
      /\ lane[r].code # "ai_tier" => lane[r].sent = 0 /\ lane[r].got = {}
      /\ {g[1] : g \in lane[r].got} # lane[r].wanted <=> lane[r].warned # {}
      /\ Cardinality(lane[r].warned) <= 1
      /\ \A g \in lane[r].got :
           g[1][1] \notin TextKinds /\ g[2] # "found"
             => SignalKey(lane[r].tenant, g[1][1], g[1][2]) \in failed
=============================================================================
