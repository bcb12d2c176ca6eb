----------------------------- MODULE AiLaneProofs -----------------------------
(***************************************************************************)
(* Theorems about AiLane, for any number of requests, tenants and pages,   *)
(* any costs and caps, whatever the requests ask for, and any number of    *)
(* failures.                                                               *)
(***************************************************************************)
EXTENDS AiLane, SelectionProofs, TLAPS

\* The lane of a request has the parts its budget is worked out from.
LaneShape == /\ DOMAIN lane = AiRequests
             /\ \A r \in AiRequests :
                  {"pc", "endpoint", "tenant", "skip", "status", "todo", "spent", "sent", "got",
                   "warned", "code", "wanted"} \subseteq DOMAIN lane[r]

\* The cap is fixed before anything is sent, and charges are sums of costs.
Charged == /\ deployment.cap \in Nat
           /\ \A r \in AiRequests :
                /\ lane[r].spent \in Nat /\ lane[r].spent = lane[r].sent
                /\ lane[r].sent <= deployment.cap
                /\ lane[r].pc = "idle" => lane[r].sent = 0

AiInv == LaneShape /\ Charged /\ EmptiesExplained

-----------------------------------------------------------------------------
(* What a step of one request does to its lane.                            *)

\* A lane that is replaced by one with the same charges keeps the budget.
LEMMA SameCharges ==
  ASSUME LaneShape, Charged, NEW r \in AiRequests, NEW q,
         lane' = [lane EXCEPT ![r] = q], UNCHANGED deployment,
         DOMAIN lane[r] \subseteq DOMAIN q, q.pc # "idle",
         q.spent \in Nat, q.spent = q.sent, q.sent <= deployment.cap
  PROVE  LaneShape' /\ Charged'
<1>1. DOMAIN lane' = AiRequests /\ lane'[r] = q
      /\ \A x \in AiRequests : x # r => lane'[x] = lane[x]
  BY DEF LaneShape
<1>2. LaneShape'
  BY <1>1 DEF LaneShape
<1> QED
  BY <1>1, <1>2 DEF Charged

LEMMA AttachedCharges ==
  ASSUME LaneShape, NEW r \in AiRequests, NEW data
  PROVE  LET q == Attached(lane[r], data)
         IN  /\ DOMAIN q = DOMAIN lane[r] /\ q.spent = lane[r].spent /\ q.sent = lane[r].sent
             /\ q.pc \in {"lookup", "annotate", "done"}
BY DEF LaneShape, Attached, After

LEMMA AttachedIsFree ==
  ASSUME LaneShape, Charged, NEW r \in AiRequests, NEW data, UNCHANGED deployment,
         lane' = [lane EXCEPT ![r] = Attached(lane[r], data)]
  PROVE  LaneShape' /\ Charged'
<1> DEFINE q == Attached(lane[r], data)
<1>1. DOMAIN q = DOMAIN lane[r] /\ q.spent = lane[r].spent /\ q.sent = lane[r].sent
      /\ q.pc \in {"lookup", "annotate", "done"}
  BY AttachedCharges
<1> HIDE DEF q
<1>2. lane' = [lane EXCEPT ![r] = q]
  BY DEF q
<1>3. q.spent \in Nat /\ q.spent = q.sent /\ q.sent <= deployment.cap /\ q.pc # "idle"
  BY <1>1 DEF Charged
<1> QED
  BY <1>1, <1>2, <1>3, SameCharges

\* An entry is explained when the kind has no need of it, it was found, or a failure is
\* noted or the page is not there.
LEMMA EntryExplained ==
  ASSUME EmptiesExplained, NEW r, NEW data, signals' = SetCached(JobKey(r), data),
         failed \subseteq failed',
         \/ Job(r)[1] \in TextKinds \/ data = "found" \/ JobKey(r) \in failed'
         \/ Job(r)[2] \notin 0 .. PageCount - 1
  PROVE  EmptiesExplained'
<1>1. JobKey(r).kind = Job(r)[1] /\ JobKey(r).page = Job(r)[2]
  BY DEF JobKey, SignalKey
<1>2. /\ DOMAIN signals' = DOMAIN signals \union {JobKey(r)}
      /\ \A k \in DOMAIN signals' : signals'[k] = IF k = JobKey(r) THEN data ELSE signals[k]
  BY DEF SetCached
<1> SUFFICES ASSUME NEW k \in DOMAIN signals', k.kind \notin TextKinds, signals'[k] # "found"
             PROVE  k \in failed' \/ k.page \notin 0 .. PageCount - 1
  BY DEF EmptiesExplained
<1>3. CASE k = JobKey(r)
  BY <1>1, <1>2, <1>3
<1>4. CASE k # JobKey(r)
  BY <1>2, <1>4 DEF EmptiesExplained
<1> QED
  BY <1>3, <1>4

-----------------------------------------------------------------------------
(* The steps.                                                              *)

LEMMA InitAi == AiInit => AiInv
<1> SUFFICES ASSUME AiInit PROVE AiInv
  OBVIOUS
<1>1. (CHOOSE c \in Caps : TRUE) \in Nat
  BY AiAssumption DEF AiAssumption
<1>2. LaneShape /\ Charged
  <2>1. /\ {"pc", "endpoint", "tenant", "skip", "status", "todo", "spent", "sent", "got",
            "warned", "code", "wanted"} \subseteq DOMAIN Idle
        /\ Idle.spent = 0 /\ Idle.sent = 0
    BY DEF Idle
  <2>2. deployment.cap \in Nat
    BY <1>1 DEF AiInit
  <2>3. DOMAIN lane = AiRequests /\ \A r \in AiRequests : lane[r] = Idle
    BY DEF AiInit
  <2> QED
    BY <2>1, <2>2, <2>3 DEF LaneShape, Charged
<1>3. EmptiesExplained
  BY DEF AiInit, EmptiesExplained
<1> QED
  BY <1>2, <1>3 DEF AiInv

LEMMA DeployKeeps == ASSUME AiInv, Deploy PROVE AiInv'
<1>1. deployment'.cap \in Nat
  BY AiAssumption DEF Deploy, Deployments, AiAssumption
<1>2. UNCHANGED <<signals, lane, failed>> /\ \A r \in AiRequests : lane[r].pc = "idle"
  BY DEF Deploy
<1>3. Charged'
  BY <1>1, <1>2 DEF AiInv, Charged
<1> QED
  BY <1>2, <1>3 DEF AiInv, LaneShape, EmptiesExplained

LEMMA StartKeeps ==
  ASSUME AiInv, NEW r \in AiRequests, NEW t, NEW skip,
         \/ \E asked : StartExtract(r, t, skip, asked)
         \/ \E k, p : StartSignal(r, t, skip, k, p)
  PROVE  AiInv'
<1>1. /\ UNCHANGED <<deployment, signals, failed>>
      /\ LaneShape' /\ Charged'
  <2>1. ASSUME NEW asked, StartExtract(r, t, skip, asked)
        PROVE  LaneShape' /\ Charged' /\ UNCHANGED <<deployment, signals, failed>>
    BY <2>1 DEF StartExtract, AiInv, LaneShape, Charged, Idle
  <2>2. ASSUME NEW k, NEW p, StartSignal(r, t, skip, k, p)
        PROVE  LaneShape' /\ Charged' /\ UNCHANGED <<deployment, signals, failed>>
    BY <2>2 DEF StartSignal, AiInv, LaneShape, Charged, Idle
  <2> QED
    BY <2>1, <2>2
<1> QED
  BY <1>1 DEF AiInv, EmptiesExplained

\* A hit, or the empty answer of a closed gate, costs nothing and stores nothing.
LEMMA LookupKeeps == ASSUME AiInv, NEW r \in AiRequests, Lookup(r) PROVE AiInv'
<1>1. UNCHANGED <<deployment, signals, failed>>
  BY DEF Lookup
<1>2. \/ \E data : lane' = [lane EXCEPT ![r] = Attached(lane[r], data)]
      \/ lane' = [lane EXCEPT ![r] = [lane[r] EXCEPT !.pc = "dispatch"]]
  <2> DEFINE data == GetCached(JobKey(r))
             q == lane[r]
  <2>1. lane' = [lane EXCEPT ![r] =
           CASE data # "none" -> Attached(q, data)
             [] data = "none" /\ q.status # "enabled"
                  -> Attached(q, EmptyForKind(Job(r)[1]))
             [] OTHER -> [q EXCEPT !.pc = "dispatch"]]
    BY DEF Lookup
  <2>2. CASE data # "none"
    <3>1. lane' = [lane EXCEPT ![r] = Attached(q, data)]
      BY <2>1, <2>2
    <3> QED
      BY <3>1
  <2>3. CASE data = "none" /\ q.status # "enabled"
    <3>1. lane' = [lane EXCEPT ![r] = Attached(q, EmptyForKind(Job(r)[1]))]
      BY <2>1, <2>3
    <3> QED
      BY <3>1
  <2>4. CASE data = "none" /\ ~(q.status # "enabled")
    BY <2>1, <2>4
  <2> QED
    BY <2>2, <2>3, <2>4
<1>3. ASSUME NEW data, lane' = [lane EXCEPT ![r] = Attached(lane[r], data)]
      PROVE  LaneShape' /\ Charged'
  BY <1>1, <1>3, AttachedIsFree DEF AiInv
<1>4. ASSUME lane' = [lane EXCEPT ![r] = [lane[r] EXCEPT !.pc = "dispatch"]]
      PROVE  LaneShape' /\ Charged'
  <2> DEFINE q == [lane[r] EXCEPT !.pc = "dispatch"]
  <2>1. DOMAIN q = DOMAIN lane[r] /\ q.pc = "dispatch" /\ q.spent = lane[r].spent
        /\ q.sent = lane[r].sent
    BY DEF AiInv, LaneShape
  <2>2. lane' = [lane EXCEPT ![r] = q]
    BY <1>4
  <2> HIDE DEF q
  <2> QED
    BY <1>1, <2>1, <2>2, SameCharges DEF AiInv, Charged
<1> QED
  BY <1>1, <1>2, <1>3, <1>4 DEF AiInv, EmptiesExplained

\* What is stored without a call: it must be explained, and it is free.
LEMMA StoredKeeps ==
  ASSUME AiInv, NEW r \in AiRequests, NEW data, Stored(r, data), UNCHANGED deployment,
         failed \subseteq failed',
         \/ Job(r)[1] \in TextKinds \/ data = "found" \/ JobKey(r) \in failed'
         \/ Job(r)[2] \notin 0 .. PageCount - 1
  PROVE  AiInv'
<1>1. lane' = [lane EXCEPT ![r] = Attached(lane[r], data)]
      /\ signals' = SetCached(JobKey(r), data)
  BY DEF Stored
<1>2. LaneShape' /\ Charged'
  BY <1>1, AttachedIsFree DEF AiInv
<1>3. EmptiesExplained'
  BY <1>1, EntryExplained DEF AiInv
<1> QED
  BY <1>2, <1>3 DEF AiInv

\* A call is admitted under the cap and charged at once; it may still fail.
LEMMA CallVisionKeeps ==
  ASSUME AiInv, NEW r \in AiRequests, NEW works, CallVision(r, works), UNCHANGED deployment,
         Job(r)[1] \in VisionKinds
  PROVE  AiInv'
<1> DEFINE data == IF works THEN "found" ELSE "empty"
           cost == VisionCost[Job(r)[1]]
           q == [Attached(lane[r], data) EXCEPT !.spent = lane[r].spent + cost,
                                               !.sent = lane[r].sent + cost]
<1>1. cost \in Nat
  BY AiAssumption DEF AiAssumption
<1>2. lane[r].spent + cost <= deployment.cap
  BY DEF CallVision, Admits
<1>3. lane' = [lane EXCEPT ![r] = q] /\ signals' = SetCached(JobKey(r), data)
  BY DEF CallVision
<1>4. failed \subseteq failed' /\ (data = "found" \/ JobKey(r) \in failed')
  BY DEF CallVision
<1> HIDE DEF data, cost
<1>5. DOMAIN q = DOMAIN lane[r] /\ q.spent = lane[r].spent + cost
      /\ q.sent = lane[r].sent + cost /\ q.pc \in {"lookup", "annotate", "done"}
  <2> DEFINE a == Attached(lane[r], data)
  <2>1. /\ DOMAIN a = DOMAIN lane[r] /\ a.pc \in {"lookup", "annotate", "done"}
        /\ {"pc", "spent", "sent"} \subseteq DOMAIN a
    BY AttachedCharges DEF AiInv, LaneShape
  <2> HIDE DEF a
  <2>2. q = [a EXCEPT !.spent = lane[r].spent + cost, !.sent = lane[r].sent + cost]
    BY DEF a
  <2> HIDE DEF q
  <2> QED
    BY <2>1, <2>2
<1> HIDE DEF q
<1>6. q.spent \in Nat /\ q.spent = q.sent /\ q.sent <= deployment.cap /\ q.pc # "idle"
  BY <1>1, <1>2, <1>5 DEF AiInv, Charged
<1>7. LaneShape' /\ Charged'
  BY <1>3, <1>5, <1>6, SameCharges DEF AiInv
<1>8. EmptiesExplained'
  BY <1>3, <1>4, EntryExplained DEF AiInv
<1> QED
  BY <1>7, <1>8 DEF AiInv

\* A refusal stores nothing and sends nothing.
LEMMA RefuseKeeps ==
  ASSUME AiInv, NEW r \in AiRequests, Refuse(r), UNCHANGED deployment
  PROVE  AiInv'
<1> DEFINE pc == IF lane[r].endpoint = "extract" THEN "annotate" ELSE "done"
           q == [lane[r] EXCEPT !.pc = pc, !.todo = <<>>,
                                !.warned = lane[r].warned \union {Job(r)[1]}]
<1>1. lane' = [lane EXCEPT ![r] = q] /\ UNCHANGED <<signals, failed>>
  BY DEF Refuse
<1>2. DOMAIN q = DOMAIN lane[r] /\ q.pc # "idle" /\ q.spent = lane[r].spent
      /\ q.sent = lane[r].sent
  BY DEF AiInv, LaneShape
<1> HIDE DEF q
<1>3. LaneShape' /\ Charged'
  BY <1>1, <1>2, SameCharges DEF AiInv, Charged
<1> QED
  BY <1>1, <1>3 DEF AiInv, EmptiesExplained

LEMMA DispatchKeeps == ASSUME AiInv, NEW r \in AiRequests, Dispatch(r) PROVE AiInv'
<1> UNCHANGED deployment
  BY DEF Dispatch
<1>1. ASSUME ExtractLanguage(r) \/ ExtractSpell(r) \/ ExtractClassification(r) PROVE AiInv'
  <2>1. NoText(r) /\ Job(r)[1] \in TextKinds
    BY <1>1 DEF ExtractLanguage, ExtractSpell, ExtractClassification, TextKinds
  <2>2. Stored(r, EmptyForKind(Job(r)[1])) /\ failed' = failed
    BY <2>1 DEF NoText
  <2> QED
    BY <2>1, <2>2, StoredKeeps
<1>2. ASSUME NEW broken \in BOOLEAN, NoRaster(r, broken) PROVE AiInv'
  <2>1. Stored(r, "empty") /\ failed \subseteq failed' /\ PagePng(Job(r)[2]) = broken
        /\ (broken => JobKey(r) \in failed')
    BY <1>2 DEF NoRaster
  <2>2. JobKey(r) \in failed' \/ Job(r)[2] \notin 0 .. PageCount - 1
    BY <2>1 DEF PagePng
  <2> QED
    BY <2>1, <2>2, StoredKeeps
<1>3. ASSUME NEW works \in BOOLEAN, ExtractBarcodes(r, works) PROVE AiInv'
  <2> DEFINE data == IF works THEN "found" ELSE "empty"
  <2>1. Stored(r, data) /\ failed \subseteq failed' /\ (data = "found" \/ JobKey(r) \in failed')
    BY <1>3 DEF ExtractBarcodes
  <2> QED
    BY <2>1, StoredKeeps
<1>4. ASSUME NEW works \in BOOLEAN,
             ExtractLogos(r, works) \/ ExtractSymbols(r, works) \/ ExtractTrapZones(r, works)
      PROVE  AiInv'
  BY <1>4, CallVisionKeeps DEF ExtractLogos, ExtractSymbols, ExtractTrapZones, VisionKinds
<1> QED
  BY <1>1, <1>2, <1>3, <1>4, RefuseKeeps DEF Dispatch

LEMMA AnnotateKeeps == ASSUME AiInv, NEW r \in AiRequests, Annotate(r) PROVE AiInv'
<1> DEFINE q == [lane[r] EXCEPT !.pc = "done", !.code = StatusCode(lane[r])]
<1>1. lane' = [lane EXCEPT ![r] = q] /\ UNCHANGED <<deployment, signals, failed>>
  BY DEF Annotate
<1>2. DOMAIN q = DOMAIN lane[r] /\ q.pc # "idle" /\ q.spent = lane[r].spent
      /\ q.sent = lane[r].sent
  BY DEF AiInv, LaneShape
<1> HIDE DEF q
<1>3. LaneShape' /\ Charged'
  BY <1>1, <1>2, SameCharges DEF AiInv, Charged
<1> QED
  BY <1>1, <1>3 DEF AiInv, EmptiesExplained

LEMMA SignalExpiresKeeps == ASSUME AiInv, NEW key, SignalExpires(key) PROVE AiInv'
<1>1. UNCHANGED <<deployment, lane, failed>>
      /\ signals' = [k \in DOMAIN signals \ {key} |-> signals[k]]
  BY DEF SignalExpires
<1>2. EmptiesExplained'
  BY <1>1 DEF AiInv, EmptiesExplained
<1> QED
  BY <1>1, <1>2 DEF AiInv, LaneShape, Charged

-----------------------------------------------------------------------------
(* Theorems.                                                               *)

\* The invariant under every step of the specification.
THEOREM AiInvariance == AiSpec => []AiInv
<1>1. AiInv /\ [AiNext]_aiVars => AiInv'
  <2> SUFFICES ASSUME AiInv, [AiNext]_aiVars PROVE AiInv'
    OBVIOUS
  <2>1. CASE UNCHANGED aiVars
    BY <2>1 DEF aiVars, AiInv, LaneShape, Charged, EmptiesExplained
  <2>2. CASE AiNext
    <3>1. ASSUME NEW r \in AiRequests, NEW t \in AiTenants, NEW skip \in BOOLEAN,
                 \/ \E asked \in AskedKinds : StartExtract(r, t, skip, asked)
                 \/ \E k \in SignalKinds, p \in 0 .. PageCount : StartSignal(r, t, skip, k, p)
          PROVE  AiInv'
      BY <3>1, StartKeeps
    <3>2. ASSUME NEW r \in AiRequests, Lookup(r) \/ Dispatch(r) \/ Annotate(r) PROVE AiInv'
      BY <3>2, LookupKeeps, DispatchKeeps, AnnotateKeeps
    <3>3. ASSUME NEW key \in DOMAIN signals, SignalExpires(key) PROVE AiInv'
      BY <3>3, SignalExpiresKeeps
    <3> QED
      BY <2>2, <3>1, <3>2, <3>3, DeployKeeps DEF AiNext
  <2> QED
    BY <2>1, <2>2
<1> QED
  BY <1>1, InitAi, PTL DEF AiSpec

\* What a request sends to models never costs more than its cap (BudgetTracker.admit).
THEOREM BudgetsAreKept == AiSpec => []BudgetKept
<1>1. AiInv => BudgetKept
  BY DEF AiInv, Charged, BudgetKept
<1> QED
  BY <1>1, AiInvariance, PTL

\* An empty entry of the signal cache has a failure or a missing page behind it, never a
\* closed gate or an exhausted budget (dispatch, before and after the gate).
THEOREM EmptiesAreExplained == AiSpec => []EmptiesExplained
<1>1. AiInv => EmptiesExplained
  BY DEF AiInv
<1> QED
  BY <1>1, AiInvariance, PTL

-----------------------------------------------------------------------------
(* What a lane tells of its work.                                          *)

Jobs == Kinds \X Int
SeenBy(q) == {g[1] : g \in q.got}
Distinct(s) == \A i, j \in DOMAIN s : s[i] = s[j] => i = j

\* While a lane works, what it has seen and what it has yet to do are what it wants, each
\* job once.
Working(q) == /\ q.warned = {}
              /\ q.todo \in Seq(Jobs) /\ q.todo # <<>> /\ Distinct(q.todo)
              /\ ToSet(q.todo) \cap SeenBy(q) = {}
              /\ ToSet(q.todo) \cup SeenBy(q) = q.wanted

\* When it has ended it has seen all, or names the one kind at which it stopped.
Ended(q) == \/ q.warned = {} /\ SeenBy(q) = q.wanted
            \/ (\E k : q.warned = {k}) /\ SeenBy(q) # q.wanted

\* A closed gate lets nothing of an extract through, and the code it ends with is that of
\* its status.
Gated(q) == /\ q.skip \in BOOLEAN
            /\ q.status # "enabled" => /\ q.got = {} /\ q.sent = 0
                                       /\ q.pc \in {"annotate", "done"}
            /\ q.pc = "done" => (q.code = "ai_tier" <=> q.status = "enabled")

HonestLane(q) == /\ q.pc \in {"idle", "lookup", "dispatch", "annotate", "done"}
                 /\ q.pc \in {"lookup", "dispatch"} => Working(q)
                 /\ q.pc \in {"annotate", "done"} => Ended(q)
                 /\ q.pc = "annotate" => q.endpoint = "extract"
                 /\ q.pc # "idle" /\ q.endpoint = "extract" => Gated(q)

\* Its status is what the gate still says of it.
GateStands(q) == q.pc # "idle" /\ q.endpoint = "extract"
                   => q.status = BuildContext(q.tenant, q.skip)

HonestInv == \A r \in AiRequests : HonestLane(lane[r]) /\ GateStands(lane[r])

\* The status warning takes the tests of the gate in another order, and agrees with it.
LEMMA CodeIsOfGate ==
  ASSUME NEW q, q.skip \in BOOLEAN, q.status = BuildContext(q.tenant, q.skip)
  PROVE  StatusCode(q) = "ai_tier" <=> q.status = "enabled"
<1>1. TenantExcluded(q.tenant) <=> ~Entitled(q.tenant)
  BY DEF TenantExcluded, Entitled
<1> DEFINE on == deployment.on
           excluded == TenantExcluded(q.tenant)
<1>2. CASE ~on
  BY <1>2 DEF StatusCode, BuildContext
<1>3. CASE on /\ q.skip
  BY <1>3 DEF StatusCode, BuildContext
<1>4. CASE on /\ ~q.skip /\ excluded
  BY <1>1, <1>4 DEF StatusCode, BuildContext
<1>5. CASE on /\ ~q.skip /\ ~excluded
  BY <1>1, <1>5 DEF StatusCode, BuildContext
<1> QED
  BY <1>2, <1>3, <1>4, <1>5

\* The jobs of all pages, in the lane's order, are jobs, each once.
LEMMA PageJobsDistinct == PageJobs \in Seq(Jobs) /\ Distinct(PageJobs)
                          /\ \A i \in DOMAIN PageJobs : PageJobs[i][2] # NoPage
<1> DEFINE n == 6 * PageCount
           kind(i) == PageKinds[((i - 1) % 6) + 1]
           page(i) == (i - 1) \div 6
<1>1. Len(PageKinds) = 6 /\ \A x \in 1 .. 6 : PageKinds[x] \in Kinds
  BY DEF PageKinds, Kinds
<1>2. \A x, y \in 1 .. 6 : PageKinds[x] = PageKinds[y] => x = y
  BY DEF PageKinds
<1>3. n \in Nat
  BY AiAssumption DEF AiAssumption
<1>4. PageJobs = [i \in 1 .. n |-> <<kind(i), page(i)>>]
  BY <1>1 DEF PageJobs
<1>5. \A i \in 1 .. n : /\ ((i - 1) % 6) + 1 \in 1 .. 6 /\ page(i) \in Nat
                        /\ i - 1 = 6 * page(i) + ((i - 1) % 6)
  BY <1>3
<1>6. \A i \in 1 .. n : <<kind(i), page(i)>> \in Jobs
  BY <1>1, <1>5 DEF Jobs
<1>7. PageJobs \in Seq(Jobs)
  BY <1>3, <1>4, <1>6
<1>8. ASSUME NEW i \in 1 .. n, NEW j \in 1 .. n, <<kind(i), page(i)>> = <<kind(j), page(j)>>
      PROVE  i = j
  <2>1. page(i) = page(j) /\ kind(i) = kind(j)
    BY <1>8
  <2>2. ((i - 1) % 6) + 1 = ((j - 1) % 6) + 1
    BY <1>2, <1>5, <2>1
  <2> QED
    BY <1>5, <2>1, <2>2, <1>3
<1>9. \A i \in 1 .. n : page(i) # NoPage
  BY <1>5 DEF NoPage
<1> QED
  BY <1>4, <1>7, <1>8, <1>9 DEF Distinct

LEMMA WorklistDistinct ==
  ASSUME NEW asked
  PROVE  Worklist(asked) \in Seq(Jobs) /\ Distinct(Worklist(asked))
<1> DEFINE doc == IF "classification" \in asked THEN <<<<"classification", NoPage>>>> ELSE <<>>
           pages == Those(PageJobs, asked \X (0 .. PageCount - 1))
<1>1. pages \in Seq(Jobs) /\ ToSet(pages) \subseteq ToSet(PageJobs)
  BY PageJobsDistinct, ThoseAreInOrder
<1>2. Distinct(pages)
  BY PageJobsDistinct, ThoseAreDistinct DEF Distinct
<1>3. \A i \in DOMAIN pages : pages[i][2] # NoPage
  BY <1>1, PageJobsDistinct, ZenonT(30) DEF ToSet
<1>4. <<"classification", NoPage>> \in Jobs
  BY DEF Jobs, Kinds, NoPage
<1> HIDE DEF pages
<1>5. CASE "classification" \in asked
  <2> DEFINE c == <<"classification", NoPage>>
             w == <<c>> \o pages
  <2>1. w \in Seq(Jobs) /\ Len(w) = Len(pages) + 1 /\ w[1] = c
        /\ \A i \in 2 .. Len(w) : w[i] = pages[i - 1] /\ i - 1 \in DOMAIN pages
    BY <1>1, <1>4
  <2>2. c[2] = NoPage
    OBVIOUS
  <2> HIDE DEF c, w
  <2>3. \A i \in DOMAIN w : i = 1 \/ i \in 2 .. Len(w)
    BY <2>1
  <2>4. Distinct(w)
    <3> SUFFICES ASSUME NEW i \in DOMAIN w, NEW j \in DOMAIN w, w[i] = w[j] PROVE i = j
      BY DEF Distinct
    <3>1. CASE i = 1 \/ j = 1
      BY <1>3, <2>1, <2>2, <2>3, <3>1
    <3>2. CASE i # 1 /\ j # 1
      <4>1. i - 1 = j - 1
        BY <1>2, <2>1, <2>3, <3>2 DEF Distinct
      <4> QED
        BY <2>1, <4>1
    <3> QED
      BY <3>1, <3>2
  <2>5. Worklist(asked) = w
    BY <1>5 DEF Worklist, pages, w, c
  <2> QED
    BY <2>1, <2>4, <2>5
<1>6. CASE "classification" \notin asked
  <2>1. Worklist(asked) = <<>> \o pages
    BY <1>6 DEF Worklist, pages
  <2>2. <<>> \o pages = pages
    BY <1>1
  <2> QED
    BY <1>1, <1>2, <2>1, <2>2
<1> QED
  BY <1>5, <1>6

\* One job answered: it is seen, and no longer to be done.
LEMMA AttachedWorks ==
  ASSUME LaneShape, NEW r \in AiRequests, Working(lane[r]), NEW data
  PROVE  LET q == Attached(lane[r], data)
         IN  /\ q.pc \in {"lookup", "annotate", "done"}
             /\ q.pc = "lookup" => Working(q)
             /\ q.pc \in {"annotate", "done"} => Ended(q)
             /\ q.pc = "annotate" => q.endpoint = "extract"
             /\ q.pc = "done" => q.endpoint # "extract"
             /\ q.endpoint = lane[r].endpoint /\ q.skip = lane[r].skip
             /\ q.status = lane[r].status /\ q.tenant = lane[r].tenant
<1> DEFINE old == lane[r]
           q == Attached(old, data)
           t == old.todo
<1>1. t \in Seq(Jobs) /\ t # <<>> /\ Distinct(t)
  BY DEF Working
<1>2. /\ q.todo = Tail(t) /\ q.got = old.got \union {<<Head(t), data>>} /\ q.pc = After(old)
      /\ q.warned = old.warned /\ q.wanted = old.wanted /\ q.endpoint = old.endpoint
      /\ q.skip = old.skip /\ q.status = old.status /\ q.tenant = old.tenant
  BY DEF LaneShape, Attached
<1>3. After(old) \in {"lookup", "annotate", "done"} /\ (After(old) = "lookup" <=> Len(t) > 1)
      /\ (After(old) = "annotate" => old.endpoint = "extract")
      /\ (After(old) = "done" => old.endpoint # "extract")
  <2>1. CASE Len(t) > 1
    BY <1>1, <2>1 DEF After
  <2>2. CASE Len(t) <= 1 /\ old.endpoint = "extract"
    BY <1>1, <2>2 DEF After
  <2>3. CASE Len(t) <= 1 /\ old.endpoint # "extract"
    BY <1>1, <2>3 DEF After
  <2>4. Len(t) > 1 \/ Len(t) <= 1
    BY <1>1
  <2> QED
    BY <2>1, <2>2, <2>3, <2>4
<1> HIDE DEF q
<1>4. SeenBy(q) = SeenBy(old) \cup {Head(t)}
  <2>1. <<Head(t), data>>[1] = Head(t)
    OBVIOUS
  <2> QED
    BY <1>2, <2>1 DEF SeenBy
<1> HIDE DEF old
<1>5. /\ Tail(t) \in Seq(Jobs) /\ Len(Tail(t)) = Len(t) - 1 /\ Head(t) = t[1] /\ Len(t) \in Nat
      /\ DOMAIN t = 1 .. Len(t) /\ DOMAIN Tail(t) = 1 .. Len(t) - 1
      /\ Len(t) >= 1 /\ \A i \in 1 .. Len(t) - 1 : Tail(t)[i] = t[i + 1]
  BY <1>1
<1> HIDE DEF t
<1>6. Distinct(Tail(t))
  <2> SUFFICES ASSUME NEW i \in 1 .. Len(t) - 1, NEW j \in 1 .. Len(t) - 1,
                      t[i + 1] = t[j + 1]
               PROVE  i = j
    BY <1>5 DEF Distinct
  <2>1. i + 1 \in DOMAIN t /\ j + 1 \in DOMAIN t
    BY <1>5
  <2>2. i + 1 = j + 1
    BY <1>1, <2>1 DEF Distinct
  <2> QED
    BY <2>2
<1>7. Head(t) \notin ToSet(Tail(t)) /\ ToSet(t) = {Head(t)} \cup ToSet(Tail(t))
  <2>1. ToSet(t) = {t[i] : i \in 1 .. Len(t)}
        /\ ToSet(Tail(t)) = {t[i + 1] : i \in 1 .. Len(t) - 1}
    BY <1>5 DEF ToSet
  <2>2. \A i \in 1 .. Len(t) - 1 : i + 1 \in DOMAIN t /\ 1 \in DOMAIN t /\ i + 1 # 1
    BY <1>5
  <2>3. Head(t) \notin ToSet(Tail(t))
    BY <1>1, <1>5, <2>1, <2>2 DEF Distinct
  <2>4. \A i \in 1 .. Len(t) : i = 1 \/ (i - 1 \in 1 .. Len(t) - 1 /\ (i - 1) + 1 = i)
    BY <1>5
  <2>5. \A x \in ToSet(t) : x = Head(t) \/ x \in ToSet(Tail(t))
    BY <1>5, <2>1, <2>4, SMTT(30)
  <2>6. \A x \in ToSet(Tail(t)) : x \in ToSet(t)
    BY <1>5, <2>1, <2>2
  <2>7. Head(t) \in ToSet(t)
    BY <1>5, <2>1
  <2> QED
    BY <2>3, <2>5, <2>6, <2>7
<1>8. ToSet(t) \cap SeenBy(old) = {} /\ ToSet(t) \cup SeenBy(old) = old.wanted
      /\ old.warned = {}
  BY DEF Working, old, t
<1>9. ToSet(Tail(t)) \cap SeenBy(q) = {} /\ ToSet(Tail(t)) \cup SeenBy(q) = q.wanted
  BY <1>2, <1>4, <1>7, <1>8
<1>10. Len(t) > 1 => Tail(t) # <<>>
  <2>1. Len(<<>>) = 0
    OBVIOUS
  <2>2. Tail(t) = <<>> => Len(t) - 1 = 0
    BY <1>5, <2>1
  <2> QED
    BY <1>5, <2>2
<1>11. ~(Len(t) > 1) => ToSet(Tail(t)) = {}
  BY <1>5 DEF ToSet
<1>12. q.pc = "lookup" => Working(q)
  BY <1>2, <1>3, <1>5, <1>6, <1>8, <1>9, <1>10 DEF Working
<1>13. q.pc \in {"annotate", "done"} => Ended(q)
  BY <1>2, <1>3, <1>8, <1>9, <1>11 DEF Ended
<1> QED
  BY <1>2, <1>3, <1>12, <1>13 DEF q, old

\* A lane replaced, the others as they were.
LEMMA OneLaneHonest ==
  ASSUME LaneShape, HonestInv, UNCHANGED deployment, NEW r \in AiRequests, NEW q,
         lane' = [lane EXCEPT ![r] = q], HonestLane(q), GateStands(q)
  PROVE  HonestInv'
<1> SUFFICES ASSUME NEW x \in AiRequests PROVE HonestLane(lane'[x]) /\ GateStands(lane[x])'
  BY DEF HonestInv
<1>1. lane'[x] = q \/ lane'[x] = lane[x]
  BY DEF LaneShape
<1>2. HonestLane(lane'[x])
  BY <1>1 DEF HonestInv
<1>3. GateStands(lane[x])'
  BY <1>1 DEF HonestInv, GateStands, BuildContext, Entitled
<1> QED
  BY <1>2, <1>3

LEMMA DeployHonest == ASSUME HonestInv, Deploy PROVE HonestInv'
<1>1. lane' = lane /\ \A r \in AiRequests : lane[r].pc = "idle"
  BY DEF Deploy
<1>2. \A r \in AiRequests : HonestLane(lane'[r]) /\ GateStands(lane[r])'
  BY <1>1 DEF HonestInv, GateStands
<1> QED
  BY <1>2 DEF HonestInv

LEMMA StartHonest ==
  ASSUME AiInv, HonestInv, NEW r \in AiRequests, NEW t \in AiTenants, NEW skip \in BOOLEAN,
         \/ \E asked \in AskedKinds : StartExtract(r, t, skip, asked)
         \/ \E k \in SignalKinds, p \in 0 .. PageCount : StartSignal(r, t, skip, k, p)
  PROVE  HonestInv'
<1>1. ASSUME NEW asked \in AskedKinds, StartExtract(r, t, skip, asked) PROVE HonestInv'
  <2> DEFINE status == BuildContext(t, skip)
             todo == IF status = "enabled" THEN Worklist(asked) ELSE <<>>
             wanted == {todo[i] : i \in DOMAIN todo}
             pc == IF todo = <<>> THEN "annotate" ELSE "lookup"
             q == [Idle EXCEPT !.pc = pc,
                     !.endpoint = "extract", !.tenant = t, !.skip = skip, !.status = status,
                     !.todo = todo, !.wanted = wanted]
  <2>1. lane' = [lane EXCEPT ![r] = q] /\ UNCHANGED deployment
    BY <1>1 DEF StartExtract
  <2>2. todo \in Seq(Jobs) /\ Distinct(todo) /\ wanted = ToSet(todo)
        /\ (status # "enabled" => todo = <<>>)
    BY WorklistDistinct DEF Distinct, ToSet
  <2> HIDE DEF todo, wanted
  <2>3. /\ q.pc = pc /\ q.endpoint = "extract" /\ q.tenant = t /\ q.skip = skip
        /\ q.status = status /\ q.todo = todo /\ q.wanted = wanted
        /\ q.got = {} /\ q.sent = 0 /\ q.warned = {}
    BY DEF Idle
  <2> HIDE DEF q
  <2>4. SeenBy(q) = {}
    BY <2>3 DEF SeenBy
  <2>5. todo = <<>> => wanted = {}
    BY <2>2 DEF ToSet
  <2>6. HonestLane(q)
    BY <2>2, <2>3, <2>4, <2>5 DEF HonestLane, Working, Ended, Gated
  <2>7. GateStands(q)
    BY <2>3 DEF GateStands
  <2> QED
    BY <2>1, <2>6, <2>7, OneLaneHonest DEF AiInv
<1>2. ASSUME NEW k \in SignalKinds, NEW p \in 0 .. PageCount, StartSignal(r, t, skip, k, p)
      PROVE  HonestInv'
  <2> DEFINE job == <<k, IF k = "classification" THEN NoPage ELSE p>>
             code == CASE ~deployment.on -> "disabled"
                       [] deployment.on /\ skip -> "skipped"
                       [] OTHER -> "enabled"
             status == BuildContext(t, skip)
             q == [Idle EXCEPT !.pc = "lookup", !.endpoint = "signal", !.tenant = t,
                     !.skip = skip, !.status = status, !.todo = <<job>>, !.wanted = {job},
                     !.code = code]
  <2>1. lane' = [lane EXCEPT ![r] = q] /\ UNCHANGED deployment
    BY <1>2 DEF StartSignal
  <2>2. job \in Jobs
    BY AiAssumption DEF Jobs, SignalKinds, NoPage, AiAssumption
  <2> HIDE DEF job, code, status
  <2>3. /\ q.pc = "lookup" /\ q.endpoint = "signal" /\ q.todo = <<job>> /\ q.wanted = {job}
        /\ q.got = {} /\ q.warned = {}
    BY DEF Idle
  <2> HIDE DEF q
  <2>4. <<job>> \in Seq(Jobs) /\ <<job>> # <<>> /\ ToSet(<<job>>) = {job} /\ Distinct(<<job>>)
    BY <2>2 DEF ToSet, Distinct
  <2>5. SeenBy(q) = {}
    BY <2>3 DEF SeenBy
  <2>6. HonestLane(q)
    BY <2>3, <2>4, <2>5 DEF HonestLane, Working
  <2>7. GateStands(q)
    BY <2>3 DEF GateStands
  <2> QED
    BY <2>1, <2>6, <2>7, OneLaneHonest DEF AiInv
<1> QED
  BY <1>1, <1>2

AtWork(q) == q.pc = "lookup" \/ q.pc = "dispatch"
SameBut(q, a, fields) == \A f \in DOMAIN q \ fields : q[f] = a[f]

\* A job answered in a lane that works, whatever is charged for it.
LEMMA AnsweredHonest ==
  ASSUME LaneShape, HonestInv, UNCHANGED deployment, NEW r \in AiRequests, NEW data, NEW q,
         AtWork(lane[r]),
         lane' = [lane EXCEPT ![r] = q], DOMAIN q = DOMAIN lane[r],
         SameBut(q, Attached(lane[r], data), {"spent", "sent"})
  PROVE  HonestInv'
<1> DEFINE a == Attached(lane[r], data)
<1>1. HonestLane(lane[r])
  BY DEF HonestInv
<1>2. Working(lane[r]) /\ (lane[r].endpoint = "extract" => Gated(lane[r]))
      /\ lane[r].pc # "idle"
  BY <1>1 DEF HonestLane, AtWork
<1>3. /\ a.pc \in {"lookup", "annotate", "done"}
      /\ a.pc = "lookup" => Working(a)
      /\ a.pc \in {"annotate", "done"} => Ended(a)
      /\ a.pc = "annotate" => a.endpoint = "extract"
      /\ a.pc = "done" => a.endpoint # "extract"
      /\ a.endpoint = lane[r].endpoint /\ a.skip = lane[r].skip
      /\ a.status = lane[r].status /\ a.tenant = lane[r].tenant
  BY <1>2, AttachedWorks
<1> HIDE DEF a
<1>4. \A f \in {"pc", "endpoint", "tenant", "skip", "status", "todo", "got", "warned", "code",
                "wanted"} : q[f] = a[f]
  BY DEF LaneShape, SameBut, a
<1>5. SeenBy(q) = SeenBy(a)
  BY <1>4 DEF SeenBy
<1>6. HonestLane(q)
  <2>1. q.endpoint = "extract" => Gated(q)
    BY <1>2, <1>3, <1>4 DEF Gated, AtWork
  <2>2. (q.pc = "lookup" => Working(q)) /\ (q.pc \in {"annotate", "done"} => Ended(q))
    BY <1>3, <1>4, <1>5 DEF Working, Ended
  <2> QED
    BY <1>3, <1>4, <2>1, <2>2 DEF HonestLane
<1>7. GateStands(q)
  <2>1. GateStands(lane[r])
    BY DEF HonestInv
  <2>2. q.endpoint = lane[r].endpoint /\ q.skip = lane[r].skip /\ q.status = lane[r].status
        /\ q.tenant = lane[r].tenant /\ lane[r].pc # "idle"
    BY <1>2, <1>3, <1>4
  <2> QED
    BY <2>1, <2>2 DEF GateStands
<1> QED
  BY <1>6, <1>7, OneLaneHonest

LEMMA AttachedHonest ==
  ASSUME LaneShape, HonestInv, UNCHANGED deployment, NEW r \in AiRequests, NEW data,
         AtWork(lane[r]),
         lane' = [lane EXCEPT ![r] = Attached(lane[r], data)]
  PROVE  HonestInv'
<1> DEFINE q == Attached(lane[r], data)
<1>1. DOMAIN q = DOMAIN lane[r]
  BY AttachedCharges
<1>2. lane' = [lane EXCEPT ![r] = q] /\ SameBut(q, Attached(lane[r], data), {"spent", "sent"})
  BY DEF SameBut
<1> HIDE DEF q
<1> QED
  BY <1>1, <1>2, AnsweredHonest

LEMMA LookupHonest == ASSUME AiInv, HonestInv, NEW r \in AiRequests, Lookup(r) PROVE HonestInv'
<1> DEFINE data == GetCached(JobKey(r))
           q == lane[r]
           q2 == [q EXCEPT !.pc = "dispatch"]
<1>1. lane[r].pc = "lookup" /\ UNCHANGED deployment /\ LaneShape
  BY DEF Lookup, AiInv
<1>2. lane' = [lane EXCEPT ![r] =
         CASE data # "none" -> Attached(q, data)
           [] data = "none" /\ q.status # "enabled"
                -> Attached(q, EmptyForKind(Job(r)[1]))
           [] OTHER -> q2]
  BY DEF Lookup
<1>3. CASE data # "none"
  <2>1. lane' = [lane EXCEPT ![r] = Attached(lane[r], data)]
    BY <1>2, <1>3
  <2>2. \E any : lane' = [lane EXCEPT ![r] = Attached(lane[r], any)]
    BY <2>1
  <2>3. AtWork(lane[r])
    BY <1>1 DEF AtWork
  <2> QED
    BY <1>1, <2>2, <2>3, AttachedHonest
<1>4. CASE data = "none" /\ q.status # "enabled"
  <2>1. lane' = [lane EXCEPT ![r] = Attached(lane[r], EmptyForKind(Job(r)[1]))]
    BY <1>2, <1>4
  <2>2. \E any : lane' = [lane EXCEPT ![r] = Attached(lane[r], any)]
    BY <2>1
  <2>3. AtWork(lane[r])
    BY <1>1 DEF AtWork
  <2> QED
    BY <1>1, <2>2, <2>3, AttachedHonest
<1>5. CASE data = "none" /\ ~(q.status # "enabled")
  <2>1. lane' = [lane EXCEPT ![r] = q2]
    BY <1>2, <1>5
  <2>2. /\ q2.pc = "dispatch" /\ q2.endpoint = q.endpoint /\ q2.tenant = q.tenant
        /\ q2.skip = q.skip /\ q2.status = q.status /\ q2.todo = q.todo /\ q2.got = q.got
        /\ q2.warned = q.warned /\ q2.wanted = q.wanted /\ q2.sent = q.sent
    BY <1>1 DEF LaneShape
  <2>3. HonestLane(q)
    BY DEF HonestInv
  <2> HIDE DEF q2, data
  <2>4. HonestLane(q2)
    BY <1>1, <1>5, <2>2, <2>3 DEF HonestLane, Working, Gated, SeenBy
  <2>5. GateStands(q2)
    BY <1>1, <2>2 DEF HonestInv, GateStands
  <2> QED
    BY <1>1, <2>1, <2>4, <2>5, OneLaneHonest
<1> QED
  BY <1>3, <1>4, <1>5

LEMMA CallVisionHonest ==
  ASSUME AiInv, HonestInv, UNCHANGED deployment, NEW r \in AiRequests, NEW works,
         lane[r].pc = "dispatch", CallVision(r, works)
  PROVE  HonestInv'
<1> DEFINE data == IF works THEN "found" ELSE "empty"
           cost == VisionCost[Job(r)[1]]
           a == Attached(lane[r], data)
           q == [a EXCEPT !.spent = lane[r].spent + cost, !.sent = lane[r].sent + cost]
<1>1. lane' = [lane EXCEPT ![r] = q]
  BY DEF CallVision
<1> HIDE DEF data, cost
<1>2. DOMAIN a = DOMAIN lane[r]
  BY AttachedCharges DEF AiInv
<1> HIDE DEF a
<1>3. DOMAIN q = DOMAIN lane[r] /\ \A f \in DOMAIN q \ {"spent", "sent"} : q[f] = a[f]
  BY <1>2
<1> HIDE DEF q
<1>4. LaneShape /\ AtWork(lane[r])
      /\ SameBut(q, Attached(lane[r], data), {"spent", "sent"})
  BY <1>3 DEF AiInv, AtWork, SameBut, a
<1> QED
  BY <1>1, <1>3, <1>4, AnsweredHonest

\* A refused lane has a job left that it has not seen.
LEMMA RefuseHonest ==
  ASSUME AiInv, HonestInv, UNCHANGED deployment, NEW r \in AiRequests,
         lane[r].pc = "dispatch", Refuse(r)
  PROVE  HonestInv'
<1> DEFINE old == lane[r]
           pc == IF old.endpoint = "extract" THEN "annotate" ELSE "done"
           k == Job(r)[1]
           q == [old EXCEPT !.pc = pc, !.todo = <<>>, !.warned = old.warned \union {k}]
<1>1. lane' = [lane EXCEPT ![r] = q]
  BY DEF Refuse
<1>2. HonestLane(old)
  BY DEF HonestInv
<1>3. Working(old) /\ (old.endpoint = "extract" => Gated(old))
  BY <1>2 DEF HonestLane
<1>4. /\ q.pc = pc /\ q.endpoint = old.endpoint /\ q.tenant = old.tenant
      /\ q.skip = old.skip /\ q.status = old.status /\ q.got = old.got
      /\ q.warned = old.warned \cup {k} /\ q.wanted = old.wanted /\ q.sent = old.sent
  BY DEF AiInv, LaneShape
<1> HIDE DEF q, k
<1>5. Head(old.todo) \in ToSet(old.todo)
  <2> DEFINE t == old.todo
  <2>1. t \in Seq(Jobs) /\ t # <<>>
    BY <1>3 DEF Working
  <2> HIDE DEF t
  <2>2. 1 \in DOMAIN t /\ Head(t) = t[1]
    BY <2>1
  <2> QED
    BY <2>2 DEF ToSet, t
<1>6. SeenBy(q) = SeenBy(old)
  BY <1>4 DEF SeenBy
<1>7. q.warned = {k} /\ SeenBy(q) # q.wanted
  BY <1>3, <1>4, <1>5, <1>6 DEF Working
<1>8. Ended(q)
  BY <1>7 DEF Ended
<1>9. HonestLane(q) /\ GateStands(q)
  <2>1. old.endpoint = "extract" => Gated(q)
    BY <1>3, <1>4 DEF Gated
  <2> QED
    BY <1>4, <1>8, <2>1 DEF HonestLane, HonestInv, GateStands
<1> QED
  BY <1>1, <1>9, OneLaneHonest DEF AiInv

LEMMA DispatchHonest == ASSUME AiInv, HonestInv, NEW r \in AiRequests, Dispatch(r) PROVE HonestInv'
<1>1. UNCHANGED deployment /\ lane[r].pc = "dispatch" /\ LaneShape
  BY DEF Dispatch, AiInv
<1>2. ASSUME NEW data, Stored(r, data) PROVE HonestInv'
  <2>1. lane' = [lane EXCEPT ![r] = Attached(lane[r], data)]
    BY <1>2 DEF Stored
  <2>2. AtWork(lane[r])
    BY <1>1 DEF AtWork
  <2> QED
    BY <1>1, <2>1, <2>2, AttachedHonest
<1>3. ASSUME ExtractLanguage(r) \/ ExtractSpell(r) \/ ExtractClassification(r) PROVE HonestInv'
  BY <1>2, <1>3 DEF ExtractLanguage, ExtractSpell, ExtractClassification, NoText
<1>4. ASSUME NEW broken \in BOOLEAN, NoRaster(r, broken) PROVE HonestInv'
  BY <1>2, <1>4 DEF NoRaster
<1>5. ASSUME NEW works \in BOOLEAN, ExtractBarcodes(r, works) PROVE HonestInv'
  BY <1>2, <1>5 DEF ExtractBarcodes
<1>6. ASSUME NEW works \in BOOLEAN,
             ExtractLogos(r, works) \/ ExtractSymbols(r, works) \/ ExtractTrapZones(r, works)
      PROVE  HonestInv'
  BY <1>1, <1>6, CallVisionHonest DEF ExtractLogos, ExtractSymbols, ExtractTrapZones
<1> QED
  BY <1>1, <1>3, <1>4, <1>5, <1>6, RefuseHonest DEF Dispatch

LEMMA AnnotateHonest ==
  ASSUME AiInv, HonestInv, NEW r \in AiRequests, Annotate(r) PROVE HonestInv'
<1> DEFINE old == lane[r]
           code == StatusCode(old)
           q == [old EXCEPT !.pc = "done", !.code = code]
<1>1. lane' = [lane EXCEPT ![r] = q] /\ UNCHANGED deployment /\ old.pc = "annotate"
  BY DEF Annotate
<1>2. HonestLane(old)
  BY DEF HonestInv
<1>3. Ended(old) /\ old.endpoint = "extract" /\ Gated(old)
  BY <1>1, <1>2 DEF HonestLane
<1>4. code = "ai_tier" <=> old.status = "enabled"
  <2>1. old.status = BuildContext(old.tenant, old.skip)
    BY <1>1, <1>3 DEF HonestInv, GateStands
  <2> QED
    BY <1>3, <2>1, CodeIsOfGate DEF Gated
<1> HIDE DEF code
<1>5. /\ q.pc = "done" /\ q.code = code /\ q.endpoint = old.endpoint /\ q.tenant = old.tenant
      /\ q.skip = old.skip /\ q.status = old.status /\ q.got = old.got
      /\ q.warned = old.warned /\ q.wanted = old.wanted /\ q.sent = old.sent
  BY DEF AiInv, LaneShape
<1> HIDE DEF q
<1>6. Ended(q) /\ Gated(q)
  BY <1>3, <1>4, <1>5 DEF Ended, Gated, SeenBy
<1>7. HonestLane(q) /\ GateStands(q)
  BY <1>1, <1>5, <1>6 DEF HonestLane, HonestInv, GateStands
<1> QED
  BY <1>1, <1>7, OneLaneHonest DEF AiInv

LEMMA HonestSame == ASSUME HonestInv, UNCHANGED <<deployment, lane>> PROVE HonestInv'
<1> SUFFICES ASSUME NEW r \in AiRequests PROVE HonestLane(lane'[r]) /\ GateStands(lane[r])'
  BY DEF HonestInv
<1> QED
  BY DEF HonestInv, GateStands, BuildContext, Entitled

LEMMA InitHonest == AiInit => HonestInv
<1> SUFFICES ASSUME AiInit, NEW r \in AiRequests PROVE HonestLane(lane[r]) /\ GateStands(lane[r])
  BY DEF HonestInv
<1>1. lane[r] = Idle /\ Idle.pc = "idle"
  BY DEF AiInit, Idle
<1> QED
  BY <1>1 DEF HonestLane, GateStands

LEMMA HonestNext == ASSUME AiInv, HonestInv, [AiNext]_aiVars PROVE HonestInv'
<1>1. CASE UNCHANGED aiVars
  BY <1>1, HonestSame DEF aiVars
<1>2. CASE AiNext
  <2>1. ASSUME NEW r \in AiRequests, NEW t \in AiTenants, NEW skip \in BOOLEAN,
               \/ \E asked \in AskedKinds : StartExtract(r, t, skip, asked)
               \/ \E k \in SignalKinds, p \in 0 .. PageCount : StartSignal(r, t, skip, k, p)
        PROVE  HonestInv'
    BY <2>1, StartHonest
  <2>2. ASSUME NEW r \in AiRequests, Lookup(r) \/ Dispatch(r) \/ Annotate(r) PROVE HonestInv'
    BY <2>2, LookupHonest, DispatchHonest, AnnotateHonest
  <2>3. ASSUME NEW key \in DOMAIN signals, SignalExpires(key) PROVE HonestInv'
    BY <2>3, HonestSame DEF SignalExpires
  <2> QED
    BY <1>2, <2>1, <2>2, <2>3, DeployHonest DEF AiNext
<1> QED
  BY <1>1, <1>2

-----------------------------------------------------------------------------
(* What is behind a gap.                                                   *)

OnPage(job) == job[1] \in TextKinds \/ job[2] \in 0 .. PageCount - 1

\* The lane of an extract stays on the pages of the document, and what it has attached
\* empty of a kind that looks at the page has a failure on its key.
Grounded(q) ==
  q.endpoint = "extract" /\ q.pc # "idle" =>
    /\ \A job \in ToSet(q.todo) : OnPage(job)
    /\ \A g \in q.got : g[1][1] \notin TextKinds /\ g[2] # "found"
                          => SignalKey(q.tenant, g[1][1], g[1][2]) \in failed

GapsInv == \A r \in AiRequests : Grounded(lane[r])

LEMMA OneLaneGrounded ==
  ASSUME LaneShape, GapsInv, failed \subseteq failed', NEW r \in AiRequests, NEW q,
         lane' = [lane EXCEPT ![r] = q], Grounded(q)
  PROVE  GapsInv'
<1>1. \A x \in AiRequests : lane'[x] = q \/ lane'[x] = lane[x]
  BY DEF LaneShape
<1> QED
  BY <1>1 DEF GapsInv, Grounded

LEMMA WorklistOnPage ==
  ASSUME NEW asked, NEW job \in ToSet(Worklist(asked))
  PROVE  OnPage(job)
<1> DEFINE c == <<"classification", NoPage>>
           doc == IF "classification" \in asked THEN <<c>> ELSE <<>>
           pages == Those(PageJobs, asked \X (0 .. PageCount - 1))
<1>1. pages \in Seq(Jobs) /\ \A x \in ToSet(pages) : x \in asked \X (0 .. PageCount - 1)
  BY PageJobsDistinct, ThoseAreInOrder
<1>2. c \in Jobs /\ OnPage(c)
  BY DEF Jobs, Kinds, NoPage, OnPage, TextKinds
<1> HIDE DEF pages, c
<1>3. doc \in Seq(Jobs) /\ \A x \in ToSet(doc) : x = c
  BY <1>2 DEF ToSet
<1> HIDE DEF doc
<1>4. Worklist(asked) = doc \o pages
  BY DEF Worklist, doc, pages, c
<1>5. job \in ToSet(doc) \/ job \in ToSet(pages)
  <2>1. PICK i \in DOMAIN (doc \o pages) : job = (doc \o pages)[i]
    BY <1>4 DEF ToSet
  <2>2. CASE i <= Len(doc)
    <3>1. i \in DOMAIN doc /\ job = doc[i]
      BY <1>1, <1>3, <2>1, <2>2
    <3> QED
      BY <3>1 DEF ToSet
  <2>3. CASE ~(i <= Len(doc))
    <3>1. i - Len(doc) \in DOMAIN pages /\ job = pages[i - Len(doc)]
      BY <1>1, <1>3, <2>1, <2>3
    <3> QED
      BY <3>1 DEF ToSet
  <2> QED
    BY <2>2, <2>3
<1>6. CASE job \in ToSet(doc)
  BY <1>2, <1>3, <1>6
<1>7. CASE job \in ToSet(pages)
  BY <1>1, <1>7 DEF OnPage
<1> QED
  BY <1>5, <1>6, <1>7

LEMMA StartGrounded ==
  ASSUME AiInv, GapsInv, NEW r \in AiRequests, NEW t \in AiTenants, NEW skip \in BOOLEAN,
         \/ \E asked \in AskedKinds : StartExtract(r, t, skip, asked)
         \/ \E k \in SignalKinds, p \in 0 .. PageCount : StartSignal(r, t, skip, k, p)
  PROVE  GapsInv'
<1>1. ASSUME NEW asked \in AskedKinds, StartExtract(r, t, skip, asked) PROVE GapsInv'
  <2> DEFINE status == BuildContext(t, skip)
             todo == IF status = "enabled" THEN Worklist(asked) ELSE <<>>
             wanted == {todo[i] : i \in DOMAIN todo}
             pc == IF todo = <<>> THEN "annotate" ELSE "lookup"
             q == [Idle EXCEPT !.pc = pc,
                     !.endpoint = "extract", !.tenant = t, !.skip = skip, !.status = status,
                     !.todo = todo, !.wanted = wanted]
  <2>1. lane' = [lane EXCEPT ![r] = q] /\ failed' = failed
    BY <1>1 DEF StartExtract
  <2>2. \A job \in ToSet(todo) : OnPage(job)
    BY WorklistOnPage DEF ToSet
  <2> HIDE DEF todo, wanted, pc
  <2>3. q.todo = todo /\ q.got = {}
    BY DEF Idle
  <2> HIDE DEF q
  <2> QED
    BY <2>1, <2>2, <2>3, OneLaneGrounded DEF AiInv, Grounded
<1>2. ASSUME NEW k \in SignalKinds, NEW p \in 0 .. PageCount, StartSignal(r, t, skip, k, p)
      PROVE  GapsInv'
  <2> DEFINE job == <<k, IF k = "classification" THEN NoPage ELSE p>>
             code == CASE ~deployment.on -> "disabled"
                       [] deployment.on /\ skip -> "skipped"
                       [] OTHER -> "enabled"
             status == BuildContext(t, skip)
             q == [Idle EXCEPT !.pc = "lookup", !.endpoint = "signal", !.tenant = t,
                     !.skip = skip, !.status = status, !.todo = <<job>>, !.wanted = {job},
                     !.code = code]
  <2>1. lane' = [lane EXCEPT ![r] = q] /\ failed' = failed
    BY <1>2 DEF StartSignal
  <2> HIDE DEF job, code, status
  <2>2. q.endpoint = "signal"
    BY DEF Idle
  <2> HIDE DEF q
  <2> QED
    BY <2>1, <2>2, OneLaneGrounded DEF AiInv, Grounded
<1> QED
  BY <1>1, <1>2

\* A job answered: with what was found, or with a failure noted, or of a text kind.
LEMMA AnsweredGrounded ==
  ASSUME LaneShape, HonestInv, GapsInv, failed \subseteq failed', NEW r \in AiRequests,
         NEW data, NEW q, AtWork(lane[r]),
         lane' = [lane EXCEPT ![r] = q], DOMAIN q = DOMAIN lane[r],
         SameBut(q, Attached(lane[r], data), {"spent", "sent"}),
         lane[r].endpoint = "extract" =>
           Job(r)[1] \in TextKinds \/ data = "found" \/ JobKey(r) \in failed'
  PROVE  GapsInv'
<1> DEFINE old == lane[r]
           a == Attached(old, data)
           t == old.todo
<1>1. t \in Seq(Jobs) /\ t # <<>> /\ old.pc # "idle"
  BY DEF HonestInv, HonestLane, Working, AtWork
<1>2. a.todo = Tail(t) /\ a.got = old.got \union {<<Head(t), data>>}
      /\ a.endpoint = old.endpoint /\ a.tenant = old.tenant
  BY DEF LaneShape, Attached
<1> HIDE DEF a
<1>3. /\ q.todo = Tail(t) /\ q.got = old.got \union {<<Head(t), data>>}
      /\ q.endpoint = old.endpoint /\ q.tenant = old.tenant
  BY <1>2 DEF LaneShape, SameBut, a
<1>4. \A x \in ToSet(Tail(t)) : x \in ToSet(t)
  <2> HIDE DEF t
  <2>1. /\ DOMAIN Tail(t) = 1 .. Len(t) - 1 /\ DOMAIN t = 1 .. Len(t) /\ Len(t) \in Nat
        /\ \A i \in 1 .. Len(t) - 1 : Tail(t)[i] = t[i + 1]
    BY <1>1
  <2>2. \A i \in DOMAIN Tail(t) : i + 1 \in DOMAIN t /\ Tail(t)[i] = t[i + 1]
    BY <2>1
  <2> QED
    BY <2>2 DEF ToSet
<1>5. JobKey(r) = SignalKey(old.tenant, Head(t)[1], Head(t)[2]) /\ Job(r) = Head(t)
  BY DEF JobKey, Job
<1>6. ASSUME q.endpoint = "extract"
      PROVE  /\ \A job \in ToSet(q.todo) : OnPage(job)
             /\ \A g \in q.got : g[1][1] \notin TextKinds /\ g[2] # "found"
                                  => SignalKey(q.tenant, g[1][1], g[1][2]) \in failed'
  <2>1. /\ \A job \in ToSet(t) : OnPage(job)
        /\ \A g \in old.got : g[1][1] \notin TextKinds /\ g[2] # "found"
                               => SignalKey(old.tenant, g[1][1], g[1][2]) \in failed
    BY <1>1, <1>3, <1>6 DEF GapsInv, Grounded
  <2>2. Head(t)[1] \in TextKinds \/ data = "found"
        \/ SignalKey(old.tenant, Head(t)[1], Head(t)[2]) \in failed'
    BY <1>3, <1>5, <1>6
  <2> DEFINE x == <<Head(t), data>>
  <2>3. x[1] = Head(t) /\ x[2] = data
    OBVIOUS
  <2> HIDE DEF x, old, t
  <2>4. q.got = old.got \union {x}
    BY <1>3 DEF x, old, t
  <2> QED
    BY <1>3, <1>4, <2>1, <2>2, <2>3, <2>4
<1>7. \A y \in AiRequests : lane'[y] = IF y = r THEN q ELSE lane[y]
  BY DEF LaneShape
<1>8. Grounded(lane[r])'
  BY <1>6, <1>7 DEF Grounded
<1>9. \A y \in AiRequests \ {r} : Grounded(lane[y])'
  BY <1>7 DEF GapsInv, Grounded
<1> QED
  BY <1>8, <1>9 DEF GapsInv

LEMMA AttachedGrounded ==
  ASSUME LaneShape, HonestInv, GapsInv, failed \subseteq failed', NEW r \in AiRequests,
         NEW data, AtWork(lane[r]), lane' = [lane EXCEPT ![r] = Attached(lane[r], data)],
         lane[r].endpoint = "extract" =>
           Job(r)[1] \in TextKinds \/ data = "found" \/ JobKey(r) \in failed'
  PROVE  GapsInv'
<1> DEFINE q == Attached(lane[r], data)
<1>1. DOMAIN q = DOMAIN lane[r]
  BY AttachedCharges
<1>2. lane' = [lane EXCEPT ![r] = q] /\ SameBut(q, Attached(lane[r], data), {"spent", "sent"})
  BY DEF SameBut
<1> HIDE DEF q
<1> QED
  BY <1>1, <1>2, AnsweredGrounded

\* A hit that is empty was left by a failure on its key.
LEMMA LookupGrounded ==
  ASSUME AiInv, HonestInv, GapsInv, NEW r \in AiRequests, Lookup(r)
  PROVE  GapsInv'
<1> DEFINE data == GetCached(JobKey(r))
           q == lane[r]
           q2 == [q EXCEPT !.pc = "dispatch"]
<1>1. lane[r].pc = "lookup" /\ failed' = failed /\ LaneShape /\ AtWork(lane[r])
  BY DEF Lookup, AiInv, AtWork
<1>2. lane' = [lane EXCEPT ![r] =
         CASE data # "none" -> Attached(q, data)
           [] data = "none" /\ q.status # "enabled"
                -> Attached(q, EmptyForKind(Job(r)[1]))
           [] OTHER -> q2]
  BY DEF Lookup
<1>3. CASE data # "none"
  <2>1. lane' = [lane EXCEPT ![r] = Attached(lane[r], data)]
    BY <1>2, <1>3
  <2>2. JobKey(r) \in DOMAIN signals /\ data = signals[JobKey(r)]
    BY <1>3 DEF GetCached
  <2>3. JobKey(r).kind = Job(r)[1] /\ JobKey(r).page = Job(r)[2]
    BY DEF JobKey, SignalKey
  <2>4. lane[r].endpoint = "extract" => OnPage(Job(r))
    <3> DEFINE t == lane[r].todo
    <3>1. t \in Seq(Jobs) /\ t # <<>>
      BY <1>1 DEF HonestInv, HonestLane, Working
    <3>2. lane[r].endpoint = "extract" => \A job \in ToSet(t) : OnPage(job)
      BY <1>1 DEF GapsInv, Grounded
    <3> HIDE DEF t
    <3>3. 1 \in DOMAIN t /\ Head(t) = t[1]
      BY <3>1
    <3>4. Head(t) \in ToSet(t)
      BY <3>3 DEF ToSet
    <3> QED
      BY <3>2, <3>4 DEF Job, t
  <2>5. lane[r].endpoint = "extract" =>
          Job(r)[1] \in TextKinds \/ data = "found" \/ JobKey(r) \in failed'
    BY <1>1, <2>2, <2>3, <2>4 DEF AiInv, EmptiesExplained, OnPage
  <2> HIDE DEF data
  <2> QED
    BY <1>1, <2>1, <2>5, AttachedGrounded
<1>4. CASE data = "none" /\ q.status # "enabled"
  <2>1. lane' = [lane EXCEPT ![r] = Attached(lane[r], EmptyForKind(Job(r)[1]))]
    BY <1>2, <1>4
  <2>2. lane[r].endpoint # "extract"
    BY <1>1, <1>4 DEF HonestInv, HonestLane, Gated
  <2> DEFINE any == EmptyForKind(Job(r)[1])
  <2>3. lane' = [lane EXCEPT ![r] = Attached(lane[r], any)]
    BY <2>1
  <2> HIDE DEF any
  <2> QED
    BY <1>1, <2>2, <2>3, AttachedGrounded
<1>5. CASE data = "none" /\ ~(q.status # "enabled")
  <2>1. lane' = [lane EXCEPT ![r] = q2]
    BY <1>2, <1>5
  <2>2. /\ q2.pc = "dispatch" /\ q2.endpoint = q.endpoint /\ q2.tenant = q.tenant
        /\ q2.todo = q.todo /\ q2.got = q.got
    BY <1>1 DEF LaneShape
  <2> HIDE DEF q2, data
  <2>3. Grounded(q)
    BY DEF GapsInv
  <2>4. Grounded(q2)
    BY <1>1, <2>2, <2>3 DEF Grounded
  <2> QED
    BY <1>1, <2>1, <2>4, OneLaneGrounded
<1> QED
  BY <1>3, <1>4, <1>5

LEMMA CallVisionGrounded ==
  ASSUME AiInv, HonestInv, GapsInv, NEW r \in AiRequests, NEW works,
         lane[r].pc = "dispatch", CallVision(r, works)
  PROVE  GapsInv'
<1> DEFINE data == IF works THEN "found" ELSE "empty"
           cost == VisionCost[Job(r)[1]]
           a == Attached(lane[r], data)
           q == [a EXCEPT !.spent = lane[r].spent + cost, !.sent = lane[r].sent + cost]
<1>1. lane' = [lane EXCEPT ![r] = q]
  BY DEF CallVision
<1>2. failed \subseteq failed' /\ (data = "found" \/ JobKey(r) \in failed')
  BY DEF CallVision
<1> HIDE DEF data, cost
<1>3. DOMAIN a = DOMAIN lane[r]
  BY AttachedCharges DEF AiInv
<1> HIDE DEF a
<1>4. DOMAIN q = DOMAIN lane[r] /\ \A f \in DOMAIN q \ {"spent", "sent"} : q[f] = a[f]
  BY <1>3
<1> HIDE DEF q
<1>5. LaneShape /\ AtWork(lane[r])
      /\ SameBut(q, Attached(lane[r], data), {"spent", "sent"})
  BY <1>4 DEF AiInv, AtWork, SameBut, a
<1> QED
  BY <1>1, <1>2, <1>4, <1>5, AnsweredGrounded

LEMMA DispatchGrounded ==
  ASSUME AiInv, HonestInv, GapsInv, NEW r \in AiRequests, Dispatch(r)
  PROVE  GapsInv'
<1>1. lane[r].pc = "dispatch" /\ LaneShape /\ AtWork(lane[r])
  BY DEF Dispatch, AiInv, AtWork
<1>2. ASSUME NEW data, Stored(r, data), failed \subseteq failed',
             lane[r].endpoint = "extract" =>
               Job(r)[1] \in TextKinds \/ data = "found" \/ JobKey(r) \in failed'
      PROVE  GapsInv'
  <2>1. lane' = [lane EXCEPT ![r] = Attached(lane[r], data)]
    BY <1>2 DEF Stored
  <2> QED
    BY <1>1, <1>2, <2>1, AttachedGrounded
<1>3. ASSUME ExtractLanguage(r) \/ ExtractSpell(r) \/ ExtractClassification(r) PROVE GapsInv'
  <2>1. NoText(r) /\ Job(r)[1] \in TextKinds
    BY <1>3 DEF ExtractLanguage, ExtractSpell, ExtractClassification, TextKinds
  <2> DEFINE data == EmptyForKind(Job(r)[1])
  <2>2. Stored(r, data) /\ failed' = failed
    BY <2>1 DEF NoText
  <2> HIDE DEF data
  <2> QED
    BY <1>2, <2>1, <2>2
<1>4. ASSUME NEW broken \in BOOLEAN, NoRaster(r, broken) PROVE GapsInv'
  <2>1. Stored(r, "empty") /\ failed \subseteq failed' /\ PagePng(Job(r)[2]) = broken
        /\ (broken => JobKey(r) \in failed') /\ Job(r)[1] \notin TextKinds
    BY <1>4 DEF NoRaster
  <2>2. lane[r].endpoint = "extract" => OnPage(Job(r))
    <3> DEFINE t == lane[r].todo
    <3>1. t \in Seq(Jobs) /\ t # <<>>
      BY <1>1 DEF HonestInv, HonestLane, Working
    <3>2. lane[r].endpoint = "extract" => \A job \in ToSet(t) : OnPage(job)
      BY <1>1 DEF GapsInv, Grounded
    <3> HIDE DEF t
    <3>3. 1 \in DOMAIN t /\ Head(t) = t[1]
      BY <3>1
    <3>4. Head(t) \in ToSet(t)
      BY <3>3 DEF ToSet
    <3> QED
      BY <3>2, <3>4 DEF Job, t
  <2>3. lane[r].endpoint = "extract" => JobKey(r) \in failed'
    BY <2>1, <2>2 DEF OnPage, PagePng
  <2> QED
    BY <1>2, <2>1, <2>3
<1>5. ASSUME NEW works \in BOOLEAN, ExtractBarcodes(r, works) PROVE GapsInv'
  <2> DEFINE data == IF works THEN "found" ELSE "empty"
  <2>1. Stored(r, data) /\ failed \subseteq failed' /\ (data = "found" \/ JobKey(r) \in failed')
    BY <1>5 DEF ExtractBarcodes
  <2> HIDE DEF data
  <2> QED
    BY <1>2, <2>1
<1>6. ASSUME NEW works \in BOOLEAN,
             ExtractLogos(r, works) \/ ExtractSymbols(r, works) \/ ExtractTrapZones(r, works)
      PROVE  GapsInv'
  BY <1>1, <1>6, CallVisionGrounded DEF ExtractLogos, ExtractSymbols, ExtractTrapZones
<1>7. ASSUME Refuse(r) PROVE GapsInv'
  <2> DEFINE pc == IF lane[r].endpoint = "extract" THEN "annotate" ELSE "done"
             q == [lane[r] EXCEPT !.pc = pc, !.todo = <<>>,
                                  !.warned = lane[r].warned \union {Job(r)[1]}]
  <2>1. lane' = [lane EXCEPT ![r] = q] /\ failed' = failed
    BY <1>7 DEF Refuse
  <2>2. q.todo = <<>> /\ q.got = lane[r].got /\ q.tenant = lane[r].tenant
        /\ q.endpoint = lane[r].endpoint
    BY <1>1 DEF LaneShape
  <2>3. ToSet(<<>>) = {}
    BY DEF ToSet
  <2> HIDE DEF q
  <2>4. Grounded(q)
    BY <1>1, <2>2, <2>3 DEF GapsInv, Grounded
  <2> QED
    BY <1>1, <2>1, <2>4, OneLaneGrounded
<1> QED
  BY <1>3, <1>4, <1>5, <1>6, <1>7 DEF Dispatch

LEMMA AnnotateGrounded ==
  ASSUME AiInv, HonestInv, GapsInv, NEW r \in AiRequests, Annotate(r)
  PROVE  GapsInv'
<1> DEFINE old == lane[r]
           code == StatusCode(old)
           q == [old EXCEPT !.pc = "done", !.code = code]
<1>1. lane' = [lane EXCEPT ![r] = q] /\ failed' = failed /\ old.pc = "annotate"
  BY DEF Annotate
<1> HIDE DEF code
<1>2. q.todo = old.todo /\ q.got = old.got /\ q.tenant = old.tenant
      /\ q.endpoint = old.endpoint
  BY DEF AiInv, LaneShape
<1> HIDE DEF q
<1>3. Grounded(q)
  BY <1>1, <1>2 DEF GapsInv, Grounded
<1> QED
  BY <1>1, <1>3, OneLaneGrounded DEF AiInv

LEMMA InitGaps == AiInit => GapsInv
<1> SUFFICES ASSUME AiInit, NEW r \in AiRequests PROVE Grounded(lane[r])
  BY DEF GapsInv
<1>1. lane[r] = Idle /\ Idle.pc = "idle"
  BY DEF AiInit, Idle
<1> QED
  BY <1>1 DEF Grounded

LEMMA GapsSame == ASSUME GapsInv, UNCHANGED <<lane, failed>> PROVE GapsInv'
BY DEF GapsInv, Grounded

LEMMA GapsNext == ASSUME AiInv, HonestInv, GapsInv, [AiNext]_aiVars PROVE GapsInv'
<1>1. CASE UNCHANGED aiVars
  BY <1>1, GapsSame DEF aiVars
<1>2. CASE AiNext
  <2>1. ASSUME NEW r \in AiRequests, NEW t \in AiTenants, NEW skip \in BOOLEAN,
               \/ \E asked \in AskedKinds : StartExtract(r, t, skip, asked)
               \/ \E k \in SignalKinds, p \in 0 .. PageCount : StartSignal(r, t, skip, k, p)
        PROVE  GapsInv'
    BY <2>1, StartGrounded
  <2>2. ASSUME NEW r \in AiRequests, Lookup(r) \/ Dispatch(r) \/ Annotate(r) PROVE GapsInv'
    BY <2>2, LookupGrounded, DispatchGrounded, AnnotateGrounded
  <2>3. ASSUME NEW key \in DOMAIN signals, SignalExpires(key) PROVE GapsInv'
    BY <2>3, GapsSame DEF SignalExpires
  <2>4. CASE Deploy
    BY <2>4, GapsSame DEF Deploy
  <2> QED
    BY <1>2, <2>1, <2>2, <2>3, <2>4 DEF AiNext
<1> QED
  BY <1>1, <1>2

\* The code ai_tier means that the gate was open; an extract with another code has spent
\* nothing and carries nothing; a signal it wanted is attached or the one warning names the
\* refused kind; and what is attached empty has a failure on its own key behind it
\* (build_context, annotate_status, run_signals_on_document, run_signal).
THEOREM StatusIsHonest == AiSpec => []StatusHonest
<1>1. AiInv /\ HonestInv /\ GapsInv => StatusHonest
  <2> SUFFICES ASSUME HonestInv, GapsInv, NEW r \in AiRequests,
                      lane[r].pc = "done", lane[r].endpoint = "extract"
               PROVE  /\ lane[r].code = "ai_tier" <=> lane[r].status = "enabled"
                      /\ lane[r].code # "ai_tier" => lane[r].sent = 0 /\ lane[r].got = {}
                      /\ {g[1] : g \in lane[r].got} # lane[r].wanted <=> lane[r].warned # {}
                      /\ Cardinality(lane[r].warned) <= 1
                      /\ \A g \in lane[r].got :
                           g[1][1] \notin TextKinds /\ g[2] # "found"
                             => SignalKey(lane[r].tenant, g[1][1], g[1][2]) \in failed
    BY DEF StatusHonest
  <2>1. Gated(lane[r]) /\ Ended(lane[r])
    BY DEF HonestInv, HonestLane
  <2>2. Cardinality({}) = 0 /\ \A k : Cardinality({k}) = 1
    BY FS_EmptySet, FS_Singleton
  <2>3. Cardinality(lane[r].warned) <= 1
    <3>1. CASE lane[r].warned = {}
      BY <2>2, <3>1
    <3>2. ASSUME NEW k, lane[r].warned = {k} PROVE Cardinality(lane[r].warned) <= 1
      <4>1. Cardinality(lane[r].warned) = 1
        BY <2>2, <3>2
      <4> QED
        BY <4>1
    <3> QED
      BY <2>1, <3>1, <3>2 DEF Ended
  <2>4. SeenBy(lane[r]) # lane[r].wanted <=> lane[r].warned # {}
    BY <2>1 DEF Ended
  <2>5. Grounded(lane[r])
    BY DEF GapsInv
  <2>6. \A g \in lane[r].got :
          g[1][1] \notin TextKinds /\ g[2] # "found"
            => SignalKey(lane[r].tenant, g[1][1], g[1][2]) \in failed
    BY <2>5 DEF Grounded
  <2> QED
    BY <2>1, <2>3, <2>4, <2>6 DEF Gated, SeenBy
<1>2. AiInv /\ HonestInv /\ [AiNext]_aiVars => HonestInv'
  BY HonestNext
<1>3. AiInv /\ HonestInv /\ GapsInv /\ [AiNext]_aiVars => GapsInv'
  BY GapsNext
<1> QED
  BY <1>1, <1>2, <1>3, InitHonest, InitGaps, AiInvariance, PTL DEF AiSpec
=============================================================================
