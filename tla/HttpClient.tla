----------------------------- MODULE HttpClient -----------------------------
(***************************************************************************)
(* HttpClient._post of client/http_client.py: the order in which a client  *)
(* tries the targets of its pool, the contract it requires of each, and    *)
(* its retries, against replicas that limit their rate (RateLimiter) and   *)
(* may fail or lose the answer.  The clock runs while a client sleeps.     *)
(***************************************************************************)
EXTENDS RateLimiter, Selections, Sequences, SequencesExt

CONSTANTS
    Clients,
    Pool,         \* the plant of each target, or None; the servers are its indices
    Configs,      \* how a client may be configured
    MaxRetries,   \* max_retries
    MaxPosts,     \* bound on calls of _post
    MaxDeploys    \* bound on changes of a server's contract

Modes == {"single", "plant", "failover", "hybrid"}

ASSUME ClientAssumption ==
    /\ Len(Pool) \in Nat \ {0} /\ DOMAIN Pool = 1 .. Len(Pool) /\ Servers = DOMAIN Pool
    /\ \A g \in Configs : /\ g.mode \in Modes /\ g.digest \in Nat /\ g.tenant \in Tenants
                          /\ g.picky \in BOOLEAN
    /\ MaxRetries \in Nat /\ MaxPosts \in Nat /\ MaxDeploys \in Nat

VARIABLES
    config,      \* each client's configuration: mode, plant, digest of its affinity key,
                 \* tenant, and whether it requires section versions
    deployed,    \* whether each server's contract satisfies a picky client
    contracts,   \* _contract_cache of each client: what it read of each server, or None
    client,      \* each client's call of _post
    posts, deploys,
    tried,       \* history: attempts of the call at each server
    skipped,     \* history: servers the call passed over for their contract
    undercut     \* history: clients told to wait, whose bucket has granted a token since

clientVars == <<config, deployed, contracts, client, posts, deploys, tried, skipped, undercut>>
vars == <<limiterVars, clientVars>>

Contracts == {"good", "bad"}
Ended == {"idle", "done", "rejected", "failed"}
Call == [pc: Ended \cup {"contract", "send", "sleep"}, endpoint: Endpoints \cup {None},
         at: Nat, attempt: 0 .. MaxRetries, wake: Nat, told: BOOLEAN]

AtRest == [pc |-> "idle", endpoint |-> None, at |-> 1, attempt |-> 0, wake |-> 0, told |-> FALSE]

\* _rotate_by_affinity: without an affinity key the digest is 0.
Rotated(s, digest) ==
    LET offset == IF s = <<>> THEN 0 ELSE digest % Len(s)
    IN  SubSeq(s, offset + 1, Len(s)) \o SubSeq(s, 1, offset)

\* A mutant: in hybrid mode the failover pool is only the other plants'.
OrderedTargetsOwnPlantOnly(g) ==
    LET ofPlant == {i \in DOMAIN Pool : g.plant # None /\ Pool[i] = g.plant}
        same == Those([i \in DOMAIN Pool |-> i], ofPlant)
    IN  IF g.mode = "single" THEN <<1>> ELSE Rotated(IF same = <<>> THEN <<1>> ELSE same, g.digest)

\* _ordered_targets.
OrderedTargets(g) ==
    LET ofPlant == {i \in DOMAIN Pool : g.plant # None /\ Pool[i] = g.plant}
        all == [i \in DOMAIN Pool |-> i]
        same == Those(all, ofPlant)
        primary == Rotated(IF same = <<>> THEN <<1>> ELSE same, g.digest)
        secondary == Rotated(IF same = <<>> THEN all ELSE Those(all, DOMAIN Pool \ ofPlant),
                             g.digest)
    IN  CASE g.mode = "single" -> <<1>>
          [] g.mode = "plant" -> primary
          [] g.mode = "failover" -> primary \o secondary
          [] OTHER -> primary \o Those(secondary, Servers \ ToSet(primary))

Order(c) == OrderedTargets(config[c])
Target(c) == Order(c)[client[c].at]

\* A mutant: one bucket for an endpoint, whoever calls it.
BucketOfEndpoint(c) == <<Target(c), CHOOSE t \in Tenants : TRUE, client[c].endpoint>>

\* The bucket that _enforce_rate_limit consults for a client's call.
BucketOf(c) == <<Target(c), config[c].tenant, client[c].endpoint>>

Goes(c, call) == client' = [client EXCEPT ![c] = call]
Ends(c, pc) == Goes(c, [client[c] EXCEPT !.pc = pc])

\* On to the next target, which there may not be.
NextTarget(c) ==
    Goes(c, [client[c] EXCEPT !.pc = "contract", !.at = client[c].at + 1, !.attempt = 0,
                              !.wake = 0, !.told = FALSE])

Sleeps(c, seconds, told) ==
    Goes(c, [client[c] EXCEPT !.pc = "sleep", !.wake = clock + seconds * TicksPerSecond,
                              !.told = told])

-----------------------------------------------------------------------------
Init ==
    /\ LimiterInit
    /\ config \in [Clients -> Configs]
    /\ deployed \in [Servers -> Contracts]
    /\ contracts = [c \in Clients |-> [s \in Servers |-> None]]
    /\ client = [c \in Clients |-> AtRest]
    /\ posts = 0 /\ deploys = 0
    /\ tried = [c \in Clients |-> [s \in Servers |-> 0]]
    /\ skipped = [c \in Clients |-> {}]
    /\ undercut = {}

Post(c) ==
    /\ client[c].pc \in Ended
    /\ posts < MaxPosts /\ posts' = posts + 1
    /\ \E e \in Endpoints : Goes(c, [AtRest EXCEPT !.pc = "contract", !.endpoint = e])
    /\ tried' = [tried EXCEPT ![c] = [s \in Servers |-> 0]]
    /\ skipped' = [skipped EXCEPT ![c] = {}]
    /\ UNCHANGED <<limiterVars, config, deployed, contracts, deploys, undercut>>

\* The call has run out of targets: CodexClientError.
GiveUp(c) ==
    /\ client[c].pc = "contract" /\ client[c].at > Len(Order(c))
    /\ Ends(c, "failed")
    /\ UNCHANGED <<limiterVars, config, deployed, contracts, posts, deploys, tried, skipped, undercut>>

\* A mutant: a contract that cannot be read is taken for a good one.
EnsureContractLeniently(c) ==
    /\ client[c].pc = "contract" /\ client[c].at <= Len(Order(c))
    /\ \E read \in {deployed[Target(c)], None} :
          LET known == IF config[c].picky /\ contracts[c][Target(c)] = None THEN read
                       ELSE contracts[c][Target(c)]
          IN  /\ contracts' = [contracts EXCEPT ![c][Target(c)] = known]
              /\ IF config[c].picky /\ known = "bad"
                 THEN NextTarget(c) /\ skipped' = [skipped EXCEPT ![c] = skipped[c] \cup {Target(c)}]
                 ELSE Ends(c, "send") /\ UNCHANGED skipped
    /\ UNCHANGED <<limiterVars, config, deployed, posts, deploys, tried, undercut>>

\* _ensure_contract_compatible: read once per target if the client requires anything; a
\* target that cannot be read, or does not satisfy the client, is passed over.
EnsureContract(c) ==
    /\ client[c].pc = "contract" /\ client[c].at <= Len(Order(c))
    /\ \E read \in {deployed[Target(c)], None} :
          LET known == IF config[c].picky /\ contracts[c][Target(c)] = None THEN read
                       ELSE contracts[c][Target(c)]
          IN  /\ contracts' = [contracts EXCEPT ![c][Target(c)] = known]
              /\ IF config[c].picky /\ known # "good"
                 THEN NextTarget(c) /\ skipped' = [skipped EXCEPT ![c] = skipped[c] \cup {Target(c)}]
                 ELSE Ends(c, "send") /\ UNCHANGED skipped
    /\ UNCHANGED <<limiterVars, config, deployed, posts, deploys, tried, undercut>>

Power2(n) == IF n = 0 THEN 1 ELSE IF n = 1 THEN 2 ELSE IF n = 2 THEN 4 ELSE 8
\* min(2.0 ** attempt, 8.0).
BackOff(c) == Sleeps(c, Power2(client[c].attempt), FALSE)

Trying(c) ==
    /\ client[c].pc = "send"
    /\ tried' = [tried EXCEPT ![c][Target(c)] = tried[c][Target(c)] + 1]
    /\ UNCHANGED <<config, deployed, contracts, posts, deploys, skipped>>

\* The request does not reach the handler: a transport failure, or a 4xx of authenticate.
Unreached(c) ==
    /\ Trying(c)
    /\ BackOff(c) \/ Ends(c, "rejected")
    /\ UNCHANGED <<limiterVars, undercut>>

\* 429 with Retry-After, which the client caps at 60 seconds.
Refused(c) ==
    /\ Trying(c) /\ ~Admits(BucketOf(c)) /\ Acquire(BucketOf(c))
    /\ Sleeps(c, Lesser(RetryAfter(BucketOf(c)), 60), TRUE)
    /\ undercut' = undercut \ {c}

Waiting(b) == {c \in Clients : client[c].pc = "sleep" /\ client[c].told /\ BucketOf(c) = b}

\* The handler runs: 2xx, a 4xx, or a 5xx or an answer that never comes.
Served(c) ==
    /\ Trying(c) /\ Admits(BucketOf(c)) /\ Acquire(BucketOf(c))
    /\ Ends(c, "done") \/ Ends(c, "rejected") \/ BackOff(c)
    /\ undercut' = undercut \cup Waiting(BucketOf(c))

\* time.sleep is over; after the last attempt the loop goes on to the next target.
Wake(c) ==
    /\ client[c].pc = "sleep" /\ client[c].wake <= clock
    /\ IF client[c].attempt < MaxRetries
       THEN Goes(c, [client[c] EXCEPT !.pc = "send", !.attempt = client[c].attempt + 1,
                                      !.wake = 0, !.told = FALSE])
       ELSE NextTarget(c)
    /\ undercut' = undercut \ {c}
    /\ UNCHANGED <<limiterVars, config, deployed, contracts, posts, deploys, tried, skipped>>

\* A server is upgraded or rolled back.
Deploy(s) ==
    /\ deploys < MaxDeploys /\ deploys' = deploys + 1
    /\ \E v \in Contracts : deployed' = [deployed EXCEPT ![s] = v]
    /\ UNCHANGED <<limiterVars, config, contracts, client, posts, tried, skipped, undercut>>

Next ==
    \/ \E c \in Clients :
          \/ Post(c) \/ GiveUp(c) \/ EnsureContract(c) \/ Wake(c)
          \/ Unreached(c) \/ Refused(c) \/ Served(c)
    \/ \E s \in Servers : Deploy(s)
    \/ (Tick \/ MarkWindow) /\ UNCHANGED clientVars

Spec == Init /\ [][Next]_vars

-----------------------------------------------------------------------------
(* Properties.                                                             *)

\* Every variable has its type.
TypeOK ==
    /\ LimiterTypeOK
    /\ config \in [Clients -> Configs]
    /\ deployed \in [Servers -> Contracts]
    /\ contracts \in [Clients -> [Servers -> Contracts \cup {None}]]
    /\ client \in [Clients -> Call]
    /\ \A c \in Clients : client[c].pc \in {"send", "sleep"} =>
           client[c].endpoint \in Endpoints /\ client[c].at \in 1 .. Len(Order(c))
    /\ posts \in 0 .. MaxPosts /\ deploys \in 0 .. MaxDeploys
    /\ tried \in [Clients -> [Servers -> Nat]]
    /\ skipped \in [Clients -> SUBSET Servers]
    /\ undercut \subseteq Clients

Told(c) == client[c].pc = "sleep" /\ client[c].told

\* Retry-After is honest, even capped at 60 seconds: a client that slept as long as it was
\* told finds a token, unless the bucket granted one to somebody else meanwhile
\* (_enforce_rate_limit and _post: "the server's quota math drives the wait").
HonestRetry ==
    \A c \in Clients :
        Told(c) /\ c \notin undercut /\ client[c].wake <= clock => Admits(BucketOf(c))

\* A noisy neighbour does not starve anyone: a client is refused only if the burst of its
\* own tenant and endpoint, at that replica, has been spent.
RefusedWhenSpent ==
    \A c \in Clients : Told(c) =>
        granted[<<Target(c), config[c].tenant, client[c].endpoint>>] >= Burst

\* A call that fails in a mode with failover has tried every target of the pool as often as
\* it may, or passed it over for its contract.
FailsAfterAll ==
    \A c \in Clients : client[c].pc = "failed" /\ config[c].mode \in {"failover", "hybrid"} =>
        \A s \in Servers : s \in skipped[c] \/ tried[c][s] > MaxRetries

\* An answer comes only from a server whose contract the client has read and found to be
\* what it requires, through failed reads, failover and deployments.
AnswersFromChecked ==
    \A c \in Clients : client[c].pc \in {"done", "rejected"} /\ config[c].picky =>
        contracts[c][Target(c)] = "good"
=============================================================================
