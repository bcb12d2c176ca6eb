----------------------------- MODULE MemoryCache -----------------------------
(***************************************************************************)
(* MemoryCache of api/cache.py, the result cache of a process without      *)
(* Redis: an OrderedDict in order of use and no lock.  The event loop and  *)
(* the threads of the executor call it at the same time.  The interpreter  *)
(* may switch threads between two operations on the dictionary, and each   *)
(* of these (in, move_to_end, [key], [key] =, len, popitem) is atomic: the *)
(* keys are strings, so that no Python code runs inside.                   *)
(***************************************************************************)
EXTENDS Naturals, Sequences, FiniteSets

CONSTANTS Threads, Keys, Values, MaxSize, Nothing

\* The executor has at most 32 threads, the event loop is one more, and the
\* cache holds 256 entries.
ASSUME MemoryCacheAssumption ==
    /\ IsFiniteSet(Threads)
    /\ MaxSize \in Nat /\ Cardinality(Threads) <= MaxSize
    /\ Nothing \notin Values /\ Nothing \notin Keys

VARIABLES
    order,    \* the keys of _store, least recently used first
    held,     \* the value of _store under each key, Nothing if it has no entry
    call,     \* each thread's get or set: where it is, its arguments, its result
    alone     \* history: the calls that no other call has overlapped so far

cacheVars == <<order, held, call, alone>>

GetSteps == {"get_in", "get_move", "get_read"}
SetSteps == {"set_in", "set_move", "set_store", "set_len", "set_pop"}
AtRest == {"idle", "raised"}

Call == [pc: AtRest \cup GetSteps \cup SetSteps, key: Keys \cup {Nothing},
         val: Values \cup {Nothing}]

Entries == {k \in Keys : held[k] # Nothing}

\* OrderedDict.move_to_end.
MoveToEnd(s, k) ==
    LET at == CHOOSE i \in 1 .. Len(s) : s[i] = k
    IN  [i \in 1 .. Len(s) |->
            IF i < at THEN s[i] ELSE IF i < Len(s) THEN s[i + 1] ELSE k]

GoTo(t, pc) == call' = [call EXCEPT ![t].pc = pc]
GetReturns(t, v) == call' = [call EXCEPT ![t] = [pc |-> "idle", key |-> call[t].key, val |-> v]]

-----------------------------------------------------------------------------
CacheInit ==
    /\ order = <<>>
    /\ held = [k \in Keys |-> Nothing]
    /\ call = [t \in Threads |-> [pc |-> "idle", key |-> Nothing, val |-> Nothing]]
    /\ alone = {}

Begin(t, pc, k, v) ==
    /\ call[t].pc \in AtRest
    /\ call' = [call EXCEPT ![t] = [pc |-> pc, key |-> k, val |-> v]]
    /\ alone' = IF \A u \in Threads \ {t} : call[u].pc \in AtRest THEN {t} ELSE {}
    /\ UNCHANGED <<order, held>>

\* A handler looks a key up, or stores a body; which key and when is not the
\* cache's business.
CallGet(t) == \E k \in Keys : Begin(t, "get_in", k, Nothing)
CallSet(t) == \E k \in Keys, v \in Values : Begin(t, "set_in", k, v)

\* if key in self._store, of either method.
GetIn(t) ==
    /\ call[t].pc = "get_in"
    /\ IF call[t].key \in Entries
       THEN GoTo(t, "get_move")
       ELSE GetReturns(t, Nothing)
    /\ UNCHANGED <<order, held, alone>>

SetIn(t) ==
    /\ call[t].pc = "set_in"
    /\ GoTo(t, IF call[t].key \in Entries THEN "set_move" ELSE "set_store")
    /\ UNCHANGED <<order, held, alone>>

\* self._store.move_to_end(key): a KeyError if the entry is gone.
Move(t, here, next) ==
    /\ call[t].pc = here
    /\ IF call[t].key \in Entries
       THEN GoTo(t, next) /\ order' = MoveToEnd(order, call[t].key)
       ELSE GoTo(t, "raised") /\ UNCHANGED order
    /\ UNCHANGED <<held, alone>>

GetMove(t) == Move(t, "get_move", "get_read")
SetMove(t) == Move(t, "set_move", "set_store")

\* return self._store[key]: again a KeyError if it is gone.
GetRead(t) ==
    /\ call[t].pc = "get_read"
    /\ IF call[t].key \in Entries
       THEN GetReturns(t, held[call[t].key])
       ELSE GoTo(t, "raised")
    /\ UNCHANGED <<order, held, alone>>

\* Mistakes: a key that is there is listed again; its old value stays, as with setdefault.
SetStoreAppends(t) ==
    /\ call[t].pc = "set_store"
    /\ held' = [held EXCEPT ![call[t].key] = call[t].val]
    /\ order' = Append(order, call[t].key)
    /\ GoTo(t, "set_len")
    /\ UNCHANGED alone
SetStoreOnce(t) ==
    /\ call[t].pc = "set_store"
    /\ IF call[t].key \in Entries
       THEN UNCHANGED <<held, order>>
       ELSE /\ held' = [held EXCEPT ![call[t].key] = call[t].val]
            /\ order' = Append(order, call[t].key)
    /\ GoTo(t, "set_len")
    /\ UNCHANGED alone

\* self._store[key] = value: an entry that is there keeps its place.
SetStore(t) ==
    /\ call[t].pc = "set_store"
    /\ held' = [held EXCEPT ![call[t].key] = call[t].val]
    /\ order' = IF call[t].key \in Entries THEN order ELSE Append(order, call[t].key)
    /\ GoTo(t, "set_len")
    /\ UNCHANGED alone

\* Mistake: one entry too many is let stand.
SetLenOneOver(t) ==
    /\ call[t].pc = "set_len"
    /\ GoTo(t, IF Len(order) > MaxSize + 1 THEN "set_pop" ELSE "idle")
    /\ UNCHANGED <<order, held, alone>>

\* while len(self._store) > self._maxsize.
SetLen(t) ==
    /\ call[t].pc = "set_len"
    /\ GoTo(t, IF Len(order) > MaxSize THEN "set_pop" ELSE "idle")
    /\ UNCHANGED <<order, held, alone>>

\* Mistake: the length is not read again before the next pop.
SetPopAll(t) ==
    /\ call[t].pc = "set_pop"
    /\ IF order # <<>>
       THEN /\ held' = [held EXCEPT ![Head(order)] = Nothing]
            /\ order' = Tail(order)
            /\ GoTo(t, IF Len(order) > 1 THEN "set_pop" ELSE "set_len")
       ELSE GoTo(t, "raised") /\ UNCHANGED <<order, held>>
    /\ UNCHANGED alone

\* self._store.popitem(last=False): a KeyError if the store is empty.
SetPop(t) ==
    /\ call[t].pc = "set_pop"
    /\ IF order # <<>>
       THEN /\ held' = [held EXCEPT ![Head(order)] = Nothing]
            /\ order' = Tail(order)
            /\ GoTo(t, "set_len")
       ELSE GoTo(t, "raised") /\ UNCHANGED <<order, held>>
    /\ UNCHANGED alone

CacheNext ==
    \E t \in Threads :
        \/ CallGet(t) \/ GetIn(t) \/ GetMove(t) \/ GetRead(t)
        \/ CallSet(t) \/ SetIn(t) \/ SetMove(t) \/ SetStore(t) \/ SetLen(t) \/ SetPop(t)

CacheSpec == CacheInit /\ [][CacheNext]_cacheVars
-----------------------------------------------------------------------------
(* Properties.                                                             *)

\* Every variable has its type, and the order of use lists each entry once.
OrderListsEntries ==
    /\ held \in [Keys -> Values \cup {Nothing}]
    /\ order \in Seq(Keys)
    /\ \A k \in Keys : k \in Entries <=> \E i \in 1 .. Len(order) : order[i] = k
    /\ \A i, j \in 1 .. Len(order) : order[i] = order[j] => i = j

CacheTypeOK ==
    /\ call \in [Threads -> Call]
    /\ alone \in SUBSET Threads
    /\ OrderListsEntries

Trimming == {t \in Threads : call[t].pc \in {"set_len", "set_pop"}}
Popping == {t \in Threads : call[t].pc = "set_pop"}

\* The cache exceeds maxsize only by entries whose set is still to trim them: when no set
\* is under way it is within the limit, whatever the threads did (MemoryCache.set).
SizeBounded == Len(order) <= MaxSize + Cardinality(Trimming)

\* Threads that trim at once, each on a length it read before the others popped, evict too
\* much, but by at most one entry for each other thread (the loop in MemoryCache.set).
EvictsWhenFull ==
    [][Len(order') < Len(order) => Len(order) + Cardinality(Threads) >= MaxSize + 2]_cacheVars

\* The module's docstring on the memory backend: "Always works".  A KeyError out of get or
\* set would leave the executor thread and end its request with a 500.
AlwaysWorks == \A t \in Threads : call[t].pc # "raised"

\* The cache as its callers see it: a get is answered, and a set takes effect, at one step.
Phase(pc) ==
    CASE pc \in GetSteps -> "get"
      [] pc \in {"set_in", "set_move", "set_store"} -> "set"
      [] pc \in {"set_len", "set_pop"} -> "stored"
      [] OTHER -> pc

Promise == INSTANCE CachePromise WITH
    kept <- held,
    call <- [t \in Threads |->
                [phase |-> Phase(call[t].pc), key |-> call[t].key, val |-> call[t].val]]

\* The unlocked dictionary still implements what handlers rely on: a get answers the last
\* body stored under its key, or misses; and only a call that another one overlaps raises.
KeepsCachePromise == Promise!Spec
=============================================================================
