------------------------- MODULE MemoryCacheProofs -------------------------
(* Theorems about MemoryCache, for any number of threads, keys and entries. *)
EXTENDS MemoryCache, FiniteSetTheorems, TLAPS

\* A call in progress that no other has overlapped runs alone, and the entry it
\* has seen is still there.
AloneInv ==
    \A t \in alone : call[t].pc \notin AtRest =>
        /\ \A u \in Threads \ {t} : call[u].pc \in AtRest
        /\ call[t].pc \in {"get_move", "get_read", "set_move"} => call[t].key \in Entries

\* While a thread is to pop, the store is over the limit but for what threads that are
\* no longer about to pop have taken out since.
PopInv == Popping # {} => Len(order) + Cardinality(Threads \ Popping) >= MaxSize + 1

CallsHaveArguments ==
    \A t \in Threads :
        /\ call[t].pc \in GetSteps \cup SetSteps => call[t].key \in Keys
        /\ call[t].pc \in SetSteps => call[t].val \in Values

CacheInv == CacheTypeOK /\ CallsHaveArguments /\ SizeBounded /\ PopInv /\ AloneInv

-----------------------------------------------------------------------------
\* move_to_end permutes the order: it keeps its length and its entries, once each.
LEMMA MoveToEndPermutes ==
    ASSUME NEW s \in Seq(Keys), NEW k \in Keys, \E i \in 1 .. Len(s) : s[i] = k,
           \A i, j \in 1 .. Len(s) : s[i] = s[j] => i = j
    PROVE  /\ MoveToEnd(s, k) \in Seq(Keys) /\ Len(MoveToEnd(s, k)) = Len(s)
           /\ \A i, j \in 1 .. Len(s) : MoveToEnd(s, k)[i] = MoveToEnd(s, k)[j] => i = j
           /\ \A x \in Keys : (\E i \in 1 .. Len(s) : s[i] = x)
                                 <=> (\E i \in 1 .. Len(s) : MoveToEnd(s, k)[i] = x)
<1> DEFINE at == CHOOSE i \in 1 .. Len(s) : s[i] = k
           m == [i \in 1 .. Len(s) |->
                    IF i < at THEN s[i] ELSE IF i < Len(s) THEN s[i + 1] ELSE k]
<1>1. at \in 1 .. Len(s) /\ s[at] = k /\ Len(s) \in Nat
  OBVIOUS
<1>2. MoveToEnd(s, k) = m
  BY DEF MoveToEnd
<1> HIDE DEF at
<1>3. \A i \in 1 .. Len(s) : m[i] \in Keys
  BY <1>1
<1>4. m \in Seq(Keys) /\ Len(m) = Len(s)
  BY <1>1, <1>3
<1>5. ASSUME NEW i \in 1 .. Len(s), NEW j \in 1 .. Len(s), m[i] = m[j] PROVE i = j
  BY <1>1, <1>5
<1>6. ASSUME NEW x \in Keys
      PROVE  (\E i \in 1 .. Len(s) : s[i] = x) <=> (\E i \in 1 .. Len(s) : m[i] = x)
  <2>1. ASSUME NEW i \in 1 .. Len(s), s[i] = x PROVE \E j \in 1 .. Len(s) : m[j] = x
    <3>1. CASE i < at
      BY <1>1, <2>1, <3>1
    <3>2. CASE i = at
      <4>1. Len(s) \in 1 .. Len(s) /\ m[Len(s)] = k
        BY <1>1
      <4>2. QED
        BY <1>1, <2>1, <3>2, <4>1
    <3>3. CASE i > at
      <4>1. i - 1 \in 1 .. Len(s) /\ m[i - 1] = s[i]
        BY <1>1, <3>3
      <4>2. QED
        BY <2>1, <4>1
    <3>4. QED
      BY <1>1, <3>1, <3>2, <3>3
  <2>2. ASSUME NEW i \in 1 .. Len(s), m[i] = x PROVE \E j \in 1 .. Len(s) : s[j] = x
    BY <1>1, <2>2
  <2>3. QED
    BY <2>1, <2>2
<1>7. QED
  BY <1>2, <1>4, <1>5, <1>6

-----------------------------------------------------------------------------
(* The shape of a step: one thread's call changes.                         *)

\* The call t is left with after a step.
Moved(t, c) == call' = [call EXCEPT ![t] = c]

ThreadStep(t) ==
    \/ CallGet(t) \/ GetIn(t) \/ GetMove(t) \/ GetRead(t)
    \/ CallSet(t) \/ SetIn(t) \/ SetMove(t) \/ SetStore(t) \/ SetLen(t) \/ SetPop(t)

LEMMA GoToMoves ==
    ASSUME CacheTypeOK, NEW t \in Threads, NEW pc \in AtRest \cup GetSteps \cup SetSteps, GoTo(t, pc)
    PROVE  \E c \in Call : /\ Moved(t, c) /\ c.pc = pc
                           /\ c.key = call[t].key /\ c.val = call[t].val
<1> DEFINE c == [call[t] EXCEPT !.pc = pc]
<1>1. call[t] \in Call
  BY DEF CacheTypeOK, OrderListsEntries
<1>2. c \in Call /\ c.pc = pc /\ c.key = call[t].key /\ c.val = call[t].val
  BY <1>1 DEF Call
<1>3. Moved(t, c)
  BY <1>1 DEF GoTo, Moved, Call, CacheTypeOK, OrderListsEntries
<1>4. QED
  BY <1>2, <1>3

LEMMA AnswerMoves ==
    ASSUME CacheTypeOK, NEW t \in Threads, NEW v \in Values \cup {Nothing}, GetReturns(t, v)
    PROVE  \E c \in Call : Moved(t, c) /\ c.pc = "idle" /\ c.key = call[t].key /\ c.val = v
<1> DEFINE c == [pc |-> "idle", key |-> call[t].key, val |-> v]
<1>1. c \in Call
  BY DEF CacheTypeOK, OrderListsEntries, Call, AtRest
<1>2. Moved(t, c)
  BY DEF GetReturns, Moved
<1>3. QED
  BY <1>1, <1>2

\* What every step does to the calls: t moves from one phase to another, with the arguments
\* its phase calls for.
LEMMA StepMoves ==
    ASSUME CacheInv, NEW t \in Threads, ThreadStep(t)
    PROVE  \E c \in Call :
              /\ Moved(t, c)
              /\ c.pc \in GetSteps \cup SetSteps => c.key \in Keys
              /\ c.pc \in SetSteps => c.val \in Values
              /\ c.pc = "set_len" => call[t].pc \in {"set_store", "set_pop"}
              /\ c.pc = "set_pop" => call[t].pc = "set_len"
<1>1. CacheTypeOK /\ CallsHaveArguments /\ call[t] \in Call
  BY DEF CacheInv, CacheTypeOK, OrderListsEntries
<1> USE DEF GetSteps, SetSteps, AtRest
<1>2. CASE CallGet(t) \/ CallSet(t)
  <2>1. PICK pc \in {"get_in", "set_in"}, k \in Keys, v \in Values \cup {Nothing} :
           Begin(t, pc, k, v) /\ (pc = "set_in" => v \in Values)
    BY <1>2 DEF CallGet, CallSet
  <2>2. [pc |-> pc, key |-> k, val |-> v] \in Call
    BY <2>1 DEF Call
  <2>3. QED
    BY <2>1, <2>2 DEF Begin, Moved
<1>3. CASE GetIn(t)
  BY <1>1, <1>3, GoToMoves, AnswerMoves DEF GetIn, CallsHaveArguments
<1>4. CASE GetRead(t)
  <2>1. held[call[t].key] \in Values \cup {Nothing}
    BY <1>1, <1>4 DEF GetRead, CallsHaveArguments, CacheTypeOK, OrderListsEntries
  <2>2. QED
    BY <1>1, <1>4, <2>1, GoToMoves, AnswerMoves DEF GetRead, CallsHaveArguments
<1>5. CASE GetMove(t) \/ SetMove(t)
  BY <1>1, <1>5, GoToMoves DEF GetMove, SetMove, Move, CallsHaveArguments
<1>6. CASE SetIn(t) \/ SetLen(t)
  BY <1>1, <1>6, GoToMoves DEF SetIn, SetLen, CallsHaveArguments
<1>7. CASE SetStore(t) \/ SetPop(t)
  BY <1>1, <1>7, GoToMoves DEF SetStore, SetPop, CallsHaveArguments
<1>8. QED
  BY <1>2, <1>3, <1>4, <1>5, <1>6, <1>7 DEF ThreadStep

\* Who trims and who pops after a step.
LEMMA MovedSets ==
    ASSUME CacheTypeOK, NEW t \in Threads, NEW c \in Call, Moved(t, c)
    PROVE  /\ call' \in [Threads -> Call] /\ call'[t] = c
           /\ \A u \in Threads \ {t} : call'[u] = call[u]
           /\ Trimming' = IF c.pc \in {"set_len", "set_pop"} THEN Trimming \cup {t}
                          ELSE Trimming \ {t}
           /\ Popping' = IF c.pc = "set_pop" THEN Popping \cup {t} ELSE Popping \ {t}
BY DEF CacheTypeOK, OrderListsEntries, Moved, Trimming, Popping

LEMMA ThreadSets ==
    ASSUME NEW S \in SUBSET Threads
    PROVE  /\ IsFiniteSet(S) /\ Cardinality(S) \in Nat
           /\ Cardinality(S) <= Cardinality(Threads)
           /\ Cardinality(Threads) \in Nat
           /\ \A t \in Threads : t \notin S => Cardinality(S \cup {t}) = Cardinality(S) + 1
           /\ \A t \in S : Cardinality(S \ {t}) = Cardinality(S) - 1
BY MemoryCacheAssumption, FS_Subset, FS_CardinalityType, FS_AddElement, FS_RemoveElement

-----------------------------------------------------------------------------
(* The store.                                                              *)

LEMMA MoveKeepsStore ==
    ASSUME CacheInv, NEW t \in Threads, GetMove(t) \/ SetMove(t)
    PROVE  OrderListsEntries' /\ Len(order') = Len(order)
<1>1. call[t].key \in Keys /\ OrderListsEntries /\ held' = held
  BY DEF CacheInv, CacheTypeOK, OrderListsEntries, CallsHaveArguments, GetMove, SetMove, Move,
         GetSteps, SetSteps
<1>2. CASE UNCHANGED order
  BY <1>1, <1>2 DEF OrderListsEntries, Entries
<1>3. CASE call[t].key \in Entries /\ order' = MoveToEnd(order, call[t].key)
  <2>1. \E i \in 1 .. Len(order) : order[i] = call[t].key
    BY <1>1, <1>3 DEF OrderListsEntries
  <2>2. /\ order' \in Seq(Keys) /\ Len(order') = Len(order)
        /\ \A i, j \in 1 .. Len(order) : order'[i] = order'[j] => i = j
        /\ \A x \in Keys : (\E i \in 1 .. Len(order) : order[i] = x)
                              <=> (\E i \in 1 .. Len(order) : order'[i] = x)
    <3>1. /\ order \in Seq(Keys)
          /\ \A i, j \in 1 .. Len(order) : order[i] = order[j] => i = j
      BY <1>1 DEF OrderListsEntries
    <3> DEFINE m == MoveToEnd(order, call[t].key)
    <3>2. /\ m \in Seq(Keys) /\ Len(m) = Len(order)
          /\ \A i, j \in 1 .. Len(order) : m[i] = m[j] => i = j
          /\ \A x \in Keys : (\E i \in 1 .. Len(order) : order[i] = x)
                                <=> (\E i \in 1 .. Len(order) : m[i] = x)
      BY <1>1, <2>1, <3>1, MoveToEndPermutes
    <3>3. order' = m
      BY <1>3
    <3> HIDE DEF m
    <3>4. QED
      BY <3>2, <3>3
  <2>3. Entries' = Entries
    BY <1>1 DEF Entries
  <2>4. QED
    BY <1>1, <2>2, <2>3 DEF OrderListsEntries
<1>4. QED
  BY <1>2, <1>3 DEF GetMove, SetMove, Move

LEMMA StoreKeepsStore ==
    ASSUME CacheInv, NEW t \in Threads, SetStore(t)
    PROVE  OrderListsEntries' /\ Len(order') \in {Len(order), Len(order) + 1}
<1> DEFINE k == call[t].key
           v == call[t].val
<1>1. k \in Keys /\ v \in Values /\ v # Nothing /\ OrderListsEntries
  BY MemoryCacheAssumption
     DEF CacheInv, CacheTypeOK, OrderListsEntries, CallsHaveArguments, SetStore, SetSteps
<1>2. held' = [held EXCEPT ![k] = v]
  BY DEF SetStore
<1>3. order' = IF k \in Entries THEN order ELSE Append(order, k)
  BY DEF SetStore
<1> HIDE DEF k, v
<1>4. held' \in [Keys -> Values \cup {Nothing}] /\ Entries' = Entries \cup {k}
  BY <1>1, <1>2 DEF OrderListsEntries, Entries
<1>5. CASE k \in Entries
  BY <1>1, <1>3, <1>4, <1>5 DEF OrderListsEntries
<1>6. CASE k \notin Entries
  <2>1. /\ order' \in Seq(Keys) /\ Len(order') = Len(order) + 1 /\ Len(order) \in Nat
        /\ order'[Len(order) + 1] = k
        /\ \A i \in 1 .. Len(order) : order'[i] = order[i] /\ order[i] # k
    BY <1>1, <1>3, <1>6 DEF OrderListsEntries
  <2>2. \A i, j \in 1 .. Len(order') : order'[i] = order'[j] => i = j
    <3>1. ASSUME NEW i \in 1 .. Len(order'), NEW j \in 1 .. Len(order'), order'[i] = order'[j]
          PROVE  i = j
      <4>1. CASE i \in 1 .. Len(order) /\ j \in 1 .. Len(order)
        BY <1>1, <2>1, <3>1, <4>1 DEF OrderListsEntries
      <4>2. CASE ~(i \in 1 .. Len(order) /\ j \in 1 .. Len(order))
        BY <2>1, <3>1, <4>2
      <4>3. QED
        BY <4>1, <4>2
    <3>2. QED
      BY <3>1
  <2>3. ASSUME NEW x \in Keys
        PROVE  (x \in Entries') <=> (\E i \in 1 .. Len(order') : order'[i] = x)
    <3>1. CASE x = k
      BY <1>4, <2>1, <3>1
    <3>2. CASE x # k
      <4>1. (x \in Entries) <=> (\E i \in 1 .. Len(order) : order[i] = x)
        BY <1>1 DEF OrderListsEntries
      <4>2. (\E i \in 1 .. Len(order') : order'[i] = x) <=> (\E i \in 1 .. Len(order) : order[i] = x)
        BY <2>1, <3>2
      <4>3. QED
        BY <1>4, <3>2, <4>1, <4>2
    <3>3. QED
      BY <3>1, <3>2
  <2>4. QED
    BY <1>4, <2>1, <2>2, <2>3 DEF OrderListsEntries
<1>7. QED
  BY <1>5, <1>6

LEMMA PopKeepsStore ==
    ASSUME CacheInv, NEW t \in Threads, SetPop(t), order # <<>>
    PROVE  OrderListsEntries' /\ Len(order') = Len(order) - 1 /\ Len(order) \in Nat
<1> DEFINE k == Head(order)
<1>1. OrderListsEntries
  BY DEF CacheInv, CacheTypeOK, OrderListsEntries
<1>2. /\ k \in Keys /\ k = order[1] /\ order' = Tail(order) /\ order' \in Seq(Keys)
      /\ Len(order) \in Nat \ {0} /\ Len(order') = Len(order) - 1
      /\ \A i \in 1 .. Len(order') : order'[i] = order[i + 1] /\ i + 1 \in 1 .. Len(order)
      /\ 1 \in 1 .. Len(order)
  <2>1. order \in Seq(Keys) /\ order # <<>> /\ order' = Tail(order)
    BY <1>1 DEF OrderListsEntries, SetPop
  <2>2. Len(order) \in Nat \ {0}
    BY <2>1
  <2>3. 1 \in 1 .. Len(order) /\ k = order[1] /\ k \in Keys
    BY <2>1, <2>2
  <2>4. order' \in Seq(Keys) /\ Len(order') = Len(order) - 1
    BY <2>1, <2>2
  <2>5. \A i \in 1 .. Len(order') : order'[i] = order[i + 1] /\ i + 1 \in 1 .. Len(order)
    BY <2>1, <2>2, <2>4
  <2>6. QED
    BY <2>1, <2>2, <2>3, <2>4, <2>5
<1>3. held' = [held EXCEPT ![k] = Nothing]
  BY DEF SetPop
<1> HIDE DEF k
<1>4. held' \in [Keys -> Values \cup {Nothing}] /\ Entries' = Entries \ {k}
  BY <1>1, <1>2, <1>3 DEF OrderListsEntries, Entries
<1>5. \A i, j \in 1 .. Len(order') : order'[i] = order'[j] => i = j
  <2>1. ASSUME NEW i \in 1 .. Len(order'), NEW j \in 1 .. Len(order'), order'[i] = order'[j]
        PROVE  i + 1 = j + 1
    BY <1>1, <1>2, <2>1 DEF OrderListsEntries
  <2>2. QED
    BY <1>2, <2>1
<1>6. ASSUME NEW x \in Keys
      PROVE  (x \in Entries') <=> (\E i \in 1 .. Len(order') : order'[i] = x)
  <2>1. ASSUME NEW i \in 1 .. Len(order), order[i] = x, x # k
        PROVE  \E j \in 1 .. Len(order') : order'[j] = x
    <3>1. i - 1 \in 1 .. Len(order')
      BY <1>2, <2>1
    <3>2. order'[i - 1] = order[(i - 1) + 1]
      BY <1>2, <3>1
    <3>3. QED
      BY <2>1, <3>1, <3>2
  <2>2. ASSUME NEW i \in 1 .. Len(order'), order'[i] = x
        PROVE  x # k /\ \E j \in 1 .. Len(order) : order[j] = x
    <3>1. i + 1 \in 1 .. Len(order) /\ order[i + 1] = x /\ i + 1 # 1
      BY <1>2, <2>2
    <3>2. order[i + 1] # order[1]
      BY <1>1, <1>2, <3>1 DEF OrderListsEntries
    <3>3. QED
      BY <1>2, <3>1, <3>2
  <2>3. QED
    BY <1>1, <1>4, <2>1, <2>2 DEF OrderListsEntries
<1>7. QED
  BY <1>2, <1>4, <1>5, <1>6 DEF OrderListsEntries

-----------------------------------------------------------------------------
(* The limit.                                                              *)

\* A thread about to pop finds an entry: each of the others has taken out at most one since
\* the length was read, and the cache has more entries than there are threads.
LEMMA NeverPopsEmpty ==
    ASSUME CacheInv, NEW t \in Threads, call[t].pc = "set_pop"
    PROVE  /\ order # <<>> /\ Len(order) \in Nat
           /\ Len(order) + Cardinality(Threads) >= MaxSize + 2
<1>1. t \in Popping /\ Len(order) \in Nat /\ order \in Seq(Keys)
  BY DEF Popping, CacheInv, CacheTypeOK, OrderListsEntries
<1>2. Len(order) + Cardinality(Threads \ Popping) >= MaxSize + 1
  BY <1>1 DEF CacheInv, PopInv
<1>3. Cardinality(Threads \ Popping) <= Cardinality(Threads) - 1
  <2>1. /\ Cardinality(Threads \ {t}) = Cardinality(Threads) - 1
        /\ IsFiniteSet(Threads \ {t}) /\ Threads \ Popping \in SUBSET (Threads \ {t})
    BY <1>1, ThreadSets
  <2>2. QED
    BY <2>1, FS_Subset
<1>4. /\ Cardinality(Threads \ Popping) \in Nat /\ Cardinality(Threads) \in Nat
      /\ MaxSize \in Nat /\ Cardinality(Threads) <= MaxSize
  BY ThreadSets, MemoryCacheAssumption
<1>5. Len(order) >= 2 /\ Len(order) + Cardinality(Threads) >= MaxSize + 2
  BY <1>1, <1>2, <1>3, <1>4
<1>6. QED
  BY <1>1, <1>5

LEMMA SizeStep ==
    ASSUME CacheInv, NEW t \in Threads, ThreadStep(t)
    PROVE  SizeBounded'
<1> DEFINE over == {"set_len", "set_pop"}
<1>1. PICK c \in Call : /\ Moved(t, c)
                        /\ c.pc = "set_len" => call[t].pc \in {"set_store", "set_pop"}
                        /\ c.pc = "set_pop" => call[t].pc = "set_len"
  BY StepMoves
<1>2. /\ call'[t] = c /\ CacheTypeOK /\ SizeBounded
      /\ Trimming' = IF c.pc \in over THEN Trimming \cup {t} ELSE Trimming \ {t}
  BY <1>1, MovedSets DEF CacheInv
<1>3. /\ Trimming \in SUBSET Threads /\ Trimming' \in SUBSET Threads
      /\ t \in Trimming <=> call[t].pc \in over
  BY <1>2 DEF Trimming
<1>4. /\ Len(order) \in Nat /\ MaxSize \in Nat
      /\ Cardinality(Trimming) \in Nat /\ Cardinality(Trimming') \in Nat
  BY <1>2, <1>3, ThreadSets, MemoryCacheAssumption DEF CacheTypeOK, OrderListsEntries
<1>5. CASE SetStore(t)
  <2>1. c.pc = "set_len" /\ call[t].pc = "set_store"
    BY <1>2, <1>5 DEF SetStore, GoTo, CacheTypeOK, OrderListsEntries, Call
  <2>2. Trimming' = Trimming \cup {t} /\ t \notin Trimming
    BY <1>2, <1>3, <2>1
  <2>3. Cardinality(Trimming') = Cardinality(Trimming) + 1
    BY <1>3, <2>2, ThreadSets
  <2>4. QED
    BY <1>2, <1>4, <1>5, <2>3, StoreKeepsStore DEF SizeBounded
<1>6. CASE SetLen(t)
  <2>1. CASE Len(order) > MaxSize
    <3>1. c.pc = "set_pop" /\ call[t].pc = "set_len" /\ order' = order
      BY <1>2, <1>6, <2>1 DEF SetLen, GoTo, CacheTypeOK, OrderListsEntries, Call
    <3>2. Trimming' = Trimming
      BY <1>2, <1>3, <3>1
    <3>3. QED
      BY <1>2, <3>1, <3>2 DEF SizeBounded
  <2>2. CASE ~(Len(order) > MaxSize)
    BY <1>4, <1>6, <2>2 DEF SetLen, SizeBounded
  <2>3. QED
    BY <2>1, <2>2
<1>7. CASE SetPop(t)
  <2>1. order # <<>> /\ call[t].pc = "set_pop"
    BY <1>7, NeverPopsEmpty DEF SetPop
  <2>2. c.pc = "set_len"
    BY <1>2, <1>7, <2>1 DEF SetPop, GoTo, CacheTypeOK, OrderListsEntries, Call
  <2>3. Trimming' = Trimming
    BY <1>2, <1>3, <2>1, <2>2
  <2>4. QED
    <3>1. Len(order') = Len(order) - 1
      BY <1>7, <2>1, PopKeepsStore
    <3>2. QED
      <4>1. Len(order) <= MaxSize + Cardinality(Trimming)
        BY <1>2 DEF SizeBounded
      <4>2. Len(order') <= MaxSize + Cardinality(Trimming')
        BY <1>4, <2>3, <3>1, <4>1
      <4>3. QED
        BY <4>2 DEF SizeBounded
<1>8. CASE ~(SetStore(t) \/ SetLen(t) \/ SetPop(t))
  <2>1. call[t].pc \notin over /\ call[t].pc # "set_store"
    BY <1>8 DEF ThreadStep, CallGet, CallSet, Begin, GetIn, GetMove, GetRead, SetIn, SetMove, Move,
                AtRest
  <2>2. Trimming' = Trimming
    BY <1>1, <1>2, <1>3, <2>1
  <2>3. Len(order') = Len(order)
    BY <1>8, MoveKeepsStore DEF ThreadStep, CallGet, CallSet, Begin, GetIn, GetRead, SetIn
  <2>4. QED
    BY <1>2, <2>2, <2>3 DEF SizeBounded
<1>9. QED
  BY <1>5, <1>6, <1>7, <1>8

LEMMA TypeStep ==
    ASSUME CacheInv, NEW t \in Threads, ThreadStep(t)
    PROVE  CacheTypeOK' /\ CallsHaveArguments'
<1>1. PICK c \in Call : /\ Moved(t, c)
                        /\ c.pc \in GetSteps \cup SetSteps => c.key \in Keys
                        /\ c.pc \in SetSteps => c.val \in Values
  BY StepMoves
<1>2. /\ call' \in [Threads -> Call] /\ call'[t] = c
      /\ \A u \in Threads \ {t} : call'[u] = call[u]
      /\ CacheTypeOK /\ CallsHaveArguments
  BY <1>1, MovedSets DEF CacheInv
<1>3. CallsHaveArguments'
  <2>1. ASSUME NEW u \in Threads
        PROVE  /\ call'[u].pc \in GetSteps \cup SetSteps => call'[u].key \in Keys
               /\ call'[u].pc \in SetSteps => call'[u].val \in Values
    <3>1. CASE u = t
      BY <1>1, <1>2, <3>1
    <3>2. CASE u # t
      BY <1>2, <3>2 DEF CallsHaveArguments
    <3>3. QED
      BY <3>1, <3>2
  <2>2. QED
    BY <2>1 DEF CallsHaveArguments
<1>4. alone' \in SUBSET Threads
  BY <1>2 DEF ThreadStep, CallGet, CallSet, Begin, GetIn, GetMove, GetRead, SetIn, SetMove, Move,
              SetStore, SetLen, SetPop, CacheTypeOK
<1>5. OrderListsEntries'
  <2>1. CASE UNCHANGED <<order, held>>
    BY <1>2, <2>1 DEF CacheTypeOK, OrderListsEntries, Entries
  <2>2. CASE SetPop(t)
    <3>1. order # <<>>
      BY <2>2, NeverPopsEmpty DEF SetPop
    <3>2. QED
      BY <2>2, <3>1, PopKeepsStore
  <2>3. QED
    BY <2>1, <2>2, MoveKeepsStore, StoreKeepsStore
       DEF ThreadStep, CallGet, CallSet, Begin, GetIn, GetRead, SetIn, SetLen
<1>6. QED
  BY <1>2, <1>3, <1>4, <1>5 DEF CacheTypeOK

\* Only popitem shortens the store.
LEMMA OnlyPopShortens ==
    ASSUME CacheInv, NEW t \in Threads, ThreadStep(t), ~SetPop(t)
    PROVE  Len(order') >= Len(order) /\ Len(order) \in Nat /\ Len(order') \in Nat
<1>1. Len(order) \in Nat
  BY DEF CacheInv, CacheTypeOK, OrderListsEntries
<1>2. CASE UNCHANGED order
  BY <1>1, <1>2
<1>3. QED
  BY <1>1, <1>2, MoveKeepsStore, StoreKeepsStore
     DEF ThreadStep, CallGet, CallSet, Begin, GetIn, GetRead, SetIn, SetLen

LEMMA PopStep ==
    ASSUME CacheInv, NEW t \in Threads, ThreadStep(t)
    PROVE  PopInv'
<1>1. PICK c \in Call : Moved(t, c) /\ (c.pc = "set_pop" => call[t].pc = "set_len")
  BY StepMoves
<1>2. /\ call'[t] = c /\ CacheTypeOK /\ PopInv
      /\ Popping' = IF c.pc = "set_pop" THEN Popping \cup {t} ELSE Popping \ {t}
  BY <1>1, MovedSets DEF CacheInv
<1>3. /\ Popping \in SUBSET Threads /\ Popping' \in SUBSET Threads
      /\ t \in Popping <=> call[t].pc = "set_pop"
      /\ Threads \ Popping \in SUBSET Threads /\ Threads \ Popping' \in SUBSET Threads
  BY <1>2 DEF Popping
<1>4. /\ Cardinality(Threads \ Popping) \in Nat /\ Cardinality(Threads \ Popping') \in Nat
      /\ MaxSize \in Nat
  BY <1>3, ThreadSets, MemoryCacheAssumption
<1>5. CASE SetPop(t)
  <2>1. order # <<>> /\ t \in Popping
    BY <1>3, <1>5, NeverPopsEmpty DEF SetPop
  <2>2. Len(order') = Len(order) - 1 /\ Len(order) \in Nat
    BY <1>5, <2>1, PopKeepsStore
  <2>3. c.pc = "set_len"
    BY <1>2, <1>5, <2>1 DEF SetPop, GoTo, CacheTypeOK, Call
  <2>4. Threads \ Popping' = (Threads \ Popping) \cup {t} /\ t \notin Threads \ Popping
    BY <1>2, <2>1, <2>3
  <2>5. Cardinality(Threads \ Popping') = Cardinality(Threads \ Popping) + 1
    BY <1>3, <2>4, ThreadSets
  <2>6. Len(order) + Cardinality(Threads \ Popping) >= MaxSize + 1
    BY <1>2, <2>1 DEF PopInv
  <2>7. Len(order') + Cardinality(Threads \ Popping') >= MaxSize + 1
    BY <1>4, <2>2, <2>5, <2>6
  <2>8. QED
    BY <2>7 DEF PopInv
<1>6. CASE ~SetPop(t) /\ c.pc = "set_pop"
  <2>1. SetLen(t)
    BY <1>1, <1>6 DEF ThreadStep, CallGet, CallSet, Begin, GetIn, GetMove, GetRead, SetIn, SetMove,
                      Move, SetStore, AtRest
  <2>2. Len(order) > MaxSize /\ order' = order /\ Len(order) \in Nat
    BY <1>2, <1>6, <2>1 DEF SetLen, GoTo, CacheTypeOK, OrderListsEntries, Call
  <2>3. Len(order') + Cardinality(Threads \ Popping') >= MaxSize + 1
    BY <1>4, <2>2
  <2>4. QED
    BY <2>3 DEF PopInv
<1>7. CASE ~SetPop(t) /\ c.pc # "set_pop"
  <2>1. t \notin Popping
    BY <1>3, <1>7 DEF ThreadStep, CallGet, CallSet, Begin, GetIn, GetMove, GetRead, SetIn, SetMove,
                      Move, SetStore, SetLen, AtRest
  <2>2. Popping' = Popping
    BY <1>2, <1>7, <2>1
  <2>3. Len(order') >= Len(order) /\ Len(order) \in Nat /\ Len(order') \in Nat
    BY <1>7, OnlyPopShortens
  <2>4. Popping # {} => Len(order') + Cardinality(Threads \ Popping') >= MaxSize + 1
    <3>1. Popping # {} => Len(order) + Cardinality(Threads \ Popping) >= MaxSize + 1
      BY <1>2 DEF PopInv
    <3>2. QED
      BY <1>4, <2>2, <2>3, <3>1
  <2>5. QED
    BY <2>2, <2>4 DEF PopInv
<1>8. QED
  BY <1>5, <1>6, <1>7

\* A thread at work moves on: no call that runs alone is disturbed.
LEMMA AloneStep ==
    ASSUME CacheInv, NEW t \in Threads, ThreadStep(t)
    PROVE  AloneInv'
<1>1. CacheTypeOK /\ AloneInv
  BY DEF CacheInv
<1>2. CASE CallGet(t) \/ CallSet(t)
  <2>1. PICK pc \in {"get_in", "set_in"}, k \in Keys, v \in Values \cup {Nothing} : Begin(t, pc, k, v)
    BY <1>2 DEF CallGet, CallSet
  <2>2. /\ call'[t].pc = pc /\ \A u \in Threads \ {t} : call'[u] = call[u]
        /\ alone' = IF \A u \in Threads \ {t} : call[u].pc \in AtRest THEN {t} ELSE {}
    BY <1>1, <2>1 DEF Begin, CacheTypeOK
  <2>3. QED
    BY <2>2 DEF AloneInv
<1>3. CASE ~(CallGet(t) \/ CallSet(t))
  <2>1. alone' = alone /\ call[t].pc \notin AtRest
    BY <1>3 DEF ThreadStep, GetIn, GetMove, GetRead, SetIn, SetMove, Move, SetStore, SetLen, SetPop,
                AtRest
  <2>2. PICK c \in Call : Moved(t, c)
    BY StepMoves
  <2>3. call'[t] = c /\ \A u \in Threads \ {t} : call'[u] = call[u]
    BY <1>1, <2>2, MovedSets
  <2>4. ASSUME NEW a \in alone, call'[a].pc \notin AtRest, a # t
        PROVE  FALSE
    <3>1. a \in Threads /\ call[a].pc \notin AtRest
      BY <1>1, <2>3, <2>4 DEF CacheTypeOK
    <3>2. call[t].pc \in AtRest
      BY <1>1, <2>4, <3>1 DEF AloneInv
    <3>3. QED
      BY <2>1, <3>2
  <2>5. ASSUME t \in alone, call'[t].pc \notin AtRest
        PROVE  /\ \A u \in Threads \ {t} : call'[u].pc \in AtRest
               /\ call'[t].pc \in {"get_move", "get_read", "set_move"} => call'[t].key \in Entries'
    <3>1. /\ \A u \in Threads \ {t} : call[u].pc \in AtRest
          /\ call[t].pc \in {"get_move", "get_read", "set_move"} => call[t].key \in Entries
      BY <1>1, <2>1, <2>5 DEF AloneInv
    <3>2. call'[t].pc \in {"get_move", "get_read", "set_move"} =>
             call'[t].key = call[t].key /\ call[t].key \in Entries /\ held' = held
      BY <1>1, <1>3, <2>5, <3>1
         DEF ThreadStep, GetIn, GetMove, GetRead, SetIn, SetMove, Move, SetStore, SetLen, SetPop,
             GoTo, GetReturns, CacheTypeOK, Call
    <3>3. QED
      BY <2>3, <3>1, <3>2 DEF Entries
  <2>6. QED
    BY <2>1, <2>4, <2>5 DEF AloneInv
<1>4. QED
  BY <1>2, <1>3

LEMMA CacheStep == CacheInv /\ [CacheNext]_cacheVars => CacheInv'
<1> SUFFICES ASSUME CacheInv, [CacheNext]_cacheVars PROVE CacheInv'
  OBVIOUS
<1>1. CASE CacheNext
  BY <1>1, TypeStep, SizeStep, PopStep, AloneStep DEF CacheNext, ThreadStep, CacheInv
<1>2. CASE UNCHANGED cacheVars
  BY <1>2 DEF cacheVars, CacheInv, CacheTypeOK, OrderListsEntries, Entries, CallsHaveArguments,
              SizeBounded, Trimming, PopInv, Popping, AloneInv
<1>3. QED
  BY <1>1, <1>2

LEMMA CacheStart == CacheInit => CacheInv
<1> SUFFICES ASSUME CacheInit PROVE CacheInv
  OBVIOUS
<1>1. CacheTypeOK /\ CallsHaveArguments /\ AloneInv
  BY DEF CacheInit, CacheTypeOK, OrderListsEntries, Entries, CallsHaveArguments, AloneInv, Call,
         AtRest, GetSteps, SetSteps
<1>2. Popping = {} /\ Trimming = {} /\ Len(order) = 0
  BY DEF CacheInit, Popping, Trimming
<1>3. Cardinality(Trimming) = 0 /\ MaxSize \in Nat
  BY <1>2, FS_EmptySet, MemoryCacheAssumption
<1>4. QED
  BY <1>1, <1>2, <1>3 DEF CacheInv, SizeBounded, PopInv

\* The inductive invariant of the threads in get and set, which the other theorems rest on.
THEOREM CacheInvariance == CacheSpec => []CacheInv
BY CacheStart, CacheStep, PTL DEF CacheSpec

\* However threads interleave, the order of use lists every entry of the store once.
THEOREM CacheTypeCorrect == CacheSpec => []CacheTypeOK
<1>1. CacheInv => CacheTypeOK
  BY DEF CacheInv
<1>2. QED
  BY <1>1, CacheInvariance, PTL

\* However the threads interleave, the cache exceeds maxsize at most by one entry for each
\* set that has stored and not trimmed yet.
THEOREM CacheIsBounded == CacheSpec => []SizeBounded
BY CacheInvariance, PTL DEF CacheInv

\* Threads that trim together evict at most one entry too many for each other thread.
THEOREM CacheEvictsWhenFull == CacheSpec => EvictsWhenFull
<1>1. ASSUME CacheInv, [CacheNext]_cacheVars
      PROVE  [Len(order') < Len(order) => Len(order) + Cardinality(Threads) >= MaxSize + 2]_cacheVars
  <2>1. CASE UNCHANGED cacheVars
    BY <2>1
  <2>2. ASSUME NEW t \in Threads, ThreadStep(t), Len(order') < Len(order)
        PROVE  Len(order) + Cardinality(Threads) >= MaxSize + 2
    <3>1. SetPop(t)
      BY <1>1, <2>2, OnlyPopShortens
    <3>2. QED
      BY <1>1, <3>1, NeverPopsEmpty DEF SetPop
  <2>3. QED
    BY <1>1, <2>1, <2>2 DEF CacheNext, ThreadStep
<1>2. QED
  BY <1>1, CacheInvariance, PTL DEF CacheSpec, EvictsWhenFull

-----------------------------------------------------------------------------
(* The cache keeps its promise.                                            *)

\* A thread's call as its caller sees it.
Seen(c) == [phase |-> Phase(c.pc), key |-> c.key, val |-> c.val]
SeenCalls == [t \in Threads |-> Seen(call[t])]

LEMMA SeenMoves ==
    ASSUME CacheTypeOK, NEW t \in Threads, NEW c \in Call, Moved(t, c)
    PROVE  SeenCalls' = [SeenCalls EXCEPT ![t] = Seen(c)]
<1>1. call' \in [Threads -> Call] /\ call'[t] = c /\ \A u \in Threads \ {t} : call'[u] = call[u]
  BY MovedSets
<1>2. SeenCalls' = [u \in Threads |-> Seen(call'[u])]
  BY DEF SeenCalls, Seen
<1>3. QED
  BY <1>1, <1>2 DEF SeenCalls

\* A step that changes neither the map nor the phase is none for the caller.
LEMMA HiddenStep ==
    ASSUME CacheInv, NEW t \in Threads, ThreadStep(t), UNCHANGED <<held, alone>>,
           Phase(call'[t].pc) = Phase(call[t].pc), call'[t].key = call[t].key,
           call'[t].val = call[t].val
    PROVE  UNCHANGED Promise!promiseVars
<1>1. CacheTypeOK
  BY DEF CacheInv
<1>2. PICK c \in Call : Moved(t, c)
  BY StepMoves
<1>3. call'[t] = c
  BY <1>1, <1>2, MovedSets
<1>4. SeenCalls' = [SeenCalls EXCEPT ![t] = Seen(c)] /\ Seen(c) = Seen(call[t])
  BY <1>1, <1>2, <1>3, SeenMoves DEF Seen
<1>5. SeenCalls' = SeenCalls
  BY <1>4 DEF SeenCalls
<1>6. QED
  BY <1>5 DEF Promise!promiseVars, SeenCalls, Seen

\* The phase a call is seen in.
LEMMA Phases ==
    /\ \A pc \in GetSteps : Phase(pc) = "get"
    /\ Phase("set_in") = "set" /\ Phase("set_move") = "set" /\ Phase("set_store") = "set"
    /\ Phase("set_len") = "stored" /\ Phase("set_pop") = "stored"
    /\ Phase("idle") = "idle" /\ Phase("raised") = "raised"
    /\ \A pc \in AtRest \cup GetSteps \cup SetSteps : Phase(pc) \in {"idle", "raised"} <=> pc \in AtRest
BY DEF Phase, GetSteps, SetSteps, AtRest

LEMMA BeginSeen ==
    ASSUME CacheInv, NEW t \in Threads, CallGet(t) \/ CallSet(t)
    PROVE  Promise!Next
<1>1. PICK pc \in {"get_in", "set_in"}, k \in Keys, v \in Values \cup {Nothing} :
         /\ Begin(t, pc, k, v)
         /\ pc = "get_in" => v = Nothing
         /\ pc = "set_in" => v \in Values
  BY DEF CallGet, CallSet
<1> DEFINE c == [pc |-> pc, key |-> k, val |-> v]
<1>2. c \in Call /\ Moved(t, c) /\ CacheTypeOK
  BY <1>1 DEF Begin, Moved, Call, GetSteps, SetSteps, CacheInv
<1>3. SeenCalls' = [SeenCalls EXCEPT ![t] = [phase |-> Phase(pc), key |-> k, val |-> v]]
  BY <1>2, SeenMoves DEF Seen
<1>4. \A u \in Threads : SeenCalls[u].phase \in {"idle", "raised"} <=> call[u].pc \in AtRest
  BY <1>2, Phases DEF SeenCalls, Seen, CacheTypeOK, Call
<1>5. Promise!Begin(t, Phase(pc), k, v)
  BY <1>1, <1>3, <1>4 DEF Begin, Promise!Begin, Promise!AtRest, SeenCalls, Seen
<1>6. CASE pc = "get_in"
  <2>1. Promise!Ask(t, k)
    BY <1>1, <1>5, <1>6, Phases DEF Promise!Ask, GetSteps
  <2>2. QED
    BY <2>1 DEF Promise!Next
<1>7. CASE pc = "set_in"
  <2>1. Promise!Give(t, k, v)
    BY <1>5, <1>7, Phases DEF Promise!Give
  <2>2. QED
    BY <1>1, <1>7, <2>1 DEF Promise!Next
<1>8. QED
  BY <1>1, <1>6, <1>7

\* Where a step leaves the call.
LEMMA GoToSeen ==
    ASSUME CacheInv, NEW t \in Threads, NEW pc \in AtRest \cup GetSteps \cup SetSteps, GoTo(t, pc)
    PROVE  /\ call'[t].pc = pc /\ call'[t].key = call[t].key /\ call'[t].val = call[t].val
           /\ SeenCalls' = [SeenCalls EXCEPT ![t].phase = Phase(pc)]
           /\ SeenCalls[t] = Seen(call[t])
<1>1. CacheTypeOK
  BY DEF CacheInv
<1>2. PICK c \in Call : /\ Moved(t, c) /\ c.pc = pc
                        /\ c.key = call[t].key /\ c.val = call[t].val
  BY <1>1, GoToMoves
<1>3. SeenCalls' = [SeenCalls EXCEPT ![t] = Seen(c)] /\ call'[t] = c
  BY <1>1, <1>2, SeenMoves, MovedSets
<1>4. QED
  BY <1>2, <1>3 DEF SeenCalls, Seen

LEMMA AnswerSeen ==
    ASSUME CacheInv, NEW t \in Threads, UNCHANGED <<held, alone>>, call[t].pc \in GetSteps,
           GetReturns(t, held[call[t].key])
    PROVE  Promise!Next
<1>1. CacheTypeOK /\ call[t].key \in Keys
  BY DEF CacheInv, CallsHaveArguments
<1>2. held[call[t].key] \in Values \cup {Nothing}
  BY <1>1 DEF CacheTypeOK, OrderListsEntries
<1>3. PICK c \in Call : /\ Moved(t, c) /\ c.pc = "idle"
                        /\ c.key = call[t].key /\ c.val = held[call[t].key]
  BY <1>1, <1>2, AnswerMoves
<1>4. SeenCalls' = [SeenCalls EXCEPT ![t] =
                       [phase |-> "idle", key |-> call[t].key, val |-> held[call[t].key]]]
  BY <1>1, <1>3, SeenMoves, Phases DEF Seen
<1>5. SeenCalls[t].phase = "get" /\ SeenCalls[t].key = call[t].key
  BY Phases DEF SeenCalls, Seen
<1>6. Promise!Answer(t)
  BY <1>4, <1>5 DEF Promise!Answer, SeenCalls, Seen
<1>7. QED
  BY <1>6 DEF Promise!Next

LEMMA RaiseSeen ==
    ASSUME CacheInv, NEW t \in Threads, UNCHANGED <<held, alone>>, GoTo(t, "raised"),
           call[t].pc \in {"get_move", "get_read", "set_move"}, call[t].key \notin Entries
    PROVE  Promise!Next
<1>1. t \notin alone
  BY DEF CacheInv, AloneInv, AtRest
<1>2. SeenCalls' = [SeenCalls EXCEPT ![t].phase = "raised"]
  BY GoToSeen, Phases DEF AtRest
<1>3. SeenCalls[t].phase \in {"get", "set"}
  BY Phases DEF SeenCalls, Seen, GetSteps
<1>4. Promise!Raise(t)
  BY <1>1, <1>2, <1>3 DEF Promise!Raise, SeenCalls, Seen
<1>5. QED
  BY <1>4 DEF Promise!Next

LEMMA StepKeepsPromise ==
    ASSUME CacheInv, NEW t \in Threads, ThreadStep(t)
    PROVE  Promise!Next \/ UNCHANGED Promise!promiseVars
<1> USE DEF GetSteps, SetSteps, AtRest
<1>1. CASE CallGet(t) \/ CallSet(t)
  BY <1>1, BeginSeen
<1>2. ASSUME NEW pc \in AtRest \cup GetSteps \cup SetSteps, GoTo(t, pc), UNCHANGED <<held, alone>>,
             Phase(pc) = Phase(call[t].pc)
      PROVE  UNCHANGED Promise!promiseVars
  BY <1>2, GoToSeen, HiddenStep
<1>3. CASE GetIn(t)
  <2>1. CASE call[t].key \in Entries
    BY <1>2, <1>3, <2>1, Phases DEF GetIn
  <2>2. CASE call[t].key \notin Entries
    <3>1. call[t].key \in Keys
      BY <1>3 DEF GetIn, CacheInv, CallsHaveArguments
    <3>2. held[call[t].key] = Nothing
      BY <2>2, <3>1 DEF Entries
    <3>3. QED
      BY <1>3, <2>2, <3>2, AnswerSeen DEF GetIn
  <2>3. QED
    BY <2>1, <2>2
<1>4. CASE GetMove(t)
  BY <1>2, <1>4, Phases, RaiseSeen DEF GetMove, Move
<1>5. CASE GetRead(t)
  BY <1>5, AnswerSeen, RaiseSeen DEF GetRead
<1>6. CASE SetIn(t)
  BY <1>2, <1>6, Phases DEF SetIn
<1>7. CASE SetMove(t)
  BY <1>2, <1>7, Phases, RaiseSeen DEF SetMove, Move
<1>8. CASE SetStore(t)
  <2>1. SeenCalls' = [SeenCalls EXCEPT ![t].phase = "stored"] /\ SeenCalls[t] = Seen(call[t])
    BY <1>8, GoToSeen, Phases DEF SetStore
  <2>2. SeenCalls[t].phase = "set" /\ SeenCalls[t].key = call[t].key /\ SeenCalls[t].val = call[t].val
    BY <1>8, <2>1, Phases DEF SetStore, Seen
  <2>3. Promise!Store(t)
    BY <1>8, <2>1, <2>2 DEF SetStore, Promise!Store, SeenCalls, Seen
  <2>4. QED
    BY <2>3 DEF Promise!Next
<1>9. CASE SetLen(t)
  <2>1. CASE Len(order) > MaxSize
    BY <1>2, <1>9, <2>1, Phases DEF SetLen
  <2>2. CASE ~(Len(order) > MaxSize)
    <3>1. GoTo(t, "idle") /\ call[t].pc = "set_len"
      BY <1>9, <2>2 DEF SetLen
    <3>2. SeenCalls' = [SeenCalls EXCEPT ![t].phase = "idle"] /\ SeenCalls[t] = Seen(call[t])
      BY <3>1, GoToSeen, Phases
    <3>3. SeenCalls[t].phase = "stored"
      BY <3>1, <3>2, Phases DEF Seen
    <3>4. Promise!Return(t)
      BY <1>9, <3>2, <3>3 DEF SetLen, Promise!Return, SeenCalls, Seen
    <3>5. QED
      BY <3>4 DEF Promise!Next
  <2>3. QED
    BY <2>1, <2>2
<1>10. CASE SetPop(t)
  <2>1. order # <<>> /\ order \in Seq(Keys)
    BY <1>10, NeverPopsEmpty DEF SetPop, CacheInv, CacheTypeOK, OrderListsEntries
  <2>2. Head(order) \in Keys /\ held' = [held EXCEPT ![Head(order)] = Nothing] /\ alone' = alone
    BY <1>10, <2>1 DEF SetPop
  <2>3. GoTo(t, "set_len") /\ call[t].pc = "set_pop"
    BY <1>10, <2>1 DEF SetPop
  <2>4. SeenCalls' = [SeenCalls EXCEPT ![t].phase = "stored"] /\ SeenCalls[t] = Seen(call[t])
    BY <2>3, GoToSeen, Phases
  <2>5. SeenCalls' = SeenCalls
    <3>1. SeenCalls[t].phase = "stored"
      BY <2>3, <2>4, Phases DEF Seen
    <3>2. [SeenCalls[t] EXCEPT !.phase = "stored"] = SeenCalls[t]
      BY <2>4, <3>1 DEF Seen
    <3>3. QED
      BY <2>4, <3>2 DEF SeenCalls
  <2>6. Promise!Forget(Head(order))
    BY <2>2, <2>5 DEF Promise!Forget, SeenCalls, Seen
  <2>7. QED
    BY <2>2, <2>6 DEF Promise!Next
<1>11. QED
  BY <1>1, <1>3, <1>4, <1>5, <1>6, <1>7, <1>8, <1>9, <1>10 DEF ThreadStep

\* Behind an unlocked dictionary a handler still finds a map that forgets: gets are answered
\* from the last set of their key or miss, and only overlapping calls can raise.
THEOREM CacheKeepsPromise == CacheSpec => KeepsCachePromise
<1>1. CacheInit => Promise!Init
  BY Phases DEF CacheInit, Promise!Init
<1>2. CacheInv /\ [CacheNext]_cacheVars => [Promise!Next]_(Promise!promiseVars)
  <2>1. ASSUME CacheInv, CacheNext
        PROVE  Promise!Next \/ UNCHANGED Promise!promiseVars
    BY <2>1, StepKeepsPromise DEF CacheNext, ThreadStep
  <2>2. ASSUME UNCHANGED cacheVars
        PROVE  UNCHANGED Promise!promiseVars
    BY <2>2 DEF cacheVars, Promise!promiseVars
  <2>3. QED
    BY <2>1, <2>2
<1>3. QED
  BY <1>1, <1>2, CacheInvariance, PTL DEF CacheSpec, KeepsCachePromise, Promise!Spec
=============================================================================
