---------------------------- MODULE CachePromise ----------------------------
(***************************************************************************)
(* What a handler may rely on when it calls the in-memory result cache: a  *)
(* map that may forget any entry at any moment.  A get answers what the    *)
(* map holds, or a miss; a set takes effect at one instant; a call that no *)
(* other call overlaps does not raise, and neither does a set once it has  *)
(* stored its value.                                                       *)
(***************************************************************************)
EXTENDS Naturals

CONSTANTS Threads, Keys, Values, Nothing

VARIABLES
    kept,     \* what the map holds under each key, Nothing if nothing
    call,     \* each thread's call: its phase, its arguments, what it came to
    alone     \* the calls that no other call has overlapped so far

promiseVars == <<kept, call, alone>>

Phases == {"idle", "get", "set", "stored", "raised"}
Call == [phase: Phases, key: Keys \cup {Nothing}, val: Values \cup {Nothing}]
AtRest == {"idle", "raised"}

Init ==
    /\ kept = [k \in Keys |-> Nothing]
    /\ call = [t \in Threads |-> [phase |-> "idle", key |-> Nothing, val |-> Nothing]]
    /\ alone = {}

\* A new call overlaps all calls in progress, and they it.
Begin(t, phase, k, v) ==
    /\ call[t].phase \in AtRest
    /\ call' = [call EXCEPT ![t] = [phase |-> phase, key |-> k, val |-> v]]
    /\ alone' = IF \A u \in Threads \ {t} : call[u].phase \in AtRest THEN {t} ELSE {}
    /\ UNCHANGED kept

Ask(t, k) == Begin(t, "get", k, Nothing)
Give(t, k, v) == Begin(t, "set", k, v)

Answer(t) ==
    /\ call[t].phase = "get"
    /\ call' = [call EXCEPT ![t] =
                   [phase |-> "idle", key |-> call[t].key, val |-> kept[call[t].key]]]
    /\ UNCHANGED <<kept, alone>>

Store(t) ==
    /\ call[t].phase = "set"
    /\ kept' = [kept EXCEPT ![call[t].key] = call[t].val]
    /\ call' = [call EXCEPT ![t].phase = "stored"]
    /\ UNCHANGED alone

Return(t) ==
    /\ call[t].phase = "stored"
    /\ call' = [call EXCEPT ![t].phase = "idle"]
    /\ UNCHANGED <<kept, alone>>

Raise(t) ==
    /\ call[t].phase \in {"get", "set"}
    /\ t \notin alone
    /\ call' = [call EXCEPT ![t].phase = "raised"]
    /\ UNCHANGED <<kept, alone>>

Forget(k) ==
    /\ kept' = [kept EXCEPT ![k] = Nothing]
    /\ UNCHANGED <<call, alone>>

Next ==
    \/ \E k \in Keys : Forget(k)
    \/ \E t \in Threads :
          \/ Answer(t) \/ Store(t) \/ Return(t) \/ Raise(t)
          \/ \E k \in Keys : Ask(t, k) \/ \E v \in Values : Give(t, k, v)

Spec == Init /\ [][Next]_promiseVars
=============================================================================
