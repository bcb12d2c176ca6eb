------------------------------ MODULE MCStores ------------------------------
(* The result cache of one process and the renders that replicas share have *)
(* no state in common: each behaviour is one of a single one of them, the   *)
(* subject, and the other stands still.                                     *)
EXTENDS MCRenders, MemoryCache

VARIABLE subject

StoresInit == Init /\ CacheInit /\ subject \in {"cache", "renders"}

StoresNext ==
    \/ subject = "cache" /\ CacheNext /\ UNCHANGED <<subject, vars>>
    \/ subject = "renders" /\ Next /\ UNCHANGED <<subject, cacheVars>>
=============================================================================
