---------------------------- MODULE MCHttpClient ----------------------------
(***************************************************************************)
(* HttpClient for TLC.  In the run on quota, clients of one or two tenants *)
(* share one server; in the run on failover, one client configured in      *)
(* various ways has two targets of two plants.                             *)
(***************************************************************************)
EXTENDS HttpClient, TLC

Single(tenant) ==
    [mode |-> "single", plant |-> None, digest |-> 0, tenant |-> tenant, picky |-> FALSE]

QuotaPool == <<None>>
QuotaWatched == {<<1, "ta", "extract">>}
QuotaConfigs == {Single(t) : t \in Tenants}

FailoverPool == <<"north", "south">>
FailoverConfigs ==
    [mode: Modes, plant: {None, "south"}, digest: {1}, tenant: Tenants, picky: BOOLEAN]

Symmetry == Permutations(Clients)
=============================================================================
