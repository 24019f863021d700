----------------------------- MODULE MC_DomainRpc -----------------------------
(* Small instances of DomainRpc: commands, queries, two of them the same,  *)
(* and dashboardApi.getStats, which is single-flighted but not a query.    *)
EXTENDS DomainRpc

CONSTANTS m1, m2, q1, q2, q3, s1, s2, reqs, cases, runs, k1, k2, k3

(* m1 like releasePublishApi.decide, m2 like requirementApi.updateStatus,  *)
(* q1 like testRequestApi.getAll, q2 and q3 both releasePublishApi.getAll, *)
(* which synchronises automatic versions although it is listed as a query. *)
MCWrites ==
    [r \in Requests |->
       (CASE r = m2 -> {reqs, cases}
          [] r = q1 -> {}
          [] OTHER -> {reqs, runs}) \cap (Bridged \cup Transitional)]

MCKeyOf ==
    [r \in SingleFlight |-> CASE r \in {s1, s2} -> k1 [] r = q1 -> k3 [] OTHER -> k2]
===============================================================================
