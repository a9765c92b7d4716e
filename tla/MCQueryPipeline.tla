-------------------------- MODULE MCQueryPipeline --------------------------
(***************************************************************************)
(* Two filter versions that disagree about the answer to "cloaked" and     *)
(* about the name "ads"; two filtered clients of which one is routed to a  *)
(* pool of its own, and one client that bypasses filtering.                *)
(***************************************************************************)
EXTENDS QueryPipeline, TLC

CONSTANTS f1, f2, cloaked, ads, any, big, home, routed, guest, pool, corp

MCRouteOf == home :> pool @@ routed :> corp @@ guest :> pool
MCBypass == {<<f1, guest>>, <<f2, guest>>}
MCCnameBlocked == {<<f2, cloaked>>}

(* One name from three kinds of clients, for the cache; one name that is   *)
(* refused and one whose cached answer does not fit the client.            *)
CacheAsks == {<<cloaked, home>>, <<cloaked, routed>>, <<cloaked, guest>>,
              <<any, home>>, <<big, home>>}

(* One client and names for every way to be answered, for coalescing. *)
MixedAsks == {<<cloaked, home>>, <<ads, home>>, <<any, home>>}
MCLocal == {<<f2, any>>}
MCNameBlocked == {<<f1, ads>>}
MCNameRewritten == {<<f2, ads>>}
MCRebindingBlocked == {<<f1, cloaked>>}

(* A filtered client only, for the liveness run. *)
HomeAsks == {<<cloaked, home>>}

Symmetry == Permutations(Queries)
=============================================================================
