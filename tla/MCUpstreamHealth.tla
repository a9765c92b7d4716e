-------------------------- MODULE MCUpstreamHealth --------------------------
(***************************************************************************)
(* Two upstreams in the main pool and one in the fallback pool.            *)
(***************************************************************************)
EXTENDS UpstreamHealth, TLC

CONSTANTS a, b, c

(* The main pool alone. *)
MainOnly == {<< <<a, b>> >>}

(* The main pool with its fallback. *)
WithFallback == {<< <<a, b>>, <<c>> >>}
=============================================================================
