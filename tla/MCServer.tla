------------------------------ MODULE MCServer ------------------------------
(* The threads of the server, the writer of security events and the update   *)
(* of the lists, which share no state: the initial state says which of them  *)
(* runs, and the others stand still.  The server and the writer have no fair *)
(* step to take while they do; the update, with no list enabled, has none    *)
(* that matters, and its fairness is asked for where it runs.                *)
EXTENDS ServerLifecycle, SecurityEvents, FilterUpdate

VARIABLE serverPart

ServerInit ==
    /\ serverPart \in {"server", "events", "lists"} /\ SvInit /\ SeInit /\ FuInit
    /\ fuEnabled = IF serverPart = "lists" THEN FuLists ELSE {}

ServerPart == serverPart = "server" /\ SvNext /\ UNCHANGED <<seVars, fuVars, serverPart>>
EventPart == serverPart = "events" /\ SeNext /\ UNCHANGED <<svVars, fuVars, serverPart>>
ListPart == serverPart = "lists" /\ FuNextStep /\ UNCHANGED <<svVars, seVars, serverPart>>

ServerNext == ServerPart \/ EventPart \/ ListPart
ServerFairness ==
    /\ SvFairness /\ SeFairness
    /\ WF_fuVars(serverPart = "lists" /\ FuUpdateStep) /\ WF_fuVars(serverPart = "lists" /\ FuWakes)
    /\ WF_fuVars(serverPart = "lists" /\ FuTime)
ServerSpec == ServerInit /\ [][ServerNext]_<<svVars, seVars, fuVars, serverPart>> /\ ServerFairness

(* stop returns and a dead thread is noticed, whoever waits with the lock of *)
(* the statistics gets on, and lists catch up with their servers.            *)
ServerLiveness == SvStopReturns /\ SvDeadThreadNoticed /\ SeLockComesFree /\ FuListsCatchUp
=============================================================================
