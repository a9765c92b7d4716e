------------------------------ MODULE MCRemote ------------------------------
(* Who calls the service from outside: the bridge of the desktop and the     *)
(* sessions of the web console, which share no state: the initial state says *)
(* which of the two runs, and the other stands still.  Only the bridge has   *)
(* fairness, asked for where it runs.                                        *)
EXTENDS ServiceBridge, WebSessions

VARIABLE remotePart

RemoteInit ==
    /\ remotePart \in {"bridge", "web"} /\ BrInit /\ WaInit
    /\ remotePart # "bridge" => brPlatform = "unix" /\ brVersion = CHOOSE v \in BrVersions : TRUE

BridgePart == remotePart = "bridge" /\ BrNext /\ UNCHANGED <<waVars, remotePart>>
WebPart == remotePart = "web" /\ WaNext /\ UNCHANGED <<brVars, remotePart>>

RemoteNext == BridgePart \/ WebPart
RemoteFairness ==
    /\ WF_brVars(remotePart = "bridge" /\ BrProcessStep) /\ WF_brVars(remotePart = "bridge" /\ BrWakerStep)
    /\ \A c \in BrClients : WF_brVars(remotePart = "bridge" /\ BrServed(c))
RemoteSpec == RemoteInit /\ [][RemoteNext]_<<brVars, waVars, remotePart>> /\ RemoteFairness
=============================================================================
