---------------------------- MODULE ServiceBridge ----------------------------
(* The background service and the calls of the app: client.rs, rpc_server.rs *)
(* and the three processes that serve them (daemon.rs, linux_daemon.rs,      *)
(* windows_service.rs with windows_pipe.rs).  Every call is a connection of  *)
(* its own: greeting, request, answer.  On Unix the accept loop polls; on    *)
(* Windows it blocks and whoever wants it to end has to connect once more.   *)
EXTENDS Integers, Sequences, FiniteSets

CONSTANTS BrClients,
          MaxBrFaults   \* bound on calls given up and processes that die

(* service_version: 0 speaks another protocol, 1 is old, 2 is the app's. *)
BrVersions == 0..2
BrCurrent == 2
BrProtocol(version) == IF version = 0 THEN 0 ELSE 1

(* ping, every operation of the service core, restart_service of the app     *)
(* that found an old service, request_data_migration                         *)
BrMethods == {[name |-> "ping", versioned |-> FALSE, restarts |-> FALSE],
              [name |-> "core", versioned |-> TRUE, restarts |-> FALSE],
              [name |-> "restart", versioned |-> FALSE, restarts |-> TRUE],
              [name |-> "move", versioned |-> TRUE, restarts |-> TRUE]}
BrNamed(name) == CHOOSE m \in BrMethods : m.name = name

VARIABLES brPlatform,  \* "unix" or "windows"
          brProc,      \* "down", "up", "leaving"
          brVersion,   \* of the process
          brWanted,    \* nobody stopped the service
          brStop, brRestart,   \* stop_requested, restart_requested
          brLoop,      \* where the accept loop of Windows is
          brBound,     \* somebody may connect
          brQueue,     \* connections that wait for accept
          brWaker,     \* the thread of wake_server
          brConn,      \* the server's end of the call of a client
          brCall,      \* the client's end
          brRuns,      \* how often the request was carried out
          brForeign,   \* a service of another version carried out what it must not
          brDue,       \* a restart was promised by this process
          brFaults
brProcess == <<brPlatform, brProc, brVersion, brWanted, brStop, brRestart>>
brDoor == <<brLoop, brBound, brQueue, brWaker>>
brGhosts == <<brRuns, brForeign, brDue>>
brVars == <<brProcess, brDoor, brConn, brCall, brGhosts, brFaults>>

BrWindows == brPlatform = "windows"
BrIdle == [phase |-> "idle", method |-> BrNamed("ping"), seen |-> 0, outcome |-> "none"]
BrWake == "wake"

(* The thread that wakes the accept loop is none of the callers. *)
ASSUME BrConstants == BrWake \notin BrClients /\ MaxBrFaults \in Nat

BrInit ==
    /\ brPlatform \in {"unix", "windows"} /\ brProc = "up" /\ brVersion \in BrVersions /\ brWanted = TRUE
    /\ brStop = FALSE /\ brRestart = FALSE
    /\ brLoop = "top" /\ brBound = TRUE /\ brQueue = <<>> /\ brWaker = "none"
    /\ brConn = [c \in BrClients |-> "none"] /\ brCall = [c \in BrClients |-> BrIdle]
    /\ brRuns = [c \in BrClients |-> 0] /\ brForeign = FALSE /\ brDue = FALSE /\ brFaults = 0

------------------------------------------------------------------------------
(* Mutant: clients queue for a named pipe as well. *)
BrConnectableQueued == brBound
(* A Unix socket queues; a named pipe has one free instance or none. *)
BrConnectable == brBound /\ (BrWindows => brQueue = <<>>)

(* connect_and_hello, with the greeting written at once *)
BrConnect(c, method) ==
    /\ brCall[c].phase = "idle" /\ brConn[c] = "none" /\ BrConnectable
    /\ brQueue' = Append(brQueue, [who |-> c, open |-> TRUE])
    /\ brConn' = [brConn EXCEPT ![c] = "queued"]
    /\ brCall' = [brCall EXCEPT ![c] = [phase |-> "hello", method |-> method, seen |-> 0, outcome |-> "none"]]
    /\ brRuns' = [brRuns EXCEPT ![c] = 0]
    /\ UNCHANGED <<brProcess, brLoop, brBound, brWaker, brForeign, brDue, brFaults>>

(* ensure_macos_service_with: an old service that answers is asked to end. *)
BrSawOld(c) ==
    brCall[c].phase = "idle" /\ brCall[c].outcome = "ok" /\ brCall[c].seen \notin {0, BrCurrent}
BrEnsure(c) == BrSawOld(c) /\ BrConnect(c, BrNamed("restart"))
BrDial(c, name) == ~BrSawOld(c) /\ BrConnect(c, BrNamed(name))

(* Only what a probe saw is kept. *)
BrEnded(call, outcome) ==
    [BrIdle EXCEPT !.outcome = outcome,
                   !.seen = IF outcome = "ok" /\ call.method.name = "ping" THEN call.seen ELSE 0]
BrEnd(c, outcome) == [brCall EXCEPT ![c] = BrEnded(@, outcome)]

(* perform_handshake, and finish_hello of the client that reads its answer *)
BrGreet(c) ==
    /\ brConn[c] = "greeting" /\ brProc # "down"
    /\ IF brCall[c].phase = "idle"
       THEN brConn' = [brConn EXCEPT ![c] = "none"] /\ brCall' = BrEnd(c, "failed")
       ELSE IF BrProtocol(brVersion) = BrProtocol(BrCurrent)
       THEN /\ brConn' = [brConn EXCEPT ![c] = "greeted"]
            /\ brCall' = [brCall EXCEPT ![c].seen = brVersion]
       ELSE /\ brConn' = [brConn EXCEPT ![c] = "none"]
            /\ brCall' = BrEnd(c, "failed")
    /\ UNCHANGED <<brProcess, brDoor, brGhosts, brFaults>>

(* Mutant: a service of the same protocol is good enough. *)
BrAcceptsProtocol(c) == BrProtocol(brCall[c].seen) = BrProtocol(BrCurrent)
(* call_with_version_policy *)
BrAccepts(c) == brCall[c].method.versioned => brCall[c].seen = BrCurrent
(* The client looks at the version and writes its request. *)
BrAsk(c) ==
    /\ brConn[c] = "greeted" /\ brCall[c].phase = "hello"
    /\ IF BrAccepts(c)
       THEN /\ brConn' = [brConn EXCEPT ![c] = "asked"]
            /\ brCall' = [brCall EXCEPT ![c].phase = "wait"]
       ELSE /\ brConn' = [brConn EXCEPT ![c] = "none"]
            /\ brCall' = BrEnd(c, "failed")
    /\ UNCHANGED <<brProcess, brDoor, brGhosts, brFaults>>

(* handle_requests, dispatch_request; nothing tells the service that the     *)
(* client has given up.                                                      *)
BrWork(c) ==
    /\ brConn[c] = "asked" /\ brProc # "down"
    /\ brConn' = [brConn EXCEPT ![c] = "answering"]
    /\ brRuns' = [brRuns EXCEPT ![c] = @ + 1]
    /\ brForeign' = (brForeign \/ (brCall[c].method.versioned /\ brVersion # BrCurrent))
    /\ UNCHANGED <<brProcess, brDoor, brCall, brDue, brFaults>>
(* handle_requests: a restart is dropped when its answer cannot be written. *)
BrAnswer(c) ==
    /\ brConn[c] = "answering" /\ brProc # "down"
    /\ IF brCall[c].phase = "idle"
       THEN brConn' = [brConn EXCEPT ![c] = "none"] /\ brCall' = BrEnd(c, "failed") /\ UNCHANGED brDue
       ELSE LET restarts == brCall[c].method.restarts
            IN /\ brConn' = [brConn EXCEPT ![c] = IF restarts THEN "restarting" ELSE "none"]
               /\ brCall' = BrEnd(c, "ok") /\ brDue' = (brDue \/ restarts)
    /\ UNCHANGED <<brProcess, brDoor, brRuns, brForeign, brFaults>>
(* The thread of the connection ends with Ok(true). *)
BrRaise(c) ==
    /\ brConn[c] = "restarting" /\ brProc # "down"
    /\ brConn' = [brConn EXCEPT ![c] = "none"] /\ brRestart' = TRUE
    /\ brWaker' = IF BrWindows THEN "run" ELSE brWaker
    /\ UNCHANGED <<brPlatform, brProc, brVersion, brWanted, brStop, brLoop, brBound, brQueue, brCall, brGhosts, brFaults>>
(* RPC_TIMEOUT on Unix, or the app is closed. *)
BrGiveUp(c) ==
    /\ brCall[c].phase # "idle" /\ brFaults < MaxBrFaults /\ brFaults' = brFaults + 1
    /\ brCall' = [brCall EXCEPT ![c].phase = "idle", ![c].outcome = "failed"]
    /\ brQueue' = [i \in DOMAIN brQueue |-> IF brQueue[i].who = c THEN [brQueue[i] EXCEPT !.open = FALSE] ELSE brQueue[i]]
    /\ brConn' = [brConn EXCEPT ![c] = IF @ \in {"queued", "greeted"} THEN "none" ELSE @]
    /\ UNCHANGED <<brProcess, brLoop, brBound, brWaker, brGhosts>>

------------------------------------------------------------------------------
(* Mutant: only a stop ends the loop. *)
BrFlaggedStop == brStop
BrFlagged == brStop \/ brRestart

(* run_daemon *)
BrAccept ==
    /\ ~BrWindows /\ brProc = "up" /\ ~BrFlagged /\ brQueue # <<>>
    /\ brQueue' = Tail(brQueue)
    /\ brConn' = [c \in BrClients |-> IF Head(brQueue) = [who |-> c, open |-> TRUE] THEN "greeting" ELSE brConn[c]]
    /\ UNCHANGED <<brProcess, brLoop, brBound, brWaker, brCall, brGhosts, brFaults>>
(* run_service_loop: its head, accept, and what follows *)
BrTop ==
    /\ BrWindows /\ brProc = "up" /\ brLoop = "top" /\ ~BrFlagged /\ brLoop' = "accept"
    /\ UNCHANGED <<brProcess, brBound, brQueue, brWaker, brConn, brCall, brGhosts, brFaults>>
BrTake ==
    /\ BrWindows /\ brProc = "up" /\ brLoop = "accept" /\ brQueue # <<>> /\ Head(brQueue).open
    /\ brLoop' = "took" /\ brBound' = FALSE
    /\ UNCHANGED <<brProcess, brQueue, brWaker, brConn, brCall, brGhosts, brFaults>>
BrServe ==
    /\ brProc = "up" /\ brLoop = "took" /\ ~BrFlagged
    /\ brLoop' = "top" /\ brBound' = TRUE /\ brQueue' = <<>>
    /\ brConn' = [c \in BrClients |-> IF Head(brQueue) = [who |-> c, open |-> TRUE] THEN "greeting" ELSE brConn[c]]
    /\ UNCHANGED <<brProcess, brWaker, brCall, brGhosts, brFaults>>
(* The loop ends: the takeover is restored on Linux and the DNS stopped. *)
BrLeave ==
    /\ brProc = "up" /\ BrFlagged /\ brLoop # "accept" /\ brProc' = "leaving"
    /\ UNCHANGED <<brPlatform, brVersion, brWanted, brStop, brRestart, brDoor, brConn, brCall, brGhosts, brFaults>>

(* wake_server: connects and hangs up at once. *)
BrWakeUp ==
    /\ brWaker = "run" /\ BrConnectable
    /\ brQueue' = <<[who |-> BrWake, open |-> TRUE]>> /\ brWaker' = "hangup"
    /\ UNCHANGED <<brProcess, brLoop, brBound, brConn, brCall, brGhosts, brFaults>>
BrWakeFails ==
    /\ brWaker = "run" /\ ~BrConnectable /\ brWaker' = "none"
    /\ UNCHANGED <<brProcess, brLoop, brBound, brQueue, brConn, brCall, brGhosts, brFaults>>
BrHangUp ==
    /\ brWaker = "hangup" /\ brWaker' = "none"
    /\ brQueue' = [i \in DOMAIN brQueue |-> IF brQueue[i].who = BrWake THEN [brQueue[i] EXCEPT !.open = FALSE] ELSE brQueue[i]]
    /\ UNCHANGED <<brProcess, brLoop, brBound, brConn, brCall, brGhosts, brFaults>>

(* Mutant: the end of the connection counts as an answer. *)
BrBrokenDone == "ok"
(* read_result on a connection that ends *)
BrBroken == "failed"
(* The process is gone, and every connection with it. *)
BrGone ==
    /\ brProc' = "down" /\ brBound' = FALSE /\ brQueue' = <<>> /\ brWaker' = "none" /\ brLoop' = "top"
    /\ brConn' = [c \in BrClients |-> "none"]
    /\ brCall' = [c \in BrClients |->
           IF brCall[c].phase = "idle" THEN brCall[c] ELSE BrEnded(brCall[c], BrBroken)]
    /\ brDue' = FALSE
    /\ UNCHANGED <<brPlatform, brVersion, brWanted, brStop, brRestart, brRuns, brForeign>>
BrExit == brProc = "leaving" /\ BrGone /\ UNCHANGED brFaults
(* ConnectNamedPipe fails for a client that has hung up already: the loop    *)
(* returns the error and the service ends without stopping the DNS itself.   *)
BrAcceptFails ==
    /\ brProc = "up" /\ brLoop = "accept" /\ brQueue # <<>> /\ ~Head(brQueue).open
    /\ BrGone /\ UNCHANGED brFaults
BrDies ==
    /\ brProc # "down" /\ brFaults < MaxBrFaults /\ brFaults' = brFaults + 1 /\ BrGone

(* launchd, systemd or the service control manager; run_service_body binds   *)
(* before it reports Running.                                                *)
BrStart ==
    /\ brProc = "down" /\ brWanted
    /\ brProc' = "up" /\ brVersion' = BrCurrent /\ brStop' = FALSE /\ brRestart' = FALSE /\ brBound' = TRUE
    /\ UNCHANGED <<brPlatform, brWanted, brLoop, brQueue, brWaker, brConn, brCall, brGhosts, brFaults>>
(* Mutant: the flag is raised and nobody is woken. *)
BrStopWakerNone == brWaker
(* run_service, the handler of controls *)
BrStopWaker == IF BrWindows THEN "run" ELSE brWaker
(* SIGTERM, or a Stop control *)
BrStopService ==
    /\ brProc = "up" /\ ~brStop /\ brStop' = TRUE /\ brWanted' = FALSE /\ brWaker' = BrStopWaker
    /\ UNCHANGED <<brPlatform, brProc, brVersion, brRestart, brLoop, brBound, brQueue, brConn, brCall, brGhosts, brFaults>>

BrServed(c) == BrGreet(c) \/ BrAsk(c) \/ BrWork(c) \/ BrAnswer(c) \/ BrRaise(c)
BrProcessStep ==
    BrAccept \/ BrTop \/ BrTake \/ BrServe \/ BrLeave \/ BrExit \/ BrAcceptFails \/ BrStart
BrWakerStep == BrWakeUp \/ BrWakeFails \/ BrHangUp
BrNext ==
    \/ \E c \in BrClients :
        \/ BrEnsure(c)
        \/ \E name \in {"ping", "core", "move"} : BrDial(c, name)
        \/ BrServed(c)
        \/ BrGiveUp(c)
    \/ BrProcessStep
    \/ BrWakerStep
    \/ BrDies
    \/ BrStopService

(* Threads that can go on do, and so does the manager of services; nobody    *)
(* has to call, to give up, to stop or to die.                               *)
BrFairness ==
    /\ WF_brVars(BrProcessStep) /\ WF_brVars(BrWakerStep)
    /\ \A c \in BrClients : WF_brVars(BrServed(c))
BrSpec == BrInit /\ [][BrNext]_brVars /\ BrFairness

------------------------------------------------------------------------------
BrTypeOK ==
    /\ brProc \in {"down", "up", "leaving"} /\ brVersion \in BrVersions
    /\ BrWindows => Len(brQueue) <= 1
    /\ \A i \in DOMAIN brQueue : brQueue[i].who \in BrClients \cup {BrWake}
    /\ \A c \in BrClients :
        /\ brConn[c] \in {"none", "queued", "greeting", "greeted", "asked", "answering", "restarting"}
        /\ brCall[c].phase \in {"idle", "hello", "wait"} /\ brCall[c].method \in BrMethods
    /\ brProc = "down" => \A c \in BrClients : brConn[c] = "none" /\ brCall[c].phase = "idle"

(* No operation of the service core is carried out by a service of another   *)
(* version than the app that asked, although services are replaced between   *)
(* a probe and a call.                                                       *)
BrVersionsMatch == ~brForeign

(* What the app reports as done was done once, by every way a connection,    *)
(* a process or the app itself may end; nothing is done twice.               *)
BrOutcomeTrue ==
    \A c \in BrClients :
        brRuns[c] <= 1 /\ (brCall[c].phase = "idle" /\ brCall[c].outcome = "ok" => brRuns[c] = 1)

(* A service that is told to stop ends, whatever the accept loop is at. *)
BrStopEnds == brStop ~> brProc = "down"

(* A restart that was confirmed to the app takes place. *)
BrRestartHappens == brDue ~> ~brDue

(* What the app is told about a call is what a service of its own version has*)
(* done, however connection, service or app may end.                         *)
BrCallsTrue == BrTypeOK /\ BrVersionsMatch /\ BrOutcomeTrue

(* A stop that was requested ends the service, and a restart that was        *)
(* confirmed to the app takes place.                                         *)
BrLiveness == BrStopEnds /\ BrRestartHappens
==============================================================================
