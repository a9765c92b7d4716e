---------------------------- MODULE WebSessions ----------------------------
(* web_auth.rs and the request path of web_admin.rs: the management         *)
(* password with its cache, the session table, the limit on failed logins,  *)
(* and the middleware in front of every management call.  Password, table   *)
(* and limit have a mutex each, and a request takes them one after the      *)
(* other: a step is what happens under one of them, and between any two     *)
(* steps others act, the local command line and the slow hash included.     *)
EXTENDS Integers, FiniteSets

CONSTANTS WebClients, Passwords,
          NoPassword,
          WebThreads,         \* requests and local commands under way at a time
          MaxSessions,        \* MAX_SESSIONS
          Lifetime, Idle,     \* SESSION_ABSOLUTE_LIFETIME, idle_timeout
          LockoutAfter, LockoutBase, LockoutMax,
          MaxTracked, Retention,
          GlobalLimit, GlobalWindow, GlobalLockout,
          MaxWebTime,         \* bound on the clock
          MaxTokens           \* bound on issued sessions

ASSUME WebConstants ==
    /\ {MaxSessions, LockoutAfter, LockoutBase, MaxTracked, GlobalLimit, MaxWebTime} \subseteq Nat \ {0}
    /\ {Lifetime, Idle, LockoutMax, Retention, GlobalWindow, GlobalLockout, MaxTokens} \subseteq Nat
    /\ NoPassword \notin Passwords

VARIABLES waStored,     \* the credential in the database
          waCache,      \* CredentialCache: {} while not loaded
          waSessions,   \* token -> session; tokens are numbered as they are issued
          waTracked,    \* client -> ClientAttempts, for the clients in the table
          waGlobal,
          waCall,       \* thread -> what it is at
          waTokens,     \* tokens handed out so far
          waNow,
          waServed      \* what this step has answered or done, as events

waVars == <<waStored, waCache, waSessions, waTracked, waGlobal, waCall, waTokens, waNow, waServed>>

(* No window has been opened. *)
WaNoFailures == [failures |-> 0, started |-> -1 - GlobalWindow, until |-> 0]

(* A thread between two steps: whose token or which client it is about, and *)
(* the password that it has read.                                           *)
WaCall(at, who, read) == [at |-> at, who |-> who, read |-> read]
WaIdle == WaCall("idle", 0, NoPassword)

WaInit ==
    /\ waStored = NoPassword /\ waCache = {}
    /\ waSessions = <<>> /\ waTracked = <<>>
    /\ waGlobal = WaNoFailures
    /\ waCall = [k \in WebThreads |-> WaIdle]
    /\ waTokens = 0 /\ waNow = 1 /\ waServed = {}

WaAt(k, at) == waCall[k].at = at
WaGoes(k, call) == waCall' = [waCall EXCEPT ![k] = call]
WaEvent(kind, who, given) == [kind |-> kind, who |-> who, given |-> given]
WaTell(kind, who, given) == waServed' = {WaEvent(kind, who, given)}
WaQuiet == waServed' = {}

(* load_credential_cache *)
WaLoaded == IF waCache = {} THEN waStored ELSE CHOOSE p \in waCache : TRUE
WaLoad == waCache' = {WaLoaded}

------------------------------------------------------------------------------
(* Mutant: activity keeps a session for ever. *)
WaLiveIdleOnly(s) == waNow - s.seen <= Idle

(* prune_sessions *)
WaLive(s) == waNow - s.created <= Lifetime /\ waNow - s.seen <= Idle
WaPruned == {t \in DOMAIN waSessions : WaLive(waSessions[t])}

WaKeep(tokens) == [t \in tokens |-> waSessions[t]]

(* Mutant: the table is full at one more. *)
WaRoomLate(tokens) ==
    IF Cardinality(tokens) > MaxSessions THEN tokens \ {t \in tokens : \A u \in tokens : t <= u} ELSE tokens

(* issue_session: a full table loses the entry that was made first. *)
WaRoom(tokens) ==
    IF Cardinality(tokens) >= MaxSessions THEN tokens \ {t \in tokens : \A u \in tokens : t <= u} ELSE tokens
WaIssue(k) ==
    /\ WaAt(k, "issue") /\ WaGoes(k, WaIdle)
    /\ waTokens < MaxTokens /\ waTokens' = waTokens + 1
    /\ waSessions' = [t \in WaRoom(WaPruned) \cup {waTokens'} |->
                        IF t = waTokens' THEN [created |-> waNow, seen |-> waNow] ELSE waSessions[t]]
    /\ WaQuiet /\ UNCHANGED <<waStored, waCache, waTracked, waGlobal, waNow>>

(* touch_session *)
WaTouched(token) == [t \in WaPruned |-> IF t = token THEN [waSessions[t] EXCEPT !.seen = waNow]
                                        ELSE waSessions[t]]

------------------------------------------------------------------------------
(* Mutant: a cookie is enough. *)
WaAuthorizedByCookie == TRUE

(* authorize, called by require_authentication: no session counts while no  *)
(* password is set; then the table is asked for the token of the cookie.    *)
WaAuthorized == WaLoaded # NoPassword
WaAuthorize(k, t) ==
    /\ WaAt(k, "idle") /\ WaLoad
    /\ IF WaAuthorized THEN WaGoes(k, WaCall("touch", t, NoPassword)) ELSE UNCHANGED waCall
    /\ WaQuiet /\ UNCHANGED <<waStored, waSessions, waTracked, waGlobal, waTokens, waNow>>

(* A request: its Host is an address or a listed name, its Origin is that   *)
(* Host, its route reads or changes something, or is the change of password.*)
WaRequests == [host : BOOLEAN, origin : BOOLEAN, mutation : BOOLEAN, password : BOOLEAN]

(* RequestSecurity::validate.  The setup, the login and the logout ask it   *)
(* before anything else, as mutations.                                      *)
WaAllowed(r) == r.host /\ (r.mutation \/ r.password => r.origin)

(* touch_session, then the handler of the route: it looks at the headers    *)
(* and dispatches, or goes on to change_password.                           *)
WaTouch(k) ==
    /\ WaAt(k, "touch")
    /\ waSessions' = WaTouched(waCall[k].who)
    /\ IF waCall[k].who \in WaPruned
         THEN \E r \in WaRequests :
                \/ WaAllowed(r) /\ ~r.password /\ WaGoes(k, WaIdle) /\ WaTell("admin", waCall[k].who, NoPassword)
                \/ WaAllowed(r) /\ r.password /\ WaGoes(k, WaCall("compare", waCall[k].who, NoPassword)) /\ WaQuiet
                \/ ~WaAllowed(r) /\ WaGoes(k, WaIdle) /\ WaQuiet
         ELSE WaGoes(k, WaIdle) /\ WaQuiet
    /\ UNCHANGED <<waStored, waCache, waTracked, waGlobal, waTokens, waNow>>

WaDrop(tokens) ==
    /\ waSessions' = WaKeep(DOMAIN waSessions \ tokens)
    /\ WaQuiet /\ UNCHANGED <<waStored, waCache, waTracked, waGlobal, waCall, waTokens, waNow>>

(* logout, remove_session *)
WaLogout(t) == WaDrop({t})

(* invalidate_sessions: cookies are to be secure from now on. *)
WaInvalidate == WaDrop(DOMAIN waSessions)

------------------------------------------------------------------------------
(* change_password: compared and written under one lock. *)
WaMayChange(old) == WaLoaded # NoPassword /\ old = WaLoaded
WaChange(k, old, new) ==
    /\ WaAt(k, "compare")
    /\ IF WaMayChange(old)
         THEN /\ waStored' = new /\ waCache' = {new} /\ WaTell("change", waCall[k].who, old)
              /\ WaGoes(k, WaCall("retain", waCall[k].who, NoPassword))
         ELSE WaLoad /\ WaQuiet /\ WaGoes(k, WaIdle) /\ UNCHANGED waStored
    /\ UNCHANGED <<waSessions, waTracked, waGlobal, waTokens, waNow>>

(* set_password_locally and reset_password of the local command line. *)
WaSetLocally(k, p) ==
    /\ WaAt(k, "idle") /\ WaGoes(k, WaCall("clear", 0, NoPassword))
    /\ waStored' = p /\ waCache' = {p} /\ WaTell("local", 0, NoPassword)
    /\ UNCHANGED <<waSessions, waTracked, waGlobal, waTokens, waNow>>

(* Mutant: a command that sets the password leaves the table alone. *)
WaRetainedAll(k) == DOMAIN waSessions

(* retain_only_session: the caller's own, or none. *)
WaRetained(k) == IF WaAt(k, "retain") THEN DOMAIN waSessions \cap {waCall[k].who} ELSE {}
WaRetain(k) ==
    /\ WaAt(k, "retain") \/ WaAt(k, "clear")
    /\ waSessions' = WaKeep(WaRetained(k)) /\ WaGoes(k, WaIdle)
    /\ WaQuiet /\ UNCHANGED <<waStored, waCache, waTracked, waGlobal, waTokens, waNow>>

(* create_initial_password, for auth_setup: the hash comes first, then the  *)
(* cache decides under its lock, and the database takes the first row only. *)
WaMayCreate == WaLoaded = NoPassword /\ waStored = NoPassword
WaSetup(k, p) ==
    /\ WaAt(k, "idle")
    /\ IF WaMayCreate
         THEN /\ waStored' = p /\ waCache' = {p} /\ WaTell("setup", 0, NoPassword)
              /\ WaGoes(k, WaCall("issue", 0, NoPassword))
         ELSE WaLoad /\ WaQuiet /\ UNCHANGED <<waStored, waCall>>
    /\ UNCHANGED <<waSessions, waTracked, waGlobal, waTokens, waNow>>

------------------------------------------------------------------------------
(* login: the credential is read, the lock-outs are looked at, the hash is  *)
(* compared with what was read.                                             *)
WaLogin(k, client) ==
    /\ WaAt(k, "idle") /\ WaLoad
    /\ IF WaLoaded # NoPassword THEN WaGoes(k, WaCall("lockout", client, WaLoaded)) ELSE UNCHANGED waCall
    /\ WaQuiet /\ UNCHANGED <<waStored, waSessions, waTracked, waGlobal, waTokens, waNow>>

(* check_lockout *)
WaLocked(client) == \/ waNow < waGlobal.until
                    \/ client \in DOMAIN waTracked /\ waNow < waTracked[client].until
WaCheckLockout(k) ==
    /\ WaAt(k, "lockout")
    /\ WaGoes(k, IF WaLocked(waCall[k].who) THEN WaIdle ELSE [waCall[k] EXCEPT !.at = "verify"])
    /\ WaQuiet /\ UNCHANGED <<waStored, waCache, waSessions, waTracked, waGlobal, waTokens, waNow>>

WaMin(a, b) == IF a < b THEN a ELSE b

(* evict_stale_attempts: old records go, and, while the table is full, one  *)
(* of those that failed longest ago.  The sets that may be left.            *)
WaKept ==
    LET fresh == {k \in DOMAIN waTracked : \/ waNow < waTracked[k].until
                                           \/ waNow - waTracked[k].last <= Retention}
    IN {kept \in SUBSET fresh :
          /\ Cardinality(kept) < MaxTracked
          /\ kept = fresh \/ Cardinality(kept) = MaxTracked - 1
          /\ \A k \in kept, j \in fresh \ kept : waTracked[j].last <= waTracked[k].last}

(* The lock after so many failures: doubled with each, and bounded. *)
WaLockFor(failures) == WaMin(LockoutBase * 2 ^ WaMin(failures - LockoutAfter, 16), LockoutMax)

WaCountGlobal ==
    LET n == IF waNow - waGlobal.started <= GlobalWindow THEN waGlobal.failures + 1 ELSE 1
        since == IF waNow - waGlobal.started <= GlobalWindow THEN waGlobal.started ELSE waNow
    IN waGlobal' = IF n >= GlobalLimit
                     THEN [failures |-> 0, started |-> waNow, until |-> waNow + GlobalLockout]
                     ELSE [waGlobal EXCEPT !.failures = n, !.started = since]

(* Mutant: a client's record starts again with each failure. *)
WaFailuresAnew(client, kept) == 1

(* record_failure *)
WaFailures(client, kept) == (IF client \in kept THEN waTracked[client].failures ELSE 0) + 1
WaEntry(client, kept) ==
    LET n == WaFailures(client, kept)
    IN [failures |-> n, last |-> waNow,
        until |-> IF n >= LockoutAfter THEN waNow + WaLockFor(n)
                  ELSE IF client \in kept THEN waTracked[client].until ELSE 0]
WaWrong(k, given) ==
    /\ WaAt(k, "verify") /\ given # waCall[k].read /\ WaGoes(k, WaIdle)
    /\ WaCountGlobal
    /\ \E kept \in WaKept :
         waTracked' = [c \in kept \cup {waCall[k].who} |->
                         IF c = waCall[k].who THEN WaEntry(c, kept) ELSE waTracked[c]]
    /\ WaTell("failed", waCall[k].who, NoPassword)
    /\ UNCHANGED <<waStored, waCache, waSessions, waTokens, waNow>>

(* clear_failures, before the session is issued *)
WaRight(k, given) ==
    /\ WaAt(k, "verify") /\ given = waCall[k].read /\ WaGoes(k, WaCall("issue", 0, NoPassword))
    /\ waTracked' = [c \in DOMAIN waTracked \ {waCall[k].who} |-> waTracked[c]]
    /\ WaTell("login", waCall[k].who, NoPassword)
    /\ UNCHANGED <<waStored, waCache, waSessions, waGlobal, waTokens, waNow>>

------------------------------------------------------------------------------
(* Mutant: the password file overrides what the user has set. *)
WaFromFileAlways(file) == IF file = NoPassword THEN waStored ELSE file

(* apply_password_file: only where no password is set yet. *)
WaFromFile(file) == IF waStored = NoPassword THEN file ELSE waStored

(* The process starts again; only the database is kept. *)
WaRestart(file) ==
    /\ waStored' = WaFromFile(file)
    /\ waCache' = {} /\ waSessions' = <<>> /\ waTracked' = <<>>
    /\ waCall' = [k \in WebThreads |-> WaIdle] /\ waGlobal' = WaNoFailures
    /\ waServed' = {WaEvent("restart", 0, NoPassword)}
                     \cup (IF waStored' = waStored THEN {} ELSE {WaEvent("setup", 0, NoPassword)})
    /\ UNCHANGED <<waTokens, waNow>>

WaTick ==
    /\ waNow < MaxWebTime /\ waNow' = waNow + 1
    /\ WaQuiet /\ UNCHANGED <<waStored, waCache, waSessions, waTracked, waGlobal, waCall, waTokens>>

(* A step of a thread that is under way. *)
WaGoesOn(k) ==
    \/ WaIssue(k) \/ WaTouch(k) \/ WaRetain(k) \/ WaCheckLockout(k)
    \/ \E old, new \in Passwords : WaChange(k, old, new)
    \/ \E p \in Passwords : WaWrong(k, p) \/ WaRight(k, p)

WaNext ==
    \/ \E k \in WebThreads :
         \/ WaGoesOn(k)
         \/ \E t \in 1..waTokens : WaAuthorize(k, t)
         \/ \E client \in WebClients : WaLogin(k, client)
         \/ \E p \in Passwords : WaSetup(k, p)
         \/ \E p \in Passwords \cup {NoPassword} : WaSetLocally(k, p)
    \/ \E t \in 1..waTokens : WaLogout(t)
    \/ WaInvalidate
    \/ \E p \in Passwords \cup {NoPassword} : WaRestart(p)
    \/ WaTick

WaSpec == WaInit /\ [][WaNext]_waVars

------------------------------------------------------------------------------
(* The variables keep their types, and the session table stays within its   *)
(* limit, in the order of creation, so that the entry a full table loses is *)
(* the oldest.                                                              *)
WaTypeOK ==
    /\ waStored \in Passwords \cup {NoPassword}
    /\ waCache \subseteq {waStored}
    /\ DOMAIN waSessions \subseteq 1..waTokens /\ Cardinality(DOMAIN waSessions) <= MaxSessions
    /\ \A s, t \in DOMAIN waSessions : s < t => waSessions[s].created <= waSessions[t].created
    /\ DOMAIN waTracked \subseteq WebClients /\ Cardinality(DOMAIN waTracked) <= MaxTracked
    /\ waGlobal.failures \in 0..GlobalLimit - 1
    /\ waNow \in 1..MaxWebTime /\ waTokens \in 0..MaxTokens

(* No call is served while no password is set, though the password and the  *)
(* table are looked at one after the other and a login that was under way   *)
(* may fill the table again: only a command that has reset the password and *)
(* not yet cleared the table can still be overtaken.                        *)
WaNothingWithoutPassword ==
    [][\A e \in waServed' : e.kind = "admin" =>
          waStored # NoPassword \/ \E k \in WebThreads : WaAt(k, "clear")]_waVars

(* However often it is used, a session keeps the date of its login, and     *)
(* serves no call after its absolute lifetime.                              *)
WaSessionsEnd ==
    [][/\ \A e \in waServed' : e.kind = "admin" =>
            e.who \in DOMAIN waSessions /\ waNow - waSessions[e.who].created <= Lifetime
       /\ \A t \in DOMAIN waSessions \cap DOMAIN waSessions' :
            waSessions'[t].created = waSessions[t].created]_waVars

(* Two setups, a setup and the command line, or a setup and the password    *)
(* file: the first one wins.  And the web replaces a password only for a    *)
(* caller who knows the one that it replaces.                               *)
WaReplacedKnowingly ==
    [][waStored' # waStored => \E e \in waServed' :
          \/ e.kind = "setup" /\ waStored = NoPassword
          \/ e.kind = "change" /\ e.given = waStored
          \/ e.kind = "local"]_waVars

(* Failures in a row lock a client longer and longer, whatever others do,   *)
(* unless its record was dropped: too many clients, or too old.  And a lock *)
(* stands until it has run out: attempts that were under way when it fell   *)
(* do not shorten it, but for the right password, a restart or a full table.*)
WaLocksGrow ==
    [][/\ \A e \in waServed' : e.kind = "failed" /\ DOMAIN waTracked' \in WaKept =>
            LET n == waTracked[e.who].failures
            IN n + 1 >= LockoutAfter => waTracked'[e.who].until >= waNow + WaLockFor(n + 1)
       /\ \A c \in DOMAIN waTracked : waNow < waTracked[c].until =>
            \/ c \in DOMAIN waTracked' /\ waTracked'[c].until >= waTracked[c].until
            \/ \E e \in waServed' : (e.kind = "login" /\ e.who = c) \/ e.kind = "restart"
            \/ Cardinality(DOMAIN waTracked) >= MaxTracked]_waVars

(* The console is guarded, under every interleaving of setups, logins, changes*)
(* and resets: nothing is served without a password or after the lifetime of *)
(* a session, a password is replaced only by who knows it, and locks hold and *)
(* grow.                                                                     *)
WaGuarded ==
    /\ []WaTypeOK
    /\ WaNothingWithoutPassword /\ WaSessionsEnd /\ WaReplacedKnowingly /\ WaLocksGrow
=============================================================================
