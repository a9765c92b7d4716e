--------------------------- MODULE ClientPolicies ---------------------------
(* The policies that one saved configuration turns into: rewrites.rs with    *)
(* the system's hosts file, client_policy.rs, upstream_routes.rs,            *)
(* ip_network.rs, local_reverse.rs, and the validation in config.rs that     *)
(* stands before them.  A configuration is a sequence of parsed lines, an    *)
(* address a number of a few bits, a name a sequence of labels with the top  *)
(* level last.                                                               *)
EXTENDS Integers, Sequences, FiniteSets, SequencesExt, FiniteSetsExt

CONSTANTS CpLines,          \* lines a user may enter
          CpHostLines,      \* lines the hosts file may get
          CpNames,          \* names that are asked for
          CpBits,           \* bits of an address by family
          CpDays, CpMinutes,\* days of the week and times of a day
          CpLocalNetworks,  \* LOCAL_V4_NETWORKS, over reverse labels of CpLabelBits bits
          CpLabelBits, CpLabels,
          MaxCpLines        \* bound on the lines

VARIABLES cpDraft,     \* the lines in the form
          cpFlags,     \* allow_insecure_http, dnssec_enabled
          cpSection,   \* the section of the form that is edited
          cpHosts,     \* the hosts file
          cpRuntime,   \* what the last accepted configuration was built to
          cpZone       \* a reverse zone somebody asks for
cpVars == <<cpDraft, cpFlags, cpSection, cpHosts, cpRuntime, cpZone>>

CpFamilies == DOMAIN CpBits
CpClients == UNION {[family : {f}, value : 0..(2^CpBits[f] - 1)] : f \in CpFamilies}
CpAnyName == Seq(STRING) \ {<<>>}
CpAddress == STRING \ {"none"}
CpNetworks == [family : CpFamilies, value : Nat, len : Nat]
(* parse_schedule_weekday and parse_schedule_time *)
CpWhen == [from : 0..(CpDays - 1), to : 0..(CpDays - 1), start : 0..(CpMinutes - 1), end : 0..(CpMinutes - 1)]
CpAnyLine ==
         [kind : {"rewrite"}, wild : BOOLEAN, name : CpAnyName, family : CpFamilies, address : CpAddress]
    \cup [kind : {"group"}, name : STRING]
    \cup [kind : {"policy"}, net : CpNetworks, profile : STRING, when : CpWhen \cup {<<>>}]
    \cup [kind : {"client"}, net : CpNetworks, scheme : STRING]
    \cup [kind : {"domain"}, wild : BOOLEAN, name : CpAnyName, scheme : STRING]
CpAnyHostLine == [family : CpFamilies, address : CpAddress, names : Seq(CpAnyName)]

CpAddressBits == CpLabelBits * CpLabels
CpZones == UNION {[1..n -> 0..(2^CpLabelBits - 1)] : n \in 1..CpLabels}
CpWidth(len) == 2^(CpAddressBits - len)
CpLiesIn(value, local) == local.value <= value /\ value < local.value + CpWidth(local.len)

ASSUME CpConstants ==
    /\ CpBits \in [CpFamilies -> Nat] /\ CpNames \subseteq CpAnyName
    /\ CpLines \subseteq CpAnyLine /\ CpHostLines \subseteq CpAnyHostLine
    /\ \A l \in CpLines : l.kind \in {"policy", "client"} => l.net.value < 2^CpBits[l.net.family]
    /\ {CpDays, CpMinutes, CpLabelBits, CpLabels} \subseteq Nat \ {0}
(* The table: every network is masked to its length, and where none of them  *)
(* holds all of a zone, some address of the zone is in none of them: longer  *)
(* networks inside of a zone never fill it together.                         *)
ASSUME CpLocalTable ==
    /\ \A local \in CpLocalNetworks :
           /\ local.len \in 0..CpAddressBits
           /\ \E n \in 0..(2^local.len - 1) : local.value = n * CpWidth(local.len)
    /\ \A n \in 1..CpLabels : \A k \in 0..(2^(CpLabelBits * n) - 1) :
           LET first == k * CpWidth(CpLabelBits * n)
               zone == first..(first + CpWidth(CpLabelBits * n) - 1)
           IN \/ \E local \in CpLocalNetworks : \A value \in zone : CpLiesIn(value, local)
              \/ \E value \in zone : \A local \in CpLocalNetworks : ~CpLiesIn(value, local)

(* The sections share nothing: no definition below reads lines of two.       *)
CpSections == {{"rewrite"}, {"group", "policy"}, {"client", "domain"}}
(* The lines of one kind, by their numbers *)
CpOf(lines, kind) == [i \in {n \in DOMAIN lines : lines[n].kind = kind} |-> lines[i]]

------------------------------------------------------------------------------
(* prefix_network *)
CpPrefix(value, bits, len) == (value \div 2^(bits - len)) * 2^(bits - len)

(* IpNetwork::contains, IpPrefix::contains *)
CpContains(net, ip) ==
    /\ ip.family = net.family
    /\ CpPrefix(ip.value, CpBits[net.family], net.len) = CpPrefix(net.value, CpBits[net.family], net.len)

(* IpNetwork::parse *)
CpNetworkOk(net) == net.len <= CpBits[net.family]
(* validate_ip_or_cidr *)
CpValidNetwork(net) == net.len <= CpBits[net.family]

(* max_by_key over the rules that have a key: the last of the greatest *)
CpBest(rules, key) ==
    LET fit == DOMAIN key
    IN IF fit = {} THEN <<>>
       ELSE <<rules[CHOOSE i \in fit :
                        \A j \in fit : key[j] < key[i] \/ (key[j] = key[i] /\ j <= i)]>>

------------------------------------------------------------------------------
(* compile_rewrites: the last line for a name and family stands. *)
CpNoTarget == [f \in CpFamilies |-> "none"]
(* Mutant: a line sets the whole target of its name. *)
CpPutWhole(table, name, family, address) ==
    [n \in DOMAIN table \cup {name} |-> IF n = name THEN [f \in {family} |-> address] ELSE table[n]]
CpPut(table, name, family, address) ==
    [n \in DOMAIN table \cup {name} |->
        IF n = name
        THEN [(IF n \in DOMAIN table THEN table[n] ELSE CpNoTarget) EXCEPT ![family] = address]
        ELSE table[n]]
CpNoRewrites == [exact |-> [n \in {} |-> CpNoTarget], wildcard |-> [n \in {} |-> CpNoTarget]]
CpRewritten(rw, l) ==
    IF l.kind # "rewrite" THEN rw
    ELSE IF l.wild THEN [exact |-> rw.exact, wildcard |-> CpPut(rw.wildcard, l.name, l.family, l.address)]
    ELSE [exact |-> CpPut(rw.exact, l.name, l.family, l.address), wildcard |-> rw.wildcard]
CpCompileRewrites(lines) ==
    LET upTo[n \in 0..Len(lines)] == IF n = 0 THEN CpNoRewrites ELSE CpRewritten(upTo[n - 1], lines[n])
    IN upTo[Len(lines)]

(* CompiledRewrites::lookup *)
CpBelow(name, table) == {b \in DOMAIN table : IsSuffix(b, name)}
CpByWildcard(table, name) ==
    LET bases == CpBelow(name, table)
    IN IF bases = {} THEN CpNoTarget ELSE table[CHOOSE b \in bases : \A c \in bases : Len(c) <= Len(b)]
CpLookup(rw, name) ==
    IF name \in DOMAIN rw.exact THEN rw.exact[name] ELSE CpByWildcard(rw.wildcard, name)

(* Mutant: a name of the hosts file starts without what a wildcard gives it. *)
CpInheritedNothing(rw, name) == IF name \in DOMAIN rw.exact THEN rw.exact[name] ELSE CpNoTarget

CpInherited(rw, name) == CpLookup(rw, name)
(* merge_hosts_file: only what is still free, name by name. *)
CpMergeName(rw, name, line) ==
    LET target == CpInherited(rw, name)
    IN [exact |-> [n \in DOMAIN rw.exact \cup {name} |->
            IF n = name
            THEN [target EXCEPT ![line.family] = IF @ = "none" THEN line.address ELSE @]
            ELSE rw.exact[n]],
        wildcard |-> rw.wildcard]
CpMergeLine(rw, line) ==
    LET upTo[n \in 0..Len(line.names)] ==
            IF n = 0 THEN rw ELSE CpMergeName(upTo[n - 1], line.names[n], line)
    IN upTo[Len(line.names)]
CpMergeHosts(rw, lines) ==
    LET upTo[n \in 0..Len(lines)] == IF n = 0 THEN rw ELSE CpMergeLine(upTo[n - 1], lines[n])
    IN upTo[Len(lines)]

------------------------------------------------------------------------------
(* Mutant: the part after midnight belongs to the day it falls on. *)
CpScheduleSameDay(s, day, minute) ==
    IF s.start = s.end THEN day \in s.days
    ELSE IF s.start < s.end THEN day \in s.days /\ minute >= s.start /\ minute < s.end
    ELSE day \in s.days /\ (minute >= s.start \/ minute < s.end)

(* schedule_is_active *)
CpScheduleIsActive(s, day, minute) ==
    IF s.start = s.end THEN day \in s.days
    ELSE IF s.start < s.end THEN day \in s.days /\ minute >= s.start /\ minute < s.end
    ELSE \/ minute >= s.start /\ day \in s.days
         \/ minute < s.end /\ (day + CpDays - 1) % CpDays \in s.days

(* parse_schedule_weekdays: from one day to another, over the end of the week *)
CpWeekdays(from, to) == {(from + k) % CpDays : k \in 0..((to + CpDays - from) % CpDays)}
CpScheduleOf(line) ==
    [days |-> CpWeekdays(line.when.from, line.when.to), start |-> line.when.start, end |-> line.when.end]
CpApplies(line, day, minute) ==
    line.when # <<>> => CpScheduleIsActive(CpScheduleOf(line), day, minute)

(* ClientFilteringPolicies::decision_at *)
CpDecision(rules, client, day, minute) ==
    LET fit == {i \in DOMAIN rules : CpContains(rules[i].net, client)
                                      /\ CpApplies(rules[i], day, minute)}
        best == CpBest(rules, [i \in fit |-> rules[i].net.len])
    IN IF best = <<>> THEN "filter" ELSE best[1].profile

(* UpstreamRoutes::select: a client's route before any route of the name,    *)
(* and for the name the longest pattern, itself before its subdomains.       *)
CpRouteMatches(route, name) == IF route.wild THEN IsSuffix(route.name, name) ELSE route.name = name
CpSelectDomain(routes, name) ==
    LET fit == {i \in DOMAIN routes : CpRouteMatches(routes[i], name)}
    IN CpBest(routes, [i \in fit |-> 2 * Len(routes[i].name) + (IF routes[i].wild THEN 0 ELSE 1)])
CpSelect(runtime, name, client) ==
    LET fit == {i \in DOMAIN runtime.clients : CpContains(runtime.clients[i].net, client)}
        own == CpBest(runtime.clients, [i \in fit |-> runtime.clients[i].net.len])
    IN IF own # <<>> THEN own ELSE CpSelectDomain(runtime.domains, name)

------------------------------------------------------------------------------
CpReserved == {"filter", "bypass", "family"}
CpGroups(lines) == {CpOf(lines, "group")[i].name : i \in DOMAIN CpOf(lines, "group")}

(* parse_client_policy_groups *)
CpGroupsOk(lines) ==
    LET groups == CpOf(lines, "group")
    IN /\ CpGroups(lines) \cap CpReserved = {}
       /\ \A i, j \in DOMAIN groups : groups[i].name = groups[j].name => i = j
(* Mutant: a rule may name a group that nobody defines. *)
CpProfilesUnchecked(lines) == TRUE
(* validate_client_policy_profiles *)
CpProfilesOk(lines) ==
    \A i \in DOMAIN CpOf(lines, "policy") :
        CpOf(lines, "policy")[i].profile \in CpReserved \cup CpGroups(lines)

(* parse_upstream_server *)
CpSchemeOk(line, flags) == line.scheme = "http" => flags.insecure
(* Mutant: only the routes of names are looked at. *)
CpDnssecOkDomains(lines, flags) ==
    flags.dnssec => \A i \in DOMAIN CpOf(lines, "domain") : CpOf(lines, "domain")[i].scheme # "http"
(* AppConfig::validate, with DNSSEC *)
CpDnssecOk(lines, flags) ==
    flags.dnssec => \A i \in DOMAIN lines : lines[i].kind \in {"client", "domain"} => lines[i].scheme # "http"

(* AppConfig::validate *)
CpValid(lines, flags) ==
    /\ CpGroupsOk(lines) /\ CpProfilesOk(lines) /\ CpDnssecOk(lines, flags)
    /\ \A i \in DOMAIN lines :
        /\ lines[i].kind \in {"policy", "client"} => CpValidNetwork(lines[i].net)
        /\ lines[i].kind \in {"client", "domain"} => CpSchemeOk(lines[i], flags)

(* ClientFilteringPolicies::from_config: the groups and the built-in         *)
(* profiles by name; a rule without one, or a bad network, is an error, and  *)
(* build_filter_runtime_with_rules expects that there is none.               *)
CpProfiles(lines) == CpGroups(lines) \cup CpReserved
CpBuilds(lines) ==
    \A i \in DOMAIN lines :
        /\ lines[i].kind = "policy" => lines[i].profile \in CpProfiles(lines)
        /\ lines[i].kind \in {"policy", "client"} => CpNetworkOk(lines[i].net)
(* build_filter_runtime_with_rules *)
CpBuild(lines, hosts) ==
    [rewrites |-> CpMergeHosts(CpCompileRewrites(lines), hosts),
     policies |-> CpOf(lines, "policy"), clients |-> CpOf(lines, "client"), domains |-> CpOf(lines, "domain"),
     panics |-> ~CpBuilds(lines), of |-> lines, hosts |-> hosts]

------------------------------------------------------------------------------
(* The labels put together, every one above those before it *)
CpNumber(labels) ==
    LET upTo[n \in 0..Len(labels)] ==
            IF n = 0 THEN 0 ELSE upTo[n - 1] + labels[n] * 2^(CpLabelBits * (n - 1))
    IN upTo[Len(labels)]

(* Mutant: the labels are taken in the order of the name. *)
CpReverseInOrder(zone) ==
    [value |-> CpNumber(Reverse(zone)) * CpWidth(CpLabelBits * Len(zone)), len |-> CpLabelBits * Len(zone)]

(* parse_v4_reverse_prefix, parse_v6_reverse_prefix: the first label is the  *)
(* lowest.                                                                   *)
CpReversePrefix(zone) ==
    [value |-> CpNumber(zone) * CpWidth(CpLabelBits * Len(zone)), len |-> CpLabelBits * Len(zone)]
(* network_is_local_v4, mask_u32 *)
CpNetworkIsLocal(prefix) ==
    \E local \in CpLocalNetworks :
        prefix.len >= local.len
        /\ CpPrefix(prefix.value, CpAddressBits, local.len) = local.value
CpIsLocalReverse(zone) == zone # <<>> /\ CpNetworkIsLocal(CpReversePrefix(zone))

------------------------------------------------------------------------------
CpInit ==
    /\ cpDraft = <<>> /\ cpFlags \in [insecure : BOOLEAN, dnssec : BOOLEAN] /\ cpHosts = <<>>
    /\ cpSection \in CpSections /\ cpRuntime = CpBuild(<<>>, <<>>) /\ cpZone = <<>>
CpEdit(line) ==
    /\ Len(cpDraft) + Len(cpHosts) < MaxCpLines /\ line.kind \in cpSection
    /\ cpDraft' = Append(cpDraft, line) /\ cpZone' = <<>>
    /\ UNCHANGED <<cpFlags, cpSection, cpHosts, cpRuntime>>
(* Somebody edits the hosts file; it is read at the next build only. *)
CpEditHosts(line) ==
    /\ Len(cpDraft) + Len(cpHosts) < MaxCpLines /\ cpSection = {"rewrite"}
    /\ cpHosts' = Append(cpHosts, line) /\ cpZone' = <<>>
    /\ UNCHANGED <<cpDraft, cpFlags, cpSection, cpRuntime>>
CpSave ==
    /\ CpValid(cpDraft, cpFlags) /\ cpRuntime' = CpBuild(cpDraft, cpHosts) /\ cpRuntime' # cpRuntime
    /\ UNCHANGED <<cpDraft, cpFlags, cpSection, cpHosts, cpZone>>
(* A query for the names of a reverse zone *)
CpAskReverse(zone) ==
    /\ cpDraft = <<>> /\ cpHosts = <<>> /\ cpZone = <<>> /\ cpZone' = zone
    /\ UNCHANGED <<cpDraft, cpFlags, cpSection, cpHosts, cpRuntime>>

CpNext ==
    \/ \E line \in CpLines : CpEdit(line)
    \/ \E line \in CpHostLines : CpEditHosts(line)
    \/ CpSave
    \/ \E zone \in CpZones : CpAskReverse(zone)
CpSpec == CpInit /\ [][CpNext]_cpVars

------------------------------------------------------------------------------
CpTypeOK ==
    /\ Range(cpDraft) \subseteq CpLines /\ cpSection \in CpSections /\ Range(cpHosts) \subseteq CpHostLines
    /\ \A n \in CpNames : CpLookup(cpRuntime.rewrites, n) \in [CpFamilies -> CpAddress \cup {"none"}]
    /\ cpZone \in CpZones \cup {<<>>}

(* What the user's lines say of a name, line by line *)
CpUserSays(name, family) ==
    LET lines == CpOf(cpRuntime.of, "rewrite")
        own == {i \in DOMAIN lines : ~lines[i].wild /\ lines[i].name = name}
        above == {i \in DOMAIN lines : lines[i].wild /\ IsSuffix(lines[i].name, name)}
        meant == IF own # {} THEN own
                 ELSE {i \in above : \A j \in above : Len(lines[j].name) <= Len(lines[i].name)}
        given == {i \in meant : lines[i].family = family}
    IN IF given = {} THEN "none" ELSE lines[Max(given)].address
CpHostsSay(name, family) ==
    LET lines == cpRuntime.hosts
        given == {i \in DOMAIN lines : lines[i].family = family /\ name \in Range(lines[i].names)}
    IN IF given = {} THEN "none" ELSE lines[Min(given)].address

(* Every address the user's rewrites give a name, by a line of its own or by *)
(* a wildcard above it, survives the merge with the hosts file; the hosts    *)
(* file fills exactly the rest ("用户显式配置的记录始终优先").                 *)
CpUserRewritesWin ==
    \A name \in CpNames, f \in CpFamilies :
        CpLookup(cpRuntime.rewrites, name)[f] =
            IF CpUserSays(name, f) # "none" THEN CpUserSays(name, f) ELSE CpHostsSay(name, f)

(* Bit by bit, and minute by minute of the week *)
CpBit(value, bits, k) == (value \div 2^(bits - 1 - k)) % 2
CpCovers(net, c) ==
    /\ c.family = net.family
    /\ \A k \in 0..(net.len - 1) : CpBit(c.value, CpBits[c.family], k) = CpBit(net.value, CpBits[c.family], k)
CpWeek == CpDays * CpMinutes
CpHours(line) ==
    LET start == IF line.when.start = line.when.end THEN 0 ELSE line.when.start
        length == IF line.when.start = line.when.end THEN CpMinutes
                  ELSE (line.when.end + CpMinutes - line.when.start) % CpMinutes
    IN {(d * CpMinutes + start + k) % CpWeek : d \in CpWeekdays(line.when.from, line.when.to), k \in 0..(length - 1)}
CpInForce(line, c, t) == CpCovers(line.net, c) /\ (line.when = <<>> \/ t \in CpHours(line))

(* At every minute of the week a client is under the rule of the smallest    *)
(* network around it that is in force then, the last such one, whatever else *)
(* is configured; a schedule over midnight belongs to the day it began.      *)
CpPolicyInTime ==
    \A c \in CpClients, t \in 0..(CpWeek - 1) :
        LET rules == cpRuntime.policies
            force == {i \in DOMAIN rules : CpInForce(rules[i], c, t)}
            top == {i \in force : \A j \in force : rules[j].net.len <= rules[i].net.len}
        IN CpDecision(rules, c, t \div CpMinutes, t % CpMinutes)
               = (IF top = {} THEN "filter" ELSE rules[Max(top)].profile)

(* No accepted configuration makes the build of the filter panic. *)
CpAcceptedBuilds == ~cpRuntime.panics

(* No query is routed to a plain HTTP upstream that was not allowed, and     *)
(* none at all under DNSSEC.                                                 *)
CpRoutesSecure ==
    \A name \in CpNames, c \in CpClients :
        LET route == CpSelect(cpRuntime, name, c)
        IN route # <<>> /\ route[1].scheme = "http" => cpFlags.insecure /\ ~cpFlags.dnssec

(* A reverse zone is answered here exactly when all its addresses are local: *)
(* no private address is asked for upstream, and no public one is denied.    *)
CpAddressesOf(zone) == {z \in [1..CpLabels -> 0..(2^CpLabelBits - 1)] : IsSuffix(zone, z)}
CpValueOf(z) ==
    LET top[n \in 0..CpLabels] == IF n = 0 THEN 0 ELSE top[n - 1] * 2^CpLabelBits + z[(CpLabels + 1) - n]
    IN top[CpLabels]
CpPrivateStaysHome ==
    cpZone # <<>> =>
        (CpIsLocalReverse(cpZone) <=>
            \A z \in CpAddressesOf(cpZone) : \E local \in CpLocalNetworks :
                \A k \in 0..(local.len - 1) :
                    CpBit(CpValueOf(z), CpAddressBits, k) = CpBit(local.value, CpAddressBits, k))

(* The runtime built from a saved configuration says of every name, client,  *)
(* minute and zone what the lines of the configuration say.                  *)
CpPoliciesRight ==
    /\ CpTypeOK /\ CpUserRewritesWin /\ CpPolicyInTime /\ CpAcceptedBuilds
    /\ CpRoutesSecure /\ CpPrivateStaysHome
==============================================================================
