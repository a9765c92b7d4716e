----------------------------- MODULE MCPolicies -----------------------------
(* What a query is judged by and counted in: the compiled rules, the cache   *)
(* they come from, the policies of clients and names, the limit on clients,  *)
(* the log and the statistics, which share no state here: the initial state  *)
(* says which of them runs, and the others stand still.  Only the limit has  *)
(* fairness; in a behaviour of another part no client asks.                  *)
EXTENDS RuleMatching, RuleCache, ClientPolicies, AccessControl, StatisticsStore

VARIABLE part

------------------------------------------------------------------------------
(* The lines of lists and of the user's own rules: a name, a name below it   *)
(* and one below that, and one line for every form and modifier.             *)
RmA == <<"a">>
RmBA == <<"b", "a">>
RmCBA == <<"c", "b", "a">>
RmAnyType == [mode |-> "any"]
RmLine == [pattern |-> "||", names |-> <<RmA>>, allow |-> FALSE, important |-> FALSE, types |-> RmAnyType,
           deny |-> {}, rewrite |-> [form |-> "none"], known |-> TRUE, bad |-> FALSE]
MCRmNames == {RmA, RmBA, RmCBA}
MCRmLines == {
    RmLine,
    [RmLine EXCEPT !.bad = TRUE],
    [RmLine EXCEPT !.deny = {RmBA}],
    [RmLine EXCEPT !.pattern = "*.", !.names = <<RmBA>>, !.important = TRUE,
                   !.types = [mode |-> "include", set |-> {"A"}]],
    [RmLine EXCEPT !.pattern = "plain", !.names = <<RmBA>>, !.allow = TRUE],
    [RmLine EXCEPT !.names = <<RmBA>>, !.allow = TRUE, !.important = TRUE],
    [RmLine EXCEPT !.pattern = "hosts", !.names = <<RmBA, RmCBA>>],
    [RmLine EXCEPT !.pattern = "plain", !.names = <<RmBA>>, !.rewrite = [form |-> "address", value |-> "v"]],
    [RmLine EXCEPT !.rewrite = [form |-> "long", code |-> "NOERROR", type |-> "TXT", value |-> "w"]],
    [RmLine EXCEPT !.rewrite = [form |-> "long", code |-> "NOERROR", type |-> "TXT", value |-> "w"],
                   !.pattern = "*."],
    [RmLine EXCEPT !.rewrite = [form |-> "code", value |-> "NXDOMAIN"], !.important = TRUE],
    [RmLine EXCEPT !.known = FALSE],
    [RmLine EXCEPT !.types = [mode |-> "exclude", set |-> {"A"}], !.names = <<RmBA>>] }

------------------------------------------------------------------------------
(* The lines of the policy form: addresses of two bits and of one, three     *)
(* days of three minutes, windows that wrap, groups, routes.                 *)
CpA == <<"a">>
CpBA == <<"b", "a">>
CpCBA == <<"c", "b", "a">>
MCCpNames == {CpA, CpBA, CpCBA}
MCCpBits == [v4 |-> 2, v6 |-> 1]
MCCpLocal == {[value |-> 4, len |-> 2], [value |-> 10, len |-> 3]}
CpRewrite(wild, name, family, address) ==
    [kind |-> "rewrite", wild |-> wild, name |-> name, family |-> family, address |-> address]
CpNet(family, value, len) == [family |-> family, value |-> value, len |-> len]
CpPolicy(net, profile, when) == [kind |-> "policy", net |-> net, profile |-> profile, when |-> when]
MCCpLines == {
    CpRewrite(TRUE, CpA, "v4", "x"), CpRewrite(TRUE, CpBA, "v6", "y"), CpRewrite(FALSE, CpBA, "v4", "z"),
    [kind |-> "group", name |-> "g"], [kind |-> "group", name |-> "family"],
    CpPolicy(CpNet("v4", 2, 1), "bypass", <<>>),
    CpPolicy(CpNet("v4", 3, 2), "g", [from |-> 2, to |-> 0, start |-> 2, end |-> 1]),
    CpPolicy(CpNet("v4", 0, 0), "family", [from |-> 1, to |-> 1, start |-> 1, end |-> 1]),
    CpPolicy(CpNet("v6", 1, 1), "family", [from |-> 0, to |-> 1, start |-> 0, end |-> 2]),
    CpPolicy(CpNet("v6", 1, 2), "bypass", <<>>),
    [kind |-> "client", net |-> CpNet("v4", 3, 2), scheme |-> "http"],
    [kind |-> "client", net |-> CpNet("v4", 2, 1), scheme |-> "udp"],
    [kind |-> "domain", wild |-> TRUE, name |-> CpA, scheme |-> "http"],
    [kind |-> "domain", wild |-> FALSE, name |-> CpBA, scheme |-> "tls"] }
MCCpHostLines == {[family |-> "v4", address |-> "h", names |-> <<CpBA, CpA>>],
                  [family |-> "v6", address |-> "i", names |-> <<CpCBA>>]}

------------------------------------------------------------------------------
(* An entry for the log and the statistics, one for the log only, one for    *)
(* the statistics only, and a refresh in the background.                     *)
MCDsEntries ==
    {[domain |-> "d", client |-> "c", outcome |-> "blocked", source |-> "s", upstream |-> "u",
      background |-> FALSE, log |-> TRUE, statistics |-> TRUE],
     [domain |-> "e", client |-> "c", outcome |-> "forwarded", source |-> "s", upstream |-> "u",
      background |-> FALSE, log |-> TRUE, statistics |-> FALSE],
     [domain |-> "d", client |-> "k", outcome |-> "forwarded", source |-> "s", upstream |-> "u",
      background |-> FALSE, log |-> FALSE, statistics |-> TRUE],
     [domain |-> "", client |-> "", outcome |-> "forwarded", source |-> "s", upstream |-> "u",
      background |-> TRUE, log |-> FALSE, statistics |-> TRUE]}

------------------------------------------------------------------------------
PoliciesInit ==
    /\ part \in {"rules", "cache", "policies", "limits", "statistics"}
    /\ RmInit /\ RcInit /\ CpInit /\ AcInit /\ DsInit
    /\ part # "policies" =>
          cpFlags = [insecure |-> FALSE, dnssec |-> FALSE] /\ cpSection = CHOOSE s \in CpSections : TRUE
    /\ part # "limits" =>
          acActive = {} /\ acBlocked = {} /\ acAllowed = {} /\ acLimit = CHOOSE n \in AcLimits : TRUE
    /\ part # "statistics" => dsRetention = CHOOSE d \in DsRetentions : TRUE

RulePart == part = "rules" /\ RmNext /\ UNCHANGED <<rcVars, cpVars, acVars, dsVars, part>>
CachePart == part = "cache" /\ RcNext /\ UNCHANGED <<rmVars, cpVars, acVars, dsVars, part>>
PolicyPart == part = "policies" /\ CpNext /\ UNCHANGED <<rmVars, rcVars, acVars, dsVars, part>>
LimitPart == part = "limits" /\ AcNext /\ UNCHANGED <<rmVars, rcVars, cpVars, dsVars, part>>
StatisticsPart == part = "statistics" /\ DsNext /\ UNCHANGED <<rmVars, rcVars, cpVars, acVars, part>>

PoliciesNext == RulePart \/ CachePart \/ PolicyPart \/ LimitPart \/ StatisticsPart
PoliciesSpec ==
    /\ PoliciesInit /\ [][PoliciesNext]_<<rmVars, rcVars, cpVars, acVars, dsVars, part>>
    /\ AcFairness
=============================================================================
