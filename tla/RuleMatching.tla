---------------------------- MODULE RuleMatching ----------------------------
(* rules.rs: filter lists and custom rules compiled to an index, custom      *)
(* rules as a thin layer over the shared index of the lists, and the search  *)
(* for the rule that decides a query.  The index is checked against what the *)
(* rules mean taken one by one, the layers against compiling everything at   *)
(* once.  A line is a record of its parts, a name a sequence of labels with  *)
(* the top level last.                                                       *)
EXTENDS Integers, Sequences, FiniteSets, SequencesExt

CONSTANTS RmLines,       \* the lines a list or the custom rules may hold
          RmNames,       \* names that are asked for
          RmTypes,       \* record types that are asked for
          MaxRmLines     \* bound on the lines together

RmIsName(n) == n \in Seq(Range(n)) /\ n # <<>>
RmIsLine(l) ==
    /\ {l.allow, l.important, l.known, l.bad} \subseteq BOOLEAN
    /\ l.names # <<>> /\ \A i \in DOMAIN l.names : RmIsName(l.names[i])
    /\ l.names \in Seq(Range(l.names))
ASSUME RmConstants ==
    /\ MaxRmLines \in Nat
    /\ \A l \in RmLines : RmIsLine(l)
    /\ \A d \in RmNames : RmIsName(d)

VARIABLES rmLists, rmCustom
rmVars == <<rmLists, rmCustom>>

(* domain_matches: the name itself or below it. *)
RmWithin(d, base) == IsSuffix(base, d)

(* QueryTypes::matches *)
RmTypeMatches(types, t) ==
    CASE types.mode = "any" -> TRUE
      [] types.mode = "include" -> t \in types.set
      [] types.mode = "exclude" -> t \notin types.set

(* parse_dnsrewrite: one word is a code, an address or a name; the long form *)
(* carries a record only with NOERROR and only of a type that can be built.  *)
RmNoRewrite == [kind |-> "none"]
RmBroken == [kind |-> "broken"]
RmRewriteOf(w) ==
    CASE w.form = "none" -> RmNoRewrite
      [] w.form = "code" -> [kind |-> "rcode", value |-> w.value]
      [] w.form \in {"address", "name"} ->
           [kind |-> IF w.form = "name" THEN "cname" ELSE "record", value |-> w.value]
      [] w.form = "long" /\ w.code = "NOERROR" /\ w.type = "CNAME" -> [kind |-> "cname", value |-> w.value]
      [] w.form = "long" /\ w.code = "NOERROR" /\ w.type \in {"A", "AAAA", "PTR", "MX", "TXT", "SRV"} ->
           [kind |-> "record", value |-> w.value]
      [] OTHER -> RmBroken

(* parse_modifiers: any unknown or broken one spoils the line. *)
RmModifiersOk(l) == l.known /\ RmRewriteOf(l.rewrite).kind # "broken"

(* parse_pattern, ignored_pattern_reason *)
RmPatternOk(l) == l.pattern \in {"||", "*.", "plain"}

(* parse_rule, parse_filter_rule: what becomes of a line, in this order. *)
RmFate(l) ==
    IF l.pattern = "comment" THEN "comment"
    ELSE IF ~RmModifiersOk(l) THEN "unsupported"
    ELSE IF l.bad THEN "disable"
    ELSE IF ~RmPatternOk(l) THEN IF l.pattern = "regex" THEN "regex" ELSE "invalid"
    ELSE IF l.allow /\ l.rewrite.form # "none" THEN "unsupported"
    ELSE "rule"

(* parse_hosts_rules: one line blocks each of its names, and only them. *)
RmHostsRules(l) ==
    [i \in DOMAIN l.names |->
        [allow |-> FALSE, name |-> l.names[i], sub |-> FALSE, important |-> FALSE,
         types |-> [mode |-> "any"], deny |-> {}, rewrite |-> RmNoRewrite, line |-> l]]
RmRulesOf(l) ==
    IF l.pattern = "hosts" THEN RmHostsRules(l)
    ELSE IF RmFate(l) # "rule" THEN <<>>
    ELSE << [allow |-> l.allow, name |-> l.names[1], sub |-> l.pattern \in {"||", "*."},
             important |-> l.important, types |-> l.types, deny |-> l.deny,
             rewrite |-> RmRewriteOf(l.rewrite), line |-> l] >>

(* badfilter_target: the line without the modifier. *)
RmTargets(lines) == {[l EXCEPT !.bad = FALSE] : l \in {x \in Range(lines) : x.bad}}

(* scan_rules_with_disabled: neither its own targets nor those of the other  *)
(* text.                                                                     *)
RmScan(lines, disabled) ==
    LET upTo[n \in 0..Len(lines)] ==
            IF n = 0 THEN <<>>
            ELSE upTo[n - 1] \o (IF lines[n] \in disabled THEN <<>> ELSE RmRulesOf(lines[n]))
    IN upTo[Len(lines)]

------------------------------------------------------------------------------
(* Mutant: duplicates of other lists are kept. *)
RmCoversNever(entry, r) == FALSE

(* covers_semantics: a rule with the same conditions is there already. *)
RmCovers(entry, r) ==
    \E i \in DOMAIN entry : /\ entry[i].important = r.important /\ entry[i].types = r.types
                            /\ entry[i].deny = r.deny /\ entry[i].rewrite = r.rewrite

(* RuleSet::insert *)
RmKey(r) == <<r.allow, r.name, r.sub>>
RmEntry(index, key) == IF key \in DOMAIN index THEN index[key] ELSE <<>>
RmInsert(index, r) ==
    IF RmCovers(RmEntry(index, RmKey(r)), r) THEN index
    ELSE [k \in DOMAIN index \cup {RmKey(r)} |->
            IF k = RmKey(r) THEN Append(RmEntry(index, k), r) ELSE index[k]]

RmIndexed(rules) ==
    LET upTo[n \in 0..Len(rules)] == IF n = 0 THEN <<>> ELSE RmInsert(upTo[n - 1], rules[n])
    IN upTo[Len(rules)]

(* count_rule *)
RmCount(rules, allow) == Cardinality({i \in DOMAIN rules : rules[i].allow = allow})

(* compile_rules_with_disabled *)
RmCompile(lines, extra) ==
    LET disabled == extra \cup RmTargets(lines)
        rules == RmScan(lines, disabled)
    IN [index |-> RmIndexed(rules), disabled |-> disabled,
        blocks |-> RmCount(rules, FALSE), allows |-> RmCount(rules, TRUE)]

------------------------------------------------------------------------------
(* ComplexRule::matches *)
RmMatches(r, d, t) ==
    /\ RmTypeMatches(r.types, t)
    /\ \A x \in r.deny : ~RmWithin(d, x)

(* find_layered_match, lookup_layers: first the exact name, then the name    *)
(* and its parents as suffixes, at each the lists before the custom rules.   *)
RmKeyAt(allow, d, i) == IF i = 0 THEN <<allow, d, FALSE>> ELSE <<allow, SubSeq(d, i, Len(d)), TRUE>>
RmFound(layers, allow, d, t) ==
    UNION {LET entry == RmEntry(layers[at[2]].index, RmKeyAt(allow, d, at[1]))
           IN {[key |-> at[1], layer |-> at[2], place |-> n, rule |-> entry[n]] :
                   n \in {m \in DOMAIN entry : RmMatches(entry[m], d, t)}}
           : at \in (0..Len(d)) \X DOMAIN layers}
RmSooner(f, g) ==
    \/ f.key < g.key
    \/ f.key = g.key /\ f.layer < g.layer
    \/ f.key = g.key /\ f.layer = g.layer /\ f.place <= g.place
RmFirst(found) == (CHOOSE f \in found : \A g \in found : RmSooner(f, g)).rule

RmPlain(found, important) == {f \in found : f.rule.important = important /\ f.rule.rewrite.kind = "none"}
RmHit(found, important) == RmPlain(found, important) # {}

(* rewrite_match_layers: all rewrites that match; important ones displace    *)
(* the others; a code displaces all, a name all records.                     *)
RmPriority(r) == CASE r.rewrite.kind = "rcode" -> 0 [] r.rewrite.kind = "cname" -> 1 [] OTHER -> 2
RmRewrites(found) ==
    LET all == {f \in found : f.rule.rewrite.kind # "none"}
        kept == {f \in all : f.rule.important \/ \A g \in all : ~g.rule.important}
        best == {f \in kept : \A g \in kept : RmPriority(f.rule) <= RmPriority(g.rule)}
    IN IF \E f \in best : RmPriority(f.rule) < 2 THEN {RmFirst(best)} ELSE {f.rule : f \in best}

RmPass == [verdict |-> "pass"]
RmRewritten(rewrites, allows) ==
    [verdict |-> "rewrite", rule |-> {r.line : r \in rewrites}, actions |-> {r.rewrite : r \in rewrites},
     overrode |-> (\E r \in rewrites : r.important) /\ RmHit(allows, FALSE)]
RmBlocked(blocks, allows, important) ==
    [verdict |-> "block", rule |-> RmFirst(RmPlain(blocks, important)).line,
     overrode |-> important /\ RmHit(allows, FALSE)]

(* Mutant: a plain exception is looked at before the important rules. *)
RmBlockingAllowFirst(layers, d, t) ==
    LET blocks == RmFound(layers, FALSE, d, t)
        allows == RmFound(layers, TRUE, d, t)
    IN IF RmRewrites(blocks) # {} THEN RmRewritten(RmRewrites(blocks), allows)
       ELSE IF RmHit(allows, TRUE) \/ RmHit(allows, FALSE) THEN RmPass
       ELSE IF RmHit(blocks, TRUE) THEN RmBlocked(blocks, allows, TRUE)
       ELSE IF RmHit(blocks, FALSE) THEN RmBlocked(blocks, allows, FALSE)
       ELSE RmPass

(* blocking_match_layers *)
RmBlocking(layers, d, t) ==
    LET blocks == RmFound(layers, FALSE, d, t)
        allows == RmFound(layers, TRUE, d, t)
    IN IF RmRewrites(blocks) # {} THEN RmRewritten(RmRewrites(blocks), allows)
       ELSE IF RmHit(allows, TRUE) THEN RmPass
       ELSE IF RmHit(blocks, TRUE) THEN RmBlocked(blocks, allows, TRUE)
       ELSE IF RmHit(allows, FALSE) THEN RmPass
       ELSE IF RmHit(blocks, FALSE) THEN RmBlocked(blocks, allows, FALSE)
       ELSE RmPass

------------------------------------------------------------------------------
(* combined_summary *)
RmCombined(base, overlay) == [overlay EXCEPT !.blocks = @ + base.blocks, !.allows = @ + base.allows]
(* Mutant: the layer forgets what the lists have disabled. *)
RmLayerAlone(base, custom) == <<base, RmCombined(base, RmCompile(custom, {}))>>
(* with_custom_layer *)
RmLayer(base, custom) == <<base, RmCombined(base, RmCompile(custom, base.disabled))>>

(* The rules in use: custom rules that disable lines of the lists           *)
(* (custom_rules_have_badfilter) make a compilation of everything necessary. *)
RmHasBadfilter(lines) == \E i \in DOMAIN lines : lines[i].bad
RmWhole == <<RmCompile(rmLists \o rmCustom, {})>>
RmInUse == IF RmHasBadfilter(rmCustom) THEN RmWhole ELSE RmLayer(RmCompile(rmLists, {}), rmCustom)

RmInit == rmLists = <<>> /\ rmCustom = <<>>
RmAddToLists(l) ==
    /\ Len(rmLists) + Len(rmCustom) < MaxRmLines
    /\ rmLists' = Append(rmLists, l) /\ UNCHANGED rmCustom
RmAddCustom(l) ==
    /\ Len(rmLists) + Len(rmCustom) < MaxRmLines
    /\ rmCustom' = Append(rmCustom, l) /\ UNCHANGED rmLists
RmNext == \E l \in RmLines : RmAddToLists(l) \/ RmAddCustom(l)
RmSpec == RmInit /\ [][RmNext]_rmVars

------------------------------------------------------------------------------
(* What the lines mean, one by one: every rule that is not disabled anywhere *)
(* and that covers the name.                                                 *)
RmActive ==
    LET lines == rmLists \o rmCustom
    IN UNION {Range(RmRulesOf(l)) : l \in Range(lines) \ RmTargets(lines)}
RmApplying(d, t) ==
    {r \in RmActive : /\ IF r.sub THEN RmWithin(d, r.name) ELSE d = r.name
                      /\ RmMatches(r, d, t)}
RmMeaning(d, t) ==
    LET all == RmApplying(d, t)
        rewriting == {r \in all : r.rewrite.kind # "none" /\ ~r.allow}
        strongest == IF \E r \in rewriting : r.important THEN {r \in rewriting : r.important} ELSE rewriting
        plain(allow, important) == \E r \in all : /\ r.allow = allow /\ r.important = important
                                                  /\ r.rewrite.kind = "none"
    IN IF rewriting # {}
       THEN [verdict |-> "rewrite",
             actions |-> {r.rewrite : r \in {x \in strongest : \A y \in strongest : RmPriority(x) <= RmPriority(y)}}]
       ELSE IF ~plain(TRUE, TRUE) /\ (plain(FALSE, TRUE) \/ (plain(FALSE, FALSE) /\ ~plain(TRUE, FALSE)))
       THEN [verdict |-> "block"]
       ELSE [verdict |-> "pass"]

(* An entry of the index holds each meaning once, under the name of its      *)
(* rules, however many lists repeat it.                                      *)
RmTypeOK ==
    \A layer \in Range(RmInUse) : \A k \in DOMAIN layer.index :
        /\ layer.index[k] # <<>>
        /\ \A i, j \in DOMAIN layer.index[k] :
             /\ RmKey(layer.index[k][i]) = k
             /\ i # j => [layer.index[k][i] EXCEPT !.line = {}] # [layer.index[k][j] EXCEPT !.line = {}]

(* The search through the index, with duplicates dropped at insertion, the   *)
(* first hit taken and parents walked up, gives the verdict that the rules   *)
(* have together, with exceptions, important, types, excluded names,         *)
(* disabled lines and rewrites.                                              *)
RmIndexIsMeaning ==
    LET whole == RmWhole
    IN \A d \in RmNames, t \in RmTypes :
        LET found == RmBlocking(whole, d, t)
            meant == RmMeaning(d, t)
        IN /\ found.verdict = meant.verdict
           /\ found.verdict = "rewrite" => /\ found.actions \subseteq meant.actions
                                           /\ \/ found.actions = meant.actions
                                              \/ \A a \in found.actions : a.kind # "record"

(* The custom rules laid over the shared index decide every query like one   *)
(* compilation of all lines, name the same rules, and count the same; only   *)
(* the records of a rewrite that is in both are named twice.                 *)
RmSaysSame(found, alone) ==
    \/ found = alone
    \/ /\ found.verdict = "rewrite" /\ alone.verdict = "rewrite"
       /\ found.actions = alone.actions /\ found.overrode = alone.overrode
       /\ \A a \in found.actions : a.kind = "record"
       /\ alone.rule \subseteq found.rule
RmLayersAgree ==
    LET layers == RmInUse
        whole == RmWhole
    IN /\ \A d \in RmNames, t \in RmTypes : RmSaysSame(RmBlocking(layers, d, t), RmBlocking(whole, d, t))
       /\ layers[Len(layers)].blocks = whole[1].blocks
       /\ layers[Len(layers)].allows = whole[1].allows

(* The index of compile and the search through its layers decide every query *)
(* as the lines taken one by one mean it.                                    *)
RmSearchRight == RmTypeOK /\ RmIndexIsMeaning /\ RmLayersAgree
==============================================================================
