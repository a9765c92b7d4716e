---------------------------- MODULE PolicyProofs ----------------------------
(* Machine-checked proofs about what a query is judged by: the compiled rules *)
(* say what the lines of the lists say (RuleMatching), and the runtime that a *)
(* saved configuration is built to says what the lines of the form say        *)
(* (ClientPolicies), for all lines, names, types, clients, minutes and zones. *)
(*                                                                            *)
(* Rules.  The lines never change what they mean, so nothing has to be        *)
(* strengthened along a behaviour; the work is about the operators.  An index *)
(* keeps of the rules with one key the first of each meaning, in their order  *)
(* (RmIndexOf), so layers over each other do, too (RmHold): what a search     *)
(* comes to first is then the first rule that applies, wherever it is stored  *)
(* (RmLeads), and every rule that applies is found in the form of one like it *)
(* (RmFoundMeant).  From these follow what a query is told (RmVerdicts), what *)
(* that means (RmMeans), and that layers are told apart from one compilation  *)
(* by the names of repeated records only (RmAgrees).                          *)
(*                                                                            *)
(* Policies.  Here an invariant is needed: what runs was built from lines     *)
(* that were valid under the flags in force, whatever stands in the form now  *)
(* (CpInv).  From it follow, operator by operator, who is under which rule    *)
(* (CpDecides, over CpHolds for addresses and CpOnTime for the week), what a  *)
(* name is rewritten to (CpUserFirst, over CpCompiled and CpHostsMerged),     *)
(* where a query is routed (CpSecure), that the build cannot panic            *)
(* (CpBuildable), and which reverse zones are local (CpZoneLocal).            *)
EXTENDS RuleMatching, ClientPolicies, SequenceTheorems, FiniteSetTheorems, FunctionTheorems,
        WellFoundedInduction, TLAPS


(* Induction over the numbers, for a set of them. *)
LEMMA RmAllNumbers ==
    ASSUME NEW S \in SUBSET Nat, 0 \in S, \A n \in S : n + 1 \in S
    PROVE  S = Nat
<1> SUFFICES ASSUME S # Nat PROVE FALSE
  OBVIOUS
<1> DEFINE T == Nat \ S
<1>1. T \subseteq Nat /\ T # {}
  OBVIOUS
<1>2. PICK x \in T : \A y \in T : ~(<<y, x>> \in OpToRel(<, Nat))
  <2> HIDE DEF T
  <2> QED BY <1>1, NatLessThanWellFounded, WFMin
<1>3. \A y \in T : ~(y < x)
  BY <1>1, <1>2 DEF OpToRel
<1>4. x \in Nat /\ x # 0 /\ x \notin S
  BY <1>2
<1>5. x - 1 \in Nat /\ x - 1 < x /\ (x - 1) + 1 = x
  BY <1>4
<1>6. x - 1 \in S
  BY <1>3, <1>5
<1> QED BY <1>4, <1>5, <1>6

(* There is a least one in every set of numbers. *)
LEMMA RmLeast ==
    ASSUME NEW S \in SUBSET Nat, S # {}
    PROVE  \E x \in S : \A y \in S : x <= y
<1>1. PICK x \in S : \A y \in S : ~(<<y, x>> \in OpToRel(<, Nat))
  BY NatLessThanWellFounded, WFMin
<1>2. \A y \in S : ~(y < x)
  BY <1>1 DEF OpToRel
<1>3. x \in S /\ \A y \in S : x <= y
  BY <1>2
<1> QED BY <1>3

------------------------------------------------------------------------------
(* The rules that lines give. *)
RmRules == UNION {Range(RmRulesOf(l)) : l \in RmLines}
RmIsRule(r) ==
    /\ RmIsName(r.name) /\ r.allow \in BOOLEAN /\ r.sub \in BOOLEAN /\ r.important \in BOOLEAN
    /\ r.rewrite.kind \in {"none", "rcode", "cname", "record"}
    /\ {"important", "types", "deny", "rewrite"} \subseteq DOMAIN r
    /\ r = [x \in DOMAIN r |-> r[x]]

LEMMA RmRewriteKinds ==
    ASSUME NEW w
    PROVE  RmRewriteOf(w).kind \in {"none", "rcode", "cname", "record", "broken"}
<1>1. CASE w.form = "none"
  BY <1>1 DEF RmRewriteOf, RmNoRewrite
<1>2. CASE w.form = "code"
  BY <1>2 DEF RmRewriteOf, RmNoRewrite
<1>3. CASE w.form \in {"address", "name"}
  BY <1>3 DEF RmRewriteOf, RmNoRewrite
<1>4. CASE w.form = "long"
  BY <1>4 DEF RmRewriteOf, RmNoRewrite, RmBroken
<1>5. CASE w.form \notin {"none", "code", "address", "name", "long"}
  BY <1>5 DEF RmRewriteOf, RmNoRewrite, RmBroken
<1> QED BY <1>1, <1>2, <1>3, <1>4, <1>5

LEMMA RmRulesAre ==
    ASSUME NEW l \in RmLines
    PROVE  /\ RmRulesOf(l) \in Seq(RmRules)
           /\ \A i \in DOMAIN RmRulesOf(l) : RmIsRule(RmRulesOf(l)[i])
<1>1. /\ {l.allow, l.important, l.known, l.bad} \subseteq BOOLEAN
      /\ l.names # <<>> /\ \A i \in DOMAIN l.names : RmIsName(l.names[i])
      /\ l.names \in Seq(Range(l.names))
  BY RmConstants DEF RmConstants, RmIsLine
<1>2. Len(l.names) \in Nat /\ DOMAIN l.names = 1..Len(l.names) /\ Len(l.names) # 0
  <2>1. PICK S : l.names \in Seq(S)
    BY <1>1
  <2> QED BY <1>1, <2>1, EmptySeq, LenProperties
<1>3. ASSUME NEW R, NEW n \in Nat, R = RmRulesOf(l), DOMAIN R = 1..n, R = [i \in 1..n |-> R[i]]
      PROVE  RmRulesOf(l) \in Seq(RmRules)
  <2>1. \A i \in 1..n : R[i] \in Range(RmRulesOf(l))
    BY <1>3 DEF Range
  <2>2. \A i \in 1..n : R[i] \in RmRules
    BY <2>1 DEF RmRules
  <2>3. R \in [1..n -> RmRules]
    BY <1>3, <2>2
  <2> QED BY <1>3, <2>3
<1>4. CASE l.pattern = "hosts"
  <2> DEFINE Rule(i) == [allow |-> FALSE, name |-> l.names[i], sub |-> FALSE, important |-> FALSE,
                         types |-> [mode |-> "any"], deny |-> {}, rewrite |-> RmNoRewrite, line |-> l]
  <2>1. RmRulesOf(l) = [i \in 1..Len(l.names) |-> Rule(i)]
    BY <1>2, <1>4 DEF RmRulesOf, RmHostsRules
  <2>2. \A i \in 1..Len(l.names) : RmIsRule(Rule(i))
    BY <1>1, <1>2 DEF RmIsRule, RmNoRewrite
  <2> HIDE DEF Rule
  <2>3. PICK R : R = RmRulesOf(l)
    OBVIOUS
  <2>4. DOMAIN R = 1..Len(l.names) /\ R = [i \in 1..Len(l.names) |-> R[i]]
    BY <2>1, <2>3
  <2>5. RmRulesOf(l) \in Seq(RmRules)
    BY <1>2, <1>3, <2>3, <2>4
  <2> QED BY <2>1, <2>2, <2>5
<1>5. CASE l.pattern # "hosts" /\ RmFate(l) # "rule"
  <2>1. RmRulesOf(l) = <<>>
    BY <1>5 DEF RmRulesOf
  <2> QED BY <2>1
<1>6. CASE l.pattern # "hosts" /\ RmFate(l) = "rule"
  <2> DEFINE r == [allow |-> l.allow, name |-> l.names[1], sub |-> l.pattern \in {"||", "*."},
             important |-> l.important, types |-> l.types, deny |-> l.deny,
             rewrite |-> RmRewriteOf(l.rewrite), line |-> l]
  <2>1. RmRulesOf(l) = <<r>>
    BY <1>6 DEF RmRulesOf
  <2>2. RmRewriteOf(l.rewrite).kind \in {"none", "rcode", "cname", "record"}
    BY <1>6, RmRewriteKinds DEF RmFate, RmModifiersOk
  <2>3. RmIsRule(r)
    <3>1. RmIsName(l.names[1])
      BY <1>1, <1>2
    <3>2. r.name = l.names[1] /\ r.allow = l.allow /\ r.sub \in BOOLEAN /\ r.important = l.important
      OBVIOUS
    <3>3. r.rewrite.kind \in {"none", "rcode", "cname", "record"}
      BY <2>2
    <3>4. {"important", "types", "deny", "rewrite"} \subseteq DOMAIN r /\ r = [x \in DOMAIN r |-> r[x]]
      OBVIOUS
    <3> HIDE DEF r
    <3> QED BY <1>1, <3>1, <3>2, <3>3, <3>4 DEF RmIsRule
  <2> HIDE DEF r
  <2>4. r \in RmRules
    <3>1. r \in Range(RmRulesOf(l))
      BY <2>1 DEF Range
    <3> QED BY <3>1 DEF RmRules
  <2> QED BY <2>1, <2>3, <2>4
<1> QED BY <1>4, <1>5, <1>6

------------------------------------------------------------------------------
(* What a scan has found after each line. *)
RmPiece(lines, disabled, i) == IF lines[i] \in disabled THEN <<>> ELSE RmRulesOf(lines[i])
RmScanned(t, lines, disabled, n) ==
    t = [m \in 0..n |-> IF m = 0 THEN <<>> ELSE t[m - 1] \o RmPiece(lines, disabled, m)]

LEMMA RmScannedSteps ==
    ASSUME NEW t, NEW lines, NEW disabled, NEW n \in Nat, RmScanned(t, lines, disabled, n)
    PROVE  t[0] = <<>> /\ \A m \in 1..n : t[m] = t[m - 1] \o RmPiece(lines, disabled, m)
<1>1. \A m \in 0..n : t[m] = IF m = 0 THEN <<>> ELSE t[m - 1] \o RmPiece(lines, disabled, m)
  BY Zenon DEF RmScanned
<1>2. 0 \in 0..n /\ \A m \in 1..n : m \in 0..n /\ m # 0
  OBVIOUS
<1> QED BY <1>1, <1>2, Zenon

LEMMA RmScansExist ==
    ASSUME NEW lines, NEW disabled
    PROVE  \A n \in Nat : \E t : RmScanned(t, lines, disabled, n)
<1> DEFINE S == {n \in Nat : \E t : RmScanned(t, lines, disabled, n)}
           P(m) == RmPiece(lines, disabled, m)
<1>1. 0 \in S
  <2> DEFINE f == [m \in 0..0 |-> <<>>]
  <2>1. \A m \in 0..0 : m = 0
    OBVIOUS
  <2>2. f = [m \in 0..0 |-> IF m = 0 THEN <<>> ELSE f[m - 1] \o P(m)]
    BY <2>1
  <2> HIDE DEF f
  <2> QED BY <2>2 DEF RmScanned
<1>2. ASSUME NEW n \in S PROVE n + 1 \in S
  <2>1. PICK f : RmScanned(f, lines, disabled, n)
    OBVIOUS
  <2>2. n \in Nat
    OBVIOUS
  <2>3. f[0] = <<>> /\ \A m \in 1..n : f[m] = f[m - 1] \o P(m)
    BY <2>1, <2>2, RmScannedSteps
  <2> DEFINE u == [m \in 0..n+1 |-> IF m = n + 1 THEN f[n] \o P(n + 1) ELSE f[m]]
  <2>4. ASSUME NEW m \in 0..n+1
        PROVE  u[m] = IF m = 0 THEN <<>> ELSE u[m - 1] \o P(m)
    <3>1. CASE m = n + 1
      <4>1. m - 1 = n /\ n \in 0..n+1 /\ n # n + 1 /\ m # 0
        BY <2>2, <3>1
      <4>2. u[m] = f[n] \o P(m) /\ u[m - 1] = f[n]
        BY <3>1, <4>1
      <4> HIDE DEF u, P
      <4> QED BY <4>1, <4>2
    <3>2. CASE m # n + 1 /\ m # 0
      <4>1. m \in 1..n /\ m - 1 \in 0..n+1 /\ m - 1 # n + 1
        BY <2>2, <3>2
      <4>2. u[m] = f[m] /\ u[m - 1] = f[m - 1]
        BY <3>2, <4>1
      <4> HIDE DEF u, P
      <4> QED BY <2>3, <3>2, <4>1, <4>2
    <3>3. CASE m # n + 1 /\ m = 0
      BY <2>3, <3>3
    <3> QED BY <3>1, <3>2, <3>3
  <2>5. u = [m \in 0..n+1 |-> u[m]]
    OBVIOUS
  <2>6. u = [m \in 0..n+1 |-> IF m = 0 THEN <<>> ELSE u[m - 1] \o P(m)]
    <3> HIDE DEF u, P
    <3> QED BY <2>4, <2>5, Zenon
  <2>7. RmScanned(u, lines, disabled, n + 1)
    <3> HIDE DEF u
    <3> QED BY <2>6 DEF RmScanned
  <2> HIDE DEF u
  <2> QED BY <2>2, <2>7
<1>3. S = Nat
  <2>1. S \in SUBSET Nat
    OBVIOUS
  <2> HIDE DEF S
  <2> QED BY <1>1, <1>2, <2>1, RmAllNumbers
<1> QED BY <1>3

(* The scan is the last of them. *)
LEMMA RmScanIs ==
    ASSUME NEW lines, NEW disabled, Len(lines) \in Nat
    PROVE  \E t : RmScanned(t, lines, disabled, Len(lines)) /\ RmScan(lines, disabled) = t[Len(lines)]
<1> DEFINE t == CHOOSE f : f = [n \in 0..Len(lines) |->
                                 IF n = 0 THEN <<>>
                                 ELSE f[n - 1] \o (IF lines[n] \in disabled THEN <<>> ELSE RmRulesOf(lines[n]))]
<1>1. \E f : RmScanned(f, lines, disabled, Len(lines))
  BY RmScansExist
<1>2. RmScanned(t, lines, disabled, Len(lines))
  BY <1>1, Zenon DEF RmScanned, RmPiece
<1>3. RmScan(lines, disabled) = t[Len(lines)]
  BY Zenon DEF RmScan
<1> QED
  <2> HIDE DEF t
  <2> QED BY <1>2, <1>3

(* A scan finds the rules of the lines that are not disabled, and no other. *)
LEMMA RmScanFinds ==
    ASSUME NEW lines \in Seq(RmLines), NEW disabled
    PROVE  /\ RmScan(lines, disabled) \in Seq(RmRules)
           /\ Range(RmScan(lines, disabled)) = UNION {Range(RmRulesOf(l)) : l \in Range(lines) \ disabled}
<1> DEFINE P(m) == RmPiece(lines, disabled, m)
           N == Len(lines)
<1>1. N \in Nat /\ DOMAIN lines = 1..N /\ \A m \in 1..N : lines[m] \in RmLines
  OBVIOUS
<1>2. PICK t : RmScanned(t, lines, disabled, N) /\ RmScan(lines, disabled) = t[N]
  BY <1>1, RmScanIs
<1>3. t[0] = <<>> /\ \A m \in 1..N : t[m] = t[m - 1] \o P(m)
  BY <1>1, <1>2, RmScannedSteps
<1>4. \A m \in 1..N : P(m) \in Seq(RmRules)
  BY <1>1, RmRulesAre DEF RmPiece
<1> DEFINE S == {n \in Nat : n <= N => /\ t[n] \in Seq(RmRules)
                                       /\ \A r : r \in Range(t[n]) <=> \E i \in 1..n : r \in Range(P(i))}
<1> HIDE DEF P, N
<1>5. 0 \in S
  <2>1. t[0] \in Seq(RmRules) /\ \A r : r \notin Range(t[0])
    BY <1>3 DEF Range
  <2> QED BY <2>1
<1>6. ASSUME NEW n \in S PROVE n + 1 \in S
  <2>1. n \in Nat /\ n + 1 \in Nat
    OBVIOUS
  <2>2. SUFFICES ASSUME n + 1 <= N
                 PROVE  /\ t[n + 1] \in Seq(RmRules)
                        /\ \A r : r \in Range(t[n + 1]) <=> \E i \in 1..n+1 : r \in Range(P(i))
    BY <2>1
  <2>3. n <= N /\ n + 1 \in 1..N /\ (n + 1) - 1 = n
    BY <1>1, <2>1, <2>2
  <2>4. t[n] \in Seq(RmRules) /\ \A r : r \in Range(t[n]) <=> \E i \in 1..n : r \in Range(P(i))
    BY <2>3
  <2>5. t[n + 1] = t[n] \o P(n + 1) /\ P(n + 1) \in Seq(RmRules)
    BY <1>3, <1>4, <2>3
  <2>6. ASSUME NEW a \in Seq(RmRules), NEW b \in Seq(RmRules)
        PROVE  a \o b \in Seq(RmRules) /\ \A r : r \in Range(a \o b) <=> r \in Range(a) \/ r \in Range(b)
    <3>1. /\ a \o b \in Seq(RmRules) /\ DOMAIN (a \o b) = 1..(Len(a) + Len(b))
          /\ DOMAIN a = 1..Len(a) /\ DOMAIN b = 1..Len(b) /\ Len(a) \in Nat /\ Len(b) \in Nat
      OBVIOUS
    <3>2. \A i \in 1..(Len(a) + Len(b)) : (a \o b)[i] = IF i <= Len(a) THEN a[i] ELSE b[i - Len(a)]
      BY ConcatProperties
    <3>3. ASSUME NEW r \in Range(a \o b) PROVE r \in Range(a) \/ r \in Range(b)
      <4>1. PICK i \in 1..(Len(a) + Len(b)) : r = (a \o b)[i]
        BY <3>1 DEF Range
      <4>2. CASE i <= Len(a)
        <5>1. i \in DOMAIN a /\ r = a[i]
          BY <3>1, <3>2, <4>1, <4>2
        <5> QED BY <5>1 DEF Range
      <4>3. CASE ~(i <= Len(a))
        <5>1. i - Len(a) \in DOMAIN b /\ r = b[i - Len(a)]
          BY <3>1, <3>2, <4>1, <4>3
        <5> QED BY <5>1 DEF Range
      <4> QED BY <4>2, <4>3
    <3>4. ASSUME NEW r \in Range(a) PROVE r \in Range(a \o b)
      <4>1. PICK i \in 1..Len(a) : r = a[i]
        BY <3>1 DEF Range
      <4>2. i \in 1..(Len(a) + Len(b)) /\ i <= Len(a)
        BY <3>1
      <4>3. (a \o b)[i] = r
        BY <3>2, <4>1, <4>2
      <4> QED BY <3>1, <4>2, <4>3 DEF Range
    <3>5. ASSUME NEW r \in Range(b) PROVE r \in Range(a \o b)
      <4>1. PICK i \in 1..Len(b) : r = b[i]
        BY <3>1 DEF Range
      <4>2. Len(a) + i \in 1..(Len(a) + Len(b)) /\ ~(Len(a) + i <= Len(a)) /\ (Len(a) + i) - Len(a) = i
        BY <3>1
      <4>3. (a \o b)[Len(a) + i] = r
        BY <3>2, <4>1, <4>2
      <4> QED BY <3>1, <4>2, <4>3 DEF Range
    <3> QED BY <3>1, <3>3, <3>4, <3>5
  <2>7. \A i : i \in 1..n+1 <=> i \in 1..n \/ i = n + 1
    BY <2>1
  <2>8. t[n + 1] \in Seq(RmRules) /\ \A r : r \in Range(t[n + 1]) <=> r \in Range(t[n]) \/ r \in Range(P(n + 1))
    BY <2>4, <2>5, <2>6
  <2> QED BY <2>4, <2>7, <2>8
<1>7. S = Nat
  <2>1. S \in SUBSET Nat
    OBVIOUS
  <2> HIDE DEF S
  <2> QED BY <1>5, <1>6, <2>1, RmAllNumbers
<1>8. N \in S /\ N <= N
  BY <1>1, <1>7
<1>9. /\ RmScan(lines, disabled) \in Seq(RmRules)
      /\ \A r : r \in Range(RmScan(lines, disabled)) <=> \E i \in 1..N : r \in Range(P(i))
  BY <1>2, <1>8
<1>10. \A r : (\E i \in 1..N : r \in Range(P(i)))
                <=> \E l \in Range(lines) \ disabled : r \in Range(RmRulesOf(l))
  <2>1. \A i \in 1..N : Range(P(i)) = IF lines[i] \in disabled THEN {} ELSE Range(RmRulesOf(lines[i]))
    BY DEF P, RmPiece, Range
  <2>2. \A l : l \in Range(lines) <=> \E i \in 1..N : l = lines[i]
    BY <1>1 DEF Range
  <2> QED BY <2>1, <2>2
<1> QED BY <1>9, <1>10

LEMMA RmScannedTyped ==
    ASSUME NEW lines \in Seq(RmLines), NEW disabled, NEW t, RmScanned(t, lines, disabled, Len(lines))
    PROVE  \A n \in 0..Len(lines) : t[n] \in Seq(RmRules)
<1> DEFINE N == Len(lines)
           S == {n \in Nat : n <= N => t[n] \in Seq(RmRules)}
<1>1. N \in Nat /\ \A m \in 1..N : lines[m] \in RmLines
  OBVIOUS
<1>2. t[0] = <<>> /\ \A m \in 1..N : t[m] = t[m - 1] \o RmPiece(lines, disabled, m)
  BY <1>1, RmScannedSteps
<1>3. \A m \in 1..N : RmPiece(lines, disabled, m) \in Seq(RmRules)
  BY <1>1, RmRulesAre DEF RmPiece
<1> HIDE DEF N
<1>4. 0 \in S
  <2>1. t[0] \in Seq(RmRules)
    BY <1>2
  <2> QED BY <2>1
<1>5. ASSUME NEW n \in S PROVE n + 1 \in S
  <2>1. n \in Nat /\ n + 1 \in Nat
    OBVIOUS
  <2>2. SUFFICES ASSUME n + 1 <= N PROVE t[n + 1] \in Seq(RmRules)
    BY <2>1
  <2>3. n <= N /\ n + 1 \in 1..N /\ (n + 1) - 1 = n
    BY <1>1, <2>1, <2>2
  <2>4. t[n] \in Seq(RmRules)
    BY <2>3
  <2>5. t[n + 1] = t[n] \o RmPiece(lines, disabled, n + 1) /\ RmPiece(lines, disabled, n + 1) \in Seq(RmRules)
    BY <1>2, <1>3, <2>3
  <2>6. \A x, y \in Seq(RmRules) : x \o y \in Seq(RmRules)
    BY ConcatProperties
  <2> HIDE DEF S
  <2> QED BY <2>4, <2>5, <2>6
<1>6. S = Nat
  <2>1. S \in SUBSET Nat
    OBVIOUS
  <2> HIDE DEF S
  <2> QED BY <1>4, <1>5, <2>1, RmAllNumbers
<1> QED BY <1>1, <1>6 DEF N

(* Two texts are scanned one after the other. *)
LEMMA RmScanOfBoth ==
    ASSUME NEW a \in Seq(RmLines), NEW b \in Seq(RmLines), NEW disabled
    PROVE  RmScan(a \o b, disabled) = RmScan(a, disabled) \o RmScan(b, disabled)
<1> DEFINE M == Len(a)
           N == Len(b)
           P(m) == RmPiece(b, disabled, m)
<1>1. PICK ab : ab = a \o b
  OBVIOUS
<1>2. /\ ab \in Seq(RmLines) /\ Len(ab) = M + N /\ M \in Nat /\ N \in Nat
      /\ \A i \in 1..M+N : ab[i] = IF i <= M THEN a[i] ELSE b[i - M]
  BY <1>1, ConcatProperties
<1>3. PICK s : RmScanned(s, a, disabled, M) /\ RmScan(a, disabled) = s[M]
  BY <1>2, RmScanIs
<1>4. PICK t : RmScanned(t, b, disabled, N) /\ RmScan(b, disabled) = t[N]
  BY <1>2, RmScanIs
<1>5. PICK u : RmScanned(u, ab, disabled, M + N) /\ RmScan(ab, disabled) = u[M + N]
  <2>1. Len(ab) \in Nat
    BY <1>2
  <2> QED BY <1>2, <2>1, RmScanIs
<1>6. s[0] = <<>> /\ \A m \in 1..M : s[m] = s[m - 1] \o RmPiece(a, disabled, m)
  BY <1>2, <1>3, RmScannedSteps
<1>7. t[0] = <<>> /\ \A m \in 1..N : t[m] = t[m - 1] \o P(m)
  BY <1>2, <1>4, RmScannedSteps
<1>8. u[0] = <<>> /\ \A m \in 1..M+N : u[m] = u[m - 1] \o RmPiece(ab, disabled, m)
  <2>1. M + N \in Nat
    BY <1>2
  <2> QED BY <1>5, <2>1, RmScannedSteps
<1>9. \A n \in 0..N : t[n] \in Seq(RmRules)
  BY <1>4, RmScannedTyped
<1>10. \A m \in 0..M : s[m] \in Seq(RmRules)
  BY <1>3, RmScannedTyped
<1>11. \A m \in 1..N : P(m) \in Seq(RmRules)
  BY RmRulesAre DEF RmPiece
<1>12. \A m \in 1..M : RmPiece(ab, disabled, m) = RmPiece(a, disabled, m)
  BY <1>2 DEF RmPiece
<1>13. \A m \in 1..N : RmPiece(ab, disabled, M + m) = P(m)
  <2>1. \A m \in 1..N : M + m \in 1..M+N /\ ~(M + m <= M) /\ (M + m) - M = m
    BY <1>2
  <2>2. \A m \in 1..N : ab[M + m] = b[m]
    BY <1>2, <2>1
  <2> HIDE DEF M, N
  <2> QED BY <2>2 DEF RmPiece
<1> HIDE DEF P, M, N
<1>14. \A m \in 0..M : u[m] = s[m]
  <2> DEFINE S == {m \in Nat : m <= M => u[m] = s[m]}
  <2>1. 0 \in S
    BY <1>6, <1>8
  <2>2. ASSUME NEW m \in S PROVE m + 1 \in S
    <3>1. m \in Nat /\ m + 1 \in Nat
      OBVIOUS
    <3>2. SUFFICES ASSUME m + 1 <= M PROVE u[m + 1] = s[m + 1]
      BY <3>1
    <3>3. m <= M /\ m + 1 \in 1..M /\ m + 1 \in 1..M+N /\ (m + 1) - 1 = m
      BY <1>2, <3>1, <3>2
    <3>4. u[m] = s[m]
      BY <3>3
    <3> QED BY <1>6, <1>8, <1>12, <3>3, <3>4
  <2>3. S = Nat
    <3>1. S \in SUBSET Nat
      OBVIOUS
    <3> HIDE DEF S
    <3> QED BY <2>1, <2>2, <3>1, RmAllNumbers
  <2> QED BY <1>2, <2>3
<1>15. s[M] \in Seq(RmRules)
  BY <1>2, <1>10
<1>16. \A n \in 0..N : u[M + n] = s[M] \o t[n]
  <2> DEFINE S == {n \in Nat : n <= N => u[M + n] = s[M] \o t[n]}
  <2>1. 0 \in S
    <3>1. u[M + 0] = s[M]
      BY <1>2, <1>14
    <3>2. s[M] \o t[0] = s[M]
      BY <1>7, <1>15, ConcatEmptySeq
    <3> QED BY <3>1, <3>2
  <2>2. ASSUME NEW n \in S PROVE n + 1 \in S
    <3>1. n \in Nat /\ n + 1 \in Nat
      OBVIOUS
    <3>2. SUFFICES ASSUME n + 1 <= N PROVE u[M + (n + 1)] = s[M] \o t[n + 1]
      BY <3>1
    <3>3. /\ n <= N /\ n \in 0..N /\ n + 1 \in 1..N /\ (n + 1) - 1 = n
          /\ M + (n + 1) \in 1..M+N /\ (M + (n + 1)) - 1 = M + n
      BY <1>2, <3>1, <3>2
    <3>4. u[M + n] = s[M] \o t[n]
      BY <3>3
    <3>5. u[M + (n + 1)] = (s[M] \o t[n]) \o P(n + 1)
      BY <1>8, <1>13, <3>3, <3>4
    <3>6. t[n] \in Seq(RmRules) /\ P(n + 1) \in Seq(RmRules)
      BY <1>9, <1>11, <3>3 DEF N
    <3>7. (s[M] \o t[n]) \o P(n + 1) = s[M] \o (t[n] \o P(n + 1))
      <4>1. \A x, y, z \in Seq(RmRules) : (x \o y) \o z = x \o (y \o z)
        BY ConcatAssociative
      <4> QED BY <1>15, <3>6, <4>1, Zenon
    <3>8. t[n + 1] = t[n] \o P(n + 1)
      BY <1>7, <3>3
    <3> QED BY <3>5, <3>7, <3>8
  <2>3. S = Nat
    <3>1. S \in SUBSET Nat
      OBVIOUS
    <3> HIDE DEF S
    <3> QED BY <2>1, <2>2, <3>1, RmAllNumbers
  <2>4. \A n \in 0..N : n \in S /\ n <= N
    <3> HIDE DEF S
    <3> QED BY <1>2, <2>3
  <2> QED BY <2>4
<1>17. u[M + N] = s[M] \o t[N]
  <2>1. N \in 0..N
    BY <1>2
  <2> QED BY <1>16, <2>1
<1> QED BY <1>1, <1>3, <1>4, <1>5, <1>17

------------------------------------------------------------------------------
(* Rules of one name that match alike. *)
RmAlike(r, s) ==
    /\ RmKey(r) = RmKey(s) /\ r.important = s.important /\ r.types = s.types
    /\ r.deny = s.deny /\ r.rewrite = s.rewrite

(* The entry of a key after n rules: the first of each meaning, in order.    *)
RmEntryAt(at, entry, rules, key, n) ==
    /\ \A m \in DOMAIN entry : at[m] \in 1..n /\ entry[m] = rules[at[m]] /\ RmKey(entry[m]) = key
    /\ \A m, o \in DOMAIN entry : m < o => at[m] < at[o]
    /\ \A i \in 1..n : RmKey(rules[i]) = key =>
           \E m \in DOMAIN entry : RmAlike(entry[m], rules[i]) /\ at[m] <= i
RmEntryOf(entry, rules, key, n) ==
    /\ \E at : RmEntryAt(at, entry, rules, key, n)
    /\ \A m, o \in DOMAIN entry : m # o => ~RmAlike(entry[m], entry[o])
    /\ entry \in Seq(RmRules)
RmIndexOf(index, rules, n) ==
    /\ \A key : RmEntryOf(RmEntry(index, key), rules, key, n)
    /\ \A key \in DOMAIN index : index[key] # <<>>
    /\ index = [key \in DOMAIN index |-> index[key]]

LEMMA RmIndexStep ==
    ASSUME NEW index, NEW rules, NEW n \in Nat, RmIndexOf(index, rules, n), rules[n + 1] \in RmRules
    PROVE  RmIndexOf(RmInsert(index, rules[n + 1]), rules, n + 1)
<1> DEFINE r == rules[n + 1]
           q == RmKey(r)
           old == RmEntry(index, q)
           new == RmInsert(index, r)
<1>1. RmEntryOf(old, rules, q, n)
  BY DEF RmIndexOf
<1>2. old \in Seq(RmRules) /\ r \in RmRules
  BY <1>1 DEF RmEntryOf
<1>3. \A i : i \in 1..n+1 <=> i \in 1..n \/ i = n + 1
  OBVIOUS
<1>4. \A m \in DOMAIN old : RmKey(old[m]) = q
  BY <1>1 DEF RmEntryOf, RmEntryAt
<1>5. RmCovers(old, r) <=> \E m \in DOMAIN old : RmAlike(old[m], r)
  BY <1>4 DEF RmCovers, RmAlike
<1> HIDE DEF r, q, old, new
<1>6. ASSUME NEW key, NEW entry, RmEntryOf(entry, rules, key, n),
             key = q => \E m \in DOMAIN entry : RmAlike(entry[m], r)
      PROVE  RmEntryOf(entry, rules, key, n + 1)
  <2>1. PICK at : RmEntryAt(at, entry, rules, key, n)
    BY <1>6 DEF RmEntryOf
  <2>2. \A m \in DOMAIN entry : at[m] \in 1..n+1 /\ entry[m] = rules[at[m]] /\ RmKey(entry[m]) = key
    BY <1>3, <2>1 DEF RmEntryAt
  <2>3. ASSUME NEW i \in 1..n+1, RmKey(rules[i]) = key
        PROVE  \E m \in DOMAIN entry : RmAlike(entry[m], rules[i]) /\ at[m] <= i
    <3>1. CASE i \in 1..n
      BY <2>1, <2>3, <3>1 DEF RmEntryAt
    <3>2. CASE i = n + 1
      <4>1. rules[i] = r /\ key = q
        BY <2>3, <3>2 DEF r, q
      <4>2. PICK m \in DOMAIN entry : RmAlike(entry[m], r)
        BY <1>6, <4>1
      <4>3. at[m] \in 1..n
        BY <2>1 DEF RmEntryAt
      <4>4. at[m] <= i
        BY <3>2, <4>3
      <4> QED BY <4>1, <4>2, <4>4
    <3> QED BY <1>3, <3>1, <3>2
  <2>4. RmEntryAt(at, entry, rules, key, n + 1)
    BY <2>1, <2>2, <2>3 DEF RmEntryAt
  <2> QED BY <1>6, <2>4 DEF RmEntryOf
<1>7. CASE RmCovers(old, r)
  <2>1. new = index
    BY <1>7 DEF new, RmInsert, old, q
  <2>2. ASSUME NEW key PROVE RmEntryOf(RmEntry(index, key), rules, key, n + 1)
    <3>1. PICK entry : entry = RmEntry(index, key)
      OBVIOUS
    <3>2. RmEntryOf(entry, rules, key, n)
      BY <3>1 DEF RmIndexOf
    <3>3. key = q => \E m \in DOMAIN entry : RmAlike(entry[m], r)
      BY <1>5, <1>7, <3>1 DEF old
    <3> QED BY <1>6, <3>1, <3>2, <3>3
  <2> QED BY <2>1, <2>2 DEF RmIndexOf, new, r
<1>8. CASE ~RmCovers(old, r)
  <2>1. new = [k \in DOMAIN index \cup {q} |-> IF k = q THEN Append(RmEntry(index, k), r) ELSE index[k]]
    BY <1>8 DEF new, RmInsert, old, q
  <2>2. /\ DOMAIN new = DOMAIN index \cup {q} /\ new[q] = Append(old, r)
        /\ \A k \in DOMAIN new : k # q => new[k] = index[k]
    BY <2>1 DEF old
  <2>3. new = [k \in DOMAIN new |-> new[k]]
    BY <2>1
  <2>4. /\ Append(old, r) \in Seq(RmRules) /\ Append(old, r) # <<>>
        /\ Len(old) \in Nat /\ DOMAIN old = 1..Len(old)
        /\ DOMAIN Append(old, r) = 1..(Len(old) + 1) /\ Append(old, r)[Len(old) + 1] = r
        /\ \A m \in DOMAIN old : Append(old, r)[m] = old[m]
    BY <1>2
  <2>5. PICK e : e = Append(old, r)
    OBVIOUS
  <2>6. PICK len : len = Len(old)
    OBVIOUS
  <2>7. /\ e \in Seq(RmRules) /\ e # <<>> /\ len \in Nat /\ DOMAIN old = 1..len
        /\ DOMAIN e = 1..(len + 1) /\ e[len + 1] = r /\ \A m \in 1..len : e[m] = old[m]
    BY <2>4, <2>5, <2>6
  <2>8. \A m : m \in DOMAIN e <=> m \in 1..len \/ m = len + 1
    BY <2>7
  <2>9. RmEntryOf(e, rules, q, n + 1)
    <3>1. PICK at : RmEntryAt(at, old, rules, q, n)
      BY <1>1 DEF RmEntryOf
    <3> DEFINE to == [m \in DOMAIN e |-> IF m = len + 1 THEN n + 1 ELSE at[m]]
    <3>2. to[len + 1] = n + 1 /\ \A m \in 1..len : to[m] = at[m]
      BY <2>7, <2>8
    <3> HIDE DEF to
    <3>3. \A m \in 1..len : at[m] \in 1..n /\ old[m] = rules[at[m]]
      BY <2>7, <3>1 DEF RmEntryAt
    <3>4. ASSUME NEW m \in DOMAIN e
          PROVE  to[m] \in 1..n+1 /\ e[m] = rules[to[m]] /\ RmKey(e[m]) = q
      <4>1. CASE m \in 1..len
        BY <1>3, <1>4, <2>7, <3>2, <3>3, <4>1
      <4>2. CASE m = len + 1
        BY <1>3, <2>7, <3>2, <4>2 DEF r, q
      <4> QED BY <2>8, <4>1, <4>2
    <3>5. ASSUME NEW m \in DOMAIN e, NEW o \in DOMAIN e, m < o PROVE to[m] < to[o]
      <4>1. m \in 1..len
        BY <2>7, <2>8, <3>5
      <4>2. CASE o \in 1..len
        BY <2>7, <3>1, <3>2, <3>5, <4>1, <4>2 DEF RmEntryAt
      <4>3. CASE o = len + 1
        BY <3>2, <3>3, <4>1, <4>3
      <4> QED BY <2>8, <4>2, <4>3
    <3>6. ASSUME NEW i \in 1..n+1, RmKey(rules[i]) = q
          PROVE  \E m \in DOMAIN e : RmAlike(e[m], rules[i]) /\ to[m] <= i
      <4>1. CASE i \in 1..n
        <5>1. PICK m \in DOMAIN old : RmAlike(old[m], rules[i]) /\ at[m] <= i
          BY <3>1, <3>6, <4>1 DEF RmEntryAt
        <5> QED BY <2>7, <2>8, <3>2, <5>1
      <4>2. CASE i = n + 1
        <5>1. rules[i] = r /\ RmAlike(r, r)
          BY <4>2 DEF r, RmAlike
        <5>2. len + 1 \in DOMAIN e /\ to[len + 1] <= i
          BY <2>8, <3>2, <4>2
        <5> QED BY <2>7, <5>1, <5>2
      <4> QED BY <1>3, <4>1, <4>2
    <3>7. RmEntryAt(to, e, rules, q, n + 1)
      BY <3>4, <3>5, <3>6 DEF RmEntryAt
    <3>8. ASSUME NEW m \in DOMAIN e, NEW o \in DOMAIN e, m # o PROVE ~RmAlike(e[m], e[o])
      <4>1. \A l \in 1..len : ~RmAlike(old[l], r) /\ ~RmAlike(r, old[l])
        BY <1>5, <1>8, <2>7 DEF RmAlike
      <4>2. CASE m \in 1..len /\ o \in 1..len
        BY <1>1, <2>7, <3>8, <4>2 DEF RmEntryOf
      <4>3. CASE m \in 1..len /\ o = len + 1
        BY <2>7, <4>1, <4>3
      <4>4. CASE m = len + 1 /\ o \in 1..len
        BY <2>7, <4>1, <4>4
      <4> QED BY <2>8, <3>8, <4>2, <4>3, <4>4
    <3> QED BY <2>7, <3>7, <3>8 DEF RmEntryOf
  <2>10. ASSUME NEW key PROVE RmEntryOf(RmEntry(new, key), rules, key, n + 1)
    <3>1. CASE key = q
      BY <2>2, <2>5, <2>9, <3>1 DEF RmEntry
    <3>2. CASE key # q
      <4>1. RmEntry(new, key) = RmEntry(index, key)
        BY <2>2, <3>2 DEF RmEntry
      <4>2. PICK entry : entry = RmEntry(index, key)
        OBVIOUS
      <4>3. RmEntryOf(entry, rules, key, n)
        BY <4>2 DEF RmIndexOf
      <4> QED BY <1>6, <3>2, <4>1, <4>2, <4>3
    <3> QED BY <3>1, <3>2
  <2>11. \A key \in DOMAIN new : new[key] # <<>>
    BY <2>2, <2>5, <2>7 DEF RmIndexOf
  <2> QED BY <2>3, <2>10, <2>11 DEF RmIndexOf, new, r
<1> QED BY <1>7, <1>8

(* What has been built after each rule. *)
RmBuilt(t, rules, n) == t = [m \in 0..n |-> IF m = 0 THEN <<>> ELSE RmInsert(t[m - 1], rules[m])]

LEMMA RmBuiltSteps ==
    ASSUME NEW t, NEW rules, NEW n \in Nat, RmBuilt(t, rules, n)
    PROVE  t[0] = <<>> /\ \A m \in 1..n : t[m] = RmInsert(t[m - 1], rules[m])
<1>1. \A m \in 0..n : t[m] = IF m = 0 THEN <<>> ELSE RmInsert(t[m - 1], rules[m])
  BY Zenon DEF RmBuilt
<1>2. 0 \in 0..n /\ \A m \in 1..n : m \in 0..n /\ m # 0
  OBVIOUS
<1> QED BY <1>1, <1>2, Zenon

LEMMA RmBuildsExist ==
    ASSUME NEW rules
    PROVE  \A n \in Nat : \E t : RmBuilt(t, rules, n)
<1> DEFINE S == {n \in Nat : \E t : RmBuilt(t, rules, n)}
<1>1. 0 \in S
  <2> DEFINE f == [m \in 0..0 |-> <<>>]
  <2>1. \A m \in 0..0 : m = 0
    OBVIOUS
  <2>2. f = [m \in 0..0 |-> IF m = 0 THEN <<>> ELSE RmInsert(f[m - 1], rules[m])]
    BY <2>1
  <2> HIDE DEF f
  <2> QED BY <2>2 DEF RmBuilt
<1>2. ASSUME NEW n \in S PROVE n + 1 \in S
  <2>1. PICK f : RmBuilt(f, rules, n)
    OBVIOUS
  <2>2. n \in Nat
    OBVIOUS
  <2>3. f[0] = <<>> /\ \A m \in 1..n : f[m] = RmInsert(f[m - 1], rules[m])
    BY <2>1, <2>2, RmBuiltSteps
  <2> DEFINE u == [m \in 0..n+1 |-> IF m = n + 1 THEN RmInsert(f[n], rules[n + 1]) ELSE f[m]]
  <2>4. ASSUME NEW m \in 0..n+1
        PROVE  u[m] = IF m = 0 THEN <<>> ELSE RmInsert(u[m - 1], rules[m])
    <3>1. CASE m = n + 1
      <4>1. m - 1 = n /\ n \in 0..n+1 /\ n # n + 1 /\ m # 0
        BY <2>2, <3>1
      <4>2. u[m] = RmInsert(f[n], rules[m]) /\ u[m - 1] = f[n]
        BY <3>1, <4>1
      <4> HIDE DEF u
      <4> QED BY <4>1, <4>2
    <3>2. CASE m # n + 1 /\ m # 0
      <4>1. m \in 1..n /\ m - 1 \in 0..n+1 /\ m - 1 # n + 1
        BY <2>2, <3>2
      <4>2. u[m] = f[m] /\ u[m - 1] = f[m - 1]
        BY <3>2, <4>1
      <4> HIDE DEF u
      <4> QED BY <2>3, <3>2, <4>1, <4>2
    <3>3. CASE m # n + 1 /\ m = 0
      BY <2>3, <3>3
    <3> QED BY <3>1, <3>2, <3>3
  <2>5. u = [m \in 0..n+1 |-> u[m]]
    OBVIOUS
  <2>6. u = [m \in 0..n+1 |-> IF m = 0 THEN <<>> ELSE RmInsert(u[m - 1], rules[m])]
    <3> HIDE DEF u
    <3> QED BY <2>4, <2>5, Zenon
  <2>7. RmBuilt(u, rules, n + 1)
    <3> HIDE DEF u
    <3> QED BY <2>6 DEF RmBuilt
  <2> HIDE DEF u
  <2> QED BY <2>2, <2>7
<1>3. S = Nat
  <2>1. S \in SUBSET Nat
    OBVIOUS
  <2> HIDE DEF S
  <2> QED BY <1>1, <1>2, <2>1, RmAllNumbers
<1> QED BY <1>3

(* The index of the last is the index. *)
LEMMA RmIndexedIs ==
    ASSUME NEW rules, Len(rules) \in Nat
    PROVE  \E t : RmBuilt(t, rules, Len(rules)) /\ RmIndexed(rules) = t[Len(rules)]
<1> DEFINE t == CHOOSE f : f = [n \in 0..Len(rules) |->
                                 IF n = 0 THEN <<>> ELSE RmInsert(f[n - 1], rules[n])]
<1>1. \E f : RmBuilt(f, rules, Len(rules))
  BY RmBuildsExist
<1>2. RmBuilt(t, rules, Len(rules))
  BY <1>1, Zenon DEF RmBuilt
<1>3. RmIndexed(rules) = t[Len(rules)]
  BY Zenon DEF RmIndexed
<1> QED
  <2> HIDE DEF t
  <2> QED BY <1>2, <1>3

(* The index holds every meaning of every key once, the first rule of each,  *)
(* in the order of the lines.                                                *)
LEMMA RmIndexRight ==
    ASSUME NEW rules \in Seq(RmRules)
    PROVE  RmIndexOf(RmIndexed(rules), rules, Len(rules))
<1> DEFINE N == Len(rules)
<1>1. N \in Nat /\ \A m \in 1..N : rules[m] \in RmRules
  OBVIOUS
<1>2. PICK t : RmBuilt(t, rules, N) /\ RmIndexed(rules) = t[N]
  BY <1>1, RmIndexedIs
<1>3. t[0] = <<>> /\ \A m \in 1..N : t[m] = RmInsert(t[m - 1], rules[m])
  BY <1>1, <1>2, RmBuiltSteps
<1> HIDE DEF N
<1> DEFINE S == {n \in Nat : n <= N => RmIndexOf(t[n], rules, n)}
<1>4. 0 \in S
  <2>1. PICK e : e = t[0]
    OBVIOUS
  <2>2. e = <<>> /\ DOMAIN e = {} /\ e = [key \in DOMAIN e |-> e[key]]
    BY <1>3, <2>1
  <2>3. \A key : RmEntry(e, key) = <<>>
    BY <2>2 DEF RmEntry
  <2>4. PICK none : none = <<>>
    OBVIOUS
  <2>5. none \in Seq(RmRules) /\ DOMAIN none = {}
    BY <2>4
  <2>6. \A key : RmEntryAt(none, none, rules, key, 0)
    BY <2>5 DEF RmEntryAt
  <2>7. \A key : RmEntryOf(none, rules, key, 0)
    BY <2>5, <2>6 DEF RmEntryOf
  <2>8. RmIndexOf(e, rules, 0)
    BY <2>2, <2>3, <2>4, <2>7 DEF RmIndexOf
  <2> QED BY <2>1, <2>8
<1>5. ASSUME NEW n \in S PROVE n + 1 \in S
  <2>1. n \in Nat /\ n + 1 \in Nat
    OBVIOUS
  <2>2. SUFFICES ASSUME n + 1 <= N PROVE RmIndexOf(t[n + 1], rules, n + 1)
    BY <2>1
  <2>3. n <= N /\ n + 1 \in 1..N /\ (n + 1) - 1 = n
    BY <1>1, <2>1, <2>2
  <2>4. RmIndexOf(t[n], rules, n)
    BY <2>3
  <2>5. t[n + 1] = RmInsert(t[n], rules[n + 1]) /\ rules[n + 1] \in RmRules
    BY <1>1, <1>3, <2>3
  <2>6. PICK index : index = t[n]
    OBVIOUS
  <2>7. RmIndexOf(RmInsert(index, rules[n + 1]), rules, n + 1)
    BY <2>1, <2>4, <2>5, <2>6, RmIndexStep
  <2> QED BY <2>5, <2>6, <2>7
<1>6. S = Nat
  <2>1. S \in SUBSET Nat
    OBVIOUS
  <2> HIDE DEF S
  <2> QED BY <1>4, <1>5, <2>1, RmAllNumbers
<1>7. RmIndexOf(t[N], rules, N)
  <2>1. N \in S /\ N <= N
    <3> HIDE DEF S
    <3> QED BY <1>1, <1>6
  <2> QED BY <2>1
<1> QED BY <1>2, <1>7 DEF N

------------------------------------------------------------------------------
(* Layers hold the rules of a scan: what an entry of theirs has is a rule    *)
(* there, in order, and every rule there has one of its meaning at its place *)
(* or before.                                                                *)
RmHoldsAt(at, layers, rules, key) ==
    /\ \A j \in DOMAIN layers : \A n \in DOMAIN RmEntry(layers[j].index, key) :
           /\ at[j][n] \in DOMAIN rules /\ RmKey(rules[at[j][n]]) = key
           /\ RmEntry(layers[j].index, key)[n] = rules[at[j][n]]
    /\ \A j, o \in DOMAIN layers :
           \A m \in DOMAIN RmEntry(layers[j].index, key), n \in DOMAIN RmEntry(layers[o].index, key) :
               (j < o \/ (j = o /\ m < n)) => at[j][m] < at[o][n]
    /\ \A i \in DOMAIN rules : RmKey(rules[i]) = key =>
           \E j \in DOMAIN layers : \E n \in DOMAIN RmEntry(layers[j].index, key) :
               RmAlike(RmEntry(layers[j].index, key)[n], rules[i]) /\ at[j][n] <= i
RmHold(layers, rules) ==
    /\ rules \in Seq(RmRules) /\ DOMAIN layers \subseteq Nat
    /\ \A j \in DOMAIN layers : \A key : RmEntry(layers[j].index, key) \in Seq(RmRules)
    /\ \A key : \E at : RmHoldsAt(at, layers, rules, key)

(* One compilation holds the rules it has scanned. *)
LEMMA RmHoldOne ==
    ASSUME NEW rules \in Seq(RmRules), NEW layer, layer.index = RmIndexed(rules)
    PROVE  RmHold(<<layer>>, rules)
<1>1. PICK layers : layers = <<layer>>
  OBVIOUS
<1>2. DOMAIN layers = {1} /\ layers[1] = layer
  BY <1>1
<1>3. PICK index : index = RmIndexed(rules)
  OBVIOUS
<1>4. RmIndexOf(index, rules, Len(rules)) /\ DOMAIN rules = 1..Len(rules)
  BY <1>3, RmIndexRight
<1>5. ASSUME NEW key PROVE \E at : RmHoldsAt(at, layers, rules, key)
  <2>1. PICK e : e = RmEntry(index, key)
    OBVIOUS
  <2>2. RmEntryOf(e, rules, key, Len(rules)) /\ e \in Seq(RmRules)
    BY <1>4, <2>1 DEF RmIndexOf, RmEntryOf
  <2>3. PICK to : RmEntryAt(to, e, rules, key, Len(rules))
    BY <2>2 DEF RmEntryOf
  <2>4. PICK at : at = [j \in {1} |-> to]
    OBVIOUS
  <2>5. at[1] = to
    BY <2>4
  <2>6. \A j \in DOMAIN layers : j = 1 /\ RmEntry(layers[j].index, key) = e /\ at[j] = to
    BY <1>2, <1>3, <2>1, <2>5
  <2>7. \A j \in DOMAIN layers : \A n \in DOMAIN RmEntry(layers[j].index, key) :
           /\ at[j][n] \in DOMAIN rules /\ RmKey(rules[at[j][n]]) = key
           /\ RmEntry(layers[j].index, key)[n] = rules[at[j][n]]
    BY <1>4, <2>3, <2>6 DEF RmEntryAt
  <2>8. \A j, o \in DOMAIN layers :
           \A m \in DOMAIN RmEntry(layers[j].index, key), n \in DOMAIN RmEntry(layers[o].index, key) :
               (j < o \/ (j = o /\ m < n)) => at[j][m] < at[o][n]
    BY <2>3, <2>6 DEF RmEntryAt
  <2>9. ASSUME NEW i \in DOMAIN rules, RmKey(rules[i]) = key
        PROVE  \E j \in DOMAIN layers : \E n \in DOMAIN RmEntry(layers[j].index, key) :
                   RmAlike(RmEntry(layers[j].index, key)[n], rules[i]) /\ at[j][n] <= i
    <3>1. PICK n \in DOMAIN e : RmAlike(e[n], rules[i]) /\ to[n] <= i
      BY <1>4, <2>3, <2>9 DEF RmEntryAt
    <3>2. 1 \in DOMAIN layers
      BY <1>2
    <3> QED BY <2>6, <3>1, <3>2
  <2> QED BY <2>7, <2>8, <2>9 DEF RmHoldsAt
<1>6. ASSUME NEW j \in DOMAIN layers, NEW key PROVE RmEntry(layers[j].index, key) \in Seq(RmRules)
  <2>1. RmEntryOf(RmEntry(index, key), rules, key, Len(rules))
    BY <1>4 DEF RmIndexOf
  <2> QED BY <1>2, <1>3, <2>1 DEF RmEntryOf
<1>7. DOMAIN layers \subseteq Nat
  BY <1>2
<1> QED BY <1>1, <1>5, <1>6, <1>7 DEF RmHold

(* Two compilations hold what they have scanned one after the other. *)
LEMMA RmHoldTwo ==
    ASSUME NEW first \in Seq(RmRules), NEW second \in Seq(RmRules), NEW lower, NEW upper,
           lower.index = RmIndexed(first), upper.index = RmIndexed(second)
    PROVE  RmHold(<<lower, upper>>, first \o second)
<1>1. PICK layers : layers = <<lower, upper>>
  OBVIOUS
<1>2. DOMAIN layers = {1, 2} /\ layers[1] = lower /\ layers[2] = upper
  BY <1>1
<1>3. PICK low, up : low = RmIndexed(first) /\ up = RmIndexed(second)
  OBVIOUS
<1>4. PICK M, N : M = Len(first) /\ N = Len(second)
  OBVIOUS
<1>5. RmIndexOf(low, first, M) /\ RmIndexOf(up, second, N)
  BY <1>3, <1>4, RmIndexRight
<1>6. PICK rules : rules = first \o second
  OBVIOUS
<1>7. /\ rules \in Seq(RmRules) /\ DOMAIN rules = 1..(M + N) /\ M \in Nat /\ N \in Nat
      /\ \A i \in 1..(M + N) : rules[i] = IF i <= M THEN first[i] ELSE second[i - M]
  BY <1>4, <1>6, ConcatProperties
<1>8. \A i \in 1..M : i \in DOMAIN rules /\ rules[i] = first[i]
  BY <1>7
<1>9. \A i \in 1..N : M + i \in DOMAIN rules /\ rules[M + i] = second[i]
  <2>1. \A i \in 1..N : M + i \in 1..(M + N) /\ ~(M + i <= M) /\ (M + i) - M = i
    BY <1>7
  <2> QED BY <1>7, <2>1
<1>10. ASSUME NEW key PROVE \E at : RmHoldsAt(at, layers, rules, key)
  <2>1. PICK a, b : a = RmEntry(low, key) /\ b = RmEntry(up, key)
    OBVIOUS
  <2>2. RmEntryOf(a, first, key, M) /\ RmEntryOf(b, second, key, N)
    BY <1>5, <2>1 DEF RmIndexOf
  <2>3. PICK f : RmEntryAt(f, a, first, key, M)
    BY <2>2 DEF RmEntryOf
  <2>4. PICK g : RmEntryAt(g, b, second, key, N)
    BY <2>2 DEF RmEntryOf
  <2>5. PICK h : h = [n \in DOMAIN b |-> M + g[n]]
    OBVIOUS
  <2>6. \A n \in DOMAIN b : h[n] = M + g[n] /\ g[n] \in 1..N
    BY <2>4, <2>5 DEF RmEntryAt
  <2>7. \A n \in DOMAIN a : f[n] \in 1..M
    BY <2>3 DEF RmEntryAt
  <2>8. PICK at : at = [j \in {1, 2} |-> IF j = 1 THEN f ELSE h]
    OBVIOUS
  <2>9. at[1] = f /\ at[2] = h
    BY <2>8
  <2>10. /\ RmEntry(layers[1].index, key) = a /\ RmEntry(layers[2].index, key) = b
         /\ \A j : j \in DOMAIN layers <=> j = 1 \/ j = 2
    BY <1>2, <1>3, <2>1
  <2>11. ASSUME NEW j \in DOMAIN layers, NEW n \in DOMAIN RmEntry(layers[j].index, key)
         PROVE  /\ at[j][n] \in DOMAIN rules /\ RmKey(rules[at[j][n]]) = key
                /\ RmEntry(layers[j].index, key)[n] = rules[at[j][n]]
    <3>1. CASE j = 1
      <4>1. n \in DOMAIN a /\ at[j][n] = f[n]
        BY <2>9, <2>10, <2>11, <3>1
      <4>2. f[n] \in DOMAIN rules /\ rules[f[n]] = first[f[n]]
        BY <1>8, <2>7, <4>1
      <4>3. a[n] = first[f[n]] /\ RmKey(a[n]) = key
        BY <2>3, <4>1 DEF RmEntryAt
      <4> QED BY <2>10, <3>1, <4>1, <4>2, <4>3
    <3>2. CASE j = 2
      <4>1. n \in DOMAIN b /\ at[j][n] = M + g[n]
        BY <2>6, <2>9, <2>10, <2>11, <3>2
      <4>2. M + g[n] \in DOMAIN rules /\ rules[M + g[n]] = second[g[n]]
        BY <1>9, <2>6, <4>1
      <4>3. b[n] = second[g[n]] /\ RmKey(b[n]) = key
        BY <2>4, <4>1 DEF RmEntryAt
      <4> QED BY <2>10, <3>2, <4>1, <4>2, <4>3
    <3> QED BY <2>10, <3>1, <3>2
  <2>12. ASSUME NEW j \in DOMAIN layers, NEW o \in DOMAIN layers,
                NEW m \in DOMAIN RmEntry(layers[j].index, key), NEW n \in DOMAIN RmEntry(layers[o].index, key),
                j < o \/ (j = o /\ m < n)
         PROVE  at[j][m] < at[o][n]
    <3>1. CASE j = 1 /\ o = 1
      BY <2>3, <2>9, <2>10, <2>12, <3>1 DEF RmEntryAt
    <3>2. CASE j = 1 /\ o = 2
      <4>1. f[m] \in 1..M /\ h[n] = M + g[n] /\ g[n] \in 1..N
        BY <2>6, <2>7, <2>10, <2>12, <3>2
      <4>2. f[m] < h[n]
        BY <1>7, <4>1
      <4> QED BY <2>9, <3>2, <4>2
    <3>3. CASE j = 2 /\ o = 2
      <4>1. m \in DOMAIN b /\ n \in DOMAIN b /\ m < n
        BY <2>10, <2>12, <3>3
      <4>2. g[m] < g[n] /\ g[m] \in 1..N /\ g[n] \in 1..N
        BY <2>4, <2>6, <4>1 DEF RmEntryAt
      <4>3. M + g[m] < M + g[n]
        BY <1>7, <4>2
      <4> QED BY <2>6, <2>9, <3>3, <4>1, <4>3
    <3>4. ~(j = 2 /\ o = 1)
      BY <2>12
    <3> QED BY <2>10, <3>1, <3>2, <3>3, <3>4
  <2>13. ASSUME NEW i \in DOMAIN rules, RmKey(rules[i]) = key
         PROVE  \E j \in DOMAIN layers : \E n \in DOMAIN RmEntry(layers[j].index, key) :
                    RmAlike(RmEntry(layers[j].index, key)[n], rules[i]) /\ at[j][n] <= i
    <3>1. CASE i <= M
      <4>1. i \in 1..M /\ rules[i] = first[i]
        BY <1>7, <3>1
      <4>2. PICK n \in DOMAIN a : RmAlike(a[n], first[i]) /\ f[n] <= i
        BY <2>3, <2>13, <4>1 DEF RmEntryAt
      <4> QED BY <2>9, <2>10, <4>1, <4>2
    <3>2. CASE ~(i <= M)
      <4>1. i - M \in 1..N /\ rules[i] = second[i - M]
        BY <1>7, <3>2
      <4>2. PICK n \in DOMAIN b : RmAlike(b[n], second[i - M]) /\ g[n] <= i - M
        BY <2>4, <2>13, <4>1 DEF RmEntryAt
      <4>3. h[n] <= i
        BY <1>7, <2>6, <4>1, <4>2
      <4> QED BY <2>9, <2>10, <4>1, <4>2, <4>3
    <3> QED BY <3>1, <3>2
  <2> QED BY <2>11, <2>12, <2>13 DEF RmHoldsAt
<1>11. ASSUME NEW j \in DOMAIN layers, NEW key PROVE RmEntry(layers[j].index, key) \in Seq(RmRules)
  <2>1. RmEntryOf(RmEntry(low, key), first, key, M) /\ RmEntryOf(RmEntry(up, key), second, key, N)
    BY <1>5 DEF RmIndexOf
  <2> QED BY <1>2, <1>3, <2>1 DEF RmEntryOf
<1>12. DOMAIN layers \subseteq Nat
  BY <1>2
<1> QED BY <1>1, <1>6, <1>7, <1>10, <1>11, <1>12 DEF RmHold

------------------------------------------------------------------------------
(* A rule is meant by a query at a key of it. *)
RmMeantAt(r, allow, d, t, c) == RmMatches(r, d, t) /\ RmKey(r) = RmKeyAt(allow, d, c)
RmMeant(rules, allow, d, t) ==
    {i \in DOMAIN rules : \E c \in 0..Len(d) : RmMeantAt(rules[i], allow, d, t, c)}

LEMMA RmFoundIs ==
    ASSUME NEW layers, NEW allow, NEW d, NEW t
    PROVE  \A f : f \in RmFound(layers, allow, d, t) <=>
               \E c \in 0..Len(d), j \in DOMAIN layers :
                   \E n \in DOMAIN RmEntry(layers[j].index, RmKeyAt(allow, d, c)) :
                       /\ RmMatches(RmEntry(layers[j].index, RmKeyAt(allow, d, c))[n], d, t)
                       /\ f = [key |-> c, layer |-> j, place |-> n,
                               rule |-> RmEntry(layers[j].index, RmKeyAt(allow, d, c))[n]]
<1> DEFINE E(c, j) == RmEntry(layers[j].index, RmKeyAt(allow, d, c))
           F(c, j, n) == [key |-> c, layer |-> j, place |-> n, rule |-> E(c, j)[n]]
           G(c, j) == {F(c, j, n) : n \in {m \in DOMAIN E(c, j) : RmMatches(E(c, j)[m], d, t)}}
<1>1. RmFound(layers, allow, d, t) = UNION {G(at[1], at[2]) : at \in (0..Len(d)) \X DOMAIN layers}
  BY DEF RmFound
<1>2. ASSUME NEW f
      PROVE  f \in UNION {G(at[1], at[2]) : at \in (0..Len(d)) \X DOMAIN layers}
                 <=> \E c \in 0..Len(d), j \in DOMAIN layers : f \in G(c, j)
  <2> HIDE DEF G
  <2>1. f \in UNION {G(at[1], at[2]) : at \in (0..Len(d)) \X DOMAIN layers}
            <=> \E at \in (0..Len(d)) \X DOMAIN layers : f \in G(at[1], at[2])
    BY Zenon
  <2>2. \A at \in (0..Len(d)) \X DOMAIN layers : at[1] \in 0..Len(d) /\ at[2] \in DOMAIN layers
    OBVIOUS
  <2>3. ASSUME NEW c \in 0..Len(d), NEW j \in DOMAIN layers
        PROVE  \E at \in (0..Len(d)) \X DOMAIN layers : at[1] = c /\ at[2] = j
    <3>1. <<c, j>> \in (0..Len(d)) \X DOMAIN layers /\ <<c, j>>[1] = c /\ <<c, j>>[2] = j
      OBVIOUS
    <3> QED BY <3>1
  <2>4. ASSUME NEW at \in (0..Len(d)) \X DOMAIN layers, f \in G(at[1], at[2])
        PROVE  \E c \in 0..Len(d), j \in DOMAIN layers : f \in G(c, j)
    BY <2>2, <2>4
  <2>5. ASSUME NEW c \in 0..Len(d), NEW j \in DOMAIN layers, f \in G(c, j)
        PROVE  \E at \in (0..Len(d)) \X DOMAIN layers : f \in G(at[1], at[2])
    <3>1. PICK at \in (0..Len(d)) \X DOMAIN layers : at[1] = c /\ at[2] = j
      BY <2>3
    <3>2. f \in G(at[1], at[2])
      BY <2>5, <3>1
    <3> QED BY <3>2
  <2> QED BY <2>1, <2>4, <2>5
<1>3. \A f, c, j : f \in G(c, j) <=> \E n \in DOMAIN E(c, j) : RmMatches(E(c, j)[n], d, t) /\ f = F(c, j, n)
  <2> HIDE DEF E, F
  <2> QED OBVIOUS
<1> HIDE DEF G
<1> QED BY <1>1, <1>2, <1>3

LEMMA RmMatchAlike ==
    ASSUME NEW r, NEW s, RmAlike(r, s), NEW allow, NEW d, NEW t, NEW c
    PROVE  RmMeantAt(r, allow, d, t, c) <=> RmMeantAt(s, allow, d, t, c)
BY DEF RmAlike, RmMeantAt, RmMatches

(* What is found is meant, and everything meant is found, or its like. *)
LEMMA RmFoundMeant ==
    ASSUME NEW layers, NEW rules, RmHold(layers, rules), NEW allow, NEW d, NEW t
    PROVE  /\ \A f \in RmFound(layers, allow, d, t) :
                  \E i \in RmMeant(rules, allow, d, t) : f.rule = rules[i]
           /\ \A i \in RmMeant(rules, allow, d, t) :
                  \E f \in RmFound(layers, allow, d, t) : RmAlike(f.rule, rules[i])
<1>1. ASSUME NEW f \in RmFound(layers, allow, d, t)
      PROVE  \E i \in RmMeant(rules, allow, d, t) : f.rule = rules[i]
  <2>1. PICK c \in 0..Len(d), j \in DOMAIN layers :
            \E n \in DOMAIN RmEntry(layers[j].index, RmKeyAt(allow, d, c)) :
                /\ RmMatches(RmEntry(layers[j].index, RmKeyAt(allow, d, c))[n], d, t)
                /\ f = [key |-> c, layer |-> j, place |-> n,
                        rule |-> RmEntry(layers[j].index, RmKeyAt(allow, d, c))[n]]
    BY <1>1, RmFoundIs
  <2>2. PICK k : k = RmKeyAt(allow, d, c)
    OBVIOUS
  <2>3. PICK n \in DOMAIN RmEntry(layers[j].index, k) :
            /\ RmMatches(RmEntry(layers[j].index, k)[n], d, t)
            /\ f = [key |-> c, layer |-> j, place |-> n, rule |-> RmEntry(layers[j].index, k)[n]]
    BY <2>1, <2>2
  <2>4. PICK at : RmHoldsAt(at, layers, rules, k)
    BY DEF RmHold
  <2>5. /\ at[j][n] \in DOMAIN rules /\ RmKey(rules[at[j][n]]) = k
        /\ RmEntry(layers[j].index, k)[n] = rules[at[j][n]]
    BY <2>3, <2>4 DEF RmHoldsAt
  <2>6. f.rule = rules[at[j][n]] /\ RmMeantAt(rules[at[j][n]], allow, d, t, c)
    BY <2>2, <2>3, <2>5 DEF RmMeantAt
  <2> QED BY <2>5, <2>6 DEF RmMeant
<1>2. ASSUME NEW i \in RmMeant(rules, allow, d, t)
      PROVE  \E f \in RmFound(layers, allow, d, t) : RmAlike(f.rule, rules[i])
  <2>1. PICK c \in 0..Len(d) : i \in DOMAIN rules /\ RmMeantAt(rules[i], allow, d, t, c)
    BY DEF RmMeant
  <2>2. PICK k : k = RmKeyAt(allow, d, c)
    OBVIOUS
  <2>3. PICK at : RmHoldsAt(at, layers, rules, k)
    BY DEF RmHold
  <2>4. PICK j \in DOMAIN layers : \E n \in DOMAIN RmEntry(layers[j].index, k) :
            RmAlike(RmEntry(layers[j].index, k)[n], rules[i])
    BY <2>1, <2>2, <2>3 DEF RmHoldsAt, RmMeantAt
  <2>5. PICK n \in DOMAIN RmEntry(layers[j].index, k) : RmAlike(RmEntry(layers[j].index, k)[n], rules[i])
    BY <2>4
  <2>6. PICK f : f = [key |-> c, layer |-> j, place |-> n, rule |-> RmEntry(layers[j].index, k)[n]]
    OBVIOUS
  <2>7. f.rule = RmEntry(layers[j].index, k)[n]
    BY <2>6
  <2>8. RmMatches(RmEntry(layers[j].index, k)[n], d, t)
    BY <2>1, <2>5, RmMatchAlike DEF RmMeantAt
  <2>9. f \in RmFound(layers, allow, d, t)
    BY <2>2, <2>5, <2>6, <2>8, RmFoundIs
  <2> QED BY <2>5, <2>7, <2>9
<1> QED BY <1>1, <1>2

(* The rule that a query comes to first among some of those it means: the    *)
(* first line of the nearest name.                                           *)
RmLeads(i, rules, some, allow, d) ==
    /\ i \in DOMAIN rules /\ rules[i] \in some
    /\ \E c \in 0..Len(d) :
           /\ RmKey(rules[i]) = RmKeyAt(allow, d, c)
           /\ \A j \in DOMAIN rules, e \in 0..Len(d) :
                  (rules[j] \in some /\ RmKey(rules[j]) = RmKeyAt(allow, d, e)) => (c < e \/ (c = e /\ i <= j))

LEMMA RmOneLeads ==
    ASSUME NEW rules \in Seq(RmRules), NEW some, NEW allow, NEW d, NEW i, NEW j,
           Len(d) \in Nat, RmLeads(i, rules, some, allow, d), RmLeads(j, rules, some, allow, d)
    PROVE  i = j
<1>1. i \in DOMAIN rules /\ j \in DOMAIN rules /\ i \in Nat /\ j \in Nat
  BY DEF RmLeads
<1>2. PICK c \in 0..Len(d) :
          /\ RmKey(rules[i]) = RmKeyAt(allow, d, c)
          /\ \A k \in DOMAIN rules, e \in 0..Len(d) :
                 (rules[k] \in some /\ RmKey(rules[k]) = RmKeyAt(allow, d, e)) => (c < e \/ (c = e /\ i <= k))
  BY DEF RmLeads
<1>3. PICK b \in 0..Len(d) :
          /\ RmKey(rules[j]) = RmKeyAt(allow, d, b)
          /\ \A k \in DOMAIN rules, e \in 0..Len(d) :
                 (rules[k] \in some /\ RmKey(rules[k]) = RmKeyAt(allow, d, e)) => (b < e \/ (b = e /\ j <= k))
  BY DEF RmLeads
<1>4. rules[i] \in some /\ rules[j] \in some
  BY DEF RmLeads
<1>5. c < b \/ (c = b /\ i <= j)
  BY <1>1, <1>2, <1>3, <1>4
<1>6. b < c \/ (b = c /\ j <= i)
  BY <1>1, <1>2, <1>3, <1>4
<1> QED BY <1>1, <1>5, <1>6

LEMMA RmOneIsFirst ==
    ASSUME NEW rules \in Seq(RmRules), NEW some, NEW allow, NEW d, Len(d) \in Nat,
           \E i \in DOMAIN rules, c \in 0..Len(d) : rules[i] \in some /\ RmKey(rules[i]) = RmKeyAt(allow, d, c)
    PROVE  \E i : RmLeads(i, rules, some, allow, d)
<1> DEFINE At(i, c) == rules[i] \in some /\ RmKey(rules[i]) = RmKeyAt(allow, d, c)
           C == {c \in 0..Len(d) : \E i \in DOMAIN rules : At(i, c)}
<1>1. C \in SUBSET Nat /\ C # {}
  OBVIOUS
<1>2. PICK c \in C : \A e \in C : c <= e
  <2> HIDE DEF C
  <2> QED BY <1>1, RmLeast
<1> DEFINE I == {i \in DOMAIN rules : At(i, c)}
<1>3. I \in SUBSET Nat /\ I # {}
  <2>1. DOMAIN rules \subseteq Nat
    OBVIOUS
  <2> QED BY <1>2, <2>1
<1>4. PICK i \in I : \A j \in I : i <= j
  <2> HIDE DEF I
  <2> QED BY <1>3, RmLeast
<1> HIDE DEF At
<1>5. ASSUME NEW j \in DOMAIN rules, NEW e \in 0..Len(d), At(j, e) PROVE c < e \/ (c = e /\ i <= j)
  <2>1. c <= e
    BY <1>2, <1>5
  <2>2. CASE c = e
    <3>1. j \in I
      BY <1>5, <2>2
    <3> QED BY <1>4, <2>2, <3>1
  <2>3. CASE c # e
    BY <2>1, <2>3
  <2> QED BY <2>2, <2>3
<1>6. i \in DOMAIN rules /\ c \in 0..Len(d) /\ At(i, c)
  BY <1>2, <1>4
<1> QED BY <1>5, <1>6 DEF At, RmLeads

(* Where a candidate was found. *)
LEMMA RmFoundAt ==
    ASSUME NEW layers, NEW rules, RmHold(layers, rules), NEW allow, NEW d, NEW t, Len(d) \in Nat,
           NEW f \in RmFound(layers, allow, d, t)
    PROVE  /\ f.key \in 0..Len(d) /\ f.layer \in DOMAIN layers
           /\ f.place \in DOMAIN RmEntry(layers[f.layer].index, RmKeyAt(allow, d, f.key))
           /\ f.rule = RmEntry(layers[f.layer].index, RmKeyAt(allow, d, f.key))[f.place]
           /\ f.key \in Nat /\ f.layer \in Nat /\ f.place \in Nat
<1>1. PICK c \in 0..Len(d), j \in DOMAIN layers :
          \E n \in DOMAIN RmEntry(layers[j].index, RmKeyAt(allow, d, c)) :
              /\ RmMatches(RmEntry(layers[j].index, RmKeyAt(allow, d, c))[n], d, t)
              /\ f = [key |-> c, layer |-> j, place |-> n,
                      rule |-> RmEntry(layers[j].index, RmKeyAt(allow, d, c))[n]]
  BY RmFoundIs
<1>2. PICK n \in DOMAIN RmEntry(layers[j].index, RmKeyAt(allow, d, c)) :
              f = [key |-> c, layer |-> j, place |-> n,
                   rule |-> RmEntry(layers[j].index, RmKeyAt(allow, d, c))[n]]
  BY <1>1
<1>3. f.key = c /\ f.layer = j /\ f.place = n /\ f.rule = RmEntry(layers[j].index, RmKeyAt(allow, d, c))[n]
  BY <1>2
<1>4. PICK e : e = RmEntry(layers[j].index, RmKeyAt(allow, d, c))
  OBVIOUS
<1>5. e \in Seq(RmRules)
  BY <1>4 DEF RmHold
<1>6. n \in Nat
  BY <1>4, <1>5
<1>7. j \in Nat /\ c \in Nat
  BY DEF RmHold
<1> QED BY <1>2, <1>3, <1>6, <1>7

(* The candidates that are some of the rules. *)
RmFoundAmong(layers, allow, d, t, some) == {f \in RmFound(layers, allow, d, t) : f.rule \in some}

(* Rules that a query means, and none is left out whose like is among them.  *)
RmChosen(some, rules, allow, d, t) ==
    /\ \A r \in some : \E i \in RmMeant(rules, allow, d, t) : r = rules[i]
    /\ \A r \in some, i \in RmMeant(rules, allow, d, t) : RmAlike(r, rules[i]) => rules[i] \in some

LEMMA RmFirstIs ==
    ASSUME NEW layers, NEW rules, RmHold(layers, rules), NEW allow, NEW d, NEW t, NEW some, Len(d) \in Nat,
           RmChosen(some, rules, allow, d, t), some # {}
    PROVE  \E i : /\ RmLeads(i, rules, some, allow, d)
                  /\ RmFirst(RmFoundAmong(layers, allow, d, t, some)) = rules[i]
<1>1. /\ rules \in Seq(RmRules)
      /\ \A r \in some : \E i \in RmMeant(rules, allow, d, t) : r = rules[i]
      /\ \A r \in some, i \in RmMeant(rules, allow, d, t) : RmAlike(r, rules[i]) => rules[i] \in some
  BY DEF RmHold, RmChosen
<1>2. \E i \in DOMAIN rules, c \in 0..Len(d) : rules[i] \in some /\ RmKey(rules[i]) = RmKeyAt(allow, d, c)
  <2>1. PICK r \in some : TRUE
    OBVIOUS
  <2>2. PICK i \in RmMeant(rules, allow, d, t) : r = rules[i]
    BY <1>1, <2>1
  <2> QED BY <2>1, <2>2 DEF RmMeant, RmMeantAt
<1>3. PICK i : RmLeads(i, rules, some, allow, d)
  BY <1>1, <1>2, RmOneIsFirst
<1>4. i \in DOMAIN rules /\ rules[i] \in some /\ i \in Nat
  BY <1>1, <1>3 DEF RmLeads
<1>5. PICK c \in 0..Len(d) :
           /\ RmKey(rules[i]) = RmKeyAt(allow, d, c)
           /\ \A j \in DOMAIN rules, e \in 0..Len(d) :
                  (rules[j] \in some /\ RmKey(rules[j]) = RmKeyAt(allow, d, e)) => (c < e \/ (c = e /\ i <= j))
  BY <1>3 DEF RmLeads
<1>6. PICK k : k = RmKeyAt(allow, d, c)
  OBVIOUS
<1>7. PICK at : RmHoldsAt(at, layers, rules, k)
  BY DEF RmHold
<1>8. PICK j \in DOMAIN layers : \E n \in DOMAIN RmEntry(layers[j].index, k) :
          RmAlike(RmEntry(layers[j].index, k)[n], rules[i]) /\ at[j][n] <= i
  BY <1>4, <1>5, <1>6, <1>7 DEF RmHoldsAt
<1>9. PICK n \in DOMAIN RmEntry(layers[j].index, k) :
          RmAlike(RmEntry(layers[j].index, k)[n], rules[i]) /\ at[j][n] <= i
  BY <1>8
<1>10. PICK x : x = at[j][n]
  OBVIOUS
<1>11. /\ x \in DOMAIN rules /\ x <= i /\ RmEntry(layers[j].index, k)[n] = rules[x]
       /\ RmAlike(rules[x], rules[i]) /\ RmAlike(rules[i], rules[x]) /\ RmKey(rules[x]) = k /\ x \in Nat
  <2>1. /\ x \in DOMAIN rules /\ x <= i /\ RmEntry(layers[j].index, k)[n] = rules[x]
        /\ RmAlike(rules[x], rules[i]) /\ RmKey(rules[x]) = k
    BY <1>7, <1>9, <1>10 DEF RmHoldsAt
  <2> QED BY <1>1, <2>1 DEF RmAlike
<1>12. RmMeantAt(rules[i], allow, d, t, c) /\ RmMeantAt(rules[x], allow, d, t, c)
  <2>1. PICK y \in RmMeant(rules, allow, d, t) : rules[i] = rules[y]
    BY <1>1, <1>4
  <2>2. PICK e \in 0..Len(d) : RmMeantAt(rules[i], allow, d, t, e)
    BY <2>1 DEF RmMeant
  <2>3. RmMeantAt(rules[i], allow, d, t, c)
    BY <1>5, <2>2 DEF RmMeantAt
  <2> QED BY <1>11, <2>3, RmMatchAlike
<1>13. x = i
  <2>1. x \in RmMeant(rules, allow, d, t)
    BY <1>11, <1>12 DEF RmMeant
  <2>2. rules[x] \in some
    BY <1>1, <1>4, <1>11, <2>1
  <2>3. c < c \/ (c = c /\ i <= x)
    BY <1>5, <1>6, <1>11, <2>2
  <2> QED BY <1>4, <1>11, <2>3
<1>14. \A o \in DOMAIN layers : \A m \in DOMAIN RmEntry(layers[o].index, k) :
           /\ at[o][m] \in DOMAIN rules /\ RmKey(rules[at[o][m]]) = k
           /\ RmEntry(layers[o].index, k)[m] = rules[at[o][m]]
           /\ (o < j \/ (o = j /\ m < n)) => at[o][m] < at[j][n]
  BY <1>7, <1>9 DEF RmHoldsAt
<1>15. j \in Nat /\ n \in Nat /\ c \in Nat
  <2>1. RmEntry(layers[j].index, k) \in Seq(RmRules)
    BY DEF RmHold
  <2>2. n \in Nat
    BY <1>9, <2>1
  <2> QED BY <2>2 DEF RmHold
<1> DEFINE F == {f \in RmFound(layers, allow, d, t) : f.rule \in some}
<1>16. PICK lead : lead = [key |-> c, layer |-> j, place |-> n, rule |-> rules[i]]
  OBVIOUS
<1>17. lead.key = c /\ lead.layer = j /\ lead.place = n /\ lead.rule = rules[i]
  BY <1>16
<1>18. lead \in F
  <2>1. RmMatches(RmEntry(layers[j].index, k)[n], d, t)
    BY <1>11, <1>12 DEF RmMeantAt
  <2>2. lead \in RmFound(layers, allow, d, t)
    BY <1>6, <1>9, <1>11, <1>13, <1>16, <2>1, RmFoundIs
  <2> QED BY <1>4, <1>17, <2>2
<1>19. ASSUME NEW g \in F PROVE RmSooner(lead, g)
  <2>1. g \in RmFound(layers, allow, d, t) /\ g.rule \in some
    OBVIOUS
  <2>2. /\ g.key \in 0..Len(d) /\ g.layer \in DOMAIN layers
        /\ g.place \in DOMAIN RmEntry(layers[g.layer].index, RmKeyAt(allow, d, g.key))
        /\ g.rule = RmEntry(layers[g.layer].index, RmKeyAt(allow, d, g.key))[g.place]
        /\ g.key \in Nat /\ g.layer \in Nat /\ g.place \in Nat
    BY <2>1, RmFoundAt
  <2>3. CASE g.key = c
    <3>1. /\ g.place \in DOMAIN RmEntry(layers[g.layer].index, k)
          /\ g.rule = RmEntry(layers[g.layer].index, k)[g.place]
      BY <1>6, <2>2, <2>3
    <3>2. PICK y : y = at[g.layer][g.place]
      OBVIOUS
    <3>3. /\ y \in DOMAIN rules /\ RmKey(rules[y]) = k /\ g.rule = rules[y]
          /\ (g.layer < j \/ (g.layer = j /\ g.place < n)) => y < x
      BY <1>10, <1>14, <2>2, <3>1, <3>2
    <3>4. c < c \/ (c = c /\ i <= y)
      BY <1>5, <1>6, <2>1, <3>3
    <3>5. y \in Nat
      BY <1>1, <3>3
    <3>6. ~(g.layer < j \/ (g.layer = j /\ g.place < n))
      BY <1>4, <1>13, <1>15, <3>3, <3>4, <3>5
    <3>7. j < g.layer \/ (j = g.layer /\ n <= g.place)
      BY <1>15, <2>2, <3>6
    <3> QED BY <1>17, <2>3, <3>7 DEF RmSooner
  <2>4. CASE g.key # c
    <3>1. PICK e : e = g.key
      OBVIOUS
    <3>2. PICK l : l = RmKeyAt(allow, d, e)
      OBVIOUS
    <3>3. PICK to : RmHoldsAt(to, layers, rules, l)
      BY DEF RmHold
    <3>4. PICK y : y = to[g.layer][g.place]
      OBVIOUS
    <3>5. y \in DOMAIN rules /\ RmKey(rules[y]) = l /\ g.rule = rules[y]
      BY <2>2, <3>1, <3>2, <3>3, <3>4 DEF RmHoldsAt
    <3>6. c < e \/ (c = e /\ i <= y)
      BY <1>5, <2>1, <2>2, <3>1, <3>2, <3>5
    <3>7. lead.key < g.key
      BY <1>17, <2>4, <3>1, <3>6
    <3> QED BY <3>7 DEF RmSooner
  <2> QED BY <2>3, <2>4
<1>20. ASSUME NEW f \in F, \A g \in F : RmSooner(f, g) PROVE f.rule = rules[i]
  <2>1. RmSooner(f, lead) /\ RmSooner(lead, f)
    BY <1>18, <1>19, <1>20
  <2>2. /\ f.key \in Nat /\ f.layer \in Nat /\ f.place \in Nat
        /\ f.rule = RmEntry(layers[f.layer].index, RmKeyAt(allow, d, f.key))[f.place]
    <3>1. f \in RmFound(layers, allow, d, t)
      OBVIOUS
    <3> QED BY <3>1, RmFoundAt
  <2>3. f.key = c /\ f.layer = j /\ f.place = n
    BY <1>15, <1>17, <2>1, <2>2 DEF RmSooner
  <2> QED BY <1>6, <1>11, <1>13, <2>2, <2>3
<1>21. RmFirst(F) = rules[i]
  <2> HIDE DEF F
  <2>1. PICK f : f = CHOOSE h \in F : \A g \in F : RmSooner(h, g)
    OBVIOUS
  <2>2. f \in F /\ \A g \in F : RmSooner(f, g)
    BY <1>18, <1>19, <2>1
  <2> QED BY <1>20, <2>1, <2>2 DEF RmFirst
<1> QED BY <1>3, <1>21 DEF RmFoundAmong

------------------------------------------------------------------------------
(* The rules a query means, those that rewrite it, and those that decide.    *)
RmMeantRules(rules, allow, d, t) == {rules[i] : i \in RmMeant(rules, allow, d, t)}
RmPlainOf(rules, allow, d, t, important) ==
    {r \in RmMeantRules(rules, allow, d, t) : r.important = important /\ r.rewrite.kind = "none"}
RmRewriting(rules, d, t) == {r \in RmMeantRules(rules, FALSE, d, t) : r.rewrite.kind # "none"}
RmStrongest(rules, d, t) ==
    {r \in RmRewriting(rules, d, t) : r.important \/ \A s \in RmRewriting(rules, d, t) : ~s.important}
RmBest(rules, d, t) ==
    {r \in RmStrongest(rules, d, t) : \A s \in RmStrongest(rules, d, t) : RmPriority(r) <= RmPriority(s)}

LEMMA RmPriorities ==
    ASSUME NEW r
    PROVE  /\ RmPriority(r) \in {0, 1, 2}
           /\ RmPriority(r) < 2 <=> r.rewrite.kind \in {"rcode", "cname"}
BY DEF RmPriority

LEMMA RmAlikeSame ==
    ASSUME NEW r, NEW s, RmAlike(r, s)
    PROVE  /\ r.important = s.important /\ r.rewrite = s.rewrite /\ RmPriority(r) = RmPriority(s)
           /\ RmAlike(s, r)
BY DEF RmAlike, RmPriority

LEMMA RmPlainFound ==
    ASSUME NEW layers, NEW rules, RmHold(layers, rules), NEW allow, NEW d, NEW t, NEW important
    PROVE  /\ RmPlain(RmFound(layers, allow, d, t), important)
                  = RmFoundAmong(layers, allow, d, t, RmPlainOf(rules, allow, d, t, important))
           /\ RmHit(RmFound(layers, allow, d, t), important) <=> RmPlainOf(rules, allow, d, t, important) # {}
<1>1. PICK found : found = RmFound(layers, allow, d, t)
  OBVIOUS
<1>2. PICK meant : meant = RmMeantRules(rules, allow, d, t)
  OBVIOUS
<1>3. /\ \A f \in found : f.rule \in meant
      /\ \A r \in meant : \E f \in found : RmAlike(f.rule, r)
  BY <1>1, <1>2, RmFoundMeant DEF RmMeantRules
<1>4. RmPlainOf(rules, allow, d, t, important) = {r \in meant : r.important = important /\ r.rewrite.kind = "none"}
  BY <1>2 DEF RmPlainOf
<1>5. RmPlain(found, important) = {f \in found : f.rule \in RmPlainOf(rules, allow, d, t, important)}
  BY <1>3, <1>4 DEF RmPlain
<1>6. RmPlain(found, important) # {} <=> RmPlainOf(rules, allow, d, t, important) # {}
  <2>1. ASSUME NEW r \in RmPlainOf(rules, allow, d, t, important) PROVE RmPlain(found, important) # {}
    <3>1. PICK f \in found : RmAlike(f.rule, r)
      BY <1>3, <1>4
    <3>2. f.rule.important = important /\ f.rule.rewrite.kind = "none"
      BY <1>4, <3>1, RmAlikeSame
    <3> QED BY <3>2 DEF RmPlain
  <2>2. ASSUME NEW f \in RmPlain(found, important) PROVE RmPlainOf(rules, allow, d, t, important) # {}
    BY <1>5
  <2> QED BY <2>1, <2>2
<1> QED BY <1>1, <1>5, <1>6 DEF RmHit, RmFoundAmong

(* The plain rules are chosen so, and the best that rewrite. *)
LEMMA RmClosed ==
    ASSUME NEW rules, NEW allow, NEW d, NEW t, NEW important
    PROVE  RmChosen(RmPlainOf(rules, allow, d, t, important), rules, allow, d, t)
<1>1. ASSUME NEW r \in RmPlainOf(rules, allow, d, t, important), NEW i \in RmMeant(rules, allow, d, t),
             RmAlike(r, rules[i])
      PROVE  rules[i] \in RmPlainOf(rules, allow, d, t, important)
  <2>1. rules[i].important = important /\ rules[i].rewrite.kind = "none"
    BY <1>1, RmAlikeSame DEF RmPlainOf
  <2> QED BY <2>1 DEF RmPlainOf, RmMeantRules
<1>2. \A r \in RmPlainOf(rules, allow, d, t, important) : \E i \in RmMeant(rules, allow, d, t) : r = rules[i]
  BY DEF RmPlainOf, RmMeantRules
<1> QED BY <1>1, <1>2 DEF RmChosen

LEMMA RmBestClosed ==
    ASSUME NEW rules, NEW d, NEW t
    PROVE  RmChosen(RmBest(rules, d, t), rules, FALSE, d, t)
<1>1. ASSUME NEW r \in RmBest(rules, d, t), NEW i \in RmMeant(rules, FALSE, d, t), RmAlike(r, rules[i])
      PROVE  rules[i] \in RmBest(rules, d, t)
  <2>1. PICK s : s = rules[i]
    OBVIOUS
  <2>2. s.important = r.important /\ s.rewrite = r.rewrite /\ RmPriority(s) = RmPriority(r)
    BY <1>1, <2>1, RmAlikeSame
  <2>3. r \in RmStrongest(rules, d, t) /\ \A x \in RmStrongest(rules, d, t) : RmPriority(r) <= RmPriority(x)
    BY DEF RmBest
  <2>4. /\ r \in RmRewriting(rules, d, t)
        /\ r.important \/ \A x \in RmRewriting(rules, d, t) : ~x.important
    BY <2>3 DEF RmStrongest
  <2>5. s \in RmRewriting(rules, d, t)
    BY <2>1, <2>2, <2>4 DEF RmRewriting, RmMeantRules
  <2>6. s \in RmStrongest(rules, d, t)
    BY <2>2, <2>4, <2>5 DEF RmStrongest
  <2> QED BY <2>1, <2>2, <2>3, <2>6 DEF RmBest
<1>2. \A r \in RmBest(rules, d, t) : \E i \in RmMeant(rules, FALSE, d, t) : r = rules[i]
  BY DEF RmBest, RmStrongest, RmRewriting, RmMeantRules
<1> QED BY <1>1, <1>2 DEF RmChosen

(* Among rules that rewrite there are best ones. *)
LEMMA RmBestExists ==
    ASSUME NEW rules, NEW d, NEW t
    PROVE  RmBest(rules, d, t) # {} <=> RmRewriting(rules, d, t) # {}
<1> DEFINE A == RmRewriting(rules, d, t)
           K == RmStrongest(rules, d, t)
<1>1. RmBest(rules, d, t) \subseteq A
  BY DEF RmBest, RmStrongest
<1>2. ASSUME NEW a \in A PROVE K # {}
  <2>1. CASE \E s \in A : s.important
    BY <2>1 DEF RmStrongest
  <2>2. CASE \A s \in A : ~s.important
    BY <2>2 DEF RmStrongest
  <2> QED BY <2>1, <2>2
<1>3. ASSUME NEW k \in K PROVE RmBest(rules, d, t) # {}
  <2>1. \A s \in K : RmPriority(s) \in {0, 1, 2}
    BY RmPriorities
  <2>2. PICK s \in K : \A x \in K : RmPriority(s) <= RmPriority(x)
    <3>1. CASE \E s \in K : RmPriority(s) = 0
      <4> HIDE DEF K
      <4> QED BY <2>1, <3>1
    <3>2. CASE (\A s \in K : RmPriority(s) # 0) /\ \E s \in K : RmPriority(s) = 1
      <4> HIDE DEF K
      <4> QED BY <2>1, <3>2
    <3>3. CASE \A s \in K : RmPriority(s) # 0 /\ RmPriority(s) # 1
      <4>1. \A s \in K : RmPriority(s) = 2
        BY <2>1, <3>3
      <4> HIDE DEF K
      <4> QED BY <4>1
    <3> QED BY <3>1, <3>2, <3>3
  <2> QED BY <2>2 DEF RmBest
<1> QED BY <1>1, <1>2, <1>3

RmBlocksFound(layers, d, t) == RmFound(layers, FALSE, d, t)
RmBestFoundIn(layers, rules, d, t) == RmFoundAmong(layers, FALSE, d, t, RmBest(rules, d, t))
RmRewritesIn(layers, rules, d, t) ==
    IF \E r \in RmBest(rules, d, t) : RmPriority(r) < 2
    THEN {RmFirst(RmBestFoundIn(layers, rules, d, t))}
    ELSE {f.rule : f \in RmBestFoundIn(layers, rules, d, t)}
LEMMA RmRewritesFound ==
    ASSUME NEW layers, NEW rules, RmHold(layers, rules), NEW d, NEW t
    PROVE  RmRewrites(RmBlocksFound(layers, d, t)) = RmRewritesIn(layers, rules, d, t)
<1>1. PICK found : found = RmFound(layers, FALSE, d, t)
  OBVIOUS
<1>2. PICK meant : meant = RmMeantRules(rules, FALSE, d, t)
  OBVIOUS
<1>3. /\ \A f \in found : f.rule \in meant
      /\ \A r \in meant : \E f \in found : RmAlike(f.rule, r)
  <2>1. PICK no : no = FALSE
    OBVIOUS
  <2>2. found = RmFound(layers, no, d, t) /\ meant = RmMeantRules(rules, no, d, t)
    BY <1>1, <1>2, <2>1
  <2> QED BY <2>2, RmFoundMeant DEF RmMeantRules
<1>4. PICK A : A = RmRewriting(rules, d, t)
  OBVIOUS
<1>5. PICK K : K = RmStrongest(rules, d, t)
  OBVIOUS
<1>6. PICK B : B = RmBest(rules, d, t)
  OBVIOUS
<1>7. /\ A = {r \in meant : r.rewrite.kind # "none"}
      /\ K = {r \in A : r.important \/ \A s \in A : ~s.important}
      /\ B = {r \in K : \A s \in K : RmPriority(r) <= RmPriority(s)}
  BY <1>2, <1>4, <1>5, <1>6 DEF RmRewriting, RmStrongest, RmBest
<1> DEFINE all == {f \in found : f.rule.rewrite.kind # "none"}
           kept == {f \in all : f.rule.important \/ \A g \in all : ~g.rule.important}
           best == {f \in kept : \A g \in kept : RmPriority(f.rule) <= RmPriority(g.rule)}
<1>8. \A f : f \in all <=> f \in found /\ f.rule \in A
  BY <1>3, <1>7
<1>9. \A s \in A : \E f \in all : RmAlike(f.rule, s)
  <2>1. SUFFICES ASSUME NEW s \in A PROVE \E f \in all : RmAlike(f.rule, s)
    OBVIOUS
  <2>2. PICK f \in found : RmAlike(f.rule, s)
    BY <1>3, <1>7
  <2>3. f.rule.rewrite.kind # "none"
    BY <1>7, <2>2, RmAlikeSame
  <2> QED BY <2>2, <2>3
<1> HIDE DEF all
<1>10. (\A g \in all : ~g.rule.important) <=> (\A s \in A : ~s.important)
  <2>1. ASSUME NEW s \in A, s.important PROVE \E g \in all : g.rule.important
    BY <1>9, <2>1, RmAlikeSame
  <2>2. \A g \in all : g.rule \in A
    BY <1>8
  <2> QED BY <2>1, <2>2
<1>11. \A f : f \in kept <=> f \in found /\ f.rule \in K
  BY <1>7, <1>8, <1>10
<1>12. \A s \in K : \E f \in kept : RmPriority(f.rule) = RmPriority(s)
  <2>1. SUFFICES ASSUME NEW s \in K PROVE \E f \in kept : RmPriority(f.rule) = RmPriority(s)
    OBVIOUS
  <2>2. s \in A /\ (s.important \/ \A x \in A : ~x.important)
    BY <1>7
  <2>3. PICK f \in all : RmAlike(f.rule, s)
    BY <1>9, <2>2
  <2>4. f.rule.important = s.important /\ RmPriority(f.rule) = RmPriority(s)
    BY <2>3, RmAlikeSame
  <2>5. f \in kept
    BY <1>10, <2>2, <2>4
  <2> QED BY <2>4, <2>5
<1> HIDE DEF kept
<1>13. \A f : f \in best <=> f \in found /\ f.rule \in B
  <2>1. ASSUME NEW f \in best PROVE f \in found /\ f.rule \in B
    <3>1. f \in kept /\ \A g \in kept : RmPriority(f.rule) <= RmPriority(g.rule)
      OBVIOUS
    <3>2. \A s \in K : RmPriority(f.rule) <= RmPriority(s)
      BY <1>12, <3>1
    <3> QED BY <1>7, <1>11, <3>1, <3>2
  <2>2. ASSUME NEW f \in found, f.rule \in B PROVE f \in best
    <3>1. f.rule \in K /\ \A s \in K : RmPriority(f.rule) <= RmPriority(s)
      BY <1>7, <2>2
    <3>2. f \in kept /\ \A g \in kept : g.rule \in K
      BY <1>11, <3>1
    <3> QED BY <3>1, <3>2
  <2> QED BY <2>1, <2>2
<1>14. RmRewrites(found) = IF \E f \in best : RmPriority(f.rule) < 2 THEN {RmFirst(best)} ELSE {f.rule : f \in best}
  BY DEF RmRewrites, best, kept, all
<1>15. (\E f \in best : RmPriority(f.rule) < 2) <=> \E r \in B : RmPriority(r) < 2
  <2>1. ASSUME NEW r \in B, RmPriority(r) < 2 PROVE \E f \in best : RmPriority(f.rule) < 2
    <3>1. r \in K /\ \A s \in K : RmPriority(r) <= RmPriority(s)
      BY <1>7
    <3>2. PICK f \in kept : RmPriority(f.rule) = RmPriority(r)
      BY <1>12, <3>1
    <3>3. f \in found /\ f.rule \in K
      BY <1>11
    <3>4. f.rule \in B
      BY <1>7, <3>1, <3>2, <3>3
    <3> QED BY <1>13, <2>1, <3>2, <3>3, <3>4
  <2> QED BY <1>13, <2>1
<1>16. best = {f \in found : f.rule \in B}
  BY <1>13
<1> HIDE DEF best
<1>17. best = RmBestFoundIn(layers, rules, d, t)
  BY <1>1, <1>6, <1>16 DEF RmFoundAmong, RmBestFoundIn
<1>18. RmBlocksFound(layers, d, t) = found
  BY <1>1 DEF RmBlocksFound
<1>19. RmRewrites(found) = RmRewritesIn(layers, rules, d, t)
  BY <1>6, <1>14, <1>15, <1>17 DEF RmRewritesIn
<1> QED BY <1>18, <1>19

(* What a search comes to first is the same for all layers with these rules. *)
LEMMA RmPlainFirst ==
    ASSUME NEW layers, NEW rules, RmHold(layers, rules), NEW allow, NEW d, NEW t, NEW important, Len(d) \in Nat,
           RmPlainOf(rules, allow, d, t, important) # {}
    PROVE  \E i : /\ RmLeads(i, rules, RmPlainOf(rules, allow, d, t, important), allow, d)
                  /\ RmFirst(RmPlain(RmFound(layers, allow, d, t), important)) = rules[i]
<1>1. PICK some : some = RmPlainOf(rules, allow, d, t, important)
  OBVIOUS
<1>2. RmChosen(some, rules, allow, d, t) /\ some # {}
  BY <1>1, RmClosed
<1>3. \E i : /\ RmLeads(i, rules, some, allow, d)
             /\ RmFirst(RmFoundAmong(layers, allow, d, t, some)) = rules[i]
  BY <1>2, RmFirstIs
<1>4. RmPlain(RmFound(layers, allow, d, t), important) = RmFoundAmong(layers, allow, d, t, some)
  BY <1>1, RmPlainFound
<1> QED BY <1>1, <1>3, <1>4

LEMMA RmBestFirst ==
    ASSUME NEW layers, NEW rules, RmHold(layers, rules), NEW d, NEW t, Len(d) \in Nat,
           RmBest(rules, d, t) # {}
    PROVE  \E i : /\ RmLeads(i, rules, RmBest(rules, d, t), FALSE, d)
                  /\ RmFirst(RmFoundAmong(layers, FALSE, d, t, RmBest(rules, d, t))) = rules[i]
<1> PICK allow : allow = FALSE
  OBVIOUS
<1>1. PICK some : some = RmBest(rules, d, t)
  OBVIOUS
<1>2. some # {}
  BY <1>1
<1>3. RmChosen(some, rules, allow, d, t)
  <2>1. RmChosen(RmBest(rules, d, t), rules, FALSE, d, t)
    BY RmBestClosed, Zenon
  <2> QED BY <1>1, <2>1
<1>4. \E i : /\ RmLeads(i, rules, some, allow, d)
             /\ RmFirst(RmFoundAmong(layers, allow, d, t, some)) = rules[i]
  BY <1>2, <1>3, RmFirstIs
<1> QED BY <1>1, <1>4

LEMMA RmPlainSame ==
    ASSUME NEW rules, NEW layers, NEW others, RmHold(layers, rules), RmHold(others, rules),
           NEW d, NEW t, Len(d) \in Nat, NEW allow, NEW important,
           RmPlainOf(rules, allow, d, t, important) # {}
    PROVE  RmFirst(RmPlain(RmFound(layers, allow, d, t), important))
               = RmFirst(RmPlain(RmFound(others, allow, d, t), important))
<1>1. rules \in Seq(RmRules)
  BY DEF RmHold
<1>2. PICK i : /\ RmLeads(i, rules, RmPlainOf(rules, allow, d, t, important), allow, d)
               /\ RmFirst(RmPlain(RmFound(layers, allow, d, t), important)) = rules[i]
  BY RmPlainFirst
<1>3. PICK j : /\ RmLeads(j, rules, RmPlainOf(rules, allow, d, t, important), allow, d)
               /\ RmFirst(RmPlain(RmFound(others, allow, d, t), important)) = rules[j]
  BY RmPlainFirst
<1>4. i = j
  BY <1>1, <1>2, <1>3, RmOneLeads
<1> QED BY <1>2, <1>3, <1>4

LEMMA RmBestSame ==
    ASSUME NEW rules, NEW layers, NEW others, RmHold(layers, rules), RmHold(others, rules),
           NEW d, NEW t, Len(d) \in Nat, RmBest(rules, d, t) # {}
    PROVE  /\ RmFirst(RmBestFoundIn(layers, rules, d, t)) = RmFirst(RmBestFoundIn(others, rules, d, t))
           /\ RmFirst(RmBestFoundIn(layers, rules, d, t)) \in RmBest(rules, d, t)
<1>1. rules \in Seq(RmRules)
  BY DEF RmHold
<1>2. PICK i : /\ RmLeads(i, rules, RmBest(rules, d, t), FALSE, d)
               /\ RmFirst(RmFoundAmong(layers, FALSE, d, t, RmBest(rules, d, t))) = rules[i]
  BY RmBestFirst
<1>3. PICK j : /\ RmLeads(j, rules, RmBest(rules, d, t), FALSE, d)
               /\ RmFirst(RmFoundAmong(others, FALSE, d, t, RmBest(rules, d, t))) = rules[j]
  BY RmBestFirst
<1>4. i = j
  BY <1>1, <1>2, <1>3, RmOneLeads
<1>5. rules[i] \in RmBest(rules, d, t)
  BY <1>2 DEF RmLeads
<1> QED BY <1>2, <1>3, <1>4, <1>5 DEF RmBestFoundIn

(* What one compilation of all finds, layers with the same rules find too.   *)
LEMMA RmFoundToo ==
    ASSUME NEW rules \in Seq(RmRules), NEW layers, RmHold(layers, rules), NEW whole,
           whole.index = RmIndexed(rules), NEW allow, NEW d, NEW t, Len(d) \in Nat,
           NEW g \in RmFound(<<whole>>, allow, d, t)
    PROVE  \E f \in RmFound(layers, allow, d, t) : f.rule = g.rule
<1>1. RmHold(<<whole>>, rules)
  BY RmHoldOne
<1>2. PICK alone : alone = <<whole>>
  OBVIOUS
<1>3. DOMAIN alone = {1} /\ alone[1] = whole
  BY <1>2
<1>4. PICK c \in 0..Len(d), one \in DOMAIN alone :
          \E n \in DOMAIN RmEntry(alone[one].index, RmKeyAt(allow, d, c)) :
              /\ RmMatches(RmEntry(alone[one].index, RmKeyAt(allow, d, c))[n], d, t)
              /\ g = [key |-> c, layer |-> one, place |-> n,
                      rule |-> RmEntry(alone[one].index, RmKeyAt(allow, d, c))[n]]
  BY <1>2, RmFoundIs
<1>5. PICK k : k = RmKeyAt(allow, d, c)
  OBVIOUS
<1>6. PICK entry : entry = RmEntry(RmIndexed(rules), k)
  OBVIOUS
<1>7. PICK n \in DOMAIN entry : RmMatches(entry[n], d, t) /\ g.rule = entry[n]
  BY <1>3, <1>4, <1>5, <1>6
<1>8. RmEntryOf(entry, rules, k, Len(rules)) /\ Len(rules) \in Nat /\ DOMAIN rules = 1..Len(rules)
  BY <1>6, RmIndexRight DEF RmIndexOf
<1>9. PICK to : RmEntryAt(to, entry, rules, k, Len(rules))
  BY <1>8 DEF RmEntryOf
<1>10. PICK i : i = to[n]
  OBVIOUS
<1>11. i \in DOMAIN rules /\ rules[i] = entry[n] /\ RmKey(rules[i]) = k /\ i \in Nat
  BY <1>8, <1>9, <1>10 DEF RmEntryAt
<1>12. ASSUME NEW x \in DOMAIN rules, RmAlike(rules[x], rules[i]) PROVE i <= x
  <2>1. RmKey(rules[x]) = k
    BY <1>11, <1>12 DEF RmAlike
  <2>2. PICK m \in DOMAIN entry : RmAlike(entry[m], rules[x]) /\ to[m] <= x
    BY <1>8, <1>9, <2>1 DEF RmEntryAt
  <2>3. RmAlike(entry[m], entry[n])
    BY <1>11, <1>12, <2>2 DEF RmAlike
  <2>4. m = n
    BY <1>8, <2>3 DEF RmEntryOf
  <2> QED BY <1>10, <2>2, <2>4
<1>13. PICK at : RmHoldsAt(at, layers, rules, k)
  BY DEF RmHold
<1>14. PICK j \in DOMAIN layers : \E m \in DOMAIN RmEntry(layers[j].index, k) :
           RmAlike(RmEntry(layers[j].index, k)[m], rules[i]) /\ at[j][m] <= i
  BY <1>11, <1>13 DEF RmHoldsAt
<1>15. PICK m \in DOMAIN RmEntry(layers[j].index, k) :
           RmAlike(RmEntry(layers[j].index, k)[m], rules[i]) /\ at[j][m] <= i
  BY <1>14
<1>16. PICK x : x = at[j][m]
  OBVIOUS
<1>17. x \in DOMAIN rules /\ RmEntry(layers[j].index, k)[m] = rules[x] /\ x <= i /\ RmAlike(rules[x], rules[i])
  BY <1>13, <1>15, <1>16 DEF RmHoldsAt
<1>18. x = i
  <2>1. i <= x
    BY <1>12, <1>17
  <2>2. x \in Nat
    BY <1>8, <1>17
  <2> QED BY <1>11, <1>17, <2>1, <2>2
<1>19. RmEntry(layers[j].index, k)[m] = g.rule
  BY <1>7, <1>11, <1>17, <1>18
<1>20. PICK f : f = [key |-> c, layer |-> j, place |-> m, rule |-> RmEntry(layers[j].index, k)[m]]
  OBVIOUS
<1>21. f \in RmFound(layers, allow, d, t)
  BY <1>5, <1>7, <1>15, <1>19, <1>20, RmFoundIs
<1> QED BY <1>19, <1>20, <1>21


------------------------------------------------------------------------------
LEMMA RmHitBoolean ==
    ASSUME NEW found, NEW important
    PROVE  RmHit(found, important) \in BOOLEAN
BY DEF RmHit

(* Candidates and rules: of every best rule its like is among them.          *)
LEMMA RmBestFound ==
    ASSUME NEW layers, NEW rules, RmHold(layers, rules), NEW d, NEW t, NEW found,
           found = RmBestFoundIn(layers, rules, d, t)
    PROVE  /\ \A f \in found : f.rule \in RmBest(rules, d, t)
           /\ \A r \in RmBest(rules, d, t) : \E f \in found : RmAlike(f.rule, r)
<1>1. PICK no : no = FALSE
  OBVIOUS
<1>2. PICK best : best = RmBest(rules, d, t)
  OBVIOUS
<1>3. RmChosen(best, rules, no, d, t)
  <2>1. RmChosen(RmBest(rules, d, t), rules, FALSE, d, t)
    BY RmBestClosed, Zenon
  <2> QED BY <1>1, <1>2, <2>1, Zenon
<1>4. found = {f \in RmFound(layers, no, d, t) : f.rule \in best}
  BY <1>1, <1>2 DEF RmFoundAmong, RmBestFoundIn
<1>5. ASSUME NEW r \in best PROVE \E f \in found : RmAlike(f.rule, r)
  <2>1. PICK i \in RmMeant(rules, no, d, t) : r = rules[i]
    BY <1>3 DEF RmChosen
  <2>2. PICK f \in RmFound(layers, no, d, t) : RmAlike(f.rule, rules[i])
    BY RmFoundMeant
  <2>3. PICK j \in RmMeant(rules, no, d, t) : f.rule = rules[j]
    BY RmFoundMeant
  <2>4. RmAlike(r, rules[j]) /\ RmAlike(f.rule, r)
    BY <2>1, <2>2, <2>3, RmAlikeSame
  <2>5. f.rule \in best
    BY <1>3, <2>3, <2>4 DEF RmChosen
  <2> QED BY <1>4, <2>4, <2>5
<1> QED BY <1>2, <1>4, <1>5

LEMMA RmAgrees ==
    ASSUME NEW rules \in Seq(RmRules), \A i \in DOMAIN rules : RmIsRule(rules[i]),
           NEW layers, RmHold(layers, rules), NEW whole,
           whole.index = RmIndexed(rules), NEW d, NEW t, Len(d) \in Nat
    PROVE  RmSaysSame(RmBlocking(layers, d, t), RmBlocking(<<whole>>, d, t))
<1>1. PICK alone : alone = <<whole>>
  OBVIOUS
<1>2. RmHold(alone, rules)
  BY <1>1, RmHoldOne
<1>3. PICK yes : yes = TRUE
  OBVIOUS
<1>4. PICK no : no = FALSE
  OBVIOUS
<1>5. PICK b1 : b1 = RmFound(layers, no, d, t)
  OBVIOUS
<1>6. PICK a1 : a1 = RmFound(layers, yes, d, t)
  OBVIOUS
<1>7. PICK b2 : b2 = RmFound(alone, no, d, t)
  OBVIOUS
<1>8. PICK a2 : a2 = RmFound(alone, yes, d, t)
  OBVIOUS
<1>9. ASSUME NEW important
      PROVE  /\ RmHit(b1, important) = RmHit(b2, important) /\ RmHit(a1, important) = RmHit(a2, important)
             /\ RmHit(b1, important) => RmFirst(RmPlain(b1, important)) = RmFirst(RmPlain(b2, important))
  <2>1. RmHit(b1, important) <=> RmPlainOf(rules, no, d, t, important) # {}
    BY <1>5, RmPlainFound
  <2>2. RmHit(b2, important) <=> RmPlainOf(rules, no, d, t, important) # {}
    BY <1>2, <1>7, RmPlainFound
  <2>3. RmHit(a1, important) <=> RmPlainOf(rules, yes, d, t, important) # {}
    BY <1>6, RmPlainFound
  <2>4. RmHit(a2, important) <=> RmPlainOf(rules, yes, d, t, important) # {}
    BY <1>2, <1>8, RmPlainFound
  <2>5. RmPlainOf(rules, no, d, t, important) # {} =>
            RmFirst(RmPlain(b1, important)) = RmFirst(RmPlain(b2, important))
    BY <1>2, <1>5, <1>7, RmPlainSame
  <2>6. RmHit(b1, important) = RmHit(b2, important)
    BY <2>1, <2>2, RmHitBoolean
  <2>7. RmHit(a1, important) = RmHit(a2, important)
    BY <2>3, <2>4, RmHitBoolean
  <2> QED BY <2>1, <2>5, <2>6, <2>7
<1>10. ASSUME NEW important, RmHit(b1, important)
       PROVE  RmBlocked(b1, a1, important) = RmBlocked(b2, a2, important)
  <2>1. RmFirst(RmPlain(b1, important)) = RmFirst(RmPlain(b2, important))
    BY <1>9, <1>10
  <2>2. RmHit(a1, no) = RmHit(a2, no)
    BY <1>9
  <2> QED BY <1>4, <2>1, <2>2 DEF RmBlocked
<1>11. PICK r1 : r1 = RmRewrites(b1)
  OBVIOUS
<1>12. PICK r2 : r2 = RmRewrites(b2)
  OBVIOUS
<1>13. PICK best : best = RmBest(rules, d, t)
  OBVIOUS
<1>14. PICK f1 : f1 = RmBestFoundIn(layers, rules, d, t)
  OBVIOUS
<1>15. PICK f2 : f2 = RmBestFoundIn(alone, rules, d, t)
  OBVIOUS
<1>16. r1 = IF \E r \in best : RmPriority(r) < 2 THEN {RmFirst(f1)} ELSE {f.rule : f \in f1}
  <2>1. b1 = RmBlocksFound(layers, d, t)
    BY <1>4, <1>5, Zenon DEF RmBlocksFound
  <2> QED BY <1>11, <1>13, <1>14, <2>1, RmRewritesFound DEF RmRewritesIn
<1>17. r2 = IF \E r \in best : RmPriority(r) < 2 THEN {RmFirst(f2)} ELSE {f.rule : f \in f2}
  <2>1. b2 = RmBlocksFound(alone, d, t)
    BY <1>4, <1>7, Zenon DEF RmBlocksFound
  <2> QED BY <1>2, <1>12, <1>13, <1>15, <2>1, RmRewritesFound DEF RmRewritesIn
<1>18. /\ \A f \in f1 : f.rule \in best
       /\ \A r \in best : \E f \in f1 : RmAlike(f.rule, r)
  BY <1>13, <1>14, RmBestFound
<1>19. /\ \A f \in f2 : f.rule \in best
       /\ \A r \in best : \E f \in f2 : RmAlike(f.rule, r)
  BY <1>2, <1>13, <1>15, RmBestFound
<1>20. /\ RmBlocking(layers, d, t) =
               IF r1 # {} THEN RmRewritten(r1, a1)
               ELSE IF RmHit(a1, TRUE) THEN RmPass
               ELSE IF RmHit(b1, TRUE) THEN RmBlocked(b1, a1, TRUE)
               ELSE IF RmHit(a1, FALSE) THEN RmPass
               ELSE IF RmHit(b1, FALSE) THEN RmBlocked(b1, a1, FALSE)
               ELSE RmPass
       /\ RmBlocking(alone, d, t) =
               IF r2 # {} THEN RmRewritten(r2, a2)
               ELSE IF RmHit(a2, TRUE) THEN RmPass
               ELSE IF RmHit(b2, TRUE) THEN RmBlocked(b2, a2, TRUE)
               ELSE IF RmHit(a2, FALSE) THEN RmPass
               ELSE IF RmHit(b2, FALSE) THEN RmBlocked(b2, a2, FALSE)
               ELSE RmPass
  BY <1>3, <1>4, <1>5, <1>6, <1>7, <1>8, <1>11, <1>12 DEF RmBlocking
<1>21. CASE best = {}
  <2>1. r1 = {} /\ r2 = {}
    BY <1>16, <1>17, <1>18, <1>19, <1>21
  <2>2. /\ RmHit(a1, TRUE) = RmHit(a2, TRUE) /\ RmHit(b1, TRUE) = RmHit(b2, TRUE)
        /\ RmHit(a1, FALSE) = RmHit(a2, FALSE) /\ RmHit(b1, FALSE) = RmHit(b2, FALSE)
    BY <1>3, <1>4, <1>9
  <2>3. /\ RmHit(b1, TRUE) => RmBlocked(b1, a1, TRUE) = RmBlocked(b2, a2, TRUE)
        /\ RmHit(b1, FALSE) => RmBlocked(b1, a1, FALSE) = RmBlocked(b2, a2, FALSE)
    BY <1>3, <1>4, <1>10
  <2>4. RmBlocking(layers, d, t) = RmBlocking(alone, d, t)
    <3>1. CASE RmHit(a1, TRUE)
      BY <1>20, <2>1, <2>2, <3>1, Zenon
    <3>2. CASE ~RmHit(a1, TRUE) /\ RmHit(b1, TRUE)
      BY <1>20, <2>1, <2>2, <2>3, <3>2, Zenon
    <3>3. CASE ~RmHit(a1, TRUE) /\ ~RmHit(b1, TRUE) /\ RmHit(a1, FALSE)
      BY <1>20, <2>1, <2>2, <3>3, Zenon
    <3>4. CASE ~RmHit(a1, TRUE) /\ ~RmHit(b1, TRUE) /\ ~RmHit(a1, FALSE) /\ RmHit(b1, FALSE)
      BY <1>20, <2>1, <2>2, <2>3, <3>4, Zenon
    <3>5. CASE ~RmHit(a1, TRUE) /\ ~RmHit(b1, TRUE) /\ ~RmHit(a1, FALSE) /\ ~RmHit(b1, FALSE)
      BY <1>20, <2>1, <2>2, <3>5, Zenon
    <3> QED BY <3>1, <3>2, <3>3, <3>4, <3>5
  <2> QED BY <1>1, <2>4 DEF RmSaysSame
<1>22. CASE best # {} /\ \E r \in best : RmPriority(r) < 2
  <2>1. RmFirst(f1) = RmFirst(f2)
    BY <1>2, <1>13, <1>14, <1>15, <1>22, RmBestSame
  <2>2. r1 = r2 /\ r1 # {}
    BY <1>16, <1>17, <1>22, <2>1
  <2>3. RmHit(a1, FALSE) = RmHit(a2, FALSE)
    BY <1>4, <1>9
  <2>4. RmRewritten(r1, a1) = RmRewritten(r2, a2)
    BY <2>2, <2>3 DEF RmRewritten
  <2> QED BY <1>1, <1>20, <2>2, <2>4 DEF RmSaysSame
<1>23. CASE best # {} /\ ~\E r \in best : RmPriority(r) < 2
  <2>1. r1 = {f.rule : f \in f1} /\ r2 = {f.rule : f \in f2}
    BY <1>16, <1>17, <1>23
  <2>2. r1 # {} /\ r2 # {} /\ r1 \subseteq best /\ r2 \subseteq best
    BY <1>18, <1>19, <1>23, <2>1
  <2>3. \A r \in best : /\ \E s \in r1 : s.rewrite = r.rewrite /\ s.important = r.important
                        /\ \E s \in r2 : s.rewrite = r.rewrite /\ s.important = r.important
    BY <1>18, <1>19, <2>1, RmAlikeSame
  <2>4. {r.rewrite : r \in r1} = {r.rewrite : r \in r2}
    <3>1. \A r \in r1 : \E s \in r2 : s.rewrite = r.rewrite
      BY <2>2, <2>3
    <3>2. \A r \in r2 : \E s \in r1 : s.rewrite = r.rewrite
      BY <2>2, <2>3
    <3> QED BY <3>1, <3>2
  <2>5. (\E r \in r1 : r.important) <=> (\E r \in r2 : r.important)
    BY <2>2, <2>3
  <2>6. r2 \subseteq r1
    <3>1. ASSUME NEW g \in f2 PROVE g.rule \in r1
      <4>1. g \in RmFound(alone, no, d, t) /\ g.rule \in best
        BY <1>4, <1>13, <1>15 DEF RmFoundAmong, RmBestFoundIn
      <4>2. PICK f \in RmFound(layers, no, d, t) : f.rule = g.rule
        BY <1>1, <4>1, RmFoundToo
      <4>3. f \in f1
        BY <1>4, <1>13, <1>14, <4>1, <4>2 DEF RmFoundAmong, RmBestFoundIn
      <4> QED BY <2>1, <4>2, <4>3
    <3> QED BY <2>1, <3>1
  <2>7. {r.line : r \in r2} \subseteq {r.line : r \in r1}
    BY <2>6
  <2>8. \A r \in best : r.rewrite.kind = "record"
    <3>1. SUFFICES ASSUME NEW r \in best PROVE r.rewrite.kind = "record"
      OBVIOUS
    <3>2. r.rewrite.kind \notin {"rcode", "cname"}
      BY <1>23, RmPriorities
    <3>3. r \in RmMeantRules(rules, FALSE, d, t) /\ r.rewrite.kind # "none"
      BY <1>13 DEF RmBest, RmStrongest, RmRewriting
    <3>4. RmIsRule(r)
      BY <3>3 DEF RmMeantRules, RmMeant
    <3> QED BY <3>2, <3>3, <3>4 DEF RmIsRule
  <2>9. \A a \in {r.rewrite : r \in r1} : a.kind = "record"
    BY <2>2, <2>8
  <2>10. RmHit(a1, FALSE) = RmHit(a2, FALSE)
    BY <1>4, <1>9
  <2>11. PICK x : x = RmRewritten(r1, a1)
    OBVIOUS
  <2>12. PICK y : y = RmRewritten(r2, a2)
    OBVIOUS
  <2>13. /\ x.verdict = "rewrite" /\ x.rule = {r.line : r \in r1} /\ x.actions = {r.rewrite : r \in r1}
         /\ x.overrode = ((\E r \in r1 : r.important) /\ RmHit(a1, FALSE))
    BY <2>11 DEF RmRewritten
  <2>14. /\ y.verdict = "rewrite" /\ y.rule = {r.line : r \in r2} /\ y.actions = {r.rewrite : r \in r2}
         /\ y.overrode = ((\E r \in r2 : r.important) /\ RmHit(a2, FALSE))
    BY <2>12 DEF RmRewritten
  <2>15. x.overrode = y.overrode
    BY <2>5, <2>10, <2>13, <2>14
  <2>16. RmSaysSame(x, y)
    BY <2>4, <2>7, <2>9, <2>13, <2>14, <2>15 DEF RmSaysSame
  <2> QED BY <1>1, <1>20, <2>2, <2>11, <2>12, <2>16
<1> QED BY <1>21, <1>22, <1>23

------------------------------------------------------------------------------
(* A name is below another when it ends with it. *)
LEMMA RmSuffixes ==
    ASSUME NEW b, NEW d, RmIsName(b), RmIsName(d)
    PROVE  RmWithin(d, b) <=> \E c \in 1..Len(d) : b = SubSeq(d, c, Len(d))
<1>1. PICK S : b \in Seq(S) /\ d \in Seq(S)
  <2>1. b \in Seq(Range(b) \cup Range(d)) /\ d \in Seq(Range(b) \cup Range(d))
    BY DEF RmIsName
  <2> QED BY <2>1
<1>2. PICK n, m \in Nat : n = Len(b) /\ m = Len(d)
  BY <1>1
<1>3. /\ b = [i \in 1..n |-> b[i]] /\ b \in [1..n -> S] /\ n # 0
      /\ d = [i \in 1..m |-> d[i]] /\ d \in [1..m -> S] /\ m # 0
  BY <1>1, <1>2, EmptySeq, LenProperties DEF RmIsName
<1>4. PICK rb, rd : rb = Reverse(b) /\ rd = Reverse(d)
  OBVIOUS
<1>5. /\ rb = [i \in 1..n |-> b[(n - i) + 1]] /\ rd = [i \in 1..m |-> d[(m - i) + 1]]
  BY <1>2, <1>4 DEF Reverse
<1>6. rb \in Seq(S) /\ Len(rb) = n /\ rd \in Seq(S) /\ Len(rd) = m
  <2>1. \A i \in 1..n : (n - i) + 1 \in 1..n
    BY <1>2
  <2>2. \A i \in 1..m : (m - i) + 1 \in 1..m
    BY <1>2
  <2>3. rb \in [1..n -> S] /\ rd \in [1..m -> S]
    BY <1>3, <1>5, <2>1, <2>2
  <2> QED BY <1>2, <2>3
<1>7. n <= m => /\ SubSeq(rb, 1, n) = [i \in 1..n |-> rb[i]]
                /\ SubSeq(rd, 1, n) = [i \in 1..n |-> rd[i]]
  BY <1>2, <1>6
<1>8. RmWithin(d, b) <=> n <= m /\ \A i \in 1..n : rb[i] = rd[i]
  BY <1>2, <1>4, <1>6, <1>7 DEF RmWithin, IsSuffix, IsPrefix
<1>9. ASSUME n <= m, \A i \in 1..n : rb[i] = rd[i]
      PROVE  \E c \in 1..m : b = SubSeq(d, c, m)
  <2>1. PICK c : c = (m - n) + 1
    OBVIOUS
  <2>2. c \in 1..m /\ (m - c) + 1 = n
    BY <1>2, <1>3, <1>9, <2>1
  <2>3. \A i \in 1..n : b[i] = d[(i + c) - 1]
    <3>1. SUFFICES ASSUME NEW i \in 1..n PROVE b[i] = d[(i + c) - 1]
      OBVIOUS
    <3>2. PICK j : j = (n - i) + 1
      OBVIOUS
    <3>3. j \in 1..n /\ j \in 1..m /\ (n - j) + 1 = i /\ (m - j) + 1 = (i + c) - 1
      BY <1>2, <1>9, <2>1, <3>2
    <3>4. rb[j] = b[(n - j) + 1] /\ rd[j] = d[(m - j) + 1]
      BY <1>5, <3>3
    <3> QED BY <1>9, <3>3, <3>4
  <2>4. SubSeq(d, c, m) = [i \in 1..n |-> d[(i + c) - 1]]
    BY <1>1, <1>2, <2>2
  <2>5. b = SubSeq(d, c, m)
    BY <1>3, <2>3, <2>4
  <2> QED BY <2>2, <2>5
<1>10. ASSUME NEW c \in 1..m, b = SubSeq(d, c, m)
       PROVE  n <= m /\ \A i \in 1..n : rb[i] = rd[i]
  <2>1. n = (m - c) + 1
    BY <1>1, <1>2, <1>10
  <2>2. n <= m
    BY <1>2, <2>1
  <2>3. \A i \in 1..n : b[i] = d[(i + c) - 1]
    BY <1>1, <1>2, <1>10, <2>1
  <2>4. ASSUME NEW i \in 1..n PROVE rb[i] = rd[i]
    <3>1. PICK j : j = (n - i) + 1
      OBVIOUS
    <3>2. j \in 1..n /\ i \in 1..m /\ (j + c) - 1 = (m - i) + 1
      BY <1>2, <2>1, <3>1
    <3>3. rb[i] = b[j] /\ rd[i] = d[(m - i) + 1]
      BY <1>5, <3>1, <3>2
    <3> QED BY <2>3, <3>2, <3>3
  <2> QED BY <2>2, <2>4
<1> QED BY <1>2, <1>8, <1>9, <1>10

(* The rules under the keys of a name are those that cover it.               *)
RmCoversName(r, d) == IF r.sub THEN RmWithin(d, r.name) ELSE d = r.name
LEMMA RmMeantIs ==
    ASSUME NEW rules, \A i \in DOMAIN rules : RmIsRule(rules[i]), NEW allow, NEW d, RmIsName(d), NEW t,
           NEW r
    PROVE  r \in RmMeantRules(rules, allow, d, t) <=>
               r \in Range(rules) /\ r.allow = allow /\ RmCoversName(r, d) /\ RmMatches(r, d, t)
<1>1. PICK m \in Nat : m = Len(d)
  BY DEF RmIsName
<1>2. ASSUME NEW s, RmIsRule(s)
      PROVE  (\E c \in 0..m : RmKey(s) = RmKeyAt(allow, d, c)) <=> s.allow = allow /\ RmCoversName(s, d)
  <2>1. s.sub \in BOOLEAN /\ RmIsName(s.name)
    BY <1>2 DEF RmIsRule
  <2>2. RmKey(s) = RmKeyAt(allow, d, 0) <=> s.allow = allow /\ d = s.name /\ s.sub = FALSE
    BY DEF RmKey, RmKeyAt
  <2>3. \A c \in 1..m : RmKey(s) = RmKeyAt(allow, d, c) <=>
            s.allow = allow /\ s.name = SubSeq(d, c, m) /\ s.sub = TRUE
    <3>1. SUFFICES ASSUME NEW c \in 1..m
                   PROVE  RmKey(s) = RmKeyAt(allow, d, c) <=>
                              s.allow = allow /\ s.name = SubSeq(d, c, m) /\ s.sub = TRUE
      OBVIOUS
    <3>2. c # 0
      BY <1>1
    <3>3. RmKeyAt(allow, d, c) = <<allow, SubSeq(d, c, m), TRUE>>
      BY <1>1, <3>2 DEF RmKeyAt
    <3>4. PICK x, y, z, k : x = s.allow /\ y = s.name /\ z = s.sub /\ k = SubSeq(d, c, m)
      OBVIOUS
    <3>5. RmKey(s) = <<x, y, z>>
      BY <3>4 DEF RmKey
    <3>6. PICK yes : yes = TRUE
      OBVIOUS
    <3>7. RmKeyAt(allow, d, c) = <<allow, k, yes>>
      BY <3>3, <3>4, <3>6
    <3>8. <<x, y, z>> = <<allow, k, yes>> <=> x = allow /\ y = k /\ z = yes
      OBVIOUS
    <3> QED BY <3>4, <3>5, <3>6, <3>7, <3>8, Zenon
  <2>4. RmWithin(d, s.name) <=> \E c \in 1..m : s.name = SubSeq(d, c, m)
    BY <1>1, <2>1, RmSuffixes
  <2>5. 0..m = {0} \cup 1..m
    BY <1>1
  <2>6. CASE s.sub = TRUE
    BY <2>2, <2>3, <2>4, <2>5, <2>6 DEF RmCoversName
  <2>7. CASE s.sub = FALSE
    BY <2>2, <2>3, <2>5, <2>7 DEF RmCoversName
  <2> QED BY <2>1, <2>6, <2>7
<1>3. r \in RmMeantRules(rules, allow, d, t) <=>
          \E i \in DOMAIN rules : /\ r = rules[i] /\ RmMatches(r, d, t)
                                  /\ \E c \in 0..m : RmKey(r) = RmKeyAt(allow, d, c)
  BY <1>1 DEF RmMeantRules, RmMeant, RmMeantAt
<1>4. r \in Range(rules) <=> \E i \in DOMAIN rules : r = rules[i]
  BY DEF Range
<1>5. r \in Range(rules) => RmIsRule(r)
  BY <1>4
<1> QED BY <1>2, <1>3, <1>4, <1>5

(* What the search answers, by the rules that apply. *)
RmActionsOf(some) == {r.rewrite : r \in some}
RmHasPlain(rules, d, t, allow, important) == RmPlainOf(rules, allow, d, t, important) # {}
RmDecided(rules, d, t) ==
    IF /\ ~RmHasPlain(rules, d, t, TRUE, TRUE)
       /\ \/ RmHasPlain(rules, d, t, FALSE, TRUE)
          \/ RmHasPlain(rules, d, t, FALSE, FALSE) /\ ~RmHasPlain(rules, d, t, TRUE, FALSE)
    THEN "block" ELSE "pass"
LEMMA RmVerdicts ==
    ASSUME NEW layers, NEW rules, RmHold(layers, rules), NEW d, NEW t, Len(d) \in Nat
    PROVE  /\ RmBest(rules, d, t) # {} =>
                  /\ RmBlocking(layers, d, t).verdict = "rewrite"
                  /\ RmBlocking(layers, d, t).actions = RmActionsOf(RmRewritesIn(layers, rules, d, t))
           /\ RmBest(rules, d, t) = {} => RmBlocking(layers, d, t).verdict = RmDecided(rules, d, t)
<1>1. PICK yes : yes = TRUE
  OBVIOUS
<1>2. PICK no : no = FALSE
  OBVIOUS
<1>3. PICK b : b = RmFound(layers, no, d, t)
  OBVIOUS
<1>4. PICK a : a = RmFound(layers, yes, d, t)
  OBVIOUS
<1>5. PICK rw : rw = RmRewritesIn(layers, rules, d, t)
  OBVIOUS
<1>6. rw = RmRewrites(b)
  <2>1. b = RmBlocksFound(layers, d, t)
    BY <1>2, <1>3, Zenon DEF RmBlocksFound
  <2> QED BY <1>5, <2>1, RmRewritesFound
<1>7. RmBlocking(layers, d, t) =
          IF rw # {} THEN RmRewritten(rw, a)
          ELSE IF RmHit(a, TRUE) THEN RmPass
          ELSE IF RmHit(b, TRUE) THEN RmBlocked(b, a, TRUE)
          ELSE IF RmHit(a, FALSE) THEN RmPass
          ELSE IF RmHit(b, FALSE) THEN RmBlocked(b, a, FALSE)
          ELSE RmPass
  BY <1>1, <1>2, <1>3, <1>4, <1>6 DEF RmBlocking
<1>8. rw # {} <=> RmBest(rules, d, t) # {}
  <2>1. PICK found : found = RmBestFoundIn(layers, rules, d, t)
    OBVIOUS
  <2>2. /\ \A f \in found : f.rule \in RmBest(rules, d, t)
        /\ \A r \in RmBest(rules, d, t) : \E f \in found : RmAlike(f.rule, r)
    BY <2>1, RmBestFound
  <2> QED BY <1>5, <2>1, <2>2 DEF RmRewritesIn
<1>9. \A important : /\ RmHit(b, important) <=> RmHasPlain(rules, d, t, no, important)
                     /\ RmHit(a, important) <=> RmHasPlain(rules, d, t, yes, important)
  BY <1>3, <1>4, RmPlainFound DEF RmHasPlain
<1>10. /\ RmHit(b, TRUE) <=> RmHasPlain(rules, d, t, FALSE, TRUE)
       /\ RmHit(b, FALSE) <=> RmHasPlain(rules, d, t, FALSE, FALSE)
       /\ RmHit(a, TRUE) <=> RmHasPlain(rules, d, t, TRUE, TRUE)
       /\ RmHit(a, FALSE) <=> RmHasPlain(rules, d, t, TRUE, FALSE)
  BY <1>1, <1>2, <1>9, Zenon
<1>11. PICK x : x = RmRewritten(rw, a)
  OBVIOUS
<1>12. x.verdict = "rewrite" /\ x.actions = RmActionsOf(rw)
  BY <1>11 DEF RmRewritten, RmActionsOf
<1>13. /\ RmPass.verdict = "pass"
       /\ RmBlocked(b, a, TRUE).verdict = "block" /\ RmBlocked(b, a, FALSE).verdict = "block"
  BY DEF RmPass, RmBlocked
<1>14. CASE RmBest(rules, d, t) # {}
  BY <1>5, <1>7, <1>8, <1>11, <1>12, <1>14
<1>15. CASE RmBest(rules, d, t) = {}
  <2>1. RmBlocking(layers, d, t) =
          IF RmHit(a, TRUE) THEN RmPass
          ELSE IF RmHit(b, TRUE) THEN RmBlocked(b, a, TRUE)
          ELSE IF RmHit(a, FALSE) THEN RmPass
          ELSE IF RmHit(b, FALSE) THEN RmBlocked(b, a, FALSE)
          ELSE RmPass
    BY <1>7, <1>8, <1>15
  <2>2. RmBlocking(layers, d, t).verdict = RmDecided(rules, d, t)
    BY <1>10, <1>13, <2>1, Zenon DEF RmDecided
  <2> QED BY <1>15, <2>2
<1> QED BY <1>14, <1>15

(* The search answers what the rules mean. *)
LEMMA RmMeans ==
    ASSUME NEW rules \in Seq(RmRules), \A i \in DOMAIN rules : RmIsRule(rules[i]), Range(rules) = RmActive,
           NEW whole, whole.index = RmIndexed(rules), NEW d, RmIsName(d), NEW t
    PROVE  /\ RmBlocking(<<whole>>, d, t).verdict = RmMeaning(d, t).verdict
           /\ RmBlocking(<<whole>>, d, t).verdict = "rewrite" =>
                  /\ RmBlocking(<<whole>>, d, t).actions \subseteq RmMeaning(d, t).actions
                  /\ \/ RmBlocking(<<whole>>, d, t).actions = RmMeaning(d, t).actions
                     \/ \A a \in RmBlocking(<<whole>>, d, t).actions : a.kind # "record"
<1>1. PICK layers : layers = <<whole>>
  OBVIOUS
<1>2. RmHold(layers, rules) /\ Len(d) \in Nat
  BY <1>1, RmHoldOne DEF RmIsName
<1>3. ASSUME NEW allow, NEW r
      PROVE  r \in RmMeantRules(rules, allow, d, t) <=> r \in RmApplying(d, t) /\ r.allow = allow
  BY RmMeantIs DEF RmApplying, RmCoversName
<1> DEFINE all == RmApplying(d, t)
           rewriting == {r \in all : r.rewrite.kind # "none" /\ ~r.allow}
           strongest == IF \E r \in rewriting : r.important THEN {r \in rewriting : r.important} ELSE rewriting
           best == {x \in strongest : \A y \in strongest : RmPriority(x) <= RmPriority(y)}
           plain(allow, important) == \E r \in all : /\ r.allow = allow /\ r.important = important
                                                     /\ r.rewrite.kind = "none"
<1>4. \A r \in all : r.allow \in BOOLEAN /\ r.important \in BOOLEAN
  <2>1. SUFFICES ASSUME NEW r \in all PROVE r.allow \in BOOLEAN /\ r.important \in BOOLEAN
    OBVIOUS
  <2>2. r \in Range(rules)
    BY DEF RmApplying
  <2>3. PICK i \in DOMAIN rules : r = rules[i]
    BY <2>2 DEF Range
  <2> QED BY <2>3 DEF RmIsRule
<1>5. rewriting = RmRewriting(rules, d, t)
  BY <1>3, <1>4 DEF RmRewriting
<1> HIDE DEF rewriting
<1>6. strongest = RmStrongest(rules, d, t)
  BY <1>5 DEF RmStrongest
<1> HIDE DEF strongest
<1>7. best = RmBest(rules, d, t)
  BY <1>6 DEF RmBest
<1>8. \A allow, important : plain(allow, important) <=> RmHasPlain(rules, d, t, allow, important)
  BY <1>3 DEF RmHasPlain, RmPlainOf
<1>9. RmMeaning(d, t) =
          IF rewriting # {} THEN [verdict |-> "rewrite", actions |-> RmActionsOf(best)]
          ELSE IF ~plain(TRUE, TRUE) /\ (plain(FALSE, TRUE) \/ (plain(FALSE, FALSE) /\ ~plain(TRUE, FALSE)))
          THEN [verdict |-> "block"]
          ELSE [verdict |-> "pass"]
  BY DEF RmMeaning, RmActionsOf, rewriting, strongest
<1> HIDE DEF best, plain
<1>10. best # {} <=> rewriting # {}
  BY <1>5, <1>7, RmBestExists
<1>11. CASE best # {}
  <2>1. PICK x : x = RmBlocking(layers, d, t)
    OBVIOUS
  <2>2. PICK y : y = RmMeaning(d, t)
    OBVIOUS
  <2>3. x.verdict = "rewrite" /\ x.actions = RmActionsOf(RmRewritesIn(layers, rules, d, t))
    BY <1>2, <1>7, <1>11, <2>1, RmVerdicts
  <2>4. y.verdict = "rewrite" /\ y.actions = RmActionsOf(best)
    BY <1>9, <1>10, <1>11, <2>2
  <2>5. /\ x.actions \subseteq y.actions
        /\ x.actions = y.actions \/ \A a \in x.actions : a.kind # "record"
    <3>1. PICK found : found = RmBestFoundIn(layers, rules, d, t)
      OBVIOUS
    <3>2. /\ \A f \in found : f.rule \in best
          /\ \A r \in best : \E f \in found : RmAlike(f.rule, r)
      BY <1>2, <1>7, <3>1, RmBestFound
    <3>3. CASE \E r \in best : RmPriority(r) < 2
      <4>1. PICK lead : lead = RmFirst(found)
        OBVIOUS
      <4>2. lead \in best
        BY <1>2, <1>7, <1>11, <3>1, <4>1, RmBestSame
      <4>3. x.actions = {lead.rewrite}
        BY <1>7, <2>3, <3>1, <3>3, <4>1 DEF RmRewritesIn, RmActionsOf
      <4>4. RmPriority(lead) < 2
        <5>1. PICK r \in best : RmPriority(r) < 2
          BY <3>3
        <5>2. RmPriority(lead) <= RmPriority(r)
          BY <4>2 DEF best
        <5> QED BY <5>1, <5>2, RmPriorities
      <4>5. lead.rewrite.kind # "record"
        BY <4>4, RmPriorities
      <4> QED BY <2>4, <4>2, <4>3, <4>5 DEF RmActionsOf
    <3>4. CASE ~\E r \in best : RmPriority(r) < 2
      <4>1. x.actions = {s.rewrite : s \in {f.rule : f \in found}}
        BY <1>7, <2>3, <3>1, <3>4 DEF RmRewritesIn, RmActionsOf
      <4>2. \A r \in best : \E f \in found : f.rule.rewrite = r.rewrite
        BY <3>2, RmAlikeSame
      <4>3. x.actions = RmActionsOf(best)
        <5>1. \A a : a \in x.actions <=> \E f \in found : a = f.rule.rewrite
          BY <4>1
        <5>2. \A a : a \in RmActionsOf(best) <=> \E r \in best : a = r.rewrite
          BY DEF RmActionsOf
        <5>3. \A a : a \in x.actions <=> a \in RmActionsOf(best)
          BY <3>2, <4>2, <5>1, <5>2
        <5> QED BY <4>1, <5>3 DEF RmActionsOf
      <4> QED BY <2>4, <4>3
    <3> QED BY <3>3, <3>4
  <2> QED BY <1>1, <2>1, <2>2, <2>3, <2>4, <2>5
<1>12. CASE best = {}
  <2>1. RmBlocking(layers, d, t).verdict = RmDecided(rules, d, t)
    <3>1. RmBest(rules, d, t) = {}
      BY <1>7, <1>12
    <3>2. RmBest(rules, d, t) = {} => RmBlocking(layers, d, t).verdict = RmDecided(rules, d, t)
      BY <1>2, RmVerdicts
    <3> QED BY <3>1, <3>2
  <2>2. RmMeaning(d, t) =
          IF ~plain(TRUE, TRUE) /\ (plain(FALSE, TRUE) \/ (plain(FALSE, FALSE) /\ ~plain(TRUE, FALSE)))
          THEN [verdict |-> "block"]
          ELSE [verdict |-> "pass"]
    BY <1>9, <1>10, <1>12
  <2>3. RmMeaning(d, t).verdict = RmDecided(rules, d, t)
    <3>1. /\ plain(TRUE, TRUE) <=> RmHasPlain(rules, d, t, TRUE, TRUE)
          /\ plain(FALSE, TRUE) <=> RmHasPlain(rules, d, t, FALSE, TRUE)
          /\ plain(FALSE, FALSE) <=> RmHasPlain(rules, d, t, FALSE, FALSE)
          /\ plain(TRUE, FALSE) <=> RmHasPlain(rules, d, t, TRUE, FALSE)
      BY <1>8, Zenon
    <3>2. [verdict |-> "block"].verdict = "block" /\ [verdict |-> "pass"].verdict = "pass"
      OBVIOUS
    <3> QED BY <2>2, <3>1, <3>2, Zenon DEF RmDecided
  <2>4. RmDecided(rules, d, t) # "rewrite"
    BY DEF RmDecided
  <2> QED BY <1>1, <2>1, <2>3, <2>4
<1> QED BY <1>11, <1>12

------------------------------------------------------------------------------
(* An entry holds no meaning twice. *)
RmEntryTyped(entry, k) ==
    /\ entry # <<>>
    /\ \A i, j \in DOMAIN entry :
           /\ RmKey(entry[i]) = k
           /\ i # j => [entry[i] EXCEPT !.line = {}] # [entry[j] EXCEPT !.line = {}]
LEMMA RmIndexTyped ==
    ASSUME NEW rules \in Seq(RmRules), \A i \in DOMAIN rules : RmIsRule(rules[i]),
           NEW index, index = RmIndexed(rules), NEW k \in DOMAIN index
    PROVE  RmEntryTyped(index[k], k)
<1>1. RmIndexOf(index, rules, Len(rules)) /\ DOMAIN rules = 1..Len(rules) /\ Len(rules) \in Nat
  BY RmIndexRight
<1>2. PICK entry : entry = index[k]
  OBVIOUS
<1>3. entry # <<>> /\ RmEntryOf(entry, rules, k, Len(rules))
  BY <1>1, <1>2 DEF RmIndexOf, RmEntry
<1>4. PICK at : RmEntryAt(at, entry, rules, k, Len(rules))
  BY <1>3 DEF RmEntryOf
<1>5. \A i \in DOMAIN entry : RmKey(entry[i]) = k /\ RmIsRule(entry[i])
  BY <1>1, <1>4 DEF RmEntryAt
<1>6. ASSUME NEW i \in DOMAIN entry, NEW j \in DOMAIN entry, i # j,
             [entry[i] EXCEPT !.line = {}] = [entry[j] EXCEPT !.line = {}]
      PROVE  FALSE
  <2>1. PICK r, s : r = entry[i] /\ s = entry[j]
    OBVIOUS
  <2>2. ~RmAlike(r, s)
    BY <1>3, <1>6, <2>1 DEF RmEntryOf
  <2>3. RmKey(r) = RmKey(s) /\ RmIsRule(r) /\ RmIsRule(s)
    BY <1>5, <2>1
  <2>4. PICK x, y : x = [r EXCEPT !.line = {}] /\ y = [s EXCEPT !.line = {}]
    OBVIOUS
  <2>5. x = y
    BY <1>6, <2>1, <2>4
  <2>6. {"important", "types", "deny", "rewrite"} \subseteq DOMAIN r
    BY <2>3 DEF RmIsRule
  <2>7. {"important", "types", "deny", "rewrite"} \subseteq DOMAIN s
    BY <2>3 DEF RmIsRule
  <2>8. x.important = r.important /\ x.types = r.types /\ x.deny = r.deny /\ x.rewrite = r.rewrite
    BY <2>4, <2>6
  <2>9. y.important = s.important /\ y.types = s.types /\ y.deny = s.deny /\ y.rewrite = s.rewrite
    BY <2>4, <2>7
  <2> QED BY <2>2, <2>3, <2>5, <2>8, <2>9 DEF RmAlike
<1> QED BY <1>2, <1>3, <1>5, <1>6 DEF RmEntryTyped

(* Counts of a concatenation. *)
LEMMA RmCountOfBoth ==
    ASSUME NEW S, NEW p \in Seq(S), NEW q \in Seq(S), NEW allow
    PROVE  RmCount(p \o q, allow) = RmCount(p, allow) + RmCount(q, allow)
<1>1. PICK pq : pq = p \o q
  OBVIOUS
<1>2. PICK n, m \in Nat : n = Len(p) /\ m = Len(q)
  OBVIOUS
<1>3. /\ DOMAIN p = 1..n /\ DOMAIN q = 1..m /\ DOMAIN pq = 1..(n + m)
      /\ \A i \in 1..n : pq[i] = p[i]
      /\ \A i \in 1..m : pq[n + i] = q[i]
  BY <1>1, <1>2, ConcatProperties
<1>4. PICK A : A = {i \in 1..n : p[i].allow = allow}
  OBVIOUS
<1>5. PICK B : B = {i \in 1..m : q[i].allow = allow}
  OBVIOUS
<1>6. PICK C : C = {i \in (n + 1)..(n + m) : pq[i].allow = allow}
  OBVIOUS
<1>7. IsFiniteSet(A) /\ IsFiniteSet(B)
  <2>1. IsFiniteSet(1..n) /\ IsFiniteSet(1..m)
    BY FS_Interval
  <2>2. A \in SUBSET (1..n) /\ B \in SUBSET (1..m)
    BY <1>4, <1>5
  <2> QED BY <2>1, <2>2, FS_Subset
<1>8. IsFiniteSet(C) /\ Cardinality(C) = Cardinality(B)
  <2>1. PICK f : f = [i \in B |-> n + i]
    OBVIOUS
  <2>2. \A i \in B : f[i] \in C
    <3>1. SUFFICES ASSUME NEW i \in B PROVE n + i \in C
      BY <2>1
    <3>2. i \in 1..m /\ q[i].allow = allow
      BY <1>5
    <3>3. pq[n + i].allow = allow
      BY <1>3, <3>2
    <3>4. n + i \in (n + 1)..(n + m)
      BY <3>2
    <3> QED BY <1>6, <3>3, <3>4
  <2>3. f \in [B -> C]
    BY <2>1, <2>2
  <2>4. \A i, j \in B : f[i] = f[j] => i = j
    <3>1. B \subseteq Int
      BY <1>5
    <3> QED BY <2>1, <3>1
  <2>5. \A x \in C : \E i \in B : f[i] = x
    <3>1. SUFFICES ASSUME NEW x \in C PROVE \E i \in B : f[i] = x
      OBVIOUS
    <3>2. x \in (n + 1)..(n + m) /\ pq[x].allow = allow
      BY <1>6
    <3>3. PICK i : i = x - n
      OBVIOUS
    <3>4. i \in 1..m /\ n + i = x
      BY <3>2, <3>3
    <3>5. q[i].allow = allow
      BY <1>3, <3>2, <3>4
    <3>6. i \in B
      BY <1>5, <3>4, <3>5
    <3> QED BY <2>1, <3>4, <3>6
  <2>6. f \in Bijection(B, C)
    BY <2>3, <2>4, <2>5 DEF Bijection, Injection, Surjection, IsInjective
  <2> QED BY <1>7, <2>6, FS_Bijection DEF ExistsBijection
<1>9. RmCount(pq, allow) = Cardinality(A \cup C)
  <2>1. \A i \in 1..n : pq[i].allow = p[i].allow
    BY <1>3
  <2>2. \A i \in 1..(n + m) : i \in 1..n \/ i \in (n + 1)..(n + m)
    OBVIOUS
  <2>3. 1..n \subseteq 1..(n + m) /\ (n + 1)..(n + m) \subseteq 1..(n + m)
    OBVIOUS
  <2>4. {i \in 1..(n + m) : pq[i].allow = allow} = A \cup C
    BY <1>4, <1>6, <2>1, <2>2, <2>3
  <2> QED BY <1>3, <2>4 DEF RmCount
<1>10. A \cap C = {}
  BY <1>4, <1>6
<1>11. Cardinality(A \cup C) = Cardinality(A) + Cardinality(C)
  <2>1. Cardinality(A \cup C) = Cardinality(A) + Cardinality(C) - Cardinality({})
    BY <1>7, <1>8, <1>10, FS_Union
  <2>2. Cardinality(A) \in Nat /\ Cardinality(C) \in Nat
    BY <1>7, <1>8, FS_CardinalityType
  <2> QED BY <2>1, <2>2, FS_EmptySet
<1>12. RmCount(p, allow) = Cardinality(A) /\ RmCount(q, allow) = Cardinality(B)
  BY <1>3, <1>4, <1>5 DEF RmCount
<1> QED BY <1>1, <1>8, <1>9, <1>11, <1>12

------------------------------------------------------------------------------
(* Lines together give the targets of both. *)
LEMMA RmTargetsOfBoth ==
    ASSUME NEW a \in Seq(RmLines), NEW b \in Seq(RmLines)
    PROVE  /\ a \o b \in Seq(RmLines)
           /\ Range(a \o b) = Range(a) \cup Range(b)
           /\ RmTargets(a \o b) = RmTargets(a) \cup RmTargets(b)
           /\ ~RmHasBadfilter(b) => RmTargets(b) = {}
<1>1. PICK ab : ab = a \o b
  OBVIOUS
<1>2. PICK n, m \in Nat : n = Len(a) /\ m = Len(b)
  OBVIOUS
<1>3. /\ ab \in Seq(RmLines)
      /\ DOMAIN a = 1..n /\ DOMAIN b = 1..m /\ DOMAIN ab = 1..(n + m)
      /\ \A i \in 1..n : ab[i] = a[i]
      /\ \A i \in 1..m : ab[n + i] = b[i]
  BY <1>1, <1>2, ConcatProperties
<1>4. Range(ab) = Range(a) \cup Range(b)
  <2>1. \A i \in 1..(n + m) : i \in 1..n \/ (i - n \in 1..m /\ n + (i - n) = i)
    OBVIOUS
  <2>2. \A i \in 1..n : i \in 1..(n + m)
    OBVIOUS
  <2>3. \A i \in 1..m : n + i \in 1..(n + m)
    OBVIOUS
  <2>4. \A i \in 1..(n + m) : ab[i] \in Range(a) \cup Range(b)
    BY <1>3, <2>1 DEF Range
  <2>5. \A i \in 1..n : a[i] \in Range(ab)
    BY <1>3, <2>2 DEF Range
  <2>6. \A i \in 1..m : b[i] \in Range(ab)
    BY <1>3, <2>3 DEF Range
  <2> QED BY <1>3, <2>4, <2>5, <2>6 DEF Range
<1>5. RmTargets(ab) = RmTargets(a) \cup RmTargets(b)
  BY <1>4 DEF RmTargets
<1>6. ~RmHasBadfilter(b) => RmTargets(b) = {}
  BY DEF RmHasBadfilter, RmTargets, Range
<1> QED BY <1>1, <1>3, <1>4, <1>5, <1>6

(* What a scan finds are rules. *)
LEMMA RmScanRules ==
    ASSUME NEW lines \in Seq(RmLines), NEW disabled
    PROVE  /\ RmScan(lines, disabled) \in Seq(RmRules)
           /\ \A i \in DOMAIN RmScan(lines, disabled) : RmIsRule(RmScan(lines, disabled)[i])
<1>1. PICK rules : rules = RmScan(lines, disabled)
  OBVIOUS
<1>2. rules \in Seq(RmRules)
  BY <1>1, RmScanFinds
<1>3. ASSUME NEW i \in DOMAIN rules PROVE RmIsRule(rules[i])
  <2>1. rules[i] \in RmRules
    BY <1>2
  <2>2. PICK l \in RmLines : rules[i] \in Range(RmRulesOf(l))
    BY <2>1 DEF RmRules
  <2>3. PICK j \in DOMAIN RmRulesOf(l) : rules[i] = RmRulesOf(l)[j]
    BY <2>2 DEF Range
  <2> QED BY <2>3, RmRulesAre
<1> QED BY <1>1, <1>2, <1>3

(* One compilation of all lines holds what they mean together.               *)
RmAllRules == RmScan(rmLists \o rmCustom, RmTargets(rmLists \o rmCustom))
LEMMA RmWholeIs ==
    ASSUME rmLists \in Seq(RmLines), rmCustom \in Seq(RmLines)
    PROVE  /\ RmAllRules \in Seq(RmRules) /\ \A i \in DOMAIN RmAllRules : RmIsRule(RmAllRules[i])
           /\ Range(RmAllRules) = RmActive
           /\ \E whole : /\ RmWhole = <<whole>> /\ whole.index = RmIndexed(RmAllRules)
                         /\ whole.blocks = RmCount(RmAllRules, FALSE)
                         /\ whole.allows = RmCount(RmAllRules, TRUE)
<1>1. PICK lines : lines = rmLists \o rmCustom
  OBVIOUS
<1>2. lines \in Seq(RmLines)
  BY <1>1
<1>3. RmAllRules = RmScan(lines, RmTargets(lines))
  BY <1>1 DEF RmAllRules
<1>4. Range(RmAllRules) = RmActive
  BY <1>1, <1>2, <1>3, RmScanFinds DEF RmActive
<1>5. PICK whole : whole = RmCompile(lines, {})
  OBVIOUS
<1>6. /\ whole.index = RmIndexed(RmAllRules)
      /\ whole.blocks = RmCount(RmAllRules, FALSE) /\ whole.allows = RmCount(RmAllRules, TRUE)
  <2>1. {} \cup RmTargets(lines) = RmTargets(lines)
    OBVIOUS
  <2> QED BY <1>3, <1>5, <2>1 DEF RmCompile
<1>7. RmWhole = <<whole>>
  BY <1>1, <1>5 DEF RmWhole
<1> QED BY <1>2, <1>3, <1>4, <1>6, <1>7, RmScanRules

(* The layers in use: the one compilation, or the lists and over them the    *)
(* custom lines, with the same rules in the same order.                      *)
LEMMA RmInUseIs ==
    ASSUME rmLists \in Seq(RmLines), rmCustom \in Seq(RmLines)
    PROVE  \/ RmInUse = RmWhole
           \/ \E first, second \in Seq(RmRules) : \E lower, upper :
                  /\ RmInUse = <<lower, upper>> /\ RmAllRules = first \o second
                  /\ \A i \in DOMAIN first : RmIsRule(first[i])
                  /\ \A i \in DOMAIN second : RmIsRule(second[i])
                  /\ lower.index = RmIndexed(first) /\ upper.index = RmIndexed(second)
                  /\ upper.blocks = RmCount(second, FALSE) + RmCount(first, FALSE)
                  /\ upper.allows = RmCount(second, TRUE) + RmCount(first, TRUE)
<1>1. CASE RmHasBadfilter(rmCustom)
  BY <1>1 DEF RmInUse
<1>2. CASE ~RmHasBadfilter(rmCustom)
  <2>1. PICK disabled : disabled = RmTargets(rmLists)
    OBVIOUS
  <2>2. RmTargets(rmCustom) = {} /\ RmTargets(rmLists \o rmCustom) = disabled
    <3>1. RmTargets(rmCustom) = {}
      BY <1>2, RmTargetsOfBoth
    <3>2. RmTargets(rmLists \o rmCustom) = RmTargets(rmLists) \cup RmTargets(rmCustom)
      BY RmTargetsOfBoth
    <3> QED BY <2>1, <3>1, <3>2
  <2>3. PICK first, second : first = RmScan(rmLists, disabled) /\ second = RmScan(rmCustom, disabled)
    OBVIOUS
  <2>4. /\ first \in Seq(RmRules) /\ \A i \in DOMAIN first : RmIsRule(first[i])
        /\ second \in Seq(RmRules) /\ \A i \in DOMAIN second : RmIsRule(second[i])
    BY <2>3, RmScanRules
  <2>5. RmAllRules = first \o second
    BY <2>2, <2>3, RmScanOfBoth DEF RmAllRules
  <2>6. PICK lower : lower = RmCompile(rmLists, {})
    OBVIOUS
  <2>7. /\ lower.index = RmIndexed(first) /\ lower.disabled = disabled
        /\ lower.blocks = RmCount(first, FALSE) /\ lower.allows = RmCount(first, TRUE)
    <3>1. {} \cup RmTargets(rmLists) = disabled
      BY <2>1
    <3> QED BY <2>3, <2>6, <3>1 DEF RmCompile
  <2>8. PICK over : over = RmCompile(rmCustom, disabled)
    OBVIOUS
  <2>9. /\ over = [index |-> RmIndexed(second), disabled |-> disabled,
                   blocks |-> RmCount(second, FALSE), allows |-> RmCount(second, TRUE)]
    <3>1. disabled \cup RmTargets(rmCustom) = disabled
      BY <2>2
    <3> QED BY <2>3, <2>8, <3>1 DEF RmCompile
  <2>10. PICK upper : upper = RmCombined(lower, over)
    OBVIOUS
  <2>11. RmInUse = <<lower, upper>>
    BY <1>2, <2>6, <2>7, <2>8, <2>10 DEF RmInUse, RmLayer
  <2>12. /\ upper.index = RmIndexed(second)
         /\ upper.blocks = RmCount(second, FALSE) + RmCount(first, FALSE)
         /\ upper.allows = RmCount(second, TRUE) + RmCount(first, TRUE)
    BY <2>7, <2>9, <2>10 DEF RmCombined
  <2> QED BY <2>4, <2>5, <2>7, <2>11, <2>12
<1> QED BY <1>1, <1>2

(* RmTypeOK: in every layer in use each entry holds each meaning once.       *)
LEMMA RmTyped ==
    ASSUME rmLists \in Seq(RmLines), rmCustom \in Seq(RmLines)
    PROVE  RmTypeOK
<1>1. ASSUME NEW rules \in Seq(RmRules), \A i \in DOMAIN rules : RmIsRule(rules[i]),
             NEW layer, layer.index = RmIndexed(rules), NEW k \in DOMAIN layer.index
      PROVE  RmEntryTyped(layer.index[k], k)
  <2>1. PICK index : index = layer.index
    OBVIOUS
  <2> QED BY <1>1, <2>1, RmIndexTyped
<1>2. \A layer \in Range(RmInUse) :
          \E rules \in Seq(RmRules) : (\A i \in DOMAIN rules : RmIsRule(rules[i])) /\ layer.index = RmIndexed(rules)
  <2>1. CASE RmInUse = RmWhole
    <3>1. PICK whole : RmWhole = <<whole>> /\ whole.index = RmIndexed(RmAllRules)
      BY RmWholeIs
    <3>2. Range(RmInUse) = {whole}
      BY <2>1, <3>1 DEF Range
    <3> QED BY <3>1, <3>2, RmWholeIs
  <2>2. CASE RmInUse # RmWhole
    <3>1. PICK first, second \in Seq(RmRules) : \E lower, upper :
              /\ RmInUse = <<lower, upper>>
              /\ \A i \in DOMAIN first : RmIsRule(first[i])
              /\ \A i \in DOMAIN second : RmIsRule(second[i])
              /\ lower.index = RmIndexed(first) /\ upper.index = RmIndexed(second)
      BY <2>2, RmInUseIs
    <3>2. PICK lower, upper :
              /\ RmInUse = <<lower, upper>>
              /\ lower.index = RmIndexed(first) /\ upper.index = RmIndexed(second)
      BY <3>1
    <3>3. Range(RmInUse) = {lower, upper}
      BY <3>2 DEF Range
    <3> QED BY <3>1, <3>2, <3>3
  <2> QED BY <2>1, <2>2
<1>3. ASSUME NEW layer \in Range(RmInUse), NEW k \in DOMAIN layer.index
      PROVE  RmEntryTyped(layer.index[k], k)
  <2>1. PICK rules \in Seq(RmRules) :
            (\A i \in DOMAIN rules : RmIsRule(rules[i])) /\ layer.index = RmIndexed(rules)
    BY <1>2
  <2> QED BY <1>1, <2>1
<1> QED BY <1>3 DEF RmTypeOK, RmEntryTyped

(* The layers in use answer and count like one compilation of all lines.     *)
LEMMA RmLayered ==
    ASSUME rmLists \in Seq(RmLines), rmCustom \in Seq(RmLines)
    PROVE  RmLayersAgree
<1>1. PICK whole : /\ RmWhole = <<whole>> /\ whole.index = RmIndexed(RmAllRules)
                   /\ whole.blocks = RmCount(RmAllRules, FALSE)
                   /\ whole.allows = RmCount(RmAllRules, TRUE)
  BY RmWholeIs
<1>2. CASE RmInUse = RmWhole
  <2>1. Len(RmInUse) = 1 /\ RmInUse[1] = whole /\ RmWhole[1] = whole
    BY <1>1, <1>2
  <2>2. \A d, t : RmSaysSame(RmBlocking(RmInUse, d, t), RmBlocking(RmWhole, d, t))
    BY <1>2 DEF RmSaysSame
  <2> QED BY <2>1, <2>2 DEF RmLayersAgree
<1>3. CASE RmInUse # RmWhole
  <2>1. PICK first, second \in Seq(RmRules) : \E lower, upper :
            /\ RmInUse = <<lower, upper>> /\ RmAllRules = first \o second
            /\ lower.index = RmIndexed(first) /\ upper.index = RmIndexed(second)
            /\ upper.blocks = RmCount(second, FALSE) + RmCount(first, FALSE)
            /\ upper.allows = RmCount(second, TRUE) + RmCount(first, TRUE)
    BY <1>3, RmInUseIs
  <2>2. PICK lower, upper :
            /\ RmInUse = <<lower, upper>> /\ RmAllRules = first \o second
            /\ lower.index = RmIndexed(first) /\ upper.index = RmIndexed(second)
            /\ upper.blocks = RmCount(second, FALSE) + RmCount(first, FALSE)
            /\ upper.allows = RmCount(second, TRUE) + RmCount(first, TRUE)
    BY <2>1
  <2>3. RmHold(RmInUse, RmAllRules)
    BY <2>2, RmHoldTwo
  <2>4. ASSUME NEW d \in RmNames, NEW t
        PROVE  RmSaysSame(RmBlocking(RmInUse, d, t), RmBlocking(RmWhole, d, t))
    <3>1. Len(d) \in Nat
      BY RmConstants DEF RmConstants, RmIsName
    <3>2. RmAllRules \in Seq(RmRules) /\ \A i \in DOMAIN RmAllRules : RmIsRule(RmAllRules[i])
      BY RmWholeIs
    <3>3. PICK rules, layers : rules = RmAllRules /\ layers = RmInUse
      OBVIOUS
    <3>4. RmSaysSame(RmBlocking(layers, d, t), RmBlocking(<<whole>>, d, t))
      BY <1>1, <2>3, <3>1, <3>2, <3>3, RmAgrees
    <3> QED BY <1>1, <3>3, <3>4
  <2>5. \A allow : RmCount(RmAllRules, allow) = RmCount(first, allow) + RmCount(second, allow)
    BY <2>2, RmCountOfBoth
  <2>6. \A allow : RmCount(first, allow) \in Int /\ RmCount(second, allow) \in Int
    <3>1. SUFFICES ASSUME NEW allow, NEW rules \in Seq(RmRules) PROVE RmCount(rules, allow) \in Int
      BY <2>2
    <3>2. PICK n \in Nat : n = Len(rules) /\ DOMAIN rules = 1..n
      OBVIOUS
    <3>3. IsFiniteSet(1..n) /\ {i \in 1..n : rules[i].allow = allow} \in SUBSET (1..n)
      BY FS_Interval
    <3>4. IsFiniteSet({i \in 1..n : rules[i].allow = allow})
      BY <3>3, FS_Subset
    <3>5. PICK A : A = {i \in 1..n : rules[i].allow = allow}
      OBVIOUS
    <3>6. Cardinality(A) \in Nat
      BY <3>4, <3>5, FS_CardinalityType
    <3>7. A = {i \in DOMAIN rules : rules[i].allow = allow}
      BY <3>2, <3>5
    <3>8. RmCount(rules, allow) = Cardinality(A)
      BY <3>7, Zenon DEF RmCount
    <3> QED BY <3>6, <3>8
  <2>7. upper.blocks = whole.blocks /\ upper.allows = whole.allows
    <3>1. PICK no, yes : no = FALSE /\ yes = TRUE
      OBVIOUS
    <3>2. /\ upper.blocks = RmCount(second, no) + RmCount(first, no) /\ whole.blocks = RmCount(RmAllRules, no)
          /\ upper.allows = RmCount(second, yes) + RmCount(first, yes) /\ whole.allows = RmCount(RmAllRules, yes)
      BY <1>1, <2>2, <3>1
    <3> QED BY <2>5, <2>6, <3>2
  <2>8. Len(RmInUse) = 2 /\ RmInUse[2] = upper /\ RmWhole[1] = whole
    BY <1>1, <2>2
  <2> QED BY <2>4, <2>7, <2>8 DEF RmLayersAgree
<1> QED BY <1>2, <1>3

(* RmIndexIsMeaning: the search answers as the lines mean.                   *)
LEMMA RmAnswered ==
    ASSUME rmLists \in Seq(RmLines), rmCustom \in Seq(RmLines)
    PROVE  RmIndexIsMeaning
<1>1. PICK whole : RmWhole = <<whole>> /\ whole.index = RmIndexed(RmAllRules)
  BY RmWholeIs
<1>2. /\ RmAllRules \in Seq(RmRules) /\ \A i \in DOMAIN RmAllRules : RmIsRule(RmAllRules[i])
      /\ Range(RmAllRules) = RmActive
  BY RmWholeIs
<1>3. \A d \in RmNames : RmIsName(d)
  BY RmConstants DEF RmConstants
<1>4. ASSUME NEW d \in RmNames, NEW t
      PROVE  /\ RmBlocking(RmWhole, d, t).verdict = RmMeaning(d, t).verdict
             /\ RmBlocking(RmWhole, d, t).verdict = "rewrite" =>
                    /\ RmBlocking(RmWhole, d, t).actions \subseteq RmMeaning(d, t).actions
                    /\ \/ RmBlocking(RmWhole, d, t).actions = RmMeaning(d, t).actions
                       \/ \A a \in RmBlocking(RmWhole, d, t).actions : a.kind # "record"
  <2>1. PICK rules : rules = RmAllRules
    OBVIOUS
  <2> QED BY <1>1, <1>2, <1>3, <2>1, RmMeans
<1> QED BY <1>4 DEF RmIndexIsMeaning

(* Lines are added to the lists and to the custom rules.                     *)
RmLinesKept == rmLists \in Seq(RmLines) /\ rmCustom \in Seq(RmLines)

(* RmSearchRight, for any lines, names and types: whatever lines lists and   *)
(* custom rules hold, the index of compile_rules_with_disabled with its      *)
(* duplicates dropped, searched from the name up through the layers of       *)
(* with_custom_layer, decides as the lines taken one by one mean it and as   *)
(* one compilation of everything would, and counts the same rules.           *)
THEOREM RmSearchCorrect == RmSpec => []RmSearchRight
<1>1. RmInit => RmLinesKept
  BY DEF RmInit, RmLinesKept
<1>2. RmLinesKept /\ [RmNext]_rmVars => RmLinesKept'
  <2>1. SUFFICES ASSUME RmLinesKept, [RmNext]_rmVars PROVE RmLinesKept'
    OBVIOUS
  <2>2. CASE UNCHANGED rmVars
    BY <2>1, <2>2 DEF RmLinesKept, rmVars
  <2>3. ASSUME NEW l \in RmLines, RmAddToLists(l) PROVE RmLinesKept'
    BY <2>1, <2>3 DEF RmLinesKept, RmAddToLists
  <2>4. ASSUME NEW l \in RmLines, RmAddCustom(l) PROVE RmLinesKept'
    BY <2>1, <2>4 DEF RmLinesKept, RmAddCustom
  <2> QED BY <2>1, <2>2, <2>3, <2>4 DEF RmNext
<1>3. RmLinesKept => RmSearchRight
  BY RmTyped, RmLayered, RmAnswered DEF RmLinesKept, RmSearchRight
<1> QED BY <1>1, <1>2, <1>3, PTL DEF RmSpec


------------------------------------------------------------------------------
(* Whole division, powers of two and bits. *)
LEMMA CpDivMod == \A a \in Nat : \A p \in Nat \ {0} : (a \div p) \in Nat /\ a % p \in 0..(p - 1) /\ a = p * (a \div p) + (a % p)
<1> TAKE a \in Nat
<1> TAKE p \in Nat \ {0}
<1>1. (a \div p) \in Nat
  OBVIOUS
<1>2. a % p \in 0..(p - 1)
  OBVIOUS
<1>3. a = p * (a \div p) + (a % p)
  OBVIOUS
<1> QED BY <1>1, <1>2, <1>3

(* A set of one more number has twice as many subsets. *)
LEMMA CpPowers ==
    /\ 2^0 = 1
    /\ \A n \in Nat : 2^n \in Nat \ {0} /\ 2^(n + 1) = 2 * 2^n
<1>1. ASSUME NEW n \in Nat
      PROVE  /\ IsFiniteSet(SUBSET (1..n))
             /\ Cardinality(SUBSET (1..n)) = 2^n
             /\ 2^n \in Nat \ {0}
  <2>1. IsFiniteSet(1..n) /\ Cardinality(1..n) = n
    BY FS_Interval
  <2>2. IsFiniteSet(SUBSET (1..n)) /\ Cardinality(SUBSET (1..n)) = 2^n
    BY <2>1, FS_SUBSET
  <2>3. SUBSET (1..n) # {}
    OBVIOUS
  <2> QED BY <2>2, <2>3, FS_CardinalityType, FS_EmptySet
<1>2. ASSUME NEW n \in Nat PROVE 2^(n + 1) = 2 * 2^n
  <2> DEFINE S == SUBSET (1..n)
             T == {x \cup {n + 1} : x \in S}
             f == [x \in S |-> x \cup {n + 1}]
  <2>1. SUBSET (1..(n + 1)) = S \cup T
    <3>1. ASSUME NEW x \in SUBSET (1..(n + 1)) PROVE x \in S \cup T
      <4>1. CASE n + 1 \in x
        <5>1. x \ {n + 1} \in S /\ x = (x \ {n + 1}) \cup {n + 1}
          BY <4>1
        <5> QED BY <5>1
      <4>2. CASE n + 1 \notin x
        BY <4>2
      <4> QED BY <4>1, <4>2
    <3>2. ASSUME NEW x \in S \cup T PROVE x \in SUBSET (1..(n + 1))
      OBVIOUS
    <3> QED BY <3>1, <3>2
  <2>2. S \cap T = {}
    OBVIOUS
  <2>3. f \in Bijection(S, T)
    <3>1. \A x, y \in S : x \cup {n + 1} = y \cup {n + 1} => x = y
      <4>1. SUFFICES ASSUME NEW x \in S, NEW y \in S, x \cup {n + 1} = y \cup {n + 1} PROVE x = y
        OBVIOUS
      <4>2. \A z \in x \cup y : z # n + 1
        OBVIOUS
      <4> QED BY <4>1, <4>2
    <3>2. f \in [S -> T] /\ \A y \in T : \E x \in S : f[x] = y
      OBVIOUS
    <3>3. \A x \in S : f[x] = x \cup {n + 1}
      OBVIOUS
    <3> HIDE DEF S, T, f
    <3> QED BY <3>1, <3>2, <3>3 DEF Bijection, Injection, Surjection, IsInjective
  <2>4. IsFiniteSet(S) /\ Cardinality(S) = 2^n /\ 2^n \in Nat
    BY <1>1
  <2>5. Cardinality(SUBSET (1..(n + 1))) = 2^(n + 1)
    BY <1>1, n + 1 \in Nat
  <2> HIDE DEF S, T, f
  <2>6. IsFiniteSet(T) /\ Cardinality(T) = Cardinality(S)
    BY <2>3, <2>4, FS_Bijection DEF ExistsBijection
  <2>7. Cardinality(S \cup T) = Cardinality(S) + Cardinality(T) - Cardinality(S \cap T)
    BY <2>4, <2>6, FS_Union
  <2>8. Cardinality(S \cap T) = 0
    BY <2>2, FS_EmptySet
  <2>9. 2^(n + 1) = 2^n + 2^n - 0
    BY <2>1, <2>4, <2>5, <2>6, <2>7, <2>8
  <2> QED BY <2>4, <2>9
<1>3. 2^0 = 1
  OBVIOUS
<1> QED BY <1>1, <1>2, <1>3

(* Numbers have the same first bits when they have the same prefix. *)
LEMMA CpSameBits ==
    ASSUME NEW bits \in Nat, NEW v \in Nat, NEW w \in Nat, v < 2^bits, w < 2^bits, NEW len \in 0..bits
    PROVE  CpPrefix(v, bits, len) = CpPrefix(w, bits, len)
               <=> \A k \in 0..(len - 1) : CpBit(v, bits, k) = CpBit(w, bits, k)
<1> DEFINE Same(n) == \A k \in 0..(n - 1) : CpBit(v, bits, k) = CpBit(w, bits, k)
           Over(n) == (v \div 2^(bits - n)) = (w \div 2^(bits - n))
           S == {n \in Nat : n <= bits => (Over(n) <=> Same(n))}
<1>1. 0 \in S
  <2>1. 2^bits \in Nat \ {0} /\ bits - 0 = bits
    BY CpPowers
  <2>2. (v \div 2^bits) = 0 /\ (w \div 2^bits) = 0
    BY <2>1
  <2>3. Over(0) /\ Same(0)
    BY <2>1, <2>2
  <2> HIDE DEF Over, Same
  <2> QED BY <2>3
<1>2. ASSUME NEW n \in S PROVE n + 1 \in S
  <2>1. SUFFICES ASSUME n + 1 <= bits PROVE Over(n + 1) <=> Same(n + 1)
    BY n \in Nat
  <2>2. n \in Nat /\ n <= bits /\ (Over(n) <=> Same(n))
    BY <2>1
  <2>3. PICK m \in Nat : m = bits - (n + 1)
    BY <2>1, <2>2
  <2>4. PICK p \in Nat \ {0} : p = 2^m /\ 2^(m + 1) = 2 * p
    BY CpPowers
  <2>5. bits - n = m + 1 /\ (bits - 1) - n = m
    BY <2>2, <2>3
  <2>6. PICK x, y \in Nat : x = (v \div p) /\ y = (w \div p)
    BY CpDivMod
  <2>7. (v \div (2 * p)) = (x \div 2) /\ (w \div (2 * p)) = (y \div 2)
    BY <2>6
  <2>8. Over(n) <=> (x \div 2) = (y \div 2)
    BY <2>4, <2>5, <2>7
  <2>9. Over(n + 1) <=> x = y
    BY <2>3, <2>4, <2>6
  <2>10. CpBit(v, bits, n) = x % 2 /\ CpBit(w, bits, n) = y % 2
    BY <2>4, <2>5, <2>6 DEF CpBit
  <2>11. Same(n + 1) <=> Same(n) /\ (x % 2) = (y % 2)
    <3>1. \A k : k \in 0..((n + 1) - 1) <=> k \in 0..(n - 1) \/ k = n
      BY <2>2
    <3> QED BY <2>10, <3>1
  <2>12. x = y <=> (x \div 2) = (y \div 2) /\ (x % 2) = (y % 2)
    <3>1. (x = 2 * (x \div 2) + (x % 2)) /\ (y = 2 * (y \div 2) + (y % 2))
      BY CpDivMod
    <3> QED BY <3>1
  <2> HIDE DEF Over, Same
  <2> QED BY <2>2, <2>8, <2>9, <2>11, <2>12
<1>3. S = Nat
  <2>1. S \in SUBSET Nat
    OBVIOUS
  <2> HIDE DEF S
  <2> QED BY <1>1, <1>2, <2>1, RmAllNumbers
<1>4. Over(len) <=> Same(len)
  <2>1. len \in Nat /\ len <= bits
    OBVIOUS
  <2>2. len \in S
    <3> HIDE DEF S
    <3> QED BY <1>3, <2>1
  <2> HIDE DEF Over, Same
  <2> QED BY <2>1, <2>2
<1>5. PICK q \in Nat \ {0} : q = 2^(bits - len)
  BY CpPowers, bits - len \in Nat
<1>6. CpPrefix(v, bits, len) = CpPrefix(w, bits, len) <=> Over(len)
  <2>1. PICK x, y \in Nat : x = (v \div q) /\ y = (w \div q)
    BY CpDivMod
  <2>2. x * q = y * q <=> x = y
    OBVIOUS
  <2> QED BY <1>5, <2>1, <2>2 DEF CpPrefix
<1> HIDE DEF Over
<1> QED BY <1>4, <1>6

LEMMA CpDivided ==
    ASSUME NEW a \in Int, NEW p \in Nat \ {0}, NEW q \in Int, NEW r \in 0..(p - 1), a = p * q + r
    PROVE  (a \div p) = q /\ a % p = r
OBVIOUS

LEMMA CpSmall ==
    ASSUME NEW p \in Nat \ {0}, NEW x \in 0..(p - 1)
    PROVE  x % p = x
<1>1. x = p * 0 + x
  OBVIOUS
<1> QED BY <1>1, CpDivided

LEMMA CpOver ==
    ASSUME NEW p \in Nat \ {0}, NEW x \in p..(2 * p - 1)
    PROVE  x % p = x - p
<1>1. PICK y \in 0..(p - 1) : y = x - p
  OBVIOUS
<1>2. x = p * 1 + y /\ x \in Int
  BY <1>1
<1> QED BY <1>1, <1>2, CpDivided

------------------------------------------------------------------------------
(* What a line looks like. *)
LEMMA CpNumbers ==
    /\ CpDays \in Nat \ {0} /\ CpMinutes \in Nat \ {0} /\ CpLabelBits \in Nat \ {0} /\ CpLabels \in Nat \ {0}
    /\ \A f \in CpFamilies : CpBits[f] \in Nat
BY CpConstants

LEMMA CpLineIs ==
    ASSUME NEW l \in CpLines
    PROVE  /\ l.kind \in {"rewrite", "group", "policy", "client", "domain"}
           /\ l.kind = "rewrite" => /\ l.wild \in BOOLEAN /\ l.name \in CpAnyName
                                    /\ l.family \in CpFamilies /\ l.address \in CpAddress
           /\ l.kind = "policy" => l.net \in CpNetworks /\ l.when \in CpWhen \cup {<<>>}
           /\ l.kind = "client" => l.net \in CpNetworks
           /\ l.kind = "domain" => l.wild \in BOOLEAN /\ l.name \in CpAnyName
           /\ l.kind \in {"policy", "client"} => l.net.value < 2^CpBits[l.net.family]
<1>1. l \in CpAnyLine /\ (l.kind \in {"policy", "client"} => l.net.value < 2^CpBits[l.net.family])
  BY CpConstants
<1>2. CASE l \in [kind : {"rewrite"}, wild : BOOLEAN, name : CpAnyName, family : CpFamilies, address : CpAddress]
  BY <1>1, <1>2
<1>3. CASE l \in [kind : {"group"}, name : STRING]
  BY <1>1, <1>3
<1>4. CASE l \in [kind : {"policy"}, net : CpNetworks, profile : STRING, when : CpWhen \cup {<<>>}]
  BY <1>1, <1>4
<1>5. CASE l \in [kind : {"client"}, net : CpNetworks, scheme : STRING]
  BY <1>1, <1>5
<1>6. CASE l \in [kind : {"domain"}, wild : BOOLEAN, name : CpAnyName, scheme : STRING]
  BY <1>1, <1>6
<1> QED BY <1>1, <1>2, <1>3, <1>4, <1>5, <1>6 DEF CpAnyLine

(* A network holds a client by its prefix exactly when it covers it bit by   *)
(* bit.                                                                      *)
LEMMA CpHolds ==
    ASSUME NEW net \in CpNetworks, CpNetworkOk(net), net.value < 2^CpBits[net.family], NEW c \in CpClients
    PROVE  CpContains(net, c) <=> CpCovers(net, c)
<1>1. net.family \in CpFamilies /\ net.value \in Nat /\ net.len \in Nat
  BY DEF CpNetworks
<1>2. CpBits[net.family] \in Nat
  BY <1>1, CpNumbers
<1>3. net.len \in 0..CpBits[net.family]
  BY <1>1, <1>2 DEF CpNetworkOk
<1>4. c.family \in CpFamilies /\ c.value \in 0..(2^CpBits[c.family] - 1)
  BY DEF CpClients
<1>5. ASSUME c.family = net.family PROVE CpContains(net, c) <=> CpCovers(net, c)
  <2>1. c.value \in Nat /\ c.value < 2^CpBits[net.family]
    BY <1>2, <1>4, <1>5, CpPowers
  <2>2. CpPrefix(c.value, CpBits[net.family], net.len) = CpPrefix(net.value, CpBits[net.family], net.len)
          <=> \A k \in 0..(net.len - 1) :
                  CpBit(c.value, CpBits[net.family], k) = CpBit(net.value, CpBits[net.family], k)
    BY <1>1, <1>2, <1>3, <2>1, CpSameBits
  <2> QED BY <1>5, <2>2 DEF CpContains, CpCovers
<1> QED BY <1>5 DEF CpContains, CpCovers

------------------------------------------------------------------------------
(* The last of the greatest. *)
LEMMA CpGreatest ==
    ASSUME NEW n \in Nat, NEW fit \in SUBSET (1..n), fit # {}, NEW key \in [fit -> Nat]
    PROVE  \E i \in fit : \A j \in fit : key[j] < key[i] \/ (key[j] = key[i] /\ j <= i)
<1> DEFINE First(T) == \E i \in T : \A j \in T : key[j] < key[i] \/ (key[j] = key[i] /\ j <= i)
           S == {m \in Nat : \A T \in SUBSET fit : T \subseteq 1..m /\ T # {} => First(T)}
<1>1. 0 \in S
  <2>1. 1..0 = {}
    OBVIOUS
  <2>2. \A T \in SUBSET fit : ~(T \subseteq 1..0 /\ T # {})
    BY <2>1
  <2> HIDE DEF First
  <2> QED BY <2>2
<1>2. ASSUME NEW m \in S PROVE m + 1 \in S
  <2>1. m \in Nat /\ m + 1 \in Nat
    OBVIOUS
  <2>2. ASSUME NEW T \in SUBSET fit, T \subseteq 1..(m + 1), T # {} PROVE First(T)
    <3>1. PICK U : U = T \ {m + 1}
      OBVIOUS
    <3>2. U \in SUBSET fit /\ U \subseteq 1..m
      BY <2>1, <2>2, <3>1
    <3>3. CASE m + 1 \notin T
      <4>1. U = T
        BY <3>1, <3>3
      <4> HIDE DEF First
      <4> QED BY <2>2, <3>2, <4>1
    <3>4. CASE m + 1 \in T /\ U = {}
      <4>1. T = {m + 1} /\ key[m + 1] \in Nat
        BY <3>1, <3>4
      <4> QED BY <2>1, <4>1
    <3>5. CASE m + 1 \in T /\ U # {}
      <4>1. First(U)
        <5> HIDE DEF First
        <5> QED BY <3>2, <3>5
      <4>2. PICK i \in U : \A j \in U : key[j] < key[i] \/ (key[j] = key[i] /\ j <= i)
        BY <4>1
      <4>3. \A j \in T : key[j] \in Nat /\ (j \in U \/ j = m + 1)
        BY <3>1
      <4>4. i \in T /\ i \in 1..m
        BY <3>1, <3>2
      <4>5. CASE key[m + 1] < key[i]
        BY <4>2, <4>3, <4>4, <4>5
      <4>6. CASE ~(key[m + 1] < key[i])
        <5>1. \A j \in T : key[j] < key[m + 1] \/ (key[j] = key[m + 1] /\ j <= m + 1)
          BY <2>1, <2>2, <3>5, <4>2, <4>3, <4>4, <4>6
        <5> QED BY <3>5, <5>1
      <4> QED BY <4>5, <4>6
    <3> QED BY <3>3, <3>4, <3>5
  <2> HIDE DEF First
  <2> QED BY <2>1, <2>2
<1>3. S = Nat
  <2>1. S \in SUBSET Nat
    OBVIOUS
  <2> HIDE DEF S
  <2> QED BY <1>1, <1>2, <2>1, RmAllNumbers
<1>4. n \in S
  <2> HIDE DEF S
  <2> QED BY <1>3
<1>5. First(fit)
  <2> HIDE DEF First
  <2> QED BY <1>4
<1> QED BY <1>5

LEMMA CpBestIs ==
    ASSUME NEW rules, NEW n \in Nat, NEW fit \in SUBSET (1..n), NEW key \in [fit -> Nat]
    PROVE  /\ fit = {} => CpBest(rules, key) = <<>>
           /\ fit # {} => \E i \in fit : /\ CpBest(rules, key) = <<rules[i]>>
                                         /\ \A j \in fit : key[j] < key[i] \/ (key[j] = key[i] /\ j <= i)
<1>1. DOMAIN key = fit
  OBVIOUS
<1>2. ASSUME fit # {}
      PROVE  \E i \in fit : /\ CpBest(rules, key) = <<rules[i]>>
                            /\ \A j \in fit : key[j] < key[i] \/ (key[j] = key[i] /\ j <= i)
  <2>1. PICK i : i = CHOOSE x \in fit : \A j \in fit : key[j] < key[x] \/ (key[j] = key[x] /\ j <= x)
    OBVIOUS
  <2>2. i \in fit /\ \A j \in fit : key[j] < key[i] \/ (key[j] = key[i] /\ j <= i)
    BY <1>2, <2>1, CpGreatest
  <2>3. CpBest(rules, key) = <<rules[i]>>
    BY <1>1, <1>2, <2>1, Zenon DEF CpBest
  <2> QED BY <2>2, <2>3
<1> QED BY <1>1, <1>2 DEF CpBest

------------------------------------------------------------------------------
(* Minutes of the week, by day and minute of the day *)
LEMMA CpMinuteOf ==
    ASSUME NEW d \in 0..(CpDays - 1), NEW r \in 0..(2 * CpMinutes - 1)
    PROVE  (d * CpMinutes + r) % CpWeek
              = IF r < CpMinutes THEN d * CpMinutes + r ELSE ((d + 1) % CpDays) * CpMinutes + (r - CpMinutes)
<1>1. PICK D, M \in Nat \ {0} : D = CpDays /\ M = CpMinutes
  BY CpNumbers
<1>2. PICK week \in Nat \ {0} : week = D * M /\ week = CpWeek
  BY <1>1 DEF CpWeek
<1>3. PICK x \in Nat : x = d * M
  BY <1>1
<1>4. x + M <= week
  BY <1>1, <1>2, <1>3
<1>5. PICK y \in Nat : y = x + r
  BY <1>3
<1>6. CASE r < M
  <2>1. y \in 0..(week - 1)
    BY <1>1, <1>4, <1>5, <1>6
  <2>2. y % week = y
    BY <2>1, CpSmall
  <2> QED BY <1>1, <1>2, <1>3, <1>5, <1>6, <2>2
<1>7. CASE ~(r < M) /\ d + 1 < D
  <2>1. PICK e \in 0..(D - 1) : e = d + 1
    BY <1>1, <1>7
  <2>2. e % D = e
    BY <2>1, CpSmall
  <2>3. e * M = x + M /\ x + M + M <= week
    BY <1>1, <1>2, <1>3, <1>7, <2>1
  <2>4. y \in 0..(week - 1)
    BY <1>1, <1>5, <1>7, <2>3
  <2>5. y % week = y
    BY <2>4, CpSmall
  <2>6. y = e * M + (r - M)
    BY <1>1, <1>3, <1>5, <2>3
  <2> QED BY <1>1, <1>2, <1>3, <1>5, <1>7, <2>1, <2>2, <2>5, <2>6
<1>8. CASE ~(r < M) /\ ~(d + 1 < D)
  <2>1. PICK e \in D..(2 * D - 1) : e = d + 1 /\ e = D
    BY <1>1, <1>8
  <2>2. e % D = 0
    BY <2>1, CpOver
  <2>3. x + M = week
    BY <1>1, <1>2, <1>3, <2>1
  <2>4. y \in week..(2 * week - 1) /\ y - week = r - M
    BY <1>1, <1>4, <1>5, <1>8, <2>3
  <2>5. y % week = r - M
    BY <2>4, CpOver
  <2>6. 0 * M + (r - M) = r - M
    BY <1>1
  <2> QED BY <1>1, <1>2, <1>3, <1>5, <1>8, <2>1, <2>2, <2>5, <2>6
<1> QED BY <1>6, <1>7, <1>8

LEMMA CpSameMinute ==
    ASSUME NEW d \in Nat, NEW e \in Nat, NEW r \in 0..(CpMinutes - 1), NEW s \in 0..(CpMinutes - 1)
    PROVE  d * CpMinutes + r = e * CpMinutes + s <=> d = e /\ r = s
<1>1. PICK M \in Nat \ {0} : M = CpMinutes
  BY CpNumbers
<1>2. PICK a \in Int : a = M * d + r
  BY <1>1
<1>3. (a \div M) = d /\ a % M = r
  BY <1>1, <1>2, CpDivided
<1>4. PICK b \in Int : b = M * e + s
  BY <1>1
<1>5. (b \div M) = e /\ b % M = s
  BY <1>1, <1>4, CpDivided
<1>6. a = d * CpMinutes + r /\ b = e * CpMinutes + s
  BY <1>1, <1>2, <1>4
<1>7. a = b <=> d = e /\ r = s
  BY <1>2, <1>3, <1>4, <1>5
<1> QED BY <1>6, <1>7

(* The day before *)
LEMMA CpDayBefore ==
    ASSUME NEW d \in 0..(CpDays - 1), NEW e \in 0..(CpDays - 1)
    PROVE  /\ (d + 1) % CpDays \in 0..(CpDays - 1)
           /\ (e + CpDays - 1) % CpDays \in 0..(CpDays - 1)
           /\ (d + 1) % CpDays = e <=> d = (e + CpDays - 1) % CpDays
<1>1. PICK D \in Nat \ {0} : D = CpDays
  BY CpNumbers
<1>2. PICK n \in Nat : n = d + 1
  OBVIOUS
<1>3. PICK b \in Nat : b = e + D - 1
  BY <1>1
<1>4. (n < D => n % D = n) /\ (~(n < D) => n % D = n - D)
  BY <1>1, <1>2, CpSmall, CpOver
<1>5. (b < D => b % D = b) /\ (~(b < D) => b % D = b - D)
  BY <1>1, <1>3, CpSmall, CpOver
<1>6. PICK v, w : v = n % D /\ w = b % D
  OBVIOUS
<1>7. /\ v \in 0..(D - 1) /\ w \in 0..(D - 1)
      /\ v = e <=> d = w
  BY <1>1, <1>2, <1>3, <1>4, <1>5, <1>6
<1> QED BY <1>1, <1>2, <1>3, <1>6, <1>7

(* A schedule is active in the minutes it names. *)
LEMMA CpOnTime ==
    ASSUME NEW line, line.when \in CpWhen, NEW t \in 0..(CpWeek - 1)
    PROVE  CpScheduleIsActive(CpScheduleOf(line), t \div CpMinutes, t % CpMinutes) <=> t \in CpHours(line)
<1>1. PICK D, M \in Nat \ {0} : D = CpDays /\ M = CpMinutes
  BY CpNumbers
<1>2. PICK start, end \in 0..(M - 1) : start = line.when.start /\ end = line.when.end
  BY <1>1 DEF CpWhen
<1>3. PICK days : days = CpWeekdays(line.when.from, line.when.to)
  OBVIOUS
<1>4. days \subseteq 0..(D - 1)
  <2>1. \A x \in Nat : x % D \in 0..(D - 1)
    BY CpDivMod
  <2>2. line.when.from \in 0..(D - 1) /\ line.when.to \in 0..(D - 1)
    BY <1>1 DEF CpWhen
  <2>3. ASSUME NEW x \in days PROVE x \in 0..(D - 1)
    <3>1. PICK k \in 0..((line.when.to + CpDays - line.when.from) % CpDays) : x = (line.when.from + k) % CpDays
      BY <1>3 DEF CpWeekdays
    <3>2. PICK n \in Nat : n = line.when.from + k
      BY <2>2
    <3> QED BY <1>1, <2>1, <3>1, <3>2
  <2> QED BY <2>3
<1>5. PICK day, minute : day = (t \div M) /\ minute = t % M
  OBVIOUS
<1>6. day \in 0..(D - 1) /\ minute \in 0..(M - 1) /\ t = day * M + minute
  <2>0. t \in Nat /\ t < D * M
    <3>1. PICK week \in Nat : week = D * M /\ week = CpWeek
      BY <1>1 DEF CpWeek
    <3> QED BY <3>1
  <2>1. day \in Nat /\ minute \in 0..(M - 1) /\ t = M * day + minute /\ t \in Nat /\ t < D * M
    BY <1>5, <2>0, CpDivMod
  <2>2. ASSUME D <= day PROVE FALSE
    <3>1. D * M <= M * day
      BY <2>1, <2>2
    <3>2. PICK x, y \in Nat : x = D * M /\ y = M * day
      BY <2>1
    <3> QED BY <2>1, <3>1, <3>2
  <2> QED BY <2>1, <2>2
<1>7. PICK first, length :
         /\ first = (IF line.when.start = line.when.end THEN 0 ELSE line.when.start)
         /\ length = (IF line.when.start = line.when.end THEN CpMinutes
                      ELSE (line.when.end + CpMinutes - line.when.start) % CpMinutes)
  OBVIOUS
<1>8. t \in CpHours(line) <=> \E d \in days : \E k \in 0..(length - 1) : t = (d * M + first + k) % CpWeek
  <2>1. t \in CpHours(line) <=>
          \E d \in days : \E k \in 0..(length - 1) : t = (d * CpMinutes + first + k) % CpWeek
    BY <1>3, <1>7 DEF CpHours
  <2> QED BY <1>1, <2>1
<1>9. CpScheduleIsActive(CpScheduleOf(line), t \div CpMinutes, t % CpMinutes)
        <=> IF start = end THEN day \in days
            ELSE IF start < end THEN day \in days /\ minute >= start /\ minute < end
            ELSE \/ minute >= start /\ day \in days
                 \/ minute < end /\ (day + D - 1) % D \in days
  BY <1>1, <1>2, <1>3, <1>5 DEF CpScheduleIsActive, CpScheduleOf
<1>10. length \in Nat
         /\ length = (IF start = end THEN M ELSE IF start < end THEN end - start ELSE (end + M) - start)
  <2>1. PICK x \in Nat : x = (end + M) - start
    BY <1>2
  <2>2. (x < M => x % M = x) /\ (start # end /\ ~(x < M) => x % M = x - M)
    <3>1. (x < M => x \in 0..(M - 1)) /\ (start # end /\ ~(x < M) => x \in M..(2 * M - 1))
      BY <1>2, <2>1
    <3> QED BY <3>1, CpSmall, CpOver
  <2>3. end + M - start = x
    BY <1>2, <2>1
  <2>4. start # end => (x < M <=> ~(start < end)) /\ (~(x < M) <=> start < end) /\ x - M = end - start
    BY <1>2, <2>1
  <2>5. length = (IF start = end THEN M ELSE x % M)
    BY <1>1, <1>2, <1>7, <2>3
  <2>6. CASE start = end
    BY <2>5, <2>6
  <2>7. CASE start # end /\ start < end
    <3>1. length = end - start
      BY <2>2, <2>4, <2>5, <2>7
    <3> QED BY <1>2, <2>7, <3>1
  <2>8. CASE start # end /\ ~(start < end)
    <3>1. length = (end + M) - start
      BY <2>1, <2>2, <2>4, <2>5, <2>8
    <3> QED BY <2>1, <2>8, <3>1
  <2> QED BY <2>6, <2>7, <2>8
<1>11. ASSUME NEW d \in days, NEW k \in 0..(length - 1)
       PROVE  t = (d * M + first + k) % CpWeek
                <=> IF first + k < M THEN d = day /\ minute = first + k
                    ELSE (d + 1) % D = day /\ minute = (first + k) - M
  <2>1. d \in 0..(D - 1)
    BY <1>4
  <2>2. PICK r \in 0..(2 * M - 1) : r = first + k
    BY <1>2, <1>7, <1>10
  <2>3. (d * M + r) % CpWeek = IF r < M THEN d * M + r ELSE ((d + 1) % D) * M + (r - M)
    BY <1>1, <2>1, <2>2, CpMinuteOf
  <2>4. d * M + first + k = d * M + r
    BY <1>2, <1>7, <1>10, <2>1, <2>2
  <2>5. (d + 1) % D \in 0..(D - 1)
    BY <1>1, <2>1, CpDayBefore
  <2>6. CASE r < M
    <3>0. d \in Nat /\ day \in Nat /\ r \in 0..(CpMinutes - 1) /\ minute \in 0..(CpMinutes - 1)
      BY <1>1, <1>6, <2>1, <2>2, <2>6
    <3>1. d * CpMinutes + r = day * CpMinutes + minute <=> d = day /\ r = minute
      BY <3>0, CpSameMinute
    <3> QED BY <1>1, <1>6, <2>2, <2>3, <2>4, <2>6, <3>1
  <2>7. CASE ~(r < M)
    <3>1. PICK e \in Nat : e = (d + 1) % D
      BY <2>5
    <3>2. PICK s \in 0..(CpMinutes - 1) : s = r - M
      BY <1>1, <2>2, <2>7
    <3>3. day \in Nat /\ minute \in 0..(CpMinutes - 1)
      BY <1>1, <1>6
    <3>4. e * CpMinutes + s = day * CpMinutes + minute <=> e = day /\ s = minute
      BY <3>3, CpSameMinute
    <3>5. t = (d * M + first + k) % CpWeek <=> e * M + s = day * M + minute
      BY <1>6, <2>3, <2>4, <2>7, <3>1, <3>2
    <3> QED BY <1>1, <2>2, <2>7, <3>1, <3>2, <3>4, <3>5
  <2> QED BY <2>6, <2>7
<1>12. CASE start = end
  <2>1. first = 0 /\ length = M
    BY <1>1, <1>2, <1>7, <1>12
  <2>2. t \in CpHours(line) <=> day \in days
    <3>1. ASSUME t \in CpHours(line) PROVE day \in days
      BY <1>8, <1>11, <2>1, <3>1
    <3>2. ASSUME day \in days PROVE t \in CpHours(line)
      <4>1. minute \in 0..(length - 1) /\ first + minute < M /\ first + minute = minute
        BY <1>6, <2>1
      <4> QED BY <1>8, <1>11, <3>2, <4>1
    <3> QED BY <3>1, <3>2
  <2> QED BY <1>9, <1>12, <2>2
<1>13. CASE start < end
  <2>1. first = start /\ length = end - start /\ start # end
    BY <1>2, <1>7, <1>10, <1>13
  <2>2. \A k \in 0..(length - 1) : first + k < M
    BY <1>2, <1>13, <2>1
  <2>3. ASSUME t \in CpHours(line) PROVE day \in days /\ minute >= start /\ minute < end
    <3>1. PICK d \in days : \E k \in 0..(length - 1) : t = (d * M + first + k) % CpWeek
      BY <1>8, <2>3
    <3>2. PICK k \in 0..(length - 1) : t = (d * M + first + k) % CpWeek
      BY <3>1
    <3>3. d = day /\ minute = first + k
      BY <1>11, <2>2, <3>2
    <3> QED BY <1>2, <2>1, <3>3
  <2>4. ASSUME day \in days, minute >= start, minute < end PROVE t \in CpHours(line)
    <3>1. PICK k \in 0..(length - 1) : minute = first + k
      <4>1. minute - start \in 0..(length - 1) /\ minute = first + (minute - start)
        BY <1>2, <1>6, <2>1, <2>4
      <4> QED BY <4>1
    <3>2. t = (day * M + first + k) % CpWeek
      BY <1>11, <2>2, <2>4, <3>1
    <3> QED BY <1>8, <2>4, <3>2
  <2> QED BY <1>9, <1>13, <2>1, <2>3, <2>4
<1>14. CASE end < start
  <2>1. first = start /\ length = (end + M) - start /\ start # end /\ ~(start < end)
    BY <1>2, <1>7, <1>10, <1>14
  <2>2. ASSUME t \in CpHours(line)
        PROVE  (minute >= start /\ day \in days) \/ (minute < end /\ (day + D - 1) % D \in days)
    <3>1. PICK d \in days : \E k \in 0..(length - 1) : t = (d * M + first + k) % CpWeek
      BY <1>8, <2>2
    <3>2. PICK k \in 0..(length - 1) : t = (d * M + first + k) % CpWeek
      BY <3>1
    <3>3. CASE first + k < M
      BY <1>2, <1>11, <2>1, <3>2, <3>3
    <3>4. CASE ~(first + k < M)
      <4>1. (d + 1) % D = day /\ minute = (first + k) - M
        BY <1>11, <3>2, <3>4
      <4>2. d = (day + D - 1) % D
        BY <1>1, <1>4, <1>6, <4>1, CpDayBefore
      <4>3. minute < end
        BY <1>2, <2>1, <4>1
      <4> QED BY <4>2, <4>3
    <3> QED BY <3>3, <3>4
  <2>3. ASSUME minute >= start, day \in days PROVE t \in CpHours(line)
    <3>1. PICK k \in 0..(length - 1) : minute = first + k
      <4>1. minute - start \in 0..(length - 1) /\ minute = first + (minute - start)
        BY <1>2, <1>6, <2>1, <2>3
      <4> QED BY <4>1
    <3>2. t = (day * M + first + k) % CpWeek
      BY <1>6, <1>11, <2>3, <3>1
    <3> QED BY <1>8, <2>3, <3>2
  <2>4. ASSUME minute < end, (day + D - 1) % D \in days PROVE t \in CpHours(line)
    <3>1. PICK d \in days : d = (day + D - 1) % D
      BY <2>4
    <3>2. (d + 1) % D = day
      BY <1>1, <1>4, <1>6, <3>1, CpDayBefore
    <3>3. PICK k \in 0..(length - 1) : minute = (first + k) - M /\ ~(first + k < M)
      <4>1. (minute + M) - start \in 0..(length - 1)
        BY <1>2, <1>6, <2>1, <2>4
      <4>2. minute = (first + ((minute + M) - start)) - M /\ ~(first + ((minute + M) - start) < M)
        BY <1>2, <1>6, <2>1
      <4> QED BY <4>1, <4>2
    <3>4. t = (d * M + first + k) % CpWeek
      BY <1>11, <3>2, <3>3
    <3> QED BY <1>8, <3>4
  <2> QED BY <1>9, <1>14, <2>1, <2>2, <2>3, <2>4
<1> QED BY <1>2, <1>12, <1>13, <1>14

------------------------------------------------------------------------------
(* The lines of one kind *)
LEMMA CpOfIs ==
    ASSUME NEW lines \in Seq(CpLines), NEW kind
    PROVE  \A i \in DOMAIN CpOf(lines, kind) :
               CpOf(lines, kind)[i] = lines[i] /\ lines[i] \in CpLines /\ lines[i].kind = kind /\ i \in 1..Len(lines)
<1>1. DOMAIN lines = 1..Len(lines) /\ Len(lines) \in Nat /\ \A i \in 1..Len(lines) : lines[i] \in CpLines
  OBVIOUS
<1> QED BY <1>1 DEF CpOf

LEMMA CpMaxIs ==
    ASSUME NEW S \in SUBSET Nat, NEW m \in S, \A n \in S : n <= m
    PROVE  Max(S) = m
<1>1. \A x \in S : (\A n \in S : x >= n) => x = m
  OBVIOUS
<1>2. \A n \in S : m >= n
  OBVIOUS
<1> QED BY <1>1, <1>2 DEF Max

LEMMA CpMinIs ==
    ASSUME NEW S \in SUBSET Nat, NEW m \in S, \A n \in S : m <= n
    PROVE  Min(S) = m
<1>1. \A x \in S : (\A n \in S : x <= n) => x = m
  OBVIOUS
<1> QED BY <1>1 DEF Min

(* Who is under which rule *)
CpForce(rules, c, t) == {i \in DOMAIN rules : CpInForce(rules[i], c, t)}
CpTop(rules, force) == {i \in force : \A j \in force : rules[j].net.len <= rules[i].net.len}
CpMeant(rules, top) == IF top = {} THEN "filter" ELSE rules[Max(top)].profile

LEMMA CpFits ==
    ASSUME NEW line, line.net \in CpNetworks, CpNetworkOk(line.net), line.net.value < 2^CpBits[line.net.family],
           line.when \in CpWhen \cup {<<>>}, NEW c \in CpClients, NEW t \in 0..(CpWeek - 1)
    PROVE  CpContains(line.net, c) /\ CpApplies(line, t \div CpMinutes, t % CpMinutes) <=> CpInForce(line, c, t)
<1>1. CpContains(line.net, c) <=> CpCovers(line.net, c)
  BY CpHolds
<1>2. ASSUME line.when # <<>>
      PROVE  CpScheduleIsActive(CpScheduleOf(line), t \div CpMinutes, t % CpMinutes) <=> t \in CpHours(line)
  BY <1>2, CpOnTime
<1>3. CpApplies(line, t \div CpMinutes, t % CpMinutes) <=> line.when = <<>> \/ t \in CpHours(line)
  BY <1>2, Zenon DEF CpApplies
<1> QED BY <1>1, <1>3, Zenon DEF CpInForce

LEMMA CpDecides ==
    ASSUME NEW lines \in Seq(CpLines), NEW flags, CpValid(lines, flags),
           NEW c \in CpClients, NEW t \in 0..(CpWeek - 1)
    PROVE  CpDecision(CpOf(lines, "policy"), c, t \div CpMinutes, t % CpMinutes)
              = CpMeant(CpOf(lines, "policy"), CpTop(CpOf(lines, "policy"), CpForce(CpOf(lines, "policy"), c, t)))
<1>1. PICK rules : rules = CpOf(lines, "policy")
  OBVIOUS
<1>2. PICK n \in Nat : n = Len(lines)
  OBVIOUS
<1>3. \A i \in DOMAIN rules : rules[i] \in CpLines /\ rules[i].kind = "policy" /\ rules[i] = lines[i] /\ i \in 1..n
  <2>1. PICK kind : kind = "policy"
    OBVIOUS
  <2>2. rules = CpOf(lines, kind)
    BY <1>1, <2>1
  <2> QED BY <1>2, <2>1, <2>2, CpOfIs
<1>4. PICK day, minute : day = (t \div CpMinutes) /\ minute = t % CpMinutes
  OBVIOUS
<1>5. ASSUME NEW i \in DOMAIN rules
      PROVE  /\ rules[i].net.len \in Nat
             /\ CpContains(rules[i].net, c) /\ CpApplies(rules[i], day, minute) <=> CpInForce(rules[i], c, t)
  <2>1. PICK line \in CpLines : line = rules[i] /\ line.kind = "policy"
    BY <1>3
  <2>2. line.net \in CpNetworks /\ line.when \in CpWhen \cup {<<>>} /\ line.net.value < 2^CpBits[line.net.family]
    BY <2>1, CpLineIs
  <2>3. CpValidNetwork(lines[i].net)
    BY <1>2, <1>3 DEF CpValid
  <2>4. CpNetworkOk(line.net)
    BY <1>3, <2>1, <2>3 DEF CpValidNetwork, CpNetworkOk
  <2>5. CpContains(line.net, c) /\ CpApplies(line, t \div CpMinutes, t % CpMinutes) <=> CpInForce(line, c, t)
    BY <2>2, <2>4, CpFits
  <2>6. line.net.len \in Nat
    BY <2>2 DEF CpNetworks
  <2> QED BY <1>4, <2>1, <2>5, <2>6
<1>6. PICK force : force = CpForce(rules, c, t)
  OBVIOUS
<1>7. force = {i \in DOMAIN rules : CpContains(rules[i].net, c) /\ CpApplies(rules[i], day, minute)}
  BY <1>5, <1>6 DEF CpForce
<1>8. force \in SUBSET (1..n) /\ force \subseteq DOMAIN rules
  BY <1>3, <1>7
<1>9. PICK key \in [force -> Nat] : key = [i \in force |-> rules[i].net.len]
  BY <1>5, <1>8
<1>10. CpDecision(rules, c, day, minute)
          = IF CpBest(rules, key) = <<>> THEN "filter" ELSE CpBest(rules, key)[1].profile
  BY <1>7, <1>9, Zenon DEF CpDecision
<1>11. CASE force = {}
  <2>1. CpBest(rules, key) = <<>>
    BY <1>2, <1>8, <1>11, CpBestIs
  <2>2. CpTop(rules, force) = {}
    BY <1>11 DEF CpTop
  <2> QED BY <1>1, <1>4, <1>6, <1>10, <2>1, <2>2 DEF CpMeant
<1>12. CASE force # {}
  <2>1. PICK i \in force : /\ CpBest(rules, key) = <<rules[i]>>
                           /\ \A j \in force : key[j] < key[i] \/ (key[j] = key[i] /\ j <= i)
    <3>1. \E i \in force : /\ CpBest(rules, key) = <<rules[i]>>
                           /\ \A j \in force : key[j] < key[i] \/ (key[j] = key[i] /\ j <= i)
      BY <1>8, <1>12, CpBestIs, Zenon
    <3> QED BY <3>1, Zenon
  <2>2. \A j \in force : key[j] = rules[j].net.len /\ key[j] \in Nat /\ j \in Nat
    BY <1>8, <1>9
  <2>3. CpTop(rules, force) \in SUBSET Nat /\ i \in CpTop(rules, force)
    BY <2>1, <2>2 DEF CpTop
  <2>4. \A j \in CpTop(rules, force) : j <= i
    BY <2>1, <2>2 DEF CpTop
  <2>5. Max(CpTop(rules, force)) = i
    BY <2>3, <2>4, CpMaxIs
  <2>6. <<rules[i]>> # <<>> /\ <<rules[i]>>[1] = rules[i]
    OBVIOUS
  <2>7. CpDecision(rules, c, day, minute) = rules[i].profile
    BY <1>10, <2>1, <2>6
  <2>8. CpMeant(rules, CpTop(rules, force)) = rules[i].profile
    BY <2>3, <2>5 DEF CpMeant
  <2> QED BY <1>1, <1>4, <1>6, <2>7, <2>8
<1> QED BY <1>11, <1>12

------------------------------------------------------------------------------
(* What is accepted can be built. *)
LEMMA CpBuildable ==
    ASSUME NEW lines \in Seq(CpLines), NEW flags, CpValid(lines, flags)
    PROVE  CpBuilds(lines)
<1>1. SUFFICES ASSUME NEW i \in DOMAIN lines
               PROVE  /\ lines[i].kind = "policy" => lines[i].profile \in CpProfiles(lines)
                      /\ lines[i].kind \in {"policy", "client"} => CpNetworkOk(lines[i].net)
  BY DEF CpBuilds
<1>2. lines[i].kind \in {"policy", "client"} => CpNetworkOk(lines[i].net)
  BY DEF CpValid, CpValidNetwork, CpNetworkOk
<1>3. ASSUME lines[i].kind = "policy" PROVE lines[i].profile \in CpProfiles(lines)
  <2>1. i \in DOMAIN CpOf(lines, "policy") /\ CpOf(lines, "policy")[i] = lines[i]
    BY <1>3 DEF CpOf
  <2>2. lines[i].profile \in CpReserved \cup CpGroups(lines)
    BY <2>1 DEF CpValid, CpProfilesOk
  <2> QED BY <2>2 DEF CpProfiles
<1> QED BY <1>2, <1>3

------------------------------------------------------------------------------
(* Every route is a line for clients or for names. *)
LEMMA CpRouted ==
    ASSUME NEW lines \in Seq(CpLines), NEW flags, CpValid(lines, flags), NEW runtime, NEW name, NEW c,
           runtime.clients = CpOf(lines, "client"), runtime.domains = CpOf(lines, "domain"),
           CpSelect(runtime, name, c) # <<>>
    PROVE  \E i \in DOMAIN lines : /\ lines[i].kind \in {"client", "domain"}
                                   /\ CpSelect(runtime, name, c) = <<lines[i]>>
<1>1. PICK n \in Nat : n = Len(lines)
  OBVIOUS
<1>2. PICK clients, domains : clients = runtime.clients /\ domains = runtime.domains
  OBVIOUS
<1>3. /\ \A i \in DOMAIN clients : /\ clients[i] = lines[i] /\ clients[i] \in CpLines
                                   /\ clients[i].kind = "client" /\ i \in 1..n
      /\ \A i \in DOMAIN domains : /\ domains[i] = lines[i] /\ domains[i] \in CpLines
                                   /\ domains[i].kind = "domain" /\ i \in 1..n
  <2>1. PICK kind, other : kind = "client" /\ other = "domain"
    OBVIOUS
  <2>2. clients = CpOf(lines, kind) /\ domains = CpOf(lines, other)
    BY <1>2, <2>1
  <2> QED BY <1>1, <2>1, <2>2, CpOfIs
<1>4. PICK fit : fit = {i \in DOMAIN clients : CpContains(clients[i].net, c)}
  OBVIOUS
<1>5. fit \in SUBSET (1..n) /\ \A i \in fit : i \in DOMAIN clients /\ clients[i].net.len \in Nat
  <2>1. \A i \in DOMAIN clients : clients[i].net \in CpNetworks
    BY <1>3, CpLineIs
  <2> QED BY <1>3, <1>4, <2>1 DEF CpNetworks
<1>6. PICK key \in [fit -> Nat] : key = [i \in fit |-> clients[i].net.len]
  BY <1>5
<1>7. CpSelect(runtime, name, c) = IF CpBest(clients, key) # <<>> THEN CpBest(clients, key)
                                   ELSE CpSelectDomain(domains, name)
  BY <1>2, <1>4, <1>6, Zenon DEF CpSelect
<1>8. CASE fit # {}
  <2>1. PICK i \in fit : CpBest(clients, key) = <<clients[i]>>
    BY <1>1, <1>5, <1>8, CpBestIs
  <2>2. <<clients[i]>> # <<>>
    OBVIOUS
  <2> QED BY <1>1, <1>3, <1>5, <1>7, <2>1, <2>2
<1>9. CASE fit = {}
  <2>1. CpBest(clients, key) = <<>>
    BY <1>1, <1>5, <1>9, CpBestIs
  <2>2. CpSelect(runtime, name, c) = CpSelectDomain(domains, name)
    BY <1>7, <2>1
  <2>3. PICK of : of = {i \in DOMAIN domains : CpRouteMatches(domains[i], name)}
    OBVIOUS
  <2>4. of \in SUBSET (1..n) /\ of \subseteq DOMAIN domains
    BY <1>3, <2>3
  <2>5. ASSUME NEW i \in of PROVE 2 * Len(domains[i].name) + (IF domains[i].wild THEN 0 ELSE 1) \in Nat
    <3>1. domains[i].name \in Seq(STRING)
      BY <1>3, <2>4, CpLineIs DEF CpAnyName
    <3>2. PICK x \in Nat : x = Len(domains[i].name)
      BY <3>1
    <3>3. PICK y \in 0..1 : y = (IF domains[i].wild THEN 0 ELSE 1)
      OBVIOUS
    <3>4. 2 * x + y \in Nat
      OBVIOUS
    <3> QED BY <3>2, <3>3, <3>4, Zenon
  <2>6. PICK lengths \in [of -> Nat] :
          lengths = [i \in of |-> 2 * Len(domains[i].name) + (IF domains[i].wild THEN 0 ELSE 1)]
    BY <2>5
  <2>7. CpSelectDomain(domains, name) = CpBest(domains, lengths)
    BY <2>3, <2>6, Zenon DEF CpSelectDomain
  <2>8. CASE of = {}
    <3>1. CpBest(domains, lengths) = <<>>
      BY <1>1, <2>4, <2>8, CpBestIs
    <3> QED BY <2>2, <2>7, <3>1
  <2>9. CASE of # {}
    <3>1. PICK i \in of : CpBest(domains, lengths) = <<domains[i]>>
      BY <2>4, <2>9, CpBestIs, Zenon
    <3> QED BY <1>1, <1>3, <2>2, <2>4, <2>7, <3>1
  <2> QED BY <2>8, <2>9
<1> QED BY <1>8, <1>9

LEMMA CpSecure ==
    ASSUME NEW lines \in Seq(CpLines), NEW flags, CpValid(lines, flags), NEW runtime, NEW name, NEW c,
           runtime.clients = CpOf(lines, "client"), runtime.domains = CpOf(lines, "domain"),
           CpSelect(runtime, name, c) # <<>>, CpSelect(runtime, name, c)[1].scheme = "http"
    PROVE  flags.insecure /\ ~flags.dnssec
<1>1. PICK i \in DOMAIN lines : lines[i].kind \in {"client", "domain"} /\ CpSelect(runtime, name, c) = <<lines[i]>>
  BY CpRouted
<1>2. lines[i].scheme = "http"
  BY <1>1
<1> QED BY <1>1, <1>2 DEF CpValid, CpSchemeOk, CpDnssecOk

------------------------------------------------------------------------------
(* Taking step after step gives a function of the number of steps. *)
CpIterated(f, T, first, last, step) ==
    /\ f \in [0..last -> T]
    /\ f = [m \in 0..last |-> IF m = 0 THEN first ELSE step[<<m, f[m - 1]>>]]

LEMMA CpIterates ==
    ASSUME NEW T, NEW first \in T, NEW last \in Nat, NEW step \in [(1..last) \X T -> T]
    PROVE  \E f : CpIterated(f, T, first, last, step)
<1> DEFINE Goes(f, n) == f \in [0..n -> T] /\ f[0] = first /\ \A m \in 1..n : f[m] = step[<<m, f[m - 1]>>]
           S == {n \in Nat : n <= last => \E f : Goes(f, n)}
<1>1. 0 \in S
  <2>1. PICK f : f = [m \in 0..0 |-> first]
    OBVIOUS
  <2>2. f \in [0..0 -> T] /\ f[0] = first /\ 1..0 = {}
    BY <2>1
  <2>3. Goes(f, 0)
    BY <2>2
  <2> HIDE DEF Goes
  <2> QED BY <2>3
<1>2. ASSUME NEW n \in S PROVE n + 1 \in S
  <2>1. SUFFICES ASSUME n + 1 <= last PROVE \E g : Goes(g, n + 1)
    BY n \in Nat
  <2>2. n \in Nat /\ n <= last
    BY <2>1
  <2>3. PICK f : Goes(f, n)
    BY <2>2
  <2>4. PICK y : y = step[<<n + 1, f[n]>>]
    OBVIOUS
  <2>5. y \in T
    <3>1. n \in 0..n /\ n + 1 \in 1..last
      BY <2>1, <2>2
    <3>2. <<n + 1, f[n]>> \in (1..last) \X T
      BY <2>3, <3>1
    <3> QED BY <2>4, <3>2
  <2>6. PICK g : g = [m \in 0..(n + 1) |-> IF m = n + 1 THEN y ELSE f[m]]
    OBVIOUS
  <2>7. \A m \in 0..(n + 1) : m = n + 1 \/ (m \in 0..n /\ m # n + 1)
    BY <2>2
  <2>8. g \in [0..(n + 1) -> T]
    BY <2>3, <2>5, <2>6, <2>7
  <2>9. \A m \in 0..n : g[m] = f[m]
    BY <2>2, <2>6
  <2>10. g[n + 1] = y
    BY <2>2, <2>6
  <2>11. ASSUME NEW m \in 1..(n + 1) PROVE g[m] = step[<<m, g[m - 1]>>]
    <3>1. CASE m = n + 1
      <4>1. m - 1 = n /\ n \in 0..n
        BY <2>2, <3>1
      <4> QED BY <2>4, <2>9, <2>10, <3>1, <4>1
    <3>2. CASE m # n + 1
      <4>1. m \in 1..n /\ m \in 0..n /\ m - 1 \in 0..n
        BY <2>2, <3>2
      <4> QED BY <2>3, <2>9, <4>1
    <3> QED BY <3>1, <3>2
  <2>12. g[0] = first
    BY <2>2, <2>3, <2>9
  <2>13. Goes(g, n + 1)
    BY <2>8, <2>11, <2>12
  <2> HIDE DEF Goes
  <2> QED BY <2>13
<1>3. S = Nat
  <2>1. S \in SUBSET Nat
    OBVIOUS
  <2> HIDE DEF S
  <2> QED BY <1>1, <1>2, <2>1, RmAllNumbers
<1>4. last \in S
  <2> HIDE DEF S
  <2> QED BY <1>3
<1>5. PICK f : Goes(f, last)
  <2> HIDE DEF Goes
  <2> QED BY <1>4
<1>6. \A m \in 0..last : f[m] = IF m = 0 THEN first ELSE step[<<m, f[m - 1]>>]
  <2>1. \A m \in 0..last : m = 0 \/ m \in 1..last
    OBVIOUS
  <2> QED BY <1>5, <2>1
<1>7. f = [m \in 0..last |-> f[m]] /\ f \in [0..last -> T]
  BY <1>5
<1>8. f = [m \in 0..last |-> IF m = 0 THEN first ELSE step[<<m, f[m - 1]>>]]
  BY <1>6, <1>7, Zenon
<1> QED BY <1>7, <1>8, Zenon DEF CpIterated

------------------------------------------------------------------------------
(* The tables of rewrites *)
CpTarget == [CpFamilies -> CpAddress \cup {"none"}]
CpTable == UNION {[D -> CpTarget] : D \in SUBSET CpAnyName}
CpTables == [exact : CpTable, wildcard : CpTable]

LEMMA CpTableIs ==
    ASSUME NEW t
    PROVE  t \in CpTable <=> /\ t = [n \in DOMAIN t |-> t[n]] /\ DOMAIN t \subseteq CpAnyName
                             /\ \A n \in DOMAIN t : t[n] \in CpTarget
<1>1. ASSUME t \in CpTable
      PROVE  t = [n \in DOMAIN t |-> t[n]] /\ DOMAIN t \subseteq CpAnyName /\ \A n \in DOMAIN t : t[n] \in CpTarget
  <2>1. PICK D \in SUBSET CpAnyName : t \in [D -> CpTarget]
    BY <1>1 DEF CpTable
  <2> QED BY <2>1
<1>2. ASSUME t = [n \in DOMAIN t |-> t[n]], DOMAIN t \subseteq CpAnyName, \A n \in DOMAIN t : t[n] \in CpTarget
      PROVE  t \in CpTable
  <2>1. PICK D : D = DOMAIN t
    OBVIOUS
  <2>2. t = [n \in D |-> t[n]] /\ D \in SUBSET CpAnyName /\ \A n \in D : t[n] \in CpTarget
    BY <1>2, <2>1
  <2>3. t \in [D -> CpTarget]
    BY <2>2
  <2> QED BY <2>2, <2>3 DEF CpTable
<1> QED BY <1>1, <1>2

LEMMA CpNothing == CpNoTarget \in CpTarget /\ \A f \in CpFamilies : CpNoTarget[f] = "none"
<1>1. PICK a : a = "none" /\ a \in CpAddress \cup {"none"}
  OBVIOUS
<1>2. CpNoTarget = [f \in CpFamilies |-> a]
  BY <1>1 DEF CpNoTarget
<1> QED BY <1>1, <1>2 DEF CpTarget

CpPutRight(t, u, name, family, address) ==
    /\ u \in CpTable /\ DOMAIN u = DOMAIN t \cup {name}
    /\ \A n \in DOMAIN t : n # name => u[n] = t[n]
    /\ u[name][family] = address
    /\ \A f \in CpFamilies : f # family => u[name][f] = IF name \in DOMAIN t THEN t[name][f] ELSE "none"

LEMMA CpPutIs ==
    ASSUME NEW t \in CpTable, NEW name \in CpAnyName, NEW family \in CpFamilies, NEW address \in CpAddress
    PROVE  CpPutRight(t, CpPut(t, name, family, address), name, family, address)
<1>1. PICK u : u = CpPut(t, name, family, address)
  OBVIOUS
<1>2. PICK old : old = (IF name \in DOMAIN t THEN t[name] ELSE CpNoTarget)
  OBVIOUS
<1>3. PICK new : new = [old EXCEPT ![family] = address]
  OBVIOUS
<1>4. u = [n \in DOMAIN t \cup {name} |-> IF n = name THEN new ELSE t[n]]
  <2>1. u = [n \in DOMAIN t \cup {name} |->
                IF n = name THEN [(IF n \in DOMAIN t THEN t[n] ELSE CpNoTarget) EXCEPT ![family] = address]
                ELSE t[n]]
    BY <1>1, Zenon DEF CpPut
  <2>2. \A n \in DOMAIN t \cup {name} :
            (IF n = name THEN [(IF n \in DOMAIN t THEN t[n] ELSE CpNoTarget) EXCEPT ![family] = address]
             ELSE t[n]) = (IF n = name THEN new ELSE t[n])
    BY <1>2, <1>3, Zenon
  <2> QED BY <2>1, <2>2, Zenon
<1>5. old \in CpTarget /\ \A f \in CpFamilies : old[f] = IF name \in DOMAIN t THEN t[name][f] ELSE "none"
  <2>1. CpNoTarget \in CpTarget /\ \A f \in CpFamilies : CpNoTarget[f] = "none"
    BY CpNothing
  <2>2. name \in DOMAIN t => t[name] \in CpTarget
    BY CpTableIs
  <2> QED BY <1>2, <2>1, <2>2
<1>6. new \in CpTarget /\ \A f \in CpFamilies : new[f] = IF f = family THEN address ELSE old[f]
  BY <1>3, <1>5 DEF CpTarget
<1>7. DOMAIN u = DOMAIN t \cup {name} /\ u[name] = new /\ \A n \in DOMAIN t : n # name => u[n] = t[n]
  BY <1>4
<1>8. u \in CpTable
  <2>1. \A n \in DOMAIN t : t[n] \in CpTarget /\ n \in CpAnyName
    BY CpTableIs
  <2>2. u = [n \in DOMAIN u |-> u[n]] /\ DOMAIN u \subseteq CpAnyName /\ \A n \in DOMAIN u : u[n] \in CpTarget
    BY <1>4, <1>6, <1>7, <2>1
  <2> QED BY <2>2, CpTableIs
<1>9. u[name][family] = address
  BY <1>6, <1>7
<1>10. \A f \in CpFamilies : f # family => u[name][f] = IF name \in DOMAIN t THEN t[name][f] ELSE "none"
  BY <1>5, <1>6, <1>7
<1>11. CpPutRight(t, u, name, family, address)
  BY <1>7, <1>8, <1>9, <1>10, Zenon DEF CpPutRight
<1> QED BY <1>1, <1>11

(* What the first n lines say: which of them name a name, and which give it  *)
(* an address of a family; the last one counts.                              *)
CpNaming(lines, n, w, name) ==
    {i \in 1..n : lines[i].kind = "rewrite" /\ lines[i].wild = w /\ lines[i].name = name}
CpGiving(lines, n, w, name, f) == {i \in CpNaming(lines, n, w, name) : lines[i].family = f}
CpLastOf(lines, S) == IF S = {} THEN "none" ELSE lines[Max(S)].address
CpTableSays(t, lines, n, w) ==
    /\ t \in CpTable
    /\ \A name \in CpAnyName :
          /\ name \in DOMAIN t <=> CpNaming(lines, n, w, name) # {}
          /\ name \in DOMAIN t =>
                \A f \in CpFamilies : t[name][f] = CpLastOf(lines, CpGiving(lines, n, w, name, f))

LEMMA CpOtherLine ==
    ASSUME NEW lines, NEW n \in Nat, NEW w, NEW t, CpTableSays(t, lines, n, w),
           ~(lines[n + 1].kind = "rewrite" /\ lines[n + 1].wild = w)
    PROVE  CpTableSays(t, lines, n + 1, w)
<1>1. \A i : i \in 1..(n + 1) <=> i \in 1..n \/ i = n + 1
  OBVIOUS
<1>2. \A name : CpNaming(lines, n + 1, w, name) = CpNaming(lines, n, w, name)
  BY <1>1 DEF CpNaming
<1>3. \A name, f : CpGiving(lines, n + 1, w, name, f) = CpGiving(lines, n, w, name, f)
  BY <1>2, Zenon DEF CpGiving
<1> QED BY <1>2, <1>3, Zenon DEF CpTableSays

LEMMA CpNewLine ==
    ASSUME NEW lines \in Seq(CpLines), NEW n \in Nat, n + 1 \in 1..Len(lines), NEW w, NEW t,
           CpTableSays(t, lines, n, w), NEW l, l = lines[n + 1], l.kind = "rewrite", l.wild = w
    PROVE  CpTableSays(CpPut(t, l.name, l.family, l.address), lines, n + 1, w)
<1>1. l \in CpLines
  OBVIOUS
<1>2. l.name \in CpAnyName /\ l.family \in CpFamilies /\ l.address \in CpAddress
  BY <1>1, CpLineIs
<1>3. PICK own, family, address : own = l.name /\ family = l.family /\ address = l.address
  OBVIOUS
<1>4. PICK u : u = CpPut(t, own, family, address)
  OBVIOUS
<1>5. t \in CpTable
  BY Zenon DEF CpTableSays
<1>6. /\ u \in CpTable
      /\ DOMAIN u = DOMAIN t \cup {own}
      /\ \A x \in DOMAIN t : x # own => u[x] = t[x]
      /\ u[own][family] = address
      /\ \A f \in CpFamilies : f # family => u[own][f] = IF own \in DOMAIN t THEN t[own][f] ELSE "none"
  <2>1. own \in CpAnyName /\ family \in CpFamilies /\ address \in CpAddress
    BY <1>2, <1>3
  <2>2. CpPutRight(t, u, own, family, address)
    BY <1>4, <1>5, <2>1, CpPutIs
  <2> QED BY <2>2, Zenon DEF CpPutRight
<1>7. \A i : i \in 1..(n + 1) <=> i \in 1..n \/ i = n + 1
  OBVIOUS
<1>8. \A x : x # own => CpNaming(lines, n + 1, w, x) = CpNaming(lines, n, w, x)
  BY <1>3, <1>7 DEF CpNaming
<1>9. n + 1 \in CpNaming(lines, n + 1, w, own)
  BY <1>3 DEF CpNaming
<1>10. \A x, f : x # own \/ f # family => CpGiving(lines, n + 1, w, x, f) = CpGiving(lines, n, w, x, f)
  <2>1. \A f : f # family => CpGiving(lines, n + 1, w, own, f) = CpGiving(lines, n, w, own, f)
    BY <1>3, <1>7 DEF CpNaming, CpGiving
  <2>2. SUFFICES ASSUME NEW x, NEW f, x # own \/ f # family
                 PROVE  CpGiving(lines, n + 1, w, x, f) = CpGiving(lines, n, w, x, f)
    OBVIOUS
  <2>3. CASE x # own
    BY <1>8, <2>3, Zenon DEF CpGiving
  <2>4. CASE x = own /\ f # family
    BY <2>1, <2>4, Zenon
  <2> QED BY <2>2, <2>3, <2>4
<1>11. n + 1 \in CpGiving(lines, n + 1, w, own, family)
  BY <1>3, <1>9 DEF CpGiving
<1>12. CpLastOf(lines, CpGiving(lines, n + 1, w, own, family)) = address
  <2>1. PICK G : G = CpGiving(lines, n + 1, w, own, family)
    OBVIOUS
  <2>2. G \in SUBSET Nat /\ n + 1 \in G /\ \A i \in G : i <= n + 1
    BY <1>11, <2>1 DEF CpGiving, CpNaming
  <2>3. Max(G) = n + 1
    <3>1. PICK m \in G : m = n + 1
      BY <2>2
    <3> QED BY <2>2, <3>1, CpMaxIs
  <2> QED BY <1>3, <2>1, <2>2, <2>3 DEF CpLastOf
<1>13. ASSUME NEW x \in CpAnyName
       PROVE  /\ x \in DOMAIN u <=> CpNaming(lines, n + 1, w, x) # {}
              /\ x \in DOMAIN u =>
                   \A f \in CpFamilies : u[x][f] = CpLastOf(lines, CpGiving(lines, n + 1, w, x, f))
  <2>1. /\ x \in DOMAIN t <=> CpNaming(lines, n, w, x) # {}
        /\ x \in DOMAIN t => \A f \in CpFamilies : t[x][f] = CpLastOf(lines, CpGiving(lines, n, w, x, f))
    BY Zenon DEF CpTableSays
  <2>2. CASE x # own
    <3>1. (x \in DOMAIN u <=> x \in DOMAIN t) /\ (x \in DOMAIN t => u[x] = t[x])
      BY <1>6, <2>2
    <3>2. CpNaming(lines, n + 1, w, x) = CpNaming(lines, n, w, x)
      BY <1>8, <2>2
    <3>3. \A f : CpGiving(lines, n + 1, w, x, f) = CpGiving(lines, n, w, x, f)
      BY <1>10, <2>2
    <3> QED BY <2>1, <3>1, <3>2, <3>3, Zenon
  <2>3. CASE x = own
    <3>1. x \in DOMAIN u /\ CpNaming(lines, n + 1, w, x) # {}
      BY <1>6, <1>9, <2>3
    <3>2. ASSUME NEW f \in CpFamilies PROVE u[x][f] = CpLastOf(lines, CpGiving(lines, n + 1, w, x, f))
      <4>1. CASE f = family
        BY <1>6, <1>12, <2>3, <4>1, Zenon
      <4>2. CASE f # family
        <5>1. CpGiving(lines, n + 1, w, x, f) = CpGiving(lines, n, w, x, f)
          BY <1>10, <4>2
        <5>2. CASE x \in DOMAIN t
          BY <1>6, <2>1, <2>3, <4>2, <5>1, <5>2, Zenon
        <5>3. CASE x \notin DOMAIN t
          <6>1. CpGiving(lines, n, w, x, f) = {}
            BY <2>1, <5>3 DEF CpGiving
          <6>2. CpLastOf(lines, CpGiving(lines, n + 1, w, x, f)) = "none"
            BY <5>1, <6>1 DEF CpLastOf
          <6> QED BY <1>6, <2>3, <4>2, <5>3, <6>2
        <5> QED BY <5>2, <5>3
      <4> QED BY <4>1, <4>2
    <3> QED BY <3>1, <3>2
  <2> QED BY <2>2, <2>3
<1>14. CpTableSays(u, lines, n + 1, w)
  BY <1>6, <1>13, Zenon DEF CpTableSays
<1> QED BY <1>3, <1>4, <1>14

CpRewritesSay(rw, lines, n) ==
    rw \in CpTables /\ CpTableSays(rw.exact, lines, n, FALSE) /\ CpTableSays(rw.wildcard, lines, n, TRUE)

LEMMA CpSaidAtFirst ==
    ASSUME NEW lines
    PROVE  CpRewritesSay(CpNoRewrites, lines, 0)
<1>1. PICK t : t = [n \in {} |-> CpNoTarget]
  OBVIOUS
<1>2. t \in CpTable /\ DOMAIN t = {}
  BY <1>1, CpTableIs
<1>3. \A w, name : CpNaming(lines, 0, w, name) = {}
  <2>1. 1..0 = {}
    OBVIOUS
  <2> QED BY <2>1 DEF CpNaming
<1>4. \A w : CpTableSays(t, lines, 0, w)
  BY <1>2, <1>3, Zenon DEF CpTableSays
<1>5. CpNoRewrites = [exact |-> t, wildcard |-> t]
  BY <1>1, Zenon DEF CpNoRewrites
<1>6. CpNoRewrites \in CpTables /\ CpNoRewrites.exact = t /\ CpNoRewrites.wildcard = t
  BY <1>2, <1>5 DEF CpTables
<1> QED BY <1>4, <1>6, Zenon DEF CpRewritesSay

LEMMA CpRewrittenTyped ==
    ASSUME NEW l \in CpLines, NEW rw \in CpTables
    PROVE  CpRewritten(rw, l) \in CpTables
<1>1. rw.exact \in CpTable /\ rw.wildcard \in CpTable
  BY DEF CpTables
<1>2. CASE l.kind # "rewrite"
  BY <1>2 DEF CpRewritten
<1>3. CASE l.kind = "rewrite"
  <2>1. l.name \in CpAnyName /\ l.family \in CpFamilies /\ l.address \in CpAddress /\ l.wild \in BOOLEAN
    BY <1>3, CpLineIs
  <2>2. PICK name, family, address : name = l.name /\ family = l.family /\ address = l.address
    OBVIOUS
  <2>3. \A t \in CpTable : CpPut(t, name, family, address) \in CpTable
    <3>1. TAKE t \in CpTable
    <3>2. CpPutRight(t, CpPut(t, name, family, address), name, family, address)
      BY <2>1, <2>2, CpPutIs
    <3> QED BY <3>2, Zenon DEF CpPutRight
  <2>4. PICK u, v \in CpTable : u = CpPut(rw.exact, name, family, address) /\ v = CpPut(rw.wildcard, name, family, address)
    BY <1>1, <2>3, Zenon
  <2>5. \/ CpRewritten(rw, l) = [exact |-> rw.exact, wildcard |-> v]
        \/ CpRewritten(rw, l) = [exact |-> u, wildcard |-> rw.wildcard]
    BY <1>3, <2>1, <2>2, <2>4, Zenon DEF CpRewritten
  <2> QED BY <1>1, <2>5 DEF CpTables
<1> QED BY <1>2, <1>3

LEMMA CpSaidNext ==
    ASSUME NEW lines \in Seq(CpLines), NEW n \in Nat, n + 1 \in 1..Len(lines), NEW rw, CpRewritesSay(rw, lines, n)
    PROVE  CpRewritesSay(CpRewritten(rw, lines[n + 1]), lines, n + 1)
<1>1. PICK l \in CpLines : l = lines[n + 1]
  OBVIOUS
<1>2. PICK q : q = CpRewritten(rw, l)
  OBVIOUS
<1>3. PICK no, yes : no = FALSE /\ yes = TRUE
  OBVIOUS
<1>4. rw \in CpTables /\ CpTableSays(rw.exact, lines, n, no) /\ CpTableSays(rw.wildcard, lines, n, yes)
  BY <1>3, Zenon DEF CpRewritesSay
<1>5. q \in CpTables
  BY <1>2, <1>4, CpRewrittenTyped
<1>6. PICK e, w : e = rw.exact /\ w = rw.wildcard
  OBVIOUS
<1>7. l.kind = "rewrite" => l.wild = no \/ l.wild = yes
  BY <1>1, <1>3, CpLineIs
<1>8. no # yes
  BY <1>3
<1>9. CASE l.kind # "rewrite"
  <2>1. q = rw
    BY <1>2, <1>9, Zenon DEF CpRewritten
  <2>2. CpTableSays(e, lines, n + 1, no) /\ CpTableSays(w, lines, n + 1, yes)
    BY <1>1, <1>4, <1>6, <1>9, CpOtherLine
  <2> QED BY <1>1, <1>2, <1>3, <1>4, <1>6, <2>1, <2>2, Zenon DEF CpRewritesSay
<1>10. CASE l.kind = "rewrite" /\ l.wild = yes
  <2>1. PICK v : v = CpPut(w, l.name, l.family, l.address)
    OBVIOUS
  <2>2. q = [exact |-> e, wildcard |-> v]
    BY <1>2, <1>3, <1>6, <1>10, <2>1, Zenon DEF CpRewritten
  <2>3. CpTableSays(e, lines, n + 1, no)
    BY <1>1, <1>4, <1>6, <1>8, <1>10, CpOtherLine
  <2>4. CpTableSays(v, lines, n + 1, yes)
    BY <1>1, <1>4, <1>6, <1>10, <2>1, CpNewLine
  <2>5. q.exact = e /\ q.wildcard = v
    BY <2>2
  <2> QED BY <1>1, <1>2, <1>3, <1>5, <2>3, <2>4, <2>5, Zenon DEF CpRewritesSay
<1>11. CASE l.kind = "rewrite" /\ l.wild = no
  <2>1. PICK v : v = CpPut(e, l.name, l.family, l.address)
    OBVIOUS
  <2>2. q = [exact |-> v, wildcard |-> w]
    BY <1>2, <1>3, <1>6, <1>11, <2>1, Zenon DEF CpRewritten
  <2>3. CpTableSays(w, lines, n + 1, yes)
    BY <1>1, <1>4, <1>6, <1>8, <1>11, CpOtherLine
  <2>4. CpTableSays(v, lines, n + 1, no)
    BY <1>1, <1>4, <1>6, <1>11, <2>1, CpNewLine
  <2>5. q.exact = v /\ q.wildcard = w
    BY <2>2
  <2> QED BY <1>1, <1>2, <1>3, <1>5, <2>3, <2>4, <2>5, Zenon DEF CpRewritesSay
<1> QED BY <1>7, <1>9, <1>10, <1>11

LEMMA CpCompiled ==
    ASSUME NEW lines \in Seq(CpLines)
    PROVE  CpRewritesSay(CpCompileRewrites(lines), lines, Len(lines))
<1>1. PICK last \in Nat : last = Len(lines)
  OBVIOUS
<1>2. PICK first \in CpTables : first = CpNoRewrites
  BY CpSaidAtFirst DEF CpRewritesSay
<1> DEFINE Goes(f) == f = [n \in 0..Len(lines) |-> IF n = 0 THEN CpNoRewrites ELSE CpRewritten(f[n - 1], lines[n])]
<1>3. \E f : Goes(f)
  <2>1. PICK step : step = [p \in (1..last) \X CpTables |-> CpRewritten(p[2], lines[p[1]])]
    OBVIOUS
  <2>2. \A m \in 1..last : \A rw \in CpTables : step[<<m, rw>>] = CpRewritten(rw, lines[m])
    BY <2>1
  <2>3. step \in [(1..last) \X CpTables -> CpTables]
    <3>1. ASSUME NEW p \in (1..last) \X CpTables PROVE CpRewritten(p[2], lines[p[1]]) \in CpTables
      <4>1. PICK l \in CpLines : l = lines[p[1]]
        BY <1>1
      <4>2. PICK rw \in CpTables : rw = p[2]
        OBVIOUS
      <4> QED BY <4>1, <4>2, CpRewrittenTyped
    <3> QED BY <2>1, <3>1
  <2>4. PICK f : CpIterated(f, CpTables, first, last, step)
    BY <2>3, CpIterates
  <2>5. ASSUME NEW m \in 0..last
        PROVE  (IF m = 0 THEN first ELSE step[<<m, f[m - 1]>>])
                 = (IF m = 0 THEN CpNoRewrites ELSE CpRewritten(f[m - 1], lines[m]))
    <3>1. CASE m = 0
      BY <1>2, <3>1
    <3>2. CASE m # 0
      <4>1. m \in 1..last /\ f[m - 1] \in CpTables
        BY <2>4, <3>2 DEF CpIterated
      <4> QED BY <2>2, <3>2, <4>1
    <3> QED BY <3>1, <3>2
  <2>6. f = [m \in 0..last |-> IF m = 0 THEN CpNoRewrites ELSE CpRewritten(f[m - 1], lines[m])]
    BY <2>4, <2>5, Zenon DEF CpIterated
  <2> QED BY <1>1, <2>6, Zenon
<1>4. PICK t : t = CHOOSE f : Goes(f)
  OBVIOUS
<1>5. Goes(t)
  <2> HIDE DEF Goes
  <2> QED BY <1>3, <1>4
<1>6. CpCompileRewrites(lines) = t[last]
  BY <1>1, <1>4, Zenon DEF CpCompileRewrites
<1>7. \A m \in 0..last : t[m] = IF m = 0 THEN CpNoRewrites ELSE CpRewritten(t[m - 1], lines[m])
  BY <1>1, <1>5, Zenon
<1> DEFINE S == {m \in Nat : m <= last => CpRewritesSay(t[m], lines, m)}
<1>8. 0 \in S
  <2>1. t[0] = CpNoRewrites
    BY <1>7, 0 \in 0..last
  <2> QED BY <2>1, CpSaidAtFirst
<1>9. ASSUME NEW m \in S PROVE m + 1 \in S
  <2>1. SUFFICES ASSUME m + 1 <= last PROVE CpRewritesSay(t[m + 1], lines, m + 1)
    BY m \in Nat
  <2>2. m \in Nat /\ CpRewritesSay(t[m], lines, m) /\ m + 1 \in 1..Len(lines) /\ m + 1 \in 0..last /\ m + 1 # 0
    BY <1>1, <2>1
  <2>3. (m + 1) - 1 = m
    BY <2>2
  <2>4. t[m + 1] = CpRewritten(t[m], lines[m + 1])
    BY <1>7, <2>2, <2>3
  <2>5. PICK rw : rw = t[m]
    OBVIOUS
  <2>6. CpRewritesSay(CpRewritten(rw, lines[m + 1]), lines, m + 1)
    BY <2>2, <2>5, CpSaidNext
  <2> QED BY <2>4, <2>5, <2>6
<1>10. S = Nat
  <2>1. S \in SUBSET Nat
    OBVIOUS
  <2> HIDE DEF S
  <2> QED BY <1>8, <1>9, <2>1, RmAllNumbers
<1>11. last \in S
  <2> HIDE DEF S
  <2> QED BY <1>10
<1> QED BY <1>1, <1>6, <1>11

------------------------------------------------------------------------------
(* Names above a name *)
LEMMA CpAboveIs ==
    ASSUME NEW b \in CpAnyName, NEW name \in CpAnyName, IsSuffix(b, name)
    PROVE  /\ Len(b) \in 1..Len(name) /\ Len(name) \in Nat
           /\ b = SubSeq(name, (Len(name) - Len(b)) + 1, Len(name))
<1>1. RmIsName(b) /\ RmIsName(name)
  BY DEF CpAnyName, RmIsName, Range
<1>2. PICK m, n \in Nat : m = Len(b) /\ n = Len(name)
  BY DEF CpAnyName
<1>3. PICK c \in 1..n : b = SubSeq(name, c, n)
  BY <1>1, <1>2, RmSuffixes DEF RmWithin
<1>4. Len(SubSeq(name, c, n)) = (n - c) + 1
  BY <1>2, <1>3 DEF CpAnyName
<1>5. m = (n - c) + 1
  BY <1>2, <1>3, <1>4
<1>6. c = (n - m) + 1 /\ m \in 1..n
  BY <1>2, <1>5
<1> QED BY <1>2, <1>3, <1>6

LEMMA CpSameAbove ==
    ASSUME NEW a \in CpAnyName, NEW b \in CpAnyName, NEW name \in CpAnyName,
           IsSuffix(a, name), IsSuffix(b, name), Len(a) = Len(b)
    PROVE  a = b
<1>1. a = SubSeq(name, (Len(name) - Len(a)) + 1, Len(name))
  BY CpAboveIs, Zenon
<1>2. b = SubSeq(name, (Len(name) - Len(b)) + 1, Len(name))
  BY CpAboveIs, Zenon
<1> QED BY <1>1, <1>2, Zenon

LEMMA CpLongest ==
    ASSUME NEW name \in CpAnyName, NEW bases \in SUBSET CpAnyName, bases # {}, \A b \in bases : IsSuffix(b, name)
    PROVE  \E b \in bases : \A c \in bases : Len(c) <= Len(b)
<1>1. \A b \in bases : Len(b) \in Nat /\ Len(b) <= Len(name) /\ Len(name) \in Nat
  BY CpAboveIs
<1>2. PICK S : S = {Len(name) - Len(b) : b \in bases}
  OBVIOUS
<1>3. S \in SUBSET Nat /\ S # {}
  BY <1>1, <1>2
<1>4. PICK x \in S : \A y \in S : x <= y
  BY <1>3, RmLeast
<1>5. PICK b \in bases : x = Len(name) - Len(b)
  BY <1>2
<1>6. \A c \in bases : Len(c) <= Len(b)
  <2>1. TAKE c \in bases
  <2>2. x <= Len(name) - Len(c)
    BY <1>2, <1>4
  <2> QED BY <1>1, <1>5, <2>2
<1> QED BY <1>6

(* What the lines say of a name: its own if there are any, or else those for *)
(* the longest name above it                                                 *)
CpAboveLines(lines, n, name) ==
    {i \in 1..n : lines[i].kind = "rewrite" /\ lines[i].wild = TRUE /\ IsSuffix(lines[i].name, name)}
CpNearest(lines, n, name) ==
    {i \in CpAboveLines(lines, n, name) :
        \A j \in CpAboveLines(lines, n, name) : Len(lines[j].name) <= Len(lines[i].name)}
CpMeantFor(lines, n, name) ==
    IF CpNaming(lines, n, FALSE, name) # {} THEN CpNaming(lines, n, FALSE, name) ELSE CpNearest(lines, n, name)
CpGivenTo(lines, n, name, f) == {i \in CpMeantFor(lines, n, name) : lines[i].family = f}

CpChosen(lines, n, name, t, b) ==
    /\ b \in DOMAIN t
    /\ b = CHOOSE x \in CpBelow(name, t) : \A c \in CpBelow(name, t) : Len(c) <= Len(x)
    /\ CpNearest(lines, n, name) = CpNaming(lines, n, TRUE, b)

LEMMA CpNearestIs ==
    ASSUME NEW lines \in Seq(CpLines), NEW n \in Nat, n = Len(lines), NEW name \in CpAnyName,
           NEW t, CpTableSays(t, lines, n, TRUE)
    PROVE  /\ CpBelow(name, t) = {} => CpNearest(lines, n, name) = {}
           /\ CpBelow(name, t) # {} => \E b : CpChosen(lines, n, name, t, b)
<1>1. PICK bases : bases = CpBelow(name, t)
  OBVIOUS
<1>2. PICK above : above = CpAboveLines(lines, n, name)
  OBVIOUS
<1>3. t \in CpTable /\ DOMAIN t \subseteq CpAnyName
  <2>1. t \in CpTable
    BY Zenon DEF CpTableSays
  <2> QED BY <2>1, CpTableIs
<1>4. bases \in SUBSET CpAnyName /\ bases \subseteq DOMAIN t /\ \A b \in bases : IsSuffix(b, name)
  BY <1>1, <1>3 DEF CpBelow
<1>5. \A i \in 1..n : lines[i].kind = "rewrite" => lines[i].name \in CpAnyName
  <2>1. \A i \in 1..n : lines[i] \in CpLines
    OBVIOUS
  <2> QED BY <2>1, CpLineIs
<1>6. ASSUME NEW b \in CpAnyName
      PROVE  b \in DOMAIN t <=> \E i \in 1..n : lines[i].kind = "rewrite" /\ lines[i].wild = TRUE /\ lines[i].name = b
  <2>1. b \in DOMAIN t <=> CpNaming(lines, n, TRUE, b) # {}
    BY Zenon DEF CpTableSays
  <2> QED BY <2>1 DEF CpNaming
<1>7. \A i \in above : lines[i].name \in bases /\ i \in 1..n /\ lines[i].name \in CpAnyName
  BY <1>1, <1>2, <1>5, <1>6 DEF CpAboveLines, CpBelow
<1>8. ASSUME NEW b \in bases PROVE \E i \in above : lines[i].name = b
  BY <1>2, <1>4, <1>6 DEF CpAboveLines
<1>9. CASE bases = {}
  <2>1. above = {}
    BY <1>7, <1>9
  <2>2. CpNearest(lines, n, name) = {}
    BY <1>2, <2>1 DEF CpNearest
  <2> QED BY <1>1, <1>9, <2>2
<1>10. CASE bases # {}
  <2>1. PICK b : b = CHOOSE x \in bases : \A c \in bases : Len(c) <= Len(x)
    OBVIOUS
  <2>2. b \in bases /\ \A c \in bases : Len(c) <= Len(b)
    BY <1>4, <1>10, <2>1, CpLongest
  <2>3. \A c \in bases : Len(c) \in Nat
    BY <1>4 DEF CpAnyName
  <2>4. PICK j \in above : lines[j].name = b
    BY <1>8, <2>2
  <2>5. ASSUME NEW i \in CpNearest(lines, n, name) PROVE i \in CpNaming(lines, n, TRUE, b)
    <3>1. i \in above /\ Len(lines[j].name) <= Len(lines[i].name)
      BY <1>2, <2>4, <2>5 DEF CpNearest
    <3>2. lines[i].name \in bases /\ Len(lines[i].name) <= Len(b)
      BY <1>7, <2>2, <3>1
    <3>3. Len(lines[i].name) = Len(b)
      BY <2>2, <2>3, <2>4, <3>1, <3>2
    <3>4. lines[i].name = b
      BY <1>4, <2>2, <3>2, <3>3, CpSameAbove
    <3> QED BY <1>2, <3>1, <3>4 DEF CpAboveLines, CpNaming
  <2>6. ASSUME NEW i \in CpNaming(lines, n, TRUE, b) PROVE i \in CpNearest(lines, n, name)
    <3>1. i \in above /\ lines[i].name = b
      BY <1>2, <1>4, <2>2, <2>6 DEF CpAboveLines, CpNaming
    <3>2. \A k \in above : Len(lines[k].name) <= Len(lines[i].name)
      BY <1>7, <2>2, <3>1
    <3> QED BY <1>2, <3>1, <3>2 DEF CpNearest
  <2>7. CpNearest(lines, n, name) = CpNaming(lines, n, TRUE, b)
    BY <2>5, <2>6
  <2>8. CpChosen(lines, n, name, t, b)
    BY <1>1, <1>4, <2>1, <2>2, <2>7, Zenon DEF CpChosen
  <2> QED BY <1>1, <1>10, <2>8
<1> QED BY <1>9, <1>10

LEMMA CpLookedUp ==
    ASSUME NEW lines \in Seq(CpLines), NEW rw, CpRewritesSay(rw, lines, Len(lines)), NEW name \in CpAnyName
    PROVE  /\ CpLookup(rw, name) \in CpTarget
           /\ \A f \in CpFamilies : CpLookup(rw, name)[f] = CpLastOf(lines, CpGivenTo(lines, Len(lines), name, f))
<1>1. PICK n \in Nat : n = Len(lines)
  OBVIOUS
<1>2. PICK e, w : e = rw.exact /\ w = rw.wildcard
  OBVIOUS
<1>3. CpTableSays(e, lines, n, FALSE) /\ CpTableSays(w, lines, n, TRUE)
  BY <1>1, <1>2, Zenon DEF CpRewritesSay
<1>4. e \in CpTable /\ w \in CpTable
  BY <1>3, Zenon DEF CpTableSays
<1>5. /\ name \in DOMAIN e <=> CpNaming(lines, n, FALSE, name) # {}
      /\ name \in DOMAIN e =>
            \A f \in CpFamilies : e[name][f] = CpLastOf(lines, CpGiving(lines, n, FALSE, name, f))
  BY <1>3, Zenon DEF CpTableSays
<1>6. CASE name \in DOMAIN e
  <2>1. CpLookup(rw, name) = e[name]
    BY <1>2, <1>6, Zenon DEF CpLookup
  <2>2. e[name] \in CpTarget
    BY <1>4, <1>6, CpTableIs
  <2>3. \A f : CpGivenTo(lines, n, name, f) = CpGiving(lines, n, FALSE, name, f)
    BY <1>5, <1>6, Zenon DEF CpGivenTo, CpMeantFor, CpGiving
  <2> QED BY <1>1, <1>5, <1>6, <2>1, <2>2, <2>3
<1>7. CASE name \notin DOMAIN e /\ CpBelow(name, w) = {}
  <2>1. CpLookup(rw, name) = CpNoTarget
    BY <1>2, <1>7, Zenon DEF CpLookup, CpByWildcard
  <2>2. CpNearest(lines, n, name) = {}
    BY <1>1, <1>3, <1>7, CpNearestIs
  <2>3. \A f : CpGivenTo(lines, n, name, f) = {}
    BY <1>5, <1>7, <2>2 DEF CpGivenTo, CpMeantFor
  <2>4. \A f : CpLastOf(lines, CpGivenTo(lines, n, name, f)) = "none"
    BY <2>3, Zenon DEF CpLastOf
  <2>5. CpNoTarget \in CpTarget /\ \A f \in CpFamilies : CpNoTarget[f] = "none"
    BY CpNothing
  <2> QED BY <1>1, <2>1, <2>4, <2>5
<1>8. CASE name \notin DOMAIN e /\ CpBelow(name, w) # {}
  <2>0. PICK b : CpChosen(lines, n, name, w, b)
    BY <1>1, <1>3, <1>8, CpNearestIs
  <2>1. /\ b \in DOMAIN w
        /\ b = CHOOSE x \in CpBelow(name, w) : \A c \in CpBelow(name, w) : Len(c) <= Len(x)
        /\ CpNearest(lines, n, name) = CpNaming(lines, n, TRUE, b)
    BY <2>0, Zenon DEF CpChosen
  <2>2. CpLookup(rw, name) = w[b]
    BY <1>2, <1>8, <2>1, Zenon DEF CpLookup, CpByWildcard
  <2>3. b \in CpAnyName /\ w[b] \in CpTarget
    BY <1>4, <2>1, CpTableIs
  <2>4. \A f \in CpFamilies : w[b][f] = CpLastOf(lines, CpGiving(lines, n, TRUE, b, f))
    BY <1>3, <2>1, <2>3, Zenon DEF CpTableSays
  <2>5. \A f : CpGivenTo(lines, n, name, f) = CpGiving(lines, n, TRUE, b, f)
    BY <1>5, <1>8, <2>1, Zenon DEF CpGivenTo, CpMeantFor, CpGiving
  <2> QED BY <1>1, <2>2, <2>3, <2>4, <2>5
<1> QED BY <1>6, <1>7, <1>8

LEMMA CpLookupTyped ==
    ASSUME NEW rw \in CpTables, NEW name \in CpAnyName
    PROVE  CpLookup(rw, name) \in CpTarget
<1>1. PICK e, w : e = rw.exact /\ w = rw.wildcard
  OBVIOUS
<1>2. e \in CpTable /\ w \in CpTable
  BY <1>1 DEF CpTables
<1>3. CASE name \in DOMAIN e
  <2>1. CpLookup(rw, name) = e[name]
    BY <1>1, <1>3, Zenon DEF CpLookup
  <2> QED BY <1>2, <1>3, <2>1, CpTableIs
<1>4. CASE name \notin DOMAIN e /\ CpBelow(name, w) = {}
  <2>1. CpLookup(rw, name) = CpNoTarget
    BY <1>1, <1>4, Zenon DEF CpLookup, CpByWildcard
  <2> QED BY <2>1, CpNothing
<1>5. CASE name \notin DOMAIN e /\ CpBelow(name, w) # {}
  <2>1. PICK bases : bases = CpBelow(name, w)
    OBVIOUS
  <2>2. bases \in SUBSET CpAnyName /\ bases \subseteq DOMAIN w /\ \A b \in bases : IsSuffix(b, name)
    BY <1>2, <2>1, CpTableIs DEF CpBelow
  <2>3. PICK b : b = CHOOSE x \in bases : \A c \in bases : Len(c) <= Len(x)
    OBVIOUS
  <2>4. b \in bases
    BY <1>5, <2>1, <2>2, <2>3, CpLongest
  <2>5. CpLookup(rw, name) = w[b]
    BY <1>1, <1>5, <2>1, <2>3, Zenon DEF CpLookup, CpByWildcard
  <2> QED BY <1>2, <2>2, <2>4, <2>5, CpTableIs
<1> QED BY <1>3, <1>4, <1>5

------------------------------------------------------------------------------
(* The hosts file fills what is free. *)
CpFilledFor(q, rw, names, line) ==
    /\ q \in CpTables
    /\ \A x \in CpAnyName : \A f \in CpFamilies :
          CpLookup(q, x)[f] = IF x \in names /\ f = line.family /\ CpLookup(rw, x)[f] = "none"
                              THEN line.address ELSE CpLookup(rw, x)[f]

LEMMA CpHostLineIs ==
    ASSUME NEW line \in CpHostLines
    PROVE  line.family \in CpFamilies /\ line.address \in CpAddress /\ line.names \in Seq(CpAnyName)
<1>1. line \in CpAnyHostLine
  BY CpConstants
<1> QED BY <1>1 DEF CpAnyHostLine

LEMMA CpMergedName ==
    ASSUME NEW rw \in CpTables, NEW name \in CpAnyName, NEW line \in CpHostLines
    PROVE  CpFilledFor(CpMergeName(rw, name, line), rw, {name}, line)
<1>1. PICK e, w : e = rw.exact /\ w = rw.wildcard
  OBVIOUS
<1>2. e \in CpTable /\ w \in CpTable
  BY <1>1 DEF CpTables
<1>3. PICK family, address : family = line.family /\ address = line.address
  OBVIOUS
<1>4. family \in CpFamilies /\ address \in CpAddress
  BY <1>3, CpHostLineIs
<1>5. PICK old \in CpTarget : old = CpLookup(rw, name)
  BY CpLookupTyped
<1>6. PICK new : new = [old EXCEPT ![family] = IF @ = "none" THEN address ELSE @]
  OBVIOUS
<1>7. /\ new \in CpTarget
      /\ \A f \in CpFamilies : new[f] = IF f = family /\ old[f] = "none" THEN address ELSE old[f]
  BY <1>4, <1>5, <1>6 DEF CpTarget
<1>8. PICK u : u = [n \in DOMAIN e \cup {name} |-> IF n = name THEN new ELSE e[n]]
  OBVIOUS
<1>9. PICK q : q = CpMergeName(rw, name, line)
  OBVIOUS
<1>10. q = [exact |-> u, wildcard |-> w]
  BY <1>1, <1>3, <1>5, <1>6, <1>8, <1>9, Zenon DEF CpMergeName, CpInherited
<1>11. q.exact = u /\ q.wildcard = w
  BY <1>10
<1>12. u \in CpTable
  <2>1. \A n \in DOMAIN e : e[n] \in CpTarget /\ n \in CpAnyName
    BY <1>2, CpTableIs
  <2>2. u = [n \in DOMAIN u |-> u[n]] /\ DOMAIN u \subseteq CpAnyName /\ \A n \in DOMAIN u : u[n] \in CpTarget
    BY <1>7, <1>8, <2>1
  <2> QED BY <2>2, CpTableIs
<1>13. q \in CpTables
  BY <1>2, <1>10, <1>12 DEF CpTables
<1>14. CpLookup(q, name) = new
  <2>1. name \in DOMAIN u /\ u[name] = new
    BY <1>8
  <2> QED BY <1>11, <2>1, Zenon DEF CpLookup
<1>15. ASSUME NEW x \in CpAnyName, x # name PROVE CpLookup(q, x) = CpLookup(rw, x)
  <2>1. (x \in DOMAIN u <=> x \in DOMAIN e) /\ (x \in DOMAIN e => u[x] = e[x])
    BY <1>8, <1>15
  <2>2. CASE x \in DOMAIN e
    <3>1. CpLookup(q, x) = u[x]
      BY <1>11, <2>1, <2>2, Zenon DEF CpLookup
    <3>2. CpLookup(rw, x) = e[x]
      BY <1>1, <2>2, Zenon DEF CpLookup
    <3> QED BY <2>1, <2>2, <3>1, <3>2
  <2>3. CASE x \notin DOMAIN e
    <3>1. CpLookup(q, x) = CpByWildcard(w, x)
      BY <1>11, <2>1, <2>3, Zenon DEF CpLookup
    <3>2. CpLookup(rw, x) = CpByWildcard(w, x)
      BY <1>1, <2>3, Zenon DEF CpLookup
    <3> QED BY <3>1, <3>2, Zenon
  <2> QED BY <2>2, <2>3
<1>16. ASSUME NEW x \in CpAnyName, NEW f \in CpFamilies
       PROVE  CpLookup(q, x)[f] = IF x \in {name} /\ f = line.family /\ CpLookup(rw, x)[f] = "none"
                                  THEN line.address ELSE CpLookup(rw, x)[f]
  <2>1. CASE x = name
    BY <1>3, <1>5, <1>7, <1>14, <2>1
  <2>2. CASE x # name
    BY <1>15, <2>2
  <2> QED BY <2>1, <2>2
<1>17. CpFilledFor(q, rw, {name}, line)
  BY <1>13, <1>16, Zenon DEF CpFilledFor
<1> QED BY <1>9, <1>17

LEMMA CpFilledTwice ==
    ASSUME NEW rw, NEW q, NEW r, NEW line \in CpHostLines, NEW names, NEW more,
           CpFilledFor(q, rw, names, line), CpFilledFor(r, q, more, line)
    PROVE  CpFilledFor(r, rw, names \cup more, line)
<1>1. r \in CpTables
  BY Zenon DEF CpFilledFor
<1>2. line.address # "none"
  BY CpHostLineIs DEF CpAddress
<1>3. ASSUME NEW x \in CpAnyName, NEW f \in CpFamilies
      PROVE  CpLookup(r, x)[f] = IF x \in names \cup more /\ f = line.family /\ CpLookup(rw, x)[f] = "none"
                                 THEN line.address ELSE CpLookup(rw, x)[f]
  <2>1. CpLookup(q, x)[f] = IF x \in names /\ f = line.family /\ CpLookup(rw, x)[f] = "none"
                            THEN line.address ELSE CpLookup(rw, x)[f]
    BY Zenon DEF CpFilledFor
  <2>2. CpLookup(r, x)[f] = IF x \in more /\ f = line.family /\ CpLookup(q, x)[f] = "none"
                            THEN line.address ELSE CpLookup(q, x)[f]
    BY Zenon DEF CpFilledFor
  <2> QED BY <1>2, <2>1, <2>2
<1> QED BY <1>1, <1>3, Zenon DEF CpFilledFor

(* What the first n lines of the hosts file say: the first one counts. *)
CpHosting(lines, n, name, f) == {i \in 1..n : lines[i].family = f /\ name \in Range(lines[i].names)}
CpFirstOf(lines, S) == IF S = {} THEN "none" ELSE lines[Min(S)].address
CpMerged(q, rw, lines, n) ==
    /\ q \in CpTables
    /\ \A x \in CpAnyName : \A f \in CpFamilies :
          CpLookup(q, x)[f] = IF CpLookup(rw, x)[f] = "none" THEN CpFirstOf(lines, CpHosting(lines, n, x, f))
                              ELSE CpLookup(rw, x)[f]

LEMMA CpMergedNext ==
    ASSUME NEW lines \in Seq(CpHostLines), NEW n \in Nat, n + 1 \in 1..Len(lines), NEW rw, NEW q, NEW r,
           CpMerged(q, rw, lines, n), NEW line, line = lines[n + 1], CpFilledFor(r, q, Range(line.names), line)
    PROVE  CpMerged(r, rw, lines, n + 1)
<1>1. r \in CpTables
  BY Zenon DEF CpFilledFor
<1>2. ASSUME NEW x \in CpAnyName, NEW f \in CpFamilies
      PROVE  CpLookup(r, x)[f] = IF CpLookup(rw, x)[f] = "none"
                                 THEN CpFirstOf(lines, CpHosting(lines, n + 1, x, f)) ELSE CpLookup(rw, x)[f]
  <2>1. PICK G, H : G = CpHosting(lines, n, x, f) /\ H = CpHosting(lines, n + 1, x, f)
    OBVIOUS
  <2>2. CpLookup(q, x)[f] = IF CpLookup(rw, x)[f] = "none" THEN CpFirstOf(lines, G) ELSE CpLookup(rw, x)[f]
    BY <2>1, Zenon DEF CpMerged
  <2>3. CpLookup(r, x)[f] = IF x \in Range(line.names) /\ f = line.family /\ CpLookup(q, x)[f] = "none"
                            THEN line.address ELSE CpLookup(q, x)[f]
    BY Zenon DEF CpFilledFor
  <2>4. \A i : i \in 1..(n + 1) <=> i \in 1..n \/ i = n + 1
    OBVIOUS
  <2>5. /\ ~(x \in Range(line.names) /\ f = line.family) => H = G
        /\ x \in Range(line.names) /\ f = line.family => H = G \cup {n + 1}
    BY <2>1, <2>4 DEF CpHosting
  <2>6. G \in SUBSET (1..n)
    BY <2>1 DEF CpHosting
  <2>7. G # {} => \E m \in G : \A k \in G : m <= k
    BY <2>6, RmLeast
  <2>8. \A i \in 1..n : lines[i].address # "none"
    <3>1. \A i \in 1..n : lines[i] \in CpHostLines
      OBVIOUS
    <3> QED BY <3>1, CpHostLineIs DEF CpAddress
  <2>9. CASE CpLookup(rw, x)[f] # "none"
    BY <2>2, <2>3, <2>9
  <2>10. CASE CpLookup(rw, x)[f] = "none" /\ H = G /\ ~(x \in Range(line.names) /\ f = line.family)
    BY <2>1, <2>2, <2>3, <2>10, Zenon
  <2>11. CASE /\ CpLookup(rw, x)[f] = "none" /\ x \in Range(line.names) /\ f = line.family
              /\ H = G \cup {n + 1} /\ G = {}
    <3>1. CpLookup(q, x)[f] = "none"
      BY <2>2, <2>11 DEF CpFirstOf
    <3>2. H = {n + 1}
      BY <2>11
    <3>3. Min(H) = n + 1
      <4>1. PICK m \in Nat : m = n + 1
        OBVIOUS
      <4>2. H \in SUBSET Nat /\ m \in H /\ \A k \in H : m <= k
        BY <3>2, <4>1
      <4> QED BY <4>1, <4>2, CpMinIs
    <3>4. CpFirstOf(lines, H) = line.address
      BY <3>2, <3>3 DEF CpFirstOf
    <3> QED BY <2>1, <2>3, <2>11, <3>1, <3>4
  <2>12. CASE /\ CpLookup(rw, x)[f] = "none" /\ x \in Range(line.names) /\ f = line.family
              /\ H = G \cup {n + 1} /\ G # {}
    <3>1. PICK m \in G : \A k \in G : m <= k
      BY <2>7, <2>12
    <3>2. m \in 1..n
      BY <2>6
    <3>3. Min(G) = m
      <4>1. G \in SUBSET Nat
        BY <2>6
      <4> QED BY <3>1, <4>1, CpMinIs
    <3>4. Min(H) = m
      <4>1. H \in SUBSET Nat /\ m \in H /\ \A k \in H : m <= k
        BY <2>6, <2>12, <3>1, <3>2
      <4> QED BY <4>1, CpMinIs
    <3>5. CpFirstOf(lines, G) = lines[m].address /\ CpFirstOf(lines, H) = lines[m].address
      BY <2>12, <3>3, <3>4 DEF CpFirstOf
    <3>6. CpLookup(q, x)[f] = lines[m].address
      BY <2>2, <2>12, <3>5
    <3> QED BY <2>1, <2>3, <2>8, <2>12, <3>2, <3>5, <3>6
  <2> QED BY <2>5, <2>9, <2>10, <2>11, <2>12
<1> QED BY <1>1, <1>2, Zenon DEF CpMerged

LEMMA CpMergedLine ==
    ASSUME NEW rw \in CpTables, NEW line \in CpHostLines
    PROVE  CpFilledFor(CpMergeLine(rw, line), rw, Range(line.names), line)
<1>1. PICK names \in Seq(CpAnyName) : names = line.names
  BY CpHostLineIs
<1>2. PICK last \in Nat : last = Len(names)
  OBVIOUS
<1>3. \A m \in 1..last : names[m] \in CpAnyName
  BY <1>2
<1> DEFINE Goes(f) == f = [n \in 0..Len(line.names) |-> IF n = 0 THEN rw ELSE CpMergeName(f[n - 1], line.names[n], line)]
<1>4. \A q \in CpTables : \A m \in 1..last : CpMergeName(q, names[m], line) \in CpTables
  <2>1. TAKE q \in CpTables
  <2>2. TAKE m \in 1..last
  <2>3. PICK x \in CpAnyName : x = names[m]
    BY <1>3
  <2>4. CpFilledFor(CpMergeName(q, x, line), q, {x}, line)
    BY CpMergedName
  <2> QED BY <2>3, <2>4, Zenon DEF CpFilledFor
<1>5. \E f : Goes(f)
  <2>1. PICK step : step = [p \in (1..last) \X CpTables |-> CpMergeName(p[2], names[p[1]], line)]
    OBVIOUS
  <2>2. \A m \in 1..last : \A q \in CpTables : step[<<m, q>>] = CpMergeName(q, names[m], line)
    BY <2>1
  <2>3. step \in [(1..last) \X CpTables -> CpTables]
    BY <1>4, <2>1
  <2>4. PICK f : CpIterated(f, CpTables, rw, last, step)
    BY <2>3, CpIterates
  <2>5. ASSUME NEW m \in 0..last
        PROVE  (IF m = 0 THEN rw ELSE step[<<m, f[m - 1]>>])
                 = (IF m = 0 THEN rw ELSE CpMergeName(f[m - 1], names[m], line))
    <3>1. ASSUME m # 0 PROVE step[<<m, f[m - 1]>>] = CpMergeName(f[m - 1], names[m], line)
      <4>1. m \in 1..last /\ f[m - 1] \in CpTables
        BY <2>4, <3>1 DEF CpIterated
      <4> QED BY <2>2, <4>1
    <3> QED BY <3>1
  <2>6. f = [m \in 0..last |-> IF m = 0 THEN rw ELSE CpMergeName(f[m - 1], names[m], line)]
    BY <2>4, <2>5, Zenon DEF CpIterated
  <2> QED BY <1>1, <1>2, <2>6, Zenon
<1>6. PICK t : t = CHOOSE f : Goes(f)
  OBVIOUS
<1>7. Goes(t)
  <2> HIDE DEF Goes
  <2> QED BY <1>5, <1>6
<1>8. CpMergeLine(rw, line) = t[last]
  BY <1>1, <1>2, <1>6, Zenon DEF CpMergeLine
<1>9. \A m \in 0..last : t[m] = IF m = 0 THEN rw ELSE CpMergeName(t[m - 1], names[m], line)
  BY <1>1, <1>2, <1>7, Zenon
<1> DEFINE Upto(m) == {names[i] : i \in 1..m}
           S == {m \in Nat : m <= last => CpFilledFor(t[m], rw, Upto(m), line)}
<1>10. 0 \in S
  <2>1. t[0] = rw
    BY <1>9, 0 \in 0..last
  <2>2. Upto(0) = {}
    <3>1. 1..0 = {}
      OBVIOUS
    <3> QED BY <3>1
  <2> HIDE DEF Upto
  <2>3. CpFilledFor(rw, rw, Upto(0), line)
    BY <2>2 DEF CpFilledFor
  <2> QED BY <2>1, <2>3
<1>11. ASSUME NEW m \in S PROVE m + 1 \in S
  <2>1. SUFFICES ASSUME m + 1 <= last PROVE CpFilledFor(t[m + 1], rw, Upto(m + 1), line)
    BY m \in Nat
  <2>2. m \in Nat /\ m + 1 \in 1..last /\ m + 1 \in 0..last /\ m + 1 # 0 /\ (m + 1) - 1 = m
    BY <2>1
  <2>3. CpFilledFor(t[m], rw, Upto(m), line)
    BY <2>1, <2>2
  <2>4. PICK q, x : q = t[m] /\ x = names[m + 1]
    OBVIOUS
  <2>5. x \in CpAnyName /\ q \in CpTables
    <3>1. t[m] \in CpTables
      BY <2>3, Zenon DEF CpFilledFor
    <3> QED BY <1>3, <2>2, <2>4, <3>1
  <2>6. t[m + 1] = CpMergeName(q, x, line)
    BY <1>9, <2>2, <2>4
  <2>7. CpFilledFor(CpMergeName(q, x, line), q, {x}, line)
    BY <2>5, CpMergedName
  <2>8. Upto(m + 1) = Upto(m) \cup {x}
    <3>1. \A i : i \in 1..(m + 1) <=> i \in 1..m \/ i = m + 1
      BY <2>2
    <3> QED BY <2>4, <3>1
  <2> HIDE DEF Upto
  <2>9. PICK r, before : r = t[m + 1] /\ before = Upto(m)
    OBVIOUS
  <2>10. CpFilledFor(r, rw, before \cup {x}, line)
    BY <2>3, <2>4, <2>6, <2>7, <2>9, CpFilledTwice
  <2> QED BY <2>8, <2>9, <2>10
<1>12. S = Nat
  <2>1. S \in SUBSET Nat
    OBVIOUS
  <2> HIDE DEF S
  <2> QED BY <1>10, <1>11, <2>1, RmAllNumbers
<1>13. last \in S
  <2> HIDE DEF S
  <2> QED BY <1>12
<1>14. Upto(last) = Range(line.names)
  <2>1. DOMAIN names = 1..last
    BY <1>2
  <2> QED BY <1>1, <2>1 DEF Range
<1>15. CpFilledFor(t[last], rw, Upto(last), line)
  <2> HIDE DEF Upto
  <2> QED BY <1>13
<1> HIDE DEF Upto
<1> QED BY <1>8, <1>14, <1>15

LEMMA CpHostsMerged ==
    ASSUME NEW rw \in CpTables, NEW lines \in Seq(CpHostLines)
    PROVE  CpMerged(CpMergeHosts(rw, lines), rw, lines, Len(lines))
<1>1. PICK last \in Nat : last = Len(lines)
  OBVIOUS
<1>2. \A m \in 1..last : lines[m] \in CpHostLines
  BY <1>1
<1> DEFINE Goes(f) == f = [n \in 0..Len(lines) |-> IF n = 0 THEN rw ELSE CpMergeLine(f[n - 1], lines[n])]
<1>3. \A q \in CpTables : \A m \in 1..last : CpMergeLine(q, lines[m]) \in CpTables
  <2>1. TAKE q \in CpTables
  <2>2. TAKE m \in 1..last
  <2>3. PICK line \in CpHostLines : line = lines[m]
    BY <1>2
  <2>4. CpFilledFor(CpMergeLine(q, line), q, Range(line.names), line)
    BY CpMergedLine
  <2> QED BY <2>3, <2>4, Zenon DEF CpFilledFor
<1>4. \E f : Goes(f)
  <2>1. PICK step : step = [p \in (1..last) \X CpTables |-> CpMergeLine(p[2], lines[p[1]])]
    OBVIOUS
  <2>2. \A m \in 1..last : \A q \in CpTables : step[<<m, q>>] = CpMergeLine(q, lines[m])
    BY <2>1
  <2>3. step \in [(1..last) \X CpTables -> CpTables]
    BY <1>3, <2>1
  <2>4. PICK f : CpIterated(f, CpTables, rw, last, step)
    BY <2>3, CpIterates
  <2>5. ASSUME NEW m \in 0..last
        PROVE  (IF m = 0 THEN rw ELSE step[<<m, f[m - 1]>>]) = (IF m = 0 THEN rw ELSE CpMergeLine(f[m - 1], lines[m]))
    <3>1. ASSUME m # 0 PROVE step[<<m, f[m - 1]>>] = CpMergeLine(f[m - 1], lines[m])
      <4>1. m \in 1..last /\ f[m - 1] \in CpTables
        BY <2>4, <3>1 DEF CpIterated
      <4> QED BY <2>2, <4>1
    <3> QED BY <3>1
  <2>6. f = [m \in 0..last |-> IF m = 0 THEN rw ELSE CpMergeLine(f[m - 1], lines[m])]
    BY <2>4, <2>5, Zenon DEF CpIterated
  <2> QED BY <1>1, <2>6, Zenon
<1>5. PICK t : t = CHOOSE f : Goes(f)
  OBVIOUS
<1>6. Goes(t)
  <2> HIDE DEF Goes
  <2> QED BY <1>4, <1>5
<1>7. CpMergeHosts(rw, lines) = t[last]
  BY <1>1, <1>5, Zenon DEF CpMergeHosts
<1>8. \A m \in 0..last : t[m] = IF m = 0 THEN rw ELSE CpMergeLine(t[m - 1], lines[m])
  BY <1>1, <1>6, Zenon
<1> DEFINE S == {m \in Nat : m <= last => CpMerged(t[m], rw, lines, m)}
<1>9. 0 \in S
  <2>1. t[0] = rw
    BY <1>8, 0 \in 0..last
  <2>2. \A x, f : CpFirstOf(lines, CpHosting(lines, 0, x, f)) = "none"
    <3>1. 1..0 = {}
      OBVIOUS
    <3> QED BY <3>1 DEF CpFirstOf, CpHosting
  <2>3. CpMerged(rw, rw, lines, 0)
    BY <2>2 DEF CpMerged
  <2> QED BY <2>1, <2>3
<1>10. ASSUME NEW m \in S PROVE m + 1 \in S
  <2>1. SUFFICES ASSUME m + 1 <= last PROVE CpMerged(t[m + 1], rw, lines, m + 1)
    BY m \in Nat
  <2>2. m \in Nat /\ m + 1 \in 1..last /\ m + 1 \in 0..last /\ m + 1 # 0 /\ (m + 1) - 1 = m
    BY <2>1
  <2>3. CpMerged(t[m], rw, lines, m)
    BY <2>1, <2>2
  <2>4. PICK q, line, r : q = t[m] /\ line = lines[m + 1] /\ r = t[m + 1]
    OBVIOUS
  <2>5. line \in CpHostLines /\ q \in CpTables
    <3>1. t[m] \in CpTables
      BY <2>3, Zenon DEF CpMerged
    <3> QED BY <1>2, <2>2, <2>4, <3>1
  <2>6. r = CpMergeLine(q, line)
    BY <1>8, <2>2, <2>4
  <2>7. CpFilledFor(r, q, Range(line.names), line)
    BY <2>5, <2>6, CpMergedLine
  <2> QED BY <1>1, <2>2, <2>3, <2>4, <2>7, CpMergedNext
<1>11. S = Nat
  <2>1. S \in SUBSET Nat
    OBVIOUS
  <2> HIDE DEF S
  <2> QED BY <1>9, <1>10, <2>1, RmAllNumbers
<1>12. last \in S
  <2> HIDE DEF S
  <2> QED BY <1>11
<1> QED BY <1>1, <1>7, <1>12

(* The user's lines first, the hosts file for the rest *)
LEMMA CpUserFirst ==
    ASSUME NEW lines \in Seq(CpLines), NEW hosts \in Seq(CpHostLines), NEW name \in CpAnyName, NEW rw,
           rw = CpMergeHosts(CpCompileRewrites(lines), hosts)
    PROVE  /\ CpLookup(rw, name) \in CpTarget
           /\ \A f \in CpFamilies :
                 CpLookup(rw, name)[f]
                    = IF CpLastOf(lines, CpGivenTo(lines, Len(lines), name, f)) = "none"
                      THEN CpFirstOf(hosts, CpHosting(hosts, Len(hosts), name, f))
                      ELSE CpLastOf(lines, CpGivenTo(lines, Len(lines), name, f))
<1>1. PICK own : own = CpCompileRewrites(lines)
  OBVIOUS
<1>2. CpRewritesSay(own, lines, Len(lines))
  BY <1>1, CpCompiled
<1>3. own \in CpTables
  BY <1>2, Zenon DEF CpRewritesSay
<1>4. \A f \in CpFamilies : CpLookup(own, name)[f] = CpLastOf(lines, CpGivenTo(lines, Len(lines), name, f))
  BY <1>2, CpLookedUp
<1>5. CpMerged(rw, own, hosts, Len(hosts))
  BY <1>1, <1>3, CpHostsMerged
<1>6. rw \in CpTables
  BY <1>5, Zenon DEF CpMerged
<1>7. CpLookup(rw, name) \in CpTarget
  BY <1>6, CpLookupTyped
<1>8. \A f \in CpFamilies :
         CpLookup(rw, name)[f] = IF CpLookup(own, name)[f] = "none"
                                 THEN CpFirstOf(hosts, CpHosting(hosts, Len(hosts), name, f))
                                 ELSE CpLookup(own, name)[f]
  BY <1>5, Zenon DEF CpMerged
<1> QED BY <1>4, <1>7, <1>8

------------------------------------------------------------------------------
(* Powers of two, once more *)
LEMMA CpPowerSum ==
    ASSUME NEW m \in Nat
    PROVE  \A n \in Nat : 2^(m + n) = 2^m * 2^n
<1> DEFINE S == {n \in Nat : 2^(m + n) = 2^m * 2^n}
<1>1. PICK a \in Nat \ {0} : a = 2^m
  BY CpPowers
<1>2. 0 \in S
  <2>1. m + 0 = m /\ 2^0 = 1 /\ a * 1 = a
    BY CpPowers
  <2> QED BY <1>1, <2>1
<1>3. ASSUME NEW n \in S PROVE n + 1 \in S
  <2>1. n \in Nat /\ n + 1 \in Nat /\ 2^(m + n) = 2^m * 2^n
    OBVIOUS
  <2>2. PICK s \in Nat : s = m + n /\ s + 1 = m + (n + 1)
    BY <2>1
  <2>3. PICK b \in Nat \ {0} : b = 2^n /\ 2^(n + 1) = 2 * b
    BY <2>1, CpPowers
  <2>4. 2^(s + 1) = 2 * 2^s
    BY CpPowers
  <2>5. 2^s = a * b
    BY <1>1, <2>1, <2>2, <2>3
  <2>6. 2 * (a * b) = a * (2 * b)
    OBVIOUS
  <2> QED BY <1>1, <2>1, <2>2, <2>3, <2>4, <2>5, <2>6
<1>4. S = Nat
  <2>1. S \in SUBSET Nat
    OBVIOUS
  <2> HIDE DEF S
  <2> QED BY <1>2, <1>3, <2>1, RmAllNumbers
<1> QED BY <1>4

(* What a label above n labels counts *)
CpUnit(n) == 2^(CpLabelBits * n)
CpDigit == 0..(2^CpLabelBits - 1)

LEMMA CpUnits ==
    /\ 2^CpLabelBits \in Nat \ {0} /\ CpUnit(0) = 1 /\ CpAddressBits \in Nat
    /\ \A n \in Nat : CpUnit(n) \in Nat \ {0} /\ CpUnit(n + 1) = CpUnit(n) * 2^CpLabelBits
<1>1. PICK b \in Nat \ {0} : b = CpLabelBits
  BY CpNumbers
<1>2. b * 0 = 0 /\ 2^b \in Nat \ {0}
  BY CpPowers
<1>3. ASSUME NEW n \in Nat PROVE CpUnit(n) \in Nat \ {0} /\ CpUnit(n + 1) = CpUnit(n) * 2^CpLabelBits
  <2>1. PICK m \in Nat : m = b * n
    OBVIOUS
  <2>2. b * (n + 1) = m + b
    BY <2>1
  <2>3. 2^m \in Nat \ {0} /\ 2^(m + b) = 2^m * 2^b
    BY CpPowers, CpPowerSum
  <2> QED BY <1>1, <2>1, <2>2, <2>3 DEF CpUnit
<1>4. CpAddressBits \in Nat
  BY CpNumbers DEF CpAddressBits
<1> QED BY <1>1, <1>2, <1>3, <1>4, CpPowers DEF CpUnit

LEMMA CpWidthIs ==
    ASSUME NEW n \in 0..CpLabels
    PROVE  CpWidth(CpLabelBits * n) = CpUnit(CpLabels - n)
<1>1. PICK b, l \in Nat : b = CpLabelBits /\ l = CpLabels
  BY CpNumbers
<1>2. b * l - b * n = b * (l - n)
  BY <1>1
<1> QED BY <1>1, <1>2 DEF CpWidth, CpAddressBits, CpUnit

------------------------------------------------------------------------------
(* Labels put together, from the lowest and from the highest *)
CpSums(S, labels, n) ==
    /\ S \in [0..n -> Nat] /\ S[0] = 0
    /\ \A m \in 1..n : S[m] = S[m - 1] + labels[m] * CpUnit(m - 1)
CpTops(H, z) ==
    /\ H \in [0..CpLabels -> Nat] /\ H[0] = 0
    /\ \A m \in 1..CpLabels : H[m] = H[m - 1] * 2^CpLabelBits + z[(CpLabels + 1) - m]

LEMMA CpNumberIs ==
    ASSUME NEW n \in Nat, NEW labels \in [1..n -> CpDigit]
    PROVE  \E S : CpSums(S, labels, n) /\ CpNumber(labels) = S[n]
<1>1. Len(labels) = n
  <2>1. labels \in Seq(CpDigit)
    OBVIOUS
  <2> QED BY <2>1
<1> DEFINE Goes(f) == f = [m \in 0..Len(labels) |->
                              IF m = 0 THEN 0 ELSE f[m - 1] + labels[m] * 2^(CpLabelBits * (m - 1))]
<1>2. \A v \in Nat : \A m \in 1..n : v + labels[m] * 2^(CpLabelBits * (m - 1)) \in Nat
  <2>1. TAKE v \in Nat
  <2>2. TAKE m \in 1..n
  <2>3. PICK u \in Nat : u = CpUnit(m - 1)
    BY CpUnits, m - 1 \in Nat
  <2>4. PICK d \in Nat : d = labels[m]
    BY CpUnits DEF CpDigit
  <2>5. v + d * u \in Nat
    OBVIOUS
  <2> QED BY <2>3, <2>4, <2>5 DEF CpUnit
<1>3. \E f : Goes(f)
  <2>1. PICK step : step = [p \in (1..n) \X Nat |-> p[2] + labels[p[1]] * 2^(CpLabelBits * (p[1] - 1))]
    OBVIOUS
  <2>2. \A m \in 1..n : \A v \in Nat : step[<<m, v>>] = v + labels[m] * 2^(CpLabelBits * (m - 1))
    BY <2>1
  <2>3. step \in [(1..n) \X Nat -> Nat]
    BY <1>2, <2>1
  <2>4. PICK zero \in Nat : zero = 0
    OBVIOUS
  <2>5. PICK f : CpIterated(f, Nat, zero, n, step)
    BY <2>3, CpIterates
  <2>6. ASSUME NEW m \in 0..n
        PROVE  (IF m = 0 THEN zero ELSE step[<<m, f[m - 1]>>])
                 = (IF m = 0 THEN 0 ELSE f[m - 1] + labels[m] * 2^(CpLabelBits * (m - 1)))
    <3>1. ASSUME m # 0 PROVE step[<<m, f[m - 1]>>] = f[m - 1] + labels[m] * 2^(CpLabelBits * (m - 1))
      <4>1. m \in 1..n /\ f[m - 1] \in Nat
        BY <2>5, <3>1 DEF CpIterated
      <4> QED BY <2>2, <4>1
    <3> QED BY <2>4, <3>1, Zenon
  <2>7. f = [m \in 0..n |-> IF m = 0 THEN 0 ELSE f[m - 1] + labels[m] * 2^(CpLabelBits * (m - 1))]
    BY <2>5, <2>6, Zenon DEF CpIterated
  <2> QED BY <1>1, <2>7, Zenon
<1>4. PICK t : t = CHOOSE f : Goes(f)
  OBVIOUS
<1>5. Goes(t)
  <2> HIDE DEF Goes
  <2> QED BY <1>3, <1>4
<1>6. CpNumber(labels) = t[n]
  BY <1>1, <1>4, Zenon DEF CpNumber
<1>7. \A m \in 0..n : t[m] = IF m = 0 THEN 0 ELSE t[m - 1] + labels[m] * 2^(CpLabelBits * (m - 1))
  BY <1>1, <1>5, Zenon
<1>8. t[0] = 0 /\ \A m \in 1..n : t[m] = t[m - 1] + labels[m] * 2^(CpLabelBits * (m - 1))
  <2>1. 0 \in 0..n /\ \A m \in 1..n : m \in 0..n /\ m # 0
    OBVIOUS
  <2> QED BY <1>7, <2>1, Zenon
<1> DEFINE S == {m \in Nat : m <= n => t[m] \in Nat}
<1>9. 0 \in S
  BY <1>8
<1>10. ASSUME NEW m \in S PROVE m + 1 \in S
  <2>1. SUFFICES ASSUME m + 1 <= n PROVE t[m + 1] \in Nat
    BY m \in Nat
  <2>2. m \in Nat /\ t[m] \in Nat /\ m + 1 \in 1..n /\ (m + 1) - 1 = m
    BY <2>1
  <2>3. PICK k \in 1..n : k = m + 1
    BY <2>2
  <2> QED BY <1>2, <1>8, <2>2, <2>3
<1>11. S = Nat
  <2>1. S \in SUBSET Nat
    OBVIOUS
  <2> HIDE DEF S
  <2> QED BY <1>9, <1>10, <2>1, RmAllNumbers
<1>12. \A m \in 0..n : t[m] \in Nat
  <2>1. \A m \in 0..n : m \in Nat /\ m <= n
    OBVIOUS
  <2> QED BY <1>11, <2>1
<1>13. t \in [0..n -> Nat]
  <2>1. t = [m \in 0..n |-> t[m]]
    BY <1>1, <1>5
  <2> QED BY <1>12, <2>1
<1> QED BY <1>6, <1>8, <1>13, Zenon DEF CpSums, CpUnit
LEMMA CpValueIs ==
    ASSUME NEW z \in [1..CpLabels -> CpDigit]
    PROVE  \E H : CpTops(H, z) /\ CpValueOf(z) = H[CpLabels]
<1>1. PICK n \in Nat : n = CpLabels
  BY CpNumbers
<1> DEFINE Goes(f) == f = [m \in 0..CpLabels |->
                              IF m = 0 THEN 0 ELSE f[m - 1] * 2^CpLabelBits + z[(CpLabels + 1) - m]]
<1>2. \A v \in Nat : \A m \in 1..n : v * 2^CpLabelBits + z[(CpLabels + 1) - m] \in Nat
  <2>1. TAKE v \in Nat
  <2>2. TAKE m \in 1..n
  <2>3. PICK u \in Nat : u = 2^CpLabelBits
    BY CpUnits
  <2>4. PICK d \in Nat : d = z[(CpLabels + 1) - m]
    <3>1. (CpLabels + 1) - m \in 1..CpLabels
      BY <1>1
    <3> QED BY <3>1, CpUnits DEF CpDigit
  <2>5. v * u + d \in Nat
    OBVIOUS
  <2> QED BY <2>3, <2>4, <2>5
<1>3. \E f : Goes(f)
  <2>1. PICK step : step = [p \in (1..n) \X Nat |-> p[2] * 2^CpLabelBits + z[(CpLabels + 1) - p[1]]]
    OBVIOUS
  <2>2. \A m \in 1..n : \A v \in Nat : step[<<m, v>>] = v * 2^CpLabelBits + z[(CpLabels + 1) - m]
    BY <2>1
  <2>3. step \in [(1..n) \X Nat -> Nat]
    BY <1>2, <2>1
  <2>4. PICK zero \in Nat : zero = 0
    OBVIOUS
  <2>5. PICK f : CpIterated(f, Nat, zero, n, step)
    BY <2>3, CpIterates
  <2>6. ASSUME NEW m \in 0..n
        PROVE  (IF m = 0 THEN zero ELSE step[<<m, f[m - 1]>>])
                 = (IF m = 0 THEN 0 ELSE f[m - 1] * 2^CpLabelBits + z[(CpLabels + 1) - m])
    <3>1. ASSUME m # 0 PROVE step[<<m, f[m - 1]>>] = f[m - 1] * 2^CpLabelBits + z[(CpLabels + 1) - m]
      <4>1. m \in 1..n /\ f[m - 1] \in Nat
        BY <2>5, <3>1 DEF CpIterated
      <4> QED BY <2>2, <4>1
    <3> QED BY <2>4, <3>1, Zenon
  <2>7. f = [m \in 0..n |-> IF m = 0 THEN 0 ELSE f[m - 1] * 2^CpLabelBits + z[(CpLabels + 1) - m]]
    BY <2>5, <2>6, Zenon DEF CpIterated
  <2> QED BY <1>1, <2>7, Zenon
<1>4. PICK t : t = CHOOSE f : Goes(f)
  OBVIOUS
<1>5. Goes(t)
  <2> HIDE DEF Goes
  <2> QED BY <1>3, <1>4
<1>6. CpValueOf(z) = t[CpLabels]
  BY <1>4, Zenon DEF CpValueOf
<1>7. \A m \in 0..n : t[m] = IF m = 0 THEN 0 ELSE t[m - 1] * 2^CpLabelBits + z[(CpLabels + 1) - m]
  BY <1>1, <1>5, Zenon
<1>8. t[0] = 0 /\ \A m \in 1..n : t[m] = t[m - 1] * 2^CpLabelBits + z[(CpLabels + 1) - m]
  <2>1. 0 \in 0..n /\ \A m \in 1..n : m \in 0..n /\ m # 0
    OBVIOUS
  <2> QED BY <1>7, <2>1, Zenon
<1> DEFINE S == {m \in Nat : m <= n => t[m] \in Nat}
<1>9. 0 \in S
  BY <1>8
<1>10. ASSUME NEW m \in S PROVE m + 1 \in S
  <2>1. SUFFICES ASSUME m + 1 <= n PROVE t[m + 1] \in Nat
    BY m \in Nat
  <2>2. m \in Nat /\ t[m] \in Nat /\ m + 1 \in 1..n /\ (m + 1) - 1 = m
    BY <2>1
  <2>3. PICK k \in 1..n : k = m + 1
    BY <2>2
  <2> QED BY <1>2, <1>8, <2>2, <2>3
<1>11. S = Nat
  <2>1. S \in SUBSET Nat
    OBVIOUS
  <2> HIDE DEF S
  <2> QED BY <1>9, <1>10, <2>1, RmAllNumbers
<1>12. \A m \in 0..n : t[m] \in Nat
  <2>1. \A m \in 0..n : m \in Nat /\ m <= n
    OBVIOUS
  <2> QED BY <1>11, <2>1
<1>13. t \in [0..CpLabels -> Nat]
  <2>1. t = [m \in 0..CpLabels |-> t[m]]
    BY <1>5
  <2> QED BY <1>1, <1>12, <2>1
<1> QED BY <1>1, <1>6, <1>8, <1>13, Zenon DEF CpTops

(* A suffix, entry by entry *)
CpEndsWith(s, n, t, l) == \A i \in 1..n : s[i] = t[(l - n) + i]
LEMMA CpSuffixIs ==
    ASSUME NEW T, NEW n \in Nat, NEW l \in Nat, n <= l, NEW s \in [1..n -> T], NEW t \in [1..l -> T]
    PROVE  IsSuffix(s, t) <=> CpEndsWith(s, n, t, l)
<1>1. s \in Seq(T) /\ t \in Seq(T) /\ Len(s) = n /\ Len(t) = l
  OBVIOUS
<1>2. PICK rs : rs = [i \in 1..n |-> s[(n - i) + 1]]
  OBVIOUS
<1>3. PICK rt : rt = [i \in 1..l |-> t[(l - i) + 1]]
  OBVIOUS
<1>4. rs = Reverse(s) /\ rt = Reverse(t)
  BY <1>1, <1>2, <1>3 DEF Reverse
<1>5. rs \in Seq(T) /\ Len(rs) = n
  BY <1>2
<1>6. rt \in Seq(T) /\ Len(rt) = l
  BY <1>3
<1>7. SubSeq(rs, 1, n) = [i \in 1..n |-> rs[i]]
  BY <1>5
<1>8. SubSeq(rt, 1, n) = [i \in 1..n |-> rt[i]]
  BY <1>6
<1>9. IsSuffix(s, t) <=> \A i \in 1..n : rs[i] = rt[i]
  BY <1>4, <1>5, <1>6, <1>7, <1>8 DEF IsSuffix, IsPrefix
<1>10. ASSUME NEW i \in 1..n PROVE rs[i] = s[(n - i) + 1] /\ rt[i] = t[(l - n) + ((n - i) + 1)]
  <2>1. i \in 1..l /\ (l - i) + 1 = (l - n) + ((n - i) + 1)
    OBVIOUS
  <2> QED BY <1>2, <1>3, <2>1
<1>11. ASSUME \A i \in 1..n : rs[i] = rt[i] PROVE \A i \in 1..n : s[i] = t[(l - n) + i]
  <2>1. TAKE i \in 1..n
  <2>2. PICK j \in 1..n : j = (n - i) + 1 /\ (n - j) + 1 = i
    OBVIOUS
  <2> QED BY <1>10, <1>11, <2>2
<1>12. ASSUME \A i \in 1..n : s[i] = t[(l - n) + i] PROVE \A i \in 1..n : rs[i] = rt[i]
  <2>1. TAKE i \in 1..n
  <2>2. PICK j \in 1..n : j = (n - i) + 1
    OBVIOUS
  <2> QED BY <1>10, <1>12, <2>2
<1> QED BY <1>9, <1>11, <1>12 DEF CpEndsWith

(* A zone of n labels is what the highest n labels of its addresses make *)
LEMMA CpTopsMeet ==
    ASSUME NEW n \in 1..CpLabels, NEW zone \in [1..n -> CpDigit], NEW z \in [1..CpLabels -> CpDigit],
           IsSuffix(zone, z), NEW H, CpTops(H, z)
    PROVE  H[n] = CpNumber(zone)
<1>1. PICK S : CpSums(S, zone, n) /\ CpNumber(zone) = S[n]
  BY CpNumberIs
<1>2. PICK l \in Nat : l = CpLabels
  BY CpNumbers
<1>3. \A i \in 1..n : zone[i] = z[(l - n) + i]
  <2>1. n \in Nat /\ n <= l /\ z \in [1..l -> CpDigit]
    BY <1>2
  <2>2. PICK T : T = CpDigit
    OBVIOUS
  <2>3. zone \in [1..n -> T] /\ z \in [1..l -> T]
    BY <2>1, <2>2
  <2>4. IsSuffix(zone, z) <=> CpEndsWith(zone, n, z, l)
    BY <2>1, <2>3, CpSuffixIs
  <2>5. IsSuffix(zone, z)
    OBVIOUS
  <2>6. CpEndsWith(zone, n, z, l)
    BY <2>4, <2>5
  <2> QED BY <2>6 DEF CpEndsWith
<1> DEFINE T == {m \in Nat : m <= n => H[m] * CpUnit(n - m) + S[n - m] = S[n]}
<1>4. 0 \in T
  <2>1. PICK u \in Nat : u = CpUnit(n)
    BY CpUnits
  <2>2. H[0] = 0 /\ S[n] \in Nat
    BY <1>1, n \in 0..n DEF CpTops, CpSums
  <2>3. 0 * u + S[n] = S[n]
    BY <2>2
  <2> QED BY <2>1, <2>2, <2>3
<1>5. ASSUME NEW m \in T PROVE m + 1 \in T
  <2>1. SUFFICES ASSUME m + 1 <= n PROVE H[m + 1] * CpUnit(n - (m + 1)) + S[n - (m + 1)] = S[n]
    BY m \in Nat
  <2>2. m \in Nat /\ m <= n /\ H[m] * CpUnit(n - m) + S[n - m] = S[n]
    BY <2>1
  <2>3. PICK r \in Nat : r = n - (m + 1) /\ n - m = r + 1 /\ r + 1 \in 1..n /\ (r + 1) - 1 = r /\ r \in 0..n
    BY <2>1, <2>2
  <2>4. PICK b, u \in Nat : b = 2^CpLabelBits /\ u = CpUnit(r) /\ CpUnit(r + 1) = u * b
    BY <2>3, CpUnits
  <2>5. PICK d \in Nat : d = zone[r + 1]
    BY <2>3, CpUnits DEF CpDigit
  <2>6. PICK s \in Nat : s = S[r] /\ S[r + 1] = s + d * u
    BY <1>1, <2>3, <2>4, <2>5 DEF CpSums
  <2>7. PICK h \in Nat : h = H[m]
    BY <1>2, <2>2 DEF CpTops
  <2>8. H[m + 1] = h * b + d
    <3>1. m + 1 \in 1..CpLabels /\ (m + 1) - 1 = m
      BY <1>2, <2>1, <2>2
    <3>2. (CpLabels + 1) - (m + 1) = (l - n) + (r + 1)
      BY <1>2, <2>2, <2>3
    <3>3. H[m + 1] = H[m] * 2^CpLabelBits + z[(CpLabels + 1) - (m + 1)]
      BY <3>1 DEF CpTops
    <3>4. z[(CpLabels + 1) - (m + 1)] = d
      BY <1>3, <2>3, <2>5, <3>2
    <3> QED BY <2>4, <2>7, <3>3, <3>4
  <2>9. (h * b + d) * u + s = h * (u * b) + (s + d * u)
    OBVIOUS
  <2> QED BY <2>2, <2>3, <2>4, <2>6, <2>7, <2>8, <2>9
<1>6. T = Nat
  <2>1. T \in SUBSET Nat
    OBVIOUS
  <2> HIDE DEF T
  <2> QED BY <1>4, <1>5, <2>1, RmAllNumbers
<1>7. n \in T
  BY <1>6
<1>8. H[n] * CpUnit(n - n) + S[n - n] = S[n]
  BY <1>7
<1>9. PICK h \in Nat : h = H[n]
  BY <1>2 DEF CpTops
<1>10. n - n = 0 /\ CpUnit(0) = 1 /\ S[0] = 0 /\ h * 1 + 0 = h
  BY <1>1, CpUnits DEF CpSums
<1> QED BY <1>1, <1>8, <1>9, <1>10
LEMMA CpTimes ==
    ASSUME NEW a \in Nat, NEW b \in Nat, NEW p \in Nat, a <= b
    PROVE  a * p <= b * p
<1>1. PICK d \in Nat : b = a + d
  <2>1. b - a \in Nat /\ b = a + (b - a)
    OBVIOUS
  <2> QED BY <2>1
<1>2. PICK x, y \in Nat : x = a * p /\ y = d * p
  OBVIOUS
<1>3. (a + d) * p = a * p + d * p
  OBVIOUS
<1> QED BY <1>1, <1>2, <1>3

(* The lower labels move an address inside of the zone only. *)
LEMMA CpTopsBound ==
    ASSUME NEW z \in [1..CpLabels -> CpDigit], NEW H, CpTops(H, z), NEW n \in 0..CpLabels, NEW a \in Nat, a = H[n]
    PROVE  /\ a * CpUnit(CpLabels - n) <= H[CpLabels]
           /\ H[CpLabels] < (a + 1) * CpUnit(CpLabels - n)
<1>1. PICK l \in Nat : l = CpLabels
  BY CpNumbers
<1> DEFINE T == {k \in Nat : n + k <= l => a * CpUnit(k) <= H[n + k] /\ H[n + k] < (a + 1) * CpUnit(k)}
<1>2. 0 \in T
  <2>1. n + 0 = n /\ CpUnit(0) = 1 /\ H[n + 0] = a
    BY CpUnits
  <2>2. a * 1 = a /\ (a + 1) * 1 = a + 1
    OBVIOUS
  <2>3. a * CpUnit(0) <= H[n + 0] /\ H[n + 0] < (a + 1) * CpUnit(0)
    BY <2>1, <2>2
  <2> QED BY <2>3
<1>3. ASSUME NEW k \in T PROVE k + 1 \in T
  <2>1. SUFFICES ASSUME n + (k + 1) <= l
                 PROVE  a * CpUnit(k + 1) <= H[n + (k + 1)] /\ H[n + (k + 1)] < (a + 1) * CpUnit(k + 1)
    BY k \in Nat
  <2>2. k \in Nat /\ a * CpUnit(k) <= H[n + k] /\ H[n + k] < (a + 1) * CpUnit(k)
    BY <2>1
  <2>3. PICK m \in 1..l : m = n + (k + 1) /\ m - 1 = n + k
    BY <2>1, <2>2
  <2>4. PICK b, u \in Nat : b = 2^CpLabelBits /\ u = CpUnit(k) /\ CpUnit(k + 1) = u * b
    BY <2>2, CpUnits
  <2>5. PICK d \in 0..(b - 1) : d = z[(CpLabels + 1) - m]
    <3>1. (CpLabels + 1) - m \in 1..CpLabels
      BY <1>1, <2>3
    <3> QED BY <2>4, <3>1 DEF CpDigit
  <2>6. PICK x \in Nat : x = H[m - 1] /\ H[m] = x * b + d
    <3>1. m - 1 \in 0..CpLabels
      BY <1>1, <2>3
    <3> QED BY <1>1, <2>3, <2>4, <2>5, <3>1 DEF CpTops
  <2>7. PICK v, w \in Nat : v = a * u /\ w = (a + 1) * u
    OBVIOUS
  <2>8. v <= x /\ x + 1 <= w
    <3>1. a * CpUnit(k) = v /\ (a + 1) * CpUnit(k) = w /\ H[n + k] = x
      BY <2>3, <2>4, <2>6, <2>7
    <3>2. v <= x /\ x < w
      BY <2>2, <3>1, Zenon
    <3> QED BY <3>2
  <2>9. v * b <= x * b /\ (x + 1) * b <= w * b
    BY <2>8, CpTimes
  <2>10. a * (u * b) = v * b /\ (a + 1) * (u * b) = w * b /\ (x + 1) * b = x * b + b
    <3>1. a * (u * b) = v * b
      BY <2>7
    <3>2. (a + 1) * (u * b) = w * b
      BY <2>7
    <3>3. (x + 1) * b = x * b + b
      OBVIOUS
    <3> QED BY <3>1, <3>2, <3>3
  <2>11. PICK y, vb, wb \in Nat : y = x * b /\ vb = v * b /\ wb = w * b
    OBVIOUS
  <2>12. vb <= y + d /\ y + d < wb
    <3>1. vb <= y /\ y + b <= wb
      BY <2>9, <2>10, <2>11, Zenon
    <3>2. d \in Nat /\ d < b
      BY <2>5
    <3> QED BY <3>1, <3>2
  <2>13. a * CpUnit(k + 1) = vb /\ (a + 1) * CpUnit(k + 1) = wb
    BY <2>4, <2>10, <2>11
  <2>14. H[n + (k + 1)] = y + d
    BY <2>3, <2>6, <2>11
  <2> QED BY <2>12, <2>13, <2>14
<1>4. T = Nat
  <2>1. T \in SUBSET Nat
    OBVIOUS
  <2> HIDE DEF T
  <2> QED BY <1>2, <1>3, <2>1, RmAllNumbers
<1>5. CpLabels - n \in T
  BY <1>1, <1>4
<1>6. n + (CpLabels - n) = CpLabels /\ CpLabels <= l
  BY <1>1
<1> QED BY <1>5, <1>6

LEMMA CpNumberBelow ==
    ASSUME NEW n \in Nat, NEW labels \in [1..n -> CpDigit]
    PROVE  CpNumber(labels) \in Nat /\ CpNumber(labels) < CpUnit(n)
<1>1. PICK S : CpSums(S, labels, n) /\ CpNumber(labels) = S[n]
  BY CpNumberIs
<1> DEFINE T == {m \in Nat : m <= n => S[m] \in Nat /\ S[m] < CpUnit(m)}
<1>2. 0 \in T
  BY <1>1, CpUnits DEF CpSums
<1>3. ASSUME NEW m \in T PROVE m + 1 \in T
  <2>1. SUFFICES ASSUME m + 1 <= n PROVE S[m + 1] \in Nat /\ S[m + 1] < CpUnit(m + 1)
    BY m \in Nat
  <2>2. m \in Nat /\ m + 1 \in 1..n /\ (m + 1) - 1 = m
    BY <2>1
  <2>3. PICK b, u \in Nat : b = 2^CpLabelBits /\ u = CpUnit(m) /\ CpUnit(m + 1) = u * b
    BY <2>2, CpUnits
  <2>4. PICK d \in 0..(b - 1) : d = labels[m + 1]
    BY <2>2, <2>3 DEF CpDigit
  <2>5. PICK s \in Nat : s = S[m] /\ s < u
    BY <2>1, <2>2, <2>3
  <2>6. S[m + 1] = s + d * u
    BY <1>1, <2>2, <2>3, <2>4, <2>5 DEF CpSums
  <2>7. (d + 1) * u <= b * u
    BY <2>4, CpTimes
  <2>8. PICK x, y \in Nat : x = d * u /\ y = u * b
    BY <2>4
  <2>9. (d + 1) * u = x + u /\ b * u = y
    BY <2>4, <2>8
  <2>10. x + u <= y /\ S[m + 1] = s + x /\ CpUnit(m + 1) = y
    BY <2>3, <2>6, <2>7, <2>8, <2>9
  <2> QED BY <2>5, <2>10
<1>4. T = Nat
  <2>1. T \in SUBSET Nat
    OBVIOUS
  <2> HIDE DEF T
  <2> QED BY <1>2, <1>3, <2>1, RmAllNumbers
<1>5. n \in T
  BY <1>4
<1> QED BY <1>1, <1>5
------------------------------------------------------------------------------
(* The addresses of a zone are one range of numbers. *)
CpDigits(zone, n, x) ==
    [i \in 1..CpLabels |->
        IF i > CpLabels - n THEN zone[i - (CpLabels - n)] ELSE (x \div CpUnit(i - 1)) % 2^CpLabelBits]

LEMMA CpDigitsAre ==
    ASSUME NEW n \in 1..CpLabels, NEW zone \in [1..n -> CpDigit], NEW x \in Nat
    PROVE  /\ CpDigits(zone, n, x) \in [1..CpLabels -> CpDigit]
           /\ IsSuffix(zone, CpDigits(zone, n, x))
<1>1. PICK l \in Nat : l = CpLabels
  BY CpNumbers
<1>2. PICK z : z = CpDigits(zone, n, x)
  OBVIOUS
<1>3. ASSUME NEW i \in 1..l, i > l - n PROVE i - (l - n) \in 1..n
  BY <1>1, <1>3
<1>4. ASSUME NEW i \in 1..l PROVE z[i] = IF i > l - n THEN zone[i - (l - n)] ELSE (x \div CpUnit(i - 1)) % 2^CpLabelBits
  BY <1>1, <1>2, Zenon DEF CpDigits
<1>5. ASSUME NEW i \in 1..l PROVE z[i] \in CpDigit
  <2>1. CASE i > l - n
    BY <1>3, <1>4, <2>1
  <2>2. CASE ~(i > l - n)
    <3>1. PICK y \in Nat : y = (x \div CpUnit(i - 1))
      BY CpUnits, CpDivMod, i - 1 \in Nat
    <3>2. y % 2^CpLabelBits \in 0..(2^CpLabelBits - 1)
      BY CpUnits, CpDivMod
    <3>3. z[i] = y % 2^CpLabelBits
      BY <1>4, <2>2, <3>1, Zenon
    <3> QED BY <3>2, <3>3, Zenon DEF CpDigit
  <2> QED BY <2>1, <2>2
<1>6. z \in [1..CpLabels -> CpDigit]
  <2>1. z = [i \in 1..CpLabels |-> z[i]]
    BY <1>2, Zenon DEF CpDigits
  <2> QED BY <1>1, <1>5, <2>1
<1>7. CpEndsWith(zone, n, z, l)
  <2>1. ASSUME NEW i \in 1..n PROVE zone[i] = z[(l - n) + i]
    <3>1. PICK j \in 1..l : j = (l - n) + i /\ j > l - n /\ j - (l - n) = i
      BY <1>1
    <3> QED BY <1>4, <3>1
  <2> QED BY <2>1 DEF CpEndsWith
<1>8. IsSuffix(zone, z)
  <2>1. PICK T : T = CpDigit
    OBVIOUS
  <2>2. n \in Nat /\ n <= l /\ zone \in [1..n -> T] /\ z \in [1..l -> T]
    BY <1>1, <1>6, <2>1
  <2>3. IsSuffix(zone, z) <=> CpEndsWith(zone, n, z, l)
    BY <2>2, CpSuffixIs
  <2> QED BY <1>7, <2>3
<1> QED BY <1>2, <1>6, <1>8

LEMMA CpDigitsMake ==
    ASSUME NEW n \in 1..CpLabels, NEW zone \in [1..n -> CpDigit], NEW x \in Nat,
           CpNumber(zone) = (x \div CpUnit(CpLabels - n))
    PROVE  CpValueOf(CpDigits(zone, n, x)) = x
<1>1. PICK l \in Nat : l = CpLabels
  BY CpNumbers
<1>2. PICK z \in [1..CpLabels -> CpDigit] : z = CpDigits(zone, n, x)
  BY CpDigitsAre
<1>3. PICK H : CpTops(H, z) /\ CpValueOf(z) = H[CpLabels]
  BY CpValueIs
<1>4. IsSuffix(zone, z)
  BY <1>2, CpDigitsAre
<1>5. H[n] = CpNumber(zone)
  BY <1>3, <1>4, CpTopsMeet
<1> DEFINE T == {k \in Nat : n + k <= l => H[n + k] = (x \div CpUnit(l - (n + k)))}
<1>6. 0 \in T
  <2>1. n + 0 = n
    OBVIOUS
  <2> QED BY <1>1, <1>5, <2>1
<1>7. ASSUME NEW k \in T PROVE k + 1 \in T
  <2>1. SUFFICES ASSUME n + (k + 1) <= l PROVE H[n + (k + 1)] = (x \div CpUnit(l - (n + (k + 1))))
    BY k \in Nat
  <2>2. k \in Nat /\ H[n + k] = (x \div CpUnit(l - (n + k)))
    BY <2>1
  <2>3. PICK m \in 1..l : m = n + (k + 1) /\ m - 1 = n + k
    BY <2>1, <2>2
  <2>4. PICK r \in Nat : r = l - m /\ r + 1 = l - (m - 1)
    OBVIOUS
  <2>5. PICK b, u \in Nat \ {0} : b = 2^CpLabelBits /\ u = CpUnit(r) /\ CpUnit(r + 1) = u * b
    BY <2>4, CpUnits
  <2>6. PICK y \in Nat : y = (x \div u)
    BY CpDivMod
  <2>7. PICK h \in Nat : h = H[m - 1] /\ h = (y \div b)
    <3>1. (x \div (u * b)) = ((x \div u) \div b)
      OBVIOUS
    <3>2. H[m - 1] = (x \div (u * b))
      BY <2>2, <2>3, <2>4, <2>5
    <3>3. H[m - 1] = (y \div b)
      BY <2>6, <3>1, <3>2
    <3> QED BY <3>3, CpDivMod
  <2>8. z[(CpLabels + 1) - m] = y % b
    <3>1. PICK i \in 1..CpLabels : i = (CpLabels + 1) - m /\ ~(i > CpLabels - n) /\ i - 1 = r
      BY <1>1, <2>2, <2>3, <2>4
    <3>2. z[i] = (x \div CpUnit(i - 1)) % 2^CpLabelBits
      BY <1>2, <3>1, Zenon DEF CpDigits
    <3> QED BY <2>5, <2>6, <3>1, <3>2
  <2>9. H[m] = h * b + (y % b)
    BY <1>1, <1>3, <2>3, <2>5, <2>7, <2>8 DEF CpTops
  <2>10. y = b * h + (y % b) /\ b * h = h * b
    BY <2>7, CpDivMod
  <2> QED BY <2>3, <2>4, <2>5, <2>6, <2>9, <2>10
<1>8. T = Nat
  <2>1. T \in SUBSET Nat
    OBVIOUS
  <2> HIDE DEF T
  <2> QED BY <1>6, <1>7, <2>1, RmAllNumbers
<1>9. l - n \in T /\ n + (l - n) = l /\ l - l = 0
  <2>1. l - n \in Nat /\ n + (l - n) = l /\ l - l = 0
    BY <1>1
  <2> HIDE DEF T
  <2> QED BY <1>8, <2>1
<1>10. H[n + (l - n)] = (x \div CpUnit(l - (n + (l - n))))
  BY <1>9
<1>11. H[l] = (x \div CpUnit(0)) /\ CpUnit(0) = 1 /\ (x \div 1) = x
  BY <1>9, <1>10, CpUnits
<1> QED BY <1>1, <1>2, <1>3, <1>11

CpZoneRange(zone, n) ==
    (CpNumber(zone) * CpUnit(CpLabels - n))..(CpNumber(zone) * CpUnit(CpLabels - n) + CpUnit(CpLabels - n) - 1)

LEMMA CpZoneHolds ==
    ASSUME NEW n \in 1..CpLabels, NEW zone \in [1..n -> CpDigit], NEW z \in CpAddressesOf(zone)
    PROVE  /\ CpValueOf(z) \in Nat /\ CpValueOf(z) < 2^CpAddressBits
           /\ CpValueOf(z) \in CpZoneRange(zone, n)
<1>1. z \in [1..CpLabels -> CpDigit] /\ IsSuffix(zone, z)
  BY DEF CpAddressesOf, CpDigit
<1>2. PICK H : CpTops(H, z) /\ CpValueOf(z) = H[CpLabels]
  BY <1>1, CpValueIs
<1>3. H[n] = CpNumber(zone)
  BY <1>1, <1>2, CpTopsMeet
<1>4. PICK v \in Nat : v = CpValueOf(z)
  BY <1>2, CpNumbers DEF CpTops
<1>5. PICK a \in Nat : a = H[n] /\ a = CpNumber(zone)
  <2>1. n \in 0..CpLabels
    BY CpNumbers
  <2> QED BY <1>2, <1>3, <2>1 DEF CpTops
<1>6. PICK u \in Nat \ {0} : u = CpUnit(CpLabels - n)
  BY CpNumbers, CpUnits, CpLabels - n \in Nat
<1>7. a * u <= v /\ v < (a + 1) * u
  <2>1. n \in 0..CpLabels
    BY CpNumbers
  <2>2. a * CpUnit(CpLabels - n) <= H[CpLabels] /\ H[CpLabels] < (a + 1) * CpUnit(CpLabels - n)
    BY <1>1, <1>2, <1>5, <2>1, CpTopsBound
  <2> QED BY <1>2, <1>4, <1>6, <2>2, Zenon
<1>8. PICK w \in Nat : w = a * u /\ (a + 1) * u = w + u
  OBVIOUS
<1>9. v \in w..(w + u - 1)
  BY <1>7, <1>8
<1>10. v < 2^CpAddressBits
  <2>1. PICK o \in Nat : o = 0 /\ o = H[0] /\ o \in 0..CpLabels
    BY <1>2, CpNumbers DEF CpTops
  <2>2. H[CpLabels] < (o + 1) * CpUnit(CpLabels - o)
    BY <1>1, <1>2, <2>1, CpTopsBound
  <2>3. PICK t \in Nat : t = 2^CpAddressBits
    BY CpUnits, CpPowers
  <2>4. CpUnit(CpLabels - o) = t /\ (o + 1) * t = t
    <3>1. CpLabels - 0 = CpLabels
      BY CpNumbers
    <3>2. CpUnit(CpLabels) = t
      BY <2>3 DEF CpUnit, CpAddressBits
    <3> QED BY <2>1, <3>1, <3>2
  <2> QED BY <1>2, <1>4, <2>2, <2>3, <2>4
<1> QED BY <1>4, <1>5, <1>6, <1>8, <1>9, <1>10 DEF CpZoneRange

LEMMA CpZoneReached ==
    ASSUME NEW n \in 1..CpLabels, NEW zone \in [1..n -> CpDigit], NEW x \in CpZoneRange(zone, n)
    PROVE  \E z \in CpAddressesOf(zone) : CpValueOf(z) = x
<1>1. PICK u \in Nat \ {0} : u = CpUnit(CpLabels - n)
  BY CpNumbers, CpUnits, CpLabels - n \in Nat
<1>2. PICK a \in Nat : a = CpNumber(zone)
  BY CpNumberBelow, n \in Nat
<1>3. PICK w \in Nat : w = a * u
  OBVIOUS
<1>4. x \in w..(w + u - 1)
  BY <1>1, <1>2, <1>3 DEF CpZoneRange
<1>5. PICK r \in 0..(u - 1) : x = w + r
  <2>1. x - w \in 0..(u - 1) /\ x = w + (x - w)
    BY <1>4
  <2> QED BY <2>1
<1>6. x = u * a + r /\ x \in Nat
  BY <1>3, <1>5
<1>7. (x \div u) = a
  BY <1>6, CpDivided
<1>8. CpNumber(zone) = (x \div CpUnit(CpLabels - n))
  BY <1>1, <1>2, <1>7
<1>9. CpValueOf(CpDigits(zone, n, x)) = x
  BY <1>6, <1>8, CpDigitsMake
<1>10. CpDigits(zone, n, x) \in CpAddressesOf(zone)
  BY <1>6, CpDigitsAre DEF CpAddressesOf, CpDigit
<1> QED BY <1>9, <1>10
------------------------------------------------------------------------------
(* Local networks: by the prefix, by the range and bit by bit *)
CpSameAs(v, local) ==
    \A k \in 0..(local.len - 1) : CpBit(v, CpAddressBits, k) = CpBit(local.value, CpAddressBits, k)

LEMMA CpLocalIs ==
    ASSUME NEW local \in CpLocalNetworks
    PROVE  /\ local.len \in 0..CpAddressBits /\ CpWidth(local.len) \in Nat \ {0}
           /\ local.value \in Nat /\ local.value < 2^CpAddressBits
           /\ \E k \in Nat : local.value = k * CpWidth(local.len)
<1>1. PICK t \in Nat : t = CpAddressBits
  BY CpUnits
<1>2. PICK m \in 0..t : m = local.len
  BY <1>1, CpLocalTable
<1>3. PICK p, w \in Nat \ {0} : p = 2^m /\ w = 2^(t - m)
  BY CpPowers, m \in Nat, t - m \in Nat
<1>4. PICK k \in 0..(2^local.len - 1) : local.value = k * CpWidth(local.len)
  BY CpLocalTable
<1>5. k \in Nat /\ k + 1 <= p
  BY <1>2, <1>3, <1>4
<1>6. PICK v \in Nat : v = k * w /\ (k + 1) * w = v + w
  BY <1>5
<1>7. 2^t = p * w
  <2>1. m + (t - m) = t
    OBVIOUS
  <2>2. 2^(m + (t - m)) = 2^m * 2^(t - m)
    BY CpPowerSum, m \in Nat, t - m \in Nat
  <2> QED BY <1>3, <2>1, <2>2
<1>8. (k + 1) * w <= p * w
  BY <1>5, CpTimes, k + 1 \in Nat
<1>9. CpWidth(local.len) = w
  BY <1>1, <1>2, <1>3 DEF CpWidth
<1>10. v < 2^t
  <2>1. PICK o \in Nat : o = p * w
    OBVIOUS
  <2> QED BY <1>6, <1>7, <1>8, <2>1
<1> QED BY <1>1, <1>2, <1>3, <1>4, <1>5, <1>6, <1>9, <1>10

LEMMA CpLiesInIs ==
    ASSUME NEW local \in CpLocalNetworks, NEW v \in Nat, v < 2^CpAddressBits
    PROVE  /\ CpPrefix(v, CpAddressBits, local.len) = local.value <=> CpLiesIn(v, local)
           /\ CpSameAs(v, local) <=> CpLiesIn(v, local)
<1>1. PICK w \in Nat \ {0} : w = CpWidth(local.len)
  BY CpLocalIs
<1>2. PICK k \in Nat : local.value = k * w
  BY <1>1, CpLocalIs
<1>3. PICK q \in Nat : q = (v \div w)
  BY CpDivMod
<1>4. PICK r \in 0..(w - 1) : v = w * q + r
  BY <1>3, CpDivMod
<1>5. PICK x, y \in Nat : x = q * w /\ y = k * w /\ w * q = x
  OBVIOUS
<1>6. x = y <=> q = k
  BY <1>5
<1>7. CpPrefix(v, CpAddressBits, local.len) = x
  BY <1>1, <1>3, <1>5 DEF CpPrefix, CpWidth
<1>8. y <= v /\ v < y + w <=> q = k
  <2>1. ASSUME q = k PROVE y <= v /\ v < y + w
    BY <1>4, <1>5, <2>1
  <2>2. ASSUME y <= v, v < y + w PROVE q = k
    <3>1. PICK s \in 0..(w - 1) : v = y + s
      <4>1. v - y \in 0..(w - 1) /\ v = y + (v - y)
        BY <2>2
      <4> QED BY <4>1
    <3>2. v = w * k + s
      BY <1>5, <3>1
    <3>3. (v \div w) = k
      BY <3>2, CpDivided
    <3> QED BY <1>3, <3>3
  <2> QED BY <2>1, <2>2
<1>9. CpLiesIn(v, local) <=> (y <= v /\ v < y + w)
  BY <1>1, <1>2, <1>5 DEF CpLiesIn
<1>10. CpPrefix(v, CpAddressBits, local.len) = local.value <=> CpLiesIn(v, local)
  BY <1>2, <1>5, <1>6, <1>7, <1>8, <1>9
<1>11. CpPrefix(local.value, CpAddressBits, local.len) = local.value
  <2>1. y = w * k + 0 /\ 0 \in 0..(w - 1)
    BY <1>5
  <2>2. (y \div w) = k
    BY <2>1, CpDivided
  <2> QED BY <1>1, <1>2, <1>5, <2>2 DEF CpPrefix, CpWidth
<1>12. CpPrefix(v, CpAddressBits, local.len) = CpPrefix(local.value, CpAddressBits, local.len) <=> CpSameAs(v, local)
  <2>1. CpAddressBits \in Nat /\ local.value \in Nat /\ local.value < 2^CpAddressBits /\ local.len \in 0..CpAddressBits
    BY CpUnits, CpLocalIs
  <2> QED BY <2>1, CpSameBits DEF CpSameAs
<1> QED BY <1>10, <1>11, <1>12, Zenon
(* A network that is no longer than a zone holds all of it or nothing; a     *)
(* longer one never holds all of it.                                         *)
CpAllOf(zone, n, local) == \A x \in CpZoneRange(zone, n) : CpLiesIn(x, local)

LEMMA CpZoneNumbers ==
    ASSUME NEW n \in 1..CpLabels, NEW zone \in [1..n -> CpDigit]
    PROVE  \E a \in Nat, u \in Nat \ {0}, first \in Nat :
               /\ u = CpUnit(CpLabels - n) /\ u = 2^(CpAddressBits - CpLabelBits * n)
               /\ a = CpNumber(zone) /\ first = a * u
               /\ CpReversePrefix(zone) = [value |-> first, len |-> CpLabelBits * n]
               /\ CpZoneRange(zone, n) = first..(first + u - 1)
               /\ first + u <= 2^CpAddressBits
<1>1. PICK u \in Nat \ {0} : u = CpUnit(CpLabels - n)
  BY CpNumbers, CpUnits, CpLabels - n \in Nat
<1>2. PICK a \in Nat : a = CpNumber(zone) /\ a < CpUnit(n)
  BY CpNumberBelow, n \in Nat
<1>3. PICK first \in Nat : first = a * u
  OBVIOUS
<1>4. CpWidth(CpLabelBits * n) = u
  BY <1>1, CpWidthIs, CpNumbers, n \in 0..CpLabels
<1>5. Len(zone) = n
  <2>1. zone \in Seq(CpDigit)
    OBVIOUS
  <2> QED BY <2>1
<1>6. CpReversePrefix(zone) = [value |-> first, len |-> CpLabelBits * n]
  BY <1>2, <1>3, <1>4, <1>5, Zenon DEF CpReversePrefix
<1>7. CpZoneRange(zone, n) = first..(first + u - 1)
  BY <1>1, <1>2, <1>3 DEF CpZoneRange
<1>8. first + u <= 2^CpAddressBits
  <2>1. PICK p \in Nat : p = CpUnit(n)
    BY CpUnits, n \in Nat
  <2>2. (a + 1) * u <= p * u
    BY <1>2, <2>1, CpTimes, a + 1 \in Nat
  <2>3. p * u = 2^CpAddressBits
    <3>1. PICK i, j \in Nat : i = CpLabelBits * n /\ j = CpLabelBits * (CpLabels - n) /\ i + j = CpAddressBits
      <4>1. CpLabelBits * n + CpLabelBits * (CpLabels - n) = CpLabelBits * CpLabels
        BY CpNumbers
      <4>2. CpLabelBits * n \in Nat /\ CpLabelBits * (CpLabels - n) \in Nat
        BY CpNumbers
      <4> QED BY <4>1, <4>2 DEF CpAddressBits
    <3>2. 2^(i + j) = 2^i * 2^j
      BY CpPowerSum
    <3> QED BY <1>1, <2>1, <3>1, <3>2 DEF CpUnit
  <2>4. (a + 1) * u = first + u
    BY <1>3
  <2> QED BY <2>2, <2>3, <2>4
<1> QED BY <1>1, <1>2, <1>3, <1>4, <1>6, <1>7, <1>8 DEF CpWidth

LEMMA CpShortNetwork ==
    ASSUME NEW n \in 1..CpLabels, NEW zone \in [1..n -> CpDigit], NEW local \in CpLocalNetworks,
           local.len <= CpLabelBits * n
    PROVE  CpPrefix(CpReversePrefix(zone).value, CpAddressBits, local.len) = local.value <=> CpAllOf(zone, n, local)
<1>1. PICK a \in Nat, u \in Nat \ {0}, first \in Nat :
               /\ u = CpUnit(CpLabels - n) /\ u = 2^(CpAddressBits - CpLabelBits * n)
               /\ a = CpNumber(zone) /\ first = a * u
               /\ CpReversePrefix(zone) = [value |-> first, len |-> CpLabelBits * n]
               /\ CpZoneRange(zone, n) = first..(first + u - 1)
               /\ first + u <= 2^CpAddressBits
  BY CpZoneNumbers
<1>2. PICK w \in Nat \ {0} : w = CpWidth(local.len)
  BY CpLocalIs
<1>3. PICK k \in Nat : local.value = k * w
  BY <1>2, CpLocalIs
<1>4. PICK c \in Nat : w = c * u
  <2>1. PICK i, j, t \in Nat : j = CpLabelBits * n /\ i = j - local.len /\ t = CpAddressBits /\ j <= t
    <3>1. CpLabelBits * n \in Nat /\ CpAddressBits \in Nat /\ CpLabelBits * n <= CpAddressBits
      <4>1. n * CpLabelBits <= CpLabels * CpLabelBits
        BY CpTimes, CpNumbers, n \in Nat
      <4>2. n * CpLabelBits = CpLabelBits * n /\ CpLabels * CpLabelBits = CpLabelBits * CpLabels
        BY CpNumbers
      <4> QED BY <4>1, <4>2, CpNumbers DEF CpAddressBits
    <3>2. CpLabelBits * n - local.len \in Nat
      BY <3>1, CpLocalIs
    <3> QED BY <3>1, <3>2
  <2>2. PICK m \in Nat : m = local.len /\ t - m = i + (t - j) /\ t - j \in Nat
    <3>1. local.len \in Nat
      <4>1. local.len \in 0..t
        BY <2>1, CpLocalIs
      <4> QED BY <4>1
    <3>2. t - local.len = i + (t - j) /\ t - j \in Nat
      BY <2>1, <3>1
    <3> QED BY <3>1, <3>2
  <2>3. 2^(i + (t - j)) = 2^i * 2^(t - j)
    BY <2>1, <2>2, CpPowerSum
  <2>4. 2^i \in Nat
    BY CpPowers
  <2>5. w = 2^i * u
    BY <1>1, <1>2, <2>1, <2>2, <2>3 DEF CpWidth
  <2> QED BY <2>4, <2>5
<1>5. PICK s, y \in Nat : s = k * c /\ y = k * w /\ y = s * u
  BY <1>4
<1>6. PICK d \in Nat : d = s + c /\ d * u = y + w
  BY <1>4, <1>5
<1>7. CpLiesIn(first, local) <=> (y <= first /\ first < y + w)
  BY <1>2, <1>3, <1>5 DEF CpLiesIn
<1>8. ASSUME CpLiesIn(first, local) PROVE CpAllOf(zone, n, local)
  <2>1. y <= first /\ first < y + w
    BY <1>7, <1>8
  <2>2. a < d
    <3>1. SUFFICES ASSUME d <= a PROVE FALSE
      OBVIOUS
    <3>2. d * u <= a * u
      BY <3>1, CpTimes
    <3> QED BY <1>1, <1>6, <2>1, <3>2
  <2>3. (a + 1) * u <= d * u
    BY <2>2, CpTimes, a + 1 \in Nat
  <2>4. (a + 1) * u = first + u
    BY <1>1
  <2>5. first + u <= y + w
    BY <1>6, <2>3, <2>4
  <2>6. ASSUME NEW x \in first..(first + u - 1) PROVE CpLiesIn(x, local)
    <3>1. y <= x /\ x < y + w
      BY <2>1, <2>5
    <3> QED BY <1>2, <1>3, <1>5, <3>1 DEF CpLiesIn
  <2> QED BY <1>1, <2>6 DEF CpAllOf
<1>9. ASSUME CpAllOf(zone, n, local) PROVE CpLiesIn(first, local)
  <2>1. first \in first..(first + u - 1)
    OBVIOUS
  <2> QED BY <1>1, <1>9, <2>1 DEF CpAllOf
<1>10. first < 2^CpAddressBits
  <2>1. PICK t \in Nat : t = 2^CpAddressBits
    BY CpUnits, CpPowers
  <2>2. first + u <= t
    BY <1>1, <2>1, Zenon
  <2> QED BY <2>1, <2>2
<1>11. CpPrefix(first, CpAddressBits, local.len) = local.value <=> CpLiesIn(first, local)
  BY <1>10, CpLiesInIs
<1>12. CpReversePrefix(zone).value = first
  BY <1>1
<1> QED BY <1>8, <1>9, <1>11, <1>12

LEMMA CpLongNetwork ==
    ASSUME NEW n \in 1..CpLabels, NEW zone \in [1..n -> CpDigit], NEW local \in CpLocalNetworks,
           ~(local.len <= CpLabelBits * n)
    PROVE  ~CpAllOf(zone, n, local)
<1>1. PICK a \in Nat, u \in Nat \ {0}, first \in Nat :
               /\ u = CpUnit(CpLabels - n) /\ u = 2^(CpAddressBits - CpLabelBits * n)
               /\ a = CpNumber(zone) /\ first = a * u
               /\ CpReversePrefix(zone) = [value |-> first, len |-> CpLabelBits * n]
               /\ CpZoneRange(zone, n) = first..(first + u - 1)
               /\ first + u <= 2^CpAddressBits
  BY CpZoneNumbers
<1>2. PICK w \in Nat \ {0} : w = CpWidth(local.len)
  BY CpLocalIs
<1>3. PICK y \in Nat : y = local.value
  BY CpLocalIs
<1>4. 2 * w <= u
  <2>1. PICK j, m, t \in Nat : j = CpLabelBits * n /\ m = local.len /\ t = CpAddressBits /\ m <= t /\ j < m
    <3>1. PICK j \in Nat : j = CpLabelBits * n
      BY CpNumbers
    <3>2. PICK t \in Nat : t = CpAddressBits
      BY CpUnits
    <3>3. PICK m \in 0..t : m = local.len
      BY <3>2, CpLocalIs
    <3>4. m <= t /\ j < m
      BY <3>1, <3>3
    <3> QED BY <3>1, <3>2, <3>3, <3>4
  <2>2. PICK i, o \in Nat : m = (j + 1) + i /\ o = t - m /\ t - j = ((i + o) + 1)
    <3>1. m - (j + 1) \in Nat /\ t - m \in Nat
      BY <2>1
    <3>2. m = (j + 1) + (m - (j + 1)) /\ t - j = ((m - (j + 1)) + (t - m)) + 1
      BY <2>1
    <3> QED BY <3>1, <3>2
  <2>3. PICK p, q \in Nat \ {0} : p = 2^i /\ q = 2^o
    BY CpPowers
  <2>4. 2^(i + o) = p * q /\ 2^((i + o) + 1) = 2 * 2^(i + o)
    BY <2>3, CpPowers, CpPowerSum, i + o \in Nat
  <2>5. w = q /\ u = 2 * (p * q)
    BY <1>1, <1>2, <2>1, <2>2, <2>3, <2>4 DEF CpWidth
  <2>6. 1 * q <= p * q
    BY CpTimes
  <2>7. PICK r \in Nat : r = p * q
    OBVIOUS
  <2> QED BY <2>5, <2>6, <2>7
<1>5. SUFFICES ASSUME CpAllOf(zone, n, local) PROVE FALSE
  OBVIOUS
<1>6. first \in first..(first + u - 1) /\ first + (u - 1) \in first..(first + u - 1)
  OBVIOUS
<1>7. CpLiesIn(first, local) /\ CpLiesIn(first + (u - 1), local)
  BY <1>1, <1>5, <1>6 DEF CpAllOf
<1>8. y <= first /\ first + (u - 1) < y + w
  BY <1>2, <1>3, <1>7 DEF CpLiesIn
<1> QED BY <1>4, <1>8

(* A zone is taken for local exactly when all its addresses are local. *)
LEMMA CpZoneLocal ==
    ASSUME NEW n \in 1..CpLabels, NEW zone \in [1..n -> CpDigit]
    PROVE  CpNetworkIsLocal(CpReversePrefix(zone))
               <=> \A z \in CpAddressesOf(zone) : \E local \in CpLocalNetworks : CpSameAs(CpValueOf(z), local)
<1>1. PICK a \in Nat, u \in Nat \ {0}, first \in Nat :
               /\ u = CpUnit(CpLabels - n) /\ u = 2^(CpAddressBits - CpLabelBits * n)
               /\ a = CpNumber(zone) /\ first = a * u
               /\ CpReversePrefix(zone) = [value |-> first, len |-> CpLabelBits * n]
               /\ CpZoneRange(zone, n) = first..(first + u - 1)
               /\ first + u <= 2^CpAddressBits
  BY CpZoneNumbers
<1>2. PICK R : R = CpZoneRange(zone, n)
  OBVIOUS
<1>3. (\E local \in CpLocalNetworks : CpAllOf(zone, n, local))
        \/ (\E x \in R : \A local \in CpLocalNetworks : ~CpLiesIn(x, local))
  <2>1. a \in 0..(2^(CpLabelBits * n) - 1)
    <3>1. PICK p \in Nat : p = CpUnit(n)
      BY CpUnits, n \in Nat
    <3>2. a < p
      BY <1>1, <3>1, CpNumberBelow, n \in Nat
    <3>3. a \in 0..(p - 1)
      BY <3>2
    <3> QED BY <3>1, <3>3 DEF CpUnit
  <2>2. CpWidth(CpLabelBits * n) = u
    BY <1>1, CpWidthIs, CpNumbers, n \in 0..CpLabels
  <2>3. (\E local \in CpLocalNetworks : \A x \in R : CpLiesIn(x, local))
          \/ (\E x \in R : \A local \in CpLocalNetworks : ~CpLiesIn(x, local))
    <3>1. R = (a * CpWidth(CpLabelBits * n))..(a * CpWidth(CpLabelBits * n) + CpWidth(CpLabelBits * n) - 1)
      BY <1>1, <1>2, <2>2
    <3> QED BY <2>1, <3>1, CpLocalTable
  <2> QED BY <1>2, <2>3 DEF CpAllOf
<1>4. ASSUME NEW x \in R PROVE x \in Nat /\ x < 2^CpAddressBits
  <2>1. PICK t \in Nat : t = 2^CpAddressBits
    BY CpUnits, CpPowers
  <2>2. first + u <= t
    BY <1>1, <2>1, Zenon
  <2>3. x \in first..(first + u - 1)
    BY <1>1, <1>2
  <2> QED BY <2>1, <2>2, <2>3
<1>5. ASSUME CpNetworkIsLocal(CpReversePrefix(zone)), NEW z \in CpAddressesOf(zone)
      PROVE  \E local \in CpLocalNetworks : CpSameAs(CpValueOf(z), local)
  <2>1. PICK local \in CpLocalNetworks :
            /\ CpReversePrefix(zone).len >= local.len
            /\ CpPrefix(CpReversePrefix(zone).value, CpAddressBits, local.len) = local.value
    BY <1>5 DEF CpNetworkIsLocal
  <2>2. local.len <= CpLabelBits * n
    <3>1. CpLabelBits * n >= local.len
      BY <1>1, <2>1
    <3>2. local.len \in 0..CpAddressBits /\ CpAddressBits \in Nat /\ CpLabelBits * n \in Nat
      BY CpLocalIs, CpUnits, CpNumbers
    <3> QED BY <3>1, <3>2
  <2>3. CpAllOf(zone, n, local)
    BY <2>1, <2>2, CpShortNetwork
  <2>4. CpValueOf(z) \in Nat /\ CpValueOf(z) < 2^CpAddressBits /\ CpValueOf(z) \in CpZoneRange(zone, n)
    BY CpZoneHolds
  <2>5. CpLiesIn(CpValueOf(z), local)
    BY <2>3, <2>4 DEF CpAllOf
  <2>6. CpSameAs(CpValueOf(z), local)
    BY <2>4, <2>5, CpLiesInIs
  <2> QED BY <2>6
<1>6. ASSUME \A z \in CpAddressesOf(zone) : \E local \in CpLocalNetworks : CpSameAs(CpValueOf(z), local)
      PROVE  CpNetworkIsLocal(CpReversePrefix(zone))
  <2>1. ASSUME NEW x \in R PROVE \E local \in CpLocalNetworks : CpLiesIn(x, local)
    <3>1. PICK z \in CpAddressesOf(zone) : CpValueOf(z) = x
      BY <1>2, CpZoneReached
    <3>2. PICK local \in CpLocalNetworks : CpSameAs(x, local)
      BY <1>6, <3>1
    <3>3. CpLiesIn(x, local)
      BY <1>4, <3>2, CpLiesInIs
    <3> QED BY <3>3
  <2>2. PICK local \in CpLocalNetworks : CpAllOf(zone, n, local)
    BY <1>3, <2>1
  <2>3. local.len <= CpLabelBits * n
    BY <2>2, CpLongNetwork
  <2>4. CpPrefix(CpReversePrefix(zone).value, CpAddressBits, local.len) = local.value
    BY <2>2, <2>3, CpShortNetwork
  <2>5. CpReversePrefix(zone).len >= local.len
    <3>1. CpReversePrefix(zone).len = CpLabelBits * n
      BY <1>1
    <3>2. local.len \in 0..CpAddressBits /\ CpAddressBits \in Nat /\ CpLabelBits * n \in Nat
      BY CpLocalIs, CpUnits, CpNumbers
    <3> QED BY <2>3, <3>1, <3>2
  <2> QED BY <2>4, <2>5 DEF CpNetworkIsLocal
<1> QED BY <1>5, <1>6
------------------------------------------------------------------------------
(* The state: what is built, from which lines *)
LEMMA CpLastIn ==
    ASSUME NEW n \in Nat, NEW S \in SUBSET (1..n), S # {}
    PROVE  Max(S) \in S
<1>1. PICK m \in S : \A j \in S : j <= m
  <2>1. PICK T : T = {n - j : j \in S}
    OBVIOUS
  <2>2. T \in SUBSET Nat /\ T # {}
    <3>1. \A j \in S : n - j \in Nat
      OBVIOUS
    <3> QED BY <2>1, <3>1
  <2>3. PICK x \in T : \A y \in T : x <= y
    BY <2>2, RmLeast
  <2>4. PICK m \in S : x = n - m
    BY <2>1
  <2>5. ASSUME NEW j \in S PROVE j <= m
    <3>1. x <= n - j
      BY <2>1, <2>3
    <3> QED BY <2>4, <3>1
  <2> QED BY <2>5
<1>2. S \in SUBSET Nat
  OBVIOUS
<1>3. Max(S) = m
  BY <1>1, <1>2, CpMaxIs
<1> QED BY <1>3

LEMMA CpUserSaysIs ==
    ASSUME NEW lines \in Seq(CpLines), cpRuntime.of = lines, NEW name, NEW f
    PROVE  CpUserSays(name, f) = CpLastOf(lines, CpGivenTo(lines, Len(lines), name, f))
<1>1. PICK n \in Nat : n = Len(lines)
  OBVIOUS
<1>2. PICK kind : kind = "rewrite"
  OBVIOUS
<1>3. PICK r : r = CpOf(lines, "rewrite")
  OBVIOUS
<1>4. ASSUME NEW i \in DOMAIN r PROVE r[i] = lines[i] /\ r[i].kind = "rewrite" /\ i \in 1..n /\ r[i].wild \in BOOLEAN
  <2>1. r = CpOf(lines, kind)
    BY <1>2, <1>3
  <2>2. r[i] = lines[i] /\ lines[i] \in CpLines /\ lines[i].kind = kind /\ i \in 1..n
    BY <1>1, <2>1, CpOfIs
  <2> QED BY <1>2, <2>2, CpLineIs
<1>5. ASSUME NEW i \in 1..n, lines[i].kind = "rewrite" PROVE i \in DOMAIN r
  BY <1>1, <1>3, <1>5 DEF CpOf
<1>6. PICK own : own = {i \in DOMAIN r : ~r[i].wild /\ r[i].name = name}
  OBVIOUS
<1>7. PICK above : above = {i \in DOMAIN r : r[i].wild /\ IsSuffix(r[i].name, name)}
  OBVIOUS
<1>8. own = CpNaming(lines, n, FALSE, name)
  BY <1>4, <1>5, <1>6 DEF CpNaming
<1>9. above = CpAboveLines(lines, n, name)
  BY <1>4, <1>5, <1>7 DEF CpAboveLines
<1>10. PICK nearest : nearest = {i \in above : \A j \in above : Len(r[j].name) <= Len(r[i].name)}
  OBVIOUS
<1>11. \A i \in above : r[i] = lines[i]
  BY <1>4, <1>7
<1>12. nearest = CpNearest(lines, n, name)
  BY <1>9, <1>10, <1>11 DEF CpNearest
<1>13. PICK meant : meant = IF own # {} THEN own ELSE nearest
  OBVIOUS
<1>14. meant = CpMeantFor(lines, n, name)
  BY <1>8, <1>12, <1>13, Zenon DEF CpMeantFor
<1>15. meant \in SUBSET (DOMAIN r)
  BY <1>6, <1>7, <1>10, <1>13
<1>16. PICK given : given = {i \in meant : r[i].family = f}
  OBVIOUS
<1>17. given = CpGivenTo(lines, n, name, f)
  BY <1>4, <1>14, <1>15, <1>16 DEF CpGivenTo
<1>18. CpUserSays(name, f) = IF given = {} THEN "none" ELSE r[Max(given)].address
  BY <1>3, <1>6, <1>7, <1>10, <1>13, <1>16, Zenon DEF CpUserSays
<1>19. ASSUME given # {} PROVE r[Max(given)] = lines[Max(given)]
  <2>1. given \in SUBSET (1..n)
    BY <1>4, <1>15, <1>16
  <2>2. Max(given) \in given
    BY <1>19, <2>1, CpLastIn
  <2> QED BY <1>4, <1>15, <1>16, <2>2
<1> QED BY <1>1, <1>17, <1>18, <1>19, Zenon DEF CpLastOf

LEMMA CpHostsSayIs ==
    ASSUME NEW hosts \in Seq(CpHostLines), cpRuntime.hosts = hosts, NEW name, NEW f
    PROVE  CpHostsSay(name, f) = CpFirstOf(hosts, CpHosting(hosts, Len(hosts), name, f))
<1>1. DOMAIN hosts = 1..Len(hosts)
  OBVIOUS
<1> QED BY <1>1, Zenon DEF CpHostsSay, CpFirstOf, CpHosting

(* The inductive invariant: what runs was built from lines that were valid   *)
(* under the flags in force, whatever stands in the form now.                *)
CpBuiltFrom(of, hosts) ==
    /\ of \in Seq(CpLines) /\ hosts \in Seq(CpHostLines)
    /\ cpRuntime = CpBuild(of, hosts) /\ CpValid(of, cpFlags)
CpInv ==
    /\ cpDraft \in Seq(CpLines) /\ cpHosts \in Seq(CpHostLines)
    /\ cpSection \in CpSections /\ cpZone \in CpZones \cup {<<>>}
    /\ \E of, hosts : CpBuiltFrom(of, hosts)

LEMMA CpBuiltIs ==
    ASSUME NEW of, NEW hosts, CpBuiltFrom(of, hosts)
    PROVE  /\ cpRuntime.of = of /\ cpRuntime.hosts = hosts
           /\ cpRuntime.rewrites = CpMergeHosts(CpCompileRewrites(of), hosts)
           /\ cpRuntime.policies = CpOf(of, "policy")
           /\ cpRuntime.clients = CpOf(of, "client") /\ cpRuntime.domains = CpOf(of, "domain")
           /\ cpRuntime.panics = ~CpBuilds(of)
BY DEF CpBuiltFrom, CpBuild

LEMMA CpInvInit == CpInit => CpInv
<1> SUFFICES ASSUME CpInit PROVE CpInv
  OBVIOUS
<1>1. PICK of, hosts : of = <<>> /\ hosts = <<>>
  OBVIOUS
<1>2. of \in Seq(CpLines) /\ hosts \in Seq(CpHostLines) /\ DOMAIN of = {}
  BY <1>1
<1>3. CpGroups(of) = {} /\ \A kind : DOMAIN CpOf(of, kind) = {}
  BY <1>2 DEF CpGroups, CpOf
<1>4. CpGroupsOk(of) /\ CpProfilesOk(of) /\ CpDnssecOk(of, cpFlags)
  BY <1>2, <1>3 DEF CpGroupsOk, CpProfilesOk, CpDnssecOk
<1>5. CpValid(of, cpFlags)
  BY <1>2, <1>4, Zenon DEF CpValid
<1>6. CpBuiltFrom(of, hosts)
  BY <1>1, <1>2, <1>5, Zenon DEF CpInit, CpBuiltFrom
<1> QED BY <1>1, <1>2, <1>6 DEF CpInit, CpInv

LEMMA CpInvStep == CpInv /\ [CpNext]_cpVars => CpInv'
<1> SUFFICES ASSUME CpInv, [CpNext]_cpVars PROVE CpInv'
  OBVIOUS
<1>1. PICK of, hosts : CpBuiltFrom(of, hosts)
  BY DEF CpInv
<1>2. ASSUME cpRuntime' = cpRuntime, cpFlags' = cpFlags PROVE (\E x, y : CpBuiltFrom(x, y))'
  <2>1. CpBuiltFrom(of, hosts)'
    BY <1>1, <1>2, Zenon DEF CpBuiltFrom
  <2> QED BY <2>1
<1>3. CASE UNCHANGED cpVars
  BY <1>2, <1>3 DEF CpInv, cpVars
<1>4. ASSUME NEW line \in CpLines, CpEdit(line) PROVE CpInv'
  <2>1. cpDraft' \in Seq(CpLines)
    BY <1>4 DEF CpEdit, CpInv
  <2> QED BY <1>2, <1>4, <2>1 DEF CpEdit, CpInv
<1>5. ASSUME NEW line \in CpHostLines, CpEditHosts(line) PROVE CpInv'
  <2>1. cpHosts' \in Seq(CpHostLines)
    BY <1>5 DEF CpEditHosts, CpInv
  <2> QED BY <1>2, <1>5, <2>1 DEF CpEditHosts, CpInv
<1>6. CASE CpSave
  <2>1. CpBuiltFrom(cpDraft, cpHosts)'
    <3>1. /\ cpRuntime' = CpBuild(cpDraft, cpHosts) /\ cpFlags' = cpFlags
          /\ cpDraft' = cpDraft /\ cpHosts' = cpHosts /\ CpValid(cpDraft, cpFlags)
      BY <1>6, Zenon DEF CpSave
    <3> QED BY <3>1, Zenon DEF CpBuiltFrom, CpInv
  <2>2. (\E x, y : CpBuiltFrom(x, y))'
    BY <2>1, Zenon
  <2>3. UNCHANGED <<cpDraft, cpSection, cpHosts, cpZone>>
    BY <1>6, Zenon DEF CpSave
  <2> QED BY <2>2, <2>3 DEF CpInv
<1>7. ASSUME NEW zone \in CpZones, CpAskReverse(zone) PROVE CpInv'
  BY <1>2, <1>7 DEF CpAskReverse, CpInv
<1> QED BY <1>3, <1>4, <1>5, <1>6, <1>7 DEF CpNext

LEMMA CpInvIsRight == CpInv => CpPoliciesRight
<1> SUFFICES ASSUME CpInv PROVE CpPoliciesRight
  OBVIOUS
<1>1. PICK of, hosts : CpBuiltFrom(of, hosts)
  BY DEF CpInv
<1>2. of \in Seq(CpLines) /\ hosts \in Seq(CpHostLines) /\ CpValid(of, cpFlags)
  BY <1>1, Zenon DEF CpBuiltFrom
<1>3. PICK rw : rw = cpRuntime.rewrites /\ rw = CpMergeHosts(CpCompileRewrites(of), hosts)
  BY <1>1, CpBuiltIs
<1>4. ASSUME NEW name \in CpNames
      PROVE  /\ CpLookup(rw, name) \in CpTarget
             /\ \A f \in CpFamilies :
                   CpLookup(rw, name)[f] = IF CpUserSays(name, f) # "none" THEN CpUserSays(name, f)
                                           ELSE CpHostsSay(name, f)
  <2>1. name \in CpAnyName
    BY CpConstants
  <2>2. /\ CpLookup(rw, name) \in CpTarget
        /\ \A f \in CpFamilies :
              CpLookup(rw, name)[f]
                 = IF CpLastOf(of, CpGivenTo(of, Len(of), name, f)) = "none"
                   THEN CpFirstOf(hosts, CpHosting(hosts, Len(hosts), name, f))
                   ELSE CpLastOf(of, CpGivenTo(of, Len(of), name, f))
    BY <1>2, <1>3, <2>1, CpUserFirst
  <2>3. cpRuntime.of = of /\ cpRuntime.hosts = hosts
    BY <1>1, CpBuiltIs
  <2>4. ASSUME NEW f \in CpFamilies
        PROVE  /\ CpUserSays(name, f) = CpLastOf(of, CpGivenTo(of, Len(of), name, f))
               /\ CpHostsSay(name, f) = CpFirstOf(hosts, CpHosting(hosts, Len(hosts), name, f))
    BY <1>2, <2>3, CpUserSaysIs, CpHostsSayIs
  <2> QED BY <2>2, <2>4, Zenon
<1>5. CpUserRewritesWin
  BY <1>3, <1>4, Zenon DEF CpUserRewritesWin
<1>6. CpTypeOK
  <2>1. Range(cpDraft) \subseteq CpLines /\ Range(cpHosts) \subseteq CpHostLines
    BY DEF CpInv, Range
  <2>2. \A n \in CpNames : CpLookup(cpRuntime.rewrites, n) \in [CpFamilies -> CpAddress \cup {"none"}]
    BY <1>3, <1>4, Zenon DEF CpTarget
  <2> QED BY <2>1, <2>2, Zenon DEF CpTypeOK, CpInv
<1>7. CpPolicyInTime
  <2>1. PICK rules : rules = cpRuntime.policies /\ rules = CpOf(of, "policy")
    BY <1>1, CpBuiltIs
  <2>2. ASSUME NEW c \in CpClients, NEW t \in 0..(CpWeek - 1)
        PROVE  CpDecision(rules, c, t \div CpMinutes, t % CpMinutes) = CpMeant(rules, CpTop(rules, CpForce(rules, c, t)))
    BY <1>2, <2>1, CpDecides
  <2> QED BY <2>1, <2>2, Zenon DEF CpPolicyInTime, CpMeant, CpTop, CpForce
<1>8. CpAcceptedBuilds
  <2>1. CpBuilds(of)
    BY <1>2, CpBuildable
  <2> QED BY <1>1, <2>1, CpBuiltIs DEF CpAcceptedBuilds
<1>9. CpRoutesSecure
  <2>1. SUFFICES ASSUME NEW name \in CpNames, NEW c \in CpClients, CpSelect(cpRuntime, name, c) # <<>>,
                        CpSelect(cpRuntime, name, c)[1].scheme = "http"
                 PROVE  cpFlags.insecure /\ ~cpFlags.dnssec
    BY Zenon DEF CpRoutesSecure
  <2>2. cpRuntime.clients = CpOf(of, "client") /\ cpRuntime.domains = CpOf(of, "domain")
    BY <1>1, CpBuiltIs
  <2>3. PICK runtime : runtime = cpRuntime
    OBVIOUS
  <2> QED BY <1>2, <2>1, <2>2, CpSecure
<1>10. CpPrivateStaysHome
  <2>1. SUFFICES ASSUME cpZone # <<>>
                 PROVE  CpIsLocalReverse(cpZone)
                            <=> \A z \in CpAddressesOf(cpZone) :
                                    \E local \in CpLocalNetworks : CpSameAs(CpValueOf(z), local)
    BY Zenon DEF CpPrivateStaysHome, CpSameAs
  <2>2. PICK n \in 1..CpLabels : cpZone \in [1..n -> CpDigit]
    BY <2>1, Zenon DEF CpInv, CpZones, CpDigit
  <2>3. PICK zone : zone = cpZone
    OBVIOUS
  <2>4. CpNetworkIsLocal(CpReversePrefix(zone))
           <=> \A z \in CpAddressesOf(zone) : \E local \in CpLocalNetworks : CpSameAs(CpValueOf(z), local)
    BY <2>2, <2>3, CpZoneLocal
  <2> QED BY <2>1, <2>3, <2>4, Zenon DEF CpIsLocalReverse
<1> QED BY <1>5, <1>6, <1>7, <1>8, <1>9, <1>10, Zenon DEF CpPoliciesRight

(* The runtime built from a saved configuration says of every name, client,  *)
(* minute and zone what the lines of the configuration say, for tables and   *)
(* lines of any length: compile_rewrites, merge_hosts_file, decision_at,     *)
(* UpstreamRoutes::select, AppConfig::validate and network_is_local_v4.      *)
THEOREM CpPoliciesCorrect == CpSpec => []CpPoliciesRight
<1> QED BY CpInvInit, CpInvStep, CpInvIsRight, PTL DEF CpSpec
=============================================================================
