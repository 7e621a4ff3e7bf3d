---------------------------- MODULE MonitoringProofs ----------------------------
(***************************************************************************)
(* The properties of Monitoring for any URLs, providers, sessions and      *)
(* bounds.  A session compares with rows it read long before its commit:   *)
(* the invariant says what is still true of them then.                     *)
(***************************************************************************)
EXTENDS Monitoring, FiniteSetTheorems, SequenceTheorems, WellFoundedInduction, TLAPS

-----------------------------------------------------------------------------
(* The inductive invariant. *)

\* What runs and rows say of each other exists, and no rule was there when a
\* session that adds one began.
Referential ==
  /\ \A n \in DOMAIN runs : runs[n].covered \subseteq Rows /\ runs[n].rule \in DOMAIN rules
  /\ \A i \in Rows : findings[i].run <= Len(runs)
  /\ \A i \in DOMAIN rules : rules[i].seen = 0

\* A scan has loaded one row for every key; a row it has loaded as missing was
\* missed by a scan before; and the count of its rule is the one it has loaded,
\* unless another scan of the rule was committed since.
ScanGood(q) ==
  /\ DOMAIN q.index \subseteq 1..q.seen /\ q.seen <= Len(findings)
  /\ q.past <= Len(runs) /\ q.rule \in 0..Len(rules)
  /\ \A i \in 1..q.seen : \E m \in DOMAIN q.index : findings[m].key = findings[i].key
  /\ \A i, m \in DOMAIN q.index : findings[m].key = findings[i].key => m = i
  /\ \A i \in DOMAIN q.index : q.index[i] = "NOT_OBSERVED" =>
       \E n \in DOMAIN runs : i \in runs[n].covered /\ findings[i].key \notin runs[n].observed
  /\ q.rule = 0 => q.was.delta = 0 /\ q.was.seen = 0
  /\ q.rule # 0 =>
       rules[q.rule].delta = q.was.delta \/ \E m \in RunsOf(q.rule) : q.past < m

ConfigureGood(q) ==
  /\ q.rule \in 0..Len(rules)
  /\ q.rule = 0 => q.was.seen = 0 /\ q.was.enabled = q.was.scheduled
  /\ q.was.enabled # q.was.scheduled => RunsOf(q.rule) # {}

DiscoveryGood(q) ==
  /\ DOMAIN q.index \subseteq 1..q.seen /\ q.seen <= Len(findings)
  /\ \A i \in 1..q.seen : \E m \in DOMAIN q.index :
       findings[m].key = findings[i].key /\ findings[m].by = findings[i].by

SessionGood(q) ==
  /\ q.op = "scan" => ScanGood(q)
  /\ q.op = "configure" => ConfigureGood(q)
  /\ q.op = "discover" => DiscoveryGood(q)

SessionsGood == \A r \in Requests : SessionGood(req[r])

Explained ==
  DuplicatesExplained /\ StateReflectsLastScan /\ RulesExplained /\ CountsAddUp

IInv == TypeOK /\ Referential /\ SessionsGood /\ Explained

-----------------------------------------------------------------------------
(* What the types say. *)

LEMMA Shapes ==
  ASSUME TypeOK
  PROVE  /\ Len(findings) \in Nat /\ Rows = 1..Len(findings)
         /\ \A i \in Rows : findings[i] \in SearchResult
         /\ Len(runs) \in Nat /\ DOMAIN runs = 1..Len(runs)
         /\ \A n \in DOMAIN runs : runs[n] \in MonitoringRun
         /\ Len(rules) \in Nat /\ DOMAIN rules = 1..Len(rules)
         /\ \A i \in DOMAIN rules : rules[i] \in MonitoringRule
BY DEF TypeOK, Rows

LEMMA Sessions ==
  ASSUME TypeOK, NEW r \in Requests
  PROVE  /\ req[r].op = "scan" => req[r] \in Scanning
         /\ req[r].op = "configure" => req[r] \in Configuring
         /\ req[r].op = "discover" => req[r] \in Discovering
BY DEF TypeOK, Idle, Scanning, Configuring, Discovering

LEMMA Items ==
  ASSUME NEW q \in Scanning
  PROVE  /\ Len(q.items) \in Nat /\ DOMAIN q.items = 1..Len(q.items)
         /\ \A p \in DOMAIN q.items : q.items[p] \in Keys
<1>1. PICK n \in 0..MaxItems : q.items \in [1..n -> Keys]
  <2>1. q.items \in Scans
    BY DEF Scanning
  <2> QED
    BY <2>1 DEF Scans
<1>2. n \in Nat
  BY BoundsAssumption
<1>3. q.items \in Seq(Keys)
  BY <1>1, <1>2, SeqDef
<1> QED
  BY <1>3

LEMMA Found ==
  ASSUME NEW q \in Discovering
  PROVE  /\ Len(q.found) \in Nat /\ DOMAIN q.found = 1..Len(q.found)
         /\ \A p \in DOMAIN q.found : q.found[p].key \in Keys /\ q.found[p].by \in Engines
         /\ \A p, o \in DOMAIN q.found : q.found[p].key = q.found[o].key => p = o
<1>1. /\ q.found \in UNION {[1..n -> [key : Keys, by : Engines]] : n \in 1..MaxFound}
      /\ \A p, o \in DOMAIN q.found : q.found[p].key = q.found[o].key => p = o
  BY DEF Discovering, Discoveries
<1>2. PICK n \in 1..MaxFound : q.found \in [1..n -> [key : Keys, by : Engines]]
  BY <1>1
<1>3. n \in Nat
  BY BoundsAssumption
<1>4. q.found \in Seq([key : Keys, by : Engines])
  BY <1>2, <1>3, SeqDef
<1> QED
  BY <1>1, <1>4

LEMMA IndexStates ==
  ASSUME NEW f \in Loaded
  PROVE  /\ IsFiniteSet(DOMAIN f) /\ DOMAIN f \subseteq 1..MaxFindings
         /\ \A i \in DOMAIN f : f[i] \in ObservationState
<1>1. PICK S \in SUBSET (1..MaxFindings) : f \in [S -> ObservationState]
  BY DEF Loaded
<1>2. IsFiniteSet(1..MaxFindings)
  BY BoundsAssumption, FS_Interval
<1> QED
  BY <1>1, <1>2, FS_Subset

\* The rows, made longer.
LEMMA Longer ==
  ASSUME NEW s \in Seq(SearchResult), NEW c \in Nat, NEW t \in [1..c -> SearchResult]
  PROVE  /\ s \o t \in Seq(SearchResult) /\ Len(s \o t) = Len(s) + c
         /\ \A i \in 1..Len(s) : (s \o t)[i] = s[i]
         /\ \A n \in 1..c : (s \o t)[Len(s) + n] = t[n]
<1>1. t \in Seq(SearchResult) /\ Len(t) = c
  OBVIOUS
<1>2. Len(s) \in Nat
  OBVIOUS
<1>3. /\ s \o t \in Seq(SearchResult) /\ Len(s \o t) = Len(s) + Len(t)
      /\ \A i \in 1..Len(s) + Len(t) : (s \o t)[i] = IF i <= Len(s) THEN s[i] ELSE t[i - Len(s)]
  BY <1>1, ConcatProperties
<1>4. \A n \in 1..c : Len(s) + n \in 1..Len(s) + c /\ ~(Len(s) + n <= Len(s))
                      /\ (Len(s) + n) - Len(s) = n
  BY <1>2
<1> QED
  BY <1>1, <1>2, <1>3, <1>4

LEMMA Enumerated ==
  ASSUME NEW n \in Nat, NEW S \in SUBSET (1..n)
  PROVE  /\ Cardinality(S) \in Nat
         /\ \A o \in InOrder(S) :
              /\ o \in [1..Cardinality(S) -> S]
              /\ \A a, b \in 1..Cardinality(S) : o[a] = o[b] => a = b
<1>1. IsFiniteSet(S)
  <2>1. IsFiniteSet(1..n)
    BY FS_Interval
  <2> QED
    BY <2>1, FS_Subset
<1>2. Cardinality(S) \in Nat
  BY <1>1, FS_CardinalityType
<1>3. ASSUME NEW o \in InOrder(S), NEW a \in 1..Cardinality(S), NEW b \in 1..Cardinality(S),
             o[a] = o[b]
      PROVE  a = b
  <2>1. o[a] \in 1..n /\ o[b] \in 1..n
    BY <1>3 DEF InOrder
  <2>2. ~(o[a] < o[b]) /\ ~(o[b] < o[a])
    BY <1>3, <2>1
  <2> QED
    BY <1>2, <1>3, <2>2 DEF InOrder
<1> QED
  BY <1>2, <1>3 DEF InOrder

\* A bounded set of numbers has a greatest one.
LEMMA Greatest ==
  ASSUME NEW S \in SUBSET Nat, S # {}, NEW n \in Nat, \A m \in S : m <= n
  PROVE  Max(S) \in S /\ \A m \in S : m <= Max(S)
<1>1. \E m \in S : \A k \in S : k <= m
  <2> DEFINE T == {n - m : m \in S}
  <2>1. T \subseteq Nat /\ T # {}
    <3>1. \A m \in S : n - m \in Nat
      OBVIOUS
    <3>2. \E m \in S : n - m \in T
      OBVIOUS
    <3> QED
      BY <3>1, <3>2
  <2>2. PICK d \in T : \A e \in T : ~(<<e, d>> \in OpToRel(<, Nat))
    BY <2>1, NatLessThanWellFounded, WFMin
  <2>3. \A e \in T : ~(e < d)
    BY <2>1, <2>2 DEF OpToRel
  <2>4. PICK m \in S : d = n - m
    OBVIOUS
  <2>5. ASSUME NEW k \in S PROVE k <= m
    <3>1. ~(n - k < n - m)
      BY <2>3, <2>4
    <3> QED
      BY <3>1
  <2> QED
    BY <2>5
<1> QED
  BY <1>1 DEF Max

-----------------------------------------------------------------------------
(* Sessions. *)

\* Rows are added and keep their identity; the count of a rule changes only with
\* a new run of the rule.
Grows ==
  /\ Len(findings) <= Len(findings')
  /\ \A i \in Rows : /\ findings'[i].key = findings[i].key /\ findings'[i].by = findings[i].by
                     /\ findings'[i].seen = findings[i].seen
                     /\ findings'[i].run = findings[i].run
  /\ Len(runs) <= Len(runs') /\ \A n \in DOMAIN runs : runs'[n] = runs[n]
  /\ Len(rules) <= Len(rules')
  /\ \A i \in DOMAIN rules :
       \/ rules'[i].delta = rules[i].delta
       \/ \E n \in DOMAIN runs' : Len(runs) < n /\ runs'[n].rule = i

LEMMA SessionStays ==
  ASSUME TypeOK, TypeOK', Grows, NEW r \in Requests, SessionGood(req[r]), req'[r] = req[r]
  PROVE  SessionGood(req[r])'
<1> DEFINE q == req[r]
<1>1. /\ Len(findings) \in Nat /\ Rows = 1..Len(findings)
      /\ Len(findings') \in Nat
      /\ Len(runs) \in Nat /\ DOMAIN runs = 1..Len(runs)
      /\ Len(runs') \in Nat /\ DOMAIN runs' = 1..Len(runs')
      /\ Len(rules) \in Nat /\ DOMAIN rules = 1..Len(rules)
      /\ Len(rules') \in Nat
  BY DEF TypeOK, Rows
<1>2. DOMAIN runs \subseteq DOMAIN runs'
  BY <1>1 DEF Grows
<1>3. \A i : RunsOf(i) \subseteq RunsOf(i)'
  BY <1>2 DEF RunsOf, Grows
<1>4. ASSUME q.op = "scan" PROVE ScanGood(q)'
  <2>1. ScanGood(q) /\ q \in Scanning /\ q.seen \in Nat /\ q.past \in Nat /\ q.rule \in Nat
    BY <1>4, Sessions DEF SessionGood, Scanning
  <2>2. \A i \in 1..q.seen : i \in Rows /\ findings'[i].key = findings[i].key
    BY <1>1, <2>1 DEF ScanGood, Grows
  <2>3. DOMAIN q.index \subseteq 1..q.seen
    BY <2>1 DEF ScanGood
  <2>4. /\ q.seen <= Len(findings') /\ q.past <= Len(runs') /\ q.rule \in 0..Len(rules')
    BY <1>1, <2>1 DEF ScanGood, Grows
  <2>5. /\ \A i \in 1..q.seen : \E m \in DOMAIN q.index : findings'[m].key = findings'[i].key
        /\ \A i, m \in DOMAIN q.index : findings'[m].key = findings'[i].key => m = i
    BY <2>1, <2>2, <2>3, SMTT(30) DEF ScanGood
  <2>6. ASSUME NEW i \in DOMAIN q.index, q.index[i] = "NOT_OBSERVED"
        PROVE  \E n \in DOMAIN runs' :
                 i \in runs'[n].covered /\ findings'[i].key \notin runs'[n].observed
    <3>1. PICK n \in DOMAIN runs :
            i \in runs[n].covered /\ findings[i].key \notin runs[n].observed
      BY <2>1, <2>6 DEF ScanGood
    <3>2. runs'[n] = runs[n] /\ n \in DOMAIN runs' /\ findings'[i].key = findings[i].key
      BY <1>2, <2>2, <2>3 DEF Grows
    <3> QED
      BY <3>1, <3>2
  <2>7. ASSUME q.rule # 0
        PROVE  rules'[q.rule].delta = q.was.delta \/ \E m \in RunsOf(q.rule)' : q.past < m
    <3>1. q.rule \in DOMAIN rules
      BY <1>1, <2>1, <2>7 DEF ScanGood
    <3>2. CASE \E m \in RunsOf(q.rule) : q.past < m
      BY <1>3, <3>2
    <3>3. CASE rules[q.rule].delta = q.was.delta /\ rules'[q.rule].delta = rules[q.rule].delta
      BY <3>3
    <3>4. ASSUME NEW n \in DOMAIN runs', Len(runs) < n, runs'[n].rule = q.rule
          PROVE  \E m \in RunsOf(q.rule)' : q.past < m
      <4>1. q.past < n
        BY <1>1, <2>1, <3>4 DEF ScanGood
      <4>2. n \in RunsOf(q.rule)'
        BY <3>4 DEF RunsOf
      <4> QED
        BY <4>1, <4>2
    <3> QED
      BY <2>1, <2>7, <3>1, <3>2, <3>3, <3>4 DEF ScanGood, Grows
  <2>8. q.rule = 0 => q.was.delta = 0 /\ q.was.seen = 0
    BY <2>1 DEF ScanGood
  <2> QED
    BY <2>3, <2>4, <2>5, <2>6, <2>7, <2>8 DEF ScanGood
<1>5. ASSUME q.op = "configure" PROVE ConfigureGood(q)'
  <2>1. ConfigureGood(q) /\ q \in Configuring /\ q.rule \in Nat
    BY <1>5, Sessions DEF SessionGood, Configuring
  <2> QED
    BY <1>1, <1>3, <2>1 DEF ConfigureGood, Grows
<1>6. ASSUME q.op = "discover" PROVE DiscoveryGood(q)'
  <2>1. DiscoveryGood(q) /\ q \in Discovering /\ q.seen \in Nat
    BY <1>6, Sessions DEF SessionGood, Discovering
  <2>2. \A i \in 1..q.seen : /\ findings'[i].key = findings[i].key
                             /\ findings'[i].by = findings[i].by
    BY <1>1, <2>1 DEF DiscoveryGood, Grows
  <2>3. DOMAIN q.index \subseteq 1..q.seen /\ q.seen <= Len(findings')
    BY <1>1, <2>1 DEF DiscoveryGood, Grows
  <2>4. ASSUME NEW i \in 1..q.seen
        PROVE  \E m \in DOMAIN q.index :
                 findings'[m].key = findings'[i].key /\ findings'[m].by = findings'[i].by
    <3>1. PICK m \in DOMAIN q.index :
            findings[m].key = findings[i].key /\ findings[m].by = findings[i].by
      BY <2>1 DEF DiscoveryGood
    <3> QED
      BY <2>2, <2>3, <3>1
  <2> QED
    BY <2>3, <2>4 DEF DiscoveryGood
<1> QED
  BY <1>4, <1>5, <1>6 DEF SessionGood

LEMMA Standstill ==
  ASSUME TypeOK, UNCHANGED <<findings, runs, rules>>
  PROVE  Grows
BY Shapes DEF Grows, Rows

\* A session that begins has read what is there.
LEMMA BeginScanGood ==
  ASSUME TypeOK, Referential, Explained, NEW r \in Requests, NEW items \in Scans,
         NEW i \in 0..Len(rules), i = 0 => rules = <<>>, BeginScan(r, items, i)
  PROVE  req'[r] \in Scanning /\ SessionGood(req[r])'
<1>1. PICK S \in OnePer(KeyOf) :
        req' = [req EXCEPT ![r] =
          [op |-> "scan", items |-> items, rule |-> i,
           was |-> [delta |-> RuleRow(i, TRUE).delta, seen |-> RuleRow(i, TRUE).seen],
           index |-> [n \in S |-> findings[n].state],
           seen |-> Len(findings), past |-> Len(runs)]]
  BY DEF BeginScan
<1>2. UNCHANGED <<findings, runs, rules>>
  BY DEF BeginScan
<1>3. PICK q : /\ req'[r] = q
               /\ q = [op |-> "scan", items |-> items, rule |-> i,
                       was |-> [delta |-> RuleRow(i, TRUE).delta, seen |-> RuleRow(i, TRUE).seen],
                       index |-> [n \in S |-> findings[n].state],
                       seen |-> Len(findings), past |-> Len(runs)]
  BY <1>1 DEF TypeOK
<1>4. /\ Len(findings) \in Nat /\ Rows = 1..Len(findings) /\ Len(findings) <= MaxFindings
      /\ \A n \in Rows : findings[n].state \in ObservationState
      /\ Len(runs) \in Nat /\ Len(rules) \in Nat /\ DOMAIN rules = 1..Len(rules)
      /\ \A n \in DOMAIN rules : rules[n].delta \in Nat /\ rules[n].seen \in Nat
  BY Shapes DEF TypeOK, SearchResult, MonitoringRule
<1>5. /\ S \subseteq Rows
      /\ \A n \in Rows : \E m \in S : findings[m].key = findings[n].key
      /\ \A n, m \in S : findings[m].key = findings[n].key => m = n
  BY DEF OnePer, KeyOf
<1>a. /\ q.op = "scan" /\ q.items = items /\ q.rule = i
      /\ q.index = [n \in S |-> findings[n].state]
      /\ q.seen = Len(findings) /\ q.past = Len(runs)
      /\ q.was = [delta |-> RuleRow(i, TRUE).delta, seen |-> RuleRow(i, TRUE).seen]
      /\ q = [op |-> q.op, items |-> q.items, rule |-> q.rule, was |-> q.was,
              index |-> q.index, seen |-> q.seen, past |-> q.past]
  BY <1>3
<1>b. q.was.delta = RuleRow(i, TRUE).delta /\ q.was.seen = RuleRow(i, TRUE).seen
  BY <1>a
<1>6. /\ i = 0 => RuleRow(i, TRUE).delta = 0 /\ RuleRow(i, TRUE).seen = 0
      /\ i # 0 => i \in DOMAIN rules /\ RuleRow(i, TRUE) = rules[i]
  <2>1. CASE i = 0
    <3>1. Len(rules) = 0
      BY <2>1
    <3> QED
      BY <2>1, <3>1 DEF RuleRow, NewRule
  <2>2. CASE i # 0
    BY <1>4, <2>2 DEF RuleRow
  <2> QED
    BY <2>1, <2>2
<1>7. q.index \in Loaded
  <2>1. BoundsAssumption => S \in SUBSET (1..MaxFindings)
    BY <1>4, <1>5 DEF BoundsAssumption
  <2>2. [n \in S |-> findings[n].state] \in [S -> ObservationState]
    BY <1>4, <1>5
  <2> QED
    BY <1>3, <2>1, <2>2, BoundsAssumption DEF Loaded
<1>8. req'[r] \in Scanning
  <2>1. RuleRow(i, TRUE).delta \in Nat /\ RuleRow(i, TRUE).seen \in Nat
    BY <1>4, <1>6
  <2>2. ASSUME NEW items_ \in Scans, NEW rule \in Nat, NEW delta \in Nat, NEW was \in Nat,
               NEW index \in Loaded, NEW seen \in Nat, NEW past \in Nat
        PROVE  [op |-> "scan", items |-> items_, rule |-> rule,
                was |-> [delta |-> delta, seen |-> was],
                index |-> index, seen |-> seen, past |-> past] \in Scanning
    BY DEF Scanning
  <2>3. PICK delta \in Nat, was \in Nat :
          delta = RuleRow(i, TRUE).delta /\ was = RuleRow(i, TRUE).seen
    BY <2>1, Zenon
  <2>4. q = [op |-> "scan", items |-> items, rule |-> i, was |-> [delta |-> delta, seen |-> was],
             index |-> q.index, seen |-> Len(findings), past |-> Len(runs)]
    BY <1>a, <2>3
  <2>5. i \in Nat
    BY <1>4
  <2>6. q \in Scanning
    BY <1>4, <1>7, <2>2, <2>4, <2>5
  <2> QED
    BY <1>3, <2>6
<1>9. ScanGood(req[r])'
  <2>1. \A n \in DOMAIN q.index : q.index[n] = "NOT_OBSERVED" =>
          \E m \in DOMAIN runs : n \in runs[m].covered /\ findings[n].key \notin runs[m].observed
    <3>1. SUFFICES ASSUME NEW n \in S, findings[n].state = "NOT_OBSERVED"
                   PROVE  \E m \in DOMAIN runs : n \in runs[m].covered
                                                 /\ findings[n].key \notin runs[m].observed
      BY <1>3
    <3>2. CoveredBy(n) # {} /\ findings[n].key \notin runs[Max(CoveredBy(n))].observed
      BY <1>5, <3>1 DEF Explained, StateReflectsLastScan
    <3>3. CoveredBy(n) \in SUBSET Nat /\ \A m \in CoveredBy(n) : m <= Len(runs)
      BY Shapes DEF CoveredBy
    <3>4. Max(CoveredBy(n)) \in CoveredBy(n)
      BY <1>4, <3>2, <3>3, Greatest
    <3> QED
      BY <3>2, <3>4 DEF CoveredBy
  <2>2. i # 0 => rules[i].delta = q.was.delta
    BY <1>b, <1>6
  <2>3. i = 0 => q.was.delta = 0 /\ q.was.seen = 0
    BY <1>b, <1>6
  <2>4. /\ DOMAIN q.index = S /\ q.seen = Len(findings) /\ q.past = Len(runs) /\ q.rule = i
    BY <1>3
  <2>5. /\ \A n \in 1..q.seen : \E m \in DOMAIN q.index : findings[m].key = findings[n].key
        /\ \A n, m \in DOMAIN q.index : findings[m].key = findings[n].key => m = n
    BY <1>4, <1>5, <2>4
  <2>6. ScanGood(q)
    BY <1>4, <1>5, <2>1, <2>2, <2>3, <2>4, <2>5 DEF ScanGood
  <2> QED
    BY <1>2, <1>3, <2>6 DEF ScanGood, Rows, RunsOf
<1> QED
  BY <1>3, <1>8, <1>9 DEF SessionGood

LEMMA BeginConfigureGood ==
  ASSUME TypeOK, Referential, Explained, NEW r \in Requests, NEW enabled \in BOOLEAN,
         BeginConfigure(r, enabled)
  PROVE  req'[r] \in Configuring /\ SessionGood(req[r])'
<1>1. PICK i \in TheRules \cup {0} :
        /\ IF i = 0 THEN TheRules = {} ELSE TheRules = {i}
        /\ req' = [req EXCEPT ![r] =
             [op |-> "configure", rule |-> i, enabled |-> enabled,
              was |-> [enabled   |-> RuleRow(i, enabled).enabled,
                       scheduled |-> RuleRow(i, enabled).scheduled,
                       seen      |-> RuleRow(i, enabled).seen]]]
  BY DEF BeginConfigure
<1>2. UNCHANGED <<findings, runs, rules>>
  BY DEF BeginConfigure
<1>3. /\ Len(rules) \in Nat /\ DOMAIN rules = 1..Len(rules)
      /\ \A n \in DOMAIN rules : /\ rules[n].enabled \in BOOLEAN /\ rules[n].scheduled \in BOOLEAN
                                /\ rules[n].seen \in Nat
  BY Shapes DEF MonitoringRule
<1>4. i \in 0..Len(rules) /\ (i = 0 => Len(rules) = 0)
  BY <1>1, <1>3 DEF TheRules
<1>5. /\ i = 0 => /\ RuleRow(i, enabled).enabled = enabled
                 /\ RuleRow(i, enabled).scheduled = enabled
                 /\ RuleRow(i, enabled).seen = 0
      /\ i # 0 => i \in DOMAIN rules /\ RuleRow(i, enabled) = rules[i]
  BY <1>3, <1>4 DEF RuleRow, NewRule
<1>6. PICK on \in BOOLEAN, set \in BOOLEAN, seen \in Nat :
        /\ on = RuleRow(i, enabled).enabled /\ set = RuleRow(i, enabled).scheduled
        /\ seen = RuleRow(i, enabled).seen
  <2>1. /\ RuleRow(i, enabled).enabled \in BOOLEAN /\ RuleRow(i, enabled).scheduled \in BOOLEAN
        /\ RuleRow(i, enabled).seen \in Nat
    <3>1. CASE i = 0
      BY <1>5, <3>1
    <3>2. CASE i # 0
      BY <1>3, <1>5, <3>2
    <3> QED
      BY <3>1, <3>2
  <2> QED
    BY <2>1, Zenon
<1>7. req'[r] = [op |-> "configure", rule |-> i, enabled |-> enabled,
                 was |-> [enabled |-> on, scheduled |-> set, seen |-> seen]]
  BY <1>1, <1>6 DEF TypeOK
<1>8. req'[r] \in Configuring
  BY <1>4, <1>7 DEF Configuring
<1>9. PICK q : q = req'[r]
  OBVIOUS
<1>10. /\ q.op = "configure" /\ q.rule = i
       /\ q.was.enabled = on /\ q.was.scheduled = set /\ q.was.seen = seen
  BY <1>7, <1>9
<1>11. i = 0 => seen = 0 /\ on = set
  BY <1>5, <1>6
<1>12. on # set => RunsOf(i) # {}
  <2>1. SUFFICES ASSUME on # set PROVE RunsOf(i) # {}
    OBVIOUS
  <2>2. i \in DOMAIN rules /\ rules[i].enabled # rules[i].scheduled
    BY <1>5, <1>6, <1>11, <2>1
  <2> QED
    BY <2>2 DEF Explained, RulesExplained, RunsOf
<1>13. ConfigureGood(q)
  BY <1>4, <1>10, <1>11, <1>12 DEF ConfigureGood
<1>14. ConfigureGood(req[r])'
  BY <1>2, <1>9, <1>13 DEF ConfigureGood, RunsOf
<1> QED
  BY <1>8, <1>9, <1>10, <1>14 DEF SessionGood

LEMMA BeginDiscoveryGood ==
  ASSUME TypeOK, NEW r \in Requests, NEW found \in Discoveries, BeginDiscovery(r, found)
  PROVE  req'[r] \in Discovering /\ SessionGood(req[r])'
<1>1. PICK S \in OnePer(IdentityOf) :
        req' = [req EXCEPT ![r] =
          [op |-> "discover", found |-> found,
           index |-> [i \in S |-> findings[i].state], seen |-> Len(findings)]]
  BY DEF BeginDiscovery
<1>2. UNCHANGED <<findings, runs, rules>>
  BY DEF BeginDiscovery
<1>3. /\ Len(findings) \in Nat /\ Rows = 1..Len(findings) /\ Len(findings) <= MaxFindings
      /\ \A n \in Rows : findings[n].state \in ObservationState
  BY Shapes DEF TypeOK, SearchResult
<1>4. /\ S \subseteq Rows
      /\ \A n \in Rows : \E m \in S : findings[m].by = findings[n].by
                                     /\ findings[m].key = findings[n].key
  BY DEF OnePer, IdentityOf
<1>5. PICK index \in Loaded : index = [i \in S |-> findings[i].state] /\ DOMAIN index = S
  <2>1. S \in SUBSET (1..MaxFindings)
    BY <1>3, <1>4, BoundsAssumption DEF BoundsAssumption
  <2>2. [i \in S |-> findings[i].state] \in [S -> ObservationState]
    BY <1>3, <1>4
  <2> QED
    BY <2>1, <2>2 DEF Loaded
<1>6. req'[r] = [op |-> "discover", found |-> found, index |-> index, seen |-> Len(findings)]
  BY <1>1, <1>5 DEF TypeOK
<1>7. req'[r] \in Discovering
  BY <1>3, <1>6 DEF Discovering
<1>8. PICK q : q = req'[r]
  OBVIOUS
<1>9. q.op = "discover" /\ q.index = index /\ q.seen = Len(findings)
  BY <1>6, <1>8
<1>10. DiscoveryGood(q)
  <2>1. DOMAIN q.index = S /\ q.seen = Len(findings) /\ 1..q.seen = Rows
    BY <1>3, <1>5, <1>9
  <2>2. q.seen <= Len(findings) /\ DOMAIN q.index \subseteq 1..q.seen
    BY <1>3, <1>4, <2>1
  <2>3. \A i \in 1..q.seen : \E m \in DOMAIN q.index :
          findings[m].key = findings[i].key /\ findings[m].by = findings[i].by
    BY <1>4, <2>1
  <2> QED
    BY <2>2, <2>3 DEF DiscoveryGood
<1>11. DiscoveryGood(req[r])'
  BY <1>2, <1>8, <1>10 DEF DiscoveryGood
<1> QED
  BY <1>7, <1>8, <1>9, <1>11 DEF SessionGood

-----------------------------------------------------------------------------
(* What the commits write. *)

\* A scan changes the states of rows and adds rows for items it has no row for.
LEMMA ScanFindings ==
  ASSUME TypeOK, Referential, NEW r \in Requests, SessionGood(req[r]), CommitScan(r)
  PROVE  /\ NewCount(req[r]) \in Nat
         /\ findings' \in Seq(SearchResult) /\ Len(findings') <= MaxFindings
         /\ Len(findings') = Len(findings) + NewCount(req[r])
         /\ Len(findings') \in Nat /\ Len(findings) <= Len(findings')
         /\ \A i \in Rows : findings'[i] = [findings[i] EXCEPT !.state = Stored(req[r], i)]
         /\ \A i \in (Len(findings) + 1)..Len(findings') :
              /\ findings'[i].key \notin Indexed(req[r]) /\ findings'[i].state = "NEW"
              /\ findings'[i].seen = req[r].seen /\ findings'[i].run = Len(runs) + 1
<1> DEFINE q == req[r]
<1> DEFINE c == NewCount(q)
<1>1. /\ q \in Scanning /\ ScanGood(q)
      /\ Len(findings) + c <= MaxFindings
      /\ \E order \in InOrder(NewItems(q)) :
           findings' = [i \in Rows |-> [findings[i] EXCEPT !.state = Stored(q, i)]]
                         \o CreatedFindings(q, order)
  BY Sessions DEF CommitScan, SessionGood
<1>2. /\ Len(q.items) \in Nat /\ DOMAIN q.items = 1..Len(q.items)
      /\ \A p \in DOMAIN q.items : q.items[p] \in Keys
  BY <1>1, Items
<1>3. /\ Len(findings) \in Nat /\ Rows = 1..Len(findings)
      /\ \A i \in Rows : findings[i] \in SearchResult
      /\ Len(runs) \in Nat /\ q.seen \in Nat
  BY <1>1, Shapes DEF Scanning
<1>4. NewItems(q) \in SUBSET (1..Len(q.items)) /\ c = Cardinality(NewItems(q))
  BY <1>2 DEF NewItems, NewCount
<1>5. PICK order \in InOrder(NewItems(q)) :
        findings' = [i \in Rows |-> [findings[i] EXCEPT !.state = Stored(q, i)]]
                      \o CreatedFindings(q, order)
  BY <1>1
<1>6. c \in Nat /\ order \in [1..c -> NewItems(q)]
  BY <1>2, <1>4, <1>5, Enumerated
<1>7. \A i \in Rows : Stored(q, i) \in ObservationState
  <2>1. \A i \in Rows : findings[i].state \in ObservationState
    BY <1>3 DEF SearchResult
  <2>2. \A i : Classified(q, i) \in ObservationState
    BY DEF Classified, ObservationState
  <2> QED
    BY <2>1, <2>2 DEF Stored
<1> DEFINE old == [i \in Rows |-> [findings[i] EXCEPT !.state = Stored(q, i)]]
<1> DEFINE new == CreatedFindings(q, order)
<1>8. old \in Seq(SearchResult) /\ Len(old) = Len(findings)
  <2>1. \A i \in Rows : [findings[i] EXCEPT !.state = Stored(q, i)] \in SearchResult
    BY <1>3, <1>7 DEF SearchResult
  <2>2. old \in [1..Len(findings) -> SearchResult]
    BY <1>3, <2>1
  <2> QED
    BY <1>3, <2>2, SeqDef, LenProperties
<1>9. /\ new \in [1..c -> SearchResult]
      /\ \A n \in 1..c : /\ new[n].key = q.items[order[n]] /\ new[n].state = "NEW"
                          /\ new[n].seen = q.seen /\ new[n].run = Len(runs) + 1
  <2>1. \A n \in 1..c : order[n] \in DOMAIN q.items /\ q.items[order[n]] \in Keys
    BY <1>2, <1>4, <1>6
  <2>2. ASSUME NEW k \in Keys
        PROVE  [key |-> k, by |-> "MonitoringEngine", state |-> "NEW",
                seen |-> q.seen, run |-> Len(runs) + 1] \in SearchResult
    BY <1>3 DEF SearchResult, ObservationState
  <2>3. new = [n \in 1..c |->
                 [key |-> q.items[order[n]], by |-> "MonitoringEngine", state |-> "NEW",
                  seen |-> q.seen, run |-> Len(runs) + 1]]
    BY <1>6 DEF CreatedFindings
  <2> QED
    BY <2>1, <2>2, <2>3
<1> HIDE DEF c, old, new
<1>10. findings' = old \o new
  BY <1>5 DEF old, new
<1>11. /\ findings' \in Seq(SearchResult) /\ Len(findings') = Len(findings) + c
       /\ \A i \in 1..Len(findings) : findings'[i] = old[i]
       /\ \A n \in 1..c : findings'[Len(findings) + n] = new[n]
  <2>1. c \in Nat /\ old \in Seq(SearchResult) /\ new \in [1..c -> SearchResult]
    BY <1>6, <1>8, <1>9
  <2>2. /\ old \o new \in Seq(SearchResult) /\ Len(old \o new) = Len(old) + c
        /\ \A i \in 1..Len(old) : (old \o new)[i] = old[i]
        /\ \A n \in 1..c : (old \o new)[Len(old) + n] = new[n]
    BY <2>1, Longer, Zenon
  <2> QED
    BY <1>8, <1>10, <2>2
<1>12. \A i \in Rows : findings'[i] = [findings[i] EXCEPT !.state = Stored(q, i)]
  BY <1>3, <1>11 DEF old
<1>13. ASSUME NEW i \in (Len(findings) + 1)..Len(findings')
       PROVE  /\ findings'[i].key \notin Indexed(q) /\ findings'[i].state = "NEW"
              /\ findings'[i].seen = q.seen /\ findings'[i].run = Len(runs) + 1
  <2>1. PICK n \in 1..c : i = Len(findings) + n
    <3>1. i - Len(findings) \in 1..c /\ i = Len(findings) + (i - Len(findings))
      BY <1>3, <1>6, <1>11
    <3> QED
      BY <3>1
  <2>2. findings'[i] = new[n]
    BY <1>11, <2>1
  <2>3. q.items[order[n]] \notin Indexed(q)
    BY <1>6 DEF NewItems
  <2> QED
    BY <1>9, <2>2, <2>3
<1>14. Len(findings') \in Nat /\ Len(findings) <= Len(findings')
  BY <1>3, <1>6, <1>11
<1> QED
  BY <1>1, <1>6, <1>11, <1>12, <1>13, <1>14 DEF c

\* Discovery makes rows ACTIVE and adds rows for results it has no row for.
LEMMA DiscoveryFindings ==
  ASSUME TypeOK, Referential, NEW r \in Requests, SessionGood(req[r]), CommitDiscovery(r)
  PROVE  /\ findings' \in Seq(SearchResult) /\ Len(findings') <= MaxFindings
         /\ Len(findings) <= Len(findings')
         /\ \A i \in Rows : \/ findings'[i] = [findings[i] EXCEPT !.state = "ACTIVE"]
                            \/ findings'[i] = findings[i]
         /\ \A i \in (Len(findings) + 1)..Len(findings') :
              /\ findings'[i].state = "ACTIVE" /\ findings'[i].run = 0
              /\ findings'[i].seen = req[r].seen
              /\ \A m \in DOMAIN req[r].index :
                   ~(findings[m].key = findings'[i].key /\ findings[m].by = findings'[i].by)
              /\ \A j \in (Len(findings) + 1)..Len(findings') :
                   findings'[i].key = findings'[j].key => i = j
<1> DEFINE q == req[r]
<1> DEFINE hit == UNION {Matched(q, q.found[p]) : p \in DOMAIN q.found}
<1> DEFINE fresh == {p \in DOMAIN q.found : Matched(q, q.found[p]) = {}}
<1> DEFINE c == Cardinality(fresh)
<1>1. /\ q \in Discovering
      /\ Len(findings) + c <= MaxFindings
      /\ \E write \in SUBSET hit, order \in InOrder(fresh) :
           findings' =
              [i \in Rows |-> IF i \in write
                              THEN [findings[i] EXCEPT !.state = "ACTIVE"]
                              ELSE findings[i]]
              \o [n \in DOMAIN order |->
                    [key |-> q.found[order[n]].key, by |-> q.found[order[n]].by,
                     state |-> "ACTIVE", seen |-> q.seen, run |-> 0]]
  BY Sessions DEF CommitDiscovery
<1>2. /\ Len(q.found) \in Nat /\ DOMAIN q.found = 1..Len(q.found)
      /\ \A p \in DOMAIN q.found : q.found[p].key \in Keys /\ q.found[p].by \in Engines
      /\ \A p, o \in DOMAIN q.found : q.found[p].key = q.found[o].key => p = o
  BY <1>1, Found
<1>3. /\ Len(findings) \in Nat /\ Rows = 1..Len(findings)
      /\ \A i \in Rows : findings[i] \in SearchResult
      /\ q.seen \in Nat
  BY <1>1, Shapes DEF Discovering
<1>4. fresh \in SUBSET (1..Len(q.found))
  BY <1>2
<1> HIDE DEF fresh
<1>5. PICK write \in SUBSET hit, order \in InOrder(fresh) :
        findings' =
              [i \in Rows |-> IF i \in write
                              THEN [findings[i] EXCEPT !.state = "ACTIVE"]
                              ELSE findings[i]]
              \o [n \in DOMAIN order |->
                    [key |-> q.found[order[n]].key, by |-> q.found[order[n]].by,
                     state |-> "ACTIVE", seen |-> q.seen, run |-> 0]]
  BY <1>1
<1>6. /\ c \in Nat /\ order \in [1..c -> fresh]
      /\ \A a, b \in 1..c : order[a] = order[b] => a = b
  BY <1>2, <1>4, <1>5, Enumerated
<1> DEFINE old == [i \in Rows |-> IF i \in write
                                  THEN [findings[i] EXCEPT !.state = "ACTIVE"]
                                  ELSE findings[i]]
<1> DEFINE new == [n \in DOMAIN order |->
                    [key |-> q.found[order[n]].key, by |-> q.found[order[n]].by,
                     state |-> "ACTIVE", seen |-> q.seen, run |-> 0]]
<1>8. old \in Seq(SearchResult) /\ Len(old) = Len(findings)
  <2>1. \A i \in Rows : [findings[i] EXCEPT !.state = "ACTIVE"] \in SearchResult
    BY <1>3 DEF SearchResult, ObservationState
  <2>2. old \in [1..Len(findings) -> SearchResult]
    BY <1>3, <2>1
  <2> QED
    BY <1>3, <2>2, SeqDef, LenProperties
<1>9. /\ new \in [1..c -> SearchResult]
      /\ \A n \in 1..c : /\ new[n].key = q.found[order[n]].key
                          /\ new[n].by = q.found[order[n]].by
                          /\ new[n].state = "ACTIVE"
                          /\ new[n].seen = q.seen /\ new[n].run = 0
  <2>1. \A n \in 1..c : /\ order[n] \in DOMAIN q.found
                         /\ q.found[order[n]].key \in Keys /\ q.found[order[n]].by \in Engines
    BY <1>2, <1>4, <1>6
  <2>2. ASSUME NEW k \in Keys, NEW e \in Engines
        PROVE  [key |-> k, by |-> e, state |-> "ACTIVE",
                seen |-> q.seen, run |-> 0] \in SearchResult
    BY <1>3 DEF SearchResult, ObservationState
  <2>3. DOMAIN order = 1..c
    BY <1>6
  <2> QED
    BY <2>1, <2>2, <2>3
<1> HIDE DEF c, old, new
<1>10. findings' = old \o new
  BY <1>5 DEF old, new
<1>11. /\ findings' \in Seq(SearchResult) /\ Len(findings') = Len(findings) + c
       /\ \A i \in 1..Len(findings) : findings'[i] = old[i]
       /\ \A n \in 1..c : findings'[Len(findings) + n] = new[n]
  <2>1. c \in Nat /\ old \in Seq(SearchResult) /\ new \in [1..c -> SearchResult]
    BY <1>6, <1>8, <1>9
  <2>2. /\ old \o new \in Seq(SearchResult) /\ Len(old \o new) = Len(old) + c
        /\ \A i \in 1..Len(old) : (old \o new)[i] = old[i]
        /\ \A n \in 1..c : (old \o new)[Len(old) + n] = new[n]
    BY <2>1, Longer, Zenon
  <2> QED
    BY <1>8, <1>10, <2>2
<1>12. \A i \in Rows : \/ findings'[i] = [findings[i] EXCEPT !.state = "ACTIVE"]
                      \/ findings'[i] = findings[i]
  BY <1>3, <1>11 DEF old
<1>13. \A i \in (Len(findings) + 1)..Len(findings') :
         \E n \in 1..c : i = Len(findings) + n /\ findings'[i] = new[n]
  <2>1. ASSUME NEW i \in (Len(findings) + 1)..Len(findings')
        PROVE  i - Len(findings) \in 1..c /\ i = Len(findings) + (i - Len(findings))
    BY <1>3, <1>6, <1>11
  <2> QED
    BY <1>11, <2>1
<1>14. ASSUME NEW i \in (Len(findings) + 1)..Len(findings')
       PROVE  /\ findings'[i].state = "ACTIVE" /\ findings'[i].run = 0
              /\ findings'[i].seen = q.seen
              /\ \A m \in DOMAIN q.index :
                   ~(findings[m].key = findings'[i].key /\ findings[m].by = findings'[i].by)
              /\ \A j \in (Len(findings) + 1)..Len(findings') :
                   findings'[i].key = findings'[j].key => i = j
  <2>1. PICK n \in 1..c : i = Len(findings) + n /\ findings'[i] = new[n]
    BY <1>13
  <2>2. order[n] \in fresh
    BY <1>6
  <2>3. order[n] \in DOMAIN q.found /\ Matched(q, q.found[order[n]]) = {}
    BY <2>2 DEF fresh
  <2>4. \A m \in DOMAIN q.index :
          ~(findings[m].key = findings'[i].key /\ findings[m].by = findings'[i].by)
    BY <1>9, <2>1, <2>3 DEF Matched
  <2>5. ASSUME NEW j \in (Len(findings) + 1)..Len(findings'),
               findings'[i].key = findings'[j].key
        PROVE  i = j
    <3>1. PICK o \in 1..c : j = Len(findings) + o /\ findings'[j] = new[o]
      BY <1>13
    <3>2. order[o] \in DOMAIN q.found
      BY <1>6 DEF fresh
    <3>3. q.found[order[n]].key = q.found[order[o]].key
      BY <1>9, <2>1, <2>5, <3>1
    <3>4. order[n] = order[o]
      BY <1>2, <2>3, <3>2, <3>3
    <3> QED
      BY <1>6, <2>1, <3>1, <3>4
  <2> QED
    BY <1>9, <2>1, <2>4, <2>5
<1>15. Len(findings') <= MaxFindings /\ Len(findings) <= Len(findings')
  <2>1. Len(findings) + c <= MaxFindings
    BY <1>1 DEF c
  <2> QED
    BY <1>3, <1>6, <1>11, <2>1
<1> QED
  BY <1>11, <1>12, <1>14, <1>15

\* Where a key occurs, there is a first position of it.
LEMMA Earliest ==
  \A s : \A n \in Nat : \A p \in 1..n :
    \E m \in 1..n : s[m] = s[p] /\ \A k \in 1..(m - 1) : s[k] # s[p]
<1> SUFFICES ASSUME NEW s, NEW n \in Nat, NEW p \in 1..n
             PROVE  \E m \in 1..n : s[m] = s[p] /\ \A k \in 1..(m - 1) : s[k] # s[p]
  OBVIOUS
<1> DEFINE T == {m \in 1..n : s[m] = s[p]}
<1>1. T \subseteq Nat /\ T # {}
  OBVIOUS
<1>2. PICK m \in T : \A e \in T : ~(<<e, m>> \in OpToRel(<, Nat))
  BY <1>1, NatLessThanWellFounded, WFMin
<1>3. \A e \in T : ~(e < m)
  BY <1>1, <1>2 DEF OpToRel
<1>4. ASSUME NEW k \in 1..(m - 1) PROVE s[k] # s[p]
  <2>1. m \in 1..n
    OBVIOUS
  <2>2. k \in 1..n /\ k < m
    BY <2>1
  <2> QED
    BY <1>3, <2>2
<1> QED
  BY <1>4

\* Every item of a scan is new, unchanged or the first of a row that reappears.
LEMMA RunAddsUp ==
  ASSUME TypeOK, NEW q \in Scanning, ScanGood(q)
  PROVE  /\ RunOf(q) \in MonitoringRun
         /\ RunOf(q).candidates = RunOf(q).new + RunOf(q).unchanged + RunOf(q).reappeared
<1> DEFINE P == 1..Len(q.items)
           N == NewItems(q)
           U == {p \in DOMAIN q.items :
                  \E i \in DOMAIN q.index :
                    /\ findings[i].key = q.items[p]
                    /\ i \in Missing(q) => \E m \in 1..(p - 1) : q.items[m] = q.items[p]}
           R == {p \in P : \E i \in Missing(q) :
                  /\ findings[i].key = q.items[p]
                  /\ \A m \in 1..(p - 1) : q.items[m] # q.items[p]}
           B == {i \in Missing(q) : findings[i].key \in Observed(q)}
           f == [i \in DOMAIN q.index |-> findings[i].key]
           g == [p \in R |-> CHOOSE i \in Missing(q) : findings[i].key = q.items[p]]
<1>1. Len(q.items) \in Nat /\ DOMAIN q.items = P /\ \A p \in P : q.items[p] \in Keys
  BY Items
<1>2. /\ q.index \in Loaded /\ q.seen \in Nat /\ q.past \in Nat /\ q.rule \in Nat
      /\ Len(rules) \in Nat /\ Len(runs) \in Nat
  BY Shapes DEF Scanning
<1>3. /\ IsFiniteSet(DOMAIN q.index) /\ Missing(q) \subseteq DOMAIN q.index
      /\ DOMAIN q.index \subseteq Nat
  BY <1>2, IndexStates, BoundsAssumption DEF Missing
<1>4. \A i, m \in DOMAIN q.index : findings[m].key = findings[i].key => m = i
  BY DEF ScanGood
<1>5. IsFiniteSet(P) /\ Cardinality(P) = Len(q.items)
  BY <1>1, FS_Interval
<1>6. P = N \cup (U \cup R) /\ N \cap (U \cup R) = {} /\ U \cap R = {}
  <2>1. N \subseteq P /\ U \subseteq P /\ R \subseteq P
    BY <1>1 DEF NewItems
  <2>2. ASSUME NEW p \in P, p \notin N, p \notin U PROVE p \in R
    <3>1. PICK i \in DOMAIN q.index : findings[i].key = q.items[p]
      BY <1>1, <2>2 DEF NewItems, Indexed
    <3>2. i \in Missing(q) /\ ~ \E m \in 1..(p - 1) : q.items[m] = q.items[p]
      BY <1>1, <2>2, <3>1
    <3> QED
      BY <3>1, <3>2
  <2>3. \A p \in U \cup R : q.items[p] \in Indexed(q)
    BY <1>3 DEF Indexed
  <2>4. ASSUME NEW p \in U, p \in R PROVE FALSE
    <3>1. PICK i \in DOMAIN q.index :
            /\ findings[i].key = q.items[p]
            /\ i \in Missing(q) => \E m \in 1..(p - 1) : q.items[m] = q.items[p]
      OBVIOUS
    <3>2. PICK j \in Missing(q) :
            /\ findings[j].key = q.items[p]
            /\ \A m \in 1..(p - 1) : q.items[m] # q.items[p]
      BY <2>4
    <3>3. i = j
      BY <1>3, <1>4, <3>1, <3>2
    <3> QED
      BY <3>1, <3>2, <3>3
  <2> QED
    BY <2>1, <2>2, <2>3, <2>4 DEF NewItems
<1>7. ExistsBijection(R, B)
  <2>1. ASSUME NEW p \in R
        PROVE  g[p] \in B /\ findings[g[p]].key = q.items[p]
    <3>1. \E i \in Missing(q) : findings[i].key = q.items[p]
      OBVIOUS
    <3>2. g[p] \in Missing(q) /\ findings[g[p]].key = q.items[p]
      BY <3>1
    <3> QED
      BY <1>1, <3>2 DEF Observed
  <2>2. ASSUME NEW p \in R, NEW o \in R, g[p] = g[o] PROVE p = o
    <3>1. q.items[p] = q.items[o]
      BY <2>1, <2>2
    <3>2. /\ \A m \in 1..(p - 1) : q.items[m] # q.items[p]
          /\ \A m \in 1..(o - 1) : q.items[m] # q.items[o]
      OBVIOUS
    <3>3. p \in Nat /\ o \in Nat /\ 1 <= p /\ 1 <= o
      BY <1>1
    <3> QED
      BY <3>1, <3>2, <3>3
  <2>3. ASSUME NEW i \in B PROVE \E p \in R : g[p] = i
    <3>1. PICK o \in P : findings[i].key = q.items[o]
      BY <1>1 DEF Observed
    <3>2. Len(q.items) \in Nat /\ o \in 1..Len(q.items)
      BY <1>1
    <3>3. PICK p \in 1..Len(q.items) :
            q.items[p] = q.items[o] /\ \A k \in 1..(p - 1) : q.items[k] # q.items[o]
      <4>1. \A n \in Nat : \A x \in 1..n : \E m \in 1..n :
              q.items[m] = q.items[x] /\ \A k \in 1..(m - 1) : q.items[k] # q.items[x]
        BY Earliest, Zenon
      <4> QED
        BY <3>2, <4>1
    <3>4. i \in Missing(q) /\ p \in R
      BY <3>1, <3>3
    <3>5. g[p] \in B /\ findings[g[p]].key = findings[i].key
      BY <2>1, <3>1, <3>3, <3>4
    <3> QED
      BY <1>3, <1>4, <3>4, <3>5
  <2> HIDE DEF R, B, g
  <2>4. g \in [R -> B]
    BY <2>1 DEF g
  <2>5. g \in Bijection(R, B)
    BY <2>2, <2>3, <2>4 DEF Bijection, Injection, IsInjective, Surjection
  <2> QED
    BY <2>5 DEF ExistsBijection
<1>8. /\ IsFiniteSet(N) /\ IsFiniteSet(U) /\ IsFiniteSet(R)
      /\ Cardinality(N) \in Nat /\ Cardinality(U) \in Nat /\ Cardinality(R) \in Nat
  <2> HIDE DEF P, N, U, R
  <2>1. N \in SUBSET P /\ U \in SUBSET P /\ R \in SUBSET P
    BY <1>6
  <2> QED
    BY <1>5, <2>1, FS_Subset, FS_CardinalityType
<1>9. Cardinality(B) = Cardinality(R)
  <2> HIDE DEF R, B
  <2> QED
    BY <1>7, <1>8, FS_Bijection
<1>10. Len(q.items) = Cardinality(N) + Cardinality(U) + Cardinality(B)
  <2> HIDE DEF P, N, U, R, B
  <2>1. /\ IsFiniteSet(U \cup R)
        /\ Cardinality(U \cup R) = Cardinality(U) + Cardinality(R) - Cardinality(U \cap R)
    BY <1>8, FS_Union
  <2>2. Cardinality(P) = Cardinality(N) + Cardinality(U \cup R) - Cardinality(N \cap (U \cup R))
    <3>1. Cardinality(N \cup (U \cup R))
            = Cardinality(N) + Cardinality(U \cup R) - Cardinality(N \cap (U \cup R))
      BY <1>8, <2>1, FS_Union
    <3> QED
      BY <1>6, <3>1
  <2>3. Cardinality(N \cap (U \cup R)) = 0 /\ Cardinality(U \cap R) = 0
    BY <1>6, FS_EmptySet, Zenon
  <2> QED
    BY <1>5, <1>8, <1>9, <2>1, <2>2, <2>3
<1>11. Cardinality(Indexed(q) \ Observed(q)) \in Nat
  <2>1. f \in Surjection(DOMAIN q.index, Indexed(q))
    BY DEF Surjection, Indexed
  <2>2. IsFiniteSet(Indexed(q))
    <3> HIDE DEF f
    <3> QED
      BY <1>3, <2>1, FS_Surjection
  <2> QED
    BY <2>2, FS_Difference, FS_CardinalityType
<1>12. /\ Observed(q) \in SUBSET Keys /\ DOMAIN q.index \in SUBSET Nat
       /\ ScannedRule(q) \in Nat
  BY <1>1, <1>2, <1>3 DEF Observed, ScannedRule
<1>13. /\ RunOf(q).candidates = Len(q.items) /\ RunOf(q).new = Cardinality(N)
       /\ RunOf(q).unchanged = Cardinality(U) /\ RunOf(q).reappeared = Cardinality(B)
  BY DEF RunOf, NewCount
<1>14. RunOf(q) \in MonitoringRun
  <2>1. RunOf(q) =
          [candidates |-> Len(q.items), new |-> Cardinality(N), unchanged |-> Cardinality(U),
           notObserved |-> Cardinality(Indexed(q) \ Observed(q)),
           reappeared |-> Cardinality(B), observed |-> Observed(q),
           covered |-> DOMAIN q.index, rule |-> ScannedRule(q), seen |-> q.past]
    BY DEF RunOf, NewCount
  <2>2. Cardinality(B) \in Nat
    BY <1>8, <1>9
  <2> HIDE DEF N, U, R, B
  <2> QED
    BY <1>1, <1>2, <1>8, <1>11, <1>12, <2>1, <2>2 DEF MonitoringRun
<1> QED
  BY <1>10, <1>13, <1>14

\* A scan writes its rule alone, and the count of the rule unless another scan of
\* it was committed meanwhile.
LEMMA ScanRules ==
  ASSUME TypeOK, Referential, NEW r \in Requests, SessionGood(req[r]), CommitScan(r)
  PROVE  /\ rules' \in Seq(MonitoringRule) /\ Len(rules) <= Len(rules')
         /\ ScannedRule(req[r]) \in DOMAIN rules'
         /\ \A i \in DOMAIN rules' : rules'[i].seen = 0
         /\ \A i \in DOMAIN rules' :
              i = ScannedRule(req[r]) \/ (i \in DOMAIN rules /\ rules'[i] = rules[i])
         /\ \/ rules'[ScannedRule(req[r])].delta = NewCount(req[r])
            \/ \E m \in RunsOf(ScannedRule(req[r])) : req[r].past < m
<1> DEFINE q == req[r]
<1> DEFINE c == NewCount(q)
<1>1. /\ q \in Scanning /\ ScanGood(q) /\ c \in Nat
      /\ IF q.rule = 0
           THEN /\ Len(rules) < MaxRules
                /\ rules' = Append(rules, Scanned(q, NewRule(TRUE, q.was.seen)))
           ELSE rules' = [rules EXCEPT ![q.rule] = Scanned(q, @)]
  BY Sessions, ScanFindings DEF CommitScan, SessionGood
<1>2. /\ rules \in Seq(MonitoringRule) /\ Len(rules) \in Nat /\ DOMAIN rules = 1..Len(rules)
      /\ \A i \in DOMAIN rules : rules[i] \in MonitoringRule /\ rules[i].seen = 0
      /\ q.rule \in 0..Len(rules)
  BY <1>1, Shapes DEF TypeOK, Referential, ScanGood
<1>3. ASSUME NEW rule \in MonitoringRule
      PROVE  /\ Scanned(q, rule) \in MonitoringRule /\ Scanned(q, rule).seen = rule.seen
             /\ rule.delta = q.was.delta => Scanned(q, rule).delta = c
  <2>1. Written(rule.delta, q.was.delta, c) \in Nat
    BY <1>1 DEF Written, MonitoringRule
  <2>2. Scanned(q, rule) = [rule EXCEPT !.delta = Written(rule.delta, q.was.delta, c),
                                        !.scheduled = TRUE]
    BY DEF Scanned, MonitoringRule
  <2>3. rule.delta = q.was.delta => Written(rule.delta, q.was.delta, c) = c
    BY DEF Written
  <2> HIDE DEF q, c
  <2> QED
    BY <2>1, <2>2, <2>3 DEF MonitoringRule
<1>4. CASE q.rule = 0
  <2>1. /\ NewRule(TRUE, q.was.seen) \in MonitoringRule
        /\ NewRule(TRUE, q.was.seen).seen = 0
        /\ NewRule(TRUE, q.was.seen).delta = q.was.delta
    BY <1>1, <1>4 DEF ScanGood, NewRule, MonitoringRule
  <2>2. PICK new \in MonitoringRule :
          /\ new = Scanned(q, NewRule(TRUE, q.was.seen)) /\ new.seen = 0 /\ new.delta = c
    BY <1>3, <2>1
  <2>3. rules' = Append(rules, new)
    BY <1>1, <1>4, <2>2
  <2>4. /\ rules' \in Seq(MonitoringRule) /\ Len(rules') = Len(rules) + 1
        /\ \A i \in 1..Len(rules) : rules'[i] = rules[i]
        /\ rules'[Len(rules) + 1] = new
    BY <1>2, <2>3, AppendProperties
  <2>5. ScannedRule(q) = Len(rules) + 1
    BY <1>4 DEF ScannedRule
  <2>6. DOMAIN rules' = 1..(Len(rules) + 1)
    BY <2>4, LenProperties
  <2>7. \A i \in DOMAIN rules' :
          i = ScannedRule(q) \/ (i \in DOMAIN rules /\ rules'[i] = rules[i])
    BY <1>2, <2>4, <2>5, <2>6
  <2> HIDE DEF q, c
  <2>8. rules'[ScannedRule(q)].delta = c /\ \A i \in DOMAIN rules' : rules'[i].seen = 0
    BY <1>2, <2>2, <2>4, <2>5, <2>7
  <2> QED
    BY <1>2, <2>4, <2>5, <2>6, <2>7, <2>8 DEF q, c
<1>5. CASE q.rule # 0
  <2>1. q.rule \in DOMAIN rules
    BY <1>2, <1>5
  <2>2. rules[q.rule] \in MonitoringRule /\ rules[q.rule].seen = 0
    BY <1>2, <2>1
  <2>3. PICK new \in MonitoringRule :
          /\ new = Scanned(q, rules[q.rule]) /\ new.seen = 0
          /\ rules[q.rule].delta = q.was.delta => new.delta = c
    BY <1>3, <2>2
  <2>4. rules' = [rules EXCEPT ![q.rule] = new]
    BY <1>1, <1>5, <2>1, <2>3
  <2>5. /\ rules' \in Seq(MonitoringRule) /\ Len(rules') = Len(rules)
        /\ DOMAIN rules' = DOMAIN rules
    BY <1>2, <2>1, <2>4, ExceptSeq
  <2>6. ScannedRule(q) = q.rule
    BY <1>5 DEF ScannedRule
  <2>7. rules[q.rule].delta = q.was.delta \/ \E m \in RunsOf(q.rule) : q.past < m
    BY <1>1, <1>5 DEF ScanGood
  <2>8. rules'[q.rule] = new /\ \A i \in DOMAIN rules : i # q.rule => rules'[i] = rules[i]
    BY <1>2, <2>1, <2>4
  <2> HIDE DEF q, c
  <2>9. \A i \in DOMAIN rules' : rules'[i].seen = 0
    BY <1>2, <2>3, <2>5, <2>8
  <2>10. rules'[ScannedRule(q)].delta = c \/ \E m \in RunsOf(ScannedRule(q)) : q.past < m
    BY <2>3, <2>6, <2>7, <2>8
  <2> QED
    BY <1>2, <2>1, <2>5, <2>6, <2>8, <2>9, <2>10 DEF q, c
<1> QED
  BY <1>4, <1>5

\* A switch leaves the counts alone, and the switched rule is scheduled when it is
\* on unless it has been scanned.
LEMMA ConfigureRules ==
  ASSUME TypeOK, Referential, RulesExplained, NEW r \in Requests, SessionGood(req[r]),
         CommitConfigure(r)
  PROVE  /\ rules' \in Seq(MonitoringRule) /\ Len(rules) <= Len(rules')
         /\ \A i \in DOMAIN rules' : rules'[i].seen = 0
         /\ \A i \in DOMAIN rules : rules'[i].delta = rules[i].delta
         /\ \A i \in DOMAIN rules' : rules'[i].enabled # rules'[i].scheduled =>
                                    i \in DOMAIN rules /\ RunsOf(i) # {}
<1> DEFINE q == req[r]
<1>1. /\ q \in Configuring /\ ConfigureGood(q)
      /\ IF q.rule = 0
           THEN /\ Len(rules) < MaxRules
                /\ rules' = Append(rules, NewRule(q.enabled, q.was.seen))
           ELSE rules' = [rules EXCEPT ![q.rule] = Configured(q, @)]
  BY Sessions DEF CommitConfigure, SessionGood
<1>2. /\ rules \in Seq(MonitoringRule) /\ Len(rules) \in Nat /\ DOMAIN rules = 1..Len(rules)
      /\ \A i \in DOMAIN rules : rules[i] \in MonitoringRule /\ rules[i].seen = 0
      /\ q.rule \in 0..Len(rules)
  BY <1>1, Shapes DEF TypeOK, Referential, ConfigureGood
<1>3. q.enabled \in BOOLEAN /\ q.was.enabled \in BOOLEAN /\ q.was.scheduled \in BOOLEAN
  BY <1>1 DEF Configuring
<1>4. \A i \in DOMAIN rules : rules[i].enabled # rules[i].scheduled => RunsOf(i) # {}
  BY DEF RulesExplained, RunsOf
<1>5. CASE q.rule = 0
  <2>1. PICK new \in MonitoringRule :
          /\ new = NewRule(q.enabled, q.was.seen) /\ new.seen = 0
          /\ new.enabled = new.scheduled
    BY <1>1, <1>3, <1>5 DEF ConfigureGood, NewRule, MonitoringRule
  <2>2. rules' = Append(rules, new)
    BY <1>1, <1>5, <2>1
  <2>3. /\ rules' \in Seq(MonitoringRule) /\ Len(rules') = Len(rules) + 1
        /\ \A i \in 1..Len(rules) : rules'[i] = rules[i]
        /\ rules'[Len(rules) + 1] = new
    BY <1>2, <2>2, AppendProperties
  <2>4. DOMAIN rules' = 1..(Len(rules) + 1)
    BY <2>3, LenProperties
  <2>5. \A i \in DOMAIN rules' :
          (i \in DOMAIN rules /\ rules'[i] = rules[i]) \/ rules'[i] = new
    BY <1>2, <2>3, <2>4
  <2> HIDE DEF q
  <2> QED
    BY <1>2, <1>4, <2>1, <2>3, <2>5
<1>6. CASE q.rule # 0
  <2>1. q.rule \in DOMAIN rules /\ rules[q.rule] \in MonitoringRule
    BY <1>2, <1>6
  <2> DEFINE rule == rules[q.rule]
             on   == Written(rule.enabled, q.was.enabled, q.enabled)
             set  == Written(rule.scheduled, q.was.scheduled, q.enabled)
  <2>2. on \in BOOLEAN /\ set \in BOOLEAN
    BY <1>3, <2>1 DEF Written, MonitoringRule
  <2>3. on # set => rule.enabled # rule.scheduled \/ q.was.enabled # q.was.scheduled
    <3>1. SUFFICES ASSUME rule.enabled = rule.scheduled, q.was.enabled = q.was.scheduled
                   PROVE  on = set
      BY Zenon
    <3> QED
      BY <3>1, Zenon DEF Written
  <2>4. PICK new \in MonitoringRule :
          /\ new = Configured(q, rule) /\ new.seen = rule.seen /\ new.delta = rule.delta
          /\ new.enabled = on /\ new.scheduled = set
    <3>1. Configured(q, rule) = [rule EXCEPT !.enabled = on, !.scheduled = set]
      BY <2>1 DEF Configured, MonitoringRule
    <3> HIDE DEF on, set, rule
    <3>2. rule \in MonitoringRule
      BY <2>1 DEF rule
    <3> QED
      BY <2>2, <3>1, <3>2 DEF MonitoringRule
  <2>5. rules' = [rules EXCEPT ![q.rule] = new]
    BY <1>1, <1>6, <2>1, <2>4
  <2>6. /\ rules' \in Seq(MonitoringRule) /\ Len(rules') = Len(rules)
        /\ DOMAIN rules' = DOMAIN rules
    BY <1>2, <2>1, <2>5, ExceptSeq
  <2>7. rules'[q.rule] = new /\ \A i \in DOMAIN rules : i # q.rule => rules'[i] = rules[i]
    BY <1>2, <2>1, <2>5
  <2>8. new.enabled # new.scheduled => RunsOf(q.rule) # {}
    BY <1>1, <1>4, <2>1, <2>3, <2>4, Zenon DEF ConfigureGood
  <2> HIDE DEF q, rule
  <2>9. \A i \in DOMAIN rules' : rules'[i].seen = 0 /\ rules'[i].delta = rules[i].delta
    BY <1>2, <2>1, <2>4, <2>6, <2>7 DEF rule
  <2>10. \A i \in DOMAIN rules' : rules'[i].enabled # rules'[i].scheduled =>
                                    i \in DOMAIN rules /\ RunsOf(i) # {}
    BY <1>4, <2>6, <2>7, <2>8, Zenon
  <2> QED
    BY <1>2, <2>6, <2>9, <2>10
<1> QED
  BY <1>5, <1>6

LEMMA RunFields ==
  ASSUME NEW q
  PROVE  /\ RunOf(q).new = NewCount(q) /\ RunOf(q).observed = Observed(q)
         /\ RunOf(q).covered = DOMAIN q.index /\ RunOf(q).rule = ScannedRule(q)
         /\ RunOf(q).seen = q.past
BY DEF RunOf

LEMMA Classes ==
  ASSUME NEW q, NEW i
  PROVE  /\ Classified(q, i) # "NEW"
         /\ Classified(q, i) = "NOT_OBSERVED" => findings[i].key \notin Observed(q)
         /\ Classified(q, i) \in {"UNCHANGED", "REAPPEARED"} => findings[i].key \in Observed(q)
         /\ Classified(q, i) = "REAPPEARED" => i \in Missing(q)
<1>1. CASE findings[i].key \notin Observed(q)
  <2>1. {p \in DOMAIN q.items : q.items[p] = findings[i].key} = {}
    BY <1>1 DEF Observed
  <2>2. Times(q, findings[i].key) # 1
    BY <2>1, FS_EmptySet DEF Times
  <2>3. Classified(q, i) = "NOT_OBSERVED"
    BY <1>1, <2>2 DEF Classified
  <2> QED
    BY <1>1, <2>3
<1>2. CASE findings[i].key \in Observed(q)
  <2>1. \/ i \in Missing(q) /\ Classified(q, i) = "REAPPEARED"
        \/ Classified(q, i) = "UNCHANGED"
    BY <1>2 DEF Classified
  <2> QED
    BY <1>2, <2>1
<1> QED
  BY <1>1, <1>2

\* A scan adds its run.
LEMMA ScanRuns ==
  ASSUME TypeOK, NEW r \in Requests, SessionGood(req[r]), CommitScan(r)
  PROVE  /\ req[r] \in Scanning /\ ScanGood(req[r])
         /\ runs' \in Seq(MonitoringRun) /\ Len(runs') = Len(runs) + 1
         /\ DOMAIN runs' = 1..(Len(runs) + 1)
         /\ \A n \in DOMAIN runs : runs'[n] = runs[n]
         /\ runs'[Len(runs) + 1] = RunOf(req[r])
<1>1. req[r] \in Scanning /\ ScanGood(req[r]) /\ runs' = Append(runs, RunOf(req[r]))
  BY Sessions DEF CommitScan, SessionGood
<1>2. RunOf(req[r]) \in MonitoringRun
  BY <1>1, RunAddsUp
<1>3. runs \in Seq(MonitoringRun) /\ DOMAIN runs = 1..Len(runs)
  BY Shapes DEF TypeOK
<1>4. /\ runs' \in Seq(MonitoringRun) /\ Len(runs') = Len(runs) + 1
      /\ \A n \in 1..Len(runs) : runs'[n] = runs[n]
      /\ runs'[Len(runs) + 1] = RunOf(req[r])
  BY <1>1, <1>2, <1>3, AppendProperties
<1>5. DOMAIN runs' = 1..(Len(runs) + 1)
  BY <1>4, LenProperties
<1> QED
  BY <1>1, <1>3, <1>4, <1>5

LEMMA ScanTypes ==
  ASSUME TypeOK, Referential, NEW r \in Requests, SessionGood(req[r]), CommitScan(r)
  PROVE  TypeOK' /\ Referential' /\ Grows
<1> DEFINE q == req[r]
<1>1. /\ Len(findings) \in Nat /\ Rows = 1..Len(findings)
      /\ \A i \in Rows : findings[i] \in SearchResult
      /\ Len(runs) \in Nat /\ DOMAIN runs = 1..Len(runs)
      /\ Len(rules) \in Nat /\ DOMAIN rules = 1..Len(rules)
  BY Shapes
<1>2. /\ findings' \in Seq(SearchResult) /\ Len(findings') <= MaxFindings
      /\ NewCount(q) \in Nat /\ Len(findings') = Len(findings) + NewCount(q)
      /\ \A i \in Rows : findings'[i] = [findings[i] EXCEPT !.state = Stored(q, i)]
      /\ \A i \in (Len(findings) + 1)..Len(findings') : findings'[i].run = Len(runs) + 1
  BY ScanFindings
<1>3. /\ q \in Scanning /\ ScanGood(q)
      /\ runs' \in Seq(MonitoringRun) /\ Len(runs') = Len(runs) + 1
      /\ DOMAIN runs' = 1..(Len(runs) + 1)
      /\ \A n \in DOMAIN runs : runs'[n] = runs[n]
      /\ runs'[Len(runs) + 1] = RunOf(q)
  BY ScanRuns
<1>4. /\ rules' \in Seq(MonitoringRule) /\ Len(rules) <= Len(rules')
      /\ ScannedRule(q) \in DOMAIN rules'
      /\ \A i \in DOMAIN rules' : rules'[i].seen = 0
      /\ \A i \in DOMAIN rules' :
           i = ScannedRule(q) \/ (i \in DOMAIN rules /\ rules'[i] = rules[i])
  BY ScanRules
<1>5. req' \in [Requests -> {Idle} \cup Scanning \cup Configuring \cup Discovering]
  BY DEF CommitScan, TypeOK
<1>6. TypeOK'
  BY <1>2, <1>3, <1>4, <1>5 DEF TypeOK
<1>7. /\ Rows' = 1..Len(findings') /\ Len(findings') \in Nat
      /\ DOMAIN rules' = 1..Len(rules') /\ Len(rules') \in Nat
  BY <1>6, Shapes, <1>2, <1>4 DEF Rows
<1>8. \A i \in Rows : /\ findings'[i].key = findings[i].key /\ findings'[i].by = findings[i].by
                     /\ findings'[i].seen = findings[i].seen
                     /\ findings'[i].run = findings[i].run
  BY <1>1, <1>2 DEF SearchResult
<1>9. runs'[Len(runs) + 1].covered = DOMAIN q.index /\ runs'[Len(runs) + 1].rule = ScannedRule(q)
  BY <1>3, RunFields
<1>10. Referential'
  <2>1. ASSUME NEW n \in DOMAIN runs'
        PROVE  runs'[n].covered \subseteq Rows' /\ runs'[n].rule \in DOMAIN rules'
    <3>1. CASE n \in DOMAIN runs
      <4>1. runs'[n] = runs[n] /\ runs[n].covered \subseteq Rows /\ runs[n].rule \in DOMAIN rules
        BY <1>3, <3>1 DEF Referential
      <4>2. Rows \subseteq Rows' /\ DOMAIN rules \subseteq DOMAIN rules'
        BY <1>1, <1>2, <1>4, <1>7
      <4> QED
        BY <4>1, <4>2
    <3>2. CASE n = Len(runs) + 1
      <4>1. DOMAIN q.index \subseteq Rows'
        <5>1. DOMAIN q.index \subseteq 1..q.seen /\ q.seen <= Len(findings) /\ q.seen \in Nat
          BY <1>3 DEF ScanGood, Scanning
        <5>2. Len(findings) <= Len(findings')
          BY <1>1, <1>2
        <5> QED
          BY <1>1, <1>7, <5>1, <5>2
      <4> QED
        BY <1>4, <1>9, <3>2, <4>1
    <3> QED
      BY <1>1, <1>3, <3>1, <3>2
  <2>2. ASSUME NEW i \in Rows' PROVE findings'[i].run <= Len(runs')
    <3>1. CASE i \in Rows
      <4>1. findings[i].run <= Len(runs) /\ findings[i].run \in Nat
        BY <1>1, <3>1 DEF Referential, SearchResult
      <4> QED
        BY <1>1, <1>3, <1>8, <3>1, <4>1
    <3>2. CASE i \in (Len(findings) + 1)..Len(findings')
      BY <1>1, <1>2, <1>3, <3>2
    <3> QED
      BY <1>1, <1>7, <3>1, <3>2
  <2> QED
    BY <1>4, <2>1, <2>2 DEF Referential, Rows
<1>11. Grows
  <2>1. Len(findings) <= Len(findings') /\ Len(runs) <= Len(runs')
    BY <1>1, <1>2, <1>3
  <2>2. ASSUME NEW i \in DOMAIN rules
        PROVE  \/ rules'[i].delta = rules[i].delta
               \/ \E n \in DOMAIN runs' : Len(runs) < n /\ runs'[n].rule = i
    <3>1. i \in DOMAIN rules'
      BY <1>1, <1>4, <1>7
    <3>2. CASE rules'[i] = rules[i]
      BY <3>2
    <3>3. CASE i = ScannedRule(q)
      <4>1. Len(runs) + 1 \in DOMAIN runs' /\ Len(runs) < Len(runs) + 1
        BY <1>1, <1>3
      <4> QED
        BY <1>9, <3>3, <4>1
    <3> QED
      BY <1>4, <3>1, <3>2, <3>3
  <2> QED
    BY <1>3, <1>4, <1>8, <2>1, <2>2 DEF Grows
<1> QED
  BY <1>6, <1>10, <1>11

\* The sets of runs are bounded, so that the last of them exists.
LEMMA LastRun ==
  ASSUME TypeOK
  PROVE  /\ \A i : CoveredBy(i) # {} =>
              Max(CoveredBy(i)) \in CoveredBy(i) /\ \A m \in CoveredBy(i) : m <= Max(CoveredBy(i))
         /\ \A i : RunsOf(i) # {} =>
              Max(RunsOf(i)) \in RunsOf(i) /\ \A m \in RunsOf(i) : m <= Max(RunsOf(i))
<1>1. Len(runs) \in Nat /\ DOMAIN runs = 1..Len(runs)
  BY Shapes
<1>2. ASSUME NEW S \in SUBSET (DOMAIN runs), S # {}
      PROVE  Max(S) \in S /\ \A m \in S : m <= Max(S)
  <2>1. S \in SUBSET Nat /\ \A m \in S : m <= Len(runs)
    BY <1>1
  <2> QED
    BY <1>1, <1>2, <2>1, Greatest
<1>3. \A i : CoveredBy(i) \in SUBSET (DOMAIN runs) /\ RunsOf(i) \in SUBSET (DOMAIN runs)
  BY DEF CoveredBy, RunsOf
<1> QED
  BY <1>2, <1>3

-----------------------------------------------------------------------------
(* After a scan. *)

LEMMA DuplicatesAfterScan ==
  ASSUME TypeOK, Referential, DuplicatesExplained, NEW r \in Requests, SessionGood(req[r]),
         CommitScan(r)
  PROVE  DuplicatesExplained'
<1> DEFINE q == req[r]
<1>1. /\ Len(findings) \in Nat /\ Rows = 1..Len(findings) /\ Len(runs) \in Nat
      /\ \A i \in Rows : findings[i] \in SearchResult
  BY Shapes
<1>2. /\ Len(findings') \in Nat /\ Len(findings) <= Len(findings')
      /\ \A i \in (Len(findings) + 1)..Len(findings') :
           /\ findings'[i].key \notin Indexed(q)
           /\ findings'[i].seen = q.seen /\ findings'[i].run = Len(runs) + 1
  BY ScanFindings, SMTT(30)
<1>3. Rows' = 1..Len(findings')
  <2>1. TypeOK'
    BY ScanTypes
  <2> QED
    BY <2>1 DEF TypeOK, Rows
<1>4. \A i \in Rows : /\ findings'[i].key = findings[i].key /\ findings'[i].by = findings[i].by
                     /\ findings'[i].seen = findings[i].seen
                     /\ findings'[i].run = findings[i].run
  BY ScanTypes DEF Grows
<1>5. \A i \in 1..q.seen : findings[i].key \in Indexed(q)
  <2>1. ScanGood(q)
    BY ScanRuns
  <2>2. \A i \in 1..q.seen : \E m \in DOMAIN q.index : findings[m].key = findings[i].key
    BY <2>1 DEF ScanGood
  <2> QED
    BY <2>2 DEF Indexed
<1>6. q.seen \in Nat /\ q.seen <= Len(findings)
  BY ScanRuns DEF ScanGood, Scanning
<1>7. SUFFICES ASSUME NEW i \in 1..Len(findings'), NEW j \in 1..Len(findings'),
                      i < j, findings'[i].key = findings'[j].key
               PROVE  \/ findings'[j].seen < i
                      \/ findings'[j].run # 0 /\ findings'[i].run = findings'[j].run
                      \/ findings'[j].run = 0 /\ findings'[i].by # findings'[j].by
  BY <1>3 DEF DuplicatesExplained, Rows
<1>8. CASE j \in Rows
  <2>1. i \in Rows
    BY <1>1, <1>7, <1>8
  <2> QED
    BY <1>4, <1>7, <1>8, <2>1 DEF DuplicatesExplained
<1>9. CASE j \in (Len(findings) + 1)..Len(findings') /\ i \in Rows
  <2>1. findings[i].key \notin Indexed(q) /\ findings'[j].seen = q.seen
    BY <1>2, <1>4, <1>7, <1>9
  <2>2. i \notin 1..q.seen
    BY <1>5, <2>1
  <2> QED
    BY <1>1, <1>6, <1>9, <2>1, <2>2
<1>10. CASE /\ j \in (Len(findings) + 1)..Len(findings')
            /\ i \in (Len(findings) + 1)..Len(findings')
  BY <1>1, <1>2, <1>10
<1> QED
  BY <1>1, <1>2, <1>7, <1>8, <1>9, <1>10

LEMMA StatesAfterScan ==
  ASSUME TypeOK, Referential, StateReflectsLastScan, NEW r \in Requests, SessionGood(req[r]),
         CommitScan(r)
  PROVE  StateReflectsLastScan'
<1> DEFINE q == req[r]
           N == Len(runs) + 1
<1>1. /\ Len(findings) \in Nat /\ Rows = 1..Len(findings)
      /\ \A i \in Rows : findings[i] \in SearchResult
      /\ Len(runs) \in Nat /\ DOMAIN runs = 1..Len(runs)
  BY Shapes
<1>2. /\ Len(findings') \in Nat /\ Len(findings) <= Len(findings')
      /\ \A i \in Rows : findings'[i] = [findings[i] EXCEPT !.state = Stored(q, i)]
      /\ \A i \in (Len(findings) + 1)..Len(findings') : findings'[i].state = "NEW"
  BY <1>1, ScanFindings
<1>3. TypeOK' /\ Rows' = 1..Len(findings')
  <2>1. TypeOK'
    BY ScanTypes
  <2> QED
    BY <2>1 DEF TypeOK, Rows
<1>4. /\ q \in Scanning /\ ScanGood(q) /\ DOMAIN runs' = 1..N
      /\ \A n \in DOMAIN runs : runs'[n] = runs[n]
      /\ runs'[N].observed = Observed(q) /\ runs'[N].covered = DOMAIN q.index
  BY ScanRuns, RunFields
<1>5. \A i \in Rows : findings'[i].key = findings[i].key /\ findings'[i].state = Stored(q, i)
  BY <1>1, <1>2 DEF SearchResult
<1>6. \A i : CoveredBy(i)' = CoveredBy(i) \cup (IF i \in DOMAIN q.index THEN {N} ELSE {})
  BY <1>1, <1>4 DEF CoveredBy
<1>7. DOMAIN q.index \subseteq Rows
  BY <1>1, <1>4 DEF ScanGood, Scanning
<1>8. SUFFICES ASSUME NEW i \in 1..Len(findings')
               PROVE
    LET scans == CoveredBy(i)'
        k     == findings'[i].key
        s     == findings'[i].state
    IN
      /\ s = "NEW" => scans = {}
      /\ s = "NOT_OBSERVED" =>
           scans # {} /\ k \notin runs'[Max(scans)].observed
      /\ s \in {"UNCHANGED", "REAPPEARED"} =>
           scans # {} /\ k \in runs'[Max(scans)].observed
      /\ s = "REAPPEARED" =>
           \E n \in scans : n < Max(scans) /\ k \notin runs'[n].observed
  BY <1>3 DEF StateReflectsLastScan, Rows, Max
<1>9. CASE i \in DOMAIN q.index
  <2>1. i \in Rows /\ findings'[i].state = Classified(q, i)
    BY <1>5, <1>7, <1>9 DEF Stored
  <2>2. N \in CoveredBy(i)' /\ \A m \in CoveredBy(i)' : m <= N
    <3>1. CoveredBy(i)' = CoveredBy(i) \cup {N}
      BY <1>6, <1>9
    <3>2. \A m \in CoveredBy(i) : m <= N
      BY <1>1 DEF CoveredBy
    <3> QED
      BY <1>1, <3>1, <3>2
  <2>3. Max(CoveredBy(i)') = N
    <3>1. CoveredBy(i)' \in SUBSET Nat /\ N \in Nat
      BY <1>1, <1>6, <1>9 DEF CoveredBy
    <3>2. Max(CoveredBy(i)') \in CoveredBy(i)' /\ \A m \in CoveredBy(i)' : m <= Max(CoveredBy(i)')
      BY <2>2, <3>1, Greatest
    <3> QED
      BY <2>2, <3>1, <3>2
  <2>4. /\ Classified(q, i) # "NEW"
        /\ Classified(q, i) = "NOT_OBSERVED" => findings[i].key \notin Observed(q)
        /\ Classified(q, i) \in {"UNCHANGED", "REAPPEARED"} => findings[i].key \in Observed(q)
        /\ Classified(q, i) = "REAPPEARED" => i \in Missing(q)
    BY Classes
  <2>5. ASSUME i \in Missing(q)
        PROVE  \E n \in CoveredBy(i)' : n < N /\ findings'[i].key \notin runs'[n].observed
    <3>1. PICK n \in DOMAIN runs : i \in runs[n].covered /\ findings[i].key \notin runs[n].observed
      BY <1>4, <2>5 DEF ScanGood, Missing
    <3>2. n \in CoveredBy(i)' /\ n < N
      BY <1>1, <1>6, <3>1 DEF CoveredBy
    <3> QED
      BY <1>4, <1>5, <2>1, <3>1, <3>2
  <2>6. findings'[i].key = findings[i].key /\ runs'[N].observed = Observed(q)
    BY <1>4, <1>5, <2>1
  <2> HIDE DEF q, N
  <2> QED
    BY <2>1, <2>2, <2>3, <2>4, <2>5, <2>6
<1>10. CASE i \in Rows /\ i \notin DOMAIN q.index
  <2>1. CoveredBy(i)' = CoveredBy(i)
    BY <1>6, <1>10
  <2>2. findings'[i].key = findings[i].key /\ findings'[i].state = findings[i].state
    BY <1>5, <1>10 DEF Stored
  <2>3. \A n \in CoveredBy(i) : runs'[n] = runs[n]
    BY <1>4 DEF CoveredBy
  <2>4. CoveredBy(i) # {} => Max(CoveredBy(i)) \in CoveredBy(i)
    BY LastRun
  <2> QED
    BY <1>10, <2>1, <2>2, <2>3, <2>4 DEF StateReflectsLastScan
<1>11. CASE i \in (Len(findings) + 1)..Len(findings')
  <2>1. i \notin Rows
    BY <1>1, <1>11
  <2>2. CoveredBy(i) = {}
    BY <2>1 DEF CoveredBy, Referential
  <2> QED
    BY <1>2, <1>6, <1>7, <1>11, <2>1, <2>2
<1> QED
  BY <1>1, <1>2, <1>8, <1>9, <1>10, <1>11

LEMMA RulesAfterScan ==
  ASSUME TypeOK, Referential, RulesExplained, NEW r \in Requests, SessionGood(req[r]),
         CommitScan(r)
  PROVE  RulesExplained'
<1> DEFINE q == req[r]
           N == Len(runs) + 1
<1>1. /\ Len(runs) \in Nat /\ DOMAIN runs = 1..Len(runs) /\ DOMAIN runs' = 1..N
      /\ \A n \in DOMAIN runs : runs'[n] = runs[n]
      /\ runs'[N].rule = ScannedRule(q)
  BY Shapes, ScanRuns, RunFields
<1>2. /\ \A i \in DOMAIN rules' : rules'[i].seen = 0
      /\ \A i \in DOMAIN rules' :
           i = ScannedRule(q) \/ (i \in DOMAIN rules /\ rules'[i] = rules[i])
  BY ScanRules
<1>3. \A j \in DOMAIN rules' : j \in Nat /\ 0 < j
  BY ScanTypes DEF TypeOK
<1>4. ASSUME NEW i \in DOMAIN rules', rules'[i].enabled # rules'[i].scheduled
      PROVE  \E n \in DOMAIN runs' : runs'[n].rule = i
  <2>1. CASE i = ScannedRule(q)
    BY <1>1, <2>1
  <2>2. CASE i \in DOMAIN rules /\ rules'[i] = rules[i]
    <3>1. PICK n \in DOMAIN runs : runs[n].rule = i
      BY <1>4, <2>2 DEF RulesExplained
    <3> QED
      BY <1>1, <3>1
  <2> QED
    BY <1>2, <2>1, <2>2
<1> QED
  BY <1>2, <1>3, <1>4 DEF RulesExplained

\* The rows of a new run are those that it added, and the others keep theirs.
LEMMA CountsAfterScan ==
  ASSUME TypeOK, Referential, CountsAddUp, NEW r \in Requests, SessionGood(req[r]),
         CommitScan(r)
  PROVE  CountsAddUp'
<1> DEFINE q == req[r]
           c == NewCount(q)
           L == Len(findings)
           N == Len(runs) + 1
<1>1. /\ L \in Nat /\ Rows = 1..L
      /\ \A i \in Rows : findings[i] \in SearchResult
      /\ Len(runs) \in Nat /\ DOMAIN runs = 1..Len(runs) /\ N \in Nat
      /\ Len(rules) \in Nat /\ DOMAIN rules = 1..Len(rules)
  BY Shapes
<1>2. /\ c \in Nat /\ Len(findings') = L + c
      /\ \A i \in (L + 1)..Len(findings') : findings'[i].run = N
  BY ScanFindings
<1>3. /\ TypeOK' /\ Rows' = 1..(L + c)
      /\ \A i \in Rows : findings'[i].run = findings[i].run
  BY ScanTypes, <1>2 DEF TypeOK, Rows, Grows
<1>4. /\ q \in Scanning /\ ScanGood(q) /\ DOMAIN runs' = 1..N
      /\ \A n \in DOMAIN runs : runs'[n] = runs[n]
      /\ runs'[N] = RunOf(q)
      /\ runs'[N].new = c /\ runs'[N].rule = ScannedRule(q) /\ runs'[N].seen = q.past
  BY ScanRuns, RunFields
<1>5. \A i \in Rows : findings[i].run \in Nat /\ findings[i].run <= Len(runs)
  BY <1>1 DEF Referential, SearchResult
<1>6. ASSUME NEW n \in DOMAIN runs'
      PROVE  /\ runs'[n].candidates =
                  runs'[n].new + runs'[n].unchanged + runs'[n].reappeared
             /\ runs'[n].new = Cardinality({i \in Rows' : findings'[i].run = n})
  <2>1. CASE n \in DOMAIN runs
    <3>1. n # N
      BY <1>1, <2>1
    <3>2. {i \in Rows' : findings'[i].run = n} = {i \in Rows : findings[i].run = n}
      <4>1. ASSUME NEW i \in Rows', findings'[i].run = n
            PROVE  i \in Rows /\ findings[i].run = n
        <5>1. i \notin (L + 1)..Len(findings')
          BY <1>2, <3>1, <4>1
        <5>2. i \in Rows
          BY <1>1, <1>2, <1>3, <5>1
        <5> QED
          BY <1>3, <4>1, <5>2
      <4>2. \A i \in Rows : i \in Rows'
        BY <1>1, <1>2, <1>3
      <4> QED
        BY <1>3, <4>1, <4>2
    <3> QED
      BY <1>4, <2>1, <3>2 DEF CountsAddUp
  <2>2. CASE n = N
    <3>1. {i \in Rows' : findings'[i].run = N} = (L + 1)..(L + c)
      <4>1. ASSUME NEW i \in Rows', findings'[i].run = N
            PROVE  i \in (L + 1)..(L + c)
        <5>1. i \notin Rows
          BY <1>1, <1>3, <1>5, <4>1
        <5> QED
          BY <1>1, <1>2, <1>3, <5>1
      <4>2. \A i \in (L + 1)..(L + c) : i \in Rows' /\ findings'[i].run = N
        BY <1>1, <1>2, <1>3
      <4> QED
        BY <4>1, <4>2
    <3>2. Cardinality((L + 1)..(L + c)) = c
      <4>1. L + 1 \in Int /\ L + c \in Int
        BY <1>1, <1>2
      <4>2. Cardinality((L + 1)..(L + c)) =
              IF L + 1 > L + c THEN 0 ELSE (L + c) - (L + 1) + 1
        BY <4>1, FS_Interval
      <4> QED
        BY <1>1, <1>2, <4>2
    <3>3. runs'[N].candidates = runs'[N].new + runs'[N].unchanged + runs'[N].reappeared
      BY <1>4, RunAddsUp
    <3> QED
      BY <1>4, <2>2, <3>1, <3>2, <3>3
  <2> QED
    BY <1>1, <1>4, <2>1, <2>2
<1>7. ASSUME NEW i \in DOMAIN rules', RunsOf(i)' # {}
      PROVE  LET n == Max(RunsOf(i)') IN
               \/ rules'[i].delta = runs'[n].new
               \/ \E m \in RunsOf(i)' : runs'[n].seen < m /\ m < n
  <2>1. RunsOf(i)' = RunsOf(i) \cup (IF i = ScannedRule(q) THEN {N} ELSE {})
    BY <1>1, <1>4 DEF RunsOf
  <2>2. /\ rules'[ScannedRule(q)].delta = c \/ \E m \in RunsOf(ScannedRule(q)) : q.past < m
        /\ i = ScannedRule(q) \/ (i \in DOMAIN rules /\ rules'[i] = rules[i])
    BY ScanRules
  <2>3. \A m \in RunsOf(i) : m \in DOMAIN runs /\ m \in Nat /\ m < N
    BY <1>1 DEF RunsOf
  <2>4. CASE i = ScannedRule(q)
    <3>1. RunsOf(i)' = RunsOf(i) \cup {N}
      BY <2>1, <2>4
    <3>2. RunsOf(i)' \in SUBSET Nat /\ \A m \in RunsOf(i)' : m <= N
      BY <1>1, <2>3, <3>1
    <3>3. Max(RunsOf(i)') \in RunsOf(i)' /\ \A m \in RunsOf(i)' : m <= Max(RunsOf(i)')
      BY <1>1, <1>7, <3>2, Greatest
    <3>4. Max(RunsOf(i)') = N
      <4>1. N \in RunsOf(i)' /\ N \in Nat
        BY <1>1, <3>1
      <4>2. PICK x : x = Max(RunsOf(i)')
        OBVIOUS
      <4>3. x \in Nat /\ x <= N /\ N <= x
        BY <3>2, <3>3, <4>1, <4>2
      <4> QED
        BY <4>1, <4>2, <4>3
    <3>5. \/ rules'[i].delta = runs'[N].new
          \/ \E m \in RunsOf(i)' : runs'[N].seen < m /\ m < N
      BY <1>4, <2>2, <2>3, <2>4, <3>1
    <3> QED
      BY <3>4, <3>5
  <2>5. CASE i # ScannedRule(q)
    <3>1. RunsOf(i)' = RunsOf(i) /\ i \in DOMAIN rules /\ rules'[i] = rules[i]
      BY <2>1, <2>2, <2>5
    <3>2. PICK n : n = Max(RunsOf(i))
      OBVIOUS
    <3>3. n \in RunsOf(i) /\ runs'[n] = runs[n]
      BY <1>4, <1>7, <2>3, <3>1, <3>2, LastRun
    <3>4. rules[i].delta = runs[n].new \/ \E m \in RunsOf(i) : runs[n].seen < m /\ m < n
      BY <1>7, <3>1, <3>2 DEF CountsAddUp
    <3> QED
      BY <3>1, <3>2, <3>3, <3>4
  <2> QED
    BY <2>4, <2>5
<1> QED
  BY <1>6, <1>7 DEF CountsAddUp, Rows, RunsOf, Max

-----------------------------------------------------------------------------
(* After discovery. *)

LEMMA DiscoveryTypes ==
  ASSUME TypeOK, Referential, NEW r \in Requests, SessionGood(req[r]), CommitDiscovery(r)
  PROVE  TypeOK' /\ Referential' /\ Grows
<1>1. /\ Len(findings) \in Nat /\ Rows = 1..Len(findings)
      /\ \A i \in Rows : findings[i] \in SearchResult
      /\ Len(runs) \in Nat /\ DOMAIN runs = 1..Len(runs) /\ Len(rules) \in Nat
  BY Shapes
<1>2. /\ findings' \in Seq(SearchResult) /\ Len(findings') <= MaxFindings
      /\ Len(findings) <= Len(findings')
      /\ \A i \in Rows : \/ findings'[i] = [findings[i] EXCEPT !.state = "ACTIVE"]
                         \/ findings'[i] = findings[i]
      /\ \A i \in (Len(findings) + 1)..Len(findings') : findings'[i].run = 0
  BY DiscoveryFindings
<1>3. UNCHANGED <<runs, rules>>
  BY DEF CommitDiscovery
<1>4. req' \in [Requests -> {Idle} \cup Scanning \cup Configuring \cup Discovering]
  BY DEF CommitDiscovery, TypeOK
<1>5. TypeOK' /\ Rows' = 1..Len(findings') /\ Len(findings') \in Nat
  BY <1>2, <1>3, <1>4 DEF TypeOK, Rows
<1>6. \A i \in Rows : /\ findings'[i].key = findings[i].key /\ findings'[i].by = findings[i].by
                     /\ findings'[i].seen = findings[i].seen
                     /\ findings'[i].run = findings[i].run
  BY <1>1, <1>2 DEF SearchResult
<1>7. Referential'
  <2>1. Rows \subseteq Rows'
    BY <1>1, <1>2, <1>5
  <2>2. ASSUME NEW i \in Rows' PROVE findings'[i].run <= Len(runs)
    <3>1. CASE i \in Rows
      BY <1>6, <3>1 DEF Referential
    <3>2. CASE i \in (Len(findings) + 1)..Len(findings')
      BY <1>1, <1>2, <3>2
    <3> QED
      BY <1>1, <1>5, <3>1, <3>2
  <2>3. \A n \in DOMAIN runs : runs[n].covered \subseteq Rows'
    BY <2>1 DEF Referential
  <2> QED
    BY <1>3, <2>2, <2>3 DEF Referential, Rows
<1> QED
  BY <1>1, <1>2, <1>3, <1>5, <1>6, <1>7 DEF Grows

LEMMA ExplainedAfterDiscovery ==
  ASSUME TypeOK, Referential, Explained, NEW r \in Requests, SessionGood(req[r]),
         CommitDiscovery(r)
  PROVE  Explained'
<1> DEFINE q == req[r]
           L == Len(findings)
<1>1. /\ L \in Nat /\ Rows = 1..L
      /\ \A i \in Rows : findings[i] \in SearchResult
      /\ Len(runs) \in Nat /\ DOMAIN runs = 1..Len(runs)
  BY Shapes
<1>2. /\ L <= Len(findings')
      /\ \A i \in Rows : \/ findings'[i] = [findings[i] EXCEPT !.state = "ACTIVE"]
                         \/ findings'[i] = findings[i]
      /\ \A i \in (L + 1)..Len(findings') :
           /\ findings'[i].state = "ACTIVE" /\ findings'[i].run = 0
           /\ findings'[i].seen = q.seen
           /\ \A m \in DOMAIN q.index :
                ~(findings[m].key = findings'[i].key /\ findings[m].by = findings'[i].by)
           /\ \A j \in (L + 1)..Len(findings') :
                findings'[i].key = findings'[j].key => i = j
  BY DiscoveryFindings
<1>3. UNCHANGED <<runs, rules>>
  BY DEF CommitDiscovery
<1>4. /\ Rows' = 1..Len(findings') /\ Len(findings') \in Nat
      /\ \A i \in Rows : /\ findings'[i].key = findings[i].key /\ findings'[i].by = findings[i].by
                         /\ findings'[i].seen = findings[i].seen
                         /\ findings'[i].run = findings[i].run
  BY DiscoveryTypes DEF TypeOK, Rows, Grows
<1>5. \A i \in Rows : findings'[i].state \in {"ACTIVE", findings[i].state}
  BY <1>1, <1>2 DEF SearchResult
<1>6. \A i \in Rows' : i \in Rows \/ i \in (L + 1)..Len(findings')
  BY <1>1, <1>4
<1>7. DuplicatesExplained'
  <2>1. /\ q.seen \in Nat /\ q.seen <= L
        /\ \A i \in 1..q.seen : \E m \in DOMAIN q.index :
             findings[m].key = findings[i].key /\ findings[m].by = findings[i].by
    <3>1. q.op = "discover"
      BY DEF CommitDiscovery
    <3> QED
      BY <3>1, Sessions DEF SessionGood, DiscoveryGood, Discovering
  <2>2. SUFFICES ASSUME NEW i \in Rows', NEW j \in Rows',
                        i < j, findings'[i].key = findings'[j].key
                 PROVE  \/ findings'[j].seen < i
                        \/ findings'[j].run # 0 /\ findings'[i].run = findings'[j].run
                        \/ findings'[j].run = 0 /\ findings'[i].by # findings'[j].by
    BY DEF DuplicatesExplained, Rows
  <2>3. CASE j \in Rows
    <3>1. i \in Rows
      BY <1>1, <1>4, <2>2, <2>3
    <3> QED
      BY <1>4, <2>2, <2>3, <3>1 DEF Explained, DuplicatesExplained
  <2>4. CASE j \in (L + 1)..Len(findings') /\ i \in Rows
    <3>1. CASE i \in 1..q.seen
      <4>1. PICK m \in DOMAIN q.index :
              findings[m].key = findings[i].key /\ findings[m].by = findings[i].by
        BY <2>1, <3>1
      <4>2. findings'[i].by # findings'[j].by
        BY <1>2, <1>4, <2>2, <2>4, <4>1
      <4> QED
        BY <1>2, <2>4, <4>2
    <3>2. CASE i \notin 1..q.seen
      BY <1>1, <1>2, <2>1, <2>4, <3>2
    <3> QED
      BY <3>1, <3>2
  <2>5. CASE j \in (L + 1)..Len(findings') /\ i \in (L + 1)..Len(findings')
    <3>1. i = j
      BY <1>2, <2>2, <2>5
    <3> QED
      BY <1>4, <2>2, <3>1
  <2> QED
    BY <1>6, <2>3, <2>4, <2>5
<1>8. StateReflectsLastScan'
  <2>1. SUFFICES ASSUME NEW i \in Rows'
                 PROVE
      LET scans == CoveredBy(i)
          k     == findings'[i].key
          s     == findings'[i].state
      IN
        /\ s = "NEW" => scans = {}
        /\ s = "NOT_OBSERVED" =>
             scans # {} /\ k \notin runs[Max(scans)].observed
        /\ s \in {"UNCHANGED", "REAPPEARED"} =>
             scans # {} /\ k \in runs[Max(scans)].observed
        /\ s = "REAPPEARED" =>
             \E n \in scans : n < Max(scans) /\ k \notin runs[n].observed
    BY <1>3 DEF StateReflectsLastScan, Rows, CoveredBy, Max
  <2>2. CASE findings'[i].state = "ACTIVE"
    BY <2>2
  <2>3. CASE i \in Rows /\ findings'[i].state = findings[i].state
    BY <1>4, <2>3 DEF Explained, StateReflectsLastScan
  <2> QED
    BY <1>2, <1>5, <1>6, <2>2, <2>3
<1>9. RulesExplained'
  BY <1>3 DEF Explained, RulesExplained
<1>10. CountsAddUp'
  <2>1. ASSUME NEW n \in DOMAIN runs
        PROVE  {i \in Rows' : findings'[i].run = n} = {i \in Rows : findings[i].run = n}
    <3>1. n # 0
      BY <1>1
    <3>2. ASSUME NEW i \in Rows', findings'[i].run = n
          PROVE  i \in Rows /\ findings[i].run = n
      BY <1>2, <1>4, <1>6, <3>1, <3>2
    <3>3. \A i \in Rows : i \in Rows'
      BY <1>1, <1>2, <1>4
    <3> QED
      BY <1>4, <3>2, <3>3
  <2> QED
    BY <1>3, <2>1 DEF Explained, CountsAddUp, RunsOf, Rows
<1> QED
  BY <1>7, <1>8, <1>9, <1>10 DEF Explained

-----------------------------------------------------------------------------
(* After the scan of a case. *)

LEMMA AfterCaseScan ==
  ASSUME TypeOK, Referential, Explained, CaseScan
  PROVE  TypeOK' /\ Referential' /\ Grows /\ Explained'
<1> DEFINE L == Len(findings)
           c == Len(MockFindings)
           t == [n \in DOMAIN MockFindings |->
                   [key |-> MockFindings[n], by |-> CaseScanner, state |-> "ACTIVE",
                    seen |-> 0, run |-> 0]]
<1>1. /\ L \in Nat /\ Rows = 1..L
      /\ Len(runs) \in Nat /\ DOMAIN runs = 1..Len(runs)
      /\ Len(rules) \in Nat /\ DOMAIN rules = 1..Len(rules)
  BY Shapes
<1>2. findings' = findings \o t /\ L + c <= MaxFindings /\ UNCHANGED <<runs, rules, req>>
  BY DEF CaseScan
<1>3. c \in Nat /\ DOMAIN MockFindings = 1..c /\ \A n \in 1..c : MockFindings[n] \in Keys
  BY BoundsAssumption
<1>4. \A n \in 1..c : t[n] = [key |-> MockFindings[n], by |-> CaseScanner,
                              state |-> "ACTIVE", seen |-> 0, run |-> 0]
  BY <1>3
<1>5. t \in [1..c -> SearchResult]
  BY <1>3 DEF SearchResult, ObservationState
<1>6. /\ findings' \in Seq(SearchResult) /\ Len(findings') = L + c
      /\ \A i \in 1..L : findings'[i] = findings[i]
      /\ \A n \in 1..c : findings'[L + n] = t[n]
  <2>1. findings \in Seq(SearchResult)
    BY DEF TypeOK
  <2> HIDE DEF t, c
  <2> QED
    BY <1>2, <1>3, <1>5, <2>1, Longer
<1>7. \A j \in (L + 1)..(L + c) : /\ findings'[j].seen = 0 /\ findings'[j].run = 0
                                  /\ findings'[j].state = "ACTIVE"
  <2>1. \A n \in 1..c : t[n].seen = 0 /\ t[n].run = 0 /\ t[n].state = "ACTIVE"
    BY <1>4
  <2> HIDE DEF t, c
  <2>2. ASSUME NEW j \in (L + 1)..(L + c) PROVE \E n \in 1..c : findings'[j] = t[n]
    <3>1. j - L \in 1..c /\ L + (j - L) = j
      BY <1>1, <1>3
    <3> QED
      BY <1>6, <3>1
  <2> QED
    BY <2>1, <2>2
<1> HIDE DEF t, c
<1>8. Rows' = 1..(L + c) /\ \A j \in Rows' : j \in Rows \/ j \in (L + 1)..(L + c)
  BY <1>1, <1>3, <1>6 DEF Rows
<1>9. Rows \subseteq Rows'
  BY <1>1, <1>3, <1>8
<1>10. TypeOK'
  BY <1>2, <1>6 DEF TypeOK
<1>11. Grows
  BY <1>1, <1>2, <1>3, <1>6 DEF Grows
<1>12. Referential'
  <2>1. \A i \in Rows' : findings'[i].run <= Len(runs)
    BY <1>1, <1>6, <1>7, <1>8 DEF Referential
  <2> QED
    BY <1>2, <1>9, <2>1 DEF Referential
<1>13. DuplicatesExplained'
  <2>1. SUFFICES ASSUME NEW i \in Rows', NEW j \in Rows', i < j,
                        findings'[i].key = findings'[j].key
                 PROVE  \/ findings'[j].seen < i
                        \/ findings'[j].run # 0 /\ findings'[i].run = findings'[j].run
                        \/ findings'[j].run = 0 /\ findings'[i].by # findings'[j].by
    BY DEF DuplicatesExplained, Rows
  <2>2. CASE j \in Rows
    <3>1. i \in Rows
      BY <1>1, <1>8, <2>1, <2>2
    <3> QED
      BY <1>1, <1>6, <2>1, <2>2, <3>1 DEF Explained, DuplicatesExplained
  <2>3. CASE j \in (L + 1)..(L + c)
    BY <1>7, <1>8, <2>3
  <2> QED
    BY <1>8, <2>2, <2>3
<1>14. StateReflectsLastScan'
  <2>1. SUFFICES ASSUME NEW i \in Rows'
                 PROVE
      LET scans == CoveredBy(i)
          k     == findings'[i].key
          s     == findings'[i].state
      IN
        /\ s = "NEW" => scans = {}
        /\ s = "NOT_OBSERVED" =>
             scans # {} /\ k \notin runs[Max(scans)].observed
        /\ s \in {"UNCHANGED", "REAPPEARED"} =>
             scans # {} /\ k \in runs[Max(scans)].observed
        /\ s = "REAPPEARED" =>
             \E n \in scans : n < Max(scans) /\ k \notin runs[n].observed
    BY <1>2 DEF StateReflectsLastScan, Rows, CoveredBy, Max
  <2>2. CASE i \in (L + 1)..(L + c)
    BY <1>7, <2>2
  <2>3. CASE i \in Rows
    BY <1>1, <1>6, <2>3 DEF Explained, StateReflectsLastScan
  <2> QED
    BY <1>8, <2>2, <2>3
<1>15. RulesExplained'
  BY <1>2 DEF Explained, RulesExplained
<1>16. CountsAddUp'
  <2>1. ASSUME NEW n \in DOMAIN runs
        PROVE  {i \in Rows' : findings'[i].run = n} = {i \in Rows : findings[i].run = n}
    <3>1. n # 0
      BY <1>1
    <3> QED
      BY <1>1, <1>6, <1>7, <1>8, <1>9, <3>1
  <2> QED
    BY <1>2, <2>1 DEF Explained, CountsAddUp, RunsOf, Rows
<1> QED
  BY <1>10, <1>11, <1>12, <1>13, <1>14, <1>15, <1>16 DEF Explained

-----------------------------------------------------------------------------
(* After a switch. *)

LEMMA AfterSwitch ==
  ASSUME TypeOK, Referential, Explained, NEW r \in Requests, SessionGood(req[r]),
         CommitConfigure(r)
  PROVE  TypeOK' /\ Referential' /\ Grows /\ Explained'
<1>1. /\ Len(findings) \in Nat /\ Rows = 1..Len(findings)
      /\ Len(runs) \in Nat /\ DOMAIN runs = 1..Len(runs)
      /\ Len(rules) \in Nat /\ DOMAIN rules = 1..Len(rules)
  BY Shapes
<1>2. /\ rules' \in Seq(MonitoringRule) /\ Len(rules) <= Len(rules')
      /\ \A i \in DOMAIN rules' : rules'[i].seen = 0
      /\ \A i \in DOMAIN rules : rules'[i].delta = rules[i].delta
      /\ \A i \in DOMAIN rules' : rules'[i].enabled # rules'[i].scheduled =>
                                 i \in DOMAIN rules /\ RunsOf(i) # {}
  BY ConfigureRules DEF Explained
<1>3. UNCHANGED <<findings, runs>>
  BY DEF CommitConfigure
<1>4. req' \in [Requests -> {Idle} \cup Scanning \cup Configuring \cup Discovering]
  BY DEF CommitConfigure, TypeOK
<1>5. TypeOK'
  BY <1>2, <1>3, <1>4 DEF TypeOK
<1>6. DOMAIN rules' = 1..Len(rules') /\ Len(rules') \in Nat
  BY <1>2, LenProperties
<1>7. Referential'
  <2>1. DOMAIN rules \subseteq DOMAIN rules'
    BY <1>1, <1>2, <1>6
  <2> QED
    BY <1>2, <1>3, <2>1 DEF Referential, Rows
<1>8. Grows
  BY <1>1, <1>2, <1>3 DEF Grows
<1>9. DuplicatesExplained' /\ StateReflectsLastScan'
  <2>1. Rows' = Rows /\ \A i : CoveredBy(i)' = CoveredBy(i)
    BY <1>3 DEF Rows, CoveredBy
  <2>2. DuplicatesExplained'
    BY <1>3, <2>1 DEF Explained, DuplicatesExplained
  <2>3. StateReflectsLastScan'
    BY <1>3, <2>1 DEF Explained, StateReflectsLastScan
  <2> QED
    BY <2>2, <2>3
<1>10. RulesExplained'
  <2>1. \A j \in DOMAIN rules' : j \in Nat /\ 0 < j
    BY <1>6
  <2>2. \A i : RunsOf(i) # {} => \E n \in DOMAIN runs : runs[n].rule = i
    BY DEF RunsOf
  <2> QED
    BY <1>2, <1>3, <2>1, <2>2 DEF RulesExplained
<1>11. CountsAddUp'
  <2>1. ASSUME NEW i \in DOMAIN rules', RunsOf(i) # {}
        PROVE  i \in DOMAIN rules /\ rules'[i].delta = rules[i].delta
    <3>1. i \in DOMAIN rules
      BY <2>1 DEF RunsOf, Referential
    <3> QED
      BY <1>2, <3>1
  <2>2. /\ \A i \in DOMAIN rules' :
             RunsOf(i) # {} =>
               LET n == Max(RunsOf(i)) IN
                 \/ rules'[i].delta = runs[n].new
                 \/ \E m \in RunsOf(i) : runs[n].seen < m /\ m < n
    BY <2>1 DEF Explained, CountsAddUp
  <2>3. Rows' = Rows /\ \A i : RunsOf(i)' = RunsOf(i)
    BY <1>3 DEF Rows, RunsOf
  <2> QED
    BY <1>3, <2>2, <2>3 DEF Explained, CountsAddUp
<1> QED
  BY <1>5, <1>7, <1>8, <1>9, <1>10, <1>11 DEF Explained

-----------------------------------------------------------------------------
(* The induction. *)

\* A step that changes no rows keeps what is said of them.
LEMMA Unmoved ==
  ASSUME Referential, Explained, UNCHANGED <<findings, runs, rules>>
  PROVE  Referential' /\ Explained'
<1>1. Rows' = Rows /\ \A i : CoveredBy(i)' = CoveredBy(i) /\ RunsOf(i)' = RunsOf(i)
  BY DEF Rows, CoveredBy, RunsOf
<1>2. Referential'
  BY <1>1 DEF Referential
<1>3. DuplicatesExplained' /\ RulesExplained'
  BY <1>1 DEF Explained, DuplicatesExplained, RulesExplained
<1>4. StateReflectsLastScan'
  BY <1>1 DEF Explained, StateReflectsLastScan
<1>5. CountsAddUp'
  BY <1>1 DEF Explained, CountsAddUp
<1> QED
  BY <1>2, <1>3, <1>4, <1>5 DEF Explained

\* A session that begins finds the others as they were.
LEMMA OneSession ==
  ASSUME IInv, NEW r \in Requests, NEW q,
         q \in {Idle} \cup Scanning \cup Configuring \cup Discovering,
         req' = [req EXCEPT ![r] = q], SessionGood(req[r])',
         UNCHANGED <<findings, runs, rules>>
  PROVE  IInv'
<1>1. TypeOK'
  BY DEF IInv, TypeOK
<1>2. Grows
  BY Standstill DEF IInv
<1>3. \A o \in Requests : SessionGood(req[o])'
  <2>1. ASSUME NEW o \in Requests, o # r PROVE SessionGood(req[o])'
    <3>1. req'[o] = req[o] /\ SessionGood(req[o])
      BY <2>1 DEF IInv, TypeOK, SessionsGood
    <3> QED
      BY <1>1, <1>2, <3>1, SessionStays DEF IInv
  <2> QED
    BY <2>1
<1> QED
  BY <1>1, <1>3, Unmoved DEF IInv, SessionsGood

\* So do the sessions that are open when another commits.
LEMMA OthersStay ==
  ASSUME IInv, TypeOK', Grows, NEW r \in Requests, req' = [req EXCEPT ![r] = Idle]
  PROVE  SessionsGood'
<1>1. ASSUME NEW o \in Requests PROVE SessionGood(req[o])'
  <2>1. CASE o = r
    <3>1. req'[o] = Idle
      BY <2>1 DEF IInv, TypeOK
    <3>2. req'[o].op = "idle"
      BY <3>1 DEF Idle
    <3> QED
      BY <3>2 DEF SessionGood
  <2>2. CASE o # r
    <3>1. req'[o] = req[o] /\ SessionGood(req[o])
      BY <2>2 DEF IInv, TypeOK, SessionsGood
    <3> QED
      BY <3>1, SessionStays DEF IInv
  <2> QED
    BY <2>1, <2>2
<1> QED
  BY <1>1 DEF SessionsGood

LEMMA Base ==
  Init => IInv
<1> SUFFICES ASSUME Init PROVE IInv
  OBVIOUS
<1>1. TypeOK
  BY BoundsAssumption DEF Init, TypeOK
<1>2. Rows = {} /\ DOMAIN runs = {} /\ DOMAIN rules = {}
  BY DEF Init, Rows
<1>3. SessionsGood
  BY DEF Init, SessionsGood, SessionGood, Idle
<1>4. Referential
  BY <1>2 DEF Referential
<1>5. Explained
  BY <1>2 DEF Explained, DuplicatesExplained, StateReflectsLastScan, RulesExplained, CountsAddUp
<1> QED
  BY <1>1, <1>3, <1>4, <1>5 DEF IInv

LEMMA Step ==
  IInv /\ [Next]_vars => IInv'
<1> SUFFICES ASSUME IInv, [Next]_vars PROVE IInv'
  OBVIOUS
<1>0. TypeOK /\ Referential /\ Explained /\ \A r \in Requests : SessionGood(req[r])
  BY DEF IInv, SessionsGood
<1>1. ASSUME NEW r \in Requests, NEW items \in Scans, NEW i \in 0..Len(rules),
             i = 0 => rules = <<>>, BeginScan(r, items, i)
      PROVE  IInv'
  <2>1. req'[r] \in Scanning /\ SessionGood(req[r])'
    BY <1>0, <1>1, BeginScanGood
  <2>2. req' = [req EXCEPT ![r] = req'[r]]
    BY <1>0, <1>1 DEF BeginScan, TypeOK
  <2>3. UNCHANGED <<findings, runs, rules>>
    BY <1>1 DEF BeginScan
  <2> QED
    BY <2>1, <2>2, <2>3, OneSession
<1>2. ASSUME NEW r \in Requests, NEW items \in Scans,
             TriggerScan(r, items) \/ JobScan(r, items)
      PROVE  IInv'
  <2>1. rules \in Seq(MonitoringRule) /\ Len(rules) \in Nat /\ DOMAIN rules = 1..Len(rules)
    BY <1>0, Shapes DEF TypeOK
  <2>2. CASE TheRules = {} /\ BeginScan(r, items, 0)
    <3>1. rules = <<>>
      BY <2>1, <2>2 DEF TheRules
    <3>2. 0 \in 0..Len(rules)
      BY <2>1
    <3> QED
      BY <1>1, <2>2, <3>1, <3>2
  <2>3. CASE \E i \in DOMAIN rules : BeginScan(r, items, i)
    <3>1. PICK i \in DOMAIN rules : BeginScan(r, items, i)
      BY <2>3
    <3>2. i \in 0..Len(rules) /\ i # 0
      BY <2>1, <3>1
    <3> QED
      BY <1>1, <3>1, <3>2
  <2> QED
    BY <1>2, <2>2, <2>3 DEF TriggerScan, JobScan, TheRules
<1>3. ASSUME NEW r \in Requests, NEW enabled \in BOOLEAN, BeginConfigure(r, enabled)
      PROVE  IInv'
  <2>1. req'[r] \in Configuring /\ SessionGood(req[r])'
    BY <1>0, <1>3, BeginConfigureGood
  <2>2. req' = [req EXCEPT ![r] = req'[r]]
    BY <1>0, <1>3 DEF BeginConfigure, TypeOK
  <2>3. UNCHANGED <<findings, runs, rules>>
    BY <1>3 DEF BeginConfigure
  <2> QED
    BY <2>1, <2>2, <2>3, OneSession
<1>4. ASSUME NEW r \in Requests, CommitConfigure(r) PROVE IInv'
  <2>1. TypeOK' /\ Referential' /\ Grows /\ Explained'
    BY <1>0, <1>4, AfterSwitch
  <2>2. req' = [req EXCEPT ![r] = Idle]
    BY <1>4 DEF CommitConfigure
  <2> QED
    BY <2>1, <2>2, OthersStay DEF IInv
<1>5. ASSUME NEW r \in Requests, CommitScan(r) PROVE IInv'
  <2>1. TypeOK' /\ Referential' /\ Grows
    BY <1>0, <1>5, ScanTypes
  <2>2. Explained'
    BY <1>0, <1>5, DuplicatesAfterScan, StatesAfterScan, RulesAfterScan, CountsAfterScan
       DEF Explained
  <2>3. req' = [req EXCEPT ![r] = Idle]
    BY <1>5 DEF CommitScan
  <2> QED
    BY <2>1, <2>2, <2>3, OthersStay DEF IInv
<1>6. ASSUME NEW r \in Requests, NEW found \in Discoveries, BeginDiscovery(r, found)
      PROVE  IInv'
  <2>1. req'[r] \in Discovering /\ SessionGood(req[r])'
    BY <1>0, <1>6, BeginDiscoveryGood
  <2>2. req' = [req EXCEPT ![r] = req'[r]]
    BY <1>0, <1>6 DEF BeginDiscovery, TypeOK
  <2>3. UNCHANGED <<findings, runs, rules>>
    BY <1>6 DEF BeginDiscovery
  <2> QED
    BY <2>1, <2>2, <2>3, OneSession
<1>7. ASSUME NEW r \in Requests, CommitDiscovery(r) PROVE IInv'
  <2>1. TypeOK' /\ Referential' /\ Grows
    BY <1>0, <1>7, DiscoveryTypes
  <2>2. Explained'
    BY <1>0, <1>7, ExplainedAfterDiscovery
  <2>3. req' = [req EXCEPT ![r] = Idle]
    BY <1>7 DEF CommitDiscovery
  <2> QED
    BY <2>1, <2>2, <2>3, OthersStay DEF IInv
<1>8. ASSUME NEW r \in Requests, Abort(r) PROVE IInv'
  <2>1. req' = [req EXCEPT ![r] = Idle] /\ UNCHANGED <<findings, runs, rules>>
    BY <1>8 DEF Abort
  <2>2. TypeOK'
    BY <1>0, <2>1 DEF TypeOK
  <2>3. Grows
    BY <1>0, <2>1, Standstill
  <2> QED
    BY <1>0, <2>1, <2>2, <2>3, OthersStay, Unmoved DEF IInv
<1>9. ASSUME CaseScan PROVE IInv'
  <2>1. TypeOK' /\ Referential' /\ Grows /\ Explained'
    BY <1>0, <1>9, AfterCaseScan
  <2>2. req' = req
    BY <1>9 DEF CaseScan
  <2>3. \A r \in Requests : SessionGood(req[r])'
    BY <1>0, <2>1, <2>2, SessionStays
  <2> QED
    BY <2>1, <2>3 DEF IInv, SessionsGood
<1>10. ASSUME UNCHANGED vars PROVE IInv'
  <2>1. UNCHANGED <<findings, runs, rules>> /\ req' = req
    BY <1>10 DEF vars
  <2>2. TypeOK'
    BY <1>0, <2>1 DEF TypeOK
  <2>3. \A r \in Requests : SessionGood(req[r])'
    BY <1>0, <2>1, <2>2, Standstill, SessionStays
  <2> QED
    BY <1>0, <2>1, <2>2, <2>3, Unmoved DEF IInv, SessionsGood
<1> QED
  BY <1>2, <1>3, <1>4, <1>5, <1>6, <1>7, <1>8, <1>9, <1>10 DEF Next

\* The inductive invariant holds in every reachable state.
THEOREM Invariance ==
  Spec => []IInv
<1>1. Init => IInv
  BY Base
<1>2. IInv /\ [Next]_vars => IInv'
  BY Step
<1> QED
  BY <1>1, <1>2, PTL DEF Spec

\* Every variable stays in its range.
THEOREM TypeCorrect ==
  Spec => []TypeOK
<1>1. IInv => TypeOK
  BY DEF IInv
<1> QED
  BY <1>1, Invariance, PTL

\* A finding is duplicated only by a race, inside one scan, by a discovery under
\* another provider string, or by the scan of a case, which has read no row.
THEOREM Duplicates ==
  Spec => []DuplicatesExplained
<1>1. IInv => DuplicatesExplained
  BY DEF IInv, Explained
<1> QED
  BY <1>1, Invariance, PTL

\* The observation state of a finding is the verdict of the last scan that
\* covered it, unless discovery has erased it.
THEOREM States ==
  Spec => []StateReflectsLastScan
<1>1. IInv => StateReflectsLastScan
  BY DEF IInv, Explained
<1> QED
  BY <1>1, Invariance, PTL

\* A second rule comes only from overlapping sessions, and a rule is scheduled
\* exactly when it is on until it has been scanned.
THEOREM Rules ==
  Spec => []RulesExplained
<1>1. IInv => RulesExplained
  BY DEF IInv, Explained
<1> QED
  BY <1>1, Invariance, PTL

\* The counts of a run add up and are the rows it made, and the rule shows the
\* count of its last run unless scans of it overlapped.
THEOREM Counts ==
  Spec => []CountsAddUp
<1>1. IInv => CountsAddUp
  BY DEF IInv, Explained
<1> QED
  BY <1>1, Invariance, PTL

=============================================================================
