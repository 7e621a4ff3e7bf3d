----------------------------- MODULE Monitoring -----------------------------
(***************************************************************************)
(* The delta model of continuous monitoring: the search_results rows of    *)
(* one investigation with their observation_state, the monitoring_runs     *)
(* rows, and the three writers of search_results, which do not know of     *)
(* each other: execute_monitoring_scan, the upsert at the end of           *)
(* run_scan_pipeline, and execute_scan, the older discovery behind         *)
(* POST /cases/{id}/scan.  The monitoring scans belong to the rule of the  *)
(* investigation, which analysts switch on and off.                        *)
(*                                                                         *)
(* The first two are database sessions that read committed rows in one     *)
(* step and write in a single commit later; the third reads none.          *)
(***************************************************************************)
EXTENDS Integers, Sequences, FiniteSets

CONSTANTS
  Keys,         \* the URLs findings are compared by, as the providers spell them
  Engines,      \* the provider strings that run_scan_pipeline stores
  MockFindings, \* the URLs of what MockSearchProvider always finds, in its order
  Requests,     \* sessions that can be in flight together
  MaxItems,     \* bound on the items of one scan
  MaxFound,     \* bound on the results of one discovery
  MaxFindings,  \* bound on search_results rows
  MaxRuns,      \* bound on monitoring_runs rows
  MaxRules      \* bound on monitoring_rules rows

VARIABLES
  findings,     \* search_results rows in commit order: key, provider, observation
                \* state, and as history the rows committed when the writer read
                \* them and the monitoring run that created the row (0 for discovery)
  runs,         \* monitoring_runs rows in commit order: the counts, the rule, and as
                \* history the keys of the items and the rows compared with them
  rules,        \* monitoring_rules rows in commit order: enabled, scheduled (whether
                \* next_run_at is set), the delta count, and as history the rules
                \* committed when the writer began
  req           \* what each session has read and not yet written

vars == <<findings, runs, rules, req>>

ASSUME BoundsAssumption ==
  /\ MaxItems \in Nat /\ MaxFound \in Nat /\ MaxFindings \in Nat /\ MaxRuns \in Nat
  /\ MaxRules \in Nat
  /\ {"MonitoringEngine", "GoogleCloudVisionWebDetection"} \cap Engines = {}
  /\ MockFindings \in Seq(Keys)

-----------------------------------------------------------------------------
ObservationState == {"NEW", "UNCHANGED", "REAPPEARED", "NOT_OBSERVED", "ACTIVE"}

\* The provider of every job of create_scan_job; run_scan_pipeline has no
\* provider of this name.
CaseScanner == "GoogleCloudVisionWebDetection"

SearchResult == [key : Keys, by : Engines \cup {"MonitoringEngine", CaseScanner},
                 state : ObservationState, seen : Nat, run : Nat]

MonitoringRun == [candidates : Nat, new : Nat, unchanged : Nat, notObserved : Nat,
                  reappeared : Nat, observed : SUBSET Keys, covered : SUBSET Nat,
                  rule : Nat, seen : Nat]

MonitoringRule == [enabled : BOOLEAN, scheduled : BOOLEAN, delta : Nat, seen : Nat]

Scans == UNION {[1..n -> Keys] : n \in 0..MaxItems}

\* What deduplicate_discovery_results returns: no URL twice.
Discoveries ==
  {s \in UNION {[1..n -> [key : Keys, by : Engines]] : n \in 1..MaxFound} :
     \A p, q \in DOMAIN s : s[p].key = s[q].key => p = q}

Idle == [op |-> "idle"]

\* The states of the rows that a session has loaded, by their numbers.
Loaded == UNION {[S -> ObservationState] : S \in SUBSET (1..MaxFindings)}

Scanning    == [op : {"scan"}, items : Scans, rule : Nat,
                was : [delta : Nat, seen : Nat], index : Loaded, seen : Nat, past : Nat]
Configuring == [op : {"configure"}, rule : Nat, enabled : BOOLEAN,
                was : [enabled : BOOLEAN, scheduled : BOOLEAN, seen : Nat]]
Discovering == [op : {"discover"}, found : Discoveries, index : Loaded, seen : Nat]

Rows   == DOMAIN findings
Max(S) == CHOOSE n \in S : \A m \in S : m <= n

\* The enumeration of a set of positions from the first to the last.
InOrder(S) ==
  {o \in [1..Cardinality(S) -> S] : \A a, b \in DOMAIN o : a < b => o[a] < o[b]}

\* A dict built from the rows of a query without ORDER BY keeps one row of every
\* identity, any of them.
OnePer(id) ==
  {S \in SUBSET DOMAIN id :
     /\ \A i \in DOMAIN id : \E j \in S : id[j] = id[i]
     /\ \A i, j \in S : id[i] = id[j] => i = j}

-----------------------------------------------------------------------------
Init ==
  /\ findings = <<>>
  /\ runs = <<>>
  /\ rules = <<>>
  /\ req = [r \in Requests |-> Idle]

KeyOf == [i \in Rows |-> findings[i].key]

\* The rules of the case that a request finds; more than one makes it fail.
TheRules == DOMAIN rules

NewRule(enabled, seen) ==
  [enabled |-> enabled, scheduled |-> enabled, delta |-> 0, seen |-> seen]

\* The rule as a session has loaded it or adds it (row 0).
RuleRow(i, enabled) ==
  IF i = 0 THEN NewRule(enabled, Len(rules)) ELSE rules[i]

\* Seeded fault: findings that were not observed are not compared.
BeginScanObserved(r, items, i) ==
  /\ req[r] = Idle
  /\ Len(runs) < MaxRuns
  /\ \E S \in OnePer(KeyOf) :
       req' = [req EXCEPT ![r] =
         [op |-> "scan", items |-> items, rule |-> i,
          was |-> [delta |-> RuleRow(i, TRUE).delta,
                   seen  |-> RuleRow(i, TRUE).seen],
          index |-> [n \in {m \in S : findings[m].state # "NOT_OBSERVED"} |->
                       findings[n].state],
          seen |-> Len(findings), past |-> Len(runs)]]
  /\ UNCHANGED <<findings, runs, rules>>

\* The scan loads its rule and the findings it compares its items with.  The
\* items come from its caller; the HTTP request and the RQ job pass none, and
\* the scan then has no items or, when a provider is configured, aborts: it asks
\* for provider_orchestrator.query_all, which does not exist.
BeginScan(r, items, i) ==
  /\ req[r] = Idle
  /\ Len(runs) < MaxRuns
  /\ \E S \in OnePer(KeyOf) :
       req' = [req EXCEPT ![r] =
         [op |-> "scan", items |-> items, rule |-> i,
          was |-> [delta |-> RuleRow(i, TRUE).delta,
                   seen  |-> RuleRow(i, TRUE).seen],
          index |-> [n \in S |-> findings[n].state],
          seen |-> Len(findings), past |-> Len(runs)]]
  /\ UNCHANGED <<findings, runs, rules>>

\* An analyst's scan is of the rule of the case; without one, the same
\* transaction adds a rule that is switched on.
TriggerScan(r, items) ==
  \/ TheRules = {} /\ BeginScan(r, items, 0)
  \/ \E i \in TheRules : TheRules = {i} /\ BeginScan(r, items, i)

\* The job of a worker is given the rule.
JobScan(r, items) == \E i \in DOMAIN rules : BeginScan(r, items, i)

-----------------------------------------------------------------------------
(* The delta model.  A scan classifies its items one after the other. *)

Indexed(q)   == {findings[i].key : i \in DOMAIN q.index}
Observed(q)  == {q.items[p] : p \in DOMAIN q.items}
Times(q, k)  == Cardinality({p \in DOMAIN q.items : q.items[p] = k})
Missing(q)   == {i \in DOMAIN q.index : q.index[i] = "NOT_OBSERVED"}
NewItems(q)  == {p \in DOMAIN q.items : q.items[p] \notin Indexed(q)}
NewCount(q)  == Cardinality(NewItems(q))

\* The state of an indexed row after all items: a second item with the key of a
\* row that has just reappeared makes it UNCHANGED.
Classified(q, i) ==
  CASE findings[i].key \notin Observed(q) -> "NOT_OBSERVED"
    [] i \in Missing(q) /\ Times(q, findings[i].key) = 1 -> "REAPPEARED"
    [] OTHER -> "UNCHANGED"

\* Seeded fault: no flag_modified for an unchanged finding, so that its changed
\* metadata is not written.
StoredUnflagged(q, i) ==
  IF i \in DOMAIN q.index /\ Classified(q, i) # "UNCHANGED"
  THEN Classified(q, i) ELSE findings[i].state

Stored(q, i) ==
  IF i \in DOMAIN q.index THEN Classified(q, i) ELSE findings[i].state

\* A finding for every item without an indexed row, even for a repeated one.
CreatedFindings(q, order) ==
  [n \in DOMAIN order |->
     [key |-> q.items[order[n]], by |-> "MonitoringEngine", state |-> "NEW",
      seen |-> q.seen, run |-> Len(runs) + 1]]

\* The rule of the scan: the one it was given or the one it adds.
ScannedRule(q) == IF q.rule = 0 THEN Len(rules) + 1 ELSE q.rule

RunOf(q) ==
  [candidates |-> Len(q.items), new |-> NewCount(q),
   unchanged |-> Cardinality({p \in DOMAIN q.items :
      \E i \in DOMAIN q.index :
        /\ findings[i].key = q.items[p]
        /\ i \in Missing(q) => \E m \in 1..(p - 1) : q.items[m] = q.items[p]}),
   notObserved |-> Cardinality(Indexed(q) \ Observed(q)),
   reappeared |-> Cardinality({i \in Missing(q) :
                                 findings[i].key \in Observed(q)}),
   observed |-> Observed(q), covered |-> DOMAIN q.index,
   rule |-> ScannedRule(q), seen |-> q.past]

\* A session writes a column only if it has changed what it had loaded.
Written(now, loaded, wanted) == IF wanted # loaded THEN wanted ELSE now

\* Seeded fault: a scan without news leaves the count of the scan before it.
ScannedIfNews(q, rule) ==
  [rule EXCEPT
     !.delta = Written(@, q.was.delta, IF NewItems(q) = {} THEN q.was.delta
                                   ELSE NewCount(q)),
     !.scheduled = TRUE]

\* The rule after the scan: its time of the next scan is a new value, and is set
\* even if the rule is switched off.
Scanned(q, rule) ==
  [rule EXCEPT !.delta = Written(@, q.was.delta, NewCount(q)),
               !.scheduled = TRUE]

CommitScan(r) ==
  LET q == req[r] IN
    /\ q.op = "scan"
    /\ Len(runs) < MaxRuns
    /\ Len(findings) + NewCount(q) <= MaxFindings
    /\ \E order \in InOrder(NewItems(q)) :
         findings' = [i \in Rows |-> [findings[i] EXCEPT !.state = Stored(q, i)]]
                       \o CreatedFindings(q, order)
    /\ runs' = Append(runs, RunOf(q))
    /\ IF q.rule = 0
         THEN /\ Len(rules) < MaxRules
              /\ rules' = Append(rules, Scanned(q, NewRule(TRUE, q.was.seen)))
         ELSE rules' = [rules EXCEPT ![q.rule] = Scanned(q, @)]
    /\ req' = [req EXCEPT ![r] = Idle]

-----------------------------------------------------------------------------
(* The switch of the rule. *)

\* A request that adds the rule of the case or changes the one it finds.
BeginConfigure(r, enabled) ==
  /\ req[r] = Idle
  /\ \E i \in TheRules \cup {0} :
       /\ IF i = 0 THEN TheRules = {} ELSE TheRules = {i}
       /\ req' = [req EXCEPT ![r] =
            [op |-> "configure", rule |-> i, enabled |-> enabled,
             was |-> [enabled   |-> RuleRow(i, enabled).enabled,
                      scheduled |-> RuleRow(i, enabled).scheduled,
                      seen      |-> RuleRow(i, enabled).seen]]]
  /\ UNCHANGED <<findings, runs, rules>>

\* Seeded fault: a rule that is switched off stays scheduled.
ConfiguredStillScheduled(q, rule) ==
  [rule EXCEPT
     !.enabled = Written(@, q.was.enabled, q.enabled),
     !.scheduled = Written(@, q.was.scheduled, q.was.scheduled \/ q.enabled)]

\* A rule that is switched on keeps the time of its next scan or gets one.
Configured(q, rule) ==
  [rule EXCEPT !.enabled = Written(@, q.was.enabled, q.enabled),
               !.scheduled = Written(@, q.was.scheduled, q.enabled)]

CommitConfigure(r) ==
  LET q == req[r] IN
    /\ q.op = "configure"
    /\ IF q.rule = 0
         THEN /\ Len(rules) < MaxRules
              /\ rules' = Append(rules, NewRule(q.enabled, q.was.seen))
         ELSE rules' = [rules EXCEPT ![q.rule] = Configured(q, @)]
    /\ req' = [req EXCEPT ![r] = Idle]
    /\ UNCHANGED <<findings, runs>>

-----------------------------------------------------------------------------
(* The other writers: the upsert of run_scan_pipeline, and execute_scan. *)

IdentityOf == [i \in Rows |-> <<findings[i].by, findings[i].key>>]

BeginDiscovery(r, found) ==
  /\ req[r] = Idle
  /\ \E S \in OnePer(IdentityOf) :
       req' = [req EXCEPT ![r] =
         [op |-> "discover", found |-> found,
          index |-> [i \in S |-> findings[i].state], seen |-> Len(findings)]]
  /\ UNCHANGED <<findings, runs, rules>>

Matched(q, d) ==
  {i \in DOMAIN q.index : findings[i].key = d.key /\ findings[i].by = d.by}

\* A known result gets the metadata of the provider, which has no observation
\* state; one that was loaded without any is written only if the provider's
\* metadata changed.  Other results become rows.
CommitDiscovery(r) ==
  LET q == req[r]
      hit == UNION {Matched(q, q.found[p]) : p \in DOMAIN q.found}
      fresh == {p \in DOMAIN q.found : Matched(q, q.found[p]) = {}}
  IN
    /\ q.op = "discover"
    /\ Len(findings) + Cardinality(fresh) <= MaxFindings
    /\ \E write \in SUBSET hit, order \in InOrder(fresh) :
         /\ \A i \in hit : q.index[i] # "ACTIVE" => i \in write
         /\ findings' =
              [i \in Rows |-> IF i \in write
                              THEN [findings[i] EXCEPT !.state = "ACTIVE"]
                              ELSE findings[i]]
              \o [n \in DOMAIN order |->
                    [key |-> q.found[order[n]].key, by |-> q.found[order[n]].by,
                     state |-> "ACTIVE", seen |-> q.seen, run |-> 0]]
    /\ req' = [req EXCEPT ![r] = Idle]
    /\ UNCHANGED <<runs, rules>>

\* The scan of a case: one transaction stores what its provider finds, which is
\* MockSearchProvider wherever the service is built, and looks at no row.  The
\* rows have no observation state.
CaseScan ==
  /\ Len(findings) + Len(MockFindings) <= MaxFindings
  /\ findings' = findings \o
       [n \in DOMAIN MockFindings |->
          [key |-> MockFindings[n], by |-> CaseScanner, state |-> "ACTIVE",
           seen |-> 0, run |-> 0]]
  /\ UNCHANGED <<runs, rules, req>>

\* An exception, a disconnect or a crash before the commit.
Abort(r) ==
  /\ req[r] # Idle
  /\ req' = [req EXCEPT ![r] = Idle]
  /\ UNCHANGED <<findings, runs, rules>>

Next ==
  \/ \E r \in Requests :
       \/ \E items \in Scans : TriggerScan(r, items) \/ JobScan(r, items)
       \/ \E enabled \in BOOLEAN : BeginConfigure(r, enabled)
       \/ CommitConfigure(r)
       \/ CommitScan(r)
       \/ \E found \in Discoveries : BeginDiscovery(r, found)
       \/ CommitDiscovery(r)
       \/ Abort(r)
  \/ CaseScan

Spec == Init /\ [][Next]_vars

-----------------------------------------------------------------------------
(* Properties. *)

\* Every variable stays in its range.
TypeOK ==
  /\ findings \in Seq(SearchResult) /\ Len(findings) <= MaxFindings
  /\ runs \in Seq(MonitoringRun)
  /\ rules \in Seq(MonitoringRule)
  /\ req \in [Requests -> {Idle} \cup Scanning \cup Configuring \cup Discovering]

\* A writer that compares with the findings duplicates one only by a race or
\* inside one scan: a monitoring scan adds a second row for a key only when the
\* first was committed after it read the findings, or in the same scan;
\* run_scan_pipeline only does so in a race, among the rows with the provider
\* string it reports.  The scan of a case has read nothing and stores its five
\* findings again and again; the other two duplicate them no more than their own.
DuplicatesExplained ==
  \A i, j \in Rows :
    (i < j /\ findings[i].key = findings[j].key) =>
      \/ findings[j].seen < i
      \/ findings[j].run # 0 /\ findings[i].run = findings[j].run
      \/ findings[j].run = 0 /\ findings[i].by # findings[j].by

CoveredBy(i) == {n \in DOMAIN runs : i \in runs[n].covered}

\* Whatever overlaps, the state of a finding is the verdict of the scan that
\* covered it last, unless discovery has erased it: NEW until the first one,
\* NOT_OBSERVED only if that scan did not see its key, and REAPPEARED only after
\* an earlier one had missed it.
StateReflectsLastScan ==
  \A i \in Rows :
    LET scans == CoveredBy(i)
        k     == findings[i].key
        s     == findings[i].state
    IN
      /\ s = "NEW" => scans = {}
      /\ s = "NOT_OBSERVED" =>
           scans # {} /\ k \notin runs[Max(scans)].observed
      /\ s \in {"UNCHANGED", "REAPPEARED"} =>
           scans # {} /\ k \in runs[Max(scans)].observed
      /\ s = "REAPPEARED" =>
           \E n \in scans : n < Max(scans) /\ k \notin runs[n].observed

\* A case has one rule, unless sessions that overlapped have each added theirs;
\* and the rule is scheduled exactly when it is switched on, however switches
\* overlap, until a scan of it is committed: that one sets the time of the next
\* whatever the switch says (create_or_update_rule, execute_monitoring_scan).
RulesExplained ==
  \A i \in DOMAIN rules :
    /\ \A j \in DOMAIN rules : rules[i].seen < j \/ i = j
    /\ rules[i].enabled # rules[i].scheduled =>
         \E n \in DOMAIN runs : runs[n].rule = i

RunsOf(i) == {n \in DOMAIN runs : runs[n].rule = i}

\* The counts of a run add up to its candidates, and its new_count is the number
\* of rows it created; the rule shows that of its last run, though a session
\* writes only what differs from what it had read, unless another scan of the
\* rule was committed while that one ran (get_investigation_monitoring_status).
CountsAddUp ==
  /\ \A n \in DOMAIN runs :
       /\ runs[n].candidates =
            runs[n].new + runs[n].unchanged + runs[n].reappeared
       /\ runs[n].new = Cardinality({i \in Rows : findings[i].run = n})
  /\ \A i \in DOMAIN rules :
       RunsOf(i) # {} =>
         LET n == Max(RunsOf(i)) IN
           \/ rules[i].delta = runs[n].new
           \/ \E m \in RunsOf(i) : runs[n].seen < m /\ m < n

=============================================================================
