------------------------------- MODULE Export -------------------------------
(***************************************************************************)
(* What leaves the monitor: the SARIF log and the SIEM rows made of a      *)
(* sequence of reports (report/export.py), and the severity that the       *)
(* models and the fleet report give them.  A report is the server it is    *)
(* about and its classified entries; wording and layout are left out, so a *)
(* result is its rule, its level and the fingerprint that makes it the     *)
(* same alert in the next run.                                             *)
(***************************************************************************)
EXTENDS Naturals, SequencesExt, Lists

CONSTANTS KindOf,     \* behaviour -> the kind of the event that reports it
          TargetOf    \* behaviour -> its target (event_target)

(* The events of all reports, in report order and then in event order.     *)
Rows(reports) ==
    FlattenSeq([r \in DOMAIN reports |->
        [i \in DOMAIN reports[r].entries |->
            [server |-> reports[r].server,
             what   |-> reports[r].entries[i].event.what,
             class  |-> reports[r].entries[i].class]]])

RuleOf(row) == [class |-> row.class, kind |-> KindOf[row.what]]

level(class) == IF class = "outside_contract" THEN "error" ELSE "note"

(* Neither the time nor the manifest nor the tool context is part of it.   *)
violation_identity(row) ==
    [server |-> row.server, class |-> row.class,
     kind |-> KindOf[row.what], target |-> TargetOf[row.what]]

-----------------------------------------------------------------------------
(* SARIF: one result per notable event up to the cap, a rule for each pair *)
(* of class and kind in the order they are first seen.                     *)

Notable(row, with_manifest) ==
    \/ row.class = "outside_contract"
    \/ row.class = "within_manifest" /\ with_manifest

WithRule(rules, rule) == IF rule \in ToSet(rules) THEN rules ELSE Append(rules, rule)

build_result(row, rules) ==
    [ruleIndex   |-> CHOOSE i \in DOMAIN rules : rules[i] = RuleOf(row),
     level       |-> level(row.class),
     fingerprint |-> violation_identity(row)]

(* Mutant: the rule is built before the cap is looked at.                  *)
AddResultRuleFirst(log, row, max) ==
    LET rules == WithRule(log.rules, RuleOf(row)) IN
    IF Len(log.results) >= max
      THEN [log EXCEPT !.truncated = @ + 1, !.rules = rules]
      ELSE [log EXCEPT !.rules = rules, !.results = Append(@, build_result(row, rules))]

AddResult(log, row, max) ==
    LET rules == WithRule(log.rules, RuleOf(row)) IN
    IF Len(log.results) >= max
      THEN [log EXCEPT !.truncated = @ + 1]
      ELSE [log EXCEPT !.rules = rules, !.results = Append(@, build_result(row, rules))]

notable_rows(reports, with_manifest) ==
    LET rows == Rows(reports) IN
    Picked(rows, {i \in DOMAIN rows : Notable(rows[i], with_manifest)})

sarif_log(rows, max) ==
    LET log[k \in 0..Len(rows)] ==
          IF k = 0 THEN [rules |-> << >>, results |-> << >>, truncated |-> 0]
          ELSE AddResult(log[k - 1], rows[k], max)
    IN  log[Len(rows)]

to_sarif(reports, with_manifest, max) == sarif_log(notable_rows(reports, with_manifest), max)

-----------------------------------------------------------------------------
(* SIEM: one row per event that is no call marker, policy-conforming ones  *)
(* only on demand.  A row has no fingerprint: it names its rule and spells *)
(* out the event (reason and observables), whose data stay abstract here.  *)

siem_row(row) ==
    [alert  |-> row.class = "outside_contract",
     server |-> row.server,
     rule   |-> RuleOf(row),
     what   |-> row.what]

(* Mutant: what the policy grants is fed as well.                          *)
FedAlways(row, with_policy) == KindOf[row.what] # "mcp.call"

Fed(row, with_policy) ==
    /\ KindOf[row.what] # "mcp.call"
    /\ row.class = "within_policy" => with_policy

to_siem(reports, with_policy) ==
    LET rows == Rows(reports)
        fed  == Picked(rows, {i \in DOMAIN rows : Fed(rows[i], with_policy)})
    IN  [i \in DOMAIN fed |-> siem_row(fed[i])]

-----------------------------------------------------------------------------
(* The counts of the reports and the severity drawn from them.             *)

counts(reports) ==
    LET rows == Rows(reports) IN
    [c \in {"within_policy", "within_manifest", "outside_contract"} |->
        Cardinality({i \in DOMAIN rows : rows[i].class = c})]

severity(reports) ==
    CASE counts(reports)["outside_contract"] > 0 -> "critical"
      [] /\ counts(reports)["outside_contract"] = 0
         /\ counts(reports)["within_manifest"] > 0 -> "warning"
      [] OTHER -> "info"
=============================================================================
