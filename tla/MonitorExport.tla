--------------------------- MODULE MonitorExport ----------------------------
(***************************************************************************)
(* A monitoring run whose report is exported as it stands, at any moment.  *)
(***************************************************************************)
EXTENDS Monitor, Export

CONSTANTS SarifMax,   \* the cap of a SARIF log, 25000 in the code
          Server,     \* the servers a report can be about
          Fleets      \* fleets, as sequences of their servers

(* A call marker has no capability, so no policy judges it (diff.py).      *)
ASSUME ExportAssumption ==
    /\ SarifMax \in Nat /\ Fleets \subseteq Seq(Server)
    /\ \A b \in Behaviour : KindOf[b] = "mcp.call" => Verdict[b] = "within_policy"

-----------------------------------------------------------------------------
(* Properties of what is exported of a run.                                *)

(* What a fleet exports in which every server did the same as this one.    *)
Exported == {[i \in DOMAIN f |-> [server |-> f[i], entries |-> report]] : f \in Fleets}

IsFaithful(log, rows) ==
    LET n == Len(log.results) IN
    /\ n = IF Len(rows) > SarifMax THEN SarifMax ELSE Len(rows)
    /\ log.truncated = Len(rows) - n
    /\ \A i \in 1..n :
          /\ log.rules[log.results[i].ruleIndex] = RuleOf(rows[i])
          /\ log.results[i].fingerprint = violation_identity(rows[i])
    /\ IsInjective(log.rules)
    /\ {log.results[i].ruleIndex : i \in 1..n} = DOMAIN log.rules

(* A SARIF log says what it leaves out and nothing else: its results are   *)
(* the first notable events, at most as many as GitHub takes, the rest is  *)
(* counted; every result points at the rule of its own class and kind, and *)
(* no rule is listed twice or without a result, whatever was cut off       *)
(* (export.py, the guard before the rule is built).                        *)
SarifIsFaithful ==
    \A reports \in Exported, wm \in BOOLEAN :
      IsFaithful(to_sarif(reports, wm, SarifMax), notable_rows(reports, wm))

(* What the event a SIEM row spells out would be fingerprinted by.         *)
Told(fed) == [server |-> fed.server, class |-> fed.rule.class,
              kind |-> fed.rule.kind, target |-> TargetOf[fed.what]]

OneStory(log, siem, sev) ==
    LET n == Len(log.results) IN
    /\ Len(siem) = n + log.truncated
    /\ \A i \in 1..n : /\ Told(siem[i]) = log.results[i].fingerprint
                       /\ siem[i].rule = log.rules[log.results[i].ruleIndex]
                       /\ siem[i].alert <=> log.results[i].level = "error"
    /\ sev = "critical" <=> \E i \in DOMAIN siem : siem[i].alert
    /\ sev = "info" <=> siem = << >>
    /\ sev = "critical" /\ log.truncated = 0 => \E i \in 1..n : log.results[i].level = "error"

(* The two feeds and the severity tell one story: the SIEM rows are the    *)
(* SARIF results in the same order, as far as the log goes, although one   *)
(* feed goes by the class and the other skips call markers by their kind:  *)
(* a row names the rule its result points at, and its server, verdict,     *)
(* kind and event are those the result's fingerprint is made of.  A        *)
(* critical report raises an alert in the SIEM and, unless the log is cut, *)
(* an error in SARIF (export.py, to_siem_json, to_sarif).                  *)
FeedsAgree ==
    \A reports \in Exported :
      OneStory(to_sarif(reports, TRUE, SarifMax), to_siem(reports, FALSE), severity(reports))
=============================================================================
