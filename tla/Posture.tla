-------------------------------- MODULE Posture --------------------------------
(***************************************************************************)
(* services/posture.py: the score of a capture, from the findings of its   *)
(* mail streams.  Findings come in the order of the streams; a finding     *)
(* names its rule and its status.                                          *)
(***************************************************************************)
EXTENDS Integers, FiniteSetsExt, SequencesExt

\* rules/posture_rules.json: what a broken rule costs.
Penalties ==
    [cost \in {2, 3, 5, 10, 15} |->
        CASE cost = 15 -> {"RULE-TLS-001", "RULE-CIPHER-001"}
          [] cost = 10 -> {"RULE-REVOC-001", "RULE-PLAINTEXT-001", "RULE-STARTTLS-002"}
          [] cost = 5  -> {"RULE-CERT-001", "RULE-CERT-003", "RULE-TRUST-001"}
          [] cost = 3  -> {"RULE-CIPHER-002", "RULE-CERT-004", "RULE-KEX-002"}
          [] cost = 2  -> {"RULE-TLS-002", "RULE-CIPHER-003", "RULE-CIPHER-004",
                           "RULE-CIPHER-UNKNOWN", "RULE-KEX-001", "RULE-CERT-002",
                           "RULE-PKI-001", "RULE-IDENTITY-001"}]

Catalog == UNION {Penalties[cost] : cost \in DOMAIN Penalties}
Penalty(rule) == CHOOSE cost \in DOMAIN Penalties : rule \in Penalties[cost]

Severities == <<"LOW", "MEDIUM", "HIGH", "CRITICAL">>
Rank(severity) == CHOOSE i \in 1 .. 4 : Severities[i] = severity

\* The catalog's severity of a rule goes with its penalty.
SeverityOf(rule) ==
    LET cost == Penalty(rule)
    IN  CASE cost = 15 -> "CRITICAL" [] cost = 10 -> "HIGH" [] cost = 5 -> "MEDIUM"
          [] OTHER -> "LOW"

CalculateSeverity(score) ==
    CASE score >= 80 -> "LOW" [] score \in 60 .. 79 -> "MEDIUM"
      [] score \in 30 .. 59 -> "HIGH" [] score < 30 -> "CRITICAL"

Fails(finding) == finding.status = "NON_COMPLIANT" /\ finding.rule \in Catalog

Failing(findings) == {f.rule : f \in {g \in findings : Fails(g)}}

\* Mutant: what was charged before is forgotten.
MutantChargeStream(deductions, s) ==
    deductions \cup {[rule |-> rule, stream |-> s.stream] : rule \in Failing(s.findings)}

\* The loop comes to the findings of one more stream: the rules that fail and were not
\* charged before.
ChargeStream(deductions, s) ==
    deductions \cup {[rule |-> rule, stream |-> s.stream] :
                         rule \in Failing(s.findings) \ {d.rule : d \in deductions}}

Deductions(found) ==
    FoldLeft(ChargeStream, {}, [i \in DOMAIN found |-> [stream |-> i, findings |-> found[i]]])

CanonicalSeverity(score, deductions) ==
    Severities[Max({Rank(CalculateSeverity(score))}
                      \cup {Rank(SeverityOf(d.rule)) : d \in deductions})]

\* How many findings there are of a status; NOT_APPLICABLE contains neither word and is
\* counted as unknown.
CountOf(found, statuses) ==
    MapThenSumSet(LAMBDA i : Cardinality({f \in found[i] : f.status \in statuses}), DOMAIN found)

EvaluatePosture(found) ==
    LET deductions == Deductions(found)
        score == Max({0, 100 - MapThenSumSet(LAMBDA d : Penalty(d.rule), deductions)})
    IN  [applicable |-> TRUE, deductions |-> deductions, posture_score |-> score,
         severity |-> CanonicalSeverity(score, deductions),
         compliant |-> CountOf(found, {"COMPLIANT"}),
         non_compliant |-> CountOf(found, {"NON_COMPLIANT"}),
         unknown |-> CountOf(found, {"UNKNOWN", "NOT_APPLICABLE"})]

NotApplicable ==
    [applicable |-> FALSE, deductions |-> {}, posture_score |-> -1, severity |-> "none",
     compliant |-> 0, non_compliant |-> 0, unknown |-> 0]
===============================================================================
