------------------------------ MODULE Compliance ------------------------------
(***************************************************************************)
(* Compliance evidence and service levels (packages/verify/src/compliance  *)
(* and src/sla): each control of a framework asks for kinds of evidence,   *)
(* and a report evaluates them against a state bundle, or against none.    *)
(***************************************************************************)
EXTENDS StateBundle

Control(id, evidenceTypes, status) ==
    [controlId |-> id, evidenceTypes |-> evidenceTypes, status |-> status]

OrganisationCriteria ==
    <<Control("CC1.1", {"hash-chain", "audit-log"}, "implemented"),
      Control("CC1.2", {"multi-sig-governance", "audit-log"}, "implemented"),
      Control("CC2.1", {"reconciliation", "state-snapshot"}, "implemented"),
      Control("CC2.2", {"audit-log", "hash-chain"}, "implemented"),
      Control("CC3.1", {"reconciliation", "replay-verification"}, "implemented"),
      Control("CC3.4", {"consensus", "replay-verification"}, "implemented"),
      Control("CC4.1", {"replay-verification", "hash-chain"}, "implemented"),
      Control("CC4.2", {"reconciliation", "audit-log"}, "implemented"),
      Control("CC5.1", {"hash-chain", "replay-verification"}, "implemented"),
      Control("CC5.2", {"hash-chain", "merkle-proof"}, "implemented")>>

OperationsCriteria ==
    <<Control("CC6.1", {"audit-log"}, "implemented"),
      Control("CC6.3", {"multi-sig-governance", "audit-log"}, "implemented"),
      Control("CC7.1", {"audit-log", "state-snapshot"}, "implemented"),
      Control("CC7.2", {"hash-chain", "replay-verification"}, "implemented"),
      Control("CC8.1", {"multi-sig-governance", "hash-chain", "audit-log"}, "implemented"),
      Control("CC9.1", {"reconciliation", "state-snapshot"}, "implemented"),
      Control("PI1.1", {"replay-verification", "hash-chain", "merkle-proof"}, "implemented"),
      Control("PI1.2", {"reconciliation", "hash-chain", "consensus"}, "implemented"),
      Control("PI1.3", {"merkle-proof", "consensus", "replay-verification"}, "implemented"),
      Control("PI1.4", {"state-snapshot", "hash-chain", "replay-verification"}, "implemented")>>

SOC2_MAPPINGS == OrganisationCriteria \o OperationsCriteria

ISO27001_MAPPINGS ==
    <<Control("A.5.1", {"multi-sig-governance", "audit-log"}, "implemented"),
      Control("A.5.2", {"audit-log"}, "implemented"),
      Control("A.5.23", {"state-snapshot", "replay-verification"}, "implemented"),
      Control("A.8.1", {"audit-log"}, "implemented"),
      Control("A.8.9", {"multi-sig-governance", "hash-chain", "audit-log"}, "implemented"),
      Control("A.8.10", {"hash-chain"}, "not-applicable"),
      Control("A.8.24", {"hash-chain", "merkle-proof"}, "implemented"),
      Control("A.8.25", {"replay-verification"}, "implemented"),
      Control("A.8.15", {"hash-chain", "audit-log"}, "implemented"),
      Control("A.8.16", {"audit-log", "reconciliation"}, "implemented"),
      Control("A.8.17", {"hash-chain", "audit-log"}, "implemented"),
      Control("A.8.26", {"audit-log"}, "implemented"),
      Control("A.5.36", {"reconciliation", "replay-verification", "state-snapshot"}, "implemented"),
      Control("A.5.37", {"audit-log"}, "implemented")>>

FRAMEWORK_REGISTRY == [soc2 |-> SOC2_MAPPINGS, iso27001 |-> ISO27001_MAPPINGS]

-----------------------------------------------------------------------------
(* Evidence                                                                *)

Architectural == {"audit-log", "multi-sig-governance", "reconciliation", "consensus"}

bundleIsCorroborated(b) == b # Absent /\ bundleHashValid(b)

(* "verified", "asserted" (a claim about the architecture) or "failed".    *)
(* A bundle that createStateBundle made has a version and an export time.  *)
checkEvidence(type, b) ==
    LET verifiedIf(ok) == IF ok THEN "verified" ELSE "failed"
    IN  CASE type = "hash-chain" -> verifiedIf(b # Absent /\ bundleHashValid(b))
          [] type = "replay-verification" -> verifiedIf(b # Absent /\ globalHashValid(b))
          [] type = "state-snapshot" -> verifiedIf(b # Absent)
          [] type = "merkle-proof" -> verifiedIf(b # Absent /\ b.eventHashes # <<>>)
          [] type \in Architectural -> IF bundleIsCorroborated(b) THEN "asserted" ELSE "failed"

evaluateControl(control, b) ==
    LET kinds == {checkEvidence(type, b) : type \in control.evidenceTypes}
        passed == control.status = "not-applicable" \/ "failed" \notin kinds
    IN  [controlId |-> control.controlId, passed |-> passed,
         evidenceClass |-> IF ~passed THEN "failed"
                           ELSE IF "verified" \in kinds THEN "verified" ELSE "asserted"]

generateComplianceEvidence(mappings, b) ==
    LET evaluations == [k \in DOMAIN mappings |-> evaluateControl(mappings[k], b)]
        count(class) == Cardinality({k \in DOMAIN evaluations : evaluations[k].evidenceClass = class})
        passed == Cardinality({k \in DOMAIN evaluations : evaluations[k].passed})
        total == Len(mappings)
    IN  [totalControls |-> total, passedControls |-> passed,
         verifiedControls |-> count("verified"), assertedControls |-> count("asserted"),
         score |-> IF total = 0 THEN 0 ELSE (200 * passed + total) \div (2 * total)]

-----------------------------------------------------------------------------
(* Service levels: a metric that is absent or not finite fails       *)

CONSTANT NotFinite

compareThreshold(actual, operator, threshold) ==
    /\ actual # NotFinite /\ threshold # NotFinite
    /\ CASE operator = "lte" -> actual <= threshold
         [] operator = "gte" -> actual >= threshold
         [] operator = "lt" -> actual < threshold
         [] operator = "gt" -> actual > threshold
         [] operator = "eq" -> actual = threshold
         [] OTHER -> FALSE

evaluateTarget(target, metrics) ==
    /\ target.metric \in DOMAIN metrics
    /\ compareThreshold(metrics[target.metric], target.operator, target.threshold)

evaluateSla(targets, metrics) ==
    LET passed == {k \in DOMAIN targets : evaluateTarget(targets[k], metrics)}
    IN  [passedCount |-> Cardinality(passed), failedCount |-> Len(targets) - Cardinality(passed),
         verdict |-> IF passed = DOMAIN targets THEN "PASS" ELSE "FAIL"]
==============================================================================
