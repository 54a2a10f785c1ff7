----------------------------- MODULE PublicVerify -----------------------------
(***************************************************************************)
(* The board of the public verification API (packages/node/src/routes/     *)
(* public-verify.ts): verifiers submit reports, anyone reads the consensus. *)
(* A report is [reportId, verifierId, verdict, bundleHash].  The network   *)
(* may deliver any report of Submissions at any time, again and late.      *)
(***************************************************************************)
EXTENDS StateBundle

CONSTANTS Submissions, maxReports, minimumVerifiers

ASSUME BoardAssumption == maxReports \in Nat /\ minimumVerifiers \in Int

VARIABLES
    reports,    \* the array of the routes
    last        \* [verifier -> its report that was accepted last], a history variable

boardVars == <<reports, last>>

PUBLIC_MIN_VERIFIERS == 2

Verifiers == {r.verifierId : r \in Submissions}

BoardInit ==
    /\ reports = <<>>
    /\ last = [v \in Verifiers |-> Absent]

(* 409: the id is on the board, or the bundle is not the established one.  *)
Refused(r) ==
    \/ \E k \in DOMAIN reports : reports[k].reportId = r.reportId
    \/ reports # <<>> /\ reports[1].bundleHash # r.bundleHash

(* The verifier's report in place, or at the end with the oldest dropped.  *)
Stored(r) ==
    LET own == {k \in DOMAIN reports : reports[k].verifierId = r.verifierId}
        longer == Append(reports, r)
    IN  IF own # {} THEN [reports EXCEPT ![Min(own)] = r]
        ELSE SubSeq(longer, IF Len(longer) > maxReports THEN Len(longer) - maxReports + 1 ELSE 1,
                    Len(longer))

(* A second report of a verifier is added beside the first.                *)
SubmitReport_Appends ==
    \E r \in Submissions :
        IF Refused(r) \/ Len(reports) >= maxReports THEN UNCHANGED boardVars
        ELSE /\ reports' = Append(reports, r)
             /\ last' = [last EXCEPT ![r.verifierId] = r]

SubmitReport ==
    \E r \in Submissions :
        IF Refused(r) THEN UNCHANGED boardVars
        ELSE /\ reports' = Stored(r)
             /\ last' = [last EXCEPT ![r.verifierId] = r]

(* GET /consensus                                                          *)
publicConsensus ==
    aggregateVerifierReports(reports, Max({minimumVerifiers, PUBLIC_MIN_VERIFIERS}))

(* The public consensus is a PASS exactly when more than half of the       *)
(* verifiers on the board, and at least the required number of them, made  *)
(* a PASS their last accepted report, all about the bundle that was        *)
(* established first: neither replacements, duplicates and late deliveries *)
(* nor the drop of the oldest report bends the count.                      *)
ConsensusIsMajority ==
    LET onBoard == VerifiersOf(reports)
        passing == {v \in onBoard : last[v].verdict = "PASS"}
    IN  /\ publicConsensus.verdict = "PASS" <=>
             /\ 2 * Cardinality(passing) > Cardinality(onBoard)
             /\ Cardinality(onBoard) >= PUBLIC_MIN_VERIFIERS
             /\ Cardinality(onBoard) >= minimumVerifiers
        /\ \A v, w \in onBoard : last[v].bundleHash = last[w].bundleHash
        /\ ~publicConsensus.singleVerifierPass
==============================================================================
