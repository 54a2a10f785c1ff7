----------------------------- MODULE StateBundle -----------------------------
(***************************************************************************)
(* State bundles and their verification (packages/verify/src): the global  *)
(* state hash, the export and its integrity check, replay, the verifier    *)
(* node and the aggregation of verifier reports, compliance evidence and   *)
(* service levels.                                                         *)
(*                                                                         *)
(* A SHA-256 digest is the tagged value it was computed from: digests are  *)
(* equal exactly when their inputs are.  A ledger snapshot is Ledger's,    *)
(* without createdAt, the field the hash leaves out.  A registrum snapshot *)
(* is [mode, sound, states]; sound says that it passes validation under    *)
(* the invariants of this build.                                           *)
(***************************************************************************)
EXTENDS Ledger, FiniteSets

CONSTANT Absent

Digest(tag, x) == <<tag, x>>

hashLedgerSnapshot(ledger) == Digest("ledger", ledger)
hashRegistrumSnapshot(registrum) == Digest("registrum", registrum)

(* A missing and an empty record of chain hashes are the same thing.       *)
NoChains == [c \in {} |-> Absent]

subsystemsOf(ledger, registrum, chains) ==
    [ledger |-> hashLedgerSnapshot(ledger), registrum |-> hashRegistrumSnapshot(registrum),
     chains |-> chains]

computeGlobalStateHash(ledger, registrum, chains) ==
    LET subsystems == subsystemsOf(ledger, registrum, chains)
    IN  [hash |-> Digest("global", subsystems), subsystems |-> subsystems]

(* The event hashes are left out.                                          *)
computeBundleHash_NoEvents(globalHash, eventHashes, chains) ==
    Digest("bundle", <<globalHash, chains>>)

computeBundleHash(globalHash, eventHashes, chains) ==
    Digest("bundle", <<globalHash, eventHashes, chains>>)

createStateBundle(ledger, registrum, eventHashes, chains) ==
    LET global == computeGlobalStateHash(ledger, registrum, chains)
    IN  [ledgerSnapshot |-> ledger, registrumSnapshot |-> registrum,
         globalStateHash |-> global, eventHashes |-> eventHashes, chainHashes |-> chains,
         bundleHash |-> computeBundleHash(global.hash, eventHashes, chains)]

Recomputed(b) == computeGlobalStateHash(b.ledgerSnapshot, b.registrumSnapshot, b.chainHashes)

bundleHashValid(b) ==
    b.bundleHash = computeBundleHash(b.globalStateHash.hash, b.eventHashes, b.chainHashes)

globalHashValid(b) == b.globalStateHash.hash = Recomputed(b).hash

subsystemsMatch(b) ==
    /\ b.globalStateHash.subsystems.ledger = hashLedgerSnapshot(b.ledgerSnapshot)
    /\ b.globalStateHash.subsystems.registrum = hashRegistrumSnapshot(b.registrumSnapshot)

verifyBundleIntegrity(b) == bundleHashValid(b) /\ globalHashValid(b) /\ subsystemsMatch(b)

-----------------------------------------------------------------------------
(* verifyByReplay: rebuild both subsystems from their snapshots, hash again *)

(* fromSnapshot throws: the registrar is given no compiled registry, so    *)
(* only a sound legacy snapshot comes back.                                *)
ReplayThrows(ledger, registrum) ==
    \/ ~Restorable(ledger)
    \/ ~registrum.sound \/ registrum.mode # "legacy"

(* expected is Absent where the caller has no hash to compare with.          *)
verifyByReplay(ledger, registrum, expected) ==
    LET original == computeGlobalStateHash(ledger, registrum, NoChains)
        replayed == computeGlobalStateHash(snapshotOf(fromSnapshot(ledger)), registrum, NoChains)
    IN  IF ReplayThrows(ledger, registrum) THEN "throws"
        ELSE IF /\ original.hash = replayed.hash
                /\ expected # Absent => original.hash = expected
             THEN "PASS" ELSE "FAIL"

verifyHash(ledger, registrum, expected) ==
    IF computeGlobalStateHash(ledger, registrum, NoChains).hash = expected THEN "PASS" ELSE "FAIL"

(* runVerification: strict mode wants chain hashes among the subsystems    *)
(* the bundle claims.                                                      *)
runVerification(b, strictMode) ==
    LET replay == verifyByReplay(b.ledgerSnapshot, b.registrumSnapshot, Absent)
    IN  IF replay = "throws" THEN "throws"
        ELSE IF /\ verifyBundleIntegrity(b)
                /\ replay = "PASS"
                /\ subsystemsMatch(b) /\ globalHashValid(b)
                /\ strictMode => b.globalStateHash.subsystems.chains # NoChains
             THEN "PASS" ELSE "FAIL"

-----------------------------------------------------------------------------
(* aggregateVerifierReports                                                *)

VerifiersOf(reports) == {reports[k].verifierId : k \in DOMAIN reports}

(* A verifier whose reports disagree votes FAIL; the bundle of a vote is   *)
(* the one of the verifier's first report.                                 *)
voteOf(reports, v) ==
    LET own == Select(reports, {r \in ToSet(reports) : r.verifierId = v})
        conflicted == \E k \in DOMAIN own : \/ own[k].verdict # own[1].verdict
                                            \/ own[k].bundleHash # own[1].bundleHash
    IN  [verdict |-> IF conflicted THEN "FAIL" ELSE own[1].verdict,
         bundleHash |-> own[1].bundleHash]

Passing(reports) == {v \in VerifiersOf(reports) : voteOf(reports, v).verdict = "PASS"}

aggregateVerifierReports(reports, minimumVerifiers) ==
    LET verifiers == VerifiersOf(reports)
        total == Cardinality(verifiers)
        bundleAgreement ==
            Cardinality({voteOf(reports, v).bundleHash : v \in verifiers}) <= 1
        verdict == IF /\ total > 0 /\ total >= minimumVerifiers /\ bundleAgreement
                      /\ 2 * Cardinality(Passing(reports)) > total
                   THEN "PASS" ELSE "FAIL"
    IN  [verdict |-> verdict,
         dissenters |-> {v \in verifiers : voteOf(reports, v).verdict # verdict},
         singleVerifierPass |-> verdict = "PASS" /\ minimumVerifiers <= 1]
==============================================================================
