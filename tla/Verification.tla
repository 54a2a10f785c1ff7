----------------------------- MODULE Verification -----------------------------
(***************************************************************************)
(* The auditor's desk: the operations of the reconciler, verify and proof  *)
(* packages, pure functions of their arguments, one action each, and what  *)
(* their answers mean, stated without the code's way of computing them.    *)
(* The arguments range over the constants below.                           *)
(***************************************************************************)
EXTENDS CrossChain, Compliance, MerkleProof

CONSTANTS
    Ledgers,          \* [intents, entries, events, scope] to reconcile
    EventLists,       \* events to deduplicate across chains
    Bundles,          \* bundles handed to a verifier
    Audits,           \* [events, contiguity] for the cross-chain invariants
    Histories,        \* lists of chain events to replay
    Records,          \* lists of attestations
    Packages,         \* [records, pkg]: a package and the list it claims to be from
    ReportLists,      \* lists of verifier reports
    Services          \* [targets, metrics]

ASSUME RecordsAssumption == \A r \in Records : r \in Seq(Range(r))

(* The steps of a package's proof are a list; what they hold may be        *)
(* anything.                                                               *)
ASSUME PackagesAssumption ==
    \A g \in Packages :
        /\ g.records \in Records
        /\ g.pkg.inclusionProof.siblings \in Seq(Range(g.pkg.inclusionProof.siblings))

ASSUME ReportsAssumption == \A r \in ReportLists : r \in Seq(ToSet(r))

(* The shape that the types of StateBundle give; what the fields hold may  *)
(* be anything.                                                            *)
ASSUME BundlesAssumption ==
    \A b \in Bundles :
        LET global == b.globalStateHash
            entries == b.ledgerSnapshot.entries
        IN  /\ b = [ledgerSnapshot |-> [accounts |-> b.ledgerSnapshot.accounts, entries |-> entries],
                    registrumSnapshot |-> b.registrumSnapshot,
                    globalStateHash |-> [hash |-> global.hash,
                        subsystems |-> [ledger |-> global.subsystems.ledger,
                                        registrum |-> global.subsystems.registrum,
                                        chains |-> global.subsystems.chains]],
                    eventHashes |-> b.eventHashes, chainHashes |-> b.chainHashes,
                    bundleHash |-> b.bundleHash]
            /\ entries \in Seq(ToSet(entries)) /\ IsFiniteSet(b.ledgerSnapshot.accounts)
            /\ \A e \in ToSet(entries) : e.scaled \in Int /\ e.decimals \in Int
            /\ b.registrumSnapshot.sound \in BOOLEAN

VARIABLES
    task,             \* [op, given], the call in progress
    verdict           \* what it returned

deskVars == <<task, verdict>>

NoTask == [op |-> "none", given |-> <<>>]

DeskInit == task = NoTask /\ verdict = <<>>

Called(op, given, answer) ==
    /\ task' = [op |-> op, given |-> given]
    /\ verdict' = answer

Reconcile == \E g \in Ledgers : Called("reconcile", g, reconcile(g))

MatchMultiChain ==
    \E events \in EventLists :
        Called("dedupe", events, [kept |-> dedupedEvents(events), removed |-> removedEvents(events),
                                  links |-> linkCrossChainEvents(events)])

Verify ==
    \E b \in Bundles, strictMode \in BOOLEAN :
        Called("verify", [b |-> b, strictMode |-> strictMode],
               [answer |-> runVerification(b, strictMode),
                hash |-> verifyHash(b.ledgerSnapshot, b.registrumSnapshot, b.globalStateHash.hash)])

Comply ==
    \E b \in Bundles \cup {Absent}, f \in DOMAIN FRAMEWORK_REGISTRY :
        Called("comply", b, generateComplianceEvidence(FRAMEWORK_REGISTRY[f], b))

Audit == \E g \in Audits : Called("audit", g, auditCrossChainInvariants(g.events, g.contiguity))

Replay ==
    \E e1, e2 \in Histories, chains \in SUBSET {e.chain : e \in UNION {Range(h) : h \in Histories}},
       contiguous \in BOOLEAN :
        Called("replay", [events |-> e1, other |-> e2, chains |-> chains, contiguous |-> contiguous],
               auditMultiChainReplay(e1, computeCombinedHash(e2), chains, contiguous))

Prove ==
    \E r \in Records, id \in {a.id : a \in UNION {Range(s) : s \in Records}} :
        Called("prove", [records |-> r, id |-> id], proofOfAttestation(r, id))

CheckPackage ==
    \E g \in Packages : Called("package", g, verifyAttestationProof(g.pkg))

Aggregate ==
    \E r \in ReportLists, min \in 1..2 :
        Called("aggregate", [reports |-> r, min |-> min],
               aggregateVerifierReports(r, min))

EvaluateSla == \E g \in Services : Called("sla", g, evaluateSla(g.targets, g.metrics))

Return == task # NoTask /\ task' = NoTask /\ verdict' = <<>>

DeskNext ==
    \/ /\ task = NoTask
       /\ \/ Reconcile \/ MatchMultiChain \/ Verify \/ Comply \/ Audit \/ Replay
          \/ Prove \/ CheckPackage \/ Aggregate \/ EvaluateSla
    \/ Return

-----------------------------------------------------------------------------
(* What the answers mean                                                   *)

(* Decimals of the smallest unit that the instances use.                   *)
Units == 2
Worth(a) == Scaled(a, Units)

TotalOf(s, K, c) == MapThenSumSet(LAMBDA k : IF s[k].amount.cur = c THEN Worth(s[k].amount) ELSE 0, K)

CurrenciesOf(g) ==
    {g.intents[k].amount.cur : k \in DOMAIN g.intents} \cup {g.entries[k].amount.cur : k \in DOMAIN g.entries}
        \cup {g.events[k].amount.cur : k \in DOMAIN g.events}

(* Different entries have different ids, as in a ledger.                   *)
DistinctIds(s) == \A j, k \in DOMAIN s : s[j].id = s[k].id => s[j] = s[k]

OnePerTx(s) == \A j, k \in DOMAIN s : s[j].tx = s[k].tx /\ s[j].tx # None => j = k

(* The scope leaves nothing out.                                           *)
InScope(g) ==
    /\ filterIntents(g.intents, g.scope) = g.intents
    /\ filterEntries(g.entries, g.scope) = g.entries
    /\ filterEvents(g.events, g.scope) = g.events

(* A clean report is conservation: with every intent done, no transaction  *)
(* shared by two intents, one event in each and no entry id used twice,    *)
(* the amounts of the intents, the debits of the ledger and the amounts    *)
(* seen on chain agree in every currency, whatever decimals each side      *)
(* counts in.                                                              *)
CleanBooksConserve ==
    LET g == task.given
        onChain == {k \in DOMAIN g.intents : g.intents[k].tx # None}
    IN  task.op = "reconcile" /\ verdict.allReconciled /\ InScope(g)
            /\ OnePerTx(g.intents) /\ OnePerTx(g.events) /\ DistinctIds(g.entries)
            /\ (\A k \in DOMAIN g.intents : g.intents[k].status = "executed")
        => \A c \in CurrenciesOf(g) :
              /\ TotalOf(g.intents, DOMAIN g.intents, c) =
                   TotalOf(g.entries, {k \in DOMAIN g.entries :
                              g.entries[k].type = "debit" /\ g.entries[k].intent # None}, c)
              /\ TotalOf(g.intents, onChain, c) = TotalOf(g.events, DOMAIN g.events, c)

(* Deduplication across chains removes the settlement of a transfer on an  *)
(* L1 and nothing else: where transactions are distinct, an event goes     *)
(* exactly when its transfer was also seen on an L2 that settles there,    *)
(* and that L2 event stays.                                                *)
DedupeKeepsTheTransfer ==
    LET events == task.given
        settlesAt(k) == {n \in DOMAIN events :
                            /\ SameTransfer(events[n], events[k])
                            /\ <<events[n].chain, events[k].chain>> \in
                                 {<<c, settlementPairs[c]>> : c \in DOMAIN settlementPairs}}
    IN  task.op = "dedupe" /\ OnePerTx(events) =>
          /\ \A k \in DOMAIN events :
               /\ events[k] \in Range(verdict.removed) <=> settlesAt(k) # {}
               /\ events[k] \in Range(verdict.kept) <=> settlesAt(k) = {}
               /\ \A n \in settlesAt(k) : events[n] \in Range(verdict.kept)
          /\ \A l \in verdict.links : events[l.source].chain # events[l.dest].chain

(* Some correlation id is used again after another one.                    *)
ResumesCorrelation(ledger) ==
    \E i, j, k \in DOMAIN ledger.entries :
        /\ i < j /\ j < k
        /\ ledger.entries[i].correlationId = ledger.entries[k].correlationId
        /\ ledger.entries[i].correlationId # ledger.entries[j].correlationId

(* The entries keep the ledger's rules, those of a correlation id taken    *)
(* together.                                                               *)
WellKept(ledger) ==
    LET es == ledger.entries
    IN  /\ \A i \in DOMAIN es : es[i].accountId \in ledger.accounts /\ es[i].scaled > 0 /\ es[i].decimals >= 0
        /\ \A i, j \in DOMAIN es : es[i].id = es[j].id => i = j
        /\ \A i \in DOMAIN es : _assertBalanced(Group(es, es[i].correlationId))

Honest(b) ==
    b = createStateBundle(b.ledgerSnapshot, b.registrumSnapshot, b.eventHashes, b.chainHashes)

(* A verifier passes a bundle exactly when every hash in it is the one its *)
(* contents give and the state can be rebuilt in the same order: a bundle  *)
(* put together from parts of others never passes, an honest one of a      *)
(* well-kept ledger passes unless a correlation id is resumed, whose       *)
(* entries replay moves; and two bundles that pass with one bundle hash    *)
(* hold the same state.  Only the chain hashes a bundle lists among its    *)
(* subsystems are not bound.                                               *)
PassBindsState ==
    LET b == task.given.b
        chains == b.globalStateHash.subsystems.chains
        bound == [b EXCEPT !.globalStateHash.subsystems.chains = b.chainHashes]
    IN  task.op = "verify" =>
          /\ (verdict.answer = "PASS" <=>
                /\ Honest(bound) /\ b.registrumSnapshot.mode = "legacy" /\ b.registrumSnapshot.sound
                /\ WellKept(b.ledgerSnapshot) /\ ~ResumesCorrelation(b.ledgerSnapshot)
                /\ task.given.strictMode => chains # NoChains)
          /\ (verdict.answer = "PASS" => \A o \in Bundles :
                runVerification(o, FALSE) = "PASS" /\ o.bundleHash = b.bundleHash =>
                    /\ o.ledgerSnapshot = b.ledgerSnapshot /\ o.eventHashes = b.eventHashes
                    /\ o.registrumSnapshot = b.registrumSnapshot /\ o.chainHashes = b.chainHashes)

(* A compliance report gives full marks only to a bundle whose contents    *)
(* match its hashes; without a bundle only a control that does not apply   *)
(* passes, and nothing is called verified.                                 *)
FullMarksBindState ==
    LET b == task.given
    IN  task.op = "comply" =>
          /\ (verdict.score = 100 /\ b # Absent => bundleHashValid(b) /\ globalHashValid(b))
          /\ (b = Absent => verdict.passedControls <= 1 /\ verdict.verifiedControls = 0)
          /\ verdict.passedControls = verdict.verifiedControls + verdict.assertedControls

(* An audit that holds means conservation and order: per symbol as much    *)
(* came in as went out, in one decimal scale; no event is settled by two   *)
(* that have ids; on a chain, order by sequence is order in time; no       *)
(* signer is active twice.  The events need not be given in order.         *)
AuditMeansConserved ==
    LET events == task.given.events
        bridged == {k \in DOMAIN events : events[k].type \in {"bridge_out", "bridge_in"}}
        flow(type, x) ==
            MapThenSumSet(LAMBDA k : events[k].amount.raw * 10^(Units - events[k].amount.dec),
                          {k \in bridged : events[k].type = type /\ events[k].symbol = x})
    IN  task.op = "audit" /\ verdict =>
          /\ \A k \in bridged : /\ events[k].amount # Garbage
                                /\ flow("bridge_out", events[k].symbol) = flow("bridge_in", events[k].symbol)
          /\ \A j, k \in bridged :
               events[j].symbol = events[k].symbol => events[j].decimals = events[k].decimals
          /\ \A j, k \in DOMAIN events : events[j].chain = events[k].chain /\ j # k =>
               /\ events[j].seq # events[k].seq
               /\ events[j].seq < events[k].seq => events[j].at <= events[k].at
          /\ \A j, k \in {n \in DOMAIN events : events[n].type = "settlement"} :
               events[j].linked = events[k].linked /\ "" \notin {events[j].id, events[k].id} => j = k
          /\ \A j, k \in DOMAIN events :
               events[j].type = "signer_added" /\ events[k].type = "signer_added"
                 /\ events[j].signer = events[k].signer /\ events[j].seq < events[k].seq =>
               \E n \in DOMAIN events : /\ events[n].type = "signer_removed"
                                        /\ events[n].signer = events[j].signer
                                        /\ events[n].seq \in events[j].seq..events[k].seq

WithoutTimes(events, c) ==
    LET sorted == bySequence(OfChain(events, c))
    IN  [k \in DOMAIN sorted |-> <<sorted[k].hash, sorted[k].seq, sorted[k].data>>]

(* A replay matches an expected combined hash exactly when every chain has *)
(* the same events in the same sequence order, however the chains were     *)
(* interleaved on arrival; a chain that is expected and dark, and a gap    *)
(* when gaps are refused, fail it.                                         *)
ReplayHashBinds ==
    LET g == task.given
    IN  task.op = "replay" =>
          (verdict <=>
             /\ ChainsOf(g.events) = ChainsOf(g.other) /\ g.chains \subseteq ChainsOf(g.events)
             /\ \A c \in ChainsOf(g.events) : WithoutTimes(g.events, c) = WithoutTimes(g.other, c)
             /\ g.contiguous => \A j, k \in DOMAIN g.events :
                  g.events[j].chain = g.events[k].chain => \A n \in g.events[j].seq..g.events[k].seq :
                      \E m \in DOMAIN g.events : g.events[m].chain = g.events[j].chain /\ g.events[m].seq = n)

(* Every recorded attestation has a package that verifies, and a package   *)
(* that verifies against the root of a list carries an attestation of that *)
(* list, whatever its parts were taken from.                               *)
ProofIsSound ==
    /\ task.op = "prove" =>
         LET ids == {a.id : a \in Range(task.given.records)}
         IN  /\ verdict.ok <=> task.given.id \in ids
             /\ verdict.ok => /\ verifyAttestationProof(verdict.package)
                              /\ verdict.package.attestation.id = task.given.id
    /\ task.op = "package" /\ verdict
         /\ task.given.pkg.merkleRoot = getRoot(attestationHashes(task.given.records))
       => task.given.pkg.attestation \in Range(task.given.records)

(* Two lists of attestations have the same root only when they are equal:  *)
(* neither the promotion of a lone node nor a repeated last leaf lets one  *)
(* root stand for two lists.                                               *)
RootBindsLeaves ==
    task.op = "prove" /\ verdict.ok =>
        \A r \in Records \ {<<>>} :
            getRoot(attestationHashes(r)) = verdict.package.merkleRoot => r = task.given.records

(* Aggregation passes only what more than half of the distinct verifiers   *)
(* back with nothing but PASS on one bundle, however often each reports;   *)
(* the dissenters are those that voted otherwise; and a service level      *)
(* passes only on metrics that were measured.                              *)
VerdictsFailClosed ==
    /\ task.op = "aggregate" =>
         LET r == task.given.reports
             backs(v) == \A k \in DOMAIN r : r[k].verifierId = v =>
                             r[k].verdict = "PASS" /\ r[k].bundleHash = r[1].bundleHash
             backers == {v \in VerifiersOf(r) : backs(v)}
         IN  verdict.verdict = "PASS" =>
               /\ Cardinality(VerifiersOf(r)) >= task.given.min
               /\ 2 * Cardinality(backers) > Cardinality(VerifiersOf(r))
               /\ verdict.dissenters = VerifiersOf(r) \ backers
    /\ task.op = "sla" /\ verdict.verdict = "PASS" =>
         \A t \in Range(task.given.targets) :
             t.metric \in DOMAIN task.given.metrics /\ task.given.metrics[t.metric] # NotFinite

(* What reconciliation calls clean is clean: a clean report conserves, and *)
(* deduplication loses no transfer.                                        *)
ReconciliationSound == CleanBooksConserve /\ DedupeKeepsTheTransfer

(* A verdict on a bundle, by a verifier or in a compliance report, is one  *)
(* on the state the bundle holds.                                          *)
BundleSound == PassBindsState /\ FullMarksBindState

(* Audits over several chains conserve, and replays are told apart by      *)
(* their events alone.                                                     *)
AuditSound == AuditMeansConserved /\ ReplayHashBinds

(* A package proves membership in the one list its root stands for.        *)
ProofSound == ProofIsSound /\ RootBindsLeaves
==============================================================================
