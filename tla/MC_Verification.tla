---------------------------- MODULE MC_Verification ----------------------------
(* Instances of what reads and judges the books for TLC: the auditor's desk, *)
(* the public verification board, the chain observers, their registry and   *)
(* the reorg detector, the subscribers of an event store and the readers of *)
(* paginated lists.  They share no state: a behaviour runs one of them.     *)
EXTENDS Verification, PublicVerify, InMemoryEventStore, MC_ChainObserver, MC_Pagination

VARIABLE component

readerVars == <<component, deskVars, boardVars, observerVars, memoryVars, pageVars>>

ReadersInit ==
    /\ component \in {"desk", "board", "registry", "reorg", "memory", "pages"} \cup Chains
    /\ DeskInit /\ BoardInit /\ ObserverInit /\ MemoryInit /\ PageInit
    /\ component # "pages" => list = "events" /\ limit = 1

Desk == component = "desk" /\ DeskNext /\ UNCHANGED <<boardVars, observerVars, memoryVars, pageVars>>
Board == component = "board" /\ SubmitReport /\ UNCHANGED <<deskVars, observerVars, memoryVars, pageVars>>
Observers ==
    /\ \/ \E ch \in Chains : component = ch /\ OneChain(ch)
       \/ component = "registry" /\ RegistryStep
       \/ component = "reorg" /\ DetectorStep
    /\ UNCHANGED <<deskVars, boardVars, memoryVars, pageVars>>
Memory == component = "memory" /\ MemoryNext /\ UNCHANGED <<deskVars, boardVars, observerVars, pageVars>>
Pages == component = "pages" /\ PageNext /\ UNCHANGED <<deskVars, boardVars, observerVars, memoryVars>>

ReadersNext == (Desk \/ Board \/ Observers \/ Memory \/ Pages) /\ UNCHANGED component

ReadersSpec == ReadersInit /\ [][ReadersNext]_readerVars

(* The verifiers' verdict is a majority's, in one aggregation and over the  *)
(* life of the public board.                                               *)
ConsensusSound == VerdictsFailClosed /\ ConsensusIsMajority

UpTo(S, n) == UNION {[1..k -> S] : k \in 0..n}

Amount(raw, dec, cur) == [raw |-> raw, dec |-> dec, cur |-> cur]

-----------------------------------------------------------------------------
(* Reconciliation: one intent and maybe a second, up to two entries and two *)
(* events, amounts equal in value but not in decimals, another currency,    *)
(* and an amount that is no integer.                                        *)

IntentOf(id, status, raw, tx) ==
    [id |-> id, status |-> status, amount |-> Amount(raw, 0, "A"), tx |-> tx, chain |-> "l1",
     corr |-> id, at |-> 1]
LedgerEntry(intent, type, amount, tx) ==
    [id |-> IF intent = "i1" THEN <<type, amount, tx>> ELSE <<"e">>, intent |-> intent, type |-> type, amount |-> amount, tx |-> tx, corr |-> "i1", at |-> 1]
ChainEvent(chain, tx, amount) ==
    [chain |-> chain, tx |-> tx, amount |-> amount, addresses |-> {"x", "y"}, at |-> 1]

All == [intent |-> None, chain |-> None, corr |-> None, from |-> 1, to |-> 2]

McIntents ==
    {<<IntentOf("i1", s, 1, tx)>> : s \in {"approved", "executed"}, tx \in {None, "t1"}}
        \cup {<<IntentOf("i1", "executed", 1, "t1"), IntentOf("i2", "executed", 2, tx)>> : tx \in {None, "t2"}}
McEntries ==
    UpTo({LedgerEntry("i1", "debit", a, tx) : a \in {Amount(1, 0, "A"), Amount(10, 1, "A")},
                                              tx \in {None, "t1"}}
           \cup {LedgerEntry("i1", "debit", Amount(1, 0, "B"), None),
                 LedgerEntry("i1", "credit", Amount(1, 0, "A"), None),
                 LedgerEntry("i2", "debit", Amount(2, 0, "A"), "t2"),
                 LedgerEntry("i3", "debit", Amount(2, 0, "A"), None)}, 2)
McEvents ==
    UpTo({ChainEvent("l1", "t1", a) : a \in {Amount(100, 2, "A"), Amount(1, 0, "B"), Amount(2, 0, "A"),
                                             Amount(None, 0, "A")}}
           \cup {ChainEvent("l2", "t2", Amount(20, 1, "A"))}, 2)
McLedgers ==
    [intents : McIntents, entries : McEntries, events : McEvents, scope : {All}]
        \cup [intents : McIntents, entries : {<<>>}, events : McEvents,
              scope : {[All EXCEPT !.chain = "l1"], [All EXCEPT !.intent = "i1"],
                       [All EXCEPT !.corr = "i2"], [All EXCEPT !.to = 0]}]

(* Two L2 chains that settle on one L1, and a chain of its own.             *)
McPairs == "l2" :> "l1" @@ "l3" :> "l1"
McEventLists ==
    UpTo({ChainEvent(c, tx, Amount(raw, 0, "A")) :
            c \in {"l1", "l2", "l3", "other"}, tx \in {"t1", "t2", "t3"}, raw \in {1, 2}}, 2)
        \cup {<<ChainEvent("l1", "t1", Amount(1, 0, "A")), ChainEvent(c, "t2", Amount(1, 0, "A")),
                ChainEvent(d, "t3", Amount(raw, 0, "A"))>> :
                c \in {"l1", "l2", "l3", "other"}, d \in {"l1", "l2", "l3", "other"}, raw \in {1, 2}}

-----------------------------------------------------------------------------
(* Bundles: honest ones over ledgers whose correlation ids appear in every  *)
(* order, and every mixture of the fields of two of them.                   *)

Transaction(n, corr) ==
    <<Entry(<<n, "d">>, "a1", "debit", "A", 1, 0, corr), Entry(<<n, "c">>, "a2", "credit", "A", 1, 0, corr)>>
LedgerOf(corrs) ==
    [accounts |-> {"a1", "a2"}, entries |-> FlattenSeq([n \in DOMAIN corrs |-> Transaction(n, corrs[n])])]
(* One that balances over all but not for each correlation id.             *)
Crossed == [accounts |-> {"a1", "a2"},
            entries |-> <<Transaction(1, "c1")[1], Transaction(1, "c2")[2]>>]
RegistrumOf(mode, sound, states) == [mode |-> mode, sound |-> sound, states |-> states]
Legacy == RegistrumOf("legacy", TRUE, {"s1"})
Eth == "eth" :> <<"hash", 1>>

McHonest ==
    {createStateBundle(ledgerOf, r, es, cs) :
        ledgerOf \in {LedgerOf(corrs) : corrs \in UpTo({"c1", "c2"}, 3)} \cup {Crossed},
        r \in {Legacy, RegistrumOf("registry", TRUE, {"s1"}), RegistrumOf("legacy", FALSE, {"s1"})},
        es \in {<<>>, <<"e1">>}, cs \in {NoChains, Eth}}

First == createStateBundle(LedgerOf(<<"c1">>), Legacy, <<"e1">>, NoChains)
Others == {createStateBundle(LedgerOf(<<"c1">>), Legacy, <<"e1">>, Eth),
           createStateBundle(LedgerOf(<<"c1", "c2">>), RegistrumOf("legacy", TRUE, {"s2"}),
                             <<"e2">>, NoChains)}
McMixed ==
    UNION {{[ledgerSnapshot |-> p.ledgerSnapshot, registrumSnapshot |-> q.registrumSnapshot,
             eventHashes |-> r.eventHashes, chainHashes |-> s.chainHashes,
             globalStateHash |-> [hash |-> t.globalStateHash.hash,
                 subsystems |-> [u.globalStateHash.subsystems EXCEPT
                                    !.chains = v.globalStateHash.subsystems.chains]],
             bundleHash |-> w.bundleHash] :
            p, q, r, s, t, u, v, w \in {First, o}} : o \in Others}
McBundles == McHonest \cup McMixed

-----------------------------------------------------------------------------
(* Audits: up to three events out of sequence order, on two chains.         *)

PlainEvent == [chain |-> "l1", id |-> "e", type |-> "other", amount |-> [raw |-> 1, dec |-> 0],
          decimals |-> 0, symbol |-> "A", seq |-> 1, at |-> 1, linked |-> None, signer |-> None]
Bridge(type, chain, raw, dec, decimals, seq) ==
    [PlainEvent EXCEPT !.type = type, !.chain = chain, !.amount = [raw |-> raw, dec |-> dec],
                  !.decimals = decimals, !.seq = seq]
AuditEvents ==
    {Bridge("bridge_out", "l1", 1, 0, 0, 1), Bridge("bridge_in", "l2", 10, 1, 1, 1),
     Bridge("bridge_in", "l2", 1, 0, 0, 1), Bridge("bridge_in", "l2", 10, 1, 0, 2),
     Bridge("bridge_out", "l1", 10, 0, 0, 2), [Bridge("bridge_in", "l2", 1, 0, 0, 3) EXCEPT !.amount = Garbage],
     [PlainEvent EXCEPT !.type = "settlement"], [PlainEvent EXCEPT !.type = "settlement", !.linked = "e"],
     [PlainEvent EXCEPT !.type = "settlement", !.linked = "e", !.chain = "l2", !.seq = 3],
     [PlainEvent EXCEPT !.type = "settlement", !.linked = "e", !.id = "", !.seq = 2],
     [PlainEvent EXCEPT !.type = "other_governance", !.seq = 3],
     [PlainEvent EXCEPT !.at = 2, !.seq = 1], [PlainEvent EXCEPT !.seq = 3],
     [PlainEvent EXCEPT !.type = "signer_added", !.signer = "s", !.seq = 2],
     [PlainEvent EXCEPT !.type = "signer_removed", !.signer = "s", !.seq = 3],
     [PlainEvent EXCEPT !.type = "signer_added", !.signer = "s", !.seq = 4, !.at = 2]}
McAudits == [events : UpTo(AuditEvents, 3), contiguity : BOOLEAN]

Seen(chain, hash, seq, at) == [chain |-> chain, hash |-> hash, seq |-> seq, at |-> at, data |-> "d"]
McHistories ==
    UpTo({Seen("l1", "h1", 1, 1), Seen("l1", "h2", 2, 1), Seen("l1", "h2", 3, 1), Seen("l2", "h1", 1, 1)}, 2)
        \cup {<<Seen("l1", "h2", 2, 2), Seen("l2", "h1", 1, 2), Seen("l1", "h1", 1, 2)>>,
              <<Seen("l1", "h1", 1, 1), Seen("l1", "h2", 2, 1), Seen("l2", "h1", 1, 1)>>,
              <<Seen("l1", "h2", 1, 1), Seen("l1", "h1", 2, 1), Seen("l2", "h1", 1, 1)>>}

-----------------------------------------------------------------------------
(* Proofs: up to four attestations of three, repeated ones included, and    *)
(* every mixture of the parts of two packages.                              *)

Att(id) == [id |-> id]
McRecords == UpTo({Att("a"), Att("b")}, 4) \cup {<<Att("a"), Att("b"), Att("c")>>,
    <<Att("a"), Att("b"), Att("c"), Att("a"), Att("b")>>}

PackageOf(r, k) == Package(r[k], getRoot(attestationHashes(r)), getProof(attestationHashes(r), k))

(* A package whose packageHash was computed anew after the change.          *)
Sealed(p) == [p EXCEPT !.packageHash = computePackageHash(p.attestation, p.attestationHash,
                                                          p.merkleRoot, p.inclusionProof)]
MixedPackages(p, q) ==
    {Sealed([attestation |-> a.attestation, attestationHash |-> h.attestationHash,
             merkleRoot |-> m.merkleRoot, packageHash |-> m.packageHash,
             inclusionProof |-> [leafHash |-> l.inclusionProof.leafHash, leafIndex |-> 1,
                                 root |-> m.inclusionProof.root, siblings |-> s]]) :
       a, h, m, l \in {p, q},
       s \in {p.inclusionProof.siblings, q.inclusionProof.siblings, <<>>,
              Tail(p.inclusionProof.siblings), <<[hash |-> Malformed, direction |-> "left"]>>}}

Three == <<Att("a"), Att("b"), Att("c")>>
Inner == getProof(attestationHashes(Three), 3).siblings[1].hash  \* the node above a and b

(* A package that passes the inner node off as a leaf.                      *)
NodeAsLeaf ==
    Sealed([Package(Att("a"), getRoot(attestationHashes(Three)),
                    [getProof(attestationHashes(Three), 3) EXCEPT
                        !.leafHash = Inner,
                        !.siblings = <<[hash |-> hashLeaf(hashAttestation(Att("c"))),
                                        direction |-> "right"]>>])
            EXCEPT !.attestationHash = Inner])

McPackages ==
    UNION {[records : {r}, pkg : MixedPackages(PackageOf(r, k), PackageOf(<<Att("d"), Att("b")>>, 1))] :
             r \in {Three}, k \in 1..3} \cup [records : {Three}, pkg : {NodeAsLeaf}]

-----------------------------------------------------------------------------
Report(id, v, verdictOf, bundle) ==
    [reportId |-> id, verifierId |-> v, verdict |-> verdictOf, bundleHash |-> bundle]

McReportLists ==
    UpTo({Report("r", v, d, b) : v \in {"v1", "v2", "v3"}, d \in {"PASS", "FAIL"}, b \in {"b1", "b2"}}, 3)

(* Two reports of two verifiers each, one that changes its mind back and    *)
(* forth, one about another bundle.                                         *)
McSubmissions ==
    {Report("r1", "v1", "FAIL", "b1"), Report("r2", "v1", "PASS", "b1"), Report("r3", "v2", "PASS", "b1"),
     Report("r4", "v2", "FAIL", "b1"), Report("r5", "v3", "PASS", "b1"), Report("r6", "v4", "FAIL", "b1"),
     Report("r7", "v3", "PASS", "b2")}

McServices ==
    [targets : UpTo([metric : {"m1", "m2"}, operator : {"lte", "gte", "lt", "gt", "eq", "ne"},
                     threshold : {1, NotFinite}], 1),
     metrics : UNION {[M -> {0, 1, 2, NotFinite}] : M \in SUBSET {"m1", "m2"}}]
==============================================================================
