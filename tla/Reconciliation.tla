--------------------------- MODULE Reconciliation ---------------------------
(***************************************************************************)
(* The reconciler (packages/reconciler/src): three matchers compare the    *)
(* intents of the vault, the entries of the ledger and the events seen on  *)
(* chain, and a summary says whether everything agrees.  Pure functions of *)
(* sequences of records, the arrays of the code:                           *)
(*   intent [id, status, amount, tx, chain, corr, at]                      *)
(*   entry  [id, intent, type, amount, tx, corr, at]                       *)
(*   event  [chain, tx, amount, addresses, at]                             *)
(* An amount is [raw, dec, cur]: raw units of 10^-dec of a currency.  None  *)
(* stands for a field that is absent, and for a chain amount that is no    *)
(* integer.                                                                *)
(***************************************************************************)
EXTENDS Integers, Sequences, FiniteSets, FiniteSetsExt

CONSTANT None

Scaled(a, dec) == a.raw * 10^(dec - a.dec)

(* Equal once both are normalised to the larger decimal base.              *)
SameValue(a, b) ==
    LET dec == IF a.dec > b.dec THEN a.dec ELSE b.dec
    IN  Scaled(a, dec) = Scaled(b, dec)

-----------------------------------------------------------------------------
(* IntentLedgerMatcher                                                     *)

EntriesOf(entries, id) == {k \in DOMAIN entries : entries[k].intent = id}

DebitsOf(entries, id) == {k \in EntriesOf(entries, id) : entries[k].type = "debit"}

(* The debits of the intent's currency add up to its amount.               *)
DebitsAddUp(amount, entries, debits) ==
    LET same == {k \in debits : entries[k].amount.cur = amount.cur}
        dec == Max({amount.dec} \cup {entries[k].amount.dec : k \in same})
    IN  Scaled(amount, dec) = MapThenSumSet(LAMBDA k : Scaled(entries[k].amount, dec), same)

(* A debit in another currency is left out of the sum and not reported.    *)
intentLedgerStatus_SkipsForeign(i, entries) ==
    LET debits == DebitsOf(entries, i.id)
    IN  CASE EntriesOf(entries, i.id) = {} ->
               IF i.status \in {"executed", "verified"} THEN "missing-ledger" ELSE "skipped"
          [] i.amount = None -> "matched"
          [] OTHER -> IF DebitsAddUp(i.amount, entries, debits) THEN "matched"
                      ELSE "amount-mismatch"

(* The result pushed for an intent, or "skipped": none is expected yet.    *)
intentLedgerStatus(i, entries) ==
    LET debits == DebitsOf(entries, i.id)
    IN  CASE EntriesOf(entries, i.id) = {} ->
               IF i.status \in {"executed", "verified"} THEN "missing-ledger" ELSE "skipped"
          [] i.amount = None -> "matched"
          [] debits = {} -> "amount-mismatch"
          [] OTHER -> IF /\ DebitsAddUp(i.amount, entries, debits)
                         /\ \A k \in debits : entries[k].amount.cur = i.amount.cur
                      THEN "matched" ELSE "amount-mismatch"

(* One missing-intent per id that entries name and no intent has, unless   *)
(* an entry of the same id was matched.                                    *)
orphanedIntentIds(intents, entries) ==
    LET ids == {intents[k].id : k \in DOMAIN intents}
        matched == {entries[k].id : k \in {n \in DOMAIN entries : entries[n].intent \in ids}}
    IN  {entries[k].intent : k \in {n \in DOMAIN entries : entries[n].id \notin matched}} \ {None}

-----------------------------------------------------------------------------
(* LedgerChainMatcher and IntentChainMatcher                               *)

(* The first event of the transaction with that symbol, or 0.              *)
matchingEvent(events, tx, cur) ==
    LET found == {k \in DOMAIN events : events[k].tx = tx /\ events[k].amount.cur = cur}
    IN  IF found = {} THEN 0 ELSE Min(found)

OfTx(events, tx) == {k \in DOMAIN events : events[k].tx = tx}

(* What the transaction moved in that currency is that amount.             *)
amountStatus(amount, tx, events) ==
    LET e == matchingEvent(events, tx, amount.cur)
    IN  IF e # 0 /\ events[e].amount.raw # None /\ SameValue(amount, events[e].amount)
        THEN "matched" ELSE "amount-mismatch"

(* An entry that has a transaction hash, against the events.               *)
ledgerChainStatus(entry, events) ==
    IF OfTx(events, entry.tx) = {} THEN "missing-chain"
    ELSE amountStatus(entry.amount, entry.tx, events)

(* An intent that has one; without an amount it matches any event.         *)
intentChainStatus(i, events) ==
    CASE OfTx(events, i.tx) = {} -> "missing-chain"
      [] OfTx(events, i.tx) # {} /\ i.amount = None -> "matched"
      [] OTHER -> amountStatus(i.amount, i.tx, events)

(* Events that no entry refers to, each reported.                          *)
unmatchedEvents(entries, events) ==
    {k \in DOMAIN events : \A n \in DOMAIN entries : entries[n].tx # events[k].tx}

(* Transactions that no intent refers to, each reported once.              *)
unmatchedTxs(intents, events) ==
    {events[k].tx : k \in DOMAIN events} \ {intents[k].tx : k \in DOMAIN intents}

-----------------------------------------------------------------------------
(* The reconciler                                                          *)

filterIntents(s, scope) ==
    SelectSeq(s, LAMBDA i : /\ scope.intent \in {None, i.id} /\ scope.chain \in {None, i.chain}
                            /\ scope.corr \in {None, i.corr}
                            /\ i.at \in scope.from..scope.to)
filterEntries(s, scope) ==
    SelectSeq(s, LAMBDA e : scope.corr \in {None, e.corr} /\ e.at \in scope.from..scope.to)
filterEvents(s, scope) ==
    SelectSeq(s, LAMBDA e : scope.chain \in {None, e.chain} /\ e.at \in scope.from..scope.to)

CountOf(statuses, wanted) ==
    Cardinality({k \in DOMAIN statuses : statuses[k] \in wanted})

(* computeSummary: how many results of each class the three matchers push. *)
reconcile(given) ==
    LET is == filterIntents(given.intents, given.scope)
        es == filterEntries(given.entries, given.scope)
        vs == filterEvents(given.events, given.scope)
        il == [k \in DOMAIN is |-> intentLedgerStatus(is[k], es)]
        lc == [k \in {n \in DOMAIN es : es[n].tx # None} |-> ledgerChainStatus(es[k], vs)]
        ic == [k \in {n \in DOMAIN is : is[n].tx # None} |-> intentChainStatus(is[k], vs)]
        count(wanted) == CountOf(il, wanted) + CountOf(lc, wanted) + CountOf(ic, wanted)
        missing == count({"missing-ledger", "missing-chain"})
                     + Cardinality(orphanedIntentIds(is, es))
                     + Cardinality(unmatchedEvents(es, vs))
                     + Cardinality(unmatchedTxs(is, vs))
        mismatch == count({"amount-mismatch"})
    IN  [matchedCount |-> count({"matched"}), mismatchCount |-> mismatch,
         missingCount |-> missing, allReconciled |-> mismatch = 0 /\ missing = 0]

-----------------------------------------------------------------------------
(* Cross-chain rules                                                       *)

CONSTANT settlementPairs      \* [an L2 chain -> the L1 it settles on]

isSettlementPair(a, b) ==
    \/ a \in DOMAIN settlementPairs /\ settlementPairs[a] = b
    \/ b \in DOMAIN settlementPairs /\ settlementPairs[b] = a

SameTransfer(a, b) ==
    a.amount.raw = b.amount.raw /\ a.amount.cur = b.amount.cur /\ a.addresses = b.addresses

(* preventDoubleCounting removes an event on a chain that the chain of     *)
(* another event of the same transfer settles on.                          *)
artifact(events, k) ==
    \E n \in DOMAIN events :
        /\ SameTransfer(events[n], events[k])
        /\ events[n].chain \in DOMAIN settlementPairs
        /\ settlementPairs[events[n].chain] = events[k].chain

TxsOf(events, ks) == {<<events[k].chain, events[k].tx>> : k \in ks}

(* matchMultiChain: what is kept, and what is reported removed, is looked  *)
(* up by transaction.                                                      *)
dedupedEvents(events) ==
    LET kept == {k \in DOMAIN events : ~artifact(events, k)}
    IN  SelectSeq(events, LAMBDA e : <<e.chain, e.tx>> \in TxsOf(events, kept))

removedEvents(events) ==
    LET removed == {k \in DOMAIN events : artifact(events, k)}
    IN  SelectSeq(events, LAMBDA e : <<e.chain, e.tx>> \in TxsOf(events, removed))

(* linkCrossChainEvents: pairs on different chains that agree on two of    *)
(* amount, symbol and an address.                                          *)
linkScore(a, b) ==
    Cardinality({c \in {"amount", "symbol", "address"} :
        CASE c = "amount" -> a.amount.raw = b.amount.raw
          [] c = "symbol" -> a.amount.cur = b.amount.cur
          [] c = "address" -> a.addresses \cap b.addresses # {}})

linkCrossChainEvents(events) ==
    {[source |-> p[1], dest |-> p[2],
      type |-> IF isSettlementPair(events[p[1]].chain, events[p[2]].chain)
               THEN "settlement" ELSE "structural",
      confidence |-> IF linkScore(events[p[1]], events[p[2]]) = 3 THEN "high" ELSE "medium"] :
     p \in {q \in (DOMAIN events) \X (DOMAIN events) :
              /\ q[1] < q[2] /\ events[q[1]].chain # events[q[2]].chain
              /\ linkScore(events[q[1]], events[q[2]]) >= 2}}
==============================================================================
