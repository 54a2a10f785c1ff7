------------------------------ MODULE CrossChain ------------------------------
(***************************************************************************)
(* Audits over the events of several chains (packages/verify/src/          *)
(* cross-chain-invariants.ts and multi-chain-replay.ts).                   *)
(*   invariant event [chain, id, type, amount, decimals, symbol, seq, at,   *)
(*                    linked, signer]                                      *)
(*   chain event     [chain, hash, seq, at, data]                          *)
(* An amount is [raw, dec], the decimal string with dec fractional digits, *)
(* or Garbage; linked and signer are None where the event has none.        *)
(***************************************************************************)
EXTENDS Reconciliation, SequencesExt

Garbage == [raw |-> 0, dec |-> -1]

OfChain(events, c) == SelectSeq(events, LAMBDA e : e.chain = c)
ChainsOf(events) == {events[k].chain : k \in DOMAIN events}

(* Array.prototype.sort by sequenceIndex, which is stable.                 *)
bySequence(events) ==
    LET before(i, j) == \/ events[i].seq < events[j].seq
                        \/ events[i].seq = events[j].seq /\ i < j
        rank(j) == Cardinality({i \in DOMAIN events : before(i, j)}) + 1
    IN  [n \in DOMAIN events |-> events[CHOOSE j \in DOMAIN events : rank(j) = n]]

-----------------------------------------------------------------------------
(* Cross-chain invariants: whether each check holds                        *)

(* parseAmount throws on more fractional digits than the decimals allow.   *)
Parses(amount, decimals) == amount # Garbage /\ amount.dec <= decimals
parseAmount(amount, decimals) == amount.raw * 10^(decimals - amount.dec)

Bridged(events) == SelectSeq(events, LAMBDA e : e.type \in {"bridge_out", "bridge_in"})

(* Amounts of different scales are added up as they are.                   *)
conserve_MixedScales(s, e) ==
    LET amount == parseAmount(e.amount, e.decimals)
        b == IF e.symbol \in DOMAIN s.buckets THEN s.buckets[e.symbol]
             ELSE [out |-> 0, in |-> 0, decimals |-> e.decimals]
        grown == IF e.type = "bridge_out" THEN [b EXCEPT !.out = @ + amount]
                 ELSE [b EXCEPT !.in = @ + amount]
    IN  IF ~Parses(e.amount, e.decimals) THEN [s EXCEPT !.ok = FALSE]
        ELSE [s EXCEPT !.buckets = [x \in DOMAIN s.buckets \cup {e.symbol} |->
                                       IF x = e.symbol THEN grown ELSE s.buckets[x]]]

(* One event into the bucket of its symbol; the decimals of the first one  *)
(* that parses are the symbol's.                                           *)
conserve(s, e) ==
    LET amount == parseAmount(e.amount, e.decimals)
        known == e.symbol \in DOMAIN s.buckets
        b == IF known THEN s.buckets[e.symbol]
             ELSE [out |-> 0, in |-> 0, decimals |-> e.decimals]
        grown == IF e.type = "bridge_out" THEN [b EXCEPT !.out = @ + amount]
                 ELSE [b EXCEPT !.in = @ + amount]
    IN  IF known /\ b.decimals # e.decimals THEN [s EXCEPT !.ok = FALSE]
        ELSE IF ~Parses(e.amount, e.decimals) THEN [s EXCEPT !.ok = FALSE]
        ELSE [s EXCEPT !.buckets = [x \in DOMAIN s.buckets \cup {e.symbol} |->
                                       IF x = e.symbol THEN grown ELSE s.buckets[x]]]

checkAssetConservation(events) ==
    LET s == FoldLeft(conserve, [ok |-> TRUE, buckets |-> [x \in {} |-> None]], Bridged(events))
    IN  s.ok /\ \A x \in DOMAIN s.buckets : s.buckets[x].out = s.buckets[x].in

(* An earlier settlement without an id counts as none.                     *)
checkNoDuplicateSettlement(events) ==
    LET settled == SelectSeq(events, LAMBDA e : e.type = "settlement")
    IN  /\ \A k \in DOMAIN settled : settled[k].linked # None
        /\ \A j, k \in DOMAIN settled :
             j < k /\ settled[j].linked = settled[k].linked => settled[j].id = ""

checkEventOrdering(events) ==
    \A c \in ChainsOf(events) :
        LET sorted == bySequence(OfChain(events, c))
        IN  \A k \in 2..Len(sorted) : /\ sorted[k].seq > sorted[k - 1].seq
                                      /\ sorted[k].at >= sorted[k - 1].at

Contiguous(sorted) == \A k \in 2..Len(sorted) : sorted[k].seq - sorted[k - 1].seq <= 1

(* Opt-in, passed with additionalChecks.                                   *)
checkSequenceContiguity(events) ==
    \A c \in ChainsOf(events) : Contiguous(bySequence(OfChain(events, c)))

(* The event types that begin with governance_, in what tells them apart.  *)
GovernanceTypes == {"signer_added", "signer_removed", "other_governance"}

(* Versions rise over all chains together; a signer is not added while it  *)
(* is active.  Removing an inactive signer is accepted.                    *)
checkGovernanceConsistency(events) ==
    LET sorted == bySequence(SelectSeq(events, LAMBDA e : e.type \in GovernanceTypes))
        activeBefore(k) ==
            FoldLeft(LAMBDA A, e : CASE e.type = "signer_added"   -> A \cup {e.signer}
                                     [] e.type = "signer_removed" -> A \ {e.signer}
                                     [] OTHER                     -> A,
                     {}, SubSeq(sorted, 1, k - 1))
    IN  /\ \A k \in 2..Len(sorted) : sorted[k].seq > sorted[k - 1].seq
        /\ \A k \in DOMAIN sorted :
             sorted[k].type = "signer_added" => sorted[k].signer \notin activeBefore(k) \ {None}

auditCrossChainInvariants(events, contiguity) ==
    /\ checkAssetConservation(events) /\ checkNoDuplicateSettlement(events)
    /\ checkEventOrdering(events) /\ checkGovernanceConsistency(events)
    /\ contiguity => checkSequenceContiguity(events)

-----------------------------------------------------------------------------
(* Multi-chain replay                                                      *)

(* The timestamp is not part of the hash.                                  *)
computeChainHashChain(c, events) ==
    FoldLeft(LAMBDA hash, e : <<"chain", hash, e.hash, e.seq, e.data>>, <<"genesis", c>>, events)

(* Sorted by chain id, so a function of it.                                *)
computeCombinedHash(events) ==
    [c \in ChainsOf(events) |->
        [hashChain |-> computeChainHashChain(c, bySequence(OfChain(events, c))),
         eventCount |-> Len(OfChain(events, c))]]

(* expected is the combined hash to compare with, None for no comparison.  *)
auditMultiChainReplay(events, expected, expectedChainIds, requireContiguousSequence) ==
    /\ requireContiguousSequence =>
         \A c \in ChainsOf(events) : Contiguous(bySequence(OfChain(events, c)))
    /\ expectedChainIds \subseteq ChainsOf(events)
    /\ expected # None => computeCombinedHash(events) = expected
==============================================================================
