------------------------------ MODULE HashChain ------------------------------
(***************************************************************************)
(* The tamper-evident hash chain of the event log                          *)
(* (packages/event-store/src/hash-chain.ts).                               *)
(*                                                                         *)
(* SHA-256 is modelled as an injective constructor: the digest of an event *)
(* and its predecessor's digest is the pair of the two.  The event content *)
(* that canonicalEventContent serialises (type, metadata, payload,         *)
(* streamId, version, globalPosition, appendedAt) is the record "ev".      *)
(***************************************************************************)
EXTENDS Naturals, Sequences, FiniteSets

(* hash-chain.ts, GENESIS_HASH, and the absent hash field of a record       *)
(* written before the chain existed.                                       *)
GENESIS_HASH == <<>>
NoHash == <<"absent">>

(* A stored event: its content, its digest and its predecessor's digest.   *)
StoredEvent(ev, hash, previousHash) ==
    [ev |-> ev, hash |-> hash, previousHash |-> previousHash]

computeEventHash(ev, previousHash) == <<ev, previousHash>>

Hashed(e) == e.hash # NoHash /\ e.previousHash # NoHash

(* Digest that the next record must name: the hash of the last hashed      *)
(* record before position i, or genesis.                                   *)
HashBefore(events, i) ==
    LET before == {j \in 1..(i - 1) : Hashed(events[j])}
    IN  IF before = {} THEN GENESIS_HASH
        ELSE events[CHOOSE j \in before : \A k \in before : k <= j].hash

ChainStarted(events, i) == \E j \in 1..(i - 1) : Hashed(events[j])

(* The errors verifyHashChain reports, as pairs of an index and a reason.  *)
verifyHashChain(events) ==
    LET Dom == 1..Len(events)
        H == {i \in Dom : Hashed(events[i])}
    IN  {<<i, "not contiguous">> : i \in
            {k \in Dom \ {1} : events[k].ev.globalPosition
                                 # events[k - 1].ev.globalPosition + 1}}
        \cup {<<i, "missing hash fields">> : i \in
            {k \in Dom \ H : ChainStarted(events, k)}}
        \cup {<<i, "chain does not start at genesis">> : i \in
            {k \in H : /\ ~ChainStarted(events, k)
                       /\ events[k].previousHash # GENESIS_HASH}}
        \cup {<<i, "previousHash mismatch">> : i \in
            {k \in H : /\ ChainStarted(events, k)
                       /\ events[k].previousHash # HashBefore(events, k)}}
        \cup {<<i, "hash mismatch">> : i \in
            {k \in H : events[k].hash
                         # computeEventHash(events[k].ev, events[k].previousHash)}}

ChainValid(events) == verifyHashChain(events) = {}
==============================================================================
