------------------------------ MODULE Governance ------------------------------
(***************************************************************************)
(* Multi-signature governance of the witness                               *)
(* (packages/witness/src/governance/{governance-store,signing,             *)
(* registrum-bridge,multisig-witness}.ts).                                 *)
(*                                                                         *)
(* The store is event sourced: every change appends an event and applies   *)
(* it to the policy.  A witness reads the policy, waits for the node's     *)
(* autofill and only then signs with the wallets it holds, so the policy   *)
(* may change in between.  A restart replays an exported history one event *)
(* at a time.  A signer that is not in the policy has weight 0; a digest   *)
(* of a policy is the policy itself.                                       *)
(***************************************************************************)
EXTENDS Integers, Sequences, SequencesExt, FiniteSetsExt

CONSTANTS Address,      \* signer addresses
          Weights,      \* weights callers pass
          Quorums,      \* thresholds callers pass
          Wallets,      \* addresses whose secret the submitter holds
          MaxEvents,    \* bound: events in one history
          MaxWitness,   \* bound: attestations witnessed
          MaxRestart    \* bound: restarts

ASSUME WeightsAreIntegers == Weights \subseteq Int
ASSUME QuorumsAreIntegers == Quorums \subseteq Int

VARIABLES
    policy,      \* signers, quorum, active SLA policy and version
    events,      \* the event history
    past,        \* history variable: past[n + 1] is the policy of version n
    exported,    \* the history given to the snapshot, with its policies
    replaying,   \* replayFrom is running
    pending,     \* policies read by witness calls that wait for autofill
    records,     \* what was witnessed: the policy read and the signers counted
    witnessed, restarts

storeVars == <<policy, events, past>>
vars == <<policy, events, past, exported, replaying, pending, records, witnessed, restarts>>

InitialPolicy == [weight |-> [a \in Address |-> 0], publicKey |-> [a \in Address |-> FALSE],
                  quorum |-> 1, activeSlaPolicy |-> FALSE, version |-> 0]

Signers(p) == {a \in Address : p.weight[a] # 0}
WeightOf(p, S) == MapThenSumSet(LAMBDA a : p.weight[a], S)
totalWeight(p) == WeightOf(p, Signers(p))

-----------------------------------------------------------------------------
(* GovernanceStore                                                         *)

Positive == Nat \ {0}

Event == [type : {"signer_added"}, address : Address, weight : Positive, publicKey : BOOLEAN]
         \cup [type : {"signer_removed"}, address : Address]
         \cup [type : {"quorum_changed"}, newQuorum : Positive]
         \cup [type : {"sla_policy_set"}]

ApplyChange(p, e) ==
    CASE e.type = "signer_added" -> [p EXCEPT !.weight[e.address] = e.weight,
                                              !.publicKey[e.address] = e.publicKey]
      [] e.type = "signer_removed" -> [p EXCEPT !.weight[e.address] = 0,
                                                !.publicKey[e.address] = FALSE]
      [] e.type = "quorum_changed" -> [p EXCEPT !.quorum = e.newQuorum]
      [] e.type = "sla_policy_set" -> [p EXCEPT !.activeSlaPolicy = TRUE]

applyEvent(p, e) == [ApplyChange(p, e) EXCEPT !.version = @ + 1]

Apply(e) ==
    /\ policy' = applyEvent(policy, e)
    /\ events' = Append(events, e)
    /\ past' = Append(past, policy')

(* A call of the store: synchronous, so never in the middle of a replay.   *)
Mutation(e) ==
    /\ ~replaying /\ Len(events) < MaxEvents
    /\ Apply(e)
    /\ UNCHANGED <<exported, replaying, pending, records, witnessed, restarts>>

addSigner(a, w, k) ==
    /\ a \notin Signers(policy) /\ w >= 1
    /\ Mutation([type |-> "signer_added", address |-> a, weight |-> w, publicKey |-> k])

(* Compares the number of remaining signers with the quorum.               *)
removeSigner_CountsSigners(a) ==
    /\ a \in Signers(policy)
    /\ Cardinality(Signers(policy) \ {a}) >= 1
    /\ Mutation([type |-> "signer_removed", address |-> a])

removeSigner(a) ==
    /\ a \in Signers(policy)
    /\ totalWeight(policy) - policy.weight[a] >= policy.quorum
    /\ Mutation([type |-> "signer_removed", address |-> a])

changeQuorum(q) ==
    /\ q >= 1
    /\ totalWeight(policy) > 0 => q <= totalWeight(policy)
    /\ Mutation([type |-> "quorum_changed", newQuorum |-> q])

setSlaPolicy == Mutation([type |-> "sla_policy_set"])

-----------------------------------------------------------------------------
(* Persistence: getEventHistory and replayFrom                             *)

getEventHistory ==
    /\ ~replaying
    /\ exported' = [events |-> events, past |-> past]
    /\ UNCHANGED <<storeVars, replaying, pending, records, witnessed, restarts>>

(* The quorum of the store that is replayed into is not reset.             *)
replayFrom_KeepsQuorum ==
    /\ ~replaying /\ restarts < MaxRestart
    /\ restarts' = restarts + 1
    /\ policy' = [InitialPolicy EXCEPT !.quorum = policy.quorum]
    /\ events' = <<>> /\ past' = <<policy'>>
    /\ replaying' = TRUE
    /\ pending' = {}
    /\ UNCHANGED <<exported, records, witnessed>>

(* replayFrom at boot: reset, then one event after the other without the   *)
(* checks of the calls.  Calls of the old process are gone.                *)
replayFrom ==
    /\ ~replaying /\ restarts < MaxRestart
    /\ restarts' = restarts + 1
    /\ policy' = InitialPolicy
    /\ events' = <<>> /\ past' = <<InitialPolicy>>
    /\ replaying' = TRUE
    /\ pending' = {}
    /\ UNCHANGED <<exported, records, witnessed>>

ReplayEvent ==
    /\ replaying /\ Len(events) < Len(exported.events)
    /\ Apply(exported.events[Len(events) + 1])
    /\ UNCHANGED <<exported, replaying, pending, records, witnessed, restarts>>

ReplayDone ==
    /\ replaying /\ Len(events) = Len(exported.events)
    /\ replaying' = FALSE
    /\ UNCHANGED <<storeVars, exported, pending, records, witnessed, restarts>>

-----------------------------------------------------------------------------
(* MultiSigWitness                                                         *)

(* _submitPayload reads the policy, then awaits autofill.                  *)
BeginWitness ==
    /\ ~replaying /\ witnessed < MaxWitness
    /\ witnessed' = witnessed + 1
    /\ pending' = pending \cup {policy}
    /\ UNCHANGED <<storeVars, exported, replaying, records, restarts>>

(* aggregateSignatures counts a signature that verifies against the key    *)
(* registered in the policy; one from outside the policy is an error.      *)
Counted(p, S) == {a \in S : p.publicKey[a]}
Aggregates(p, S) == S \subseteq Signers(p) /\ WeightOf(p, Counted(p, S)) >= p.quorum

(* The signatures are checked against the policy of now.                   *)
FinishWitness_Rereads(p) ==
    /\ ~replaying /\ p \in pending
    /\ pending' = pending \ {p}
    /\ records' = IF Aggregates(policy, Wallets)
                  THEN records \cup {[policy |-> p, signatures |-> Counted(policy, Wallets)]}
                  ELSE records
    /\ UNCHANGED <<storeVars, exported, replaying, witnessed, restarts>>

(* buildMultiSign: every wallet signs over the policy that was read.       *)
FinishWitness(p) ==
    /\ ~replaying /\ p \in pending
    /\ pending' = pending \ {p}
    /\ records' = IF Aggregates(p, Wallets)
                  THEN records \cup {[policy |-> p, signatures |-> Counted(p, Wallets)]}
                  ELSE records
    /\ UNCHANGED <<storeVars, exported, replaying, witnessed, restarts>>

-----------------------------------------------------------------------------
(* The bridge: what an auditor computes from the events alone.             *)

replayGovernanceHistory(es) == FoldLeft(applyEvent, InitialPolicy, es)
replayToVersion(es, n) == replayGovernanceHistory(SubSeq(es, 1, n))

validateHistoricalQuorum(signatures, es, version) ==
    /\ version \in 0..Len(es)
    /\ LET p == replayToVersion(es, version)
       IN  /\ signatures \subseteq Signers(p)
           /\ \A a \in signatures : p.publicKey[a]
           /\ WeightOf(p, signatures) >= p.quorum

-----------------------------------------------------------------------------
Init ==
    /\ policy = InitialPolicy /\ events = <<>> /\ past = <<InitialPolicy>>
    /\ exported = [events |-> <<>>, past |-> <<InitialPolicy>>]
    /\ replaying = FALSE
    /\ pending = {} /\ records = {}
    /\ witnessed = 0 /\ restarts = 0

Next ==
    \/ \E a \in Address, w \in Weights, k \in BOOLEAN : addSigner(a, w, k)
    \/ \E a \in Address : removeSigner(a)
    \/ \E q \in Quorums : changeQuorum(q)
    \/ setSlaPolicy
    \/ getEventHistory \/ replayFrom \/ ReplayEvent \/ ReplayDone
    \/ BeginWitness
    \/ \E p \in pending : FinishWitness(p)

Spec == Init /\ [][Next]_vars

-----------------------------------------------------------------------------
(* Properties                                                              *)

Policy == [weight : [Address -> Nat], publicKey : [Address -> BOOLEAN], quorum : Positive,
           activeSlaPolicy : BOOLEAN, version : Nat]

(* Types; every quorum ever in force is positive, so that no policy is met *)
(* by nobody's signature.                                                  *)
TypeOK ==
    /\ policy \in Policy
    /\ events \in Seq(Event)
    /\ past \in Seq(Policy)
    /\ exported \in [events : Seq(Event), past : Seq(Policy)]
    /\ replaying \in BOOLEAN

(* The version of a policy is the number of events behind it, so replaying *)
(* to a version stops exactly at the policy that had it.                   *)
VersionCountsEvents ==
    /\ policy.version = Len(events)
    /\ Len(past) = Len(events) + 1
    /\ \A n \in 1..Len(past) : past[n].version = n - 1

(* Deterministic replay: a restart that replays the exported history has,  *)
(* at every version it passes, the policy the exporting store had there.   *)
RestoreReproducesPolicy ==
    \A n \in 1..Len(exported.past) : n <= Len(past) => past[n] = exported.past[n]

(* A policy whose quorum its signers can reach never turns into one they   *)
(* cannot reach, whatever sequence of changes is made.                     *)
QuorumStaysAttainable ==
    [][policy.quorum <= totalWeight(policy) /\ ~replaying /\ ~replaying'
          => policy'.quorum <= totalWeight(policy')]_vars

(* What was witnessed had quorum under the policy of its version: an       *)
(* auditor who only has the event history can validate it, also when the   *)
(* policy changed while the witness was waiting, unless a restart from an  *)
(* older export has lost that policy.                                      *)
HistoricalQuorumValid ==
    \A r \in records :
        LET v == r.policy.version
        IN  restarts = 0 \/ (v < Len(past) /\ past[v + 1] = r.policy)
              => validateHistoricalQuorum(r.signatures, events, v)
==============================================================================
