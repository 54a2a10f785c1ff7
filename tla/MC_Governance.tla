---------------------------- MODULE MC_Governance ----------------------------
(* Instances of the governance store and of the multi-signature witness     *)
(* for TLC; a behaviour runs one of them.                                  *)
EXTENDS MultiSigWitness, TLC

CONSTANTS a, b, w1, w2

VARIABLE component

(* Two signers, both needed, as the witness finds them.                    *)
Established ==
    LET es == <<[type |-> "signer_added", address |-> a, weight |-> 1, publicKey |-> TRUE],
                [type |-> "signer_added", address |-> b, weight |-> 1, publicKey |-> TRUE],
                [type |-> "quorum_changed", newQuorum |-> 2]>>
    IN  /\ events = es
        /\ past = [n \in 1..4 |-> replayToVersion(es, n - 1)]
        /\ policy = past[4]
        /\ exported = [events |-> <<>>, past |-> <<InitialPolicy>>]
        /\ replaying = FALSE /\ pending = {} /\ records = {} /\ witnessed = 0 /\ restarts = 0

McInit ==
    /\ WitnessInit
    /\ \/ component = "store" /\ Init
       \/ component = "witness" /\ Established

McNext ==
    /\ \/ component = "store" /\ Next /\ UNCHANGED witnessVars
       \/ component = "witness" /\ WitnessNext
    /\ UNCHANGED component

McSpec == McInit /\ [][McNext]_<<component, vars, witnessVars>>

(* The calls of the witness are interchangeable.                          *)
WitnessSymmetry == Permutations({w1, w2})
==============================================================================
