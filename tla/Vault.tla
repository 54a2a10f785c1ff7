-------------------------------- MODULE Vault --------------------------------
(***************************************************************************)
(* The personal vault: budget envelopes and the intent lifecycle           *)
(* (packages/vault/src/{budget,intent-manager,vault}.ts).                  *)
(*                                                                         *)
(* Money is the scaled integer of parseAmount; the vault has one currency. *)
(* An envelope keeps allocated, spent and available as three stored        *)
(* fields, as the code does; an intent keeps its status, its amount and    *)
(* the envelope it draws on.  A call that throws changes nothing and is a  *)
(* disabled action, except where it throws between two assignments.        *)
(***************************************************************************)
EXTENDS Integers, FiniteSetsExt

CONSTANTS Envelope,      \* envelope ids
          Intent,        \* intent ids
          Amounts,       \* amounts callers pass: any scaled integers
          MaxAllocated,  \* bound: largest allocation of one envelope
          NoEnvelope,    \* an intent without envelopeId
          NoAmount       \* an intent without params.amount

ASSUME AmountsAreIntegers == Amounts \subseteq Int
ASSUME NoEnvelopeIsNoId == NoEnvelope \notin Envelope
ASSUME NoAmountIsNoAmount == NoAmount \notin Amounts

VARIABLES
    envelopes,   \* ids of the envelopes that exist
    allocated, spent, available,
    status,      \* status[i]: "absent" until the intent is declared
    amount,      \* amount[i]: params.amount
    envelopeOf,  \* envelopeOf[i]: envelopeId
    saved        \* the last VaultSnapshot, or a record marked absent

budgetVars == <<envelopes, allocated, spent, available>>
intentVars == <<status, amount, envelopeOf>>
vars == <<envelopes, allocated, spent, available, status, amount, envelopeOf, saved>>

IntentStatus == {"declared", "approved", "rejected", "executing", "executed",
                 "verified", "failed"}

(* snapshot(): the committed state, in one synchronous call.               *)
snapshot == [envelopes |-> envelopes, allocated |-> allocated, spent |-> spent,
             status |-> status, amount |-> amount, envelopeOf |-> envelopeOf]

Init ==
    /\ envelopes = {}
    /\ allocated = [e \in Envelope |-> 0]
    /\ spent = [e \in Envelope |-> 0]
    /\ available = [e \in Envelope |-> 0]
    /\ status = [i \in Intent |-> "absent"]
    /\ amount = [i \in Intent |-> NoAmount]
    /\ envelopeOf = [i \in Intent |-> NoEnvelope]
    /\ saved = snapshot

-----------------------------------------------------------------------------
(* BudgetEngine                                                            *)

createEnvelope(e) ==
    /\ e \notin envelopes
    /\ envelopes' = envelopes \cup {e}
    /\ UNCHANGED <<allocated, spent, available, intentVars, saved>>

allocate(e, a) ==
    /\ e \in envelopes /\ a > 0
    /\ allocated[e] + a <= MaxAllocated
    /\ allocated' = [allocated EXCEPT ![e] = @ + a]
    /\ available' = [available EXCEPT ![e] = allocated'[e] - spent[e]]
    /\ UNCHANGED <<envelopes, spent, intentVars, saved>>

deallocate(e, a) ==
    /\ e \in envelopes /\ a > 0
    /\ allocated[e] - a - spent[e] >= 0
    /\ allocated' = [allocated EXCEPT ![e] = @ - a]
    /\ available' = [available EXCEPT ![e] = allocated'[e] - spent[e]]
    /\ UNCHANGED <<envelopes, spent, intentVars, saved>>

spend_NoCeiling(e, a) ==
    /\ e \in envelopes /\ a > 0
    /\ spent' = [spent EXCEPT ![e] = @ + a]
    /\ available' = [available EXCEPT ![e] = allocated[e] - spent'[e]]
    /\ UNCHANGED <<envelopes, allocated>>

(* spend and reverseSpend are called by the intent manager only.           *)
spend(e, a) ==
    /\ e \in envelopes /\ a > 0 /\ a <= available[e]
    /\ spent' = [spent EXCEPT ![e] = @ + a]
    /\ available' = [available EXCEPT ![e] = allocated[e] - spent'[e]]
    /\ UNCHANGED <<envelopes, allocated>>

reverseSpend(e, a) ==
    /\ e \in envelopes /\ a > 0 /\ a <= spent[e]
    /\ spent' = [spent EXCEPT ![e] = @ - a]
    /\ available' = [available EXCEPT ![e] = allocated[e] - spent'[e]]
    /\ UNCHANGED <<envelopes, allocated>>

-----------------------------------------------------------------------------
(* IntentManager                                                           *)

(* A failed execution may be picked up again.                              *)
VALID_TRANSITIONS_Retry ==
    {<<"declared", "approved">>, <<"declared", "rejected">>,
     <<"approved", "executing">>, <<"approved", "rejected">>,
     <<"executing", "executed">>, <<"executing", "failed">>,
     <<"executed", "verified">>, <<"executed", "failed">>,
     <<"failed", "executing">>}

VALID_TRANSITIONS ==
    {<<"declared", "approved">>, <<"declared", "rejected">>,
     <<"approved", "executing">>, <<"approved", "rejected">>,
     <<"executing", "executed">>, <<"executing", "failed">>,
     <<"executed", "verified">>, <<"executed", "failed">>}

assertTransition(i, target) == <<status[i], target>> \in VALID_TRANSITIONS

SetStatus(i, s) == status' = [status EXCEPT ![i] = s]

Linked(i) == envelopeOf[i] # NoEnvelope /\ amount[i] # NoAmount

(* The budget pre-check applies only when both an envelope and an amount   *)
(* are given; it compares with what is available now and reserves nothing. *)
declare(i, a, e) ==
    /\ status[i] = "absent"
    /\ a # NoAmount /\ e # NoEnvelope => e \in envelopes /\ a <= available[e]
    /\ SetStatus(i, "declared")
    /\ amount' = [amount EXCEPT ![i] = a]
    /\ envelopeOf' = [envelopeOf EXCEPT ![i] = e]
    /\ UNCHANGED <<budgetVars, saved>>

approve(i) ==
    /\ assertTransition(i, "approved")
    /\ SetStatus(i, "approved")
    /\ UNCHANGED <<budgetVars, amount, envelopeOf, saved>>

reject(i) ==
    /\ assertTransition(i, "rejected")
    /\ SetStatus(i, "rejected")
    /\ UNCHANGED <<budgetVars, amount, envelopeOf, saved>>

markExecuting(i) ==
    /\ assertTransition(i, "executing")
    /\ SetStatus(i, "executing")
    /\ UNCHANGED <<budgetVars, amount, envelopeOf, saved>>

recordExecution(i) ==
    /\ assertTransition(i, "executed")
    /\ IF Linked(i) THEN spend(envelopeOf[i], amount[i]) ELSE UNCHANGED budgetVars
    /\ SetStatus(i, "executed")
    /\ UNCHANGED <<amount, envelopeOf, saved>>

verify(i) ==
    /\ assertTransition(i, "verified")
    /\ SetStatus(i, "verified")
    /\ UNCHANGED <<budgetVars, amount, envelopeOf, saved>>

(* The spend is not given back when verification fails.                    *)
recordFailure_KeepsSpend(i) ==
    /\ assertTransition(i, "failed")
    /\ SetStatus(i, "failed")
    /\ UNCHANGED <<budgetVars, amount, envelopeOf, saved>>

recordFailure(i) ==
    /\ assertTransition(i, "failed")
    /\ IF status[i] = "executed" /\ Linked(i)
       THEN reverseSpend(envelopeOf[i], amount[i])
       ELSE UNCHANGED budgetVars
    /\ SetStatus(i, "failed")
    /\ UNCHANGED <<amount, envelopeOf, saved>>

-----------------------------------------------------------------------------
(* Vault persistence                                                       *)

saveSnapshot ==
    /\ saved' = snapshot
    /\ UNCHANGED <<budgetVars, intentVars>>

(* restoreEnvelope refuses an envelope that is negative or overspent and   *)
(* recomputes available; the vault is replaced, never merged.              *)
restoreFromSnapshot ==
    /\ \A e \in saved.envelopes : 0 <= saved.spent[e] /\ saved.spent[e] <= saved.allocated[e]
    /\ envelopes' = saved.envelopes
    /\ allocated' = saved.allocated
    /\ spent' = saved.spent
    /\ available' = [e \in Envelope |-> saved.allocated[e] - saved.spent[e]]
    /\ status' = saved.status
    /\ amount' = saved.amount
    /\ envelopeOf' = saved.envelopeOf
    /\ UNCHANGED saved

-----------------------------------------------------------------------------
BudgetOp == \E e \in Envelope :
    \/ createEnvelope(e)
    \/ \E a \in Amounts : allocate(e, a) \/ deallocate(e, a)

IntentOp == \E i \in Intent :
    \/ \E a \in Amounts \cup {NoAmount}, e \in Envelope \cup {NoEnvelope} :
          declare(i, a, e)
    \/ approve(i) \/ reject(i) \/ markExecuting(i) \/ recordExecution(i)
    \/ verify(i) \/ recordFailure(i)

Next == BudgetOp \/ IntentOp \/ saveSnapshot \/ restoreFromSnapshot

Spec == Init /\ [][Next]_vars

-----------------------------------------------------------------------------
(* Properties                                                              *)

SavedType ==
    [envelopes : SUBSET Envelope, allocated : [Envelope -> Int],
     spent : [Envelope -> Int], status : [Intent -> IntentStatus \cup {"absent"}],
     amount : [Intent -> Amounts \cup {NoAmount}],
     envelopeOf : [Intent -> Envelope \cup {NoEnvelope}]]

TypeOK ==
    /\ envelopes \subseteq Envelope
    /\ allocated \in [Envelope -> Int]
    /\ spent \in [Envelope -> Int]
    /\ available \in [Envelope -> Int]
    /\ status \in [Intent -> IntentStatus \cup {"absent"}]
    /\ amount \in [Intent -> Amounts \cup {NoAmount}]
    /\ envelopeOf \in [Intent -> Envelope \cup {NoEnvelope}]
    /\ saved \in SavedType

(* The three stored amounts of an envelope never drift apart and no        *)
(* sequence of spends, reversals, deallocations and restores overspends.   *)
BudgetSound ==
    \A e \in Envelope :
        /\ 0 <= spent[e] /\ spent[e] <= allocated[e]
        /\ available[e] = allocated[e] - spent[e]

Charged(e) == {i \in Intent : /\ envelopeOf[i] = e /\ amount[i] # NoAmount
                              /\ status[i] \in {"executed", "verified"}}

(* Every unit spent belongs to exactly one intent that was executed and    *)
(* has not failed: executions, failures and restores charge once.          *)
SpendIsAccounted ==
    \A e \in Envelope : spent[e] = MapThenSumSet(LAMBDA i : amount[i], Charged(e))

Settled == {"rejected", "verified", "failed"}

(* Outside a restore, a settled intent never changes again and no intent   *)
(* changes its amount or envelope after it was declared.                   *)
IntentHistoryIsFinal ==
    [][~restoreFromSnapshot =>
         \A i \in Intent :
            /\ status[i] \in Settled => status'[i] = status[i]
            /\ status[i] # "absent" => /\ amount'[i] = amount[i]
                                       /\ envelopeOf'[i] = envelopeOf[i]]_vars
==============================================================================
