----------------------------- MODULE BooksProofs -----------------------------
(***************************************************************************)
(* Proofs about the vault, the three engines of the treasury with the      *)
(* ledger they post to, the audit log of the routes in front of them, and  *)
(* the ledger itself, for any envelopes, intents, payees, runs, plans,     *)
(* requests, amounts, shares and batches, and for snapshots and restores   *)
(* at any time.                                                            *)
(*                                                                         *)
(* The vault.  BudgetSound is not inductive: a restore replaces the budget *)
(* by the saved one, so the induction also carries SavedSound, the same    *)
(* fact about the last snapshot, and the types.                            *)
(*                                                                         *)
(* The treasury.  EnginesInv is about the engines alone: types, plans that *)
(* passed createPlan's checks, requests whose approvals explain their      *)
(* status; of the live engines and of the saved ones, which a restore      *)
(* brings back.  LedgerInv adds the ledger: no currency has anything left  *)
(* over, so the trial balance balances, the treasury's one currency having *)
(* its balance keys to itself, and every entry belongs to something        *)
(* executed, which stays so until a restore empties it.  PoolInv is then   *)
(* about the amounts credited for a distribution, and needs both: a plan   *)
(* is posted once, and what it posts is at most its pool.                  *)
(*                                                                         *)
(* A ledger of arbitrary callers.  Tidy is what fromSnapshot needs to      *)
(* accept every group of entries it puts together, batches that append()   *)
(* never saw included; Stage is the ledger it has put together so far.     *)
(***************************************************************************)
EXTENDS MC_Books, DataLemmas, TLAPS

-----------------------------------------------------------------------------
(* The vault                                                               *)


(* What a snapshot taken from a sound budget keeps.                        *)
SavedSound == \A e \in Envelope : 0 <= saved.spent[e] /\ saved.spent[e] <= saved.allocated[e]

Inv == TypeOK /\ BudgetSound /\ SavedSound

(* The initial vault is well typed, its empty budget is sound and so is    *)
(* the initial snapshot of it.                                             *)
LEMMA InitInv == Init => Inv
  BY DEF Init, Inv, TypeOK, SavedType, BudgetSound, SavedSound, snapshot, IntentStatus

(* spend and reverseSpend keep the budget sound: the first is capped by    *)
(* available, the second by spent.                                         *)
LEMMA SpendSound ==
  ASSUME Inv, NEW e \in Envelope, NEW a \in Int, spend(e, a) \/ reverseSpend(e, a)
  PROVE  /\ spent' \in [Envelope -> Int] /\ available' \in [Envelope -> Int]
         /\ envelopes' = envelopes /\ allocated' = allocated
         /\ \A f \in Envelope : /\ 0 <= spent'[f] /\ spent'[f] <= allocated[f]
                                /\ available'[f] = allocated[f] - spent'[f]
  BY DEF Inv, TypeOK, BudgetSound, spend, reverseSpend

(* Every operation of the vault preserves the invariant.                   *)
LEMMA NextInv == Inv /\ [Next]_vars => Inv'
<1> SUFFICES ASSUME Inv, [Next]_vars PROVE Inv'
  OBVIOUS
<1> USE DEF Inv
<1>1. CASE UNCHANGED vars
  BY <1>1 DEF vars, TypeOK, BudgetSound, SavedSound
<1>2. ASSUME NEW e \in Envelope, createEnvelope(e) PROVE Inv'
  BY <1>2 DEF createEnvelope, intentVars, TypeOK, BudgetSound, SavedSound
<1>3. ASSUME NEW e \in Envelope, NEW a \in Amounts, allocate(e, a) PROVE Inv'
  <2>1. a \in Int
    BY AmountsAreIntegers
  <2>2. TypeOK'
    BY <1>3, <2>1 DEF allocate, intentVars, TypeOK
  <2>3. BudgetSound'
    BY <1>3, <2>1 DEF allocate, TypeOK, BudgetSound
  <2>4. QED BY <1>3, <2>2, <2>3 DEF allocate, SavedSound
<1>4. ASSUME NEW e \in Envelope, NEW a \in Amounts, deallocate(e, a) PROVE Inv'
  <2>1. a \in Int
    BY AmountsAreIntegers
  <2>2. TypeOK'
    BY <1>4, <2>1 DEF deallocate, intentVars, TypeOK
  <2>3. BudgetSound'
    BY <1>4, <2>1 DEF deallocate, TypeOK, BudgetSound
  <2>4. QED BY <1>4, <2>2, <2>3 DEF deallocate, SavedSound
<1>5. ASSUME NEW i \in Intent, NEW a \in Amounts \cup {NoAmount},
             NEW e \in Envelope \cup {NoEnvelope}, declare(i, a, e)
      PROVE Inv'
  <2>1. TypeOK'
    BY <1>5 DEF declare, SetStatus, budgetVars, TypeOK, IntentStatus
  <2>2. QED BY <1>5, <2>1 DEF declare, budgetVars, BudgetSound, SavedSound
<1>6. ASSUME NEW i \in Intent, approve(i) \/ reject(i) \/ markExecuting(i) \/ verify(i)
      PROVE Inv'
  <2>1. /\ UNCHANGED <<budgetVars, amount, envelopeOf, saved>>
        /\ status' \in [Intent -> IntentStatus \cup {"absent"}]
    BY <1>6 DEF approve, reject, markExecuting, verify, SetStatus, TypeOK, IntentStatus
  <2>2. QED BY <2>1 DEF budgetVars, TypeOK, BudgetSound, SavedSound
<1>7. ASSUME NEW i \in Intent, recordExecution(i) PROVE Inv'
  <2>1. /\ UNCHANGED <<amount, envelopeOf, saved>>
        /\ status' \in [Intent -> IntentStatus \cup {"absent"}]
    BY <1>7 DEF recordExecution, SetStatus, TypeOK, IntentStatus
  <2>2. CASE Linked(i)
    <3>1. envelopeOf[i] \in Envelope /\ amount[i] \in Int
      BY <2>2, AmountsAreIntegers DEF Linked, TypeOK
    <3>2. spend(envelopeOf[i], amount[i])
      BY <1>7, <2>2 DEF recordExecution
    <3>3. QED BY <2>1, <3>1, <3>2, SpendSound DEF TypeOK, BudgetSound, SavedSound
  <2>3. CASE ~Linked(i)
    BY <1>7, <2>1, <2>3 DEF recordExecution, budgetVars, TypeOK, BudgetSound, SavedSound
  <2>4. QED BY <2>2, <2>3
<1>8. ASSUME NEW i \in Intent, recordFailure(i) PROVE Inv'
  <2>1. /\ UNCHANGED <<amount, envelopeOf, saved>>
        /\ status' \in [Intent -> IntentStatus \cup {"absent"}]
    BY <1>8 DEF recordFailure, SetStatus, TypeOK, IntentStatus
  <2>2. CASE status[i] = "executed" /\ Linked(i)
    <3>1. envelopeOf[i] \in Envelope /\ amount[i] \in Int
      BY <2>2, AmountsAreIntegers DEF Linked, TypeOK
    <3>2. reverseSpend(envelopeOf[i], amount[i])
      BY <1>8, <2>2 DEF recordFailure
    <3>3. QED BY <2>1, <3>1, <3>2, SpendSound DEF TypeOK, BudgetSound, SavedSound
  <2>3. CASE ~(status[i] = "executed" /\ Linked(i))
    BY <1>8, <2>1, <2>3 DEF recordFailure, budgetVars, TypeOK, BudgetSound, SavedSound
  <2>4. QED BY <2>2, <2>3
<1>9. CASE saveSnapshot
  <2>1. saved' = snapshot /\ UNCHANGED <<budgetVars, intentVars>>
    BY <1>9 DEF saveSnapshot
  <2>2. snapshot \in SavedType
    BY DEF snapshot, SavedType, TypeOK
  <2>3. TypeOK' /\ BudgetSound'
    BY <2>1, <2>2 DEF budgetVars, intentVars, TypeOK, BudgetSound, SavedType
  <2>4. SavedSound'
    BY <2>1 DEF snapshot, SavedSound, BudgetSound
  <2>5. QED BY <2>3, <2>4
<1>10. CASE restoreFromSnapshot
  <2>1. /\ saved.spent \in [Envelope -> Int] /\ saved.allocated \in [Envelope -> Int]
        /\ saved.envelopes \subseteq Envelope
        /\ saved.status \in [Intent -> IntentStatus \cup {"absent"}]
        /\ saved.amount \in [Intent -> Amounts \cup {NoAmount}]
        /\ saved.envelopeOf \in [Intent -> Envelope \cup {NoEnvelope}]
    BY DEF TypeOK, SavedType
  <2>2. TypeOK'
    BY <1>10, <2>1 DEF restoreFromSnapshot, TypeOK
  <2>3. BudgetSound' /\ SavedSound'
    BY <1>10, <2>1 DEF restoreFromSnapshot, BudgetSound, SavedSound
  <2>4. QED BY <2>2, <2>3
<1>11. QED
  BY <1>1, <1>2, <1>3, <1>4, <1>5, <1>6, <1>7, <1>8, <1>9, <1>10
     DEF Next, BudgetOp, IntentOp

(* The vault's state is always well typed, for every set of ids and        *)
(* amounts.                                                                *)
THEOREM TypeCorrect == Spec => []TypeOK
<1>1. Inv => TypeOK
  BY DEF Inv
<1>2. QED BY <1>1, InitInv, NextInv, PTL DEF Spec

(* No sequence of vault operations, restores included, overspends an       *)
(* envelope or lets its three stored amounts drift apart.                  *)
THEOREM BudgetCorrect == Spec => []BudgetSound
<1>1. Inv => BudgetSound
  BY DEF Inv
<1>2. QED BY <1>1, InitInv, NextInv, PTL DEF Spec

(* One step of the vault that is no restore leaves settled intents as they *)
(* are and never rewrites what a declared intent asked for.                *)
LEMMA HistoryStep ==
  ASSUME TypeOK, Next, ~restoreFromSnapshot, NEW i \in Intent
  PROVE  /\ status[i] \in Settled => status'[i] = status[i]
         /\ status[i] # "absent" => amount'[i] = amount[i] /\ envelopeOf'[i] = envelopeOf[i]
<1>1. CASE BudgetOp
  BY <1>1 DEF BudgetOp, createEnvelope, allocate, deallocate, intentVars
<1>2. CASE saveSnapshot
  BY <1>2 DEF saveSnapshot, intentVars
<1>3. CASE IntentOp
  <2>1. PICK j \in Intent :
          \/ \E a \in Amounts \cup {NoAmount}, e \in Envelope \cup {NoEnvelope} :
                declare(j, a, e)
          \/ approve(j) \/ reject(j) \/ markExecuting(j) \/ recordExecution(j)
          \/ verify(j) \/ recordFailure(j)
    BY <1>3 DEF IntentOp
  <2>2. CASE \E a \in Amounts \cup {NoAmount}, e \in Envelope \cup {NoEnvelope} :
               declare(j, a, e)
    BY <2>2 DEF declare, SetStatus, TypeOK, Settled
  <2>3. CASE approve(j) \/ reject(j) \/ markExecuting(j) \/ recordExecution(j)
             \/ verify(j) \/ recordFailure(j)
    <3>1. /\ UNCHANGED <<amount, envelopeOf>>
          /\ \E s \in IntentStatus : assertTransition(j, s) /\ SetStatus(j, s)
      BY <2>3 DEF approve, reject, markExecuting, recordExecution, verify,
                  recordFailure, IntentStatus
    <3>2. status[j] \notin Settled
      BY <3>1 DEF assertTransition, VALID_TRANSITIONS, Settled
    <3>3. QED BY <3>1, <3>2 DEF SetStatus, TypeOK
  <2>4. QED BY <2>1, <2>2, <2>3
<1>4. QED BY <1>1, <1>2, <1>3 DEF Next

(* Settled intents are final and declared amounts immutable in every       *)
(* behaviour, apart from replacing the vault by its snapshot.              *)
THEOREM HistoryFinal == Spec => IntentHistoryIsFinal
<1>1. TypeOK /\ [Next]_vars =>
        [~restoreFromSnapshot =>
           \A i \in Intent :
              /\ status[i] \in Settled => status'[i] = status[i]
              /\ status[i] # "absent" => /\ amount'[i] = amount[i]
                                         /\ envelopeOf'[i] = envelopeOf[i]]_vars
  <2> SUFFICES ASSUME TypeOK, Next, ~restoreFromSnapshot, NEW i \in Intent
               PROVE  /\ status[i] \in Settled => status'[i] = status[i]
                      /\ status[i] # "absent" => /\ amount'[i] = amount[i]
                                                 /\ envelopeOf'[i] = envelopeOf[i]
    OBVIOUS
  <2>1. QED BY HistoryStep
<1>2. QED BY <1>1, TypeCorrect, PTL DEF Spec, IntentHistoryIsFinal

-----------------------------------------------------------------------------
(* Every unit spent is accounted for                                       *)

(* The charged intents of a vault's state, live or saved, and the claim    *)
(* that each envelope's spent is their sum.  Only finitely many intents    *)
(* were ever executed, however many ids there are.                         *)
ChargedIn(st, am, en, e) ==
    {i \in Intent : en[i] = e /\ am[i] # NoAmount /\ st[i] \in {"executed", "verified"}}
AccountedIn(sp, st, am, en) ==
    \A e \in Envelope : /\ IsFiniteSet(ChargedIn(st, am, en, e))
                        /\ sp[e] = SumOver(am, ChargedIn(st, am, en, e))

Accounted == AccountedIn(spent, status, amount, envelopeOf)
SavedAccounted == AccountedIn(saved.spent, saved.status, saved.amount, saved.envelopeOf)

(* A step that charges and discharges nothing keeps the accounts.          *)
LEMMA SameCharges ==
  ASSUME Accounted, spent' = spent,
         \A e \in Envelope : ChargedIn(status', amount', envelopeOf', e)
                               = ChargedIn(status, amount, envelopeOf, e),
         \A e \in Envelope : \A i \in ChargedIn(status, amount, envelopeOf, e) :
            amount'[i] = amount[i]
  PROVE  Accounted'
<1> SUFFICES ASSUME NEW e \in Envelope
             PROVE  /\ IsFiniteSet(ChargedIn(status', amount', envelopeOf', e))
                    /\ spent'[e] = SumOver(amount', ChargedIn(status', amount', envelopeOf', e))
  BY DEF Accounted, AccountedIn
<1> DEFINE C == ChargedIn(status, amount, envelopeOf, e)
<1>1. /\ ChargedIn(status', amount', envelopeOf', e) = C
      /\ \A i \in C : amount'[i] = amount[i]
  OBVIOUS
<1>2. IsFiniteSet(C) /\ spent[e] = SumOver(amount, C)
  BY DEF Accounted, AccountedIn
<1> HIDE DEF C
<1>3. SumOver(amount', C) = SumOver(amount, C)
  BY <1>1, <1>2, SumSame
<1> QED BY <1>1, <1>2, <1>3

(* An execution adds its amount to the spent of its envelope, and its      *)
(* intent to those charged.                                                *)
LEMMA ExecutionAccounted ==
  ASSUME TypeOK, Accounted, NEW i \in Intent, recordExecution(i)
  PROVE  Accounted'
<1>1. /\ status[i] = "executing" /\ status' = [status EXCEPT ![i] = "executed"]
      /\ amount' = amount /\ envelopeOf' = envelopeOf
  BY DEF recordExecution, assertTransition, VALID_TRANSITIONS, SetStatus
<1>2. ASSUME NEW e \in Envelope, ~Linked(i) \/ envelopeOf[i] # e
      PROVE  ChargedIn(status', amount', envelopeOf', e)
                = ChargedIn(status, amount, envelopeOf, e)
  BY <1>1, <1>2, NoEnvelopeIsNoId DEF ChargedIn, Linked, TypeOK
<1>3. CASE ~Linked(i)
  <2>1. spent' = spent
    BY <1>3 DEF recordExecution, budgetVars
  <2> QED BY <1>1, <1>2, <1>3, <2>1, SameCharges
<1>4. CASE Linked(i)
  <2> SUFFICES ASSUME NEW e \in Envelope
               PROVE  /\ IsFiniteSet(ChargedIn(status', amount', envelopeOf', e))
                      /\ spent'[e] = SumOver(amount', ChargedIn(status', amount', envelopeOf', e))
    BY DEF Accounted, AccountedIn
  <2> DEFINE C == ChargedIn(status, amount, envelopeOf, e)
             D == ChargedIn(status', amount', envelopeOf', e)
  <2>1. /\ envelopeOf[i] \in Envelope
        /\ spent' = [spent EXCEPT ![envelopeOf[i]] = @ + amount[i]]
    BY <1>4 DEF recordExecution, spend, Linked, TypeOK
  <2>2. IsFiniteSet(C) /\ spent[e] = SumOver(amount, C)
    BY DEF Accounted, AccountedIn
  <2>3. CASE envelopeOf[i] # e
    <3>1. D = C /\ spent'[e] = spent[e]
      BY <1>2, <2>1, <2>3 DEF TypeOK
    <3> HIDE DEF C, D
    <3> QED BY <3>1, <2>2, <1>1 DEF D
  <2>4. CASE envelopeOf[i] = e
    <3>1. D = C \cup {i} /\ i \notin C
      BY <1>1, <1>4, <2>4 DEF ChargedIn, Linked, TypeOK
    <3>2. \A j \in C \cup {i} : amount[j] \in Int
      BY <1>4, AmountsAreIntegers DEF ChargedIn, Linked, TypeOK
    <3>3. spent'[e] = spent[e] + amount[i]
      BY <2>1, <2>4 DEF TypeOK
    <3>4. spent[e] \in Int
      BY DEF TypeOK
    <3> HIDE DEF C, D
    <3>5. SumOver(amount, C \cup {i}) = amount[i] + SumOver(amount, C)
      BY <2>2, <3>1, <3>2, SumAdd
    <3>6. IsFiniteSet(D)
      BY <2>2, <3>1, FS_AddElement
    <3>7. spent'[e] = SumOver(amount', D)
      BY <1>1, <2>2, <3>1, <3>2, <3>3, <3>4, <3>5
    <3> QED BY <3>6, <3>7 DEF D
  <2> QED BY <2>3, <2>4
<1> QED BY <1>3, <1>4

(* A failure gives back the amount of an executed intent, and takes it from*)
(* those charged.                                                          *)
LEMMA FailureAccounted ==
  ASSUME TypeOK, Accounted, NEW i \in Intent, recordFailure(i)
  PROVE  Accounted'
<1>1. /\ status[i] \in {"executing", "executed"} /\ status' = [status EXCEPT ![i] = "failed"]
      /\ amount' = amount /\ envelopeOf' = envelopeOf
  BY DEF recordFailure, assertTransition, VALID_TRANSITIONS, SetStatus
<1>2. ASSUME NEW e \in Envelope,
             ~(status[i] = "executed" /\ Linked(i)) \/ envelopeOf[i] # e
      PROVE  ChargedIn(status', amount', envelopeOf', e)
                = ChargedIn(status, amount, envelopeOf, e)
  BY <1>1, <1>2, NoEnvelopeIsNoId DEF ChargedIn, Linked, TypeOK
<1>3. CASE ~(status[i] = "executed" /\ Linked(i))
  <2>1. spent' = spent
    BY <1>3 DEF recordFailure, budgetVars
  <2> QED BY <1>1, <1>2, <1>3, <2>1, SameCharges
<1>4. CASE status[i] = "executed" /\ Linked(i)
  <2> SUFFICES ASSUME NEW e \in Envelope
               PROVE  /\ IsFiniteSet(ChargedIn(status', amount', envelopeOf', e))
                      /\ spent'[e] = SumOver(amount', ChargedIn(status', amount', envelopeOf', e))
    BY DEF Accounted, AccountedIn
  <2> DEFINE C == ChargedIn(status, amount, envelopeOf, e)
             D == ChargedIn(status', amount', envelopeOf', e)
  <2>1. /\ envelopeOf[i] \in Envelope
        /\ spent' = [spent EXCEPT ![envelopeOf[i]] = @ - amount[i]]
    BY <1>4 DEF recordFailure, reverseSpend, Linked, TypeOK
  <2>2. IsFiniteSet(C) /\ spent[e] = SumOver(amount, C)
    BY DEF Accounted, AccountedIn
  <2>3. CASE envelopeOf[i] # e
    <3>1. D = C /\ spent'[e] = spent[e]
      BY <1>2, <2>1, <2>3 DEF TypeOK
    <3> HIDE DEF C, D
    <3> QED BY <3>1, <2>2, <1>1 DEF D
  <2>4. CASE envelopeOf[i] = e
    <3>1. D = C \ {i} /\ i \in C
      BY <1>1, <1>4, <2>4 DEF ChargedIn, Linked, TypeOK
    <3>2. \A j \in C : amount[j] \in Int
      BY AmountsAreIntegers DEF ChargedIn, TypeOK
    <3>3. spent'[e] = spent[e] - amount[i]
      BY <2>1, <2>4 DEF TypeOK
    <3> HIDE DEF C, D
    <3>4. IsFiniteSet(D)
      BY <2>2, <3>1, FS_Subset
    <3>5. SumOver(amount, C) = amount[i] + SumOver(amount, C \ {i})
      BY <2>2, <3>1, <3>2, SumRemove
    <3>6. SumOver(amount, D) \in Int
      BY <3>1, <3>2, <3>4, SumType
    <3>7. spent'[e] = SumOver(amount', D)
      BY <1>1, <2>2, <3>1, <3>2, <3>3, <3>5, <3>6
    <3> QED BY <3>4, <3>7 DEF D
  <2> QED BY <2>3, <2>4
<1> QED BY <1>3, <1>4

(* A new vault has spent nothing.                                          *)
LEMMA InitAccounted == Init => Accounted /\ SavedAccounted
<1> SUFFICES ASSUME Init PROVE Accounted /\ SavedAccounted
  OBVIOUS
<1>1. \A e \in Envelope : ChargedIn(status, amount, envelopeOf, e) = {} /\ spent[e] = 0
  BY NoEnvelopeIsNoId DEF Init, ChargedIn
<1>2. Accounted
  BY <1>1, SumEmpty, FS_EmptySet DEF Accounted, AccountedIn
<1>3. /\ saved.spent = spent /\ saved.status = status /\ saved.amount = amount
      /\ saved.envelopeOf = envelopeOf
  BY DEF Init, snapshot
<1> QED BY <1>2, <1>3 DEF Accounted, SavedAccounted

(* Live and saved vault stay accounted for.                                *)
LEMMA NextAccounted ==
  TypeOK /\ Accounted /\ SavedAccounted /\ [Next]_vars => Accounted' /\ SavedAccounted'
<1> SUFFICES ASSUME TypeOK, Accounted, SavedAccounted, [Next]_vars
             PROVE  Accounted' /\ SavedAccounted'
  OBVIOUS
<1>1. CASE UNCHANGED vars
  BY <1>1 DEF vars, Accounted, SavedAccounted
<1>2. CASE BudgetOp
  BY <1>2 DEF BudgetOp, createEnvelope, allocate, deallocate, intentVars,
              Accounted, SavedAccounted
<1>3. ASSUME NEW i \in Intent, NEW a \in Amounts \cup {NoAmount},
             NEW e \in Envelope \cup {NoEnvelope}, declare(i, a, e)
      PROVE  Accounted' /\ SavedAccounted'
  <2>1. /\ status[i] = "absent" /\ status' = [status EXCEPT ![i] = "declared"]
        /\ amount' = [amount EXCEPT ![i] = a]
        /\ envelopeOf' = [envelopeOf EXCEPT ![i] = e]
        /\ spent' = spent /\ saved' = saved
    BY <1>3 DEF declare, SetStatus, budgetVars
  <2>2. \A f \in Envelope : ChargedIn(status', amount', envelopeOf', f)
                              = ChargedIn(status, amount, envelopeOf, f)
    BY <2>1 DEF ChargedIn, TypeOK
  <2>3. \A f \in Envelope : \A j \in ChargedIn(status, amount, envelopeOf, f) :
            amount'[j] = amount[j]
    BY <2>1 DEF ChargedIn, TypeOK
  <2> QED BY <2>1, <2>2, <2>3, SameCharges DEF SavedAccounted
<1>4. ASSUME NEW i \in Intent, approve(i) \/ reject(i) \/ markExecuting(i) \/ verify(i)
      PROVE  Accounted' /\ SavedAccounted'
  <2>1. /\ \/ /\ status[i] \notin {"executed", "verified"}
              /\ status'[i] \notin {"executed", "verified"}
           \/ status[i] = "executed" /\ status'[i] = "verified"
        /\ \A j \in Intent \ {i} : status'[j] = status[j]
        /\ amount' = amount /\ envelopeOf' = envelopeOf /\ spent' = spent /\ saved' = saved
    BY <1>4 DEF approve, reject, markExecuting, verify, SetStatus, assertTransition,
                VALID_TRANSITIONS, budgetVars, TypeOK
  <2>2. \A f \in Envelope : ChargedIn(status', amount', envelopeOf', f)
                              = ChargedIn(status, amount, envelopeOf, f)
    BY <2>1 DEF ChargedIn
  <2> QED BY <2>1, <2>2, SameCharges DEF SavedAccounted
<1>5. ASSUME NEW i \in Intent, recordExecution(i)
      PROVE  Accounted' /\ SavedAccounted'
  BY <1>5, ExecutionAccounted DEF recordExecution, SavedAccounted
<1>6. ASSUME NEW i \in Intent, recordFailure(i)
      PROVE  Accounted' /\ SavedAccounted'
  BY <1>6, FailureAccounted DEF recordFailure, SavedAccounted
<1>7. CASE saveSnapshot
  <2>1. /\ saved'.spent = spent /\ saved'.status = status /\ saved'.amount = amount
        /\ saved'.envelopeOf = envelopeOf /\ UNCHANGED <<budgetVars, intentVars>>
    BY <1>7 DEF saveSnapshot, snapshot
  <2> QED BY <2>1 DEF Accounted, SavedAccounted, budgetVars, intentVars
<1>8. CASE restoreFromSnapshot
  BY <1>8 DEF restoreFromSnapshot, Accounted, SavedAccounted
<1> QED BY <1>1, <1>2, <1>3, <1>4, <1>5, <1>6, <1>7, <1>8 DEF Next, IntentOp

(* Every unit an envelope counts as spent belongs to an intent that was    *)
(* executed and has not failed: no sequence of executions, failures,       *)
(* saves and restores charges twice or forgets to give back.               *)
THEOREM SpendCorrect == Spec => []SpendIsAccounted
<1>1. Accounted => SpendIsAccounted
  <2> SUFFICES ASSUME Accounted, NEW e \in Envelope
               PROVE  spent[e] = MapThenSumSet(LAMBDA i : amount[i], Charged(e))
    BY DEF SpendIsAccounted
  <2>1. Charged(e) = ChargedIn(status, amount, envelopeOf, e)
    BY DEF Charged, ChargedIn
  <2>2. spent[e] = SumOver(amount, Charged(e))
    BY <2>1 DEF Accounted, AccountedIn
  <2> QED BY <2>2 DEF SumOver
<1>2. QED BY <1>1, InitAccounted, NextAccounted, TypeCorrect, PTL DEF Spec


-----------------------------------------------------------------------------
(* The ledger: what append() checks batch by batch holds of the whole      *)

(* Entries as the ledger keeps them: a sequence with integer amounts.      *)
IsBook(es) == IsSequence(es) /\ \A i \in DOMAIN es : es[i].scaled \in Int

AmountsIn(es) == [i \in DOMAIN es |-> es[i].scaled]

(* The entries that a Sum is taken over.                                   *)
Picked(es, type, A, C) == {i \in DOMAIN es : /\ es[i].type = type
                                             /\ es[i].accountId \in A
                                             /\ es[i].currency \in C}

(* The amounts of one currency, credits negative, and what they add up to. *)
SignedAmounts(es, c) ==
    [i \in DOMAIN es |-> IF i \in Picked(es, "debit", AccountIds(es), {c}) THEN es[i].scaled
                         ELSE IF i \in Picked(es, "credit", AccountIds(es), {c}) THEN -es[i].scaled
                         ELSE 0]

Balance(es, c) == SumOver(SignedAmounts(es, c), DOMAIN es)

(* MapThenSumSet of each expression the model sums is a sum of a function. *)
ScaledSolves(g, es, S) ==
    g = [s \in SUBSET S |-> IF s = {} THEN 0 ELSE es[Pick(s)].scaled + g[s \ {Pick(s)}]]

(* The ledger's sum of amounts, as SumOver.                                *)
LEMMA ScaledSum ==
    ASSUME NEW es, NEW S
    PROVE  MapThenSumSet(LAMBDA i : es[i].scaled, S) = SumOver([i \in S |-> es[i].scaled], S)
<1> DEFINE f == [i \in S |-> es[i].scaled]
<1>1. MapThenSumSet(LAMBDA i : es[i].scaled, S) = (CHOOSE g : ScaledSolves(g, es, S))[S]
  BY DEF ScaledSolves, MapThenSumSet, MapThenFoldSet, Pick
<1>2. SumOver(f, S) = (CHOOSE g : Solves(g, S, f))[S]
  BY SumOverDef
<1>3. \A s \in SUBSET S : s # {} => f[Pick(s)] = es[Pick(s)].scaled
  BY DEF Pick
<1> HIDE DEF f
<1>4. ASSUME NEW g PROVE ScaledSolves(g, es, S) <=> Solves(g, S, f)
  <2>1. [s \in SUBSET S |-> IF s = {} THEN 0 ELSE es[Pick(s)].scaled + g[s \ {Pick(s)}]]
        = [s \in SUBSET S |-> IF s = {} THEN 0 ELSE f[Pick(s)] + g[s \ {Pick(s)}]]
    BY <1>3
  <2> QED BY <2>1 DEF Solves, ScaledSolves
<1>5. (CHOOSE g : ScaledSolves(g, es, S)) = (CHOOSE g : Solves(g, S, f))
  BY <1>4
<1> QED BY <1>1, <1>2, <1>5 DEF f

NetSolves(g, es, S) ==
    g = [s \in SUBSET S |-> IF s = {} THEN 0 ELSE Net(es, Pick(s)) + g[s \ {Pick(s)}]]

(* The sum of the accumulators' nets, as SumOver.                          *)
LEMMA NetSum ==
    ASSUME NEW es, NEW S
    PROVE  MapThenSumSet(LAMBDA k : Net(es, k), S) = SumOver([k \in S |-> Net(es, k)], S)
<1> DEFINE f == [k \in S |-> Net(es, k)]
<1>1. MapThenSumSet(LAMBDA k : Net(es, k), S) = (CHOOSE g : NetSolves(g, es, S))[S]
  BY DEF NetSolves, MapThenSumSet, MapThenFoldSet, Pick
<1>2. SumOver(f, S) = (CHOOSE g : Solves(g, S, f))[S]
  BY SumOverDef
<1>3. \A s \in SUBSET S : s # {} => f[Pick(s)] = Net(es, Pick(s))
  BY DEF Pick
<1> HIDE DEF f
<1>4. ASSUME NEW g PROVE NetSolves(g, es, S) <=> Solves(g, S, f)
  <2>1. [s \in SUBSET S |-> IF s = {} THEN 0 ELSE Net(es, Pick(s)) + g[s \ {Pick(s)}]]
        = [s \in SUBSET S |-> IF s = {} THEN 0 ELSE f[Pick(s)] + g[s \ {Pick(s)}]]
    BY <1>3
  <2> QED BY <2>1 DEF Solves, NetSolves
<1>5. (CHOOSE g : NetSolves(g, es, S)) = (CHOOSE g : Solves(g, S, f))
  BY <1>4
<1> QED BY <1>1, <1>2, <1>5 DEF f

DebtSolves(g, es, S) ==
    g = [s \in SUBSET S |-> IF s = {} THEN 0 ELSE -Net(es, Pick(s)) + g[s \ {Pick(s)}]]

(* The sum of the accumulators' nets with the sign turned, as SumOver.     *)
LEMMA DebtSum ==
    ASSUME NEW es, NEW S
    PROVE  MapThenSumSet(LAMBDA k : -Net(es, k), S) = SumOver([k \in S |-> -Net(es, k)], S)
<1> DEFINE f == [k \in S |-> -Net(es, k)]
<1>1. MapThenSumSet(LAMBDA k : -Net(es, k), S) = (CHOOSE g : DebtSolves(g, es, S))[S]
  BY DEF DebtSolves, MapThenSumSet, MapThenFoldSet, Pick
<1>2. SumOver(f, S) = (CHOOSE g : Solves(g, S, f))[S]
  BY SumOverDef
<1>3. \A s \in SUBSET S : s # {} => f[Pick(s)] = -Net(es, Pick(s))
  BY DEF Pick
<1> HIDE DEF f
<1>4. ASSUME NEW g PROVE DebtSolves(g, es, S) <=> Solves(g, S, f)
  <2>1. [s \in SUBSET S |-> IF s = {} THEN 0 ELSE -Net(es, Pick(s)) + g[s \ {Pick(s)}]]
        = [s \in SUBSET S |-> IF s = {} THEN 0 ELSE f[Pick(s)] + g[s \ {Pick(s)}]]
    BY <1>3
  <2> QED BY <2>1 DEF Solves, DebtSolves
<1>5. (CHOOSE g : DebtSolves(g, es, S)) = (CHOOSE g : Solves(g, S, f))
  BY <1>4
<1>6. MapThenSumSet(LAMBDA k : -Net(es, k), S) = SumOver(f, S)
  BY <1>1, <1>2, <1>5, Zenon
<1> QED BY <1>6, Zenon DEF f

(* The model's Sum adds the amounts it picks.                              *)
LEMMA SumIs ==
    ASSUME NEW es, IsBook(es), NEW type, NEW A, NEW C
    PROVE  /\ Sum(es, type, A, C) = SumOver(AmountsIn(es), Picked(es, type, A, C))
           /\ Sum(es, type, A, C) \in Int
<1> DEFINE S == Picked(es, type, A, C)
           f == [i \in S |-> es[i].scaled]
<1>1. Sum(es, type, A, C) = SumOver(f, S)
  BY ScaledSum DEF Sum, Picked
<1>2. IsFiniteSet(DOMAIN es) /\ S \in SUBSET DOMAIN es
  <2>1. DOMAIN es = 1..Len(es) /\ Len(es) \in Nat
    BY DEF IsBook, IsSequence
  <2> QED BY <2>1, FS_Interval DEF Picked
<1>3. IsFiniteSet(S) /\ \A i \in S : f[i] = AmountsIn(es)[i] /\ f[i] \in Int
  BY <1>2, FS_Subset DEF AmountsIn, IsBook
<1> HIDE DEF S, f
<1> QED BY <1>1, <1>3, SumSame, SumType DEF S
(* The entries of a book are finitely many and their amounts are integers. *)
LEMMA BookDomain ==
    ASSUME NEW es, IsBook(es)
    PROVE  /\ Len(es) \in Nat /\ DOMAIN es = 1..Len(es) /\ IsFiniteSet(DOMAIN es)
           /\ \A i \in DOMAIN es : AmountsIn(es)[i] \in Int
           /\ \A c : \A i \in DOMAIN es : SignedAmounts(es, c)[i] \in Int
<1>1. DOMAIN es = 1..Len(es) /\ Len(es) \in Nat
  BY DEF IsBook, IsSequence
<1>2. \A i \in DOMAIN es : es[i].scaled \in Int /\ -es[i].scaled \in Int
  BY DEF IsBook
<1>3. IsFiniteSet(DOMAIN es)
  BY <1>1, FS_Interval
<1> QED BY <1>1, <1>2, <1>3 DEF AmountsIn, SignedAmounts

(* The entries of some accounts add up to the difference of their sides.   *)
LEMMA SidesOf ==
    ASSUME NEW es, IsBook(es), NEW c, NEW A \in SUBSET AccountIds(es)
    PROVE  SumOver(SignedAmounts(es, c), {i \in DOMAIN es : es[i].accountId \in A})
               = Sum(es, "debit", A, {c}) - Sum(es, "credit", A, {c})
<1> DEFINE S == {i \in DOMAIN es : es[i].accountId \in A}
           P == Picked(es, "debit", AccountIds(es), {c})
           Q == Picked(es, "credit", AccountIds(es), {c})
           v == SignedAmounts(es, c)
           x == AmountsIn(es)
<1>1. S \cap P = Picked(es, "debit", A, {c}) /\ S \cap Q = Picked(es, "credit", A, {c})
  BY DEF Picked
<1>2. P \cap Q = {}
  BY DEF Picked
<1>3. IsFiniteSet(S)
  BY BookDomain, FS_Subset
<1>4. \A i \in S : x[i] \in Int
  BY BookDomain
<1>4a. \A i \in S \cap P : v[i] = x[i]
  BY DEF AmountsIn, SignedAmounts
<1>4b. \A i \in S \cap Q : v[i] = -x[i]
  <2>1. \A i \in S \cap Q : v[i] = -es[i].scaled
    BY <1>2 DEF SignedAmounts
  <2>2. \A i \in S : x[i] = es[i].scaled
    BY DEF AmountsIn
  <2> QED BY <2>1, <2>2
<1>4c. \A i \in S : i \notin P /\ i \notin Q => v[i] = 0
  BY DEF SignedAmounts
<1>5. SumOver(v, S) = SumOver(x, S \cap P) - SumOver(x, S \cap Q)
  <2> HIDE DEF S, P, Q, v, x
  <2>1. Signs(v, x, S, P, Q)
    BY <1>2, <1>4, <1>4a, <1>4b, <1>4c DEF Signs
  <2> QED BY <1>3, <2>1, SumSigned
<1>6. /\ Sum(es, "debit", A, {c}) = SumOver(x, S \cap P)
      /\ Sum(es, "credit", A, {c}) = SumOver(x, S \cap Q)
  <2>1. /\ Sum(es, "debit", A, {c}) = SumOver(x, Picked(es, "debit", A, {c}))
        /\ Sum(es, "credit", A, {c}) = SumOver(x, Picked(es, "credit", A, {c}))
    BY SumIs
  <2> HIDE DEF S, P, Q
  <2> QED BY <1>1, <2>1
<1> QED BY <1>5, <1>6

(* A batch that _assertBalanced accepts adds up to nothing in any currency.*)
LEMMA BalancedAddsNothing ==
    ASSUME NEW es, IsBook(es), _assertBalanced(es), NEW c
    PROVE  Balance(es, c) = 0
<1> DEFINE A == AccountIds(es)
<1>1. CASE c \in Currencies(es)
  <2>1. Sum(es, "debit", A, {c}) = Sum(es, "credit", A, {c})
    BY <1>1 DEF _assertBalanced
  <2>2. {i \in DOMAIN es : es[i].accountId \in A} = DOMAIN es
    BY DEF AccountIds
  <2>3. Balance(es, c) = Sum(es, "debit", A, {c}) - Sum(es, "credit", A, {c})
    BY <2>2, SidesOf DEF Balance
  <2>4. Sum(es, "credit", A, {c}) \in Int
    BY SumIs
  <2> HIDE DEF A
  <2> QED BY <2>1, <2>3, <2>4
<1>2. CASE c \notin Currencies(es)
  <2>1. \A i \in DOMAIN es : SignedAmounts(es, c)[i] = 0
    BY <1>2 DEF SignedAmounts, Picked, Currencies
  <2> QED BY <2>1, BookDomain, SumZero DEF Balance
<1> QED BY <1>1, <1>2

(* Appending adds the batch to the balance.                                *)
LEMMA AppendAdds ==
    ASSUME NEW es, NEW fs, IsBook(es), IsBook(fs), NEW c
    PROVE  IsBook(es \o fs) /\ Balance(es \o fs, c) = Balance(es, c) + Balance(fs, c)
<1> DEFINE n == Len(es)
           m == Len(fs)
           b == es \o fs
<1>0. n \in Nat /\ m \in Nat /\ DOMAIN es = 1..n /\ DOMAIN fs = 1..m
  BY BookDomain
<1>1. /\ IsSequence(b) /\ DOMAIN b = 1..(n + m)
      /\ \A i \in 1..n : b[i] = es[i]
      /\ \A j \in 1..m : b[n + j] = fs[j]
  <2>1. PICK S : es \in Seq(S) /\ fs \in Seq(S)
    BY SequencesTogether DEF IsBook
  <2>2. b \in Seq(S)
    BY <2>1
  <2>3. /\ DOMAIN b = 1..(n + m)
        /\ \A i \in 1..n : b[i] = es[i]
        /\ \A j \in 1..m : b[n + j] = fs[j]
    BY <2>1, <1>0
  <2> QED BY <2>2, <2>3, SequenceIntro
<1> HIDE DEF n, m, b
<1>2. ASSUME NEW i \in 1..(n + m), i \notin 1..n PROVE \E j \in 1..m : i = n + j
  <2>1. i - n \in 1..m /\ i = n + (i - n)
    BY <1>0, <1>2
  <2> QED BY <2>1
<1>3. IsBook(b)
  <2>1. ASSUME NEW i \in DOMAIN b PROVE b[i].scaled \in Int
    <3>1. CASE i \in 1..n
      BY <1>0, <1>1, <3>1 DEF IsBook
    <3>2. CASE i \notin 1..n
      <4>1. PICK j \in 1..m : i = n + j
        BY <1>1, <1>2, <3>2
      <4> QED BY <1>0, <1>1, <4>1 DEF IsBook
    <3> QED BY <3>1, <3>2
  <2> QED BY <1>1, <2>1 DEF IsBook
<1> DEFINE f == SignedAmounts(b, c)
           g == SignedAmounts(es, c)
           h == SignedAmounts(fs, c)
<1>4. \A i \in 1..n : g[i] \in Int /\ f[i] = g[i]
  <2> TAKE i \in 1..n
  <2>1. i \in DOMAIN b /\ b[i] = es[i] /\ i \in DOMAIN es
    BY <1>0, <1>1
  <2> QED BY <2>1, BookDomain DEF SignedAmounts, Picked, AccountIds
<1>5. \A j \in 1..m : h[j] \in Int /\ f[n + j] = h[j]
  <2> TAKE j \in 1..m
  <2>1. n + j \in DOMAIN b /\ b[n + j] = fs[j] /\ j \in DOMAIN fs
    BY <1>0, <1>1
  <2> QED BY <2>1, BookDomain DEF SignedAmounts, Picked, AccountIds
<1>6. SumOver(f, 1..(n + m)) = SumOver(g, 1..n) + SumOver(h, 1..m)
  <2> HIDE DEF f, g, h
  <2> QED BY <1>0, <1>4, <1>5, SumConcat
<1> QED BY <1>0, <1>1, <1>3, <1>6 DEF Balance, b, n, m

(* The books: every entry is on a registered account, and no currency has  *)
(* anything left over.                                                     *)
Sound(l) ==
    /\ IsBook(l.entries) /\ IsFiniteSet(l.accounts)
    /\ AccountIds(l.entries) \subseteq l.accounts
    /\ \A c : Balance(l.entries, c) = 0

(* The net of an accumulator all of whose entries are in one currency is   *)
(* what they add up to.                                                    *)
LEMMA KeyNet ==
    ASSUME NEW es, IsBook(es), NEW k, NEW c, \A i \in Accumulated(es, k) : es[i].currency = c
    PROVE  /\ Net(es, k) = SumOver(SignedAmounts(es, c), Accumulated(es, k))
           /\ Net(es, k) \in Int
<1> DEFINE S == Accumulated(es, k)
           D == {i \in S : es[i].type = "debit"}
           C == {i \in S : es[i].type = "credit"}
           P == Picked(es, "debit", AccountIds(es), {c})
           Q == Picked(es, "credit", AccountIds(es), {c})
           v == SignedAmounts(es, c)
           x == AmountsIn(es)
<1>0. S \subseteq DOMAIN es /\ IsFiniteSet(S) /\ IsFiniteSet(D) /\ IsFiniteSet(C)
  <2>1. S \subseteq DOMAIN es /\ D \subseteq S /\ C \subseteq S
    BY DEF Accumulated
  <2> HIDE DEF S, D, C
  <2> QED BY <2>1, BookDomain, FS_Subset
<1>1. S \cap P = D /\ S \cap Q = C
  BY <1>0 DEF Picked, AccountIds
<1>2. P \cap Q = {}
  BY DEF Picked
<1>3. \A i \in S : x[i] = es[i].scaled /\ x[i] \in Int
  BY <1>0 DEF AmountsIn, IsBook
<1>4. /\ MapThenSumSet(LAMBDA i : es[i].scaled, D) = SumOver(x, D)
      /\ MapThenSumSet(LAMBDA i : es[i].scaled, C) = SumOver(x, C)
  <2>1. /\ MapThenSumSet(LAMBDA i : es[i].scaled, D) = SumOver([i \in D |-> es[i].scaled], D)
        /\ MapThenSumSet(LAMBDA i : es[i].scaled, C) = SumOver([i \in C |-> es[i].scaled], C)
    BY ScaledSum
  <2>2. /\ \A i \in D : [j \in D |-> es[j].scaled][i] = x[i]
        /\ \A i \in C : [j \in C |-> es[j].scaled][i] = x[i]
    BY <1>3
  <2> HIDE DEF D, C, x
  <2> QED BY <1>0, <2>1, <2>2, SumSame
<1>5. Net(es, k) = SumOver(x, D) - SumOver(x, C)
  BY <1>4 DEF Net
<1>6. SumOver(x, D) \in Int /\ SumOver(x, C) \in Int
  <2>1. (\A i \in D : x[i] \in Int) /\ \A i \in C : x[i] \in Int
    BY <1>3
  <2> HIDE DEF D, C, x
  <2> QED BY <1>0, <2>1, SumType
<1>7. SumOver(v, S) = SumOver(x, S \cap P) - SumOver(x, S \cap Q)
  <2>1. \A i \in S \cap P : v[i] = x[i]
    BY <1>0, <1>3 DEF SignedAmounts
  <2>2. \A i \in S \cap Q : v[i] = -x[i]
    <3>1. \A i \in S \cap Q : v[i] = -es[i].scaled
      BY <1>0, <1>2 DEF SignedAmounts
    <3> QED BY <1>3, <3>1
  <2>3. \A i \in S : i \notin P /\ i \notin Q => v[i] = 0
    BY <1>0 DEF SignedAmounts
  <2> HIDE DEF S, P, Q, v, x
  <2>4. Signs(v, x, S, P, Q)
    BY <1>2, <1>3, <2>1, <2>2, <2>3 DEF Signs
  <2> QED BY <1>0, <2>4, SumSigned
<1> HIDE DEF v, x, S, D, C, P, Q
<1>8. SumOver(v, S) = SumOver(x, D) - SumOver(x, C)
  BY <1>1, <1>7, Zenon
<1>9. Net(es, k) = SumOver(v, S) /\ Net(es, k) \in Int
  BY <1>5, <1>6, <1>8
<1> QED BY <1>9 DEF v, S

(* The accumulators: finitely many, and where no two currencies share a    *)
(* key the entries of each are in its currency.                            *)
LEMMA KeyFacts ==
    ASSUME NEW es, IsBook(es)
    PROVE  /\ IsFiniteSet(Keys(es))
           /\ \A k \in Keys(es) :
                /\ Min(Accumulated(es, k)) \in Accumulated(es, k)
                /\ OneCurrencyPerKey(es) =>
                     \A i \in Accumulated(es, k) : es[i].currency = currencyOf(es, k)
<1>0. DOMAIN es \in SUBSET Nat /\ IsFiniteSet(DOMAIN es)
  BY BookDomain
<1>1. IsFiniteSet(Keys(es))
  <2> DEFINE f == [i \in DOMAIN es |-> balanceKey(es[i])]
  <2>1. f \in Surjection(DOMAIN es, Keys(es))
    BY DEF Surjection, Keys
  <2> HIDE DEF f
  <2> QED BY <1>0, <2>1, FS_Surjection
<1>2. ASSUME NEW k \in Keys(es)
      PROVE  /\ Min(Accumulated(es, k)) \in Accumulated(es, k)
             /\ OneCurrencyPerKey(es) =>
                  \A i \in Accumulated(es, k) : es[i].currency = currencyOf(es, k)
  <2> DEFINE S == Accumulated(es, k)
  <2>1. S # {} /\ S \in SUBSET Nat
    BY <1>0 DEF Accumulated, Keys
  <2> HIDE DEF S
  <2>2. PICK m \in S : \A y \in S : m <= y
    BY <2>1, LeastNatural
  <2>3. Min(S) \in S
    BY <2>2 DEF Min
  <2>4. OneCurrencyPerKey(es) => \A i \in S : es[i].currency = es[Min(S)].currency
    BY <2>3 DEF OneCurrencyPerKey, Accumulated, S
  <2> QED BY <2>3, <2>4 DEF currencyOf, S
<1> QED BY <1>1, <1>2

(* A sequence that ends with one element more.                             *)
LEMMA LastOf ==
    ASSUME NEW d, NEW c, IsSequence(d), IsSequence(c), Len(c) = 1
    PROVE  (d \o c)[Len(d \o c)] = c[1]
<1>1. /\ IsSequence(d \o c) /\ Len(d \o c) = Len(d) + Len(c)
      /\ Len(d) \in Nat /\ Len(c) \in Nat
      /\ \A i \in 1..Len(d) : (d \o c)[i] = d[i]
      /\ \A i \in 1..Len(c) : (d \o c)[Len(d) + i] = c[i]
  BY ConcatElements
<1>2. 1 \in 1..Len(c)
  OBVIOUS
<1>3. (d \o c)[Len(d) + 1] = c[1]
  BY <1>1, <1>2, Zenon
<1> QED BY <1>1, <1>3

(* A joined id ends with its last part.                                    *)
LEMMA LastPart ==
    ASSUME NEW T, NEW a \in Seq(T), NEW k \in T, NEW c \in Seq(T), Len(c) = 1
    PROVE  c = <<(a \o <<k>> \o c)[Len(a \o <<k>> \o c)]>>
<1> DEFINE d == a \o <<k>>
<1>1. d \in Seq(T) /\ IsSequence(c)
  BY SequenceIntro
<1> HIDE DEF d
<1>2. (d \o c)[Len(d \o c)] = c[1]
  BY <1>1, SequenceIntro, LastOf
<1>3. c = <<c[1]>>
  OBVIOUS
<1> QED BY <1>2, <1>3 DEF d

(* Currencies without a colon, which are one part each, never share a      *)
(* balance key: the key ends with its currency.                            *)
LEMMA KeysTellCurrencies ==
    ASSUME NEW es, NEW S, "" \in S,
           \A i \in DOMAIN es : /\ es[i].accountId \in Seq(S)
                                /\ es[i].currency \in Seq(S) /\ Len(es[i].currency) = 1
    PROVE  OneCurrencyPerKey(es)
<1> DEFINE last(k) == <<k[Len(k)]>>
<1>1. ASSUME NEW i \in DOMAIN es
      PROVE  es[i].currency = last(balanceKey(es[i]))
  <2> DEFINE a == es[i].accountId
             c == es[i].currency
             k == ""
  <2>1. a \in Seq(S) /\ c \in Seq(S) /\ Len(c) = 1 /\ k \in S
    OBVIOUS
  <2>2. balanceKey(es[i]) = a \o <<k>> \o c
    BY DEF balanceKey
  <2> HIDE DEF a, c, k
  <2>3. c = <<(a \o <<k>> \o c)[Len(a \o <<k>> \o c)]>>
    BY <2>1, LastPart
  <2>4. c = last(balanceKey(es[i]))
    BY <2>2, <2>3
  <2> QED BY <2>4 DEF c
<1> HIDE DEF last
<1> QED BY <1>1 DEF OneCurrencyPerKey

(* Sound books whose currencies share no key pass assertTrialBalanced: the *)
(* nets in a currency add up to zero, so the positive ones are worth the   *)
(* negative ones.                                                          *)
LEMMA SoundIsBalanced ==
    ASSUME NEW l, Sound(l), OneCurrencyPerKey(l.entries)
    PROVE  TrialBalanced(l)
<1> SUFFICES ASSUME NEW c \in Currencies(l.entries)
             PROVE  DebitColumn(l, c) = CreditColumn(l, c)
  BY DEF TrialBalanced
<1> DEFINE es == l.entries
           K == Keys(es)
           v == SignedAmounts(es, c)
           key == [i \in DOMAIN es |-> balanceKey(es[i])]
           net == [k \in K |-> SumOver(v, {i \in DOMAIN es : key[i] = k})]
           size == [k \in K |-> IF net[k] >= 0 THEN net[k] ELSE -net[k]]
           P == {k \in K : currencyOf(es, k) = c /\ Net(es, k) >= 0}
           Q == {k \in K : currencyOf(es, k) = c /\ Net(es, k) < 0}
<1>0. IsBook(es) /\ IsFiniteSet(K) /\ IsFiniteSet(P) /\ IsFiniteSet(Q)
  <2>1. IsBook(es) /\ IsFiniteSet(K)
    BY KeyFacts DEF Sound
  <2>2. P \subseteq K /\ Q \subseteq K
    OBVIOUS
  <2> HIDE DEF es, K, P, Q
  <2> QED BY <2>1, <2>2, FS_Subset
<1>a. \A k \in K : net[k] = SumOver(v, Accumulated(es, k))
  <2>1. \A k \in K : {i \in DOMAIN es : key[i] = k} = Accumulated(es, k)
    BY DEF Accumulated
  <2> QED BY <2>1
<1>b. \A k \in K : currencyOf(es, k) = c => net[k] = Net(es, k) /\ net[k] \in Int
  <2> SUFFICES ASSUME NEW k \in K, currencyOf(es, k) = c
               PROVE  net[k] = Net(es, k) /\ net[k] \in Int
    OBVIOUS
  <2>1. \A i \in Accumulated(es, k) : es[i].currency = c
    BY <1>0, KeyFacts
  <2>2. Net(es, k) = SumOver(v, Accumulated(es, k)) /\ Net(es, k) \in Int
    BY <1>0, <2>1, KeyNet
  <2> QED BY <1>a, <2>2
<1>d. \A k \in K : currencyOf(es, k) # c => net[k] = 0
  <2> SUFFICES ASSUME NEW k \in K, currencyOf(es, k) # c
               PROVE  net[k] = 0
    OBVIOUS
  <2>1. \A i \in Accumulated(es, k) : es[i].currency # c
    BY <1>0, KeyFacts
  <2>2. \A i \in Accumulated(es, k) : v[i] = 0
    BY <2>1 DEF SignedAmounts, Picked, Accumulated
  <2>3. IsFiniteSet(Accumulated(es, k))
    <3>1. Accumulated(es, k) \subseteq DOMAIN es
      BY DEF Accumulated
    <3> QED BY <1>0, <3>1, BookDomain, FS_Subset
  <2>4. SumOver(v, Accumulated(es, k)) = 0
    <3> HIDE DEF v
    <3> QED BY <2>2, <2>3, SumZero
  <2> QED BY <1>a, <2>4
<1>n. \A k \in K : net[k] \in Int
  <2> HIDE DEF net
  <2> QED BY <1>b, <1>d
<1>1. SumOver(net, K) = 0
  <2>2. \A i \in DOMAIN es : v[i] \in Int /\ key[i] \in K
    <3>1. \A i \in DOMAIN es : v[i] \in Int
      BY <1>0, BookDomain
    <3>2. \A i \in DOMAIN es : key[i] \in K
      BY DEF Keys
    <3> QED BY <3>1, <3>2
  <2>3. IsFiniteSet(DOMAIN es)
    BY <1>0, BookDomain
  <2>4. SumOver(net, K) = SumOver(v, DOMAIN es)
    <3> HIDE DEF es, K, v, key
    <3> QED BY <1>0, <2>2, <2>3, SumPartition
  <2>5. SumOver(v, DOMAIN es) = 0
    BY DEF Sound, Balance
  <2> QED BY <2>4, <2>5
<1> HIDE DEF net
<1>p. P \subseteq K /\ Q \subseteq K /\ P \cap Q = {}
  <2>1. P \subseteq K /\ Q \subseteq K
    OBVIOUS
  <2>2. \A k \in P : net[k] >= 0 /\ net[k] \in Int
    BY <1>b
  <2>3. \A k \in Q : net[k] < 0 /\ net[k] \in Int
    BY <1>b
  <2> HIDE DEF P, Q
  <2> QED BY <2>1, <2>2, <2>3
<1>2. SumOver(net, K) = SumOver(size, K \cap P) - SumOver(size, K \cap Q)
  <2>1. \A k \in K : size[k] \in Int
    BY <1>n
  <2>2. \A k \in K \cap P : net[k] = size[k]
    BY <1>b
  <2>4. \A k \in K \cap Q : net[k] = -size[k]
    BY <1>b
  <2>5. \A k \in K : k \notin P /\ k \notin Q => net[k] = 0
    BY <1>b, <1>d
  <2> HIDE DEF es, K, P, Q, size
  <2>6. Signs(net, size, K, P, Q)
    BY <1>p, <2>1, <2>2, <2>4, <2>5 DEF Signs
  <2> QED BY <1>0, <2>6, SumSigned
<1>3. DebitColumn(l, c) = SumOver(size, P)
  <2>1. DebitColumn(l, c) = SumOver([k \in P |-> Net(es, k)], P)
    BY NetSum DEF DebitColumn
  <2>2. \A k \in P : [j \in P |-> Net(es, j)][k] = size[k]
    BY <1>b
  <2> HIDE DEF P, size
  <2> QED BY <1>0, <2>1, <2>2, SumSame
<1>4. CreditColumn(l, c) = SumOver(size, Q)
  <2>1. CreditColumn(l, c) = SumOver([k \in Q |-> -Net(es, k)], Q)
    BY DebtSum, Zenon DEF CreditColumn
  <2>2. \A k \in Q : [j \in Q |-> -Net(es, j)][k] = size[k]
    BY <1>b
  <2> HIDE DEF Q, size
  <2> QED BY <1>0, <2>1, <2>2, SumSame
<1>5. K \cap P = P /\ K \cap Q = Q
  BY <1>p
<1>6. SumOver(size, P) \in Int /\ SumOver(size, Q) \in Int
  <2>1. \A k \in P \cup Q : size[k] \in Int
    BY <1>n
  <2> HIDE DEF P, Q, size
  <2> QED BY <1>0, <2>1, SumType
<1>7. SumOver(size, P) - SumOver(size, Q) = 0
  BY <1>1, <1>2, <1>5
<1>8. SumOver(size, P) = SumOver(size, Q)
  <2> DEFINE x == SumOver(size, P)
             y == SumOver(size, Q)
  <2>1. x \in Int /\ y \in Int /\ x - y = 0
    BY <1>6, <1>7
  <2> HIDE DEF x, y
  <2>2. x = y
    BY <2>1
  <2> QED BY <2>2 DEF x, y
<1> QED BY <1>3, <1>4, <1>8
-----------------------------------------------------------------------------
(* Postings                                                                *)

(* The two entries of every payee, in the order of the batch.              *)
Pairs(corr, from, to, amountOf) ==
    LET who == SetToSeq(DOMAIN amountOf)
        Side(i, type, account) ==
            Entry(corr \o who[i] \o <<type>>, account, type, Currency, amountOf[who[i]], 0, corr)
    IN  [i \in DOMAIN who |-> <<Side(i, "debit", from), Side(i, "credit", to \o who[i])>>]

(* What a batch is made of: one debit and one credit of the same amount    *)
(* for every payee, all with the batch's correlation id, in one currency.  *)
PairsAre(corr, from, to, amountOf) ==
    LET n == Cardinality(DOMAIN amountOf)
        who == SetToSeq(DOMAIN amountOf)
        pairs == Pairs(corr, from, to, amountOf)
        S == {e \in UNION {{pairs[i][1], pairs[i][2]} : i \in 1..n} :
                e.scaled \in Int /\ e.correlationId = corr /\ e.currency = Currency}
    IN  /\ n \in Nat /\ pairs \in [1..n -> Seq(S)] /\ pairs \in Seq(Seq(S))
        /\ Postings(corr, from, to, amountOf) = FlattenSeq(pairs)
        /\ \A i \in 1..n : /\ who[i] \in DOMAIN amountOf
                           /\ pairs[i] = <<pairs[i][1], pairs[i][2]>>
                           /\ pairs[i][1].type = "debit" /\ pairs[i][2].type = "credit"
                           /\ pairs[i][2].scaled = amountOf[who[i]]

(* The entries of a posting: a debit and a credit of the same amount for   *)
(* everyone paid.                                                          *)
LEMMA PairsFacts ==
    ASSUME NEW corr, NEW from, NEW to, NEW amountOf, IsFiniteSet(DOMAIN amountOf),
           \A p \in DOMAIN amountOf : amountOf[p] \in Int
    PROVE  PairsAre(corr, from, to, amountOf)
<1> DEFINE n == Cardinality(DOMAIN amountOf)
           who == SetToSeq(DOMAIN amountOf)
           pairs == Pairs(corr, from, to, amountOf)
           S == {e \in UNION {{pairs[i][1], pairs[i][2]} : i \in 1..n} :
                   e.scaled \in Int /\ e.correlationId = corr /\ e.currency = Currency}
<1>1. n \in Nat /\ who \in [1..n -> DOMAIN amountOf]
  BY SetToSeqLists DEF Bijection, Injection
<1>2. Postings(corr, from, to, amountOf) = FlattenSeq(pairs)
  BY DEF Postings, Pairs
<1>3. DOMAIN pairs = 1..n
  <2> HIDE DEF n
  <2> QED BY <1>1 DEF Pairs
<1>4. ASSUME NEW i \in 1..n
      PROVE  /\ who[i] \in DOMAIN amountOf
             /\ pairs[i] = <<pairs[i][1], pairs[i][2]>>
             /\ pairs[i][1].type = "debit" /\ pairs[i][2].type = "credit"
             /\ pairs[i][2].scaled = amountOf[who[i]]
             /\ pairs[i][1] \in S /\ pairs[i][2] \in S
  <2>0. who[i] \in DOMAIN amountOf /\ i \in DOMAIN who
    <3> HIDE DEF who, n
    <3> QED BY <1>1
  <2> DEFINE a == Entry(corr \o who[i] \o <<"debit">>, from, "debit", Currency, amountOf[who[i]], 0, corr)
             b == Entry(corr \o who[i] \o <<"credit">>, to \o who[i], "credit", Currency, amountOf[who[i]], 0, corr)
  <2>1. pairs[i] = <<a, b>>
    BY <2>0 DEF Pairs
  <2>2. pairs[i][1] = a /\ pairs[i][2] = b
    <3> HIDE DEF a, b, pairs
    <3> QED BY <2>1
  <2>3. /\ a.type = "debit" /\ b.type = "credit"
        /\ a.scaled = amountOf[who[i]] /\ b.scaled = amountOf[who[i]]
        /\ a.correlationId = corr /\ b.correlationId = corr
        /\ a.currency = Currency /\ b.currency = Currency
    BY DEF Entry
  <2> HIDE DEF a, b, pairs, n, who
  <2> QED BY <2>0, <2>1, <2>2, <2>3
<1>5. pairs \in [1..n -> Seq(S)]
  <2>1. pairs = [i \in 1..n |-> pairs[i]]
    BY <1>3 DEF Pairs
  <2>2. ASSUME NEW i \in 1..n PROVE pairs[i] \in Seq(S)
    <3>1. pairs[i] = <<pairs[i][1], pairs[i][2]>> /\ pairs[i][1] \in S /\ pairs[i][2] \in S
      BY <1>4
    <3> DEFINE x == pairs[i][1]
               y == pairs[i][2]
    <3> HIDE DEF pairs, S, x, y
    <3>2. x \in S /\ y \in S /\ pairs[i] = <<x, y>>
      BY <3>1 DEF x, y
    <3>3. <<x, y>> \in Seq(S)
      BY <3>2
    <3> QED BY <3>2, <3>3
  <2> HIDE DEF pairs, S, n
  <2> QED BY <2>1, <2>2
<1>6. pairs \in Seq(Seq(S))
  <2> HIDE DEF pairs, S, n
  <2> QED BY <1>1, <1>5
<1> HIDE DEF n, who, pairs, S
<1>7. /\ n \in Nat /\ pairs \in [1..n -> Seq(S)] /\ pairs \in Seq(Seq(S))
      /\ Postings(corr, from, to, amountOf) = FlattenSeq(pairs)
      /\ \A i \in 1..n : /\ who[i] \in DOMAIN amountOf
                         /\ pairs[i] = <<pairs[i][1], pairs[i][2]>>
                         /\ pairs[i][1].type = "debit" /\ pairs[i][2].type = "credit"
                         /\ pairs[i][2].scaled = amountOf[who[i]]
  BY <1>1, <1>2, <1>4, <1>5, <1>6
<1> QED BY <1>7 DEF n, who, pairs, S, PairsAre

(* A batch is a book whose entries carry its correlation id.               *)
LEMMA PostingsType ==
    ASSUME NEW corr, NEW from, NEW to, NEW amountOf, IsFiniteSet(DOMAIN amountOf),
           \A p \in DOMAIN amountOf : amountOf[p] \in Int
    PROVE  LET es == Postings(corr, from, to, amountOf)
           IN  /\ IsBook(es)
               /\ \A i \in DOMAIN es : es[i].correlationId = corr /\ es[i].currency = Currency
<1> DEFINE n == Cardinality(DOMAIN amountOf)
           pairs == Pairs(corr, from, to, amountOf)
           S == {e \in UNION {{pairs[i][1], pairs[i][2]} : i \in 1..n} :
                   e.scaled \in Int /\ e.correlationId = corr /\ e.currency = Currency}
           es == Postings(corr, from, to, amountOf)
<1>1. pairs \in Seq(Seq(S)) /\ es = FlattenSeq(pairs)
  <2>1. PairsAre(corr, from, to, amountOf)
    BY PairsFacts
  <2> QED BY <2>1 DEF PairsAre
<1>2. es \in Seq(S)
  <2> HIDE DEF pairs, S, es
  <2> QED BY <1>1, FlattenType
<1>3. \A e \in S : e.scaled \in Int /\ e.correlationId = corr /\ e.currency = Currency
  OBVIOUS
<1> HIDE DEF S, es
<1>4. IsSequence(es) /\ \A i \in DOMAIN es : es[i] \in S
  BY <1>2, SequenceIntro
<1>5. /\ IsBook(es)
      /\ \A i \in DOMAIN es : es[i].correlationId = corr /\ es[i].currency = Currency
  BY <1>3, <1>4 DEF IsBook
<1> QED BY <1>5 DEF es
IsLedger(l) == \E a, e, t : l = [accounts |-> a, entries |-> e, transactions |-> t]

(* A new ledger balances.                                                  *)
LEMMA EmptySound == IsLedger(EmptyLedger) /\ Sound(EmptyLedger) /\ EmptyLedger.entries = <<>>
<1>1. IsLedger(EmptyLedger)
  BY DEF EmptyLedger, IsLedger
<1>2. EmptyLedger.accounts = {} /\ EmptyLedger.entries = <<>>
  BY DEF EmptyLedger
<1>3. IsBook(<<>>) /\ AccountIds(<<>>) = {}
  <2>1. <<>> \in Seq({}) /\ DOMAIN <<>> = {}
    OBVIOUS
  <2> QED BY <2>1, SequenceIntro DEF IsBook, AccountIds
<1>4. \A c : Balance(<<>>, c) = 0
  <2>1. DOMAIN <<>> = {}
    OBVIOUS
  <2> QED BY <2>1, SumEmpty DEF Balance
<1>5. Sound(EmptyLedger)
  BY <1>2, <1>3, <1>4, FS_EmptySet DEF Sound
<1> QED BY <1>1, <1>2, <1>5

(* Creating accounts leaves the books sound.                               *)
LEMMA AccountsSound ==
    ASSUME NEW l, IsLedger(l), Sound(l), NEW A, IsFiniteSet(A)
    PROVE  LET m == WithAccounts(l, A)
           IN  IsLedger(m) /\ Sound(m) /\ m.entries = l.entries
<1> DEFINE m == WithAccounts(l, A)
<1>1. m = [accounts |-> l.accounts \cup A, entries |-> l.entries,
           transactions |-> l.transactions]
  <2>1. PICK a, e, t : l = [accounts |-> a, entries |-> e, transactions |-> t]
    BY DEF IsLedger
  <2>2. m = [accounts |-> a \cup A, entries |-> e, transactions |-> t]
    BY <2>1 DEF WithAccounts
  <2> QED BY <2>1, <2>2
<1>2. m.accounts = l.accounts \cup A /\ m.entries = l.entries /\ m.transactions = l.transactions
  BY <1>1
<1>3. IsFiniteSet(l.accounts \cup A)
  BY FS_Union DEF Sound
<1> HIDE DEF m
<1>4. IsLedger(m)
  BY <1>1, <1>2 DEF IsLedger
<1>5. Sound(m)
  BY <1>2, <1>3 DEF Sound
<1> QED BY <1>2, <1>4, <1>5 DEF m

(* So does appending a batch that the rules accept.                        *)
LEMMA AppendSound ==
    ASSUME NEW l, IsLedger(l), Sound(l), NEW es, IsBook(es), Appendable(l, es)
    PROVE  LET m == append(l, es)
           IN  IsLedger(m) /\ Sound(m) /\ m.entries = l.entries \o es
<1> DEFINE m == append(l, es)
<1>1. m = [accounts |-> l.accounts, entries |-> l.entries \o es,
           transactions |-> Append(l.transactions, es)]
  <2>1. PICK a, e, t : l = [accounts |-> a, entries |-> e, transactions |-> t]
    BY DEF IsLedger
  <2>2. m = [accounts |-> a, entries |-> e \o es, transactions |-> Append(t, es)]
    <3>1. l.entries = e /\ l.transactions = t
      BY <2>1
    <3> DEFINE x == l.entries \o es
               y == Append(l.transactions, es)
    <3>2. m = [l EXCEPT !.entries = x, !.transactions = y]
      BY DEF append
    <3>3. x = e \o es /\ y = Append(t, es)
      BY <3>1
    <3> HIDE DEF x, y, m
    <3>4. m = [accounts |-> a, entries |-> x, transactions |-> y]
      BY <2>1, <3>2
    <3> QED BY <3>3, <3>4
  <2> QED BY <2>1, <2>2
<1>2. /\ m.accounts = l.accounts /\ m.entries = l.entries \o es
      /\ m.transactions = Append(l.transactions, es)
  BY <1>1
<1> HIDE DEF m
<1>3. IsLedger(m)
  BY <1>1, <1>2 DEF IsLedger
<1>4. IsBook(l.entries \o es)
      /\ \A c : Balance(l.entries \o es, c) = Balance(l.entries, c) + Balance(es, c)
  BY AppendAdds DEF Sound
<1>5. \A c : Balance(l.entries \o es, c) = 0
  <2>1. \A c : Balance(l.entries, c) = 0 /\ Balance(es, c) = 0
    BY BalancedAddsNothing DEF Sound, Appendable
  <2> QED BY <1>4, <2>1
<1>6. AccountIds(l.entries \o es) \subseteq l.accounts
  <2>1. ASSUME NEW i \in DOMAIN (l.entries \o es)
        PROVE  (l.entries \o es)[i].accountId \in l.accounts
    <3>1. \/ i \in DOMAIN l.entries /\ (l.entries \o es)[i] = l.entries[i]
          \/ \E j \in DOMAIN es : (l.entries \o es)[i] = es[j]
      BY ConcatElement DEF Sound, IsBook
    <3>2. \A j \in DOMAIN l.entries : l.entries[j].accountId \in l.accounts
      BY DEF Sound, AccountIds
    <3>3. \A j \in DOMAIN es : es[j].accountId \in l.accounts
      BY DEF Appendable, hasAccount
    <3> QED BY <3>1, <3>2, <3>3
  <2> QED BY <2>1 DEF AccountIds
<1>7. Sound(m)
  BY <1>2, <1>4, <1>5, <1>6 DEF Sound
<1> QED BY <1>2, <1>3, <1>7 DEF m
(* The ledger after a posting, whether or not append() accepted the batch. *)
PostResult(corr, from, to, amountOf) ==
    LET l == Prepared(from, to, amountOf)
    IN  IF Postable(corr, from, to, amountOf) /\ DOMAIN amountOf # {}
        THEN append(l, Postings(corr, from, to, amountOf)) ELSE l

(* A posting leaves the books sound, and adds its batch or nothing.        *)
LEMMA PostSound ==
    ASSUME IsLedger(ledger), Sound(ledger), NEW corr, NEW from, NEW to, NEW amountOf,
           IsFiniteSet(DOMAIN amountOf), \A p \in DOMAIN amountOf : amountOf[p] \in Int
    PROVE  LET m == PostResult(corr, from, to, amountOf)
           IN  /\ IsLedger(m) /\ Sound(m)
               /\ m.entries = IF Postable(corr, from, to, amountOf) /\ DOMAIN amountOf # {}
                              THEN ledger.entries \o Postings(corr, from, to, amountOf)
                              ELSE ledger.entries
<1> DEFINE m == PostResult(corr, from, to, amountOf)
           l == Prepared(from, to, amountOf)
           es == Postings(corr, from, to, amountOf)
           A == {from} \cup {to \o w : w \in DOMAIN amountOf}
<1>1. IsFiniteSet(A)
  <2>1. IsFiniteSet({to \o w : w \in DOMAIN amountOf})
    <3> DEFINE D == DOMAIN amountOf
               f == [w \in D |-> to \o w]
               T == {to \o w : w \in D}
    <3>1. f \in Surjection(D, T)
      BY DEF Surjection
    <3> HIDE DEF f, T
    <3>2. IsFiniteSet(T)
      BY <3>1, FS_Surjection
    <3> QED BY <3>2 DEF T
  <2>2. IsFiniteSet({from})
    BY FS_Singleton
  <2> QED BY <2>1, <2>2, FS_Union
<1>2. IsLedger(l) /\ Sound(l) /\ l.entries = ledger.entries
  <2>1. l = WithAccounts(ledger, A)
    BY DEF Prepared
  <2> HIDE DEF A, l
  <2> QED BY <1>1, <2>1, AccountsSound
<1>3. CASE Postable(corr, from, to, amountOf) /\ DOMAIN amountOf # {}
  <2>1. m = append(l, es) /\ Appendable(l, es)
    BY <1>3 DEF PostResult, Postable
  <2>2. IsBook(es)
    BY PostingsType
  <2>3. IsLedger(m) /\ Sound(m) /\ m.entries = l.entries \o es
    <3> HIDE DEF m, l, es
    <3> QED BY <1>2, <2>1, <2>2, AppendSound
  <2> HIDE DEF m
  <2>4. m.entries = ledger.entries \o es
    BY <1>2, <2>3
  <2> QED BY <1>3, <2>3, <2>4 DEF m
<1>4. CASE ~(Postable(corr, from, to, amountOf) /\ DOMAIN amountOf # {})
  <2>1. m = l
    BY <1>4 DEF PostResult
  <2> HIDE DEF l, m
  <2> QED BY <1>2, <1>4, <2>1 DEF m
<1> QED BY <1>3, <1>4

-----------------------------------------------------------------------------
(* Types                                                                   *)

Maps(V) == UNION {[D -> V] : D \in SUBSET Payee}

RunRecord == [status : {"absent", "draft", "approved", "executed"}, net : Maps(Int)]
PlanRecord == [status : {"absent", "draft", "approved", "executed"},
               strategy : {"none", "fixed", "proportional", "milestone"},
               pool : Int, shares : Maps(Nat), met : SUBSET Payee]
RequestRecord == [status : {"absent", "pending", "gate1-approved", "approved", "rejected", "executed"},
                  amount : Int, requestedBy : Person \cup {Nobody},
                  gate1 : Person \cup {Nobody}, gate2 : Person \cup {Nobody}]

TreasuryType ==
    /\ payees \in [Payee -> {"absent", "active", "inactive"}]
    /\ schedules \in [Payee -> [gross : Int, deductions : Int]]
    /\ runs \in [Run -> RunRecord]
    /\ plans \in [Plan -> PlanRecord]
    /\ requests \in [Request -> RequestRecord]
    /\ treasurySaved \in [payees : [Payee -> {"absent", "active", "inactive"}],
                          runs : [Run -> RunRecord], plans : [Plan -> PlanRecord],
                          requests : [Request -> RequestRecord]]

(* A map over the payees has a finite domain.                              *)
LEMMA MapFacts ==
    ASSUME NEW V, NEW f \in Maps(V)
    PROVE  /\ DOMAIN f \in SUBSET Payee /\ IsFiniteSet(DOMAIN f)
           /\ \A p \in DOMAIN f : f[p] \in V
<1>1. DOMAIN f \in SUBSET Payee /\ \A p \in DOMAIN f : f[p] \in V
  BY DEF Maps
<1> QED BY <1>1, IdsAreStrings, FS_Subset

(* A function on some of the payees is a map of payees.                    *)
LEMMA MapIntro ==
    ASSUME NEW V, NEW D \in SUBSET Payee, NEW f \in [D -> V]
    PROVE  f \in Maps(V)
BY DEF Maps

(* Shares are natural numbers, so are their sums.                          *)
LEMMA TotalType ==
    ASSUME NEW f \in Maps(Nat)
    PROVE  Total(f) = SumOver(f, DOMAIN f) /\ Total(f) \in Nat
<1>1. Total(f) = SumOver(f, DOMAIN f)
  BY DEF Total, SumOver
<1>2. DOMAIN f \in SUBSET DOMAIN f /\ IsFiniteSet(DOMAIN f) /\ \A p \in DOMAIN f : f[p] \in Nat
  BY MapFacts
<1> QED BY <1>1, <1>2, SumMonotone

(* bigint division by a positive number, towards zero.                     *)
LEMMA QuotientType ==
    ASSUME NEW n \in Int, NEW d \in Nat \ {0}
    PROVE  Quotient(n, d) \in Int
BY DEF Quotient

(* Payouts are integers of some of the payees.                             *)
LEMMA PayoutsType ==
    ASSUME NEW plan \in PlanRecord, plan.strategy # "none"
    PROVE  resolvePayouts(plan) \in Maps(Int)
<1> DEFINE eligible == DOMAIN plan.shares \cap plan.met
           earned == [p \in eligible |-> plan.shares[p]]
           whole == Total(earned)
<1>0. plan.shares \in Maps(Nat) /\ plan.pool \in Int /\ plan.met \in SUBSET Payee
  BY DEF PlanRecord
<1>1. DOMAIN plan.shares \in SUBSET Payee /\ \A p \in DOMAIN plan.shares : plan.shares[p] \in Nat
  BY <1>0, MapFacts
<1>2. eligible \in SUBSET Payee /\ earned \in [eligible -> Nat]
  BY <1>1
<1>3. whole \in Nat
  <2>1. earned \in Maps(Nat)
    <3> HIDE DEF earned, eligible
    <3> QED BY <1>2, MapIntro
  <2> HIDE DEF earned
  <2> QED BY <2>1, TotalType
<1>4. \A p \in DOMAIN plan.shares : plan.pool * plan.shares[p] \in Int
  BY <1>0, <1>1
<1>5. CASE plan.strategy = "fixed"
  <2>1. resolvePayouts(plan) = plan.shares
    BY <1>5 DEF resolvePayouts
  <2>2. plan.shares \in [DOMAIN plan.shares -> Int]
    BY <1>0, <1>1 DEF Maps
  <2> QED BY <1>1, <2>1, <2>2, MapIntro
<1>6. CASE plan.strategy = "proportional"
  <2> DEFINE f == [p \in DOMAIN plan.shares |-> Quotient(plan.pool * plan.shares[p], Whole)]
  <2>1. resolvePayouts(plan) = f
    BY <1>6 DEF resolvePayouts
  <2>2. \A p \in DOMAIN plan.shares : Quotient(plan.pool * plan.shares[p], Whole) \in Int
    BY <1>4, QuotientType, MoneyIsIntegral
  <2>3. f \in [DOMAIN plan.shares -> Int]
    BY <2>2
  <2> HIDE DEF f
  <2> QED BY <1>1, <2>1, <2>3, MapIntro
<1>7. CASE plan.strategy = "milestone"
  <2> DEFINE f == [p \in eligible |-> IF whole = 0 THEN 0
                                      ELSE Quotient(plan.pool * plan.shares[p], whole)]
  <2>1. resolvePayouts(plan) = f
    BY <1>7 DEF resolvePayouts
  <2> HIDE DEF whole
  <2>2. ASSUME NEW p \in eligible, whole # 0
        PROVE  Quotient(plan.pool * plan.shares[p], whole) \in Int
    BY <1>3, <1>4, <2>2, QuotientType
  <2>3. f \in [eligible -> Int]
    BY <2>2
  <2> HIDE DEF f, eligible
  <2> QED BY <1>2, <2>1, <2>3, MapIntro
<1>8. plan.strategy \in {"fixed", "proportional", "milestone"}
  BY DEF PlanRecord
<1> QED BY <1>5, <1>6, <1>7, <1>8
-----------------------------------------------------------------------------
(* What an execution does                                                  *)

(* Executing a payroll run posts one pair per payee it pays.               *)
LEMMA RunPosts ==
    ASSUME NEW r \in Run, executeRun(r)
    PROVE  /\ runs[r].status = "approved" /\ UNCHANGED <<payees, schedules, plans, requests, treasurySaved>>
           /\ ledger' = PostResult(<<"payroll">> \o r, <<"payroll", "expense">>,
                                   <<"payroll", "payee">>, runs[r].net)
           /\ runs' = IF Postable(<<"payroll">> \o r, <<"payroll", "expense">>,
                                  <<"payroll", "payee">>, runs[r].net)
                      THEN [runs EXCEPT ![r].status = "executed"] ELSE runs
BY DEF executeRun, Post, PostResult

(* The payouts that executeDistribution writes.                            *)
PayoutsOf(d) == LET payouts == resolvePayouts(plans[d])
                IN  [p \in Writable(payouts) |-> payouts[p]]

(* Executing a distribution posts one pair per positive payout.            *)
LEMMA PlanPosts ==
    ASSUME NEW d \in Plan, executeDistribution(d)
    PROVE  /\ plans[d].status = "approved" /\ UNCHANGED <<payees, schedules, runs, requests, treasurySaved>>
           /\ \A p \in DOMAIN PayoutsOf(d) : PayoutsOf(d)[p] > 0
           /\ ledger' = PostResult(<<"distribution">> \o d, <<"distribution", "pool">> \o d,
                                   <<"distribution", "recipient">>, PayoutsOf(d))
           /\ plans' = IF Postable(<<"distribution">> \o d, <<"distribution", "pool">> \o d,
                                   <<"distribution", "recipient">>, PayoutsOf(d))
                       THEN [plans EXCEPT ![d].status = "executed"] ELSE plans
BY DEF executeDistribution, Post, PostResult, PayoutsOf

(* Executing a funding request posts one pair.                             *)
LEMMA RequestPosts ==
    ASSUME NEW q \in Request, executeRequest(q)
    PROVE  LET paid == [w \in {<<>>} |-> requests[q].amount]
           IN  /\ requests[q].status = "approved"
               /\ UNCHANGED <<payees, schedules, runs, plans, treasurySaved>>
               /\ ledger' = PostResult(<<"funding">> \o q, <<"funding", "request">> \o q,
                                       <<"treasury", "main">>, paid)
               /\ requests' = IF Postable(<<"funding">> \o q, <<"funding", "request">> \o q,
                                          <<"treasury", "main">>, paid)
                              THEN [requests EXCEPT ![q].status = "executed"] ELSE requests
BY DEF executeRequest, Post, PostResult

-----------------------------------------------------------------------------
(* The engines                                                             *)

(* A plan that exists passed createPlan's checks.                          *)
PlansFit(P) ==
    \A d \in Plan : P[d].status # "absent" =>
        P[d].strategy # "none" /\ ValidShares(P[d].strategy, P[d].pool, P[d].shares)

(* What the approvals of a request have to do with its status.             *)
Controlled(R) ==
    \A q \in Request :
        /\ R[q].status = "gate1-approved" =>
               R[q].gate1 \in Gatekeepers /\ R[q].gate1 # R[q].requestedBy
        /\ R[q].status \in {"approved", "executed"} =>
               /\ R[q].gate1 \in Gatekeepers /\ R[q].gate2 \in Gatekeepers
               /\ R[q].gate1 # R[q].gate2
               /\ R[q].requestedBy \notin {R[q].gate1, R[q].gate2}

EnginesInv ==
    /\ TreasuryType
    /\ PlansFit(plans) /\ PlansFit(treasurySaved.plans)
    /\ Controlled(requests) /\ Controlled(treasurySaved.requests)

(* The engines start empty.                                                *)
LEMMA EnginesInit == TreasuryInit => EnginesInv
<1> SUFFICES ASSUME TreasuryInit PROVE EnginesInv
  OBVIOUS
<1>1. <<>> \in Maps(Int) /\ <<>> \in Maps(Nat)
  <2>1. {} \in SUBSET Payee /\ <<>> \in [{} -> Int] /\ <<>> \in [{} -> Nat]
    OBVIOUS
  <2> QED BY <2>1, MapIntro
<1>2. NoRun \in RunRecord
  BY <1>1 DEF NoRun, RunRecord
<1>3. NoPlan \in PlanRecord
  BY <1>1 DEF NoPlan, PlanRecord
<1>4. NoRequest \in RequestRecord
  BY DEF NoRequest, RequestRecord
<1>5. NoSchedule \in [gross : Int, deductions : Int]
  BY DEF NoSchedule
<1>6. TreasuryType
  BY <1>2, <1>3, <1>4, <1>5 DEF TreasuryInit, TreasuryType, treasurySnapshot
<1>7. PlansFit(plans) /\ Controlled(requests)
  BY DEF TreasuryInit, PlansFit, Controlled, NoPlan, NoRequest
<1>8. treasurySaved.plans = plans /\ treasurySaved.requests = requests
  BY DEF TreasuryInit, treasurySnapshot
<1> QED BY <1>6, <1>7, <1>8 DEF EnginesInv
(* A step that leaves the plans, the requests and the snapshot alone.      *)
LEMMA PayrollEngine ==
    ASSUME EnginesInv, TreasuryType', UNCHANGED <<plans, requests, treasurySaved>>
    PROVE  EnginesInv'
BY DEF EnginesInv

(* A step of the distribution engine leaves funding alone.                 *)
LEMMA DistributionEngine ==
    ASSUME EnginesInv, TreasuryType', UNCHANGED <<requests, treasurySaved>>, PlansFit(plans')
    PROVE  EnginesInv'
BY DEF EnginesInv

(* A step of the funding engine leaves distributions alone.                *)
LEMMA FundingEngine ==
    ASSUME EnginesInv, TreasuryType', UNCHANGED <<plans, treasurySaved>>, Controlled(requests')
    PROVE  EnginesInv'
BY DEF EnginesInv

(* Every operation keeps the engines' records well formed.                 *)
LEMMA EnginesStep == EnginesInv /\ [TreasuryNext]_treasuryVars => EnginesInv'
<1> SUFFICES ASSUME EnginesInv, [TreasuryNext]_treasuryVars PROVE EnginesInv'
  OBVIOUS
<1>0. TreasuryType /\ PlansFit(plans) /\ Controlled(requests)
  BY DEF EnginesInv
<1>1. CASE UNCHANGED treasuryVars
  BY <1>1 DEF treasuryVars, EnginesInv, TreasuryType
<1>2. ASSUME NEW p \in Payee,
             \/ registerPayee(p)
             \/ \E s \in {"active", "inactive"} : updatePayeeStatus(p, s)
             \/ \E pay \in Pays : setSchedule(p, pay)
      PROVE  EnginesInv'
  <2>1. UNCHANGED <<plans, requests, runs, treasurySaved>>
    BY <1>2 DEF registerPayee, updatePayeeStatus, setSchedule
  <2>2. payees' \in [Payee -> {"absent", "active", "inactive"}]
    BY <1>0, <1>2 DEF registerPayee, updatePayeeStatus, setSchedule, TreasuryType
  <2>3. schedules' \in [Payee -> [gross : Int, deductions : Int]]
    BY <1>0, <1>2, MoneyIsIntegral
       DEF registerPayee, updatePayeeStatus, setSchedule, TreasuryType
  <2>4. TreasuryType'
    BY <1>0, <2>1, <2>2, <2>3 DEF TreasuryType
  <2> QED BY <2>1, <2>4, PayrollEngine
<1>3. ASSUME NEW r \in Run, createRun(r) PROVE EnginesInv'
  <2> DEFINE included == {p \in Payee : schedules[p] # NoSchedule /\ payees[p] = "active"}
             net == [p \in included |-> computeEntry(schedules[p])]
  <2>1. /\ runs' = [runs EXCEPT ![r] = [status |-> "draft", net |-> net]]
        /\ UNCHANGED <<payees, schedules, plans, requests, treasurySaved>>
    BY <1>3 DEF createRun
  <2>2. included \in SUBSET Payee /\ net \in [included -> Int]
    BY <1>0 DEF TreasuryType, computeEntry
  <2>3. net \in Maps(Int)
    <3> HIDE DEF net, included
    <3> QED BY <2>2, MapIntro
  <2> HIDE DEF net
  <2>4. runs' \in [Run -> RunRecord]
    BY <1>0, <2>1, <2>3 DEF TreasuryType, RunRecord
  <2>5. TreasuryType'
    BY <1>0, <2>1, <2>4 DEF TreasuryType
  <2> QED BY <2>1, <2>5, PayrollEngine
<1>4. ASSUME NEW r \in Run, approveRun(r) PROVE EnginesInv'
  <2>1. runs' \in [Run -> RunRecord]
    BY <1>0, <1>4 DEF approveRun, TreasuryType, RunRecord
  <2>2. TreasuryType' /\ UNCHANGED <<plans, requests, treasurySaved>>
    BY <1>0, <1>4, <2>1 DEF approveRun, TreasuryType
  <2> QED BY <2>2, PayrollEngine
<1>5. ASSUME NEW r \in Run, executeRun(r) PROVE EnginesInv'
  <2>1. /\ runs' = runs \/ runs' = [runs EXCEPT ![r].status = "executed"]
        /\ UNCHANGED <<payees, schedules, plans, requests, treasurySaved>>
    BY <1>5, RunPosts
  <2>2. runs' \in [Run -> RunRecord]
    BY <1>0, <2>1 DEF TreasuryType, RunRecord
  <2>3. TreasuryType'
    BY <1>0, <2>1, <2>2 DEF TreasuryType
  <2> QED BY <2>1, <2>3, PayrollEngine
<1>6. ASSUME NEW d \in Plan, NEW strategy \in {"fixed", "proportional", "milestone"},
             NEW pool \in Pools, NEW R \in SUBSET Payee, NEW shares \in [R -> Shares],
             NEW met \in SUBSET R, createPlan(d, strategy, pool, shares, met)
      PROVE  EnginesInv'
  <2> DEFINE new == [status |-> "draft", strategy |-> strategy, pool |-> pool,
                     shares |-> shares, met |-> met]
  <2>1. /\ plans' = [plans EXCEPT ![d] = new] /\ ValidShares(strategy, pool, shares)
        /\ UNCHANGED <<payees, schedules, runs, requests, treasurySaved>>
    BY <1>6 DEF createPlan
  <2>2. shares \in Maps(Nat)
    <3>1. shares \in [R -> Nat]
      BY MoneyIsIntegral
    <3> QED BY <3>1, MapIntro
  <2>3. pool \in Int
    BY MoneyIsIntegral
  <2>4. new \in PlanRecord /\ new.strategy = strategy /\ new.pool = pool /\ new.shares = shares
    BY <2>2, <2>3 DEF PlanRecord
  <2> HIDE DEF new
  <2>5. plans' \in [Plan -> PlanRecord]
    BY <1>0, <2>1, <2>4 DEF TreasuryType
  <2>6. TreasuryType'
    BY <1>0, <2>1, <2>5 DEF TreasuryType
  <2>7. PlansFit(plans')
    <3> SUFFICES ASSUME NEW e \in Plan, plans'[e].status # "absent"
                 PROVE  /\ plans'[e].strategy # "none"
                        /\ ValidShares(plans'[e].strategy, plans'[e].pool, plans'[e].shares)
      BY DEF PlansFit
    <3>1. CASE e = d
      <4>1. plans'[e] = new
        BY <1>0, <2>1, <3>1 DEF TreasuryType
      <4> QED BY <2>1, <2>4, <4>1
    <3>2. CASE e # d
      <4>1. plans'[e] = plans[e]
        BY <1>0, <2>1, <3>2 DEF TreasuryType
      <4> QED BY <1>0, <4>1 DEF PlansFit
    <3> QED BY <3>1, <3>2
  <2> QED BY <2>1, <2>6, <2>7, DistributionEngine
<1>7. ASSUME NEW d \in Plan, approvePlan(d) \/ executeDistribution(d) PROVE EnginesInv'
  <2>1. /\ \/ plans' = plans
           \/ \E s \in {"approved", "executed"} : /\ plans' = [plans EXCEPT ![d].status = s]
                                                  /\ plans[d].status # "absent"
        /\ UNCHANGED <<payees, schedules, runs, requests, treasurySaved>>
    BY <1>7, PlanPosts DEF approvePlan
  <2>2. plans' \in [Plan -> PlanRecord]
    <3>1. ASSUME NEW x \in PlanRecord, NEW s \in {"approved", "executed"}
          PROVE  [x EXCEPT !.status = s] \in PlanRecord
      BY DEF PlanRecord
    <3>2. CASE plans' # plans
      <4>1. PICK s \in {"approved", "executed"} : plans' = [plans EXCEPT ![d].status = s]
        BY <2>1, <3>2
      <4>2. [plans[d] EXCEPT !.status = s] \in PlanRecord
        BY <1>0, <3>1 DEF TreasuryType
      <4> QED BY <1>0, <4>1, <4>2 DEF TreasuryType
    <3> QED BY <1>0, <3>2 DEF TreasuryType
  <2>3. TreasuryType'
    BY <1>0, <2>1, <2>2 DEF TreasuryType
  <2>4. ASSUME NEW e \in Plan
        PROVE  /\ plans'[e].strategy = plans[e].strategy /\ plans'[e].pool = plans[e].pool
               /\ plans'[e].shares = plans[e].shares
               /\ plans'[e].status # "absent" => plans[e].status # "absent"
    BY <1>0, <2>1 DEF TreasuryType, PlanRecord
  <2>5. PlansFit(plans')
    BY <1>0, <2>4 DEF PlansFit
  <2> QED BY <2>1, <2>3, <2>5, DistributionEngine
<1>8. ASSUME NEW q \in Request, NEW m \in FundingAmounts, NEW by \in Person,
             submitRequest(q, m, by)
      PROVE  EnginesInv'
  <2> DEFINE new == [NoRequest EXCEPT !.status = "pending", !.amount = m, !.requestedBy = by]
  <2>1. /\ requests' = [requests EXCEPT ![q] = new]
        /\ UNCHANGED <<payees, schedules, runs, plans, treasurySaved>>
    BY <1>8 DEF submitRequest, SetRequest
  <2>2. new \in RequestRecord /\ new.status = "pending"
    BY MoneyIsIntegral DEF NoRequest, RequestRecord
  <2> HIDE DEF new
  <2>3. requests' \in [Request -> RequestRecord]
    BY <1>0, <2>1, <2>2 DEF TreasuryType
  <2>4. TreasuryType'
    BY <1>0, <2>1, <2>3 DEF TreasuryType
  <2>5. Controlled(requests')
    BY <1>0, <2>1, <2>2 DEF Controlled, TreasuryType
  <2> QED BY <2>1, <2>4, <2>5, FundingEngine
<1>9. ASSUME NEW q \in Request, NEW by \in Person, approveGate(q, by) \/ rejectRequest(q, by)
      PROVE  EnginesInv'
  <2> DEFINE r == requests[q]
  <2>0. r \in RequestRecord /\ r.status # "absent" /\ by \in Gatekeepers
    BY <1>0, <1>9 DEF TreasuryType, approveGate, rejectRequest
  <2>1. PICK new \in RequestRecord :
          /\ requests' = [requests EXCEPT ![q] = new]
          /\ new.requestedBy = r.requestedBy
          /\ \/ new.status = "rejected"
             \/ /\ new.status = "gate1-approved" /\ new.gate1 = by /\ by # r.requestedBy
             \/ /\ r.status = "gate1-approved" /\ new.status = "approved"
                /\ new.gate1 = r.gate1 /\ new.gate2 = by /\ r.gate1 # by /\ by # r.requestedBy
    <3>1. CASE approveGate(q, by) /\ r.status = "pending"
      <4> DEFINE new == [r EXCEPT !.status = "gate1-approved", !.gate1 = by]
      <4>1. requests' = [requests EXCEPT ![q] = new] /\ by # r.requestedBy
        BY <3>1 DEF approveGate, SetRequest
      <4>2. /\ new \in RequestRecord /\ new.status = "gate1-approved" /\ new.gate1 = by
            /\ new.requestedBy = r.requestedBy
        BY <2>0 DEF RequestRecord
      <4> HIDE DEF new, r
      <4> QED BY <4>1, <4>2
    <3>2. CASE approveGate(q, by) /\ r.status # "pending"
      <4> DEFINE new == [r EXCEPT !.status = "approved", !.gate2 = by]
      <4>1. /\ requests' = [requests EXCEPT ![q] = new] /\ by # r.requestedBy /\ r.gate1 # by
            /\ r.status = "gate1-approved"
        BY <3>2 DEF approveGate, SetRequest
      <4>2. /\ new \in RequestRecord /\ new.status = "approved" /\ new.gate1 = r.gate1
            /\ new.gate2 = by /\ new.requestedBy = r.requestedBy
        BY <2>0 DEF RequestRecord
      <4> HIDE DEF new, r
      <4> QED BY <4>1, <4>2
    <3>3. CASE rejectRequest(q, by)
      <4> DEFINE new == IF r.gate1 # Nobody THEN [r EXCEPT !.status = "rejected", !.gate2 = by]
                        ELSE [r EXCEPT !.status = "rejected", !.gate1 = by]
      <4>1. requests' = [requests EXCEPT ![q] = new]
        BY <3>3 DEF rejectRequest, SetRequest
      <4>2. /\ new \in RequestRecord /\ new.status = "rejected"
            /\ new.requestedBy = r.requestedBy
        BY <2>0 DEF RequestRecord
      <4> HIDE DEF new, r
      <4> QED BY <4>1, <4>2
    <3> QED BY <1>9, <3>1, <3>2, <3>3
  <2>2. UNCHANGED <<payees, schedules, runs, plans, treasurySaved>>
    BY <1>9 DEF approveGate, rejectRequest, SetRequest
  <2>3. requests' \in [Request -> RequestRecord]
    BY <1>0, <2>1 DEF TreasuryType
  <2>4. TreasuryType'
    BY <1>0, <2>2, <2>3 DEF TreasuryType
  <2>5. Controlled(requests')
    <3>1. requests'[q] = new /\ \A e \in Request \ {q} : requests'[e] = requests[e]
      BY <1>0, <2>1 DEF TreasuryType
    <3>2. r.status = "gate1-approved" => r.gate1 \in Gatekeepers /\ r.gate1 # r.requestedBy
      BY <1>0 DEF Controlled
    <3> HIDE DEF r
    <3> QED BY <1>0, <2>0, <2>1, <3>1, <3>2 DEF Controlled
  <2> QED BY <2>2, <2>4, <2>5, FundingEngine
<1>10. ASSUME NEW q \in Request, executeRequest(q) PROVE EnginesInv'
  <2>1. /\ requests' = requests \/ requests' = [requests EXCEPT ![q].status = "executed"]
        /\ requests[q].status = "approved"
        /\ UNCHANGED <<payees, schedules, runs, plans, treasurySaved>>
    BY <1>10, RequestPosts
  <2>2. requests' \in [Request -> RequestRecord]
    <3>1. ASSUME NEW x \in RequestRecord PROVE [x EXCEPT !.status = "executed"] \in RequestRecord
      BY DEF RequestRecord
    <3> QED BY <1>0, <2>1, <3>1 DEF TreasuryType
  <2>3. TreasuryType'
    BY <1>0, <2>1, <2>2 DEF TreasuryType
  <2>4. ASSUME NEW e \in Request
        PROVE  /\ requests'[e].gate1 = requests[e].gate1 /\ requests'[e].gate2 = requests[e].gate2
               /\ requests'[e].requestedBy = requests[e].requestedBy
               /\ \/ requests'[e].status = requests[e].status
                  \/ requests[e].status = "approved" /\ requests'[e].status = "executed"
    <3>1. ASSUME NEW x \in RequestRecord
          PROVE  LET y == [x EXCEPT !.status = "executed"]
                 IN  /\ y.status = "executed" /\ y.gate1 = x.gate1 /\ y.gate2 = x.gate2
                     /\ y.requestedBy = x.requestedBy
      BY DEF RequestRecord
    <3>2. requests'[e] = requests[e] \/ (e = q /\ requests'[e] = [requests[e] EXCEPT !.status = "executed"])
      BY <1>0, <2>1 DEF TreasuryType
    <3>3. requests[e] \in RequestRecord
      BY <1>0 DEF TreasuryType
    <3> QED BY <2>1, <3>1, <3>2, <3>3
  <2>5. Controlled(requests')
    BY <1>0, <2>4 DEF Controlled
  <2> QED BY <2>1, <2>3, <2>5, FundingEngine
<1>11. CASE takeSnapshot
  <2>1. /\ UNCHANGED <<payees, schedules, runs, plans, requests>>
        /\ treasurySaved' = treasurySnapshot
    BY <1>11 DEF takeSnapshot, engines
  <2>2. TreasuryType' /\ treasurySaved'.plans = plans /\ treasurySaved'.requests = requests
    BY <1>0, <2>1 DEF TreasuryType, treasurySnapshot
  <2> QED BY <1>0, <2>1, <2>2 DEF EnginesInv
<1>12. CASE restoreTreasury
  <2>1. TreasuryType'
    BY <1>0, <1>12 DEF restoreTreasury, TreasuryType, NoSchedule
  <2>2. /\ plans' = treasurySaved.plans /\ requests' = treasurySaved.requests
        /\ treasurySaved' = treasurySaved
    BY <1>12 DEF restoreTreasury
  <2> QED BY <2>1, <2>2 DEF EnginesInv
<1> QED
  BY <1>1, <1>2, <1>3, <1>4, <1>5, <1>6, <1>7, <1>8, <1>9, <1>10, <1>11, <1>12
     DEF TreasuryNext, PayrollOp, DistributionOp, FundingOp

(* The engines' records are well typed; plans fit their pools and approvals*)
(* their requests, in the engines and in what a restore brings back.       *)
THEOREM EnginesCorrect == TreasurySpec => []EnginesInv
<1>1. TreasuryInit => EnginesInv
  BY EnginesInit
<1>2. EnginesInv /\ [TreasuryNext]_treasuryVars => EnginesInv'
  BY EnginesStep
<1> QED BY <1>1, <1>2, PTL DEF TreasurySpec

(* Both gates hold two different gatekeepers, and there are only two.      *)
LEMMA EnginesControl == EnginesInv => DualControl
<1> SUFFICES ASSUME EnginesInv, NEW q \in Request,
                    requests[q].status \in {"approved", "executed"}
             PROVE  /\ {requests[q].gate1, requests[q].gate2} = Gatekeepers
                    /\ requests[q].requestedBy \notin {requests[q].gate1, requests[q].gate2}
  BY DEF DualControl
<1> DEFINE a == requests[q].gate1
           b == requests[q].gate2
<1>1. /\ a \in Gatekeepers /\ b \in Gatekeepers /\ a # b
      /\ requests[q].requestedBy \notin {a, b}
  BY DEF EnginesInv, Controlled
<1> HIDE DEF a, b
<1>2. IsFiniteSet(Gatekeepers) /\ Cardinality({a, b}) = 2
  <2>1. IsFiniteSet({a}) /\ Cardinality({a}) = 1 /\ b \notin {a}
    BY <1>1, FS_Singleton
  <2>2. {a} \cup {b} = {a, b} /\ Cardinality({a} \cup {b}) = 2
    BY <2>1, FS_AddElement
  <2> QED BY <2>2, TwoGatekeepers
<1>3. {a, b} = Gatekeepers
  BY <1>1, <1>2, TwoGatekeepers, FS_Subset
<1> QED BY <1>1, <1>3 DEF a, b

(* Dual control: a funding request that is approved or executed was        *)
(* approved by both gatekeepers, neither of them its requester, whatever   *)
(* was submitted, rejected, saved and restored in between.                 *)
THEOREM DualControlCorrect == TreasurySpec => []DualControl
BY EnginesControl, EnginesCorrect, PTL
-----------------------------------------------------------------------------
(* The ledger holds what was executed                                      *)

(* The owner of a correlation id has been executed.                        *)
ExecutedIn(U, P, R, corr) ==
    \/ \E r \in Run : corr = <<"payroll">> \o r /\ U[r].status = "executed"
    \/ \E d \in Plan : corr = <<"distribution">> \o d /\ P[d].status = "executed"
    \/ \E q \in Request : corr = <<"funding">> \o q /\ R[q].status = "executed"

IsExecuted(corr) == ExecutedIn(runs, plans, requests, corr)

InCurrency(es) == \A i \in DOMAIN es : es[i].currency = Currency

LedgerInv ==
    /\ IsLedger(ledger) /\ Sound(ledger) /\ InCurrency(ledger.entries)
    /\ \A i \in DOMAIN ledger.entries : IsExecuted(ledger.entries[i].correlationId)

(* What is executed stays so.                                              *)
StaysExecuted ==
    /\ \A r \in Run : runs[r].status = "executed" => runs'[r].status = "executed"
    /\ \A d \in Plan : plans[d].status = "executed" => plans'[d].status = "executed"
    /\ \A q \in Request : requests[q].status = "executed" => requests'[q].status = "executed"

(* The parts of a joined id.                                               *)
LEMMA IdParts ==
    ASSUME NEW k, NEW x \in Run \cup Plan \cup Request
    PROVE  (<<k>> \o x)[1] = k /\ Tail(<<k>> \o x) = x
<1>1. IsSequence(x) /\ IsSequence(<<k>>)
  <2>1. x \in Seq(STRING) /\ <<k>> \in Seq({k})
    BY IdsAreStrings
  <2> QED BY <2>1, SequenceIntro
<1>2. PICK S : x \in Seq(S) /\ <<k>> \in Seq(S)
  BY <1>1, SequencesTogether
<1> QED BY <1>2

(* The status that the property reads is the owner's.                      *)
LEMMA ExecutedStatus ==
    ASSUME NEW corr, IsExecuted(corr)
    PROVE  StatusOf(corr) = "executed"
<1>1. ASSUME NEW r \in Run, corr = <<"payroll">> \o r, runs[r].status = "executed"
      PROVE  StatusOf(corr) = "executed"
  <2>1. corr[1] = "payroll" /\ Tail(corr) = r
    BY <1>1, IdParts
  <2> QED BY <1>1, <2>1 DEF StatusOf
<1>2. ASSUME NEW d \in Plan, corr = <<"distribution">> \o d, plans[d].status = "executed"
      PROVE  StatusOf(corr) = "executed"
  <2>1. corr[1] = "distribution" /\ Tail(corr) = d
    BY <1>2, IdParts
  <2> QED BY <1>2, <2>1 DEF StatusOf
<1>3. ASSUME NEW q \in Request, corr = <<"funding">> \o q, requests[q].status = "executed"
      PROVE  StatusOf(corr) = "executed"
  <2>1. corr[1] = "funding" /\ Tail(corr) = q
    BY <1>3, IdParts
  <2> QED BY <1>3, <2>1 DEF StatusOf
<1> QED BY <1>1, <1>2, <1>3 DEF IsExecuted, ExecutedIn

(* A step that leaves the ledger alone and executed records executed.      *)
LEMMA QuietLedger ==
    ASSUME LedgerInv, ledger' = ledger, StaysExecuted
    PROVE  LedgerInv'
<1>1. \A c : IsExecuted(c) => IsExecuted(c)'
  BY DEF IsExecuted, ExecutedIn, StaysExecuted
<1> QED BY <1>1 DEF LedgerInv, InCurrency

(* A posting under the id of what it executes.                             *)
LEMMA PostLedger ==
    ASSUME LedgerInv, NEW corr, NEW from, NEW to, NEW amountOf,
           IsFiniteSet(DOMAIN amountOf), \A p \in DOMAIN amountOf : amountOf[p] \in Int,
           ledger' = PostResult(corr, from, to, amountOf), StaysExecuted,
           Postable(corr, from, to, amountOf) => ExecutedIn(runs', plans', requests', corr)
    PROVE  LedgerInv'
<1> DEFINE es == Postings(corr, from, to, amountOf)
<1>0. /\ IsLedger(ledger) /\ Sound(ledger) /\ IsBook(ledger.entries)
      /\ \A i \in DOMAIN ledger.entries : IsExecuted(ledger.entries[i].correlationId)
      /\ \A i \in DOMAIN ledger.entries : ledger.entries[i].currency = Currency
  BY DEF LedgerInv, Sound, InCurrency
<1>1. /\ IsLedger(ledger') /\ Sound(ledger')
      /\ \/ ledger'.entries = ledger.entries
         \/ Postable(corr, from, to, amountOf) /\ ledger'.entries = ledger.entries \o es
  BY <1>0, PostSound
<1>2. \A c : IsExecuted(c) => ExecutedIn(runs', plans', requests', c)
  BY DEF IsExecuted, ExecutedIn, StaysExecuted
<1>3. IsBook(es) /\ \A i \in DOMAIN es : es[i].correlationId = corr /\ es[i].currency = Currency
  BY PostingsType
<1> HIDE DEF es
<1>4. ASSUME NEW i \in DOMAIN ledger'.entries
      PROVE  /\ ExecutedIn(runs', plans', requests', ledger'.entries[i].correlationId)
             /\ ledger'.entries[i].currency = Currency
  <2>1. CASE ledger'.entries = ledger.entries
    BY <1>0, <1>2, <2>1
  <2>2. CASE Postable(corr, from, to, amountOf) /\ ledger'.entries = ledger.entries \o es
    <3>1. \/ i \in DOMAIN ledger.entries /\ ledger'.entries[i] = ledger.entries[i]
          \/ \E j \in DOMAIN es : ledger'.entries[i] = es[j]
      BY <1>0, <1>3, <2>2, ConcatElement DEF IsBook
    <3> QED BY <1>0, <1>2, <1>3, <2>2, <3>1
  <2> QED BY <1>1, <2>1, <2>2
<1> QED BY <1>1, <1>4 DEF LedgerInv, IsExecuted, InCurrency
(* What a plan pays out is a map of integers.                              *)
LEMMA PayoutsOfType ==
    ASSUME EnginesInv, NEW d \in Plan, plans[d].status # "absent"
    PROVE  IsFiniteSet(DOMAIN PayoutsOf(d)) /\ \A p \in DOMAIN PayoutsOf(d) : PayoutsOf(d)[p] \in Int
<1> DEFINE f == resolvePayouts(plans[d])
           g == PayoutsOf(d)
<1>1. f \in Maps(Int)
  BY PayoutsType DEF EnginesInv, TreasuryType, PlansFit
<1>2. DOMAIN g = Writable(f) /\ \A p \in DOMAIN g : g[p] = f[p]
  BY DEF PayoutsOf
<1> HIDE DEF f, g
<1>3. IsFiniteSet(DOMAIN f) /\ \A p \in DOMAIN f : f[p] \in Int
  BY <1>1, MapFacts
<1>4. DOMAIN g \in SUBSET DOMAIN f
  BY <1>2 DEF Writable
<1>5. IsFiniteSet(DOMAIN g) /\ \A p \in DOMAIN g : g[p] \in Int
  BY <1>2, <1>3, <1>4, FS_Subset
<1> QED BY <1>5 DEF g

(* Only a restore forgets an execution, and it empties the ledger.         *)
LEMMA ExecutionIsFinal ==
    ASSUME EnginesInv, [TreasuryNext]_treasuryVars, ~restoreTreasury
    PROVE  StaysExecuted
<1>0. /\ runs \in [Run -> RunRecord] /\ plans \in [Plan -> PlanRecord]
      /\ requests \in [Request -> RequestRecord]
  BY DEF EnginesInv, TreasuryType
<1> DEFINE RunsStay == \A r \in Run : runs[r].status = "executed" => runs'[r].status = "executed"
           PlansStay == \A d \in Plan : plans[d].status = "executed" => plans'[d].status = "executed"
           RequestsStay == \A q \in Request :
                             requests[q].status = "executed" => requests'[q].status = "executed"
<1>1. RunsStay
  <2>1. CASE runs' = runs
    BY <2>1
  <2>2. CASE runs' # runs
    <3>1. PICK r \in Run : createRun(r) \/ approveRun(r) \/ executeRun(r)
      BY <2>2 DEF TreasuryNext, treasuryVars, PayrollOp, DistributionOp, FundingOp, registerPayee,
           updatePayeeStatus, setSchedule, createPlan, approvePlan, executeDistribution,
           submitRequest, approveGate, rejectRequest, executeRequest, SetRequest, takeSnapshot, engines
    <3>2. runs[r].status # "executed" /\ \A e \in Run \ {r} : runs'[e] = runs[e]
      BY <1>0, <3>1, RunPosts DEF createRun, approveRun
    <3> QED BY <3>2
  <2> QED BY <2>1, <2>2
<1>2. PlansStay
  <2>1. CASE plans' = plans
    BY <2>1
  <2>2. CASE plans' # plans
    <3>1. PICK d \in Plan :
            \/ \E strategy \in {"fixed", "proportional", "milestone"}, pool \in Pools :
                 \E R \in SUBSET Payee : \E shares \in [R -> Shares], met \in SUBSET R :
                     createPlan(d, strategy, pool, shares, met)
            \/ approvePlan(d) \/ executeDistribution(d)
      BY <2>2 DEF TreasuryNext, treasuryVars, PayrollOp, DistributionOp, FundingOp, registerPayee,
           updatePayeeStatus, setSchedule, createRun, approveRun, executeRun,
           submitRequest, approveGate, rejectRequest, executeRequest, SetRequest, takeSnapshot, engines
    <3>2. plans[d].status # "executed" /\ \A e \in Plan \ {d} : plans'[e] = plans[e]
      BY <1>0, <3>1, PlanPosts DEF createPlan, approvePlan
    <3> QED BY <3>2
  <2> QED BY <2>1, <2>2
<1>3. RequestsStay
  <2>1. CASE requests' = requests
    BY <2>1
  <2>2. CASE requests' # requests
    <3>1. PICK q \in Request :
            \/ \E m \in FundingAmounts, by \in Person : submitRequest(q, m, by)
            \/ \E by \in Person : approveGate(q, by) \/ rejectRequest(q, by)
            \/ executeRequest(q)
      BY <2>2 DEF TreasuryNext, treasuryVars, PayrollOp, DistributionOp, FundingOp, registerPayee,
           updatePayeeStatus, setSchedule, createRun, approveRun, executeRun, createPlan, approvePlan,
           executeDistribution, takeSnapshot, engines
    <3>2. requests[q].status # "executed" /\ \A e \in Request \ {q} : requests'[e] = requests[e]
      BY <1>0, <3>1, RequestPosts DEF submitRequest, approveGate, rejectRequest, SetRequest
    <3> QED BY <3>2
  <2> QED BY <2>1, <2>2
<1> QED BY <1>1, <1>2, <1>3 DEF StaysExecuted

(* The ledger starts balanced.                                             *)
LEMMA LedgerInit == TreasuryInit => LedgerInv
<1> SUFFICES ASSUME TreasuryInit PROVE LedgerInv
  OBVIOUS
<1>1. ledger = EmptyLedger
  BY DEF TreasuryInit
<1> QED BY <1>1, EmptySound DEF LedgerInv, InCurrency

(* Every operation keeps the books sound and posts only what it executes.  *)
LEMMA LedgerKept == EnginesInv /\ LedgerInv /\ [TreasuryNext]_treasuryVars => LedgerInv'
<1> SUFFICES ASSUME EnginesInv, LedgerInv, [TreasuryNext]_treasuryVars PROVE LedgerInv'
  OBVIOUS
<1>0. /\ runs \in [Run -> RunRecord] /\ plans \in [Plan -> PlanRecord]
      /\ requests \in [Request -> RequestRecord]
  BY DEF EnginesInv, TreasuryType
<1>1. CASE restoreTreasury
  <2>1. ledger' = EmptyLedger
    BY <1>1 DEF restoreTreasury
  <2> QED BY <2>1, EmptySound DEF LedgerInv, InCurrency
<1>2. CASE ~restoreTreasury /\ ledger' = ledger
  BY <1>2, ExecutionIsFinal, QuietLedger
<1>3. CASE ~restoreTreasury /\ ledger' # ledger
  <2>0. StaysExecuted
    BY <1>3, ExecutionIsFinal
  <2>1. \/ \E r \in Run : executeRun(r)
        \/ \E d \in Plan : executeDistribution(d)
        \/ \E q \in Request : executeRequest(q)
    BY <1>3 DEF TreasuryNext, treasuryVars, PayrollOp, DistributionOp, FundingOp, registerPayee,
         updatePayeeStatus, setSchedule, createRun, approveRun, createPlan, approvePlan,
         submitRequest, approveGate, rejectRequest, SetRequest, takeSnapshot
  <2>2. ASSUME NEW r \in Run, executeRun(r) PROVE LedgerInv'
    <3> DEFINE net == runs[r].net
               corr == <<"payroll">> \o r
               from == <<"payroll", "expense">>
               to == <<"payroll", "payee">>
    <3>1. /\ ledger' = PostResult(corr, from, to, net)
          /\ Postable(corr, from, to, net) => runs' = [runs EXCEPT ![r].status = "executed"]
      BY <2>2, RunPosts
    <3>2. net \in Maps(Int)
      BY <1>0 DEF RunRecord
    <3>3. IsFiniteSet(DOMAIN net) /\ \A p \in DOMAIN net : net[p] \in Int
      BY <3>2, MapFacts
    <3>4. Postable(corr, from, to, net) => ExecutedIn(runs', plans', requests', corr)
      <4>1. [runs EXCEPT ![r].status = "executed"][r].status = "executed"
        BY <1>0 DEF RunRecord
      <4> HIDE DEF corr, from, to, net
      <4> QED BY <3>1, <4>1 DEF ExecutedIn, corr
    <3> HIDE DEF corr, from, to, net
    <3> QED BY <2>0, <3>1, <3>3, <3>4, PostLedger
  <2>3. ASSUME NEW d \in Plan, executeDistribution(d) PROVE LedgerInv'
    <3> DEFINE paid == PayoutsOf(d)
               corr == <<"distribution">> \o d
               from == <<"distribution", "pool">> \o d
               to == <<"distribution", "recipient">>
    <3>1. /\ ledger' = PostResult(corr, from, to, paid) /\ plans[d].status = "approved"
          /\ Postable(corr, from, to, paid) => plans' = [plans EXCEPT ![d].status = "executed"]
      BY <2>3, PlanPosts
    <3>3. IsFiniteSet(DOMAIN paid) /\ \A p \in DOMAIN paid : paid[p] \in Int
      BY <3>1, PayoutsOfType
    <3>4. Postable(corr, from, to, paid) => ExecutedIn(runs', plans', requests', corr)
      <4>1. [plans EXCEPT ![d].status = "executed"][d].status = "executed"
        BY <1>0 DEF PlanRecord
      <4> HIDE DEF corr, from, to, paid
      <4> QED BY <3>1, <4>1 DEF ExecutedIn, corr
    <3> HIDE DEF corr, from, to, paid
    <3> QED BY <2>0, <3>1, <3>3, <3>4, PostLedger
  <2>4. ASSUME NEW q \in Request, executeRequest(q) PROVE LedgerInv'
    <3> DEFINE paid == [w \in {<<>>} |-> requests[q].amount]
               corr == <<"funding">> \o q
               from == <<"funding", "request">> \o q
               to == <<"treasury", "main">>
    <3>1. /\ ledger' = PostResult(corr, from, to, paid)
          /\ Postable(corr, from, to, paid) => requests' = [requests EXCEPT ![q].status = "executed"]
      BY <2>4, RequestPosts
    <3>3. IsFiniteSet(DOMAIN paid) /\ \A p \in DOMAIN paid : paid[p] \in Int
      <4>1. DOMAIN paid = {<<>>} /\ IsFiniteSet({<<>>})
        BY FS_Singleton
      <4>2. requests[q].amount \in Int
        BY <1>0 DEF RequestRecord
      <4> QED BY <4>1, <4>2
    <3>4. Postable(corr, from, to, paid) => ExecutedIn(runs', plans', requests', corr)
      <4>1. [requests EXCEPT ![q].status = "executed"][q].status = "executed"
        BY <1>0 DEF RequestRecord
      <4> HIDE DEF corr, from, to, paid
      <4> QED BY <3>1, <4>1 DEF ExecutedIn, corr
    <3> HIDE DEF corr, from, to, paid
    <3> QED BY <2>0, <3>1, <3>3, <3>4, PostLedger
  <2> QED BY <2>1, <2>2, <2>3, <2>4
<1> QED BY <1>1, <1>2, <1>3

(* Nothing is posted by halves: for any payees, runs, plans, requests and  *)
(* amounts, what the ledger holds belongs to something executed, and the   *)
(* trial balance of every currency balances.                               *)
THEOREM PostedCorrect == TreasurySpec => []OnlyExecutedIsPosted
<1>1. TreasuryInit => LedgerInv
  BY LedgerInit
<1>2. EnginesInv /\ LedgerInv /\ [TreasuryNext]_treasuryVars => LedgerInv'
  BY LedgerKept
<1>3. LedgerInv => OnlyExecutedIsPosted
  <2> SUFFICES ASSUME LedgerInv PROVE OnlyExecutedIsPosted
    OBVIOUS
  <2>1. OneCurrencyPerKey(ledger.entries)
    BY DEF LedgerInv, InCurrency, OneCurrencyPerKey
  <2> QED BY <2>1, ExecutedStatus, SoundIsBalanced DEF LedgerInv, OnlyExecutedIsPosted
<1> QED BY <1>1, <1>2, <1>3, EnginesCorrect, PTL DEF TreasurySpec
-----------------------------------------------------------------------------
(* Payouts stay within the pool                                            *)

(* The credits of one transaction, and what they add up to.                *)
CreditsOf(es, corr) == {i \in DOMAIN es : es[i].correlationId = corr /\ es[i].type = "credit"}
CreditAmounts(es, corr) ==
    [i \in DOMAIN es |-> IF i \in CreditsOf(es, corr) THEN es[i].scaled ELSE 0]
CreditsIn(es, corr) == SumOver(CreditAmounts(es, corr), DOMAIN es)

(* The model's sum of credits of one correlation id, as SumOver.           *)
LEMMA CreditsIs ==
    ASSUME IsBook(ledger.entries), NEW corr
    PROVE  Credits(corr) = CreditsIn(ledger.entries, corr)
<1> DEFINE es == ledger.entries
           P == CreditsOf(es, corr)
           f == [i \in P |-> es[i].scaled]
           x == AmountsIn(es)
           v == CreditAmounts(es, corr)
           S == DOMAIN es
<1>1. Credits(corr) = SumOver(f, P)
  BY ScaledSum DEF Credits, CreditsOf
<1>2. IsFiniteSet(S) /\ P \in SUBSET S /\ \A i \in S : x[i] \in Int
  BY BookDomain DEF CreditsOf
<1>3. \A i \in P : f[i] = x[i]
  BY <1>2 DEF AmountsIn
<1>4. Signs(v, x, S, P, {})
  BY <1>2 DEF Signs, CreditAmounts, AmountsIn
<1> HIDE DEF es, P, f, x, v, S
<1>5. SumOver(v, S) = SumOver(x, S \cap P) - SumOver(x, S \cap {})
  BY <1>2, <1>4, SumSigned
<1>6. S \cap P = P /\ S \cap {} = {} /\ IsFiniteSet(P)
  BY <1>2, FS_Subset
<1>7. SumOver(x, {}) = 0 /\ SumOver(f, P) = SumOver(x, P) /\ SumOver(x, P) \in Int
  BY <1>2, <1>3, <1>6, SumEmpty, SumSame, SumType
<1>8. SumOver(v, S) = SumOver(x, P)
  <2> DEFINE y == SumOver(x, P)
  <2>1. SumOver(v, S) = y - 0 /\ y \in Int
    BY <1>5, <1>6, <1>7
  <2> HIDE DEF y
  <2>2. SumOver(v, S) = y
    BY <2>1
  <2> QED BY <2>2 DEF y
<1> QED BY <1>1, <1>7, <1>8 DEF CreditsIn, v, S, es

(* Credits are integers.                                                   *)
LEMMA CreditAmountType ==
    ASSUME NEW es, IsBook(es), NEW corr
    PROVE  \A i \in DOMAIN es : CreditAmounts(es, corr)[i] \in Int
BY DEF IsBook, CreditAmounts

(* A posting adds its own credits to what was credited before.             *)
LEMMA CreditsAppend ==
    ASSUME NEW es, NEW fs, IsBook(es), IsBook(fs), NEW corr
    PROVE  /\ IsBook(es \o fs) /\ CreditsIn(es, corr) \in Int /\ CreditsIn(fs, corr) \in Int
           /\ CreditsIn(es \o fs, corr) = CreditsIn(es, corr) + CreditsIn(fs, corr)
<1> DEFINE n == Len(es)
           m == Len(fs)
           b == es \o fs
           f == CreditAmounts(b, corr)
           g == CreditAmounts(es, corr)
           h == CreditAmounts(fs, corr)
<1>0. /\ n \in Nat /\ m \in Nat /\ DOMAIN es = 1..n /\ DOMAIN fs = 1..m
      /\ IsFiniteSet(DOMAIN es) /\ IsFiniteSet(DOMAIN fs)
  BY BookDomain
<1>1. /\ DOMAIN b = 1..(n + m)
      /\ \A i \in 1..n : b[i] = es[i]
      /\ \A j \in 1..m : b[n + j] = fs[j]
  <2>1. PICK S : es \in Seq(S) /\ fs \in Seq(S)
    BY SequencesTogether DEF IsBook
  <2> QED BY <2>1, <1>0
<1>2. IsBook(b)
  BY AppendAdds
<1> HIDE DEF n, m, b
<1>3. \A i \in 1..n : g[i] \in Int /\ f[i] = g[i]
  <2> TAKE i \in 1..n
  <2>1. i \in DOMAIN b /\ b[i] = es[i] /\ i \in DOMAIN es
    BY <1>0, <1>1
  <2> QED BY <2>1, CreditAmountType DEF CreditAmounts, CreditsOf
<1>4. \A j \in 1..m : h[j] \in Int /\ f[n + j] = h[j]
  <2> TAKE j \in 1..m
  <2>1. n + j \in DOMAIN b /\ b[n + j] = fs[j] /\ j \in DOMAIN fs
    BY <1>0, <1>1
  <2> QED BY <2>1, CreditAmountType DEF CreditAmounts, CreditsOf
<1>5. SumOver(f, 1..(n + m)) = SumOver(g, 1..n) + SumOver(h, 1..m)
  <2> HIDE DEF f, g, h
  <2> QED BY <1>0, <1>3, <1>4, SumConcat
<1>6. CreditsIn(es, corr) \in Int /\ CreditsIn(fs, corr) \in Int
  BY <1>0, CreditAmountType, SumType DEF CreditsIn
<1> QED BY <1>0, <1>1, <1>2, <1>5, <1>6 DEF CreditsIn, b

(* A ledger without entries of a transaction has no credits of it.         *)
LEMMA NoCredits ==
    ASSUME NEW es, IsBook(es), NEW corr, \A i \in DOMAIN es : es[i].correlationId # corr
    PROVE  CreditsIn(es, corr) = 0
<1>1. \A i \in DOMAIN es : CreditAmounts(es, corr)[i] = 0
  BY DEF CreditAmounts, CreditsOf
<1> QED BY <1>1, BookDomain, SumZero DEF CreditsIn

(* The credits of a pair of entries.                                       *)
LEMMA PairCredits ==
    ASSUME NEW a, NEW b, NEW corr, a.correlationId = corr, b.correlationId = corr,
           a.type = "debit", b.type = "credit", a.scaled \in Int, b.scaled \in Int
    PROVE  IsBook(<<a, b>>) /\ CreditsIn(<<a, b>>, corr) = b.scaled
<1> DEFINE s == <<a, b>>
           f == CreditAmounts(s, corr)
<1>1. s \in Seq({a, b}) /\ DOMAIN s = {1, 2} /\ s[1] = a /\ s[2] = b
  OBVIOUS
<1>2. IsBook(s)
  <2>1. IsSequence(s)
    BY <1>1, SequenceIntro
  <2> HIDE DEF s
  <2> QED BY <1>1, <2>1 DEF IsBook
<1> HIDE DEF s
<1>3. f[1] = 0 /\ f[2] = b.scaled
  BY <1>1 DEF CreditAmounts, CreditsOf
<1> HIDE DEF f
<1>4. IsFiniteSet({1}) /\ 2 \notin {1} /\ {1} \cup {2} = {1, 2}
  <2>1. IsFiniteSet({1})
    BY FS_Singleton
  <2>2. 2 \notin {1} /\ {1} \cup {2} = {1, 2}
    OBVIOUS
  <2> QED BY <2>1, <2>2
<1>5. \A i \in {1} \cup {2} : f[i] \in Int
  BY <1>3
<1>6. SumOver(f, {1} \cup {2}) = f[2] + SumOver(f, {1}) /\ SumOver(f, {1}) = f[1]
  BY <1>3, <1>4, <1>5, SumAdd, SumOne
<1>7. CreditsIn(s, corr) = b.scaled
  <2>1. f[2] + f[1] = b.scaled
    BY <1>3
  <2>2. SumOver(f, {1} \cup {2}) = b.scaled
    BY <1>6, <2>1
  <2>3. SumOver(f, DOMAIN s) = b.scaled
    BY <1>1, <1>4, <2>2
  <2> QED BY <2>3 DEF CreditsIn, f
<1> QED BY <1>2, <1>7 DEF s

(* A batch credits the payees with exactly the amounts it is given.        *)
LEMMA PostingsCredits ==
    ASSUME NEW corr, NEW from, NEW to, NEW amountOf, IsFiniteSet(DOMAIN amountOf),
           DOMAIN amountOf # {}, \A p \in DOMAIN amountOf : amountOf[p] \in Int
    PROVE  CreditsIn(Postings(corr, from, to, amountOf), corr) = SumOver(amountOf, DOMAIN amountOf)
<1> DEFINE W == DOMAIN amountOf
           n == Cardinality(W)
           who == SetToSeq(W)
           pairs == Pairs(corr, from, to, amountOf)
           S == {e \in UNION {{pairs[i][1], pairs[i][2]} : i \in 1..n} :
                   e.scaled \in Int /\ e.correlationId = corr /\ e.currency = Currency}
           g == [i \in 1..n |-> amountOf[who[i]]]
<1>1. /\ n \in Nat /\ pairs \in [1..n -> Seq(S)] /\ pairs \in Seq(Seq(S))
      /\ Postings(corr, from, to, amountOf) = FlattenSeq(pairs)
      /\ \A i \in 1..n : /\ who[i] \in W
                         /\ pairs[i] = <<pairs[i][1], pairs[i][2]>>
                         /\ pairs[i][1].type = "debit" /\ pairs[i][2].type = "credit"
                         /\ pairs[i][2].scaled = amountOf[who[i]]
  <2>1. PairsAre(corr, from, to, amountOf)
    BY PairsFacts
  <2> QED BY <2>1 DEF PairsAre
<1>2. \A e \in S : e.scaled \in Int /\ e.correlationId = corr
  OBVIOUS
<1>3. who \in Bijection(1..n, W)
  BY SetToSeqLists
<1>4. n # 0
  BY FS_EmptySet
<1> HIDE DEF W, n, who, pairs, S
<1>5. Len(pairs) = n
  BY <1>1
<1>6. PICK c : /\ Flattens(c, pairs) /\ FlattenSeq(pairs) = c[n]
               /\ \A k \in 1..n : c[k] \in Seq(S)
  BY <1>1, <1>4, <1>5, FlattenSolved
<1>7. ASSUME NEW s \in Seq(S) PROVE IsBook(s)
  <2>1. IsSequence(s) /\ \A i \in DOMAIN s : s[i] \in S
    BY SequenceIntro
  <2> QED BY <1>2, <2>1 DEF IsBook
<1>8. ASSUME NEW i \in 1..n
      PROVE  /\ IsBook(pairs[i]) /\ CreditsIn(pairs[i], corr) = g[i] /\ g[i] \in Int
  <2> DEFINE a == pairs[i][1]
             b == pairs[i][2]
  <2>1. /\ pairs[i] = <<a, b>> /\ a.type = "debit" /\ b.type = "credit"
        /\ b.scaled = amountOf[who[i]] /\ who[i] \in W /\ pairs[i] \in Seq(S)
    BY <1>1
  <2> HIDE DEF a, b
  <2>2. a \in S /\ b \in S
    <3>1. pairs[i][1] = a /\ pairs[i][2] = b /\ DOMAIN pairs[i] = {1, 2}
      BY <2>1
    <3>2. \A j \in DOMAIN pairs[i] : pairs[i][j] \in S
      BY <2>1
    <3> QED BY <3>1, <3>2
  <2>3. /\ a.correlationId = corr /\ b.correlationId = corr
        /\ a.scaled \in Int /\ b.scaled \in Int
    BY <1>2, <2>2
  <2>4. IsBook(<<a, b>>) /\ CreditsIn(<<a, b>>, corr) = b.scaled
    BY <2>1, <2>3, PairCredits
  <2>5. g[i] = b.scaled
    BY <2>1
  <2> QED BY <2>1, <2>3, <2>4, <2>5
<1> HIDE DEF g
<1> DEFINE T == {k \in Nat : k \in 1..n => CreditsIn(c[k], corr) = SumOver(g, 1..k)}
<1>9. ASSUME NEW k \in Nat, \A j \in Nat : j < k => j \in T PROVE k \in T
  <2> SUFFICES ASSUME k \in 1..n PROVE CreditsIn(c[k], corr) = SumOver(g, 1..k)
    OBVIOUS
  <2>1. c[k] = IF k = 1 THEN pairs[k] ELSE c[k - 1] \o pairs[k]
    BY <1>5, <1>6 DEF Flattens
  <2>2. CASE k = 1
    <3>1. 1..k = {k}
      BY <2>2
    <3>2. SumOver(g, {k}) = g[k]
      BY <1>8, SumOne
    <3>3. c[k] = pairs[k] /\ CreditsIn(pairs[k], corr) = g[k]
      BY <1>8, <2>1, <2>2
    <3> QED BY <3>1, <3>2, <3>3
  <2>3. CASE k # 1
    <3> DEFINE j == k - 1
               Y == 1..j
    <3>1. /\ j \in Nat /\ j < k /\ j \in 1..n /\ IsFiniteSet(Y) /\ k \notin Y /\ 1..k = Y \cup {k}
      <4>1. j \in Nat /\ j < k /\ j \in 1..n /\ k \notin Y /\ 1..k = Y \cup {k}
        BY <1>1, <2>3
      <4> QED BY <4>1, FS_Interval
    <3>2. CreditsIn(c[j], corr) = SumOver(g, Y)
      <4>1. j \in T
        BY <1>9, <3>1
      <4> QED BY <3>1, <4>1
    <3>3. IsBook(c[j])
      BY <1>6, <1>7, <3>1
    <3>4. \A i \in Y \cup {k} : g[i] \in Int
      <4>1. Y \cup {k} \subseteq 1..n
        BY <1>1, <3>1
      <4> HIDE DEF Y
      <4> QED BY <1>8, <4>1
    <3>5. SumOver(g, Y \cup {k}) = g[k] + SumOver(g, Y) /\ SumOver(g, Y) \in Int
      <4> HIDE DEF Y
      <4> QED BY <3>1, <3>4, SumAdd, SumType
    <3>6. CreditsIn(c[j] \o pairs[k], corr) = CreditsIn(c[j], corr) + g[k]
      <4>1. IsBook(pairs[k]) /\ CreditsIn(pairs[k], corr) = g[k]
        BY <1>8
      <4> HIDE DEF j
      <4> QED BY <3>3, <4>1, CreditsAppend
    <3>7. c[k] = c[j] \o pairs[k] /\ g[k] \in Int
      BY <1>8, <2>1, <2>3
    <3> DEFINE z == SumOver(g, Y)
    <3>8. CreditsIn(c[k], corr) = z + g[k] /\ SumOver(g, 1..k) = g[k] + z /\ z \in Int
      BY <3>1, <3>2, <3>5, <3>6, <3>7
    <3> HIDE DEF T, z, Y, j
    <3> QED BY <3>7, <3>8
  <2> QED BY <2>2, <2>3
<1>10. T = Nat
  <2> HIDE DEF T
  <2>1. T \in SUBSET Nat
    BY DEF T
  <2> QED BY <1>9, <2>1, NoLeastExceptionIsNone
<1>11. CreditsIn(c[n], corr) = SumOver(g, 1..n)
  <2>1. n \in 1..n /\ n \in T
    BY <1>1, <1>4, <1>10
  <2> QED BY <2>1
<1>12. SumOver(g, 1..n) = SumOver(amountOf, W)
  <2>1. IsFiniteSet(1..n) /\ IsFiniteSet(W) /\ \A w \in W : amountOf[w] \in Int
    BY <1>1, FS_Interval DEF W
  <2>2. \A i \in 1..n : g[i] = amountOf[who[i]]
    BY DEF g
  <2>3. Renames(g, amountOf, who, 1..n, W)
    BY <1>3, <2>1, <2>2 DEF Renames
  <2> DEFINE D == 1..n
  <2> HIDE DEF D
  <2>4. SumOver(g, D) = SumOver(amountOf, W)
    BY <2>1, <2>3, SumReindex DEF D
  <2> QED BY <2>4 DEF D
<1> QED BY <1>1, <1>6, <1>11, <1>12 DEF W
(* What is left of a pool is never negative.                               *)
LEMMA MaxZero ==
    ASSUME NEW x \in Int
    PROVE  Max({0, x}) = IF x >= 0 THEN x ELSE 0
<1> DEFINE s == {0, x}
           m == IF x >= 0 THEN x ELSE 0
<1>1. m \in s /\ \A y \in s : m >= y
  OBVIOUS
<1>2. \A z \in s : (\A y \in s : z >= y) => z = m
  OBVIOUS
<1> HIDE DEF s, m
<1>3. Max(s) = m
  BY <1>1, <1>2 DEF Max
<1> QED BY <1>3 DEF s, m

(* bigint division rounds towards zero, so never away from the pool.       *)
LEMMA QuotientBound ==
    ASSUME NEW n \in Int, NEW d \in Nat \ {0}
    PROVE  /\ n >= 0 => d * Quotient(n, d) <= n
           /\ n <= 0 => Quotient(n, d) <= 0
<1>1. n >= 0 => d * (n \div d) <= n
  OBVIOUS
<1>2. n <= 0 => -((-n) \div d) <= 0 /\ (n = 0 => n \div d = 0)
  OBVIOUS
<1> QED BY <1>1, <1>2 DEF Quotient

(* A multiple of every term sums to the multiple of the sum.              *)
LEMMA ScaledShares ==
    ASSUME NEW D, IsFiniteSet(D), NEW k \in Int, NEW f, NEW g,
           \A p \in D : f[p] \in Int /\ g[p] = k * f[p]
    PROVE  SumOver(g, D) = k * SumOver(f, D)
BY SumScale

(* Shares of a whole that do not exceed it get no more than the pool,      *)
(* however each of them is rounded.                                        *)
LEMMA ProRata ==
    ASSUME NEW D, IsFiniteSet(D), NEW f, NEW s, NEW pool \in Int, NEW w \in Nat \ {0},
           \A p \in D : s[p] \in Nat /\ f[p] \in Nat /\ f[p] = Quotient(pool * s[p], w),
           SumOver(s, D) <= w
    PROVE  SumOver(f, D) <= Max({0, pool})
<1>0. /\ \A p \in D : s[p] \in Nat
      /\ \A p \in D : f[p] \in Nat
      /\ \A p \in D : s[p] \in Int
      /\ \A p \in D : f[p] \in Int
  OBVIOUS
<1>1. SumOver(f, D) \in Nat /\ SumOver(s, D) \in Nat
  <2>1. D \in SUBSET D
    OBVIOUS
  <2> QED BY <1>0, <2>1, SumMonotone
<1>2. CASE pool >= 0
  <2> DEFINE g == [p \in D |-> w * f[p]]
             h == [p \in D |-> pool * s[p]]
             F == SumOver(f, D)
             S == SumOver(s, D)
  <2>1. \A p \in D : g[p] \in Int /\ h[p] \in Int /\ g[p] <= h[p]
    <3> TAKE p \in D
    <3> DEFINE n == pool * s[p]
    <3>1. n \in Int /\ n >= 0
      BY <1>0, <1>2
    <3>2. w * f[p] <= n
      <4> HIDE DEF n
      <4>1. w * Quotient(n, w) <= n
        BY <3>1, QuotientBound
      <4>2. f[p] = Quotient(n, w)
        BY DEF n
      <4> QED BY <4>1, <4>2
    <3>3. w * f[p] \in Int
      BY <1>0
    <3> QED BY <3>1, <3>2, <3>3
  <2>2. SumOver(g, D) = w * F
    <3>1. \A p \in D : f[p] \in Int /\ g[p] = w * f[p]
      BY <1>0
    <3>2. w \in Int
      OBVIOUS
    <3> HIDE DEF g
    <3> QED BY <3>1, <3>2, ScaledShares
  <2>3. SumOver(h, D) = pool * S
    <3>1. \A p \in D : s[p] \in Int /\ h[p] = pool * s[p]
      BY <1>0
    <3> HIDE DEF h
    <3> QED BY <3>1, SumScale
  <2>4. SumOver(g, D) <= SumOver(h, D)
    <3> HIDE DEF g, h
    <3> QED BY <2>1, SumLess
  <2>5. F \in Nat /\ S \in Nat /\ S <= w
    BY <1>1
  <2>6. w * F <= pool * S
    BY <2>2, <2>3, <2>4
  <2> HIDE DEF F, S
  <2>7. pool * S <= pool * w
    BY <1>2, <2>5
  <2>8. w * F <= pool * w
    <3> DEFINE a == w * F
               b == pool * S
               c == pool * w
    <3>1. a \in Int /\ b \in Int /\ c \in Int /\ a <= b /\ b <= c
      BY <2>5, <2>6, <2>7
    <3> HIDE DEF a, b, c
    <3>2. a <= c
      BY <3>1
    <3> QED BY <3>2 DEF a, c
  <2>9. F <= pool
    BY <2>5, <2>8
  <2> QED BY <1>2, <2>9, MaxZero DEF F
<1>3. CASE pool < 0
  <2>1. \A p \in D : f[p] = 0
    <3> TAKE p \in D
    <3> DEFINE n == pool * s[p]
    <3>1. n \in Int /\ n <= 0
      BY <1>0, <1>3
    <3> HIDE DEF n
    <3>2. Quotient(n, w) <= 0
      BY <3>1, QuotientBound
    <3>3. f[p] = Quotient(n, w)
      BY DEF n
    <3> QED BY <1>0, <3>2, <3>3
  <2>2. SumOver(f, D) = 0
    BY <2>1, SumZero
  <2> QED BY <1>3, <2>2, MaxZero
<1> QED BY <1>2, <1>3

(* Whatever the strategy, a plan that fits pays out at most its pool.      *)
LEMMA PayoutsFit ==
    ASSUME NEW plan \in PlanRecord, plan.strategy # "none",
           ValidShares(plan.strategy, plan.pool, plan.shares),
           \A p \in Writable(resolvePayouts(plan)) : resolvePayouts(plan)[p] > 0
    PROVE  LET f == resolvePayouts(plan)
           IN  SumOver([p \in Writable(f) |-> f[p]], Writable(f)) <= Max({0, plan.pool})
<1> DEFINE f == resolvePayouts(plan)
           D == DOMAIN f
           W == Writable(f)
           pool == plan.pool
           s == plan.shares
           bound == Max({0, pool})
<1>0. /\ s \in Maps(Nat) /\ pool \in Int /\ plan.met \in SUBSET Payee
      /\ plan.strategy \in {"fixed", "proportional", "milestone"}
  BY DEF PlanRecord
<1>1. f \in Maps(Int)
  BY PayoutsType
<1>2. IsFiniteSet(D) /\ (\A p \in D : f[p] \in Int) /\ W \in SUBSET D
  <2>1. W \in SUBSET D
    BY DEF Writable
  <2> HIDE DEF f, W
  <2> QED BY <1>1, <2>1, MapFacts
<1>3. \A p \in D : f[p] \in Nat
  <2>1. \A p \in D : f[p] # 0 => f[p] > 0
    BY DEF Writable
  <2> HIDE DEF f
  <2> QED BY <1>2, <2>1
<1>4. IsFiniteSet(DOMAIN s) /\ \A p \in DOMAIN s : s[p] \in Nat
  BY <1>0, MapFacts
<1>5. SumOver(f, D) <= bound
  <2>1. CASE plan.strategy = "fixed"
    <3>1. f = s /\ Total(s) <= pool
      BY <2>1 DEF resolvePayouts, ValidShares
    <3>2. Total(s) = SumOver(s, DOMAIN s) /\ Total(s) \in Nat
      BY <1>0, TotalType
    <3>3. bound = pool
      BY <1>0, <3>1, <3>2, MaxZero
    <3> QED BY <3>1, <3>2, <3>3
  <2>2. CASE plan.strategy = "proportional"
    <3>1. f = [p \in DOMAIN s |-> Quotient(pool * s[p], Whole)] /\ Total(s) <= Whole
      BY <2>2 DEF resolvePayouts, ValidShares
    <3>2. Total(s) = SumOver(s, DOMAIN s)
      BY <1>0, TotalType
    <3>3. D = DOMAIN s
      BY <3>1
    <3>4. \A p \in D : s[p] \in Nat /\ f[p] \in Nat /\ f[p] = Quotient(pool * s[p], Whole)
      BY <1>3, <1>4, <3>1, <3>3
    <3>5. SumOver(s, D) <= Whole
      BY <3>1, <3>2, <3>3
    <3> HIDE DEF f, D, s, pool
    <3> QED BY <1>0, <1>2, <3>4, <3>5, ProRata, MoneyIsIntegral
  <2>3. CASE plan.strategy = "milestone"
    <3> DEFINE E == DOMAIN s \cap plan.met
               earned == [p \in E |-> s[p]]
               whole == Total(earned)
    <3>1. f = [p \in E |-> IF whole = 0 THEN 0 ELSE Quotient(pool * s[p], whole)]
      BY <2>3 DEF resolvePayouts
    <3>2. earned \in Maps(Nat) /\ DOMAIN earned = E
      <4>1. E \in SUBSET Payee /\ earned \in [E -> Nat]
        BY <1>0, <1>4
      <4> HIDE DEF E, earned
      <4> QED BY <4>1, MapIntro
    <3>3. whole \in Nat /\ whole = SumOver(earned, E)
      <4> HIDE DEF earned, E
      <4> QED BY <3>2, TotalType
    <3>4. D = E
      BY <3>1
    <3>5. CASE whole = 0
      <4>1. \A p \in D : f[p] = 0
        BY <3>1, <3>4, <3>5
      <4>2. SumOver(f, D) = 0
        <5> HIDE DEF f, D
        <5> QED BY <1>2, <4>1, SumZero
      <4> QED BY <1>0, <4>2, MaxZero
    <3>6. CASE whole # 0
      <4>1. \A p \in D : earned[p] \in Nat /\ f[p] \in Nat /\ f[p] = Quotient(pool * earned[p], whole)
        <5>1. \A p \in D : earned[p] = s[p] /\ s[p] \in Nat
          BY <1>4, <3>4
        <5>2. \A p \in D : f[p] = Quotient(pool * s[p], whole)
          BY <3>1, <3>4, <3>6
        <5> HIDE DEF f, D, earned, whole, s
        <5> QED BY <1>3, <5>1, <5>2
      <4>2. SumOver(earned, D) <= whole /\ whole \in Nat \ {0}
        BY <3>3, <3>4, <3>6
      <4> HIDE DEF f, D, earned, whole, pool
      <4> QED BY <1>0, <1>2, <4>1, <4>2, ProRata
    <3> QED BY <3>5, <3>6
  <2> QED BY <1>0, <2>1, <2>2, <2>3
<1>6. SumOver(f, W) <= SumOver(f, D) /\ SumOver(f, W) \in Nat /\ SumOver(f, D) \in Nat
  <2> HIDE DEF f, D, W
  <2> QED BY <1>2, <1>3, SumMonotone
<1>7. SumOver([p \in W |-> f[p]], W) = SumOver(f, W)
  <2> DEFINE g == [p \in W |-> f[p]]
  <2>1. IsFiniteSet(W) /\ \A p \in W : g[p] = f[p]
    <3>1. IsFiniteSet(W)
      <4> HIDE DEF W, D
      <4> QED BY <1>2, FS_Subset
    <3> QED BY <3>1
  <2> HIDE DEF g, W, f
  <2>2. SumOver(g, W) = SumOver(f, W)
    BY <2>1, SumSame
  <2> QED BY <2>2 DEF g
<1>8. bound \in Int
  BY <1>0, MaxZero
<1> HIDE DEF f, D, W, bound
<1>9. SumOver([p \in W |-> f[p]], W) <= bound
  BY <1>5, <1>6, <1>7, <1>8
<1> QED BY <1>9 DEF f, W, bound

(* What was credited for a distribution is within its pool.                *)
PoolInv ==
    \A d \in Plan : CreditsIn(ledger.entries, <<"distribution">> \o d) <= Max({0, plans[d].pool})

(* An executed distribution id is executed by its plan.                    *)
LEMMA OwnId ==
    ASSUME NEW U, NEW P, NEW R, NEW d \in Plan, ExecutedIn(U, P, R, <<"distribution">> \o d)
    PROVE  P[d].status = "executed"
<1> DEFINE corr == <<"distribution">> \o d
<1>1. corr[1] = "distribution" /\ Tail(corr) = d
  BY IdParts
<1> HIDE DEF corr
<1>2. \A r \in Run : corr # <<"payroll">> \o r
  <2>1. \A r \in Run : (<<"payroll">> \o r)[1] = "payroll"
    BY IdParts
  <2> QED BY <1>1, <2>1
<1>3. \A q \in Request : corr # <<"funding">> \o q
  <2>1. \A q \in Request : (<<"funding">> \o q)[1] = "funding"
    BY IdParts
  <2> QED BY <1>1, <2>1
<1>4. \A e \in Plan : corr = <<"distribution">> \o e => e = d
  <2>1. \A e \in Plan : Tail(<<"distribution">> \o e) = e
    BY IdParts
  <2> QED BY <1>1, <2>1
<1>5. ExecutedIn(U, P, R, corr)
  BY DEF corr
<1> QED BY <1>2, <1>3, <1>4, <1>5 DEF ExecutedIn

(* Nothing was paid out of a plan that is not executed.                    *)
LEMMA UnpaidIn ==
    ASSUME NEW es, IsBook(es), NEW U, NEW P, NEW R,
           \A i \in DOMAIN es : ExecutedIn(U, P, R, es[i].correlationId),
           NEW d \in Plan, P[d].status # "executed"
    PROVE  CreditsIn(es, <<"distribution">> \o d) = 0
<1> DEFINE corr == <<"distribution">> \o d
<1>1. ~ExecutedIn(U, P, R, corr)
  BY OwnId
<1> HIDE DEF corr
<1>2. \A i \in DOMAIN es : es[i].correlationId # corr
  BY <1>1
<1>3. CreditsIn(es, corr) = 0
  BY <1>2, NoCredits
<1> QED BY <1>3 DEF corr

(* Nothing is credited for a distribution that is not executed.            *)
LEMMA UnpaidPlan ==
    ASSUME LedgerInv, NEW d \in Plan, plans[d].status # "executed"
    PROVE  CreditsIn(ledger.entries, <<"distribution">> \o d) = 0
<1>1. /\ IsBook(ledger.entries)
      /\ \A i \in DOMAIN ledger.entries :
            ExecutedIn(runs, plans, requests, ledger.entries[i].correlationId)
  BY DEF LedgerInv, Sound, IsExecuted
<1> QED BY <1>1, UnpaidIn

(* A posting under another id leaves a plan's credits as they are.         *)
LEMMA OtherPosting ==
    ASSUME LedgerInv, NEW other, NEW from, NEW to, NEW amountOf,
           IsFiniteSet(DOMAIN amountOf), \A p \in DOMAIN amountOf : amountOf[p] \in Int,
           ledger' = PostResult(other, from, to, amountOf), NEW corr, other # corr
    PROVE  CreditsIn(ledger'.entries, corr) = CreditsIn(ledger.entries, corr)
<1> DEFINE es == Postings(other, from, to, amountOf)
           old == ledger.entries
<1>0. IsLedger(ledger) /\ Sound(ledger) /\ IsBook(old)
  BY DEF LedgerInv, Sound
<1>1. ledger'.entries = old \/ ledger'.entries = old \o es
  BY <1>0, PostSound
<1>2. IsBook(es) /\ \A i \in DOMAIN es : es[i].correlationId = other
  BY PostingsType
<1> HIDE DEF es, old
<1>3. CreditsIn(es, corr) = 0
  BY <1>2, NoCredits
<1>4. CreditsIn(old \o es, corr) = CreditsIn(old, corr) + CreditsIn(es, corr)
      /\ CreditsIn(old, corr) \in Int
  BY <1>0, <1>2, CreditsAppend
<1>5. CreditsIn(old \o es, corr) = CreditsIn(old, corr)
  BY <1>3, <1>4
<1>6. CreditsIn(ledger'.entries, corr) = CreditsIn(old, corr)
  BY <1>1, <1>5
<1> QED BY <1>6 DEF old

(* An executed plan's credits stay as they are, whoever posts next.        *)
LEMMA PaidPlanIsLeft ==
    ASSUME EnginesInv, LedgerInv, [TreasuryNext]_treasuryVars, ~restoreTreasury,
           NEW d \in Plan, plans[d].status = "executed"
    PROVE  /\ CreditsIn(ledger'.entries, <<"distribution">> \o d)
                = CreditsIn(ledger.entries, <<"distribution">> \o d)
           /\ plans'[d].pool = plans[d].pool
<1> DEFINE corr == <<"distribution">> \o d
<1>0. /\ runs \in [Run -> RunRecord] /\ plans \in [Plan -> PlanRecord]
      /\ requests \in [Request -> RequestRecord]
  BY DEF EnginesInv, TreasuryType
<1>a. corr[1] = "distribution" /\ Tail(corr) = d
  BY IdParts
<1>1. plans'[d].pool = plans[d].pool
  <2>1. CASE plans' = plans
    BY <2>1
  <2>2. CASE plans' # plans
    <3>1. PICK e \in Plan :
            \/ \E strategy \in {"fixed", "proportional", "milestone"}, pool \in Pools :
                 \E R \in SUBSET Payee : \E shares \in [R -> Shares], met \in SUBSET R :
                     createPlan(e, strategy, pool, shares, met)
            \/ approvePlan(e) \/ executeDistribution(e)
      BY <2>2 DEF TreasuryNext, treasuryVars, PayrollOp, DistributionOp, FundingOp, registerPayee,
           updatePayeeStatus, setSchedule, createRun, approveRun, executeRun,
           submitRequest, approveGate, rejectRequest, executeRequest, SetRequest, takeSnapshot, engines
    <3>2. plans[e].status # "executed" /\ \A x \in Plan \ {e} : plans'[x] = plans[x]
      BY <1>0, <3>1, PlanPosts DEF createPlan, approvePlan
    <3> QED BY <3>2
  <2> QED BY <2>1, <2>2
<1>2. CASE ledger' = ledger
  BY <1>1, <1>2
<1>3. CASE ledger' # ledger
  <2> HIDE DEF corr
  <2>1. \/ \E r \in Run : executeRun(r)
        \/ \E e \in Plan : executeDistribution(e)
        \/ \E q \in Request : executeRequest(q)
    BY <1>3 DEF TreasuryNext, treasuryVars, PayrollOp, DistributionOp, FundingOp, registerPayee,
         updatePayeeStatus, setSchedule, createRun, approveRun, createPlan, approvePlan,
         submitRequest, approveGate, rejectRequest, SetRequest, takeSnapshot
  <2>2. ASSUME NEW r \in Run, executeRun(r)
        PROVE  CreditsIn(ledger'.entries, corr) = CreditsIn(ledger.entries, corr)
    <3> DEFINE net == runs[r].net
               other == <<"payroll">> \o r
               from == <<"payroll", "expense">>
               to == <<"payroll", "payee">>
    <3>1. ledger' = PostResult(other, from, to, net)
      BY <2>2, RunPosts
    <3>2. net \in Maps(Int)
      BY <1>0 DEF RunRecord
    <3>3. IsFiniteSet(DOMAIN net) /\ \A p \in DOMAIN net : net[p] \in Int
      BY <3>2, MapFacts
    <3>4. other # corr
      <4>1. other[1] = "payroll"
        BY IdParts
      <4> QED BY <1>a, <4>1
    <3> HIDE DEF other, from, to, net
    <3> QED BY <3>1, <3>3, <3>4, OtherPosting
  <2>3. ASSUME NEW e \in Plan, executeDistribution(e)
        PROVE  CreditsIn(ledger'.entries, corr) = CreditsIn(ledger.entries, corr)
    <3> DEFINE paid == PayoutsOf(e)
               other == <<"distribution">> \o e
               from == <<"distribution", "pool">> \o e
               to == <<"distribution", "recipient">>
    <3>1. ledger' = PostResult(other, from, to, paid) /\ plans[e].status = "approved"
      BY <2>3, PlanPosts
    <3>3. IsFiniteSet(DOMAIN paid) /\ \A p \in DOMAIN paid : paid[p] \in Int
      BY <3>1, PayoutsOfType
    <3>4. other # corr
      <4>1. Tail(other) = e /\ e # d
        BY <3>1, IdParts
      <4> QED BY <1>a, <4>1
    <3> HIDE DEF other, from, to, paid
    <3> QED BY <3>1, <3>3, <3>4, OtherPosting
  <2>4. ASSUME NEW q \in Request, executeRequest(q)
        PROVE  CreditsIn(ledger'.entries, corr) = CreditsIn(ledger.entries, corr)
    <3> DEFINE paid == [w \in {<<>>} |-> requests[q].amount]
               other == <<"funding">> \o q
               from == <<"funding", "request">> \o q
               to == <<"treasury", "main">>
    <3>1. ledger' = PostResult(other, from, to, paid)
      BY <2>4, RequestPosts
    <3>3. IsFiniteSet(DOMAIN paid) /\ \A p \in DOMAIN paid : paid[p] \in Int
      <4>1. DOMAIN paid = {<<>>} /\ IsFiniteSet({<<>>})
        BY FS_Singleton
      <4>2. requests[q].amount \in Int
        BY <1>0 DEF RequestRecord
      <4> QED BY <4>1, <4>2
    <3>4. other # corr
      <4>1. other[1] = "funding"
        BY IdParts
      <4> QED BY <1>a, <4>1
    <3> HIDE DEF other, from, to, paid
    <3> QED BY <3>1, <3>3, <3>4, OtherPosting
  <2>5. CreditsIn(ledger'.entries, corr) = CreditsIn(ledger.entries, corr)
    BY <2>1, <2>2, <2>3, <2>4
  <2> QED BY <1>1, <2>5 DEF corr
<1> QED BY <1>2, <1>3

(* The execution of a plan credits at most its pool.                       *)
LEMMA ExecutionFits ==
    ASSUME EnginesInv, LedgerInv, NEW d \in Plan, executeDistribution(d)
    PROVE  CreditsIn(ledger'.entries, <<"distribution">> \o d) <= Max({0, plans[d].pool})
<1> DEFINE paid == PayoutsOf(d)
           corr == <<"distribution">> \o d
           from == <<"distribution", "pool">> \o d
           to == <<"distribution", "recipient">>
           es == Postings(corr, from, to, paid)
           old == ledger.entries
           bound == Max({0, plans[d].pool})
<1>1. /\ ledger' = PostResult(corr, from, to, paid) /\ plans[d].status = "approved"
      /\ \A p \in DOMAIN paid : paid[p] > 0
  BY PlanPosts
<1>2. IsFiniteSet(DOMAIN paid) /\ \A p \in DOMAIN paid : paid[p] \in Int
  BY <1>1, PayoutsOfType
<1>3. /\ plans[d] \in PlanRecord /\ plans[d].strategy # "none"
      /\ ValidShares(plans[d].strategy, plans[d].pool, plans[d].shares)
  BY <1>1 DEF EnginesInv, TreasuryType, PlansFit
<1>4. bound \in Int /\ 0 <= bound
  BY <1>3, MaxZero DEF PlanRecord
<1>5. SumOver(paid, DOMAIN paid) <= bound
  <2> DEFINE f == resolvePayouts(plans[d])
  <2>1. DOMAIN paid = Writable(f) /\ paid = [p \in Writable(f) |-> f[p]]
    BY DEF PayoutsOf
  <2>2. \A p \in Writable(f) : f[p] > 0
    BY <1>1, <2>1
  <2>3. SumOver([p \in Writable(f) |-> f[p]], Writable(f)) <= bound
    BY <1>3, <2>2, PayoutsFit
  <2> QED BY <2>1, <2>3
<1>6. CreditsIn(old, corr) = 0
  BY <1>1, UnpaidPlan
<1>7. IsLedger(ledger) /\ Sound(ledger) /\ IsBook(old)
  BY DEF LedgerInv, Sound
<1>8. \/ ledger'.entries = old
      \/ DOMAIN paid # {} /\ ledger'.entries = old \o es
  <2> HIDE DEF paid, corr, from, to
  <2> QED BY <1>1, <1>2, <1>7, PostSound
<1>9. CASE ledger'.entries = old
  BY <1>4, <1>6, <1>9
<1>10. CASE DOMAIN paid # {} /\ ledger'.entries = old \o es
  <2> HIDE DEF paid, corr, from, to, bound, old
  <2>1. CreditsIn(es, corr) = SumOver(paid, DOMAIN paid) /\ IsBook(es)
    BY <1>2, <1>10, PostingsCredits, PostingsType
  <2> HIDE DEF es
  <2>2. CreditsIn(old \o es, corr) = CreditsIn(old, corr) + CreditsIn(es, corr)
        /\ CreditsIn(es, corr) \in Int
    BY <1>7, <2>1, CreditsAppend
  <2>3. CreditsIn(ledger'.entries, corr) <= bound
    BY <1>4, <1>5, <1>6, <1>10, <2>1, <2>2
  <2> QED BY <2>3 DEF corr, bound
<1> QED BY <1>8, <1>9, <1>10

(* An executed distribution has credited what its computation gave, and    *)
(* nothing more later.                                                     *)
LEMMA PoolStep ==
    EnginesInv /\ LedgerInv /\ PoolInv /\ [TreasuryNext]_treasuryVars
        /\ EnginesInv' /\ LedgerInv' => PoolInv'
<1> SUFFICES ASSUME EnginesInv, LedgerInv, PoolInv, [TreasuryNext]_treasuryVars,
                    EnginesInv', LedgerInv', NEW d \in Plan
             PROVE  CreditsIn(ledger'.entries, <<"distribution">> \o d) <= Max({0, plans'[d].pool})
  BY DEF PoolInv
<1> DEFINE corr == <<"distribution">> \o d
<1>0. /\ plans'[d].pool \in Int /\ 0 <= Max({0, plans'[d].pool})
  <2>1. plans'[d].pool \in Int
    BY DEF EnginesInv, TreasuryType, PlanRecord
  <2> QED BY <2>1, MaxZero
<1>1. CASE plans'[d].status # "executed"
  <2>1. /\ IsBook(ledger'.entries)
        /\ \A i \in DOMAIN ledger'.entries :
              ExecutedIn(runs', plans', requests', ledger'.entries[i].correlationId)
    BY DEF LedgerInv, Sound, IsExecuted
  <2>2. CreditsIn(ledger'.entries, corr) = 0
    BY <1>1, <2>1, UnpaidIn
  <2> QED BY <1>0, <2>2
<1>2. CASE plans'[d].status = "executed" /\ restoreTreasury
  <2>1. ledger'.entries = <<>>
    BY <1>2, EmptySound DEF restoreTreasury
  <2>2. IsBook(<<>>) /\ DOMAIN <<>> = {}
    BY EmptySound DEF Sound
  <2>3. CreditsIn(<<>>, corr) = 0
    BY <2>2, NoCredits
  <2> QED BY <1>0, <2>1, <2>3
<1>3. CASE plans[d].status = "executed" /\ ~restoreTreasury
  BY <1>3, PaidPlanIsLeft DEF PoolInv
<1>4. CASE plans'[d].status = "executed" /\ plans[d].status # "executed" /\ ~restoreTreasury
  <2>0. plans \in [Plan -> PlanRecord]
    BY DEF EnginesInv, TreasuryType
  <2>1. PICK e \in Plan :
            \/ \E strategy \in {"fixed", "proportional", "milestone"}, pool \in Pools :
                 \E R \in SUBSET Payee : \E shares \in [R -> Shares], met \in SUBSET R :
                     createPlan(e, strategy, pool, shares, met)
            \/ approvePlan(e) \/ executeDistribution(e)
    BY <1>4 DEF TreasuryNext, treasuryVars, PayrollOp, DistributionOp, FundingOp, registerPayee,
         updatePayeeStatus, setSchedule, createRun, approveRun, executeRun,
         submitRequest, approveGate, rejectRequest, executeRequest, SetRequest, takeSnapshot, engines
  <2>2. e = d /\ executeDistribution(d)
    <3>1. \A x \in Plan \ {e} : plans'[x] = plans[x]
      BY <2>0, <2>1, PlanPosts DEF createPlan, approvePlan
    <3>2. e = d
      BY <1>4, <3>1
    <3>3. ASSUME NEW strategy, NEW pool, NEW shares, NEW met, createPlan(e, strategy, pool, shares, met)
          PROVE  FALSE
      BY <1>4, <2>0, <3>2, <3>3 DEF createPlan
    <3>4. ~approvePlan(e)
      BY <1>4, <2>0, <3>2 DEF approvePlan, PlanRecord
    <3> QED BY <2>1, <3>2, <3>3, <3>4
  <2>3. plans'[d].pool = plans[d].pool
    BY <2>0, <2>2, PlanPosts DEF PlanRecord
  <2> QED BY <2>2, <2>3, ExecutionFits
<1> QED BY <1>1, <1>2, <1>3, <1>4

(* A distribution never pays out more than its pool, for any pool, shares, *)
(* strategy and rounding, and pays nothing from a negative one.            *)
THEOREM PoolCorrect == TreasurySpec => []PayoutsWithinPool
<1>1. TreasuryInit => LedgerInv /\ PoolInv
  <2> SUFFICES ASSUME TreasuryInit PROVE LedgerInv /\ PoolInv
    OBVIOUS
  <2>1. EnginesInv /\ LedgerInv
    BY EnginesInit, LedgerInit
  <2>2. ASSUME NEW d \in Plan
        PROVE  CreditsIn(ledger.entries, <<"distribution">> \o d) <= Max({0, plans[d].pool})
    <3>1. plans[d].status # "executed" /\ plans[d].pool \in Int
      BY DEF TreasuryInit, NoPlan
    <3>2. CreditsIn(ledger.entries, <<"distribution">> \o d) = 0
      BY <2>1, <3>1, UnpaidPlan
    <3> QED BY <3>1, <3>2, MaxZero
  <2> QED BY <2>1, <2>2 DEF PoolInv
<1>2. EnginesInv /\ LedgerInv /\ PoolInv /\ [TreasuryNext]_treasuryVars
        => EnginesInv' /\ LedgerInv' /\ PoolInv'
  BY EnginesStep, LedgerKept, PoolStep
<1>3. LedgerInv /\ PoolInv => PayoutsWithinPool
  BY CreditsIs DEF PoolInv, PayoutsWithinPool, LedgerInv, Sound
<1>4. TreasuryInit => EnginesInv
  BY EnginesInit
<1> QED BY <1>1, <1>2, <1>3, <1>4, PTL DEF TreasurySpec

-----------------------------------------------------------------------------
(* The audit log                                                           *)

(* The fold of a story, with its recursion made visible.                   *)
TellsStory(g, type, id, start, log) ==
    g = [s \in SUBSET (DOMAIN log) |->
           IF s = {} THEN start ELSE Told(type, id, g[s \ {Max(s)}], log[Max(s)])]

(* A set of values that no entry of W leads out of.                        *)
Closed(type, id, V, W) == \A v \in V, e \in W : Told(type, id, v, e) \in V

(* A story is the value, at all indices, of the chosen solution.           *)
LEMMA StoryDef ==
    ASSUME NEW type, NEW id, NEW start, NEW log
    PROVE  StoryOf(type, id, start, log) =
             (CHOOSE g : TellsStory(g, type, id, start, log))[DOMAIN log]
BY DEF StoryOf, FoldLeft, MapThenFoldSet, TellsStory

(* Every log has a story.                                                  *)
LEMMA StoryExists ==
    ASSUME NEW type, NEW id, NEW V, NEW W, Closed(type, id, V, W),
           NEW start \in V, NEW log \in Seq(W)
    PROVE  TellsStory(CHOOSE g : TellsStory(g, type, id, start, log), type, id, start, log)
<1> DEFINE n == Len(log)
           F == [x \in V \X W |-> Told(type, id, x[1], x[2])]
<1>1. n \in Nat /\ DOMAIN log = 1..n /\ log \in [1..n -> W]
  OBVIOUS
<1>2. F \in [V \X W -> V]
  BY DEF Closed
<1>3. \A v \in V, e \in W : F[<<v, e>>] = Told(type, id, v, e)
  OBVIOUS
<1> HIDE DEF n, F
<1>4. PICK g \in [SUBSET (1..n) -> V] : Folds(g, SUBSET (1..n), start, log, F)
  BY <1>1, <1>2, FoldExists
<1>5. ASSUME NEW s \in SUBSET (1..n)
      PROVE  g[s] = IF s = {} THEN start ELSE Told(type, id, g[s \ {Max(s)}], log[Max(s)])
  <2>1. CASE s = {}
    BY <2>1, <1>4 DEF Folds
  <2>2. CASE s # {}
    <3>1. Max(s) \in s
      <4>1. s \in SUBSET Nat /\ \A x \in s : x <= n
        BY <1>1
      <4> QED BY <4>1, <2>2, <1>1, MaxIsGreatest
    <3>2. g[s \ {Max(s)}] \in V /\ log[Max(s)] \in W
      BY <3>1, <1>1
    <3>3. g[s] = F[<<g[s \ {Max(s)}], log[Max(s)]>>]
      BY <2>2, <1>4 DEF Folds
    <3> QED BY <2>2, <3>2, <3>3, <1>3
  <2> QED BY <2>1, <2>2
<1>6. TellsStory(g, type, id, start, log)
  BY <1>1, <1>5 DEF TellsStory
<1> QED BY <1>6

(* A solution tells a log's prefixes one entry after the other.            *)
LEMMA StorySteps ==
    ASSUME NEW type, NEW id, NEW W, NEW start, NEW log \in Seq(W),
           NEW g, TellsStory(g, type, id, start, log)
    PROVE  /\ g[1..0] = start
           /\ \A k \in 1..Len(log) : g[1..k] = Told(type, id, g[1..(k - 1)], log[k])
<1>0. Len(log) \in Nat /\ DOMAIN log = 1..Len(log)
  OBVIOUS
<1>1. g[1..0] = start
  <2>1. 1..0 = {} /\ {} \in SUBSET (DOMAIN log)
    BY <1>0
  <2> QED BY <2>1 DEF TellsStory
<1>2. ASSUME NEW k \in 1..Len(log) PROVE g[1..k] = Told(type, id, g[1..(k - 1)], log[k])
  <2> DEFINE s == 1..k
  <2>1. s \in SUBSET (DOMAIN log) /\ s # {}
    <3>1. k \in s /\ \A x \in s : x \in 1..Len(log)
      BY <1>0
    <3> QED BY <1>0, <3>1
  <2>2. Max(s) = k /\ s \ {k} = 1..(k - 1)
    BY MaxOfPrefix
  <2>3. g[s] = Told(type, id, g[s \ {Max(s)}], log[Max(s)])
    <3> HIDE DEF s
    <3> QED BY <2>1 DEF TellsStory
  <2> QED BY <2>2, <2>3
<1> QED BY <1>1, <1>2

(* One more entry continues the story.                                     *)
LEMMA StoryAppend ==
    ASSUME NEW type, NEW id, NEW V, NEW W, Closed(type, id, V, W),
           NEW start \in V, NEW log \in Seq(W), NEW e \in W
    PROVE  StoryOf(type, id, start, Append(log, e)) = Told(type, id, StoryOf(type, id, start, log), e)
<1> DEFINE l == Append(log, e)
           n == Len(log)
           g == CHOOSE f : TellsStory(f, type, id, start, log)
           h == CHOOSE f : TellsStory(f, type, id, start, l)
           T == {k \in Nat : k <= n => h[1..k] = g[1..k]}
<1>1. /\ l \in Seq(W) /\ Len(l) = n + 1 /\ n \in Nat /\ l[n + 1] = e
      /\ DOMAIN l = 1..(n + 1) /\ DOMAIN log = 1..n
      /\ \A k \in 1..n : l[k] = log[k]
  OBVIOUS
<1> HIDE DEF l, n
<1>2. TellsStory(g, type, id, start, log) /\ TellsStory(h, type, id, start, l)
  BY <1>1, StoryExists
<1>3. /\ StoryOf(type, id, start, log) = g[1..n]
      /\ StoryOf(type, id, start, l) = h[1..(n + 1)]
  BY <1>1, StoryDef
<1> HIDE DEF g, h
<1>4. /\ g[1..0] = start
      /\ \A k \in 1..n : g[1..k] = Told(type, id, g[1..(k - 1)], log[k])
  BY <1>2, StorySteps DEF n
<1>5. /\ h[1..0] = start
      /\ \A k \in 1..(n + 1) : h[1..k] = Told(type, id, h[1..(k - 1)], l[k])
  BY <1>1, <1>2, StorySteps
<1>6. ASSUME NEW k \in Nat, \A j \in Nat : j < k => j \in T PROVE k \in T
  <2>1. CASE k = 0
    BY <1>4, <1>5, <2>1
  <2>2. CASE k # 0 /\ k <= n
    <3>1. k - 1 \in Nat /\ k - 1 < k /\ k - 1 <= n /\ k \in 1..n /\ k \in 1..(n + 1)
      BY <1>1, <2>2
    <3>2. k - 1 \in T
      <4> HIDE DEF T
      <4> QED BY <1>6, <3>1
    <3>3. h[1..(k - 1)] = g[1..(k - 1)]
      BY <3>1, <3>2
    <3>4. l[k] = log[k]
      BY <1>1, <3>1
    <3>5. /\ h[1..k] = Told(type, id, h[1..(k - 1)], l[k])
          /\ g[1..k] = Told(type, id, g[1..(k - 1)], log[k])
      BY <1>4, <1>5, <3>1
    <3>6. h[1..k] = g[1..k]
      BY <3>3, <3>4, <3>5
    <3> QED BY <3>6
  <2>3. CASE ~(k <= n)
    BY <2>3
  <2> QED BY <2>1, <2>2, <2>3
<1>7. T = Nat
  <2> HIDE DEF T
  <2>1. T \in SUBSET Nat
    BY DEF T
  <2> QED BY <1>6, <2>1, NoLeastExceptionIsNone
<1>8. h[1..n] = g[1..n]
  BY <1>1, <1>7
<1>9. h[1..(n + 1)] = Told(type, id, h[1..n], e)
  <2>1. n + 1 \in 1..(n + 1) /\ (n + 1) - 1 = n
    BY <1>1
  <2> QED BY <1>1, <1>5, <2>1
<1> QED BY <1>3, <1>8, <1>9 DEF l

(* What the routes note.                                                   *)
Plain == {"intent", "payroll-run", "distribution"}

LogEntry ==
    {e \in [resourceType : Plain \cup {"envelope", "funding-request"},
            resourceId : Intent \cup Envelope \cup Run \cup Plan \cup Request,
            action : DOMAIN StatusAfter \cup {"allocate", "submit"},
            actor : Person \cup {"api"}] :
        /\ e.resourceType \in Plain => e.action \in DOMAIN StatusAfter
        /\ e.resourceType = "funding-request" =>
              e.action \in {"submit", "approve", "reject", "execute"}}

(* What a story can be of: a status, or a request without its amount.      *)
Telling(type) ==
    IF type \in Plain THEN {"absent"} \cup {StatusAfter[a] : a \in DOMAIN StatusAfter}
    ELSE [status : {"absent", "pending", "gate1-approved", "approved", "rejected", "executed"},
          amount : {0}, requestedBy : Person \cup {Nobody, "api"},
          gate1 : Person \cup {Nobody, "api"}, gate2 : Person \cup {Nobody, "api"}]

Start(type) == IF type \in Plain THEN "absent" ELSE NoRequest

(* Stories stay what they can be.                                          *)
LEMMA StoryClosed ==
    ASSUME NEW type \in Plain \cup {"funding-request"}, NEW id
    PROVE  Closed(type, id, Telling(type), LogEntry) /\ Start(type) \in Telling(type)
<1>1. CASE type \in Plain
  <2>1. type # "funding-request"
    BY <1>1 DEF Plain
  <2>2. ASSUME NEW v \in Telling(type), NEW e \in LogEntry
        PROVE  Told(type, id, v, e) \in Telling(type)
    BY <1>1, <2>1 DEF Told, Telling, LogEntry
  <2> QED BY <1>1, <2>2 DEF Closed, Start, Telling
<1>2. CASE type = "funding-request"
  <2>0. type \notin Plain
    BY <1>2 DEF Plain
  <2>1. ASSUME NEW v \in Telling(type), NEW e \in LogEntry
        PROVE  Told(type, id, v, e) \in Telling(type)
    <3> DEFINE V == [status : {"absent", "pending", "gate1-approved", "approved", "rejected", "executed"},
                     amount : {0}, requestedBy : Person \cup {Nobody, "api"},
                     gate1 : Person \cup {Nobody, "api"}, gate2 : Person \cup {Nobody, "api"}]
               a == e.actor
    <3>1. a \in Person \cup {Nobody, "api"} /\ v \in V /\ Telling(type) = V
      BY <2>0 DEF LogEntry, Telling
    <3>2. CASE e.resourceType # type \/ e.resourceId # id
      BY <3>2 DEF Told
    <3>3. CASE e.resourceType = type /\ e.resourceId = id
      <4>1. e.action \in {"submit", "approve", "reject", "execute"}
        BY <1>2, <3>3 DEF LogEntry
      <4>2. /\ [v EXCEPT !.status = "pending", !.requestedBy = a] \in V
            /\ [v EXCEPT !.status = "executed"] \in V
            /\ [v EXCEPT !.status = "gate1-approved", !.gate1 = a] \in V
            /\ [v EXCEPT !.status = "approved", !.gate2 = a] \in V
            /\ [v EXCEPT !.status = "rejected", !.gate1 = a] \in V
            /\ [v EXCEPT !.status = "rejected", !.gate2 = a] \in V
        BY <3>1
      <4>3. \/ Told(type, id, v, e) = [v EXCEPT !.status = "pending", !.requestedBy = a]
            \/ Told(type, id, v, e) = [v EXCEPT !.status = "executed"]
            \/ Told(type, id, v, e) = [v EXCEPT !.status = "gate1-approved", !.gate1 = a]
            \/ Told(type, id, v, e) = [v EXCEPT !.status = "approved", !.gate2 = a]
            \/ Told(type, id, v, e) = [v EXCEPT !.status = "rejected", !.gate1 = a]
            \/ Told(type, id, v, e) = [v EXCEPT !.status = "rejected", !.gate2 = a]
        <5>1. CASE e.action = "submit"
          BY <1>2, <3>3, <5>1 DEF Told
        <5>2. CASE e.action = "approve"
          BY <1>2, <3>3, <5>2 DEF Told
        <5>3. CASE e.action = "reject"
          BY <1>2, <3>3, <5>3 DEF Told
        <5>4. CASE e.action = "execute"
          BY <1>2, <3>3, <5>4 DEF Told
        <5> QED BY <4>1, <5>1, <5>2, <5>3, <5>4
      <4> HIDE DEF V, a
      <4> QED BY <3>1, <4>2, <4>3
    <3> QED BY <3>2, <3>3
  <2>2. Start(type) \in Telling(type)
    BY <2>0 DEF Start, Telling, NoRequest
  <2> QED BY <2>1, <2>2 DEF Closed
<1> QED BY <1>1, <1>2

LogOK == auditLog \in Seq(LogEntry)

(* What an entry of the log, or a change without one, does to the stories. *)
LEMMA Notes ==
    ASSUME LogOK, NEW type, NEW id, NEW action, NEW actor, Mutated(type, id, action, actor),
           AuditEntry(type, id, action, actor) \in LogEntry
    PROVE  /\ LogOK' /\ unanswered \subseteq unanswered'
           /\ \A t \in Plain \cup {"funding-request"} : \A x : <<t, x>> \notin unanswered' =>
                 Story(t, x, Start(t))' =
                    Told(t, x, Story(t, x, Start(t)), AuditEntry(type, id, action, actor))
<1> DEFINE e == AuditEntry(type, id, action, actor)
<1>0. ASSUME NEW t, NEW x, NEW s
      PROVE  /\ Story(t, x, s) = StoryOf(t, x, s, auditLog)
             /\ Story(t, x, s)' = StoryOf(t, x, s, auditLog')
  BY DEF Story
<1>1. CASE Noted(type, id, action, actor)
  <2>1. auditLog' = Append(auditLog, e) /\ unanswered' = unanswered
    BY <1>1 DEF Noted
  <2> HIDE DEF e
  <2>2. LogOK'
    BY <2>1 DEF LogOK, e
  <2>3. ASSUME NEW t \in Plain \cup {"funding-request"}, NEW x
        PROVE  Story(t, x, Start(t))' = Told(t, x, Story(t, x, Start(t)), e)
    <3>1. Closed(t, x, Telling(t), LogEntry) /\ Start(t) \in Telling(t)
      BY StoryClosed
    <3>2. auditLog \in Seq(LogEntry) /\ e \in LogEntry
      BY DEF LogOK, e
    <3>3. StoryOf(t, x, Start(t), Append(auditLog, e)) = Told(t, x, StoryOf(t, x, Start(t), auditLog), e)
      BY <3>1, <3>2, StoryAppend
    <3> QED BY <1>0, <2>1, <3>3
  <2> QED BY <2>1, <2>2, <2>3 DEF e
<1>2. CASE unanswered' = unanswered \cup {<<type, id>>} /\ UNCHANGED auditLog
  <2>1. LogOK'
    BY <1>2 DEF LogOK
  <2>2. ASSUME NEW t \in Plain \cup {"funding-request"}, NEW x, <<t, x>> \notin unanswered'
        PROVE  Story(t, x, Start(t))' = Told(t, x, Story(t, x, Start(t)), e)
    <3>1. <<t, x>> # <<type, id>>
      BY <1>2, <2>2
    <3>2. e.resourceType # t \/ e.resourceId # x
      BY <3>1 DEF AuditEntry
    <3>3. Told(t, x, Story(t, x, Start(t)), e) = Story(t, x, Start(t))
      BY <3>2 DEF Told
    <3>4. Story(t, x, Start(t))' = Story(t, x, Start(t))
      BY <1>0, <1>2
    <3> QED BY <3>3, <3>4
  <2> QED BY <1>2, <2>1, <2>2
<1> QED BY <1>1, <1>2 DEF Mutated

(* A step that does not touch the log leaves the stories as they are.      *)
LEMMA StoryKept ==
    ASSUME UNCHANGED auditLog, NEW t, NEW x, NEW s
    PROVE  Story(t, x, s)' = Story(t, x, s)
BY DEF Story

IntentTold(i) ==
    <<"intent", i>> \notin unanswered =>
        \/ Story("intent", i, "absent") = status[i]
        \/ Story("intent", i, "absent") = "approved" /\ status[i] = "executing"
RunTold(r) ==
    <<"payroll-run", r>> \notin unanswered => Story("payroll-run", r, "absent") = runs[r].status
PlanTold(d) ==
    <<"distribution", d>> \notin unanswered => Story("distribution", d, "absent") = plans[d].status
RequestTold(q) ==
    <<"funding-request", q>> \notin unanswered =>
        Story("funding-request", q, NoRequest) = [requests[q] EXCEPT !.amount = 0]

AllTold == /\ \A i \in Intent : IntentTold(i)
           /\ \A r \in Run : RunTold(r)
           /\ \A d \in Plan : PlanTold(d)
           /\ \A q \in Request : RequestTold(q)

(* The gates of a request that nobody has looked at are empty.             *)
GatesEmpty ==
    \A q \in Request : requests[q].status \in {"absent", "pending"} =>
        requests[q].gate1 = Nobody /\ requests[q].gate2 = Nobody

AuditInv == LogOK /\ AllTold /\ GatesEmpty /\ DOMAIN status = Intent

(* The three plain kinds of resource: an entry is the new status.          *)
LEMMA PlainNotes ==
    ASSUME LogOK, NEW type, NEW id, NEW action, NEW actor, Mutated(type, id, action, actor),
           AuditEntry(type, id, action, actor) \in LogEntry,
           NEW t \in Plain, NEW x, <<t, x>> \notin unanswered'
    PROVE  /\ <<t, x>> \notin unanswered
           /\ Story(t, x, "absent")' = IF t = type /\ x = id THEN StatusAfter[action]
                                       ELSE Story(t, x, "absent")
<1>1. /\ unanswered \subseteq unanswered'
      /\ Story(t, x, Start(t))' =
            Told(t, x, Story(t, x, Start(t)), AuditEntry(type, id, action, actor))
  BY Notes
<1>2. Start(t) = "absent" /\ t # "funding-request"
  BY DEF Start, Plain
<1>3. Told(t, x, Story(t, x, "absent"), AuditEntry(type, id, action, actor)) =
        IF t = type /\ x = id THEN StatusAfter[action] ELSE Story(t, x, "absent")
  BY <1>2 DEF Told, AuditEntry
<1> QED BY <1>1, <1>2, <1>3

(* Requests are told entry by entry.                                       *)
LEMMA RequestNotes ==
    ASSUME LogOK, NEW type, NEW id, NEW action, NEW actor, Mutated(type, id, action, actor),
           AuditEntry(type, id, action, actor) \in LogEntry,
           NEW x, <<"funding-request", x>> \notin unanswered'
    PROVE  /\ <<"funding-request", x>> \notin unanswered
           /\ Story("funding-request", x, NoRequest)' =
                IF type = "funding-request" /\ x = id
                THEN Told("funding-request", x, Story("funding-request", x, NoRequest),
                          AuditEntry(type, id, action, actor))
                ELSE Story("funding-request", x, NoRequest)
<1>0. "funding-request" \in Plain \cup {"funding-request"} /\ "funding-request" \notin Plain
  BY DEF Plain
<1>1. /\ unanswered \subseteq unanswered'
      /\ Story("funding-request", x, Start("funding-request"))' =
            Told("funding-request", x, Story("funding-request", x, Start("funding-request")),
                 AuditEntry(type, id, action, actor))
  BY <1>0, Notes
<1>2. Start("funding-request") = NoRequest
  BY <1>0 DEF Start
<1>3. ~(type = "funding-request" /\ x = id) =>
         Told("funding-request", x, Story("funding-request", x, NoRequest),
              AuditEntry(type, id, action, actor)) = Story("funding-request", x, NoRequest)
  BY DEF Told, AuditEntry
<1> QED BY <1>1, <1>2, <1>3

(* A step of a plain resource leaves the others alone.                     *)
LEMMA OthersTold ==
    ASSUME AuditInv, NEW type, NEW id, NEW action, NEW actor, Mutated(type, id, action, actor),
           AuditEntry(type, id, action, actor) \in LogEntry
    PROVE  /\ LogOK'
           /\ \A i \in Intent : <<"intent", i>> # <<type, id>> /\ status'[i] = status[i] => IntentTold(i)'
           /\ \A r \in Run : <<"payroll-run", r>> # <<type, id>> /\ runs'[r].status = runs[r].status
                 => RunTold(r)'
           /\ \A d \in Plan : <<"distribution", d>> # <<type, id>> /\ plans'[d].status = plans[d].status
                 => PlanTold(d)'
           /\ \A q \in Request : <<"funding-request", q>> # <<type, id>> /\ requests'[q] = requests[q]
                 => RequestTold(q)'
<1>0. LogOK /\ AllTold
  BY DEF AuditInv
<1>1. LogOK'
  BY <1>0, Notes
<1>2. ASSUME NEW i \in Intent, <<"intent", i>> # <<type, id>>, status'[i] = status[i]
      PROVE  IntentTold(i)'
  <2> SUFFICES ASSUME <<"intent", i>> \notin unanswered'
               PROVE  \/ Story("intent", i, "absent")' = status'[i]
                      \/ Story("intent", i, "absent")' = "approved" /\ status'[i] = "executing"
    BY DEF IntentTold
  <2>1. "intent" \in Plain
    BY DEF Plain
  <2>2. <<"intent", i>> \notin unanswered /\ Story("intent", i, "absent")' = Story("intent", i, "absent")
    BY <1>0, <1>2, <2>1, PlainNotes
  <2> QED BY <1>0, <1>2, <2>2 DEF AllTold, IntentTold
<1>3. ASSUME NEW r \in Run, <<"payroll-run", r>> # <<type, id>>, runs'[r].status = runs[r].status
      PROVE  RunTold(r)'
  <2> SUFFICES ASSUME <<"payroll-run", r>> \notin unanswered'
               PROVE  Story("payroll-run", r, "absent")' = runs'[r].status
    BY DEF RunTold
  <2>1. "payroll-run" \in Plain
    BY DEF Plain
  <2>2. /\ <<"payroll-run", r>> \notin unanswered
        /\ Story("payroll-run", r, "absent")' = Story("payroll-run", r, "absent")
    BY <1>0, <1>3, <2>1, PlainNotes
  <2> QED BY <1>0, <1>3, <2>2 DEF AllTold, RunTold
<1>4. ASSUME NEW d \in Plan, <<"distribution", d>> # <<type, id>>, plans'[d].status = plans[d].status
      PROVE  PlanTold(d)'
  <2> SUFFICES ASSUME <<"distribution", d>> \notin unanswered'
               PROVE  Story("distribution", d, "absent")' = plans'[d].status
    BY DEF PlanTold
  <2>1. "distribution" \in Plain
    BY DEF Plain
  <2>2. /\ <<"distribution", d>> \notin unanswered
        /\ Story("distribution", d, "absent")' = Story("distribution", d, "absent")
    BY <1>0, <1>4, <2>1, PlainNotes
  <2> QED BY <1>0, <1>4, <2>2 DEF AllTold, PlanTold
<1>5. ASSUME NEW q \in Request, <<"funding-request", q>> # <<type, id>>, requests'[q] = requests[q]
      PROVE  RequestTold(q)'
  <2> SUFFICES ASSUME <<"funding-request", q>> \notin unanswered'
               PROVE  Story("funding-request", q, NoRequest)' = [requests'[q] EXCEPT !.amount = 0]
    BY DEF RequestTold
  <2>2. /\ <<"funding-request", q>> \notin unanswered
        /\ Story("funding-request", q, NoRequest)' = Story("funding-request", q, NoRequest)
    BY <1>0, <1>5, RequestNotes
  <2> QED BY <1>0, <1>5, <2>2 DEF AllTold, RequestTold
<1> QED BY <1>1, <1>2, <1>3, <1>4, <1>5

(* The routes of the treasury are operations of the treasury.              *)
LEMMA RoutesAreOperations ==
    ASSUME MCNext PROVE [TreasuryNext]_treasuryVars
<1>1. CASE VaultStep \/ LedgerStep
  BY <1>1 DEF VaultStep, LedgerStep
<1>2. CASE TreasuryStep
  BY <1>2 DEF TreasuryStep, TreasuryNext
<1>3. CASE RouteStep
  <2>1. CASE IntentRoutes \/ EnvelopeRoutes
    BY <2>1 DEF IntentRoutes, EnvelopeRoutes
  <2>2. CASE PayrollRoutes
    BY <2>2 DEF PayrollRoutes, TreasuryNext, PayrollOp
  <2>3. CASE DistributionRoutes
    <3>1. PICK d \in Plan :
             \/ \E o \in PlanOffers : createPlan(d, o.strategy, o.pool, o.shares, o.met)
             \/ approvePlan(d) \/ executeDistribution(d)
      BY <2>3 DEF DistributionRoutes
    <3>2. ASSUME NEW o \in PlanOffers, createPlan(d, o.strategy, o.pool, o.shares, o.met)
          PROVE  DistributionOp
      <4>1. PICK R \in SUBSET Payee : o.shares \in [R -> Shares] /\ o.met \in SUBSET R
        BY OffersAssumption
      <4>2. o.strategy \in {"fixed", "proportional", "milestone"} /\ o.pool \in Pools
        BY OffersAssumption
      <4> QED BY <3>2, <4>1, <4>2 DEF DistributionOp
    <3>3. DistributionOp
      BY <3>1, <3>2 DEF DistributionOp
    <3> QED BY <3>3 DEF TreasuryNext
  <2>4. CASE FundingRoutes
    <3>1. PICK q \in Request :
             \/ \E m \in FundingAmounts, by \in Person : submitRequest(q, m, by)
             \/ \E by \in Person : approveGate(q, by) \/ rejectRequest(q, by)
             \/ executeRequest(q)
      BY <2>4 DEF FundingRoutes, submitFundingRoute, approveFundingRoute, rejectFundingRoute,
                  executeFundingRoute
    <3>2. FundingOp
      BY <3>1 DEF FundingOp
    <3> QED BY <3>2 DEF TreasuryNext
  <2> QED BY <1>3, <2>1, <2>2, <2>3, <2>4 DEF RouteStep
<1> QED BY <1>1, <1>2, <1>3 DEF MCNext

(* An entry of one of the routes.                                          *)
LEMMA EntryNoted ==
    /\ \A i \in Intent : \A a \in {"declare", "approve", "reject", "execute", "verify"} :
          AuditEntry("intent", i, a, "api") \in LogEntry
    /\ \A e \in Envelope : \A a \in {"create", "allocate"} :
          AuditEntry("envelope", e, a, "api") \in LogEntry
    /\ \A r \in Run : \A a \in {"create", "approve", "execute"} :
          AuditEntry("payroll-run", r, a, "api") \in LogEntry
    /\ \A d \in Plan : \A a \in {"create", "approve", "execute"} :
          AuditEntry("distribution", d, a, "api") \in LogEntry
    /\ \A q \in Request : \A a \in {"submit", "approve", "reject", "execute"} :
          \A p \in Person \cup {"api"} : AuditEntry("funding-request", q, a, p) \in LogEntry
<1>1. DOMAIN StatusAfter = {"declare", "approve", "reject", "execute", "verify", "create"}
  BY DEF StatusAfter
<1> QED BY <1>1 DEF LogEntry, AuditEntry, Plain

(* A handler that does not throw between the change and the log.           *)
LEMMA NotedMutates ==
    ASSUME NEW type, NEW id, NEW action, NEW actor, Noted(type, id, action, actor)
    PROVE  Mutated(type, id, action, actor)
BY DEF Mutated

(* The status an entry stands for.                                         *)
LEMMA StatusNames ==
    /\ StatusAfter["declare"] = "declared" /\ StatusAfter["approve"] = "approved"
    /\ StatusAfter["reject"] = "rejected" /\ StatusAfter["execute"] = "executed"
    /\ StatusAfter["verify"] = "verified" /\ StatusAfter["create"] = "draft"
BY DEF StatusAfter

(* A noted change of an intent's status.                                   *)
LEMMA IntentNoted ==
    ASSUME AuditInv, NEW i \in Intent,
           NEW a \in {"declare", "approve", "reject", "execute", "verify"},
           SetStatus(i, StatusAfter[a]), Mutated("intent", i, a, "api"), UNCHANGED treasuryVars
    PROVE  AuditInv'
<1>0. /\ LogOK /\ AllTold /\ GatesEmpty /\ DOMAIN status = Intent
      /\ AuditEntry("intent", i, a, "api") \in LogEntry
  BY EntryNoted DEF AuditInv
<1>1. status' = [status EXCEPT ![i] = StatusAfter[a]] /\ UNCHANGED <<runs, plans, requests>>
  BY DEF SetStatus, treasuryVars
<1>2. IntentTold(i)'
  <2> SUFFICES ASSUME <<"intent", i>> \notin unanswered'
               PROVE  Story("intent", i, "absent")' = status'[i]
    BY DEF IntentTold
  <2>1. "intent" \in Plain
    BY DEF Plain
  <2>2. Story("intent", i, "absent")' = StatusAfter[a]
    BY <1>0, <2>1, PlainNotes
  <2> QED BY <1>0, <1>1, <2>2
<1>3. \A j \in Intent : j # i => status'[j] = status[j]
  BY <1>0, <1>1
<1>4. /\ LogOK' /\ \A j \in Intent : j # i => IntentTold(j)'
      /\ \A r \in Run : RunTold(r)'
      /\ \A d \in Plan : PlanTold(d)'
      /\ \A q \in Request : RequestTold(q)'
  <2>1. /\ LogOK'
        /\ \A j \in Intent : <<"intent", j>> # <<"intent", i>> /\ status'[j] = status[j] => IntentTold(j)'
        /\ \A r \in Run : <<"payroll-run", r>> # <<"intent", i>> /\ runs'[r].status = runs[r].status
              => RunTold(r)'
        /\ \A d \in Plan : <<"distribution", d>> # <<"intent", i>> /\ plans'[d].status = plans[d].status
              => PlanTold(d)'
        /\ \A q \in Request : <<"funding-request", q>> # <<"intent", i>> /\ requests'[q] = requests[q]
              => RequestTold(q)'
    BY <1>0, OthersTold
  <2>2. \A x : /\ <<"payroll-run", x>> # <<"intent", i>> /\ <<"distribution", x>> # <<"intent", i>>
               /\ <<"funding-request", x>> # <<"intent", i>> /\ (x # i => <<"intent", x>> # <<"intent", i>>)
    OBVIOUS
  <2> QED BY <1>1, <1>3, <2>1, <2>2
<1>5. AllTold'
  BY <1>2, <1>4 DEF AllTold
<1>6. GatesEmpty' /\ DOMAIN status' = Intent
  BY <1>0, <1>1 DEF GatesEmpty
<1> QED BY <1>4, <1>5, <1>6 DEF AuditInv

(* A step that changes no resource's status.                               *)
LEMMA NothingNoted ==
    ASSUME AuditInv, NEW i \in Intent, status[i] = "approved", SetStatus(i, "executing"),
           UNCHANGED routeVars, UNCHANGED treasuryVars
    PROVE  AuditInv'
<1>0. LogOK /\ AllTold /\ GatesEmpty /\ DOMAIN status = Intent
  BY DEF AuditInv
<1>1. /\ status' = [status EXCEPT ![i] = "executing"]
      /\ UNCHANGED <<runs, plans, requests, auditLog, unanswered>>
  BY DEF SetStatus, treasuryVars, routeVars
<1>2. \A t, x, s : Story(t, x, s)' = Story(t, x, s)
  BY <1>1, StoryKept
<1>3. ASSUME NEW j \in Intent PROVE IntentTold(j)'
  <2>1. CASE j = i
    BY <1>0, <1>1, <1>2, <2>1 DEF AllTold, IntentTold
  <2>2. CASE j # i
    BY <1>0, <1>1, <1>2, <2>2 DEF AllTold, IntentTold
  <2> QED BY <2>1, <2>2
<1>4. /\ \A r \in Run : RunTold(r)'
      /\ \A d \in Plan : PlanTold(d)'
      /\ \A q \in Request : RequestTold(q)'
  BY <1>0, <1>1, <1>2 DEF AllTold, RunTold, PlanTold, RequestTold
<1> QED BY <1>0, <1>1, <1>3, <1>4 DEF AuditInv, AllTold, LogOK, GatesEmpty

(* The routes of the vault.                                                *)
LEMMA VaultRoutesTold ==
    ASSUME AuditInv, IntentRoutes \/ EnvelopeRoutes PROVE AuditInv'
<1>1. CASE IntentRoutes
  <2>1. UNCHANGED treasuryVars
    BY <1>1 DEF IntentRoutes
  <2>2. PICK i \in Intent :
           \/ \E a \in Amounts \cup {NoAmount}, e \in Envelope \cup {NoEnvelope} : declareRoute(i, a, e)
           \/ approve(i) /\ Mutated("intent", i, "approve", "api")
           \/ reject(i) /\ Mutated("intent", i, "reject", "api")
           \/ executeIntent(i)
           \/ verify(i) /\ Mutated("intent", i, "verify", "api")
    BY <1>1 DEF IntentRoutes
  <2>3. ASSUME NEW a, NEW e, declareRoute(i, a, e) PROVE AuditInv'
    <3>1. SetStatus(i, StatusAfter["declare"]) /\ Mutated("intent", i, "declare", "api")
      BY <2>3, StatusNames DEF declareRoute, declare
    <3> QED BY <2>1, <3>1, IntentNoted
  <2>4. CASE approve(i) /\ Mutated("intent", i, "approve", "api")
    <3>1. SetStatus(i, StatusAfter["approve"])
      BY <2>4, StatusNames DEF approve
    <3> QED BY <2>1, <2>4, <3>1, IntentNoted
  <2>5. CASE reject(i) /\ Mutated("intent", i, "reject", "api")
    <3>1. SetStatus(i, StatusAfter["reject"])
      BY <2>5, StatusNames DEF reject
    <3> QED BY <2>1, <2>5, <3>1, IntentNoted
  <2>6. CASE verify(i) /\ Mutated("intent", i, "verify", "api")
    <3>1. SetStatus(i, StatusAfter["verify"])
      BY <2>6, StatusNames DEF verify
    <3> QED BY <2>1, <2>6, <3>1, IntentNoted
  <2>7. CASE executeIntent(i)
    <3>1. \/ SetStatus(i, "executed") /\ Mutated("intent", i, "execute", "api")
          \/ SetStatus(i, "executing") /\ UNCHANGED routeVars
      BY <2>7 DEF executeIntent
    <3>2. status[i] = "approved"
      BY <2>7 DEF executeIntent, assertTransition, VALID_TRANSITIONS
    <3>3. CASE SetStatus(i, "executed") /\ Mutated("intent", i, "execute", "api")
      <4>1. SetStatus(i, StatusAfter["execute"])
        BY <3>3, StatusNames
      <4> QED BY <2>1, <3>3, <4>1, IntentNoted
    <3>4. CASE SetStatus(i, "executing") /\ UNCHANGED routeVars
      BY <2>1, <3>2, <3>4, NothingNoted
    <3> QED BY <3>1, <3>3, <3>4
  <2> QED BY <2>2, <2>3, <2>4, <2>5, <2>6, <2>7
<1>2. CASE EnvelopeRoutes
  <2>1. UNCHANGED <<runs, plans, requests>>
    BY <1>2 DEF EnvelopeRoutes, treasuryVars
  <2>2. PICK e \in Envelope, a \in {"create", "allocate"} :
           Mutated("envelope", e, a, "api") /\ UNCHANGED status
    <3>1. PICK e \in Envelope :
             \/ createEnvelope(e) /\ Noted("envelope", e, "create", "api")
             \/ \E a \in Amounts : allocate(e, a) /\ Mutated("envelope", e, "allocate", "api")
      BY <1>2 DEF EnvelopeRoutes
    <3>2. CASE createEnvelope(e) /\ Noted("envelope", e, "create", "api")
      <4>1. Mutated("envelope", e, "create", "api") /\ UNCHANGED status
        BY <3>2, NotedMutates DEF createEnvelope, intentVars
      <4> QED BY <4>1
    <3>3. ASSUME NEW a \in Amounts, allocate(e, a), Mutated("envelope", e, "allocate", "api")
          PROVE  Mutated("envelope", e, "allocate", "api") /\ UNCHANGED status
      BY <3>3 DEF allocate, intentVars
    <3> QED BY <3>1, <3>2, <3>3
  <2>3. AuditEntry("envelope", e, a, "api") \in LogEntry
    BY EntryNoted
  <2>4. /\ LogOK'
        /\ \A j \in Intent : <<"intent", j>> # <<"envelope", e>> /\ status'[j] = status[j] => IntentTold(j)'
        /\ \A r \in Run : <<"payroll-run", r>> # <<"envelope", e>> /\ runs'[r].status = runs[r].status
              => RunTold(r)'
        /\ \A d \in Plan : <<"distribution", d>> # <<"envelope", e>> /\ plans'[d].status = plans[d].status
              => PlanTold(d)'
        /\ \A q \in Request : <<"funding-request", q>> # <<"envelope", e>> /\ requests'[q] = requests[q]
              => RequestTold(q)'
    BY <2>2, <2>3, OthersTold
  <2>5. \A x : /\ <<"payroll-run", x>> # <<"envelope", e>> /\ <<"distribution", x>> # <<"envelope", e>>
               /\ <<"funding-request", x>> # <<"envelope", e>> /\ <<"intent", x>> # <<"envelope", e>>
    OBVIOUS
  <2>6. AllTold'
    BY <2>1, <2>2, <2>4, <2>5 DEF AllTold
  <2>7. GatesEmpty' /\ DOMAIN status' = Intent
    BY <2>1, <2>2 DEF AuditInv, GatesEmpty
  <2> QED BY <2>4, <2>6, <2>7 DEF AuditInv
<1> QED BY <1>1, <1>2

(* A step that touches no status and not the log.                          *)
LEMMA AuditFrame ==
    ASSUME AuditInv, UNCHANGED <<status, runs, plans, requests, auditLog, unanswered>>
    PROVE  AuditInv'
<1>0. LogOK /\ AllTold /\ GatesEmpty /\ DOMAIN status = Intent
  BY DEF AuditInv
<1>1. \A t, x, s : Story(t, x, s)' = Story(t, x, s)
  BY StoryKept
<1>2. AllTold'
  BY <1>0, <1>1 DEF AllTold, IntentTold, RunTold, PlanTold, RequestTold
<1> QED BY <1>0, <1>2 DEF AuditInv, LogOK, GatesEmpty

(* A noted change of a run's status.                                       *)
LEMMA RunNoted ==
    ASSUME AuditInv, DOMAIN runs = Run, NEW r \in Run, NEW x,
           NEW a \in {"create", "approve", "execute"},
           runs' = [runs EXCEPT ![r] = x], x.status = StatusAfter[a],
           Mutated("payroll-run", r, a, "api"), UNCHANGED <<status, plans, requests>>
    PROVE  AuditInv'
<1>0. /\ LogOK /\ AllTold /\ GatesEmpty /\ DOMAIN status = Intent
      /\ AuditEntry("payroll-run", r, a, "api") \in LogEntry
  BY EntryNoted DEF AuditInv
<1>1. runs'[r] = x /\ \A j \in Run : j # r => runs'[j] = runs[j]
  OBVIOUS
<1>2. RunTold(r)'
  <2> SUFFICES ASSUME <<"payroll-run", r>> \notin unanswered'
               PROVE  Story("payroll-run", r, "absent")' = runs'[r].status
    BY DEF RunTold
  <2>1. "payroll-run" \in Plain
    BY DEF Plain
  <2>2. Story("payroll-run", r, "absent")' = StatusAfter[a]
    BY <1>0, <2>1, PlainNotes
  <2> QED BY <1>1, <2>2
<1>3. /\ LogOK'
      /\ \A j \in Intent : <<"intent", j>> # <<"payroll-run", r>> /\ status'[j] = status[j] => IntentTold(j)'
      /\ \A j \in Run : <<"payroll-run", j>> # <<"payroll-run", r>> /\ runs'[j].status = runs[j].status
            => RunTold(j)'
      /\ \A d \in Plan : <<"distribution", d>> # <<"payroll-run", r>> /\ plans'[d].status = plans[d].status
            => PlanTold(d)'
      /\ \A q \in Request : <<"funding-request", q>> # <<"payroll-run", r>> /\ requests'[q] = requests[q]
            => RequestTold(q)'
  BY <1>0, OthersTold
<1>4. \A y : /\ <<"intent", y>> # <<"payroll-run", r>> /\ <<"distribution", y>> # <<"payroll-run", r>>
             /\ <<"funding-request", y>> # <<"payroll-run", r>>
             /\ y # r => <<"payroll-run", y>> # <<"payroll-run", r>>
  OBVIOUS
<1>5. AllTold'
  BY <1>1, <1>2, <1>3, <1>4 DEF AllTold
<1> QED BY <1>0, <1>3, <1>5 DEF AuditInv, GatesEmpty

(* A noted change of a plan's status.                                      *)
LEMMA PlanNoted ==
    ASSUME AuditInv, DOMAIN plans = Plan, NEW d \in Plan, NEW x,
           NEW a \in {"create", "approve", "execute"},
           plans' = [plans EXCEPT ![d] = x], x.status = StatusAfter[a],
           Mutated("distribution", d, a, "api"), UNCHANGED <<status, runs, requests>>
    PROVE  AuditInv'
<1>0. /\ LogOK /\ AllTold /\ GatesEmpty /\ DOMAIN status = Intent
      /\ AuditEntry("distribution", d, a, "api") \in LogEntry
  BY EntryNoted DEF AuditInv
<1>1. plans'[d] = x /\ \A j \in Plan : j # d => plans'[j] = plans[j]
  OBVIOUS
<1>2. PlanTold(d)'
  <2> SUFFICES ASSUME <<"distribution", d>> \notin unanswered'
               PROVE  Story("distribution", d, "absent")' = plans'[d].status
    BY DEF PlanTold
  <2>1. "distribution" \in Plain
    BY DEF Plain
  <2>2. Story("distribution", d, "absent")' = StatusAfter[a]
    BY <1>0, <2>1, PlainNotes
  <2> QED BY <1>1, <2>2
<1>3. /\ LogOK'
      /\ \A j \in Intent : <<"intent", j>> # <<"distribution", d>> /\ status'[j] = status[j] => IntentTold(j)'
      /\ \A r \in Run : <<"payroll-run", r>> # <<"distribution", d>> /\ runs'[r].status = runs[r].status
            => RunTold(r)'
      /\ \A j \in Plan : <<"distribution", j>> # <<"distribution", d>> /\ plans'[j].status = plans[j].status
            => PlanTold(j)'
      /\ \A q \in Request : <<"funding-request", q>> # <<"distribution", d>> /\ requests'[q] = requests[q]
            => RequestTold(q)'
  BY <1>0, OthersTold
<1>4. \A y : /\ <<"intent", y>> # <<"distribution", d>> /\ <<"payroll-run", y>> # <<"distribution", d>>
             /\ <<"funding-request", y>> # <<"distribution", d>>
             /\ y # d => <<"distribution", y>> # <<"distribution", d>>
  OBVIOUS
<1>5. AllTold'
  BY <1>1, <1>2, <1>3, <1>4 DEF AllTold
<1> QED BY <1>0, <1>3, <1>5 DEF AuditInv, GatesEmpty

(* A noted change of a request that its entry tells.                       *)
LEMMA RequestNoted ==
    ASSUME AuditInv, DOMAIN requests = Request, NEW q \in Request, NEW x,
           NEW a \in {"submit", "approve", "reject", "execute"}, NEW p \in Person \cup {"api"},
           requests' = [requests EXCEPT ![q] = x],
           Told("funding-request", q, [requests[q] EXCEPT !.amount = 0],
                AuditEntry("funding-request", q, a, p)) = [x EXCEPT !.amount = 0],
           x.status \in {"absent", "pending"} => x.gate1 = Nobody /\ x.gate2 = Nobody,
           Mutated("funding-request", q, a, p), UNCHANGED <<status, runs, plans>>
    PROVE  AuditInv'
<1>0. /\ LogOK /\ AllTold /\ GatesEmpty /\ DOMAIN status = Intent
      /\ AuditEntry("funding-request", q, a, p) \in LogEntry
  BY EntryNoted DEF AuditInv
<1>1. requests'[q] = x /\ \A j \in Request : j # q => requests'[j] = requests[j]
  OBVIOUS
<1>2. RequestTold(q)'
  <2> SUFFICES ASSUME <<"funding-request", q>> \notin unanswered'
               PROVE  Story("funding-request", q, NoRequest)' = [requests'[q] EXCEPT !.amount = 0]
    BY DEF RequestTold
  <2>1. /\ <<"funding-request", q>> \notin unanswered
        /\ Story("funding-request", q, NoRequest)' =
             Told("funding-request", q, Story("funding-request", q, NoRequest),
                  AuditEntry("funding-request", q, a, p))
    BY <1>0, RequestNotes
  <2>2. Story("funding-request", q, NoRequest) = [requests[q] EXCEPT !.amount = 0]
    BY <1>0, <2>1 DEF AllTold, RequestTold
  <2> QED BY <1>1, <2>1, <2>2
<1>3. /\ LogOK'
      /\ \A j \in Intent : <<"intent", j>> # <<"funding-request", q>> /\ status'[j] = status[j]
            => IntentTold(j)'
      /\ \A r \in Run : <<"payroll-run", r>> # <<"funding-request", q>> /\ runs'[r].status = runs[r].status
            => RunTold(r)'
      /\ \A d \in Plan : <<"distribution", d>> # <<"funding-request", q>> /\ plans'[d].status = plans[d].status
            => PlanTold(d)'
      /\ \A j \in Request : <<"funding-request", j>> # <<"funding-request", q>> /\ requests'[j] = requests[j]
            => RequestTold(j)'
  BY <1>0, OthersTold
<1>4. \A y : /\ <<"intent", y>> # <<"funding-request", q>> /\ <<"payroll-run", y>> # <<"funding-request", q>>
             /\ <<"distribution", y>> # <<"funding-request", q>>
             /\ y # q => <<"funding-request", y>> # <<"funding-request", q>>
  OBVIOUS
<1>5. AllTold'
  BY <1>1, <1>2, <1>3, <1>4 DEF AllTold
<1>6. GatesEmpty'
  BY <1>0, <1>1 DEF GatesEmpty
<1> QED BY <1>0, <1>3, <1>5, <1>6 DEF AuditInv

(* The routes of payroll and distribution.                                 *)
LEMMA PayRoutesTold ==
    ASSUME AuditInv, EnginesInv, PayrollRoutes \/ DistributionRoutes PROVE AuditInv'
<1>0. /\ runs \in [Run -> RunRecord] /\ plans \in [Plan -> PlanRecord]
      /\ DOMAIN runs = Run /\ DOMAIN plans = Plan
  BY DEF EnginesInv, TreasuryType
<1>1. CASE PayrollRoutes
  <2>0. UNCHANGED status
    BY <1>1 DEF PayrollRoutes, vars
  <2>1. PICK r \in Run :
           \/ createRun(r) /\ Noted("payroll-run", r, "create", "api")
           \/ approveRun(r) /\ Noted("payroll-run", r, "approve", "api")
           \/ executeRun(r) /\ Executed("payroll-run", r, runs'[r].status = "executed")
    BY <1>1 DEF PayrollRoutes
  <2>2. CASE createRun(r) /\ Noted("payroll-run", r, "create", "api")
    <3> DEFINE new == [status |-> "draft",
                       net |-> [p \in {p \in Payee : schedules[p] # NoSchedule /\ payees[p] = "active"} |->
                                  computeEntry(schedules[p])]]
    <3>1. runs' = [runs EXCEPT ![r] = new] /\ UNCHANGED <<plans, requests>>
      BY <2>2 DEF createRun
    <3>2. new.status = StatusAfter["create"]
      BY StatusNames
    <3> HIDE DEF new
    <3> QED BY <1>0, <2>0, <2>2, <3>1, <3>2, NotedMutates, RunNoted
  <2>3. CASE approveRun(r) /\ Noted("payroll-run", r, "approve", "api")
    <3> DEFINE new == [runs[r] EXCEPT !.status = "approved"]
    <3>1. runs' = [runs EXCEPT ![r] = new] /\ UNCHANGED <<plans, requests>>
      BY <1>0, <2>3 DEF approveRun
    <3>2. new.status = StatusAfter["approve"]
      BY <1>0, StatusNames DEF RunRecord
    <3> HIDE DEF new
    <3> QED BY <1>0, <2>0, <2>3, <3>1, <3>2, NotedMutates, RunNoted
  <2>4. CASE executeRun(r) /\ Executed("payroll-run", r, runs'[r].status = "executed")
    <3> DEFINE new == [runs[r] EXCEPT !.status = "executed"]
    <3>1. /\ runs' = runs \/ runs' = [runs EXCEPT ![r] = new]
          /\ UNCHANGED <<plans, requests>> /\ runs[r].status = "approved"
      BY <1>0, <2>4, RunPosts DEF executeRun
    <3>2. new.status = StatusAfter["execute"] /\ new.status = "executed"
      BY <1>0, StatusNames DEF RunRecord
    <3>3. CASE runs' = runs
      <4>1. UNCHANGED <<auditLog, unanswered>>
        BY <2>4, <3>1, <3>3 DEF Executed, routeVars
      <4> QED BY <2>0, <3>1, <3>3, <4>1, AuditFrame
    <3>4. CASE runs' = [runs EXCEPT ![r] = new]
      <4> HIDE DEF new
      <4>1. runs'[r].status = "executed"
        BY <1>0, <3>2, <3>4
      <4>2. Mutated("payroll-run", r, "execute", "api")
        BY <2>4, <4>1 DEF Executed
      <4> QED BY <1>0, <2>0, <3>1, <3>2, <3>4, <4>2, RunNoted
    <3> QED BY <3>1, <3>3, <3>4
  <2> QED BY <2>1, <2>2, <2>3, <2>4
<1>2. CASE DistributionRoutes
  <2>0. UNCHANGED status
    BY <1>2 DEF DistributionRoutes, vars
  <2>1. PICK d \in Plan :
           \/ \E o \in PlanOffers : /\ createPlan(d, o.strategy, o.pool, o.shares, o.met)
                                    /\ Noted("distribution", d, "create", "api")
           \/ approvePlan(d) /\ Noted("distribution", d, "approve", "api")
           \/ executeDistribution(d) /\ Executed("distribution", d, plans'[d].status = "executed")
    BY <1>2 DEF DistributionRoutes
  <2>2. ASSUME NEW o \in PlanOffers, createPlan(d, o.strategy, o.pool, o.shares, o.met),
               Noted("distribution", d, "create", "api")
        PROVE  AuditInv'
    <3> DEFINE new == [status |-> "draft", strategy |-> o.strategy, pool |-> o.pool,
                       shares |-> o.shares, met |-> o.met]
    <3>1. plans' = [plans EXCEPT ![d] = new] /\ UNCHANGED <<runs, requests>>
      BY <2>2 DEF createPlan
    <3>2. new.status = StatusAfter["create"]
      BY StatusNames
    <3> HIDE DEF new
    <3> QED BY <1>0, <2>0, <2>2, <3>1, <3>2, NotedMutates, PlanNoted
  <2>3. CASE approvePlan(d) /\ Noted("distribution", d, "approve", "api")
    <3> DEFINE new == [plans[d] EXCEPT !.status = "approved"]
    <3>1. plans' = [plans EXCEPT ![d] = new] /\ UNCHANGED <<runs, requests>>
      BY <1>0, <2>3 DEF approvePlan
    <3>2. new.status = StatusAfter["approve"]
      BY <1>0, StatusNames DEF PlanRecord
    <3> HIDE DEF new
    <3> QED BY <1>0, <2>0, <2>3, <3>1, <3>2, NotedMutates, PlanNoted
  <2>4. CASE executeDistribution(d) /\ Executed("distribution", d, plans'[d].status = "executed")
    <3> DEFINE new == [plans[d] EXCEPT !.status = "executed"]
    <3>1. /\ plans' = plans \/ plans' = [plans EXCEPT ![d] = new]
          /\ UNCHANGED <<runs, requests>> /\ plans[d].status = "approved"
      BY <1>0, <2>4, PlanPosts DEF executeDistribution
    <3>2. new.status = StatusAfter["execute"] /\ new.status = "executed"
      BY <1>0, StatusNames DEF PlanRecord
    <3>3. CASE plans' = plans
      <4>1. UNCHANGED <<auditLog, unanswered>>
        BY <2>4, <3>1, <3>3 DEF Executed, routeVars
      <4> QED BY <2>0, <3>1, <3>3, <4>1, AuditFrame
    <3>4. CASE plans' = [plans EXCEPT ![d] = new]
      <4> HIDE DEF new
      <4>1. plans'[d].status = "executed"
        BY <1>0, <3>2, <3>4
      <4>2. Mutated("distribution", d, "execute", "api")
        BY <2>4, <4>1 DEF Executed
      <4> QED BY <1>0, <2>0, <3>1, <3>2, <3>4, <4>2, PlanNoted
    <3> QED BY <3>1, <3>3, <3>4
  <2> QED BY <2>1, <2>2, <2>3, <2>4
<1> QED BY <1>1, <1>2

(* Records of requests are equal when their fields are.                    *)
LEMMA SameRequest ==
    ASSUME NEW s \in RequestRecord, NEW t \in RequestRecord,
           s.status = t.status, s.amount = t.amount, s.requestedBy = t.requestedBy,
           s.gate1 = t.gate1, s.gate2 = t.gate2
    PROVE  s = t
BY DEF RequestRecord

(* What the log tells of a submission is the new request but its amount.   *)
LEMMA FreshRequest ==
    ASSUME NEW s \in RequestRecord, s.amount = 0, s.gate1 = Nobody, s.gate2 = Nobody,
           NEW by \in Person, NEW m \in Int
    PROVE  [s EXCEPT !.status = "pending", !.requestedBy = by] =
             [[NoRequest EXCEPT !.status = "pending", !.amount = m, !.requestedBy = by] EXCEPT !.amount = 0]
<1> DEFINE t == [s EXCEPT !.status = "pending", !.requestedBy = by]
           x == [NoRequest EXCEPT !.status = "pending", !.amount = m, !.requestedBy = by]
           u == [x EXCEPT !.amount = 0]
<1>1. /\ t \in RequestRecord /\ t.status = "pending" /\ t.requestedBy = by
      /\ t.amount = 0 /\ t.gate1 = Nobody /\ t.gate2 = Nobody
  BY DEF RequestRecord
<1>2. NoRequest \in RequestRecord /\ NoRequest.gate1 = Nobody /\ NoRequest.gate2 = Nobody
  BY DEF RequestRecord, NoRequest
<1>3. /\ x \in RequestRecord /\ x.status = "pending" /\ x.requestedBy = by
      /\ x.gate1 = Nobody /\ x.gate2 = Nobody
  BY <1>2 DEF RequestRecord
<1> HIDE DEF t, x
<1>4. /\ u \in RequestRecord /\ u.status = "pending" /\ u.requestedBy = by
      /\ u.amount = 0 /\ u.gate1 = Nobody /\ u.gate2 = Nobody
  BY <1>3 DEF RequestRecord
<1> HIDE DEF u
<1>5. t = u
  BY <1>1, <1>4, SameRequest
<1> QED BY <1>5 DEF t, u, x

(* The routes of funding.                                                  *)
LEMMA FundingRoutesTold ==
    ASSUME AuditInv, EnginesInv, FundingRoutes PROVE AuditInv'
<1>0. /\ requests \in [Request -> RequestRecord] /\ DOMAIN requests = Request
      /\ Controlled(requests) /\ GatesEmpty
  BY DEF EnginesInv, TreasuryType, AuditInv
<1>1. UNCHANGED status
  BY DEF FundingRoutes, vars
<1>2. PICK q \in Request :
         \/ \E m \in FundingAmounts, by \in Person : submitFundingRoute(q, m, by)
         \/ \E by \in Person : approveFundingRoute(q, by) \/ rejectFundingRoute(q, by)
         \/ executeFundingRoute(q)
  BY DEF FundingRoutes
<1> DEFINE r == requests[q]
           s == [r EXCEPT !.amount = 0]
<1>3. /\ r \in RequestRecord
      /\ s.status = r.status /\ s.gate1 = r.gate1 /\ s.gate2 = r.gate2 /\ s.requestedBy = r.requestedBy
      /\ s.amount = 0 /\ s \in RequestRecord
  BY <1>0 DEF RequestRecord
<1>4. Nobody \notin Person /\ Nobody \notin Gatekeepers /\ Gatekeepers \subseteq Person
  BY NobodyIsNoPerson, TwoGatekeepers
<1>5. /\ r.status \in {"absent", "pending"} => r.gate1 = Nobody /\ r.gate2 = Nobody
      /\ r.status \in {"gate1-approved", "approved"} => r.gate1 # Nobody
  BY <1>0, <1>4 DEF GatesEmpty, Controlled
<1>6. ASSUME NEW m \in FundingAmounts, NEW by \in Person, submitFundingRoute(q, m, by) PROVE AuditInv'
  <2> DEFINE x == [NoRequest EXCEPT !.status = "pending", !.amount = m, !.requestedBy = by]
             e == AuditEntry("funding-request", q, "submit", by)
  <2>1. /\ requests' = [requests EXCEPT ![q] = x] /\ UNCHANGED <<runs, plans>>
        /\ r.status = "absent" /\ Mutated("funding-request", q, "submit", by)
    BY <1>6, NotedMutates DEF submitFundingRoute, submitRequest, SetRequest
  <2>2. Told("funding-request", q, s, e) = [s EXCEPT !.status = "pending", !.requestedBy = by]
    <3> HIDE DEF s
    <3> QED BY DEF Told, AuditEntry
  <2>3. [s EXCEPT !.status = "pending", !.requestedBy = by] = [x EXCEPT !.amount = 0]
    <3>1. s \in RequestRecord /\ s.amount = 0 /\ s.gate1 = Nobody /\ s.gate2 = Nobody /\ m \in Int
      BY <1>3, <1>5, <2>1, MoneyIsIntegral
    <3> HIDE DEF s
    <3> QED BY <3>1, FreshRequest
  <2>4. x.status = "pending" /\ x.gate1 = Nobody /\ x.gate2 = Nobody
    BY DEF NoRequest
  <2> HIDE DEF x
  <2> QED BY <1>0, <1>1, <2>1, <2>2, <2>3, <2>4, RequestNoted
<1>7. ASSUME NEW by \in Person, approveFundingRoute(q, by) PROVE AuditInv'
  <2> DEFINE e == AuditEntry("funding-request", q, "approve", by)
             x == [r EXCEPT !.status = "gate1-approved", !.gate1 = by]
             y == [r EXCEPT !.status = "approved", !.gate2 = by]
  <2>1. /\ UNCHANGED <<runs, plans>> /\ Mutated("funding-request", q, "approve", by)
        /\ \/ r.status = "pending" /\ requests' = [requests EXCEPT ![q] = x]
           \/ r.status = "gate1-approved" /\ requests' = [requests EXCEPT ![q] = y]
    BY <1>7 DEF approveFundingRoute, approveGate, SetRequest
  <2>2. CASE r.status = "pending" /\ requests' = [requests EXCEPT ![q] = x]
    <3>1. Told("funding-request", q, s, e) = [s EXCEPT !.status = "gate1-approved", !.gate1 = by]
      <4>1. s.gate1 = Nobody
        BY <1>3, <1>5, <2>2
      <4> HIDE DEF s
      <4> QED BY <4>1 DEF Told, AuditEntry
    <3>2. [s EXCEPT !.status = "gate1-approved", !.gate1 = by] = [x EXCEPT !.amount = 0]
      BY <1>3 DEF RequestRecord
    <3>3. x.status = "gate1-approved"
      BY <1>3 DEF RequestRecord
    <3> HIDE DEF x
    <3> QED BY <1>0, <1>1, <2>1, <2>2, <3>1, <3>2, <3>3, RequestNoted
  <2>3. CASE r.status = "gate1-approved" /\ requests' = [requests EXCEPT ![q] = y]
    <3>1. Told("funding-request", q, s, e) = [s EXCEPT !.status = "approved", !.gate2 = by]
      <4>1. s.gate1 # Nobody
        BY <1>3, <1>5, <2>3
      <4> HIDE DEF s
      <4> QED BY <4>1 DEF Told, AuditEntry
    <3>2. [s EXCEPT !.status = "approved", !.gate2 = by] = [y EXCEPT !.amount = 0]
      BY <1>3 DEF RequestRecord
    <3>3. y.status = "approved"
      BY <1>3 DEF RequestRecord
    <3> HIDE DEF y
    <3> QED BY <1>0, <1>1, <2>1, <2>3, <3>1, <3>2, <3>3, RequestNoted
  <2> QED BY <2>1, <2>2, <2>3
<1>8. ASSUME NEW by \in Person, rejectFundingRoute(q, by) PROVE AuditInv'
  <2> DEFINE e == AuditEntry("funding-request", q, "reject", by)
             x == [r EXCEPT !.status = "rejected", !.gate1 = by]
             y == [r EXCEPT !.status = "rejected", !.gate2 = by]
  <2>1. /\ UNCHANGED <<runs, plans>> /\ Mutated("funding-request", q, "reject", by)
        /\ \/ r.gate1 = Nobody /\ requests' = [requests EXCEPT ![q] = x]
           \/ r.gate1 # Nobody /\ requests' = [requests EXCEPT ![q] = y]
    BY <1>8, NotedMutates DEF rejectFundingRoute, rejectRequest, SetRequest
  <2>2. CASE r.gate1 = Nobody /\ requests' = [requests EXCEPT ![q] = x]
    <3>1. Told("funding-request", q, s, e) = [s EXCEPT !.status = "rejected", !.gate1 = by]
      <4>1. s.gate1 = Nobody
        BY <1>3, <2>2
      <4> HIDE DEF s
      <4> QED BY <4>1 DEF Told, AuditEntry
    <3>2. [s EXCEPT !.status = "rejected", !.gate1 = by] = [x EXCEPT !.amount = 0]
      BY <1>3 DEF RequestRecord
    <3>3. x.status = "rejected"
      BY <1>3 DEF RequestRecord
    <3> HIDE DEF x
    <3> QED BY <1>0, <1>1, <2>1, <2>2, <3>1, <3>2, <3>3, RequestNoted
  <2>3. CASE r.gate1 # Nobody /\ requests' = [requests EXCEPT ![q] = y]
    <3>1. Told("funding-request", q, s, e) = [s EXCEPT !.status = "rejected", !.gate2 = by]
      <4>1. s.gate1 # Nobody
        BY <1>3, <2>3
      <4> HIDE DEF s
      <4> QED BY <4>1 DEF Told, AuditEntry
    <3>2. [s EXCEPT !.status = "rejected", !.gate2 = by] = [y EXCEPT !.amount = 0]
      BY <1>3 DEF RequestRecord
    <3>3. y.status = "rejected"
      BY <1>3 DEF RequestRecord
    <3> HIDE DEF y
    <3> QED BY <1>0, <1>1, <2>1, <2>3, <3>1, <3>2, <3>3, RequestNoted
  <2> QED BY <2>1, <2>2, <2>3
<1>9. CASE executeFundingRoute(q)
  <2> DEFINE e == AuditEntry("funding-request", q, "execute", "api")
             x == [r EXCEPT !.status = "executed"]
  <2>1. /\ requests' = requests \/ requests' = [requests EXCEPT ![q] = x]
        /\ UNCHANGED <<runs, plans>> /\ r.status = "approved"
    BY <1>0, <1>9, RequestPosts DEF executeFundingRoute, executeRequest
  <2>2. IF requests'[q].status = "executed" THEN Noted("funding-request", q, "execute", "api")
        ELSE UNCHANGED routeVars
    BY <1>9 DEF executeFundingRoute
  <2>3. x.status = "executed"
    BY <1>3 DEF RequestRecord
  <2>4. CASE requests' = requests
    <3>1. UNCHANGED <<auditLog, unanswered>>
      BY <2>1, <2>2, <2>4 DEF routeVars
    <3> QED BY <1>1, <2>1, <2>4, <3>1, AuditFrame
  <2>5. CASE requests' = [requests EXCEPT ![q] = x]
    <3>1. Told("funding-request", q, s, e) = [s EXCEPT !.status = "executed"]
      <4> HIDE DEF s
      <4> QED BY DEF Told, AuditEntry
    <3>2. [s EXCEPT !.status = "executed"] = [x EXCEPT !.amount = 0]
      BY <1>3 DEF RequestRecord
    <3> HIDE DEF x
    <3>3. requests'[q].status = "executed"
      BY <1>0, <2>3, <2>5
    <3>4. Mutated("funding-request", q, "execute", "api")
      BY <2>2, <3>3, NotedMutates
    <3> QED BY <1>0, <1>1, <2>1, <2>3, <2>5, <3>1, <3>2, <3>4, RequestNoted
  <2> QED BY <2>1, <2>4, <2>5
<1> QED BY <1>2, <1>6, <1>7, <1>8, <1>9

(* Nothing has happened and nothing is told.                               *)
LEMMA AuditInitial == MCInit => AuditInv
<1> SUFFICES ASSUME MCInit PROVE AuditInv
  OBVIOUS
<1>0. /\ auditLog = <<>> /\ status = [i \in Intent |-> "absent"] /\ runs = [r \in Run |-> NoRun]
      /\ plans = [d \in Plan |-> NoPlan] /\ requests = [q \in Request |-> NoRequest]
  BY DEF MCInit, Init, TreasuryInit, RoutesInit
<1>1. LogOK
  BY <1>0 DEF LogOK
<1>2. ASSUME NEW t \in Plain \cup {"funding-request"}, NEW x PROVE Story(t, x, Start(t)) = Start(t)
  <2> DEFINE g == CHOOSE g : TellsStory(g, t, x, Start(t), auditLog)
  <2>1. Closed(t, x, Telling(t), LogEntry) /\ Start(t) \in Telling(t)
    BY StoryClosed
  <2>2. TellsStory(g, t, x, Start(t), auditLog)
    BY <1>1, <2>1, StoryExists DEF LogOK
  <2>3. Story(t, x, Start(t)) = g[DOMAIN auditLog]
    BY StoryDef DEF Story
  <2>4. DOMAIN auditLog = {}
    BY <1>0
  <2> HIDE DEF g
  <2>5. g[{}] = Start(t)
    BY <2>2, <2>4 DEF TellsStory
  <2> QED BY <2>3, <2>4, <2>5
<1>3. /\ \A x : Story("intent", x, "absent") = "absent"
      /\ \A x : Story("payroll-run", x, "absent") = "absent"
      /\ \A x : Story("distribution", x, "absent") = "absent"
      /\ \A x : Story("funding-request", x, NoRequest) = NoRequest
  <2>1. /\ Start("intent") = "absent" /\ Start("payroll-run") = "absent"
        /\ Start("distribution") = "absent" /\ Start("funding-request") = NoRequest
        /\ {"intent", "payroll-run", "distribution", "funding-request"} = Plain \cup {"funding-request"}
    BY DEF Start, Plain
  <2> QED BY <1>2, <2>1
<1>4. AllTold
  BY <1>0, <1>3 DEF AllTold, IntentTold, RunTold, PlanTold, RequestTold, NoRun, NoPlan, NoRequest
<1>5. GatesEmpty
  BY <1>0 DEF GatesEmpty, NoRequest
<1> QED BY <1>0, <1>1, <1>4, <1>5 DEF AuditInv

(* Dual control of funding, and a complete and true audit log behind the   *)
(* routes (intents.ts, treasury.ts, audit-log.ts), for any number of       *)
(* intents, runs, plans, requests and principals and a log of any length.  *)
THEOREM DutiesCorrect == MCSpec => []DutiesAreRecorded
<1> DEFINE I == EnginesInv /\ (part \in Routes => AuditInv)
<1>1. MCInit => I
  BY EnginesInit, AuditInitial DEF MCInit
<1>2. I /\ [MCNext]_allVars => I'
  <2> SUFFICES ASSUME I, [MCNext]_allVars PROVE I'
    OBVIOUS
  <2>1. [TreasuryNext]_treasuryVars
    BY RoutesAreOperations DEF allVars
  <2>2. EnginesInv'
    BY <2>1, EnginesStep
  <2>3. part' = part
    BY DEF MCNext, allVars
  <2>4. ASSUME part \in Routes, AuditInv PROVE AuditInv'
    <3>1. CASE UNCHANGED allVars
      BY <2>4, <3>1, AuditFrame DEF allVars, vars, treasuryVars, routeVars
    <3>2. CASE MCNext
      <4>1. ~(part \in {"vault", "payroll", "distribution", "funding", "ledger"})
        BY <2>4 DEF Routes
      <4>2. RouteStep
        BY <3>2, <4>1 DEF MCNext, VaultStep, TreasuryStep, LedgerStep
      <4> QED BY <2>4, <4>2, VaultRoutesTold, PayRoutesTold, FundingRoutesTold DEF RouteStep
    <3> QED BY <3>1, <3>2
  <2> QED BY <2>2, <2>3, <2>4
<1>3. I => DutiesAreRecorded
  <2>1. EnginesInv => DualControl
    BY EnginesControl
  <2>2. AuditInv => AuditTellsTheStory
    BY DEF AuditInv, AllTold, IntentTold, RunTold, PlanTold, RequestTold, AuditTellsTheStory
  <2> QED BY <2>1, <2>2 DEF DutiesAreRecorded
<1> HIDE DEF I
<1> QED BY <1>1, <1>2, <1>3, PTL DEF MCSpec

-----------------------------------------------------------------------------
(* A ledger with arbitrary callers: what a restore puts together again     *)

CorrsOf(es) == {es[i].correlationId : i \in DOMAIN es}

(* Where a correlation id appears first.                                   *)
NewAt(es) == {i \in DOMAIN es : \A j \in 1..(i - 1) : es[j].correlationId # es[i].correlationId}
Firsts(es) == Select(Upto(Len(es)), NewAt(es))

(* The correlation ids are read at those places.                           *)
LEMMA CorrelationsAre ==
    ASSUME NEW es, IsSequence(es)
    PROVE  /\ Len(es) \in Nat /\ DOMAIN es = 1..Len(es)
           /\ Firsts(es) \in Seq(1..Len(es)) /\ Len(Firsts(es)) \in Nat
           /\ IsSequence(Correlations(es)) /\ Len(Correlations(es)) = Len(Firsts(es))
           /\ \A k \in 1..Len(Firsts(es)) : Correlations(es)[k] = es[Firsts(es)[k]].correlationId
<1> DEFINE n == Len(es)
           u == Upto(n)
           f == Firsts(es)
<1>1. n \in Nat /\ DOMAIN es = 1..n
  BY DEF IsSequence
<1>2. [i \in DOMAIN es |-> i] = u
  BY <1>1 DEF Upto
<1>3. Correlations(es) = [k \in DOMAIN f |-> es[f[k]].correlationId]
  BY <1>2 DEF Correlations, Firsts, NewAt
<1>4. u \in Seq(1..n)
  BY <1>1 DEF Upto
<1>5. f \in Seq(1..n)
  <2> HIDE DEF u, n
  <2>1. f = Select(u, NewAt(es))
    BY DEF Firsts, u, n
  <2> QED BY <1>4, <2>1, Selected
<1> HIDE DEF f, u
<1> DEFINE m == Len(f)
<1>6. m \in Nat /\ DOMAIN f = 1..m
  BY <1>5
<1> HIDE DEF m
<1> DEFINE g == [k \in 1..m |-> es[f[k]].correlationId]
<1>7. Correlations(es) = g /\ g = [k \in 1..m |-> g[k]]
      /\ \A k \in 1..m : g[k] = es[f[k]].correlationId
  BY <1>3, <1>6
<1> HIDE DEF g
<1>8. IsSequence([k \in 1..m |-> g[k]]) /\ Len([k \in 1..m |-> g[k]]) = m
  BY <1>6, TabledSequence
<1> QED BY <1>1, <1>5, <1>6, <1>7, <1>8 DEF f, m

(* One entry more: its correlation id is added when it is new.             *)
LEMMA CorrelationsNext ==
    ASSUME NEW es, IsSequence(es), NEW e
    PROVE  /\ CorrsOf(Append(es, e)) = CorrsOf(es) \cup {e.correlationId}
           /\ Correlations(Append(es, e)) =
                IF e.correlationId \in CorrsOf(es) THEN Correlations(es)
                ELSE Append(Correlations(es), e.correlationId)
<1> DEFINE n == Len(es)
           f == Append(es, e)
           x == e.correlationId
<1>1. /\ IsSequence(f) /\ Len(f) = n + 1 /\ n \in Nat /\ f[n + 1] = e
      /\ \A i \in 1..n : f[i] = es[i]
  BY AppendElements
<1>2. DOMAIN es = 1..n /\ DOMAIN f = 1..(n + 1)
  <2> HIDE DEF f
  <2> QED BY <1>1 DEF IsSequence
<1> HIDE DEF f, n
<1>3. \A i \in 1..(n + 1) : i \in 1..n \/ i = n + 1
  BY <1>1
<1>4. CorrsOf(f) = CorrsOf(es) \cup {x}
  <2>1. \A i \in 1..n : i \in 1..(n + 1)
    BY <1>1
  <2>2. n + 1 \in 1..(n + 1)
    BY <1>1
  <2> QED BY <1>1, <1>2, <1>3, <2>1, <2>2 DEF CorrsOf
<1>5. ASSUME NEW i \in 1..n PROVE i \in NewAt(f) <=> i \in NewAt(es)
  <2>1. i \in 1..(n + 1) /\ \A j \in 1..(i - 1) : j \in 1..n
    BY <1>1
  <2>2. f[i] = es[i] /\ \A j \in 1..(i - 1) : f[j] = es[j]
    BY <1>1, <2>1
  <2> QED BY <1>2, <2>1, <2>2 DEF NewAt
<1>6. n + 1 \in NewAt(f) <=> x \notin CorrsOf(es)
  <2>1. n + 1 \in 1..(n + 1) /\ (n + 1) - 1 = n
    BY <1>1
  <2>2. n + 1 \in NewAt(f) <=> \A j \in 1..n : f[j].correlationId # f[n + 1].correlationId
    BY <1>2, <2>1 DEF NewAt
  <2> QED BY <1>1, <1>2, <2>2 DEF CorrsOf
<1>7. Select(Upto(n), NewAt(f)) = Firsts(es)
  <2>1. Select(Upto(n), NewAt(f)) = Select(Upto(n), NewAt(es))
    BY <1>1, <1>5, SelectUpto
  <2> QED BY <2>1 DEF Firsts, n
<1>8. Firsts(f) = IF x \notin CorrsOf(es) THEN Append(Firsts(es), n + 1) ELSE Firsts(es)
  <2>1. Select(Upto(n + 1), NewAt(f)) = IF n + 1 \in NewAt(f) THEN Append(Select(Upto(n), NewAt(f)), n + 1)
                                        ELSE Select(Upto(n), NewAt(f))
    BY <1>1, SelectUpto
  <2>2. Firsts(f) = Select(Upto(n + 1), NewAt(f))
    BY <1>1 DEF Firsts
  <2> QED BY <1>6, <1>7, <2>1, <2>2
<1> DEFINE a == Firsts(es)
           b == Firsts(f)
           c == Correlations(es)
           d == Correlations(f)
           m == Len(a)
<1>9. /\ a \in Seq(1..n) /\ m \in Nat /\ IsSequence(c) /\ Len(c) = m
      /\ \A k \in 1..m : c[k] = es[a[k]].correlationId
  BY CorrelationsAre DEF n
<1>10. /\ IsSequence(d) /\ Len(d) = Len(b) /\ \A k \in 1..Len(b) : d[k] = f[b[k]].correlationId
  BY <1>1, CorrelationsAre
<1>11. \A k \in 1..m : a[k] \in 1..n /\ f[a[k]] = es[a[k]]
  <2>1. \A k \in 1..m : a[k] \in 1..n
    <3>1. a \in Seq(1..n)
      BY <1>9
    <3> DEFINE D == 1..n
    <3> HIDE DEF a, D, m
    <3>2. m = Len(a) /\ a \in Seq(D)
      BY <3>1 DEF D, m
    <3>3. \A k \in 1..m : a[k] \in D
      BY <3>2
    <3> QED BY <3>3 DEF D
  <2> QED BY <1>1, <2>1
<1> HIDE DEF a, b, c, d, m
<1>12. CASE x \in CorrsOf(es)
  <2>1. b = a
    BY <1>8, <1>12 DEF a, b
  <2>2. d = c
    BY <1>9, <1>10, <1>11, <2>1, SameSequence DEF m
  <2> QED BY <1>4, <1>12, <2>2 DEF c, d, f
<1>13. CASE x \notin CorrsOf(es)
  <2> DEFINE g == Append(c, x)
  <2>1. b = Append(a, n + 1)
    BY <1>8, <1>13 DEF a, b
  <2>2. IsSequence(a)
    BY <1>9, SequenceIntro
  <2>3. Len(b) = m + 1 /\ b[m + 1] = n + 1 /\ \A k \in 1..m : b[k] = a[k]
    BY <2>1, <2>2, AppendElements DEF m
  <2>4. IsSequence(g) /\ Len(g) = m + 1 /\ g[m + 1] = x /\ \A k \in 1..m : g[k] = c[k]
    BY <1>9, AppendElements
  <2> HIDE DEF g
  <2>5. ASSUME NEW k \in 1..(m + 1) PROVE d[k] = g[k]
    <3>1. k \in 1..m \/ k = m + 1
      BY <1>9
    <3>2. d[k] = f[b[k]].correlationId
      BY <1>10, <2>3
    <3> QED BY <1>1, <1>9, <1>11, <2>3, <2>4, <3>1, <3>2
  <2>6. d = g
    BY <1>10, <2>3, <2>4, <2>5, SameSequence
  <2> QED BY <1>4, <1>13, <2>6 DEF c, d, f, g
<1> QED BY <1>12, <1>13

(* Nothing has no correlation ids.                                         *)
LEMMA CorrelationsEmpty == CorrsOf(<<>>) = {} /\ Correlations(<<>>) = <<>>
<1>1. IsSequence(<<>>) /\ Len(<<>>) = 0 /\ DOMAIN <<>> = {}
  BY EmptyIsSequence
<1>2. Upto(0) = <<>>
  <2>1. Upto(0) \in Seq({}) /\ Len(Upto(0)) = 0
    BY DEF Upto
  <2> QED BY <2>1
<1>3. Firsts(<<>>) = <<>>
  BY <1>1, <1>2, SelectEmpty DEF Firsts
<1>4. IsSequence(Correlations(<<>>)) /\ Len(Correlations(<<>>)) = 0
  BY <1>1, <1>3, CorrelationsAre
<1>5. Correlations(<<>>) = <<>>
  BY <1>1, <1>4, SameSequence
<1> QED BY <1>1, <1>5 DEF CorrsOf

(* Every correlation id is listed, once.                                   *)
LEMMA CorrelationsList ==
    ASSUME NEW es, IsSequence(es)
    PROVE  /\ IsSequence(Correlations(es)) /\ ToSet(Correlations(es)) = CorrsOf(es)
           /\ \A j, k \in DOMAIN Correlations(es) : Correlations(es)[j] = Correlations(es)[k] => j = k
<1> DEFINE p(k) == SubSeq(es, 1, k)
           G(s) == /\ ToSet(Correlations(s)) = CorrsOf(s)
                   /\ \A j, k \in DOMAIN Correlations(s) : Correlations(s)[j] = Correlations(s)[k] => j = k
           P == {k \in Nat : k <= Len(es) => G(p(k))}
<1>0. Len(es) \in Nat
  BY SequenceOps
<1>1. ASSUME NEW k \in Nat, \A j \in Nat : j < k => j \in P PROVE k \in P
  <2> SUFFICES ASSUME k <= Len(es) PROVE G(p(k))
    OBVIOUS
  <2>1. CASE k = 0
    <3>1. p(0) = <<>>
      BY DEF IsSequence
    <3>2. G(<<>>)
      <4>1. ToSet(<<>>) = {} /\ DOMAIN <<>> = {}
        BY DEF ToSet
      <4> QED BY <4>1, CorrelationsEmpty
    <3> HIDE DEF G, p
    <3> QED BY <2>1, <3>1, <3>2
  <2>2. CASE k # 0
    <3>1. PICK j \in Nat : k = j + 1
      <4>1. k - 1 \in Nat /\ k = (k - 1) + 1
        BY <2>2
      <4> QED BY <4>1
    <3>2. j < k /\ j < Len(es) /\ j \in 0..Len(es) /\ j <= Len(es)
      BY <1>0, <3>1
    <3> DEFINE s == p(j)
               e == es[k]
               c == Correlations(s)
               d == Correlations(p(k))
               x == e.correlationId
    <3>3. p(k) = Append(s, e) /\ IsSequence(s)
      BY <3>1, <3>2, PrefixGrows, PrefixElements
    <3>4. G(s)
      <4> HIDE DEF G
      <4> QED BY <1>1, <3>2
    <3>5. CorrsOf(p(k)) = CorrsOf(s) \cup {x} /\ d = IF x \in CorrsOf(s) THEN c ELSE Append(c, x)
      <4> HIDE DEF p, s, e
      <4> QED BY <3>3, CorrelationsNext
    <3>6. IsSequence(c) /\ Len(c) \in Nat /\ DOMAIN c = 1..Len(c)
      <4>1. IsSequence(c)
        BY <3>3, CorrelationsAre
      <4> HIDE DEF c
      <4> QED BY <4>1 DEF IsSequence
    <3>7. /\ ToSet(c) = CorrsOf(s)
          /\ \A i, l \in DOMAIN c : c[i] = c[l] => i = l
      BY <3>4
    <3> HIDE DEF s, c, d, e, x, p, P
    <3>8. CASE x \in CorrsOf(s)
      <4>1. d = c /\ CorrsOf(p(k)) = CorrsOf(s)
        BY <3>5, <3>8
      <4> QED BY <3>7, <4>1 DEF d
    <3>9. CASE x \notin CorrsOf(s)
      <4> DEFINE m == Len(c)
      <4>1. d = Append(c, x)
        BY <3>5, <3>9
      <4>2. IsSequence(d) /\ Len(d) = m + 1 /\ m \in Nat /\ d[m + 1] = x /\ \A i \in 1..m : d[i] = c[i]
        BY <3>6, <4>1, AppendElements
      <4>3. DOMAIN d = 1..(m + 1) /\ DOMAIN c = 1..m
        BY <3>6, <4>2 DEF IsSequence
      <4> HIDE DEF m
      <4>4. (\A i \in 1..(m + 1) : i \in 1..m \/ i = m + 1) /\ (\A i \in 1..m : i \in 1..(m + 1))
            /\ m + 1 \in 1..(m + 1)
        BY <4>2
      <4>5. ToSet(d) = ToSet(c) \cup {x}
        BY <4>2, <4>3, <4>4 DEF ToSet
      <4>6. \A i \in 1..m : c[i] # x
        BY <3>7, <3>9, <4>3 DEF ToSet
      <4>7. ASSUME NEW i \in 1..(m + 1), NEW l \in 1..(m + 1), d[i] = d[l] PROVE i = l
        BY <3>7, <4>2, <4>3, <4>4, <4>6, <4>7
      <4> QED BY <3>5, <3>7, <4>3, <4>5, <4>7 DEF d
    <3> QED BY <3>8, <3>9
  <2> QED BY <2>1, <2>2
<1> HIDE DEF G
<1>2. P = Nat
  <2> HIDE DEF P
  <2>1. P \in SUBSET Nat
    BY DEF P
  <2> QED BY <1>1, <2>1, NoLeastExceptionIsNone
<1>3. p(Len(es)) = es
  BY WholePrefix
<1>4. Len(es) \in P
  BY <1>0, <1>2
<1> HIDE DEF p
<1>5. G(es)
  BY <1>0, <1>3, <1>4
<1> QED BY <1>5, CorrelationsAre DEF G


(* A batch of a new correlation id is listed once, last.                   *)
LEMMA CorrelationsBlock ==
    ASSUME NEW es, NEW fs, IsSequence(es), IsSequence(fs), Len(fs) # 0,
           NEW x, \A i \in DOMAIN fs : fs[i].correlationId = x, x \notin CorrsOf(es)
    PROVE  Correlations(es \o fs) = Append(Correlations(es), x)
<1> DEFINE p(k) == SubSeq(fs, 1, k)
           G(s) == CorrsOf(s) = CorrsOf(es) \cup {x} /\ Correlations(s) = Append(Correlations(es), x)
           P == {k \in Nat : k # 0 /\ k <= Len(fs) => G(es \o p(k))}
<1>0. Len(fs) \in Nat /\ DOMAIN fs = 1..Len(fs)
  BY DEF IsSequence
<1>1. ASSUME NEW k \in Nat, \A j \in Nat : j < k => j \in P PROVE k \in P
  <2> SUFFICES ASSUME k # 0, k <= Len(fs) PROVE G(es \o p(k))
    OBVIOUS
  <2>1. PICK j \in Nat : k = j + 1
    <3>1. k - 1 \in Nat /\ k = (k - 1) + 1
      OBVIOUS
    <3> QED BY <3>1
  <2>2. j < k /\ j < Len(fs) /\ j \in 0..Len(fs) /\ j <= Len(fs) /\ k \in 1..Len(fs)
    BY <1>0, <2>1
  <2> DEFINE v == p(j)
             s == es \o v
             e == fs[k]
  <2>3. p(k) = Append(v, e) /\ IsSequence(v)
    BY <2>1, <2>2, PrefixGrows, PrefixElements
  <2>4. e.correlationId = x
    BY <1>0, <2>2
  <2>5. es \o p(k) = Append(s, e) /\ IsSequence(s)
    <3> HIDE DEF v, e, p
    <3> QED BY <2>3, ConcatAppend, ConcatElements
  <2>6. s = es \/ G(s)
    <3>1. CASE j = 0
      BY <3>1, ConcatNothing
    <3>2. CASE j # 0
      <4> HIDE DEF G
      <4> QED BY <1>1, <2>2, <3>2
    <3> QED BY <3>1, <3>2
  <2> DEFINE t == es \o p(k)
  <2> HIDE DEF s, e, v
  <2>7. /\ CorrsOf(t) = CorrsOf(s) \cup {x}
        /\ Correlations(t) = IF x \in CorrsOf(s) THEN Correlations(s) ELSE Append(Correlations(s), x)
    <3> HIDE DEF t
    <3>1. t = Append(s, e)
      BY <2>5 DEF t
    <3> QED BY <2>4, <2>5, <3>1, CorrelationsNext
  <2> HIDE DEF t
  <2>8. G(t)
    BY <2>6, <2>7
  <2> HIDE DEF G
  <2> QED BY <2>8 DEF t
<1> HIDE DEF G
<1>2. P = Nat
  <2> HIDE DEF P
  <2>1. P \in SUBSET Nat
    BY DEF P
  <2> QED BY <1>1, <2>1, NoLeastExceptionIsNone
<1>3. p(Len(fs)) = fs
  BY WholePrefix
<1>4. Len(fs) \in P
  BY <1>0, <1>2
<1> HIDE DEF p
<1>5. G(es \o fs)
  BY <1>0, <1>3, <1>4
<1> QED BY <1>5 DEF G

(* Where the entries of one correlation id come from.                      *)
LEMMA GroupFrom ==
    ASSUME NEW es, IsSequence(es), NEW x
    PROVE  /\ IsSequence(Group(es, x))
           /\ ToSet(Group(es, x)) = {e \in ToSet(es) : e.correlationId = x}
           /\ (\A i, j \in DOMAIN es : es[i] = es[j] => i = j) =>
                 \A i, j \in DOMAIN Group(es, x) : Group(es, x)[i] = Group(es, x)[j] => i = j
<1> DEFINE T == {e \in ToSet(es) : e.correlationId = x}
           g == Group(es, x)
<1>1. g = Select(es, T) /\ {e \in ToSet(es) : e \in T} = T
  BY DEF Group
<1> HIDE DEF T, g
<1>2. IsSequence(g) /\ ToSet(g) = T
  BY <1>1, SelectedFrom
<1>3. ASSUME \A i, j \in DOMAIN es : es[i] = es[j] => i = j
      PROVE  \A i, j \in DOMAIN g : g[i] = g[j] => i = j
  <2> DEFINE h == Select(es, T)
  <2>1. \A i, j \in DOMAIN h : h[i] = h[j] => i = j
    BY <1>3, SelectedFrom
  <2> HIDE DEF h
  <2>2. g = h
    BY <1>1 DEF h
  <2> QED BY <2>1, <2>2
<1> QED BY <1>2, <1>3 DEF T, g

(* A group of a longer book.                                               *)
LEMMA GroupConcat ==
    ASSUME NEW es, NEW fs, IsSequence(es), IsSequence(fs), NEW x
    PROVE  Group(es \o fs, x) = Group(es, x) \o Group(fs, x)
<1> DEFINE b == es \o fs
           T == {e \in ToSet(b) : e.correlationId = x}
           U == {e \in ToSet(es) : e.correlationId = x}
           V == {e \in ToSet(fs) : e.correlationId = x}
<1>0. /\ IsSequence(b) /\ Len(b) = Len(es) + Len(fs) /\ Len(es) \in Nat /\ Len(fs) \in Nat
      /\ \A i \in 1..Len(es) : b[i] = es[i]
      /\ \A i \in 1..Len(fs) : b[Len(es) + i] = fs[i]
  BY ConcatElements
<1>1. DOMAIN es = 1..Len(es) /\ DOMAIN fs = 1..Len(fs) /\ DOMAIN b = 1..Len(b)
  <2> HIDE DEF b
  <2> QED BY <1>0 DEF IsSequence
<1>2. PICK S : es \in Seq(S) /\ fs \in Seq(S)
  BY SequencesTogether
<1> HIDE DEF b
<1>3. \A i \in DOMAIN es : es[i] \in T <=> es[i] \in U
  <2>1. ASSUME NEW i \in DOMAIN es PROVE es[i] \in ToSet(b) /\ es[i] \in ToSet(es)
    <3>1. i \in DOMAIN b /\ b[i] = es[i]
      BY <1>0, <1>1
    <3> QED BY <3>1 DEF ToSet
  <2> QED BY <2>1
<1>4. \A i \in DOMAIN fs : fs[i] \in T <=> fs[i] \in V
  <2>1. ASSUME NEW i \in DOMAIN fs PROVE fs[i] \in ToSet(b) /\ fs[i] \in ToSet(fs)
    <3>1. Len(es) + i \in DOMAIN b /\ b[Len(es) + i] = fs[i]
      BY <1>0, <1>1
    <3> QED BY <3>1 DEF ToSet
  <2> QED BY <2>1
<1>5. Group(b, x) = Select(b, T) /\ Group(es, x) = Select(es, U) /\ Group(fs, x) = Select(fs, V)
  BY DEF Group
<1> HIDE DEF T, U, V
<1>6. Select(b, T) = Select(es, T) \o Select(fs, T)
  BY SelectConcat DEF b
<1>7. Select(es, T) = Select(es, U) /\ Select(fs, T) = Select(fs, V)
  BY <1>2, <1>3, <1>4, SelectSame
<1> QED BY <1>5, <1>6, <1>7 DEF b

(* The group of a batch is all of it, or nothing.                          *)
LEMMA GroupOfOne ==
    ASSUME NEW es, IsSequence(es), NEW x
    PROVE  /\ (\A i \in DOMAIN es : es[i].correlationId = x) => Group(es, x) = es
           /\ x \notin CorrsOf(es) => Group(es, x) = <<>>
<1> DEFINE T == {e \in ToSet(es) : e.correlationId = x}
<1>1. Group(es, x) = Select(es, T)
  BY DEF Group
<1>2. (\A i \in DOMAIN es : es[i].correlationId = x) => \A i \in DOMAIN es : es[i] \in T
  BY DEF ToSet
<1>3. x \notin CorrsOf(es) => \A i \in DOMAIN es : es[i] \notin T
  BY DEF CorrsOf
<1> HIDE DEF T
<1> QED BY <1>1, <1>2, <1>3, SelectAllOrNone

(* Entries that pass the rules on single entries, each with its own id.    *)
Fit(E, A) ==
    /\ \A e \in E : e.scaled \in Int /\ e.scaled > 0 /\ e.decimals >= 0 /\ e.accountId \in A
    /\ \A e, f \in E : e.id = f.id => e = f

Once(es) == \A i, j \in DOMAIN es : es[i] = es[j] => i = j

(* What makes a list of entries one that fromSnapshot accepts: also all    *)
(* the entries of a correlation id together, which append() never saw as   *)
(* one batch, balance in every currency.                                   *)
Tidy(es, A) ==
    /\ IsSequence(es) /\ IsFiniteSet(A)
    /\ Fit(ToSet(es), A) /\ Once(es)
    /\ \A x, c : Balance(Group(es, x), c) = 0

(* What append() asks is also enough: nothing left over means balanced.    *)
LEMMA ZeroIsBalanced ==
    ASSUME NEW es, IsBook(es), \A c : Balance(es, c) = 0
    PROVE  _assertBalanced(es)
<1> DEFINE A == AccountIds(es)
<1>1. ASSUME NEW c \in Currencies(es)
      PROVE  Sum(es, "debit", A, {c}) = Sum(es, "credit", A, {c})
  <2>1. {i \in DOMAIN es : es[i].accountId \in A} = DOMAIN es
    BY DEF AccountIds
  <2>2. Balance(es, c) = Sum(es, "debit", A, {c}) - Sum(es, "credit", A, {c})
    BY <2>1, SidesOf DEF Balance
  <2>3. Sum(es, "credit", A, {c}) \in Int /\ Sum(es, "debit", A, {c}) \in Int
    BY SumIs
  <2>4. Balance(es, c) = 0
    OBVIOUS
  <2> HIDE DEF A
  <2> QED BY <2>2, <2>3, <2>4
<1> QED BY <1>1 DEF _assertBalanced

(* Elements and entries.                                                   *)
LEMMA BookSet ==
    ASSUME NEW es, IsSequence(es), NEW A, Fit(ToSet(es), A)
    PROVE  /\ IsBook(es) /\ AccountIds(es) \subseteq A
           /\ CorrsOf(es) = {e.correlationId : e \in ToSet(es)}
           /\ EntryIds(es) = {e.id : e \in ToSet(es)}
           /\ Once(es) => \A i, j \in DOMAIN es : es[i].id = es[j].id => i = j
<1>1. \A i \in DOMAIN es : es[i] \in ToSet(es)
  BY DEF ToSet
<1>2. IsBook(es)
  BY <1>1 DEF IsBook, Fit
<1>3. AccountIds(es) \subseteq A
  BY <1>1 DEF AccountIds, Fit
<1>4. CorrsOf(es) = {e.correlationId : e \in ToSet(es)}
  BY DEF CorrsOf, ToSet
<1>5. EntryIds(es) = {e.id : e \in ToSet(es)}
  BY DEF EntryIds, ToSet
<1>6. ASSUME Once(es), NEW i \in DOMAIN es, NEW j \in DOMAIN es, es[i].id = es[j].id PROVE i = j
  <2>1. es[i] = es[j]
    BY <1>1, <1>6 DEF Fit
  <2> QED BY <1>6, <2>1 DEF Once
<1> QED BY <1>2, <1>3, <1>4, <1>5, <1>6

(* The elements of two lists put together.                                 *)
LEMMA ConcatSet ==
    ASSUME NEW s, NEW t, IsSequence(s), IsSequence(t)
    PROVE  ToSet(s \o t) = ToSet(s) \cup ToSet(t)
<1> DEFINE b == s \o t
<1>0. /\ IsSequence(b) /\ Len(b) = Len(s) + Len(t) /\ Len(s) \in Nat /\ Len(t) \in Nat
      /\ \A i \in 1..Len(s) : b[i] = s[i]
      /\ \A i \in 1..Len(t) : b[Len(s) + i] = t[i]
  BY ConcatElements
<1>1. \A i \in DOMAIN b : (i \in DOMAIN s /\ b[i] = s[i]) \/ \E j \in DOMAIN t : b[i] = t[j]
  BY ConcatElement
<1> HIDE DEF b
<1>2. DOMAIN s = 1..Len(s) /\ DOMAIN t = 1..Len(t) /\ DOMAIN b = 1..Len(b)
  BY <1>0 DEF IsSequence
<1>3. \A i \in DOMAIN s : i \in DOMAIN b /\ b[i] = s[i]
  BY <1>0, <1>2
<1>4. \A i \in DOMAIN t : Len(s) + i \in DOMAIN b /\ b[Len(s) + i] = t[i]
  BY <1>0, <1>2
<1>5. ToSet(b) \subseteq ToSet(s) \cup ToSet(t)
  BY <1>1 DEF ToSet
<1>6. ToSet(s) \subseteq ToSet(b)
  BY <1>3 DEF ToSet
<1>7. ToSet(t) \subseteq ToSet(b)
  BY <1>4 DEF ToSet
<1> QED BY <1>5, <1>6, <1>7 DEF b

(* Two lists without repetitions and without a common element.             *)
LEMMA ConcatOnce ==
    ASSUME NEW s, NEW t, IsSequence(s), IsSequence(t), Once(s), Once(t), ToSet(s) \cap ToSet(t) = {}
    PROVE  Once(s \o t)
<1> DEFINE b == s \o t
<1> SUFFICES ASSUME NEW i \in DOMAIN b, NEW j \in DOMAIN b, b[i] = b[j] PROVE i = j
  BY DEF Once
<1>1. \/ i \in DOMAIN s /\ b[i] = s[i]
      \/ \E k \in DOMAIN t : i = Len(s) + k /\ b[i] = t[k]
  BY ConcatElement
<1>2. \/ j \in DOMAIN s /\ b[j] = s[j]
      \/ \E k \in DOMAIN t : j = Len(s) + k /\ b[j] = t[k]
  BY ConcatElement
<1> HIDE DEF b
<1>3. \A k \in DOMAIN s, l \in DOMAIN t : s[k] # t[l]
  BY DEF ToSet
<1> QED BY <1>1, <1>2, <1>3 DEF Once

(* append() keeps a tidy ledger tidy, also when the batch continues an     *)
(* earlier correlation id.                                                 *)
LEMMA AppendTidy ==
    ASSUME NEW l, Tidy(l.entries, l.accounts), NEW fs, IsBook(fs), Appendable(l, fs)
    PROVE  Tidy(l.entries \o fs, l.accounts)
<1> DEFINE es == l.entries
           A == l.accounts
           b == es \o fs
           x0 == fs[1].correlationId
<1>1. IsSequence(es) /\ IsFiniteSet(A) /\ Fit(ToSet(es), A) /\ Once(es) /\ IsSequence(fs)
  BY DEF Tidy, IsBook
<1>2. /\ \A i \in DOMAIN fs : fs[i].correlationId = x0
      /\ EntryIds(fs) \cap EntryIds(es) = {}
      /\ \A i, j \in DOMAIN fs : fs[i].id = fs[j].id => i = j
      /\ \A i \in DOMAIN fs : fs[i].accountId \in A
      /\ \A i \in DOMAIN fs : fs[i].decimals >= 0 /\ fs[i].scaled > 0 /\ fs[i].scaled \in Int
      /\ _assertBalanced(fs)
  BY DEF Appendable, UniqueIds, hasAccount, IsBook
<1>3. \A x, c : Balance(Group(es, x), c) = 0
  BY DEF Tidy
<1> HIDE DEF es, A, x0
<1>4. Fit(ToSet(fs), A)
  <2>1. \A e \in ToSet(fs) : \E i \in DOMAIN fs : e = fs[i]
    BY DEF ToSet
  <2> QED BY <1>2, <2>1 DEF Fit
<1>5. \A e \in ToSet(es), f \in ToSet(fs) : e.id # f.id
  <2>1. \A e \in ToSet(es) : e.id \in EntryIds(es)
    BY DEF ToSet, EntryIds
  <2>2. \A f \in ToSet(fs) : f.id \in EntryIds(fs)
    BY DEF ToSet, EntryIds
  <2> QED BY <1>2, <2>1, <2>2
<1>6. IsSequence(b) /\ ToSet(b) = ToSet(es) \cup ToSet(fs)
  BY <1>1, ConcatSet, ConcatElements
<1>7. Fit(ToSet(b), A)
  BY <1>1, <1>4, <1>5, <1>6 DEF Fit
<1>8. Once(b)
  <2>1. ToSet(es) \cap ToSet(fs) = {}
    BY <1>5
  <2>2. Once(fs)
    BY <1>2 DEF Once
  <2> QED BY <1>1, <2>1, <2>2, ConcatOnce
<1>9. ASSUME NEW x, NEW c PROVE Balance(Group(b, x), c) = 0
  <2> DEFINE g == Group(es, x)
             h == Group(fs, x)
  <2>1. Group(b, x) = g \o h
    BY <1>1, GroupConcat
  <2>2. IsBook(g)
    <3>1. IsSequence(g) /\ ToSet(g) \subseteq ToSet(es)
      BY <1>1, GroupFrom
    <3> HIDE DEF g
    <3>2. Fit(ToSet(g), A)
      BY <1>1, <3>1 DEF Fit
    <3> QED BY <3>1, <3>2, BookSet
  <2>3. Balance(g, c) = 0
    BY <1>3
  <2>4. h = fs \/ h = <<>>
    <3>1. CASE x = x0
      BY <1>1, <1>2, <3>1, GroupOfOne
    <3>2. CASE x # x0
      <4>1. x \notin CorrsOf(fs)
        BY <1>2, <3>2 DEF CorrsOf
      <4> QED BY <1>1, <4>1, GroupOfOne
    <3> QED BY <3>1, <3>2
  <2> HIDE DEF g, h
  <2>5. IsBook(h) /\ Balance(h, c) = 0
    <3>1. CASE h = fs
      BY <1>2, <3>1, BalancedAddsNothing
    <3>2. CASE h = <<>>
      BY <3>2, EmptySound DEF Sound
    <3> QED BY <2>4, <3>1, <3>2
  <2>6. Balance(g \o h, c) = 0 + 0
    BY <2>2, <2>3, <2>5, AppendAdds
  <2> QED BY <2>1, <2>6
<1> HIDE DEF b
<1>10. Tidy(b, A)
  BY <1>1, <1>6, <1>7, <1>8, <1>9 DEF Tidy
<1> QED BY <1>10 DEF b, es, A

(* All entries of one correlation id of a tidy ledger are a batch that the *)
(* rules accept, in a ledger of other entries of it.                       *)
LEMMA GroupAccepted ==
    ASSUME NEW es, NEW A, Tidy(es, A), NEW x \in CorrsOf(es),
           NEW l, l.accounts = A, IsSequence(l.entries), ToSet(l.entries) \subseteq ToSet(es),
           x \notin CorrsOf(l.entries)
    PROVE  /\ IsBook(Group(es, x)) /\ Len(Group(es, x)) # 0
           /\ \A i \in DOMAIN Group(es, x) : Group(es, x)[i].correlationId = x
           /\ Appendable(l, Group(es, x))
<1> DEFINE g == Group(es, x)
           f == l.entries
<1>1. IsSequence(es) /\ Fit(ToSet(es), A) /\ Once(es) /\ \A c : Balance(g, c) = 0
  BY DEF Tidy
<1>2. IsSequence(g) /\ ToSet(g) = {e \in ToSet(es) : e.correlationId = x} /\ Once(g)
  <2>1. IsSequence(g) /\ ToSet(g) = {e \in ToSet(es) : e.correlationId = x}
    BY <1>1, GroupFrom
  <2>2. (\A i, j \in DOMAIN es : es[i] = es[j] => i = j)
          => \A i, j \in DOMAIN g : g[i] = g[j] => i = j
    BY <1>1, GroupFrom
  <2> HIDE DEF g
  <2> QED BY <1>1, <2>1, <2>2 DEF Once
<1> HIDE DEF g, f
<1>3. Fit(ToSet(g), A) /\ Fit(ToSet(f), A)
  BY <1>1, <1>2 DEF Fit, f
<1>4. \A i \in DOMAIN g : g[i] \in ToSet(g)
  BY DEF ToSet
<1>5. \A i \in DOMAIN g : g[i].correlationId = x
  BY <1>2, <1>4
<1>6. Len(g) # 0 /\ g # <<>> /\ 1 \in DOMAIN g
  <2>1. \E e \in ToSet(es) : e.correlationId = x
    BY DEF CorrsOf, ToSet
  <2>2. DOMAIN g # {}
    BY <1>2, <2>1 DEF ToSet
  <2>3. DOMAIN g = 1..Len(g) /\ Len(g) \in Nat
    BY <1>2 DEF IsSequence
  <2>4. Len(g) # 0 /\ 1 \in DOMAIN g
    BY <2>2, <2>3
  <2> QED BY <2>4, EmptyIsSequence
<1>7. IsBook(g)
  BY <1>2, <1>3, BookSet
<1>8. _assertBalanced(g)
  BY <1>1, <1>7, ZeroIsBalanced
<1>9. UniqueIds(l, g)
  <2>1. \A i, j \in DOMAIN g : g[i].id = g[j].id => i = j
    BY <1>2, <1>3, BookSet
  <2>2. EntryIds(g) \cap EntryIds(f) = {}
    <3>1. EntryIds(g) = {e.id : e \in ToSet(g)}
      BY <1>2, <1>3, BookSet
    <3>2. EntryIds(f) = {e.id : e \in ToSet(f)} /\ CorrsOf(f) = {e.correlationId : e \in ToSet(f)}
      BY <1>3, BookSet DEF f
    <3>3. \A e \in ToSet(g), d \in ToSet(f) : e.id = d.id => e = d
      BY <1>1, <1>2 DEF Fit, f
    <3>4. \A d \in ToSet(f) : d.correlationId # x
      BY <3>2 DEF f
    <3> QED BY <1>2, <3>1, <3>2, <3>3, <3>4
  <2> QED BY <2>1, <2>2 DEF UniqueIds, f
<1>10. \A i \in DOMAIN g : g[i].accountId \in l.accounts /\ g[i].decimals >= 0 /\ g[i].scaled > 0
  BY <1>3, <1>4 DEF Fit
<1>11. Appendable(l, g)
  BY <1>5, <1>6, <1>8, <1>9, <1>10 DEF Appendable, hasAccount
<1> QED BY <1>5, <1>6, <1>7, <1>11 DEF g

(* The recursion of Rebuilt.                                               *)
Rebuilds(at, A, gs) ==
    at = [n \in 0..Len(gs) |-> IF n = 0 THEN WithAccounts(EmptyLedger, A)
                               ELSE append(at[n - 1], gs[n])]

(* Rebuilt is the chosen solution.                                         *)
LEMMA RebuiltDef ==
    ASSUME NEW A, NEW gs
    PROVE  Rebuilt(A, gs) = CHOOSE at : Rebuilds(at, A, gs)
BY DEF Rebuilt, Rebuilds

(* It has one, so the ledger is built up a group at a time.                *)
LEMMA RebuiltSteps ==
    ASSUME NEW A, NEW S, NEW gs \in Seq(Seq(S))
    PROVE  /\ Rebuilt(A, gs)[0] = WithAccounts(EmptyLedger, A)
           /\ \A n \in 1..Len(gs) : Rebuilt(A, gs)[n] = append(Rebuilt(A, gs)[n - 1], gs[n])
<1> DEFINE m == Len(gs)
           W == Seq(S)
           X == Seq(W)
           V == [accounts : {A}, entries : W, transactions : X]
           base == WithAccounts(EmptyLedger, A)
           F == [v \in V \X W |-> append(v[1], v[2])]
<1>0. m \in Nat /\ gs \in [1..m -> W]
  <2> HIDE DEF W
  <2>1. gs \in Seq(W)
    BY DEF W
  <2> QED BY <2>1
<1>1. base \in V
  <2>1. base = [accounts |-> A, entries |-> <<>>, transactions |-> <<>>]
    BY DEF WithAccounts, EmptyLedger
  <2>2. <<>> \in W /\ <<>> \in X
    OBVIOUS
  <2> HIDE DEF W, X, base
  <2> QED BY <2>1, <2>2
<1>2. ASSUME NEW v \in V, NEW w \in W PROVE append(v, w) \in V
  <2> DEFINE e == v.entries \o w
             t == Append(v.transactions, w)
  <2>1. v.entries \in W /\ v.transactions \in X /\ v.accounts = A
        /\ v = [accounts |-> v.accounts, entries |-> v.entries, transactions |-> v.transactions]
    <3> HIDE DEF W, X
    <3> QED OBVIOUS
  <2>2. e \in W
    BY <2>1
  <2>3. t \in X
    <3> HIDE DEF W
    <3> QED BY <2>1
  <2>4. append(v, w) = [v EXCEPT !.entries = e, !.transactions = t]
    BY DEF append
  <2> HIDE DEF e, t, W, X
  <2>5. append(v, w) = [accounts |-> v.accounts, entries |-> e, transactions |-> t]
    BY <2>1, <2>4
  <2> QED BY <2>1, <2>2, <2>3, <2>5
<1> HIDE DEF m, V, W, X, base
<1>3. F \in [V \X W -> V] /\ \A v \in V, w \in W : F[<<v, w>>] = append(v, w)
  BY <1>2
<1> HIDE DEF F
<1>4. PICK g \in [SUBSET (1..m) -> V] : Folds(g, SUBSET (1..m), base, gs, F)
  BY <1>0, <1>1, <1>3, FoldExists
<1> DEFINE f == [i \in 0..m |-> g[1..i]]
<1>5. ASSUME NEW i \in 0..m, i # 0 PROVE f[i] = append(f[i - 1], gs[i])
  <2>1. i \in Nat /\ i # 0 /\ 1..i # {} /\ 1..i \in SUBSET (1..m) /\ i - 1 \in 0..m
        /\ 1..(i - 1) \in SUBSET (1..m) /\ i \in 1..m
    <3>1. i \in 1..i /\ i \in Nat /\ i # 0 /\ i \in 1..m /\ i - 1 \in 0..m
      BY <1>0, <1>5
    <3>2. \A j \in 1..i : j \in 1..m
      BY <1>0
    <3>3. \A j \in 1..(i - 1) : j \in 1..m
      BY <1>0
    <3> QED BY <3>1, <3>2, <3>3
  <2>2. Max(1..i) = i /\ (1..i) \ {i} = 1..(i - 1)
    BY <2>1, MaxOfPrefix
  <2>3. g[1..i] = F[<<g[1..(i - 1)], gs[i]>>]
    BY <1>4, <2>1, <2>2 DEF Folds
  <2>4. g[1..(i - 1)] \in V /\ gs[i] \in W
    BY <1>0, <1>4, <2>1
  <2>5. f[i] = g[1..i] /\ f[i - 1] = g[1..(i - 1)]
    BY <2>1
  <2> QED BY <1>3, <2>3, <2>4, <2>5
<1>6. f[0] = base
  <2>1. g[{}] = base
    BY <1>4 DEF Folds
  <2>2. 1..0 = {} /\ 0 \in 0..m
    BY <1>0
  <2> QED BY <2>1, <2>2
<1>7. Rebuilds(f, A, gs)
  <2>1. \A i \in 0..m : f[i] = IF i = 0 THEN base ELSE append(f[i - 1], gs[i])
    BY <1>5, <1>6
  <2> QED BY <2>1 DEF Rebuilds, m, base
<1> HIDE DEF f
<1> DEFINE at == Rebuilt(A, gs)
<1>8. Rebuilds(at, A, gs)
  BY <1>7, RebuiltDef
<1> HIDE DEF at
<1>9. at = [n \in 0..m |-> IF n = 0 THEN base ELSE append(at[n - 1], gs[n])]
  BY <1>8 DEF Rebuilds, m, base
<1>10. at[0] = base
  <2>1. 0 \in 0..m
    BY <1>0
  <2> QED BY <1>9, <2>1
<1>11. ASSUME NEW n \in 1..m PROVE at[n] = append(at[n - 1], gs[n])
  <2>1. n \in 0..m /\ n # 0
    BY <1>0
  <2> QED BY <1>9, <2>1
<1> QED BY <1>10, <1>11 DEF at, base, m

(* The groups of a book.                                                   *)
LEMMA GroupsAre ==
    ASSUME NEW es, IsSequence(es)
    PROVE  /\ Groups(es) \in Seq(Seq(ToSet(es))) /\ DOMAIN Groups(es) = DOMAIN Correlations(es)
           /\ Len(Groups(es)) = Len(Correlations(es))
           /\ \A k \in DOMAIN Groups(es) : Groups(es)[k] = Group(es, Correlations(es)[k])
<1> DEFINE ks == Correlations(es)
           n == Len(ks)
           S == ToSet(es)
           W == Seq(S)
           gs == Groups(es)
<1>1. n \in Nat /\ DOMAIN ks = 1..n
  <2>1. IsSequence(ks)
    BY CorrelationsAre
  <2> HIDE DEF ks
  <2> QED BY <2>1 DEF IsSequence
<1>2. gs = [k \in 1..n |-> Group(es, ks[k])]
  BY <1>1 DEF Groups
<1>3. ASSUME NEW k \in 1..n PROVE Group(es, ks[k]) \in W
  <2> DEFINE g == Group(es, ks[k])
  <2>1. IsSequence(g) /\ ToSet(g) \subseteq S
    BY GroupFrom
  <2> HIDE DEF g, S
  <2>2. PICK T : g \in Seq(T)
    BY <2>1, SequencesTogether
  <2>3. Len(g) \in Nat /\ g \in [1..Len(g) -> T] /\ DOMAIN g = 1..Len(g)
    BY <2>2
  <2>4. \A i \in 1..Len(g) : g[i] \in S
    BY <2>1, <2>3 DEF ToSet
  <2>5. g \in [1..Len(g) -> S]
    BY <2>3, <2>4
  <2>6. g \in Seq(S)
    BY <2>3, <2>5
  <2> QED BY <2>6 DEF g
<1> HIDE DEF n, ks, W, S, gs
<1>4. gs \in [1..n -> W]
  BY <1>2, <1>3
<1>5. gs \in Seq(W) /\ Len(gs) = n
  BY <1>1, <1>4
<1>6. DOMAIN gs = 1..n /\ \A k \in 1..n : gs[k] = Group(es, ks[k])
  BY <1>2
<1> QED BY <1>1, <1>5, <1>6 DEF gs, n, ks, W, S

(* The ledger that is put together from es, after n of its groups.         *)
Stage(l, es, A, n) ==
    /\ IsLedger(l) /\ Sound(l) /\ l.accounts = A /\ Tidy(l.entries, A)
    /\ ToSet(l.entries) = {e \in ToSet(es) : \E k \in 1..n : e.correlationId = Correlations(es)[k]}
    /\ Correlations(l.entries) = SubSeq(Correlations(es), 1, n)
    /\ \A k \in 1..n : Group(l.entries, Correlations(es)[k]) = Groups(es)[k]

(* No entries are tidy.                                                    *)
LEMMA NothingTidy == ASSUME NEW A, IsFiniteSet(A) PROVE Tidy(<<>>, A)
<1> DEFINE s == <<>>
<1>1. IsSequence(s) /\ ToSet(s) = {} /\ DOMAIN s = {}
  BY EmptyIsSequence DEF ToSet
<1>2. CorrsOf(s) = {} /\ \A c : Balance(s, c) = 0
  BY CorrelationsEmpty, EmptySound DEF Sound
<1> HIDE DEF s
<1>3. ASSUME NEW x, NEW c PROVE Balance(Group(s, x), c) = 0
  <2>1. Group(s, x) = <<>>
    BY <1>1, <1>2, GroupOfOne
  <2> QED BY <1>2, <2>1 DEF s
<1>4. Fit(ToSet(s), A) /\ Once(s)
  BY <1>1 DEF Fit, Once
<1>5. Tidy(s, A)
  BY <1>1, <1>3, <1>4 DEF Tidy
<1> QED BY <1>5 DEF s

(* It begins with the accounts.                                            *)
LEMMA StageFirst ==
    ASSUME NEW es, NEW A, Tidy(es, A)
    PROVE  Stage(WithAccounts(EmptyLedger, A), es, A, 0)
<1> DEFINE l == WithAccounts(EmptyLedger, A)
<1>1. l.accounts = A /\ l.entries = <<>>
  BY DEF WithAccounts, EmptyLedger
<1>2. IsLedger(l) /\ Sound(l)
  BY EmptySound, AccountsSound DEF Tidy
<1> HIDE DEF l
<1>3. IsSequence(<<>>) /\ ToSet(<<>>) = {} /\ DOMAIN <<>> = {}
  BY EmptyIsSequence DEF ToSet
<1>4. Tidy(<<>>, A)
  BY NothingTidy DEF Tidy
<1>5. 1..0 = {}
  OBVIOUS
<1>6. SubSeq(Correlations(es), 1, 0) = <<>>
  <2> DEFINE ks == Correlations(es)
  <2>1. IsSequence(ks)
    BY CorrelationsAre DEF Tidy
  <2> HIDE DEF ks
  <2>2. Len(ks) \in Nat
    BY <2>1 DEF IsSequence
  <2>3. 0 \in 0..Len(ks)
    BY <2>2
  <2>4. IsSequence(SubSeq(ks, 1, 0)) /\ Len(SubSeq(ks, 1, 0)) = 0
    BY <2>1, <2>3, PrefixElements
  <2>5. SubSeq(ks, 1, 0) = <<>>
    BY <2>4, EmptyIsSequence, SameSequence
  <2> QED BY <2>5 DEF ks
<1>7. Correlations(<<>>) = <<>>
  BY CorrelationsEmpty
<1> QED BY <1>1, <1>2, <1>3, <1>4, <1>5, <1>6, <1>7 DEF Stage, l

(* The next group passes the rules, and brings the ledger to the next      *)
(* stage.                                                                  *)
LEMMA StageNext ==
    ASSUME NEW es, NEW A, Tidy(es, A), NEW n \in Nat, n < Len(Groups(es)),
           NEW l, Stage(l, es, A, n)
    PROVE  /\ Appendable(l, Groups(es)[n + 1])
           /\ Stage(append(l, Groups(es)[n + 1]), es, A, n + 1)
<1> DEFINE ks == Correlations(es)
           gs == Groups(es)
           g == gs[n + 1]
           x == ks[n + 1]
           f == l.entries
           m == append(l, g)
           b == f \o g
<1>0. IsSequence(es)
  BY DEF Tidy
<1>1. /\ IsSequence(ks) /\ ToSet(ks) = CorrsOf(es)
      /\ \A j, k \in DOMAIN ks : ks[j] = ks[k] => j = k
  BY <1>0, CorrelationsList
<1>2. /\ DOMAIN gs = DOMAIN ks /\ Len(gs) = Len(ks)
      /\ \A k \in DOMAIN gs : gs[k] = Group(es, ks[k])
  BY <1>0, GroupsAre
<1>3. /\ IsLedger(l) /\ Sound(l) /\ l.accounts = A /\ Tidy(f, A)
      /\ ToSet(f) = {e \in ToSet(es) : \E k \in 1..n : e.correlationId = ks[k]}
      /\ Correlations(f) = SubSeq(ks, 1, n)
      /\ \A k \in 1..n : Group(f, ks[k]) = gs[k]
  BY DEF Stage
<1>4. n < Len(gs)
  OBVIOUS
<1> HIDE DEF ks, gs
<1>5. n + 1 \in DOMAIN ks /\ n < Len(ks) /\ \A k \in 1..n : k \in DOMAIN ks /\ k # n + 1
  <2>1. DOMAIN ks = 1..Len(ks) /\ Len(ks) \in Nat
    BY <1>1 DEF IsSequence
  <2>2. n < Len(ks)
    BY <1>2, <1>4
  <2> QED BY <2>1, <2>2
<1>6. x \in CorrsOf(es)
  BY <1>1, <1>5 DEF ToSet
<1>7. \A k \in 1..n : ks[k] # x
  BY <1>1, <1>5
<1>8. g = Group(es, x)
  BY <1>2, <1>5
<1>9. IsSequence(f) /\ Fit(ToSet(f), A) /\ ToSet(f) \subseteq ToSet(es)
  BY <1>3 DEF Tidy
<1>10. x \notin CorrsOf(f)
  <2>1. CorrsOf(f) = {e.correlationId : e \in ToSet(f)}
    BY <1>9, BookSet
  <2> QED BY <1>3, <1>7, <2>1
<1>11. /\ IsBook(g) /\ Len(g) # 0
       /\ \A i \in DOMAIN g : g[i].correlationId = x
       /\ Appendable(l, g)
  <2> HIDE DEF g, x
  <2> QED BY <1>3, <1>6, <1>8, <1>9, <1>10, GroupAccepted DEF f
<1>12. IsLedger(m) /\ Sound(m) /\ m.entries = b /\ m.accounts = A
  <2>1. IsLedger(m) /\ Sound(m) /\ m.entries = b
    <3> HIDE DEF g
    <3> QED BY <1>3, <1>11, AppendSound
  <2>2. PICK a, e, t : l = [accounts |-> a, entries |-> e, transactions |-> t]
    BY <1>3 DEF IsLedger
  <2>3. m.accounts = l.accounts
    BY <2>2 DEF append
  <2> QED BY <1>3, <2>1, <2>3
<1>13. Tidy(b, A)
  <2>1. Tidy(l.entries \o g, l.accounts)
    <3> HIDE DEF g
    <3> QED BY <1>3, <1>11, AppendTidy
  <2> QED BY <1>3, <2>1
<1>14. IsSequence(g) /\ ToSet(g) = {e \in ToSet(es) : e.correlationId = x}
  BY <1>0, <1>8, GroupFrom
<1> HIDE DEF g, m
<1>15. n + 1 \in 1..(n + 1) /\ (\A k \in 1..(n + 1) : k \in 1..n \/ k = n + 1)
       /\ \A k \in 1..n : k \in 1..(n + 1)
  OBVIOUS
<1>16. ToSet(b) = {e \in ToSet(es) : \E k \in 1..(n + 1) : e.correlationId = ks[k]}
  <2>1. ToSet(b) = ToSet(f) \cup ToSet(g)
    BY <1>9, <1>14, ConcatSet
  <2> QED BY <1>3, <1>14, <1>15, <2>1
<1>17. Correlations(b) = SubSeq(ks, 1, n + 1)
  <2> HIDE DEF x
  <2>1. Correlations(b) = Append(Correlations(f), x)
    BY <1>9, <1>10, <1>11, <1>14, CorrelationsBlock
  <2>2. SubSeq(ks, 1, n + 1) = Append(SubSeq(ks, 1, n), ks[n + 1])
    BY <1>1, <1>5, PrefixGrows
  <2> QED BY <1>3, <2>1, <2>2 DEF x
<1>18. ASSUME NEW k \in 1..(n + 1) PROVE Group(b, ks[k]) = gs[k]
  <2>1. Group(b, ks[k]) = Group(f, ks[k]) \o Group(g, ks[k])
    BY <1>9, <1>14, GroupConcat
  <2>2. CASE k = n + 1
    <3>1. Group(f, x) = <<>>
      BY <1>9, <1>10, GroupOfOne
    <3>2. Group(g, x) = g
      BY <1>11, <1>14, GroupOfOne
    <3>3. <<>> \o g = g
      <4>1. PICK S : g \in Seq(S)
        BY <1>14, SequencesTogether
      <4> QED BY <4>1
    <3> QED BY <2>1, <2>2, <3>1, <3>2, <3>3 DEF g
  <2>3. CASE k \in 1..n
    <3>1. Group(f, ks[k]) = gs[k]
      BY <1>3, <2>3
    <3>2. ks[k] \notin CorrsOf(g)
      BY <1>7, <1>11, <2>3 DEF CorrsOf
    <3>3. Group(g, ks[k]) = <<>>
      BY <1>14, <3>2, GroupOfOne
    <3>4. gs[k] \o <<>> = gs[k]
      <4>1. IsSequence(Group(f, ks[k]))
        BY <1>9, GroupFrom
      <4>2. PICK S : gs[k] \in Seq(S)
        BY <3>1, <4>1, SequencesTogether
      <4> QED BY <4>2
    <3> QED BY <2>1, <3>1, <3>3, <3>4
  <2> QED BY <1>15, <2>2, <2>3
<1> HIDE DEF b
<1>19. Stage(m, es, A, n + 1)
  BY <1>12, <1>13, <1>16, <1>17, <1>18 DEF Stage, ks, gs
<1> QED BY <1>11, <1>19 DEF m, g, gs

(* So every group is accepted, and the last stage is reached.              *)
LEMMA Rebuilding ==
    ASSUME NEW es, NEW A, Tidy(es, A)
    PROVE  \A n \in 0..Len(Groups(es)) : Stage(Rebuilt(A, Groups(es))[n], es, A, n)
<1> DEFINE gs == Groups(es)
           at == Rebuilt(A, gs)
           G(n) == Stage(at[n], es, A, n)
           P == {n \in Nat : n <= Len(gs) => G(n)}
<1>0. gs \in Seq(Seq(ToSet(es)))
  BY GroupsAre DEF Tidy
<1>1. Len(gs) \in Nat
  <2> HIDE DEF gs
  <2> DEFINE W == Seq(ToSet(es))
  <2>1. gs \in Seq(W)
    BY <1>0
  <2> HIDE DEF W
  <2> QED BY <2>1
<1>2. /\ at[0] = WithAccounts(EmptyLedger, A)
      /\ \A n \in 1..Len(gs) : at[n] = append(at[n - 1], gs[n])
  <2> HIDE DEF gs
  <2> QED BY <1>0, RebuiltSteps
<1> HIDE DEF at
<1>3. ASSUME NEW k \in Nat, \A j \in Nat : j < k => j \in P PROVE k \in P
  <2> SUFFICES ASSUME k <= Len(gs) PROVE G(k)
    OBVIOUS
  <2>1. CASE k = 0
    BY <1>2, <2>1, StageFirst
  <2>2. CASE k # 0
    <3>1. PICK j \in Nat : k = j + 1
      <4>1. k - 1 \in Nat /\ k = (k - 1) + 1
        BY <2>2
      <4> QED BY <4>1
    <3> HIDE DEF G
    <3>2. j < k /\ j < Len(gs) /\ j <= Len(gs) /\ k \in 1..Len(gs) /\ k - 1 = j
      BY <1>1, <3>1
    <3>3. G(j)
      BY <1>3, <3>2
    <3>4. at[k] = append(at[j], gs[j + 1])
      BY <1>2, <3>1, <3>2
    <3>5. Stage(append(at[j], gs[j + 1]), es, A, j + 1)
      BY <3>2, <3>3, StageNext DEF G
    <3> QED BY <3>1, <3>4, <3>5 DEF G
  <2> QED BY <2>1, <2>2
<1> HIDE DEF G
<1>4. P = Nat
  <2> HIDE DEF P
  <2>1. P \in SUBSET Nat
    BY DEF P
  <2> QED BY <1>3, <2>1, NoLeastExceptionIsNone
<1> HIDE DEF gs
<1>5. \A n \in 0..Len(gs) : G(n)
  BY <1>1, <1>4
<1> QED BY <1>5 DEF G, at, gs

(* The restored ledger has the same entries and accounts, and a snapshot   *)
(* of it restores to itself.                                               *)
LEMMA RestoreRebuilds ==
    ASSUME NEW es, NEW A, Tidy(es, A), NEW s, s = [accounts |-> A, entries |-> es]
    PROVE  LET r == fromSnapshot(s)
           IN  /\ Restorable(s)
               /\ IsLedger(r) /\ Sound(r) /\ Tidy(r.entries, r.accounts)
               /\ ToSet(r.entries) = ToSet(es) /\ Len(r.entries) = Len(es) /\ r.accounts = A
               /\ fromSnapshot(snapshotOf(r)) = r
<1> DEFINE gs == Groups(es)
           ks == Correlations(es)
           at == Rebuilt(A, gs)
           N == Len(gs)
           r == fromSnapshot(s)
           fs == r.entries
<1>0. s.accounts = A /\ s.entries = es /\ IsSequence(es) /\ Fit(ToSet(es), A) /\ Once(es)
  BY DEF Tidy
<1>1. /\ IsSequence(ks) /\ ToSet(ks) = CorrsOf(es)
  BY <1>0, CorrelationsList
<1>2. /\ DOMAIN gs = DOMAIN ks /\ N = Len(ks)
      /\ \A k \in DOMAIN gs : gs[k] = Group(es, ks[k])
  BY <1>0, GroupsAre
<1>3. N \in Nat /\ DOMAIN ks = 1..N
  <2> HIDE DEF ks, N
  <2> QED BY <1>1, <1>2 DEF IsSequence
<1>4. \A n \in 0..N : Stage(at[n], es, A, n)
  BY Rebuilding
<1>5. r = at[N]
  BY <1>0 DEF fromSnapshot
<1>6. Restorable(s)
  <2>1. ASSUME NEW n \in DOMAIN gs PROVE Appendable(at[n - 1], gs[n])
    <3>1. PICK j \in Nat : n = j + 1 /\ j < N /\ j \in 0..N /\ n - 1 = j
      <4>1. n \in 1..N
        BY <1>2, <1>3
      <4> HIDE DEF N
      <4>2. n - 1 \in Nat /\ n = (n - 1) + 1 /\ n - 1 < N /\ n - 1 \in 0..N
        BY <1>3, <4>1
      <4> QED BY <4>2
    <3>2. Stage(at[j], es, A, j)
      BY <1>4, <3>1
    <3>3. Appendable(at[j], gs[j + 1])
      <4> HIDE DEF at
      <4> QED BY <3>1, <3>2, StageNext
    <3> HIDE DEF gs, at
    <3> QED BY <3>1, <3>3
  <2> QED BY <1>0, <2>1 DEF Restorable
<1>7. Stage(r, es, A, N)
  <2>1. N \in 0..N
    <3> HIDE DEF N
    <3> QED BY <1>3
  <2> HIDE DEF r, at, N
  <2> QED BY <1>4, <1>5, <2>1
<1>8. /\ IsLedger(r) /\ Sound(r) /\ r.accounts = A /\ Tidy(fs, A)
      /\ ToSet(fs) = {e \in ToSet(es) : \E k \in 1..N : e.correlationId = ks[k]}
      /\ Correlations(fs) = SubSeq(ks, 1, N)
      /\ \A k \in 1..N : Group(fs, ks[k]) = gs[k]
  <2> HIDE DEF r, N
  <2> QED BY <1>7 DEF Stage
<1> HIDE DEF r
<1>9. ToSet(fs) = ToSet(es)
  <2>1. \A e \in ToSet(es) : e.correlationId \in CorrsOf(es)
    BY DEF ToSet, CorrsOf
  <2>2. \A c \in CorrsOf(es) : \E k \in 1..N : c = ks[k]
    <3> HIDE DEF ks, N
    <3> QED BY <1>1, <1>3 DEF ToSet
  <2> QED BY <1>8, <2>1, <2>2
<1>10. Len(fs) = Len(es)
  <2>1. Cardinality(ToSet(es)) = Len(es)
    BY <1>0, OnceLength DEF Once
  <2>2. IsSequence(fs) /\ Once(fs)
    BY <1>8 DEF Tidy
  <2>3. Cardinality(ToSet(fs)) = Len(fs)
    <3> HIDE DEF fs
    <3> QED BY <2>2, OnceLength DEF Once
  <2> QED BY <1>9, <2>1, <2>3
<1>11. Groups(fs) = gs
  <2> HIDE DEF fs, ks, gs, N
  <2>1. Correlations(fs) = ks
    BY <1>1, <1>2, <1>8, WholePrefix
  <2>2. Groups(fs) = [k \in DOMAIN ks |-> Group(fs, ks[k])]
    BY <2>1 DEF Groups
  <2>3. gs = [k \in DOMAIN ks |-> Group(es, ks[k])]
    BY DEF Groups, gs, ks
  <2>4. \A k \in DOMAIN ks : Group(fs, ks[k]) = Group(es, ks[k])
    BY <1>2, <1>3, <1>8
  <2> QED BY <2>2, <2>3, <2>4
<1>12. fromSnapshot(snapshotOf(r)) = r
  <2>1. snapshotOf(r).accounts = A /\ snapshotOf(r).entries = fs
    BY <1>8 DEF snapshotOf
  <2>2. fromSnapshot(snapshotOf(r)) = at[N]
    BY <1>11, <2>1 DEF fromSnapshot
  <2> QED BY <1>5, <2>2
<1> QED BY <1>6, <1>8, <1>9, <1>10, <1>12 DEF r

(* The ledger, and what is saved of it, stay tidy.                         *)
BookInv ==
    /\ IsLedger(book) /\ Sound(book) /\ Tidy(book.entries, book.accounts)
    /\ \E es, A : bookSaved = [accounts |-> A, entries |-> es] /\ Tidy(es, A)

(* A tidy ledger has the properties.                                       *)
LEMMA BookInvBalances == BookInv => BooksBalance
<1> SUFFICES ASSUME BookInv PROVE BooksBalance
  OBVIOUS
<1>1. IsLedger(book) /\ Sound(book) /\ Tidy(book.entries, book.accounts)
  BY DEF BookInv
<1>2. OneCurrencyPerKey(book.entries) => TrialBalanced(book)
  BY <1>1, SoundIsBalanced
<1>3. SnapshotRestores
  <2> DEFINE s == snapshotOf(book)
             r == fromSnapshot(s)
  <2>1. s = [accounts |-> book.accounts, entries |-> book.entries]
    BY DEF snapshotOf
  <2> HIDE DEF s
  <2>2. /\ Restorable(s)
        /\ ToSet(r.entries) = ToSet(book.entries) /\ Len(r.entries) = Len(book.entries)
        /\ r.accounts = book.accounts
        /\ fromSnapshot(snapshotOf(r)) = r
    BY <1>1, <2>1, RestoreRebuilds
  <2> QED BY <2>2 DEF SnapshotRestores, s
<1> QED BY <1>2, <1>3 DEF BooksBalance

(* An empty ledger is tidy.                                                *)
LEMMA BookInitial == BookInit => BookInv
<1> SUFFICES ASSUME BookInit PROVE BookInv
  OBVIOUS
<1>1. IsLedger(EmptyLedger) /\ Sound(EmptyLedger) /\ EmptyLedger.entries = <<>>
  BY EmptySound
<1>2. EmptyLedger.accounts = {} /\ IsFiniteSet({})
  BY FS_EmptySet DEF EmptyLedger
<1>3. Tidy(<<>>, {})
  BY <1>2, NothingTidy
<1>4. snapshotOf(EmptyLedger) = [accounts |-> {}, entries |-> <<>>]
  BY <1>1, <1>2 DEF snapshotOf
<1>5. book = EmptyLedger /\ bookSaved = [accounts |-> {}, entries |-> <<>>]
  BY <1>4 DEF BookInit
<1> QED BY <1>1, <1>2, <1>3, <1>5 DEF BookInv

(* Every step of the callers keeps it.                                     *)
LEMMA BookStep == BookInv /\ [BookNext]_bookVars => BookInv'
<1> SUFFICES ASSUME BookInv, [BookNext]_bookVars PROVE BookInv'
  OBVIOUS
<1>1. IsLedger(book) /\ Sound(book) /\ Tidy(book.entries, book.accounts)
  BY DEF BookInv
<1>2. PICK es, A : bookSaved = [accounts |-> A, entries |-> es] /\ Tidy(es, A)
  BY DEF BookInv
<1>3. ASSUME NEW l, IsLedger(l), Sound(l), Tidy(l.entries, l.accounts),
             book' = l, bookSaved' = bookSaved
      PROVE  BookInv'
  BY <1>2, <1>3 DEF BookInv
<1>4. ASSUME NEW a \in Account, Register(a) PROVE BookInv'
  <2> DEFINE l == registerAccount(book, a)
             W == WithAccounts(book, {a})
  <2>1. PICK c, e, t : book = [accounts |-> c, entries |-> e, transactions |-> t]
    BY <1>1 DEF IsLedger
  <2>2. l = W /\ l.accounts = book.accounts \cup {a} /\ l.entries = book.entries
    BY <2>1 DEF registerAccount, WithAccounts
  <2>3. IsFiniteSet({a})
    BY FS_Singleton
  <2>4. IsLedger(W) /\ Sound(W)
    BY <1>1, <2>3, AccountsSound
  <2>5. Tidy(book.entries, book.accounts \cup {a})
    BY <1>1, FS_AddElement DEF Tidy, Fit
  <2>6. book' = l /\ bookSaved' = bookSaved
    BY <1>4 DEF Register
  <2> HIDE DEF l, W
  <2>7. IsLedger(l) /\ Sound(l) /\ Tidy(l.entries, l.accounts)
    BY <2>2, <2>4, <2>5
  <2> QED BY <1>3, <2>6, <2>7
<1>5. ASSUME NEW fs \in Batches, AppendBatch(fs) PROVE BookInv'
  <2> DEFINE l == append(book, fs)
  <2>1. Appendable(book, fs) /\ book' = l /\ bookSaved' = bookSaved
    BY <1>5 DEF AppendBatch
  <2>2. IsBook(fs)
    <3>1. fs \in Seq(ToSet(fs)) /\ \A i \in DOMAIN fs : fs[i].scaled \in Int
      BY BatchesAssumption DEF ToSet
    <3> QED BY <3>1, SequenceIntro DEF IsBook
  <2>3. IsLedger(l) /\ Sound(l) /\ l.entries = book.entries \o fs
    BY <1>1, <2>1, <2>2, AppendSound
  <2>4. l.accounts = book.accounts
    <3>1. PICK c, e, t : book = [accounts |-> c, entries |-> e, transactions |-> t]
      BY <1>1 DEF IsLedger
    <3> QED BY <3>1 DEF append
  <2>5. Tidy(book.entries \o fs, book.accounts)
    BY <1>1, <2>1, <2>2, AppendTidy
  <2> HIDE DEF l
  <2>6. Tidy(l.entries, l.accounts)
    BY <2>3, <2>4, <2>5
  <2> QED BY <1>3, <2>1, <2>3, <2>6
<1>6. CASE Save
  <2>1. book' = book /\ bookSaved' = [accounts |-> book.accounts, entries |-> book.entries]
    BY <1>6 DEF Save, snapshotOf
  <2> QED BY <1>1, <2>1 DEF BookInv
<1>7. CASE Restore
  <2> DEFINE r == fromSnapshot(bookSaved)
  <2>1. book' = r /\ bookSaved' = bookSaved
    BY <1>7 DEF Restore
  <2>2. IsLedger(r) /\ Sound(r) /\ Tidy(r.entries, r.accounts)
    BY <1>2, RestoreRebuilds
  <2> HIDE DEF r
  <2> QED BY <1>3, <2>1, <2>2
<1>8. CASE UNCHANGED bookVars
  <2>1. book' = book /\ bookSaved' = bookSaved
    BY <1>8 DEF bookVars
  <2> QED BY <1>1, <1>3, <2>1
<1> QED BY <1>4, <1>5, <1>6, <1>7, <1>8 DEF BookNext

(* Unless two currencies share a balance key, getTrialBalance never throws,*)
(* and fromSnapshot restores what a snapshot holds (ledger.ts), for any    *)
(* accounts and batches and any interleaving of registering, appending,    *)
(* saving and restoring.                                                   *)
THEOREM BalanceCorrect == MCSpec => []BooksBalance
<1>1. MCInit => BookInv
  BY BookInitial DEF MCInit
<1>2. BookInv /\ [MCNext]_allVars => BookInv'
  <2>1. [MCNext]_allVars => [BookNext]_bookVars
    BY DEF MCNext, VaultStep, TreasuryStep, RouteStep, LedgerStep, allVars
  <2> QED BY <2>1, BookStep
<1> QED BY <1>1, <1>2, BookInvBalances, PTL DEF MCSpec

==============================================================================
