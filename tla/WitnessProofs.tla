---------------------------- MODULE WitnessProofs ----------------------------
(***************************************************************************)
(* Proofs about WitnessSubmitter, for any number of concurrent submits,    *)
(* attempts and ledgers.                                                   *)
(*                                                                         *)
(* AtMostOnce holds because the transaction is signed once: Inv says that  *)
(* whatever the network or the ledger holds for a call is the transaction  *)
(* in the call's hands, and that validated transactions used up Sequences  *)
(* below the account's, no two the same.                                   *)
(***************************************************************************)
EXTENDS WitnessSubmitter, FiniteSetTheorems, TLAPS

(* The transaction of a call: absent until autofill, fixed afterwards.     *)
Signed ==
    \A s \in Submit : /\ wpc[s] = "new" => tx[s] = NoTx
                      /\ wpc[s] \in Retrying \cup {"ok"} =>
                            /\ tx[s] \in Tx /\ tx[s].seq >= 1
                            /\ tx[s].call = s

(* Network and ledger hold nothing but the calls' transactions.            *)
OnlySigned ==
    \A t \in sent \cup validated : t.seq >= 1 /\ t = tx[t.call]

SequencesUsedUp ==
    /\ accountSeq >= 1
    /\ \A t \in validated : t.seq < accountSeq
    /\ \A t, u \in validated : t.seq = u.seq => t = u

Inv == TypeOK /\ IsFiniteSet(sent) /\ Signed /\ OnlySigned /\ SequencesUsedUp
       /\ OkImpliesValidated

(* The invariant holds before the first attempt.                           *)
LEMMA InitInv == SubmitInit => Inv
<1> SUFFICES ASSUME SubmitInit PROVE Inv
  OBVIOUS
<1>1. TypeOK
  BY AttemptsArePositive DEF SubmitInit, TypeOK
<1>2. IsFiniteSet(sent)
  BY FS_EmptySet DEF SubmitInit
<1>3. Signed /\ OnlySigned /\ SequencesUsedUp /\ OkImpliesValidated
  BY DEF SubmitInit, Signed, OnlySigned, SequencesUsedUp, OkImpliesValidated, Retrying
<1> QED BY <1>1, <1>2, <1>3 DEF Inv

(* A prepared attempt draws a Sequence the account has not used.           *)
LEMMA AutofillInv == ASSUME Inv, NEW s \in Submit, autofill(s) PROVE Inv'
<1>1. PICK seq \in Sequences : tx' = [tx EXCEPT ![s] = Sign(s, seq)]
  BY DEF autofill
<1>2. seq \in Nat /\ seq >= 1
  <2>1. Cardinality(sent) \in Nat
    BY FS_CardinalityType DEF Inv
  <2> QED BY <1>1, <2>1 DEF Sequences, Inv, TypeOK, SequencesUsedUp
<1>3. /\ wpc[s] = "new" /\ wpc' = [wpc EXCEPT ![s] = "check"]
      /\ wattempt' = [wattempt EXCEPT ![s] = 1]
      /\ UNCHANGED <<sent, validated, accountSeq, ledgerIndex>>
  BY DEF autofill, Goto, ledgerVars
<1>4. Sign(s, seq) \in Tx /\ Sign(s, seq).seq >= 1 /\ Sign(s, seq).call = s
  BY <1>2, WindowIsNatural DEF Sign, Tx, Inv, TypeOK
<1>5. TypeOK'
  BY <1>1, <1>3, <1>4, AttemptsArePositive DEF Inv, TypeOK, Retrying
<1>6. Signed'
  BY <1>1, <1>3, <1>4 DEF Inv, TypeOK, Signed, Retrying
<1>7. OnlySigned'
  <2> SUFFICES ASSUME NEW t \in sent \cup validated PROVE t.seq >= 1 /\ t = tx'[t.call]
    BY <1>3 DEF OnlySigned
  <2>1. t \in Tx /\ t.seq >= 1 /\ t = tx[t.call] /\ t.call \in Submit
    BY DEF Inv, TypeOK, OnlySigned, Tx
  <2>2. t.call # s
    BY <2>1, <1>3 DEF Inv, Signed, NoTx
  <2> QED BY <2>1, <2>2, <1>1 DEF Inv, TypeOK
<1>8. SequencesUsedUp' /\ IsFiniteSet(sent')
  BY <1>3 DEF Inv, SequencesUsedUp
<1>9. OkImpliesValidated'
  BY <1>1, <1>3 DEF Inv, TypeOK, OkImpliesValidated
<1> QED BY <1>5, <1>6, <1>7, <1>8, <1>9 DEF Inv

(* A submission reaches the network or is lost.                            *)
LEMMA SendInv == ASSUME Inv, NEW s \in Submit, submitAndWait(s) PROVE Inv'
<1>1. /\ wpc[s] = "send" /\ wpc' = [wpc EXCEPT ![s] = "wait"]
      /\ UNCHANGED <<tx, wattempt, validated, accountSeq, ledgerIndex>>
      /\ sent' = sent \/ sent' = sent \cup {tx[s]}
  BY DEF submitAndWait, Goto, ledgerVars
<1>2. tx[s] \in Tx /\ tx[s].seq >= 1 /\ tx[s].call = s
  BY <1>1 DEF Inv, Signed, Retrying
<1>3. IsFiniteSet(sent')
  BY <1>1, FS_AddElement DEF Inv
<1>4. TypeOK'
  BY <1>1, <1>2 DEF Inv, TypeOK, Retrying
<1>5. OnlySigned'
  BY <1>1, <1>2 DEF Inv, OnlySigned
<1>6. Signed' /\ SequencesUsedUp' /\ OkImpliesValidated'
  BY <1>1 DEF Inv, TypeOK, Signed, SequencesUsedUp, OkImpliesValidated, Retrying
<1> QED BY <1>3, <1>4, <1>5, <1>6 DEF Inv
(* A step that leaves transactions, network and ledger alone and moves no  *)
(* call to "ok" without its transaction.                                   *)
LEMMA LocalInv ==
    ASSUME Inv, NEW s \in Submit,
           NEW l \in {"check", "send", "ok", "failed", "exhausted"},
           wpc[s] = "new" => l = "failed",
           l \in Retrying \cup {"ok"} => wpc[s] \in Retrying,
           l = "ok" => tx[s] \in validated,
           wpc' = [wpc EXCEPT ![s] = l], wattempt' \in [Submit -> 0..maxAttempts],
           UNCHANGED <<tx, sent, validated, accountSeq, ledgerIndex>>
    PROVE  Inv'
<1>1. TypeOK'
  BY DEF Inv, TypeOK, Retrying
<1>2. Signed' /\ OkImpliesValidated'
  BY DEF Inv, TypeOK, Signed, OkImpliesValidated, Retrying
<1>3. OnlySigned' /\ SequencesUsedUp' /\ IsFiniteSet(sent')
  BY DEF Inv, OnlySigned, SequencesUsedUp
<1> QED BY <1>1, <1>2, <1>3 DEF Inv

(* The ledger takes one transaction per Sequence.                          *)
LEMMA IncludeInv == ASSUME Inv, NEW t \in sent, Include(t) PROVE Inv'
<1>1. /\ t.seq = accountSeq /\ validated' = validated \cup {t} /\ sent' = sent \ {t}
      /\ accountSeq' = accountSeq + 1 /\ UNCHANGED <<wpc, tx, wattempt, ledgerIndex>>
  BY DEF Include
<1>2. t \in Tx /\ accountSeq \in Nat /\ validated \subseteq Tx
  BY DEF Inv, TypeOK
<1>3. TypeOK'
  BY <1>1, <1>2 DEF Inv, TypeOK
<1>4. IsFiniteSet(sent')
  BY <1>1, FS_RemoveElement DEF Inv
<1>5. SequencesUsedUp'
  BY <1>1, <1>2 DEF Inv, SequencesUsedUp, Tx
<1>6. OnlySigned' /\ Signed' /\ OkImpliesValidated'
  BY <1>1 DEF Inv, OnlySigned, Signed, OkImpliesValidated
<1> QED BY <1>3, <1>4, <1>5, <1>6 DEF Inv

(* The invariant is inductive.                                             *)
LEMMA NextInv == Inv /\ [SubmitNext]_submitVars => Inv'
<1> SUFFICES ASSUME Inv, [SubmitNext]_submitVars PROVE Inv'
  OBVIOUS
<1> USE DEF Goto, ledgerVars
<1>1. ASSUME NEW s \in Submit, autofill(s) PROVE Inv'
  BY <1>1, AutofillInv
<1>2. ASSUME NEW s \in Submit, checkExistingTx(s) PROVE Inv'
  BY <1>2, LocalInv DEF checkExistingTx, Inv, TypeOK, Retrying
<1>3. ASSUME NEW s \in Submit, submitAndWait(s) PROVE Inv'
  BY <1>3, SendInv
<1>4. ASSUME NEW s \in Submit, Confirmed(s) PROVE Inv'
  BY <1>4, LocalInv DEF Confirmed, Inv, TypeOK, Retrying
<1>5. ASSUME NEW s \in Submit, AttemptFails(s) PROVE Inv'
  <2>1. wattempt' \in [Submit -> 0..maxAttempts]
    BY <1>5, AttemptsArePositive DEF AttemptFails, withRetry, Inv, TypeOK
  <2> QED BY <1>5, <2>1, LocalInv DEF AttemptFails, withRetry, Retrying
<1>6. ASSUME NEW s \in Submit, AutofillFails(s) PROVE Inv'
  BY <1>6, LocalInv DEF AutofillFails, Inv, TypeOK, Retrying
<1>7. ASSUME NEW s \in Submit, PermanentError(s) PROVE Inv'
  BY <1>7, LocalInv DEF PermanentError, Inv, TypeOK, Retrying
<1>8. ASSUME NEW t \in sent, Include(t) PROVE Inv'
  BY <1>8, IncludeInv
<1>9. ASSUME NEW t \in sent, LoseBlob(t) PROVE Inv'
  <2>1. sent' = sent \ {t} /\ UNCHANGED <<wpc, tx, wattempt, validated, accountSeq, ledgerIndex>>
    BY <1>9 DEF LoseBlob
  <2>2. IsFiniteSet(sent')
    BY <2>1, FS_RemoveElement DEF Inv
  <2> QED BY <2>1, <2>2 DEF Inv, TypeOK, Signed, OnlySigned, SequencesUsedUp,
                            OkImpliesValidated
<1>10. CASE CloseLedger
  BY <1>10 DEF CloseLedger, Inv, TypeOK, Signed, OnlySigned, SequencesUsedUp,
               OkImpliesValidated
<1>11. CASE UNCHANGED submitVars
  BY <1>11 DEF submitVars, Inv, TypeOK, Signed, OnlySigned, SequencesUsedUp, OkImpliesValidated
<1> QED BY <1>1, <1>2, <1>3, <1>4, <1>5, <1>6, <1>7, <1>8, <1>9, <1>10, <1>11
        DEF SubmitNext, Step

(* The invariant holds in every behaviour.                                 *)
LEMMA Invariance == SubmitSpec => []Inv
  BY InitInv, NextInv, PTL DEF SubmitSpec

-----------------------------------------------------------------------------
(* Types, and with them: no call makes more than maxAttempts attempts.     *)
THEOREM TypeCorrect == SubmitSpec => []TypeOK
<1>1. Inv => TypeOK
  BY DEF Inv
<1> QED BY <1>1, Invariance, PTL

(* One submit() puts at most one transaction on the ledger, for any number *)
(* of retries, lost answers and concurrent submits.                        *)
THEOREM OnceCorrect == SubmitSpec => []AtMostOnce
<1>1. Inv => AtMostOnce
  BY DEF Inv, OnlySigned, AtMostOnce
<1> QED BY <1>1, Invariance, PTL

(* No record is returned for a transaction that is not validated.          *)
THEOREM OkCorrect == SubmitSpec => []OkImpliesValidated
<1>1. Inv => OkImpliesValidated
  BY DEF Inv
<1> QED BY <1>1, Invariance, PTL

(* Concurrent submits that were given the same Sequence never both return  *)
(* a record.                                                               *)
THEOREM SequenceCorrect == SubmitSpec => []OneOkPerSequence
<1>1. Inv => OneOkPerSequence
  <2> SUFFICES ASSUME Inv, NEW s \in Submit, NEW t \in Submit, wpc[s] = "ok", wpc[t] = "ok",
                      tx[s].seq = tx[t].seq
               PROVE  s = t
    BY DEF OneOkPerSequence
  <2>1. tx[s] = tx[t]
    BY DEF Inv, OkImpliesValidated, SequencesUsedUp
  <2>2. tx[s].call = s /\ tx[t].call = t
    BY DEF Inv, Signed
  <2> QED BY <2>1, <2>2
<1> QED BY <1>1, Invariance, PTL
==============================================================================
