--------------------------- MODULE WitnessSubmitter ---------------------------
(***************************************************************************)
(* Putting an attestation on the XRP Ledger                                *)
(* (packages/witness/src/{submitter,retry}.ts).                            *)
(*                                                                         *)
(* submit() autofills and signs a transaction once, which fixes its        *)
(* Sequence, its LastLedgerSequence and so its hash, and then retries: an  *)
(* attempt looks the hash up and otherwise submits the same blob and waits *)
(* with a deadline.  Several submits of one account run concurrently.  The *)
(* network (external) may lose or delay a blob, may include it after the   *)
(* submitter gave up, and applies a transaction only when its Sequence is  *)
(* the account's next one and its LastLedgerSequence has not passed.       *)
(***************************************************************************)
EXTENDS Integers, FiniteSets

CONSTANTS Submit,       \* submit() calls
          maxAttempts,  \* retryConfig.maxAttempts
          Window,       \* ledgers until an autofilled transaction expires
          MaxLedger     \* bound: ledgers closed

ASSUME AttemptsArePositive == maxAttempts \in Nat \ {0}
ASSUME WindowIsNatural == Window \in Nat

VARIABLES
    wpc,          \* wpc[s]: where the call is
    tx,           \* tx[s]: the signed transaction, NoTx before autofill
    wattempt,     \* wattempt[s]: number of the attempt, from 1
    sent,         \* transactions the network holds
    validated,    \* transactions in validated ledgers
    accountSeq,   \* the account's next Sequence
    ledgerIndex   \* the open ledger

submitVars == <<wpc, tx, wattempt, sent, validated, accountSeq, ledgerIndex>>
ledgerVars == <<validated, accountSeq, ledgerIndex>>

NoTx == [call |-> "none", seq |-> 0, last |-> 0]
Retrying == {"check", "send", "wait"}

SubmitInit ==
    /\ wpc = [s \in Submit |-> "new"]
    /\ tx = [s \in Submit |-> NoTx]
    /\ wattempt = [s \in Submit |-> 0]
    /\ sent = {} /\ validated = {}
    /\ accountSeq = 1 /\ ledgerIndex = 1

Goto(s, l) == wpc' = [wpc EXCEPT ![s] = l]

-----------------------------------------------------------------------------
(* submit()                                                                *)

(* The node answers with the account's Sequence, counting some or all of   *)
(* the transactions it holds already.                                      *)
Sequences == accountSeq..(accountSeq + Cardinality(sent))

Sign(s, seq) == [call |-> s, seq |-> seq, last |-> ledgerIndex + Window]

autofill(s) ==
    /\ wpc[s] = "new"
    /\ \E seq \in Sequences : tx' = [tx EXCEPT ![s] = Sign(s, seq)]
    /\ wattempt' = [wattempt EXCEPT ![s] = 1]
    /\ Goto(s, "check")
    /\ UNCHANGED <<sent, ledgerVars>>

(* autofill is outside the retry loop: its error ends the call.            *)
AutofillFails(s) ==
    /\ wpc[s] = "new"
    /\ Goto(s, "failed")
    /\ UNCHANGED <<tx, wattempt, sent, ledgerVars>>

(* A transaction the node knows is taken for a confirmed one.              *)
checkExistingTx_Known(s) ==
    /\ wpc[s] = "check"
    /\ \/ tx[s] \in validated \cup sent /\ Goto(s, "ok")
       \/ Goto(s, "send")
    /\ UNCHANGED <<tx, wattempt, sent, ledgerVars>>

(* _checkExistingTx: only a validated transaction counts; an error of the  *)
(* lookup is read as "not found".                                          *)
checkExistingTx(s) ==
    /\ wpc[s] = "check"
    /\ \/ tx[s] \in validated /\ Goto(s, "ok")
       \/ Goto(s, "send")
    /\ UNCHANGED <<tx, wattempt, sent, ledgerVars>>

(* Every attempt autofills and signs anew.                                 *)
submitAndWait_Resigns(s) ==
    /\ wpc[s] = "send"
    /\ \E seq \in Sequences : tx' = [tx EXCEPT ![s] = Sign(s, seq)]
    /\ sent' \in {sent, sent \cup {tx'[s]}}
    /\ Goto(s, "wait")
    /\ UNCHANGED <<wattempt, ledgerVars>>

(* submitAndWait sends the blob, which may not arrive, and polls.          *)
submitAndWait(s) ==
    /\ wpc[s] = "send"
    /\ sent' \in IF tx[s] \in validated THEN {sent} ELSE {sent, sent \cup {tx[s]}}
    /\ Goto(s, "wait")
    /\ UNCHANGED <<tx, wattempt, ledgerVars>>

Confirmed(s) ==
    /\ wpc[s] = "wait" /\ tx[s] \in validated
    /\ Goto(s, "ok")
    /\ UNCHANGED <<tx, wattempt, sent, ledgerVars>>

(* The retry loop forgets to count.                                        *)
withRetry_Uncounted(s) ==
    /\ Goto(s, "check")
    /\ UNCHANGED wattempt

(* withRetry, on a retryable error; RetryExhaustedError after the last.    *)
withRetry(s) ==
    IF wattempt[s] < maxAttempts
    THEN /\ wattempt' = [wattempt EXCEPT ![s] = @ + 1]
         /\ Goto(s, "check")
    ELSE /\ Goto(s, "exhausted")
         /\ UNCHANGED wattempt

(* The reconnect before the lookup failed, the deadline passed, the        *)
(* ledger answered with an error, or the transaction expired.              *)
AttemptFails(s) ==
    /\ wpc[s] \in {"check", "wait"}
    /\ withRetry(s)
    /\ UNCHANGED <<tx, sent, ledgerVars>>

(* isRetryableXrplError is false: a malformed transaction, or a "not       *)
(* connected" while polling for a blob that is already out.                *)
PermanentError(s) ==
    /\ wpc[s] = "wait"
    /\ Goto(s, "failed")
    /\ UNCHANGED <<tx, wattempt, sent, ledgerVars>>

-----------------------------------------------------------------------------
(* The network and the ledger (external)                                   *)

Include(t) ==
    /\ t.seq = accountSeq /\ ledgerIndex <= t.last
    /\ validated' = validated \cup {t}
    /\ sent' = sent \ {t}
    /\ accountSeq' = accountSeq + 1
    /\ UNCHANGED <<wpc, tx, wattempt, ledgerIndex>>

LoseBlob(t) ==
    /\ sent' = sent \ {t}
    /\ UNCHANGED <<wpc, tx, wattempt, ledgerVars>>

CloseLedger ==
    /\ ledgerIndex < MaxLedger
    /\ ledgerIndex' = ledgerIndex + 1
    /\ UNCHANGED <<wpc, tx, wattempt, sent, validated, accountSeq>>

-----------------------------------------------------------------------------
Step(s) ==
    \/ autofill(s) \/ checkExistingTx(s) \/ submitAndWait(s) \/ Confirmed(s)
    \/ AttemptFails(s)

SubmitNext ==
    \/ \E s \in Submit : Step(s) \/ AutofillFails(s) \/ PermanentError(s)
    \/ \E t \in sent : Include(t) \/ LoseBlob(t)
    \/ CloseLedger

SubmitSpec == SubmitInit /\ [][SubmitNext]_submitVars

(* Every await settles: requests and connects have the client's time-outs, *)
(* submitAndWait has withTimeout's deadline.                               *)
SubmitFairness == \A s \in Submit : WF_submitVars(Step(s) /\ wpc[s] # "new")

SubmitFairSpec == SubmitSpec /\ SubmitFairness

-----------------------------------------------------------------------------
(* Properties                                                              *)

Tx == [call : Submit, seq : Nat, last : Nat]

TypeOK ==
    /\ wpc \in [Submit -> Retrying \cup {"new", "ok", "failed", "exhausted"}]
    /\ tx \in [Submit -> Tx \cup {NoTx}]
    /\ wattempt \in [Submit -> 0..maxAttempts]
    /\ sent \subseteq Tx
    /\ validated \subseteq Tx
    /\ accountSeq \in Nat /\ ledgerIndex \in Nat

(* However often an attempt times out and its blob still lands, one        *)
(* submit() puts at most one transaction on the ledger.                    *)
AtMostOnce ==
    \A t, u \in validated : t.call = u.call => t = u

(* A record is only returned for a transaction in a validated ledger.      *)
OkImpliesValidated ==
    \A s \in Submit : wpc[s] = "ok" => tx[s] \in validated

(* Transactions of concurrent submits that were signed with the same       *)
(* Sequence exclude each other: at most one of them is ever acknowledged.  *)
OneOkPerSequence ==
    \A s, t \in Submit :
        wpc[s] = "ok" /\ wpc[t] = "ok" /\ tx[s].seq = tx[t].seq => s = t

(* Every submit() ends, whatever the network does.                         *)
SubmitTerminates ==
    \A s \in Submit : (wpc[s] \in Retrying) ~> (wpc[s] \in {"ok", "failed", "exhausted"})
==============================================================================
