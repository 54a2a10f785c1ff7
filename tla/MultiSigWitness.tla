---------------------------- MODULE MultiSigWitness ----------------------------
(***************************************************************************)
(* The multi-signature witness at work                                     *)
(* (packages/witness/src/governance/{multisig-witness,multisig-submitter,  *)
(* signing}.ts): governance that changes, wallets that are loaded and      *)
(* dropped, and the submit loop on the XRP Ledger.                         *)
(*                                                                         *)
(* The loop of MultiSigSubmitter is that of XrplSubmitter over a combined  *)
(* blob, so it is an instance of WitnessSubmitter; what differs is what    *)
(* comes before it.  submit() is given the policy, checks that there are   *)
(* wallets, waits for autofill, and signs with the wallets there are then. *)
(***************************************************************************)
EXTENDS Governance

CONSTANTS Witnesses,     \* calls of the witness
          maxAttempts, Window, MaxLedger,
          maxRecords,    \* records kept in memory
          NoPolicy

ASSUME LoopIsBounded == maxAttempts \in Nat \ {0} /\ Window \in Nat
ASSUME RecordsAreCounted == maxRecords \in Int

VARIABLES
    client,      \* the submitter has a client
    wallets,     \* addresses whose wallet is loaded
    loading,     \* signers whose secret connect() has yet to resolve
    read,        \* read[c]: the policy the call was given
    signedBy,    \* signedBy[c]: the wallets in the combined blob
    kept,        \* MultiSigWitness.records, oldest first
    wpc, wtx, wattempt, wsent, wvalidated, wseq, wledger

ledgerState == <<wpc, wtx, wattempt, wsent, wvalidated, wseq, wledger>>
signerState == <<client, wallets, loading>>
witnessVars == <<signerState, read, signedBy, kept, ledgerState>>

Submitter == INSTANCE WitnessSubmitter
    WITH Submit <- Witnesses, tx <- wtx, sent <- wsent,
         validated <- wvalidated, accountSeq <- wseq, ledgerIndex <- wledger

WitnessInit ==
    /\ client = FALSE /\ wallets = {} /\ loading = {}
    /\ read = [c \in Witnesses |-> NoPolicy]
    /\ signedBy = [c \in Witnesses |-> {}]
    /\ kept = <<>>
    /\ Submitter!SubmitInit

-----------------------------------------------------------------------------
(* connect() empties the wallets and loads them one secret at a time; its   *)
(* failure rolls everything back.  (The wallets are emptied once the client *)
(* is connected: only a second connect() without a disconnect has any to    *)
(* empty, and loads the same ones.)                                        *)

ConnectSigners ==
    /\ loading = {}
    /\ client' = TRUE /\ wallets' = {} /\ loading' = Wallets
    /\ UNCHANGED <<vars, read, signedBy, kept, ledgerState>>

resolveSecret(a) ==
    /\ a \in loading
    /\ wallets' = wallets \cup {a} /\ loading' = loading \ {a}
    /\ UNCHANGED <<vars, client, read, signedBy, kept, ledgerState>>

_rollbackConnect ==
    /\ loading # {}
    /\ client' = FALSE /\ wallets' = {} /\ loading' = {}
    /\ UNCHANGED <<vars, read, signedBy, kept, ledgerState>>

(* A connect() in progress goes on and loads the rest.                     *)
DisconnectSigners ==
    /\ client' = FALSE /\ wallets' = {}
    /\ UNCHANGED <<vars, loading, read, signedBy, kept, ledgerState>>

-----------------------------------------------------------------------------
(* A witness call                                                          *)

Fails(c) ==
    /\ wpc' = [wpc EXCEPT ![c] = "failed"]
    /\ UNCHANGED <<wtx, wattempt, wsent, wvalidated, wseq, wledger>>

(* _submitPayload reads the policy; submit() refuses without a wallet and   *)
(* awaits autofill.                                                        *)
_submitPayload(c) ==
    /\ wpc[c] = "new" /\ read[c] = NoPolicy
    /\ IF client /\ wallets # {}
       THEN read' = [read EXCEPT ![c] = policy] /\ UNCHANGED ledgerState
       ELSE Fails(c) /\ UNCHANGED read
    /\ UNCHANGED <<vars, signerState, signedBy, kept>>

(* The signatures count against the policy there is by now.                *)
buildMultiSign_Rereads(c) ==
    /\ read[c] # NoPolicy
    /\ \/ Aggregates(policy, wallets) /\ Submitter!autofill(c)
       \/ wpc[c] = "new" /\ ~Aggregates(policy, wallets) /\ Fails(c)
    /\ signedBy' = [signedBy EXCEPT ![c] = wallets]
    /\ UNCHANGED <<vars, signerState, read, kept>>

(* Autofill returned: every wallet signs the transaction and the digest of  *)
(* the policy that was read, and the quorum is checked before anything is   *)
(* sent.                                                                   *)
buildMultiSign(c) ==
    /\ read[c] # NoPolicy
    /\ \/ Aggregates(read[c], wallets) /\ Submitter!autofill(c)
       \/ wpc[c] = "new" /\ ~Aggregates(read[c], wallets) /\ Fails(c)
    /\ signedBy' = [signedBy EXCEPT ![c] = wallets]
    /\ UNCHANGED <<vars, signerState, read, kept>>

AutofillRejects(c) ==
    /\ read[c] # NoPolicy /\ Submitter!AutofillFails(c)
    /\ UNCHANGED <<vars, signerState, read, signedBy, kept>>

(* The newest maxRecords records.                                          *)
_retainRecord(c) ==
    LET all == Append(kept, c)
    IN  IF maxRecords <= 0 THEN kept
        ELSE SubSeq(all, IF Len(all) > maxRecords THEN Len(all) - maxRecords + 1 ELSE 1, Len(all))

(* submit() returned a record, or the attempt goes on.                     *)
Outcome(c) ==
    /\ kept' = IF wpc'[c] = "ok" THEN _retainRecord(c) ELSE kept
    /\ records' = IF wpc'[c] = "ok"
                  THEN records \cup {[policy |-> read[c], signatures |-> Counted(read[c], signedBy[c])]}
                  ELSE records
    /\ UNCHANGED <<storeVars, exported, replaying, pending, witnessed, restarts, signerState,
                   read, signedBy>>

(* _ensureConnected failed, or the attempt timed out.                      *)
AttemptRejected(c) == Submitter!AttemptFails(c) /\ Outcome(c)

_checkExistingTx(c) == Submitter!checkExistingTx(c) /\ Outcome(c)

_submitSigned(c) == (Submitter!submitAndWait(c) \/ Submitter!Confirmed(c)) /\ Outcome(c)

GivesUp(c) == Submitter!PermanentError(c) /\ Outcome(c)

(* The ledger (external).                                                  *)
LedgerStep ==
    /\ \/ \E t \in wsent : Submitter!Include(t) \/ Submitter!LoseBlob(t)
       \/ Submitter!CloseLedger
    /\ UNCHANGED <<vars, signerState, read, signedBy, kept>>

PolicyStep ==
    /\ \/ \E a \in Address, w \in Weights, k \in BOOLEAN : addSigner(a, w, k)
       \/ \E a \in Address : removeSigner(a)
       \/ \E q \in Quorums : changeQuorum(q)
    /\ UNCHANGED witnessVars

WitnessStep(c) ==
    \/ _submitPayload(c) \/ buildMultiSign(c) \/ AutofillRejects(c)
    \/ AttemptRejected(c) \/ _checkExistingTx(c) \/ _submitSigned(c) \/ GivesUp(c)

WitnessNext ==
    \/ ConnectSigners \/ _rollbackConnect \/ DisconnectSigners
    \/ \E a \in loading : resolveSecret(a)
    \/ \E c \in Witnesses : WitnessStep(c)
    \/ LedgerStep \/ PolicyStep

WitnessSpec == Init /\ WitnessInit /\ [][WitnessNext]_<<vars, witnessVars>>

-----------------------------------------------------------------------------
(* validateAuthority: the policy can have authorised a state at all.       *)
validateAuthority(p, version) ==
    /\ p.version = version
    /\ Signers(p) # {}
    /\ p.quorum <= totalWeight(p)

(* Every attestation on the ledger, acknowledged or not, was signed by a    *)
(* quorum of the policy of its version, which an auditor can find out from  *)
(* the event history, although governance, wallets and connections changed  *)
(* while the call waited; and a record is kept for a call only if its       *)
(* transaction is on the ledger.                                           *)
LedgerHasQuorum ==
    /\ \A t \in wvalidated :
         LET p == read[t.call]
         IN  /\ validateHistoricalQuorum(Counted(p, signedBy[t.call]), events, p.version)
             /\ validateAuthority(replayToVersion(events, p.version), p.version)
    /\ \A k \in DOMAIN kept : \E t \in wvalidated : t.call = kept[k]
    /\ \A t, u \in wvalidated : t.call = u.call => t = u
==============================================================================
