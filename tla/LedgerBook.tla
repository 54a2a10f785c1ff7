------------------------------ MODULE LedgerBook ------------------------------
(***************************************************************************)
(* A ledger and its arbitrary callers: accounts are registered, batches of *)
(* entries of every shape are offered to append(), and the ledger is saved *)
(* and restored.  A batch that breaks a rule is refused and changes        *)
(* nothing, so only accepted ones are steps.                               *)
(***************************************************************************)
EXTENDS Ledger

CONSTANTS Account,      \* account ids, as the parts between their colons
          Batches       \* what the callers offer: sequences of entries

(* Amounts are bigints and decimals numbers.                               *)
ASSUME BatchesAssumption ==
    \A es \in Batches : /\ es \in Seq(ToSet(es))
                         /\ \A e \in ToSet(es) : e.scaled \in Int /\ e.decimals \in Int

VARIABLES book, bookSaved
bookVars == <<book, bookSaved>>

BookInit == book = EmptyLedger /\ bookSaved = snapshotOf(EmptyLedger)

Register(a) ==
    /\ ~hasAccount(book, a)
    /\ book' = registerAccount(book, a)
    /\ UNCHANGED bookSaved

AppendBatch(es) ==
    /\ Appendable(book, es)
    /\ book' = append(book, es)
    /\ UNCHANGED bookSaved

Save == bookSaved' = snapshotOf(book) /\ UNCHANGED book

Restore ==
    /\ Restorable(bookSaved)
    /\ book' = fromSnapshot(bookSaved)
    /\ UNCHANGED bookSaved

BookNext ==
    \/ \E a \in Account : Register(a)
    \/ \E es \in Batches : AppendBatch(es)
    \/ Save \/ Restore

-----------------------------------------------------------------------------
(* Properties                                                              *)

(* Whatever was appended, also when two transactions shared a              *)
(* correlationId, fromSnapshot refuses nothing, keeps every entry and      *)
(* account, and a second round trip changes no order any more.             *)
SnapshotRestores ==
    LET s == snapshotOf(book)
        r == fromSnapshot(s)
    IN  /\ Restorable(s)
        /\ ToSet(r.entries) = ToSet(book.entries)
        /\ Len(r.entries) = Len(book.entries)
        /\ r.accounts = book.accounts
        /\ fromSnapshot(snapshotOf(r)) = r

(* No two currencies meet in one accumulator: what nothing in the code     *)
(* sees to, and what holds as long as no currency has a colon.             *)
OneCurrencyPerKey(es) ==
    \A i, j \in DOMAIN es : balanceKey(es[i]) = balanceKey(es[j]) => es[i].currency = es[j].currency

(* Where no two currencies share a balanceKey, getTrialBalance never       *)
(* throws: however batches are composed, also of several currencies and    *)
(* after a restore, each currency balances.  And, keys that meet or not,   *)
(* the ledger can always be restored from its own snapshot.                *)
BooksBalance == (OneCurrencyPerKey(book.entries) => TrialBalanced(book)) /\ SnapshotRestores

(* "A self-consistent ledger can never produce an unbalanced trial balance"*)
(* (ledger.ts, getTrialBalance): it throws for no ledger whose batches all *)
(* passed append()'s rules.                                                *)
TrialBalances == TrialBalanced(book)
==============================================================================
