-------------------------------- MODULE Ledger --------------------------------
(***************************************************************************)
(* The append-only double-entry ledger (packages/ledger/src: ledger.ts,    *)
(* accounts.ts, balance-calculator.ts, money-math.ts), as operators on a   *)
(* ledger value that the modules of its clients use.                       *)
(*                                                                         *)
(* A Money value is its scaled integer, what parseAmount returns, and its  *)
(* decimals; timestamps and descriptions are left out.  An account id and a*)
(* currency are strings that nothing validates; each is the sequence of its*)
(* parts between colons, so that joined ones can meet: "a::b" is           *)
(* <<"a", "", "b">>.                                                       *)
(***************************************************************************)
EXTENDS Integers, Sequences, SequencesExt, FiniteSetsExt, Selection

EmptyLedger == [accounts |-> {}, entries |-> <<>>, transactions |-> <<>>]

Entry(id, accountId, type, currency, scaled, decimals, correlationId) ==
    [id |-> id, accountId |-> accountId, type |-> type, currency |-> currency,
     scaled |-> scaled, decimals |-> decimals, correlationId |-> correlationId]

hasAccount(l, a) == a \in l.accounts

registerAccount(l, a) == [l EXCEPT !.accounts = @ \cup {a}]

(* The clients' "if (!hasAccount) registerAccount" for several accounts.   *)
WithAccounts(l, A) == [l EXCEPT !.accounts = @ \cup A]

AccountIds(es) == {es[i].accountId : i \in DOMAIN es}
EntryIds(es) == {es[i].id : i \in DOMAIN es}
Currencies(es) == {es[i].currency : i \in DOMAIN es}

(* Sum of the scaled amounts on one side, of some accounts and currencies. *)
Sum(es, type, A, C) ==
    MapThenSumSet(LAMBDA i : es[i].scaled,
                  {i \in DOMAIN es : /\ es[i].type = type
                                     /\ es[i].accountId \in A
                                     /\ es[i].currency \in C})

-----------------------------------------------------------------------------
(* append()                                                                *)

(* Only the grand totals are compared.                                     *)
_assertBalanced_AllCurrencies(es) ==
    LET A == AccountIds(es)  C == Currencies(es)
    IN  Sum(es, "debit", A, C) = Sum(es, "credit", A, C)

_assertBalanced(es) ==
    LET A == AccountIds(es)
    IN  \A c \in Currencies(es) : Sum(es, "debit", A, {c}) = Sum(es, "credit", A, {c})

(* Rule 3: against the ledger and within the batch.                        *)
UniqueIds(l, es) ==
    /\ EntryIds(es) \cap EntryIds(l.entries) = {}
    /\ \A i, j \in DOMAIN es : es[i].id = es[j].id => i = j

(* The seven rules of append().                                            *)
Appendable(l, es) ==
    /\ es # <<>>
    /\ \A i \in DOMAIN es : es[i].correlationId = es[1].correlationId
    /\ UniqueIds(l, es)
    /\ \A i \in DOMAIN es : hasAccount(l, es[i].accountId)
    /\ \A i \in DOMAIN es : es[i].decimals >= 0 /\ es[i].scaled > 0
    /\ _assertBalanced(es)

append(l, es) == [l EXCEPT !.entries = @ \o es, !.transactions = Append(@, es)]

-----------------------------------------------------------------------------
(* computeTrialBalance: the net of an accumulator goes to one column       *)

(* The key of an accumulator, `${accountId}::${currency}`.                 *)
balanceKey(e) == e.accountId \o <<"">> \o e.currency

Keys(es) == {balanceKey(es[i]) : i \in DOMAIN es}

(* An accumulator adds up the entries of its key; its currency is that of  *)
(* the first of them.                                                      *)
Accumulated(es, k) == {i \in DOMAIN es : balanceKey(es[i]) = k}
currencyOf(es, k) == es[Min(Accumulated(es, k))].currency

Net(es, k) ==
    LET Total(type) == MapThenSumSet(LAMBDA i : es[i].scaled,
                                     {i \in Accumulated(es, k) : es[i].type = type})
    IN  Total("debit") - Total("credit")

DebitColumn(l, c) ==
    MapThenSumSet(LAMBDA k : Net(l.entries, k),
                  {k \in Keys(l.entries) : /\ currencyOf(l.entries, k) = c
                                           /\ Net(l.entries, k) >= 0})
CreditColumn(l, c) ==
    MapThenSumSet(LAMBDA k : -Net(l.entries, k),
                  {k \in Keys(l.entries) : /\ currencyOf(l.entries, k) = c
                                           /\ Net(l.entries, k) < 0})

(* assertTrialBalanced                                                     *)
TrialBalanced(l) == \A c \in Currencies(l.entries) : DebitColumn(l, c) = CreditColumn(l, c)

-----------------------------------------------------------------------------
(* snapshot() and fromSnapshot()                                           *)

snapshotOf(l) == [accounts |-> l.accounts, entries |-> l.entries]

(* The correlation ids, in the order of the Map's keys: as they appear.    *)
Correlations(es) ==
    LET firsts == Select([i \in DOMAIN es |-> i],
                         {i \in DOMAIN es : \A j \in 1..(i - 1) :
                                                es[j].correlationId # es[i].correlationId})
    IN  [k \in DOMAIN firsts |-> es[firsts[k]].correlationId]

Group(es, x) == Select(es, {e \in ToSet(es) : e.correlationId = x})

Groups(es) ==
    LET order == Correlations(es) IN [k \in DOMAIN order |-> Group(es, order[k])]

(* A new ledger with the accounts, and after each of the groups.           *)
Rebuilt(accounts, groups) ==
    LET at[n \in 0..Len(groups)] ==
            IF n = 0 THEN WithAccounts(EmptyLedger, accounts) ELSE append(at[n - 1], groups[n])
    IN  at

(* fromSnapshot throws unless every group passes append()'s rules again.   *)
Restorable(s) ==
    LET groups == Groups(s.entries)
        at == Rebuilt(s.accounts, groups)
    IN  \A n \in DOMAIN groups : Appendable(at[n - 1], groups[n])

fromSnapshot(s) ==
    LET groups == Groups(s.entries) IN Rebuilt(s.accounts, groups)[Len(groups)]
==============================================================================
