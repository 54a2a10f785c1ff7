------------------------------- MODULE MC_Books -------------------------------
(* Instances of the books for TLC: the vault, the three desks of the        *)
(* treasury, both of them behind the node's routes, and a ledger with       *)
(* arbitrary callers.  The desks have no state in common but the ledger, to *)
(* which each posts under its own correlation ids, and the snapshot.  A     *)
(* behaviour runs one of the parts.                                         *)
EXTENDS ApiRoutes, LedgerBook

(* Payee and run ids with parts in common, so that joined ids can meet.    *)
SomePayees == {<<"c">>, <<"b", "c">>}
SomeRuns == {<<"a">>, <<"a", "b">>}
SomePlans == {<<"d">>}
SomeRequests == {<<"q">>, <<"r">>}

(* Pay: a normal one, and one whose deductions eat the gross.              *)
SomePays == {[gross |-> 3, deductions |-> 1], [gross |-> 1, deductions |-> 1]}

(* Pools: negative, empty, and two that do not divide evenly.              *)
SomePools == {-1, 0, 5, 7}

(* Ids and currencies as the parts between their colons: "a" in "USD::X"   *)
(* and "a::USD" in "X" have one balance key.                               *)
PlainAccount == <<"a">>
JoinedAccount == <<"a", "", "USD">>
SomeCurrency == <<"X">>
JoinedCurrency == <<"USD", "", "X">>
SomeAccounts == {PlainAccount, JoinedAccount}

(* Batches: two callers with two entries each, whose ids may be the same   *)
(* and who may share a correlation id, in two currencies; and one caller   *)
(* of three entries with amounts that can cancel out.                      *)
SideOf(ids, type, accounts, currencies, amounts, corrs) ==
    {Entry(id, a, type, c, m, 0, k) : id \in ids, a \in accounts, c \in currencies,
                                      m \in amounts, k \in corrs}
SomeBatches ==
    LET A == {PlainAccount}   B == {JoinedAccount}
        X == {SomeCurrency}   Y == {JoinedCurrency}
    IN  {<<x, y>> : x \in SideOf({1}, "debit", A, X \cup Y, {1}, {"k1"}),
                    y \in SideOf({1, 2}, "credit", A \cup B, X \cup Y, {1, 2}, {"k1"})}
        \cup {<<x, y>> : x \in SideOf({3}, "credit", A, X, {1}, {"k1", "k2"}),
                         y \in SideOf({2, 4}, "debit", B, X, {1}, {"k1", "k2"})}
        \cup {<<x, y, z>> : x \in SideOf({5}, "debit", A, X, {2}, {"k1"}),
                            y \in SideOf({6}, "credit", B, X \cup Y, {1, 2}, {"k1"}),
                            z \in SideOf({7}, "credit", A \cup B, X, {1, 2}, {"k1"})
                                   \cup SideOf({7}, "debit", B, Y, {1, 2}, {"k1"})}

(* A plan that can be paid and one that cannot.                            *)
SomeOffers == {[strategy |-> "proportional", pool |-> p, shares |-> [w \in {<<"c">>} |-> 10000],
                met |-> {}] : p \in {-1, 5}}

(* The vault treats its intents alike.                                      *)
IntentSymmetry == Permutations(Intent)

Routes == {"vault routes", "payroll routes", "distribution routes", "funding routes"}

VARIABLE part

allVars == <<part, vars, treasuryVars, routeVars, bookVars>>

MCInit ==
    /\ part \in {"vault", "payroll", "distribution", "funding", "ledger"} \cup Routes
    /\ Init /\ TreasuryInit /\ RoutesInit /\ BookInit

VaultStep == part = "vault" /\ Next /\ UNCHANGED <<treasuryVars, routeVars, bookVars>>
TreasuryStep ==
    /\ \/ part = "payroll" /\ PayrollOp
       \/ part = "distribution" /\ DistributionOp
       \/ part = "funding" /\ FundingOp
       \/ part \in {"payroll", "distribution", "funding"} /\ (takeSnapshot \/ restoreTreasury)
    /\ UNCHANGED <<vars, routeVars, bookVars>>
RouteStep ==
    /\ \/ part = "vault routes" /\ (IntentRoutes \/ EnvelopeRoutes)
       \/ part = "payroll routes" /\ PayrollRoutes
       \/ part = "distribution routes" /\ DistributionRoutes
       \/ part = "funding routes" /\ FundingRoutes
    /\ UNCHANGED bookVars
LedgerStep == part = "ledger" /\ BookNext /\ UNCHANGED <<vars, treasuryVars, routeVars>>

MCNext == (VaultStep \/ TreasuryStep \/ RouteStep \/ LedgerStep) /\ UNCHANGED part

MCSpec == MCInit /\ [][MCNext]_allVars

(* The ledger with its callers alone.                                      *)
CallersSpec == MCInit /\ part = "ledger" /\ [][MCNext]_allVars

(* Separation of duties, and its record: a funding request is approved by  *)
(* two different gatekeepers, neither its requester, and when everything   *)
(* goes through the routes the audit log tells who they were and all the   *)
(* rest of the story.                                                      *)
DutiesAreRecorded == DualControl /\ (part \in Routes => AuditTellsTheStory)
==============================================================================
