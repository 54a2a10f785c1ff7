------------------------------- MODULE Treasury -------------------------------
(***************************************************************************)
(* The organisation's treasury (packages/treasury/src: treasury.ts,        *)
(* payroll.ts, distribution.ts, funding.ts) over its double-entry ledger.  *)
(*                                                                         *)
(* Amounts are scaled integers of the one default currency.  A pay         *)
(* schedule is the pair of its summed components: gross pay and            *)
(* deductions.  The ledger belongs to the Treasury instance and is not     *)
(* part of its snapshot.                                                   *)
(***************************************************************************)
EXTENDS Ledger

CONSTANTS Payee, Run, Plan, Request,   \* ids: sequences of ":"-separated parts
          Person,       \* who may submit or approve funding
          Gatekeepers,  \* the two of them whose approval counts
          Pays,         \* pay schedules: [gross, deductions]
          Pools,        \* distribution pools
          Shares,       \* shares of recipients
          FundingAmounts,      \* amounts of funding requests
          Whole         \* basis points in a whole: 10000

ASSUME TwoGatekeepers ==
    /\ Gatekeepers \subseteq Person
    /\ IsFiniteSet(Gatekeepers) /\ Cardinality(Gatekeepers) = 2

(* Ids are strings; createPlan refuses negative shares.                    *)
ASSUME IdsAreStrings == IsFiniteSet(Payee) /\ Payee \cup Run \cup Plan \cup Request \subseteq Seq(STRING)
ASSUME MoneyIsIntegral ==
    /\ Pays \subseteq [gross : Int, deductions : Int]
    /\ Pools \subseteq Int /\ FundingAmounts \subseteq Int
    /\ Shares \subseteq Nat /\ Whole \in Nat \ {0}

NoSchedule == [gross |-> -1, deductions |-> 0]
Nobody == "nobody"
ASSUME NobodyIsNoPerson == Nobody \notin Person
NoRun == [status |-> "absent", net |-> << >>]
NoPlan == [status |-> "absent", strategy |-> "none", pool |-> 0, shares |-> << >>, met |-> {}]
NoRequest == [status |-> "absent", amount |-> 0, requestedBy |-> Nobody,
              gate1 |-> Nobody, gate2 |-> Nobody]

VARIABLES
    payees,     \* payees[p]: "absent", "active" or "inactive"
    schedules,  \* schedules[p]: its pay, or NoSchedule
    runs, plans, requests,
    ledger,
    treasurySaved       \* the last snapshot()

engines == <<payees, schedules, runs, plans, requests>>
treasuryVars == <<payees, schedules, runs, plans, requests, ledger, treasurySaved>>

treasurySnapshot == [payees |-> payees, runs |-> runs, plans |-> plans, requests |-> requests]

TreasuryInit ==
    /\ payees = [p \in Payee |-> "absent"]
    /\ schedules = [p \in Payee |-> NoSchedule]
    /\ runs = [r \in Run |-> NoRun]
    /\ plans = [d \in Plan |-> NoPlan]
    /\ requests = [q \in Request |-> NoRequest]
    /\ ledger = EmptyLedger
    /\ treasurySaved = treasurySnapshot

-----------------------------------------------------------------------------
(* Postings: every payment is a debit and a credit of one transaction      *)

Currency == <<"default">>

(* One pair of entries for each payee of a batch, in some order.  Ids are  *)
(* joined with ":", here by concatenation.                                 *)
Postings(corr, from, to, amountOf) ==
    LET who == SetToSeq(DOMAIN amountOf)
        Side(i, type, account) ==
            Entry(corr \o who[i] \o <<type>>, account, type, Currency, amountOf[who[i]], 0, corr)
    IN  FlattenSeq([i \in DOMAIN who |->
          <<Side(i, "debit", from), Side(i, "credit", to \o who[i])>>])

Prepared(from, to, amountOf) ==
    WithAccounts(ledger, {from} \cup {to \o w : w \in DOMAIN amountOf})

Postable(corr, from, to, amountOf) ==
    DOMAIN amountOf # {} => Appendable(Prepared(from, to, amountOf),
                                       Postings(corr, from, to, amountOf))

(* The accounts are created as needed, then the batch is appended whole;   *)
(* an empty batch is skipped.  When append throws the accounts stay and    *)
(* the caller changes nothing.                                             *)
Post(corr, from, to, amountOf, Committed, Thrown) ==
    LET l == Prepared(from, to, amountOf)
    IN  IF Postable(corr, from, to, amountOf)
        THEN /\ ledger' = IF DOMAIN amountOf = {} THEN l
                          ELSE append(l, Postings(corr, from, to, amountOf))
             /\ Committed
        ELSE /\ ledger' = l
             /\ Thrown

-----------------------------------------------------------------------------
(* PayrollEngine                                                           *)

registerPayee(p) ==
    /\ payees[p] = "absent"
    /\ payees' = [payees EXCEPT ![p] = "active"]
    /\ UNCHANGED <<schedules, runs, plans, requests, ledger, treasurySaved>>

updatePayeeStatus(p, status) ==
    /\ payees[p] # "absent"
    /\ payees' = [payees EXCEPT ![p] = status]
    /\ UNCHANGED <<schedules, runs, plans, requests, ledger, treasurySaved>>

setSchedule(p, pay) ==
    /\ payees[p] # "absent"
    /\ schedules' = [schedules EXCEPT ![p] = pay]
    /\ UNCHANGED <<payees, runs, plans, requests, ledger, treasurySaved>>

(* computeEntry's net pay has no floor.                                    *)
computeEntry(pay) == pay.gross - pay.deductions

(* The run freezes the schedules of the payees that are active now.        *)
createRun(r) ==
    /\ runs[r].status = "absent"
    /\ LET included == {p \in Payee : schedules[p] # NoSchedule /\ payees[p] = "active"}
       IN  runs' = [runs EXCEPT ![r] =
               [status |-> "draft", net |-> [p \in included |-> computeEntry(schedules[p])]]]
    /\ UNCHANGED <<payees, schedules, plans, requests, ledger, treasurySaved>>

approveRun(r) ==
    /\ runs[r].status = "draft"
    /\ runs' = [runs EXCEPT ![r].status = "approved"]
    /\ UNCHANGED <<payees, schedules, plans, requests, ledger, treasurySaved>>

(* Payees are posted one by one until a net pay is refused.                *)
executeRun_PerEntry(r) ==
    /\ runs[r].status = "approved"
    /\ LET net == runs[r].net
           ok == {p \in DOMAIN net : net[p] > 0}
       IN  Post(<<"payroll">> \o r, <<"payroll", "expense">>, <<"payroll", "payee">>,
                [p \in ok |-> net[p]],
                runs' = IF ok = DOMAIN net THEN [runs EXCEPT ![r].status = "executed"] ELSE runs,
                UNCHANGED runs)
    /\ UNCHANGED <<payees, schedules, plans, requests, treasurySaved>>

(* Every net pay must be positive before anything is posted.               *)
executeRun(r) ==
    /\ runs[r].status = "approved"
    /\ \A p \in DOMAIN runs[r].net : runs[r].net[p] > 0
    /\ Post(<<"payroll">> \o r, <<"payroll", "expense">>, <<"payroll", "payee">>, runs[r].net,
            runs' = [runs EXCEPT ![r].status = "executed"], UNCHANGED runs)
    /\ UNCHANGED <<payees, schedules, plans, requests, treasurySaved>>

-----------------------------------------------------------------------------
(* DistributionEngine                                                      *)

Total(f) == MapThenSumSet(LAMBDA x : f[x], DOMAIN f)

(* bigint division truncates towards zero.                                 *)
Quotient(n, d) == IF n >= 0 THEN n \div d ELSE -((-n) \div d)

ValidShares_EachOnly(strategy, pool, shares) ==
    CASE strategy = "fixed"        -> \A p \in DOMAIN shares : shares[p] <= pool
      [] strategy = "proportional" -> \A p \in DOMAIN shares : shares[p] <= Whole
      [] strategy = "milestone"    -> \A p \in DOMAIN shares : shares[p] <= Whole

(* createPlan's checks of the shares.                                      *)
ValidShares(strategy, pool, shares) ==
    CASE strategy = "fixed"        -> Total(shares) <= pool
      [] strategy = "proportional" -> Total(shares) <= Whole
      [] strategy = "milestone"    -> \A p \in DOMAIN shares : shares[p] <= Whole

createPlan(d, strategy, pool, shares, met) ==
    /\ plans[d].status = "absent"
    /\ DOMAIN shares # {}
    /\ ValidShares(strategy, pool, shares)
    /\ plans' = [plans EXCEPT ![d] = [status |-> "draft", strategy |-> strategy, pool |-> pool,
                                      shares |-> shares, met |-> met]]
    /\ UNCHANGED <<payees, schedules, runs, requests, ledger, treasurySaved>>

approvePlan(d) ==
    /\ plans[d].status = "draft"
    /\ plans' = [plans EXCEPT ![d].status = "approved"]
    /\ UNCHANGED <<payees, schedules, runs, requests, ledger, treasurySaved>>

(* The milestone strategy divides the pool among those who met theirs.     *)
resolvePayouts(plan) ==
    LET eligible == DOMAIN plan.shares \cap plan.met
        whole == Total([p \in eligible |-> plan.shares[p]])
    IN  CASE plan.strategy = "fixed" -> plan.shares
          [] plan.strategy = "proportional" ->
                [p \in DOMAIN plan.shares |-> Quotient(plan.pool * plan.shares[p], Whole)]
          [] plan.strategy = "milestone" ->
                [p \in eligible |-> IF whole = 0 THEN 0
                                    ELSE Quotient(plan.pool * plan.shares[p], whole)]

Writable(payouts) == {p \in DOMAIN payouts : payouts[p] # 0}

(* Zero payouts are dropped, a negative one refuses the plan.              *)
executeDistribution(d) ==
    /\ plans[d].status = "approved"
    /\ LET payouts == resolvePayouts(plans[d])
       IN  /\ \A p \in Writable(payouts) : payouts[p] > 0
           /\ Post(<<"distribution">> \o d, <<"distribution", "pool">> \o d,
                   <<"distribution", "recipient">>, [p \in Writable(payouts) |-> payouts[p]],
                   plans' = [plans EXCEPT ![d].status = "executed"], UNCHANGED plans)
    /\ UNCHANGED <<payees, schedules, runs, requests, treasurySaved>>

-----------------------------------------------------------------------------
(* FundingGateManager                                                      *)

SetRequest(q, r) ==
    /\ requests' = [requests EXCEPT ![q] = r]
    /\ UNCHANGED <<payees, schedules, runs, plans, treasurySaved>>

submitRequest(q, amount, by) ==
    /\ requests[q].status = "absent"
    /\ SetRequest(q, [NoRequest EXCEPT !.status = "pending", !.amount = amount,
                                       !.requestedBy = by])
    /\ UNCHANGED ledger

approveGate(q, by) ==
    LET r == requests[q]
    IN  /\ r.status \in {"pending", "gate1-approved"}
        /\ by \in Gatekeepers /\ by # r.requestedBy
        /\ IF r.status = "pending"
           THEN SetRequest(q, [r EXCEPT !.status = "gate1-approved", !.gate1 = by])
           ELSE /\ r.gate1 # by
                /\ SetRequest(q, [r EXCEPT !.status = "approved", !.gate2 = by])
        /\ UNCHANGED ledger

(* Any gatekeeper, also after both approvals; the second slot records it.  *)
rejectRequest(q, by) ==
    LET r == requests[q]
    IN  /\ r.status \notin {"absent", "rejected", "executed", "failed"}
        /\ by \in Gatekeepers
        /\ SetRequest(q, IF r.gate1 # Nobody
                         THEN [r EXCEPT !.status = "rejected", !.gate2 = by]
                         ELSE [r EXCEPT !.status = "rejected", !.gate1 = by])
        /\ UNCHANGED ledger

(* A request whose amount the ledger refuses stays approved.               *)
executeRequest(q) ==
    /\ requests[q].status = "approved"
    /\ Post(<<"funding">> \o q, <<"funding", "request">> \o q, <<"treasury", "main">>,
            [w \in {<<>>} |-> requests[q].amount],
            requests' = [requests EXCEPT ![q].status = "executed"], UNCHANGED requests)
    /\ UNCHANGED <<payees, schedules, runs, plans, treasurySaved>>

-----------------------------------------------------------------------------
(* Treasury.snapshot and Treasury.fromSnapshot                             *)

takeSnapshot ==
    /\ treasurySaved' = treasurySnapshot
    /\ UNCHANGED <<engines, ledger>>

(* A new Treasury: its ledger and its schedules are empty.                 *)
restoreTreasury ==
    /\ payees' = treasurySaved.payees
    /\ schedules' = [p \in Payee |-> NoSchedule]
    /\ runs' = treasurySaved.runs
    /\ plans' = treasurySaved.plans
    /\ requests' = treasurySaved.requests
    /\ ledger' = EmptyLedger
    /\ UNCHANGED treasurySaved

-----------------------------------------------------------------------------
PayrollOp ==
    \/ \E p \in Payee : \/ registerPayee(p)
                        \/ \E s \in {"active", "inactive"} : updatePayeeStatus(p, s)
                        \/ \E pay \in Pays : setSchedule(p, pay)
    \/ \E r \in Run : createRun(r) \/ approveRun(r) \/ executeRun(r)

DistributionOp ==
    \E d \in Plan :
        \/ \E strategy \in {"fixed", "proportional", "milestone"}, pool \in Pools :
             \E R \in SUBSET Payee : \E shares \in [R -> Shares], met \in SUBSET R :
                 createPlan(d, strategy, pool, shares, met)
        \/ approvePlan(d) \/ executeDistribution(d)

FundingOp ==
    \E q \in Request :
        \/ \E m \in FundingAmounts, by \in Person : submitRequest(q, m, by)
        \/ \E by \in Person : approveGate(q, by) \/ rejectRequest(q, by)
        \/ executeRequest(q)

TreasuryNext == PayrollOp \/ DistributionOp \/ FundingOp \/ takeSnapshot \/ restoreTreasury

TreasurySpec == TreasuryInit /\ [][TreasuryNext]_treasuryVars

-----------------------------------------------------------------------------
(* Properties                                                              *)

StatusOf(corr) == CASE corr[1] = "payroll" -> runs[Tail(corr)].status
                    [] corr[1] = "distribution" -> plans[Tail(corr)].status
                    [] corr[1] = "funding" -> requests[Tail(corr)].status

(* Nothing is posted by halves: what the ledger holds belongs to a run,    *)
(* plan or request that is executed, and the books balance.                *)
OnlyExecutedIsPosted ==
    /\ \A i \in DOMAIN ledger.entries :
          StatusOf(ledger.entries[i].correlationId) = "executed"
    /\ TrialBalanced(ledger)

(* Dual control: an approved or executed request was approved by two       *)
(* different gatekeepers, neither of them its requester, also when the     *)
(* approvals came before and after a restore.                              *)
DualControl ==
    \A q \in Request : requests[q].status \in {"approved", "executed"} =>
        /\ {requests[q].gate1, requests[q].gate2} = Gatekeepers
        /\ requests[q].requestedBy \notin {requests[q].gate1, requests[q].gate2}

Credits(corr) ==
    MapThenSumSet(LAMBDA i : ledger.entries[i].scaled,
        {i \in DOMAIN ledger.entries : /\ ledger.entries[i].correlationId = corr
                                       /\ ledger.entries[i].type = "credit"})

(* A distribution never pays out more than its pool, whatever the strategy *)
(* rounds, and nothing at all from a negative pool.                        *)
PayoutsWithinPool ==
    \A d \in Plan : Credits(<<"distribution">> \o d) <= Max({0, plans[d].pool})
==============================================================================
