------------------------------- MODULE ApiRoutes -------------------------------
(***************************************************************************)
(* The node's routes for intents, envelopes and the treasury               *)
(* (packages/node/src/routes: intents.ts, vault-budgets.ts, treasury.ts)   *)
(* with the audit log (services/audit-log.ts): a handler calls the         *)
(* service, and what does not throw is noted in the log.                   *)
(*                                                                         *)
(* The principals here hold the "write" permission and send valid bodies;  *)
(* NodeApi models the middleware that sees to that.  A call the service    *)
(* refuses is answered by the error handler with 4xx and changes nothing,  *)
(* unless an action says otherwise.  There is no route for payees.         *)
(***************************************************************************)
EXTENDS Vault, Treasury

CONSTANTS
    PlanOffers,    \* what POST /distributions is sent: [strategy, pool, shares, met]
    MaxAudit,      \* bound: entries of the audit log
    MaxFailures    \* bound: snapshots that fail

(* validateBody: a plan names payees and one of the three strategies.      *)
ASSUME OffersAssumption ==
    \A o \in PlanOffers :
        /\ o.strategy \in {"fixed", "proportional", "milestone"} /\ o.pool \in Pools
        /\ \E R \in SUBSET Payee : o.shares \in [R -> Shares] /\ o.met \in SUBSET R

VARIABLES
    auditLog,
    unanswered     \* what changed and was answered with 500: <<resourceType, id>>

routeVars == <<auditLog, unanswered>>

RoutesInit == auditLog = <<>> /\ unanswered = {}

AuditEntry(type, id, action, actor) ==
    [resourceType |-> type, resourceId |-> id, action |-> action, actor |-> actor]

(* The rest of a handler after a call of a plain delegator.                *)
Noted(type, id, action, actor) ==
    /\ Len(auditLog) < MaxAudit
    /\ auditLog' = Append(auditLog, AuditEntry(type, id, action, actor))
    /\ UNCHANGED unanswered

(* The same after _mutate, which throws when the snapshot that follows the *)
(* change fails; then the handler never reaches the audit log.             *)
Mutated(type, id, action, actor) ==
    \/ Noted(type, id, action, actor)
    \/ /\ Cardinality(unanswered) < MaxFailures
       /\ unanswered' = unanswered \cup {<<type, id>>}
       /\ UNCHANGED auditLog

-----------------------------------------------------------------------------
(* intents.ts and vault-budgets.ts                                         *)

Spendable(i) ==
    Linked(i) => /\ envelopeOf[i] \in envelopes
                 /\ amount[i] > 0 /\ amount[i] <= available[envelopeOf[i]]

(* markIntentExecuting and recordIntentExecution in one call.  When the    *)
(* envelope does not cover the amount the second one throws, and the       *)
(* intent stays executing.                                                 *)
executeIntent(i) ==
    /\ assertTransition(i, "executing")
    /\ \/ /\ Spendable(i)
          /\ IF Linked(i) THEN spend(envelopeOf[i], amount[i]) ELSE UNCHANGED budgetVars
          /\ SetStatus(i, "executed")
          /\ Mutated("intent", i, "execute", "api")
       \/ /\ ~Spendable(i)
          /\ SetStatus(i, "executing")
          /\ UNCHANGED <<budgetVars, routeVars>>
    /\ UNCHANGED <<amount, envelopeOf, saved>>

declareRoute(i, a, e) == declare(i, a, e) /\ Mutated("intent", i, "declare", "api")

IntentRoutes ==
    /\ \E i \in Intent :
          \/ \E a \in Amounts \cup {NoAmount}, e \in Envelope \cup {NoEnvelope} :
                declareRoute(i, a, e)
          \/ approve(i) /\ Mutated("intent", i, "approve", "api")
          \/ reject(i) /\ Mutated("intent", i, "reject", "api")
          \/ executeIntent(i)
          \/ verify(i) /\ Mutated("intent", i, "verify", "api")
    /\ UNCHANGED treasuryVars

EnvelopeRoutes ==
    /\ \E e \in Envelope :
          \/ createEnvelope(e) /\ Noted("envelope", e, "create", "api")
          \/ \E a \in Amounts : allocate(e, a) /\ Mutated("envelope", e, "allocate", "api")
    /\ UNCHANGED treasuryVars

-----------------------------------------------------------------------------
(* treasury.ts                                                             *)

(* An execution the ledger refuses throws and is not noted.                *)
Executed(type, id, executed) ==
    IF executed THEN Mutated(type, id, "execute", "api") ELSE UNCHANGED routeVars

PayrollRoutes ==
    /\ \E r \in Run :
          \/ createRun(r) /\ Noted("payroll-run", r, "create", "api")
          \/ approveRun(r) /\ Noted("payroll-run", r, "approve", "api")
          \/ executeRun(r) /\ Executed("payroll-run", r, runs'[r].status = "executed")
    /\ UNCHANGED vars

DistributionRoutes ==
    /\ \E d \in Plan :
          \/ \E o \in PlanOffers : /\ createPlan(d, o.strategy, o.pool, o.shares, o.met)
                                   /\ Noted("distribution", d, "create", "api")
          \/ approvePlan(d) /\ Noted("distribution", d, "approve", "api")
          \/ /\ executeDistribution(d)
             /\ Executed("distribution", d, plans'[d].status = "executed")
    /\ UNCHANGED vars

submitFundingRoute(q, m, identity) ==
    submitRequest(q, m, identity) /\ Noted("funding-request", q, "submit", identity)

(* The approver is a label of the request's body.                          *)
approveFundingRoute_BodyLabel(q, identity) ==
    /\ \E label \in Person : approveGate(q, label)
    /\ Mutated("funding-request", q, "approve", identity)

(* The approver is the authenticated principal.                            *)
approveFundingRoute(q, identity) ==
    approveGate(q, identity) /\ Mutated("funding-request", q, "approve", identity)

rejectFundingRoute(q, identity) ==
    rejectRequest(q, identity) /\ Noted("funding-request", q, "reject", identity)

(* executeFunding is a plain delegator: no event and no snapshot.          *)
executeFundingRoute(q) ==
    /\ executeRequest(q)
    /\ IF requests'[q].status = "executed" THEN Noted("funding-request", q, "execute", "api")
       ELSE UNCHANGED routeVars

FundingRoutes ==
    /\ \E q \in Request :
          \/ \E m \in FundingAmounts, by \in Person : submitFundingRoute(q, m, by)
          \/ \E by \in Person : approveFundingRoute(q, by) \/ rejectFundingRoute(q, by)
          \/ executeFundingRoute(q)
    /\ UNCHANGED vars

-----------------------------------------------------------------------------
(* Properties                                                              *)

(* What a reader of the audit log takes a resource to be after one more    *)
(* entry; an approval or rejection fills the next gate.                    *)
StatusAfter == [declare |-> "declared", approve |-> "approved", reject |-> "rejected",
                execute |-> "executed", verify |-> "verified", create |-> "draft"]

Told(type, id, r, entry) ==
    IF entry.resourceType # type \/ entry.resourceId # id THEN r
    ELSE IF type # "funding-request" THEN StatusAfter[entry.action]
    ELSE CASE entry.action = "submit" ->
                [r EXCEPT !.status = "pending", !.requestedBy = entry.actor]
           [] entry.action = "execute" -> [r EXCEPT !.status = "executed"]
           [] entry.action = "approve" ->
                IF r.gate1 = Nobody
                THEN [r EXCEPT !.status = "gate1-approved", !.gate1 = entry.actor]
                ELSE [r EXCEPT !.status = "approved", !.gate2 = entry.actor]
           [] entry.action = "reject" ->
                IF r.gate1 = Nobody
                THEN [r EXCEPT !.status = "rejected", !.gate1 = entry.actor]
                ELSE [r EXCEPT !.status = "rejected", !.gate2 = entry.actor]

StoryOf(type, id, start, log) ==
    FoldLeft(LAMBDA r, entry : Told(type, id, r, entry), start, log)

Story(type, id, start) == StoryOf(type, id, start, auditLog)

(* The audit log is a complete and true account: replaying who did what    *)
(* gives every run, plan, request and intent its status, and every request *)
(* the principals who asked for it and opened its gates.  Excepted are a   *)
(* change whose snapshot failed, and an approved intent whose execution    *)
(* was refused.                                                            *)
AuditTellsTheStory ==
    /\ \A i \in Intent : <<"intent", i>> \notin unanswered =>
          \/ Story("intent", i, "absent") = status[i]
          \/ Story("intent", i, "absent") = "approved" /\ status[i] = "executing"
    /\ \A r \in Run : <<"payroll-run", r>> \notin unanswered =>
          Story("payroll-run", r, "absent") = runs[r].status
    /\ \A d \in Plan : <<"distribution", d>> \notin unanswered =>
          Story("distribution", d, "absent") = plans[d].status
    /\ \A q \in Request : <<"funding-request", q>> \notin unanswered =>
          Story("funding-request", q, NoRequest) = [requests[q] EXCEPT !.amount = 0]
==============================================================================
