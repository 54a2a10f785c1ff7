------------------------------- MODULE NodeApi -------------------------------
(***************************************************************************)
(* The node's HTTP application: the middleware chain of                    *)
(* packages/node/src/app.ts in secured mode (body limit, authentication,   *)
(* tenant, rate limit, idempotency, permission, handler), the registry of  *)
(* tenant services and the start and shutdown of the process (main.ts).    *)
(*                                                                         *)
(* Requests run concurrently on one event loop and give the thread away    *)
(* while the tenant initialises and inside the idempotency middleware.     *)
(***************************************************************************)
EXTENDS Idempotency, RateLimit

CONSTANTS
    MaxFaults      \* bound: failing constructions and initialisations, deaths and
                   \* shutdowns of the process, lost connections

VARIABLES
    prof,      \* prof[r]: the request as it was sent
    stage,     \* stage[r]: "none", "wire", "tenant", "app", "answered", "dropped"
    status,    \* status[r]: the answer of a request that never reached the handler
    retryIn,   \* retryIn[r]: the Retry-After header of a 429
    effect,    \* requests whose handler changed the tenant's state
    inits,     \* TenantRegistry._inits: "absent", "pending", "ready", "failed"
    buckets,   \* the authenticated TokenBucketStore
    granted,   \* granted[id][t]: tokens paid by id at time t (history)
    evicted,   \* identities that lost their bucket to the cap (history)
    proc,      \* "up", "closing", "down"
    faults,    \* faults so far
    restarts   \* of the process

serverVars == <<prof, stage, status, retryIn, effect, inits, buckets, granted, evicted,
                proc, faults, restarts>>
apiVars == <<vars, serverVars>>

NoProfile == [kind |-> "none"]
Tenants == Tenant \ {NoTenant}
Identity == Tenants \X {"operator", "viewer"}

ApiInit ==
    /\ Init
    /\ prof = [r \in Req |-> NoProfile]
    /\ stage = [r \in Req |-> "none"] /\ status = [r \in Req |-> "none"]
    /\ retryIn = [r \in Req |-> 0]
    /\ effect = {}
    /\ inits = [t \in Tenants |-> "absent"]
    /\ buckets = <<>> /\ evicted = {}
    /\ granted = [id \in Identity |-> [t \in 0..MaxTime |-> 0]]
    /\ proc = "up" /\ faults = 0 /\ restarts = 0

-----------------------------------------------------------------------------
(* The chain                                                               *)

ROLE_PERMISSIONS == [viewer   |-> {"read"},
                     operator |-> {"read", "write"},
                     admin    |-> {"read", "write", "admin"}]

hasPermission(role, permission) == permission \in ROLE_PERMISSIONS[role]

(* authMiddleware: an X-Api-Key header decides alone; a bearer token is     *)
(* looked at only without one.                                             *)
authenticated(p) ==
    p.apiKey = "known" \/ (p.apiKey = "absent" /\ p.jwt = "valid")

identity(p) == <<p.tenant, p.role>>

(* A GET route needs no permission (or "read", which every role has).      *)
forbidden(p) == p.kind = "POST" /\ ~hasPermission(p.role, "write")

cost(p) == IF p.kind = "POST" THEN WriteCost ELSE ReadCost

Reply(r, s) ==
    /\ stage' = [stage EXCEPT ![r] = "answered"]
    /\ status' = [status EXCEPT ![r] = s]

(* bodyLimit, authMiddleware, then tenantMiddleware up to its await: the   *)
(* first request of a tenant constructs the service and starts its         *)
(* initialisation, later ones share the cached promise.                    *)
Receive(r) ==
    LET p == prof[r]
    IN  /\ proc = "up" /\ stage[r] = "wire"
        /\ \/ /\ p.oversize
              /\ Reply(r, "4xx") /\ UNCHANGED inits
           \/ /\ ~p.oversize /\ ~authenticated(p)
              /\ Reply(r, "4xx") /\ UNCHANGED inits
           \/ /\ ~p.oversize /\ authenticated(p)
              /\ stage' = [stage EXCEPT ![r] = "tenant"]
              /\ inits' = [inits EXCEPT ![p.tenant] =
                             IF @ = "absent" THEN "pending" ELSE @]
              /\ UNCHANGED status
        /\ UNCHANGED <<vars, prof, retryIn, effect, buckets, granted, evicted, proc,
                       faults, restarts>>

(* The service's constructor throws: nothing is cached.                    *)
ConstructFails(r) ==
    /\ proc = "up" /\ stage[r] = "wire" /\ faults < MaxFaults
    /\ ~prof[r].oversize /\ authenticated(prof[r])
    /\ inits[prof[r].tenant] = "absent"
    /\ Reply(r, "5xx")
    /\ faults' = faults + 1
    /\ UNCHANGED <<vars, prof, retryIn, effect, inits, buckets, granted, evicted, proc, restarts>>

Running == proc \in {"up", "closing"}

Initialized(t) ==
    /\ Running /\ inits[t] = "pending"
    /\ inits' = [inits EXCEPT ![t] = "ready"]
    /\ UNCHANGED <<vars, prof, stage, status, retryIn, effect, buckets, granted, evicted,
                   proc, faults, restarts>>

(* initialize() rejects; the rejected promise stays in the map.            *)
InitializeFails(t) ==
    /\ Running /\ inits[t] = "pending" /\ faults < MaxFaults
    /\ inits' = [inits EXCEPT ![t] = "failed"]
    /\ faults' = faults + 1
    /\ UNCHANGED <<vars, prof, stage, status, retryIn, effect, buckets, granted, evicted,
                   proc, restarts>>

(* The awaited initialisation failed: the error handler answers 500.       *)
TenantUnavailable(r) ==
    /\ Running /\ stage[r] = "tenant" /\ inits[prof[r].tenant] = "failed"
    /\ Reply(r, "5xx")
    /\ UNCHANGED <<vars, prof, retryIn, effect, inits, buckets, granted, evicted, proc,
                   faults, restarts>>

Ids(b) == {b[i].id : i \in DOMAIN b}

(* rateLimitMiddleware, then the idempotency middleware up to its await.   *)
Admit(r) ==
    LET p == prof[r]
        id == identity(p)
    IN  /\ Running /\ stage[r] = "tenant" /\ inits[p.tenant] = "ready"
        /\ buckets' = consume(buckets, id, cost(p), now)
        /\ evicted' = evicted \cup (Ids(buckets) \ Ids(buckets'))
        /\ IF allowed(buckets, id, cost(p), now)
           THEN /\ stage' = [stage EXCEPT ![r] = "app"]
                /\ granted' = [granted EXCEPT ![id][now] = @ + cost(p)]
                /\ Arrive(r, [tenant |-> p.tenant, path |-> p.path, key |-> p.key,
                              body |-> p.body])
                /\ UNCHANGED status
                /\ UNCHANGED retryIn
           ELSE /\ Reply(r, "429")
                /\ retryIn' = [retryIn EXCEPT ![r] = retryAfter(buckets, id, cost(p), now)]
                /\ UNCHANGED <<vars, granted>>
        /\ UNCHANGED <<prof, effect, inits, proc, faults, restarts>>

InApp(r) == Running /\ stage[r] = "app"

(* requirePermission, validateBody and the route's handler.  A refusal or  *)
(* a fault may come before or after the state changed: every mutation      *)
(* appends its event before it applies, so the 422 of an intent that       *)
(* exceeds its budget leaves it executing, and a snapshot may fail after   *)
(* apply.  Without the permission the handler does not run.                *)
Handler(r) ==
    /\ InApp(r)
    /\ \E result \in Results :
          /\ forbidden(prof[r]) => result = "refused"
          /\ Handle(r, result)
          /\ \E changes \in BOOLEAN :
                /\ prof[r].kind # "POST" \/ forbidden(prof[r]) => ~changes
                /\ prof[r].kind = "POST" /\ result = "ok" => changes
                /\ effect' = IF changes THEN effect \cup {r} ELSE effect
    /\ UNCHANGED <<prof, stage, status, retryIn, inits, buckets, granted, evicted, proc,
                   faults, restarts>>

Middleware(r) ==
    /\ InApp(r)
    /\ Lookup(r) \/ Store(r) \/ StoreOversize(r)
    /\ UNCHANGED serverVars

(* The sweepers of the two stores.                                         *)
Sweep == Running /\ sweep /\ UNCHANGED serverVars

SweepBuckets ==
    /\ Running /\ sweepBuckets(buckets, now) # buckets
    /\ buckets' = sweepBuckets(buckets, now)
    /\ UNCHANGED <<vars, prof, stage, status, retryIn, effect, inits, granted, evicted, proc,
                   faults, restarts>>

(* What the client is told of request r, or "none" yet.                    *)
answer(r) ==
    CASE stage[r] = "answered" -> status[r]
      [] stage[r] = "app" /\ pc[r] = "done" ->
           CASE outcome[r] \in {"ok", "replay"} -> "ok"
             [] outcome[r] \in {"refused", "mismatch"} -> "4xx"
             [] OTHER -> "5xx"
      [] OTHER -> "none"

InFlight(r) == stage[r] \in {"tenant", "app"} /\ answer(r) = "none"

-----------------------------------------------------------------------------
(* The process                                                             *)

(* A signal: close() refuses new connections and lets running requests end. *)
Shutdown ==
    /\ proc = "up" /\ faults < MaxFaults
    /\ proc' = "closing" /\ faults' = faults + 1 /\ restarts' = restarts + 1
    /\ UNCHANGED <<vars, prof, stage, status, retryIn, effect, inits, buckets, granted,
                   evicted>>

(* Everything the process kept in memory goes with it.                     *)
Gone ==
    /\ proc' = "down"
    /\ stage' = [r \in Req |-> IF InFlight(r) THEN "dropped" ELSE stage[r]]
    /\ inits' = [t \in Tenants |-> "absent"]
    /\ buckets' = <<>> /\ evicted' = evicted \cup Ids(buckets)
    /\ cache' = <<>> /\ storedAt' = [r \in Req |-> Never]
    /\ UNCHANGED <<pc, req, outcome, source, age, now, prof, status, retryIn, effect,
                   granted>>

(* close() resolved, the services stopped: exit(0).                        *)
Drained == proc = "closing" /\ (\A r \in Req : ~InFlight(r)) /\ Gone /\ UNCHANGED <<faults, restarts>>

(* The shutdown deadline passed: exit(1).                                  *)
ForceExit == proc = "closing" /\ (\E r \in Req : InFlight(r)) /\ Gone /\ UNCHANGED <<faults, restarts>>

Die ==
    /\ proc = "up" /\ faults < MaxFaults
    /\ faults' = faults + 1 /\ restarts' = restarts + 1
    /\ Gone

(* main() starts it again, with empty stores.                              *)
Start ==
    /\ proc = "down"
    /\ proc' = "up"
    /\ UNCHANGED <<vars, prof, stage, status, retryIn, effect, inits, buckets, granted,
                   evicted, faults, restarts>>

ServerStep(r) ==
    Receive(r) \/ ConstructFails(r) \/ TenantUnavailable(r) \/ Admit(r)
        \/ Handler(r) \/ Middleware(r)

ServerNext ==
    \/ \E r \in Req : ServerStep(r)
    \/ \E t \in Tenants : Initialized(t) \/ InitializeFails(t)
    \/ Sweep \/ SweepBuckets
    \/ Shutdown \/ Drained \/ ForceExit \/ Die \/ Start
==============================================================================
