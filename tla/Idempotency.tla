----------------------------- MODULE Idempotency -----------------------------
(***************************************************************************)
(* The Idempotency-Key middleware and its in-memory store                  *)
(* (packages/node/src/middleware/idempotency.ts).                          *)
(*                                                                         *)
(* Requests run concurrently on one event loop.  The middleware gives the  *)
(* thread away when it reads the body, while the handler runs and when it  *)
(* reads the response back, so the lookup, the handler and the store of    *)
(* one request are separate actions.  A response is named by the request   *)
(* whose handler produced it.                                              *)
(***************************************************************************)
EXTENDS Integers, Sequences, SequencesExt, FiniteSets, Selection

CONSTANTS Req, Tenant, Path, Key, Body,
          NoTenant,    \* the request is not authenticated
          NoKey,       \* the request has no Idempotency-Key header
          Oversize,    \* BOOLEAN: responses may exceed maxBodyBytes
          maxEntries,
          ttlMs,
          MaxTime      \* bound: the clock

ASSUME StoreAssumption ==
    maxEntries \in Nat \ {0} /\ ttlMs \in Nat /\ MaxTime \in Nat /\ Oversize \in BOOLEAN

VARIABLES
    pc,       \* pc[r]: "new", "lookup", "handler", "store", "done"
    req,      \* req[r]: tenant, path, key and body of the request
    outcome,  \* outcome[r]: "none", "ok", "refused" (4xx), "fault" (5xx),
              \* "mismatch", "replay"
    source,   \* source[r]: the request whose response r was answered with
    age,      \* age[r]: age of the cache entry that was replayed
    storedAt, \* storedAt[r]: when r's response was cached, or Never
    cache,    \* the store's Map, in iteration order
    now

vars == <<pc, req, outcome, source, age, storedAt, cache, now>>

Never == -1
Blank == [tenant |-> NoTenant, path |-> "none", key |-> NoKey, body |-> "none"]

Init ==
    /\ pc = [r \in Req |-> "new"]
    /\ req = [r \in Req |-> Blank]
    /\ outcome = [r \in Req |-> "none"]
    /\ source = [r \in Req |-> r]
    /\ age = [r \in Req |-> 0]
    /\ storedAt = [r \in Req |-> Never]
    /\ cache = <<>> /\ now = 0

-----------------------------------------------------------------------------
(* InMemoryIdempotencyStore                                                *)

Expired_AtTtl(e) == now - e.cachedAt >= ttlMs

Expired(e) == now - e.cachedAt > ttlMs

(* get: an expired entry counts as absent (and is deleted by Lookup).      *)
get(key) == Select(cache, {e \in Range(cache) : e.key = key /\ ~Expired(e)})

Without(c, key) == Select(c, {e \in Range(c) : e.key # key})

(* _evictIfOverCap: the oldest go first.                                   *)
_evictIfOverCap(c) ==
    IF Len(c) > maxEntries THEN SubSeq(c, Len(c) - maxEntries + 1, Len(c)) ELSE c

(* set: delete and re-insert at the tail.                                  *)
set(entry) == _evictIfOverCap(Append(Without(cache, entry.key), entry))

sweep ==
    /\ \E i \in DOMAIN cache : Expired(cache[i])
    /\ cache' = Select(cache, {e \in Range(cache) : ~Expired(e)})
    /\ UNCHANGED <<pc, req, outcome, source, age, storedAt, now>>

-----------------------------------------------------------------------------
(* idempotencyMiddleware, for a POST                                       *)

(* The key alone names the entry.                                          *)
storeKey_Unscoped(q) == q.key

(* The template string joins the parts with ":".  The path of a POST route  *)
(* ends in a fixed segment, so only a key or an id in a path that is made   *)
(* to hold such a segment joins alike, for the tenant it belongs to.       *)
storeKey(q) == <<q.tenant, q.path, q.key>>

Bypasses(q) == q.tenant = NoTenant \/ q.key = NoKey

(* The request arrives; with a key and a tenant its body is awaited.       *)
Arrive(r, q) ==
    /\ pc[r] = "new"
    /\ req' = [req EXCEPT ![r] = q]
    /\ pc' = [pc EXCEPT ![r] = IF Bypasses(q) THEN "handler" ELSE "lookup"]
    /\ UNCHANGED <<outcome, source, age, storedAt, cache, now>>

Lookup(r) ==
    LET key == storeKey(req[r])
        hit == get(key)
    IN  /\ pc[r] = "lookup"
        /\ cache' = Select(cache, {e \in Range(cache) : ~(e.key = key /\ Expired(e))})
        /\ IF hit = <<>>
           THEN /\ pc' = [pc EXCEPT ![r] = "handler"]
                /\ UNCHANGED <<outcome, source, age>>
           ELSE /\ pc' = [pc EXCEPT ![r] = "done"]
                /\ IF hit[1].bodyHash # req[r].body
                   THEN /\ outcome' = [outcome EXCEPT ![r] = "mismatch"]
                        /\ UNCHANGED <<source, age>>
                   ELSE /\ outcome' = [outcome EXCEPT ![r] = "replay"]
                        /\ source' = [source EXCEPT ![r] = hit[1].response]
                        /\ age' = [age EXCEPT ![r] = now - hit[1].cachedAt]
        /\ UNCHANGED <<req, storedAt, now>>

Results == {"ok", "refused", "fault"}

(* next(): the mutation happens, or the handler answers with an error.     *)
Handle(r, result) ==
    /\ pc[r] = "handler"
    /\ outcome' = [outcome EXCEPT ![r] = result]
    /\ pc' = [pc EXCEPT ![r] = IF result = "ok" /\ ~Bypasses(req[r]) THEN "store" ELSE "done"]
    /\ UNCHANGED <<req, source, age, storedAt, cache, now>>

(* The response below 400 is read back and cached.                         *)
Store(r) ==
    /\ pc[r] = "store"
    /\ cache' = set([key |-> storeKey(req[r]), bodyHash |-> req[r].body,
                     response |-> r, cachedAt |-> now])
    /\ storedAt' = [storedAt EXCEPT ![r] = now]
    /\ pc' = [pc EXCEPT ![r] = "done"]
    /\ UNCHANGED <<req, outcome, source, age, now>>

(* A body above maxBodyBytes is not cached.                                *)
StoreOversize(r) ==
    /\ Oversize /\ pc[r] = "store"
    /\ pc' = [pc EXCEPT ![r] = "done"]
    /\ UNCHANGED <<req, outcome, source, age, storedAt, cache, now>>

Tick ==
    /\ now < MaxTime
    /\ now' = now + 1
    /\ UNCHANGED <<pc, req, outcome, source, age, storedAt, cache>>

Requests == [tenant : Tenant, path : Path, key : Key, body : Body]

Next ==
    \/ \E r \in Req : \/ \E q \in Requests : Arrive(r, q)
                      \/ Lookup(r) \/ Store(r) \/ StoreOversize(r)
                      \/ \E result \in Results : Handle(r, result)
    \/ sweep \/ Tick

Spec == Init /\ [][Next]_vars

-----------------------------------------------------------------------------
(* Properties                                                              *)

(* A replayed response is the caller's own: it was produced by a           *)
(* successful request of the same tenant on the same path with the same    *)
(* key and the same body, and it is not older than the TTL.                *)
ReplayIsOwn ==
    \A r \in Req : outcome[r] = "replay" =>
        /\ req[source[r]] = req[r]
        /\ outcome[source[r]] = "ok"
        /\ age[r] <= ttlMs

KeysStored == {storeKey(req[r]) : r \in {x \in Req : storedAt[x] # Never}}

(* A retry after the answer is a replay: a request that looks its key up   *)
(* when an equal request has been answered and cached within the TTL does  *)
(* not reach the handler, however often the entry was replaced, unless so  *)
(* many keys were stored that the cap may have evicted it.                 *)
RetryIsReplayed ==
    [][\A q, r \in Req :
        /\ pc[q] = "lookup" /\ pc'[q] = "handler"
        /\ storedAt[r] # Never /\ now - storedAt[r] <= ttlMs
        /\ Cardinality(KeysStored) <= maxEntries
        => req[r] # req[q]]_vars
==============================================================================
