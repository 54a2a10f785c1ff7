------------------------------ MODULE SdkClient ------------------------------
(***************************************************************************)
(* The SDK's HTTP client (packages/sdk/src/http-client.ts) talking to one   *)
(* node over a network that loses connections.                             *)
(*                                                                         *)
(* A call makes up to maxRetries + 1 attempts before its deadline; attempt *)
(* n of call c is the request <<c, n>> of the node.  A lost connection is  *)
(* an error for the client at once; the node goes on with what it received. *)
(***************************************************************************)
EXTENDS NodeApi

CONSTANTS
    Calls,
    Scenarios,       \* [ask: [Calls -> profile], retryMutations: BOOLEAN, faults: Nat]
    maxRetries,
    timeout

(* What a caller may ask for: the SDK attaches a key to its mutations and  *)
(* to nothing else.                                                        *)
Profile ==
    [kind : {"POST", "GET", "LIST"}, oversize : BOOLEAN,
     apiKey : {"known", "unknown", "absent"}, jwt : {"valid", "invalid", "absent"},
     tenant : Tenants, role : {"operator", "viewer"}, path : Path,
     key : Key \cup {"generated", NoKey}, body : Body]

ASSUME CallsAssumption ==
    /\ IsFiniteSet(Calls) /\ maxRetries \in Nat /\ timeout \in Nat
    /\ Req = Calls \X (0..maxRetries)
    /\ NoKey \notin Key \cup Calls \cup {"generated"}

ASSUME ScenarioAssumption ==
    \A sc \in Scenarios :
        /\ sc.retryMutations \in BOOLEAN /\ sc.faults \in Nat
        /\ DOMAIN sc.ask = Calls
        /\ \A c \in Calls : \/ sc.ask[c] = NoProfile
                            \/ /\ sc.ask[c] \in Profile
                               /\ sc.ask[c].kind = "POST" <=> sc.ask[c].key # NoKey

VARIABLES
    plan,      \* the scenario: what is asked, config.retryMutations, the fault bound
    cpc,       \* cpc[c]: "new", "wait", "sleep", "done"
    attempt,   \* attempt[c]: number of the current attempt, from 0
    deadline, wake,
    res,       \* res[c]: "none", "ok", "4xx", "429", "5xx", "timeout", "network"
    unsure     \* calls with an attempt that was cut off, or was refused or faulted
               \* after its effect (history)

clientVars == <<plan, cpc, attempt, deadline, wake, res, unsure>>
allVars == <<apiVars, clientVars>>

ClientInit ==
    /\ ApiInit
    /\ plan \in Scenarios
    /\ cpc = [c \in Calls |-> "new"]
    /\ attempt = [c \in Calls |-> 0]
    /\ deadline = [c \in Calls |-> 0] /\ wake = [c \in Calls |-> 0]
    /\ res = [c \in Calls |-> "none"]
    /\ unsure = {}

Current(c) == <<c, attempt[c]>>

(* A retry without the key of the first attempt.                           *)
Send_KeyOnce(c, n, p) ==
    /\ stage' = [stage EXCEPT ![<<c, n>>] = "wire"]
    /\ prof' = [prof EXCEPT ![<<c, n>>] = [p EXCEPT !.key = IF n > 0 THEN NoKey ELSE @]]

(* The fetch of attempt n: the same headers, key and body every time.       *)
Send(c, n, p) ==
    /\ stage' = [stage EXCEPT ![<<c, n>>] = "wire"]
    /\ prof' = [prof EXCEPT ![<<c, n>>] = p]

(* What a method of a namespace of client.ts asks of the HTTP client: its   *)
(* mutations "POST", its get methods "GET" and its lists "LIST".           *)
Asked(c) == plan.ask[c]

(* request() and requestRaw().  The key is generated once per call.        *)
Request(c) ==
    LET p == Asked(c) IN
    /\ cpc[c] = "new" /\ p # NoProfile /\ now + timeout <= MaxTime
    /\ Send(c, 0, [p EXCEPT !.key = IF @ = "generated" THEN c ELSE @])
    /\ cpc' = [cpc EXCEPT ![c] = "wait"]
    /\ deadline' = [deadline EXCEPT ![c] = now + timeout]
    /\ UNCHANGED <<vars, status, retryIn, effect, inits, buckets, granted, evicted, proc, faults,
                   restarts, plan, attempt, wake, res, unsure>>

profile(c) == prof[<<c, 0>>]

(* requestRaw ("LIST") has no loop.                                        *)
canRetry(c) ==
    /\ profile(c).kind = "GET" \/ (profile(c).kind = "POST" /\ plan.retryMutations)
    /\ attempt[c] < maxRetries

Return(c, what) ==
    /\ cpc' = [cpc EXCEPT ![c] = "done"]
    /\ res' = [res EXCEPT ![c] = what]
    /\ UNCHANGED wake

(* The deadline is not after MaxTime, so a later wake-up finds nothing else. *)
Sleep(c, ticks) ==
    /\ cpc' = [cpc EXCEPT ![c] = "sleep"]
    /\ wake' = [wake EXCEPT ![c] = Least(now + ticks, MaxTime)]
    /\ UNCHANGED res

(* Exponential back-off, in units of the first delay.                      *)
backoff(n) == 2^n

(* boundedRetryWait: a Retry-After that does not fit before the deadline   *)
(* is not honoured.                                                        *)
boundedRetryWait(c, ticks) == IF ticks < deadline[c] - now THEN {ticks} ELSE {}

announced(c) == retryIn[Current(c)]

(* What the loop does with an answer.                                      *)
React(c, a) ==
    CASE a = "429" /\ canRetry(c) /\ boundedRetryWait(c, announced(c)) # {} ->
           Sleep(c, announced(c))
      [] a = "5xx" /\ canRetry(c) -> Sleep(c, backoff(attempt[c]))
      [] OTHER -> Return(c, a)

(* It took effect, and the middleware keeps no answer but a success.       *)
Settles(r) == outcome[r] \in {"fault", "refused"} /\ r \in effect

Receives(c) ==
    LET r == Current(c)
    IN  /\ cpc[c] = "wait" /\ answer(r) # "none"
        /\ React(c, answer(r))
        /\ unsure' = IF Settles(r) THEN unsure \cup {c} ELSE unsure
        /\ UNCHANGED <<apiVars, plan, attempt, deadline>>

(* A network error: back-off and retry, or NETWORK_ERROR.                  *)
NetworkError(c) ==
    /\ IF canRetry(c) THEN Sleep(c, backoff(attempt[c])) ELSE Return(c, "network")
    /\ unsure' = IF answer(Current(c)) = "none" \/ Settles(Current(c))
                 THEN unsure \cup {c} ELSE unsure
    /\ UNCHANGED <<vars, prof, status, retryIn, effect, inits, buckets, granted, evicted, proc,
                   restarts, plan, attempt, deadline>>

(* The connection breaks before the request, or before its answer, is there. *)
Lose(c) ==
    /\ cpc[c] = "wait" /\ faults < plan.faults
    /\ faults' = faults + 1
    /\ \/ UNCHANGED stage
       \/ /\ stage[Current(c)] = "wire"
          /\ stage' = [stage EXCEPT ![Current(c)] = "dropped"]
    /\ NetworkError(c)

(* The node went away, or is not there.                                    *)
Refused(c) ==
    /\ cpc[c] = "wait"
    /\ \/ stage[Current(c)] = "dropped" /\ UNCHANGED stage
       \/ /\ proc # "up" /\ stage[Current(c)] = "wire"
          /\ stage' = [stage EXCEPT ![Current(c)] = "dropped"]
    /\ NetworkError(c)
    /\ UNCHANGED faults

(* fetchWithTimeout aborts at the deadline; the error ends the call.       *)
Abort(c) ==
    /\ cpc[c] = "wait" /\ now >= deadline[c]
    /\ Return(c, "timeout")
    /\ UNCHANGED <<apiVars, plan, attempt, deadline, unsure>>

(* Retries that forget the deadline.                                       *)
Retry_NoDeadline(c) ==
    /\ cpc[c] = "sleep" /\ now >= wake[c] /\ now < deadline[c]
    /\ attempt' = [attempt EXCEPT ![c] = @ + 1]
    /\ Send(c, attempt[c] + 1, profile(c))
    /\ cpc' = [cpc EXCEPT ![c] = "wait"]
    /\ UNCHANGED <<vars, status, retryIn, effect, inits, buckets, granted, evicted, proc, faults,
                   restarts, plan, deadline, wake, res, unsure>>

(* The head of the loop after a sleep: TIMEOUT, or the next attempt.       *)
Retry(c) ==
    /\ cpc[c] = "sleep" /\ now >= wake[c]
    /\ IF now >= deadline[c]
       THEN Return(c, "timeout") /\ UNCHANGED <<attempt, stage, prof>>
       ELSE /\ attempt' = [attempt EXCEPT ![c] = @ + 1]
            /\ Send(c, attempt[c] + 1, profile(c))
            /\ cpc' = [cpc EXCEPT ![c] = "wait"]
            /\ UNCHANGED <<wake, res>>
    /\ UNCHANGED <<vars, status, retryIn, effect, inits, buckets, granted, evicted, proc, faults,
                   restarts, plan, deadline, unsure>>

ClientStep(c) == Receives(c) \/ Refused(c) \/ Abort(c) \/ Retry(c)

Clock == Tick /\ UNCHANGED <<serverVars, clientVars>>

ApiNext ==
    \/ ServerNext /\ faults' <= plan.faults /\ UNCHANGED clientVars
    \/ \E c \in Calls : Request(c) \/ ClientStep(c) \/ Lose(c)
    \/ Clock

(* The client's loop and its timers run; nothing is assumed of the node or *)
(* the network.                                                            *)
ApiSpec ==
    /\ ClientInit /\ [][ApiNext]_allVars
    /\ \A c \in Calls : WF_allVars(ClientStep(c))
    /\ WF_allVars(Clock)

-----------------------------------------------------------------------------
(* Properties                                                              *)

AttemptsOf(c) == {r \in Req : r[1] = c}
EffectsOf(c) == effect \cap AttemptsOf(c)

(* Why the node may have no answer to replay for call c: an attempt was cut *)
(* off before its answer, or refused or faulted after its effect, the      *)
(* process was replaced, the answer was too large to keep, or it expired   *)
(* or was pushed out by others.                                            *)
Forgotten(c) ==
    \/ c \in unsure \/ restarts > 0
    \/ \E r \in EffectsOf(c) \ {Current(c)} : storedAt[r] = Never \/ now - storedAt[r] > ttlMs
    \/ Cardinality(KeysStored) > maxEntries

(* What a call may conclude from its answer.  Success of a POST means that *)
(* a request with its tenant, path, key and body took effect.  A refusal   *)
(* of the only attempt by the chain (size, authentication, rate limit, a   *)
(* key used for another body, permission) means that it did not; only one  *)
(* that the handler itself threw may have left an effect behind, as a 422  *)
(* of POST /intents/:id/execute does.  And unless the node had reason to   *)
(* forget, and the caller opted into retries, there was one effect at      *)
(* most, however the attempts interleaved.                                 *)
TruthfulAnswer ==
    \A c \in Calls : cpc[c] # "new" /\ profile(c).kind = "POST" =>
        /\ res[c] = "ok" => \E r \in effect : req[r] = req[Current(c)]
        /\ res[c] \in {"4xx", "429"} /\ attempt[c] = 0 =>
              \A r \in EffectsOf(c) : outcome[r] = "refused" /\ ~forbidden(prof[r])
        /\ Cardinality(EffectsOf(c)) > 1 => plan.retryMutations /\ Forgotten(c)

(* Token bucket: in any window, a principal that kept its bucket was       *)
(* granted no more than a full bucket and what the window refills.         *)
RateIsBounded ==
    \A id \in Identity \ evicted : \A s, t \in 0..MaxTime : s <= t =>
        MapThenSumSet(LAMBDA u : granted[id][u], s..t) <= burst + rpm * (t - s)

(* Every call ends, whatever the node and the network do.                  *)
CallEnds == \A c \in Calls : cpc[c] # "new" ~> cpc[c] = "done"
==============================================================================
