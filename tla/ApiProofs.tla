------------------------------ MODULE ApiProofs ------------------------------
(***************************************************************************)
(* Theorems about the HTTP application and the SDK that calls it, for any  *)
(* set of calls, scenarios, bounds of the stores and number of faults.     *)
(***************************************************************************)
EXTENDS SdkClient, DataLemmas, TLAPS

-----------------------------------------------------------------------------
(* Types                                                                   *)

Keys == Key \cup Calls \cup {NoKey}

(* A request on the wire: the generated key has been put in.               *)
Sent ==
    {p \in [kind : {"POST", "GET", "LIST"}, oversize : BOOLEAN,
            apiKey : {"known", "unknown", "absent"}, jwt : {"valid", "invalid", "absent"},
            tenant : Tenants, role : {"operator", "viewer"}, path : Path,
            key : Keys, body : Body] : p.kind = "POST" <=> p.key # NoKey}

(* What the idempotency middleware sees of it.                             *)
Content(p) == [tenant |-> p.tenant, path |-> p.path, key |-> p.key, body |-> p.body]

StoreKeys == Tenants \X Path \X Keys
Entry == [key : StoreKeys, bodyHash : Body, response : Req, cachedAt : Nat]

Outcomes == {"none", "ok", "refused", "fault", "mismatch", "replay"}
Stages == {"none", "wire", "tenant", "app", "answered", "dropped"}
Statuses == {"none", "4xx", "429", "5xx"}

ServerType ==
    /\ pc \in [Req -> {"new", "lookup", "handler", "store", "done"}]
    /\ DOMAIN req = Req
    /\ outcome \in [Req -> Outcomes]
    /\ source \in [Req -> Req]
    /\ age \in [Req -> Int]
    /\ storedAt \in [Req -> Int]
    /\ now \in 0..MaxTime
    /\ prof \in [Req -> Sent \cup {NoProfile}]
    /\ stage \in [Req -> Stages] /\ status \in [Req -> Statuses]
    /\ effect \in SUBSET Req

(* A process that is not up has been, or is being, replaced.               *)
ProcOK ==
    /\ proc \in {"up", "closing", "down"} /\ restarts \in Nat
    /\ proc # "up" => restarts > 0

ClientType ==
    /\ plan \in Scenarios
    /\ cpc \in [Calls -> {"new", "wait", "sleep", "done"}]
    /\ attempt \in [Calls -> 0..maxRetries]
    /\ DOMAIN res = Calls
    /\ unsure \in SUBSET Calls

-----------------------------------------------------------------------------
(* The life of a request                                                   *)

Life(r) ==
    /\ stage[r] = "none" \/ prof[r] \in Sent
    /\ stage[r] \in {"none", "wire", "tenant", "answered"} => pc[r] = "new"
    /\ pc[r] # "new" => req[r] = Content(prof[r])
    /\ pc[r] \in {"new", "lookup", "handler"} => outcome[r] = "none"
    /\ pc[r] \in {"lookup", "store"} => ~Bypasses(req[r])
    /\ pc[r] = "store" => outcome[r] = "ok"
    /\ outcome[r] \in {"replay", "mismatch"} => pc[r] = "done" /\ ~Bypasses(req[r])
    /\ r \in effect => /\ outcome[r] \in {"ok", "fault", "refused"}
                       /\ prof[r].kind = "POST" /\ ~forbidden(prof[r])
    /\ outcome[r] = "ok" /\ prof[r].kind = "POST" => r \in effect
    /\ storedAt[r] # Never => /\ storedAt[r] \in 0..now /\ pc[r] = "done"
                              /\ outcome[r] = "ok" /\ ~Bypasses(req[r])
    /\ stage[r] = "answered" => status[r] # "none"

Lives == \A r \in Req : Life(r)

-----------------------------------------------------------------------------
(* The cache                                                               *)

(* An entry is the answer of the request that stored it.                   *)
Authentic(e) ==
    /\ storedAt[e.response] # Never /\ e.cachedAt = storedAt[e.response]
    /\ e.key = storeKey(req[e.response]) /\ e.bodyHash = req[e.response].body

CacheOK ==
    /\ cache \in Seq(Entry)
    /\ \A i \in DOMAIN cache : Authentic(cache[i])
    /\ \A i, j \in DOMAIN cache : cache[i].key = cache[j].key => i = j

(* What was stored within the TTL is there, as long as the keys ever stored *)
(* fit.                                                                    *)
Held ==
    Cardinality(KeysStored) <= maxEntries =>
        \A r \in Req : storedAt[r] # Never /\ now - storedAt[r] <= ttlMs =>
            \E i \in DOMAIN cache : cache[i].key = storeKey(req[r]) /\ cache[i].cachedAt >= storedAt[r]

Replays ==
    \A r \in Req : outcome[r] = "replay" =>
        /\ outcome[source[r]] = "ok" /\ pc[source[r]] # "new"
        /\ req[source[r]] = req[r] /\ age[r] <= ttlMs

-----------------------------------------------------------------------------
(* The calls                                                               *)

(* The attempts of a call: the sent ones are alike, the earlier ones       *)
(* answered unless the caller was left unsure.                             *)
AttemptsOK(c) ==
    /\ cpc[c] = "new" => attempt[c] = 0 /\ stage[<<c, 0>>] = "none"
    /\ \A n \in 0..maxRetries :
          /\ n > attempt[c] => stage[<<c, n>>] = "none"
          /\ n <= attempt[c] /\ cpc[c] # "new" =>
                stage[<<c, n>>] # "none" /\ prof[<<c, n>>] = profile(c)
          /\ c \notin unsure /\ (n < attempt[c] \/ (n = attempt[c] /\ cpc[c] = "sleep")) =>
                answer(<<c, n>>) # "none" /\ ~Settles(<<c, n>>)
    /\ cpc[c] = "sleep" => attempt[c] < maxRetries
    /\ (cpc[c] = "sleep" \/ attempt[c] > 0) /\ profile(c).kind = "POST" => plan.retryMutations

(* What the call returned is what its last attempt was answered.           *)
Answers(c) ==
    /\ cpc[c] # "done" => res[c] = "none"
    /\ res[c] \in {"ok", "4xx", "429"} => answer(Current(c)) = res[c]

MayAct(r) == pc[r] \in {"handler", "store"} \/ r \in effect

(* A later attempt acts after an effect only where the node could forget.  *)
Forgets(c) ==
    \A m, n \in 0..maxRetries : m < n /\ <<c, m>> \in effect /\ MayAct(<<c, n>>) =>
        \/ c \in unsure \/ restarts > 0
        \/ storedAt[<<c, m>>] = Never \/ now - storedAt[<<c, m>>] > ttlMs
        \/ Cardinality(KeysStored) > maxEntries

CallsOK == \A c \in Calls : AttemptsOK(c) /\ Answers(c)
ForgetsOK == \A c \in Calls : Forgets(c)

ServerOK == ServerType /\ ProcOK /\ Lives /\ CacheOK /\ Held /\ Replays
ApiInv == ServerOK /\ ClientType /\ CallsOK /\ ForgetsOK

-----------------------------------------------------------------------------
(* What a step does to the requests                                        *)

reqVars == <<vars, prof, stage, status, effect>>

(* Requests are answered, dropped or moved on before they reach the app.   *)
Quiet ==
    /\ UNCHANGED <<vars, prof, effect>>
    /\ stage' \in [Req -> Stages] /\ status' \in [Req -> Statuses]
    /\ \A r \in Req :
          \/ stage'[r] = stage[r] /\ status'[r] = status[r]
          \/ /\ stage[r] \in {"wire", "tenant"} /\ stage'[r] \in {"tenant", "answered", "dropped"}
             /\ stage'[r] = "answered" => status'[r] # "none"

Sends(r, p) ==
    /\ stage[r] = "none"
    /\ stage' = [stage EXCEPT ![r] = "wire"] /\ prof' = [prof EXCEPT ![r] = p]
    /\ UNCHANGED <<vars, status, effect>>

Admits(r) ==
    /\ stage[r] = "tenant" /\ stage' = [stage EXCEPT ![r] = "app"]
    /\ Arrive(r, Content(prof[r]))
    /\ UNCHANGED <<prof, status, effect>>

ServerMove ==
    \/ Quiet
    \/ \E r \in Req, p \in Sent : Sends(r, p)
    \/ \E r \in Req : Admits(r) \/ Handler(r) \/ Middleware(r)
    \/ Sweep \/ Clock \/ Gone

(* A step that leaves the requests alone is quiet.                         *)
LEMMA QuietFrame ==
    ASSUME ServerType, UNCHANGED reqVars
    PROVE  Quiet
BY DEF ServerType, reqVars, Quiet

(* One request that is answered, moved on or dropped is quiet too.         *)
LEMMA QuietOne ==
    ASSUME ServerType, NEW r \in Req, stage[r] \in {"wire", "tenant"},
           NEW g \in {"tenant", "answered", "dropped"}, NEW a \in Statuses,
           g = "answered" => a # "none",
           UNCHANGED <<vars, prof, effect>>,
           stage' = [stage EXCEPT ![r] = g], status' = [status EXCEPT ![r] = a]
    PROVE  Quiet
BY DEF ServerType, Quiet, Stages

(* The node's own steps.                                                   *)
LEMMA ServerMoves ==
    ASSUME ServerType, ServerNext
    PROVE  ServerMove
<1> USE DEF ServerMove
<1>1. ASSUME NEW r \in Req, Receive(r) PROVE ServerMove
  <2>1. stage[r] = "wire" /\ UNCHANGED <<vars, prof, effect>>
    BY <1>1 DEF Receive
  <2>2. CASE Reply(r, "4xx")
    <3>1. Quiet
      BY <2>1, <2>2, QuietOne DEF Reply, Statuses
    <3> QED BY <3>1
  <2>3. CASE stage' = [stage EXCEPT ![r] = "tenant"] /\ UNCHANGED status
    <3>1. status' = [status EXCEPT ![r] = status[r]] /\ status[r] \in Statuses
      BY <2>3 DEF ServerType
    <3>2. Quiet
      BY <2>1, <2>3, <3>1, QuietOne
    <3> QED BY <3>2
  <2> QED BY <1>1, <2>2, <2>3 DEF Receive
<1>2. ASSUME NEW r \in Req, ConstructFails(r) PROVE ServerMove
  <2>1. Quiet
    BY <1>2, QuietOne DEF ConstructFails, Reply, Statuses
  <2> QED BY <2>1
<1>3. ASSUME NEW r \in Req, TenantUnavailable(r) PROVE ServerMove
  <2>1. Quiet
    BY <1>3, QuietOne DEF TenantUnavailable, Reply, Statuses
  <2> QED BY <2>1
<1>4. ASSUME NEW r \in Req, Admit(r) PROVE ServerMove
  <2>1. stage[r] = "tenant" /\ UNCHANGED <<prof, effect>>
    BY <1>4 DEF Admit
  <2>2. CASE Reply(r, "429") /\ UNCHANGED vars
    <3>1. Quiet
      BY <2>1, <2>2, QuietOne DEF Reply, Statuses
    <3> QED BY <3>1
  <2>3. CASE /\ stage' = [stage EXCEPT ![r] = "app"] /\ UNCHANGED status
             /\ Arrive(r, [tenant |-> prof[r].tenant, path |-> prof[r].path, key |-> prof[r].key,
                           body |-> prof[r].body])
    <3>1. Admits(r)
      BY <2>1, <2>3 DEF Admits, Content
    <3> QED BY <3>1
  <2> QED BY <1>4, <2>2, <2>3 DEF Admit
<1>5. ASSUME NEW t \in Tenants, Initialized(t) \/ InitializeFails(t) PROVE ServerMove
  <2>1. UNCHANGED reqVars
    BY <1>5 DEF Initialized, InitializeFails, reqVars
  <2> QED BY <2>1, QuietFrame
<1>6. CASE SweepBuckets \/ Shutdown \/ Start
  <2>1. UNCHANGED reqVars
    BY <1>6 DEF SweepBuckets, Shutdown, Start, reqVars
  <2> QED BY <2>1, QuietFrame
<1>7. CASE Drained \/ ForceExit \/ Die
  BY <1>7 DEF Drained, ForceExit, Die
<1> QED BY <1>1, <1>2, <1>3, <1>4, <1>5, <1>6, <1>7 DEF ServerNext, ServerStep

(* The profile an SDK method asks for is on the wire with its key.         *)
LEMMA AskedIsSent ==
    ASSUME plan \in Scenarios, NEW c \in Calls, Asked(c) # NoProfile
    PROVE  [Asked(c) EXCEPT !.key = IF @ = "generated" THEN c ELSE @] \in Sent
<1> DEFINE p == plan.ask[c]
           q == [p EXCEPT !.key = IF @ = "generated" THEN c ELSE @]
<1>1. p \in Profile /\ (p.kind = "POST" <=> p.key # NoKey)
  BY ScenarioAssumption DEF Asked
<1>2. q.key = (IF p.key = "generated" THEN c ELSE p.key) /\ q.kind = p.kind
  BY <1>1 DEF Profile
<1>3. q.key \in Keys /\ (q.key # NoKey <=> p.key # NoKey)
  BY <1>1, <1>2, CallsAssumption DEF Profile, Keys
<1>4. q \in [kind : {"POST", "GET", "LIST"}, oversize : BOOLEAN,
            apiKey : {"known", "unknown", "absent"}, jwt : {"valid", "invalid", "absent"},
            tenant : Tenants, role : {"operator", "viewer"}, path : Path,
            key : Keys, body : Body]
  BY <1>1, <1>2, <1>3 DEF Profile
<1> HIDE DEF q
<1>5. q \in Sent
  BY <1>1, <1>2, <1>3, <1>4 DEF Sent
<1> QED BY <1>5 DEF q, Asked

(* The requests are pairs of a call and an attempt.                        *)
LEMMA ReqIs ==
    /\ \A c \in Calls, n \in 0..maxRetries : <<c, n>> \in Req
    /\ \A r \in Req : \E c \in Calls, n \in 0..maxRetries : r = <<c, n>>
BY CallsAssumption

(* The client's steps.                                                     *)
LEMMA ClientMoves ==
    ASSUME ServerType, ClientType, CallsOK, Lives, NEW c \in Calls,
           Request(c) \/ ClientStep(c) \/ Lose(c)
    PROVE  ServerMove
<1> USE DEF ServerMove
<1>0. /\ attempt[c] \in 0..maxRetries /\ Current(c) \in Req /\ AttemptsOK(c)
      /\ 0 \in 0..maxRetries /\ <<c, 0>> \in Req
  BY ReqIs, CallsAssumption DEF ClientType, CallsOK, Current
<1>1. CASE Request(c)
  <2>1. stage[<<c, 0>>] = "none"
    BY <1>0, <1>1 DEF Request, AttemptsOK
  <2>2. [Asked(c) EXCEPT !.key = IF @ = "generated" THEN c ELSE @] \in Sent
    BY <1>1, AskedIsSent DEF Request, ClientType
  <2>3. Sends(<<c, 0>>, [Asked(c) EXCEPT !.key = IF @ = "generated" THEN c ELSE @])
    BY <1>1, <2>1 DEF Request, Send, Sends
  <2> QED BY <1>0, <2>2, <2>3
<1>2. CASE Receives(c) \/ Abort(c)
  <2>1. UNCHANGED reqVars
    BY <1>2 DEF Receives, Abort, reqVars, apiVars, serverVars
  <2> QED BY <2>1, QuietFrame
<1>3. CASE Retry(c)
  <2>1. CASE UNCHANGED <<stage, prof>>
    <3>1. UNCHANGED reqVars
      BY <1>3, <2>1 DEF Retry, reqVars
    <3> QED BY <3>1, QuietFrame
  <2>2. CASE Send(c, attempt[c] + 1, profile(c))
    <3>1. cpc[c] = "sleep" /\ UNCHANGED <<vars, status, effect>>
      BY <1>3 DEF Retry
    <3>2. attempt[c] + 1 \in 0..maxRetries /\ attempt[c] + 1 > attempt[c]
      BY <1>0, <3>1, CallsAssumption DEF AttemptsOK
    <3>3. <<c, attempt[c] + 1>> \in Req /\ stage[<<c, attempt[c] + 1>>] = "none"
      BY <1>0, <3>2, ReqIs DEF AttemptsOK
    <3>4. profile(c) \in Sent
      <4>1. stage[<<c, 0>>] # "none"
        BY <1>0, <3>1 DEF AttemptsOK
      <4> QED BY <1>0, <4>1 DEF Lives, Life, profile
    <3>5. Sends(<<c, attempt[c] + 1>>, profile(c))
      BY <2>2, <3>1, <3>3 DEF Send, Sends
    <3> QED BY <3>3, <3>4, <3>5
  <2> QED BY <1>3, <2>1, <2>2 DEF Retry
<1>4. CASE Refused(c) \/ Lose(c)
  <2>1. UNCHANGED <<vars, prof, status, effect>>
    BY <1>4 DEF Refused, Lose, NetworkError
  <2>2. CASE UNCHANGED stage
    <3>1. UNCHANGED reqVars
      BY <2>1, <2>2 DEF reqVars
    <3> QED BY <3>1, QuietFrame
  <2>3. CASE stage[Current(c)] = "wire" /\ stage' = [stage EXCEPT ![Current(c)] = "dropped"]
    <3>1. status' = [status EXCEPT ![Current(c)] = status[Current(c)]]
          /\ status[Current(c)] \in Statuses
      BY <1>0, <2>1 DEF ServerType
    <3>2. Quiet
      BY <1>0, <2>1, <2>3, <3>1, QuietOne
    <3> QED BY <3>2
  <2> QED BY <1>4, <2>2, <2>3 DEF Refused, Lose
<1> QED BY <1>1, <1>2, <1>3, <1>4 DEF ClientStep

(* Every step is one of the moves.                                         *)
LEMMA Moves ==
    ASSUME ServerType, ClientType, CallsOK, Lives, [ApiNext]_allVars
    PROVE  ServerMove
<1>1. CASE UNCHANGED allVars
  <2>1. UNCHANGED reqVars
    BY <1>1 DEF allVars, apiVars, serverVars, reqVars
  <2> QED BY <2>1, QuietFrame DEF ServerMove
<1>2. CASE ServerNext
  BY <1>2, ServerMoves
<1>3. CASE Clock
  BY <1>3 DEF ServerMove
<1>4. ASSUME NEW c \in Calls, Request(c) \/ ClientStep(c) \/ Lose(c) PROVE ServerMove
  BY <1>4, ClientMoves
<1> QED BY <1>1, <1>2, <1>3, <1>4 DEF ApiNext

-----------------------------------------------------------------------------
(* The store                                                               *)

Keyed(c) ==
    /\ c \in Seq(Entry)
    /\ \A i, j \in DOMAIN c : c[i].key = c[j].key => i = j

(* Dropping entries keeps the store's Map a map.                           *)
LEMMA KeyedSelect ==
    ASSUME NEW c, Keyed(c), NEW T
    PROVE  /\ Keyed(Select(c, T))
           /\ \A k \in DOMAIN Select(c, T) : \E i \in DOMAIN c : Select(c, T)[k] = c[i] /\ c[i] \in T
           /\ \A i \in DOMAIN c : c[i] \in T => \E k \in DOMAIN Select(c, T) : Select(c, T)[k] = c[i]
<1> DEFINE d == Select(c, T)
<1>1. c \in Seq(Entry)
  BY DEF Keyed
<1>2. /\ d \in Seq(Entry)
      /\ \A k \in DOMAIN d : \E i \in DOMAIN c : d[k] = c[i] /\ c[i] \in T
      /\ \A i \in DOMAIN c : c[i] \in T => \E k \in DOMAIN d : d[k] = c[i]
      /\ \A j, k \in DOMAIN d : j # k =>
            \E i, l \in DOMAIN c : i # l /\ d[j] = c[i] /\ d[k] = c[l]
  BY <1>1, Selected
<1> HIDE DEF d
<1>3. \A j, k \in DOMAIN d : d[j].key = d[k].key => j = k
  <2> TAKE j, k \in DOMAIN d
  <2> SUFFICES ASSUME j # k PROVE d[j].key # d[k].key
    OBVIOUS
  <2>1. PICK i, l \in DOMAIN c : i # l /\ d[j] = c[i] /\ d[k] = c[l]
    BY <1>2
  <2> QED BY <2>1 DEF Keyed
<1>4. Keyed(d)
  BY <1>2, <1>3 DEF Keyed
<1> QED BY <1>2, <1>4, Zenon DEF d

(* set puts the entry in, replaces the one of its key, and keeps the rest  *)
(* unless the cap is exceeded.                                             *)
LEMMA SetFacts ==
    ASSUME Keyed(cache), NEW e \in Entry
    PROVE  /\ Keyed(set(e))
           /\ \A k \in DOMAIN set(e) : \/ set(e)[k] = e
                                       \/ \E i \in DOMAIN cache : set(e)[k] = cache[i]
           /\ LET c == Append(Without(cache, e.key), e)
              IN  /\ Keyed(c)
                  /\ \A k \in DOMAIN c : c[k] = e \/ \E i \in DOMAIN cache : c[k] = cache[i]
                  /\ Len(c) \in Nat
                  /\ Len(c) <= maxEntries =>
                        /\ \E k \in DOMAIN set(e) : set(e)[k] = e
                        /\ \A i \in DOMAIN cache : cache[i].key # e.key =>
                              \E k \in DOMAIN set(e) : set(e)[k] = cache[i]
<1> DEFINE T == {x \in Range(cache) : x.key # e.key}
           w == Select(cache, T)
           c == Append(w, e)
           s == set(e)
<1>1. /\ Keyed(w)
      /\ \A k \in DOMAIN w : \E i \in DOMAIN cache : w[k] = cache[i] /\ cache[i] \in T
      /\ \A i \in DOMAIN cache : cache[i] \in T => \E k \in DOMAIN w : w[k] = cache[i]
  <2> HIDE DEF T
  <2> QED BY KeyedSelect
<1>2. /\ \A x : x \in T => x.key # e.key
      /\ \A i \in DOMAIN cache : cache[i].key # e.key => cache[i] \in T
  BY DEF Range
<1>3. Without(cache, e.key) = w /\ s = IF Len(c) > maxEntries
         THEN SubSeq(c, Len(c) - maxEntries + 1, Len(c)) ELSE c
  BY DEF Without, set, _evictIfOverCap
<1> HIDE DEF T, w, s
<1>4. w \in Seq(Entry) /\ c \in Seq(Entry) /\ Len(c) = Len(w) + 1 /\ Len(w) \in Nat
      /\ c[Len(w) + 1] = e /\ \A k \in 1..Len(w) : c[k] = w[k]
  BY <1>1 DEF Keyed
<1> HIDE DEF c
<1>5. DOMAIN c = 1..(Len(w) + 1) /\ DOMAIN w = 1..Len(w)
  BY <1>4
<1>6. \A k \in DOMAIN c : (k = Len(w) + 1 /\ c[k] = e) \/ (k \in DOMAIN w /\ c[k] = w[k])
  BY <1>4, <1>5
<1>7. \A k \in DOMAIN w : w[k].key # e.key
  BY <1>1, <1>2
<1>8. Keyed(c)
  <2>1. ASSUME NEW i \in DOMAIN c, NEW j \in DOMAIN c, c[i].key = c[j].key PROVE i = j
    BY <1>1, <1>6, <1>7, <2>1 DEF Keyed
  <2> QED BY <1>4, <2>1 DEF Keyed
<1>9. \A k \in DOMAIN c : c[k] = e \/ \E i \in DOMAIN cache : c[k] = cache[i]
  BY <1>1, <1>6
<1>10. CASE Len(c) > maxEntries
  <2> DEFINE m == maxEntries
             d == Len(c) - m
  <2>1. m \in Nat /\ m < Len(c) /\ Len(c) \in Nat /\ d \in Nat
    BY <1>4, <1>10, StoreAssumption
  <2>2. s = SubSeq(c, Len(c) - m + 1, Len(c))
    BY <1>3, <1>10
  <2>3. s \in Seq(Entry) /\ Len(s) = m /\ \A k \in 1..m : s[k] = c[d + k]
    BY <1>4, <2>1, <2>2, LastElements
  <2>4. DOMAIN s = 1..m /\ DOMAIN c = 1..Len(c)
    BY <1>4, <2>3
  <2>5. \A k \in DOMAIN s : d + k \in DOMAIN c /\ s[k] = c[d + k]
    BY <2>1, <2>3, <2>4
  <2> HIDE DEF d
  <2>6. Keyed(s)
    <3>1. ASSUME NEW i \in DOMAIN s, NEW j \in DOMAIN s, s[i].key = s[j].key PROVE i = j
      <4>1. d + i = d + j
        BY <1>8, <2>5, <3>1 DEF Keyed
      <4> QED BY <4>1, <2>1, <2>4
    <3> QED BY <2>3, <3>1 DEF Keyed
  <2>7. \A k \in DOMAIN s : s[k] = e \/ \E i \in DOMAIN cache : s[k] = cache[i]
    BY <1>9, <2>5
  <2>8. Len(c) \in Nat /\ ~(Len(c) <= maxEntries)
    BY <1>10, <2>1
  <2> QED BY <1>3, <1>8, <1>9, <2>6, <2>7, <2>8, Zenon DEF s, c
<1>11. CASE ~(Len(c) > maxEntries)
  <2>1. s = c
    BY <1>3, <1>11
  <2>2. \E k \in DOMAIN s : s[k] = e
    BY <1>4, <1>5, <2>1
  <2>3. ASSUME NEW i \in DOMAIN cache, cache[i].key # e.key
        PROVE  \E k \in DOMAIN s : s[k] = cache[i]
    <3>1. PICK k \in DOMAIN w : w[k] = cache[i]
      BY <1>1, <1>2, <2>3
    <3>2. k \in DOMAIN c /\ c[k] = w[k]
      BY <1>4, <1>5
    <3> QED BY <2>1, <3>1, <3>2
  <2>4. Keyed(s) /\ \A k \in DOMAIN s : s[k] = e \/ \E i \in DOMAIN cache : s[k] = cache[i]
    BY <1>8, <1>9, <2>1
  <2>5. Len(c) \in Nat
    BY <1>4
  <2> QED BY <1>3, <1>8, <1>9, <2>2, <2>3, <2>4, <2>5, Zenon DEF s, c
<1> QED BY <1>10, <1>11

(* A hit is an entry of the store under the key that has not expired, and  *)
(* a miss means that there is none.                                        *)
LEMMA GetFacts ==
    ASSUME Keyed(cache), NEW key
    PROVE  /\ get(key) # <<>> => \E i \in DOMAIN cache :
                get(key)[1] = cache[i] /\ cache[i].key = key /\ ~Expired(cache[i])
           /\ get(key) = <<>> => \A i \in DOMAIN cache : cache[i].key = key => Expired(cache[i])
<1> DEFINE T == {x \in Range(cache) : x.key = key /\ ~Expired(x)}
           g == Select(cache, T)
<1>1. /\ Keyed(g)
      /\ \A k \in DOMAIN g : \E i \in DOMAIN cache : g[k] = cache[i] /\ cache[i] \in T
      /\ \A i \in DOMAIN cache : cache[i] \in T => \E k \in DOMAIN g : g[k] = cache[i]
  <2> HIDE DEF T
  <2> QED BY KeyedSelect
<1>2. get(key) = g
  BY DEF get
<1>3. /\ \A x \in T : x.key = key /\ ~Expired(x)
      /\ \A i \in DOMAIN cache : cache[i].key = key /\ ~Expired(cache[i]) => cache[i] \in T
  <2>1. \A i \in DOMAIN cache : cache[i] \in Range(cache)
    BY DEF Range
  <2> QED BY <2>1
<1> HIDE DEF T, g
<1>4. CASE g = <<>>
  <2>1. DOMAIN g = {}
    BY <1>4
  <2> QED BY <1>1, <1>2, <1>3, <1>4, <2>1
<1>5. CASE g # <<>>
  <2>1. 1 \in DOMAIN g
    <3>1. g \in Seq(Entry)
      BY <1>1 DEF Keyed
    <3> QED BY <3>1, <1>5
  <2> QED BY <1>1, <1>2, <1>3, <1>5, <2>1
<1> QED BY <1>4, <1>5

-----------------------------------------------------------------------------
(* The requests keep their types and their lives                           *)

(* What the tenant's service sees of a request that was sent.              *)
LEMMA ContentFacts ==
    ASSUME NEW p \in Sent
    PROVE  /\ Content(p).tenant = p.tenant /\ Content(p).path = p.path
           /\ Content(p).key = p.key /\ Content(p).body = p.body
           /\ storeKey(Content(p)) \in StoreKeys /\ Content(p).body \in Body
           /\ Bypasses(Content(p)) <=> p.kind # "POST"
BY DEF Content, Sent, storeKey, StoreKeys, Bypasses, Tenants

(* The types are kept.                                                     *)
LEMMA TypeMove ==
    ASSUME ServerType, CacheOK, ServerMove
    PROVE  ServerType'
<1> USE DEF ServerType
<1>1. CASE Quiet
  BY <1>1 DEF Quiet, vars
<1>2. ASSUME NEW r \in Req, NEW p \in Sent, Sends(r, p) PROVE ServerType'
  BY <1>2 DEF Sends, vars, Stages
<1>3. ASSUME NEW r \in Req, Admits(r) PROVE ServerType'
  <2>1. pc' \in [Req -> {"new", "lookup", "handler", "store", "done"}]
    BY <1>3 DEF Admits, Arrive
  <2>2. DOMAIN req' = Req
    BY <1>3 DEF Admits, Arrive
  <2> QED BY <1>3, <2>1, <2>2 DEF Admits, Arrive, Stages
<1>4. ASSUME NEW r \in Req, Handler(r) PROVE ServerType'
  <2>1. PICK result \in Results : Handle(r, result)
    BY <1>4 DEF Handler
  <2>2. effect' \in SUBSET Req
    BY <1>4 DEF Handler
  <2>3. pc' \in [Req -> {"new", "lookup", "handler", "store", "done"}]
    BY <2>1 DEF Handle
  <2>4. outcome' \in [Req -> Outcomes]
    BY <2>1 DEF Handle, Results, Outcomes
  <2>5. UNCHANGED <<prof, stage, status>>
    BY <1>4 DEF Handler
  <2> QED BY <2>1, <2>2, <2>3, <2>4, <2>5 DEF Handle
<1>5. ASSUME NEW r \in Req, Lookup(r), UNCHANGED serverVars PROVE ServerType'
  <2> DEFINE hit == get(storeKey(req[r]))
  <2>1. hit # <<>> => hit[1].response \in Req /\ now - hit[1].cachedAt \in Int
    <3>1. Keyed(cache) /\ \A i \in DOMAIN cache : cache[i] \in Entry
      BY DEF CacheOK, Keyed
    <3>2. hit # <<>> => \E i \in DOMAIN cache : hit[1] = cache[i]
      BY <3>1, GetFacts
    <3>3. now \in Int
      OBVIOUS
    <3> QED BY <3>1, <3>2, <3>3 DEF Entry
  <2> HIDE DEF hit
  <2>2. UNCHANGED <<prof, stage, status, effect, req, storedAt, now>>
    BY <1>5 DEF serverVars, Lookup
  <2>3. /\ pc' \in [Req -> {"new", "lookup", "handler", "store", "done"}]
        /\ outcome' \in [Req -> Outcomes]
    BY <1>5 DEF Lookup, Outcomes
  <2>4. source' \in [Req -> Req] /\ age' \in [Req -> Int]
    <3>1. \/ UNCHANGED <<source, age>>
          \/ /\ hit # <<>>
             /\ source' = [source EXCEPT ![r] = hit[1].response]
             /\ age' = [age EXCEPT ![r] = now - hit[1].cachedAt]
      BY <1>5 DEF Lookup, hit
    <3>2. source \in [Req -> Req] /\ age \in [Req -> Int]
      OBVIOUS
    <3>3. CASE /\ hit # <<>>
               /\ source' = [source EXCEPT ![r] = hit[1].response]
               /\ age' = [age EXCEPT ![r] = now - hit[1].cachedAt]
      <4> DEFINE a == hit[1].response
                 d == now - hit[1].cachedAt
      <4>1. a \in Req /\ d \in Int
        BY <2>1, <3>3
      <4> HIDE DEF a, d, ServerType
      <4>2. [source EXCEPT ![r] = a] \in [Req -> Req] /\ [age EXCEPT ![r] = d] \in [Req -> Int]
        BY <3>2, <4>1
      <4> QED BY <3>3, <4>2 DEF a, d
    <3> QED BY <3>1, <3>2, <3>3
  <2> QED BY <2>2, <2>3, <2>4
<1>6. ASSUME NEW r \in Req, Store(r) \/ StoreOversize(r), UNCHANGED serverVars PROVE ServerType'
  <2>1. UNCHANGED <<prof, stage, status, effect, req, outcome, source, age, now>>
    BY <1>6 DEF serverVars, Store, StoreOversize
  <2>2. pc' \in [Req -> {"new", "lookup", "handler", "store", "done"}]
    BY <1>6 DEF Store, StoreOversize
  <2>3. storedAt' \in [Req -> Int]
    BY <1>6 DEF Store, StoreOversize
  <2> QED BY <2>1, <2>2, <2>3
<1>7. CASE Sweep
  BY <1>7 DEF Sweep, sweep, serverVars
<1>8. CASE Clock
  BY <1>8, StoreAssumption DEF Clock, Tick, serverVars
<1>9. CASE Gone
  BY <1>9 DEF Gone, Stages, Never
<1> QED BY <1>1, <1>2, <1>3, <1>4, <1>5, <1>6, <1>7, <1>8, <1>9 DEF ServerMove, Middleware

(* A request that the step does not touch goes on as it was.               *)
LEMMA LifeFrame ==
    ASSUME ServerType, NEW r \in Req, Life(r), now' >= now, now' \in Nat,
           stage'[r] = stage[r] /\ prof'[r] = prof[r] /\ pc'[r] = pc[r] /\ req'[r] = req[r],
           outcome'[r] = outcome[r] /\ status'[r] = status[r] /\ (r \in effect' <=> r \in effect),
           storedAt'[r] \in {storedAt[r], Never}
    PROVE  Life(r)'
BY DEF Life, ServerType, Bypasses, Never

(* Every request leads its life.                                           *)
LEMMA LivesMove ==
    ASSUME ServerType, Lives, ServerMove
    PROVE  Lives'
<1> SUFFICES ASSUME NEW x \in Req PROVE Life(x)'
  BY DEF Lives
<1>0. Life(x) /\ now \in Nat /\ now >= now
  BY DEF Lives, ServerType
<1>1. CASE Quiet
  BY <1>0, <1>1 DEF Quiet, vars, Life, Bypasses, ServerType
<1>2. ASSUME NEW r \in Req, NEW p \in Sent, Sends(r, p) PROVE Life(x)'
  <2>1. UNCHANGED <<pc, req, outcome, storedAt, now, status, effect>>
    BY <1>2 DEF Sends, vars
  <2>2. CASE x = r
    <3>1. pc[x] = "new" /\ stage'[x] = "wire" /\ prof'[x] = p
      BY <1>0, <1>2, <2>2 DEF Sends, Life, ServerType
    <3> QED BY <1>0, <2>1, <3>1 DEF Life, Bypasses
  <2>3. CASE x # r
    <3>1. stage'[x] = stage[x] /\ prof'[x] = prof[x]
      BY <1>2, <2>3 DEF Sends, ServerType
    <3> QED BY <1>0, <2>1, <3>1, LifeFrame
  <2> QED BY <2>2, <2>3
<1>3. ASSUME NEW r \in Req, Admits(r) PROVE Life(x)'
  <2>1. UNCHANGED <<outcome, storedAt, now, status, prof, effect>>
    BY <1>3 DEF Admits, Arrive
  <2>2. CASE x = r
    <3>1. /\ stage'[x] = "app" /\ req'[x] = Content(prof[x]) /\ pc[x] = "new" /\ prof[x] \in Sent
          /\ pc'[x] = IF Bypasses(Content(prof[x])) THEN "handler" ELSE "lookup"
      BY <1>0, <1>3, <2>2 DEF Admits, Arrive, Life, ServerType
    <3>2. outcome[x] = "none" /\ storedAt[x] = Never /\ x \notin effect
      BY <1>0, <3>1 DEF Life
    <3>3. Bypasses(req[x])' <=> Bypasses(Content(prof[x]))
      BY <3>1 DEF Bypasses
    <3> QED BY <2>1, <3>1, <3>2, <3>3 DEF Life
  <2>3. CASE x # r
    <3>1. stage'[x] = stage[x] /\ req'[x] = req[x] /\ pc'[x] = pc[x]
      BY <1>3, <2>3 DEF Admits, Arrive, ServerType
    <3> QED BY <1>0, <2>1, <3>1, LifeFrame
  <2> QED BY <2>2, <2>3
<1>4. ASSUME NEW r \in Req, Handler(r) PROVE Life(x)'
  <2>1. UNCHANGED <<req, storedAt, now, status, prof, stage>>
    BY <1>4 DEF Handler, Handle
  <2>2. CASE x = r
    <3>1. PICK result \in Results :
            /\ forbidden(prof[r]) => result = "refused"
            /\ Handle(r, result)
            /\ \E changes \in BOOLEAN :
                  /\ prof[r].kind # "POST" \/ forbidden(prof[r]) => ~changes
                  /\ prof[r].kind = "POST" /\ result = "ok" => changes
                  /\ effect' = IF changes THEN effect \cup {r} ELSE effect
      BY <1>4 DEF Handler
    <3>2. /\ pc[x] = "handler" /\ outcome'[x] = result /\ stage[x] = "app"
          /\ pc'[x] = IF result = "ok" /\ ~Bypasses(req[x]) THEN "store" ELSE "done"
      BY <1>4, <2>2, <3>1 DEF Handler, InApp, Handle, ServerType
    <3>3. storedAt[x] = Never /\ x \notin effect /\ req[x] = Content(prof[x]) /\ prof[x] \in Sent
      BY <1>0, <3>2 DEF Life
    <3>4. /\ x \in effect' => ~forbidden(prof[x]) /\ prof[x].kind = "POST"
          /\ prof[x].kind = "POST" /\ result = "ok" => x \in effect'
      BY <2>2, <3>1, <3>3
    <3>5. Bypasses(req[x])' <=> Bypasses(req[x])
      BY <2>1 DEF Bypasses
    <3> QED BY <1>0, <2>1, <3>2, <3>3, <3>4, <3>5 DEF Life, Results
  <2>3. CASE x # r
    <3>1. outcome'[x] = outcome[x] /\ pc'[x] = pc[x] /\ (x \in effect' <=> x \in effect)
      BY <1>4, <2>3 DEF Handler, Handle, ServerType
    <3> QED BY <1>0, <2>1, <3>1, LifeFrame
  <2> QED BY <2>2, <2>3
<1>5. ASSUME NEW r \in Req, InApp(r), Lookup(r) \/ Store(r) \/ StoreOversize(r), UNCHANGED serverVars
      PROVE  Life(x)'
  <2>1. UNCHANGED <<req, now, status, prof, stage, effect>>
    BY <1>5 DEF Lookup, Store, StoreOversize, serverVars
  <2>b. Bypasses(req[x])' <=> Bypasses(req[x])
    BY <2>1 DEF Bypasses
  <2>2. CASE x = r /\ Lookup(r)
    <3>1. /\ pc[x] = "lookup" /\ UNCHANGED storedAt /\ stage[x] = "app"
          /\ \/ pc'[x] = "handler" /\ outcome'[x] = outcome[x]
             \/ pc'[x] = "done" /\ outcome'[x] \in {"mismatch", "replay"}
      BY <1>5, <2>2 DEF Lookup, ServerType, InApp
    <3>2. storedAt[x] = Never /\ x \notin effect /\ ~Bypasses(req[x]) /\ outcome[x] = "none"
      BY <1>0, <3>1 DEF Life
    <3> QED BY <1>0, <2>1, <2>b, <3>1, <3>2 DEF Life
  <2>3. CASE x = r /\ ~Lookup(r)
    <3>1. /\ pc[x] = "store" /\ UNCHANGED outcome /\ stage[x] = "app" /\ pc'[x] = "done"
          /\ storedAt'[x] \in {storedAt[x], now}
      BY <1>5, <2>3 DEF Store, StoreOversize, ServerType, InApp
    <3>2. storedAt[x] = Never /\ ~Bypasses(req[x]) /\ outcome[x] = "ok"
      BY <1>0, <3>1 DEF Life
    <3>3. now \in 0..now
      BY <1>0
    <3> QED BY <1>0, <2>1, <2>b, <3>1, <3>2, <3>3 DEF Life
  <2>4. CASE x # r
    <3>1. outcome'[x] = outcome[x] /\ pc'[x] = pc[x] /\ storedAt'[x] = storedAt[x]
      BY <1>5, <2>4 DEF Lookup, Store, StoreOversize, ServerType
    <3> QED BY <1>0, <2>1, <3>1, LifeFrame
  <2> QED BY <2>2, <2>3, <2>4
<1>6. CASE Sweep
  BY <1>0, <1>6, LifeFrame DEF Sweep, sweep, serverVars
<1>7. CASE Clock
  <2>1. now' \in Nat /\ now' >= now
    BY <1>0, <1>7 DEF Clock, Tick
  <2> QED BY <1>0, <1>7, <2>1, LifeFrame DEF Clock, Tick, serverVars
<1>8. CASE Gone
  <2>1. /\ UNCHANGED <<pc, req, outcome, now, prof, status, effect>> /\ storedAt'[x] = Never
        /\ stage'[x] = stage[x] \/ (stage'[x] = "dropped" /\ stage[x] \in {"tenant", "app"})
    BY <1>8 DEF Gone, InFlight
  <2> QED BY <1>0, <2>1 DEF Life, Bypasses
<1> QED BY <1>1, <1>2, <1>3, <1>4, <1>5, <1>6, <1>7, <1>8 DEF ServerMove, Middleware

-----------------------------------------------------------------------------
(* What is settled stays                                                   *)

Answered(r) == stage[r] = "answered" \/ (stage[r] = "app" /\ pc[r] = "done")

(* What the client is told, case by case.                                  *)
LEMMA AnswerCases ==
    ASSUME ServerType, NEW r \in Req, Life(r)
    PROVE  /\ answer(r) # "none" <=> Answered(r)
           /\ stage[r] = "answered" => answer(r) = status[r]
           /\ stage[r] = "app" /\ pc[r] = "done" =>
                 /\ answer(r) = "ok" <=> outcome[r] \in {"ok", "replay"}
                 /\ answer(r) = "4xx" <=> outcome[r] \in {"refused", "mismatch"}
                 /\ answer(r) # "429"
<1>1. CASE stage[r] = "answered"
  <2>1. answer(r) = status[r]
    BY <1>1 DEF answer
  <2> QED BY <1>1, <2>1 DEF Life, Answered
<1>2. CASE stage[r] = "app" /\ pc[r] = "done"
  <2>1. answer(r) = CASE outcome[r] \in {"ok", "replay"} -> "ok"
                      [] outcome[r] \in {"refused", "mismatch"} -> "4xx"
                      [] OTHER -> "5xx"
    BY <1>2 DEF answer
  <2>2. CASE outcome[r] \in {"ok", "replay"}
    <3>1. answer(r) = "ok"
      BY <2>1, <2>2
    <3> QED BY <1>2, <2>2, <3>1 DEF Answered
  <2>3. CASE outcome[r] \in {"refused", "mismatch"}
    <3>1. answer(r) = "4xx"
      BY <2>1, <2>3
    <3> QED BY <1>2, <2>3, <3>1 DEF Answered
  <2>4. CASE outcome[r] \notin {"ok", "replay", "refused", "mismatch"}
    <3>1. answer(r) = "5xx"
      BY <2>1, <2>4
    <3> QED BY <1>2, <2>4, <3>1 DEF Answered
  <2> QED BY <2>2, <2>3, <2>4
<1>3. CASE ~Answered(r)
  <2>1. answer(r) = "none"
    BY <1>3 DEF answer, Answered
  <2> QED BY <1>3, <2>1 DEF Answered
<1> QED BY <1>1, <1>2, <1>3 DEF Answered

Stays(r) ==
    /\ pc[r] # "new" => pc'[r] # "new" /\ req'[r] = req[r]
    /\ stage[r] # "none" => stage'[r] # "none" /\ prof'[r] = prof[r]
    /\ r \in effect => r \in effect'
    /\ pc[r] = "done" => /\ pc'[r] = "done" /\ outcome'[r] = outcome[r]
                         /\ source'[r] = source[r] /\ age'[r] = age[r]
                         /\ r \in effect' => r \in effect
    /\ storedAt[r] # Never => storedAt'[r] = storedAt[r] \/ Gone
    /\ Answered(r) => /\ stage'[r] = stage[r] /\ status'[r] = status[r] /\ pc'[r] = pc[r]
                      /\ outcome'[r] = outcome[r] /\ (r \in effect' => r \in effect)
                      /\ storedAt'[r] = storedAt[r] \/ Gone

(* No step takes back what a request has become.                           *)
LEMMA StaysMove ==
    ASSUME ServerType, Lives, ServerMove, NEW x \in Req
    PROVE  Stays(x)
<1>0. Life(x)
  BY DEF Lives
<1>1. CASE Quiet
  BY <1>0, <1>1 DEF Quiet, vars, Stays, Answered
<1>2. ASSUME NEW r \in Req, NEW p \in Sent, Sends(r, p) PROVE Stays(x)
  BY <1>0, <1>2 DEF Sends, vars, Stays, Answered, ServerType
<1>3. ASSUME NEW r \in Req, Admits(r) PROVE Stays(x)
  BY <1>0, <1>3 DEF Admits, Arrive, Stays, Answered, ServerType
<1>4. ASSUME NEW r \in Req, Handler(r) PROVE Stays(x)
  <2>1. UNCHANGED <<req, source, age, storedAt, now, status, prof, stage>> /\ stage[r] = "app"
        /\ pc[r] = "handler"
    BY <1>4 DEF Handler, Handle, InApp
  <2>2. x # r => outcome'[x] = outcome[x] /\ pc'[x] = pc[x]
    BY <1>4 DEF Handler, Handle, ServerType
  <2>3. pc'[r] # "new"
    BY <1>4 DEF Handler, Handle, ServerType
  <2>4. effect \subseteq effect' /\ effect' \subseteq effect \cup {r}
    BY <1>4 DEF Handler
  <2> QED BY <2>1, <2>2, <2>3, <2>4 DEF Stays, Answered
<1>5. ASSUME NEW r \in Req, InApp(r), Lookup(r) \/ Store(r) \/ StoreOversize(r), UNCHANGED serverVars
      PROVE  Stays(x)
  <2>1. UNCHANGED <<req, now, status, prof, stage, effect>> /\ pc[r] \in {"lookup", "store"}
    BY <1>5 DEF Lookup, Store, StoreOversize, serverVars
  <2>2. x # r => /\ outcome'[x] = outcome[x] /\ pc'[x] = pc[x] /\ storedAt'[x] = storedAt[x]
                 /\ source'[x] = source[x] /\ age'[x] = age[x]
    BY <1>5 DEF Lookup, Store, StoreOversize, ServerType
  <2>3. pc'[r] # "new"
    BY <1>5 DEF Lookup, Store, StoreOversize, ServerType
  <2>4. x = r => storedAt[x] = Never /\ ~Answered(x)
    BY <1>0, <1>5, <2>1 DEF Life, Answered, InApp
  <2> QED BY <2>1, <2>2, <2>3, <2>4 DEF Stays
<1>6. CASE Sweep
  BY <1>6 DEF Sweep, sweep, serverVars, Stays
<1>7. CASE Clock
  BY <1>7 DEF Clock, Tick, serverVars, Stays
<1>8. CASE Gone
  <2>1. UNCHANGED <<pc, req, outcome, source, age, now, prof, status, effect>>
    BY <1>8 DEF Gone
  <2>2. stage'[x] = stage[x] \/ (stage'[x] = "dropped" /\ answer(x) = "none")
    BY <1>8 DEF Gone, InFlight
  <2>3. Answered(x) => stage'[x] = stage[x]
    BY <1>0, <2>2, AnswerCases
  <2> QED BY <1>8, <2>1, <2>2, <2>3 DEF Stays
<1> QED BY <1>1, <1>2, <1>3, <1>4, <1>5, <1>6, <1>7, <1>8 DEF ServerMove, Middleware

(* An answer is not changed once it is given.                              *)
LEMMA AnswerStays ==
    ASSUME ServerType, Lives, ServerMove, NEW r \in Req, Answered(r)
    PROVE  answer(r)' = answer(r) /\ (Settles(r)' => Settles(r)) /\ Answered(r)'
<1>1. stage'[r] = stage[r] /\ status'[r] = status[r] /\ pc'[r] = pc[r]
      /\ outcome'[r] = outcome[r] /\ (r \in effect' => r \in effect)
  BY StaysMove DEF Stays
<1>2. answer(r)' = answer(r)
  BY <1>1 DEF answer
<1> QED BY <1>1, <1>2 DEF Settles, Answered

-----------------------------------------------------------------------------
(* The cache holds answers, and those it should                            *)

(* Steps that only drop entries keep the cache authentic.                  *)
LEMMA CacheFrame ==
    ASSUME ServerType, Lives, CacheOK, ServerMove, ~Gone, Keyed(cache'),
           \A k \in DOMAIN cache' : \E i \in DOMAIN cache : cache'[k] = cache[i]
    PROVE  CacheOK'
<1>1. ASSUME NEW k \in DOMAIN cache' PROVE Authentic(cache[k])'
  <2>1. PICK i \in DOMAIN cache : cache'[k] = cache[i]
    OBVIOUS
  <2> DEFINE r == cache[i].response
  <2>a. cache[i] \in Entry
    BY DEF CacheOK
  <2>2. Authentic(cache[i]) /\ r \in Req
    BY <2>a DEF CacheOK, Entry
  <2>3. storedAt[r] # Never /\ Stays(r) /\ Life(r)
    BY <2>2, StaysMove DEF Authentic, Lives
  <2>4. storedAt'[r] = storedAt[r] /\ req'[r] = req[r]
    BY <2>3 DEF Stays, Life
  <2> QED BY <2>1, <2>2, <2>4 DEF Authentic, storeKey
<1> QED BY <1>1 DEF CacheOK, Keyed

(* What Lookup, sweep and the others leave in the cache.                   *)
LEMMA CacheShrinks ==
    ASSUME ServerType, CacheOK, ServerMove, ~Gone, \A r \in Req : ~(InApp(r) /\ Store(r))
    PROVE  /\ Keyed(cache')
           /\ \A k \in DOMAIN cache' : \E i \in DOMAIN cache : cache'[k] = cache[i]
           /\ \A i \in DOMAIN cache : ~Expired(cache[i]) =>
                 \E k \in DOMAIN cache' : cache'[k] = cache[i]
<1>0. Keyed(cache)
  BY DEF CacheOK, Keyed
<1>1. ASSUME NEW T, cache' = Select(cache, T), \A i \in DOMAIN cache : ~Expired(cache[i]) => cache[i] \in T
      PROVE  /\ Keyed(cache')
             /\ \A k \in DOMAIN cache' : \E i \in DOMAIN cache : cache'[k] = cache[i]
             /\ \A i \in DOMAIN cache : ~Expired(cache[i]) =>
                   \E k \in DOMAIN cache' : cache'[k] = cache[i]
  BY <1>0, <1>1, KeyedSelect
<1>2. \A i \in DOMAIN cache : cache[i] \in Range(cache)
  BY DEF Range
<1>3. CASE Sweep
  <2>1. cache' = Select(cache, {e \in Range(cache) : ~Expired(e)})
    BY <1>3 DEF Sweep, sweep
  <2> QED BY <1>1, <1>2, <2>1
<1>4. ASSUME NEW r \in Req, Lookup(r)
      PROVE  \E T : cache' = Select(cache, T)
                    /\ \A i \in DOMAIN cache : ~Expired(cache[i]) => cache[i] \in T
  <2>1. cache' = Select(cache, {e \in Range(cache) : ~(e.key = storeKey(req[r]) /\ Expired(e))})
    BY <1>4 DEF Lookup
  <2> QED BY <1>2, <2>1
<1>5. CASE UNCHANGED cache
  BY <1>0, <1>5
<1>6. (\E r \in Req : Lookup(r)) \/ Sweep \/ UNCHANGED cache
  BY DEF ServerMove, Quiet, Sends, Admits, Arrive, Handler, Handle, Middleware, StoreOversize,
         Clock, Tick, vars
<1>7. ASSUME NEW r \in Req, Lookup(r)
      PROVE  /\ Keyed(cache')
             /\ \A k \in DOMAIN cache' : \E i \in DOMAIN cache : cache'[k] = cache[i]
             /\ \A i \in DOMAIN cache : ~Expired(cache[i]) =>
                   \E k \in DOMAIN cache' : cache'[k] = cache[i]
  <2>1. PICK T : /\ cache' = Select(cache, T)
                 /\ \A i \in DOMAIN cache : ~Expired(cache[i]) => cache[i] \in T
    BY <1>4, <1>7
  <2> QED BY <1>1, <2>1
<1> QED BY <1>3, <1>5, <1>6, <1>7

NewEntry(r) == [key |-> storeKey(req[r]), bodyHash |-> req[r].body, response |-> r, cachedAt |-> now]

(* What Store puts in.                                                     *)
LEMMA StoreFacts ==
    ASSUME ServerType, Lives, NEW r \in Req, Store(r), stage[r] = "app"
    PROVE  /\ NewEntry(r) \in Entry /\ cache' = set(NewEntry(r))
           /\ storedAt'[r] = now /\ req' = req /\ now' = now /\ now # Never
           /\ \A x \in Req : x # r => storedAt'[x] = storedAt[x]
<1>1. pc[r] = "store" /\ Life(r)
  BY DEF Store, Lives
<1>2. req[r] = Content(prof[r]) /\ prof[r] \in Sent /\ now \in Nat
  BY <1>1 DEF Life, ServerType
<1>3. storeKey(req[r]) \in StoreKeys /\ req[r].body \in Body
  BY <1>2, ContentFacts
<1>4. NewEntry(r) \in Entry
  BY <1>2, <1>3 DEF NewEntry, Entry
<1> QED BY <1>2, <1>4 DEF Store, NewEntry, ServerType, Never

(* The cache stays a map of authentic answers.                             *)
LEMMA CacheMove ==
    ASSUME ServerType, Lives, CacheOK, ServerMove
    PROVE  CacheOK'
<1>0. Keyed(cache)
  BY DEF CacheOK, Keyed
<1>1. CASE Gone
  BY <1>1 DEF Gone, CacheOK
<1>2. CASE ~Gone /\ \A r \in Req : ~(InApp(r) /\ Store(r))
  BY <1>2, CacheShrinks, CacheFrame
<1>3. CASE \E r \in Req : InApp(r) /\ Store(r)
  <2>1. PICK r \in Req : InApp(r) /\ Store(r)
    BY <1>3
  <2>2. stage[r] = "app"
    BY <2>1 DEF InApp
  <2>3. /\ NewEntry(r) \in Entry /\ cache' = set(NewEntry(r))
        /\ storedAt'[r] = now /\ req' = req /\ now # Never
        /\ \A x \in Req : x # r => storedAt'[x] = storedAt[x]
    BY <2>1, <2>2, StoreFacts
  <2>4. /\ Keyed(cache')
        /\ \A k \in DOMAIN cache' : cache'[k] = NewEntry(r) \/ \E i \in DOMAIN cache : cache'[k] = cache[i]
    BY <1>0, <2>3, SetFacts
  <2>5. storedAt[r] = Never
    BY <2>1 DEF Lives, Life, Store
  <2>6. ASSUME NEW k \in DOMAIN cache' PROVE Authentic(cache[k])'
    <3>1. CASE cache'[k] = NewEntry(r)
      BY <2>3, <3>1 DEF Authentic, NewEntry, storeKey
    <3>2. CASE cache'[k] # NewEntry(r)
      <4>1. PICK i \in DOMAIN cache : cache'[k] = cache[i]
        BY <2>4, <3>2
      <4>a. cache[i] \in Entry
        BY DEF CacheOK
      <4>2. Authentic(cache[i]) /\ cache[i].response \in Req
        BY <4>a DEF CacheOK, Entry
      <4>3. cache[i].response # r
        BY <2>5, <4>2 DEF Authentic
      <4> QED BY <2>3, <4>1, <4>2, <4>3 DEF Authentic, storeKey
    <3> QED BY <3>1, <3>2
  <2> QED BY <2>4, <2>6 DEF CacheOK, Keyed
<1> QED BY <1>1, <1>2, <1>3

(* Finitely many keys were stored.                                         *)
LEMMA KeysFinite == IsFiniteSet(KeysStored) /\ Cardinality(KeysStored) \in Nat
<1> DEFINE D == {x \in Req : storedAt[x] # Never}
           f == [r \in D |-> storeKey(req[r])]
<1>1. IsFiniteSet(Req)
  <2>1. IsFiniteSet(0..maxRetries)
    BY CallsAssumption, FS_Interval
  <2> QED BY <2>1, CallsAssumption, FS_Product
<1>2. IsFiniteSet(D)
  BY <1>1, FS_Subset
<1>3. f \in Surjection(D, KeysStored)
  <2>1. f \in [D -> KeysStored]
    BY DEF KeysStored
  <2>2. \A k \in KeysStored : \E r \in D : f[r] = k
    BY DEF KeysStored
  <2> HIDE DEF D, f
  <2> QED BY <2>1, <2>2 DEF Surjection
<1> HIDE DEF D, f
<1> QED BY <1>2, <1>3, FS_Surjection, FS_CardinalityType

(* The keys stored stay stored until the process goes.                     *)
LEMMA KeysGrow ==
    ASSUME ServerType, Lives, ServerMove, ~Gone
    PROVE  /\ KeysStored \subseteq KeysStored'
           /\ Cardinality(KeysStored) <= Cardinality(KeysStored')
           /\ Cardinality(KeysStored) \in Nat /\ Cardinality(KeysStored') \in Nat
           /\ IsFiniteSet(KeysStored')
<1>1. ASSUME NEW r \in Req, storedAt[r] # Never
      PROVE  storedAt'[r] # Never /\ req'[r] = req[r]
  BY <1>1, StaysMove DEF Stays, Lives, Life
<1>2. KeysStored \subseteq KeysStored'
  BY <1>1 DEF KeysStored, storeKey
<1>3. IsFiniteSet(KeysStored') /\ Cardinality(KeysStored') \in Nat
  <2>1. IsFiniteSet(KeysStored)' /\ (Cardinality(KeysStored) \in Nat)'
    BY KeysFinite, PTL
  <2> QED BY <2>1
<1> QED BY <1>2, <1>3, KeysFinite, FS_Subset

(* A map whose keys are in a finite set is no longer than the set.         *)
LEMMA KeyedFits ==
    ASSUME NEW c, Keyed(c), NEW K, IsFiniteSet(K), \A k \in DOMAIN c : c[k].key \in K
    PROVE  Len(c) <= Cardinality(K)
<1> DEFINE D == 1..Len(c)
           f == [k \in D |-> c[k].key]
<1>1. Len(c) \in Nat /\ DOMAIN c = D
  BY DEF Keyed
<1>2. f \in [D -> K] /\ \A i, j \in D : f[i] = f[j] => i = j
  BY <1>1 DEF Keyed
<1>3. f \in Injection(D, K)
  <2> HIDE DEF D, f
  <2> QED BY <1>2 DEF Injection, IsInjective
<1>4. Cardinality(D) <= Cardinality(K)
  <2> HIDE DEF f, D
  <2> QED BY <1>3, FS_Injection
<1>5. Cardinality(D) = Len(c)
  BY <1>1, FS_Interval
<1> QED BY <1>4, <1>5

(* Time does not run backwards.                                            *)
LEMMA TimeMove ==
    ASSUME ServerType, ServerMove
    PROVE  now \in Nat /\ now' \in Nat /\ now' >= now
<1>0. now \in Nat
  BY DEF ServerType
<1>1. CASE Clock
  BY <1>0, <1>1 DEF Clock, Tick
<1>2. CASE ~Clock
  <2>1. now' = now
    BY <1>2 DEF ServerMove, Quiet, Sends, Admits, Arrive, Handler, Handle, Middleware, Lookup,
                Store, StoreOversize, Sweep, sweep, Gone, vars
  <2> QED BY <1>0, <2>1
<1> QED BY <1>1, <1>2

(* While the keys fit, storing an answer pushes none out.                  *)
LEMMA StoreKeeps ==
    ASSUME ServerType, Lives, CacheOK, ServerMove, ~Gone,
           NEW x \in Req, InApp(x), Store(x), Cardinality(KeysStored') <= maxEntries
    PROVE  /\ \E k \in DOMAIN cache' : cache'[k] = NewEntry(x)
           /\ \A j \in DOMAIN cache : cache[j].key # NewEntry(x).key =>
                 \E k \in DOMAIN cache' : cache'[k] = cache[j]
<1> DEFINE e == NewEntry(x)
           c == Append(Without(cache, e.key), e)
<1>1. e \in Entry /\ cache' = set(e) /\ storedAt'[x] = now /\ req' = req /\ now # Never
  BY StoreFacts DEF InApp
<1>2. e.key = storeKey(req[x])
  BY DEF NewEntry
<1>3. Keyed(cache)
  BY DEF CacheOK, Keyed
<1> HIDE DEF e
<1>4. /\ Keyed(c) /\ Len(c) \in Nat
      /\ \A k \in DOMAIN c : c[k] = e \/ \E j \in DOMAIN cache : c[k] = cache[j]
      /\ Len(c) <= maxEntries =>
            /\ \E k \in DOMAIN set(e) : set(e)[k] = e
            /\ \A j \in DOMAIN cache : cache[j].key # e.key =>
                  \E k \in DOMAIN set(e) : set(e)[k] = cache[j]
  BY <1>1, <1>3, SetFacts
<1> HIDE DEF c
<1>5. e.key \in KeysStored'
  BY <1>1, <1>2 DEF KeysStored, storeKey
<1>6. \A j \in DOMAIN cache : cache[j].key \in KeysStored'
  <2> TAKE j \in DOMAIN cache
  <2>1. cache[j] \in Entry /\ Authentic(cache[j])
    BY DEF CacheOK
  <2>2. cache[j].key \in KeysStored
    BY <2>1 DEF Authentic, KeysStored, Entry
  <2> QED BY <2>2, KeysGrow
<1>7. \A k \in DOMAIN c : c[k].key \in KeysStored'
  BY <1>4, <1>5, <1>6
<1>8. Len(c) <= Cardinality(KeysStored')
  BY <1>4, <1>7, KeyedFits, KeysGrow
<1>9. Len(c) <= maxEntries
  BY <1>4, <1>8, KeysGrow, StoreAssumption
<1> QED BY <1>1, <1>4, <1>9 DEF e

(* An answer stored within the TTL stays available.                        *)
LEMMA HeldMove ==
    ASSUME ServerType, Lives, CacheOK, Held, ServerMove
    PROVE  Held'
<1>1. CASE Gone
  BY <1>1 DEF Gone, Held
<1>2. CASE ~Gone
  <2> SUFFICES ASSUME Cardinality(KeysStored') <= maxEntries, NEW r \in Req,
                      storedAt'[r] # Never, now' - storedAt'[r] <= ttlMs
               PROVE  \E k \in DOMAIN cache' : /\ cache'[k].key = storeKey(req[r])'
                                               /\ cache'[k].cachedAt >= storedAt'[r]
    BY DEF Held
  <2>0. now \in Nat /\ now' \in Nat /\ now' >= now /\ ttlMs \in Nat
    BY StoreAssumption, TimeMove
  <2>1. Cardinality(KeysStored) <= maxEntries
    BY <1>2, KeysGrow, StoreAssumption
  <2>2. CASE storedAt[r] # Never
    <3>1. storedAt'[r] = storedAt[r] /\ req'[r] = req[r] /\ storedAt[r] \in Int
      BY <1>2, <2>2, StaysMove DEF Stays, Lives, Life, ServerType
    <3>2. now - storedAt[r] <= ttlMs
      BY <2>0, <3>1
    <3>3. PICK i \in DOMAIN cache : cache[i].key = storeKey(req[r]) /\ cache[i].cachedAt >= storedAt[r]
      BY <2>1, <2>2, <3>2 DEF Held
    <3>4. storeKey(req[r])' = storeKey(req[r])
      BY <3>1 DEF storeKey
    <3>5. CASE \A x \in Req : ~(InApp(x) /\ Store(x))
      <4>a. cache[i] \in Entry
        BY DEF CacheOK
      <4>b. cache[i].cachedAt \in Nat
        BY <4>a DEF Entry
      <4>1. ~Expired(cache[i])
        BY <2>0, <4>b, <3>1, <3>2, <3>3 DEF Expired
      <4>2. PICK k \in DOMAIN cache' : cache'[k] = cache[i]
        BY <1>2, <3>5, <4>1, CacheShrinks
      <4> QED BY <3>1, <3>3, <3>4, <4>2
    <3>6. CASE \E x \in Req : InApp(x) /\ Store(x)
      <4>1. PICK x \in Req : InApp(x) /\ Store(x)
        BY <3>6
      <4>2. CASE cache[i].key = NewEntry(x).key
        <5>1. now >= storedAt[r]
          BY <2>2, <2>0 DEF Lives, Life
        <5>2. PICK k \in DOMAIN cache' : cache'[k] = NewEntry(x)
          BY <1>2, <4>1, StoreKeeps
        <5>3. NewEntry(x).cachedAt = now
          BY DEF NewEntry
        <5> QED BY <3>1, <3>3, <3>4, <4>2, <5>1, <5>2, <5>3
      <4>3. CASE cache[i].key # NewEntry(x).key
        <5>1. PICK k \in DOMAIN cache' : cache'[k] = cache[i]
          BY <1>2, <4>1, <4>3, StoreKeeps
        <5> QED BY <3>1, <3>3, <3>4, <5>1
      <4> QED BY <4>2, <4>3
    <3> QED BY <3>5, <3>6
  <2>3. CASE storedAt[r] = Never
    <3>1. InApp(r) /\ Store(r)
      <4>1. storedAt'[r] # storedAt[r]
        BY <2>3
      <4>2. ASSUME NEW x \in Req, InApp(x), Store(x), x # r PROVE FALSE
        BY <4>1, <4>2 DEF Store, ServerType
      <4> QED BY <1>2, <4>1, <4>2 DEF ServerMove, Quiet, Sends, Admits, Arrive, Handler, Handle,
                 Middleware, Lookup, StoreOversize, Sweep, sweep, Clock, Tick, vars
    <3>2. storedAt'[r] = now /\ req' = req
      BY <3>1, StoreFacts DEF InApp
    <3>3. PICK k \in DOMAIN cache' : cache'[k] = NewEntry(r)
      BY <1>2, <3>1, StoreKeeps
    <3>4. NewEntry(r).key = storeKey(req[r]) /\ NewEntry(r).cachedAt = now
      BY DEF NewEntry
    <3>5. storeKey(req[r])' = storeKey(req[r])
      BY <3>2 DEF storeKey
    <3> QED BY <2>0, <3>2, <3>3, <3>4, <3>5
  <2> QED BY <2>2, <2>3
<1> QED BY <1>1, <1>2

(* Two requests with one store key and one body are the same request.      *)
LEMMA SameRequest ==
    ASSUME Lives, NEW q \in Req, NEW r \in Req, pc[q] # "new", pc[r] # "new",
           storeKey(req[q]) = storeKey(req[r]), req[q].body = req[r].body
    PROVE  req[q] = req[r]
<1>1. req[q] = Content(prof[q]) /\ req[r] = Content(prof[r])
  BY DEF Lives, Life
<1> QED BY <1>1 DEF Content, storeKey

(* A replay is the answer to an equal request that succeeded.              *)
LEMMA ReplaysMove ==
    ASSUME ServerType, Lives, CacheOK, Replays, ServerMove
    PROVE  Replays'
<1> SUFFICES ASSUME NEW r \in Req, outcome'[r] = "replay"
             PROVE  /\ outcome'[source'[r]] = "ok" /\ pc'[source'[r]] # "new"
                    /\ req'[source'[r]] = req'[r] /\ age'[r] <= ttlMs
  BY DEF Replays
<1>0. Stays(r) /\ Life(r)
  BY StaysMove DEF Lives
<1>1. CASE outcome[r] = "replay"
  <2> DEFINE q == source[r]
  <2>1. q \in Req /\ outcome[q] = "ok" /\ pc[q] # "new" /\ req[q] = req[r] /\ age[r] <= ttlMs
    BY <1>1 DEF Replays, ServerType
  <2>2. pc[r] = "done" /\ source'[r] = q /\ age'[r] = age[r] /\ req'[r] = req[r]
    BY <1>0, <1>1 DEF Life, Stays
  <2>3. Stays(q) /\ Life(q)
    BY <2>1, StaysMove DEF Lives
  <2> HIDE DEF q
  <2>4. pc[q] \in {"store", "done"}
    BY <2>1, <2>3 DEF Life, ServerType
  <2>5. outcome'[q] = "ok"
    <3>1. CASE pc[q] = "done"
      BY <2>1, <2>3, <3>1 DEF Stays
    <3>2. CASE pc[q] = "store"
      <4>1. ASSUME NEW x \in Req, Lookup(x) PROVE outcome'[q] = outcome[q]
        BY <2>1, <3>2, <4>1 DEF Lookup, ServerType
      <4>2. ASSUME NEW x \in Req, Handler(x) PROVE outcome'[q] = outcome[q]
        BY <2>1, <3>2, <4>2 DEF Handler, Handle, ServerType
      <4>3. outcome'[q] = outcome[q]
        BY <4>1, <4>2 DEF ServerMove, Quiet, Sends, Admits, Arrive,
                 Middleware, Store, StoreOversize, Sweep, sweep, Clock, Tick, Gone, vars
      <4> QED BY <2>1, <4>3
    <3> QED BY <2>4, <3>1, <3>2
  <2>6. pc'[q] # "new" /\ req'[q] = req[q]
    BY <2>1, <2>3 DEF Stays
  <2> QED BY <2>1, <2>2, <2>5, <2>6
<1>2. CASE outcome[r] # "replay"
  <2>1. Lookup(r)
    <3>1. ASSUME NEW x \in Req, Lookup(x), x # r PROVE FALSE
      BY <1>2, <3>1 DEF Lookup, ServerType
    <3>2. ASSUME NEW x \in Req, Handler(x) PROVE FALSE
      BY <1>2, <3>2 DEF Handler, Handle, ServerType, Results
    <3> QED BY <1>2, <3>1, <3>2 DEF ServerMove, Quiet, Sends, Admits, Arrive,
                 Middleware, Store, StoreOversize, Sweep, sweep, Clock, Tick, Gone, vars
  <2> DEFINE key == storeKey(req[r])
             hit == get(key)
  <2>2. /\ hit # <<>> /\ hit[1].bodyHash = req[r].body
        /\ source'[r] = hit[1].response /\ age'[r] = now - hit[1].cachedAt
        /\ req' = req /\ pc[r] = "lookup"
    BY <1>2, <2>1 DEF Lookup, ServerType
  <2>3. Keyed(cache)
    BY DEF CacheOK, Keyed
  <2>4. PICK i \in DOMAIN cache : hit[1] = cache[i] /\ cache[i].key = key /\ ~Expired(cache[i])
    <3> HIDE DEF key
    <3> QED BY <2>2, <2>3, GetFacts
  <2> DEFINE q == cache[i].response
  <2>5. cache[i] \in Entry /\ Authentic(cache[i])
    BY DEF CacheOK
  <2>6. q \in Req /\ storedAt[q] # Never /\ key = storeKey(req[q]) /\ req[r].body = req[q].body
        /\ cache[i].cachedAt \in Nat
    BY <2>2, <2>4, <2>5 DEF Authentic, Entry
  <2>7. pc[q] = "done" /\ outcome[q] = "ok"
    BY <2>6 DEF Lives, Life
  <2>8. req[q] = req[r]
    BY <2>2, <2>6, <2>7, SameRequest
  <2>9. pc'[q] = "done" /\ outcome'[q] = "ok"
    BY <2>6, <2>7, StaysMove DEF Stays
  <2>10. now - cache[i].cachedAt <= ttlMs
    BY <2>4, <2>6, StoreAssumption DEF Expired, ServerType
  <2> QED BY <2>2, <2>4, <2>8, <2>9, <2>10
<1> QED BY <1>1, <1>2

(* A request whose answer is held is not handled again.                    *)
LEMMA MissMeansNone ==
    ASSUME ServerType, Lives, CacheOK, Held, NEW q \in Req, NEW r \in Req,
           Lookup(q), pc'[q] = "handler",
           storedAt[r] # Never, now - storedAt[r] <= ttlMs, Cardinality(KeysStored) <= maxEntries
    PROVE  storeKey(req[r]) # storeKey(req[q])
<1> SUFFICES ASSUME storeKey(req[r]) = storeKey(req[q]) PROVE FALSE
  OBVIOUS
<1>1. PICK i \in DOMAIN cache : cache[i].key = storeKey(req[r]) /\ cache[i].cachedAt >= storedAt[r]
  BY DEF Held
<1>2. get(storeKey(req[q])) = <<>>
  BY DEF Lookup, ServerType
<1>3. Keyed(cache) /\ cache[i] \in Entry
  BY DEF CacheOK, Keyed
<1>4. Expired(cache[i])
  BY <1>1, <1>2, <1>3, GetFacts
<1>5. cache[i].cachedAt \in Nat /\ now \in Nat /\ ttlMs \in Nat /\ storedAt[r] \in Int
  BY <1>3, StoreAssumption DEF Entry, ServerType
<1> QED BY <1>1, <1>4, <1>5 DEF Expired

-----------------------------------------------------------------------------
(* The calls                                                               *)

(* The process is up unless it was restarted; restarts are counted.        *)
LEMMA ProcMove ==
    ASSUME ProcOK, [ApiNext]_allVars
    PROVE  ProcOK' /\ restarts' >= restarts /\ (Gone => restarts' > 0)
<1>1. ProcOK' /\ restarts' >= restarts
  <2>1. CASE UNCHANGED <<proc, restarts>>
    BY <2>1 DEF ProcOK
  <2>2. CASE Shutdown \/ Drained \/ ForceExit \/ Die \/ Start
    BY <2>2 DEF ProcOK, Shutdown, Drained, ForceExit, Die, Start, Gone
  <2>3. ASSUME NEW r \in Req, ServerStep(r) PROVE UNCHANGED <<proc, restarts>>
    BY <2>3 DEF ServerStep, Receive, ConstructFails, TenantUnavailable, Admit, Handler, Middleware,
                serverVars
  <2>4. ASSUME NEW c \in Calls, Request(c) \/ ClientStep(c) \/ Lose(c)
        PROVE  UNCHANGED <<proc, restarts>>
    BY <2>4 DEF Request, ClientStep, Lose, Receives, Refused, Abort, Retry, NetworkError, apiVars,
                serverVars
  <2>5. CASE Clock \/ UNCHANGED allVars \/ Sweep \/ SweepBuckets
    BY <2>1, <2>5 DEF Clock, allVars, apiVars, serverVars, Sweep, SweepBuckets
  <2>6. ASSUME NEW t \in Tenants, Initialized(t) \/ InitializeFails(t)
        PROVE  UNCHANGED <<proc, restarts>>
    BY <2>6 DEF Initialized, InitializeFails
  <2> QED BY <2>1, <2>2, <2>3, <2>4, <2>5, <2>6 DEF ApiNext, ServerNext
<1> QED BY <1>1 DEF Gone, ProcOK

(* The node's steps send nothing.                                          *)
LEMMA ServerSendsNothing ==
    ASSUME ServerType, ServerNext \/ Clock \/ UNCHANGED allVars, NEW r \in Req, stage[r] = "none"
    PROVE  stage'[r] = "none"
<1>1. ASSUME NEW x \in Req, ServerStep(x) PROVE stage'[r] = "none"
  BY <1>1 DEF ServerStep, Receive, ConstructFails, TenantUnavailable, Admit, Handler, Middleware,
              serverVars, Reply, InApp, ServerType
<1>2. CASE Drained \/ ForceExit \/ Die
  BY <1>2 DEF Drained, ForceExit, Die, Gone, InFlight
<1>3. CASE Clock \/ UNCHANGED allVars \/ Sweep \/ SweepBuckets \/ Shutdown \/ Start
  BY <1>3 DEF Clock, allVars, apiVars, serverVars, Sweep, SweepBuckets, Shutdown, Start
<1>4. ASSUME NEW t \in Tenants, Initialized(t) \/ InitializeFails(t) PROVE stage'[r] = "none"
  BY <1>4 DEF Initialized, InitializeFails
<1> QED BY <1>1, <1>2, <1>3, <1>4 DEF ServerNext

(* A step that is not the call's own leaves what was said of it true.      *)
LEMMA CallFrame ==
    ASSUME ServerType, ClientType, Lives, ServerMove, NEW x \in Calls,
           AttemptsOK(x), Answers(x),
           cpc'[x] = cpc[x] /\ attempt'[x] = attempt[x] /\ res'[x] = res[x] /\ plan' = plan,
           x \in unsure => x \in unsure',
           \A n \in 0..maxRetries : stage[<<x, n>>] = "none" => stage'[<<x, n>>] = "none"
    PROVE  AttemptsOK(x)' /\ Answers(x)'
<1>0. attempt[x] \in 0..maxRetries /\ 0 \in 0..maxRetries /\ maxRetries \in Nat
  BY CallsAssumption DEF ClientType
<1>1. \A n \in 0..maxRetries : <<x, n>> \in Req
  BY ReqIs
<1>2. ASSUME NEW n \in 0..maxRetries, answer(<<x, n>>) # "none"
      PROVE  answer(<<x, n>>)' = answer(<<x, n>>) /\ (Settles(<<x, n>>)' => Settles(<<x, n>>))
  <2>1. Answered(<<x, n>>)
    BY <1>1, <1>2, AnswerCases DEF Lives
  <2> QED BY <1>1, <2>1, AnswerStays
<1>3. \A n \in 0..maxRetries : Stays(<<x, n>>)
  BY <1>1, StaysMove
<1>4. cpc[x] # "new" => profile(x)' = profile(x)
  BY <1>0, <1>3 DEF profile, AttemptsOK, Stays
<1>5. (cpc[x] = "new" => attempt[x] = 0 /\ stage[<<x, 0>>] = "none")'
  BY <1>0 DEF AttemptsOK
<1>6. ASSUME NEW n \in 0..maxRetries
      PROVE  /\ n > attempt'[x] => stage'[<<x, n>>] = "none"
             /\ n <= attempt'[x] /\ cpc'[x] # "new" =>
                   stage'[<<x, n>>] # "none" /\ prof'[<<x, n>>] = profile(x)'
             /\ x \notin unsure' /\ (n < attempt'[x] \/ (n = attempt'[x] /\ cpc'[x] = "sleep")) =>
                   answer(<<x, n>>)' # "none" /\ ~Settles(<<x, n>>)'
  BY <1>2, <1>3, <1>4 DEF AttemptsOK, Stays
<1>7. ((cpc[x] = "sleep" \/ attempt[x] > 0) /\ profile(x).kind = "POST" => plan.retryMutations)'
  BY <1>0, <1>4 DEF AttemptsOK
<1>8. AttemptsOK(x)'
  BY <1>5, <1>6, <1>7 DEF AttemptsOK
<1>9. Answers(x)'
  BY <1>0, <1>2 DEF Answers, Current
<1> QED BY <1>8, <1>9

(* A call that sleeps may retry; one that returns passes the answer on.    *)
LEMMA ReactFacts ==
    ASSUME ClientType, NEW c \in Calls, NEW a, React(c, a)
    PROVE  /\ \A x \in Calls : x # c => cpc'[x] = cpc[x] /\ res'[x] = res[x]
           /\ DOMAIN res' = Calls
           /\ cpc' \in [Calls -> {"new", "wait", "sleep", "done"}]
           /\ \/ cpc'[c] = "done" /\ res'[c] = a
              \/ cpc'[c] = "sleep" /\ res' = res /\ canRetry(c)
<1>1. CASE a = "429" /\ canRetry(c) /\ boundedRetryWait(c, announced(c)) # {}
  <2>1. Sleep(c, announced(c))
    BY <1>1 DEF React
  <2> QED BY <1>1, <2>1 DEF Sleep, ClientType
<1>2. CASE a = "5xx" /\ canRetry(c)
  <2>1. Sleep(c, backoff(attempt[c]))
    BY <1>2 DEF React
  <2> QED BY <1>2, <2>1 DEF Sleep, ClientType
<1>3. CASE /\ ~(a = "429" /\ canRetry(c) /\ boundedRetryWait(c, announced(c)) # {})
           /\ ~(a = "5xx" /\ canRetry(c))
  <2>1. Return(c, a)
    BY <1>3 DEF React
  <2> QED BY <2>1 DEF Return, ClientType
<1> QED BY <1>1, <1>2, <1>3

(* What the client's step does to the calls: c moves on, the others do not. *)
Advances(c) ==
    /\ plan' = plan /\ unsure \subseteq unsure' /\ unsure' \subseteq Calls
    /\ cpc' \in [Calls -> {"new", "wait", "sleep", "done"}] /\ DOMAIN res' = Calls
    /\ \A x \in Calls : x # c =>
          /\ cpc'[x] = cpc[x] /\ attempt'[x] = attempt[x] /\ res'[x] = res[x]
          /\ \A n \in 0..maxRetries : stage'[<<x, n>>] = stage[<<x, n>>]
    /\ \/ \* the first attempt
          /\ cpc[c] = "new" /\ cpc'[c] = "wait" /\ UNCHANGED <<attempt, res, unsure>>
          /\ stage' = [stage EXCEPT ![<<c, 0>>] = "wire"]
       \/ \* an answer, or none
          /\ cpc[c] = "wait" /\ attempt' = attempt
          /\ stage' \in {stage, [stage EXCEPT ![Current(c)] = "dropped"]}
          /\ prof' = prof /\ effect' = effect /\ pc' = pc /\ outcome' = outcome /\ status' = status
          /\ \/ /\ cpc'[c] = "done"
                /\ res'[c] \in {answer(Current(c)), "network", "timeout"}
                /\ res'[c] \in {"ok", "4xx", "429"} => stage' = stage /\ res'[c] = answer(Current(c))
             \/ cpc'[c] = "sleep" /\ canRetry(c) /\ res' = res
                /\ (c \notin unsure' => /\ answer(Current(c)) # "none" /\ ~Settles(Current(c))
                                        /\ stage' = stage)
       \/ \* out of time
          /\ cpc[c] = "sleep" /\ cpc'[c] = "done" /\ res'[c] = "timeout"
          /\ UNCHANGED <<attempt, stage, unsure>>
       \/ \* the next attempt
          /\ cpc[c] = "sleep" /\ cpc'[c] = "wait" /\ UNCHANGED <<res, unsure>>
          /\ attempt' = [attempt EXCEPT ![c] = @ + 1]
          /\ stage' = [stage EXCEPT ![<<c, attempt[c] + 1>>] = "wire"]
          /\ prof' = [prof EXCEPT ![<<c, attempt[c] + 1>>] = profile(c)]

(* Every step of the client is such a step.                                *)
LEMMA ClientAdvances ==
    ASSUME ServerType, ClientType, Lives, NEW c \in Calls, Request(c) \/ ClientStep(c) \/ Lose(c)
    PROVE  Advances(c)
<1>0. Current(c) \in Req /\ Life(Current(c)) /\ attempt[c] \in 0..maxRetries
  BY ReqIs DEF ClientType, Current, Lives
<1>a. \A x \in Calls : x # c => \A n \in 0..maxRetries : \A k : <<x, n>> # <<c, k>>
  OBVIOUS
<1>1. CASE Request(c)
  <2>1. /\ cpc[c] = "new" /\ cpc' = [cpc EXCEPT ![c] = "wait"] /\ plan' = plan
        /\ UNCHANGED <<attempt, res, unsure>> /\ stage' = [stage EXCEPT ![<<c, 0>>] = "wire"]
    BY <1>1 DEF Request, Send
  <2>2. \A x \in Calls : x # c => \A n \in 0..maxRetries : stage'[<<x, n>>] = stage[<<x, n>>]
    BY <1>a, <2>1, ReqIs DEF ServerType
  <2> QED BY <2>1, <2>2 DEF Advances, ClientType
<1>2. CASE Receives(c)
  <2>1. /\ cpc[c] = "wait" /\ answer(Current(c)) # "none" /\ React(c, answer(Current(c)))
        /\ UNCHANGED <<plan, attempt, stage, prof, effect, pc, outcome, status>>
        /\ unsure' = IF Settles(Current(c)) THEN unsure \cup {c} ELSE unsure
    BY <1>2 DEF Receives, apiVars, serverVars, vars
  <2>2. /\ \A x \in Calls : x # c => cpc'[x] = cpc[x] /\ res'[x] = res[x]
        /\ DOMAIN res' = Calls
        /\ cpc' \in [Calls -> {"new", "wait", "sleep", "done"}]
        /\ \/ cpc'[c] = "done" /\ res'[c] = answer(Current(c))
           \/ cpc'[c] = "sleep" /\ res' = res /\ canRetry(c)
    BY <2>1, ReactFacts
  <2>3. unsure \subseteq unsure' /\ unsure' \subseteq Calls /\ (Settles(Current(c)) => c \in unsure')
    BY <2>1 DEF ClientType
  <2> QED BY <2>1, <2>2, <2>3 DEF Advances
<1>3. CASE Abort(c)
  <2>1. /\ cpc[c] = "wait" /\ cpc' = [cpc EXCEPT ![c] = "done"] /\ res' = [res EXCEPT ![c] = "timeout"]
        /\ UNCHANGED <<plan, attempt, stage, prof, effect, pc, outcome, status, unsure>>
    BY <1>3 DEF Abort, Return, apiVars, serverVars, vars
  <2> QED BY <2>1 DEF Advances, ClientType
<1>4. CASE Retry(c)
  <2>1. cpc[c] = "sleep" /\ UNCHANGED <<plan, unsure>>
    BY <1>4 DEF Retry
  <2>2. CASE Return(c, "timeout") /\ UNCHANGED <<attempt, stage, prof>>
    BY <2>1, <2>2 DEF Return, Advances, ClientType
  <2>3. CASE /\ attempt' = [attempt EXCEPT ![c] = @ + 1] /\ Send(c, attempt[c] + 1, profile(c))
             /\ cpc' = [cpc EXCEPT ![c] = "wait"] /\ UNCHANGED <<wake, res>>
    <3>1. \A x \in Calls : x # c => \A n \in 0..maxRetries : stage'[<<x, n>>] = stage[<<x, n>>]
      BY <1>a, <2>3, ReqIs DEF ServerType, Send
    <3>2. \A x \in Calls : x # c => attempt'[x] = attempt[x] /\ cpc'[x] = cpc[x]
      BY <2>3 DEF ClientType
    <3> QED BY <2>1, <2>3, <3>1, <3>2 DEF Advances, ClientType, Send
  <2> QED BY <1>4, <2>2, <2>3 DEF Retry
<1>5. CASE Refused(c) \/ Lose(c)
  <2>1. /\ cpc[c] = "wait" /\ NetworkError(c)
        /\ \/ stage' = stage
           \/ stage[Current(c)] = "wire" /\ stage' = [stage EXCEPT ![Current(c)] = "dropped"]
    BY <1>5 DEF Refused, Lose
  <2>2. /\ UNCHANGED <<plan, attempt, prof, effect, pc, outcome, status>>
        /\ unsure' = IF answer(Current(c)) = "none" \/ Settles(Current(c))
                     THEN unsure \cup {c} ELSE unsure
    BY <2>1 DEF NetworkError, vars
  <2>3. /\ cpc' \in [Calls -> {"new", "wait", "sleep", "done"}] /\ DOMAIN res' = Calls
        /\ \A x \in Calls : x # c => cpc'[x] = cpc[x] /\ res'[x] = res[x]
        /\ \/ cpc'[c] = "done" /\ res'[c] = "network"
           \/ cpc'[c] = "sleep" /\ canRetry(c) /\ res' = res
    <3>1. (canRetry(c) /\ Sleep(c, backoff(attempt[c]))) \/ Return(c, "network")
      BY <2>1 DEF NetworkError
    <3>2. CASE Return(c, "network")
      BY <3>2 DEF Return, ClientType
    <3>3. CASE canRetry(c) /\ Sleep(c, backoff(attempt[c]))
      BY <3>3 DEF Sleep, ClientType
    <3> QED BY <3>1, <3>2, <3>3
  <2>4. stage[Current(c)] = "wire" => answer(Current(c)) = "none"
    BY <1>0, AnswerCases DEF Answered
  <2>5. \A x \in Calls : x # c => \A n \in 0..maxRetries : stage'[<<x, n>>] = stage[<<x, n>>]
    BY <1>a, <2>1, ReqIs DEF ServerType, Current
  <2>6. unsure \subseteq unsure' /\ unsure' \subseteq Calls
        /\ (c \notin unsure' => answer(Current(c)) # "none" /\ ~Settles(Current(c)))
    BY <2>2 DEF ClientType
  <2> QED BY <2>1, <2>2, <2>3, <2>4, <2>5, <2>6 DEF Advances
<1> QED BY <1>1, <1>2, <1>3, <1>4, <1>5 DEF ClientStep

(* The call that moves on stays as it should be.                           *)
LEMMA OwnMove ==
    ASSUME ServerType, ClientType, Lives, ServerMove, NEW c \in Calls,
           AttemptsOK(c), Answers(c), Advances(c)
    PROVE  AttemptsOK(c)' /\ Answers(c)' /\ attempt' \in [Calls -> 0..maxRetries]
<1>0. attempt[c] \in 0..maxRetries /\ 0 \in 0..maxRetries /\ maxRetries \in Nat /\ attempt[c] \in Nat
      /\ attempt \in [Calls -> 0..maxRetries] /\ plan' = plan
  BY CallsAssumption DEF ClientType, Advances
<1>1. \A n \in 0..maxRetries : <<c, n>> \in Req
  BY ReqIs
<1>2. ASSUME NEW n \in 0..maxRetries, answer(<<c, n>>) # "none"
      PROVE  answer(<<c, n>>)' = answer(<<c, n>>) /\ (Settles(<<c, n>>)' => Settles(<<c, n>>))
  <2>1. Answered(<<c, n>>)
    BY <1>1, <1>2, AnswerCases DEF Lives
  <2> QED BY <1>1, <2>1, AnswerStays
<1>3. \A n \in 0..maxRetries : Stays(<<c, n>>)
  BY <1>1, StaysMove
<1>4. cpc[c] # "new" => profile(c)' = profile(c)
  BY <1>0, <1>3 DEF profile, AttemptsOK, Stays
<1>5. CASE /\ cpc[c] = "new" /\ cpc'[c] = "wait" /\ UNCHANGED <<attempt, res, unsure>>
           /\ stage' = [stage EXCEPT ![<<c, 0>>] = "wire"]
  <2>1. attempt'[c] = 0 /\ res'[c] = "none"
    BY <1>0, <1>5 DEF AttemptsOK, Answers
  <2>2. stage'[<<c, 0>>] = "wire"
    BY <1>0, <1>1, <1>5 DEF ServerType
  <2>3. ASSUME NEW n \in 0..maxRetries, n > 0 PROVE stage'[<<c, n>>] = "none"
    <3>1. stage[<<c, n>>] = "none" /\ <<c, n>> # <<c, 0>>
      BY <1>5, <2>1, <2>3 DEF AttemptsOK
    <3> QED BY <1>1, <1>5, <3>1 DEF ServerType
  <2>4. AttemptsOK(c)'
    BY <1>0, <1>5, <2>1, <2>2, <2>3 DEF AttemptsOK, profile
  <2>5. Answers(c)'
    BY <1>5, <2>1 DEF Answers
  <2> QED BY <1>0, <1>5, <2>4, <2>5
<1>6. CASE /\ cpc[c] = "wait" /\ attempt' = attempt
           /\ stage' \in {stage, [stage EXCEPT ![Current(c)] = "dropped"]}
           /\ prof' = prof /\ effect' = effect /\ pc' = pc /\ outcome' = outcome /\ status' = status
           /\ \/ /\ cpc'[c] = "done"
                 /\ res'[c] \in {answer(Current(c)), "network", "timeout"}
                 /\ res'[c] \in {"ok", "4xx", "429"} => stage' = stage /\ res'[c] = answer(Current(c))
              \/ cpc'[c] = "sleep" /\ canRetry(c) /\ res' = res
                 /\ (c \notin unsure' => /\ answer(Current(c)) # "none" /\ ~Settles(Current(c))
                                         /\ stage' = stage)
  <2>1. ASSUME NEW n \in 0..maxRetries
        PROVE  /\ n > attempt'[c] => stage'[<<c, n>>] = "none"
               /\ n <= attempt'[c] /\ cpc'[c] # "new" =>
                     stage'[<<c, n>>] # "none" /\ prof'[<<c, n>>] = profile(c)'
    <3>1. n > attempt[c] => <<c, n>> # Current(c) /\ stage[<<c, n>>] = "none"
      BY <1>0 DEF Current, AttemptsOK
    <3>2. n > attempt[c] => stage'[<<c, n>>] = "none"
      BY <1>1, <1>6, <3>1 DEF ServerType
    <3>3. n <= attempt[c] => stage[<<c, n>>] # "none" /\ prof[<<c, n>>] = profile(c)
      BY <1>6 DEF AttemptsOK
    <3> QED BY <1>3, <1>4, <1>6, <3>2, <3>3 DEF Stays
  <2>2. ASSUME NEW n \in 0..maxRetries, c \notin unsure',
               n < attempt'[c] \/ (n = attempt'[c] /\ cpc'[c] = "sleep")
        PROVE  answer(<<c, n>>)' # "none" /\ ~Settles(<<c, n>>)'
    <3>1. c \notin unsure
      BY <2>2 DEF Advances
    <3>2. CASE n < attempt[c]
      <4>1. answer(<<c, n>>) # "none" /\ ~Settles(<<c, n>>)
        BY <3>1, <3>2 DEF AttemptsOK
      <4> QED BY <1>2, <4>1
    <3>3. CASE n = attempt[c] /\ cpc'[c] = "sleep"
      <4>1. answer(<<c, n>>) # "none" /\ ~Settles(<<c, n>>)
        BY <1>6, <2>2, <3>3 DEF Current
      <4> QED BY <1>2, <4>1
    <3> QED BY <1>6, <2>2, <3>2, <3>3
  <2>3. cpc'[c] = "sleep" => canRetry(c)
    BY <1>6
  <2>4. (cpc[c] = "sleep" => attempt[c] < maxRetries)'
    BY <1>6, <2>3 DEF canRetry
  <2>5. ((cpc[c] = "sleep" \/ attempt[c] > 0) /\ profile(c).kind = "POST" => plan.retryMutations)'
    BY <1>0, <1>4, <1>6, <2>3 DEF AttemptsOK, canRetry
  <2>6. AttemptsOK(c)'
    <3>1. cpc'[c] # "new"
      BY <1>6
    <3> QED BY <2>1, <2>2, <2>4, <2>5, <3>1 DEF AttemptsOK
  <2>7. Answers(c)'
    <3>1. Current(c)' = Current(c)
      BY <1>6 DEF Current
    <3>2. cpc'[c] # "done" => res'[c] = "none"
      BY <1>6 DEF Answers
    <3>3. ASSUME res'[c] \in {"ok", "4xx", "429"} PROVE answer(Current(c))' = res'[c]
      <4>1. CASE cpc'[c] = "done"
        <5>1. res'[c] = answer(Current(c)) /\ answer(Current(c)) # "none"
          BY <1>6, <3>3, <4>1
        <5>2. answer(Current(c))' = answer(Current(c))
          BY <1>0, <1>2, <1>6, <5>1 DEF Current
        <5> QED BY <5>1, <5>2
      <4>2. CASE cpc'[c] # "done"
        BY <3>2, <3>3, <4>2
      <4> QED BY <4>1, <4>2
    <3> QED BY <3>2, <3>3 DEF Answers
  <2> QED BY <1>0, <1>6, <2>6, <2>7
<1>7. CASE /\ cpc[c] = "sleep" /\ cpc'[c] = "done" /\ res'[c] = "timeout"
           /\ UNCHANGED <<attempt, stage, unsure>>
  <2>1. ASSUME NEW n \in 0..maxRetries
        PROVE  /\ n > attempt'[c] => stage'[<<c, n>>] = "none"
               /\ n <= attempt'[c] /\ cpc'[c] # "new" =>
                     stage'[<<c, n>>] # "none" /\ prof'[<<c, n>>] = profile(c)'
               /\ c \notin unsure' /\ (n < attempt'[c] \/ (n = attempt'[c] /\ cpc'[c] = "sleep")) =>
                     answer(<<c, n>>)' # "none" /\ ~Settles(<<c, n>>)'
    BY <1>2, <1>3, <1>4, <1>7 DEF AttemptsOK, Stays
  <2>2. AttemptsOK(c)'
    BY <1>0, <1>4, <1>7, <2>1 DEF AttemptsOK
  <2>3. Answers(c)'
    BY <1>7 DEF Answers
  <2> QED BY <1>0, <1>7, <2>2, <2>3
<1>8. CASE /\ cpc[c] = "sleep" /\ cpc'[c] = "wait" /\ UNCHANGED <<res, unsure>>
           /\ attempt' = [attempt EXCEPT ![c] = @ + 1]
           /\ stage' = [stage EXCEPT ![<<c, attempt[c] + 1>>] = "wire"]
           /\ prof' = [prof EXCEPT ![<<c, attempt[c] + 1>>] = profile(c)]
  <2> DEFINE k == attempt[c] + 1
  <2>1. k \in 0..maxRetries /\ attempt'[c] = k /\ k > attempt[c] /\ k > 0
    BY <1>0, <1>8 DEF AttemptsOK
  <2>2. stage'[<<c, k>>] = "wire" /\ prof'[<<c, k>>] = profile(c)
    BY <1>1, <1>8, <2>1 DEF ServerType
  <2>3. profile(c)' = profile(c)
    BY <1>4, <1>8
  <2>4. ASSUME NEW n \in 0..maxRetries, n # k
        PROVE  stage'[<<c, n>>] = stage[<<c, n>>] /\ prof'[<<c, n>>] = prof[<<c, n>>]
    <3>1. <<c, n>> # <<c, k>>
      BY <2>4
    <3> QED BY <1>1, <1>8, <3>1 DEF ServerType
  <2> HIDE DEF k
  <2>5. \A n \in 0..maxRetries : (n > k => n > attempt[c] /\ n # k) /\ (n < k => n <= attempt[c])
    BY <1>0, <2>1 DEF k
  <2>6. ASSUME NEW n \in 0..maxRetries
        PROVE  /\ n > attempt'[c] => stage'[<<c, n>>] = "none"
               /\ n <= attempt'[c] =>
                     stage'[<<c, n>>] # "none" /\ prof'[<<c, n>>] = profile(c)'
    <3>1. CASE n = k
      BY <2>1, <2>2, <2>3, <3>1
    <3>2. CASE n > k
      BY <1>8, <2>1, <2>4, <2>5, <3>2 DEF AttemptsOK
    <3>3. CASE n < k
      BY <1>8, <2>1, <2>3, <2>4, <2>5, <3>3 DEF AttemptsOK
    <3> QED BY <2>1, <3>1, <3>2, <3>3
  <2>7. ASSUME NEW n \in 0..maxRetries, c \notin unsure', n < attempt'[c]
        PROVE  answer(<<c, n>>)' # "none" /\ ~Settles(<<c, n>>)'
    <3>1. n <= attempt[c] /\ c \notin unsure
      BY <1>8, <2>1, <2>5, <2>7
    <3>2. answer(<<c, n>>) # "none" /\ ~Settles(<<c, n>>)
      BY <1>0, <1>8, <3>1 DEF AttemptsOK
    <3> QED BY <1>2, <3>2
  <2>8. profile(c)'.kind = "POST" => plan'.retryMutations
    BY <1>0, <1>8, <2>3 DEF AttemptsOK
  <2>9. AttemptsOK(c)'
    BY <1>8, <2>6, <2>7, <2>8 DEF AttemptsOK
  <2>10. Answers(c)'
    BY <1>8 DEF Answers
  <2>11. attempt' \in [Calls -> 0..maxRetries]
    BY <1>0, <1>8, <2>1 DEF k
  <2> QED BY <2>9, <2>10, <2>11
<1> QED BY <1>5, <1>6, <1>7, <1>8 DEF Advances

(* The calls stay as they should be.                                       *)
LEMMA CallsMove ==
    ASSUME ServerType, ClientType, Lives, CallsOK, [ApiNext]_allVars
    PROVE  /\ ClientType' /\ CallsOK' /\ unsure \subseteq unsure'
           /\ ServerMove
<1>0. ServerMove
  BY Moves
<1>1. CASE (ServerNext /\ UNCHANGED clientVars) \/ Clock \/ UNCHANGED allVars
  <2>1. UNCHANGED <<plan, cpc, attempt, res, unsure>>
    BY <1>1 DEF Clock, allVars, clientVars
  <2>2. ClientType'
    BY <2>1 DEF ClientType
  <2>3. ASSUME NEW x \in Calls PROVE AttemptsOK(x)' /\ Answers(x)'
    <3>1. \A n \in 0..maxRetries : stage[<<x, n>>] = "none" => stage'[<<x, n>>] = "none"
      BY <1>1, ReqIs, ServerSendsNothing
    <3> QED BY <1>0, <2>1, <3>1, CallFrame DEF CallsOK
  <2> QED BY <1>0, <2>1, <2>2, <2>3 DEF CallsOK
<1>2. ASSUME NEW c \in Calls, Request(c) \/ ClientStep(c) \/ Lose(c)
      PROVE  ClientType' /\ CallsOK' /\ unsure \subseteq unsure'
  <2>1. Advances(c)
    BY <1>2, ClientAdvances
  <2>2. AttemptsOK(c)' /\ Answers(c)' /\ attempt' \in [Calls -> 0..maxRetries]
    BY <1>0, <2>1, OwnMove DEF CallsOK
  <2>3. ClientType'
    BY <2>1, <2>2 DEF ClientType, Advances
  <2>4. ASSUME NEW x \in Calls, x # c PROVE AttemptsOK(x)' /\ Answers(x)'
    BY <1>0, <2>1, <2>4, CallFrame DEF CallsOK, Advances
  <2> QED BY <2>1, <2>2, <2>3, <2>4 DEF CallsOK, Advances
<1> QED BY <1>0, <1>1, <1>2 DEF ApiNext

(* A request comes to act by being let through, or by missing the cache.   *)
LEMMA ComesToAct ==
    ASSUME ServerType, Lives, ServerMove, NEW x \in Req, ~MayAct(x), MayAct(x)'
    PROVE  /\ stage[x] # "none"
           /\ \/ Admits(x) /\ Bypasses(Content(prof[x]))
              \/ Lookup(x) /\ pc'[x] = "handler"
<1>0. Life(x) /\ pc[x] \notin {"handler", "store"} /\ x \notin effect
      /\ (pc'[x] \in {"handler", "store"} \/ x \in effect')
  BY DEF Lives, MayAct
<1>1. ASSUME NEW r \in Req, Admits(r)
      PROVE  stage[x] # "none" /\ Admits(x) /\ Bypasses(Content(prof[x]))
  <2>1. x = r
    BY <1>0, <1>1 DEF Admits, Arrive, ServerType
  <2> QED BY <1>0, <1>1, <2>1 DEF Admits, Arrive, ServerType
<1>2. ASSUME NEW r \in Req, Handler(r) PROVE FALSE
  <2>1. pc[r] = "handler" /\ effect' \subseteq effect \cup {r} /\ (x # r => pc'[x] = pc[x])
    BY <1>2 DEF Handler, Handle, ServerType
  <2> QED BY <1>0, <2>1
<1>3. ASSUME NEW r \in Req, Middleware(r)
      PROVE  stage[x] # "none" /\ Lookup(x) /\ pc'[x] = "handler"
  <2>1. effect' = effect /\ stage[r] = "app" /\ (Lookup(r) \/ Store(r) \/ StoreOversize(r))
    BY <1>3 DEF Middleware, InApp, serverVars
  <2>2. x = r
    BY <1>0, <2>1 DEF Lookup, Store, StoreOversize, ServerType
  <2>3. Lookup(x)
    BY <1>0, <2>1, <2>2 DEF Store, StoreOversize, ServerType
  <2> QED BY <1>0, <2>1, <2>2, <2>3 DEF Lookup, ServerType
<1>4. ASSUME Quiet \/ (\E r \in Req, p \in Sent : Sends(r, p)) \/ Sweep \/ Clock \/ Gone PROVE FALSE
  BY <1>0, <1>4 DEF Quiet, Sends, Sweep, sweep, Clock, Tick, Gone, vars, serverVars
<1> QED BY <1>1, <1>2, <1>3, <1>4 DEF ServerMove

(* A second effect of a call is one the node had reason to forget.         *)
LEMMA ForgetsMove ==
    ASSUME ServerOK, ClientType, CallsOK, ForgetsOK, [ApiNext]_allVars, Lives', CallsOK', ServerType'
    PROVE  ForgetsOK'
<1> SUFFICES ASSUME NEW c \in Calls, NEW m \in 0..maxRetries, NEW n \in 0..maxRetries, m < n,
                    <<c, m>> \in effect', MayAct(<<c, n>>)', c \notin unsure', ~(restarts' > 0),
                    storedAt'[<<c, m>>] # Never, now' - storedAt'[<<c, m>>] <= ttlMs,
                    Cardinality(KeysStored') <= maxEntries
             PROVE  FALSE
  <2>1. \A c \in Calls, m \in 0..maxRetries :
           now' - storedAt'[<<c, m>>] \in Int /\ ttlMs \in Int
    <3>1. now' \in Int /\ \A r \in Req : storedAt'[r] \in Int
      BY StoreAssumption DEF ServerType
    <3> TAKE c \in Calls, m \in 0..maxRetries
    <3>2. <<c, m>> \in Req
      BY ReqIs
    <3> QED BY <3>1, <3>2, StoreAssumption
  <2>2. Cardinality(KeysStored') \in Nat /\ maxEntries \in Nat
    <3>1. (Cardinality(KeysStored) \in Nat)'
      BY KeysFinite, PTL
    <3> QED BY <3>1, StoreAssumption
  <2> QED BY <2>1, <2>2 DEF ForgetsOK, Forgets
<1> DEFINE r == <<c, m>>
           q == <<c, n>>
<1>0. r \in Req /\ q \in Req /\ ServerMove /\ ~Gone /\ ~(restarts > 0) /\ c \notin unsure
  <2>1. ServerMove /\ unsure \subseteq unsure'
    BY CallsMove DEF ServerOK
  <2>2. ProcOK' /\ restarts' >= restarts /\ (Gone => restarts' > 0)
    BY ProcMove DEF ServerOK
  <2>3. restarts \in Nat /\ restarts' \in Nat
    BY <2>2 DEF ProcOK, ServerOK
  <2> QED BY <2>1, <2>2, <2>3, ReqIs
<1>1. ServerType /\ Lives /\ CacheOK /\ Held /\ AttemptsOK(c) /\ Forgets(c)
  BY DEF ServerOK, CallsOK, ForgetsOK
<1> HIDE DEF r, q
<1>2. Stays(r) /\ Stays(q) /\ Life(r) /\ Life(q)
  BY <1>0, <1>1, StaysMove DEF Lives
<1>3. stage[q] # "none"
  <2>1. CASE MayAct(q)
    BY <1>2, <2>1 DEF MayAct, Life
  <2>2. CASE ~MayAct(q)
    BY <1>0, <1>1, <2>2, ComesToAct DEF q
  <2> QED BY <2>1, <2>2
<1>4. n <= attempt[c] /\ m < attempt[c] /\ attempt[c] \in Nat /\ cpc[c] # "new"
  <2>1. attempt[c] \in Nat
    BY CallsAssumption DEF ClientType
  <2>2. n <= attempt[c]
    BY <1>1, <1>3, <2>1 DEF AttemptsOK, q
  <2>3. cpc[c] # "new"
    BY <1>1, <2>2, <2>1 DEF AttemptsOK
  <2> QED BY <2>1, <2>2, <2>3
<1>5. prof[r] = prof[q] /\ answer(r) # "none"
  BY <1>0, <1>1, <1>4 DEF AttemptsOK, r, q
<1>6. Answered(r)
  BY <1>0, <1>1, <1>2, <1>5, AnswerCases
<1>7. r \in effect /\ storedAt'[r] = storedAt[r] /\ storedAt[r] # Never
  BY <1>0, <1>2, <1>6 DEF Stays, r
<1>8. now - storedAt[r] <= ttlMs
  <2>1. now \in Nat /\ now' \in Nat /\ now' >= now
    BY <1>0, <1>1, TimeMove
  <2>2. storedAt[r] \in Int /\ ttlMs \in Nat
    BY <1>0, <1>1, StoreAssumption DEF ServerType
  <2> QED BY <1>7, <2>1, <2>2 DEF r
<1>9. Cardinality(KeysStored) <= maxEntries /\ Cardinality(KeysStored) \in Nat
  BY <1>0, <1>1, KeysGrow, StoreAssumption
<1>10. ~MayAct(q)
  <2> SUFFICES ASSUME MayAct(q) PROVE FALSE
    OBVIOUS
  <2>1. \/ c \in unsure \/ restarts > 0
        \/ storedAt[r] = Never \/ now - storedAt[r] > ttlMs
        \/ Cardinality(KeysStored) > maxEntries
    BY <1>1, <1>7 DEF Forgets, r, q
  <2>2. now - storedAt[r] \in Int /\ ttlMs \in Nat /\ maxEntries \in Nat
    BY <1>0, <1>1, StoreAssumption DEF ServerType
  <2> QED BY <1>0, <1>7, <1>8, <1>9, <2>1, <2>2
<1>11. prof[r].kind = "POST" /\ pc[r] # "new" /\ prof[q] \in Sent
  BY <1>2, <1>3, <1>7 DEF Life
<1>12. ~Bypasses(Content(prof[q]))
  BY <1>5, <1>11, ContentFacts
<1>13. Lookup(q) /\ pc'[q] = "handler"
  BY <1>0, <1>1, <1>10, <1>12, ComesToAct DEF q
<1>14. req[q] = req[r]
  <2>1. pc[q] # "new"
    BY <1>13 DEF Lookup
  <2> QED BY <1>2, <1>5, <1>11, <2>1 DEF Life
<1> QED BY <1>0, <1>1, <1>7, <1>8, <1>9, <1>13, <1>14, MissMeansNone

-----------------------------------------------------------------------------
(* Theorems                                                                *)

(* The invariant holds at the start.                                       *)
LEMMA ApiInitial == ClientInit => ApiInv
<1> SUFFICES ASSUME ClientInit PROVE ApiInv
  OBVIOUS
<1>a. maxRetries \in Nat /\ MaxTime \in Nat /\ 0 \in 0..MaxTime /\ 0 \in 0..maxRetries
  BY CallsAssumption, StoreAssumption
<1>b. \A c \in Calls, n \in 0..maxRetries : <<c, n>> \in Req
  BY ReqIs
<1>1. ServerType
  BY <1>a DEF ClientInit, ApiInit, Init, ServerType, Outcomes, Stages, Statuses, Never
<1>2. ProcOK
  BY DEF ClientInit, ApiInit, ProcOK
<1>3. Lives
  BY DEF ClientInit, ApiInit, Init, Lives, Life, Never
<1>4. CacheOK
  BY DEF ClientInit, ApiInit, Init, CacheOK
<1>5. Held /\ Replays
  BY DEF ClientInit, ApiInit, Init, Held, Replays, Never
<1>6. ClientType
  BY <1>a DEF ClientInit, ClientType
<1>7. ASSUME NEW c \in Calls PROVE AttemptsOK(c) /\ Answers(c)
  <2>1. cpc[c] = "new" /\ attempt[c] = 0 /\ res[c] = "none"
    BY DEF ClientInit
  <2>2. \A n \in 0..maxRetries : stage[<<c, n>>] = "none" /\ ~(n < 0)
    BY <1>a, <1>b DEF ClientInit, ApiInit
  <2> QED BY <1>a, <2>1, <2>2 DEF AttemptsOK, Answers
<1>8. ForgetsOK
  BY DEF ClientInit, ApiInit, ForgetsOK, Forgets
<1> QED BY <1>1, <1>2, <1>3, <1>4, <1>5, <1>6, <1>7, <1>8 DEF ApiInv, ServerOK, CallsOK

(* Every step keeps it.                                                    *)
LEMMA ApiInductive == ApiInv /\ [ApiNext]_allVars => ApiInv'
<1> SUFFICES ASSUME ApiInv, [ApiNext]_allVars PROVE ApiInv'
  OBVIOUS
<1>0. ServerType /\ ProcOK /\ Lives /\ CacheOK /\ Held /\ Replays /\ ClientType /\ CallsOK
  BY DEF ApiInv, ServerOK
<1>1. ClientType' /\ CallsOK' /\ ServerMove
  BY <1>0, CallsMove
<1>2. ServerType' /\ Lives' /\ CacheOK' /\ Held' /\ Replays'
  BY <1>0, <1>1, TypeMove, LivesMove, CacheMove, HeldMove, ReplaysMove
<1>3. ProcOK'
  BY <1>0, ProcMove
<1>4. ForgetsOK'
  BY <1>1, <1>2, ForgetsMove DEF ApiInv
<1> QED BY <1>1, <1>2, <1>3, <1>4 DEF ApiInv, ServerOK

(* The invariant of the HTTP application and its client.                   *)
THEOREM ApiInvariant == ApiSpec => []ApiInv
<1> QED BY ApiInitial, ApiInductive, PTL DEF ApiSpec

(* A replayed response was produced by a successful request of the same    *)
(* tenant, path, key and body, within the TTL (idempotency.ts), for any    *)
(* tenants, calls, store size and TTL.                                     *)
THEOREM ReplaysAreOwn == ApiSpec => []ReplayIsOwn
<1>1. ApiInv => ReplayIsOwn
  BY DEF ApiInv, ServerOK, Replays, ReplayIsOwn
<1> QED BY <1>1, ApiInvariant, PTL

(* A request whose equal was answered and cached within the TTL is not     *)
(* handled again while the keys stored fit the cap (idempotency.ts).       *)
THEOREM RetriesAreReplayed == ApiSpec => RetryIsReplayed
<1>1. ApiInv /\ [ApiNext]_allVars =>
        [\A q, r \in Req :
            /\ pc[q] = "lookup" /\ pc'[q] = "handler"
            /\ storedAt[r] # Never /\ now - storedAt[r] <= ttlMs
            /\ Cardinality(KeysStored) <= maxEntries
            => req[r] # req[q]]_vars
  <2> SUFFICES ASSUME ApiInv, [ApiNext]_allVars, NEW q \in Req, NEW r \in Req,
                      pc[q] = "lookup", pc'[q] = "handler",
                      storedAt[r] # Never, now - storedAt[r] <= ttlMs,
                      Cardinality(KeysStored) <= maxEntries
               PROVE  req[r] # req[q]
    OBVIOUS
  <2>0. ServerType /\ Lives /\ CacheOK /\ Held /\ ServerMove
    BY CallsMove DEF ApiInv, ServerOK
  <2>1. ~MayAct(q) /\ MayAct(q)'
    BY <2>0 DEF MayAct, Lives, Life
  <2>2. Lookup(q)
    BY <2>0, <2>1, ComesToAct DEF Admits, Arrive
  <2> QED BY <2>0, <2>2, MissMeansNone
<1> QED BY <1>1, ApiInvariant, PTL DEF ApiSpec, RetryIsReplayed

(* What an answer of the SDK means (http-client.ts): success is an effect  *)
(* of an equal request, a refusal of the only attempt is none unless the   *)
(* handler itself refused, and a second effect needs retries and a reason  *)
(* of the node to forget, however the attempts, faults and restarts        *)
(* interleave.                                                             *)
THEOREM AnswersAreTruthful == ApiSpec => []TruthfulAnswer
<1>1. ApiInv => TruthfulAnswer
  <2> SUFFICES ASSUME ApiInv, NEW c \in Calls, cpc[c] # "new", profile(c).kind = "POST"
               PROVE  /\ res[c] = "ok" => \E r \in effect : req[r] = req[Current(c)]
                      /\ res[c] \in {"4xx", "429"} /\ attempt[c] = 0 =>
                            \A r \in EffectsOf(c) : outcome[r] = "refused" /\ ~forbidden(prof[r])
                      /\ Cardinality(EffectsOf(c)) > 1 => plan.retryMutations /\ Forgotten(c)
    BY DEF TruthfulAnswer
  <2> DEFINE k == Current(c)
  <2>0. /\ ServerType /\ Lives /\ Replays /\ AttemptsOK(c) /\ Answers(c) /\ Forgets(c)
        /\ attempt[c] \in 0..maxRetries /\ attempt[c] \in Nat /\ k \in Req /\ k = <<c, attempt[c]>>
        /\ maxRetries \in Nat
    BY ReqIs, CallsAssumption
       DEF ApiInv, ServerOK, CallsOK, ForgetsOK, ClientType, Current
  <2>1. Life(k) /\ prof[k] = profile(c)
    BY <2>0 DEF Lives, AttemptsOK
  <2> HIDE DEF k
  <2>2. ASSUME res[c] = "ok" PROVE \E r \in effect : req[r] = req[k]
    <3>1. answer(k) = "ok"
      BY <2>0, <2>2 DEF Answers, k
    <3>2. stage[k] = "app" /\ pc[k] = "done" /\ outcome[k] \in {"ok", "replay"}
      <4>1. Answered(k)
        BY <2>0, <2>1, <3>1, AnswerCases
      <4>2. stage[k] # "answered"
        BY <2>0, <2>1, <3>1, AnswerCases DEF ServerType, Statuses
      <4> QED BY <2>0, <2>1, <3>1, <4>1, <4>2, AnswerCases DEF Answered
    <3>3. CASE outcome[k] = "ok"
      BY <2>1, <3>3 DEF Life
    <3>4. CASE outcome[k] = "replay"
      <4> DEFINE q == source[k]
      <4>1. q \in Req /\ outcome[q] = "ok" /\ pc[q] # "new" /\ req[q] = req[k]
        BY <2>0, <3>4 DEF Replays, ServerType
      <4>2. ~Bypasses(req[q]) /\ Life(q)
        BY <2>0, <2>1, <3>4, <4>1 DEF Life, Lives
      <4>3. prof[q] \in Sent /\ req[q] = Content(prof[q])
        BY <4>1, <4>2 DEF Life
      <4>4. prof[q].kind = "POST"
        BY <4>2, <4>3, ContentFacts
      <4>5. q \in effect
        BY <4>1, <4>2, <4>4 DEF Life
      <4> QED BY <4>1, <4>5
    <3> QED BY <3>2, <3>3, <3>4
  <2>3. ASSUME NEW x \in EffectsOf(c)
        PROVE  \E n \in 0..maxRetries : x = <<c, n>> /\ n <= attempt[c] /\ x \in effect
    <3>1. x \in effect /\ x \in Req /\ x[1] = c
      BY DEF EffectsOf, AttemptsOf
    <3>2. PICK d \in Calls, n \in 0..maxRetries : x = <<d, n>>
      BY <3>1, ReqIs
    <3>3. d = c
      BY <3>1, <3>2
    <3>4. stage[x] # "none"
      BY <2>0, <3>1 DEF Lives, Life
    <3>5. n <= attempt[c]
      BY <2>0, <3>2, <3>3, <3>4 DEF AttemptsOK
    <3> QED BY <3>1, <3>2, <3>3, <3>5
  <2>4. ASSUME res[c] \in {"4xx", "429"}, attempt[c] = 0, NEW x \in EffectsOf(c)
        PROVE  outcome[x] = "refused" /\ ~forbidden(prof[x])
    <3>1. x = k /\ x \in effect
      BY <2>0, <2>3, <2>4
    <3>2. answer(k) = res[c]
      BY <2>0, <2>4 DEF Answers, k
    <3>3. outcome[k] \in {"ok", "fault", "refused"} /\ pc[k] # "new" /\ ~forbidden(prof[k])
      BY <2>1, <3>1 DEF Life
    <3>4. stage[k] = "app" /\ pc[k] = "done"
      <4>1. Answered(k)
        BY <2>0, <2>1, <2>4, <3>2, AnswerCases
      <4> QED BY <2>1, <3>3, <4>1 DEF Answered, Life
    <3>5. outcome[k] = "refused"
      BY <2>0, <2>1, <2>4, <3>2, <3>3, <3>4, AnswerCases
    <3> QED BY <3>1, <3>3, <3>5
  <2>5. ASSUME Cardinality(EffectsOf(c)) > 1 PROVE plan.retryMutations /\ Forgotten(c)
    <3>1. \E x, y \in EffectsOf(c) : x # y
      <4> SUFFICES ASSUME \A x, y \in EffectsOf(c) : x = y PROVE FALSE
        OBVIOUS
      <4>1. CASE EffectsOf(c) = {}
        <5>1. Cardinality(EffectsOf(c)) = 0
          BY <4>1, FS_EmptySet
        <5> QED BY <2>5, <5>1
      <4>2. CASE EffectsOf(c) # {}
        <5>1. PICK x \in EffectsOf(c) : TRUE
          BY <4>2
        <5>2. EffectsOf(c) = {x}
          BY <5>1
        <5>3. Cardinality(EffectsOf(c)) = 1
          BY <5>2, FS_Singleton
        <5> QED BY <2>5, <5>3
      <4> QED BY <4>1, <4>2
    <3>2. PICK x, y \in EffectsOf(c) : x # y
      BY <3>1
    <3>3. PICK m \in 0..maxRetries : x = <<c, m>> /\ m <= attempt[c] /\ x \in effect
      BY <2>3
    <3>4. PICK n \in 0..maxRetries : y = <<c, n>> /\ n <= attempt[c] /\ y \in effect
      BY <2>3
    <3>5. PICK i, j \in 0..maxRetries : /\ i < j /\ <<c, i>> \in effect /\ <<c, j>> \in effect
                                        /\ j <= attempt[c] /\ <<c, i>> \in EffectsOf(c)
      <4>1. m < n \/ n < m
        BY <3>2, <3>3, <3>4
      <4> QED BY <3>2, <3>3, <3>4, <4>1
    <3>6. attempt[c] > 0 /\ i # attempt[c] /\ <<c, i>> # Current(c)
      BY <2>0, <3>5 DEF Current
    <3>7. plan.retryMutations
      BY <2>0, <3>6 DEF AttemptsOK
    <3>8. \/ c \in unsure \/ restarts > 0
          \/ storedAt[<<c, i>>] = Never \/ now - storedAt[<<c, i>>] > ttlMs
          \/ Cardinality(KeysStored) > maxEntries
      BY <2>0, <3>5 DEF Forgets, MayAct
    <3>9. Forgotten(c)
      BY <3>5, <3>6, <3>8 DEF Forgotten
    <3> QED BY <3>7, <3>9
  <2> QED BY <2>2, <2>4, <2>5 DEF k
<1> QED BY <1>1, ApiInvariant, PTL

-----------------------------------------------------------------------------
(* The buckets                                                             *)

BucketAt(t) == [id : Identity, lastRefill : 0..t, tokens : 0..burst]

(* A map of buckets, none refilled after t.                                *)
Ided(b, t) ==
    /\ b \in Seq(BucketAt(t))
    /\ \A i, j \in DOMAIN b : b[i].id = b[j].id => i = j

Tokens(b, id, t) == Refilled(b, id, t).tokens
Granted(id, s, t) == SumOver(granted[id], s..t)
Window(s, t) == burst + rpm * (t - s)

(* What was granted, and what can be granted now, fits what was refilled.  *)
RateOK ==
    /\ now \in 0..MaxTime
    /\ granted \in [Identity -> [0..MaxTime -> Nat]]
    /\ \A id \in Identity : \A t \in 0..MaxTime : t > now => granted[id][t] = 0
    /\ Ided(buckets, now)
    /\ \A id \in Identity \ evicted : \A s, t \in 0..now : s <= t =>
          Granted(id, s, t) <= Window(s, t)
    /\ \A id \in Identity \ evicted : \A s \in 0..now :
          Granted(id, s, now) + Tokens(buckets, id, now) <= Window(s, now)

(* Arithmetic of refilling.                                                *)
LEMMA Refills ==
    /\ \A x, y \in Int : rpm * (x + y) = rpm * x + rpm * y
    /\ \A x \in Nat : rpm * x \in Nat
    /\ rpm * 1 = rpm /\ rpm * 0 = 0
<1>1. rpm \in Nat
  BY RateLimitAssumption
<1> QED BY <1>1

(* What capping a sum at b leaves of it.                                   *)
LEMMA LeastFacts ==
    ASSUME NEW b \in Nat, NEW k \in Nat, NEW g \in Nat, NEW r \in Nat, k <= b
    PROVE  /\ Least(b, k + g) \in 0..b /\ Least(b, k + (g + r)) \in 0..b
           /\ Least(b, k + (g + r)) <= Least(b, k + g) + r
           /\ g >= b => Least(b, k + g) = b
           /\ g = 0 => Least(b, k + g) = k
BY DEF Least

(* A bucket refilled is between empty and full, and a unit of time adds at *)
(* most rpm.                                                               *)
LEMMA RefillFacts ==
    ASSUME NEW t \in Nat, NEW x \in BucketAt(t)
    PROVE  /\ refill(x, t) \in 0..burst
           /\ refill(x, t + 1) \in 0..burst
           /\ refill(x, t + 1) <= refill(x, t) + rpm
           /\ Idle(x, t) => refill(x, t) = burst
           /\ x.lastRefill = t => refill(x, t) = x.tokens
<1>1. /\ x.lastRefill \in Nat /\ x.lastRefill <= t /\ x.tokens \in 0..burst
      /\ burst \in Nat /\ rpm \in Nat
  BY RateLimitAssumption DEF BucketAt
<1> DEFINE d == t - x.lastRefill
           g == rpm * d
<1>2. d \in Nat /\ (t + 1) - x.lastRefill = d + 1
  BY <1>1
<1>3. g \in Nat /\ rpm * ((t + 1) - x.lastRefill) = g + rpm
  <2> HIDE DEF d
  <2>1. d \in Int /\ 1 \in Int
    BY <1>2
  <2>2. rpm * (d + 1) = rpm * d + rpm * 1 /\ rpm * d \in Nat /\ rpm * 1 = rpm
    BY <1>2, <2>1, Refills
  <2> QED BY <1>2, <2>2
<1>4. refill(x, t) = Least(burst, x.tokens + g)
  BY DEF refill
<1>5. refill(x, t + 1) = Least(burst, x.tokens + (g + rpm))
  <2> DEFINE h == rpm * ((t + 1) - x.lastRefill)
  <2>1. refill(x, t + 1) = Least(burst, x.tokens + h)
    BY Zenon DEF refill
  <2>2. h = g + rpm
    BY <1>3
  <2> HIDE DEF g, h
  <2> QED BY <2>1, <2>2
<1>6. Idle(x, t) => g >= burst
  <2>1. d * rpm = g
    BY <1>1, <1>2
  <2> QED BY <2>1 DEF Idle
<1>7. x.lastRefill = t => g = 0
  <2>1. x.lastRefill = t => d = 0
    BY <1>1
  <2> QED BY <2>1, Refills
<1> HIDE DEF g, d
<1> DEFINE k == x.tokens
<1>8. k \in Nat /\ k <= burst /\ burst \in Nat /\ rpm \in Nat /\ g \in Nat
  BY <1>1, <1>3
<1>9. refill(x, t) = Least(burst, k + g) /\ refill(x, t + 1) = Least(burst, k + (g + rpm))
  BY <1>4, <1>5
<1> HIDE DEF k
<1>10. /\ Least(burst, k + g) \in 0..burst /\ Least(burst, k + (g + rpm)) \in 0..burst
       /\ Least(burst, k + (g + rpm)) <= Least(burst, k + g) + rpm
       /\ g >= burst => Least(burst, k + g) = burst
       /\ g = 0 => Least(burst, k + g) = k
  BY <1>8, LeastFacts
<1> QED BY <1>6, <1>7, <1>9, <1>10 DEF k

(* The bucket of an identity that has one, and the full one of any other.  *)
LEMMA TokensFacts ==
    ASSUME NEW t \in Nat, NEW b, Ided(b, t), NEW u
    PROVE  /\ \A i \in DOMAIN b : Tokens(b, b[i].id, u) = refill(b[i], u)
           /\ \A id : id \notin Ids(b) => Tokens(b, id, u) = burst
<1>0. b \in Seq(BucketAt(t))
  BY DEF Ided
<1>a. ASSUME NEW id
      PROVE  /\ Bucket(b, id) \in Seq(BucketAt(t))
             /\ \A k \in DOMAIN Bucket(b, id) : \E i \in DOMAIN b : Bucket(b, id)[k] = b[i] /\ b[i].id = id
             /\ \A i \in DOMAIN b : b[i].id = id => \E k \in DOMAIN Bucket(b, id) : Bucket(b, id)[k] = b[i]
  <2> DEFINE T == {x \in Range(b) : x.id = id}
             d == Select(b, T)
  <2>1. \A i \in DOMAIN b : b[i] \in T <=> b[i].id = id
    BY DEF Range
  <2>2. d = Bucket(b, id)
    BY DEF Bucket
  <2> HIDE DEF T
  <2>3. /\ d \in Seq(BucketAt(t))
        /\ \A k \in DOMAIN d : \E i \in DOMAIN b : d[k] = b[i] /\ b[i] \in T
        /\ \A i \in DOMAIN b : b[i] \in T => \E k \in DOMAIN d : d[k] = b[i]
    BY <1>0, Selected
  <2> HIDE DEF d
  <2>4. /\ d \in Seq(BucketAt(t))
        /\ \A k \in DOMAIN d : \E i \in DOMAIN b : d[k] = b[i] /\ b[i].id = id
        /\ \A i \in DOMAIN b : b[i].id = id => \E k \in DOMAIN d : d[k] = b[i]
    BY <2>1, <2>3
  <2> QED BY <2>2, <2>4
<1>1. ASSUME NEW i \in DOMAIN b PROVE Tokens(b, b[i].id, u) = refill(b[i], u)
  <2> DEFINE d == Bucket(b, b[i].id)
  <2>1. /\ d \in Seq(BucketAt(t))
        /\ \A k \in DOMAIN d : \E j \in DOMAIN b : d[k] = b[j] /\ b[j].id = b[i].id
        /\ \E k \in DOMAIN d : d[k] = b[i]
    BY <1>a
  <2>2. Tokens(b, b[i].id, u) = IF d = <<>> THEN burst ELSE refill(d[1], u)
    BY DEF Tokens, Refilled
  <2> HIDE DEF d
  <2>3. d # <<>> /\ 1 \in DOMAIN d
    BY <2>1
  <2>4. d[1] = b[i]
    BY <2>1, <2>3 DEF Ided
  <2> QED BY <2>2, <2>3, <2>4
<1>2. ASSUME NEW id, id \notin Ids(b) PROVE Tokens(b, id, u) = burst
  <2> DEFINE d == Bucket(b, id)
  <2>1. /\ d \in Seq(BucketAt(t))
        /\ \A k \in DOMAIN d : \E j \in DOMAIN b : d[k] = b[j] /\ b[j].id = id
    BY <1>a
  <2>2. Tokens(b, id, u) = IF d = <<>> THEN burst ELSE refill(d[1], u)
    BY DEF Tokens, Refilled
  <2> HIDE DEF d
  <2>3. \A k \in DOMAIN d : FALSE
    BY <1>2, <2>1 DEF Ids
  <2>4. d = <<>>
    BY <2>1, <2>3
  <2> QED BY <2>2, <2>4
<1> QED BY <1>1, <1>2

(* The tokens of any identity are between none and a full bucket.          *)
LEMMA TokensBounded ==
    ASSUME NEW t \in Nat, NEW b, Ided(b, t), NEW id
    PROVE  /\ Tokens(b, id, t) \in 0..burst /\ Tokens(b, id, t + 1) \in 0..burst
           /\ Tokens(b, id, t + 1) <= Tokens(b, id, t) + rpm
<1>0. burst \in Nat /\ rpm \in Nat /\ t + 1 \in Nat
  BY RateLimitAssumption
<1>1. CASE id \in Ids(b)
  <2>1. PICK i \in DOMAIN b : id = b[i].id
    BY <1>1 DEF Ids
  <2>2. b[i] \in BucketAt(t)
    BY DEF Ided
  <2>3. Tokens(b, id, t) = refill(b[i], t) /\ Tokens(b, id, t + 1) = refill(b[i], t + 1)
    BY <2>1, TokensFacts
  <2> QED BY <2>2, <2>3, RefillFacts
<1>2. CASE id \notin Ids(b)
  <2>1. Tokens(b, id, t) = burst /\ Tokens(b, id, t + 1) = burst
    BY <1>2, TokensFacts
  <2> QED BY <1>0, <2>1
<1> QED BY <1>1, <1>2

(* An identity that keeps its bucket, or has none before and after, has    *)
(* the tokens it had.                                                      *)
LEMMA TokensKept ==
    ASSUME NEW t \in Nat, NEW b, Ided(b, t), NEW c, Ided(c, t), NEW id,
           \/ \E i \in DOMAIN b, k \in DOMAIN c : b[i].id = id /\ c[k] = b[i]
           \/ id \notin Ids(b) /\ id \notin Ids(c)
    PROVE  Tokens(c, id, t) = Tokens(b, id, t)
<1>1. CASE id \notin Ids(b) /\ id \notin Ids(c)
  BY <1>1, TokensFacts
<1>2. CASE \E i \in DOMAIN b, k \in DOMAIN c : b[i].id = id /\ c[k] = b[i]
  <2>1. PICK i \in DOMAIN b, k \in DOMAIN c : b[i].id = id /\ c[k] = b[i]
    BY <1>2
  <2>2. Tokens(b, b[i].id, t) = refill(b[i], t) /\ Tokens(c, c[k].id, t) = refill(c[k], t)
    BY TokensFacts
  <2> QED BY <2>1, <2>2
<1> QED BY <1>1, <1>2

(* Selecting from a map of buckets leaves one.                             *)
LEMMA IdedSelect ==
    ASSUME NEW t \in Nat, NEW b, Ided(b, t), NEW T
    PROVE  /\ Ided(Select(b, T), t)
           /\ \A k \in DOMAIN Select(b, T) : \E i \in DOMAIN b : Select(b, T)[k] = b[i] /\ b[i] \in T
           /\ \A i \in DOMAIN b : b[i] \in T => \E k \in DOMAIN Select(b, T) : Select(b, T)[k] = b[i]
<1> DEFINE d == Select(b, T)
<1>1. b \in Seq(BucketAt(t))
  BY DEF Ided
<1>2. /\ d \in Seq(BucketAt(t))
      /\ \A k \in DOMAIN d : \E i \in DOMAIN b : d[k] = b[i] /\ b[i] \in T
      /\ \A i \in DOMAIN b : b[i] \in T => \E k \in DOMAIN d : d[k] = b[i]
      /\ \A j, k \in DOMAIN d : j # k =>
            \E i, l \in DOMAIN b : i # l /\ d[j] = b[i] /\ d[k] = b[l]
  BY <1>1, Selected
<1> HIDE DEF d
<1>3. \A j, k \in DOMAIN d : d[j].id = d[k].id => j = k
  <2> TAKE j, k \in DOMAIN d
  <2> SUFFICES ASSUME j # k PROVE d[j].id # d[k].id
    OBVIOUS
  <2>1. PICK i, l \in DOMAIN b : i # l /\ d[j] = b[i] /\ d[k] = b[l]
    BY <1>2
  <2> QED BY <2>1 DEF Ided
<1>4. Ided(d, t)
  BY <1>2, <1>3 DEF Ided
<1> QED BY <1>2, <1>4, Zenon DEF d

(* The sweeper drops only buckets that would be full.                      *)
LEMMA SweepFacts ==
    ASSUME NEW t \in Nat, NEW b, Ided(b, t)
    PROVE  /\ Ided(sweepBuckets(b, t), t)
           /\ \A id : Tokens(sweepBuckets(b, t), id, t) = Tokens(b, id, t)
<1> DEFINE T == {x \in Range(b) : ~Idle(x, t)}
           d == Select(b, T)
<1>1. sweepBuckets(b, t) = d
  BY DEF sweepBuckets
<1>2. \A i \in DOMAIN b : b[i] \in T <=> ~Idle(b[i], t)
  BY DEF Range
<1>3. /\ Ided(d, t)
      /\ \A k \in DOMAIN d : \E i \in DOMAIN b : d[k] = b[i] /\ b[i] \in T
      /\ \A i \in DOMAIN b : b[i] \in T => \E k \in DOMAIN d : d[k] = b[i]
  <2> HIDE DEF T
  <2> QED BY IdedSelect
<1> HIDE DEF T, d
<1>4. ASSUME NEW id PROVE Tokens(d, id, t) = Tokens(b, id, t)
  <2>1. CASE id \in Ids(b)
    <3>1. PICK i \in DOMAIN b : b[i].id = id
      BY <2>1 DEF Ids
    <3>2. CASE ~Idle(b[i], t)
      <4>1. \E k \in DOMAIN d : d[k] = b[i]
        BY <1>2, <1>3, <3>2
      <4> QED BY <1>3, <3>1, <4>1, TokensKept
    <3>3. CASE Idle(b[i], t)
      <4>1. id \notin Ids(d)
        <5> SUFFICES ASSUME NEW k \in DOMAIN d, d[k].id = id PROVE FALSE
          BY DEF Ids
        <5>1. PICK j \in DOMAIN b : d[k] = b[j] /\ b[j] \in T
          BY <1>3
        <5>2. j = i
          BY <3>1, <5>1 DEF Ided
        <5> QED BY <1>2, <3>3, <5>1, <5>2
      <4>2. Tokens(d, id, t) = burst
        BY <1>3, <4>1, TokensFacts
      <4>3. b[i] \in BucketAt(t)
        BY DEF Ided
      <4>4. Tokens(b, id, t) = burst
        BY <3>1, <3>3, <4>3, TokensFacts, RefillFacts
      <4> QED BY <4>2, <4>4
    <3> QED BY <3>2, <3>3
  <2>2. CASE id \notin Ids(b)
    <3>1. id \notin Ids(d)
      BY <1>3, <2>2 DEF Ids
    <3> QED BY <1>3, <2>2, <3>1, TokensKept
  <2> QED BY <2>1, <2>2
<1> QED BY <1>1, <1>3, <1>4

(* Eviction keeps the tail of the map.                                     *)
LEMMA EvictFacts ==
    ASSUME NEW t \in Nat, NEW b, Ided(b, t), b # <<>>
    PROVE  /\ Ided(evictBuckets(b), t)
           /\ \A k \in DOMAIN evictBuckets(b) : \E i \in DOMAIN b : evictBuckets(b)[k] = b[i]
           /\ \E k \in DOMAIN evictBuckets(b) : evictBuckets(b)[k] = b[Len(b)]
<1> DEFINE c == evictBuckets(b)
           m == maxBuckets
<1>1. b \in Seq(BucketAt(t)) /\ m \in Nat /\ m # 0
  BY RateLimitAssumption DEF Ided
<1>2. Len(b) \in Nat /\ Len(b) >= 1 /\ DOMAIN b = 1..Len(b)
  BY <1>1
<1>3. CASE Len(b) <= m
  <2>1. ~(Len(b) > m)
    BY <1>1, <1>2, <1>3
  <2>2. c = b
    BY <2>1 DEF evictBuckets
  <2>3. Len(b) \in DOMAIN b
    BY <1>2
  <2> QED BY <2>2, <2>3
<1>4. CASE m < Len(b)
  <2>1. c = SubSeq(b, Len(b) - m + 1, Len(b))
    BY <1>1, <1>2, <1>4 DEF evictBuckets
  <2>2. c \in Seq(BucketAt(t)) /\ Len(c) = m /\ \A k \in 1..m : c[k] = b[Len(b) - m + k]
    <3> HIDE DEF m, c
    <3> QED BY <1>1, <1>4, <2>1, LastElements
  <2> HIDE DEF c, m
  <2>3. DOMAIN c = 1..m
    BY <2>2
  <2>4. \A k \in DOMAIN c : c[k] = b[Len(b) - m + k] /\ Len(b) - m + k \in DOMAIN b
    BY <1>1, <1>2, <1>4, <2>2, <2>3
  <2>5. m \in DOMAIN c /\ Len(b) - m + m = Len(b)
    BY <1>1, <1>2, <2>3
  <2>6. c[m] = b[Len(b)]
    BY <2>4, <2>5
  <2>7. ASSUME NEW i \in DOMAIN c, NEW j \in DOMAIN c, c[i].id = c[j].id PROVE i = j
    <3>1. Len(b) - m + i = Len(b) - m + j
      BY <2>4, <2>7 DEF Ided
    <3> QED BY <1>1, <1>2, <2>3, <3>1
  <2>8. Ided(c, t)
    BY <2>2, <2>7 DEF Ided
  <2>9. \A k \in DOMAIN c : \E i \in DOMAIN b : c[k] = b[i]
    BY <2>4
  <2>10. \E k \in DOMAIN c : c[k] = b[Len(b)]
    BY <2>5, <2>6
  <2> QED BY <2>8, <2>9, <2>10, Zenon DEF c
<1> QED BY <1>1, <1>2, <1>3, <1>4

(* A payment takes from the payer what it can pay, and leaves every other  *)
(* identity its tokens unless it loses its bucket.                         *)
LEMMA ConsumeFacts ==
    ASSUME NEW t \in Nat, NEW b, Ided(b, t), NEW id \in Identity, NEW k \in Nat
    PROVE  /\ Ided(consume(b, id, k, t), t)
           /\ Tokens(consume(b, id, k, t), id, t) =
                IF Tokens(b, id, t) >= k THEN Tokens(b, id, t) - k ELSE Tokens(b, id, t)
           /\ \A x : x # id =>
                \/ x \in Ids(b) \ Ids(consume(b, id, k, t))
                \/ Tokens(consume(b, id, k, t), x, t) = Tokens(b, x, t)
<1> DEFINE T == {x \in Range(b) : x.id # id}
           o == Select(b, T)
           L == Tokens(b, id, t)
           p == IF L >= k THEN L - k ELSE L
           paid == [id |-> id, lastRefill |-> t, tokens |-> p]
           a == Append(o, paid)
           c == evictBuckets(a)
<1>1. L \in 0..burst /\ burst \in Nat
  BY TokensBounded, RateLimitAssumption
<1>2. consume(b, id, k, t) = c
  <2> DEFINE f == Refilled(b, id, t)
             w == IF f.tokens >= k THEN [f EXCEPT !.tokens = @ - k] ELSE f
  <2>1. f = [id |-> id, lastRefill |-> t, tokens |-> L]
    BY DEF Refilled, Tokens
  <2> HIDE DEF L, f
  <2>2. w = paid
    BY <2>1
  <2>3. consume(b, id, k, t) = evictBuckets(Append(Others(b, id), w))
    BY DEF consume, f
  <2>4. Others(b, id) = o
    BY DEF Others
  <2> HIDE DEF w, paid, o
  <2> QED BY <2>2, <2>3, <2>4
<1>3. \A i \in DOMAIN b : b[i] \in T <=> b[i].id # id
  BY DEF Range
<1>4. /\ Ided(o, t)
      /\ \A j \in DOMAIN o : \E i \in DOMAIN b : o[j] = b[i] /\ b[i] \in T
      /\ \A i \in DOMAIN b : b[i] \in T => \E j \in DOMAIN o : o[j] = b[i]
  <2> HIDE DEF T
  <2> QED BY IdedSelect
<1> HIDE DEF T, o, L
<1>5. \A j \in DOMAIN o : \E i \in DOMAIN b : o[j] = b[i] /\ b[i].id # id
  BY <1>3, <1>4
<1>6. p \in 0..burst
  BY <1>1
<1> HIDE DEF p
<1>7. paid \in BucketAt(t) /\ paid.id = id /\ paid.lastRefill = t /\ paid.tokens = p
  BY <1>6 DEF BucketAt
<1> HIDE DEF paid
<1>8. o \in Seq(BucketAt(t)) /\ \A i, j \in DOMAIN o : o[i].id = o[j].id => i = j
  BY <1>4 DEF Ided
<1>9. /\ a \in Seq(BucketAt(t)) /\ Len(a) = Len(o) + 1 /\ Len(o) \in Nat
      /\ DOMAIN a = 1..(Len(o) + 1) /\ DOMAIN o = 1..Len(o)
      /\ a[Len(a)] = paid /\ \A i \in DOMAIN o : a[i] = o[i]
  BY <1>7, <1>8
<1> HIDE DEF a
<1>10. \A i \in DOMAIN a : i \in DOMAIN o \/ i = Len(a)
  BY <1>9
<1>11. \A i \in DOMAIN o : a[i].id # id
  BY <1>5, <1>9
<1>12. ASSUME NEW i \in DOMAIN a, NEW j \in DOMAIN a, a[i].id = a[j].id PROVE i = j
  BY <1>7, <1>8, <1>9, <1>10, <1>11, <1>12
<1>13. Ided(a, t) /\ a # <<>>
  BY <1>9, <1>12 DEF Ided
<1>14. /\ Ided(c, t)
       /\ \A j \in DOMAIN c : \E i \in DOMAIN a : c[j] = a[i]
       /\ \E j \in DOMAIN c : c[j] = a[Len(a)]
  BY <1>13, EvictFacts
<1> HIDE DEF c
<1>15. Tokens(c, id, t) = p
  <2>1. PICK j \in DOMAIN c : c[j] = paid
    BY <1>9, <1>14
  <2>2. Tokens(c, c[j].id, t) = refill(c[j], t)
    BY <1>14, TokensFacts
  <2>3. refill(paid, t) = p
    BY <1>7, RefillFacts
  <2> QED BY <1>7, <2>1, <2>2, <2>3
<1>16. ASSUME NEW x, x # id, x \notin Ids(b) \ Ids(c) PROVE Tokens(c, x, t) = Tokens(b, x, t)
  <2>1. CASE x \in Ids(c)
    <3>1. PICK j \in DOMAIN c : c[j].id = x
      BY <2>1 DEF Ids
    <3>2. PICK i \in DOMAIN a : c[j] = a[i]
      BY <1>14
    <3>3. i \in DOMAIN o
      BY <1>7, <1>9, <1>10, <1>16, <3>1, <3>2
    <3>4. PICK l \in DOMAIN b : o[i] = b[l]
      BY <1>5, <3>3
    <3>5. c[j] = b[l] /\ b[l].id = x
      BY <1>9, <3>1, <3>2, <3>3, <3>4
    <3> QED BY <1>14, <3>5, TokensKept
  <2>2. CASE x \notin Ids(c)
    <3>1. x \notin Ids(b)
      BY <1>16, <2>2
    <3> QED BY <1>14, <2>2, <3>1, TokensKept
  <2> QED BY <2>1, <2>2
<1>17. \A x : x # id => x \in Ids(b) \ Ids(c) \/ Tokens(c, x, t) = Tokens(b, x, t)
  BY <1>16
<1>18. Tokens(c, id, t) = IF Tokens(b, id, t) >= k THEN Tokens(b, id, t) - k ELSE Tokens(b, id, t)
  BY <1>15 DEF p, L
<1> QED BY <1>2, <1>14, <1>17, <1>18

(* What a window refills grows by rpm with each unit of time.              *)
LEMMA WindowFacts ==
    ASSUME NEW s \in Nat, NEW t \in Nat, s <= t
    PROVE  /\ Window(s, t) \in Nat /\ Window(s, t + 1) = Window(s, t) + rpm
           /\ burst <= Window(s, t) /\ Window(s, t) <= Window(s, t + 1)
           /\ burst \in Nat /\ rpm \in Nat
<1> DEFINE d == t - s
           e == (t + 1) - s
           g == rpm * d
<1>1. d \in Nat /\ e = d + 1 /\ d \in Int /\ 1 \in Int
  OBVIOUS
<1>2. Window(s, t) = burst + g /\ Window(s, t + 1) = burst + rpm * e
  BY DEF Window
<1>3. rpm * e = g + rpm /\ g \in Nat
  <2> HIDE DEF d, e
  <2>1. rpm * (d + 1) = rpm * d + rpm * 1 /\ rpm * d \in Nat /\ rpm * 1 = rpm
    BY <1>1, Refills
  <2> QED BY <1>1, <2>1
<1>4. burst \in Nat /\ rpm \in Nat
  BY RateLimitAssumption
<1> HIDE DEF d, e, g
<1> QED BY <1>2, <1>3, <1>4

(* Windows of granted tokens are finite sums of naturals.                  *)
LEMMA GrantedFacts ==
    ASSUME NEW f \in [0..MaxTime -> Nat], NEW s \in 0..MaxTime, NEW t \in 0..MaxTime
    PROVE  /\ SumOver(f, s..t) \in Nat /\ IsFiniteSet(s..t)
           /\ \A u \in s..t : u \in 0..MaxTime /\ f[u] \in Nat
<1>1. s \in Int /\ t \in Int /\ MaxTime \in Nat
  BY StoreAssumption
<1>2. IsFiniteSet(s..t)
  BY <1>1, FS_Interval
<1>3. \A u \in s..t : u \in 0..MaxTime /\ f[u] \in Nat
  BY <1>1
<1>4. SumOver(f, s..t) \in Nat
  BY <1>2, <1>3, SumMonotone
<1> QED BY <1>2, <1>3, <1>4

-----------------------------------------------------------------------------
(* What a step does to the buckets                                         *)

Pays(id, k) ==
    /\ buckets' = consume(buckets, id, k, now)
    /\ evicted' = evicted \cup (Ids(buckets) \ Ids(buckets'))
    /\ \/ Tokens(buckets, id, now) >= k /\ granted' = [granted EXCEPT ![id][now] = @ + k]
       \/ ~(Tokens(buckets, id, now) >= k) /\ UNCHANGED granted
    /\ UNCHANGED now

RateMove ==
    \/ UNCHANGED <<buckets, granted, evicted, now>>
    \/ \E id \in Identity, k \in Nat : Pays(id, k)
    \/ buckets' = sweepBuckets(buckets, now) /\ UNCHANGED <<granted, evicted, now>>
    \/ buckets' = <<>> /\ evicted' = evicted \cup Ids(buckets) /\ UNCHANGED <<granted, now>>
    \/ now < MaxTime /\ now' = now + 1 /\ UNCHANGED <<buckets, granted, evicted>>

(* Every step is one of those.                                             *)
LEMMA RateMoves ==
    ASSUME ServerType, Lives, [ApiNext]_allVars
    PROVE  RateMove
<1> USE DEF RateMove
<1>1. ASSUME NEW r \in Req, Admit(r) PROVE RateMove
  <2> DEFINE id == identity(prof[r])
             k == cost(prof[r])
  <2>1. prof[r] \in Sent
    BY <1>1 DEF Admit, Lives, Life
  <2>2. id \in Identity /\ k \in Nat
    BY <2>1 DEF Sent, identity, Identity, cost, WriteCost, ReadCost
  <2>3. /\ buckets' = consume(buckets, id, k, now)
        /\ evicted' = evicted \cup (Ids(buckets) \ Ids(buckets'))
    BY <1>1 DEF Admit
  <2>4. \/ Tokens(buckets, id, now) >= k /\ granted' = [granted EXCEPT ![id][now] = @ + k] /\ UNCHANGED now
        \/ ~(Tokens(buckets, id, now) >= k) /\ UNCHANGED granted /\ UNCHANGED now
    BY <1>1 DEF Admit, allowed, Tokens, Arrive, vars
  <2> HIDE DEF id, k
  <2>5. Pays(id, k)
    BY <2>3, <2>4 DEF Pays
  <2> QED BY <2>2, <2>5
<1>2. ASSUME NEW r \in Req, Receive(r) \/ ConstructFails(r) \/ TenantUnavailable(r)
      PROVE  RateMove
  BY <1>2 DEF Receive, ConstructFails, TenantUnavailable, vars
<1>3. ASSUME NEW r \in Req, Handler(r) PROVE RateMove
  BY <1>3 DEF Handler, Handle
<1>4. ASSUME NEW r \in Req, Middleware(r) PROVE RateMove
  BY <1>4 DEF Middleware, Lookup, Store, StoreOversize, serverVars
<1>5. ASSUME NEW t \in Tenants, Initialized(t) \/ InitializeFails(t) PROVE RateMove
  BY <1>5 DEF Initialized, InitializeFails, vars
<1>6. CASE SweepBuckets
  BY <1>6 DEF SweepBuckets, vars
<1>7. CASE Sweep \/ Shutdown \/ Start
  BY <1>7 DEF Sweep, sweep, Shutdown, Start, vars, serverVars
<1>8. CASE Drained \/ ForceExit \/ Die
  BY <1>8 DEF Drained, ForceExit, Die, Gone
<1>9. CASE Clock
  BY <1>9 DEF Clock, Tick, serverVars
<1>10. ASSUME NEW c \in Calls, Request(c) \/ ClientStep(c) \/ Lose(c) PROVE RateMove
  <2>1. UNCHANGED <<buckets, granted, evicted, now>>
    BY <1>10 DEF Request, ClientStep, Receives, Refused, Abort, Retry, Lose, NetworkError,
                 apiVars, serverVars, vars
  <2> QED BY <2>1
<1>11. CASE UNCHANGED allVars
  BY <1>11 DEF allVars, apiVars, serverVars, vars
<1> QED BY <1>1, <1>2, <1>3, <1>4, <1>5, <1>6, <1>7, <1>8, <1>9, <1>10, <1>11
        DEF ApiNext, ServerNext, ServerStep

-----------------------------------------------------------------------------
(* The rate limit holds                                                    *)

(* A step that grants nothing, and gives no identity that keeps its bucket *)
(* more tokens, keeps the bound.                                           *)
LEMMA RateFrame ==
    ASSUME RateOK, now' = now, granted' = granted, Ided(buckets', now),
           \A id \in Identity \ evicted' :
               id \notin evicted /\ Tokens(buckets', id, now) <= Tokens(buckets, id, now)
    PROVE  RateOK'
<1>0. now \in Nat
  BY StoreAssumption DEF RateOK
<1>1. /\ now' \in 0..MaxTime /\ granted' \in [Identity -> [0..MaxTime -> Nat]]
      /\ \A id \in Identity : \A t \in 0..MaxTime : t > now' => granted'[id][t] = 0
      /\ Ided(buckets', now')
  BY DEF RateOK
<1>2. ASSUME NEW id \in Identity \ evicted', NEW s \in 0..now
      PROVE  Granted(id, s, now)' + Tokens(buckets', id, now') <= Window(s, now')
  <2>1. id \in Identity \ evicted /\ Tokens(buckets', id, now) <= Tokens(buckets, id, now)
    OBVIOUS
  <2>2. Granted(id, s, now) + Tokens(buckets, id, now) <= Window(s, now)
    BY <2>1 DEF RateOK
  <2>3. Tokens(buckets', id, now) \in Nat /\ Tokens(buckets, id, now) \in Nat
    <3>1. Ided(buckets, now) /\ burst \in Nat
      BY RateLimitAssumption DEF RateOK
    <3>2. Tokens(buckets', id, now) \in 0..burst /\ Tokens(buckets, id, now) \in 0..burst
      BY <1>0, <3>1, TokensBounded
    <3> QED BY <3>1, <3>2
  <2>4. s \in 0..MaxTime /\ now \in 0..MaxTime /\ granted[id] \in [0..MaxTime -> Nat]
    BY <1>0, StoreAssumption DEF RateOK
  <2>5. Granted(id, s, now) \in Nat
    BY <2>4, GrantedFacts DEF Granted
  <2>6. Window(s, now) \in Nat
    <3>1. s \in Nat /\ s <= now
      BY <1>0
    <3> QED BY <1>0, <3>1, WindowFacts
  <2>7. Granted(id, s, now)' = Granted(id, s, now)
    BY DEF Granted
  <2> QED BY <2>1, <2>2, <2>3, <2>5, <2>6, <2>7
<1>3. ASSUME NEW id \in Identity \ evicted', NEW s \in 0..now, NEW t \in 0..now, s <= t
      PROVE  Granted(id, s, t)' <= Window(s, t)
  <2>1. Granted(id, s, t) <= Window(s, t)
    BY <1>3 DEF RateOK
  <2>2. Granted(id, s, t)' = Granted(id, s, t)
    BY DEF Granted
  <2> QED BY <2>1, <2>2
<1> QED BY <1>1, <1>2, <1>3 DEF RateOK, Granted

(* A payment takes from the tokens what it adds to the granted ones.       *)
LEMMA PaysKeepsRate ==
    ASSUME RateOK, NEW id \in Identity, NEW k \in Nat, Pays(id, k)
    PROVE  RateOK'
<1>0. /\ now \in Nat /\ now \in 0..MaxTime /\ Ided(buckets, now) /\ MaxTime \in Nat
      /\ granted \in [Identity -> [0..MaxTime -> Nat]]
  BY StoreAssumption DEF RateOK
<1>1. /\ Ided(buckets', now)
      /\ Tokens(buckets', id, now) =
            IF Tokens(buckets, id, now) >= k THEN Tokens(buckets, id, now) - k
            ELSE Tokens(buckets, id, now)
      /\ \A x : x # id =>
            x \in Ids(buckets) \ Ids(buckets') \/ Tokens(buckets', x, now) = Tokens(buckets, x, now)
  BY <1>0, ConsumeFacts DEF Pays
<1>2. \A x \in Identity \ evicted' : x \notin evicted /\ x \notin Ids(buckets) \ Ids(buckets')
  BY DEF Pays
<1>3. \A x \in Identity : Tokens(buckets, x, now) \in Nat
  <2>1. burst \in Nat
    BY RateLimitAssumption
  <2> QED BY <1>0, <2>1, TokensBounded
<1>4. CASE ~(Tokens(buckets, id, now) >= k)
  <2>1. \A x \in Identity \ evicted' : Tokens(buckets', x, now) <= Tokens(buckets, x, now)
    BY <1>1, <1>2, <1>3, <1>4
  <2>2. granted' = granted /\ now' = now
    BY <1>4 DEF Pays
  <2> QED BY <1>1, <1>2, <2>1, <2>2, RateFrame
<1>5. CASE Tokens(buckets, id, now) >= k
  <2>1. granted' = [granted EXCEPT ![id][now] = @ + k] /\ now' = now
    BY <1>5 DEF Pays
  <2>2. granted' \in [Identity -> [0..MaxTime -> Nat]]
    BY <1>0, <2>1
  <2>3. /\ \A x \in Identity : x # id => granted'[x] = granted[x]
        /\ granted'[id][now] = granted[id][now] + k
        /\ \A u \in 0..MaxTime : u # now => granted'[id][u] = granted[id][u]
    BY <1>0, <2>1
  <2>4. \A x \in Identity : \A t \in 0..MaxTime : t > now => granted'[x][t] = 0
    <3>1. \A x \in Identity : \A t \in 0..MaxTime : t > now => granted[x][t] = 0 /\ t # now
      BY <1>0 DEF RateOK
    <3> QED BY <2>3, <3>1
  <2>5. ASSUME NEW s \in 0..now
        PROVE  SumOver(granted'[id], s..now) = SumOver(granted[id], s..now) + k
    <3> DEFINE f == granted[id]
               g == granted'[id]
               S == s..now
    <3>1. s \in 0..MaxTime /\ f \in [0..MaxTime -> Nat] /\ g \in [0..MaxTime -> Nat]
      BY <1>0, <2>2
    <3> HIDE DEF f, g
    <3>2. /\ IsFiniteSet(S) /\ \A u \in S : u \in 0..MaxTime /\ f[u] \in Nat /\ g[u] \in Nat
      BY <1>0, <3>1, GrantedFacts
    <3>3. now \in S
      BY <1>0
    <3> HIDE DEF S
    <3>4. SumOver(f, S) = f[now] + SumOver(f, S \ {now})
      BY <3>2, <3>3, SumRemove
    <3>5. SumOver(g, S) = g[now] + SumOver(g, S \ {now})
      BY <3>2, <3>3, SumRemove
    <3>6. IsFiniteSet(S \ {now})
      BY <3>2, FS_RemoveElement
    <3>7. \A u \in S \ {now} : g[u] = f[u]
      BY <2>3, <3>2 DEF f, g
    <3>8. SumOver(g, S \ {now}) = SumOver(f, S \ {now})
      BY <3>6, <3>7, SumSame
    <3>9. SumOver(f, S \ {now}) \in Int
      BY <3>2, <3>6, SumType
    <3>10. g[now] = f[now] + k /\ f[now] \in Nat
      BY <2>3, <3>2, <3>3 DEF f, g
    <3>11. SumOver(g, S) = SumOver(f, S) + k
      BY <3>4, <3>5, <3>8, <3>9, <3>10
    <3> QED BY <3>11 DEF f, g, S
  <2>6. ASSUME NEW s \in 0..now, NEW t \in 0..now, t # now
        PROVE  SumOver(granted'[id], s..t) = SumOver(granted[id], s..t)
    <3>1. s \in 0..MaxTime /\ t \in 0..MaxTime /\ granted[id] \in [0..MaxTime -> Nat]
      BY <1>0
    <3>2. IsFiniteSet(s..t) /\ \A u \in s..t : u \in 0..MaxTime
      BY <3>1, GrantedFacts
    <3>3. \A u \in s..t : u # now
      BY <1>0, <2>6
    <3>4. \A u \in s..t : granted'[id][u] = granted[id][u]
      BY <2>3, <3>2, <3>3
    <3> QED BY <3>2, <3>4, SumSame
  <2>7. ASSUME NEW x \in Identity \ evicted', NEW s \in 0..now
        PROVE  SumOver(granted'[x], s..now) + Tokens(buckets', x, now) <= Window(s, now)
    <3>1. SumOver(granted[x], s..now) + Tokens(buckets, x, now) <= Window(s, now)
      BY <1>2 DEF RateOK, Granted
    <3>2. CASE x # id
      BY <1>1, <1>2, <2>3, <3>1, <3>2
    <3>3. CASE x = id
      <4>1. SumOver(granted'[x], s..now) = SumOver(granted[x], s..now) + k
        BY <2>5, <3>3
      <4>2. Tokens(buckets', x, now) = Tokens(buckets, x, now) - k
        BY <1>1, <1>5, <3>3
      <4>3. Tokens(buckets, x, now) \in Nat
        BY <1>3
      <4>4. SumOver(granted[x], s..now) \in Nat
        <5>1. s \in 0..MaxTime /\ granted[x] \in [0..MaxTime -> Nat]
          BY <1>0
        <5> QED BY <1>0, <5>1, GrantedFacts
      <4> QED BY <3>1, <4>1, <4>2, <4>3, <4>4
    <3> QED BY <3>2, <3>3
  <2>8. ASSUME NEW x \in Identity \ evicted', NEW s \in 0..now, NEW t \in 0..now, s <= t
        PROVE  SumOver(granted'[x], s..t) <= Window(s, t)
    <3>1. SumOver(granted[x], s..t) <= Window(s, t)
      BY <1>2, <2>8 DEF RateOK, Granted
    <3>2. CASE x # id
      BY <2>3, <3>1, <3>2
    <3>3. CASE x = id /\ t # now
      BY <2>6, <3>1, <3>3
    <3>4. CASE t = now
      <4>1. SumOver(granted'[x], s..now) + Tokens(buckets', x, now) <= Window(s, now)
        BY <2>7
      <4>2. Tokens(buckets', x, now) \in Nat
        <5>1. burst \in Nat
          BY RateLimitAssumption
        <5> QED BY <1>0, <1>1, <5>1, TokensBounded
      <4>3. SumOver(granted'[x], s..now) \in Nat
        <5>1. s \in 0..MaxTime /\ granted'[x] \in [0..MaxTime -> Nat]
          BY <1>0, <2>2
        <5> QED BY <1>0, <5>1, GrantedFacts
      <4>4. Window(s, now) \in Nat
        <5>1. s \in Nat /\ s <= now
          BY <1>0
        <5> QED BY <1>0, <5>1, WindowFacts
      <4>5. SumOver(granted'[x], s..now) <= Window(s, now)
        BY <4>1, <4>2, <4>3, <4>4
      <4> QED BY <3>4, <4>5
    <3> QED BY <3>2, <3>3, <3>4
  <2> QED BY <1>0, <1>1, <2>1, <2>2, <2>4, <2>7, <2>8 DEF RateOK, Granted
<1> QED BY <1>4, <1>5

(* With the clock the windows grow, and so does what they may grant.       *)
LEMMA ClockKeepsRate ==
    ASSUME RateOK, now < MaxTime, now' = now + 1, UNCHANGED <<buckets, granted, evicted>>
    PROVE  RateOK'
<1> DEFINE n == now + 1
<1>0. /\ now \in Nat /\ now \in 0..MaxTime /\ Ided(buckets, now) /\ MaxTime \in Nat
      /\ n \in 0..MaxTime /\ n \in Nat /\ n # now /\ now < n
      /\ granted \in [Identity -> [0..MaxTime -> Nat]]
      /\ burst \in Nat /\ rpm \in Nat
  BY StoreAssumption, RateLimitAssumption DEF RateOK
<1>1. Ided(buckets, n)
  <2>1. \A x \in BucketAt(now) : x \in BucketAt(n)
    BY <1>0 DEF BucketAt
  <2>2. buckets \in Seq(BucketAt(n))
    <3>1. buckets \in Seq(BucketAt(now))
      BY <1>0 DEF Ided
    <3> QED BY <2>1, <3>1
  <2> QED BY <1>0, <2>2 DEF Ided
<1>2. \A x \in Identity : /\ Tokens(buckets, x, n) \in 0..burst
                          /\ Tokens(buckets, x, now) \in 0..burst
                          /\ Tokens(buckets, x, n) <= Tokens(buckets, x, now) + rpm
  BY <1>0, TokensBounded
<1>3. \A x \in Identity : granted[x][n] = 0 /\ \A t \in 0..MaxTime : t > n => granted[x][t] = 0
  BY <1>0 DEF RateOK
<1>4. ASSUME NEW x \in Identity \ evicted, NEW s \in 0..n
      PROVE  /\ SumOver(granted[x], s..n) + Tokens(buckets, x, n) <= Window(s, n)
             /\ SumOver(granted[x], s..n) <= Window(s, n)
  <2> DEFINE f == granted[x]
  <2>1. f \in [0..MaxTime -> Nat] /\ s \in 0..MaxTime /\ s \in Nat /\ s <= n
    BY <1>0
  <2>2. f[n] = 0
    BY <1>3
  <2> HIDE DEF f
  <2>3. SumOver(f, s..n) \in Nat
    BY <1>0, <2>1, GrantedFacts
  <2>4. Window(s, n) \in Nat
    BY <1>0, <2>1, WindowFacts
  <2>5. SumOver(f, s..n) + Tokens(buckets, x, n) <= Window(s, n)
    <3>1. CASE s = n
      <4>1. s..n = {n}
        BY <1>0, <3>1
      <4>2. SumOver(f, s..n) = 0
        BY <2>2, <4>1, FS_Singleton, SumZero
      <4>3. burst <= Window(s, n)
        BY <1>0, <2>1, WindowFacts
      <4> QED BY <1>0, <1>2, <2>4, <4>2, <4>3
    <3>2. CASE s # n
      <4>1. s \in 0..now /\ s <= now
        BY <1>0, <3>2
      <4>2. s..n = (s..now) \cup {n} /\ n \notin s..now
        BY <1>0, <2>1, <4>1
      <4>3. /\ IsFiniteSet(s..now) /\ SumOver(f, s..now) \in Nat
            /\ \A u \in s..now : f[u] \in Nat
        BY <1>0, <2>1, GrantedFacts
      <4>4. SumOver(f, s..n) = SumOver(f, s..now)
        <5>1. \A u \in (s..now) \cup {n} : f[u] \in Int
          BY <2>2, <4>3
        <5> HIDE DEF n
        <5>2. SumOver(f, (s..now) \cup {n}) = f[n] + SumOver(f, s..now)
          BY <4>2, <4>3, <5>1, SumAdd
        <5>3. SumOver(f, s..n) = f[n] + SumOver(f, s..now)
          BY <4>2, <5>2, Zenon
        <5> QED BY <2>2, <4>3, <5>3
      <4>5. SumOver(f, s..now) + Tokens(buckets, x, now) <= Window(s, now)
        BY <4>1 DEF RateOK, Granted, f
      <4>6. Window(s, n) = Window(s, now) + rpm /\ Window(s, now) \in Nat
        BY <1>0, <2>1, <4>1, WindowFacts
      <4>7. /\ Tokens(buckets, x, n) \in 0..burst /\ Tokens(buckets, x, now) \in 0..burst
            /\ Tokens(buckets, x, n) <= Tokens(buckets, x, now) + rpm
        BY <1>2
      <4> HIDE DEF n
      <4> QED BY <1>0, <4>3, <4>4, <4>5, <4>6, <4>7
    <3> QED BY <3>1, <3>2
  <2>6. Tokens(buckets, x, n) \in 0..burst
    BY <1>2
  <2>7. SumOver(f, s..n) <= Window(s, n)
    <3> HIDE DEF n
    <3> QED BY <1>0, <2>3, <2>4, <2>5, <2>6
  <2> QED BY <2>5, <2>7 DEF f
<1>5. ASSUME NEW x \in Identity \ evicted, NEW s \in 0..n, NEW t \in 0..n, s <= t
      PROVE  SumOver(granted[x], s..t) <= Window(s, t)
  <2>1. CASE t = n
    BY <1>4, <2>1
  <2>2. CASE t # n
    <3>1. s \in 0..now /\ t \in 0..now
      BY <1>0, <1>5, <2>2
    <3> QED BY <1>5, <3>1 DEF RateOK, Granted
  <2> QED BY <2>1, <2>2
<1>6. \A x \in Identity : \A t \in 0..MaxTime : t > n => granted[x][t] = 0
  BY <1>3
<1>7. now' = n
  OBVIOUS
<1> HIDE DEF n
<1> QED BY <1>0, <1>1, <1>4, <1>5, <1>6, <1>7 DEF RateOK, Granted

(* Every step keeps the bound.                                             *)
LEMMA RateInductive ==
    ASSUME ApiInv, RateOK, [ApiNext]_allVars
    PROVE  RateOK'
<1>0. now \in Nat /\ Ided(buckets, now)
  BY StoreAssumption DEF RateOK
<1>1. RateMove
  BY RateMoves DEF ApiInv, ServerOK
<1>t. \A b : Ided(b, now) => \A id : Tokens(b, id, now) \in Int
  <2>1. burst \in Nat
    BY RateLimitAssumption
  <2> QED BY <1>0, <2>1, TokensBounded
<1>2. CASE UNCHANGED <<buckets, granted, evicted, now>>
  <2>1. \A id \in Identity \ evicted' :
            id \notin evicted /\ Tokens(buckets', id, now) <= Tokens(buckets, id, now)
    BY <1>0, <1>2, <1>t
  <2> QED BY <1>0, <1>2, <2>1, RateFrame
<1>3. ASSUME NEW id \in Identity, NEW k \in Nat, Pays(id, k) PROVE RateOK'
  BY <1>3, PaysKeepsRate
<1>4. CASE buckets' = sweepBuckets(buckets, now) /\ UNCHANGED <<granted, evicted, now>>
  <2>1. Ided(buckets', now) /\ \A id : Tokens(buckets', id, now) = Tokens(buckets, id, now)
    BY <1>0, <1>4, SweepFacts
  <2>2. \A id \in Identity \ evicted' :
            id \notin evicted /\ Tokens(buckets', id, now) <= Tokens(buckets, id, now)
    BY <1>0, <1>4, <1>t, <2>1
  <2> QED BY <1>4, <2>1, <2>2, RateFrame
<1>5. CASE buckets' = <<>> /\ evicted' = evicted \cup Ids(buckets) /\ UNCHANGED <<granted, now>>
  <2>1. Ided(buckets', now) /\ Ids(buckets') = {}
    BY <1>5 DEF Ided, Ids
  <2>2. \A id \in Identity \ evicted' : id \notin evicted /\ id \notin Ids(buckets)
    BY <1>5
  <2>3. \A id \in Identity \ evicted' : Tokens(buckets', id, now) = Tokens(buckets, id, now)
    BY <1>0, <2>1, <2>2, TokensKept
  <2>4. \A id \in Identity \ evicted' :
            id \notin evicted /\ Tokens(buckets', id, now) <= Tokens(buckets, id, now)
    BY <1>0, <1>t, <2>2, <2>3
  <2> QED BY <1>5, <2>1, <2>4, RateFrame
<1>6. CASE now < MaxTime /\ now' = now + 1 /\ UNCHANGED <<buckets, granted, evicted>>
  BY <1>6, ClockKeepsRate
<1> QED BY <1>1, <1>2, <1>3, <1>4, <1>5, <1>6 DEF RateMove

(* No bucket and no grant at the start.                                    *)
LEMMA RateInitial == ClientInit => RateOK
<1> SUFFICES ASSUME ClientInit PROVE RateOK
  OBVIOUS
<1>0. /\ now = 0 /\ buckets = <<>> /\ granted = [id \in Identity |-> [t \in 0..MaxTime |-> 0]]
      /\ MaxTime \in Nat /\ burst \in Nat /\ rpm \in Nat
  BY StoreAssumption, RateLimitAssumption DEF ClientInit, ApiInit, Init
<1>1. Ided(buckets, now) /\ now \in 0..MaxTime /\ 0..now = {0} /\ 0 \in Nat
  BY <1>0 DEF Ided
<1>2. granted \in [Identity -> [0..MaxTime -> Nat]] /\ \A id \in Identity, t \in 0..MaxTime : granted[id][t] = 0
  BY <1>0
<1>3. ASSUME NEW id \in Identity
      PROVE  Granted(id, 0, 0) = 0
  <2>1. 0..0 = {0} /\ 0 \in 0..MaxTime
    BY <1>0
  <2>2. IsFiniteSet({0}) /\ \A u \in {0} : granted[id][u] = 0
    BY <1>2, <2>1, FS_Singleton
  <2> QED BY <2>1, <2>2, SumZero DEF Granted
<1>4. \A id \in Identity : Tokens(buckets, id, now) \in 0..burst
  BY <1>0, <1>1, TokensBounded
<1>5. burst <= Window(0, 0) /\ Window(0, 0) \in Nat
  BY <1>1, WindowFacts
<1>6. \A id \in Identity : Granted(id, 0, 0) <= Window(0, 0) /\ Granted(id, 0, now) + Tokens(buckets, id, now) <= Window(0, now)
  BY <1>0, <1>3, <1>4, <1>5
<1> QED BY <1>0, <1>1, <1>2, <1>6 DEF RateOK

(* In any window of time a principal that kept its bucket is granted at    *)
(* most a full bucket and what the window refills (rate-limit.ts), for any *)
(* rate, burst, number of buckets and order of requests, sweeps, restarts  *)
(* and ticks.                                                              *)
THEOREM RatesAreBounded == ApiSpec => []RateIsBounded
<1>1. RateOK => RateIsBounded
  <2> SUFFICES ASSUME RateOK, NEW id \in Identity \ evicted, NEW s \in 0..MaxTime,
                      NEW t \in 0..MaxTime, s <= t
               PROVE  SumOver(granted[id], s..t) <= Window(s, t)
    BY DEF RateIsBounded, SumOver, Window
  <2> DEFINE f == granted[id]
  <2>0. /\ now \in Nat /\ now \in 0..MaxTime /\ MaxTime \in Nat
        /\ f \in [0..MaxTime -> Nat] /\ \A u \in 0..MaxTime : u > now => f[u] = 0
    BY StoreAssumption DEF RateOK
  <2>1. /\ IsFiniteSet(s..t) /\ \A u \in s..t : u \in 0..MaxTime /\ f[u] \in Nat
        /\ SumOver(f, s..t) \in Nat
    <3> HIDE DEF f
    <3> QED BY <2>0, GrantedFacts
  <2>2. Window(s, t) \in Nat
    <3>1. s \in Nat /\ t \in Nat
      BY <2>0
    <3> QED BY <3>1, WindowFacts
  <2>3. CASE t <= now
    <3>1. s \in 0..now /\ t \in 0..now
      BY <2>0, <2>3
    <3> QED BY <3>1 DEF RateOK, Granted
  <2>4. CASE now < s
    <3>1. \A u \in s..t : f[u] = 0
      BY <2>0, <2>1, <2>4
    <3>2. SumOver(f, s..t) = 0
      <4> HIDE DEF f
      <4> QED BY <2>1, <3>1, SumZero
    <3> QED BY <2>2, <3>2
  <2>5. CASE s <= now /\ now < t
    <3>1. s \in 0..now /\ now \in 0..now
      BY <2>0, <2>5
    <3>2. SumOver(f, s..now) <= Window(s, now)
      BY <2>0, <3>1 DEF RateOK, Granted
    <3>3. Signs(f, f, s..t, s..now, {})
      BY <2>0, <2>1, <2>5 DEF Signs
    <3>4. (s..t) \cap (s..now) = s..now /\ (s..t) \cap {} = {}
      BY <2>0, <2>5
    <3>5. SumOver(f, s..t) = SumOver(f, s..now)
      <4> HIDE DEF f
      <4>1. SumOver(f, s..t) = SumOver(f, s..now) - SumOver(f, {})
        <5> DEFINE S == s..t
                   P == s..now
        <5>1. IsFiniteSet(S) /\ Signs(f, f, S, P, {}) /\ S \cap P = P /\ S \cap {} = {}
          BY <2>1, <3>3, <3>4
        <5> HIDE DEF S, P
        <5>2. SumOver(f, S) = SumOver(f, S \cap P) - SumOver(f, S \cap {})
          BY <5>1, SumSigned
        <5>3. SumOver(f, S) = SumOver(f, P) - SumOver(f, {})
          BY <5>1, <5>2, Zenon
        <5> QED BY <5>3 DEF S, P
      <4>2. SumOver(f, {}) = 0
        BY SumEmpty
      <4>3. SumOver(f, s..now) \in Nat
        BY <2>0, GrantedFacts
      <4> QED BY <4>1, <4>2, <4>3
    <3>6. Window(s, now) <= Window(s, t)
      <4>1. now - s \in Nat /\ t - s \in Nat /\ t - now \in Nat /\ t - s = (now - s) + (t - now)
        BY <2>0, <2>5
      <4> DEFINE a == now - s
                 b == t - now
                 c == t - s
      <4>2. a \in Int /\ b \in Int /\ b \in Nat /\ c = a + b /\ a \in Nat
        BY <4>1
      <4> HIDE DEF a, b, c
      <4>3. rpm * (a + b) = rpm * a + rpm * b /\ rpm * b \in Nat /\ rpm * a \in Nat
        BY <4>2, Refills
      <4>4. Window(s, now) = burst + rpm * a /\ Window(s, t) = burst + rpm * c
        BY DEF Window, a, c
      <4>5. burst \in Nat
        BY RateLimitAssumption
      <4> QED BY <4>2, <4>3, <4>4, <4>5
    <3>7. Window(s, now) \in Nat /\ SumOver(f, s..now) \in Nat
      <4>1. s \in Nat /\ s <= now /\ now \in Nat
        BY <2>0, <2>5
      <4> HIDE DEF f
      <4> QED BY <2>0, <4>1, WindowFacts, GrantedFacts
    <3> HIDE DEF f
    <3>8. SumOver(f, s..t) <= Window(s, t)
      BY <2>2, <3>2, <3>5, <3>6, <3>7
    <3> QED BY <3>8 DEF f
  <2> QED BY <2>0, <2>3, <2>4, <2>5
<1>2. ApiInv /\ RateOK /\ [ApiNext]_allVars => RateOK'
  BY RateInductive
<1> QED BY <1>1, <1>2, RateInitial, ApiInvariant, PTL DEF ApiSpec

==============================================================================
