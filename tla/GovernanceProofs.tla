--------------------------- MODULE GovernanceProofs ---------------------------
(***************************************************************************)
(* Proofs about governance and its multi-signature witness, for every set  *)
(* of signers, weights and thresholds and every number of changes, witness *)
(* calls and restarts, and about the registrar and its replay, for every   *)
(* set of identities, every mode and every number of registrations.        *)
(*                                                                         *)
(* RestoreReproducesPolicy is not inductive: a replay step is right only   *)
(* because the event it takes is the one the exporting store applied, to a *)
(* policy that was right already.  Inv adds that each version of the       *)
(* store, and of the exported history, comes from the one before it by one *)
(* event, and that no replay goes past what was exported.                  *)
(*                                                                         *)
(* The registrar's order and its frontier are only inductive together with *)
(* three more facts: a version's parent is its own identity or nothing     *)
(* (what the identity invariant lets through), the newest index issued     *)
(* belongs to a version, and the saved snapshot is one that rehydration    *)
(* accepts.                                                                *)
(***************************************************************************)
EXTENDS MultiSigWitness, RegistrarReplay, DataLemmas, TLAPS

(* The policies h are what the events es make of the initial policy.       *)
Derived(h, es) ==
    /\ Len(h) = Len(es) + 1
    /\ h[1] = InitialPolicy
    /\ \A n \in 1..Len(es) : h[n + 1] = applyEvent(h[n], es[n])

Inv ==
    /\ TypeOK
    /\ VersionCountsEvents
    /\ policy = past[Len(past)]
    /\ Derived(past, events)
    /\ Derived(exported.past, exported.events)
    /\ RestoreReproducesPolicy
    /\ replaying => Len(events) <= Len(exported.events)
    /\ ~replaying => Len(events) >= Len(exported.events)

-----------------------------------------------------------------------------
(* The policy a store starts with.                                         *)
LEMMA InitialPolicyType == InitialPolicy \in Policy /\ InitialPolicy.version = 0
  BY DEF InitialPolicy, Policy, Positive

(* One event turns a policy into a policy, one version later.              *)
LEMMA ApplyEventType ==
    ASSUME NEW p \in Policy, NEW e \in Event
    PROVE  applyEvent(p, e) \in Policy /\ applyEvent(p, e).version = p.version + 1
<1>1. ApplyChange(p, e) \in Policy /\ ApplyChange(p, e).version = p.version
  <2>1. CASE e.type = "signer_added"
    BY <2>1 DEF ApplyChange, Policy, Event, Positive
  <2>2. CASE e.type = "signer_removed"
    BY <2>2 DEF ApplyChange, Policy, Event, Positive
  <2>3. CASE e.type = "quorum_changed"
    BY <2>3 DEF ApplyChange, Policy, Event, Positive
  <2>4. CASE e.type = "sla_policy_set"
    BY <2>4 DEF ApplyChange, Policy, Event, Positive
  <2> QED BY <2>1, <2>2, <2>3, <2>4 DEF Event
<1> QED BY <1>1 DEF applyEvent, Policy

(* The invariant holds in a new store.                                     *)
LEMMA InitInv == Init => Inv
<1> SUFFICES ASSUME Init PROVE Inv
  OBVIOUS
<1>1. /\ policy = InitialPolicy /\ events = <<>> /\ past = <<InitialPolicy>>
      /\ exported = [events |-> <<>>, past |-> <<InitialPolicy>>] /\ replaying = FALSE
  BY DEF Init
<1>2. TypeOK /\ VersionCountsEvents
  <2>1. <<InitialPolicy>> \in Seq(Policy) /\ <<>> \in Seq(Event)
    BY InitialPolicyType
  <2>2. TypeOK
    BY <1>1, <2>1, InitialPolicyType DEF TypeOK
  <2>3. \A n \in 1..Len(past) : past[n].version = n - 1
    BY <1>1, InitialPolicyType
  <2>4. policy.version = Len(events) /\ Len(past) = Len(events) + 1
    BY <1>1, InitialPolicyType
  <2> QED BY <2>2, <2>3, <2>4 DEF VersionCountsEvents
<1>3. Derived(past, events) /\ Derived(exported.past, exported.events)
  BY <1>1 DEF Derived
<1>4. RestoreReproducesPolicy
  BY <1>1 DEF RestoreReproducesPolicy
<1> QED BY <1>1, <1>2, <1>3, <1>4 DEF Inv

(* Applying an event keeps everything Inv says of the store's own history. *)
LEMMA ApplyHistory ==
    ASSUME Inv, NEW e \in Event, Apply(e)
    PROVE  /\ policy' \in Policy /\ events' \in Seq(Event) /\ past' \in Seq(Policy)
           /\ VersionCountsEvents' /\ policy' = past'[Len(past')]
           /\ Derived(past', events')
           /\ Len(events') = Len(events) + 1
           /\ Len(past') = Len(past) + 1
           /\ \A n \in 1..Len(past) : past'[n] = past[n]
           /\ past'[Len(past) + 1] = applyEvent(past[Len(past)], e)
<1>1. /\ policy \in Policy /\ events \in Seq(Event) /\ past \in Seq(Policy)
      /\ Len(past) = Len(events) + 1 /\ policy.version = Len(events)
  BY DEF Inv, TypeOK, VersionCountsEvents
<1>2. /\ policy' = applyEvent(policy, e) /\ events' = Append(events, e)
      /\ past' = Append(past, policy')
  BY DEF Apply
<1>3. policy' \in Policy /\ policy'.version = Len(events) + 1
  BY <1>1, <1>2, ApplyEventType
<1>4. /\ events' \in Seq(Event) /\ past' \in Seq(Policy)
      /\ Len(events') = Len(events) + 1 /\ Len(past') = Len(past) + 1
      /\ past'[Len(past) + 1] = policy'
  BY <1>1, <1>2, <1>3
<1>5. \A n \in 1..Len(past) : past'[n] = past[n]
  BY <1>1, <1>2, <1>3
<1>6. \A n \in 1..Len(events) : events'[n] = events[n]
  BY <1>1, <1>2
<1>7. events'[Len(events) + 1] = e
  BY <1>1, <1>2
<1>8. VersionCountsEvents'
  BY <1>1, <1>3, <1>4, <1>5 DEF VersionCountsEvents, Inv
<1>9. Derived(past', events')
  <2>1. past'[1] = InitialPolicy
    BY <1>1, <1>5 DEF Inv, Derived
  <2>2. ASSUME NEW n \in 1..Len(events')
        PROVE  past'[n + 1] = applyEvent(past'[n], events'[n])
    <3>1. CASE n \in 1..Len(events)
      BY <3>1, <1>1, <1>5, <1>6 DEF Inv, Derived
    <3>2. CASE n = Len(events) + 1
      BY <3>2, <1>1, <1>2, <1>4, <1>5, <1>7 DEF Inv
    <3> QED BY <3>1, <3>2, <1>1, <1>4
  <2> QED BY <2>1, <2>2, <1>1, <1>4 DEF Derived
<1> QED BY <1>1, <1>2, <1>3, <1>4, <1>5, <1>8, <1>9 DEF Inv

(* A change made by a call never reaches back into the exported versions.  *)
LEMMA MutationInv ==
    ASSUME Inv, NEW e \in Event, Mutation(e)
    PROVE  Inv'
<1>1. Apply(e) /\ ~replaying /\ UNCHANGED <<exported, replaying>>
  BY DEF Mutation
<1>2. /\ exported.events \in Seq(Event) /\ exported.past \in Seq(Policy)
      /\ events \in Seq(Event) /\ past \in Seq(Policy)
      /\ Len(past) = Len(events) + 1 /\ Len(events) >= Len(exported.events)
      /\ Len(exported.past) = Len(exported.events) + 1
  BY <1>1 DEF Inv, TypeOK, VersionCountsEvents, Derived
<1>3. RestoreReproducesPolicy'
  BY <1>1, <1>2, ApplyHistory DEF Inv, RestoreReproducesPolicy
<1>4. TypeOK'
  BY <1>1, ApplyHistory DEF Inv, TypeOK
<1> QED BY <1>1, <1>2, <1>3, <1>4, ApplyHistory DEF Inv

(* An export stores a history together with the policies it passed through.*)
LEMMA ExportInv == ASSUME Inv, getEventHistory PROVE Inv'
<1>1. /\ exported' = [events |-> events, past |-> past]
      /\ UNCHANGED <<policy, events, past, replaying>> /\ ~replaying
  BY DEF getEventHistory, storeVars
<1>2. /\ events \in Seq(Event) /\ past \in Seq(Policy)
  BY DEF Inv, TypeOK
<1>3. TypeOK' /\ VersionCountsEvents'
  BY <1>1, <1>2 DEF Inv, TypeOK, VersionCountsEvents
<1>4. RestoreReproducesPolicy'
  BY <1>1, <1>2 DEF RestoreReproducesPolicy
<1> QED BY <1>1, <1>2, <1>3, <1>4 DEF Inv

(* A replay starts by resetting the store.                                 *)
LEMMA ResetInv == ASSUME Inv, replayFrom PROVE Inv'
<1>1. /\ policy' = InitialPolicy /\ events' = <<>> /\ past' = <<InitialPolicy>>
      /\ replaying' = TRUE /\ exported' = exported
  BY DEF replayFrom
<1>2. /\ exported.events \in Seq(Event) /\ exported.past \in Seq(Policy)
      /\ Derived(exported.past, exported.events)
  BY DEF Inv, TypeOK
<1>3. TypeOK' /\ VersionCountsEvents'
  BY <1>1, <1>2, InitialPolicyType DEF Inv, TypeOK, VersionCountsEvents
<1>4. RestoreReproducesPolicy' /\ Derived(past', events')
  BY <1>1, <1>2 DEF RestoreReproducesPolicy, Derived
<1> QED BY <1>1, <1>2, <1>3, <1>4 DEF Inv

(* The event a replay takes makes the next exported version.               *)
LEMMA ReplayEventInv == ASSUME Inv, ReplayEvent PROVE Inv'
<1> DEFINE e == exported.events[Len(events) + 1]
<1>1. /\ replaying /\ Len(events) < Len(exported.events)
      /\ Apply(e) /\ UNCHANGED <<exported, replaying>>
  BY DEF ReplayEvent
<1>2. /\ exported.events \in Seq(Event) /\ exported.past \in Seq(Policy)
      /\ events \in Seq(Event) /\ past \in Seq(Policy)
      /\ Len(past) = Len(events) + 1
      /\ Len(exported.past) = Len(exported.events) + 1
  BY DEF Inv, TypeOK, VersionCountsEvents, Derived
<1>3. e \in Event /\ Len(past) \in 1..Len(exported.events)
  BY <1>1, <1>2
<1>4. /\ exported.past[Len(past) + 1] = applyEvent(exported.past[Len(past)], e)
      /\ exported.past[Len(past)] = past[Len(past)]
  BY <1>1, <1>2, <1>3 DEF Inv, Derived, RestoreReproducesPolicy
<1> HIDE DEF e
<1>5. RestoreReproducesPolicy'
  <2> SUFFICES ASSUME NEW n \in 1..Len(exported.past), n <= Len(past')
               PROVE  past'[n] = exported.past[n]
    BY <1>1 DEF RestoreReproducesPolicy
  <2>1. CASE n \in 1..Len(past)
    BY <2>1, <1>1, <1>2, <1>3, ApplyHistory DEF Inv, RestoreReproducesPolicy
  <2>2. CASE n = Len(past) + 1
    BY <2>2, <1>1, <1>3, <1>4, ApplyHistory
  <2> QED BY <2>1, <2>2, <1>1, <1>2, <1>3, ApplyHistory
<1>6. TypeOK'
  BY <1>1, <1>3, ApplyHistory DEF Inv, TypeOK
<1> QED BY <1>1, <1>2, <1>3, <1>5, <1>6, ApplyHistory DEF Inv

(* The invariant is inductive.                                             *)
LEMMA NextInv == Inv /\ [Next]_vars => Inv'
<1> SUFFICES ASSUME Inv, [Next]_vars PROVE Inv'
  OBVIOUS
<1> USE DEF storeVars
<1>1. ASSUME NEW a \in Address, NEW w \in Weights, NEW k \in BOOLEAN, addSigner(a, w, k)
      PROVE  Inv'
  <2> DEFINE e == [type |-> "signer_added", address |-> a, weight |-> w, publicKey |-> k]
  <2>1. e \in Event
    BY <1>1, WeightsAreIntegers DEF addSigner, Event, Positive
  <2>2. Mutation(e)
    BY <1>1 DEF addSigner
  <2> QED BY <2>1, <2>2, MutationInv
<1>2. ASSUME NEW a \in Address, removeSigner(a) PROVE Inv'
  BY <1>2, MutationInv DEF removeSigner, Event
<1>3. ASSUME NEW q \in Quorums, changeQuorum(q) PROVE Inv'
  <2> DEFINE e == [type |-> "quorum_changed", newQuorum |-> q]
  <2>1. e \in Event
    BY <1>3, QuorumsAreIntegers DEF changeQuorum, Event, Positive
  <2>2. Mutation(e)
    BY <1>3 DEF changeQuorum
  <2> QED BY <2>1, <2>2, MutationInv
<1>4. CASE setSlaPolicy
  BY <1>4, MutationInv DEF setSlaPolicy, Event
<1>5. CASE getEventHistory
  BY <1>5, ExportInv
<1>6. CASE replayFrom
  BY <1>6, ResetInv
<1>7. CASE ReplayEvent
  BY <1>7, ReplayEventInv
<1>8. CASE ReplayDone
  <2>1. /\ UNCHANGED <<policy, events, past, exported>> /\ replaying' = FALSE
        /\ Len(events) = Len(exported.events)
    BY <1>8 DEF ReplayDone
  <2> QED BY <2>1 DEF Inv, TypeOK, VersionCountsEvents, Derived, RestoreReproducesPolicy
<1>9. CASE UNCHANGED <<policy, events, past, exported, replaying>>
  BY <1>9 DEF Inv, TypeOK, VersionCountsEvents, Derived, RestoreReproducesPolicy
<1>10. CASE BeginWitness
  BY <1>9, <1>10 DEF BeginWitness
<1>11. ASSUME NEW p \in pending, FinishWitness(p) PROVE Inv'
  BY <1>9, <1>11 DEF FinishWitness
<1>12. CASE UNCHANGED vars
  BY <1>9, <1>12 DEF vars
<1> QED BY <1>1, <1>2, <1>3, <1>4, <1>5, <1>6, <1>7, <1>8, <1>10, <1>11, <1>12 DEF Next

(* The invariant holds in every behaviour.                                 *)
LEMMA Invariance == Spec => []Inv
  BY InitInv, NextInv, PTL DEF Spec

-----------------------------------------------------------------------------
(* Types, and with them: no quorum in force is ever below one.             *)
THEOREM TypeCorrect == Spec => []TypeOK
<1>1. Inv => TypeOK
  BY DEF Inv
<1> QED BY <1>1, Invariance, PTL

(* The version counts the events, for stores and replays of any length.    *)
THEOREM VersionCorrect == Spec => []VersionCountsEvents
<1>1. Inv => VersionCountsEvents
  BY DEF Inv
<1> QED BY <1>1, Invariance, PTL

(* Replaying an exported history reproduces the policy of every version,   *)
(* whatever the history: "same events, same state".                        *)
THEOREM RestoreCorrect == Spec => []RestoreReproducesPolicy
<1>1. Inv => RestoreReproducesPolicy
  BY DEF Inv
<1> QED BY <1>1, Invariance, PTL

-----------------------------------------------------------------------------
(* What an auditor computes from the events                                *)

(* The auditor's fold, with its recursion made visible.                    *)
Replays(g, es) ==
    g = [s \in SUBSET (DOMAIN es) |->
           IF s = {} THEN InitialPolicy ELSE applyEvent(g[s \ {Max(s)}], es[Max(s)])]

(* The replay is the value, at all indices, of the chosen solution of its  *)
(* fold.                                                                   *)
LEMMA ReplayDef ==
    ASSUME NEW es
    PROVE  replayGovernanceHistory(es) = (CHOOSE g : Replays(g, es))[DOMAIN es]
BY DEF replayGovernanceHistory, FoldLeft, MapThenFoldSet, Replays

(* The fold over a history of events has a solution.                       *)
LEMMA ReplayExists ==
    ASSUME NEW es \in Seq(Event)
    PROVE  Replays(CHOOSE g : Replays(g, es), es)
<1> DEFINE n == Len(es)
           F == [x \in Policy \X Event |-> applyEvent(x[1], x[2])]
<1>1. n \in Nat /\ DOMAIN es = 1..n /\ es \in [1..n -> Event]
  OBVIOUS
<1>2. F \in [Policy \X Event -> Policy]
  BY ApplyEventType
<1>3. \A p \in Policy, e \in Event : F[<<p, e>>] = applyEvent(p, e)
  OBVIOUS
<1> HIDE DEF n, F
<1>4. PICK g \in [SUBSET (1..n) -> Policy] : Folds(g, SUBSET (1..n), InitialPolicy, es, F)
  BY <1>1, <1>2, InitialPolicyType, FoldExists
<1>5. ASSUME NEW s \in SUBSET (1..n)
      PROVE  g[s] = IF s = {} THEN InitialPolicy ELSE applyEvent(g[s \ {Max(s)}], es[Max(s)])
  <2>1. CASE s = {}
    BY <2>1, <1>4 DEF Folds
  <2>2. CASE s # {}
    <3>1. Max(s) \in s
      <4>1. s \in SUBSET Nat /\ \A x \in s : x <= n
        BY <1>1
      <4> QED BY <4>1, <2>2, <1>1, MaxIsGreatest
    <3>2. g[s \ {Max(s)}] \in Policy /\ es[Max(s)] \in Event
      BY <3>1, <1>1
    <3>3. g[s] = F[<<g[s \ {Max(s)}], es[Max(s)]>>]
      BY <2>2, <1>4 DEF Folds
    <3> QED BY <2>2, <3>2, <3>3, <1>3
  <2> QED BY <2>1, <2>2
<1>6. Replays(g, es)
  BY <1>1, <1>5 DEF Replays
<1> QED BY <1>6

(* The fold arrives at the last of the policies the events make.           *)
LEMMA ReplayReachesLast ==
    ASSUME NEW es \in Seq(Event), NEW h, Derived(h, es)
    PROVE  replayGovernanceHistory(es) = h[Len(es) + 1]
<1> DEFINE g == CHOOSE g : Replays(g, es)
           n == Len(es)
           T == {k \in Nat : k <= n => g[1..k] = h[k + 1]}
<1>0. n \in Nat /\ DOMAIN es = 1..n
  OBVIOUS
<1>1. Replays(g, es)
  BY ReplayExists
<1> HIDE DEF g, n
<1>2. ASSUME NEW k \in Nat, \A j \in Nat : j < k => j \in T
      PROVE  k \in T
  <2>1. CASE k = 0
    <3>1. 1..k = {} /\ {} \in SUBSET (1..n)
      BY <2>1
    <3>2. g[{}] = InitialPolicy
      BY <3>1, <1>0, <1>1 DEF Replays
    <3>3. h[k + 1] = InitialPolicy
      BY <2>1 DEF Derived
    <3> QED BY <3>1, <3>2, <3>3
  <2>2. CASE k # 0 /\ k <= n
    <3>1. k - 1 \in Nat /\ k - 1 < k /\ k - 1 <= n
      BY <2>2, <1>0
    <3>2. k - 1 \in T
      <4> HIDE DEF T
      <4> QED BY <1>2, <3>1
    <3>3. g[1..(k - 1)] = h[k]
      BY <3>1, <3>2
    <3>4. Max(1..k) = k /\ (1..k) \ {k} = 1..(k - 1)
      BY <2>2, MaxOfPrefix
    <3>5. 1..k \in SUBSET (1..n) /\ 1..k # {} /\ k \in 1..n
      <4>1. k \in 1..k /\ k \in 1..n
        BY <2>2, <1>0
      <4>2. \A x \in 1..k : x \in 1..n
        BY <2>2, <1>0
      <4> QED BY <4>1, <4>2
    <3>6. g[1..k] = applyEvent(g[1..(k - 1)], es[k])
      <4> DEFINE s == 1..k
      <4>1. g[s] = applyEvent(g[s \ {Max(s)}], es[Max(s)])
        <5> HIDE DEF s
        <5> QED BY <3>5, <1>0, <1>1 DEF Replays, s
      <4> QED BY <4>1, <3>4
    <3>7. h[k + 1] = applyEvent(h[k], es[k])
      BY <3>5 DEF Derived, n
    <3> QED BY <3>3, <3>6, <3>7
  <2> QED BY <2>1, <2>2
<1>3. T = Nat
  <2> HIDE DEF T
  <2>1. T \in SUBSET Nat
    BY DEF T
  <2> QED BY <1>2, <2>1, NoLeastExceptionIsNone
<1>4. g[1..n] = h[n + 1]
  BY <1>0, <1>3
<1>5. replayGovernanceHistory(es) = g[1..n]
  BY <1>0, ReplayDef DEF g
<1> QED BY <1>4, <1>5 DEF n

(* Replaying to a version finds the policy the store had at it.            *)
LEMMA ReplayFindsVersion ==
    ASSUME Inv, NEW v \in 0..Len(events)
    PROVE  replayToVersion(events, v) = past[v + 1]
<1> DEFINE es == SubSeq(events, 1, v)
           h == SubSeq(past, 1, v + 1)
<1>1. /\ events \in Seq(Event) /\ past \in Seq(Policy) /\ Len(past) = Len(events) + 1
      /\ past[1] = InitialPolicy
      /\ \A n \in 1..Len(events) : past[n + 1] = applyEvent(past[n], events[n])
  BY DEF Inv, TypeOK, Derived
<1>2. /\ es \in Seq(Event) /\ Len(es) = v /\ \A n \in 1..v : es[n] = events[n]
  BY <1>1
<1>3. /\ Len(h) = v + 1 /\ \A n \in 1..(v + 1) : h[n] = past[n]
  BY <1>1
<1> HIDE DEF es, h
<1>4. Derived(h, es)
  <2>1. h[1] = InitialPolicy
    BY <1>1, <1>3
  <2>2. ASSUME NEW n \in 1..v PROVE h[n + 1] = applyEvent(h[n], es[n])
    <3>1. n \in 1..Len(events) /\ n \in 1..(v + 1) /\ n + 1 \in 1..(v + 1)
      BY <1>1
    <3> QED BY <3>1, <1>1, <1>2, <1>3
  <2> QED BY <2>1, <2>2, <1>2, <1>3 DEF Derived
<1>5. replayGovernanceHistory(es) = h[v + 1]
  BY <1>2, <1>4, ReplayReachesLast
<1>6. h[v + 1] = past[v + 1]
  BY <1>3
<1> QED BY <1>5, <1>6 DEF replayToVersion, es

(* A witness call keeps the policy it read; what it recorded aggregated    *)
(* under it; until a restart both are among the store's versions.          *)
Remembered(p) == p \in Policy /\ (restarts = 0 => \E n \in 1..Len(past) : past[n] = p)
Witnessed(r) == r.signatures = Counted(r.policy, Wallets) /\ Aggregates(r.policy, Wallets)
WitnessInv ==
    /\ restarts \in Nat
    /\ \A p \in pending : Remembered(p)
    /\ \A r \in records : Remembered(r.policy) /\ Witnessed(r)

(* A new store has recorded no aggregation.                                *)
LEMMA InitWitnessInv == Init => WitnessInv
  BY DEF Init, WitnessInv

(* An accepted aggregation stays justified by the policy it was aggregated *)
(* under.                                                                  *)
LEMMA NextWitnessInv == Inv /\ WitnessInv /\ [Next]_vars => WitnessInv'
<1> SUFFICES ASSUME Inv, WitnessInv, [Next]_vars PROVE WitnessInv'
  OBVIOUS
<1>0. past \in Seq(Policy) /\ policy \in Policy /\ Len(past) >= 1 /\ policy = past[Len(past)]
  BY DEF Inv, TypeOK, Derived
<1>1. ASSUME NEW e \in Event, Apply(e), UNCHANGED <<pending, records, restarts>>
      PROVE  WitnessInv'
  <2>1. ASSUME NEW p, Remembered(p) PROVE Remembered(p)'
    <3>1. Len(past') = Len(past) + 1 /\ \A n \in 1..Len(past) : past'[n] = past[n]
      BY <1>1, ApplyHistory
    <3> QED BY <3>1, <2>1, <1>0, <1>1 DEF Remembered
  <2> QED BY <2>1, <1>1 DEF WitnessInv, Witnessed
<1>2. CASE UNCHANGED <<past, pending, records, restarts>>
  BY <1>2 DEF WitnessInv, Remembered, Witnessed
<1>3. ASSUME NEW a \in Address, NEW w \in Weights, NEW k \in BOOLEAN, addSigner(a, w, k)
      PROVE  WitnessInv'
  <2> DEFINE e == [type |-> "signer_added", address |-> a, weight |-> w, publicKey |-> k]
  <2>1. e \in Event
    BY <1>3, WeightsAreIntegers DEF addSigner, Event, Positive
  <2>2. Mutation(e)
    BY <1>3 DEF addSigner
  <2> QED BY <2>1, <2>2, <1>1 DEF Mutation
<1>4. ASSUME NEW a \in Address, removeSigner(a) PROVE WitnessInv'
  BY <1>4, <1>1 DEF removeSigner, Event, Mutation
<1>5. ASSUME NEW q \in Quorums, changeQuorum(q) PROVE WitnessInv'
  <2> DEFINE e == [type |-> "quorum_changed", newQuorum |-> q]
  <2>1. e \in Event
    BY <1>5, QuorumsAreIntegers DEF changeQuorum, Event, Positive
  <2>2. Mutation(e)
    BY <1>5 DEF changeQuorum
  <2> QED BY <2>1, <2>2, <1>1 DEF Mutation
<1>6. CASE setSlaPolicy
  BY <1>6, <1>1 DEF setSlaPolicy, Event, Mutation
<1>7. CASE getEventHistory \/ ReplayDone
  BY <1>2, <1>7 DEF getEventHistory, ReplayDone, storeVars
<1>8. CASE replayFrom
  <2>1. restarts' = restarts + 1 /\ pending' = {} /\ records' = records
    BY <1>8 DEF replayFrom
  <2> QED BY <2>1 DEF WitnessInv, Remembered, Witnessed
<1>9. CASE ReplayEvent
  <2>1. exported.events[Len(events) + 1] \in Event
    BY <1>9 DEF ReplayEvent, Inv, TypeOK
  <2> QED BY <2>1, <1>1, <1>9 DEF ReplayEvent
<1>10. CASE BeginWitness
  <2>1. /\ pending' = pending \cup {policy} /\ UNCHANGED <<past, records, restarts>>
    BY <1>10 DEF BeginWitness, storeVars
  <2>2. Remembered(policy)
    BY <1>0 DEF Remembered
  <2> QED BY <2>1, <2>2 DEF WitnessInv, Remembered, Witnessed
<1>11. ASSUME NEW p \in pending, FinishWitness(p) PROVE WitnessInv'
  <2>1. /\ pending' \subseteq pending /\ UNCHANGED <<past, restarts>>
        /\ \/ records' = records
           \/ /\ Aggregates(p, Wallets)
              /\ records' = records \cup {[policy |-> p, signatures |-> Counted(p, Wallets)]}
    BY <1>11 DEF FinishWitness, storeVars
  <2>2. CASE records' = records
    BY <2>1, <2>2 DEF WitnessInv, Remembered, Witnessed
  <2>3. CASE /\ Aggregates(p, Wallets)
             /\ records' = records \cup {[policy |-> p, signatures |-> Counted(p, Wallets)]}
    <3>1. ASSUME NEW q, Remembered(q) PROVE Remembered(q)'
      BY <2>1, <3>1 DEF Remembered
    <3>2. ASSUME NEW r \in records' PROVE Remembered(r.policy)' /\ Witnessed(r)'
      <4>1. CASE r \in records
        BY <4>1, <3>1 DEF WitnessInv, Witnessed
      <4>2. CASE r = [policy |-> p, signatures |-> Counted(p, Wallets)]
        BY <4>2, <3>1, <2>3 DEF WitnessInv, Witnessed
      <4> QED BY <4>1, <4>2, <2>3
    <3> QED BY <2>1, <3>1, <3>2 DEF WitnessInv
  <2> QED BY <2>1, <2>2, <2>3
<1>12. CASE UNCHANGED vars
  BY <1>2, <1>12 DEF vars
<1> QED BY <1>3, <1>4, <1>5, <1>6, <1>7, <1>8, <1>9, <1>10, <1>11, <1>12 DEF Next

(* An auditor who folds the exported events alone confirms the quorum of   *)
(* every witnessed record, however the policy changed while the witness    *)
(* waited, for histories of any length.                                    *)
THEOREM HistoricalCorrect == Spec => []HistoricalQuorumValid
<1>1. Inv /\ WitnessInv => HistoricalQuorumValid
  <2> SUFFICES ASSUME Inv, WitnessInv, NEW r \in records,
                      \/ restarts = 0
                      \/ /\ r.policy.version < Len(past)
                         /\ past[r.policy.version + 1] = r.policy
               PROVE  validateHistoricalQuorum(r.signatures, events, r.policy.version)
    BY DEF HistoricalQuorumValid
  <2> DEFINE p == r.policy
             v == r.policy.version
  <2>1. /\ p \in Policy /\ v \in Nat /\ r.signatures = Counted(p, Wallets)
        /\ Aggregates(p, Wallets)
    BY DEF WitnessInv, Remembered, Witnessed, Policy
  <2>2. /\ past \in Seq(Policy) /\ events \in Seq(Event) /\ Len(past) = Len(events) + 1
        /\ \A n \in 1..Len(past) : past[n].version = n - 1
    BY DEF Inv, TypeOK, VersionCountsEvents
  <2>3. v \in 0..Len(events) /\ past[v + 1] = p
    <3>1. CASE restarts = 0
      <4>1. PICK n \in 1..Len(past) : past[n] = p
        BY <3>1 DEF WitnessInv, Remembered
      <4>2. v = n - 1
        BY <4>1, <2>2
      <4> QED BY <4>1, <4>2, <2>2
    <3>2. CASE restarts # 0
      BY <3>2, <2>1, <2>2
    <3> QED BY <3>1, <3>2
  <2>4. replayToVersion(events, v) = p
    BY <2>3, ReplayFindsVersion
  <2> QED BY <2>1, <2>3, <2>4 DEF validateHistoricalQuorum, Aggregates, Counted
<1> QED BY <1>1, InitWitnessInv, NextWitnessInv, Invariance, PTL DEF Spec

-----------------------------------------------------------------------------
(* Attainable quorums                                                      *)

(* Only finitely many signers are ever enrolled, whatever Address is.      *)
LEMMA InitFinite == Init => IsFiniteSet(Signers(policy))
<1>1. Signers(InitialPolicy) = {}
  BY DEF Signers, InitialPolicy
<1> QED BY <1>1, FS_EmptySet DEF Init

(* One event adds at most one signer.                                      *)
LEMMA ApplyFinite ==
    ASSUME NEW p \in Policy, NEW e \in Event, IsFiniteSet(Signers(p))
    PROVE  IsFiniteSet(Signers(applyEvent(p, e)))
<1>1. \E a : Signers(applyEvent(p, e)) \subseteq Signers(p) \cup {a}
  <2>1. CASE e.type = "signer_added"
    <3>1. Signers(applyEvent(p, e)) \subseteq Signers(p) \cup {e.address}
      BY <2>1 DEF Signers, applyEvent, ApplyChange, Policy, Event
    <3> QED BY <3>1
  <2>2. CASE e.type # "signer_added"
    <3>1. Signers(applyEvent(p, e)) \subseteq Signers(p)
      BY <2>2 DEF Signers, applyEvent, ApplyChange, Policy, Event
    <3> QED BY <3>1
  <2> QED BY <2>1, <2>2
<1> QED BY <1>1, FS_AddElement, FS_Subset

(* The signers of the current policy stay finitely many.                   *)
LEMMA NextFinite ==
    Inv /\ IsFiniteSet(Signers(policy)) /\ [Next]_vars => IsFiniteSet(Signers(policy))'
<1> SUFFICES ASSUME Inv, IsFiniteSet(Signers(policy)), [Next]_vars
             PROVE  IsFiniteSet(Signers(policy'))
  OBVIOUS
<1>0. policy \in Policy
  BY DEF Inv, TypeOK
<1>1. ASSUME NEW e \in Event, Apply(e) PROVE IsFiniteSet(Signers(policy'))
  BY ApplyFinite, <1>0, <1>1 DEF Apply
<1>2. ASSUME NEW a \in Address, NEW w \in Weights, NEW k \in BOOLEAN, addSigner(a, w, k)
      PROVE  IsFiniteSet(Signers(policy'))
  <2> DEFINE e == [type |-> "signer_added", address |-> a, weight |-> w, publicKey |-> k]
  <2>1. e \in Event
    BY <1>2, WeightsAreIntegers DEF addSigner, Event, Positive
  <2> QED BY <2>1, <1>1, <1>2 DEF addSigner, Mutation
<1>3. ASSUME NEW a \in Address, removeSigner(a) PROVE IsFiniteSet(Signers(policy'))
  BY <1>1, <1>3 DEF removeSigner, Event, Mutation
<1>4. ASSUME NEW q \in Quorums, changeQuorum(q) PROVE IsFiniteSet(Signers(policy'))
  <2> DEFINE e == [type |-> "quorum_changed", newQuorum |-> q]
  <2>1. e \in Event
    BY <1>4, QuorumsAreIntegers DEF changeQuorum, Event, Positive
  <2> QED BY <2>1, <1>1, <1>4 DEF changeQuorum, Mutation
<1>5. CASE setSlaPolicy
  BY <1>1, <1>5 DEF setSlaPolicy, Event, Mutation
<1>6. CASE replayFrom
  <2>1. policy' = InitialPolicy /\ Signers(InitialPolicy) = {}
    BY <1>6 DEF replayFrom, Signers, InitialPolicy
  <2> QED BY <2>1, FS_EmptySet
<1>7. CASE ReplayEvent
  <2>1. exported.events[Len(events) + 1] \in Event
    BY <1>7 DEF ReplayEvent, Inv, TypeOK
  <2> QED BY <2>1, <1>1, <1>7 DEF ReplayEvent
<1>8. CASE UNCHANGED policy
  BY <1>8
<1> QED BY <1>2, <1>3, <1>4, <1>5, <1>6, <1>7, <1>8
        DEF Next, vars, getEventHistory, ReplayDone, BeginWitness, FinishWitness, storeVars

(* The signers are finitely many in every behaviour.                       *)
LEMMA SignersFinite == Spec => []IsFiniteSet(Signers(policy))
  BY InitFinite, NextFinite, Invariance, PTL DEF Spec

(* What one change does to the total weight.                               *)
LEMMA TotalAfterAdd ==
    ASSUME NEW p \in Policy, IsFiniteSet(Signers(p)), NEW q \in Policy,
           NEW a \in Address \ Signers(p), NEW w \in Positive,
           q.weight = [p.weight EXCEPT ![a] = w]
    PROVE  totalWeight(q) = totalWeight(p) + w /\ totalWeight(p) \in Nat
<1>1. p.weight \in [Address -> Nat] /\ q.weight \in [Address -> Nat] /\ w \in Nat /\ w # 0
  BY DEF Policy, Positive
<1>2. Signers(q) = Signers(p) \cup {a}
  BY <1>1 DEF Signers
<1>3. \A x \in Signers(p) : q.weight[x] = p.weight[x] /\ p.weight[x] \in Nat
  BY <1>1 DEF Signers
<1>4. q.weight[a] = w
  BY <1>1
<1>5. SumOver(q.weight, Signers(p) \cup {a}) = w + SumOver(q.weight, Signers(p))
  <2>1. \A x \in Signers(p) \cup {a} : q.weight[x] \in Int
    BY <1>1, <1>3, <1>4
  <2> QED BY <2>1, <1>4, SumAdd
<1>6. SumOver(q.weight, Signers(p)) = SumOver(p.weight, Signers(p))
  BY <1>3, SumSame
<1>7. SumOver(p.weight, Signers(p)) \in Nat
  <2>1. Signers(p) \in SUBSET Signers(p)
    OBVIOUS
  <2> QED BY <2>1, <1>3, SumMonotone
<1>8. totalWeight(p) = SumOver(p.weight, Signers(p)) /\ totalWeight(q) = SumOver(q.weight, Signers(q))
  BY DEF totalWeight, WeightOf, SumOver
<1> QED BY <1>1, <1>2, <1>5, <1>6, <1>7, <1>8

(* Removing a signer takes its weight from the total.                      *)
LEMMA TotalAfterRemove ==
    ASSUME NEW p \in Policy, IsFiniteSet(Signers(p)), NEW q \in Policy,
           NEW a \in Signers(p), q.weight = [p.weight EXCEPT ![a] = 0]
    PROVE  totalWeight(q) = totalWeight(p) - p.weight[a]
<1>1. p.weight \in [Address -> Nat] /\ q.weight \in [Address -> Nat] /\ a \in Address
  BY DEF Policy, Signers
<1>2. Signers(q) = Signers(p) \ {a}
  BY <1>1 DEF Signers
<1>3. IsFiniteSet(Signers(q))
  BY <1>2, FS_Subset
<1>4. \A x \in Signers(q) : q.weight[x] = p.weight[x] /\ p.weight[x] \in Int
  BY <1>1, <1>2 DEF Signers
<1>5. SumOver(p.weight, Signers(p)) = p.weight[a] + SumOver(p.weight, Signers(p) \ {a})
  <2>1. \A x \in Signers(p) : p.weight[x] \in Int
    BY <1>1 DEF Signers
  <2> QED BY <2>1, SumRemove
<1>6. SumOver(q.weight, Signers(q)) = SumOver(p.weight, Signers(q))
  BY <1>3, <1>4, SumSame
<1>7. SumOver(p.weight, Signers(q)) \in Int
  BY <1>3, <1>4, SumType
<1>8. totalWeight(p) = SumOver(p.weight, Signers(p)) /\ totalWeight(q) = SumOver(q.weight, Signers(q))
  BY DEF totalWeight, WeightOf, SumOver
<1>9. p.weight[a] \in Int
  BY <1>1
<1> QED BY <1>2, <1>5, <1>6, <1>7, <1>8, <1>9

(* One step of the store never makes a reachable quorum unreachable.       *)
LEMMA AttainableStep ==
    ASSUME Inv, IsFiniteSet(Signers(policy)), Next, ~replaying, ~replaying',
           policy.quorum <= totalWeight(policy)
    PROVE  policy'.quorum <= totalWeight(policy')
<1>0. policy \in Policy /\ policy.quorum \in Positive /\ policy.weight \in [Address -> Nat]
  BY DEF Inv, TypeOK, Policy
<1>1. ASSUME NEW a \in Address, NEW w \in Weights, NEW k \in BOOLEAN, addSigner(a, w, k)
      PROVE  policy'.quorum <= totalWeight(policy')
  <2> DEFINE e == [type |-> "signer_added", address |-> a, weight |-> w, publicKey |-> k]
  <2>1. e \in Event /\ w \in Positive /\ a \in Address \ Signers(policy)
    BY <1>1, WeightsAreIntegers DEF addSigner, Event, Positive
  <2>2. policy' = applyEvent(policy, e)
    BY <1>1 DEF addSigner, Mutation, Apply
  <2>3. policy' \in Policy
    BY <1>0, <2>1, <2>2, ApplyEventType
  <2>4. policy'.weight = [policy.weight EXCEPT ![a] = w] /\ policy'.quorum = policy.quorum
    BY <1>0, <2>2 DEF applyEvent, ApplyChange, Policy
  <2>5. totalWeight(policy') = totalWeight(policy) + w /\ totalWeight(policy) \in Nat
    BY <1>0, <2>1, <2>3, <2>4, TotalAfterAdd
  <2> QED BY <1>0, <2>1, <2>4, <2>5 DEF Positive
<1>2. ASSUME NEW a \in Address, removeSigner(a) PROVE policy'.quorum <= totalWeight(policy')
  <2> DEFINE e == [type |-> "signer_removed", address |-> a]
  <2>1. /\ e \in Event /\ a \in Signers(policy)
        /\ totalWeight(policy) - policy.weight[a] >= policy.quorum
    BY <1>2 DEF removeSigner, Event
  <2>2. policy' = applyEvent(policy, e)
    BY <1>2 DEF removeSigner, Mutation, Apply
  <2>3. policy' \in Policy
    BY <1>0, <2>1, <2>2, ApplyEventType
  <2>4. policy'.weight = [policy.weight EXCEPT ![a] = 0] /\ policy'.quorum = policy.quorum
    BY <1>0, <2>2 DEF applyEvent, ApplyChange, Policy
  <2>5. totalWeight(policy') = totalWeight(policy) - policy.weight[a]
    BY <1>0, <2>1, <2>3, <2>4, TotalAfterRemove
  <2>6. /\ totalWeight(policy') \in Int /\ policy'.quorum \in Int
    <3>1. policy'.weight \in [Address -> Nat]
      BY <2>3 DEF Policy
    <3>2. IsFiniteSet(Signers(policy'))
      <4>1. Signers(policy') \subseteq Signers(policy)
        BY <1>0, <2>4 DEF Signers
      <4> QED BY <4>1, FS_Subset
    <3>3. \A x \in Signers(policy') : policy'.weight[x] \in Int
      BY <3>1 DEF Signers
    <3>4. SumOver(policy'.weight, Signers(policy')) \in Int
      BY <3>2, <3>3, SumType
    <3> QED BY <3>4, <2>3 DEF totalWeight, WeightOf, SumOver, Policy, Positive
  <2> QED BY <2>1, <2>4, <2>5, <2>6
<1>3. ASSUME NEW q \in Quorums, changeQuorum(q) PROVE policy'.quorum <= totalWeight(policy')
  <2> DEFINE e == [type |-> "quorum_changed", newQuorum |-> q]
  <2>1. policy' = applyEvent(policy, e) /\ (totalWeight(policy) > 0 => q <= totalWeight(policy))
    BY <1>3 DEF changeQuorum, Mutation, Apply
  <2>2. policy'.weight = policy.weight /\ policy'.quorum = q
    BY <1>0, <2>1 DEF applyEvent, ApplyChange, Policy
  <2>3. totalWeight(policy') = totalWeight(policy)
    BY <2>2 DEF totalWeight, WeightOf, Signers
  <2>4. totalWeight(policy) \in Nat
    <3>1. \A x \in Signers(policy) : policy.weight[x] \in Nat
      BY <1>0 DEF Signers
    <3>2. SumOver(policy.weight, Signers(policy)) \in Nat
      <4>1. Signers(policy) \in SUBSET Signers(policy)
        OBVIOUS
      <4> QED BY <4>1, <3>1, SumMonotone
    <3> QED BY <3>2 DEF totalWeight, WeightOf, SumOver
  <2>5. totalWeight(policy) > 0
    BY <1>0, <2>4 DEF Positive
  <2> QED BY <2>1, <2>2, <2>3, <2>5
<1>4. CASE setSlaPolicy
  <2>1. policy' = applyEvent(policy, [type |-> "sla_policy_set"])
    BY <1>4 DEF setSlaPolicy, Mutation, Apply
  <2>2. policy'.weight = policy.weight /\ policy'.quorum = policy.quorum
    BY <1>0, <2>1 DEF applyEvent, ApplyChange, Policy
  <2> QED BY <2>2 DEF totalWeight, WeightOf, Signers
<1>5. CASE UNCHANGED policy
  BY <1>5
<1>6. ~replayFrom /\ ~ReplayEvent
  BY DEF replayFrom, ReplayEvent
<1> QED BY <1>1, <1>2, <1>3, <1>4, <1>5, <1>6
        DEF Next, getEventHistory, ReplayDone, BeginWitness, FinishWitness, storeVars

(* No sequence of calls leaves the signers unable to reach a quorum they   *)
(* could reach before, for any weights and thresholds.                     *)
THEOREM AttainableCorrect == Spec => QuorumStaysAttainable
<1>1. Inv /\ IsFiniteSet(Signers(policy)) /\ [Next]_vars =>
        [policy.quorum <= totalWeight(policy) /\ ~replaying /\ ~replaying'
            => policy'.quorum <= totalWeight(policy')]_vars
  BY AttainableStep
<1> QED BY <1>1, Invariance, SignersFinite, PTL DEF Spec, QuorumStaysAttainable

-----------------------------------------------------------------------------
(* The multi-signature witness                                             *)

(* The proofs about the submit loop, for the loop over combined blobs.     *)
Loop == INSTANCE WitnessProofs
    WITH Submit <- Witnesses, tx <- wtx, sent <- wsent,
         validated <- wvalidated, accountSeq <- wseq, ledgerIndex <- wledger

(* The two instances of the submitter draw Sequences from the same set.    *)
LEMMA SameSequences == Submitter!Sequences = Loop!Sequences
<1>1. Submitter!Cardinality(wsent) = Loop!Cardinality(wsent)
  BY DEF Submitter!Cardinality, Loop!Cardinality
<1> QED BY <1>1 DEF Submitter!Sequences, Loop!Sequences

(* Whatever governance and the wallets do, a step of the witness is a step *)
(* of the single-signer submit loop or does not concern it.                *)
LEMMA LoopStep ==
    ASSUME [WitnessNext]_<<vars, witnessVars>>
    PROVE  [Loop!SubmitNext]_(Loop!submitVars)
<1> USE DEF ledgerState, signerState, Loop!submitVars
<1>1. ASSUME NEW c \in Witnesses, WitnessStep(c) PROVE [Loop!SubmitNext]_(Loop!submitVars)
  <2>1. CASE _submitPayload(c)
    <3>1. Loop!AutofillFails(c) \/ UNCHANGED ledgerState
      BY <2>1 DEF _submitPayload, Fails, Loop!AutofillFails, Loop!Goto, Loop!ledgerVars
    <3> QED BY <3>1 DEF Loop!SubmitNext
  <2>2. CASE buildMultiSign(c)
    <3>1. Loop!AutofillFails(c) \/ Loop!autofill(c)
      BY <2>2, SameSequences
         DEF buildMultiSign, Fails, Submitter!autofill, Loop!autofill, Loop!AutofillFails,
             Submitter!Goto, Loop!Goto, Submitter!ledgerVars, Loop!ledgerVars,
             Submitter!Sign, Loop!Sign
    <3> QED BY <3>1 DEF Loop!SubmitNext, Loop!Step
  <2>3. CASE AutofillRejects(c)
    <3>1. Loop!AutofillFails(c)
      BY <2>3 DEF AutofillRejects, Submitter!AutofillFails, Loop!AutofillFails,
                  Submitter!Goto, Loop!Goto, Submitter!ledgerVars, Loop!ledgerVars
    <3> QED BY <3>1 DEF Loop!SubmitNext
  <2>4. CASE AttemptRejected(c)
    <3>1. Loop!AttemptFails(c)
      BY <2>4 DEF AttemptRejected, Submitter!AttemptFails, Loop!AttemptFails,
                  Submitter!withRetry, Loop!withRetry,
                  Submitter!Goto, Loop!Goto, Submitter!ledgerVars, Loop!ledgerVars
    <3> QED BY <3>1 DEF Loop!SubmitNext, Loop!Step
  <2>5. CASE _checkExistingTx(c)
    <3>1. Loop!checkExistingTx(c)
      BY <2>5 DEF _checkExistingTx, Submitter!checkExistingTx, Loop!checkExistingTx,
                  Submitter!Goto, Loop!Goto, Submitter!ledgerVars, Loop!ledgerVars
    <3> QED BY <3>1 DEF Loop!SubmitNext, Loop!Step
  <2>6. CASE _submitSigned(c)
    <3>1. Loop!submitAndWait(c) \/ Loop!Confirmed(c)
      BY <2>6 DEF _submitSigned, Submitter!submitAndWait, Loop!submitAndWait,
                  Submitter!Confirmed, Loop!Confirmed,
                  Submitter!Goto, Loop!Goto, Submitter!ledgerVars, Loop!ledgerVars
    <3> QED BY <3>1 DEF Loop!SubmitNext, Loop!Step
  <2>7. CASE GivesUp(c)
    <3>1. Loop!PermanentError(c)
      BY <2>7 DEF GivesUp, Submitter!PermanentError, Loop!PermanentError,
                  Submitter!Goto, Loop!Goto, Submitter!ledgerVars, Loop!ledgerVars
    <3> QED BY <3>1 DEF Loop!SubmitNext
  <2> QED BY <1>1, <2>1, <2>2, <2>3, <2>4, <2>5, <2>6, <2>7 DEF WitnessStep
<1>2. CASE LedgerStep
  <2>1. \/ \E t \in wsent : Loop!Include(t) \/ Loop!LoseBlob(t)
        \/ Loop!CloseLedger
    BY <1>2 DEF LedgerStep, Submitter!Include, Loop!Include, Submitter!LoseBlob, Loop!LoseBlob,
                Submitter!CloseLedger, Loop!CloseLedger, Submitter!ledgerVars, Loop!ledgerVars
  <2> QED BY <2>1 DEF Loop!SubmitNext
<1>3. CASE ConnectSigners \/ _rollbackConnect \/ DisconnectSigners \/ PolicyStep
           \/ UNCHANGED witnessVars \/ \E a \in loading : resolveSecret(a)
  BY <1>3 DEF ConnectSigners, _rollbackConnect, DisconnectSigners, PolicyStep, resolveSecret,
              witnessVars
<1> QED BY <1>1, <1>2, <1>3 DEF WitnessNext

(* What WitnessProofs proves of the submission loop holds of the one inside*)
(* the multi-signature witness.                                            *)
LEMMA LoopInvariance == WitnessSpec => []Loop!Inv
<1>1. WitnessInit => Loop!SubmitInit
  BY DEF WitnessInit, Submitter!SubmitInit, Loop!SubmitInit, Submitter!NoTx, Loop!NoTx
<1>2. WitnessSpec => Loop!SubmitSpec
  BY <1>1, LoopStep, PTL DEF WitnessSpec, Loop!SubmitSpec
<1>3. Loop!SubmitSpec => []Loop!Inv
  BY Loop!Invariance, LoopIsBounded, PTL
<1> QED BY <1>2, <1>3, PTL

(* The multi-signature submit loop implements the single-signer one: with  *)
(* governance, wallets and connections changing around it, its steps are   *)
(* those of XrplSubmitter over the combined blob.                          *)
THEOREM LoopRefined == WitnessSpec => Submitter!SubmitSpec
<1>1. WitnessInit => Submitter!SubmitInit
  BY DEF WitnessInit
<1>2. [Loop!SubmitNext]_(Loop!submitVars) => [Submitter!SubmitNext]_(Submitter!submitVars)
  BY SameSequences
     DEF Loop!SubmitNext, Submitter!SubmitNext, Loop!submitVars, Submitter!submitVars, Loop!Step, Submitter!Step,
         Submitter!autofill, Loop!autofill, Submitter!AutofillFails, Loop!AutofillFails,
         Submitter!Sign, Loop!Sign, Submitter!AttemptFails, Loop!AttemptFails, Submitter!withRetry, Loop!withRetry,
         Submitter!checkExistingTx, Loop!checkExistingTx,
         Submitter!submitAndWait, Loop!submitAndWait, Submitter!Confirmed, Loop!Confirmed,
         Submitter!PermanentError, Loop!PermanentError,
         Submitter!Include, Loop!Include, Submitter!LoseBlob, Loop!LoseBlob,
         Submitter!CloseLedger, Loop!CloseLedger,
         Submitter!Goto, Loop!Goto, Submitter!ledgerVars, Loop!ledgerVars
<1> QED BY <1>1, <1>2, LoopStep, PTL DEF WitnessSpec, Submitter!SubmitSpec

(* A policy that the store with the history h had at one of its versions.  *)
InPast(h, p) == p \in Policy /\ IsFiniteSet(Signers(p)) /\ \E n \in 1..Len(h) : h[n] = p

(* A call is given a policy of the store; what it signed aggregates under  *)
(* that policy; a record is kept only for what is on the ledger.           *)
QuorumInv ==
    /\ \A c \in Witnesses : read[c] # NoPolicy => InPast(past, read[c])
    /\ \A c \in Witnesses : wtx[c] # Loop!NoTx =>
            read[c] # NoPolicy /\ Aggregates(read[c], signedBy[c])
    /\ read \in [Witnesses -> Policy \cup {NoPolicy}]
    /\ signedBy = [c \in Witnesses |-> signedBy[c]]
    /\ kept \in Seq(Witnesses)
    /\ \A k \in DOMAIN kept : \E t \in wvalidated : t.call = kept[k]

StoreInv == Inv /\ IsFiniteSet(Signers(policy))

(* The bounded record keeps witnesses it had, and the new one.             *)
LEMMA RetainRecord ==
    ASSUME NEW c \in Witnesses, kept \in Seq(Witnesses)
    PROVE  /\ _retainRecord(c) \in Seq(Witnesses)
           /\ \A k \in DOMAIN _retainRecord(c) :
                 _retainRecord(c)[k] = c
                 \/ \E j \in DOMAIN kept : _retainRecord(c)[k] = kept[j]
<1> DEFINE all == Append(kept, c)
           first == IF Len(all) > maxRecords THEN Len(all) - maxRecords + 1 ELSE 1
<1>1. /\ all \in Seq(Witnesses) /\ Len(all) = Len(kept) + 1 /\ Len(kept) \in Nat
      /\ \A k \in 1..Len(all) : all[k] = c \/ \E j \in DOMAIN kept : all[k] = kept[j]
  OBVIOUS
<1>2. CASE maxRecords <= 0
  BY <1>2 DEF _retainRecord
<1>3. CASE ~(maxRecords <= 0)
  <2>1. _retainRecord(c) = SubSeq(all, first, Len(all))
    BY <1>3 DEF _retainRecord
  <2>2. first \in 1..Len(all)
    BY <1>1, <1>3, RecordsAreCounted
  <2> HIDE DEF all, first
  <2>3. /\ SubSeq(all, first, Len(all)) \in Seq(Witnesses)
        /\ Len(SubSeq(all, first, Len(all))) = Len(all) - first + 1
        /\ \A k \in 1..(Len(all) - first + 1) :
              SubSeq(all, first, Len(all))[k] = all[first + k - 1]
    BY <1>1, <2>2
  <2>4. \A k \in 1..(Len(all) - first + 1) : first + k - 1 \in 1..Len(all)
    BY <1>1, <2>2
  <2> QED BY <2>1, <2>3, <2>4, <1>1
<1> QED BY <1>2, <1>3

(* A step of the composition keeps the store well formed and forgets no    *)
(* policy.                                                                 *)
LEMMA StoreStep ==
    ASSUME StoreInv, [WitnessNext]_<<vars, witnessVars>>
    PROVE  /\ StoreInv'
           /\ \A p : InPast(past, p) => InPast(past', p)
<1>1. CASE UNCHANGED <<policy, events, past, exported, replaying>>
  <2>1. Inv'
    BY <1>1 DEF StoreInv, Inv, TypeOK, VersionCountsEvents, Derived, RestoreReproducesPolicy
  <2> QED BY <1>1, <2>1 DEF StoreInv, InPast
<1>2. CASE PolicyStep
  <2>1. [Next]_vars
    BY <1>2 DEF PolicyStep, Next
  <2>2. StoreInv'
    BY <2>1, NextInv, NextFinite DEF StoreInv
  <2>3. PICK e \in Event : Apply(e)
    <3>1. ASSUME NEW a \in Address, NEW w \in Weights, NEW k \in BOOLEAN, addSigner(a, w, k)
          PROVE  \E e \in Event : Apply(e)
      <4> DEFINE e == [type |-> "signer_added", address |-> a, weight |-> w, publicKey |-> k]
      <4>1. e \in Event
        BY <3>1, WeightsAreIntegers DEF addSigner, Event, Positive
      <4>2. Apply(e)
        BY <3>1 DEF addSigner, Mutation
      <4> HIDE DEF e
      <4> QED BY <4>1, <4>2
    <3>2. ASSUME NEW a \in Address, removeSigner(a) PROVE \E e \in Event : Apply(e)
      <4> DEFINE e == [type |-> "signer_removed", address |-> a]
      <4>1. e \in Event
        BY DEF Event
      <4>2. Apply(e)
        BY <3>2 DEF removeSigner, Mutation
      <4> HIDE DEF e
      <4> QED BY <4>1, <4>2
    <3>3. ASSUME NEW q \in Quorums, changeQuorum(q) PROVE \E e \in Event : Apply(e)
      <4> DEFINE e == [type |-> "quorum_changed", newQuorum |-> q]
      <4>1. e \in Event
        BY <3>3, QuorumsAreIntegers DEF changeQuorum, Event, Positive
      <4>2. Apply(e)
        BY <3>3 DEF changeQuorum, Mutation
      <4> HIDE DEF e
      <4> QED BY <4>1, <4>2
    <3> QED BY <3>1, <3>2, <3>3, <1>2 DEF PolicyStep
  <2>4. /\ Len(past') = Len(past) + 1 /\ \A n \in 1..Len(past) : past'[n] = past[n]
        /\ past \in Seq(Policy)
    BY <2>3, ApplyHistory DEF StoreInv, Inv, TypeOK
  <2>5. \A p : InPast(past, p) => InPast(past', p)
    BY <2>4 DEF InPast
  <2> QED BY <2>2, <2>5
<1> QED BY <1>1, <1>2
        DEF WitnessNext, WitnessStep, ConnectSigners, _rollbackConnect, DisconnectSigners,
            resolveSecret, _submitPayload, buildMultiSign, AutofillRejects, AttemptRejected,
            _checkExistingTx, _submitSigned, GivesUp, LedgerStep, Outcome, vars, storeVars

(* Before the first call there is nothing on the ledger.                   *)
LEMMA InitQuorumInv == Init /\ WitnessInit => StoreInv /\ QuorumInv
<1> SUFFICES ASSUME Init, WitnessInit PROVE StoreInv /\ QuorumInv
  OBVIOUS
<1>1. StoreInv
  BY InitInv, InitFinite DEF StoreInv
<1>2. /\ read = [c \in Witnesses |-> NoPolicy] /\ kept = <<>>
      /\ signedBy = [c \in Witnesses |-> {}]
      /\ wtx = [c \in Witnesses |-> Loop!NoTx]
  BY DEF WitnessInit, Submitter!SubmitInit, Submitter!NoTx, Loop!NoTx
<1> QED BY <1>1, <1>2 DEF QuorumInv

(* What is signed, sent or validated keeps its quorum.                     *)
LEMMA NextQuorumInv ==
    StoreInv /\ Loop!Inv /\ Loop!Inv' /\ QuorumInv /\ [WitnessNext]_<<vars, witnessVars>>
        => QuorumInv'
<1> SUFFICES ASSUME StoreInv, Loop!Inv, Loop!Inv', QuorumInv,
                    [WitnessNext]_<<vars, witnessVars>>
             PROVE  QuorumInv'
  OBVIOUS
<1>0. \A p : InPast(past, p) => InPast(past', p)
  BY StoreStep
<1>1. ASSUME UNCHANGED <<read, signedBy, wtx, kept>>, wvalidated \subseteq wvalidated'
      PROVE  QuorumInv'
  BY <1>0, <1>1 DEF QuorumInv
<1>2. ASSUME NEW c \in Witnesses, Outcome(c), UNCHANGED <<wtx, wvalidated>>
      PROVE  QuorumInv'
  <2>1. UNCHANGED <<read, signedBy>>
    BY <1>2 DEF Outcome, signerState
  <2>2. CASE wpc'[c] = "ok"
    <3>1. kept' = _retainRecord(c)
      BY <1>2, <2>2 DEF Outcome
    <3>2. wtx'[c] \in wvalidated' /\ wtx'[c].call = c
      BY <2>2 DEF Loop!Inv, Loop!OkImpliesValidated, Loop!Signed, Loop!Retrying
    <3>3. kept \in Seq(Witnesses) /\ \A k \in DOMAIN kept : \E t \in wvalidated : t.call = kept[k]
      BY DEF QuorumInv
    <3>4. /\ kept' \in Seq(Witnesses)
          /\ \A k \in DOMAIN kept' : kept'[k] = c \/ \E j \in DOMAIN kept : kept'[k] = kept[j]
      BY <3>1, <3>3, RetainRecord
    <3>5. \A k \in DOMAIN kept' : \E t \in wvalidated' : t.call = kept'[k]
      BY <3>2, <3>3, <3>4, <1>2
    <3> QED BY <1>0, <1>2, <2>1, <3>4, <3>5 DEF QuorumInv
  <2>3. CASE wpc'[c] # "ok"
    BY <1>1, <1>2, <2>1, <2>3 DEF Outcome
  <2> QED BY <2>2, <2>3
<1>3. ASSUME NEW c \in Witnesses, _submitPayload(c) PROVE QuorumInv'
  <2>1. /\ wpc[c] = "new" /\ UNCHANGED <<signedBy, kept, wtx, wvalidated>>
        /\ read' = read \/ read' = [read EXCEPT ![c] = policy]
    BY <1>3 DEF _submitPayload, ledgerState, Fails
  <2>2. wtx[c] = Loop!NoTx
    BY <2>1 DEF Loop!Inv, Loop!Signed
  <2>3. InPast(past, policy)
    BY DEF StoreInv, Inv, TypeOK, Derived, InPast
  <2>4. CASE read' = read
    BY <1>1, <2>1, <2>4
  <2>5. CASE read' = [read EXCEPT ![c] = policy]
    <3>1. read' \in [Witnesses -> Policy \cup {NoPolicy}]
      BY <2>3, <2>5 DEF QuorumInv, InPast
    <3>2. \A d \in Witnesses : read'[d] # NoPolicy => InPast(past', read'[d])
      BY <1>0, <2>3, <2>5 DEF QuorumInv
    <3>3. \A d \in Witnesses \ {c} : read'[d] = read[d]
      BY <2>5 DEF QuorumInv
    <3> QED BY <2>1, <2>2, <3>1, <3>2, <3>3 DEF QuorumInv
  <2> QED BY <2>1, <2>4, <2>5
<1>4. ASSUME NEW c \in Witnesses, buildMultiSign(c) PROVE QuorumInv'
  <2>1. /\ wpc[c] = "new" /\ read[c] # NoPolicy /\ UNCHANGED <<read, kept, wvalidated>>
        /\ signedBy' = [signedBy EXCEPT ![c] = wallets]
        /\ \/ wtx' = wtx
           \/ /\ Aggregates(read[c], wallets)
              /\ \E t : wtx' = [wtx EXCEPT ![c] = t]
    BY <1>4 DEF buildMultiSign, ledgerState, Fails, Submitter!autofill, Submitter!ledgerVars,
                Submitter!AutofillFails
  <2>2. wtx[c] = Loop!NoTx /\ DOMAIN wtx = Witnesses
    BY <2>1 DEF Loop!Inv, Loop!Signed, Loop!TypeOK
  <2>3. /\ \A d \in Witnesses \ {c} : wtx'[d] = wtx[d] /\ signedBy'[d] = signedBy[d]
        /\ signedBy'[c] = wallets /\ signedBy' = [d \in Witnesses |-> signedBy'[d]]
    BY <2>1, <2>2 DEF QuorumInv
  <2>4. ASSUME NEW d \in Witnesses, wtx'[d] # Loop!NoTx
        PROVE  read'[d] # NoPolicy /\ Aggregates(read'[d], signedBy'[d])
    <3>1. CASE d = c
      BY <3>1, <2>1, <2>2, <2>3, <2>4
    <3>2. CASE d # c
      BY <3>2, <2>1, <2>3, <2>4 DEF QuorumInv
    <3> QED BY <3>1, <3>2
  <2> QED BY <1>0, <2>1, <2>3, <2>4 DEF QuorumInv
<1>5. ASSUME NEW c \in Witnesses, AutofillRejects(c) PROVE QuorumInv'
  BY <1>1, <1>5 DEF AutofillRejects, Submitter!AutofillFails, Submitter!ledgerVars
<1>6. ASSUME NEW c \in Witnesses, AttemptRejected(c) PROVE QuorumInv'
  BY <1>2, <1>6 DEF AttemptRejected, Submitter!AttemptFails, Submitter!ledgerVars
<1>7. ASSUME NEW c \in Witnesses, _checkExistingTx(c) PROVE QuorumInv'
  BY <1>2, <1>7 DEF _checkExistingTx, Submitter!checkExistingTx, Submitter!ledgerVars
<1>8. ASSUME NEW c \in Witnesses, _submitSigned(c) PROVE QuorumInv'
  BY <1>2, <1>8 DEF _submitSigned, Submitter!submitAndWait, Submitter!Confirmed,
                    Submitter!ledgerVars
<1>9. ASSUME NEW c \in Witnesses, GivesUp(c) PROVE QuorumInv'
  BY <1>2, <1>9 DEF GivesUp, Submitter!PermanentError, Submitter!ledgerVars
<1>10. CASE LedgerStep
  BY <1>1, <1>10 DEF LedgerStep, Submitter!Include, Submitter!LoseBlob, Submitter!CloseLedger,
                     Submitter!ledgerVars
<1>11. CASE UNCHANGED <<read, signedBy, kept, ledgerState>>
  BY <1>1, <1>11 DEF ledgerState
<1> QED BY <1>3, <1>4, <1>5, <1>6, <1>7, <1>8, <1>9, <1>10, <1>11
        DEF WitnessNext, WitnessStep, ConnectSigners, _rollbackConnect, DisconnectSigners,
            resolveSecret, PolicyStep, witnessVars

(* What aggregates under a policy proves that the policy could authorise.  *)
LEMMA AggregatesAuthorise ==
    ASSUME NEW p \in Policy, IsFiniteSet(Signers(p)), NEW S, Aggregates(p, S)
    PROVE  Signers(p) # {} /\ p.quorum <= totalWeight(p)
<1>1. /\ S \subseteq Signers(p) /\ SumOver(p.weight, Counted(p, S)) >= p.quorum
      /\ p.quorum \in Positive /\ p.weight \in [Address -> Nat]
  BY DEF Aggregates, WeightOf, SumOver, Policy
<1>2. Counted(p, S) \in SUBSET Signers(p) /\ \A x \in Signers(p) : p.weight[x] \in Nat
  BY <1>1 DEF Counted, Signers
<1>3. /\ SumOver(p.weight, Counted(p, S)) \in Nat /\ SumOver(p.weight, Signers(p)) \in Nat
      /\ SumOver(p.weight, Counted(p, S)) <= SumOver(p.weight, Signers(p))
  BY <1>2, SumMonotone
<1>4. p.quorum <= SumOver(p.weight, Signers(p)) /\ p.quorum >= 1
  BY <1>1, <1>3 DEF Positive
<1>5. Signers(p) # {}
  BY <1>1, <1>4, SumEmpty DEF Positive
<1> QED BY <1>4, <1>5 DEF totalWeight, WeightOf, SumOver

(* Every attestation that reaches the ledger, acknowledged or not, was     *)
(* signed by a quorum of a policy that could authorise it and that the     *)
(* event history shows at its version; a record is kept only for what is   *)
(* on the ledger; no call puts two transactions there.                     *)
THEOREM QuorumCorrect == WitnessSpec => []LedgerHasQuorum
<1>1. WitnessSpec => [](StoreInv /\ QuorumInv)
  <2>1. StoreInv /\ [WitnessNext]_<<vars, witnessVars>> => StoreInv'
    BY StoreStep
  <2> QED BY <2>1, InitQuorumInv, NextQuorumInv, LoopInvariance, PTL DEF WitnessSpec
<1>2. StoreInv /\ QuorumInv /\ Loop!Inv => LedgerHasQuorum
  <2> SUFFICES ASSUME StoreInv, QuorumInv, Loop!Inv PROVE LedgerHasQuorum
    OBVIOUS
  <2>1. ASSUME NEW t \in wvalidated
        PROVE  LET p == read[t.call]
               IN  /\ validateHistoricalQuorum(Counted(p, signedBy[t.call]), events, p.version)
                   /\ validateAuthority(replayToVersion(events, p.version), p.version)
    <3> DEFINE p == read[t.call]
               S == signedBy[t.call]
    <3>1. t.call \in Witnesses /\ t = wtx[t.call] /\ t.seq >= 1
      BY DEF Loop!Inv, Loop!OnlySigned, Loop!TypeOK, Loop!Tx
    <3>2. wtx[t.call] # Loop!NoTx
      BY <3>1 DEF Loop!NoTx
    <3>3. InPast(past, p) /\ Aggregates(p, S)
      BY <3>1, <3>2 DEF QuorumInv
    <3>4. /\ past \in Seq(Policy) /\ events \in Seq(Event) /\ Len(past) = Len(events) + 1
          /\ \A n \in 1..Len(past) : past[n].version = n - 1
      BY DEF StoreInv, Inv, TypeOK, VersionCountsEvents
    <3> HIDE DEF p, S
    <3>5. PICK n \in 1..Len(past) : past[n] = p
      BY <3>3 DEF InPast
    <3>6. p.version = n - 1 /\ n - 1 \in 0..Len(events)
      BY <3>4, <3>5
    <3>7. replayToVersion(events, p.version) = p
      BY <3>5, <3>6, ReplayFindsVersion DEF StoreInv
    <3>8. Signers(p) # {} /\ p.quorum <= totalWeight(p)
      BY <3>3, AggregatesAuthorise DEF InPast
    <3>9. validateHistoricalQuorum(Counted(p, S), events, p.version)
      BY <3>3, <3>6, <3>7 DEF validateHistoricalQuorum, Aggregates, Counted
    <3>10. validateAuthority(replayToVersion(events, p.version), p.version)
      BY <3>7, <3>8 DEF validateAuthority
    <3> QED BY <3>9, <3>10 DEF p, S
  <2>2. \A k \in DOMAIN kept : \E t \in wvalidated : t.call = kept[k]
    BY DEF QuorumInv
  <2>3. \A t, u \in wvalidated : t.call = u.call => t = u
    BY DEF Loop!Inv, Loop!OnlySigned
  <2> QED BY <2>1, <2>2, <2>3 DEF LedgerHasQuorum
<1> QED BY <1>1, <1>2, LoopInvariance, PTL

-----------------------------------------------------------------------------
(* The registrar                                                           *)

SelfParent == \A v \in versionsByKey : v.parentId \in {v.id, Null}

TopExists == currentOrderIndex > 0 =>
                \E v \in versionsByKey : v.orderIndex = currentOrderIndex - 1

SavedShape ==
    /\ saved.state_ids \subseteq StateID
    /\ saved.lineage = [id \in saved.state_ids |-> Null]
    /\ saved.assigned \in [saved.state_ids -> Nat]
    /\ saved.max_index \in Int /\ saved.max_index >= -1
    /\ validateSnapshot(saved)

RegistrarInv == RegistrarTypeOK /\ OrderIsTotal /\ FrontierIsNewest /\ SelfParent /\ TopExists /\ SavedShape

(* What either witness lets through: a root with a new identity, or a new  *)
(* version of a registered identity.                                       *)
LEMMA AcceptedShape ==
  ASSUME NEW t \in Transition, Violations(t) = {}
  PROVE  \/ t.from = Null /\ ~Registered(t.to)
         \/ t.from # Null /\ t.to = t.from /\ Registered(t.from)
<1>1. LegacyViolations(t) = {} \/ RegistryViolations(t) = {}
  BY DEF Violations
<1>2. /\ ~(t.from # Null /\ t.to # t.from)
      /\ ~(t.from = Null /\ Registered(t.to))
      /\ ~(t.from # Null /\ ~Registered(t.from))
  BY <1>1 DEF LegacyViolations, RegistryViolations, Fires, identityImmutable, identityExplicit,
                 identityUnique, lineageParentExists, lineageContinuous
<1>3. QED BY <1>2

(* With own-identity parents only, the projected lineage has only roots.   *)
LEMMA SnapshotLineage ==
  ASSUME SelfParent
  PROVE  \A id \in StateID : resolveSnapshotParentId(id) = Null
  BY DEF SelfParent, resolveSnapshotParentId, VersionsOf

(* The snapshot of a registrar that satisfies the invariant is restorable. *)
LEMMA SnapshotShape ==
  ASSUME RegistrarTypeOK, OrderIsTotal, FrontierIsNewest, SelfParent, TopExists
  PROVE  /\ snapshot.state_ids \subseteq StateID
         /\ snapshot.lineage = [id \in snapshot.state_ids |-> Null]
         /\ snapshot.assigned \in [snapshot.state_ids -> Nat]
         /\ snapshot.max_index \in Int /\ snapshot.max_index >= -1
         /\ validateSnapshot(snapshot)
<1>1. /\ snapshot.state_ids = Frontier
      /\ snapshot.lineage = [id \in Frontier |-> Null]
      /\ snapshot.assigned = [id \in Frontier |-> latestById[id]]
      /\ snapshot.max_index = currentOrderIndex - 1
  BY SnapshotLineage DEF snapshot, Frontier
<1>2. /\ Frontier \subseteq StateID
      /\ \A id \in Frontier : latestById[id] \in Nat /\ latestById[id] < currentOrderIndex
  BY DEF Frontier, Registered, RegistrarTypeOK, FrontierIsNewest, OrderIsTotal
<1>3. \A id, jd \in Frontier : latestById[id] = latestById[jd] => id = jd
  BY DEF Frontier, FrontierIsNewest, OrderIsTotal
<1>4. Frontier = {} => currentOrderIndex = 0
  <2> SUFFICES ASSUME currentOrderIndex # 0 PROVE Frontier # {}
    OBVIOUS
  <2>1. PICK v \in versionsByKey : v.orderIndex = currentOrderIndex - 1
    BY DEF TopExists, RegistrarTypeOK
  <2>2. v.id \in Frontier
    BY <2>1 DEF Frontier, Registered, FrontierIsNewest, RegistrarTypeOK, Version, NoVersion
  <2>3. QED BY <2>2
<1>5. Frontier # {} => \E id \in Frontier : latestById[id] = currentOrderIndex - 1
  <2> SUFFICES ASSUME Frontier # {} PROVE \E id \in Frontier : latestById[id] = currentOrderIndex - 1
    OBVIOUS
  <2>1. currentOrderIndex > 0
    BY <1>2 DEF RegistrarTypeOK
  <2>2. PICK v \in versionsByKey : v.orderIndex = currentOrderIndex - 1
    BY <2>1 DEF TopExists
  <2>3. v.id \in Frontier /\ latestById[v.id] >= currentOrderIndex - 1
    BY <2>2 DEF Frontier, Registered, FrontierIsNewest, RegistrarTypeOK, Version, NoVersion
  <2>4. QED BY <1>2, <2>3 DEF RegistrarTypeOK
<1>6. validateSnapshot(snapshot)
  <2>1. \A S \in SUBSET Frontier : S # {} => \E id \in S : snapshot.lineage[id] \notin S
    BY <1>1, <1>2, NullIsNoID
  <2>2. QED BY <1>1, <1>2, <1>3, <1>4, <1>5, <2>1 DEF validateSnapshot, RegistrarTypeOK
<1>7. QED BY <1>1, <1>2, <1>6 DEF RegistrarTypeOK

(* The empty registrar and its snapshot satisfy the invariant.             *)
LEMMA RegistrarInitInv == RegistrarInit => RegistrarInv
<1> SUFFICES ASSUME RegistrarInit PROVE RegistrarInv
  OBVIOUS
<1>1. RegistrarTypeOK /\ OrderIsTotal /\ FrontierIsNewest /\ SelfParent /\ TopExists
  BY DEF RegistrarInit, RegistrarTypeOK, OrderIsTotal, FrontierIsNewest, Registered, SelfParent, TopExists,
         NoVersion
<1>2. SavedShape
  BY <1>1, SnapshotShape DEF RegistrarInit, SavedShape
<1>3. QED BY <1>1, <1>2 DEF RegistrarInv

(* Accepting a transition that no invariant refuses keeps the invariant.   *)
LEMMA AcceptInv ==
  ASSUME RegistrarInv, NEW t \in Transition, Violations(t) = {}, acceptTransition(t),
         lastParityStatus' \in {Null, "AGREED", "HALTED"}, saved' = saved
  PROVE  RegistrarInv'
<1> DEFINE n == currentOrderIndex
           new == [id |-> t.to, parentId |-> t.from, orderIndex |-> n,
                   parentKey |-> IF t.from # Null
                                 THEN makeVersionKey(t.from, latestById[t.from])
                                 ELSE NoKey]
<1>1. /\ versionsByKey' = versionsByKey \cup {new}
      /\ latestById' = [latestById EXCEPT ![t.to] = n]
      /\ currentOrderIndex' = n + 1
  BY DEF acceptTransition
<1>2. /\ t.to \in StateID /\ t.from \in StateID \cup {Null} /\ n \in Nat
      /\ t.from # Null => t.from = t.to /\ latestById[t.from] \in Nat
  BY AcceptedShape DEF Transition, RegistrarInv, RegistrarTypeOK, Registered, NoVersion
<1>3. new \in Version
  BY <1>2 DEF Version, makeVersionKey
<1>4. RegistrarTypeOK'
  BY <1>1, <1>2, <1>3 DEF RegistrarInv, RegistrarTypeOK
<1>5. OrderIsTotal'
  BY <1>1, <1>2 DEF RegistrarInv, OrderIsTotal, RegistrarTypeOK, Version
<1>6. FrontierIsNewest'
  <2>1. ASSUME NEW v \in versionsByKey' PROVE v.orderIndex <= latestById'[v.id]
    <3>1. CASE v = new
      BY <1>1, <1>2, <3>1 DEF RegistrarInv, RegistrarTypeOK
    <3>2. CASE v \in versionsByKey
      <4>1. v \in Version /\ v.orderIndex <= latestById[v.id] /\ v.orderIndex < n
        BY <3>2 DEF RegistrarInv, RegistrarTypeOK, FrontierIsNewest, OrderIsTotal
      <4>2. QED BY <1>1, <1>2, <4>1 DEF RegistrarInv, RegistrarTypeOK, Version
    <3>3. QED BY <1>1, <3>1, <3>2
  <2>2. ASSUME NEW id \in StateID, latestById'[id] # NoVersion
        PROVE  \E v \in versionsByKey' : v.id = id /\ v.orderIndex = latestById'[id]
    <3>1. CASE id = t.to
      <4>1. new \in versionsByKey' /\ new.id = t.to /\ new.orderIndex = n
        BY <1>1
      <4>2. latestById'[t.to] = n
        BY <1>1, <1>2 DEF RegistrarInv, RegistrarTypeOK
      <4> HIDE DEF new, n
      <4>3. QED BY <3>1, <4>1, <4>2
    <3>2. CASE id # t.to
      BY <1>1, <1>2, <2>2, <3>2 DEF RegistrarInv, RegistrarTypeOK, FrontierIsNewest, Registered
    <3>3. QED BY <3>1, <3>2
  <2>3. QED BY <2>1, <2>2 DEF FrontierIsNewest, Registered
<1>7. SelfParent'
  BY <1>1, <1>2 DEF RegistrarInv, SelfParent
<1>8. TopExists'
  <2>1. new \in versionsByKey' /\ new.orderIndex = n /\ currentOrderIndex' - 1 = n
    BY <1>1, <1>2
  <2> HIDE DEF new, n
  <2>2. QED BY <2>1 DEF TopExists
<1>9. SavedShape'
  BY DEF RegistrarInv, SavedShape, validateSnapshot
<1>10. QED BY <1>4, <1>5, <1>6, <1>7, <1>8, <1>9 DEF RegistrarInv

(* A registrar built from an accepted snapshot satisfies the invariant.    *)
LEMMA RestoreInv == ASSUME RegistrarInv, fromSnapshot PROVE RegistrarInv'
<1> DEFINE ids == saved.state_ids
<1>1. /\ ids \subseteq StateID
      /\ saved.lineage = [id \in ids |-> Null]
      /\ saved.assigned \in [ids -> Nat]
      /\ saved.max_index \in Int /\ saved.max_index >= -1
      /\ \A id \in ids : saved.assigned[id] <= saved.max_index
      /\ ids = {} => saved.max_index = -1
      /\ ids # {} => \E id \in ids : saved.assigned[id] = saved.max_index
      /\ \A id, jd \in ids : saved.assigned[id] = saved.assigned[jd] => id = jd
  BY DEF RegistrarInv, SavedShape, validateSnapshot
<1>2. /\ versionsByKey' = {[id |-> id, parentId |-> saved.lineage[id],
                            orderIndex |-> saved.assigned[id], parentKey |-> NoKey] : id \in ids}
      /\ latestById' = [id \in StateID |-> IF id \in ids THEN saved.assigned[id] ELSE NoVersion]
      /\ currentOrderIndex' = saved.max_index + 1
      /\ lastParityStatus' = Null /\ saved' = saved
  BY DEF fromSnapshot
<1>3. RegistrarTypeOK'
  BY <1>1, <1>2 DEF RegistrarTypeOK, Version
<1>4. OrderIsTotal'
  BY <1>1, <1>2 DEF OrderIsTotal
<1> DEFINE rec(id) == [id |-> id, parentId |-> saved.lineage[id],
                       orderIndex |-> saved.assigned[id], parentKey |-> NoKey]
<1>a. \A v \in versionsByKey' : \E id \in ids : v = rec(id)
  BY <1>2
<1>b. \A id \in ids : /\ rec(id) \in versionsByKey' /\ rec(id).id = id
                      /\ rec(id).orderIndex = saved.assigned[id]
                      /\ rec(id).parentId = Null
                      /\ latestById'[id] = saved.assigned[id]
                      /\ saved.assigned[id] \in Nat
  BY <1>1, <1>2
<1>c. \A id \in StateID \ ids : latestById'[id] = NoVersion
  BY <1>2
<1> HIDE DEF rec
<1>5. FrontierIsNewest'
  <2>1. \A v \in versionsByKey' : v.orderIndex <= latestById'[v.id]
    BY <1>a, <1>b
  <2>2. \A id \in StateID : latestById'[id] # NoVersion =>
           \E v \in versionsByKey' : v.id = id /\ v.orderIndex = latestById'[id]
    BY <1>b, <1>c
  <2>3. QED BY <2>1, <2>2 DEF FrontierIsNewest, Registered
<1>6. SelfParent' /\ TopExists'
  <2>1. SelfParent'
    BY <1>a, <1>b DEF SelfParent
  <2>2. TopExists'
    <3> SUFFICES ASSUME currentOrderIndex' > 0
                 PROVE  \E v \in versionsByKey' : v.orderIndex = currentOrderIndex' - 1
      BY DEF TopExists
    <3>1. PICK id \in ids : saved.assigned[id] = saved.max_index
      BY <1>1, <1>2
    <3>2. QED BY <1>1, <1>2, <1>b, <3>1
  <2>3. QED BY <2>1, <2>2
<1>7. SavedShape'
  BY <1>2 DEF RegistrarInv, SavedShape, validateSnapshot
<1>8. QED BY <1>3, <1>4, <1>5, <1>6, <1>7 DEF RegistrarInv

(* Every operation of the registrar preserves the invariant.               *)
LEMMA RegistrarNextInv == RegistrarInv /\ [RegistrarNext]_registrarVars => RegistrarInv'
<1> SUFFICES ASSUME RegistrarInv, [RegistrarNext]_registrarVars PROVE RegistrarInv'
  OBVIOUS
<1>1. CASE UNCHANGED <<versionsByKey, latestById, currentOrderIndex, saved>>
           /\ lastParityStatus' \in {Null, "AGREED", "HALTED"}
  BY <1>1 DEF RegistrarInv, RegistrarTypeOK, OrderIsTotal, FrontierIsNewest, Registered, SelfParent,
              TopExists, SavedShape, validateSnapshot
<1>2. CASE UNCHANGED registrarVars
  BY <1>1, <1>2 DEF registrarVars, RegistrarInv, RegistrarTypeOK
<1>3. ASSUME NEW t \in Transition, register(t) PROVE RegistrarInv'
  <2>1. saved' = saved /\ lastParityStatus' \in {Null, "AGREED", "HALTED"}
    BY <1>3 DEF register, RegistrarInv, RegistrarTypeOK
  <2>2. CASE Violations(t) = {} /\ acceptTransition(t)
    BY <2>1, <2>2, AcceptInv
  <2>3. CASE UNCHANGED <<versionsByKey, latestById, currentOrderIndex>>
    BY <1>1, <2>1, <2>3
  <2>4. QED BY <1>3, <2>2, <2>3 DEF register
<1>4. CASE takeSnapshot
  <2>1. /\ saved' = snapshot
        /\ UNCHANGED <<versionsByKey, latestById, currentOrderIndex, lastParityStatus>>
    BY <1>4 DEF takeSnapshot
  <2>2. RegistrarTypeOK' /\ OrderIsTotal' /\ FrontierIsNewest' /\ SelfParent' /\ TopExists'
    BY <2>1 DEF RegistrarInv, RegistrarTypeOK, OrderIsTotal, FrontierIsNewest, Registered, SelfParent, TopExists
  <2>3. SavedShape'
    BY <2>1, SnapshotShape DEF RegistrarInv, SavedShape, validateSnapshot
  <2>4. QED BY <2>2, <2>3 DEF RegistrarInv
<1>5. CASE fromSnapshot
  BY <1>5, RestoreInv
<1>6. ASSUME NEW t \in Transition, validate(t) PROVE RegistrarInv'
  BY <1>1, <1>6 DEF validate, RegistrarInv, RegistrarTypeOK
<1>7. QED BY <1>2, <1>3, <1>4, <1>5, <1>6 DEF RegistrarNext

(* The registrar's state is well typed and its versions stay totally       *)
(* ordered, through registrations, snapshots and restores in any mode.     *)
THEOREM OrderCorrect == RegistrarSpec => [](RegistrarTypeOK /\ OrderIsTotal)
<1>1. RegistrarInv => RegistrarTypeOK /\ OrderIsTotal
  BY DEF RegistrarInv
<1>2. QED BY <1>1, RegistrarInitInv, RegistrarNextInv, PTL DEF RegistrarSpec

(* The frontier is always the newest version of each identity.             *)
THEOREM FrontierCorrect == RegistrarSpec => []FrontierIsNewest
<1>1. RegistrarInv => FrontierIsNewest
  BY DEF RegistrarInv
<1>2. QED BY <1>1, RegistrarInitInv, RegistrarNextInv, PTL DEF RegistrarSpec

(* A snapshot the registrar produces is never refused by rehydration.      *)
THEOREM SnapshotCorrect == RegistrarSpec => []SnapshotIsRestorable
<1>1. RegistrarInv => SnapshotIsRestorable
  BY SnapshotShape DEF RegistrarInv, SnapshotIsRestorable
<1>2. QED BY <1>1, RegistrarInitInv, RegistrarNextInv, PTL DEF RegistrarSpec

(* Under the invariant every step keeps the lineage without gaps: a second *)
(* version of an identity is accepted only below its frontier, which is a  *)
(* version; a restored identity has a single version.                      *)
LEMMA NextLineage == RegistrarInv /\ LineageHasNoGap /\ [RegistrarNext]_registrarVars => LineageHasNoGap'
<1> SUFFICES ASSUME RegistrarInv, LineageHasNoGap, [RegistrarNext]_registrarVars PROVE LineageHasNoGap'
  OBVIOUS
<1>1. CASE UNCHANGED versionsByKey
  BY <1>1 DEF LineageHasNoGap
<1>2. ASSUME NEW t \in Transition, Violations(t) = {}, acceptTransition(t)
      PROVE  LineageHasNoGap'
  <2> DEFINE n == currentOrderIndex
             new == [id |-> t.to, parentId |-> t.from, orderIndex |-> n,
                     parentKey |-> IF t.from # Null
                                   THEN makeVersionKey(t.from, latestById[t.from])
                                   ELSE NoKey]
  <2>1. versionsByKey' = versionsByKey \cup {new}
    BY <1>2 DEF acceptTransition
  <2>2. new.id = t.to /\ new.orderIndex = n
    OBVIOUS
  <2>3. SUFFICES ASSUME NEW v \in versionsByKey', NEW w \in versionsByKey',
                        v.id = w.id, v.orderIndex < w.orderIndex
                 PROVE  \E u \in versionsByKey' :
                           /\ u.id = w.id /\ w.parentKey = makeVersionKey(u.id, u.orderIndex)
                           /\ v.orderIndex <= u.orderIndex /\ u.orderIndex < w.orderIndex
    BY DEF LineageHasNoGap
  <2>4. v \in versionsByKey
    <3>1. \A x \in versionsByKey : x.orderIndex \in Nat /\ x.orderIndex < n
      BY DEF RegistrarInv, OrderIsTotal, RegistrarTypeOK, Version
    <3>2. n \in Nat
      BY DEF RegistrarInv, RegistrarTypeOK
    <3> QED BY <2>1, <2>2, <2>3, <3>1, <3>2
  <2>5. CASE w \in versionsByKey
    BY <2>1, <2>3, <2>4, <2>5 DEF LineageHasNoGap
  <2>6. CASE w = new
    <3>1. /\ v \in Version /\ v.orderIndex <= latestById[t.to]
          /\ v.id = t.to /\ v.orderIndex \in Nat
          /\ latestById[t.to] \in Nat \cup {NoVersion}
      BY <2>2, <2>3, <2>4, <2>6 DEF RegistrarInv, RegistrarTypeOK, FrontierIsNewest, Version
    <3>2. Registered(t.to) /\ t.to \in StateID
      BY <3>1 DEF Registered, NoVersion, Version
    <3>3. t.from = t.to /\ t.from # Null
      BY <1>2, <3>2, AcceptedShape
    <3>4. PICK u \in versionsByKey : u.id = t.to /\ u.orderIndex = latestById[t.to]
      BY <3>2 DEF RegistrarInv, FrontierIsNewest
    <3>5. w.parentKey = makeVersionKey(u.id, u.orderIndex)
      BY <2>6, <3>3, <3>4
    <3>6. u.orderIndex < n /\ u \in versionsByKey'
      BY <2>1 DEF RegistrarInv, OrderIsTotal
    <3> QED BY <2>2, <2>6, <3>1, <3>4, <3>5, <3>6
  <2> QED BY <2>1, <2>5, <2>6
<1>3. CASE fromSnapshot
  <2>1. versionsByKey' = {[id |-> id, parentId |-> saved.lineage[id],
                           orderIndex |-> saved.assigned[id], parentKey |-> NoKey]
                          : id \in saved.state_ids}
    BY <1>3 DEF fromSnapshot
  <2>2. \A v, w \in versionsByKey' : v.id = w.id => v.orderIndex = w.orderIndex
    BY <2>1
  <2>3. \A v \in versionsByKey' : v.orderIndex \in Nat
    BY <2>1 DEF RegistrarInv, SavedShape
  <2> QED BY <2>2, <2>3 DEF LineageHasNoGap
<1> QED BY <1>1, <1>2, <1>3 DEF RegistrarNext, register, validate, takeSnapshot, registrarVars

(* getLineage never misses a version: every version of an identity but the *)
(* oldest hangs below the one accepted just before it, whatever was        *)
(* registered, refused, saved and restored.                                *)
THEOREM LineageCorrect == RegistrarSpec => []LineageHasNoGap
<1>1. RegistrarInit => LineageHasNoGap
  BY DEF RegistrarInit, LineageHasNoGap
<1>2. QED BY <1>1, RegistrarInitInv, RegistrarNextInv, NextLineage, PTL DEF RegistrarSpec

(* Outside a restore, history only grows.                                  *)
THEOREM HistoryCorrect == RegistrarSpec => HistoryAppendOnly
<1>1. RegistrarInv /\ [RegistrarNext]_registrarVars =>
        [~fromSnapshot => /\ versionsByKey \subseteq versionsByKey'
                          /\ currentOrderIndex <= currentOrderIndex']_registrarVars
  <2> SUFFICES ASSUME RegistrarInv, RegistrarNext, ~fromSnapshot
               PROVE  /\ versionsByKey \subseteq versionsByKey'
                      /\ currentOrderIndex <= currentOrderIndex'
    OBVIOUS
  <2>1. CASE takeSnapshot
    BY <2>1 DEF takeSnapshot, RegistrarInv, RegistrarTypeOK
  <2>2. ASSUME NEW t \in Transition, register(t)
        PROVE  /\ versionsByKey \subseteq versionsByKey'
               /\ currentOrderIndex <= currentOrderIndex'
    BY <2>2 DEF register, acceptTransition, RegistrarInv, RegistrarTypeOK
  <2>3. ASSUME NEW t \in Transition, validate(t)
        PROVE  /\ versionsByKey \subseteq versionsByKey'
               /\ currentOrderIndex <= currentOrderIndex'
    BY <2>3 DEF validate, RegistrarInv, RegistrarTypeOK
  <2>4. QED BY <2>1, <2>2, <2>3 DEF RegistrarNext
<1>2. QED BY <1>1, RegistrarInitInv, RegistrarNextInv, PTL DEF RegistrarSpec, HistoryAppendOnly

-----------------------------------------------------------------------------
(* The replay engine.  A registrar with a recorder is at every moment where *)
(* the recorded transitions, replayed from the empty registrar, lead; so is *)
(* the saved one.                                                           *)

InvariantId ==
    {"state.identity.immutable", "state.identity.explicit", "state.identity.unique",
     "state.lineage.explicit", "state.lineage.parent_exists", "state.lineage.continuous",
     "ordering.total", "ordering.monotonic"}

Res == [transition : Transition, outcome : {"accepted", "halted", "rejected"},
        ids : SUBSET InvariantId, orderIndex : Nat \cup {NoVersion}]

(* Where a replay can be: what it has registered and what it reported.     *)
Acc == [latest : [StateID -> Nat \cup {NoVersion}], next : Nat, results : Seq(Res)]

Fresh == [latest |-> [id \in StateID |-> NoVersion], next |-> 0, results |-> <<>>]

Transitions(results) == [k \in DOMAIN results |-> results[k].transition]

IsRun(h, ts) ==
    /\ h \in [0..Len(ts) -> Acc]
    /\ h[0] = Fresh
    /\ \A k \in 1..Len(ts) : h[k] = replayOne(h[k - 1], ts[k])

(* Replaying what acc reports leads to acc.                                *)
Reaches(acc) == acc \in Acc /\ \E h : IsRun(h, Transitions(acc.results))
                                      /\ h[Len(acc.results)] = acc

Live == [latest |-> latestById, next |-> currentOrderIndex, results |-> recorder]

SavedLive ==
    [latest |-> [id \in StateID |-> IF id \in saved.state_ids THEN saved.assigned[id]
                                    ELSE NoVersion],
     next |-> saved.max_index + 1, results |-> savedRecorder]

ReplayInv ==
    /\ recording => Reaches(Live) /\ Reaches(SavedLive)
    /\ ~recording => recorder = <<>> /\ savedRecorder = <<>>

(* Where one replayed transition leads.                                    *)
LEMMA ReplayOneType ==
    ASSUME NEW acc \in Acc, NEW t \in Transition
    PROVE  /\ replayOne(acc, t) \in Acc
           /\ Len(replayOne(acc, t).results) = Len(acc.results) + 1
           /\ replayOne(acc, t).results = Append(acc.results, Result(acc.latest, acc.next, t))
           /\ Result(acc.latest, acc.next, t).transition = t
<1> DEFINE r == Result(acc.latest, acc.next, t)
<1>1. r \in Res /\ r.transition = t
  <2>1. Judge(acc.latest, acc.next)!Violations(t) \in SUBSET InvariantId
    <3>1. Judge(acc.latest, acc.next)!LegacyViolations(t) \in SUBSET InvariantId
      BY DEF InvariantId, Judge!LegacyViolations, Judge!Fires
    <3>2. Judge(acc.latest, acc.next)!RegistryViolations(t) \in SUBSET InvariantId
      BY DEF InvariantId, Judge!RegistryViolations, Judge!Fires
    <3> QED BY <3>1, <3>2 DEF Judge!Violations
  <2>2. \A ids : Kind(ids) \in {"accepted", "halted", "rejected"}
    BY DEF Kind
  <2> HIDE DEF Judge!Violations
  <2> QED BY <2>1, <2>2 DEF Result, Res, Acc
<1> HIDE DEF r
<1>2. /\ replayOne(acc, t).results = Append(acc.results, r)
      /\ replayOne(acc, t).next \in Nat
      /\ replayOne(acc, t).latest \in [StateID -> Nat \cup {NoVersion}]
  BY DEF replayOne, r, Acc, Transition
<1>3. replayOne(acc, t) = [latest |-> replayOne(acc, t).latest, next |-> replayOne(acc, t).next,
                           results |-> replayOne(acc, t).results]
  BY DEF replayOne
<1>4. acc.results \in Seq(Res)
  BY DEF Acc
<1>5. /\ Append(acc.results, r) \in Seq(Res)
      /\ Len(Append(acc.results, r)) = Len(acc.results) + 1
  BY <1>1, <1>4
<1>6. replayOne(acc, t) \in Acc
  BY <1>2, <1>3, <1>5 DEF Acc
<1> QED BY <1>1, <1>2, <1>5, <1>6 DEF r

(* The fold of replay(), with its recursion made visible.                  *)
RecorderReplays(g, ts) ==
    g = [s \in SUBSET (DOMAIN ts) |->
           IF s = {} THEN Fresh ELSE replayOne(g[s \ {Max(s)}], ts[Max(s)])]

(* The results of a replay are those of the chosen solution of its fold.   *)
LEMMA RecorderReplayDef ==
    ASSUME NEW ts
    PROVE  replay(ts) = (CHOOSE g : RecorderReplays(g, ts))[DOMAIN ts].results
BY DEF replay, FoldLeft, MapThenFoldSet, RecorderReplays, Fresh

(* replay() follows a run to its end.                                      *)
LEMMA ReplayOfRun ==
    ASSUME NEW ts \in Seq(Transition), NEW h, IsRun(h, ts)
    PROVE  replay(ts) = h[Len(ts)].results
<1> DEFINE n == Len(ts)
           F == [x \in Acc \X Transition |-> replayOne(x[1], x[2])]
<1>1. n \in Nat /\ DOMAIN ts = 1..n /\ ts \in [1..n -> Transition]
  OBVIOUS
<1>2. F \in [Acc \X Transition -> Acc]
  BY ReplayOneType
<1>3. \A a \in Acc, t \in Transition : F[<<a, t>>] = replayOne(a, t)
  OBVIOUS
<1>4. Fresh \in Acc
  BY DEF Fresh, Acc
<1> HIDE DEF n, F
<1>5. PICK g \in [SUBSET (1..n) -> Acc] : Folds(g, SUBSET (1..n), Fresh, ts, F)
  BY <1>1, <1>2, <1>4, FoldExists
<1>6. ASSUME NEW s \in SUBSET (1..n), s # {} PROVE Max(s) \in s
  <2>1. s \in SUBSET Nat /\ \A x \in s : x <= n
    BY <1>1
  <2> QED BY <2>1, <1>1, <1>6, MaxIsGreatest
<1>7. ASSUME NEW s \in SUBSET (1..n)
      PROVE  g[s] = IF s = {} THEN Fresh ELSE replayOne(g[s \ {Max(s)}], ts[Max(s)])
  <2>1. CASE s = {}
    BY <2>1, <1>5 DEF Folds
  <2>2. CASE s # {}
    <3>1. g[s \ {Max(s)}] \in Acc /\ ts[Max(s)] \in Transition
      BY <2>2, <1>1, <1>6
    <3>2. g[s] = F[<<g[s \ {Max(s)}], ts[Max(s)]>>]
      BY <2>2, <1>5 DEF Folds
    <3> QED BY <2>2, <3>1, <3>2, <1>3
  <2> QED BY <2>1, <2>2
<1>8. RecorderReplays(g, ts)
  BY <1>1, <1>7 DEF RecorderReplays
<1> DEFINE c == CHOOSE e : RecorderReplays(e, ts)
<1>9. RecorderReplays(c, ts)
  BY <1>8
<1> HIDE DEF c
<1> DEFINE T == {k \in Nat : k <= n => c[1..k] = h[k]}
<1>10. ASSUME NEW k \in Nat, \A j \in Nat : j < k => j \in T
       PROVE  k \in T
  <2>1. CASE k = 0
    <3>1. 1..k = {} /\ {} \in SUBSET (1..n)
      BY <2>1
    <3>2. c[{}] = Fresh
      BY <3>1, <1>1, <1>9 DEF RecorderReplays
    <3> QED BY <2>1, <3>1, <3>2 DEF IsRun
  <2>2. CASE k # 0 /\ k <= n
    <3>1. k - 1 \in Nat /\ k - 1 < k /\ k - 1 <= n /\ k \in 1..n
      BY <2>2, <1>1
    <3>2. c[1..(k - 1)] = h[k - 1]
      <4>1. k - 1 \in T
        BY <1>10, <3>1
      <4> QED BY <3>1, <4>1
    <3>3. Max(1..k) = k /\ (1..k) \ {k} = 1..(k - 1)
      BY <2>2, MaxOfPrefix
    <3>4. 1..k \in SUBSET (1..n) /\ 1..k # {}
      <4>1. k \in 1..k
        BY <2>2
      <4>2. \A i \in 1..k : i \in 1..n
        BY <2>2, <1>1
      <4> QED BY <4>1, <4>2
    <3>5. c[1..k] = replayOne(c[1..(k - 1)], ts[k])
      BY <3>3, <3>4, <1>1, <1>9 DEF RecorderReplays
    <3>6. h[k] = replayOne(h[k - 1], ts[k])
      BY <3>1 DEF IsRun, n
    <3> QED BY <3>1, <3>2, <3>5, <3>6
  <2> QED BY <2>1, <2>2
<1>11. T = Nat
  <2> HIDE DEF T
  <2>1. T \in SUBSET Nat
    BY DEF T
  <2> QED BY <1>10, <2>1, NoLeastExceptionIsNone
<1>12. c[1..n] = h[n]
  BY <1>1, <1>11
<1> QED BY <1>1, <1>12, RecorderReplayDef DEF c, n

(* Recorded results are recorded transitions.                              *)
LEMMA TransitionsType ==
    ASSUME NEW results \in Seq(Res)
    PROVE  /\ Transitions(results) \in Seq(Transition)
           /\ Transitions(results) \in [1..Len(results) -> Transition]
           /\ Len(Transitions(results)) = Len(results)
<1>1. \A r \in Res : r.transition \in Transition
  BY DEF Res
<1>2. DOMAIN results = 1..Len(results) /\ Len(results) \in Nat
  OBVIOUS
<1>3. \A k \in 1..Len(results) : results[k] \in Res
  OBVIOUS
<1>4. Transitions(results) = [k \in 1..Len(results) |-> results[k].transition]
  BY <1>2 DEF Transitions
<1> HIDE DEF Transitions
<1>5. Transitions(results) \in [1..Len(results) -> Transition]
  BY <1>1, <1>3, <1>4
<1> QED BY <1>2, <1>5

(* The recorder's list of transitions replays to its list of results.      *)
LEMMA ReachedIsReplayed ==
    ASSUME NEW acc, Reaches(acc)
    PROVE  replay(Transitions(acc.results)) = acc.results
<1>1. PICK h : IsRun(h, Transitions(acc.results)) /\ h[Len(acc.results)] = acc
  BY DEF Reaches
<1>2. acc.results \in Seq(Res)
  BY DEF Reaches, Acc
<1>3. /\ Transitions(acc.results) \in Seq(Transition)
      /\ Len(Transitions(acc.results)) = Len(acc.results)
  BY <1>2, TransitionsType
<1> QED BY <1>1, <1>3, ReplayOfRun

(* One more transition, one more step of the run.                          *)
LEMMA ReachesNext ==
    ASSUME NEW acc, Reaches(acc), NEW t \in Transition
    PROVE  Reaches(replayOne(acc, t))
<1> DEFINE n == Len(acc.results)
           ts == Transitions(acc.results)
           next == replayOne(acc, t)
           us == Transitions(next.results)
<1>0. acc \in Acc /\ acc.results \in Seq(Res) /\ n \in Nat
  BY DEF Reaches, Acc
<1>1. PICK h : IsRun(h, ts) /\ h[n] = acc
  BY DEF Reaches
<1>2. /\ next \in Acc /\ Len(next.results) = n + 1
      /\ next.results = Append(acc.results, Result(acc.latest, acc.next, t))
      /\ Result(acc.latest, acc.next, t).transition = t
  BY <1>0, ReplayOneType
<1>3. Len(ts) = n /\ DOMAIN ts = 1..n
  BY <1>0 DEF Transitions
<1>4. us \in [1..(n + 1) -> Transition] /\ Len(us) = n + 1
  <2>1. next.results \in Seq(Res)
    BY <1>2 DEF Acc
  <2> HIDE DEF next
  <2> QED BY <2>1, <1>2, TransitionsType
<1>5. us[n + 1] = t /\ \A k \in 1..n : us[k] = ts[k]
  <2> HIDE DEF next
  <2>1. DOMAIN next.results = 1..(n + 1)
    BY <1>0, <1>2
  <2>2. us[n + 1] = t
    BY <1>0, <1>2, <2>1 DEF Transitions
  <2>3. \A k \in 1..n : us[k] = ts[k]
    BY <1>0, <1>2, <2>1 DEF Transitions
  <2> QED BY <2>2, <2>3
<1> HIDE DEF next, us, ts, n
<1> DEFINE j == [k \in 0..(n + 1) |-> IF k = n + 1 THEN next ELSE h[k]]
<1>6. h \in [0..n -> Acc] /\ h[0] = Fresh /\ \A k \in 1..n : h[k] = replayOne(h[k - 1], ts[k])
  BY <1>1, <1>3 DEF IsRun
<1>7. IsRun(j, us)
  <2>1. j \in [0..(n + 1) -> Acc] /\ j[0] = Fresh
    BY <1>0, <1>2, <1>6
  <2>2. ASSUME NEW k \in 1..(n + 1) PROVE j[k] = replayOne(j[k - 1], us[k])
    <3>1. CASE k = n + 1
      <4>1. j[k - 1] = acc /\ j[k] = next /\ us[k] = t
        BY <1>0, <1>1, <1>5, <3>1
      <4> QED BY <4>1 DEF next
    <3>2. CASE k # n + 1
      <4>1. k \in 1..n /\ j[k] = h[k] /\ j[k - 1] = h[k - 1] /\ us[k] = ts[k]
        BY <1>0, <1>5, <3>2
      <4> QED BY <4>1, <1>6
    <3> QED BY <3>1, <3>2
  <2> QED BY <1>4, <2>1, <2>2 DEF IsRun
<1>8. j[n + 1] = next
  BY <1>0
<1> QED BY <1>2, <1>7, <1>8 DEF Reaches, us, next

(* The replay engine judges as the live registrar does.                    *)
LEMMA SameJudgement ==
    ASSUME NEW t PROVE Judge(latestById, currentOrderIndex)!Violations(t) = Violations(t)
BY DEF Judge!Violations, Violations, Judge!LegacyViolations, LegacyViolations,
       Judge!RegistryViolations, RegistryViolations, Judge!Fires, Fires,
       Judge!identityImmutable, identityImmutable, Judge!identityExplicit, identityExplicit,
       Judge!identityUnique, identityUnique, Judge!lineageExplicit, lineageExplicit,
       Judge!lineageParentExists, lineageParentExists,
       Judge!lineageContinuous, lineageContinuous, Judge!orderingTotal, orderingTotal,
       Judge!orderingMonotonic, orderingMonotonic, Judge!registryMonotonic, registryMonotonic,
       Judge!registryLineageExplicit, registryLineageExplicit, Judge!Registered, Registered,
       Judge!NoVersion, NoVersion

(* A recorded register() is one step of the replay.                        *)
LEMMA RegisterIsReplayed ==
    ASSUME RegistrarInv, NEW t \in Transition, register(t), ~(Mode = "dual" /\ ~WitnessesAgree(t)),
           recorder' = Append(recorder, Result(latestById, currentOrderIndex, t))
    PROVE  Live' = replayOne(Live, t)
<1> DEFINE r == Result(latestById, currentOrderIndex, t)
<1>1. r.ids = Violations(t)
  BY SameJudgement DEF Result
<1>2. replayOne(Live, t) =
        [latest |-> IF r.ids = {} THEN [latestById EXCEPT ![t.to] = currentOrderIndex]
                    ELSE latestById,
         next |-> IF r.ids = {} THEN currentOrderIndex + 1 ELSE currentOrderIndex,
         results |-> Append(recorder, r)]
  BY DEF replayOne, Live
<1> HIDE DEF r
<1>3. CASE Violations(t) = {}
  BY <1>1, <1>2, <1>3 DEF register, acceptTransition, Live, r
<1>4. CASE Violations(t) # {}
  BY <1>1, <1>2, <1>4 DEF register, Live, r
<1> QED BY <1>3, <1>4

(* What is saved with the recorder, and restored with it, is the frontier  *)
(* and the counter: all that judging a transition reads.                   *)
LEMMA SavedIsLive ==
    ASSUME RegistrarInv, takeSnapshot, savedRecorder' = recorder PROVE SavedLive' = Live
<1>1. /\ saved' = snapshot
      /\ snapshot.state_ids = Frontier
      /\ snapshot.assigned = [id \in Frontier |-> latestById[id]]
      /\ snapshot.max_index = currentOrderIndex - 1
  BY DEF takeSnapshot, snapshot
<1>2. [id \in StateID |-> IF id \in saved'.state_ids THEN saved'.assigned[id] ELSE NoVersion]
        = latestById
  BY <1>1 DEF Frontier, Registered, RegistrarInv, RegistrarTypeOK
<1>3. saved'.max_index + 1 = currentOrderIndex
  BY <1>1 DEF RegistrarInv, RegistrarTypeOK
<1> QED BY <1>2, <1>3 DEF SavedLive, Live

(* Nothing is recorded of a new registrar.                                 *)
LEMMA ReplayInitInv == ReplayInit => RegistrarInv /\ ReplayInv
<1> SUFFICES ASSUME ReplayInit PROVE RegistrarInv /\ ReplayInv
  OBVIOUS
<1>1. RegistrarInv /\ recorder = <<>> /\ savedRecorder = <<>>
  BY RegistrarInitInv DEF ReplayInit
<1>2. Live = Fresh
  BY <1>1 DEF ReplayInit, RegistrarInit, Live, Fresh
<1>3. SavedLive = Fresh
  <2>1. saved = snapshot /\ latestById = [id \in StateID |-> NoVersion] /\ currentOrderIndex = 0
    BY DEF ReplayInit, RegistrarInit
  <2>2. saved.state_ids = {} /\ saved.max_index = -1
    BY <2>1 DEF snapshot, Frontier, Registered
  <2> QED BY <1>1, <2>2 DEF SavedLive, Fresh
<1>4. Reaches(Fresh)
  <2> DEFINE h == [k \in {0} |-> Fresh]
  <2>1. Fresh \in Acc /\ Fresh.results = <<>>
    BY DEF Fresh, Acc
  <2>2. Len(Transitions(Fresh.results)) = 0 /\ Len(Fresh.results) = 0
    BY <2>1, TransitionsType DEF Acc
  <2>3. IsRun(h, Transitions(Fresh.results))
    <3>1. 0..0 = {0} /\ 1..0 = {}
      OBVIOUS
    <3> QED BY <2>1, <2>2, <3>1 DEF IsRun
  <2> QED BY <2>1, <2>2, <2>3 DEF Reaches
<1> QED BY <1>1, <1>2, <1>3, <1>4 DEF ReplayInv

(* A recorded run and its replay stay in step, also across a snapshot and  *)
(* its restore.                                                            *)
LEMMA ReplayNextInv == RegistrarInv /\ ReplayInv /\ [ReplayNext]_replayVars => RegistrarInv' /\ ReplayInv'
<1> SUFFICES ASSUME RegistrarInv, ReplayInv, [ReplayNext]_replayVars PROVE RegistrarInv' /\ ReplayInv'
  OBVIOUS
<1>1. RegistrarInv'
  <2>1. [RegistrarNext]_registrarVars
    BY DEF ReplayNext, replayVars, RegistrarNext
  <2> QED BY <2>1, RegistrarNextInv
<1>2. CASE /\ UNCHANGED <<latestById, currentOrderIndex, saved>>
           /\ UNCHANGED <<recording, recorder, savedRecorder>>
  BY <1>1, <1>2 DEF ReplayInv, Live, SavedLive
<1>3. ASSUME NEW t \in Transition, register(t), Record(t), UNCHANGED recording PROVE ReplayInv'
  <2>0. SavedLive' = SavedLive
    BY <1>3 DEF register, Record, SavedLive
  <2>1. CASE Mode = "dual" /\ ~WitnessesAgree(t)
    BY <1>2, <1>3, <2>1 DEF register, Record
  <2>2. CASE ~recording
    BY <1>3, <2>2 DEF Record, ReplayInv
  <2>3. CASE recording /\ ~(Mode = "dual" /\ ~WitnessesAgree(t))
    <3>1. Live' = replayOne(Live, t)
      BY <1>3, <2>3, RegisterIsReplayed DEF Record
    <3>2. Reaches(replayOne(Live, t))
      BY <2>3, ReachesNext DEF ReplayInv
    <3> QED BY <1>3, <2>0, <2>3, <3>1, <3>2 DEF ReplayInv
  <2> QED BY <2>1, <2>2, <2>3
<1>4. ASSUME takeSnapshot, savedRecorder' = recorder, UNCHANGED recorder, UNCHANGED recording
      PROVE  ReplayInv'
  <2>1. SavedLive' = Live
    BY <1>4, SavedIsLive
  <2>2. Live' = Live
    BY <1>4 DEF takeSnapshot, Live
  <2> QED BY <1>4, <2>1, <2>2 DEF ReplayInv
<1>5. ASSUME fromSnapshot, recorder' = savedRecorder, UNCHANGED savedRecorder, UNCHANGED recording
      PROVE  ReplayInv'
  <2>1. Live' = SavedLive /\ SavedLive' = SavedLive
    BY <1>5 DEF fromSnapshot, Live, SavedLive
  <2> QED BY <1>5, <2>1 DEF ReplayInv
<1>6. ASSUME NEW t \in Transition, validate(t),
             UNCHANGED <<recording, recorder, savedRecorder>>
      PROVE  ReplayInv'
  BY <1>2, <1>6 DEF validate
<1>7. CASE UNCHANGED replayVars
  BY <1>2, <1>7 DEF replayVars, registrarVars
<1> QED BY <1>1, <1>3, <1>4, <1>5, <1>6, <1>7 DEF ReplayNext

(* Replaying what was recorded, in a fresh registrar, reports what the     *)
(* live registrar reported, for every history of registrations, snapshots  *)
(* and restores: "same inputs, same outcomes" of the replay engine.        *)
THEOREM ReplayCorrect == ReplaySpec => []ReplayMatchesLive
<1>1. ReplayInv => ReplayMatchesLive
  <2> SUFFICES ASSUME ReplayInv PROVE ReplayMatchesLive
    OBVIOUS
  <2>1. replay(getTransitions) = recorder
    <3>1. CASE recording
      <4>1. Live.results = recorder /\ Transitions(recorder) = getTransitions
        BY DEF Live, Transitions, getTransitions
      <4>2. replay(Transitions(Live.results)) = Live.results
        BY <3>1, ReachedIsReplayed DEF ReplayInv
      <4> QED BY <4>1, <4>2
    <3>2. CASE ~recording
      <4>1. recorder = <<>>
        BY <3>2 DEF ReplayInv
      <4>2. getTransitions \in Seq(Transition) /\ Len(getTransitions) = 0
        BY <4>1 DEF getTransitions
      <4>3. IsRun([k \in {0} |-> Fresh], getTransitions)
        <5>1. 0..0 = {0} /\ 1..0 = {} /\ Fresh \in Acc
          BY DEF Fresh, Acc
        <5> QED BY <4>2, <5>1 DEF IsRun
      <4>4. replay(getTransitions) = Fresh.results
        BY <4>2, <4>3, ReplayOfRun
      <4> QED BY <4>1, <4>4 DEF Fresh
    <3> QED BY <3>1, <3>2
  <2> QED BY <2>1 DEF ReplayMatchesLive, compareReplayReports
<1> QED BY <1>1, ReplayInitInv, ReplayNextInv, PTL DEF ReplaySpec
===============================================================================
