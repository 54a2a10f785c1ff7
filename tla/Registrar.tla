------------------------------ MODULE Registrar ------------------------------
(***************************************************************************)
(* Registrum, the structural registrar                                     *)
(* (packages/registrum/src/{structural-registrar,invariants}.ts,           *)
(* persistence/{snapshot,rehydrator}.ts, invariants/registry.json).        *)
(*                                                                         *)
(* A transition names a parent (or none), the identity of the new state    *)
(* and whether it claims to be a root.  Two witnesses judge it: the        *)
(* compiled predicates (legacy) and the DSL registry.  A verdict is the    *)
(* set of ids of the invariants that fired.  Accepted versions are kept    *)
(* forever; latest is the frontier, of which a snapshot is a projection.   *)
(***************************************************************************)
EXTENDS Integers, FiniteSets

CONSTANTS StateID,      \* identities callers use, the empty one included
          EmptyID,      \* the empty string, which is not a valid identity
          Null,         \* transition.from of a root
          Mode,         \* "legacy", "registry" or "dual"
          MaxVersions   \* bound: registrations in one life of the registrar

ASSUME ModeIsKnown == Mode \in {"legacy", "registry", "dual"}
ASSUME NullIsNoID == Null \notin StateID

NoVersion == -1
NoKey == <<>>

VARIABLES
    versionsByKey,      \* every version accepted, as a set of records
    latestById,         \* latestById[id]: its newest order index, or NoVersion
    currentOrderIndex,  \* next order index to assign
    lastParityStatus,   \* null, AGREED or HALTED
    saved               \* the last snapshot()

registrarVars == <<versionsByKey, latestById, currentOrderIndex, lastParityStatus, saved>>

Transition == [from : StateID \cup {Null}, to : StateID, isRoot : BOOLEAN]

makeVersionKey(id, n) == <<id, n>>

Registered(id) == latestById[id] # NoVersion

-----------------------------------------------------------------------------
(* The two witnesses                                                       *)

Fires(name, condition) == IF condition THEN {name} ELSE {}

HaltClass == {"state.identity.unique", "state.lineage.continuous"}

(* The compiled predicates, one per invariant.  A single parent is all a   *)
(* transition can name, and three of the eleven are always true.           *)
identityImmutable(t) == t.from # Null => t.to = t.from
identityExplicit(t) == t.to # EmptyID
identityUnique(t) == t.from = Null => ~Registered(t.to)
lineageExplicit(t) == t.from = Null <=> t.isRoot
lineageParentExists(t) == t.from # Null => Registered(t.from)
lineageContinuous(t) == t.from # Null => Registered(t.from)

(* They look only at the next index, which is never negative.              *)
orderingTotal == currentOrderIndex >= 0
orderingMonotonic == currentOrderIndex >= 0

(* INITIAL_INVARIANTS: ids of the predicates that fail on t.               *)
LegacyViolations(t) ==
    Fires("state.identity.immutable", ~identityImmutable(t))
    \cup Fires("state.identity.explicit", ~identityExplicit(t))
    \cup Fires("state.identity.unique", ~identityUnique(t))
    \cup Fires("state.lineage.explicit", ~lineageExplicit(t))
    \cup Fires("state.lineage.parent_exists", ~lineageParentExists(t))
    \cup Fires("state.lineage.continuous", ~lineageContinuous(t))
    \cup Fires("ordering.total", ~orderingTotal)
    \cup Fires("ordering.monotonic", ~orderingMonotonic)

(* registry.json's version of one of them misses the contradictory root.   *)
registryLineageExplicit(t) == t.from = Null => t.isRoot

(* It asks for more than max_order_index, which is the last index given.   *)
registryMonotonic == currentOrderIndex > currentOrderIndex - 1

(* The expressions of registry.json, over the evaluation context.          *)
RegistryViolations(t) ==
    Fires("state.identity.immutable", ~identityImmutable(t))
    \cup Fires("state.identity.explicit", ~identityExplicit(t))
    \cup Fires("state.identity.unique", ~identityUnique(t))
    \cup Fires("state.lineage.explicit", ~registryLineageExplicit(t))
    \cup Fires("state.lineage.parent_exists", ~lineageParentExists(t))
    \cup Fires("state.lineage.continuous", ~lineageContinuous(t))
    \cup Fires("ordering.total", ~orderingTotal)
    \cup Fires("ordering.monotonic", ~registryMonotonic)

(* buildRegistrationOutcome's verdict kind.                                *)
Kind(violations) ==
    IF violations = {} THEN "accepted"
    ELSE IF violations \cap HaltClass # {} THEN "halted" ELSE "rejected"

(* assertParity compares the kinds and the sorted ids.                     *)
WitnessesAgree(t) == LegacyViolations(t) = RegistryViolations(t)

(* The uniqueness check of a born root is lost.                            *)
Violations_NoUnique(t) ==
    (IF Mode = "legacy" THEN LegacyViolations(t) ELSE RegistryViolations(t))
        \ {"state.identity.unique"}

Violations(t) == IF Mode = "legacy" THEN LegacyViolations(t) ELSE RegistryViolations(t)

-----------------------------------------------------------------------------
(* snapshot()                                                              *)

VersionsOf(id) == {v \in versionsByKey : v.id = id}

(* The nearest ancestor with another identity, walking the version chain.  *)
resolveSnapshotParentId(id) ==
    LET foreign == {v \in VersionsOf(id) : v.parentId \notin {id, Null}}
    IN  IF foreign = {} THEN Null
        ELSE (CHOOSE v \in foreign : \A w \in foreign : w.orderIndex <= v.orderIndex).parentId

Frontier == {id \in StateID : Registered(id)}

snapshot ==
    [state_ids |-> Frontier,
     lineage |-> [id \in Frontier |-> resolveSnapshotParentId(id)],
     assigned |-> [id \in Frontier |-> latestById[id]],
     max_index |-> currentOrderIndex - 1]

(* validateSnapshotConsistency, on the fields the projection can get wrong. *)
validateSnapshot(s) ==
    /\ \A id \in s.state_ids : s.lineage[id] \in s.state_ids \cup {Null}
    /\ \A S \in SUBSET s.state_ids :                  \* no cycle: a root is reached
          S # {} => \E id \in S : s.lineage[id] \notin S
    /\ s.state_ids = {} => s.max_index = -1
    /\ s.state_ids # {} => /\ \A id \in s.state_ids : s.assigned[id] <= s.max_index
                           /\ \E id \in s.state_ids : s.assigned[id] = s.max_index
    /\ \A id, jd \in s.state_ids : s.assigned[id] = s.assigned[jd] => id = jd
    /\ \A id \in s.state_ids : s.assigned[id] >= 0

-----------------------------------------------------------------------------
RegistrarInit ==
    /\ versionsByKey = {}
    /\ latestById = [id \in StateID |-> NoVersion]
    /\ currentOrderIndex = 0
    /\ lastParityStatus = Null
    /\ saved = snapshot

(* The counter is advanced only for a new identity.                        *)
acceptTransition_ReusesOrder(t) ==
    LET n == IF Registered(t.to) THEN latestById[t.to] ELSE currentOrderIndex
    IN  /\ versionsByKey' = versionsByKey \cup
             {[id |-> t.to, parentId |-> t.from, orderIndex |-> n,
               parentKey |-> IF t.from # Null THEN makeVersionKey(t.from, latestById[t.from])
                             ELSE NoKey]}
        /\ latestById' = [latestById EXCEPT ![t.to] = n]
        /\ currentOrderIndex' = n + 1

(* The frontier keeps pointing at the first version.                       *)
acceptTransition_StaleFrontier(t) ==
    LET n == currentOrderIndex
    IN  /\ versionsByKey' = versionsByKey \cup
             {[id |-> t.to, parentId |-> t.from, orderIndex |-> n,
               parentKey |-> IF t.from # Null THEN makeVersionKey(t.from, latestById[t.from])
                             ELSE NoKey]}
        /\ latestById' = IF Registered(t.to) THEN latestById
                         ELSE [latestById EXCEPT ![t.to] = n]
        /\ currentOrderIndex' = n + 1

(* acceptTransition: the new version hangs below the frontier of its       *)
(* parent and becomes the frontier of its own identity.                    *)
acceptTransition(t) ==
    LET n == currentOrderIndex
    IN  /\ makeVersionKey(t.to, n) \notin {makeVersionKey(v.id, v.orderIndex) : v \in versionsByKey}
        /\ versionsByKey' = versionsByKey \cup
             {[id |-> t.to, parentId |-> t.from, orderIndex |-> n,
               parentKey |-> IF t.from # Null THEN makeVersionKey(t.from, latestById[t.from])
                             ELSE NoKey]}
        /\ latestById' = [latestById EXCEPT ![t.to] = n]
        /\ currentOrderIndex' = n + 1

(* register() in one mode: the dual registrar throws on disagreement and   *)
(* changes nothing but the parity status.                                  *)
register(t) ==
    /\ currentOrderIndex < MaxVersions
    /\ UNCHANGED saved
    /\ IF Mode = "dual" /\ ~WitnessesAgree(t)
       THEN /\ lastParityStatus' = "HALTED"
            /\ UNCHANGED <<versionsByKey, latestById, currentOrderIndex>>
       ELSE /\ lastParityStatus' = IF Mode = "dual" THEN "AGREED" ELSE lastParityStatus
            /\ IF Violations(t) = {}
               THEN acceptTransition(t)
               ELSE UNCHANGED <<versionsByKey, latestById, currentOrderIndex>>

(* validate(): the invariants of state and transition scope, by the same   *)
(* witnesses; only the parity status can change.                           *)
ValidatedScopes == {"state.identity.explicit", "state.identity.immutable", "state.lineage.explicit"}
validateWithLegacy(t) == LegacyViolations(t) \cap ValidatedScopes
validateWithRegistry(t) == RegistryViolations(t) \cap ValidatedScopes

validate(t) ==
    /\ lastParityStatus' = IF Mode # "dual" THEN lastParityStatus
                           ELSE IF validateWithLegacy(t) = validateWithRegistry(t) THEN "AGREED"
                           ELSE "HALTED"
    /\ UNCHANGED <<versionsByKey, latestById, currentOrderIndex, saved>>

takeSnapshot ==
    /\ saved' = snapshot
    /\ UNCHANGED <<versionsByKey, latestById, currentOrderIndex, lastParityStatus>>

(* The counter restarts from the number of restored states.                *)
fromSnapshot_CountsStates ==
    /\ validateSnapshot(saved)
    /\ versionsByKey' = {[id |-> id, parentId |-> saved.lineage[id],
                          orderIndex |-> saved.assigned[id], parentKey |-> NoKey]
                         : id \in saved.state_ids}
    /\ latestById' = [id \in StateID |-> IF id \in saved.state_ids THEN saved.assigned[id]
                                         ELSE NoVersion]
    /\ currentOrderIndex' = Cardinality(saved.state_ids)
    /\ lastParityStatus' = Null
    /\ UNCHANGED saved

(* fromSnapshot builds a new registrar: only the frontier comes back, and  *)
(* without parent links.                                                   *)
fromSnapshot ==
    /\ validateSnapshot(saved)
    /\ versionsByKey' = {[id |-> id, parentId |-> saved.lineage[id],
                          orderIndex |-> saved.assigned[id], parentKey |-> NoKey]
                         : id \in saved.state_ids}
    /\ latestById' = [id \in StateID |-> IF id \in saved.state_ids THEN saved.assigned[id]
                                         ELSE NoVersion]
    /\ currentOrderIndex' = saved.max_index + 1
    /\ lastParityStatus' = Null
    /\ UNCHANGED saved

RegistrarNext ==
    \/ \E t \in Transition : register(t) \/ validate(t)
    \/ takeSnapshot
    \/ fromSnapshot

RegistrarSpec == RegistrarInit /\ [][RegistrarNext]_registrarVars

-----------------------------------------------------------------------------
(* Properties                                                              *)

Version == [id : StateID, parentId : StateID \cup {Null}, orderIndex : Nat,
            parentKey : {NoKey} \cup (StateID \X Nat)]

RegistrarTypeOK ==
    /\ versionsByKey \subseteq Version
    /\ latestById \in [StateID -> Nat \cup {NoVersion}]
    /\ currentOrderIndex \in Nat
    /\ lastParityStatus \in {Null, "AGREED", "HALTED"}

(* Order indices are a total order of the accepted versions, also across a *)
(* restore: none is used twice and none is at or past the counter.         *)
OrderIsTotal ==
    /\ \A v, w \in versionsByKey : v.orderIndex = w.orderIndex => v = w
    /\ \A v \in versionsByKey : v.orderIndex < currentOrderIndex

(* The frontier is the newest version of every identity, and only what was *)
(* accepted is registered.                                                 *)
FrontierIsNewest ==
    /\ \A v \in versionsByKey : v.orderIndex <= latestById[v.id]
    /\ \A id \in StateID : Registered(id) =>
          \E v \in versionsByKey : v.id = id /\ v.orderIndex = latestById[id]

(* getLineage reaches every version of an identity: each version but the   *)
(* oldest points at the one accepted just before it, with no gap.          *)
LineageHasNoGap ==
    \A v, w \in versionsByKey :
        v.id = w.id /\ v.orderIndex < w.orderIndex =>
            \E u \in versionsByKey :
                /\ u.id = w.id /\ w.parentKey = makeVersionKey(u.id, u.orderIndex)
                /\ v.orderIndex <= u.orderIndex /\ u.orderIndex < w.orderIndex

(* Whatever was registered, the snapshot taken of it passes the checks     *)
(* rehydration makes, so a saved registrar can always be restored.         *)
SnapshotIsRestorable == validateSnapshot(snapshot)

(* Apart from a restore, no accepted version is ever dropped or rewritten  *)
(* and the counter never goes back.                                        *)
HistoryAppendOnly ==
    [][~fromSnapshot => /\ versionsByKey \subseteq versionsByKey'
                        /\ currentOrderIndex <= currentOrderIndex']_registrarVars
==============================================================================
