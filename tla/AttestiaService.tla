--------------------------- MODULE AttestiaService ---------------------------
(***************************************************************************)
(* One tenant's service in durable mode                                    *)
(* (packages/node/src/services/attestia-service.ts, with the snapshot      *)
(* store of packages/event-store and the attestor of packages/reconciler). *)
(*                                                                         *)
(* A mutation appends its domain event to the audit log, is applied to one *)
(* subsystem in memory and is then covered by a snapshot of every          *)
(* subsystem, the manifest last.  The thread of the program runs a         *)
(* mutation to its end without interruption, but a crash may come between  *)
(* any two writes; attest() gives the thread away while it waits for the   *)
(* attestor's mutex.  A subsystem's state is the set of requests applied   *)
(* to it; the log itself is durable once append returned (JsonlEventStore).*)
(***************************************************************************)
EXTENDS Integers, Sequences, SequencesExt, FiniteSetsExt

CONSTANTS Op,           \* requests, each made once
          Keep,         \* maxSnapshotsPerStream
          Deployments   \* the deployments explored, as records:
                        \*   mutated      synchronous subsystems the requests go to
                        \*   cadence      snapshotCadence
                        \*   setup        unaudited delegators are called too
                        \*   attests      attest() is called too
                        \*   overrides    values of allowSnapshotAheadOfLog at boots
                        \*   crashes, stops, fails, truncations, corruptions
                        \*                bounds on crashes, clean shutdowns,
                        \*                failing writes, external truncations of
                        \*                the log and snapshots damaged on disk

ASSUME SubsystemsAreKnown ==
    \A d \in Deployments : d.mutated \subseteq {"vault", "treasury", "governance"}
ASSUME CadenceIsKnown ==
    \A d \in Deployments : d.cadence \in {"afterEachMutation", "onShutdown"}
ASSUME KeepIsPositive == Keep \in Nat \ {0}
ASSUME RequestsAreNoMarkers == {"corrupt", "stop", "none"} \cap Op = {}

(* snapshotAll's order of writes; the export-only ledger never changes.    *)
SNAPSHOT_STREAMS == <<"registrar", "vault", "treasury", "governance", "manifest">>
Stream == ToSet(SNAPSHOT_STREAMS)
Subsystem == Stream \ {"manifest"}

Empty == [s \in Subsystem |-> {}]
Idle == [op |-> "none", at |-> "idle", next |-> 0]
Corrupt == {"corrupt"}
NoIndex == -1

VARIABLES
    log,         \* audit events: op, subsystem and, for attests, orderIndex
    up,          \* "down", "up" or "refused" (restoreAll threw)
    mem,         \* mem[s]: requests the subsystem in memory reflects
    lastStateId, \* the attestor knows its last registered state
    disk,        \* disk[s]: the stream's snapshot files, [version, state]
    run,         \* the synchronous call in progress
    queue,       \* attests waiting for the attestor's mutex
    attested,    \* attests registered whose caller has not resumed
    assigned,    \* assigned[o]: order index the registrar gave to o
    result,      \* result[o]: what the caller of o knows
    subOf,       \* subOf[o]: the subsystem o went to
    warned,      \* requests whose loss a restore WARN has named
    unaudited,   \* requests that went to an unaudited delegator
    dep,         \* the deployment of this behaviour; never changes
    crashes, stops, fails, truncations, corruptions

faultVars == <<dep, crashes, stops, fails, truncations, corruptions>>
ghostVars == <<subOf, warned, unaudited>>
attestVars == <<lastStateId, queue, attested, assigned>>
vars == <<log, up, mem, lastStateId, disk, run, queue, attested, assigned,
          result, subOf, warned, unaudited, dep, crashes, stops, fails, truncations,
          corruptions>>

Init ==
    /\ log = <<>> /\ up = "up" /\ mem = Empty
    /\ lastStateId = FALSE
    /\ disk = [s \in Stream |-> {}]
    /\ run = Idle
    /\ queue = <<>> /\ attested = {}
    /\ assigned = [o \in Op |-> NoIndex]
    /\ result = [o \in Op |-> "new"]
    /\ subOf = [o \in Op |-> "none"]
    /\ warned = {} /\ unaudited = {}
    /\ dep \in Deployments
    /\ crashes = 0 /\ stops = 0 /\ fails = 0 /\ truncations = 0 /\ corruptions = 0

Ready == up = "up" /\ run = Idle
globalPosition == Len(log)

Return(o, r) == result' = [result EXCEPT ![o] = r]

(* The process is gone: what it had in memory, and its callers with it.    *)
Exit ==
    /\ up' = "down" /\ mem' = Empty /\ run' = Idle
    /\ lastStateId' = FALSE /\ queue' = <<>> /\ attested' = {}
    /\ result' = [o \in Op |-> IF result[o] = "running" THEN "lost" ELSE result[o]]

-----------------------------------------------------------------------------
(* FileSnapshotStore                                                       *)

Versions(files) == {f.version : f \in files}

(* The other end of the sorted versions is sliced off.                     *)
prune_KeepsOldest(files) ==
    {f \in files : Cardinality({v \in Versions(files) : v < f.version}) < Keep}

(* prune keeps the highest versions.                                       *)
prune(files) ==
    {f \in files : Cardinality({v \in Versions(files) : v > f.version}) < Keep}

(* save: temp file, fsync, rename; a file of the same version is replaced. *)
save(files, version, state) ==
    prune({f \in files : f.version # version}
          \cup {[version |-> version, state |-> state]})

(* load: the highest version, or nothing when it fails verification.       *)
latest(files) == CHOOSE f \in files : f.version = Max(Versions(files))
hasSnapshot(files) == files # {}

load(files) == IF files = {} \/ latest(files).state = Corrupt THEN {} ELSE latest(files).state

-----------------------------------------------------------------------------
(* snapshotAll, one stream at a time                                       *)

(* What follows a successful mutation: _snapshotIfCadence, then return.    *)
Finish(o) ==
    IF dep.cadence = "afterEachMutation"
    THEN /\ run' = [op |-> o, at |-> "save", next |-> 1]
         /\ UNCHANGED result
    ELSE /\ run' = Idle
         /\ Return(o, "ok")

Saving == up = "up" /\ run.at = "save"

SaveStream ==
    /\ Saving
    /\ LET s == SNAPSHOT_STREAMS[run.next]
           state == IF s = "manifest" THEN {} ELSE mem[s]
       IN  disk' = [disk EXCEPT ![s] = save(@, globalPosition, state)]
    /\ IF run.next < Len(SNAPSHOT_STREAMS)
       THEN /\ run' = [run EXCEPT !.next = @ + 1]
            /\ UNCHANGED <<up, mem, attestVars, result>>
       ELSE IF run.op = "stop"
       THEN /\ Exit
            /\ UNCHANGED assigned
       ELSE /\ run' = Idle
            /\ Return(run.op, "ok")
            /\ UNCHANGED <<up, mem, attestVars>>
    /\ UNCHANGED <<log, ghostVars, faultVars>>

(* A snapshot write throws: the caller sees an error for a mutation that   *)
(* was audited and applied.  (One that throws in stop() ends the process,  *)
(* main.ts:222, and is a crash in the middle of its writes.)               *)
SaveFails ==
    /\ Saving /\ run.op # "stop" /\ fails < dep.fails
    /\ fails' = fails + 1
    /\ Return(run.op, "thrown")
    /\ run' = Idle
    /\ UNCHANGED <<log, up, mem, attestVars, disk, ghostVars, dep, crashes, stops,
                   truncations, corruptions>>

-----------------------------------------------------------------------------
(* Mutations                                                               *)

(* _audit: the fail-closed gate.                                           *)
_audit(o, s, orderIndex) ==
    /\ log' = Append(log, [op |-> o, sub |-> s, orderIndex |-> orderIndex])
    /\ subOf' = [subOf EXCEPT ![o] = s]

(* _mutate, up to the append.                                              *)
_mutate(o, s) ==
    /\ Ready /\ result[o] = "new"
    /\ _audit(o, s, NoIndex)
    /\ run' = [op |-> o, at |-> "apply", next |-> 0]
    /\ Return(o, "running")
    /\ UNCHANGED <<up, mem, attestVars, disk, warned, unaudited, faultVars>>

(* The append throws: the mutation does not happen.                        *)
AuditFails(o) ==
    /\ Ready /\ result[o] = "new" /\ fails < dep.fails
    /\ fails' = fails + 1
    /\ Return(o, "thrown")
    /\ UNCHANGED <<log, up, mem, attestVars, disk, run, ghostVars, dep, crashes, stops,
                   truncations, corruptions>>

(* apply() succeeds ...                                                    *)
Apply ==
    /\ up = "up" /\ run.at = "apply"
    /\ mem' = [mem EXCEPT ![subOf[run.op]] = @ \cup {run.op}]
    /\ Finish(run.op)
    /\ UNCHANGED <<log, up, attestVars, disk, ghostVars, faultVars>>

(* ... or the subsystem refuses the request and apply() throws.            *)
ApplyThrows ==
    /\ up = "up" /\ run.at = "apply"
    /\ run' = Idle
    /\ Return(run.op, "thrown")
    /\ UNCHANGED <<log, up, mem, attestVars, disk, ghostVars, faultVars>>

(* The delegators that bypass _mutate: no event and no snapshot.           *)
Setup(o, s) ==
    /\ dep.setup
    /\ Ready /\ result[o] = "new"
    /\ mem' = [mem EXCEPT ![s] = @ \cup {o}]
    /\ subOf' = [subOf EXCEPT ![o] = s]
    /\ Return(o, "ok")
    /\ unaudited' = unaudited \cup {o}
    /\ UNCHANGED <<log, up, attestVars, disk, run, warned, faultVars>>

-----------------------------------------------------------------------------
(* attest()                                                                *)

nextOrderIndex == Cardinality(mem["registrar"])

(* The event is appended with the frontier read now; then the call waits.  *)
AttestAudit(o) ==
    /\ dep.attests
    /\ Ready /\ result[o] = "new"
    /\ _audit(o, "registrar", nextOrderIndex)
    /\ queue' = Append(queue, o)
    /\ Return(o, "running")
    /\ UNCHANGED <<up, mem, lastStateId, attested, assigned, disk, run, warned, unaudited,
                   faultVars>>

(* The mutex is not released when the registration is refused.             *)
AttestRegister_KeepsLock ==
    /\ Ready /\ queue # <<>>
    /\ LET o == Head(queue)
       IN  IF ~lastStateId /\ mem["registrar"] # {}
           THEN /\ Return(o, "thrown")
                /\ UNCHANGED <<mem, lastStateId, queue, attested, assigned>>
           ELSE /\ queue' = Tail(queue)
                /\ mem' = [mem EXCEPT !["registrar"] = @ \cup {o}]
                /\ assigned' = [assigned EXCEPT ![o] = nextOrderIndex]
                /\ lastStateId' = TRUE
                /\ attested' = attested \cup {o}
                /\ UNCHANGED result
    /\ UNCHANGED <<log, up, disk, run, ghostVars, faultVars>>

(* The newest waiter is resumed first.                                     *)
AttestRegister_Lifo ==
    /\ Ready /\ queue # <<>>
    /\ queue' = Front(queue)
    /\ LET o == Last(queue)
       IN  IF ~lastStateId /\ mem["registrar"] # {}
           THEN /\ Return(o, "thrown")
                /\ UNCHANGED <<mem, lastStateId, attested, assigned>>
           ELSE /\ mem' = [mem EXCEPT !["registrar"] = @ \cup {o}]
                /\ assigned' = [assigned EXCEPT ![o] = nextOrderIndex]
                /\ lastStateId' = TRUE
                /\ attested' = attested \cup {o}
                /\ UNCHANGED result
    /\ UNCHANGED <<log, up, disk, run, ghostVars, faultVars>>

(* _attestInner, when the mutex is granted.  Without a lastStateId it      *)
(* registers a root, which the registrar refuses when the attestor's state *)
(* is already registered.                                                  *)
AttestRegister ==
    /\ Ready /\ queue # <<>>
    /\ queue' = Tail(queue)
    /\ LET o == Head(queue)
       IN  IF ~lastStateId /\ mem["registrar"] # {}
           THEN /\ Return(o, "thrown")
                /\ UNCHANGED <<mem, lastStateId, attested, assigned>>
           ELSE /\ mem' = [mem EXCEPT !["registrar"] = @ \cup {o}]
                /\ assigned' = [assigned EXCEPT ![o] = nextOrderIndex]
                /\ lastStateId' = TRUE
                /\ attested' = attested \cup {o}
                /\ UNCHANGED result
    /\ UNCHANGED <<log, up, disk, run, ghostVars, faultVars>>

(* The caller resumes after the await and snapshots.                       *)
AttestResume(o) ==
    /\ Ready /\ o \in attested
    /\ attested' = attested \ {o}
    /\ Finish(o)
    /\ UNCHANGED <<log, up, mem, lastStateId, queue, assigned, disk, ghostVars, faultVars>>

-----------------------------------------------------------------------------
(* stop, crash, and what may happen to the disk in between                 *)

stop ==
    /\ Ready /\ stops < dep.stops
    /\ stops' = stops + 1
    /\ run' = [op |-> "stop", at |-> "save", next |-> 1]
    /\ UNCHANGED <<log, up, mem, attestVars, disk, result, ghostVars, dep, crashes, fails,
                   truncations, corruptions>>

Crash ==
    /\ up = "up" /\ crashes < dep.crashes
    /\ crashes' = crashes + 1
    /\ Exit
    /\ UNCHANGED <<log, disk, assigned, ghostVars, dep, stops, fails, truncations,
                   corruptions>>

TruncateLog ==
    /\ up = "down" /\ truncations < dep.truncations
    /\ truncations' = truncations + 1
    /\ \E n \in 0..(Len(log) - 1) : log' = SubSeq(log, 1, n)
    /\ UNCHANGED <<up, mem, attestVars, disk, run, result, ghostVars, dep, crashes, stops,
                   fails, corruptions>>

CorruptSnapshot(s) ==
    /\ up = "down" /\ corruptions < dep.corruptions /\ disk[s] # {}
    /\ corruptions' = corruptions + 1
    /\ LET f == latest(disk[s])
       IN  disk' = [disk EXCEPT ![s] = (@ \ {f}) \cup {[f EXCEPT !.state = Corrupt]}]
    /\ UNCHANGED <<log, up, mem, attestVars, run, result, ghostVars, dep, crashes, stops,
                   fails, truncations>>

-----------------------------------------------------------------------------
(* restoreAll                                                              *)

Damaged(s) == hasSnapshot(disk[s]) /\ latest(disk[s]).state = Corrupt

stampedPosition ==
    IF disk["manifest"] = {} \/ Damaged("manifest") THEN 0 ELSE latest(disk["manifest"]).version

(* A gap of one event is not reported.                                     *)
NamedByWarn_OffByOne ==
    (IF Len(log) > stampedPosition + 1
     THEN {log[i].op : i \in (stampedPosition + 1)..Len(log)} ELSE {})
    \cup {o \in Op : subOf[o] \in Subsystem /\ Damaged(subOf[o])}

(* Requests named by the crash-window WARN or by a restore.corrupt WARN.   *)
NamedByWarn ==
    {log[i].op : i \in (stampedPosition + 1)..Len(log)}
    \cup {o \in Op : subOf[o] \in Subsystem /\ Damaged(subOf[o])}

(* The stamp is never compared with a log that is shorter.                 *)
restoreAll_AdoptsAhead(allow) ==
    /\ up = "down"
    /\ mem' = [s \in Subsystem |-> load(disk[s])]
    /\ lastStateId' = FALSE
    /\ up' = "up"
    /\ warned' = warned \cup NamedByWarn
    /\ UNCHANGED <<log, disk, run, queue, attested, assigned, result, subOf, unaudited,
                   faultVars>>

(* Each subsystem loads its own latest snapshot; a new attestor is built.  *)
restoreAll(allow) ==
    /\ up = "down"
    /\ mem' = [s \in Subsystem |-> load(disk[s])]
    /\ lastStateId' = FALSE
    /\ up' = IF stampedPosition > globalPosition /\ ~allow THEN "refused" ELSE "up"
    /\ warned' = warned \cup NamedByWarn
    /\ UNCHANGED <<log, disk, run, queue, attested, assigned, result, subOf, unaudited,
                   faultVars>>

-----------------------------------------------------------------------------
Thread == SaveStream \/ Apply \/ AttestRegister \/ \E o \in Op : AttestResume(o)

Request(o) ==
    \/ \E s \in dep.mutated : _mutate(o, s) \/ Setup(o, s)
    \/ AttestAudit(o)
    \/ AuditFails(o)

Next ==
    \/ Thread \/ ApplyThrows \/ SaveFails
    \/ \E o \in Op : Request(o)
    \/ stop \/ Crash \/ TruncateLog
    \/ \E s \in Stream : CorruptSnapshot(s)
    \/ \E allow \in dep.overrides : restoreAll(allow)

Spec == Init /\ [][Next]_vars

(* The event loop runs every callback that is ready.                       *)
FairSpec == Spec /\ WF_vars(SaveStream) /\ WF_vars(Apply) /\ WF_vars(AttestRegister)
                 /\ \A o \in Op : WF_vars(AttestResume(o))

-----------------------------------------------------------------------------
(* Properties                                                              *)

Logged == {log[i].op : i \in 1..Len(log)}
InMemory(o) == subOf[o] \in Subsystem /\ o \in mem[subOf[o]]

(* An acknowledged audited request is still there after any restart, or a  *)
(* WARN at boot has named it: crashes between the subsystem snapshots,     *)
(* pruning, damaged files and set-up calls in between lose none silently.  *)
AckedSurvives ==
    up = "up" => \A o \in Op \ unaudited :
        result[o] = "ok" => InMemory(o) \/ o \in warned

(* Snapshots never run ahead of the audit log: after any restore the state *)
(* holds only requests whose event is in the log, or that have none.       *)
StateBackedByLog ==
    up = "up" => \A s \in Subsystem : mem[s] \ unaudited \subseteq Logged

(* An audited synchronous mutation that no caller was told had failed is   *)
(* in the restored state or named by the crash-window WARN, whatever       *)
(* attests were waiting meanwhile.                                         *)
NeverSilentGap ==
    Ready => \A o \in Logged :
        subOf[o] \in dep.mutated =>
            InMemory(o) \/ o \in warned \/ result[o] = "thrown"

(* Every request ends, also when a registration ahead of it in the mutex's *)
(* queue is refused.                                                       *)
RequestEnds ==
    \A o \in Op : (result[o] = "running") ~> (result[o] # "running")

(* Concurrent attests enter the lineage in the order of their audit        *)
(* events: the mutex's queue is served first come, first served.           *)
AttestsKeepLogOrder ==
    \A i, j \in 1..Len(log) :
        i < j /\ {log[i].op, log[j].op} \subseteq mem["registrar"]
            => assigned[log[i].op] < assigned[log[j].op]

(* Attests after a restart continue the same lineage: none is refused.     *)
AttestContinuesLineage ==
    \A o \in Op : result[o] = "thrown" => subOf[o] # "registrar"
==============================================================================
