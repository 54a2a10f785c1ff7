--------------------------- MODULE JsonlEventStore ---------------------------
(***************************************************************************)
(* The append-only JSONL event log shared by several processes             *)
(* (packages/event-store/src/jsonl-store.ts).                              *)
(*                                                                         *)
(* Each process opens the same file with its own JsonlEventStore instance. *)
(* The instance caches the log, the chain cursor and the file size it has  *)
(* seen; append() takes a lockfile, checks that the file did not grow      *)
(* behind it, writes the new lines, fsyncs and only then commits to        *)
(* memory.  Every system call another process can observe or interleave    *)
(* with is an action of its own.  Processes crash at any step, writes stop *)
(* after any prefix, and a power failure loses what was not fsynced.       *)
(*                                                                         *)
(* A line is three cells: the two halves of its record and the newline, so *)
(* that a torn line and a complete line without a newline both occur.      *)
(***************************************************************************)
EXTENDS Integers, Sequences, SequencesExt, FiniteSets, HashChain, Selection

CONSTANTS Proc,        \* processes that share the log
          Pid,         \* operating-system process ids
          Stream,      \* stream ids
          Scenarios    \* the bounds of the behaviours explored, as records:
                       \*   procs     processes that open the log
                       \*   streams   streams they append to
                       \*   events    events ever submitted to append()
                       \*   batch     events in one append()
                       \*   crashes   process crashes and power failures
                       \*   restarts  processes started after a crash
                       \*   fails     failing write or fsync calls

NoLock == [by |-> "nobody", pid |-> "absent"]  \* no lockfile on disk
NoPid  == "none"                               \* not running / empty lockfile
AnyVersion == -1                               \* expectedVersion "any" or undefined

ASSUME MarkersAreNoNames == "nobody" \notin Proc /\ {"absent", "none"} \cap Pid = {}
ASSUME ProcessesAreKnown == \A b \in Scenarios : b.procs \subseteq Proc

VARIABLES
    file,      \* the JSONL file: a sequence of cells
    synced,    \* how much of it an fsync has made durable
    lock,      \* the lockfile: who created the inode, and the pid written in it
    pid,       \* pid[p]: p's process id, NoPid when p is down
    pc,        \* pc[p]: where p is in append()
    store,     \* store[p]: the fields of p's JsonlEventStore instance
    batch,     \* batch[p]: the events of the append() in progress
    out,       \* out[p]: cells of its write() still to reach the file
    seenPid,   \* seenPid[p]: what _readLockPid returned
    broke,     \* broke[p]: _acquireLock's brokeStaleLock
    nextId,    \* identity of the next submitted event
    acked,     \* events whose append() returned
    crashes, restarts, fails,
    bound      \* the scenario this behaviour explores; never changes

vars == <<file, synced, lock, pid, pc, store, batch, out, seenPid, broke,
          nextId, acked, crashes, restarts, fails, bound>>

lockVars  == <<seenPid, broke>>
ghostVars == <<nextId, acked, crashes, restarts, fails, bound>>

-----------------------------------------------------------------------------
(* The file                                                                *)

NL == [half |-> "nl"]
Cells(r) == <<[half |-> "a", rec |-> r], [half |-> "b", rec |-> r], NL>>

(* _writeAndSync's data: the lines of a batch.                             *)
Lines(events) == FlattenSeq([i \in 1..Len(events) |-> Cells(events[i])])

(* The line that starts at cell i parses: exactly the two halves of one    *)
(* record between newlines.  A fused or torn line does not.                *)
ParsesAt(f, i) ==
    /\ f[i].half = "a"
    /\ i > 1 => f[i - 1].half = "nl"
    /\ i + 1 <= Len(f)
    /\ f[i + 1].half = "b"
    /\ i + 2 <= Len(f) => f[i + 2].half = "nl"

(* _loadFromFile's records, in file order; unparsable lines are skipped.   *)
EventsIn(f) ==
    LET starts == Select([i \in 1..Len(f) |-> i], {i \in 1..Len(f) : ParsesAt(f, i)})
    IN  [j \in 1..Len(starts) |-> f[starts[j]].rec]

Unterminated(f) == f # <<>> /\ f[Len(f)].half # "nl"

NextPosition(events) ==
    1 + (IF events = <<>> THEN 0
         ELSE Max({events[i].ev.globalPosition : i \in 1..Len(events)}))

(* The instance a constructor builds from the bytes it reads.              *)
_loadFromFile(f) ==
    LET events == EventsIn(f)
    IN  [globalLog |-> events,
         nextGlobalPosition |-> NextPosition(events),
         lastHash |-> HashBefore(events, Len(events) + 1),
         knownFileSize |-> Len(f),
         needsTrailingNewline |-> Unterminated(f)]

streamVersion(log, s) == Cardinality({k \in DOMAIN log : log[k].ev.streamId = s})

-----------------------------------------------------------------------------
Init ==
    /\ file = <<>> /\ synced = 0
    /\ lock = NoLock
    /\ bound \in Scenarios
    /\ pid \in {f \in [Proc -> Pid \cup {NoPid}] :
                   /\ \A p \in Proc : f[p] = NoPid <=> p \notin bound.procs
                   /\ \A p, q \in bound.procs : p # q => f[p] # f[q]}
    /\ pc = [p \in Proc |-> IF p \in bound.procs THEN "idle" ELSE "down"]
    /\ store = [p \in Proc |-> _loadFromFile(<<>>)]
    /\ batch = [p \in Proc |-> <<>>]
    /\ out = [p \in Proc |-> <<>>]
    /\ seenPid = [p \in Proc |-> NoPid]
    /\ broke = [p \in Proc |-> FALSE]
    /\ nextId = 1 /\ acked = {}
    /\ crashes = 0 /\ restarts = 0 /\ fails = 0

Alive(i) == \E q \in Proc : pid[q] = i

Goto(p, l) == pc' = [pc EXCEPT ![p] = l]

-----------------------------------------------------------------------------
(* Opening the store.  The read takes no lock, so it may see the middle of *)
(* another process's write.  verifyOnLoad (the default) refuses a log      *)
(* whose chain does not verify.                                            *)

Load(p) ==
    /\ ChainValid(EventsIn(file))
    /\ store' = [store EXCEPT ![p] = _loadFromFile(file)]

(* A crashed process is started again under some free process id.          *)
Restart(p) ==
    /\ pc[p] = "down" /\ restarts < bound.restarts
    /\ restarts' = restarts + 1
    /\ \E i \in Pid : ~Alive(i) /\ pid' = [pid EXCEPT ![p] = i]
    /\ Goto(p, "idle")
    /\ Load(p)
    /\ UNCHANGED <<file, synced, lock, batch, out, lockVars, nextId, acked,
                   crashes, fails, bound>>

(* A live process discards its instance and constructs a new one, as the   *)
(* CONCURRENCY_CONFLICT message tells the caller to do.                    *)
Reopen(p) ==
    /\ pc[p] = "idle"
    /\ Load(p)
    /\ UNCHANGED <<file, synced, lock, pid, pc, batch, out, lockVars, ghostVars>>

-----------------------------------------------------------------------------
(* append(): the checks before the lock, against the instance's own view.  *)

VersionMatches(current, expected) == expected \in {AnyVersion, current}

(* The i-th event of a batch.                                              *)
NewEvent(s, st, id, i) ==
    [id |-> id + i - 1, streamId |-> s,
     version |-> streamVersion(st.globalLog, s) + i,
     globalPosition |-> st.nextGlobalPosition + i - 1]

(* The chained records of a batch of n events with identities from id on.  *)
Chained(s, st, id, n) ==
    LET hash[i \in 0..n] == IF i = 0 THEN st.lastHash
                            ELSE computeEventHash(NewEvent(s, st, id, i), hash[i - 1])
    IN  [i \in 1..n |-> StoredEvent(NewEvent(s, st, id, i), hash[i], hash[i - 1])]

BeginAppend(p, s, n, expected) ==
    /\ pc[p] = "idle"
    /\ nextId + n - 1 <= bound.events
    /\ VersionMatches(streamVersion(store[p].globalLog, s), expected)
    /\ batch' = [batch EXCEPT ![p] = Chained(s, store[p], nextId, n)]
    /\ nextId' = nextId + n
    /\ broke' = [broke EXCEPT ![p] = FALSE]
    /\ Goto(p, "create")
    /\ UNCHANGED <<file, synced, lock, pid, store, out, seenPid, acked,
                   crashes, restarts, fails, bound>>

-----------------------------------------------------------------------------
(* _acquireLock: O_CREAT|O_EXCL, then the pid is written through the fd.   *)

(* The exclusive create: an existing lockfile makes it fail with EEXIST.   *)
CreateLock(p) ==
    /\ pc[p] = "create"
    /\ IF lock = NoLock
       THEN /\ lock' = [by |-> p, pid |-> NoPid]
            /\ Goto(p, "created")
       ELSE /\ Goto(p, IF broke[p] THEN "spin" ELSE "readPid")
            /\ UNCHANGED lock
    /\ UNCHANGED <<file, synced, pid, store, batch, out, lockVars, ghostVars>>

(* The write goes to the inode p created, which may be unlinked by now.    *)
WritePid(p) ==
    /\ pc[p] = "created"
    /\ lock' = IF lock.by = p THEN [lock EXCEPT !.pid = pid[p]] ELSE lock
    /\ Goto(p, "locked")
    /\ UNCHANGED <<file, synced, pid, store, batch, out, lockVars, ghostVars>>

(* That write throws (ENOSPC): append() throws before its try block, and   *)
(* the empty lockfile of a live process stays.                             *)
PidFails(p) ==
    /\ pc[p] = "created" /\ fails < bound.fails
    /\ fails' = fails + 1
    /\ batch' = [batch EXCEPT ![p] = <<>>]
    /\ Goto(p, "idle")
    /\ UNCHANGED <<file, synced, lock, pid, store, out, lockVars, nextId, acked,
                   crashes, restarts, bound>>

(* _tryBreakStaleLock, first part: no pid, or our own, is never broken.    *)
ReadLockPid(p) ==
    /\ pc[p] = "readPid"
    /\ seenPid' = [seenPid EXCEPT ![p] =
                     IF lock.pid \in Pid THEN lock.pid ELSE NoPid]
    /\ Goto(p, IF lock.pid \in Pid \ {pid[p]} THEN "probe" ELSE "spin")
    /\ UNCHANGED <<file, synced, lock, pid, store, batch, out, broke, ghostVars>>

ProbeHolder_Inverted(p) ==
    /\ pc[p] = "probe"
    /\ Goto(p, IF Alive(seenPid[p]) THEN "unlink" ELSE "spin")
    /\ UNCHANGED <<file, synced, lock, pid, store, batch, out, lockVars, ghostVars>>

(* process.kill(pid, 0): only ESRCH counts as dead.                        *)
ProbeHolder(p) ==
    /\ pc[p] = "probe"
    /\ Goto(p, IF Alive(seenPid[p]) THEN "spin" ELSE "unlink")
    /\ UNCHANGED <<file, synced, lock, pid, store, batch, out, lockVars, ghostVars>>

(* unlinkSync of whatever lockfile is there now, then retry the create.    *)
UnlinkStale(p) ==
    /\ pc[p] = "unlink"
    /\ lock' = NoLock
    /\ broke' = [broke EXCEPT ![p] = TRUE]
    /\ Goto(p, "create")
    /\ UNCHANGED <<file, synced, pid, store, batch, out, seenPid, ghostVars>>

SpinWait(p) ==
    /\ pc[p] = "spin"
    /\ Goto(p, "create")
    /\ UNCHANGED <<file, synced, lock, pid, store, batch, out, lockVars, ghostVars>>

(* The deadline is computed anew each time it passes.                      *)
LockTimeout_Restarts(p) ==
    /\ pc[p] = "spin"
    /\ Goto(p, "create")
    /\ UNCHANGED <<file, synced, lock, pid, store, batch, out, lockVars, ghostVars>>

(* The five second deadline has passed: LOCK_TIMEOUT.                      *)
LockTimeout(p) ==
    /\ pc[p] = "spin"
    /\ Goto(p, "idle")
    /\ batch' = [batch EXCEPT ![p] = <<>>]
    /\ UNCHANGED <<file, synced, lock, pid, store, out, lockVars, ghostVars>>

-----------------------------------------------------------------------------
(* The critical section                                                    *)

(* The in-memory cursor is trusted without looking at the file.            *)
DetectExternalAdvance_Skipped(p) ==
    /\ pc[p] = "locked"
    /\ Goto(p, IF store[p].needsTrailingNewline THEN "repair" ELSE "write")
    /\ out' = [out EXCEPT ![p] = Lines(batch[p])]
    /\ UNCHANGED <<file, synced, lock, pid, store, batch, lockVars, ghostVars>>

(* _detectExternalAdvanceUnderLock: growth means CONCURRENCY_CONFLICT.     *)
DetectExternalAdvance(p) ==
    /\ pc[p] = "locked"
    /\ IF Len(file) > store[p].knownFileSize
       THEN /\ Goto(p, "releaseErr")
            /\ UNCHANGED out
       ELSE /\ Goto(p, IF store[p].needsTrailingNewline THEN "repair" ELSE "write")
            /\ out' = [out EXCEPT ![p] = Lines(batch[p])]
    /\ UNCHANGED <<file, synced, lock, pid, store, batch, lockVars, ghostVars>>

(* Torn-tail repair: a lone newline, written and fsynced.                  *)
RepairNewline(p) ==
    /\ pc[p] = "repair"
    /\ file' = Append(file, NL)
    /\ synced' = Len(file')
    /\ store' = [store EXCEPT ![p].knownFileSize = @ + 1,
                              ![p].needsTrailingNewline = FALSE]
    /\ Goto(p, "write")
    /\ UNCHANGED <<lock, pid, batch, out, lockVars, ghostVars>>

(* Some more of the batch reaches the file, in order.                      *)
WriteSome(p) ==
    /\ pc[p] = "write" /\ out[p] # <<>>
    /\ \E k \in 1..Len(out[p]) :
          /\ file' = file \o SubSeq(out[p], 1, k)
          /\ out' = [out EXCEPT ![p] = SubSeq(@, k + 1, Len(@))]
    /\ UNCHANGED <<synced, lock, pid, pc, store, batch, lockVars, ghostVars>>

(* fsync returned: commit the batch to memory and dispatch to subscribers, *)
(* whose exceptions are swallowed.                                         *)
Commit(p) ==
    /\ pc[p] = "write" /\ out[p] = <<>>
    /\ synced' = Len(file)
    /\ store' = [store EXCEPT
           ![p].globalLog = @ \o batch[p],
           ![p].nextGlobalPosition = @ + Len(batch[p]),
           ![p].lastHash = batch[p][Len(batch[p])].hash,
           ![p].knownFileSize = @ + Len(Lines(batch[p]))]
    /\ Goto(p, "releaseOk")
    /\ UNCHANGED <<file, lock, pid, batch, out, lockVars, ghostVars>>

(* A write or fsync throws (ENOSPC, EIO): what reached the file stays, the *)
(* instance does not commit, and the finally block releases the lock.      *)
WriteFails(p) ==
    /\ pc[p] \in {"repair", "write"} /\ fails < bound.fails
    /\ fails' = fails + 1
    /\ \/ file' = file
       \/ pc[p] = "repair" /\ file' = Append(file, NL)
    /\ out' = [out EXCEPT ![p] = <<>>]
    /\ Goto(p, "releaseErr")
    /\ UNCHANGED <<synced, lock, pid, store, batch, lockVars, nextId, acked,
                   crashes, restarts, bound>>

(* _releaseLock unlinks the lockfile, whoever created it; append returns.  *)
ReleaseLock(p) ==
    /\ pc[p] \in {"releaseOk", "releaseErr"}
    /\ lock' = NoLock
    /\ acked' = IF pc[p] = "releaseOk" THEN acked \cup Range(batch[p]) ELSE acked
    /\ batch' = [batch EXCEPT ![p] = <<>>]
    /\ Goto(p, "idle")
    /\ UNCHANGED <<file, synced, pid, store, out, lockVars, nextId,
                   crashes, restarts, fails, bound>>

-----------------------------------------------------------------------------
(* Failures outside the program                                            *)

Down(P) ==
    /\ pid' = [p \in Proc |-> IF p \in P THEN NoPid ELSE pid[p]]
    /\ pc' = [p \in Proc |-> IF p \in P THEN "down" ELSE pc[p]]
    /\ store' = [p \in Proc |-> IF p \in P THEN _loadFromFile(<<>>) ELSE store[p]]
    /\ batch' = [p \in Proc |-> IF p \in P THEN <<>> ELSE batch[p]]
    /\ out' = [p \in Proc |-> IF p \in P THEN <<>> ELSE out[p]]
    /\ seenPid' = [p \in Proc |-> IF p \in P THEN NoPid ELSE seenPid[p]]
    /\ broke' = [p \in Proc |-> IF p \in P THEN FALSE ELSE broke[p]]

(* One process is killed; its lockfile and its bytes stay.                 *)
Crash(p) ==
    /\ pc[p] # "down" /\ crashes < bound.crashes
    /\ crashes' = crashes + 1
    /\ Down({p})
    /\ UNCHANGED <<file, synced, lock, nextId, acked, restarts, fails, bound>>

(* Power failure: all processes die and any unsynced suffix may be lost;   *)
(* so may the lockfile and the pid in it, which are never fsynced.         *)
PowerLoss ==
    /\ crashes < bound.crashes
    /\ crashes' = crashes + 1
    /\ Down(Proc)
    /\ \E n \in synced..Len(file) : file' = SubSeq(file, 1, n)
    /\ synced' = Len(file')
    /\ lock' \in {lock, NoLock}
    /\ UNCHANGED <<nextId, acked, restarts, fails, bound>>

-----------------------------------------------------------------------------
Step(p) ==
    \/ CreateLock(p) \/ WritePid(p) \/ ReadLockPid(p) \/ ProbeHolder(p)
    \/ UnlinkStale(p) \/ SpinWait(p) \/ LockTimeout(p)
    \/ DetectExternalAdvance(p) \/ RepairNewline(p) \/ WriteSome(p)
    \/ Commit(p) \/ ReleaseLock(p)

Next ==
    \/ \E p \in bound.procs :
          Step(p) \/ PidFails(p) \/ WriteFails(p) \/ Restart(p) \/ Reopen(p) \/ Crash(p)
    \/ \E p \in bound.procs, s \in bound.streams, n \in 1..bound.batch,
          expected \in AnyVersion..bound.events : BeginAppend(p, s, n, expected)
    \/ PowerLoss

Spec == Init /\ [][Next]_vars

(* append() is synchronous: once called it runs until it returns, and the  *)
(* clock reaches the lock deadline however often the loop spins.           *)
FairSpec ==
    /\ Spec
    /\ \A p \in Proc : WF_vars(Step(p)) /\ SF_vars(LockTimeout(p))

-----------------------------------------------------------------------------
(* Properties                                                              *)

Critical(p) == pc[p] \in {"created", "locked", "repair", "write",
                          "releaseOk", "releaseErr"}

(* The lockfile excludes: at most one process is between a successful      *)
(* O_CREAT|O_EXCL and its release.                                         *)
MutualExclusion == \A p, q \in Proc : Critical(p) /\ Critical(q) => p = q

(* No two records on disk carry the same globalPosition: the lock together *)
(* with the size check prevents forked chains.                             *)
NoForkedChain ==
    \A e, f \in Range(EventsIn(file)) :
        e.ev.globalPosition = f.ev.globalPosition => e = f

(* The store other programs see: what a load finds in the file, and what   *)
(* was acknowledged.                                                       *)
Store == INSTANCE EventStore WITH log <- EventsIn(file), acked <- acked

(* However writes are torn, repaired, retried and interleaved with opens,  *)
(* crashes and power failures, the file implements the event store: it     *)
(* only grows by records that continue the chain and the versions of their *)
(* streams, whatever view its writer had, and loses none that was          *)
(* acknowledged.                                                           *)
Implements == Store!EsSpec

(* Every append() that starts ends: it returns or its process dies.        *)
AppendTerminates ==
    \A p \in Proc : (pc[p] = "create") ~> (pc[p] \in {"idle", "down"})

StaleLock == lock.pid \in Pid /\ ~Alive(lock.pid)

(* A crashed writer's lock is no outage: a process that meets a lockfile   *)
(* naming a dead process gets rid of it.                                   *)
StaleLockBroken ==
    \A p \in Proc :
        (pc[p] = "create" /\ ~broke[p] /\ StaleLock) ~> (pc[p] = "down" \/ ~StaleLock)

==============================================================================
