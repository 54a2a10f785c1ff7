----------------------------- MODULE LockProofs ------------------------------
(***************************************************************************)
(* Proofs about the lockfile of the shared event log, for any number of    *)
(* processes, events, batches, failing writes and crashes.                 *)
(*                                                                         *)
(* A process that finds a lockfile naming a dead process unlinks whatever  *)
(* lockfile is there by then.  Two processes that found the same dead one  *)
(* unlink each other's lock, so the lock excludes only where that cannot   *)
(* happen: nothing has crashed yet, or there are at most two processes and *)
(* no crashed one came back, or there is a single process.                 *)
(*                                                                         *)
(* There, the file is an append-only log: FileInv relates the bytes of the *)
(* file to what each instance remembers and is about to write, and every   *)
(* step of the store is a step of EventStore or leaves its log alone.      *)
(***************************************************************************)
EXTENDS JsonlEventStore, DataLemmas, TLAPS

Label == {"down", "idle", "create", "created", "readPid", "probe", "unlink", "spin", "locked",
          "repair", "write", "releaseOk", "releaseErr"}

AtMostTwo == \A p, q, r \in bound.procs : p = q \/ q = r \/ p = r
Alone == \A p, q \in bound.procs : p = q

(* No lock is broken twice.                                                *)
Calm == crashes = 0 \/ (restarts = 0 /\ AtMostTwo)

LockType ==
    /\ pc \in [Proc -> Label]
    /\ pid \in [Proc -> Pid \cup {NoPid}]
    /\ seenPid \in [Proc -> Pid \cup {NoPid}]
    /\ lock \in [by : Proc \cup {"nobody"}, pid : Pid \cup {NoPid, "absent"}]
    /\ crashes \in Nat /\ restarts \in Nat
    /\ bound.procs \subseteq Proc

(* Who runs, and under which process ids.                                  *)
Running ==
    /\ \A p \in Proc : pc[p] = "down" <=> pid[p] = NoPid
    /\ \A p \in Proc : p \notin bound.procs => pc[p] = "down"
    /\ \A p, q \in Proc : pid[p] = pid[q] /\ pid[p] # NoPid => p = q
    /\ crashes = 0 => \A p \in bound.procs : pc[p] # "down"

(* The lockfile is the one the process in the critical section created.    *)
Holds == \A p \in Proc : Critical(p) => lock.by = p

(* A pid in the lockfile, and one that was read from it, is that of the    *)
(* lock's creator, or the creator is down.                                 *)
Named(i, q) == pid[q] = i \/ pc[q] = "down"
LockNamed == lock.pid \in Pid => lock.by \in bound.procs /\ Named(lock.pid, lock.by)
SeenNamed ==
    \A p \in Proc : pc[p] = "probe" =>
        seenPid[p] \in Pid /\ \E q \in bound.procs : q # p /\ Named(seenPid[p], q)

(* Who is about to break a lock is the last one running.                   *)
BreakerAlone ==
    \A p \in Proc : pc[p] = "unlink" => \A q \in Proc : q # p => pc[q] = "down"

LockInv == LockType /\ Running /\ (Calm => Holds /\ LockNamed /\ SeenNamed /\ BreakerAlone)

(* Nobody holds the lock when the first process starts.                    *)
LEMMA LockInit == Init => LockInv
<1> SUFFICES ASSUME Init PROVE LockInv
  OBVIOUS
<1>1. bound.procs \subseteq Proc
  BY ProcessesAreKnown DEF Init
<1>2. LockType
  BY <1>1 DEF Init, LockType, Label, NoLock, NoPid
<1>3. Running
  BY <1>1 DEF Init, Running
<1>4. Holds /\ LockNamed /\ SeenNamed /\ BreakerAlone
  BY <1>1, MarkersAreNoNames
     DEF Init, Holds, Critical, LockNamed, SeenNamed, BreakerAlone, NoLock, NoPid
<1> QED BY <1>2, <1>3, <1>4 DEF LockInv

(* Steps that leave the lock, the processes and the crashes alone and go   *)
(* nowhere a claim is made about that was not made before.                 *)
LEMMA QuietStep ==
    ASSUME LockInv, NEW p \in Proc, NEW l \in Label \ {"down", "unlink", "probe"},
           pc[p] \in Label \ {"down"},
           l \in {"created", "locked", "repair", "write", "releaseOk", "releaseErr"} => Critical(p),
           Goto(p, l), UNCHANGED <<lock, pid, crashes, restarts, bound>>,
           seenPid' \in [Proc -> Pid \cup {NoPid}], \A q \in Proc : q # p => seenPid'[q] = seenPid[q]
    PROVE  LockInv'
<1>0. LockType /\ Running
  BY DEF LockInv
<1>1. pc' = [pc EXCEPT ![p] = l]
  BY DEF Goto
<1>2. \A q \in Proc : pc'[q] = IF q = p THEN l ELSE pc[q]
  BY <1>0, <1>1 DEF LockType
<1>3. LockType'
  BY <1>0, <1>1 DEF LockType
<1>4. Running'
  BY <1>0, <1>2 DEF Running, LockType
<1>5. SUFFICES ASSUME Calm' PROVE Holds' /\ LockNamed' /\ SeenNamed' /\ BreakerAlone'
  BY <1>3, <1>4 DEF LockInv
<1>6. Calm /\ Holds /\ LockNamed /\ SeenNamed /\ BreakerAlone
  BY <1>5 DEF Calm, AtMostTwo, LockInv
<1>7. Holds'
  BY <1>2, <1>6 DEF Holds, Critical
<1>8. LockNamed'
  BY <1>0, <1>2, <1>6 DEF LockNamed, Named, LockType
<1>9. SeenNamed'
  <2> SUFFICES ASSUME NEW q \in Proc, pc'[q] = "probe"
               PROVE  seenPid'[q] \in Pid /\ \E r \in bound'.procs : r # q /\ Named(seenPid[q], r)'
    BY <1>2 DEF SeenNamed, Named
  <2>1. q # p /\ pc[q] = "probe" /\ seenPid'[q] = seenPid[q]
    BY <1>2
  <2>2. PICK r \in bound.procs : r # q /\ Named(seenPid[q], r) /\ seenPid[q] \in Pid
    BY <1>6, <2>1 DEF SeenNamed
  <2> QED BY <1>0, <1>2, <2>1, <2>2 DEF Named, LockType
<1>10. BreakerAlone'
  BY <1>2, <1>6 DEF BreakerAlone
<1> QED BY <1>7, <1>8, <1>9, <1>10

(* Nothing of the lock protocol changes.                                   *)
LEMMA LockStutter ==
    ASSUME LockInv, UNCHANGED <<pc, pid, lock, seenPid, crashes, restarts, bound>>
    PROVE  LockInv'
BY DEF LockInv, LockType, Running, Calm, AtMostTwo, Holds, Critical, LockNamed, Named,
       SeenNamed, BreakerAlone

(* The exclusive create finds no lockfile, so no one is in the section.    *)
LEMMA CreateInv == ASSUME LockInv, NEW p \in bound.procs, CreateLock(p) PROVE LockInv'
<1>0. LockType /\ Running /\ p \in Proc /\ pc[p] = "create"
  BY DEF LockInv, LockType, CreateLock
<1>1. CASE lock # NoLock
  <2>1. PICK l \in {"spin", "readPid"} : Goto(p, l)
    BY <1>1 DEF CreateLock
  <2> QED BY <1>0, <1>1, <2>1, QuietStep
          DEF CreateLock, lockVars, ghostVars, Label, LockType
<1>2. CASE lock = NoLock
  <2>1. /\ lock' = [by |-> p, pid |-> NoPid]
        /\ pc' = [pc EXCEPT ![p] = "created"]
        /\ UNCHANGED <<pid, seenPid, crashes, restarts, bound>>
    BY <1>2 DEF CreateLock, Goto, lockVars, ghostVars
  <2>2. \A q \in Proc : pc'[q] = IF q = p THEN "created" ELSE pc[q]
    BY <1>0, <2>1 DEF LockType
  <2>3. LockType'
    BY <1>0, <2>1 DEF LockType, Label
  <2>4. Running'
    BY <1>0, <2>1, <2>2 DEF Running, LockType
  <2>5. SUFFICES ASSUME Calm' PROVE Holds' /\ LockNamed' /\ SeenNamed' /\ BreakerAlone'
    BY <2>3, <2>4 DEF LockInv
  <2>6. Holds /\ SeenNamed /\ BreakerAlone
    BY <2>1, <2>5 DEF Calm, AtMostTwo, LockInv
  <2>7. \A q \in Proc : ~Critical(q)
    BY <1>2, <2>6, MarkersAreNoNames DEF Holds, NoLock
  <2>8. Holds'
    BY <2>1, <2>2, <2>7 DEF Holds, Critical
  <2>9. LockNamed'
    BY <2>1, MarkersAreNoNames DEF LockNamed, NoPid
  <2>10. SeenNamed'
    BY <1>0, <2>1, <2>2, <2>6 DEF SeenNamed, Named, LockType
  <2>11. BreakerAlone'
    BY <1>0, <2>2, <2>6 DEF BreakerAlone
  <2> QED BY <2>8, <2>9, <2>10, <2>11
<1> QED BY <1>1, <1>2

(* The holder's pid goes into its own lockfile.                            *)
LEMMA WritePidInv == ASSUME LockInv, NEW p \in bound.procs, WritePid(p) PROVE LockInv'
<1>0. LockType /\ Running /\ p \in Proc /\ pc[p] = "created"
  BY DEF LockInv, LockType, WritePid
<1>1. /\ lock' = IF lock.by = p THEN [lock EXCEPT !.pid = pid[p]] ELSE lock
      /\ pc' = [pc EXCEPT ![p] = "locked"]
      /\ UNCHANGED <<pid, seenPid, crashes, restarts, bound>>
  BY DEF WritePid, Goto, lockVars, ghostVars
<1>2. \A q \in Proc : pc'[q] = IF q = p THEN "locked" ELSE pc[q]
  BY <1>0, <1>1 DEF LockType
<1>3. LockType'
  BY <1>0, <1>1 DEF LockType, Label
<1>4. Running'
  BY <1>0, <1>1, <1>2 DEF Running, LockType
<1>5. SUFFICES ASSUME Calm' PROVE Holds' /\ LockNamed' /\ SeenNamed' /\ BreakerAlone'
  BY <1>3, <1>4 DEF LockInv
<1>6. Holds /\ SeenNamed /\ BreakerAlone
  BY <1>1, <1>5 DEF Calm, AtMostTwo, LockInv
<1>7. lock.by = p
  BY <1>0, <1>6 DEF Holds, Critical
<1>8. lock'.by = p /\ lock'.pid = pid[p]
  BY <1>0, <1>1, <1>7 DEF LockType
<1>9. Holds'
  BY <1>2, <1>6, <1>7, <1>8 DEF Holds, Critical
<1>10. LockNamed'
  BY <1>0, <1>1, <1>8 DEF LockNamed, Named
<1>11. SeenNamed'
  BY <1>0, <1>1, <1>2, <1>6 DEF SeenNamed, Named, LockType
<1>12. BreakerAlone'
  BY <1>0, <1>2, <1>6 DEF BreakerAlone
<1> QED BY <1>9, <1>10, <1>11, <1>12

(* A pid other than its own is read: that of the lock's creator.           *)
LEMMA ReadInv == ASSUME LockInv, NEW p \in bound.procs, ReadLockPid(p) PROVE LockInv'
<1>0. LockType /\ Running /\ p \in Proc /\ pc[p] = "readPid"
  BY DEF LockInv, LockType, ReadLockPid
<1>1. /\ seenPid' = [seenPid EXCEPT ![p] = IF lock.pid \in Pid THEN lock.pid ELSE NoPid]
      /\ UNCHANGED <<lock, pid, crashes, restarts, bound>>
  BY DEF ReadLockPid, ghostVars
<1>2. /\ seenPid' \in [Proc -> Pid \cup {NoPid}]
      /\ \A q \in Proc : q # p => seenPid'[q] = seenPid[q]
      /\ lock.pid \in Pid => seenPid'[p] = lock.pid
  BY <1>0, <1>1 DEF LockType
<1>3. CASE lock.pid \notin Pid \ {pid[p]}
  BY <1>0, <1>1, <1>2, <1>3, QuietStep DEF ReadLockPid, Label
<1>4. CASE lock.pid \in Pid \ {pid[p]}
  <2>1. pc' = [pc EXCEPT ![p] = "probe"]
    BY <1>4 DEF ReadLockPid, Goto
  <2>2. \A q \in Proc : pc'[q] = IF q = p THEN "probe" ELSE pc[q]
    BY <1>0, <2>1 DEF LockType
  <2>3. LockType'
    BY <1>0, <1>1, <1>2, <2>1 DEF LockType, Label
  <2>4. Running'
    BY <1>0, <1>1, <2>2 DEF Running, LockType
  <2>5. SUFFICES ASSUME Calm' PROVE Holds' /\ LockNamed' /\ SeenNamed' /\ BreakerAlone'
    BY <2>3, <2>4 DEF LockInv
  <2>6. Holds /\ LockNamed /\ SeenNamed /\ BreakerAlone
    BY <1>1, <2>5 DEF Calm, AtMostTwo, LockInv
  <2>7. Holds'
    BY <1>1, <2>2, <2>6 DEF Holds, Critical
  <2>8. LockNamed'
    BY <1>0, <1>1, <2>2, <2>6 DEF LockNamed, Named, LockType
  <2>9. SeenNamed'
    <3> SUFFICES ASSUME NEW q \in Proc, pc'[q] = "probe"
                 PROVE  /\ seenPid'[q] \in Pid
                        /\ \E r \in bound.procs : r # q /\ (pid[r] = seenPid'[q] \/ pc'[r] = "down")
      BY <1>1, <2>2 DEF SeenNamed, Named
    <3>1. CASE q # p
      <4>1. PICK r \in bound.procs : r # q /\ Named(seenPid[q], r) /\ seenPid[q] \in Pid
        BY <2>2, <2>6, <3>1 DEF SeenNamed
      <4> QED BY <1>0, <1>2, <2>2, <3>1, <4>1 DEF Named, LockType
    <3>2. CASE q = p
      <4>1. lock.by \in bound.procs /\ Named(lock.pid, lock.by)
        BY <1>4, <2>6 DEF LockNamed
      <4>2. lock.by # p
        BY <1>0, <1>4, <4>1 DEF Named
      <4> QED BY <1>0, <1>2, <1>4, <2>2, <3>2, <4>1, <4>2 DEF Named, LockType
    <3> QED BY <3>1, <3>2
  <2>10. BreakerAlone'
    BY <1>0, <2>2, <2>6 DEF BreakerAlone
  <2> QED BY <2>7, <2>8, <2>9, <2>10
<1> QED BY <1>3, <1>4

(* The process the pid belonged to is dead: without restarts and with two  *)
(* processes, no other is left.                                            *)
LEMMA ProbeInv == ASSUME LockInv, NEW p \in bound.procs, ProbeHolder(p) PROVE LockInv'
<1>0. LockType /\ Running /\ p \in Proc /\ pc[p] = "probe"
  BY DEF LockInv, LockType, ProbeHolder
<1>1. UNCHANGED <<lock, pid, seenPid, crashes, restarts, bound>>
  BY DEF ProbeHolder, lockVars, ghostVars
<1>2. CASE Alive(seenPid[p])
  BY <1>0, <1>1, <1>2, QuietStep DEF ProbeHolder, Label, LockType
<1>3. CASE ~Alive(seenPid[p])
  <2>1. pc' = [pc EXCEPT ![p] = "unlink"]
    BY <1>3 DEF ProbeHolder, Goto
  <2>2. \A q \in Proc : pc'[q] = IF q = p THEN "unlink" ELSE pc[q]
    BY <1>0, <2>1 DEF LockType
  <2>3. LockType'
    BY <1>0, <1>1, <2>1 DEF LockType, Label
  <2>4. Running'
    BY <1>0, <1>1, <2>2 DEF Running, LockType
  <2>5. SUFFICES ASSUME Calm' PROVE Holds' /\ LockNamed' /\ SeenNamed' /\ BreakerAlone'
    BY <2>3, <2>4 DEF LockInv
  <2>6. Calm /\ Holds /\ LockNamed /\ SeenNamed /\ BreakerAlone
    BY <1>1, <2>5 DEF Calm, AtMostTwo, LockInv
  <2>7. PICK r \in bound.procs : r # p /\ pc[r] = "down"
    BY <1>0, <1>3, <2>6 DEF SeenNamed, Named, Alive, LockType
  <2>8. AtMostTwo
    BY <1>0, <2>6, <2>7 DEF Calm, Running
  <2>9. \A q \in Proc : q # p => pc[q] = "down"
    BY <1>0, <2>7, <2>8 DEF AtMostTwo, Running
  <2>10. Holds'
    BY <1>1, <2>2, <2>6 DEF Holds, Critical
  <2>11. LockNamed'
    BY <1>0, <1>1, <2>2, <2>6 DEF LockNamed, Named, LockType
  <2>12. SeenNamed'
    BY <2>2, <2>9 DEF SeenNamed
  <2>13. BreakerAlone'
    BY <2>2, <2>9 DEF BreakerAlone
  <2> QED BY <2>10, <2>11, <2>12, <2>13
<1> QED BY <1>2, <1>3

(* The lockfile disappears while no other process is in the section.       *)
LEMMA UnlinkedInv ==
    ASSUME LockInv, NEW p \in Proc, pc[p] # "down", NEW l \in {"create", "idle"},
           lock' = NoLock, Goto(p, l), UNCHANGED <<pid, seenPid, crashes, restarts, bound>>,
           Calm => \A q \in Proc : q # p => ~Critical(q)
    PROVE  LockInv'
<1>0. LockType /\ Running
  BY DEF LockInv
<1>1. pc' = [pc EXCEPT ![p] = l]
  BY DEF Goto
<1>2. \A q \in Proc : pc'[q] = IF q = p THEN l ELSE pc[q]
  BY <1>0, <1>1 DEF LockType
<1>3. LockType'
  BY <1>0, <1>1 DEF LockType, Label, NoLock
<1>4. Running'
  BY <1>0, <1>2 DEF Running, LockType
<1>5. SUFFICES ASSUME Calm' PROVE Holds' /\ LockNamed' /\ SeenNamed' /\ BreakerAlone'
  BY <1>3, <1>4 DEF LockInv
<1>6. Calm /\ SeenNamed /\ BreakerAlone
  BY <1>5 DEF Calm, AtMostTwo, LockInv
<1>7. Holds'
  BY <1>2, <1>6 DEF Holds, Critical
<1>8. LockNamed'
  BY MarkersAreNoNames DEF LockNamed, NoLock
<1>9. SeenNamed'
  BY <1>0, <1>2, <1>6 DEF SeenNamed, Named, LockType
<1>10. BreakerAlone'
  BY <1>2, <1>6 DEF BreakerAlone
<1> QED BY <1>7, <1>8, <1>9, <1>10

(* Removing the lock file, as a breaker or as the holder.                  *)
LEMMA UnlinkInv ==
    ASSUME LockInv, NEW p \in bound.procs, UnlinkStale(p) \/ ReleaseLock(p) PROVE LockInv'
<1>0. p \in Proc /\ pc[p] # "down"
  BY DEF LockInv, LockType, UnlinkStale, ReleaseLock
<1>1. CASE UnlinkStale(p)
  <2>1. Calm => \A q \in Proc : q # p => ~Critical(q)
    BY <1>0, <1>1 DEF LockInv, BreakerAlone, Critical, UnlinkStale
  <2> QED BY <1>0, <1>1, <2>1, UnlinkedInv DEF UnlinkStale, ghostVars
<1>2. CASE ReleaseLock(p)
  <2>1. Calm => \A q \in Proc : q # p => ~Critical(q)
    BY <1>0, <1>2 DEF LockInv, Holds, Critical, ReleaseLock
  <2> QED BY <1>0, <1>2, <2>1, UnlinkedInv DEF ReleaseLock, lockVars
<1> QED BY <1>1, <1>2

(* A process that comes back was down, so something had crashed.           *)
LEMMA RestartInv == ASSUME LockInv, NEW p \in bound.procs, Restart(p) PROVE LockInv'
<1>0. LockType /\ Running /\ p \in Proc /\ pc[p] = "down"
  BY DEF LockInv, LockType, Restart
<1>1. PICK i \in Pid : ~Alive(i) /\ pid' = [pid EXCEPT ![p] = i]
  BY DEF Restart
<1>2. /\ pc' = [pc EXCEPT ![p] = "idle"] /\ restarts' = restarts + 1
      /\ UNCHANGED <<lock, seenPid, crashes, bound>>
  BY DEF Restart, Goto, lockVars
<1>3. LockType'
  BY <1>0, <1>1, <1>2 DEF LockType, Label
<1>4. Running'
  BY <1>0, <1>1, <1>2, MarkersAreNoNames DEF Running, LockType, Alive, NoPid
<1>5. ~Calm'
  BY <1>0, <1>2 DEF Calm, Running, LockType
<1> QED BY <1>3, <1>4, <1>5 DEF LockInv

(* Processes die where they are; their lockfile may stay.                  *)
LEMMA DownInv ==
    ASSUME LockInv, NEW P \in SUBSET Proc, Down(P), crashes' = crashes + 1,
           UNCHANGED <<restarts, bound>>, lock' \in {lock, NoLock},
           lock' = NoLock => lock = NoLock \/ P = Proc
    PROVE  LockInv'
<1>0. LockType /\ Running
  BY DEF LockInv
<1>1. /\ \A q \in Proc : pc'[q] = IF q \in P THEN "down" ELSE pc[q]
      /\ \A q \in Proc : pid'[q] = IF q \in P THEN NoPid ELSE pid[q]
      /\ \A q \in Proc : seenPid'[q] = IF q \in P THEN NoPid ELSE seenPid[q]
      /\ crashes' # 0
  BY <1>0 DEF Down, LockType
<1>2. LockType'
  BY <1>0 DEF LockType, Down, Label, NoLock
<1>3. Running'
  BY <1>0, <1>1, <1>2 DEF Running, LockType
<1>4. SUFFICES ASSUME Calm' PROVE Holds' /\ LockNamed' /\ SeenNamed' /\ BreakerAlone'
  BY <1>2, <1>3 DEF LockInv
<1>5. Holds /\ LockNamed /\ SeenNamed /\ BreakerAlone
  BY <1>1, <1>4 DEF Calm, AtMostTwo, LockInv
<1>6. Holds'
  BY <1>1, <1>5 DEF Holds, Critical
<1>7. LockNamed'
  BY <1>0, <1>1, <1>5, MarkersAreNoNames DEF LockNamed, Named, LockType, NoLock
<1>8. SeenNamed'
  BY <1>0, <1>1, <1>5 DEF SeenNamed, Named, LockType
<1>9. BreakerAlone'
  BY <1>1, <1>5 DEF BreakerAlone
<1> QED BY <1>6, <1>7, <1>8, <1>9

(* The lock invariant is inductive, with races in it.                      *)
LEMMA LockNext == LockInv /\ [Next]_vars => LockInv'
<1> SUFFICES ASSUME LockInv, [Next]_vars PROVE LockInv'
  OBVIOUS
<1>0. LockType /\ bound.procs \subseteq Proc /\ seenPid \in [Proc -> Pid \cup {NoPid}]
  BY DEF LockInv, LockType
<1>1. ASSUME NEW p \in bound.procs, Step(p) PROVE LockInv'
  <2>1. CASE CreateLock(p)
    BY <2>1, CreateInv
  <2>2. CASE WritePid(p)
    BY <2>2, WritePidInv
  <2>3. CASE ReadLockPid(p)
    BY <2>3, ReadInv
  <2>4. CASE ProbeHolder(p)
    BY <2>4, ProbeInv
  <2>5. CASE UnlinkStale(p) \/ ReleaseLock(p)
    BY <2>5, UnlinkInv
  <2>6. CASE SpinWait(p)
    BY <1>0, <2>6, QuietStep DEF SpinWait, Label, lockVars, ghostVars
  <2>7. CASE LockTimeout(p)
    BY <1>0, <2>7, QuietStep DEF LockTimeout, Label, lockVars, ghostVars
  <2>8. CASE DetectExternalAdvance(p)
    <3>1. PICK l \in {"releaseErr", "repair", "write"} : Goto(p, l)
      BY <2>8 DEF DetectExternalAdvance
    <3> QED BY <1>0, <2>8, <3>1, QuietStep
            DEF DetectExternalAdvance, Label, Critical, lockVars, ghostVars
  <2>9. CASE RepairNewline(p)
    BY <1>0, <2>9, QuietStep DEF RepairNewline, Label, Critical, lockVars, ghostVars
  <2>10. CASE WriteSome(p)
    BY <2>10, LockStutter DEF WriteSome, lockVars, ghostVars
  <2>11. CASE Commit(p)
    BY <1>0, <2>11, QuietStep DEF Commit, Label, Critical, lockVars, ghostVars
  <2> QED BY <1>1, <2>1, <2>2, <2>3, <2>4, <2>5, <2>6, <2>7, <2>8, <2>9, <2>10, <2>11 DEF Step
<1>2. ASSUME NEW p \in bound.procs, PidFails(p) \/ WriteFails(p) PROVE LockInv'
  BY <1>0, <1>2, QuietStep DEF PidFails, WriteFails, Label, Critical, lockVars
<1>3. ASSUME NEW p \in bound.procs, Restart(p) PROVE LockInv'
  BY <1>3, RestartInv
<1>4. ASSUME NEW p \in bound.procs, Reopen(p) PROVE LockInv'
  BY <1>4, LockStutter DEF Reopen, lockVars, ghostVars
<1>5. ASSUME NEW p \in bound.procs, Crash(p) PROVE LockInv'
  BY <1>0, <1>5, DownInv DEF Crash
<1>6. ASSUME NEW p \in bound.procs, NEW s, NEW n, NEW expected, BeginAppend(p, s, n, expected)
      PROVE  LockInv'
  BY <1>0, <1>6, QuietStep DEF BeginAppend, Label
<1>7. CASE PowerLoss
  BY <1>7, DownInv DEF PowerLoss
<1>8. CASE UNCHANGED vars
  BY <1>8, LockStutter DEF vars
<1> QED BY <1>1, <1>2, <1>3, <1>4, <1>5, <1>6, <1>7, <1>8 DEF Next

(* In those cases only one process holds the lock.                         *)
LEMMA Exclusive == ASSUME LockInv, Calm \/ Alone PROVE MutualExclusion
<1> SUFFICES ASSUME NEW p \in Proc, NEW q \in Proc, Critical(p), Critical(q) PROVE p = q
  BY DEF MutualExclusion
<1>1. CASE Calm
  BY <1>1 DEF LockInv, Holds
<1>2. CASE Alone
  BY <1>2 DEF LockInv, Running, Critical, Alone
<1> QED BY <1>1, <1>2

(* The lockfile excludes, for any number of processes as long as none has  *)
(* crashed, for two of them when one dies at any step, and for one that    *)
(* crashes and restarts as often as it likes.  With a third process, or a  *)
(* crashed one that came back, it does not: two of them can break the same *)
(* stale lock.                                                             *)
THEOREM LockCorrect == Spec => [](Calm \/ Alone => MutualExclusion)
<1>1. LockInv => (Calm \/ Alone => MutualExclusion)
  BY Exclusive
<1> QED BY <1>1, LockInit, LockNext, PTL DEF Spec

-----------------------------------------------------------------------------
(* The size check.  The file is compared with the size the instance knows  *)
(* once, when the lock is taken; what makes that enough is that nobody     *)
(* else writes until it is released.                                       *)

Written(p) == Len(Lines(batch[p])) - Len(out[p])

Current(p) ==
    /\ pc[p] = "repair" => Len(file) = store[p].knownFileSize
    /\ pc[p] = "write" => Len(file) = store[p].knownFileSize + Written(p)
    /\ pc[p] = "releaseOk" => Len(file) = store[p].knownFileSize

(* Every cell the writer has not seen is one it has written itself, down   *)
(* to the moment it has committed to memory.                               *)
WriterIsCurrent == \A p \in Proc : Current(p)

StoreFields == {"globalLog", "nextGlobalPosition", "lastHash", "knownFileSize",
                "needsTrailingNewline"}

WriteType ==
    /\ IsSequence(file) /\ synced \in 0..Len(file)
    /\ DOMAIN store = Proc /\ DOMAIN batch = Proc /\ DOMAIN out = Proc
    /\ \A p \in Proc :
          /\ IsSequence(batch[p]) /\ IsSequence(out[p])
          /\ DOMAIN store[p] = StoreFields /\ store[p].knownFileSize \in Nat

(* However the writers interleave, an instance never knows more of the     *)
(* file than there is, and before its first write it has all of it to do.  *)
Known(p) ==
    /\ store[p].knownFileSize <= Len(file)
    /\ pc[p] = "write" => store[p].knownFileSize + Written(p) <= Len(file)
    /\ pc[p] = "repair" => out[p] = Lines(batch[p])

WriteInv ==
    /\ WriteType
    /\ \A p \in Proc : Known(p)
    /\ Calm \/ Alone => WriterIsCurrent

(* The bytes of a batch are a sequence.                                    *)
LEMMA LinesType == ASSUME NEW events, IsSequence(events) PROVE IsSequence(Lines(events))
<1> DEFINE n == Len(events)
           S == UNION {{Cells(events[i])[1], Cells(events[i])[2], NL} : i \in 1..n}
           seqs == [i \in 1..n |-> Cells(events[i])]
<1>1. n \in Nat
  BY DEF IsSequence
<1>2. ASSUME NEW i \in 1..n PROVE Cells(events[i]) \in Seq(S)
  <2> DEFINE x == [half |-> "a", rec |-> events[i]]
             y == [half |-> "b", rec |-> events[i]]
  <2>1. Cells(events[i]) = <<x, y, NL>>
    BY DEF Cells
  <2>2. Cells(events[i])[1] = x /\ Cells(events[i])[2] = y
    BY <2>1
  <2>3. x \in S /\ y \in S /\ NL \in S
    BY <2>2
  <2> HIDE DEF x, y, S
  <2> QED BY <2>1, <2>3
<1> HIDE DEF S, n
<1>3. seqs \in Seq(Seq(S))
  BY <1>1, <1>2
<1>4. Lines(events) = FlattenSeq(seqs)
  BY DEF Lines, n
<1> HIDE DEF seqs
<1> QED BY <1>3, <1>4, FlattenType, SequenceIntro

(* A step of p that keeps the claims about p keeps those about the others: *)
(* it leaves them alone, and writes only when none of them is writing.     *)
LEMMA WriterStep ==
    ASSUME LockInv, WriteInv, WriteType', NEW p \in Proc,
           Calm' \/ Alone' => Calm \/ Alone,
           \A q \in Proc : q # p => /\ pc'[q] = pc[q] /\ batch'[q] = batch[q]
                                    /\ out'[q] = out[q] /\ store'[q] = store[q],
           Len(file') >= Len(file), Len(file') = Len(file) \/ Critical(p),
           Known(p)', Calm \/ Alone => Current(p)'
    PROVE  WriteInv'
<1>1. ASSUME NEW q \in Proc, q # p PROVE Known(q)' /\ Written(q)' = Written(q)
  <2>1. /\ Known(q) /\ Len(file) \in Nat /\ Len(file') \in Nat
        /\ store[q].knownFileSize \in Nat
        /\ Len(out[q]) \in Nat /\ Len(Lines(batch[q])) \in Nat
    BY LinesType, SequenceOps DEF WriteInv, WriteType
  <2>2. /\ pc'[q] = pc[q] /\ batch'[q] = batch[q] /\ out'[q] = out[q]
        /\ store'[q] = store[q]
    BY <1>1
  <2>3. Written(q)' = Written(q)
    BY <2>2 DEF Written
  <2>4. Written(q) \in Int
    BY <2>1 DEF Written
  <2>5. /\ store'[q].knownFileSize <= Len(file')
        /\ pc'[q] = "write" => store'[q].knownFileSize + Written(q) <= Len(file')
    BY <2>1, <2>2, <2>4 DEF Known
  <2>6. pc'[q] = "repair" => out'[q] = Lines(batch'[q])
    BY <2>1, <2>2 DEF Known
  <2> QED BY <2>3, <2>5, <2>6 DEF Known
<1>2. ASSUME NEW q \in Proc, q # p, Calm \/ Alone PROVE Current(q)'
  <2>1. Current(q)
    BY <1>2 DEF WriteInv, WriterIsCurrent
  <2>2. CASE Len(file') = Len(file)
    BY <1>1, <1>2, <2>1, <2>2 DEF Current, Written
  <2>3. CASE Critical(p)
    <3>1. ~Critical(q)
      BY <1>2, <2>3, Exclusive DEF MutualExclusion
    <3> QED BY <1>2, <3>1 DEF Critical, Current
  <2> QED BY <2>2, <2>3
<1>3. \A q \in Proc : Known(q)'
  BY <1>1
<1>4. Calm' \/ Alone' => WriterIsCurrent'
  BY <1>2 DEF WriterIsCurrent
<1> QED BY <1>3, <1>4 DEF WriteInv

(* What the lock protocol does with everything but the instances.          *)
LEMMA CalmBefore == LockInv /\ [Next]_vars => (Calm' \/ Alone' => Calm \/ Alone)
<1> SUFFICES ASSUME LockInv, [Next]_vars, Calm' \/ Alone' PROVE Calm \/ Alone
  OBVIOUS
<1>1. bound' = bound
  BY DEF Next, Step, CreateLock, WritePid, ReadLockPid, ProbeHolder, UnlinkStale, SpinWait,
         LockTimeout, DetectExternalAdvance, RepairNewline, WriteSome, Commit, ReleaseLock,
         PidFails, WriteFails, Restart, Reopen, Crash, BeginAppend, PowerLoss, ghostVars, vars
<1>2. crashes' \in {crashes, crashes + 1} /\ restarts' \in {restarts, restarts + 1}
  BY DEF Next, Step, CreateLock, WritePid, ReadLockPid, ProbeHolder, UnlinkStale, SpinWait,
         LockTimeout, DetectExternalAdvance, RepairNewline, WriteSome, Commit, ReleaseLock,
         PidFails, WriteFails, Restart, Reopen, Crash, BeginAppend, PowerLoss, ghostVars, vars
<1> QED BY <1>1, <1>2 DEF Calm, Alone, AtMostTwo, LockInv, LockType

(* What a load remembers of the file it read.                              *)
LEMMA LoadedFacts ==
    ASSUME NEW f, IsSequence(f)
    PROVE  /\ DOMAIN _loadFromFile(f) = StoreFields
           /\ _loadFromFile(f).knownFileSize = Len(f) /\ Len(f) \in Nat
BY SequenceOps DEF _loadFromFile, StoreFields

(* The write invariant holds initially.                                    *)
LEMMA WriteInit == Init => WriteInv
<1> SUFFICES ASSUME Init PROVE WriteInv
  OBVIOUS
<1>1. /\ file = <<>> /\ synced = 0
      /\ store = [p \in Proc |-> _loadFromFile(<<>>)]
      /\ batch = [p \in Proc |-> <<>>] /\ out = [p \in Proc |-> <<>>]
      /\ \A p \in Proc : pc[p] \in {"idle", "down"}
  BY DEF Init
<1>2. WriteType
  BY <1>1, LoadedFacts, EmptyIsSequence DEF WriteType
<1>3. \A p \in Proc : Known(p) /\ Current(p)
  BY <1>1, LoadedFacts, EmptyIsSequence DEF Known, Current
<1> QED BY <1>2, <1>3 DEF WriteInv, WriterIsCurrent

(* Steps of p outside the writing: the file and the instances stay.        *)
LEMMA QuietWriter ==
    ASSUME LockInv, WriteInv, [Next]_vars, NEW p \in Proc, NEW l,
           l \notin {"repair", "write", "releaseOk"}, Goto(p, l),
           file' = file, synced' = synced, store' = store, DOMAIN out' = Proc, DOMAIN batch' = Proc,
           \A q \in Proc : q # p => batch'[q] = batch[q] /\ out'[q] = out[q],
           IsSequence(batch'[p]), IsSequence(out'[p])
    PROVE  WriteInv'
<1>1. \A q \in Proc : pc'[q] = IF q = p THEN l ELSE pc[q]
  BY DEF Goto, LockInv, LockType
<1>2. WriteType'
  BY DEF WriteInv, WriteType
<1>3. Known(p)' /\ Current(p)'
  BY <1>1 DEF Known, Current, WriteInv
<1>4. Len(file') \in Nat /\ Len(file') = Len(file)
  BY SequenceOps DEF WriteInv, WriteType
<1> QED BY <1>1, <1>2, <1>3, <1>4, CalmBefore, WriterStep

(* Constructing an instance: it knows the file as it is.                   *)
LEMMA LoadWriter ==
    ASSUME LockInv, WriteInv, [Next]_vars, NEW p \in Proc, Restart(p) \/ Reopen(p)
    PROVE  WriteInv'
<1>1. /\ store' = [store EXCEPT ![p] = _loadFromFile(file)]
      /\ UNCHANGED <<file, synced, batch, out>>
      /\ pc' = [pc EXCEPT ![p] = "idle"] \/ (pc[p] = "idle" /\ pc' = pc)
  BY DEF Restart, Reopen, Load, Goto
<1>2. \A q \in Proc : pc'[q] = IF q = p THEN "idle" ELSE pc[q]
  BY <1>1 DEF LockInv, LockType
<1>3. /\ \A q \in Proc : store'[q] = IF q = p THEN _loadFromFile(file) ELSE store[q]
      /\ DOMAIN store' = Proc
  BY <1>1 DEF WriteInv, WriteType
<1>4. DOMAIN _loadFromFile(file) = StoreFields /\ _loadFromFile(file).knownFileSize = Len(file)
      /\ Len(file) \in Nat
  BY LoadedFacts DEF WriteInv, WriteType
<1>5. WriteType'
  BY <1>1, <1>3, <1>4 DEF WriteInv, WriteType
<1>6. Known(p)' /\ Current(p)'
  BY <1>1, <1>2, <1>3, <1>4 DEF Known, Current
<1> QED BY <1>1, <1>2, <1>3, <1>4, <1>5, <1>6, CalmBefore, WriterStep

(* The size check passes only when the instance knows all of the file.     *)
LEMMA DetectWriter ==
    ASSUME LockInv, WriteInv, [Next]_vars, NEW p \in Proc, DetectExternalAdvance(p)
    PROVE  WriteInv'
<1>0. UNCHANGED <<file, synced, store, batch>>
  BY DEF DetectExternalAdvance
<1>1. /\ IsSequence(batch[p]) /\ IsSequence(out[p]) /\ IsSequence(Lines(batch[p]))
      /\ Len(file) \in Nat /\ Len(Lines(batch[p])) \in Nat
      /\ store[p].knownFileSize \in Nat /\ store[p].knownFileSize <= Len(file)
  BY LinesType, SequenceOps DEF WriteInv, WriteType, Known
<1>2. CASE Len(file) > store[p].knownFileSize
  <2>1. Goto(p, "releaseErr") /\ out' = out
    BY <1>2 DEF DetectExternalAdvance
  <2> QED BY <1>0, <1>1, <2>1, QuietWriter DEF WriteInv, WriteType
<1>3. CASE ~(Len(file) > store[p].knownFileSize)
  <2>1. PICK l \in {"repair", "write"} : Goto(p, l)
    BY <1>3 DEF DetectExternalAdvance
  <2>2. out' = [out EXCEPT ![p] = Lines(batch[p])]
    BY <1>3 DEF DetectExternalAdvance
  <2>3. \A q \in Proc : pc'[q] = IF q = p THEN l ELSE pc[q]
    BY <2>1 DEF Goto, LockInv, LockType
  <2>4. /\ \A q \in Proc : out'[q] = IF q = p THEN Lines(batch[p]) ELSE out[q]
        /\ DOMAIN out' = Proc
    BY <2>2 DEF WriteInv, WriteType
  <2>5. WriteType'
    BY <1>0, <1>1, <2>4 DEF WriteInv, WriteType
  <2>6. Written(p)' = 0
    BY <1>0, <1>1, <2>4 DEF Written
  <2>7. Len(file) = store[p].knownFileSize
    BY <1>1, <1>3
  <2>8. Known(p)' /\ Current(p)'
    BY <1>0, <1>1, <2>3, <2>4, <2>6, <2>7 DEF Known, Current
  <2> QED BY <1>0, <1>1, <2>3, <2>4, <2>5, <2>8, CalmBefore, WriterStep
<1> QED BY <1>2, <1>3

(* A lone newline goes to the file, and to the known size.                 *)
LEMMA AppendLength ==
    ASSUME NEW s, IsSequence(s), NEW x
    PROVE  IsSequence(Append(s, x)) /\ Len(Append(s, x)) = Len(s) + 1
<1> DEFINE S == {s[i] : i \in DOMAIN s} \cup {x}
<1>1. s \in Seq(S) /\ x \in S
  BY DEF IsSequence
<1> HIDE DEF S
<1>2. Append(s, x) \in Seq(S) /\ Len(Append(s, x)) = Len(s) + 1
  BY <1>1
<1> QED BY <1>2, SequenceIntro

(* A missing newline is repaired under the lock, by a process whose view is*)
(* current.                                                                *)
LEMMA RepairWriter ==
    ASSUME LockInv, WriteInv, [Next]_vars, NEW p \in Proc, RepairNewline(p)
    PROVE  WriteInv'
<1>1. /\ file' = Append(file, NL) /\ synced' = Len(file') /\ UNCHANGED <<batch, out>>
      /\ store' = [store EXCEPT ![p].knownFileSize = @ + 1, ![p].needsTrailingNewline = FALSE]
      /\ pc' = [pc EXCEPT ![p] = "write"] /\ pc[p] = "repair"
  BY DEF RepairNewline, Goto
<1>2. \A q \in Proc : pc'[q] = IF q = p THEN "write" ELSE pc[q]
  BY <1>1 DEF LockInv, LockType
<1>3. /\ Len(file) \in Nat /\ IsSequence(file') /\ Len(file') = Len(file) + 1
      /\ store[p].knownFileSize \in Nat /\ out[p] = Lines(batch[p])
      /\ Len(out[p]) \in Nat
  BY <1>1, AppendLength, SequenceOps DEF WriteInv, WriteType, Known
<1>4. /\ DOMAIN store' = Proc
      /\ \A q \in Proc : q # p => store'[q] = store[q]
      /\ DOMAIN store'[p] = StoreFields
      /\ store'[p].knownFileSize = store[p].knownFileSize + 1
  BY <1>1 DEF WriteInv, WriteType, StoreFields
<1>5. WriteType'
  BY <1>1, <1>3, <1>4 DEF WriteInv, WriteType
<1>6. Written(p)' = 0
  BY <1>1, <1>3 DEF Written
<1>7. Known(p)'
  BY <1>1, <1>2, <1>3, <1>4, <1>6 DEF Known, WriteInv
<1>8. ASSUME Calm \/ Alone PROVE Current(p)'
  <2>1. Len(file) = store[p].knownFileSize
    BY <1>1, <1>8 DEF WriteInv, WriterIsCurrent, Current
  <2> QED BY <1>2, <1>3, <1>4, <1>6, <2>1 DEF Current
<1>9. Critical(p)
  BY <1>1 DEF Critical
<1> QED BY <1>1, <1>2, <1>3, <1>4, <1>5, <1>7, <1>8, <1>9, CalmBefore, WriterStep

(* Some cells leave the buffer and reach the file.                         *)
LEMMA WriteSomeWriter ==
    ASSUME LockInv, WriteInv, [Next]_vars, NEW p \in Proc, WriteSome(p)
    PROVE  WriteInv'
<1>1. PICK k \in 1..Len(out[p]) :
         /\ file' = file \o SubSeq(out[p], 1, k)
         /\ out' = [out EXCEPT ![p] = SubSeq(@, k + 1, Len(@))]
  BY DEF WriteSome
<1>2. UNCHANGED <<synced, pc, store, batch>> /\ pc[p] = "write"
  BY DEF WriteSome
<1>3. IsSequence(file) /\ IsSequence(out[p]) /\ IsSequence(batch[p]) /\ Len(out[p]) \in Nat
      /\ k \in 0..Len(out[p])
  BY SequenceOps DEF WriteInv, WriteType
<1>4. /\ IsSequence(SubSeq(out[p], 1, k)) /\ Len(SubSeq(out[p], 1, k)) = k
      /\ IsSequence(SubSeq(out[p], k + 1, Len(out[p])))
      /\ Len(SubSeq(out[p], k + 1, Len(out[p]))) = Len(out[p]) - k
  BY <1>3, SequenceOps
<1>5. /\ IsSequence(file') /\ Len(file') = Len(file) + k
      /\ Len(file) \in Nat /\ Len(Lines(batch[p])) \in Nat
      /\ store[p].knownFileSize \in Nat
  BY <1>1, <1>3, <1>4, LinesType, SequenceOps DEF WriteInv, WriteType
<1>6. /\ DOMAIN out' = Proc
      /\ \A q \in Proc : out'[q] = IF q = p THEN SubSeq(out[p], k + 1, Len(out[p])) ELSE out[q]
  BY <1>1 DEF WriteInv, WriteType
<1>7. WriteType'
  <2>1. synced \in 0..Len(file')
    BY <1>3, <1>5 DEF WriteInv, WriteType
  <2> QED BY <1>2, <1>4, <1>5, <1>6, <2>1 DEF WriteInv, WriteType
<1>8. Written(p)' = Written(p) + k /\ Written(p) \in Int
  <2>1. Len(out'[p]) = Len(out[p]) - k /\ batch'[p] = batch[p]
    BY <1>2, <1>4, <1>6
  <2>2. Len(Lines(batch'[p])) = Len(Lines(batch[p]))
    BY <2>1
  <2>3. /\ Written(p)' = Len(Lines(batch'[p])) - Len(out'[p])
        /\ Written(p) = Len(Lines(batch[p])) - Len(out[p])
    BY DEF Written
  <2> QED BY <1>3, <1>5, <2>1, <2>2, <2>3
<1>9. Known(p)'
  BY <1>2, <1>3, <1>5, <1>8 DEF Known, WriteInv
<1>10. ASSUME Calm \/ Alone PROVE Current(p)'
  <2>1. Len(file) = store[p].knownFileSize + Written(p)
    BY <1>2, <1>10 DEF WriteInv, WriterIsCurrent, Current
  <2> QED BY <1>2, <1>3, <1>5, <1>8, <2>1 DEF Current
<1>11. Critical(p) /\ Len(file') >= Len(file)
  BY <1>2, <1>3, <1>5 DEF Critical
<1> QED BY <1>2, <1>6, <1>7, <1>9, <1>10, <1>11, CalmBefore, WriterStep

(* The batch is committed to memory, and the known size with it.           *)
LEMMA CommitWriter ==
    ASSUME LockInv, WriteInv, [Next]_vars, NEW p \in Proc, Commit(p)
    PROVE  WriteInv'
<1> DEFINE n == Len(Lines(batch[p]))
<1>1. /\ UNCHANGED <<file, batch, out>> /\ synced' = Len(file)
      /\ pc[p] = "write" /\ out[p] = <<>>
      /\ pc' = [pc EXCEPT ![p] = "releaseOk"]
      /\ store' = [store EXCEPT
             ![p].globalLog = @ \o batch[p],
             ![p].nextGlobalPosition = @ + Len(batch[p]),
             ![p].lastHash = batch[p][Len(batch[p])].hash,
             ![p].knownFileSize = @ + n]
  BY DEF Commit, Goto
<1>2. \A q \in Proc : pc'[q] = IF q = p THEN "releaseOk" ELSE pc[q]
  BY <1>1 DEF LockInv, LockType
<1>3. n \in Nat /\ Len(file) \in Nat /\ store[p].knownFileSize \in Nat
  BY LinesType, SequenceOps DEF WriteInv, WriteType
<1>4. Written(p) = n
  BY <1>1, <1>3, EmptyIsSequence DEF Written
<1> HIDE DEF n
<1>5. /\ DOMAIN store' = Proc
      /\ \A q \in Proc : q # p => store'[q] = store[q]
      /\ DOMAIN store'[p] = StoreFields
      /\ store'[p].knownFileSize = store[p].knownFileSize + n
  BY <1>1 DEF WriteInv, WriteType, StoreFields
<1>6. WriteType'
  BY <1>1, <1>3, <1>5 DEF WriteInv, WriteType
<1>7. Known(p)'
  BY <1>1, <1>2, <1>3, <1>4, <1>5 DEF Known, WriteInv
<1>8. ASSUME Calm \/ Alone PROVE Current(p)'
  <2>1. Len(file) = store[p].knownFileSize + n
    BY <1>1, <1>4, <1>8 DEF WriteInv, WriterIsCurrent, Current
  <2> QED BY <1>1, <1>2, <1>5, <2>1 DEF Current
<1> QED BY <1>1, <1>2, <1>3, <1>5, <1>6, <1>7, <1>8, CalmBefore, WriterStep

(* A failed write leaves cells the instance does not know of.              *)
LEMMA FailWriter ==
    ASSUME LockInv, WriteInv, [Next]_vars, NEW p \in Proc, WriteFails(p)
    PROVE  WriteInv'
<1>1. /\ UNCHANGED <<synced, store, batch>> /\ out' = [out EXCEPT ![p] = <<>>]
      /\ file' = file \/ file' = Append(file, NL)
      /\ pc' = [pc EXCEPT ![p] = "releaseErr"] /\ pc[p] \in {"repair", "write"}
  BY DEF WriteFails, Goto
<1>2. \A q \in Proc : pc'[q] = IF q = p THEN "releaseErr" ELSE pc[q]
  BY <1>1 DEF LockInv, LockType
<1>3. /\ Len(file) \in Nat /\ IsSequence(file')
      /\ Len(file') = Len(file) \/ Len(file') = Len(file) + 1
      /\ store[p].knownFileSize \in Nat
  <2>1. IsSequence(file) /\ Len(file) \in Nat /\ store[p].knownFileSize \in Nat
    BY SequenceOps DEF WriteInv, WriteType
  <2>2. CASE file' = file
    BY <2>1, <2>2
  <2>3. CASE file' = Append(file, NL)
    BY <2>1, <2>3, AppendLength
  <2> QED BY <1>1, <2>1, <2>2, <2>3
<1>4. DOMAIN out' = Proc /\ \A q \in Proc : out'[q] = IF q = p THEN <<>> ELSE out[q]
  BY <1>1 DEF WriteInv, WriteType
<1>5. WriteType'
  <2>1. synced \in 0..Len(file')
    BY <1>3 DEF WriteInv, WriteType
  <2> QED BY <1>1, <1>3, <1>4, <2>1, EmptyIsSequence DEF WriteInv, WriteType
<1>6. Known(p)' /\ Current(p)'
  BY <1>1, <1>2, <1>3 DEF Known, Current, WriteInv
<1>7. Critical(p) /\ Len(file') >= Len(file)
  BY <1>1, <1>3 DEF Critical
<1> QED BY <1>1, <1>2, <1>4, <1>5, <1>6, <1>7, CalmBefore, WriterStep

(* The dead know nothing, and only when all are dead the file may shrink.  *)
LEMMA DownWriter ==
    ASSUME LockInv, WriteInv, [Next]_vars, NEW P \in SUBSET Proc, Down(P),
           IsSequence(file'), synced' \in 0..Len(file'), file' = file \/ P = Proc
    PROVE  WriteInv'
<1>1. \A q \in Proc :
         /\ pc'[q] = IF q \in P THEN "down" ELSE pc[q]
         /\ store'[q] = IF q \in P THEN _loadFromFile(<<>>) ELSE store[q]
         /\ batch'[q] = IF q \in P THEN <<>> ELSE batch[q]
         /\ out'[q] = IF q \in P THEN <<>> ELSE out[q]
  BY DEF Down
<1>2. DOMAIN store' = Proc /\ DOMAIN batch' = Proc /\ DOMAIN out' = Proc
  BY DEF Down
<1>3. /\ DOMAIN _loadFromFile(<<>>) = StoreFields /\ _loadFromFile(<<>>).knownFileSize = 0
      /\ Len(file') \in Nat
  BY LoadedFacts, EmptyIsSequence, SequenceOps
<1>4. WriteType'
  BY <1>1, <1>2, <1>3, EmptyIsSequence DEF WriteInv, WriteType
<1>5. ASSUME NEW q \in Proc PROVE Known(q)'
  <2>1. CASE q \in P
    BY <1>1, <1>3, <2>1 DEF Known
  <2>2. CASE q \notin P
    <3>1. /\ file' = file /\ pc'[q] = pc[q] /\ store'[q] = store[q]
          /\ batch'[q] = batch[q] /\ out'[q] = out[q] /\ Known(q)
      BY <1>1, <2>2 DEF WriteInv
    <3> QED BY <3>1 DEF Known, Written
  <2> QED BY <2>1, <2>2
<1>6. ASSUME NEW q \in Proc, Calm \/ Alone PROVE Current(q)'
  <2>1. CASE q \in P
    BY <1>1, <2>1 DEF Current
  <2>2. CASE q \notin P
    <3>1. /\ file' = file /\ pc'[q] = pc[q] /\ store'[q] = store[q]
          /\ batch'[q] = batch[q] /\ out'[q] = out[q] /\ Current(q)
      BY <1>1, <1>6, <2>2 DEF WriteInv, WriterIsCurrent
    <3> QED BY <3>1 DEF Current, Written
  <2> QED BY <2>1, <2>2
<1> QED BY <1>4, <1>5, <1>6, CalmBefore DEF WriteInv, WriterIsCurrent

(* append() gives up before it writes, or returns.                         *)
LEMMA EndWriter ==
    ASSUME LockInv, WriteInv, [Next]_vars, NEW p \in Proc,
           LockTimeout(p) \/ PidFails(p) \/ ReleaseLock(p)
    PROVE  WriteInv'
<1>0. /\ DOMAIN out = Proc /\ DOMAIN batch = Proc
      /\ \A q \in Proc : IsSequence(batch[q]) /\ IsSequence(out[q])
  BY DEF WriteInv, WriteType
<1>1. /\ UNCHANGED <<file, synced, store, out>> /\ Goto(p, "idle")
      /\ batch' = [batch EXCEPT ![p] = <<>>]
  BY DEF LockTimeout, PidFails, ReleaseLock
<1>2. DOMAIN batch' = Proc /\ \A q \in Proc : batch'[q] = IF q = p THEN <<>> ELSE batch[q]
  BY <1>0, <1>1
<1> QED BY <1>0, <1>1, <1>2, EmptyIsSequence, QuietWriter

(* The write invariant is inductive, given the lock invariant.             *)
LEMMA WriteNext == LockInv /\ WriteInv /\ [Next]_vars => WriteInv'
<1> SUFFICES ASSUME LockInv, WriteInv, [Next]_vars PROVE WriteInv'
  OBVIOUS
<1>0. /\ bound.procs \subseteq Proc /\ DOMAIN out = Proc /\ DOMAIN batch = Proc
      /\ \A q \in Proc : IsSequence(batch[q]) /\ IsSequence(out[q])
  BY DEF LockInv, LockType, WriteInv, WriteType
<1>1. ASSUME NEW p \in bound.procs, Step(p) PROVE WriteInv'
  <2>0. p \in Proc
    BY <1>0
  <2>1. CASE CreateLock(p) \/ WritePid(p) \/ ReadLockPid(p) \/ ProbeHolder(p) \/ UnlinkStale(p)
             \/ SpinWait(p)
    <3>1. UNCHANGED <<file, synced, store, batch, out>>
      BY <2>1 DEF CreateLock, WritePid, ReadLockPid, ProbeHolder, UnlinkStale, SpinWait
    <3>2. PICK l \in {"created", "spin", "readPid", "locked", "probe", "unlink", "create"} : Goto(p, l)
      BY <2>1 DEF CreateLock, WritePid, ReadLockPid, ProbeHolder, UnlinkStale, SpinWait
    <3> QED BY <1>0, <2>0, <3>1, <3>2, QuietWriter
  <2>2. CASE LockTimeout(p) \/ ReleaseLock(p)
    BY <1>0, <2>0, <2>2, EndWriter
  <2>3. CASE DetectExternalAdvance(p)
    BY <2>0, <2>3, DetectWriter
  <2>4. CASE RepairNewline(p)
    BY <2>0, <2>4, RepairWriter
  <2>5. CASE WriteSome(p)
    BY <2>0, <2>5, WriteSomeWriter
  <2>6. CASE Commit(p)
    BY <2>0, <2>6, CommitWriter
  <2> QED BY <1>1, <2>1, <2>2, <2>3, <2>4, <2>5, <2>6 DEF Step
<1>2. ASSUME NEW p \in bound.procs, PidFails(p) \/ WriteFails(p) PROVE WriteInv'
  BY <1>0, <1>2, EndWriter, FailWriter
<1>3. ASSUME NEW p \in bound.procs, Restart(p) \/ Reopen(p) PROVE WriteInv'
  BY <1>0, <1>3, LoadWriter
<1>4. ASSUME NEW p \in bound.procs, Crash(p) PROVE WriteInv'
  <2>1. Down({p}) /\ UNCHANGED <<file, synced>> /\ {p} \in SUBSET Proc
    BY <1>0, <1>4 DEF Crash
  <2>2. IsSequence(file) /\ synced \in 0..Len(file)
    BY DEF WriteInv, WriteType
  <2> QED BY <2>1, <2>2, DownWriter
<1>5. CASE PowerLoss
  <2>1. PICK n \in synced..Len(file) : file' = SubSeq(file, 1, n)
    BY <1>5 DEF PowerLoss
  <2>2. n \in 0..Len(file) /\ IsSequence(file)
    BY <2>1, SequenceOps DEF WriteInv, WriteType
  <2>3. IsSequence(file') /\ Len(file') \in Nat
    BY <2>1, <2>2, SequenceOps
  <2>4. Down(Proc) /\ synced' = Len(file')
    BY <1>5 DEF PowerLoss
  <2> QED BY <2>3, <2>4, DownWriter
<1>6. ASSUME NEW p \in bound.procs, NEW s, NEW n \in 1..bound.batch, NEW expected,
             BeginAppend(p, s, n, expected)
      PROVE  WriteInv'
  <2>1. /\ UNCHANGED <<file, synced, store, out>> /\ Goto(p, "create")
        /\ batch' = [batch EXCEPT ![p] = Chained(s, store[p], nextId, n)]
    BY <1>6 DEF BeginAppend
  <2>2. IsSequence(Chained(s, store[p], nextId, n))
    <3>1. PICK f : Chained(s, store[p], nextId, n) = [i \in 1..n |-> f[i]]
      <4> DEFINE c == Chained(s, store[p], nextId, n)
      <4>1. c = [i \in 1..n |-> c[i]]
        BY DEF Chained
      <4> HIDE DEF c
      <4> QED BY <4>1 DEF c
    <3> DEFINE S == {f[i] : i \in 1..n}
    <3>2. [i \in 1..n |-> f[i]] \in [1..n -> S] /\ n \in Nat
      OBVIOUS
    <3> HIDE DEF S
    <3>3. [i \in 1..n |-> f[i]] \in Seq(S)
      BY <3>2
    <3> QED BY <3>1, <3>3, SequenceIntro
  <2>3. /\ DOMAIN batch' = Proc
        /\ \A q \in Proc : batch'[q] = IF q = p THEN Chained(s, store[p], nextId, n) ELSE batch[q]
    BY <1>0, <2>1
  <2> QED BY <1>0, <2>1, <2>2, <2>3, QuietWriter
<1>7. CASE UNCHANGED vars
  <2>1. /\ UNCHANGED <<file, synced, store, batch, out, pc>>
        /\ Calm' \/ Alone' => Calm \/ Alone
    BY <1>7, CalmBefore DEF vars
  <2> QED BY <2>1 DEF WriteInv, WriteType, Known, Current, WriterIsCurrent, Written
<1> QED BY <1>1, <1>2, <1>3, <1>4, <1>5, <1>6, <1>7 DEF Next

(* Whenever the lock excludes, the size check made when it was taken is    *)
(* still true when the write starts, while it goes on and when the batch   *)
(* is committed to memory: no record of another process can have come      *)
(* between, whatever failed writes, crashes and power failures left.       *)
THEOREM WriterCorrect == Spec => [](Calm \/ Alone => WriterIsCurrent)
<1>1. WriteInv => (Calm \/ Alone => WriterIsCurrent)
  BY DEF WriteInv
<1> QED BY <1>1, LockInit, LockNext, WriteInit, WriteNext, PTL DEF Spec

-----------------------------------------------------------------------------
(* The file implements the event store.  Lines are only ever added behind  *)
(* a newline, so what parses in the file is found by looking back; what an *)
(* instance remembers is what a prefix of the file holds, and the batch it *)
(* writes continues that.                                                  *)

Fits(f, i) ==
    \/ f[i].half = "nl"
    \/ f[i].half = "a" /\ (i = 1 \/ f[i - 1].half = "nl")
    \/ f[i].half = "b" /\ i > 1 /\ f[i - 1].half = "a" /\ f[i - 1].rec = f[i].rec

Structured(f) == IsSequence(f) /\ \A i \in 1..Len(f) : Fits(f, i)

Continues(records, e) ==
    /\ e.ev.globalPosition = Len(records) + 1
    /\ e.ev.version = streamVersion(records, e.ev.streamId) + 1
    /\ e.previousHash = HashBefore(records, Len(records) + 1)
    /\ e.hash = computeEventHash(e.ev, e.previousHash)

(* Every record continues the ones before it; and from the n-th on.        *)
ChainedFrom(records, n) ==
    \A k \in 1..Len(records) : k > n => Continues(SubSeq(records, 1, k - 1), records[k])

Seen(p) == SubSeq(file, 1, store[p].knownFileSize)

LastHash(records) == IF records = <<>> THEN GENESIS_HASH ELSE records[Len(records)].hash

(* The state of an instance that remembers the chain g.                    *)
Remembers(st, g) ==
    st.globalLog = g /\ st.nextGlobalPosition = Len(g) + 1 /\ st.lastHash = LastHash(g)

(* An instance remembers the prefix of the file that it has seen.          *)
Matches(p) ==
    /\ Remembers(store[p], EventsIn(Seen(p)))
    /\ store[p].needsTrailingNewline = Unterminated(Seen(p))

Preparing == {"create", "created", "readPid", "probe", "unlink", "spin", "locked", "repair", "write"}

(* Its batch continues what it remembers.                                  *)
Prepared(p) ==
    pc[p] \in Preparing =>
        /\ batch[p] # <<>>
        /\ ChainedFrom(store[p].globalLog \o batch[p], Len(store[p].globalLog))

(* While it writes, the file is what it has seen and a part of the batch.  *)
Writing(p) ==
    pc[p] = "write" =>
        /\ ~Unterminated(Seen(p))
        /\ file = Seen(p) \o SubSeq(Lines(batch[p]), 1, Written(p))
        /\ out[p] = SubSeq(Lines(batch[p]), Written(p) + 1, Len(Lines(batch[p])))

(* What was acknowledged, or is about to be, has reached the disk.         *)
Durable ==
    /\ acked \subseteq Range(EventsIn(SubSeq(file, 1, synced)))
    /\ \A p \in Proc : pc[p] = "releaseOk" =>
          Range(batch[p]) \subseteq Range(EventsIn(SubSeq(file, 1, synced)))

FileInv ==
    /\ Structured(file) /\ ChainedFrom(EventsIn(file), 0)
    /\ \A p \in Proc : Matches(p) /\ Prepared(p) /\ Writing(p)
    /\ Durable

DiskInv == Calm \/ Alone => FileInv

Starts(f) == Select([i \in 1..Len(f) |-> i], {i \in 1..Len(f) : ParsesAt(f, i)})

(* Where the lines start that parse.                                       *)
LEMMA StartsFacts ==
    ASSUME NEW f, IsSequence(f)
    PROVE  /\ Len(f) \in Nat /\ Starts(f) \in Seq(1..Len(f))
           /\ EventsIn(f) = [j \in 1..Len(Starts(f)) |-> f[Starts(f)[j]].rec]
<1> DEFINE n == Len(f)
           T == {i \in 1..n : ParsesAt(f, i)}
           id == [i \in 1..n |-> i]
<1>1. n \in Nat
  BY SequenceOps
<1>2. EventsIn(f) = [j \in 1..Len(Starts(f)) |-> f[Starts(f)[j]].rec]
  BY DEF EventsIn, Starts
<1>3. Starts(f) = Select(id, T)
  BY DEF Starts
<1> HIDE DEF n, T
<1>4. id \in Seq(1..n)
  BY <1>1
<1> HIDE DEF id
<1>5. Starts(f) \in Seq(1..n)
  BY <1>3, <1>4, SelectPlaces
<1> QED BY <1>1, <1>2, <1>5 DEF n

(* What a load finds, as a sequence.                                       *)
LEMMA EventsFacts ==
    ASSUME NEW f, IsSequence(f)
    PROVE  /\ IsSequence(EventsIn(f)) /\ Len(EventsIn(f)) = Len(Starts(f)) /\ Len(Starts(f)) \in Nat
           /\ \A j \in 1..Len(Starts(f)) : EventsIn(f)[j] = f[Starts(f)[j]].rec
<1> DEFINE m == Len(Starts(f))
           g == [j \in 1..m |-> f[Starts(f)[j]].rec]
<1>1. m \in Nat /\ EventsIn(f) = g
  BY StartsFacts
<1> HIDE DEF m
<1>2. g = [j \in 1..m |-> g[j]]
  OBVIOUS
<1>3. \A j \in 1..m : g[j] = f[Starts(f)[j]].rec
  OBVIOUS
<1> HIDE DEF g
<1>4. IsSequence([j \in 1..m |-> g[j]]) /\ Len([j \in 1..m |-> g[j]]) = m
  BY <1>1, TabledSequence
<1> QED BY <1>1, <1>2, <1>3, <1>4 DEF m

(* In a file made of lines, a line parses when its second half is there.   *)
LEMMA ParsesBefore ==
    ASSUME NEW f, Structured(f), NEW i \in 1..Len(f)
    PROVE  ParsesAt(f, i) <=> i < Len(f) /\ f[i + 1].half = "b"
<1>1. Len(f) \in Nat /\ \A j \in 1..Len(f) : Fits(f, j)
  BY SequenceOps DEF Structured
<1>2. ASSUME ParsesAt(f, i) PROVE i < Len(f) /\ f[i + 1].half = "b"
  BY <1>1, <1>2 DEF ParsesAt
<1>3. ASSUME i < Len(f), f[i + 1].half = "b" PROVE ParsesAt(f, i)
  <2>1. Fits(f, i) /\ Fits(f, i + 1) /\ (i + 1) - 1 = i
    BY <1>1, <1>3
  <2>2. f[i].half = "a" /\ (i > 1 => f[i - 1].half = "nl")
    BY <1>3, <2>1 DEF Fits
  <2>3. ASSUME i + 2 <= Len(f) PROVE f[i + 2].half = "nl"
    <3>1. Fits(f, i + 2) /\ (i + 2) - 1 = i + 1 /\ i + 2 # 1
      BY <1>1, <2>3
    <3> QED BY <1>3, <3>1 DEF Fits
  <2> QED BY <1>1, <1>3, <2>2, <2>3 DEF ParsesAt
<1> QED BY <1>2, <1>3

(* One cell more: the second half of a record completes a line.            *)
LEMMA StartsAppend ==
    ASSUME NEW f, NEW c, Structured(f), Structured(Append(f, c))
    PROVE  Starts(Append(f, c)) = IF c.half = "b" THEN Append(Starts(f), Len(f)) ELSE Starts(f)
<1> DEFINE n == Len(f)
           g == Append(f, c)
           T == {i \in 1..n : ParsesAt(f, i)}
           U == {i \in 1..(n + 1) : ParsesAt(g, i)}
<1>0. IsSequence(f)
  BY DEF Structured
<1>1. n \in Nat /\ Len(g) = n + 1 /\ g[n + 1] = c /\ \A i \in 1..n : g[i] = f[i]
  BY <1>0, AppendElements
<1>2. Starts(f) = Select(Upto(n), T) /\ Starts(g) = Select(Upto(n + 1), U)
  BY <1>1 DEF Starts, Upto
<1>3. /\ \A i \in 1..n : i \in T <=> i < n /\ f[i + 1].half = "b"
      /\ \A i \in 1..(n + 1) : i \in U <=> i < n + 1 /\ g[i + 1].half = "b"
  <2> HIDE DEF g
  <2> QED BY <1>1, ParsesBefore DEF g
<1> HIDE DEF g, T, U, n
<1>4. n + 1 \notin U /\ n \notin T /\ (n > 0 => (n \in U <=> c.half = "b"))
  <2>1. n + 1 \in 1..(n + 1) /\ n \in Int /\ (n > 0 => n \in 1..n /\ n \in 1..(n + 1))
    BY <1>1
  <2>2. n + 1 \notin U
    BY <1>3, <2>1
  <2>3. n > 0 => n \notin T /\ (n \in U <=> c.half = "b")
    BY <1>1, <1>3, <2>1
  <2>4. n = 0 => n \notin T
    BY DEF T
  <2> QED BY <1>1, <2>2, <2>3, <2>4
<1>5. ASSUME NEW i \in 1..n, i # n PROVE i \in U <=> i \in T
  <2>1. i \in 1..(n + 1) /\ i < n /\ i < n + 1 /\ i + 1 \in 1..n
    BY <1>1, <1>5
  <2>2. g[i + 1] = f[i + 1]
    BY <1>1, <2>1
  <2> QED BY <1>3, <2>1, <2>2
<1>6. Select(Upto(n + 1), U) = Select(Upto(n), U)
  BY <1>1, <1>4, SelectUpto
<1>7. CASE c.half # "b"
  <2>1. \A i \in 1..n : i \in U <=> i \in T
    BY <1>1, <1>4, <1>5, <1>7
  <2>2. Select(Upto(n), U) = Select(Upto(n), T)
    BY <1>1, <2>1, SelectUpto
  <2> QED BY <1>2, <1>6, <1>7, <2>2 DEF g
<1>8. CASE c.half = "b"
  <2>1. n > 0
    <3>1. Fits(g, n + 1)
      BY <1>1 DEF Structured, g
    <3> QED BY <1>1, <1>8, <3>1 DEF Fits
  <2>2. PICK m \in Nat : m + 1 = n
    <3>1. n - 1 \in Nat /\ (n - 1) + 1 = n
      BY <1>1, <2>1
    <3> QED BY <3>1
  <2>3. \A i \in 1..m : i \in U <=> i \in T
    <3>1. \A i \in 1..m : i \in 1..n /\ i # n
      BY <1>1, <2>2
    <3> QED BY <1>5, <3>1
  <2>4. n \in U /\ n \notin T
    BY <1>4, <1>8, <2>1
  <2>5. Select(Upto(m), U) = Select(Upto(m), T)
    BY <2>3, SelectUpto
  <2>6. /\ Select(Upto(m + 1), U) = Append(Select(Upto(m), U), m + 1)
        /\ Select(Upto(m + 1), T) = Select(Upto(m), T)
    BY <2>2, <2>4, SelectUpto
  <2> QED BY <1>2, <1>6, <1>8, <2>2, <2>5, <2>6 DEF g, n
<1> QED BY <1>7, <1>8

(* A load finds one record more after the second half of its line.         *)
LEMMA EventsAppend ==
    ASSUME NEW f, NEW c, Structured(f), Structured(Append(f, c))
    PROVE  EventsIn(Append(f, c)) = IF c.half = "b" THEN Append(EventsIn(f), c.rec) ELSE EventsIn(f)
<1> DEFINE g == Append(f, c)
           n == Len(f)
           m == Len(Starts(f))
<1>0. IsSequence(f) /\ IsSequence(g)
  BY DEF Structured
<1>1. n \in Nat /\ Len(g) = n + 1 /\ g[n + 1] = c /\ \A i \in 1..n : g[i] = f[i]
  BY <1>0, AppendElements
<1>2. Starts(f) \in Seq(1..n) /\ Starts(g) = IF c.half = "b" THEN Append(Starts(f), n) ELSE Starts(f)
  BY <1>0, StartsFacts, StartsAppend
<1> HIDE DEF g
<1>3. /\ IsSequence(EventsIn(f)) /\ Len(EventsIn(f)) = m /\ m \in Nat
      /\ \A j \in 1..m : EventsIn(f)[j] = f[Starts(f)[j]].rec
      /\ IsSequence(EventsIn(g)) /\ Len(EventsIn(g)) = Len(Starts(g))
      /\ \A j \in 1..Len(Starts(g)) : EventsIn(g)[j] = g[Starts(g)[j]].rec
  BY <1>0, EventsFacts
<1>4. \A j \in 1..m : Starts(f)[j] \in 1..n /\ g[Starts(f)[j]] = f[Starts(f)[j]]
  <2> HIDE DEF n
  <2>0. \A S : \A t \in Seq(S) : \A j \in 1..Len(t) : t[j] \in S
    OBVIOUS
  <2>1. \A j \in 1..m : Starts(f)[j] \in 1..n
    BY <1>2, <2>0
  <2> QED BY <1>1, <2>1
<1>5. CASE c.half # "b"
  <2>1. Starts(g) = Starts(f)
    BY <1>2, <1>5
  <2>2. Len(EventsIn(g)) = Len(EventsIn(f)) /\ \A j \in 1..Len(EventsIn(g)) : EventsIn(g)[j] = EventsIn(f)[j]
    BY <1>3, <1>4, <2>1
  <2>3. EventsIn(g) = EventsIn(f)
    BY <1>3, <2>2, SameSequence
  <2> QED BY <1>5, <2>3 DEF g
<1>6. CASE c.half = "b"
  <2> DEFINE t == Append(EventsIn(f), c.rec)
  <2>0. n > 0 /\ f[n].rec = c.rec
    <3>1. Fits(g, n + 1) /\ (n + 1) - 1 = n
      BY <1>1 DEF Structured, g
    <3>2. n > 0 /\ g[n].rec = c.rec
      BY <1>1, <1>6, <3>1 DEF Fits
    <3> QED BY <1>1, <3>2
  <2>1. Starts(g) = Append(Starts(f), n)
    BY <1>2, <1>6
  <2>2. Len(Starts(g)) = m + 1 /\ Starts(g)[m + 1] = n /\ \A j \in 1..m : Starts(g)[j] = Starts(f)[j]
    <3>1. n \in 1..n
      BY <1>1, <2>0
    <3> QED BY <1>2, <2>1, <3>1
  <2>3. /\ IsSequence(t) /\ Len(t) = m + 1 /\ t[m + 1] = c.rec
        /\ \A j \in 1..m : t[j] = EventsIn(f)[j]
    BY <1>3, AppendElements
  <2> HIDE DEF t
  <2>4. \A j \in 1..(m + 1) : EventsIn(g)[j] = t[j]
    <3>1. EventsIn(g)[m + 1] = g[n].rec /\ g[n] = f[n]
      BY <1>1, <1>3, <2>0, <2>2
    <3>2. \A j \in 1..m : EventsIn(g)[j] = t[j]
      BY <1>3, <1>4, <2>2, <2>3
    <3> QED BY <1>3, <2>0, <2>3, <3>1, <3>2
  <2>5. EventsIn(g) = t
    BY <1>3, <2>2, <2>3, <2>4, SameSequence
  <2> QED BY <1>6, <2>5 DEF g, t
<1> QED BY <1>5, <1>6

Begins(s, t) == Len(s) <= Len(t) /\ \A i \in 1..Len(s) : s[i] = t[i]

(* A prefix of a file made of lines is one.                                *)
LEMMA StructuredPrefix ==
    ASSUME NEW f, Structured(f), NEW n \in 0..Len(f)
    PROVE  Structured(SubSeq(f, 1, n))
<1> DEFINE g == SubSeq(f, 1, n)
<1>1. IsSequence(g) /\ Len(g) = n /\ n \in Nat /\ Len(f) \in Nat /\ \A i \in 1..n : g[i] = f[i]
  BY PrefixElements DEF Structured
<1> HIDE DEF g
<1>2. ASSUME NEW i \in 1..n PROVE Fits(g, i)
  <2>1. Fits(f, i) /\ g[i] = f[i] /\ (i > 1 => g[i - 1] = f[i - 1]) /\ (i > 1 \/ i = 1)
    BY <1>1 DEF Structured
  <2> QED BY <2>1 DEF Fits
<1> QED BY <1>1, <1>2 DEF Structured, g

(* A load of a prefix of the file finds a prefix of the records.           *)
LEMMA EventsPrefix ==
    ASSUME NEW f, Structured(f), NEW n \in 0..Len(f)
    PROVE  Begins(EventsIn(SubSeq(f, 1, n)), EventsIn(f))
<1> DEFINE g(k) == SubSeq(f, 1, k)
           P == {k \in Nat : n + k <= Len(f) => Begins(EventsIn(g(n)), EventsIn(g(n + k)))}
<1>0. IsSequence(f) /\ Len(f) \in Nat /\ n \in Nat
  BY SequenceOps DEF Structured
<1>1. ASSUME NEW k \in Nat, \A j \in Nat : j < k => j \in P PROVE k \in P
  <2>1. SUFFICES ASSUME n + k <= Len(f) PROVE Begins(EventsIn(g(n)), EventsIn(g(n + k)))
    OBVIOUS
  <2>2. CASE k = 0
    <3>1. n + k = n /\ Len(EventsIn(g(n))) \in Nat
      BY <1>0, <2>2, StructuredPrefix, EventsFacts DEF Structured
    <3> QED BY <3>1 DEF Begins
  <2>3. CASE k # 0
    <3> DEFINE m == n + (k - 1)
    <3>1. k - 1 \in Nat /\ k - 1 < k /\ m \in Nat /\ m + 1 = n + k /\ m < Len(f)
          /\ m \in 0..Len(f) /\ n + k \in 0..Len(f)
      BY <1>0, <2>1, <2>3
    <3>2. Begins(EventsIn(g(n)), EventsIn(g(m)))
      BY <1>1, <3>1
    <3> HIDE DEF m
    <3>3. g(m + 1) = Append(g(m), f[m + 1])
      BY <1>0, <3>1, PrefixGrows
    <3>4. Structured(g(m)) /\ Structured(g(m + 1))
      BY <3>1, StructuredPrefix
    <3> DEFINE E == EventsIn(g(m))
               c == f[m + 1]
    <3>5. EventsIn(g(m + 1)) = IF c.half = "b" THEN Append(E, c.rec) ELSE E
      BY <3>3, <3>4, EventsAppend
    <3>6. IsSequence(E)
      BY <3>4, EventsFacts DEF Structured
    <3>7. Len(EventsIn(g(n))) \in Nat
      BY <1>0, StructuredPrefix, EventsFacts DEF Structured
    <3> HIDE DEF g, E
    <3>8. Begins(EventsIn(g(n)), E) /\ E = EventsIn(g(m))
      BY <3>2 DEF E
    <3>9. CASE c.half = "b"
      <4>1. EventsIn(g(n + k)) = Append(E, c.rec)
        BY <3>1, <3>5, <3>9
      <4>2. Len(Append(E, c.rec)) = Len(E) + 1 /\ Len(E) \in Nat /\ \A i \in 1..Len(E) : Append(E, c.rec)[i] = E[i]
        BY <3>6, AppendElements
      <4> QED BY <3>7, <3>8, <4>1, <4>2 DEF Begins
    <3>10. CASE c.half # "b"
      BY <3>1, <3>5, <3>8, <3>10
    <3> QED BY <3>9, <3>10
  <2> QED BY <2>2, <2>3
<1> HIDE DEF P
<1>2. P = Nat
  <2>1. P \in SUBSET Nat
    BY DEF P
  <2> QED BY <1>1, <2>1, NoLeastExceptionIsNone
<1>3. PICK d \in Nat : n + d = Len(f)
  <2>1. Len(f) - n \in Nat /\ n + (Len(f) - n) = Len(f)
    BY <1>0
  <2> QED BY <2>1
<1>4. Begins(EventsIn(g(n)), EventsIn(g(Len(f))))
  <2>1. d \in P
    BY <1>2, <1>3
  <2>2. n + d <= Len(f)
    BY <1>0, <1>3
  <2> HIDE DEF g
  <2>3. Begins(EventsIn(g(n)), EventsIn(g(n + d)))
    BY <2>1, <2>2 DEF P
  <2> QED BY <1>3, <2>3
<1>5. g(Len(f)) = f
  <2>1. Len(f) \in 0..Len(f)
    BY <1>0
  <2>2. IsSequence(g(Len(f))) /\ Len(g(Len(f))) = Len(f) /\ \A i \in 1..Len(f) : g(Len(f))[i] = f[i]
    BY <1>0, <2>1, PrefixElements
  <2> HIDE DEF g
  <2> QED BY <1>0, <2>2, SameSequence
<1> QED BY <1>4, <1>5

CellA(r) == [half |-> "a", rec |-> r]
CellB(r) == [half |-> "b", rec |-> r]

(* The cells of the lines of a batch.                                      *)
LEMMA LinesCells ==
    ASSUME NEW events, IsSequence(events)
    PROVE  /\ IsSequence(Lines(events)) /\ Len(events) \in Nat /\ Len(Lines(events)) = 3 * Len(events)
           /\ \A k \in 1..Len(events) :
                 /\ Lines(events)[3 * k - 2] = CellA(events[k])
                 /\ Lines(events)[3 * k - 1] = CellB(events[k])
                 /\ Lines(events)[3 * k] = NL
<1> DEFINE n == Len(events)
           S == {CellA(events[i]) : i \in 1..n} \cup {CellB(events[i]) : i \in 1..n} \cup {NL}
           seqs == [i \in 1..n |-> Cells(events[i])]
<1>1. n \in Nat
  BY SequenceOps
<1>2. ASSUME NEW i \in 1..n
      PROVE  /\ Cells(events[i]) \in Seq(S) /\ Len(Cells(events[i])) = 3
             /\ Cells(events[i])[1] = CellA(events[i]) /\ Cells(events[i])[2] = CellB(events[i])
             /\ Cells(events[i])[3] = NL
  <2> DEFINE x == CellA(events[i])
             y == CellB(events[i])
  <2>1. Cells(events[i]) = <<x, y, NL>>
    BY DEF Cells, CellA, CellB
  <2>2. x \in S /\ y \in S /\ NL \in S
    OBVIOUS
  <2> HIDE DEF x, y, S
  <2>3. Cells(events[i]) \in Seq(S) /\ Len(Cells(events[i])) = 3 /\ Cells(events[i])[1] = x
        /\ Cells(events[i])[2] = y /\ Cells(events[i])[3] = NL
    BY <2>1, <2>2
  <2> QED BY <2>3 DEF x, y
<1>3. Lines(events) = FlattenSeq(seqs)
  BY DEF Lines
<1> HIDE DEF S, n
<1>4. seqs \in Seq(Seq(S)) /\ Len(seqs) = n /\ \A i \in 1..n : seqs[i] = Cells(events[i])
  BY <1>1, <1>2
<1> HIDE DEF seqs
<1>5. CASE n = 0
  <2>1. seqs = <<>>
    BY <1>4, <1>5
  <2>2. Lines(events) = <<>>
    BY <1>3, <2>1 DEF FlattenSeq
  <2> QED BY <1>5, <2>2, EmptyIsSequence DEF n
<1>6. CASE n # 0
  <2>1. PICK c : /\ Flattens(c, seqs) /\ FlattenSeq(seqs) = c[n]
                 /\ \A k \in 1..n : c[k] \in Seq(S)
    BY <1>4, <1>6, FlattenSolved
  <2>2. \A k \in 1..n : c[k] = IF k = 1 THEN seqs[k] ELSE c[k - 1] \o seqs[k]
    BY <1>4, <2>1 DEF Flattens
  <2> DEFINE Right(s, m) == /\ Len(s) = 3 * m
                            /\ \A k \in 1..m : /\ s[3 * k - 2] = CellA(events[k])
                                               /\ s[3 * k - 1] = CellB(events[k])
                                               /\ s[3 * k] = NL
             P == {m \in Nat : m \in 1..n => Right(c[m], m)}
  <2>3. ASSUME NEW m \in Nat, \A j \in Nat : j < m => j \in P PROVE m \in P
    <3>1. SUFFICES ASSUME m \in 1..n PROVE Right(c[m], m)
      OBVIOUS
    <3>2. /\ seqs[m] \in Seq(S) /\ Len(seqs[m]) = 3
          /\ seqs[m][1] = CellA(events[m]) /\ seqs[m][2] = CellB(events[m]) /\ seqs[m][3] = NL
      BY <1>2, <1>4, <3>1
    <3>3. CASE m = 1
      <4>1. c[m] = seqs[m]
        BY <2>2, <3>1, <3>3
      <4>2. 3 * m - 2 = 1 /\ 3 * m - 1 = 2 /\ 3 * m = 3 /\ \A k \in 1..m : k = m
        BY <3>3
      <4> QED BY <3>2, <4>1, <4>2
    <3>4. CASE m # 1
      <4> DEFINE l == m - 1
                 a == c[l]
                 b == seqs[m]
      <4>1. l \in Nat /\ l < m /\ l \in 1..n /\ l + 1 = m
        BY <1>1, <3>1, <3>4
      <4>2. Right(a, l) /\ a \in Seq(S) /\ c[m] = a \o b
        BY <2>1, <2>2, <2>3, <3>1, <3>4, <4>1
      <4> HIDE DEF l, a, b
      <4>3. b \in Seq(S) /\ Len(b) = 3 /\ b[1] = CellA(events[m]) /\ b[2] = CellB(events[m]) /\ b[3] = NL
        BY <3>2 DEF b
      <4>4. /\ Len(a \o b) = Len(a) + Len(b) /\ Len(a) = 3 * l
            /\ \A i \in 1..Len(a) : (a \o b)[i] = a[i]
            /\ \A i \in 1..Len(b) : (a \o b)[Len(a) + i] = b[i]
        <5>1. IsSequence(a) /\ IsSequence(b)
          BY <4>2, <4>3, SequenceIntro
        <5>2. Len(a) = 3 * l
          BY <4>2
        <5> QED BY <5>1, <5>2, ConcatElements
      <4>5. /\ (a \o b)[3 * l + 1] = b[1] /\ (a \o b)[3 * l + 2] = b[2] /\ (a \o b)[3 * l + 3] = b[3]
            /\ Len(a \o b) = 3 * m
        BY <4>1, <4>3, <4>4
      <4>6. 3 * m - 2 = 3 * l + 1 /\ 3 * m - 1 = 3 * l + 2 /\ 3 * m = 3 * l + 3
        BY <4>1
      <4>7. ASSUME NEW k \in 1..m
            PROVE  /\ (a \o b)[3 * k - 2] = CellA(events[k])
                   /\ (a \o b)[3 * k - 1] = CellB(events[k])
                   /\ (a \o b)[3 * k] = NL
        <5>1. CASE k = m
          BY <4>3, <4>5, <4>6, <5>1
        <5>2. CASE k # m
          <6>1. /\ k \in 1..l /\ 3 * k - 2 \in 1..(3 * l) /\ 3 * k - 1 \in 1..(3 * l)
                /\ 3 * k \in 1..(3 * l)
            BY <4>1, <5>2
          <6> QED BY <4>2, <4>4, <6>1
        <5> QED BY <5>1, <5>2
      <4> QED BY <4>2, <4>5, <4>7
    <3> QED BY <3>3, <3>4
  <2> HIDE DEF P
  <2>4. P = Nat
    <3>1. P \in SUBSET Nat
      BY DEF P
    <3> QED BY <2>3, <3>1, NoLeastExceptionIsNone
  <2>5. Right(c[n], n)
    <3>1. n \in 1..n
      BY <1>1, <1>6
    <3> QED BY <1>1, <2>4, <3>1 DEF P
  <2>6. Lines(events) = c[n] /\ IsSequence(Lines(events))
    BY <1>3, <2>1, LinesType
  <2> QED BY <1>1, <2>5, <2>6 DEF n
<1> QED BY <1>5, <1>6

(* A cell may follow these cells.                                          *)
MayFollow(f, c) ==
    \/ c.half = "nl"
    \/ c.half = "a" /\ (Len(f) = 0 \/ f[Len(f)].half = "nl")
    \/ c.half = "b" /\ Len(f) > 0 /\ f[Len(f)].half = "a" /\ f[Len(f)].rec = c.rec

(* Such a cell leaves a file made of lines.                                *)
LEMMA StructuredAppend ==
    ASSUME NEW f, Structured(f), NEW c, MayFollow(f, c)
    PROVE  Structured(Append(f, c))
<1> DEFINE g == Append(f, c)
           n == Len(f)
<1>1. /\ IsSequence(g) /\ n \in Nat /\ Len(g) = n + 1 /\ g[n + 1] = c
      /\ \A i \in 1..n : g[i] = f[i] /\ Fits(f, i)
  BY AppendElements DEF Structured
<1> HIDE DEF g
<1>2. ASSUME NEW i \in 1..(n + 1) PROVE Fits(g, i)
  <2>1. CASE i \in 1..n
    <3>1. Fits(f, i) /\ g[i] = f[i] /\ (i > 1 => g[i - 1] = f[i - 1]) /\ (i > 1 \/ i = 1)
      BY <1>1, <2>1
    <3> QED BY <3>1 DEF Fits
  <2>2. CASE i = n + 1
    <3>1. (n + 1) - 1 = n /\ (n > 0 => g[n] = f[n]) /\ (n = 0 => n + 1 = 1) /\ (n > 0 => n + 1 > 1)
      BY <1>1
    <3>2. MayFollow(f, c) /\ g[n + 1] = c /\ (n = 0 \/ n > 0)
      BY <1>1
    <3> HIDE DEF n
    <3> QED BY <2>2, <3>1, <3>2 DEF Fits, MayFollow, n
  <2> QED BY <1>1, <2>1, <2>2
<1> QED BY <1>1, <1>2 DEF Structured, g

(* However much of a batch has reached a terminated file: it is made of    *)
(* lines, and a load finds the records whose second half is there.         *)
LEMMA EventsWritten ==
    ASSUME NEW base, Structured(base), ~Unterminated(base), NEW events, IsSequence(events),
           NEW w \in 0..(3 * Len(events))
    PROVE  /\ Structured(base \o SubSeq(Lines(events), 1, w))
           /\ \E m \in 0..Len(events) :
                 /\ 3 * m - 1 <= w /\ w <= 3 * m + 1
                 /\ EventsIn(base \o SubSeq(Lines(events), 1, w)) = EventsIn(base) \o SubSeq(events, 1, m)
<1> DEFINE L == Lines(events)
           n == Len(events)
           B == Len(base)
           E == EventsIn(base)
           F(k) == base \o SubSeq(L, 1, k)
           Found(k) == \E m \in 0..n : /\ 3 * m - 1 <= k /\ k <= 3 * m + 1
                                       /\ EventsIn(F(k)) = E \o SubSeq(events, 1, m)
           Good(k) == k <= 3 * n => Structured(F(k)) /\ Found(k)
           P == {k \in Nat : Good(k)}
<1>0. /\ IsSequence(base) /\ B \in Nat /\ n \in Nat /\ IsSequence(L) /\ Len(L) = 3 * n
      /\ IsSequence(E)
      /\ B > 0 => base[B].half = "nl"
  <2>1. IsSequence(base) /\ B \in Nat
    BY SequenceOps DEF Structured
  <2>2. B > 0 => base # <<>>
    BY EmptyIsSequence
  <2> QED BY <2>1, <2>2, LinesCells, EventsFacts DEF Unterminated
<1>1. \A k \in 1..n : L[3 * k - 2] = CellA(events[k]) /\ L[3 * k - 1] = CellB(events[k]) /\ L[3 * k] = NL
  BY LinesCells
<1> HIDE DEF L, E, B, n
<1>2. ASSUME NEW k \in Nat, k <= 3 * n
      PROVE  /\ IsSequence(F(k)) /\ Len(F(k)) = B + k
             /\ k = 0 => F(k) = base
             /\ k > 0 => F(k)[B + k] = L[k]
             /\ k < 3 * n => F(k + 1) = Append(F(k), L[k + 1])
  <2>1. k \in 0..Len(L)
    BY <1>0, <1>2
  <2> DEFINE t == SubSeq(L, 1, k)
  <2>2. IsSequence(t) /\ Len(t) = k /\ \A i \in 1..k : t[i] = L[i]
    BY <1>0, <2>1, PrefixElements
  <2>3. k < 3 * n => SubSeq(L, 1, k + 1) = Append(t, L[k + 1])
    BY <1>0, PrefixGrows
  <2>4. k = 0 => F(k) = base
    BY <1>0, ConcatNothing
  <2> HIDE DEF t
  <2>5. F(k) = base \o t
    BY DEF t
  <2>6. /\ IsSequence(base \o t) /\ Len(base \o t) = Len(base) + Len(t)
        /\ \A i \in 1..Len(t) : (base \o t)[Len(base) + i] = t[i]
    BY <1>0, <2>2, ConcatElements
  <2>7. base \o Append(t, L[k + 1]) = Append(base \o t, L[k + 1])
    BY <1>0, <2>2, ConcatAppend
  <2>8. k > 0 => k \in 1..k
    OBVIOUS
  <2> QED BY <2>2, <2>3, <2>4, <2>5, <2>6, <2>7, <2>8 DEF B
<1> HIDE DEF F
<1>3. Good(0)
  <2>1. F(0) = base /\ 0 \in Nat /\ 0 <= 3 * n
    BY <1>0, <1>2
  <2>2. 0 \in 0..n /\ 3 * 0 - 1 <= 0 /\ 0 <= 3 * 0 + 1 /\ E \o SubSeq(events, 1, 0) = E
    BY <1>0, ConcatNothing DEF n
  <2>3. EventsIn(F(0)) = E \o SubSeq(events, 1, 0)
    BY <2>1, <2>2 DEF E
  <2>4. Found(0)
    BY <2>2, <2>3
  <2> QED BY <2>1, <2>4
<1>4. ASSUME NEW k \in Nat, Good(k) PROVE Good(k + 1)
  <2>1. SUFFICES ASSUME k + 1 <= 3 * n PROVE Structured(F(k + 1)) /\ Found(k + 1)
    OBVIOUS
  <2>a. k < 3 * n /\ k <= 3 * n
    BY <1>0, <2>1
  <2>2. k \in Nat /\ k < 3 * n /\ k <= 3 * n /\ Structured(F(k)) /\ Found(k)
    BY <1>4, <2>a
  <2>3. PICK m \in 0..n : /\ 3 * m - 1 <= k /\ k <= 3 * m + 1
                          /\ EventsIn(F(k)) = E \o SubSeq(events, 1, m)
    BY <2>2
  <2> DEFINE c == L[k + 1]
  <2>4. /\ F(k + 1) = Append(F(k), c) /\ Len(F(k)) = B + k
        /\ k = 0 => F(k) = base
        /\ k > 0 => F(k)[B + k] = L[k]
    BY <1>2, <2>2
  <2>5. /\ k = 3 * m - 1 => m \in 1..n
        /\ k = 3 * m => m + 1 \in 1..n
        /\ k = 3 * m + 1 => m + 1 \in 1..n
        /\ k \in {3 * m - 1, 3 * m, 3 * m + 1}
        /\ m \in Nat
    BY <1>0, <2>1, <2>2, <2>3
  <2> HIDE DEF c
  <2>6. CASE k = 3 * m - 1
    <3>1. c = NL
      <4>1. k + 1 = 3 * m
        BY <2>5, <2>6
      <4> QED BY <1>1, <2>5, <2>6, <4>1 DEF c
    <3>2. MayFollow(F(k), c) /\ c.half # "b"
      BY <3>1 DEF MayFollow, NL
    <3>3. Structured(F(k + 1)) /\ EventsIn(F(k + 1)) = EventsIn(F(k))
      BY <2>2, <2>4, <3>2, StructuredAppend, EventsAppend
    <3>4. 3 * m - 1 <= k + 1 /\ k + 1 <= 3 * m + 1
      BY <2>5, <2>6
    <3> QED BY <2>3, <3>3, <3>4
  <2>7. CASE k = 3 * m
    <3>1. c = CellA(events[m + 1])
      <4>1. k + 1 = 3 * (m + 1) - 2
        BY <2>5, <2>7
      <4> QED BY <1>1, <2>5, <2>7, <4>1 DEF c
    <3>2. Len(F(k)) = 0 \/ F(k)[Len(F(k))].half = "nl"
      <4>1. CASE k = 0
        BY <1>0, <2>4, <4>1 DEF B
      <4>2. CASE k # 0
        <5>0. m \in 1..n /\ k > 0
          BY <1>0, <2>3, <2>2, <2>5, <2>7, <4>2
        <5>1. L[3 * m] = NL /\ F(k)[B + k] = L[k]
          BY <1>1, <2>4, <5>0
        <5> QED BY <2>4, <2>7, <5>1 DEF NL
      <4> QED BY <4>1, <4>2
    <3>3. MayFollow(F(k), c) /\ c.half # "b"
      BY <3>1, <3>2 DEF MayFollow, CellA
    <3>4. Structured(F(k + 1)) /\ EventsIn(F(k + 1)) = EventsIn(F(k))
      BY <2>2, <2>4, <3>3, StructuredAppend, EventsAppend
    <3>5. 3 * m - 1 <= k + 1 /\ k + 1 <= 3 * m + 1
      BY <2>5, <2>7
    <3> QED BY <2>3, <3>4, <3>5
  <2>8. CASE k = 3 * m + 1
    <3>1. c = CellB(events[m + 1]) /\ L[k] = CellA(events[m + 1])
      <4>1. k + 1 = 3 * (m + 1) - 1 /\ k = 3 * (m + 1) - 2
        BY <2>5, <2>8
      <4> QED BY <1>1, <2>5, <2>8, <4>1 DEF c
    <3>2. Len(F(k)) > 0 /\ F(k)[Len(F(k))] = L[k]
      BY <1>0, <2>2, <2>4, <2>5, <2>8
    <3>3. MayFollow(F(k), c) /\ c.half = "b" /\ c.rec = events[m + 1]
      BY <3>1, <3>2 DEF MayFollow, CellA, CellB
    <3>4. Structured(F(k + 1)) /\ EventsIn(F(k + 1)) = Append(EventsIn(F(k)), events[m + 1])
      BY <2>2, <2>4, <3>3, StructuredAppend, EventsAppend
    <3>5. SubSeq(events, 1, m + 1) = Append(SubSeq(events, 1, m), events[m + 1])
          /\ IsSequence(SubSeq(events, 1, m))
      <4>1. m < Len(events) /\ m \in 0..Len(events)
        BY <1>0, <2>5, <2>8 DEF n
      <4> QED BY <2>5, <4>1, PrefixGrows, PrefixElements
    <3>6. E \o SubSeq(events, 1, m + 1) = Append(E \o SubSeq(events, 1, m), events[m + 1])
      <4> DEFINE t == SubSeq(events, 1, m)
                 x == events[m + 1]
      <4> HIDE DEF t, x
      <4>1. SubSeq(events, 1, m + 1) = Append(t, x) /\ IsSequence(t)
        BY <3>5 DEF t, x
      <4>2. E \o Append(t, x) = Append(E \o t, x)
        BY <1>0, <4>1, ConcatAppend
      <4> QED BY <4>1, <4>2 DEF t, x
    <3>7. EventsIn(F(k + 1)) = E \o SubSeq(events, 1, m + 1)
      BY <2>3, <3>4, <3>6
    <3>8. m + 1 \in 0..n /\ 3 * (m + 1) - 1 <= k + 1 /\ k + 1 <= 3 * (m + 1) + 1
      BY <1>0, <2>5, <2>8
    <3>9. Found(k + 1)
      BY <3>7, <3>8
    <3> QED BY <3>4, <3>9
  <2> QED BY <2>5, <2>6, <2>7, <2>8
<1> HIDE DEF Good
<1>5. P = Nat
  <2>1. P \in SUBSET Nat
    OBVIOUS
  <2>2. ASSUME NEW k \in Nat, \A j \in Nat : j < k => j \in P PROVE k \in P
    <3>1. CASE k = 0
      BY <1>3, <3>1
    <3>2. CASE k # 0
      <4>1. k - 1 \in Nat /\ k - 1 < k /\ (k - 1) + 1 = k
        BY <3>2
      <4>2. Good(k - 1)
        BY <2>2, <4>1
      <4>3. Good((k - 1) + 1)
        BY <1>4, <4>1, <4>2
      <4> QED BY <4>1, <4>3
    <3> QED BY <3>1, <3>2
  <2> QED BY <2>1, <2>2, NoLeastExceptionIsNone
<1>6. w \in Nat /\ w <= 3 * n
  BY <1>0 DEF n
<1>7. Structured(F(w)) /\ Found(w)
  <2>1. Good(w)
    BY <1>5, <1>6
  <2> QED BY <1>6, <2>1 DEF Good
<1> QED BY <1>7 DEF F, L, E, n

-----------------------------------------------------------------------------
(* Chains                                                                  *)

(* A digest, and the genesis digest, are no absent field.                  *)
LEMMA DigestsArePresent ==
    GENESIS_HASH # NoHash /\ \A ev, h : computeEventHash(ev, h) # NoHash
<1>1. GENESIS_HASH # NoHash
  <2>1. Len(<<>>) = 0 /\ Len(<<"absent">>) = 1
    OBVIOUS
  <2> QED BY <2>1 DEF GENESIS_HASH, NoHash
<1>2. ASSUME NEW ev, NEW h PROVE computeEventHash(ev, h) # NoHash
  <2>1. Len(<<ev, h>>) = 2 /\ Len(<<"absent">>) = 1
    OBVIOUS
  <2>2. <<ev, h>> # <<"absent">>
    BY <2>1
  <2> QED BY <2>2 DEF computeEventHash, NoHash
<1> QED BY <1>1, <1>2

(* The digest a new record names is genesis or that of a hashed record,    *)
(* the last one when all are hashed.                                       *)
LEMMA HashBeforeFacts ==
    ASSUME NEW r, IsSequence(r)
    PROVE  /\ \/ HashBefore(r, Len(r) + 1) = GENESIS_HASH
              \/ \E j \in 1..Len(r) : Hashed(r[j]) /\ HashBefore(r, Len(r) + 1) = r[j].hash
           /\ (\A j \in 1..Len(r) : Hashed(r[j])) => HashBefore(r, Len(r) + 1) = LastHash(r)
<1> DEFINE n == Len(r)
           before == {j \in 1..n : Hashed(r[j])}
           l == CHOOSE j \in before : \A k \in before : k <= j
<1>1. n \in Nat /\ (n + 1) - 1 = n
  BY SequenceOps
<1>2. HashBefore(r, n + 1) = IF before = {} THEN GENESIS_HASH ELSE r[l].hash
  BY <1>1 DEF HashBefore
<1>3. CASE before = {}
  <2>1. HashBefore(r, n + 1) = GENESIS_HASH
    BY <1>2, <1>3
  <2>2. ASSUME \A j \in 1..n : Hashed(r[j]) PROVE r = <<>>
    <3>1. n = 0
      BY <1>1, <1>3, <2>2
    <3>2. Len(<<>>) = 0 /\ IsSequence(<<>>)
      BY EmptyIsSequence
    <3> QED BY <3>1, <3>2, SameSequence
  <2> QED BY <2>1, <2>2 DEF LastHash
<1>4. CASE before # {}
  <2>1. \E j \in before : \A k \in before : k <= j
    <3>1. before \in SUBSET Nat /\ \A k \in before : k <= n
      BY <1>1
    <3> HIDE DEF before
    <3> QED BY <1>1, <1>4, <3>1, GreatestNatural
  <2>2. l \in before /\ \A k \in before : k <= l
    BY <2>1
  <2>3. HashBefore(r, n + 1) = r[l].hash
    BY <1>2, <1>4
  <2> HIDE DEF l
  <2>4. ASSUME \A j \in 1..n : Hashed(r[j]) PROVE r[l].hash = LastHash(r)
    <3>1. l \in 1..n
      BY <2>2
    <3>2. n \in before
      BY <1>1, <2>4, <3>1
    <3>3. l = n
      <4>1. n <= l
        BY <2>2, <3>2
      <4>2. n \in Int /\ l \in Int /\ l <= n
        BY <1>1, <3>1
      <4> HIDE DEF n
      <4> QED BY <4>1, <4>2
    <3>4. r # <<>>
      BY <1>1, <3>1, EmptyIsSequence
    <3> QED BY <3>3, <3>4 DEF LastHash
  <2> QED BY <2>2, <2>3, <2>4
<1> QED BY <1>3, <1>4

(* A record that continues others is hashed.                               *)
LEMMA ContinuesHashed ==
    ASSUME NEW r, IsSequence(r), NEW e, Continues(r, e)
    PROVE  Hashed(e)
<1>1. e.hash # NoHash
  BY DigestsArePresent DEF Continues
<1>2. HashBefore(r, Len(r) + 1) # NoHash
  BY HashBeforeFacts, DigestsArePresent DEF Hashed
<1> QED BY <1>1, <1>2 DEF Continues, Hashed

(* In a chain all records are hashed and numbered by their places.         *)
LEMMA ChainFacts ==
    ASSUME NEW r, IsSequence(r), ChainedFrom(r, 0)
    PROVE  /\ Len(r) \in Nat
           /\ \A k \in 1..Len(r) : Hashed(r[k]) /\ r[k].ev.globalPosition = k
           /\ HashBefore(r, Len(r) + 1) = LastHash(r)
           /\ NextPosition(r) = Len(r) + 1
<1> DEFINE n == Len(r)
<1>1. n \in Nat
  BY SequenceOps
<1>2. ASSUME NEW k \in 1..n PROVE Hashed(r[k]) /\ r[k].ev.globalPosition = k
  <2>1. k > 0 /\ k - 1 \in 0..n
    BY <1>1
  <2>2. Continues(SubSeq(r, 1, k - 1), r[k])
    BY <2>1 DEF ChainedFrom
  <2>3. IsSequence(SubSeq(r, 1, k - 1)) /\ Len(SubSeq(r, 1, k - 1)) = k - 1
    BY <2>1, PrefixElements
  <2>4. Hashed(r[k])
    BY <2>2, <2>3, ContinuesHashed
  <2>5. r[k].ev.globalPosition = (k - 1) + 1
    BY <2>2, <2>3 DEF Continues
  <2> QED BY <1>1, <2>4, <2>5
<1>3. HashBefore(r, n + 1) = LastHash(r)
  BY <1>2, HashBeforeFacts
<1>4. NextPosition(r) = n + 1
  <2>1. CASE r = <<>>
    BY <2>1, EmptyIsSequence DEF NextPosition
  <2>2. CASE r # <<>>
    <3> DEFINE s == {r[i].ev.globalPosition : i \in 1..n}
    <3>1. n # 0
      BY <2>2, EmptyIsSequence, SameSequence
    <3>2. n \in 1..n
      BY <1>1, <3>1
    <3>3. s \in SUBSET Nat /\ n \in s /\ \A x \in s : x <= n
      BY <1>1, <1>2, <3>2
    <3>4. NextPosition(r) = 1 + Max(s)
      BY <2>2 DEF NextPosition
    <3> HIDE DEF s
    <3>5. Max(s) \in s /\ \A x \in s : x <= Max(s)
      BY <1>1, <3>3, MaxIsGreatest
    <3>6. Max(s) = n
      <4>1. n <= Max(s) /\ Max(s) <= n /\ Max(s) \in Nat
        BY <3>3, <3>5
      <4> QED BY <1>1, <4>1
    <3> QED BY <1>1, <3>4, <3>6
  <2> QED BY <2>1, <2>2
<1> QED BY <1>1, <1>2, <1>3, <1>4

(* The prefixes of a sequence are those of its prefix.                     *)
LEMMA PrefixOfPrefix ==
    ASSUME NEW s, IsSequence(s), NEW r, IsSequence(r), Begins(s, r), NEW k \in 0..Len(s)
    PROVE  SubSeq(s, 1, k) = SubSeq(r, 1, k)
<1>1. Len(s) \in Nat /\ Len(r) \in Nat /\ k \in 0..Len(r)
  BY SequenceOps DEF Begins
<1> DEFINE a == SubSeq(s, 1, k)
           b == SubSeq(r, 1, k)
<1>2. IsSequence(a) /\ Len(a) = k /\ \A i \in 1..k : a[i] = s[i]
  BY PrefixElements
<1>3. IsSequence(b) /\ Len(b) = k /\ \A i \in 1..k : b[i] = r[i]
  BY <1>1, PrefixElements
<1> HIDE DEF a, b
<1>4. \A i \in 1..k : i \in 1..Len(s)
  BY <1>1
<1>5. \A i \in 1..Len(a) : a[i] = b[i]
  BY <1>2, <1>3, <1>4 DEF Begins
<1>6. a = b
  BY <1>2, <1>3, <1>5, SameSequence
<1> QED BY <1>6 DEF a, b

(* A prefix of a chain is one.                                             *)
LEMMA ChainPrefix ==
    ASSUME NEW s, IsSequence(s), NEW r, IsSequence(r), Begins(s, r), NEW n, ChainedFrom(r, n)
    PROVE  ChainedFrom(s, n)
<1> SUFFICES ASSUME NEW k \in 1..Len(s), k > n PROVE Continues(SubSeq(s, 1, k - 1), s[k])
  BY DEF ChainedFrom
<1>1. Len(s) \in Nat /\ Len(r) \in Nat /\ k \in 1..Len(r) /\ s[k] = r[k] /\ k - 1 \in 0..Len(s)
  BY SequenceOps DEF Begins
<1>2. Continues(SubSeq(r, 1, k - 1), r[k])
  BY <1>1 DEF ChainedFrom
<1>3. SubSeq(s, 1, k - 1) = SubSeq(r, 1, k - 1)
  BY <1>1, PrefixOfPrefix
<1> QED BY <1>1, <1>2, <1>3

(* A sequence begins its concatenations.                                   *)
LEMMA ConcatBegins ==
    ASSUME NEW s, IsSequence(s), NEW t, IsSequence(t)
    PROVE  Begins(s, s \o t)
BY ConcatElements DEF Begins

(* A chain goes on where it is continued.                                  *)
LEMMA ChainGoesOn ==
    ASSUME NEW s, IsSequence(s), NEW t, IsSequence(t), ChainedFrom(s, 0), ChainedFrom(s \o t, Len(s))
    PROVE  ChainedFrom(s \o t, 0)
<1> DEFINE r == s \o t
<1>1. /\ IsSequence(r) /\ Len(r) = Len(s) + Len(t) /\ Len(s) \in Nat /\ Len(t) \in Nat
      /\ Begins(s, r)
  BY ConcatElements, ConcatBegins
<1>2. ChainedFrom(r, Len(s))
  OBVIOUS
<1> HIDE DEF r
<1> SUFFICES ASSUME NEW k \in 1..Len(r) PROVE Continues(SubSeq(r, 1, k - 1), r[k])
  BY DEF ChainedFrom, r
<1>3. CASE k > Len(s)
  BY <1>2, <1>3 DEF ChainedFrom
<1>4. CASE ~(k > Len(s))
  <2>1. k \in 1..Len(s) /\ k > 0 /\ k - 1 \in 0..Len(s)
    BY <1>1, <1>4
  <2>2. Continues(SubSeq(s, 1, k - 1), s[k])
    BY <2>1 DEF ChainedFrom
  <2>3. SubSeq(s, 1, k - 1) = SubSeq(r, 1, k - 1) /\ s[k] = r[k]
    BY <1>1, <2>1, PrefixOfPrefix DEF Begins
  <2> QED BY <2>2, <2>3
<1> QED BY <1>3, <1>4

(* The digests of a batch, as Chained computes them.                       *)
Digests(h, s, st, id, n) ==
    h = [i \in 0..n |-> IF i = 0 THEN st.lastHash
                        ELSE computeEventHash(NewEvent(s, st, id, i), h[i - 1])]

(* A batch is built on the chosen solution of that recursion.              *)
LEMMA ChainedDef ==
    ASSUME NEW s, NEW st, NEW id, NEW n
    PROVE  Chained(s, st, id, n) =
             [i \in 1..n |-> StoredEvent(NewEvent(s, st, id, i),
                                         (CHOOSE h : Digests(h, s, st, id, n))[i],
                                         (CHOOSE h : Digests(h, s, st, id, n))[i - 1])]
BY DEF Chained, Digests

(* The recursion has a solution.                                           *)
LEMMA DigestsExist ==
    ASSUME NEW s, NEW st, NEW id, NEW n \in Nat
    PROVE  \E h : Digests(h, s, st, id, n)
<1> DEFINE P == {k \in Nat : \E h : Digests(h, s, st, id, k)}
<1>1. ASSUME NEW k \in Nat, \A j \in Nat : j < k => j \in P PROVE k \in P
  <2>1. CASE k = 0
    <3> DEFINE h == [i \in 0..0 |-> st.lastHash]
    <3>1. h = [i \in 0..0 |-> IF i = 0 THEN st.lastHash
                              ELSE computeEventHash(NewEvent(s, st, id, i), h[i - 1])]
      OBVIOUS
    <3> HIDE DEF h
    <3>2. Digests(h, s, st, id, 0)
      BY <3>1 DEF Digests
    <3> QED BY <2>1, <3>2
  <2>2. CASE k # 0
    <3>1. k - 1 \in Nat /\ k - 1 < k
      BY <2>2
    <3>2. PICK g : Digests(g, s, st, id, k - 1)
      BY <1>1, <3>1
    <3>3. \A i \in 0..(k - 1) : g[i] = IF i = 0 THEN st.lastHash
                                       ELSE computeEventHash(NewEvent(s, st, id, i), g[i - 1])
      BY <3>2 DEF Digests
    <3> DEFINE h == [i \in 0..k |-> IF i = k THEN computeEventHash(NewEvent(s, st, id, i), g[i - 1])
                                    ELSE g[i]]
    <3>4. ASSUME NEW i \in 0..k
          PROVE  h[i] = IF i = 0 THEN st.lastHash
                        ELSE computeEventHash(NewEvent(s, st, id, i), h[i - 1])
      <4>1. CASE i = 0
        <5>1. i \in 0..(k - 1) /\ i # k
          BY <2>2, <4>1
        <5> QED BY <3>3, <4>1, <5>1
      <4>2. CASE i # 0
        <5>1. i - 1 \in 0..k /\ i - 1 # k
          BY <4>2
        <5>2. h[i - 1] = g[i - 1]
          BY <5>1
        <5>3. CASE i = k
          BY <4>2, <5>2, <5>3
        <5>4. CASE i # k
          <6>1. i \in 0..(k - 1)
            BY <5>4
          <6>2. h[i] = g[i]
            BY <5>4
          <6> QED BY <3>3, <4>2, <5>2, <6>1, <6>2
        <5> QED BY <5>3, <5>4
      <4> QED BY <4>1, <4>2
    <3>5. h = [i \in 0..k |-> h[i]]
      OBVIOUS
    <3> HIDE DEF h
    <3>6. Digests(h, s, st, id, k)
      BY <3>4, <3>5 DEF Digests
    <3> QED BY <3>6
  <2> QED BY <2>1, <2>2
<1> HIDE DEF P
<1>2. P = Nat
  <2>1. P \in SUBSET Nat
    BY DEF P
  <2> QED BY <1>1, <2>1, NoLeastExceptionIsNone
<1> QED BY <1>2 DEF P

(* How many records of a stream there are after m more of it.              *)
LEMMA VersionGrows ==
    ASSUME NEW g, IsSequence(g), NEW t, IsSequence(t), NEW s,
           \A i \in 1..Len(t) : t[i].ev.streamId = s
    PROVE  streamVersion(g \o t, s) = streamVersion(g, s) + Len(t) /\ streamVersion(g, s) \in Nat
<1> DEFINE n == Len(g)
           m == Len(t)
           r == g \o t
           A == {k \in DOMAIN g : g[k].ev.streamId = s}
           B == (n + 1)..(n + m)
           C == {k \in DOMAIN r : r[k].ev.streamId = s}
<1>1. /\ IsSequence(r) /\ Len(r) = n + m /\ n \in Nat /\ m \in Nat
      /\ \A i \in 1..n : r[i] = g[i]
      /\ \A i \in 1..m : r[n + i] = t[i]
  BY ConcatElements
<1>2. DOMAIN g = 1..n /\ DOMAIN r = 1..(n + m)
  <2>1. \A q : IsSequence(q) => DOMAIN q = 1..Len(q)
    BY DEF IsSequence
  <2> HIDE DEF r
  <2> QED BY <1>1, <2>1
<1> HIDE DEF r, n, m
<1>3. C = A \cup B
  <2>1. ASSUME NEW k \in 1..n PROVE k \in 1..(n + m) /\ (k \in C <=> k \in A) /\ k \notin B
    BY <1>1, <1>2
  <2>2. ASSUME NEW k \in B PROVE k \in C /\ k \notin A
    <3>1. k - n \in 1..m /\ n + (k - n) = k /\ k \in 1..(n + m) /\ k \notin 1..n
      BY <1>1
    <3>2. r[k] = t[k - n] /\ t[k - n].ev.streamId = s
      BY <1>1, <3>1 DEF m
    <3> QED BY <1>2, <3>1, <3>2
  <2>3. \A k \in 1..(n + m) : k \in 1..n \/ k \in B
    BY <1>1
  <2> QED BY <1>2, <2>1, <2>2, <2>3
<1>4. A \cap B = {}
  BY <1>1, <1>2
<1>5. IsFiniteSet(1..n) /\ A \subseteq 1..n
  BY <1>1, <1>2, FS_Interval
<1>6. IsFiniteSet(A) /\ IsFiniteSet(B) /\ Cardinality(B) = m
  <2>1. IsFiniteSet(A)
    BY <1>5, FS_Subset
  <2>2. IsFiniteSet(B) /\ Cardinality(B) = IF n + 1 > n + m THEN 0 ELSE (n + m) - (n + 1) + 1
    BY <1>1, FS_Interval
  <2> QED BY <1>1, <2>1, <2>2
<1>7. Cardinality(A) \in Nat /\ Cardinality(A \cup B) = Cardinality(A) + Cardinality(B)
  <2> HIDE DEF A, B
  <2>1. Cardinality(A) \in Nat /\ Cardinality(B) \in Nat
    BY <1>6, FS_CardinalityType
  <2>2. Cardinality(A \cup B) = Cardinality(A) + Cardinality(B) - Cardinality(A \cap B)
    BY <1>6, FS_Union
  <2>3. Cardinality(A \cap B) = 0
    BY <1>4, FS_EmptySet
  <2> QED BY <2>1, <2>2, <2>3
<1> QED BY <1>3, <1>6, <1>7 DEF streamVersion, r, m

(* A new batch continues the chain its instance remembers.                 *)
LEMMA BatchContinues ==
    ASSUME NEW g, IsSequence(g), ChainedFrom(g, 0), NEW st, Remembers(st, g),
           NEW s, NEW id, NEW n \in Nat \ {0}
    PROVE  /\ IsSequence(Chained(s, st, id, n)) /\ Chained(s, st, id, n) # <<>>
           /\ ChainedFrom(g \o Chained(s, st, id, n), Len(g))
<1> DEFINE b == Chained(s, st, id, n)
           h == CHOOSE e : Digests(e, s, st, id, n)
           ev(i) == NewEvent(s, st, id, i)
           N == Len(g)
           r == g \o b
<1>1. Digests(h, s, st, id, n)
  BY DigestsExist
<1>2. b = [i \in 1..n |-> StoredEvent(ev(i), h[i], h[i - 1])]
  BY ChainedDef
<1> HIDE DEF h, b
<1>3. h[0] = st.lastHash /\ \A i \in 1..n : h[i] = computeEventHash(ev(i), h[i - 1])
  <2>1. 0 \in 0..n /\ \A i \in 1..n : i \in 0..n /\ i # 0
    OBVIOUS
  <2> QED BY <1>1, <2>1 DEF Digests
<1>4. \A i \in 1..n : b[i].ev = ev(i) /\ b[i].hash = h[i] /\ b[i].previousHash = h[i - 1]
  BY <1>2 DEF StoredEvent
<1>5. IsSequence(b) /\ Len(b) = n
  <2>1. b = [i \in 1..n |-> b[i]]
    BY <1>2
  <2> QED BY <2>1, TabledSequence
<1>6. b # <<>>
  BY <1>5, EmptyIsSequence
<1>7. N \in Nat /\ HashBefore(g, N + 1) = LastHash(g) /\ \A k \in 1..N : Hashed(g[k])
  BY ChainFacts
<1>8. /\ IsSequence(r) /\ Len(r) = N + n
      /\ \A i \in 1..N : r[i] = g[i]
      /\ \A i \in 1..n : r[N + i] = b[i]
  BY <1>5, ConcatElements
<1>9. /\ st.globalLog = g /\ st.nextGlobalPosition = N + 1 /\ st.lastHash = LastHash(g)
      /\ streamVersion(g, s) \in Nat
  <2>1. IsSequence(<<>>) /\ \A i \in 1..Len(<<>>) : <<>>[i].ev.streamId = s
    BY EmptyIsSequence
  <2> QED BY <2>1, VersionGrows DEF Remembers
<1> HIDE DEF r, N
<1>10. ASSUME NEW i \in 1..n
       PROVE  /\ ev(i).streamId = s /\ ev(i).version = streamVersion(g, s) + i
              /\ ev(i).globalPosition = N + i
  BY <1>7, <1>9 DEF NewEvent
<1> HIDE DEF ev
(* The first k - 1 records of the batch behind the chain.                  *)
<1>11. ASSUME NEW k \in 1..n
       PROVE  /\ SubSeq(r, 1, (N + k) - 1) = g \o SubSeq(b, 1, k - 1)
              /\ IsSequence(SubSeq(b, 1, k - 1)) /\ Len(SubSeq(b, 1, k - 1)) = k - 1
              /\ \A i \in 1..(k - 1) : SubSeq(b, 1, k - 1)[i] = b[i]
  <2> DEFINE t == SubSeq(b, 1, k - 1)
             q == SubSeq(r, 1, (N + k) - 1)
             u == g \o t
  <2>1. k - 1 \in 0..Len(b) /\ (N + k) - 1 \in 0..Len(r) /\ k \in Nat
    BY <1>5, <1>7, <1>8
  <2>2. IsSequence(t) /\ Len(t) = k - 1 /\ \A i \in 1..(k - 1) : t[i] = b[i]
    BY <1>5, <2>1, PrefixElements
  <2>3. IsSequence(q) /\ Len(q) = (N + k) - 1 /\ \A i \in 1..((N + k) - 1) : q[i] = r[i]
    BY <1>8, <2>1, PrefixElements
  <2> HIDE DEF t, q
  <2>4. /\ IsSequence(u) /\ Len(u) = N + (k - 1)
        /\ \A i \in 1..N : u[i] = g[i]
        /\ \A i \in 1..(k - 1) : u[N + i] = t[i]
    BY <2>2, ConcatElements DEF N
  <2> HIDE DEF u
  <2>5. ASSUME NEW i \in 1..Len(q) PROVE q[i] = u[i]
    <3>0. i \in 1..((N + k) - 1)
      BY <2>3
    <3>1. CASE i \in 1..N
      BY <1>8, <2>3, <2>4, <3>0, <3>1
    <3>2. CASE i \notin 1..N
      <4>1. i - N \in 1..(k - 1) /\ N + (i - N) = i /\ i - N \in 1..n
        BY <1>7, <2>1, <3>0, <3>2
      <4>2. r[i] = b[i - N] /\ u[i] = t[i - N] /\ t[i - N] = b[i - N]
        BY <1>8, <2>2, <2>4, <4>1
      <4> QED BY <2>3, <3>0, <4>2
    <3> QED BY <3>1, <3>2
  <2>6. Len(q) = Len(u)
    BY <1>7, <2>1, <2>3, <2>4
  <2>7. q = u
    BY <2>3, <2>4, <2>5, <2>6, SameSequence
  <2> QED BY <2>2, <2>7 DEF q, u, t
<1>12. \A i \in 1..n : Hashed(b[i])
  <2>1. \A i \in 1..n : h[i] # NoHash
    BY <1>3, DigestsArePresent
  <2>2. h[0] # NoHash
    <3>1. LastHash(g) = GENESIS_HASH \/ \E j \in 1..N : Hashed(g[j]) /\ LastHash(g) = g[j].hash
      BY <1>7, HashBeforeFacts DEF N
    <3> QED BY <1>3, <1>9, <3>1, DigestsArePresent DEF Hashed
  <2>3. ASSUME NEW i \in 1..n PROVE h[i - 1] # NoHash
    <3>1. i - 1 = 0 \/ i - 1 \in 1..n
      OBVIOUS
    <3> QED BY <2>1, <2>2, <3>1
  <2> QED BY <1>4, <2>1, <2>3 DEF Hashed
<1>13. ASSUME NEW k \in 1..n PROVE Continues(g \o SubSeq(b, 1, k - 1), b[k])
  <2> DEFINE t == SubSeq(b, 1, k - 1)
             u == g \o t
  <2>1. IsSequence(t) /\ Len(t) = k - 1 /\ \A i \in 1..(k - 1) : t[i] = b[i]
    BY <1>11
  <2> HIDE DEF t
  <2>2. /\ IsSequence(u) /\ Len(u) = N + (k - 1)
        /\ \A i \in 1..N : u[i] = g[i]
        /\ \A i \in 1..(k - 1) : u[N + i] = t[i]
    BY <2>1, ConcatElements DEF N
  <2>3. \A i \in 1..Len(t) : i \in 1..n
    BY <2>1
  <2>4. streamVersion(u, s) = streamVersion(g, s) + (k - 1)
    <3>1. \A i \in 1..Len(t) : t[i].ev.streamId = s
      BY <1>4, <1>10, <2>1, <2>3
    <3> QED BY <2>1, <3>1, VersionGrows
  <2> HIDE DEF u
  <2>5. HashBefore(u, Len(u) + 1) = LastHash(u)
    <3>1. ASSUME NEW i \in 1..Len(u) PROVE Hashed(u[i])
      <4>1. CASE i \in 1..N
        BY <1>7, <2>2, <4>1
      <4>2. CASE i \notin 1..N
        <5>1. i - N \in 1..(k - 1) /\ N + (i - N) = i /\ i - N \in 1..n
          BY <1>7, <2>2, <4>2
        <5> QED BY <1>12, <2>1, <2>2, <5>1
      <4> QED BY <4>1, <4>2
    <3> QED BY <2>2, <3>1, HashBeforeFacts
  <2>6. LastHash(u) = h[k - 1]
    <3>1. CASE k = 1
      <4>1. u = g
        <5>1. Len(t) = 0
          BY <2>1, <3>1
        <5>2. Len(u) = Len(g) /\ \A i \in 1..Len(u) : u[i] = g[i]
          BY <1>7, <2>2, <3>1 DEF N
        <5> QED BY <2>2, <5>2, SameSequence
      <4> QED BY <1>3, <1>9, <3>1, <4>1
    <3>2. CASE k # 1
      <4>1. k - 1 \in 1..(k - 1) /\ k - 1 \in 1..n /\ Len(u) # 0
        BY <1>7, <2>2, <3>2
      <4>2. u # <<>>
        BY <4>1, EmptyIsSequence
      <4>3. u[Len(u)] = b[k - 1]
        BY <2>1, <2>2, <4>1
      <4> QED BY <1>4, <4>1, <4>2, <4>3 DEF LastHash
    <3> QED BY <3>1, <3>2
  <2>7. b[k].ev.globalPosition = Len(u) + 1
    BY <1>4, <1>7, <1>10, <2>2
  <2>8. b[k].ev.version = streamVersion(u, b[k].ev.streamId) + 1
    <3>1. b[k].ev.streamId = s /\ b[k].ev.version = streamVersion(g, s) + k
      BY <1>4, <1>10
    <3> QED BY <1>9, <2>4, <3>1
  <2>9. b[k].previousHash = HashBefore(u, Len(u) + 1) /\ b[k].hash = computeEventHash(b[k].ev, b[k].previousHash)
    BY <1>3, <1>4, <2>5, <2>6
  <2> QED BY <2>7, <2>8, <2>9 DEF Continues, u, t
<1>14. ChainedFrom(r, N)
  <2> SUFFICES ASSUME NEW k \in 1..Len(r), k > N PROVE Continues(SubSeq(r, 1, k - 1), r[k])
    BY DEF ChainedFrom
  <2>1. k - N \in 1..n /\ N + (k - N) = k
    BY <1>7, <1>8
  <2>2. SubSeq(r, 1, k - 1) = g \o SubSeq(b, 1, (k - N) - 1) /\ r[k] = b[k - N]
    BY <1>8, <1>11, <2>1
  <2> QED BY <1>13, <2>1, <2>2
<1> QED BY <1>5, <1>6, <1>14 DEF b, r, N

(* A load remembers the chain it finds.                                    *)
LEMMA LoadRemembers ==
    ASSUME NEW f, IsSequence(f), ChainedFrom(EventsIn(f), 0)
    PROVE  /\ Remembers(_loadFromFile(f), EventsIn(f))
           /\ _loadFromFile(f).knownFileSize = Len(f)
           /\ _loadFromFile(f).needsTrailingNewline = Unterminated(f)
<1>1. IsSequence(EventsIn(f))
  BY EventsFacts
<1>2. NextPosition(EventsIn(f)) = Len(EventsIn(f)) + 1
      /\ HashBefore(EventsIn(f), Len(EventsIn(f)) + 1) = LastHash(EventsIn(f))
  BY <1>1, ChainFacts
<1> QED BY <1>2 DEF _loadFromFile, Remembers

-----------------------------------------------------------------------------
(* The event store that the file implements                                *)

(* The abstract store's terms, in the terms of this module.                *)
LEMMA StoreTerms ==
    /\ \A r, e : Store!Follows(r, e) <=> Continues(r, e)
    /\ \A s, t : Store!IsStrictPrefix(s, t) <=> Store!IsPrefix(s, t) /\ s # t
    /\ \A s : Store!Range(s) = Range(s)
<1>1. ASSUME NEW r, NEW e PROVE Store!Follows(r, e) <=> Continues(r, e)
  <2>1. Store!versionOf(r, e.ev.streamId) = streamVersion(r, e.ev.streamId)
    <3> DEFINE S == {k \in DOMAIN r : r[k].ev.streamId = e.ev.streamId}
    <3>1. Store!Cardinality(S) = Cardinality(S)
      <4> HIDE DEF S
      <4> QED BY DEF Store!Cardinality, Cardinality
    <3> QED BY <3>1 DEF Store!versionOf, streamVersion
  <2>2. Store!computeEventHash(e.ev, e.previousHash) = computeEventHash(e.ev, e.previousHash)
    BY DEF Store!computeEventHash, computeEventHash
  <2>3. Store!HashBefore(r, Len(r) + 1) = HashBefore(r, Len(r) + 1)
    <3> DEFINE before == {j \in 1..((Len(r) + 1) - 1) : Hashed(r[j])}
               l == CHOOSE j \in before : \A k \in before : k <= j
    <3>1. before = {j \in 1..((Len(r) + 1) - 1) : Store!Hashed(r[j])}
      BY DEF Store!Hashed, Hashed, Store!NoHash, NoHash
    <3>2. HashBefore(r, Len(r) + 1) = IF before = {} THEN GENESIS_HASH ELSE r[l].hash
      BY DEF HashBefore
    <3> HIDE DEF before
    <3>3. Store!HashBefore(r, Len(r) + 1) = IF before = {} THEN Store!GENESIS_HASH ELSE r[l].hash
      BY <3>1 DEF Store!HashBefore
    <3>4. Store!GENESIS_HASH = GENESIS_HASH
      BY DEF Store!GENESIS_HASH, GENESIS_HASH
    <3> QED BY <3>2, <3>3, <3>4
  <2> QED BY <2>1, <2>2, <2>3 DEF Store!Follows, Continues
<1>2. ASSUME NEW s, NEW t PROVE Store!IsStrictPrefix(s, t) <=> Store!IsPrefix(s, t) /\ s # t
  BY DEF Store!IsStrictPrefix
<1>3. ASSUME NEW s PROVE Store!Range(s) = Range(s)
  BY DEF Store!Range, Range
<1> QED BY <1>1, <1>2, <1>3

(* A prefix has its elements from the whole.                               *)
LEMMA RangeBegins ==
    ASSUME NEW s, IsSequence(s), NEW t, IsSequence(t), Begins(s, t)
    PROVE  Range(s) \subseteq Range(t)
<1>1. DOMAIN s = 1..Len(s) /\ DOMAIN t = 1..Len(t) /\ Len(s) \in Nat /\ Len(t) \in Nat
  BY DEF IsSequence
<1>2. \A i \in 1..Len(s) : i \in 1..Len(t) /\ s[i] = t[i]
  BY <1>1 DEF Begins
<1> QED BY <1>1, <1>2 DEF Range

(* What a prefix of the file holds, a longer prefix of a longer file does. *)
LEMMA HeldStill ==
    ASSUME NEW f, Structured(f), NEW g, Structured(g), Begins(f, g),
           NEW n \in 0..Len(f), NEW m \in 0..Len(g), n <= m
    PROVE  Range(EventsIn(SubSeq(f, 1, n))) \subseteq Range(EventsIn(SubSeq(g, 1, m)))
<1> DEFINE h == SubSeq(g, 1, m)
<1>1. /\ IsSequence(f) /\ IsSequence(g) /\ Len(f) \in Nat /\ Len(g) \in Nat
      /\ n \in Nat /\ m \in Nat /\ n \in 0..Len(g)
  BY SequenceOps DEF Structured, Begins
<1>2. Structured(h) /\ Len(h) = m /\ \A i \in 1..m : h[i] = g[i]
  BY <1>1, StructuredPrefix, PrefixElements
<1> HIDE DEF h
<1>3. n \in 0..Len(h) /\ Begins(h, g) /\ IsSequence(h)
  BY <1>1, <1>2 DEF Begins, Structured
<1>4. SubSeq(f, 1, n) = SubSeq(g, 1, n) /\ SubSeq(h, 1, n) = SubSeq(g, 1, n)
  BY <1>1, <1>3, PrefixOfPrefix
<1>5. Begins(EventsIn(SubSeq(h, 1, n)), EventsIn(h))
  BY <1>2, <1>3, EventsPrefix
<1>6. IsSequence(EventsIn(SubSeq(h, 1, n))) /\ IsSequence(EventsIn(h))
  BY <1>2, <1>3, StructuredPrefix, EventsFacts DEF Structured
<1>7. Range(EventsIn(SubSeq(h, 1, n))) \subseteq Range(EventsIn(h))
  BY <1>5, <1>6, RangeBegins
<1> QED BY <1>4, <1>7 DEF h

(* What an instance has seen is made of lines, and its records are a chain.*)
LEMMA SeenFacts ==
    ASSUME WriteInv, FileInv, NEW p \in Proc
    PROVE  /\ IsSequence(file) /\ Len(file) \in Nat /\ store[p].knownFileSize \in 0..Len(file)
           /\ Structured(Seen(p)) /\ Len(Seen(p)) = store[p].knownFileSize
           /\ IsSequence(EventsIn(Seen(p))) /\ ChainedFrom(EventsIn(Seen(p)), 0)
           /\ store[p].globalLog = EventsIn(Seen(p))
           /\ IsSequence(EventsIn(file)) /\ Begins(EventsIn(Seen(p)), EventsIn(file))
<1>1. /\ IsSequence(file) /\ Len(file) \in Nat /\ store[p].knownFileSize \in 0..Len(file)
      /\ Structured(file) /\ ChainedFrom(EventsIn(file), 0)
  BY SequenceOps DEF WriteInv, WriteType, Known, FileInv
<1>2. Structured(Seen(p)) /\ Len(Seen(p)) = store[p].knownFileSize
  BY <1>1, StructuredPrefix, PrefixElements DEF Seen
<1>3. IsSequence(EventsIn(Seen(p))) /\ IsSequence(EventsIn(file))
  BY <1>1, <1>2, EventsFacts DEF Structured
<1>4. Begins(EventsIn(Seen(p)), EventsIn(file))
  BY <1>1, EventsPrefix DEF Seen
<1>5. ChainedFrom(EventsIn(Seen(p)), 0)
  BY <1>1, <1>3, <1>4, ChainPrefix
<1>6. store[p].globalLog = EventsIn(Seen(p))
  BY DEF FileInv, Matches, Remembers
<1> QED BY <1>1, <1>2, <1>3, <1>4, <1>5, <1>6

(* A step of p that keeps the claims about p and only adds to the file     *)
(* keeps those about the others.                                           *)
LEMMA FileStep ==
    ASSUME LockInv, WriteInv, WriteInv', FileInv, Calm \/ Alone, NEW p \in Proc,
           \A q \in Proc : q # p => /\ pc'[q] = pc[q] /\ batch'[q] = batch[q]
                                    /\ out'[q] = out[q] /\ store'[q] = store[q],
           Structured(file'), ChainedFrom(EventsIn(file'), 0), Begins(file, file'),
           file' = file \/ Critical(p), synced <= synced',
           Matches(p)', Prepared(p)', Writing(p)',
           acked' \subseteq acked \cup Range(EventsIn(SubSeq(file', 1, synced'))),
           pc'[p] = "releaseOk" => Range(batch'[p]) \subseteq Range(EventsIn(SubSeq(file', 1, synced')))
    PROVE  FileInv'
<1>1. /\ Structured(file) /\ IsSequence(file) /\ IsSequence(file')
      /\ synced \in 0..Len(file) /\ synced' \in 0..Len(file')
  BY DEF FileInv, WriteInv, WriteType
<1>2. Range(EventsIn(SubSeq(file, 1, synced))) \subseteq Range(EventsIn(SubSeq(file', 1, synced')))
  BY <1>1, HeldStill
<1>3. ASSUME NEW q \in Proc, q # p PROVE Matches(q)' /\ Prepared(q)' /\ Writing(q)'
  <2>1. pc'[q] = pc[q] /\ batch'[q] = batch[q] /\ out'[q] = out[q] /\ store'[q] = store[q]
    BY <1>3
  <2>2. Matches(q) /\ Prepared(q) /\ Writing(q) /\ store[q].knownFileSize \in 0..Len(file)
    BY SeenFacts DEF FileInv
  <2>3. Seen(q)' = Seen(q)
    BY <1>1, <2>1, <2>2, PrefixOfPrefix DEF Seen
  <2>4. Matches(q)'
    BY <2>1, <2>2, <2>3 DEF Matches, Remembers
  <2>5. Prepared(q)'
    BY <2>1, <2>2 DEF Prepared
  <2>6. Writing(q)'
    <3>1. CASE file' = file
      BY <2>1, <2>2, <2>3, <3>1 DEF Writing, Written
    <3>2. CASE Critical(p)
      <4>1. ~Critical(q)
        BY <1>3, <3>2, Exclusive DEF MutualExclusion
      <4> QED BY <2>1, <4>1 DEF Writing, Critical
    <3> QED BY <3>1, <3>2
  <2> QED BY <2>4, <2>5, <2>6
<1>4. Durable'
  <2>1. acked' \subseteq Range(EventsIn(SubSeq(file', 1, synced')))
    BY <1>2 DEF FileInv, Durable
  <2>2. ASSUME NEW q \in Proc, pc'[q] = "releaseOk"
        PROVE  Range(batch'[q]) \subseteq Range(EventsIn(SubSeq(file', 1, synced')))
    <3>1. CASE q = p
      BY <2>2, <3>1
    <3>2. CASE q # p
      BY <1>2, <2>2, <3>2 DEF FileInv, Durable
    <3> QED BY <3>1, <3>2
  <2> QED BY <2>1, <2>2 DEF Durable
<1>5. \A q \in Proc : Matches(q)' /\ Prepared(q)' /\ Writing(q)'
  BY <1>3
<1> QED BY <1>4, <1>5 DEF FileInv

(* Everything begins itself.                                               *)
LEMMA BeginsItself == ASSUME NEW s, IsSequence(s) PROVE Begins(s, s)
BY SequenceOps DEF Begins

(* Steps of p outside the writing.                                         *)
LEMMA QuietFile ==
    ASSUME LockInv, WriteInv, WriteInv', FileInv, Calm \/ Alone, NEW p \in Proc, NEW l,
           l \notin {"write", "releaseOk"}, Goto(p, l),
           file' = file, synced' = synced, store' = store,
           \A q \in Proc : q # p => batch'[q] = batch[q] /\ out'[q] = out[q],
           acked' \subseteq acked \cup Range(EventsIn(SubSeq(file, 1, synced))), Prepared(p)'
    PROVE  FileInv'
<1>1. \A q \in Proc : pc'[q] = IF q = p THEN l ELSE pc[q]
  BY DEF Goto, LockInv, LockType
<1>2. Writing(p)' /\ pc'[p] # "releaseOk"
  BY <1>1 DEF Writing
<1>3. Matches(p)'
  BY DEF FileInv, Matches, Seen, Remembers
<1>4. /\ Structured(file') /\ ChainedFrom(EventsIn(file'), 0) /\ Begins(file, file')
      /\ synced <= synced'
  <2>1. IsSequence(file) /\ synced \in 0..Len(file) /\ Len(file) \in Nat
    BY SequenceOps DEF WriteInv, WriteType
  <2> QED BY <2>1, BeginsItself DEF FileInv
<1>5. acked' \subseteq acked \cup Range(EventsIn(SubSeq(file', 1, synced')))
  OBVIOUS
<1> QED BY <1>1, <1>2, <1>3, <1>4, <1>5, FileStep

(* The way to the lock: the batch waits.                                   *)
LEMMA WaitFile ==
    ASSUME LockInv, WriteInv, WriteInv', FileInv, Calm \/ Alone, NEW p \in Proc, NEW l,
           pc[p] \in Preparing, l \in {"create", "created", "readPid", "probe", "unlink", "spin", "locked"},
           Goto(p, l), UNCHANGED <<file, synced, store, batch, out, acked>>
    PROVE  FileInv'
<1>1. Prepared(p)'
  <2>1. Prepared(p)
    BY DEF FileInv
  <2> QED BY <2>1 DEF Prepared
<1> QED BY <1>1, QuietFile

(* An append() begins: its batch continues what the instance remembers.    *)
LEMMA BeginFile ==
    ASSUME LockInv, WriteInv, WriteInv', FileInv, Calm \/ Alone, NEW p \in Proc, NEW s,
           NEW n \in Nat \ {0}, NEW expected, BeginAppend(p, s, n, expected)
    PROVE  FileInv'
<1>1. /\ UNCHANGED <<file, synced, store, out, acked>> /\ Goto(p, "create")
      /\ batch' = [batch EXCEPT ![p] = Chained(s, store[p], nextId, n)]
  BY DEF BeginAppend
<1>2. \A q \in Proc : batch'[q] = IF q = p THEN Chained(s, store[p], nextId, n) ELSE batch[q]
  BY <1>1 DEF WriteInv, WriteType
<1> DEFINE g == EventsIn(Seen(p))
<1>3. IsSequence(g) /\ ChainedFrom(g, 0) /\ Remembers(store[p], g) /\ store[p].globalLog = g
  BY SeenFacts DEF FileInv, Matches
<1> HIDE DEF g
<1>4. /\ Chained(s, store[p], nextId, n) # <<>>
      /\ ChainedFrom(g \o Chained(s, store[p], nextId, n), Len(g))
  BY <1>3, BatchContinues
<1>5. Prepared(p)'
  BY <1>1, <1>2, <1>3, <1>4 DEF Prepared
<1> QED BY <1>1, <1>2, <1>5, QuietFile

(* The size check: what the instance remembers is all of the file.         *)
LEMMA DetectFile ==
    ASSUME LockInv, WriteInv, WriteInv', FileInv, Calm \/ Alone, NEW p \in Proc, DetectExternalAdvance(p)
    PROVE  FileInv'
<1>0. UNCHANGED <<file, synced, store, batch, acked>> /\ pc[p] = "locked"
  BY DEF DetectExternalAdvance, ghostVars
<1>1. CASE Len(file) > store[p].knownFileSize
  <2>1. Goto(p, "releaseErr") /\ out' = out
    BY <1>1 DEF DetectExternalAdvance
  <2>2. Prepared(p)'
    BY <2>1 DEF Prepared, Preparing, Goto, LockInv, LockType
  <2> QED BY <1>0, <2>1, <2>2, QuietFile
<1>2. CASE ~(Len(file) > store[p].knownFileSize)
  <2> DEFINE L == Lines(batch[p])
             l == IF store[p].needsTrailingNewline THEN "repair" ELSE "write"
  <2>1. Goto(p, l) /\ out' = [out EXCEPT ![p] = L]
    BY <1>2 DEF DetectExternalAdvance
  <2>2. /\ \A q \in Proc : pc'[q] = IF q = p THEN l ELSE pc[q]
        /\ \A q \in Proc : out'[q] = IF q = p THEN L ELSE out[q]
    BY <2>1 DEF Goto, LockInv, LockType, WriteInv, WriteType
  <2>3. /\ IsSequence(file) /\ Len(file) \in Nat /\ store[p].knownFileSize \in 0..Len(file)
        /\ IsSequence(batch[p]) /\ IsSequence(L) /\ Len(L) \in Nat /\ synced \in 0..Len(file)
    BY SeenFacts, LinesType, SequenceOps DEF WriteInv, WriteType
  <2>4. store[p].knownFileSize = Len(file)
    BY <1>2, <2>3
  <2>5. Seen(p) = file
    BY <2>3, <2>4, WholePrefix DEF Seen
  <2>6. Matches(p) /\ Prepared(p) /\ Structured(file) /\ ChainedFrom(EventsIn(file), 0)
    BY DEF FileInv
  <2>7. Matches(p)'
    BY <1>0, <2>6 DEF Matches, Seen, Remembers
  <2>8. Prepared(p)'
    BY <1>0, <2>2, <2>6 DEF Prepared, Preparing
  <2>9. Writing(p)'
    <3> SUFFICES ASSUME pc'[p] = "write"
                 PROVE  /\ ~Unterminated(Seen(p))'
                        /\ file' = Seen(p)' \o SubSeq(Lines(batch'[p]), 1, Written(p)')
                        /\ out'[p] = SubSeq(Lines(batch'[p]), Written(p)' + 1, Len(Lines(batch'[p])))
      BY DEF Writing
    <3>1. ~store[p].needsTrailingNewline
      BY <2>2
    <3>2. ~Unterminated(Seen(p)) /\ Seen(p)' = Seen(p)
      BY <1>0, <2>6, <3>1 DEF Matches, Seen
    <3>3. Written(p)' = 0 /\ batch'[p] = batch[p] /\ out'[p] = L
      BY <1>0, <2>2, <2>3 DEF Written
    <3>4. file \o SubSeq(L, 1, 0) = file
      BY <2>3, ConcatNothing
    <3>5. SubSeq(L, 1, Len(L)) = L
      BY <2>3, WholePrefix
    <3> HIDE DEF L
    <3>6. Lines(batch'[p]) = L
      BY <3>3 DEF L
    <3>7. 0 + 1 = 1
      OBVIOUS
    <3>8. ~Unterminated(Seen(p))'
      BY <3>2 DEF Unterminated
    <3> QED BY <1>0, <2>5, <3>2, <3>3, <3>4, <3>5, <3>6, <3>7, <3>8
  <2>10. pc'[p] # "releaseOk" /\ synced <= synced' /\ Begins(file, file')
    BY <1>0, <2>2, <2>3, BeginsItself
  <2>11. Structured(file') /\ ChainedFrom(EventsIn(file'), 0)
    BY <1>0, <2>6
  <2> HIDE DEF L, l
  <2> QED BY <1>0, <2>2, <2>7, <2>8, <2>9, <2>10, <2>11, FileStep
<1> QED BY <1>1, <1>2

(* An instance constructed now remembers all of the file.                  *)
LEMMA LoadFile ==
    ASSUME LockInv, WriteInv, WriteInv', FileInv, Calm \/ Alone, NEW p \in Proc, Restart(p) \/ Reopen(p)
    PROVE  FileInv'
<1>1. /\ store' = [store EXCEPT ![p] = _loadFromFile(file)]
      /\ UNCHANGED <<file, synced, batch, out, acked>>
      /\ pc' = [pc EXCEPT ![p] = "idle"] \/ (pc[p] = "idle" /\ pc' = pc)
  BY DEF Restart, Reopen, Load, Goto, ghostVars
<1>2. \A q \in Proc : pc'[q] = IF q = p THEN "idle" ELSE pc[q]
  BY <1>1 DEF LockInv, LockType
<1>3. \A q \in Proc : store'[q] = IF q = p THEN _loadFromFile(file) ELSE store[q]
  BY <1>1 DEF WriteInv, WriteType
<1>4. /\ Structured(file) /\ IsSequence(file) /\ ChainedFrom(EventsIn(file), 0)
      /\ synced \in 0..Len(file) /\ Len(file) \in Nat
  BY SequenceOps DEF FileInv, WriteInv, WriteType
<1>5. /\ Remembers(_loadFromFile(file), EventsIn(file))
      /\ _loadFromFile(file).knownFileSize = Len(file)
      /\ _loadFromFile(file).needsTrailingNewline = Unterminated(file)
  BY <1>4, LoadRemembers
<1>6. Seen(p)' = file
  BY <1>1, <1>3, <1>4, <1>5, WholePrefix DEF Seen
<1>7. Matches(p)'
  BY <1>3, <1>5, <1>6 DEF Matches
<1>8. Prepared(p)' /\ Writing(p)' /\ pc'[p] # "releaseOk"
  BY <1>2 DEF Prepared, Preparing, Writing
<1>9. Structured(file') /\ ChainedFrom(EventsIn(file'), 0) /\ Begins(file, file') /\ synced <= synced'
  BY <1>1, <1>4, BeginsItself
<1> QED BY <1>1, <1>2, <1>3, <1>7, <1>8, <1>9, FileStep

(* A newline ends the last line and adds no record.                        *)
LEMMA NewlineFacts ==
    ASSUME NEW f, Structured(f)
    PROVE  /\ Structured(Append(f, NL)) /\ EventsIn(Append(f, NL)) = EventsIn(f)
           /\ Begins(f, Append(f, NL)) /\ ~Unterminated(Append(f, NL))
<1>1. NL.half = "nl" /\ NL.half # "b"
  BY DEF NL
<1>2. Structured(Append(f, NL))
  BY <1>1, StructuredAppend DEF MayFollow
<1>3. EventsIn(Append(f, NL)) = EventsIn(f)
  BY <1>1, <1>2, EventsAppend
<1>4. /\ Len(Append(f, NL)) = Len(f) + 1 /\ Len(f) \in Nat
      /\ \A i \in 1..Len(f) : Append(f, NL)[i] = f[i]
      /\ Append(f, NL)[Len(f) + 1] = NL
  BY AppendElements DEF Structured
<1>5. Begins(f, Append(f, NL))
  BY <1>4 DEF Begins
<1>6. ~Unterminated(Append(f, NL))
  BY <1>1, <1>4 DEF Unterminated
<1> QED BY <1>2, <1>3, <1>5, <1>6

(* The torn tail is repaired: the instance has still seen all of the file. *)
LEMMA RepairFile ==
    ASSUME LockInv, WriteInv, WriteInv', FileInv, Calm \/ Alone, NEW p \in Proc, RepairNewline(p)
    PROVE  FileInv'
<1> DEFINE L == Lines(batch[p])
<1>1. /\ file' = Append(file, NL) /\ synced' = Len(file') /\ UNCHANGED <<batch, out, acked>>
      /\ store' = [store EXCEPT ![p].knownFileSize = @ + 1, ![p].needsTrailingNewline = FALSE]
      /\ pc' = [pc EXCEPT ![p] = "write"] /\ pc[p] = "repair"
  BY DEF RepairNewline, Goto, ghostVars
<1>2. \A q \in Proc : pc'[q] = IF q = p THEN "write" ELSE pc[q]
  BY <1>1 DEF LockInv, LockType
<1>3. /\ \A q \in Proc : q # p => store'[q] = store[q]
      /\ store'[p].knownFileSize = store[p].knownFileSize + 1
      /\ store'[p].needsTrailingNewline = FALSE
      /\ store'[p].globalLog = store[p].globalLog /\ store'[p].lastHash = store[p].lastHash
      /\ store'[p].nextGlobalPosition = store[p].nextGlobalPosition
  BY <1>1 DEF WriteInv, WriteType, StoreFields
<1>4. /\ Structured(file) /\ IsSequence(file) /\ Len(file) \in Nat /\ synced \in 0..Len(file)
      /\ ChainedFrom(EventsIn(file), 0) /\ Matches(p) /\ Prepared(p)
  BY SequenceOps DEF FileInv, WriteInv, WriteType
<1>5. /\ Structured(file') /\ EventsIn(file') = EventsIn(file) /\ Begins(file, file')
      /\ ~Unterminated(file') /\ Len(file') = Len(file) + 1 /\ IsSequence(file')
  BY <1>1, <1>4, NewlineFacts, AppendElements
<1>6. store[p].knownFileSize = Len(file)
  BY <1>1 DEF WriteInv, WriterIsCurrent, Current
<1>7. Seen(p) = file /\ Seen(p)' = file'
  BY <1>3, <1>4, <1>5, <1>6, WholePrefix DEF Seen
<1>8. Matches(p)'
  <2>1. Remembers(store[p], EventsIn(file))
    BY <1>4, <1>7 DEF Matches
  <2>2. Remembers(store'[p], EventsIn(file'))
    BY <1>3, <1>5, <2>1 DEF Remembers
  <2>3. Unterminated(file') = FALSE
    BY <1>5 DEF Unterminated
  <2> QED BY <1>3, <1>7, <2>2, <2>3 DEF Matches
<1>9. Prepared(p)'
  BY <1>1, <1>2, <1>3, <1>4 DEF Prepared, Preparing
<1>10. Writing(p)'
  <2>1. out[p] = L /\ IsSequence(L) /\ Len(L) \in Nat
    BY <1>1, LinesType, SequenceOps DEF WriteInv, WriteType, Known
  <2>2. file' \o SubSeq(L, 1, 0) = file' /\ SubSeq(L, 1, Len(L)) = L /\ 0 + 1 = 1
    BY <1>5, <2>1, ConcatNothing, WholePrefix
  <2>3. Written(p)' = 0 /\ Lines(batch'[p]) = L /\ out'[p] = L
    BY <1>1, <2>1 DEF Written
  <2> HIDE DEF L
  <2>4. ~Unterminated(Seen(p))'
    BY <1>5, <1>7
  <2> QED BY <1>7, <2>2, <2>3, <2>4 DEF Writing
<1>11. /\ ChainedFrom(EventsIn(file'), 0) /\ synced <= synced' /\ pc'[p] # "releaseOk"
       /\ Critical(p)
  BY <1>1, <1>2, <1>4, <1>5 DEF Critical
<1> HIDE DEF L
<1> QED BY <1>1, <1>2, <1>3, <1>5, <1>8, <1>9, <1>10, <1>11, FileStep

(* A failed write: what reached the file stays, unseen by the instance.    *)
LEMMA FailFile ==
    ASSUME LockInv, WriteInv, WriteInv', FileInv, Calm \/ Alone, NEW p \in Proc, WriteFails(p)
    PROVE  FileInv'
<1>1. /\ UNCHANGED <<synced, store, batch, acked>> /\ out' = [out EXCEPT ![p] = <<>>]
      /\ file' = file \/ file' = Append(file, NL)
      /\ pc' = [pc EXCEPT ![p] = "releaseErr"] /\ pc[p] \in {"repair", "write"}
  BY DEF WriteFails, Goto
<1>2. \A q \in Proc : pc'[q] = IF q = p THEN "releaseErr" ELSE pc[q]
  BY <1>1 DEF LockInv, LockType
<1>3. \A q \in Proc : q # p => out'[q] = out[q]
  BY <1>1 DEF WriteInv, WriteType
<1>4. /\ Structured(file) /\ IsSequence(file) /\ Len(file) \in Nat /\ synced \in 0..Len(file)
      /\ ChainedFrom(EventsIn(file), 0) /\ Matches(p) /\ store[p].knownFileSize \in 0..Len(file)
  BY SeenFacts DEF FileInv, WriteInv, WriteType
<1>5. /\ Structured(file') /\ EventsIn(file') = EventsIn(file) /\ Begins(file, file')
      /\ IsSequence(file')
  BY <1>1, <1>4, NewlineFacts, AppendElements, BeginsItself
<1>6. Seen(p)' = Seen(p)
  BY <1>1, <1>4, <1>5, PrefixOfPrefix DEF Seen
<1>7. Matches(p)'
  BY <1>1, <1>4, <1>6 DEF Matches, Remembers
<1>8. Prepared(p)' /\ Writing(p)' /\ pc'[p] # "releaseOk"
  BY <1>2 DEF Prepared, Preparing, Writing
<1>9. Critical(p) /\ ChainedFrom(EventsIn(file'), 0) /\ synced <= synced'
  BY <1>1, <1>4, <1>5 DEF Critical
<1> QED BY <1>1, <1>2, <1>3, <1>5, <1>7, <1>8, <1>9, FileStep

(* append() gives up waiting, or returns.                                  *)
LEMMA EndFile ==
    ASSUME LockInv, WriteInv, WriteInv', FileInv, Calm \/ Alone, NEW p \in Proc,
           LockTimeout(p) \/ PidFails(p) \/ ReleaseLock(p)
    PROVE  FileInv'
<1>1. /\ UNCHANGED <<file, synced, store, out>> /\ Goto(p, "idle")
      /\ batch' = [batch EXCEPT ![p] = <<>>]
      /\ acked' = acked \/ (pc[p] = "releaseOk" /\ acked' = acked \cup Range(batch[p]))
  BY DEF LockTimeout, PidFails, ReleaseLock, ghostVars
<1>2. \A q \in Proc : q # p => batch'[q] = batch[q] /\ out'[q] = out[q]
  BY <1>1 DEF WriteInv, WriteType
<1>3. acked' \subseteq acked \cup Range(EventsIn(SubSeq(file, 1, synced)))
  BY <1>1 DEF FileInv, Durable
<1>4. Prepared(p)'
  BY <1>1 DEF Prepared, Preparing, Goto, LockInv, LockType
<1> QED BY <1>1, <1>2, <1>3, <1>4, QuietFile

(* Concatenation is associative.                                           *)
LEMMA ConcatThree ==
    ASSUME NEW r, NEW s, NEW t, IsSequence(r), IsSequence(s), IsSequence(t),
           NEW a, a = r \o s, NEW b, b = s \o t
    PROVE  a \o t = r \o b
<1>1. PICK S : s \in Seq(S) /\ t \in Seq(S)
  BY SequencesTogether
<1>2. PICK R : r \in Seq(R)
  BY DEF IsSequence
<1> DEFINE V == R \cup S
<1>3. r \in Seq(V) /\ s \in Seq(V) /\ t \in Seq(V)
  BY <1>1, <1>2
<1> HIDE DEF V
<1> QED BY <1>3

(* What is left of a sequence, taken further.                              *)
LEMMA TakenFurther ==
    ASSUME NEW s, IsSequence(s), NEW w \in 0..Len(s), NEW k \in 0..(Len(s) - w)
    PROVE  /\ IsSequence(SubSeq(s, w + 1, Len(s))) /\ Len(SubSeq(s, w + 1, Len(s))) = Len(s) - w
           /\ SubSeq(s, 1, w) \o SubSeq(SubSeq(s, w + 1, Len(s)), 1, k) = SubSeq(s, 1, w + k)
           /\ SubSeq(SubSeq(s, w + 1, Len(s)), k + 1, Len(s) - w) = SubSeq(s, w + k + 1, Len(s))
<1> DEFINE n == Len(s)
           t == SubSeq(s, w + 1, n)
           a == SubSeq(s, 1, w)
           b == SubSeq(t, 1, k)
           c == SubSeq(s, 1, w + k)
           d == SubSeq(t, k + 1, n - w)
           e == SubSeq(s, w + k + 1, n)
<1>1. PICK S : s \in Seq(S)
  BY DEF IsSequence
<1>2. n \in Nat /\ w \in Nat /\ k \in Nat /\ w <= n /\ w + k <= n
  BY <1>1
<1>3. t \in Seq(S) /\ Len(t) = n - w /\ \A i \in 1..(n - w) : t[i] = s[w + i]
  BY <1>1, <1>2
<1>4. a \in Seq(S) /\ Len(a) = w /\ \A i \in 1..w : a[i] = s[i]
  BY <1>1, <1>2
<1>5. c \in Seq(S) /\ Len(c) = w + k /\ \A i \in 1..(w + k) : c[i] = s[i]
  BY <1>1, <1>2
<1>6. e \in Seq(S) /\ Len(e) = (n - w) - k /\ \A i \in 1..((n - w) - k) : e[i] = s[w + k + i]
  BY <1>1, <1>2
<1> HIDE DEF t
<1>7. b \in Seq(S) /\ Len(b) = k /\ \A i \in 1..k : b[i] = t[i]
  BY <1>2, <1>3
<1>8. d \in Seq(S) /\ Len(d) = (n - w) - k /\ \A i \in 1..((n - w) - k) : d[i] = t[k + i]
  BY <1>2, <1>3
<1> HIDE DEF n, a, b, c, d, e
<1>9. d = e
  <2>1. \A i \in 1..((n - w) - k) : k + i \in 1..(n - w) /\ w + (k + i) = w + k + i
    BY <1>2
  <2>2. \A i \in 1..Len(d) : d[i] = e[i]
    BY <1>3, <1>6, <1>8, <2>1
  <2> QED BY <1>6, <1>8, <2>2, SequenceIntro, SameSequence
<1>10. a \o b = c
  <2> DEFINE f == a \o b
  <2>1. IsSequence(a) /\ IsSequence(b) /\ IsSequence(c)
    BY <1>4, <1>5, <1>7, SequenceIntro
  <2>2. /\ IsSequence(f) /\ Len(f) = w + k /\ \A i \in 1..w : f[i] = a[i]
        /\ \A i \in 1..k : f[w + i] = b[i]
    <3>1. /\ IsSequence(f) /\ Len(f) = Len(a) + Len(b) /\ \A i \in 1..Len(a) : f[i] = a[i]
          /\ \A i \in 1..Len(b) : f[Len(a) + i] = b[i]
      BY <2>1, ConcatElements
    <3> HIDE DEF f
    <3>2. Len(a) = w /\ Len(b) = k
      BY <1>4, <1>7
    <3> QED BY <3>1, <3>2
  <2> HIDE DEF f
  <2>3. ASSUME NEW i \in 1..(w + k) PROVE f[i] = c[i]
    <3>1. CASE i \in 1..w
      BY <1>2, <1>4, <1>5, <2>2, <3>1
    <3>2. CASE i \notin 1..w
      <4>1. i - w \in 1..k /\ w + (i - w) = i /\ i - w \in 1..(n - w)
        BY <1>2, <3>2
      <4> QED BY <1>3, <1>5, <1>7, <2>2, <4>1
    <3> QED BY <3>1, <3>2
  <2>4. f = c
    BY <1>5, <2>1, <2>2, <2>3, SameSequence
  <2> QED BY <2>4 DEF f
<1>11. IsSequence(t)
  BY <1>3, SequenceIntro
<1> QED BY <1>3, <1>9, <1>10, <1>11 DEF n, t, a, b, c, d, e

(* However much of its batch a writer has written, the file is the chain   *)
(* it has seen and some of the batch.                                      *)
LEMMA BatchInFile ==
    ASSUME NEW base, Structured(base), ~Unterminated(base), ChainedFrom(EventsIn(base), 0),
           NEW b, IsSequence(b), ChainedFrom(EventsIn(base) \o b, Len(EventsIn(base))),
           NEW w \in 0..(3 * Len(b))
    PROVE  LET f == base \o SubSeq(Lines(b), 1, w)
           IN  Structured(f) /\ ChainedFrom(EventsIn(f), 0)
<1> DEFINE f == base \o SubSeq(Lines(b), 1, w)
           g == EventsIn(base)
<1>1. Structured(f)
  BY EventsWritten
<1>2. PICK m \in 0..Len(b) : EventsIn(f) = g \o SubSeq(b, 1, m)
  BY EventsWritten
<1>3. IsSequence(g) /\ IsSequence(EventsIn(f))
  BY <1>1, EventsFacts DEF Structured
<1>4. ChainedFrom(g \o b, 0)
  BY <1>3, ChainGoesOn
<1> HIDE DEF g, f
<1>5. Begins(g \o SubSeq(b, 1, m), g \o b) /\ IsSequence(g \o b)
  <2> DEFINE c == SubSeq(b, 1, m)
             x == g \o c
             y == g \o b
  <2>1. IsSequence(c) /\ Len(c) = m /\ Len(b) \in Nat /\ m \in Nat /\ \A i \in 1..m : c[i] = b[i]
    BY PrefixElements
  <2> HIDE DEF c
  <2>2. /\ Len(x) = Len(g) + m /\ Len(g) \in Nat
        /\ \A i \in 1..Len(g) : x[i] = g[i]
        /\ \A i \in 1..m : x[Len(g) + i] = c[i]
    BY <1>3, <2>1, ConcatElements
  <2>3. /\ Len(y) = Len(g) + Len(b) /\ IsSequence(y)
        /\ \A i \in 1..Len(g) : y[i] = g[i]
        /\ \A i \in 1..Len(b) : y[Len(g) + i] = b[i]
    BY <1>3, ConcatElements
  <2> HIDE DEF x, y
  <2>4. ASSUME NEW i \in 1..Len(x) PROVE x[i] = y[i]
    <3>1. CASE i \in 1..Len(g)
      BY <2>2, <2>3, <3>1
    <3>2. CASE i \notin 1..Len(g)
      <4>1. i - Len(g) \in 1..m /\ Len(g) + (i - Len(g)) = i /\ i - Len(g) \in 1..Len(b)
        BY <2>1, <2>2, <3>2
      <4> QED BY <2>1, <2>2, <2>3, <4>1
    <3> QED BY <3>1, <3>2
  <2>5. Begins(x, y)
    BY <2>1, <2>2, <2>3, <2>4 DEF Begins
  <2> QED BY <2>3, <2>5 DEF x, y, c
<1>6. ChainedFrom(EventsIn(f), 0)
  BY <1>2, <1>3, <1>4, <1>5, ChainPrefix
<1> QED BY <1>1, <1>6 DEF f

(* Some cells of the batch reach the file.                                 *)
LEMMA WriteSomeFile ==
    ASSUME LockInv, WriteInv, WriteInv', FileInv, Calm \/ Alone, NEW p \in Proc, WriteSome(p)
    PROVE  FileInv'
<1> DEFINE L == Lines(batch[p])
           w == Written(p)
           b == batch[p]
           base == Seen(p)
<1>1. PICK k \in 1..Len(out[p]) :
         /\ file' = file \o SubSeq(out[p], 1, k)
         /\ out' = [out EXCEPT ![p] = SubSeq(@, k + 1, Len(@))]
  BY DEF WriteSome
<1>2. UNCHANGED <<synced, pc, store, batch, acked>> /\ pc[p] = "write"
  BY DEF WriteSome, ghostVars
<1>3. \A q \in Proc : out'[q] = IF q = p THEN SubSeq(out[p], k + 1, Len(out[p])) ELSE out[q]
  BY <1>1 DEF WriteInv, WriteType
<1>4. /\ ~Unterminated(base) /\ file = base \o SubSeq(L, 1, w) /\ out[p] = SubSeq(L, w + 1, Len(L))
      /\ Matches(p) /\ Prepared(p)
  BY <1>2 DEF FileInv, Writing
<1>5. /\ IsSequence(file) /\ Len(file) \in Nat /\ store[p].knownFileSize \in 0..Len(file)
      /\ Structured(base) /\ Len(base) = store[p].knownFileSize
      /\ ChainedFrom(EventsIn(base), 0) /\ store[p].globalLog = EventsIn(base)
  BY SeenFacts
<1>6. /\ IsSequence(b) /\ IsSequence(out[p]) /\ Len(out[p]) \in Nat /\ synced \in 0..Len(file)
      /\ IsSequence(L) /\ Len(b) \in Nat /\ Len(L) = 3 * Len(b)
  BY LinesCells, SequenceOps DEF WriteInv, WriteType
<1>7. Len(file) = store[p].knownFileSize + w /\ w = Len(L) - Len(out[p])
  BY <1>2 DEF WriteInv, WriterIsCurrent, Current, Written
<1> HIDE DEF L, w, b, base
<1>8. w \in 0..Len(L) /\ k \in 0..(Len(L) - w) /\ Len(out[p]) = Len(L) - w
  <2> DEFINE N == Len(L)
             o == Len(out[p])
             m == store[p].knownFileSize
             f == Len(file)
  <2>1. N \in Nat /\ o \in Nat /\ f \in Nat /\ m \in 0..f /\ f = m + w /\ w = N - o /\ k \in 1..o
    BY <1>5, <1>6, <1>7, SequenceOps
  <2> HIDE DEF N, o, m, f
  <2>2. w \in 0..N /\ k \in 0..(N - w) /\ o = N - w
    BY <2>1
  <2> QED BY <2>2 DEF N, o
<1>9. b # <<>> /\ ChainedFrom(EventsIn(base) \o b, Len(EventsIn(base)))
  BY <1>2, <1>4, <1>5 DEF Prepared, Preparing, b
<1>10. Written(p)' = w + k /\ batch'[p] = b /\ Lines(batch'[p]) = L
  <2>1. batch'[p] = b /\ out'[p] = SubSeq(out[p], k + 1, Len(out[p]))
    BY <1>2, <1>3 DEF b
  <2>2. Len(out'[p]) = Len(out[p]) - k /\ Len(L) \in Nat
    <3> DEFINE o == out[p]
               N == Len(L)
    <3>1. IsSequence(o) /\ N \in Nat /\ out'[p] = SubSeq(o, k + 1, Len(o))
      BY <1>6, <2>1, SequenceOps
    <3>2. k \in 0..Len(o)
      <4> DEFINE n == Len(o)
      <4>1. n \in Nat /\ k \in 1..n
        BY <1>6
      <4> HIDE DEF n
      <4>2. k \in 0..n
        BY <4>1
      <4> QED BY <4>2 DEF n
    <3> HIDE DEF o, N
    <3>3. Len(SubSeq(o, k + 1, Len(o))) = Len(o) - k
      BY <3>1, <3>2, SequenceOps
    <3> QED BY <3>1, <3>3 DEF o, N
  <2>3. Written(p)' = Len(L) - Len(out'[p]) /\ Lines(batch'[p]) = L
    BY <2>1 DEF Written, L, b
  <2>4. Written(p)' = w + k
    BY <1>6, <1>8, <2>2, <2>3
  <2> QED BY <2>1, <2>3, <2>4
<1>11. file' = base \o SubSeq(L, 1, w + k)
  <2>1. IsSequence(base) /\ IsSequence(SubSeq(L, 1, w)) /\ IsSequence(SubSeq(out[p], 1, k))
    BY <1>5, <1>6, <1>8, SequenceOps DEF Structured
  <2>2. file' = base \o (SubSeq(L, 1, w) \o SubSeq(out[p], 1, k))
    <3> DEFINE x == SubSeq(L, 1, w)
               y == SubSeq(out[p], 1, k)
    <3>1. file = base \o x /\ file' = file \o y
      BY <1>1, <1>4
    <3>2. IsSequence(base) /\ IsSequence(x) /\ IsSequence(y)
      BY <2>1
    <3> HIDE DEF x, y
    <3>3. file' = base \o (x \o y)
      BY <3>1, <3>2, ConcatThree
    <3> QED BY <3>3 DEF x, y
  <2>3. SubSeq(L, 1, w) \o SubSeq(out[p], 1, k) = SubSeq(L, 1, w + k)
    BY <1>4, <1>6, <1>8, TakenFurther
  <2> QED BY <2>2, <2>3
<1>12. out'[p] = SubSeq(L, w + k + 1, Len(L))
  <2>1. SubSeq(SubSeq(L, w + 1, Len(L)), k + 1, Len(L) - w) = SubSeq(L, w + k + 1, Len(L))
    BY <1>6, <1>8, TakenFurther
  <2> QED BY <1>3, <1>4, <1>8, <2>1
<1>13. w + k \in 0..(3 * Len(b))
  BY <1>6, <1>8
<1>14. Structured(file') /\ ChainedFrom(EventsIn(file'), 0)
  <2> DEFINE v == w + k
  <2>1. v \in 0..(3 * Len(b)) /\ file' = base \o SubSeq(Lines(b), 1, v)
    BY <1>11, <1>13 DEF L, b
  <2> HIDE DEF v
  <2> QED BY <1>4, <1>5, <1>6, <1>9, <2>1, BatchInFile
<1>15. Begins(file, file')
  BY <1>1, <1>5, <1>6, <1>8, SequenceOps, ConcatBegins
<1>16. Seen(p)' = base
  BY <1>2, <1>5, <1>14, <1>15, PrefixOfPrefix DEF Seen, base, Structured
<1>17. Matches(p)'
  BY <1>2, <1>4, <1>16 DEF Matches, Remembers, base
<1>18. Prepared(p)'
  BY <1>2, <1>4 DEF Prepared
<1>19. Writing(p)'
  BY <1>4, <1>10, <1>11, <1>12, <1>16 DEF Writing
<1>20. Critical(p) /\ synced <= synced' /\ pc'[p] # "releaseOk"
  BY <1>2, <1>6, <1>5 DEF Critical
<1> QED BY <1>2, <1>3, <1>14, <1>15, <1>17, <1>18, <1>19, <1>20, FileStep

(* All of a batch has reached a terminated file: its records are found     *)
(* behind the others, and the file is terminated again.                    *)
LEMMA BatchWritten ==
    ASSUME NEW base, Structured(base), ~Unterminated(base), NEW b, IsSequence(b), b # <<>>,
           NEW f, f = base \o SubSeq(Lines(b), 1, Len(Lines(b)))
    PROVE  /\ EventsIn(f) = EventsIn(base) \o b /\ Structured(f) /\ ~Unterminated(f)
           /\ Range(b) \subseteq Range(EventsIn(f))
           /\ LastHash(EventsIn(f)) = b[Len(b)].hash
           /\ Len(EventsIn(f)) = Len(EventsIn(base)) + Len(b)
<1> DEFINE n == Len(b)
           L == Lines(b)
           g == EventsIn(base)
<1>1. n \in Nat /\ Len(L) = 3 * n /\ IsSequence(L) /\ \A k \in 1..n : L[3 * k] = NL
  BY LinesCells
<1>2. n # 0
  BY EmptyIsSequence, SameSequence
<1>3. SubSeq(L, 1, Len(L)) = L /\ f = base \o L
  BY <1>1, WholePrefix
<1>4. 3 * n \in 0..(3 * n) /\ f = base \o SubSeq(L, 1, 3 * n)
  BY <1>1
<1>5. /\ Structured(f)
      /\ \E m \in 0..n : 3 * m - 1 <= 3 * n /\ 3 * n <= 3 * m + 1 /\ EventsIn(f) = g \o SubSeq(b, 1, m)
  <2> DEFINE v == 3 * n
  <2>1. v \in 0..(3 * Len(b)) /\ f = base \o SubSeq(Lines(b), 1, v)
    BY <1>4
  <2> HIDE DEF v
  <2> DEFINE F == base \o SubSeq(Lines(b), 1, v)
  <2>2. /\ Structured(F)
        /\ \E m \in 0..Len(b) : /\ 3 * m - 1 <= v /\ v <= 3 * m + 1
                                /\ EventsIn(F) = EventsIn(base) \o SubSeq(b, 1, m)
    BY <2>1, EventsWritten
  <2>3. F = f
    BY <2>1
  <2> HIDE DEF F
  <2> QED BY <2>2, <2>3 DEF v
<1>6. PICK m \in 0..n : 3 * m - 1 <= 3 * n /\ 3 * n <= 3 * m + 1 /\ EventsIn(f) = g \o SubSeq(b, 1, m)
  BY <1>5
<1>7. EventsIn(f) = g \o b
  <2> HIDE DEF n
  <2>1. m = n
    BY <1>1, <1>6
  <2>2. SubSeq(b, 1, n) = b
    BY WholePrefix DEF n
  <2> QED BY <1>6, <2>1, <2>2
<1>8. IsSequence(base) /\ IsSequence(g)
  BY EventsFacts DEF Structured
<1> HIDE DEF L, g
<1>9. ~Unterminated(f)
  <2>1. /\ Len(f) = Len(base) + 3 * n /\ Len(base) \in Nat
        /\ \A i \in 1..Len(L) : f[Len(base) + i] = L[i]
    <3>1. Len(f) = Len(base) + Len(L) /\ Len(base) \in Nat /\ \A i \in 1..Len(L) : f[Len(base) + i] = L[i]
      <4> DEFINE y == base \o L
      <4>0. IsSequence(L) /\ IsSequence(base)
        BY <1>1, <1>8
      <4>1. Len(y) = Len(base) + Len(L) /\ Len(base) \in Nat /\ \A i \in 1..Len(L) : y[Len(base) + i] = L[i]
        BY <4>0, ConcatElements
      <4>2. f = y
        BY <1>3
      <4> HIDE DEF y
      <4> QED BY <4>1, <4>2
    <3> QED BY <1>1, <3>1
  <2>2. n \in 1..n /\ 3 * n \in 1..Len(L)
    BY <1>1, <1>2
  <2>3. f[Len(f)] = NL /\ NL.half = "nl"
    BY <1>1, <2>1, <2>2 DEF NL
  <2> QED BY <2>3 DEF Unterminated
<1> DEFINE e == EventsIn(f)
<1>10. /\ e = g \o b /\ IsSequence(e) /\ Len(e) = Len(g) + n /\ Len(g) \in Nat
       /\ \A i \in 1..n : e[Len(g) + i] = b[i]
  <2> DEFINE y == g \o b
  <2>1. /\ IsSequence(y) /\ Len(y) = Len(g) + Len(b) /\ Len(g) \in Nat
        /\ \A i \in 1..Len(b) : y[Len(g) + i] = b[i]
    BY <1>8, ConcatElements
  <2>2. e = y
    BY <1>7
  <2> HIDE DEF y, e
  <2>3. /\ IsSequence(e) /\ Len(e) = Len(g) + n /\ Len(g) \in Nat
        /\ \A i \in 1..n : e[Len(g) + i] = b[i]
    BY <2>1, <2>2
  <2> QED BY <2>2, <2>3 DEF y
<1> HIDE DEF e
<1>11. Range(b) \subseteq Range(e)
  <2>1. DOMAIN b = 1..n /\ DOMAIN e = 1..(Len(g) + n)
    BY <1>10 DEF IsSequence
  <2>2. \A i \in 1..n : Len(g) + i \in 1..(Len(g) + n)
    BY <1>1, <1>10
  <2> QED BY <1>10, <2>1, <2>2 DEF Range
<1>12. LastHash(e) = b[n].hash
  <2>1. n \in 1..n /\ Len(e) # 0
    BY <1>1, <1>2, <1>10
  <2>2. e[Len(e)] = b[n] /\ e # <<>>
    BY <1>10, <2>1, EmptyIsSequence
  <2> QED BY <2>2 DEF LastHash
<1> QED BY <1>5, <1>7, <1>9, <1>10, <1>11, <1>12 DEF e, g

(* The batch is durable and committed to memory: the instance remembers    *)
(* all of the file again.                                                  *)
LEMMA CommitFile ==
    ASSUME LockInv, WriteInv, WriteInv', FileInv, Calm \/ Alone, NEW p \in Proc, Commit(p)
    PROVE  FileInv'
<1> DEFINE L == Lines(batch[p])
           b == batch[p]
           base == Seen(p)
           g == EventsIn(base)
<1>1. /\ UNCHANGED <<file, batch, out, acked>> /\ synced' = Len(file)
      /\ pc[p] = "write" /\ out[p] = <<>>
      /\ pc' = [pc EXCEPT ![p] = "releaseOk"]
      /\ store' = [store EXCEPT
             ![p].globalLog = @ \o b,
             ![p].nextGlobalPosition = @ + Len(b),
             ![p].lastHash = b[Len(b)].hash,
             ![p].knownFileSize = @ + Len(L)]
  BY DEF Commit, Goto, ghostVars
<1>2. \A q \in Proc : pc'[q] = IF q = p THEN "releaseOk" ELSE pc[q]
  BY <1>1 DEF LockInv, LockType
<1>3. /\ ~Unterminated(base) /\ file = base \o SubSeq(L, 1, Written(p))
      /\ Matches(p) /\ Prepared(p) /\ ChainedFrom(EventsIn(file), 0) /\ Structured(file)
  BY <1>1 DEF FileInv, Writing
<1>4. /\ IsSequence(file) /\ Len(file) \in Nat /\ Structured(base) /\ IsSequence(g)
      /\ store[p].globalLog = g
  BY SeenFacts
<1>5. IsSequence(b) /\ IsSequence(L) /\ synced \in 0..Len(file) /\ Len(L) \in Nat
  BY LinesType, SequenceOps DEF WriteInv, WriteType
<1>6. Written(p) = Len(L)
  BY <1>1, <1>5, EmptyIsSequence DEF Written
<1>7. Len(file) = store[p].knownFileSize + Len(L)
  BY <1>1, <1>6 DEF WriteInv, WriterIsCurrent, Current
<1> HIDE DEF L, b
<1>8. /\ \A q \in Proc : q # p => store'[q] = store[q]
      /\ store'[p].knownFileSize = store[p].knownFileSize + Len(L)
      /\ store'[p].needsTrailingNewline = store[p].needsTrailingNewline
      /\ store'[p].globalLog = store[p].globalLog \o b
      /\ store'[p].lastHash = b[Len(b)].hash
      /\ store'[p].nextGlobalPosition = store[p].nextGlobalPosition + Len(b)
  BY <1>1 DEF WriteInv, WriteType, StoreFields
<1>9. b # <<>>
  BY <1>1, <1>3 DEF Prepared, Preparing, b
<1>10. /\ EventsIn(file) = g \o b /\ ~Unterminated(file) /\ Range(b) \subseteq Range(EventsIn(file))
       /\ LastHash(EventsIn(file)) = b[Len(b)].hash
       /\ Len(EventsIn(file)) = Len(g) + Len(b)
  <2>1. file = base \o SubSeq(Lines(b), 1, Len(Lines(b)))
    BY <1>3, <1>6 DEF L, b
  <2>2. Structured(base) /\ ~Unterminated(base) /\ IsSequence(b) /\ b # <<>>
    BY <1>3, <1>4, <1>5, <1>9
  <2> HIDE DEF base
  <2> QED BY <2>1, <2>2, BatchWritten
<1>11. Seen(p)' = file
  BY <1>1, <1>4, <1>7, <1>8, WholePrefix DEF Seen
<1>12. Matches(p)'
  <2>1. Remembers(store[p], g) /\ store[p].needsTrailingNewline = Unterminated(base)
    BY <1>3 DEF Matches
  <2>2. Unterminated(base) = FALSE /\ Unterminated(file) = FALSE
    BY <1>3, <1>10 DEF Unterminated
  <2>3. Len(g) \in Nat /\ Len(b) \in Nat
    BY <1>4, <1>5, SequenceOps
  <2> HIDE DEF g
  <2>4. store'[p].nextGlobalPosition = Len(EventsIn(file)) + 1
    BY <1>8, <1>10, <2>1, <2>3 DEF Remembers
  <2>5. Remembers(store'[p], EventsIn(file))
    BY <1>4, <1>8, <1>10, <2>4 DEF Remembers
  <2> QED BY <1>8, <1>11, <2>1, <2>2, <2>5 DEF Matches
<1>13. Prepared(p)' /\ Writing(p)'
  BY <1>2 DEF Prepared, Preparing, Writing
<1>14. /\ Structured(file') /\ ChainedFrom(EventsIn(file'), 0) /\ Begins(file, file')
       /\ synced <= synced'
  <2>1. synced <= Len(file)
    BY <1>4, <1>5
  <2> QED BY <1>1, <1>3, <1>4, <2>1, BeginsItself
<1>15. SubSeq(file', 1, synced') = file
  BY <1>1, <1>4, WholePrefix
<1>16. Range(batch'[p]) \subseteq Range(EventsIn(SubSeq(file', 1, synced')))
  BY <1>1, <1>10, <1>15 DEF b
<1> QED BY <1>1, <1>2, <1>8, <1>12, <1>13, <1>14, <1>16, FileStep

(* The empty file holds nothing.                                           *)
LEMMA EmptyFile ==
    /\ Structured(<<>>) /\ EventsIn(<<>>) = <<>> /\ ChainedFrom(<<>>, 0)
    /\ \A f : IsSequence(f) => SubSeq(f, 1, 0) = <<>>
<1>1. IsSequence(<<>>) /\ Len(<<>>) = 0
  BY EmptyIsSequence
<1>2. Structured(<<>>) /\ ChainedFrom(<<>>, 0)
  BY <1>1 DEF Structured, ChainedFrom
<1>3. EventsIn(<<>>) = <<>>
  <2> DEFINE e == EventsIn(<<>>)
             s == Starts(<<>>)
             z == Len(<<>>)
  <2>1. IsSequence(e) /\ Len(e) = Len(s) /\ s \in Seq(1..z)
    BY <1>1, EventsFacts, StartsFacts
  <2>2. z = 0
    BY <1>1
  <2> HIDE DEF e, s, z
  <2>3. Len(s) = 0
    <3>1. Len(s) \in Nat /\ \A i \in 1..Len(s) : s[i] \in 1..0
      BY <2>1, <2>2
    <3> QED BY <3>1
  <2>4. e = <<>>
    BY <1>1, <2>1, <2>3, SameSequence
  <2> QED BY <2>4 DEF e
<1>4. ASSUME NEW f, IsSequence(f) PROVE SubSeq(f, 1, 0) = <<>>
  <2>1. PICK S : f \in Seq(S)
    BY <1>4 DEF IsSequence
  <2> QED BY <2>1
<1> QED BY <1>2, <1>3, <1>4

(* A process that is down, or has just opened an empty file.               *)
LEMMA FreshMatches ==
    ASSUME NEW p \in Proc, IsSequence(file), store[p] = _loadFromFile(<<>>)
    PROVE  Matches(p)
<1>1. /\ Remembers(_loadFromFile(<<>>), <<>>) /\ _loadFromFile(<<>>).knownFileSize = 0
      /\ _loadFromFile(<<>>).needsTrailingNewline = Unterminated(<<>>)
  BY EmptyFile, EmptyIsSequence, LoadRemembers
<1>2. Seen(p) = <<>>
  BY <1>1, EmptyFile DEF Seen
<1> QED BY <1>1, <1>2, EmptyFile DEF Matches

(* A prefix of the file is a file like it.                                 *)
LEMMA ShorterFile ==
    ASSUME NEW f, Structured(f), ChainedFrom(EventsIn(f), 0), NEW n \in 0..Len(f)
    PROVE  Structured(SubSeq(f, 1, n)) /\ ChainedFrom(EventsIn(SubSeq(f, 1, n)), 0)
<1>1. Structured(SubSeq(f, 1, n)) /\ Begins(EventsIn(SubSeq(f, 1, n)), EventsIn(f))
  BY StructuredPrefix, EventsPrefix
<1>2. IsSequence(EventsIn(SubSeq(f, 1, n))) /\ IsSequence(EventsIn(f))
  BY <1>1, EventsFacts DEF Structured
<1> QED BY <1>1, <1>2, ChainPrefix

(* Processes go down; when all do, unsynced cells may be lost.             *)
LEMMA DownFile ==
    ASSUME LockInv, WriteInv, WriteInv', FileInv, NEW P \in SUBSET Proc, Down(P), acked' = acked,
           NEW n \in synced..Len(file), file' = SubSeq(file, 1, n),
           (P = Proc /\ synced' = n) \/ (file' = file /\ synced' = synced)
    PROVE  FileInv'
<1>1. /\ IsSequence(file) /\ IsSequence(file') /\ synced \in 0..Len(file) /\ Len(file) \in Nat
      /\ Structured(file) /\ ChainedFrom(EventsIn(file), 0)
  BY SequenceOps DEF WriteInv, WriteType, FileInv
<1>2. n \in 0..Len(file) /\ synced <= n
  BY <1>1
<1>3. Structured(file') /\ ChainedFrom(EventsIn(file'), 0) /\ Len(file') = n
  BY <1>1, <1>2, ShorterFile, PrefixElements
<1>4. \A q \in Proc :
         /\ pc'[q] = IF q \in P THEN "down" ELSE pc[q]
         /\ store'[q] = IF q \in P THEN _loadFromFile(<<>>) ELSE store[q]
         /\ batch'[q] = IF q \in P THEN <<>> ELSE batch[q]
         /\ out'[q] = IF q \in P THEN <<>> ELSE out[q]
  BY DEF Down
<1>5. ASSUME NEW q \in Proc PROVE Matches(q)' /\ Prepared(q)' /\ Writing(q)'
  <2>1. CASE q \in P
    <3>1. pc'[q] = "down" /\ store'[q] = _loadFromFile(<<>>)
      BY <1>4, <2>1
    <3>2. Matches(q)'
      <4>1. /\ Remembers(_loadFromFile(<<>>), <<>>) /\ _loadFromFile(<<>>).knownFileSize = 0
            /\ _loadFromFile(<<>>).needsTrailingNewline = Unterminated(<<>>)
        BY EmptyFile, EmptyIsSequence, LoadRemembers
      <4>2. Seen(q)' = <<>>
        BY <1>1, <3>1, <4>1, EmptyFile DEF Seen
      <4> QED BY <3>1, <4>1, <4>2, EmptyFile DEF Matches
    <3> QED BY <3>1, <3>2 DEF Prepared, Preparing, Writing
  <2>2. CASE q \notin P
    <3>1. /\ pc'[q] = pc[q] /\ store'[q] = store[q] /\ batch'[q] = batch[q] /\ out'[q] = out[q]
          /\ file' = file /\ Matches(q) /\ Prepared(q) /\ Writing(q)
      BY <1>4, <2>2 DEF FileInv
    <3>2. Seen(q)' = Seen(q) /\ Written(q)' = Written(q)
      BY <3>1 DEF Seen, Written
    <3> QED BY <3>1, <3>2 DEF Matches, Prepared, Writing
  <2> QED BY <2>1, <2>2
<1>6. Durable'
  <2>1. CASE P = Proc /\ synced' = n
    <3>1. Range(EventsIn(SubSeq(file, 1, synced))) \subseteq Range(EventsIn(SubSeq(file, 1, n)))
      BY <1>1, <1>2, BeginsItself, HeldStill
    <3>2. SubSeq(file', 1, synced') = SubSeq(file, 1, n)
      BY <1>1, <1>3, <2>1, WholePrefix
    <3>3. \A q \in Proc : pc'[q] # "releaseOk"
      BY <1>4, <2>1
    <3> QED BY <3>1, <3>2, <3>3 DEF FileInv, Durable
  <2>2. CASE file' = file /\ synced' = synced
    <3>1. \A q \in Proc : pc'[q] = "releaseOk" => pc[q] = "releaseOk" /\ batch'[q] = batch[q]
      BY <1>4
    <3> QED BY <2>2, <3>1 DEF FileInv, Durable
  <2> QED BY <2>1, <2>2
<1> QED BY <1>3, <1>5, <1>6 DEF FileInv

(* The empty store.                                                        *)
LEMMA DiskInit == Init => DiskInv
<1> SUFFICES ASSUME Init PROVE FileInv
  BY DEF DiskInv
<1>1. /\ file = <<>> /\ synced = 0 /\ acked = {}
      /\ \A p \in Proc : store[p] = _loadFromFile(<<>>) /\ pc[p] \in {"idle", "down"}
  BY DEF Init
<1>2. Structured(file) /\ ChainedFrom(EventsIn(file), 0) /\ IsSequence(file)
  BY <1>1, EmptyFile, EmptyIsSequence
<1>3. \A p \in Proc : Matches(p) /\ Prepared(p) /\ Writing(p)
  BY <1>1, <1>2, FreshMatches DEF Prepared, Preparing, Writing
<1>4. Durable
  BY <1>1 DEF Durable
<1> QED BY <1>2, <1>3, <1>4 DEF FileInv

(* Every step of the log keeps the file as it should be.                   *)
LEMMA DiskNext == LockInv /\ WriteInv /\ DiskInv /\ [Next]_vars => DiskInv'
<1> SUFFICES ASSUME LockInv, WriteInv, DiskInv, [Next]_vars, Calm' \/ Alone' PROVE FileInv'
  BY DEF DiskInv
<1>0. /\ WriteInv' /\ FileInv /\ (Calm \/ Alone) /\ bound.procs \subseteq Proc
      /\ IsSequence(file) /\ synced \in 0..Len(file) /\ Len(file) \in Nat
  BY WriteNext, CalmBefore, SequenceOps DEF DiskInv, LockInv, LockType, WriteInv, WriteType
<1>1. ASSUME NEW p \in bound.procs, Step(p) PROVE FileInv'
  <2>0. p \in Proc
    BY <1>0
  <2>1. CASE CreateLock(p) \/ WritePid(p) \/ ReadLockPid(p) \/ ProbeHolder(p) \/ UnlinkStale(p)
             \/ SpinWait(p)
    <3>1. UNCHANGED <<file, synced, store, batch, out, acked>> /\ pc[p] \in Preparing
      BY <2>1 DEF CreateLock, WritePid, ReadLockPid, ProbeHolder, UnlinkStale, SpinWait, ghostVars,
                  Preparing
    <3>2. PICK l \in {"create", "created", "readPid", "probe", "unlink", "spin", "locked"} : Goto(p, l)
      BY <2>1 DEF CreateLock, WritePid, ReadLockPid, ProbeHolder, UnlinkStale, SpinWait
    <3> QED BY <1>0, <2>0, <3>1, <3>2, WaitFile
  <2>2. CASE LockTimeout(p) \/ ReleaseLock(p)
    BY <1>0, <2>0, <2>2, EndFile
  <2>3. CASE DetectExternalAdvance(p)
    BY <1>0, <2>0, <2>3, DetectFile
  <2>4. CASE RepairNewline(p)
    BY <1>0, <2>0, <2>4, RepairFile
  <2>5. CASE WriteSome(p)
    BY <1>0, <2>0, <2>5, WriteSomeFile
  <2>6. CASE Commit(p)
    BY <1>0, <2>0, <2>6, CommitFile
  <2> QED BY <1>1, <2>1, <2>2, <2>3, <2>4, <2>5, <2>6 DEF Step
<1>2. ASSUME NEW p \in bound.procs, PidFails(p) \/ WriteFails(p) PROVE FileInv'
  BY <1>0, <1>2, EndFile, FailFile
<1>3. ASSUME NEW p \in bound.procs, Restart(p) \/ Reopen(p) PROVE FileInv'
  BY <1>0, <1>3, LoadFile
<1>4. ASSUME NEW p \in bound.procs, Crash(p) PROVE FileInv'
  <2>1. Down({p}) /\ UNCHANGED <<file, synced, acked>> /\ {p} \in SUBSET Proc
    BY <1>0, <1>4 DEF Crash
  <2>2. Len(file) \in synced..Len(file) /\ file' = SubSeq(file, 1, Len(file))
    BY <1>0, <2>1, WholePrefix
  <2> QED BY <1>0, <2>1, <2>2, DownFile
<1>5. CASE PowerLoss
  <2>1. PICK n \in synced..Len(file) : file' = SubSeq(file, 1, n)
    BY <1>5 DEF PowerLoss
  <2>2. Down(Proc) /\ synced' = Len(file') /\ acked' = acked /\ Proc \in SUBSET Proc
    BY <1>5 DEF PowerLoss
  <2>3. n \in 0..Len(file)
    BY <1>0
  <2>4. synced' = n
    BY <1>0, <2>1, <2>2, <2>3, PrefixElements
  <2> QED BY <1>0, <2>1, <2>2, <2>4, DownFile
<1>6. ASSUME NEW p \in bound.procs, NEW s, NEW n \in 1..bound.batch, NEW expected,
             BeginAppend(p, s, n, expected)
      PROVE  FileInv'
  <2>1. p \in Proc /\ n \in Nat \ {0}
    BY <1>0
  <2> QED BY <1>0, <1>6, <2>1, BeginFile
<1>7. CASE UNCHANGED vars
  <2>1. UNCHANGED <<file, synced, store, batch, out, pc, acked>>
    BY <1>7 DEF vars
  <2>2. \A q \in Proc : Seen(q)' = Seen(q) /\ Written(q)' = Written(q)
    BY <2>1 DEF Seen, Written
  <2>3. ASSUME NEW q \in Proc PROVE Matches(q)' /\ Prepared(q)' /\ Writing(q)'
    <3>1. Matches(q) /\ Prepared(q) /\ Writing(q)
      BY <1>0 DEF FileInv
    <3> QED BY <2>1, <2>2, <3>1 DEF Matches, Prepared, Writing
  <2>4. Durable'
    BY <1>0, <2>1 DEF FileInv, Durable
  <2> QED BY <1>0, <2>1, <2>3, <2>4 DEF FileInv
<1> QED BY <1>1, <1>2, <1>3, <1>4, <1>5, <1>6, <1>7 DEF Next

(* A prefix, as the abstract store says it.                                *)
LEMMA PrefixTerms ==
    ASSUME NEW s, IsSequence(s), NEW t, IsSequence(t), Begins(s, t)
    PROVE  Store!IsPrefix(s, t)
<1>1. Len(s) \in Nat /\ Len(s) \in 0..Len(s) /\ Len(s) <= Len(t)
  BY SequenceOps DEF Begins
<1>2. SubSeq(s, 1, Len(s)) = SubSeq(t, 1, Len(s)) /\ SubSeq(s, 1, Len(s)) = s
  BY <1>1, PrefixOfPrefix, WholePrefix
<1> QED BY <1>1, <1>2 DEF Store!IsPrefix

(* More of the file: records appended to the store, or nothing.            *)
LEMMA Grown ==
    ASSUME Structured(file), Structured(file'), Begins(file, file'),
           ChainedFrom(EventsIn(file'), 0), acked' = acked
    PROVE  [Store!EsNext]_(Store!esVars)
<1> DEFINE a == EventsIn(file)
           b == EventsIn(file')
<1>1. IsSequence(file) /\ IsSequence(file') /\ Len(file) \in 0..Len(file')
  BY SequenceOps DEF Structured, Begins
<1>2. SubSeq(file', 1, Len(file)) = file
  <2>1. Len(file) \in 0..Len(file)
    BY <1>1, SequenceOps
  <2> QED BY <1>1, <2>1, PrefixOfPrefix, WholePrefix
<1>3. Begins(a, b) /\ IsSequence(a) /\ IsSequence(b)
  BY <1>1, <1>2, EventsPrefix, EventsFacts
<1>4. CASE a = b
  BY <1>4 DEF Store!esVars
<1>5. CASE a # b
  <2>1. Store!IsStrictPrefix(a, b)
    BY <1>3, <1>5, PrefixTerms, StoreTerms
  <2>2. \A k \in Len(a) + 1..Len(b) : Store!Follows(SubSeq(b, 1, k - 1), b[k])
    <3> SUFFICES ASSUME NEW k \in Len(a) + 1..Len(b) PROVE Continues(SubSeq(b, 1, k - 1), b[k])
      BY StoreTerms
    <3>1. k \in 1..Len(b) /\ k > 0
      BY <1>3, SequenceOps
    <3> QED BY <3>1 DEF ChainedFrom
  <2>3. Store!Extends(a, b)
    BY <2>1, <2>2 DEF Store!Extends
  <2> QED BY <2>3 DEF Store!EsNext, Store!AppendEvents
<1> QED BY <1>4, <1>5

(* An append() that returns acknowledges its records.                      *)
LEMMA Acknowledged ==
    ASSUME FileInv', WriteInv', file' = file, acked \subseteq acked'
    PROVE  [Store!EsNext]_(Store!esVars)
<1>1. /\ Structured(file') /\ synced' \in 0..Len(file') /\ IsSequence(file')
      /\ acked' \subseteq Range(EventsIn(SubSeq(file', 1, synced')))
  BY DEF FileInv, Durable, WriteInv, WriteType
<1>2. /\ Len(file') \in 0..Len(file') /\ Len(file') \in Nat /\ synced' <= Len(file')
      /\ SubSeq(file', 1, Len(file')) = file'
  BY <1>1, SequenceOps, WholePrefix
<1>3. Range(EventsIn(SubSeq(file', 1, synced'))) \subseteq Range(EventsIn(SubSeq(file', 1, Len(file'))))
  BY <1>1, <1>2, BeginsItself, HeldStill
<1>4. acked' \subseteq Store!Range(EventsIn(file))
  BY <1>1, <1>2, <1>3, StoreTerms
<1> QED BY <1>4 DEF Store!EsNext, Store!Acknowledge

(* A power failure takes records back, none of them acknowledged.          *)
LEMMA Lost ==
    ASSUME FileInv, FileInv', WriteInv', Structured(file), NEW n \in 0..Len(file),
           file' = SubSeq(file, 1, n), synced' = Len(file'), acked' = acked
    PROVE  [Store!EsNext]_(Store!esVars)
<1> DEFINE a == EventsIn(file)
           b == EventsIn(file')
<1>1. Begins(b, a) /\ IsSequence(a) /\ IsSequence(b) /\ IsSequence(file')
  BY EventsPrefix, StructuredPrefix, EventsFacts DEF Structured
<1>2. acked \subseteq Store!Range(b)
  <2>1. SubSeq(file', 1, synced') = file'
    BY <1>1, WholePrefix
  <2>2. acked' \subseteq Range(EventsIn(SubSeq(file', 1, synced')))
    BY DEF FileInv, Durable
  <2> QED BY <2>1, <2>2, StoreTerms
<1>3. CASE a = b
  BY <1>3 DEF Store!esVars
<1>4. CASE a # b
  <2>1. Store!IsStrictPrefix(b, a)
    BY <1>1, <1>4, PrefixTerms, StoreTerms
  <2> QED BY <1>2, <2>1 DEF Store!EsNext, Store!Lose
<1> QED BY <1>3, <1>4

(* Every step of the log is a step of the event store or none.             *)
LEMMA StoreStep ==
    LockInv /\ WriteInv /\ WriteInv' /\ DiskInv /\ DiskInv' /\ (Calm \/ Alone)' /\ [Next]_vars
        => [Store!EsNext]_(Store!esVars)
<1> SUFFICES ASSUME LockInv, WriteInv, WriteInv', DiskInv, DiskInv', (Calm \/ Alone)', [Next]_vars
             PROVE  [Store!EsNext]_(Store!esVars)
  OBVIOUS
<1>0. /\ FileInv /\ FileInv' /\ Structured(file) /\ Structured(file') /\ ChainedFrom(EventsIn(file'), 0)
      /\ IsSequence(file) /\ synced \in 0..Len(file) /\ Len(file) \in Nat
  BY CalmBefore, SequenceOps DEF DiskInv, FileInv, WriteInv, WriteType
<1>1. CASE file' = file /\ acked' = acked
  BY <1>1 DEF Store!esVars
<1>2. ASSUME NEW p, RepairNewline(p) \/ WriteFails(p) PROVE [Store!EsNext]_(Store!esVars)
  <2>1. acked' = acked /\ (file' = file \/ file' = Append(file, NL))
    BY <1>2 DEF RepairNewline, WriteFails, ghostVars
  <2>2. Begins(file, file')
    BY <1>0, <2>1, BeginsItself, NewlineFacts
  <2> QED BY <1>0, <2>1, <2>2, Grown
<1>3. ASSUME NEW p \in bound.procs, WriteSome(p) PROVE [Store!EsNext]_(Store!esVars)
  <2>1. PICK k \in 1..Len(out[p]) : file' = file \o SubSeq(out[p], 1, k)
    BY <1>3 DEF WriteSome
  <2>2. IsSequence(out[p]) /\ k \in 0..Len(out[p])
    BY <2>1, SequenceOps DEF LockInv, LockType, WriteInv, WriteType
  <2>3. IsSequence(SubSeq(out[p], 1, k))
    BY <2>2, SequenceOps
  <2>4. Begins(file, file') /\ acked' = acked
    BY <1>0, <1>3, <2>1, <2>3, ConcatBegins DEF WriteSome, ghostVars
  <2> QED BY <1>0, <2>4, Grown
<1>4. ASSUME NEW p, ReleaseLock(p) PROVE [Store!EsNext]_(Store!esVars)
  <2>1. file' = file /\ acked \subseteq acked'
    BY <1>4 DEF ReleaseLock
  <2> QED BY <1>0, <2>1, Acknowledged
<1>5. CASE PowerLoss
  <2>1. PICK n \in synced..Len(file) : file' = SubSeq(file, 1, n)
    BY <1>5 DEF PowerLoss
  <2>2. n \in 0..Len(file) /\ synced' = Len(file') /\ acked' = acked
    BY <1>0, <1>5 DEF PowerLoss
  <2> QED BY <1>0, <2>1, <2>2, Lost
<1>6. ASSUME NEW p,
             CreateLock(p) \/ WritePid(p) \/ ReadLockPid(p) \/ ProbeHolder(p) \/ UnlinkStale(p)
             \/ SpinWait(p) \/ LockTimeout(p) \/ PidFails(p) \/ DetectExternalAdvance(p)
             \/ Commit(p) \/ Restart(p) \/ Reopen(p) \/ Crash(p)
      PROVE  file' = file /\ acked' = acked
  BY <1>6 DEF CreateLock, WritePid, ReadLockPid, ProbeHolder, UnlinkStale, SpinWait, LockTimeout,
              PidFails, DetectExternalAdvance, Commit, Restart, Reopen, Crash, ghostVars
<1>7. ASSUME NEW p, NEW s, NEW n, NEW expected, BeginAppend(p, s, n, expected)
      PROVE  file' = file /\ acked' = acked
  BY <1>7 DEF BeginAppend
<1>8. CASE UNCHANGED vars
  BY <1>1, <1>8 DEF vars
<1> QED BY <1>1, <1>2, <1>3, <1>4, <1>5, <1>6, <1>7, <1>8 DEF Next, Step

(* However writes are torn, repaired, retried and interleaved with opens,  *)
(* crashes and power failures: as long as the lock excludes (it does for   *)
(* a single process, without crashes, and for two processes none of which  *)
(* is started again), the file implements the event store.  It grows only  *)
(* by records that continue the chain and their streams, and loses none    *)
(* that was acknowledged.                                                  *)
THEOREM FileImplementsStore == Spec /\ [](Calm \/ Alone) => Implements
<1>1. Init => Store!EsInit
  BY EmptyFile DEF Init, Store!EsInit
<1> QED BY <1>1, LockInit, LockNext, WriteInit, WriteNext, DiskInit, DiskNext, StoreStep, PTL
        DEF Spec, Implements, Store!EsSpec

(* Whenever the lock excludes, no two records on disk carry the same       *)
(* globalPosition: a forked chain, which the stale-lock race can produce,  *)
(* needs two processes between create and release.                         *)
THEOREM ChainIsNotForked == Spec => [](Calm \/ Alone => NoForkedChain)
<1>1. ASSUME DiskInv, Calm \/ Alone PROVE NoForkedChain
  <2> DEFINE r == EventsIn(file)
  <2>1. IsSequence(r) /\ ChainedFrom(r, 0)
    BY <1>1, EventsFacts DEF DiskInv, FileInv, Structured
  <2>2. DOMAIN r = 1..Len(r) /\ \A k \in 1..Len(r) : r[k].ev.globalPosition = k
    BY <2>1, ChainFacts DEF IsSequence
  <2> HIDE DEF r
  <2>3. \A e, f \in Range(r) : e.ev.globalPosition = f.ev.globalPosition => e = f
    BY <2>2 DEF Range
  <2> QED BY <2>3 DEF NoForkedChain, r
<1> QED BY <1>1, LockInit, LockNext, WriteInit, WriteNext, DiskInit, DiskNext, PTL DEF Spec

==============================================================================
