---------------------------- MODULE ServiceProofs ----------------------------
(***************************************************************************)
(* Proofs about AttestiaService, for any number of requests, snapshots     *)
(* kept and deployments.                                                   *)
(***************************************************************************)
EXTENDS AttestiaService, DataLemmas, TLAPS

State == (SUBSET Op) \cup {Corrupt}
File == [version : Nat, state : State]
Call == [op : Op \cup {"none", "stop"}, at : {"idle", "apply", "save"}, next : 0..5]
Event == [op : Op, sub : Subsystem, orderIndex : Int]

(* The shape of the state.                                                 *)
TypeOK ==
    /\ log \in Seq(Event)
    /\ up \in {"down", "up", "refused"}
    /\ mem \in [Subsystem -> SUBSET Op]
    /\ disk \in [Stream -> SUBSET File]
    /\ run \in Call
    /\ queue \in Seq(Op) /\ attested \in SUBSET Op
    /\ assigned \in [Op -> Int]
    /\ result \in [Op -> {"new", "running", "ok", "thrown", "lost"}]
    /\ subOf \in [Op -> Subsystem \cup {"none"}]
    /\ unaudited \in SUBSET Op
    /\ dep \in Deployments
    /\ crashes \in Nat /\ truncations \in Nat /\ corruptions \in Nat

(* A stream has one file per version, and one of them is the newest.       *)
WellKept(files) ==
    /\ \A f, g \in files : f.version = g.version => f = g
    /\ files # {} => \E f \in files : \A g \in files : g.version <= f.version

(* Each request is logged at most once, under the subsystem it went to.    *)
LogOK ==
    /\ \A i, j \in 1..Len(log) : log[i].op = log[j].op => i = j
    /\ \A i \in 1..Len(log) : result[log[i].op] # "new" /\ subOf[log[i].op] = log[i].sub

(* Where the thread is, and what the callers in flight have behind them.   *)
ThreadOK ==
    /\ run.at = "idle" => run = Idle
    /\ run.at = "apply" =>
        /\ run.op \in Op /\ result[run.op] = "running"
        /\ Len(log) > 0 /\ log[Len(log)].op = run.op /\ subOf[run.op] \in dep.mutated
    /\ run.at = "save" =>
        /\ run.next \in 1..5 /\ run.op # "none"
        /\ run.op \in Op => result[run.op] = "running" /\ InMemory(run.op)
        /\ dep.cadence = "onShutdown" => run.op = "stop"
    /\ run.op \notin attested /\ \A k \in 1..Len(queue) : queue[k] # run.op
    /\ up # "up" => run = Idle /\ queue = <<>> /\ attested = {}
    /\ \A o \in Op : result[o] = "running" => up = "up" /\ o \in Logged
    /\ \A o \in attested : result[o] = "running" /\ subOf[o] = "registrar" /\ o \in mem["registrar"]

(* A set of registered attests, in memory or in a snapshot: those that are *)
(* logged have their order indexes in the order of the log, below the      *)
(* frontier; none is still waiting.                                        *)
LineageIn(S, events, index, known, waiting) ==
    /\ S \subseteq Op /\ IsFiniteSet(S)
    /\ \A o \in S : index[o] < Cardinality(S) /\ known[o] # "new"
    /\ \A o \in S : \A k \in 1..Len(waiting) : waiting[k] # o
    /\ \A i, j \in 1..Len(events) :
          i < j /\ events[i].op \in S /\ events[j].op \in S
            => index[events[i].op] < index[events[j].op]

Lineage(S) == LineageIn(S, log, assigned, result, queue)

(* The attests that wait are in the order of the log, and after those that *)
(* are registered.                                                         *)
QueueOK ==
    /\ \A k \in 1..Len(queue) : result[queue[k]] = "running" /\ subOf[queue[k]] = "registrar"
    /\ \A k, l \in 1..Len(queue) : queue[k] = queue[l] => k = l
    /\ \A k, l \in 1..Len(queue) : \A i, j \in 1..Len(log) :
          k < l /\ log[i].op = queue[k] /\ log[j].op = queue[l] => i < j
    /\ \A k \in 1..Len(queue) : \A i, j \in 1..Len(log) :
          log[i].op \in mem["registrar"] /\ log[j].op = queue[k] => i < j

LineageOK ==
    /\ Lineage(mem["registrar"])
    /\ \A f \in disk["registrar"] : f.state = Corrupt \/ Lineage(f.state)

Inv ==
    /\ TypeOK /\ LogOK /\ ThreadOK /\ QueueOK /\ LineageOK
    /\ \A s \in Stream : WellKept(disk[s])

-----------------------------------------------------------------------------
(* What holds while nobody cuts the log                                    *)

Newest(files, v, st) == files # {} /\ latest(files) = [version |-> v, state |-> st]

(* A request that must be found again: audited, not reported as failed,    *)
(* and, when it is an attest, acknowledged.                                *)
Tracked(o) == result[o] # "thrown" /\ (subOf[o] = "registrar" => result[o] = "ok")

Saved(o) ==
    \/ o \in warned
    \/ disk[subOf[o]] # {} /\ (o \in latest(disk[subOf[o]]).state \/ Damaged(subOf[o]))

DiskWithinLog ==
    /\ \A s \in Stream : \A f \in disk[s] : f.version <= Len(log)
    /\ \A s \in Subsystem :
        /\ mem[s] \ unaudited \subseteq Logged
        /\ \A f \in disk[s] : f.state = Corrupt \/ f.state \ unaudited \subseteq Logged
    /\ \A o \in Op : result[o] = "ok" => o \in unaudited \/ o \in Logged

MemTracked ==
    up = "up" => \A o \in Logged :
        Tracked(o) /\ ~(run.at = "apply" /\ run.op = o) => InMemory(o) \/ o \in warned

DiskTracked ==
    \A i \in 1..Len(log) : i <= stampedPosition /\ Tracked(log[i].op) => Saved(log[i].op)

SaveProgress ==
    /\ run.at = "save" => \A k \in 1..4 : k < run.next =>
            Newest(disk[SNAPSHOT_STREAMS[k]], Len(log), mem[SNAPSHOT_STREAMS[k]])
    /\ dep.cadence = "onShutdown" =>
            \A i \in 1..Len(log) : result[log[i].op] = "running" => i > stampedPosition

StopIsClean ==
    crashes = 0 /\ up = "down" =>
        disk["manifest"] # {} /\ latest(disk["manifest"]).version = Len(log)

Whole ==
    /\ DiskWithinLog /\ MemTracked /\ DiskTracked /\ SaveProgress /\ StopIsClean
    /\ up # "refused"

Uncut == truncations = 0 => Whole

(* No damage, no kill and no operator's override.                          *)
Orderly == crashes = 0 /\ corruptions = 0 /\ dep.overrides \subseteq {FALSE}

CutIsSeen ==
    /\ corruptions = 0 => \A s \in Stream : \A f \in disk[s] : f.state # Corrupt
    /\ Orderly /\ truncations > 0 => up # "up" /\ stampedPosition > Len(log)

FullInv == Inv /\ Uncut /\ CutIsSeen

-----------------------------------------------------------------------------
(* The streams, written out.                                               *)
LEMMA Streams ==
    /\ Len(SNAPSHOT_STREAMS) = 5
    /\ SNAPSHOT_STREAMS[1] = "registrar" /\ SNAPSHOT_STREAMS[2] = "vault"
    /\ SNAPSHOT_STREAMS[3] = "treasury" /\ SNAPSHOT_STREAMS[4] = "governance"
    /\ SNAPSHOT_STREAMS[5] = "manifest"
    /\ Stream = {"registrar", "vault", "treasury", "governance", "manifest"}
    /\ Subsystem = {"registrar", "vault", "treasury", "governance"}
<1>1. DOMAIN SNAPSHOT_STREAMS = 1..5
  BY DEF SNAPSHOT_STREAMS
<1>2. Stream = {SNAPSHOT_STREAMS[i] : i \in 1..5}
  BY <1>1 DEF Stream, ToSet
<1>3. /\ Len(SNAPSHOT_STREAMS) = 5
      /\ SNAPSHOT_STREAMS[1] = "registrar" /\ SNAPSHOT_STREAMS[2] = "vault"
      /\ SNAPSHOT_STREAMS[3] = "treasury" /\ SNAPSHOT_STREAMS[4] = "governance"
      /\ SNAPSHOT_STREAMS[5] = "manifest"
  BY DEF SNAPSHOT_STREAMS
<1>4. 1..5 = {1, 2, 3, 4, 5}
  OBVIOUS
<1>5. Stream = {"registrar", "vault", "treasury", "governance", "manifest"}
  BY <1>2, <1>3, <1>4
<1> QED BY <1>3, <1>5 DEF Subsystem

-----------------------------------------------------------------------------
(* The snapshot store                                                      *)

(* load finds the one file of the highest version.                         *)
LEMMA LatestIs ==
    ASSUME NEW files \in SUBSET File, WellKept(files), NEW f \in files,
           \A g \in files : g.version <= f.version
    PROVE  latest(files) = f
<1>1. Versions(files) \in SUBSET Nat /\ f.version \in Versions(files) /\ f.version \in Nat
      /\ \A v \in Versions(files) : v <= f.version
  BY DEF Versions, File
<1>2. /\ Max(Versions(files)) \in Versions(files)
      /\ \A v \in Versions(files) : v <= Max(Versions(files))
  BY <1>1, MaxIsGreatest
<1>3. Max(Versions(files)) = f.version
  BY <1>1, <1>2
<1> QED BY <1>3 DEF latest, WellKept

(* The newest file of a stream is the one of highest version.              *)
LEMMA LatestFacts ==
    ASSUME NEW files \in SUBSET File, WellKept(files), files # {}
    PROVE  /\ latest(files) \in files
           /\ \A g \in files : g.version <= latest(files).version
<1>1. PICK f \in files : \A g \in files : g.version <= f.version
  BY DEF WellKept
<1> QED BY <1>1, LatestIs

(* What a save leaves: the files are well kept, nothing but the new file   *)
(* is added, and the new file is the one load finds if it is the newest.   *)
LEMMA SaveFacts ==
    ASSUME NEW files \in SUBSET File, WellKept(files), NEW n \in Nat, NEW st \in State
    PROVE  /\ save(files, n, st) \in SUBSET File
           /\ WellKept(save(files, n, st))
           /\ \A f \in save(files, n, st) : f \in files \/ f = [version |-> n, state |-> st]
           /\ (\A f \in files : f.version <= n) => Newest(save(files, n, st), n, st)
<1> DEFINE new == [version |-> n, state |-> st]
           all == {f \in files : f.version # n} \cup {new}
<1>1. new \in File /\ new.version = n
  BY DEF File
<1>2. all \in SUBSET File /\ \A f, g \in all : f.version = g.version => f = g
  BY <1>1 DEF WellKept
<1>3. \E f \in all : \A g \in all : g.version <= f.version
  <2>1. CASE files = {}
    BY <1>1, <2>1
  <2>2. CASE files # {}
    <3>1. PICK f \in files : \A g \in files : g.version <= f.version
      BY <2>2 DEF WellKept
    <3>2. f.version \in Nat /\ \A g \in all : g = new \/ g \in files
      BY <3>1 DEF File
    <3>3. CASE f.version > n
      <4>1. f \in all
        BY <3>2, <3>3
      <4> QED BY <4>1, <3>1, <3>2, <3>3, <1>1
    <3>4. CASE f.version <= n
      <4>1. \A g \in all : g.version <= n
        <5> SUFFICES ASSUME NEW g \in files PROVE g.version <= n
          BY <1>1
        <5>1. g.version <= f.version /\ g.version \in Nat
          BY <3>1 DEF File
        <5> QED BY <5>1, <3>2, <3>4
      <4> QED BY <4>1, <1>1
    <3> QED BY <3>2, <3>3, <3>4
  <2> QED BY <2>1, <2>2
<1>4. save(files, n, st) = prune(all)
  BY DEF save
<1>5. prune(all) \subseteq all
  BY DEF prune
<1> HIDE DEF all
<1>6. \A f \in all : (\A g \in all : g.version <= f.version) => f \in prune(all)
  <2> SUFFICES ASSUME NEW f \in all, \A g \in all : g.version <= f.version
               PROVE  f \in prune(all)
    OBVIOUS
  <2>1. \A g \in all : g.version \in Nat
    BY <1>2 DEF File
  <2>2. {v \in Versions(all) : v > f.version} = {}
    BY <2>1 DEF Versions
  <2>3. Cardinality({v \in Versions(all) : v > f.version}) < Keep
    BY <2>2, FS_EmptySet, KeepIsPositive
  <2> QED BY <2>3 DEF prune
<1>7. WellKept(prune(all))
  BY <1>2, <1>3, <1>5, <1>6 DEF WellKept
<1>8. ASSUME \A f \in files : f.version <= n PROVE Newest(prune(all), n, st)
  <2>1. new \in all /\ \A g \in all : g.version <= new.version
    BY <1>1, <1>8 DEF all
  <2>2. new \in prune(all)
    BY <2>1, <1>6
  <2>3. latest(prune(all)) = new
    BY <2>1, <2>2, <1>2, <1>5, <1>7, LatestIs
  <2> QED BY <2>2, <2>3 DEF Newest
<1>9. \A f \in prune(all) : f \in files \/ f = new
  BY <1>5 DEF all
<1> QED BY <1>2, <1>4, <1>5, <1>7, <1>8, <1>9

(* Damage to the newest file leaves its version and takes its state.       *)
Damage(files) ==
    (files \ {latest(files)}) \cup {[latest(files) EXCEPT !.state = Corrupt]}

(* Damage hits the newest file and leaves the others.                      *)
LEMMA DamageFacts ==
    ASSUME NEW files \in SUBSET File, WellKept(files), files # {}
    PROVE  /\ Damage(files) \in SUBSET File /\ WellKept(Damage(files)) /\ Damage(files) # {}
           /\ latest(Damage(files)) = [latest(files) EXCEPT !.state = Corrupt]
           /\ latest(Damage(files)).state = Corrupt
           /\ latest(Damage(files)).version = latest(files).version
           /\ \A f \in Damage(files) : f \in files
                 \/ (f.state = Corrupt /\ f.version = latest(files).version)
<1> DEFINE g == [latest(files) EXCEPT !.state = Corrupt]
           after == Damage(files)
<1>0. after = (files \ {latest(files)}) \cup {g}
  BY DEF Damage
<1>1. /\ latest(files) \in files /\ latest(files) \in File
      /\ \A f \in files : f.version <= latest(files).version
  BY LatestFacts
<1>2. g \in File /\ g.version = latest(files).version /\ g.state = Corrupt
  BY <1>1 DEF File, State
<1> HIDE DEF g, after
<1>3. \A f \in files \ {latest(files)} : f.version # g.version
  BY <1>1, <1>2 DEF WellKept
<1>4. \A f, h \in after : f.version = h.version => f = h
  BY <1>0, <1>3 DEF WellKept
<1>5. after \in SUBSET File /\ g \in after /\ \A f \in after : f.version <= g.version
  BY <1>0, <1>1, <1>2 DEF File
<1>6. WellKept(after)
  BY <1>4, <1>5 DEF WellKept
<1>7. latest(after) = g
  BY <1>5, <1>6, LatestIs
<1> QED BY <1>0, <1>2, <1>5, <1>6, <1>7 DEF g, after

-----------------------------------------------------------------------------
(* The steps, with what each writes                                        *)

(* A log of events, and the sequence that waits, with one more at the end. *)
LEMMA LogFacts ==
    ASSUME TypeOK
    PROVE  /\ Len(log) \in Nat /\ Len(queue) \in Nat
           /\ \A i \in 1..Len(log) : log[i] \in Event /\ log[i].op \in Op /\ log[i].sub \in Subsystem
           /\ \A k \in 1..Len(queue) : queue[k] \in Op
           /\ dep.mutated \subseteq Subsystem \ {"registrar"}
           /\ Logged \subseteq Op
<1>1. dep.mutated \subseteq Subsystem \ {"registrar"}
  BY Streams, SubsystemsAreKnown DEF TypeOK
<1>2. log \in Seq(Event) /\ queue \in Seq(Op)
  BY DEF TypeOK
<1>3. Len(log) \in Nat /\ \A i \in 1..Len(log) : log[i] \in Event
  BY <1>2
<1>4. Len(queue) \in Nat /\ \A k \in 1..Len(queue) : queue[k] \in Op
  BY <1>2
<1>5. \A i \in 1..Len(log) : log[i].op \in Op /\ log[i].sub \in Subsystem
  BY <1>3 DEF Event
<1> QED BY <1>1, <1>3, <1>4, <1>5 DEF Logged

(* A load gives what some undamaged file holds, or nothing.                *)
LEMMA LoadFacts ==
    ASSUME TypeOK, NEW s \in Subsystem, WellKept(disk[s])
    PROVE  /\ load(disk[s]) \in SUBSET Op
           /\ load(disk[s]) = {} \/ \E f \in disk[s] : f.state = load(disk[s]) /\ f.state # Corrupt
<1>1. disk[s] \in SUBSET File
  BY DEF TypeOK, Subsystem
<1>2. disk[s] = {} \/ latest(disk[s]) \in disk[s]
  BY <1>1, LatestFacts
<1> QED BY <1>1, <1>2 DEF load, File, State

(* The states of a call in flight.                                         *)
LEMMA CallFacts ==
    /\ Idle \in Call
    /\ \A o \in Op : [op |-> o, at |-> "save", next |-> 1] \in Call
    /\ \A o \in Op : [op |-> o, at |-> "apply", next |-> 0] \in Call
    /\ [op |-> "stop", at |-> "save", next |-> 1] \in Call
    /\ \A c \in Call : c.next < 5 => [c EXCEPT !.next = c.next + 1] \in Call
BY DEF Idle, Call

(* A finished call saves, under the cadence that saves after each mutation,*)
(* or answers.                                                             *)
LEMMA FinishFacts ==
    ASSUME TypeOK, NEW o \in Op, Finish(o)
    PROVE  /\ run' \in Call
           /\ \/ /\ dep.cadence = "afterEachMutation" /\ result' = result
                 /\ run' = [op |-> o, at |-> "save", next |-> 1]
              \/ /\ dep.cadence # "afterEachMutation" /\ run' = Idle
                 /\ result' = [result EXCEPT ![o] = "ok"]
           /\ result' \in [Op -> {"new", "running", "ok", "thrown", "lost"}]
<1>1. \/ /\ dep.cadence = "afterEachMutation" /\ result' = result
         /\ run' = [op |-> o, at |-> "save", next |-> 1]
      \/ /\ dep.cadence # "afterEachMutation" /\ run' = Idle
         /\ result' = [result EXCEPT ![o] = "ok"]
  BY DEF Finish, Return
<1>2. CASE dep.cadence = "afterEachMutation"
  BY <1>1, <1>2, CallFacts DEF TypeOK
<1>3. CASE dep.cadence # "afterEachMutation"
  BY <1>1, <1>3, CallFacts DEF TypeOK
<1> QED BY <1>2, <1>3

(* One stream is written; after the last one the call ends.                *)
Target == SNAPSHOT_STREAMS[run.next]
Content == IF Target = "manifest" THEN {} ELSE mem[Target]

(* One stream of a save: the five streams in order, the manifest last.     *)
LEMMA SaveStreamFacts ==
    ASSUME TypeOK, ThreadOK, SaveStream
    PROVE  /\ up = "up" /\ run.at = "save" /\ run.next \in 1..5
           /\ Target \in Stream /\ Content \in State /\ (Target = "manifest" <=> run.next = 5)
           /\ disk' = [disk EXCEPT ![Target] = save(disk[Target], Len(log), Content)]
           /\ UNCHANGED <<log, assigned, ghostVars, faultVars>>
           /\ \/ /\ run.next < 5 /\ run' = [run EXCEPT !.next = run.next + 1]
                 /\ UNCHANGED <<up, mem, queue, attested, result>>
              \/ run.next = 5 /\ run.op = "stop" /\ Exit
              \/ /\ run.next = 5 /\ run.op \in Op /\ run' = Idle
                 /\ result' = [result EXCEPT ![run.op] = "ok"]
                 /\ UNCHANGED <<up, mem, queue, attested>>
<1>1. up = "up" /\ run.at = "save" /\ run.next \in 1..5 /\ run.op \in Op \cup {"stop"}
  BY DEF SaveStream, Saving, ThreadOK, TypeOK, Call
<1>2. Target \in Stream /\ (Target = "manifest" <=> run.next = 5)
      /\ (Target # "manifest" => Target \in Subsystem)
  BY <1>1, Streams DEF Target
<1>3. Content \in State
  BY <1>2 DEF Content, TypeOK, State
<1>4. disk' = [disk EXCEPT ![Target] = save(disk[Target], Len(log), Content)]
  BY DEF SaveStream, Target, Content, globalPosition
<1>5. UNCHANGED <<log, assigned, ghostVars, faultVars>>
  BY DEF SaveStream, attestVars
<1>6. CASE run.next < 5
  BY <1>1, <1>2, <1>3, <1>4, <1>5, <1>6, Streams DEF SaveStream, attestVars
<1>7. CASE run.next = 5
  <2>1. ~(run.next < Len(SNAPSHOT_STREAMS))
    BY <1>7, Streams
  <2>2. CASE run.op = "stop"
    BY <1>1, <1>2, <1>3, <1>4, <1>5, <1>7, <2>1, <2>2 DEF SaveStream
  <2>3. CASE run.op # "stop"
    BY <1>1, <1>2, <1>3, <1>4, <1>5, <1>7, <2>1, <2>3 DEF SaveStream, attestVars, Return
  <2> QED BY <2>2, <2>3
<1> QED BY <1>1, <1>6, <1>7

(* A process that ends loses its memory, its call and its queue.           *)
LEMMA ExitFacts ==
    ASSUME TypeOK, Exit
    PROVE  /\ up' = "down" /\ mem' = Empty /\ run' = Idle /\ queue' = <<>> /\ attested' = {}
           /\ mem' \in [Subsystem -> SUBSET Op]
           /\ result' \in [Op -> {"new", "running", "ok", "thrown", "lost"}]
           /\ \A o \in Op : result'[o] = IF result[o] = "running" THEN "lost" ELSE result[o]
BY DEF Exit, Empty, TypeOK

(* The registration at the head of the queue is refused or entered.        *)
LEMMA RegisterFacts ==
    ASSUME TypeOK, LineageOK, AttestRegister
    PROVE  /\ up = "up" /\ run = Idle /\ queue # <<>> /\ queue' = Tail(queue)
           /\ Head(queue) \in Op /\ queue' \in Seq(Op)
           /\ UNCHANGED <<log, up, disk, run, ghostVars, faultVars>>
           /\ \/ /\ result' = [result EXCEPT ![Head(queue)] = "thrown"]
                 /\ UNCHANGED <<mem, attested, assigned>>
              \/ /\ mem' = [mem EXCEPT !["registrar"] = @ \cup {Head(queue)}]
                 /\ assigned' = [assigned EXCEPT ![Head(queue)] = Cardinality(mem["registrar"])]
                 /\ attested' = attested \cup {Head(queue)}
                 /\ result' = result
           /\ Cardinality(mem["registrar"]) \in Nat
<1>1. queue \in Seq(Op) /\ queue # <<>> /\ queue' = Tail(queue)
  BY DEF AttestRegister, TypeOK
<1>2. Head(queue) \in Op /\ queue' \in Seq(Op)
  BY <1>1
<1>3. Cardinality(mem["registrar"]) \in Nat
  BY FS_CardinalityType DEF LineageOK, Lineage, LineageIn
<1>4. CASE ~lastStateId /\ mem["registrar"] # {}
  BY <1>1, <1>2, <1>3, <1>4 DEF AttestRegister, Ready, Return
<1>5. CASE ~(~lastStateId /\ mem["registrar"] # {})
  BY <1>1, <1>2, <1>3, <1>5 DEF AttestRegister, Ready, nextOrderIndex
<1> QED BY <1>4, <1>5

(* The types hold initially.                                               *)
LEMMA InitType == Init => TypeOK
<1> SUFFICES ASSUME Init PROVE TypeOK
  OBVIOUS
<1>1. Empty \in [Subsystem -> SUBSET Op]
  BY DEF Empty
<1>2. Idle \in Call
  BY CallFacts
<1>3. <<>> \in Seq(Event) /\ <<>> \in Seq(Op)
  OBVIOUS
<1>4. /\ [o \in Op |-> NoIndex] \in [Op -> Int]
      /\ [o \in Op |-> "new"] \in [Op -> {"new", "running", "ok", "thrown", "lost"}]
      /\ [o \in Op |-> "none"] \in [Op -> Subsystem \cup {"none"}]
  BY DEF NoIndex
<1> QED BY <1>1, <1>2, <1>3, <1>4 DEF Init, TypeOK

(* The types are kept by every step.                                       *)
LEMMA NextType ==
    TypeOK /\ ThreadOK /\ LineageOK /\ (\A s \in Stream : WellKept(disk[s])) /\ [Next]_vars => TypeOK'
<1> SUFFICES ASSUME TypeOK, ThreadOK, LineageOK, \A s \in Stream : WellKept(disk[s]),
                    [Next]_vars
             PROVE  TypeOK'
  OBVIOUS
<1>1. Empty \in [Subsystem -> SUBSET Op]
  BY DEF Empty
<1>2. Idle \in Call
  BY CallFacts
<1>4. CASE SaveStream
  <2>1. disk[Target] \in SUBSET File /\ WellKept(disk[Target]) /\ Len(log) \in Nat
    BY <1>4, SaveStreamFacts DEF TypeOK
  <2>2. save(disk[Target], Len(log), Content) \in SUBSET File
    BY <1>4, <2>1, SaveStreamFacts, SaveFacts
  <2>3. disk' \in [Stream -> SUBSET File]
    BY <1>4, <2>2, SaveStreamFacts DEF TypeOK
  <2>4. UNCHANGED <<log, assigned, ghostVars, faultVars>>
    BY <1>4, SaveStreamFacts
  <2>5. CASE Exit
    <3>1. queue' \in Seq(Op) /\ attested' \in SUBSET Op
      BY <2>5, ExitFacts
    <3> QED BY <1>2, <2>3, <2>4, <2>5, <3>1, ExitFacts DEF TypeOK, ghostVars, faultVars
  <2>6. CASE ~Exit
    <3>1. UNCHANGED <<up, mem, queue, attested>>
      BY <1>4, <2>6, SaveStreamFacts
    <3>2. run' \in Call
      BY <1>2, <1>4, <2>6, SaveStreamFacts, CallFacts DEF TypeOK
    <3>3. result' \in [Op -> {"new", "running", "ok", "thrown", "lost"}]
      BY <1>4, <2>6, SaveStreamFacts DEF TypeOK
    <3> QED BY <2>3, <2>4, <3>1, <3>2, <3>3 DEF TypeOK, ghostVars, faultVars
  <2> QED BY <2>5, <2>6
<1>5. CASE SaveFails \/ ApplyThrows
  BY <1>2, <1>5 DEF SaveFails, ApplyThrows, Return, TypeOK, ghostVars, faultVars, attestVars
<1>6. ASSUME NEW o \in Op, NEW s \in dep.mutated, _mutate(o, s) PROVE TypeOK'
  <2>1. s \in Subsystem
    BY LogFacts
  <2>2. log' \in Seq(Event)
    BY <1>6, <2>1 DEF _mutate, _audit, TypeOK, Event, NoIndex
  <2> QED BY <1>6, <2>1, <2>2, CallFacts
          DEF _mutate, _audit, Return, TypeOK, ghostVars, faultVars, attestVars
<1>7. ASSUME NEW o \in Op, AuditFails(o) PROVE TypeOK'
  BY <1>7 DEF AuditFails, Return, TypeOK, ghostVars, faultVars, attestVars
<1>8. CASE Apply
  <2>1. mem' \in [Subsystem -> SUBSET Op]
    BY <1>8 DEF Apply, ThreadOK, TypeOK
  <2>2. /\ run' \in Call
        /\ result' \in [Op -> {"new", "running", "ok", "thrown", "lost"}]
    BY <1>8, FinishFacts DEF Apply, ThreadOK
  <2> QED BY <1>8, <2>1, <2>2 DEF Apply, TypeOK, ghostVars, faultVars, attestVars
<1>9. ASSUME NEW o \in Op, NEW s \in dep.mutated, Setup(o, s) PROVE TypeOK'
  <2>1. s \in Subsystem
    BY LogFacts
  <2> QED BY <1>9, <2>1 DEF Setup, Return, TypeOK, ghostVars, faultVars, attestVars
<1>10. ASSUME NEW o \in Op, AttestAudit(o) PROVE TypeOK'
  <2>1. "registrar" \in Subsystem
    BY Streams
  <2>2. nextOrderIndex \in Int
    BY FS_CardinalityType DEF nextOrderIndex, LineageOK, Lineage, LineageIn
  <2> QED BY <1>10, <2>1, <2>2
          DEF AttestAudit, _audit, Return, TypeOK, Event, ghostVars, faultVars, attestVars
<1>11. CASE AttestRegister
  <2>1. "registrar" \in Subsystem
    BY Streams
  <2>2. result' \in [Op -> {"new", "running", "ok", "thrown", "lost"}]
    BY <1>11, RegisterFacts DEF TypeOK
  <2>3. mem' \in [Subsystem -> SUBSET Op]
    BY <1>11, <2>1, RegisterFacts DEF TypeOK
  <2>4. attested' \in SUBSET Op /\ assigned' \in [Op -> Int]
    BY <1>11, RegisterFacts DEF TypeOK
  <2> QED BY <1>11, <2>2, <2>3, <2>4, RegisterFacts DEF TypeOK, ghostVars, faultVars
<1>12. ASSUME NEW o \in Op, AttestResume(o) PROVE TypeOK'
  <2>1. /\ run' \in Call
        /\ result' \in [Op -> {"new", "running", "ok", "thrown", "lost"}]
    BY <1>12, FinishFacts DEF AttestResume
  <2> QED BY <1>12, <2>1 DEF AttestResume, TypeOK, ghostVars, faultVars
<1>13. CASE stop
  BY <1>13, CallFacts DEF stop, TypeOK, ghostVars, attestVars
<1>14. CASE Crash
  <2>1. result' \in [Op -> {"new", "running", "ok", "thrown", "lost"}]
    BY <1>14 DEF Crash, Exit, TypeOK
  <2> QED BY <1>1, <1>2, <1>14, <2>1 DEF Crash, Exit, TypeOK, ghostVars
<1>15. CASE TruncateLog
  BY <1>15 DEF TruncateLog, TypeOK, ghostVars, attestVars
<1>16. ASSUME NEW s \in Stream, CorruptSnapshot(s) PROVE TypeOK'
  <2>1. disk[s] \in SUBSET File /\ disk[s] # {}
    BY <1>16 DEF CorruptSnapshot, TypeOK
  <2>2. Damage(disk[s]) \in SUBSET File
    BY <2>1, DamageFacts
  <2>3. disk' \in [Stream -> SUBSET File]
    BY <1>16, <2>2 DEF CorruptSnapshot, Damage, TypeOK
  <2> QED BY <1>16, <2>3 DEF CorruptSnapshot, TypeOK, ghostVars, attestVars
<1>17. ASSUME NEW allow \in dep.overrides, restoreAll(allow) PROVE TypeOK'
  <2>1. mem' \in [Subsystem -> SUBSET Op]
    BY <1>17, LoadFacts DEF restoreAll, Subsystem
  <2> QED BY <1>17, <2>1 DEF restoreAll, TypeOK, faultVars
<1>18. CASE UNCHANGED vars
  BY <1>18 DEF vars, TypeOK
<1> QED BY <1>4, <1>5, <1>6, <1>7, <1>8, <1>9, <1>10, <1>11, <1>12, <1>13, <1>14, <1>15,
           <1>16, <1>17, <1>18 DEF Next, Thread, Request

(* The log with one event more, and cut.                                   *)
LEMMA AuditFacts ==
    ASSUME TypeOK, NEW o \in Op, NEW s \in Subsystem, NEW x \in Int, _audit(o, s, x)
    PROVE  /\ Len(log) \in Nat /\ Len(log') = Len(log) + 1
           /\ \A i \in 1..Len(log) : log'[i] = log[i]
           /\ log'[Len(log) + 1].op = o /\ log'[Len(log) + 1].sub = s
           /\ Logged' = Logged \cup {o}
           /\ subOf' = [subOf EXCEPT ![o] = s]
<1> DEFINE e == [op |-> o, sub |-> s, orderIndex |-> x]
<1>1. log \in Seq(Event) /\ e \in Event /\ log' = Append(log, e) /\ e.op = o /\ e.sub = s
  BY DEF TypeOK, Event, _audit
<1> HIDE DEF e
<1>2. /\ Len(log) \in Nat /\ Len(log') = Len(log) + 1
      /\ \A i \in 1..Len(log) : log'[i] = log[i]
      /\ log'[Len(log) + 1] = e
  BY <1>1
<1>3. Logged' = Logged \cup {o}
  <2>1. \A i \in 1..Len(log') : i \in 1..Len(log) \/ i = Len(log) + 1
    BY <1>2
  <2>2. \A i \in 1..Len(log) : i \in 1..Len(log')
    BY <1>2
  <2>3. Len(log) + 1 \in 1..Len(log')
    BY <1>2
  <2> QED BY <1>1, <1>2, <2>1, <2>2, <2>3 DEF Logged
<1> QED BY <1>1, <1>2, <1>3 DEF _audit

(* A torn tail leaves a proper prefix of the log.                          *)
LEMMA CutFacts ==
    ASSUME TypeOK, TruncateLog
    PROVE  /\ Len(log) \in Nat /\ Len(log') \in Nat /\ Len(log') < Len(log)
           /\ \A i \in 1..Len(log') : i \in 1..Len(log) /\ log'[i] = log[i]
<1>1. PICK n \in 0..(Len(log) - 1) : log' = SubSeq(log, 1, n)
  BY DEF TruncateLog
<1>2. log \in Seq(Event) /\ Len(log) \in Nat
  BY DEF TypeOK
<1> QED BY <1>1, <1>2

(* The logged operations are a function of the log.                        *)
LEMMA SameLogged == ASSUME UNCHANGED log PROVE Logged' = Logged
BY DEF Logged

(* The idle thread.                                                        *)
LEMMA IdleFacts == Idle.at = "idle" /\ Idle.op = "none" /\ Idle.next = 0
BY DEF Idle

(* The cases of a step, by what they do to the log and the calls in flight.*)
LEMMA NextLog == TypeOK /\ LogOK /\ ThreadOK /\ LineageOK /\ [Next]_vars => LogOK'
<1> SUFFICES ASSUME TypeOK, LogOK, ThreadOK, LineageOK, [Next]_vars PROVE LogOK'
  OBVIOUS
<1>1. /\ Len(log) \in Nat
      /\ \A i \in 1..Len(log) : log[i].op \in Op /\ log[i].sub \in Subsystem
  BY LogFacts
<1>2. ASSUME UNCHANGED <<log, subOf>>,
             \A p \in Op : result[p] # "new" => result'[p] # "new"
      PROVE  LogOK'
  BY <1>1, <1>2 DEF LogOK
<1>3. ASSUME NEW o \in Op, NEW s \in Subsystem, NEW x \in Int, _audit(o, s, x),
             result[o] = "new", result' = [result EXCEPT ![o] = "running"]
      PROVE  LogOK'
  <2>1. /\ Len(log') = Len(log) + 1 /\ \A i \in 1..Len(log) : log'[i] = log[i]
        /\ log'[Len(log) + 1].op = o /\ log'[Len(log) + 1].sub = s
        /\ subOf' = [subOf EXCEPT ![o] = s]
    BY <1>3, AuditFacts
  <2>2. \A i \in 1..Len(log) : log[i].op # o
    BY <1>3 DEF LogOK
  <2>3. \A i \in 1..Len(log') : i \in 1..Len(log) \/ i = Len(log) + 1
    BY <1>1, <2>1
  <2>4. \A i \in 1..Len(log') : result'[log'[i].op] # "new" /\ subOf'[log'[i].op] = log'[i].sub
    BY <1>1, <1>3, <2>1, <2>2, <2>3 DEF LogOK, TypeOK
  <2>5. \A i, j \in 1..Len(log') : log'[i].op = log'[j].op => i = j
    BY <2>1, <2>2, <2>3 DEF LogOK
  <2> QED BY <2>4, <2>5 DEF LogOK
<1>4. CASE SaveStream
  <2>1. UNCHANGED <<log, subOf>>
    BY <1>4, SaveStreamFacts DEF ghostVars
  <2>2. \A p \in Op : result[p] # "new" => result'[p] # "new"
    BY <1>4, SaveStreamFacts, ExitFacts DEF TypeOK
  <2> QED BY <1>2, <2>1, <2>2
<1>5. CASE SaveFails \/ ApplyThrows
  BY <1>2, <1>5 DEF SaveFails, ApplyThrows, Return, TypeOK, ghostVars
<1>6. ASSUME NEW o \in Op, NEW s \in dep.mutated, _mutate(o, s) PROVE LogOK'
  <2>1. s \in Subsystem /\ NoIndex \in Int
    BY LogFacts DEF NoIndex
  <2> QED BY <1>3, <1>6, <2>1 DEF _mutate, Return
<1>7. ASSUME NEW o \in Op, AuditFails(o) PROVE LogOK'
  BY <1>2, <1>7 DEF AuditFails, Return, TypeOK, ghostVars
<1>8. CASE Apply
  BY <1>2, <1>8, FinishFacts DEF Apply, ThreadOK, TypeOK, ghostVars
<1>9. ASSUME NEW o \in Op, NEW s \in dep.mutated, Setup(o, s) PROVE LogOK'
  BY <1>1, <1>9 DEF Setup, Return, TypeOK, LogOK
<1>10. ASSUME NEW o \in Op, AttestAudit(o) PROVE LogOK'
  <2>1. "registrar" \in Subsystem /\ nextOrderIndex \in Int
    BY Streams, FS_CardinalityType DEF nextOrderIndex, LineageOK, Lineage, LineageIn
  <2> QED BY <1>3, <1>10, <2>1 DEF AttestAudit, Return
<1>11. CASE AttestRegister
  BY <1>2, <1>11, RegisterFacts DEF TypeOK, ghostVars
<1>12. ASSUME NEW o \in Op, AttestResume(o) PROVE LogOK'
  BY <1>2, <1>12, FinishFacts DEF AttestResume, TypeOK, ghostVars
<1>13. CASE stop
  BY <1>2, <1>13 DEF stop, ghostVars
<1>14. CASE Crash
  BY <1>2, <1>14, ExitFacts DEF Crash, ghostVars
<1>15. CASE TruncateLog
  BY <1>15, CutFacts DEF TruncateLog, LogOK, ghostVars
<1>16. ASSUME NEW s \in Stream, CorruptSnapshot(s) PROVE LogOK'
  BY <1>2, <1>16 DEF CorruptSnapshot, ghostVars
<1>17. ASSUME NEW allow \in dep.overrides, restoreAll(allow) PROVE LogOK'
  BY <1>2, <1>17 DEF restoreAll
<1>18. CASE UNCHANGED vars
  BY <1>2, <1>18 DEF vars
<1> QED BY <1>4, <1>5, <1>6, <1>7, <1>8, <1>9, <1>10, <1>11, <1>12, <1>13, <1>14, <1>15,
           <1>16, <1>17, <1>18 DEF Next, Thread, Request

(* Where the thread is agrees with the log and with what its callers know. *)
LEMMA NextThread ==
    TypeOK /\ TypeOK' /\ LogOK /\ ThreadOK /\ QueueOK /\ LineageOK /\ [Next]_vars => ThreadOK'
<1> SUFFICES ASSUME TypeOK, TypeOK', LogOK, ThreadOK, QueueOK, LineageOK, [Next]_vars
             PROVE  ThreadOK'
  OBVIOUS
<1>1. /\ Len(log) \in Nat /\ Logged \subseteq Op
      /\ \A i \in 1..Len(log) : log[i].op \in Op /\ log[i].sub \in Subsystem
  BY LogFacts
(* After the call in progress, whatever becomes of its caller.             *)
<1>2. ASSUME UNCHANGED <<log, subOf, queue, dep>>, run' = Idle, up = "up", up' = "up",
             \A o \in Op : result'[o] = "running" => result[o] = "running",
             attested' \subseteq attested, \A o \in attested' : result'[o] = result[o],
             mem["registrar"] \subseteq mem'["registrar"]
      PROVE  ThreadOK'
  <2>1. Idle.op \notin Op
    BY IdleFacts, RequestsAreNoMarkers
  <2>2. Idle.op \notin attested' /\ \A k \in 1..Len(queue) : queue[k] # Idle.op
    BY <2>1, LogFacts DEF TypeOK
  <2> QED BY <1>2, <2>2, SameLogged, IdleFacts DEF ThreadOK
<1>3. ASSUME Exit, UNCHANGED <<log, subOf, dep>> PROVE ThreadOK'
  <2>1. 1..Len(queue') = {}
    BY <1>3, ExitFacts
  <2> QED BY <1>3, <2>1, ExitFacts, IdleFacts DEF ThreadOK
<1>4. CASE SaveStream
  <2>1. CASE run.next < 5
    <3>1. /\ run' = [run EXCEPT !.next = run.next + 1] /\ run.at = "save" /\ run.next \in 1..4
          /\ UNCHANGED <<up, mem, queue, attested, result, log, subOf, dep>>
      BY <1>4, <2>1, SaveStreamFacts DEF ghostVars, faultVars
    <3>2. run'.next \in 1..5 /\ run'.at = "save" /\ run'.op = run.op
      BY <3>1 DEF TypeOK, Call
    <3>3. run'.op # "none" /\ (dep'.cadence = "onShutdown" => run'.op = "stop")
      BY <3>1, <3>2 DEF ThreadOK
    <3>4. run'.op \in Op => result'[run'.op] = "running" /\ InMemory(run.op)'
      BY <3>1, <3>2 DEF ThreadOK, InMemory
    <3>5. run'.op \notin attested' /\ \A k \in 1..Len(queue') : queue'[k] # run'.op
      BY <3>1, <3>2 DEF ThreadOK
    <3>6. /\ \A o \in Op : result'[o] = "running" => up' = "up" /\ o \in Logged'
          /\ \A o \in attested' : /\ result'[o] = "running" /\ subOf'[o] = "registrar"
                                   /\ o \in mem'["registrar"]
      BY <3>1, SameLogged DEF ThreadOK
    <3>7. up' = "up"
      BY <1>4, <3>1, SaveStreamFacts
    <3> QED BY <3>2, <3>3, <3>4, <3>5, <3>6, <3>7 DEF ThreadOK, InMemory
  <2>2. CASE run.next = 5 /\ run.op = "stop"
    BY <1>3, <1>4, <2>2, SaveStreamFacts, RequestsAreNoMarkers DEF ghostVars, faultVars
  <2>3. CASE run.next = 5 /\ run.op # "stop"
    <3>1. /\ run' = Idle /\ up = "up" /\ run.op \in Op
          /\ result' = [result EXCEPT ![run.op] = "ok"]
          /\ UNCHANGED <<up, mem, queue, attested, log, subOf, dep>>
      BY <1>4, <2>3, SaveStreamFacts DEF ghostVars, faultVars
    <3>2. run.op \notin attested
      BY DEF ThreadOK
    <3> QED BY <1>2, <3>1, <3>2 DEF TypeOK
  <2> QED BY <1>4, <2>1, <2>2, <2>3, SaveStreamFacts
<1>5. CASE SaveFails \/ ApplyThrows
  BY <1>2, <1>5 DEF SaveFails, ApplyThrows, Saving, ThreadOK, Return, TypeOK, ghostVars, faultVars, attestVars
<1>6. ASSUME NEW o \in Op, NEW s \in dep.mutated, _mutate(o, s) PROVE ThreadOK'
  <2>1. s \in Subsystem /\ NoIndex \in Int
    BY LogFacts DEF NoIndex
  <2>2. /\ Len(log') = Len(log) + 1 /\ log'[Len(log')].op = o /\ Logged' = Logged \cup {o}
        /\ subOf' = [subOf EXCEPT ![o] = s]
    BY <1>6, <2>1, AuditFacts DEF _mutate
  <2>3. /\ up = "up" /\ run' = [op |-> o, at |-> "apply", next |-> 0] /\ result[o] = "new"
        /\ result' = [result EXCEPT ![o] = "running"]
        /\ UNCHANGED <<up, mem, queue, attested, dep>>
    BY <1>6 DEF _mutate, Ready, Return, attestVars, faultVars
  <2>4. o \notin attested /\ \A k \in 1..Len(queue) : queue[k] # o
    BY <2>3 DEF ThreadOK, QueueOK
  <2>5. \A p \in Op : p # o => result'[p] = result[p] /\ subOf'[p] = subOf[p]
    BY <2>2, <2>3 DEF TypeOK
  <2>6. result'[o] = "running" /\ subOf'[o] = s /\ subOf'[o] \in dep'.mutated
    BY <2>2, <2>3 DEF TypeOK
  <2>7. \A p \in attested : p # o /\ p \in Op
    BY <2>4 DEF TypeOK
  <2> QED BY <1>1, <2>2, <2>3, <2>4, <2>5, <2>6, <2>7 DEF ThreadOK
<1>7. ASSUME NEW o \in Op, AuditFails(o) PROVE ThreadOK'
  <2>1. /\ up = "up" /\ run = Idle /\ result[o] = "new"
        /\ result' = [result EXCEPT ![o] = "thrown"]
        /\ UNCHANGED <<log, subOf, queue, dep, run, up, attested, mem>>
    BY <1>7 DEF AuditFails, Ready, Return, attestVars, ghostVars
  <2>2. o \notin attested
    BY <2>1 DEF ThreadOK
  <2> QED BY <1>2, <2>1, <2>2 DEF TypeOK
<1>8. CASE Apply
  <2>1. /\ up = "up" /\ run.at = "apply" /\ run.op \in Op /\ Finish(run.op)
        /\ subOf[run.op] \in Subsystem \ {"registrar"}
        /\ mem' = [mem EXCEPT ![subOf[run.op]] = @ \cup {run.op}]
        /\ UNCHANGED <<log, up, queue, attested, subOf, dep>>
    BY <1>8, LogFacts DEF Apply, ThreadOK, attestVars, ghostVars, faultVars
  <2>2. mem'["registrar"] = mem["registrar"] /\ run.op \in mem'[subOf[run.op]]
    BY <2>1, Streams DEF TypeOK
  <2>3. CASE dep.cadence = "afterEachMutation"
    <3>1. result' = result /\ run' = [op |-> run.op, at |-> "save", next |-> 1]
      BY <2>1, <2>3, FinishFacts
    <3>2. run'.op = run.op /\ run'.at = "save" /\ run'.next = 1
      BY <3>1
    <3>3. run'.op # "none" /\ dep'.cadence # "onShutdown" /\ result'[run'.op] = "running"
      BY <2>1, <2>3, <3>1, <3>2, RequestsAreNoMarkers DEF ThreadOK
    <3>4. InMemory(run.op)'
      BY <2>1, <2>2, <3>2 DEF InMemory
    <3>5. /\ run'.op \notin attested' /\ \A k \in 1..Len(queue') : queue'[k] # run'.op
          /\ \A o \in Op : result'[o] = "running" => up' = "up" /\ o \in Logged'
          /\ \A o \in attested' : /\ result'[o] = "running" /\ subOf'[o] = "registrar"
                                   /\ o \in mem'["registrar"]
      BY <2>1, <2>2, <3>1, <3>2, SameLogged DEF ThreadOK
    <3> QED BY <2>1, <3>2, <3>3, <3>4, <3>5 DEF ThreadOK, InMemory
  <2>4. CASE dep.cadence # "afterEachMutation"
    <3>1. result' = [result EXCEPT ![run.op] = "ok"] /\ run' = Idle
      BY <2>1, <2>4, FinishFacts
    <3>2. run.op \notin attested
      BY DEF ThreadOK
    <3> QED BY <1>2, <2>1, <2>2, <3>1, <3>2 DEF TypeOK
  <2> QED BY <2>3, <2>4
<1>9. ASSUME NEW o \in Op, NEW s \in dep.mutated, Setup(o, s) PROVE ThreadOK'
  <2>1. /\ up = "up" /\ run = Idle /\ result[o] = "new" /\ result' = [result EXCEPT ![o] = "ok"]
        /\ mem' = [mem EXCEPT ![s] = @ \cup {o}] /\ subOf' = [subOf EXCEPT ![o] = s]
        /\ UNCHANGED <<log, up, run, queue, attested, dep>>
    BY <1>9 DEF Setup, Ready, Return, attestVars, faultVars
  <2>2. s \in Subsystem \ {"registrar"} /\ o \notin attested
    BY <2>1, LogFacts DEF ThreadOK
  <2>3. mem'["registrar"] = mem["registrar"]
    BY <2>1, <2>2, Streams DEF TypeOK
  <2>4. \A p \in Op : p # o => result'[p] = result[p] /\ subOf'[p] = subOf[p]
    BY <2>1 DEF TypeOK
  <2>5. result'[o] = "ok" /\ \A p \in attested : p \in Op /\ p # o
    BY <2>1, <2>2 DEF TypeOK
  <2> QED BY <2>1, <2>2, <2>3, <2>4, <2>5, SameLogged, IdleFacts DEF ThreadOK
<1>10. ASSUME NEW o \in Op, AttestAudit(o) PROVE ThreadOK'
  <2>1. "registrar" \in Subsystem /\ nextOrderIndex \in Int
    BY Streams, FS_CardinalityType DEF nextOrderIndex, LineageOK, Lineage, LineageIn
  <2>2. Logged' = Logged \cup {o} /\ subOf' = [subOf EXCEPT ![o] = "registrar"]
    BY <1>10, <2>1, AuditFacts DEF AttestAudit
  <2>3. /\ up = "up" /\ run = Idle /\ result[o] = "new" /\ result' = [result EXCEPT ![o] = "running"]
        /\ queue' = Append(queue, o) /\ UNCHANGED <<up, mem, attested, run, dep>>
    BY <1>10 DEF AttestAudit, Ready, Return, faultVars
  <2>4. \A p \in Op : p # o => result'[p] = result[p] /\ subOf'[p] = subOf[p]
    BY <2>2, <2>3 DEF TypeOK
  <2>5. \A p \in attested : p \in Op /\ p # o
    BY <2>3 DEF ThreadOK, TypeOK
  <2>6. \A k \in 1..Len(queue') : queue'[k] # run'.op
    <3>1. run'.op \notin Op
      BY <2>3, IdleFacts, RequestsAreNoMarkers
    <3>2. queue' \in Seq(Op)
      BY DEF TypeOK
    <3> QED BY <3>1, <3>2
  <2> QED BY <2>2, <2>3, <2>4, <2>5, <2>6, IdleFacts DEF ThreadOK
<1>11. CASE AttestRegister
  <2> DEFINE o == Head(queue)
  <2>1. /\ up = "up" /\ run = Idle /\ queue # <<>> /\ o \in Op /\ queue' = Tail(queue)
        /\ UNCHANGED <<log, up, run, subOf, dep>>
    BY <1>11, RegisterFacts DEF ghostVars, faultVars
  <2>2. 1 \in 1..Len(queue) /\ o = queue[1]
    BY <2>1 DEF TypeOK
  <2>3. result[o] = "running" /\ subOf[o] = "registrar" /\ o \notin mem["registrar"]
    BY <2>2 DEF QueueOK, LineageOK, Lineage, LineageIn
  <2>4. run'.op \notin attested' /\ \A k \in 1..Len(queue') : queue'[k] # run'.op
    <3>1. run'.op \notin Op
      BY <2>1, IdleFacts, RequestsAreNoMarkers
    <3>2. queue' \in Seq(Op) /\ attested' \in SUBSET Op
      BY DEF TypeOK
    <3> QED BY <3>1, <3>2
  <2> HIDE DEF o
  <2>5. CASE /\ result' = [result EXCEPT ![o] = "thrown"] /\ UNCHANGED <<mem, attested, assigned>>
    <3>1. o \notin attested
      BY <2>3 DEF ThreadOK
    <3> QED BY <2>1, <2>4, <2>5, <3>1, SameLogged, IdleFacts DEF ThreadOK, TypeOK
  <2>6. CASE /\ mem' = [mem EXCEPT !["registrar"] = @ \cup {o}]
             /\ attested' = attested \cup {o} /\ result' = result
    <3>1. mem'["registrar"] = mem["registrar"] \cup {o}
      BY <2>6, Streams DEF TypeOK
    <3> QED BY <2>1, <2>3, <2>4, <2>6, <3>1, SameLogged, IdleFacts DEF ThreadOK
  <2> QED BY <1>11, <2>5, <2>6, RegisterFacts DEF o
<1>12. ASSUME NEW o \in Op, AttestResume(o) PROVE ThreadOK'
  <2>1. /\ up = "up" /\ o \in attested /\ attested' = attested \ {o} /\ Finish(o)
        /\ UNCHANGED <<log, up, mem, queue, subOf, dep>>
    BY <1>12 DEF AttestResume, Ready, ghostVars, faultVars
  <2>2. result[o] = "running" /\ subOf[o] = "registrar" /\ o \in mem["registrar"]
    BY <2>1 DEF ThreadOK
  <2>3. CASE dep.cadence = "afterEachMutation"
    <3>1. result' = result /\ run' = [op |-> o, at |-> "save", next |-> 1]
      BY <2>1, <2>3, FinishFacts
    <3>2. \A k \in 1..Len(queue) : queue[k] # o
      BY <2>2 DEF LineageOK, Lineage, LineageIn
    <3>3. InMemory(o)'
      BY <2>1, <2>2, Streams DEF InMemory
    <3>4. run'.op = o /\ run'.at = "save" /\ run'.next = 1
      BY <3>1
    <3>5. o # "none" /\ dep'.cadence # "onShutdown" /\ result'[o] = "running"
      BY <2>1, <2>2, <2>3, <3>1, RequestsAreNoMarkers
    <3>6. /\ \A p \in Op : result'[p] = "running" => up' = "up" /\ p \in Logged'
          /\ \A p \in attested' : /\ result'[p] = "running" /\ subOf'[p] = "registrar"
                                   /\ p \in mem'["registrar"]
      BY <2>1, <3>1, SameLogged DEF ThreadOK
    <3> QED BY <2>1, <3>2, <3>3, <3>4, <3>5, <3>6 DEF ThreadOK, InMemory
  <2>4. CASE dep.cadence # "afterEachMutation"
    <3>1. result' = [result EXCEPT ![o] = "ok"] /\ run' = Idle
      BY <2>1, <2>4, FinishFacts
    <3> QED BY <1>2, <2>1, <3>1 DEF TypeOK
  <2> QED BY <2>3, <2>4
<1>13. CASE stop
  <2>1. /\ up = "up" /\ run' = [op |-> "stop", at |-> "save", next |-> 1]
        /\ UNCHANGED <<log, up, mem, queue, attested, result, subOf, dep>>
    BY <1>13 DEF stop, Ready, attestVars, ghostVars
  <2>2. "stop" \notin attested /\ \A k \in 1..Len(queue) : queue[k] # "stop"
    BY LogFacts, RequestsAreNoMarkers DEF TypeOK
  <2> QED BY <2>1, <2>2, SameLogged, RequestsAreNoMarkers DEF ThreadOK
<1>14. CASE Crash
  BY <1>3, <1>14 DEF Crash, ghostVars
<1>15. CASE TruncateLog
  BY <1>15, IdleFacts DEF TruncateLog, ThreadOK, ghostVars, attestVars
<1>16. ASSUME NEW s \in Stream, CorruptSnapshot(s) PROVE ThreadOK'
  BY <1>16, SameLogged DEF CorruptSnapshot, ThreadOK, InMemory, ghostVars, attestVars
<1>17. ASSUME NEW allow \in dep.overrides, restoreAll(allow) PROVE ThreadOK'
  BY <1>17, SameLogged, IdleFacts DEF restoreAll, ThreadOK, faultVars
<1>18. CASE UNCHANGED vars
  BY <1>18, SameLogged DEF vars, ThreadOK, InMemory
<1> QED BY <1>4, <1>5, <1>6, <1>7, <1>8, <1>9, <1>10, <1>11, <1>12, <1>13, <1>14, <1>15,
           <1>16, <1>17, <1>18 DEF Next, Thread, Request

(* A file that a step leaves in a stream was there, or holds what is in    *)
(* memory, or is damaged.                                                  *)
LEMMA NextKept ==
    TypeOK /\ ThreadOK /\ (\A s \in Stream : WellKept(disk[s])) /\ [Next]_vars
        => /\ \A s \in Stream : WellKept(disk'[s])
           /\ \A f \in disk'["registrar"] :
                 \/ f \in disk["registrar"]
                 \/ f.state = Corrupt
                 \/ f.state = mem["registrar"] /\ SaveStream
<1> SUFFICES ASSUME TypeOK, ThreadOK, \A s \in Stream : WellKept(disk[s]), [Next]_vars
             PROVE  /\ \A s \in Stream : WellKept(disk'[s])
                    /\ \A f \in disk'["registrar"] :
                          \/ f \in disk["registrar"]
                          \/ f.state = Corrupt
                          \/ f.state = mem["registrar"] /\ SaveStream
  OBVIOUS
<1>1. CASE SaveStream
  <2> DEFINE after == save(disk[Target], Len(log), Content)
  <2>1. Target \in Stream /\ Content \in State /\ disk' = [disk EXCEPT ![Target] = after]
    BY <1>1, SaveStreamFacts
  <2>2. disk[Target] \in SUBSET File /\ WellKept(disk[Target]) /\ Len(log) \in Nat
    BY <2>1 DEF TypeOK
  <2>3. /\ WellKept(after)
        /\ \A f \in after : f \in disk[Target] \/ f = [version |-> Len(log), state |-> Content]
    BY <2>1, <2>2, SaveFacts
  <2>4. Target = "registrar" => Content = mem["registrar"]
    BY DEF Content
  <2> HIDE DEF after
  <2> QED BY <1>1, <2>1, <2>3, <2>4, Streams DEF TypeOK
<1>2. ASSUME NEW s \in Stream, CorruptSnapshot(s)
      PROVE  /\ \A t \in Stream : WellKept(disk'[t])
             /\ \A f \in disk'["registrar"] : f \in disk["registrar"] \/ f.state = Corrupt
  <2>1. disk[s] \in SUBSET File /\ disk[s] # {} /\ WellKept(disk[s])
    BY <1>2 DEF CorruptSnapshot, TypeOK
  <2>2. disk' = [disk EXCEPT ![s] = Damage(disk[s])]
    BY <1>2 DEF CorruptSnapshot, Damage
  <2>3. WellKept(Damage(disk[s])) /\ \A f \in Damage(disk[s]) : f \in disk[s] \/ f.state = Corrupt
    BY <2>1, DamageFacts
  <2> QED BY <2>2, <2>3, Streams DEF TypeOK
<1>3. CASE UNCHANGED disk
  BY <1>3
<1> QED BY <1>1, <1>2, <1>3
        DEF Next, Thread, Request, Apply, AttestRegister, AttestResume, ApplyThrows, SaveFails,
            _mutate, Setup, AttestAudit, AuditFails, stop, Crash, TruncateLog, restoreAll, vars

(* No step disturbs a lineage, in memory or on disk.                       *)
LEMMA LineageKept ==
    TypeOK /\ LogOK /\ ThreadOK /\ QueueOK /\ LineageOK /\ [Next]_vars
        => \A S : LineageIn(S, log, assigned, result, queue)
                    => LineageIn(S, log', assigned', result', queue')
<1> SUFFICES ASSUME TypeOK, LogOK, ThreadOK, QueueOK, LineageOK, [Next]_vars,
                    NEW S, LineageIn(S, log, assigned, result, queue)
             PROVE  LineageIn(S, log', assigned', result', queue')
  OBVIOUS
<1>1. /\ Len(log) \in Nat /\ Len(queue) \in Nat /\ S \subseteq Op
      /\ \A o \in S : result[o] # "new" /\ \A k \in 1..Len(queue) : queue[k] # o
  BY LogFacts DEF LineageIn
<1>2. ASSUME \A o \in S : assigned'[o] = assigned[o] /\ result'[o] # "new",
             \A o \in S : \A k \in 1..Len(queue') : queue'[k] # o,
             \A i \in 1..Len(log') : log'[i].op \in S => i \in 1..Len(log) /\ log'[i] = log[i]
      PROVE  LineageIn(S, log', assigned', result', queue')
  BY <1>2 DEF LineageIn
<1>3. ASSUME UNCHANGED <<log, assigned, queue>>, \A o \in S : result'[o] # "new"
      PROVE  LineageIn(S, log', assigned', result', queue')
  BY <1>1, <1>2, <1>3
<1>4. ASSUME Exit, UNCHANGED <<log, assigned>>
      PROVE  LineageIn(S, log', assigned', result', queue')
  <2>1. 1..Len(queue') = {} /\ \A o \in S : result'[o] # "new"
    BY <1>1, <1>4, ExitFacts
  <2> QED BY <1>2, <1>4, <2>1
<1>5. ASSUME NEW o \in Op, NEW s \in Subsystem, NEW x \in Int, _audit(o, s, x),
             result[o] = "new", result' = [result EXCEPT ![o] = "running"],
             UNCHANGED assigned, queue' = queue \/ queue' = Append(queue, o)
      PROVE  LineageIn(S, log', assigned', result', queue')
  <2>1. /\ Len(log') = Len(log) + 1 /\ \A i \in 1..Len(log) : log'[i] = log[i]
        /\ log'[Len(log) + 1].op = o
    BY <1>5, AuditFacts
  <2>2. o \notin S /\ \A p \in S : result'[p] # "new"
    BY <1>1, <1>5 DEF TypeOK
  <2>3. \A i \in 1..Len(log') : i \in 1..Len(log) \/ i = Len(log) + 1
    BY <1>1, <2>1
  <2>4. \A p \in S : \A k \in 1..Len(queue') : queue'[k] # p
    <3>1. queue \in Seq(Op)
      BY DEF TypeOK
    <3>2. \A k \in 1..Len(queue') : queue'[k] = o \/ (k \in 1..Len(queue) /\ queue'[k] = queue[k])
      BY <1>5, <3>1
    <3> QED BY <1>1, <2>2, <3>2
  <2> QED BY <1>2, <1>5, <2>1, <2>2, <2>3, <2>4
<1>6. CASE SaveStream
  <2>1. UNCHANGED <<log, assigned>>
    BY <1>6, SaveStreamFacts
  <2>2. CASE Exit
    BY <1>4, <2>1, <2>2
  <2>3. CASE ~Exit
    <3>1. UNCHANGED queue /\ \A o \in S : result'[o] # "new"
      BY <1>1, <1>6, <2>3, SaveStreamFacts DEF TypeOK
    <3> QED BY <1>3, <2>1, <3>1
  <2> QED BY <2>2, <2>3
<1>7. CASE SaveFails \/ ApplyThrows
  BY <1>1, <1>3, <1>7 DEF SaveFails, ApplyThrows, Return, TypeOK, attestVars
<1>8. ASSUME NEW o \in Op, NEW s \in dep.mutated, _mutate(o, s)
      PROVE  LineageIn(S, log', assigned', result', queue')
  <2>1. s \in Subsystem /\ NoIndex \in Int
    BY LogFacts DEF NoIndex
  <2> QED BY <1>5, <1>8, <2>1 DEF _mutate, Return, attestVars
<1>9. ASSUME NEW o \in Op, AuditFails(o) PROVE LineageIn(S, log', assigned', result', queue')
  BY <1>1, <1>3, <1>9 DEF AuditFails, Return, TypeOK, attestVars
<1>10. CASE Apply
  BY <1>1, <1>3, <1>10, FinishFacts DEF Apply, ThreadOK, TypeOK, attestVars
<1>11. ASSUME NEW o \in Op, NEW s \in dep.mutated, Setup(o, s)
       PROVE  LineageIn(S, log', assigned', result', queue')
  BY <1>1, <1>3, <1>11 DEF Setup, Return, TypeOK, attestVars
<1>12. ASSUME NEW o \in Op, AttestAudit(o) PROVE LineageIn(S, log', assigned', result', queue')
  <2>1. "registrar" \in Subsystem /\ nextOrderIndex \in Int
    BY Streams, FS_CardinalityType DEF nextOrderIndex, LineageOK, Lineage, LineageIn
  <2> QED BY <1>5, <1>12, <2>1 DEF AttestAudit, Return
<1>13. CASE AttestRegister
  <2>1. /\ queue \in Seq(Op) /\ queue # <<>> /\ queue' = Tail(queue) /\ Head(queue) \in Op
        /\ UNCHANGED log
    BY <1>13, RegisterFacts DEF TypeOK
  <2>2. Head(queue) = queue[1] /\ 1 \in 1..Len(queue)
        /\ \A k \in 1..Len(queue') : k + 1 \in 1..Len(queue) /\ queue'[k] = queue[k + 1]
    BY <2>1
  <2>3. Head(queue) \notin S
    BY <1>1, <2>2
  <2>4. \A o \in S : assigned'[o] = assigned[o] /\ result'[o] = result[o]
    BY <1>1, <1>13, <2>1, <2>3, RegisterFacts DEF TypeOK
  <2> QED BY <1>1, <1>2, <2>1, <2>2, <2>4
<1>14. ASSUME NEW o \in Op, AttestResume(o) PROVE LineageIn(S, log', assigned', result', queue')
  BY <1>1, <1>3, <1>14, FinishFacts DEF AttestResume, TypeOK
<1>15. CASE stop
  BY <1>1, <1>3, <1>15 DEF stop, attestVars
<1>16. CASE Crash
  BY <1>4, <1>16 DEF Crash
<1>17. CASE TruncateLog
  <2>1. UNCHANGED <<assigned, queue, result>>
    BY <1>17 DEF TruncateLog, attestVars
  <2> QED BY <1>1, <1>2, <1>17, <2>1, CutFacts
<1>18. ASSUME NEW s \in Stream, CorruptSnapshot(s)
       PROVE  LineageIn(S, log', assigned', result', queue')
  BY <1>1, <1>3, <1>18 DEF CorruptSnapshot, attestVars
<1>19. ASSUME NEW allow \in dep.overrides, restoreAll(allow)
       PROVE  LineageIn(S, log', assigned', result', queue')
  BY <1>1, <1>3, <1>19 DEF restoreAll
<1>20. CASE UNCHANGED vars
  BY <1>1, <1>3, <1>20 DEF vars
<1> QED BY <1>6, <1>7, <1>8, <1>9, <1>10, <1>11, <1>12, <1>13, <1>14, <1>15,
           <1>16, <1>17, <1>18, <1>19, <1>20 DEF Next, Thread, Request

(* The registrar in memory stays, is emptied, is loaded or grows by the    *)
(* attest at the head of the queue.                                        *)
LEMMA RegistrarStep ==
    TypeOK /\ ThreadOK /\ LineageOK /\ [Next]_vars =>
        \/ mem'["registrar"] = mem["registrar"]
        \/ mem'["registrar"] = {} /\ queue' = <<>>
        \/ up = "down" /\ mem'["registrar"] = load(disk["registrar"]) /\ UNCHANGED <<queue, disk>>
        \/ AttestRegister /\ mem'["registrar"] = mem["registrar"] \cup {Head(queue)}
                          /\ assigned' = [assigned EXCEPT ![Head(queue)] = Cardinality(mem["registrar"])]
<1> SUFFICES ASSUME TypeOK, ThreadOK, LineageOK, [Next]_vars
             PROVE  \/ mem'["registrar"] = mem["registrar"]
                    \/ mem'["registrar"] = {} /\ queue' = <<>>
                    \/ up = "down" /\ mem'["registrar"] = load(disk["registrar"])
                       /\ UNCHANGED <<queue, disk>>
                    \/ /\ AttestRegister /\ mem'["registrar"] = mem["registrar"] \cup {Head(queue)}
                       /\ assigned' = [assigned EXCEPT ![Head(queue)] = Cardinality(mem["registrar"])]
  OBVIOUS
<1>1. "registrar" \in Subsystem
  BY Streams
<1>2. Exit => mem'["registrar"] = {} /\ queue' = <<>>
  BY <1>1 DEF Exit, Empty
<1>3. CASE SaveStream
  BY <1>2, <1>3, SaveStreamFacts
<1>4. CASE Apply
  <2>1. subOf[run.op] \in Subsystem \ {"registrar"}
    BY <1>4, LogFacts DEF Apply, ThreadOK
  <2> QED BY <1>1, <1>4, <2>1 DEF Apply, TypeOK
<1>5. ASSUME NEW o \in Op, NEW s \in dep.mutated, Setup(o, s)
      PROVE  mem'["registrar"] = mem["registrar"]
  <2>1. s \in Subsystem \ {"registrar"}
    BY LogFacts
  <2> QED BY <1>1, <1>5, <2>1 DEF Setup, TypeOK
<1>6. CASE AttestRegister
  <2>1. CASE mem' = mem
    BY <2>1
  <2>2. CASE mem' # mem
    <3>1. /\ mem' = [mem EXCEPT !["registrar"] = @ \cup {Head(queue)}]
          /\ assigned' = [assigned EXCEPT ![Head(queue)] = Cardinality(mem["registrar"])]
      BY <1>6, <2>2, RegisterFacts
    <3> QED BY <1>1, <1>6, <3>1 DEF TypeOK
  <2> QED BY <2>1, <2>2
<1>7. CASE Crash
  BY <1>2, <1>7 DEF Crash
<1>8. ASSUME NEW allow \in dep.overrides, restoreAll(allow)
      PROVE  up = "down" /\ mem'["registrar"] = load(disk["registrar"]) /\ UNCHANGED <<queue, disk>>
  BY <1>1, <1>8 DEF restoreAll
<1>9. CASE UNCHANGED mem
  BY <1>9
<1> QED BY <1>3, <1>4, <1>5, <1>6, <1>7, <1>8, <1>9
        DEF Next, Thread, Request, AttestResume, ApplyThrows, SaveFails, _mutate, AttestAudit,
            AuditFails, stop, TruncateLog, CorruptSnapshot, vars

(* Adding the attest at the head of the queue.                             *)
LEMMA LineageGrows ==
    ASSUME TypeOK, TypeOK', LogOK, QueueOK, LineageOK, AttestRegister,
           LineageIn(mem["registrar"], log', assigned', result', queue'),
           mem'["registrar"] = mem["registrar"] \cup {Head(queue)},
           assigned' = [assigned EXCEPT ![Head(queue)] = Cardinality(mem["registrar"])]
    PROVE  LineageIn(mem'["registrar"], log', assigned', result', queue')
<1> DEFINE S == mem["registrar"]
           o == Head(queue)
<1>1. /\ queue \in Seq(Op) /\ queue # <<>> /\ queue' = Tail(queue) /\ o \in Op /\ UNCHANGED log
      /\ Cardinality(S) \in Nat
      /\ result' = result \/ result' = [result EXCEPT ![o] = "thrown"]
  BY RegisterFacts DEF TypeOK
<1>2. o = queue[1] /\ 1 \in 1..Len(queue)
      /\ \A k \in 1..Len(queue') : k + 1 \in 1..Len(queue) /\ queue'[k] = queue[k + 1] /\ k + 1 # 1
  BY <1>1
<1>3. o \notin S /\ result[o] = "running" /\ \A k \in 1..Len(queue') : queue'[k] # o
  BY <1>2 DEF QueueOK, LineageOK, Lineage, LineageIn
<1>4. /\ S \subseteq Op /\ IsFiniteSet(S)
      /\ \A p \in S : assigned[p] < Cardinality(S) /\ assigned'[p] = assigned[p] /\ assigned[p] \in Int
      /\ assigned'[o] = Cardinality(S)
  BY <1>1, <1>3 DEF LineageOK, Lineage, LineageIn, TypeOK
<1>5. IsFiniteSet(S \cup {o}) /\ Cardinality(S \cup {o}) = Cardinality(S) + 1
  BY <1>3, <1>4, FS_AddElement
<1>6. \A p \in S \cup {o} : assigned'[p] < Cardinality(S \cup {o}) /\ result'[p] # "new"
  <2>1. \A p \in S : result'[p] # "new"
    BY DEF LineageIn
  <2>2. result'[o] # "new"
    BY <1>1, <1>3 DEF TypeOK
  <2>3. \A p \in S \cup {o} : assigned'[p] < Cardinality(S) + 1
    BY <1>1, <1>4
  <2> QED BY <1>5, <2>1, <2>2, <2>3
<1>7. \A p \in S \cup {o} : \A k \in 1..Len(queue') : queue'[k] # p
  BY <1>3 DEF LineageIn
<1>8. ASSUME NEW i \in 1..Len(log'), NEW j \in 1..Len(log'), i < j,
             log'[i].op \in S \cup {o}, log'[j].op \in S \cup {o}
      PROVE  assigned'[log'[i].op] < assigned'[log'[j].op]
  <2>1. CASE log'[i].op \in S /\ log'[j].op \in S
    BY <1>8, <2>1 DEF LineageIn
  <2>2. CASE log'[i].op \in S /\ log'[j].op = o
    BY <1>4, <2>2
  <2>3. CASE log'[i].op = o /\ log'[j].op = o
    BY <1>1, <1>8, <2>3 DEF LogOK
  <2>4. CASE log'[i].op = o /\ log'[j].op \in S
    <3>1. i \in Int /\ j \in Int /\ j < i
      BY <1>1, <1>2, <2>4 DEF QueueOK
    <3> QED BY <3>1, <1>8
  <2> QED BY <1>8, <2>1, <2>2, <2>3, <2>4
<1> HIDE DEF S, o
<1>9. LineageIn(S \cup {o}, log', assigned', result', queue')
  BY <1>1, <1>4, <1>5, <1>6, <1>7, <1>8 DEF LineageIn
<1> QED BY <1>9 DEF S, o

(* The attests registered in memory, and in every snapshot of the          *)
(* registrar, keep their order.                                            *)
LEMMA NextLineage ==
    Inv /\ TypeOK' /\ [Next]_vars => LineageOK'
<1> SUFFICES ASSUME Inv, TypeOK', [Next]_vars PROVE LineageOK'
  OBVIOUS
<1>1. TypeOK /\ LogOK /\ ThreadOK /\ QueueOK /\ LineageOK /\ \A s \in Stream : WellKept(disk[s])
  BY DEF Inv
<1>2. \A S : LineageIn(S, log, assigned, result, queue)
                => LineageIn(S, log', assigned', result', queue')
  BY <1>1, LineageKept
<1>3. LineageIn(mem["registrar"], log, assigned, result, queue)
  BY <1>1 DEF LineageOK, Lineage
<1>4. \A f \in disk["registrar"] : f.state = Corrupt \/ LineageIn(f.state, log, assigned, result, queue)
  BY <1>1 DEF LineageOK, Lineage
<1>5. \A f \in disk'["registrar"] :
          f.state = Corrupt \/ LineageIn(f.state, log', assigned', result', queue')
  BY <1>1, <1>2, <1>3, <1>4, NextKept
<1>6. LineageIn(mem'["registrar"], log', assigned', result', queue')
  <2>0. LineageIn({}, log', assigned', result', queue')
    BY FS_EmptySet DEF LineageIn
  <2>1. CASE mem'["registrar"] = mem["registrar"]
    BY <1>2, <1>3, <2>1
  <2>2. CASE mem'["registrar"] = {}
    BY <2>0, <2>2
  <2>3. CASE mem'["registrar"] = load(disk["registrar"])
    <3>1. "registrar" \in Subsystem /\ WellKept(disk["registrar"])
      BY <1>1, Streams
    <3>2. load(disk["registrar"]) = {} \/ \E f \in disk["registrar"] :
              f.state = load(disk["registrar"]) /\ f.state # Corrupt
      BY <1>1, <3>1, LoadFacts
    <3> QED BY <1>2, <1>4, <2>0, <2>3, <3>2
  <2>4. CASE /\ AttestRegister /\ mem'["registrar"] = mem["registrar"] \cup {Head(queue)}
             /\ assigned' = [assigned EXCEPT ![Head(queue)] = Cardinality(mem["registrar"])]
    BY <1>1, <1>2, <1>3, <2>4, LineageGrows
  <2> QED BY <1>1, <2>1, <2>2, <2>3, <2>4, RegistrarStep
<1> QED BY <1>5, <1>6 DEF LineageOK, Lineage

(* Waiting attests are running, distinct and in the order of the log,      *)
(* behind those registered.                                                *)
LEMMA NextQueue ==
    Inv /\ TypeOK' /\ [Next]_vars => QueueOK'
<1> SUFFICES ASSUME Inv, TypeOK', [Next]_vars PROVE QueueOK'
  OBVIOUS
<1>1. TypeOK /\ LogOK /\ ThreadOK /\ QueueOK /\ LineageOK
  BY DEF Inv
<1>2. /\ Len(log) \in Nat /\ queue \in Seq(Op) /\ Len(queue) \in Nat
      /\ \A k \in 1..Len(queue) : queue[k] \in Op /\ result[queue[k]] = "running"
                                 /\ subOf[queue[k]] = "registrar" /\ queue[k] # run.op
                                 /\ queue[k] \notin mem["registrar"]
  BY <1>1, LogFacts DEF TypeOK, QueueOK, ThreadOK, LineageOK, Lineage, LineageIn
<1>3. CASE queue' = <<>>
  <2>1. 1..Len(queue') = {}
    BY <1>3
  <2> QED BY <2>1 DEF QueueOK
<1>4. ASSUME UNCHANGED <<log, queue>>, mem'["registrar"] = mem["registrar"],
             \A o \in Op : result[o] = "running" /\ o # run.op => result'[o] = "running"
                                                          /\ subOf'[o] = subOf[o]
      PROVE  QueueOK'
  <2>1. \A k \in 1..Len(queue') : result'[queue'[k]] = "running" /\ subOf'[queue'[k]] = "registrar"
    BY <1>2, <1>4
  <2> QED BY <1>1, <1>4, <2>1 DEF QueueOK
<1>5. ASSUME NEW o \in Op, NEW s \in Subsystem, NEW x \in Int, _audit(o, s, x),
             result[o] = "new", result' = [result EXCEPT ![o] = "running"],
             mem'["registrar"] = mem["registrar"],
             queue' = queue \/ (queue' = Append(queue, o) /\ s = "registrar")
      PROVE  QueueOK'
  <2>1. /\ Len(log') = Len(log) + 1 /\ \A i \in 1..Len(log) : log'[i] = log[i]
        /\ log'[Len(log) + 1].op = o /\ subOf' = [subOf EXCEPT ![o] = s]
    BY <1>1, <1>5, AuditFacts
  <2>2. \A i \in 1..Len(log') : i \in 1..Len(log) \/ i = Len(log) + 1
    BY <1>2, <2>1
  <2>3. /\ \A k \in 1..Len(queue) : queue[k] # o
        /\ \A i \in 1..Len(log) : log[i].op # o
        /\ o \notin mem["registrar"]
    BY <1>1, <1>2, <1>5 DEF LogOK, LineageOK, Lineage, LineageIn
  <2>4. \A k \in 1..Len(queue') :
            \/ k \in 1..Len(queue) /\ queue'[k] = queue[k]
            \/ k = Len(queue) + 1 /\ queue'[k] = o /\ s = "registrar"
    BY <1>2, <1>5
  <2>5. /\ result'[o] = "running" /\ subOf'[o] = s
        /\ \A p \in Op : p # o => result'[p] = result[p] /\ subOf'[p] = subOf[p]
    BY <1>1, <1>5, <2>1 DEF TypeOK
  <2>6. \A k \in 1..Len(queue') : result'[queue'[k]] = "running" /\ subOf'[queue'[k]] = "registrar"
    BY <1>2, <2>3, <2>4, <2>5
  <2>7. \A k, l \in 1..Len(queue') : queue'[k] = queue'[l] => k = l
    BY <1>1, <2>3, <2>4 DEF QueueOK
  <2>8. ASSUME NEW k \in 1..Len(queue'), NEW l \in 1..Len(queue'), NEW i \in 1..Len(log'),
               NEW j \in 1..Len(log'), k < l, log'[i].op = queue'[k], log'[j].op = queue'[l]
        PROVE  i < j
    <3>1. k \in 1..Len(queue) /\ queue'[k] = queue[k]
      BY <1>2, <2>4, <2>8
    <3>2. i \in 1..Len(log) /\ log'[i] = log[i]
      BY <2>1, <2>2, <2>3, <2>8, <3>1
    <3>3. CASE j = Len(log) + 1
      BY <1>2, <3>2, <3>3
    <3>4. CASE j # Len(log) + 1
      <4>1. j \in 1..Len(log) /\ log'[j] = log[j]
        BY <2>1, <2>2, <3>4
      <4>2. l \in 1..Len(queue) /\ queue'[l] = queue[l]
        BY <2>3, <2>4, <2>8, <4>1
      <4> QED BY <1>1, <2>8, <3>1, <3>2, <4>1, <4>2 DEF QueueOK
    <3> QED BY <3>3, <3>4
  <2>9. ASSUME NEW k \in 1..Len(queue'), NEW i \in 1..Len(log'), NEW j \in 1..Len(log'),
               log'[i].op \in mem'["registrar"], log'[j].op = queue'[k]
        PROVE  i < j
    <3>2. i \in 1..Len(log) /\ log'[i] = log[i]
      BY <1>5, <2>1, <2>2, <2>3, <2>9
    <3>3. CASE j = Len(log) + 1
      BY <1>2, <3>2, <3>3
    <3>4. CASE j # Len(log) + 1
      <4>1. j \in 1..Len(log) /\ log'[j] = log[j]
        BY <2>1, <2>2, <3>4
      <4>2. k \in 1..Len(queue) /\ queue'[k] = queue[k]
        BY <2>3, <2>4, <2>9, <4>1
      <4> QED BY <1>1, <1>5, <2>9, <3>2, <4>1, <4>2 DEF QueueOK
    <3> QED BY <3>3, <3>4
  <2> QED BY <2>6, <2>7, <2>8, <2>9 DEF QueueOK
<1>6. CASE AttestRegister
  <2> DEFINE o == Head(queue)
  <2>1. /\ queue # <<>> /\ queue' = Tail(queue) /\ o \in Op /\ UNCHANGED <<log, subOf>>
        /\ \A p \in Op : p # o => result'[p] = result[p]
    BY <1>1, <1>6, RegisterFacts DEF TypeOK, ghostVars
  <2>2. /\ o = queue[1] /\ 1 \in 1..Len(queue)
        /\ \A k \in 1..Len(queue') : k + 1 \in 1..Len(queue) /\ queue'[k] = queue[k + 1] /\ k + 1 > 1
    BY <1>2, <2>1
  <2>3. \A k \in 1..Len(queue') : queue'[k] # o
    BY <1>1, <2>2 DEF QueueOK
  <2>4. \A k \in 1..Len(queue') : result'[queue'[k]] = "running" /\ subOf'[queue'[k]] = "registrar"
    BY <1>2, <2>1, <2>2, <2>3
  <2>5. mem'["registrar"] \subseteq mem["registrar"] \cup {o}
    BY <1>1, <1>6, Streams, RegisterFacts DEF TypeOK
  <2>6. \A k, l \in 1..Len(queue') : queue'[k] = queue'[l] => k = l
    BY <1>1, <2>2 DEF QueueOK
  <2>7. ASSUME NEW k \in 1..Len(queue'), NEW l \in 1..Len(queue'), NEW i \in 1..Len(log),
               NEW j \in 1..Len(log), k < l, log[i].op = queue'[k], log[j].op = queue'[l]
        PROVE  i < j
    <3>1. k + 1 \in 1..Len(queue) /\ l + 1 \in 1..Len(queue) /\ k + 1 < l + 1
          /\ queue'[k] = queue[k + 1] /\ queue'[l] = queue[l + 1]
      BY <2>2, <2>7
    <3> QED BY <1>1, <2>7, <3>1 DEF QueueOK
  <2>8. ASSUME NEW k \in 1..Len(queue'), NEW i \in 1..Len(log), NEW j \in 1..Len(log),
               log[i].op \in mem'["registrar"], log[j].op = queue'[k]
        PROVE  i < j
    <3>1. k + 1 \in 1..Len(queue) /\ 1 < k + 1 /\ queue'[k] = queue[k + 1]
      BY <2>2
    <3>2. CASE log[i].op \in mem["registrar"]
      BY <1>1, <2>8, <3>1, <3>2 DEF QueueOK
    <3>3. CASE log[i].op = o
      BY <1>1, <2>2, <2>8, <3>1, <3>3 DEF QueueOK
    <3> QED BY <2>5, <2>8, <3>2, <3>3
  <2> QED BY <2>1, <2>4, <2>6, <2>7, <2>8 DEF QueueOK
<1>7. CASE SaveStream
  <2>1. CASE Exit
    BY <1>3, <2>1 DEF Exit
  <2>2. CASE ~Exit
    BY <1>1, <1>4, <1>7, <2>2, SaveStreamFacts DEF TypeOK, ghostVars
  <2> QED BY <2>1, <2>2
<1>8. CASE SaveFails \/ ApplyThrows
  BY <1>1, <1>4, <1>8 DEF SaveFails, ApplyThrows, Return, TypeOK, attestVars, ghostVars
<1>9. ASSUME NEW o \in Op, NEW s \in dep.mutated, _mutate(o, s) PROVE QueueOK'
  <2>1. s \in Subsystem /\ NoIndex \in Int
    BY <1>1, LogFacts DEF NoIndex
  <2> QED BY <1>5, <1>9, <2>1 DEF _mutate, Return, attestVars
<1>10. ASSUME NEW o \in Op, AuditFails(o) PROVE QueueOK'
  BY <1>1, <1>4, <1>10 DEF AuditFails, Return, TypeOK, attestVars, ghostVars
<1>11. CASE Apply
  <2>1. subOf[run.op] # "registrar" /\ run.op \in Op
    BY <1>1, <1>11, LogFacts DEF Apply, ThreadOK
  <2>2. mem'["registrar"] = mem["registrar"] /\ UNCHANGED <<log, queue, subOf>>
    BY <1>1, <1>11, <2>1, Streams DEF Apply, TypeOK, attestVars, ghostVars
  <2>3. \A o \in Op : o # run.op => result'[o] = result[o]
    BY <1>1, <1>11, <2>1, FinishFacts DEF Apply, TypeOK
  <2> QED BY <1>4, <2>2, <2>3
<1>12. ASSUME NEW o \in Op, NEW s \in dep.mutated, Setup(o, s) PROVE QueueOK'
  <2>1. s # "registrar"
    BY <1>1, LogFacts
  <2>2. mem'["registrar"] = mem["registrar"] /\ UNCHANGED <<log, queue>> /\ result[o] = "new"
    BY <1>1, <1>12, <2>1, Streams DEF Setup, TypeOK, attestVars
  <2>3. \A p \in Op : p # o => result'[p] = result[p] /\ subOf'[p] = subOf[p]
    BY <1>1, <1>12 DEF Setup, Return, TypeOK
  <2> QED BY <1>4, <2>2, <2>3
<1>13. ASSUME NEW o \in Op, AttestAudit(o) PROVE QueueOK'
  <2>1. "registrar" \in Subsystem /\ nextOrderIndex \in Int
    BY <1>1, Streams, FS_CardinalityType DEF nextOrderIndex, LineageOK, Lineage, LineageIn
  <2> QED BY <1>5, <1>13, <2>1 DEF AttestAudit, Return
<1>14. ASSUME NEW o \in Op, AttestResume(o) PROVE QueueOK'
  <2>1. /\ o \in mem["registrar"] /\ UNCHANGED <<log, queue, mem, subOf>>
    BY <1>1, <1>14 DEF AttestResume, ThreadOK, ghostVars
  <2>2. \A p \in Op : p # o => result'[p] = result[p]
    BY <1>1, <1>14, FinishFacts DEF AttestResume, TypeOK
  <2>3. \A k \in 1..Len(queue) : result'[queue[k]] = "running"
    BY <1>2, <2>1, <2>2
  <2> QED BY <1>1, <1>2, <2>1, <2>3 DEF QueueOK
<1>15. CASE stop
  BY <1>4, <1>15 DEF stop, attestVars, ghostVars
<1>16. CASE Crash
  BY <1>3, <1>16 DEF Crash, Exit
<1>17. CASE TruncateLog
  BY <1>1, <1>3, <1>17 DEF TruncateLog, attestVars, ThreadOK
<1>18. ASSUME NEW s \in Stream, CorruptSnapshot(s) PROVE QueueOK'
  BY <1>4, <1>18 DEF CorruptSnapshot, attestVars, ghostVars
<1>19. ASSUME NEW allow \in dep.overrides, restoreAll(allow) PROVE QueueOK'
  BY <1>1, <1>3, <1>19 DEF restoreAll, ThreadOK
<1>20. CASE UNCHANGED vars
  BY <1>4, <1>20 DEF vars
<1> QED BY <1>6, <1>7, <1>8, <1>9, <1>10, <1>11, <1>12, <1>13, <1>14, <1>15,
           <1>16, <1>17, <1>18, <1>19, <1>20 DEF Next, Thread, Request

-----------------------------------------------------------------------------
(* The structural invariant holds initially.                               *)
LEMMA InitInv == Init => Inv
<1> SUFFICES ASSUME Init PROVE Inv
  OBVIOUS
<1>1. TypeOK
  BY InitType
<1>2. 1..Len(log) = {} /\ 1..Len(queue) = {} /\ Logged = {} /\ run = Idle /\ mem["registrar"] = {}
  BY Streams DEF Init, Logged, Empty
<1>3. LogOK /\ QueueOK
  BY <1>2 DEF LogOK, QueueOK
<1>4. ThreadOK
  BY <1>2, IdleFacts DEF Init, ThreadOK
<1>5. Lineage({})
  BY FS_EmptySet DEF Lineage, LineageIn
<1>6. LineageOK
  BY <1>2, <1>5, Streams DEF Init, LineageOK
<1>7. \A s \in Stream : WellKept(disk[s])
  BY DEF Init, WellKept
<1> QED BY <1>1, <1>3, <1>4, <1>6, <1>7 DEF Inv

(* The structural invariant is inductive.                                  *)
LEMMA NextInv == Inv /\ [Next]_vars => Inv'
<1> SUFFICES ASSUME Inv, [Next]_vars PROVE Inv'
  OBVIOUS
<1>1. TypeOK'
  BY NextType DEF Inv
<1>2. LogOK' /\ ThreadOK' /\ QueueOK' /\ LineageOK'
  BY <1>1, NextLog, NextThread, NextQueue, NextLineage DEF Inv
<1>3. (\A s \in Stream : WellKept(disk[s]))'
  BY NextKept DEF Inv
<1> QED BY <1>1, <1>2, <1>3 DEF Inv

(* What restarts, crashes, damage and cut logs never break.                *)
THEOREM Invariance == Spec => []Inv
BY InitInv, NextInv, PTL DEF Spec

(* The mutex serves attests in the order of their audit events, and every  *)
(* lineage that a snapshot brings back after a crash has that order, even  *)
(* when the log was cut behind the service.                                *)
THEOREM AttestOrderCorrect == Spec => []AttestsKeepLogOrder
<1>1. Inv => AttestsKeepLogOrder
  BY DEF Inv, LineageOK, Lineage, LineageIn, AttestsKeepLogOrder
<1> QED BY <1>1, Invariance, PTL

-----------------------------------------------------------------------------
(* While nobody cuts the log                                               *)

(* The stamped position is a position of the log.                          *)
LEMMA StampFacts ==
    ASSUME Inv
    PROVE  /\ stampedPosition \in Nat
           /\ (\A f \in disk["manifest"] : f.version <= Len(log)) => stampedPosition <= Len(log)
           /\ stampedPosition > 0 => disk["manifest"] # {} /\ ~Damaged("manifest")
                                    /\ stampedPosition = latest(disk["manifest"]).version
<1>1. disk["manifest"] \in SUBSET File /\ WellKept(disk["manifest"]) /\ Len(log) \in Nat
  BY Streams, LogFacts DEF Inv, TypeOK
<1>2. disk["manifest"] # {} => latest(disk["manifest"]) \in disk["manifest"]
  BY <1>1, LatestFacts
<1> QED BY <1>1, <1>2 DEF stampedPosition, File

(* Where the files of a step come from.                                    *)
LEMMA DiskStep ==
    ASSUME Inv, [Next]_vars, NEW s \in Stream, NEW f \in disk'[s]
    PROVE  \/ f \in disk[s]
           \/ \E t \in Stream : CorruptSnapshot(t) /\ f.state = Corrupt
                                /\ \E g \in disk[s] : g.version = f.version
           \/ SaveStream /\ s = Target /\ f = [version |-> Len(log), state |-> Content]
<1>0. TypeOK /\ ThreadOK /\ \A t \in Stream : WellKept(disk[t])
  BY DEF Inv
<1>1. CASE SaveStream
  <2> DEFINE after == save(disk[Target], Len(log), Content)
  <2>1. Target \in Stream /\ Content \in State /\ disk' = [disk EXCEPT ![Target] = after]
    BY <1>0, <1>1, SaveStreamFacts
  <2>2. disk[Target] \in SUBSET File /\ WellKept(disk[Target]) /\ Len(log) \in Nat
    BY <1>0, <2>1 DEF TypeOK
  <2>3. \A g \in after : g \in disk[Target] \/ g = [version |-> Len(log), state |-> Content]
    BY <2>1, <2>2, SaveFacts
  <2> HIDE DEF after
  <2> QED BY <1>0, <1>1, <2>1, <2>3 DEF TypeOK
<1>2. ASSUME NEW t \in Stream, CorruptSnapshot(t)
      PROVE  \/ f \in disk[s]
             \/ f.state = Corrupt /\ \E g \in disk[s] : g.version = f.version
  <2>1. disk[t] \in SUBSET File /\ disk[t] # {} /\ WellKept(disk[t])
    BY <1>0, <1>2 DEF CorruptSnapshot, TypeOK
  <2>2. disk' = [disk EXCEPT ![t] = Damage(disk[t])]
    BY <1>2 DEF CorruptSnapshot, Damage
  <2>3. /\ latest(disk[t]) \in disk[t]
        /\ \A g \in Damage(disk[t]) : g \in disk[t]
              \/ (g.state = Corrupt /\ g.version = latest(disk[t]).version)
    BY <2>1, DamageFacts, LatestFacts
  <2> QED BY <1>0, <2>2, <2>3 DEF TypeOK
<1>3. CASE UNCHANGED disk
  BY <1>3
<1> QED BY <1>1, <1>2, <1>3
        DEF Next, Thread, Request, Apply, AttestRegister, AttestResume, ApplyThrows, SaveFails,
            _mutate, Setup, AttestAudit, AuditFails, stop, Crash, TruncateLog, restoreAll, vars

(* The log, the warnings and the unaudited requests only grow, a request   *)
(* keeps its subsystem, and the counters of faults only count.             *)
Grows ==
    /\ Len(log) \in Nat /\ Len(log') \in Nat /\ Len(log) <= Len(log')
    /\ \A i \in 1..Len(log) : log'[i] = log[i]
    /\ Logged \subseteq Logged' /\ warned \subseteq warned' /\ unaudited \subseteq unaudited'
    /\ \A o \in Op : result[o] # "new" => subOf'[o] = subOf[o] /\ result'[o] # "new"
    /\ UNCHANGED <<dep, truncations>>

(* Every step but a cut of the log has these effects.                      *)
LEMMA GrowStep ==
    ASSUME Inv, [Next]_vars, ~TruncateLog
    PROVE  Grows
<1>0. TypeOK /\ ThreadOK /\ LineageOK /\ QueueOK
  BY DEF Inv
<1>1. Len(log) \in Nat
  BY <1>0, LogFacts
<1>2. ASSUME NEW o \in Op, NEW s \in Subsystem, NEW x \in Int, _audit(o, s, x),
             result[o] = "new", result' = [result EXCEPT ![o] = "running"],
             UNCHANGED <<warned, unaudited, dep, truncations>>
      PROVE  Grows
  <2>1. /\ Len(log') = Len(log) + 1 /\ \A i \in 1..Len(log) : log'[i] = log[i]
        /\ Logged' = Logged \cup {o} /\ subOf' = [subOf EXCEPT ![o] = s]
    BY <1>0, <1>2, AuditFacts
  <2>2. \A p \in Op : result[p] # "new" => subOf'[p] = subOf[p] /\ result'[p] # "new"
    BY <1>0, <1>2, <2>1 DEF TypeOK
  <2> QED BY <1>1, <1>2, <2>1, <2>2 DEF Grows
<1>3. ASSUME UNCHANGED <<log, dep, truncations>>, warned \subseteq warned', unaudited \subseteq unaudited',
             \A p \in Op : result[p] # "new" => subOf'[p] = subOf[p] /\ result'[p] # "new"
      PROVE  Grows
  BY <1>1, <1>3, SameLogged DEF Grows
<1>4. CASE SaveStream
  <2>1. UNCHANGED <<log, ghostVars, faultVars>>
    BY <1>0, <1>4, SaveStreamFacts
  <2>2. \A p \in Op : result[p] # "new" => result'[p] # "new"
    BY <1>0, <1>4, SaveStreamFacts, ExitFacts DEF TypeOK
  <2> QED BY <1>1, <1>3, <2>1, <2>2 DEF ghostVars, faultVars
<1>5. CASE SaveFails \/ ApplyThrows
  BY <1>0, <1>1, <1>3, <1>5 DEF SaveFails, ApplyThrows, Return, TypeOK, ghostVars, faultVars
<1>6. ASSUME NEW o \in Op, NEW s \in dep.mutated, _mutate(o, s)
      PROVE  Grows
  <2>1. s \in Subsystem /\ NoIndex \in Int
    BY <1>0, LogFacts DEF NoIndex
  <2>2. /\ _audit(o, s, NoIndex) /\ result[o] = "new" /\ result' = [result EXCEPT ![o] = "running"]
        /\ UNCHANGED <<warned, unaudited, dep, truncations>>
    BY <1>6 DEF _mutate, Return, faultVars
  <2> QED BY <1>2, <2>1, <2>2
<1>7. ASSUME NEW o \in Op, AttestAudit(o)
      PROVE  Grows
  <2>1. "registrar" \in Subsystem /\ nextOrderIndex \in Int
    BY <1>0, Streams, FS_CardinalityType DEF nextOrderIndex, LineageOK, Lineage, LineageIn
  <2>2. /\ _audit(o, "registrar", nextOrderIndex) /\ result[o] = "new"
        /\ result' = [result EXCEPT ![o] = "running"]
        /\ UNCHANGED <<warned, unaudited, dep, truncations>>
    BY <1>7 DEF AttestAudit, Return, faultVars
  <2> QED BY <1>2, <2>1, <2>2
<1>8. CASE \/ Apply \/ AttestRegister \/ stop \/ Crash \/ UNCHANGED vars
           \/ (\E o \in Op : AttestResume(o)) \/ (\E o \in Op : AuditFails(o))
           \/ (\E s \in Stream : CorruptSnapshot(s))
           \/ (\E allow \in dep.overrides : restoreAll(allow))
           \/ (\E o \in Op : \E s \in dep.mutated : Setup(o, s))
  <2>1. UNCHANGED <<log, dep, truncations>> /\ warned \subseteq warned' /\ unaudited \subseteq unaudited'
    BY <1>8 DEF Apply, AttestRegister, AttestResume, AuditFails, Setup, stop, Crash, CorruptSnapshot,
                restoreAll, vars, ghostVars, faultVars
  <2>2. \A p \in Op : result[p] # "new" => subOf'[p] = subOf[p] /\ result'[p] # "new"
    <3>1. CASE Apply
      BY <1>0, <3>1, FinishFacts DEF Apply, ThreadOK, TypeOK, ghostVars
    <3>2. CASE AttestRegister
      BY <1>0, <3>2, RegisterFacts DEF TypeOK, ghostVars
    <3>3. CASE \E o \in Op : AttestResume(o)
      BY <1>0, <3>3, FinishFacts DEF AttestResume, TypeOK, ghostVars
    <3>4. CASE \E o \in Op : AuditFails(o)
      BY <1>0, <3>4 DEF AuditFails, Return, TypeOK, ghostVars
    <3>5. CASE \E o \in Op : \E s \in dep.mutated : Setup(o, s)
      BY <1>0, <3>5 DEF Setup, Return, TypeOK
    <3>6. CASE Crash
      BY <1>0, <3>6, ExitFacts DEF Crash, ghostVars
    <3>7. CASE stop \/ UNCHANGED vars \/ (\E s \in Stream : CorruptSnapshot(s))
               \/ (\E allow \in dep.overrides : restoreAll(allow))
      BY <3>7 DEF stop, CorruptSnapshot, restoreAll, vars, ghostVars
    <3> QED BY <1>8, <3>1, <3>2, <3>3, <3>4, <3>5, <3>6, <3>7
  <2> QED BY <1>1, <1>3, <2>1, <2>2
<1> QED BY <1>1, <1>4, <1>5, <1>6, <1>7, <1>8 DEF Next, Thread, Request

(* What a step adds to a subsystem's memory is logged, unaudited or loaded.*)
LEMMA MemStep ==
    ASSUME Inv, [Next]_vars, NEW s \in Subsystem, NEW p \in mem'[s]
    PROVE  p \in mem[s] \/ p \in Logged \/ p \in unaudited' \/ p \in load(disk[s])
<1>0. TypeOK /\ ThreadOK /\ LineageOK /\ QueueOK
  BY DEF Inv
<1>1. CASE Exit
  BY <1>1 DEF Exit, Empty
<1>2. CASE SaveStream
  BY <1>0, <1>1, <1>2, SaveStreamFacts
<1>3. CASE Apply
  <2>1. run.op \in Logged
    BY <1>0, <1>3 DEF Apply, ThreadOK
  <2> QED BY <1>0, <1>3, <2>1 DEF Apply, TypeOK
<1>4. CASE AttestRegister
  <2>1. 1 \in 1..Len(queue) /\ Head(queue) = queue[1] /\ Head(queue) \in Op
    BY <1>0, <1>4, RegisterFacts DEF TypeOK
  <2>2. Head(queue) \in Logged
    BY <1>0, <2>1 DEF QueueOK, ThreadOK
  <2> QED BY <1>0, <1>4, <2>2, RegisterFacts DEF TypeOK
<1>5. ASSUME NEW o \in Op, NEW t \in dep.mutated, Setup(o, t)
      PROVE  p \in mem[s] \/ p \in unaudited'
  BY <1>0, <1>5 DEF Setup, TypeOK
<1>6. ASSUME NEW allow \in dep.overrides, restoreAll(allow) PROVE p \in load(disk[s])
  BY <1>6 DEF restoreAll
<1>7. CASE Crash
  BY <1>1, <1>7 DEF Crash
<1>8. CASE UNCHANGED mem
  BY <1>8
<1> QED BY <1>2, <1>3, <1>4, <1>5, <1>6, <1>7, <1>8
        DEF Next, Thread, Request, AttestResume, ApplyThrows, SaveFails, _mutate, AttestAudit,
            AuditFails, stop, TruncateLog, CorruptSnapshot, vars

(* What a caller may learn in a step: an error is final, and only a call   *)
(* in flight, or an unaudited one, is acknowledged.                        *)
Learns(o) ==
    /\ result[o] = "thrown" => result'[o] = "thrown"
    /\ result'[o] = "running" => result[o] = "running" \/ result[o] = "new"
    /\ result'[o] = "ok" =>
        \/ result[o] = "ok"
        \/ result[o] = "new" /\ o \in unaudited'
        \/ result[o] = "running" /\ SaveStream /\ run.next = 5 /\ run.op = o
        \/ result[o] = "running" /\ dep.cadence = "onShutdown" /\ (o \in attested \/ (Apply /\ run.op = o))

(* How a caller can learn the result of an operation.                      *)
LEMMA ResultStep ==
    ASSUME Inv, [Next]_vars, NEW o \in Op
    PROVE  Learns(o)
<1>0. /\ TypeOK /\ ThreadOK /\ LineageOK /\ QueueOK
      /\ dep.cadence # "afterEachMutation" => dep.cadence = "onShutdown"
  BY CadenceIsKnown DEF Inv, TypeOK
<1>1. CASE UNCHANGED result
  BY <1>1 DEF Learns
<1>2. CASE Exit
  BY <1>0, <1>2, ExitFacts DEF Learns
<1>3. CASE SaveStream
  <2>1. CASE run.next = 5 /\ run.op \in Op /\ result' = [result EXCEPT ![run.op] = "ok"]
    <3>1. result[run.op] = "running"
      BY <1>0, <1>3, <2>1, SaveStreamFacts DEF ThreadOK
    <3> QED BY <1>0, <1>3, <2>1, <3>1 DEF TypeOK, Learns
  <2> QED BY <1>0, <1>1, <1>2, <1>3, <2>1, SaveStreamFacts
<1>4. CASE SaveFails \/ ApplyThrows
  BY <1>0, <1>4 DEF SaveFails, ApplyThrows, Return, TypeOK, Learns
<1>5. ASSUME NEW p \in Op, result[p] = "new", result' = [result EXCEPT ![p] = "running"]
      PROVE  Learns(o)
  BY <1>0, <1>5 DEF TypeOK, Learns
<1>6. CASE \E p \in Op : AttestAudit(p) \/ \E s \in dep.mutated : _mutate(p, s)
  BY <1>5, <1>6 DEF AttestAudit, _mutate, Return
<1>7. CASE \E p \in Op : AuditFails(p)
  BY <1>0, <1>7 DEF AuditFails, Return, TypeOK, Learns
<1>8. CASE \E p \in Op : \E s \in dep.mutated : Setup(p, s)
  BY <1>0, <1>8 DEF Setup, Return, TypeOK, Learns
<1>9. CASE Apply
  <2>1. run.op \in Op /\ result[run.op] = "running"
    BY <1>0, <1>9 DEF Apply, ThreadOK
  <2>2. \/ result' = result
        \/ dep.cadence # "afterEachMutation" /\ result' = [result EXCEPT ![run.op] = "ok"]
    BY <1>0, <1>9, <2>1, FinishFacts DEF Apply
  <2> QED BY <1>0, <1>1, <1>9, <2>1, <2>2 DEF TypeOK, Learns
<1>10. ASSUME NEW p \in Op, AttestResume(p) PROVE Learns(o)
  <2>1. p \in attested /\ result[p] = "running"
    BY <1>0, <1>10 DEF AttestResume, ThreadOK
  <2>2. \/ result' = result
        \/ dep.cadence # "afterEachMutation" /\ result' = [result EXCEPT ![p] = "ok"]
    BY <1>0, <1>10, FinishFacts DEF AttestResume
  <2> QED BY <1>0, <1>1, <2>1, <2>2 DEF TypeOK, Learns
<1>11. CASE AttestRegister
  BY <1>0, <1>1, <1>11, RegisterFacts DEF TypeOK, Learns
<1>12. CASE Crash
  BY <1>2, <1>12 DEF Crash
<1> QED BY <1>1, <1>3, <1>4, <1>6, <1>7, <1>8, <1>9, <1>10, <1>11, <1>12
        DEF Next, Thread, Request, stop, TruncateLog, CorruptSnapshot, restoreAll, vars

(* Without a torn tail the snapshots never run ahead of the log.           *)
LEMMA NextWithin ==
    Inv /\ DiskWithinLog /\ ~TruncateLog /\ [Next]_vars => DiskWithinLog'
<1> SUFFICES ASSUME Inv, DiskWithinLog, ~TruncateLog, [Next]_vars PROVE DiskWithinLog'
  OBVIOUS
<1>0. TypeOK /\ ThreadOK /\ \A s \in Stream : WellKept(disk[s])
  BY DEF Inv
<1>1. Grows
  BY GrowStep
<1>2. \A s \in Stream : \A f \in disk'[s] : f.version <= Len(log')
  <2> SUFFICES ASSUME NEW s \in Stream, NEW f \in disk'[s] PROVE f.version <= Len(log')
    OBVIOUS
  <2>1. \A g \in disk[s] : g.version <= Len(log) /\ g.version \in Nat
    BY <1>0 DEF DiskWithinLog, TypeOK, File
  <2>2. f.version <= Len(log) /\ f.version \in Nat
    BY <1>1, <2>1, DiskStep DEF Grows
  <2> QED BY <1>1, <2>2 DEF Grows
<1>3. \A s \in Subsystem : \A f \in disk'[s] : f.state = Corrupt \/ f.state \ unaudited' \subseteq Logged'
  <2> SUFFICES ASSUME NEW s \in Subsystem, NEW f \in disk'[s], f.state # Corrupt
               PROVE  f.state \ unaudited' \subseteq Logged'
    OBVIOUS
  <2>1. s \in Stream /\ s # "manifest"
    BY DEF Subsystem
  <2>2. f \in disk[s] \/ f.state = mem[s]
    BY <2>1, DiskStep DEF Content
  <2>3. f.state \ unaudited \subseteq Logged
    BY <2>2 DEF DiskWithinLog
  <2> QED BY <1>1, <2>3 DEF Grows
<1>4. \A s \in Subsystem : mem'[s] \ unaudited' \subseteq Logged'
  <2> SUFFICES ASSUME NEW s \in Subsystem, NEW p \in mem'[s], p \notin unaudited' PROVE p \in Logged'
    OBVIOUS
  <2>1. p \in mem[s] \/ p \in Logged \/ p \in load(disk[s])
    BY MemStep
  <2>2. CASE p \in load(disk[s])
    <3>1. WellKept(disk[s])
      BY <1>0 DEF Subsystem
    <3>2. \E f \in disk[s] : p \in f.state /\ f.state # Corrupt
      BY <1>0, <2>2, <3>1, LoadFacts
    <3> QED BY <1>1, <3>2 DEF Grows, DiskWithinLog
  <2> QED BY <1>1, <2>1, <2>2 DEF Grows, DiskWithinLog
<1>5. \A o \in Op : result'[o] = "ok" => o \in unaudited' \/ o \in Logged'
  <2> SUFFICES ASSUME NEW o \in Op, result'[o] = "ok" PROVE o \in unaudited' \/ o \in Logged'
    OBVIOUS
  <2>1. result[o] = "ok" \/ result[o] = "running" \/ o \in unaudited'
    BY ResultStep DEF Learns
  <2> QED BY <1>0, <1>1, <2>1 DEF Grows, DiskWithinLog, ThreadOK
<1> QED BY <1>2, <1>3, <1>4, <1>5 DEF DiskWithinLog

(* While the service is up, its memory only grows.                         *)
LEMMA MemKept ==
    ASSUME Inv, [Next]_vars, up = "up", up' = "up", NEW s \in Subsystem
    PROVE  mem[s] \subseteq mem'[s]
<1>0. TypeOK /\ ThreadOK /\ LineageOK
  BY DEF Inv
<1>1. CASE Exit
  BY <1>1 DEF Exit
<1>2. CASE SaveStream
  BY <1>0, <1>1, <1>2, SaveStreamFacts
<1>3. CASE Apply
  BY <1>0, <1>3 DEF Apply, TypeOK
<1>4. CASE AttestRegister
  <2>1. mem' = mem \/ mem' = [mem EXCEPT !["registrar"] = @ \cup {Head(queue)}]
    BY <1>0, <1>4, RegisterFacts
  <2> QED BY <1>0, <2>1 DEF TypeOK
<1>5. CASE \E o \in Op : \E t \in dep.mutated : Setup(o, t)
  BY <1>0, <1>5 DEF Setup, TypeOK
<1>6. CASE Crash
  BY <1>1, <1>6 DEF Crash
<1>7. CASE UNCHANGED mem
  BY <1>7
<1> QED BY <1>2, <1>3, <1>4, <1>5, <1>6, <1>7
        DEF Next, Thread, Request, AttestResume, ApplyThrows, SaveFails, _mutate, AttestAudit,
            AuditFails, stop, TruncateLog, CorruptSnapshot, restoreAll, vars

(* The service comes up by restoreAll only.                                *)
LEMMA UpStep ==
    ASSUME Inv, [Next]_vars, up # "up", up' # up
    PROVE  \E allow \in dep.overrides : restoreAll(allow)
<1>0. TypeOK /\ ThreadOK /\ LineageOK
  BY DEF Inv
<1>1. ~SaveStream
  BY <1>0, SaveStreamFacts
<1> QED BY <1>1 DEF Next, Thread, Request, Apply, AttestRegister, AttestResume, ApplyThrows,
            SaveFails, Saving, _mutate, Setup, AttestAudit, AuditFails, stop, Crash, TruncateLog,
            CorruptSnapshot, vars, Ready

(* Between the audit event and its application nothing else runs.          *)
LEMMA ApplyStep ==
    ASSUME Inv, [Next]_vars, run.at = "apply"
    PROVE  up = "up" /\ (Apply \/ ApplyThrows \/ Crash \/ UNCHANGED vars)
<1>0. TypeOK /\ ThreadOK /\ LineageOK
  BY DEF Inv
<1>1. up = "up" /\ run # Idle
  BY <1>0, IdleFacts DEF ThreadOK
<1>2. ~SaveStream
  BY <1>0, SaveStreamFacts
<1> QED BY <1>1, <1>2 DEF Next, Thread, Request, AttestRegister, AttestResume,
            SaveFails, Saving, _mutate, Setup, AttestAudit, AuditFails, stop, TruncateLog,
            CorruptSnapshot, restoreAll, Ready

(* A request that becomes one to find again is in memory then.             *)
LEMMA TrackStep ==
    ASSUME Inv, [Next]_vars, ~TruncateLog, NEW o \in Logged, Tracked(o)', ~Tracked(o)
    PROVE  /\ subOf[o] = "registrar" /\ result[o] = "running" /\ InMemory(o)
           /\ dep.cadence = "onShutdown" \/ (SaveStream /\ run.next = 5 /\ run.op = o)
<1>0. TypeOK /\ ThreadOK /\ LogOK /\ "registrar" \in Subsystem
  BY Streams DEF Inv
<1>1. o \in Op /\ result[o] # "new" /\ subOf'[o] = subOf[o]
  BY <1>0, GrowStep, LogFacts DEF LogOK, Logged, Grows
<1>2. Learns(o)
  BY <1>1, ResultStep
<1>3. result[o] # "thrown" /\ subOf[o] = "registrar" /\ result[o] # "ok" /\ result'[o] = "ok"
  BY <1>1, <1>2 DEF Tracked, Learns
<1>4. ~(Apply /\ run.op = o)
  BY <1>0, <1>3, LogFacts DEF Apply, ThreadOK
<1>5. /\ result[o] = "running"
      /\ \/ SaveStream /\ run.next = 5 /\ run.op = o
         \/ dep.cadence = "onShutdown" /\ o \in attested
  BY <1>1, <1>2, <1>3, <1>4 DEF Learns
<1>6. CASE SaveStream /\ run.next = 5 /\ run.op = o
  BY <1>0, <1>1, <1>3, <1>5, <1>6, SaveStreamFacts DEF ThreadOK
<1>7. CASE dep.cadence = "onShutdown" /\ o \in attested
  BY <1>0, <1>3, <1>5, <1>7 DEF ThreadOK, InMemory
<1> QED BY <1>5, <1>6, <1>7

(* What restoreAll finds, or warns of.                                     *)
LEMMA RestoreTracks ==
    ASSUME Inv, DiskTracked, NEW allow, restoreAll(allow), NEW o \in Logged, Tracked(o)
    PROVE  InMemory(o)' \/ o \in warned'
<1>0. TypeOK /\ LogOK /\ \A s \in Stream : WellKept(disk[s])
  BY DEF Inv
<1>1. PICK i \in 1..Len(log) : log[i].op = o
  BY DEF Logged
<1>2. o \in Op /\ subOf[o] \in Subsystem /\ stampedPosition \in Nat /\ Len(log) \in Nat
  BY <1>0, <1>1, LogFacts, StampFacts DEF LogOK
<1>3. warned' = warned \cup NamedByWarn /\ subOf' = subOf /\ mem'[subOf[o]] = load(disk[subOf[o]])
  BY <1>2 DEF restoreAll
<1>4. CASE i > stampedPosition
  <2>1. i \in (stampedPosition + 1)..Len(log)
    BY <1>1, <1>2, <1>4
  <2> QED BY <1>1, <1>3, <2>1 DEF NamedByWarn
<1>5. CASE i <= stampedPosition
  <2>1. Saved(o)
    BY <1>1, <1>5 DEF DiskTracked
  <2>2. CASE Damaged(subOf[o])
    BY <1>2, <1>3, <2>2 DEF NamedByWarn
  <2>3. CASE disk[subOf[o]] # {} /\ o \in latest(disk[subOf[o]]).state /\ ~Damaged(subOf[o])
    <3>1. o \in load(disk[subOf[o]])
      BY <2>3 DEF load, Damaged, hasSnapshot
    <3> QED BY <1>2, <1>3, <3>1 DEF InMemory
  <2> QED BY <1>3, <2>1, <2>2, <2>3 DEF Saved
<1> QED BY <1>1, <1>2, <1>4, <1>5

(* A running service has in memory every logged operation it promises to   *)
(* have.                                                                   *)
LEMMA NextMemTracked ==
    Inv /\ Inv' /\ MemTracked /\ DiskTracked /\ ~TruncateLog /\ [Next]_vars => MemTracked'
<1> SUFFICES ASSUME Inv, Inv', MemTracked, DiskTracked, ~TruncateLog, [Next]_vars, up' = "up",
                    NEW o \in Logged', Tracked(o)', ~(run'.at = "apply" /\ run'.op = o)
             PROVE  InMemory(o)' \/ o \in warned'
  BY DEF MemTracked
<1>0. TypeOK /\ TypeOK' /\ ThreadOK /\ LogOK /\ LineageOK /\ Grows
  BY GrowStep DEF Inv
<1>1. CASE up # "up"
  <2>1. PICK allow \in dep.overrides : restoreAll(allow)
    BY <1>1, UpStep
  <2>2. o \in Logged /\ Tracked(o)
    BY <2>1, SameLogged DEF restoreAll, Tracked
  <2> QED BY <2>1, <2>2, RestoreTracks
<1>2. CASE up = "up" /\ o \in Logged
  <2>1. InMemory(o) => InMemory(o)'
    BY <1>0, <1>2, MemKept, LogFacts DEF InMemory, Grows, LogOK, Logged
  <2>2. CASE ~Tracked(o)
    BY <1>2, <2>1, <2>2, TrackStep
  <2>3. CASE Tracked(o) /\ ~(run.at = "apply" /\ run.op = o)
    BY <1>0, <1>2, <2>1, <2>3 DEF MemTracked, Grows
  <2>4. CASE run.at = "apply" /\ run.op = o
    <3>1. run.op \in Op /\ subOf[o] \in Subsystem
      BY <1>0, <2>4, LogFacts DEF ThreadOK
    <3>2. CASE Apply
      BY <1>0, <2>4, <3>1, <3>2 DEF Apply, InMemory, TypeOK, ghostVars
    <3>3. CASE ApplyThrows
      BY <1>0, <2>4, <3>1, <3>3 DEF ApplyThrows, Return, Tracked, TypeOK
    <3>4. CASE Crash
      BY <3>4 DEF Crash, Exit
    <3>5. CASE UNCHANGED vars
      BY <2>4, <3>5 DEF vars
    <3> QED BY <2>4, <3>2, <3>3, <3>4, <3>5, ApplyStep
  <2> QED BY <2>2, <2>3, <2>4
<1>3. CASE up = "up" /\ o \notin Logged
  <2>1. log' # log
    BY <1>3, SameLogged
  <2>2. PICK p \in Op : AttestAudit(p) \/ \E s \in dep.mutated : _mutate(p, s)
    BY <1>0, <2>1, SaveStreamFacts
       DEF Next, Thread, Request, Apply, AttestRegister, AttestResume, ApplyThrows,
           SaveFails, Setup, AuditFails, stop, Crash, CorruptSnapshot, restoreAll, vars
  <2>3. ASSUME NEW s \in dep.mutated, _mutate(p, s) PROVE FALSE
    <3>1. s \in Subsystem /\ NoIndex \in Int
      BY <1>0, LogFacts DEF NoIndex
    <3>2. Logged' = Logged \cup {p} /\ run' = [op |-> p, at |-> "apply", next |-> 0]
      BY <1>0, <2>3, <3>1, AuditFacts DEF _mutate
    <3> QED BY <1>3, <3>2
  <2>4. CASE AttestAudit(p)
    <3>1. "registrar" \in Subsystem /\ nextOrderIndex \in Int
      BY <1>0, Streams, FS_CardinalityType DEF nextOrderIndex, LineageOK, Lineage, LineageIn
    <3>2. Logged' = Logged \cup {p} /\ subOf'[p] = "registrar" /\ result'[p] = "running"
      BY <1>0, <2>4, <3>1, AuditFacts DEF AttestAudit, Return, TypeOK
    <3> QED BY <1>3, <3>2 DEF Tracked
  <2> QED BY <2>2, <2>3, <2>4
<1> QED BY <1>1, <1>2, <1>3

-----------------------------------------------------------------------------
(* A step that leaves the disk alone, or writes or damages one stream.     *)
LEMMA DiskCases ==
    ASSUME Inv, [Next]_vars
    PROVE  UNCHANGED disk \/ SaveStream \/ \E s \in Stream : CorruptSnapshot(s)
BY DEF Next, Thread, Request, Apply, AttestRegister, AttestResume, ApplyThrows, SaveFails,
       _mutate, Setup, AttestAudit, AuditFails, stop, Crash, TruncateLog, restoreAll, vars

(* The stamp is read from the manifest alone.                              *)
LEMMA SameStamp ==
    ASSUME disk'["manifest"] = disk["manifest"]
    PROVE  stampedPosition' = stampedPosition
BY DEF stampedPosition, Damaged

(* The stream written has its new file as the newest; the others keep      *)
(* theirs.                                                                 *)
LEMMA WriteFacts ==
    ASSUME Inv, DiskWithinLog, SaveStream
    PROVE  /\ Newest(disk'[Target], Len(log), Content)
           /\ \A s \in Stream : s # Target => disk'[s] = disk[s]
<1>0. TypeOK /\ ThreadOK /\ \A t \in Stream : WellKept(disk[t])
  BY DEF Inv
<1>1. /\ Target \in Stream /\ Content \in State
      /\ disk' = [disk EXCEPT ![Target] = save(disk[Target], Len(log), Content)]
  BY <1>0, SaveStreamFacts
<1>2. disk[Target] \in SUBSET File /\ WellKept(disk[Target]) /\ Len(log) \in Nat
      /\ \A f \in disk[Target] : f.version <= Len(log)
  BY <1>0, <1>1, LogFacts DEF TypeOK, DiskWithinLog
<1>3. Newest(save(disk[Target], Len(log), Content), Len(log), Content)
  BY <1>1, <1>2, SaveFacts
<1> QED BY <1>0, <1>1, <1>3 DEF TypeOK

(* In the middle of a save the streams already written hold what memory    *)
(* holds.                                                                  *)
LEMMA NextProgress ==
    Inv /\ Inv' /\ DiskWithinLog /\ SaveProgress /\ ~TruncateLog /\ [Next]_vars => SaveProgress'
<1> SUFFICES ASSUME Inv, Inv', DiskWithinLog, SaveProgress, ~TruncateLog, [Next]_vars
             PROVE  SaveProgress'
  OBVIOUS
<1>0. TypeOK /\ TypeOK' /\ ThreadOK /\ ThreadOK' /\ LogOK /\ LogOK' /\ LineageOK /\ Grows
  BY GrowStep DEF Inv
<1>1. ASSUME run'.at = "save", NEW k \in 1..4, k < run'.next
      PROVE  Newest(disk'[SNAPSHOT_STREAMS[k]], Len(log'), mem'[SNAPSHOT_STREAMS[k]])
  <2>1. CASE run'.next = 1
    BY <1>1, <2>1
  <2>2. CASE UNCHANGED vars
    BY <1>1, <2>2 DEF SaveProgress, vars
  <2>3. CASE SaveStream
    <3>1. /\ run.next < 5 /\ run.at = "save" /\ run.next \in 1..5
          /\ run' = [run EXCEPT !.next = run.next + 1] /\ UNCHANGED <<log, mem>>
      BY <1>0, <1>1, <2>3, SaveStreamFacts, IdleFacts DEF Exit
    <3>2. run'.next = run.next + 1
      BY <1>0, <3>1 DEF TypeOK, Call
    <3>3. CASE k = run.next
      <4>1. SNAPSHOT_STREAMS[k] = Target /\ Content = mem[Target]
        BY <3>1, <3>3, Streams DEF Target, Content
      <4> QED BY <2>3, <3>1, <4>1, WriteFacts
    <3>4. CASE k < run.next
      <4>1. SNAPSHOT_STREAMS[k] \in Stream /\ SNAPSHOT_STREAMS[k] # Target
        BY <3>1, <3>4, Streams DEF Target
      <4>2. Newest(disk[SNAPSHOT_STREAMS[k]], Len(log), mem[SNAPSHOT_STREAMS[k]])
        BY <3>1, <3>4 DEF SaveProgress
      <4> QED BY <2>3, <3>1, <4>1, <4>2, WriteFacts
    <3> QED BY <1>1, <3>1, <3>2, <3>3, <3>4
  <2>4. CASE ~SaveStream /\ ~UNCHANGED vars
    <3>1. run'.next = 1 \/ run'.at # "save"
      <4>1. CASE Apply
        BY <1>0, <4>1, FinishFacts, IdleFacts DEF Apply, ThreadOK
      <4>2. CASE \E o \in Op : AttestResume(o)
        BY <1>0, <4>2, FinishFacts, IdleFacts DEF AttestResume
      <4>3. CASE \/ SaveFails \/ ApplyThrows \/ Crash \/ stop \/ AttestRegister
                 \/ \E o \in Op : AuditFails(o) \/ AttestAudit(o)
                                 \/ \E s \in dep.mutated : _mutate(o, s) \/ Setup(o, s)
        BY <4>3, IdleFacts DEF SaveFails, ApplyThrows, Crash, Exit, stop, AttestRegister, AuditFails,
                               AttestAudit, _mutate, Setup, Ready
      <4>4. CASE (\E s \in Stream : CorruptSnapshot(s)) \/ (\E allow \in dep.overrides : restoreAll(allow))
        BY <1>0, <4>4, IdleFacts DEF CorruptSnapshot, restoreAll, ThreadOK
      <4> QED BY <2>4, <4>1, <4>2, <4>3, <4>4 DEF Next, Thread, Request
    <3> QED BY <1>1, <2>1, <3>1
  <2> QED BY <2>2, <2>3, <2>4
<1>2. ASSUME dep'.cadence = "onShutdown", NEW i \in 1..Len(log'), result'[log'[i].op] = "running"
      PROVE  i > stampedPosition'
  <2>0. log'[i].op \in Op
    <3>1. log' \in Seq(Event)
      BY <1>0 DEF TypeOK
    <3>2. log'[i] \in Event
      BY <3>1
    <3> QED BY <3>2 DEF Event
  <2>1. dep.cadence = "onShutdown" /\ up' = "up" /\ log'[i].op \in Op
    BY <1>0, <1>2, <2>0 DEF Grows, ThreadOK
  <2>2. disk'["manifest"] = disk["manifest"]
    <3>1. CASE SaveStream
      <4>1. ~Exit
        BY <2>1 DEF Exit
      <4>2. run.at = "save" /\ (run.next = 5 => run.op = "stop" /\ run.op \in Op)
        BY <1>0, <2>1, <3>1, <4>1, SaveStreamFacts DEF ThreadOK
      <4>3. Target # "manifest" /\ "manifest" \in Stream
        BY <1>0, <3>1, <4>2, SaveStreamFacts, RequestsAreNoMarkers, Streams
      <4> QED BY <3>1, <4>3, WriteFacts
    <3>2. ASSUME NEW s \in Stream, CorruptSnapshot(s) PROVE FALSE
      BY <2>1, <3>2 DEF CorruptSnapshot
    <3> QED BY <3>1, <3>2, DiskCases
  <2>3. stampedPosition' = stampedPosition /\ stampedPosition \in Nat /\ stampedPosition <= Len(log)
    BY <2>2, SameStamp, StampFacts, Streams DEF DiskWithinLog
  <2>4. CASE i \in 1..Len(log)
    <3>1. log'[i] = log[i] /\ result[log[i].op] # "new"
      BY <1>0, <2>4 DEF Grows, LogOK
    <3>2. result[log[i].op] = "running"
      BY <1>2, <2>1, <3>1, ResultStep DEF Learns
    <3> QED BY <2>1, <2>3, <2>4, <3>2 DEF SaveProgress
  <2>5. CASE i \notin 1..Len(log)
    BY <1>0, <2>3, <2>5 DEF Grows
  <2> QED BY <2>4, <2>5
<1> QED BY <1>1, <1>2 DEF SaveProgress

(* A stop without a crash leaves a manifest at the end of the log.         *)
LEMMA NextStop ==
    Inv /\ DiskWithinLog /\ StopIsClean /\ ~TruncateLog /\ [Next]_vars => StopIsClean'
<1> SUFFICES ASSUME Inv, DiskWithinLog, StopIsClean, ~TruncateLog, [Next]_vars, crashes' = 0, up' = "down"
             PROVE  disk'["manifest"] # {} /\ latest(disk'["manifest"]).version = Len(log')
  BY DEF StopIsClean
<1>0. TypeOK /\ ThreadOK /\ LineageOK /\ "manifest" \in Stream /\ \A s \in Stream : WellKept(disk[s])
  BY Streams DEF Inv
<1>1. CASE SaveStream
  <2>1. Target = "manifest" /\ UNCHANGED log
    BY <1>0, <1>1, SaveStreamFacts
  <2>2. Newest(disk'["manifest"], Len(log), Content)
    BY <1>1, <2>1, WriteFacts
  <2> QED BY <2>1, <2>2 DEF Newest
<1>2. ASSUME NEW s \in Stream, CorruptSnapshot(s)
      PROVE  disk'["manifest"] # {} /\ latest(disk'["manifest"]).version = Len(log')
  <2>1. /\ crashes = 0 /\ up = "down" /\ UNCHANGED log /\ disk[s] # {}
        /\ disk' = [disk EXCEPT ![s] = Damage(disk[s])]
    BY <1>2 DEF CorruptSnapshot, Damage
  <2>2. disk["manifest"] # {} /\ latest(disk["manifest"]).version = Len(log)
    BY <2>1 DEF StopIsClean
  <2>3. CASE s = "manifest"
    <3>1. disk[s] \in SUBSET File /\ WellKept(disk[s])
      BY <1>0 DEF TypeOK
    <3>2. Damage(disk[s]) # {} /\ latest(Damage(disk[s])).version = latest(disk[s]).version
      BY <2>1, <3>1, DamageFacts
    <3> QED BY <1>0, <2>1, <2>2, <2>3, <3>2 DEF TypeOK
  <2>4. CASE s # "manifest"
    BY <1>0, <2>1, <2>2, <2>4 DEF TypeOK
  <2> QED BY <2>3, <2>4
<1>3. CASE Crash
  BY <1>0, <1>3 DEF Crash, TypeOK
<1>4. CASE UNCHANGED vars
  BY <1>4 DEF vars, StopIsClean
<1> QED BY <1>1, <1>2, <1>3, <1>4
        DEF Next, Thread, Request, Apply, AttestRegister, AttestResume, ApplyThrows, SaveFails, Saving,
            _mutate, Setup, AttestAudit, AuditFails, stop, restoreAll, Ready

(* The snapshots hold every logged operation the manifest vouches for.     *)
LEMMA NextDiskTracked ==
    Inv /\ Inv' /\ DiskWithinLog /\ MemTracked /\ DiskTracked /\ SaveProgress
        /\ ~TruncateLog /\ [Next]_vars => DiskTracked'
<1> SUFFICES ASSUME Inv, Inv', DiskWithinLog, MemTracked, DiskTracked, SaveProgress, ~TruncateLog,
                    [Next]_vars, NEW i \in 1..Len(log'), i <= stampedPosition',
                    NEW o, log'[i].op = o, Tracked(o)'
             PROVE  Saved(o)'
  BY DEF DiskTracked, Tracked, Saved, Damaged
<1>0. /\ TypeOK /\ ThreadOK /\ LogOK /\ Grows /\ "manifest" \in Stream
      /\ \A s \in Stream : WellKept(disk[s])
  BY GrowStep, Streams DEF Inv
<1>1. stampedPosition' <= Len(log) /\ stampedPosition \in Nat /\ stampedPosition' \in Nat
  <2>1. \A f \in disk'["manifest"] : f.version <= Len(log)
    BY <1>0, DiskStep DEF DiskWithinLog
  <2>2. /\ disk'["manifest"] \in SUBSET File /\ WellKept(disk'["manifest"])
    BY <1>0 DEF Inv, TypeOK
  <2>3. disk'["manifest"] # {} => latest(disk'["manifest"]) \in disk'["manifest"]
    BY <2>2, LatestFacts
  <2>4. Len(log) \in Nat
    BY <1>0 DEF Grows
  <2>5. stampedPosition' <= Len(log) /\ stampedPosition' \in Nat
    BY <2>1, <2>2, <2>3, <2>4 DEF stampedPosition, File
  <2> QED BY <2>5, StampFacts
<1>2. /\ i \in 1..Len(log) /\ log[i].op = o /\ o \in Logged /\ o \in Op
      /\ subOf[o] \in Subsystem /\ subOf'[o] = subOf[o] /\ subOf[o] \in Stream /\ subOf[o] # "manifest"
  <2>1. i \in 1..Len(log)
    BY <1>0, <1>1 DEF Grows
  <2>2. log[i].op = o /\ o \in Logged /\ o \in Op /\ subOf[o] \in Subsystem /\ subOf'[o] = subOf[o]
    BY <1>0, <2>1, LogFacts DEF Grows, LogOK, Logged
  <2> QED BY <2>1, <2>2 DEF Subsystem
<1>5. ASSUME o \in warned PROVE Saved(o)'
  BY <1>0, <1>5 DEF Saved, Grows
<1>6. CASE UNCHANGED disk /\ ~SaveStream
  <2>1. stampedPosition' = stampedPosition
    BY <1>6, SameStamp
  <2>2. Tracked(o)
    <3> SUFFICES ASSUME ~Tracked(o) PROVE FALSE
      OBVIOUS
    <3>1. result[o] = "running" /\ dep.cadence = "onShutdown"
      BY <1>2, <1>6, TrackStep
    <3>2. i > stampedPosition
      BY <1>2, <3>1 DEF SaveProgress
    <3> QED BY <1>1, <1>2, <2>1, <3>2
  <2>3. Saved(o)
    BY <1>2, <2>1, <2>2 DEF DiskTracked
  <2> QED BY <1>0, <1>2, <1>6, <2>3 DEF Saved, Damaged, Grows
<1>7. CASE SaveStream
  <2>1. /\ up = "up" /\ run.at = "save" /\ run.next \in 1..5
        /\ Target \in Stream /\ (Target = "manifest" <=> run.next = 5)
    BY <1>0, <1>7, SaveStreamFacts
  <2>2. Newest(disk'[Target], Len(log), Content) /\ \A s \in Stream : s # Target => disk'[s] = disk[s]
    BY <1>7, WriteFacts
  <2>3. InMemory(o) \/ o \in warned
    <3>1. CASE Tracked(o)
      BY <1>2, <2>1, <3>1 DEF MemTracked
    <3>2. CASE ~Tracked(o)
      BY <1>2, <3>2, TrackStep
    <3> QED BY <3>1, <3>2
  <2>4. CASE InMemory(o) /\ Target = subOf[o]
    <3>1. Content = mem[subOf[o]]
      BY <1>2, <2>4 DEF Content
    <3>2. disk'[subOf[o]] # {} /\ latest(disk'[subOf[o]]).state = mem[subOf[o]]
      BY <2>2, <2>4, <3>1 DEF Newest
    <3> QED BY <1>2, <2>4, <3>2 DEF Saved, InMemory
  <2>5. CASE InMemory(o) /\ Target = "manifest"
    <3>1. PICK k \in 1..4 : SNAPSHOT_STREAMS[k] = subOf[o]
      BY <1>2, Streams
    <3>2. Newest(disk[subOf[o]], Len(log), mem[subOf[o]])
      BY <2>1, <2>5, <3>1 DEF SaveProgress
    <3>3. disk'[subOf[o]] # {} /\ latest(disk'[subOf[o]]).state = mem[subOf[o]]
      BY <1>2, <2>2, <2>5, <3>2 DEF Newest
    <3> QED BY <1>2, <2>5, <3>3 DEF Saved, InMemory
  <2>6. CASE Target # "manifest" /\ Target # subOf[o]
    <3>1. disk'["manifest"] = disk["manifest"] /\ disk'[subOf[o]] = disk[subOf[o]]
      BY <1>0, <1>2, <2>2, <2>6
    <3>2. stampedPosition' = stampedPosition
      BY <3>1, SameStamp
    <3>3. Tracked(o) \/ (run.next # 5 /\ dep.cadence = "onShutdown" /\ result[o] = "running")
      BY <1>2, <2>1, <2>6, TrackStep
    <3>4. Tracked(o)
      BY <1>1, <1>2, <3>2, <3>3 DEF SaveProgress
    <3>5. Saved(o)
      BY <1>2, <3>2, <3>4 DEF DiskTracked
    <3> QED BY <1>0, <1>2, <3>1, <3>5 DEF Saved, Damaged, Grows
  <2> QED BY <1>5, <2>3, <2>4, <2>5, <2>6
<1>8. ASSUME NEW s \in Stream, CorruptSnapshot(s) PROVE Saved(o)'
  <2>1. /\ disk[s] \in SUBSET File /\ disk[s] # {} /\ WellKept(disk[s])
        /\ disk' = [disk EXCEPT ![s] = Damage(disk[s])] /\ UNCHANGED result
    BY <1>0, <1>8 DEF CorruptSnapshot, Damage, TypeOK
  <2>2. disk'[s] # {} /\ latest(disk'[s]).state = Corrupt
    BY <1>0, <2>1, DamageFacts DEF TypeOK
  <2>3. CASE s = subOf[o]
    BY <1>2, <2>2, <2>3 DEF Saved, Damaged, hasSnapshot
  <2>4. CASE s = "manifest"
    <3>1. stampedPosition' = 0
      BY <2>2, <2>4 DEF stampedPosition, Damaged, hasSnapshot
    <3> QED BY <1>2, <3>1
  <2>5. CASE s # "manifest" /\ s # subOf[o]
    <3>1. disk'["manifest"] = disk["manifest"] /\ disk'[subOf[o]] = disk[subOf[o]]
      BY <1>0, <1>2, <2>1, <2>5 DEF TypeOK
    <3>2. stampedPosition' = stampedPosition
      BY <3>1, SameStamp
    <3>3. Tracked(o)
      BY <1>2, <2>1 DEF Tracked
    <3>4. Saved(o)
      BY <1>2, <3>2, <3>3 DEF DiskTracked
    <3> QED BY <1>0, <1>2, <3>1, <3>4 DEF Saved, Damaged, Grows
  <2> QED BY <2>3, <2>4, <2>5
<1> QED BY <1>6, <1>7, <1>8, DiskCases

(* The whole invariant is inductive as long as no tail is torn.            *)
LEMMA NextUncut ==
    Inv /\ Inv' /\ Uncut /\ [Next]_vars => Uncut'
<1> SUFFICES ASSUME Inv, Inv', Uncut, [Next]_vars, truncations' = 0 PROVE Whole'
  BY DEF Uncut
<1>0. TypeOK
  BY DEF Inv
<1>1. ~TruncateLog
  BY <1>0 DEF TruncateLog, TypeOK
<1>2. Whole
  BY <1>1, GrowStep DEF Uncut, Grows
<1>3. DiskWithinLog' /\ MemTracked' /\ DiskTracked' /\ SaveProgress' /\ StopIsClean'
  BY <1>1, <1>2, NextWithin, NextMemTracked, NextDiskTracked, NextProgress, NextStop DEF Whole
<1>4. up' # "refused"
  <2>1. ASSUME NEW allow \in dep.overrides, restoreAll(allow) PROVE up' # "refused"
    <3>1. stampedPosition <= Len(log) /\ stampedPosition \in Nat /\ Len(log) \in Nat
      BY <1>0, <1>2, Streams, StampFacts, LogFacts DEF Whole, DiskWithinLog
    <3> QED BY <2>1, <3>1 DEF restoreAll, globalPosition
  <2>2. CASE up = "up" \/ up' = up
    <3>1. CASE ~SaveStream /\ up' # up
      BY <1>2, <2>1, <3>1
         DEF Next, Thread, Request, Apply, AttestRegister, AttestResume, ApplyThrows, SaveFails,
             _mutate, Setup, AttestAudit, AuditFails, stop, Crash, Exit, TruncateLog, CorruptSnapshot, vars
    <3>2. CASE SaveStream
      BY <1>2, <3>2, SaveStreamFacts DEF Inv, Exit, Whole
    <3> QED BY <1>2, <3>1, <3>2 DEF Whole
  <2> QED BY <2>1, <2>2, UpStep
<1> QED BY <1>3, <1>4 DEF Whole

(* A cut after clean stops leaves the log short of the stamp, so the       *)
(* service does not come up.                                               *)
LEMMA NextCut ==
    Inv /\ Inv' /\ Uncut /\ CutIsSeen /\ [Next]_vars => CutIsSeen'
<1> SUFFICES ASSUME Inv, Inv', Uncut, CutIsSeen, [Next]_vars PROVE CutIsSeen'
  OBVIOUS
<1>0. TypeOK /\ ThreadOK /\ LineageOK /\ "manifest" \in Stream
  BY Streams DEF Inv
<1>1. ASSUME corruptions' = 0, NEW s \in Stream, NEW f \in disk'[s] PROVE f.state # Corrupt
  <2>1. \A t \in Stream : ~CorruptSnapshot(t)
    BY <1>0, <1>1 DEF CorruptSnapshot, TypeOK
  <2>2. corruptions = 0
    BY <1>0, <1>1, <2>1, SaveStreamFacts
       DEF Next, Thread, Request, Apply, AttestRegister, AttestResume, ApplyThrows, SaveFails,
           _mutate, Setup, AttestAudit, AuditFails, stop, Crash, TruncateLog, restoreAll, vars, faultVars
  <2>3. SaveStream => Content # Corrupt
    <3>1. mem \in [Subsystem -> SUBSET Op] /\ "corrupt" \notin Op
      BY <1>0, RequestsAreNoMarkers DEF TypeOK
    <3>2. SaveStream => Target = "manifest" \/ Target \in Subsystem
      BY <1>0, SaveStreamFacts DEF Subsystem
    <3> QED BY <3>1, <3>2 DEF Content, Corrupt
  <2> QED BY <2>1, <2>2, <2>3, DiskStep DEF CutIsSeen
<1>2. ASSUME Orderly', truncations' > 0 PROVE up' # "up" /\ stampedPosition' > Len(log')
  <2>1. (\A t \in Stream : ~CorruptSnapshot(t)) /\ ~Crash
    BY <1>0, <1>2 DEF CorruptSnapshot, Crash, TypeOK, Orderly
  <2>2. Orderly
    BY <1>0, <1>2, <2>1, SaveStreamFacts
       DEF Next, Thread, Request, Apply, AttestRegister, AttestResume, ApplyThrows, SaveFails, Orderly,
           _mutate, Setup, AttestAudit, AuditFails, stop, TruncateLog, restoreAll, vars, faultVars
  <2>3. CASE TruncateLog
    <3>1. /\ up = "down" /\ up' = up /\ UNCHANGED disk
          /\ Len(log) \in Nat /\ Len(log') \in Nat /\ Len(log') < Len(log)
      BY <1>0, <2>3, CutFacts DEF TruncateLog
    <3>2. stampedPosition' = stampedPosition /\ stampedPosition \in Nat
      BY <3>1, SameStamp, StampFacts
    <3>3. stampedPosition >= Len(log)
      <4>1. CASE truncations = 0
        <5>1. disk["manifest"] # {} /\ latest(disk["manifest"]).version = Len(log)
          BY <2>2, <3>1, <4>1 DEF Uncut, Whole, StopIsClean, Orderly
        <5>2. disk["manifest"] \in SUBSET File /\ WellKept(disk["manifest"])
          BY <1>0 DEF Inv, TypeOK
        <5>3. latest(disk["manifest"]) \in disk["manifest"]
          BY <5>1, <5>2, LatestFacts
        <5>4. ~Damaged("manifest")
          BY <1>0, <2>2, <5>3 DEF CutIsSeen, Orderly, Damaged
        <5> QED BY <3>1, <5>1, <5>4 DEF stampedPosition
      <4>2. CASE truncations # 0
        BY <1>0, <2>2, <3>1, <3>2, <4>2 DEF CutIsSeen, TypeOK
      <4> QED BY <4>1, <4>2
    <3> QED BY <3>1, <3>2, <3>3
  <2>4. CASE ~TruncateLog
    <3>1. truncations > 0
      BY <1>2, <2>4, GrowStep DEF Grows
    <3>2. up # "up" /\ stampedPosition > Len(log)
      BY <2>2, <3>1 DEF CutIsSeen
    <3>3. ~SaveStream
      BY <1>0, <3>2, SaveStreamFacts
    <3>4. UNCHANGED <<disk, log>>
      BY <2>1, <2>4, <3>2, <3>3
         DEF Next, Thread, Request, Apply, AttestRegister, AttestResume, ApplyThrows, SaveFails, Saving,
             _mutate, Setup, AttestAudit, AuditFails, stop, restoreAll, vars, Ready
    <3>5. stampedPosition' > Len(log')
      BY <3>2, <3>4, SameStamp
    <3>6. ASSUME NEW allow \in dep.overrides, restoreAll(allow) PROVE up' # "up"
      BY <2>2, <3>2, <3>6 DEF restoreAll, globalPosition, Orderly
    <3> QED BY <3>2, <3>5, <3>6, UpStep
  <2> QED BY <2>3, <2>4
<1> QED BY <1>1, <1>2 DEF CutIsSeen

-----------------------------------------------------------------------------
(* The full invariant holds initially.                                     *)
LEMMA InitFull == Init => FullInv
<1> SUFFICES ASSUME Init PROVE FullInv
  OBVIOUS
<1>1. Inv
  BY InitInv
<1>2. /\ 1..Len(log) = {} /\ Logged = {} /\ run.at = "idle"
      /\ \A s \in Stream : disk[s] = {}
      /\ \A s \in Subsystem : mem[s] = {} /\ s \in Stream
  BY IdleFacts DEF Init, Logged, Empty, Subsystem
<1>3. DiskWithinLog
  BY <1>2 DEF Init, DiskWithinLog
<1>5. MemTracked /\ DiskTracked /\ SaveProgress
  BY <1>2 DEF MemTracked, DiskTracked, SaveProgress
<1>6. StopIsClean /\ up # "refused"
  BY DEF Init, StopIsClean
<1>4. CutIsSeen
  BY <1>2 DEF Init, CutIsSeen
<1> QED BY <1>1, <1>3, <1>4, <1>5, <1>6 DEF FullInv, Uncut, Whole

(* Through crashes, clean stops, failing writes, damaged snapshots and cut *)
(* logs the service stays well formed; its memory and snapshots account for*)
(* the whole log as long as nobody cuts it; and a cut after clean stops,   *)
(* with snapshots intact and no override, keeps it from coming up          *)
(* (restoreAll's comparison of the manifest with the log).                 *)
THEOREM FullInvariance == Spec => []FullInv
<1>1. FullInv /\ [Next]_vars => FullInv'
  BY NextInv, NextUncut, NextCut DEF FullInv
<1> QED BY <1>1, InitFull, PTL DEF Spec

(* The log is as the service left it, or, if it was cut, the service was   *)
(* always stopped cleanly, no snapshot was damaged and no operator lets    *)
(* snapshots run ahead of the log.                                         *)
Guarded == truncations = 0 \/ Orderly

(* A service that is up and guarded by its stamp has a whole log behind it.*)
LEMMA GuardedFacts ==
    ASSUME FullInv, Guarded, up = "up"
    PROVE  Whole /\ ThreadOK /\ TypeOK /\ LogOK
BY DEF FullInv, Inv, Guarded, CutIsSeen, Uncut, TypeOK

(* What a caller was told is kept survives any number of crashes, clean    *)
(* stops, failing writes and damaged snapshots, or a WARN has named it.    *)
THEOREM AckedCorrect == Spec => [](Guarded => AckedSurvives)
<1>1. FullInv /\ Guarded => AckedSurvives
  <2> SUFFICES ASSUME FullInv, Guarded, up = "up", NEW o \in Op, o \notin unaudited, result[o] = "ok"
               PROVE  InMemory(o) \/ o \in warned
    BY DEF AckedSurvives
  <2>1. Whole /\ ThreadOK
    BY GuardedFacts
  <2>2. o \in Logged /\ Tracked(o)
    BY <2>1 DEF Whole, DiskWithinLog, Tracked
  <2>3. ~(run.at = "apply" /\ run.op = o)
    BY <2>1 DEF ThreadOK
  <2> QED BY <2>1, <2>2, <2>3 DEF Whole, MemTracked
<1> QED BY <1>1, FullInvariance, PTL

(* The service never serves state that has no event in its log.            *)
THEOREM BackedCorrect == Spec => [](Guarded => StateBackedByLog)
<1>1. FullInv /\ Guarded => StateBackedByLog
  <2> SUFFICES ASSUME FullInv, Guarded, up = "up", NEW s \in Subsystem
               PROVE  mem[s] \ unaudited \subseteq Logged
    BY DEF StateBackedByLog
  <2> QED BY GuardedFacts DEF Whole, DiskWithinLog
<1> QED BY <1>1, FullInvariance, PTL

(* Between two calls, every audited mutation whose caller saw no error is  *)
(* applied or was named by a WARN: the crash window is never silent.       *)
THEOREM GapCorrect == Spec => [](Guarded => NeverSilentGap)
<1>1. FullInv /\ Guarded => NeverSilentGap
  <2> SUFFICES ASSUME FullInv, Guarded, Ready, NEW o \in Logged, subOf[o] \in dep.mutated,
                      result[o] # "thrown"
               PROVE  InMemory(o) \/ o \in warned
    BY DEF NeverSilentGap
  <2>1. Whole /\ TypeOK /\ up = "up" /\ run.at # "apply"
    BY GuardedFacts, IdleFacts DEF Ready
  <2>2. Tracked(o)
    BY <2>1, LogFacts DEF Tracked
  <2> QED BY <2>1, <2>2 DEF Whole, MemTracked
<1> QED BY <1>1, FullInvariance, PTL

(* restoreAll refuses a log that was cut after a clean stop, and never one *)
(* that was not cut.                                                       *)
THEOREM RefusalCorrect ==
    Spec => []((truncations = 0 => up # "refused") /\ (Orderly /\ truncations > 0 => up # "up"))
<1>1. FullInv => (truncations = 0 => up # "refused") /\ (Orderly /\ truncations > 0 => up # "up")
  BY DEF FullInv, Uncut, Whole, CutIsSeen
<1> QED BY <1>1, FullInvariance, PTL
=============================================================================
