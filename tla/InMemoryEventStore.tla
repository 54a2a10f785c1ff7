-------------------------- MODULE InMemoryEventStore --------------------------
(***************************************************************************)
(* The in-memory event store and its subscriptions                         *)
(* (packages/event-store/src/in-memory-store.ts; the reads, subscriptions  *)
(* and dispatch of jsonl-store.ts are the same code).                      *)
(*                                                                         *)
(* append() calls the subscribers before it returns.  A handler runs to    *)
(* its end before the next one is called, and may append, subscribe and    *)
(* unsubscribe itself; what it throws is swallowed.  A JavaScript Set is a *)
(* sequence whose deleted elements leave a hole, which is how its          *)
(* iteration treats elements added and deleted meanwhile.                  *)
(***************************************************************************)
EXTENDS Integers, Sequences, SequencesExt, FiniteSets, HashChain

CONSTANTS
    Handler, Stream,
    AllStreams,          \* stands for "every stream" in a subscription
    Hole,         \* a deleted element of a Set
    MaxEvents,    \* bound: events ever appended
    MaxHandles    \* bound: subscriptions ever made

ASSUME AllStreamsIsNone == AllStreams \notin Stream
ASSUME HoleIsNoHandler == Hole \notin Handler

VARIABLES
    globalLog,
    subscriberSets,     \* the Set objects ever made; the first is _globalSubscribers
    streamSubscribers,  \* streamSubscribers[s]: its Set in the map, or 0
    handles,            \* the subscriptions handed out
    frames,             \* the dispatches under way, innermost first
    received,           \* received[h]: what handler h was called with (history)
    respent,            \* streams on which a spent handle was used again (history)
    reentered           \* a handler has appended (history)

subscriptionVars == <<subscriberSets, streamSubscribers, handles, respent>>
memoryVars == <<globalLog, subscriptionVars, frames, received, reentered>>

MemoryInit ==
    /\ globalLog = <<>>
    /\ subscriberSets = << <<>> >>
    /\ streamSubscribers = [s \in Stream |-> 0]
    /\ handles = <<>> /\ frames = <<>>
    /\ received = [h \in Handler |-> <<>>]
    /\ respent = {} /\ reentered = FALSE

-----------------------------------------------------------------------------
(* Reads                                                                   *)

streamOf(s) == SelectSeq(globalLog, LAMBDA e : e.ev.streamId = s)
streamVersion(s) == Len(streamOf(s))
globalPosition == Len(globalLog)

(* From a place of the log onward, or from there back; maxCount < 0 stands *)
(* for its absence.                                                        *)
Window(places, direction, from, maxCount) ==
    LET found == IF direction = "forward"
                 THEN SelectSeq(places, LAMBDA n : n >= from)
                 ELSE Reverse(SelectSeq(places, LAMBDA n : n <= from))
    IN  IF maxCount < 0 \/ maxCount > Len(found) THEN found ELSE SubSeq(found, 1, maxCount)

Places(records) == [k \in DOMAIN records |-> k]

readAll(direction, fromPosition, maxCount) ==
    LET w == Window(Places(globalLog), direction, fromPosition, maxCount)
    IN  [k \in DOMAIN w |-> globalLog[w[k]]]

read(s, direction, fromVersion, maxCount) ==
    LET w == Window(Places(streamOf(s)), direction, fromVersion, maxCount)
    IN  [k \in DOMAIN w |-> streamOf(s)[w[k]]]

-----------------------------------------------------------------------------
(* append() up to the first handler, and _dispatch                         *)

(* Code of the program runs: at the top, or in a handler just called.      *)
CallerRuns == frames # <<>> => Head(frames).who # Hole

(* The expectedVersion "any" (or none) is -1 and "no_stream" is 0.         *)
VersionExpected(s, expectedVersion) == expectedVersion \in {-1, streamVersion(s)}

Chained(records, s, v) ==
    LET ev == [streamId |-> s, version |-> v, globalPosition |-> Len(records) + 1]
        previousHash == HashBefore(records, Len(records) + 1)
    IN  StoredEvent(ev, computeEventHash(ev, previousHash), previousHash)

AppendAll(s, n) ==
    FoldLeft(LAMBDA records, v : Append(records, Chained(records, s, v)), globalLog,
             [i \in 1..n |-> streamVersion(s) + i])

(* The frame of a dispatch: the Sets still to iterate, the place in the    *)
(* first of them, the handler being served and the next event for it.      *)
Dispatch(s, first, last) ==
    [sets |-> SelectSeq(<<streamSubscribers[s], 1>>, LAMBDA i : i # 0), at |-> 0, who |-> Hole,
     next |-> first, first |-> first, last |-> last]

appendTo(s, n, expectedVersion) ==
    /\ CallerRuns
    /\ VersionExpected(s, expectedVersion)
    /\ globalPosition + n <= MaxEvents
    /\ globalLog' = AppendAll(s, n)
    /\ frames' = <<Dispatch(s, globalPosition + 1, globalPosition + n)>> \o frames
    /\ reentered' = (reentered \/ frames # <<>>)
    /\ UNCHANGED <<subscriptionVars, received>>

(* The Set of the frame's dispatch is looked up once, when it begins.      *)
Via(f) == IF Len(f.sets) = 2 \/ f.sets[1] # 1 THEN globalLog[f.first].ev.streamId ELSE AllStreams

Served(f) == f.who = Hole \/ f.next > f.last

Call(f, h) ==
    /\ received' = [received EXCEPT ![h] = Append(@, [position |-> f.next, via |-> Via(f)])]
    /\ frames' = <<[f EXCEPT !.who = h, !.next = @ + 1]>> \o Tail(frames)

(* The handler returns or throws, and the loops of _dispatch go on: the    *)
(* next event for it, the next handler that is in the Set by now, the next *)
(* Set, or the return of append().                                         *)
Deliver ==
    /\ frames # <<>>
    /\ LET f == Head(frames)
           ahead == {i \in DOMAIN subscriberSets[f.sets[1]] :
                        i > f.at /\ subscriberSets[f.sets[1]][i] # Hole}
           i == CHOOSE j \in ahead : \A k \in ahead : j <= k
       IN  \/ ~Served(f) /\ Call(f, f.who)
           \/ /\ Served(f) /\ ahead # {}
              /\ Call([f EXCEPT !.at = i, !.next = f.first], subscriberSets[f.sets[1]][i])
           \/ /\ Served(f) /\ ahead = {} /\ Len(f.sets) > 1
              /\ frames' = <<[f EXCEPT !.sets = Tail(@), !.at = 0, !.who = Hole]>> \o Tail(frames)
              /\ UNCHANGED received
           \/ /\ Served(f) /\ ahead = {} /\ Len(f.sets) = 1
              /\ frames' = Tail(frames)
              /\ UNCHANGED received
    /\ UNCHANGED <<globalLog, subscriptionVars, reentered>>

-----------------------------------------------------------------------------
(* Subscriptions                                                           *)

Members(n) == Range(subscriberSets[n]) \ {Hole}

Added(members, h) == IF h \in Range(members) THEN members ELSE Append(members, h)

Handle(h, s, n) ==
    [handler |-> h, stream |-> s, set |-> n, live |-> TRUE,
     position |-> globalPosition, version |-> IF s = AllStreams THEN 0 ELSE streamVersion(s)]

subscribe(s, h) ==
    LET n == IF streamSubscribers[s] = 0 THEN Len(subscriberSets) + 1 ELSE streamSubscribers[s]
    IN  /\ CallerRuns /\ Len(handles) < MaxHandles
        /\ subscriberSets' = IF n > Len(subscriberSets) THEN Append(subscriberSets, <<h>>)
                             ELSE [subscriberSets EXCEPT ![n] = Added(@, h)]
        /\ streamSubscribers' = [streamSubscribers EXCEPT ![s] = n]
        /\ handles' = Append(handles, Handle(h, s, n))
        /\ UNCHANGED <<globalLog, frames, received, respent, reentered>>

subscribeAll(h) ==
    /\ CallerRuns /\ Len(handles) < MaxHandles
    /\ subscriberSets' = [subscriberSets EXCEPT ![1] = Added(@, h)]
    /\ handles' = Append(handles, Handle(h, AllStreams, 1))
    /\ UNCHANGED <<globalLog, streamSubscribers, frames, received, respent, reentered>>

Deleted(members, h) == [i \in DOMAIN members |-> IF members[i] = h THEN Hole ELSE members[i]]

(* Equal subscriptions share one element of the Set and end together.      *)
Ended(c) ==
    [i \in DOMAIN handles |->
        IF handles[i].handler = c.handler /\ handles[i].set = c.set
        THEN [handles[i] EXCEPT !.live = FALSE] ELSE handles[i]]

(* The stream leaves the map with any of its handlers.                     *)
unsubscribe_Always(i) ==
    LET c == handles[i]
    IN  /\ CallerRuns
        /\ subscriberSets' = [subscriberSets EXCEPT ![c.set] = Deleted(@, c.handler)]
        /\ streamSubscribers' = IF c.stream # AllStreams
                                THEN [streamSubscribers EXCEPT ![c.stream] = 0]
                                ELSE streamSubscribers
        /\ handles' = Ended(c)
        /\ respent' = respent \cup (IF c.live THEN {} ELSE {c.stream})
        /\ UNCHANGED <<globalLog, frames, received, reentered>>

(* A handle may be used again; then an old Set, empty by now, takes the    *)
(* stream's present one out of the map.                                    *)
unsubscribe(i) ==
    LET c == handles[i]
    IN  /\ CallerRuns
        /\ subscriberSets' = [subscriberSets EXCEPT ![c.set] = Deleted(@, c.handler)]
        /\ streamSubscribers' = IF c.stream # AllStreams /\ Members(c.set) \subseteq {c.handler}
                                THEN [streamSubscribers EXCEPT ![c.stream] = 0]
                                ELSE streamSubscribers
        /\ handles' = Ended(c)
        /\ respent' = respent \cup (IF c.live THEN {} ELSE {c.stream})
        /\ UNCHANGED <<globalLog, frames, received, reentered>>

MemoryNext ==
    \/ \E s \in Stream, n \in 1..2, v \in -1..MaxEvents : appendTo(s, n, v)
    \/ Deliver
    \/ \E h \in Handler : subscribeAll(h) \/ \E s \in Stream : subscribe(s, h)
    \/ \E i \in DOMAIN handles : unsubscribe(i)

-----------------------------------------------------------------------------
(* Properties                                                              *)

(* What a subscription has been called with, of the events after it, and   *)
(* what a reader who started there reads.                                  *)
Got(c) == LET after == SelectSeq(received[c.handler],
                            LAMBDA r : r.via = c.stream /\ r.position > c.position)
          IN  [k \in DOMAIN after |-> globalLog[after[k].position]]
ReadSince(c) == IF c.stream = AllStreams THEN readAll("forward", c.position + 1, -1)
                ELSE read(c.stream, "forward", c.version + 1, -1)

(* A subscriber sees what a reader sees: when no dispatch is under way,    *)
(* every live subscription was called once with every event after it,      *)
(* whatever handlers did to the Sets that were being iterated, and in the  *)
(* order of the log unless a handler appended.  Streams on which a spent   *)
(* handle was used again are excepted.  The chain verifies throughout.     *)
SubscribersSeeEverything ==
    /\ ChainValid(globalLog)
    /\ frames = <<>> =>
         \A i \in DOMAIN handles :
            LET c == handles[i]
            IN  c.live /\ c.stream \notin respent =>
                  /\ Range(Got(c)) = Range(ReadSince(c))
                  /\ Len(Got(c)) = Len(ReadSince(c))
                  /\ ~reentered => Got(c) = ReadSince(c)
==============================================================================
