------------------------------ MODULE Pagination ------------------------------
(***************************************************************************)
(* Cursor pagination of the node's lists (packages/node/src/types/         *)
(* pagination.ts and the list routes) and the SDK's walk over all pages    *)
(* (packages/sdk/src/client.ts, paginateAll), while items are added and    *)
(* leave.                                                                  *)
(*                                                                         *)
(* A cursor is the value of a field as a string, and pages continue with   *)
(* what compares greater.  A string is the sequence of its characters, a   *)
(* character a number in code unit order.                                  *)
(***************************************************************************)
EXTENDS Integers, Sequences, SequencesExt, FiniteSets, Selection

CONSTANTS
    Lists,         \* the lists explored: "events", "intents", "attestations", "envelopes"
    Limits,        \* page sizes
    EnvelopeIds,   \* strings
    Collation,     \* envelope ids in the order of localeCompare, a sequence
    EventsBefore,  \* events in the log when the walk begins
    MaxTime,       \* bound: the clock, in milliseconds
    MaxItems,      \* bound: items ever listed
    NoCursor

ASSUME PagesAssumption ==
    /\ Limits \subseteq Nat \ {0} /\ EventsBefore \in Nat
    /\ EnvelopeIds \subseteq Seq(Int)
    /\ \A f \in EnvelopeIds : \E n \in 1..Len(Collation) : Collation[n] = f
    /\ Len(Collation) \in Nat /\ DOMAIN Collation = 1..Len(Collation)

ASSUME CursorAssumption == NoCursor \notin Seq(Int)

VARIABLES
    list, limit,   \* what is walked; they never change
    items,         \* the service's items in its own order: [id, field]
    made,          \* items ever made
    clock,
    cursor,        \* the next request's cursor
    seen,          \* items the walk has yielded
    present,       \* items there since the walk began
    walk,          \* "before", "walking", "ended"
    ascending      \* the list was always sorted by the cursor field (history)

pageVars == <<list, limit, items, made, clock, cursor, seen, present, walk, ascending>>

(* String(n) of a number below 100.                                        *)
String(n) == IF n < 10 THEN <<n>> ELSE <<n \div 10, n % 10>>

Item(id, field) == [id |-> id, field |-> field]

-----------------------------------------------------------------------------
(* The lists: by globalPosition, by declaredAt (sorted, as the treasury's  *)
(* lists are by createdAt), by attestedAt (in the order of the log), by id *)

ListIds(s) == {s[k].id : k \in DOMAIN s}

(* The cursor fields of an item made now.                                  *)
EventPosition == {String(made + 1)}
Timestamp == {<<clock>>}
FreeIds == EnvelopeIds \ {items[k].field : k \in DOMAIN items}

NewFields == CASE list = "events" -> EventPosition
               [] list = "envelopes" -> FreeIds
               [] OTHER -> Timestamp

Create ==
    /\ made < MaxItems
    /\ \E f \in NewFields : items' = Append(items, Item(made + 1, f))
    /\ made' = made + 1
    /\ UNCHANGED <<list, limit, clock, cursor, seen, present, walk>>

Tick ==
    /\ list \in {"intents", "attestations"} /\ clock < MaxTime
    /\ clock' = clock + 1
    /\ UNCHANGED <<list, limit, items, made, cursor, seen, present, walk>>

(* An intent changes its status and drops out of a list filtered by it.    *)
Leave ==
    /\ list = "intents"
    /\ \E k \in DOMAIN items :
          /\ items' = RemoveAt(items, k)
          /\ present' = present \ {items[k].id}
    /\ UNCHANGED <<list, limit, made, clock, cursor, seen, walk>>

(* Array.prototype.sort, which keeps equal items in their order: an item's *)
(* place is the number of items up to it.                                  *)
SortedBy(s, key) ==
    LET upTo(k) == {j \in DOMAIN s : key[j] < key[k] \/ (key[j] = key[k] /\ j <= k)}
    IN  [n \in DOMAIN s |-> s[CHOOSE k \in DOMAIN s : Cardinality(upTo(k)) = n]]

Collated(s) ==
    SortedBy(s, [k \in DOMAIN s |-> CHOOSE n \in DOMAIN Collation : Collation[n] = s[k].field])

ByTime(s) == SortedBy(s, [k \in DOMAIN s |-> s[k].field[1]])

Listed == CASE list = "envelopes" -> Collated(items)
            [] list = "intents" -> ByTime(items)
            [] OTHER -> items

-----------------------------------------------------------------------------
(* paginate, and the loop of paginateAll around it                         *)

(* JavaScript's > on strings.                                              *)
Greater(x, y) ==
    \/ IsStrictPrefix(y, x)
    \/ \E n \in DOMAIN x \cap DOMAIN y :
          x[n] > y[n] /\ SubSeq(x, 1, n - 1) = SubSeq(y, 1, n - 1)

(* The cursor's item is sent again.                                        *)
AfterCursor_Inclusive(s, c) ==
    IF c = NoCursor THEN s ELSE Select(s, {x \in ToSet(s) : x.field = c \/ Greater(x.field, c)})

AfterCursor(s, c) == IF c = NoCursor THEN s ELSE Select(s, {x \in ToSet(s) : Greater(x.field, c)})

paginate(s, c, lim) ==
    LET filtered == AfterCursor(s, c)
        hasMore == Len(filtered) > lim
        data == IF hasMore THEN SubSeq(filtered, 1, lim) ELSE filtered
    IN  [data |-> data, hasMore |-> hasMore,
         cursor |-> IF hasMore THEN data[lim].field ELSE NoCursor]

(* One request of paginateAll and the items it yields.                     *)
FetchPage ==
    LET page == paginate(Listed, cursor, limit)
    IN  /\ walk # "ended"
        /\ seen' = seen \o [k \in DOMAIN page.data |-> page.data[k].id]
        /\ present' = IF walk = "before" THEN ListIds(items) ELSE present
        /\ cursor' = page.cursor
        /\ walk' = IF page.hasMore THEN "walking" ELSE "ended"
        /\ UNCHANGED <<list, limit, items, made, clock>>

(* The caller iterates once more.                                          *)
WalkAgain ==
    /\ walk = "ended"
    /\ walk' = "before" /\ seen' = <<>> /\ present' = {}
    /\ UNCHANGED <<list, limit, items, made, clock, cursor>>

(* What paginate asks of its caller: "Items must be sorted by the cursor    *)
(* field in ascending order", here strictly.                               *)
Ascending == \A j, k \in DOMAIN Listed : j < k => Greater(Listed[k].field, Listed[j].field)

PageInit ==
    /\ list \in Lists /\ limit \in Limits
    /\ made = IF list = "events" THEN EventsBefore ELSE 0
    /\ items = [n \in 1..made |-> Item(n, String(n))]
    /\ clock = 1
    /\ cursor = NoCursor /\ seen = <<>> /\ present = {} /\ walk = "before"
    /\ ascending = Ascending

PageNext ==
    /\ Create \/ Tick \/ Leave \/ FetchPage \/ WalkAgain
    /\ ascending' = (ascending /\ Ascending')

PageSpec == PageInit /\ [][PageNext]_pageVars

-----------------------------------------------------------------------------
(* Properties                                                              *)

Times(id) == Cardinality({k \in DOMAIN seen : seen[k] = id})

(* A walk over all pages yields every item that stayed in the list exactly *)
(* once, and none twice, whatever was added or left between two requests,  *)
(* as long as the list is sorted by the field its cursor names.            *)
PageWalkComplete ==
    walk = "ended" /\ ascending =>
        /\ \A id \in present : Times(id) = 1
        /\ \A id \in Range(seen) : Times(id) = 1

(* The same for the events, whose list is in the order of their positions: *)
(* GET /events is to "List all events (cursor pagination)", so a client    *)
(* that follows the cursors is sent every event that was there.            *)
EventsWalkComplete == walk = "ended" => \A id \in present : Times(id) = 1
==============================================================================
