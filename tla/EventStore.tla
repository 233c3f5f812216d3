----------------------------- MODULE EventStore -----------------------------
(***************************************************************************)
(* The SQLite event buffer, storage.py.  Every method holds the lock and   *)
(* one transaction from its first statement to its last, so a method is a  *)
(* step; the events of a batch were created, with their reception time, by *)
(* the reader before, and other sources' methods run in between.           *)
(*                                                                         *)
(* An event is numbered by its creation; the number stands for received_at *)
(* and for the sequence and id that break its ties: one event loop creates *)
(* the events one after the other, and the clock is not set back.          *)
(*                                                                         *)
(* A timestamp is an hour and the zone it is written in; the table keeps   *)
(* its ISO text, which orders like the local time hour + zone.             *)
(*                                                                         *)
(* A definition whose name begins with Bad is a faulty variant of the one  *)
(* that follows it, there to try the properties on a plausible bug.        *)
(***************************************************************************)
EXTENDS Filters, Sequences, SequencesExt, FiniteSetsExt

CONSTANTS
    Sources,        \* source ids
    Contents,       \* what a line parses to: [hour, zone, size, level, message, fields];
                    \* hour 0: no timestamp
    Shifts,         \* values of timezone_offset_hours
    Limits,         \* values of history_events, and of a query's limit
    ByteLimits,     \* values of disk_buffer_bytes
    PruneBatch,     \* rows of an eviction batch (1000 in the code)
    PageSize,       \* rows of a query's page (1000 or more in the code)
    Befores,        \* values of a query's before_timestamp, 0 for none
    Filters,        \* the filters of the panels
    Asked,          \* the filters of the queries
    BrowserZones,   \* zones a browser may be in
    MaxEvents       \* bound: events ever read

ASSUME BoundAssumption == MaxEvents \in Nat
ASSUME BatchAssumption == PruneBatch \in Nat \ {0} /\ PageSize \in Nat \ {0}
ASSUME LimitAssumption == Limits \subseteq Nat \ {0} /\ ByteLimits \subseteq Nat
ASSUME AskedAssumption == Asked \subseteq Filters
\* The Literal types of FilterGroup and FilterCondition.
ASSUME FilterAssumption ==
    \A g \in Filters : \A h \in Tree(g) :
        h.logic \in {"AND", "OR"} /\ \A c \in h.conditions : c.field \in Fields
\* Hours count from an origin that no timestamp reaches, whatever its shift.
ASSUME ContentAssumption ==
    \A c \in Contents :
        /\ c.hour \in Nat /\ c.zone \in Int /\ c.size \in Nat
        /\ \A p \in DOMAIN c.fields :
               /\ c.fields[p].kind \in JsonKinds
               /\ c.fields[p].kind = "boolean" => c.fields[p].is \in BOOLEAN
        /\ c.hour # 0 => \A k \in Shifts : c.hour + k \in Nat \ {0}

VARIABLES
    rows,       \* the table events
    logical,    \* the counter logical_bytes of the table metadata
    maxBytes,   \* EventStore.max_bytes
    shift,      \* the configured shift of each source
    pending,    \* the batch each reader is about to insert
    read        \* events read so far

vars == <<rows, logical, maxBytes, shift, pending, read>>

Row == [n : 1..MaxEvents, src : Sources, content : Contents, hour : Nat]

Of(s) == {r \in rows : r.src = s}
Oldest(R, k) == {r \in R : Cardinality({x \in R : x.n < r.n}) < k}
Newest(R, k) == {r \in R : Cardinality({x \in R : x.n > r.n}) < k}
Bytes(R) == SumFunction([r \in R |-> r.content.size])
Drop(counter, R) == IF Bytes(R) > counter THEN 0 ELSE counter - Bytes(R)

\* display_timestamp: 0 for an event that carries none
Displayed(content, s) == IF content.hour = 0 THEN 0 ELSE content.hour + shift[s]

-----------------------------------------------------------------------------
(* Writing.                                                                *)

BadNumber == read
Number == read + 1

\* EventAssembler: a reader creates an event of its next batch.
Read(s, content) ==
    /\ read < MaxEvents
    /\ read' = read + 1
    /\ pending' = [pending EXCEPT ![s] = Append(@,
           [n |-> Number, src |-> s, content |-> content, hour |-> Displayed(content, s)])]
    /\ UNCHANGED <<rows, logical, maxBytes, shift>>

BadExcess(R, limit) ==
    IF Cardinality(R) > limit THEN Newest(R, Cardinality(R) - limit) ELSE {}
Excess(R, limit) ==
    IF Cardinality(R) > limit THEN Oldest(R, Cardinality(R) - limit) ELSE {}

\* The eviction loop: the batches it deletes, oldest first, end when the
\* counter is within the limit or the table is empty.
Pruned(R, counter) ==
    LET Batches(k) == Oldest(R, k * PruneBatch)
        enough == {k \in 0..Cardinality(R) :
                      Batches(k) = R \/ Drop(counter, Batches(k)) <= maxBytes}
    IN  Batches(Min(enough))

\* insert_many: the batch, then the source's limit, then the byte limit.  A
\* source that is no longer configured has no limit (0).
Insert(s, limit) ==
    LET added == rows \cup ToSet(pending[s])
        counted == logical + Bytes(ToSet(pending[s]))
        excess == IF limit = 0 THEN {} ELSE Excess({r \in added : r.src = s}, limit)
        kept == added \ excess
        pruned == Pruned(kept, Drop(counted, excess))
    IN
    /\ pending[s] # <<>>
    /\ rows' = kept \ pruned
    /\ logical' = Drop(Drop(counted, excess), pruned)
    /\ pending' = [pending EXCEPT ![s] = <<>>]
    /\ UNCHANGED <<maxBytes, shift, read>>

BadDelete(R) ==
    /\ rows' = rows \ R
    /\ UNCHANGED logical
Delete(R) ==
    /\ rows' = rows \ R
    /\ logical' = Drop(logical, R)

TrimSource(s, limit) ==
    /\ Delete(Excess(Of(s), limit))
    /\ UNCHANGED <<maxBytes, shift, pending, read>>

DeleteLatest(s, limit) ==
    /\ Delete(Newest(Of(s), limit))
    /\ UNCHANGED <<maxBytes, shift, pending, read>>

DeleteSource(s) ==
    /\ Delete(Of(s))
    /\ UNCHANGED <<maxBytes, shift, pending, read>>

BadShifted(r, hours) ==
    [r EXCEPT !.hour = IF r.content.hour = 0 THEN 0 ELSE r.hour + hours]
Shifted(r, hours) ==
    [r EXCEPT !.hour = IF r.content.hour = 0 THEN 0 ELSE r.content.hour + hours]

\* The source's reader is stopped while its shift changes.
ShiftSource(s, hours) ==
    /\ pending[s] = <<>>
    /\ shift' = [shift EXCEPT ![s] = hours]
    /\ rows' = {IF r.src = s THEN Shifted(r, hours) ELSE r : r \in rows}
    /\ UNCHANGED <<logical, maxBytes, pending, read>>

\* PUT /api/settings: the new limit is enforced by the next insertion.
UpdateSettings(bytes) ==
    /\ maxBytes' = bytes
    /\ UNCHANGED <<rows, logical, shift, pending, read>>

-----------------------------------------------------------------------------
(* Reading.                                                                *)

Local(r) == r.hour + r.content.zone
Timeless(r) == r.hour = 0

\* ORDER BY display_ts IS NULL, display_ts DESC, received_at DESC ...
SqlBefore(a, b) ==
    \/ ~Timeless(a) /\ Timeless(b)
    \/ Timeless(a) /\ Timeless(b) /\ a.n > b.n
    \/ /\ ~Timeless(a) /\ ~Timeless(b)
       /\ \/ Local(a) > Local(b)
          \/ Local(a) = Local(b) /\ a.content.zone > b.content.zone
          \/ Local(a) = Local(b) /\ a.content.zone = b.content.zone /\ a.n > b.n

\* The WHERE clause; no sources means all of them, no before is 0.
Selected(srcs, before, timeless) ==
    {r \in rows :
        /\ srcs = {} \/ r.src \in srcs
        /\ before = 0 \/ (~Timeless(r) /\ Local(r) < before)
        /\ timeless \/ ~Timeless(r)}

\* The event of a row, as _row_to_event gives it to the filter.
String(words) == [kind |-> "string", words |-> words, number |-> {}]
EventOf(r) ==
    [message |-> String(r.content.message),
     level |-> String(r.content.level),
     source |-> String({ToString(r.src)}),
     fields |-> r.content.fields,
     timestamp |-> IF Timeless(r) THEN Null
                   ELSE [kind |-> "moment", is |-> r.hour, zone |-> r.content.zone]]

\* The rows of a fetch that are read with its first k pages.
Place(fetched, r) == Cardinality({x \in fetched : SqlBefore(x, r)})
Paged(fetched, k) == {r \in fetched : Place(fetched, r) < k * PageSize}

\* The first of some rows, in the order of the fetch.
First(R, limit) == {r \in R : Place(R, r) < limit}

Matching(R, filter) == {r \in R : ServerMatches(EventOf(r), filter)}

BadScan(fetched, filter, limit) == First(Matching(Paged(fetched, 1), filter), limit)

\* Page after page, until enough rows match or a page is not full.
Scan(fetched, filter, limit) ==
    LET Matched(k) == Matching(Paged(fetched, k), filter)
        done == {k \in 1..Cardinality(fetched) + 1 :
                    \/ Cardinality(Matched(k)) >= limit
                    \/ k * PageSize > Cardinality(fetched)}
    IN  First(Matched(Min(done)), limit)

\* The final sort, with received_at in place of a missing timestamp: the
\* reception times of the model are later than all of its hours.
Chronological(a, b) ==
    \/ ~Timeless(a) /\ Timeless(b)
    \/ Timeless(a) /\ Timeless(b) /\ a.n < b.n
    \/ /\ ~Timeless(a) /\ ~Timeless(b)
       /\ a.hour < b.hour \/ (a.hour = b.hour /\ a.n < b.n)

\* The rows in the order that before says.
Sorted(R, before(_, _)) ==
    CHOOSE q \in SetToSeqs(R) : \A i, j \in DOMAIN q : i < j => before(q[i], q[j])

Query(srcs, filter, limit, before, timeless) ==
    Sorted(Scan(Selected(srcs, before, timeless), filter, limit), Chronological)

-----------------------------------------------------------------------------
Init ==
    /\ rows = {}
    /\ logical = 0
    /\ maxBytes \in ByteLimits
    /\ shift \in [Sources -> Shifts]
    /\ pending = [s \in Sources |-> <<>>]
    /\ read = 0

Next ==
    \/ \E s \in Sources :
           \/ \E content \in Contents : Read(s, content)
           \/ \E limit \in Limits \cup {0} : Insert(s, limit)
           \/ \E limit \in Limits : TrimSource(s, limit) \/ DeleteLatest(s, limit)
           \/ DeleteSource(s)
           \/ \E hours \in Shifts : ShiftSource(s, hours)
    \/ \E bytes \in ByteLimits : UpdateSettings(bytes)

Spec == Init /\ [][Next]_vars

-----------------------------------------------------------------------------
(* Properties.                                                             *)

(* Every variable stays in its range, and no two rows share an id.         *)
TypeOK ==
    /\ rows \subseteq Row
    /\ \A a, b \in rows : a.n = b.n => a = b
    /\ logical \in Nat
    /\ maxBytes \in ByteLimits
    /\ shift \in [Sources -> Shifts]
    /\ \A s \in Sources : ToSet(pending[s]) \subseteq Row
    /\ read \in 0..MaxEvents

(* The counter that the eviction trusts never drifts from what the table   *)
(* holds, whatever operations were mixed.                                  *)
LogicalBytesAreExact == logical = Bytes(rows)

(* Every buffered event is displayed with the shift its source has now,    *)
(* however often the shift changed and whenever the event was read.        *)
DisplayFollowsShift ==
    \A r \in rows : r.hour = Displayed(r.content, r.src)

Newer(a, b) == IF Timeless(a) = Timeless(b) THEN Chronological(b, a) ELSE Timeless(b)

(* A query returns the newest matching events, oldest first, by the moment *)
(* they are displayed at, events without a timestamp last (ARCHITECTURE,   *)
(* "Query and display"; BUGFIX_SPEC LM-002).                               *)
QueryReturnsNewest ==
    \A srcs \in {{}} \cup {{s} : s \in Sources}, filter \in Asked, limit \in Limits,
       before \in Befores, timeless \in BOOLEAN :
        LET wanted == {r \in rows :
                          /\ ServerMatches(EventOf(r), filter)
                          /\ srcs = {} \/ r.src \in srcs
                          /\ before = 0 \/ (~Timeless(r) /\ r.hour < before)
                          /\ timeless \/ ~Timeless(r)}
            answer == Query(srcs, filter, limit, before, timeless)
        IN
        /\ ToSet(answer) =
               {r \in wanted : Cardinality({x \in wanted : Newer(x, r)}) < limit}
        /\ \A i, j \in DOMAIN answer : i < j => Chronological(answer[i], answer[j])

\* The events there can be, and those that all filters agree on: constants,
\* that TLC computes once.
Events == {EventOf([src |-> s, content |-> c,
                    hour |-> IF c.hour = 0 THEN 0 ELSE c.hour + k]) :
              s \in Sources, c \in Contents, k \in Shifts}
Agreed == {e \in Events : \A g \in Filters, zone \in BrowserZones : Alike(e, g, zone)}

(* A panel shows what the server's evaluation of its filter selects when   *)
(* it is loaded and what the page's own evaluation selects of the events   *)
(* that follow: the two agree on every event, for every tree the server    *)
(* accepts, unless a condition is one the two languages read differently.  *)
FiltersAgree == \A r \in rows : EventOf(r) \in Agreed

(* Refinement: the rows of each source in the order they were read.        *)
Buffer == [s \in Sources |-> Sorted({r.n : r \in Of(s)}, <)]
Pending == [s \in Sources |-> [k \in DOMAIN pending[s] |-> pending[s][k].n]]

Buffers == INSTANCE SourceBuffers
               WITH Events <- 1..MaxEvents, buffer <- Buffer, pending <- Pending

(* Each source sees the store as a sequence in reading order: neither the  *)
(* rolling limit, the byte limit nor a deletion ever removes an event from *)
(* the middle, and an insertion never keeps an event it evicts a newer one *)
(* of (the rules SourceManager takes the store by).                        *)
ImplementsBuffers == Buffers!Spec
=============================================================================
