------------------------------ MODULE Filters ------------------------------
(***************************************************************************)
(* The evaluation of a filter tree, twice: by the server for a query       *)
(* (matches_filter, filters.py) and by the page for every event that comes *)
(* over the socket (clientMatches, app.js).                                *)
(*                                                                         *)
(* A text is the set of its words: one contains another when it has all of *)
(* its words, and a pattern is found in a text that has all of its words.  *)
(* A value is a record with a kind:                                        *)
(*   missing, null                                                         *)
(*   boolean, number   is                                                  *)
(*   string            words, number (what it reads as, or nothing)        *)
(*   object            words, those of its contents                        *)
(*   moment            is (an hour), zone it is written in                 *)
(* An operand is the string the page's forms send: its words, the number   *)
(* or the local hour it reads as (sets of at most one element), whether    *)
(* the hour names no zone, and the dialects it is a pattern of.            *)
(*                                                                         *)
(* Left out: arrays inside JSON fields, empty steps of a path, numerals    *)
(* other than decimal integers.                                            *)
(***************************************************************************)
EXTENDS Integers, FiniteSets, TLC

CONSTANTS
    CaseFold,       \* words that str.casefold changes, and into what
    ToLowerCase,    \* the same of String.toLowerCase, re.IGNORECASE and /i
    MaxDepth        \* bound: groups inside groups of a filter

Fields == {"message", "level", "source", "json", "timestamp"}
Orders == {"gte", "lte"}
Patterns == {"regex", "not_regex"}
Negative == {"not_contains", "not_equals", "not_regex"}
Operators == Orders \cup Patterns \cup Negative \cup {"contains", "equals"}

Condition(f, p, op, v, cs) ==
    [field |-> f, path |-> p, operator |-> op, value |-> v, caseSensitive |-> cs]
Group(logic, negate, conditions, groups) ==
    [logic |-> logic, negate |-> negate, conditions |-> conditions, groups |-> groups]

ASSUME DepthAssumption == MaxDepth \in Nat

\* A group with the groups inside it, on which the evaluations recur.
Tree(g) ==
    LET upto[d \in 0..MaxDepth] ==
            IF d = 0 THEN {g}
            ELSE upto[d - 1] \cup UNION {h.groups : h \in upto[d - 1]}
    IN  upto[MaxDepth]

Missing == [kind |-> "missing"]
Null == [kind |-> "null"]

Reading(w, fold) == IF w \in DOMAIN fold THEN fold[w] ELSE w
Folded(words, fold) == {Reading(w, fold) : w \in words}

\* The two texts of true differ in case alone.
ASSUME TrueAssumption == Reading("True", ToLowerCase) = Reading("true", ToLowerCase)

JsonKinds == {"null", "boolean", "number", "string", "object"}

\* _json_value, and nested in app.js.
JsonValue(fields, path) == IF path \in DOMAIN fields THEN fields[path] ELSE Missing

\* _condition_value; an event without a level has the empty one.
Actual(e, c) ==
    CASE c.field = "message" -> e.message
      [] c.field = "level" -> e.level
      [] c.field = "source" -> e.source
      [] c.field = "json" -> JsonValue(e.fields, c.path)
      [] c.field = "timestamp" -> e.timestamp

Found(op, left, right) ==
    IF op \in {"equals", "not_equals"} THEN left = right ELSE right \subseteq left
Compared(op, left, right) == IF op = "gte" THEN left >= right ELSE left <= right

-----------------------------------------------------------------------------
(* The server.                                                             *)

\* str(actual or ""): a false value is the empty text.
ServerText(v) ==
    CASE v.kind \in {"missing", "null"} -> {}
      [] v.kind = "boolean" -> IF v.is THEN {"True"} ELSE {}
      [] v.kind = "number" -> IF v.is = 0 THEN {} ELSE {ToString(v.is)}
      [] v.kind = "moment" -> {ToString(v.is + v.zone), "space"}
      [] OTHER -> v.words

\* float(actual), nothing where it raises.
ServerNumber(v) ==
    CASE v.kind = "number" -> {v.is}
      [] v.kind = "boolean" -> {IF v.is THEN 1 ELSE 0}
      [] v.kind = "string" -> v.number
      [] OTHER -> {}

\* validate_filter: what raises becomes a 422 before any row is read.
Valid(g) ==
    \A h \in Tree(g) : \A c \in h.conditions :
        /\ c.operator \in Patterns => "python" \in c.value.dialects
        /\ c.field = "timestamp" /\ c.operator \in Orders => c.value.hour # {}

\* A naive operand takes the zone of the event.
ServerOrder(c, v) ==
    IF v.kind = "moment"
    THEN \E h \in c.value.hour :
             Compared(c.operator, IF c.value.naive THEN v.is + v.zone ELSE v.is, h)
    ELSE \E x \in ServerNumber(v), y \in c.value.number : Compared(c.operator, x, y)

\* _text_pair folds, a pattern is searched with IGNORECASE.
ServerFold(c) ==
    IF c.caseSensitive THEN <<>> ELSE IF c.operator \in Patterns THEN ToLowerCase ELSE CaseFold

ServerHolds(e, c) ==
    LET v == Actual(e, c)
        found == Found(c.operator, Folded(ServerText(v), ServerFold(c)),
                                   Folded(c.value.words, ServerFold(c)))
    IN  IF c.operator \in Orders THEN ServerOrder(c, v)
        ELSE found = (c.operator \notin Negative)

ServerCombined(g, values) ==
    LET result == IF g.logic = "AND" \/ values = {} THEN FALSE \notin values ELSE TRUE \in values
    IN  result # g.negate

\* matches_filter
ServerMatches(e, g) ==
    LET matches[h \in Tree(g)] ==
            ServerCombined(h, {ServerHolds(e, c) : c \in h.conditions}
                                  \cup {matches[k] : k \in h.groups})
    IN  matches[g]

-----------------------------------------------------------------------------
(* The page.                                                               *)

\* String(actual ?? ""), of the event as JSON: a timestamp is its ISO text.
ClientText(v) ==
    CASE v.kind \in {"missing", "null"} -> {}
      [] v.kind = "boolean" -> IF v.is THEN {"true"} ELSE {"false"}
      [] v.kind = "number" -> {ToString(v.is)}
      [] v.kind = "moment" -> {ToString(v.is + v.zone), "T"}
      [] v.kind = "object" -> {"[object Object]"}
      [] v.kind = "string" -> v.words

\* Number(actual), nothing for NaN.
ClientNumber(v) ==
    CASE v.kind = "number" -> {v.is}
      [] v.kind = "boolean" -> {IF v.is THEN 1 ELSE 0}
      [] v.kind = "null" -> {0}
      [] v.kind = "string" -> IF v.words = {} THEN {0} ELSE v.number
      [] OTHER -> {}

\* new Date(...).getTime(): null is the beginning of time, an operand that
\* names no zone is in the zone of the browser.
ClientOrder(c, v, zone) ==
    IF c.field = "timestamp"
    THEN LET local == IF c.value.naive THEN zone ELSE 0
             at == IF v.kind = "moment" THEN v.is + local ELSE 0
         IN  \E h \in c.value.hour : Compared(c.operator, at, h)
    ELSE \E x \in ClientNumber(v),
            y \in IF c.value.words = {} THEN {0} ELSE c.value.number :
                Compared(c.operator, x, y)

ClientFold(c) == IF c.caseSensitive THEN <<>> ELSE ToLowerCase

\* A pattern the browser cannot compile is false, negated or not.
ClientHolds(e, c, zone) ==
    LET v == Actual(e, c)
        found == Found(c.operator, Folded(ClientText(v), ClientFold(c)),
                                   Folded(c.value.words, ClientFold(c)))
    IN  IF c.operator \in Orders THEN ClientOrder(c, v, zone)
        ELSE /\ c.operator \in Patterns => "browser" \in c.value.dialects
             /\ found = (c.operator \notin Negative)

BadClientCombined(g, values) ==
    (IF g.logic = "OR" THEN TRUE \in values ELSE FALSE \notin values) # g.negate
ClientCombined(g, values) ==
    LET result == IF values = {} THEN TRUE
                  ELSE IF g.logic = "OR" THEN TRUE \in values ELSE FALSE \notin values
    IN  result # g.negate

\* clientMatches
ClientMatches(e, g, zone) ==
    LET matches[h \in Tree(g)] ==
            ClientCombined(h, {ClientHolds(e, c, zone) : c \in h.conditions}
                                  \cup {matches[k] : k \in h.groups})
    IN  matches[g]

-----------------------------------------------------------------------------
(* Where the two languages read a condition differently.                   *)

Empty(v) == v.kind = "string" /\ v.words = {}

Ambiguous(e, c, zone) ==
    LET v == Actual(e, c) IN
    IF c.operator \in Orders
    THEN IF c.field = "timestamp"
         THEN \/ v.kind = "null"                      \* new Date(null) is a date
              \/ c.value.naive /\ v.zone # zone       \* two zones are assumed
         ELSE \/ v.kind = "null" \/ Empty(v)          \* Number of these is 0
              \/ c.value.words = {}
    ELSE \/ v.kind = "object"                         \* repr, [object Object]
         \/ v.kind = "boolean" /\ ~v.is               \* str(v or "") is empty
         \/ v.kind = "number" /\ v.is = 0
         \/ v.kind = "boolean" /\ c.caseSensitive     \* True, true
         \/ v.kind = "moment"                         \* a space, a T
         \/ c.operator \in Patterns /\ "browser" \notin c.value.dialects
         \/ ServerFold(c) # ClientFold(c)
            /\ \E w \in ServerText(v) \cup c.value.words :
                   Reading(w, CaseFold) # Reading(w, ToLowerCase)

\* No condition of the tree is ambiguous.
Clear(e, g, zone) ==
    \A h \in Tree(g) : \A c \in h.conditions : ~Ambiguous(e, c, zone)

Alike(e, g, zone) ==
    Valid(g) /\ Clear(e, g, zone) => (ServerMatches(e, g) = ClientMatches(e, g, zone))
=============================================================================
