---------------------------- MODULE MCEventStore ----------------------------
(* Small instances of EventStore for TLC.                                  *)
EXTENDS EventStore
CONSTANTS s1, s2
TwoSources == {s1, s2}

\* Every kind of JSON value, and none under any other path.
AllKinds ==
    [zero |-> [kind |-> "number", is |-> 0],
     two |-> [kind |-> "number", is |-> 2],
     yes |-> [kind |-> "boolean", is |-> TRUE],
     no |-> [kind |-> "boolean", is |-> FALSE],
     null |-> Null,
     text |-> String({"Error"}),
     empty |-> String({}),
     object |-> [kind |-> "object", words |-> {"Error"}]]
Line(h, z, b, level, message) ==
    [hour |-> h, zone |-> z, size |-> b, level |-> level, message |-> message,
     fields |-> AllKinds]
Plain(h, z, b) == Line(h, z, b, {}, {"Error"})
\* An event without a timestamp, two hours, two sizes, matching and not.
UtcContents == {Plain(0, 0, 1), Line(1, 0, 1, {"ERROR"}, {"Error", "Strasse"}),
                Line(2, 0, 2, {"INFO"}, {"error", "eszett"})}
\* The same moment order, one event written in a zone two hours ahead.
ZonedContents == {Plain(1, 2, 1), Plain(2, 0, 1)}

Folding == [Error |-> "error", ERROR |-> "error", INFO |-> "info", True |-> "true"]
Lower == Folding @@ "eszett" :> "eszett"
Fold == Folding @@ "eszett" :> "ss"

Operand(words, number, hour, naive, dialects) ==
    [words |-> words, number |-> number, hour |-> hour, naive |-> naive,
     dialects |-> dialects]
Both == {"python", "browser"}
Operands ==
    {Operand({}, {}, {}, FALSE, Both), Operand({"error"}, {}, {}, FALSE, Both),
     Operand({"ss"}, {}, {}, FALSE, {"python"}), Operand({"2"}, {2}, {}, FALSE, Both),
     Operand({"True"}, {}, {}, FALSE, Both), Operand({"true"}, {}, {}, FALSE, {"browser"}),
     Operand({"T"}, {}, {}, FALSE, Both), Operand({"2h"}, {}, {2}, FALSE, Both),
     Operand({"2h"}, {}, {2}, TRUE, Both)}
Singles ==
    {Condition(f, p, op, v, cs) :
        f \in Fields, p \in DOMAIN AllKinds \cup {"none"}, op \in Operators,
        v \in Operands, cs \in BOOLEAN}
Sensible(c) == c.field # "json" => c.path = "none"

All == Group("AND", FALSE, {}, {})
NoneOf(cs) == Group("OR", TRUE, cs, {})
Has(w) == Condition("message", "none", "contains", Operand({w}, {}, {}, FALSE, Both), FALSE)
Level(w) == Condition("level", "none", "equals", Operand({w}, {}, {}, FALSE, Both), FALSE)
Leaves == {Group(l, n, cs, {}) : l \in {"AND", "OR"}, n \in BOOLEAN,
                                 cs \in SUBSET {Has("error"), Level("info")}}
Trees == {Group(l, n, cs, {g, h}) : l \in {"AND", "OR"}, n \in BOOLEAN,
              cs \in {{}, {Has("strasse")}}, g \in Leaves, h \in Leaves}
ManyFilters == {Group("AND", FALSE, {c}, {}) : c \in {x \in Singles : Sensible(x)}}
                   \cup Leaves \cup Trees
FewFilters == {All, NoneOf({Level("info")})}
NoFilter == {All}

AllBefores == 0..3
NoBefore == {0}
TwoZones == {0, 1}
TwoShifts == {0, 1}
NoShift == {0}
TwoLimits == {1, 2}
TwoByteLimits == {2, 4}
=============================================================================
