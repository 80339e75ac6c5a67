------------------------------- MODULE Ports -------------------------------
(***************************************************************************)
(* The ports of a resource from the configuration to the screen:           *)
(* ResourceManager._parse_ports at the start of the server, and            *)
(* _format_ports of cli/rm_cli.py, which the list command prints them with. *)
(*                                                                         *)
(* A value of the configuration is None, one bare item or a list of items; *)
(* an item is a number, a range, the word ANY, or text int() rejects.      *)
(***************************************************************************)
EXTENDS Integers, Sequences, FiniteSets

CONSTANT Raw         \* the values "ports" may have in resources.yaml

Item == [kind : {"number", "range", "any", "junk"}, first : Nat, last : Nat]

Missing == [form |-> "none", items |-> <<>>]

ASSUME RawAssumption ==
    \A v \in Raw : \/ v = Missing
                   \/ v.form = "bare" /\ v.items \in Seq(Item) /\ Len(v.items) = 1
                   \/ v.form = "list" /\ v.items \in Seq(Item)

VARIABLES
    raw,            \* the value
    pc,             \* where the parser, and then the formatter, stands
    i,              \* the position of its loop
    ports, any,     \* what is parsed; ports is sorted before it is formatted
    start, end,     \* the range the formatter is in
    segments        \* the ranges it has closed

vars == <<raw, pc, i, ports, any, start, end, segments>>

Init ==
    /\ raw \in Raw
    /\ pc = "parse" /\ i = 1
    /\ ports = <<>> /\ any = FALSE
    /\ start = 0 /\ end = 0 /\ segments = <<>>

\* Slip: range() without the + 1.
PortsOfHalfOpen(item) ==
    IF item.kind = "number" THEN <<item.first>>
    ELSE IF item.kind = "range" /\ item.first < item.last
    THEN [k \in 1..(item.last - item.first) |-> item.first + k - 1]
    ELSE <<>>

\* list(range(first, last + 1)) is empty if the bounds are swapped.
PortsOf(item) ==
    IF item.kind = "number" THEN <<item.first>>
    ELSE IF item.kind = "range" /\ item.first <= item.last
    THEN [k \in 1..(item.last - item.first + 1) |-> item.first + k - 1]
    ELSE <<>>

\* A ValueError, which keeps the server from starting: text int() rejects, and a
\* bare number in quotes.
Rejected(item) == item.kind \in (IF raw.form = "bare" THEN {"junk", "number"} ELSE {"junk"})

ParseItem ==
    /\ pc = "parse" /\ i <= Len(raw.items) /\ ~Rejected(raw.items[i])
    /\ ports' = ports \o PortsOf(raw.items[i])
    /\ any' = (any \/ raw.items[i].kind = "any")
    /\ i' = i + 1
    /\ UNCHANGED <<raw, pc, start, end, segments>>

Raise ==
    /\ pc = "parse" /\ i <= Len(raw.items) /\ Rejected(raw.items[i])
    /\ pc' = "raised"
    /\ UNCHANGED <<raw, i, ports, any, start, end, segments>>

Elements(s) == {s[k] : k \in DOMAIN s}

Ascending(s) == \A j, k \in DOMAIN s : j < k => s[j] <= s[k]

Count(s, n) == Cardinality({k \in DOMAIN s : s[k] = n})

\* sorted(s): the same elements, each as often, in ascending order.
SortedOf(s) == {t \in [DOMAIN s -> Elements(s)] :
                   Ascending(t) /\ \A n \in Elements(s) : Count(t, n) = Count(s, n)}

\* The word ANY takes the place of the ports; no port prints as nothing.
Show ==
    /\ pc = "parse" /\ i > Len(raw.items)
    /\ any \/ ports = <<>>
    /\ pc' = "done"
    /\ UNCHANGED <<raw, i, ports, any, start, end, segments>>

\* The first of the sorted ports opens a range.
Sort ==
    /\ pc = "parse" /\ i > Len(raw.items)
    /\ ~any /\ ports # <<>>
    /\ ports' \in SortedOf(ports)
    /\ start' = ports'[1] /\ end' = ports'[1]
    /\ i' = 2
    /\ pc' = "format"
    /\ UNCHANGED <<raw, any, segments>>

\* Slip: a port never goes on where the last one ended.
FormatSingly ==
    /\ pc = "format" /\ i <= Len(ports)
    /\ segments' = Append(segments, [first |-> start, last |-> end])
    /\ start' = ports[i] /\ end' = ports[i]
    /\ i' = i + 1
    /\ UNCHANGED <<raw, pc, ports, any>>

Format ==
    /\ pc = "format" /\ i <= Len(ports)
    /\ end' = ports[i]
    /\ IF ports[i] = end + 1 THEN UNCHANGED <<start, segments>>
       ELSE /\ segments' = Append(segments, [first |-> start, last |-> end])
            /\ start' = ports[i]
    /\ i' = i + 1
    /\ UNCHANGED <<raw, pc, ports, any>>

\* The range that is open when the loop ends.
Close ==
    /\ pc = "format" /\ i > Len(ports)
    /\ segments' = Append(segments, [first |-> start, last |-> end])
    /\ pc' = "done"
    /\ UNCHANGED <<raw, i, ports, any, start, end>>

Next == ParseItem \/ Raise \/ Show \/ Sort \/ Format \/ Close

Spec == Init /\ [][Next]_vars

-----------------------------------------------------------------------------
(* Properties.                                                             *)

Denoted(item) == IF item.kind = "number" THEN {item.first}
                 ELSE IF item.kind = "range" THEN item.first .. item.last
                 ELSE {}

\* What the configuration says, without a parser.
Configured == UNION {Denoted(raw.items[k]) : k \in DOMAIN raw.items}

Shown == UNION {segments[k].first .. segments[k].last : k \in DOMAIN segments}

\* The ranges printed denote the ports of the configuration, each and no other,
\* unless ANY is printed: none falls out of the parser's loop, the sort or either
\* end of the formatter's.  (rm_cli.py: "Compress a sorted integer list into
\* compact range notation.")
DisplayExact == pc = "done" /\ ~any => Shown = Configured

Distinct(s) == \A j, k \in DOMAIN s : s[j] = s[k] => j = k

\* If no port is listed twice, the ranges are in order and as few as can be: a gap
\* lies between any two.
DisplayCompact ==
    pc = "done" /\ Distinct(ports) =>
        \A j, k \in DOMAIN segments : j < k => segments[j].last + 1 < segments[k].first
=============================================================================
