---------------------------- MODULE PortsProofs ----------------------------
(***************************************************************************)
(* Proofs about Ports for configurations with any items and port numbers:  *)
(* the loop invariants of the parser and the formatter.                    *)
(***************************************************************************)
EXTENDS Ports, FiniteSetTheorems, TLAPS

USE RawAssumption

Union(segs) == UNION {segs[k].first .. segs[k].last : k \in DOMAIN segs}

Segment == [first : Nat, last : Nat]

-----------------------------------------------------------------------------
(***************************************************************************)
(* Sequences and the sets they stand for.                                  *)
(***************************************************************************)
\* An item is parsed to the ports it denotes.
LEMMA ItemParsed ==
    ASSUME NEW item \in Item
    PROVE  PortsOf(item) \in Seq(Nat) /\ Elements(PortsOf(item)) = Denoted(item)
<1>1. CASE item.kind = "range" /\ item.first <= item.last
  <2> DEFINE n == item.last - item.first + 1
             s == [k \in 1..n |-> item.first + k - 1]
  <2>1. n \in Nat /\ PortsOf(item) = s
    BY <1>1 DEF PortsOf, Item
  <2>2. s \in Seq(Nat)
    BY <2>1 DEF Item
  <2>3. \A m \in Denoted(item) : m - item.first + 1 \in 1..n /\ s[m - item.first + 1] = m
    BY <1>1 DEF Item, Denoted
  <2>4. \A k \in 1..n : s[k] \in Denoted(item)
    BY <1>1 DEF Item, Denoted
  <2> QED
    BY <2>1, <2>2, <2>3, <2>4 DEF Elements
<1>2. CASE item.kind = "number"
  BY <1>2 DEF PortsOf, Denoted, Elements, Item
<1>3. CASE item.kind \in {"any", "junk"} \/ ~(item.first <= item.last)
  BY <1>2, <1>3 DEF PortsOf, Denoted, Elements, Item
<1> QED
  BY <1>1, <1>2, <1>3 DEF Item

\* Concatenation unites.
LEMMA ElementsConcat ==
    ASSUME NEW s \in Seq(Nat), NEW t \in Seq(Nat)
    PROVE  Elements(s \o t) = Elements(s) \cup Elements(t)
<1>1. \A k \in DOMAIN s : k \in DOMAIN (s \o t) /\ (s \o t)[k] = s[k]
  OBVIOUS
<1>2. \A k \in DOMAIN t : Len(s) + k \in DOMAIN (s \o t) /\ (s \o t)[Len(s) + k] = t[k]
  OBVIOUS
<1>3. ASSUME NEW k \in DOMAIN (s \o t)
      PROVE  \/ k \in DOMAIN s /\ (s \o t)[k] = s[k]
             \/ k - Len(s) \in DOMAIN t /\ (s \o t)[k] = t[k - Len(s)]
  <2>1. k \in 1..(Len(s) + Len(t))
    OBVIOUS
  <2>2. CASE k <= Len(s)
    BY <2>1, <2>2
  <2>3. CASE k > Len(s)
    BY <2>1, <2>3
  <2> QED
    BY <2>1, <2>2, <2>3
<1>4. Elements(s) \cup Elements(t) \subseteq Elements(s \o t)
  BY <1>1, <1>2 DEF Elements
<1>5. Elements(s \o t) \subseteq Elements(s) \cup Elements(t)
  BY <1>3 DEF Elements
<1> QED
  BY <1>4, <1>5

\* Sorting changes no element and not the length.
LEMMA ElementsSorted ==
    ASSUME NEW s \in Seq(Nat), NEW t \in SortedOf(s)
    PROVE  t \in Seq(Nat) /\ Len(t) = Len(s) /\ Elements(t) = Elements(s) /\ Ascending(t)
<1>1. /\ t \in [1..Len(s) -> Elements(s)] /\ Elements(s) \subseteq Nat
      /\ \A n \in Elements(s) : Count(t, n) = Count(s, n)
  <2>1. DOMAIN s = 1..Len(s) /\ Elements(s) \subseteq Nat
    BY DEF Elements
  <2> QED
    BY <2>1 DEF SortedOf
<1>2. t \in Seq(Nat) /\ Len(t) = Len(s) /\ Elements(t) \subseteq Elements(s)
  BY <1>1 DEF Elements
<1>3. ASSUME NEW n \in Elements(s) PROVE n \in Elements(t)
  <2> DEFINE S == {k \in DOMAIN s : s[k] = n}
             T == {k \in DOMAIN t : t[k] = n}
  <2>1. IsFiniteSet(S) /\ IsFiniteSet(T)
    <3>1. IsFiniteSet(1..Len(s)) /\ IsFiniteSet(1..Len(t))
      BY <1>2, FS_Interval
    <3> QED
      BY <1>2, <3>1, FS_Subset
  <2>2. S # {}
    BY <1>3 DEF Elements
  <2>3. Cardinality(S) # 0 /\ Cardinality(T) = Cardinality(S)
    BY <1>1, <2>1, <2>2, FS_EmptySet DEF Count
  <2>4. T # {}
    BY <2>3, FS_EmptySet
  <2> QED
    BY <2>4 DEF Elements
<1> QED
  BY <1>2, <1>3 DEF SortedOf

\* A range that is closed joins what is shown.
LEMMA UnionAppend ==
    ASSUME NEW segs \in Seq(Segment), NEW seg \in Segment
    PROVE  Union(Append(segs, seg)) = Union(segs) \cup (seg.first .. seg.last)
<1>1. /\ \A k \in DOMAIN segs : /\ k \in DOMAIN Append(segs, seg)
                                /\ Append(segs, seg)[k] = segs[k]
      /\ Len(segs) + 1 \in DOMAIN Append(segs, seg)
      /\ Append(segs, seg)[Len(segs) + 1] = seg
      /\ \A k \in DOMAIN Append(segs, seg) : k \in DOMAIN segs \/ k = Len(segs) + 1
  OBVIOUS
<1> QED
  BY <1>1 DEF Union

-----------------------------------------------------------------------------
(***************************************************************************)
(* The invariant of both loops.                                            *)
(***************************************************************************)
\* What the parser has read so far.
Read == UNION {Denoted(raw.items[k]) : k \in 1..(i - 1)}

\* What the formatter has before it.
Ahead == {ports[k] : k \in i..Len(ports)}

TypeInv ==
    /\ raw \in Raw
    /\ pc \in {"parse", "raised", "format", "done"}
    /\ i \in Nat \ {0}
    /\ ports \in Seq(Nat)
    /\ start \in Nat /\ end \in Nat
    /\ segments \in Seq(Segment)

ParserInv ==
    pc = "parse" =>
        /\ i <= Len(raw.items) + 1
        /\ Elements(ports) = Read
        /\ segments = <<>>

\* The ranges closed, the one that is open and the ports ahead are those of the
\* configuration; the open one ends with the port before the loop's position.
FormatterInv ==
    pc = "format" =>
        /\ 2 <= i /\ i <= Len(ports) + 1
        /\ Ascending(ports)
        /\ start <= end /\ end = ports[i - 1]
        /\ Union(segments) \cup (start .. end) \cup Ahead = Configured

Gaps(segs) == \A j, k \in DOMAIN segs : j < k => segs[j].last + 1 < segs[k].first

\* Without duplicates every range that is closed ends before the open one starts.
GapInv ==
    Distinct(ports) /\ pc \in {"format", "done"} =>
        /\ Gaps(segments)
        /\ pc = "format" => \A k \in DOMAIN segments : segments[k].last + 1 < start

IInv == TypeInv /\ ParserInv /\ FormatterInv /\ GapInv /\ DisplayExact

\* The items of a value are items.
LEMMA RawItems == \A v \in Raw : v.items \in Seq(Item)
<1> SUFFICES ASSUME NEW v \in Raw PROVE v.items \in Seq(Item)
  OBVIOUS
<1>1. CASE v = Missing
  BY <1>1 DEF Missing
<1>2. CASE v # Missing
  BY <1>2
<1> QED
  BY <1>1, <1>2

\* Shown and Union are the same.
LEMMA ShownUnion == Shown = Union(segments)
BY DEF Shown, Union

\* Before the first item nothing is parsed.
LEMMA InvInit == Init => IInv
<1> SUFFICES ASSUME Init PROVE IInv
  OBVIOUS
<1>1. TypeInv
  BY DEF Init, TypeInv
<1>2. ParserInv
  BY RawItems DEF Init, ParserInv, Elements, Read
<1> QED
  BY <1>1, <1>2 DEF Init, IInv, FormatterInv, GapInv, DisplayExact

\* An item adds the ports it denotes.
LEMMA InvParse == IInv /\ ParseItem => IInv'
<1> SUFFICES ASSUME IInv, ParseItem PROVE IInv'
  OBVIOUS
<1> DEFINE item == raw.items[i]
<1>1. /\ raw.items \in Seq(Item) /\ item \in Item
      /\ i \in DOMAIN raw.items /\ i \in Nat \ {0}
  BY RawItems DEF IInv, TypeInv, ParseItem
<1>2. /\ ports' \in Seq(Nat)
      /\ Elements(ports') = Elements(ports) \cup Denoted(item)
  BY <1>1, ItemParsed, ElementsConcat DEF IInv, TypeInv, ParseItem
<1>3. TypeInv'
  BY <1>1, <1>2 DEF IInv, TypeInv, ParseItem
<1>4. ParserInv'
  <2>1. Read' = Read \cup Denoted(item)
    <3>1. raw' = raw /\ 1..(i' - 1) = 1..(i - 1) \cup {i}
      BY <1>1 DEF ParseItem
    <3> QED
      BY <3>1 DEF Read
  <2>2. (Elements(ports))' = Elements(ports) \cup Denoted(item)
    BY <1>2 DEF Elements
  <2> QED
    BY <1>1, <2>1, <2>2 DEF IInv, ParserInv, ParseItem
<1> QED
  BY <1>3, <1>4 DEF IInv, FormatterInv, GapInv, DisplayExact, ParseItem

\* Where the list ends, what is parsed is what is configured.
LEMMA ParsedAll ==
    ASSUME IInv, pc = "parse", i > Len(raw.items) PROVE Elements(ports) = Configured
<1>1. raw.items \in Seq(Item) /\ 1..(i - 1) = DOMAIN raw.items
  BY RawItems DEF IInv, TypeInv, ParserInv
<1> QED
  BY <1>1 DEF IInv, ParserInv, Read, Configured

\* Nothing is shown of nothing.
LEMMA InvShow == IInv /\ Show => IInv'
<1> SUFFICES ASSUME IInv, Show PROVE IInv'
  OBVIOUS
<1>1. TypeInv' /\ ParserInv' /\ FormatterInv'
  BY DEF IInv, TypeInv, ParserInv, FormatterInv, Show
<1>2. segments' = <<>>
  BY DEF IInv, ParserInv, Show
<1>3. DisplayExact'
  <2>1. ASSUME ~any PROVE Configured = {}
    BY <2>1, ParsedAll DEF Show, Elements
  <2>2. Shown' = {} /\ Configured' = Configured /\ any' = any
    BY <1>2 DEF Shown, Configured, Show
  <2> QED
    BY <2>1, <2>2 DEF DisplayExact
<1>4. GapInv'
  BY <1>2 DEF GapInv, Gaps, Show
<1> QED
  BY <1>1, <1>3, <1>4 DEF IInv

\* The formatter starts with the smallest port and the others ahead.
LEMMA InvSort == IInv /\ Sort => IInv'
<1> SUFFICES ASSUME IInv, Sort PROVE IInv'
  OBVIOUS
<1>1. /\ ports' \in Seq(Nat) /\ Len(ports') = Len(ports) /\ Len(ports) # 0
      /\ Elements(ports') = Elements(ports) /\ Ascending(ports')
  BY ElementsSorted DEF IInv, TypeInv, Sort
<1>2. ports'[1] \in Nat /\ start' = ports'[1] /\ end' = ports'[1] /\ i' = 2
      /\ pc' = "format" /\ raw' = raw /\ segments' = <<>>
  BY <1>1 DEF IInv, ParserInv, Sort
<1>3. TypeInv' /\ ParserInv' /\ GapInv' /\ DisplayExact'
  BY <1>1, <1>2 DEF IInv, TypeInv, ParserInv, GapInv, Gaps, DisplayExact
<1>4. FormatterInv'
  <2>1. (Union(segments) \cup (start .. end) \cup Ahead)' = Elements(ports')
    <3>1. (Union(segments))' = {} /\ (start .. end)' = {ports'[1]}
      BY <1>2 DEF Union
    <3>2. Ahead' = {ports'[k] : k \in 2..Len(ports')}
      BY <1>2 DEF Ahead
    <3>3. DOMAIN ports' = {1} \cup 2..Len(ports')
      <4>1. DOMAIN ports' = 1..Len(ports') /\ Len(ports') \in Nat \ {0}
        BY <1>1
      <4> QED
        BY <4>1
    <3> QED
      BY <3>1, <3>2, <3>3 DEF Elements
  <2>2. Elements(ports') = Configured'
    BY <1>1, <1>2, ParsedAll DEF Sort, Configured
  <2>3. (Ascending(ports))'
    BY <1>1 DEF Ascending
  <2> QED
    BY <1>1, <1>2, <2>1, <2>2, <2>3 DEF FormatterInv
<1> QED
  BY <1>3, <1>4 DEF IInv

\* The open range goes on with the next port, or is closed before a new one.
LEMMA InvFormat == IInv /\ Format => IInv'
<1> SUFFICES ASSUME IInv, Format PROVE IInv'
  OBVIOUS
<1> DEFINE p == ports[i]
           seg == [first |-> start, last |-> end]
<1>1. /\ i \in DOMAIN ports /\ p \in Nat /\ i - 1 \in DOMAIN ports
      /\ start \in Nat /\ end \in Nat /\ start <= end /\ seg \in Segment
      /\ end' = p /\ i' = i + 1 /\ pc = "format" /\ pc' = "format" /\ ports' = ports /\ raw' = raw
      /\ segments \in Seq(Segment)
  BY DEF IInv, TypeInv, FormatterInv, Format, Segment
<1>2. end <= p /\ (Distinct(ports) => end < p)
  BY <1>1 DEF IInv, TypeInv, FormatterInv, Ascending, Distinct
<1>3. Ahead = {p} \cup Ahead'
  <2>1. i..Len(ports) = {i} \cup i'..Len(ports)
    BY <1>1 DEF IInv, TypeInv
  <2> QED
    BY <1>1, <2>1 DEF Ahead
<1>4. CASE p = end + 1
  <2>1. start' = start /\ segments' = segments /\ (start..end)' = (start..end) \cup {p}
    BY <1>1, <1>4 DEF Format
  <2>2. TypeInv'
    BY <1>1, <2>1 DEF IInv, TypeInv
  <2>3. FormatterInv'
    <3>1. (Union(segments))' = Union(segments) /\ Configured' = Configured
      BY <1>1, <2>1 DEF Union, Configured
    <3>2. (Ascending(ports))'
      BY <1>1 DEF IInv, FormatterInv, Ascending
    <3> QED
      BY <1>1, <1>2, <1>3, <2>1, <3>1, <3>2 DEF IInv, TypeInv, FormatterInv
  <2>4. GapInv'
    BY <1>1, <2>1 DEF IInv, GapInv, Gaps, Distinct
  <2> QED
    BY <1>1, <2>2, <2>3, <2>4 DEF IInv, ParserInv, DisplayExact
<1>5. CASE p # end + 1
  <2>1. start' = p /\ segments' = Append(segments, seg) /\ (start..end)' = {p}
    BY <1>1, <1>5 DEF Format
  <2>2. TypeInv'
    BY <1>1, <2>1 DEF IInv, TypeInv
  <2>3. FormatterInv'
    <3>1. (Union(segments))' = Union(segments) \cup (start..end) /\ Configured' = Configured
      <4>1. Union(segments') = Union(segments) \cup (start..end)
        BY <1>1, <2>1, UnionAppend
      <4> QED
        BY <1>1, <4>1 DEF Union, Configured
    <3>2. (Ascending(ports))'
      BY <1>1 DEF IInv, FormatterInv, Ascending
    <3> QED
      BY <1>1, <1>2, <1>3, <2>1, <3>1, <3>2 DEF IInv, TypeInv, FormatterInv
  <2>4. GapInv'
    <3> SUFFICES ASSUME Distinct(ports)
                 PROVE  (Gaps(segments))' /\ \A k \in DOMAIN segments' : segments'[k].last + 1 < p
      BY <1>1, <2>1 DEF GapInv, Distinct
    <3>1. end + 1 < p
      BY <1>1, <1>2, <1>5
    <3>2. \A k \in DOMAIN segments' :
             \/ k \in DOMAIN segments /\ segments'[k] = segments[k]
             \/ k = Len(segments) + 1 /\ segments'[k] = seg
      BY <1>1, <2>1
    <3>3. \A k \in DOMAIN segments : /\ segments[k].last + 1 < start
                                     /\ segments[k].last \in Nat /\ k < Len(segments) + 1
      <4>1. \A k \in DOMAIN segments : segments[k].last \in Nat /\ k < Len(segments) + 1
        <5>1. \A k \in DOMAIN segments : segments[k] \in Segment /\ k < Len(segments) + 1
          BY <1>1
        <5> QED
          BY <5>1 DEF Segment
      <4>2. \A k \in DOMAIN segments : segments[k].last + 1 < start
        BY <1>1 DEF IInv, GapInv
      <4> QED
        BY <4>1, <4>2
    <3>4. \A j, k \in DOMAIN segments' : j < k => segments'[j].last + 1 < segments'[k].first
      BY <1>1, <3>2, <3>3 DEF IInv, GapInv, Gaps
    <3>5. \A k \in DOMAIN segments' : segments'[k].last + 1 < p
      BY <1>1, <3>1, <3>2, <3>3
    <3> QED
      BY <3>4, <3>5 DEF Gaps
  <2> QED
    BY <1>1, <2>2, <2>3, <2>4 DEF IInv, ParserInv, DisplayExact
<1> QED
  BY <1>4, <1>5

\* With the last range closed nothing is ahead.
LEMMA InvClose == IInv /\ Close => IInv'
<1> SUFFICES ASSUME IInv, Close PROVE IInv'
  OBVIOUS
<1> DEFINE seg == [first |-> start, last |-> end]
<1>1. /\ segments' = Append(segments, seg) /\ seg \in Segment /\ segments \in Seq(Segment)
      /\ pc = "format" /\ pc' = "done" /\ ports' = ports /\ raw' = raw
  BY DEF IInv, TypeInv, Close, Segment
<1>2. TypeInv'
  BY <1>1 DEF IInv, TypeInv, Close
<1>3. DisplayExact'
  <2>1. Ahead = {}
    BY DEF IInv, TypeInv, Close, Ahead
  <2>2. Union(segments') = Union(segments) \cup (start..end)
    BY <1>1, UnionAppend
  <2>3. Shown' = Union(segments') /\ Configured' = Configured
    BY <1>1 DEF Shown, Union, Configured
  <2> QED
    BY <1>1, <2>1, <2>2, <2>3 DEF IInv, FormatterInv, DisplayExact
<1>4. GapInv'
  <2>1. \A k \in DOMAIN segments' :
           \/ k \in DOMAIN segments /\ segments'[k] = segments[k]
           \/ k = Len(segments) + 1 /\ segments'[k] = seg
    BY <1>1
  <2>2. Distinct(ports) =>
           \A k \in DOMAIN segments : segments[k].last + 1 < start /\ k < Len(segments) + 1
    BY <1>1 DEF IInv, GapInv, Segment
  <2> QED
    BY <1>1, <2>1, <2>2 DEF IInv, GapInv, Gaps, Distinct
<1> QED
  BY <1>1, <1>2, <1>3, <1>4 DEF IInv, ParserInv, FormatterInv

\* Every step keeps the invariant.
LEMMA InvStep == IInv /\ [Next]_vars => IInv'
<1> SUFFICES ASSUME IInv, [Next]_vars PROVE IInv'
  OBVIOUS
<1>1. CASE Raise
  BY <1>1 DEF Raise, IInv, TypeInv, ParserInv, FormatterInv, GapInv, DisplayExact
<1>2. CASE UNCHANGED vars
  <2>1. TypeInv' /\ ParserInv'
    BY <1>2 DEF vars, IInv, TypeInv, ParserInv, Elements, Read
  <2>2. FormatterInv'
    BY <1>2 DEF vars, IInv, FormatterInv, Ascending, Union, Ahead, Configured
  <2>3. GapInv' /\ DisplayExact'
    BY <1>2 DEF vars, IInv, GapInv, DisplayExact, Configured, Shown, Distinct, Gaps
  <2> QED
    BY <2>1, <2>2, <2>3 DEF IInv
<1> QED
  BY <1>1, <1>2, InvParse, InvShow, InvSort, InvFormat, InvClose DEF Next

\* The ranges printed are the ports configured, for any configuration.
THEOREM Exact == Spec => []DisplayExact
<1>1. IInv => DisplayExact
  BY DEF IInv
<1> QED
  BY <1>1, InvInit, InvStep, PTL DEF Spec

\* Without duplicates no two of them could be one.
THEOREM Compact == Spec => []DisplayCompact
<1>1. IInv => DisplayCompact
  BY DEF IInv, GapInv, Gaps, DisplayCompact
<1> QED
  BY <1>1, InvInit, InvStep, PTL DEF Spec
=============================================================================
