--------------------------- MODULE TelemetryProofs ---------------------------
(***************************************************************************)
(* The charts are in order and keep what they should, and a node that is   *)
(* shown as online was heard, for every bound and every clock of the node. *)
(***************************************************************************)
EXTENDS Telemetry, FiniteSetTheorems, TLAPS

LEMMA StampsAreInts == Stamp \subseteq Int /\ Absent \notin Stamp
  BY TelemetryAssumption DEF Stamp

LEMMA FieldsAreInts ==
  /\ \A p \in Point : p.ts \in Stamp /\ p.ts \in Int /\ p.epoch \in Int
  /\ \A r \in Record : r.ts \in Int
  /\ \A a \in Answer : a.epoch \in Int /\ (a.view # Absent => a.view.ts \in Int)
<1>1. 0..MaxEpoch \subseteq Int
  OBVIOUS
<1>2. \A p \in Point : p.ts \in Stamp /\ p.epoch \in Int
  BY <1>1 DEF Point
<1>3. \A r \in Record : r.ts \in Stamp
  BY DEF Record
<1>4. \A a \in Answer : a.epoch \in Int /\ (a.view # Absent => a.view.ts \in Stamp)
  BY <1>1 DEF Answer, View
<1> QED
  BY <1>2, <1>3, <1>4, StampsAreInts

------------------------------------------------------------------------------
(* The deque *)

\* The numbers up to n are n.
LEMMA UpTo ==
  ASSUME NEW n \in Nat
  PROVE  IsFiniteSet(1..n) /\ Cardinality(1..n) = n
<1>1. 1 \in Int /\ n \in Int
  OBVIOUS
<1>2. IsFiniteSet(1..n) /\ Cardinality(1..n) = IF 1 > n THEN 0 ELSE n - 1 + 1
  BY <1>1, FS_Interval
<1> QED
  BY <1>2

\* What is trimmed is a beginning of the series, all of it too old, and the rest
\* begins with a sample that is not.
LEMMA TrimmedSuffix ==
  ASSUME NEW s \in Seq(Point), NEW cutoff \in Int
  PROVE  \E gone \in 0..Len(s) :
           /\ Trimmed(s, cutoff) = SubSeq(s, gone + 1, Len(s))
           /\ \A i \in 1..gone : s[i].ts < cutoff
           /\ gone < Len(s) => s[gone + 1].ts >= cutoff
<1> DEFINE T == TooOld(s, cutoff)
           g == Cardinality(T)
<1>1. T \subseteq 1..Len(s) /\ Len(s) \in Nat /\ DOMAIN s = 1..Len(s)
  BY DEF TooOld
<1>2. IsFiniteSet(1..Len(s)) /\ Cardinality(1..Len(s)) = Len(s)
  <2>1. Len(s) \in Nat
    OBVIOUS
  <2> HIDE DEF g, T
  <2> QED
    BY <2>1, UpTo
<1>3. IsFiniteSet(T) /\ g \in 0..Len(s)
  BY <1>1, <1>2, FS_Subset, FS_CardinalityType DEF g
<1>4. ASSUME NEW i \in 1..g PROVE i \in T
  <2>1. SUFFICES ASSUME i \notin T PROVE FALSE
    OBVIOUS
  <2>2. T \subseteq 1..(i - 1)
    BY <1>1, <2>1, <1>3 DEF TooOld
  <2>3. IsFiniteSet(1..(i - 1)) /\ Cardinality(1..(i - 1)) = i - 1
    <3>1. i - 1 \in Nat
      OBVIOUS
    <3> HIDE DEF T, g
    <3> QED
      BY <3>1, UpTo
  <2>4. g <= i - 1
    BY <2>2, <2>3, FS_Subset
  <2> QED
    BY <2>4, <1>3
<1>5. g < Len(s) => s[g + 1].ts >= cutoff
  <2>1. SUFFICES ASSUME g < Len(s), ~(s[g + 1].ts >= cutoff) PROVE FALSE
    OBVIOUS
  <2>2. g + 1 \in 1..Len(s) /\ s[g + 1].ts < cutoff
    <3>1. g + 1 \in 1..Len(s)
      BY <2>1, <1>3
    <3>2. s[g + 1] \in Point
      <4> HIDE DEF g
      <4> QED
        BY <3>1
    <3>3. s[g + 1].ts \in Int
      <4> HIDE DEF g
      <4> QED
        BY <3>2, StampsAreInts DEF Point
    <3> HIDE DEF g
    <3> QED
      BY <3>1, <3>3, <2>1
  <2>3. \A j \in 1..g : s[j].ts < cutoff
    BY <1>4, <1>3, <1>1 DEF TooOld
  <2>4. \A j \in 1..(g + 1) : s[j].ts < cutoff
    BY <2>2, <2>3, <1>3
  <2>5. \A i \in 1..(g + 1) : i \in T
    BY <2>2, <2>4, <1>1, <1>3 DEF TooOld
  <2>6. IsFiniteSet(1..(g + 1)) /\ Cardinality(1..(g + 1)) = g + 1
    <3>1. g + 1 \in Nat
      BY <1>3
    <3> HIDE DEF T, g
    <3> QED
      BY <3>1, UpTo
  <2>7. 1..(g + 1) \subseteq T
    BY <2>5
  <2>8. g + 1 <= g
    BY <2>6, <2>7, <1>3, FS_Subset
  <2> QED
    BY <2>8, <1>3
<1>6. \A i \in 1..g : s[i].ts < cutoff
  BY <1>4, <1>3, <1>1 DEF TooOld
<1> HIDE DEF g
<1> QED
  BY <1>3, <1>5, <1>6 DEF Trimmed, g

\* The elements of the end of a series with another sample after it.
LEMMA Followed ==
  ASSUME NEW s \in Seq(Point), NEW k \in 0..Len(s), NEW p \in Point
  PROVE  LET r == Append(SubSeq(s, k + 1, Len(s)), p) IN
           /\ r \in Seq(Point) /\ Len(r) = Len(s) - k + 1
           /\ \A i \in 1..(Len(s) - k) : r[i] = s[k + i]
           /\ r[Len(s) - k + 1] = p
<1> DEFINE e == SubSeq(s, k + 1, Len(s))
<1>1. e \in Seq(Point) /\ Len(e) = Len(s) - k /\ \A i \in 1..Len(e) : e[i] = s[k + i]
  OBVIOUS
<1> HIDE DEF e
<1>2. /\ Append(e, p) \in Seq(Point) /\ Len(Append(e, p)) = Len(e) + 1
      /\ \A i \in 1..Len(e) : Append(e, p)[i] = e[i]
      /\ Append(e, p)[Len(e) + 1] = p
  BY <1>1
<1> QED
  BY <1>1, <1>2 DEF e

\* A full deque loses its oldest sample to the new one.
LEMMA PushedSuffix ==
  ASSUME NEW s \in Seq(Point), Len(s) <= MaxSamples, NEW p \in Point
  PROVE  \E h \in 0..Len(s) :
           /\ Pushed(s, p) = Append(SubSeq(s, h + 1, Len(s)), p)
           /\ h = 0 \/ (h = 1 /\ Len(s) = MaxSamples)
           /\ Len(s) - h < MaxSamples
<1>0. Len(s) \in Nat /\ MaxSamples \in Nat \ {0}
  BY TelemetryAssumption
<1>1. CASE Len(s) < MaxSamples
  <2>1. SubSeq(s, 0 + 1, Len(s)) = s
    OBVIOUS
  <2> QED
    <3>1. Pushed(s, p) = Append(SubSeq(s, 0 + 1, Len(s)), p)
      BY <1>1, <2>1 DEF Pushed
    <3>2. 0 \in 0..Len(s) /\ Len(s) - 0 < MaxSamples
      BY <1>0, <1>1
    <3> QED
      BY <3>1, <3>2
<1>2. CASE ~(Len(s) < MaxSamples)
  <2>1. Len(s) = MaxSamples /\ s # <<>>
    BY <1>0, <1>2
  <2>2. Tail(s) = SubSeq(s, 1 + 1, Len(s))
    BY <2>1
  <2> QED
    <3>1. Pushed(s, p) = Append(SubSeq(s, 1 + 1, Len(s)), p)
      BY <1>2, <2>2 DEF Pushed
    <3>2. 1 \in 0..Len(s) /\ Len(s) - 1 < MaxSamples
      BY <1>0, <2>1
    <3> QED
      BY <3>1, <3>2, <2>1
<1> QED
  BY <1>1, <1>2

\* What an answer with a new stamp does to a chart.
LEMMA Added ==
  ASSUME NEW s \in Seq(Point), Len(s) <= MaxSamples, NEW p \in Point
  PROVE  LET t == Trimmed(Pushed(s, p), p.ts - Window) IN
         \E gone \in 0..Len(s) :
           /\ t = Append(SubSeq(s, gone + 1, Len(s)), p)
           /\ \A i \in 1..gone : s[i].ts < p.ts - Window \/ (i = 1 /\ Len(s) = MaxSamples)
           /\ t[1].ts >= p.ts - Window
           /\ Len(s) - gone < MaxSamples
<1> DEFINE q == Pushed(s, p)
           cutoff == p.ts - Window
<1>1. p.ts \in Int /\ Window \in Nat \ {0} /\ cutoff \in Int
  <2>1. p.ts \in Int
    BY StampsAreInts DEF Point
  <2>2. Window \in Nat \ {0}
    BY TelemetryAssumption
  <2> QED
    BY <2>1, <2>2
<1>2. PICK h \in 0..Len(s) :
        /\ q = Append(SubSeq(s, h + 1, Len(s)), p)
        /\ h = 0 \/ (h = 1 /\ Len(s) = MaxSamples)
        /\ Len(s) - h < MaxSamples
  BY PushedSuffix
<1> HIDE DEF q
<1>3. /\ q \in Seq(Point) /\ Len(q) = Len(s) - h + 1
      /\ \A i \in 1..(Len(q) - 1) : q[i] = s[h + i]
      /\ q[Len(q)] = p
  <2>1. /\ q \in Seq(Point) /\ Len(q) = Len(s) - h + 1
        /\ \A i \in 1..(Len(s) - h) : q[i] = s[h + i]
        /\ q[Len(s) - h + 1] = p
    BY <1>2, Followed
  <2>2. Len(s) \in Nat /\ h \in Nat
    OBVIOUS
  <2> QED
    BY <2>1, <2>2
<1> HIDE DEF cutoff
<1>4. PICK g \in 0..Len(q) :
        /\ Trimmed(q, cutoff) = SubSeq(q, g + 1, Len(q))
        /\ \A i \in 1..g : q[i].ts < cutoff
        /\ g < Len(q) => q[g + 1].ts >= cutoff
  BY <1>1, <1>3, TrimmedSuffix
<1>5. g < Len(q)
  <2>1. SUFFICES ASSUME g = Len(q) PROVE FALSE
    BY <1>3
  <2>2. p.ts < cutoff
    BY <2>1, <1>3, <1>4
  <2> QED
    BY <2>2, <1>1 DEF cutoff
<1>6. h + g \in 0..Len(s)
  BY <1>3, <1>5
<1>7. SubSeq(q, g + 1, Len(q)) = Append(SubSeq(s, h + g + 1, Len(s)), p)
  <2> DEFINE l == SubSeq(q, g + 1, Len(q))
             r == Append(SubSeq(s, h + g + 1, Len(s)), p)
  <2>0. Len(s) \in Nat /\ h + g \in 0..Len(s) /\ Len(q) - g = Len(s) - (h + g) + 1
    BY <1>3, <1>6
  <2>1. l \in Seq(Point) /\ Len(l) = Len(q) - g /\ \A i \in 1..Len(l) : l[i] = q[g + i]
    <3>1. Len(q) \in Nat /\ g + 1 \in 1..Len(q) /\ Len(q) \in 1..Len(q)
      BY <1>3, <1>5
    <3>2. l \in Seq(Point)
      BY <1>3, <3>1
    <3>3. Len(l) = Len(q) - g
      BY <1>3, <3>1
    <3>4. \A i \in 1..Len(l) : l[i] = q[g + i]
      BY <1>3, <3>1, <3>3
    <3> QED
      BY <3>2, <3>3, <3>4
  <2>2. /\ r \in Seq(Point) /\ Len(r) = Len(s) - (h + g) + 1
        /\ \A i \in 1..(Len(s) - (h + g)) : r[i] = s[(h + g) + i]
        /\ r[Len(s) - (h + g) + 1] = p
    <3> DEFINE k == h + g
    <3>1. k \in 0..Len(s)
      BY <1>6
    <3> HIDE DEF k
    <3>2. LET x == Append(SubSeq(s, k + 1, Len(s)), p) IN
            /\ x \in Seq(Point) /\ Len(x) = Len(s) - k + 1
            /\ \A i \in 1..(Len(s) - k) : x[i] = s[k + i]
            /\ x[Len(s) - k + 1] = p
      BY <3>1, Followed
    <3> QED
      BY <3>2 DEF k
  <2> HIDE DEF l, r
  <2>9. ASSUME NEW i \in 1..Len(l) PROVE l[i] = r[i]
    <3>1. CASE i = Len(l)
      <4>1. q[g + i] = p
        BY SMTT(30), <1>3, <2>0, <2>1, <3>1
      <4> QED
        BY <4>1, <2>0, <2>1, <2>2, <3>1
    <3>2. CASE i < Len(l)
      <4>1. g + i \in 1..(Len(q) - 1) /\ i \in 1..(Len(s) - (h + g))
        BY <1>3, <1>5, <2>0, <2>1, <3>2
      <4>2. q[g + i] = s[h + (g + i)]
        BY <4>1, <1>3
      <4>3. r[i] = s[(h + g) + i]
        BY <4>1, <2>2
      <4>4. h + (g + i) = (h + g) + i
        BY <1>3
      <4>5. l[i] = q[g + i]
        BY <2>1
      <4> QED
        BY <4>2, <4>3, <4>4, <4>5
    <3>3. Len(l) \in Nat
      BY <2>1
    <3> QED
      BY <3>1, <3>2, <3>3
  <2>3. Len(l) = Len(r)
    BY <2>0, <2>1, <2>2
  <2>4. l = r
    <3>1. \A i \in 1..Len(l) : l[i] = r[i]
      BY <2>9
    <3>2. l \in Seq(Point) /\ r \in Seq(Point)
      BY <2>1, <2>2
    <3> QED
      BY <3>1, <3>2, <2>3
  <2> QED
    BY <2>4 DEF l, r
<1>8. ASSUME NEW i \in 1..(h + g)
      PROVE  s[i].ts < cutoff \/ (i = 1 /\ Len(s) = MaxSamples)
  <2>1. CASE i <= h
    BY <1>2, <2>1
  <2>2. CASE i > h
    <3>1. i - h \in 1..g /\ q[i - h] = s[h + (i - h)]
      BY <1>3, <1>5, <2>2
    <3>2. q[i - h].ts < cutoff
      BY <3>1, <1>4
    <3> QED
      BY <3>1, <3>2
  <2> QED
    BY <2>1, <2>2
<1>9. Trimmed(q, cutoff)[1].ts >= cutoff
  <2>1. SubSeq(q, g + 1, Len(q))[1] = q[g + 1]
    BY <1>3, <1>5
  <2> QED
    BY <2>1, <1>4, <1>5
<1> DEFINE t == Trimmed(Pushed(s, p), p.ts - Window)
<1>10. t = Trimmed(q, cutoff)
  BY DEF q, cutoff
<1> HIDE DEF t
<1>11. t = Append(SubSeq(s, (h + g) + 1, Len(s)), p)
  BY <1>4, <1>7, <1>10
<1>12. Len(s) - (h + g) < MaxSamples
  <2>1. Len(s) \in Nat /\ MaxSamples \in Nat /\ h \in Nat /\ g \in Nat
    BY <1>3, TelemetryAssumption
  <2> QED
    BY <2>1, <1>2
<1>13. /\ \A i \in 1..(h + g) : s[i].ts < p.ts - Window \/ (i = 1 /\ Len(s) = MaxSamples)
       /\ t[1].ts >= p.ts - Window
  BY <1>8, <1>9, <1>10 DEF cutoff
<1> HIDE DEF cutoff
<1>14. \E gone \in 0..Len(s) :
         /\ t = Append(SubSeq(s, gone + 1, Len(s)), p)
         /\ \A i \in 1..gone : s[i].ts < p.ts - Window \/ (i = 1 /\ Len(s) = MaxSamples)
         /\ t[1].ts >= p.ts - Window
         /\ Len(s) - gone < MaxSamples
  BY <1>6, <1>11, <1>12, <1>13
<1> QED
  BY <1>14 DEF t

------------------------------------------------------------------------------
(* Types *)

\* What an answer leaves of a chart, with the facts of its type.
LEMMA AddKeepsTypes ==
  ASSUME TelemetryTypeOK, NEW view \in View \cup {Absent}, NEW when \in 0..MaxEpoch,
         Add(view, when)
  PROVE  /\ points' \in Seq(Point) /\ Len(points') <= MaxSamples
         /\ last' = IF points' = <<>> THEN Absent ELSE points'[Len(points')].ts
<1>1. CASE view = Absent \/ SameStamp(view.ts)
  BY <1>1 DEF Add, TelemetryTypeOK
<1>2. CASE ~(view = Absent \/ SameStamp(view.ts))
  <2> DEFINE p == [ts |-> view.ts, epoch |-> when]
  <2>1. p \in Point /\ p.ts = view.ts
    BY <1>2 DEF View, Point
  <2>2. last' = p.ts /\ points' = Trimmed(Pushed(points, p), p.ts - Window)
    BY <1>2 DEF Add
  <2>3. points \in Seq(Point) /\ Len(points) <= MaxSamples
    BY DEF TelemetryTypeOK
  <2> HIDE DEF p
  <2>4. PICK gone \in 0..Len(points) :
          /\ points' = Append(SubSeq(points, gone + 1, Len(points)), p)
          /\ Len(points) - gone < MaxSamples
    BY <2>1, <2>2, <2>3, Added
  <2>5. /\ points' \in Seq(Point) /\ Len(points') = Len(points) - gone + 1
        /\ points'[Len(points) - gone + 1] = p
    BY <2>1, <2>3, <2>4, Followed
  <2>6. Len(points) \in Nat /\ MaxSamples \in Nat
    BY <2>3, TelemetryAssumption
  <2>7. points' # <<>> /\ Len(points') <= MaxSamples
    <3>1. Len(points') = Len(points) - gone + 1 /\ gone \in 0..Len(points)
      BY <2>5
    <3>2. Len(points') >= 1 /\ Len(points') <= MaxSamples
      BY <2>4, <2>6, <3>1
    <3>3. Len(<<>>) = 0
      OBVIOUS
    <3> QED
      BY <3>2, <3>3
  <2> QED
    BY <2>2, <2>5, <2>7
<1> QED
  BY <1>1, <1>2

LEMMA TelemetryTypesInit == TelemetryInit => TelemetryTypeOK
<1> SUFFICES ASSUME TelemetryInit PROVE TelemetryTypeOK
  OBVIOUS
<1>1. IsFiniteSet({}) /\ Cardinality({}) = 0
  BY FS_EmptySet
<1>2. {known, saved} \subseteq [{TheNode} -> Record \cup {Absent}]
      /\ serving \in BOOLEAN /\ members \subseteq {TheNode}
  BY DEF TelemetryInit, H!Init
<1>3. points \in Seq(Point) /\ Len(points) <= MaxSamples
  BY TelemetryAssumption DEF TelemetryInit
<1>4. EndOfTime \in Nat /\ MaxEpoch \in Nat /\ MaxLate \in Nat
  BY TelemetryAssumption
<1>5. time \in 0..EndOfTime /\ epoch \in 0..MaxEpoch
  BY <1>4 DEF TelemetryInit
<1>6. late \subseteq Stamp /\ IsFiniteSet(late) /\ Cardinality(late) <= MaxLate
  BY <1>1, <1>4 DEF TelemetryInit
<1> QED
  BY <1>2, <1>3, <1>5, <1>6 DEF TelemetryInit, TelemetryTypeOK

\* What the hub does keeps the types of what it knows.
LEMMA HubTypes ==
  ASSUME TelemetryTypeOK, HubNext
  PROVE  /\ {known', saved'} \subseteq [{TheNode} -> Record \cup {Absent}]
         /\ serving' \in BOOLEAN /\ members' \subseteq {TheNode}
<1> USE DEF TelemetryTypeOK
<1>1. ASSUME NEW M \in SUBSET {TheNode} PROVE
        /\ H!After(M, known) \in [{TheNode} -> Record \cup {Absent}]
        /\ H!After(M, saved) \in [{TheNode} -> Record \cup {Absent}]
  BY DEF H!After
<1>2. ASSUME NEW ts \in Stamp, Takes(ts)
      PROVE  /\ {known', saved'} \subseteq [{TheNode} -> Record \cup {Absent}]
             /\ serving' \in BOOLEAN /\ members' \subseteq {TheNode}
  <2>1. [ts |-> ts, at |-> time] \in Record
    BY DEF Record
  <2>2. CASE H!Learn(members, TheNode, [ts |-> ts, at |-> time])
    BY <1>1, <2>1, <2>2 DEF H!Learn
  <2>3. CASE UNCHANGED <<serving, members, known, saved>>
    BY <2>3
  <2> QED
    BY <1>2, <2>2, <2>3 DEF Takes
<1>3. CASE TakesPost \/ TakesLate
  BY <1>2, <1>3 DEF TakesPost, TakesLate
<1>4. CASE HubStarts
  BY <1>4 DEF HubStarts, H!Start
<1>5. CASE HubStops
  BY <1>5 DEF HubStops, H!Stop
<1>6. CASE HubRefreshes
  BY <1>1, <1>6 DEF HubRefreshes, H!Refresh
<1> QED
  BY <1>3, <1>4, <1>5, <1>6 DEF HubNext

LEMMA TelemetryTypesStep ==
  TelemetryTypeOK /\ [TelemetryNext]_telemetryVars => TelemetryTypeOK'
<1> SUFFICES ASSUME TelemetryTypeOK, [TelemetryNext]_telemetryVars PROVE TelemetryTypeOK'
  OBVIOUS
<1>0. EndOfTime \in Nat /\ MaxEpoch \in Nat /\ MaxLate \in Nat /\ Interval \in Nat
      /\ PostTimeout \in Nat /\ RefreshEvery \in Nat /\ FetchTimeout \in Nat
  BY TelemetryAssumption
<1>1. CASE AgentNext
  <2>1. UNCHANGED <<time, hub, display>>
    BY <1>1 DEF AgentNext
  <2>2. CASE Sends
    <3>1. \A t \in 0..EndOfTime : Clock[t] \subseteq Stamp
      BY DEF Stamp
    <3>2. post' \in Stamp /\ UNCHANGED late /\ agent' = "posting" /\ agentTimer' \in Nat
      BY <1>0, <2>2, <3>1 DEF Sends, TelemetryTypeOK
    <3> QED
      BY <2>1, <3>2 DEF TelemetryTypeOK, hub, display
  <2>3. CASE PostIsAnswered
    BY <1>0, <2>1, <2>3 DEF PostIsAnswered, Sleeps, TelemetryTypeOK, hub, display
  <2>4. CASE PostFails
    <3>1. late' \subseteq Stamp /\ IsFiniteSet(late') /\ Cardinality(late') <= MaxLate
      BY <2>4, FS_AddElement DEF PostFails, Abandon, TelemetryTypeOK
    <3>2. post' = Absent /\ agent' = "sleeping" /\ agentTimer' = Interval
      BY <2>4 DEF PostFails, Abandon, Sleeps
    <3> QED
      BY <1>0, <2>1, <3>1, <3>2 DEF TelemetryTypeOK, hub, display
  <2> QED
    BY <1>1, <2>2, <2>3, <2>4 DEF AgentNext
<1>2. CASE HubNext
  <2>1. UNCHANGED <<time, agent, agentTimer, display>>
    BY <1>2 DEF HubNext
  <2>2. epoch' \in 0..MaxEpoch
    <3>1. UNCHANGED epoch \/ Forgets
      BY <1>2 DEF HubNext, TakesPost, TakesLate, Takes, HubStarts, HubStops, HubRefreshes
    <3>2. epoch \in 0..MaxEpoch
      BY DEF TelemetryTypeOK
    <3> QED
      BY <1>0, <3>1, <3>2 DEF Forgets
  <2>3. post' \in Stamp \cup {Absent}
    BY <1>2 DEF HubNext, TakesPost, TakesLate, TelemetryTypeOK
  <2>4. late' \subseteq late
    BY <1>2 DEF HubNext, TakesPost, TakesLate
  <2>5. IsFiniteSet(late') /\ Cardinality(late') <= Cardinality(late)
    BY <2>4, FS_Subset DEF TelemetryTypeOK
  <2>6. Cardinality(late') <= MaxLate
    BY <1>0, <2>5, FS_CardinalityType DEF TelemetryTypeOK
  <2>7. /\ {known', saved'} \subseteq [{TheNode} -> Record \cup {Absent}]
        /\ serving' \in BOOLEAN /\ members' \subseteq {TheNode}
    BY <1>2, HubTypes
  <2> QED
    BY <2>1, <2>2, <2>3, <2>4, <2>5, <2>6, <2>7 DEF TelemetryTypeOK, display
<1>3. CASE DisplayNext
  <2>1. UNCHANGED <<time, sender, hub>>
    BY <1>3 DEF DisplayNext
  <2>2. CASE Asks
    BY <1>0, <2>1, <2>2 DEF Asks, TelemetryTypeOK, sender, hub
  <2>3. CASE HubAnswers
    <3>1. known[TheNode] \in Record \cup {Absent}
      BY DEF TelemetryTypeOK
    <3>2. ViewOf(known[TheNode]) \in View \cup {Absent}
      BY <3>1 DEF ViewOf, View, Record
    <3>3. answer' \in Answer
      BY <2>3, <3>2 DEF HubAnswers, Answer, TelemetryTypeOK
    <3> QED
      BY <2>1, <2>3, <3>3 DEF HubAnswers, TelemetryTypeOK, sender, hub
  <2>4. CASE FetchSucceeds
    <3>1. answer.view \in View \cup {Absent} /\ answer.epoch \in 0..MaxEpoch
      BY <2>4 DEF FetchSucceeds, TelemetryTypeOK, Answer
    <3>2. /\ points' \in Seq(Point) /\ Len(points') <= MaxSamples
          /\ last' = IF points' = <<>> THEN Absent ELSE points'[Len(points')].ts
      BY <2>4, <3>1, AddKeepsTypes DEF FetchSucceeds
    <3>3. displayTimer' \in Nat /\ fetching' = FALSE /\ answer' = Absent
      BY <1>0, <2>4 DEF FetchSucceeds, Rests
    <3>4. shown' \in View \cup {Absent} /\ hubOnline' = TRUE
      BY <2>4, <3>1 DEF FetchSucceeds
    <3> QED
      BY <2>1, <3>2, <3>3, <3>4 DEF TelemetryTypeOK, sender, hub
  <2>5. CASE FetchFails
    <3>1. displayTimer' \in Nat /\ fetching' = FALSE /\ answer' = Absent /\ hubOnline' = FALSE
          /\ UNCHANGED <<shown, last, points>>
      BY <1>0, <2>5 DEF FetchFails, Rests, OnFailure
    <3> QED
      BY <2>1, <3>1 DEF TelemetryTypeOK, sender, hub
  <2> QED
    BY <1>3, <2>2, <2>3, <2>4, <2>5 DEF DisplayNext
<1>4. CASE Passes
  <2>1. time' \in 0..EndOfTime /\ agentTimer' \in Nat /\ displayTimer' \in Nat
    BY <1>0, <1>4 DEF Passes, TelemetryTypeOK
  <2> QED
    BY <1>4, <2>1 DEF Passes, TelemetryTypeOK, hub
<1>5. CASE UNCHANGED telemetryVars
  BY <1>5 DEF telemetryVars, sender, hub, display, TelemetryTypeOK
<1> QED
  BY <1>1, <1>2, <1>3, <1>4, <1>5 DEF TelemetryNext

\* Every variable keeps its type, and a chart never has more samples than it may.
THEOREM TelemetryTypes == TelemetrySpec => []TelemetryTypeOK
<1>1. TelemetryInit => TelemetryTypeOK
  BY TelemetryTypesInit
<1>2. TelemetryTypeOK /\ [TelemetryNext]_telemetryVars => TelemetryTypeOK'
  BY TelemetryTypesStep
<1> QED
  BY <1>1, <1>2, PTL DEF TelemetrySpec

------------------------------------------------------------------------------
(* Order *)

\* The hub's epochs are in order on the chart.
EpochsAscend ==
  \A i, j \in DOMAIN points : i < j => points[i].epoch <= points[j].epoch

\* Of this epoch of the hub the chart has nothing newer than the hub.
KnownLeads ==
  \A i \in DOMAIN points :
    /\ points[i].epoch <= epoch
    /\ points[i].epoch = epoch =>
         known[TheNode] # Absent /\ points[i].ts <= known[TheNode].ts

\* An answer is between the chart and the hub.
AnswerLeads ==
  answer # Absent =>
    /\ answer.epoch <= epoch
    /\ \A i \in DOMAIN points : points[i].epoch <= answer.epoch
    /\ answer.view # Absent =>
         /\ \A i \in DOMAIN points :
              points[i].epoch = answer.epoch => points[i].ts <= answer.view.ts
         /\ answer.epoch = epoch =>
              known[TheNode] # Absent /\ answer.view.ts <= known[TheNode].ts

DownKnowsNothing == ~serving => known[TheNode] = Absent

OrderInv ==
  /\ TelemetryTypeOK
  /\ SeriesInOrder /\ EpochsAscend /\ KnownLeads /\ AnswerLeads /\ DownKnowsNothing

LEMMA OrderInit == TelemetryInit => OrderInv
<1> SUFFICES ASSUME TelemetryInit PROVE OrderInv
  OBVIOUS
<1>1. TelemetryTypeOK
  BY TelemetryTypesInit
<1>2. DOMAIN points = {} /\ answer = Absent /\ known[TheNode] = Absent
  BY DEF TelemetryInit, H!Init
<1> QED
  BY <1>1, <1>2 DEF OrderInv, SeriesInOrder, EpochsAscend, KnownLeads, AnswerLeads,
     DownKnowsNothing

\* The hub gets ahead of everybody, or begins a new epoch.
LEMMA HubAdvances ==
  ASSUME OrderInv, HubNext
  PROVE  /\ \/ /\ epoch' = epoch
               /\ known[TheNode] # Absent =>
                    /\ known'[TheNode] # Absent
                    /\ known[TheNode].ts <= known'[TheNode].ts
            \/ epoch' = epoch + 1
         /\ DownKnowsNothing'
<1> USE DEF OrderInv
<1>0. /\ known \in [{TheNode} -> Record \cup {Absent}]
      /\ saved \in [{TheNode} -> Record \cup {Absent}]
      /\ members \subseteq {TheNode}
  BY DEF TelemetryTypeOK
<1>1. known[TheNode] # Absent => known[TheNode].ts \in Int
  BY <1>0, StampsAreInts DEF Record
<1>2. ASSUME NEW ts \in Stamp, Takes(ts)
      PROVE  /\ epoch' = epoch
             /\ known[TheNode] # Absent =>
                  /\ known'[TheNode] # Absent
                  /\ known[TheNode].ts <= known'[TheNode].ts
             /\ DownKnowsNothing'
  <2> DEFINE r == [ts |-> ts, at |-> time]
  <2>1. r \in Record /\ r # Absent /\ r.ts = ts /\ ts \in Int
    BY TelemetryAssumption, StampsAreInts DEF Record, TelemetryTypeOK
  <2> HIDE DEF r
  <2>2. CASE H!Learn(members, TheNode, r)
    <3>1. H!After(members, known) = known
      BY <1>0 DEF H!After
    <3>2. known'[TheNode] = r /\ serving /\ serving' = serving
      BY <1>0, <2>2, <3>1 DEF H!Learn
    <3>3. known[TheNode] # Absent => r.ts > known[TheNode].ts
      BY <2>2, <3>1 DEF H!Learn
    <3> QED
      BY <1>1, <1>2, <2>1, <3>2, <3>3 DEF Takes, DownKnowsNothing
  <2>3. CASE UNCHANGED <<serving, members, known, saved>>
    BY <1>1, <1>2, <2>3 DEF Takes, DownKnowsNothing
  <2> QED
    BY <1>2, <2>2, <2>3 DEF Takes, r
<1>3. CASE TakesPost \/ TakesLate
  BY <1>2, <1>3 DEF TakesPost, TakesLate, TelemetryTypeOK
<1>4. CASE HubStarts
  BY <1>4 DEF HubStarts, H!Start, DownKnowsNothing
<1>5. CASE HubStops
  BY <1>5 DEF HubStops, H!Stop, Forgets, DownKnowsNothing
<1>6. CASE HubRefreshes
  <2>1. PICK M \in SUBSET {TheNode} :
          H!Refresh(M) /\ IF members \subseteq M THEN UNCHANGED epoch ELSE Forgets
    BY <1>6 DEF HubRefreshes
  <2>2. serving /\ serving' = serving /\ known' = H!After(M, known)
    BY <2>1 DEF H!Refresh
  <2>3. CASE members \subseteq M
    <3>1. known'[TheNode] = known[TheNode]
      BY <2>2, <2>3 DEF H!After
    <3> QED
      BY <1>1, <2>1, <2>2, <2>3, <3>1 DEF DownKnowsNothing
  <2>4. CASE ~(members \subseteq M)
    BY <2>1, <2>2, <2>4 DEF Forgets, DownKnowsNothing
  <2> QED
    BY <2>3, <2>4
<1> QED
  BY <1>3, <1>4, <1>5, <1>6 DEF HubNext

\* What an answer puts at the end of a chart is in order.
LEMMA AddKeepsOrder ==
  ASSUME OrderInv, answer # Absent, Add(answer.view, answer.epoch)
  PROVE  (SeriesInOrder /\ EpochsAscend /\ KnownLeads)'
             \/ known'[TheNode] # known[TheNode] \/ epoch' # epoch
<1> SUFFICES ASSUME known'[TheNode] = known[TheNode], epoch' = epoch
             PROVE  (SeriesInOrder /\ EpochsAscend /\ KnownLeads)'
  OBVIOUS
<1> DEFINE view == answer.view
           p == [ts |-> view.ts, epoch |-> answer.epoch]
<1>0. /\ answer \in Answer /\ points \in Seq(Point) /\ Len(points) <= MaxSamples
      /\ last = IF points = <<>> THEN Absent ELSE points[Len(points)].ts
  BY DEF OrderInv, TelemetryTypeOK
<1>1. CASE view = Absent \/ SameStamp(view.ts)
  <2>1. points' = points
    BY <1>1 DEF Add
  <2> QED
    BY <2>1 DEF OrderInv, SeriesInOrder, EpochsAscend, KnownLeads
<1>2. CASE ~(view = Absent \/ SameStamp(view.ts))
  <2>1. /\ p \in Point /\ p.ts = view.ts /\ p.epoch = answer.epoch
        /\ p.ts \in Int /\ p.epoch \in Int
    <3>1. p \in Point
      BY <1>0, <1>2 DEF Answer, View, Point
    <3> QED
      BY <3>1, FieldsAreInts
  <2>2. points' = Trimmed(Pushed(points, p), p.ts - Window)
    BY <1>2, <2>1 DEF Add
  <2>3. ASSUME NEW i \in DOMAIN points
        PROVE  /\ points[i].epoch <= p.epoch
               /\ points[i].epoch = p.epoch => points[i].ts < p.ts
               /\ points[i].ts \in Int /\ points[i].epoch \in Int
    <3>1. points[i] \in Point /\ points[i].ts \in Int /\ points[i].epoch \in Int
      BY <1>0, FieldsAreInts
    <3>2. /\ points[i].epoch <= p.epoch
          /\ points[i].epoch = p.epoch => points[i].ts <= p.ts
      BY <1>2, <2>1 DEF OrderInv, AnswerLeads
    <3>3. ASSUME points[i].epoch = p.epoch, points[i].ts = p.ts PROVE FALSE
      <4> DEFINE n == Len(points)
      <4>1. n \in DOMAIN points /\ n \in Nat /\ points # <<>> /\ i \in 1..n
        BY <1>0
      <4>2. /\ points[n] \in Point /\ points[n].ts \in Int /\ points[n].epoch \in Int
            /\ points[n].ts \in Stamp
        BY <1>0, <4>1, FieldsAreInts
      <4>3. last = points[n].ts /\ last # Absent
        BY <1>0, <4>1, <4>2, StampsAreInts
      <4>4. points[n].ts # p.ts
        BY <1>2, <2>1, <4>3 DEF SameStamp
      <4> HIDE DEF n
      <4>5. i < n
        BY <3>3, <4>1, <4>4
      <4>6. points[i].epoch <= points[n].epoch
        BY <4>1, <4>5 DEF OrderInv, EpochsAscend
      <4>7. points[n].epoch <= p.epoch /\ (points[n].epoch = p.epoch => points[n].ts <= p.ts)
        BY <1>2, <2>1, <4>1 DEF OrderInv, AnswerLeads
      <4>8. points[n].epoch = p.epoch
        BY <2>1, <3>3, <4>2, <4>6, <4>7
      <4>9. points[i].ts < points[n].ts
        BY <3>3, <4>1, <4>5, <4>8 DEF OrderInv, SeriesInOrder
      <4> QED
        BY <2>1, <3>3, <4>2, <4>7, <4>8, <4>9
    <3> QED
      BY <2>1, <3>1, <3>2, <3>3
  <2>4. p.epoch <= epoch /\ (p.epoch = epoch =>
          known[TheNode] # Absent /\ p.ts <= known[TheNode].ts)
    BY <1>2, <2>1 DEF OrderInv, AnswerLeads
  <2> HIDE DEF p
  <2>5. PICK k \in 0..Len(points) : points' = Append(SubSeq(points, k + 1, Len(points)), p)
    BY <1>0, <2>1, <2>2, Added
  <2> DEFINE m == Len(points) - k
  <2>6. /\ DOMAIN points' = 1..(m + 1) /\ m \in Nat
        /\ \A i \in 1..m : points'[i] = points[k + i] /\ k + i \in DOMAIN points
        /\ points'[m + 1] = p
    <3>1. /\ points' \in Seq(Point) /\ Len(points') = Len(points) - k + 1
          /\ \A i \in 1..(Len(points) - k) : points'[i] = points[k + i]
          /\ points'[Len(points) - k + 1] = p
      BY <1>0, <2>1, <2>5, Followed
    <3>2. Len(points) \in Nat /\ DOMAIN points = 1..Len(points)
      BY <1>0
    <3> QED
      BY <3>1, <3>2
  <2> HIDE DEF m
  <2>7. ASSUME NEW i \in DOMAIN points', NEW j \in DOMAIN points', i < j
        PROVE  /\ points'[i].epoch <= points'[j].epoch
               /\ points'[i].epoch = points'[j].epoch => points'[i].ts < points'[j].ts
    <3>1. i \in 1..m /\ points'[i] = points[k + i] /\ k + i \in DOMAIN points
      BY <2>6, <2>7
    <3>2. CASE j = m + 1
      BY <2>3, <2>6, <3>1, <3>2
    <3>3. CASE j \in 1..m
      <4>1. points'[j] = points[k + j] /\ k + j \in DOMAIN points /\ k + i < k + j
        BY <2>6, <2>7, <3>1, <3>3
      <4> QED
        BY <3>1, <4>1 DEF OrderInv, SeriesInOrder, EpochsAscend
    <3> QED
      BY <2>6, <3>2, <3>3
  <2>8. ASSUME NEW i \in DOMAIN points'
        PROVE  /\ points'[i].epoch <= epoch
               /\ points'[i].epoch = epoch =>
                    known[TheNode] # Absent /\ points'[i].ts <= known[TheNode].ts
    <3>1. CASE i = m + 1
      BY <2>4, <2>6, <3>1
    <3>2. CASE i \in 1..m
      BY <2>6, <3>2 DEF OrderInv, KnownLeads
    <3> QED
      BY <2>6, <3>1, <3>2
  <2> QED
    BY <2>7, <2>8 DEF SeriesInOrder, EpochsAscend, KnownLeads
<1> QED
  BY <1>1, <1>2

LEMMA OrderStep == OrderInv /\ [TelemetryNext]_telemetryVars => OrderInv'
<1> SUFFICES ASSUME OrderInv, [TelemetryNext]_telemetryVars PROVE OrderInv'
  OBVIOUS
<1>0. TelemetryTypeOK'
  BY TelemetryTypesStep DEF OrderInv
<1>1. CASE UNCHANGED <<serving, members, known, saved, epoch, answer, points>>
  BY <1>0, <1>1 DEF OrderInv, SeriesInOrder, EpochsAscend, KnownLeads, AnswerLeads,
     DownKnowsNothing
<1>2. CASE HubNext
  <2>1. points' = points /\ answer' = answer
    BY <1>2 DEF HubNext, display
  <2>2. /\ \/ /\ epoch' = epoch
              /\ known[TheNode] # Absent =>
                   /\ known'[TheNode] # Absent
                   /\ known[TheNode].ts <= known'[TheNode].ts
           \/ epoch' = epoch + 1
        /\ DownKnowsNothing'
    BY <1>2, HubAdvances
  <2>3. /\ known[TheNode] # Absent => known[TheNode].ts \in Int
        /\ known'[TheNode] # Absent => known'[TheNode].ts \in Int
        /\ epoch \in Int
    <3>1. known[TheNode] \in Record \cup {Absent} /\ known'[TheNode] \in Record \cup {Absent}
      BY <1>0 DEF OrderInv, TelemetryTypeOK
    <3>2. epoch \in 0..MaxEpoch
      BY DEF OrderInv, TelemetryTypeOK
    <3> QED
      BY <3>1, <3>2, FieldsAreInts
  <2>4. ASSUME NEW i \in DOMAIN points
        PROVE  points[i].ts \in Int /\ points[i].epoch \in Int
    BY FieldsAreInts DEF OrderInv, TelemetryTypeOK
  <2>5. answer # Absent =>
          answer.epoch \in Int /\ (answer.view # Absent => answer.view.ts \in Int)
    BY FieldsAreInts DEF OrderInv, TelemetryTypeOK
  <2>6. KnownLeads'
    BY <2>1, <2>2, <2>3, <2>4 DEF OrderInv, KnownLeads
  <2>7. AnswerLeads'
    BY <2>1, <2>2, <2>3, <2>4, <2>5 DEF OrderInv, AnswerLeads
  <2> QED
    BY <1>0, <2>1, <2>2, <2>6, <2>7 DEF OrderInv, SeriesInOrder, EpochsAscend
<1>3. CASE DisplayNext
  <2>1. UNCHANGED <<serving, members, known, saved, epoch>>
    BY <1>3 DEF DisplayNext, hub
  <2>2. CASE Asks
    BY <1>0, <2>1, <2>2
    DEF Asks, OrderInv, SeriesInOrder, EpochsAscend, KnownLeads, AnswerLeads, DownKnowsNothing
  <2>3. CASE HubAnswers
    <3>1. /\ points' = points /\ answer'.epoch = epoch
          /\ answer'.view = ViewOf(known[TheNode])
      BY <2>3 DEF HubAnswers
    <3>2. answer'.view # Absent =>
            known[TheNode] # Absent /\ answer'.view.ts = known[TheNode].ts
      BY <3>1 DEF ViewOf
    <3>3. known[TheNode] # Absent => known[TheNode].ts \in Int
      BY StampsAreInts DEF OrderInv, TelemetryTypeOK, Record
    <3>4. epoch \in Int
      BY DEF OrderInv, TelemetryTypeOK
    <3>5. AnswerLeads'
      BY <2>1, <3>1, <3>2, <3>3, <3>4 DEF OrderInv, KnownLeads, AnswerLeads
    <3> QED
      BY <1>0, <2>1, <3>1, <3>5
      DEF OrderInv, SeriesInOrder, EpochsAscend, KnownLeads, DownKnowsNothing
  <2>4. CASE FetchSucceeds
    <3>1. (SeriesInOrder /\ EpochsAscend /\ KnownLeads)'
      BY <2>1, <2>4, AddKeepsOrder DEF FetchSucceeds
    <3>2. answer' = Absent
      BY <2>4 DEF FetchSucceeds, Rests
    <3> QED
      BY <1>0, <2>1, <3>1, <3>2 DEF OrderInv, AnswerLeads, DownKnowsNothing
  <2>5. CASE FetchFails
    BY <1>0, <2>1, <2>5
    DEF FetchFails, Rests, OrderInv, SeriesInOrder, EpochsAscend, KnownLeads, AnswerLeads,
        DownKnowsNothing
  <2> QED
    BY <1>3, <2>2, <2>3, <2>4, <2>5 DEF DisplayNext
<1> QED
  BY <1>1, <1>2, <1>3
  DEF TelemetryNext, AgentNext, Passes, telemetryVars, hub, display

\* The samples of a chart are in the order of their stamps, each once, for as long as
\* the hub does not begin again or forget the node.
THEOREM ChartsAreInOrder == TelemetrySpec => []SeriesInOrder
<1>1. TelemetryInit => OrderInv
  BY OrderInit
<1>2. OrderInv /\ [TelemetryNext]_telemetryVars => OrderInv'
  BY OrderStep
<1>3. OrderInv => SeriesInOrder
  BY DEF OrderInv
<1> QED
  BY <1>1, <1>2, <1>3, PTL DEF TelemetrySpec

------------------------------------------------------------------------------
(* What a chart keeps *)

\* A chart changes in one way only.
LEMMA ChartSteps ==
  ASSUME TelemetryTypeOK, [TelemetryNext]_telemetryVars, ~UNCHANGED <<last, points>>
  PROVE  /\ points' # <<>> /\ points' \in Seq(Point) /\ last' = points'[Len(points')].ts
         /\ points'[1].ts >= last' - Window
         /\ \E gone \in 0..Len(points) :
              /\ points' = Append(SubSeq(points, gone + 1, Len(points)), points'[Len(points')])
              /\ \A i \in 1..gone :
                   points[i].ts < last' - Window \/ (i = 1 /\ Len(points) = MaxSamples)
<1>1. FetchSucceeds
  <2>1. CASE AgentNext \/ HubNext \/ Passes \/ UNCHANGED telemetryVars
    BY <2>1 DEF AgentNext, HubNext, Passes, telemetryVars, display
  <2>2. CASE DisplayNext
    BY <2>2 DEF DisplayNext, Asks, HubAnswers, FetchFails
  <2> QED
    BY <2>1, <2>2 DEF TelemetryNext
<1> DEFINE view == answer.view
           p == [ts |-> view.ts, epoch |-> answer.epoch]
<1>2. view # Absent /\ ~SameStamp(view.ts)
  BY <1>1 DEF FetchSucceeds, Add
<1>3. answer \in Answer /\ points \in Seq(Point) /\ Len(points) <= MaxSamples
  BY <1>1 DEF FetchSucceeds, TelemetryTypeOK
<1>4. p \in Point /\ p.ts = view.ts
  BY <1>2, <1>3 DEF Answer, View, Point
<1>5. last' = p.ts /\ points' = Trimmed(Pushed(points, p), p.ts - Window)
  BY <1>1, <1>2, <1>4 DEF FetchSucceeds, Add
<1> HIDE DEF p, view
<1>6. PICK gone \in 0..Len(points) :
        /\ points' = Append(SubSeq(points, gone + 1, Len(points)), p)
        /\ \A i \in 1..gone : points[i].ts < p.ts - Window \/ (i = 1 /\ Len(points) = MaxSamples)
        /\ points'[1].ts >= p.ts - Window
  BY <1>3, <1>4, <1>5, Added
<1>7. /\ points' \in Seq(Point) /\ Len(points') = Len(points) - gone + 1
      /\ points'[Len(points) - gone + 1] = p
  BY <1>3, <1>4, <1>6, Followed
<1>8. points' # <<>>
  <2>1. Len(points') # 0 /\ Len(<<>>) = 0
    BY <1>7
  <2> QED
    BY <2>1
<1>9. points'[Len(points')] = p
  BY <1>7
<1> QED
  BY <1>5, <1>6, <1>7, <1>8, <1>9

\* While stamps only advance, no chart shows a sample older than its window.
THEOREM ChartsKeepTheirWindow == TelemetrySpec => []WindowKept
<1>1. TelemetryInit => WindowKept
  BY DEF TelemetryInit, WindowKept
<1>2. ASSUME TelemetryTypeOK, WindowKept, [TelemetryNext]_telemetryVars PROVE WindowKept'
  <2>1. CASE UNCHANGED <<last, points>>
    BY <1>2, <2>1 DEF WindowKept
  <2>2. CASE ~UNCHANGED <<last, points>>
    <3>1. /\ points' \in Seq(Point) /\ points' # <<>> /\ points'[1].ts >= last' - Window
          /\ last' = points'[Len(points')].ts
      BY <1>2, <2>2, ChartSteps
    <3>2. /\ 1 \in DOMAIN points'
          /\ \A i \in DOMAIN points' : i \in Nat /\ i >= 1 /\ points'[i].ts \in Int
      BY <3>1, FieldsAreInts
    <3>3. last' \in Int /\ Window \in Int
      BY <3>1, FieldsAreInts, TelemetryAssumption
    <3>4. ASSUME \A i, j \in DOMAIN points' : i < j => points'[i].ts < points'[j].ts,
                 NEW i \in DOMAIN points'
          PROVE  points'[i].ts >= last' - Window
      <4>1. CASE i = 1
        BY <3>1, <4>1
      <4>2. CASE i > 1
        <5>1. points'[1].ts < points'[i].ts
          BY <3>2, <3>4, <4>2
        <5> QED
          BY <3>1, <3>2, <3>3, <5>1
      <4> QED
        BY <3>2, <4>1, <4>2
    <3> QED
      BY <3>4 DEF WindowKept
  <2> QED
    BY <2>1, <2>2
<1> QED
  BY <1>1, <1>2, TelemetryTypes, PTL DEF TelemetrySpec

\* What a chart has shown stays until it is a window old or the chart is full.
THEOREM ChartsForgetNothingElse == TelemetrySpec => SeenIsKept
<1>1. ASSUME TelemetryTypeOK, [TelemetryNext]_telemetryVars
      PROVE  [/\ points' # <<>>
              /\ \E gone \in 0..Len(points) :
                   /\ points' = Append(SubSeq(points, gone + 1, Len(points)),
                                       points'[Len(points')])
                   /\ \A i \in 1..gone :
                        points[i].ts < last' - Window \/ (i = 1 /\ Len(points) = MaxSamples)
             ]_points
  <2>1. CASE UNCHANGED <<last, points>>
    BY <2>1
  <2>2. CASE ~UNCHANGED <<last, points>>
    BY <1>1, <2>2, ChartSteps
  <2> QED
    BY <2>1, <2>2
<1> QED
  BY <1>1, TelemetryTypes, PTL DEF TelemetrySpec, SeenIsKept

------------------------------------------------------------------------------
(* How old the news is *)

\* The news is as old as the hub and the waits so far of the display have let it get.
HeardInv ==
  /\ TelemetryTypeOK
  /\ displayTimer <= IF fetching THEN FetchTimeout ELSE RefreshEvery
  /\ fetching /\ answer # Absent /\ answer.view # Absent /\ answer.view.online =>
       time - answer.view.at <= OfflineAfter + FetchTimeout - displayTimer
  /\ hubOnline /\ shown # Absent /\ shown.online =>
       time - shown.at <= OfflineAfter + FetchTimeout + RefreshEvery - displayTimer
                            + (IF fetching THEN FetchTimeout ELSE 0)

LEMMA HeardStep == HeardInv /\ [TelemetryNext]_telemetryVars => HeardInv'
<1> SUFFICES ASSUME HeardInv, [TelemetryNext]_telemetryVars PROVE HeardInv'
  OBVIOUS
<1>0. TelemetryTypeOK'
  BY TelemetryTypesStep DEF HeardInv
<1>1. /\ time \in Nat /\ displayTimer \in Nat /\ fetching \in BOOLEAN
      /\ answer # Absent => (answer.view # Absent => answer.view.at \in Int)
      /\ shown # Absent => shown.at \in Int
  BY DEF HeardInv, TelemetryTypeOK, Answer, View
<1>2. /\ OfflineAfter \in Nat /\ FetchTimeout \in Nat \ {0} /\ RefreshEvery \in Nat \ {0}
      /\ EndOfTime \in Nat
  BY TelemetryAssumption
<1>3. CASE UNCHANGED <<time, fetching, displayTimer, answer, shown, hubOnline>>
  BY <1>0, <1>3 DEF HeardInv
<1>4. CASE Passes
  <2>1. /\ time' <= time + 1 /\ displayTimer' = displayTimer - 1 /\ time' \in Int
        /\ UNCHANGED <<fetching, answer, shown, hubOnline>>
    BY <1>1, <1>4, <1>2 DEF Passes
  <2> QED
    BY <1>0, <1>1, <1>2, <2>1 DEF HeardInv
<1>5. CASE DisplayNext
  <2>0. time' = time
    BY <1>5 DEF DisplayNext
  <2>1. CASE Asks
    BY <1>0, <1>1, <1>2, <2>0, <2>1 DEF Asks, HeardInv
  <2>2. CASE HubAnswers
    <3>1. answer'.view = ViewOf(known[TheNode])
          /\ UNCHANGED <<fetching, displayTimer, shown, hubOnline>> /\ fetching
      BY <2>2 DEF HubAnswers
    <3>2. known[TheNode] # Absent => known[TheNode].at \in Int
      BY DEF HeardInv, TelemetryTypeOK, Record
    <3>3. answer'.view # Absent =>
            answer'.view.at \in Int
            /\ (answer'.view.online => time - answer'.view.at <= OfflineAfter)
      <4> DEFINE r == known[TheNode]
      <4>1. CASE r = Absent
        BY <3>1, <4>1 DEF ViewOf
      <4>2. CASE r # Absent
        <5>1. answer'.view = [ts |-> r.ts, at |-> r.at, online |-> time - r.at <= OfflineAfter]
          BY <3>1, <4>2 DEF ViewOf
        <5>2. answer'.view.at = r.at /\ answer'.view.online = (time - r.at <= OfflineAfter)
          BY <5>1
        <5> QED
          BY <3>2, <4>2, <5>2
      <4> QED
        BY <4>1, <4>2
    <3> QED
      BY <1>0, <1>1, <1>2, <2>0, <3>1, <3>3 DEF HeardInv
  <2>3. CASE FetchSucceeds
    <3>1. /\ fetching /\ answer # Absent /\ fetching' = FALSE /\ answer' = Absent
          /\ shown' = answer.view /\ displayTimer' \in 1..RefreshEvery
      BY <2>3 DEF FetchSucceeds, Rests
    <3> QED
      BY <1>0, <1>1, <1>2, <2>0, <3>1 DEF HeardInv
  <2>4. CASE FetchFails
    BY <1>0, <1>1, <1>2, <2>0, <2>4 DEF FetchFails, Rests, OnFailure, HeardInv
  <2> QED
    BY <1>5, <2>1, <2>2, <2>3, <2>4 DEF DisplayNext
<1> QED
  BY <1>3, <1>4, <1>5
  DEF TelemetryNext, AgentNext, HubNext, telemetryVars, display

\* A node that is shown as online was heard no longer ago than hub and display may
\* take to notice.
THEOREM NewsIsFresh == TelemetrySpec => []OnlineWasHeard
<1>1. TelemetryInit => HeardInv
  <2> SUFFICES ASSUME TelemetryInit PROVE HeardInv
    OBVIOUS
  <2>1. TelemetryTypeOK
    BY TelemetryTypesInit
  <2>2. RefreshEvery \in Nat /\ FetchTimeout \in Nat
    BY TelemetryAssumption
  <2> QED
    BY <2>1, <2>2 DEF TelemetryInit, HeardInv
<1>2. HeardInv /\ [TelemetryNext]_telemetryVars => HeardInv'
  BY HeardStep
<1>3. ASSUME HeardInv PROVE OnlineWasHeard
  <2>1. /\ time \in Nat /\ displayTimer \in Nat /\ fetching \in BOOLEAN
        /\ shown # Absent => shown.at \in Int
    BY <1>3 DEF HeardInv, TelemetryTypeOK, View
  <2>2. OfflineAfter \in Nat /\ FetchTimeout \in Nat /\ RefreshEvery \in Nat
    BY TelemetryAssumption
  <2> QED
    BY <1>3, <2>1, <2>2 DEF HeardInv, OnlineWasHeard
<1> QED
  BY <1>1, <1>2, <1>3, PTL DEF TelemetrySpec
==============================================================================
