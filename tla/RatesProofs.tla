------------------------------ MODULE RatesProofs ------------------------------
(***************************************************************************)
(* Proofs about Rates: what the meters of the collector report is never    *)
(* more than what has happened, the usage of the processor is not less     *)
(* than what it has worked, and the power of the packages is exact or      *)
(* wrong by whole ranges, for any number of sources and any bounds.        *)
(*                                                                         *)
(* The meters: what a counter has grown by since the noted reading is at   *)
(* most what its source has carried since (TrafficInv).  The processor:    *)
(* the fields of /proc/stat have grown by what was spent, waiting time     *)
(* that the kernel took back aside (ProcessorInv).  The packages: together *)
(* their counters have grown by what was drawn, but for the ranges of      *)
(* those that wrapped around (PackagesInv).  What a sum over a finite set  *)
(* does is proved first, by taking a smallest set for which it would not.  *)
(***************************************************************************)
EXTENDS Rates, FiniteSetTheorems, TLAPS

Reading == [source : Source, count : Int, at : Nat]
Rate == [source : Source, amount : Int, elapsed : Int, real : Int, exact : BOOLEAN]
Fields == [idle : Int, iowait : Int, busy : Int, guest : Int]
Spent == [all : Nat, busy : Nat, guest : Nat, back : Nat]

TrafficInv ==
  /\ now \in Nat
  /\ count \in [Source -> Nat] /\ moved \in [Source -> Nat]
  /\ present \subseteq Source /\ reset \subseteq Source
  /\ carried \in [Meter -> Nat] /\ claimed \in [Meter -> Nat]
  /\ seen \in [Meter -> Reading \cup {None}]
  /\ rate \in [Meter -> Rate \cup {None}]
  \* a counter has not grown by more than what its source has carried
  /\ \A m \in Meter : seen[m] # None =>
       /\ seen[m].source \in SourcesOf(m) /\ seen[m].count >= 0
       /\ count[seen[m].source] - seen[m].count <= moved[seen[m].source]
       /\ seen[m].source \notin reset =>
            count[seen[m].source] - seen[m].count = moved[seen[m].source]
  \* what no meter has noted yet is still to be reported
  /\ \A m \in Meter : \A s \in SourcesOf(m) : claimed[m] + moved[s] <= carried[m]
  /\ \A m \in Meter : claimed[m] <= carried[m]
  /\ RateIsReal

LEMMA MeterFacts ==
  /\ \A m \in Meter : SourcesOf(m) \subseteq Source
  /\ \A s \in Source : MeterOf(s) \in Meter /\ s \in SourcesOf(MeterOf(s))
  /\ \A m \in Meter : \A s \in SourcesOf(m) : MeterOf(s) = m
  BY RatesAssumption DEF Meter, Source, SourcesOf, MeterOf


LEMMA TrafficInvInit == RatesInit => TrafficInv
  BY MeterFacts DEF RatesInit, TrafficInit, TrafficInv, RateIsReal

LEMMA CarryStep ==
  ASSUME TrafficInv, NEW s \in Source, Carry(s), now' = now PROVE TrafficInv'
<1> USE MeterFacts
<1>1. /\ count' = [count EXCEPT ![s] = @ + 1] /\ moved' = [moved EXCEPT ![s] = @ + 1]
      /\ carried' = [carried EXCEPT ![MeterOf(s)] = @ + 1]
      /\ UNCHANGED <<present, seen, rate, reset, claimed>>
  BY DEF Carry
<1>2. /\ count' \in [Source -> Nat] /\ moved' \in [Source -> Nat] /\ carried' \in [Meter -> Nat]
  BY <1>1 DEF TrafficInv
<1>3. \A t \in Source : /\ count'[t] = count[t] + (IF t = s THEN 1 ELSE 0)
                        /\ moved'[t] = moved[t] + (IF t = s THEN 1 ELSE 0)
  BY <1>1 DEF TrafficInv
<1>4. \A m \in Meter : carried'[m] = carried[m] + (IF m = MeterOf(s) THEN 1 ELSE 0)
  BY <1>1 DEF TrafficInv
<1>5. ASSUME NEW m \in Meter, seen[m] # None
      PROVE  LET t == seen[m].source IN
             /\ count'[t] - seen[m].count <= moved'[t]
             /\ t \notin reset => count'[t] - seen[m].count = moved'[t]
  <2>1. seen[m].source \in Source /\ seen[m].count \in Int
    BY <1>5 DEF TrafficInv, Reading
  <2> QED
    BY <1>3, <1>5, <2>1 DEF TrafficInv
<1>6. ASSUME NEW m \in Meter, NEW t \in SourcesOf(m)
      PROVE  claimed[m] + moved'[t] <= carried'[m]
  BY <1>3, <1>4 DEF TrafficInv
<1>7. \A m \in Meter : claimed[m] <= carried'[m]
  BY <1>4 DEF TrafficInv
<1>8. RateIsReal'
  BY <1>1 DEF TrafficInv, RateIsReal
<1> QED
  BY <1>1, <1>2, <1>5, <1>6, <1>7, <1>8 DEF TrafficInv

LEMMA PlugStep ==
  ASSUME TrafficInv, NEW s \in Source, Plug(s), now' = now PROVE TrafficInv'
<1> USE MeterFacts
<1>1. /\ count' = [count EXCEPT ![s] = 0] /\ reset' = reset \cup {s}
      /\ UNCHANGED <<seen, rate, moved, carried, claimed>> /\ present' \subseteq Source
  BY DEF Plug, TrafficInv
<1>2. \A t \in Source : count'[t] = IF t = s THEN 0 ELSE count[t]
  BY <1>1 DEF TrafficInv
<1>3. ASSUME NEW m \in Meter, seen[m] # None
      PROVE  LET t == seen[m].source IN
             /\ count'[t] - seen[m].count <= moved[t]
             /\ t \notin reset' => count'[t] - seen[m].count = moved[t]
  <2>1. seen[m].source \in Source /\ seen[m].count \in Nat
    BY <1>3 DEF TrafficInv, Reading
  <2> QED
    BY <1>1, <1>2, <1>3, <2>1 DEF TrafficInv
<1>4. RateIsReal'
  BY <1>1 DEF TrafficInv, RateIsReal
<1>5. count' \in [Source -> Nat]
  BY <1>1 DEF TrafficInv
<1> QED
  BY <1>1, <1>3, <1>4, <1>5 DEF TrafficInv

\* A meter that notes a reading claims at most what the source has carried.
LEMMA NotesStep ==
  ASSUME TrafficInv, NEW m \in Meter, NEW s \in SourcesOf(m), Notes(m, s), now' = now,
         rate' \in [Meter -> Rate \cup {None}], RateIsReal',
         claimed' \in [Meter -> Nat], claimed'[m] <= claimed[m] + moved[s],
         \A o \in Meter \ {m} : claimed'[o] = claimed[o]
  PROVE  TrafficInv'
<1> USE MeterFacts
<1>1. s \in Source /\ UNCHANGED <<count, present, carried>>
  BY DEF Notes
<1>2. seen' = [seen EXCEPT ![m] = [source |-> s, count |-> count[s], at |-> now]]
  BY DEF Notes, Noted
<1>3. /\ moved' = [t \in Source |-> IF t \in SourcesOf(m) THEN 0 ELSE moved[t]]
      /\ reset' = reset \ SourcesOf(m)
  BY DEF Notes
<1>4. /\ moved' \in [Source -> Nat] /\ reset' \subseteq Source
      /\ \A t \in SourcesOf(m) : moved'[t] = 0 /\ t \notin reset'
      /\ \A t \in Source : t \notin SourcesOf(m) =>
           moved'[t] = moved[t] /\ (t \in reset' <=> t \in reset)
  BY <1>3 DEF TrafficInv
<1>5. /\ seen' \in [Meter -> Reading \cup {None}]
       /\ seen'[m].source = s /\ seen'[m].count = count[s]
       /\ \A o \in Meter \ {m} : seen'[o] = seen[o]
  BY <1>1, <1>2 DEF TrafficInv, Reading
<1>6. \A o \in Meter \ {m} : SourcesOf(o) \cap SourcesOf(m) = {}
  OBVIOUS
<1>7. ASSUME NEW o \in Meter, seen'[o] # None
       PROVE  LET t == seen'[o].source IN
              /\ t \in SourcesOf(o) /\ seen'[o].count >= 0
              /\ count[t] - seen'[o].count <= moved'[t]
              /\ t \notin reset' => count[t] - seen'[o].count = moved'[t]
  <2>1. CASE o = m
    BY <1>1, <1>4, <1>5, <2>1 DEF TrafficInv
  <2>2. CASE o # m
    <3>1. seen'[o] = seen[o] /\ seen[o] # None
      BY <1>5, <1>7, <2>2
    <3>2. seen[o].source \in SourcesOf(o) /\ seen[o].source \notin SourcesOf(m)
      BY <1>6, <2>2, <3>1 DEF TrafficInv
    <3>3. LET t == seen[o].source IN moved'[t] = moved[t] /\ (t \in reset' <=> t \in reset)
      BY <1>4, <3>2
    <3> QED
      BY <3>1, <3>3 DEF TrafficInv
  <2> QED
    BY <2>1, <2>2
<1>8. ASSUME NEW o \in Meter, NEW t \in SourcesOf(o) PROVE claimed'[o] + moved'[t] <= carried[o]
  <2>1. t \in Source /\ moved[t] \in Nat /\ carried[o] \in Nat
        /\ claimed[o] + moved[t] <= carried[o]
    BY DEF TrafficInv
  <2>2. CASE o = m
    <3>1. claimed[m] + moved[s] <= carried[m]
      BY DEF TrafficInv
    <3>2. claimed[m] \in Nat /\ moved[s] \in Nat /\ carried[m] \in Nat /\ claimed'[m] \in Nat
      BY <1>1 DEF TrafficInv
    <3> QED
      BY <1>4, <2>2, <3>1, <3>2
  <2>3. CASE o # m
    <3>1. moved'[t] = moved[t]
      BY <1>4, <1>6, <2>1, <2>3
    <3> QED
      BY <2>1, <2>3, <3>1
  <2> QED
    BY <2>2, <2>3
<1>9. \A o \in Meter : claimed'[o] <= carried[o]
  <2>1. claimed'[m] + moved'[s] <= carried[m] /\ moved'[s] = 0 /\ claimed'[m] \in Nat
    BY <1>4, <1>8
  <2> QED
    BY <2>1 DEF TrafficInv
<1> QED
  BY <1>1, <1>4, <1>5, <1>7, <1>8, <1>9 DEF TrafficInv

LEMMA LookStep ==
  ASSUME TrafficInv, NEW m \in Meter, NEW s \in SourcesOf(m), Look(m, s), now' = now
  PROVE  TrafficInv'
<1> USE MeterFacts
<1>1. s \in Source /\ Notes(m, s)
  BY DEF Look
<1> DEFINE known == SameSource(seen[m], s) /\ now > seen[m].at
           amount == Amount(m, s)
<1>2. ASSUME known
      PROVE  /\ amount \in Nat /\ amount <= moved[s] /\ now - seen[m].at > 0
             /\ now - seen[m].at \in Int
             /\ s \notin reset => amount = moved[s]
  <2>1. seen[m] \in Reading /\ seen[m].source = s
    BY <1>2 DEF SameSource, TrafficInv
  <2>2. /\ seen[m].count \in Nat /\ seen[m].at \in Nat /\ count[s] \in Nat /\ moved[s] \in Nat
        /\ count[s] - seen[m].count <= moved[s]
        /\ s \notin reset => count[s] - seen[m].count = moved[s]
    BY <1>1, <1>2, <2>1 DEF SameSource, TrafficInv, Reading
  <2> QED
    BY <1>2, <2>2 DEF Amount, AtLeast, TrafficInv
<1>3. rate' = [rate EXCEPT ![m] =
        IF known
        THEN [source |-> s, amount |-> amount, elapsed |-> now - seen[m].at,
              real |-> moved[s], exact |-> s \notin reset]
        ELSE None]
  BY DEF Look
<1>4. claimed' = [claimed EXCEPT ![m] = IF rate'[m] = None THEN @ ELSE @ + rate'[m].amount]
  BY DEF Look
<1>5. /\ rate' \in [Meter -> Rate \cup {None}]
      /\ rate'[m] # None => rate'[m].amount \in Nat /\ rate'[m].amount <= moved[s]
      /\ RateIsReal'
  <2> HIDE DEF known, amount
  <2>1. CASE known
    <3> DEFINE new == [source |-> s, amount |-> amount, elapsed |-> now - seen[m].at,
                       real |-> moved[s], exact |-> s \notin reset]
    <3>1. rate' = [rate EXCEPT ![m] = new]
      BY <1>3, <2>1
    <3>2. /\ new \in Rate /\ new.amount = amount /\ new.real = moved[s]
          /\ new.elapsed = now - seen[m].at /\ new.exact = (s \notin reset)
      BY <1>1, <1>2, <2>1 DEF Rate, TrafficInv
    <3> HIDE DEF new
    <3>3. rate'[m] = new /\ \A o \in Meter \ {m} : rate'[o] = rate[o]
      BY <3>1 DEF TrafficInv
    <3>4. rate' \in [Meter -> Rate \cup {None}]
      BY <3>1, <3>2 DEF TrafficInv
    <3>5. RateIsReal'
      BY <1>2, <2>1, <3>2, <3>3 DEF TrafficInv, RateIsReal
    <3> QED
      BY <1>2, <2>1, <3>2, <3>3, <3>4, <3>5
  <2>2. CASE ~known
    <3>1. rate' = [rate EXCEPT ![m] = None]
      BY <1>3, <2>2
    <3>2. rate'[m] = None /\ \A o \in Meter \ {m} : rate'[o] = rate[o]
      BY <3>1 DEF TrafficInv
    <3> QED
      BY <3>1, <3>2 DEF TrafficInv, RateIsReal
  <2> QED
    BY <2>1, <2>2
<1> HIDE DEF known, amount
<1>6. /\ claimed' \in [Meter -> Nat] /\ claimed'[m] <= claimed[m] + moved[s]
      /\ \A o \in Meter \ {m} : claimed'[o] = claimed[o]
  <2>1. claimed[m] \in Nat /\ moved[s] \in Nat
    BY <1>1 DEF TrafficInv
  <2> DEFINE total == IF rate'[m] = None THEN claimed[m] ELSE claimed[m] + rate'[m].amount
  <2>2. total \in Nat /\ total <= claimed[m] + moved[s]
    BY <1>5, <2>1
  <2>3. claimed' = [claimed EXCEPT ![m] = total]
    BY <1>4
  <2> HIDE DEF total
  <2> QED
    BY <2>2, <2>3 DEF TrafficInv
<1> QED
  BY <1>1, <1>5, <1>6, NotesStep

LEMMA TrafficStep == TrafficInv /\ [RatesNext]_ratesVars => TrafficInv'
<1> SUFFICES ASSUME TrafficInv, [RatesNext]_ratesVars PROVE TrafficInv'
  OBVIOUS
<1>1. CASE UNCHANGED traffic /\ now' \in Nat
  BY <1>1 DEF traffic, TrafficInv, RateIsReal
<1>2. ASSUME NEW m \in Meter, TrafficNext(m) PROVE TrafficInv'
  <2>1. now' = now
    BY <1>2 DEF TrafficNext
  <2>2. ASSUME NEW s \in SourcesOf(m), Carry(s) \/ Plug(s) PROVE TrafficInv'
    BY <2>1, <2>2, CarryStep, PlugStep, MeterFacts
  <2>3. ASSUME NEW k \in Meter, NEW s \in SourcesOf(k), Look(k, s) PROVE TrafficInv'
    BY <2>1, <2>3, LookStep
  <2>4. ASSUME NEW k \in Meter, LookFails(k) PROVE TrafficInv'
    <3>1. rate' = [rate EXCEPT ![k] = None] /\ claimed' = claimed
      BY <2>4 DEF LookFails
    <3>2. rate'[k] = None /\ \A o \in Meter \ {k} : rate'[o] = rate[o]
      BY <3>1 DEF TrafficInv
    <3>3. RateIsReal' /\ rate' \in [Meter -> Rate \cup {None}]
      BY <3>1, <3>2 DEF RateIsReal, TrafficInv
    <3>4. CASE UNCHANGED <<count, present, seen, moved, reset, carried>>
      BY <2>1, <3>1, <3>3, <3>4 DEF TrafficInv
    <3>5. ASSUME NEW s \in SourcesOf(k), Notes(k, s) PROVE TrafficInv'
      <4>1. s \in Source
        BY MeterFacts
      <4>2. /\ claimed \in [Meter -> Nat] /\ moved[s] \in Nat
            /\ claimed'[k] <= claimed[k] + moved[s]
        BY <3>1, <4>1 DEF TrafficInv
      <4> QED
        BY <2>1, <3>1, <3>3, <3>5, <4>2, NotesStep
    <3> QED
      BY <2>4, <3>4, <3>5 DEF LookFails, SourcesOf
  <2> QED
    BY <1>2, <2>2, <2>3, <2>4
    DEF TrafficNext, NetworkMetrics, StorageMetrics, Meter, SourcesOf
<1>3. now \in Nat
  BY DEF TrafficInv
<1> QED
  BY <1>1, <1>2, <1>3 DEF RatesNext, Tick, ProcessorNext, PackagesNext, ratesVars

\* A rate is what its source has carried, or less if its counter began again.
THEOREM RatesAreReal == RatesSpec => []RateIsReal
<1>1. TrafficInv => RateIsReal
  BY DEF TrafficInv
<1> QED
  BY <1>1, TrafficInvInit, TrafficStep, PTL DEF RatesSpec

\* No byte is reported twice.
THEOREM BytesCountOnce == RatesSpec => []NothingCountedTwice
<1>1. TrafficInv => NothingCountedTwice
  BY DEF TrafficInv, NothingCountedTwice
<1> QED
  BY <1>1, TrafficInvInit, TrafficStep, PTL DEF RatesSpec

------------------------------------------------------------------------------
\* The fields have grown by what was spent since the last reading; a guest works.
ProcessorInv ==
  /\ stat \in Fields /\ spent \in Spent
  /\ spent.busy <= spent.all /\ spent.guest <= spent.busy
  /\ cpu # None =>
       /\ cpu.idle \in Int /\ cpu.total \in Int
       /\ Idle - cpu.idle = spent.all - spent.busy - spent.back
       /\ Total - cpu.total = spent.all + spent.guest - spent.back
  /\ UsageIsHonest

\* Work that is counted twice makes the usage larger, and so does waiting taken back.
LEMMA WorkIsCounted ==
  ASSUME NEW a \in Nat, NEW b \in Nat, NEW g \in Nat, NEW k \in Nat, b <= a
  PROVE  /\ (b + g) * a >= b * (a + g - k)
         /\ k = 0 /\ g = 0 => (b + g) * a = b * (a + g - k)
<1>1. g * a >= g * b
  <2>1. PICK d \in Nat : a = b + d
    BY a - b \in Nat, a = b + (a - b)
  <2>2. g * a = g * b + g * d
    BY <2>1
  <2>3. g * d \in Nat /\ g * b \in Nat
    BY <2>1
  <2> QED
    BY <2>2, <2>3
<1>2. b * k \in Nat
  OBVIOUS
<1>3. (b + g) * a = b * a + g * a
  OBVIOUS
<1>4. b * (a + g - k) = b * a + g * b - b * k
  OBVIOUS
<1>5. b * a \in Int /\ g * a \in Int /\ g * b \in Int
  OBVIOUS
<1> QED
  BY <1>1, <1>2, <1>3, <1>4, <1>5

LEMMA ProcessorInvInit == RatesInit => ProcessorInv
  BY DEF RatesInit, ProcessorInit, ProcessorInv, NoneSpent, Fields, Spent, UsageIsHonest

LEMMA SpendsStep == ASSUME ProcessorInv, Spends PROVE ProcessorInv'
<1>1. PICK kind \in {"idle", "iowait", "busy", "guest"} :
        LET one(kinds) == IF kind \in kinds THEN 1 ELSE 0
        IN  /\ stat' = [idle   |-> stat.idle + one({"idle"}),
                        iowait |-> stat.iowait + one({"iowait"}),
                        busy   |-> stat.busy + one({"busy", "guest"}),
                        guest  |-> stat.guest + one({"guest"})]
            /\ spent' = [all   |-> spent.all + 1,
                         busy  |-> spent.busy + one({"busy", "guest"}),
                         guest |-> spent.guest + one({"guest"}),
                         back  |-> spent.back]
  BY DEF Spends
<1>2. cpu' = cpu /\ usage' = usage
  BY DEF Spends
<1> DEFINE plus(K) == IF kind \in K THEN 1 ELSE 0
<1>3. /\ stat.idle \in Int /\ stat.iowait \in Int /\ stat.busy \in Int /\ stat.guest \in Int
      /\ spent.all \in Nat /\ spent.busy \in Nat /\ spent.guest \in Nat /\ spent.back \in Nat
  BY DEF ProcessorInv, Fields, Spent
<1>4. /\ spent' \in Spent /\ spent'.all = spent.all + 1 /\ spent'.back = spent.back
      /\ spent'.busy = spent.busy + plus({"busy", "guest"})
      /\ spent'.guest = spent.guest + plus({"guest"})
  BY <1>1, <1>3 DEF Spent
<1>5. /\ stat' \in Fields
      /\ stat'.idle = stat.idle + plus({"idle"})
      /\ stat'.iowait = stat.iowait + plus({"iowait"})
      /\ stat'.busy = stat.busy + plus({"busy", "guest"})
      /\ stat'.guest = stat.guest + plus({"guest"})
  BY <1>1, <1>3 DEF Fields
<1>6. /\ Idle' = Idle + plus({"idle", "iowait"}) /\ Total' = Total + 1 + plus({"guest"})
      /\ Idle \in Int /\ Total \in Int
  BY <1>3, <1>5 DEF Idle, Total
<1>7. UsageIsHonest'
  BY <1>2 DEF ProcessorInv, UsageIsHonest
<1>8. spent'.busy <= spent'.all /\ spent'.guest <= spent'.busy
  BY <1>3, <1>4 DEF ProcessorInv
<1>9. ASSUME cpu # None
      PROVE  /\ cpu.idle \in Int /\ cpu.total \in Int
             /\ Idle' - cpu.idle = spent'.all - spent'.busy - spent'.back
             /\ Total' - cpu.total = spent'.all + spent'.guest - spent'.back
  <2>1. /\ cpu.idle \in Int /\ cpu.total \in Int
        /\ Idle - cpu.idle = spent.all - spent.busy - spent.back
        /\ Total - cpu.total = spent.all + spent.guest - spent.back
    BY <1>9 DEF ProcessorInv
  <2>2. plus({"idle", "iowait"}) = 1 - plus({"busy", "guest"})
    OBVIOUS
  <2>3. plus({"busy", "guest"}) \in Int /\ plus({"guest"}) \in Int
    OBVIOUS
  <2> HIDE DEF plus
  <2> QED
    BY <1>3, <1>4, <1>6, <2>1, <2>2, <2>3
<1> QED
  BY <1>2, <1>4, <1>5, <1>7, <1>8, <1>9 DEF ProcessorInv

LEMMA CpuUsageStep == ASSUME ProcessorInv, CpuUsage PROVE ProcessorInv'
<1>1. /\ cpu' = [idle |-> Idle, total |-> Total] /\ spent' = NoneSpent /\ stat' = stat
      /\ usage' = IF cpu = None \/ Total <= cpu.total THEN None ELSE Usage(cpu)
  BY DEF CpuUsage
<1>2. Idle \in Int /\ Total \in Int /\ Idle' = Idle /\ Total' = Total
  BY <1>1 DEF ProcessorInv, Fields, Idle, Total
<1>3. /\ spent.all \in Nat /\ spent.busy \in Nat /\ spent.guest \in Nat /\ spent.back \in Nat
      /\ spent.busy <= spent.all /\ spent.guest <= spent.busy
  BY DEF ProcessorInv, Spent
<1>4. UsageIsHonest'
  <2>1. CASE cpu = None \/ Total <= cpu.total
    BY <1>1, <2>1 DEF UsageIsHonest
  <2>2. CASE ~(cpu = None \/ Total <= cpu.total)
    <3>1. /\ usage'.busy = Total - cpu.total - (Idle - cpu.idle)
          /\ usage'.all = Total - cpu.total /\ usage'.real = spent
      BY <1>1, <2>2 DEF Usage
    <3>2. /\ usage'.busy = spent.busy + spent.guest
          /\ usage'.all = spent.all + spent.guest - spent.back
          /\ usage'.all > 0
      BY <1>2, <1>3, <2>2, <3>1 DEF ProcessorInv
    <3>3. /\ usage'.busy * spent.all >= spent.busy * usage'.all
          /\ spent.back = 0 /\ spent.guest = 0 =>
               usage'.busy * spent.all = spent.busy * usage'.all
      BY <1>3, <3>2, WorkIsCounted
    <3>4. 0 <= usage'.busy /\ usage'.busy <= usage'.all + spent.back
      BY <1>3, <3>2
    <3> QED
      BY <3>1, <3>2, <3>3, <3>4 DEF UsageIsHonest
  <2> QED
    BY <2>1, <2>2
<1>5. spent' \in Spent /\ spent'.all = 0 /\ spent'.busy = 0 /\ spent'.guest = 0 /\ spent'.back = 0
  BY <1>1 DEF NoneSpent, Spent
<1>6. cpu'.idle = Idle /\ cpu'.total = Total
  BY <1>1
<1> QED
  BY <1>1, <1>2, <1>4, <1>5, <1>6 DEF ProcessorInv

LEMMA ProcessorStep == ProcessorInv /\ [RatesNext]_ratesVars => ProcessorInv'
<1> SUFFICES ASSUME ProcessorInv, [RatesNext]_ratesVars PROVE ProcessorInv'
  OBVIOUS
<1>1. CASE UNCHANGED processor
  BY <1>1 DEF processor, ProcessorInv, Idle, Total, UsageIsHonest
<1>2. CASE IowaitGoesBack
  <2>1. /\ stat' = [stat EXCEPT !.iowait = @ - 1] /\ spent' = [spent EXCEPT !.back = @ + 1]
        /\ UNCHANGED <<cpu, usage>>
    BY <1>2 DEF IowaitGoesBack
  <2>2. /\ stat' \in Fields /\ stat'.iowait = stat.iowait - 1 /\ stat'.idle = stat.idle
        /\ stat'.busy = stat.busy /\ stat'.guest = stat.guest
    BY <2>1 DEF ProcessorInv, Fields
  <2>3. /\ spent' \in Spent /\ spent'.back = spent.back + 1 /\ spent'.all = spent.all
        /\ spent'.busy = spent.busy /\ spent'.guest = spent.guest
        /\ spent.all \in Nat /\ spent.busy \in Nat /\ spent.guest \in Nat /\ spent.back \in Nat
    BY <2>1 DEF ProcessorInv, Spent
  <2>4. Idle' = Idle - 1 /\ Total' = Total - 1 /\ Idle \in Int /\ Total \in Int
    BY <2>2 DEF ProcessorInv, Fields, Idle, Total
  <2>5. UsageIsHonest'
    BY <2>1 DEF ProcessorInv, UsageIsHonest
  <2>6. ASSUME cpu # None
        PROVE  /\ cpu.idle \in Int /\ cpu.total \in Int
               /\ Idle' - cpu.idle = spent'.all - spent'.busy - spent'.back
               /\ Total' - cpu.total = spent'.all + spent'.guest - spent'.back
    <3>1. /\ cpu.idle \in Int /\ cpu.total \in Int
          /\ Idle - cpu.idle = spent.all - spent.busy - spent.back
          /\ Total - cpu.total = spent.all + spent.guest - spent.back
      BY <2>6 DEF ProcessorInv
    <3>2. /\ spent.all \in Int /\ spent.busy \in Int /\ spent.guest \in Int /\ spent.back \in Int
          /\ spent'.all = spent.all /\ spent'.busy = spent.busy /\ spent'.guest = spent.guest
          /\ spent'.back = spent.back + 1
      BY <2>3
    <3>3. Idle' - cpu.idle = spent'.all - spent'.busy - spent'.back
      BY <2>4, <3>1, <3>2
    <3>4. Total' - cpu.total = spent'.all + spent'.guest - spent'.back
      BY <2>4, <3>1, <3>2
    <3> QED
      BY <3>1, <3>3, <3>4
  <2>7. spent'.busy <= spent'.all /\ spent'.guest <= spent'.busy
    BY <2>3 DEF ProcessorInv
  <2> QED
    BY <2>1, <2>2, <2>3, <2>5, <2>6, <2>7 DEF ProcessorInv
<1>3. CASE CpuUsageFails
  <2>1. usage' = None /\ stat' = stat /\ cpu' = cpu /\ spent' = spent
    BY <1>3 DEF CpuUsageFails
  <2> QED
    BY <2>1 DEF ProcessorInv, Idle, Total, UsageIsHonest
<1> QED
  BY <1>1, <1>2, <1>3, SpendsStep, CpuUsageStep
  DEF RatesNext, Tick, TrafficNext, ProcessorNext, PackagesNext, ratesVars

\* The usage is never less than the part of the time in which the processor worked, and
\* above the whole by no more than what the kernel took back.
THEOREM UsageStaysHonest == RatesSpec => []UsageIsHonest
<1>1. ProcessorInv => UsageIsHonest
  BY DEF ProcessorInv
<1> QED
  BY <1>1, ProcessorInvInit, ProcessorStep, PTL DEF RatesSpec

------------------------------------------------------------------------------
(* Sums over finite sets *)

\* Of some subsets of a finite set, one has none of the others inside.
LEMMA MinimalSubset ==
  ASSUME NEW P, IsFiniteSet(P), NEW T, T \subseteq SUBSET P, T # {}
  PROVE  \E s \in T : \A t \in T : ~(t \subseteq s /\ t # s)
<1>1. IsWellFoundedOn(StrictSubsetOrdering(P), SUBSET P)
  BY FS_StrictSubsetOrderingWellFounded, FS_FiniteSubsetsOfFinite
<1>2. PICK s \in T : \A t \in T : ~(<<t, s>> \in StrictSubsetOrdering(P))
  BY <1>1, WFMin
<1> QED
  BY <1>2 DEF StrictSubsetOrdering

\* What holds of the empty set, and of a set when it holds of that set without any one
\* of its elements, holds of every subset of a finite set: otherwise some smallest set
\* would be an exception.
LEMMA SubsetInduction ==
  ASSUME NEW P, IsFiniteSet(P), NEW Q, {} \in Q,
         \A s \in SUBSET P : s # {} /\ (\A y \in s : s \ {y} \in Q) => s \in Q
  PROVE  SUBSET P \subseteq Q
<1> DEFINE T == (SUBSET P) \ Q
<1> SUFFICES ASSUME T # {} PROVE FALSE
  OBVIOUS
<1>1. PICK s \in T : \A t \in T : ~(t \subseteq s /\ t # s)
  <2>1. T \subseteq SUBSET P
    OBVIOUS
  <2> HIDE DEF T
  <2> QED
    BY <2>1, MinimalSubset
<1>2. \A y \in s : s \ {y} \in Q
  <2> SUFFICES ASSUME NEW y \in s, s \ {y} \notin Q PROVE FALSE
    OBVIOUS
  <2>1. s \ {y} \in T /\ s \ {y} \subseteq s /\ s \ {y} # s
    OBVIOUS
  <2> QED
    BY <2>1, <1>1
<1>3. s \in SUBSET P /\ s \notin Q /\ s # {}
  BY <1>1
<1> QED
  BY <1>2, <1>3

\* F adds up w over each subset of A, in the order in which elements are chosen
Adds(F, w, A) ==
  F = [s \in SUBSET A |-> IF s = {} THEN 0 ELSE LET x == CHOOSE x \in s : TRUE IN w[x] + F[s \ {x}]]

SumOf(w, S) == (CHOOSE F : Adds(F, w, S))[S]

LEMMA SumIsSumOf == ASSUME NEW w PROVE Sum(w) = SumOf(w, Package)
  BY DEF Sum, MapThenSumSet, MapThenFoldSet, SumOf, Adds

LEMMA RangesAreSumOf == ASSUME NEW S PROVE RangesOf(S) = SumOf(EnergyRange, S)
  BY DEF RangesOf, MapThenSumSet, MapThenFoldSet, SumOf, Adds

\* one step of the sum
Choice(s) == CHOOSE x \in s : TRUE

LEMMA AddsStep ==
  ASSUME NEW F, NEW w, NEW A, Adds(F, w, A)
  PROVE  /\ F[{}] = 0
         /\ \A s \in SUBSET A : s # {} =>
              Choice(s) \in s /\ F[s] = w[Choice(s)] + F[s \ {Choice(s)}]
<1>1. \A s \in SUBSET A :
        F[s] = IF s = {} THEN 0 ELSE LET x == CHOOSE x \in s : TRUE IN w[x] + F[s \ {x}]
  BY DEF Adds
<1>2. \A s : s # {} => Choice(s) \in s
  BY DEF Choice
<1> QED
  BY <1>1, <1>2 DEF Choice

\* Two such functions agree where both are defined.
LEMMA AddsAgree ==
  ASSUME NEW w, NEW A, IsFiniteSet(A), NEW B,
         NEW F, Adds(F, w, A), NEW G, Adds(G, w, B)
  PROVE  \A s \in SUBSET (A \cap B) : F[s] = G[s]
<1> DEFINE C == A \cap B
           Q == {s \in SUBSET C : F[s] = G[s]}
<1>1. /\ F[{}] = 0
      /\ \A s \in SUBSET A : s # {} =>
           Choice(s) \in s /\ F[s] = w[Choice(s)] + F[s \ {Choice(s)}]
  BY AddsStep
<1>2. /\ G[{}] = 0
      /\ \A s \in SUBSET B : s # {} =>
           Choice(s) \in s /\ G[s] = w[Choice(s)] + G[s \ {Choice(s)}]
  BY AddsStep
<1>3. {} \in Q
  BY <1>1, <1>2
<1>4. ASSUME NEW s \in SUBSET C, s # {}, \A y \in s : s \ {y} \in Q PROVE s \in Q
  <2>1. Choice(s) \in s /\ s \in SUBSET A /\ s \in SUBSET B
    BY <1>1, <1>4
  <2>2. F[s \ {Choice(s)}] = G[s \ {Choice(s)}]
    BY <1>4, <2>1
  <2>3. F[s] = w[Choice(s)] + F[s \ {Choice(s)}] /\ G[s] = w[Choice(s)] + G[s \ {Choice(s)}]
    BY <1>1, <1>2, <1>4, <2>1
  <2> QED
    BY <2>2, <2>3
<1>5. IsFiniteSet(C)
  BY FS_Subset
<1> HIDE DEF Q, C
<1>6. SUBSET C \subseteq Q
  BY <1>3, <1>4, <1>5, SubsetInduction
<1> QED
  BY <1>6 DEF Q, C

\* There is one for every finite set.
LEMMA AddsExist ==
  ASSUME NEW w, NEW P, IsFiniteSet(P)
  PROVE  \E F : Adds(F, w, P)
<1> DEFINE Q == {s \in SUBSET P : \E F : Adds(F, w, s)}
<1>1. {} \in Q
  <2> DEFINE F == [s \in SUBSET {} |-> 0]
  <2>1. \A s \in SUBSET {} : s = {}
    OBVIOUS
  <2>2. Adds(F, w, {})
    BY <2>1 DEF Adds
  <2> QED
    BY <2>2
<1>2. ASSUME NEW s \in SUBSET P, s # {}, \A y \in s : s \ {y} \in Q PROVE s \in Q
  <2> DEFINE G(y) == CHOOSE F : Adds(F, w, s \ {y})
             Of(t) == IF t = {} THEN 0 ELSE w[Choice(t)] + G(Choice(t))[t \ {Choice(t)}]
             F == [t \in SUBSET s |-> Of(t)]
  <2>1. ASSUME NEW y \in s PROVE Adds(G(y), w, s \ {y})
    BY <1>2
  <2> HIDE DEF G
  <2>2. IsFiniteSet(s)
    BY FS_Subset
  <2>3. ASSUME NEW y \in s, NEW z \in s, NEW t \in SUBSET (s \ {y, z})
        PROVE  G(y)[t] = G(z)[t]
    <3> DEFINE A == s \ {y}
               B == s \ {z}
               F1 == G(y)
               F2 == G(z)
    <3>1. Adds(F1, w, A) /\ Adds(F2, w, B) /\ IsFiniteSet(A)
      BY <2>1, <2>2, FS_Subset
    <3>2. t \in SUBSET (A \cap B)
      OBVIOUS
    <3> HIDE DEF A, B, F1, F2
    <3>3. F1[t] = F2[t]
      BY <3>1, <3>2, AddsAgree
    <3> QED
      BY <3>3 DEF F1, F2
  <2>4. \A t \in SUBSET s : t # {} => Choice(t) \in t
    BY DEF Choice
  \* what F gives for a set without one of its elements is what that element's G gives
  <2>5. ASSUME NEW y \in s, NEW t \in SUBSET (s \ {y}) PROVE Of(t) = G(y)[t]
    <3>1. Adds(G(y), w, s \ {y})
      BY <2>1
    <3>4. /\ G(y)[{}] = 0
          /\ \A u \in SUBSET (s \ {y}) : u # {} =>
               Choice(u) \in u /\ G(y)[u] = w[Choice(u)] + G(y)[u \ {Choice(u)}]
      BY <3>1, AddsStep
    <3>2. CASE t = {}
      BY <3>4, <3>2
    <3>3. CASE t # {}
      <4> DEFINE z == Choice(t)
      <4>1. z \in t /\ z \in s
        BY <2>4, <3>3
      <4>2. G(y)[t] = w[z] + G(y)[t \ {z}]
        BY <3>4, <3>3
      <4>3. t \ {z} \in SUBSET (s \ {y, z})
        OBVIOUS
      <4>4. G(y)[t \ {z}] = G(z)[t \ {z}]
        BY <2>3, <4>1, <4>3
      <4> QED
        BY <3>3, <4>2, <4>4
    <3> QED
      BY <3>2, <3>3
  <2>6. \A t \in SUBSET s : t # {} => G(Choice(t))[t \ {Choice(t)}] = F[t \ {Choice(t)}]
    <3> SUFFICES ASSUME NEW t \in SUBSET s, t # {}
                 PROVE  G(Choice(t))[t \ {Choice(t)}] = F[t \ {Choice(t)}]
      OBVIOUS
    <3>1. Choice(t) \in s /\ t \ {Choice(t)} \in SUBSET (s \ {Choice(t)})
      BY <2>4
    <3>2. Of(t \ {Choice(t)}) = G(Choice(t))[t \ {Choice(t)}]
      BY <2>5, <3>1
    <3>3. F[t \ {Choice(t)}] = Of(t \ {Choice(t)})
      OBVIOUS
    <3> QED
      BY <3>2, <3>3
  <2>7. F = [t \in SUBSET s |-> IF t = {} THEN 0 ELSE w[Choice(t)] + F[t \ {Choice(t)}]]
    <3> DEFINE H == [t \in SUBSET s |-> IF t = {} THEN 0 ELSE w[Choice(t)] + F[t \ {Choice(t)}]]
    <3>1. \A t \in SUBSET s : F[t] = H[t]
      BY <2>6
    <3> QED
      BY <3>1
  <2>8. Adds(F, w, s)
    BY <2>7 DEF Adds, Choice
  <2> QED
    BY <2>8
<1> HIDE DEF Q
<1>3. SUBSET P \subseteq Q
  BY <1>1, <1>2, SubsetInduction
<1> QED
  BY <1>3 DEF Q

LEMMA SumStep ==
  ASSUME NEW w, NEW P, IsFiniteSet(P)
  PROVE  /\ SumOf(w, {}) = 0
         /\ \A s \in SUBSET P : s # {} =>
              Choice(s) \in s /\ SumOf(w, s) = w[Choice(s)] + SumOf(w, s \ {Choice(s)})
<1>1. ASSUME NEW s \in SUBSET P
      PROVE  \E F : Adds(F, w, s) /\ SumOf(w, s) = F[s]
  <2>1. IsFiniteSet(s)
    BY FS_Subset
  <2> DEFINE F == CHOOSE F : Adds(F, w, s)
  <2>2. Adds(F, w, s)
    BY <2>1, AddsExist
  <2> QED
    BY <2>2 DEF SumOf
<1>2. SumOf(w, {}) = 0
  <2>1. PICK F : Adds(F, w, {}) /\ SumOf(w, {}) = F[{}]
    BY <1>1
  <2> QED
    BY <2>1, AddsStep
<1>3. ASSUME NEW s \in SUBSET P, s # {}
      PROVE  Choice(s) \in s /\ SumOf(w, s) = w[Choice(s)] + SumOf(w, s \ {Choice(s)})
  <2> DEFINE t == s \ {Choice(s)}
  <2>1. PICK F : Adds(F, w, s) /\ SumOf(w, s) = F[s]
    BY <1>1
  <2>2. PICK G : Adds(G, w, t) /\ SumOf(w, t) = G[t]
    BY <1>1
  <2>3. Choice(s) \in s /\ F[s] = w[Choice(s)] + F[t]
    BY <1>3, <2>1, AddsStep
  <2>4. IsFiniteSet(t) /\ t \in SUBSET (t \cap s)
    BY FS_Subset
  <2> HIDE DEF t
  <2>5. G[t] = F[t]
    BY <2>1, <2>2, <2>4, AddsAgree
  <2> QED
    BY <2>1, <2>2, <2>3, <2>5 DEF t
<1> QED
  BY <1>2, <1>3

Weight == [Package -> Int]

LEMMA SumInt ==
  ASSUME NEW w \in Weight PROVE \A s \in SUBSET Package : SumOf(w, s) \in Int
<1> DEFINE Q == {s \in SUBSET Package : SumOf(w, s) \in Int}
<1>1. IsFiniteSet(Package)
  BY RatesAssumption
<1>2. {} \in Q
  <2>1. SumOf(w, {}) = 0
    BY <1>1, SumStep
  <2> QED
    BY <2>1
<1>3. ASSUME NEW s \in SUBSET Package, s # {}, \A y \in s : s \ {y} \in Q PROVE s \in Q
  <2>1. Choice(s) \in s /\ SumOf(w, s) = w[Choice(s)] + SumOf(w, s \ {Choice(s)})
    BY <1>1, <1>3, SumStep
  <2>2. SumOf(w, s \ {Choice(s)}) \in Int /\ w[Choice(s)] \in Int
    BY <1>3, <2>1 DEF Weight
  <2> QED
    BY <2>1, <2>2
<1> HIDE DEF Q
<1>4. SUBSET Package \subseteq Q
  BY <1>1, <1>2, <1>3, SubsetInduction
<1> QED
  BY <1>4 DEF Q

\* Any element may be taken out first.
LEMMA SumPeel ==
  ASSUME NEW w \in Weight
  PROVE  \A s \in SUBSET Package : \A y \in s : SumOf(w, s) = w[y] + SumOf(w, s \ {y})
<1> DEFINE Peels(s) == \A y \in s : SumOf(w, s) = w[y] + SumOf(w, s \ {y})
           Q == {s \in SUBSET Package : Peels(s)}
<1>1. IsFiniteSet(Package)
  BY RatesAssumption
<1>2. \A s \in SUBSET Package : s # {} =>
        Choice(s) \in s /\ SumOf(w, s) = w[Choice(s)] + SumOf(w, s \ {Choice(s)})
  BY <1>1, SumStep
<1>3. {} \in Q
  OBVIOUS
<1>4. ASSUME NEW s \in SUBSET Package, s # {}, \A y \in s : s \ {y} \in Q PROVE s \in Q
  <2> SUFFICES ASSUME NEW y \in s PROVE SumOf(w, s) = w[y] + SumOf(w, s \ {y})
    OBVIOUS
  <2> DEFINE c == Choice(s)
             rest == (s \ {c}) \ {y}
  <2>1. c \in s /\ SumOf(w, s) = w[c] + SumOf(w, s \ {c})
    BY <1>4, <1>2
  <2>2. CASE y = c
    BY <2>1, <2>2
  <2>3. CASE y # c
    <3>1. SumOf(w, s \ {c}) = w[y] + SumOf(w, rest)
      BY <1>4, <2>1, <2>3
    <3>2. SumOf(w, s \ {y}) = w[c] + SumOf(w, (s \ {y}) \ {c})
      BY <1>4, <2>1, <2>3
    <3>3. (s \ {y}) \ {c} = rest
      OBVIOUS
    <3>4. SumOf(w, rest) \in Int /\ w[y] \in Int /\ w[c] \in Int
      BY <2>1, SumInt DEF Weight
    <3>5. SumOf(w, s \ {y}) = w[c] + SumOf(w, rest)
      BY <3>2, <3>3
    <3> HIDE DEF rest, c
    <3> QED
      BY <2>1, <3>1, <3>4, <3>5
  <2> QED
    BY <2>2, <2>3
<1> HIDE DEF Q
<1>5. SUBSET Package \subseteq Q
  BY <1>1, <1>3, <1>4, SubsetInduction
<1> QED
  BY <1>5 DEF Q

\* Smaller summands, smaller sum.
LEMMA SumMonotone ==
  ASSUME NEW u \in Weight, NEW v \in Weight, NEW S \in SUBSET Package,
         \A p \in S : u[p] <= v[p]
  PROVE  SumOf(u, S) <= SumOf(v, S)
<1> DEFINE Q == {s \in SUBSET S : SumOf(u, s) <= SumOf(v, s)}
<1>1. IsFiniteSet(S)
  BY RatesAssumption, FS_Subset
<1>2. {} \in Q
  BY <1>1, SumStep
<1>3. ASSUME NEW s \in SUBSET S, s # {}, \A y \in s : s \ {y} \in Q PROVE s \in Q
  <2>1. PICK y \in s : TRUE
    BY <1>3
  <2>2. SumOf(u, s) = u[y] + SumOf(u, s \ {y}) /\ SumOf(v, s) = v[y] + SumOf(v, s \ {y})
    BY SumPeel
  <2>3. /\ SumOf(u, s \ {y}) \in Int /\ SumOf(v, s \ {y}) \in Int
        /\ u[y] \in Int /\ v[y] \in Int
    BY SumInt DEF Weight
  <2>4. SumOf(u, s \ {y}) <= SumOf(v, s \ {y}) /\ u[y] <= v[y]
    BY <1>3
  <2>5. SumOf(u, s) <= SumOf(v, s)
    BY <2>2, <2>3, <2>4
  <2> QED
    BY <2>5
<1> HIDE DEF Q
<1>4. SUBSET S \subseteq Q
  BY <1>1, <1>2, <1>3, SubsetInduction
<1> QED
  BY <1>4 DEF Q

LEMMA SumSame ==
  ASSUME NEW u \in Weight, NEW v \in Weight, NEW S \in SUBSET Package,
         \A p \in S : u[p] = v[p]
  PROVE  SumOf(u, S) = SumOf(v, S)
<1>1. \A p \in S : u[p] <= v[p] /\ v[p] <= u[p]
  BY DEF Weight
<1>2. SumOf(u, S) <= SumOf(v, S)
  BY <1>1, SumMonotone
<1>3. SumOf(v, S) <= SumOf(u, S)
  BY <1>1, SumMonotone
<1> QED
  BY <1>2, <1>3, SumInt

LEMMA SumLess ==
  ASSUME NEW u \in Weight, NEW v \in Weight, NEW S \in SUBSET Package, S # {},
         \A p \in S : u[p] < v[p]
  PROVE  SumOf(u, S) < SumOf(v, S)
<1>1. PICK y \in S : TRUE
  OBVIOUS
<1>2. SumOf(u, S) = u[y] + SumOf(u, S \ {y}) /\ SumOf(v, S) = v[y] + SumOf(v, S \ {y})
  BY SumPeel
<1>3. S \ {y} \in SUBSET Package /\ \A p \in S \ {y} : u[p] <= v[p]
  BY DEF Weight
<1>4. SumOf(u, S \ {y}) <= SumOf(v, S \ {y})
  BY <1>3, SumMonotone
<1>5. /\ SumOf(u, S \ {y}) \in Int /\ SumOf(v, S \ {y}) \in Int
      /\ u[y] \in Int /\ v[y] \in Int /\ u[y] < v[y]
  BY SumInt DEF Weight
<1> QED
  BY <1>2, <1>4, <1>5

\* What is added up may be added up in two parts.
LEMMA SumSplit ==
  ASSUME NEW w \in Weight, NEW T \in SUBSET Package
  PROVE  \A S \in SUBSET T : SumOf(w, T) = SumOf(w, S) + SumOf(w, T \ S)
<1> DEFINE Q == {s \in SUBSET T : SumOf(w, T) = SumOf(w, s) + SumOf(w, T \ s)}
<1>1. IsFiniteSet(T)
  BY RatesAssumption, FS_Subset
<1>2. {} \in Q
  <2>1. SumOf(w, {}) = 0 /\ T \ {} = T /\ SumOf(w, T) \in Int
    BY <1>1, SumStep, SumInt
  <2> QED
    BY <2>1
<1>3. ASSUME NEW s \in SUBSET T, s # {}, \A y \in s : s \ {y} \in Q PROVE s \in Q
  <2>1. PICK y \in s : TRUE
    BY <1>3
  <2> DEFINE more == T \ (s \ {y})
  <2>2. SumOf(w, T) = SumOf(w, s \ {y}) + SumOf(w, more)
    BY <1>3
  <2>3. more \in SUBSET Package /\ y \in more /\ more \ {y} = T \ s
    OBVIOUS
  <2> HIDE DEF more
  <2>4. SumOf(w, more) = w[y] + SumOf(w, T \ s)
    BY <2>3, SumPeel
  <2>5. SumOf(w, s) = w[y] + SumOf(w, s \ {y})
    BY SumPeel
  <2>6. /\ SumOf(w, s \ {y}) \in Int /\ SumOf(w, T \ s) \in Int /\ w[y] \in Int
    BY SumInt DEF Weight
  <2>7. SumOf(w, T) = SumOf(w, s) + SumOf(w, T \ s)
    BY <2>2, <2>4, <2>5, <2>6
  <2> QED
    BY <2>7
<1> HIDE DEF Q
<1>4. SUBSET T \subseteq Q
  BY <1>1, <1>2, <1>3, SubsetInduction
<1> QED
  BY <1>4 DEF Q

LEMMA SumZero ==
  ASSUME NEW w \in Weight, NEW S \in SUBSET Package, \A p \in S : w[p] = 0
  PROVE  SumOf(w, S) = 0
<1> DEFINE Q == {s \in SUBSET S : SumOf(w, s) = 0}
<1>1. IsFiniteSet(S)
  BY RatesAssumption, FS_Subset
<1>2. {} \in Q
  BY <1>1, SumStep
<1>3. ASSUME NEW s \in SUBSET S, s # {}, \A y \in s : s \ {y} \in Q PROVE s \in Q
  <2>1. Choice(s) \in s /\ SumOf(w, s) = w[Choice(s)] + SumOf(w, s \ {Choice(s)})
    BY <1>1, <1>3, SumStep
  <2>2. SumOf(w, s \ {Choice(s)}) = 0 /\ w[Choice(s)] = 0
    BY <1>3, <2>1
  <2> QED
    BY <2>1, <2>2
<1> HIDE DEF Q
<1>4. SUBSET S \subseteq Q
  BY <1>1, <1>2, <1>3, SubsetInduction
<1> QED
  BY <1>4 DEF Q

\* Changing one summand changes the sum by as much.
LEMMA SumUpdate ==
  ASSUME NEW w \in Weight, NEW v \in Weight, NEW p \in Package,
         \A o \in Package \ {p} : v[o] = w[o]
  PROVE  SumOf(v, Package) = SumOf(w, Package) - w[p] + v[p]
<1>1. SumOf(v, Package \ {p}) = SumOf(w, Package \ {p})
  BY SumSame
<1>2. SumOf(v, Package) = v[p] + SumOf(v, Package \ {p})
  BY SumPeel
<1>3. SumOf(w, Package) = w[p] + SumOf(w, Package \ {p})
  BY SumPeel
<1>4. SumOf(w, Package \ {p}) \in Int /\ w[p] \in Int /\ v[p] \in Int
  BY SumInt DEF Weight
<1> QED
  BY <1>1, <1>2, <1>3, <1>4

------------------------------------------------------------------------------
\* What the counters show is what was drawn, without the ranges of those that wrapped
\* around; no counter wraps around twice between two readings.
PackagesInv ==
  /\ now \in Nat
  /\ energy \in [Package -> Nat] /\ drawn \in [Package -> Nat] /\ wrapped \subseteq Package
  /\ \A p \in Package : energy[p] < EnergyRange[p] /\ drawn[p] < EnergyRange[p]
  /\ \A p \in wrapped : energy[p] < drawn[p]
  /\ rapl # None =>
       /\ rapl.energy \in Int /\ rapl.at \in Int
       /\ Sum(energy) = rapl.energy + Sum(drawn) - RangesOf(wrapped)
  /\ PowerIsExactWhenAlike

LEMMA PackagesInvInit == RatesInit => PackagesInv
  BY RatesAssumption
  DEF RatesInit, PackagesInit, PackagesInv, PowerIsExactWhenAlike

LEMMA DrawsStep == ASSUME PackagesInv, NEW p \in Package, Draws(p), now' = now PROVE PackagesInv'
<1>1. /\ drawn[p] < EnergyRange[p] - 1
      /\ energy' = [energy EXCEPT ![p] = (@ + 1) % EnergyRange[p]]
      /\ wrapped' = IF energy'[p] = 0 THEN wrapped \cup {p} ELSE wrapped
      /\ drawn' = [drawn EXCEPT ![p] = @ + 1]
      /\ UNCHANGED <<rapl, power>>
  BY DEF Draws
<1>2. /\ energy[p] \in Nat /\ drawn[p] \in Nat /\ EnergyRange[p] \in Nat \ {0}
      /\ energy[p] < EnergyRange[p]
  BY RatesAssumption DEF PackagesInv
<1> DEFINE e == (energy[p] + 1) % EnergyRange[p]
           range == IF e = 0 THEN EnergyRange[p] ELSE 0
<1>3. /\ e \in Nat /\ e < EnergyRange[p]
      /\ e = IF energy[p] + 1 = EnergyRange[p] THEN 0 ELSE energy[p] + 1
  BY <1>2
<1>4. e = energy[p] + 1 - range /\ range \in Nat
  BY <1>2, <1>3
<1> HIDE DEF e
<1>5. energy' = [energy EXCEPT ![p] = e] /\ drawn' = [drawn EXCEPT ![p] = drawn[p] + 1]
  BY <1>1 DEF e
<1>6. /\ energy'[p] = e /\ drawn'[p] = drawn[p] + 1
      /\ \A o \in Package \ {p} : energy'[o] = energy[o] /\ drawn'[o] = drawn[o]
      /\ energy' \in [Package -> Nat] /\ drawn' \in [Package -> Nat]
  BY <1>2, <1>3, <1>5 DEF PackagesInv
<1>7. \A o \in Package : energy'[o] < EnergyRange[o] /\ drawn'[o] < EnergyRange[o]
  BY <1>1, <1>2, <1>3, <1>6 DEF PackagesInv
<1>8. e = 0 => p \notin wrapped
  BY <1>1, <1>2, <1>3 DEF PackagesInv
<1>9. wrapped' \subseteq Package
  BY <1>1 DEF PackagesInv
<1>10. ASSUME NEW o \in wrapped' PROVE energy'[o] < drawn'[o]
  <2>1. CASE o = p
    <3>1. e = 0 \/ p \in wrapped
      BY <1>1, <1>6, <1>10, <2>1
    <3>2. p \in wrapped => energy[p] < drawn[p]
      BY DEF PackagesInv
    <3>3. e = 0 \/ e = energy[p] + 1
      BY <1>3
    <3> QED
      BY <1>2, <1>6, <2>1, <3>1, <3>2, <3>3
  <2>2. CASE o # p
    BY <1>1, <1>6, <1>9, <1>10, <2>2 DEF PackagesInv
  <2> QED
    BY <2>1, <2>2
<1>11. energy \in Weight /\ drawn \in Weight /\ EnergyRange \in Weight
  BY RatesAssumption DEF PackagesInv, Weight
<1>12. Sum(energy') = Sum(energy) + 1 - range /\ Sum(drawn') = Sum(drawn) + 1
  <2>1. energy' \in Weight /\ drawn' \in Weight
    BY <1>6 DEF Weight
  <2>2. SumOf(energy', Package) = SumOf(energy, Package) - energy[p] + e
    BY <1>6, <1>11, <2>1, SumUpdate
  <2>3. SumOf(drawn', Package) = SumOf(drawn, Package) - drawn[p] + (drawn[p] + 1)
    BY <1>6, <1>11, <2>1, SumUpdate
  <2>4. SumOf(energy, Package) \in Int /\ SumOf(drawn, Package) \in Int
    BY <1>11, SumInt
  <2> HIDE DEF range
  <2> QED
    BY <1>2, <1>4, <2>2, <2>3, <2>4, SumIsSumOf
<1>13. RangesOf(wrapped') = RangesOf(wrapped) + range
  <2>1. RangesOf(wrapped) \in Int
    BY <1>11, SumInt, RangesAreSumOf DEF PackagesInv
  <2>2. CASE e = 0
    <3>1. wrapped' = wrapped \cup {p} /\ (wrapped \cup {p}) \ {p} = wrapped
      BY <1>1, <1>6, <1>8, <2>2
    <3>2. SumOf(EnergyRange, wrapped') = EnergyRange[p] + SumOf(EnergyRange, wrapped)
      BY <1>9, <1>11, <3>1, SumPeel
    <3> QED
      BY <1>2, <2>1, <2>2, <3>2, RangesAreSumOf
  <2>3. CASE e # 0
    BY <1>1, <1>6, <2>1, <2>3
  <2> QED
    BY <2>2, <2>3
<1>14. /\ Sum(energy) \in Int /\ Sum(drawn) \in Int /\ RangesOf(wrapped) \in Int
  BY <1>11, SumInt, SumIsSumOf, RangesAreSumOf DEF PackagesInv
<1> HIDE DEF range
<1>15. rapl' # None =>
         /\ rapl'.energy \in Int /\ rapl'.at \in Int
         /\ Sum(energy') = rapl'.energy + Sum(drawn') - RangesOf(wrapped')
  BY <1>1, <1>4, <1>12, <1>13, <1>14 DEF PackagesInv
<1>16. PowerIsExactWhenAlike'
  BY <1>1 DEF PackagesInv, PowerIsExactWhenAlike
<1> QED
  BY <1>6, <1>7, <1>9, <1>10, <1>15, <1>16 DEF PackagesInv

LEMMA SumsStartAgain ==
  ASSUME PackagesInv, drawn' = [p \in Package |-> 0], wrapped' = {}, energy' = energy,
         rapl' = [energy |-> Sum(energy), at |-> now], now' = now, PowerIsExactWhenAlike'
  PROVE  PackagesInv'
<1>1. drawn' \in Weight /\ \A p \in Package : drawn'[p] = 0
  BY DEF Weight
<1>2. energy \in Weight /\ EnergyRange \in Weight
  BY RatesAssumption DEF PackagesInv, Weight
<1>3. Sum(drawn') = 0
  BY <1>1, SumZero, SumIsSumOf
<1>4. RangesOf(wrapped') = 0
  BY <1>2, SumZero, RangesAreSumOf
<1>5. Sum(energy) \in Int
  BY <1>2, SumInt, SumIsSumOf
<1>6. Sum(energy') = rapl'.energy + Sum(drawn') - RangesOf(wrapped')
  BY <1>3, <1>4, <1>5
<1>7. \A p \in Package : EnergyRange[p] > 0
  BY RatesAssumption
<1> QED
  BY <1>1, <1>5, <1>6, <1>7 DEF PackagesInv

LEMMA CpuPowerStep == ASSUME PackagesInv, CpuPower, now' = now PROVE PackagesInv'
<1>1. /\ power' = IF rapl = None \/ now <= rapl.at THEN None
                  ELSE [energy |-> Unwrapped(Sum(energy) - rapl.energy),
                        elapsed |-> now - rapl.at, real |-> Sum(drawn), round |-> wrapped]
      /\ rapl' = [energy |-> Sum(energy), at |-> now]
      /\ drawn' = [p \in Package |-> 0] /\ wrapped' = {} /\ energy' = energy
  BY DEF CpuPower
<1>2. /\ energy \in Weight /\ drawn \in Weight /\ EnergyRange \in Weight
      /\ wrapped \in SUBSET Package
  BY RatesAssumption DEF PackagesInv, Weight
<1>3. /\ Sum(energy) \in Int /\ Sum(drawn) \in Int /\ RangesOf(wrapped) \in Int
      /\ RangesOf(Package \ wrapped) \in Int /\ RangesOf(Package) \in Int
  BY <1>2, SumInt, SumIsSumOf, RangesAreSumOf
<1>4. PowerIsExactWhenAlike'
  <2>1. CASE rapl = None \/ now <= rapl.at
    BY <1>1, <2>1 DEF PowerIsExactWhenAlike
  <2>2. CASE ~(rapl = None \/ now <= rapl.at)
    <3> DEFINE d == Sum(energy) - rapl.energy
    <3>1. /\ rapl.energy \in Int /\ rapl.at \in Int /\ now \in Int /\ now > rapl.at
          /\ d \in Int /\ d = Sum(drawn) - RangesOf(wrapped)
      BY <1>3, <2>2 DEF PackagesInv
    <3>2. /\ power'.energy = Unwrapped(d) /\ power'.elapsed = now - rapl.at
          /\ power'.real = Sum(drawn) /\ power'.round = wrapped
      BY <1>1, <2>2
    <3> HIDE DEF d
    <3>3. Unwrapped(d) = IF d < 0 THEN d + RangesOf(Package) ELSE d
      BY DEF Unwrapped
    <3>4. RangesOf(Package) = RangesOf(wrapped) + RangesOf(Package \ wrapped)
      BY <1>2, SumSplit, RangesAreSumOf
    <3>5. power'.energy \in {power'.real - RangesOf(power'.round),
                             power'.real + RangesOf(Package \ power'.round)}
      BY <1>3, <3>1, <3>2, <3>3, <3>4
    <3>6. RangesOf({}) = 0
      BY <1>2, SumZero, RangesAreSumOf
    <3>7. ASSUME wrapped = {} PROVE d >= 0
      <4> DEFINE zero == [p \in Package |-> 0]
      <4>1. zero \in Weight /\ \A p \in Package : zero[p] = 0 /\ zero[p] <= drawn[p]
        BY DEF PackagesInv, Weight
      <4> HIDE DEF zero
      <4>2. SumOf(zero, Package) <= SumOf(drawn, Package) /\ SumOf(zero, Package) = 0
        BY <1>2, <4>1, SumMonotone, SumZero
      <4> QED
        BY <1>3, <3>1, <3>6, <3>7, <4>2, SumIsSumOf
    <3>8. ASSUME wrapped = Package, Package # {} PROVE d < 0
      <4>1. \A p \in Package : drawn[p] < EnergyRange[p]
        BY DEF PackagesInv
      <4>2. SumOf(drawn, Package) < SumOf(EnergyRange, Package)
        BY <1>2, <3>8, <4>1, SumLess
      <4> QED
        BY <1>3, <3>1, <3>8, <4>2, SumIsSumOf, RangesAreSumOf
    <3>9. power'.round \in {{}, Package} => power'.energy = power'.real
      <4>1. CASE wrapped = {}
        BY <1>3, <3>1, <3>2, <3>3, <3>6, <3>7, <4>1
      <4>2. CASE wrapped = Package /\ Package # {}
        BY <1>3, <3>1, <3>2, <3>3, <3>8, <4>2
      <4> QED
        BY <3>2, <4>1, <4>2
    <3> QED
      BY <3>1, <3>2, <3>5, <3>9 DEF PowerIsExactWhenAlike
  <2> QED
    BY <2>1, <2>2
<1> QED
  BY <1>1, <1>4, SumsStartAgain

LEMMA PackagesStep == PackagesInv /\ [RatesNext]_ratesVars => PackagesInv'
<1> SUFFICES ASSUME PackagesInv, [RatesNext]_ratesVars PROVE PackagesInv'
  OBVIOUS
<1>1. CASE UNCHANGED packages /\ now' \in Nat
  BY <1>1 DEF packages, PackagesInv, PowerIsExactWhenAlike
<1>2. CASE PackagesNext
  <2>1. now' = now
    BY <1>2 DEF PackagesNext
  <2>2. ASSUME CpuPowerFails PROVE PackagesInv'
    <3>1. power' = None /\ energy' = energy
      BY <2>2 DEF CpuPowerFails
    <3>2. PowerIsExactWhenAlike'
      BY <3>1 DEF PowerIsExactWhenAlike
    <3>3. CASE UNCHANGED <<rapl, drawn, wrapped>>
      BY <2>1, <3>1, <3>2, <3>3 DEF PackagesInv
    <3>4. CASE /\ rapl' = [energy |-> Sum(energy), at |-> now]
               /\ drawn' = [p \in Package |-> 0] /\ wrapped' = {}
      BY <2>1, <3>1, <3>2, <3>4, SumsStartAgain
    <3> QED
      BY <2>2, <3>3, <3>4 DEF CpuPowerFails
  <2> QED
    BY <1>2, <2>1, <2>2, DrawsStep, CpuPowerStep DEF PackagesNext
<1>3. now \in Nat
  BY DEF PackagesInv
<1> QED
  BY <1>1, <1>2, <1>3 DEF RatesNext, Tick, TrafficNext, ProcessorNext, ratesVars

\* The power is exact when all counters or none have wrapped around, and otherwise wrong
\* by ranges of whole counters.
THEOREM PowerIsExact == RatesSpec => []PowerIsExactWhenAlike
<1>1. PackagesInv => PowerIsExactWhenAlike
  BY DEF PackagesInv
<1> QED
  BY <1>1, PackagesInvInit, PackagesStep, PTL DEF RatesSpec
==============================================================================
