-------------------------------- MODULE Rates --------------------------------
(***************************************************************************)
(* What LinuxCollector (agents/linux/collector.py) makes of counters that  *)
(* only mean something when two readings are compared: the rates of the    *)
(* network and of the root disk, the usage of the processor, the power of  *)
(* its packages.  The collector keeps the previous reading of each meter;  *)
(* the kernel's counters move, begin again, wrap around and go back.       *)
(*                                                                         *)
(* The three parts have no variable in common but the clock.  A rate is    *)
(* kept as the amount and the time it is divided by.                       *)
(***************************************************************************)
EXTENDS Integers, FiniteSets, FiniteSetsExt

CONSTANTS
  Interface, Disk, \* sources of traffic
  Package,         \* processor packages with an energy counter
  EnergyRange,     \* max_energy_range_uj of each of them
  MaxCount,        \* bound of every counter that grows
  MaxTime,         \* bound of the clock
  None

Meter == {"network", "storage"}
Source == Interface \cup Disk
SourcesOf(m) == IF m = "network" THEN Interface ELSE Disk

ASSUME RatesAssumption ==
  /\ Interface \cap Disk = {} /\ IsFiniteSet(Package)
  /\ EnergyRange \in [Package -> Nat \ {0}]
  /\ {MaxCount, MaxTime} \subseteq Nat
  /\ \A s \in Source : s # None

VARIABLES
  now,
  count,   \* bytes each source counts, in one direction
  present, \* the sources there are
  seen,    \* previous_network and previous_storage
  rate,    \* the rate last reported by each meter
  moved,   \* bytes each source has carried since its meter last noted a reading
  reset,   \* the sources that began again since then
  carried, \* bytes the sources of a meter have carried altogether
  claimed, \* bytes a meter has reported altogether
  stat,    \* the fields of /proc/stat
  cpu,     \* previous_cpu
  usage,   \* the usage last reported
  spent,   \* what the processor has really done since cpu was noted
  energy,  \* the energy counters
  rapl,    \* previous_rapl
  power,   \* the power last reported
  drawn,   \* the energy each package has really drawn since rapl was noted
  wrapped  \* the packages whose counter wrapped around since then

traffic == <<count, present, seen, rate, moved, reset, carried, claimed>>
processor == <<stat, cpu, usage, spent>>
packages == <<energy, rapl, power, drawn, wrapped>>
ratesVars == <<now, traffic, processor, packages>>

\* a value, or what it is replaced by when it is not above it
AtLeast(n, low) == IF n < low THEN low ELSE n

Tick == now < MaxTime /\ now' = now + 1 /\ UNCHANGED <<traffic, processor, packages>>

------------------------------------------------------------------------------
(* Traffic: network_metrics() and storage_metrics() *)

MeterOf(s) == IF s \in Interface THEN "network" ELSE "storage"

Carry(s) ==
  /\ s \in present /\ carried[MeterOf(s)] < MaxCount
  /\ count' = [count EXCEPT ![s] = @ + 1]
  /\ moved' = [moved EXCEPT ![s] = @ + 1]
  /\ carried' = [carried EXCEPT ![MeterOf(s)] = @ + 1]
  /\ UNCHANGED <<present, seen, rate, reset, claimed>>

\* An interface or a disk goes, or comes back with a counter that begins again.
Plug(s) ==
  /\ present' = IF s \in present THEN present \ {s} ELSE present \cup {s}
  /\ count' = [count EXCEPT ![s] = 0]
  /\ reset' = reset \cup {s}
  /\ UNCHANGED <<seen, rate, moved, carried, claimed>>

\* mutant of SameSource: the name is not compared
AnySource(previous, s) == previous # None

SameSource(previous, s) == previous # None /\ previous.source = s

Amount(m, s) == AtLeast(count[s] - seen[m].count, 0)

\* the reading that is kept for the next comparison
Noted(m, s) == [source |-> s, count |-> count[s], at |-> now]

\* previous_network or previous_storage is replaced
Notes(m, s) ==
  /\ s \in present
  /\ seen' = [seen EXCEPT ![m] = Noted(m, s)]
  /\ moved' = [t \in Source |-> IF t \in SourcesOf(m) THEN 0 ELSE moved[t]]
  /\ reset' = reset \ SourcesOf(m)
  /\ UNCHANGED <<count, present, carried>>

\* The interface with the most traffic in both directions may be any of those there
\* are, since the other direction counts as well; the root disk is what it is.
Look(m, s) ==
  /\ Notes(m, s)
  /\ rate' = [rate EXCEPT ![m] =
       IF SameSource(seen[m], s) /\ now > seen[m].at
       THEN [source |-> s, amount |-> Amount(m, s), elapsed |-> now - seen[m].at,
             real |-> moved[s], exact |-> s \notin reset]
       ELSE None]
  /\ claimed' = [claimed EXCEPT ![m] = IF rate'[m] = None THEN @ ELSE @ + rate'[m].amount]

\* No interface, no such disk, or files that cannot be read.  The state of the chosen
\* interface is read after its counters are noted; the rate is lost when it has gone.
LookFails(m) ==
  /\ rate' = [rate EXCEPT ![m] = None]
  /\ UNCHANGED claimed
  /\ \/ UNCHANGED <<count, present, seen, moved, reset, carried>>
     \/ m = "network" /\ \E s \in Interface : Notes(m, s)

NetworkMetrics == (\E s \in Interface : Look("network", s)) \/ LookFails("network")
StorageMetrics == (\E s \in Disk : Look("storage", s)) \/ LookFails("storage")

TrafficInit ==
  /\ count = [s \in Source |-> 0]
  /\ present \in SUBSET Source
  /\ seen = [m \in Meter |-> None]
  /\ rate = [m \in Meter |-> None]
  /\ moved = [s \in Source |-> 0]
  /\ reset = {}
  /\ carried = [m \in Meter |-> 0]
  /\ claimed = [m \in Meter |-> 0]

TrafficNext(m) ==
  /\ \/ \E s \in SourcesOf(m) : Carry(s) \/ Plug(s)
     \/ m = "network" /\ NetworkMetrics
     \/ m = "storage" /\ StorageMetrics
  /\ UNCHANGED <<now, processor, packages>>

------------------------------------------------------------------------------
(* The processor: cpu_usage() *)

\* The kernel counts the time of a guest twice, as user and as guest.
Spends ==
  /\ stat.busy + stat.idle + stat.iowait < MaxCount /\ spent.all < MaxCount
  /\ \E kind \in {"idle", "iowait", "busy", "guest"} :
       LET one(kinds) == IF kind \in kinds THEN 1 ELSE 0
       IN  /\ stat' = [idle   |-> stat.idle + one({"idle"}),
                       iowait |-> stat.iowait + one({"iowait"}),
                       busy   |-> stat.busy + one({"busy", "guest"}),
                       guest  |-> stat.guest + one({"guest"})]
           /\ spent' = [all   |-> spent.all + 1,
                        busy  |-> spent.busy + one({"busy", "guest"}),
                        guest |-> spent.guest + one({"guest"}),
                        back  |-> spent.back]
  /\ UNCHANGED <<cpu, usage>>

\* The kernel corrects its estimate of the time spent waiting for devices.
IowaitGoesBack ==
  /\ stat.iowait > 0 /\ spent.back < MaxCount
  /\ stat' = [stat EXCEPT !.iowait = @ - 1]
  /\ spent' = [spent EXCEPT !.back = @ + 1]
  /\ UNCHANGED <<cpu, usage>>

Idle == stat.idle + stat.iowait
Total == stat.idle + stat.iowait + stat.busy + stat.guest

\* mutant of Usage: the time spent waiting for devices counts as work
UsageWithWaiting(previous) ==
  [busy |-> Total - previous.total - (stat.idle - previous.idle),
   all |-> Total - previous.total, real |-> spent]

Usage(previous) ==
  [busy |-> Total - previous.total - (Idle - previous.idle),
   all |-> Total - previous.total, real |-> spent]

NoneSpent == [all |-> 0, busy |-> 0, guest |-> 0, back |-> 0]

CpuUsage ==
  /\ cpu' = [idle |-> Idle, total |-> Total]
  /\ usage' = IF cpu = None \/ Total <= cpu.total THEN None ELSE Usage(cpu)
  /\ spent' = NoneSpent
  /\ UNCHANGED stat

\* /proc/stat cannot be read
CpuUsageFails == usage' = None /\ UNCHANGED <<stat, cpu, spent>>

ProcessorInit ==
  /\ stat = [idle |-> 0, iowait |-> 0, busy |-> 0, guest |-> 0]
  /\ cpu = None /\ usage = None /\ spent = NoneSpent

ProcessorNext ==
  /\ Spends \/ IowaitGoesBack \/ CpuUsage \/ CpuUsageFails
  /\ UNCHANGED <<now, traffic, packages>>

------------------------------------------------------------------------------
(* The packages: cpu_power() *)

Sum(f) == MapThenSumSet(LAMBDA p : f[p], Package)
RangesOf(S) == MapThenSumSet(LAMBDA p : EnergyRange[p], S)

\* The collector comes back before a counter has gone round.
Draws(p) ==
  /\ drawn[p] < EnergyRange[p] - 1 /\ Sum(drawn) < MaxCount
  /\ energy' = [energy EXCEPT ![p] = (@ + 1) % EnergyRange[p]]
  /\ wrapped' = IF energy'[p] = 0 THEN wrapped \cup {p} ELSE wrapped
  /\ drawn' = [drawn EXCEPT ![p] = @ + 1]
  /\ UNCHANGED <<rapl, power>>

\* mutant of Unwrapped: a counter that went back has begun again
UnwrappedFromZero(difference) == AtLeast(difference, 0)

Unwrapped(difference) == IF difference < 0 THEN difference + RangesOf(Package) ELSE difference

CpuPower ==
  /\ power' = IF rapl = None \/ now <= rapl.at THEN None
              ELSE [energy |-> Unwrapped(Sum(energy) - rapl.energy), elapsed |-> now - rapl.at,
                    real |-> Sum(drawn), round |-> wrapped]
  /\ rapl' = [energy |-> Sum(energy), at |-> now]
  /\ drawn' = [p \in Package |-> 0]
  /\ wrapped' = {}
  /\ UNCHANGED energy

\* A file that cannot be read, the range of a package included, once it is needed.
CpuPowerFails ==
  /\ power' = None
  /\ \/ UNCHANGED <<rapl, drawn, wrapped>>
     \/ /\ rapl # None /\ now > rapl.at /\ Sum(energy) < rapl.energy
        /\ rapl' = [energy |-> Sum(energy), at |-> now]
        /\ drawn' = [p \in Package |-> 0]
        /\ wrapped' = {}
  /\ UNCHANGED energy

PackagesInit ==
  /\ energy = [p \in Package |-> 0]
  /\ rapl = None /\ power = None
  /\ drawn = [p \in Package |-> 0] /\ wrapped = {}

PackagesNext ==
  /\ (\E p \in Package : Draws(p)) \/ CpuPower \/ CpuPowerFails
  /\ UNCHANGED <<now, traffic, processor>>

------------------------------------------------------------------------------
RatesInit == now = 0 /\ TrafficInit /\ ProcessorInit /\ PackagesInit
RatesNext == Tick \/ (\E m \in Meter : TrafficNext(m)) \/ ProcessorNext \/ PackagesNext
RatesSpec == RatesInit /\ [][RatesNext]_ratesVars

------------------------------------------------------------------------------
(* Properties *)

\* A rate is never more than what that source has carried in that time, whichever
\* sources came, went, began again or were chosen in between, and is what it has
\* carried if its counter did not begin again.
RateIsReal ==
  \A m \in Meter : rate[m] # None =>
    /\ rate[m].amount <= rate[m].real /\ rate[m].elapsed > 0
    /\ rate[m].exact => rate[m].amount = rate[m].real

\* Over any number of looks no byte is reported twice.
NothingCountedTwice == \A m \in Meter : claimed[m] <= carried[m]

\* What a sample may carry: the schema of the protocol takes a percentage from 0 to
\* 100 and the hub refuses the whole sample otherwise (protocol/telemetry-v2.schema.json,
\* lines 32 and 51).  The kernel's correction of the waiting time breaks it.
UsageIsPercent == usage # None => 0 <= usage.busy /\ usage.busy <= usage.all

\* How far the usage can be from the truth: it is never less than the part of the time
\* in which the processor worked, it is that part when there was no guest, whose time is
\* counted twice, and no correction, and it exceeds the whole by no more than the
\* waiting time that the kernel took back.
UsageIsHonest ==
  usage # None =>
    /\ 0 <= usage.busy /\ usage.all > 0
    /\ usage.busy <= usage.all + usage.real.back
    /\ usage.busy * usage.real.all >= usage.real.busy * usage.all
    /\ usage.real.back = 0 /\ usage.real.guest = 0 =>
         usage.busy * usage.real.all = usage.real.busy * usage.all

\* The power is what the packages have drawn, if the counters of all of them have
\* wrapped around, or none has.  Otherwise the ranges of those that have may be missing,
\* or the ranges of those that have not are too many.
PowerIsExactWhenAlike ==
  power # None =>
    /\ power.elapsed > 0
    /\ power.round \in {{}, Package} => power.energy = power.real
    /\ power.energy \in {power.real - RangesOf(power.round),
                         power.real + RangesOf(Package \ power.round)}
==============================================================================
