----------------------------- MODULE MCTelemetry -----------------------------
(* Small instances of Telemetry, Rates and Registration for TLC, side by side: a *)
(* behaviour is one of one of them, or of one meter of Rates.                    *)
EXTENDS Telemetry, Rates, Registration

VARIABLE part

mcVars == <<telemetryVars, ratesVars, registrationVars, part>>

Of(p, A) == part = p /\ A /\ UNCHANGED part

MCInit ==
  /\ part \in Meter \cup {"telemetry", "processor", "packages", "registration"}
  /\ TelemetryInit /\ RatesInit /\ RegistrationInit
  /\ part \notin Meter => present = {}

MCNext ==
  \/ Of("telemetry", TelemetryNext) /\ UNCHANGED <<ratesVars, registrationVars>>
  \/ Of("registration", RegistrationNext) /\ UNCHANGED <<telemetryVars, ratesVars>>
  \/ /\ \/ \E m \in Meter : Of(m, TrafficNext(m))
        \/ Of("processor", ProcessorNext)
        \/ Of("packages", PackagesNext)
        \/ part \in Meter \cup {"processor", "packages"} /\ Tick /\ UNCHANGED part
     /\ UNCHANGED <<telemetryVars, registrationVars>>

MCSpec == MCInit /\ [][MCNext]_mcVars /\ TelemetryFairness

\* Two samples a tick apart, and one for which the clock has been set back
\* or forward.
MCClock == [t \in 0..EndOfTime |->
              CASE t < 2 -> {t} [] t = 2 -> {1, 3} [] OTHER -> {}]

\* Packages with different ranges.
MCPackage == {"p1", "p2"}
MCRange == [p \in MCPackage |-> IF p = "p1" THEN 3 ELSE 2]
==============================================================================
