-------------------------- MODULE MCMeterPipeline --------------------------
(* Small instances of MeterPipeline for TLC.                               *)
EXTENDS MeterPipeline, TLC

CONSTANTS v1, v2, battery

Reading(t, seq, val, assets) ==
  [t |-> t, seq |-> seq, val |-> val, assets |-> assets]

First == Reading(2, 1, v1, {battery})

\* Two payloads with one identity, the first with a storage asset, and a newer
\* reading with a lower seq ...
MixedReadings == { First, Reading(2, 1, v2, {}), Reading(4, 0, v1, {}) }

\* ... and a newer reading of the same millisecond with a lower seq.
SameMillisecond == { First, Reading(3, 0, v1, {}) }

AllReadings == MixedReadings \cup SameMillisecond
TwoTopics   == { MixedReadings, SameMillisecond }

\* Two faults exhaust the retries; under async-repair a Redis error is absorbed
\* at once, and one fault shows it.
TwoFaults == [p \in Policies |-> IF p = "required" THEN 2 ELSE 1]

HandlerSymmetry == Permutations(Handlers)
=============================================================================
