---------------------------- MODULE Attribution ----------------------------
(***************************************************************************)
(* Package attribution: the scores ScoreCtx gives a segment from the       *)
(* environment readings around it and the links of its clock.              *)
(* (src/internal/attribution/attribution.go, internal/store/env_store.go)  *)
(***************************************************************************)
EXTENDS Fractions

CONSTANTS Margin,   \* time.Minute, as long as a window
          Swing     \* TempThreshC, HumidityThresh, PressureThresh, VibrationThresh

Quantities == {"temp", "humidity", "pressure", "vibration"}
ASSUME AttributionAssumption == Margin \in Nat /\ Swing \in [Quantities -> Nat]

Sources == {"environment", "link", "device", "insufficient"}

\* EnvStore.Range around the segment, both ends included.
RangeUntilEnd(seg, readings) ==   \* mutant: no lower bound
  {r \in readings : r.at <= seg.end + Margin}
EnvRange(seg, readings) ==
  {r \in readings : r.at >= seg.start - Margin /\ r.at <= seg.end + Margin}

\* environmentCoherence: the share of the quantities whose largest difference
\* (maxMinDelta) exceeds its threshold; one reading shows no difference.
Swings(q, readings) == \E r, s \in readings : r[q] - s[q] > Swing[q]
EnvironmentCoherence(readings) ==
  IF Cardinality(readings) < 2 THEN Zero
  ELSE Frac(Cardinality({q \in Quantities : Swings(q, readings)}), 4)

\* linkCoherence: the share of the clock's links that are not healthy.
LinkCoherence(links) ==
  IF links = {} THEN Zero
  ELSE Frac(Cardinality({l \in links : l.status \in {"suspect", "isolated"}}), Cardinality(links))

\* A device is blamed when the environment is calm and most links are not healthy.
DeviceScore(env, link) ==
  IF Exceeds(Frac(3, 10), env) /\ Exceeds(link, Half) THEN Minus(One, env) ELSE Zero

\* The candidate rows of a segment: three, or four when none reaches one half.
Candidates(env, link) ==
  LET three == {[source |-> "environment", score |-> env], [source |-> "link", score |-> link],
                [source |-> "device", score |-> DeviceScore(env, link)]}
      best == Largest({c.score : c \in three})
  IN three \cup (IF Exceeds(Half, best)
                 THEN {[source |-> "insufficient", score |-> Minus(Half, best)]} ELSE {})

\* ScoreCtx inserts them one by one, outside a transaction: the sources of the
\* rows that are there when it stops.
FirstSources == {{}, {"environment"}, {"environment", "link"}, {"environment", "link", "device"}}

ScoreSegment(seg, readings, links) ==
  Candidates(EnvironmentCoherence(EnvRange(seg, readings)), LinkCoherence(links))

\* Service.AttributeJump: a source with the highest score.
Verdicts(candidates) ==
  {c.source : c \in {d \in candidates : \A e \in candidates : ~Exceeds(e.score, d.score)}}
=============================================================================
