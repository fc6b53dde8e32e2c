----------------------------- MODULE MCTargets ------------------------------
(* Three targets for two places.  In the first row all share a bucket, in   *)
(* the second one of them has a bucket of its own.                          *)
EXTENDS Targets

CONSTANTS k1, k2, k3

MCIndex == <<[k \in Keys |-> 1], [k \in Keys |-> IF k = k1 THEN 1 ELSE 2]>>

MCDivisor == [n \in 1 .. 2 |-> 2 ^ n]

MCHistory == <<[res |-> 1, dur |-> 2], [res |-> 2, dur |-> 4], [res |-> 0, dur |-> 0]>>

(* More values than buckets, as many, and a range that starts anew in each  *)
(* instance.                                                                *)
PortRatio == [kind |-> "port", minRatio |-> 60, agg |-> [mode |-> "range", lo |-> 1, hi |-> 4]]

BucketRatio == [kind |-> "port", minRatio |-> 100, agg |-> [mode |-> "bucket", step |-> 2]]

AllRatio == [kind |-> "port", minRatio |-> 100, agg |-> [mode |-> "all", max |-> 2]]

IpRatio == [kind |-> "ip", minRatio |-> 60, bits |-> 3, mask |-> 1, word |-> 1]

(* The sketch under collisions; the pool after a restart; the rings over a  *)
(* longer time, with samples and ticks that waited; the gate.               *)
MCScenarios ==
  {[ratio |-> None, keys |-> {k1, k2, k3}, weights |-> {1, 3}, values |-> {0},
    lag |-> 0, time |-> 1, samples |-> 3, restarts |-> 0],
   [ratio |-> None, keys |-> {k1, k2, k3}, weights |-> {1, 2}, values |-> {0},
    lag |-> 0, time |-> 0, samples |-> 4, restarts |-> 1],
   [ratio |-> None, keys |-> {k1}, weights |-> {1, 2}, values |-> {0},
    lag |-> 1, time |-> 4, samples |-> 3, restarts |-> 1],
   [ratio |-> PortRatio, keys |-> {k1}, weights |-> {1}, values |-> 0 .. 5,
    lag |-> 0, time |-> 0, samples |-> 5, restarts |-> 1],
   [ratio |-> BucketRatio, keys |-> {k1}, weights |-> {1}, values |-> 0 .. 3,
    lag |-> 0, time |-> 1, samples |-> 5, restarts |-> 0],
   [ratio |-> AllRatio, keys |-> {k1}, weights |-> {1}, values |-> 0 .. 2,
    lag |-> 0, time |-> 0, samples |-> 5, restarts |-> 0],
   [ratio |-> IpRatio, keys |-> {k1}, weights |-> {1}, values |-> 0 .. 7,
    lag |-> 0, time |-> 0, samples |-> 5, restarts |-> 0]}
=============================================================================
