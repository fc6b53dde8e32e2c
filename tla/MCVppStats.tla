----------------------------- MODULE MCVppStats -----------------------------
(* The default rings scaled down, with the coarse one spanning two slots;   *)
(* the same number of slots at another coarse resolution; a fine ring of    *)
(* another length; and a duration shorter than its resolution.              *)
EXTENDS VppStats, TLC

MCDefaults ==
  <<[res |-> 1, dur |-> 3], [res |-> 2, dur |-> 4], [res |-> 4, dur |-> 8]>>

Given(i, res, dur) ==
  [k \in 1 .. 3 |-> IF k = i THEN [res |-> res, dur |-> dur] ELSE [res |-> 0, dur |-> 0]]

MCConfigs == {Given(3, 0, 0), Given(3, 3, 6), Given(1, 1, 2), Given(2, 2, 1)}

(* Many packets over a long time, to go round the rings; changes of        *)
(* interfaces around a restart; a change with the packets to account for.  *)
MCBudgets ==
  {[time |-> 6, packets |-> 2, changes |-> 0, faults |-> 1],
   [time |-> 4, packets |-> 0, changes |-> 2, faults |-> 1],
   [time |-> 4, packets |-> 3, changes |-> 1, faults |-> 0]}

MCSymmetry == Permutations(Names) \cup Permutations(Index)

=============================================================================
