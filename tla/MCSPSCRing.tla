----------------------------- MODULE MCSPSCRing -----------------------------
(* Small instances of the ring for TLC: one consumer with a counting       *)
(* observer, batched writes under fairness, the unconsumed latest ring.    *)
EXTENDS SPSCRing, TLC

\* Samples are only copied and compared, so exchanging two of them maps a
\* behaviour to a behaviour.  Not used where a liveness property is checked.
SampleSymmetry == Permutations(Samples)
=============================================================================
