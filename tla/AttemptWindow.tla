--------------------------- MODULE AttemptWindow ---------------------------
(***************************************************************************)
(* The sliding window that BruteForceProtector, ThreatScorer,              *)
(* AnomalyDetector and PortKnocker all keep: a deque of timestamps, or of  *)
(* records with one, appended on the right and trimmed from the left.      *)
(***************************************************************************)
EXTENDS Integers, Sequences

\* Where `while dq and dq[0] < cutoff: dq.popleft()` stops: the first index
\* whose timestamp is not older than cutoff, or Len(dq) + 1.
FirstKept(dq, cutoff) ==
  CHOOSE k \in 1 .. Len(dq) + 1 :
    /\ \A i \in 1 .. k - 1 : dq[i] < cutoff
    /\ k <= Len(dq) => dq[k] >= cutoff

Evict(dq, cutoff) == SubSeq(dq, FirstKept(dq, cutoff), Len(dq))

\* The same of a deque whose entries have their timestamp in a field.
Times(dq) == [i \in DOMAIN dq |-> dq[i].at]

EvictEntries(dq, cutoff) == SubSeq(dq, FirstKept(Times(dq), cutoff), Len(dq))

\* Timestamps were appended under the lock, so they never decrease.
Ordered(dq) == \A i, j \in DOMAIN dq : i <= j => dq[i] <= dq[j]
=============================================================================
