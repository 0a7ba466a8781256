---------------------------- MODULE WindowFacts ----------------------------
(***************************************************************************)
(* Lemmas about AttemptWindow: what trimming a deque from the left keeps.  *)
(***************************************************************************)
EXTENDS AttemptWindow, TLAPS, WellFoundedInduction, SequenceTheorems

NatLess == {pair \in Nat \X Nat : pair[1] < pair[2]}

\* The order of the naturals as a relation is well founded.
LEMMA NatLessWellFounded == IsWellFoundedOn(NatLess, Nat)
  BY NatLessThanWellFounded, Zenon DEF OpToRel, NatLess

\* Every non-empty set of naturals has a least element.
LEMMA LeastNatural ==
  ASSUME NEW S \in SUBSET Nat, S # {}
  PROVE  \E x \in S : \A y \in S : x <= y
<1>1. PICK x \in S : \A y \in S : ~ (<<y, x>> \in NatLess)
  BY NatLessWellFounded, WFMin, Zenon
<1>2. \A y \in S : ~ (y < x)
  BY <1>1 DEF NatLess
<1> QED
  BY <1>2

\* The loop that pops outdated timestamps stops: FirstKept is defined for every
\* deque and cutoff.
LEMMA FirstKeptDefined ==
  ASSUME NEW dq \in Seq(Nat), NEW cutoff \in Int
  PROVE  LET k == FirstKept(dq, cutoff)
         IN  /\ k \in 1 .. Len(dq) + 1
             /\ \A i \in 1 .. k - 1 : dq[i] < cutoff
             /\ k <= Len(dq) => dq[k] >= cutoff
<1> DEFINE Stop(k) == /\ \A i \in 1 .. k - 1 : dq[i] < cutoff
                      /\ k <= Len(dq) => dq[k] >= cutoff
<1> DEFINE recentAt == {i \in 1 .. Len(dq) : dq[i] >= cutoff} \cup {Len(dq) + 1}
<1>1. recentAt \in SUBSET Nat /\ recentAt # {}
  OBVIOUS
<1>2. PICK k \in recentAt : \A y \in recentAt : k <= y
  BY <1>1, LeastNatural
<1>3. k \in 1 .. Len(dq) + 1
  OBVIOUS
<1>4. Stop(k)
  BY <1>2
<1> QED
  BY <1>3, <1>4, Zenon DEF FirstKept

\* There is one place to stop: a place that has the stopping property is it.
LEMMA FirstKeptUnique ==
  ASSUME NEW dq \in Seq(Nat), NEW cutoff \in Int, NEW k \in 1 .. Len(dq) + 1,
         \A i \in 1 .. k - 1 : dq[i] < cutoff,
         k <= Len(dq) => dq[k] >= cutoff
  PROVE  FirstKept(dq, cutoff) = k
<1> DEFINE m == FirstKept(dq, cutoff)
<1>1. /\ m \in 1 .. Len(dq) + 1
      /\ \A i \in 1 .. m - 1 : dq[i] < cutoff
      /\ m <= Len(dq) => dq[m] >= cutoff
  BY FirstKeptDefined
<1> HIDE DEF m
<1> \A i \in 1 .. Len(dq) : dq[i] \in Nat
  OBVIOUS
<1>2. ~ (m < k)
  BY <1>1
<1>3. ~ (k < m)
  BY <1>1
<1>4. m = k
  BY <1>1, <1>2, <1>3
<1> QED
  BY <1>4 DEF m

\* Evict keeps a suffix, whose entries are those of the deque shifted.
LEMMA EvictIsSuffix ==
  ASSUME NEW dq \in Seq(Nat), NEW cutoff \in Int
  PROVE  /\ Evict(dq, cutoff) \in Seq(Nat)
         /\ Len(Evict(dq, cutoff)) = Len(dq) + 1 - FirstKept(dq, cutoff)
         /\ \A i \in 1 .. Len(Evict(dq, cutoff)) :
              Evict(dq, cutoff)[i] = dq[i + FirstKept(dq, cutoff) - 1]
<1> DEFINE k == FirstKept(dq, cutoff)
<1>1. k \in 1 .. Len(dq) + 1
  BY FirstKeptDefined
<1> HIDE DEF k
<1>2. /\ SubSeq(dq, k, Len(dq)) \in Seq(Nat)
      /\ Len(SubSeq(dq, k, Len(dq))) = Len(dq) + 1 - k
      /\ \A i \in 1 .. Len(SubSeq(dq, k, Len(dq))) : SubSeq(dq, k, Len(dq))[i] = dq[i + k - 1]
  BY <1>1
<1> QED
  BY <1>2 DEF Evict, k

\* Trimming keeps the order of time.
LEMMA EvictOrdered ==
  ASSUME NEW dq \in Seq(Nat), NEW cutoff \in Int, Ordered(dq)
  PROVE  Ordered(Evict(dq, cutoff))
<1> DEFINE k == FirstKept(dq, cutoff)
           kept == Evict(dq, cutoff)
<1>1. k \in 1 .. Len(dq) + 1
  BY FirstKeptDefined
<1>2. /\ kept \in Seq(Nat)
      /\ Len(kept) = Len(dq) + 1 - k
      /\ \A i \in 1 .. Len(kept) : kept[i] = dq[i + k - 1]
  BY EvictIsSuffix
<1> HIDE DEF k, kept
<1>3. SUFFICES ASSUME NEW i \in 1 .. Len(kept), NEW j \in 1 .. Len(kept), i <= j
               PROVE  kept[i] <= kept[j]
  BY <1>2 DEF Ordered, kept
<1>4. i + k - 1 \in DOMAIN dq /\ j + k - 1 \in DOMAIN dq /\ i + k - 1 <= j + k - 1
  BY <1>1, <1>2, <1>3
<1> QED
  BY <1>2, <1>3, <1>4 DEF Ordered

\* A deque whose timestamps are all outdated is emptied.
LEMMA EvictAllOutdated ==
  ASSUME NEW dq \in Seq(Nat), NEW cutoff \in Int, \A i \in 1 .. Len(dq) : dq[i] < cutoff
  PROVE  Evict(dq, cutoff) = <<>>
<1> DEFINE end == Len(dq) + 1
<1>1. FirstKept(dq, cutoff) = end
  <2>1. end \in 1 .. Len(dq) + 1 /\ ~ (end <= Len(dq))
    OBVIOUS
  <2>2. \A i \in 1 .. end - 1 : dq[i] < cutoff
    OBVIOUS
  <2> HIDE DEF end
  <2> QED
    BY <2>1, <2>2, FirstKeptUnique
<1> QED
  BY <1>1 DEF Evict

\* A new timestamp inside the window survives at the end, behind what trimming
\* the old deque would have kept.
LEMMA EvictAppend ==
  ASSUME NEW dq \in Seq(Nat), NEW cutoff \in Int, NEW t \in Nat, cutoff <= t
  PROVE  Evict(Append(dq, t), cutoff) = Append(Evict(dq, cutoff), t)
<1> DEFINE k == FirstKept(dq, cutoff)
           longer == Append(dq, t)
<1>1. /\ k \in 1 .. Len(dq) + 1
      /\ \A i \in 1 .. k - 1 : dq[i] < cutoff
      /\ k <= Len(dq) => dq[k] >= cutoff
  BY FirstKeptDefined
<1>2. /\ longer \in Seq(Nat)
      /\ Len(longer) = Len(dq) + 1
      /\ \A i \in 1 .. Len(dq) : longer[i] = dq[i]
      /\ longer[Len(dq) + 1] = t
  OBVIOUS
<1> HIDE DEF k, longer
<1>3. FirstKept(longer, cutoff) = k
  <2>1. k \in 1 .. Len(longer) + 1
    BY <1>1, <1>2
  <2>2. ASSUME NEW i \in 1 .. k - 1 PROVE longer[i] < cutoff
    <3>1. i \in 1 .. Len(dq)
      BY <1>1
    <3> QED
      BY <1>1, <1>2, <3>1
  <2>3. k <= Len(longer) => longer[k] >= cutoff
    <3>1. CASE k <= Len(dq)
      <4>1. k \in 1 .. Len(dq)
        BY <1>1, <3>1
      <4> QED
        BY <1>1, <1>2, <3>1, <4>1
    <3>2. CASE k = Len(dq) + 1
      BY <1>2, <3>2
    <3>3. k <= Len(dq) \/ k = Len(dq) + 1
      BY <1>1
    <3> QED
      BY <3>1, <3>2, <3>3
  <2> QED
    BY <1>2, <2>1, <2>2, <2>3, FirstKeptUnique
<1>4. SubSeq(longer, k, Len(longer)) = Append(SubSeq(dq, k, Len(dq)), t)
  BY <1>1, <1>2 DEF longer
<1> QED
  BY <1>3, <1>4 DEF Evict, k, longer

\* Trimming late gives what trimming at every instant would have given.
LEMMA EvictTwice ==
  ASSUME NEW dq \in Seq(Nat), NEW early \in Int, NEW late \in Int, early <= late
  PROVE  Evict(Evict(dq, early), late) = Evict(dq, late)
<1> DEFINE k == FirstKept(dq, early)
           m == FirstKept(dq, late)
           kept == Evict(dq, early)
<1>1. /\ k \in 1 .. Len(dq) + 1
      /\ \A i \in 1 .. k - 1 : dq[i] < early
      /\ k <= Len(dq) => dq[k] >= early
  BY FirstKeptDefined
<1>2. /\ m \in 1 .. Len(dq) + 1
      /\ \A i \in 1 .. m - 1 : dq[i] < late
      /\ m <= Len(dq) => dq[m] >= late
  BY FirstKeptDefined
<1>3. /\ kept \in Seq(Nat)
      /\ Len(kept) = Len(dq) + 1 - k
      /\ \A i \in 1 .. Len(kept) : kept[i] = dq[i + k - 1]
  BY EvictIsSuffix
<1>4. kept = SubSeq(dq, k, Len(dq))
  BY DEF Evict
<1> HIDE DEF k, m, kept
<1>5. \A i \in 1 .. Len(dq) : dq[i] \in Nat
  OBVIOUS
<1>6. k <= m
  BY <1>1, <1>2, <1>5
<1>7. FirstKept(kept, late) = m - k + 1
  <2>1. m - k + 1 \in 1 .. Len(kept) + 1
    BY <1>1, <1>2, <1>3, <1>6
  <2>2. ASSUME NEW i \in 1 .. (m - k + 1) - 1
        PROVE  kept[i] < late
    <3>1. i \in 1 .. Len(kept) /\ i + k - 1 \in 1 .. m - 1
      BY <1>1, <1>2, <1>3, <1>6
    <3> QED
      BY <1>2, <1>3, <3>1
  <2>3. ASSUME m - k + 1 <= Len(kept)
        PROVE  kept[m - k + 1] >= late
    <3>1. m <= Len(dq) /\ m - k + 1 \in 1 .. Len(kept) /\ (m - k + 1) + k - 1 = m
      BY <1>1, <1>2, <1>3, <1>6, <2>3
    <3> QED
      BY <1>2, <1>3, <3>1
  <2> QED
    BY <1>3, <2>1, <2>2, <2>3, FirstKeptUnique
<1>8. SubSeq(kept, m - k + 1, Len(kept)) = SubSeq(dq, m, Len(dq))
  <2> DEFINE n == m - k + 1
             left == SubSeq(kept, n, Len(kept))
             right == SubSeq(dq, m, Len(dq))
  <2>1. n \in 1 .. Len(kept) + 1 /\ Len(kept) - n = Len(dq) - m
    BY <1>1, <1>2, <1>3, <1>6
  <2> HIDE DEF n
  <2>2. left \in Seq(Nat) /\ Len(left) = Len(kept) + 1 - n
        /\ \A i \in 1 .. Len(left) : left[i] = kept[n + i - 1]
    <3>1. n \in Int /\ n >= 1 /\ n <= Len(kept) + 1 /\ Len(kept) \in Nat
      BY <1>3, <2>1
    <3>2. \A i \in n .. Len(kept) : kept[i] \in Nat
      BY <1>3, <3>1
    <3>3. /\ left \in Seq(Nat)
          /\ Len(left) = IF n <= Len(kept) THEN Len(kept) - n + 1 ELSE 0
          /\ \A i \in 1 .. Len(kept) - n + 1 : left[i] = kept[n + i - 1]
      BY <3>1, <3>2, SubSeqProperties
    <3> HIDE DEF left
    <3>4. Len(left) = Len(kept) + 1 - n /\ Len(kept) + 1 - n = Len(kept) - n + 1
      BY <3>1, <3>3
    <3> QED
      BY <3>3, <3>4
  <2>3. right \in Seq(Nat) /\ Len(right) = Len(dq) + 1 - m
        /\ \A i \in 1 .. Len(right) : right[i] = dq[m + i - 1]
    BY <1>2
  <2> HIDE DEF left, right
  <2>4. ASSUME NEW i \in 1 .. Len(left)
        PROVE  left[i] = right[i]
    <3>1. n + i - 1 \in 1 .. Len(kept) /\ i \in 1 .. Len(right)
      BY <1>1, <1>2, <1>3, <2>1, <2>2, <2>3
    <3>2. kept[n + i - 1] = dq[(n + i - 1) + k - 1]
      BY <1>3, <3>1
    <3>3. (n + i - 1) + k - 1 = m + i - 1
      BY <1>1, <1>2 DEF n
    <3> QED
      BY <2>2, <2>3, <3>1, <3>2, <3>3
  <2>5. Len(left) = Len(right)
    <3>1. Len(left) = (Len(kept) - n) + 1 /\ Len(right) = (Len(dq) - m) + 1
      BY <1>2, <1>3, <2>1, <2>2, <2>3
    <3> QED
      BY <2>1, <3>1
  <2>6. left = right
    BY <2>2, <2>3, <2>4, <2>5, SeqEqual
  <2> QED
    BY <2>6 DEF left, right, n
<1> QED
  BY <1>7, <1>8 DEF Evict, m, kept

-----------------------------------------------------------------------------
(* Deques of records.                                                      *)

LEMMA TimesFacts ==
  ASSUME NEW S, \A entry \in S : entry.at \in Nat, NEW dq \in Seq(S)
  PROVE  /\ Len(dq) \in Nat /\ DOMAIN dq = 1 .. Len(dq) /\ \A i \in 1 .. Len(dq) : dq[i] \in S
         /\ Times(dq) \in Seq(Nat) /\ Len(Times(dq)) = Len(dq)
         /\ \A i \in 1 .. Len(dq) : Times(dq)[i] = dq[i].at
<1>1. Len(dq) \in Nat /\ DOMAIN dq = 1 .. Len(dq) /\ \A i \in 1 .. Len(dq) : dq[i] \in S
  BY LenProperties, ElementOfSeq
<1>2. Times(dq) \in [1 .. Len(dq) -> Nat]
  BY <1>1 DEF Times
<1>3. Times(dq) \in Seq(Nat)
  BY <1>1, <1>2, SeqDef
<1>4. Len(Times(dq)) = Len(dq)
  BY <1>1, <1>2, <1>3, LenProperties
<1> QED
  BY <1>1, <1>3, <1>4 DEF Times

\* What is left of a deque of records is its end; what is gone was outdated, and
\* the first entry left is not.
LEMMA EvictEntriesFacts ==
  ASSUME NEW S, \A entry \in S : entry.at \in Nat, NEW dq \in Seq(S), NEW cutoff \in Int
  PROVE  LET kept == EvictEntries(dq, cutoff)
             gone == Len(dq) - Len(kept)
         IN  /\ kept \in Seq(S) /\ Len(kept) \in Nat /\ gone \in 0 .. Len(dq)
             /\ \A i \in 1 .. Len(kept) : kept[i] = dq[gone + i]
             /\ \A i \in 1 .. gone : dq[i].at < cutoff
             /\ Len(kept) > 0 => kept[1].at >= cutoff
<1> DEFINE k == FirstKept(Times(dq), cutoff)
           kept == EvictEntries(dq, cutoff)
<1>1. /\ Len(dq) \in Nat /\ DOMAIN dq = 1 .. Len(dq) /\ \A i \in 1 .. Len(dq) : dq[i] \in S
      /\ Times(dq) \in Seq(Nat) /\ Len(Times(dq)) = Len(dq)
      /\ \A i \in 1 .. Len(dq) : Times(dq)[i] = dq[i].at
  BY TimesFacts
<1>2. /\ k \in 1 .. Len(dq) + 1
      /\ \A i \in 1 .. k - 1 : Times(dq)[i] < cutoff
      /\ k <= Len(dq) => Times(dq)[k] >= cutoff
  BY <1>1, FirstKeptDefined
<1> HIDE DEF k
<1>3. /\ kept \in Seq(S) /\ Len(kept) = Len(dq) + 1 - k
      /\ \A i \in 1 .. Len(kept) : kept[i] = dq[k + i - 1]
  <2>1. kept = SubSeq(dq, k, Len(dq))
    BY DEF kept, EvictEntries, k
  <2> QED
    BY <1>1, <1>2, <2>1
<1> HIDE DEF kept
<1>4. Len(dq) - Len(kept) = k - 1
  BY <1>1, <1>2, <1>3
<1>5. \A i \in 1 .. k - 1 : dq[i].at < cutoff
  BY <1>1, <1>2
<1>6. ASSUME Len(kept) > 0
      PROVE  kept[1].at >= cutoff
  <2>1. k <= Len(dq) /\ k \in 1 .. Len(dq) /\ 1 \in 1 .. Len(kept) /\ k + 1 - 1 = k
    BY <1>1, <1>2, <1>3, <1>6
  <2>2. kept[1] = dq[k]
    BY <1>3, <2>1
  <2> QED
    BY <1>1, <1>2, <2>1, <2>2
<1>7. \A i \in 1 .. Len(kept) : kept[i] = dq[(k - 1) + i]
  BY <1>2, <1>3
<1> QED
  BY <1>1, <1>2, <1>3, <1>4, <1>5, <1>6, <1>7 DEF kept
=============================================================================
