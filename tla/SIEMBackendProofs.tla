-------------------------- MODULE SIEMBackendProofs --------------------------
(***************************************************************************)
(* Theorems about SIEMBackend, for every batch size, queue size, backoff   *)
(* ceiling and number of documents.                                        *)
(***************************************************************************)
EXTENDS SIEMBackend, Integers, SequenceTheorems, FiniteSetTheorems, TLAPS

\* What the proofs use of the constants.
LEMMA ConstantTypes ==
  /\ BatchSize \in Nat \ {0} /\ QueueSize \in Nat \ {0} /\ MaxBackoff \in Nat \ {0}
  /\ MaxDocs \in Nat
  BY SIEMAssumption DEF SIEMAssumption

-----------------------------------------------------------------------------
(* What a sequence holds.                                                  *)

\* A longer sequence holds one element more.
LEMMA ToSetOfAppend ==
  ASSUME NEW S, NEW s \in Seq(S), NEW x \in S
  PROVE  /\ ToSet(Append(s, x)) = ToSet(s) \cup {x}
         /\ Append(s, x) \in Seq(S) /\ Len(Append(s, x)) = Len(s) + 1
<1>1. /\ Append(s, x) \in Seq(S) /\ Len(Append(s, x)) = Len(s) + 1
      /\ \A i \in 1 .. Len(s) : Append(s, x)[i] = s[i]
      /\ Append(s, x)[Len(s) + 1] = x
      /\ Len(s) \in Nat
  BY AppendProperties, LenProperties
<1>2. DOMAIN s = 1 .. Len(s) /\ DOMAIN Append(s, x) = 1 .. Len(s) + 1
  BY <1>1, LenProperties
<1> DEFINE t == Append(s, x)
<1> HIDE DEF t
<1>3. ToSet(t) \subseteq ToSet(s) \cup {x}
  <2> SUFFICES ASSUME NEW i \in 1 .. Len(s) + 1 PROVE t[i] \in ToSet(s) \cup {x}
    BY <1>2 DEF ToSet, t
  <2>1. i \in 1 .. Len(s) \/ i = Len(s) + 1
    BY <1>1
  <2> QED
    BY <1>1, <1>2, <2>1 DEF ToSet, t
<1>4. ToSet(s) \cup {x} \subseteq ToSet(t)
  <2>1. x \in ToSet(t)
    <3>1. Len(s) + 1 \in DOMAIN t /\ t[Len(s) + 1] = x
      BY <1>1, <1>2 DEF t
    <3> QED
      BY <3>1 DEF ToSet
  <2>2. ASSUME NEW i \in DOMAIN s PROVE s[i] \in ToSet(t)
    <3>1. i \in DOMAIN t /\ t[i] = s[i]
      BY <1>1, <1>2 DEF t
    <3> QED
      BY <3>1 DEF ToSet
  <2> QED
    BY <2>1, <2>2 DEF ToSet
<1> QED
  BY <1>1, <1>3, <1>4 DEF t

\* The head of a sequence, and what is behind it.
LEMMA HeadAndTail ==
  ASSUME NEW S, NEW s \in Seq(S), s # <<>>
  PROVE  /\ Head(s) \in S /\ Head(s) = s[1] /\ Tail(s) \in Seq(S)
         /\ Len(s) \in Nat \ {0} /\ Len(Tail(s)) = Len(s) - 1
         /\ \A i \in 1 .. Len(s) - 1 : Tail(s)[i] = s[i + 1]
         /\ ToSet(s) = {Head(s)} \cup ToSet(Tail(s))
<1>1. /\ Head(s) \in S /\ Tail(s) \in Seq(S) /\ Len(Tail(s)) = Len(s) - 1
      /\ \A i \in 1 .. Len(Tail(s)) : Tail(s)[i] = s[i + 1]
  BY HeadTailProperties
<1>2. Head(s) = s[1] /\ Len(s) \in Nat \ {0}
  BY LenProperties, EmptySeq, SMT
<1>3. DOMAIN s = 1 .. Len(s) /\ DOMAIN Tail(s) = 1 .. Len(s) - 1
  BY <1>1, LenProperties
<1> DEFINE t == Tail(s)
           h == Head(s)
<1> HIDE DEF t, h
<1>4. ToSet(s) \subseteq {h} \cup ToSet(t)
  <2> SUFFICES ASSUME NEW i \in 1 .. Len(s) PROVE s[i] \in {h} \cup ToSet(t)
    BY <1>3 DEF ToSet
  <2>1. CASE i = 1
    BY <1>2, <2>1 DEF h
  <2>2. CASE i # 1
    <3>1. i - 1 \in 1 .. Len(s) - 1 /\ (i - 1) + 1 = i
      BY <1>2, <2>2
    <3>2. i - 1 \in DOMAIN t /\ t[i - 1] = s[i]
      BY <1>1, <1>3, <3>1 DEF t
    <3> QED
      BY <3>2 DEF ToSet
  <2> QED
    BY <2>1, <2>2
<1>5. {h} \cup ToSet(t) \subseteq ToSet(s)
  <2>1. h \in ToSet(s)
    <3>1. 1 \in DOMAIN s /\ h = s[1]
      BY <1>2, <1>3 DEF h
    <3> QED
      BY <3>1 DEF ToSet
  <2>2. ASSUME NEW i \in DOMAIN t PROVE t[i] \in ToSet(s)
    <3>1. i + 1 \in DOMAIN s /\ t[i] = s[i + 1]
      BY <1>1, <1>2, <1>3 DEF t
    <3> QED
      BY <3>1 DEF ToSet
  <2> QED
    BY <2>1, <2>2 DEF ToSet
<1> QED
  BY <1>1, <1>2, <1>4, <1>5 DEF t, h

\* The elements of a sequence are of its type; an empty one has none.
LEMMA ToSetType ==
  ASSUME NEW S, NEW s \in Seq(S)
  PROVE  ToSet(s) \subseteq S
<1>1. \A i \in DOMAIN s : s[i] \in S
  BY LenProperties, ElementOfSeq
<1> QED
  BY <1>1 DEF ToSet

LEMMA EmptyHoldsNothing == ToSet(<<>>) = {}
  BY DEF ToSet

\* A sequence over a set is one over a larger set.
LEMMA WiderSeq ==
  ASSUME NEW S, NEW T, S \subseteq T, NEW s \in Seq(S)
  PROVE  s \in Seq(T)
<1>1. /\ Len(s) \in Nat /\ DOMAIN s = 1 .. Len(s)
      /\ \A i \in 1 .. Len(s) : s[i] \in T
  BY LenProperties, ElementOfSeq
<1>2. s \in [1 .. Len(s) -> T]
  <2>1. s \in [1 .. Len(s) -> S]
    BY LenProperties
  <2> QED
    BY <1>1, <2>1
<1> QED
  BY <1>1, <1>2, SeqDef

-----------------------------------------------------------------------------
(* The inductive invariant.  The target can be said to receive in order    *)
(* because the queue is in the order of handing over, the batch is older   *)
(* than the queue, and nothing arrives out of the queue.                   *)

Sequenced ==
  /\ \A i, j \in DOMAIN queue : i < j => queue[i] < queue[j]
  /\ \A d \in ToSet(batch), e \in ToSet(queue) : d < e
  /\ arrived \cap ToSet(queue) = {}

\* What has arrived at a target that answers is older than all that waits.
ArrivedInOrder == answers => \A d \in arrived, e \in InHand \ arrived : d < e

IInv == TypeOK /\ NothingUnaccounted /\ Sequenced /\ ArrivedInOrder

LEMMA InitInv == Init => IInv
<1> SUFFICES ASSUME Init PROVE IInv
  OBVIOUS
<1>1. /\ ToSet(queue) = {} /\ ToSet(batch) = {} /\ InHand = {}
      /\ queue \in Seq(1 .. offered) /\ batch \in Seq(1 .. offered)
      /\ Len(queue) = 0 /\ DOMAIN queue = {}
  BY EmptyHoldsNothing, EmptySeq DEF Init, InHand
<1>2. TypeOK
  <2>1. 0 \in 0 .. MaxDocs /\ 1 \in 1 .. MaxBackoff /\ Len(queue) <= QueueSize
    BY <1>1, ConstantTypes
  <2> QED
    BY <1>1, <2>1 DEF Init, TypeOK
<1>3. NothingUnaccounted
  <2>1. (1 .. offered) \ (arrived \cup lost \cup InHand) = {}
    BY DEF Init
  <2> QED
    BY <2>1, FS_EmptySet DEF Init, NothingUnaccounted
<1>4. Sequenced /\ ArrivedInOrder
  BY <1>1 DEF Init, Sequenced, ArrivedInOrder
<1> QED
  BY <1>2, <1>3, <1>4 DEF IInv

\* What the types say of the sequences.
LEMMA SeqFacts ==
  ASSUME TypeOK
  PROVE  /\ ToSet(queue) \subseteq 1 .. offered /\ ToSet(batch) \subseteq 1 .. offered
         /\ InHand \subseteq 1 .. offered
         /\ Len(queue) \in Nat /\ DOMAIN queue = 1 .. Len(queue)
         /\ offered \in Nat
<1>1. ToSet(queue) \subseteq 1 .. offered /\ ToSet(batch) \subseteq 1 .. offered
  BY ToSetType DEF TypeOK
<1> QED
  BY <1>1, ConstantTypes, LenProperties DEF TypeOK, InHand

\* The documents that are nowhere.
Nowhere == (1 .. offered) \ (arrived \cup lost \cup InHand)

LEMMA EnqueueInv ==
  ASSUME IInv, Enqueue
  PROVE  IInv'
<1> USE DEF IInv
<1>1. /\ offered \in Nat /\ offered' = offered + 1 /\ offered' \in 0 .. MaxDocs
      /\ 1 .. offered' = (1 .. offered) \cup {offered'} /\ offered' \notin 1 .. offered
      /\ UNCHANGED <<answers, batch, due, backoff, worker, arrived, lost>>
  BY SeqFacts, ConstantTypes DEF TypeOK, Enqueue, target
<1>2. /\ queue \in Seq(1 .. offered') /\ batch \in Seq(1 .. offered')
      /\ arrived \subseteq 1 .. offered' /\ lost \subseteq 1 .. offered'
  BY <1>1, WiderSeq DEF TypeOK
<1>3. ToSet(batch') = ToSet(batch)
  BY <1>1
<1>4. CASE Len(queue) < QueueSize /\ queue' = Append(queue, offered') /\ UNCHANGED dropped
  <2>1. /\ queue' \in Seq(1 .. offered') /\ Len(queue') = Len(queue) + 1
        /\ ToSet(queue') = ToSet(queue) \cup {offered'}
    BY <1>1, <1>2, <1>4, ToSetOfAppend
  <2>2. TypeOK'
    BY <1>1, <1>2, <1>4, <2>1, SeqFacts, ConstantTypes DEF TypeOK
  <2>3. InHand' = InHand \cup {offered'}
    BY <1>3, <2>1 DEF InHand
  <2>4. NothingUnaccounted'
    <3>1. Nowhere' = Nowhere
      BY <1>1, <2>3 DEF Nowhere
    <3>2. offered' \notin arrived /\ offered' \notin lost
      BY <1>1 DEF TypeOK
    <3> QED
      BY <1>1, <1>4, <2>3, <3>1, <3>2 DEF NothingUnaccounted, Nowhere
  <2>5. Sequenced'
    <3>1. /\ \A i \in 1 .. Len(queue) : queue'[i] = queue[i]
          /\ queue'[Len(queue) + 1] = offered'
          /\ Len(queue) \in Nat /\ DOMAIN queue = 1 .. Len(queue)
          /\ DOMAIN queue' = 1 .. Len(queue) + 1
      BY <1>1, <1>2, <1>4, <2>1, AppendProperties, LenProperties
    <3>2. \A i \in 1 .. Len(queue) : queue[i] \in 1 .. offered
      BY <3>1, ElementOfSeq DEF TypeOK
    <3>3. ASSUME NEW i \in DOMAIN queue', NEW j \in DOMAIN queue', i < j
          PROVE  queue'[i] < queue'[j]
      <4>1. i \in 1 .. Len(queue)
        BY <3>1, <3>3
      <4>2. CASE j \in 1 .. Len(queue)
        BY <3>1, <3>3, <4>1, <4>2 DEF Sequenced
      <4>3. CASE j = Len(queue) + 1
        BY <1>1, <3>1, <3>2, <4>1, <4>3
      <4> QED
        BY <3>1, <4>2, <4>3
    <3>4. ASSUME NEW d \in ToSet(batch'), NEW e \in ToSet(queue')
          PROVE  d < e
      <4>1. d \in ToSet(batch) /\ d \in 1 .. offered
        BY <1>3, SeqFacts
      <4> QED
        BY <1>1, <2>1, <4>1 DEF Sequenced
    <3>5. arrived' \cap ToSet(queue') = {}
      BY <1>1, <2>1 DEF TypeOK, Sequenced
    <3> QED
      BY <3>3, <3>4, <3>5 DEF Sequenced
  <2>6. ArrivedInOrder'
    <3> SUFFICES ASSUME answers, NEW d \in arrived, NEW e \in (InHand \cup {offered'}) \ arrived
                 PROVE  d < e
      BY <1>1, <2>3 DEF ArrivedInOrder
    <3>1. d \in 1 .. offered
      BY DEF TypeOK
    <3> QED
      BY <1>1, <3>1 DEF ArrivedInOrder
  <2> QED
    BY <2>2, <2>4, <2>5, <2>6
<1>5. CASE Len(queue) = QueueSize /\ dropped' = dropped + 1 /\ UNCHANGED queue
  <2>1. TypeOK'
    BY <1>1, <1>2, <1>5 DEF TypeOK
  <2>2. InHand' = InHand /\ offered' \notin arrived \cup lost \cup InHand
    BY <1>1, <1>5, SeqFacts DEF InHand, TypeOK
  <2>3. NothingUnaccounted'
    <3>1. Nowhere' = Nowhere \cup {offered'} /\ offered' \notin Nowhere
      BY <1>1, <2>2 DEF Nowhere
    <3>2. IsFiniteSet(Nowhere)
      <4>1. IsFiniteSet(1 .. offered)
        BY <1>1, FS_Interval
      <4> QED
        BY <4>1, FS_Subset DEF Nowhere
    <3>3. Cardinality(Nowhere') = Cardinality(Nowhere) + 1
      BY <3>1, <3>2, FS_AddElement
    <3>4. dropped = Cardinality(Nowhere)
      BY DEF NothingUnaccounted, Nowhere
    <3>5. dropped' = Cardinality(Nowhere')
      BY <1>5, <3>3, <3>4
    <3> QED
      BY <1>1, <2>2, <3>5 DEF NothingUnaccounted, Nowhere
  <2>4. Sequenced' /\ ArrivedInOrder'
    BY <1>1, <1>5, <2>2 DEF Sequenced, ArrivedInOrder
  <2> QED
    BY <2>1, <2>3, <2>4
<1> QED
  BY <1>4, <1>5 DEF Enqueue

LEMMA GetInv ==
  ASSUME IInv, Get
  PROVE  IInv'
<1> USE DEF IInv, Get
<1>1. /\ Head(queue) \in 1 .. offered /\ Head(queue) = queue[1] /\ queue' \in Seq(1 .. offered)
      /\ Len(queue) \in Nat \ {0} /\ Len(queue') = Len(queue) - 1
      /\ \A i \in 1 .. Len(queue) - 1 : queue'[i] = queue[i + 1]
      /\ ToSet(queue) = {Head(queue)} \cup ToSet(queue')
  BY HeadAndTail DEF TypeOK
<1>2. /\ batch' \in Seq(1 .. offered) /\ ToSet(batch') = ToSet(batch) \cup {Head(queue)}
  BY <1>1, ToSetOfAppend DEF TypeOK
<1>3. InHand' = InHand
  BY <1>1, <1>2 DEF InHand
<1>4. TypeOK'
  BY <1>1, <1>2, ConstantTypes DEF TypeOK, target
<1>5. NothingUnaccounted' /\ ArrivedInOrder'
  BY <1>3 DEF NothingUnaccounted, ArrivedInOrder, target
<1>6. Sequenced'
  <2>1. DOMAIN queue = 1 .. Len(queue) /\ DOMAIN queue' = 1 .. Len(queue) - 1
    BY <1>1, LenProperties DEF TypeOK
  <2>2. ASSUME NEW i \in DOMAIN queue', NEW j \in DOMAIN queue', i < j
        PROVE  queue'[i] < queue'[j]
    <3>1. i + 1 \in DOMAIN queue /\ j + 1 \in DOMAIN queue /\ i + 1 < j + 1
      BY <1>1, <2>1, <2>2
    <3> QED
      BY <1>1, <2>1, <3>1 DEF Sequenced
  <2>3. ASSUME NEW e \in ToSet(queue') PROVE Head(queue) < e
    <3>1. PICK j \in DOMAIN queue' : e = queue'[j]
      BY DEF ToSet
    <3>2. 1 \in DOMAIN queue /\ j + 1 \in DOMAIN queue /\ 1 < j + 1
      BY <1>1, <2>1
    <3> QED
      BY <1>1, <2>1, <3>1, <3>2 DEF Sequenced
  <2>4. \A d \in ToSet(batch'), e \in ToSet(queue') : d < e
    BY <1>1, <1>2, <2>3 DEF Sequenced
  <2>5. arrived' \cap ToSet(queue') = {}
    BY <1>1 DEF Sequenced, target
  <2> QED
    BY <2>2, <2>4, <2>5 DEF Sequenced
<1> QED
  BY <1>4, <1>5, <1>6

\* Whatever comes of a call, the target receives documents of the batch; all of
\* it or none if it answers.
LEMMA ReceivedFacts ==
  ASSUME NEW returned \in BOOLEAN, NEW got \in Received(returned)
  PROVE  /\ got \subseteq ToSet(batch)
         /\ answers => got = ToSet(batch) \/ (got = {} /\ ~returned)
  BY DEF Received

LEMMA SendReturnsInv ==
  ASSUME IInv, SendReturns
  PROVE  IInv'
<1> USE DEF IInv, SendReturns
<1>1. PICK got \in Received(TRUE) :
        arrived' = arrived \cup got /\ lost' = lost \cup (ToSet(batch) \ arrived')
  OBVIOUS
<1>2. got \subseteq ToSet(batch) /\ (answers => got = ToSet(batch))
  BY ReceivedFacts
<1>3. /\ batch' = <<>> /\ ToSet(batch') = {} /\ batch' \in Seq(1 .. offered)
      /\ queue' = queue /\ ToSet(queue') = ToSet(queue) /\ InHand' = ToSet(queue)
  BY EmptyHoldsNothing, EmptySeq DEF InHand
<1>4. TypeOK'
  <2>1. 1 \in 1 .. MaxBackoff
    BY ConstantTypes
  <2>2. arrived' \subseteq 1 .. offered /\ lost' \subseteq 1 .. offered
    BY <1>1, <1>2, SeqFacts DEF TypeOK
  <2> QED
    BY <1>3, <2>1, <2>2 DEF TypeOK
<1>5. arrived' \cup lost' \cup InHand' = arrived \cup lost \cup InHand
  BY <1>1, <1>2, <1>3 DEF InHand
<1>6. ASSUME NEW d \in ToSet(batch) PROVE d \notin ToSet(queue)
  <2>1. d \in Nat
    BY SeqFacts
  <2>2. ~(d < d)
    BY <2>1
  <2> QED
    BY <2>2 DEF Sequenced
<1>7. arrived' \cap ToSet(queue) = {}
  BY <1>1, <1>2, <1>6 DEF Sequenced
<1>8. NothingUnaccounted'
  <2>1. lost' \cap (arrived' \cup InHand') = {}
    <3>1. lost \cap (arrived \cup ToSet(batch) \cup ToSet(queue)) = {}
      BY DEF NothingUnaccounted, InHand
    <3> QED
      BY <1>1, <1>2, <1>3, <1>6, <3>1
  <2>2. answers => lost' = {}
    BY <1>1, <1>2 DEF NothingUnaccounted
  <2> QED
    BY <1>5, <2>1, <2>2 DEF NothingUnaccounted
<1>9. Sequenced'
  BY <1>3, <1>7 DEF Sequenced
<1>10. ArrivedInOrder'
  BY <1>1, <1>2, <1>3 DEF ArrivedInOrder, Sequenced, InHand
<1> QED
  BY <1>4, <1>8, <1>9, <1>10

LEMMA SendRaisesInv ==
  ASSUME IInv, SendRaises
  PROVE  IInv'
<1> USE DEF IInv, SendRaises
<1>1. PICK got \in Received(FALSE) : arrived' = arrived \cup got
  OBVIOUS
<1>2. got \subseteq ToSet(batch) /\ (answers => got = ToSet(batch) \/ got = {})
  BY ReceivedFacts
<1>3. InHand' = InHand /\ ToSet(batch') = ToSet(batch) /\ ToSet(queue') = ToSet(queue)
  BY DEF InHand
<1>4. TypeOK'
  BY <1>1, <1>2, SeqFacts DEF TypeOK
<1>5. ASSUME NEW d \in ToSet(batch) PROVE d \notin ToSet(queue)
  <2>1. d \in Nat
    BY SeqFacts
  <2>2. ~(d < d)
    BY <2>1
  <2> QED
    BY <2>2 DEF Sequenced
<1>6. NothingUnaccounted'
  <2>1. got \subseteq InHand
    BY <1>2 DEF InHand
  <2>2. arrived' \cup lost' \cup InHand' = arrived \cup lost \cup InHand
    BY <1>1, <1>3, <2>1
  <2> QED
    BY <1>1, <1>3, <2>1, <2>2 DEF NothingUnaccounted
<1>7. Sequenced'
  BY <1>1, <1>2, <1>3, <1>5 DEF Sequenced
<1>8. ArrivedInOrder'
  BY <1>1, <1>2, <1>3 DEF ArrivedInOrder, Sequenced, InHand
<1> QED
  BY <1>4, <1>6, <1>7, <1>8

\* The other steps leave the documents where they are.
LEMMA QuietInv ==
  ASSUME IInv, DeadlinePasses \/ GetTimesOut \/ Decide \/ WakeUp \/ UNCHANGED vars
  PROVE  IInv'
<1> USE DEF IInv
<1>1. UNCHANGED <<answers, offered, queue, dropped, batch, arrived, lost>>
  BY DEF DeadlinePasses, GetTimesOut, Decide, WakeUp, vars, target
<1>2. /\ due' \in BOOLEAN /\ backoff' \in 1 .. MaxBackoff
      /\ worker' \in {"get", "decide", "send", "sleep"}
  <2>1. backoff \in 1 .. MaxBackoff /\ due \in BOOLEAN
        /\ worker \in {"get", "decide", "send", "sleep"}
    BY DEF TypeOK
  <2>2. CASE WakeUp
    <3>1. backoff' \in 1 .. MaxBackoff
      BY <2>1, <2>2, ConstantTypes DEF WakeUp
    <3>2. due' = FALSE /\ worker' = "get"
      BY <2>2 DEF WakeUp
    <3> QED
      BY <3>1, <3>2
  <2>3. CASE DeadlinePasses \/ GetTimesOut \/ Decide \/ UNCHANGED vars
    BY <2>1, <2>3 DEF DeadlinePasses, GetTimesOut, Decide, vars
  <2> QED
    BY <2>2, <2>3
<1>3. InHand' = InHand
  BY <1>1 DEF InHand
<1> QED
  BY <1>1, <1>2, <1>3 DEF TypeOK, NothingUnaccounted, Sequenced, ArrivedInOrder

LEMMA StepInv == IInv /\ [Next]_vars => IInv'
  BY EnqueueInv, GetInv, SendReturnsInv, SendRaisesInv, QuietInv DEF Next, Work

LEMMA Invariance == Spec => []IInv
<1>1. IInv /\ [Next]_vars => IInv'
  BY StepInv
<1> QED
  BY InitInv, <1>1, PTL DEF Spec

-----------------------------------------------------------------------------
(* The theorems.                                                           *)

\* Every variable keeps its type; in particular the queue never passes its bound,
\* and the backoff never passes its ceiling.
THEOREM TypeCorrect == Spec => []TypeOK
<1>1. IInv => TypeOK
  BY DEF IInv
<1> QED
  BY <1>1, Invariance, PTL

\* The dropped counter is the number of documents that are nowhere, whatever
\* fails and is sent again.
THEOREM EveryDocumentAccounted == Spec => []NothingUnaccounted
<1>1. IInv => NothingUnaccounted
  BY DEF IInv
<1> QED
  BY <1>1, Invariance, PTL

\* A target that answers gets the documents in the order they were handed over,
\* however often it is sent them.
THEOREM ArrivesInOrder == Spec => []ArrivedInOrder
<1>1. IInv => ArrivedInOrder
  BY DEF IInv
<1> QED
  BY <1>1, Invariance, PTL

-----------------------------------------------------------------------------
(* The refinement.                                                         *)

Pending == InHand \ arrived

\* A call that returns settles the whole batch, the oldest of what waits.
LEMMA SendReturnsRefines ==
  ASSUME IInv, SendReturns
  PROVE  Channel!Settle
<1> USE DEF IInv, SendReturns
<1>1. PICK got \in Received(TRUE) :
        arrived' = arrived \cup got /\ lost' = lost \cup (ToSet(batch) \ arrived')
  OBVIOUS
<1>2. got \subseteq ToSet(batch) /\ (answers => got = ToSet(batch))
  BY ReceivedFacts
<1> DEFINE new == got \ arrived
           gone == ToSet(batch) \ arrived'
<1>3. /\ InHand' = ToSet(queue) /\ InHand = ToSet(batch) \cup ToSet(queue)
      /\ arrived \cap ToSet(queue) = {}
  BY EmptyHoldsNothing DEF InHand, Sequenced
<1>4. new \in SUBSET Pending /\ gone \in SUBSET Pending
  BY <1>1, <1>2, <1>3 DEF Pending
<1>5. new \cap gone = {} /\ (answers => gone = {})
  BY <1>1, <1>2
<1>6. \A d \in new \cup gone, e \in Pending \ (new \cup gone) : d < e
  <2> SUFFICES ASSUME NEW d \in new \cup gone, NEW e \in Pending \ (new \cup gone)
               PROVE  d < e
    OBVIOUS
  <2>1. d \in ToSet(batch)
    BY <1>2
  <2>2. e \in ToSet(queue)
    BY <1>1, <1>2, <1>3 DEF Pending
  <2> QED
    BY <2>1, <2>2 DEF Sequenced
<1>7. arrived' = arrived \cup new /\ lost' = lost \cup gone
  BY <1>1
<1>8. Pending' = Pending \ (new \cup gone)
  <2>1. ASSUME NEW d \in ToSet(batch) PROVE d \notin ToSet(queue)
    <3>1. d \in Nat
      BY SeqFacts
    <3>2. ~(d < d)
      BY <3>1
    <3> QED
      BY <3>2 DEF Sequenced
  <2> QED
    BY <1>1, <1>2, <1>3, <2>1 DEF Pending
<1> HIDE DEF new, gone
<1>9. \E a, b \in SUBSET Pending :
        /\ a \cap b = {}
        /\ answers => b = {}
        /\ answers \/ b # {} => \A d \in a \cup b, e \in Pending \ (a \cup b) : d < e
        /\ arrived' = arrived \cup a
        /\ lost' = lost \cup b
        /\ Pending' = Pending \ (a \cup b)
  BY <1>4, <1>5, <1>6, <1>7, <1>8
<1> QED
  BY <1>9 DEF Channel!Settle, Channel!OldestOf, Pending

\* A call that raises settles what got through.
LEMMA SendRaisesRefines ==
  ASSUME IInv, SendRaises
  PROVE  Channel!Settle
<1> USE DEF IInv, SendRaises
<1>1. PICK got \in Received(FALSE) : arrived' = arrived \cup got
  OBVIOUS
<1>2. got \subseteq ToSet(batch) /\ (answers => got = ToSet(batch) \/ got = {})
  BY ReceivedFacts
<1> DEFINE new == got \ arrived
<1>3. InHand' = InHand /\ InHand = ToSet(batch) \cup ToSet(queue)
  BY DEF InHand
<1>4. new \in SUBSET Pending /\ {} \in SUBSET Pending
  BY <1>2, <1>3 DEF Pending
<1>5. answers => \A d \in new, e \in Pending \ new : d < e
  <2> SUFFICES ASSUME answers, NEW d \in new, NEW e \in Pending \ new PROVE d < e
    OBVIOUS
  <2>1. got = ToSet(batch) /\ d \in ToSet(batch)
    BY <1>2
  <2>2. e \in ToSet(queue)
    BY <1>3, <2>1 DEF Pending
  <2> QED
    BY <2>1, <2>2 DEF Sequenced
<1>6. arrived' = arrived \cup new /\ lost' = lost \cup {} /\ Pending' = Pending \ (new \cup {})
  BY <1>1, <1>3 DEF Pending
<1> HIDE DEF new
<1>7. \E a, b \in SUBSET Pending :
        /\ a \cap b = {}
        /\ answers => b = {}
        /\ answers \/ b # {} => \A d \in a \cup b, e \in Pending \ (a \cup b) : d < e
        /\ arrived' = arrived \cup a
        /\ lost' = lost \cup b
        /\ Pending' = Pending \ (a \cup b)
  <2>1. new \cup {} = new
    OBVIOUS
  <2> QED
    BY <1>4, <1>5, <1>6, <2>1
<1> QED
  BY <1>7 DEF Channel!Settle, Channel!OldestOf, Pending

LEMMA EnqueueRefines ==
  ASSUME IInv, Enqueue
  PROVE  Channel!Accept \/ Channel!TurnAway
<1> USE DEF IInv
<1>1. /\ offered < MaxDocs /\ offered' = offered + 1 /\ offered' \notin arrived
      /\ UNCHANGED <<answers, batch, arrived, lost>>
  BY SeqFacts DEF Enqueue, target, TypeOK
<1>2. CASE Len(queue) < QueueSize /\ queue' = Append(queue, offered') /\ UNCHANGED dropped
  <2>1. queue \in Seq(Nat) /\ offered' \in Nat
    <3>1. 1 .. offered \subseteq Nat /\ offered' \in Nat
      BY <1>1, SeqFacts
    <3> QED
      BY <3>1, WiderSeq DEF TypeOK
  <2>2. ToSet(queue') = ToSet(queue) \cup {offered'}
    BY <1>2, <2>1, ToSetOfAppend
  <2>3. Pending' = Pending \cup {offered'}
    BY <1>1, <2>2 DEF Pending, InHand
  <2> QED
    BY <1>1, <1>2, <2>3 DEF Channel!Accept, Pending
<1>3. CASE Len(queue) = QueueSize /\ dropped' = dropped + 1 /\ UNCHANGED queue
  BY <1>1, <1>3 DEF Channel!TurnAway, InHand
<1> QED
  BY <1>2, <1>3 DEF Enqueue

\* Getting a document, waiting and deciding are invisible.
LEMMA QuietRefines ==
  ASSUME IInv, Get \/ DeadlinePasses \/ GetTimesOut \/ Decide \/ WakeUp \/ UNCHANGED vars
  PROVE  UNCHANGED Channel!vars
<1>1. UNCHANGED <<answers, offered, dropped, arrived, lost>>
  BY DEF Get, DeadlinePasses, GetTimesOut, Decide, WakeUp, vars, target
<1>2. InHand' = InHand
  <2>1. CASE Get
    <3>1. ToSet(queue) = {Head(queue)} \cup ToSet(queue') /\ Head(queue) \in 1 .. offered
      BY <2>1, HeadAndTail DEF Get, IInv, TypeOK
    <3>2. ToSet(batch') = ToSet(batch) \cup {Head(queue)}
      BY <2>1, <3>1, ToSetOfAppend DEF Get, IInv, TypeOK
    <3> QED
      BY <3>1, <3>2 DEF InHand
  <2>2. CASE DeadlinePasses \/ GetTimesOut \/ Decide \/ WakeUp \/ UNCHANGED vars
    BY <2>2 DEF DeadlinePasses, GetTimesOut, Decide, WakeUp, vars, InHand
  <2> QED
    BY <2>1, <2>2
<1> QED
  BY <1>1, <1>2 DEF Channel!vars

\* The backend is the channel: it turns away at the door, counted, gives up only
\* the oldest behind a send that returned, and where the target answers it gives
\* up nothing and keeps the order.
THEOREM RefinesChannel == Spec => ImplementsChannel
<1>1. Init => Channel!Init
  BY EmptyHoldsNothing DEF Init, Channel!Init, InHand
<1>2. IInv /\ [Next]_vars => [Channel!Next]_(Channel!vars)
  BY SendReturnsRefines, SendRaisesRefines, EnqueueRefines, QuietRefines
     DEF Next, Work, Channel!Next
<1> QED
  BY <1>1, <1>2, Invariance, PTL DEF Spec, ImplementsChannel, Channel!Spec
=============================================================================
