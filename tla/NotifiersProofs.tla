--------------------------- MODULE NotifiersProofs ---------------------------
(***************************************************************************)
(* Theorems about Notifiers, for every set of types and channels, every    *)
(* cooldown, notify_on list, queue size, number of retries and schedule of *)
(* silent hours.                                                           *)
(***************************************************************************)
EXTENDS Notifiers, SequenceTheorems, TLAPS

\* What the proofs use of the constants.
LEMMA ConstantTypes ==
  /\ Cooldown \in Nat /\ MailCooldown \in Nat /\ BootTime \in Nat
  /\ MaxTime \in Nat /\ MaxAlerts \in Nat
  /\ QueueSize \in [Notifiers -> Nat \ {0}] /\ Retries \in Nat \ {0}
  /\ Report \in Nat \ {0} /\ Alerts \subseteq Nat \ {0} /\ Report \notin Alerts
  /\ 0 \notin Messages /\ Report \in Messages /\ Alerts \subseteq Messages
  BY NotifiersAssumption DEF NotifiersAssumption, Report, Alerts, Messages

LEMMA ClassType ==
  ASSUME NEW type \in Types
  PROVE  Class(type) \in Classes
  BY DEF Classes

-----------------------------------------------------------------------------
(* A message that moves on through a notifier: what it has settled, what   *)
(* its worker holds and what waits, put together, stay one sequence.       *)

LEMMA PutKeepsOrder ==
  ASSUME NEW S, NEW s \in Seq(S), NEW h \in Seq(S), NEW q \in Seq(S), NEW m \in S
  PROVE  s \o h \o Append(q, m) = Append(s \o h \o q, m)
<1> DEFINE front == s \o h
<1>1. front \in Seq(S) /\ <<m>> \in Seq(S)
  BY ConcatProperties
<1> HIDE DEF front
<1>2. front \o q \in Seq(S)
  BY <1>1, ConcatProperties
<1>3. (front \o q) \o <<m>> = front \o (q \o <<m>>)
  BY <1>1, ConcatAssociative
<1>4. Append(q, m) = q \o <<m>> /\ Append(front \o q, m) = (front \o q) \o <<m>>
  BY <1>2, AppendIsConcat
<1> QED
  BY <1>3, <1>4 DEF front

LEMMA TakeKeepsOrder ==
  ASSUME NEW S, NEW s \in Seq(S), NEW q \in Seq(S), q # <<>>
  PROVE  s \o <<Head(q)>> \o Tail(q) = s \o <<>> \o q
<1>1. Head(q) \in S /\ Tail(q) \in Seq(S) /\ <<Head(q)>> \o Tail(q) = q
  BY HeadTailProperties, SMT
<1>2. <<Head(q)>> \in Seq(S)
  BY <1>1
<1>3. (s \o <<Head(q)>>) \o Tail(q) = s \o (<<Head(q)>> \o Tail(q))
  BY <1>1, <1>2, ConcatAssociative
<1>4. s \o <<>> = s
  BY ConcatEmptySeq
<1> QED
  BY <1>1, <1>3, <1>4

LEMMA SettleKeepsOrder ==
  ASSUME NEW S, NEW s \in Seq(S), NEW q \in Seq(S), NEW m \in S
  PROVE  Append(s, m) \o <<>> \o q = s \o <<m>> \o q
<1>1. Append(s, m) \in Seq(S) /\ Append(s, m) = s \o <<m>>
  BY AppendProperties, AppendIsConcat
<1>2. Append(s, m) \o <<>> = Append(s, m)
  BY <1>1, ConcatEmptySeq
<1> QED
  BY <1>1, <1>2

-----------------------------------------------------------------------------
(* The inductive invariant.  NoStorm and HeldBackWithCause speak of alerts *)
(* long past; what the code remembers of them is one instant per type and  *)
(* one per class, and the three parts in the middle say what those are.    *)

\* The mail cooldown is at least as recent as any mail of the class.
MailRemembered ==
  \A i \in Elements(accepted["email"]) :
    i # Report => i <= Len(routed) /\ BootTime + routed[i] <= lastMail[Class(raised[i].type)]

\* _last_alert is at least as recent as any alert of the type that went out ...
DispatchRemembered ==
  \A i \in posted : i <= Len(raised) /\ raised[i].at <= lastAlert[raised[i].type]

\* ... and is the default or the instant of one of them.
CooldownHasCause ==
  \A type \in Types :
    \/ lastAlert[type] = 0
    \/ \E i \in posted : raised[i].type = type /\ raised[i].at = lastAlert[type]

\* A worker that is not idle holds a message.
JobHasMessage == \A w \in Notifiers : job[w] # Idle => job[w].message \in Messages

\* The two halves of NoStorm: the mails, and what AlertManager dispatches.
MailsApart ==
  \A i, j \in DOMAIN routed :
    i < j /\ {i, j} \subseteq Elements(accepted["email"]) /\ Class(raised[i].type) = Class(raised[j].type)
      => routed[j] - routed[i] >= MailCooldown

DispatchesApart ==
  \A i, j \in posted :
    i < j /\ raised[i].type = raised[j].type => raised[j].at - raised[i].at >= Cooldown

MailInv == MailRemembered /\ MailsApart
ManagerInv == DispatchRemembered /\ CooldownHasCause /\ DispatchesApart /\ HeldBackWithCause
QueueInv == JobHasMessage /\ SettledInOrder

IInv == TypeOK /\ MailInv /\ ManagerInv /\ QueueInv

LEMMA InvImplies == IInv => TypeOK /\ NoStorm /\ SettledInOrder /\ HeldBackWithCause
  BY DEF IInv, MailInv, ManagerInv, QueueInv, NoStorm, MailsApart, DispatchesApart

LEMMA EmptyFacts ==
  /\ \A S : <<>> \in Seq(S)
  /\ Len(<<>>) = 0 /\ DOMAIN <<>> = {} /\ Elements(<<>>) = {}
<1>1. \A S : <<>> \in Seq(S)
  BY EmptySeq
<1>2. Len(<<>>) = 0 /\ DOMAIN <<>> = {}
  BY EmptySeq
<1> QED
  BY <1>1, <1>2 DEF Elements

LEMMA InitInv == Init => IInv
<1> SUFFICES ASSUME Init PROVE IInv
  OBVIOUS
<1> USE EmptyFacts DEF Init
<1>1. TypeOK
  <2>1. /\ 0 \in 0 .. MaxTime /\ 0 \in 0 .. BootTime + 0 /\ 0 \in 0 .. Retries - 1
        /\ \A w \in Notifiers : QueueSize[w] >= 0
    BY ConstantTypes
  <2>2. lastAlert \in [Types -> 0 .. MaxTime] /\ lastMail \in [Classes -> 0 .. Wall]
    BY <2>1 DEF Wall
  <2>3. /\ {queue, accepted, settled} \subseteq [Notifiers -> Seq(Messages)]
        /\ \A w \in Notifiers : Len(queue[w]) <= QueueSize[w]
    BY <2>1
  <2>4. job \in [Notifiers -> [message : Messages \cup {0}, tries : 0 .. Retries - 1]]
    BY <2>1 DEF Idle
  <2>5. /\ raised \in Seq([type : Types, at : 0 .. MaxTime]) /\ Len(raised) <= MaxAlerts
        /\ routed \in Seq(0 .. MaxTime) /\ Len(raised) = Len(routed) + (IF firing THEN 1 ELSE 0)
    BY ConstantTypes
  <2> QED
    BY <2>1, <2>2, <2>3, <2>4, <2>5 DEF TypeOK
<1>2. MailInv
  <2>1. DOMAIN routed = {} /\ Elements(accepted["email"]) = {}
    BY DEF Notifiers
  <2> QED
    BY <2>1 DEF MailInv, MailRemembered, MailsApart
<1>3. ManagerInv
  BY DEF ManagerInv, DispatchRemembered, CooldownHasCause, DispatchesApart, HeldBackWithCause
<1>4. QueueInv
  <2>1. <<>> \o <<>> = <<>>
    BY ConcatEmptySeq
  <2>2. \A w \in Notifiers : accepted[w] = <<>> /\ settled[w] = <<>> /\ queue[w] = <<>> /\ job[w] = Idle
    OBVIOUS
  <2> QED
    BY <2>1, <2>2 DEF QueueInv, JobHasMessage, SettledInOrder
<1> QED
  BY <1>1, <1>2, <1>3, <1>4 DEF IInv

-----------------------------------------------------------------------------
(* AlertManager.                                                           *)

\* The list of alerts grows at its end; what is said of the others stands.
LEMMA RaisedGrows ==
  ASSUME TypeOK, NEW type \in Types, raised' = Append(raised, [type |-> type, at |-> now])
  PROVE  /\ raised' \in Seq([type : Types, at : 0 .. MaxTime])
         /\ Len(raised) \in Nat /\ Len(raised') = Len(raised) + 1
         /\ DOMAIN raised = 1 .. Len(raised) /\ DOMAIN raised' = 1 .. Len(raised) + 1
         /\ \A i \in 1 .. Len(raised) : raised'[i] = raised[i]
         /\ raised'[Len(raised) + 1].type = type /\ raised'[Len(raised) + 1].at = now
<1>1. raised \in Seq([type : Types, at : 0 .. MaxTime]) /\ now \in 0 .. MaxTime
  BY DEF TypeOK
<1>2. [type |-> type, at |-> now] \in [type : Types, at : 0 .. MaxTime]
  BY <1>1
<1>3. /\ raised' \in Seq([type : Types, at : 0 .. MaxTime])
      /\ Len(raised') = Len(raised) + 1
      /\ \A i \in 1 .. Len(raised) : raised'[i] = raised[i]
      /\ raised'[Len(raised) + 1] = [type |-> type, at |-> now]
  BY <1>1, <1>2, AppendProperties
<1>4. Len(raised) \in Nat /\ DOMAIN raised = 1 .. Len(raised) /\ DOMAIN raised' = 1 .. Len(raised')
  BY <1>1, <1>3, LenProperties
<1> QED
  BY <1>3, <1>4

\* An alert's type and instant.
LEMMA RaisedType ==
  ASSUME TypeOK, NEW i \in 1 .. Len(raised)
  PROVE  raised[i].type \in Types /\ raised[i].at \in 0 .. MaxTime
<1>1. raised[i] \in [type : Types, at : 0 .. MaxTime]
  BY ElementOfSeq DEF TypeOK
<1> QED
  BY <1>1

LEMMA FireType ==
  ASSUME TypeOK, NEW type \in Types, Fire(type)
  PROVE  TypeOK'
<1> DEFINE alert == Len(raised) + 1
<1>1. /\ raised' = Append(raised, [type |-> type, at |-> now]) /\ alert <= MaxAlerts
      /\ ~firing /\ firing' = TRUE
      /\ UNCHANGED <<now, lastMail, queueVars, workerVars, routed, reported>>
  BY DEF Fire
<1>2. /\ raised' \in Seq([type : Types, at : 0 .. MaxTime]) /\ Len(raised) \in Nat
      /\ Len(raised') = Len(raised) + 1
  BY <1>1, RaisedGrows
<1>3. alert \in Alerts
  BY <1>1, <1>2 DEF Alerts
<1>4. lastAlert' \in [Types -> 0 .. MaxTime] /\ posting' \subseteq Channels \X Alerts /\ posted' \subseteq Alerts
  <2>1. CASE /\ lastAlert' = [lastAlert EXCEPT ![type] = now]
             /\ posting' = posting \cup (Channels \X {alert})
             /\ posted' = posted \cup {alert}
    BY <1>3, <2>1 DEF TypeOK
  <2>2. CASE UNCHANGED managerVars
    BY <2>2 DEF TypeOK, managerVars
  <2> QED
    BY <2>1, <2>2 DEF Fire
<1>5. Len(routed) \in Nat /\ Len(raised') = Len(routed') + (IF firing' THEN 1 ELSE 0)
  BY <1>1, <1>2, LenProperties DEF TypeOK
<1> QED
  BY <1>1, <1>2, <1>4, <1>5 DEF TypeOK, Wall, queueVars, workerVars

LEMMA FireManager ==
  ASSUME TypeOK, ManagerInv, NEW type \in Types, Fire(type)
  PROVE  ManagerInv'
<1> USE DEF ManagerInv
<1> DEFINE alert == Len(raised) + 1
<1>1. raised' = Append(raised, [type |-> type, at |-> now])
  BY DEF Fire
<1>2. /\ Len(raised) \in Nat /\ Len(raised') = Len(raised) + 1
      /\ DOMAIN raised = 1 .. Len(raised) /\ DOMAIN raised' = 1 .. Len(raised) + 1
      /\ \A i \in 1 .. Len(raised) : raised'[i] = raised[i]
      /\ raised'[alert].type = type /\ raised'[alert].at = now
  BY <1>1, RaisedGrows
<1>3. \A i \in posted : i \in 1 .. Len(raised)
  BY <1>2 DEF TypeOK, DispatchRemembered, Alerts
<1>4. \A i \in 1 .. Len(raised) : raised[i].type \in Types /\ raised[i].at \in Nat
  BY RaisedType
<1>5. now \in Nat /\ lastAlert \in [Types -> 0 .. MaxTime]
  BY DEF TypeOK
<1>6. CASE /\ Dispatches(type)
           /\ lastAlert' = [lastAlert EXCEPT ![type] = now]
           /\ posted' = posted \cup {alert}
  <2>1. now - lastAlert[type] >= Cooldown /\ lastAlert[type] \in Nat /\ lastAlert[type] <= now
    BY <1>5, <1>6, ConstantTypes DEF Dispatches
  <2>2. ASSUME NEW i \in posted
        PROVE  /\ i \in 1 .. Len(raised) /\ i # alert /\ i < alert /\ raised'[i] = raised[i]
               /\ raised[i].type \in Types /\ raised[i].at \in Nat
               /\ raised[i].at <= lastAlert[raised[i].type]
    BY <1>2, <1>3, <1>4 DEF DispatchRemembered
  <2> HIDE DEF alert
  <2>3. DispatchRemembered'
    <3>1. ASSUME NEW i \in posted
          PROVE  raised'[i].at <= lastAlert'[raised'[i].type]
      <4>1. CASE raised[i].type = type
        BY <1>5, <1>6, <2>1, <2>2, <4>1
      <4>2. CASE raised[i].type # type
        BY <1>5, <1>6, <2>2, <4>2
      <4> QED
        BY <4>1, <4>2
    <3>2. raised'[alert].at <= lastAlert'[raised'[alert].type]
      BY <1>2, <1>5, <1>6
    <3>3. \A i \in posted' : i <= Len(raised')
      BY <1>2, <1>6, <2>2 DEF alert
    <3> QED
      BY <1>6, <3>1, <3>2, <3>3 DEF DispatchRemembered
  <2>4. CooldownHasCause'
    <3> SUFFICES ASSUME NEW other \in Types
                 PROVE  \/ lastAlert'[other] = 0
                        \/ \E i \in posted' : raised'[i].type = other /\ raised'[i].at = lastAlert'[other]
      BY DEF CooldownHasCause
    <3>1. CASE other = type
      BY <1>2, <1>5, <1>6, <3>1
    <3>2. CASE other # type
      BY <1>5, <1>6, <2>2, <3>2 DEF CooldownHasCause
    <3> QED
      BY <3>1, <3>2
  <2>5. DispatchesApart'
    <3> SUFFICES ASSUME NEW i \in posted', NEW j \in posted', i < j, raised'[i].type = raised'[j].type
                 PROVE  raised'[j].at - raised'[i].at >= Cooldown
      BY DEF DispatchesApart
    <3>1. CASE i \in posted /\ j \in posted
      BY <2>2, <3>1 DEF DispatchesApart
    <3>2. CASE i \in posted /\ j = alert
      <4>1. raised[i].type = type /\ raised'[i].at = raised[i].at /\ raised'[j].at = now
        BY <1>2, <2>2, <3>2
      <4>2. raised[i].at \in Nat /\ raised[i].at <= lastAlert[type]
        BY <2>2, <3>2, <4>1
      <4> QED
        BY <1>5, <2>1, <4>1, <4>2, ConstantTypes
    <3>3. CASE i = alert
      <4>1. j < alert \/ j = alert
        BY <1>6, <2>2
      <4> QED
        BY <1>2, <3>3, <4>1 DEF alert
    <3> QED
      BY <1>6, <3>1, <3>2, <3>3
  <2>6. HeldBackWithCause'
    <3> SUFFICES ASSUME NEW j \in DOMAIN raised', raised'[j].type \in Triggers, j \notin posted'
                 PROVE  \/ raised'[j].at < Cooldown
                        \/ \E i \in posted' : /\ i < j /\ raised'[i].type = raised'[j].type
                                             /\ raised'[j].at - raised'[i].at < Cooldown
      BY DEF HeldBackWithCause
    <3>1. j \in 1 .. Len(raised) /\ j \notin posted /\ raised'[j] = raised[j]
      BY <1>2, <1>6 DEF alert
    <3> QED
      BY <1>2, <1>6, <2>2, <3>1 DEF HeldBackWithCause
  <2> QED
    BY <2>3, <2>4, <2>5, <2>6
<1>7. CASE ~Dispatches(type) /\ UNCHANGED managerVars
  <2>1. posted' = posted /\ lastAlert' = lastAlert /\ \A i \in posted : raised'[i] = raised[i]
    BY <1>2, <1>3, <1>7 DEF managerVars
  <2>2. DispatchRemembered' /\ CooldownHasCause' /\ DispatchesApart'
    BY <1>2, <1>3, <2>1 DEF DispatchRemembered, CooldownHasCause, DispatchesApart
  <2>3. HeldBackWithCause'
    <3> SUFFICES ASSUME NEW j \in DOMAIN raised', raised'[j].type \in Triggers, j \notin posted'
                 PROVE  \/ raised'[j].at < Cooldown
                        \/ \E i \in posted' : /\ i < j /\ raised'[i].type = raised'[j].type
                                             /\ raised'[j].at - raised'[i].at < Cooldown
      BY DEF HeldBackWithCause
    <3>1. CASE j \in 1 .. Len(raised)
      BY <1>2, <2>1, <3>1 DEF HeldBackWithCause
    <3>2. CASE j = alert
      <4>1. type \in Triggers /\ raised'[j].at = now /\ raised'[j].type = type
        BY <1>2, <3>2
      <4>2. now - lastAlert[type] < Cooldown
        BY <1>5, <1>7, <4>1, ConstantTypes DEF Dispatches
      <4>3. CASE lastAlert[type] = 0
        BY <1>5, <4>1, <4>2, <4>3
      <4>4. CASE \E i \in posted : raised[i].type = type /\ raised[i].at = lastAlert[type]
        <5>1. PICK i \in posted : raised[i].type = type /\ raised[i].at = lastAlert[type]
          BY <4>4
        <5>2. i < j /\ raised'[i] = raised[i]
          BY <1>2, <1>3, <2>1, <3>2
        <5> QED
          BY <2>1, <4>1, <4>2, <5>1, <5>2
      <4> QED
        BY <4>3, <4>4 DEF CooldownHasCause
    <3> QED
      BY <1>2, <3>1, <3>2
  <2> QED
    BY <2>2, <2>3
<1> QED
  BY <1>6, <1>7 DEF Fire

\* The notifiers' part looks at the type of alerts that have come to them, and
\* these were raised before.
LEMMA FireMail ==
  ASSUME TypeOK, MailInv, NEW type \in Types, Fire(type)
  PROVE  MailInv'
<1>1. /\ raised' = Append(raised, [type |-> type, at |-> now])
      /\ UNCHANGED <<lastMail, accepted, routed>>
  BY DEF Fire, queueVars
<1>2. /\ Len(raised) \in Nat
      /\ \A i \in 1 .. Len(raised) : raised'[i] = raised[i]
  BY <1>1, RaisedGrows
<1>3. Len(routed) \in Nat /\ DOMAIN routed = 1 .. Len(routed) /\ Len(routed) <= Len(raised)
  BY <1>2, LenProperties DEF TypeOK
<1>4. \A i \in DOMAIN routed : raised'[i] = raised[i]
  BY <1>2, <1>3
<1>5. MailRemembered'
  <2> SUFFICES ASSUME NEW i \in Elements(accepted["email"]), i # Report
               PROVE  i <= Len(routed) /\ BootTime + routed[i] <= lastMail[Class(raised'[i].type)]
    BY <1>1 DEF MailRemembered
  <2>1. i <= Len(routed) /\ BootTime + routed[i] <= lastMail[Class(raised[i].type)]
    BY DEF MailInv, MailRemembered
  <2>2. i \in Messages
    <3>1. accepted["email"] \in Seq(Messages)
      BY DEF TypeOK, Notifiers
    <3> QED
      BY <3>1, ElementOfSeq, LenProperties DEF Elements
  <2>3. i \in DOMAIN routed
    BY <1>3, <2>1, <2>2, ConstantTypes DEF Messages
  <2> QED
    BY <1>4, <2>1, <2>3
<1>6. MailsApart'
  BY <1>1, <1>4 DEF MailInv, MailsApart
<1> QED
  BY <1>5, <1>6 DEF MailInv

-----------------------------------------------------------------------------
(* The notifiers' queues.                                                  *)

LEMMA EnqueueFacts ==
  ASSUME TypeOK, NEW takers \in SUBSET Notifiers, NEW message \in Messages,
         Enqueue(takers, message)
  PROVE  /\ {queue', accepted'} \subseteq [Notifiers -> Seq(Messages)]
         /\ \A w \in Notifiers : Len(queue'[w]) <= QueueSize[w]
         /\ \A w \in Notifiers :
              \/ queue'[w] = queue[w] /\ accepted'[w] = accepted[w]
              \/ /\ w \in takers
                 /\ queue'[w] = Append(queue[w], message)
                 /\ accepted'[w] = Append(accepted[w], message)
<1>1. \A w \in Notifiers :
        /\ queue[w] \in Seq(Messages) /\ accepted[w] \in Seq(Messages)
        /\ Len(queue[w]) \in Nat /\ Len(queue[w]) <= QueueSize[w] /\ QueueSize[w] \in Nat
  BY LenProperties, ConstantTypes DEF TypeOK
<1>2. /\ queue' = [w \in Notifiers |-> IF w \in takers /\ HasRoom(w)
                                        THEN Append(queue[w], message) ELSE queue[w]]
      /\ accepted' = [w \in Notifiers |-> IF w \in takers /\ HasRoom(w)
                                           THEN Append(accepted[w], message) ELSE accepted[w]]
  BY DEF Enqueue
<1>3. ASSUME NEW w \in Notifiers
      PROVE  /\ queue'[w] \in Seq(Messages) /\ accepted'[w] \in Seq(Messages)
             /\ Len(queue'[w]) <= QueueSize[w]
             /\ \/ queue'[w] = queue[w] /\ accepted'[w] = accepted[w]
                \/ /\ w \in takers
                   /\ queue'[w] = Append(queue[w], message)
                   /\ accepted'[w] = Append(accepted[w], message)
  <2>1. CASE w \in takers /\ HasRoom(w)
    <3>1. queue'[w] = Append(queue[w], message) /\ accepted'[w] = Append(accepted[w], message)
      BY <1>2, <2>1
    <3>2. queue'[w] \in Seq(Messages) /\ accepted'[w] \in Seq(Messages) /\ Len(queue'[w]) = Len(queue[w]) + 1
      BY <1>1, <3>1, AppendProperties
    <3> QED
      BY <1>1, <2>1, <3>1, <3>2 DEF HasRoom
  <2>2. CASE ~(w \in takers /\ HasRoom(w))
    BY <1>1, <1>2, <2>2
  <2> QED
    BY <2>1, <2>2
<1>4. queue' = [w \in Notifiers |-> queue'[w]] /\ accepted' = [w \in Notifiers |-> accepted'[w]]
  BY <1>2
<1>5. {queue', accepted'} \subseteq [Notifiers -> Seq(Messages)]
  BY <1>3, <1>4
<1> QED
  BY <1>3, <1>5

\* Where a message is, of one notifier.
InHand(w) == IF job[w] = Idle THEN <<>> ELSE <<job[w].message>>

LEMMA InHandType ==
  ASSUME QueueInv, NEW w \in Notifiers
  PROVE  InHand(w) \in Seq(Messages)
<1>1. CASE job[w] = Idle
  BY <1>1, EmptySeq DEF InHand
<1>2. CASE job[w] # Idle
  <2>1. job[w].message \in Messages
    BY <1>2 DEF QueueInv, JobHasMessage
  <2> QED
    BY <1>2, <2>1 DEF InHand
<1> QED
  BY <1>1, <1>2

\* Two threads put messages in, and both at the end.
LEMMA EnqueueQueues ==
  ASSUME TypeOK, QueueInv, NEW takers \in SUBSET Notifiers, NEW message \in Messages,
         Enqueue(takers, message), UNCHANGED workerVars
  PROVE  QueueInv'
<1>1. job' = job /\ settled' = settled
  BY DEF workerVars
<1>2. JobHasMessage'
  BY <1>1 DEF QueueInv, JobHasMessage
<1>3. ASSUME NEW w \in Notifiers
      PROVE  accepted'[w] = settled'[w] \o InHand(w)' \o queue'[w]
  <2> DEFINE s == settled[w]
             h == InHand(w)
             q == queue[w]
  <2>1. accepted[w] = s \o h \o q /\ InHand(w)' = h
    BY <1>1 DEF QueueInv, SettledInOrder, InHand
  <2>2. s \in Seq(Messages) /\ h \in Seq(Messages) /\ q \in Seq(Messages)
    BY InHandType DEF TypeOK
  <2> HIDE DEF s, h, q
  <2>3. s \o h \o Append(q, message) = Append(s \o h \o q, message)
    BY <2>2, PutKeepsOrder
  <2> QED
    BY <1>1, <2>1, <2>3, EnqueueFacts DEF s, h, q
<1> QED
  BY <1>2, <1>3 DEF QueueInv, SettledInOrder, InHand

\* An alert comes to the notifiers.
LEMMA RouteType ==
  ASSUME TypeOK, Route
  PROVE  /\ TypeOK'
         /\ Len(raised) \in Nat /\ Len(raised) = Len(routed) + 1 /\ Len(routed) \in Nat
         /\ Len(raised) \in Alerts /\ raised[Len(raised)].type \in Types
         /\ routed' \in Seq(0 .. MaxTime) /\ Len(routed') = Len(routed) + 1
         /\ \A i \in 1 .. Len(routed) : routed'[i] = routed[i]
         /\ routed'[Len(raised)] = now
<1> DEFINE type == raised[Len(raised)].type
           takers == {w \in Notifiers : Wanted(w, type)}
<1>1. /\ firing /\ ~firing' /\ firing' \in BOOLEAN /\ routed' = Append(routed, now)
      /\ lastMail' = IF EmailWants(type) THEN [lastMail EXCEPT ![Class(type)] = Wall] ELSE lastMail
      /\ Enqueue(takers, Len(raised))
      /\ UNCHANGED <<now, managerVars, workerVars, raised, reported>>
  BY DEF Route
<1>2. now \in 0 .. MaxTime /\ routed \in Seq(0 .. MaxTime)
  BY DEF TypeOK
<1>3. Len(routed) \in Nat /\ Len(raised) \in Nat /\ Len(raised) = Len(routed) + 1
  BY <1>1, <1>2, LenProperties DEF TypeOK
<1>4. Len(raised) \in Alerts /\ Len(raised) \in 1 .. Len(raised)
  BY <1>3 DEF TypeOK, Alerts
<1>5. type \in Types
  BY <1>4, RaisedType
<1>6. /\ routed' \in Seq(0 .. MaxTime) /\ Len(routed') = Len(routed) + 1
      /\ \A i \in 1 .. Len(routed) : routed'[i] = routed[i]
      /\ routed'[Len(routed) + 1] = now
  BY <1>1, <1>2, AppendProperties
<1>7. /\ {queue', accepted'} \subseteq [Notifiers -> Seq(Messages)]
      /\ \A w \in Notifiers : Len(queue'[w]) <= QueueSize[w]
  <2>1. takers \in SUBSET Notifiers /\ Len(raised) \in Messages
    BY <1>4, ConstantTypes
  <2> HIDE DEF takers
  <2> QED
    BY <1>1, <2>1, EnqueueFacts
<1> HIDE DEF type, takers
<1>8. lastMail' \in [Classes -> 0 .. Wall] /\ Wall' = Wall
  <2>1. Wall \in 0 .. Wall
    BY <1>2, ConstantTypes DEF Wall
  <2> QED
    BY <1>1, <1>5, <2>1, ClassType DEF TypeOK, Wall
<1>9. TypeOK'
  BY <1>1, <1>2, <1>3, <1>6, <1>7, <1>8 DEF TypeOK, managerVars, workerVars
<1> QED
  BY <1>3, <1>4, <1>5, <1>6, <1>9 DEF type

LEMMA RouteMail ==
  ASSUME TypeOK, MailInv, Route
  PROVE  MailInv'
<1> DEFINE alert == Len(raised)
           type == raised[alert].type
           takers == {w \in Notifiers : Wanted(w, type)}
<1>1. /\ alert \in Nat /\ alert = Len(routed) + 1 /\ Len(routed) \in Nat
      /\ alert \in Alerts /\ type \in Types
      /\ routed' \in Seq(0 .. MaxTime) /\ Len(routed') = alert
      /\ \A i \in 1 .. Len(routed) : routed'[i] = routed[i]
      /\ routed'[alert] = now
  BY RouteType
<1>2. /\ raised' = raised
      /\ lastMail' = IF EmailWants(type) THEN [lastMail EXCEPT ![Class(type)] = Wall] ELSE lastMail
      /\ Enqueue(takers, alert)
  BY DEF Route
<1>3. DOMAIN routed = 1 .. Len(routed) /\ DOMAIN routed' = 1 .. alert
  BY <1>1, LenProperties DEF TypeOK
<1>4. /\ now \in Nat /\ BootTime \in Nat /\ MailCooldown \in Nat /\ Wall = BootTime + now
      /\ \A i \in 1 .. Len(routed) : routed[i] \in Nat
      /\ \A class \in Classes : lastMail[class] \in Nat /\ lastMail[class] <= Wall
  <2>1. \A i \in 1 .. Len(routed) : routed[i] \in 0 .. MaxTime
    BY ElementOfSeq DEF TypeOK
  <2> QED
    BY <2>1, ConstantTypes DEF TypeOK, Wall
<1>5. \A i \in Elements(accepted["email"]) : i \in Messages
  <2> DEFINE list == accepted["email"]
  <2>1. list \in Seq(Messages)
    BY DEF TypeOK, Notifiers
  <2> HIDE DEF list
  <2>2. \A k \in DOMAIN list : list[k] \in Messages
    BY <2>1, ElementOfSeq, LenProperties
  <2>3. \A i \in Elements(list) : i \in Messages
    BY <2>2 DEF Elements
  <2> QED
    BY <2>3 DEF list
<1>6. ASSUME NEW i \in Elements(accepted["email"]), i # Report
      PROVE  /\ i \in 1 .. Len(routed) /\ i \in 1 .. alert /\ i # alert
             /\ raised[i].type \in Types /\ Class(raised[i].type) \in Classes
             /\ BootTime + routed[i] <= lastMail[Class(raised[i].type)]
  <2>1. i <= Len(routed) /\ BootTime + routed[i] <= lastMail[Class(raised[i].type)]
    BY <1>6 DEF MailInv, MailRemembered
  <2>2. i \in 1 .. Len(routed)
    <3>1. i \in Nat \ {0}
      BY <1>5, <1>6, ConstantTypes DEF Messages
    <3>2. Len(routed) \in Nat
      BY <1>1
    <3> QED
      BY <2>1, <3>1, <3>2
  <2>3. i \in 1 .. alert
    BY <1>1, <2>2
  <2> QED
    BY <1>1, <2>1, <2>2, <2>3, RaisedType, ClassType
<1>7. Report \notin 1 .. alert /\ alert # Report
  BY <1>1, ConstantTypes DEF Alerts, Report
<1>8. Class(type) \in Classes
  BY <1>1, ClassType
<1> HIDE DEF alert, type, takers
<1>9. \A class \in Classes : lastMail'[class] \in Nat /\ lastMail[class] <= lastMail'[class]
  BY <1>2, <1>4, <1>8 DEF TypeOK
<1>10. \/ accepted'["email"] = accepted["email"]
       \/ "email" \in takers /\ accepted'["email"] = Append(accepted["email"], alert)
  <2>1. takers \in SUBSET Notifiers /\ alert \in Messages /\ "email" \in Notifiers
    BY <1>1, ConstantTypes DEF takers, Notifiers
  <2> QED
    BY <1>2, <2>1, EnqueueFacts
<1>11. CASE accepted'["email"] = accepted["email"]
  <2>1. MailRemembered'
    <3> SUFFICES ASSUME NEW i \in Elements(accepted["email"]), i # Report
                 PROVE  i <= Len(routed') /\ BootTime + routed'[i] <= lastMail'[Class(raised'[i].type)]
      BY <1>11 DEF MailRemembered
    <3> QED
      BY <1>1, <1>2, <1>4, <1>6, <1>9
  <2>2. MailsApart'
    <3> SUFFICES ASSUME NEW i \in DOMAIN routed', NEW j \in DOMAIN routed', i < j,
                        i \in Elements(accepted["email"]), j \in Elements(accepted["email"]),
                        Class(raised[i].type) = Class(raised[j].type)
                 PROVE  routed'[j] - routed'[i] >= MailCooldown
      BY <1>2, <1>11 DEF MailsApart
    <3>1. i \in 1 .. Len(routed) /\ j \in 1 .. Len(routed)
      BY <1>3, <1>6, <1>7
    <3> QED
      BY <1>1, <1>3, <3>1 DEF MailInv, MailsApart
  <2> QED
    BY <2>1, <2>2 DEF MailInv
<1>12. CASE "email" \in takers /\ accepted'["email"] = Append(accepted["email"], alert)
  <2>1. Elements(accepted'["email"]) = Elements(accepted["email"]) \cup {alert}
    <3>1. accepted["email"] \in Seq(Messages) /\ alert \in Messages
      BY <1>1, ConstantTypes DEF TypeOK, Notifiers
    <3> QED
      BY <1>12, <3>1, AppendProperties, LenProperties DEF Elements
  <2>2. EmailWants(type)
    BY <1>12 DEF takers, Wanted
  <2>3. lastMail' = [lastMail EXCEPT ![Class(type)] = Wall]
    BY <1>2, <2>2
  <2>4. Wall - lastMail[Class(type)] >= MailCooldown
    BY <2>2 DEF EmailWants, MailDue
  <2>5. MailRemembered'
    <3>1. ASSUME NEW i \in Elements(accepted["email"]), i # Report
          PROVE  i <= Len(routed') /\ BootTime + routed'[i] <= lastMail'[Class(raised'[i].type)]
      BY <1>1, <1>2, <1>4, <1>6, <1>9, <3>1
    <3>2. alert <= Len(routed') /\ BootTime + routed'[alert] <= lastMail'[Class(raised'[alert].type)]
      <4>1. lastMail'[Class(type)] = Wall
        BY <1>8, <2>3 DEF TypeOK
      <4> QED
        BY <1>1, <1>2, <1>4, <4>1 DEF type
    <3> QED
      BY <2>1, <3>1, <3>2 DEF MailRemembered
  <2>6. MailsApart'
    <3> SUFFICES ASSUME NEW i \in DOMAIN routed', NEW j \in DOMAIN routed', i < j,
                        i \in Elements(accepted["email"]) \cup {alert},
                        j \in Elements(accepted["email"]) \cup {alert},
                        Class(raised[i].type) = Class(raised[j].type)
                 PROVE  routed'[j] - routed'[i] >= MailCooldown
      BY <1>2, <2>1 DEF MailsApart
    <3>1. i \in 1 .. Len(routed) /\ i \in Elements(accepted["email"])
      BY <1>1, <1>3, <1>6, <1>7
    <3>2. CASE j = alert
      <4>1. Class(raised[i].type) = Class(type)
        BY <3>2 DEF type
      <4>2. BootTime + routed[i] <= lastMail[Class(type)]
        BY <1>3, <1>6, <1>7, <3>1, <4>1
      <4> QED
        BY <1>1, <1>4, <1>8, <2>4, <3>1, <3>2, <4>2
    <3>3. CASE j # alert
      <4>1. j \in 1 .. Len(routed) /\ j \in Elements(accepted["email"])
        BY <1>3, <1>6, <1>7, <3>3
      <4> QED
        BY <1>1, <1>3, <3>1, <4>1 DEF MailInv, MailsApart
    <3> QED
      BY <3>2, <3>3
  <2> QED
    BY <2>5, <2>6 DEF MailInv
<1> QED
  BY <1>10, <1>11, <1>12

LEMMA RouteInv ==
  ASSUME IInv, Route
  PROVE  IInv'
<1> USE DEF IInv
<1>1. TypeOK' /\ MailInv'
  BY RouteType, RouteMail
<1>2. ManagerInv'
  BY DEF Route, managerVars, ManagerInv, DispatchRemembered, CooldownHasCause, DispatchesApart,
         HeldBackWithCause
<1>3. QueueInv'
  <2> DEFINE takers == {w \in Notifiers : Wanted(w, raised[Len(raised)].type)}
  <2>1. takers \in SUBSET Notifiers /\ Len(raised) \in Messages
    BY RouteType, ConstantTypes
  <2>2. Enqueue(takers, Len(raised)) /\ UNCHANGED workerVars
    BY DEF Route
  <2> HIDE DEF takers
  <2> QED
    BY <2>1, <2>2, EnqueueQueues
<1> QED
  BY <1>1, <1>2, <1>3

\* The daily report takes no cooldown and counts for none.
LEMMA SendDailyReportInv ==
  ASSUME IInv, SendDailyReport
  PROVE  IInv'
<1> USE DEF IInv
<1>1. /\ Enqueue({"email"}, Report) /\ reported' = TRUE
      /\ UNCHANGED <<now, managerVars, lastMail, firing, workerVars, raised, routed>>
  BY DEF SendDailyReport
<1>2. {"email"} \in SUBSET Notifiers /\ Report \in Messages
  BY ConstantTypes DEF Notifiers
<1>3. TypeOK'
  <2>1. /\ {queue', accepted'} \subseteq [Notifiers -> Seq(Messages)]
        /\ \A w \in Notifiers : Len(queue'[w]) <= QueueSize[w]
    BY <1>1, <1>2, EnqueueFacts
  <2> QED
    BY <1>1, <2>1 DEF TypeOK, managerVars, workerVars, Wall
<1>4. QueueInv'
  BY <1>1, <1>2, EnqueueQueues
<1>5. ManagerInv'
  BY <1>1 DEF managerVars, ManagerInv, DispatchRemembered, CooldownHasCause, DispatchesApart,
              HeldBackWithCause
<1>6. MailInv'
  <2>1. accepted["email"] \in Seq(Messages)
    BY DEF TypeOK, Notifiers
  <2>2. \/ accepted'["email"] = accepted["email"]
        \/ accepted'["email"] = Append(accepted["email"], Report)
    BY <1>1, <1>2, EnqueueFacts
  <2>3. Elements(accepted'["email"]) \subseteq Elements(accepted["email"]) \cup {Report}
    BY <1>2, <2>1, <2>2, AppendProperties, LenProperties DEF Elements
  <2>4. Report \notin DOMAIN routed
    <3>1. DOMAIN routed = 1 .. Len(routed) /\ Len(routed) \in Nat /\ Len(raised) \in Nat
      BY LenProperties DEF TypeOK
    <3>2. Len(routed) <= MaxAlerts
      BY <3>1, ConstantTypes DEF TypeOK
    <3> QED
      BY <3>1, <3>2, ConstantTypes DEF Report
  <2> QED
    BY <1>1, <2>3, <2>4 DEF MailInv, MailRemembered, MailsApart
<1> QED
  BY <1>3, <1>4, <1>5, <1>6

-----------------------------------------------------------------------------
(* The workers, and the rest.                                              *)

\* What concerns the other parts stands while a worker moves a message.
LEMMA OthersStand ==
  ASSUME MailInv, ManagerInv, UNCHANGED <<othersVars, accepted>>
  PROVE  MailInv' /\ ManagerInv'
<1>1. UNCHANGED <<lastAlert, posted, lastMail, raised, routed, accepted>>
  BY DEF othersVars, managerVars
<1>2. MailInv'
  BY <1>1 DEF MailInv, MailRemembered, MailsApart
<1>3. ManagerInv'
  BY <1>1 DEF ManagerInv, DispatchRemembered, CooldownHasCause, DispatchesApart, HeldBackWithCause
<1> QED
  BY <1>2, <1>3

LEMMA TakeInv ==
  ASSUME IInv, NEW w \in Notifiers, Take(w)
  PROVE  IInv'
<1> USE DEF IInv
<1> DEFINE q == queue[w]
           s == settled[w]
<1>1. /\ job[w] = Idle /\ q # <<>>
      /\ job' = [job EXCEPT ![w] = [message |-> Head(q), tries |-> 0]]
      /\ queue' = [queue EXCEPT ![w] = Tail(q)]
      /\ UNCHANGED <<othersVars, accepted, settled>>
  BY DEF Take
<1>2. /\ q \in Seq(Messages) /\ s \in Seq(Messages)
      /\ queue \in [Notifiers -> Seq(Messages)]
      /\ job \in [Notifiers -> [message : Messages \cup {0}, tries : 0 .. Retries - 1]]
      /\ Len(q) <= QueueSize[w] /\ QueueSize[w] \in Nat
  BY ConstantTypes DEF TypeOK
<1> HIDE DEF q, s
<1>3. /\ Head(q) \in Messages /\ Tail(q) \in Seq(Messages) /\ Len(Tail(q)) = Len(q) - 1
      /\ Len(q) \in Nat
  BY <1>1, <1>2, HeadTailProperties, LenProperties
<1>4. TypeOK'
  <2>1. queue' \in [Notifiers -> Seq(Messages)]
    BY <1>1, <1>2, <1>3
  <2>2. ASSUME NEW v \in Notifiers
        PROVE  Len(queue'[v]) <= QueueSize[v]
    <3>1. CASE v = w
      BY <1>1, <1>2, <1>3, <3>1
    <3>2. CASE v # w
      BY <1>1, <1>2, <3>2 DEF TypeOK
    <3> QED
      BY <3>1, <3>2
  <2>3. job' \in [Notifiers -> [message : Messages \cup {0}, tries : 0 .. Retries - 1]]
    <3>1. 0 \in 0 .. Retries - 1
      BY ConstantTypes
    <3> QED
      BY <1>1, <1>2, <1>3, <3>1
  <2> QED
    BY <1>1, <2>1, <2>2, <2>3 DEF TypeOK, othersVars, managerVars, Wall
<1>5. QueueInv'
  <2>1. job'[w] # Idle /\ job'[w].message = Head(q)
    BY <1>1, <1>2, <1>3, ConstantTypes DEF Idle
  <2>2. JobHasMessage'
    BY <1>1, <1>2, <1>3, <2>1 DEF QueueInv, JobHasMessage
  <2>3. ASSUME NEW v \in Notifiers
        PROVE  accepted'[v] = settled'[v] \o InHand(v)' \o queue'[v]
    <3>1. accepted[v] = settled[v] \o InHand(v) \o queue[v] /\ accepted' = accepted /\ settled' = settled
      BY <1>1 DEF QueueInv, SettledInOrder, InHand
    <3>2. CASE v = w
      <4>1. InHand(w)' = <<Head(q)>> /\ queue'[w] = Tail(q) /\ InHand(w) = <<>>
        BY <1>1, <1>2, <2>1 DEF InHand
      <4>2. s \o <<Head(q)>> \o Tail(q) = s \o <<>> \o q
        BY <1>1, <1>2, TakeKeepsOrder
      <4> QED
        BY <3>1, <3>2, <4>1, <4>2 DEF q, s
    <3>3. CASE v # w
      <4>1. InHand(v)' = InHand(v) /\ queue'[v] = queue[v]
        BY <1>1, <1>2, <3>3 DEF InHand
      <4> QED
        BY <3>1, <4>1
    <3> QED
      BY <3>2, <3>3
  <2> QED
    BY <2>2, <2>3 DEF QueueInv, SettledInOrder, InHand
<1> QED
  BY <1>1, <1>4, <1>5, OthersStand

LEMMA SettleInv ==
  ASSUME IInv, NEW w \in Notifiers, Settle(w)
  PROVE  IInv'
<1> USE DEF IInv
<1> DEFINE m == job[w].message
           s == settled[w]
<1>1. /\ job[w] # Idle
      /\ settled' = [settled EXCEPT ![w] = Append(s, m)]
      /\ job' = [job EXCEPT ![w] = Idle]
      /\ UNCHANGED <<othersVars, queue, accepted>>
  BY DEF Settle, queueVars
<1>2. /\ m \in Messages /\ s \in Seq(Messages) /\ queue[w] \in Seq(Messages)
      /\ settled \in [Notifiers -> Seq(Messages)]
      /\ job \in [Notifiers -> [message : Messages \cup {0}, tries : 0 .. Retries - 1]]
  BY <1>1 DEF TypeOK, QueueInv, JobHasMessage
<1> HIDE DEF m, s
<1>3. TypeOK'
  <2>1. Append(s, m) \in Seq(Messages)
    BY <1>2, AppendProperties
  <2>2. Idle \in [message : Messages \cup {0}, tries : 0 .. Retries - 1]
    BY ConstantTypes DEF Idle
  <2> QED
    BY <1>1, <1>2, <2>1, <2>2 DEF TypeOK, othersVars, managerVars, Wall
<1>4. QueueInv'
  <2>1. JobHasMessage'
    BY <1>1, <1>2 DEF QueueInv, JobHasMessage
  <2>2. ASSUME NEW v \in Notifiers
        PROVE  accepted'[v] = settled'[v] \o InHand(v)' \o queue'[v]
    <3>1. accepted[v] = settled[v] \o InHand(v) \o queue[v] /\ accepted' = accepted /\ queue' = queue
      BY <1>1 DEF QueueInv, SettledInOrder, InHand
    <3>2. CASE v = w
      <4>1. InHand(w)' = <<>> /\ settled'[w] = Append(s, m) /\ InHand(w) = <<m>>
        BY <1>1, <1>2 DEF InHand, m
      <4>2. Append(s, m) \o <<>> \o queue[w] = s \o <<m>> \o queue[w]
        BY <1>2, SettleKeepsOrder
      <4> QED
        BY <3>1, <3>2, <4>1, <4>2 DEF s
    <3>3. CASE v # w
      <4>1. InHand(v)' = InHand(v) /\ settled'[v] = settled[v]
        BY <1>1, <1>2, <3>3 DEF InHand
      <4> QED
        BY <3>1, <4>1
    <3> QED
      BY <3>2, <3>3
  <2> QED
    BY <2>1, <2>2 DEF QueueInv, SettledInOrder, InHand
<1> QED
  BY <1>1, <1>3, <1>4, OthersStand

LEMMA RetryInv ==
  ASSUME IInv, NEW w \in Notifiers, Retry(w)
  PROVE  IInv'
<1> USE DEF IInv
<1>1. /\ job[w] # Idle /\ job[w].tries < Retries - 1
      /\ job' = [job EXCEPT ![w].tries = @ + 1]
      /\ UNCHANGED <<othersVars, queue, accepted, settled>>
  BY DEF Retry, queueVars
<1>2. /\ job[w].message \in Messages
      /\ job \in [Notifiers -> [message : Messages \cup {0}, tries : 0 .. Retries - 1]]
  BY <1>1 DEF TypeOK, QueueInv, JobHasMessage
<1>3. /\ job'[w].message = job[w].message /\ job'[w].tries = job[w].tries + 1
      /\ \A v \in Notifiers : v # w => job'[v] = job[v]
  BY <1>1, <1>2
<1>4. job' \in [Notifiers -> [message : Messages \cup {0}, tries : 0 .. Retries - 1]]
  <2>1. job[w].tries + 1 \in 0 .. Retries - 1
    BY <1>1, <1>2, ConstantTypes
  <2> QED
    BY <1>1, <1>2, <2>1
<1>5. TypeOK'
  BY <1>1, <1>4 DEF TypeOK, othersVars, managerVars, Wall
<1>6. job'[w] # Idle
  BY <1>2, <1>3, ConstantTypes DEF Idle
<1>7. \A v \in Notifiers : InHand(v)' = InHand(v)
  BY <1>1, <1>3, <1>6 DEF InHand
<1>8. QueueInv'
  BY <1>1, <1>2, <1>3, <1>7 DEF QueueInv, JobHasMessage, SettledInOrder, InHand
<1> QED
  BY <1>1, <1>5, <1>8, OthersStand

LEMMA NextInv == IInv /\ [Next]_vars => IInv'
<1> SUFFICES ASSUME IInv, [Next]_vars PROVE IInv'
  OBVIOUS
<1>1. CASE \E type \in Types : Fire(type)
  <2>1. PICK type \in Types : Fire(type)
    BY <1>1
  <2>2. TypeOK' /\ MailInv' /\ ManagerInv'
    BY <2>1, FireType, FireMail, FireManager DEF IInv
  <2>3. QueueInv'
    BY <2>1 DEF Fire, queueVars, workerVars, IInv, QueueInv, JobHasMessage, SettledInOrder
  <2> QED
    BY <2>2, <2>3 DEF IInv
<1>2. CASE \E channel \in Channels, alert \in 1 .. MaxAlerts : Post(channel, alert)
  <2>1. PICK channel \in Channels, alert \in 1 .. MaxAlerts : Post(channel, alert)
    BY <1>2
  <2>2. /\ posting' \subseteq posting
        /\ UNCHANGED <<now, lastAlert, posted, lastMail, firing, queue, accepted, job, settled,
                       raised, routed, reported>>
    BY <2>1 DEF Post, queueVars, workerVars
  <2>3. TypeOK'
    BY <2>2 DEF IInv, TypeOK, Wall
  <2>4. MailInv' /\ ManagerInv'
    BY <2>2 DEF IInv, MailInv, MailRemembered, MailsApart, ManagerInv, DispatchRemembered,
                CooldownHasCause, DispatchesApart, HeldBackWithCause
  <2>5. QueueInv'
    BY <2>2 DEF IInv, QueueInv, JobHasMessage, SettledInOrder
  <2> QED
    BY <2>3, <2>4, <2>5 DEF IInv
<1>3. CASE Tick
  <2>1. /\ now' = now + 1 /\ now' \in 0 .. MaxTime /\ now \in Nat
        /\ UNCHANGED <<lastAlert, posting, posted, lastMail, firing, queue, accepted, job, settled,
                       raised, routed, reported>>
    BY <1>3, ConstantTypes DEF Tick, managerVars, queueVars, workerVars, IInv, TypeOK
  <2>2. lastMail' \in [Classes -> 0 .. Wall']
    <3>1. 0 .. Wall \subseteq 0 .. Wall'
      BY <2>1, ConstantTypes DEF Wall
    <3>2. lastMail \in [Classes -> 0 .. Wall]
      BY DEF IInv, TypeOK
    <3> QED
      BY <2>1, <3>1, <3>2
  <2>3. TypeOK'
    BY <2>1, <2>2 DEF IInv, TypeOK
  <2>4. MailInv' /\ ManagerInv'
    BY <2>1 DEF IInv, MailInv, MailRemembered, MailsApart, ManagerInv, DispatchRemembered,
                CooldownHasCause, DispatchesApart, HeldBackWithCause
  <2>5. QueueInv'
    BY <2>1 DEF IInv, QueueInv, JobHasMessage, SettledInOrder
  <2> QED
    BY <2>3, <2>4, <2>5 DEF IInv
<1>4. CASE UNCHANGED vars
  <2>1. UNCHANGED <<now, lastAlert, posting, posted, lastMail, firing, queue, accepted, job, settled,
                    raised, routed, reported>>
    BY <1>4 DEF vars, managerVars, queueVars, workerVars
  <2>2. TypeOK'
    BY <2>1 DEF IInv, TypeOK, Wall
  <2>3. MailInv' /\ ManagerInv'
    BY <2>1 DEF IInv, MailInv, MailRemembered, MailsApart, ManagerInv, DispatchRemembered,
                CooldownHasCause, DispatchesApart, HeldBackWithCause
  <2>4. QueueInv'
    BY <2>1 DEF IInv, QueueInv, JobHasMessage, SettledInOrder
  <2> QED
    BY <2>2, <2>3, <2>4 DEF IInv
<1>5. CASE \E w \in Notifiers : Work(w)
  BY <1>5, TakeInv, SettleInv, RetryInv DEF Work
<1> QED
  BY <1>1, <1>2, <1>3, <1>4, <1>5, RouteInv, SendDailyReportInv DEF Next

LEMMA Invariance == Spec => []IInv
  BY InitInv, NextInv, PTL DEF Spec

-----------------------------------------------------------------------------

\* Every variable of the alerting channels stays in its type, and no queue
\* exceeds its size.
THEOREM TypeCorrect == Spec => []TypeOK
  BY Invariance, InvImplies, PTL

\* Two mails of one class, and two dispatches of one type, are a cooldown apart,
\* however late ntfy's push and the workers are.
THEOREM NoAlertStorm == Spec => []NoStorm
  BY Invariance, InvImplies, PTL

\* What a notifier's queue took is settled, in the worker's hands or waiting, in
\* the order it came: two threads put messages in, and tries fail.
THEOREM MessagesInOrder == Spec => []SettledInOrder
  BY Invariance, InvImplies, PTL

\* AlertManager holds an alert back only for another of its type, or soon after
\* the machine has started.
THEOREM HeldBackOnlyWithCause == Spec => []HeldBackWithCause
  BY Invariance, InvImplies, PTL
=============================================================================
