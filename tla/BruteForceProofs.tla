-------------------------- MODULE BruteForceProofs --------------------------
(***************************************************************************)
(* Theorems about BruteForce, for every value of its constants.            *)
(***************************************************************************)
EXTENDS BruteForce, WindowFacts, FiniteSetTheorems

\* What the proofs use of the constants.
LEMMA ConstantTypes ==
  /\ MaxAttempts \in Nat \ {0} /\ Window \in Nat /\ MaxTime \in Nat
  /\ BaseDuration \in Nat /\ MaxDuration \in Nat
  /\ KernelTimeout \in Nat /\ JailTime \in Nat /\ Overrides \subseteq Int
  /\ LoggingIn \subseteq IPs /\ Suspects \subseteq IPs
  BY BruteForceAssumption DEF BruteForceAssumption

LEMMA BanDurationType ==
  ASSUME NEW offence \in Nat \ {0}
  PROVE  BanDuration(offence) \in Int
<1>1. offence - 1 \in Nat
  OBVIOUS
<1>2. 2 ^ (offence - 1) \in Int
  BY <1>1
<1> QED
  BY <1>2, ConstantTypes DEF BanDuration

\* The deque record_failure counts: well typed, ordered, not in the future and
\* never empty, for it holds at least the failure being recorded.
LEMMA CountedFacts ==
  ASSUME TypeOK, AttemptsOrdered, NEW ip \in IPs
  PROVE  /\ Counted(ip) \in Seq(Nat)
         /\ Ordered(Counted(ip))
         /\ \A i \in DOMAIN Counted(ip) : Counted(ip)[i] <= now
         /\ Counted(ip) = Append(Evict(attempts[ip], now - Window), now)
<1> DEFINE longer == Append(attempts[ip], now)
           cutoff == now - Window
           kept == Evict(longer, cutoff)
           k == FirstKept(longer, cutoff)
<1>1. attempts[ip] \in Seq(Nat) /\ now \in Nat /\ cutoff \in Int /\ cutoff <= now
  BY ConstantTypes DEF TypeOK
<1>2. /\ longer \in Seq(Nat)
      /\ Len(longer) = Len(attempts[ip]) + 1
      /\ \A i \in 1 .. Len(attempts[ip]) : longer[i] = attempts[ip][i]
      /\ longer[Len(attempts[ip]) + 1] = now
  BY <1>1
<1>3. \A i \in 1 .. Len(attempts[ip]) : attempts[ip][i] <= now
  BY <1>1 DEF AttemptsOrdered
<1>4. \A i \in 1 .. Len(longer) : longer[i] <= now
  BY <1>1, <1>2, <1>3
<1>5. Ordered(longer)
  <2>1. \A i, j \in 1 .. Len(attempts[ip]) : i <= j => attempts[ip][i] <= attempts[ip][j]
    BY <1>1 DEF AttemptsOrdered, Ordered
  <2> HIDE DEF longer
  <2>2. ASSUME NEW i \in 1 .. Len(longer), NEW j \in 1 .. Len(longer), i <= j
        PROVE  longer[i] <= longer[j]
    <3>1. CASE j = Len(longer)
      BY <1>1, <1>2, <1>4, <3>1
    <3>2. CASE j # Len(longer)
      <4>1. Len(attempts[ip]) \in Nat
        BY <1>1
      <4>2. j \in 1 .. Len(attempts[ip])
        BY <1>2, <2>2, <3>2, <4>1
      <4>3. i \in 1 .. Len(attempts[ip])
        BY <1>2, <2>2, <4>1, <4>2
      <4> QED
        BY <1>2, <2>1, <2>2, <4>2, <4>3
    <3> QED
      BY <3>1, <3>2
  <2>3. DOMAIN longer = 1 .. Len(longer)
    BY <1>2
  <2> QED
    BY <2>2, <2>3 DEF Ordered
<1> HIDE DEF longer, cutoff
<1>6. kept \in Seq(Nat) /\ Ordered(kept)
  BY <1>1, <1>2, <1>5, EvictIsSuffix, EvictOrdered
<1>7. \A i \in DOMAIN kept : kept[i] <= now
  <2>1. k \in 1 .. Len(longer) + 1
    BY <1>1, <1>2, FirstKeptDefined
  <2>2. /\ Len(kept) = Len(longer) + 1 - k
        /\ \A i \in 1 .. Len(kept) : kept[i] = longer[i + k - 1]
    BY <1>1, <1>2, EvictIsSuffix
  <2> HIDE DEF k, kept
  <2>3. ASSUME NEW i \in 1 .. Len(kept)
        PROVE  kept[i] <= now
    <3>1. i + k - 1 \in 1 .. Len(longer)
      BY <1>2, <2>1, <2>2
    <3> QED
      BY <1>4, <2>2, <3>1
  <2> QED
    BY <1>6, <2>3
<1>8. kept = Append(Evict(attempts[ip], cutoff), now)
  BY <1>1, EvictAppend DEF longer
<1> QED
  BY <1>6, <1>7, <1>8 DEF Counted, longer, cutoff

-----------------------------------------------------------------------------
(* The inductive invariant.                                                *)

IInv == TypeOK /\ ThresholdEnforced /\ AttemptsOrdered

LEMMA InitInv == Init => IInv
<1> SUFFICES ASSUME Init PROVE IInv
  OBVIOUS
<1> USE ConstantTypes DEF Init
<1>1. TypeOK
  BY DEF TypeOK, NoBan, Asleep
<1>2. ThresholdEnforced
  BY DEF ThresholdEnforced, Banned
<1>3. AttemptsOrdered
  BY DEF AttemptsOrdered, Ordered
<1> QED
  BY <1>1, <1>2, <1>3 DEF IInv

\* The blockers' tables stay well typed under the external commands.
LEMMA BlockedType ==
  ASSUME TypeOK
  PROVE  /\ \A ip \in IPs : ApplySystemBan(ip) => blocked' \in [IPs -> [Blockers -> Nat]]
         /\ \A ips \in SUBSET IPs : LiftSystemBans(ips) => blocked' \in [IPs -> [Blockers -> Nat]]
<1>1. ASSUME NEW ip \in IPs, ApplySystemBan(ip)
      PROVE  blocked' \in [IPs -> [Blockers -> Nat]]
  <2>1. \A b \in Blockers : Imposed(ip, b) \in Nat
    BY ConstantTypes DEF TypeOK, Imposed
  <2>2. PICK failed \in SUBSET MayFail :
          blocked' = [blocked EXCEPT ![ip] =
            [b \in Blockers |-> IF b \in failed THEN blocked[ip][b] ELSE Imposed(ip, b)]]
    BY <1>1 DEF ApplySystemBan
  <2>3. [b \in Blockers |-> IF b \in failed THEN blocked[ip][b] ELSE Imposed(ip, b)]
          \in [Blockers -> Nat]
    BY <2>1 DEF TypeOK
  <2> QED
    BY <2>2, <2>3 DEF TypeOK
<1>2. ASSUME NEW ips \in SUBSET IPs, LiftSystemBans(ips)
      PROVE  blocked' \in [IPs -> [Blockers -> Nat]]
  BY <1>2 DEF LiftSystemBans, TypeOK
<1> QED
  BY <1>1, <1>2

\* Whatever the duration, imposing a ban preserves the invariant.
LEMMA ImposeBanInv ==
  ASSUME IInv, NEW ip \in IPs, NEW duration \in Int, ImposeBan(ip, duration)
  PROVE  IInv'
<1> USE DEF IInv
<1>1. now' = now /\ reaper' = reaper /\ blocked' \in [IPs -> [Blockers -> Nat]]
  BY BlockedType DEF ImposeBan
<1>2. attempts' = [attempts EXCEPT ![ip] = <<>>]
  BY DEF ImposeBan
<1>3. bans' = [bans EXCEPT ![ip] =
        [bannedAt |-> now, duration |-> duration, offence |-> bans[ip].offence + 1]]
  BY DEF ImposeBan
<1>4. TypeOK'
  BY <1>1, <1>2, <1>3, ConstantTypes DEF TypeOK
<1>5. ThresholdEnforced'
  <2>1. bans'[ip] # NoBan
    BY <1>3, ConstantTypes DEF TypeOK, NoBan
  <2> QED
    BY <1>2, <1>3, <2>1 DEF TypeOK, ThresholdEnforced, Banned
<1>6. AttemptsOrdered'
  BY <1>1, <1>2 DEF AttemptsOrdered, Ordered, TypeOK
<1> QED
  BY <1>4, <1>5, <1>6

LEMMA RecordFailureInv ==
  ASSUME IInv, NEW ip \in IPs, RecordFailure(ip)
  PROVE  IInv'
<1> USE DEF IInv
<1>1. CASE Len(Counted(ip)) < MaxAttempts /\ attempts' = [attempts EXCEPT ![ip] = Counted(ip)]
           /\ UNCHANGED <<now, bans, reaper, blocked>>
  <2>1. /\ Counted(ip) \in Seq(Nat) /\ Ordered(Counted(ip))
        /\ \A i \in DOMAIN Counted(ip) : Counted(ip)[i] <= now
    BY CountedFacts
  <2>2. TypeOK'
    BY <1>1, <2>1 DEF TypeOK
  <2>3. ThresholdEnforced'
    BY <1>1 DEF ThresholdEnforced, TypeOK, Banned, RecordFailure, Ignored
  <2>4. AttemptsOrdered'
    BY <1>1, <2>1 DEF AttemptsOrdered, TypeOK
  <2> QED
    BY <2>2, <2>3, <2>4
<1>2. CASE ImposeBan(ip, BanDuration(bans[ip].offence + 1))
  <2>1. bans[ip].offence + 1 \in Nat \ {0}
    BY DEF TypeOK
  <2> QED
    BY <1>2, <2>1, BanDurationType, ImposeBanInv
<1> QED
  BY <1>1, <1>2 DEF RecordFailure

LEMMA RecordSuccessInv ==
  ASSUME IInv, NEW ip \in IPs, RecordSuccess(ip)
  PROVE  IInv'
<1> USE DEF IInv, RecordSuccess
<1>1. TypeOK'
  BY DEF TypeOK
<1>2. ThresholdEnforced'
  BY ConstantTypes DEF ThresholdEnforced, TypeOK, Banned
<1>3. AttemptsOrdered'
  BY DEF AttemptsOrdered, Ordered, TypeOK
<1> QED
  BY <1>1, <1>2, <1>3

LEMMA UnbanInv ==
  ASSUME IInv, NEW ip \in IPs, Unban(ip)
  PROVE  IInv'
<1> USE DEF IInv, Unban
<1>1. blocked' \in [IPs -> [Blockers -> Nat]]
  BY BlockedType
<1>2. NoBan \in [bannedAt : 0 .. now, duration : Int, offence : Nat]
  BY DEF TypeOK, NoBan
<1>3. TypeOK'
  BY <1>1, <1>2 DEF TypeOK
<1>4. ThresholdEnforced'
  BY ConstantTypes DEF ThresholdEnforced, TypeOK, Banned
<1>5. AttemptsOrdered'
  BY DEF AttemptsOrdered
<1> QED
  BY <1>3, <1>4, <1>5

LEMMA ReaperSweepInv ==
  ASSUME IInv, ReaperSweep
  PROVE  IInv'
<1> USE DEF IInv, ReaperSweep
<1>1. blocked' \in [IPs -> [Blockers -> Nat]]
  <2>1. Expired(reaper) \in SUBSET IPs
    BY DEF Expired
  <2> QED
    BY <2>1, BlockedType
<1>2. NoBan \in [bannedAt : 0 .. now, duration : Int, offence : Nat]
  BY DEF TypeOK, NoBan
<1>3. bans' \in [IPs -> [bannedAt : 0 .. now, duration : Int, offence : Nat]]
  BY <1>2 DEF TypeOK
<1>4. TypeOK'
  BY <1>1, <1>3 DEF TypeOK, Asleep
<1>5. ThresholdEnforced'
  BY ConstantTypes DEF ThresholdEnforced, TypeOK, Banned
<1>6. AttemptsOrdered'
  BY DEF AttemptsOrdered, Ordered
<1> QED
  BY <1>4, <1>5, <1>6

LEMMA RestartInv ==
  ASSUME IInv, Restart
  PROVE  IInv'
<1> USE DEF IInv, Restart
<1>1. NoBan \in [bannedAt : 0 .. now, duration : Int, offence : Nat]
  BY DEF TypeOK, NoBan
<1>2. TypeOK'
  BY <1>1 DEF TypeOK, Asleep
<1>3. ThresholdEnforced'
  BY ConstantTypes DEF ThresholdEnforced, Banned
<1>4. AttemptsOrdered'
  BY DEF AttemptsOrdered, Ordered
<1> QED
  BY <1>2, <1>3, <1>4

LEMMA TickInv ==
  ASSUME IInv, Tick
  PROVE  IInv'
<1> USE DEF IInv, Tick
<1>1. now \in Nat /\ now' = now + 1 /\ now' \in 0 .. MaxTime
  BY ConstantTypes DEF TypeOK
<1>2. bans' \in [IPs -> [bannedAt : 0 .. now', duration : Int, offence : Nat]]
  <2>1. \A ip \in IPs : bans[ip] \in [bannedAt : 0 .. now', duration : Int, offence : Nat]
    BY <1>1 DEF TypeOK
  <2> QED
    BY <2>1 DEF TypeOK
<1>3. TypeOK'
  BY <1>1, <1>2 DEF TypeOK, Asleep
<1>4. ThresholdEnforced'
  BY DEF ThresholdEnforced, Banned
<1>5. AttemptsOrdered'
  <2>1. ASSUME NEW ip \in IPs, NEW i \in DOMAIN attempts[ip]
        PROVE  attempts[ip][i] <= now'
    <3>1. attempts[ip][i] \in Nat /\ attempts[ip][i] <= now
      BY <2>1 DEF AttemptsOrdered, TypeOK
    <3> QED
      BY <1>1, <3>1
  <2> QED
    BY <2>1 DEF AttemptsOrdered
<1> QED
  BY <1>3, <1>4, <1>5

LEMMA NextInv == IInv /\ [Next]_vars => IInv'
<1> SUFFICES ASSUME IInv, [Next]_vars PROVE IInv'
  OBVIOUS
<1>1. CASE Event
  <2>1. CASE \E ip \in IPs : RecordFailure(ip)
    BY <2>1, RecordFailureInv
  <2>2. CASE \E ip \in LoggingIn : RecordSuccess(ip)
    BY <2>2, ConstantTypes, RecordSuccessInv
  <2>3. CASE \E ip \in Suspects : Ban(ip)
    <3>1. PICK ip \in IPs : ImposeBan(ip, BanDuration(bans[ip].offence + 1))
      BY <2>3, ConstantTypes DEF Ban
    <3>2. bans[ip].offence + 1 \in Nat \ {0}
      BY DEF IInv, TypeOK
    <3> QED
      BY <3>1, <3>2, BanDurationType, ImposeBanInv
  <2>4. CASE \E ip \in Suspects, d \in Overrides : BanFor(ip, d)
    BY <2>4, ConstantTypes, ImposeBanInv DEF BanFor
  <2>5. CASE \E ip \in IPs : Unban(ip)
    BY <2>5, UnbanInv
  <2>6. CASE Restart
    BY <2>6, RestartInv
  <2> QED
    BY <1>1, <2>1, <2>2, <2>3, <2>4, <2>5, <2>6 DEF Event
<1>2. CASE ReaperWake
  BY <1>2 DEF IInv, ReaperWake, TypeOK, ThresholdEnforced, AttemptsOrdered, Banned, Asleep
<1>3. CASE ReaperSweep
  BY <1>3, ReaperSweepInv
<1>4. CASE Tick
  BY <1>4, TickInv
<1>5. CASE UNCHANGED vars
  BY <1>5 DEF IInv, TypeOK, ThresholdEnforced, AttemptsOrdered, Banned, vars
<1> QED
  BY <1>1, <1>2, <1>3, <1>4, <1>5 DEF Next

LEMMA Invariance == Spec => []IInv
<1>1. Init => IInv
  BY InitInv
<1>2. IInv /\ [Next]_vars => IInv'
  BY NextInv
<1> QED
  BY <1>1, <1>2, PTL DEF Spec

\* Every variable keeps its type; no ban record or reaper reading is ahead of
\* the clock.
THEOREM TypeCorrect == Spec => []TypeOK
  BY Invariance, PTL DEF IInv

\* No address sits at or above the attempt threshold unbanned, and a ban leaves
\* no attempt behind that would count against the address afterwards.
THEOREM ThresholdIsEnforced == Spec => []ThresholdEnforced
  BY Invariance, PTL DEF IInv

\* The deques stay in the order of time, which the eviction loop relies on.
THEOREM AttemptsAreOrdered == Spec => []AttemptsOrdered
  BY Invariance, PTL DEF IInv

-----------------------------------------------------------------------------
(* Lifting bans, in the table and in the kernel.                           *)

LEMMA HeldStep ==
  ASSUME IInv, [Next]_vars, NEW ip \in IPs, Banned(ip), ~Banned(ip)'
  PROVE  \/ now - bans[ip].bannedAt >= bans[ip].duration
         \/ Unban(ip)
         \/ Restart
<1> USE DEF IInv, Banned
<1>1. ASSUME NEW other \in IPs, NEW d \in Int, ImposeBan(other, d)
      PROVE  FALSE
  <2>1. bans' = [bans EXCEPT ![other] =
          [bannedAt |-> now, duration |-> d, offence |-> bans[other].offence + 1]]
    BY <1>1 DEF ImposeBan
  <2>2. bans[other].offence + 1 # 0
    BY DEF TypeOK
  <2>3. bans'[other] # NoBan
    BY <2>1, <2>2 DEF NoBan, TypeOK
  <2> QED
    BY <2>1, <2>3 DEF TypeOK
<1>2. CASE \E other \in IPs : RecordFailure(other)
  <2>1. PICK other \in IPs : RecordFailure(other)
    BY <1>2
  <2>2. bans[other].offence + 1 \in Nat \ {0}
    BY DEF TypeOK
  <2> QED
    BY <1>1, <2>1, <2>2, BanDurationType DEF RecordFailure
<1>3. CASE \E other \in Suspects : Ban(other)
  <2>1. PICK other \in Suspects : Ban(other)
    BY <1>3
  <2>2. other \in IPs /\ bans[other].offence + 1 \in Nat \ {0}
    BY ConstantTypes DEF TypeOK
  <2> QED
    BY <1>1, <2>1, <2>2, BanDurationType DEF Ban
<1>4. CASE \E other \in Suspects, d \in Overrides : BanFor(other, d)
  BY <1>1, <1>4, ConstantTypes DEF BanFor
<1>5. CASE \E other \in IPs : Unban(other)
  <2>1. PICK other \in IPs : Unban(other)
    BY <1>5
  <2>2. other = ip
    BY <2>1 DEF Unban, TypeOK
  <2> QED
    BY <2>1, <2>2
<1>6. CASE ReaperSweep
  <2>1. ip \in Expired(reaper)
    BY <1>6 DEF ReaperSweep
  <2>2. reaper - bans[ip].bannedAt >= bans[ip].duration
    BY <2>1 DEF Expired
  <2>3. reaper \in Int /\ now \in Int /\ reaper <= now
    BY ConstantTypes DEF TypeOK, Asleep
  <2>4. bans[ip].bannedAt \in Int /\ bans[ip].duration \in Int
    BY <2>3 DEF TypeOK
  <2> QED
    BY <2>2, <2>3, <2>4
<1>7. CASE \/ \E other \in LoggingIn : RecordSuccess(other)
           \/ ReaperWake \/ Tick \/ UNCHANGED vars
  BY <1>7 DEF RecordSuccess, ReaperWake, Tick, vars
<1> QED
  BY <1>2, <1>3, <1>4, <1>5, <1>6, <1>7 DEF Next, Event

\* A ban is lifted only when it is due, by unban() or with the process: the
\* reaper's reading of the clock may be old, but never ahead.
THEOREM BansAreHeldUntilDue == Spec => BanHeldUntilDue
<1>1. IInv /\ [Next]_vars =>
        [\A ip \in IPs : Banned(ip) /\ ~Banned(ip)' =>
           \/ now - bans[ip].bannedAt >= bans[ip].duration
           \/ Unban(ip)
           \/ Restart]_vars
  BY HeldStep
<1> QED
  BY <1>1, Invariance, PTL DEF Spec, BanHeldUntilDue

-----------------------------------------------------------------------------
(* Being banned again.                                                     *)

\* Doubling: there are as many subsets of 1 .. n as 2 ^ n, and no fewer of 1 .. n + 1.
LEMMA Doubling ==
  ASSUME NEW n \in Nat
  PROVE  2 ^ n \in Nat /\ 2 ^ (n + 1) \in Nat /\ 2 ^ n <= 2 ^ (n + 1)
<1>1. /\ IsFiniteSet(1 .. n) /\ Cardinality(1 .. n) = n
      /\ IsFiniteSet(1 .. (n + 1)) /\ Cardinality(1 .. (n + 1)) = n + 1
  BY FS_Interval
<1>2. /\ IsFiniteSet(SUBSET (1 .. n)) /\ Cardinality(SUBSET (1 .. n)) = 2 ^ n
      /\ IsFiniteSet(SUBSET (1 .. (n + 1))) /\ Cardinality(SUBSET (1 .. (n + 1))) = 2 ^ (n + 1)
  <2>1. /\ IsFiniteSet(SUBSET (1 .. n))
        /\ Cardinality(SUBSET (1 .. n)) = 2 ^ Cardinality(1 .. n)
    BY <1>1, FS_SUBSET
  <2>2. /\ IsFiniteSet(SUBSET (1 .. (n + 1)))
        /\ Cardinality(SUBSET (1 .. (n + 1))) = 2 ^ Cardinality(1 .. (n + 1))
    BY <1>1, FS_SUBSET
  <2> QED
    BY <1>1, <2>1, <2>2
<1>3. SUBSET (1 .. n) \in SUBSET (SUBSET (1 .. (n + 1)))
  <2>1. 1 .. n \subseteq 1 .. (n + 1)
    OBVIOUS
  <2> QED
    BY <2>1
<1>4. Cardinality(SUBSET (1 .. n)) <= Cardinality(SUBSET (1 .. (n + 1)))
  BY <1>2, <1>3, FS_Subset
<1>5. Cardinality(SUBSET (1 .. n)) \in Nat /\ Cardinality(SUBSET (1 .. (n + 1))) \in Nat
  BY <1>2, FS_CardinalityType
<1> QED
  BY <1>2, <1>4, <1>5

\* The next offence is never punished more briefly, capped or not.
LEMMA BanDurationGrows ==
  ASSUME NEW offence \in Nat \ {0}
  PROVE  /\ BanDuration(offence) \in Int /\ BanDuration(offence + 1) \in Int
         /\ BanDuration(offence) <= BanDuration(offence + 1)
<1> DEFINE m == 2 ^ (offence - 1)
           n == 2 ^ ((offence + 1) - 1)
<1>1. m \in Nat /\ n \in Nat /\ m <= n
  <2>1. offence - 1 \in Nat /\ (offence + 1) - 1 = (offence - 1) + 1
    OBVIOUS
  <2>2. n = 2 ^ ((offence - 1) + 1)
    BY <2>1
  <2> QED
    BY <2>1, <2>2, Doubling
<1> HIDE DEF m, n
<1>2. BaseDuration * m \in Nat /\ BaseDuration * n \in Nat /\ BaseDuration * m <= BaseDuration * n
  <2>1. (n - m) \in Nat /\ BaseDuration * (n - m) \in Nat
    BY <1>1, ConstantTypes
  <2>2. BaseDuration * n = BaseDuration * m + BaseDuration * (n - m)
    BY <1>1, ConstantTypes
  <2>3. BaseDuration * m \in Nat
    BY <1>1, ConstantTypes
  <2> QED
    BY <2>1, <2>2, <2>3
<1>3. /\ BanDuration(offence) = IF Progressive
                                THEN IF BaseDuration * m < MaxDuration THEN BaseDuration * m ELSE MaxDuration
                                ELSE BaseDuration
      /\ BanDuration(offence + 1) = IF Progressive
                                    THEN IF BaseDuration * n < MaxDuration THEN BaseDuration * n ELSE MaxDuration
                                    ELSE BaseDuration
  BY DEF BanDuration, m, n
<1> DEFINE x == BaseDuration * m
           y == BaseDuration * n
<1> HIDE DEF x, y
<1>4. x \in Nat /\ y \in Nat /\ x <= y
  BY <1>2 DEF x, y
<1>5. /\ BanDuration(offence) = IF Progressive THEN IF x < MaxDuration THEN x ELSE MaxDuration ELSE BaseDuration
      /\ BanDuration(offence + 1) = IF Progressive THEN IF y < MaxDuration THEN y ELSE MaxDuration ELSE BaseDuration
  BY <1>3 DEF x, y
<1>6. CASE Progressive
  BY <1>4, <1>5, <1>6, ConstantTypes
<1>7. CASE ~ Progressive
  BY <1>5, <1>7, ConstantTypes
<1> QED
  BY <1>6, <1>7

\* What a step makes of a record: it stands, it goes, or the next one replaces it.
LEMMA RecordStep ==
  ASSUME IInv, [Next]_vars, NEW ip \in IPs
  PROVE  \/ bans'[ip] = bans[ip]
         \/ bans'[ip] = NoBan
         \/ bans'[ip].bannedAt = now /\ bans'[ip].offence = bans[ip].offence + 1
<1> USE DEF IInv
<1>1. ASSUME NEW other \in IPs, NEW d, ImposeBan(other, d)
      PROVE  \/ bans'[ip] = bans[ip]
             \/ bans'[ip].bannedAt = now /\ bans'[ip].offence = bans[ip].offence + 1
  <2>1. bans' = [bans EXCEPT ![other] =
          [bannedAt |-> now, duration |-> d, offence |-> bans[other].offence + 1]]
    BY <1>1 DEF ImposeBan
  <2> QED
    BY <2>1 DEF TypeOK
<1>2. CASE \E other \in IPs : RecordFailure(other)
  <2>1. PICK other \in IPs : RecordFailure(other)
    BY <1>2
  <2> QED
    BY <1>1, <2>1 DEF RecordFailure
<1>3. CASE \E other \in Suspects : Ban(other)
  <2>1. PICK other \in Suspects : Ban(other)
    BY <1>3
  <2> QED
    BY <1>1, <2>1, ConstantTypes DEF Ban
<1>4. CASE \E other \in Suspects, d \in Overrides : BanFor(other, d)
  BY <1>1, <1>4, ConstantTypes DEF BanFor
<1>5. CASE \E other \in IPs : Unban(other)
  BY <1>5 DEF Unban, TypeOK
<1>6. CASE ReaperSweep \/ Restart
  BY <1>6 DEF ReaperSweep, Restart
<1>7. CASE \/ \E other \in LoggingIn : RecordSuccess(other)
           \/ ReaperWake \/ Tick \/ UNCHANGED vars
  BY <1>7 DEF RecordSuccess, ReaperWake, Tick, vars
<1> QED
  BY <1>2, <1>3, <1>4, <1>5, <1>6, <1>7 DEF Next, Event

\* A record in the table is at least the first.
Numbered == \A ip \in IPs : Banned(ip) => bans[ip].offence # 0

LEMMA NumberedInvariance == Spec => []Numbered
<1>1. Init => Numbered
  BY DEF Init, Numbered, Banned
<1>2. IInv /\ Numbered /\ [Next]_vars => Numbered'
  <2> SUFFICES ASSUME IInv, Numbered, [Next]_vars, NEW ip \in IPs, bans'[ip] # NoBan
               PROVE  bans'[ip].offence # 0
    BY DEF Numbered, Banned
  <2>1. bans[ip].offence \in Nat
    BY DEF IInv, TypeOK
  <2> QED
    BY <2>1, RecordStep DEF Numbered, Banned
<1> QED
  BY <1>1, <1>2, Invariance, PTL DEF Spec

\* Of two bans of their offences' scheduled length, the later one ends no earlier:
\* doubling and the cap never let an address that is banned again off sooner.
THEOREM BanningAgainNeverShortens == Spec => RebanNeverShortens
<1>1. ASSUME IInv, Numbered, [Next]_vars, NEW ip \in IPs,
             Banned(ip), Banned(ip)', Scheduled(bans[ip]), Scheduled(bans'[ip])
      PROVE  bans'[ip].bannedAt + bans'[ip].duration >= bans[ip].bannedAt + bans[ip].duration
  <2>1. /\ bans[ip].bannedAt \in Nat /\ bans[ip].bannedAt <= now /\ now \in Nat
        /\ bans[ip].duration \in Int /\ bans[ip].offence \in Nat \ {0}
    BY <1>1, ConstantTypes DEF IInv, TypeOK, Numbered
  <2>2. CASE bans'[ip] = bans[ip]
    BY <2>1, <2>2
  <2>3. CASE bans'[ip].bannedAt = now /\ bans'[ip].offence = bans[ip].offence + 1
    <3>1. /\ bans[ip].duration = BanDuration(bans[ip].offence)
          /\ bans'[ip].duration = BanDuration(bans[ip].offence + 1)
      BY <1>1, <2>3 DEF Scheduled
    <3> QED
      BY <2>1, <2>3, <3>1, BanDurationGrows
  <2> QED
    BY <1>1, <2>2, <2>3, RecordStep DEF Banned
<1>2. IInv /\ Numbered /\ [Next]_vars =>
        [\A ip \in IPs :
           Banned(ip) /\ Banned(ip)' /\ Scheduled(bans[ip]) /\ Scheduled(bans'[ip]) =>
             bans'[ip].bannedAt + bans'[ip].duration >= bans[ip].bannedAt + bans[ip].duration]_vars
  BY <1>1
<1> QED
  BY <1>2, Invariance, NumberedInvariance, PTL DEF Spec, RebanNeverShortens

-----------------------------------------------------------------------------
(* Orphans of the external commands.                                       *)

LEMMA OrphanStep ==
  ASSUME TypeOK, [Next]_vars, NEW ip \in IPs, NEW b \in Blockers, Orphan(ip, b)', ~Orphan(ip, b)
  PROVE  Restart \/ (b \in MayFail /\ Banned(ip) /\ ~Banned(ip)')
<1> USE DEF Orphan, Banned
<1>1. ASSUME NEW other \in IPs, NEW d, ImposeBan(other, d)
      PROVE  FALSE
  <2>1. bans' = [bans EXCEPT ![other] =
          [bannedAt |-> now, duration |-> d, offence |-> bans[other].offence + 1]]
    BY <1>1 DEF ImposeBan
  <2>2. CASE ip = other
    <3>1. bans[other].offence + 1 # 0
      BY DEF TypeOK
    <3> QED
      BY <2>1, <2>2, <3>1 DEF NoBan, TypeOK
  <2>3. CASE ip # other
    <3>1. PICK held : blocked' = [blocked EXCEPT ![other] = held]
      BY <1>1 DEF ImposeBan, ApplySystemBan
    <3> QED
      BY <2>1, <2>3, <3>1 DEF TypeOK
  <2> QED
    BY <2>2, <2>3
\* Lifting clears whatever it does not fail on.
<1>2. ASSUME NEW ips \in SUBSET IPs, LiftSystemBans(ips), ip \in ips
      PROVE  b \in MayFail
  <2>1. PICK failed \in SUBSET (ips \X MayFail) :
          blocked' = [i \in IPs |-> [c \in Blockers |->
            IF i \in ips /\ <<i, c>> \notin failed THEN 0 ELSE blocked[i][c]]]
    BY <1>2 DEF LiftSystemBans
  <2>2. <<ip, b>> \in failed
    BY <1>2, <2>1
  <2> QED
    BY <2>2
<1>3. ASSUME NEW ips \in SUBSET IPs, LiftSystemBans(ips), ip \notin ips
      PROVE  blocked'[ip][b] = blocked[ip][b]
  BY <1>3 DEF LiftSystemBans
<1>4. CASE \/ \E other \in IPs : RecordFailure(other)
           \/ \E other \in Suspects : Ban(other)
           \/ \E other \in Suspects, d \in Overrides : BanFor(other, d)
  <2>1. CASE \E other \in IPs : \E d : ImposeBan(other, d)
    BY <1>1, <2>1
  <2>2. CASE UNCHANGED <<bans, blocked>>
    BY <2>2
  <2> QED
    BY <1>4, <2>1, <2>2, ConstantTypes DEF RecordFailure, Ban, BanFor
<1>5. CASE \E other \in IPs : Unban(other)
  <2>1. PICK other \in IPs : Unban(other)
    BY <1>5
  <2>2. LiftSystemBans({other}) /\ bans' = [bans EXCEPT ![other] = NoBan] /\ bans[other] # NoBan
    BY <2>1 DEF Unban
  <2>3. CASE ip = other
    BY <1>2, <2>2, <2>3 DEF TypeOK
  <2>4. CASE ip # other
    <3>1. {other} \in SUBSET IPs /\ ip \notin {other}
      BY <2>4
    <3> QED
      BY <1>3, <2>2, <2>4, <3>1 DEF TypeOK
  <2> QED
    BY <2>3, <2>4
<1>6. CASE ReaperSweep
  <2>1. /\ Expired(reaper) \in SUBSET IPs /\ LiftSystemBans(Expired(reaper))
        /\ bans' = [i \in IPs |-> IF i \in Expired(reaper) THEN NoBan ELSE bans[i]]
    BY <1>6 DEF ReaperSweep, Expired
  <2>2. CASE ip \in Expired(reaper)
    BY <1>2, <2>1, <2>2 DEF Expired
  <2>3. CASE ip \notin Expired(reaper)
    BY <1>3, <2>1, <2>3
  <2> QED
    BY <2>2, <2>3
<1>7. CASE Tick
  BY <1>7 DEF Tick
<1>8. CASE Restart
  BY <1>8
<1>9. CASE (\E other \in LoggingIn : RecordSuccess(other)) \/ ReaperWake \/ UNCHANGED vars
  BY <1>9 DEF RecordSuccess, ReaperWake, vars
<1> QED
  BY <1>4, <1>5, <1>6, <1>7, <1>8, <1>9 DEF Next, Event

\* Only the death of the daemon, or a lifting command that failed, leaves an
\* address dropped that the ban table does not hold; a blocker whose commands obey
\* is left with none by the other's failures.
THEOREM OrphansAreLeftByFaults == Spec => OrphansOnlyByFault
<1>1. TypeOK /\ [Next]_vars =>
        [\A ip \in IPs, b \in Blockers :
           Orphan(ip, b)' /\ ~Orphan(ip, b) =>
             Restart \/ (b \in MayFail /\ Banned(ip) /\ ~Banned(ip)')]_vars
  BY OrphanStep
<1> QED
  BY <1>1, TypeCorrect, PTL DEF Spec, OrphansOnlyByFault

-----------------------------------------------------------------------------
(* The protector implements the ideal sliding window.                      *)

LEMMA SameEvict ==
  ASSUME NEW dq, NEW cutoff
  PROVE  Ideal!Evict(dq, cutoff) = Evict(dq, cutoff)
  BY DEF Ideal!Evict, Ideal!FirstKept, Evict, FirstKept

LEMMA InitRefines == Init => Ideal!Init
<1> SUFFICES ASSUME Init PROVE Ideal!Init
  OBVIOUS
<1>1. now = 0 /\ bans = [ip \in IPs |-> Ideal!NoBan]
  BY DEF Init, NoBan, Ideal!NoBan
<1>2. \A ip \in IPs : Evict(attempts[ip], now - Window) = <<>>
  <2>1. ASSUME NEW ip \in IPs
        PROVE  Evict(attempts[ip], now - Window) = <<>>
    <3>1. attempts[ip] = <<>> /\ <<>> \in Seq(Nat) /\ now - Window \in Int
      BY ConstantTypes DEF Init
    <3>2. \A i \in 1 .. Len(attempts[ip]) : attempts[ip][i] < now - Window
      BY <3>1
    <3> QED
      BY <3>1, <3>2, EvictAllOutdated
  <2> QED
    BY <2>1
<1> QED
  BY <1>1, <1>2 DEF InWindow, Ideal!Init

\* An emptied deque shows as an empty window.
LEMMA EmptyWindow ==
  ASSUME IInv
  PROVE  Evict(<<>>, now - Window) = <<>>
<1>1. now - Window \in Int /\ <<>> \in Seq(Nat)
  BY ConstantTypes DEF IInv, TypeOK
<1>2. \A i \in 1 .. Len(<<>>) : (<<>>)[i] < now - Window
  OBVIOUS
<1> QED
  BY <1>1, <1>2, EvictAllOutdated

\* Imposing a ban is the abstract StartBan.
LEMMA ImposeBanRefines ==
  ASSUME IInv, NEW ip \in IPs, NEW duration \in Int, ImposeBan(ip, duration)
  PROVE  Ideal!StartBan(ip) /\ bans'[ip].duration = duration
<1>1. now' = now /\ attempts' = [attempts EXCEPT ![ip] = <<>>]
  BY DEF ImposeBan
<1>2. bans' = [bans EXCEPT ![ip] =
        [bannedAt |-> now, duration |-> duration, offence |-> bans[ip].offence + 1]]
  BY DEF ImposeBan
<1>3. bans'[ip].duration = duration
  BY <1>2 DEF IInv, TypeOK
<1>4. InWindow' = [InWindow EXCEPT ![ip] = <<>>]
  BY <1>1, EmptyWindow DEF InWindow, IInv, TypeOK
<1> QED
  BY <1>1, <1>2, <1>3, <1>4 DEF Ideal!StartBan

LEMMA RecordFailureRefines ==
  ASSUME IInv, NEW ip \in IPs, RecordFailure(ip)
  PROVE  Ideal!Fail(ip) \/ Ideal!FailAndBan(ip)
<1>1. ip \notin Whitelist /\ ~Ideal!Banned(ip)
  BY DEF RecordFailure, Ignored, Banned, NoBan, Ideal!Banned, Ideal!NoBan
<1>2. /\ InWindow[ip] \in Seq(Nat)
      /\ Counted(ip) = Append(InWindow[ip], now)
      /\ Counted(ip) \in Seq(Nat)
      /\ now \in Nat /\ now - Window \in Int
  <2>1. attempts[ip] \in Seq(Nat) /\ now \in Nat /\ now - Window \in Int
    BY ConstantTypes DEF IInv, TypeOK
  <2>2. InWindow[ip] = Evict(attempts[ip], now - Window)
    BY DEF InWindow
  <2> QED
    BY <2>1, <2>2, EvictIsSuffix, CountedFacts DEF IInv
<1>3. Len(Counted(ip)) = Len(InWindow[ip]) + 1
  BY <1>2
<1>4. CASE /\ Len(Counted(ip)) < MaxAttempts
           /\ attempts' = [attempts EXCEPT ![ip] = Counted(ip)]
           /\ UNCHANGED <<now, bans, reaper, blocked>>
  <2>1. Evict(Counted(ip), now - Window) = Counted(ip)
    <3>1. Append(attempts[ip], now) \in Seq(Nat)
      BY ConstantTypes DEF IInv, TypeOK
    <3>2. now - Window <= now - Window
      BY <1>2
    <3>3. Evict(Evict(Append(attempts[ip], now), now - Window), now - Window)
            = Evict(Append(attempts[ip], now), now - Window)
      BY <1>2, <3>1, <3>2, EvictTwice
    <3> QED
      BY <3>3 DEF Counted
  <2>2. InWindow' = [InWindow EXCEPT ![ip] = Append(@, now)]
    <3>1. ASSUME NEW other \in IPs
          PROVE  Evict(attempts'[other], now' - Window)
                   = IF other = ip THEN Append(InWindow[ip], now) ELSE InWindow[other]
      BY <1>2, <1>4, <2>1 DEF InWindow, IInv, TypeOK
    <3> QED
      BY <3>1 DEF InWindow
  <2>3. Ideal!Fail(ip)
    BY <1>1, <1>3, <1>4, <2>2 DEF Ideal!Fail
  <2> QED
    BY <2>3
<1>5. CASE /\ Len(Counted(ip)) >= MaxAttempts
           /\ ImposeBan(ip, BanDuration(bans[ip].offence + 1))
  <2>1. bans[ip].offence + 1 = 1
    BY DEF RecordFailure, Ignored, Banned, NoBan
  <2>2. ImposeBan(ip, BanDuration(1)) /\ BanDuration(1) \in Int
    BY <1>5, <2>1, BanDurationType
  <2>3. Ideal!StartBan(ip) /\ bans'[ip].duration = BanDuration(1)
    BY <2>2, ImposeBanRefines
  <2>4. Ideal!FailAndBan(ip)
    BY <1>1, <1>3, <1>5, <2>3 DEF Ideal!FailAndBan
  <2> QED
    BY <2>4
<1> QED
  BY <1>4, <1>5 DEF RecordFailure

LEMMA ReaperSweepRefines ==
  ASSUME IInv, ReaperSweep
  PROVE  Ideal!Expire
<1>1. /\ reaper \in Nat /\ now \in Nat /\ reaper <= now /\ now' = now
      /\ now - Window \in Int
  BY ConstantTypes DEF IInv, TypeOK, ReaperSweep, Asleep
<1>2. Expired(reaper) \subseteq
        {ip \in IPs : Ideal!Banned(ip) /\ now - bans[ip].bannedAt >= bans[ip].duration}
  <2>1. ASSUME NEW ip \in Expired(reaper)
        PROVE  now - bans[ip].bannedAt >= bans[ip].duration
    <3>1. ip \in IPs /\ reaper - bans[ip].bannedAt >= bans[ip].duration
      BY DEF Expired
    <3>2. bans[ip].bannedAt \in Int /\ bans[ip].duration \in Int
      BY <3>1 DEF IInv, TypeOK
    <3> QED
      BY <1>1, <3>1, <3>2
  <2> QED
    BY <2>1 DEF Expired, Banned, NoBan, Ideal!Banned, Ideal!NoBan
<1>3. bans' = [ip \in IPs |-> IF ip \in Expired(reaper) THEN Ideal!NoBan ELSE bans[ip]]
  BY DEF ReaperSweep, NoBan, Ideal!NoBan
<1>4. InWindow' = InWindow
  <2>1. ASSUME NEW ip \in IPs
        PROVE  Evict(attempts'[ip], now' - Window) = Evict(attempts[ip], now - Window)
    <3>1. CASE ip \notin Stale(reaper)
      BY <1>1, <3>1 DEF ReaperSweep
    <3>2. CASE ip \in Stale(reaper)
      <4> DEFINE dq == attempts[ip]
      <4>1. dq \in Seq(Nat) /\ Ordered(dq) /\ dq # <<>> /\ reaper - dq[Len(dq)] > Window
        BY <3>2 DEF Stale, IInv, TypeOK, AttemptsOrdered
      <4>2. \A i \in 1 .. Len(dq) : dq[i] <= dq[Len(dq)] /\ dq[i] \in Nat
        BY <4>1 DEF Ordered
      <4>3. \A i \in 1 .. Len(dq) : dq[i] < now - Window
        BY <1>1, <4>1, <4>2, ConstantTypes
      <4>4. Evict(dq, now - Window) = <<>>
        BY <1>1, <4>1, <4>3, EvictAllOutdated
      <4>5. attempts'[ip] = <<>>
        BY <3>2 DEF ReaperSweep
      <4> QED
        BY <1>1, <4>4, <4>5, EmptyWindow
    <3> QED
      BY <3>1, <3>2
  <2> QED
    BY <2>1 DEF InWindow
<1> QED
  BY <1>1, <1>2, <1>3, <1>4 DEF Ideal!Expire

LEMMA TickRefines ==
  ASSUME IInv, Tick
  PROVE  Ideal!Tick
<1>1. now \in Nat /\ now < MaxTime /\ now' = now + 1 /\ UNCHANGED <<attempts, bans>>
  BY ConstantTypes DEF IInv, TypeOK, Tick
<1>2. now - Window \in Int /\ now' - Window \in Int /\ now - Window <= now' - Window
  BY <1>1, ConstantTypes
<1>3. ASSUME NEW ip \in IPs
      PROVE  Evict(attempts'[ip], now' - Window)
               = Ideal!Evict(InWindow[ip], now' - Window)
  <2>1. attempts[ip] \in Seq(Nat) /\ InWindow[ip] = Evict(attempts[ip], now - Window)
    BY DEF IInv, TypeOK, InWindow
  <2>2. Evict(InWindow[ip], now' - Window) = Evict(attempts[ip], now' - Window)
    BY <1>2, <2>1, EvictTwice
  <2> QED
    BY <1>1, <2>2, SameEvict
<1> QED
  BY <1>1, <1>3 DEF Ideal!Tick, InWindow

LEMMA StepRefines == IInv /\ [Next]_vars => [Ideal!Next]_(Ideal!vars)
<1> SUFFICES ASSUME IInv, [Next]_vars PROVE [Ideal!Next]_(Ideal!vars)
  OBVIOUS
<1>1. CASE \E ip \in IPs : RecordFailure(ip)
  BY <1>1, RecordFailureRefines DEF Ideal!Next
<1>2. CASE \E ip \in LoggingIn : RecordSuccess(ip)
  <2>1. PICK ip \in LoggingIn : RecordSuccess(ip)
    BY <1>2
  <2>2. InWindow' = [InWindow EXCEPT ![ip] = <<>>]
    BY <2>1, EmptyWindow DEF RecordSuccess, InWindow, IInv, TypeOK
  <2>3. Ideal!Succeed(ip)
    BY <2>1, <2>2 DEF RecordSuccess, Ideal!Succeed
  <2> QED
    BY <2>3 DEF Ideal!Next
<1>3. CASE \E ip \in Suspects : Ban(ip)
  <2>1. PICK ip \in Suspects : Ban(ip)
    BY <1>3
  <2>2. ip \in IPs /\ bans[ip].offence + 1 \in Nat \ {0}
    BY ConstantTypes DEF IInv, TypeOK
  <2>3. Ideal!StartBan(ip)
    BY <2>1, <2>2, BanDurationType, ImposeBanRefines DEF Ban
  <2> QED
    BY <2>3 DEF Ideal!Next
<1>4. CASE \E ip \in Suspects, d \in Overrides : BanFor(ip, d)
  <2>1. PICK ip \in Suspects, d \in Overrides : ImposeBan(ip, d)
    BY <1>4 DEF BanFor
  <2>2. Ideal!StartBan(ip)
    BY <2>1, ConstantTypes, ImposeBanRefines
  <2> QED
    BY <2>2 DEF Ideal!Next
<1>5. CASE \E ip \in IPs : Unban(ip)
  <2>1. PICK ip \in IPs : Unban(ip)
    BY <1>5
  <2>2. InWindow' = InWindow
    BY <2>1 DEF Unban, InWindow
  <2>3. Ideal!Pardon(ip)
    BY <2>1, <2>2 DEF Unban, Banned, NoBan, Ideal!Pardon, Ideal!Banned, Ideal!NoBan
  <2> QED
    BY <2>3 DEF Ideal!Next
<1>6. CASE Restart
  <2>1. InWindow' = [ip \in IPs |-> <<>>]
    BY <1>6, EmptyWindow DEF Restart, InWindow
  <2>2. Ideal!Restart
    BY <1>6, <2>1 DEF Restart, NoBan, Ideal!Restart, Ideal!NoBan
  <2> QED
    BY <2>2 DEF Ideal!Next
<1>7. CASE ReaperSweep
  BY <1>7, ReaperSweepRefines DEF Ideal!Next
<1>8. CASE Tick
  BY <1>8, TickRefines DEF Ideal!Next
<1>9. CASE ReaperWake \/ UNCHANGED vars
  BY <1>9 DEF ReaperWake, vars, InWindow, Ideal!vars
<1> QED
  BY <1>1, <1>2, <1>3, <1>4, <1>5, <1>6, <1>7, <1>8, <1>9 DEF Next, Event

\* BruteForceProtector implements SlidingBan: trimming the deques late, and a
\* reaper that sweeps by an old reading, change nothing a caller can see.
THEOREM RefinesSlidingBan == Spec => ImplementsSlidingBan
<1>1. Init => Ideal!Init
  BY InitRefines
<1>2. IInv /\ [Next]_vars => [Ideal!Next]_(Ideal!vars)
  BY StepRefines
<1> QED
  BY <1>1, <1>2, Invariance, PTL DEF Spec, ImplementsSlidingBan, Ideal!Spec
=============================================================================
