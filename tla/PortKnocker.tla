----------------------------- MODULE PortKnocker -----------------------------
(***************************************************************************)
(* modules/protection/port_knocker.py: one thread that polls the listening *)
(* sockets of the knock sequence in turn, a second each, the progress it   *)
(* keeps per address, and the threads that open the SSH port.  The         *)
(* sockets' backlogs and nftables' knock_allowed set are external.         *)
(***************************************************************************)
EXTENDS Integers, Sequences, AttemptWindow

CONSTANTS
  IPs,
  KnockSequence,   \* port_knocking.sequence
  Timeout,         \* port_knocking.timeout
  CloseAfter,      \* port_knocking.close_after
  Backlog,         \* knocks a socket holds until they are accepted
  MaxTime,         \* bound: the clock stops here
  MaxKnocks        \* bound: knocks per address

Ports == {KnockSequence[i] : i \in DOMAIN KnockSequence}

PortKnockerAssumption ==
  /\ KnockSequence \in Seq(Ports) /\ KnockSequence # <<>>
  /\ \A i, j \in DOMAIN KnockSequence : KnockSequence[i] = KnockSequence[j] => i = j
  /\ {Timeout, MaxTime, MaxKnocks} \subseteq Nat
  /\ {CloseAfter, Backlog} \subseteq Nat \ {0}

VARIABLES
  now,        \* time.monotonic()
  waiting,    \* the addresses in each socket's backlog
  poll,       \* the socket _listen_loop is at, and since when
  progress,   \* self._progress
  opening,    \* addresses whose _open_for_ip thread has not run yet
  allowed,    \* knock_allowed: when each address leaves it, 0 when not in it
  sent,       \* history: the knocks each address has sent
  recorded    \* history: the knocks recorded for each address

vars == <<now, waiting, poll, progress, opening, allowed, sent, recorded>>

Init ==
  /\ now = 0
  /\ waiting = [port \in Ports |-> <<>>]
  /\ poll = [at |-> 1, since |-> 0]
  /\ progress = [ip \in IPs |-> <<>>]
  /\ opening = {}
  /\ allowed = [ip \in IPs |-> 0]
  /\ sent = [ip \in IPs |-> <<>>]
  /\ recorded = [ip \in IPs |-> <<>>]

Polled == KnockSequence[poll.at]
NextSocket == poll' = [at |-> (poll.at % Len(KnockSequence)) + 1, since |-> now]

Knock(ip, port) ==
  /\ Len(sent[ip]) < MaxKnocks
  /\ Len(waiting[port]) < Backlog
  /\ waiting' = [waiting EXCEPT ![port] = Append(@, ip)]
  /\ sent' = [sent EXCEPT ![ip] = Append(@, port)]
  /\ UNCHANGED <<now, poll, progress, opening, allowed, recorded>>

\* Slip: outdated knocks are kept.
KeptForEver(ip, port) == Append(progress[ip], [port |-> port, at |-> now])

\* The knocks, older than the timeout, at the left go; this one comes behind.
Kept(ip, port) ==
  Append(EvictEntries(progress[ip], now - Timeout), [port |-> port, at |-> now])

Completes(knocks) ==
  /\ Len(knocks) >= Len(KnockSequence)
  /\ \A i \in DOMAIN KnockSequence :
       knocks[Len(knocks) - Len(KnockSequence) + i].port = KnockSequence[i]

\* accept or recvfrom returns a knock, and _record_knock takes it.
Accept ==
  /\ waiting[Polled] # <<>>
  /\ LET ip == Head(waiting[Polled])
         knocks == Kept(ip, Polled)
     IN  /\ recorded' = [recorded EXCEPT ![ip] = Append(@, [port |-> Polled, at |-> now])]
         /\ IF Completes(knocks)
            THEN /\ progress' = [progress EXCEPT ![ip] = <<>>]
                 /\ opening' = opening \cup {ip}
            ELSE /\ progress' = [progress EXCEPT ![ip] = knocks]
                 /\ UNCHANGED opening
  /\ waiting' = [waiting EXCEPT ![Polled] = Tail(@)]
  /\ NextSocket
  /\ UNCHANGED <<now, allowed, sent>>

\* settimeout(1.0)
AcceptTimesOut ==
  /\ waiting[Polled] = <<>> /\ now > poll.since
  /\ NextSocket
  /\ UNCHANGED <<now, waiting, progress, opening, allowed, sent, recorded>>

\* nft add element: an element that is there keeps its timeout; the outcome is
\* not looked at.
OpenFor(ip) ==
  /\ ip \in opening
  /\ opening' = opening \ {ip}
  /\ \/ allowed[ip] = 0 /\ allowed' = [allowed EXCEPT ![ip] = now + CloseAfter]
     \/ UNCHANGED allowed
  /\ UNCHANGED <<now, waiting, poll, progress, sent, recorded>>

Tick ==
  /\ now < MaxTime
  /\ now' = now + 1
  /\ allowed' = [ip \in IPs |-> IF allowed[ip] <= now' THEN 0 ELSE allowed[ip]]
  /\ UNCHANGED <<waiting, poll, progress, opening, sent, recorded>>

Next ==
  \/ \E ip \in IPs, port \in Ports : Knock(ip, port)
  \/ Accept \/ AcceptTimesOut
  \/ \E ip \in IPs : OpenFor(ip)
  \/ Tick

Spec == Init /\ [][Next]_vars

-----------------------------------------------------------------------------
(* Properties.                                                             *)

Knocks == [port : Ports, at : 0 .. MaxTime]

\* Every variable stays in its type.
TypeOK ==
  /\ now \in 0 .. MaxTime
  /\ waiting \in [Ports -> Seq(IPs)]
  /\ poll \in [at : DOMAIN KnockSequence, since : 0 .. MaxTime]
  /\ progress \in [IPs -> Seq(Knocks)]
  /\ opening \subseteq IPs
  /\ allowed \in [IPs -> 0 .. MaxTime + CloseAfter]
  /\ sent \in [IPs -> Seq(Ports)]
  /\ recorded \in [IPs -> Seq(Knocks)]

\* An address is let in on knocks of its own alone, and on nothing less than the
\* sequence: it is, at the knock with which the last ones recorded for it are the
\* sequence, all of them within the timeout.
Finishes(all) ==
  LET from == Len(all) - Len(KnockSequence) IN
  /\ from >= 0
  /\ \A i \in DOMAIN KnockSequence : all[from + i].port = KnockSequence[i]
  /\ now - all[from + 1].at <= Timeout

OpensExactlyOnSequence ==
  [][\A ip \in IPs :
       /\ ip \in opening' \ opening => recorded[ip] # recorded'[ip] /\ Finishes(recorded'[ip])
       /\ recorded[ip] # recorded'[ip] /\ Finishes(recorded'[ip]) => ip \in opening']_vars
=============================================================================
