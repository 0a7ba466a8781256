----------------------------- MODULE SIEMChannel -----------------------------
(***************************************************************************)
(* What a SIEM backend promises.  It may turn a document away at the door  *)
(* and counts each one it turns away.  If the target answers for what it   *)
(* is sent, every document taken arrives, in the order they were taken.    *)
(* If it does not, documents may also be given up, though only together    *)
(* with everything older.  Seen from a target that ignores a document it   *)
(* already has.                                                            *)
(***************************************************************************)
EXTENDS Naturals

CONSTANT MaxDocs

VARIABLES
  answers,    \* does the target answer?
  offered,    \* documents 1 .. offered have been handed to the backend
  pending,    \* taken, and neither at the target nor given up
  arrived,    \* at the target
  lost,       \* given up
  dropped     \* how many were turned away

vars == <<answers, offered, pending, arrived, lost, dropped>>

Init ==
  /\ answers \in BOOLEAN
  /\ offered = 0 /\ pending = {} /\ arrived = {} /\ lost = {} /\ dropped = 0

Accept ==
  /\ offered < MaxDocs
  /\ offered' = offered + 1
  /\ pending' = pending \cup {offered'}
  /\ UNCHANGED <<answers, arrived, lost, dropped>>

TurnAway ==
  /\ offered < MaxDocs
  /\ offered' = offered + 1
  /\ dropped' = dropped + 1
  /\ UNCHANGED <<answers, pending, arrived, lost>>

\* Nothing that waits is older.
OldestOf(docs) == \A d \in docs, e \in pending \ docs : d < e

Settle ==
  /\ \E got, gone \in SUBSET pending :
       /\ got \cap gone = {}
       /\ answers => gone = {}
       /\ answers \/ gone # {} => OldestOf(got \cup gone)
       /\ arrived' = arrived \cup got
       /\ lost' = lost \cup gone
       /\ pending' = pending \ (got \cup gone)
  /\ UNCHANGED <<answers, offered, dropped>>

Next == Accept \/ TurnAway \/ Settle

Spec == Init /\ [][Next]_vars
=============================================================================
