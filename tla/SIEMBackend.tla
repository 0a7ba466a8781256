----------------------------- MODULE SIEMBackend -----------------------------
(***************************************************************************)
(* modules/logging/siem_forwarder.py: one _BaseBackend, the bounded queue  *)
(* that SIEMForwarder.__call__ fills from the log-tail thread, and the     *)
(* worker thread that batches, sends, backs off and retries.               *)
(*                                                                         *)
(* Documents are numbered in the order they are handed over.  The target   *)
(* is external.  A send that raises may have delivered some of the batch,  *)
(* and the batch is sent again from its start.  A send that returns means  *)
(* that the target has the batch only where the target answers for it, in  *)
(* one request (Splunk, webhook); a UDP datagram, the end of a broken TCP  *)
(* stream, a record that Kafka's producer gave up, an item that            *)
(* Elasticsearch refused are lost behind a send that returned.             *)
(***************************************************************************)
EXTENDS Naturals, Sequences, FiniteSets

CONSTANTS
  BatchSize,      \* batch_size
  QueueSize,      \* queue.Queue(maxsize=10_000)
  MaxBackoff,     \* 60 in the code
  MaxDocs         \* bound: documents handed over

ASSUME SIEMAssumption ==
  /\ {BatchSize, QueueSize, MaxBackoff} \subseteq Nat \ {0}
  /\ MaxDocs \in Nat

VARIABLES
  answers,    \* does the target answer for the whole batch?
  offered,    \* documents 1 .. offered have gone through enqueue
  queue,      \* self._queue
  dropped,    \* self._dropped
  batch,      \* _run's batch
  due,        \* time.monotonic() >= deadline
  backoff,    \* _run's backoff
  worker,     \* where _run is: "get", "decide", "send" or "sleep"
  arrived,    \* the documents the target has
  lost        \* history: those it will never have although the send returned

vars == <<answers, offered, queue, dropped, batch, due, backoff, worker, arrived, lost>>
target == <<arrived, lost>>

ToSet(s) == {s[i] : i \in DOMAIN s}

Init ==
  /\ answers \in BOOLEAN
  /\ offered = 0 /\ queue = <<>> /\ dropped = 0
  /\ batch = <<>> /\ due = FALSE /\ backoff = 1 /\ worker = "get"
  /\ arrived = {} /\ lost = {}

-----------------------------------------------------------------------------
(* The log-tail thread.                                                    *)

\* Slip: a full queue drops in silence.
EnqueueInSilence ==
  /\ offered < MaxDocs
  /\ offered' = offered + 1
  /\ queue' = IF Len(queue) < QueueSize THEN Append(queue, offered') ELSE queue
  /\ UNCHANGED <<answers, dropped, batch, due, backoff, worker, target>>

\* Slip: a full queue drops its oldest document to make room.
EnqueueEvictingOldest ==
  /\ offered < MaxDocs
  /\ offered' = offered + 1
  /\ \/ /\ Len(queue) < QueueSize
        /\ queue' = Append(queue, offered')
        /\ UNCHANGED dropped
     \/ /\ Len(queue) = QueueSize
        /\ dropped' = dropped + 1
        /\ queue' = Append(Tail(queue), offered')
  /\ UNCHANGED <<answers, batch, due, backoff, worker, target>>

\* put_nowait: a full queue drops the NEW document.
Enqueue ==
  /\ offered < MaxDocs
  /\ offered' = offered + 1
  /\ \/ /\ Len(queue) < QueueSize
        /\ queue' = Append(queue, offered')
        /\ UNCHANGED dropped
     \/ /\ Len(queue) = QueueSize
        /\ dropped' = dropped + 1
        /\ UNCHANGED queue
  /\ UNCHANGED <<answers, batch, due, backoff, worker, target>>

-----------------------------------------------------------------------------
(* The worker thread.                                                      *)

DeadlinePasses ==
  /\ ~due /\ due' = TRUE
  /\ UNCHANGED <<answers, offered, queue, dropped, batch, backoff, worker, target>>

Get ==
  /\ worker = "get" /\ queue # <<>>
  /\ batch' = Append(batch, Head(queue))
  /\ queue' = Tail(queue)
  /\ worker' = "decide"
  /\ UNCHANGED <<answers, offered, dropped, due, backoff, target>>

\* queue.Empty, no sooner than the deadline.
GetTimesOut ==
  /\ worker = "get" /\ queue = <<>> /\ due
  /\ worker' = "decide"
  /\ UNCHANGED <<answers, offered, queue, dropped, batch, due, backoff, target>>

\* Slip: only a full batch is sent.
ShouldFlushIfFull == Len(batch) >= BatchSize

\* should_flush and batch; an empty batch leaves the deadline in the past.
ShouldFlush == batch # <<>> /\ (Len(batch) >= BatchSize \/ due)

Decide ==
  /\ worker = "decide"
  /\ worker' = IF ShouldFlush THEN "send" ELSE "get"
  /\ UNCHANGED <<answers, offered, queue, dropped, batch, due, backoff, target>>

\* What the target may have of the batch when _send_batch has returned, or raised:
\* a request is answered or the answer is lost; of several calls, or of a request
\* that is not answered for as a whole, any documents may get through.
Received(returned) ==
  IF answers
  THEN IF returned THEN {ToSet(batch)} ELSE {{}, ToSet(batch)}
  ELSE SUBSET ToSet(batch)

\* _send_batch returns, and the batch is forgotten.
SendReturns ==
  /\ worker = "send"
  /\ \E got \in Received(TRUE) :
       /\ arrived' = arrived \cup got
       /\ lost' = lost \cup (ToSet(batch) \ arrived')
  /\ batch' = <<>> /\ due' = FALSE /\ backoff' = 1 /\ worker' = "get"
  /\ UNCHANGED <<answers, offered, queue, dropped>>

\* _send_batch raises; the batch is kept.
SendRaises ==
  /\ worker = "send"
  /\ \E got \in Received(FALSE) : arrived' = arrived \cup got
  /\ worker' = "sleep"
  /\ UNCHANGED <<answers, offered, queue, dropped, batch, due, backoff, lost>>

\* After time.sleep(backoff).
WakeUp ==
  /\ worker = "sleep"
  /\ backoff' = IF backoff * 2 < MaxBackoff THEN backoff * 2 ELSE MaxBackoff
  /\ due' = FALSE
  /\ worker' = "get"
  /\ UNCHANGED <<answers, offered, queue, dropped, batch, target>>

Work == DeadlinePasses \/ Get \/ GetTimesOut \/ Decide \/ SendReturns \/ SendRaises \/ WakeUp

Next == Enqueue \/ Work

Spec == Init /\ [][Next]_vars

\* The worker thread runs, deadlines pass, and the target recovers: of sends
\* tried again and again, some return.
FairSpec ==
  /\ Spec
  /\ WF_vars(DeadlinePasses) /\ WF_vars(Get) /\ WF_vars(GetTimesOut)
  /\ WF_vars(Decide) /\ WF_vars(SendReturns \/ SendRaises) /\ WF_vars(WakeUp)
  /\ SF_vars(SendReturns)

-----------------------------------------------------------------------------
(* Properties.                                                             *)

Docs == 1 .. MaxDocs

\* Every variable stays in its type.
TypeOK ==
  /\ answers \in BOOLEAN
  /\ offered \in 0 .. MaxDocs
  /\ queue \in Seq(1 .. offered) /\ Len(queue) <= QueueSize
  /\ dropped \in Nat
  /\ batch \in Seq(1 .. offered)
  /\ due \in BOOLEAN
  /\ backoff \in 1 .. MaxBackoff
  /\ worker \in {"get", "decide", "send", "sleep"}
  /\ arrived \subseteq 1 .. offered
  /\ lost \subseteq 1 .. offered

InHand == ToSet(batch) \cup ToSet(queue)

\* dropped_counts() tells the truth of what the backend did: whatever fails and is
\* retried, it is the number of documents that are neither at the target nor in
\* hand nor lost behind a send that returned; and nothing is lost there if the
\* target answers for the batch.
NothingUnaccounted ==
  /\ dropped = Cardinality((1 .. offered) \ (arrived \cup lost \cup InHand))
  /\ lost \cap (arrived \cup InHand) = {}
  /\ answers => lost = {}

\* Batching, backing off and sending again implement the channel that turns away
\* only at its door, gives up only the oldest and, if the target answers, lets
\* everything it took arrive in order.
Channel == INSTANCE SIEMChannel WITH pending <- InHand \ arrived

ImplementsChannel == Channel!Spec

\* A document that was taken arrives once the target recovers, however often
\* the send failed and however the flush interval falls; only where the target
\* does not answer may it be lost instead.
TakenDocsArrive ==
  \A d \in Docs : d \in InHand ~> d \in arrived \/ (~answers /\ d \in lost)
=============================================================================
