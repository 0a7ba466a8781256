---------------------------- MODULE IPReputation ----------------------------
(***************************************************************************)
(* modules/protection/ip_reputation.py: check, which answers from a cache  *)
(* or asks AbuseIPDB, without its lock and for up to five seconds.  Only   *)
(* the tail thread of the daemon calls it.  The service is external.       *)
(***************************************************************************)
EXTENDS Naturals, Sequences

CONSTANTS
  IPs,
  Private,   \* the addresses nobody is asked about
  TTL        \* cache_ttl_hours

VARIABLES
  now,       \* the clock
  verdicts,  \* _cache: what was answered for each address, and when
  asked      \* history: when the service was asked about each address

NoVerdict == [known |-> FALSE, bad |-> FALSE, at |-> 0]

Init ==
  /\ verdicts = [ip \in IPs |-> NoVerdict]
  /\ asked = [ip \in IPs |-> <<>>]

Fresh(ip) == verdicts[ip].known /\ now - verdicts[ip].at < TTL

\* Is there anything to look up?
Unknown(ip) == ip \notin Private /\ ~Fresh(ip)

Malicious(ip) == ip \notin Private /\ verdicts[ip].bad

\* _query_abuseipdb sends the request ...
Ask(ip) ==
  /\ asked' = [asked EXCEPT ![ip] = Append(@, now)]
  /\ UNCHANGED verdicts

\* Slip: an answer that failed is not kept.
AnswerUnkept(ip) ==
  /\ \/ verdicts' = [verdicts EXCEPT ![ip] = [known |-> TRUE, bad |-> TRUE, at |-> now]]
     \/ verdicts' = [verdicts EXCEPT ![ip] = NoVerdict]
  /\ UNCHANGED asked

\* ... and its answer is kept; a request that fails, whatever the reason, is
\* answered with a score of 0, which is kept as long as any other.
Answer(ip) ==
  /\ \E bad \in BOOLEAN : verdicts' = [verdicts EXCEPT ![ip] = [known |-> TRUE, bad |-> bad, at |-> now]]
  /\ UNCHANGED asked

-----------------------------------------------------------------------------
(* Properties.                                                             *)

\* The service, whose requests are counted, is asked about an address once within
\* the time a verdict is good for, however many of its lines the log shows, and
\* also while it cannot be reached.
QuotaKept ==
  \A ip \in IPs : \A i, j \in DOMAIN asked[ip] : i < j => asked[ip][j] >= asked[ip][i] + TTL
=============================================================================
