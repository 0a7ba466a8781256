------------------------------ MODULE LogParser ------------------------------
(***************************************************************************)
(* modules/logging/log_parser.py: the event that a message of sshd becomes.*)
(* A message is known here by its wording, and the wording by the patterns *)
(* that find it; _classify takes the first of _PATTERNS that does.  A line *)
(* that is empty, of another program or without a header reaches no        *)
(* handler.                                                                *)
(***************************************************************************)
EXTENDS Sequences

\* _PATTERNS, in their order; PORT_FORWARD is left out.
Patterns ==
  <<"AUTH_FAILURE", "AUTH_SUCCESS", "PUBKEY_ACCEPTED", "INVALID_USER", "ROOT_ATTEMPT",
    "TOO_MANY_AUTH", "DISCONNECT", "CONNECTION_CLOSED">>

\* The messages that each pattern finds.  A method is \w+ to the first, which
\* "keyboard-interactive/pam" is not, and any text to the one for root.
Finds ==
  [AUTH_FAILURE      |-> {"Failed password", "Failed password for root"},
   AUTH_SUCCESS      |-> {"Accepted password", "Accepted publickey"},
   PUBKEY_ACCEPTED   |-> {"Accepted publickey"},
   INVALID_USER      |-> {"Invalid user"},
   ROOT_ATTEMPT      |-> {"Failed password for root", "Failed keyboard-interactive/pam for root"},
   TOO_MANY_AUTH     |-> {"maximum authentication attempts exceeded"},
   DISCONNECT        |-> {"Disconnected from user", "Disconnected from authenticating user"},
   CONNECTION_CLOSED |-> {"Connection closed by invalid user"}]

FoundByNone ==
  {"Failed keyboard-interactive/pam", "Disconnected from invalid user",
   "Connection closed by authenticating user"}

Messages == UNION {Finds[type] : type \in DOMAIN Finds} \cup FoundByNone

\* _classify
Classify(message) ==
  LET found == SelectSeq(Patterns, LAMBDA type : message \in Finds[type])
  IN  IF found = <<>> THEN "UNKNOWN" ELSE Head(found)
=============================================================================
