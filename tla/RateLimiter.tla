----------------------------- MODULE RateLimiter -----------------------------
(***************************************************************************)
(* modules/protection/rate_limiter.py, the last part of `main.py harden`,  *)
(* with either backend, or disabled.  nftables: load the rule set, then    *)
(* save what the kernel has to nftables.conf, which is truncated first.    *)
(* iptables: append rule after rule to INPUT, whether or not the one       *)
(* before could be, and save nothing.  The commands, and the boot, are     *)
(* external.                                                               *)
(***************************************************************************)
EXTENDS Naturals, Sequences

CONSTANT NftMayFail   \* may an nft or iptables command fail or time out?

VARIABLES
  at,       \* where the command under way is
  table,    \* is table inet ssh_fortress in the kernel?
  conf,     \* what nftables.conf holds
  nftOk,    \* history: every nft of the latest run has succeeded
  backend,  \* rate_limiter.backend, "none" if it is not enabled
  input,    \* the two rules for SYN packets in the order INPUT first has them
  iptOk     \* history: no iptables has failed

\* What was there, nothing, what `nft list ruleset` printed with the table.
ConfContents == {"no_file", "original", "empty", "saved"}

Step(from, to) == at = from /\ at' = to

Init ==
  /\ table = FALSE /\ nftOk = FALSE
  /\ conf \in {"no_file", "original"}
  /\ backend \in {"nftables", "iptables", "none"}
  /\ input = <<>> /\ iptOk = TRUE

nftVars == <<table, conf, nftOk>>
iptVars == <<input, iptOk>>

Skip(next) ==
  /\ backend = "none" /\ Step("limit", next)
  /\ UNCHANGED <<nftVars, backend, iptVars>>

\* nft -f on a file of its own in /tmp: all or nothing, and after a failure
\* nothing is saved.
Load(next) ==
  /\ backend = "nftables"
  /\ \/ Step("limit", "nftSave") /\ table' = TRUE /\ nftOk' = TRUE
     \/ NftMayFail /\ Step("limit", next) /\ nftOk' = FALSE /\ UNCHANGED table
  /\ UNCHANGED <<conf, backend, iptVars>>

\* Slip: the rules are saved only into a file that has none.
OpenConfOnce(next) ==
  /\ Step("nftSave", next)
  /\ UNCHANGED <<nftVars, backend, iptVars>>

\* _persist_nftables_rules opens the file for writing, if it exists ...
OpenConf(next) ==
  /\ \/ conf = "no_file" /\ Step("nftSave", next) /\ UNCHANGED conf
     \/ conf # "no_file" /\ Step("nftSave", "nftList") /\ conf' = "empty"
  /\ UNCHANGED <<table, nftOk, backend, iptVars>>

\* ... and has nft print into it.
ListRules(next) ==
  /\ Step("nftList", next)
  /\ \/ conf' = "saved" /\ UNCHANGED nftOk
     \/ NftMayFail /\ nftOk' = FALSE /\ UNCHANGED conf
  /\ UNCHANGED <<table, backend, iptVars>>

\* One more rule at the end of INPUT.  Where there is a rule like it, that one
\* comes first.
AppendRule(rule) ==
  \/ /\ input' = IF rule \in {input[i] : i \in DOMAIN input} THEN input ELSE Append(input, rule)
     /\ UNCHANGED iptOk
  \/ NftMayFail /\ iptOk' = FALSE /\ UNCHANGED input

\* _apply_iptables: SYN packets within the limit are accepted ...
AcceptSyn ==
  /\ backend = "iptables"
  /\ Step("limit", "dropSyn")
  /\ AppendRule("accept")
  /\ UNCHANGED <<nftVars, backend>>

\* ... and any others dropped.
DropSyn(next) ==
  /\ Step("dropSyn", next)
  /\ AppendRule("drop")
  /\ UNCHANGED <<nftVars, backend>>

Apply(next) ==
  Skip(next) \/ Load(next) \/ OpenConf(next) \/ ListRules(next) \/ AcceptSyn \/ DropSyn(next)

\* The machine starts again with what nftables.conf holds.
Reboot ==
  /\ table' = (conf = "saved")
  /\ input' = <<>>
  /\ UNCHANGED <<conf, nftOk, backend, iptOk>>
=============================================================================
