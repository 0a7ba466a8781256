------------------------------ MODULE Hardening ------------------------------
(***************************************************************************)
(* `main.py harden`: sshd_config, then the host keys and moduli, then PAM, *)
(* then the packet filter, whatever the earlier parts reported.  A run may *)
(* die at any step and the next one starts over what it left; only a       *)
(* failure of ssh-keygen ends a run early.  The machine may be booted      *)
(* between runs.                                                           *)
(***************************************************************************)
EXTENDS Naturals, Sequences, Functions

CONSTANTS
  Runs,            \* invocations of `main.py harden`, one after the other
  WeakOrder,       \* the weak host keys, in the order they are unlinked
  StrongOrder,     \* the strong ones, in the order they are made
  KeygenMayFail,   \* may ssh-keygen fail?
  ReloadMayFail,   \* may both commands that reload sshd fail?
  NftMayFail,      \* may an nft command fail or time out?
  MaxTime          \* bound: the clock stops here

VARIABLES
  now, at, run, wellFormed, originalKeys,
  setBack,     \* history: the clock has been set back
  hostKeys, halfMade,
  config, backups, serving, accepted, stale, interrupted,
  moduli, moduliBackup,
  pam, pamBackups,
  table, conf, nftOk, backend, input, iptOk,
  left,        \* the runs that have not started
  completed    \* history: the latest run has gone to its end

keyVars == <<hostKeys, halfMade>>
sshdVars == <<config, backups, serving, accepted, stale, interrupted>>
moduliVars == <<moduli, moduliBackup>>
pamVars == <<pam, pamBackups>>
filterVars == <<table, conf, nftOk, backend, input, iptOk>>
settings == <<wellFormed, originalKeys>>
ends == <<left, completed>>
time == <<now, setBack>>
vars == <<time, at, run, settings, keyVars, sshdVars, moduliVars, pamVars, filterVars, ends>>

WeakKeys == Range(WeakOrder)
StrongKeys == Range(StrongOrder)
AllKeys == WeakKeys \cup StrongKeys

ASSUME HardeningAssumption ==
  /\ MaxTime \in Nat
  /\ WeakKeys \cap StrongKeys = {}
  /\ Runs \cap {"none", "original", "torn", "no_file"} = {}
  /\ {KeygenMayFail, ReloadMayFail, NftMayFail} \subseteq BOOLEAN

\* sshd passes over a host key that it cannot load.
SSHD == INSTANCE ConfigHardener WITH hostKeys <- hostKeys \ halfMade
Crypto == INSTANCE CryptoPolicy
PAM == INSTANCE PAMConfigurator
Filter == INSTANCE RateLimiter

\* A machine whose sshd runs with the administrator's settings.
Init ==
  /\ now = 0 /\ setBack = FALSE /\ at = "idle" /\ run = "none" /\ left = Runs /\ completed = FALSE
  /\ wellFormed \in {{"original"} \cup good : good \in SUBSET (Runs \cup {"torn"})}
  /\ originalKeys \in {AllKeys, WeakKeys}
  /\ hostKeys \in SUBSET AllKeys /\ halfMade = {}
  /\ SSHD!Init /\ SSHD!Accepts("original")
  /\ moduli \in {Crypto!NoFile, {"strong"}, {"strong", "weak"}} /\ moduliBackup = Crypto!NoFile
  /\ PAM!Init
  /\ Filter!Init

Begin ==
  /\ at = "idle" /\ left # {}
  /\ run' = CHOOSE r \in left : TRUE
  /\ left' = left \ {run'}
  /\ at' = "backup"
  /\ completed' = FALSE
  /\ UNCHANGED <<time, settings, keyVars, sshdVars, moduliVars, pamVars, filterVars>>

HardenSshd ==
  /\ SSHD!Apply("weakKeys")
  /\ UNCHANGED <<time, run, settings, keyVars, moduliVars, pamVars, filterVars, ends>>

HardenCrypto ==
  /\ Crypto!Harden("pam")
  /\ UNCHANGED <<time, run, settings, sshdVars, pamVars, filterVars, ends>>

ConfigurePAM ==
  /\ PAM!Apply("limit")
  /\ UNCHANGED <<time, run, settings, keyVars, sshdVars, moduliVars, filterVars, ends>>

LimitRate ==
  /\ Filter!Apply("idle")
  /\ completed' = (at' = "idle")
  /\ UNCHANGED <<time, run, settings, keyVars, sshdVars, moduliVars, pamVars, left>>

\* At any step, with the file it is filling half written.
Die ==
  /\ at # "idle" /\ at' = "idle"
  /\ SSHD!Die /\ Crypto!Die /\ PAM!Die
  /\ UNCHANGED <<time, run, settings, filterVars, ends>>

\* What was done with iptables is undone.
Reboot ==
  /\ at = "idle" /\ Filter!Reboot
  /\ completed' = (completed /\ backend # "iptables")
  /\ UNCHANGED <<time, at, run, settings, keyVars, sshdVars, moduliVars, pamVars, left>>

\* Local time advances, and may be set back (the end of summer time does it).
Tick ==
  /\ \/ now < MaxTime /\ now' = now + 1 /\ UNCHANGED setBack
     \/ ~setBack /\ now' \in 0 .. now - 1 /\ setBack' = TRUE
  /\ UNCHANGED <<at, run, settings, keyVars, sshdVars, moduliVars, pamVars, filterVars, ends>>

Next ==
  \/ Begin \/ HardenSshd \/ HardenCrypto \/ ConfigurePAM \/ LimitRate
  \/ Die \/ Reboot \/ Tick

Spec == Init /\ [][Next]_vars

-----------------------------------------------------------------------------
(* Properties.                                                             *)

\* sshd_config stands up to a run that fails.  Unless a run has died on it or the
\* clock was set back, the file holds between runs what sshd -t accepted last (or
\* the administrator's own settings), and sshd could start again with it and the
\* host keys there are; only the administrator's own file may name no key that is
\* left: the weak keys go although it has been put back.  Whatever happens, sshd
\* serves only what is well formed, and what was accepted last unless it has not
\* been reloaded since.
FailureReverts ==
  /\ at = "idle" /\ config # "no_file" /\ ~interrupted /\ ~setBack =>
       /\ config = accepted
       /\ SSHD!Accepts(config) \/ (config = "original" /\ originalKeys \cap hostKeys \subseteq halfMade)
  /\ serving \in wellFormed /\ (stale \/ serving = accepted)

SshdKept == config = "original" \/ \E t \in 0 .. MaxTime : backups[t] = "original"
PamKept == pam \in {"no_file", "original"} \/ \E t \in 0 .. MaxTime : pamBackups[t] = "original"
ModuliKept == "strong" \in moduli \cup moduliBackup

\* What the administrator had is never lost from the disk, however many runs die
\* and where, but for two overwritten backups: one of the same second, and that
\* of moduli when a run finds a line that an earlier one has left cut.
OriginalsStay ==
  /\ SshdKept /\ ~SshdKept' => backups[now] = "original" /\ backups'[now] # "original"
  /\ PamKept /\ ~PamKept' => pamBackups[now] = "original" /\ pamBackups'[now] # "original"
  /\ ModuliKept /\ ~ModuliKept' => "cut" \in moduli /\ moduliBackup' = {}

OriginalsKept == [][OriginalsStay]_vars

\* A run that goes to its end has done all of the rest, whatever earlier ones left
\* behind, though a host key half made by a death passes for made.  The nftables
\* rules outlive a boot if there was a file to save them in, and the iptables rules
\* accept SYN packets before they drop them: only a command that failed, now or in
\* an earlier run, can have them all dropped.
CompleteRunHardens ==
  at = "idle" /\ completed =>
    /\ hostKeys = StrongKeys
    /\ moduli = Crypto!NoFile \/ moduli \subseteq {"strong"}
    /\ pam \in {"no_file", "hardened"}
    /\ backend = "nftables" /\ nftOk /\ conf # "no_file" => table
    /\ backend = "iptables" /\ iptOk => input = <<"accept", "drop">>
=============================================================================
