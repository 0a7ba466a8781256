---------------------------- MODULE CryptoPolicy ----------------------------
(***************************************************************************)
(* modules/hardening/crypto_policy.py, the second part of `main.py         *)
(* harden`: unlink the weak host keys, make the strong ones that are       *)
(* missing, and take the small groups out of moduli.  There is no backup   *)
(* of a key, and one of moduli, under a fixed name.  ssh-keygen is         *)
(* external.                                                               *)
(***************************************************************************)
EXTENDS Naturals, Functions

CONSTANTS
  WeakOrder,       \* the weak host keys, in the order they are unlinked
  StrongOrder,     \* the strong ones, in the order they are made
  KeygenMayFail    \* may ssh-keygen fail?

VARIABLES
  at,             \* where the command under way is
  hostKeys,       \* the host keys on disk
  halfMade,       \* those a death of ssh-keygen has left without a usable content
  moduli,         \* the kinds of line in moduli
  moduliBackup    \* the kinds of line in moduli.fortress_backup

\* "strong" stands for all groups of 3072 bits and more that the machine came
\* with, "weak" for smaller ones, "cut" for a line cut short, whose size reads 0.
Lines == {"strong", "weak", "cut"}
NoFile == {"no_file"}
Safe(content) == content \cap {"strong"}

keyVars == <<hostKeys, halfMade>>

Step(from, to) == at = from /\ at' = to

\* The key of `keys` that the loop over `order` comes to first.
ComesFirst(key, order, keys) ==
  \E i \in DOMAIN order :
    order[i] = key /\ key \in keys /\ \A j \in 1 .. i - 1 : order[j] \notin keys

\* _remove_weak_host_keys, one key at a time.
RemoveWeakHostKeys ==
  /\ at = "weakKeys"
  /\ \/ hostKeys \cap Range(WeakOrder) = {} /\ at' = "hostKeys" /\ UNCHANGED hostKeys
     \/ /\ at' = at
        /\ \E key \in hostKeys :
             ComesFirst(key, WeakOrder, hostKeys) /\ hostKeys' = hostKeys \ {key}
  /\ UNCHANGED <<halfMade, moduli, moduliBackup>>

\* _generate_host_keys: what is there is kept, whatever it holds; check=True, so a
\* failure ends the whole command.
GenerateHostKeys ==
  LET missing == Range(StrongOrder) \ hostKeys IN
  /\ at = "hostKeys"
  /\ \/ missing = {} /\ at' = "moduli" /\ UNCHANGED hostKeys
     \/ /\ at' = at
        /\ \E key \in missing :
             ComesFirst(key, StrongOrder, missing) /\ hostKeys' = hostKeys \cup {key}
     \/ missing # {} /\ KeygenMayFail /\ at' = "idle" /\ UNCHANGED hostKeys
  /\ UNCHANGED <<halfMade, moduli, moduliBackup>>

\* _harden_moduli: nothing to do, or the backup comes first.
ReadModuli(next) ==
  /\ Step("moduli", IF moduli = NoFile \/ moduli = Safe(moduli) THEN next ELSE "backupOpen")
  /\ UNCHANGED <<keyVars, moduli, moduliBackup>>

OpenBackup ==
  /\ Step("backupOpen", "backupFill")
  /\ moduliBackup' = {}
  /\ UNCHANGED <<keyVars, moduli>>

FillBackup ==
  /\ Step("backupFill", "moduliOpen")
  /\ moduliBackup' = moduli
  /\ UNCHANGED <<keyVars, moduli>>

OpenModuli ==
  /\ Step("moduliOpen", "moduliFill")
  /\ moduli' = {}
  /\ UNCHANGED <<keyVars, moduliBackup>>

\* The lines to keep are those read before the backup, which now holds them.
FillModuli(next) ==
  /\ Step("moduliFill", next)
  /\ moduli' = Safe(moduliBackup)
  /\ UNCHANGED <<keyVars, moduliBackup>>

Harden(next) ==
  \/ RemoveWeakHostKeys \/ GenerateHostKeys
  \/ ReadModuli(next) \/ OpenBackup \/ FillBackup \/ OpenModuli \/ FillModuli(next)

\* A file whose filling is broken off is left empty, or with its last line cut.
Partial == {{}, {"cut"}}

Die ==
  /\ IF at = "backupFill" THEN moduliBackup' \in Partial ELSE UNCHANGED moduliBackup
  /\ IF at = "moduliFill" /\ Safe(moduliBackup) # {} THEN moduli' \in Partial ELSE UNCHANGED moduli
  /\ \/ UNCHANGED keyVars
     \/ /\ at = "hostKeys"
        /\ \E key \in Range(StrongOrder) \ hostKeys :
             /\ ComesFirst(key, StrongOrder, Range(StrongOrder) \ hostKeys)
             /\ hostKeys' = hostKeys \cup {key} /\ halfMade' = halfMade \cup {key}
=============================================================================
