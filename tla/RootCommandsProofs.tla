------------------------- MODULE RootCommandsProofs -------------------------
(***************************************************************************)
(* Theorems about the two commands of RootCommands: harden, for every      *)
(* number of runs, sets of host keys and bound on the clock, wherever the  *)
(* runs die; keys audit, for every set of files, order of the users and    *)
(* keys, wherever it dies and the user edits a file.                       *)
(***************************************************************************)
EXTENDS RootCommands, ListFilter, WindowFacts

LEMMA ConstantTypes ==
  /\ MaxTime \in Nat
  /\ WeakKeys \cap StrongKeys = {}
  /\ \A r \in Runs : r \notin {"none", "original", "torn", "no_file"}
  BY HardeningAssumption DEF HardeningAssumption

-----------------------------------------------------------------------------
(* The inductive invariant.                                                *)

CryptoPlaces ==
  {"weakKeys", "hostKeys", "moduli", "backupOpen", "backupFill", "moduliOpen", "moduliFill"}
PamPlaces == {"pam", "pamOpen", "pamFill"}
FilterPlaces == {"limit", "nftSave", "nftList", "dropSyn"}
Places == {"idle"} \cup SSHD!Places \cup CryptoPlaces \cup PamPlaces \cup FilterPlaces

\* What moduli, or its backup, comes to hold.
ModuliContents == {Crypto!NoFile, {}, {"strong"}, {"strong", "weak"}, {"cut"}}

Typed ==
  /\ now \in 0 .. MaxTime /\ setBack \in BOOLEAN
  /\ at \in Places /\ (at # "idle" => run \in Runs /\ ~completed)
  /\ left \subseteq Runs /\ {completed, interrupted, stale} \subseteq BOOLEAN
  /\ "original" \in wellFormed
  /\ hostKeys \subseteq AllKeys /\ halfMade \subseteq AllKeys
  /\ {config, serving, accepted} \subseteq SSHD!Contents
  /\ backups \in [0 .. MaxTime -> SSHD!Contents \cup {SSHD!NoBackup}]
  /\ {moduli, moduliBackup} \subseteq ModuliContents
  /\ pam \in PAM!PamContents
  /\ pamBackups \in [0 .. MaxTime -> PAM!PamContents \cup {PAM!NoBackup}]
  /\ {table, nftOk, iptOk} \subseteq BOOLEAN
  /\ conf \in Filter!ConfContents /\ backend \in {"nftables", "iptables", "none"}

\* What sshd can load of the strong host keys.
Usable == StrongKeys \cap (hostKeys \ halfMade)

\* The run has backed sshd_config up and may still put it back; it has started on
\* the file itself.
Rewriting == {"write", "validate", "restore"}
Backed == {"truncate"} \cup Rewriting

\* sshd could start with what was accepted last: the administrator's own file, or one
\* that a run built, for which a strong host key is there.
Sound ==
  /\ accepted \in wellFormed
  /\ accepted = "original" \/ (accepted \in Runs /\ Usable # {})

\* As long as the clock is not set back, the backup of this run is the latest, for
\* none is of a second to come: so what is put back is what was accepted last.
SshdInv ==
  /\ ~setBack => \A t \in 0 .. MaxTime : backups[t] # SSHD!NoBackup => t <= now
  /\ at \in Backed => \E t \in 0 .. MaxTime : backups[t] # SSHD!NoBackup
  /\ Sound /\ serving \in wellFormed /\ (stale \/ serving = accepted)
  /\ ~interrupted /\ ~setBack =>
       /\ at \notin Rewriting /\ config # "no_file" => config = accepted
       /\ at \in Backed => SSHD!Latest = accepted
  /\ at = "truncate" => config # "no_file" /\ \E t \in 0 .. MaxTime : backups[t] = config
  /\ at = "write" => config = "torn"
  /\ at \in {"validate", "restore", "reload"} => config = run
  /\ at = "reload" => config = accepted

\* What is done of the host keys and of moduli, by the place the run has come to.
KeysInv ==
  /\ at = "hostKeys" => hostKeys \cap WeakKeys = {}
  /\ at \in (CryptoPlaces \ {"weakKeys", "hostKeys"}) \cup PamPlaces \cup FilterPlaces
       => hostKeys = StrongKeys
  /\ completed => hostKeys = StrongKeys

Groups3072 == moduli = Crypto!NoFile \/ moduli \subseteq {"strong"}

ModuliInv ==
  /\ at \in {"backupOpen", "backupFill", "moduliOpen"} => ~Groups3072
  /\ at = "backupFill" => moduliBackup = {}
  /\ at = "moduliOpen" => moduliBackup = moduli
  /\ at = "moduliFill" => moduli = {}
  /\ at \in PamPlaces \cup FilterPlaces => Groups3072
  /\ completed => Groups3072

PamInv ==
  /\ at = "pamOpen" => pam # "no_file" /\ \E t \in 0 .. MaxTime : pamBackups[t] = pam
  /\ at = "pamFill" => pam = "torn"
  /\ at \in FilterPlaces => pam \in {"no_file", "hardened"}
  /\ completed => pam \in {"no_file", "hardened"}

\* If nft never failed, nftables.conf holds the rules, and a boot loads them; if
\* iptables never did, no rule is in front of the one that accepts.
FilterInv ==
  /\ at \in {"nftSave", "nftList"} => backend = "nftables" /\ nftOk /\ table
  /\ at = "nftList" => conf # "no_file"
  /\ at = "dropSyn" => backend = "iptables"
  /\ iptOk => input \in {<<>>, <<"accept">>, <<"accept", "drop">>}
  /\ iptOk /\ at = "dropSyn" => input # <<>>
  /\ completed /\ backend = "nftables" /\ nftOk => conf = "no_file" \/ (conf = "saved" /\ table)
  /\ completed /\ backend = "iptables" /\ iptOk => input = <<"accept", "drop">>

IInv == Typed /\ SshdInv /\ KeysInv /\ ModuliInv /\ PamInv /\ FilterInv

LEMMA InitInv == Init => IInv
<1> SUFFICES ASSUME Init PROVE IInv
  OBVIOUS
<1> USE DEF Init, SSHD!Init, PAM!Init, Filter!Init
<1>1. Typed
  <2>1. now \in 0 .. MaxTime /\ at \in Places /\ at = "idle" /\ halfMade = {}
    BY ConstantTypes DEF Places
  <2>2. backups \in [0 .. MaxTime -> SSHD!Contents \cup {SSHD!NoBackup}]
    OBVIOUS
  <2>3. pamBackups \in [0 .. MaxTime -> PAM!PamContents \cup {PAM!NoBackup}]
    OBVIOUS
  <2>4. {config, serving, accepted} \subseteq SSHD!Contents /\ "original" \in wellFormed
    BY DEF SSHD!Contents, SSHD!Accepts
  <2>5. {moduli, moduliBackup} \subseteq ModuliContents
    BY DEF ModuliContents
  <2>6. pam \in PAM!PamContents /\ conf \in Filter!ConfContents
    BY DEF PAM!PamContents, Filter!ConfContents
  <2> QED
    BY <2>1, <2>2, <2>3, <2>4, <2>5, <2>6 DEF Typed
<1>2. SshdInv
  BY DEF SshdInv, Sound, Backed, Rewriting, SSHD!Accepts
<1>3. KeysInv /\ ModuliInv /\ PamInv
  BY DEF KeysInv, ModuliInv, PamInv, CryptoPlaces, PamPlaces, FilterPlaces
<1>4. FilterInv
  BY DEF FilterInv
<1> QED
  BY <1>1, <1>2, <1>3, <1>4 DEF IInv

-----------------------------------------------------------------------------
(* The keys.                                                               *)

LEMMA KeyFacts ==
  /\ \A key, keys : Crypto!ComesFirst(key, WeakOrder, keys) => key \in WeakKeys
  /\ \A key, keys : Crypto!ComesFirst(key, StrongOrder, keys) => key \in StrongKeys
  /\ WeakKeys = {WeakOrder[i] : i \in DOMAIN WeakOrder}
  /\ Crypto!Range(WeakOrder) = WeakKeys /\ Crypto!Range(StrongOrder) = StrongKeys
  BY DEF Crypto!ComesFirst, WeakKeys, StrongKeys, Range, Crypto!Range

\* What a step of this part does to the host keys.
LEMMA KeysStep ==
  ASSUME Typed, HardenCrypto
  PROVE  /\ hostKeys' \subseteq AllKeys /\ halfMade' = halfMade
         /\ Usable \subseteq Usable'
         /\ hostKeys \cap WeakKeys = {} => hostKeys' \cap WeakKeys = {}
<1>1. CASE Crypto!RemoveWeakHostKeys
  BY <1>1, KeyFacts, ConstantTypes DEF Crypto!RemoveWeakHostKeys, Typed, Usable
<1>2. CASE Crypto!GenerateHostKeys
  BY <1>2, KeyFacts, ConstantTypes DEF Crypto!GenerateHostKeys, Typed, AllKeys, Usable
<1>3. CASE UNCHANGED <<hostKeys, halfMade>>
  BY <1>3 DEF Typed, Usable
<1> QED
  BY <1>1, <1>2, <1>3 DEF HardenCrypto, Crypto!Harden, Crypto!ReadModuli, Crypto!OpenBackup,
     Crypto!FillBackup, Crypto!OpenModuli, Crypto!FillModuli, Crypto!keyVars

\* A death may add a key to those that cannot be loaded, and takes none away.
LEMMA KeysDie ==
  ASSUME Typed, Die
  PROVE  /\ hostKeys' \subseteq AllKeys /\ halfMade' \subseteq AllKeys
         /\ Usable' = Usable
<1>1. CASE UNCHANGED <<hostKeys, halfMade>>
  BY <1>1 DEF Typed, Usable
<1>2. CASE \E key \in Crypto!Range(StrongOrder) \ hostKeys :
             hostKeys' = hostKeys \cup {key} /\ halfMade' = halfMade \cup {key}
  <2>1. PICK key \in StrongKeys \ hostKeys :
          hostKeys' = hostKeys \cup {key} /\ halfMade' = halfMade \cup {key}
    BY <1>2, KeyFacts
  <2> QED
    BY <2>1 DEF Typed, Usable, AllKeys
<1> QED
  BY <1>1, <1>2 DEF Die, Crypto!Die, Crypto!keyVars

-----------------------------------------------------------------------------
(* The backups of sshd_config.                                             *)

LEMMA LatestExists ==
  ASSUME NEW S \in SUBSET Nat, S # {}, NEW bound \in Nat, \A s \in S : s <= bound
  PROVE  \E u \in S : \A v \in S : v <= u
<1> DEFINE down == {bound - s : s \in S}
<1>1. down \in SUBSET Nat /\ down # {}
  <2>1. \A s \in S : bound - s \in Nat
    OBVIOUS
  <2> QED
    BY <2>1
<1>2. PICK least \in down : \A d \in down : least <= d
  BY <1>1, LeastNatural
<1>3. PICK u \in S : least = bound - u
  BY <1>2
<1>4. \A v \in S : bound - u <= bound - v
  BY <1>2, <1>3
<1>5. \A v \in S : v <= u
  BY <1>4
<1> QED
  BY <1>5

\* The latest of some backups is one of them ...
LEMMA LatestType ==
  ASSUME Typed, \E t \in 0 .. MaxTime : backups[t] # SSHD!NoBackup
  PROVE  \E u \in 0 .. MaxTime : SSHD!Latest = backups[u] /\ backups[u] # SSHD!NoBackup
<1> DEFINE made == {u \in 0 .. MaxTime : backups[u] # SSHD!NoBackup}
           last == CHOOSE u \in made : \A v \in made : v <= u
<1>1. \E u \in made : \A v \in made : v <= u
  <2>1. made \in SUBSET Nat /\ made # {} /\ \A v \in made : v <= MaxTime
    BY ConstantTypes
  <2> HIDE DEF made
  <2> QED
    BY <2>1, ConstantTypes, LatestExists
<1>2. last \in made
  BY <1>1
<1>3. SSHD!Latest = backups[last]
  BY DEF SSHD!Latest
<1> HIDE DEF last
<1> QED
  BY <1>2, <1>3

\* ... and when a step leaves none of a second to come, it is that of this one.
LEMMA LatestIsNow ==
  ASSUME NEW n \in 0 .. MaxTime, backups'[n] # SSHD!NoBackup,
         \A t \in 0 .. MaxTime : backups'[t] # SSHD!NoBackup => t <= n
  PROVE  SSHD!Latest' = backups'[n]
<1> DEFINE made == {u \in 0 .. MaxTime : backups'[u] # SSHD!NoBackup}
           last == CHOOSE u \in made : \A v \in made : v <= u
<1>1. n \in made /\ n \in Nat /\ made \subseteq Nat /\ \A v \in made : v <= n
  BY ConstantTypes
<1>2. SSHD!Latest' = backups'[last]
  BY DEF SSHD!Latest
<1> HIDE DEF made
<1>3. last \in made /\ \A v \in made : v <= last
  BY <1>1
<1> HIDE DEF last
<1>4. last = n
  BY <1>1, <1>3
<1> QED
  BY <1>2, <1>4

-----------------------------------------------------------------------------
(* Types.                                                                  *)

LEMMA SshdTyped == Typed /\ SshdInv /\ HardenSshd => Typed'
<1> SUFFICES ASSUME Typed, SshdInv, HardenSshd PROVE Typed'
  OBVIOUS
<1> USE DEF HardenSshd, SSHD!Apply, SSHD!Step
<1>1. /\ at \in SSHD!Places /\ at' \in SSHD!Places \cup {"weakKeys"}
      /\ UNCHANGED <<time, run, settings, keyVars, moduliVars, pamVars, filterVars, ends>>
  BY DEF SSHD!Skip, SSHD!Backup, SSHD!Truncate, SSHD!Write, SSHD!Validate, SSHD!Restore,
     SSHD!Reload, SSHD!Places
<1>2. /\ at # "idle" /\ run \in Runs /\ ~completed
      /\ at' \in Places /\ run' \in Runs /\ ~completed'
  BY <1>1 DEF Typed, Places, CryptoPlaces, SSHD!Places, ends
<1>3. /\ {config', serving', accepted'} \subseteq SSHD!Contents
      /\ {interrupted', stale'} \subseteq BOOLEAN
      /\ backups' \in [0 .. MaxTime -> SSHD!Contents \cup {SSHD!NoBackup}]
  <2> USE DEF Typed, SSHD!histories
  <2>0. CASE SSHD!Skip("weakKeys")
    BY <2>0 DEF SSHD!Skip
  <2>1. CASE SSHD!Backup
    BY <2>1 DEF SSHD!Backup
  <2>2. CASE SSHD!Truncate \/ SSHD!Write
    BY <1>2, <2>2 DEF SSHD!Truncate, SSHD!Write, SSHD!Contents
  <2>3. CASE SSHD!Validate
    BY <2>3 DEF SSHD!Validate
  <2>4. CASE SSHD!Restore("weakKeys")
    <3>1. SSHD!Latest \in SSHD!Contents
      <4>1. PICK u \in 0 .. MaxTime : SSHD!Latest = backups[u] /\ backups[u] # SSHD!NoBackup
        BY <2>4, LatestType DEF SSHD!Restore, SshdInv, Backed, Rewriting
      <4> QED
        BY <4>1
    <3> QED
      BY <2>4, <3>1 DEF SSHD!Restore
  <2>5. CASE SSHD!Reload("weakKeys")
    BY <2>5 DEF SSHD!Reload
  <2> QED
    BY <2>0, <2>1, <2>2, <2>3, <2>4, <2>5
<1> QED
  BY <1>1, <1>2, <1>3 DEF Typed, time, keyVars, settings, moduliVars, pamVars, filterVars, ends

LEMMA CryptoTyped == Typed /\ ModuliInv /\ HardenCrypto => Typed'
<1> SUFFICES ASSUME Typed, ModuliInv, HardenCrypto PROVE Typed'
  OBVIOUS
<1> USE DEF HardenCrypto, Crypto!Harden, Crypto!Step
<1>1. /\ at \in CryptoPlaces /\ at' \in CryptoPlaces \cup {"pam", "idle"}
      /\ UNCHANGED <<time, run, settings, sshdVars, pamVars, filterVars, ends>>
  BY DEF Crypto!RemoveWeakHostKeys, Crypto!GenerateHostKeys, Crypto!ReadModuli, Crypto!OpenBackup,
     Crypto!FillBackup, Crypto!OpenModuli, Crypto!FillModuli, CryptoPlaces
<1>2. /\ at # "idle" /\ run \in Runs /\ ~completed
      /\ at' \in Places /\ run' \in Runs /\ ~completed'
  BY <1>1 DEF Typed, Places, CryptoPlaces, PamPlaces, ends
<1>3. hostKeys' \subseteq AllKeys /\ halfMade' \subseteq AllKeys
  BY KeysStep DEF Typed
<1>4. {moduli', moduliBackup'} \subseteq ModuliContents
  <2> USE DEF Typed
  <2>1. CASE Crypto!RemoveWeakHostKeys \/ Crypto!GenerateHostKeys \/ Crypto!ReadModuli("pam")
    BY <2>1 DEF Crypto!RemoveWeakHostKeys, Crypto!GenerateHostKeys, Crypto!ReadModuli
  <2>2. CASE Crypto!OpenBackup \/ Crypto!FillBackup \/ Crypto!OpenModuli
    BY <2>2 DEF Crypto!OpenBackup, Crypto!FillBackup, Crypto!OpenModuli, ModuliContents
  <2>3. CASE Crypto!FillModuli("pam")
    <3>1. Crypto!Safe(moduliBackup) \in {{}, {"strong"}}
      BY DEF Crypto!Safe
    <3> QED
      BY <2>3, <3>1 DEF Crypto!FillModuli, ModuliContents
  <2> QED
    BY <2>1, <2>2, <2>3
<1> QED
  BY <1>1, <1>2, <1>3, <1>4 DEF Typed, time, settings, sshdVars, pamVars, filterVars, ends

LEMMA PamTyped == Typed /\ ConfigurePAM => Typed'
<1> SUFFICES ASSUME Typed, ConfigurePAM PROVE Typed'
  OBVIOUS
<1> USE DEF ConfigurePAM, PAM!Apply, PAM!Step
<1>1. /\ at \in PamPlaces /\ at' \in PamPlaces \cup {"limit"}
      /\ UNCHANGED <<time, run, settings, keyVars, sshdVars, moduliVars, filterVars, ends>>
  BY DEF PAM!Skip, PAM!Backup, PAM!Open, PAM!Fill, PamPlaces
<1>2. /\ at # "idle" /\ run \in Runs /\ ~completed
      /\ at' \in Places /\ run' \in Runs /\ ~completed'
  BY <1>1 DEF Typed, Places, PamPlaces, FilterPlaces, ends
<1>3. /\ pam' \in PAM!PamContents
      /\ pamBackups' \in [0 .. MaxTime -> PAM!PamContents \cup {PAM!NoBackup}]
  BY DEF Typed, PAM!Skip, PAM!Backup, PAM!Open, PAM!Fill, PAM!PamContents
<1> QED
  BY <1>1, <1>2, <1>3 DEF Typed, time, keyVars, settings, sshdVars, moduliVars, filterVars, ends

LEMMA FilterTyped == Typed /\ LimitRate => Typed'
<1> SUFFICES ASSUME Typed, LimitRate PROVE Typed'
  OBVIOUS
<1> USE DEF LimitRate, Filter!Apply, Filter!Step
<1>1. /\ at \in FilterPlaces /\ at' \in FilterPlaces \cup {"idle"}
      /\ UNCHANGED <<time, run, settings, keyVars, sshdVars, moduliVars, pamVars, left>>
  BY DEF Filter!Skip, Filter!Load, Filter!OpenConf, Filter!ListRules, Filter!AcceptSyn,
     Filter!DropSyn, FilterPlaces
<1>2. /\ at # "idle" /\ run \in Runs /\ at' \in Places /\ run' \in Runs
      /\ completed' = (at' = "idle")
  BY <1>1 DEF Typed, Places, FilterPlaces
<1>3. /\ {table', nftOk', iptOk'} \subseteq BOOLEAN
      /\ conf' \in Filter!ConfContents /\ backend' = backend
  BY DEF Typed, Filter!Skip, Filter!Load, Filter!OpenConf, Filter!ListRules, Filter!AcceptSyn,
     Filter!DropSyn, Filter!AppendRule, Filter!nftVars, Filter!iptVars, Filter!ConfContents
<1> QED
  BY <1>1, <1>2, <1>3 DEF Typed, time, keyVars, settings, sshdVars, moduliVars, pamVars

LEMMA DieTyped == Typed /\ Die => Typed'
<1> SUFFICES ASSUME Typed, Die PROVE Typed'
  OBVIOUS
<1>1. /\ at' = "idle" /\ "idle" \in Places
      /\ UNCHANGED <<time, run, settings, filterVars, ends>>
      /\ hostKeys' \subseteq AllKeys /\ halfMade' \subseteq AllKeys
  BY KeysDie DEF Die, Places
<1>2. /\ {config', serving', accepted'} \subseteq SSHD!Contents
      /\ {interrupted', stale'} \subseteq BOOLEAN
      /\ backups' \in [0 .. MaxTime -> SSHD!Contents \cup {SSHD!NoBackup}]
  BY DEF Typed, Die, SSHD!Die, SSHD!Contents
<1>3. {moduli', moduliBackup'} \subseteq ModuliContents
  BY DEF Typed, Die, Crypto!Die, Crypto!Partial, ModuliContents
<1>4. /\ pam' \in PAM!PamContents
      /\ pamBackups' \in [0 .. MaxTime -> PAM!PamContents \cup {PAM!NoBackup}]
  BY DEF Typed, Die, PAM!Die, PAM!PamContents
<1> QED
  BY <1>1, <1>2, <1>3, <1>4 DEF Typed, time, settings, filterVars, ends

LEMMA NextTyped == Typed /\ SshdInv /\ ModuliInv /\ [Next]_vars => Typed'
<1> SUFFICES ASSUME Typed, SshdInv, ModuliInv, [Next]_vars PROVE Typed'
  OBVIOUS
<1> USE DEF time, keyVars, settings, sshdVars, moduliVars, pamVars, filterVars, ends
<1>1. CASE Begin
  <2>1. /\ run' \in left /\ left' \subseteq left /\ at' = "backup"
        /\ ~completed' /\ completed' \in BOOLEAN
    BY <1>1 DEF Begin
  <2>2. "backup" \in Places
    BY DEF Places, SSHD!Places
  <2> QED
    BY <1>1, <2>1, <2>2 DEF Begin, Typed
<1>2. CASE Reboot
  BY <1>2 DEF Reboot, Filter!Reboot, Typed
<1>3. CASE Tick
  <2>1. /\ (now < MaxTime /\ now' = now + 1) \/ now' \in 0 .. now - 1
        /\ setBack' \in {setBack, TRUE}
    BY <1>3 DEF Tick
  <2>2. now' \in 0 .. MaxTime
    BY <2>1, ConstantTypes DEF Typed
  <2> QED
    BY <1>3, <2>1, <2>2 DEF Tick, Typed
<1>4. CASE UNCHANGED vars
  BY <1>4 DEF vars, Typed
<1> QED
  BY <1>1, <1>2, <1>3, <1>4, SshdTyped, CryptoTyped, PamTyped, FilterTyped, DieTyped DEF Next

-----------------------------------------------------------------------------
(* sshd_config.                                                            *)

LEMMA KeysNamedFacts ==
  /\ \A r \in Runs : SSHD!KeysNamed(r) = StrongKeys /\ (SSHD!KeysNamed(r))' = StrongKeys
  /\ SSHD!KeysNamed("original") = originalKeys
  BY ConstantTypes DEF SSHD!KeysNamed

\* The other parts leave it alone, and no strong key that can be loaded goes.
LEMMA SshdElsewhere ==
  ASSUME Typed, SshdInv, UNCHANGED <<sshdVars, wellFormed>>,
         ~setBack' => ~setBack /\ now' \in {now, now + 1}, Usable \subseteq Usable',
         \/ at' = at /\ run' = run
         \/ at \notin Backed \cup {"reload"} /\ at' \notin Backed \cup {"reload"}
  PROVE  SshdInv'
<1> USE DEF sshdVars
<1>1. ~setBack' => \A t \in 0 .. MaxTime : backups'[t] # SSHD!NoBackup => t <= now'
  BY ConstantTypes DEF SshdInv, Typed
<1>2. (Sound /\ serving \in wellFormed /\ (stale \/ serving = accepted))'
  BY DEF SshdInv, Sound
<1>3. SSHD!Latest' = SSHD!Latest
  BY DEF SSHD!Latest
<1>4. CASE at' = at /\ run' = run
  BY <1>1, <1>2, <1>3, <1>4 DEF SshdInv
<1>5. CASE at \notin Backed \cup {"reload"} /\ at' \notin Backed \cup {"reload"}
  BY <1>1, <1>2, <1>5 DEF SshdInv, Backed, Rewriting
<1> QED
  BY <1>4, <1>5

LEMMA SshdStep == Typed /\ SshdInv /\ HardenSshd => SshdInv'
<1> SUFFICES ASSUME Typed, SshdInv, HardenSshd PROVE SshdInv'
  OBVIOUS
<1> USE DEF SSHD!Step, SSHD!histories, Rewriting
<1>1. /\ UNCHANGED <<now, setBack, run, wellFormed, hostKeys, halfMade>>
      /\ now \in 0 .. MaxTime /\ now \in Nat
  BY ConstantTypes DEF HardenSshd, time, keyVars, settings, Typed
<1>2. CASE SSHD!Backup
  <2>1. /\ at = "backup" /\ at' = "truncate"
        /\ UNCHANGED <<config, serving, accepted, stale, interrupted>>
        /\ config # "no_file" /\ backups' = [backups EXCEPT ![now] = config]
    BY <1>2 DEF SSHD!Backup
  <2>2. config # SSHD!NoBackup
    BY ConstantTypes DEF Typed, SSHD!Contents, SSHD!NoBackup
  <2>3. /\ backups'[now] = config
        /\ ~setBack => \A t \in 0 .. MaxTime : backups'[t] # SSHD!NoBackup => t <= now
    BY <1>1, <2>1 DEF Typed, SshdInv
  <2>4. ~setBack => SSHD!Latest' = config
    BY <1>1, <2>2, <2>3, LatestIsNow
  <2>5. ~interrupted /\ ~setBack => config = accepted
    BY <2>1 DEF SshdInv
  <2>6. (Sound /\ serving \in wellFormed /\ (stale \/ serving = accepted))'
    BY <1>1, <2>1 DEF SshdInv, Sound, Usable
  <2> QED
    BY <1>1, <2>1, <2>2, <2>3, <2>4, <2>5, <2>6 DEF SshdInv, Backed
<1>3. ASSUME UNCHANGED backups
      PROVE  /\ ~setBack' => \A t \in 0 .. MaxTime : backups'[t] # SSHD!NoBackup => t <= now'
             /\ SSHD!Latest' = SSHD!Latest
  BY <1>1, <1>3 DEF SshdInv, SSHD!Latest
<1>4. ASSUME UNCHANGED <<serving, accepted, stale>>
      PROVE  (Sound /\ serving \in wellFormed /\ (stale \/ serving = accepted))'
  BY <1>1, <1>4 DEF SshdInv, Sound, Usable
<1>5. CASE SSHD!Skip("weakKeys")
  BY <1>1, <1>3, <1>4, <1>5 DEF SSHD!Skip, SshdInv, Backed
<1>6. CASE SSHD!Truncate
  BY <1>1, <1>3, <1>4, <1>6 DEF SSHD!Truncate, SshdInv, Backed
<1>7. CASE SSHD!Write
  BY <1>1, <1>3, <1>4, <1>7 DEF SSHD!Write, SshdInv, Backed
<1>8. CASE SSHD!Validate
  <2>1. at = "validate" /\ UNCHANGED <<config, backups, serving>> /\ config = run
    BY <1>8 DEF SSHD!Validate, SshdInv
  <2>2. CASE SSHD!Accepts(config)
    <3>1. at' = "reload" /\ accepted' = config /\ stale' /\ ~interrupted'
      BY <1>8, <2>2 DEF SSHD!Validate
    <3>2. config \in Runs /\ config \in wellFormed /\ Usable # {}
      BY <2>1, <2>2, KeysNamedFacts DEF SSHD!Accepts, Typed, Usable
    <3>3. (Sound /\ serving \in wellFormed)'
      BY <1>1, <2>1, <3>1, <3>2 DEF SshdInv, Sound, Usable
    <3> QED
      BY <1>1, <1>3, <2>1, <3>1, <3>3 DEF SshdInv, Backed
  <2>3. CASE ~SSHD!Accepts(config)
    BY <1>1, <1>3, <1>4, <1>8, <2>1, <2>3 DEF SSHD!Validate, SshdInv, Backed
  <2> QED
    BY <2>2, <2>3
<1>9. CASE SSHD!Restore("weakKeys")
  BY <1>1, <1>3, <1>4, <1>9 DEF SSHD!Restore, SshdInv, Backed, Rewriting
<1>10. CASE SSHD!Reload("weakKeys")
  <2>1. /\ at = "reload" /\ at' = "weakKeys" /\ config = accepted
        /\ UNCHANGED <<config, backups, accepted, interrupted>>
        /\ \/ serving' = config
           \/ UNCHANGED <<serving, stale>>
    BY <1>10 DEF SSHD!Reload, SshdInv
  <2>2. (Sound /\ serving \in wellFormed /\ (stale \/ serving = accepted))'
    BY <1>1, <2>1 DEF SshdInv, Sound, Usable
  <2> QED
    BY <1>1, <1>3, <2>1, <2>2 DEF SshdInv, Backed
<1> QED
  BY <1>2, <1>5, <1>6, <1>7, <1>8, <1>9, <1>10 DEF HardenSshd, SSHD!Apply

LEMMA SshdDie == Typed /\ SshdInv /\ Die => SshdInv'
<1> SUFFICES ASSUME Typed, SshdInv, Die PROVE SshdInv'
  OBVIOUS
<1>1. /\ at # "idle" /\ at' = "idle"
      /\ UNCHANGED <<now, setBack, wellFormed, serving, accepted, stale>>
      /\ Usable' = Usable /\ now \in 0 .. MaxTime /\ now \in Nat
  BY ConstantTypes, KeysDie DEF Die, SSHD!Die, time, settings, Typed
<1>2. ~setBack' => \A t \in 0 .. MaxTime : backups'[t] # SSHD!NoBackup => t <= now'
  <2>1. backups' \in {backups, [backups EXCEPT ![now] = "torn"]}
    BY DEF Die, SSHD!Die
  <2>2. \A t \in 0 .. MaxTime : t = now \/ backups'[t] = backups[t]
    BY <2>1 DEF Typed
  <2> QED
    BY <1>1, <2>2 DEF SshdInv
<1>3. (Sound /\ serving \in wellFormed /\ (stale \/ serving = accepted))'
  BY <1>1 DEF SshdInv, Sound
<1>4. ~interrupted' /\ ~setBack' /\ config' # "no_file" => config' = accepted'
  BY <1>1 DEF Die, SSHD!Die, SshdInv, Rewriting
<1> QED
  BY <1>1, <1>2, <1>3, <1>4 DEF SshdInv, Backed, Rewriting

LEMMA SshdNext == Typed /\ SshdInv /\ [Next]_vars => SshdInv'
<1> SUFFICES ASSUME Typed, SshdInv, [Next]_vars PROVE SshdInv'
  OBVIOUS
<1> USE DEF time, keyVars, settings, sshdVars, moduliVars, pamVars, filterVars, ends, Backed,
        Rewriting
<1>1. CASE Begin
  BY <1>1, SshdElsewhere DEF Begin, Usable
<1>2. CASE HardenCrypto
  <2>1. /\ at \notin Backed \cup {"reload"} /\ at' \notin Backed \cup {"reload"}
        /\ UNCHANGED <<now, setBack, sshdVars, settings>>
    BY <1>2 DEF HardenCrypto, Crypto!Harden, Crypto!Step, Crypto!RemoveWeakHostKeys,
       Crypto!GenerateHostKeys, Crypto!ReadModuli, Crypto!OpenBackup, Crypto!FillBackup,
       Crypto!OpenModuli, Crypto!FillModuli
  <2> QED
    BY <1>2, <2>1, KeysStep, SshdElsewhere
<1>3. CASE ConfigurePAM
  <2>1. /\ at \notin Backed \cup {"reload"} /\ at' \notin Backed \cup {"reload"}
        /\ UNCHANGED <<now, setBack, sshdVars, settings, Usable>>
    BY <1>3 DEF Usable, ConfigurePAM, PAM!Apply, PAM!Step, PAM!Skip, PAM!Backup, PAM!Open, PAM!Fill
  <2> QED
    BY <2>1, SshdElsewhere
<1>4. CASE LimitRate
  <2>1. /\ at \notin Backed \cup {"reload"} /\ at' \notin Backed \cup {"reload"}
        /\ UNCHANGED <<now, setBack, sshdVars, settings, Usable>>
    BY <1>4 DEF Usable, LimitRate, Filter!Apply, Filter!Step, Filter!Skip, Filter!Load,
       Filter!OpenConf, Filter!ListRules, Filter!AcceptSyn, Filter!DropSyn
  <2> QED
    BY <2>1, SshdElsewhere
<1>5. CASE Reboot
  BY <1>5, SshdElsewhere DEF Reboot, Usable
<1>6. CASE Tick
  BY <1>6, SshdElsewhere DEF Tick, Usable
<1>7. CASE UNCHANGED vars
  BY <1>7, SshdElsewhere DEF vars, Usable
<1> QED
  BY <1>1, <1>2, <1>3, <1>4, <1>5, <1>6, <1>7, SshdStep, SshdDie DEF Next

-----------------------------------------------------------------------------
(* What the run has done by the place it has come to.                      *)

\* Which places each part goes through, and what it leaves alone.
LEMMA Route ==
  ASSUME Typed, [Next]_vars
  PROVE  \/ HardenSshd /\ at \in SSHD!Places /\ at' \in SSHD!Places \cup {"weakKeys"}
            /\ ~completed /\ UNCHANGED <<completed, keyVars, moduliVars, pamVars, filterVars>>
         \/ HardenCrypto /\ at \in CryptoPlaces /\ at' \in CryptoPlaces \cup {"pam", "idle"}
            /\ ~completed /\ UNCHANGED <<completed, sshdVars, pamVars, filterVars>>
         \/ ConfigurePAM /\ at \in PamPlaces /\ at' \in PamPlaces \cup {"limit"}
            /\ ~completed /\ UNCHANGED <<completed, keyVars, sshdVars, moduliVars, filterVars>>
         \/ LimitRate /\ at \in FilterPlaces /\ at' \in FilterPlaces \cup {"idle"}
            /\ completed' = (at' = "idle") /\ UNCHANGED <<keyVars, sshdVars, moduliVars, pamVars>>
         \/ Begin /\ at = "idle" /\ at' = "backup"
            /\ ~completed' /\ UNCHANGED <<keyVars, sshdVars, moduliVars, pamVars, filterVars>>
         \/ Die /\ at' = "idle" /\ ~completed' /\ UNCHANGED filterVars
         \/ Reboot /\ at = "idle" /\ at' = "idle"
            /\ completed' = (completed /\ backend # "iptables")
            /\ UNCHANGED <<keyVars, sshdVars, moduliVars, pamVars>>
         \/ UNCHANGED <<at, completed, keyVars, sshdVars, moduliVars, pamVars, filterVars>>
<1> USE DEF ends
<1>0. at # "idle" => ~completed
  BY DEF Typed
<1>1. CASE HardenSshd
  <2>1. at \in SSHD!Places /\ at' \in SSHD!Places \cup {"weakKeys"}
    BY <1>1 DEF HardenSshd, SSHD!Apply, SSHD!Step, SSHD!Skip, SSHD!Backup, SSHD!Truncate,
       SSHD!Write, SSHD!Validate, SSHD!Restore, SSHD!Reload, SSHD!Places
  <2> QED
    BY <1>0, <1>1, <2>1 DEF HardenSshd, SSHD!Places
<1>2. CASE HardenCrypto
  <2>1. at \in CryptoPlaces /\ at' \in CryptoPlaces \cup {"pam", "idle"}
    BY <1>2 DEF HardenCrypto, Crypto!Harden, Crypto!Step, Crypto!RemoveWeakHostKeys,
       Crypto!GenerateHostKeys, Crypto!ReadModuli, Crypto!OpenBackup, Crypto!FillBackup,
       Crypto!OpenModuli, Crypto!FillModuli, CryptoPlaces
  <2> QED
    BY <1>0, <1>2, <2>1 DEF HardenCrypto, CryptoPlaces
<1>3. CASE ConfigurePAM
  <2>1. at \in PamPlaces /\ at' \in PamPlaces \cup {"limit"}
    BY <1>3 DEF ConfigurePAM, PAM!Apply, PAM!Step, PAM!Skip, PAM!Backup, PAM!Open, PAM!Fill,
       PamPlaces
  <2> QED
    BY <1>0, <1>3, <2>1 DEF ConfigurePAM, PamPlaces
<1>4. CASE LimitRate
  <2>1. at \in FilterPlaces /\ at' \in FilterPlaces \cup {"idle"}
    BY <1>4 DEF LimitRate, Filter!Apply, Filter!Step, Filter!Skip, Filter!Load,
       Filter!OpenConf, Filter!ListRules, Filter!AcceptSyn, Filter!DropSyn, FilterPlaces
  <2> QED
    BY <1>4, <2>1 DEF LimitRate
<1>5. CASE Begin
  BY <1>5 DEF Begin
<1>6. CASE Die
  BY <1>0, <1>6 DEF Die
<1>7. CASE Reboot
  BY <1>7 DEF Reboot
<1>8. CASE Tick \/ UNCHANGED vars
  BY <1>8 DEF Tick, vars
<1> QED
  BY <1>1, <1>2, <1>3, <1>4, <1>5, <1>6, <1>7, <1>8 DEF Next

LEMMA KeysNext == Typed /\ KeysInv /\ [Next]_vars => KeysInv'
<1> SUFFICES ASSUME Typed, KeysInv, [Next]_vars PROVE KeysInv'
  OBVIOUS
<1> USE DEF SSHD!Places, CryptoPlaces, PamPlaces, FilterPlaces
<1>1. CASE HardenCrypto /\ ~completed' /\ at \in CryptoPlaces
  <2>1. CASE Crypto!RemoveWeakHostKeys
    BY <1>1, <2>1, KeyFacts DEF Crypto!RemoveWeakHostKeys, KeysInv
  <2>2. CASE Crypto!GenerateHostKeys
    <3>1. at = "hostKeys" /\ at' \in {"hostKeys", "moduli", "idle"} /\ hostKeys \cap WeakKeys = {}
      BY <2>2 DEF Crypto!GenerateHostKeys, KeysInv
    <3>2. hostKeys' \cap WeakKeys = {}
      BY <1>1, <3>1, KeysStep
    <3>3. at' = "moduli" => hostKeys' = StrongKeys
      BY <2>2, <3>1, KeyFacts DEF Crypto!GenerateHostKeys, Typed, AllKeys
    <3> QED
      BY <1>1, <3>1, <3>2, <3>3 DEF KeysInv
  <2>3. CASE \/ Crypto!ReadModuli("pam") \/ Crypto!OpenBackup \/ Crypto!FillBackup
             \/ Crypto!OpenModuli \/ Crypto!FillModuli("pam")
    BY <1>1, <2>3 DEF Crypto!ReadModuli, Crypto!OpenBackup, Crypto!FillBackup, Crypto!OpenModuli,
       Crypto!FillModuli, Crypto!Step, Crypto!keyVars, KeysInv
  <2> QED
    BY <1>1, <2>1, <2>2, <2>3 DEF HardenCrypto, Crypto!Harden
<1>2. CASE at' = "idle" /\ ~completed'
  BY <1>2 DEF KeysInv
<1>3. CASE /\ UNCHANGED keyVars
           /\ \/ at \in SSHD!Places /\ at' \in SSHD!Places \cup {"weakKeys"} /\ ~completed'
              \/ at \in PamPlaces /\ at' \in PamPlaces \cup {"limit"} /\ ~completed'
              \/ at \in FilterPlaces /\ at' \in FilterPlaces \cup {"idle"}
              \/ at' \in {"idle", "backup"} /\ (completed' => completed)
              \/ UNCHANGED <<at, completed>>
  BY <1>3 DEF KeysInv, keyVars
<1> QED
  BY <1>1, <1>2, <1>3, Route

LEMMA ModuliNext == Typed /\ ModuliInv /\ [Next]_vars => ModuliInv'
<1> SUFFICES ASSUME Typed, ModuliInv, [Next]_vars PROVE ModuliInv'
  OBVIOUS
<1> USE DEF SSHD!Places, CryptoPlaces, PamPlaces, FilterPlaces, moduliVars
<1>1. CASE HardenCrypto /\ ~completed' /\ at \in CryptoPlaces
  <2> USE DEF Crypto!Step
  <2>1. \A content : Crypto!Safe(content) \subseteq {"strong"}
    BY DEF Crypto!Safe
  <2>2. CASE Crypto!RemoveWeakHostKeys \/ Crypto!GenerateHostKeys
    BY <1>1, <2>2 DEF Crypto!RemoveWeakHostKeys, Crypto!GenerateHostKeys, ModuliInv
  <2>3. CASE Crypto!ReadModuli("pam")
    <3>1. Groups3072' = Groups3072
      BY <2>3 DEF Crypto!ReadModuli, Groups3072
    <3>2. Groups3072 <=> moduli = Crypto!NoFile \/ moduli = Crypto!Safe(moduli)
      BY <2>1 DEF Groups3072, Crypto!Safe
    <3> QED
      BY <1>1, <2>3, <3>1, <3>2 DEF Crypto!ReadModuli, ModuliInv
  <2>4. CASE Crypto!OpenBackup \/ Crypto!FillBackup
    <3>1. Groups3072' = Groups3072
      BY <2>4 DEF Crypto!OpenBackup, Crypto!FillBackup, Groups3072
    <3> QED
      BY <1>1, <2>4, <3>1 DEF Crypto!OpenBackup, Crypto!FillBackup, ModuliInv
  <2>5. CASE Crypto!OpenModuli
    BY <1>1, <2>5 DEF Crypto!OpenModuli, ModuliInv
  <2>6. CASE Crypto!FillModuli("pam")
    BY <1>1, <2>1, <2>6 DEF Crypto!FillModuli, ModuliInv, Groups3072
  <2> QED
    BY <1>1, <2>2, <2>3, <2>4, <2>5, <2>6 DEF HardenCrypto, Crypto!Harden
<1>2. CASE at' = "idle" /\ ~completed'
  BY <1>2 DEF ModuliInv
<1>3. CASE /\ UNCHANGED moduliVars
           /\ \/ at \in SSHD!Places /\ at' \in SSHD!Places \cup {"weakKeys"} /\ ~completed'
              \/ at \in PamPlaces /\ at' \in PamPlaces \cup {"limit"} /\ ~completed'
              \/ at \in FilterPlaces /\ at' \in FilterPlaces \cup {"idle"}
              \/ at' \in {"idle", "backup"} /\ (completed' => completed)
              \/ UNCHANGED <<at, completed>>
  <2>1. Groups3072' = Groups3072
    BY <1>3 DEF Groups3072
  <2> QED
    BY <1>3, <2>1 DEF ModuliInv
<1> QED
  BY <1>1, <1>2, <1>3, Route

LEMMA PamNext == Typed /\ PamInv /\ [Next]_vars => PamInv'
<1> SUFFICES ASSUME Typed, PamInv, [Next]_vars PROVE PamInv'
  OBVIOUS
<1> USE DEF SSHD!Places, CryptoPlaces, PamPlaces, FilterPlaces, pamVars
<1>1. CASE ConfigurePAM /\ ~completed'
  <2> USE DEF PAM!Step
  <2>1. CASE PAM!Skip("limit")
    BY <1>1, <2>1 DEF PAM!Skip, PamInv
  <2>2. CASE PAM!Backup
    <3>1. now \in 0 .. MaxTime /\ pamBackups'[now] = pam
      BY <2>2 DEF PAM!Backup, Typed
    <3> QED
      BY <1>1, <2>2, <3>1 DEF PAM!Backup, PamInv
  <2>3. CASE PAM!Open \/ PAM!Fill("limit")
    BY <1>1, <2>3 DEF PAM!Open, PAM!Fill, PamInv
  <2> QED
    BY <1>1, <2>1, <2>2, <2>3 DEF ConfigurePAM, PAM!Apply
<1>2. CASE at' = "idle" /\ ~completed'
  BY <1>2 DEF PamInv
<1>3. CASE /\ UNCHANGED pamVars
           /\ \/ at \in SSHD!Places /\ at' \in SSHD!Places \cup {"weakKeys"} /\ ~completed'
              \/ at \in CryptoPlaces /\ at' \in CryptoPlaces \cup {"pam", "idle"} /\ ~completed'
              \/ at \in FilterPlaces /\ at' \in FilterPlaces \cup {"idle"}
              \/ at' \in {"idle", "backup"} /\ (completed' => completed)
              \/ UNCHANGED <<at, completed>>
  BY <1>3 DEF PamInv
<1> QED
  BY <1>1, <1>2, <1>3, Route

\* A list of one and one more.
LEMMA AppendToOne ==
  ASSUME NEW S, NEW a \in S, NEW b \in S
  PROVE  Append(<<a>>, b) = <<a, b>>
<1> DEFINE longer == Append(<<a>>, b)
<1>1. <<a>> \in Seq(S) /\ <<a, b>> \in Seq(S) /\ Len(<<a>>) = 1 /\ Len(<<a, b>>) = 2
  OBVIOUS
<1>2. <<a>>[1] = a /\ <<a, b>>[1] = a /\ <<a, b>>[2] = b
  OBVIOUS
<1>3. longer \in Seq(S) /\ Len(longer) = 2 /\ longer[1] = a /\ longer[2] = b
  BY <1>1, <1>2, AppendProperties
<1> HIDE DEF longer
<1>4. \A i \in 1 .. Len(longer) : longer[i] = <<a, b>>[i]
  BY <1>2, <1>3
<1>5. longer = <<a, b>>
  BY <1>1, <1>3, <1>4, SeqEqual
<1> QED
  BY <1>5 DEF longer

\* What one more rule makes of INPUT, as long as no iptables has failed.
LEMMA AppendFacts ==
  ASSUME NEW rule \in {"accept", "drop"}, Filter!AppendRule(rule), iptOk',
         iptOk => input \in {<<>>, <<"accept">>, <<"accept", "drop">>}
  PROVE  /\ iptOk
         /\ rule = "accept" => input' \in {<<"accept">>, <<"accept", "drop">>}
         /\ rule = "drop" /\ input # <<>> => input' = <<"accept", "drop">>
<1> DEFINE there == {input[i] : i \in DOMAIN input}
<1>1. /\ iptOk /\ input \in {<<>>, <<"accept">>, <<"accept", "drop">>}
      /\ input' = IF rule \in there THEN input ELSE Append(input, rule)
  BY DEF Filter!AppendRule
<1>2. CASE input = <<>>
  <2>1. there = {}
    BY <1>2
  <2>2. Append(<<>>, "accept") = <<"accept">>
    OBVIOUS
  <2> HIDE DEF there
  <2> QED
    BY <1>1, <1>2, <2>1, <2>2
<1>3. CASE input = <<"accept">>
  <2>1. DOMAIN <<"accept">> = {1} /\ <<"accept">>[1] = "accept"
    OBVIOUS
  <2>2. there = {"accept"}
    BY <1>3, <2>1
  <2>3. Append(<<"accept">>, "drop") = <<"accept", "drop">>
    BY AppendToOne
  <2> HIDE DEF there
  <2> QED
    BY <1>1, <1>3, <2>2, <2>3
<1>4. CASE input = <<"accept", "drop">>
  <2>1. /\ DOMAIN <<"accept", "drop">> = {1, 2}
        /\ <<"accept", "drop">>[1] = "accept" /\ <<"accept", "drop">>[2] = "drop"
    OBVIOUS
  <2>2. there = {"accept", "drop"}
    BY <1>4, <2>1
  <2> HIDE DEF there
  <2> QED
    BY <1>1, <1>4, <2>2
<1> QED
  BY <1>1, <1>2, <1>3, <1>4

LEMMA FilterNext == Typed /\ FilterInv /\ [Next]_vars => FilterInv'
<1> SUFFICES ASSUME Typed, FilterInv, [Next]_vars PROVE FilterInv'
  OBVIOUS
<1> USE DEF SSHD!Places, CryptoPlaces, PamPlaces, FilterPlaces, filterVars
<1>1. CASE LimitRate /\ completed' = (at' = "idle")
  <2> USE DEF Filter!Step, Filter!nftVars, Filter!iptVars
  <2>0. CASE Filter!Skip("idle")
    BY <1>1, <2>0 DEF Filter!Skip, FilterInv
  <2>1. CASE Filter!Load("idle")
    BY <1>1, <2>1 DEF Filter!Load, FilterInv
  <2>2. CASE Filter!OpenConf("idle")
    BY <1>1, <2>2 DEF Filter!OpenConf, FilterInv
  <2>3. CASE Filter!ListRules("idle")
    BY <1>1, <2>3 DEF Filter!ListRules, FilterInv
  <2>4. CASE Filter!AcceptSyn
    <3>1. /\ at = "limit" /\ at' = "dropSyn" /\ backend = "iptables" /\ backend' = backend
          /\ UNCHANGED <<table, conf, nftOk>> /\ Filter!AppendRule("accept")
      BY <2>4 DEF Filter!AcceptSyn
    <3>2. iptOk' => input' \in {<<"accept">>, <<"accept", "drop">>}
      BY <3>1, AppendFacts DEF FilterInv
    <3>3. <<>> \notin {<<"accept">>, <<"accept", "drop">>}
      OBVIOUS
    <3> QED
      BY <1>1, <3>1, <3>2, <3>3 DEF FilterInv
  <2>5. CASE Filter!DropSyn("idle")
    <3>1. /\ at = "dropSyn" /\ at' = "idle" /\ backend = "iptables" /\ backend' = backend
          /\ UNCHANGED <<table, conf, nftOk>> /\ Filter!AppendRule("drop")
      BY <2>5 DEF Filter!DropSyn, FilterInv
    <3>2. iptOk' => iptOk /\ input' = <<"accept", "drop">>
      BY <3>1, AppendFacts DEF FilterInv
    <3> QED
      BY <1>1, <3>1, <3>2 DEF FilterInv
  <2> QED
    BY <1>1, <2>0, <2>1, <2>2, <2>3, <2>4, <2>5 DEF LimitRate, Filter!Apply
<1>2. CASE Reboot /\ at' = "idle" /\ completed' = (completed /\ backend # "iptables")
  BY <1>2 DEF Reboot, Filter!Reboot, FilterInv
<1>3. CASE /\ UNCHANGED filterVars
           /\ \/ at' \notin FilterPlaces /\ (completed' => completed)
              \/ at' = "limit" /\ ~completed'
              \/ UNCHANGED <<at, completed>>
  BY <1>3 DEF FilterInv
<1> QED
  BY <1>1, <1>2, <1>3, Route

LEMMA Invariance == Spec => []IInv
<1>1. IInv /\ [Next]_vars => IInv'
  BY NextTyped, SshdNext, KeysNext, ModuliNext, PamNext, FilterNext DEF IInv
<1> QED
  BY <1>1, InitInv, PTL DEF Spec

-----------------------------------------------------------------------------

\* Every variable stays in its type, wherever the runs die.
THEOREM HardeningTypeCorrect == Spec => []Typed
  BY Invariance, PTL DEF IInv

\* A configuration that sshd -t refuses is taken back for the one it accepted before,
\* by way of the backup that this run made, as long as the clock is not set back; and
\* sshd is reloaded, if it is, only with one it accepts.
THEOREM FailedRunsRevert == Spec => []FailureReverts
<1>1. ASSUME IInv
      PROVE  \/ SSHD!Accepts(accepted)
             \/ accepted = "original" /\ originalKeys \cap hostKeys \subseteq halfMade
  <2>1. Sound
    BY <1>1 DEF IInv, SshdInv
  <2>2. CASE accepted = "original"
    BY <2>1, <2>2, KeysNamedFacts DEF Sound, SSHD!Accepts
  <2>3. CASE accepted \in Runs /\ Usable # {}
    BY <2>1, <2>3, KeysNamedFacts DEF Sound, SSHD!Accepts, Usable
  <2> QED
    BY <2>1, <2>2, <2>3 DEF Sound
<1>2. IInv /\ at = "idle" /\ config # "no_file" /\ ~interrupted /\ ~setBack => config = accepted
  BY DEF IInv, SshdInv, Rewriting
<1>3. IInv => FailureReverts
  BY <1>1, <1>2 DEF FailureReverts, IInv, SshdInv
<1> QED
  BY <1>3, Invariance, PTL

\* A run that goes to its end leaves nothing of its work undone, whatever the runs
\* before it left half done.
THEOREM CompleteRunsHarden == Spec => []CompleteRunHardens
<1>1. IInv => CompleteRunHardens
  BY DEF IInv, KeysInv, ModuliInv, PamInv, FilterInv, Groups3072, CompleteRunHardens
<1> QED
  BY <1>1, Invariance, PTL

-----------------------------------------------------------------------------
(* What the administrator had.                                             *)

LEMMA SshdStays ==
  ASSUME IInv, [Next]_vars, SshdKept, ~SshdKept'
  PROVE  backups[now] = "original" /\ backups'[now] # "original"
<1> USE DEF IInv, Typed, SshdInv, SSHD!Step
<1>1. now \in 0 .. MaxTime /\ (backups' # backups \/ config' # config)
  BY DEF SshdKept
<1>2. CASE config # "original"
  <2>1. PICK t \in 0 .. MaxTime : backups[t] = "original" /\ backups'[t] # "original"
    BY <1>2 DEF SshdKept
  <2>2. \A u \in 0 .. MaxTime : u = now \/ backups'[u] = backups[u]
    <3>1. CASE HardenSshd
      BY <3>1 DEF HardenSshd, SSHD!Apply, SSHD!Skip, SSHD!Backup, SSHD!Truncate,
         SSHD!Write, SSHD!Validate, SSHD!Restore, SSHD!Reload
    <3>2. CASE Die
      BY <3>2 DEF Die, SSHD!Die
    <3>3. CASE UNCHANGED sshdVars
      BY <3>3 DEF sshdVars
    <3> QED
      BY <3>1, <3>2, <3>3, Route
  <2> QED
    BY <2>1, <2>2
<1>3. CASE config = "original"
  <2>1. config' # "original" /\ ~ \E t \in 0 .. MaxTime : backups'[t] = "original"
    BY DEF SshdKept
  <2>2. CASE HardenSshd
    <3>1. at \in {"truncate", "write", "restore"} /\ backups' = backups
      BY <1>3, <2>1, <2>2 DEF HardenSshd, SSHD!Apply, SSHD!Skip, SSHD!Backup, SSHD!Truncate,
         SSHD!Write, SSHD!Validate, SSHD!Restore, SSHD!Reload
    <3> QED
      BY <1>3, <2>1, <3>1, ConstantTypes
  <2>3. CASE Die
    <3>1. at = "restore"
      BY <1>3, <2>1, <2>3 DEF Die, SSHD!Die
    <3> QED
      BY <1>3, <3>1, ConstantTypes
  <2>4. CASE UNCHANGED sshdVars
    BY <1>3, <2>1, <2>4 DEF sshdVars
  <2> QED
    BY <2>2, <2>3, <2>4, Route
<1> QED
  BY <1>2, <1>3

LEMMA PamStays ==
  ASSUME IInv, [Next]_vars, PamKept, ~PamKept'
  PROVE  pamBackups[now] = "original" /\ pamBackups'[now] # "original"
<1> USE DEF PAM!Step
<1>0. now \in 0 .. MaxTime /\ Typed /\ PamInv
  BY DEF IInv, Typed
<1>1. CASE ConfigurePAM
  <2>1. CASE PAM!Skip("limit")
    BY <2>1 DEF PAM!Skip, PamKept
  <2>2. CASE PAM!Backup
    BY <1>0, <2>2 DEF PAM!Backup, PamKept, Typed
  <2>3. CASE PAM!Open \/ PAM!Fill("limit")
    BY <1>0, <2>3 DEF PAM!Open, PAM!Fill, PamKept, PamInv
  <2> QED
    BY <1>1, <2>1, <2>2, <2>3 DEF ConfigurePAM, PAM!Apply
<1>2. CASE Die
  BY <1>0, <1>2 DEF Die, PAM!Die, PamKept, Typed
<1>3. CASE UNCHANGED pamVars
  BY <1>3 DEF pamVars, PamKept
<1> QED
  BY <1>0, <1>1, <1>2, <1>3, Route

LEMMA ModuliStays ==
  ASSUME IInv, [Next]_vars, ModuliKept, ~ModuliKept'
  PROVE  "cut" \in moduli /\ moduliBackup' = {}
<1> USE DEF Crypto!Step, CryptoPlaces
<1>0. Typed /\ ModuliInv
  BY DEF IInv
<1>1. CASE HardenCrypto
  <2>1. CASE Crypto!RemoveWeakHostKeys \/ Crypto!GenerateHostKeys \/ Crypto!ReadModuli("pam")
    BY <2>1 DEF Crypto!RemoveWeakHostKeys, Crypto!GenerateHostKeys, Crypto!ReadModuli, ModuliKept
  <2>2. CASE Crypto!OpenBackup
    <3>1. moduliBackup' = {} /\ ~Groups3072 /\ "strong" \notin moduli
      BY <1>0, <2>2 DEF Crypto!OpenBackup, ModuliInv, ModuliKept
    <3> QED
      BY <1>0, <3>1 DEF Typed, ModuliContents, Groups3072
  <2>3. CASE Crypto!FillBackup
    BY <1>0, <2>3 DEF Crypto!FillBackup, ModuliKept, ModuliInv
  <2>4. CASE Crypto!OpenModuli
    BY <1>0, <2>4 DEF Crypto!OpenModuli, ModuliKept, ModuliInv
  <2>5. CASE Crypto!FillModuli("pam")
    BY <1>0, <2>5 DEF Crypto!FillModuli, Crypto!Safe, ModuliKept, ModuliInv
  <2> QED
    BY <1>1, <2>1, <2>2, <2>3, <2>4, <2>5 DEF HardenCrypto, Crypto!Harden
<1>2. CASE Die
  BY <1>0, <1>2 DEF Die, Crypto!Die, ModuliKept, ModuliInv
<1>3. CASE UNCHANGED moduliVars
  BY <1>3 DEF moduliVars, ModuliKept
<1> QED
  BY <1>0, <1>1, <1>2, <1>3, Route

\* No run, and no sequence of runs that die, loses a file of the administrator's but
\* by overwriting the backup of the same second, or that of a moduli already cut.
THEOREM OriginalsSurvive == Spec => OriginalsKept
<1>1. IInv /\ [Next]_vars => OriginalsStay
  BY SshdStays, PamStays, ModuliStays DEF OriginalsStay
<1>2. IInv /\ [Next]_vars => [OriginalsStay]_vars
  BY <1>1
<1> QED
  BY <1>2, Invariance, PTL DEF Spec, OriginalsKept

-----------------------------------------------------------------------------
(* keys audit.  What the comprehensions of the auditor return.             *)

\* What the comprehension has of the list after i elements, for i up to n.
Filling(list, gone, n, kept) ==
  kept = [i \in 0 .. n |->
            IF i = 0 THEN <<>>
            ELSE IF list[i] \in gone THEN kept[i - 1]
            ELSE Append(kept[i - 1], list[i])]

\* The comprehension comes to the end of every list.
LEMMA FillingExists ==
  ASSUME NEW list, NEW gone, NEW len \in Nat
  PROVE  \E kept : Filling(list, gone, len, kept)
<1> DEFINE stuck == {n \in Nat : n <= len /\ ~ \E kept : Filling(list, gone, n, kept)}
<1>1. ASSUME stuck # {} PROVE FALSE
  <2>1. PICK n \in stuck : \A m \in stuck : n <= m
    <3>1. stuck \in SUBSET Nat
      OBVIOUS
    <3> QED
      BY <3>1, <1>1, LeastNatural
  <2>2. CASE n = 0
    <3>1. Filling(list, gone, 0, [i \in 0 .. 0 |-> <<>>])
      BY DEF Filling
    <3> QED
      BY <2>1, <2>2, <3>1
  <2>3. CASE n # 0
    <3>1. n - 1 \in Nat /\ n - 1 <= len /\ n - 1 \notin stuck
      BY <2>1, <2>3
    <3>2. PICK kept : Filling(list, gone, n - 1, kept)
      BY <3>1
    <3> DEFINE last == IF list[n] \in gone THEN kept[n - 1] ELSE Append(kept[n - 1], list[n])
               longer == [i \in 0 .. n |-> IF i = n THEN last ELSE kept[i]]
    <3>3. ASSUME NEW i \in 0 .. n
          PROVE  longer[i] = IF i = 0 THEN <<>>
                             ELSE IF list[i] \in gone THEN longer[i - 1]
                             ELSE Append(longer[i - 1], list[i])
      <4>1. CASE i = n
        <5>1. longer[i - 1] = kept[n - 1]
          BY <4>1, <2>3
        <5> QED
          BY <4>1, <5>1, <2>3
      <4>2. CASE i # n
        <5>1. i \in 0 .. n - 1 /\ longer[i] = kept[i] /\ (i # 0 => longer[i - 1] = kept[i - 1])
          BY <4>2, <3>1
        <5>2. kept[i] = IF i = 0 THEN <<>>
                        ELSE IF list[i] \in gone THEN kept[i - 1]
                        ELSE Append(kept[i - 1], list[i])
          BY <3>2, <5>1 DEF Filling
        <5> QED
          BY <5>1, <5>2
      <4> QED
        BY <4>1, <4>2
    <3>4. DOMAIN longer = 0 .. n /\ longer = [i \in 0 .. n |-> longer[i]]
      OBVIOUS
    <3> HIDE DEF longer
    <3>5. Filling(list, gone, n, longer)
      BY <3>3, <3>4 DEF Filling
    <3> QED
      BY <2>1, <3>5
  <2> QED
    BY <2>2, <2>3
<1> QED
  BY <1>1

\* What it returns is what it has in the end.
LEMMA WithoutFills ==
  ASSUME NEW list, NEW gone, Len(list) \in Nat
  PROVE  \E kept : Filling(list, gone, Len(list), kept) /\ Without(list, gone) = kept[Len(list)]
<1> DEFINE kept == CHOOSE k : Filling(list, gone, Len(list), k)
<1>1. Without(list, gone) = kept[Len(list)]
  BY DEF Without, Filling
<1>2. Filling(list, gone, Len(list), kept)
  BY FillingExists
<1> QED
  BY <1>1, <1>2

\* Of two lists that start alike, the comprehension has the same so far.
LEMMA FillingsAgree ==
  ASSUME NEW list, NEW other, NEW gone, NEW len \in Nat, NEW more \in Nat, len <= more,
         \A i \in 1 .. len : list[i] = other[i],
         NEW kept, Filling(list, gone, len, kept),
         NEW also, Filling(other, gone, more, also)
  PROVE  kept[len] = also[len]
<1> DEFINE apart == {i \in 0 .. len : kept[i] # also[i]}
<1>1. ASSUME apart # {} PROVE FALSE
  <2>1. PICK i \in apart : \A j \in apart : i <= j
    <3>1. apart \in SUBSET Nat
      OBVIOUS
    <3> QED
      BY <3>1, <1>1, LeastNatural
  <2>2. i \in 0 .. len /\ i \in 0 .. more /\ kept[i] # also[i]
    BY <2>1
  <2>3. /\ kept[i] = IF i = 0 THEN <<>>
                     ELSE IF list[i] \in gone THEN kept[i - 1]
                     ELSE Append(kept[i - 1], list[i])
        /\ also[i] = IF i = 0 THEN <<>>
                     ELSE IF other[i] \in gone THEN also[i - 1]
                     ELSE Append(also[i - 1], other[i])
    BY <2>2 DEF Filling
  <2>4. i # 0 => kept[i - 1] = also[i - 1] /\ list[i] = other[i]
    BY <2>1, <2>2
  <2> QED
    BY <2>2, <2>3, <2>4
<1> QED
  BY <1>1

LEMMA RangeOfAppend ==
  ASSUME NEW T, NEW list \in Seq(T), NEW x \in T
  PROVE  Range(Append(list, x)) = Range(list) \cup {x}
<1>1. /\ DOMAIN list = 1 .. Len(list) /\ Len(list) \in Nat
      /\ DOMAIN Append(list, x) = 1 .. Len(list) + 1
      /\ \A i \in 1 .. Len(list) : Append(list, x)[i] = list[i]
      /\ Append(list, x)[Len(list) + 1] = x
  BY AppendProperties, LenProperties
<1>2. DOMAIN Append(list, x) = DOMAIN list \cup {Len(list) + 1}
  BY <1>1
<1> QED
  BY <1>1, <1>2 DEF Range

LEMMA BeginningOfSeq ==
  ASSUME NEW T, NEW list \in Seq(T), NEW n \in 0 .. Len(list)
  PROVE  SubSeq(list, 1, n) \in Seq(T) /\ Range(SubSeq(list, 1, n)) \subseteq Range(list)
<1> DEFINE first == SubSeq(list, 1, n)
<1>1. /\ first \in Seq(T) /\ DOMAIN first = 1 .. n /\ \A i \in 1 .. n : first[i] = list[i]
      /\ DOMAIN list = 1 .. Len(list) /\ Len(list) \in Nat
  <2>1. Len(list) \in Nat /\ DOMAIN list = 1 .. Len(list)
    BY LenProperties
  <2>2. /\ first \in Seq(T) /\ Len(first) = n
        /\ \A i \in 1 .. n : first[i] = list[i]
    BY <2>1, SubSeqProperties
  <2> HIDE DEF first
  <2> QED
    BY <2>1, <2>2, LenProperties
<1>2. \A i \in DOMAIN first : i \in DOMAIN list /\ first[i] = list[i]
  BY <1>1
<1> HIDE DEF first
<1>3. Range(first) \subseteq Range(list)
  BY <1>2 DEF Range
<1> QED
  BY <1>1, <1>3 DEF first

LEMMA WithoutEmpty ==
  ASSUME NEW gone
  PROVE  Without(<<>>, gone) = <<>>
<1>1. PICK kept : Filling(<<>>, gone, 0, kept) /\ Without(<<>>, gone) = kept[0]
  BY WithoutFills, EmptySeq
<1> QED
  BY <1>1 DEF Filling

LEMMA WithoutAppend ==
  ASSUME NEW T, NEW list \in Seq(T), NEW x \in T, NEW gone
  PROVE  Without(Append(list, x), gone) =
           IF x \in gone THEN Without(list, gone) ELSE Append(Without(list, gone), x)
<1> DEFINE longer == Append(list, x)
           len == Len(list)
<1>1. len \in Nat /\ Len(longer) = len + 1 /\ longer[len + 1] = x
      /\ \A i \in 1 .. len : list[i] = longer[i]
  BY AppendProperties, LenProperties
<1>2. PICK kept : Filling(list, gone, len, kept) /\ Without(list, gone) = kept[len]
  BY <1>1, WithoutFills
<1> HIDE DEF longer, len
<1>3. PICK also : Filling(longer, gone, len + 1, also) /\ Without(longer, gone) = also[len + 1]
  <2>1. PICK also : Filling(longer, gone, Len(longer), also) /\ Without(longer, gone) = also[Len(longer)]
    <3>1. Len(longer) \in Nat
      BY <1>1
    <3> QED
      BY <3>1, WithoutFills
  <2> QED
    BY <1>1, <2>1
<1>4. kept[len] = also[len]
  BY <1>1, <1>2, <1>3, FillingsAgree
<1>5. also[len + 1] = IF x \in gone THEN also[len] ELSE Append(also[len], x)
  <2>1. len + 1 \in 0 .. len + 1 /\ len + 1 # 0 /\ (len + 1) - 1 = len
    BY <1>1
  <2>2. also[len + 1] = IF len + 1 = 0 THEN <<>>
                        ELSE IF longer[len + 1] \in gone THEN also[(len + 1) - 1]
                        ELSE Append(also[(len + 1) - 1], longer[len + 1])
    BY <1>3, <2>1 DEF Filling
  <2> QED
    BY <1>1, <2>1, <2>2
<1> QED
  BY <1>2, <1>3, <1>4, <1>5 DEF longer

\* What stays is of the list, all of what need not go is there, and what has gone
\* in two steps could have gone in one.
LEMMA WithoutFacts ==
  ASSUME NEW T, NEW list \in Seq(T), NEW gone, NEW more
  PROVE  /\ Without(list, gone) \in Seq(T)
         /\ Range(Without(list, gone)) = Range(list) \ gone
         /\ Without(Without(list, gone), more) = Without(list, gone \cup more)
<1> DEFINE Right(l) == /\ Without(l, gone) \in Seq(T)
                       /\ Range(Without(l, gone)) = Range(l) \ gone
                       /\ Without(Without(l, gone), more) = Without(l, gone \cup more)
           wrong == {n \in Nat : \E l \in Seq(T) : Len(l) = n /\ ~Right(l)}
<1>1. ASSUME wrong # {} PROVE FALSE
  <2>1. PICK n \in wrong : \A m \in wrong : n <= m
    <3>1. wrong \in SUBSET Nat
      OBVIOUS
    <3> HIDE DEF wrong
    <3> QED
      BY <3>1, <1>1, LeastNatural
  <2>2. PICK l \in Seq(T) : Len(l) = n /\ ~Right(l)
    BY <2>1
  <2>3. l # <<>>
    <3>1. Range(<<>>) = {} /\ <<>> \in Seq(T)
      BY DEF Range
    <3>2. Right(<<>>)
      BY <3>1, WithoutEmpty
    <3> HIDE DEF Right
    <3> QED
      BY <2>2, <3>2
  <2>4. PICK s \in Seq(T), x \in T : l = Append(s, x)
    BY <2>3, SequenceEmptyOrAppend
  <2>5. Right(s)
    <3>1. Len(s) \in Nat /\ n \in Nat /\ n = Len(s) + 1
      BY <2>2, <2>4, LenProperties, AppendProperties
    <3>2. Len(s) \notin wrong
      <4> HIDE DEF wrong
      <4> QED
        BY <2>1, <3>1
    <3> HIDE DEF Right
    <3> QED
      BY <3>1, <3>2
  <2>6. /\ Without(l, gone) = IF x \in gone THEN Without(s, gone) ELSE Append(Without(s, gone), x)
        /\ Without(l, gone \cup more) = IF x \in gone \cup more THEN Without(s, gone \cup more)
                                        ELSE Append(Without(s, gone \cup more), x)
        /\ Without(Append(Without(s, gone), x), more) =
             IF x \in more THEN Without(Without(s, gone), more)
             ELSE Append(Without(Without(s, gone), more), x)
    <3>1. Without(s, gone) \in Seq(T)
      BY <2>5
    <3> HIDE DEF Right
    <3>2. Without(l, gone) = IF x \in gone THEN Without(s, gone) ELSE Append(Without(s, gone), x)
      BY <2>4, WithoutAppend
    <3>3. Without(l, gone \cup more) = IF x \in gone \cup more THEN Without(s, gone \cup more)
                                       ELSE Append(Without(s, gone \cup more), x)
      BY <2>4, WithoutAppend
    <3>4. Without(Append(Without(s, gone), x), more) =
            IF x \in more THEN Without(Without(s, gone), more)
            ELSE Append(Without(Without(s, gone), more), x)
      BY <3>1, WithoutAppend
    <3> QED
      BY <3>2, <3>3, <3>4
  <2>7. Without(l, gone) \in Seq(T)
    BY <2>5, <2>6, AppendProperties
  <2>8. Range(Without(l, gone)) = Range(l) \ gone
    <3>1. Range(l) = Range(s) \cup {x}
      BY <2>4, RangeOfAppend
    <3>2. Range(Append(Without(s, gone), x)) = Range(Without(s, gone)) \cup {x}
      BY <2>5, RangeOfAppend
    <3> QED
      BY <2>5, <2>6, <3>1, <3>2
  <2>9. Without(Without(l, gone), more) = Without(l, gone \cup more)
    BY <2>5, <2>6
  <2> QED
    BY <2>2, <2>7, <2>8, <2>9
<1>2. Right(list)
  <2>1. Len(list) \in Nat /\ Len(list) \notin wrong
    <3> HIDE DEF wrong
    <3> QED
      BY <1>1, LenProperties
  <2> HIDE DEF Right
  <2> QED
    BY <2>1
<1> QED
  BY <1>2

LEMMA WithoutNothing ==
  ASSUME NEW T, NEW list \in Seq(T)
  PROVE  Without(list, {}) = list
<1> DEFINE wrong == {n \in Nat : \E l \in Seq(T) : Len(l) = n /\ Without(l, {}) # l}
<1>1. ASSUME wrong # {} PROVE FALSE
  <2>1. PICK n \in wrong : \A m \in wrong : n <= m
    <3>1. wrong \in SUBSET Nat
      OBVIOUS
    <3> HIDE DEF wrong
    <3> QED
      BY <3>1, <1>1, LeastNatural
  <2>2. PICK l \in Seq(T) : Len(l) = n /\ Without(l, {}) # l
    BY <2>1
  <2>3. PICK s \in Seq(T), x \in T : l = Append(s, x)
    BY <2>2, WithoutEmpty, SequenceEmptyOrAppend
  <2>4. Len(s) \in Nat /\ n \in Nat /\ n = Len(s) + 1
    BY <2>2, <2>3, LenProperties, AppendProperties
  <2>5. Len(s) \notin wrong
    <3> HIDE DEF wrong
    <3> QED
      BY <2>1, <2>4
  <2>6. Without(s, {}) = s
    BY <2>4, <2>5
  <2>7. Without(l, {}) = Append(Without(s, {}), x)
    BY <2>3, WithoutAppend
  <2> QED
    BY <2>2, <2>3, <2>6, <2>7
<1>2. Len(list) \in Nat /\ Len(list) \notin wrong
  <2> HIDE DEF wrong
  <2> QED
    BY <1>1, LenProperties
<1> QED
  BY <1>2

-----------------------------------------------------------------------------
(* What an audit keeps true.                                               *)

LEMMA SameFilter ==
  ASSUME NEW list, NEW gone
  PROVE  Keys!Without(list, gone) = Without(list, gone)
  BY DEF Keys!Without, Without

LEMMA SameRange ==
  ASSUME NEW list
  PROVE  Keys!Range(list) = Range(list)
  BY DEF Keys!Range, Range

\* An entry of the list, and a line that a file can have.
EntryRecords == [path : Paths, line : DOMAIN Key, flagged : BOOLEAN]
Texts == Keys!Lines \cup {NewLine}

AuditTyped ==
  /\ visits \in Seq(Paths)
  /\ before \in [Paths -> Seq(Keys!Lines)]
  /\ files \in [Paths -> Seq(Texts)]
  /\ auditAt \in {"scan", "read", "truncate", "fill", "done"}
  /\ entries \in Seq(EntryRecords) /\ count \in Nat
  /\ buffer \in Seq(Texts)
  /\ edited \subseteq Paths /\ raced \subseteq edited
  /\ failed \subseteq 1 .. count

\* The entry of line i of visit v.
EntryOf(v, i) ==
  LET line == before[visits[v]][i]
  IN  [path |-> visits[v], line |-> line,
       flagged |-> line \in Weak \/ Keys!Known(Key[line], v, i)]

\* The entries of the first n visits.
Found(n) ==
  {e \in EntryRecords : \E v \in 1 .. n : \E i \in DOMAIN before[visits[v]] :
     Keys!HasKey(before[visits[v]][i]) /\ e = EntryOf(v, i)}

ScanInv ==
  auditAt = "scan" =>
    /\ files = before /\ edited = {} /\ failed = {}
    /\ count <= Len(visits)
    /\ Range(entries) = Found(count)

\* The texts that the entries name for a file, and those that the first n have taken
\* out of it.
Named(path) == {entries[i].line : i \in {k \in 1 .. Len(entries) : entries[k].path = path}}
Gone(path, n) ==
  {entries[i].line : i \in {k \in (1 .. n) \ failed : entries[k].path = path}}

\* The entries that are left name what has to go.
GoesInv ==
  auditAt # "scan" => \A path \in Paths : Keys!Condemned(path) = Named(path)

\* A list has what is not gone of the file, and behind it what the user has added,
\* unless it came too early.
IsRest(list, path, gone) ==
  LET rest == Without(before[path], gone) IN
  \/ list = rest /\ path \notin edited \ raced
  \/ list = Append(rest, NewLine) /\ path \in edited

\* ... of what the first n entries leave.
Stands(list, path, n) == IsRest(list, path, Gone(path, n))

RewriteInv ==
  auditAt # "scan" =>
    /\ count <= Len(entries)
    /\ Keys!writing =>
         /\ count < Len(entries)
         /\ Keys!entry.path \notin broken => Stands(buffer, Keys!entry.path, count + 1)
    /\ \A path \in Paths : path \notin broken /\ ~(auditAt = "fill" /\ Keys!entry.path = path) =>
         Stands(files[path], path, count)

\* What is gone is away, from the files whose writing was cut short, too.
AwayInv ==
  auditAt # "scan" =>
    /\ Keys!writing => Range(buffer) \cap Gone(Keys!entry.path, count + 1) = {}
    /\ \A path \in Paths : Range(files[path]) \cap Gone(path, count) = {}

AuditInv == AuditTyped /\ ScanInv /\ GoesInv /\ RewriteInv /\ AwayInv

LEMMA AuditConstants ==
  /\ "#" \notin DOMAIN Key /\ NewLine \notin Keys!Lines
  /\ Visits \subseteq Seq(Paths) /\ MaxLines \in Nat
  /\ DOMAIN Key \subseteq Keys!Lines /\ DOMAIN Key \subseteq Texts /\ NewLine \in Texts
  BY AuditAssumption DEF Keys!KeyAuditorAssumption, Keys!Lines, Texts

\* A file of authorized_keys is a sequence.
LEMMA BoundedSeq ==
  ASSUME NEW S, NEW n \in Nat
  PROVE  Keys!SeqOf(S, n) \subseteq Seq(S)
<1> SUFFICES ASSUME NEW s \in Keys!SeqOf(S, n) PROVE s \in Seq(S)
  OBVIOUS
<1>1. PICK m \in 0 .. n : s \in [1 .. m -> S]
  BY DEF Keys!SeqOf
<1> QED
  BY <1>1

LEMMA InitAudit ==
  ASSUME Keys!Init
  PROVE  AuditInv
<1>1. files \in [Paths -> Seq(Keys!Lines)] /\ before = files
  BY BoundedSeq, AuditConstants DEF Keys!Init, Keys!Files
<1>2. AuditTyped
  <2>1. Seq(Keys!Lines) \subseteq Seq(Texts)
    BY DEF Texts
  <2> QED
    BY <1>1, <2>1, AuditConstants DEF Keys!Init, AuditTyped
<1>3. ScanInv
  <2>1. Range(entries) = {} /\ count = 0 /\ Len(visits) \in Nat /\ Found(0) = {} /\ edited = {} /\ failed = {}
    BY <1>2, LenProperties DEF Keys!Init, Range, Found, AuditTyped
  <2> QED
    BY <1>1, <2>1 DEF ScanInv
<1> QED
  BY <1>2, <1>3 DEF AuditInv, GoesInv, RewriteInv, AwayInv, Keys!Init

\* What ssh-keygen printed for the lines before line i of visit v.
LEMMA SeenIsKnown ==
  ASSUME AuditTyped, ScanInv, auditAt = "scan", count < Len(visits),
         NEW i \in DOMAIN before[visits[count + 1]], NEW k
  PROVE  k \in Keys!Seen(before[visits[count + 1]], i) <=> Keys!Known(k, count + 1, i)
<1> DEFINE v == count + 1
           lines == before[visits[v]]
<1>1. v \in 1 .. Len(visits) /\ visits[v] \in Paths /\ count \in Nat
  BY ElementOfSeq, LenProperties DEF AuditTyped
<1>2. lines \in Seq(Keys!Lines) /\ DOMAIN lines = 1 .. Len(lines) /\ Len(lines) \in Nat
  BY <1>1, LenProperties DEF AuditTyped
<1>3. k \in {Key[e.line] : e \in Range(entries)} <=>
      \E w \in 1 .. count : \E j \in DOMAIN before[visits[w]] :
        Keys!HasKey(before[visits[w]][j]) /\ Key[before[visits[w]][j]] = k
  <2>1. Range(entries) = Found(count)
    BY DEF ScanInv
  <2>2. ASSUME NEW w \in 1 .. count, NEW j \in DOMAIN before[visits[w]],
               Keys!HasKey(before[visits[w]][j])
        PROVE  EntryOf(w, j) \in EntryRecords /\ EntryOf(w, j).line = before[visits[w]][j]
    <3>1. visits[w] \in Paths
      <4>1. w \in 1 .. Len(visits)
        BY <1>1, <2>2
      <4> QED
        BY <4>1, ElementOfSeq DEF AuditTyped
    <3>2. (before[visits[w]][j] \in Weak \/ Keys!Known(Key[before[visits[w]][j]], w, j)) \in BOOLEAN
      BY DEF Keys!Known
    <3> QED
      BY <2>2, <3>1, <3>2 DEF EntryOf, EntryRecords, Keys!HasKey
  <2>3. ASSUME NEW e \in Found(count)
        PROVE  \E w \in 1 .. count : \E j \in DOMAIN before[visits[w]] :
                 Keys!HasKey(before[visits[w]][j]) /\ before[visits[w]][j] = e.line
    BY <2>3, <2>2 DEF Found
  <2>4. ASSUME NEW w \in 1 .. count, NEW j \in DOMAIN before[visits[w]],
               Keys!HasKey(before[visits[w]][j])
        PROVE  \E e \in Found(count) : e.line = before[visits[w]][j]
    BY <2>4, <2>2 DEF Found
  <2>5. ASSUME NEW e \in Range(entries), Key[e.line] = k
        PROVE  \E w \in 1 .. count : \E j \in DOMAIN before[visits[w]] :
                 Keys!HasKey(before[visits[w]][j]) /\ Key[before[visits[w]][j]] = k
    BY <2>1, <2>3, <2>5
  <2>6. ASSUME NEW w \in 1 .. count, NEW j \in DOMAIN before[visits[w]],
               Keys!HasKey(before[visits[w]][j]), Key[before[visits[w]][j]] = k
        PROVE  k \in {Key[e.line] : e \in Range(entries)}
    BY <2>1, <2>4, <2>6
  <2> QED
    BY <2>5, <2>6
<1>4. k \in Keys!Above(lines, i) <=>
      \E j \in DOMAIN lines : j < i /\ Keys!HasKey(lines[j]) /\ Key[lines[j]] = k
  <2>1. \A j : j \in 1 .. i - 1 <=> j \in DOMAIN lines /\ j < i
    BY <1>2
  <2> HIDE DEF lines
  <2> QED
    BY <2>1 DEF Keys!Above
<1>5. Keys!Known(k, v, i) <=>
      \/ \E w \in 1 .. count : \E j \in DOMAIN before[visits[w]] :
           Keys!HasKey(before[visits[w]][j]) /\ Key[before[visits[w]][j]] = k
      \/ \E j \in DOMAIN lines : j < i /\ Keys!HasKey(lines[j]) /\ Key[lines[j]] = k
  <2>1. \A w : w \in 1 .. v <=> w \in 1 .. count \/ w = v
    BY <1>1
  <2>2. (\A w \in 1 .. count : w < v) /\ ~(v < v)
    BY <1>1
  <2> HIDE DEF v
  <2> QED
    BY <2>1, <2>2 DEF Keys!Known
<1> QED
  BY <1>3, <1>4, <1>5, SameRange DEF Keys!Seen

\* Going through a file adds the entries of its visit.
LEMMA ScanAudit ==
  ASSUME AuditInv, Keys!Scan
  PROVE  AuditInv'
<1> USE DEF AuditInv
<1> DEFINE v == count + 1
           path == visits[v]
           lines == before[path]
           none == Keys!NoEntry(path)
           Entry(i) == IF Keys!HasKey(lines[i])
                       THEN [path |-> path, line |-> lines[i], flagged |-> Keys!Flagged(lines, i)]
                       ELSE none
           parsed == [i \in DOMAIN lines |-> Entry(i)]
           records == EntryRecords \cup {none}
<1>1. /\ auditAt = "scan" /\ count < Len(visits) /\ files = before
      /\ edited = {} /\ failed = {}
      /\ entries' = entries \o Without(parsed, {none})
      /\ count' = v
      /\ UNCHANGED <<before, visits, files, auditAt, buffer, edited, raced, failed, broken>>
  BY SameFilter DEF Keys!Scan, ScanInv
<1>2. v \in 1 .. Len(visits) /\ path \in Paths /\ count \in Nat /\ Len(visits) \in Nat
  BY <1>1, ElementOfSeq, LenProperties DEF AuditTyped
<1>3. lines \in Seq(Keys!Lines) /\ DOMAIN lines = 1 .. Len(lines) /\ Len(lines) \in Nat
  BY <1>2, LenProperties DEF AuditTyped
<1>4. ASSUME NEW i \in DOMAIN lines, Keys!HasKey(lines[i])
      PROVE  Entry(i) = EntryOf(v, i) /\ Entry(i) \in EntryRecords /\ Entry(i) # none
  <2>1. Keys!Flagged(lines, i) <=> (lines[i] \in Weak \/ Keys!Known(Key[lines[i]], v, i))
    BY <1>1, SeenIsKnown DEF Keys!Flagged
  <2>2. Keys!Flagged(lines, i) \in BOOLEAN
    BY DEF Keys!Flagged
  <2>3. (lines[i] \in Weak \/ Keys!Known(Key[lines[i]], v, i)) \in BOOLEAN
    BY DEF Keys!Known
  <2>4. Keys!Flagged(lines, i) = (lines[i] \in Weak \/ Keys!Known(Key[lines[i]], v, i))
    BY <2>1, <2>2, <2>3
  <2>5. Entry(i) = [path |-> path, line |-> lines[i], flagged |-> Keys!Flagged(lines, i)]
    BY <1>4
  <2>6. Entry(i) = EntryOf(v, i)
    BY <2>4, <2>5 DEF EntryOf
  <2>7. lines[i] \in DOMAIN Key /\ lines[i] # "#"
    BY <1>4, AuditConstants DEF Keys!HasKey
  <2>8. Entry(i) \in EntryRecords
    BY <1>2, <2>2, <2>5, <2>7 DEF EntryRecords
  <2>9. Entry(i).line = lines[i] /\ none.line = "#"
    BY <2>5 DEF Keys!NoEntry
  <2> QED
    BY <2>6, <2>7, <2>8, <2>9
<1>5. ASSUME NEW i \in DOMAIN lines, ~Keys!HasKey(lines[i])
      PROVE  Entry(i) = none
  BY <1>5
<1> DEFINE added == {EntryOf(v, i) : i \in {j \in DOMAIN lines : Keys!HasKey(lines[j])}}
<1>6. parsed \in Seq(records) /\ Range(parsed) \ {none} = added
  <2>1. \A i \in DOMAIN lines : Entry(i) \in records
    BY <1>4, <1>5
  <2>2. parsed \in Seq(records)
    <3> HIDE DEF records, Entry, lines
    <3> QED
      BY <1>3, <2>1
  <2>3. Range(parsed) = {Entry(i) : i \in DOMAIN lines}
    BY DEF Range
  <2>4. \A x : x \in Range(parsed) \ {none} <=> x \in added
    <3> HIDE DEF Entry, none, lines, v, parsed
    <3> QED
      BY <1>4, <1>5, <2>3
  <2> QED
    BY <2>2, <2>4
<1>7. added \subseteq EntryRecords /\ none \notin EntryRecords
  <2>1. none \notin EntryRecords
    BY AuditConstants DEF Keys!NoEntry, EntryRecords
  <2>2. \A x \in added : x \in EntryRecords
    <3> HIDE DEF Entry, none, lines, v
    <3> QED
      BY <1>4
  <2> QED
    BY <2>1, <2>2
<1>8. Without(parsed, {none}) \in Seq(EntryRecords) /\ Range(Without(parsed, {none})) = added
  <2> HIDE DEF parsed, records, added, none
  <2>1. Without(parsed, {none}) \in Seq(records) /\ Range(Without(parsed, {none})) = added
    BY <1>6, WithoutFacts
  <2> QED
    BY <2>1, <1>7, SeqOfRange, SeqMonotonic
<1> HIDE DEF parsed, records, none
<1>9. entries' \in Seq(EntryRecords) /\ Range(entries') = Found(count) \cup added
  <2>1. entries \in Seq(EntryRecords) /\ Range(entries) = Found(count)
    BY <1>1 DEF AuditTyped, ScanInv
  <2> HIDE DEF added
  <2> QED
    <3> DEFINE new == Without(parsed, {none})
    <3>1. entries' = entries \o new /\ new \in Seq(EntryRecords) /\ Range(new) = added
      BY <1>1, <1>8
    <3> HIDE DEF new
    <3>2. Range(entries \o new) = Range(entries) \cup Range(new)
      BY <2>1, <3>1, RangeConcatenation
    <3>3. entries \o new \in Seq(EntryRecords)
      BY <2>1, <3>1, ConcatProperties
    <3> QED
      BY <2>1, <3>1, <3>2, <3>3
<1>10. Found(count)' = Found(count) \cup added
  <2>1. \A w : w \in 1 .. v <=> w \in 1 .. count \/ w = v
    BY <1>2
  <2>2. \A x : x \in Found(v) <=> x \in Found(count) \/ x \in added
    <3>1. \A x \in added : x \in EntryRecords
      BY <1>7
    <3> HIDE DEF v
    <3> QED
      BY <2>1, <3>1 DEF Found
  <2>3. Found(count)' = Found(v)
    BY <1>1 DEF Found, EntryOf, Keys!Known
  <2> QED
    BY <2>2, <2>3
<1>11. AuditTyped'
  BY <1>1, <1>2, <1>9 DEF AuditTyped
<1>12. ScanInv'
  <2>1. v <= Len(visits)
    BY <1>2
  <2> HIDE DEF v
  <2> QED
    BY <1>1, <2>1, <1>9, <1>10 DEF ScanInv
<1> QED
  BY <1>1, <1>11, <1>12 DEF GoesInv, RewriteInv, AwayInv

\* Of the entries the ones with an issue stay, and they name what has to go.
LEMMA ReportAudit ==
  ASSUME AuditInv, Keys!Report
  PROVE  AuditInv'
<1> USE DEF AuditInv
<1> DEFINE fine == {e \in Range(entries) : ~e.flagged}
<1>1. /\ auditAt = "scan" /\ count = Len(visits) /\ files = before
      /\ edited = {} /\ failed = {}
      /\ entries' = Without(entries, fine)
      /\ count' = 0 /\ auditAt' = "read"
      /\ UNCHANGED <<before, visits, files, buffer, edited, raced, failed, broken>>
  BY SameFilter, SameRange DEF Keys!Report, ScanInv
<1>2. entries' \in Seq(EntryRecords) /\ Range(entries') = {e \in Range(entries) : e.flagged}
  <2>1. entries \in Seq(EntryRecords)
    BY DEF AuditTyped
  <2>2. entries' \in Seq(EntryRecords) /\ Range(entries') = Range(entries) \ fine
    <3> HIDE DEF fine
    <3> QED
      BY <1>1, <2>1, WithoutFacts
  <2> QED
    BY <2>2
<1>3. Len(entries') \in Nat /\ DOMAIN entries' = 1 .. Len(entries')
  BY <1>2, LenProperties
<1>4. Len(visits) \in Nat /\ DOMAIN visits = 1 .. Len(visits)
      /\ \A v \in DOMAIN visits : visits[v] \in Paths
  BY LenProperties, ElementOfSeq DEF AuditTyped
<1>5. AuditTyped'
  BY <1>1, <1>2 DEF AuditTyped
<1>6. ASSUME NEW path \in Paths
      PROVE  Keys!Condemned(path) = Named(path)'
  <2>1. Named(path)' = {e.line : e \in {f \in Range(entries') : f.path = path}}
    BY <1>3 DEF Named, Range
  <2>2. Range(entries') = {e \in Found(Len(visits)) : e.flagged}
    BY <1>1, <1>2 DEF ScanInv
  <2>3. ASSUME NEW line \in Keys!Condemned(path)
        PROVE  line \in Named(path)'
    <3>1. PICK v \in DOMAIN visits, i \in DOMAIN before[path] :
            /\ visits[v] = path /\ before[path][i] = line /\ line \in DOMAIN Key
            /\ line \in Weak \/ Keys!Known(Key[line], v, i)
      BY <2>3 DEF Keys!Condemned
    <3>2. EntryOf(v, i) = [path |-> path, line |-> line, flagged |-> TRUE]
      BY <3>1 DEF EntryOf, Keys!Known
    <3>3. EntryOf(v, i) \in EntryRecords
      BY <3>1, <3>2 DEF EntryRecords
    <3>4. EntryOf(v, i) \in Found(Len(visits))
      BY <1>4, <3>1, <3>3 DEF Found, Keys!HasKey
    <3>5. EntryOf(v, i) \in Range(entries') /\ EntryOf(v, i).path = path /\ EntryOf(v, i).line = line
      BY <2>2, <3>2, <3>4
    <3> QED
      BY <2>1, <3>5
  <2>4. ASSUME NEW line \in Named(path)'
        PROVE  line \in Keys!Condemned(path)
    <3>1. PICK e \in Found(Len(visits)) : e.flagged /\ e.path = path /\ e.line = line
      BY <2>1, <2>2
    <3>2. PICK v \in 1 .. Len(visits) : \E i \in DOMAIN before[visits[v]] :
            Keys!HasKey(before[visits[v]][i]) /\ e = EntryOf(v, i)
      BY <3>1 DEF Found
    <3>3. PICK i \in DOMAIN before[visits[v]] :
            Keys!HasKey(before[visits[v]][i]) /\ e = EntryOf(v, i)
      BY <3>2
    <3>4. /\ visits[v] = path /\ before[path][i] = line
          /\ line \in Weak \/ Keys!Known(Key[line], v, i)
      BY <3>1, <3>3 DEF EntryOf
    <3> QED
      BY <1>4, <3>3, <3>4 DEF Keys!Condemned, Keys!HasKey
  <2> QED
    BY <2>3, <2>4
<1>7. GoesInv'
  <2>1. \A path \in Paths : Keys!Condemned(path)' = Keys!Condemned(path)
    BY <1>1 DEF Keys!Condemned, Keys!Known
  <2> QED
    BY <1>6, <2>1 DEF GoesInv
<1>8. ASSUME NEW path \in Paths
      PROVE  Stands(files[path], path, count)'
  <2>1. Gone(path, count)' = {}
    BY <1>1 DEF Gone
  <2>2. before[path] \in Seq(Keys!Lines)
    BY DEF AuditTyped
  <2>3. Without(before[path], {}) = before[path]
    BY <2>2, WithoutNothing
  <2> QED
    BY <1>1, <2>1, <2>3 DEF Stands, IsRest
<1>9. RewriteInv'
  BY <1>1, <1>3, <1>8 DEF RewriteInv, Keys!writing
<1>10. AwayInv'
  BY <1>1 DEF AwayInv, Gone, Keys!writing
<1> QED
  BY <1>1, <1>5, <1>7, <1>9, <1>10 DEF ScanInv

-----------------------------------------------------------------------------
(* The revocation.                                                         *)

\* While lines are taken out, what has to go is settled.
LEMMA SettledStays ==
  ASSUME AuditInv, auditAt # "scan", auditAt' # "scan",
         UNCHANGED <<before, visits, entries>>
  PROVE  /\ GoesInv' /\ ScanInv'
         /\ failed' = failed => \A path, n : Gone(path, n)' = Gone(path, n)
<1>1. \A path : Keys!Condemned(path)' = Keys!Condemned(path) /\ Named(path)' = Named(path)
  BY DEF Keys!Condemned, Keys!Known, Named
<1>2. failed' = failed => \A path, n : Gone(path, n)' = Gone(path, n)
  BY DEF Gone
<1> QED
  BY <1>1, <1>2 DEF AuditInv, GoesInv, ScanInv

\* The entry in turn, and what goes with it.
LEMMA NextEntry ==
  ASSUME AuditTyped, count < Len(entries)
  PROVE  /\ count + 1 \in 1 .. Len(entries) /\ Len(entries) \in Nat
         /\ Keys!entry = entries[count + 1]
         /\ Keys!entry \in EntryRecords /\ Keys!entry.path \in Paths /\ Keys!entry.line \in DOMAIN Key
         /\ Gone(Keys!entry.path, count + 1) = Gone(Keys!entry.path, count) \cup {Keys!entry.line}
         /\ \A path : path # Keys!entry.path => Gone(path, count + 1) = Gone(path, count)
<1>1. count + 1 \in 1 .. Len(entries) /\ Len(entries) \in Nat /\ Keys!entry = entries[count + 1]
  BY LenProperties DEF AuditTyped, Keys!entry
<1>2. entries[count + 1] \in EntryRecords
  BY <1>1, ElementOfSeq DEF AuditTyped
<1>3. \A k : k \in (1 .. count + 1) \ failed <=> k \in (1 .. count) \ failed \/ k = count + 1
  BY DEF AuditTyped
<1>4. ASSUME NEW path
      PROVE  Gone(path, count + 1) = Gone(path, count) \cup
               {entries[k].line : k \in {j \in {count + 1} : entries[j].path = path}}
  BY <1>3 DEF Gone
<1> QED
  BY <1>1, <1>2, <1>4 DEF EntryRecords

\* The first n entries name lines with a key.
LEMMA GoneAreKeys ==
  ASSUME AuditTyped, NEW n \in Nat, n <= Len(entries), NEW path
  PROVE  Gone(path, n) \subseteq DOMAIN Key
<1>1. Len(entries) \in Nat
  BY LenProperties DEF AuditTyped
<1>2. \A i \in 1 .. n : entries[i] \in EntryRecords
  BY <1>1, ElementOfSeq DEF AuditTyped
<1> QED
  BY <1>2 DEF Gone, EntryRecords

\* To take more lines out of a file that stands is to take them out with the others.
LEMMA StandsLonger ==
  ASSUME AuditTyped, NEW path \in Paths, NEW n \in Nat, NEW list, Stands(list, path, n),
         NEW more \in SUBSET DOMAIN Key
  PROVE  IsRest(Without(list, more), path, Gone(path, n) \cup more)
<1> DEFINE old == Without(before[path], Gone(path, n))
<1>1. before[path] \in Seq(Texts)
  <2>1. before[path] \in Seq(Keys!Lines) /\ Keys!Lines \subseteq Texts
    BY DEF AuditTyped, Texts
  <2> QED
    BY <2>1, SeqMonotonic
<1>2. old \in Seq(Texts) /\ Without(old, more) = Without(before[path], Gone(path, n) \cup more)
  <2> DEFINE gone == Gone(path, n)
             file == before[path]
  <2>1. file \in Seq(Texts)
    BY <1>1
  <2> HIDE DEF gone, file
  <2>2. Without(file, gone) \in Seq(Texts)
        /\ Without(Without(file, gone), more) = Without(file, gone \cup more)
    BY <2>1, WithoutFacts
  <2> QED
    BY <2>2 DEF gone, file
<1>3. Without(Append(old, NewLine), more) = Append(Without(old, more), NewLine)
  <2>1. NewLine \in Texts /\ NewLine \notin more
    BY AuditConstants
  <2> HIDE DEF old
  <2> QED
    <3>1. old \in Seq(Texts)
      BY <1>2
    <3> QED
      BY <2>1, <3>1, WithoutAppend
<1>4. \/ list = old /\ path \notin edited \ raced
      \/ list = Append(old, NewLine) /\ path \in edited
  BY DEF Stands, IsRest
<1> HIDE DEF old
<1> QED
  BY <1>2, <1>3, <1>4 DEF IsRest

\* What is read stands, so what is kept of it stands for one entry more.
LEMMA ReadFileAudit ==
  ASSUME AuditInv, Keys!ReadFile
  PROVE  AuditInv'
<1> USE DEF AuditInv
<1> DEFINE path == Keys!entry.path
           line == Keys!entry.line
<1>1. /\ auditAt = "read" /\ count < Len(entries)
      /\ buffer' = Without(files[path], {line})
      /\ auditAt' = "truncate"
      /\ UNCHANGED <<before, visits, files, entries, count, edited, raced, failed, broken>>
  BY SameFilter DEF Keys!ReadFile
<1>2. /\ path \in Paths /\ line \in DOMAIN Key /\ count + 1 \in 1 .. Len(entries)
      /\ Gone(path, count + 1) = Gone(path, count) \cup {line} /\ count \in Nat
  BY <1>1, NextEntry DEF AuditTyped
<1>3. Keys!entry' = Keys!entry /\ path' = path
  BY <1>1 DEF Keys!entry
<1>4. GoesInv' /\ ScanInv' /\ \A p, n : Gone(p, n)' = Gone(p, n)
  BY <1>1, SettledStays
<1>5. \A p \in Paths : p \notin broken => Stands(files[p], p, count)
  BY <1>1 DEF RewriteInv
<1>6. \A p \in Paths : Range(files[p]) \cap Gone(p, count) = {}
  BY <1>1 DEF AwayInv
<1> HIDE DEF path, line
<1>7. path \notin broken => Stands(buffer', path, count + 1)
  <2> SUFFICES ASSUME path \notin broken PROVE Stands(buffer', path, count + 1)
    OBVIOUS
  <2>1. Stands(files[path], path, count) /\ {line} \in SUBSET DOMAIN Key
    BY <1>2, <1>5
  <2> QED
    <3>1. IsRest(Without(files[path], {line}), path, Gone(path, count) \cup {line})
      BY <1>2, <2>1, StandsLonger
    <3> QED
      BY <1>1, <1>2, <3>1 DEF Stands
<1>8. buffer' \in Seq(Texts) /\ Range(buffer') = Range(files[path]) \ {line}
  <2>1. files[path] \in Seq(Texts)
    BY <1>2 DEF AuditTyped
  <2> QED
    BY <1>1, <2>1, WithoutFacts
<1>9. AuditTyped'
  BY <1>1, <1>8 DEF AuditTyped
<1>10. /\ (path \notin broken => Stands(buffer, path, count + 1))'
       /\ \A p \in Paths : p \notin broken => Stands(files[p], p, count)'
  <2>1. (path \notin broken => Stands(buffer, path, count + 1))'
    BY <1>1, <1>3, <1>4, <1>7 DEF Stands, IsRest
  <2>2. ASSUME NEW p \in Paths, p \notin broken PROVE Stands(files[p], p, count)'
    BY <1>1, <1>4, <1>5, <2>2 DEF Stands, IsRest
  <2> QED
    BY <2>1, <2>2
<1>11. RewriteInv'
  BY <1>1, <1>3, <1>10 DEF RewriteInv, Keys!writing, path
<1>12. AwayInv'
  <2>1. Range(buffer') \cap Gone(path, count + 1) = {}
    BY <1>2, <1>6, <1>8
  <2>2. Gone(path, count + 1)' = Gone(path, count + 1) /\ Range(buffer)' = Range(buffer')
    BY <1>1, <1>3 DEF Gone, Range
  <2>3. \A p \in Paths : Range(files[p])' \cap Gone(p, count)' = {}
    BY <1>1, <1>6 DEF Gone
  <2> QED
    BY <2>1, <2>2, <2>3 DEF AwayInv, path
<1> QED
  BY <1>4, <1>9, <1>11, <1>12

\* Only the file that is being written is empty now.
LEMMA TruncateAudit ==
  ASSUME AuditInv, Keys!Truncate
  PROVE  AuditInv'
<1> USE DEF AuditInv
<1> DEFINE path == Keys!entry.path
<1>1. /\ auditAt = "truncate" /\ auditAt' = "fill"
      /\ files' = [files EXCEPT ![path] = <<>>]
      /\ UNCHANGED <<before, visits, entries, count, buffer, edited, raced, failed, broken>>
  BY DEF Keys!Truncate
<1>2. /\ count < Len(entries) /\ (path \notin broken => Stands(buffer, path, count + 1))
      /\ Range(buffer) \cap Gone(path, count + 1) = {}
  BY <1>1 DEF RewriteInv, AwayInv, Keys!writing
<1>3. Keys!entry' = Keys!entry /\ path' = path
  BY <1>1 DEF Keys!entry
<1>4. GoesInv' /\ ScanInv' /\ \A p, n : Gone(p, n)' = Gone(p, n)
  BY <1>1, SettledStays
<1>5. \A p \in Paths : /\ p \notin broken => Stands(files[p], p, count)
                       /\ Range(files[p]) \cap Gone(p, count) = {}
  BY <1>1 DEF RewriteInv, AwayInv
<1>6. AuditTyped'
  <2>1. files' \in [Paths -> Seq(Texts)]
    <3>1. <<>> \in Seq(Texts) /\ files \in [Paths -> Seq(Texts)]
      BY DEF AuditTyped
    <3> HIDE DEF path
    <3> QED
      BY <1>1, <3>1
  <2> QED
    BY <1>1, <2>1 DEF AuditTyped
<1>7. \A p \in Paths : files'[p] = IF p = path THEN <<>> ELSE files[p]
  BY <1>1 DEF AuditTyped
<1> HIDE DEF path
<1>8. /\ (path \notin broken => Stands(buffer, path, count + 1))'
      /\ \A p \in Paths : p # path /\ p \notin broken => Stands(files[p], p, count)'
  <2>1. (path \notin broken => Stands(buffer, path, count + 1))'
    BY <1>1, <1>2, <1>3, <1>4 DEF Stands, IsRest
  <2>2. ASSUME NEW p \in Paths, p # path, p \notin broken PROVE Stands(files[p], p, count)'
    BY <1>1, <1>4, <1>5, <1>7, <2>2 DEF Stands, IsRest
  <2> QED
    BY <2>1, <2>2
<1>9. RewriteInv'
  BY <1>1, <1>2, <1>3, <1>8 DEF RewriteInv, Keys!writing, path
<1>10. AwayInv'
  <2>1. (Range(buffer) \cap Gone(path, count + 1))' = {}
    BY <1>1, <1>2, <1>3 DEF Gone, Range
  <2>2. Range(<<>>) = {}
    BY DEF Range
  <2>3. \A p \in Paths : Range(files'[p]) \cap Gone(p, count) = {}
    BY <1>5, <1>7, <2>2
  <2>4. \A p \in Paths : (Range(files[p]) \cap Gone(p, count))' = {}
    BY <1>1, <2>3 DEF Gone, Range
  <2> QED
    BY <2>1, <2>4 DEF AwayInv, path
<1> QED
  BY <1>4, <1>6, <1>9, <1>10

\* The file has what was kept, or the first of it: one entry more is dealt with, and no
\* other file is about that entry.
LEMMA FillAudit ==
  ASSUME AuditInv, Keys!Fill \/ Keys!NotFilled
  PROVE  AuditInv'
<1> USE DEF AuditInv
<1> DEFINE path == Keys!entry.path
<1>1. /\ auditAt = "fill" /\ auditAt' = "read" /\ count' = count + 1
      /\ UNCHANGED <<before, visits, entries, buffer, edited, raced, failed>>
  BY DEF Keys!Fill, Keys!NotFilled
<1>2. PICK new \in Seq(Texts) :
        /\ files' = [files EXCEPT ![path] = new] /\ Range(new) \subseteq Range(buffer)
        /\ \/ new = buffer /\ broken' = broken
           \/ broken' = broken \cup {path}
  <2>1. buffer \in Seq(Texts)
    BY DEF AuditTyped
  <2>2. CASE Keys!Fill
    BY <2>1, <2>2 DEF Keys!Fill
  <2>3. CASE Keys!NotFilled
    <3>1. PICK n \in 0 .. Len(buffer) : files' = [files EXCEPT ![path] = SubSeq(buffer, 1, n)]
      BY <2>3 DEF Keys!NotFilled, Keys!CutShort
    <3>2. broken' = broken \cup {path}
      BY <2>3 DEF Keys!NotFilled, Keys!CutShort
    <3>3. SubSeq(buffer, 1, n) \in Seq(Texts) /\ Range(SubSeq(buffer, 1, n)) \subseteq Range(buffer)
      BY <2>1, BeginningOfSeq
    <3> HIDE DEF path
    <3> QED
      BY <3>1, <3>2, <3>3
  <2> QED
    BY <2>2, <2>3
<1>3. /\ count < Len(entries) /\ (path \notin broken => Stands(buffer, path, count + 1))
      /\ Range(buffer) \cap Gone(path, count + 1) = {}
  BY <1>1 DEF RewriteInv, AwayInv, Keys!writing
<1>4. /\ path \in Paths /\ Len(entries) \in Nat /\ count + 1 \in 1 .. Len(entries)
      /\ \A p : p # path => Gone(p, count + 1) = Gone(p, count)
  BY <1>3, NextEntry
<1>5. GoesInv' /\ ScanInv' /\ \A p, n : Gone(p, n)' = Gone(p, n)
  BY <1>1, SettledStays
<1>6. \A p \in Paths : p # path => /\ p \notin broken => Stands(files[p], p, count)
                                   /\ Range(files[p]) \cap Gone(p, count) = {}
  BY <1>1 DEF RewriteInv, AwayInv
<1>7. AuditTyped'
  <2>1. files' \in [Paths -> Seq(Texts)]
    <3>1. files \in [Paths -> Seq(Texts)]
      BY DEF AuditTyped
    <3> HIDE DEF path
    <3> QED
      BY <1>2, <3>1
  <2>2. count' \in Nat /\ failed' \subseteq 1 .. count'
    BY <1>1 DEF AuditTyped
  <2> QED
    BY <1>1, <2>1, <2>2 DEF AuditTyped
<1>8. files'[path] = new /\ \A p \in Paths : p # path => files'[p] = files[p]
  BY <1>2, <1>4 DEF AuditTyped
<1> HIDE DEF path
<1>9. \A p : Gone(p, count)' = Gone(p, count + 1)
  BY <1>1 DEF Gone
<1>10. ASSUME NEW p \in Paths, p \notin broken' PROVE Stands(files[p], p, count)'
  <2>1. CASE p = path
    BY <1>1, <1>2, <1>3, <1>8, <1>9, <1>10, <2>1 DEF Stands, IsRest
  <2>2. CASE p # path
    <3>1. p \notin broken
      BY <1>2, <1>10
    <3> QED
      BY <1>1, <1>4, <1>6, <1>8, <1>9, <2>2, <3>1 DEF Stands, IsRest
  <2> QED
    BY <2>1, <2>2
<1>11. count' <= Len(entries')
  BY <1>1, <1>4
<1>12. RewriteInv'
  BY <1>1, <1>10, <1>11 DEF RewriteInv, Keys!writing
<1>13. AwayInv'
  <2>1. ASSUME NEW p \in Paths PROVE Range(files'[p]) \cap Gone(p, count + 1) = {}
    BY <1>2, <1>3, <1>4, <1>6, <1>8
  <2>2. \A p \in Paths : (Range(files[p]) \cap Gone(p, count))' = {}
    BY <1>9, <2>1 DEF Range
  <2> QED
    BY <1>1, <2>2 DEF AwayInv, Keys!writing
<1> QED
  BY <1>5, <1>7, <1>12, <1>13

\* An entry whose file cannot be opened takes nothing out.
LEMMA NotOpenedAudit ==
  ASSUME AuditInv, Keys!NotOpened
  PROVE  AuditInv'
<1> USE DEF AuditInv
<1>1. /\ auditAt \in {"read", "truncate"} /\ count < Len(entries) /\ auditAt' = "read"
      /\ failed' = failed \cup {count + 1} /\ count' = count + 1
      /\ UNCHANGED <<before, visits, files, entries, buffer, edited, raced, broken>>
  BY DEF Keys!NotOpened
<1>2. GoesInv' /\ ScanInv'
  BY <1>1, SettledStays
<1>3. count \in Nat /\ failed \subseteq 1 .. count /\ Len(entries) \in Nat
  BY LenProperties DEF AuditTyped
<1>4. AuditTyped'
  <2>1. count' \in Nat /\ failed' \subseteq 1 .. count'
    BY <1>1, <1>3
  <2> QED
    BY <1>1, <2>1 DEF AuditTyped
<1>5. \A p : Gone(p, count)' = Gone(p, count)
  <2>1. (1 .. count') \ failed' = (1 .. count) \ failed
    BY <1>1, <1>3
  <2> QED
    BY <1>1, <2>1 DEF Gone
<1>6. \A p \in Paths : /\ p \notin broken => Stands(files[p], p, count)
                       /\ Range(files[p]) \cap Gone(p, count) = {}
  BY <1>1 DEF RewriteInv, AwayInv
<1>7. ASSUME NEW p \in Paths, p \notin broken PROVE Stands(files[p], p, count)'
  BY <1>1, <1>5, <1>6, <1>7 DEF Stands, IsRest
<1>8. count' <= Len(entries')
  BY <1>1, <1>3
<1>9. RewriteInv'
  BY <1>1, <1>7, <1>8 DEF RewriteInv, Keys!writing
<1>10. AwayInv'
  <2>1. \A p \in Paths : (Range(files[p]) \cap Gone(p, count))' = {}
    BY <1>1, <1>5, <1>6 DEF Range
  <2> QED
    BY <1>1, <2>1 DEF AwayInv, Keys!writing
<1> QED
  BY <1>2, <1>4, <1>9, <1>10

LEMMA FinishAudit ==
  ASSUME AuditInv, Keys!Finish
  PROVE  AuditInv'
<1> USE DEF AuditInv
<1>1. /\ auditAt = "read" /\ auditAt' = "done"
      /\ UNCHANGED <<before, visits, files, entries, count, buffer, edited, raced, failed, broken>>
  BY DEF Keys!Finish
<1>2. GoesInv' /\ ScanInv' /\ \A p, n : Gone(p, n)' = Gone(p, n)
  BY <1>1, SettledStays
<1>3. AuditTyped'
  BY <1>1 DEF AuditTyped
<1>4. \A p \in Paths : /\ p \notin broken => Stands(files[p], p, count)
                       /\ Range(files[p]) \cap Gone(p, count) = {}
  BY <1>1 DEF RewriteInv, AwayInv
<1>5. \A p \in Paths : p \notin broken => Stands(files[p], p, count)'
  BY <1>1, <1>2, <1>4 DEF Stands, IsRest
<1>6. count <= Len(entries)
  BY <1>1 DEF RewriteInv
<1>7. RewriteInv'
  BY <1>1, <1>5, <1>6 DEF RewriteInv, Keys!writing
<1>8. AwayInv'
  <2>1. \A p \in Paths : (Range(files[p]) \cap Gone(p, count))' = {}
    BY <1>1, <1>4 DEF Gone, Range
  <2> QED
    BY <1>1, <2>1 DEF AwayInv, Keys!writing
<1> QED
  BY <1>2, <1>3, <1>7, <1>8

\* The user's line comes behind what stands, or too early for the file that is being
\* written; it is none of those that have to go.
LEMMA UserAudit ==
  ASSUME AuditInv, NEW path \in Paths, Keys!UserAddsLine(path)
  PROVE  AuditInv'
<1> USE DEF AuditInv
<1>1. /\ auditAt \in {"read", "truncate", "fill"} /\ edited = {}
      /\ files' = [files EXCEPT ![path] = Append(@, NewLine)]
      /\ edited' = {path}
      /\ raced' = IF Keys!writing /\ Keys!entry.path = path THEN {path} ELSE {}
      /\ UNCHANGED <<before, visits, auditAt, entries, count, buffer, failed, broken>>
  BY DEF Keys!UserAddsLine
<1>2. Keys!entry' = Keys!entry /\ Keys!writing' = Keys!writing /\ raced = {}
  BY <1>1 DEF Keys!entry, Keys!writing, AuditTyped
<1>3. GoesInv' /\ ScanInv' /\ \A p, n : Gone(p, n)' = Gone(p, n)
  BY <1>1, SettledStays
<1>4. files'[path] = Append(files[path], NewLine) /\ \A p \in Paths : p # path => files'[p] = files[p]
  BY <1>1 DEF AuditTyped
<1>5. files[path] \in Seq(Texts) /\ NewLine \in Texts
  BY AuditConstants DEF AuditTyped
<1>6. AuditTyped'
  <2>1. Append(files[path], NewLine) \in Seq(Texts)
    BY <1>5, AppendProperties
  <2>2. files' \in [Paths -> Seq(Texts)]
    BY <1>1, <2>1 DEF AuditTyped
  <2>3. edited' \subseteq Paths /\ raced' \subseteq edited'
    BY <1>1
  <2> QED
    BY <1>1, <2>2, <2>3 DEF AuditTyped
<1>7. ASSUME NEW p \in Paths, p \notin broken, ~(auditAt = "fill" /\ Keys!entry.path = p)
      PROVE  Stands(files[p], p, count)'
  <2>1. files[p] = Without(before[p], Gone(p, count))
    BY <1>1, <1>7 DEF RewriteInv, Stands, IsRest
  <2>2. CASE p = path
    BY <1>1, <1>3, <1>4, <2>1, <2>2 DEF Stands, IsRest
  <2>3. CASE p # path
    BY <1>1, <1>3, <1>4, <2>1, <2>3 DEF Stands, IsRest
  <2> QED
    BY <2>2, <2>3
<1>8. ASSUME Keys!writing, Keys!entry.path \notin broken
      PROVE  Stands(buffer, Keys!entry.path, count + 1)'
  <2>1. buffer = Without(before[Keys!entry.path], Gone(Keys!entry.path, count + 1))
    BY <1>1, <1>8 DEF RewriteInv, Stands, IsRest
  <2>2. Keys!entry'.path \notin edited' \ raced'
    BY <1>1, <1>2, <1>8
  <2> QED
    BY <1>1, <1>2, <1>3, <2>1, <2>2 DEF Stands, IsRest
<1>9. count <= Len(entries) /\ (Keys!writing => count < Len(entries))
  BY <1>1 DEF RewriteInv
<1>10. RewriteInv'
  BY <1>1, <1>2, <1>7, <1>8, <1>9 DEF RewriteInv
<1>11. AwayInv'
  <2>1. \A p \in Paths : Range(files[p]) \cap Gone(p, count) = {}
    BY <1>1 DEF AwayInv
  <2>2. Range(files'[path]) = Range(files[path]) \cup {NewLine}
    BY <1>4, <1>5, RangeOfAppend
  <2>3. NewLine \notin Gone(path, count)
    <3>1. Gone(path, count) \subseteq DOMAIN Key
      BY <1>9, GoneAreKeys DEF AuditTyped
    <3> QED
      BY <3>1, AuditConstants
  <2>4. \A p \in Paths : Range(files'[p]) \cap Gone(p, count) = {}
    BY <1>4, <2>1, <2>2, <2>3
  <2>5. \A p \in Paths : (Range(files[p]) \cap Gone(p, count))' = {}
    <3>1. entries' = entries /\ failed' = failed /\ count' = count
      BY <1>1
    <3> QED
      BY <2>4, <3>1 DEF Gone, Range
  <2>6. (Keys!writing => Range(buffer) \cap Gone(Keys!entry.path, count + 1) = {})'
    BY <1>1, <1>2 DEF AwayInv, Gone, Range
  <2> QED
    BY <2>5, <2>6 DEF AwayInv
<1> QED
  BY <1>3, <1>6, <1>10, <1>11

\* Only the file that was being filled is cut short.
LEMMA DieAudit ==
  ASSUME AuditInv, Keys!Die
  PROVE  AuditInv'
<1> USE DEF AuditInv
<1> DEFINE path == Keys!entry.path
<1>1. /\ auditAt \notin {"scan", "done"} /\ auditAt' = "done"
      /\ UNCHANGED <<before, visits, entries, count, buffer, edited, raced, failed>>
  BY DEF Keys!Die
<1>2. GoesInv' /\ ScanInv' /\ \A p, n : Gone(p, n)' = Gone(p, n)
  BY <1>1, SettledStays
<1>3. /\ \A p \in Paths : p \notin broken /\ ~(auditAt = "fill" /\ path = p) =>
                            Stands(files[p], p, count)
      /\ \A p \in Paths : Range(files[p]) \cap Gone(p, count) = {}
      /\ count <= Len(entries)
  BY <1>1 DEF RewriteInv, AwayInv
<1>4. /\ files' \in [Paths -> Seq(Texts)] /\ broken \subseteq broken'
      /\ auditAt = "fill" => path \in broken'
      /\ \A p \in Paths : \/ files'[p] = files[p]
                          \/ p \in broken' /\ Range(files'[p]) \cap Gone(p, count) = {}
  <2>1. CASE auditAt # "fill"
    <3>1. UNCHANGED <<files, broken>>
      BY <2>1 DEF Keys!Die
    <3> QED
      BY <2>1, <3>1 DEF AuditTyped
  <2>2. CASE auditAt = "fill"
    <3>1. PICK n \in 0 .. Len(buffer) : files' = [files EXCEPT ![path] = SubSeq(buffer, 1, n)]
      BY <2>2 DEF Keys!Die, Keys!CutShort
    <3>2. broken' = broken \cup {path}
      BY <2>2 DEF Keys!Die, Keys!CutShort
    <3>3. buffer \in Seq(Texts) /\ files \in [Paths -> Seq(Texts)]
      BY DEF AuditTyped
    <3>4. SubSeq(buffer, 1, n) \in Seq(Texts) /\ Range(SubSeq(buffer, 1, n)) \subseteq Range(buffer)
      BY <3>3, BeginningOfSeq
    <3>5. count < Len(entries) /\ Range(buffer) \cap Gone(path, count + 1) = {}
      BY <2>2 DEF RewriteInv, AwayInv, Keys!writing
    <3>6. Gone(path, count) \subseteq Gone(path, count + 1)
      BY <3>5, NextEntry
    <3> HIDE DEF path
    <3>7. files' \in [Paths -> Seq(Texts)]
      BY <3>1, <3>3, <3>4
    <3>8. ASSUME NEW p \in Paths
          PROVE  \/ files'[p] = files[p]
                 \/ p \in broken' /\ Range(files'[p]) \cap Gone(p, count) = {}
      BY <3>1, <3>2, <3>3, <3>4, <3>5, <3>6
    <3> QED
      BY <3>2, <3>7, <3>8
  <2> QED
    BY <2>1, <2>2
<1>5. AuditTyped'
  BY <1>1, <1>4 DEF AuditTyped
<1>6. ASSUME NEW p \in Paths, p \notin broken'
      PROVE  Stands(files[p], p, count)'
  <2>1. Stands(files[p], p, count) /\ files'[p] = files[p]
    BY <1>3, <1>4, <1>6
  <2> QED
    BY <1>1, <1>2, <2>1 DEF Stands, IsRest
<1>7. RewriteInv'
  BY <1>1, <1>3, <1>6 DEF RewriteInv, Keys!writing
<1>8. AwayInv'
  <2>1. \A p \in Paths : Range(files'[p]) \cap Gone(p, count) = {}
    BY <1>3, <1>4
  <2>2. \A p \in Paths : (Range(files[p]) \cap Gone(p, count))' = {}
    BY <1>1, <2>1 DEF Gone, Range
  <2> QED
    BY <1>1, <2>2 DEF AwayInv, Keys!writing
<1> QED
  BY <1>2, <1>5, <1>7, <1>8

-----------------------------------------------------------------------------

\* Whatever stands has all that need not go, and at the end what is left of the rest is
\* of entries that have failed.
LEMMA AuditRevokes ==
  ASSUME AuditInv
  PROVE  Keys!RevokedExactly
<1> USE DEF AuditInv
<1> SUFFICES ASSUME NEW path \in Paths
             PROVE  /\ path \notin broken /\ ~(auditAt = "fill" /\ Keys!entry.path = path) =>
                         LET kept == Without(files[path], Keys!Condemned(path))
                             rest == Without(before[path], Keys!Condemned(path)) IN
                         \/ kept = rest /\ path \notin edited \ raced
                         \/ kept = Append(rest, NewLine) /\ path \in edited
                    /\ auditAt = "done" /\ count = Len(entries) =>
                         Range(files[path]) \cap Keys!Condemned(path) \subseteq Keys!Missed(path)
  BY SameFilter, SameRange DEF Keys!RevokedExactly, Keys!Remaining
<1> DEFINE gone == Keys!Condemned(path)
<1>1. gone \in SUBSET DOMAIN Key
  BY DEF Keys!Condemned
<1>2. count \in Nat /\ Len(entries) \in Nat
  BY LenProperties DEF AuditTyped
<1>3. ASSUME path \notin broken, ~(auditAt = "fill" /\ Keys!entry.path = path)
      PROVE  \/ Without(files[path], gone) = Without(before[path], gone) /\ path \notin edited \ raced
             \/ /\ Without(files[path], gone) = Append(Without(before[path], gone), NewLine)
                /\ path \in edited
  <2>1. CASE auditAt = "scan"
    BY <2>1 DEF ScanInv
  <2>2. CASE auditAt # "scan"
    <3>1. Stands(files[path], path, count) /\ count <= Len(entries) /\ gone = Named(path)
      BY <1>3, <2>2 DEF RewriteInv, GoesInv
    <3>2. Gone(path, count) \cup gone = gone
      <4>1. \A i \in 1 .. count : i \in 1 .. Len(entries)
        BY <1>2, <3>1
      <4> QED
        BY <3>1, <4>1 DEF Gone, Named
    <3> HIDE DEF gone
    <3>3. IsRest(Without(files[path], gone), path, Gone(path, count) \cup gone)
      BY <1>1, <1>2, <3>1, StandsLonger
    <3> QED
      BY <3>2, <3>3 DEF IsRest
  <2> QED
    BY <2>1, <2>2
<1>4. ASSUME auditAt = "done", count = Len(entries),
             NEW line \in Range(files[path]) \cap gone
      PROVE  line \in Keys!Missed(path)
  <2>1. gone = Named(path) /\ line \notin Gone(path, Len(entries))
    BY <1>4 DEF GoesInv, AwayInv
  <2>2. PICK i \in 1 .. Len(entries) : entries[i].path = path /\ entries[i].line = line
    BY <1>4, <2>1 DEF Named
  <2>3. i \in failed
    BY <2>1, <2>2 DEF Gone
  <2> QED
    BY <2>2, <2>3 DEF Keys!Missed
<1> QED
  BY <1>3, <1>4

LEMMA AuditInvariance == SpecEither => [](session = "keys" => AuditInv)
<1>1. InitEither => (session = "keys" => AuditInv)
  BY InitAudit DEF InitEither
<1>2. (session = "keys" => AuditInv) /\ [NextEither]_<<session, vars, auditVars>>
      => (session = "keys" => AuditInv)'
  <2> SUFFICES ASSUME session = "keys" => AuditInv, [NextEither]_<<session, vars, auditVars>>,
                      session' = "keys"
               PROVE  AuditInv'
    OBVIOUS
  <2>1. session = "keys" /\ AuditInv /\ (Keys!Next \/ UNCHANGED auditVars)
    BY DEF NextEither, auditVars
  <2>2. CASE UNCHANGED auditVars
    <3>1. UNCHANGED <<before, visits, files, auditAt, entries, count, buffer, edited, raced, failed,
                      broken>>
      BY <2>2 DEF auditVars
    <3>2. AuditTyped'
      BY <2>1, <3>1 DEF AuditInv, AuditTyped
    <3>3. ScanInv'
      <4>1. \A v, i : EntryOf(v, i)' = EntryOf(v, i)
        BY <3>1 DEF EntryOf, Keys!Known
      <4>2. \A n : Found(n)' = Found(n)
        BY <3>1, <4>1 DEF Found
      <4> QED
        BY <2>1, <3>1, <4>2 DEF AuditInv, ScanInv
    <3>4. GoesInv'
      <4>1. \A p : Keys!Condemned(p)' = Keys!Condemned(p) /\ Named(p)' = Named(p)
        BY <3>1 DEF Named, Keys!Known, Keys!Condemned
      <4> QED
        BY <2>1, <3>1, <4>1 DEF AuditInv, GoesInv
    <3>5. RewriteInv'
      <4>1. \A list, p, n : Stands(list, p, n)' <=> Stands(list, p, n)
        BY <3>1 DEF Stands, IsRest, Gone
      <4> QED
        BY <2>1, <3>1, <4>1 DEF AuditInv, RewriteInv, Keys!writing, Keys!entry
    <3>6. AwayInv'
      BY <2>1, <3>1 DEF AuditInv, AwayInv, Gone, Range, Keys!writing, Keys!entry
    <3> QED
      BY <3>2, <3>3, <3>4, <3>5, <3>6 DEF AuditInv
  <2>3. CASE Keys!Next
    BY <2>1, <2>3, ScanAudit, ReportAudit, ReadFileAudit, TruncateAudit, FillAudit,
       NotOpenedAudit, FinishAudit, UserAudit, DieAudit DEF Keys!Next, Keys!Audit
  <2> QED
    BY <2>1, <2>2, <2>3
<1> QED
  BY <1>1, <1>2, PTL DEF SpecEither

\* The lists of an audit keep their types.
THEOREM AuditTypeCorrect == SpecEither => [](session = "keys" => AuditTyped)
<1>1. (session = "keys" => AuditInv) => (session = "keys" => AuditTyped)
  BY DEF AuditInv
<1> QED
  BY <1>1, AuditInvariance, PTL

\* Taking lines out by their text, one file rewriting for each, takes out exactly the
\* lines whose key is weak or came before, but those whose file would not be read or
\* written, for any files, order of users, edit, failure and death.
THEOREM KeysRevokedExactly == SpecEither => []RevokedExactly
<1>1. (session = "keys" => AuditInv) => RevokedExactly
  BY AuditRevokes DEF RevokedExactly
<1> QED
  BY <1>1, AuditInvariance, PTL
=============================================================================
