----------------------------- MODULE KeepsProofs -----------------------------
(***************************************************************************)
(* What the parts of the window promise that configure and edit, for any   *)
(* number of things on a page and any order of clicks, answers and         *)
(* restarts.                                                               *)
(***************************************************************************)
EXTENDS WindowKeeps, Integers, Sequences, FiniteSets, FiniteSetTheorems, SequenceTheorems,
        NaturalsInduction, WellFoundedInduction, TLAPS

(***************************************************************************)
(* Vault: the credentials at rest.                                         *)
(***************************************************************************)
\* The slots that come and go are not those that stay; what stands for no key, no
\* value and no settings is none.
VaultAssumption ==
  /\ MaxKeys \in Nat \ {0} /\ Fixed \cap Keyed = {} /\ Public \in Credentials
  /\ InClear \notin Safe!Keys /\ Missing \notin Safe!Keys
  /\ Missing \notin Safe!Values /\ Missing \notin Safe!Cred

\* Without a stored blob there is nothing sealed in memory.
FreshIsClear == loaded = Missing => ~Safe!HasSealed(mem)

\* A keychain that did not answer leaves the credentials locked.
UnusableIsLocked == boot \in {"adopt", "witness", "open"} /\ ~usable => state # "ok"

BlankIn(cred) == {k \in DOMAIN cred : cred[k] = Missing}

\* What is blank in what may be sealed, the operator left blank.
BlanksAreMeant ==
  /\ loaded # Missing => BlankIn(loaded) \subseteq cleared
  /\ state = "ok" => BlankIn(mem) \subseteq cleared
  /\ \A new \in saving : BlankIn(new) \subseteq cleared

VaultInv ==
  /\ Safe!TypeOK /\ Safe!NeverStoredInClear /\ Safe!NothingSealedInUse
  /\ FreshIsClear /\ UnusableIsLocked /\ BlanksAreMeant

-----------------------------------------------------------------------------
(* Credentials. *)

LEMMA CredMade ==
  ASSUME NEW S, Fixed \subseteq S, S \subseteq Fixed \cup Keyed,
         NEW f \in [S -> Safe!Values \cup {Missing}]
  PROVE  f \in Safe!Cred
<1> DEFINE T == S \cap Keyed
<1>1. S = T \cup Fixed /\ T \in SUBSET Keyed
  OBVIOUS
<1> HIDE DEF T
<1> QED BY <1>1 DEF Safe!Cred, Safe!Blank

LEMMA CredHas ==
  ASSUME NEW f \in Safe!Cred
  PROVE  /\ Fixed \subseteq DOMAIN f /\ DOMAIN f \subseteq Fixed \cup Keyed
         /\ f \in [DOMAIN f -> Safe!Values \cup {Missing}]
BY DEF Safe!Cred, Safe!Blank

LEMMA ClearIs ==
  ASSUME VaultAssumption, NEW s \in Credentials
  PROVE  Safe!Clear(s) \in Safe!Values /\ Safe!Clear(s) # Missing /\ ~Safe!Sealed(Safe!Clear(s))
BY DEF VaultAssumption, Safe!Clear, Safe!Values, Safe!Sealed

\* What the operator may save has the slots it should, and nothing is sealed in it
\* that was not.
LEMMA EditsKeep ==
  ASSUME VaultAssumption, NEW cred \in Safe!Cred, NEW new \in Safe!Edits(cred)
  PROVE  new \in Safe!Cred /\ (Safe!HasSealed(new) => Safe!HasSealed(cred))
<1>0. /\ Fixed \subseteq DOMAIN cred /\ DOMAIN cred \subseteq Fixed \cup Keyed
      /\ cred \in [DOMAIN cred -> Safe!Values \cup {Missing}]
  BY CredHas
<1>1. CASE new = cred
  BY <1>1
<1>2. CASE \E k \in DOMAIN cred, s \in Credentials : new = [cred EXCEPT ![k] = Safe!Clear(s)]
  <2>1. PICK k \in DOMAIN cred, s \in Credentials : new = [cred EXCEPT ![k] = Safe!Clear(s)]
    BY <1>2
  <2>2. new \in [DOMAIN cred -> Safe!Values \cup {Missing}]
    BY <1>0, <2>1, ClearIs
  <2>3. Safe!HasSealed(new) => Safe!HasSealed(cred)
    BY <1>0, <2>1, ClearIs DEF Safe!HasSealed
  <2> QED BY <1>0, <2>2, <2>3, CredMade
<1>3. CASE \E k \in DOMAIN cred : new = [cred EXCEPT ![k] = Missing]
  <2>1. PICK k \in DOMAIN cred : new = [cred EXCEPT ![k] = Missing]
    BY <1>3
  <2>2. new \in [DOMAIN cred -> Safe!Values \cup {Missing}]
    BY <1>0, <2>1
  <2>3. Safe!HasSealed(new) => Safe!HasSealed(cred)
    BY <1>0, <2>1 DEF Safe!HasSealed, Safe!Sealed, Safe!Blank
  <2> QED BY <1>0, <2>2, <2>3, CredMade
<1>4. CASE \E n \in Keyed \ DOMAIN cred, s \in Credentials :
             new = [k \in DOMAIN cred \cup {n} |-> IF k = n THEN Safe!Clear(s) ELSE cred[k]]
  <2>1. PICK n \in Keyed \ DOMAIN cred, s \in Credentials :
          new = [k \in DOMAIN cred \cup {n} |-> IF k = n THEN Safe!Clear(s) ELSE cred[k]]
    BY <1>4
  <2>2. new \in [DOMAIN cred \cup {n} -> Safe!Values \cup {Missing}]
    BY <1>0, <2>1, ClearIs
  <2>3. Safe!HasSealed(new) => Safe!HasSealed(cred)
    BY <1>0, <2>1, ClearIs DEF Safe!HasSealed
  <2> QED BY <1>0, <2>1, <2>2, <2>3, CredMade
<1>5. CASE \E n \in Keyed \cap DOMAIN cred : new = [k \in DOMAIN cred \ {n} |-> cred[k]]
  <2>1. PICK n \in Keyed \cap DOMAIN cred : new = [k \in DOMAIN cred \ {n} |-> cred[k]]
    BY <1>5
  <2>2. new \in [DOMAIN cred \ {n} -> Safe!Values \cup {Missing}]
    BY <1>0, <2>1
  <2>3. Safe!HasSealed(new) => Safe!HasSealed(cred)
    BY <1>0, <2>1 DEF Safe!HasSealed
  <2>4. Fixed \subseteq DOMAIN cred \ {n}
    BY <1>0 DEF VaultAssumption
  <2> QED BY <1>0, <2>2, <2>3, <2>4, CredMade
<1> DEFINE KeysTyped == {[cred EXCEPT ![k] = Safe!Clear(s)] : k \in DOMAIN cred, s \in Credentials}
           Emptied == {[cred EXCEPT ![k] = Safe!Blank] : k \in DOMAIN cred}
           Added == {[k \in DOMAIN cred \cup {n} |-> IF k = n THEN Safe!Clear(s) ELSE cred[k]]
                       : n \in Keyed \ DOMAIN cred, s \in Credentials}
           Removed == {[k \in DOMAIN cred \ {n} |-> cred[k]] : n \in Keyed \cap DOMAIN cred}
<1>6. CASE new \in KeysTyped
  BY <1>2, <1>6
<1>7. CASE new \in Emptied
  BY <1>3, <1>7 DEF Safe!Blank
<1>8. CASE new \in Added
  BY <1>4, <1>8
<1>9. CASE new \in Removed
  BY <1>5, <1>9
<1>10. Safe!Edits(cred) = {cred} \cup KeysTyped \cup Emptied \cup Added \cup Removed
  BY DEF Safe!Edits
<1> HIDE DEF KeysTyped, Emptied, Added, Removed
<1> QED BY <1>1, <1>6, <1>7, <1>8, <1>9, <1>10

\* Sealing, opening, blanking and carrying forward.
LEMMA SealKeeps ==
  ASSUME VaultAssumption, NEW cred \in Safe!Cred, NEW key \in Safe!Keys
  PROVE  /\ Safe!SettingsSeal(cred, key) \in Safe!Cred
         /\ BlankIn(Safe!SettingsSeal(cred, key)) = BlankIn(cred)
         /\ DOMAIN Safe!SettingsSeal(cred, key) = DOMAIN cred
         /\ \A k \in DOMAIN cred : \/ Safe!SettingsSeal(cred, key)[k] = Missing
                                   \/ Safe!Sealed(Safe!SettingsSeal(cred, key)[k])
<1>0. /\ Fixed \subseteq DOMAIN cred /\ DOMAIN cred \subseteq Fixed \cup Keyed
      /\ cred \in [DOMAIN cred -> Safe!Values \cup {Missing}]
  BY CredHas
<1> DEFINE new == Safe!SettingsSeal(cred, key)
<1>1. ASSUME NEW v \in Safe!Values
      PROVE  LET w == [v EXCEPT !.under = key] IN w \in Safe!Values /\ w # Missing /\ Safe!Sealed(w)
  <2>1. [v EXCEPT !.under = key] \in Safe!Values /\ [v EXCEPT !.under = key].under = key
    BY DEF Safe!Values
  <2>2. key # InClear /\ Missing \notin Safe!Values
    BY DEF VaultAssumption
  <2> QED BY <2>1, <2>2 DEF Safe!Sealed, Safe!Blank
<1>2. /\ DOMAIN new = DOMAIN cred
      /\ \A k \in DOMAIN cred :
           /\ cred[k] = Missing => new[k] = Missing
           /\ cred[k] # Missing => new[k] \in Safe!Values /\ new[k] # Missing /\ Safe!Sealed(new[k])
  BY <1>0, <1>1 DEF Safe!SettingsSeal, Safe!Blank
<1>3. new \in [DOMAIN cred -> Safe!Values \cup {Missing}]
  BY <1>2 DEF Safe!SettingsSeal
<1>4. new \in Safe!Cred
  BY <1>0, <1>3, CredMade
<1> HIDE DEF new
<1>5. BlankIn(new) = BlankIn(cred)
  BY <1>2 DEF BlankIn
<1> QED BY <1>2, <1>4, <1>5 DEF new

LEMMA OpenKeeps ==
  ASSUME VaultAssumption, NEW cred \in Safe!Cred
  PROVE  /\ Safe!SettingsOpen(cred) \in Safe!Cred
         /\ BlankIn(Safe!SettingsOpen(cred)) = BlankIn(cred)
         /\ ~Safe!HasSealed(Safe!SettingsOpen(cred))
<1>0. /\ Fixed \subseteq DOMAIN cred /\ DOMAIN cred \subseteq Fixed \cup Keyed
      /\ cred \in [DOMAIN cred -> Safe!Values \cup {Missing}]
  BY CredHas
<1> DEFINE new == Safe!SettingsOpen(cred)
<1>1. \A v \in Safe!Values : v.secret \in Credentials
  BY DEF Safe!Values
<1>2. /\ DOMAIN new = DOMAIN cred
      /\ \A k \in DOMAIN cred :
           /\ cred[k] = Missing => new[k] = Missing
           /\ cred[k] # Missing => new[k] \in Safe!Values /\ new[k] # Missing
           /\ ~Safe!Sealed(new[k])
  <2> SUFFICES ASSUME NEW k \in DOMAIN cred
               PROVE  /\ cred[k] = Missing => new[k] = Missing
                      /\ cred[k] # Missing => new[k] \in Safe!Values /\ new[k] # Missing
                      /\ ~Safe!Sealed(new[k])
    BY DEF Safe!SettingsOpen
  <2>1. new[k] = IF Safe!Sealed(cred[k]) THEN Safe!Clear(cred[k].secret) ELSE cred[k]
    BY DEF Safe!SettingsOpen
  <2>2. Safe!Sealed(cred[k]) => cred[k] \in Safe!Values /\ cred[k] # Missing
    BY <1>0 DEF Safe!Sealed, Safe!Blank
  <2> QED BY <1>0, <1>1, <2>1, <2>2, ClearIs
<1>3. new \in [DOMAIN cred -> Safe!Values \cup {Missing}]
  BY <1>2 DEF Safe!SettingsOpen
<1>4. new \in Safe!Cred
  BY <1>0, <1>3, CredMade
<1> HIDE DEF new
<1>5. BlankIn(new) = BlankIn(cred) /\ ~Safe!HasSealed(new)
  BY <1>2 DEF BlankIn, Safe!HasSealed
<1> QED BY <1>4, <1>5 DEF new

LEMMA BlankKeeps ==
  ASSUME NEW cred \in Safe!Cred
  PROVE  Safe!blankSealed(cred) \in Safe!Cred /\ ~Safe!HasSealed(Safe!blankSealed(cred))
<1>0. /\ Fixed \subseteq DOMAIN cred /\ DOMAIN cred \subseteq Fixed \cup Keyed
      /\ cred \in [DOMAIN cred -> Safe!Values \cup {Missing}]
  BY CredHas
<1> DEFINE new == Safe!blankSealed(cred)
<1>1. new \in [DOMAIN cred -> Safe!Values \cup {Missing}]
  BY <1>0 DEF Safe!blankSealed, Safe!Blank
<1>2. new \in Safe!Cred
  BY <1>0, <1>1, CredMade
<1>3. ~Safe!HasSealed(new)
  BY DEF Safe!HasSealed, Safe!blankSealed, Safe!Sealed, Safe!Blank
<1> QED BY <1>2, <1>3

LEMMA CarryKeeps ==
  ASSUME VaultAssumption, Safe!TypeOK, NEW cred \in Safe!Cred
  PROVE  LET new == Safe!carryForward(cred, disk) IN
         /\ new \in Safe!Cred /\ DOMAIN new = DOMAIN cred
         /\ \A k \in DOMAIN cred :
              new[k] = IF disk # Missing /\ k \in DOMAIN disk THEN disk[k] ELSE Missing
<1>0. Fixed \subseteq DOMAIN cred /\ DOMAIN cred \subseteq Fixed \cup Keyed
  BY CredHas
<1> DEFINE new == Safe!carryForward(cred, disk)
<1>1. disk # Missing => disk \in [DOMAIN disk -> Safe!Values \cup {Missing}]
  BY CredHas DEF Safe!TypeOK
<1>2. new = [k \in DOMAIN cred |-> IF disk # Missing /\ k \in DOMAIN disk THEN disk[k] ELSE Missing]
  BY DEF Safe!carryForward, Safe!Blank
<1>3. new \in [DOMAIN cred -> Safe!Values \cup {Missing}]
  BY <1>1, <1>2
<1>4. new \in Safe!Cred
  BY <1>0, <1>3, CredMade
<1> QED BY <1>2, <1>4

-----------------------------------------------------------------------------
(* The steps. *)

LEMMA KeyIs ==
  ASSUME VaultAssumption, Safe!TypeOK, Safe!settingsKey
  PROVE  /\ Safe!KeyAfter \in Safe!Keys
         /\ osKey' \in Safe!Keys \cup {Missing} /\ cached' \in Safe!Keys \cup {Missing}
         /\ made' \in 0..MaxKeys /\ keychain' = keychain
<1>1. MaxKeys \in Nat /\ Safe!Keys = 0..MaxKeys /\ made \in 0..MaxKeys
  BY DEF VaultAssumption, Safe!Keys, Safe!TypeOK
<1>2. /\ cached \in Safe!Keys \cup {Missing} /\ osKey \in Safe!Keys \cup {Missing}
  BY DEF Safe!TypeOK
<1>3. cached = Missing /\ osKey = Missing => made + 1 \in Safe!Keys
  BY <1>1 DEF Safe!settingsKey
<1> QED BY <1>1, <1>2, <1>3 DEF Safe!settingsKey, Safe!KeyAfter

\* Nothing is stored, nothing is saved, and the page is as it was.
LEMMA RestVault ==
  ASSUME VaultInv, UNCHANGED <<disk, mem, state, loaded, usable, cleared>>, saving' \subseteq saving,
         UNCHANGED boot \/ (boot' # "ready" /\ (~usable => state # "ok")), Safe!TypeOK'
  PROVE  VaultInv'
<1>1. Safe!NeverStoredInClear' /\ Safe!NothingSealedInUse'
  BY DEF VaultInv, Safe!NeverStoredInClear, Safe!NothingSealedInUse, Safe!HasSealed
<1>2. FreshIsClear' /\ UnusableIsLocked'
  BY DEF VaultInv, FreshIsClear, UnusableIsLocked, Safe!HasSealed
<1>3. BlanksAreMeant'
  BY DEF VaultInv, BlanksAreMeant, BlankIn
<1> QED BY <1>1, <1>2, <1>3 DEF VaultInv

\* What the start asks before it opens anything.
LEMMA StartVault ==
  ASSUME VaultAssumption, VaultInv, Safe!refreshStatus \/ Safe!AdoptKey \/ Safe!DropLegacyKey
  PROVE  VaultInv'
<1>0. Safe!TypeOK
  BY DEF VaultInv
<1>1. CASE Safe!refreshStatus
  <2>1. /\ UNCHANGED <<disk, mem, loaded, saving, cleared, oldKey, osKey, made, cached, keychain, forgetting>>
        /\ boot' \in {"adopt", "open"} /\ usable' = (keychain = "open")
        /\ state' \in {"ok", "locked", "nostore"} /\ (keychain # "open" => state' # "ok")
        /\ (state' = "ok" => state = "ok")
    BY <1>0, <1>1 DEF Safe!refreshStatus, Safe!TypeOK, Safe!storage, Safe!os
  <2>2. Safe!TypeOK'
    BY <1>0, <2>1 DEF Safe!TypeOK
  <2>3. Safe!NeverStoredInClear' /\ Safe!NothingSealedInUse' /\ FreshIsClear'
    BY <2>1 DEF VaultInv, Safe!NeverStoredInClear, Safe!NothingSealedInUse, FreshIsClear, Safe!HasSealed
  <2>4. UnusableIsLocked' /\ BlanksAreMeant'
    BY <2>1 DEF VaultInv, UnusableIsLocked, BlanksAreMeant, BlankIn
  <2> QED BY <2>2, <2>3, <2>4 DEF VaultInv
<1>2. CASE Safe!AdoptKey
  <2>1. /\ UNCHANGED <<disk, mem, state, loaded, usable, cleared, saving, oldKey, made, keychain, forgetting>>
        /\ boot = "adopt" /\ boot' \in {"witness", "open"}
        /\ osKey' \in {osKey, 0} /\ cached' \in {cached, 0}
    BY <1>2 DEF Safe!AdoptKey, Safe!storage, Safe!Legacy
  <2>2. 0 \in Safe!Keys
    BY DEF VaultAssumption, Safe!Keys
  <2>3. Safe!TypeOK'
    BY <1>0, <2>1, <2>2 DEF Safe!TypeOK
  <2>4. ~usable => state # "ok"
    BY <2>1 DEF VaultInv, UnusableIsLocked
  <2> QED BY <2>1, <2>3, <2>4, RestVault
<1>3. CASE Safe!DropLegacyKey
  <2>1. /\ UNCHANGED <<disk, mem, state, loaded, usable, cleared, saving, forgetting>>
        /\ boot = "witness" /\ boot' = "open"
    BY <1>3 DEF Safe!DropLegacyKey
  <2>2. UNCHANGED <<keychain, osKey, made, cached>> \/ Safe!settingsKey
    BY <1>3 DEF Safe!DropLegacyKey, Safe!os
  <2>3. oldKey' \in BOOLEAN
    BY <1>0, <1>3 DEF Safe!DropLegacyKey, Safe!TypeOK
  <2>4. Safe!TypeOK'
    BY <1>0, <2>1, <2>2, <2>3, KeyIs DEF Safe!TypeOK
  <2>5. ~usable => state # "ok"
    BY <2>1 DEF VaultInv, UnusableIsLocked
  <2> QED BY <2>1, <2>4, <2>5, RestVault
<1> QED BY <1>1, <1>2, <1>3

\* The stored settings are opened, or their copy is blanked.
LEMMA OpenVault ==
  ASSUME VaultAssumption, VaultInv, Safe!NothingToOpen \/ Safe!OpenStored
  PROVE  VaultInv'
<1>0. /\ Safe!TypeOK /\ UNCHANGED <<disk, oldKey, loaded, usable, saving, forgetting, cleared>>
      /\ boot = "open" /\ boot' = "ready"
  BY DEF VaultInv, Safe!NothingToOpen, Safe!OpenStored, Safe!storage
<1>1. /\ mem' \in Safe!Cred /\ ~Safe!HasSealed(mem')
      /\ state' \in {"ok", "locked", "nostore"}
      /\ state' = "ok" => BlankIn(mem') \subseteq cleared
  <2>1. CASE Safe!NothingToOpen
    <3>1. loaded # Missing => loaded \in Safe!Cred /\ ~Safe!HasSealed(loaded) /\ mem' = loaded
      BY <1>0, <2>1 DEF Safe!NothingToOpen, Safe!ToOpen, Safe!TypeOK
    <3>2. loaded = Missing => mem' = mem /\ ~Safe!HasSealed(mem) /\ mem \in Safe!Cred /\ state' = state
      BY <1>0, <2>1 DEF Safe!NothingToOpen, VaultInv, FreshIsClear, Safe!TypeOK
    <3>3. state' \in {"ok", state} /\ state \in {"ok", "locked", "nostore"}
      BY <1>0, <2>1 DEF Safe!NothingToOpen, Safe!TypeOK
    <3> QED BY <3>1, <3>2, <3>3 DEF VaultInv, BlanksAreMeant
  <2>2. CASE Safe!OpenStored
    <3>1. loaded \in Safe!Cred /\ loaded # Missing
      BY <1>0, <2>2 DEF Safe!OpenStored, Safe!ToOpen, Safe!TypeOK
    <3>2. \/ mem' = Safe!SettingsOpen(loaded) /\ state' = "ok"
          \/ mem' = Safe!blankSealed(loaded) /\ state' = "locked"
          \/ mem' = Safe!blankSealed(loaded) /\ ~usable /\ state' = state
      BY <2>2 DEF Safe!OpenStored
    <3>3. ~usable => state # "ok"
      BY <1>0 DEF VaultInv, UnusableIsLocked
    <3>4. state \in {"ok", "locked", "nostore"}
      BY <1>0 DEF Safe!TypeOK
    <3>5. BlankIn(loaded) \subseteq cleared
      BY <3>1 DEF VaultInv, BlanksAreMeant
    <3> QED BY <3>1, <3>2, <3>3, <3>4, <3>5, OpenKeeps, BlankKeeps
  <2> QED BY <2>1, <2>2
<1>2. UNCHANGED <<keychain, osKey, made, cached>> \/ Safe!settingsKey
  BY DEF Safe!NothingToOpen, Safe!OpenStored, Safe!os
<1>3. Safe!TypeOK'
  BY <1>0, <1>1, <1>2, KeyIs DEF Safe!TypeOK
<1>4. Safe!NeverStoredInClear' /\ Safe!NothingSealedInUse' /\ FreshIsClear'
  BY <1>0, <1>1 DEF VaultInv, Safe!NeverStoredInClear, Safe!NothingSealedInUse, FreshIsClear, Safe!HasSealed
<1>5. UnusableIsLocked'
  BY <1>0 DEF UnusableIsLocked
<1>6. BlanksAreMeant'
  BY <1>0, <1>1 DEF VaultInv, BlanksAreMeant, BlankIn
<1> QED BY <1>3, <1>4, <1>5, <1>6 DEF VaultInv

\* A save keeps what is sealed in storage, and remembers what was left blank.
LEMMA SaveVault ==
  ASSUME VaultAssumption, VaultInv, Safe!Save
  PROVE  VaultInv' /\ Safe!BlanksNothing
<1>0. Safe!TypeOK
  BY DEF VaultInv
<1>1. PICK new \in Safe!Edits(mem) : Safe!save(new)
  BY DEF Safe!Save
<1>2. /\ UNCHANGED <<oldKey, keychain, osKey, made, cached, state, boot, loaded, usable, forgetting>>
      /\ mem' = new /\ cleared' = cleared \cup Safe!Leaves(new)
      /\ \/ state = "ok" /\ saving' = saving \cup {new} /\ disk' = disk
         \/ state # "ok" /\ saving' = saving /\ disk' = Safe!carryForward(new, disk)
  BY <1>1 DEF Safe!save, Safe!os
<1>3. mem \in Safe!Cred /\ new \in Safe!Cred /\ (Safe!HasSealed(new) => Safe!HasSealed(mem))
  BY <1>0, <1>1, EditsKeep DEF Safe!TypeOK
<1>4. DOMAIN new \subseteq Fixed \cup Keyed
  BY <1>3, CredHas
<1>5. Safe!Leaves(new) \subseteq DOMAIN new
  BY DEF Safe!Leaves
<1>6. /\ disk' \in Safe!Cred \cup {Missing}
      /\ disk' # Missing => \A k \in DOMAIN disk' :
           \/ disk # Missing /\ k \in DOMAIN disk /\ disk'[k] = disk[k]
           \/ disk'[k] = Missing /\ (disk # Missing => k \notin DOMAIN disk)
  <2>1. CASE state = "ok"
    BY <1>0, <1>2, <2>1 DEF Safe!TypeOK
  <2>2. CASE state # "ok"
    BY <1>0, <1>2, <1>3, <2>2, CarryKeeps
  <2> QED BY <2>1, <2>2
<1>7. Safe!TypeOK'
  BY <1>0, <1>2, <1>3, <1>4, <1>5, <1>6 DEF Safe!TypeOK, Safe!Slots
<1>8. Safe!NeverStoredInClear'
  BY <1>6 DEF VaultInv, Safe!NeverStoredInClear, Safe!Blank
<1>9. Safe!NothingSealedInUse' /\ FreshIsClear' /\ UnusableIsLocked'
  BY <1>2, <1>3 DEF VaultInv, Safe!NothingSealedInUse, FreshIsClear, UnusableIsLocked, Safe!HasSealed
<1>10. BlanksAreMeant'
  <2>1. state = "ok" => BlankIn(new) \subseteq cleared'
    BY <1>2 DEF VaultInv, BlanksAreMeant, BlankIn, Safe!Leaves, Safe!Blank
  <2> QED BY <1>2, <2>1 DEF VaultInv, BlanksAreMeant, BlankIn
<1>11. Safe!BlanksNothing
  BY <1>6 DEF Safe!BlanksNothing, Safe!Blank
<1> QED BY <1>7, <1>8, <1>9, <1>10, <1>11 DEF VaultInv

\* What was being sealed is stored, with no more blanks than the operator left.
LEMMA SealedVault ==
  ASSUME VaultAssumption, VaultInv, Safe!SealAnswered
  PROVE  VaultInv' /\ Safe!BlanksNothing
<1>0. Safe!TypeOK
  BY DEF VaultInv
<1>1. PICK new \in saving : /\ saving' = saving \ {new} /\ Safe!settingsKey
                            /\ disk' = Safe!SettingsSeal(new, Safe!KeyAfter)
                            /\ UNCHANGED <<oldKey, mem, state, boot, loaded, usable, forgetting, cleared>>
  BY DEF Safe!SealAnswered
<1>2. new \in Safe!Cred /\ BlankIn(new) \subseteq cleared
  BY <1>0 DEF Safe!TypeOK, VaultInv, BlanksAreMeant
<1>3. Safe!KeyAfter \in Safe!Keys
  BY <1>0, <1>1, KeyIs
<1> DEFINE blob == Safe!SettingsSeal(new, Safe!KeyAfter)
<1>4. /\ blob \in Safe!Cred /\ BlankIn(blob) \subseteq cleared
      /\ \A k \in DOMAIN blob : blob[k] = Missing \/ Safe!Sealed(blob[k])
  <2> DEFINE key == Safe!KeyAfter
  <2> HIDE DEF key
  <2>1. key \in Safe!Keys
    BY <1>3 DEF key
  <2>2. LET b == Safe!SettingsSeal(new, key) IN
          /\ b \in Safe!Cred /\ BlankIn(b) \subseteq cleared
          /\ \A k \in DOMAIN b : b[k] = Missing \/ Safe!Sealed(b[k])
    BY <1>2, <2>1, SealKeeps
  <2> QED BY <2>2 DEF key
<1>5. disk' = blob
  BY <1>1
<1> HIDE DEF blob
<1>6. Safe!TypeOK'
  BY <1>0, <1>1, <1>4, <1>5, KeyIs DEF Safe!TypeOK
<1>7. Safe!NeverStoredInClear'
  BY <1>4, <1>5 DEF Safe!NeverStoredInClear, Safe!Blank
<1>8. Safe!NothingSealedInUse' /\ FreshIsClear' /\ UnusableIsLocked'
  BY <1>1 DEF VaultInv, Safe!NothingSealedInUse, FreshIsClear, UnusableIsLocked, Safe!HasSealed
<1>9. BlanksAreMeant'
  BY <1>1 DEF VaultInv, BlanksAreMeant, BlankIn
<1>10. Safe!BlanksNothing
  BY <1>1, <1>4, <1>5 DEF Safe!BlanksNothing, Safe!Blank, BlankIn
<1> QED BY <1>6, <1>7, <1>8, <1>9, <1>10 DEF VaultInv

LEMMA DefaultsAre ==
  ASSUME VaultAssumption
  PROVE  Safe!Defaults \in Safe!Cred /\ BlankIn(Safe!Defaults) = {} /\ ~Safe!HasSealed(Safe!Defaults)
<1>1. Public \in Credentials
  BY DEF VaultAssumption
<1>2. Safe!Defaults \in [Fixed -> Safe!Values \cup {Missing}]
  BY <1>1, ClearIs DEF Safe!Defaults
<1>3. Safe!Defaults \in Safe!Cred
  BY <1>2, CredMade
<1> QED BY <1>1, <1>3, ClearIs DEF Safe!Defaults, BlankIn, Safe!HasSealed

\* A reset forgets the stored settings before the key, and both before the page.
LEMMA ResetVault ==
  ASSUME VaultAssumption, VaultInv, Safe!Reset \/ Safe!ForgetAnswered
  PROVE  VaultInv'
<1>0. Safe!TypeOK
  BY DEF VaultInv
<1>1. CASE Safe!Reset
  <2>1. /\ disk' = Missing /\ oldKey' = FALSE /\ forgetting' = TRUE
        /\ UNCHANGED <<keychain, osKey, made, cached, mem, state, boot, loaded, usable, saving, cleared>>
    BY <1>1 DEF Safe!Reset, Safe!os
  <2>2. Safe!TypeOK'
    BY <1>0, <2>1 DEF Safe!TypeOK
  <2>3. Safe!NeverStoredInClear' /\ Safe!NothingSealedInUse' /\ FreshIsClear' /\ UnusableIsLocked'
    BY <2>1 DEF VaultInv, Safe!NeverStoredInClear, Safe!NothingSealedInUse, FreshIsClear, UnusableIsLocked,
       Safe!HasSealed
  <2>4. BlanksAreMeant'
    BY <2>1 DEF VaultInv, BlanksAreMeant, BlankIn
  <2> QED BY <2>2, <2>3, <2>4 DEF VaultInv
<1>2. CASE Safe!ForgetAnswered
  <2>1. /\ forgetting' = FALSE /\ cleared' = Safe!Slots /\ cached' = Missing /\ osKey' \in {osKey, Missing}
        /\ UNCHANGED <<disk, oldKey, keychain, made, state, boot, loaded, usable, saving>>
        /\ mem' = Safe!Defaults
    BY <1>2 DEF Safe!ForgetAnswered, Safe!storage
  <2>2. mem' \in Safe!Cred /\ BlankIn(mem') = {} /\ ~Safe!HasSealed(mem')
    BY <2>1, DefaultsAre
  <2>3. Safe!TypeOK'
    BY <1>0, <2>1, <2>2 DEF Safe!TypeOK
  <2>4. Safe!NeverStoredInClear' /\ Safe!NothingSealedInUse' /\ FreshIsClear' /\ UnusableIsLocked'
    BY <2>1, <2>2 DEF VaultInv, Safe!NeverStoredInClear, Safe!NothingSealedInUse, FreshIsClear,
       UnusableIsLocked, Safe!HasSealed
  <2>5. BlanksAreMeant'
    <3>1. cleared \subseteq cleared'
      BY <1>0, <2>1 DEF Safe!TypeOK
    <3> QED BY <2>1, <2>2, <3>1 DEF VaultInv, BlanksAreMeant, BlankIn
  <2> QED BY <2>3, <2>4, <2>5 DEF VaultInv
<1> QED BY <1>1, <1>2

\* A page begins with the settings as they are stored.
LEMMA FreshVault ==
  ASSUME VaultAssumption, NEW blob \in Safe!Cred \cup {Missing}
  PROVE  LET first == IF blob = Missing THEN Safe!Defaults ELSE blob IN
         /\ first \in Safe!Cred
         /\ blob = Missing => ~Safe!HasSealed(first) /\ BlankIn(first) = {}
         /\ blob # Missing => BlankIn(first) = BlankIn(blob)
BY DefaultsAre

LEMMA RestartVault ==
  ASSUME VaultAssumption, VaultInv, Safe!Restart
  PROVE  VaultInv'
<1>0. Safe!TypeOK
  BY DEF VaultInv
<1>1. /\ UNCHANGED <<disk, oldKey, keychain, osKey, made>> /\ cached' = Missing
      /\ mem' = (IF disk = Missing THEN Safe!Defaults ELSE disk) /\ loaded' = disk /\ state' = "ok"
      /\ boot' = "status" /\ usable' = FALSE /\ saving' = {} /\ forgetting' = FALSE
      /\ cleared' = {k \in Safe!Slots : disk # Missing /\ k \in DOMAIN disk => disk[k] = Missing}
  BY DEF Safe!Restart, Safe!Start, Safe!storage, Safe!Blank
<1>2. disk \in Safe!Cred \cup {Missing}
  BY <1>0 DEF Safe!TypeOK
<1>3. /\ mem' \in Safe!Cred
      /\ disk = Missing => ~Safe!HasSealed(mem') /\ BlankIn(mem') = {}
      /\ disk # Missing => BlankIn(mem') = BlankIn(disk)
  BY <1>1, <1>2, FreshVault
<1>4. disk # Missing => BlankIn(disk) \subseteq cleared'
  BY <1>1, <1>2, CredHas DEF BlankIn, Safe!Slots
<1>5. Safe!TypeOK'
  BY <1>0, <1>1, <1>3 DEF Safe!TypeOK
<1>6. Safe!NeverStoredInClear' /\ Safe!NothingSealedInUse' /\ FreshIsClear' /\ UnusableIsLocked'
  BY <1>1, <1>3 DEF VaultInv, Safe!NeverStoredInClear, Safe!NothingSealedInUse, FreshIsClear,
     UnusableIsLocked, Safe!HasSealed
<1>7. BlanksAreMeant'
  BY <1>1, <1>3, <1>4 DEF BlanksAreMeant, BlankIn
<1> QED BY <1>5, <1>6, <1>7 DEF VaultInv

LEMMA StoredUnder ==
  ASSUME VaultAssumption, NEW s \in Credentials, NEW key \in Safe!Keys,
         disk = [k \in Safe!Slots |-> [secret |-> s, under |-> key]]
  PROVE  /\ disk \in Safe!Cred /\ disk # Missing /\ BlankIn(disk) = {}
         /\ \A k \in DOMAIN disk : Safe!Sealed(disk[k])
<1>1. [secret |-> s, under |-> key] \in Safe!Values
  BY DEF Safe!Values
<1>2. Safe!Sealed([secret |-> s, under |-> key])
  BY <1>1 DEF VaultAssumption, Safe!Sealed, Safe!Blank
<1>3. disk \in [Fixed \cup Keyed -> Safe!Values \cup {Missing}]
  BY <1>1 DEF Safe!Slots
<1>4. disk \in Safe!Cred
  BY <1>3, CredMade
<1> QED BY <1>2, <1>4 DEF VaultAssumption, BlankIn, Safe!Sealed, Safe!Blank

LEMMA InitVault == ASSUME VaultAssumption, Safe!Init PROVE VaultInv
<1>0. 0 \in Safe!Keys /\ 1 \in Safe!Keys /\ 1 \in 0..MaxKeys /\ 0 \in 0..MaxKeys
  BY DEF VaultAssumption, Safe!Keys
<1>1. PICK s \in Credentials :
        \/ disk = Missing /\ oldKey = FALSE /\ osKey = Missing
        \/ disk = [k \in Safe!Slots |-> [secret |-> s, under |-> 0]] /\ oldKey = TRUE /\ osKey = Missing
        \/ disk = [k \in Safe!Slots |-> [secret |-> s, under |-> 1]] /\ oldKey = FALSE /\ osKey = 1
  BY DEF Safe!Init, Safe!Legacy
<1>2. /\ disk \in Safe!Cred \cup {Missing} /\ oldKey \in BOOLEAN /\ osKey \in {Missing, 1}
      /\ disk # Missing => BlankIn(disk) = {} /\ \A k \in DOMAIN disk : Safe!Sealed(disk[k])
  BY <1>0, <1>1, StoredUnder
<1>3. /\ made \in {0, 1} /\ keychain \in {"open", "refuses", "absent"} /\ cached = Missing
      /\ mem = (IF disk = Missing THEN Safe!Defaults ELSE disk) /\ loaded = disk /\ state = "ok"
      /\ boot = "status" /\ usable = FALSE /\ saving = {} /\ forgetting = FALSE
      /\ cleared \subseteq Safe!Slots
  BY DEF Safe!Init
<1>4. /\ mem \in Safe!Cred /\ BlankIn(mem) = {}
      /\ disk = Missing => ~Safe!HasSealed(mem)
  BY <1>2, <1>3, DefaultsAre
<1>5. Safe!TypeOK
  BY <1>0, <1>2, <1>3, <1>4 DEF Safe!TypeOK
<1>6. Safe!NeverStoredInClear /\ Safe!NothingSealedInUse
  BY <1>2, <1>3 DEF Safe!NeverStoredInClear, Safe!NothingSealedInUse
<1>7. FreshIsClear /\ UnusableIsLocked /\ BlanksAreMeant
  BY <1>2, <1>3, <1>4 DEF FreshIsClear, UnusableIsLocked, BlanksAreMeant
<1> QED BY <1>5, <1>6, <1>7 DEF VaultInv

\* One step of the vault, and what it blanks in storage.
LEMMA StepVault ==
  ASSUME VaultAssumption, VaultInv, [Safe!Next]_(Safe!vars)
  PROVE  VaultInv' /\ Safe!BlanksNothing
<1>1. CASE Safe!refreshStatus \/ Safe!AdoptKey \/ Safe!DropLegacyKey
  <2>1. disk' = disk
    BY <1>1 DEF Safe!refreshStatus, Safe!AdoptKey, Safe!DropLegacyKey, Safe!storage
  <2> QED BY <1>1, <2>1, StartVault DEF Safe!BlanksNothing
<1>2. CASE Safe!NothingToOpen \/ Safe!OpenStored
  <2>1. disk' = disk
    BY <1>2 DEF Safe!NothingToOpen, Safe!OpenStored, Safe!storage
  <2> QED BY <1>2, <2>1, OpenVault DEF Safe!BlanksNothing
<1>3. CASE Safe!Save \/ Safe!SealAnswered
  BY <1>3, SaveVault, SealedVault
<1>4. CASE Safe!Reset \/ Safe!ForgetAnswered
  <2>1. disk' \in {disk, Missing}
    BY <1>4 DEF Safe!Reset, Safe!ForgetAnswered, Safe!storage
  <2> QED BY <1>4, <2>1, ResetVault DEF Safe!BlanksNothing
<1>5. CASE Safe!Restart
  <2>1. disk' = disk
    BY <1>5 DEF Safe!Restart, Safe!storage
  <2> QED BY <1>5, <2>1, RestartVault DEF Safe!BlanksNothing
<1>6. CASE Safe!SealFailed \/ Safe!Flip \/ UNCHANGED Safe!vars
  <2>1. /\ UNCHANGED <<disk, oldKey, osKey, made, cached, mem, state, boot, loaded, usable, forgetting, cleared>>
        /\ saving' \subseteq saving /\ keychain' \in {keychain, "open", "refuses"}
    BY <1>6 DEF Safe!SealFailed, Safe!Flip, Safe!vars, Safe!storage, Safe!os, Safe!page
  <2>2. Safe!TypeOK'
    BY <2>1 DEF VaultInv, Safe!TypeOK
  <2> QED BY <2>1, <2>2, RestVault DEF Safe!BlanksNothing
<1> QED BY <1>1, <1>2, <1>3, <1>4, <1>5, <1>6 DEF Safe!Next

LEMMA VaultAlways == ASSUME VaultAssumption PROVE Safe!Spec => []VaultInv
<1>1. Safe!Init => VaultInv
  BY InitVault
<1>2. VaultInv /\ [Safe!Next]_(Safe!vars) => VaultInv'
  BY StepVault
<1> QED BY <1>1, <1>2, PTL DEF Safe!Spec

\* Whatever failed on the way, no credential is stored in the clear: a save seals
\* before it stores, and one that has no key stores what was stored before
\* (settingsStore.js save, crypto.js encryptSettings).
THEOREM StoredSealed == ASSUME VaultAssumption PROVE Safe!Spec => []Safe!NeverStoredInClear
<1>1. VaultInv => Safe!NeverStoredInClear
  BY DEF VaultInv
<1> QED BY <1>1, VaultAlways, PTL

\* Once the start is over no sealed string is used for a credential, whichever key
\* the keychain holds by then (crypto.js decryptSettings, blankSealed).
THEOREM UsedOpen == ASSUME VaultAssumption PROVE Safe!Spec => []Safe!NothingSealedInUse
<1>1. VaultInv => Safe!NothingSealedInUse
  BY DEF VaultInv
<1> QED BY <1>1, VaultAlways, PTL

\* A stored credential becomes blank only where the operator left it blank, although
\* a locked start blanks its copy in memory and saves of it may follow, in any order
\* of their answers (crypto.js carryForward, encryptSettings).
THEOREM BlankedByTheOperator == ASSUME VaultAssumption PROVE Safe!Spec => Safe!NeverBlankedBehindYou
<1>1. VaultInv /\ [Safe!Next]_(Safe!vars) => [Safe!BlanksNothing]_(Safe!vars)
  BY StepVault
<1> QED BY <1>1, VaultAlways, PTL DEF Safe!Spec, Safe!NeverBlankedBehindYou

(***************************************************************************)
(* MibEditor: the text in the editor, and the drafts that keep it.         *)
(***************************************************************************)
Names   == Files \cup {Module}
Texts   == [of : Editor!Keys, v : 0..(MaxVersion + 1)]
Typings == [of : Editor!Keys, v : 0..MaxVersion]
Sources == [name : Names, external : BOOLEAN, content : Texts]
Ops     == {"draft", "drop", "analyse", "refuse", "flush", "read", "readDraft", "external", "restore", "fix",
            "save", "reload"}
Called  == [op : Ops, at : Editor!Keys \cup {None}, text : Texts \cup {None},
            next : Editor!Keys \cup Texts \cup {None}, n : Int]

\* One thing is opened or fixed at a time; an external file is filed under a key of its
\* own; what stands for no text and no file is none.
EditorAssumption ==
  /\ Waits /\ MaxVersion \in Nat
  /\ Module \notin Files /\ External \notin Names
  /\ None \notin Texts /\ None \notin Sources

There(name) == name \in Names /\ files[name] # None

\* What a call goes on with when it is answered.
CallTyped(c) ==
  /\ c \in Called
  /\ c.op \in {"draft", "drop"} => c.at \in Editor!Keys
  /\ c.op = "flush" => c.at \in Editor!Keys /\ There(c.next)
  /\ c.op = "refuse" => /\ c.at \in Names /\ c.text = None /\ ed.source # None
                        /\ c.next # External => There(c.next)
  /\ c.op = "read" => There(c.at)
  /\ c.op = "readDraft" => c.at \in Names /\ c.text \in Texts
  /\ c.op = "restore" => c.at \in Names
  /\ c.op = "save" => c.at \in Names /\ c.text \in Texts /\ ed.source # None
  /\ c.op = "fix" => c.text \in Texts /\ ed.source # None

EditorTyped ==
  /\ files \in [Names -> Texts \cup {None}] /\ drafts \in [Editor!Keys -> Texts \cup {None}]
  /\ ed \in [source : Sources \cup {None}, buffer : Texts \cup {None},
             diagnostics : Texts \cup {None}, outline : Texts \cup {None}]
  /\ ed.source # None => ed.buffer # None
  /\ timer \in [set : BOOLEAN, armed : BOOLEAN, key : Editor!Keys \cup {None}]
  /\ token \in Int /\ owed \in [Editor!Keys -> Typings \cup {None}] /\ crossed \subseteq Names
  /\ \A c \in asked : CallTyped(c)

OneOpening == \A c, d \in asked : c.op \in Editor!Opening /\ d.op \in Editor!Opening => c = d

\* A text is of the file it is kept for; one saved from outside keeps its own key.
Own(text, key) == text.of = key \/ (key = Module /\ text.of = External)

SourceOwn ==
  ed.source # None =>
    IF ed.source.external
      THEN ed.source.name = Module /\ ed.source.content.of = External /\ ed.buffer.of = External
      ELSE ed.source.name \notin crossed => /\ Own(ed.source.content, ed.source.name)
                                            /\ Own(ed.buffer, ed.source.name)

Carries == {"draft", "drop", "flush", "save", "readDraft"}

CallOwn(c) ==
  /\ c.op \in Carries /\ c.text # None /\ c.at \notin crossed => Own(c.text, c.at)
  /\ c.op = "fix" =>
       IF ed.source.external THEN c.text.of = External
       ELSE ed.source.name \notin crossed => Own(c.text, ed.source.name)

TextsOwn ==
  /\ \A k \in Editor!Keys \ crossed : drafts[k] # None => Own(drafts[k], k)
  /\ \A name \in Names \ crossed : files[name] # None => Own(files[name], name)
  /\ SourceOwn
  /\ \A c \in asked : CallOwn(c)

\* What was typed in a file of the directory.
OnDisk(k) == files[k] = owed[k]
Good(k, text) == text = owed[k] \/ (text = None /\ OnDisk(k))
Lands == {"draft", "drop", "flush"}
Kept(k) == Good(k, drafts[k]) /\ \A c \in asked : c.op \in Lands /\ c.at = k => Good(k, c.text)
OpenAt(k) == ed.source # None /\ Editor!draftKey(ed.source) = k
Leaving == {"refuse", "flush", "read", "readDraft", "external", "restore"}
Fresh == Editor!isDirty /\ timer.set /\ \A c \in asked : c.op \notin Leaving

CallKeeps(k, c) ==
  c.at = k =>
    /\ c.op = "readDraft" => (c.text = owed[k] <=> OnDisk(k))
    /\ c.op = "save" => c.text = owed[k] \/ (OpenAt(k) /\ Fresh)
    /\ c.op \notin {"refuse", "restore"}

WorkKept(k) ==
  /\ OpenAt(k) => /\ ed.buffer = owed[k] /\ (~Editor!isDirty => OnDisk(k))
                  /\ Kept(k) \/ Fresh
  /\ ~OpenAt(k) => Kept(k)
  /\ \A c \in asked : CallKeeps(k, c)

AllKept == \A k \in Files : owed[k] # None => WorkKept(k)

EditorInv == EditorTyped /\ OneOpening /\ TextsOwn /\ AllKept
-----------------------------------------------------------------------------
LEMMA SourceIs ==
  ASSUME EditorAssumption, EditorTyped, ed.source # None
  PROVE  /\ ed.source \in Sources /\ ed.source.name \in Names /\ ed.source.external \in BOOLEAN
         /\ ed.source.content \in Texts /\ ed.buffer \in Texts
         /\ Editor!draftKey(ed.source) \in Editor!Keys
         /\ \A k \in Files : OpenAt(k) <=> ~ed.source.external /\ ed.source.name = k
<1>1. ed.source \in Sources /\ ed.buffer \in Texts
  BY DEF EditorTyped
<1>2. ed.source.name \in Names /\ ed.source.external \in BOOLEAN /\ ed.source.content \in Texts
  BY <1>1 DEF Sources
<1> QED BY <1>1, <1>2 DEF EditorAssumption, OpenAt, Editor!draftKey, Editor!Keys, Names

\* A step that leaves the texts in the editor and in the files, asks and settles calls,
\* keeps or drops drafts, and may give up what was typed.
LEMMA EditorMoves ==
  ASSUME EditorAssumption, EditorInv, UNCHANGED <<files, crossed>>,
         ed'.source = ed.source, ed'.buffer = ed.buffer,
         ed' \in [source : Sources \cup {None}, buffer : Texts \cup {None},
                  diagnostics : Texts \cup {None}, outline : Texts \cup {None}],
         timer' \in [set : BOOLEAN, armed : BOOLEAN, key : Editor!Keys \cup {None}],
         token' \in Int, owed' \in [Editor!Keys -> Typings \cup {None}],
         drafts' \in [Editor!Keys -> Texts \cup {None}],
         \A k \in Editor!Keys \ crossed : drafts'[k] \in {None, drafts[k]} \/ Own(drafts'[k], k),
         NEW More, asked' \subseteq asked \cup More, OneOpening',
         \A c \in More : CallTyped(c) /\ CallOwn(c),
         \A k \in Files : owed'[k] # None =>
           /\ owed'[k] = owed[k] /\ (Kept(k) => Good(k, drafts'[k]))
           /\ OpenAt(k) /\ Fresh => Fresh'
           /\ \A c \in More : CallKeeps(k, c) /\ (c.op \in Lands /\ c.at = k => Good(k, c.text))
  PROVE  EditorInv'
<1>1. EditorTyped'
  <2>1. \A c : CallTyped(c) => CallTyped(c)'
    BY DEF CallTyped, There
  <2> QED BY <2>1 DEF EditorInv, EditorTyped
<1>2. TextsOwn'
  <2>1. \A c : CallOwn(c) => CallOwn(c)'
    BY DEF CallOwn
  <2>2. SourceOwn'
    BY DEF EditorInv, TextsOwn, SourceOwn
  <2>3. \A k \in Editor!Keys \ crossed : drafts'[k] # None => Own(drafts'[k], k)
    BY DEF EditorInv, TextsOwn
  <2> QED BY <2>1, <2>2, <2>3 DEF EditorInv, TextsOwn, Own
<1>3. AllKept'
  <2> SUFFICES ASSUME NEW k \in Files, owed'[k] # None PROVE WorkKept(k)'
    BY DEF AllKept
  <2>1. owed'[k] = owed[k] /\ WorkKept(k)
    BY DEF EditorInv, AllKept
  <2>2. \A text : Good(k, text) => Good(k, text)'
    BY <2>1 DEF Good, OnDisk
  <2>3. OpenAt(k)' <=> OpenAt(k)
    BY DEF OpenAt, Editor!draftKey
  <2>4. OnDisk(k)' <=> OnDisk(k)
    BY <2>1 DEF OnDisk
  <2>5. Editor!isDirty' <=> Editor!isDirty
    BY DEF Editor!isDirty
  <2>8. OpenAt(k) /\ Fresh => Fresh'
    OBVIOUS
  <2>6. \A c : CallKeeps(k, c) => CallKeeps(k, c)'
    BY <2>1, <2>3, <2>4, <2>8 DEF CallKeeps
  <2>7. Kept(k) => Kept(k)'
    BY <2>2 DEF Kept, Good
  <2> QED BY <2>1, <2>3, <2>4, <2>5, <2>6, <2>7, <2>8 DEF WorkKept
<1> QED BY <1>1, <1>2, <1>3 DEF EditorInv
\* What is kept of the buffer is of the file that is open, and is what was typed there
\* unless it is in the file as well.
LEMMA LandsWell ==
  ASSUME EditorAssumption, EditorInv, ed.source # None, NEW c, c.op \in Lands,
         c.at = Editor!draftKey(ed.source), c.text = IF Editor!isDirty THEN ed.buffer ELSE None
  PROVE  /\ CallOwn(c)
         /\ \A k \in Files : owed[k] # None => CallKeeps(k, c) /\ (c.at = k => Good(k, c.text))
<1>1. EditorTyped /\ SourceOwn
  BY DEF EditorInv, TextsOwn
<1>2. CallOwn(c)
  BY <1>1, SourceIs DEF CallOwn, SourceOwn, Own, Lands, Editor!draftKey
<1>3. ASSUME NEW k \in Files, owed[k] # None
      PROVE  CallKeeps(k, c) /\ (c.at = k => Good(k, c.text))
  <2>1. WorkKept(k)
    BY <1>3 DEF EditorInv, AllKept
  <2>2. CallKeeps(k, c)
    BY DEF CallKeeps, Lands
  <2>3. c.at = k => OpenAt(k)
    BY DEF OpenAt
  <2> QED BY <2>1, <2>2, <2>3 DEF WorkKept, Good
<1> QED BY <1>2, <1>3

\* What is pending for the file being left is settled, or the next one is read.
LEMMA OpensWell ==
  ASSUME EditorAssumption, EditorInv, NEW name, There(name), NEW cs, Editor!FlushThenOpen(name, cs)
  PROVE  /\ timer' = Editor!NoTimer /\ token' \in Int
         /\ \E new : /\ asked' = cs \cup {new} /\ new.op \in {"flush", "read"}
                     /\ CallTyped(new) /\ CallOwn(new)
                     /\ \A k \in Files : owed[k] # None =>
                          CallKeeps(k, new) /\ (new.op \in Lands /\ new.at = k => Good(k, new.text))
<1>1. EditorTyped /\ token \in Int /\ name \in Editor!Keys
  BY DEF EditorInv, EditorTyped, There, Names, Editor!Keys
<1>2. CASE timer.set /\ ed.source # None
  <2> DEFINE key == Editor!draftKey(ed.source)
             new == [Editor!Keep(key, ed.buffer) EXCEPT !.op = "flush", !.next = name]
  <2>1. timer' = Editor!NoTimer /\ token' = token /\ asked' = cs \cup {new}
    BY <1>2 DEF Editor!FlushThenOpen
  <2>2. key \in Editor!Keys /\ ed.buffer \in Texts
    BY <1>1, <1>2, SourceIs
  <2> DEFINE text == IF Editor!isDirty THEN ed.buffer ELSE None
             keeping == Editor!Keep(key, ed.buffer)
  <2>8. /\ keeping \in Called /\ keeping.at = key /\ keeping.text = text
    <3>1. CASE Editor!isDirty
      BY <2>2, <3>1 DEF Editor!Keep, Editor!Call, Called, Ops
    <3>2. CASE ~Editor!isDirty
      BY <2>2, <3>2 DEF Editor!Keep, Editor!Call, Called, Ops
    <3> QED BY <3>1, <3>2
  <2> HIDE DEF keeping
  <2>3. /\ new \in Called /\ new.op = "flush" /\ new.at = key /\ new.text = text /\ new.next = name
    BY <1>1, <2>8 DEF keeping, Called, Ops
  <2>7. text \in Texts \cup {None}
    BY <2>2
  <2>5. new.op = "flush" /\ new.at = key /\ new.text = IF Editor!isDirty THEN ed.buffer ELSE None
    BY <2>3
  <2> HIDE DEF new, key, text
  <2>4. CallTyped(new)
    BY <1>1, <2>2, <2>3, <2>7 DEF CallTyped, Called, Ops
  <2>6. /\ CallOwn(new)
        /\ \A k \in Files : owed[k] # None => CallKeeps(k, new) /\ (new.at = k => Good(k, new.text))
    BY <1>2, <2>5, LandsWell DEF Lands, key
  <2> QED BY <1>1, <2>1, <2>4, <2>5, <2>6
<1>3. CASE ~(timer.set /\ ed.source # None)
  <2> DEFINE new == [Editor!Call("read", name, None, None) EXCEPT !.n = token + 1]
  <2>1. timer' = Editor!NoTimer /\ token' = token + 1 /\ asked' = cs \cup {new}
    BY <1>3 DEF Editor!FlushThenOpen, Editor!Read
  <2>2. new = [op |-> "read", at |-> name, text |-> None, next |-> None, n |-> token + 1]
    BY DEF Editor!Call
  <2> HIDE DEF new
  <2>3. CallTyped(new) /\ CallOwn(new) /\ new.op = "read" /\ \A k \in Files : CallKeeps(k, new)
    BY <1>1, <2>2 DEF CallTyped, Called, Ops, CallOwn, CallKeeps, Carries
  <2> QED BY <1>1, <2>1, <2>3 DEF Lands
<1> QED BY <1>2, <1>3
LEMMA DraftMoves == ASSUME EditorAssumption, EditorInv, Editor!scheduleDraft PROVE EditorInv'
<1>0. EditorTyped
  BY DEF EditorInv
<1>1. /\ UNCHANGED <<files, drafts, ed, token, owed, crossed>> /\ timer' = [timer EXCEPT !.armed = FALSE]
      /\ \/ asked' = asked
         \/ /\ ed.source # None /\ Editor!draftKey(ed.source) = timer.key
            /\ asked' = asked \cup {Editor!Keep(timer.key, ed.buffer)}
  BY DEF Editor!scheduleDraft, Editor!Cleared, Editor!ledger
<1>2. /\ timer' \in [set : BOOLEAN, armed : BOOLEAN, key : Editor!Keys \cup {None}]
      /\ timer'.set = timer.set
  BY <1>0, <1>1 DEF EditorTyped
<1> DEFINE More == asked' \ asked
<1>3. /\ asked' = asked \cup More
      /\ \A c \in More : /\ ed.source # None /\ c = Editor!Keep(timer.key, ed.buffer)
                         /\ Editor!draftKey(ed.source) = timer.key
  BY <1>1
<1> HIDE DEF More
<1>4. ASSUME NEW c \in More
      PROVE  /\ CallTyped(c) /\ CallOwn(c) /\ c.op \in {"draft", "drop"}
             /\ \A k \in Files : owed[k] # None => CallKeeps(k, c) /\ (c.at = k => Good(k, c.text))
  <2> DEFINE key == Editor!draftKey(ed.source)
  <2>1. key \in Editor!Keys /\ ed.buffer \in Texts
    BY <1>0, <1>3, <1>4, SourceIs
  <2>2. c = Editor!Keep(key, ed.buffer)
    BY <1>3, <1>4
  <2>3. /\ c \in Called /\ c.at = key /\ c.op \in {"draft", "drop"}
        /\ c.text = IF Editor!isDirty THEN ed.buffer ELSE None
    <3> HIDE DEF key
    <3>1. CASE Editor!isDirty
      BY <2>1, <2>2, <3>1 DEF Editor!Keep, Editor!Call, Called, Ops
    <3>2. CASE ~Editor!isDirty
      BY <2>1, <2>2, <3>2 DEF Editor!Keep, Editor!Call, Called, Ops
    <3> QED BY <3>1, <3>2
  <2>4. ed.source # None
    BY <1>3, <1>4
  <2>5. /\ CallOwn(c)
        /\ \A k \in Files : owed[k] # None => CallKeeps(k, c) /\ (c.at = k => Good(k, c.text))
    BY <2>3, <2>4, LandsWell DEF Lands
  <2>6. CallTyped(c)
    BY <2>1, <2>3 DEF CallTyped
  <2> QED BY <2>3, <2>5, <2>6
<1>5. OneOpening'
  BY <1>3, <1>4 DEF EditorInv, OneOpening, Editor!Opening
<1>6. Fresh => Fresh'
  BY <1>1, <1>2, <1>3, <1>4 DEF Fresh, Leaving, Editor!isDirty
<1>7. \A k : owed'[k] = owed[k] /\ drafts'[k] = drafts[k] /\ (Kept(k) => Good(k, drafts[k]))
  BY <1>1 DEF Kept
<1> QED BY <1>0, <1>1, <1>2, <1>3, <1>4, <1>5, <1>6, <1>7, EditorMoves DEF EditorTyped

\* The checks of the text, and what is read again after a save.
LEMMA CheckMoves ==
  ASSUME EditorAssumption, EditorInv,
         Editor!scheduleRefresh \/ Editor!refresh \/ Editor!ReloadAnswered \/ UNCHANGED Editor!vars
  PROVE  EditorInv'
<1>0. EditorTyped
  BY DEF EditorInv
<1>1. UNCHANGED <<files, drafts, timer, token, owed, crossed>>
  BY DEF Editor!scheduleRefresh, Editor!refresh, Editor!ReloadAnswered, Editor!ledger, Editor!vars,
         Editor!editor
<1>2. /\ ed' \in [source : Sources \cup {None}, buffer : Texts \cup {None},
                  diagnostics : Texts \cup {None}, outline : Texts \cup {None}]
      /\ ed'.source = ed.source /\ ed'.buffer = ed.buffer
  <2>1. ed' = ed \/ \E c \in asked : ed' = [ed EXCEPT !.diagnostics = c.text, !.outline = c.text]
    BY DEF Editor!scheduleRefresh, Editor!refresh, Editor!ReloadAnswered, Editor!vars, Editor!editor
  <2>2. \A c \in asked : c.text \in Texts \cup {None}
    BY <1>0 DEF EditorTyped, CallTyped, Called
  <2> QED BY <1>0, <2>1, <2>2 DEF EditorTyped
<1> DEFINE new == Editor!Call("analyse", None, ed.buffer, None)
<1>3. asked' \subseteq asked \cup {new}
  BY DEF Editor!scheduleRefresh, Editor!refresh, Editor!ReloadAnswered, Editor!vars
<1>4. CallTyped(new) /\ CallOwn(new) /\ new.op = "analyse" /\ \A k \in Files : CallKeeps(k, new)
  <2>1. ed.buffer \in Texts \cup {None}
    BY <1>0 DEF EditorTyped
  <2>2. new \in Called /\ new.op = "analyse"
    BY <2>1 DEF Editor!Call, Called, Ops
  <2> HIDE DEF new
  <2> QED BY <2>2 DEF CallTyped, CallOwn, CallKeeps, Carries
<1> HIDE DEF new
<1>5. OneOpening'
  BY <1>3, <1>4 DEF EditorInv, OneOpening, Editor!Opening
<1>6. Fresh => Fresh'
  BY <1>1, <1>2, <1>3, <1>4 DEF Fresh, Leaving, Editor!isDirty
<1>7. \A k : owed'[k] = owed[k] /\ drafts'[k] = drafts[k] /\ (Kept(k) => Good(k, drafts[k]))
  BY <1>1 DEF Kept
<1> DEFINE More == {new}
<1>8. /\ asked' \subseteq asked \cup More
      /\ \A c \in More : /\ CallTyped(c) /\ CallOwn(c)
                         /\ \A k \in Files : CallKeeps(k, c) /\ c.op \notin Lands
  BY <1>3, <1>4 DEF Lands
<1> HIDE DEF More
<1> QED BY <1>0, <1>1, <1>2, <1>5, <1>6, <1>7, <1>8, EditorMoves DEF EditorTyped
\* A draft that is kept or dropped.
LEMMA DraftLands ==
  ASSUME EditorAssumption, EditorInv, NEW c \in asked, c.op \in Lands,
         drafts' = [drafts EXCEPT ![c.at] = c.text]
  PROVE  /\ drafts' \in [Editor!Keys -> Texts \cup {None}]
         /\ \A k \in Editor!Keys \ crossed : drafts'[k] \in {None, drafts[k]} \/ Own(drafts'[k], k)
         /\ \A k \in Files : Kept(k) => Good(k, drafts'[k])
<1>1. EditorTyped /\ CallTyped(c) /\ CallOwn(c)
  BY DEF EditorInv, EditorTyped, TextsOwn
<1>2. c.at \in Editor!Keys /\ c.text \in Texts \cup {None}
  BY <1>1 DEF CallTyped, Called, Lands
<1>3. drafts' \in [Editor!Keys -> Texts \cup {None}]
  BY <1>1, <1>2 DEF EditorTyped
<1>4. ASSUME NEW k \in Editor!Keys
      PROVE  drafts'[k] = IF k = c.at THEN c.text ELSE drafts[k]
  BY <1>1, <1>2 DEF EditorTyped
<1>5. \A k \in Editor!Keys \ crossed : drafts'[k] \in {None, drafts[k]} \/ Own(drafts'[k], k)
  BY <1>1, <1>4 DEF CallOwn, Carries, Lands
<1>6. \A k \in Files : Kept(k) => Good(k, drafts'[k])
  BY <1>4 DEF Kept, Editor!Keys
<1> QED BY <1>3, <1>5, <1>6

LEMMA KeptMoves == ASSUME EditorAssumption, EditorInv, Editor!DraftKept PROVE EditorInv'
<1>0. EditorTyped
  BY DEF EditorInv
<1>1. PICK c \in asked : /\ c.op \in {"draft", "drop"} /\ asked' = asked \ {c}
                         /\ drafts' = [drafts EXCEPT ![c.at] = c.text]
                         /\ UNCHANGED <<files, ed, timer, token, owed, crossed>>
  BY DEF Editor!DraftKept, Editor!ledger
<1> DEFINE More == {}
<1>2. asked' \subseteq asked \cup More /\ \A d \in More : CallTyped(d) /\ CallOwn(d)
  BY <1>1
<1>3. OneOpening' /\ (Fresh => Fresh')
  BY <1>1 DEF EditorInv, OneOpening, Fresh, Editor!isDirty
<1>4. \A k \in Files : owed'[k] = owed[k]
  BY <1>1
<1>5. \A k \in Files, d \in More : CallKeeps(k, d) /\ d.op \notin Lands
  OBVIOUS
<1> HIDE DEF More
<1> QED BY <1>0, <1>1, <1>2, <1>3, <1>4, <1>5, DraftLands, EditorMoves DEF EditorTyped, Lands

LEMMA FlushMoves == ASSUME EditorAssumption, EditorInv, Editor!FlushAnswered PROVE EditorInv'
<1>0. EditorTyped
  BY DEF EditorInv
<1> DEFINE new(c) == [Editor!Call("read", c.next, None, None) EXCEPT !.n = token + 1]
<1>1. PICK c \in asked : /\ c.op = "flush" /\ asked' = (asked \ {c}) \cup {new(c)} /\ token' = token + 1
                         /\ drafts' = [drafts EXCEPT ![c.at] = c.text]
                         /\ UNCHANGED <<files, ed, timer, owed, crossed>>
  BY DEF Editor!FlushAnswered, Editor!Read, Editor!ledger
<1>2. There(c.next) /\ c.next \in Editor!Keys
  BY <1>0, <1>1 DEF EditorTyped, CallTyped, There, Names, Editor!Keys
<1>3. /\ new(c) \in Called /\ new(c).op = "read" /\ new(c).at = c.next
  BY <1>0, <1>2 DEF EditorTyped, Editor!Call, Called, Ops
<1> DEFINE More == {new(c)}
<1> HIDE DEF new
<1>4. asked' \subseteq asked \cup More /\ \A d \in More : CallTyped(d) /\ CallOwn(d)
  BY <1>1, <1>2, <1>3 DEF CallTyped, CallOwn, Carries
<1>5. \A k \in Files, d \in More : CallKeeps(k, d) /\ d.op \notin Lands
  BY <1>3 DEF CallKeeps, Lands
<1>6. OneOpening' /\ ~Fresh
  BY <1>1, <1>3 DEF EditorInv, OneOpening, Editor!Opening, Fresh, Leaving
<1>7. token' \in Int /\ \A k \in Files : owed'[k] = owed[k]
  BY <1>0, <1>1 DEF EditorTyped
<1>8. /\ drafts' \in [Editor!Keys -> Texts \cup {None}]
      /\ \A k \in Editor!Keys \ crossed : drafts'[k] \in {None, drafts[k]} \/ Own(drafts'[k], k)
      /\ \A k \in Files : Kept(k) => Good(k, drafts'[k])
  BY <1>1, DraftLands DEF Lands
<1> HIDE DEF More
<1> QED BY <1>0, <1>1, <1>4, <1>5, <1>6, <1>7, <1>8, EditorMoves DEF EditorTyped

LEMMA ReadMoves == ASSUME EditorAssumption, EditorInv, Editor!ReadAnswered PROVE EditorInv'
<1>0. EditorTyped
  BY DEF EditorInv
<1> DEFINE new(c) == [c EXCEPT !.op = "readDraft", !.text = files[c.at]]
<1>1. PICK c \in asked : /\ c.op = "read" /\ asked' \in {asked \ {c}, (asked \ {c}) \cup {new(c)}}
                         /\ UNCHANGED <<files, drafts, ed, timer, token, owed, crossed>>
  BY DEF Editor!ReadAnswered, Editor!ledger
<1>2. There(c.at) /\ c \in Called /\ files[c.at] \in Texts
  BY <1>0, <1>1 DEF EditorTyped, CallTyped, There
<1>3. /\ new(c) \in Called /\ new(c).op = "readDraft" /\ new(c).at = c.at /\ new(c).text = files[c.at]
  BY <1>2 DEF Called, Ops
<1> DEFINE More == {new(c)}
<1> HIDE DEF new
<1>4. asked' \subseteq asked \cup More /\ \A d \in More : CallTyped(d) /\ CallOwn(d)
  BY <1>1, <1>2, <1>3 DEF CallTyped, CallOwn, Carries, EditorInv, TextsOwn, There
<1>5. \A k \in Files, d \in More : CallKeeps(k, d) /\ d.op \notin Lands
  BY <1>3 DEF CallKeeps, Lands, OnDisk
<1>6. OneOpening' /\ ~Fresh
  BY <1>1, <1>3 DEF EditorInv, OneOpening, Editor!Opening, Fresh, Leaving
<1>7. \A k : owed'[k] = owed[k] /\ drafts'[k] = drafts[k] /\ (Kept(k) => Good(k, drafts[k]))
  BY <1>1 DEF Kept
<1> HIDE DEF More
<1> QED BY <1>0, <1>1, <1>4, <1>5, <1>6, <1>7, EditorMoves DEF EditorTyped
\* Nothing else is under way when the operator asks for something.
LEMMA AsksAlone ==
  ASSUME EditorAssumption, Editor!Asks
  PROVE  \A c \in asked : c.op \notin Editor!Opening
BY DEF EditorAssumption, Editor!Asks, Editor!Busy

\* Changes that the operator agrees to lose.
LEMMA DiscardMoves ==
  ASSUME EditorAssumption, EditorInv, NEW next, next = External \/ There(next),
         Editor!Asks, Editor!Discarding(next), UNCHANGED <<files, drafts, ed>>
  PROVE  EditorInv'
<1>0. EditorTyped /\ ed.source # None
  BY DEF EditorInv, Editor!Discarding, Editor!isDirty
<1> DEFINE key == Editor!draftKey(ed.source)
           new == Editor!Call("refuse", ed.source.name, None, next)
<1>1. /\ asked' = asked \cup {new} /\ timer' = [timer EXCEPT !.armed = FALSE]
      /\ owed' = [owed EXCEPT ![key] = None] /\ UNCHANGED <<token, crossed>>
  BY DEF Editor!Discarding, Editor!Cleared
<1>2. ed.source.name \in Names /\ key \in Editor!Keys /\ next \in Editor!Keys
  BY <1>0, SourceIs DEF There, Names, Editor!Keys
<1>3. new \in Called /\ new.op = "refuse" /\ new.at = ed.source.name /\ new.text = None /\ new.next = next
  BY <1>2 DEF Editor!Call, Called, Ops, Names, Editor!Keys
<1> DEFINE More == {new}
<1> HIDE DEF new
<1>4. asked' \subseteq asked \cup More /\ \A d \in More : CallTyped(d) /\ CallOwn(d)
  BY <1>0, <1>1, <1>2, <1>3 DEF CallTyped, CallOwn, Carries
<1>5. /\ owed' \in [Editor!Keys -> Typings \cup {None}]
      /\ \A k \in Editor!Keys : owed'[k] = IF k = key THEN None ELSE owed[k]
  BY <1>0, <1>1, <1>2 DEF EditorTyped
<1>6. ASSUME NEW k \in Files, owed'[k] # None
      PROVE  /\ owed'[k] = owed[k] /\ ~OpenAt(k) /\ (Kept(k) => Good(k, drafts'[k]))
             /\ \A d \in More : CallKeeps(k, d) /\ d.op \notin Lands
  <2>1. k # key /\ owed'[k] = owed[k]
    BY <1>5, <1>6 DEF Editor!Keys
  <2>2. ~OpenAt(k)
    BY <2>1 DEF OpenAt
  <2>3. k # ed.source.name
    BY <1>0, <2>2, SourceIs DEF OpenAt, Editor!draftKey, EditorAssumption, EditorInv, TextsOwn, SourceOwn
  <2> QED BY <1>3, <2>1, <2>2, <2>3 DEF CallKeeps, Lands, Kept
<1>7. OneOpening'
  BY <1>1, <1>3, AsksAlone DEF OneOpening
<1>8. timer' \in [set : BOOLEAN, armed : BOOLEAN, key : Editor!Keys \cup {None}]
  BY <1>0, <1>1 DEF EditorTyped
<1> HIDE DEF More, key
<1> QED BY <1>0, <1>1, <1>4, <1>5, <1>6, <1>7, <1>8, EditorMoves DEF EditorTyped

\* The next file, of the directory or from outside.
LEMMA OpenMoves ==
  ASSUME EditorAssumption, EditorInv, Editor!open \/ Editor!openExternal
  PROVE  EditorInv'
<1>0. EditorTyped
  BY DEF EditorInv
<1>1. UNCHANGED <<files, drafts, ed>> /\ Editor!Asks
  BY DEF Editor!open, Editor!openExternal
<1>2. CASE \E name \in Names : There(name) /\ Editor!Discarding(name)
  BY <1>1, <1>2, DiscardMoves
<1>3. CASE Editor!Discarding(External)
  BY <1>1, <1>3, DiscardMoves
<1>4. CASE \E name \in Names : There(name) /\ ~Editor!isDirty /\ Editor!FlushThenOpen(name, asked)
                               /\ UNCHANGED <<owed, crossed>>
  <2>1. PICK name \in Names : There(name) /\ ~Editor!isDirty /\ Editor!FlushThenOpen(name, asked)
                              /\ UNCHANGED <<owed, crossed>>
    BY <1>4
  <2>2. PICK new : /\ asked' = asked \cup {new} /\ new.op \in {"flush", "read"}
                   /\ CallTyped(new) /\ CallOwn(new)
                   /\ \A k \in Files : owed[k] # None =>
                        CallKeeps(k, new) /\ (new.op \in Lands /\ new.at = k => Good(k, new.text))
    BY <2>1, OpensWell
  <2>3. timer' = Editor!NoTimer /\ token' \in Int
    BY <2>1, OpensWell
  <2>4. timer' \in [set : BOOLEAN, armed : BOOLEAN, key : Editor!Keys \cup {None}]
    BY <2>3 DEF Editor!NoTimer
  <2> DEFINE More == {new}
  <2>5. /\ asked' \subseteq asked \cup More /\ \A d \in More : CallTyped(d) /\ CallOwn(d)
        /\ \A k \in Files, d \in More : owed[k] # None =>
             CallKeeps(k, d) /\ (d.op \in Lands /\ d.at = k => Good(k, d.text))
    BY <2>2
  <2>6. OneOpening' /\ ~Fresh
    BY <1>1, <2>1, <2>2, AsksAlone DEF OneOpening, Fresh
  <2>7. \A k : owed'[k] = owed[k] /\ drafts'[k] = drafts[k] /\ (Kept(k) => Good(k, drafts[k]))
    BY <1>1, <2>1 DEF Kept
  <2> HIDE DEF More
  <2> QED BY <1>0, <1>1, <2>1, <2>3, <2>4, <2>5, <2>6, <2>7, EditorMoves DEF EditorTyped
<1>5. CASE /\ ~Editor!isDirty /\ asked' = asked \cup {Editor!Call("external", None, None, None)}
           /\ UNCHANGED <<timer, token, owed, crossed>>
  <2> DEFINE new == Editor!Call("external", None, None, None)
             More == {new}
  <2>1. new \in Called /\ new.op = "external"
    BY DEF Editor!Call, Called, Ops
  <2> HIDE DEF new
  <2>2. /\ asked' \subseteq asked \cup More
        /\ \A d \in More : /\ CallTyped(d) /\ CallOwn(d)
                           /\ \A k \in Files : CallKeeps(k, d) /\ d.op \notin Lands
    BY <1>5, <2>1 DEF new, CallTyped, CallOwn, CallKeeps, Carries, Lands
  <2>3. OneOpening' /\ ~Fresh
    BY <1>1, <1>5, <2>1, AsksAlone DEF new, OneOpening, Fresh
  <2>4. \A k : owed'[k] = owed[k] /\ drafts'[k] = drafts[k] /\ (Kept(k) => Good(k, drafts[k]))
    BY <1>1, <1>5 DEF Kept
  <2> HIDE DEF More
  <2> QED BY <1>0, <1>1, <1>5, <2>2, <2>3, <2>4, EditorMoves DEF EditorTyped
<1> QED BY <1>2, <1>3, <1>4, <1>5 DEF Editor!open, Editor!openExternal, Editor!ledger, There, Names
LEMMA DiscardedMoves == ASSUME EditorAssumption, EditorInv, Editor!DiscardAnswered PROVE EditorInv'
<1>0. EditorTyped
  BY DEF EditorInv
<1>1. PICK c \in asked :
        /\ c.op = "refuse" /\ drafts' = [drafts EXCEPT ![c.at] = None]
        /\ IF c.next = External
             THEN /\ asked' = (asked \ {c}) \cup {Editor!Call("external", None, None, None)}
                  /\ UNCHANGED <<timer, token>>
             ELSE Editor!FlushThenOpen(c.next, asked \ {c})
        /\ UNCHANGED <<files, ed, owed, crossed>>
  BY DEF Editor!DiscardAnswered, Editor!ledger
<1>2. /\ c.at \in Names /\ c.at \in Editor!Keys
      /\ c.next # External => There(c.next)
  BY <1>0, <1>1 DEF EditorTyped, CallTyped, Names, Editor!Keys
<1>3. PICK new : /\ asked' = (asked \ {c}) \cup {new} /\ new.op \in {"flush", "read", "external"}
                 /\ CallTyped(new) /\ CallOwn(new)
                 /\ \A k \in Files : owed[k] # None =>
                      CallKeeps(k, new) /\ (new.op \in Lands /\ new.at = k => Good(k, new.text))
  <2>1. CASE c.next = External
    <3> DEFINE new == Editor!Call("external", None, None, None)
    <3>1. new \in Called /\ new.op = "external"
      BY DEF Editor!Call, Called, Ops
    <3>2. asked' = (asked \ {c}) \cup {new}
      BY <1>1, <2>1
    <3> HIDE DEF new
    <3>3. CallTyped(new) /\ CallOwn(new) /\ \A k \in Files : CallKeeps(k, new)
      BY <3>1 DEF CallTyped, CallOwn, CallKeeps, Carries
    <3> QED BY <3>1, <3>2, <3>3 DEF Lands
  <2>2. CASE c.next # External
    BY <1>1, <1>2, <2>2, OpensWell
  <2> QED BY <2>1, <2>2
<1>4. token' \in Int /\ timer' \in [set : BOOLEAN, armed : BOOLEAN, key : Editor!Keys \cup {None}]
  <2>1. CASE c.next = External
    BY <1>0, <1>1, <2>1 DEF EditorTyped
  <2>2. CASE c.next # External
    <3>1. timer' = Editor!NoTimer /\ token' \in Int
      BY <1>1, <1>2, <2>2, OpensWell
    <3> QED BY <3>1 DEF Editor!NoTimer
  <2> QED BY <2>1, <2>2
<1>5. /\ drafts' \in [Editor!Keys -> Texts \cup {None}]
      /\ \A k \in Editor!Keys : drafts'[k] = IF k = c.at THEN None ELSE drafts[k]
  BY <1>0, <1>1, <1>2 DEF EditorTyped
<1>6. ASSUME NEW k \in Files, owed'[k] # None
      PROVE  owed'[k] = owed[k] /\ (Kept(k) => Good(k, drafts'[k])) /\ ~Fresh
  <2>1. WorkKept(k) /\ owed'[k] = owed[k]
    BY <1>1, <1>6 DEF EditorInv, AllKept
  <2>2. k # c.at
    BY <1>1, <2>1 DEF WorkKept, CallKeeps
  <2>3. ~Fresh
    BY <1>1 DEF Fresh, Leaving
  <2> QED BY <1>5, <2>1, <2>2, <2>3 DEF Kept, Editor!Keys
<1> DEFINE More == {new}
<1>7. /\ asked' \subseteq asked \cup More /\ \A d \in More : CallTyped(d) /\ CallOwn(d)
      /\ \A k \in Files, d \in More : owed[k] # None =>
           CallKeeps(k, d) /\ (d.op \in Lands /\ d.at = k => Good(k, d.text))
  BY <1>3
<1>8. OneOpening'
  BY <1>1, <1>3 DEF EditorInv, OneOpening, Editor!Opening
<1> HIDE DEF More
<1> QED BY <1>0, <1>1, <1>4, <1>5, <1>6, <1>7, <1>8, EditorMoves DEF EditorTyped

\* What ships is asked for: what was typed in that file is given up.
LEMMA RestoreMoves == ASSUME EditorAssumption, EditorInv, Editor!restoreBundled PROVE EditorInv'
<1>0. EditorTyped
  BY DEF EditorInv
<1> DEFINE new == Editor!Call("restore", ed.source.name, None, None)
<1>1. /\ Editor!Asks /\ ed.source # None /\ ~ed.source.external /\ asked' = asked \cup {new}
      /\ owed' = [owed EXCEPT ![ed.source.name] = None]
      /\ UNCHANGED <<files, drafts, ed, timer, token, crossed>>
  BY DEF Editor!restoreBundled, Editor!GivenUp
<1>2. ed.source.name \in Names /\ ed.source.name \in Editor!Keys
  BY <1>0, <1>1, SourceIs DEF Names, Editor!Keys
<1>3. new \in Called /\ new.op = "restore" /\ new.at = ed.source.name
  BY <1>2 DEF Editor!Call, Called, Ops
<1> DEFINE More == {new}
<1> HIDE DEF new
<1>4. asked' \subseteq asked \cup More /\ \A d \in More : CallTyped(d) /\ CallOwn(d)
  BY <1>1, <1>2, <1>3 DEF CallTyped, CallOwn, Carries
<1>5. /\ owed' \in [Editor!Keys -> Typings \cup {None}]
      /\ \A k \in Editor!Keys : owed'[k] = IF k = ed.source.name THEN None ELSE owed[k]
  BY <1>0, <1>1, <1>2 DEF EditorTyped
<1>6. ASSUME NEW k \in Files, owed'[k] # None
      PROVE  /\ owed'[k] = owed[k] /\ ~OpenAt(k) /\ (Kept(k) => Good(k, drafts'[k]))
             /\ \A d \in More : CallKeeps(k, d) /\ d.op \notin Lands
  <2>1. k # ed.source.name /\ owed'[k] = owed[k]
    BY <1>5, <1>6 DEF Editor!Keys
  <2>2. ~OpenAt(k)
    BY <1>1, <2>1 DEF OpenAt, Editor!draftKey
  <2> QED BY <1>1, <1>3, <2>1, <2>2 DEF CallKeeps, Lands, Kept
<1>7. OneOpening'
  BY <1>1, <1>3, AsksAlone DEF OneOpening
<1> HIDE DEF More
<1> QED BY <1>0, <1>1, <1>4, <1>5, <1>6, <1>7, EditorMoves DEF EditorTyped
\* What is sent to be saved is of the file it is saved as, and is what was typed there.
LEMMA SavesWell ==
  ASSUME EditorAssumption, EditorInv, ed.source # None, NEW cs, NEW force \in BOOLEAN,
         Editor!SaveAs(force, cs)
  PROVE  \E new : /\ asked' = cs \cup {new} /\ new.op = "save" /\ CallTyped(new) /\ CallOwn(new)
                  /\ \A k \in Files : owed[k] # None => CallKeeps(k, new)
<1>0. EditorTyped /\ SourceOwn
  BY DEF EditorInv, TextsOwn
<1> DEFINE plain == Editor!Call("save", ed.source.name, ed.buffer, ed.source.content)
           new == [plain EXCEPT !.n = IF force THEN 1 ELSE 0]
<1>1. asked' = cs \cup {new}
  BY DEF Editor!SaveAs
<1>2. /\ ed.source.name \in Names /\ ed.source.name \in Editor!Keys /\ ed.buffer \in Texts
      /\ ed.source.content \in Texts
  BY <1>0, SourceIs DEF Names, Editor!Keys
<1>3. /\ plain \in Called /\ plain.op = "save" /\ plain.at = ed.source.name /\ plain.text = ed.buffer
  BY <1>2 DEF Editor!Call, Called, Ops
<1> HIDE DEF plain
<1>4. /\ new \in Called /\ new.op = "save" /\ new.at = ed.source.name /\ new.text = ed.buffer
  BY <1>3 DEF Called
<1> HIDE DEF new
<1>5. CallTyped(new)
  BY <1>2, <1>4 DEF CallTyped
<1>6. CallOwn(new)
  BY <1>0, <1>2, <1>4 DEF CallOwn, SourceOwn, Own
<1>7. ASSUME NEW k \in Files, owed[k] # None
      PROVE  CallKeeps(k, new)
  <2>1. WorkKept(k)
    BY <1>7 DEF EditorInv, AllKept
  <2>2. k = ed.source.name => OpenAt(k)
    BY <1>0, SourceIs DEF SourceOwn, EditorAssumption
  <2> QED BY <1>4, <2>1, <2>2 DEF WorkKept, CallKeeps
<1> QED BY <1>1, <1>4, <1>5, <1>6, <1>7

\* A save that is sent, or that does not come about.
SaveRefused(c) ==
  /\ c \in asked /\ c.op = "save"
  /\ asked' = asked \ {c} \/ Editor!SaveAs(TRUE, asked \ {c})
  /\ UNCHANGED <<files, drafts, ed, timer, token, owed, crossed>>

LEMMA SaveMoves ==
  ASSUME EditorAssumption, EditorInv, Editor!save \/ \E c \in asked : SaveRefused(c)
  PROVE  EditorInv'
<1>0. EditorTyped
  BY DEF EditorInv
<1>1. /\ UNCHANGED <<files, drafts, ed, timer, token, owed, crossed>> /\ ed.source # None
      /\ \/ asked' \subseteq asked
         \/ \E cs \in SUBSET asked, force \in BOOLEAN : Editor!SaveAs(force, cs)
  BY <1>0 DEF Editor!save, SaveRefused, Editor!ledger, EditorTyped, CallTyped
<1> DEFINE More == asked' \ asked
<1>2. /\ asked' \subseteq asked \cup More
      /\ \A new \in More : /\ new.op = "save" /\ CallTyped(new) /\ CallOwn(new)
                           /\ \A k \in Files : owed[k] # None => CallKeeps(k, new)
  <2>1. CASE asked' \subseteq asked
    BY <2>1
  <2>2. CASE \E cs \in SUBSET asked, force \in BOOLEAN : Editor!SaveAs(force, cs)
    <3>1. PICK cs \in SUBSET asked, force \in BOOLEAN : Editor!SaveAs(force, cs)
      BY <2>2
    <3>2. PICK new : /\ asked' = cs \cup {new} /\ new.op = "save" /\ CallTyped(new) /\ CallOwn(new)
                     /\ \A k \in Files : owed[k] # None => CallKeeps(k, new)
      BY <1>1, <3>1, SavesWell
    <3> QED BY <3>2
  <2> QED BY <1>1, <2>1, <2>2
<1> HIDE DEF More
<1>3. OneOpening' /\ (Fresh => Fresh')
  BY <1>1, <1>2 DEF EditorInv, OneOpening, Editor!Opening, Fresh, Leaving, Editor!isDirty
<1>4. \A k : owed'[k] = owed[k] /\ drafts'[k] = drafts[k] /\ (Kept(k) => Good(k, drafts[k]))
  BY <1>1 DEF Kept
<1> QED BY <1>0, <1>1, <1>2, <1>3, <1>4, EditorMoves DEF EditorTyped, Lands

\* The repair of a text is asked for, or fails; the file dialog is cancelled; another file
\* was asked for since.
CallDropped ==
  \E c \in asked : /\ c.op \in {"fix", "external", "readDraft"} /\ asked' = asked \ {c}
                   /\ UNCHANGED <<files, drafts, ed, timer, token, owed, crossed>>

LEMMA FixMoves ==
  ASSUME EditorAssumption, EditorInv, Editor!fixImports \/ CallDropped
  PROVE  EditorInv'
<1>0. EditorTyped /\ SourceOwn
  BY DEF EditorInv, TextsOwn
<1>1. UNCHANGED <<files, drafts, ed, timer, token, owed, crossed>>
  BY DEF Editor!fixImports, CallDropped, Editor!ledger
<1> DEFINE More == asked' \ asked
<1>2. /\ asked' \subseteq asked \cup More
      /\ \A new \in More : /\ ed.source # None /\ new = Editor!Call("fix", None, ed.buffer, None)
                           /\ \A c \in asked : c.op \notin Editor!Opening
  BY AsksAlone DEF Editor!fixImports, CallDropped
<1> HIDE DEF More
<1>3. ASSUME NEW new \in More
      PROVE  new \in Called /\ new.op = "fix" /\ new.text = ed.buffer /\ ed.buffer \in Texts
  <2>1. ed.buffer \in Texts /\ new = Editor!Call("fix", None, ed.buffer, None)
    BY <1>0, <1>2, <1>3, SourceIs
  <2> QED BY <2>1 DEF Editor!Call, Called, Ops
<1>4. ASSUME NEW new \in More
      PROVE  /\ CallTyped(new) /\ CallOwn(new)
             /\ \A k \in Files : CallKeeps(k, new) /\ new.op \notin Lands
  BY <1>0, <1>2, <1>3, <1>4 DEF CallTyped, CallOwn, CallKeeps, Carries, Lands, SourceOwn, Own
<1>5. OneOpening'
  BY <1>2, <1>3 DEF EditorInv, OneOpening
<1>6. Fresh => Fresh'
  BY <1>1, <1>2, <1>3 DEF Fresh, Leaving, Editor!isDirty
<1>7. \A k : owed'[k] = owed[k] /\ drafts'[k] = drafts[k] /\ (Kept(k) => Good(k, drafts[k]))
  BY <1>1 DEF Kept
<1> QED BY <1>0, <1>1, <1>2, <1>4, <1>5, <1>6, <1>7, EditorMoves DEF EditorTyped
-----------------------------------------------------------------------------
\* The buffer of the file that is open becomes another text of it: what was typed is
\* new, or given up.
LEMMA EditorTypes ==
  ASSUME EditorAssumption, EditorInv, EditorTyped', OneOpening', SourceOwn',
         UNCHANGED <<files, drafts, crossed>>, ed.source # None, ed'.source = ed.source,
         NEW More, asked' \subseteq asked \cup More,
         \A c \in More : c.op = "drop" /\ c.at = Editor!draftKey(ed.source) /\ c.text = None,
         \A k \in Files : ~OpenAt(k) => owed'[k] = owed[k],
         \A k \in Files : OpenAt(k) /\ owed'[k] # None => ed'.buffer = owed'[k] /\ Fresh'
  PROVE  EditorInv'
<1>1. \A k : OpenAt(k)' <=> OpenAt(k)
  BY DEF OpenAt, Editor!draftKey
<1>2. TextsOwn'
  <2>1. \A c \in asked : CallOwn(c)'
    BY DEF EditorInv, TextsOwn, CallOwn
  <2>2. \A c \in More : CallOwn(c)'
    BY DEF CallOwn
  <2> QED BY <2>1, <2>2 DEF EditorInv, TextsOwn
<1>3. AllKept'
  <2> SUFFICES ASSUME NEW k \in Files, owed'[k] # None PROVE WorkKept(k)'
    BY DEF AllKept
  <2>1. CASE OpenAt(k)
    <3>1. ed'.buffer = owed'[k] /\ Fresh' /\ Editor!isDirty' /\ \A c \in asked' : c.op \notin Leaving
      BY <2>1 DEF Fresh
    <3> QED BY <1>1, <2>1, <3>1 DEF WorkKept, CallKeeps, Leaving
  <2>2. CASE ~OpenAt(k)
    <3>1. owed'[k] = owed[k] /\ WorkKept(k) /\ Kept(k)
      BY <2>2 DEF EditorInv, AllKept, WorkKept
    <3>2. \A text : Good(k, text)' <=> Good(k, text)
      BY <3>1 DEF Good, OnDisk
    <3>3. \A c \in More : c.at # k
      BY <2>2 DEF OpenAt
    <3>4. Kept(k)'
      BY <3>1, <3>2, <3>3 DEF Kept, Good, OnDisk
    <3>5. \A c \in asked' : CallKeeps(k, c)'
      BY <1>1, <2>2, <3>1, <3>3 DEF WorkKept, CallKeeps, OnDisk
    <3> QED BY <1>1, <2>2, <3>4, <3>5 DEF WorkKept
  <2> QED BY <2>1, <2>2
<1> QED BY <1>2, <1>3 DEF EditorInv

\* The text of another file is shown, with what was typed there; what was typed in the
\* one that was open is in its draft or in the file.
LEMMA EditorShows ==
  ASSUME EditorAssumption, EditorInv, EditorTyped', SourceOwn', UNCHANGED <<drafts, owed, crossed>>,
         NEW c \in asked, c.op \in Leaving,
         NEW More, asked' \subseteq (asked \ {c}) \cup More,
         \A d \in More : d.op \in {"analyse", "drop"} /\ (d.op = "drop" => d.text = None),
         \A name \in Names \ crossed : files'[name] # None => Own(files'[name], name),
         \A k \in Files : owed[k] # None =>
           /\ files'[k] = files[k] /\ \A d \in More : d.op = "drop" => d.at # k
           /\ OpenAt(k)' => ed'.buffer = owed[k] /\ (~Editor!isDirty' => OnDisk(k))
  PROVE  EditorInv'
<1>1. \A d \in asked' : d.op \notin Editor!Opening
  BY DEF EditorInv, OneOpening, Editor!Opening, Leaving
<1>2. OneOpening'
  BY <1>1 DEF OneOpening
<1>3. TextsOwn'
  <2>1. \A d \in asked' : CallOwn(d)'
    BY <1>1 DEF EditorInv, TextsOwn, CallOwn, Carries, Editor!Opening
  <2>2. \A k \in Editor!Keys \ crossed : drafts'[k] # None => Own(drafts'[k], k)
    BY DEF EditorInv, TextsOwn
  <2> QED BY <2>1, <2>2 DEF TextsOwn, Own
<1>4. AllKept'
  <2> SUFFICES ASSUME NEW k \in Files, owed'[k] # None PROVE WorkKept(k)'
    BY DEF AllKept
  <2>1. WorkKept(k) /\ ~Fresh
    BY DEF EditorInv, AllKept, Fresh
  <2>2. Kept(k) /\ \A text : Good(k, text)' <=> Good(k, text)
    BY <2>1 DEF WorkKept, Good, OnDisk
  <2>3. Kept(k)'
    BY <2>2 DEF Kept, Good, OnDisk, Lands
  <2>4. \A d \in asked' : CallKeeps(k, d)'
    BY <1>1, <2>1 DEF WorkKept, CallKeeps, Editor!Opening
  <2>5. OpenAt(k)' => ed'.buffer = owed'[k] /\ (~Editor!isDirty' => OnDisk(k)')
    BY DEF OnDisk
  <2> QED BY <2>3, <2>4, <2>5 DEF WorkKept
<1> QED BY <1>2, <1>3, <1>4 DEF EditorInv
\* Typing, by hand or by the repair of the imports.
LEMMA TypingKeeps ==
  ASSUME EditorAssumption, EditorInv, ed.source # None, NEW text \in Texts,
         Editor!setBuffer(text), asked' \subseteq asked,
         UNCHANGED <<files, drafts, token, crossed>>,
         IF ed.source.external THEN text.of = External
         ELSE ed.source.name \notin crossed => Own(text, ed.source.name),
         NEW typed \in Typings \cup {None}, owed' = [owed EXCEPT ![Editor!draftKey(ed.source)] = typed],
         typed # None =>
           typed = text /\ text # ed.source.content /\ \A c \in asked : c.op \notin Editor!Opening
  PROVE  EditorInv'
<1>0. EditorTyped /\ SourceOwn
  BY DEF EditorInv, TextsOwn
<1> DEFINE key == Editor!draftKey(ed.source)
<1>1. key \in Editor!Keys /\ ed.source \in Sources
  BY <1>0, SourceIs
<1>2. /\ ed' = [ed EXCEPT !.buffer = text] /\ timer' = [set |-> TRUE, armed |-> TRUE, key |-> key]
  BY DEF Editor!setBuffer
<1>3. ed'.source = ed.source /\ ed'.buffer = text
  BY <1>0, <1>2 DEF EditorTyped
<1>4. \A k \in Editor!Keys : owed'[k] = IF k = key THEN typed ELSE owed[k]
  BY <1>0, <1>1 DEF EditorTyped
<1>5. EditorTyped'
  <2>1. \A c \in asked' : CallTyped(c)'
    BY <1>0, <1>3 DEF EditorTyped, CallTyped, There
  <2>2. ed' \in [source : Sources \cup {None}, buffer : Texts \cup {None},
                 diagnostics : Texts \cup {None}, outline : Texts \cup {None}]
    BY <1>0, <1>2 DEF EditorTyped
  <2>3. timer' \in [set : BOOLEAN, armed : BOOLEAN, key : Editor!Keys \cup {None}]
    BY <1>1, <1>2
  <2>4. owed' \in [Editor!Keys -> Typings \cup {None}]
    BY <1>0 DEF EditorTyped
  <2> QED BY <1>0, <1>3, <2>1, <2>2, <2>3, <2>4 DEF EditorTyped, EditorAssumption
<1>6. OneOpening'
  BY DEF EditorInv, OneOpening
<1>7. SourceOwn'
  BY <1>0, <1>3 DEF SourceOwn, Own
<1>8. \A k \in Files : ~OpenAt(k) => owed'[k] = owed[k]
  BY <1>4 DEF OpenAt, Editor!Keys
<1>9. ASSUME NEW k \in Files, OpenAt(k), owed'[k] # None
      PROVE  ed'.buffer = owed'[k] /\ Fresh'
  <2>1. owed'[k] = typed
    BY <1>4, <1>9 DEF OpenAt, Editor!Keys
  <2>2. typed = text /\ text # ed.source.content /\ \A c \in asked : c.op \notin Editor!Opening
    BY <1>9, <2>1
  <2>3. Fresh'
    BY <1>2, <1>3, <2>2 DEF Fresh, Editor!isDirty, Leaving, Editor!Opening
  <2> QED BY <1>3, <2>1, <2>2, <2>3
<1> DEFINE More == {}
<1>10. asked' \subseteq asked \cup More
  OBVIOUS
<1>11. \A c \in More : c.op = "drop" /\ c.at = Editor!draftKey(ed.source) /\ c.text = None
  OBVIOUS
<1> HIDE DEF More, key
<1> QED BY <1>3, <1>5, <1>6, <1>7, <1>8, <1>9, <1>10, <1>11, EditorTypes

LEMMA InputKeeps == ASSUME EditorAssumption, EditorInv, Editor!onInput PROVE EditorInv'
<1>0. EditorTyped /\ SourceOwn
  BY DEF EditorInv, TextsOwn
<1>1. PICK v \in 0..MaxVersion :
        LET text == Editor!Text(ed.buffer.of, v)
            k    == Editor!draftKey(ed.source)
        IN /\ ed.source # None /\ text # ed.buffer /\ Editor!setBuffer(text)
           /\ owed' = [owed EXCEPT ![k] = IF Editor!Busy \/ text = ed.source.content THEN None ELSE text]
           /\ UNCHANGED <<files, drafts, token, asked, crossed>>
  BY DEF Editor!onInput
<1> DEFINE text == Editor!Text(ed.buffer.of, v)
           typed == IF Editor!Busy \/ text = ed.source.content THEN None ELSE text
<1>2. ed.buffer \in Texts
  BY <1>0, <1>1, SourceIs
<1>3. text \in Typings /\ text \in Texts /\ text.of = ed.buffer.of
  BY <1>2 DEF EditorAssumption, Texts, Typings, Editor!Text
<1>4. /\ typed \in Typings \cup {None}
      /\ typed # None => /\ typed = text /\ text # ed.source.content
                         /\ \A c \in asked : c.op \notin Editor!Opening
  BY <1>3 DEF Editor!Busy
<1>5. /\ Editor!setBuffer(text) /\ owed' = [owed EXCEPT ![Editor!draftKey(ed.source)] = typed]
      /\ ed.source # None /\ UNCHANGED <<files, drafts, token, asked, crossed>>
  BY <1>1
<1> HIDE DEF text, typed
<1>6. IF ed.source.external THEN text.of = External
      ELSE ed.source.name \notin crossed => Own(text, ed.source.name)
  BY <1>0, <1>3, <1>5 DEF SourceOwn, Own
<1> QED BY <1>3, <1>4, <1>5, <1>6, TypingKeeps

LEMMA FixKeeps == ASSUME EditorAssumption, EditorInv, Editor!FixAnswered PROVE EditorInv'
<1>0. EditorTyped
  BY DEF EditorInv
<1>1. CASE CallDropped
  BY <1>1, FixMoves
<1>2. CASE \E c \in asked :
             /\ c.op = "fix" /\ asked' = asked \ {c}
             /\ Editor!setBuffer(Editor!Text(c.text.of, MaxVersion))
             /\ owed' = [owed EXCEPT ![Editor!draftKey(ed.source)] = None]
             /\ UNCHANGED <<files, drafts, token, crossed>>
  <2>1. PICK c \in asked :
             /\ c.op = "fix" /\ asked' = asked \ {c}
             /\ Editor!setBuffer(Editor!Text(c.text.of, MaxVersion))
             /\ owed' = [owed EXCEPT ![Editor!draftKey(ed.source)] = None]
             /\ UNCHANGED <<files, drafts, token, crossed>>
    BY <1>2
  <2> DEFINE text == Editor!Text(c.text.of, MaxVersion)
  <2>2. ed.source # None /\ c.text \in Texts /\ CallOwn(c)
    BY <1>0, <2>1 DEF EditorTyped, CallTyped, EditorInv, TextsOwn
  <2>3. text \in Texts /\ text.of = c.text.of
    BY <2>2 DEF EditorAssumption, Texts, Editor!Text
  <2>4. IF ed.source.external THEN text.of = External
        ELSE ed.source.name \notin crossed => Own(text, ed.source.name)
    BY <2>1, <2>2, <2>3 DEF CallOwn, Own
  <2>5. Editor!setBuffer(text)
    BY <2>1
  <2> HIDE DEF text
  <2> DEFINE typed == None
  <2>6. typed \in Typings \cup {None} /\ owed' = [owed EXCEPT ![Editor!draftKey(ed.source)] = typed]
    BY <2>1
  <2>7. typed = None
    OBVIOUS
  <2> HIDE DEF typed
  <2> QED BY <2>1, <2>2, <2>3, <2>4, <2>5, <2>6, <2>7, TypingKeeps
<1> QED BY <1>1, <1>2 DEF Editor!FixAnswered, CallDropped

LEMMA RevertKeeps == ASSUME EditorAssumption, EditorInv, Editor!revert PROVE EditorInv'
<1>0. EditorTyped /\ SourceOwn /\ ed.source # None
  BY DEF EditorInv, TextsOwn, Editor!revert, Editor!isDirty
<1> DEFINE key == Editor!draftKey(ed.source)
           new == Editor!Call("drop", key, None, None)
           More == {new}
<1>1. /\ ed' = [ed EXCEPT !.buffer = ed.source.content, !.diagnostics = ed.source.content]
      /\ timer' = [timer EXCEPT !.armed = FALSE] /\ asked' = asked \cup {new}
      /\ owed' = [owed EXCEPT ![key] = None] /\ UNCHANGED <<files, drafts, token, crossed>>
  BY DEF Editor!revert, Editor!GivenUp, Editor!Cleared
<1>2. key \in Editor!Keys /\ ed.source.content \in Texts
  BY <1>0, SourceIs
<1>3. ed'.source = ed.source /\ ed'.buffer = ed.source.content
  BY <1>0, <1>1 DEF EditorTyped
<1>4. new \in Called /\ new.op = "drop" /\ new.at = key /\ new.text = None
  BY <1>2 DEF Editor!Call, Called, Ops
<1>5. \A k \in Editor!Keys : owed'[k] = IF k = key THEN None ELSE owed[k]
  BY <1>0, <1>1, <1>2 DEF EditorTyped
<1> HIDE DEF new
<1>6. EditorTyped'
  <2>1. \A c \in asked' : CallTyped(c)'
    BY <1>0, <1>1, <1>2, <1>3, <1>4 DEF EditorTyped, CallTyped, There
  <2>2. ed' \in [source : Sources \cup {None}, buffer : Texts \cup {None},
                 diagnostics : Texts \cup {None}, outline : Texts \cup {None}]
    BY <1>0, <1>1, <1>2 DEF EditorTyped
  <2>3. timer' \in [set : BOOLEAN, armed : BOOLEAN, key : Editor!Keys \cup {None}]
    BY <1>0, <1>1 DEF EditorTyped
  <2>4. owed' \in [Editor!Keys -> Typings \cup {None}]
    BY <1>0, <1>1 DEF EditorTyped
  <2> QED BY <1>0, <1>1, <1>2, <1>3, <2>1, <2>2, <2>3, <2>4 DEF EditorTyped, EditorAssumption
<1>7. OneOpening'
  BY <1>1, <1>4 DEF EditorInv, OneOpening, Editor!Opening
<1>8. SourceOwn'
  BY <1>0, <1>1, <1>3 DEF SourceOwn, Own
<1>9. \A k \in Files : ~OpenAt(k) => owed'[k] = owed[k]
  BY <1>0, <1>5 DEF OpenAt, Editor!Keys
<1>10. \A k \in Files : OpenAt(k) => owed'[k] = None
  BY <1>5 DEF OpenAt, Editor!Keys
<1>11. /\ asked' \subseteq asked \cup More
       /\ \A c \in More : c.op = "drop" /\ c.at = Editor!draftKey(ed.source) /\ c.text = None
  BY <1>1, <1>4
<1> HIDE DEF More, key
<1> QED BY <1>0, <1>1, <1>3, <1>6, <1>7, <1>8, <1>9, <1>10, <1>11, EditorTypes
LEMMA ShownIs ==
  ASSUME EditorAssumption, NEW source \in Sources, NEW buffer \in Texts, Editor!Show(source, buffer)
  PROVE  /\ ed'.source = source /\ ed'.buffer = buffer /\ ed'.source # None /\ ed'.buffer # None
         /\ ed' \in [source : Sources \cup {None}, buffer : Texts \cup {None},
                     diagnostics : Texts \cup {None}, outline : Texts \cup {None}]
<1>1. source.content \in Texts
  BY DEF Sources
<1>2. ed' = [source |-> source, buffer |-> buffer, diagnostics |-> source.content, outline |-> None]
  BY DEF Editor!Show
<1> QED BY <1>1, <1>2 DEF EditorAssumption

LEMMA DraftShows == ASSUME EditorAssumption, EditorInv, Editor!DraftAnswered PROVE EditorInv'
<1>0. EditorTyped
  BY DEF EditorInv
<1>1. CASE CallDropped
  BY <1>1, FixMoves
<1> DEFINE buffer(c) == IF drafts[c.at] # None THEN drafts[c.at] ELSE c.text
           source(c) == [name |-> c.at, external |-> FALSE, content |-> c.text]
           new(c) == Editor!Call("analyse", None, buffer(c), None)
<1>2. CASE \E c \in asked : /\ c.op = "readDraft" /\ Editor!Show(source(c), buffer(c))
                            /\ asked' = (asked \ {c}) \cup {new(c)}
                            /\ UNCHANGED <<files, drafts, timer, token, owed, crossed>>
  <2>1. PICK c \in asked : /\ c.op = "readDraft" /\ Editor!Show(source(c), buffer(c))
                           /\ asked' = (asked \ {c}) \cup {new(c)}
                           /\ UNCHANGED <<files, drafts, timer, token, owed, crossed>>
    BY <1>2
  <2> DEFINE src == source(c)
             buf == buffer(c)
  <2>2. c.at \in Names /\ c.at \in Editor!Keys /\ c.text \in Texts /\ CallOwn(c)
    BY <1>0, <2>1 DEF EditorInv, EditorTyped, TextsOwn, CallTyped, Names, Editor!Keys
  <2>3. buf \in Texts /\ src \in Sources /\ src.name = c.at /\ ~src.external /\ src.content = c.text
    BY <1>0, <2>2 DEF EditorTyped, Sources
  <2>4. c.at \notin crossed => Own(c.text, c.at) /\ Own(buf, c.at)
    BY <1>0, <2>1, <2>2 DEF CallOwn, Carries, EditorAssumption, EditorInv, TextsOwn
  <2>5. /\ ed'.source = src /\ ed'.buffer = buf /\ ed'.source # None /\ ed'.buffer # None
        /\ ed' \in [source : Sources \cup {None}, buffer : Texts \cup {None},
                    diagnostics : Texts \cup {None}, outline : Texts \cup {None}]
    <3> HIDE DEF src, buf
    <3>1. Editor!Show(src, buf)
      BY <2>1 DEF src, buf
    <3> QED BY <2>3, <3>1, ShownIs
  <2>12. new(c) \in Called /\ new(c).op = "analyse"
    BY <2>3 DEF Editor!Call, Called, Ops
  <2>6. PICK call \in Called : call = new(c) /\ call.op = "analyse"
    BY <2>12
  <2> DEFINE More == {call}
  <2> HIDE DEF new
  <2>7. EditorTyped'
    <3>1. CallTyped(call)'
      BY <2>6 DEF CallTyped
    <3> HIDE DEF src, buf
    <3>2. \A d \in asked : CallTyped(d)'
      BY <1>0, <2>1, <2>5 DEF EditorTyped, CallTyped, There
    <3> QED BY <1>0, <2>1, <2>5, <2>6, <3>1, <3>2 DEF EditorTyped
  <2>8. SourceOwn'
    <3> HIDE DEF src, buf
    <3> QED BY <2>1, <2>3, <2>4, <2>5 DEF SourceOwn, Own
  <2>9. \A k \in Files : owed[k] # None /\ OpenAt(k)' =>
          ed'.buffer = owed[k] /\ (~Editor!isDirty' => OnDisk(k))
    <3> SUFFICES ASSUME NEW k \in Files, owed[k] # None, OpenAt(k)'
                 PROVE  ed'.buffer = owed[k] /\ (~Editor!isDirty' => OnDisk(k))
      OBVIOUS
    <3>1. WorkKept(k) /\ ~Fresh
      BY <2>1 DEF EditorInv, AllKept, Fresh, Leaving
    <3>2. k = c.at
      <4> HIDE DEF src, buf
      <4> QED BY <2>3, <2>5 DEF OpenAt, Editor!draftKey
    <3>3. Good(k, drafts[k]) /\ (c.text = owed[k] <=> OnDisk(k))
      BY <2>1, <3>1, <3>2 DEF WorkKept, Kept, CallKeeps
    <3>4. buf = owed[k]
      BY <3>2, <3>3 DEF Good
    <3>5. ~Editor!isDirty' => buf = c.text
      <4> HIDE DEF src, buf
      <4> QED BY <2>3, <2>5 DEF Editor!isDirty
    <3> QED BY <2>5, <3>3, <3>4, <3>5
  <2>10. /\ asked' \subseteq (asked \ {c}) \cup More
         /\ \A d \in More : d.op = "analyse"
    BY <2>1, <2>6
  <2>11. /\ \A name \in Names \ crossed : files'[name] # None => Own(files'[name], name)
         /\ \A k \in Files : files'[k] = files[k]
    BY <2>1 DEF EditorInv, TextsOwn
  <2> HIDE DEF More, src, buf
  <2> QED BY <2>1, <2>7, <2>8, <2>9, <2>10, <2>11, EditorShows DEF Leaving
<1> QED BY <1>1, <1>2 DEF Editor!DraftAnswered, CallDropped, Editor!ledger, Editor!Analyse
\* A source the caller has is shown as it is, and a draft of it dropped.
LEMMA SourceShows ==
  ASSUME EditorAssumption, EditorInv, NEW c \in asked, c.op \in {"external", "restore"},
         NEW source \in Sources, Editor!openSource(source, asked \ {c}),
         UNCHANGED <<drafts, owed, crossed>>, files' \in [Names -> Texts \cup {None}],
         IF source.external THEN source.name = Module /\ source.content.of = External
         ELSE source.name \notin crossed => Own(source.content, source.name),
         \A name \in Names : files[name] # None => files'[name] # None,
         \A name \in Names \ crossed : files'[name] # None => Own(files'[name], name),
         \A k \in Files : owed[k] # None => files'[k] = files[k] /\ k # Editor!draftKey(source)
  PROVE  EditorInv'
<1>0. EditorTyped
  BY DEF EditorInv
<1> DEFINE key == Editor!draftKey(source)
           a == Editor!Call("analyse", None, source.content, None)
           b == Editor!Call("drop", key, None, None)
<1>1. /\ token' = token + 1 /\ timer' = [timer EXCEPT !.armed = FALSE]
      /\ Editor!Show(source, source.content) /\ asked' = (asked \ {c}) \cup {a, b}
  BY DEF Editor!openSource, Editor!Cleared, Editor!Analyse
<1>2. source.content \in Texts /\ source.name \in Names /\ source.external \in BOOLEAN
  BY DEF Sources
<1>3. key \in Editor!Keys
  BY <1>2 DEF Editor!draftKey, Editor!Keys, Names
<1>4. /\ ed'.source = source /\ ed'.buffer = source.content /\ ed'.source # None /\ ed'.buffer # None
      /\ ed' \in [source : Sources \cup {None}, buffer : Texts \cup {None},
                  diagnostics : Texts \cup {None}, outline : Texts \cup {None}]
  BY <1>1, <1>2, ShownIs
<1>5. /\ a \in Called /\ a.op = "analyse"
      /\ b \in Called /\ b.op = "drop" /\ b.at = key /\ b.text = None
  BY <1>2, <1>3 DEF Editor!Call, Called, Ops
<1> HIDE DEF a, b, key
<1>6. EditorTyped'
  <2>1. \A d \in asked' : CallTyped(d)'
    <3>1. \A d \in asked : CallTyped(d)'
      BY <1>0, <1>4 DEF EditorTyped, CallTyped, There
    <3>2. \A d \in Called : /\ d.op = "analyse" => CallTyped(d)'
                            /\ d.op = "drop" /\ d.at \in Editor!Keys => CallTyped(d)'
      BY DEF CallTyped
    <3> QED BY <1>1, <1>3, <1>5, <3>1, <3>2
  <2>2. timer' \in [set : BOOLEAN, armed : BOOLEAN, key : Editor!Keys \cup {None}]
    BY <1>0, <1>1 DEF EditorTyped
  <2> QED BY <1>0, <1>1, <1>4, <2>1, <2>2 DEF EditorTyped
<1>7. SourceOwn'
  BY <1>2, <1>4 DEF SourceOwn, Own
<1>8. \A k \in Files : owed[k] # None => ~OpenAt(k)'
  BY <1>4 DEF OpenAt, Editor!draftKey
<1> DEFINE More == {a, b}
<1>9. /\ asked' \subseteq (asked \ {c}) \cup More
      /\ \A d \in More : d.op \in {"analyse", "drop"} /\ (d.op = "drop" => d.text = None /\ d.at = key)
  BY <1>1, <1>5
<1>10. \A k \in Files : owed[k] # None => files'[k] = files[k] /\ k # key
  BY DEF key
<1> HIDE DEF More
<1> QED BY <1>6, <1>7, <1>8, <1>9, <1>10, EditorShows DEF Leaving

LEMMA ExternalShows == ASSUME EditorAssumption, EditorInv, Editor!ExternalAnswered PROVE EditorInv'
<1>0. EditorTyped
  BY DEF EditorInv
<1> DEFINE source == [name |-> Module, external |-> TRUE, content |-> Editor!Text(External, 0)]
<1>1. CASE CallDropped
  BY <1>1, FixMoves
<1>2. CASE \E c \in asked : /\ c.op = "external" /\ Editor!openSource(source, asked \ {c})
                            /\ UNCHANGED <<files, drafts, owed, crossed>>
  <2>1. PICK c \in asked : /\ c.op = "external" /\ Editor!openSource(source, asked \ {c})
                           /\ UNCHANGED <<files, drafts, owed, crossed>>
    BY <1>2
  <2>2. Editor!Text(External, 0) \in Texts /\ Editor!Text(External, 0).of = External
    BY DEF EditorAssumption, Texts, Editor!Text, Editor!Keys
  <2>3. source \in Sources /\ source.external /\ source.name = Module /\ source.content.of = External
    BY <2>2 DEF Sources, Names
  <2>4. Editor!draftKey(source) = External
    BY DEF Editor!draftKey
  <2>5. \A name \in Names \ crossed : files'[name] # None => Own(files'[name], name)
    BY <2>1 DEF EditorInv, TextsOwn
  <2>6. \A k \in Files : k # Editor!draftKey(source)
    BY <2>4 DEF EditorAssumption, Names
  <2> HIDE DEF source
  <2> QED BY <1>0, <2>1, <2>3, <2>5, <2>6, SourceShows DEF EditorTyped
<1> QED BY <1>1, <1>2 DEF Editor!ExternalAnswered, CallDropped, Editor!ledger

LEMMA RestoredShows == ASSUME EditorAssumption, EditorInv, Editor!RestoreAnswered PROVE EditorInv'
<1>0. EditorTyped
  BY DEF EditorInv
<1> DEFINE shipped(c) == Editor!Text(c.at, 0)
           from(c) == [name |-> c.at, external |-> FALSE, content |-> shipped(c)]
<1>1. PICK c \in asked : /\ c.op = "restore" /\ Editor!openSource(from(c), asked \ {c})
                         /\ files' = [files EXCEPT ![c.at] = shipped(c)]
                         /\ UNCHANGED <<drafts, owed, crossed>>
  BY DEF Editor!RestoreAnswered, Editor!ledger
<1>2. c.at \in Names
  BY <1>0, <1>1 DEF EditorTyped, CallTyped
<1>3. shipped(c) \in Texts /\ shipped(c).of = c.at /\ shipped(c) # None
  BY <1>2 DEF EditorAssumption, Texts, Editor!Text, Editor!Keys, Names
<1> DEFINE source == from(c)
<1>4. /\ source \in Sources /\ ~source.external /\ source.name = c.at /\ Own(source.content, source.name)
      /\ Editor!draftKey(source) = c.at
  BY <1>2, <1>3 DEF Sources, Own, Editor!draftKey
<1>5. Editor!openSource(source, asked \ {c})
  BY <1>1
<1>6. /\ files' \in [Names -> Texts \cup {None}]
      /\ \A name \in Names : files'[name] = IF name = c.at THEN shipped(c) ELSE files[name]
  BY <1>0, <1>1, <1>2, <1>3 DEF EditorTyped
<1>7. \A name \in Names \ crossed : files'[name] # None => Own(files'[name], name)
  BY <1>3, <1>6 DEF EditorInv, TextsOwn, Own
<1>8. ASSUME NEW k \in Files, owed[k] # None
      PROVE  files'[k] = files[k] /\ k # Editor!draftKey(source)
  <2>1. WorkKept(k)
    BY <1>8 DEF EditorInv, AllKept
  <2>2. k # c.at
    BY <1>1, <2>1 DEF WorkKept, CallKeeps
  <2> QED BY <1>4, <1>6, <2>2 DEF Names
<1>9. \A name \in Names : files[name] # None => files'[name] # None
  BY <1>3, <1>6
<1> HIDE DEF source, shipped
<1> QED BY <1>1, <1>4, <1>5, <1>6, <1>7, <1>8, <1>9, SourceShows
\* The file that is open has been saved, or so the editor believes.
LEMMA SavedSource ==
  ASSUME EditorAssumption, EditorTyped, ed.source # None, NEW text \in Texts,
         ed' = [ed EXCEPT !.source.content = text, !.source.external = FALSE, !.diagnostics = text]
  PROVE  /\ ed' \in [source : Sources \cup {None}, buffer : Texts \cup {None},
                     diagnostics : Texts \cup {None}, outline : Texts \cup {None}]
         /\ ed'.source # None /\ ed'.buffer = ed.buffer
         /\ ed'.source.name = ed.source.name /\ ~ed'.source.external /\ ed'.source.content = text
<1>1. ed.source \in Sources
  BY SourceIs
<1> DEFINE src == [[ed.source EXCEPT !.content = text] EXCEPT !.external = FALSE]
<1>2. src \in Sources /\ src.name = ed.source.name /\ ~src.external /\ src.content = text
  BY <1>1 DEF Sources
<1>3. /\ ed'.source = src /\ ed'.buffer = ed.buffer /\ ed'.diagnostics = text /\ ed'.outline = ed.outline
      /\ ed' = [ed EXCEPT !.source = src, !.diagnostics = text]
  BY DEF EditorTyped
<1> HIDE DEF src
<1>4. ed' \in [source : Sources \cup {None}, buffer : Texts \cup {None},
               diagnostics : Texts \cup {None}, outline : Texts \cup {None}]
  BY <1>2, <1>3 DEF EditorTyped
<1> QED BY <1>2, <1>3, <1>4 DEF EditorAssumption
\* A save that has been written.
LEMMA SavedKeeps ==
  ASSUME EditorAssumption, EditorInv, NEW c \in asked, c.op = "save",
         files' = [files EXCEPT ![c.at] = c.text], Editor!markSaved(c.text, asked \ {c}),
         owed' = [k \in Editor!Keys |-> IF owed[k] = c.text THEN None ELSE owed[k]],
         crossed' = crossed \cup ({ed.source.name} \ {c.at}),
         UNCHANGED <<drafts, timer, token>>
  PROVE  EditorInv'
<1>0. EditorTyped /\ SourceOwn /\ CallTyped(c) /\ CallOwn(c)
  BY DEF EditorInv, EditorTyped, TextsOwn
<1>1. ed.source # None /\ c.at \in Names /\ c.text \in Texts /\ c.text # None
  BY <1>0 DEF CallTyped, EditorAssumption
<1> DEFINE key == Editor!draftKey(ed.source)
           a == Editor!Call("reload", None, None, None)
           b == Editor!Call("drop", key, None, None)
<1>2. /\ ed.source.name \in Names /\ ed.source.external \in BOOLEAN /\ key \in Editor!Keys
      /\ \A k \in Files : OpenAt(k) <=> ~ed.source.external /\ ed.source.name = k
  BY <1>0, <1>1, SourceIs
<1>3. /\ ed' \in [source : Sources \cup {None}, buffer : Texts \cup {None},
                  diagnostics : Texts \cup {None}, outline : Texts \cup {None}]
      /\ ed'.source # None /\ ed'.buffer = ed.buffer
      /\ ed'.source.name = ed.source.name /\ ~ed'.source.external /\ ed'.source.content = c.text
  BY <1>0, <1>1, SavedSource DEF Editor!markSaved
<1>4. /\ \A d \in asked' : d \in asked \/ d = a \/ (d = b /\ c.text = ed.buffer)
  BY DEF Editor!markSaved
<1>5. /\ a \in Called /\ a.op = "reload"
      /\ b \in Called /\ b.op = "drop" /\ b.at = key /\ b.text = None
  BY <1>2 DEF Editor!Call, Called, Ops
<1> HIDE DEF a, b
<1>6. /\ files' \in [Names -> Texts \cup {None}]
      /\ \A name \in Names : files'[name] = IF name = c.at THEN c.text ELSE files[name]
  BY <1>0, <1>1 DEF EditorTyped
<1>7. /\ owed' \in [Editor!Keys -> Typings \cup {None}]
      /\ \A k \in Editor!Keys : owed'[k] # None => owed'[k] = owed[k] /\ owed[k] # c.text
  BY <1>0 DEF EditorTyped
<1>8. OneOpening'
  BY <1>4, <1>5 DEF EditorInv, OneOpening, Editor!Opening
<1>9. EditorTyped'
  <2>1. \A d \in asked : CallTyped(d)'
    BY <1>0, <1>1, <1>3, <1>6 DEF EditorTyped, CallTyped, There
  <2>2. \A d \in Called : /\ d.op = "reload" => CallTyped(d)'
                          /\ d.op = "drop" /\ d.at \in Editor!Keys => CallTyped(d)'
    BY DEF CallTyped
  <2>3. \A d \in asked' : CallTyped(d)'
    BY <1>2, <1>4, <1>5, <2>1, <2>2
  <2>4. crossed' \subseteq Names
    BY <1>0, <1>2 DEF EditorTyped
  <2>5. /\ drafts' \in [Editor!Keys -> Texts \cup {None}] /\ token' \in Int
        /\ timer' \in [set : BOOLEAN, armed : BOOLEAN, key : Editor!Keys \cup {None}]
        /\ ed'.source # None => ed'.buffer # None
    BY <1>0, <1>1, <1>3 DEF EditorTyped
  <2> HIDE DEF key
  <2> QED BY <1>3, <1>6, <1>7, <2>3, <2>4, <2>5 DEF EditorTyped
<1>10. TextsOwn'
  <2>5. crossed \subseteq crossed' /\ (ed.source.name \notin crossed' => c.at = ed.source.name)
    OBVIOUS
  <2>1. \A d \in asked : CallOwn(d)'
    <3> SUFFICES ASSUME NEW d \in asked PROVE CallOwn(d)'
      OBVIOUS
    <3>1. CallOwn(d)
      BY DEF EditorInv, TextsOwn
    <3>2. d.op \in Carries /\ d.text # None /\ d.at \notin crossed' => Own(d.text, d.at)
      BY <2>5, <3>1 DEF CallOwn
    <3>3. d.op = "fix" /\ ed.source.name \notin crossed' => Own(d.text, ed.source.name)
      BY <1>0, <1>1, <2>5, <3>1 DEF CallOwn, SourceOwn, Own
    <3> QED BY <1>3, <3>2, <3>3 DEF CallOwn
  <2>2. \A d \in asked' : CallOwn(d)'
    BY <1>4, <1>5, <2>1 DEF CallOwn, Carries
  <2>3. SourceOwn'
    <3> SUFFICES ASSUME ed.source.name \notin crossed'
                 PROVE  Own(c.text, ed.source.name) /\ Own(ed.buffer, ed.source.name)
      BY <1>3 DEF SourceOwn
    <3>1. ed.source.name \notin crossed /\ c.at = ed.source.name
      BY <2>5
    <3> QED BY <1>0, <1>1, <3>1 DEF SourceOwn, CallOwn, Carries, Own
  <2>4. \A name \in Names \ crossed' : files'[name] # None => Own(files'[name], name)
    BY <1>0, <1>1, <1>6 DEF EditorInv, TextsOwn, CallOwn, Carries
  <2> QED BY <2>2, <2>3, <2>4 DEF EditorInv, TextsOwn, Own
<1>11. AllKept'
  <2> SUFFICES ASSUME NEW k \in Files, owed'[k] # None PROVE WorkKept(k)'
    BY DEF AllKept
  <2>1. owed'[k] = owed[k] /\ owed[k] # None /\ owed[k] # c.text /\ WorkKept(k)
    BY <1>7 DEF EditorInv, AllKept, Editor!Keys
  <2>2. OpenAt(k)' <=> OpenAt(k)
    <3>1. OpenAt(k)' <=> ed.source.name = k
      BY <1>3 DEF OpenAt, Editor!draftKey
    <3>2. ed.source.external => ed.source.name # k
      BY <1>0, <1>1 DEF SourceOwn, EditorAssumption
    <3> QED BY <1>2, <3>1, <3>2
  <2>3. OpenAt(k) => Editor!isDirty' /\ ed'.buffer = owed'[k]
    BY <1>3, <2>1 DEF WorkKept, Editor!isDirty
  <2>4. OpenAt(k) /\ Fresh => Fresh'
    BY <1>4, <1>5, <2>3 DEF Fresh, Leaving
  <2>5. c.at = k => OpenAt(k) /\ Fresh
    BY <2>1 DEF WorkKept, CallKeeps
  <2>6. c.at # k => (OnDisk(k)' <=> OnDisk(k))
    BY <1>6, <2>1 DEF OnDisk, Names
  <2>7. OpenAt(k) => c.text # ed.buffer
    BY <2>1 DEF WorkKept
  <2>8. \A d \in asked' : d \in asked \/ d.op = "reload" \/ (d.op = "drop" /\ d.at # k)
    BY <1>1, <1>4, <1>5, <2>7 DEF OpenAt
  <2>9. c.at # k /\ Kept(k) => Kept(k)'
    BY <2>1, <2>6, <2>8 DEF Kept, Good, Lands
  <2>10. \A d \in asked' : CallKeeps(k, d)'
    <3>1. CASE c.at = k
      BY <2>1, <2>2, <2>4, <2>5, <2>8, <3>1 DEF WorkKept, CallKeeps, Fresh, Leaving
    <3>2. CASE c.at # k
      BY <2>1, <2>2, <2>4, <2>6, <2>8, <3>2 DEF WorkKept, CallKeeps
    <3> QED BY <3>1, <3>2
  <2> QED BY <2>1, <2>2, <2>3, <2>4, <2>5, <2>9, <2>10 DEF WorkKept
<1> QED BY <1>8, <1>9, <1>10, <1>11 DEF EditorInv

LEMMA AnsweredKeeps == ASSUME EditorAssumption, EditorInv, Editor!SaveAnswered PROVE EditorInv'
<1>1. CASE \E c \in asked : SaveRefused(c)
  BY <1>1, SaveMoves
<1>2. CASE \E c \in asked :
             /\ c.op = "save" /\ files' = [files EXCEPT ![c.at] = c.text]
             /\ Editor!markSaved(c.text, asked \ {c})
             /\ owed' = [k \in Editor!Keys |-> IF owed[k] = c.text THEN None ELSE owed[k]]
             /\ crossed' = crossed \cup ({ed.source.name} \ {c.at})
             /\ UNCHANGED <<drafts, timer, token>>
  BY <1>2, SavedKeeps
<1> QED BY <1>1, <1>2 DEF Editor!SaveAnswered, SaveRefused
\* The window goes: the draft that is pending is written, where there is one.
LEMMA CloseKeeps == ASSUME EditorAssumption, EditorInv, Editor!Close PROVE EditorInv'
<1>0. EditorTyped /\ SourceOwn
  BY DEF EditorInv, TextsOwn
<1> DEFINE key == Editor!draftKey(ed.source)
<1>1. /\ asked = {} /\ asked' = {} /\ ed.source # None /\ UNCHANGED <<files, owed, crossed>>
      /\ ed' = Editor!Nothing /\ timer' = Editor!NoTimer /\ token' = 0
      /\ drafts' = IF timer.set /\ Editor!isDirty THEN [drafts EXCEPT ![key] = ed.buffer] ELSE drafts
  BY DEF Editor!Close, Editor!FlushAtClose, Editor!ledger
<1>2. key \in Editor!Keys /\ ed.buffer \in Texts
  BY <1>0, <1>1, SourceIs
<1>3. /\ drafts' \in [Editor!Keys -> Texts \cup {None}]
      /\ \A k \in Editor!Keys :
           drafts'[k] = IF timer.set /\ Editor!isDirty /\ k = key THEN ed.buffer ELSE drafts[k]
  BY <1>0, <1>1, <1>2 DEF EditorTyped
<1>4. ed'.source = None
  BY <1>1 DEF Editor!Nothing
<1>5. EditorTyped'
  <2>1. ed' \in [source : Sources \cup {None}, buffer : Texts \cup {None},
                 diagnostics : Texts \cup {None}, outline : Texts \cup {None}]
    BY <1>1 DEF Editor!Nothing
  <2>2. timer' \in [set : BOOLEAN, armed : BOOLEAN, key : Editor!Keys \cup {None}]
    BY <1>1 DEF Editor!NoTimer
  <2> QED BY <1>0, <1>1, <1>3, <1>4, <2>1, <2>2 DEF EditorTyped
<1>6. OneOpening'
  BY <1>1 DEF OneOpening
<1>7. TextsOwn'
  <2>1. key \notin crossed => Own(ed.buffer, key)
    BY <1>0, <1>1 DEF SourceOwn, Own, Editor!draftKey
  <2>2. \A k \in Editor!Keys \ crossed : drafts'[k] # None => Own(drafts'[k], k)
    BY <1>3, <2>1 DEF EditorInv, TextsOwn
  <2>3. SourceOwn'
    BY <1>4 DEF SourceOwn
  <2> QED BY <1>1, <2>2, <2>3 DEF EditorInv, TextsOwn, Own
<1>8. AllKept'
  <2> SUFFICES ASSUME NEW k \in Files, owed'[k] # None PROVE WorkKept(k)'
    BY DEF AllKept
  <2>1. WorkKept(k) /\ owed'[k] = owed[k]
    BY <1>1 DEF EditorInv, AllKept
  <2>2. OpenAt(k) <=> k = key
    BY <1>1 DEF OpenAt
  <2>3. ~OpenAt(k)'
    BY <1>4 DEF OpenAt
  <2>4. Fresh <=> timer.set /\ Editor!isDirty
    BY <1>0, <1>1 DEF Fresh, EditorTyped
  <2>5. Good(k, drafts'[k])
    BY <1>3, <2>1, <2>2, <2>4 DEF WorkKept, Kept, Good, Editor!Keys
  <2>6. Kept(k)'
    BY <1>1, <2>5 DEF Kept, Good, OnDisk
  <2> QED BY <1>1, <2>3, <2>6 DEF WorkKept
<1> QED BY <1>5, <1>6, <1>7, <1>8 DEF EditorInv

\* Another program writes a file: the drafts and the editor are as they were.
LEMMA OutsideKeeps == ASSUME EditorAssumption, EditorInv, Editor!Outside PROVE EditorInv'
<1>0. EditorTyped
  BY DEF EditorInv
<1> DEFINE other(f) == Editor!Text(f, MaxVersion + 1)
<1>1. PICK f \in Files : /\ files' = [files EXCEPT ![f] = other(f)]
                         /\ owed' = [owed EXCEPT ![f] = IF @ = files[f] THEN None ELSE @]
                         /\ UNCHANGED <<drafts, ed, timer, token, asked, crossed>>
  BY DEF Editor!Outside, Editor!editor
<1>2. f \in Names /\ f \in Editor!Keys
  BY DEF Names, Editor!Keys
<1>3. other(f) \in Texts /\ other(f) # None /\ other(f).of = f /\ \A text \in Typings : other(f) # text
  BY <1>2 DEF EditorAssumption, Texts, Typings, Editor!Text
<1> HIDE DEF other
<1>4. /\ files' \in [Names -> Texts \cup {None}]
      /\ \A name \in Names : files'[name] = IF name = f THEN other(f) ELSE files[name]
  BY <1>0, <1>1, <1>2, <1>3 DEF EditorTyped
<1>5. /\ owed' \in [Editor!Keys -> Typings \cup {None}]
      /\ \A k \in Editor!Keys : owed'[k] # None => owed'[k] = owed[k] /\ (k = f => owed[k] # files[k])
  BY <1>0, <1>1, <1>2 DEF EditorTyped
<1>6. EditorTyped'
  <2>1. \A c : CallTyped(c) => CallTyped(c)'
    BY <1>1, <1>3, <1>4 DEF CallTyped, There
  <2> QED BY <1>0, <1>1, <1>4, <1>5, <2>1 DEF EditorTyped
<1>7. OneOpening'
  BY <1>1 DEF EditorInv, OneOpening
<1>8. TextsOwn'
  <2>1. \A c : CallOwn(c) => CallOwn(c)'
    BY <1>1 DEF CallOwn
  <2>2. SourceOwn'
    BY <1>1 DEF EditorInv, TextsOwn, SourceOwn
  <2>3. \A name \in Names \ crossed : files'[name] # None => Own(files'[name], name)
    BY <1>3, <1>4 DEF EditorInv, TextsOwn, Own
  <2> QED BY <1>1, <2>1, <2>2, <2>3 DEF EditorInv, TextsOwn, Own
<1>9. AllKept'
  <2> SUFFICES ASSUME NEW k \in Files, owed'[k] # None PROVE WorkKept(k)'
    BY DEF AllKept
  <2>1. owed'[k] = owed[k] /\ owed[k] \in Typings /\ WorkKept(k) /\ (k = f => owed[k] # files[k])
    BY <1>0, <1>5 DEF EditorInv, EditorTyped, AllKept, Editor!Keys
  <2>2. OnDisk(k)' <=> OnDisk(k)
    BY <1>3, <1>4, <2>1 DEF OnDisk, Names
  <2>3. \A text : Good(k, text) => Good(k, text)'
    BY <2>1, <2>2 DEF Good
  <2>4. Kept(k) => Kept(k)'
    BY <1>1, <2>3 DEF Kept, Good
  <2>5. (Fresh' <=> Fresh) /\ (Editor!isDirty' <=> Editor!isDirty) /\ (OpenAt(k)' <=> OpenAt(k))
    BY <1>1 DEF Fresh, Editor!isDirty, OpenAt, Editor!draftKey
  <2>6. \A c : CallKeeps(k, c) => CallKeeps(k, c)'
    BY <2>1, <2>2, <2>5 DEF CallKeeps
  <2> QED BY <1>1, <2>1, <2>2, <2>4, <2>5, <2>6 DEF WorkKept
<1> QED BY <1>6, <1>7, <1>8, <1>9 DEF EditorInv

LEMMA InitEditor == ASSUME EditorAssumption, Editor!Init PROVE EditorInv
<1>1. /\ files = [n \in Names |-> IF n \in Files THEN Editor!Text(n, 0) ELSE None]
      /\ drafts = [k \in Editor!Keys |-> None] /\ owed = [k \in Editor!Keys |-> None]
      /\ ed = Editor!Nothing /\ timer = Editor!NoTimer /\ token = 0 /\ asked = {} /\ crossed = {}
  BY DEF Editor!Init, Names
<1>2. \A n \in Files : Editor!Text(n, 0) \in Texts /\ Editor!Text(n, 0).of = n
  BY DEF EditorAssumption, Texts, Editor!Text, Editor!Keys
<1>3. ed.source = None
  BY <1>1 DEF Editor!Nothing
<1>4. EditorTyped
  <2>1. ed \in [source : Sources \cup {None}, buffer : Texts \cup {None},
                diagnostics : Texts \cup {None}, outline : Texts \cup {None}]
    BY <1>1 DEF Editor!Nothing
  <2>2. timer \in [set : BOOLEAN, armed : BOOLEAN, key : Editor!Keys \cup {None}]
    BY <1>1 DEF Editor!NoTimer
  <2>3. files \in [Names -> Texts \cup {None}]
    BY <1>1, <1>2
  <2> QED BY <1>1, <1>3, <2>1, <2>2, <2>3 DEF EditorTyped
<1>5. OneOpening /\ AllKept
  BY <1>1 DEF OneOpening, AllKept, Editor!Keys
<1>6. TextsOwn
  BY <1>1, <1>2, <1>3 DEF TextsOwn, SourceOwn, Own
<1> QED BY <1>4, <1>5, <1>6 DEF EditorInv

LEMMA EditorAlways == ASSUME EditorAssumption PROVE Editor!Spec => []EditorInv
<1>1. EditorInv /\ [Editor!Next]_(Editor!vars) => EditorInv'
  <2> SUFFICES ASSUME EditorInv, [Editor!Next]_(Editor!vars) PROVE EditorInv'
    OBVIOUS
  <2>1. CASE Editor!open \/ Editor!openExternal
    BY <2>1, OpenMoves
  <2>2. CASE Editor!onInput
    BY <2>2, InputKeeps
  <2>3. CASE Editor!revert
    BY <2>3, RevertKeeps
  <2>4. CASE Editor!restoreBundled
    BY <2>4, RestoreMoves
  <2>5. CASE Editor!fixImports
    BY <2>5, FixMoves
  <2>6. CASE Editor!save
    BY <2>6, SaveMoves
  <2>7. CASE Editor!Close
    BY <2>7, CloseKeeps
  <2>8. CASE Editor!Outside
    BY <2>8, OutsideKeeps
  <2>9. CASE Editor!scheduleDraft
    BY <2>9, DraftMoves
  <2>10. CASE Editor!scheduleRefresh \/ Editor!refresh \/ Editor!ReloadAnswered \/ UNCHANGED Editor!vars
    BY <2>10, CheckMoves
  <2>11. CASE Editor!FlushAnswered
    BY <2>11, FlushMoves
  <2>12. CASE Editor!ReadAnswered
    BY <2>12, ReadMoves
  <2>13. CASE Editor!DraftAnswered
    BY <2>13, DraftShows
  <2>14. CASE Editor!DraftKept
    BY <2>14, KeptMoves
  <2>15. CASE Editor!DiscardAnswered
    BY <2>15, DiscardedMoves
  <2>16. CASE Editor!ExternalAnswered
    BY <2>16, ExternalShows
  <2>17. CASE Editor!RestoreAnswered
    BY <2>17, RestoredShows
  <2>18. CASE Editor!FixAnswered
    BY <2>18, FixKeeps
  <2>19. CASE Editor!SaveAnswered
    BY <2>19, AnsweredKeeps
  <2> QED BY <2>1, <2>2, <2>3, <2>4, <2>5, <2>6, <2>7, <2>8, <2>9, <2>10, <2>11, <2>12, <2>13, <2>14,
             <2>15, <2>16, <2>17, <2>18, <2>19 DEF Editor!Next
<1> QED BY <1>1, InitEditor, PTL DEF Editor!Spec

\* "Losing an edit to a misclick is the one failure this editor must not have"
\* (MibEditorPanel.svelte:242): what was typed in a file of the directory, and not given
\* up, is in the editor, in its draft or in the file, in whatever order timers and
\* answers come.
THEOREM WorkStays == ASSUME EditorAssumption PROVE Editor!Spec => []Editor!WorkIsSomewhere
<1>1. EditorInv => Editor!WorkIsSomewhere
  <2> SUFFICES ASSUME EditorInv, NEW k \in Files, owed[k] # None
               PROVE  \/ ed.source # None /\ Editor!draftKey(ed.source) = k /\ ed.buffer = owed[k]
                      \/ drafts[k] = owed[k]
                      \/ files[k] = owed[k]
    BY DEF Editor!WorkIsSomewhere
  <2> QED BY DEF EditorInv, AllKept, WorkKept, OpenAt, Kept, Good, OnDisk
<1> QED BY <1>1, EditorAlways, PTL

\* A draft is of the file it is filed under (mibEditorStore.js scheduleDraft, open,
\* discardDraft), but for files that were shown with what another was saved as.
THEOREM DraftsAreTheirs == ASSUME EditorAssumption PROVE Editor!Spec => []Editor!DraftOfItsFile
<1>1. EditorInv => Editor!DraftOfItsFile
  BY DEF EditorInv, TextsOwn, Own, Editor!DraftOfItsFile, Editor!HasItsText
<1> QED BY <1>1, EditorAlways, PTL

(***************************************************************************)
(* Records, and the calls that are under way.                              *)
(***************************************************************************)
\* A record of these fields, whatever they hold.
Has(fields, r) == r = [k \in fields |-> r[k]]

\* What has these fields is a function on them.
LEMMA HasDomain == ASSUME NEW fields, NEW r, Has(fields, r) PROVE DOMAIN r = fields
<1>1. DOMAIN [k \in fields |-> r[k]] = fields
  OBVIOUS
<1> QED BY <1>1 DEF Has

\* One field changed, the others as they were.
Changed(r, u, f, v) == u = [r EXCEPT ![f] = v]

LEMMA FieldIs ==
  ASSUME NEW fields, NEW r, Has(fields, r), NEW f \in fields, NEW v, NEW u, Changed(r, u, f, v)
  PROVE  Has(fields, u) /\ u[f] = v /\ \A k \in fields : k # f => u[k] = r[k]
<1>1. DOMAIN r = fields
  BY HasDomain
<1>2. u = [k \in fields |-> IF k = f THEN v ELSE r[k]]
  BY <1>1 DEF Changed
<1>3. Has(fields, u)
  BY <1>2 DEF Has
<1> QED BY <1>2, <1>3

\* A call is made: it is the last.
LEMMA CallAsked ==
  ASSUME NEW S, NEW cs \in Seq(S), NEW c
  PROVE  LET u == Append(cs, c)
             n == Len(cs) + 1
         IN /\ \E T : u \in Seq(T)
            /\ n \in DOMAIN u /\ u[n] = c /\ n \in Nat
            /\ \A i \in DOMAIN cs : i \in DOMAIN u /\ u[i] = cs[i] /\ i < n
            /\ \A i \in DOMAIN u : i \in Nat /\ i <= n /\ (i = n \/ (i \in DOMAIN cs /\ u[i] = cs[i]))
<1>1. cs \in Seq(S \cup {c}) /\ c \in S \cup {c}
  BY SeqMonotonic
<1>2. Append(cs, c) \in Seq(S \cup {c})
  BY <1>1
<1> QED BY <1>2

\* The place of a call once the one at k is gone.
Moved(i, k) == IF i < k THEN i ELSE i - 1

LEMMA OneGone ==
  ASSUME NEW S, NEW cs \in Seq(S), NEW k \in DOMAIN cs
  PROVE  LET u == Notify!RemoveAt(cs, k)
         IN /\ u \in Seq(S) /\ DOMAIN u = 1..(Len(cs) - 1) /\ Len(u) = Len(cs) - 1
            /\ \A i \in 1..(Len(cs) - 1) : u[i] = IF i < k THEN cs[i] ELSE cs[i + 1]
<1> DEFINE a == SubSeq(cs, 1, k - 1)
           b == SubSeq(cs, k + 1, Len(cs))
<1>1. k \in 1..Len(cs) /\ Len(cs) \in Nat
  OBVIOUS
<1>2. a \in Seq(S) /\ Len(a) = k - 1 /\ \A i \in 1..(k - 1) : a[i] = cs[i]
  BY <1>1
<1>3. b \in Seq(S) /\ Len(b) = Len(cs) - k /\ \A i \in 1..(Len(cs) - k) : b[i] = cs[i + k]
  BY <1>1
<1>4. Notify!RemoveAt(cs, k) = a \o b
  BY DEF Notify!RemoveAt
<1> HIDE DEF a, b
<1>5. a \o b \in Seq(S) /\ Len(a \o b) = Len(cs) - 1
  BY <1>1, <1>2, <1>3
<1>6. ASSUME NEW i \in 1..(Len(cs) - 1) PROVE (a \o b)[i] = IF i < k THEN cs[i] ELSE cs[i + 1]
  <2>1. (a \o b)[i] = IF i <= Len(a) THEN a[i] ELSE b[i - Len(a)]
    BY <1>1, <1>2, <1>3, <1>6
  <2>2. CASE i < k
    <3>1. i \in 1..(k - 1) /\ i <= Len(a)
      BY <1>1, <1>2, <1>6, <2>2
    <3> QED BY <1>2, <2>1, <2>2, <3>1
  <2>3. CASE ~(i < k)
    <3>1. i - Len(a) \in 1..(Len(cs) - k) /\ ~(i <= Len(a)) /\ (i - Len(a)) + k = i + 1
      BY <1>1, <1>2, <1>6, <2>3
    <3>2. b[i - Len(a)] = cs[(i - Len(a)) + k]
      BY <1>3, <3>1
    <3> QED BY <2>1, <2>3, <3>1, <3>2
  <2> QED BY <2>2, <2>3
<1>7. DOMAIN (a \o b) = 1..(Len(cs) - 1)
  BY <1>5
<1> QED BY <1>4, <1>5, <1>6, <1>7

LEMMA JoinedAt ==
  ASSUME NEW S, NEW a \in Seq(S), NEW b \in Seq(S)
  PROVE  /\ a \o b \in Seq(S) /\ Len(a \o b) = Len(a) + Len(b) /\ DOMAIN (a \o b) = 1..(Len(a) + Len(b))
         /\ \A i \in 1..(Len(a) + Len(b)) : (a \o b)[i] = IF i <= Len(a) THEN a[i] ELSE b[i - Len(a)]
OBVIOUS

(***************************************************************************)
(* Operations: what is asked on demand, and what is recorded of it.        *)
(***************************************************************************)
AskFields  == {"id", "op", "oid", "stage", "crossed"}
AskedForm  == {"op", "oid", "typed", "value"}

\* What an operation under way may be.
AskFine(c) ==
  /\ Has(AskFields, c) /\ c.op \in Asks!Ops \cup {"ROW"}
  /\ c.stage \in {"answer", "resolve", "save"}
  /\ c.op = "ROW" => c.stage = "answer"
  /\ c.stage = "save" => c.op = "SET"

\* Only a setting that is being saved does not disturb an operation: of those
\* that nothing disturbed, one is beyond that.
Undisturbed(cs) == \A c, d \in cs : ~c.crossed /\ d # c => d.crossed /\ d.stage = "save"

\* What nothing disturbed was sent with what the form still holds,
StillTyped(cs, oid) == \A c \in cs : ~c.crossed /\ c.op # "ROW" => c.oid = oid[c.op]

\* and what is shown, once it is answered, is its answer.
StillShown(cs, shown) ==
  \A c \in cs : ~c.crossed /\ c.stage = "resolve" => shown.id = c.id /\ shown.from = Agents

TasksFine(cs, oid, shown) ==
  /\ IsFiniteSet(cs) /\ \A c \in cs : AskFine(c)
  /\ Undisturbed(cs) /\ StillTyped(cs, oid) /\ StillShown(cs, shown)

FormFine(f) ==
  /\ Has(AskedForm, f) /\ f.op \in Asks!Ops /\ Has(Asks!Ops, f.oid) /\ Has(Asks!Ops, f.typed)

AskInv ==
  /\ FormFine(form) /\ \A q \in queries : q.op \in Asks!Ops
  /\ TasksFine(tasks, form.oid, results)
  /\ Asks!RecordedAsAsked /\ Asks!RowOnItsDevice /\ Asks!NothingIsBusy

-----------------------------------------------------------------------------
(* Operations under way. *)

\* The groups are of every target (executeGrouped).
LEMMA GroupsAreAll == ASSUME NEW oid PROVE DOMAIN Asks!executeGrouped(oid) = Agents
<1> DEFINE groups == {{t} : t \in Agents \cap OwnSettings} \cup ({Agents \ OwnSettings} \ {{}})
<1>1. \A t \in Agents : \E g \in groups : t \in g
  <2> TAKE t \in Agents
  <2>1. CASE t \in OwnSettings
    <3>1. {t} \in groups
      BY <2>1
    <3> QED BY <3>1
  <2>2. CASE t \notin OwnSettings
    <3>1. Agents \ OwnSettings \in groups /\ t \in Agents \ OwnSettings
      BY <2>2
    <3> QED BY <3>1
  <2> QED BY <2>1, <2>2
<1>2. \A g \in groups : g \subseteq Agents
  OBVIOUS
<1> HIDE DEF groups
<1>3. UNION groups = Agents
  BY <1>1, <1>2
<1>4. Asks!executeGrouped(oid) = [t \in UNION groups |-> oid]
  BY DEF Asks!executeGrouped, groups
<1> QED BY <1>3, <1>4

LEMMA CrossedAre ==
  ASSUME NEW cs, IsFiniteSet(cs), \A c \in cs : AskFine(c)
  PROVE  /\ IsFiniteSet(Asks!Crossed(cs)) /\ (Asks!Crossed(cs) = {}) = (cs = {})
         /\ \A d \in Asks!Crossed(cs) : /\ AskFine(d) /\ d.crossed
                                        /\ \E c \in cs : d.stage = c.stage
<1> DEFINE As(c) == [c EXCEPT !.crossed = TRUE]
<1>1. Asks!Crossed(cs) = {As(c) : c \in cs}
  BY DEF Asks!Crossed
<1>2. \A c \in cs : AskFine(As(c)) /\ As(c).crossed /\ As(c).stage = c.stage
  <2> TAKE c \in cs
  <2> DEFINE d == [k \in AskFields |-> IF k = "crossed" THEN TRUE ELSE c[k]]
  <2>1. DOMAIN c = AskFields
    BY HasDomain DEF AskFine
  <2>2. As(c) = d
    BY <2>1 DEF AskFields
  <2>3. Has(AskFields, d) /\ d["crossed"]
    BY DEF Has, AskFields
  <2>4. d["op"] = c["op"] /\ d["stage"] = c["stage"]
    BY DEF AskFields
  <2> HIDE DEF d
  <2>5. AskFine(d) /\ d.crossed /\ d.stage = c.stage
    BY <2>3, <2>4 DEF AskFine
  <2> QED BY <2>2, <2>5
<1> HIDE DEF As
<1>3. IsFiniteSet({As(c) : c \in cs})
  <2> DEFINE T == {As(c) : c \in cs}
             f == [c \in cs |-> As(c)]
  <2>1. f \in Surjection(cs, T)
    BY DEF Surjection
  <2> HIDE DEF T, f
  <2>2. IsFiniteSet(T)
    BY <2>1, FS_Surjection
  <2> QED BY <2>2 DEF T
<1> QED BY <1>1, <1>2, <1>3

\* The form as it is, and an operation that is begun.
LEMMA JoinTask ==
  ASSUME NEW cs, IsFiniteSet(cs), \A c \in cs : AskFine(c), NEW oid, NEW shown, NEW n, AskFine(n),
         n.stage # "resolve", n.crossed \/ n.op = "ROW" \/ n.oid = oid[n.op],
         n.crossed \/ \A c \in cs : c.stage = "save"
  PROVE  TasksFine(Asks!Crossed(cs) \cup {n}, oid, shown)
<1> DEFINE us == Asks!Crossed(cs)
<1>1. /\ IsFiniteSet(us) /\ \A d \in us : AskFine(d) /\ d.crossed /\ \E c \in cs : d.stage = c.stage
  BY CrossedAre
<1> HIDE DEF us
<1>2. IsFiniteSet(us \cup {n})
  BY <1>1, FS_AddElement
<1>3. Undisturbed(us \cup {n})
  BY <1>1 DEF Undisturbed
<1>4. StillTyped(us \cup {n}, oid) /\ StillShown(us \cup {n}, shown)
  BY <1>1 DEF StillTyped, StillShown
<1> QED BY <1>1, <1>2, <1>3, <1>4 DEF us, TasksFine

LEMMA CrossTasks ==
  ASSUME NEW cs, IsFiniteSet(cs), \A c \in cs : AskFine(c), NEW oid, NEW shown
  PROVE  TasksFine(Asks!Crossed(cs), oid, shown)
<1> DEFINE us == Asks!Crossed(cs)
<1>1. /\ IsFiniteSet(us) /\ \A d \in us : AskFine(d) /\ d.crossed
  BY CrossedAre
<1> HIDE DEF us
<1> QED BY <1>1 DEF us, TasksFine, Undisturbed, StillTyped, StillShown

LEMMA FewerTasks ==
  ASSUME NEW cs, NEW oid, NEW shown, TasksFine(cs, oid, shown), NEW us \in SUBSET cs
  PROVE  TasksFine(us, oid, shown)
<1>1. IsFiniteSet(us)
  BY FS_Subset DEF TasksFine
<1> QED BY <1>1 DEF TasksFine, Undisturbed, StillTyped, StillShown

\* The step of an operation, in the fields of its record.
LEMMA AskMade ==
  ASSUME NEW id, NEW op \in Asks!Ops \cup {"ROW"}, NEW oid, NEW at \in {"answer", "save"}, NEW b,
         op = "ROW" => at = "answer", at = "save" => op = "SET"
  PROVE  LET n == [id |-> id, op |-> op, oid |-> oid, stage |-> at, crossed |-> b]
         IN AskFine(n) /\ n.stage = at /\ n.op = op /\ n.oid = oid /\ n.crossed = b
BY DEF AskFine, Has, AskFields

LEMMA AskResolves ==
  ASSUME NEW c, AskFine(c), c.op # "ROW", NEW n, Changed(c, n, "stage", "resolve")
  PROVE  AskFine(n) /\ n.stage = "resolve" /\ n.op = c.op /\ n.oid = c.oid /\ n.crossed = c.crossed /\ n.id = c.id
<1>1. Has(AskFields, c) /\ "stage" \in AskFields
  BY DEF AskFine, AskFields
<1>2. Has(AskFields, n) /\ n["stage"] = "resolve" /\ \A k \in AskFields : k # "stage" => n[k] = c[k]
  BY <1>1, FieldIs
<1>3. n["op"] = c["op"] /\ n["oid"] = c["oid"] /\ n["crossed"] = c["crossed"] /\ n["id"] = c["id"]
  BY <1>2 DEF AskFields
<1> QED BY <1>2, <1>3 DEF AskFine

\* A request that goes on as another: the setting it waited for is saved, or the
\* row was written and the table is read back.
Sent(c, n, id, oid) == n = [c EXCEPT !.id = id, !.oid = oid, !.stage = "answer"]
ReadBack(c, n, id, op, oid, b) == n = [c EXCEPT !.id = id, !.op = op, !.oid = oid, !.crossed = b]

LEMMA SentIs ==
  ASSUME NEW c, AskFine(c), c.op # "ROW", NEW n, NEW id, NEW oid, Sent(c, n, id, oid)
  PROVE  AskFine(n) /\ n.stage = "answer" /\ n.op = c.op /\ n.oid = oid /\ n.crossed = c.crossed
<1> DEFINE m == [k \in AskFields |-> CASE k = "id" -> id [] k = "oid" -> oid [] k = "stage" -> "answer" [] OTHER -> c[k]]
<1>1. DOMAIN c = AskFields /\ c.op \in Asks!Ops \cup {"ROW"}
  BY HasDomain DEF AskFine
<1>2. n = m
  BY <1>1 DEF AskFields, Sent
<1>3. /\ Has(AskFields, m) /\ m["op"] = c["op"] /\ m["oid"] = oid /\ m["crossed"] = c["crossed"]
      /\ m["stage"] = "answer"
  BY DEF Has, AskFields
<1> HIDE DEF m
<1> QED BY <1>1, <1>2, <1>3 DEF AskFine

LEMMA ReadBackIs ==
  ASSUME NEW c, AskFine(c), c.op = "ROW", NEW n, NEW id, NEW op \in Asks!Ops, NEW oid, NEW b,
         ReadBack(c, n, id, op, oid, b)
  PROVE  AskFine(n) /\ n.stage = "answer" /\ n.op = op /\ n.oid = oid /\ n.crossed = b
<1> DEFINE m == [k \in AskFields |-> CASE k = "id" -> id [] k = "oid" -> oid [] k = "op" -> op
                                       [] k = "crossed" -> b [] OTHER -> c[k]]
<1>1. DOMAIN c = AskFields /\ c.stage = "answer"
  BY HasDomain DEF AskFine
<1>2. n = m
  BY <1>1 DEF AskFields, ReadBack
<1>3. Has(AskFields, m) /\ m["op"] = op /\ m["oid"] = oid /\ m["crossed"] = b /\ m["stage"] = c["stage"]
  BY DEF Has, AskFields
<1> HIDE DEF m
<1>4. "ROW" \notin Asks!Ops
  BY DEF Asks!Ops
<1> QED BY <1>1, <1>2, <1>3, <1>4 DEF AskFine

-----------------------------------------------------------------------------
(* The form. *)

\* One field of the form changed.
LEMMA FormOne ==
  ASSUME NEW f, FormFine(f), NEW k \in {"op", "value"}, NEW v, k = "op" => v \in Asks!Ops, NEW u, Changed(f, u, k, v)
  PROVE  FormFine(u) /\ u.oid = f.oid
<1>1. Has(AskedForm, f) /\ k \in AskedForm
  BY DEF FormFine, AskedForm
<1>2. Has(AskedForm, u) /\ u[k] = v /\ \A j \in AskedForm : j # k => u[j] = f[j]
  BY ONLY <1>1, Changed(f, u, k, v), FieldIs
<1>3. u["oid"] = f["oid"] /\ u["typed"] = f["typed"] /\ u["op"] \in {f["op"], v} /\ (k # "op" => u["op"] = f["op"])
  BY <1>2 DEF AskedForm
<1> QED BY <1>2, <1>3 DEF FormFine

\* A form of these parts.
AskFormOf(op, oid, typed, value) ==
  [k \in AskedForm |-> CASE k = "op" -> op [] k = "oid" -> oid [] k = "typed" -> typed [] OTHER -> value]

LEMMA AskFormIs ==
  ASSUME NEW op \in Asks!Ops, NEW oid, Has(Asks!Ops, oid), NEW typed, Has(Asks!Ops, typed), NEW value
  PROVE  FormFine(AskFormOf(op, oid, typed, value)) /\ AskFormOf(op, oid, typed, value).oid = oid
<1> DEFINE f == AskFormOf(op, oid, typed, value)
<1>1. Has(AskedForm, f) /\ f["op"] = op /\ f["oid"] = oid /\ f["typed"] = typed
  BY DEF Has, AskFormOf, AskedForm
<1> HIDE DEF f
<1>2. FormFine(f) /\ f.oid = oid
  BY <1>1 DEF FormFine
<1> QED BY <1>2 DEF f

\* What is typed in, taken over, filled or loaded is a form again.
LEMMA FormSet ==
  ASSUME NEW f, FormFine(f), NEW op \in Asks!Ops, NEW g, NEW h, NEW v
  PROVE  /\ FormFine([f EXCEPT !.op = op, !.oid[op] = g])
         /\ FormFine([f EXCEPT !.oid[op] = g, !.typed[op] = h])
         /\ FormFine([f EXCEPT !.oid["GET"] = g, !.oid["SET"] = g])
         /\ FormFine([f EXCEPT !.op = op, !.oid["GET"] = g, !.oid["SET"] = g,
                               !.typed["GET"] = h, !.typed["SET"] = h])
         /\ FormFine([f EXCEPT !.op = op, !.oid[op] = g, !.value = v])
<1>1. DOMAIN f = AskedForm /\ DOMAIN f.oid = Asks!Ops /\ DOMAIN f.typed = Asks!Ops /\ f.op \in Asks!Ops
  BY HasDomain DEF FormFine
<1> DEFINE o1 == [f.oid EXCEPT ![op] = g]
           t1 == [f.typed EXCEPT ![op] = h]
           o2 == [f.oid EXCEPT !["GET"] = g, !["SET"] = g]
           t2 == [f.typed EXCEPT !["GET"] = h, !["SET"] = h]
<1>2. Has(Asks!Ops, o1) /\ Has(Asks!Ops, t1) /\ Has(Asks!Ops, o2) /\ Has(Asks!Ops, t2)
  BY <1>1 DEF Has
<1>3. Has(Asks!Ops, f.oid) /\ Has(Asks!Ops, f.typed)
  BY DEF FormFine
<1>4. /\ [f EXCEPT !.op = op, !.oid[op] = g] = [f EXCEPT !.op = op, !.oid = o1]
      /\ [f EXCEPT !.oid[op] = g, !.typed[op] = h] = [f EXCEPT !.oid = o1, !.typed = t1]
      /\ [f EXCEPT !.oid["GET"] = g, !.oid["SET"] = g] = [f EXCEPT !.oid = o2]
      /\ [f EXCEPT !.op = op, !.oid["GET"] = g, !.oid["SET"] = g, !.typed["GET"] = h, !.typed["SET"] = h]
           = [f EXCEPT !.op = op, !.oid = o2, !.typed = t2]
      /\ [f EXCEPT !.op = op, !.oid[op] = g, !.value = v] = [f EXCEPT !.op = op, !.oid = o1, !.value = v]
  BY <1>1 DEF AskedForm
<1> HIDE DEF o1, t1, o2, t2
<1>5. /\ [f EXCEPT !.op = op, !.oid = o1] = AskFormOf(op, o1, f.typed, f.value)
      /\ [f EXCEPT !.oid = o1, !.typed = t1] = AskFormOf(f.op, o1, t1, f.value)
      /\ [f EXCEPT !.oid = o2] = AskFormOf(f.op, o2, f.typed, f.value)
      /\ [f EXCEPT !.op = op, !.oid = o2, !.typed = t2] = AskFormOf(op, o2, t2, f.value)
      /\ [f EXCEPT !.op = op, !.oid = o1, !.value = v] = AskFormOf(op, o1, f.typed, v)
  BY <1>1 DEF AskFormOf, AskedForm
<1>6. /\ FormFine(AskFormOf(op, o1, f.typed, f.value)) /\ FormFine(AskFormOf(f.op, o1, t1, f.value))
      /\ FormFine(AskFormOf(f.op, o2, f.typed, f.value)) /\ FormFine(AskFormOf(op, o2, t2, f.value))
      /\ FormFine(AskFormOf(op, o1, f.typed, v))
  BY <1>1, <1>2, <1>3, AskFormIs
<1> QED BY <1>4, <1>5, <1>6

\* What the form becomes when a node is selected.
LEMMA FormFollows ==
  ASSUME NEW f, FormFine(f), NEW op \in Asks!Ops, NEW oid, Has(Asks!Ops, oid), NEW typed, Has(Asks!Ops, typed)
  PROVE  LET u == [f EXCEPT !.op = op, !.oid = oid, !.typed = typed, !.value = "default"]
         IN FormFine(u) /\ u.oid = oid
<1>1. DOMAIN f = AskedForm
  BY HasDomain DEF FormFine
<1>2. [f EXCEPT !.op = op, !.oid = oid, !.typed = typed, !.value = "default"] = AskFormOf(op, oid, typed, "default")
  BY <1>1 DEF AskFormOf, AskedForm
<1> QED BY <1>2, AskFormIs

-----------------------------------------------------------------------------
(* The gestures. *)

\* The form is another, and what is under way was sent with what it was.
LEMMA AskFormStep ==
  ASSUME AskInv, FormFine(form'), tasks' = Asks!Crossed(tasks), UNCHANGED <<waiting, log, queries, written>>
  PROVE  AskInv'
<1>1. IsFiniteSet(tasks) /\ \A c \in tasks : AskFine(c)
  BY DEF AskInv, TasksFine
<1>2. TasksFine(tasks', form'.oid, results')
  BY <1>1, CrossTasks
<1>3. tasks' = {} => tasks = {}
  BY <1>1, CrossedAre
<1> QED BY <1>2, <1>3 DEF AskInv, Asks!RecordedAsAsked, Asks!RowOnItsDevice, Asks!NothingIsBusy

LEMMA FormSteps ==
  ASSUME AskInv, \/ Asks!selectNode \/ Asks!pendingAction \/ Asks!handleOidInput
                 \/ Asks!handleInstanceChange \/ Asks!handleWalkResultClick \/ Asks!handleLoadQuery
  PROVE  AskInv'
<1>1. FormFine(form) /\ form.op \in Asks!Ops /\ {"GET", "WALK"} \subseteq Asks!Ops
  BY DEF AskInv, FormFine, Asks!Ops
<1>2. CASE Asks!selectNode
  <2>1. PICK n : form' = [form EXCEPT
                    !.op    = IF n = Table THEN "WALK" ELSE @,
                    !.oid   = [op \in Asks!Ops |-> Asks!Filled(op, n)],
                    !.typed = [op \in Asks!Ops |-> FALSE],
                    !.value = "default"]
    BY <1>2 DEF Asks!selectNode
  <2> DEFINE o == [op \in Asks!Ops |-> Asks!Filled(op, n)]
             t == [op \in Asks!Ops |-> FALSE]
             p == IF n = Table THEN "WALK" ELSE form.op
  <2>2. Has(Asks!Ops, o) /\ Has(Asks!Ops, t) /\ p \in Asks!Ops
    BY <1>1 DEF Has
  <2>3. form' = [form EXCEPT !.op = p, !.oid = o, !.typed = t, !.value = "default"]
    BY <2>1
  <2> HIDE DEF o, t, p
  <2>4. FormFine(form')
    BY <1>1, <2>2, <2>3, FormFollows
  <2> QED BY <1>2, <2>4, AskFormStep DEF Asks!selectNode
<1>3. CASE Asks!pendingAction
  <2>1. PICK op \in Asks!Ops, n \in Asks!Nodes : form' = [form EXCEPT !.op = op, !.oid[op] = Asks!WithInstance(n)]
    BY <1>3 DEF Asks!pendingAction
  <2>2. FormFine(form')
    BY <1>1, <2>1, FormSet
  <2> QED BY <1>3, <2>2, AskFormStep DEF Asks!pendingAction
<1>4. CASE Asks!handleOidInput
  <2>1. form' = [form EXCEPT !.oid[form.op] = ByHand, !.typed[form.op] = TRUE]
    BY <1>4 DEF Asks!handleOidInput
  <2>2. PICK h : h = TRUE
    OBVIOUS
  <2>3. form' = [form EXCEPT !.oid[form.op] = ByHand, !.typed[form.op] = h]
    BY <2>1, <2>2
  <2>4. FormFine(form')
    BY <1>1, <2>3, FormSet
  <2> QED BY <1>4, <2>4, AskFormStep DEF Asks!handleOidInput
<1>5. CASE Asks!handleInstanceChange
  <2>1. FormFine(form')
    BY <1>1, <1>5, FormSet DEF Asks!handleInstanceChange
  <2> QED BY <1>5, <2>1, AskFormStep DEF Asks!handleInstanceChange
<1>6. CASE Asks!handleWalkResultClick
  <2>1. form' = [form EXCEPT !.op = "GET", !.oid["GET"] = Asks!Oid(Column, "9"), !.oid["SET"] = Asks!Oid(Column, "9"),
                             !.typed["GET"] = TRUE, !.typed["SET"] = TRUE]
    BY <1>6 DEF Asks!handleWalkResultClick
  <2>2. PICK h, g, p : h = TRUE /\ g = Asks!Oid(Column, "9") /\ p = "GET"
    OBVIOUS
  <2>3. form' = [form EXCEPT !.op = p, !.oid["GET"] = g, !.oid["SET"] = g, !.typed["GET"] = h, !.typed["SET"] = h]
    BY <2>1, <2>2
  <2>4. FormFine(form')
    <3>1. p \in Asks!Ops
      BY <1>1, <2>2
    <3> QED BY <1>1, <2>3, <3>1, FormSet
  <2> QED BY <1>6, <2>4, AskFormStep DEF Asks!handleWalkResultClick
<1>7. CASE Asks!handleLoadQuery
  <2>1. PICK q \in queries :
          form' = [form EXCEPT !.op = q.op, !.oid[q.op] = q.oid, !.value = IF q.value # None THEN q.value ELSE @]
    BY <1>7 DEF Asks!handleLoadQuery
  <2>2. PICK v : v = IF q.value # None THEN q.value ELSE form.value
    OBVIOUS
  <2>3. PICK op, g : op = q.op /\ g = q.oid /\ op \in Asks!Ops
    BY DEF AskInv
  <2>4. form' = [form EXCEPT !.op = op, !.oid[op] = g, !.value = v]
    BY <2>1, <2>2, <2>3
  <2>5. FormFine(form')
    BY <1>1, <2>3, <2>4, FormSet
  <2> QED BY <1>7, <2>5, AskFormStep DEF Asks!handleLoadQuery
<1> QED BY <1>2, <1>3, <1>4, <1>5, <1>6, <1>7

\* What changes neither what was sent nor what is under way.
LEMMA TabSteps ==
  ASSUME AskInv, Asks!setValue \/ Asks!OperationTabs \/ Asks!saveCurrentQuery \/ Asks!CancelSet \/ UNCHANGED Asks!vars
  PROVE  AskInv'
<1>1. UNCHANGED <<waiting, results, tasks, log, written>>
  BY DEF Asks!setValue, Asks!OperationTabs, Asks!saveCurrentQuery, Asks!CancelSet, Asks!vars
<1>2. FormFine(form') /\ form'.oid = form.oid
  <2>1. FormFine(form)
    BY DEF AskInv
  <2>2. CASE Asks!setValue
    <3>1. Changed(form, form', "value", "typed")
      BY <2>2 DEF Asks!setValue, Changed
    <3> QED BY ONLY <2>1, <3>1, FormOne
  <2>3. CASE Asks!OperationTabs
    <3>1. PICK op \in Asks!Ops : Changed(form, form', "op", op)
      BY <2>3 DEF Asks!OperationTabs, Changed
    <3> QED BY ONLY <2>1, <3>1, FormOne
  <2>4. CASE Asks!saveCurrentQuery \/ Asks!CancelSet \/ UNCHANGED Asks!vars
    BY <2>1, <2>4 DEF Asks!saveCurrentQuery, Asks!CancelSet, Asks!vars
  <2> QED BY <2>2, <2>3, <2>4
<1>3. \A q \in queries' : q.op \in Asks!Ops
  <2>1. CASE Asks!saveCurrentQuery
    BY <2>1 DEF AskInv, FormFine, Asks!saveCurrentQuery
  <2>2. CASE UNCHANGED queries
    BY <2>2 DEF AskInv
  <2> QED BY <2>1, <2>2 DEF Asks!setValue, Asks!OperationTabs, Asks!CancelSet, Asks!vars
<1>4. TasksFine(tasks', form'.oid, results')
  BY <1>1, <1>2 DEF AskInv
<1> QED BY <1>1, <1>2, <1>3, <1>4 DEF AskInv, Asks!RecordedAsAsked, Asks!RowOnItsDevice, Asks!NothingIsBusy

-----------------------------------------------------------------------------
(* The operations. *)

\* A step of the operations, which leaves the form's OIDs.
LEMMA TaskStep ==
  ASSUME AskInv, FormFine(form'), UNCHANGED queries,
         TasksFine(tasks', form'.oid, results'), tasks' = {} => ~waiting',
         Asks!RecordedAsAsked', Asks!RowOnItsDevice'
  PROVE  AskInv'
BY DEF AskInv, Asks!NothingIsBusy

\* What is begun is the last, and disturbs the others (the loading flag is set).
LEMMA BeginIs ==
  ASSUME AskInv, NEW op \in Asks!Ops, Asks!Begin(op), UNCHANGED form
  PROVE  TasksFine(tasks', form'.oid, results') /\ tasks' # {}
<1> DEFINE n == [id |-> begun + 1, op |-> op, oid |-> form.oid[op], stage |-> "answer", crossed |-> tasks # {}]
<1>1. tasks' = Asks!Crossed(tasks) \cup {n}
  BY DEF Asks!Begin
<1>2. PICK b \in BOOLEAN : b = (tasks # {})
  OBVIOUS
<1>3. op # "ROW"
  BY DEF Asks!Ops
<1>4. AskFine(n) /\ n.stage = "answer" /\ n.op = op /\ n.oid = form.oid[op] /\ n.crossed = (tasks # {})
  BY <1>3 DEF AskFine, Has, AskFields
<1> HIDE DEF n
<1>5. IsFiniteSet(tasks) /\ \A c \in tasks : AskFine(c)
  BY DEF AskInv, TasksFine
<1>6. TasksFine(Asks!Crossed(tasks) \cup {n}, form.oid, results')
  BY <1>4, <1>5, JoinTask
<1> QED BY <1>1, <1>6

LEMMA BeginSteps ==
  ASSUME AskInv, Asks!Execute \/ Asks!AutoGet \/ Asks!handleSnmpSet
  PROVE  AskInv'
<1>1. UNCHANGED <<form, log, queries, written>> /\ FormFine(form)
  BY DEF AskInv, Asks!Execute, Asks!AutoGet, Asks!handleSnmpSet
<1>2. \/ \E op \in Asks!Ops : Asks!Begin(op)
      \/ UNCHANGED <<tasks, results, waiting>>
  <2>1. form.op \in Asks!Ops /\ {"GET", "SET"} \subseteq Asks!Ops
    BY <1>1 DEF FormFine, Asks!Ops
  <2> QED BY <2>1 DEF Asks!Execute, Asks!AutoGet, Asks!handleSnmpSet
<1>3. TasksFine(tasks', form'.oid, results') /\ (tasks' = {} => ~waiting')
  <2>1. CASE \E op \in Asks!Ops : Asks!Begin(op)
    BY <1>1, <2>1, BeginIs
  <2>2. CASE UNCHANGED <<tasks, results, waiting>>
    BY <1>1, <2>2 DEF AskInv, Asks!NothingIsBusy
  <2> QED BY <1>2, <2>1, <2>2
<1>4. Asks!RecordedAsAsked' /\ Asks!RowOnItsDevice'
  BY <1>1 DEF AskInv, Asks!RecordedAsAsked, Asks!RowOnItsDevice
<1> QED BY <1>1, <1>3, <1>4, TaskStep

LEMMA ConfirmStep == ASSUME AskInv, Asks!confirmSetAndExecute PROVE AskInv'
<1>1. UNCHANGED <<form, log, queries, written>> /\ FormFine(form) /\ "SET" \in Asks!Ops
  BY DEF AskInv, Asks!confirmSetAndExecute, Asks!Ops
<1>2. TasksFine(tasks', form'.oid, results') /\ (tasks' = {} => ~waiting')
  <2>1. CASE Asks!Begin("SET")
    BY <1>1, <2>1, BeginIs
  <2>2. CASE ~Asks!Begin("SET")
    <3> DEFINE n == [id |-> 0, op |-> "SET", oid |-> form.oid["SET"], stage |-> "save", crossed |-> tasks # {}]
    <3>1. tasks' = tasks \cup {n} /\ UNCHANGED results
      BY <2>2 DEF Asks!confirmSetAndExecute
    <3>2. AskFine(n) /\ n.stage = "save" /\ n.op = "SET" /\ n.oid = form.oid["SET"] /\ n.crossed = (tasks # {})
      BY <1>1 DEF AskFine, Has, AskFields
    <3> HIDE DEF n
    <3>3. TasksFine(tasks, form.oid, results)
      BY DEF AskInv
    <3>4. IsFiniteSet(tasks')
      BY <3>1, <3>3, FS_AddElement DEF TasksFine
    <3>5. \A c \in tasks' : AskFine(c)
      BY <3>1, <3>2, <3>3 DEF TasksFine
    <3>6. Undisturbed(tasks')
      BY <3>1, <3>2, <3>3 DEF TasksFine, Undisturbed
    <3>7. StillTyped(tasks', form.oid) /\ StillShown(tasks', results')
      BY <3>1, <3>2, <3>3 DEF TasksFine, StillTyped, StillShown
    <3> QED BY <1>1, <3>1, <3>4, <3>5, <3>6, <3>7 DEF TasksFine
  <2> QED BY <2>1, <2>2
<1>3. Asks!RecordedAsAsked' /\ Asks!RowOnItsDevice'
  BY <1>1 DEF AskInv, Asks!RecordedAsAsked, Asks!RowOnItsDevice
<1> QED BY <1>1, <1>2, <1>3, TaskStep

LEMMA SavedStep == ASSUME AskInv, Asks!SettingSaved PROVE AskInv'
<1>1. UNCHANGED <<form, log, queries, written>> /\ FormFine(form)
  BY DEF AskInv, Asks!SettingSaved
<1>2. PICK c \in tasks : /\ c.stage = "save"
                         /\ tasks' = Asks!Crossed(tasks \ {c}) \cup
                              {[c EXCEPT !.id = begun + 1, !.oid = form.oid["SET"], !.stage = "answer"]}
  BY DEF Asks!SettingSaved
<1>3. TasksFine(tasks, form.oid, results)
  BY DEF AskInv
<1>4. AskFine(c) /\ c.op = "SET"
  BY <1>2, <1>3 DEF TasksFine, AskFine
<1> DEFINE n == [c EXCEPT !.id = begun + 1, !.oid = form.oid["SET"], !.stage = "answer"]
<1>5. /\ AskFine(n) /\ n.stage = "answer" /\ n.op = "SET" /\ n.oid = form.oid["SET"]
      /\ n.crossed = c.crossed
  <2>1. Sent(c, n, begun + 1, form.oid["SET"]) /\ c.op # "ROW"
    BY <1>4 DEF Sent
  <2> HIDE DEF n
  <2> QED BY ONLY <1>4, <2>1, SentIs
<1>6. tasks' = Asks!Crossed(tasks \ {c}) \cup {n}
  BY <1>2
<1> HIDE DEF n
<1>7. TasksFine(tasks \ {c}, form.oid, results)
  BY <1>3, FewerTasks
<1>8. c.crossed \/ \A d \in tasks \ {c} : d.stage = "save"
  BY <1>2, <1>3 DEF TasksFine, Undisturbed
<1>9. TasksFine(Asks!Crossed(tasks \ {c}) \cup {n}, form.oid, results')
  <2>1. IsFiniteSet(tasks \ {c}) /\ \A d \in tasks \ {c} : AskFine(d)
    BY <1>7 DEF TasksFine
  <2> QED BY <1>5, <1>8, <2>1, JoinTask
<1>10. Asks!RecordedAsAsked' /\ Asks!RowOnItsDevice'
  BY <1>1 DEF AskInv, Asks!RecordedAsAsked, Asks!RowOnItsDevice
<1> QED BY <1>1, <1>6, <1>9, <1>10, TaskStep

LEMMA RecordIs ==
  ASSUME NEW c, NEW r, NEW b
  PROVE  LET e == Asks!Entry(c, r, b) IN e.c = c /\ e.oid = form.oid[c.op] /\ e.of = r /\ e.failed = b
BY DEF Asks!Entry, Asks!recordedOid

LEMMA AnsweredStep == ASSUME AskInv, Asks!Answered PROVE AskInv'
<1>1. UNCHANGED <<form, queries, written>> /\ FormFine(form)
  BY DEF AskInv, Asks!Answered
<1>2. PICK c \in tasks :
        /\ c.stage = "answer" /\ c.op # "ROW"
        /\ results' = [id |-> c.id, from |-> DOMAIN Asks!executeGrouped(c.oid), op |-> c.op]
        /\ IF c.op = "SET"
             THEN /\ tasks' = tasks \ {c} /\ waiting' = FALSE
                  /\ log' = log \cup {Asks!Entry(c, results', FALSE)}
             ELSE /\ tasks' = (tasks \ {c}) \cup {[c EXCEPT !.stage = "resolve"]}
                  /\ UNCHANGED <<waiting, log>>
  BY DEF Asks!Answered
<1>3. TasksFine(tasks, form.oid, results)
  BY DEF AskInv
<1>4. results'.id = c.id /\ results'.from = Agents
  BY <1>2, GroupsAreAll
<1>5. \A d \in tasks \ {c} : d.crossed
  BY <1>2, <1>3 DEF TasksFine, Undisturbed
<1>6. AskFine(c) /\ (~c.crossed => c.oid = form.oid[c.op])
  BY <1>2, <1>3 DEF TasksFine, StillTyped
<1>7. CASE c.op = "SET"
  <2>1. TasksFine(tasks', form'.oid, results')
    <3>1. TasksFine(tasks', form.oid, results)
      BY <1>2, <1>3, <1>7, FewerTasks
    <3>2. \A d \in tasks' : d.crossed
      BY <1>2, <1>5, <1>7
    <3> QED BY <1>1, <3>1, <3>2 DEF TasksFine, StillShown
  <2>2. Asks!RecordedAsAsked'
    <3>1. PICK b : b = FALSE
      OBVIOUS
    <3> DEFINE e == Asks!Entry(c, results', b)
    <3>2. PICK r : r = results'
      OBVIOUS
    <3>3. e.c = c /\ e.oid = form.oid[c.op] /\ e.of = results'
      BY <3>2, RecordIs
    <3>4. log' = log \cup {e}
      BY <1>2, <1>7, <3>1
    <3> HIDE DEF e
    <3>5. ~e.c.crossed => e.oid = e.c.oid /\ e.of.id = e.c.id /\ e.of.from = Agents
      BY <1>4, <1>6, <3>3
    <3> QED BY <3>4, <3>5 DEF AskInv, Asks!RecordedAsAsked
  <2>3. Asks!RowOnItsDevice'
    BY <1>1 DEF AskInv, Asks!RowOnItsDevice
  <2> QED BY <1>1, <1>2, <1>7, <2>1, <2>2, <2>3, TaskStep
<1>8. CASE c.op # "SET"
  <2> DEFINE n == [c EXCEPT !.stage = "resolve"]
  <2>1. Changed(c, n, "stage", "resolve")
    BY DEF Changed
  <2>2. tasks' = (tasks \ {c}) \cup {n} /\ UNCHANGED <<waiting, log>>
    BY <1>2, <1>8
  <2> HIDE DEF n
  <2>3. AskFine(n) /\ n.stage = "resolve" /\ n.op = c.op /\ n.oid = c.oid /\ n.crossed = c.crossed /\ n.id = c.id
    BY ONLY <1>2, <1>6, <2>1, AskResolves
  <2>4. TasksFine(tasks', form'.oid, results')
    <3>1. TasksFine(tasks \ {c}, form.oid, results)
      BY <1>3, FewerTasks
    <3>2. IsFiniteSet(tasks')
      BY <2>2, <3>1, FS_AddElement DEF TasksFine
    <3>3. \A d \in tasks' : AskFine(d)
      BY <2>2, <2>3, <3>1 DEF TasksFine
    <3>4. Undisturbed(tasks')
      <4>1. ~c.crossed => \A d \in tasks \ {c} : d.stage = "save"
        BY <1>3 DEF TasksFine, Undisturbed
      <4> QED BY <1>5, <2>2, <2>3, <4>1 DEF Undisturbed
    <3>5. StillTyped(tasks', form.oid) /\ StillShown(tasks', results')
      BY <1>4, <1>5, <1>6, <2>2, <2>3 DEF StillTyped, StillShown
    <3> QED BY <1>1, <3>2, <3>3, <3>4, <3>5 DEF TasksFine
  <2>5. Asks!RecordedAsAsked' /\ Asks!RowOnItsDevice'
    BY <1>1, <2>2 DEF AskInv, Asks!RecordedAsAsked, Asks!RowOnItsDevice
  <2>6. tasks' # {}
    BY <2>2
  <2> QED BY <1>1, <2>4, <2>5, <2>6, TaskStep
<1> QED BY <1>7, <1>8

\* What an operation records when it is over.
LEMMA OverStep ==
  ASSUME AskInv, NEW c \in tasks, c.op # "ROW", NEW b, b \/ c.stage = "resolve", FormFine(form'), form'.oid = form.oid,
         tasks' = tasks \ {c}, waiting' = FALSE, log' = log \cup {Asks!Entry(c, results, b)},
         UNCHANGED <<results, queries, written>>
  PROVE  AskInv'
<1>1. TasksFine(tasks, form.oid, results)
  BY DEF AskInv
<1>2. TasksFine(tasks', form'.oid, results')
  BY <1>1, FewerTasks
<1>3. ~c.crossed => c.oid = form.oid[c.op]
  BY <1>1 DEF TasksFine, StillTyped
<1>4. ~c.crossed /\ ~b => results.id = c.id /\ results.from = Agents
  BY <1>1 DEF TasksFine, StillShown
<1>5. Asks!RecordedAsAsked'
  <2> DEFINE e == Asks!Entry(c, results, b)
  <2>1. e.c = c /\ e.oid = form.oid[c.op] /\ e.of = results /\ e.failed = b
    <3>1. PICK r : r = results
      OBVIOUS
    <3> QED BY <3>1, RecordIs
  <2>2. log' = log \cup {e}
    OBVIOUS
  <2> HIDE DEF e
  <2>3. ~e.c.crossed => e.oid = e.c.oid /\ (~e.failed => e.of.id = e.c.id /\ e.of.from = Agents)
    BY <1>3, <1>4, <2>1
  <2> QED BY <2>2, <2>3 DEF AskInv, Asks!RecordedAsAsked
<1>6. Asks!RowOnItsDevice'
  BY DEF AskInv, Asks!RowOnItsDevice
<1> QED BY <1>2, <1>5, <1>6, TaskStep

LEMMA OverSteps == ASSUME AskInv, Asks!Resolved \/ Asks!Failed PROVE AskInv'
<1>1. UNCHANGED <<results, queries, written>> /\ FormFine(form)
  BY DEF AskInv, Asks!Resolved, Asks!Failed
<1>2. CASE Asks!Resolved
  <2>1. PICK c \in tasks :
          /\ c.stage = "resolve" /\ tasks' = tasks \ {c} /\ waiting' = FALSE
          /\ log' = log \cup {Asks!Entry(c, results, FALSE)}
          /\ \/ form' = [form EXCEPT !.value = <<"of", c.oid>>]
             \/ form' = form
    BY <1>2 DEF Asks!Resolved
  <2>2. c.op # "ROW"
    BY <2>1 DEF AskInv, TasksFine, AskFine
  <2>3. FormFine(form') /\ form'.oid = form.oid
    <3>1. CASE form' = [form EXCEPT !.value = <<"of", c.oid>>]
      <4>1. Changed(form, form', "value", <<"of", c.oid>>)
        BY <3>1 DEF Changed
      <4> QED BY ONLY <1>1, <4>1, FormOne
    <3> QED BY <1>1, <2>1, <3>1
  <2>4. PICK b : ~b /\ b = FALSE
    OBVIOUS
  <2>5. log' = log \cup {Asks!Entry(c, results, b)}
    BY <2>1, <2>4
  <2> QED BY <1>1, <2>1, <2>2, <2>3, <2>5, OverStep
<1>3. CASE Asks!Failed
  <2>1. PICK c \in tasks :
          /\ c.op # "ROW" /\ tasks' = tasks \ {c} /\ waiting' = FALSE /\ form' = form
          /\ log' = log \cup {Asks!Entry(c, results, TRUE)}
    BY <1>3 DEF Asks!Failed
  <2>2. PICK b : b /\ b = TRUE
    OBVIOUS
  <2>3. log' = log \cup {Asks!Entry(c, results, b)}
    BY <2>1, <2>2
  <2> QED BY <1>1, <2>1, <2>2, <2>3, OverStep
<1> QED BY <1>2, <1>3

LEMMA RowAskedStep == ASSUME AskInv, Asks!handleTableRowWrite PROVE AskInv'
<1>1. UNCHANGED <<form, log, queries>> /\ FormFine(form) /\ waiting'
  BY DEF AskInv, Asks!handleTableRowWrite
<1>2. PICK t \in results.from :
        /\ written' = written \cup {<<t, Asks!rowTargets(t)>>}
        /\ tasks' = Asks!Crossed(tasks) \cup
             {[id |-> begun + 1, op |-> "ROW", oid |-> None, stage |-> "answer", crossed |-> tasks # {}]}
  BY DEF Asks!handleTableRowWrite
<1> DEFINE n == [id |-> begun + 1, op |-> "ROW", oid |-> None, stage |-> "answer", crossed |-> tasks # {}]
<1>3. AskFine(n) /\ n.stage = "answer" /\ n.op = "ROW" /\ n.crossed = (tasks # {})
  BY DEF AskFine, Has, AskFields
<1>4. tasks' = Asks!Crossed(tasks) \cup {n}
  BY <1>2
<1> HIDE DEF n
<1>5. TasksFine(tasks', form'.oid, results')
  <2>1. IsFiniteSet(tasks) /\ \A c \in tasks : AskFine(c)
    BY DEF AskInv, TasksFine
  <2>2. TasksFine(Asks!Crossed(tasks) \cup {n}, form.oid, results')
    BY <1>3, <2>1, JoinTask
  <2> QED BY <1>1, <1>4, <2>2
<1>6. tasks' # {}
  BY <1>4
<1>7. Asks!RowOnItsDevice'
  BY <1>2 DEF AskInv, Asks!RowOnItsDevice, Asks!rowTargets
<1>8. Asks!RecordedAsAsked'
  BY <1>1 DEF AskInv, Asks!RecordedAsAsked
<1> QED BY <1>1, <1>5, <1>6, <1>7, <1>8, TaskStep

LEMMA RowWrittenStep == ASSUME AskInv, Asks!RowWritten PROVE AskInv'
<1>1. UNCHANGED <<form, log, queries, written>> /\ FormFine(form)
  BY DEF AskInv, Asks!RowWritten
<1>2. PICK c \in tasks :
        /\ c.op = "ROW"
        /\ \/ tasks' = tasks \ {c} /\ waiting' = FALSE /\ UNCHANGED <<results, begun>>
           \/ /\ waiting' = TRUE
              /\ tasks' = Asks!Crossed(tasks \ {c}) \cup
                   {[c EXCEPT !.id = begun + 1, !.op = form.op, !.oid = form.oid[form.op],
                              !.crossed = Asks!Cardinality(tasks) > 1]}
  BY DEF Asks!RowWritten
<1>3. TasksFine(tasks, form.oid, results)
  BY DEF AskInv
<1>4. AskFine(c)
  BY <1>3 DEF TasksFine
<1>5. Asks!RecordedAsAsked' /\ Asks!RowOnItsDevice'
  BY <1>1 DEF AskInv, Asks!RecordedAsAsked, Asks!RowOnItsDevice
<1>6. TasksFine(tasks \ {c}, form.oid, results)
  BY <1>3, FewerTasks
<1>7. CASE tasks' = tasks \ {c} /\ waiting' = FALSE /\ UNCHANGED <<results, begun>>
  BY <1>1, <1>5, <1>6, <1>7, TaskStep
<1>8. CASE /\ waiting' = TRUE
           /\ tasks' = Asks!Crossed(tasks \ {c}) \cup
                {[c EXCEPT !.id = begun + 1, !.op = form.op, !.oid = form.oid[form.op],
                           !.crossed = Asks!Cardinality(tasks) > 1]}
  <2> DEFINE n == [c EXCEPT !.id = begun + 1, !.op = form.op, !.oid = form.oid[form.op],
                            !.crossed = Asks!Cardinality(tasks) > 1]
  <2>1. PICK b : b = (Asks!Cardinality(tasks) > 1)
    OBVIOUS
  <2>2. form.op \in Asks!Ops
    BY <1>1 DEF FormFine
  <2>3. ReadBack(c, n, begun + 1, form.op, form.oid[form.op], b)
    BY <2>1 DEF ReadBack
  <2>6. tasks' = Asks!Crossed(tasks \ {c}) \cup {n}
    BY <1>8
  <2> HIDE DEF n
  <2>7. AskFine(n) /\ n.stage = "answer" /\ n.op = form.op /\ n.oid = form.oid[form.op] /\ n.crossed = b
    BY ONLY <1>2, <1>4, <2>2, <2>3, ReadBackIs
  <2>8. b \/ \A d \in tasks \ {c} : d.stage = "save"
    <3> SUFFICES ASSUME ~b PROVE tasks \ {c} = {}
      OBVIOUS
    <3>1. IsFiniteSet(tasks) /\ Asks!Cardinality(tasks) = Cardinality(tasks)
      BY <1>3 DEF TasksFine, Cardinality, Asks!Cardinality
    <3>2. Cardinality(tasks) \in Nat /\ Cardinality(tasks \ {c}) = Cardinality(tasks) - 1 /\ IsFiniteSet(tasks \ {c})
      BY <3>1, FS_CardinalityType, FS_RemoveElement
    <3>3. Cardinality(tasks \ {c}) \in Nat
      BY <3>2, FS_CardinalityType
    <3>4. ~(Asks!Cardinality(tasks) > 1)
      BY <2>1
    <3>5. Cardinality(tasks \ {c}) = 0
      BY <3>1, <3>2, <3>3, <3>4
    <3> QED BY <3>2, <3>5, FS_EmptySet
  <2>9. TasksFine(Asks!Crossed(tasks \ {c}) \cup {n}, form.oid, results')
    <3>1. IsFiniteSet(tasks \ {c}) /\ \A d \in tasks \ {c} : AskFine(d)
      BY <1>6 DEF TasksFine
    <3>2. n.stage # "resolve" /\ (n.crossed \/ n.op = "ROW" \/ n.oid = form.oid[n.op])
      BY <2>7
    <3>3. n.crossed \/ \A d \in tasks \ {c} : d.stage = "save"
      BY <2>7, <2>8
    <3> QED BY ONLY <2>7, <3>1, <3>2, <3>3, JoinTask
  <2>10. tasks' # {}
    BY <2>6
  <2> QED BY <1>1, <1>5, <2>6, <2>9, <2>10, TaskStep
<1> QED BY <1>2, <1>7, <1>8

-----------------------------------------------------------------------------
(* Every step. *)

LEMMA AskInit == ASSUME Asks!Init PROVE AskInv
<1>1. FormFine(form)
  <2> DEFINE o == [op \in Asks!Ops |-> <<>>]
             t == [op \in Asks!Ops |-> FALSE]
  <2>1. form = [op |-> "GET", oid |-> o, typed |-> t, value |-> "default"]
    BY DEF Asks!Init
  <2>2. Has(Asks!Ops, o) /\ Has(Asks!Ops, t) /\ "GET" \in Asks!Ops
    BY DEF Has, Asks!Ops
  <2> HIDE DEF o, t
  <2>3. FormFine(AskFormOf("GET", o, t, "default"))
    BY <2>2, AskFormIs
  <2>4. form = AskFormOf("GET", o, t, "default")
    BY <2>1 DEF AskFormOf, AskedForm
  <2> QED BY <2>3, <2>4
<1>2. queries = {} /\ tasks = {} /\ log = {} /\ written = {} /\ ~waiting
  BY DEF Asks!Init
<1>3. TasksFine(tasks, form.oid, results)
  BY <1>2, FS_EmptySet DEF TasksFine, Undisturbed, StillTyped, StillShown
<1> QED BY <1>1, <1>2, <1>3 DEF AskInv, Asks!RecordedAsAsked, Asks!RowOnItsDevice, Asks!NothingIsBusy

LEMMA AskEveryStep == ASSUME AskInv, [Asks!Next]_Asks!vars PROVE AskInv'
<1>1. CASE \/ Asks!selectNode \/ Asks!pendingAction \/ Asks!handleOidInput
           \/ Asks!handleInstanceChange \/ Asks!handleWalkResultClick \/ Asks!handleLoadQuery
  BY <1>1, FormSteps
<1>2. CASE Asks!setValue \/ Asks!OperationTabs \/ Asks!saveCurrentQuery \/ Asks!CancelSet \/ UNCHANGED Asks!vars
  BY <1>2, TabSteps
<1>3. CASE Asks!Execute \/ Asks!AutoGet \/ Asks!handleSnmpSet
  BY <1>3, BeginSteps
<1>4. CASE Asks!confirmSetAndExecute
  BY <1>4, ConfirmStep
<1>5. CASE Asks!SettingSaved
  BY <1>5, SavedStep
<1>6. CASE Asks!Answered
  BY <1>6, AnsweredStep
<1>7. CASE Asks!Resolved \/ Asks!Failed
  BY <1>7, OverSteps
<1>8. CASE Asks!handleTableRowWrite
  BY <1>8, RowAskedStep
<1>9. CASE Asks!RowWritten
  BY <1>9, RowWrittenStep
<1> QED BY <1>1, <1>2, <1>3, <1>4, <1>5, <1>6, <1>7, <1>8, <1>9 DEF Asks!Next

LEMMA AskAlways == Asks!Spec => []AskInv
<1>1. Asks!Init => AskInv
  BY AskInit
<1>2. AskInv /\ [Asks!Next]_Asks!vars => AskInv'
  BY AskEveryStep
<1> QED BY <1>1, <1>2, PTL DEF Asks!Spec

\* What is asked on demand is recorded as it was asked and answered, unless
\* something else was begun or chosen meanwhile, and a row is written on the one
\* device it was clicked on, whatever else is under way (OperationsPanel.svelte).
THEOREM AnswersKept == Asks!Spec => []AnswersStayTheirs
<1>1. AskInv => Asks!AnswersStayTheirs
  BY DEF AskInv, Asks!AnswersStayTheirs
<1>2. AskInv => AnswersStayTheirs
  BY <1>1 DEF AnswersStayTheirs
<1> QED BY <1>2, AskAlways, PTL

\* The flag that keeps a second operation from being begun goes with the last
\* one (loading, OperationsPanel.svelte).
THEOREM PanelIsFreed == Asks!Spec => []Asks!NothingIsBusy
<1>1. AskInv => Asks!NothingIsBusy
  BY DEF AskInv
<1> QED BY <1>1, AskAlways, PTL

\* What was typed survives the next node that is selected (Filled).
THEOREM TypedIsKept == Asks!Spec => [][Asks!KeepsTyped]_Asks!vars
<1>1. ASSUME AskInv, [Asks!Next]_Asks!vars PROVE [Asks!KeepsTyped]_Asks!vars
  <2> SUFFICES ASSUME NEW op \in Asks!Ops, node' # node, form.typed[op] PROVE form'.oid[op] = form.oid[op]
    BY DEF Asks!KeepsTyped
  <2>1. Asks!selectNode
    BY <1>1 DEF Asks!Next, Asks!vars, Asks!pendingAction, Asks!handleOidInput, Asks!handleInstanceChange,
       Asks!setValue, Asks!handleWalkResultClick, Asks!OperationTabs, Asks!saveCurrentQuery,
       Asks!handleLoadQuery, Asks!Execute, Asks!AutoGet, Asks!handleSnmpSet, Asks!confirmSetAndExecute,
       Asks!SettingSaved, Asks!CancelSet, Asks!Answered, Asks!Resolved, Asks!Failed,
       Asks!handleTableRowWrite, Asks!RowWritten
  <2>2. PICK n : form' = [form EXCEPT
                    !.op    = IF n = Table THEN "WALK" ELSE @,
                    !.oid   = [o \in Asks!Ops |-> Asks!Filled(o, n)],
                    !.typed = [o \in Asks!Ops |-> FALSE],
                    !.value = "default"]
    BY <2>1 DEF Asks!selectNode
  <2>3. DOMAIN form = AskedForm
    BY <1>1, HasDomain DEF AskInv, FormFine
  <2> DEFINE oids == [o \in Asks!Ops |-> Asks!Filled(o, n)]
             f == AskFormOf(IF n = Table THEN "WALK" ELSE form.op, oids, [o \in Asks!Ops |-> FALSE], "default")
  <2>4. form' = f
    BY <2>2, <2>3 DEF AskFormOf, AskedForm
  <2>5. f["oid"] = oids
    BY DEF AskFormOf, AskedForm
  <2> HIDE DEF f
  <2>6. form'.oid[op] = Asks!Filled(op, n)
    BY <2>4, <2>5
  <2> QED BY <2>6 DEF Asks!Filled
<1> QED BY <1>1, AskAlways, PTL DEF Asks!Spec

(***************************************************************************)
(* Identities: the targets, their overrides and the credential profiles.   *)
(*                                                                         *)
(* What decides who a target is asked as is its override, the profile this *)
(* names and the defaults.  So a step disturbs nobody else when it leaves  *)
(* these alone, and the copy of the settings dialog differs from what is   *)
(* stored for the targets its edits are about.                             *)
(***************************************************************************)
\* A profile's id is none of the other references, and nothing is no record.
BookAssumption == /\ Profiles \cap {None, "", Who!Default} = {}
                  /\ \A fields : ~Has(fields, None)

BookFields   == {"targets", "overrides", "groups", "assigned", "profiles", "identity"}
IsProfile(p) == Has({"id", "name", "version", "secret", "traps"}, p) /\ p.id \in Profiles

\* No two profiles have one id.
Sound(s) ==
  /\ Has(BookFields, s) /\ Has({"version", "secret"}, s.identity)
  /\ \A p \in s.profiles : IsProfile(p)
  /\ \A p, q \in s.profiles : p.id = q.id => p = q

\* A target is asked the same by both.
Same(s, t, a) == Who!getEffectiveSettings(t, a) = Who!getEffectiveSettings(s, a)

\* The copy is what is stored, but for what its edits are about.
CopyOfStored ==
  /\ Sound(work) /\ work.identity.version = book.identity.version
  /\ \A a \in Addresses \ touched : Same(book, work, a)

\* A new profile has an id that no other has.
DraftIsNew ==
  /\ Has({"draft", "isNew", "assigned"}, editing)
  /\ IsProfile(editing.draft)
  /\ editing.isNew => \A p \in book.profiles \cup work.profiles : p.id # editing.draft.id

BookInv ==
  /\ Sound(book)
  /\ work # None => CopyOfStored
  /\ editing # None => work # None /\ DraftIsNew
  /\ saved # None => /\ Sound(saved.before) /\ Sound(saved.after)
                     /\ saved.before.identity.version = saved.after.identity.version

\* The overrides that are replaced, and the others.
LEMMA OverriddenIs ==
  ASSUME NEW o, NEW by, NEW a
  PROVE  Who!OverrideOf(Who!Overridden(o, by), a) = IF a \in DOMAIN by THEN by[a] ELSE Who!OverrideOf(o, a)
<1> DEFINE all == [b \in DOMAIN o \cup DOMAIN by |-> IF b \in DOMAIN by THEN by[b] ELSE o[b]]
           left == {b \in DOMAIN all : all[b] # Who!Bare}
<1>1. Who!Overridden(o, by) = [b \in left |-> all[b]]
  BY DEF Who!Overridden
<1>2. DOMAIN all = DOMAIN o \cup DOMAIN by
  OBVIOUS
<1>3. Who!OverrideOf(Who!Overridden(o, by), a) = IF a \in left THEN all[a] ELSE Who!Bare
  BY <1>1 DEF Who!OverrideOf
<1>4. CASE a \in DOMAIN by
  BY <1>2, <1>3, <1>4
<1>5. CASE a \notin DOMAIN by
  BY <1>2, <1>3, <1>5 DEF Who!OverrideOf
<1> QED BY <1>4, <1>5

\* The targets that are given a profile, or handed back.
LEMMA AssignedIs ==
  ASSUME NEW o, NEW S, NEW id, NEW a, a \notin S
  PROVE  Who!OverrideOf(Who!assignProfile(o, S, id), a) = Who!OverrideOf(o, a)
BY OverriddenIs DEF Who!assignProfile

\* The profile an id names.
LEMMA FoundIs ==
  ASSUME BookAssumption, NEW s, Sound(s), NEW id
  PROVE  /\ \A p \in s.profiles : p.id = id => Who!findProfile(s, id) = p
         /\ (\A p \in s.profiles : p.id # id) => Who!findProfile(s, id) = None
         /\ None \notin s.profiles
<1>1. None \notin s.profiles
  BY DEF BookAssumption, Sound, IsProfile
<1> QED BY <1>1 DEF Sound, Who!findProfile

\* Both have the profile of this id, and it says the same, or neither has it.
AskedAlike(s, t, id) ==
  /\ \A p \in s.profiles : p.id = id => \E q \in t.profiles : q.id = id /\ q.version = p.version /\ q.secret = p.secret
  /\ \A q \in t.profiles : q.id = id => \E p \in s.profiles : p.id = id

\* What decides who a target is asked as.
LEMMA Decides ==
  ASSUME BookAssumption, NEW s, NEW t, Sound(s), Sound(t), NEW a,
         Who!OverrideOf(t.overrides, a) = Who!OverrideOf(s.overrides, a),
         AskedAlike(s, t, Who!OverrideOf(s.overrides, a).profile),
         t.identity = s.identity \/ Who!getEffectiveSettings(s, a).ref # Who!Default
  PROVE  Same(s, t, a)
<1> DEFINE ov == Who!OverrideOf(s.overrides, a)
           id == ov.profile
           p  == Who!findProfile(s, id)
           q  == Who!findProfile(t, id)
<1>1. /\ Who!getEffectiveSettings(s, a).who = (IF p # None THEN Who!profileIdentity(p) ELSE IF ov.own # None THEN ov.own ELSE s.identity)
      /\ Who!getEffectiveSettings(s, a).ref = (IF p # None THEN p.id ELSE IF ov.own # None THEN "" ELSE Who!Default)
  BY DEF Who!getEffectiveSettings
<1>2. Who!getEffectiveSettings(s, a) =
        [who  |-> IF p # None THEN Who!profileIdentity(p) ELSE IF ov.own # None THEN ov.own ELSE s.identity,
         ref  |-> IF p # None THEN p.id ELSE IF ov.own # None THEN "" ELSE Who!Default,
         port |-> IF a \in NamedPort THEN a ELSE IF ov.port THEN "override" ELSE Who!Default]
  BY DEF Who!getEffectiveSettings
<1>3. Who!getEffectiveSettings(t, a) =
        [who  |-> IF q # None THEN Who!profileIdentity(q) ELSE IF ov.own # None THEN ov.own ELSE t.identity,
         ref  |-> IF q # None THEN q.id ELSE IF ov.own # None THEN "" ELSE Who!Default,
         port |-> IF a \in NamedPort THEN a ELSE IF ov.port THEN "override" ELSE Who!Default]
  BY DEF Who!getEffectiveSettings
<1> HIDE DEF p, q
<1>4. CASE \E x \in s.profiles : x.id = id
  <2>1. PICK x \in s.profiles : x.id = id
    BY <1>4
  <2>2. PICK y \in t.profiles : y.id = id /\ y.version = x.version /\ y.secret = x.secret
    BY <2>1 DEF AskedAlike
  <2>3. p = x /\ q = y /\ x # None /\ y # None
    BY <2>1, <2>2, FoundIs DEF p, q, Sound
  <2>4. Who!profileIdentity(p) = Who!profileIdentity(q) /\ p.id = q.id /\ p # None /\ q # None
    BY <2>1, <2>2, <2>3 DEF Who!profileIdentity
  <2> QED BY <1>2, <1>3, <2>4 DEF Same
<1>5. CASE \A x \in s.profiles : x.id # id
  <2>1. \A y \in t.profiles : y.id # id
    BY <1>5 DEF AskedAlike
  <2>2. p = None /\ q = None
    BY <1>5, <2>1, FoundIs DEF p, q
  <2>3. ov.own # None \/ t.identity = s.identity
    BY <1>1, <2>2
  <2> DEFINE w    == IF ov.own # None THEN ov.own ELSE s.identity
             v    == IF ov.own # None THEN ov.own ELSE t.identity
             ref  == IF ov.own # None THEN "" ELSE Who!Default
             port == IF a \in NamedPort THEN a ELSE IF ov.port THEN "override" ELSE Who!Default
  <2>4. w = v
    BY <2>3
  <2>5. Who!getEffectiveSettings(s, a) = [who |-> w, ref |-> ref, port |-> port]
    BY <1>2, <2>2
  <2>6. Who!getEffectiveSettings(t, a) = [who |-> v, ref |-> ref, port |-> port]
    BY <1>3, <2>2
  <2> HIDE DEF w, v, ref, port
  <2> QED BY <2>4, <2>5, <2>6 DEF Same
<1> QED BY <1>4, <1>5

\* A step that leaves the profiles and the defaults alone.
Apart(s, t) == Has(BookFields, t) /\ t.profiles = s.profiles /\ t.identity = s.identity

LEMMA ApartKeeps ==
  ASSUME BookAssumption, NEW s, NEW t, Sound(s), Apart(s, t)
  PROVE  /\ Sound(t)
         /\ \A a : Who!OverrideOf(t.overrides, a) = Who!OverrideOf(s.overrides, a) => Same(s, t, a)
<1>1. Sound(t)
  BY DEF Sound, Apart
<1>2. \A id : AskedAlike(s, t, id)
  BY DEF AskedAlike, Apart
<1> QED BY <1>1, <1>2, Decides DEF Apart

\* The target manager: only the targets an edit is about are asked otherwise.
Manages(about) ==
  /\ Apart(book, book') /\ touched' = about /\ work = None /\ work' = None /\ editing' = editing /\ saved' = None
  /\ \A a : a \notin about => Who!OverrideOf(book'.overrides, a) = Who!OverrideOf(book.overrides, a)

LEMMA ManagesKeeps ==
  ASSUME BookAssumption, BookInv, NEW about, Manages(about)
  PROVE  BookInv' /\ Who!KeepsOthers
<1>1. Sound(book') /\ \A a : a \notin about => Same(book, book', a)
  BY ApartKeeps DEF Manages, BookInv
<1>2. editing' = None
  BY DEF BookInv, Manages
<1>3. BookInv'
  BY <1>1, <1>2 DEF BookInv, Manages
<1>4. Who!KeepsOthers
  BY <1>1 DEF Who!KeepsOthers, Same, Manages
<1> QED BY <1>3, <1>4

\* The steps that touch no override.
LEMMA ListEdits ==
  ASSUME BookAssumption, BookInv,
         \/ Who!toggleTarget \/ Who!importTargets \/ Who!addGroup \/ Who!deleteGroup \/ Who!moveTargetToGroup
  PROVE  Manages({})
<1>0. Has(BookFields, book) /\ DOMAIN book = BookFields
  BY HasDomain DEF BookInv, Sound
<1>1. PICK s : Who!Edit(s, {}) /\ Apart(book, s) /\ s.overrides = book.overrides
  <2>1. CASE Who!toggleTarget
    BY <1>0, <2>1 DEF Who!toggleTarget, Apart, Has, BookFields
  <2>2. CASE Who!importTargets
    <3>1. \A once, g : LET s == Who!imported(once, g) IN Apart(book, s) /\ s.overrides = book.overrides
      BY <1>0 DEF Who!imported, Apart, Has, BookFields
    <3>2. \E once, g : Who!Edit(Who!imported(once, g), {})
      BY <2>2 DEF Who!importTargets
    <3> QED BY <3>1, <3>2
  <2>3. CASE Who!addGroup
    BY <1>0, <2>3 DEF Who!addGroup, Apart, Has, BookFields
  <2>4. CASE Who!deleteGroup
    <3>1. PICK x, y : Who!Edit([book EXCEPT !.groups = x, !.assigned = y], {})
      BY <2>4 DEF Who!deleteGroup
    <3> DEFINE s == [book EXCEPT !.groups = x, !.assigned = y]
    <3>2. Apart(book, s) /\ s.overrides = book.overrides
      BY <1>0 DEF Apart, Has, BookFields
    <3> HIDE DEF s
    <3> QED BY <3>1, <3>2 DEF s
  <2>5. CASE Who!moveTargetToGroup
    BY <1>0, <2>5 DEF Who!moveTargetToGroup, Apart, Has, BookFields
  <2> QED BY <2>1, <2>2, <2>3, <2>4, <2>5
<1> QED BY <1>1 DEF Manages, Who!Edit

\* The steps that set the overrides of the targets they are about, drop them or
\* carry them to another address.
LEMMA TargetEdits ==
  ASSUME BookAssumption, BookInv,
         \/ Who!addTarget \/ Who!removeTarget \/ Who!saveEditAddress \/ Who!deleteAllInGroup
         \/ Who!saveOverride \/ Who!clearOverride
  PROVE  \E about : Manages(about)
<1>0. Has(BookFields, book) /\ DOMAIN book = BookFields
  BY HasDomain DEF BookInv, Sound
<1>1. \A S, ads : LET t == Who!Drop(book, S, ads) IN
        Apart(book, t) /\ \A a : a \notin ads => Who!OverrideOf(t.overrides, a) = Who!OverrideOf(book.overrides, a)
  <2> TAKE S, ads
  <2> DEFINE t == Who!Drop(book, S, ads)
  <2>1. Apart(book, t) /\ t.overrides = Who!Without(book.overrides, ads)
    BY <1>0 DEF Who!Drop, Apart, Has, BookFields
  <2>2. \A a : a \notin ads => Who!OverrideOf(Who!Without(book.overrides, ads), a) = Who!OverrideOf(book.overrides, a)
    BY DEF Who!OverrideOf, Who!Without
  <2> QED BY <2>1, <2>2
<1>2. PICK s, about : /\ Who!Edit(s, about) /\ Apart(book, s)
                      /\ \A a : a \notin about => Who!OverrideOf(s.overrides, a) = Who!OverrideOf(book.overrides, a)
  <2>1. CASE Who!addTarget
    <3>1. PICK a, g, p : Who!Edit([book EXCEPT
            !.targets   = Append(@, Who!Line(a)),
            !.assigned  = Who!With(@, a, g),
            !.overrides = IF p = None THEN @ ELSE Who!assignProfile(@, {a}, p)], {a})
      BY <2>1 DEF Who!addTarget
    <3> DEFINE s == [book EXCEPT
            !.targets   = Append(@, Who!Line(a)),
            !.assigned  = Who!With(@, a, g),
            !.overrides = IF p = None THEN @ ELSE Who!assignProfile(@, {a}, p)]
    <3>2. Apart(book, s) /\ s.overrides = IF p = None THEN book.overrides ELSE Who!assignProfile(book.overrides, {a}, p)
      BY <1>0 DEF Apart, Has, BookFields
    <3> HIDE DEF s
    <3>3. \A b : b \notin {a} => Who!OverrideOf(s.overrides, b) = Who!OverrideOf(book.overrides, b)
      BY <3>2, AssignedIs
    <3> QED BY <3>1, <3>2, <3>3 DEF s
  <2>2. CASE Who!removeTarget
    BY <1>1, <2>2 DEF Who!removeTarget
  <2>3. CASE Who!deleteAllInGroup
    BY <1>1, <2>3 DEF Who!deleteAllInGroup
  <2>4. CASE Who!saveEditAddress
    <3>1. PICK i \in DOMAIN book.targets, a \in Addresses :
            LET old == book.targets[i].address
                move(f) == IF old \in DOMAIN f THEN Who!With(Who!Without(f, {old}), a, f[old]) ELSE f
            IN /\ a # old
               /\ Who!Edit([book EXCEPT !.targets[i].address = a, !.overrides = move(@), !.assigned = move(@)], {a, old})
      BY <2>4 DEF Who!saveEditAddress
    <3> DEFINE old == book.targets[i].address
               move(f) == IF old \in DOMAIN f THEN Who!With(Who!Without(f, {old}), a, f[old]) ELSE f
               s == [book EXCEPT !.targets[i].address = a, !.overrides = move(@), !.assigned = move(@)]
    <3>2. Apart(book, s) /\ s.overrides = move(book.overrides)
      BY <1>0 DEF Apart, Has, BookFields
    <3>3. \A b : b \notin {a, old} => Who!OverrideOf(move(book.overrides), b) = Who!OverrideOf(book.overrides, b)
      BY DEF Who!OverrideOf, Who!With, Who!Without
    <3>4. Who!Edit(s, {a, old})
      BY <3>1
    <3>5. \A b : b \notin {a, old} => Who!OverrideOf(s.overrides, b) = Who!OverrideOf(book.overrides, b)
      BY <3>2, <3>3
    <3>6. Apart(book, s)
      BY <3>2
    <3> HIDE DEF s
    <3> QED BY <3>4, <3>5, <3>6
  <2>5. CASE Who!saveOverride
    <3>1. PICK a, ov : Who!Edit([book EXCEPT !.overrides = Who!SetOverride(@, a, ov)], {a})
      BY <2>5 DEF Who!saveOverride
    <3> DEFINE s == [book EXCEPT !.overrides = Who!SetOverride(@, a, ov)]
    <3>2. Apart(book, s) /\ s.overrides = Who!SetOverride(book.overrides, a, ov)
      BY <1>0 DEF Apart, Has, BookFields
    <3>3. \A b : b \notin {a} => Who!OverrideOf(Who!SetOverride(book.overrides, a, ov), b) = Who!OverrideOf(book.overrides, b)
      BY OverriddenIs DEF Who!SetOverride
    <3> QED BY <3>1, <3>2, <3>3
  <2>6. CASE Who!clearOverride
    <3>1. PICK a : Who!Edit([book EXCEPT !.overrides = Who!Without(@, {a})], {a})
      BY <2>6 DEF Who!clearOverride
    <3> DEFINE s == [book EXCEPT !.overrides = Who!Without(@, {a})]
    <3>2. Apart(book, s) /\ s.overrides = Who!Without(book.overrides, {a})
      BY <1>0 DEF Apart, Has, BookFields
    <3>3. \A b : b \notin {a} => Who!OverrideOf(Who!Without(book.overrides, {a}), b) = Who!OverrideOf(book.overrides, b)
      BY DEF Who!OverrideOf, Who!Without
    <3> QED BY <3>1, <3>2, <3>3
  <2> QED BY <2>1, <2>2, <2>3, <2>4, <2>5, <2>6
<1>3. Manages(about)
  BY <1>2 DEF Manages, Who!Edit
<1> QED BY <1>3

\* What a target had becomes a profile: nobody else has its id.
LEMMA ProfileMade ==
  ASSUME BookAssumption, BookInv, Who!saveOverrideAsProfile
  PROVE  BookInv' /\ Who!KeepsOthers
<1>1. PICK a \in Who!Listed(book), id \in Who!NewIds, name \in Profiles :
        LET own == Who!OverrideOf(book.overrides, a).own
            who == IF own # None THEN own ELSE book.identity
            p   == [id |-> id, name |-> name, version |-> who.version, secret |-> who.secret, traps |-> TRUE]
        IN Who!Edit([book EXCEPT
             !.profiles  = @ \cup {p},
             !.overrides = Who!With(@, a, [Who!OverrideOf(@, a) EXCEPT !.profile = id, !.own = None])], {a})
  BY DEF Who!saveOverrideAsProfile
<1> DEFINE own == Who!OverrideOf(book.overrides, a).own
           who == IF own # None THEN own ELSE book.identity
           p   == [id |-> id, name |-> name, version |-> who.version, secret |-> who.secret, traps |-> TRUE]
           o   == Who!With(book.overrides, a, [Who!OverrideOf(book.overrides, a) EXCEPT !.profile = id, !.own = None])
           s   == [book EXCEPT !.profiles = @ \cup {p}, !.overrides = o]
<1>2. Who!Edit(s, {a})
  BY <1>1
<1>3. id \in Profiles /\ id \notin Who!Known(book)
  BY DEF Who!NewIds
<1>4. IsProfile(p) /\ p.id = id
  BY <1>3 DEF IsProfile, Has
<1> HIDE DEF p
<1>5. /\ Has(BookFields, s) /\ s.profiles = book.profiles \cup {p} /\ s.overrides = o /\ s.identity = book.identity
  <2>1. Has(BookFields, book) /\ DOMAIN book = BookFields
    BY HasDomain DEF BookInv, Sound
  <2> HIDE DEF o
  <2> QED BY <2>1 DEF Has, BookFields
<1>6. \A b : b # a => Who!OverrideOf(o, b) = Who!OverrideOf(book.overrides, b)
  BY DEF Who!OverrideOf, Who!With
<1> HIDE DEF s, o
<1>7. \A q \in book.profiles : q.id # id
  BY <1>3 DEF Who!Known
<1>8. Sound(s) /\ Sound(book)
  BY <1>4, <1>5, <1>7 DEF Sound, BookInv
<1>9. ASSUME NEW b, b # a PROVE Same(book, s, b)
  <2>1. Who!OverrideOf(book.overrides, b).profile # id
    BY <1>3 DEF Who!OverrideOf, Who!Bare, Who!Known, BookAssumption
  <2>2. AskedAlike(book, s, Who!OverrideOf(book.overrides, b).profile)
    BY <1>4, <1>5, <2>1 DEF AskedAlike
  <2>3. Who!OverrideOf(s.overrides, b) = Who!OverrideOf(book.overrides, b)
    BY <1>5, <1>6, <1>9
  <2> QED BY <1>5, <1>8, <2>2, <2>3, Decides
<1>10. book' = s /\ touched' = {a} /\ work' = None /\ editing' = None /\ saved' = None
  BY <1>2 DEF Who!Edit, BookInv
<1> QED BY <1>8, <1>9, <1>10 DEF BookInv, Who!KeepsOthers, Same

\* An edit of the copy: what is stored stays.
Reworked(about) ==
  /\ Sound(work') /\ work'.identity.version = work.identity.version
  /\ \A a \in Addresses \ about : Same(work, work', a)
  /\ touched' = touched \cup about /\ saved' = None /\ book' = book

LEMMA ReworkKeeps ==
  ASSUME BookAssumption, BookInv, work # None, NEW about, Reworked(about), editing' # None => DraftIsNew'
  PROVE  BookInv' /\ Who!KeepsOthers
<1>1. work' # None
  BY DEF BookAssumption, Reworked, Sound
<1>2. CopyOfStored'
  BY DEF CopyOfStored, Reworked, Same, BookInv
<1>3. Who!KeepsOthers
  BY DEF Who!KeepsOthers, Reworked
<1> QED BY <1>1, <1>2, <1>3 DEF BookInv, Reworked

\* The defaults are edited, or a profile's users are accepted or not.
LEMMA SmallReworks ==
  ASSUME BookAssumption, BookInv, work # None, Who!EditDefaults \/ Who!toggleTraps
  PROVE  BookInv' /\ Who!KeepsOthers
<1>0. /\ Sound(work) /\ Has(BookFields, work) /\ DOMAIN work = BookFields
      /\ Has({"version", "secret"}, work.identity) /\ DOMAIN work.identity = {"version", "secret"}
  BY HasDomain DEF BookInv, CopyOfStored, Sound
<1>1. CASE Who!EditDefaults
  <2>1. PICK s : Who!Rework([work EXCEPT !.identity.secret = s], Who!OnDefaults(work)) /\ UNCHANGED editing
    BY <1>1 DEF Who!EditDefaults
  <2> DEFINE t == [work EXCEPT !.identity.secret = s]
  <2>2. /\ Has(BookFields, t) /\ t.profiles = work.profiles /\ t.overrides = work.overrides
        /\ Has({"version", "secret"}, t.identity) /\ t.identity.version = work.identity.version
    BY <1>0 DEF Has, BookFields
  <2> HIDE DEF t
  <2>3. Sound(t)
    BY <1>0, <2>2 DEF Sound
  <2>4. \A a \in Addresses \ Who!OnDefaults(work) : Same(work, t, a)
    <3> SUFFICES ASSUME NEW a \in Addresses \ Who!OnDefaults(work) PROVE Same(work, t, a)
      OBVIOUS
    <3>1. Who!getEffectiveSettings(work, a).ref # Who!Default
      BY DEF Who!OnDefaults
    <3>2. AskedAlike(work, t, Who!OverrideOf(work.overrides, a).profile)
      BY <2>2 DEF AskedAlike
    <3> QED BY <1>0, <2>2, <2>3, <3>1, <3>2, Decides
  <2>5. /\ work' = t /\ book' = book /\ saved' = None /\ editing' = editing
        /\ touched' = touched \cup Who!OnDefaults(work)
    BY <2>1 DEF Who!Rework, t
  <2>6. Reworked(Who!OnDefaults(work))
    BY <2>2, <2>3, <2>4, <2>5 DEF Reworked
  <2>7. editing' # None => DraftIsNew'
    BY <2>2, <2>5 DEF BookInv, DraftIsNew
  <2> QED BY <2>6, <2>7, ReworkKeeps
<1>2. CASE Who!toggleTraps
  <2>1. PICK p \in work.profiles :
          Who!Rework([work EXCEPT !.profiles = (@ \ {p}) \cup {[p EXCEPT !.traps = ~@]}], {}) /\ UNCHANGED editing
    BY <1>2 DEF Who!toggleTraps
  <2> DEFINE n == [p EXCEPT !.traps = ~@]
             t == [work EXCEPT !.profiles = (@ \ {p}) \cup {n}]
  <2>2. IsProfile(p) /\ DOMAIN p = {"id", "name", "version", "secret", "traps"}
    BY <1>0, HasDomain DEF Sound, IsProfile
  <2>3. IsProfile(n) /\ n.id = p.id /\ n.version = p.version /\ n.secret = p.secret
    BY <2>2 DEF IsProfile, Has
  <2> HIDE DEF n
  <2>4. /\ Has(BookFields, t) /\ t.profiles = (work.profiles \ {p}) \cup {n} /\ t.overrides = work.overrides
        /\ t.identity = work.identity
    BY <1>0 DEF Has, BookFields
  <2>5. work' = t /\ book' = book /\ saved' = None /\ editing' = editing /\ touched' = touched \cup {}
    BY <2>1 DEF Who!Rework, n
  <2> HIDE DEF t
  <2>6. \A q \in work.profiles \ {p} : q.id # p.id
    BY <1>0 DEF Sound
  <2>7. Sound(t)
    BY <1>0, <2>3, <2>4, <2>6 DEF Sound
  <2>8. \A id : AskedAlike(work, t, id)
    BY <2>3, <2>4 DEF AskedAlike
  <2>9. \A a : Same(work, t, a)
    BY <1>0, <2>4, <2>7, <2>8, Decides
  <2>10. Reworked({})
    BY <2>4, <2>5, <2>7, <2>9 DEF Reworked
  <2>11. editing' # None => DraftIsNew'
    BY <2>3, <2>4, <2>5 DEF BookInv, DraftIsNew
  <2> QED BY <2>10, <2>11, ReworkKeeps
<1> QED BY <1>1, <1>2

\* Its targets go back to the default identifiers, and no other does.
LEMMA RemoveKeeps ==
  ASSUME BookAssumption, BookInv, work # None, Who!remove
  PROVE  BookInv' /\ Who!KeepsOthers
<1>0. Sound(work) /\ Has(BookFields, work) /\ DOMAIN work = BookFields
  BY HasDomain DEF BookInv, CopyOfStored, Sound
<1>1. PICK p \in work.profiles :
        /\ Who!Rework(Who!removeProfile(work, p.id), Who!profileUsage(work, p.id))
        /\ editing' = IF editing # None /\ editing.draft.id = p.id THEN None ELSE editing
  BY DEF Who!remove
<1> DEFINE t == Who!removeProfile(work, p.id)
           users == Who!profileUsage(work, p.id)
           o == Who!assignProfile(work.overrides, users, None)
<1>2. /\ Has(BookFields, t) /\ t.profiles = {q \in work.profiles : q.id # p.id} /\ t.overrides = o
      /\ t.identity = work.identity
  <2> HIDE DEF users, o
  <2>1. t = [work EXCEPT !.profiles = {q \in @ : q.id # p.id}, !.overrides = o]
    BY DEF Who!removeProfile, o, users
  <2> HIDE DEF t
  <2> QED BY <1>0, <2>1 DEF Has, BookFields
<1>3. work' = t /\ book' = book /\ saved' = None /\ touched' = touched \cup users
  BY <1>1 DEF Who!Rework
<1> HIDE DEF t
<1>4. Sound(t)
  BY <1>0, <1>2 DEF Sound
<1>5. ASSUME NEW a, a \notin users PROVE Same(work, t, a)
  <2>1. Who!OverrideOf(t.overrides, a) = Who!OverrideOf(work.overrides, a)
    BY <1>2, <1>5, AssignedIs
  <2>2. Who!OverrideOf(work.overrides, a).profile # p.id
    BY <1>0, <1>5 DEF Who!profileUsage, Who!OverrideOf, Who!Bare, Sound, IsProfile, BookAssumption
  <2>3. AskedAlike(work, t, Who!OverrideOf(work.overrides, a).profile)
    BY <1>2, <2>2 DEF AskedAlike
  <2> QED BY <1>0, <1>2, <1>4, <2>1, <2>3, Decides
<1>6. Reworked(users)
  BY <1>2, <1>3, <1>4, <1>5 DEF Reworked
<1>7. editing' # None => DraftIsNew'
  BY <1>1, <1>2, <1>3 DEF BookInv, DraftIsNew
<1> QED BY <1>6, <1>7, ReworkKeeps

\* Every ticked target gets the profile, every other that had it goes back.
LEMMA ApplyKeeps ==
  ASSUME BookAssumption, BookInv, Who!apply
  PROVE  BookInv' /\ Who!KeepsOthers
<1>0. /\ work # None /\ editing # None /\ DraftIsNew
      /\ Sound(work) /\ Has(BookFields, work) /\ DOMAIN work = BookFields
  BY HasDomain DEF BookInv, CopyOfStored, Sound, Who!apply
<1> DEFINE p       == editing.draft
           holders == Who!profileUsage(work, p.id)
           gains   == (editing.assigned \cap Who!Listed(work)) \ holders
           given   == Who!assignProfile(work.overrides, gains, p.id)
           leavers == (holders \cap Who!Listed(work)) \ editing.assigned
           ps      == IF editing.isNew THEN work.profiles \cup {p}
                      ELSE {IF q.id = p.id THEN p ELSE q : q \in work.profiles}
           o       == Who!assignProfile(given, leavers, None)
           t       == [work EXCEPT !.profiles = ps, !.overrides = o]
           about   == editing.assigned \cup holders
<1>1. Who!Rework(t, about) /\ editing' = None
  BY DEF Who!apply
<1>2. /\ Has(BookFields, t) /\ t.profiles = ps /\ t.overrides = o /\ t.identity = work.identity
  <2> HIDE DEF ps, o
  <2> QED BY <1>0 DEF Has, BookFields
<1>3. work' = t /\ book' = book /\ saved' = None /\ touched' = touched \cup about
  BY <1>1 DEF Who!Rework
<1> HIDE DEF t
<1>4. IsProfile(p)
  BY <1>0 DEF DraftIsNew
<1> HIDE DEF p
<1>5. \A q \in ps : q = p \/ (q \in work.profiles /\ q.id # p.id)
  <2>1. CASE editing.isNew
    <3>1. \A q \in work.profiles : q.id # p.id
      BY <1>0, <2>1 DEF DraftIsNew, p
    <3>2. ps = work.profiles \cup {p}
      BY <2>1
    <3> HIDE DEF ps
    <3> QED BY ONLY <3>1, <3>2
  <2>2. CASE ~editing.isNew
    <3>1. ps = {IF q.id = p.id THEN p ELSE q : q \in work.profiles}
      BY <2>2
    <3> HIDE DEF ps
    <3> QED BY ONLY <3>1
  <2> QED BY <2>1, <2>2
<1>6. Sound(t)
  BY <1>0, <1>2, <1>4, <1>5 DEF Sound
<1>7. ASSUME NEW a, a \notin about PROVE Same(work, t, a)
  <2>1. Who!OverrideOf(given, a) = Who!OverrideOf(work.overrides, a)
    BY <1>7, AssignedIs
  <2>2. Who!OverrideOf(t.overrides, a) = Who!OverrideOf(work.overrides, a)
    <3> HIDE DEF given
    <3> QED BY <1>2, <1>7, <2>1, AssignedIs
  <2>3. Who!OverrideOf(work.overrides, a).profile # p.id
    BY <1>4, <1>7 DEF Who!profileUsage, Who!OverrideOf, Who!Bare, IsProfile, BookAssumption
  <2>4. \A q \in work.profiles : q.id # p.id => q \in ps
    OBVIOUS
  <2> HIDE DEF ps
  <2>5. AskedAlike(work, t, Who!OverrideOf(work.overrides, a).profile)
    BY <1>2, <1>5, <2>3, <2>4 DEF AskedAlike
  <2> QED BY <1>0, <1>2, <1>6, <2>2, <2>5, Decides
<1>8. Reworked(about)
  BY <1>2, <1>3, <1>6, <1>7 DEF Reworked
<1> QED BY <1>0, <1>1, <1>8, ReworkKeeps

\* The dialog and its editor, opened, answered, saved and given up.
LEMMA DialogKeeps ==
  ASSUME BookAssumption, BookInv,
         \/ Who!OpenDialog \/ Who!open \/ Who!toggleAssigned \/ Who!CloseEditor
         \/ Who!handleSave \/ Who!handleCancel \/ Who!StoreChanged
  PROVE  BookInv' /\ Who!KeepsOthers
<1>1. CASE Who!OpenDialog
  BY <1>1 DEF Who!OpenDialog, BookInv, CopyOfStored, Same, Who!KeepsOthers
<1>2. CASE Who!open
  <2>1. work # None /\ book' = book /\ work' = work /\ touched' = touched /\ saved' = None
    BY <1>2 DEF Who!open
  <2>2. DraftIsNew'
    <3>1. CASE \E id \in Who!NewIds, name \in Profiles, v \in Who!Versions, s \in Who!Typed :
            editing' = [draft |-> [id |-> id, name |-> name, version |-> v, secret |-> s, traps |-> TRUE],
                        isNew |-> TRUE, assigned |-> {}]
      <4>1. \A id \in Who!NewIds : id \in Profiles /\ id \notin Who!Known(book) /\ id \notin Who!Known(work)
        BY <2>1 DEF Who!NewIds
      <4>2. PICK id \in Who!NewIds, name \in Profiles, v \in Who!Versions, s \in Who!Typed :
              editing' = [draft |-> [id |-> id, name |-> name, version |-> v, secret |-> s, traps |-> TRUE],
                          isNew |-> TRUE, assigned |-> {}]
        BY <3>1
      <4> DEFINE d == [id |-> id, name |-> name, version |-> v, secret |-> s, traps |-> TRUE]
      <4>3. IsProfile(d) /\ d.id = id
        BY <4>1 DEF IsProfile, Has
      <4>4. \A p \in book.profiles \cup work.profiles : p.id # id
        BY <4>1 DEF Who!Known
      <4> HIDE DEF d
      <4>5. editing' = [draft |-> d, isNew |-> TRUE, assigned |-> {}]
        BY <4>2 DEF d
      <4> QED BY <2>1, <4>3, <4>4, <4>5 DEF DraftIsNew, Has
    <3>2. CASE \E p \in work.profiles, v \in Who!Versions, s \in Who!Typed :
            editing' = [draft |-> [p EXCEPT !.version = v, !.secret = s],
                        isNew |-> FALSE, assigned |-> Who!profileUsage(work, p.id)]
      <4>1. PICK p \in work.profiles, v \in Who!Versions, s \in Who!Typed :
              editing' = [draft |-> [p EXCEPT !.version = v, !.secret = s],
                          isNew |-> FALSE, assigned |-> Who!profileUsage(work, p.id)]
        BY <3>2
      <4>2. IsProfile(p) /\ DOMAIN p = {"id", "name", "version", "secret", "traps"}
        BY <2>1, HasDomain DEF BookInv, CopyOfStored, Sound, IsProfile
      <4> DEFINE d == [p EXCEPT !.version = v, !.secret = s]
      <4>3. IsProfile(d)
        BY <4>2 DEF IsProfile, Has
      <4> HIDE DEF d
      <4>4. editing' = [draft |-> d, isNew |-> FALSE, assigned |-> Who!profileUsage(work, p.id)]
        BY <4>1 DEF d
      <4> QED BY <4>3, <4>4 DEF DraftIsNew, Has
    <3> QED BY <1>2, <3>1, <3>2 DEF Who!open
  <2> QED BY <2>1, <2>2 DEF BookInv, CopyOfStored, Same, Who!KeepsOthers
<1>3. CASE Who!toggleAssigned
  <2>1. /\ work # None /\ editing # None /\ book' = book /\ work' = work /\ touched' = touched /\ saved' = None
        /\ \E x : editing' = [editing EXCEPT !.assigned = x]
    BY <1>3 DEF Who!toggleAssigned
  <2>2. DraftIsNew'
    <3>1. DraftIsNew /\ DOMAIN editing = {"draft", "isNew", "assigned"}
      BY <2>1, HasDomain DEF BookInv, DraftIsNew
    <3> QED BY <2>1, <3>1 DEF DraftIsNew, Has
  <2> QED BY <2>1, <2>2 DEF BookInv, CopyOfStored, Same, Who!KeepsOthers
<1>4. CASE Who!CloseEditor
  BY <1>4 DEF Who!CloseEditor, BookInv, CopyOfStored, Same, Who!KeepsOthers
<1>5. CASE Who!handleSave
  <2>1. /\ work # None /\ book' = work /\ saved' = [before |-> book, after |-> work]
        /\ work' = None /\ editing' = None /\ touched' = touched
    BY <1>5 DEF Who!handleSave
  <2>2. Sound(book) /\ CopyOfStored
    BY <2>1 DEF BookInv
  <2>3. BookInv'
    BY <2>1, <2>2 DEF BookInv, CopyOfStored
  <2> QED BY <2>1, <2>2, <2>3 DEF CopyOfStored, Same, Who!KeepsOthers
<1>6. CASE Who!handleCancel
  BY <1>6 DEF Who!handleCancel, BookInv, Who!KeepsOthers
<1>7. CASE Who!StoreChanged
  <2>1. /\ work # None /\ book' = book /\ work' = book /\ editing' = editing /\ touched' = {} /\ saved' = None
    BY <1>7 DEF Who!StoreChanged
  <2>2. Sound(book) /\ book # None
    BY DEF BookInv, Sound, BookAssumption
  <2>3. CopyOfStored'
    BY <2>1, <2>2 DEF CopyOfStored, Same
  <2>4. editing' # None => DraftIsNew'
    BY <2>1 DEF BookInv, DraftIsNew
  <2> QED BY <2>1, <2>2, <2>3, <2>4 DEF BookInv, Who!KeepsOthers
<1> QED BY <1>1, <1>2, <1>3, <1>4, <1>5, <1>6, <1>7

LEMMA BookStep == ASSUME BookAssumption, BookInv, Who!Next PROVE BookInv' /\ Who!KeepsOthers
<1>1. CASE Who!toggleTarget \/ Who!importTargets \/ Who!addGroup \/ Who!deleteGroup \/ Who!moveTargetToGroup
  BY <1>1, ListEdits, ManagesKeeps
<1>2. CASE \/ Who!addTarget \/ Who!removeTarget \/ Who!saveEditAddress \/ Who!deleteAllInGroup
           \/ Who!saveOverride \/ Who!clearOverride
  BY <1>2, TargetEdits, ManagesKeeps
<1>3. CASE Who!saveOverrideAsProfile
  BY <1>3, ProfileMade
<1>4. CASE work # None /\ (Who!EditDefaults \/ Who!toggleTraps)
  BY <1>4, SmallReworks
<1>5. CASE work # None /\ Who!remove
  BY <1>5, RemoveKeeps
<1>6. CASE Who!apply
  BY <1>6, ApplyKeeps
<1>7. CASE \/ Who!OpenDialog \/ Who!open \/ Who!toggleAssigned \/ Who!CloseEditor
           \/ Who!handleSave \/ Who!handleCancel \/ Who!StoreChanged
  BY <1>7, DialogKeeps
<1> QED BY <1>1, <1>2, <1>3, <1>4, <1>5, <1>6, <1>7 DEF Who!Next, Who!Manager, Who!Dialog

LEMMA BookStutters == ASSUME BookInv, UNCHANGED Who!vars PROVE BookInv' /\ Who!KeepsOthers
BY DEF Who!vars, BookInv, CopyOfStored, DraftIsNew, Same, Who!KeepsOthers

LEMMA BookInit == ASSUME BookAssumption, Who!Init PROVE BookInv
<1>1. CASE book = Who!Fresh
  BY <1>1 DEF Who!Init, Who!Fresh, BookInv, Sound, Has, BookFields
<1>2. CASE Who!Configured
  <2>1. PICK id \in Profiles, s \in Passwords : \E x, y, z :
          book = [targets |-> x, overrides |-> y, groups |-> {"grp"}, assigned |-> z,
                  profiles |-> {[id |-> id, name |-> id, version |-> "v3", secret |-> s, traps |-> TRUE]},
                  identity |-> [version |-> "v2c", secret |-> Public]]
    BY <1>2 DEF Who!Configured
  <2> DEFINE p == [id |-> id, name |-> id, version |-> "v3", secret |-> s, traps |-> TRUE]
             who == [version |-> "v2c", secret |-> Public]
  <2>2. IsProfile(p) /\ Has({"version", "secret"}, who)
    BY DEF IsProfile, Has
  <2> HIDE DEF p, who
  <2>3. Has(BookFields, book) /\ book.profiles = {p} /\ book.identity = who
    BY <2>1 DEF Has, BookFields, p, who
  <2>4. Sound(book)
    BY <2>2, <2>3 DEF Sound
  <2> QED BY <2>4 DEF Who!Init, BookInv
<1> QED BY <1>1, <1>2 DEF Who!Init

LEMMA BookAlways == ASSUME BookAssumption PROVE Who!Spec => []BookInv
<1>1. BookInv /\ [Who!Next]_Who!vars => BookInv'
  BY BookStep, BookStutters
<1> QED BY <1>1, BookInit, PTL DEF Who!Spec

\* An edit of one target, or of one profile, leaves every other target asked as it
\* was before (TargetManager.svelte removeTarget and saveEditAddress,
\* CredentialProfiles.svelte apply, credentialProfiles.js removeProfile).
THEOREM OthersKept == ASSUME BookAssumption PROVE Who!Spec => Who!OthersKeepTheirIdentity
<1>1. BookInv /\ [Who!Next]_Who!vars => [Who!KeepsOthers]_Who!vars
  BY BookStep, BookStutters
<1> QED BY <1>1, BookAlways, PTL DEF Who!Spec, Who!OthersKeepTheirIdentity

\* A session is told to follow exactly when what its reference stands for has
\* changed (credentialProfiles.js changedCredentialRefs).
THEOREM FollowsChanges == ASSUME BookAssumption PROVE Who!Spec => []Who!FollowedIffChanged
<1>1. BookInv => Who!FollowedIffChanged
  <2> SUFFICES ASSUME BookInv, saved # None, NEW a \in Addresses
               PROVE  LET old == Who!getEffectiveSettings(saved.before, a)
                          new == Who!getEffectiveSettings(saved.after, a)
                      IN old.ref = new.ref /\ new.ref # "" =>
                           (new.ref \in Who!changedCredentialRefs(saved.before, saved.after) <=> old.who # new.who)
    BY DEF Who!FollowedIffChanged
  <2> DEFINE s == saved.before
             t == saved.after
             old == Who!getEffectiveSettings(s, a)
             new == Who!getEffectiveSettings(t, a)
             p == Who!findProfile(s, Who!OverrideOf(s.overrides, a).profile)
             q == Who!findProfile(t, Who!OverrideOf(t.overrides, a).profile)
             own == Who!OverrideOf(s.overrides, a).own
             its == Who!OverrideOf(t.overrides, a).own
  <2>1. Sound(s) /\ Sound(t) /\ s.identity.version = t.identity.version
    BY DEF BookInv
  <2>2. /\ old.ref = (IF p # None THEN p.id ELSE IF own # None THEN "" ELSE Who!Default)
        /\ old.who = (IF p # None THEN Who!profileIdentity(p) ELSE IF own # None THEN own ELSE s.identity)
        /\ new.ref = (IF q # None THEN q.id ELSE IF its # None THEN "" ELSE Who!Default)
        /\ new.who = (IF q # None THEN Who!profileIdentity(q) ELSE IF its # None THEN its ELSE t.identity)
    BY DEF Who!getEffectiveSettings
  <2>3. (p # None => p \in s.profiles) /\ (q # None => q \in t.profiles)
    BY <2>1, FoundIs
  <2>4. /\ p # None => p.id \in Profiles /\ \A r \in s.profiles : r.id = p.id => r = p
        /\ q # None => q.id \in Profiles /\ \A r \in t.profiles : r.id = q.id => r = q
    BY <2>1, <2>3 DEF Sound, IsProfile
  <2> HIDE DEF old, new, p, q, own, its
  <2> SUFFICES ASSUME old.ref = new.ref, new.ref # ""
               PROVE  new.ref \in Who!changedCredentialRefs(s, t) <=> old.who # new.who
    BY DEF old, new
  <2>5. CASE q # None
    <3>1. p # None /\ p.id = q.id /\ p.id # Who!Default
      BY <2>2, <2>4, <2>5 DEF BookAssumption
    <3>2. Who!findProfile(s, q.id) = p
      BY <2>1, <2>3, <3>1, FoundIs
    <3>3. q.id \in Who!changedCredentialRefs(s, t) <=> Who!profileIdentity(p) # Who!profileIdentity(q)
      BY <2>3, <2>4, <2>5, <3>1, <3>2 DEF Who!changedCredentialRefs
    <3> QED BY <2>2, <2>5, <3>1, <3>3
  <2>6. CASE q = None
    <3>1. p = None /\ new.ref = Who!Default /\ old.who = s.identity /\ new.who = t.identity
      BY <2>2, <2>4, <2>6 DEF BookAssumption
    <3>2. \A r \in t.profiles : r.id # Who!Default
      BY <2>1 DEF Sound, IsProfile, BookAssumption
    <3>3. Who!Default \in Who!changedCredentialRefs(s, t) <=> s.identity.secret # t.identity.secret
      BY <3>2 DEF Who!changedCredentialRefs
    <3>4. s.identity # t.identity <=> s.identity.secret # t.identity.secret
      BY <2>1 DEF Sound, Has
    <3> QED BY <3>1, <3>3, <3>4
  <2> QED BY <2>5, <2>6
<1> QED BY <1>1, BookAlways, PTL

(***************************************************************************)
(* TrapUsers: whom the trap listener is told to accept.                    *)
(*                                                                         *)
(* One call is under way at a time, and nothing has failed.  What was last *)
(* told is what the settings accept as soon as their passphrases can be    *)
(* read, but for who is told before: what was not opened yet, or left out, *)
(* can never be taken for what the settings then say.                      *)
(***************************************************************************)
TrustAssumption ==
  /\ UserCalls = 1 /\ Editions # {} /\ Editions \cap {LeftOut, Unopened} = {} /\ LeftOut # Unopened
  /\ None \notin SUBSET (Users \X (Editions \cup {LeftOut, Unopened}))

\* The users that the settings accept: with their passphrases, and before these
\* are opened.
Wanted  == Trusted!trapUsers(trusted, "ok")
Unread  == Trusted!trapUsers(trusted, "unread")

\* What a locked keychain gives, or what was read before it was known to be locked.
Shut(x) == x \subseteq Users \X {LeftOut} \/ (x # {} /\ x \subseteq Users \X {Unopened})
\* As the settings are, or nobody in either.
Fits(x) == x = Wanted \/ (Wanted = {} /\ x \subseteq Users \X {LeftOut})

Starting == {c \in updates : c.op = "start"}
Pending  == {c \in updates : c.op = "update"}

UpdateFields == {"n", "op", "users", "stage"}
TrustShape ==
  /\ trusted \in [Users -> [accept : BOOLEAN, pass : Editions]]
  /\ chain \in {"ok", "locked"} /\ ready \in BOOLEAN
  /\ Has({"listening", "applied", "refused"}, ui) /\ Has({"running", "users", "kept"}, listener)
  /\ \A c \in updates : /\ Has(UpdateFields, c) /\ c.n = 1
                        /\ c.op \in {"start", "stop", "update"} /\ c.stage \in {"asked", "done", "failed"}
  /\ \A c, d \in updates : c = d

\* What the listener does is what it was last told.
Heard ==
  /\ listener.running => listener.users = listener.kept
  /\ \A c \in Starting \cup Pending : c.stage = "done" => listener.kept = Trusted!Taken(c.users)
  /\ \A c \in Pending : c.stage # "failed"

BeforeOpened ==
  /\ Pending = {} /\ ui.applied \in {None, Unread}
  /\ \A c \in Starting : c.users = Unread
  /\ ui.applied # None => listener.kept = Trusted!Taken(Unread)

WhileLocked ==
  /\ Pending = {} /\ (ui.applied # None => Shut(ui.applied))
  /\ \A c \in Starting : Shut(c.users)
  /\ ui.applied = {} => listener.kept = {} /\ \A c \in Starting : c.users \subseteq Users \X {LeftOut}

OnceOpened ==
  /\ Fits(ui.applied) /\ \A c \in Starting : Fits(c.users)
  /\ \A c \in Pending : c.users = Wanted /\ ui.applied = Wanted
  /\ (\A c \in Pending : c.stage # "asked") => listener.kept = Trusted!Taken(Wanted)
  /\ Pending = {} => \A u \in Users : trusted[u].accept =>
                       ((\E x \in ui.refused : x[1] = u) <=> u \in Unusable)

TrustInv ==
  /\ mishaps \in Nat
  /\ mishaps = 0 =>
       /\ TrustShape /\ Heard
       /\ ~ready => BeforeOpened
       /\ ready /\ chain = "locked" => WhileLocked
       /\ ready /\ chain = "ok" => OnceOpened

-----------------------------------------------------------------------------
(* The users that are read from the settings. *)

Book == [Users -> [accept : BOOLEAN, pass : Editions]]
Accepted(s) == {u \in Users : s[u].accept}

LEMMA ListIs ==
  ASSUME NEW s
  PROVE  /\ Trusted!trapUsers(s, "ok") = {<<u, s[u].pass>> : u \in Accepted(s)}
         /\ Trusted!trapUsers(s, "unread") = {<<u, Unopened>> : u \in Accepted(s)}
         /\ Trusted!trapUsers(s, "locked") = {<<u, LeftOut>> : u \in Accepted(s)}
BY DEF Trusted!trapUsers, Trusted!Opened, Accepted

LEMMA ListWithin ==
  ASSUME NEW s \in Book
  PROVE  /\ Trusted!trapUsers(s, "ok") \subseteq Users \X Editions
         /\ Trusted!trapUsers(s, "unread") \subseteq Users \X {Unopened}
         /\ Trusted!trapUsers(s, "locked") \subseteq Users \X {LeftOut}
<1>1. /\ Accepted(s) \subseteq Users
      /\ \A u \in Users : s[u].pass \in Editions
  BY DEF Accepted, Book
<1> QED BY <1>1, ListIs

\* Nobody is accepted, whatever is made of the passphrases.
LEMMA NobodyIs ==
  ASSUME NEW s
  PROVE  Trusted!trapUsers(s, "ok") = {} <=> Trusted!trapUsers(s, "unread") = {}
<1>1. CASE Accepted(s) = {}
  BY <1>1, ListIs
<1>2. CASE Accepted(s) # {}
  <2>1. PICK u : u \in Accepted(s)
    BY <1>2
  <2>2. <<u, s[u].pass>> \in Trusted!trapUsers(s, "ok") /\ <<u, Unopened>> \in Trusted!trapUsers(s, "unread")
    BY <2>1, ListIs
  <2> QED BY <2>2
<1> QED BY <1>1, <1>2

LEMMA NotNone ==
  ASSUME TrustAssumption, NEW x,
         \/ x \subseteq Users \X Editions \/ x \subseteq Users \X {Unopened} \/ x \subseteq Users \X {LeftOut}
  PROVE  x # None
<1>1. x \subseteq Users \X (Editions \cup {LeftOut, Unopened})
  OBVIOUS
<1> QED BY <1>1 DEF TrustAssumption

\* A list of passphrases is none that was left out or unread, but for the empty one.
LEMMA OnlyEmpty ==
  ASSUME TrustAssumption, NEW x, x \subseteq Users \X Editions
  PROVE  /\ x \subseteq Users \X {LeftOut} => x = {}
         /\ x \subseteq Users \X {Unopened} => x = {}
         /\ Shut(x) => x = {}
<1>1. \A y \in x : y[2] \in Editions
  OBVIOUS
<1>2. x \subseteq Users \X {LeftOut} => x = {}
  BY <1>1 DEF TrustAssumption
<1>3. x \subseteq Users \X {Unopened} => x = {}
  BY <1>1 DEF TrustAssumption
<1> QED BY <1>2, <1>3 DEF Shut

\* What is told fits the settings: what the listener then takes is theirs.
LEMMA FitsTaken ==
  ASSUME NEW x, Fits(x)
  PROVE  Trusted!Taken(x) = Trusted!Taken(Wanted)
<1>1. CASE x = Wanted
  BY <1>1
<1>2. CASE Wanted = {} /\ x \subseteq Users \X {LeftOut}
  <2>1. \A y \in x : y[2] = LeftOut
    BY <1>2
  <2> QED BY <1>2, <2>1 DEF Trusted!Taken
<1> QED BY <1>1, <1>2 DEF Fits

\* Nobody is told of, nobody is taken.
LEMMA TakenOfShut ==
  ASSUME NEW x
  PROVE  /\ x \subseteq Users \X {LeftOut} => Trusted!Taken(x) = {}
         /\ x = {} => Trusted!Taken(x) = {}
<1>1. ASSUME x \subseteq Users \X {LeftOut} PROVE Trusted!Taken(x) = {}
  <2>1. \A y \in x : y[2] = LeftOut
    BY <1>1
  <2> QED BY <2>1 DEF Trusted!Taken
<1>2. x = {} => Trusted!Taken(x) = {}
  BY DEF Trusted!Taken
<1> QED BY <1>1, <1>2

\* The settings that make the same list of what fits are as accepting as before.
LEMMA ListKept ==
  ASSUME TrustAssumption, NEW t \in Book, Trusted!trapUsers(t, "ok") = ui.applied, Fits(ui.applied)
  PROVE  /\ Wanted = ui.applied /\ Trusted!trapUsers(t, "ok") = Wanted
         /\ \A u \in Users : t[u].accept => trusted[u].accept
<1>1. Wanted = ui.applied
  <2>1. ui.applied \subseteq Users \X Editions
    BY ListWithin
  <2>2. ui.applied \subseteq Users \X {LeftOut} => ui.applied = {}
    BY <2>1, OnlyEmpty
  <2> QED BY <2>2 DEF Fits
<1>2. ASSUME NEW u \in Users, t[u].accept PROVE trusted[u].accept
  <2>1. <<u, t[u].pass>> \in Wanted
    BY <1>1, <1>2, ListIs DEF Accepted
  <2>2. PICK v \in Accepted(trusted) : <<u, t[u].pass>> = <<v, trusted[v].pass>>
    BY <2>1, ListIs DEF Wanted
  <2> QED BY <2>2 DEF Accepted
<1> QED BY <1>1, <1>2

\* Whom the listener refuses of the list of the settings.
LEMMA RefusedOf ==
  ASSUME TrustAssumption, trusted \in Book, NEW u \in Users, trusted[u].accept
  PROVE  (\E x \in Trusted!Refused(Wanted) : x[1] = u) <=> u \in Unusable
<1>1. \A x \in Wanted : x[2] # LeftOut
  BY ListWithin DEF Wanted, TrustAssumption
<1>2. <<u, trusted[u].pass>> \in Wanted
  BY ListIs DEF Wanted, Accepted
<1>3. \A x \in Wanted : x \in Trusted!Refused(Wanted) <=> x[1] \in Unusable
  BY <1>1 DEF Trusted!Refused, Trusted!Taken
<1>4. Trusted!Refused(Wanted) \subseteq Wanted
  BY DEF Trusted!Refused
<1> QED BY <1>2, <1>3, <1>4

-----------------------------------------------------------------------------
(* The calls. *)

LEMMA CallIsSent ==
  ASSUME TrustAssumption, TrustShape, NEW op, NEW users, Trusted!Send(op, users)
  PROVE  updates = {} /\ updates' = {[n |-> 1, op |-> op, users |-> users, stage |-> "asked"]}
<1>1. Trusted!Free \subseteq {1} /\ Trusted!Free # {}
  BY DEF Trusted!Free, Trusted!Send, TrustAssumption
<1>2. Trusted!Free = {1} /\ \A c \in updates : c.n # 1
  BY <1>1 DEF Trusted!Free
<1>3. updates = {}
  BY <1>2 DEF TrustShape
<1>4. (CHOOSE n \in Trusted!Free : TRUE) = 1
  BY <1>2
<1> QED BY <1>3, <1>4 DEF Trusted!Send

LEMMA OnlyCall ==
  ASSUME TrustShape, NEW c \in updates
  PROVE  updates = {c} /\ updates \ {c} = {}
BY DEF TrustShape

\* A call that is answered.
SaidOf(c, stage, d) ==
  /\ Has(UpdateFields, d) /\ d.n = 1 /\ d.op = c.op /\ d.users = c.users /\ d.stage = stage

LEMMA CallAnswered ==
  ASSUME TrustShape, NEW c \in updates
  PROVE  /\ SaidOf(c, "failed", Trusted!Fails(c)) /\ SaidOf(c, "done", Trusted!Done(c))
         /\ \A d : Trusted!Reply(c, d) => updates' = {d}
<1>1. Has(UpdateFields, c) /\ c.n = 1 /\ updates \ {c} = {}
  BY OnlyCall DEF TrustShape
<1>2. DOMAIN c = UpdateFields
  BY <1>1, HasDomain
<1>3. SaidOf(c, "failed", Trusted!Fails(c))
  BY <1>1, <1>2 DEF Trusted!Fails, SaidOf, UpdateFields, Has
<1>4. SaidOf(c, "done", Trusted!Done(c))
  BY <1>1, <1>2 DEF Trusted!Done, SaidOf, UpdateFields, Has
<1>5. \A d : Trusted!Reply(c, d) => updates' = {d}
  BY <1>1 DEF Trusted!Reply
<1> QED BY <1>3, <1>4, <1>5

-----------------------------------------------------------------------------
(* The steps. *)

LEMMA TrustInit == ASSUME TrustAssumption, Trusted!Init PROVE TrustInv
<1>1. trusted \in Book
  <2>1. (CHOOSE e \in Editions : TRUE) \in Editions
    BY DEF TrustAssumption
  <2> QED BY <2>1 DEF Trusted!Init, Book
<1>2. Has({"listening", "applied", "refused"}, ui) /\ ui.applied = None
  BY DEF Trusted!Init, Has
<1>3. PICK running, users, kept0 : listener = [running |-> running, users |-> users, kept |-> kept0]
                                   /\ (running => users = kept0)
  BY DEF Trusted!Init
<1>4. Has({"running", "users", "kept"}, listener) /\ (listener.running => listener.users = listener.kept)
  BY <1>3 DEF Has
<1>5. TrustShape
  BY <1>1, <1>2, <1>4 DEF Trusted!Init, TrustShape, Book
<1>6. Starting = {} /\ Pending = {}
  BY DEF Trusted!Init, Starting, Pending
<1> QED BY <1>2, <1>4, <1>5, <1>6 DEF Trusted!Init, TrustInv, Heard, BeforeOpened

\* What holds as long as nothing has failed.
TrustRest ==
  /\ TrustShape /\ Heard
  /\ ~ready => BeforeOpened
  /\ ready /\ chain = "locked" => WhileLocked
  /\ ready /\ chain = "ok" => OnceOpened

\* What is synchronised with new settings or an opened keychain.
LEMMA SyncIs ==
  ASSUME TrustAssumption, TrustShape, NEW s, NEW key, Trusted!syncTrapUsers(s, key)
  PROVE  \/ /\ key # "ok" \/ Trusted!trapUsers(s, key) = ui.applied
            /\ UNCHANGED <<ui, updates>>
         \/ /\ key = "ok" /\ updates = {}
            /\ updates' = {[n |-> 1, op |-> "update", users |-> Trusted!trapUsers(s, "ok"), stage |-> "asked"]}
            /\ Has({"listening", "applied", "refused"}, ui')
            /\ ui'.applied = Trusted!trapUsers(s, "ok") /\ ui'.refused = ui.refused
<1> DEFINE users == Trusted!trapUsers(s, key)
<1>1. \/ (key # "ok" \/ users = ui.applied) /\ UNCHANGED <<ui, updates>>
      \/ key = "ok" /\ ui' = [ui EXCEPT !.applied = users] /\ Trusted!Send("update", users)
  BY DEF Trusted!syncTrapUsers
<1> HIDE DEF users
<1>2. ASSUME key = "ok", ui' = [ui EXCEPT !.applied = users], Trusted!Send("update", users)
      PROVE  /\ updates = {} /\ updates' = {[n |-> 1, op |-> "update", users |-> users, stage |-> "asked"]}
             /\ Has({"listening", "applied", "refused"}, ui') /\ ui'.applied = users /\ ui'.refused = ui.refused
  <2>1. Has({"listening", "applied", "refused"}, ui)
    BY DEF TrustShape
  <2>2. DOMAIN ui = {"listening", "applied", "refused"}
    BY <2>1, HasDomain
  <2>3. Has({"listening", "applied", "refused"}, ui') /\ ui'.applied = users /\ ui'.refused = ui.refused
    BY <1>2, <2>2 DEF Has
  <2> QED BY <1>2, <2>3, CallIsSent
<1> QED BY <1>1, <1>2 DEF users

\* One update asked for, and nothing else under way.
LEMMA UpdateAsked ==
  ASSUME NEW users, updates' = {[n |-> 1, op |-> "update", users |-> users, stage |-> "asked"]}
  PROVE  /\ Starting' = {} /\ Pending' = updates'
         /\ \A c \in updates' : /\ Has(UpdateFields, c) /\ c.n = 1 /\ c.op = "update" /\ c.users = users
                                /\ c.stage = "asked"
         /\ \A c, d \in updates' : c = d
<1> DEFINE c == [n |-> 1, op |-> "update", users |-> users, stage |-> "asked"]
<1>1. Has(UpdateFields, c) /\ c.n = 1 /\ c.op = "update" /\ c.users = users /\ c.stage = "asked"
  BY DEF Has, UpdateFields
<1>2. updates' = {c}
  OBVIOUS
<1> HIDE DEF c
<1>3. Starting' = {} /\ Pending' = {c}
  BY <1>1, <1>2 DEF Starting, Pending
<1> QED BY <1>1, <1>2, <1>3

\* The list is asked for, whatever it was before: what is applied is what the
\* settings accept, and the listener takes it when it is served.
LEMMA AskedIsOpen ==
  ASSUME TrustRest, trusted' \in Book, ready', chain' = "ok", ready' \in BOOLEAN, UNCHANGED listener,
         Has({"listening", "applied", "refused"}, ui'), ui'.applied = Wanted',
         updates' = {[n |-> 1, op |-> "update", users |-> Wanted', stage |-> "asked"]}
  PROVE  TrustRest'
<1>1. /\ Starting' = {} /\ Pending' = updates'
      /\ \A c \in updates' : /\ Has(UpdateFields, c) /\ c.n = 1 /\ c.op = "update" /\ c.users = Wanted'
                             /\ c.stage = "asked"
      /\ \A c, d \in updates' : c = d
  BY UpdateAsked
<1>2. \E c \in updates' : c.stage # "done" /\ c.stage = "asked"
  BY <1>1
<1>3. TrustShape'
  BY <1>1 DEF TrustRest, TrustShape, Book
<1>4. Heard'
  BY <1>1 DEF TrustRest, Heard
<1>5. OnceOpened'
  <2>1. Fits(ui.applied)'
    BY DEF Fits
  <2>2. Pending' # {} /\ ~\A c \in Pending' : c.stage # "asked"
    BY <1>1, <1>2
  <2> QED BY <1>1, <2>1, <2>2 DEF OnceOpened
<1> QED BY <1>3, <1>4, <1>5 DEF TrustRest

\* Nothing changes of the calls and of what the listener was told.
LEMMA ListUnchanged ==
  ASSUME UNCHANGED updates
  PROVE  Starting' = Starting /\ Pending' = Pending
BY DEF Starting, Pending

LEMMA SaveStep == ASSUME TrustAssumption, TrustRest, Trusted!saveSettings PROVE TrustRest'
<1>1. /\ ready /\ trusted' \in Book /\ Trusted!syncTrapUsers(trusted', chain) /\ UNCHANGED <<chain, ready, listener>>
  BY DEF Trusted!saveSettings, TrustRest, TrustShape, Book
<1>2. TrustShape /\ chain \in {"ok", "locked"} /\ ready \in BOOLEAN
  BY DEF TrustRest, TrustShape
<1>3. CASE /\ chain # "ok" \/ Trusted!trapUsers(trusted', chain) = ui.applied
           /\ UNCHANGED <<ui, updates>>
  <2>1. Starting' = Starting /\ Pending' = Pending /\ TrustShape'
    BY <1>1, <1>2, <1>3, ListUnchanged DEF TrustShape, Book
  <2>2. Heard'
    BY <1>1, <1>3, <2>1 DEF TrustRest, Heard
  <2>3. CASE chain # "ok"
    <3>1. WhileLocked
      BY <1>1, <1>2, <2>3 DEF TrustRest
    <3>2. WhileLocked'
      BY <1>1, <1>3, <2>1, <3>1 DEF WhileLocked
    <3> QED BY <1>1, <1>2, <2>1, <2>2, <2>3, <3>2 DEF TrustRest
  <2>4. CASE chain = "ok"
    <3>1. OnceOpened
      BY <1>1, <2>4 DEF TrustRest
    <3>2. /\ Trusted!trapUsers(trusted', "ok") = Wanted
          /\ \A u \in Users : trusted'[u].accept => trusted[u].accept
      <4>1. Fits(ui.applied) /\ Trusted!trapUsers(trusted', "ok") = ui.applied
        BY <1>3, <2>4, <3>1 DEF OnceOpened
      <4> QED BY <1>1, <4>1, ListKept
    <3>3. Wanted' = Wanted
      BY <3>2 DEF Wanted
    <3>4. \A x : Fits(x)' <=> Fits(x)
      BY <3>3 DEF Fits
    <3>5. OnceOpened'
      <4>1. Fits(ui.applied)' /\ \A c \in Starting' : Fits(c.users)'
        BY <1>3, <2>1, <3>1, <3>3 DEF OnceOpened, Fits
      <4>2. \A c \in Pending' : c.users = Wanted' /\ ui'.applied = Wanted'
        BY <1>3, <2>1, <3>1, <3>3 DEF OnceOpened
      <4>3. (\A c \in Pending' : c.stage # "asked") => listener'.kept = Trusted!Taken(Wanted')
        BY <1>1, <2>1, <3>1, <3>3 DEF OnceOpened
      <4>4. Pending' = {} => \A u \in Users : trusted'[u].accept =>
                               ((\E x \in ui'.refused : x[1] = u) <=> u \in Unusable)
        BY <1>3, <2>1, <3>1, <3>2 DEF OnceOpened
      <4> QED BY <4>1, <4>2, <4>3, <4>4 DEF OnceOpened
    <3> QED BY <1>1, <2>1, <2>2, <2>4, <3>5 DEF TrustRest
  <2> QED BY <2>3, <2>4
<1>4. CASE ~ (/\ chain # "ok" \/ Trusted!trapUsers(trusted', chain) = ui.applied
              /\ UNCHANGED <<ui, updates>>)
  <2>1. /\ chain = "ok"
        /\ updates' = {[n |-> 1, op |-> "update", users |-> Trusted!trapUsers(trusted', "ok"), stage |-> "asked"]}
        /\ Has({"listening", "applied", "refused"}, ui') /\ ui'.applied = Trusted!trapUsers(trusted', "ok")
    BY <1>1, <1>2, <1>4, SyncIs
  <2>2. Wanted' = Trusted!trapUsers(trusted', "ok")
    BY DEF Wanted
  <2> QED BY <1>1, <1>2, <2>1, <2>2, AskedIsOpen
<1> QED BY <1>3, <1>4

\* Opened for the first time, with what is remembered for a list that cannot be
\* read: nothing is told, and so nobody is accepted.
LEMMA OpenedUntold ==
  ASSUME TrustRest, UNCHANGED <<trusted, ui, updates, listener>>, ready', ready' \in BOOLEAN, chain' = "ok",
         ui.applied = {}, Wanted = {}, Pending = {}, listener.kept = {},
         \A c \in Starting : c.users \subseteq Users \X {LeftOut}
  PROVE  TrustRest'
<1>1. Starting' = Starting /\ Pending' = Pending /\ Wanted' = {}
  BY ListUnchanged DEF Wanted
<1>2. TrustShape' /\ Heard'
  BY <1>1 DEF TrustRest, TrustShape, Heard
<1>3. \A u \in Users : ~trusted[u].accept
  <2> SUFFICES ASSUME NEW u \in Users, trusted[u].accept PROVE FALSE
    OBVIOUS
  <2>1. <<u, trusted[u].pass>> \in Wanted
    BY ListIs DEF Wanted, Accepted
  <2> QED BY <2>1
<1>4. Fits(ui.applied)' /\ \A c \in Starting' : Fits(c.users)'
  BY <1>1 DEF Fits
<1>5. listener'.kept = Trusted!Taken(Wanted')
  BY <1>1, TakenOfShut
<1>6. OnceOpened'
  BY <1>1, <1>3, <1>4, <1>5 DEF OnceOpened
<1> QED BY <1>2, <1>6 DEF TrustRest

LEMMA ReadyStep == ASSUME TrustAssumption, TrustRest, Trusted!settingsReady PROVE TrustRest'
<1>1. /\ ~ready /\ ready' = TRUE /\ Trusted!syncTrapUsers(trusted, chain) /\ UNCHANGED <<trusted, chain, listener>>
  BY DEF Trusted!settingsReady
<1>2. TrustShape /\ chain \in {"ok", "locked"} /\ trusted \in Book /\ BeforeOpened
  BY <1>1 DEF TrustRest, TrustShape, Book
<1>3. Wanted \subseteq Users \X Editions /\ Unread \subseteq Users \X {Unopened} /\ Wanted # None /\ Unread # None
  BY <1>2, ListWithin, NotNone DEF Wanted, Unread
<1>4. CASE chain = "locked"
  <2>1. UNCHANGED <<ui, updates>>
    BY <1>1, <1>2, <1>4, SyncIs
  <2>2. Starting' = Starting /\ Pending' = Pending
    BY <2>1, ListUnchanged
  <2>3. TrustShape' /\ Heard'
    BY <1>1, <1>2, <2>1, <2>2 DEF TrustRest, TrustShape, Heard
  <2>4. Shut(Unread)
    BY <1>3 DEF Shut
  <2>5. WhileLocked
    <3>1. ui.applied = {} => Unread = {}
      BY <1>2, NotNone DEF BeforeOpened
    <3>2. ui.applied = {} => listener.kept = {} /\ \A c \in Starting : c.users = {}
      <4> SUFFICES ASSUME ui.applied = {} PROVE listener.kept = {} /\ \A c \in Starting : c.users = {}
        OBVIOUS
      <4>1. Unread = {} /\ ui.applied # None
        BY <3>1, NotNone
      <4> QED BY <1>2, <4>1, TakenOfShut DEF BeforeOpened
    <3>3. ui.applied # None => Shut(ui.applied)
      BY <1>2, <2>4 DEF BeforeOpened
    <3> QED BY <1>2, <2>4, <3>2, <3>3 DEF BeforeOpened, WhileLocked
  <2>6. WhileLocked'
    BY <1>1, <2>1, <2>2, <2>5 DEF WhileLocked
  <2> QED BY <1>1, <1>4, <2>3, <2>6 DEF TrustRest
<1>5. CASE chain = "ok" /\ UNCHANGED <<ui, updates>> /\ Wanted = ui.applied
  <2>1. Unread = Wanted
    BY <1>2, <1>3, <1>5 DEF BeforeOpened
  <2>2. Wanted = {}
    BY <1>3, <2>1, OnlyEmpty
  <2>3. listener.kept = {} /\ \A c \in Starting : c.users \subseteq Users \X {LeftOut}
    BY <1>2, <1>3, <1>5, <2>1, <2>2, TakenOfShut DEF BeforeOpened
  <2> QED BY <1>1, <1>2, <1>5, <2>2, <2>3, OpenedUntold DEF BeforeOpened
<1>6. CASE chain = "ok" /\ ~(UNCHANGED <<ui, updates>> /\ Wanted = ui.applied)
  <2>1. /\ updates' = {[n |-> 1, op |-> "update", users |-> Trusted!trapUsers(trusted, "ok"), stage |-> "asked"]}
        /\ Has({"listening", "applied", "refused"}, ui') /\ ui'.applied = Trusted!trapUsers(trusted, "ok")
    BY <1>1, <1>2, <1>6, SyncIs DEF Wanted
  <2>2. Wanted' = Trusted!trapUsers(trusted, "ok")
    BY <1>1 DEF Wanted
  <2> QED BY <1>1, <1>2, <1>6, <2>1, <2>2, AskedIsOpen
<1> QED BY <1>2, <1>4, <1>5, <1>6

LEMMA UnlockStep == ASSUME TrustAssumption, TrustRest, Trusted!Unlock PROVE TrustRest'
<1>1. /\ ready /\ chain = "locked" /\ chain' = "ok" /\ Trusted!syncTrapUsers(trusted, "ok")
      /\ UNCHANGED <<trusted, ready, listener>>
  BY DEF Trusted!Unlock
<1>2. TrustShape /\ trusted \in Book /\ WhileLocked /\ ready \in BOOLEAN
  BY <1>1 DEF TrustRest, TrustShape, Book
<1>3. Wanted \subseteq Users \X Editions /\ Wanted # None
  BY <1>2, ListWithin, NotNone DEF Wanted
<1>4. CASE UNCHANGED <<ui, updates>> /\ Wanted = ui.applied
  <2>1. Wanted = {} /\ ui.applied = {}
    BY <1>2, <1>3, <1>4, OnlyEmpty DEF WhileLocked
  <2> QED BY <1>1, <1>2, <1>4, <2>1, OpenedUntold DEF WhileLocked
<1>5. CASE ~(UNCHANGED <<ui, updates>> /\ Wanted = ui.applied)
  <2>1. /\ updates' = {[n |-> 1, op |-> "update", users |-> Trusted!trapUsers(trusted, "ok"), stage |-> "asked"]}
        /\ Has({"listening", "applied", "refused"}, ui') /\ ui'.applied = Trusted!trapUsers(trusted, "ok")
    BY <1>1, <1>2, <1>5, SyncIs DEF Wanted
  <2>2. Wanted' = Trusted!trapUsers(trusted, "ok")
    BY <1>1 DEF Wanted
  <2> QED BY <1>1, <1>2, <2>1, <2>2, AskedIsOpen
<1> QED BY <1>4, <1>5

\* A start or a stop, asked for with what can be read.
LEMMA OneAsked ==
  ASSUME TrustShape, NEW op \in {"start", "stop"}, NEW users,
         updates' = {[n |-> 1, op |-> op, users |-> users, stage |-> "asked"]}
  PROVE  /\ Pending' = {} /\ \A c \in Starting' : c.users = users
         /\ \A c \in updates' : /\ Has(UpdateFields, c) /\ c.n = 1 /\ c.op = op /\ c.users = users
                                /\ c.stage = "asked"
         /\ \A c, d \in updates' : c = d
<1> DEFINE c == [n |-> 1, op |-> op, users |-> users, stage |-> "asked"]
<1>1. Has(UpdateFields, c) /\ c.n = 1 /\ c.op = op /\ c.users = users /\ c.stage = "asked"
  BY DEF Has, UpdateFields
<1>2. updates' = {c}
  OBVIOUS
<1> HIDE DEF c
<1>3. Pending' = {} /\ Starting' \subseteq {c}
  BY <1>1, <1>2 DEF Starting, Pending
<1> QED BY <1>1, <1>2, <1>3

LEMMA ToggleStep == ASSUME TrustAssumption, TrustRest, Trusted!toggleListener PROVE TrustRest'
<1>1. UNCHANGED <<trusted, chain, ready, ui, listener>>
  BY DEF Trusted!toggleListener
<1>2. TrustShape /\ trusted \in Book /\ chain \in {"ok", "locked"} /\ ready \in BOOLEAN
  BY DEF TrustRest, TrustShape, Book
<1>3. PICK op \in {"start", "stop"} :
        \E users : Trusted!Send(op, users) /\ (op = "start" => users = Trusted!trapUsers(trusted, Trusted!Key))
  BY DEF Trusted!toggleListener
<1>4. PICK users : Trusted!Send(op, users) /\ (op = "start" => users = Trusted!trapUsers(trusted, Trusted!Key))
  BY <1>3
<1>5. updates = {} /\ updates' = {[n |-> 1, op |-> op, users |-> users, stage |-> "asked"]}
  BY <1>2, <1>4, CallIsSent
<1>6. /\ Pending' = {} /\ \A c \in Starting' : c.users = users
      /\ \A c \in updates' : /\ Has(UpdateFields, c) /\ c.n = 1 /\ c.op = op /\ c.users = users
                             /\ c.stage = "asked"
      /\ \A c, d \in updates' : c = d
  BY <1>2, <1>5, OneAsked
<1>7. \A c \in Starting' : c.users = Trusted!trapUsers(trusted, Trusted!Key)
  BY <1>4, <1>6 DEF Starting
<1>8. Starting = {} /\ Pending = {}
  BY <1>5 DEF Starting, Pending
<1>9. TrustShape'
  BY <1>1, <1>2, <1>6 DEF TrustShape
<1>10. Heard'
  BY <1>1, <1>6 DEF TrustRest, Heard, Starting
<1>11. Wanted' = Wanted /\ Unread' = Unread
  BY <1>1 DEF Wanted, Unread
<1>12. ASSUME ~ready PROVE BeforeOpened'
  <2>1. \A c \in Starting' : c.users = Unread'
    BY <1>7, <1>11, <1>12 DEF Unread, Trusted!Key
  <2> QED BY <1>1, <1>6, <1>11, <1>12, <2>1 DEF TrustRest, BeforeOpened
<1>13. ASSUME ready, chain = "locked" PROVE WhileLocked'
  <2>1. \A c \in Starting' : c.users \subseteq Users \X {LeftOut}
    BY <1>2, <1>7, <1>13, ListWithin DEF Trusted!Key
  <2> QED BY <1>1, <1>6, <1>13, <2>1 DEF TrustRest, WhileLocked, Shut
<1>14. ASSUME ready, chain = "ok" PROVE OnceOpened'
  <2>1. \A c \in Starting' : c.users = Wanted
    BY <1>7, <1>14 DEF Wanted, Trusted!Key
  <2>2. Fits(ui.applied)' /\ \A c \in Starting' : Fits(c.users)'
    BY <1>1, <1>11, <1>14, <2>1 DEF TrustRest, OnceOpened, Fits
  <2>3. listener'.kept = Trusted!Taken(Wanted')
    BY <1>1, <1>8, <1>11, <1>14 DEF TrustRest, OnceOpened
  <2> QED BY <1>1, <1>6, <1>8, <1>14, <2>2, <2>3 DEF TrustRest, OnceOpened
<1> QED BY <1>1, <1>2, <1>9, <1>10, <1>12, <1>13, <1>14 DEF TrustRest

\* A call that is served or fails: what is under way is of the same kind.
LEMMA SameCalls ==
  ASSUME TrustShape, NEW c \in updates, NEW stage \in {"done", "failed"}, NEW d, SaidOf(c, stage, d), updates' = {d}
  PROVE  /\ Starting = IF c.op = "start" THEN {c} ELSE {}
         /\ Pending = IF c.op = "update" THEN {c} ELSE {}
         /\ Starting' = IF c.op = "start" THEN {d} ELSE {}
         /\ Pending' = IF c.op = "update" THEN {d} ELSE {}
         /\ \A e \in updates' : /\ Has(UpdateFields, e) /\ e.n = 1
                                /\ e.op \in {"start", "stop", "update"} /\ e.stage \in {"asked", "done", "failed"}
         /\ \A e, f \in updates' : e = f
<1>1. updates = {c} /\ c.op \in {"start", "stop", "update"}
  BY OnlyCall DEF TrustShape
<1>2. Starting = IF c.op = "start" THEN {c} ELSE {}
  BY <1>1 DEF Starting
<1>3. Pending = IF c.op = "update" THEN {c} ELSE {}
  BY <1>1 DEF Pending
<1>4. d.op = c.op /\ Has(UpdateFields, d) /\ d.n = 1 /\ d.stage = stage
  BY DEF SaidOf
<1>5. Starting' = IF c.op = "start" THEN {d} ELSE {}
  BY <1>4 DEF Starting
<1>6. Pending' = IF c.op = "update" THEN {d} ELSE {}
  BY <1>4 DEF Pending
<1> QED BY <1>1, <1>2, <1>3, <1>4, <1>5, <1>6

\* The listener is told, or only stops: what it keeps is what the answer says, and
\* once the credentials are open, what the settings accept.
LEMMA ServedStep ==
  ASSUME TrustAssumption, TrustRest, UNCHANGED <<trusted, chain, ready, ui>>,
         NEW c \in updates, c.stage = "asked", NEW stage \in {"done", "failed"}, NEW d, SaidOf(c, stage, d), updates' = {d},
         Has({"running", "users", "kept"}, listener'), listener'.running => listener'.users = listener'.kept,
         \/ stage = "done" /\ c.op \in {"start", "update"} /\ listener'.kept = Trusted!Taken(c.users)
         \/ listener'.kept = listener.kept /\ (c.op = "stop" \/ (c.op = "start" /\ stage = "failed"))
  PROVE  TrustRest'
<1>1. TrustShape /\ trusted \in Book /\ chain \in {"ok", "locked"} /\ ready \in BOOLEAN
  BY DEF TrustRest, TrustShape, Book
<1>2. /\ Starting = IF c.op = "start" THEN {c} ELSE {}
      /\ Pending = IF c.op = "update" THEN {c} ELSE {}
      /\ Starting' = IF c.op = "start" THEN {d} ELSE {}
      /\ Pending' = IF c.op = "update" THEN {d} ELSE {}
      /\ \A e \in updates' : /\ Has(UpdateFields, e) /\ e.n = 1
                             /\ e.op \in {"start", "stop", "update"} /\ e.stage \in {"asked", "done", "failed"}
      /\ \A e, f \in updates' : e = f
  BY <1>1, SameCalls
<1>3. d.users = c.users /\ d.stage = stage /\ d.op = c.op
  BY DEF SaidOf
<1>4. TrustShape'
  BY <1>1, <1>2 DEF TrustShape, Book
<1>5. Heard'
  <2>1. \A e \in Starting' \cup Pending' : e = d /\ c.op \in {"start", "update"}
    BY <1>2
  <2>2. c.op \in {"start", "update"} /\ stage = "done" => listener'.kept = Trusted!Taken(d.users)
    BY <1>3
  <2>3. \A e \in Pending' : e.stage # "failed"
    BY <1>2, <1>3
  <2> QED BY <1>3, <2>1, <2>2, <2>3 DEF Heard
<1>6. Wanted' = Wanted /\ Unread' = Unread
  BY DEF Wanted, Unread
<1>7. ASSUME ~ready PROVE BeforeOpened'
  <2>1. BeforeOpened
    BY <1>7 DEF TrustRest
  <2>2. c.op # "update" /\ Pending' = {} /\ \A e \in Starting' : e.users = Unread
    BY <1>2, <1>3, <2>1 DEF BeforeOpened
  <2>3. ui.applied # None => listener'.kept = Trusted!Taken(Unread)
    BY <1>2, <2>1, <2>2 DEF BeforeOpened
  <2> QED BY <1>6, <2>1, <2>2, <2>3 DEF BeforeOpened
<1>8. ASSUME ready, chain = "locked" PROVE WhileLocked'
  <2>1. WhileLocked
    BY <1>8 DEF TrustRest
  <2>2. c.op # "update" /\ Pending' = {} /\ \A e \in Starting' : e.users = c.users /\ c \in Starting
    BY <1>2, <1>3, <2>1 DEF WhileLocked
  <2>3. ui.applied = {} => listener'.kept = {}
    BY <1>2, <2>1, <2>2, TakenOfShut DEF WhileLocked
  <2> QED BY <2>1, <2>2, <2>3 DEF WhileLocked
<1>9. ASSUME ready, chain = "ok" PROVE OnceOpened'
  <2>1. OnceOpened
    BY <1>9 DEF TrustRest
  <2>2. /\ c.op = "start" => Fits(c.users) /\ Pending = {} /\ listener.kept = Trusted!Taken(Wanted)
        /\ c.op = "update" => c.users = Wanted /\ ui.applied = Wanted
        /\ c.op = "stop" => Pending = {} /\ listener.kept = Trusted!Taken(Wanted)
    BY <1>2, <2>1 DEF OnceOpened
  <2>3. listener'.kept = Trusted!Taken(Wanted)
    BY <2>2, FitsTaken DEF TrustRest
  <2>4. Fits(ui.applied)' /\ \A e \in Starting' : Fits(e.users)'
    BY <1>2, <1>3, <1>6, <2>1, <2>2 DEF OnceOpened, Fits
  <2>5. \A e \in Pending' : e.users = Wanted' /\ ui'.applied = Wanted'
    BY <1>2, <1>3, <1>6, <2>2
  <2>6. Pending' = {} => Pending = {}
    BY <1>2
  <2> QED BY <1>6, <2>1, <2>3, <2>4, <2>5, <2>6 DEF OnceOpened
<1> QED BY <1>1, <1>4, <1>5, <1>7, <1>8, <1>9 DEF TrustRest

LEMMA HearsIs ==
  ASSUME NEW c, NEW running
  PROVE  /\ Has({"running", "users", "kept"}, Trusted!Hears(c, running))
         /\ Trusted!Hears(c, running).users = Trusted!Hears(c, running).kept
         /\ Trusted!Hears(c, running).kept = Trusted!Taken(c.users)
BY DEF Trusted!Hears, Has

LEMMA StoppedIs ==
  ASSUME TrustShape, listener' = [listener EXCEPT !.running = FALSE]
  PROVE  /\ Has({"running", "users", "kept"}, listener')
         /\ ~listener'.running /\ listener'.kept = listener.kept
<1>1. Has({"running", "users", "kept"}, listener)
  BY DEF TrustShape
<1>2. DOMAIN listener = {"running", "users", "kept"}
  BY <1>1, HasDomain
<1> QED BY <1>2 DEF Has

LEMMA GoStep ==
  ASSUME TrustAssumption, TrustRest, mishaps' = mishaps, mishaps \in Nat,
         Trusted!StartListener \/ Trusted!UpdateTrapUsers \/ Trusted!StopListener
  PROVE  TrustRest'
<1>1. TrustShape /\ ~Trusted!Mishap
  BY DEF TrustRest, Trusted!Mishap
<1>2. UNCHANGED <<trusted, chain, ready, ui>>
  BY DEF Trusted!StartListener, Trusted!UpdateTrapUsers, Trusted!StopListener
<1>3. CASE Trusted!StartListener
  <2>1. PICK c \in updates :
          /\ c.op = "start" /\ c.stage = "asked"
          /\ \/ Trusted!Reply(c, Trusted!Fails(c)) /\ UNCHANGED listener
             \/ Trusted!Reply(c, Trusted!Done(c)) /\ listener' = Trusted!Hears(c, TRUE)
    BY <1>1, <1>3 DEF Trusted!StartListener
  <2>2. CASE Trusted!Reply(c, Trusted!Fails(c)) /\ UNCHANGED listener
    <3>1. SaidOf(c, "failed", Trusted!Fails(c)) /\ updates' = {Trusted!Fails(c)}
      BY <1>1, <2>2, CallAnswered
    <3>2. Has({"running", "users", "kept"}, listener') /\ (listener'.running => listener'.users = listener'.kept)
      BY <2>2 DEF TrustRest, TrustShape, Heard
    <3> QED BY <1>2, <2>1, <2>2, <3>1, <3>2, ServedStep
  <2>3. CASE Trusted!Reply(c, Trusted!Done(c)) /\ listener' = Trusted!Hears(c, TRUE)
    <3>1. SaidOf(c, "done", Trusted!Done(c)) /\ updates' = {Trusted!Done(c)}
      BY <1>1, <2>3, CallAnswered
    <3> QED BY <1>2, <2>1, <2>3, <3>1, HearsIs, ServedStep
  <2> QED BY <2>1, <2>2, <2>3
<1>4. CASE Trusted!UpdateTrapUsers
  <2>1. PICK c \in updates :
          /\ c.op = "update" /\ c.stage = "asked"
          /\ Trusted!Reply(c, Trusted!Done(c)) /\ listener' = Trusted!Hears(c, listener.running)
    BY <1>1, <1>4 DEF Trusted!UpdateTrapUsers
  <2>2. SaidOf(c, "done", Trusted!Done(c)) /\ updates' = {Trusted!Done(c)}
    BY <1>1, <2>1, CallAnswered
  <2> QED BY <1>2, <2>1, <2>2, HearsIs, ServedStep
<1>5. CASE Trusted!StopListener
  <2>1. PICK c \in updates :
          /\ c.op = "stop" /\ c.stage = "asked"
          /\ Trusted!Reply(c, Trusted!Done(c)) /\ listener' = [listener EXCEPT !.running = FALSE]
    BY <1>5 DEF Trusted!StopListener
  <2>2. SaidOf(c, "done", Trusted!Done(c)) /\ updates' = {Trusted!Done(c)}
    BY <1>1, <2>1, CallAnswered
  <2> QED BY <1>1, <1>2, <2>1, <2>2, StoppedIs, ServedStep
<1> QED BY <1>3, <1>4, <1>5

\* An answer is heard: what was started with is what is applied, and what the
\* listener refused of it is what the tab says.
LEMMA UsersAnswered ==
  ASSUME TrustAssumption, TrustRest, UNCHANGED <<trusted, chain, ready, listener>>, mishaps = 0,
         Trusted!start \/ Trusted!stop \/ Trusted!reportRefused
  PROVE  TrustRest'
<1>1. TrustShape /\ trusted \in Book /\ chain \in {"ok", "locked"} /\ ready \in BOOLEAN
  BY DEF TrustRest, TrustShape, Book
<1>2. PICK c \in updates : /\ c.stage # "asked" /\ updates' = updates \ {c}
                           /\ \/ c.op = "start" /\ c.stage = "failed" /\ ui' = ui
                              \/ /\ c.op = "start" /\ c.stage # "failed"
                                 /\ ui' = [listening |-> TRUE, applied |-> c.users, refused |-> Trusted!Refused(c.users)]
                              \/ c.op = "stop" /\ ui' = [ui EXCEPT !.listening = FALSE]
                              \/ c.op = "update" /\ c.stage = "failed" /\ ui' = [ui EXCEPT !.listening = FALSE]
                              \/ /\ c.op = "update" /\ c.stage # "failed"
                                 /\ ui' = [ui EXCEPT !.refused = Trusted!Refused(c.users)]
  BY DEF Trusted!start, Trusted!stop, Trusted!reportRefused
<1>3. updates = {c} /\ updates' = {} /\ Starting' = {} /\ Pending' = {}
  BY <1>1, <1>2, OnlyCall DEF Starting, Pending
<1>4. DOMAIN ui = {"listening", "applied", "refused"} /\ Has({"listening", "applied", "refused"}, ui)
  BY <1>1, HasDomain DEF TrustShape
<1>5. Has({"listening", "applied", "refused"}, ui')
  BY <1>2, <1>4 DEF Has
<1>6. \/ /\ c.op = "start" /\ c.stage = "done" /\ ui'.applied = c.users /\ ui'.refused = Trusted!Refused(c.users)
         /\ c \in Starting /\ listener.kept = Trusted!Taken(c.users)
      \/ /\ c.op \in {"start", "stop"} /\ ui'.applied = ui.applied /\ ui'.refused = ui.refused
      \/ /\ c.op = "update" /\ c \in Pending /\ ui'.applied = ui.applied /\ ui'.refused = Trusted!Refused(c.users)
         /\ c.stage # "asked"
  <2>1. c.op = "start" /\ c.stage = "done" => c \in Starting /\ listener.kept = Trusted!Taken(c.users)
    BY DEF TrustRest, Heard, Starting
  <2>2. c.op = "update" => c \in Pending /\ c.stage # "failed"
    BY DEF TrustRest, Heard, Pending
  <2>3. c.stage \in {"done", "failed"}
    BY <1>1, <1>2 DEF TrustShape
  <2> QED BY <1>2, <1>4, <2>1, <2>2, <2>3
<1>7. TrustShape' /\ Heard'
  BY <1>1, <1>3, <1>5 DEF TrustShape, TrustRest, Heard, Book
<1>8. Wanted' = Wanted /\ Unread' = Unread
  BY DEF Wanted, Unread
<1>9. ASSUME ~ready PROVE BeforeOpened'
  <2>1. BeforeOpened
    BY <1>9 DEF TrustRest
  <2>2. ui'.applied \in {None, Unread} /\ (ui'.applied # None => listener.kept = Trusted!Taken(Unread))
    BY <1>6, <2>1 DEF BeforeOpened
  <2> QED BY <1>3, <1>8, <2>2 DEF BeforeOpened
<1>10. ASSUME ready, chain = "locked" PROVE WhileLocked'
  <2>1. WhileLocked
    BY <1>10 DEF TrustRest
  <2>2. ui'.applied # None => Shut(ui'.applied)
    BY <1>6, <2>1 DEF WhileLocked
  <2>3. ui'.applied = {} => listener.kept = {}
    BY <1>6, <2>1, TakenOfShut DEF WhileLocked
  <2> QED BY <1>3, <2>2, <2>3 DEF WhileLocked, Shut
<1>11. ASSUME ready, chain = "ok" PROVE OnceOpened'
  <2>1. OnceOpened
    BY <1>11 DEF TrustRest
  <2>2. Fits(ui.applied)'
    BY <1>6, <1>8, <2>1 DEF OnceOpened, Fits
  <2>3. Pending = {} \/ Pending = {c}
    BY <1>3 DEF Pending
  <2>4. listener.kept = Trusted!Taken(Wanted)
    BY <1>2, <2>1, <2>3 DEF OnceOpened
  <2>5. ASSUME NEW u \in Users, trusted[u].accept PROVE (\E x \in ui'.refused : x[1] = u) <=> u \in Unusable
    <3>1. <<u, trusted[u].pass>> \in Wanted
      BY <2>5, ListIs DEF Wanted, Accepted
    <3>2. CASE ui'.refused = ui.refused /\ c.op \in {"start", "stop"}
      <4>1. Pending = {}
        BY <1>3, <3>2 DEF Pending
      <4> QED BY <2>1, <2>5, <3>2, <4>1 DEF OnceOpened
    <3>3. CASE ui'.refused = Trusted!Refused(c.users) /\ c \in Starting \cup Pending
      <4>1. c.users = Wanted
        BY <2>1, <3>1, <3>3 DEF OnceOpened, Fits
      <4> QED BY <1>1, <2>5, <3>3, <4>1, RefusedOf
    <3> QED BY <1>6, <3>2, <3>3
  <2> QED BY <1>3, <1>8, <2>2, <2>4, <2>5 DEF OnceOpened
<1> QED BY <1>1, <1>7, <1>9, <1>10, <1>11 DEF TrustRest

LEMMA TrustStep ==
  ASSUME TrustAssumption, TrustInv, [Trusted!Next]_Trusted!vars PROVE TrustInv'
<1>1. mishaps \in Nat /\ (mishaps = 0 => TrustRest)
  BY DEF TrustInv, TrustRest
<1>2. SUFFICES mishaps' \in Nat /\ (mishaps' = 0 => TrustRest')
  BY DEF TrustInv, TrustRest
<1>3. CASE UNCHANGED Trusted!vars
  <2>1. mishaps' = mishaps
    BY <1>3 DEF Trusted!vars
  <2>2. TrustRest => TrustRest'
    BY <1>3 DEF Trusted!vars, TrustRest, TrustShape, Heard, BeforeOpened, WhileLocked, OnceOpened, Starting,
       Pending, Wanted, Unread, Fits, Shut
  <2> QED BY <1>1, <2>1, <2>2
<1>4. CASE Trusted!saveSettings
  BY <1>1, <1>4, SaveStep DEF Trusted!saveSettings
<1>5. CASE Trusted!settingsReady
  BY <1>1, <1>5, ReadyStep DEF Trusted!settingsReady
<1>6. CASE Trusted!Unlock
  BY <1>1, <1>6, UnlockStep DEF Trusted!Unlock
<1>7. CASE Trusted!toggleListener
  BY <1>1, <1>7, ToggleStep DEF Trusted!toggleListener
<1>8. CASE Trusted!StartListener \/ Trusted!UpdateTrapUsers \/ Trusted!StopListener
  <2>1. mishaps' = mishaps \/ mishaps' = mishaps + 1
    BY <1>8 DEF Trusted!StartListener, Trusted!UpdateTrapUsers, Trusted!StopListener, Trusted!Mishap
  <2>2. mishaps' = 0 => mishaps' = mishaps /\ mishaps = 0
    BY <1>1, <2>1
  <2> QED BY <1>1, <1>8, <2>1, <2>2, GoStep
<1>9. CASE Trusted!start \/ Trusted!stop \/ Trusted!reportRefused
  <2>1. UNCHANGED <<trusted, chain, ready, listener, mishaps>>
    BY <1>9 DEF Trusted!start, Trusted!stop, Trusted!reportRefused
  <2> QED BY <1>1, <1>9, <2>1, UsersAnswered
<1>10. CASE Trusted!trapError
  <2>1. mishaps' = mishaps + 1
    BY <1>10 DEF Trusted!trapError, Trusted!Mishap
  <2> QED BY <1>1, <2>1
<1> QED BY <1>3, <1>4, <1>5, <1>6, <1>7, <1>8, <1>9, <1>10 DEF Trusted!Next

\* The trap listener accepts, and will accept at the next login, the users that
\* the settings accept and can use, and the Traps tab says so, through starts,
\* stops, saves and a keychain that is opened late, as long as nothing fails
\* (trapStore.js syncTrapUsers, start; credentialProfiles.js trapReception).
THEOREM UsersFollow == ASSUME TrustAssumption PROVE Trusted!Spec => []Trusted!UsersFollowSettings
<1>1. Trusted!Init => TrustInv
  BY TrustInit
<1>2. TrustInv /\ [Trusted!Next]_Trusted!vars => TrustInv'
  BY TrustStep
<1>3. TrustInv => Trusted!UsersFollowSettings
  <2> SUFFICES ASSUME TrustInv, Trusted!Quiet PROVE Trusted!UsersFollowSettings!2
    BY DEF Trusted!UsersFollowSettings
  <2>1. TrustShape /\ Heard /\ OnceOpened /\ chain = "ok" /\ trusted \in Book
    BY DEF TrustInv, Trusted!Quiet, TrustShape, Book
  <2>2. Starting = {} /\ Pending = {}
    BY DEF Trusted!Quiet, Starting, Pending
  <2>3. listener.kept = Trusted!Taken(Wanted)
    BY <2>1, <2>2 DEF OnceOpened
  <2>4. ASSUME NEW u \in Users
        PROVE  Trusted!trapReception[u] = "heard" <=> \E x \in listener.kept : x[1] = u
    <3>1. Trusted!trapReception[u] = "heard" <=> trusted[u].accept /\ u \notin Unusable
      BY <2>1, <2>2 DEF OnceOpened, Trusted!trapReception
    <3>2. Wanted \subseteq Users \X Editions
      BY <2>1, ListWithin DEF Wanted
    <3>3. \A x \in Wanted : x[2] # LeftOut
      BY <3>2 DEF TrustAssumption
    <3>4. (\E x \in listener.kept : x[1] = u) <=> u \notin Unusable /\ \E x \in Wanted : x[1] = u
      BY <2>3, <3>3 DEF Trusted!Taken
    <3>5. (\E x \in Wanted : x[1] = u) <=> trusted[u].accept
      <4>1. trusted[u].accept => <<u, trusted[u].pass>> \in Wanted
        BY ListIs DEF Wanted, Accepted
      <4>2. ASSUME NEW x \in Wanted, x[1] = u PROVE trusted[u].accept
        <5>1. PICK v \in Accepted(trusted) : x = <<v, trusted[v].pass>>
          BY <4>2, ListIs DEF Wanted
        <5> QED BY <4>2, <5>1 DEF Accepted
      <4> QED BY <4>1, <4>2
    <3> QED BY <3>1, <3>4, <3>5
  <2> QED BY <2>1, <2>3, <2>4 DEF Heard, Wanted
<1> QED BY <1>1, <1>2, <1>3, PTL DEF Trusted!Spec

(***************************************************************************)
(* EditorText: the history of the text area.                               *)
(*                                                                         *)
(* An edit turns a text into another: it replaces one part of it, between  *)
(* what comes before and what comes after.  A history is a walk: texts of  *)
(* which each entry turns one into the next.                               *)
(***************************************************************************)
IsText(s) == \E S : s \in Seq(S)

LEMMA TextIs ==
  ASSUME NEW s, IsText(s)
  PROVE  /\ Len(s) \in Nat /\ DOMAIN s = 1..Len(s)
         /\ s = [i \in 1..Len(s) |-> s[i]]
         /\ s = <<>> <=> Len(s) = 0
<1>1. PICK S : s \in Seq(S)
  BY DEF IsText
<1> QED BY <1>1, LenProperties, EmptySeq

LEMMA TextsEqual ==
  ASSUME NEW s, NEW t, IsText(s), IsText(t), Len(s) = Len(t), \A i \in 1..Len(s) : s[i] = t[i]
  PROVE  s = t
<1>1. s = [i \in 1..Len(s) |-> s[i]] /\ t = [i \in 1..Len(s) |-> t[i]]
  BY TextIs
<1> QED BY <1>1

LEMMA TwoTexts == ASSUME NEW s, NEW t, IsText(s), IsText(t) PROVE \E S : s \in Seq(S) /\ t \in Seq(S)
<1>1. PICK S, T : s \in Seq(S) /\ t \in Seq(T)
  BY DEF IsText
<1>2. s \in Seq(S \cup T) /\ t \in Seq(S \cup T)
  BY <1>1, SeqMonotonic
<1> QED BY <1>2

LEMMA JoinIs ==
  ASSUME NEW s, NEW t, IsText(s), IsText(t)
  PROVE  /\ IsText(s \o t) /\ Len(s \o t) = Len(s) + Len(t)
         /\ \A i \in 1..(Len(s) + Len(t)) : (s \o t)[i] = IF i <= Len(s) THEN s[i] ELSE t[i - Len(s)]
<1>1. PICK S : s \in Seq(S) /\ t \in Seq(S)
  BY TwoTexts
<1> QED BY <1>1, ConcatProperties DEF IsText

LEMMA PartIs ==
  ASSUME NEW s, NEW m \in Int, NEW n \in Int
  PROVE  /\ IsText(SubSeq(s, m, n))
         /\ Len(SubSeq(s, m, n)) = IF m <= n THEN n - m + 1 ELSE 0
         /\ \A i \in 1..(n - m + 1) : SubSeq(s, m, n)[i] = s[m + i - 1]
<1> DEFINE S == {s[i] : i \in m..n}
<1>1. \A i \in m..n : s[i] \in S
  OBVIOUS
<1> HIDE DEF S
<1> QED BY <1>1, SubSeqProperties DEF IsText

LEMMA StartIs ==
  ASSUME NEW s, IsText(s), NEW n \in 0..Len(s)
  PROVE  /\ IsText(Text!Start(s, n)) /\ Len(Text!Start(s, n)) = n
         /\ \A i \in 1..n : Text!Start(s, n)[i] = s[i]
<1>1. n \in Int /\ (1 <= n \/ n = 0) /\ \A i \in 1..n : i \in 1..(n - 1 + 1) /\ 1 + i - 1 = i
  BY TextIs
<1>2. Text!Start(s, n) = SubSeq(s, 1, n)
  BY DEF Text!Start
<1> QED BY <1>1, <1>2, PartIs

LEMMA AfterIs ==
  ASSUME NEW s, IsText(s), NEW n \in 0..Len(s)
  PROVE  /\ IsText(Text!After(s, n)) /\ Len(Text!After(s, n)) = Len(s) - n
         /\ \A i \in 1..(Len(s) - n) : Text!After(s, n)[i] = s[i + n]
<1>1. n \in Int /\ n >= 0 /\ n <= Len(s) /\ Len(s) \in Int
  BY TextIs
<1>2. Text!After(s, n) = SubSeq(s, n + 1, Len(s))
  BY DEF Text!After
<1>3. /\ IsText(SubSeq(s, n + 1, Len(s)))
      /\ Len(SubSeq(s, n + 1, Len(s))) = IF n + 1 <= Len(s) THEN Len(s) - (n + 1) + 1 ELSE 0
      /\ \A i \in 1..(Len(s) - (n + 1) + 1) : SubSeq(s, n + 1, Len(s))[i] = s[(n + 1) + i - 1]
  BY <1>1, PartIs
<1>4. (IF n + 1 <= Len(s) THEN Len(s) - (n + 1) + 1 ELSE 0) = Len(s) - n
  BY <1>1
<1>5. \A i \in 1..(Len(s) - n) : i \in 1..(Len(s) - (n + 1) + 1) /\ (n + 1) + i - 1 = i + n
  BY <1>1
<1> QED BY <1>2, <1>3, <1>4, <1>5

\* Two parts are the text they are cut from.
LEMMA Rejoined ==
  ASSUME NEW s, IsText(s), NEW n \in 0..Len(s)
  PROVE  s = Text!Start(s, n) \o Text!After(s, n)
<1> DEFINE p == Text!Start(s, n)
           q == Text!After(s, n)
<1>1. /\ IsText(p) /\ Len(p) = n /\ \A i \in 1..n : p[i] = s[i]
      /\ IsText(q) /\ Len(q) = Len(s) - n /\ \A i \in 1..(Len(s) - n) : q[i] = s[i + n]
  BY StartIs, AfterIs
<1> HIDE DEF p, q
<1>2. /\ IsText(p \o q) /\ Len(p \o q) = Len(p) + Len(q)
      /\ \A i \in 1..(Len(p) + Len(q)) : (p \o q)[i] = IF i <= Len(p) THEN p[i] ELSE q[i - Len(p)]
  BY <1>1, JoinIs
<1>3. Len(s) \in Nat /\ n \in Nat /\ n <= Len(s)
  BY TextIs
<1>4. Len(p) + Len(q) = Len(s)
  BY <1>1, <1>3
<1>5. \A i \in 1..Len(s) : (p \o q)[i] = s[i]
  <2> TAKE i \in 1..Len(s)
  <2>1. CASE i <= n
    BY <1>1, <1>2, <1>3, <1>4, <2>1
  <2>2. CASE ~(i <= n)
    <3>1. i - n \in 1..(Len(s) - n) /\ (i - n) + n = i
      BY <1>3, <2>2
    <3>2. (p \o q)[i] = q[i - n]
      BY <1>1, <1>2, <1>4, <2>2
    <3> QED BY <1>1, <3>1, <3>2
  <2> QED BY <2>1, <2>2
<1>6. p \o q = s
  BY <1>2, <1>4, <1>5, TextsEqual
<1> QED BY <1>6 DEF p, q

\* A text that is joined can be cut where it was.
LEMMA CutIs ==
  ASSUME NEW p, NEW q, IsText(p), IsText(q)
  PROVE  Text!Start(p \o q, Len(p)) = p /\ Text!After(p \o q, Len(p)) = q
<1> DEFINE s == p \o q
           n == Len(p)
<1>1. /\ IsText(s) /\ Len(s) = n + Len(q)
      /\ \A i \in 1..(n + Len(q)) : s[i] = IF i <= n THEN p[i] ELSE q[i - n]
  BY JoinIs
<1>2. n \in Nat /\ Len(q) \in Nat
  BY TextIs
<1> HIDE DEF s
<1>3. n \in 0..Len(s)
  BY <1>1, <1>2
<1>4. /\ IsText(Text!Start(s, n)) /\ Len(Text!Start(s, n)) = n /\ \A i \in 1..n : Text!Start(s, n)[i] = s[i]
      /\ IsText(Text!After(s, n)) /\ Len(Text!After(s, n)) = Len(s) - n
      /\ \A i \in 1..(Len(s) - n) : Text!After(s, n)[i] = s[i + n]
  BY <1>1, <1>3, StartIs, AfterIs
<1>5. \A i \in 1..n : Text!Start(s, n)[i] = p[i]
  BY <1>1, <1>2, <1>4
<1>6. Len(s) - n = Len(q)
  BY <1>1, <1>2
<1>7. \A i \in 1..Len(q) : Text!After(s, n)[i] = q[i]
  <2> TAKE i \in 1..Len(q)
  <2>1. i + n \in 1..(n + Len(q)) /\ ~(i + n <= n) /\ (i + n) - n = i
    BY <1>2
  <2> QED BY <1>1, <1>4, <1>6, <2>1
<1> QED BY <1>4, <1>5, <1>6, <1>7, TextsEqual DEF s

Regroups(p, q, r) == (p \o q) \o r = p \o (q \o r)

LEMMA JoinsAssociate ==
  ASSUME NEW p, NEW q, NEW r, IsText(p), IsText(q), IsText(r)
  PROVE  Regroups(p, q, r)
<1>1. PICK S, T : p \in Seq(S) /\ q \in Seq(S) /\ r \in Seq(T)
  BY TwoTexts DEF IsText
<1>2. p \in Seq(S \cup T) /\ q \in Seq(S \cup T) /\ r \in Seq(S \cup T)
  BY <1>1, SeqMonotonic
<1> QED BY <1>2, ConcatAssociative DEF Regroups

LEMMA JoinEmpty == ASSUME NEW s, IsText(s) PROVE s \o <<>> = s /\ <<>> \o s = s /\ IsText(<<>>)
<1>1. PICK S : s \in Seq(S)
  BY DEF IsText
<1> QED BY <1>1, ConcatEmptySeq, EmptySeq DEF IsText

\* One text, cut at one place, has one start and one rest.
SameJoin(p, q, p1, q1) == p \o q = p1 \o q1 /\ Len(p) = Len(p1)

LEMMA OneCut ==
  ASSUME NEW p, NEW q, NEW p1, NEW q1, IsText(p), IsText(q), IsText(p1), IsText(q1),
         SameJoin(p, q, p1, q1)
  PROVE  p = p1 /\ q = q1
<1>1. Text!Start(p \o q, Len(p)) = p /\ Text!After(p \o q, Len(p)) = q
  BY CutIs
<1>2. Text!Start(p1 \o q1, Len(p1)) = p1 /\ Text!After(p1 \o q1, Len(p1)) = q1
  BY CutIs
<1> QED BY <1>1, <1>2 DEF SameJoin

-----------------------------------------------------------------------------
(* What holds step by step holds everywhere. *)

LEMMA LeastIs == ASSUME NEW T, T \subseteq Nat, T # {} PROVE \E n \in T : \A m \in T : n <= m
<1> DEFINE R == {ss \in Nat \X Nat : ss[1] < ss[2]}
<1>1. IsWellFoundedOn(R, Nat)
  BY NatLessThanWellFounded DEF OpToRel
<1>2. \E x \in T : \A y \in T : ~ (<<y, x>> \in R)
  <2> HIDE DEF R
  <2> QED BY <1>1, WFMin
<1>3. PICK x \in T : \A y \in T : ~ (<<y, x>> \in R)
  BY <1>2
<1>4. \A y \in T : x <= y
  <2> TAKE y \in T
  <2>1. x \in Nat /\ y \in Nat
    OBVIOUS
  <2>2. y < x => <<y, x>> \in R
    BY <2>1
  <2> QED BY <1>3, <2>1, <2>2
<1> QED BY <1>4

LEMMA AllOf == ASSUME NEW S, 0 \in S, \A n \in Nat : n \in S => n + 1 \in S PROVE Nat \subseteq S
<1> SUFFICES ASSUME Nat \ S # {} PROVE FALSE
  OBVIOUS
<1>1. PICK n \in Nat \ S : \A m \in Nat \ S : n <= m
  BY LeastIs
<1>2. n # 0 /\ n - 1 \in Nat /\ n - 1 \in S
  BY <1>1
<1> QED BY <1>1, <1>2

\* The greatest of a bounded set, and the least of any.
LEMMA MaxIs ==
  ASSUME NEW T, NEW b \in Nat, T \subseteq 0..b, T # {}
  PROVE  Text!Max(T) \in T /\ \A m \in T : m <= Text!Max(T)
<1> DEFINE U == {b - t : t \in T}
<1>1. U \subseteq Nat /\ U # {}
  <2>1. \A t \in T : t \in 0..b
    OBVIOUS
  <2>2. \A t \in T : b - t \in Nat
    BY <2>1
  <2> QED BY <2>2
<1>2. PICK u \in U : \A v \in U : u <= v
  <2> HIDE DEF U
  <2> QED BY <1>1, LeastIs
<1>3. b - u \in T /\ \A y \in T : b - u >= y
  <2>1. PICK t \in T : u = b - t
    OBVIOUS
  <2>2. b - u = t /\ b - u \in Int /\ \A y \in T : y \in Int
    BY <2>1
  <2>3. \A y \in T : b - y \in U
    OBVIOUS
  <2> QED BY <1>2, <2>2, <2>3
<1>4. Text!Max(T) \in T /\ \A y \in T : Text!Max(T) >= y
  <2> HIDE DEF U
  <2> QED BY <1>3 DEF Text!Max
<1> QED BY <1>4

LEMMA MinIs ==
  ASSUME NEW T, T \subseteq Nat, T # {}
  PROVE  Text!Min(T) \in T /\ \A m \in T : Text!Min(T) <= m
<1>1. \E x \in T : \A y \in T : x =< y
  BY LeastIs
<1> QED BY <1>1 DEF Text!Min
LEMMA OneOfTwo ==
  ASSUME NEW x \in Int, NEW y \in Int
  PROVE  /\ Text!Max({x, y}) = IF x >= y THEN x ELSE y
         /\ Text!Min({x, y}) = IF x <= y THEN x ELSE y
<1>1. \E m \in {x, y} : \A n \in {x, y} : m >= n
  OBVIOUS
<1>2. \E m \in {x, y} : \A n \in {x, y} : m =< n
  OBVIOUS
<1>3. Text!Max({x, y}) \in {x, y} /\ \A n \in {x, y} : Text!Max({x, y}) >= n
  BY <1>1 DEF Text!Max
<1>4. Text!Min({x, y}) \in {x, y} /\ \A n \in {x, y} : Text!Min({x, y}) =< n
  BY <1>2 DEF Text!Min
<1> QED BY <1>3, <1>4

LEMMA OneOfThree ==
  ASSUME NEW x \in Int, NEW y \in Int, NEW z \in Int
  PROVE  Text!Min({x, y, z}) \in {x, y, z} /\ \A n \in {x, y, z} : Text!Min({x, y, z}) <= n
<1>1. \E m \in {x, y, z} : \A n \in {x, y, z} : m =< n
  OBVIOUS
<1> QED BY <1>1 DEF Text!Min

-----------------------------------------------------------------------------
(* The smallest edit between two texts. *)

EditFields == {"at", "removed", "inserted"}

\* The edit turns s into t: between the same, it replaces one part by another.
Parted(e, p, q, s, t) ==
  /\ IsText(p) /\ IsText(q) /\ IsText(e.removed) /\ IsText(e.inserted) /\ e.at = Len(p)
  /\ s = p \o (e.removed \o q) /\ t = p \o (e.inserted \o q)
Turns(e, s, t) == \E p, q : Parted(e, p, q, s, t)

LEMMA SpliceIs ==
  ASSUME NEW p, NEW r, NEW q, NEW in, IsText(p), IsText(r), IsText(q), IsText(in)
  PROVE  Text!Splice(p \o (r \o q), Len(p), Len(r), in) = p \o (in \o q)
<1> DEFINE s == p \o (r \o q)
<1>1. IsText(r \o q) /\ IsText(p \o r) /\ Len(p \o r) = Len(p) + Len(r)
  BY JoinIs
<1>2. s = (p \o r) \o q
  <2>1. Regroups(p, r, q)
    BY JoinsAssociate
  <2> QED BY <2>1 DEF Regroups
<1>3. Text!Start(s, Len(p)) = p
  BY <1>1, CutIs
<1>4. Text!After(s, Len(p) + Len(r)) = q
  <2> HIDE DEF s
  <2>1. Text!After((p \o r) \o q, Len(p \o r)) = q
    BY <1>1, CutIs
  <2> QED BY <1>1, <1>2, <2>1
<1>5. Text!Splice(s, Len(p), Len(r), in) = (p \o in) \o q
  <2> HIDE DEF s
  <2> QED BY <1>3, <1>4 DEF Text!Splice
<1>6. Regroups(p, in, q)
  BY JoinsAssociate
<1> QED BY <1>5, <1>6 DEF Regroups

LEMMA TurnsIs ==
  ASSUME NEW e, NEW s, NEW t, Turns(e, s, t)
  PROVE  /\ Text!Forward(s, e) = t /\ Text!Back(t, e) = s
         /\ IsText(s) /\ IsText(t) /\ e.at \in Nat /\ e.at <= Len(s) /\ e.at <= Len(t)
         /\ IsText(e.removed) /\ IsText(e.inserted)
<1>1. PICK p, q : Parted(e, p, q, s, t)
  BY DEF Turns
<1> DEFINE r == e.removed
           i == e.inserted
<1>2. IsText(p) /\ IsText(q) /\ IsText(r) /\ IsText(i)
  BY <1>1 DEF Parted
<1>8. e.at = Len(p) /\ s = p \o (r \o q) /\ t = p \o (i \o q)
  BY <1>1 DEF Parted
<1> HIDE DEF r, i
<1>9. Text!Splice(p \o (r \o q), Len(p), Len(r), i) = p \o (i \o q)
  BY <1>2, SpliceIs
<1>10. Text!Splice(p \o (i \o q), Len(p), Len(i), r) = p \o (r \o q)
  BY <1>2, SpliceIs
<1>3. Text!Forward(s, e) = t
  BY <1>8, <1>9 DEF Text!Forward, r, i
<1>4. Text!Back(t, e) = s
  BY <1>8, <1>10 DEF Text!Back, r, i
<1>5. IsText(r \o q) /\ IsText(i \o q)
  BY <1>2, JoinIs
<1>6. /\ IsText(p \o (r \o q)) /\ Len(p \o (r \o q)) = Len(p) + Len(r \o q)
      /\ IsText(p \o (i \o q)) /\ Len(p \o (i \o q)) = Len(p) + Len(i \o q)
  BY <1>2, <1>5, JoinIs
<1>7. Len(p) \in Nat /\ Len(r \o q) \in Nat /\ Len(i \o q) \in Nat
  BY <1>2, <1>5, TextIs
<1> QED BY <1>2, <1>3, <1>4, <1>6, <1>7, <1>8 DEF r, i

\* An edit of a part is an edit of the whole.
LEMMA Wider ==
  ASSUME NEW d, NEW s, NEW t, Turns(d, s, t), NEW l, NEW r, IsText(l), IsText(r),
         NEW e, e.at = Len(l) + d.at, e.removed = d.removed, e.inserted = d.inserted
  PROVE  Turns(e, l \o (s \o r), l \o (t \o r))
<1>1. PICK p, q : Parted(d, p, q, s, t)
  BY DEF Turns
<1>2. IsText(p) /\ IsText(q) /\ IsText(d.removed) /\ IsText(d.inserted)
  BY <1>1 DEF Parted
<1>3. d.at = Len(p) /\ s = p \o (d.removed \o q) /\ t = p \o (d.inserted \o q)
  BY <1>1 DEF Parted
<1>4. ASSUME NEW m, IsText(m) PROVE l \o ((p \o (m \o q)) \o r) = (l \o p) \o (m \o (q \o r))
  <2>1. IsText(m \o q) /\ IsText(q \o r) /\ IsText(p)
    BY <1>2, <1>4, JoinIs
  <2>2. IsText(m \o (q \o r))
    BY <1>4, <2>1, JoinIs
  <2>3. (p \o (m \o q)) \o r = p \o ((m \o q) \o r)
    <3>1. Regroups(p, m \o q, r)
      BY <2>1, JoinsAssociate
    <3> QED BY <3>1 DEF Regroups
  <2>4. (m \o q) \o r = m \o (q \o r)
    <3>1. Regroups(m, q, r)
      BY <1>2, <1>4, JoinsAssociate
    <3> QED BY <3>1 DEF Regroups
  <2> DEFINE w == m \o (q \o r)
  <2>5. (l \o p) \o w = l \o (p \o w)
    <3> HIDE DEF w
    <3>1. IsText(w)
      BY <2>2 DEF w
    <3>2. Regroups(l, p, w)
      BY <2>1, <3>1, JoinsAssociate
    <3> QED BY <3>2 DEF Regroups
  <2> QED BY <2>3, <2>4, <2>5
<1>5. IsText(l \o p) /\ IsText(q \o r) /\ Len(l \o p) = Len(l) + Len(p)
  BY <1>2, JoinIs
<1>6. l \o ((p \o (d.removed \o q)) \o r) = (l \o p) \o (d.removed \o (q \o r))
  BY <1>2, <1>4
<1>7. l \o ((p \o (d.inserted \o q)) \o r) = (l \o p) \o (d.inserted \o (q \o r))
  BY <1>2, <1>4
<1>8. Parted(e, l \o p, q \o r, l \o (s \o r), l \o (t \o r))
  BY <1>2, <1>3, <1>5, <1>6, <1>7 DEF Parted
<1> QED BY <1>8 DEF Turns

LEMMA ThreeParts ==
  ASSUME NEW s, IsText(s), NEW m \in 0..Len(s), NEW n \in m..Len(s)
  PROVE  /\ s = Text!Start(s, m) \o (SubSeq(s, m + 1, n) \o Text!After(s, n))
         /\ IsText(SubSeq(s, m + 1, n)) /\ Len(SubSeq(s, m + 1, n)) = n - m
<1> DEFINE u == Text!After(s, m)
           v == SubSeq(s, m + 1, n)
           w == Text!After(s, n)
<1>1. m \in Nat /\ n \in Nat /\ m <= n /\ n <= Len(s) /\ Len(s) \in Nat /\ n \in 0..Len(s)
  BY TextIs
<1>2. s = Text!Start(s, m) \o u
  BY Rejoined
<1>3. IsText(u) /\ Len(u) = Len(s) - m /\ \A i \in 1..(Len(s) - m) : u[i] = s[i + m]
  BY AfterIs
<1>4. IsText(w) /\ Len(w) = Len(s) - n /\ \A i \in 1..(Len(s) - n) : w[i] = s[i + n]
  BY <1>1, AfterIs
<1>5. IsText(v) /\ Len(v) = n - m /\ \A i \in 1..(n - m) : v[i] = s[i + m]
  <2>1. /\ IsText(v) /\ Len(v) = IF m + 1 <= n THEN n - (m + 1) + 1 ELSE 0
        /\ \A i \in 1..(n - (m + 1) + 1) : v[i] = s[(m + 1) + i - 1]
    BY <1>1, PartIs
  <2>2. (IF m + 1 <= n THEN n - (m + 1) + 1 ELSE 0) = n - m
    BY <1>1
  <2>3. \A i \in 1..(n - m) : i \in 1..(n - (m + 1) + 1) /\ (m + 1) + i - 1 = i + m
    BY <1>1
  <2> QED BY <2>1, <2>2, <2>3
<1> HIDE DEF u, v, w
<1>6. /\ IsText(v \o w) /\ Len(v \o w) = Len(v) + Len(w)
      /\ \A i \in 1..(Len(v) + Len(w)) : (v \o w)[i] = IF i <= Len(v) THEN v[i] ELSE w[i - Len(v)]
  BY <1>4, <1>5, JoinIs
<1>7. Len(v \o w) = Len(u) /\ Len(u) = Len(v) + Len(w)
  BY <1>1, <1>3, <1>4, <1>5, <1>6
<1>8. \A i \in 1..Len(u) : u[i] = (v \o w)[i]
  <2> TAKE i \in 1..Len(u)
  <2>1. u[i] = s[i + m]
    BY <1>3
  <2>2. CASE i <= n - m
    BY <1>1, <1>5, <1>6, <1>7, <2>1, <2>2
  <2>3. CASE ~(i <= n - m)
    <3>1. i - (n - m) \in 1..(Len(s) - n) /\ (i - (n - m)) + n = i + m
      BY <1>1, <1>3, <2>3
    <3>2. (v \o w)[i] = w[i - (n - m)]
      BY <1>5, <1>6, <1>7, <2>3
    <3> QED BY <1>4, <2>1, <3>1, <3>2
  <2> QED BY <2>2, <2>3
<1>9. u = v \o w
  BY <1>3, <1>6, <1>7, <1>8, TextsEqual
<1> QED BY <1>2, <1>5, <1>9 DEF u, v, w

LEMMA ExactDiff ==
  ASSUME NEW b, NEW a, IsText(b), IsText(a)
  PROVE  Has(EditFields, Text!exactDiff(b, a)) /\ Turns(Text!exactDiff(b, a), b, a)
<1> DEFINE shorter == Text!Min({Len(b), Len(a)})
           P == {n \in 0..shorter : Text!Start(b, n) = Text!Start(a, n)}
           start == Text!Max(P)
           Q == {n \in 0..(shorter - start) : Text!After(b, Len(b) - n) = Text!After(a, Len(a) - n)}
           tail == Text!Max(Q)
           r == SubSeq(b, start + 1, Len(b) - tail)
           i == SubSeq(a, start + 1, Len(a) - tail)
           e == Text!exactDiff(b, a)
<1>1. e = [at |-> start, removed |-> r, inserted |-> i]
  BY DEF Text!exactDiff, Text!Edit
<1> HIDE DEF e
<1>2. Len(b) \in Nat /\ Len(a) \in Nat
  BY TextIs
<1>3. shorter \in Nat /\ shorter <= Len(b) /\ shorter <= Len(a)
  BY <1>2, OneOfTwo
<1> HIDE DEF shorter
<1>4. start \in 0..shorter /\ Text!Start(b, start) = Text!Start(a, start)
  <2>1. Text!Start(b, 0) = Text!Start(a, 0)
    <3>1. /\ IsText(Text!Start(b, 0)) /\ Len(Text!Start(b, 0)) = 0
          /\ IsText(Text!Start(a, 0)) /\ Len(Text!Start(a, 0)) = 0
      BY <1>2, StartIs
    <3> QED BY <3>1, TextIs
  <2>2. 0 \in P /\ P \subseteq 0..shorter
    BY <1>3, <2>1
  <2>3. start \in P
    <3> HIDE DEF P
    <3> QED BY <1>3, <2>2, MaxIs
  <2> QED BY <2>3
<1> HIDE DEF start
<1>5. tail \in 0..(shorter - start) /\ Text!After(b, Len(b) - tail) = Text!After(a, Len(a) - tail)
  <2>1. Text!After(b, Len(b)) = Text!After(a, Len(a))
    <3>1. Len(b) \in 0..Len(b) /\ Len(a) \in 0..Len(a) /\ Len(b) - Len(b) = 0 /\ Len(a) - Len(a) = 0
      BY <1>2
    <3>2. /\ IsText(Text!After(b, Len(b))) /\ Len(Text!After(b, Len(b))) = 0
          /\ IsText(Text!After(a, Len(a))) /\ Len(Text!After(a, Len(a))) = 0
      BY <3>1, AfterIs
    <3> QED BY <3>2, TextIs
  <2>2. 0 \in Q /\ Q \subseteq 0..(shorter - start) /\ shorter - start \in Nat
    BY <1>2, <1>3, <1>4, <2>1
  <2>3. tail \in Q
    <3> HIDE DEF Q
    <3> QED BY <2>2, MaxIs
  <2> QED BY <2>3
<1> HIDE DEF tail
<1>6. /\ start \in 0..Len(b) /\ Len(b) - tail \in start..Len(b)
      /\ start \in 0..Len(a) /\ Len(a) - tail \in start..Len(a)
  BY <1>2, <1>3, <1>4, <1>5
<1>7. b = Text!Start(b, start) \o (r \o Text!After(b, Len(b) - tail)) /\ IsText(r)
  BY <1>6, ThreeParts
<1>8. a = Text!Start(a, start) \o (i \o Text!After(a, Len(a) - tail)) /\ IsText(i)
  BY <1>6, ThreeParts
<1>9. IsText(Text!Start(b, start)) /\ Len(Text!Start(b, start)) = start
  BY <1>6, StartIs
<1>10. IsText(Text!After(b, Len(b) - tail))
  BY <1>2, <1>6, AfterIs
<1> HIDE DEF r, i
<1>11. Parted(e, Text!Start(b, start), Text!After(b, Len(b) - tail), b, a)
  BY <1>1, <1>4, <1>5, <1>7, <1>8, <1>9, <1>10 DEF Parted
<1>12. Has(EditFields, e)
  BY <1>1 DEF Has, EditFields
<1> QED BY <1>11, <1>12 DEF Turns, e
\* The search around the caret finds an edit as well: what is outside the window
\* is the same in both.
LEMMA DiffIs ==
  ASSUME NEW b, NEW a, IsText(b), IsText(a), NEW hint \in Nat, HintWindow \in Nat
  PROVE  Turns(Text!diff(b, a, hint), b, a)
<1> DEFINE delta == Len(a) - Len(b)
           near == Text!Min({hint, Len(b), Len(a)})
           lo == Text!Max({0, near - HintWindow})
           hiB == Text!Min({Len(b), hint + HintWindow})
           hiA == hiB + delta
           wb == SubSeq(b, lo + 1, hiB)
           wa == SubSeq(a, lo + 1, hiA)
           d == Text!exactDiff(wb, wa)
           Outside == /\ Text!Start(b, lo) = Text!Start(a, lo)
                      /\ hiA >= lo /\ hiA <= Len(a)
                      /\ Text!After(b, hiB) = Text!After(a, hiA)
<1>1. Text!diff(b, a, hint) = IF Outside THEN [d EXCEPT !.at = lo + d.at] ELSE Text!exactDiff(b, a)
  BY DEF Text!diff
<1>2. Len(b) \in Nat /\ Len(a) \in Nat
  BY TextIs
<1>3. near \in Int /\ near <= hint /\ near <= Len(b) /\ near <= Len(a) /\ near >= 0
  <2>1. Len(b) \in Int /\ Len(a) \in Int /\ hint \in Int
    BY <1>2
  <2>2. near \in {hint, Len(b), Len(a)} /\ \A n \in {hint, Len(b), Len(a)} : near <= n
    BY <2>1, OneOfThree
  <2> HIDE DEF near
  <2> QED BY <1>2, <2>2
<1> HIDE DEF near
<1>4. lo \in Nat /\ lo <= Len(b) /\ lo <= Len(a) /\ lo <= hint
  <2>1. near - HintWindow \in Int /\ near - HintWindow <= near
    BY <1>3
  <2>2. lo = IF 0 >= near - HintWindow THEN 0 ELSE near - HintWindow
    BY <2>1, OneOfTwo
  <2> HIDE DEF lo
  <2> QED BY <1>2, <1>3, <2>1, <2>2
<1>5. hiB \in Nat /\ lo <= hiB /\ hiB <= Len(b)
  <2>1. Len(b) \in Int /\ hint + HintWindow \in Int /\ hint <= hint + HintWindow
    BY <1>2
  <2>2. hiB = IF Len(b) <= hint + HintWindow THEN Len(b) ELSE hint + HintWindow
    BY <2>1, OneOfTwo
  <2> HIDE DEF hiB, lo
  <2> QED BY <1>2, <1>4, <2>1, <2>2
<1> HIDE DEF lo, hiB
<1>6. hiA \in Int
  BY <1>2, <1>5
<1> HIDE DEF hiA
<1>7. CASE ~Outside
  BY <1>1, <1>7, ExactDiff
<1>8. CASE Outside
  <2> DEFINE l == Text!Start(b, lo)
             r == Text!After(b, hiB)
             e == [d EXCEPT !.at = lo + d.at]
  <2>1. /\ lo \in 0..Len(b) /\ hiB \in lo..Len(b) /\ lo \in 0..Len(a) /\ hiA \in lo..Len(a)
        /\ hiB \in 0..Len(b)
    BY <1>2, <1>4, <1>5, <1>6, <1>8
  <2>2. b = l \o (wb \o r) /\ IsText(wb)
    BY <2>1, ThreeParts
  <2>3. a = Text!Start(a, lo) \o (wa \o Text!After(a, hiA)) /\ IsText(wa)
    BY <2>1, ThreeParts
  <2>4. a = l \o (wa \o r)
    BY <1>8, <2>3
  <2>5. IsText(l) /\ Len(l) = lo
    BY <2>1, StartIs
  <2>6. IsText(r)
    BY <2>1, AfterIs
  <2> HIDE DEF l, r, wb, wa
  <2>7. Has(EditFields, d) /\ Turns(d, wb, wa)
    BY <2>2, <2>3, ExactDiff
  <2> HIDE DEF d
  <2>8. e.at = lo + d.at /\ e.removed = d.removed /\ e.inserted = d.inserted
    <3> DEFINE x == [d EXCEPT !["at"] = lo + d.at]
    <3>1. Changed(d, x, "at", lo + d.at)
      BY DEF Changed
    <3> HIDE DEF x
    <3>2. x["at"] = lo + d.at /\ \A k \in EditFields : k # "at" => x[k] = d[k]
      BY <2>7, <3>1, FieldIs DEF EditFields
    <3> QED BY <3>2 DEF EditFields, x
  <2> HIDE DEF e
  <2>9. Turns(e, l \o (wb \o r), l \o (wa \o r))
    BY <2>5, <2>6, <2>7, <2>8, Wider
  <2>10. Text!diff(b, a, hint) = e
    BY <1>1, <1>8 DEF e
  <2> QED BY <2>2, <2>4, <2>9, <2>10
<1> QED BY <1>7, <1>8

-----------------------------------------------------------------------------
(* The history. *)

\* w are the texts of a history: each entry turns one into the next, and the
\* carets that are set by undo and redo are in them.
EntryFields == {"at", "removed", "inserted", "selBefore", "selAfter", "atomic"}
Within(n, s) == n \in Nat /\ n <= Len(s)
Step(e, s, t) == Has(EntryFields, e) /\ Turns(e, s, t) /\ Within(e.selBefore, s) /\ Within(e.selAfter, t)

Walk(h, w) ==
  /\ w[0] = h.base /\ IsText(h.base)
  /\ \A k \in 1..Len(h.entries) : Step(h.entries[k], w[k - 1], w[k])

HistoryFields == {"base", "entries", "cursor"}
IsHistory(h, s) ==
  /\ Has(HistoryFields, h) /\ IsText(h.entries) /\ h.cursor \in 0..Len(h.entries)
  /\ \E w : Walk(h, w) /\ w[h.cursor] = s

\* What walks is what a replay computes.
LEMMA ReplayIs ==
  ASSUME NEW w, Walk(hist, w), IsText(hist.entries), NEW n \in 0..Len(hist.entries)
  PROVE  Text!Replay(n) = w[n]
<1> DEFINE F(f) == [k \in 0..n |-> IF k = 0 THEN hist.base ELSE Text!Forward(f[k - 1], hist.entries[k])]
           at == CHOOSE f : f = F(f)
           g == [k \in 0..n |-> w[k]]
<1>1. Text!Replay(n) = at[n]
  BY DEF Text!Replay
<1>2. Len(hist.entries) \in Nat /\ n \in Nat /\ n <= Len(hist.entries)
  BY TextIs
<1>3. ASSUME NEW k \in 1..Len(hist.entries) PROVE Text!Forward(w[k - 1], hist.entries[k]) = w[k]
  BY <1>3, TurnsIs DEF Walk, Step
<1>4. ASSUME NEW k \in 0..n
      PROVE  (IF k = 0 THEN hist.base ELSE Text!Forward(g[k - 1], hist.entries[k])) = w[k]
  <2>1. CASE k = 0
    BY <2>1 DEF Walk
  <2>2. CASE k # 0
    <3>1. k - 1 \in 0..n /\ k \in 1..Len(hist.entries)
      BY <1>2, <2>2
    <3> QED BY <1>3, <2>2, <3>1
  <2> QED BY <2>1, <2>2
<1>5. g = F(g)
  <2> HIDE DEF g
  <2>1. \A k \in 0..n : (IF k = 0 THEN hist.base ELSE Text!Forward(g[k - 1], hist.entries[k])) = w[k]
    BY <1>4
  <2>2. F(g) = [k \in 0..n |-> w[k]]
    BY <2>1
  <2> QED BY <2>2 DEF g
<1>6. at = F(at)
  <2> HIDE DEF g, F
  <2> QED BY <1>5
<1> HIDE DEF at
<1>7. \A k \in 0..n : at[k] = IF k = 0 THEN hist.base ELSE Text!Forward(at[k - 1], hist.entries[k])
  BY <1>6
<1> DEFINE S == {k \in Nat : k <= n => at[k] = w[k]}
<1>8. 0 \in S
  BY <1>2, <1>7 DEF Walk
<1>9. ASSUME NEW k \in Nat, k \in S PROVE k + 1 \in S
  <2> SUFFICES ASSUME k + 1 <= n PROVE at[k + 1] = w[k + 1]
    OBVIOUS
  <2>1. /\ k + 1 \in 0..n /\ k + 1 # 0 /\ (k + 1) - 1 = k /\ k <= n
        /\ k + 1 \in 1..Len(hist.entries)
    BY <1>2
  <2>2. at[k] = w[k]
    BY <1>9, <2>1
  <2>3. at[k + 1] = Text!Forward(at[k], hist.entries[k + 1])
    BY <1>7, <2>1
  <2>4. Text!Forward(w[k], hist.entries[k + 1]) = w[k + 1]
    BY <1>3, <2>1
  <2> QED BY <2>2, <2>3, <2>4
<1>10. Nat \subseteq S
  <2> HIDE DEF S
  <2> QED BY <1>8, <1>9, AllOf
<1> QED BY <1>1, <1>2, <1>10

\* A history that walks to what is shown undoes and redoes.
LEMMA HistoryReturns ==
  ASSUME IsHistory(hist, typing)
  PROVE  Text!UndoReturns
<1>1. PICK w : Walk(hist, w) /\ w[hist.cursor] = typing
  BY DEF IsHistory
<1>2. IsText(hist.entries) /\ hist.cursor \in 0..Len(hist.entries) /\ Len(hist.entries) \in Nat
  BY TextIs DEF IsHistory
<1>3. Text!Replay(hist.cursor) = typing
  BY <1>1, <1>2, ReplayIs
<1>4. ASSUME NEW n \in 1..Len(hist.entries)
      PROVE  LET e == hist.entries[n]
             IN /\ Text!Back(Text!Replay(n), e) = Text!Replay(n - 1)
                /\ e.selBefore <= Len(Text!Replay(n - 1)) /\ e.selAfter <= Len(Text!Replay(n))
  <2> DEFINE e == hist.entries[n]
  <2>1. n \in 0..Len(hist.entries) /\ n - 1 \in 0..Len(hist.entries)
    BY <1>2
  <2>2. Text!Replay(n) = w[n] /\ Text!Replay(n - 1) = w[n - 1]
    BY <1>1, <1>2, <2>1, ReplayIs
  <2>3. Step(e, w[n - 1], w[n])
    BY <1>1 DEF Walk
  <2> HIDE DEF e
  <2>4. Text!Back(w[n], e) = w[n - 1]
    BY <2>3, TurnsIs DEF Step
  <2>5. e.selBefore <= Len(w[n - 1]) /\ e.selAfter <= Len(w[n])
    BY <2>3 DEF Step, Within
  <2> QED BY <2>2, <2>4, <2>5 DEF e
<1> QED BY <1>3, <1>4 DEF Text!UndoReturns
\* An edit that goes on with the last one: together they are one edit.
Joined(e, d) ==
  \/ /\ e.removed = <<>> /\ d.removed = <<>> /\ d.at = e.at + Len(e.inserted)
  \/ /\ e.removed # <<>> /\ e.inserted = <<>> /\ d.inserted = <<>> /\ d.at + Len(d.removed) = e.at

Onward(e, d, x) ==
  /\ e.removed = <<>> /\ d.removed = <<>> /\ d.at = e.at + Len(e.inserted)
  /\ x.at = e.at /\ x.removed = <<>> /\ x.inserted = e.inserted \o d.inserted
Backward(e, d, x) ==
  /\ e.inserted = <<>> /\ d.inserted = <<>> /\ d.at + Len(d.removed) = e.at
  /\ x.at = d.at /\ x.inserted = <<>> /\ x.removed = d.removed \o e.removed

LEMMA TypedOn ==
  ASSUME NEW e, NEW d, NEW s, NEW t, NEW u, Turns(e, s, t), Turns(d, t, u), NEW x, Onward(e, d, x)
  PROVE  Turns(x, s, u)
<1>1. PICK p, q : Parted(e, p, q, s, t)
  BY DEF Turns
<1>2. PICK p1, q1 : Parted(d, p1, q1, t, u)
  BY DEF Turns
<1> DEFINE i == e.inserted
           j == d.inserted
<1>3. IsText(p) /\ IsText(q) /\ IsText(p1) /\ IsText(q1) /\ IsText(i) /\ IsText(j)
  BY <1>1, <1>2 DEF Parted
<1>4. e.at = Len(p) /\ s = p \o (<<>> \o q) /\ t = p \o (i \o q)
  BY <1>1 DEF Parted, Onward
<1>5. d.at = Len(p1) /\ t = p1 \o (<<>> \o q1) /\ u = p1 \o (j \o q1)
  BY <1>2 DEF Parted, Onward
<1>6. x.at = e.at /\ x.removed = <<>> /\ x.inserted = i \o j /\ Len(p1) = Len(p) + Len(i)
  BY <1>4, <1>5 DEF Onward
<1> HIDE DEF i, j
<1>7. t = p1 \o q1
  BY <1>3, <1>5, JoinEmpty
<1>8. IsText(p \o i) /\ Len(p \o i) = Len(p) + Len(i) /\ IsText(j \o q) /\ IsText(i \o j)
  BY <1>3, JoinIs
<1>9. t = (p \o i) \o q
  <2>1. (p \o i) \o q = p \o (i \o q)
    <3>1. IsText(p) /\ IsText(i) /\ IsText(q)
      BY <1>3
    <3>2. Regroups(p, i, q)
      BY <3>1, JoinsAssociate
    <3> QED BY <3>2 DEF Regroups
  <2> QED BY <1>4, <2>1
<1>10. p1 = p \o i /\ q1 = q
  <2> DEFINE v == p \o i
  <2>1. SameJoin(v, q, p1, q1)
    BY <1>6, <1>7, <1>8, <1>9 DEF SameJoin
  <2>2. IsText(v)
    BY <1>8
  <2> HIDE DEF v
  <2>3. v = p1 /\ q = q1
    BY <1>3, <2>1, <2>2, OneCut
  <2> QED BY <2>3 DEF v
<1>11. u = p \o ((i \o j) \o q)
  <2> DEFINE v == j \o q
  <2>1. (p \o i) \o v = p \o (i \o v)
    <3>1. IsText(v)
      BY <1>8
    <3> HIDE DEF v
    <3>2. Regroups(p, i, v)
      BY <1>3, <3>1, JoinsAssociate
    <3> QED BY <3>2 DEF Regroups
  <2>2. (i \o j) \o q = i \o (j \o q)
    <3>1. Regroups(i, j, q)
      BY <1>3, JoinsAssociate
    <3> QED BY <3>1 DEF Regroups
  <2> QED BY <1>5, <1>10, <2>1, <2>2
<1>12. Parted(x, p, q, s, u)
  BY <1>3, <1>4, <1>6, <1>8, <1>11, JoinEmpty DEF Parted
<1> QED BY <1>12 DEF Turns

LEMMA ErasedOn ==
  ASSUME NEW e, NEW d, NEW s, NEW t, NEW u, Turns(e, s, t), Turns(d, t, u), NEW x, Backward(e, d, x)
  PROVE  Turns(x, s, u)
<1>1. PICK p, q : Parted(e, p, q, s, t)
  BY DEF Turns
<1>2. PICK p1, q1 : Parted(d, p1, q1, t, u)
  BY DEF Turns
<1> DEFINE r == e.removed
           m == d.removed
<1>3. IsText(p) /\ IsText(q) /\ IsText(p1) /\ IsText(q1) /\ IsText(r) /\ IsText(m)
  BY <1>1, <1>2 DEF Parted
<1>4. e.at = Len(p) /\ s = p \o (r \o q) /\ t = p \o (<<>> \o q)
  BY <1>1 DEF Parted, Backward
<1>5. d.at = Len(p1) /\ t = p1 \o (m \o q1) /\ u = p1 \o (<<>> \o q1)
  BY <1>2 DEF Parted, Backward
<1>6. x.at = d.at /\ x.inserted = <<>> /\ x.removed = m \o r /\ Len(p) = Len(p1) + Len(m)
  BY <1>4, <1>5 DEF Backward
<1> HIDE DEF r, m
<1>7. t = p \o q
  BY <1>3, <1>4, JoinEmpty
<1>8. IsText(p1 \o m) /\ Len(p1 \o m) = Len(p1) + Len(m) /\ IsText(r \o q) /\ IsText(m \o r)
  BY <1>3, JoinIs
<1>9. t = (p1 \o m) \o q1
  <2>1. (p1 \o m) \o q1 = p1 \o (m \o q1)
    <3>1. Regroups(p1, m, q1)
      BY <1>3, JoinsAssociate
    <3> QED BY <3>1 DEF Regroups
  <2> QED BY <1>5, <2>1
<1>10. p = p1 \o m /\ q = q1
  <2> DEFINE v == p1 \o m
  <2>1. SameJoin(v, q1, p, q)
    BY <1>6, <1>7, <1>8, <1>9 DEF SameJoin
  <2>2. IsText(v)
    BY <1>8
  <2> HIDE DEF v
  <2>3. v = p /\ q1 = q
    BY <1>3, <2>1, <2>2, OneCut
  <2> QED BY <2>3 DEF v
<1>11. s = p1 \o ((m \o r) \o q)
  <2> DEFINE v == r \o q
  <2>1. (p1 \o m) \o v = p1 \o (m \o v)
    <3>1. IsText(v)
      BY <1>8
    <3> HIDE DEF v
    <3>2. Regroups(p1, m, v)
      BY <1>3, <3>1, JoinsAssociate
    <3> QED BY <3>2 DEF Regroups
  <2>2. (m \o r) \o q = m \o (r \o q)
    <3>1. Regroups(m, r, q)
      BY <1>3, JoinsAssociate
    <3> QED BY <3>1 DEF Regroups
  <2> QED BY <1>4, <1>10, <2>1, <2>2
<1>12. Parted(x, p1, q, s, u)
  BY <1>3, <1>5, <1>6, <1>8, <1>10, <1>11, JoinEmpty DEF Parted
<1> QED BY <1>12 DEF Turns

LEMMA ExtendedIs ==
  ASSUME NEW e, NEW d, NEW s, NEW t, NEW u, Step(e, s, t), Turns(d, t, u), NEW soon, NEW atomic,
         Text!shouldCoalesce(e, d, soon, atomic), NEW sel, Within(sel, u)
  PROVE  Step(Text!Extended(e, d, sel), s, u)
<1>1. /\ DOMAIN e = EntryFields /\ Has(EntryFields, e) /\ Turns(e, s, t) /\ Within(e.selBefore, s)
      /\ e.at \in Nat
  BY HasDomain, TurnsIs DEF Step
<1>0. {"at", "removed", "inserted", "selAfter"} \subseteq EntryFields
  BY DEF EntryFields
<1>2. Joined(e, d)
  BY DEF Text!shouldCoalesce, Text!Inserts, Text!Deletes, Joined
<1>3. CASE e.removed = <<>>
  <2> DEFINE y == [e EXCEPT !["inserted"] = e.inserted \o d.inserted]
             x == [y EXCEPT !["selAfter"] = sel]
  <2>1. Text!Extended(e, d, sel) = x
    BY <1>1, <1>3 DEF Text!Extended
  <2>2. Changed(e, y, "inserted", e.inserted \o d.inserted) /\ Changed(y, x, "selAfter", sel)
    BY DEF Changed
  <2> HIDE DEF x, y
  <2>3. Has(EntryFields, y) /\ y["inserted"] = e.inserted \o d.inserted
        /\ \A k \in EntryFields : k # "inserted" => y[k] = e[k]
    <3> DEFINE v == e.inserted \o d.inserted
    <3>1. Changed(e, y, "inserted", v)
      BY <2>2
    <3> HIDE DEF v
    <3>2. Has(EntryFields, y) /\ y["inserted"] = v /\ \A k \in EntryFields : k # "inserted" => y[k] = e[k]
      BY <1>0, <1>1, <3>1, FieldIs
    <3> QED BY <3>2 DEF v
  <2>4. Has(EntryFields, x) /\ x["selAfter"] = sel /\ \A k \in EntryFields : k # "selAfter" => x[k] = y[k]
    BY <1>0, <2>2, <2>3, FieldIs
  <2>5. x.at = e.at /\ x.removed = <<>> /\ x.inserted = e.inserted \o d.inserted
        /\ x.selBefore = e.selBefore /\ x.selAfter = sel
    BY <1>3, <2>3, <2>4 DEF EntryFields
  <2>6. d.removed = <<>> /\ d.at = e.at + Len(e.inserted)
    BY <1>2, <1>3 DEF Joined
  <2>7. Turns(x, s, u)
    <3>1. Onward(e, d, x)
      BY <1>3, <2>5, <2>6 DEF Onward
    <3> QED BY <1>1, <3>1, TypedOn
  <2> QED BY <1>1, <2>1, <2>4, <2>5, <2>7 DEF Step
<1>4. CASE e.removed # <<>>
  <2> DEFINE z == [e EXCEPT !["at"] = d.at]
             y == [z EXCEPT !["removed"] = d.removed \o e.removed]
             x == [y EXCEPT !["selAfter"] = sel]
  <2>1. Text!Extended(e, d, sel) = x
    BY <1>1, <1>4 DEF Text!Extended
  <2>2. /\ Changed(e, z, "at", d.at) /\ Changed(z, y, "removed", d.removed \o e.removed)
        /\ Changed(y, x, "selAfter", sel)
    BY DEF Changed
  <2> HIDE DEF x, y, z
  <2>3. Has(EntryFields, z) /\ z["at"] = d.at /\ \A k \in EntryFields : k # "at" => z[k] = e[k]
    BY <1>0, <1>1, <2>2, FieldIs
  <2>4. Has(EntryFields, y) /\ y["removed"] = d.removed \o e.removed
        /\ \A k \in EntryFields : k # "removed" => y[k] = z[k]
    <3> DEFINE v == d.removed \o e.removed
    <3>1. Changed(z, y, "removed", v)
      BY <2>2
    <3> HIDE DEF v
    <3>2. Has(EntryFields, y) /\ y["removed"] = v /\ \A k \in EntryFields : k # "removed" => y[k] = z[k]
      BY <1>0, <2>3, <3>1, FieldIs
    <3> QED BY <3>2 DEF v
  <2>5. Has(EntryFields, x) /\ x["selAfter"] = sel /\ \A k \in EntryFields : k # "selAfter" => x[k] = y[k]
    BY <1>0, <2>2, <2>4, FieldIs
  <2>6. e.inserted = <<>> /\ d.inserted = <<>> /\ d.at + Len(d.removed) = e.at
    BY <1>2, <1>4 DEF Joined
  <2>7. x.at = d.at /\ x.removed = d.removed \o e.removed /\ x.inserted = <<>>
        /\ x.selBefore = e.selBefore /\ x.selAfter = sel
    BY <2>3, <2>4, <2>5, <2>6 DEF EntryFields
  <2>8. Turns(x, s, u)
    <3>1. Backward(e, d, x)
      BY <2>6, <2>7 DEF Backward
    <3> QED BY <1>1, <3>1, ErasedOn
  <2> QED BY <1>1, <2>1, <2>5, <2>7, <2>8 DEF Step
<1> QED BY <1>3, <1>4

LEMMA HistoryIs ==
  ASSUME NEW h, NEW w, NEW s, Has(HistoryFields, h), IsText(h.entries), h.cursor \in 0..Len(h.entries),
         Walk(h, w), w[h.cursor] = s
  PROVE  IsHistory(h, s)
BY DEF IsHistory

\* An edit is recorded: the history walks on to the text after it.
LEMMA HistoryGrows ==
  ASSUME NEW before, NEW after, IsHistory(hist, before), IsText(before), IsText(after), HintWindow \in Nat,
         NEW selBefore, NEW selAfter, Within(selBefore, before), Within(selAfter, after),
         NEW soon, NEW atomic
  PROVE  IsHistory(Text!record(before, after, selBefore, selAfter, soon, atomic), after)
<1> DEFINE d == Text!diff(before, after, Text!Min({selBefore, selAfter}))
           c == hist.cursor
           reached == Text!Start(hist.entries, c)
           step == [at |-> d.at, removed |-> d.removed, inserted |-> d.inserted,
                    selBefore |-> selBefore, selAfter |-> selAfter, atomic |-> atomic]
           all == Append(reached, step)
           x == Text!Extended(reached[c], d, selAfter)
           r == Text!record(before, after, selBefore, selAfter, soon, atomic)
<1>1. /\ Has(HistoryFields, hist) /\ DOMAIN hist = HistoryFields /\ IsText(hist.entries)
      /\ c \in 0..Len(hist.entries) /\ Len(hist.entries) \in Nat /\ c \in Nat /\ IsText(hist.base)
  BY HasDomain, TextIs DEF IsHistory, Walk
<1>2. PICK w : Walk(hist, w) /\ w[c] = before
  BY DEF IsHistory
<1>3. Turns(d, before, after)
  <2>1. Text!Min({selBefore, selAfter}) \in Nat
    <3>1. selBefore \in Nat /\ selAfter \in Nat /\ selBefore \in Int /\ selAfter \in Int
      BY DEF Within
    <3> QED BY <3>1, OneOfTwo
  <2> QED BY <2>1, DiffIs
<1>4. IsText(reached) /\ Len(reached) = c /\ \A k \in 1..c : reached[k] = hist.entries[k]
  BY <1>1, StartIs
<1>5. r = IF before = after THEN hist
          ELSE IF c > 0 /\ Text!shouldCoalesce(reached[c], d, soon, atomic)
            THEN [hist EXCEPT !.entries = [reached EXCEPT ![c] = x]]
          ELSE IF c < MAX_DEPTH
            THEN [hist EXCEPT !.entries = all, !.cursor = c + 1]
          ELSE [base |-> Text!Forward(hist.base, all[1]), entries |-> Tail(all), cursor |-> c]
  BY <1>4 DEF Text!record
<1> HIDE DEF d, r, reached
<1>6. Step(step, before, after)
  <2>1. Has(EntryFields, step)
    BY DEF Has, EntryFields
  <2>2. Turns(step, before, after)
    BY <1>3 DEF Turns, Parted
  <2> QED BY <2>1, <2>2 DEF Step
<1> HIDE DEF step
<1>7. \A k \in 1..c : Step(reached[k], w[k - 1], w[k])
  BY <1>1, <1>2, <1>4 DEF Walk
<1> DEFINE w1 == [k \in 0..(c + 1) |-> IF k = c + 1 THEN after ELSE w[k]]
<1>8. /\ IsText(all) /\ Len(all) = c + 1 /\ all # <<>>
      /\ \A k \in 1..(c + 1) : Step(all[k], w1[k - 1], w1[k])
      /\ w1[0] = hist.base /\ w1[c + 1] = after
  <2>1. PICK S : reached \in Seq(S)
    BY <1>4 DEF IsText
  <2>2. reached \in Seq(S \cup {step}) /\ step \in S \cup {step}
    BY <2>1, SeqMonotonic
  <2>3. /\ all \in Seq(S \cup {step}) /\ Len(all) = c + 1
        /\ \A k \in 1..c : all[k] = reached[k]
        /\ all[c + 1] = step
    BY <1>1, <1>4, <2>2
  <2>4. IsText(all) /\ all # <<>>
    <3>1. IsText(all) /\ Len(all) # 0
      BY <1>1, <2>3 DEF IsText
    <3> HIDE DEF all
    <3> QED BY <3>1, TextIs
  <2> HIDE DEF all
  <2>5. ASSUME NEW k \in 1..(c + 1) PROVE Step(all[k], w1[k - 1], w1[k])
    <3>1. CASE k = c + 1
      <4>1. k - 1 \in 0..(c + 1) /\ k - 1 # c + 1 /\ k - 1 = c /\ k \in 0..(c + 1)
        BY <1>1, <3>1
      <4> QED BY <1>2, <1>6, <2>3, <3>1, <4>1
    <3>2. CASE k # c + 1
      <4>1. k \in 1..c /\ k - 1 \in 0..(c + 1) /\ k - 1 # c + 1 /\ k \in 0..(c + 1)
        BY <1>1, <3>2
      <4> QED BY <1>7, <2>3, <3>2, <4>1
    <3> QED BY <3>1, <3>2
  <2>6. w1[0] = hist.base /\ w1[c + 1] = after
    <3>1. 0 \in 0..(c + 1) /\ c + 1 \in 0..(c + 1) /\ 0 # c + 1
      BY <1>1
    <3> QED BY <1>2, <3>1 DEF Walk
  <2> QED BY <2>3, <2>4, <2>5, <2>6
<1> HIDE DEF all, w1
<1>9. CASE before = after
  <2>1. r = hist
    BY <1>5, <1>9
  <2> QED BY <1>9, <2>1 DEF r
<1>10. CASE before # after /\ c > 0 /\ Text!shouldCoalesce(reached[c], d, soon, atomic)
  <2> DEFINE entries == [reached EXCEPT ![c] = x]
             w2 == [k \in 0..c |-> IF k = c THEN after ELSE w[k]]
  <2>1. r = [hist EXCEPT !.entries = entries]
    BY <1>5, <1>10
  <2>2. c \in 1..c /\ c - 1 \in 0..c /\ c - 1 # c
    BY <1>1, <1>10
  <2>3. Step(x, w[c - 1], after)
    <3>1. Step(reached[c], w[c - 1], before)
      BY <1>2, <1>7, <2>2
    <3> QED BY <1>3, <1>10, <3>1, ExtendedIs
  <2> HIDE DEF x
  <2>4. IsText(entries) /\ Len(entries) = c /\ \A k \in 1..c : entries[k] = IF k = c THEN x ELSE reached[k]
    <3>1. PICK S : reached \in Seq(S)
      BY <1>4 DEF IsText
    <3>2. reached \in Seq(S \cup {x}) /\ x \in S \cup {x} /\ c \in 1..Len(reached)
      BY <1>4, <2>2, <3>1, SeqMonotonic
    <3> QED BY <1>4, <3>2, ExceptSeq DEF IsText
  <2>5. Has(HistoryFields, r) /\ r.base = hist.base /\ r.entries = entries /\ r.cursor = c
    <3>1. Changed(hist, r, "entries", entries)
      BY <2>1 DEF Changed
    <3> HIDE DEF entries
    <3>2. Has(HistoryFields, r) /\ r["entries"] = entries /\ \A k \in HistoryFields : k # "entries" => r[k] = hist[k]
      BY <1>1, <3>1, FieldIs DEF HistoryFields
    <3> QED BY <3>2 DEF HistoryFields
  <2> HIDE DEF entries
  <2>6. ASSUME NEW k \in 1..c PROVE Step(entries[k], w2[k - 1], w2[k])
    <3>1. k \in 0..c /\ k - 1 \in 0..c /\ k - 1 # c
      BY <1>1
    <3>2. CASE k = c
      BY <2>3, <2>4, <3>1, <3>2
    <3>3. CASE k # c
      BY <1>7, <2>4, <3>1, <3>3
    <3> QED BY <3>2, <3>3
  <2>7. w2[0] = hist.base /\ w2[c] = after
    <3>1. 0 \in 0..c /\ 0 # c /\ c \in 0..c
      BY <1>1, <1>10
    <3> QED BY <1>2, <3>1 DEF Walk
  <2> HIDE DEF w2
  <2>8. Walk(r, w2)
    BY <1>1, <2>4, <2>5, <2>6, <2>7 DEF Walk
  <2>9. r.cursor \in 0..Len(r.entries)
    BY <1>1, <2>4, <2>5
  <2>10. IsText(r.entries) /\ w2[r.cursor] = after
    BY <2>4, <2>5, <2>7
  <2> QED BY <2>5, <2>8, <2>9, <2>10, HistoryIs DEF r
<1>11. CASE before # after /\ ~(c > 0 /\ Text!shouldCoalesce(reached[c], d, soon, atomic)) /\ c < MAX_DEPTH
  <2> DEFINE y == [hist EXCEPT !["entries"] = all]
  <2>1. r = [y EXCEPT !["cursor"] = c + 1]
    BY <1>5, <1>11
  <2>2. Changed(hist, y, "entries", all) /\ Changed(y, r, "cursor", c + 1)
    BY <2>1 DEF Changed
  <2> HIDE DEF y
  <2>3. Has(HistoryFields, y) /\ y["entries"] = all /\ \A k \in HistoryFields : k # "entries" => y[k] = hist[k]
    BY <1>1, <2>2, FieldIs DEF HistoryFields
  <2>4. Has(HistoryFields, r) /\ r["cursor"] = c + 1 /\ \A k \in HistoryFields : k # "cursor" => r[k] = y[k]
    BY <2>2, <2>3, FieldIs DEF HistoryFields
  <2>5. r.base = hist.base /\ r.entries = all /\ r.cursor = c + 1
    BY <2>3, <2>4 DEF HistoryFields
  <2>6. Walk(r, w1)
    BY <1>1, <1>8, <2>5 DEF Walk
  <2>7. r.cursor \in 0..Len(r.entries)
    BY <1>1, <1>8, <2>5
  <2>8. Has(HistoryFields, r) /\ IsText(r.entries) /\ w1[r.cursor] = after
    BY <1>8, <2>4, <2>5 DEF HistoryFields
  <2> QED BY <2>6, <2>7, <2>8, HistoryIs DEF r
<1>12. CASE before # after /\ ~(c > 0 /\ Text!shouldCoalesce(reached[c], d, soon, atomic)) /\ ~(c < MAX_DEPTH)
  <2> DEFINE base == Text!Forward(hist.base, all[1])
             entries == Tail(all)
             w3 == [k \in 0..c |-> w1[k + 1]]
  <2>1. r = [base |-> base, entries |-> entries, cursor |-> c]
    BY <1>5, <1>12
  <2>2. Has(HistoryFields, r) /\ r.base = base /\ r.entries = entries /\ r.cursor = c
    BY <2>1 DEF Has, HistoryFields
  <2>3. IsText(entries) /\ Len(entries) = c /\ \A k \in 1..c : entries[k] = all[k + 1]
    <3>1. PICK S : all \in Seq(S)
      BY <1>8 DEF IsText
    <3>2. /\ entries \in Seq(S) /\ Len(entries) = Len(all) - 1
          /\ \A k \in 1..Len(entries) : entries[k] = all[k + 1]
      BY <1>8, <3>1, HeadTailProperties
    <3>3. Len(entries) = c
      BY <1>1, <1>8, <3>2
    <3> QED BY <3>2, <3>3 DEF IsText
  <2> HIDE DEF entries
  <2>4. base = w1[1] /\ IsText(base)
    <3>1. 1 \in 1..(c + 1) /\ 1 - 1 = 0
      BY <1>1
    <3>2. Step(all[1], hist.base, w1[1])
      BY <1>8, <3>1
    <3> QED BY <3>2, TurnsIs DEF Step
  <2> HIDE DEF base
  <2>5. ASSUME NEW k \in 1..c PROVE Step(entries[k], w3[k - 1], w3[k])
    <3>1. k \in 0..c /\ k - 1 \in 0..c /\ (k - 1) + 1 = (k + 1) - 1 /\ k + 1 \in 1..(c + 1)
      BY <1>1
    <3>2. Step(all[k + 1], w1[(k + 1) - 1], w1[k + 1])
      BY <1>8, <3>1
    <3> QED BY <2>3, <3>1, <3>2
  <2>6. w3[0] = base /\ w3[c] = after
    <3>1. 0 \in 0..c /\ c \in 0..c /\ 0 + 1 = 1
      BY <1>1
    <3> QED BY <1>8, <2>4, <3>1
  <2> HIDE DEF w3
  <2>7. Walk(r, w3)
    BY <2>2, <2>3, <2>4, <2>5, <2>6 DEF Walk
  <2>8. r.cursor \in 0..Len(r.entries)
    BY <1>1, <2>2, <2>3
  <2>9. IsText(r.entries) /\ w3[r.cursor] = after
    BY <2>2, <2>3, <2>6
  <2> QED BY <2>2, <2>7, <2>8, <2>9, HistoryIs DEF r
<1> QED BY <1>9, <1>10, <1>11, <1>12 DEF r

-----------------------------------------------------------------------------
(* The find bar. *)

LEMMA OneIs == ASSUME NEW a PROVE IsText(<<a>>) /\ Len(<<a>>) = 1 /\ <<a>>[1] = a
<1>1. <<a>> \in Seq({a})
  OBVIOUS
<1> QED BY <1>1 DEF IsText

LEMMA SpliceText ==
  ASSUME NEW s, NEW in, IsText(s), IsText(in), NEW at \in Int, NEW n \in Int
  PROVE  IsText(Text!Splice(s, at, n, in))
<1>1. Len(s) \in Int /\ at + n + 1 \in Int
  BY TextIs
<1>2. IsText(Text!Start(s, at)) /\ IsText(Text!After(s, at + n))
  BY <1>1, PartIs DEF Text!Start, Text!After
<1>3. IsText(Text!Start(s, at) \o in)
  BY <1>2, JoinIs
<1>4. IsText((Text!Start(s, at) \o in) \o Text!After(s, at + n))
  BY <1>2, <1>3, JoinIs
<1> QED BY <1>4 DEF Text!Splice

\* What is put in at a place of the text ends within the text it makes.
LEMMA SpliceFits ==
  ASSUME NEW s, NEW in, IsText(s), IsText(in), NEW at \in 0..Len(s), NEW n \in Int
  PROVE  IsText(Text!Splice(s, at, n, in)) /\ Within(at + Len(in), Text!Splice(s, at, n, in))
<1>1. Len(s) \in Int /\ at \in Nat /\ at + n + 1 \in Int /\ Len(in) \in Nat
  BY TextIs
<1> DEFINE p == Text!Start(s, at)
           q == Text!After(s, at + n)
<1>2. IsText(p) /\ Len(p) = at
  BY StartIs
<1>3. IsText(q)
  BY <1>1, PartIs DEF Text!After
<1>4. Text!Splice(s, at, n, in) = (p \o in) \o q
  BY DEF Text!Splice
<1> HIDE DEF p, q
<1>5. IsText(p \o in) /\ Len(p \o in) = Len(p) + Len(in) /\ Len(q) \in Nat
  BY <1>2, <1>3, JoinIs, TextIs
<1>6. IsText((p \o in) \o q) /\ Len((p \o in) \o q) = Len(p \o in) + Len(q)
  BY <1>3, <1>5, JoinIs
<1> QED BY <1>1, <1>2, <1>4, <1>5, <1>6 DEF Within

\* Places in a text, as the matches of the find bar are.
ArePlaces(q, s) == IsText(q) /\ \A k \in 1..Len(q) : q[k] \in 0..Len(s)

LEMMA PlacesGrow ==
  ASSUME NEW q, NEW s, ArePlaces(q, s), NEW a \in 0..Len(s)
  PROVE  ArePlaces(<<a>> \o q, s)
<1>1. IsText(q) /\ IsText(<<a>>) /\ Len(<<a>>) = 1 /\ <<a>>[1] = a /\ Len(q) \in Nat
  BY OneIs, TextIs DEF ArePlaces
<1> DEFINE p == <<a>>
<1>2. IsText(p) /\ Len(p) = 1 /\ p[1] = a
  BY <1>1
<1> HIDE DEF p
<1>3. /\ IsText(p \o q) /\ Len(p \o q) = Len(p) + Len(q)
      /\ \A k \in 1..(Len(p) + Len(q)) : (p \o q)[k] = IF k <= Len(p) THEN p[k] ELSE q[k - Len(p)]
  BY <1>1, <1>2, JoinIs
<1>4. ASSUME NEW k \in 1..Len(p \o q) PROVE (p \o q)[k] \in 0..Len(s)
  <2>1. CASE k = 1
    BY <1>1, <1>2, <1>3, <2>1
  <2>2. CASE k # 1
    <3>1. k \in 1..(Len(p) + Len(q)) /\ ~(k <= Len(p)) /\ k - Len(p) \in 1..Len(q)
      BY <1>1, <1>2, <1>3, <2>2
    <3> QED BY <1>3, <3>1 DEF ArePlaces
  <2> QED BY <2>1, <2>2
<1>5. ArePlaces(p \o q, s)
  BY <1>3, <1>4 DEF ArePlaces
<1> QED BY <1>5 DEF p

\* The search goes on after what it found: it comes to an end, and finds places
\* of the text.
LEMMA MatchesArePlaces ==
  ASSUME NEW s, NEW term, IsText(s), IsText(term)
  PROVE  ArePlaces(Text!findMatches(s, term), s)
<1> DEFINE N == Len(s) + Len(term)
           Ahead(i) == {a \in Text!At(s, term) : a >= i}
           Ends(i) == term = <<>> \/ Ahead(i) = {}
           Found(i) == Text!Min(Ahead(i))
           Body(f, i) == IF Ends(i) THEN <<>> ELSE <<Found(i)>> \o f[Found(i) + Len(term)]
           F(f) == [i \in 0..N |-> Body(f, i)]
           from == CHOOSE f : f = F(f)
<1>1. Text!findMatches(s, term) = from[0]
  BY DEF Text!findMatches
<1>2. Len(s) \in Nat /\ Len(term) \in Nat /\ N \in Nat /\ Len(s) <= N
  BY TextIs
<1>3. ASSUME NEW i \in 0..N, ~Ends(i) PROVE Found(i) \in 0..Len(s) /\ Found(i) + Len(term) \in (i + 1)..N
  <2>1. Text!At(s, term) \subseteq 0..(Len(s) - Len(term))
    BY DEF Text!At
  <2>2. Ahead(i) # {} /\ Ahead(i) \subseteq Nat /\ Ahead(i) \subseteq 0..(Len(s) - Len(term))
    BY <1>2, <1>3, <2>1
  <2>3. Text!Min(Ahead(i)) \in Ahead(i)
    <3> HIDE DEF Ahead
    <3> QED BY <2>2, MinIs
  <2>4. Found(i) \in 0..(Len(s) - Len(term)) /\ Found(i) >= i
    BY <2>2, <2>3
  <2>5. Len(term) # 0
    BY <1>3, TextIs
  <2> HIDE DEF Found
  <2> QED BY <1>2, <2>4, <2>5
<1> HIDE DEF Ends, Found
<1> HIDE DEF from
<1>4. ASSUME NEW f, NEW g, NEW i \in 0..N, \A k \in (i + 1)..N : f[k] = g[k] PROVE Body(f, i) = Body(g, i)
  BY <1>3, <1>4
<1>5. Ends(N)
  <2>1. N \in 0..N /\ (N + 1)..N = {}
    BY <1>2
  <2> HIDE DEF N
  <2> QED BY <1>3, <2>1
<1> HIDE DEF N
<1>6. \E g : g = F(g)
  <2> DEFINE S == {m \in Nat : m <= N => \E g : \A i \in (N - m)..N : g[i] = Body(g, i)}
  <2>1. 0 \in S
    <3> DEFINE g == [i \in {N} |-> <<>>]
    <3>1. ASSUME NEW i \in (N - 0)..N PROVE g[i] = Body(g, i)
      <4>1. i = N
        BY <1>2
      <4> QED BY <1>5, <4>1
    <3> HIDE DEF g
    <3>2. \E h : \A i \in (N - 0)..N : h[i] = Body(h, i)
      <4> HIDE DEF Body
      <4> QED BY <3>1
    <3> QED BY <3>2
  <2>2. ASSUME NEW m \in Nat, m \in S PROVE m + 1 \in S
    <3> SUFFICES ASSUME m + 1 <= N PROVE \E g : \A i \in (N - (m + 1))..N : g[i] = Body(g, i)
      BY <2>2
    <3> DEFINE j == N - (m + 1)
    <3>0. m <= N /\ j \in 0..N /\ N - m = j + 1
      BY <1>2
    <3>1. PICK g : \A i \in (j + 1)..N : g[i] = Body(g, i)
      BY <2>2, <3>0
    <3> HIDE DEF j, Body
    <3> DEFINE h == [i \in j..N |-> IF i = j THEN Body(g, j) ELSE g[i]]
    <3>2. \A k \in (j + 1)..N : h[k] = g[k]
      BY <1>2, <3>0
    <3>3. h[j] = Body(g, j)
      BY <1>2, <3>0
    <3> HIDE DEF h
    <3>4. ASSUME NEW i \in j..N PROVE h[i] = Body(h, i)
      <4>1. i \in 0..N /\ (i = j \/ i \in (j + 1)..N) /\ (i + 1)..N \subseteq (j + 1)..N
        BY <1>2, <3>0
      <4>2. \A k \in (i + 1)..N : h[k] = g[k]
        BY <3>2, <4>1
      <4>3. Body(h, i) = Body(g, i)
        BY <1>4, <4>1, <4>2
      <4> QED BY <3>1, <3>2, <3>3, <4>1, <4>3
    <3> QED BY <3>4 DEF j
  <2>3. N \in S
    <3> HIDE DEF S
    <3>1. Nat \subseteq S
      BY <2>1, <2>2, AllOf
    <3> QED BY <1>2, <3>1
  <2>4. PICK g : \A i \in 0..N : g[i] = Body(g, i)
    <3>1. N - N = 0
      BY <1>2
    <3> QED BY <1>2, <2>3, <3>1
  <2> DEFINE h == [i \in 0..N |-> g[i]]
  <2>5. ASSUME NEW i \in 0..N PROVE h[i] = Body(h, i)
    <3>1. \A k \in (i + 1)..N : h[k] = g[k]
      BY <1>2
    <3> HIDE DEF h
    <3>2. Body(h, i) = Body(g, i)
      <4> HIDE DEF Body
      <4> QED BY <1>4, <3>1
    <3> HIDE DEF Body
    <3>3. h[i] = g[i]
      BY DEF h
    <3> QED BY <2>4, <3>2, <3>3
  <2>6. h = F(h)
    <3> HIDE DEF Body
    <3>1. F(h) = [i \in 0..N |-> h[i]]
      BY <2>5
    <3> QED BY <3>1
  <2> HIDE DEF F, h
  <2> QED BY <2>6
<1>7. from = F(from)
  <2> HIDE DEF F
  <2> QED BY <1>6 DEF from
<1>8. ASSUME NEW i \in 0..N PROVE from[i] = Body(from, i)
  <2> HIDE DEF Body
  <2> QED BY <1>7
<1>9. ASSUME NEW i \in 0..N, \A k \in (i + 1)..N : ArePlaces(from[k], s) PROVE ArePlaces(from[i], s)
  <2>1. CASE Ends(i)
    <3>1. from[i] = <<>>
      BY <1>8, <2>1
    <3>2. IsText(<<>>) /\ Len(<<>>) = 0
      BY EmptySeq DEF IsText
    <3> QED BY <3>1, <3>2 DEF ArePlaces
  <2>2. CASE ~Ends(i)
    <3>1. from[i] = <<Found(i)>> \o from[Found(i) + Len(term)]
      BY <1>8, <2>2
    <3>2. Found(i) \in 0..Len(s) /\ ArePlaces(from[Found(i) + Len(term)], s)
      BY <1>3, <1>9, <2>2
    <3> QED BY <3>1, <3>2, PlacesGrow
  <2> QED BY <2>1, <2>2
<1> HIDE DEF Body, F
<1> DEFINE T == {m \in Nat : m <= N => \A i \in (N - m)..N : ArePlaces(from[i], s)}
<1>10. 0 \in T
  <2>1. ASSUME NEW i \in (N - 0)..N PROVE ArePlaces(from[i], s)
    <3>1. i \in 0..N /\ (i + 1)..N = {}
      BY <1>2
    <3> QED BY <1>9, <3>1
  <2> QED BY <2>1
<1>11. ASSUME NEW m \in Nat, m \in T PROVE m + 1 \in T
  <2> SUFFICES ASSUME m + 1 <= N, NEW i \in (N - (m + 1))..N PROVE ArePlaces(from[i], s)
    BY <1>11
  <2>1. m <= N /\ i \in 0..N /\ (i + 1)..N \subseteq (N - m)..N
    BY <1>2
  <2>2. \A k \in (i + 1)..N : ArePlaces(from[k], s)
    BY <1>11, <2>1
  <2> QED BY <1>9, <2>1, <2>2
<1>12. N \in T
  <2> HIDE DEF T
  <2>1. Nat \subseteq T
    BY <1>10, <1>11, AllOf
  <2> QED BY <1>2, <2>1
<1>13. 0 \in (N - N)..N
  BY <1>2
<1> QED BY <1>1, <1>2, <1>12, <1>13

\* Each match is replaced in the text that the one before it left.
LEMMA ReplacedIsText ==
  ASSUME NEW s, NEW term, NEW in, IsText(s), IsText(term), IsText(in)
  PROVE  IsText(Text!applyReplaceAll(s, term, in))
<1> DEFINE found == Text!findMatches(s, term)
           L == Len(found)
           at(n) == found[n] + (n - 1) * (Len(in) - Len(term))
           Body(f, n) == IF n = 0 THEN s ELSE Text!Splice(f[n - 1], at(n), Len(term), in)
           F(f) == [n \in 0..L |-> Body(f, n)]
           upto == CHOOSE f : f = F(f)
<1>1. Text!applyReplaceAll(s, term, in) = upto[L]
  BY DEF Text!applyReplaceAll
<1>2. ArePlaces(found, s)
  BY MatchesArePlaces
<1> HIDE DEF found
<1>3. L \in Nat /\ Len(term) \in Int /\ Len(in) \in Int
  BY <1>2, TextIs DEF ArePlaces
<1>4. ASSUME NEW n \in 1..L PROVE at(n) \in Int
  <2>1. found[n] \in Int /\ n - 1 \in Int /\ Len(in) - Len(term) \in Int
    BY <1>2, <1>3 DEF ArePlaces
  <2>2. (n - 1) * (Len(in) - Len(term)) \in Int
    <3>1. \A x, y \in Int : x * y \in Int
      OBVIOUS
    <3> QED BY <2>1, <3>1
  <2> QED BY <2>1, <2>2
<1> HIDE DEF L, at, upto
<1>5. \E g : g = F(g)
  <2> DEFINE S == {m \in Nat : \E g : \A n \in 0..m : g[n] = Body(g, n)}
  <2>1. 0 \in S
    <3> DEFINE g == [n \in {0} |-> s]
    <3>1. \A n \in 0..0 : g[n] = Body(g, n)
      OBVIOUS
    <3> HIDE DEF g, Body
    <3> QED BY <3>1
  <2>2. ASSUME NEW m \in Nat, m \in S PROVE m + 1 \in S
    <3>1. PICK g : \A n \in 0..m : g[n] = Body(g, n)
      BY <2>2
    <3> DEFINE h == [n \in 0..(m + 1) |-> IF n = m + 1 THEN Body(g, m + 1) ELSE g[n]]
    <3>2. (\A n \in 0..m : h[n] = g[n]) /\ h[m + 1] = Body(g, m + 1)
      <4> HIDE DEF Body
      <4> QED OBVIOUS
    <3> HIDE DEF h
    <3>3. ASSUME NEW n \in 0..(m + 1) PROVE h[n] = Body(h, n)
      <4>1. Body(h, n) = Body(g, n)
        <5>1. n # 0 => n - 1 \in 0..m
          OBVIOUS
        <5> QED BY <3>2, <5>1
      <4>2. n = m + 1 \/ n \in 0..m
        OBVIOUS
      <4> HIDE DEF Body
      <4> QED BY <3>1, <3>2, <4>1, <4>2
    <3> HIDE DEF Body
    <3>4. \E f : \A n \in 0..(m + 1) : f[n] = Body(f, n)
      BY <3>3
    <3> QED BY <3>4
  <2>3. L \in S
    <3> HIDE DEF S
    <3>1. Nat \subseteq S
      BY <2>1, <2>2, AllOf
    <3> QED BY <1>3, <3>1
  <2>4. PICK g : \A n \in 0..L : g[n] = Body(g, n)
    BY <2>3
  <2> DEFINE h == [n \in 0..L |-> g[n]]
  <2>5. ASSUME NEW n \in 0..L PROVE h[n] = Body(h, n)
    <3>1. n # 0 => n - 1 \in 0..L
      BY <1>3
    <3>2. Body(h, n) = Body(g, n)
      BY <3>1
    <3>3. h[n] = g[n]
      OBVIOUS
    <3> HIDE DEF h, Body
    <3> QED BY <2>4, <3>2, <3>3
  <2>6. h = F(h)
    <3> HIDE DEF Body
    <3>1. F(h) = [n \in 0..L |-> h[n]]
      BY <2>5
    <3> QED BY <3>1
  <2> HIDE DEF F, h
  <2> QED BY <2>6
<1>6. upto = F(upto)
  <2> HIDE DEF F
  <2> QED BY <1>5 DEF upto
<1>7. ASSUME NEW n \in 0..L PROVE upto[n] = Body(upto, n)
  <2> HIDE DEF Body
  <2> QED BY <1>6
<1> DEFINE T == {n \in Nat : n <= L => IsText(upto[n])}
<1>8. 0 \in T
  <2>1. 0 \in 0..L
    BY <1>3
  <2> QED BY <1>7, <2>1
<1>9. ASSUME NEW n \in Nat, n \in T PROVE n + 1 \in T
  <2> SUFFICES ASSUME n + 1 <= L PROVE IsText(upto[n + 1])
    BY <1>9
  <2>1. n <= L /\ n + 1 \in 0..L /\ n + 1 \in 1..L /\ n + 1 # 0 /\ (n + 1) - 1 = n
    BY <1>3
  <2>2. upto[n + 1] = Text!Splice(upto[n], at(n + 1), Len(term), in)
    BY <1>7, <2>1
  <2>3. IsText(upto[n]) /\ at(n + 1) \in Int
    BY <1>4, <1>9, <2>1
  <2> QED BY <1>3, <2>2, <2>3, SpliceText
<1>10. Nat \subseteq T
  <2> HIDE DEF T
  <2> QED BY <1>8, <1>9, AllOf
<1> QED BY <1>1, <1>3, <1>10

FindFields == {"open", "term", "index", "resume", "first"}
FindShape(f) ==
  /\ Has(FindFields, f) /\ IsText(f.term) /\ f.index \in Nat /\ f.resume \in Int
  /\ f.first \in BOOLEAN
FoundIn(f, s) == IF f.open THEN Text!findMatches(s, f.term) ELSE <<>>

\* The match that is current is one of those of the text.
FindFits(f, s) == FindShape(f) /\ (FoundIn(f, s) # <<>> => f.index < Len(FoundIn(f, s)))

LEMMA FoundArePlaces == ASSUME NEW s, NEW f, IsText(s), FindShape(f) PROVE ArePlaces(FoundIn(f, s), s)
<1>1. f.open => ArePlaces(FoundIn(f, s), s)
  BY MatchesArePlaces DEF FoundIn, FindShape
<1>2. ArePlaces(<<>>, s)
  <2>1. IsText(<<>>) /\ Len(<<>>) = 0
    BY EmptySeq DEF IsText
  <2> QED BY <2>1 DEF ArePlaces
<1>3. ~f.open => FoundIn(f, s) = <<>>
  BY DEF FoundIn
<1> QED BY <1>1, <1>2, <1>3

\* Another match is current.
LEMMA IndexIs ==
  ASSUME NEW s, NEW f, FindShape(f), NEW i \in Nat, NEW u, Changed(f, u, "index", i),
         FoundIn(f, s) # <<>> => i < Len(FoundIn(f, s))
  PROVE  FindFits(u, s)
<1>1. Has(FindFields, u) /\ u["index"] = i /\ \A k \in FindFields : k # "index" => u[k] = f[k]
  <2>1. "index" \in FindFields /\ Has(FindFields, f)
    BY DEF FindShape, FindFields
  <2> QED BY <2>1, FieldIs
<1>2. u.index = i /\ u.open = f.open /\ u.term = f.term /\ u.resume = f.resume /\ u.first = f.first
  BY <1>1 DEF FindFields
<1>3. FoundIn(u, s) = FoundIn(f, s)
  BY <1>2 DEF FoundIn
<1>4. FindShape(u)
  BY <1>1, <1>2 DEF FindShape
<1> QED BY <1>2, <1>3, <1>4 DEF FindFits

\* A field that the search does not look for is told anew.
LEMMA ToldIs ==
  ASSUME NEW s, NEW f, FindShape(f), NEW k \in {"resume", "first"}, NEW v, k = "resume" => v \in Int,
         k = "first" => v \in BOOLEAN, NEW u, Changed(f, u, k, v)
  PROVE  FindShape(u) /\ FoundIn(u, s) = FoundIn(f, s) /\ u.index = f.index
<1>1. Has(FindFields, u) /\ u[k] = v /\ \A x \in FindFields : x # k => u[x] = f[x]
  <2>1. k \in FindFields /\ Has(FindFields, f)
    BY DEF FindShape, FindFields
  <2> QED BY <2>1, FieldIs
<1>2. /\ u.index = f.index /\ u.open = f.open /\ u.term = f.term
      /\ u.resume = (IF k = "resume" THEN v ELSE f.resume) /\ u.first = (IF k = "first" THEN v ELSE f.first)
  BY <1>1 DEF FindFields
<1>3. FoundIn(u, s) = FoundIn(f, s)
  BY <1>2 DEF FoundIn
<1>4. FindShape(u)
  BY <1>1, <1>2 DEF FindShape
<1> QED BY <1>2, <1>3, <1>4

LEMMA RefoundFits ==
  ASSUME NEW s, NEW f, IsText(s), FindShape(f)
  PROVE  FindFits(Text!Refound(s, f), s)
<1> DEFINE found == FoundIn(f, s)
           ahead == {n \in 1..Len(found) : found[n] >= f.resume}
           held == IF f.index < Len(found) THEN f.index ELSE Text!Max({0, Len(found) - 1})
           on == IF ahead = {} THEN 0 ELSE Text!Min(ahead) - 1
           u == Text!Refound(s, f)
           g1 == [f EXCEPT !["first"] = FALSE]
           g2 == [f EXCEPT !["resume"] = -1]
<1>1. u = IF found = <<>> THEN [f EXCEPT !["index"] = 0]
          ELSE IF f.first THEN [g1 EXCEPT !["index"] = 0]
          ELSE IF f.resume >= 0 THEN [g2 EXCEPT !["index"] = on]
          ELSE [f EXCEPT !["index"] = held]
  BY DEF Text!Refound, FoundIn
<1> HIDE DEF u
<1>2. Len(found) \in Nat /\ (found # <<>> => Len(found) > 0)
  <2>1. IsText(found)
    BY FoundArePlaces DEF ArePlaces
  <2> HIDE DEF found
  <2> QED BY <2>1, TextIs
<1> HIDE DEF found
<1>3. found # <<>> => on \in Nat /\ on < Len(found)
  <2>1. CASE ahead = {}
    BY <1>2, <2>1
  <2>2. CASE ahead # {}
    <3>1. ahead \subseteq 1..Len(found) /\ ahead \subseteq Nat
      OBVIOUS
    <3> HIDE DEF ahead
    <3>2. Text!Min(ahead) \in ahead
      BY <2>2, <3>1, MinIs
    <3>3. Text!Min(ahead) \in 1..Len(found)
      BY <3>1, <3>2
    <3>4. on = Text!Min(ahead) - 1
      BY <2>2
    <3> HIDE DEF on
    <3> QED BY <1>2, <3>3, <3>4
  <2> QED BY <2>1, <2>2
<1> HIDE DEF ahead, on
<1>4. found # <<>> => held \in Nat /\ held < Len(found)
  <2>1. f.index \in Nat /\ 0 \in Int /\ Len(found) - 1 \in Int
    BY <1>2 DEF FindShape
  <2>2. Text!Max({0, Len(found) - 1}) = IF 0 >= Len(found) - 1 THEN 0 ELSE Len(found) - 1
    BY <2>1, OneOfTwo
  <2> QED BY <1>2, <2>1, <2>2
<1> HIDE DEF held
<1>5. Changed(f, g1, "first", FALSE) /\ Changed(f, g2, "resume", -1)
  BY DEF Changed
<1> HIDE DEF g1, g2
<1>6. FindShape(g1) /\ FoundIn(g1, s) = found
  BY <1>5, ToldIs DEF found
<1>7. FindShape(g2) /\ FoundIn(g2, s) = found
  <2>1. -1 \in Int
    OBVIOUS
  <2> QED BY <1>5, <2>1, ToldIs DEF found
<1>8. CASE found = <<>>
  <2>1. Changed(f, u, "index", 0)
    BY <1>1, <1>8 DEF Changed
  <2> QED BY <1>8, <2>1, IndexIs DEF found, u
<1>9. CASE found # <<>> /\ f.first
  <2>1. Changed(g1, u, "index", 0)
    BY <1>1, <1>9 DEF Changed
  <2> QED BY <1>2, <1>6, <1>9, <2>1, IndexIs DEF u
<1>10. CASE found # <<>> /\ ~f.first /\ f.resume >= 0
  <2>1. Changed(g2, u, "index", on)
    BY <1>1, <1>10 DEF Changed
  <2> QED BY <1>3, <1>7, <1>10, <2>1, IndexIs DEF u
<1>11. CASE found # <<>> /\ ~f.first /\ ~(f.resume >= 0)
  <2>1. Changed(f, u, "index", held)
    BY <1>1, <1>11 DEF Changed
  <2>2. held \in Nat /\ held < Len(FoundIn(f, s))
    BY <1>4, <1>11 DEF found
  <2> QED BY <2>1, <2>2, IndexIs DEF u
<1> QED BY <1>8, <1>9, <1>10, <1>11

-----------------------------------------------------------------------------
(* The text area. *)

TextAssumption ==
  /\ ~Refuses /\ HintWindow \in Nat /\ MAX_DEPTH \in Nat
  /\ \A s \in Snippets : IsText(s)

PopupFits(p) == p = <<>> \/ \E a, b \in Nat : p = <<a, b>>

\* The history walks to the text that is shown, which is the one it was last told.
TextInv ==
  /\ IsText(typing) /\ prev = typing /\ Within(caret, typing) /\ IsHistory(hist, typing)
  /\ PopupFits(popup) /\ FindFits(find, typing)

LEMMA CompletionFits == ASSUME NEW s, NEW at \in Nat PROVE PopupFits(Text!updateCompletion(s, at))
<1> DEFINE starts == {a \in 0..at : (\A n \in (a + 1)..at : s[n] \in Letters) /\ (a = 0 \/ s[a] \notin Letters)}
           a == Text!Min(starts \cup {at})
           u == Text!updateCompletion(s, at)
<1>1. u = IF at - a < 2 \/ (at < Len(s) /\ s[at + 1] \in Letters) THEN <<>> ELSE <<a, at>>
  BY DEF Text!updateCompletion
<1>2. starts \cup {at} \subseteq Nat
  OBVIOUS
<1>3. a \in Nat
  <2> HIDE DEF starts
  <2>1. Text!Min(starts \cup {at}) \in starts \cup {at}
    BY <1>2, MinIs
  <2> QED BY <1>2, <2>1
<1> HIDE DEF a, u
<1>4. u = <<>> \/ u = <<a, at>>
  BY <1>1
<1>5. PopupFits(u)
  BY <1>3, <1>4 DEF PopupFits
<1> QED BY <1>5 DEF u

\* A history that begins, and one that is read from another place.
LEMMA FreshHistory == ASSUME NEW s, IsText(s) PROVE IsHistory(Text!createHistory(s), s)
<1> DEFINE h == Text!createHistory(s)
           w == [k \in {0} |-> s]
<1>1. Has(HistoryFields, h) /\ h.base = s /\ h.entries = <<>> /\ h.cursor = 0
  BY DEF Text!createHistory, Has, HistoryFields
<1>2. w[0] = s
  OBVIOUS
<1> HIDE DEF h, w
<1>3. IsText(<<>>) /\ Len(<<>>) = 0
  BY EmptySeq DEF IsText
<1>4. Walk(h, w)
  BY <1>1, <1>2, <1>3 DEF Walk
<1>5. IsHistory(h, s)
  BY <1>1, <1>2, <1>3, <1>4 DEF IsHistory
<1> QED BY <1>5 DEF h

LEMMA OtherCursor ==
  ASSUME NEW h, Has(HistoryFields, h), IsText(h.entries), NEW w, Walk(h, w), NEW n \in 0..Len(h.entries),
         NEW u, Changed(h, u, "cursor", n)
  PROVE  IsHistory(u, w[n])
<1>1. Has(HistoryFields, u) /\ u["cursor"] = n /\ \A k \in HistoryFields : k # "cursor" => u[k] = h[k]
  <2>1. "cursor" \in HistoryFields
    BY DEF HistoryFields
  <2> QED BY <2>1, FieldIs
<1>2. u.cursor = n /\ u.base = h.base /\ u.entries = h.entries
  BY <1>1 DEF HistoryFields
<1>3. Walk(u, w)
  BY <1>2 DEF Walk
<1>4. IsText(u.entries) /\ u.cursor \in 0..Len(u.entries) /\ w[u.cursor] = w[n]
  BY <1>2
<1> QED BY <1>1, <1>3, <1>4, HistoryIs

LEMMA ClosedFits == ASSUME NEW s PROVE FindFits(Text!Closed, s)
<1> DEFINE f == Text!Closed
<1>1. Has(FindFields, f) /\ ~f.open /\ f.term = <<>> /\ f.index = 0 /\ f.resume = -1 /\ f.first = FALSE
  BY DEF Text!Closed, Has, FindFields
<1> HIDE DEF f
<1>2. IsText(<<>>)
  BY EmptySeq DEF IsText
<1>3. FoundIn(f, s) = <<>>
  BY <1>1 DEF FoundIn
<1>4. -1 \in Int
  OBVIOUS
<1>5. IsText(f.term) /\ f.index \in Nat /\ f.resume \in Int /\ f.first \in BOOLEAN
  <2>1. IsText(f.term)
    BY <1>1, <1>2
  <2>2. f.index \in Nat /\ f.resume \in Int
    BY <1>1
  <2>3. f.first \in BOOLEAN
    BY <1>1
  <2> QED BY <2>1, <2>2, <2>3
<1>6. FindFits(f, s)
  BY <1>1, <1>3, <1>5 DEF FindFits, FindShape
<1> QED BY <1>6 DEF f

LEMMA TextInit == ASSUME TextAssumption, Text!Init PROVE TextInv
<1>1. IsText(<<>>)
  BY EmptySeq DEF IsText
<1>2. IsText(typing) /\ prev = typing /\ caret = 0 /\ popup = <<>> /\ find = Text!Closed
      /\ hist = Text!createHistory(typing)
  BY <1>1 DEF Text!Init, TextAssumption
<1>3. Within(caret, typing)
  BY <1>2, TextIs DEF Within
<1> QED BY <1>2, <1>3, FreshHistory, ClosedFits DEF TextInv, PopupFits

\* An edit of the browser is recorded.
LEMMA InputStep ==
  ASSUME TextAssumption, TextInv, NEW after, NEW at, NEW selBefore, NEW atomic, NEW f,
         IsText(after), Within(at, after), Within(selBefore, typing), FindShape(f),
         Text!onInput(after, at, selBefore, atomic, f)
  PROVE  TextInv'
<1>1. /\ typing' = after /\ caret' = at /\ prev' = after
      /\ popup' = Text!updateCompletion(after, at) /\ find' = Text!Refound(after, f)
  BY DEF Text!onInput
<1>2. PICK soon \in BOOLEAN : hist' = Text!record(prev, after, selBefore, at, soon, atomic)
  BY DEF Text!onInput
<1>3. IsHistory(hist, typing) /\ IsText(typing) /\ prev = typing /\ HintWindow \in Nat
  BY DEF TextInv, TextAssumption
<1>4. IsHistory(hist', after)
  <2>1. IsHistory(Text!record(typing, after, selBefore, at, soon, atomic), after)
    BY <1>3, HistoryGrows
  <2> QED BY <1>2, <1>3, <2>1
<1>5. FindFits(find', after)
  BY <1>1, RefoundFits
<1>6. PopupFits(popup')
  BY <1>1, CompletionFits DEF Within
<1> QED BY <1>1, <1>4, <1>5, <1>6 DEF TextInv

\* A part of the text is replaced in one go.
LEMMA InsertStep ==
  ASSUME TextAssumption, TextInv, NEW in, NEW start \in 0..Len(typing), NEW stop \in Int, NEW f,
         IsText(in), FindShape(f), Text!insertAtCaret(in, start, stop, f)
  PROVE  TextInv'
<1> DEFINE after == Text!Splice(typing, start, stop - start, in)
<1>1. \/ after # typing /\ Text!onInput(after, start + Len(in), start, TRUE, f)
      \/ /\ after = typing /\ caret' = start + Len(in) /\ find' = Text!Refound(typing, f)
         /\ UNCHANGED <<typing, prev, hist, popup>>
  BY DEF Text!insertAtCaret, TextAssumption
<1>2. IsText(typing) /\ Len(typing) \in Nat /\ start \in Nat /\ stop - start \in Int
  BY TextIs DEF TextInv
<1>3. IsText(after) /\ Within(start + Len(in), after)
  BY <1>2, SpliceFits
<1>4. Within(start, typing)
  BY <1>2 DEF Within
<1> HIDE DEF after
<1>5. CASE after # typing /\ Text!onInput(after, start + Len(in), start, TRUE, f)
  <2> DEFINE at == start + Len(in)
  <2>1. Within(at, after) /\ Text!onInput(after, at, start, TRUE, f)
    BY <1>3, <1>5
  <2> HIDE DEF at
  <2> QED BY <1>3, <1>4, <2>1, InputStep
<1>6. CASE /\ after = typing /\ caret' = start + Len(in) /\ find' = Text!Refound(typing, f)
           /\ UNCHANGED <<typing, prev, hist, popup>>
  <2>1. Within(caret', typing) /\ FindFits(find', typing)
    BY <1>2, <1>3, <1>6, RefoundFits
  <2> QED BY <1>6, <2>1 DEF TextInv
<1> QED BY <1>1, <1>5, <1>6

LEMMA KeyStep == ASSUME TextAssumption, TextInv, Text!Type \/ Text!Erase PROVE TextInv'
<1>1. IsText(typing) /\ Within(caret, typing) /\ FindShape(find) /\ Len(typing) \in Nat
  BY TextIs DEF TextInv, FindFits
<1>2. caret \in Nat /\ caret <= Len(typing)
  BY <1>1 DEF Within
<1>3. CASE Text!Type
  <2>1. PICK c : Text!onInput(Text!Splice(typing, caret, 0, <<c>>), caret + 1, caret, atomicEdit, find)
    BY <1>3 DEF Text!Type
  <2> DEFINE after == Text!Splice(typing, caret, 0, <<c>>)
             in == <<c>>
             at == caret + 1
  <2>2. IsText(in) /\ Len(in) = 1
    BY OneIs
  <2>3. IsText(after) /\ Within(at, after)
    <3>1. caret \in 0..Len(typing)
      BY <1>1, <1>2
    <3>2. after = Text!Splice(typing, caret, 0, in)
      OBVIOUS
    <3> HIDE DEF in, after
    <3>3. IsText(after) /\ Within(caret + Len(in), after)
      <4>1. IsText(in) /\ 0 \in Int
        BY <2>2
      <4>2. IsText(Text!Splice(typing, caret, 0, in)) /\ Within(caret + Len(in), Text!Splice(typing, caret, 0, in))
        BY <1>1, <3>1, <4>1, SpliceFits
      <4> QED BY <3>2, <4>2
    <3> QED BY <2>2, <3>3
  <2> HIDE DEF after, at
  <2>4. Text!onInput(after, at, caret, atomicEdit, find)
    BY <2>1 DEF after, at
  <2> QED BY <1>1, <2>3, <2>4, InputStep
<1>4. CASE Text!Erase
  <2> DEFINE at == caret - 1
             after == Text!Splice(typing, at, 1, <<>>)
  <2>1. caret > 0 /\ Text!onInput(after, at, caret, atomicEdit, find)
    BY <1>4 DEF Text!Erase
  <2>2. at \in 0..Len(typing) /\ at + 0 = at
    BY <1>1, <1>2, <2>1
  <2> HIDE DEF at
  <2>3. IsText(<<>>) /\ Len(<<>>) = 0
    BY EmptySeq DEF IsText
  <2>4. IsText(after) /\ Within(at, after)
    <3> DEFINE in == <<>>
    <3>1. IsText(in) /\ 1 \in Int
      BY <2>3
    <3>2. after = Text!Splice(typing, at, 1, in)
      OBVIOUS
    <3> HIDE DEF in, after
    <3>3. IsText(Text!Splice(typing, at, 1, in)) /\ Within(at + Len(in), Text!Splice(typing, at, 1, in))
      BY <1>1, <2>2, <3>1, SpliceFits
    <3>4. at + Len(in) = at
      BY <2>2, <2>3 DEF in
    <3> QED BY <3>2, <3>3, <3>4
  <2> HIDE DEF after
  <2> QED BY <1>1, <2>1, <2>4, InputStep
<1> QED BY <1>3, <1>4

LEMMA PartStep ==
  ASSUME TextAssumption, TextInv,
         Text!acceptCompletion \/ Text!insertSnippet \/ Text!fixImports
  PROVE  TextInv'
<1>1. IsText(typing) /\ Within(caret, typing) /\ FindShape(find) /\ Len(typing) \in Nat
  BY TextIs DEF TextInv, FindFits
<1>2. caret \in 0..Len(typing) /\ caret \in Int /\ 0 \in 0..Len(typing) /\ Len(typing) \in Int
  BY <1>1 DEF Within
<1>3. CASE Text!insertSnippet
  <2>1. PICK in \in Snippets : Text!insertAtCaret(in, caret, caret, find)
    BY <1>3 DEF Text!insertSnippet
  <2>2. IsText(in)
    BY DEF TextAssumption
  <2> QED BY <1>1, <1>2, <2>1, <2>2, InsertStep
<1>4. CASE Text!fixImports
  <2>1. PICK in \in Snippets : Text!insertAtCaret(in \o typing, 0, Len(typing), find)
    BY <1>4 DEF Text!fixImports
  <2> DEFINE x == in \o typing
             stop == Len(typing)
  <2>2. IsText(x)
    BY <1>1, JoinIs DEF TextAssumption
  <2>3. stop \in Int /\ Text!insertAtCaret(x, 0, stop, find)
    BY <1>2, <2>1
  <2> HIDE DEF x, stop
  <2> QED BY <1>1, <1>2, <2>2, <2>3, InsertStep
<1>5. CASE Text!acceptCompletion
  <2>1. PICK in \in Snippets :
          Text!insertAtCaret(in, Text!Min({popup[1], Len(typing)}), Text!Min({popup[2], Len(typing)}), find)
    BY <1>5 DEF Text!acceptCompletion
  <2>2. popup # <<>>
    BY <1>5 DEF Text!acceptCompletion
  <2>3. IsText(in)
    BY DEF TextAssumption
  <2>4. PICK a, b \in Nat : popup = <<a, b>>
    BY <2>2 DEF TextInv, PopupFits
  <2> DEFINE start == Text!Min({popup[1], Len(typing)})
             stop == Text!Min({popup[2], Len(typing)})
  <2>5. popup[1] = a /\ popup[2] = b /\ a \in Int /\ b \in Int
    BY <2>4
  <2>6. start = (IF a <= Len(typing) THEN a ELSE Len(typing)) /\ stop = (IF b <= Len(typing) THEN b ELSE Len(typing))
    BY <1>2, <2>5, OneOfTwo
  <2> HIDE DEF start, stop
  <2>7. start \in 0..Len(typing) /\ stop \in Int
    BY <1>1, <2>5, <2>6
  <2>8. Text!insertAtCaret(in, start, stop, find)
    BY <2>1 DEF start, stop
  <2> QED BY <1>1, <2>3, <2>7, <2>8, InsertStep
<1> QED BY <1>3, <1>4, <1>5

\* The entry that is undone, or done again, gives the text before or after it.
LEMMA UndoStep == ASSUME TextAssumption, TextInv, Text!undoEdit \/ Text!redoEdit PROVE TextInv'
<1>1. /\ IsText(typing) /\ prev = typing /\ PopupFits(popup) /\ FindShape(find)
      /\ Has(HistoryFields, hist) /\ IsText(hist.entries) /\ hist.cursor \in 0..Len(hist.entries)
      /\ Len(hist.entries) \in Nat
  BY TextIs DEF TextInv, IsHistory, FindFits
<1>2. PICK w : Walk(hist, w) /\ w[hist.cursor] = typing
  BY DEF TextInv, IsHistory
<1>3. ASSUME NEW n \in 0..Len(hist.entries), NEW at, Within(at, w[n]), IsText(w[n]),
             Text!applyHistory(w[n], at, n)
      PROVE  TextInv'
  <2> DEFINE after == w[n]
  <2>1. /\ typing' = after /\ prev' = after /\ caret' = Text!Min({at, Len(after)})
        /\ hist' = [hist EXCEPT !.cursor = n] /\ find' = Text!Refound(after, find) /\ popup' = popup
    BY <1>3 DEF Text!applyHistory
  <2>2. IsHistory(hist', after)
    <3> DEFINE u == hist'
    <3>1. Changed(hist, u, "cursor", n)
      BY <2>1 DEF Changed
    <3> HIDE DEF u
    <3>2. IsHistory(u, w[n])
      BY <1>1, <1>2, <3>1, OtherCursor
    <3> QED BY <3>2 DEF u
  <2>3. IsText(after) /\ Within(at, after)
    BY <1>3
  <2> HIDE DEF after
  <2>4. FindFits(find', after)
    BY <1>1, <2>1, <2>3, RefoundFits
  <2>5. Within(caret', after)
    <3>1. at \in Int /\ Len(after) \in Int /\ at \in Nat /\ at <= Len(after)
      BY <2>3, TextIs DEF Within
    <3> QED BY <2>1, <3>1, OneOfTwo DEF Within
  <2> QED BY <1>1, <2>1, <2>2, <2>3, <2>4, <2>5 DEF TextInv
<1>4. CASE Text!undoEdit
  <2> DEFINE c == hist.cursor
             e == hist.entries[c]
  <2>1. c > 0 /\ Text!applyHistory(Text!Back(prev, e), e.selBefore, c - 1)
    BY <1>4 DEF Text!undoEdit
  <2>2. c \in 1..Len(hist.entries) /\ c - 1 \in 0..Len(hist.entries)
    BY <1>1, <2>1
  <2>3. Step(e, w[c - 1], w[c])
    BY <1>2, <2>2 DEF Walk
  <2> DEFINE n == c - 1
             at == e.selBefore
  <2>4. Text!Back(prev, e) = w[n] /\ IsText(w[n]) /\ Within(at, w[n])
    <3> HIDE DEF e, c
    <3>1. Turns(e, w[c - 1], w[c]) /\ Within(e.selBefore, w[c - 1])
      BY <2>3 DEF Step
    <3>2. Text!Back(w[c], e) = w[c - 1] /\ IsText(w[c - 1])
      BY <3>1, TurnsIs
    <3> QED BY <1>1, <1>2, <3>1, <3>2 DEF c
  <2>5. n \in 0..Len(hist.entries) /\ Text!applyHistory(w[n], at, n)
    BY <2>1, <2>2, <2>4
  <2> HIDE DEF n, at
  <2> QED BY <1>3, <2>4, <2>5
<1>5. CASE Text!redoEdit
  <2> DEFINE n == hist.cursor + 1
             e == hist.entries[n]
             at == e.selAfter
  <2>1. hist.cursor < Len(hist.entries) /\ Text!applyHistory(Text!Forward(prev, e), at, n)
    BY <1>5 DEF Text!redoEdit
  <2>2. n \in 1..Len(hist.entries) /\ n \in 0..Len(hist.entries) /\ n - 1 = hist.cursor
    BY <1>1, <2>1
  <2>3. Step(e, w[n - 1], w[n])
    BY <1>2, <2>2 DEF Walk
  <2>4. Text!Forward(prev, e) = w[n] /\ IsText(w[n]) /\ Within(at, w[n])
    <3>1. Turns(e, w[n - 1], w[n]) /\ Within(at, w[n])
      BY <2>3 DEF Step
    <3> HIDE DEF e, n
    <3>2. Text!Forward(w[n - 1], e) = w[n] /\ IsText(w[n])
      BY <3>1, TurnsIs
    <3> QED BY <1>1, <1>2, <2>2, <3>1, <3>2
  <2>5. Text!applyHistory(w[n], at, n)
    BY <2>1, <2>4
  <2> HIDE DEF n, at
  <2> QED BY <1>3, <2>2, <2>4, <2>5
<1> QED BY <1>4, <1>5

\* What is searched, and the match that is gone to.
LEMMA FindStep ==
  ASSUME TextAssumption, TextInv, Text!Search \/ Text!findNext \/ Text!closeFind PROVE TextInv'
<1>1. IsText(typing) /\ FindFits(find, typing) /\ FindShape(find) /\ DOMAIN find = FindFields
  BY HasDomain DEF TextInv, FindFits, FindShape
<1>2. UNCHANGED <<typing, caret, prev, hist, popup>>
  BY DEF Text!Search, Text!findNext, Text!closeFind
<1>3. SUFFICES FindFits(find', typing)
  BY <1>2 DEF TextInv
<1>4. CASE Text!closeFind
  BY <1>4, ClosedFits DEF Text!closeFind
<1>5. CASE Text!Search
  <2>1. PICK term \in Snippets :
          find' = Text!Refound(typing, [find EXCEPT !.open = TRUE, !.term = term, !.index = 0, !.first = TRUE])
    BY <1>5 DEF Text!Search
  <2> DEFINE f == [find EXCEPT !.open = TRUE, !.term = term, !.index = 0, !.first = TRUE]
  <2>2. f = [k \in FindFields |-> IF k = "open" THEN TRUE ELSE IF k = "term" THEN term
                                  ELSE IF k = "index" THEN 0 ELSE IF k = "first" THEN TRUE ELSE find[k]]
    BY <1>1 DEF FindFields
  <2>3. find' = Text!Refound(typing, f)
    BY <2>1
  <2> HIDE DEF f
  <2>4. Has(FindFields, f) /\ f.term = term /\ f.index = 0 /\ f.resume = find.resume /\ f.first = TRUE
    BY <2>2 DEF Has, FindFields
  <2>5. FindShape(f)
    <3>1. IsText(f.term) /\ f.index \in Nat /\ f.first \in BOOLEAN /\ f.resume \in Int
      <4>1. IsText(term) /\ find.resume \in Int
        BY <1>1 DEF FindShape, TextAssumption
      <4>2. IsText(f.term)
        BY <2>4, <4>1
      <4>3. f.index \in Nat /\ f.resume \in Int
        BY <2>4, <4>1
      <4>4. f.first \in BOOLEAN
        BY <2>4
      <4> QED BY <4>2, <4>3, <4>4
    <3> QED BY <2>4, <3>1 DEF FindShape
  <2> QED BY <1>1, <2>3, <2>5, RefoundFits
<1>6. CASE Text!findNext
  <2> DEFINE found == FoundIn(find, typing)
  <2>1. Text!Matches = found
    BY DEF Text!Matches, FoundIn
  <2>2. PICK backwards \in BOOLEAN : find' = [find EXCEPT !.index = Text!nextIndex(@, Len(Text!Matches), backwards)]
    BY <1>6 DEF Text!findNext
  <2>3. found # <<>>
    BY <1>6, <2>1 DEF Text!findNext
  <2>4. IsText(found)
    BY <1>1, FoundArePlaces DEF ArePlaces
  <2> DEFINE n == Len(found)
             i == Text!nextIndex(find.index, n, backwards)
  <2>5. Changed(find, find', "index", i)
    <3>1. find' = [find EXCEPT !["index"] = Text!nextIndex(find.index, Len(Text!Matches), backwards)]
      BY <1>1, <2>2
    <3> QED BY <2>1, <3>1 DEF Changed
  <2> HIDE DEF found
  <2>6. n \in Nat /\ n > 0 /\ find.index \in Nat
    BY <1>1, <2>3, <2>4, TextIs DEF FindShape
  <2>7. i \in Nat /\ i < n
    <3>1. i = (find.index + (IF backwards THEN n - 1 ELSE 1)) % n
      BY DEF Text!nextIndex
    <3> HIDE DEF n
    <3>2. find.index + (IF backwards THEN n - 1 ELSE 1) \in Nat
      BY <2>6
    <3> QED BY <2>6, <3>1, <3>2
  <2> DEFINE u == find'
  <2>8. Changed(find, u, "index", i) /\ i < Len(FoundIn(find, typing))
    BY <2>5, <2>7 DEF found
  <2> HIDE DEF u, i
  <2>9. FindFits(u, typing)
    BY <1>1, <2>7, <2>8, IndexIs
  <2> QED BY <2>9 DEF u
<1> QED BY <1>4, <1>5, <1>6

\* A match is replaced by what was typed, or every match is.
LEMMA ReplaceStep ==
  ASSUME TextAssumption, TextInv, Text!replaceCurrent \/ Text!replaceAll PROVE TextInv'
<1>1. IsText(typing) /\ FindFits(find, typing) /\ FindShape(find) /\ Len(typing) \in Nat
  BY TextIs DEF TextInv, FindFits
<1>2. IsText(<<>>)
  BY EmptySeq DEF IsText
<1>3. \A in \in Snippets \cup {<<>>} : IsText(in)
  BY <1>2 DEF TextAssumption
<1>4. CASE Text!replaceAll
  <2>1. PICK in \in Snippets \cup {<<>>} :
          Text!insertAtCaret(Text!applyReplaceAll(typing, find.term, in), 0, Len(typing), [find EXCEPT !.index = 0])
    BY <1>4 DEF Text!replaceAll
  <2> DEFINE all == Text!applyReplaceAll(typing, find.term, in)
             f == [find EXCEPT !["index"] = 0]
             stop == Len(typing)
  <2>2. Text!insertAtCaret(all, 0, stop, f)
    BY <2>1
  <2>3. IsText(all)
    BY <1>1, <1>3, ReplacedIsText DEF FindShape
  <2>4. Changed(find, f, "index", 0)
    BY DEF Changed
  <2>5. stop \in Int /\ 0 \in 0..Len(typing)
    BY <1>1
  <2> HIDE DEF all, f, stop
  <2>6. FindShape(f)
    <3>1. Has(FindFields, f) /\ f["index"] = 0 /\ \A k \in FindFields : k # "index" => f[k] = find[k]
      <4>1. "index" \in FindFields /\ Has(FindFields, find)
        BY <1>1 DEF FindShape, FindFields
      <4> QED BY <2>4, <4>1, FieldIs
    <3>2. f.index = 0 /\ f.term = find.term /\ f.resume = find.resume /\ f.first = find.first
      BY <3>1 DEF FindFields
    <3> QED BY <1>1, <3>1, <3>2 DEF FindShape
  <2> QED BY <2>2, <2>3, <2>5, <2>6, InsertStep
<1>5. CASE Text!replaceCurrent
  <2> DEFINE found == FoundIn(find, typing)
             at == found[find.index + 1]
  <2>1. Text!Matches = found
    BY DEF Text!Matches, FoundIn
  <2>2. PICK in \in Snippets \cup {<<>>} :
          /\ found # <<>>
          /\ Text!insertAtCaret(in, at, at + Len(find.term), [find EXCEPT !.resume = at + Len(in)])
    BY <1>5, <2>1 DEF Text!replaceCurrent
  <2> DEFINE v == at + Len(in)
             f == [find EXCEPT !["resume"] = v]
             stop == at + Len(find.term)
  <2>3. IsText(found) /\ \A k \in 1..Len(found) : found[k] \in 0..Len(typing)
    BY <1>1, FoundArePlaces DEF ArePlaces
  <2>4. find.index \in Nat /\ find.index < Len(found) /\ Len(found) \in Nat
    BY <1>1, <2>2, <2>3, TextIs DEF FindFits, FindShape
  <2>5. at \in 0..Len(typing)
    <3>1. find.index + 1 \in 1..Len(found)
      BY <2>4
    <3> QED BY <2>3, <3>1
  <2>6. Text!insertAtCaret(in, at, stop, f)
    BY <2>2
  <2> HIDE DEF at
  <2>7. IsText(in) /\ Len(in) \in Nat /\ Len(find.term) \in Nat
    BY <1>1, <1>3, TextIs DEF FindShape
  <2>8. stop \in Int /\ v \in Int
    BY <1>1, <2>5, <2>7
  <2>9. Changed(find, f, "resume", v)
    BY DEF Changed
  <2> HIDE DEF stop, v, f
  <2>10. FindShape(f)
    BY <1>1, <2>8, <2>9, ToldIs
  <2> QED BY <2>5, <2>6, <2>7, <2>8, <2>10, InsertStep
<1> QED BY <1>4, <1>5

LEMMA TextStep == ASSUME TextAssumption, TextInv, [Text!Next]_Text!vars PROVE TextInv'
<1>1. CASE UNCHANGED Text!vars
  BY <1>1 DEF Text!vars, TextInv
<1>2. CASE Text!onKeydown
  <2>1. CASE Text!DismissPopup
    BY <2>1 DEF Text!DismissPopup, TextInv, PopupFits
  <2> QED BY <1>2, <2>1, KeyStep, PartStep, UndoStep DEF Text!onKeydown
<1>3. CASE Text!MoveCaret
  <2>1. /\ caret' \in 0..Len(typing) /\ popup' \in {popup, <<>>}
        /\ UNCHANGED <<typing, prev, hist, find>>
    BY <1>3 DEF Text!MoveCaret
  <2>2. Len(typing) \in Nat
    BY TextIs DEF TextInv
  <2>3. Within(caret', typing) /\ PopupFits(popup')
    BY <2>1, <2>2 DEF TextInv, Within, PopupFits
  <2> QED BY <2>1, <2>3 DEF TextInv
<1>4. CASE Text!insertSnippet \/ Text!fixImports
  BY <1>4, PartStep
<1>5. CASE Text!resetHistory
  <2>1. /\ prev' = typing /\ hist' = Text!createHistory(typing) /\ caret' = 0 /\ popup' = <<>>
        /\ find' = Text!Closed /\ typing' = typing
    BY <1>5 DEF Text!resetHistory
  <2>2. IsText(typing) /\ Within(0, typing)
    BY TextIs DEF TextInv, Within
  <2> QED BY <2>1, <2>2, FreshHistory, ClosedFits DEF TextInv, PopupFits
<1>6. CASE Text!Search \/ Text!findNext \/ Text!closeFind
  BY <1>6, FindStep
<1>7. CASE Text!replaceCurrent \/ Text!replaceAll
  BY <1>7, ReplaceStep
<1> QED BY <1>1, <1>2, <1>3, <1>4, <1>5, <1>6, <1>7 DEF Text!Next

\* Undo leads back, one text after another, to the one the history began with, and
\* redo forth to the one that is shown, whatever was typed, pasted, completed,
\* replaced or undone and typed over, on a webview that carries out what it is
\* told to insert (history.js record, undo, redo; MibEditorPanel.svelte onInput).
THEOREM UndoWorks == ASSUME TextAssumption PROVE Text!Spec => []Text!UndoReturns
<1>1. Text!Init => TextInv
  BY TextInit
<1>2. TextInv /\ [Text!Next]_Text!vars => TextInv'
  BY TextStep
<1>3. TextInv => Text!UndoReturns
  BY HistoryReturns DEF TextInv
<1> QED BY <1>1, <1>2, <1>3, PTL DEF Text!Spec

(***************************************************************************)
(* What the parts promise together.                                        *)
(***************************************************************************)
\* What is stored is sealed, nothing sealed goes on the wire, a session follows
\* exactly the references that changed, and the trap listener accepts the users
\* that the settings accept and can use, whatever the keychain does (crypto.js,
\* credentialProfiles.js, trapStore.js).
THEOREM SecretsStay ==
  ASSUME VaultAssumption, BookAssumption, TrustAssumption
  PROVE  Safe!Spec /\ Who!Spec /\ Trusted!Spec => []SecretsAreKept
<1>1. /\ Safe!NeverStoredInClear /\ Safe!NothingSealedInUse /\ Who!FollowedIffChanged
      /\ Trusted!UsersFollowSettings
      => SecretsAreKept
  BY DEF SecretsAreKept
<1> QED BY <1>1, StoredSealed, UsedOpen, FollowsChanges, UsersFollow, PTL

\* Nothing is blanked, asked otherwise or typed over but what an edit is about:
\* the stored credentials, the identities of the other targets and the fields of
\* an operation stay (crypto.js carryForward, TargetManager.svelte,
\* OperationsPanel.svelte).
THEOREM EditsAreLocal ==
  ASSUME VaultAssumption, BookAssumption
  PROVE  Safe!Spec /\ Who!Spec /\ Asks!Spec => EditsDisturbNothing
<1>1. Safe!Spec => [][Safe!BlanksNothing]_Safe!vars
  BY BlankedByTheOperator DEF Safe!NeverBlankedBehindYou
<1>2. Who!Spec => [][Who!KeepsOthers]_Who!vars
  BY OthersKept DEF Who!OthersKeepTheirIdentity
<1>3. [Safe!BlanksNothing]_Safe!vars /\ [Who!KeepsOthers]_Who!vars /\ [Asks!KeepsTyped]_Asks!vars
      => [/\ chances # None => [Safe!BlanksNothing]_Safe!vars
          /\ book # None => [Who!KeepsOthers]_Who!vars
          /\ form # None => [Asks!KeepsTyped]_Asks!vars]_<<Safe!vars, Who!vars, Asks!vars>>
  OBVIOUS
<1> QED BY <1>1, <1>2, <1>3, TypedIsKept, PTL DEF EditsDisturbNothing

\* A draft is of its own file and work is somewhere, on disk, in a draft or in the
\* editor, through switches, saves and closings, and undo returns to what was
\* typed (mibEditorStore.js, MibEditorPanel.svelte, history.js).
THEOREM NothingTypedIsLost ==
  ASSUME EditorAssumption, TextAssumption
  PROVE  Editor!Spec /\ Text!Spec => []WorkIsKept
<1>1. Editor!DraftOfItsFile /\ Editor!WorkIsSomewhere /\ Text!UndoReturns => WorkIsKept
  BY DEF WorkIsKept
<1> QED BY <1>1, DraftsAreTheirs, WorkStays, UndoWorks, PTL

=============================================================================
