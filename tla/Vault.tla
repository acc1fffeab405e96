------------------------------- MODULE Vault -------------------------------
(***************************************************************************)
(* The settings and their credentials (frontend/src/stores/settingsStore.js*)
(* and utils/crypto.js) over the key of the operating system               *)
(* (internal/app/settings.go).                                             *)
(*                                                                         *)
(* The settings live in memory in the clear and in localStorage with every *)
(* credential sealed.  Sealing and opening are calls to Go that wait, and  *)
(* the keychain behind them may be absent, or refuse for a while.  A       *)
(* credential is the value of a slot: the community, and one slot for each *)
(* field an override or a profile has, named by address or profile id.     *)
(***************************************************************************)
EXTENDS Integers, FiniteSets

CONSTANTS
  Fixed,        \* the slots every settings object has
  Keyed,        \* the slots of overrides and profiles, which come and go
  Secrets,      \* what an operator may type
  Public,       \* the community a new profile starts with
  InClear, Nothing,  \* no key; no value
  MaxKeys,      \* bound: keys the keychain is given
  MaxSaves,     \* bound: saves begun
  MaxFlips,     \* bound: times the keychain starts or stops answering
  MaxRestarts   \* bound: restarts of the application

Slots  == Fixed \cup Keyed
Legacy == 0                      \* the key an older release kept in localStorage
Keys   == 0..MaxKeys
Values == [secret : Secrets, under : Keys \cup {InClear}]
Blank  == Nothing
Cred   == UNION {[S -> Values \cup {Blank}] : S \in {T \cup Fixed : T \in SUBSET Keyed}}

VARIABLES
  \* localStorage
  disk,      \* the settings blob, or Nothing
  oldKey,    \* whether the legacy key is still there
  \* the operating system
  keychain,  \* "open", "refuses" or "absent"
  osKey,     \* the key it holds, or Nothing
  made,      \* how many keys were generated
  \* Go
  cached,    \* settingsKeyCache
  \* the page
  mem,       \* the value of settingsStore
  state,     \* credentialState
  boot,      \* where decryptSettings or initCredentialState stands
  loaded,    \* the settings it is opening (initialSettings)
  usable,    \* what refreshStatus answered
  saving,    \* the saves whose credentials are being sealed
  forgetting,\* a reset waits for SettingsForgetKey
  \* bookkeeping of the model
  cleared,   \* the slots the operator left blank
  budget

storage == <<disk, oldKey>>
os      == <<keychain, osKey, made, cached>>
page    == <<mem, state, boot, loaded, usable, saving, forgetting>>
vars    == <<storage, os, page, cleared, budget>>

Spend(kind) == budget[kind] > 0 /\ budget' = [budget EXCEPT ![kind] = @ - 1]

Sealed(v) == v # Blank /\ v.under # InClear
Clear(s)  == [secret |-> s, under |-> InClear]

-----------------------------------------------------------------------------
(* settings.go.  The key is read once and made if there is none; an        *)
(* operation that needs it fails while the keychain does not answer.       *)

KeyAfter == IF cached # Nothing THEN cached ELSE IF osKey # Nothing THEN osKey ELSE made + 1

settingsKey ==
  /\ cached # Nothing \/ (keychain = "open" /\ (osKey # Nothing \/ made < MaxKeys))
  /\ cached' = KeyAfter
  /\ IF cached = Nothing /\ osKey = Nothing
       THEN osKey' = made + 1 /\ made' = made + 1
       ELSE UNCHANGED <<osKey, made>>
  /\ UNCHANGED keychain

KeyOutOfReach == cached = Nothing /\ keychain # "open"

\* A plausible bug: sealing gives up on a batch that holds an empty value.
SealsAllOrNothing(cred, key) ==
  [k \in DOMAIN cred |->
     IF \E j \in DOMAIN cred : cred[j] = Blank THEN cred[k] ELSE [cred[k] EXCEPT !.under = key]]

\* An empty value and one that is sealed already pass through.
SettingsSeal(cred, key) ==
  [k \in DOMAIN cred |->
     IF cred[k] = Blank \/ Sealed(cred[k]) THEN cred[k] ELSE [cred[k] EXCEPT !.under = key]]

\* The whole batch opens or none of it.
Opens(cred, key) == \A k \in DOMAIN cred : Sealed(cred[k]) => cred[k].under = key

SettingsOpen(cred) == [k \in DOMAIN cred |-> IF Sealed(cred[k]) THEN Clear(cred[k].secret) ELSE cred[k]]

-----------------------------------------------------------------------------
(* crypto.js. *)

\* A plausible bug: the stored blob is not read back first.
carryNothing(cred, previous) == [k \in DOMAIN cred |-> Blank]

\* By key, not by position: a slot that is new since then is stored blank.
carryForward(cred, previous) ==
  [k \in DOMAIN cred |->
     IF previous # Nothing /\ k \in DOMAIN previous THEN previous[k] ELSE Blank]

\* A plausible bug: the values that did not open stay in the copy.
keepSealed(cred) == cred

blankSealed(cred) == [k \in DOMAIN cred |-> IF Sealed(cred[k]) THEN Blank ELSE cred[k]]

HasSealed(cred) == \E k \in DOMAIN cred : Sealed(cred[k])

ToOpen == IF loaded = Nothing THEN FALSE ELSE HasSealed(loaded)

refreshStatus ==
  /\ boot = "status"
  /\ state' = CASE keychain = "absent"  -> "nostore"
                [] keychain = "refuses" -> "locked"
                [] OTHER                -> state
  /\ usable' = (keychain = "open")
  /\ boot' = IF oldKey THEN "adopt" ELSE "open"
  /\ UNCHANGED <<storage, os, mem, loaded, saving, forgetting, cleared, budget>>

\* SettingsAdoptKey takes the legacy key unless the keychain holds another.
AdoptKey ==
  /\ boot = "adopt"
  /\ IF keychain = "open" /\ osKey \in {Nothing, Legacy}
       THEN osKey' = Legacy /\ cached' = Legacy /\ boot' = "witness"
       ELSE boot' = "open" /\ UNCHANGED <<osKey, cached>>
  /\ UNCHANGED <<storage, keychain, made, mem, state, loaded, usable, saving, forgetting, cleared, budget>>

\* The legacy key is dropped once it was seen to open a stored value.  The
\* value tried is one that is sealed.
DropLegacyKey ==
  /\ boot = "witness"
  /\ boot' = "open"
  /\ \/ /\ ~ToOpen
        /\ oldKey' = FALSE
        /\ UNCHANGED os
     \/ /\ ToOpen
        /\ settingsKey
        /\ \E k \in DOMAIN loaded :
             Sealed(loaded[k]) /\ oldKey' = (oldKey /\ loaded[k].under # KeyAfter)
     \/ /\ ToOpen
        /\ KeyOutOfReach
        /\ UNCHANGED <<oldKey, os>>
  /\ UNCHANGED <<disk, mem, state, loaded, usable, saving, forgetting, cleared, budget>>

\* Nothing to open: a fresh profile, or a blob without a sealed value.
NothingToOpen ==
  /\ boot = "open"
  /\ ~ToOpen
  /\ boot' = "ready"
  /\ state' = IF loaded # Nothing /\ usable THEN "ok" ELSE state
  /\ mem' = IF loaded # Nothing THEN loaded ELSE mem
  /\ UNCHANGED <<storage, os, loaded, usable, saving, forgetting, cleared, budget>>

\* The values open together, or the copy in memory is blanked and the stored
\* one is left alone.
OpenStored ==
  /\ boot = "open"
  /\ ToOpen
  /\ boot' = "ready"
  /\ \/ /\ usable /\ settingsKey /\ Opens(loaded, KeyAfter)
        /\ mem' = SettingsOpen(loaded)
        /\ state' = "ok"
     \/ /\ usable
        /\ \/ settingsKey /\ ~Opens(loaded, KeyAfter)
           \/ KeyOutOfReach /\ UNCHANGED os
        /\ mem' = blankSealed(loaded)
        /\ state' = "locked"
     \/ /\ ~usable
        /\ mem' = blankSealed(loaded)
        /\ UNCHANGED <<state, os>>
  /\ UNCHANGED <<storage, loaded, usable, saving, forgetting, cleared, budget>>

-----------------------------------------------------------------------------
(* settingsStore.js. *)

\* What the dialogs and the panels save: the settings with one slot typed
\* over, cleared, added or removed, or none.
Edits(cred) ==
  {cred} \cup {[cred EXCEPT ![k] = Clear(s)] : k \in DOMAIN cred, s \in Secrets}
         \cup {[cred EXCEPT ![k] = Blank] : k \in DOMAIN cred}
         \cup {[k \in DOMAIN cred \cup {n} |-> IF k = n THEN Clear(s) ELSE cred[k]]
                 : n \in Keyed \ DOMAIN cred, s \in Secrets}
         \cup {[k \in DOMAIN cred \ {n} |-> cred[k]] : n \in Keyed \cap DOMAIN cred}

Leaves(new) == {k \in DOMAIN new : new[k] = Blank /\ (k \in DOMAIN mem => mem[k] # Blank)}

\* Decided by the state and never by the values.  Without the key the sealed
\* values of the blob are carried forward, in one step.
save(new) ==
  /\ mem' = new
  /\ cleared' = cleared \cup Leaves(new)
  /\ IF state = "ok"
       THEN saving' = saving \cup {new} /\ UNCHANGED disk
       ELSE disk' = carryForward(new, disk) /\ UNCHANGED saving
  /\ Spend("save")
  /\ UNCHANGED <<oldKey, os, state, boot, loaded, usable, forgetting>>

Save == \E new \in Edits(mem) : save(new)

\* The answer of SettingsSeal: the sealed settings are written, or the stored
\* blob is left as it is.  Answers may come in any order.
SealAnswered ==
  \E new \in saving :
    /\ saving' = saving \ {new}
    /\ settingsKey
    /\ disk' = SettingsSeal(new, KeyAfter)
    /\ UNCHANGED <<oldKey, mem, state, boot, loaded, usable, forgetting, cleared, budget>>

SealFailed ==
  \E new \in saving :
    /\ saving' = saving \ {new}
    /\ KeyOutOfReach
    /\ UNCHANGED <<storage, os, mem, state, boot, loaded, usable, forgetting, cleared, budget>>

\* The blob and the legacy key go at once, the key of Go when it answers, and
\* only then is the store back at its defaults.
Reset ==
  /\ ~forgetting /\ Spend("save")
  /\ disk' = Nothing /\ oldKey' = FALSE
  /\ forgetting' = TRUE
  /\ UNCHANGED <<os, mem, state, boot, loaded, usable, saving, cleared>>

Defaults == [k \in Fixed |-> Clear(Public)]

ForgetAnswered ==
  /\ forgetting
  /\ forgetting' = FALSE
  /\ mem' = Defaults
  /\ cached' = Nothing
  /\ osKey' = IF keychain = "open" THEN Nothing ELSE osKey
  /\ cleared' = Slots
  /\ UNCHANGED <<storage, keychain, made, state, boot, loaded, usable, saving, budget>>

-----------------------------------------------------------------------------
(* The environment. *)

Flip ==
  /\ Spend("flip")
  /\ keychain' = CASE keychain = "open"    -> "refuses"
                   [] keychain = "refuses" -> "open"
                   [] OTHER                -> keychain
  /\ keychain # "absent"
  /\ UNCHANGED <<storage, osKey, made, cached, page, cleared>>

\* A new page: the store starts with the blob as it is stored.
Start(blob) ==
  /\ mem' = IF blob = Nothing THEN Defaults ELSE blob
  /\ loaded' = blob
  /\ state' = "ok"
  /\ boot' = "status"
  /\ usable' = FALSE
  /\ saving' = {}
  /\ forgetting' = FALSE

Restart ==
  /\ Spend("restart")
  /\ cached' = Nothing
  /\ Start(disk)
  /\ cleared' = {k \in Slots : disk # Nothing /\ k \in DOMAIN disk => disk[k] = Blank}
  /\ UNCHANGED <<storage, keychain, osKey, made>>

Init ==
  /\ \E s \in Secrets :
       \/ disk = Nothing /\ oldKey = FALSE /\ osKey = Nothing
       \/ disk = [k \in Slots |-> [secret |-> s, under |-> Legacy]] /\ oldKey = TRUE /\ osKey = Nothing
       \/ disk = [k \in Slots |-> [secret |-> s, under |-> 1]] /\ oldKey = FALSE /\ osKey = 1
  /\ made = IF osKey = Nothing THEN 0 ELSE 1
  /\ keychain \in {"open", "refuses", "absent"}
  /\ cached = Nothing
  /\ mem = IF disk = Nothing THEN Defaults ELSE disk
  /\ loaded = disk
  /\ state = "ok" /\ boot = "status" /\ usable = FALSE
  /\ saving = {} /\ forgetting = FALSE
  /\ cleared = {k \in Slots : disk = Nothing}
  /\ budget = [save |-> MaxSaves, flip |-> MaxFlips, restart |-> MaxRestarts]

Next ==
  \/ refreshStatus \/ AdoptKey \/ DropLegacyKey \/ NothingToOpen \/ OpenStored
  \/ Save \/ SealAnswered \/ SealFailed
  \/ Reset \/ ForgetAnswered
  \/ Flip \/ Restart

Spec == Init /\ [][Next]_vars

-----------------------------------------------------------------------------
TypeOK ==
  /\ disk \in Cred \cup {Nothing} /\ loaded \in Cred \cup {Nothing} /\ mem \in Cred
  /\ saving \subseteq Cred
  /\ oldKey \in BOOLEAN /\ usable \in BOOLEAN /\ forgetting \in BOOLEAN
  /\ keychain \in {"open", "refuses", "absent"}
  /\ osKey \in Keys \cup {Nothing} /\ cached \in Keys \cup {Nothing} /\ made \in 0..MaxKeys
  /\ state \in {"ok", "locked", "nostore"}
  /\ boot \in {"status", "adopt", "witness", "open", "ready"}
  /\ cleared \subseteq Slots

\* What is stored is sealed, whatever failed: no path writes a credential in
\* the clear to localStorage (crypto.js encryptSettings, settingsStore.save).
NeverStoredInClear ==
  disk # Nothing => \A k \in DOMAIN disk : disk[k] = Blank \/ Sealed(disk[k])

\* A sealed string never goes on the wire as a community: once the start is
\* over, no credential in use is a sealed one (decryptSettings, blankSealed).
NothingSealedInUse ==
  boot = "ready" => ~HasSealed(mem)

\* A stored credential becomes blank only where the operator left it blank: a
\* keychain that refuses, at the start or half way through a save, loses none
\* (encryptSettings, carryForward).
BlanksNothing ==
  disk # Nothing /\ disk' # Nothing =>
    \A k \in DOMAIN disk \cap DOMAIN disk' :
      disk[k] # Blank /\ disk'[k] = Blank => k \in cleared'
NeverBlankedBehindYou == [][BlanksNothing]_vars
=============================================================================
