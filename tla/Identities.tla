----------------------------- MODULE Identities -----------------------------
(***************************************************************************)
(* Who a target is asked as: the list of targets, their overrides, groups  *)
(* and credential profiles (frontend/src/TargetManager.svelte,             *)
(* TargetOverrideForm.svelte, settings/CredentialProfiles.svelte,          *)
(* SettingsModal.svelte, utils/targets.js, utils/credentialProfiles.js).   *)
(*                                                                         *)
(* Overrides and group assignments are kept by address, profiles by id, in *)
(* one settings object that every dialog replaces whole.  The target       *)
(* manager saves each edit at once; the settings dialog edits a copy, and  *)
(* the profile editor a draft over that copy.                              *)
(*                                                                         *)
(* A credential is a version and a secret; everything else a request says  *)
(* about who it is goes with them.                                         *)
(***************************************************************************)
EXTENDS Integers, FiniteSets, SequencesExt

CONSTANTS
  Addresses,
  Loopback,    \* the target a fresh profile has
  NamedPort,   \* the addresses that name their port, as 127.0.0.1:1162 does
  Ids,         \* profile ids
  Secrets,
  Public,      \* the community a fresh profile has
  None,
  MaxTargets,  \* bound: lines in the list
  MaxEdits     \* bound: edits

Default  == "default"                  \* DEFAULT_REF, and the default group
Versions == {"v2c", "v3"}
Typed    == Secrets \cup {""}
Identity == [version : Versions, secret : Typed]

\* An override: a profile, or credentials of its own, and a port or not.
Bare == [profile |-> None, own |-> None, port |-> FALSE]

VARIABLES
  settings,  \* settingsStore: targets, overrides, groups, assigned, profiles, identity
  work,      \* the copy the settings dialog edits, or None
  editing,   \* the profile editor: draft, isNew, assigned; or None
  touched,   \* the addresses the edit, or the edits of the dialog so far, are about
  saved,     \* the settings before and after the last save of the dialog
  edits      \* how many edits were made

vars == <<settings, work, editing, touched, saved, edits>>

-----------------------------------------------------------------------------
(* credentialProfiles.js and targets.js. *)

Lines(s)     == ToSet(s.targets)
Listed(s)    == {t.address : t \in Lines(s)}
OverrideOf(overrides, a) == IF a \in DOMAIN overrides THEN overrides[a] ELSE Bare

\* A profile id that names nothing finds nothing.
findProfile(s, id) ==
  IF \E p \in s.profiles : p.id = id THEN CHOOSE p \in s.profiles : p.id = id ELSE None

profileIdentity(p) == [version |-> p.version, secret |-> p.secret]

\* From one place: the profile, the override's own, or the defaults.
getEffectiveSettings(s, a) ==
  LET ov == OverrideOf(s.overrides, a)
      p  == findProfile(s, ov.profile)
  IN [who  |-> IF p # None THEN profileIdentity(p) ELSE IF ov.own # None THEN ov.own ELSE s.identity,
      ref  |-> IF p # None THEN p.id ELSE IF ov.own # None THEN "" ELSE Default,
      port |-> IF a \in NamedPort THEN a ELSE IF ov.port THEN "override" ELSE Default]

\* One request per connection, in the order the connections are first met.
groupTargets(s, addresses) ==
  LET eff(a) == getEffectiveSettings(s, a)
      firsts == SelectSeq([i \in DOMAIN addresses |-> i],
                  LAMBDA i : \A j \in 1..(i - 1) : eff(addresses[j]) # eff(addresses[i]))
  IN [g \in DOMAIN firsts |->
        [settings |-> eff(addresses[firsts[g]]),
         targets  |-> SelectSeq(addresses, LAMBDA a : eff(a) = eff(addresses[firsts[g]]))]]

getTargetsAsArray(s) ==
  LET on == SelectSeq(s.targets, LAMBDA t : t.enabled) IN [i \in DOMAIN on |-> on[i].address]

Without(f, S) == [k \in DOMAIN f \ S |-> f[k]]
With(f, k, v) == [x \in DOMAIN f \cup {k} |-> IF x = k THEN v ELSE f[x]]

\* Some overrides replaced. One with nothing left in it is dropped.
Overridden(overrides, by) ==
  LET all == [a \in DOMAIN overrides \cup DOMAIN by |-> IF a \in DOMAIN by THEN by[a] ELSE overrides[a]]
  IN [a \in {b \in DOMAIN all : all[b] # Bare} |-> all[a]]

SetOverride(overrides, a, ov) == Overridden(overrides, [b \in {a} |-> ov])

\* A profile replaces a target's own credentials; no profile leaves the port.
\* A plausible bug: to hand one target back is to hand back all.
HandBackAll(overrides, addresses, id) ==
  IF id = None THEN <<>> ELSE Overridden(overrides, [a \in addresses |-> [Bare EXCEPT !.profile = id]])

assignProfile(overrides, addresses, id) ==
  Overridden(overrides,
    [a \in addresses |->
       LET ov == OverrideOf(overrides, a)
       IN IF id = None THEN [ov EXCEPT !.profile = None] ELSE [ov EXCEPT !.profile = id, !.own = None]])

profileUsage(s, id) == {a \in DOMAIN s.overrides : s.overrides[a].profile = id}

\* Its targets go back to the default identifiers.
removeProfile(s, id) ==
  [s EXCEPT !.profiles  = {p \in @ : p.id # id},
            !.overrides = assignProfile(@, profileUsage(s, id), None)]

\* The errors that keep a profile from being applied.
Valid(p, profiles) == p.secret # "" /\ \A q \in profiles : q.id # p.id => q.name # p.name

\* A plausible bug: only the profiles are compared.
ChangedProfiles(before, after) ==
  {p.id : p \in {q \in after.profiles :
     LET old == findProfile(before, q.id) IN old # None /\ profileIdentity(old) # profileIdentity(q)}}

\* Which identities a save changed, for the sessions that follow them.  The
\* version of the default ones is the header's and not compared.
changedCredentialRefs(before, after) ==
  (IF before.identity.secret # after.identity.secret THEN {Default} ELSE {})
  \cup {p.id : p \in {q \in after.profiles :
          LET old == findProfile(before, q.id) IN old # None /\ profileIdentity(old) # profileIdentity(q)}}

-----------------------------------------------------------------------------
(* TargetManager.svelte: every edit is saved at once, and only while no      *)
(* other dialog is open.                                                     *)

\* newProfileId: one nobody has, being random; which one does not matter.
Known(s) == {p.id : p \in s.profiles} \cup {s.overrides[a].profile : a \in DOMAIN s.overrides}
NewIds ==
  LET free == Ids \ (Known(settings) \cup IF work = None THEN {} ELSE Known(work))
  IN IF free = {} THEN {} ELSE {CHOOSE id \in free : TRUE}

Groups(s) == {Default} \cup s.groups

Edit(s, about) ==
  /\ edits < MaxEdits /\ edits' = edits + 1
  /\ work = None
  /\ settings' = s
  /\ touched' = about
  /\ saved' = None
  /\ UNCHANGED <<work, editing>>

Line(a) == [address |-> a, enabled |-> TRUE]

\* An address that is in the list already is added again.
addTarget ==
  \E a \in Addresses, g \in Groups(settings), p \in {None} \cup {q.id : q \in settings.profiles} :
    /\ Len(settings.targets) < MaxTargets
    /\ Edit([settings EXCEPT
         !.targets   = Append(@, Line(a)),
         !.assigned  = With(@, a, g),
         !.overrides = IF p = None THEN @ ELSE assignProfile(@, {a}, p)], {a})

Drop(s, S, addresses) ==
  [s EXCEPT !.targets   = [i \in 1..Cardinality(S) |-> s.targets[SetToSortSeq(S, <)[i]]],
            !.overrides = Without(@, addresses),
            !.assigned  = Without(@, addresses)]

removeTarget ==
  \E i \in DOMAIN settings.targets :
    LET a == settings.targets[i].address
    IN Edit(Drop(settings, DOMAIN settings.targets \ {i}, {a}), {a})

toggleTarget ==
  \E i \in DOMAIN settings.targets :
    Edit([settings EXCEPT !.targets[i].enabled = ~@], {})

\* The override and the group move with the address.
saveEditAddress ==
  \E i \in DOMAIN settings.targets, a \in Addresses :
    LET old == settings.targets[i].address
        move(f) == IF old \in DOMAIN f THEN With(Without(f, {old}), a, f[old]) ELSE f
    IN /\ a # old
       /\ \A j \in DOMAIN settings.targets : settings.targets[j].address # a
       /\ Edit([settings EXCEPT !.targets[i].address = a,
                                !.overrides = move(@), !.assigned = move(@)], {a, old})

InGroup(s, t, g) ==
  g = "all" \/ g = (IF t.address \in DOMAIN s.assigned THEN s.assigned[t.address] ELSE Default)

deleteAllInGroup ==
  \E g \in {"all"} \cup Groups(settings) :
    LET shown == {i \in DOMAIN settings.targets : InGroup(settings, settings.targets[i], g)}
        about == {settings.targets[i].address : i \in shown}
    IN /\ shown # {}
       /\ Edit(Drop(settings, DOMAIN settings.targets \ shown, about), about)

\* Addresses that are listed, or named twice, are skipped.
newTargets(lines) ==
  LET new == SelectSeq(lines, LAMBDA a : a \notin Listed(settings))
  IN IF Len(new) = 2 /\ new[1] = new[2] THEN <<new[1]>> ELSE new

imported(once, g) ==
  [settings EXCEPT
     !.targets  = @ \o [i \in DOMAIN once |-> Line(once[i])],
     !.assigned = [a \in DOMAIN @ \cup ToSet(once) |-> IF a \in ToSet(once) THEN g ELSE @[a]]]

importTargets ==
  \E lines \in {<<a>> : a \in Addresses} \cup {<<a, b>> : a, b \in Addresses}, g \in Groups(settings) :
    /\ Len(settings.targets) + Len(newTargets(lines)) <= MaxTargets
    /\ Edit(imported(newTargets(lines), g), {})

\* The form's one choice of identity, and its transport.  A target that names
\* its port takes no other.
FormAnswers(s, a) ==
  {[profile |-> p, own |-> own, port |-> port] :
     p \in {None} \cup {q.id : q \in s.profiles},
     own \in {None} \cup [version : Versions, secret : Secrets],
     port \in IF a \in NamedPort THEN {FALSE} ELSE BOOLEAN}

saveOverride ==
  \E a \in Listed(settings) : \E ov \in FormAnswers(settings, a) :
    /\ ov.profile = None \/ ov.own = None
    /\ Edit([settings EXCEPT !.overrides = SetOverride(@, a, ov)], {a})

clearOverride ==
  \E a \in Listed(settings) : Edit([settings EXCEPT !.overrides = Without(@, {a})], {a})

\* What the target authenticates with becomes a profile, in one save.
saveOverrideAsProfile ==
  \E a \in Listed(settings), id \in NewIds, name \in Ids :
    LET own == OverrideOf(settings.overrides, a).own
        who == IF own # None THEN own ELSE settings.identity
        p   == [id |-> id, name |-> name, version |-> who.version, secret |-> who.secret, traps |-> TRUE]
    IN /\ Valid(p, settings.profiles)
       /\ Edit([settings EXCEPT
            !.profiles  = @ \cup {p},
            !.overrides = With(@, a, [OverrideOf(@, a) EXCEPT !.profile = id, !.own = None])], {a})

addGroup == settings.groups = {} /\ Edit([settings EXCEPT !.groups = {"grp"}], {})

deleteGroup ==
  \E g \in settings.groups :
    Edit([settings EXCEPT
       !.groups   = @ \ {g},
       !.assigned = [a \in DOMAIN @ |-> IF @[a] = g THEN Default ELSE @[a]]], {})

moveTargetToGroup ==
  \E a \in Listed(settings), g \in Groups(settings) :
    Edit([settings EXCEPT !.assigned = With(@, a, g)], {})

-----------------------------------------------------------------------------
(* The settings dialog and its profile editor. *)

OpenDialog ==
  /\ work = None
  /\ work' = settings
  /\ editing' = None /\ touched' = {} /\ saved' = None
  /\ UNCHANGED <<settings, edits>>

\* An edit of the copy: nothing reaches the store.
Rework(w, about) ==
  /\ work # None
  /\ edits < MaxEdits /\ edits' = edits + 1
  /\ work' = w
  /\ touched' = touched \cup about /\ saved' = None
  /\ UNCHANGED settings

OnDefaults(s) == {a \in Addresses : getEffectiveSettings(s, a).ref = Default}

EditDefaults ==
  \E s \in Secrets :
    Rework([work EXCEPT !.identity.secret = s], OnDefaults(work)) /\ UNCHANGED editing

toggleTraps ==
  \E p \in work.profiles :
    Rework([work EXCEPT !.profiles = (@ \ {p}) \cup {[p EXCEPT !.traps = ~@]}], {}) /\ UNCHANGED editing

\* A new profile, the one of a row, or a copy that starts with no targets.
open ==
  /\ work # None /\ editing = None
  /\ \/ \E id \in NewIds, name \in Ids, v \in Versions, s \in Typed :
          editing' = [draft |-> [id |-> id, name |-> name, version |-> v, secret |-> s, traps |-> TRUE],
                      isNew |-> TRUE, assigned |-> {}]
     \/ \E p \in work.profiles, v \in Versions, s \in Typed :
          editing' = [draft |-> [p EXCEPT !.version = v, !.secret = s],
                      isNew |-> FALSE, assigned |-> profileUsage(work, p.id)]
  /\ saved' = None
  /\ UNCHANGED <<settings, touched, work, edits>>

toggleAssigned ==
  /\ editing # None /\ work # None
  /\ \E a \in Listed(work) :
       editing' = [editing EXCEPT !.assigned = IF a \in @ THEN @ \ {a} ELSE @ \cup {a}]
  /\ saved' = None
  /\ edits < MaxEdits /\ edits' = edits + 1
  /\ UNCHANGED <<settings, touched, work>>

\* Every ticked target gets the profile; every other that had it goes back.
apply ==
  /\ editing # None /\ work # None
  /\ LET p       == editing.draft
         holders == profileUsage(work, p.id)
         given   == assignProfile(work.overrides, (editing.assigned \cap Listed(work)) \ holders, p.id)
     IN /\ Valid(p, work.profiles)
        /\ Rework([work EXCEPT
             !.profiles  = IF editing.isNew THEN @ \cup {p} ELSE {IF q.id = p.id THEN p ELSE q : q \in @},
             !.overrides = assignProfile(given, (holders \cap Listed(work)) \ editing.assigned, None)],
             editing.assigned \cup holders)
  /\ editing' = None

remove ==
  \E p \in work.profiles :
    /\ Rework(removeProfile(work, p.id), profileUsage(work, p.id))
    /\ editing' = IF editing # None /\ editing.draft.id = p.id THEN None ELSE editing

CloseEditor ==
  /\ editing # None /\ work # None
  /\ editing' = None /\ saved' = None
  /\ UNCHANGED <<settings, touched, work, edits>>

handleSave ==
  /\ work # None
  /\ settings' = work
  /\ saved' = [before |-> settings, after |-> work]
  /\ work' = None /\ editing' = None
  /\ UNCHANGED <<touched, edits>>

handleCancel ==
  /\ work # None
  /\ work' = None /\ editing' = None /\ touched' = {} /\ saved' = None
  /\ UNCHANGED <<settings, edits>>

\* Any save behind the dialog replaces its copy; an open draft stays.
StoreChanged ==
  /\ work # None /\ edits < MaxEdits /\ edits' = edits + 1
  /\ work' = settings
  /\ touched' = {} /\ saved' = None
  /\ UNCHANGED <<settings, editing>>

-----------------------------------------------------------------------------
Fresh ==
  [targets |-> <<Line(Loopback)>>, overrides |-> <<>>, groups |-> {}, assigned |-> <<>>,
   profiles |-> {}, identity |-> [version |-> "v2c", secret |-> Public]]

\* A list of two devices, one asked as itself and one by a profile.
Configured ==
  \E a \in Addresses \ {Loopback}, id \in Ids, s \in Secrets \ {Public} :
    settings = [targets   |-> <<Line(Loopback), Line(a)>>,
                overrides |-> Loopback :> [Bare EXCEPT !.own = [version |-> "v2c", secret |-> s]]
                                @@ a :> [Bare EXCEPT !.profile = id],
                groups |-> {"grp"}, assigned |-> a :> "grp",
                profiles |-> {[id |-> id, name |-> id, version |-> "v3", secret |-> s, traps |-> TRUE]},
                identity |-> [version |-> "v2c", secret |-> Public]]

Init ==
  /\ settings = Fresh \/ Configured
  /\ work = None /\ editing = None
  /\ touched = {} /\ saved = None
  /\ edits = 0

Manager ==
  \/ addTarget \/ removeTarget \/ toggleTarget \/ saveEditAddress \/ deleteAllInGroup
  \/ importTargets \/ saveOverride \/ clearOverride \/ saveOverrideAsProfile
  \/ addGroup \/ deleteGroup \/ moveTargetToGroup

Dialog ==
  \/ OpenDialog \/ open \/ toggleAssigned \/ apply \/ CloseEditor
  \/ handleSave \/ handleCancel \/ StoreChanged
  \/ work # None /\ (EditDefaults \/ toggleTraps \/ remove)

Next == Manager \/ Dialog

Spec == Init /\ [][Next]_vars

-----------------------------------------------------------------------------
\* An edit of one target, or of one profile, leaves every other target asked
\* as it was before: overrides are carried, dropped and handed back by address
\* alone (removeTarget, saveEditAddress, apply, removeProfile).
KeepsOthers ==
  \A a \in Addresses \ touched' :
    getEffectiveSettings(settings', a) = getEffectiveSettings(settings, a)
OthersKeepTheirIdentity == [][KeepsOthers]_vars

\* A session is told to follow exactly when what its reference stands for has
\* changed: a change missed leaves it asking with a rotated passphrase, one too
\* many restarts it (changedCredentialRefs).
FollowedIffChanged ==
  saved # None =>
    \A a \in Addresses :
      LET old == getEffectiveSettings(saved.before, a)
          new == getEffectiveSettings(saved.after, a)
      IN old.ref = new.ref /\ new.ref # "" =>
           (new.ref \in changedCredentialRefs(saved.before, saved.after) <=> old.who # new.who)

\* Every enabled line is in one request, and that request goes out with the
\* identity and the port the line resolves to (groupTargets).
AskedAsConfigured ==
  LET asked  == getTargetsAsArray(settings)
      groups == groupTargets(settings, asked)
  IN /\ FoldSeq(LAMBDA g, n : n + Len(g.targets), 0, groups) = Len(asked)
     /\ \A g \in ToSet(groups) : \A a \in ToSet(g.targets) : g.settings = getEffectiveSettings(settings, a)

\* A target never names a profile that is not there (TargetManager.svelte:394).
ProfilesExist ==
  \A a \in DOMAIN settings.overrides :
    settings.overrides[a].profile # None => findProfile(settings, settings.overrides[a].profile) # None
=============================================================================
