---------------------------- MODULE SimulatorEditor ----------------------------
(***************************************************************************)
(* The editor of a simulated device (frontend/src/SimulatorModal.svelte,   *)
(* utils/simulator.js): the form and what it would be refused for, the     *)
(* payload it becomes, what Go makes of it (internal/app/simulator.go,     *)
(* pkg/simulator/device.go, notify.go), and the device added as a target.  *)
(*                                                                         *)
(* A passphrase is its length; a community, a name, an OID and a value are *)
(* told apart as far as the checks tell them apart.                        *)
(***************************************************************************)
EXTENDS Integers, Sequences, FiniteSets, SequencesExt

CONSTANTS
  Names,          \* what a user may be called
  Passes,         \* lengths of passphrases
  Communities,
  Oids, Agent,    \* the OIDs typed, and the one under an agent's subtree
  Values,         \* "number", "text", "huge"
  Models,         \* Models[m]: [params: the range of each, sends: its notifications]
  Saved,          \* the device there is, as it was saved
  MIN_PASSPHRASE, MAX_EVERY,
  None,           \* no device, and an empty field
  MaxRows, MaxClicks      \* bounds

VARIABLES
  form,      \* the device being edited, or None
  tab,       \* the editor's tab
  device,    \* the device as Go keeps it, without its secrets
  creds,     \* its secrets, in the credential store
  payload,   \* bookkeeping: what was last saved
  target,    \* the override the device gave its target
  clicks

vars == <<form, tab, device, creds, payload, target, clicks>>

Click == clicks < MaxClicks /\ clicks' = clicks + 1

-----------------------------------------------------------------------------
(* What a form holds. *)

blankV3(n) == [user |-> n, level |-> "AuthPriv", auth |-> 0, priv |-> 0, write |-> FALSE]
blankDestination == [id |-> None, host |-> "here", version |-> "v2c", inform |-> FALSE, community |-> "public", user |-> None, engine |-> None]
blankSchedule == [sends |-> None, every |-> 60]
blankOverride == [oid |-> None, type |-> "OctetString", value |-> None, hex |-> FALSE]

blankDevice(m) ==
  [id |-> None, name |-> "given", model |-> m, port |-> 1161, versions |-> {"v2c"},
   community |-> "public", write |-> None, users |-> <<blankV3("simulator")>>,
   dests |-> <<>>, schedules |-> <<>>, params |-> [p \in {} |-> None], overrides |-> <<>>]

usesAuth(l) == l \in {"AuthNoPriv", "AuthPriv"}
usesPriv(l) == l = "AuthPriv"
usesCommunity(vs) == vs \cap {"v1", "v2c"} # {}
Numeric == {"Integer", "Counter32", "Gauge32", "TimeTicks", "Counter64"}

\* Some of the fields of a sequence's elements, in order.
Each(s, Op(_)) == [i \in DOMAIN s |-> Op(s[i])]
namesOf(s) == {s[i].user : i \in DOMAIN s}
Repeats(s, v) == Cardinality({i \in DOMAIN s : s[i] = v}) > 1

-----------------------------------------------------------------------------
(* What the form refuses. *)

userProblem(u, users) ==
  \/ u.user = None \/ Repeats(Each(users, LAMBDA x : x.user), u.user)
  \/ usesAuth(u.level) /\ u.auth < MIN_PASSPHRASE
  \/ usesPriv(u.level) /\ u.priv < MIN_PASSPHRASE

\* A plausible bug: the users of the form are looked in, whichever versions the
\* device answers.
UsersAnyway(t, d) ==
  \/ t.host = None
  \/ IF t.version = "v3" THEN t.user \notin namesOf(d.users) \/ (t.inform /\ t.engine = "bad")
                         ELSE t.community = None

destinationProblems(t, d) ==
  \/ t.host = None
  \/ IF t.version = "v3"
       THEN "v3" \notin d.versions \/ t.user \notin namesOf(d.users) \/ (t.inform /\ t.engine = "bad")
       ELSE t.community = None

GivenTwice(o, i, all) == \E j \in 1..(i - 1) : all[j].oid = o.oid

overrideProblem(o, i, all) ==
  \/ o.oid \in {None, Agent} \/ GivenTwice(o, i, all)
  \/ o.type \in Numeric /\ o.value \notin {"number", "huge"}

deviceProblems(d) ==
  LET wrong(f) ==
        CASE f = "name"           -> d.name = None
          [] f = "port"           -> d.port \notin 1..65535
          [] f = "versions"       -> d.versions = {}
          [] f = "community"      -> usesCommunity(d.versions) /\ d.community = None
          [] f = "writeCommunity" -> usesCommunity(d.versions) /\ d.write # None /\ d.write = d.community
          [] f = "noUser"         -> "v3" \in d.versions /\ d.users = <<>>
          [] f = "users"          -> "v3" \in d.versions /\ \E u \in ToSet(d.users) : userProblem(u, d.users)
          [] f = "destinations"   -> \E t \in ToSet(d.dests) : destinationProblems(t, d)
          [] f = "schedules"      -> \E s \in ToSet(d.schedules) : s.every \notin 1..MAX_EVERY
          [] f = "params"         -> \E p \in DOMAIN d.params \cap DOMAIN Models[d.model].params :
                                       d.params[p] # None /\ d.params[p] \notin Models[d.model].params[p]
          [] f = "overrides"      -> \E i \in DOMAIN d.overrides : overrideProblem(d.overrides[i], i, d.overrides)
  IN {f \in {"name", "port", "versions", "community", "writeCommunity", "noUser", "users",
             "destinations", "schedules", "params", "overrides"} : wrong(f)}

EDITOR_TABS == [identity |-> {"name", "port"},
                access   |-> {"versions", "community", "writeCommunity", "noUser", "users"},
                traps    |-> {"destinations", "schedules"},
                data     |-> {"params", "overrides"},
                faults   |-> {}]

tabsWithProblems(ps) == {t \in DOMAIN EDITOR_TABS : EDITOR_TABS[t] \cap ps # {}}

\* The problems the tab being looked at says in words.
Said(d, t) == {f \in deviceProblems(d) \cap EDITOR_TABS[t] : f = "schedules" => d.dests # <<>>}

-----------------------------------------------------------------------------
(* What is sent. *)

paramsPayload(ps) == LET given == {p \in DOMAIN ps : ps[p] # None} IN [p \in given |-> ps[p]]

devicePayload(d) ==
  [d EXCEPT !.community = IF usesCommunity(d.versions) THEN @ ELSE None,
            !.write = IF usesCommunity(d.versions) THEN @ ELSE None,
            !.users = IF "v3" \in d.versions THEN @ ELSE <<>>,
            !.params = paramsPayload(@),
            !.overrides = Each(@, LAMBDA o : [o EXCEPT !.hex = @ /\ o.type = "OctetString"]),
            !.dests = Each(@, LAMBDA t :
                        [t EXCEPT !.inform = @ /\ t.version # "v1",
                                  !.community = IF t.version = "v3" THEN None ELSE @,
                                  !.user = IF t.version = "v3" THEN @ ELSE None,
                                  !.engine = IF t.version = "v3" /\ t.inform THEN @ ELSE None])]

previewPayload(d) ==
  LET p == devicePayload(d)
  IN [p EXCEPT !.community = None, !.write = None,
               !.users = Each(@, LAMBDA u : [u EXCEPT !.auth = 0, !.priv = 0]),
               !.dests = Each(@, LAMBDA t : [t EXCEPT !.community = None])]

-----------------------------------------------------------------------------
(* What Go makes of it. *)

\* The first of these is what the error names.
checkUser(u) ==
  /\ u.user # None
  /\ usesAuth(u.level) => u.auth >= MIN_PASSPHRASE
  /\ usesPriv(u.level) => u.priv >= MIN_PASSPHRASE

checkDestination(t, users) ==
  /\ t.host # None
  /\ IF t.version = "v3" THEN t.user \in namesOf(users)
                         ELSE t.community # None /\ (t.version = "v1" => ~t.inform)
  /\ t.engine # "bad"

checkParams(m, ps) == \A p \in DOMAIN ps : p \in DOMAIN Models[m].params /\ ps[p] \in Models[m].params[p]

\* A value Go can build an object from.
checkOverride(o) ==
  CASE o.hex              -> o.value \in {"number", None}
    [] o.type \in Numeric -> o.value = "number"
    [] OTHER              -> TRUE

\* Each field by which Go would refuse a device, all of them.
Validate(p) ==
  LET v3    == "v3" \in p.versions
      wrong(f) ==
        CASE f = "name"           -> p.name = None
          [] f = "port"           -> p.port \notin 1..65535
          [] f = "versions"       -> p.versions = {}
          [] f = "community"      -> usesCommunity(p.versions) /\ p.community = None
          [] f = "writeCommunity" -> p.write # None /\ (~usesCommunity(p.versions) \/ p.write = p.community)
          [] f = "noUser"         -> v3 /\ p.users = <<>>
          [] f = "users"          -> v3 /\ \E u \in ToSet(p.users) :
                                        ~checkUser(u) \/ Repeats(Each(p.users, LAMBDA x : x.user), u.user)
          [] f = "destinations"   -> \E t \in ToSet(p.dests) :
                                        ~checkDestination(t, IF v3 THEN p.users ELSE <<>>)
          [] f = "schedules"      -> \E s \in ToSet(p.schedules) :
                                        s.every \notin 1..MAX_EVERY \/ s.sends \notin {None} \cup Models[p.model].sends
          [] f = "params"         -> ~checkParams(p.model, p.params)
          [] f = "overrides"      -> \/ \E o \in ToSet(p.overrides) : o.oid \in {None, Agent}
                                     \/ \E o \in ToSet(p.overrides) : Repeats(Each(p.overrides, LAMBDA x : x.oid), o.oid)
                                     \/ \E o \in ToSet(p.overrides) : o.type \in Numeric /\ o.value \notin {"number", "huge"}
          [] f = "value"          -> \E o \in ToSet(p.overrides) : ~checkOverride(o)
  IN {f \in {"name", "port", "versions", "community", "writeCommunity", "noUser", "users", "destinations",
             "schedules", "params", "overrides", "value"} : wrong(f)}

WithoutSecrets(p) == previewPayload(p)

\* Users by name, destinations by the ID each is given.
Secrets(p) == [community |-> p.community, write |-> p.write,
               users |-> [n \in namesOf(p.users) |->
                            LET u == p.users[CHOOSE i \in DOMAIN p.users : p.users[i].user = n]
                            IN [auth |-> u.auth, priv |-> u.priv]],
               dests |-> [i \in DOMAIN p.dests |-> p.dests[i].community]]

\* A destination is given its ID, here its place.
Given(p) == [p EXCEPT !.id = "device", !.dests = [i \in DOMAIN @ |-> [@[i] EXCEPT !.id = i]]]

-----------------------------------------------------------------------------
(* The gestures. *)

Keeps == UNCHANGED <<device, creds, payload, target>>

newDevice ==
  /\ Click /\ form = None
  /\ \E m \in DOMAIN Models : form' = blankDevice(m)
  /\ tab' = "identity" /\ Keeps

\* A plausible bug: every user is given the first one's passphrases.
OfTheFirst(c, n) == c.users[CHOOSE x \in DOMAIN c.users : TRUE]

OfTheUser(c, n) == c.users[n]

editableDevice(v, c) ==
  [v EXCEPT !.community = c.community, !.write = c.write,
            !.users = IF @ = <<>> THEN <<blankV3("simulator")>>
                      ELSE Each(@, LAMBDA u : [u EXCEPT !.auth = OfTheUser(c, u.user).auth,
                                                        !.priv = OfTheUser(c, u.user).priv]),
            !.dests = Each(@, LAMBDA t : [t EXCEPT !.community = c.dests[t.id]])]

edit ==
  /\ Click /\ form = None
  /\ form' = editableDevice(device, creds) /\ tab' = "identity" /\ Keeps

cancel ==
  /\ Click /\ form # None
  /\ form' = None /\ UNCHANGED tab /\ Keeps

openTab ==
  /\ form # None
  /\ \E t \in DOMAIN EDITOR_TABS \ {tab} : tab' = t
  /\ UNCHANGED <<form, clicks>> /\ Keeps

\* A plausible bug: what was typed for another model is kept.
Kept(ps) == ps

Dropped(ps) == [p \in {} |-> None]

onModel ==
  /\ Click /\ form # None /\ tab = "identity" /\ form.id = None
  /\ \E m \in DOMAIN Models \ {form.model} :
       form' = [form EXCEPT !.model = m, !.params = Dropped(@),
                            !.schedules = Each(@, LAMBDA s :
                              IF s.sends \in Models[m].sends THEN s ELSE [s EXCEPT !.sends = None])]
  /\ UNCHANGED tab /\ Keeps

toggleVersion(d) == {[d EXCEPT !.versions = SymDiff(@, {v})] : v \in {"v1", "v2c", "v3"}}

addUser(d) == IF Len(d.users) < MaxRows
                THEN {[d EXCEPT !.users = Append(@, blankV3(IF @ = <<>> THEN "simulator" ELSE "user2"))]} ELSE {}
removeUser(d) == IF Len(d.users) > 1 THEN {[d EXCEPT !.users = RemoveAt(@, i)] : i \in DOMAIN d.users} ELSE {}

\* v3 is sent as the first of the users, and v1 has no INFORM.
onDestinationVersion(d, i, v) ==
  [d EXCEPT !.dests[i].version = v,
            !.dests[i].user = IF v = "v3" /\ @ = None /\ d.users # <<>> THEN d.users[1].user ELSE @,
            !.dests[i].inform = @ /\ v # "v1"]

addDestination(d) == IF Len(d.dests) < MaxRows THEN {[d EXCEPT !.dests = Append(@, blankDestination)]} ELSE {}
removeDestination(d) == {[d EXCEPT !.dests = RemoveAt(@, i)] : i \in DOMAIN d.dests}
addSchedule(d) == IF d.dests # <<>> /\ Len(d.schedules) < MaxRows
                    THEN {[d EXCEPT !.schedules = Append(@, blankSchedule)]} ELSE {}
addOverride(d) == IF Len(d.overrides) < MaxRows THEN {[d EXCEPT !.overrides = Append(@, blankOverride)]} ELSE {}
removeOverride(d) == {[d EXCEPT !.overrides = RemoveAt(@, i)] : i \in DOMAIN d.overrides}

TypedIdentity(d) == {[d EXCEPT !.name = n] : n \in {None, "given"}} \cup {[d EXCEPT !.port = p] : p \in {0, 161, 1161}}

TypedAccess(d) ==
  UNION {toggleVersion(d), addUser(d), removeUser(d),
         {[d EXCEPT !.community = c] : c \in Communities}, {[d EXCEPT !.write = c] : c \in Communities},
         {[d EXCEPT !.users[i].user = n] : i \in DOMAIN d.users, n \in Names},
         {[d EXCEPT !.users[i].level = l] : i \in DOMAIN d.users, l \in {"NoAuthNoPriv", "AuthPriv"}},
         {[d EXCEPT !.users[i].auth = n, !.users[i].priv = n] : i \in DOMAIN d.users, n \in Passes},
         {[d EXCEPT !.users[i].write = ~@] : i \in DOMAIN d.users}}

TypedTraps(d) ==
  UNION {addDestination(d), removeDestination(d), addSchedule(d),
         {onDestinationVersion(d, i, v) : i \in DOMAIN d.dests, v \in {"v1", "v2c", "v3"}},
         {[d EXCEPT !.dests[i].user = u] : i \in DOMAIN d.dests, u \in namesOf(d.users) \ {None}},
         {[d EXCEPT !.dests[i].community = c] : i \in DOMAIN d.dests, c \in Communities},
         {[d EXCEPT !.dests[i].inform = ~@] : i \in {j \in DOMAIN d.dests : d.dests[j].version # "v1"}},
         {[d EXCEPT !.dests[i].engine = e] : i \in {j \in DOMAIN d.dests : d.dests[j].inform}, e \in {None, "bad", "listener"}},
         IF d.dests = <<>> THEN {}
           ELSE {[d EXCEPT !.schedules[i].every = n] : i \in DOMAIN d.schedules, n \in {0, 60}}
                  \cup {[d EXCEPT !.schedules[i].sends = n] : i \in DOMAIN d.schedules, n \in {None} \cup Models[d.model].sends}}

TypedData(d) ==
  UNION {addOverride(d), removeOverride(d),
         {[d EXCEPT !.params = [q \in DOMAIN @ \cup {p} |-> IF q = p THEN v ELSE @[q]]] :
             p \in DOMAIN Models[d.model].params, v \in {None, 1, 9}},
         {[d EXCEPT !.overrides[i].oid = o] : i \in DOMAIN d.overrides, o \in Oids},
         {[d EXCEPT !.overrides[i].type = t] : i \in DOMAIN d.overrides, t \in {"OctetString", "Integer"}},
         {[d EXCEPT !.overrides[i].value = v] : i \in DOMAIN d.overrides, v \in Values},
         {[d EXCEPT !.overrides[i].hex = ~@] : i \in {j \in DOMAIN d.overrides : d.overrides[j].type = "OctetString"}}}

typed ==
  /\ Click /\ form # None
  /\ form' \in CASE tab = "identity" -> TypedIdentity(form)
                 [] tab = "access"   -> TypedAccess(form)
                 [] tab = "traps"    -> TypedTraps(form)
                 [] tab = "data"     -> TypedData(form)
                 [] tab = "faults"   -> {form}
  /\ form' # form
  /\ UNCHANGED tab /\ Keeps

\* A refused device stays in the editor. Another device's saving is not told
\* from this one's: the list is of one.
save ==
  /\ Click /\ form # None /\ deviceProblems(form) = {}
  /\ LET p == Given(devicePayload(form))
     IN IF Validate(p) = {}
          THEN /\ device' = WithoutSecrets(p) /\ creds' = Secrets(p) /\ payload' = p
               /\ form' = None
          ELSE UNCHANGED <<form, device, creds, payload>>
  /\ UNCHANGED <<tab, target>>

\* A plausible bug: the oldest version first.
OldestFirst(vs) == IF "v1" \in vs THEN "v1" ELSE IF "v2c" \in vs THEN "v2c" ELSE "v3"

preferredVersion(vs) == IF "v3" \in vs THEN "v3" ELSE IF "v2c" \in vs THEN "v2c" ELSE "v1"

\* The user a target is read and written as.
Writer(users) ==
  LET able == {i \in DOMAIN users : users[i].write}
  IN users[CHOOSE i \in (IF able # {} THEN able ELSE {1}) : \A j \in (IF able # {} THEN able ELSE {1}) : i <= j]

addDeviceAsTarget(d, c) ==
  LET v == preferredVersion(d.versions)
  IN [version |-> v, of |-> payload,
      named |-> d.port # 161, port |-> IF d.port = 161 THEN 161 ELSE None,
      user |-> IF v = "v3" THEN Writer(d.users).user ELSE None,
      keys |-> IF v = "v3" THEN c.users[Writer(d.users).user] ELSE None,
      community |-> IF v = "v3" THEN None ELSE IF c.write # None THEN c.write ELSE c.community]

addAsTarget ==
  /\ Click /\ form = None
  /\ target' = addDeviceAsTarget(device, creds)
  /\ UNCHANGED <<form, tab, device, creds, payload>>

Init ==
  /\ form = None /\ tab = "identity" /\ target = None /\ clicks = 0
  /\ payload \in {Given(devicePayload(p)) : p \in Saved}
  /\ device = WithoutSecrets(payload) /\ creds = Secrets(payload)

Next == newDevice \/ edit \/ cancel \/ openTab \/ onModel \/ typed \/ save \/ addAsTarget

Spec == Init /\ [][Next]_vars

-----------------------------------------------------------------------------
\* What the form says of a device is what Go would refuse it for, so nothing it
\* lets through is refused and nothing it refuses would have been taken
\* (utils/simulator.js:209-215). The values typed are Go's to check.
FormSaysWhatGoWould == form # None => deviceProblems(form) = Validate(devicePayload(form)) \ {"value"}

\* A device is edited again as it was saved, its secrets with it, however its
\* users were renamed and its destinations reordered (editableDevice).
ReopensAsSaved == Given(devicePayload(editableDevice(device, creds))) = payload

\* The identifiers a target was given are the device's, in the most secure
\* version it answers, and write when any it answers to in that version does
\* (utils/simulator.js:702-713).
TargetIsTheDevice ==
  target # None =>
    LET p == target.of
        u == {x \in ToSet(p.users) : x.user = target.user}
    IN IF "v3" \in p.versions
         THEN /\ target.version = "v3"
              /\ \E x \in u : target.keys = [auth |-> x.auth, priv |-> x.priv]
              /\ ((\E x \in ToSet(p.users) : x.write) => \E x \in u : x.write)
         ELSE /\ target.version \in p.versions /\ target.community \in {p.write, p.community}
              /\ (p.write = None \/ target.community = p.write)

\* By hand: a schedule that is wrong when the last destination goes is flagged
\* and said nowhere; a value Go refuses is let through; a user added after one
\* was removed takes a name there is; a device saved again leaves its target
\* with what it was given.
FlaggedIsSaid == form # None => (tab \in tabsWithProblems(deviceProblems(form)) => Said(form, tab) # {})
FormSaysAll == form # None /\ deviceProblems(form) = {} => Validate(devicePayload(form)) = {}
NewUserIsNew == [][form # None /\ form' # None /\ Len(form'.users) > Len(form.users)
                     => form'.users[Len(form'.users)].user \notin namesOf(form.users)]_vars
TargetIsOfTheDevice == target # None => target.of = payload
=============================================================================
