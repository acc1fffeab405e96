--------------------------- MODULE EvaluatorProofs ---------------------------
(***************************************************************************)
(* What the breach evaluator promises, for any number of OIDs, any dwell   *)
(* time and any order of readings, exits and crashes.                      *)
(*                                                                         *)
(* The heart of the argument is Pending: what is left to write, with what  *)
(* the memory and the database hold meanwhile.  Every prefix of the writes *)
(* is a state the process may die in.                                      *)
(***************************************************************************)
EXTENDS Evaluator, SequenceTheorems, TLAPS

Epi == {e \in Episodes : e = NoEpisode \/ (e.kind \in Out /\ e.corr \in 1..MaxCorr)}

Writes ==
  [do : {"save"}, oid : Oids, epi : Epi] \cup [do : {"delete"}, oid : Oids]
    \cup [do : {"opened", "resolved"}, oid : Oids, corr : 1..MaxCorr]
    \cup [do : {"down", "up"}, answered : BOOLEAN]

StoredTyped ==
  /\ disk \in [Oids -> Epi]
  /\ log \in [Oids -> Seq({"opened", "resolved"} \X (1..MaxCorr))]
  /\ reachLog \in Seq({"down", "up"} \X BOOLEAN)

ProcessTyped ==
  /\ up \in BOOLEAN /\ down \in BOOLEAN /\ mem \in [Oids -> Epi]
  /\ round \in [Oids -> Outcomes \cup {Unheard}]
  /\ stage \in {"idle", "reach", "samples"}
  /\ left \in Seq(Oids) /\ todo \in Seq(Writes)
  /\ nextCorr \in 1..(MaxCorr + 1)

GhostsTyped ==
  /\ now \in 0..MaxTime /\ since \in [Oids -> 0..MaxTime]
  /\ \A o \in Oids : since[o] <= now /\ (Breached(round[o]) => since[o] > 0)
  /\ dropped \subseteq 1..MaxCorr
  /\ budget \in [faults : 0..MaxFaults, crashes : 0..MaxCrashes, exits : 0..MaxExits]

\* Each reading of the round may need an identifier of its own.
Room ==
  /\ stage = "reach" => nextCorr + Len(Order) <= MaxCorr + 1
  /\ stage = "samples" => nextCorr + Len(left) <= MaxCorr + 1

\* Ingest writes while it evaluates, and in no other place.
Quiet ==
  /\ stage # "samples" => todo = <<>>
  /\ ~up => stage = "idle"

Agreed == mem = disk
AgreedBut(o) == \A p \in Oids \ {o} : mem[p] = disk[p]

\* The episode in the database can be overwritten: it had not fired, or its end is
\* said, or it was dropped.
Over(o) ==
  disk[o].fired => disk[o].corr \in dropped \cup Recorded(o, "resolved")

\* Nobody has heard of this episode.
Unsaid(o, epi) == epi.corr \notin Recorded(o, "opened")

\* An end is announced, when it is, and then deleted.
EndLeft(o) ==
  /\ AgreedBut(o) /\ mem[o] = NoEpisode
  /\ \/ todo = <<Delete(o)>> /\ Over(o)
     \/ todo = <<Emit(o, "resolved", disk[o]), Delete(o)>>

StartLeft(o) ==
  /\ AgreedBut(o) /\ ~mem[o].fired /\ Unsaid(o, mem[o]) /\ Over(o)
  /\ todo = <<Save(o, mem[o])>>

\* An alert that the database does not know of yet.
AlertLeft(o) ==
  /\ AgreedBut(o) /\ mem[o].fired /\ Unsaid(o, mem[o]) /\ Over(o)
  /\ \/ todo = <<Save(o, mem[o]), Emit(o, "opened", mem[o])>>
     \/ \E epi \in Epi :
          /\ ~epi.fired /\ epi.corr = mem[o].corr
          /\ todo = <<Save(o, epi), Save(o, mem[o]), Emit(o, "opened", mem[o])>>

\* An alert that it knows of, and the journal does not.
NewsLeft(o) ==
  /\ Agreed /\ mem[o].fired /\ Unsaid(o, mem[o])
  /\ todo = <<Emit(o, "opened", mem[o])>>

\* What is left to write.
Pending ==
  \/ todo = <<>> /\ Agreed
  \/ \E w \in Writes : todo = <<w>> /\ w.do \in {"down", "up"} /\ Agreed
  \/ \E o \in Oids : EndLeft(o) \/ StartLeft(o) \/ AlertLeft(o) \/ NewsLeft(o)

\* What is open in the journal is the episode in the database, or was dropped.
Accounted ==
  \A o \in Oids : Unresolved(o) \subseteq
    dropped \cup (IF disk[o].fired THEN {disk[o].corr} ELSE {})

\* An episode is saved as fired before its event is recorded, under an identifier
\* that nothing had.
SavedFirst ==
  \A o \in Oids : (~disk[o].fired => Unsaid(o, disk[o])) /\ (~mem[o].fired => Unsaid(o, mem[o]))

FreshIdentifiers ==
  \A o \in Oids :
    /\ disk[o].corr < nextCorr /\ mem[o].corr < nextCorr
    /\ \A c \in Recorded(o, "opened") : c < nextCorr

\* FirstSeen is that of the readings out on this side, but for the rounding.
HeldSince(o, epi) == since[o] > 0 /\ epi.first > since[o] - Second

\* An episode belongs to the last reading that was evaluated.
Waiting(o) == stage = "reach" \/ (stage = "samples" /\ \E i \in DOMAIN left : left[i] = o)

Kept(o, epi) ==
  epi # NoEpisode =>
    /\ epi.kind = round[o] => HeldSince(o, epi)
    /\ ~Waiting(o) => epi.kind = round[o]

Held ==
  /\ up => \A o \in Oids : Kept(o, mem[o])
  /\ ~up => \A o \in Oids : Kept(o, disk[o])

Typed == StoredTyped /\ ProcessTyped /\ GhostsTyped /\ Room /\ Quiet

Books == Accounted /\ SavedFirst /\ FreshIdentifiers /\ OpenedOnce

\* As long as every write is made.
Sound  == NoFault => Books /\ (up => Pending)
Timely == NoFault /\ NoCrash => Held /\ AlertHasHeld

IInv == Typed /\ Sound /\ Timely

-----------------------------------------------------------------------------
(* What is left to write, as sequences. *)

\* The episode that begins is saved before what its alert needs.
LEMMA SavedThenAlerted ==
  ASSUME NEW a, NEW b, NEW c
  PROVE  /\ <<a>> \o <<b, c>> = <<a, b, c>>
         /\ <<>> \o <<b, c>> = <<b, c>> /\ <<a>> \o <<>> = <<a>>
<1> DEFINE S == {a, b, c}
<1>1. <<a>> \in Seq(S) /\ <<b, c>> \in Seq(S) /\ <<a, b, c>> \in Seq(S)
  OBVIOUS
<1>2. Len(<<a>>) = 1 /\ Len(<<b, c>>) = 2 /\ Len(<<a, b, c>>) = 3
  OBVIOUS
<1> HIDE DEF S
<1>3. /\ <<a>> \o <<b, c>> \in Seq(S) /\ Len(<<a>> \o <<b, c>>) = 3
      /\ \A i \in 1..3 : (<<a>> \o <<b, c>>)[i] = IF i <= 1 THEN <<a>>[i] ELSE <<b, c>>[i - 1]
  BY <1>1, <1>2, ConcatProperties
<1>4. \A i \in 1..3 : (<<a>> \o <<b, c>>)[i] = <<a, b, c>>[i]
  BY <1>3
<1>5. <<a>> \o <<b, c>> = <<a, b, c>>
  BY <1>1, <1>2, <1>3, <1>4, SeqEqual
<1> QED BY <1>5

\* The end of an episode is announced before it is deleted.
LEMMA AnnouncedThenDeleted ==
  ASSUME NEW a, NEW b
  PROVE  <<a>> \o <<b>> = <<a, b>> /\ <<>> \o <<b>> = <<b>>
<1> DEFINE S == {a, b}
<1>1. <<a>> \in Seq(S) /\ <<b>> \in Seq(S) /\ <<a, b>> \in Seq(S)
  OBVIOUS
<1>2. Len(<<a>>) = 1 /\ Len(<<b>>) = 1 /\ Len(<<a, b>>) = 2
  OBVIOUS
<1> HIDE DEF S
<1>3. /\ <<a>> \o <<b>> \in Seq(S) /\ Len(<<a>> \o <<b>>) = 2
      /\ \A i \in 1..2 : (<<a>> \o <<b>>)[i] = IF i <= 1 THEN <<a>>[i] ELSE <<b>>[i - 1]
  BY <1>1, <1>2, ConcatProperties
<1>4. \A i \in 1..2 : (<<a>> \o <<b>>)[i] = <<a, b>>[i]
  BY <1>3
<1>5. <<a>> \o <<b>> = <<a, b>>
  BY <1>1, <1>2, <1>3, <1>4, SeqEqual
<1> QED BY <1>5

\* FirstSeen is kept to the second before (storage/events.go).
LEMMA RoundedDown ==
  ASSUME NEW t \in Nat
  PROVE  WholeSecond(t) \in Nat /\ WholeSecond(t) <= t /\ WholeSecond(t) > t - Second
BY EvaluatorAssumption DEF WholeSecond

LEMMA Bounds ==
  /\ Dwell \in Nat /\ MaxTime \in Nat /\ MaxCorr \in Nat /\ MaxFaults \in Nat
  /\ MaxCrashes \in Nat /\ MaxExits \in Nat /\ Second \in Nat \ {0}
BY EvaluatorAssumption

\* What a write is.
LEMMA WriteForms ==
  ASSUME NEW o \in Oids, NEW epi \in Epi
  PROVE  /\ Save(o, epi) \in Writes /\ Delete(o) \in Writes
         /\ epi # NoEpisode => /\ Emit(o, "opened", epi) \in Writes
                              /\ Emit(o, "resolved", epi) \in Writes
BY DEF Save, Delete, Emit, Writes, Epi

LEMMA Nothing == NoEpisode \in Epi /\ ~NoEpisode.fired /\ NoEpisode.corr = 0 /\ NoEpisode.kind = "none"
BY EvaluatorAssumption DEF NoEpisode, Epi, Episodes

-----------------------------------------------------------------------------
(* The cases of Ingest, each with what it leaves to write. *)

\* The episode goes on, and says nothing.
GoesOn(o) ==
  /\ Breached(round[o]) /\ mem[o] # NoEpisode /\ mem[o].kind = round[o]
  /\ mem' = mem /\ todo' = <<>> /\ UNCHANGED <<dropped, nextCorr>>

\* The episode in progress has held.
Fires(o) ==
  /\ Breached(round[o]) /\ mem[o] # NoEpisode /\ mem[o].kind = round[o]
  /\ ~mem[o].fired /\ Sustained(mem[o])
  /\ \E then \in Epi :
       /\ then # NoEpisode /\ then.fired /\ then.corr = mem[o].corr /\ then.kind = mem[o].kind
       /\ then.first = mem[o].first
       /\ mem' = [mem EXCEPT ![o] = then]
       /\ todo' = <<Save(o, then), Emit(o, "opened", then)>>
  /\ UNCHANGED <<dropped, nextCorr>>

DropsOld(o) == dropped' = dropped \cup (IF mem[o].fired THEN {mem[o].corr} ELSE {})

\* An episode begins, on the other side perhaps.
IsNew(o, epi) ==
  /\ epi # NoEpisode /\ epi.kind = round[o] /\ epi.corr = nextCorr
  /\ epi.first <= now /\ epi.first > now - Second

Starts(o) ==
  /\ Breached(round[o]) /\ Begins(o)
  /\ \E epi \in Epi :
       /\ IsNew(o, epi) /\ ~epi.fired
       /\ mem' = [mem EXCEPT ![o] = epi] /\ todo' = <<Save(o, epi)>>
  /\ DropsOld(o) /\ nextCorr' = nextCorr + 1

\* It is an alert at once.
StartsAndFires(o) ==
  /\ Breached(round[o]) /\ Begins(o)
  /\ \E epi, then \in Epi :
       /\ IsNew(o, epi) /\ ~epi.fired /\ Sustained(epi)
       /\ IsNew(o, then) /\ then.fired /\ then.first = epi.first
       /\ mem' = [mem EXCEPT ![o] = then]
       /\ todo' = <<Save(o, epi), Save(o, then), Emit(o, "opened", then)>>
  /\ DropsOld(o) /\ nextCorr' = nextCorr + 1

Ends(o) ==
  /\ ~Breached(round[o]) /\ mem[o] # NoEpisode
  /\ mem' = [mem EXCEPT ![o] = NoEpisode] /\ nextCorr' = nextCorr
  /\ \/ /\ mem[o].fired /\ todo' = <<Emit(o, "resolved", mem[o]), Delete(o)>>
        /\ dropped' = dropped
     \/ todo' = <<Delete(o)>> /\ DropsOld(o)

AllIsWell(o) ==
  /\ ~Breached(round[o]) /\ mem[o] = NoEpisode
  /\ mem' = mem /\ todo' = <<>> /\ UNCHANGED <<dropped, nextCorr>>

\* Every evaluation of a reading is one of these.
LEMMA BreachCases ==
  ASSUME Typed, NEW o \in Oids, Breached(round[o]), nextCorr <= MaxCorr, Breach(o)
  PROVE  GoesOn(o) \/ Fires(o) \/ Starts(o) \/ StartsAndFires(o)
<1> USE DEF Typed, ProcessTyped
<1>1. CASE Begins(o)
  <2> DEFINE epi == NewEpisode(o)
             then == [epi EXCEPT !.fired = TRUE]
  <2>1. epi \in Epi /\ IsNew(o, epi) /\ ~epi.fired
    <3>1. /\ WholeSecond(now) \in 0..MaxTime /\ WholeSecond(now) <= now
          /\ WholeSecond(now) > now - Second
      <4>1. now \in Nat /\ now <= MaxTime
        BY Bounds DEF GhostsTyped
      <4>2. /\ WholeSecond(now) \in Nat /\ WholeSecond(now) <= now
            /\ WholeSecond(now) > now - Second
        BY <4>1, RoundedDown
      <4> HIDE DEF Typed
      <4> QED BY <4>1, <4>2, Bounds
    <3>2. /\ epi.kind = round[o] /\ epi.first = WholeSecond(now) /\ epi.corr = nextCorr
          /\ ~epi.fired
      BY DEF NewEpisode
    <3>3. round[o] \in Out /\ nextCorr \in 1..MaxCorr
      BY Bounds DEF Breached
    <3>4. epi \in Episodes
      BY <3>1, <3>3, Bounds DEF NewEpisode, Episodes
    <3>5. epi # NoEpisode
      BY <3>2, <3>3, Nothing DEF Out
    <3> HIDE DEF epi
    <3> QED BY <3>1, <3>2, <3>3, <3>4, <3>5 DEF Epi, IsNew
  <2>2. then \in Epi /\ IsNew(o, then) /\ then.fired /\ then.first = epi.first
    <3> HIDE DEF epi
    <3>1. /\ then \in Episodes /\ then.fired /\ then.kind = epi.kind /\ then.corr = epi.corr
          /\ then.first = epi.first
      BY <2>1 DEF Epi, Episodes
    <3>2. then # NoEpisode
      BY <3>1, Nothing
    <3> QED BY <2>1, <3>1, <3>2, Nothing DEF IsNew, Epi
  <2>3. DropsOld(o) /\ nextCorr' = nextCorr + 1
    BY <1>1 DEF Breach, DropsOld
  <2>4. CASE Sustained(epi)
    <3>1. mem' = [mem EXCEPT ![o] = then]
          /\ todo' = <<Save(o, epi)>> \o <<Save(o, then), Emit(o, "opened", then)>>
      BY <1>1, <2>1, <2>4 DEF Breach
    <3> HIDE DEF epi, then
    <3>2. todo' = <<Save(o, epi), Save(o, then), Emit(o, "opened", then)>>
      BY <3>1, SavedThenAlerted
    <3>3. \E e, t \in Epi :
            /\ IsNew(o, e) /\ ~e.fired /\ Sustained(e)
            /\ IsNew(o, t) /\ t.fired /\ t.first = e.first
            /\ mem' = [mem EXCEPT ![o] = t]
            /\ todo' = <<Save(o, e), Save(o, t), Emit(o, "opened", t)>>
      BY <2>1, <2>2, <2>4, <3>1, <3>2
    <3> QED BY <1>1, <2>3, <3>3 DEF StartsAndFires
  <2>5. CASE ~Sustained(epi)
    <3>1. mem' = [mem EXCEPT ![o] = epi] /\ todo' = <<Save(o, epi)>> \o <<>>
      BY <1>1, <2>1, <2>5 DEF Breach
    <3> HIDE DEF epi
    <3> QED BY <1>1, <2>1, <2>3, <3>1, SavedThenAlerted DEF Starts
  <2> QED BY <2>4, <2>5
<1>2. CASE ~Begins(o)
  <2>1. mem[o] # NoEpisode /\ mem[o].kind = round[o] /\ mem[o] \in Epi
    BY <1>2 DEF Begins
  <2>2. UNCHANGED <<dropped, nextCorr>>
    BY <1>2 DEF Breach
  <2>3. CASE ~mem[o].fired /\ Sustained(mem[o])
    <3> DEFINE then == [mem[o] EXCEPT !.fired = TRUE]
    <3>1. /\ then \in Episodes /\ then.fired /\ then.kind = mem[o].kind /\ then.corr = mem[o].corr
          /\ then.first = mem[o].first
      BY <2>1 DEF Epi, Episodes
    <3>2. then # NoEpisode /\ then \in Epi
      BY <2>1, <3>1, Nothing DEF Epi
    <3>3. mem' = [mem EXCEPT ![o] = then]
          /\ todo' = <<>> \o <<Save(o, then), Emit(o, "opened", then)>>
      BY <1>2, <2>3 DEF Breach
    <3> HIDE DEF then
    <3> QED BY <2>1, <2>2, <2>3, <3>1, <3>2, <3>3, SavedThenAlerted DEF Fires
  <2>4. CASE mem[o].fired \/ ~Sustained(mem[o])
    <3>1. mem' = [mem EXCEPT ![o] = mem[o]] /\ todo' = <<>> \o <<>>
      BY <1>2, <2>4 DEF Breach
    <3>2. mem' = mem
      BY <3>1
    <3> QED BY <2>1, <2>2, <3>1, <3>2 DEF GoesOn
  <2> QED BY <2>3, <2>4
<1> QED BY <1>1, <1>2

LEMMA EndCases ==
  ASSUME Typed, NEW o \in Oids, ~Breached(round[o]), EndEpisode(o) PROVE Ends(o)
<1>1. CASE mem[o].fired /\ HasValue(round[o])
  <2>1. todo' = <<Emit(o, "resolved", mem[o])>> \o <<Delete(o)>> /\ dropped' = dropped
    BY <1>1 DEF EndEpisode
  <2>2. todo' = <<Emit(o, "resolved", mem[o]), Delete(o)>>
    BY <2>1, AnnouncedThenDeleted
  <2> QED BY <1>1, <2>1, <2>2 DEF EndEpisode, Ends
<1>2. CASE ~(mem[o].fired /\ HasValue(round[o]))
  <2>1. todo' = <<>> \o <<Delete(o)>>
    BY <1>2 DEF EndEpisode
  <2>2. todo' = <<Delete(o)>>
    BY <2>1, AnnouncedThenDeleted
  <2>3. DropsOld(o)
    BY <1>2 DEF EndEpisode, DropsOld
  <2> QED BY <2>2, <2>3 DEF EndEpisode, Ends
<1> QED BY <1>1, <1>2

Evaluated(o) ==
  GoesOn(o) \/ Fires(o) \/ Starts(o) \/ StartsAndFires(o) \/ Ends(o) \/ AllIsWell(o)

LEMMA SampleCases ==
  ASSUME Typed, EvaluateSample
  PROVE  /\ Head(left) \in Oids /\ Evaluated(Head(left))
         /\ up /\ stage = "samples" /\ todo = <<>> /\ left # <<>> /\ left' = Tail(left)
         /\ UNCHANGED <<stored, up, down, round, stage, now, since, budget>>
<1> DEFINE o == Head(left)
<1>1. /\ up /\ stage = "samples" /\ todo = <<>> /\ left # <<>> /\ left' = Tail(left)
      /\ UNCHANGED <<stored, up, down, round, stage, now, since, budget>>
  BY DEF EvaluateSample
<1>2. o \in Oids /\ Len(left) >= 1
  BY <1>1 DEF Typed, ProcessTyped
<1>3. nextCorr <= MaxCorr
  BY <1>1, <1>2, Bounds DEF Typed, ProcessTyped, Room
<1>4. \/ Breached(round[o]) /\ Breach(o)
      \/ ~Breached(round[o]) /\ EndEpisode(o)
      \/ ~Breached(round[o]) /\ mem[o] = NoEpisode /\ UNCHANGED <<mem, todo, dropped, nextCorr>>
  BY DEF EvaluateSample
<1>5. Evaluated(o)
  BY <1>1, <1>2, <1>3, <1>4, BreachCases, EndCases DEF Evaluated, AllIsWell
<1> QED BY <1>1, <1>2, <1>5

-----------------------------------------------------------------------------
(* Types. *)

\* What Perform does to the database.
LEMMA PerformForms ==
  ASSUME NEW w \in Writes, Perform(w)
  PROVE  /\ w.do = "save" => disk' = [disk EXCEPT ![w.oid] = w.epi] /\ UNCHANGED <<log, reachLog>>
         /\ w.do = "delete" => disk' = [disk EXCEPT ![w.oid] = NoEpisode] /\ UNCHANGED <<log, reachLog>>
         /\ w.do \in {"opened", "resolved"} =>
              /\ log' = [log EXCEPT ![w.oid] = Append(log[w.oid], <<w.do, w.corr>>)]
              /\ UNCHANGED <<disk, reachLog>>
         /\ w.do \in {"down", "up"} =>
              /\ reachLog' = Append(reachLog, <<w.do, w.answered>>) /\ UNCHANGED <<disk, log>>
BY DEF Perform

LEMMA PerformTyped ==
  ASSUME StoredTyped, NEW w \in Writes, Perform(w) PROVE StoredTyped'
<1>1. CASE w \in [do : {"save"}, oid : Oids, epi : Epi]
  BY <1>1, PerformForms DEF StoredTyped
<1>2. CASE w \in [do : {"delete"}, oid : Oids]
  BY <1>2, PerformForms, Nothing DEF StoredTyped
<1>3. CASE w \in [do : {"opened", "resolved"}, oid : Oids, corr : 1..MaxCorr]
  <2>1. /\ log' = [log EXCEPT ![w.oid] = Append(log[w.oid], <<w.do, w.corr>>)]
        /\ UNCHANGED <<disk, reachLog>>
    BY <1>3, PerformForms
  <2>2. <<w.do, w.corr>> \in {"opened", "resolved"} \X (1..MaxCorr) /\ w.oid \in Oids
    BY <1>3
  <2>3. Append(log[w.oid], <<w.do, w.corr>>) \in Seq({"opened", "resolved"} \X (1..MaxCorr))
    BY <2>2 DEF StoredTyped
  <2> QED BY <2>1, <2>2, <2>3 DEF StoredTyped
<1>4. CASE w \in [do : {"down", "up"}, answered : BOOLEAN]
  <2>1. reachLog' = Append(reachLog, <<w.do, w.answered>>) /\ UNCHANGED <<disk, log>>
    BY <1>4, PerformForms
  <2>2. <<w.do, w.answered>> \in {"down", "up"} \X BOOLEAN
    BY <1>4
  <2> QED BY <2>1, <2>2 DEF StoredTyped
<1> QED BY <1>1, <1>2, <1>3, <1>4 DEF Writes

LEMMA SampleTyped == ASSUME Typed, EvaluateSample PROVE Typed'
<1> DEFINE o == Head(left)
<1> USE DEF Typed
<1>0. /\ o \in Oids /\ Evaluated(o) /\ up /\ stage = "samples" /\ left # <<>> /\ left' = Tail(left)
      /\ UNCHANGED <<stored, up, down, round, stage, now, since, budget>>
  BY SampleCases
<1>1. left' \in Seq(Oids) /\ Len(left') = Len(left) - 1 /\ Len(left) \in Nat
  BY <1>0 DEF ProcessTyped
<1>2. mem[o] \in Epi /\ (mem[o].fired => mem[o] # NoEpisode) /\ nextCorr \in 1..MaxCorr
      /\ nextCorr + 1 \in 1..(MaxCorr + 1)
  BY <1>0, <1>1, Nothing, Bounds DEF ProcessTyped, Room
<1>3. mem' \in [Oids -> Epi] /\ todo' \in Seq(Writes)
      /\ nextCorr' \in {nextCorr, nextCorr + 1} /\ dropped' \subseteq dropped \cup {mem[o].corr}
      /\ dropped \subseteq dropped' /\ (~mem[o].fired => dropped' = dropped)
  <2>1. CASE GoesOn(o) \/ AllIsWell(o)
    <3>1. mem' = mem /\ todo' = <<>> /\ dropped' = dropped /\ nextCorr' = nextCorr
      BY <2>1 DEF GoesOn, AllIsWell
    <3>2. <<>> \in Seq(Writes)
      OBVIOUS
    <3> QED BY <3>1, <3>2 DEF ProcessTyped
  <2>2. CASE Fires(o)
    <3>1. PICK then \in Epi :
            /\ then # NoEpisode /\ mem' = [mem EXCEPT ![o] = then]
            /\ todo' = <<Save(o, then), Emit(o, "opened", then)>>
      BY <2>2 DEF Fires
    <3>2. Save(o, then) \in Writes /\ Emit(o, "opened", then) \in Writes
      BY <1>0, <3>1, WriteForms
    <3> QED BY <1>0, <2>2, <3>1, <3>2 DEF Fires, ProcessTyped
  <2>3. CASE Starts(o)
    <3>1. PICK epi \in Epi : mem' = [mem EXCEPT ![o] = epi] /\ todo' = <<Save(o, epi)>>
      BY <2>3 DEF Starts
    <3>2. Save(o, epi) \in Writes
      BY <1>0, WriteForms
    <3> QED BY <1>0, <2>3, <3>1, <3>2 DEF Starts, DropsOld, ProcessTyped
  <2>4. CASE StartsAndFires(o)
    <3>1. PICK epi \in Epi, then \in Epi :
            /\ then # NoEpisode /\ mem' = [mem EXCEPT ![o] = then]
            /\ todo' = <<Save(o, epi), Save(o, then), Emit(o, "opened", then)>>
      BY <2>4 DEF StartsAndFires, IsNew
    <3>2. Save(o, epi) \in Writes /\ Save(o, then) \in Writes /\ Emit(o, "opened", then) \in Writes
      BY <1>0, <3>1, WriteForms
    <3> QED BY <1>0, <2>4, <3>1, <3>2 DEF StartsAndFires, DropsOld, ProcessTyped
  <2>5. CASE Ends(o)
    <3>1. Delete(o) \in Writes /\ (mem[o] # NoEpisode => Emit(o, "resolved", mem[o]) \in Writes)
      BY <1>0, <1>2, WriteForms
    <3>2. mem' \in [Oids -> Epi]
      BY <2>5, Nothing DEF Ends, ProcessTyped
    <3>3. todo' \in Seq(Writes)
      <4>1. <<Delete(o)>> \in Seq(Writes)
        BY <3>1
      <4>2. mem[o] # NoEpisode => <<Emit(o, "resolved", mem[o]), Delete(o)>> \in Seq(Writes)
        BY <3>1
      <4> QED BY <2>5, <4>1, <4>2 DEF Ends
    <3> QED BY <2>5, <3>2, <3>3 DEF Ends, DropsOld
  <2> QED BY <1>0, <2>1, <2>2, <2>3, <2>4, <2>5 DEF Evaluated
<1>4. ProcessTyped'
  BY <1>0, <1>1, <1>2, <1>3 DEF ProcessTyped
<1>5. GhostsTyped'
  <2>1. mem[o].fired => mem[o].corr \in 1..MaxCorr
    BY <1>2 DEF Epi
  <2>2. dropped' \subseteq 1..MaxCorr
    BY <1>3, <2>1 DEF GhostsTyped
  <2> QED BY <1>0, <2>2 DEF GhostsTyped
<1>6. StoredTyped' /\ Quiet'
  BY <1>0 DEF StoredTyped, stored, Quiet
<1>7. Room'
  BY <1>0, <1>1, <1>2, <1>3, Bounds DEF Room
<1> QED BY <1>4, <1>5, <1>6, <1>7

LEMMA BudgetSpent ==
  ASSUME GhostsTyped, NEW kind \in {"faults", "crashes", "exits"}, Spend(kind)
  PROVE  /\ budget' \in [faults : 0..MaxFaults, crashes : 0..MaxCrashes, exits : 0..MaxExits]
         /\ kind = "faults" => ~NoFault'
         /\ kind = "crashes" => ~NoCrash' /\ (NoFault' => NoFault)
         /\ kind = "exits" => (NoCrash' => NoCrash) /\ (NoFault' => NoFault)
<1>1. budget \in [faults : 0..MaxFaults, crashes : 0..MaxCrashes, exits : 0..MaxExits]
  BY DEF GhostsTyped
<1>2. budget[kind] > 0 /\ budget' = [budget EXCEPT ![kind] = budget[kind] - 1]
  BY DEF Spend
<1>3. CASE kind = "faults"
  <2>1. budget' = [budget EXCEPT !.faults = budget.faults - 1] /\ budget.faults > 0
    BY <1>2, <1>3
  <2> QED BY <1>1, <1>3, <2>1, Bounds DEF NoFault
<1>4. CASE kind = "crashes"
  <2>1. budget' = [budget EXCEPT !.crashes = budget.crashes - 1] /\ budget.crashes > 0
    BY <1>2, <1>4
  <2> QED BY <1>1, <1>4, <2>1, Bounds DEF NoFault, NoCrash
<1>5. CASE kind = "exits"
  <2>1. budget' = [budget EXCEPT !.exits = budget.exits - 1] /\ budget.exits > 0
    BY <1>2, <1>5
  <2> QED BY <1>1, <1>5, <2>1, Bounds DEF NoFault, NoCrash
<1> QED BY <1>3, <1>4, <1>5

LEMMA PollTyped ==
  ASSUME Typed, Poll
  PROVE  /\ Typed'
         /\ \A o \in Oids : since'[o] =
              IF ~Breached(round'[o]) THEN 0
              ELSE IF round'[o] = round[o] /\ since[o] > 0 THEN since[o] ELSE now'
         /\ now' > 0
<1> USE DEF Typed
<1>0. /\ up /\ stage = "idle" /\ stage' = "reach" /\ nextCorr + Len(Order) <= MaxCorr + 1
      /\ UNCHANGED <<stored, up, memory, left, todo, dropped, budget>>
  BY DEF Poll
<1>1. now' \in 0..MaxTime /\ now' > 0 /\ now <= now'
  <2>1. PICK d \in 1..MaxStep : now + d <= MaxTime /\ now' = now + d
    BY DEF Poll
  <2>2. now \in Nat /\ d \in Nat /\ d > 0
    BY EvaluatorAssumption, Bounds DEF GhostsTyped
  <2> QED BY <2>1, <2>2, Bounds
<1>2. PICK r \in [Oids -> Readings] :
        /\ round' = r
        /\ since' = [o \in Oids |-> IF ~Breached(r[o]) THEN 0
                                    ELSE IF r[o] = round[o] /\ since[o] > 0 THEN since[o] ELSE now']
  BY DEF Poll
<1>3. round' \in [Oids -> Outcomes \cup {Unheard}]
  BY <1>2, EvaluatorAssumption
<1>4. \A o \in Oids : since'[o] =
              IF ~Breached(round'[o]) THEN 0
              ELSE IF round'[o] = round[o] /\ since[o] > 0 THEN since[o] ELSE now'
  BY <1>2
<1>5. \A o \in Oids : since[o] \in 0..MaxTime /\ since[o] <= now /\ now \in 0..MaxTime
  BY DEF GhostsTyped
<1>6. \A o \in Oids : /\ since'[o] \in 0..MaxTime /\ since'[o] <= now'
                      /\ (Breached(round'[o]) => since'[o] > 0)
  <2> SUFFICES ASSUME NEW o \in Oids
               PROVE  /\ since'[o] \in 0..MaxTime /\ since'[o] <= now'
                      /\ (Breached(round'[o]) => since'[o] > 0)
    OBVIOUS
  <2> HIDE DEF Typed
  <2>1. since'[o] = IF ~Breached(round'[o]) THEN 0
              ELSE IF round'[o] = round[o] /\ since[o] > 0 THEN since[o] ELSE now'
    BY <1>4
  <2>2. since[o] \in 0..MaxTime /\ since[o] <= now /\ now \in 0..MaxTime
    BY <1>5
  <2> QED BY <2>1, <2>2, <1>1, Bounds
<1>7. GhostsTyped'
  BY <1>0, <1>1, <1>2, <1>6 DEF GhostsTyped
<1>8. StoredTyped' /\ ProcessTyped' /\ Room' /\ Quiet'
  BY <1>0, <1>3 DEF StoredTyped, ProcessTyped, Room, Quiet, stored, memory
<1> QED BY <1>1, <1>4, <1>7, <1>8

LEMMA IngestTyped ==
  ASSUME Typed, Reachability \/ Return PROVE Typed'
<1> USE DEF Typed
<1>1. CASE Reachability
  <2>0. /\ up /\ stage = "reach" /\ stage' = "samples" /\ left' = Order /\ down' = AllFailed
        /\ UNCHANGED <<stored, up, mem, nextCorr, round, now, since, dropped, budget>>
    BY <1>1 DEF Reachability
  <2>1. \A what \in {"down", "up"} : Reach(what, round) \in Writes
    BY DEF Reach, Writes
  <2>2. todo' \in Seq(Writes)
    <3>1. <<Reach("down", round)>> \in Seq(Writes) /\ <<Reach("up", round)>> \in Seq(Writes)
          /\ <<>> \in Seq(Writes)
      BY <2>1
    <3> QED BY <1>1, <3>1 DEF Reachability
  <2>3. down' \in BOOLEAN
    BY <2>0 DEF AllFailed
  <2>4. left' \in Seq(Oids)
    BY <2>0, EvaluatorAssumption
  <2> QED BY <2>0, <2>2, <2>3, <2>4 DEF StoredTyped, ProcessTyped, GhostsTyped, Room, Quiet, stored
<1>2. CASE Return
  BY <1>2 DEF Return, StoredTyped, ProcessTyped, GhostsTyped, Room, Quiet, stored, memory
<1> QED BY <1>1, <1>2

LEMMA WriteTyped ==
  ASSUME Typed, Write \/ WriteFails PROVE Typed'
<1> USE DEF Typed
<1>0. /\ up /\ todo # <<>> /\ todo' = Tail(todo)
      /\ UNCHANGED <<up, memory, round, stage, left, now, since, dropped>>
  BY DEF Write, WriteFails
<1>1. Head(todo) \in Writes /\ todo' \in Seq(Writes)
  BY <1>0 DEF ProcessTyped
<1>2. StoredTyped'
  BY <1>1, PerformTyped DEF Write, WriteFails, StoredTyped, stored
<1>3. budget' \in [faults : 0..MaxFaults, crashes : 0..MaxCrashes, exits : 0..MaxExits]
  BY BudgetSpent DEF Write, WriteFails, GhostsTyped
<1> QED BY <1>0, <1>1, <1>2, <1>3 DEF ProcessTyped, GhostsTyped, Room, Quiet, memory

LEMMA ProcessStepTyped ==
  ASSUME Typed, Crash \/ Exit \/ Launch PROVE Typed'
<1> USE DEF Typed
<1>3. budget' \in [faults : 0..MaxFaults, crashes : 0..MaxCrashes, exits : 0..MaxExits]
  BY BudgetSpent DEF Crash, Exit, Launch, GhostsTyped
<1>1. CASE Goes
  <2>1. /\ up' = FALSE /\ mem' = [o \in Oids |-> NoEpisode] /\ down' = FALSE
        /\ stage' = "idle" /\ left' = <<>> /\ todo' = <<>>
        /\ UNCHANGED <<stored, nextCorr, round, now, since, dropped>>
    BY <1>1 DEF Goes
  <2>2. mem' \in [Oids -> Epi] /\ left' \in Seq(Oids) /\ todo' \in Seq(Writes)
    BY <2>1, Nothing
  <2> QED BY <1>3, <2>1, <2>2 DEF StoredTyped, ProcessTyped, GhostsTyped, Room, Quiet, stored
<1>2. CASE Launch
  <2>1. /\ up' = TRUE /\ mem' \in {mem, disk}
        /\ UNCHANGED <<stored, down, nextCorr, round, stage, left, todo, now, since, dropped>>
    BY <1>2 DEF Launch
  <2> QED BY <1>3, <2>1 DEF StoredTyped, ProcessTyped, GhostsTyped, Room, Quiet, stored
<1> QED BY <1>1, <1>2 DEF Crash, Exit

LEMMA StepTyped == ASSUME Typed, [Next]_vars PROVE Typed'
<1>1. CASE UNCHANGED vars
  BY <1>1 DEF vars, stored, memory, Typed, StoredTyped, ProcessTyped, GhostsTyped, Room, Quiet
<1> QED BY <1>1, PollTyped, IngestTyped, SampleTyped, WriteTyped, ProcessStepTyped DEF Next

LEMMA InitTyped == ASSUME Init PROVE Typed
<1>1. StoredTyped /\ ProcessTyped
  <2>1. <<>> \in Seq(Oids) /\ <<>> \in Seq(Writes) /\ <<>> \in Seq({"down", "up"} \X BOOLEAN)
        /\ <<>> \in Seq({"opened", "resolved"} \X (1..MaxCorr))
    OBVIOUS
  <2>2. disk \in [Oids -> Epi] /\ mem \in [Oids -> Epi]
    BY Nothing DEF Init
  <2>3. log \in [Oids -> Seq({"opened", "resolved"} \X (1..MaxCorr))]
        /\ reachLog \in Seq({"down", "up"} \X BOOLEAN)
    BY <2>1 DEF Init
  <2>4. round \in [Oids -> Outcomes \cup {Unheard}] /\ nextCorr \in 1..(MaxCorr + 1)
    BY Bounds DEF Init
  <2>5. left \in Seq(Oids) /\ todo \in Seq(Writes)
    BY <2>1 DEF Init
  <2>6. up \in BOOLEAN /\ down \in BOOLEAN /\ stage = "idle"
    BY DEF Init
  <2> QED BY <2>2, <2>3, <2>4, <2>5, <2>6 DEF StoredTyped, ProcessTyped
<1>2. GhostsTyped
  BY Bounds DEF Init, GhostsTyped, Breached, Out, Unheard
<1> QED BY <1>1, <1>2 DEF Init, Typed, Room, Quiet

\* What the evaluator, the journal and the database hold keeps its type; above all,
\* no round runs out of identifiers (breach.go:115-210).
THEOREM TypeCorrect == Spec => []TypeOK
<1>1. Init => Typed
  BY InitTyped
<1>2. Typed /\ [Next]_vars => Typed'
  BY StepTyped
<1>3. Typed => TypeOK
  <2> SUFFICES ASSUME Typed PROVE TypeOK
    OBVIOUS
  <2>1. Epi \subseteq Episodes
    BY DEF Epi
  <2>2. disk \in [Oids -> Episodes] /\ mem \in [Oids -> Episodes]
    BY <2>1 DEF Typed, StoredTyped, ProcessTyped
  <2> QED BY <2>2 DEF Typed, StoredTyped, ProcessTyped, GhostsTyped, TypeOK
<1> QED BY <1>1, <1>2, <1>3, PTL DEF Spec

-----------------------------------------------------------------------------
(* What the journal says. *)

LEMMA JournalRests ==
  ASSUME log' = log
  PROVE  \A o \in Oids : /\ Recorded(o, "opened")' = Recorded(o, "opened")
                        /\ Recorded(o, "resolved")' = Recorded(o, "resolved")
BY DEF Recorded

LEMMA JournalGrows ==
  ASSUME StoredTyped, NEW o \in Oids, NEW what \in {"opened", "resolved"}, NEW c \in 1..MaxCorr,
         log' = [log EXCEPT ![o] = Append(log[o], <<what, c>>)]
  PROVE  \A p \in Oids :
           /\ Recorded(p, "opened")' = IF p = o /\ what = "opened" THEN Recorded(p, "opened") \cup {c}
                                       ELSE Recorded(p, "opened")
           /\ Recorded(p, "resolved")' = IF p = o /\ what = "resolved"
                                         THEN Recorded(p, "resolved") \cup {c}
                                         ELSE Recorded(p, "resolved")
<1>1. log[o] \in Seq({"opened", "resolved"} \X (1..MaxCorr)) /\ log'[o] = Append(log[o], <<what, c>>)
      /\ \A p \in Oids \ {o} : log'[p] = log[p]
  BY DEF StoredTyped
<1>2. /\ DOMAIN log'[o] = DOMAIN log[o] \cup {Len(log[o]) + 1} /\ DOMAIN log[o] = 1..Len(log[o])
      /\ \A i \in DOMAIN log[o] : log'[o][i] = log[o][i]
      /\ log'[o][Len(log[o]) + 1] = <<what, c>>
  BY <1>1
<1>3. ASSUME NEW p \in Oids \ {o}, NEW w \in {"opened", "resolved"}
      PROVE  Recorded(p, w)' = Recorded(p, w)
  BY <1>1, <1>3 DEF Recorded
<1>4. ASSUME NEW w \in {"opened", "resolved"}
      PROVE  Recorded(o, w)' = IF w = what THEN Recorded(o, w) \cup {c} ELSE Recorded(o, w)
  <2>1. \A d \in 1..MaxCorr :
          (\E i \in DOMAIN log'[o] : log'[o][i] = <<w, d>>) <=>
          \/ \E i \in DOMAIN log[o] : log[o][i] = <<w, d>>
          \/ w = what /\ d = c
    <3> SUFFICES ASSUME NEW d \in 1..MaxCorr
                 PROVE  (\E i \in DOMAIN log'[o] : log'[o][i] = <<w, d>>) <=>
                        \/ \E i \in DOMAIN log[o] : log[o][i] = <<w, d>>
                        \/ w = what /\ d = c
      OBVIOUS
    <3>1. (\E i \in DOMAIN log[o] : log[o][i] = <<w, d>>) =>
            \E i \in DOMAIN log'[o] : log'[o][i] = <<w, d>>
      BY <1>2
    <3>2. w = what /\ d = c => \E i \in DOMAIN log'[o] : log'[o][i] = <<w, d>>
      BY <1>2
    <3>3. ASSUME NEW i \in DOMAIN log'[o], log'[o][i] = <<w, d>>, i \notin DOMAIN log[o]
          PROVE  w = what /\ d = c
      <4>1. <<what, c>> = <<w, d>>
        BY <1>2, <3>3
      <4> QED BY <4>1
    <3>4. (\E i \in DOMAIN log'[o] : log'[o][i] = <<w, d>>) =>
            \/ \E i \in DOMAIN log[o] : log[o][i] = <<w, d>>
            \/ w = what /\ d = c
      BY <1>2, <3>3
    <3> QED BY <3>1, <3>2, <3>4
  <2> QED BY <2>1 DEF Recorded
<1>5. \A p \in Oids, w \in {"opened", "resolved"} :
        Recorded(p, w)' = IF p = o /\ w = what THEN Recorded(p, w) \cup {c} ELSE Recorded(p, w)
  BY <1>3, <1>4
<1> QED BY <1>5

\* An identifier that nothing had is announced once.
LEMMA AnnouncedOnce ==
  ASSUME StoredTyped, OpenedOnce, NoFault, NEW o \in Oids, NEW what \in {"opened", "resolved"},
         NEW c \in 1..MaxCorr, what = "opened" => c \notin Recorded(o, "opened"),
         log' = [log EXCEPT ![o] = Append(log[o], <<what, c>>)]
  PROVE  OpenedOnce'
<1>1. log[o] \in Seq({"opened", "resolved"} \X (1..MaxCorr)) /\ log'[o] = Append(log[o], <<what, c>>)
      /\ \A p \in Oids \ {o} : log'[p] = log[p]
  BY DEF StoredTyped
<1>2. /\ DOMAIN log'[o] = DOMAIN log[o] \cup {Len(log[o]) + 1} /\ DOMAIN log[o] = 1..Len(log[o])
      /\ \A i \in DOMAIN log[o] : log'[o][i] = log[o][i]
      /\ log'[o][Len(log[o]) + 1] = <<what, c>>
  BY <1>1
<1>3. \A p \in Oids, d \in 1..MaxCorr : \A i, j \in DOMAIN log[p] :
        log[p][i] = <<"opened", d>> /\ log[p][j] = <<"opened", d>> => i = j
  BY DEF OpenedOnce, Times
<1>4. what = "opened" => \A i \in DOMAIN log[o] : log[o][i] # <<"opened", c>>
  BY DEF Recorded
<1>5. \A d \in 1..MaxCorr : \A i, j \in DOMAIN log'[o] :
        log'[o][i] = <<"opened", d>> /\ log'[o][j] = <<"opened", d>> => i = j
  <2> SUFFICES ASSUME NEW d \in 1..MaxCorr, NEW i \in DOMAIN log'[o], NEW j \in DOMAIN log'[o],
                      log'[o][i] = <<"opened", d>>, log'[o][j] = <<"opened", d>>
               PROVE  i = j
    OBVIOUS
  <2>1. CASE i \in DOMAIN log[o] /\ j \in DOMAIN log[o]
    BY <1>2, <1>3, <2>1
  <2>2. CASE i = Len(log[o]) + 1 /\ j \in DOMAIN log[o]
    <3>1. what = "opened" /\ c = d /\ log[o][j] = <<"opened", d>>
      BY <1>2, <2>2
    <3> QED BY <1>4, <2>2, <3>1
  <2>3. CASE j = Len(log[o]) + 1 /\ i \in DOMAIN log[o]
    <3>1. what = "opened" /\ c = d /\ log[o][i] = <<"opened", d>>
      BY <1>2, <2>3
    <3> QED BY <1>4, <2>3, <3>1
  <2> QED BY <1>2, <2>1, <2>2, <2>3
<1>6. \A p \in Oids, d \in 1..MaxCorr : \A i, j \in DOMAIN log'[p] :
        log'[p][i] = <<"opened", d>> /\ log'[p][j] = <<"opened", d>> => i = j
  <2> SUFFICES ASSUME NEW p \in Oids
               PROVE  \A d \in 1..MaxCorr : \A i, j \in DOMAIN log'[p] :
                 log'[p][i] = <<"opened", d>> /\ log'[p][j] = <<"opened", d>> => i = j
    OBVIOUS
  <2>1. CASE p = o
    BY <1>5, <2>1
  <2>2. CASE p # o
    <3> SUFFICES ASSUME NEW d \in 1..MaxCorr, NEW i \in DOMAIN log'[p], NEW j \in DOMAIN log'[p],
                        log'[p][i] = <<"opened", d>>, log'[p][j] = <<"opened", d>>
                 PROVE  i = j
      OBVIOUS
    <3>1. log'[p] = log[p]
      BY <1>1, <2>2
    <3>2. /\ i \in DOMAIN log[p] /\ j \in DOMAIN log[p]
          /\ log[p][i] = <<"opened", d>> /\ log[p][j] = <<"opened", d>>
      BY <3>1
    <3> QED BY <1>3, <3>2
  <2> QED BY <2>1, <2>2
<1> QED BY <1>6 DEF OpenedOnce, Times

\* The writes, one by one.
LEMMA Saves ==
  ASSUME NEW o \in Oids, NEW epi \in Epi, Perform(Save(o, epi))
  PROVE  disk' = [disk EXCEPT ![o] = epi] /\ log' = log
<1>1. Save(o, epi) \in Writes /\ Save(o, epi).do = "save" /\ Save(o, epi).oid = o
      /\ Save(o, epi).epi = epi
  BY WriteForms DEF Save
<1> QED BY <1>1, PerformForms

LEMMA Deletes ==
  ASSUME NEW o \in Oids, Perform(Delete(o))
  PROVE  disk' = [disk EXCEPT ![o] = NoEpisode] /\ log' = log
<1>1. Delete(o) \in Writes /\ Delete(o).do = "delete" /\ Delete(o).oid = o
  BY WriteForms, Nothing DEF Delete
<1> QED BY <1>1, PerformForms

LEMMA Emits ==
  ASSUME NEW o \in Oids, NEW epi \in Epi, epi # NoEpisode, NEW what \in {"opened", "resolved"},
         Perform(Emit(o, what, epi))
  PROVE  /\ log' = [log EXCEPT ![o] = Append(log[o], <<what, epi.corr>>)] /\ disk' = disk
         /\ epi.corr \in 1..MaxCorr
<1>1. Emit(o, what, epi) \in Writes /\ Emit(o, what, epi).do = what /\ Emit(o, what, epi).oid = o
      /\ Emit(o, what, epi).corr = epi.corr
  BY WriteForms DEF Emit
<1> QED BY <1>1, PerformForms DEF Epi

-----------------------------------------------------------------------------
(* The journal and the database, as long as every write is made. *)

LEMMA NothingPending == ASSUME Pending, todo = <<>> PROVE Agreed
BY DEF Pending, EndLeft, StartLeft, AlertLeft, NewsLeft

LEMMA BooksAfterSave ==
  ASSUME Typed, Books, NoFault, NEW o \in Oids, NEW epi \in Epi,
         disk' = [disk EXCEPT ![o] = epi], log' = log, UNCHANGED <<mem, dropped, nextCorr>>,
         Over(o), ~epi.fired => Unsaid(o, epi), epi.corr < nextCorr
  PROVE  Books'
<1>0. disk \in [Oids -> Epi] /\ disk'[o] = epi /\ \A p \in Oids \ {o} : disk'[p] = disk[p]
  BY DEF Typed, StoredTyped
<1>1. \A p \in Oids : /\ Recorded(p, "opened")' = Recorded(p, "opened")
                      /\ Recorded(p, "resolved")' = Recorded(p, "resolved")
  BY JournalRests
<1>2. Accounted'
  <2> SUFFICES ASSUME NEW p \in Oids
               PROVE  Unresolved(p) \subseteq dropped \cup (IF disk'[p].fired THEN {disk'[p].corr} ELSE {})
    BY <1>1 DEF Accounted, Unresolved
  <2>1. Unresolved(p) \subseteq dropped \cup (IF disk[p].fired THEN {disk[p].corr} ELSE {})
    BY DEF Books, Accounted
  <2>2. CASE p = o
    BY <2>1, <2>2 DEF Over, Unresolved
  <2>3. CASE p # o
    BY <1>0, <2>1, <2>3
  <2> QED BY <2>2, <2>3
<1>3. SavedFirst'
  BY <1>0, <1>1 DEF Books, SavedFirst, Unsaid
<1>4. FreshIdentifiers'
  BY <1>0, <1>1 DEF Books, FreshIdentifiers
<1>5. OpenedOnce'
  BY DEF Books, OpenedOnce, Times, NoFault
<1> QED BY <1>2, <1>3, <1>4, <1>5 DEF Books

LEMMA BooksAfterEmit ==
  ASSUME Typed, Books, NoFault, NEW o \in Oids, NEW what \in {"opened", "resolved"}, NEW c \in 1..MaxCorr,
         log' = [log EXCEPT ![o] = Append(log[o], <<what, c>>)],
         UNCHANGED <<disk, mem, dropped, nextCorr>>,
         what = "opened" =>
           /\ mem[o].fired /\ disk[o].fired /\ disk[o].corr = c /\ c \notin Recorded(o, "opened")
  PROVE  Books'
<1>1. \A p \in Oids :
           /\ Recorded(p, "opened")' = IF p = o /\ what = "opened" THEN Recorded(p, "opened") \cup {c}
                                       ELSE Recorded(p, "opened")
           /\ Recorded(p, "resolved")' = IF p = o /\ what = "resolved"
                                         THEN Recorded(p, "resolved") \cup {c}
                                         ELSE Recorded(p, "resolved")
  <2>1. StoredTyped
    BY DEF Typed
  <2> QED BY <2>1, JournalGrows
<1>2. Accounted'
  <2> SUFFICES ASSUME NEW p \in Oids
               PROVE  (Recorded(p, "opened")' \ Recorded(p, "resolved")') \subseteq
                        dropped \cup (IF disk[p].fired THEN {disk[p].corr} ELSE {})
    BY DEF Accounted, Unresolved
  <2>1. Recorded(p, "opened") \ Recorded(p, "resolved") \subseteq
          dropped \cup (IF disk[p].fired THEN {disk[p].corr} ELSE {})
    BY DEF Books, Accounted, Unresolved
  <2>2. /\ Recorded(p, "resolved") \subseteq Recorded(p, "resolved")'
        /\ Recorded(p, "opened")' \subseteq
             Recorded(p, "opened") \cup (IF p = o /\ what = "opened" THEN {c} ELSE {})
    BY <1>1
  <2> QED BY <2>1, <2>2
<1>3. SavedFirst'
  <2> SUFFICES ASSUME NEW p \in Oids
               PROVE  /\ ~disk[p].fired => disk[p].corr \notin Recorded(p, "opened")'
                      /\ ~mem[p].fired => mem[p].corr \notin Recorded(p, "opened")'
    BY DEF SavedFirst, Unsaid
  <2>1. Recorded(p, "opened")' = IF p = o /\ what = "opened" THEN Recorded(p, "opened") \cup {c}
                                 ELSE Recorded(p, "opened")
    BY <1>1
  <2> QED BY <2>1 DEF Books, SavedFirst, Unsaid
<1>4. FreshIdentifiers'
  <2> SUFFICES ASSUME NEW p \in Oids
               PROVE  /\ disk[p].corr < nextCorr /\ mem[p].corr < nextCorr
                      /\ \A d \in Recorded(p, "opened")' : d < nextCorr
    BY DEF FreshIdentifiers
  <2>1. Recorded(p, "opened")' = IF p = o /\ what = "opened" THEN Recorded(p, "opened") \cup {c}
                                 ELSE Recorded(p, "opened")
    BY <1>1
  <2> QED BY <2>1 DEF Books, FreshIdentifiers
<1>5. OpenedOnce'
  BY AnnouncedOnce DEF Books, Typed
<1> QED BY <1>2, <1>3, <1>4, <1>5 DEF Books

\* One write of an episode, one after the other.
LEMMA EndWritten ==
  ASSUME Typed, Books, NoFault, Write, NEW o \in Oids, EndLeft(o) PROVE Books' /\ Pending'
<1>0. /\ Perform(Head(todo)) /\ todo' = Tail(todo)
      /\ UNCHANGED <<mem, nextCorr, dropped>>
  BY DEF Write, memory
<1>1. disk \in [Oids -> Epi] /\ disk[o] \in Epi
  BY DEF Typed, StoredTyped
<1>2. CASE todo = <<Delete(o)>> /\ Over(o)
  <2>1. Perform(Delete(o)) /\ todo' = <<>>
    BY <1>0, <1>2
  <2>2. disk' = [disk EXCEPT ![o] = NoEpisode] /\ log' = log
    BY <2>1, Deletes
  <2>3. mem[o] = NoEpisode /\ Unsaid(o, NoEpisode) /\ NoEpisode.corr < nextCorr
    BY Nothing DEF EndLeft, Books, SavedFirst, FreshIdentifiers
  <2>4. Books'
    BY <1>0, <1>2, <2>2, <2>3, Nothing, BooksAfterSave
  <2>5. Agreed'
    BY <1>0, <1>1, <2>2, <2>3 DEF EndLeft, AgreedBut, Agreed, Typed, ProcessTyped
  <2> QED BY <2>1, <2>4, <2>5 DEF Pending
<1>3. CASE todo = <<Emit(o, "resolved", disk[o]), Delete(o)>>
  <2>1. Perform(Emit(o, "resolved", disk[o])) /\ todo' = <<Delete(o)>>
    BY <1>0, <1>3
  <2>2. disk[o] # NoEpisode
    <3>1. Head(todo) \in Writes /\ Head(todo) = Emit(o, "resolved", disk[o])
      BY <1>3 DEF Typed, ProcessTyped
    <3>2. Emit(o, "resolved", disk[o]).do = "resolved"
          /\ Emit(o, "resolved", disk[o]).corr = disk[o].corr
      BY DEF Emit
    <3>3. disk[o].corr \in 1..MaxCorr
      BY <3>1, <3>2 DEF Writes
    <3> QED BY <3>3, Nothing
  <2>3. /\ log' = [log EXCEPT ![o] = Append(log[o], <<"resolved", disk[o].corr>>)] /\ disk' = disk
        /\ disk[o].corr \in 1..MaxCorr
    BY <1>1, <2>1, <2>2, Emits
  <2>4. Books'
    BY <1>0, <2>3, BooksAfterEmit
  <2>5. Over(o)'
    <3>1. StoredTyped
      BY DEF Typed
    <3>2. disk[o].corr \in Recorded(o, "resolved")'
      <4>1. PICK c \in 1..MaxCorr : c = disk[o].corr
        BY <2>3
      <4>2. log' = [log EXCEPT ![o] = Append(log[o], <<"resolved", c>>)]
        BY <2>3, <4>1
      <4>3. Recorded(o, "resolved")' = Recorded(o, "resolved") \cup {c}
        BY <3>1, <4>2, JournalGrows
      <4> QED BY <4>1, <4>3
    <3> QED BY <2>3, <3>2 DEF Over
  <2>6. EndLeft(o)'
    BY <1>0, <2>1, <2>3, <2>5 DEF EndLeft, AgreedBut
  <2> QED BY <2>4, <2>6 DEF Pending
<1> QED BY <1>2, <1>3 DEF EndLeft

LEMMA StartWritten ==
  ASSUME Typed, Books, NoFault, Write, NEW o \in Oids, StartLeft(o) PROVE Books' /\ Pending'
<1>1. /\ Perform(Save(o, mem[o])) /\ todo' = <<>>
      /\ UNCHANGED <<mem, nextCorr, dropped>>
  BY DEF Write, memory, StartLeft
<1>2. disk \in [Oids -> Epi] /\ mem \in [Oids -> Epi] /\ mem[o] \in Epi
  BY DEF Typed, StoredTyped, ProcessTyped
<1>3. disk' = [disk EXCEPT ![o] = mem[o]] /\ log' = log
  BY <1>1, <1>2, Saves
<1>4. Books'
  BY <1>1, <1>2, <1>3, BooksAfterSave DEF StartLeft, Books, FreshIdentifiers
<1>5. Agreed'
  BY <1>1, <1>2, <1>3 DEF StartLeft, AgreedBut, Agreed
<1> QED BY <1>1, <1>4, <1>5 DEF Pending

LEMMA AlertWritten ==
  ASSUME Typed, Books, NoFault, Write, NEW o \in Oids, AlertLeft(o) PROVE Books' /\ Pending'
<1>0. /\ Perform(Head(todo)) /\ todo' = Tail(todo)
      /\ UNCHANGED <<mem, nextCorr, dropped>>
  BY DEF Write, memory
<1>1. disk \in [Oids -> Epi] /\ mem \in [Oids -> Epi] /\ mem[o] \in Epi
      /\ mem[o].corr < nextCorr /\ mem[o].fired /\ Unsaid(o, mem[o]) /\ Over(o) /\ AgreedBut(o)
  BY DEF Typed, StoredTyped, ProcessTyped, Books, FreshIdentifiers, AlertLeft
<1>2. CASE todo = <<Save(o, mem[o]), Emit(o, "opened", mem[o])>>
  <2>1. Perform(Save(o, mem[o])) /\ todo' = <<Emit(o, "opened", mem[o])>>
    BY <1>0, <1>2
  <2>2. disk' = [disk EXCEPT ![o] = mem[o]] /\ log' = log
    BY <1>1, <2>1, Saves
  <2>3. Books'
    BY <1>0, <1>1, <2>2, BooksAfterSave
  <2>4. Agreed'
    BY <1>0, <1>1, <2>2 DEF AgreedBut, Agreed
  <2>5. Unsaid(o, mem[o])'
    BY <1>0, <1>1, <2>2 DEF Unsaid, Recorded
  <2>6. NewsLeft(o)'
    BY <1>0, <1>1, <2>1, <2>4, <2>5 DEF NewsLeft
  <2> QED BY <2>3, <2>6 DEF Pending
<1>3. CASE \E epi \in Epi :
             /\ ~epi.fired /\ epi.corr = mem[o].corr
             /\ todo = <<Save(o, epi), Save(o, mem[o]), Emit(o, "opened", mem[o])>>
  <2>0. PICK epi \in Epi :
             /\ ~epi.fired /\ epi.corr = mem[o].corr
             /\ todo = <<Save(o, epi), Save(o, mem[o]), Emit(o, "opened", mem[o])>>
    BY <1>3
  <2>1. Perform(Save(o, epi)) /\ todo' = <<Save(o, mem[o]), Emit(o, "opened", mem[o])>>
    BY <1>0, <2>0
  <2>2. disk' = [disk EXCEPT ![o] = epi] /\ log' = log
    BY <2>1, Saves
  <2>3. Unsaid(o, epi) /\ epi.corr < nextCorr
    BY <1>1, <2>0 DEF Unsaid
  <2>4. Books'
    BY <1>0, <1>1, <2>2, <2>3, BooksAfterSave
  <2>5. AgreedBut(o)' /\ Over(o)' /\ disk'[o] = epi
    BY <1>0, <1>1, <2>0, <2>2 DEF AgreedBut, Over
  <2>6. Unsaid(o, mem[o])'
    BY <1>0, <1>1, <2>2 DEF Unsaid, Recorded
  <2>7. AlertLeft(o)'
    BY <1>0, <1>1, <2>1, <2>5, <2>6 DEF AlertLeft
  <2> QED BY <2>4, <2>7 DEF Pending
<1> QED BY <1>2, <1>3 DEF AlertLeft

LEMMA NewsWritten ==
  ASSUME Typed, Books, NoFault, Write, NEW o \in Oids, NewsLeft(o) PROVE Books' /\ Pending'
<1>1. /\ Perform(Emit(o, "opened", mem[o])) /\ todo' = <<>>
      /\ UNCHANGED <<mem, nextCorr, dropped>>
  BY DEF Write, memory, NewsLeft
<1>2. mem[o] \in Epi /\ mem[o].fired /\ mem[o] # NoEpisode /\ disk[o] = mem[o]
  BY Nothing DEF Typed, ProcessTyped, NewsLeft, Agreed
<1>3. /\ log' = [log EXCEPT ![o] = Append(log[o], <<"opened", mem[o].corr>>)] /\ disk' = disk
      /\ mem[o].corr \in 1..MaxCorr
  BY <1>1, <1>2, Emits
<1>4. Books'
  BY <1>1, <1>2, <1>3, BooksAfterEmit DEF NewsLeft, Unsaid
<1> QED BY <1>1, <1>3, <1>4 DEF NewsLeft, Agreed, Pending

LEMMA WriteSound == ASSUME Typed, Sound, Write PROVE Sound'
<1> SUFFICES ASSUME NoFault' PROVE Books' /\ Pending'
  BY DEF Sound
<1>1. NoFault /\ Books /\ Pending /\ todo # <<>>
  BY DEF Sound, Write, NoFault
<1>2. ASSUME NEW w \in Writes, todo = <<w>>, w.do \in {"down", "up"}, Agreed PROVE Books' /\ Pending'
  <2>1. Perform(w) /\ todo' = <<>> /\ UNCHANGED <<mem, nextCorr, dropped>>
    BY <1>2 DEF Write, memory
  <2>2. UNCHANGED <<disk, log>>
    BY <1>2, <2>1, PerformForms
  <2>3. \A p \in Oids : /\ Recorded(p, "opened")' = Recorded(p, "opened")
                        /\ Recorded(p, "resolved")' = Recorded(p, "resolved")
    BY <2>2, JournalRests
  <2>4. Books'
    BY <1>1, <2>1, <2>2, <2>3 DEF Books, Accounted, Unresolved, SavedFirst, Unsaid, FreshIdentifiers,
                                  OpenedOnce, Times
  <2> QED BY <1>2, <2>1, <2>2, <2>4 DEF Pending, Agreed
<1> QED BY <1>1, <1>2, EndWritten, StartWritten, AlertWritten, NewsWritten DEF Pending

LEMMA SampleSound == ASSUME Typed, Sound, EvaluateSample PROVE Sound'
<1> SUFFICES ASSUME NoFault' PROVE Books' /\ Pending'
  BY DEF Sound
<1>a. PICK o \in Oids : o = Head(left)
  BY SampleCases
<1>0. /\ o \in Oids /\ Evaluated(o) /\ up /\ up' = up /\ todo = <<>> /\ disk' = disk /\ log' = log
      /\ UNCHANGED <<round, budget>>
  BY <1>a, SampleCases DEF stored
<1>1. NoFault /\ Books /\ Agreed
  BY <1>0, NothingPending DEF Sound, NoFault
<1>2. disk \in [Oids -> Epi] /\ mem \in [Oids -> Epi] /\ mem[o] \in Epi
      /\ disk[o] = mem[o] /\ mem[o].corr < nextCorr /\ nextCorr \in Nat
  BY <1>0, <1>1, Bounds DEF Typed, StoredTyped, ProcessTyped, Agreed, Books, FreshIdentifiers
<1>3. /\ \A p \in Oids : /\ Recorded(p, "opened")' = Recorded(p, "opened")
                         /\ Recorded(p, "resolved")' = Recorded(p, "resolved")
      /\ \A p \in Oids, e \in Epi : Unsaid(p, e)' <=> e.corr' \notin Recorded(p, "opened")
  BY <1>0, JournalRests DEF Unsaid
<1>4. ASSUME dropped \subseteq dropped', nextCorr' \in {nextCorr, nextCorr + 1},
             NEW epi \in Epi, mem' = [mem EXCEPT ![o] = epi], epi.corr < nextCorr',
             ~epi.fired => Unsaid(o, epi)
      PROVE  Books' /\ AgreedBut(o)' /\ mem'[o] = epi
  <2>1. mem'[o] = epi /\ \A p \in Oids \ {o} : mem'[p] = mem[p]
    BY <1>0, <1>2, <1>4
  <2>2. Accounted'
    BY <1>0, <1>1, <1>3, <1>4 DEF Books, Accounted, Unresolved
  <2>3. SavedFirst'
    BY <1>0, <1>1, <1>3, <1>4, <2>1 DEF Books, SavedFirst, Unsaid
  <2>4. FreshIdentifiers'
    <3> SUFFICES ASSUME NEW p \in Oids
                 PROVE  /\ disk[p].corr < nextCorr' /\ mem'[p].corr < nextCorr'
                        /\ \A c \in Recorded(p, "opened") : c < nextCorr'
      BY <1>0, <1>3 DEF FreshIdentifiers
    <3>1. /\ disk[p].corr < nextCorr /\ mem[p].corr < nextCorr
          /\ \A c \in Recorded(p, "opened") : c < nextCorr
      BY <1>1 DEF Books, FreshIdentifiers
    <3>2. disk[p].corr \in Nat /\ mem[p].corr \in Nat /\ \A c \in Recorded(p, "opened") : c \in Nat
      BY <1>2, Bounds DEF Epi, Episodes, Recorded
    <3> QED BY <1>2, <1>4, <2>1, <3>1, <3>2
  <2>5. OpenedOnce'
    BY <1>0, <1>1 DEF Books, OpenedOnce, Times
  <2> QED BY <1>0, <1>1, <2>1, <2>2, <2>3, <2>4, <2>5 DEF Books, AgreedBut, Agreed
<1>5. ~mem[o].fired => Unsaid(o, mem[o])
  BY <1>0, <1>1 DEF Books, SavedFirst
<1>6. \A e \in Epi : e.corr = nextCorr => Unsaid(o, e) /\ e.corr < nextCorr + 1
  BY <1>0, <1>1, <1>2 DEF Books, FreshIdentifiers, Unsaid
<1>7. DropsOld(o) => Over(o)' /\ dropped \subseteq dropped'
  BY <1>0, <1>2 DEF DropsOld, Over
<1>8. CASE GoesOn(o) \/ AllIsWell(o)
  <2>1. mem' = mem /\ todo' = <<>> /\ dropped' = dropped /\ nextCorr' = nextCorr
    BY <1>8 DEF GoesOn, AllIsWell
  <2>2. mem' = [mem EXCEPT ![o] = mem[o]]
    BY <1>2, <2>1
  <2>3. Books'
    BY <1>2, <1>4, <1>5, <2>1, <2>2
  <2> QED BY <1>0, <1>1, <2>1, <2>3 DEF Pending, Agreed
<1>9. CASE Fires(o)
  <2>1. PICK then \in Epi :
          /\ then.fired /\ then.corr = mem[o].corr /\ mem' = [mem EXCEPT ![o] = then]
          /\ todo' = <<Save(o, then), Emit(o, "opened", then)>>
    BY <1>9 DEF Fires
  <2>2. dropped' = dropped /\ nextCorr' = nextCorr /\ ~mem[o].fired
    BY <1>9 DEF Fires
  <2>3. Books' /\ AgreedBut(o)' /\ mem'[o] = then
    BY <1>2, <1>4, <2>1, <2>2
  <2>4. Over(o)'
    BY <1>0, <1>2, <2>2 DEF Over
  <2>5. then.corr \notin Recorded(o, "opened")'
    BY <1>0, <1>3, <1>5, <2>1, <2>2 DEF Unsaid
  <2>6. AlertLeft(o)'
    BY <2>1, <2>3, <2>4, <2>5 DEF AlertLeft, Unsaid
  <2> QED BY <1>0, <2>3, <2>6 DEF Pending
<1>10. CASE Starts(o)
  <2>1. PICK epi \in Epi :
          /\ epi.corr = nextCorr /\ ~epi.fired
          /\ mem' = [mem EXCEPT ![o] = epi] /\ todo' = <<Save(o, epi)>>
    BY <1>10 DEF Starts, IsNew
  <2>2. DropsOld(o) /\ nextCorr' = nextCorr + 1
    BY <1>10 DEF Starts
  <2>3. Books' /\ AgreedBut(o)' /\ mem'[o] = epi
    BY <1>4, <1>6, <1>7, <2>1, <2>2
  <2>4. epi.corr \notin Recorded(o, "opened")'
    BY <1>0, <1>3, <1>6, <2>1 DEF Unsaid
  <2>5. StartLeft(o)'
    BY <1>7, <2>1, <2>2, <2>3, <2>4 DEF StartLeft, Unsaid
  <2> QED BY <1>0, <2>3, <2>5 DEF Pending
<1>11. CASE StartsAndFires(o)
  <2>1. PICK epi \in Epi, then \in Epi :
          /\ epi.corr = nextCorr /\ ~epi.fired /\ then.corr = nextCorr /\ then.fired
          /\ mem' = [mem EXCEPT ![o] = then]
          /\ todo' = <<Save(o, epi), Save(o, then), Emit(o, "opened", then)>>
    BY <1>11 DEF StartsAndFires, IsNew
  <2>2. DropsOld(o) /\ nextCorr' = nextCorr + 1
    BY <1>11 DEF StartsAndFires
  <2>3. Books' /\ AgreedBut(o)' /\ mem'[o] = then
    BY <1>4, <1>6, <1>7, <2>1, <2>2
  <2>4. then.corr \notin Recorded(o, "opened")'
    BY <1>0, <1>3, <1>6, <2>1 DEF Unsaid
  <2>5. \E e \in Epi :
          /\ ~e.fired /\ e.corr = mem'[o].corr
          /\ todo' = <<Save(o, e), Save(o, mem'[o]), Emit(o, "opened", mem'[o])>>
    BY <2>1, <2>3
  <2>6. AlertLeft(o)'
    BY <1>7, <2>1, <2>2, <2>3, <2>4, <2>5 DEF AlertLeft, Unsaid
  <2> QED BY <1>0, <2>3, <2>6 DEF Pending
<1>12. CASE Ends(o)
  <2>1. mem' = [mem EXCEPT ![o] = NoEpisode] /\ nextCorr' = nextCorr
    BY <1>12 DEF Ends
  <2>2. Unsaid(o, NoEpisode) /\ NoEpisode.corr < nextCorr
    BY <1>2, Nothing, Bounds DEF Unsaid, Recorded, Typed, ProcessTyped
  <2>3. dropped \subseteq dropped'
    BY <1>7, <1>12 DEF Ends
  <2>4. Books' /\ AgreedBut(o)' /\ mem'[o] = NoEpisode
    BY <1>4, <2>1, <2>2, <2>3, Nothing
  <2>5. \/ todo' = <<Emit(o, "resolved", disk'[o]), Delete(o)>>
        \/ todo' = <<Delete(o)>> /\ Over(o)'
    BY <1>0, <1>2, <1>7, <1>12 DEF Ends
  <2>6. EndLeft(o)'
    BY <2>4, <2>5 DEF EndLeft
  <2> QED BY <1>0, <2>4, <2>6 DEF Pending
<1> QED BY <1>0, <1>8, <1>9, <1>10, <1>11, <1>12 DEF Evaluated

\* What no step but those of the memory and of the writes disturbs.
LEMMA BooksRest ==
  ASSUME Books, NoFault, NoFault', UNCHANGED <<disk, log, mem, dropped, nextCorr>> PROVE Books'
<1>1. \A p \in Oids : /\ Recorded(p, "opened")' = Recorded(p, "opened")
                      /\ Recorded(p, "resolved")' = Recorded(p, "resolved")
  BY JournalRests
<1> QED BY <1>1 DEF Books, Accounted, Unresolved, SavedFirst, Unsaid, FreshIdentifiers, OpenedOnce, Times

LEMMA RoundSound == ASSUME Typed, Sound, Poll \/ Reachability \/ Return PROVE Sound'
<1> SUFFICES ASSUME NoFault' PROVE Books' /\ Pending'
  BY DEF Sound
<1>1. /\ UNCHANGED <<disk, log, mem, dropped, nextCorr, budget, up>> /\ up /\ todo = <<>>
  BY DEF Poll, Reachability, Return, Typed, Quiet, stored, memory
<1>2. NoFault /\ Books /\ Agreed
  BY <1>1, NothingPending DEF Sound, NoFault
<1>3. Agreed' /\ Books'
  BY <1>1, <1>2, BooksRest DEF Agreed
<1>4. CASE Reachability
  <2>1. \A what \in {"down", "up"} : Reach(what, round) \in Writes /\ Reach(what, round).do = what
    BY DEF Reach, Writes
  <2>2. \/ todo' = <<>> \/ todo' = <<Reach("down", round)>> \/ todo' = <<Reach("up", round)>>
    BY <1>4 DEF Reachability
  <2>3. todo' = <<>> \/ \E w \in Writes : todo' = <<w>> /\ w.do \in {"down", "up"}
    BY <2>1, <2>2
  <2> QED BY <1>3, <2>3 DEF Pending
<1>5. CASE Poll \/ Return
  <2>1. todo' = <<>>
    BY <1>1, <1>5 DEF Poll, Return
  <2> QED BY <1>3, <2>1 DEF Pending
<1> QED BY <1>4, <1>5

LEMMA ProcessSound == ASSUME Typed, Sound, Crash \/ Exit \/ Launch PROVE Sound'
<1> SUFFICES ASSUME NoFault' PROVE Books' /\ (up' => Pending')
  BY DEF Sound
<1>0. GhostsTyped /\ disk \in [Oids -> Epi] /\ mem \in [Oids -> Epi] /\ nextCorr \in Nat /\ nextCorr > 0
  BY Bounds DEF Typed, StoredTyped, ProcessTyped
<1>1. CASE Launch
  <2>1. mem' = disk /\ budget' = budget
    BY <1>0, <1>1, BudgetSpent DEF Launch
  <2>2. UNCHANGED <<disk, log, dropped, nextCorr, todo>> /\ ~up
    BY <1>1 DEF Launch, stored
  <2>3. NoFault /\ Books
    BY <2>1 DEF Sound, NoFault
  <2>4. \A p \in Oids : /\ Recorded(p, "opened")' = Recorded(p, "opened")
                        /\ Recorded(p, "resolved")' = Recorded(p, "resolved")
    BY <2>2, JournalRests
  <2>5. Books'
    BY <2>1, <2>2, <2>3, <2>4 DEF Books, Accounted, Unresolved, SavedFirst, Unsaid, FreshIdentifiers,
                                  OpenedOnce, Times
  <2>6. Agreed' /\ todo' = <<>>
    BY <2>1, <2>2 DEF Agreed, Typed, Quiet
  <2> QED BY <2>5, <2>6 DEF Pending
<1>2. CASE Crash \/ Exit
  <2>1. ~up' /\ mem' = [o \in Oids |-> NoEpisode] /\ UNCHANGED <<disk, log, dropped, nextCorr>>
    BY <1>2 DEF Crash, Exit, Goes, stored
  <2>2. NoFault
    BY <1>0, <1>2, BudgetSpent DEF Crash, Exit
  <2>3. Books
    BY <2>2 DEF Sound
  <2>4. \A p \in Oids : /\ Recorded(p, "opened")' = Recorded(p, "opened")
                        /\ Recorded(p, "resolved")' = Recorded(p, "resolved")
    BY <2>1, JournalRests
  <2>5. \A p \in Oids : mem'[p] = NoEpisode /\ 0 \notin Recorded(p, "opened")
    BY <2>1, Bounds DEF Recorded
  <2>6. SavedFirst'
    BY <2>1, <2>3, <2>4, <2>5, Nothing DEF Books, SavedFirst, Unsaid
  <2>7. FreshIdentifiers'
    BY <1>0, <2>1, <2>3, <2>4, <2>5, Nothing DEF Books, FreshIdentifiers
  <2>8. Accounted' /\ OpenedOnce'
    BY <2>1, <2>2, <2>3, <2>4 DEF Books, Accounted, Unresolved, OpenedOnce, Times
  <2> QED BY <2>1, <2>6, <2>7, <2>8 DEF Books
<1> QED BY <1>1, <1>2

LEMMA StepSound == ASSUME Typed, Sound, [Next]_vars PROVE Sound'
<1>1. CASE UNCHANGED vars
  <2> SUFFICES ASSUME NoFault' PROVE Books' /\ (up' => Pending')
    BY DEF Sound
  <2>1. UNCHANGED <<disk, log, mem, dropped, nextCorr, todo, up, budget>>
    BY <1>1 DEF vars, stored, memory
  <2>2. NoFault /\ Books /\ (up => Pending)
    BY <2>1 DEF Sound, NoFault
  <2>3. Books'
    BY <2>1, <2>2, BooksRest
  <2>4. \A p \in Oids : /\ Recorded(p, "opened")' = Recorded(p, "opened")
                        /\ Recorded(p, "resolved")' = Recorded(p, "resolved")
    BY <2>1, JournalRests
  <2>5. Pending => Pending'
    BY <2>1, <2>4 DEF Pending, EndLeft, StartLeft, AlertLeft, NewsLeft, Agreed, AgreedBut, Over, Unsaid
  <2> QED BY <2>1, <2>2, <2>3, <2>5
<1>2. CASE WriteFails
  <2>1. ~NoFault'
    BY <1>2, BudgetSpent DEF WriteFails, Typed
  <2> QED BY <2>1 DEF Sound
<1> QED BY <1>1, <1>2, RoundSound, SampleSound, WriteSound, ProcessSound DEF Next

LEMMA InitSound == ASSUME Init PROVE Sound
<1>1. \A o \in Oids : disk[o] = NoEpisode /\ mem[o] = NoEpisode /\ log[o] = <<>>
  BY DEF Init
<1>2. \A o \in Oids : Recorded(o, "opened") = {} /\ Recorded(o, "resolved") = {}
  <2>1. DOMAIN <<>> = {}
    OBVIOUS
  <2>2. \A o \in Oids : DOMAIN log[o] = {}
    BY <1>1, <2>1
  <2> QED BY <2>2 DEF Recorded
<1>3. Accounted /\ SavedFirst
  BY <1>2 DEF Accounted, Unresolved, SavedFirst, Unsaid
<1>4. FreshIdentifiers
  <2>1. nextCorr = 1
    BY DEF Init
  <2>2. \A o \in Oids : disk[o].corr = 0 /\ mem[o].corr = 0
    BY <1>1, Nothing
  <2>3. \A o \in Oids : disk[o].corr < nextCorr /\ mem[o].corr < nextCorr
    <3> SUFFICES ASSUME NEW o \in Oids PROVE disk[o].corr < nextCorr /\ mem[o].corr < nextCorr
      OBVIOUS
    <3>1. disk[o].corr = 0 /\ mem[o].corr = 0 /\ nextCorr = 1 /\ 0 < 1
      BY <2>1, <2>2
    <3> QED BY <3>1
  <2>4. \A o \in Oids : \A c \in Recorded(o, "opened") : c < nextCorr
    BY <1>2
  <2> QED BY <2>3, <2>4 DEF FreshIdentifiers
<1>5. OpenedOnce
  BY <1>1 DEF OpenedOnce, Times
<1> QED BY <1>3, <1>4, <1>5 DEF Init, Sound, Books

-----------------------------------------------------------------------------
(* How long an alert has held, as long as nothing is lost. *)

\* A round: an episode of the side that the reading is on has been there since.
LEMMA PollTimely ==
  ASSUME Typed, Timely, Poll PROVE Timely'
<1> SUFFICES ASSUME NoFault', NoCrash' PROVE Held' /\ AlertHasHeld'
  BY DEF Timely
<1>1. /\ up /\ up' = up /\ stage = "idle" /\ stage' = "reach" /\ todo' = <<>>
      /\ UNCHANGED <<mem, budget>>
  BY DEF Poll, memory, Typed, Quiet
<1>2. Held
  BY <1>1 DEF Timely, NoFault, NoCrash
<1>3. ASSUME NEW o \in Oids PROVE Kept(o, mem[o])'
  <2> SUFFICES ASSUME mem[o] # NoEpisode, mem[o].kind = round'[o]
               PROVE  since'[o] > 0 /\ mem[o].first > since'[o] - Second
    BY <1>1 DEF Kept, HeldSince, Waiting
  <2>1. mem[o].kind = round[o] /\ HeldSince(o, mem[o])
    BY <1>1, <1>2, <1>3 DEF Held, Kept, Waiting
  <2>2. Breached(round'[o])
    BY DEF Breached, Epi, Typed, ProcessTyped
  <2>3. since'[o] = since[o]
    BY <2>1, <2>2, PollTyped DEF HeldSince
  <2> QED BY <2>1, <2>3 DEF HeldSince
<1>4. Held'
  BY <1>1, <1>3 DEF Held
<1> QED BY <1>1, <1>4 DEF AlertHasHeld

LEMMA RoundTimely ==
  ASSUME Typed, Timely, Reachability \/ Return PROVE Timely'
<1> SUFFICES ASSUME NoFault', NoCrash' PROVE Held' /\ AlertHasHeld'
  BY DEF Timely
<1>1. /\ up /\ up' = up /\ UNCHANGED <<mem, round, now, since, budget>>
  BY DEF Reachability, Return, memory
<1>2. Held
  BY <1>1 DEF Timely, NoFault, NoCrash
<1>3. \A o \in Oids : ~Waiting(o)' => ~Waiting(o)
  <2>1. CASE Reachability
    BY <2>1, EvaluatorAssumption DEF Reachability, Waiting
  <2>2. CASE Return
    <3>1. DOMAIN <<>> = {}
      OBVIOUS
    <3> QED BY <2>2, <3>1 DEF Return, Waiting
  <2> QED BY <2>1, <2>2
<1>4. Held'
  BY <1>1, <1>2, <1>3 DEF Held, Kept, HeldSince
<1>5. AlertHasHeld'
  <2>1. CASE Reachability
    <3>1. \A what \in {"down", "up"} : Reach(what, round).do # "opened"
      BY DEF Reach
    <3>2. \/ todo' = <<>> \/ todo' = <<Reach("down", round)>> \/ todo' = <<Reach("up", round)>>
      BY <2>1 DEF Reachability
    <3>3. \A i \in DOMAIN todo' : todo'[i].do # "opened"
      BY <3>1, <3>2
    <3> QED BY <3>3 DEF AlertHasHeld
  <2>2. CASE Return
    <3>1. todo' = <<>>
      BY <2>2 DEF Return
    <3> QED BY <3>1 DEF AlertHasHeld
  <2> QED BY <2>1, <2>2
<1> QED BY <1>4, <1>5

LEMMA SampleTimely ==
  ASSUME Typed, Timely, EvaluateSample PROVE Timely'
<1> SUFFICES ASSUME NoFault', NoCrash' PROVE Held' /\ AlertHasHeld'
  BY DEF Timely
<1>a. PICK o \in Oids : o = Head(left)
  BY SampleCases
<1>0. /\ Evaluated(o) /\ up /\ up' = up /\ stage = "samples" /\ stage' = stage
      /\ left # <<>> /\ left' = Tail(left) /\ UNCHANGED <<round, now, since, budget>>
  BY <1>a, SampleCases
<1>1. Held
  BY <1>0 DEF Timely, NoFault, NoCrash
<1>2. ASSUME NEW p \in Oids, p # o, Waiting(p) PROVE Waiting(p)'
  <2>1. PICK i \in DOMAIN left : left[i] = p
    BY <1>0, <1>2 DEF Waiting
  <2>2. left \in Seq(Oids) /\ i \in 1..Len(left) /\ i # 1
    BY <1>a, <1>2, <2>1 DEF Typed, ProcessTyped
  <2>3. i - 1 \in DOMAIN left' /\ left'[i - 1] = p
    BY <1>0, <2>1, <2>2
  <2> QED BY <1>0, <2>3 DEF Waiting
<1>3. /\ mem \in [Oids -> Epi] /\ now \in Nat /\ since[o] \in Nat /\ since[o] <= now
      /\ (Breached(round[o]) => since[o] > 0)
  BY Bounds DEF Typed, ProcessTyped, GhostsTyped
<1>4. ASSUME NEW epi \in Epi, IsNew(o, epi), Breached(round[o])
      PROVE  epi.kind = round[o] /\ HeldSince(o, epi)
  <2>1. epi.first \in Nat
    BY Bounds DEF Epi, Episodes
  <2> QED BY <1>3, <1>4, <2>1, Bounds DEF IsNew, HeldSince
<1>5. mem[o] # NoEpisode /\ mem[o].kind = round[o] => HeldSince(o, mem[o])
  BY <1>0, <1>1 DEF Held, Kept
<1>6. ASSUME NEW epi \in Epi, HeldSince(o, epi), Sustained(epi)
      PROVE  since[o] > 0 /\ now - since[o] > Dwell - Second
  <2>1. epi.first \in Nat
    BY Bounds DEF Epi, Episodes
  <2> QED BY <1>3, <1>6, <2>1, Bounds DEF HeldSince, Sustained
<1>7. ASSUME NEW epi \in Epi, mem' = [mem EXCEPT ![o] = epi],
             epi # NoEpisode => epi.kind = round[o] /\ HeldSince(o, epi)
      PROVE  Held'
  <2>1. mem'[o] = epi /\ \A p \in Oids \ {o} : mem'[p] = mem[p]
    BY <1>3, <1>7
  <2>2. Kept(o, mem[o])'
    BY <1>0, <1>7, <2>1 DEF Kept, HeldSince
  <2>3. ASSUME NEW p \in Oids \ {o} PROVE Kept(p, mem[p])'
    <3>1. Kept(p, mem[p]) /\ (~Waiting(p)' => ~Waiting(p))
      BY <1>0, <1>1, <1>2 DEF Held
    <3> QED BY <1>0, <2>1, <3>1 DEF Kept, HeldSince
  <2> QED BY <1>0, <2>2, <2>3 DEF Held
<1>8. ASSUME \A i \in DOMAIN todo' : todo'[i].do = "opened" =>
               todo'[i].oid = o /\ since[o] > 0 /\ now - since[o] > Dwell - Second
      PROVE  AlertHasHeld'
  BY <1>0, <1>8 DEF AlertHasHeld
<1>9. /\ \A epi : Save(o, epi).do = "save" /\ Delete(o).do = "delete"
      /\ \A epi, what : Emit(o, what, epi).do = what /\ Emit(o, what, epi).oid = o
  BY DEF Save, Delete, Emit
<1>10. CASE GoesOn(o) \/ AllIsWell(o)
  <2>1. mem' = mem /\ todo' = <<>> /\ (mem[o] # NoEpisode => mem[o].kind = round[o])
    BY <1>10 DEF GoesOn, AllIsWell
  <2>2. mem' = [mem EXCEPT ![o] = mem[o]] /\ mem[o] \in Epi
    BY <1>3, <2>1
  <2>3. Held'
    BY <1>5, <1>7, <2>1, <2>2
  <2> QED BY <2>1, <2>3 DEF AlertHasHeld
<1>11. CASE Fires(o)
  <2>1. PICK then \in Epi :
          /\ then.kind = mem[o].kind /\ then.first = mem[o].first /\ mem' = [mem EXCEPT ![o] = then]
          /\ todo' = <<Save(o, then), Emit(o, "opened", then)>>
    BY <1>11 DEF Fires
  <2>2. HeldSince(o, mem[o]) /\ Sustained(mem[o]) /\ mem[o].kind = round[o] /\ mem[o] \in Epi
    BY <1>3, <1>5, <1>11 DEF Fires
  <2>3. Held'
    BY <1>7, <2>1, <2>2 DEF HeldSince
  <2>4. since[o] > 0 /\ now - since[o] > Dwell - Second
    BY <1>6, <2>2
  <2>5. AlertHasHeld'
    BY <1>8, <1>9, <2>1, <2>4
  <2> QED BY <2>3, <2>5
<1>12. CASE Starts(o)
  <2>1. PICK epi \in Epi :
          /\ IsNew(o, epi) /\ mem' = [mem EXCEPT ![o] = epi] /\ todo' = <<Save(o, epi)>>
    BY <1>12 DEF Starts
  <2>2. Held'
    BY <1>4, <1>7, <1>12, <2>1 DEF Starts
  <2>3. AlertHasHeld'
    BY <1>8, <1>9, <2>1
  <2> QED BY <2>2, <2>3
<1>13. CASE StartsAndFires(o)
  <2>1. PICK epi \in Epi, then \in Epi :
          /\ IsNew(o, then) /\ then.first = epi.first /\ IsNew(o, epi) /\ Sustained(epi)
          /\ mem' = [mem EXCEPT ![o] = then]
          /\ todo' = <<Save(o, epi), Save(o, then), Emit(o, "opened", then)>>
    BY <1>13 DEF StartsAndFires
  <2>2. Held' /\ HeldSince(o, epi)
    BY <1>4, <1>7, <1>13, <2>1 DEF StartsAndFires
  <2>3. since[o] > 0 /\ now - since[o] > Dwell - Second
    BY <1>6, <2>1, <2>2
  <2>4. AlertHasHeld'
    BY <1>8, <1>9, <2>1, <2>3
  <2> QED BY <2>2, <2>4
<1>14. CASE Ends(o)
  <2>1. mem' = [mem EXCEPT ![o] = NoEpisode]
    BY <1>14 DEF Ends
  <2>2. Held'
    BY <1>7, <2>1, Nothing
  <2>3. \A i \in DOMAIN todo' : todo'[i].do # "opened"
    BY <1>9, <1>14 DEF Ends
  <2> QED BY <2>2, <2>3 DEF AlertHasHeld
<1> QED BY <1>0, <1>10, <1>11, <1>12, <1>13, <1>14 DEF Evaluated

LEMMA WriteTimely ==
  ASSUME Typed, Timely, Write PROVE Timely'
<1> SUFFICES ASSUME NoFault', NoCrash' PROVE Held' /\ AlertHasHeld'
  BY DEF Timely
<1>1. /\ up /\ up' = up /\ todo # <<>> /\ todo' = Tail(todo)
      /\ UNCHANGED <<mem, round, stage, left, now, since, budget>>
  BY DEF Write, memory
<1>2. NoFault /\ NoCrash /\ Held /\ AlertHasHeld
  BY <1>1 DEF Timely, NoFault, NoCrash
<1>3. Held'
  BY <1>1, <1>2 DEF Held, Kept, HeldSince, Waiting
<1>4. \A i \in DOMAIN todo' : i + 1 \in DOMAIN todo /\ todo'[i] = todo[i + 1]
  BY <1>1 DEF Typed, ProcessTyped
<1>5. AlertHasHeld'
  BY <1>1, <1>2, <1>4 DEF AlertHasHeld
<1> QED BY <1>3, <1>5

\* An exit between two rounds leaves the episodes as they are in the database.
LEMMA ProcessTimely ==
  ASSUME Typed, Sound, Timely, Crash \/ Exit \/ Launch PROVE Timely'
<1> SUFFICES ASSUME NoFault', NoCrash' PROVE Held' /\ AlertHasHeld'
  BY DEF Timely
<1>0. GhostsTyped
  BY DEF Typed
<1>1. CASE Crash
  <2>1. ~NoCrash'
    BY <1>0, <1>1, BudgetSpent DEF Crash
  <2> QED BY <2>1
<1>2. CASE Exit
  <2>1. /\ up /\ ~up' /\ stage = "idle" /\ stage' = "idle" /\ todo' = <<>>
        /\ UNCHANGED <<disk, round, now, since>>
    BY <1>2 DEF Exit, Goes, stored
  <2>2. NoFault /\ NoCrash
    BY <1>0, <1>2, BudgetSpent DEF Exit
  <2>3. Held /\ mem = disk
    BY <2>1, <2>2, NothingPending DEF Timely, Sound, Typed, Quiet, Agreed
  <2>4. Held'
    BY <2>1, <2>3 DEF Held, Kept, HeldSince, Waiting
  <2> QED BY <2>1, <2>4 DEF AlertHasHeld
<1>3. CASE Launch
  <2>1. mem' = disk /\ budget' = budget
    BY <1>0, <1>3, BudgetSpent DEF Launch
  <2>2. ~up /\ up' /\ UNCHANGED <<round, stage, left, todo, now, since>>
    BY <1>3 DEF Launch
  <2>3. Held /\ AlertHasHeld
    BY <2>1 DEF Timely, NoFault, NoCrash
  <2>4. Held'
    BY <2>1, <2>2, <2>3 DEF Held, Kept, HeldSince, Waiting
  <2> QED BY <2>1, <2>2, <2>3, <2>4 DEF AlertHasHeld, NoFault, NoCrash
<1> QED BY <1>1, <1>2, <1>3

LEMMA StepTimely == ASSUME Typed, Sound, Timely, [Next]_vars PROVE Timely'
<1>1. CASE UNCHANGED vars
  BY <1>1 DEF vars, stored, memory, Timely, NoFault, NoCrash, Held, Kept, HeldSince, Waiting, AlertHasHeld
<1>2. CASE WriteFails
  <2>1. ~NoFault'
    BY <1>2, BudgetSpent DEF WriteFails, Typed
  <2> QED BY <2>1 DEF Timely
<1> QED BY <1>1, <1>2, PollTimely, RoundTimely, SampleTimely, WriteTimely, ProcessTimely DEF Next

LEMMA InitTimely == ASSUME Init PROVE Timely
<1>1. \A o \in Oids : disk[o] = NoEpisode
  BY DEF Init
<1>2. Held
  BY <1>1 DEF Init, Held, Kept
<1>3. DOMAIN <<>> = {}
  OBVIOUS
<1>4. AlertHasHeld
  BY <1>3 DEF Init, AlertHasHeld
<1> QED BY <1>2, <1>4 DEF Timely

LEMMA Inductive == Spec => []IInv
<1>1. Init => IInv
  BY InitTyped, InitSound, InitTimely DEF IInv
<1>2. IInv /\ [Next]_vars => IInv'
  BY StepTyped, StepSound, StepTimely DEF IInv
<1> QED BY <1>1, <1>2, PTL DEF Spec

-----------------------------------------------------------------------------

\* A restart resumes the episodes in progress (storage/events.go:446-459): between
\* two rounds the database holds what the memory does, whatever crashes and exits
\* came before, as long as every write was made.
THEOREM Resumes == Spec => []EpisodesSaved
<1>1. IInv => EpisodesSaved
  BY NothingPending DEF IInv, Typed, Quiet, Sound, Agreed, EpisodesSaved
<1> QED BY <1>1, Inductive, PTL

\* An incident is announced once, restarts included (breach.go:40-41, 79-80):
\* fired_at is saved before its event is recorded, so an episode that is loaded
\* again as not fired is one that the journal has not heard of.
THEOREM AnnouncedOnceEver == Spec => []OpenedOnce
<1>1. IInv => OpenedOnce
  BY DEF IInv, Sound, Books, OpenedOnce
<1> QED BY <1>1, Inductive, PTL

\* An incident is closed when the value comes back (breach.go:7-8): what is open
\* in the journal between two rounds is the episode in progress, or one dropped by
\* an unreadable poll or a flip to the other side.
THEOREM NothingElseOpen == Spec => []ClosedWhenBack
<1>1. IInv => ClosedWhenBack
  <2> SUFFICES ASSUME IInv, NoFault, up, stage = "idle", NEW o \in Oids
               PROVE  Unresolved(o) \subseteq dropped \cup {mem[o].corr}
    BY DEF ClosedWhenBack
  <2>1. mem = disk /\ Accounted
    BY NothingPending DEF IInv, Typed, Quiet, Sound, Books, Agreed
  <2> QED BY <2>1 DEF Accounted
<1> QED BY <1>1, Inductive, PTL

\* An alert has held for its dwell time, less the second that FirstSeen is kept to
\* (breach.go:5-6, storage/events.go): the value has been out on that side for that
\* long, exits between two rounds included.
THEOREM AlertsHaveHeld == Spec => []AlertHasHeld
<1>1. IInv => AlertHasHeld
  BY DEF IInv, Timely, AlertHasHeld
<1> QED BY <1>1, Inductive, PTL
=============================================================================
