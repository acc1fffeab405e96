--------------------------- MODULE OverrunGuard ---------------------------
(***************************************************************************)
(* The guardrail of a session that cannot poll as fast as it says          *)
(* (pkg/monitor/overrun.go), in the loop that drives it                    *)
(* (pkg/monitor/scheduler.go).                                             *)
(*                                                                         *)
(* After each round the guard is shown what it cost, may report an edge    *)
(* and may change the period; between two rounds the operator may answer   *)
(* that the cadence is to be kept.  A duration is a number of units.       *)
(***************************************************************************)
EXTENDS Integers

CONSTANTS
  Interval,  \* what the session asked for
  Rounds     \* what a round may cost: its duration, its readings, the failed ones

OverrunStreak    == 3
RecoverStreak    == 3
RecoverDivisor   == 2
BackoffHeadroom  == 2
MaxBackoffFactor == 8

ASSUME OverrunGuardAssumption ==
  /\ Interval \in Nat \ {0}
  /\ Rounds \subseteq [dur : Nat, readings : Nat, failed : Nat]

VARIABLES
  \* overrunGuard
  \* (over and under are counted up to what they are compared with)
  accepted, over, under, engaged, cycle, effective,
  \* the loop
  period,    \* of its ticker
  answered,  \* handle.accept holds the operator's answer
  \* bookkeeping of the model
  report,    \* the last edge: "none", "overrun" or "recovered"
  slow,      \* rounds in a row that did not fit the interval, up to OverrunStreak
  fitting,   \* rounds since the last that did not fit, which fit in half of it
  worst      \* the longest round since the overrun was reported

guard  == <<accepted, over, under, engaged, cycle, effective>>
ghosts == <<report, slow, fitting, worst>>
vars   == <<guard, period, answered, ghosts>>

Lower(a, b)  == IF a < b THEN a ELSE b
Higher(a, b) == IF a < b THEN b ELSE a

-----------------------------------------------------------------------------
\* Mutant: half of the readings failed is evidence too.
EvidenceAtHalf(c) == c.readings > 0 /\ c.failed * 2 <= c.readings

\* A round in which half of the readings or more failed measured a timeout.
Evidence(c) == c.readings > 0 /\ c.failed * 2 < c.readings

\* Mutant: without the cap.
BackoffUncapped(dur) ==
  IF accepted THEN Interval ELSE Higher(Interval, dur * BackoffHeadroom)

Backoff(dur) ==
  IF accepted THEN Interval
  ELSE Higher(Interval, Lower(dur * BackoffHeadroom, Interval * MaxBackoffFactor))

\* observe, a round that does not fit: three in a row engage the back-off, and a
\* worse one widens it further without a word.
Engages == ~engaged /\ over + 1 >= OverrunStreak

\* Mutant: a worse round does not widen the back-off.
TooSlowOnce(c) ==
  /\ c.dur > Interval
  /\ under' = 0
  /\ over' = Lower(over + 1, OverrunStreak)
  /\ engaged' = (engaged \/ Engages)
  /\ IF Engages THEN cycle' = c.dur /\ effective' = Backoff(c.dur)
     ELSE UNCHANGED <<cycle, effective>>
  /\ report' = IF Engages THEN "overrun" ELSE report

TooSlow(c) ==
  /\ c.dur > Interval
  /\ under' = 0
  /\ over' = Lower(over + 1, OverrunStreak)
  /\ engaged' = (engaged \/ Engages)
  /\ IF Engages \/ (engaged /\ c.dur > cycle)
     THEN cycle' = c.dur /\ effective' = Backoff(c.dur)
     ELSE UNCHANGED <<cycle, effective>>
  /\ report' = IF Engages THEN "overrun" ELSE report

\* Comfortably inside, against the requested interval.
Fits(c) == c.dur * RecoverDivisor <= Interval

\* Mutant: one more than it takes.
RecoversLater(c) == Fits(c) /\ engaged /\ under + 1 > RecoverStreak

\* observe, a round that fits: three that do so comfortably end the episode.
Recovers(c) == Fits(c) /\ engaged /\ under + 1 >= RecoverStreak

\* Mutant: the period is not put back.
FastKeepingBackoff(c) ==
  /\ c.dur <= Interval
  /\ over' = 0
  /\ under' = IF Fits(c) THEN Lower(under + 1, RecoverStreak) ELSE under
  /\ IF Recovers(c) THEN engaged' = FALSE /\ cycle' = c.dur /\ report' = "recovered"
     ELSE UNCHANGED <<engaged, cycle, report>>
  /\ UNCHANGED effective

FastEnough(c) ==
  /\ c.dur <= Interval
  /\ over' = 0
  /\ under' = IF Fits(c) THEN Lower(under + 1, RecoverStreak) ELSE under
  /\ IF Recovers(c)
     THEN engaged' = FALSE /\ cycle' = c.dur /\ effective' = Interval /\ report' = "recovered"
     ELSE UNCHANGED <<engaged, cycle, effective, report>>

Counted(c) == c.failed < c.readings - c.failed

Note(c) ==
  IF ~Counted(c) THEN UNCHANGED <<slow, fitting, worst>>
  ELSE /\ slow' = IF c.dur > Interval THEN Lower(slow + 1, OverrunStreak) ELSE 0
       /\ fitting' = IF c.dur > Interval THEN 0
                     ELSE IF 2 * c.dur <= Interval THEN Lower(fitting + 1, RecoverStreak) ELSE fitting
       /\ worst' = IF report' = "overrun" /\ report # "overrun" THEN c.dur ELSE Higher(worst, c.dur)

\* observe, report and recadence.
Round(c) ==
  /\ \/ Evidence(c) /\ (TooSlow(c) \/ FastEnough(c))
     \/ ~Evidence(c) /\ UNCHANGED <<over, under, engaged, cycle, effective, report>>
  /\ period' = effective'
  /\ Note(c)
  /\ UNCHANGED <<accepted, answered>>

\* AcceptSlow: it never waits for the loop, and one answer is enough.
AcceptSlow == answered' = TRUE /\ UNCHANGED <<guard, period, ghosts>>

\* case <-h.accept: the back-off is undone at once.
Accept ==
  /\ answered
  /\ answered' = FALSE
  /\ accepted' = TRUE
  /\ effective' = Interval /\ period' = effective'
  /\ UNCHANGED <<over, under, engaged, cycle, ghosts>>

Init ==
  /\ accepted \in BOOLEAN /\ engaged = FALSE
  /\ over = 0 /\ under = 0 /\ cycle = 0
  /\ effective = Interval /\ period = Interval
  /\ answered = FALSE
  /\ report = "none" /\ slow = 0 /\ fitting = 0 /\ worst = 0

Next == (\E c \in Rounds : Round(c)) \/ AcceptSlow \/ Accept

Spec == Init /\ [][Next]_vars

-----------------------------------------------------------------------------
(* Properties. *)

\* Among the types, the cap: "a monitoring can never quietly become hourly"
\* (overrun.go:51).
TypeOK ==
  /\ accepted \in BOOLEAN /\ engaged \in BOOLEAN /\ answered \in BOOLEAN
  /\ over \in 0..OverrunStreak /\ under \in 0..RecoverStreak
  /\ cycle \in Nat
  /\ effective \in Interval..(MaxBackoffFactor * Interval)
  /\ period \in Interval..(MaxBackoffFactor * Interval)
  /\ report \in {"none", "overrun", "recovered"}
  /\ slow \in 0..OverrunStreak /\ fitting \in 0..RecoverStreak /\ worst \in Nat

\* The period differs from the one that was asked for only during an episode
\* that was reported and not accepted (overrun.go:58-60, 70-72); an answer undoes
\* the back-off at once (overrun.go:158-160).
WidenedOnlyIfReported == period # Interval => report = "overrun" /\ ~accepted

\* "Half the time on the wire and in the database, half the time idle"
\* (overrun.go:46-48): however the rounds went since the report, the period
\* leaves as much time idle as the longest of them took, or has reached its cap.
HalfIdle ==
  report = "overrun" /\ ~accepted =>
    period >= 2 * worst \/ period = MaxBackoffFactor * Interval

\* Three rounds in a row, timeouts aside, are what an episode begins with, and
\* three comfortable ones since the last slow one what it ends with - of the
\* requested interval, never the effective one (overrun.go:24-35).  So a session
\* that sits on the boundary does not flap.
EdgesEarned ==
  [][/\ report' = "overrun" /\ report # "overrun" => slow' = OverrunStreak
     /\ report' = "recovered" /\ report # "recovered" => report = "overrun" /\ fitting' = RecoverStreak]_vars

\* A session whose rounds become comfortable again gets its cadence back, after
\* three of them (overrun.go:51-55).
ComfortRestores == fitting = RecoverStreak => period = Interval
=============================================================================
