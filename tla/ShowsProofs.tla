----------------------------- MODULE ShowsProofs -----------------------------
(***************************************************************************)
(* What the parts of the window promise that show something and ask for    *)
(* it, for any number of things on a page and any order of clicks and      *)
(* answers.                                                                *)
(***************************************************************************)
EXTENDS WindowShows, Integers, Sequences, FiniteSets, FiniteSetTheorems, SequenceTheorems,
        NaturalsInduction, WellFoundedInduction, TLAPS

(***************************************************************************)
(* OverrunGuard: the guardrail of a session that cannot poll as fast as it *)
(* says, for every interval and every sequence of rounds.                  *)
(*                                                                         *)
(* The properties speak of the rounds, which the ghosts record; the guard  *)
(* keeps counts and a longest round of its own.  What makes the properties *)
(* inductive is that the two agree.                                        *)
(***************************************************************************)
GuardFlags == accepted \in BOOLEAN /\ engaged \in BOOLEAN /\ answered \in BOOLEAN

GuardNumbers ==
  /\ over \in 0..OverrunStreak /\ under \in 0..RecoverStreak
  /\ cycle \in Nat
  /\ effective \in Interval..(MaxBackoffFactor * Interval)
  /\ period \in Interval..(MaxBackoffFactor * Interval)
  /\ slow \in 0..OverrunStreak /\ fitting \in 0..RecoverStreak /\ worst \in Nat

Episode == report \in {"none", "overrun", "recovered"} /\ (engaged <=> report = "overrun")

GuardCounts == period = effective /\ over = slow /\ under = fitting

Longest == engaged => worst = cycle /\ cycle > Interval /\ under < RecoverStreak

\* The period is what the longest round of the episode asks for.
Widened ==
  /\ engaged /\ ~accepted => effective = Higher(Interval, Lower(2 * cycle, 8 * Interval))
  /\ ~engaged \/ accepted => effective = Interval

GuardInv == GuardFlags /\ GuardNumbers /\ Episode /\ GuardCounts /\ Longest /\ Widened

USE OverrunGuardAssumption DEF OverrunStreak, RecoverStreak, RecoverDivisor,
        BackoffHeadroom, MaxBackoffFactor, Lower, Higher

\* Both ways of counting the failed readings are the same.
LEMMA EvidenceCounts ==
  ASSUME NEW c \in Rounds PROVE Evidence(c) <=> Counted(c)
  BY DEF Evidence, Counted

\* The back-off stays between the interval and its cap (overrun.go:166-178).
LEMMA BackoffRange ==
  ASSUME NEW dur \in Nat
  PROVE Backoff(dur) \in Interval..(MaxBackoffFactor * Interval)
  BY DEF Backoff

\* A round preserves the invariant.
LEMMA SlowRoundKeeps ==
  ASSUME GuardInv, NEW c \in Rounds, Round(c), Evidence(c), TooSlow(c) PROVE GuardInv'
<1> c.dur \in Nat /\ Interval \in Nat /\ Interval > 0
  OBVIOUS
<1>0. Counted(c) /\ Note(c) /\ accepted' = accepted /\ answered' = answered /\ period' = effective'
  BY EvidenceCounts DEF Round
<1>1. Backoff(c.dur) \in Interval..(8 * Interval)
  BY BackoffRange
<1>2. engaged' <=> engaged \/ Engages
  BY Zenon DEF TooSlow
<1>3. GuardFlags'
  BY <1>0 DEF GuardInv, GuardFlags, TooSlow, Engages
<1>4. CASE engaged
  <2>1. ~Engages /\ engaged' /\ report' = report
    BY <1>2, <1>4 DEF Engages, TooSlow
  <2>2. GuardNumbers' /\ GuardCounts'
    BY <1>0, <1>1, <2>1, <1>4 DEF GuardInv, GuardNumbers, GuardCounts, TooSlow, Note
  <2>3. Episode'
    BY <2>1, <1>4 DEF GuardInv, Episode
  <2>4. Longest' /\ worst' = Higher(worst, c.dur)
    BY <1>0, <2>1, <1>4 DEF GuardInv, GuardNumbers, Episode, Longest, TooSlow, Note
  <2>5. Widened'
    BY <1>0, <2>1, <1>4 DEF GuardInv, GuardNumbers, Widened, TooSlow, Backoff
  <2> QED BY <1>3, <2>2, <2>3, <2>4, <2>5 DEF GuardInv
<1>5. CASE ~engaged /\ Engages
  <2>1. engaged' /\ report' = "overrun" /\ report # "overrun"
    BY <1>2, <1>5 DEF TooSlow, GuardInv, Episode
  <2>2. GuardNumbers' /\ GuardCounts'
    BY <1>0, <1>1, <2>1, <1>5 DEF GuardInv, GuardNumbers, GuardCounts, TooSlow, Note
  <2>3. Episode'
    BY <2>1 DEF Episode
  <2>4. Longest'
    BY <1>0, <2>1, <1>5 DEF GuardInv, GuardNumbers, Longest, TooSlow, Note
  <2>5. Widened'
    BY <1>0, <2>1, <1>5 DEF GuardInv, GuardNumbers, Widened, TooSlow, Backoff
  <2> QED BY <1>3, <2>2, <2>3, <2>4, <2>5 DEF GuardInv
<1>6. CASE ~engaged /\ ~Engages
  <2>1. ~engaged' /\ report' = report /\ report # "overrun" /\ UNCHANGED <<cycle, effective>>
    BY <1>2, <1>6 DEF TooSlow, GuardInv, Episode
  <2>2. GuardNumbers' /\ GuardCounts'
    BY <1>0, <2>1, <1>6 DEF GuardInv, GuardNumbers, GuardCounts, TooSlow, Note
  <2>3. Episode' /\ Longest'
    BY <2>1, <1>6 DEF GuardInv, Episode, Longest
  <2>4. Widened'
    BY <1>0, <2>1, <1>6 DEF GuardInv, Widened
  <2> QED BY <1>3, <2>2, <2>3, <2>4 DEF GuardInv
<1> QED BY <1>4, <1>5, <1>6

LEMMA FastRoundKeeps ==
  ASSUME GuardInv, NEW c \in Rounds, Round(c), Evidence(c), FastEnough(c) PROVE GuardInv'
<1> c.dur \in Nat /\ Interval \in Nat /\ Interval > 0
  OBVIOUS
<1>0. Counted(c) /\ Note(c) /\ accepted' = accepted /\ answered' = answered /\ period' = effective'
  BY EvidenceCounts DEF Round
<1>1. CASE Recovers(c)
  <2>1. ~engaged' /\ engaged' \in BOOLEAN /\ report' = "recovered" /\ engaged /\ Fits(c)
    BY <1>1 DEF FastEnough, Recovers
  <2>2. GuardNumbers' /\ GuardCounts'
    BY <1>0, <1>1, <2>1 DEF GuardInv, GuardNumbers, GuardCounts, FastEnough, Fits, Note
  <2>3. Episode' /\ Longest' /\ GuardFlags'
    BY <1>0, <2>1 DEF GuardInv, Episode, Longest, GuardFlags
  <2>4. Widened'
    BY <1>1, <2>1 DEF Widened, FastEnough
  <2> QED BY <2>2, <2>3, <2>4 DEF GuardInv
<1>2. CASE ~Recovers(c)
  <2>1. UNCHANGED <<engaged, cycle, effective, report>>
    BY <1>2 DEF FastEnough
  <2>2. GuardNumbers' /\ GuardCounts'
    BY <1>0, <2>1 DEF GuardInv, GuardNumbers, GuardCounts, FastEnough, Fits, Note
  <2>3. Episode' /\ GuardFlags' /\ Widened'
    BY <1>0, <2>1 DEF GuardInv, Episode, GuardFlags, Widened
  <2>4. Longest'
    BY <1>0, <1>2, <2>1 DEF GuardInv, GuardNumbers, Episode, Longest, FastEnough, Recovers, Fits, Note
  <2> QED BY <2>2, <2>3, <2>4 DEF GuardInv
<1> QED BY <1>1, <1>2

\* A step of the session preserves the invariant: a round that counts, one that
\* does not, the operator's answer and its arrival.
LEMMA GuardKeeps ==
  ASSUME GuardInv, [Next]_vars PROVE GuardInv'
<1> Interval \in Nat /\ Interval > 0
  OBVIOUS
<1>1. ASSUME NEW c \in Rounds, Round(c) PROVE GuardInv'
  <2>1. CASE Evidence(c)
    BY <1>1, <2>1, SlowRoundKeeps, FastRoundKeeps DEF Round
  <2>2. CASE ~Evidence(c)
    <3>1. ~Counted(c)
      BY <2>2, EvidenceCounts
    <3>2. /\ UNCHANGED <<accepted, over, under, engaged, cycle, effective, answered>>
          /\ UNCHANGED <<report, slow, fitting, worst>>
          /\ period' = effective'
      BY <1>1, <2>2, <3>1 DEF Round, Note
    <3> QED BY <3>2 DEF GuardInv, GuardFlags, GuardNumbers, Episode, GuardCounts, Longest, Widened
  <2> QED BY <2>1, <2>2
<1>2. CASE Accept
  <2>1. /\ accepted' = TRUE /\ answered' = FALSE /\ effective' = Interval /\ period' = Interval
        /\ UNCHANGED <<over, under, engaged, cycle, report, slow, fitting, worst>>
    BY <1>2 DEF Accept, ghosts
  <2>2. GuardFlags'
    BY <2>1 DEF GuardInv, GuardFlags
  <2>3. GuardNumbers' /\ GuardCounts' /\ Episode' /\ Longest'
    BY <2>1 DEF GuardInv, GuardNumbers, GuardCounts, Episode, Longest
  <2>4. Widened'
    BY <2>1 DEF Widened
  <2> QED BY <2>2, <2>3, <2>4 DEF GuardInv
<1>3. CASE AcceptSlow \/ UNCHANGED vars
  <2>1. /\ UNCHANGED <<accepted, over, under, engaged, cycle, effective, period>>
        /\ UNCHANGED <<report, slow, fitting, worst>>
    BY <1>3 DEF AcceptSlow, vars, guard, ghosts
  <2>2. answered' \in BOOLEAN
    BY <1>3 DEF AcceptSlow, vars, GuardInv, GuardFlags
  <2> QED BY <2>1, <2>2 DEF GuardInv, GuardFlags, GuardNumbers, Episode, GuardCounts, Longest, Widened
<1> QED BY <1>1, <1>2, <1>3 DEF Next

\* The invariant holds of every reachable state (overrun.go:100-186).
THEOREM GuardHolds == Spec => []GuardInv
<1>1. Init => GuardInv
  <2> SUFFICES ASSUME Init PROVE GuardInv
    OBVIOUS
  <2>1. GuardFlags BY DEF Init, GuardFlags
  <2>2. Interval \in Nat OBVIOUS
  <2>3. GuardNumbers BY <2>2 DEF Init, GuardNumbers
  <2>4. Episode /\ GuardCounts /\ Longest BY DEF Init, Episode, GuardCounts, Longest
  <2>5. Widened BY DEF Init, Widened
  <2> QED BY <2>1, <2>3, <2>4, <2>5 DEF GuardInv
<1>2. GuardInv /\ [Next]_vars => GuardInv'
  BY GuardKeeps
<1> QED BY <1>1, <1>2, PTL DEF Spec

\* Types, and the cap: whatever the rounds cost, the period stays between what
\* was asked for and eight times that (overrun.go:51-55, 166-178).
THEOREM PeriodInRange == Spec => []TypeOK
<1>1. GuardInv => TypeOK
  BY DEF GuardInv, GuardFlags, GuardNumbers, Episode, TypeOK
<1> QED BY <1>1, GuardHolds, PTL

\* Nothing but a reported and unaccepted episode widens the period.
THEOREM WidenedIsReported == Spec => []WidenedOnlyIfReported
<1>1. GuardInv => WidenedOnlyIfReported
  BY DEF GuardInv, Episode, GuardCounts, Widened, WidenedOnlyIfReported
<1> QED BY <1>1, GuardHolds, PTL

\* During an episode the session is idle at least as long as the longest round
\* of the episode took, unless the cap is reached.
THEOREM IdleHalfTheTime == Spec => []HalfIdle
<1>1. GuardInv => HalfIdle
  <2> SUFFICES ASSUME GuardInv, report = "overrun", ~accepted
               PROVE period >= 2 * worst \/ period = MaxBackoffFactor * Interval
    BY DEF HalfIdle
  <2>1. Interval \in Nat /\ engaged /\ worst \in Nat /\ worst = cycle /\ period = effective
    BY DEF GuardInv, Episode, GuardNumbers, Longest, GuardCounts
  <2>2. effective = Higher(Interval, Lower(2 * cycle, 8 * Interval))
    BY <2>1 DEF GuardInv, Widened
  <2> QED BY <2>1, <2>2
<1> QED BY <1>1, GuardHolds, PTL

\* After three comfortable rounds the session has its cadence back.
THEOREM CadenceRestored == Spec => []ComfortRestores
<1>1. GuardInv => ComfortRestores
  BY DEF GuardInv, GuardCounts, Longest, Widened, ComfortRestores
<1> QED BY <1>1, GuardHolds, PTL

\* No flapping: an episode is reported after three slow rounds in a row only, and
\* its end after three rounds that fit half of the requested interval.
THEOREM NoFlapping == Spec => EdgesEarned
<1> DEFINE Earned ==
      /\ report' = "overrun" /\ report # "overrun" => slow' = OverrunStreak
      /\ report' = "recovered" /\ report # "recovered" => report = "overrun" /\ fitting' = RecoverStreak
<1>1. ASSUME GuardInv, NEW c \in Rounds, Round(c) PROVE Earned
  <2> c.dur \in Nat /\ Interval \in Nat
    OBVIOUS
  <2>0. Evidence(c) => Counted(c) /\ Note(c)
    BY <1>1, EvidenceCounts DEF Round
  <2>1. CASE Evidence(c) /\ TooSlow(c)
    BY <1>1, <2>0, <2>1 DEF GuardInv, GuardNumbers, GuardCounts, Episode, TooSlow, Engages, Note
  <2>2. CASE Evidence(c) /\ FastEnough(c) /\ Recovers(c)
    <3>1. report = "overrun" /\ report' = "recovered" /\ Fits(c) /\ under + 1 >= RecoverStreak
      BY <1>1, <2>2 DEF GuardInv, Episode, FastEnough, Recovers
    <3>2. fitting' = RecoverStreak
      BY <1>1, <2>0, <2>2, <3>1 DEF GuardInv, GuardNumbers, GuardCounts, FastEnough, Fits, Note
    <3> QED BY <3>1, <3>2
  <2>3. CASE ~Evidence(c) \/ (FastEnough(c) /\ ~Recovers(c))
    BY <1>1, <2>3 DEF Round, FastEnough, TooSlow
  <2> QED BY <1>1, <2>1, <2>2, <2>3 DEF Round
<1>2. ASSUME GuardInv, [Next]_vars PROVE [Earned]_vars
  BY <1>1, <1>2 DEF Next, Accept, AcceptSlow, vars, ghosts
<1> QED BY <1>2, GuardHolds, PTL DEF Spec, EdgesEarned

HIDE OverrunGuardAssumption DEF OverrunStreak, RecoverStreak, RecoverDivisor, BackoffHeadroom,
       MaxBackoffFactor, Lower, Higher

(***************************************************************************)
(* PollWindow: the sessions being polled, as the window shows them.        *)
(***************************************************************************)
\* No session has the number that stands for none.
PollAssumption == SessionIds \in SUBSET (Nat \ {0}) /\ 1 \in SessionIds /\ Cap \in Nat

Row     == [id : SessionIds, running : BOOLEAN, results : Seq(Nat), slow : BOOLEAN]
Phases  == {"timer", "list", "data", "running", "done"}
Plain   == {"list", "data", "running", "create", "bind", "start", "stop", "unload"}
Numbers == SessionIds \cup {0}
Groups  == [left : Nat]
Others  == [left : Seq(SessionIds), secret : Nat]
Request == [op : Plain \cup {"delete"}, id : Numbers, arg : Groups]
             \cup [op : {"update"}, id : Numbers, arg : Others]
News    == [op : Plain, id : Numbers, arg : Groups, ok : BOOLEAN, ids : Seq(Nat)]
             \cup [op : {"update"}, id : Numbers, arg : Others, ok : BOOLEAN, ids : Seq(Nat)]
             \cup [op : {"sample"}, id : SessionIds, arg : Nat, ok : BOOLEAN, ids : Seq(Nat)]
             \cup [op : {"overrun"}, id : SessionIds, arg : BOOLEAN, ok : BOOLEAN, ids : Seq(Nat)]
Backend == [given : SUBSET SessionIds, stored : SUBSET SessionIds, polled : SUBSET SessionIds, cred : [SessionIds -> Nat],
            taken : [SessionIds -> Nat], written : [SessionIds -> Nat]]

PollTyped ==
  /\ rows \in Seq(Row) /\ phase \in Phases
  /\ loading \in [left : Seq(SessionIds), loaded : Seq(Row)]
  /\ secret \in Nat /\ calls \subseteq Request /\ chan \in Seq(News) /\ go \in Backend
  /\ IsFiniteSet(go.given) /\ go.stored \subseteq go.given /\ go.polled \subseteq go.given
  /\ \A id \in SessionIds : go.written[id] <= go.taken[id]

Made(m)     == m.op \in {"create", "bind"} /\ m.ok
Ascends(s)  == \A i, j \in DOMAIN s : i < j => s[i] < s[j]
Differ(s)   == \A i, j \in DOMAIN s : s[i] = s[j] => i = j
Apart(rs)   == \A i, j \in DOMAIN rs : rs[i].id = rs[j].id => i = j
Under(s, n) == \A k \in DOMAIN s : s[k] < n

\* What a row shows comes before every sample of its session that is still to be heard.
RowFine(r, q, g) ==
  /\ r.id \in g.given /\ Ascends(r.results)
  /\ \A k \in DOMAIN r.results : r.results[k] <= g.taken[r.id]
  /\ \A i \in DOMAIN q : q[i].op = "sample" /\ q[i].id = r.id => Under(r.results, q[i].arg)
RowsFine(rs, q, g) == \A k \in DOMAIN rs : RowFine(rs[k], q, g)

\* What a message says was so when it was sent.
NewsFine(m, g) ==
  /\ m.op = "sample" => m.arg <= g.taken[m.id]
  /\ m.op = "data" => /\ m.id \in SessionIds /\ Ascends(m.ids)
                      /\ \A k \in DOMAIN m.ids : m.ids[k] <= g.taken[m.id]
  /\ m.op = "list" => Differ(m.ids) /\ \A k \in DOMAIN m.ids : m.ids[k] \in g.given
  /\ Made(m) => m.id \in g.given

\* What was sent later: later samples, sessions that are new.
InTurn(m, n) ==
  /\ n.op = "sample" /\ m.op = "sample" /\ m.id = n.id => m.arg < n.arg
  /\ n.op = "sample" /\ m.op = "data" /\ m.id = n.id => Under(m.ids, n.arg)
  /\ Made(m) /\ Made(n) => m.id # n.id
  /\ m.op = "list" /\ n.op = "create" /\ n.ok => \A k \in DOMAIN m.ids : m.ids[k] # n.id

NewsInTurn(q, g) ==
  /\ \A i \in DOMAIN q : NewsFine(q[i], g)
  /\ \A i, j \in DOMAIN q : i < j => InTurn(q[i], q[j])

\* A session that startPolling made is no row before that is heard.
Unseen(m, rs, ld) ==
  m.op = "create" /\ m.ok =>
    /\ \A k \in DOMAIN rs : rs[k].id # m.id
    /\ \A k \in DOMAIN ld.loaded : ld.loaded[k].id # m.id
    /\ \A k \in DOMAIN ld.left : ld.left[k] # m.id
AllUnseen(q, rs, ld) == \A i \in DOMAIN q : Unseen(q[i], rs, ld)

\* A session is loaded or left to load, once.
LoadFine(ld, g) ==
  /\ Apart(ld.loaded) /\ Differ(ld.left)
  /\ \A k \in DOMAIN ld.left : ld.left[k] \in g.given
  /\ \A k \in DOMAIN ld.loaded : \A n \in DOMAIN ld.left : ld.loaded[k].id # ld.left[n]

\* The load asks one thing at a time.
OneAt(op, cs, q, at) ==
  /\ at # op => (\A c \in cs : c.op # op) /\ (\A i \in DOMAIN q : q[i].op # op)
  /\ \A c, d \in cs : c.op = op /\ d.op = op => c = d
  /\ \A i, j \in DOMAIN q : q[i].op = op /\ q[j].op = op => i = j
  /\ \A c \in cs : \A i \in DOMAIN q : ~(c.op = op /\ q[i].op = op)
NextLoad(cs, q, at, ld) ==
  at = "data" => /\ ld.left # <<>>
                 /\ \A c \in cs : c.op = "data" => c.id = Head(ld.left)
                 /\ \A i \in DOMAIN q : q[i].op = "data" => q[i].id = Head(ld.left)

PollInv ==
  /\ PollTyped
  /\ Apart(rows) /\ RowsFine(rows, chan, go)
  /\ LoadFine(loading, go) /\ RowsFine(loading.loaded, chan, go)
  /\ NewsInTurn(chan, go) /\ AllUnseen(chan, rows, loading)
  /\ \A op \in {"list", "data", "running"} : OneAt(op, calls, chan, phase)
  /\ NextLoad(calls, chan, phase, loading)

Grown(g, h) == g.given \subseteq h.given /\ \A id \in SessionIds : g.taken[id] <= h.taken[id]

LEMMA NewsTyped ==
  /\ \A m \in News : /\ m.op = "sample" => m.id \in SessionIds /\ m.arg \in Nat
                     /\ m.ids \in Seq(Nat) /\ m.id \in Numbers /\ m.ok \in BOOLEAN
  /\ \A r \in Row : r.id \in SessionIds /\ r.results \in Seq(Nat)
<1>1. \A m \in News : m.op = "sample" => m.id \in SessionIds /\ m.arg \in Nat
  BY DEF News, Plain
<1>2. \A m \in News : m.ids \in Seq(Nat) /\ m.ok \in BOOLEAN
  BY DEF News
<1>3. \A m \in News : m.id \in Numbers
  BY DEF News, Numbers
<1>4. \A r \in Row : r.id \in SessionIds /\ r.results \in Seq(Nat)
  BY DEF Row
<1> QED BY <1>1, <1>2, <1>3, <1>4

LEMMA Shift ==
  ASSUME NEW S, NEW q \in Seq(S), q # <<>>
  PROVE  /\ Tail(q) \in Seq(S) /\ Head(q) \in S /\ 1 \in DOMAIN q /\ Head(q) = q[1]
         /\ \A i \in DOMAIN Tail(q) : i \in Nat \ {0} /\ i + 1 \in DOMAIN q /\ Tail(q)[i] = q[i + 1]
  OBVIOUS

LEMMA Extend ==
  ASSUME NEW S, NEW q \in Seq(S), NEW m \in S
  PROVE  /\ Append(q, m) \in Seq(S)
         /\ \A i \in DOMAIN q : i \in DOMAIN Append(q, m) /\ Append(q, m)[i] = q[i]
         /\ \A i \in DOMAIN Append(q, m) : \/ i \in DOMAIN q
                                           \/ i = Len(q) + 1 /\ Append(q, m)[i] = m
         /\ \A i \in DOMAIN q : i \in Nat /\ i < Len(q) + 1
  OBVIOUS

\* What is left to be heard once the first message was.
LEMMA AfterHearing ==
  ASSUME NEW q \in Seq(News), q # <<>>, NEW g, NEW rs, NEW ld
  PROVE  /\ NewsInTurn(q, g) => NewsInTurn(Tail(q), g) /\ NewsFine(Head(q), g)
         /\ NewsInTurn(q, g) => \A i \in DOMAIN Tail(q) : InTurn(Head(q), Tail(q)[i])
         /\ RowsFine(rs, q, g) => RowsFine(rs, Tail(q), g)
         /\ AllUnseen(q, rs, ld) => AllUnseen(Tail(q), rs, ld) /\ Unseen(Head(q), rs, ld)
<1> USE Shift
<1>1. ASSUME NewsInTurn(q, g)
      PROVE  /\ NewsInTurn(Tail(q), g) /\ NewsFine(Head(q), g)
             /\ \A i \in DOMAIN Tail(q) : InTurn(Head(q), Tail(q)[i])
  <2>1. \A i \in DOMAIN q : i \in Int
    OBVIOUS
  <2>2. \A i \in DOMAIN Tail(q) : NewsFine(Tail(q)[i], g)
    BY <1>1 DEF NewsInTurn
  <2>3. ASSUME NEW i \in DOMAIN Tail(q), NEW j \in DOMAIN Tail(q), i < j PROVE InTurn(Tail(q)[i], Tail(q)[j])
    <3>1. i + 1 < j + 1 /\ i + 1 \in DOMAIN q /\ j + 1 \in DOMAIN q
      BY <2>3
    <3> QED BY <3>1, <1>1 DEF NewsInTurn
  <2>4. ASSUME NEW i \in DOMAIN Tail(q) PROVE InTurn(Head(q), Tail(q)[i])
    <3>1. 1 < i + 1 /\ i + 1 \in DOMAIN q /\ 1 \in DOMAIN q
      OBVIOUS
    <3> QED BY <3>1, <1>1 DEF NewsInTurn
  <2> QED BY <1>1, <2>2, <2>3, <2>4 DEF NewsInTurn
<1>2. RowsFine(rs, q, g) => RowsFine(rs, Tail(q), g)
  BY DEF RowsFine, RowFine
<1>3. AllUnseen(q, rs, ld) => AllUnseen(Tail(q), rs, ld) /\ Unseen(Head(q), rs, ld)
  BY DEF AllUnseen
<1> QED BY <1>1, <1>2, <1>3

LEMMA StillFine ==
  ASSUME NEW m \in News, NEW g \in Backend, NEW h \in Backend, Grown(g, h), NewsFine(m, g)
  PROVE  NewsFine(m, h)
<1>1. \A id \in SessionIds : g.taken[id] \in Nat /\ h.taken[id] \in Nat /\ g.taken[id] <= h.taken[id]
  BY DEF Grown, Backend
<1>2. \A k \in DOMAIN m.ids : m.ids[k] \in Nat
  BY NewsTyped
<1>3. m.op = "sample" => m.arg <= h.taken[m.id]
  BY <1>1, NewsTyped DEF NewsFine
<1>4. m.op = "data" => \A k \in DOMAIN m.ids : m.ids[k] <= h.taken[m.id]
  BY <1>1, <1>2 DEF NewsFine
<1> QED BY <1>3, <1>4 DEF NewsFine, Grown

\* What is to be heard once one more message was sent.
LEMMA AfterSending ==
  ASSUME NEW q \in Seq(News), NEW m \in News, NEW g \in Backend, NEW h \in Backend, Grown(g, h), NEW ld
  PROVE  /\ NewsInTurn(q, g) /\ NewsFine(m, h) /\ (\A i \in DOMAIN q : InTurn(q[i], m))
              => NewsInTurn(Append(q, m), h)
         /\ \A rs \in Seq(Row) :
              /\ RowsFine(rs, q, g)
                   /\ (m.op = "sample" =>
                         \A k \in DOMAIN rs : rs[k].id = m.id => Under(rs[k].results, m.arg))
                   => RowsFine(rs, Append(q, m), h)
              /\ AllUnseen(q, rs, ld) /\ Unseen(m, rs, ld) => AllUnseen(Append(q, m), rs, ld)
<1> USE Extend
<1>1. ASSUME NewsInTurn(q, g), NewsFine(m, h), \A i \in DOMAIN q : InTurn(q[i], m)
      PROVE  NewsInTurn(Append(q, m), h)
  <2>1. ASSUME NEW i \in DOMAIN q PROVE NewsFine(q[i], h)
    <3>1. NewsFine(q[i], g) /\ q[i] \in News
      BY <1>1 DEF NewsInTurn
    <3> QED BY <3>1, StillFine
  <2>2. \A i, j \in DOMAIN Append(q, m) : i < j => InTurn(Append(q, m)[i], Append(q, m)[j])
    <3> SUFFICES ASSUME NEW i \in DOMAIN Append(q, m), NEW j \in DOMAIN Append(q, m), i < j
                 PROVE  InTurn(Append(q, m)[i], Append(q, m)[j])
      OBVIOUS
    <3>1. i \in DOMAIN q
      BY SMT
    <3>2. CASE j \in DOMAIN q
      BY <3>1, <3>2, <1>1 DEF NewsInTurn
    <3>3. CASE j \notin DOMAIN q
      BY <3>1, <3>3, <1>1
    <3> QED BY <3>2, <3>3
  <2> QED BY <2>1, <2>2, <1>1 DEF NewsInTurn
<1>2. ASSUME NEW rs \in Seq(Row), RowsFine(rs, q, g),
             m.op = "sample" => \A k \in DOMAIN rs : rs[k].id = m.id => Under(rs[k].results, m.arg)
      PROVE  RowsFine(rs, Append(q, m), h)
  <2> SUFFICES ASSUME NEW k \in DOMAIN rs PROVE RowFine(rs[k], Append(q, m), h)
    BY DEF RowsFine
  <2> DEFINE r == rs[k]
  <2>1. RowFine(r, q, g) /\ r \in Row /\ r.id \in SessionIds
    BY <1>2, NewsTyped DEF RowsFine
  <2>2. g.taken[r.id] \in Nat /\ h.taken[r.id] \in Nat /\ g.taken[r.id] <= h.taken[r.id]
    BY <2>1 DEF Grown, Backend
  <2>3. \A n \in DOMAIN r.results : r.results[n] \in Nat
    BY <2>1, NewsTyped
  <2>4. m.op = "sample" /\ m.id = r.id => Under(r.results, m.arg)
    BY <1>2
  <2> HIDE DEF r
  <2>5. \A n \in DOMAIN r.results : r.results[n] <= h.taken[r.id]
    BY <2>1, <2>2, <2>3 DEF RowFine
  <2>6. ASSUME NEW i \in DOMAIN Append(q, m), Append(q, m)[i].op = "sample", Append(q, m)[i].id = r.id
        PROVE  Under(r.results, Append(q, m)[i].arg)
    <3>1. CASE i \in DOMAIN q
      BY <3>1, <2>1, <2>6 DEF RowFine
    <3>2. CASE Append(q, m)[i] = m
      BY <3>2, <2>4, <2>6
    <3> QED BY <3>1, <3>2
  <2>7. RowFine(r, Append(q, m), h)
    BY <2>1, <2>5, <2>6 DEF RowFine, Grown
  <2> QED BY <2>7 DEF r
<1>3. \A rs : AllUnseen(q, rs, ld) /\ Unseen(m, rs, ld) => AllUnseen(Append(q, m), rs, ld)
  BY DEF AllUnseen
<1> QED BY <1>1, <1>2, <1>3

\* Rows of the same sessions with the same samples.
SameRows(rs, ts) ==
  DOMAIN rs = DOMAIN ts /\ \A k \in DOMAIN rs : rs[k].id = ts[k].id /\ rs[k].results = ts[k].results

LEMMA OnSameRows ==
  ASSUME NEW rs, NEW ts, SameRows(rs, ts), NEW q, NEW g, NEW ld
  PROVE  /\ Apart(rs) => Apart(ts)
         /\ RowsFine(rs, q, g) => RowsFine(ts, q, g)
         /\ AllUnseen(q, rs, ld) => AllUnseen(q, ts, ld)
<1>1. Apart(rs) => Apart(ts)
  BY DEF SameRows, Apart
<1>2. RowsFine(rs, q, g) => RowsFine(ts, q, g)
  BY DEF SameRows, RowsFine, RowFine
<1>3. AllUnseen(q, rs, ld) => AllUnseen(q, ts, ld)
  BY DEF SameRows, AllUnseen, Unseen
<1> QED BY <1>1, <1>2, <1>3

\* One call of a kind, through a call that is made, served or heard.
LEMMA OneCalled ==
  ASSUME NEW op, NEW cs, NEW q, NEW at, NEW new, OneAt(op, cs, q, at), \A c \in new : c.op # op
  PROVE  OneAt(op, cs \cup new, q, at)
  BY DEF OneAt

LEMMA OneServed ==
  ASSUME NEW op, NEW cs, NEW q \in Seq(News), NEW at, NEW c \in cs, NEW m \in News, m.op = c.op, OneAt(op, cs, q, at)
  PROVE  OneAt(op, cs \ {c}, Append(q, m), at)
  BY Extend DEF OneAt

LEMMA OneSent ==
  ASSUME NEW op, NEW cs, NEW q \in Seq(News), NEW at, NEW m \in News, m.op # op, OneAt(op, cs, q, at)
  PROVE  OneAt(op, cs, Append(q, m), at)
  BY Extend DEF OneAt

LEMMA OneHeard ==
  ASSUME NEW op, NEW cs, NEW q \in Seq(News), q # <<>>, NEW at, OneAt(op, cs, q, at)
  PROVE  /\ OneAt(op, cs, Tail(q), at)
         /\ Head(q).op = op => \A to : OneAt(op, cs, Tail(q), to)
         /\ Head(q).op = op => at = op
<1> USE Shift
<1>1. \A i, j \in DOMAIN Tail(q) : i + 1 = j + 1 => i = j
  OBVIOUS
<1>2. OneAt(op, cs, Tail(q), at)
  BY <1>1 DEF OneAt
<1>3. ASSUME Head(q).op = op PROVE at = op /\ \A to : OneAt(op, cs, Tail(q), to)
  <2>1. \A i \in DOMAIN Tail(q) : i + 1 # 1
    OBVIOUS
  <2> QED BY <1>3, <1>1, <1>2, <2>1 DEF OneAt
<1> QED BY <1>2, <1>3

\* A set of natural numbers that is not empty has a least one.
LEMMA Least == ASSUME NEW T \in SUBSET Nat, T # {} PROVE \E n \in T : \A m \in T : n <= m
<1>1. \E n \in T : \A m \in T : ~(<<m, n>> \in OpToRel(<, Nat))
  BY NatLessThanWellFounded, WFMin, Zenon
<1>2. PICK n \in T : \A m \in T : ~(<<m, n>> \in OpToRel(<, Nat))
  BY <1>1, Zenon
<1>3. ASSUME NEW m \in T PROVE n <= m
  <2>1. ~(<<m, n>> \in OpToRel(<, Nat))
    BY <1>2, Zenon
  <2>2. m < n => <<m, n>> \in OpToRel(<, Nat)
    BY DEF OpToRel
  <2>3. ~(m < n)
    BY <2>1, <2>2, Zenon
  <2> QED BY <2>3
<1> QED BY <1>3, Zenon

\* The places of a sequence that stay, counted in order, are all counted.
LEMMA AllCounted ==
  ASSUME NEW N \in Nat, NEW stay, stay \subseteq 1..N
  PROVE  /\ Cardinality(stay) \in Nat
         /\ \A n \in 1..Cardinality(stay) :
              \E i \in stay : Cardinality({j \in stay : j < i}) = n - 1
<1> DEFINE Below(i) == {j \in stay : j < i}
           rank == [i \in stay |-> Cardinality(Below(i)) + 1]
           K == Cardinality(stay)
<1>1. IsFiniteSet(stay) /\ K \in Nat
  <2>1. IsFiniteSet(1..N) /\ stay \in SUBSET (1..N)
    BY FS_Interval
  <2> QED BY <2>1, FS_Subset, FS_CardinalityType
<1>2. ASSUME NEW i \in stay
      PROVE  IsFiniteSet(Below(i)) /\ Cardinality(Below(i)) \in Nat /\ Cardinality(Below(i)) < K
  <2>1. IsFiniteSet(Below(i)) /\ Cardinality(Below(i)) \in Nat /\ Cardinality(Below(i)) <= K
    BY <1>1, FS_Subset, FS_CardinalityType
  <2>2. Below(i) # stay
    BY DEF Below
  <2> QED BY <2>1, <2>2, <1>1, FS_Subset
<1>3. ASSUME NEW i \in stay, NEW k \in stay, i < k PROVE Cardinality(Below(i)) # Cardinality(Below(k))
  <2>1. Below(i) \in SUBSET Below(k) /\ Below(i) # Below(k)
    <3>1. \A x \in stay : x \in Int
      OBVIOUS
    <3>2. i \in Below(k) /\ i \notin Below(i)
      BY <3>1, <1>3
    <3>3. \A x \in Below(i) : x \in Below(k)
      BY <3>1, <1>3
    <3> QED BY <3>2, <3>3
  <2> QED BY <2>1, <1>2, FS_Subset
<1>4. rank \in Injection(stay, 1..K)
  <2>1. rank \in [stay -> 1..K]
    BY <1>1, <1>2
  <2>2. ASSUME NEW i \in stay, NEW k \in stay, rank[i] = rank[k] PROVE i = k
    <3>1. Cardinality(Below(i)) = Cardinality(Below(k))
      BY <2>2, <1>2
    <3> QED BY <3>1, <1>3
  <2> QED BY <2>1, <2>2 DEF Injection, IsInjective
<1>5. IsFiniteSet(1..K) /\ Cardinality(1..K) = K
  BY <1>1, FS_Interval
<1>6. rank \in Surjection(stay, 1..K)
  BY <1>1, <1>4, <1>5, FS_Injection
<1>7. ASSUME NEW n \in 1..K PROVE \E i \in stay : Cardinality(Below(i)) = n - 1
  <2>1. PICK i \in stay : rank[i] = n
    BY <1>6 DEF Surjection
  <2>2. rank[i] = Cardinality(Below(i)) + 1
    OBVIOUS
  <2>3. Cardinality(Below(i)) = n - 1
    <3> HIDE DEF Below, K
    <3>1. Cardinality(Below(i)) \in Nat
      BY <1>2
    <3> QED BY <3>1, <2>1, <2>2
  <2> QED BY <2>3, Zenon
<1> QED BY <1>1, <1>7

\* What is left of a list holds what it held, each place once.
Left(q, stay) == [n \in 1..Cardinality(stay) |->
                    q[CHOOSE i \in stay : Cardinality({j \in stay : j < i}) = n - 1]]

Taken(q, stay, t) ==
  \E at \in [DOMAIN t -> stay] : /\ \A n \in DOMAIN t : t[n] = q[at[n]]
                                 /\ \A n, m \in DOMAIN t : at[n] = at[m] => n = m

LEMMA OnlyIs ==
  ASSUME NEW S, NEW q \in Seq(S), NEW stay, stay \subseteq DOMAIN q
  PROVE  Left(q, stay) \in Seq(S) /\ Taken(q, stay, Left(q, stay))
<1> DEFINE Before(i) == {j \in stay : j < i}
           place(n) == CHOOSE i \in stay : Cardinality(Before(i)) = n - 1
           K == Cardinality(stay)
           t == Left(q, stay)
           at == [n \in 1..K |-> place(n)]
<1>1. Len(q) \in Nat /\ stay \subseteq 1..Len(q) /\ DOMAIN q = 1..Len(q)
  OBVIOUS
<1>2. K \in Nat /\ \A n \in 1..K : \E i \in stay : Cardinality(Before(i)) = n - 1
  BY <1>1, AllCounted
<1>3. \A n \in 1..K : place(n) \in stay /\ Cardinality(Before(place(n))) = n - 1
  <2> HIDE DEF Before, K
  <2> QED BY <1>2
<1>4. t = [n \in 1..K |-> q[place(n)]]
  BY DEF Left
<1> HIDE DEF place, Before, K, t
<1>5. at \in [1..K -> stay] /\ DOMAIN t = 1..K /\ \A n \in DOMAIN t : t[n] = q[at[n]]
  BY <1>3, <1>4
<1>6. \A n \in 1..K : Cardinality(Before(at[n])) = n - 1
  BY <1>3
<1>7. \A i \in stay : q[i] \in S
  BY <1>1
<1> HIDE DEF at
<1>8. t \in Seq(S)
  <2>1. \A n \in 1..K : q[at[n]] \in S
    BY <1>5, <1>7, Zenon
  <2>2. t = [n \in 1..K |-> q[at[n]]]
    <3>1. \A n \in 1..K : q[place(n)] = q[at[n]]
      BY DEF at
    <3> QED BY <1>4, <3>1, Zenon
  <2>3. t \in [1..K -> S]
    BY <2>1, <2>2, Zenon
  <2> QED BY <1>2, <2>3, SeqDef, Zenon
<1>9. ASSUME NEW n \in DOMAIN t, NEW m \in DOMAIN t, at[n] = at[m] PROVE n = m
  <2>1. n \in 1..K /\ m \in 1..K
    BY <1>5, Zenon
  <2>2. Cardinality(Before(at[n])) = n - 1 /\ Cardinality(Before(at[m])) = m - 1
    BY <1>6, <2>1, Zenon
  <2>3. n - 1 = m - 1 /\ n \in Int /\ m \in Int
    BY <2>1, <2>2, <1>9, <1>2
  <2> QED BY <2>3
<1>10. at \in [DOMAIN t -> stay]
  BY <1>5, Zenon
<1>11. Taken(q, stay, t)
  BY <1>5, <1>9, <1>10, Zenon DEF Taken
<1> QED BY <1>8, <1>11 DEF t

Loads == {"list", "data", "running"}

LEMMA InitPoll == ASSUME PollAssumption, Poll!Init PROVE PollInv
<1> USE PollAssumption, Poll!Init DEF Poll!Init, PollAssumption
<1>1. rows \in Seq(Row) /\ chan \in Seq(News) /\ loading \in [left : Seq(SessionIds), loaded : Seq(Row)]
  OBVIOUS
<1>2. PICK kept \in {{}, {1}} : \E polled \in SUBSET kept :
        go = [given |-> kept, stored |-> kept, polled |-> polled, cred |-> [id \in SessionIds |-> 0],
              taken   |-> [id \in SessionIds |-> IF id \in kept THEN 1 ELSE 0],
              written |-> [id \in SessionIds |-> IF id \in kept THEN 1 ELSE 0]]
  OBVIOUS
<1>3. go \in Backend /\ go.given = kept /\ go.stored \subseteq go.given /\ go.polled \subseteq go.given
      /\ \A id \in SessionIds : go.written[id] <= go.taken[id]
  BY <1>2 DEF Backend
<1>4. IsFiniteSet(kept)
  <2>1. IsFiniteSet({}) /\ IsFiniteSet({1})
    BY FS_EmptySet, FS_Singleton, Zenon
  <2> QED BY <2>1
<1>5. PollTyped
  BY <1>1, <1>3, <1>4 DEF PollTyped, Phases
<1>6. /\ Apart(rows) /\ RowsFine(rows, chan, go)
      /\ LoadFine(loading, go) /\ RowsFine(loading.loaded, chan, go)
      /\ NewsInTurn(chan, go) /\ AllUnseen(chan, rows, loading)
  BY DEF Apart, RowsFine, LoadFine, NewsInTurn, AllUnseen, Differ
<1>7. \A op \in {"list", "data", "running"} : OneAt(op, calls, chan, phase)
  BY DEF OneAt
<1>8. NextLoad(calls, chan, phase, loading)
  BY DEF NextLoad
<1> QED BY <1>5, <1>6, <1>7, <1>8 DEF PollInv

\* The operator commands, and rows change in what they say of running.
LEMMA CommandStep ==
  ASSUME PollInv, NEW new \in SUBSET Request, \A c \in new : c.op \notin Loads,
         calls' = calls \cup new, rows' \in Seq(Row), SameRows(rows, rows'), secret' \in Nat,
         UNCHANGED <<phase, loading, chan, go>>
  PROVE  PollInv'
<1>1. PollTyped'
  BY DEF PollInv, PollTyped
<1>2. Apart(rows)' /\ RowsFine(rows, chan, go)' /\ AllUnseen(chan, rows, loading)'
  BY OnSameRows DEF PollInv
<1>3. LoadFine(loading, go)' /\ RowsFine(loading.loaded, chan, go)' /\ NewsInTurn(chan, go)'
  BY DEF PollInv
<1>4. \A op \in {"list", "data", "running"} : OneAt(op, calls, chan, phase)'
  BY OneCalled DEF PollInv, Loads
<1>5. NextLoad(calls, chan, phase, loading)'
  BY DEF PollInv, NextLoad, Loads
<1> QED BY <1>1, <1>2, <1>3, <1>4, <1>5 DEF PollInv

\* The backend sends a message.
LEMMA SendStep ==
  ASSUME PollInv, NEW m \in News, chan' = Append(chan, m),
         go' \in Backend, IsFiniteSet(go'.given), go'.stored \subseteq go'.given, go'.polled \subseteq go'.given,
         \A id \in SessionIds : go'.written[id] <= go'.taken[id],
         Grown(go, go'), NewsFine(m, go'), \A i \in DOMAIN chan : InTurn(chan[i], m),
         m.op = "sample" => \A rs \in {rows, loading.loaded} : \A k \in DOMAIN rs :
                              rs[k].id = m.id => Under(rs[k].results, m.arg),
         Unseen(m, rows, loading), calls' \subseteq calls,
         \A op \in Loads : OneAt(op, calls', chan', phase),
         m.op = "data" => \A c \in calls : c.op = "data" => m.id = c.id,
         m.op = "data" => \E c \in calls : c.op = "data",
         UNCHANGED <<rows, phase, loading, secret>>
  PROVE  PollInv'
<1>1. PollTyped'
  BY Extend DEF PollInv, PollTyped
<1>2. go \in Backend /\ chan \in Seq(News) /\ rows \in Seq(Row) /\ loading.loaded \in Seq(Row)
  BY DEF PollInv, PollTyped
<1>3. NewsInTurn(chan, go)'
  BY <1>2, AfterSending DEF PollInv
<1>4. RowsFine(rows, chan, go)' /\ AllUnseen(chan, rows, loading)'
  BY <1>2, AfterSending DEF PollInv
<1>5. RowsFine(loading.loaded, chan, go)'
  BY <1>2, AfterSending DEF PollInv
<1>6. LoadFine(loading, go)' /\ Apart(rows)'
  BY DEF PollInv, LoadFine, Grown
<1>7. NextLoad(calls, chan, phase, loading)'
  <2> SUFFICES ASSUME phase = "data"
               PROVE  /\ loading.left # <<>>
                      /\ \A c \in calls' : c.op = "data" => c.id = Head(loading.left)
                      /\ \A i \in DOMAIN chan' : chan'[i].op = "data" => chan'[i].id = Head(loading.left)
    BY DEF NextLoad
  <2>1. /\ loading.left # <<>>
        /\ \A c \in calls : c.op = "data" => c.id = Head(loading.left)
        /\ \A i \in DOMAIN chan : chan[i].op = "data" => chan[i].id = Head(loading.left)
    BY DEF PollInv, NextLoad
  <2>2. m.op = "data" => m.id = Head(loading.left)
    BY <2>1
  <2>3. ASSUME NEW i \in DOMAIN chan', chan'[i].op = "data" PROVE chan'[i].id = Head(loading.left)
    <3>1. (i \in DOMAIN chan /\ chan'[i] = chan[i]) \/ chan'[i] = m
      BY <1>2, Extend
    <3> QED BY <3>1, <2>1, <2>2, <2>3
  <2> QED BY <2>1, <2>3
<1> QED BY <1>1, <1>3, <1>4, <1>5, <1>6, <1>7 DEF PollInv, Loads

\* The window hears a message that is no part of the load.
LEMMA HearStep ==
  ASSUME PollInv, chan # <<>>, chan' = Tail(chan), Head(chan).op \notin Loads,
         NEW new \in SUBSET Request, \A c \in new : c.op \notin Loads, calls' = calls \cup new,
         rows' \in Seq(Row), Apart(rows'), RowsFine(rows', Tail(chan), go), AllUnseen(Tail(chan), rows', loading),
         UNCHANGED <<phase, loading, secret, go>>
  PROVE  PollInv'
<1>1. chan \in Seq(News)
  BY DEF PollInv, PollTyped
<1>2. PollTyped'
  BY <1>1, Shift DEF PollInv, PollTyped
<1>3. RowsFine(loading.loaded, chan, go)' /\ NewsInTurn(chan, go)'
  BY <1>1, AfterHearing DEF PollInv
<1>4. LoadFine(loading, go)'
  BY DEF PollInv
<1>5. \A op \in {"list", "data", "running"} : OneAt(op, calls, chan, phase)'
  <2> SUFFICES ASSUME NEW op \in Loads PROVE OneAt(op, calls', chan', phase)
    BY DEF Loads
  <2>1. OneAt(op, calls, chan, phase)
    BY DEF PollInv, Loads
  <2>2. OneAt(op, calls, Tail(chan), phase)
    BY <1>1, <2>1, OneHeard
  <2> QED BY <2>2, OneCalled
<1>6. NextLoad(calls, chan, phase, loading)'
  BY <1>1, Shift DEF PollInv, NextLoad, Loads
<1> QED BY <1>2, <1>3, <1>4, <1>5, <1>6 DEF PollInv

LEMMA CallTyped2 ==
  /\ \A op \in Plain \cup {"delete"}, id \in Numbers, arg \in Groups : Poll!Call(op, id, arg) \in Request
  /\ \A id \in Numbers, arg \in Others : Poll!Call("update", id, arg) \in Request
  /\ \A op, id, arg : Poll!Call(op, id, arg).op = op /\ Poll!Call(op, id, arg).id = id
  BY DEF Poll!Call, Request

\* Rows of which something else is said, and nothing of which sessions and samples.
LEMMA Restated ==
  ASSUME NEW rs \in Seq(Row), NEW ts, ts = [i \in DOMAIN rs |-> ts[i]],
         \A i \in DOMAIN rs : ts[i] \in Row /\ ts[i].id = rs[i].id /\ ts[i].results = rs[i].results
  PROVE  ts \in Seq(Row) /\ SameRows(rs, ts)
<1>1. DOMAIN ts = DOMAIN rs /\ DOMAIN rs = 1..Len(rs) /\ Len(rs) \in Nat
  OBVIOUS
<1>2. ts \in [1..Len(rs) -> Row]
  BY <1>1, Zenon
<1>3. ts \in Seq(Row)
  BY <1>1, <1>2
<1> QED BY <1>1, <1>3 DEF SameRows

LEMMA Marked ==
  ASSUME PollInv, NEW id, NEW on \in BOOLEAN
  PROVE  /\ Poll!markRunning(id, on) \in Seq(Row) /\ SameRows(rows, Poll!markRunning(id, on))
         /\ Poll!OnRow(id, LAMBDA r : [r EXCEPT !.slow = on]) \in Seq(Row)
         /\ SameRows(rows, Poll!OnRow(id, LAMBDA r : [r EXCEPT !.slow = on]))
<1>1. rows \in Seq(Row)
  BY DEF PollInv, PollTyped
<1>2. Poll!markRunning(id, on)
        = [i \in DOMAIN rows |-> IF rows[i].id = id THEN [rows[i] EXCEPT !.running = on] ELSE rows[i]]
  BY DEF Poll!markRunning, Poll!OnRow
<1>3. Poll!OnRow(id, LAMBDA r : [r EXCEPT !.slow = on])
        = [i \in DOMAIN rows |-> IF rows[i].id = id THEN [rows[i] EXCEPT !.slow = on] ELSE rows[i]]
  BY DEF Poll!OnRow
<1>4. \A r \in Row : /\ [r EXCEPT !.running = on] \in Row /\ [r EXCEPT !.running = on].id = r.id
                     /\ [r EXCEPT !.running = on].results = r.results
                     /\ [r EXCEPT !.slow = on] \in Row /\ [r EXCEPT !.slow = on].id = r.id
                     /\ [r EXCEPT !.slow = on].results = r.results
  BY DEF Row
<1> DEFINE ts == Poll!markRunning(id, on)
           us == Poll!OnRow(id, LAMBDA r : [r EXCEPT !.slow = on])
<1>5. \A i \in DOMAIN rows : rows[i] \in Row
  BY <1>1
<1>6. ts \in Seq(Row) /\ SameRows(rows, ts)
  <2> HIDE DEF ts
  <2>1. ts = [i \in DOMAIN rows |-> IF rows[i].id = id THEN [rows[i] EXCEPT !.running = on] ELSE rows[i]]
    BY <1>2 DEF ts
  <2>2. ts = [i \in DOMAIN rows |-> ts[i]]
    BY <2>1
  <2>3. \A i \in DOMAIN rows : ts[i] \in Row /\ ts[i].id = rows[i].id /\ ts[i].results = rows[i].results
    BY <2>1, <1>4, <1>5
  <2> QED BY <1>1, <2>2, <2>3, Restated
<1>7. us \in Seq(Row) /\ SameRows(rows, us)
  <2> HIDE DEF us
  <2>1. us = [i \in DOMAIN rows |-> IF rows[i].id = id THEN [rows[i] EXCEPT !.slow = on] ELSE rows[i]]
    BY <1>3 DEF us
  <2>2. us = [i \in DOMAIN rows |-> us[i]]
    BY <2>1
  <2>3. \A i \in DOMAIN rows : us[i] \in Row /\ us[i].id = rows[i].id /\ us[i].results = rows[i].results
    BY <2>1, <1>4, <1>5
  <2> QED BY <1>1, <2>2, <2>3, Restated
<1> QED BY <1>6, <1>7

LEMMA CommandsPoll ==
  ASSUME PollAssumption, PollInv,
         \/ Poll!startPolling \/ Poll!bindPreset \/ Poll!resumeSession \/ Poll!stopPolling \/ Poll!stopAll
         \/ Poll!removeSession \/ Poll!acceptSlow \/ Poll!followCredentials
  PROVE  PollInv'
<1>0. /\ rows \in Seq(Row) /\ SameRows(rows, rows) /\ secret \in Nat
      /\ \A r \in {rows[i] : i \in DOMAIN rows} : r \in Row /\ r.id \in Numbers
  <2>1. rows \in Seq(Row) /\ SameRows(rows, rows) /\ secret \in Nat
    BY DEF PollInv, PollTyped, SameRows
  <2>2. ASSUME NEW i \in DOMAIN rows PROVE rows[i] \in Row /\ rows[i].id \in Numbers
    BY <2>1, NewsTyped DEF Numbers
  <2> QED BY <2>1, <2>2
<1>a. \A n \in Nat : [left |-> n] \in Groups
  BY DEF Groups
<1>b. /\ Poll!NoId \in Numbers /\ \A s : Poll!ToSet(s) = {s[i] : i \in DOMAIN s}
  BY DEF Poll!NoId, Numbers, Poll!ToSet
<1>1. CASE Poll!startPolling
  <2>1. PICK groups \in 1..2 : /\ Poll!Command({Poll!Call("create", Poll!NoId, [left |-> groups - 1])})
                               /\ UNCHANGED <<rows, secret>>
    BY <1>1 DEF Poll!startPolling
  <2> DEFINE new == {Poll!Call("create", Poll!NoId, [left |-> groups - 1])}
  <2>2. new \in SUBSET Request /\ \A c \in new : c.op \notin Loads
    BY <1>a, <1>b, CallTyped2 DEF Plain, Loads
  <2>3. calls' = calls \cup new /\ UNCHANGED <<rows, secret, phase, loading, chan, go>>
    BY <2>1 DEF Poll!Command
  <2> HIDE DEF new
  <2> QED BY <1>0, <2>2, <2>3, CommandStep
<1>2. CASE Poll!bindPreset
  <2> DEFINE new == {Poll!Call("bind", Poll!NoId, [left |-> 0])}
  <2>2. new \in SUBSET Request /\ \A c \in new : c.op \notin Loads
    BY <1>a, <1>b, CallTyped2 DEF Plain, Loads
  <2>3. calls' = calls \cup new /\ UNCHANGED <<rows, secret, phase, loading, chan, go>>
    BY <1>2 DEF Poll!bindPreset, Poll!Command
  <2> HIDE DEF new
  <2> QED BY <1>0, <2>2, <2>3, CommandStep
<1>3. ASSUME NEW r \in Poll!ToSet(rows), NEW op \in {"start", "stop", "unload"}, NEW on \in BOOLEAN,
             Poll!Command({Poll!Call(op, r.id, [left |-> 0])}), UNCHANGED secret,
             rows' = Poll!markRunning(r.id, on) \/ UNCHANGED rows
      PROVE  PollInv'
  <2> DEFINE new == {Poll!Call(op, r.id, [left |-> 0])}
  <2>2. new \in SUBSET Request /\ \A c \in new : c.op \notin Loads
    BY <1>0, <1>a, <1>b, CallTyped2 DEF Plain, Loads
  <2>3. calls' = calls \cup new /\ UNCHANGED <<secret, phase, loading, chan, go>>
    BY <1>3 DEF Poll!Command
  <2>4. rows' \in Seq(Row) /\ SameRows(rows, rows')
    BY <1>0, <1>3, Marked
  <2> HIDE DEF new
  <2> QED BY <1>0, <2>2, <2>3, <2>4, CommandStep
<1>4. CASE Poll!resumeSession \/ Poll!stopPolling \/ Poll!removeSession
  BY <1>3, <1>4 DEF Poll!resumeSession, Poll!stopPolling, Poll!removeSession
<1>5. CASE Poll!stopAll
  <2> DEFINE on == {r.id : r \in {x \in Poll!ToSet(rows) : x.running}}
             new == {Poll!Call("stop", id, [left |-> 0]) : id \in on}
  <2>1. \A id \in on : id \in Numbers
    BY <1>0, <1>b
  <2>2. new \in SUBSET Request /\ \A c \in new : c.op \notin Loads
    <3> HIDE DEF on
    <3> QED BY <2>1, <1>a, CallTyped2 DEF Plain, Loads
  <2>3. calls' = calls \cup new /\ rows' = [i \in DOMAIN rows |-> [rows[i] EXCEPT !.running = FALSE]]
        /\ UNCHANGED <<secret, phase, loading, chan, go>>
    BY <1>5 DEF Poll!stopAll, Poll!Command
  <2>4. rows' \in Seq(Row) /\ SameRows(rows, rows')
    <3>1. \A i \in DOMAIN rows : rows[i] \in Row
      BY <1>0
    <3>2. \A r \in Row : [r EXCEPT !.running = FALSE] \in Row /\ [r EXCEPT !.running = FALSE].id = r.id
                         /\ [r EXCEPT !.running = FALSE].results = r.results
      BY DEF Row
    <3>3. rows' = [i \in DOMAIN rows |-> rows'[i]]
      BY <2>3
    <3>4. \A i \in DOMAIN rows : rows'[i] = [rows[i] EXCEPT !.running = FALSE]
      BY <2>3
    <3> QED BY <1>0, <3>1, <3>2, <3>3, <3>4, Restated
  <2> HIDE DEF new
  <2> QED BY <1>0, <2>2, <2>3, <2>4, CommandStep
<1>6. CASE Poll!acceptSlow
  <2>1. PICK r \in Poll!ToSet(rows) :
          /\ Poll!Command({}) /\ rows' = Poll!OnRow(r.id, LAMBDA x : [x EXCEPT !.slow = FALSE])
          /\ UNCHANGED secret
    BY <1>6 DEF Poll!acceptSlow
  <2>2. rows' \in Seq(Row) /\ SameRows(rows, rows')
    BY <2>1, Marked
  <2>3. calls' = calls \cup {} /\ secret' \in Nat /\ UNCHANGED <<phase, loading, chan, go>>
    BY <1>0, <2>1 DEF Poll!Command
  <2>4. {} \in SUBSET Request /\ \A c \in {} : c.op \notin Loads
    OBVIOUS
  <2> QED BY <2>2, <2>3, <2>4, CommandStep
<1>7. CASE Poll!followCredentials
  <2> DEFINE ids == [i \in DOMAIN rows |-> rows[i].id]
             new == Poll!Follow(ids, secret + 1)
  <2>1. ids \in Seq(SessionIds)
    <3>1. \A i \in DOMAIN rows : rows[i].id \in SessionIds
      BY <1>0, NewsTyped
    <3> QED BY <1>0, <3>1
  <2>2. new \in SUBSET Request /\ \A c \in new : c.op \notin Loads
    <3> HIDE DEF ids
    <3>1. CASE ids = <<>>
      BY <3>1 DEF Poll!Follow
    <3>2. CASE ids # <<>>
      <4>1. Head(ids) \in Numbers /\ [left |-> Tail(ids), secret |-> secret + 1] \in Others
        BY <2>1, <3>2, <1>0 DEF Numbers, Others
      <4> QED BY <4>1, <3>2, CallTyped2 DEF Poll!Follow, Loads
    <3> QED BY <3>1, <3>2
  <2>3. calls' = calls \cup new /\ secret' \in Nat /\ UNCHANGED <<rows, phase, loading, chan, go>>
    BY <1>7, <1>0 DEF Poll!followCredentials, Poll!Command
  <2> HIDE DEF new
  <2> QED BY <1>0, <2>2, <2>3, CommandStep
<1> QED BY <1>1, <1>2, <1>4, <1>5, <1>6, <1>7

LEMMA FlushPoll == ASSUME PollInv, Poll!Flush PROVE PollInv'
<1>1. /\ go' = [go EXCEPT !.written = go.taken] /\ go \in Backend
      /\ UNCHANGED <<rows, phase, loading, secret, calls, chan>>
  BY DEF PollInv, PollTyped, Poll!Flush
<1>2. go' \in Backend /\ go'.given = go.given /\ go'.taken = go.taken /\ go'.stored = go.stored
      /\ go'.polled = go.polled /\ go'.written = go.taken
  BY <1>1 DEF Backend
<1>3. \A id \in SessionIds : go.taken[id] \in Nat
  BY <1>1 DEF Backend
<1>4. PollTyped'
  BY <1>1, <1>2, <1>3 DEF PollInv, PollTyped
<1>5. RowsFine(rows, chan, go)' /\ RowsFine(loading.loaded, chan, go)'
  BY <1>1, <1>2 DEF PollInv, RowsFine, RowFine
<1>6. LoadFine(loading, go)' /\ NewsInTurn(chan, go)'
  BY <1>1, <1>2 DEF PollInv, LoadFine, NewsInTurn, NewsFine
<1>7. /\ Apart(rows)' /\ AllUnseen(chan, rows, loading)' /\ NextLoad(calls, chan, phase, loading)'
      /\ \A op \in {"list", "data", "running"} : OneAt(op, calls, chan, phase)'
  BY <1>1 DEF PollInv
<1> QED BY <1>4, <1>5, <1>6, <1>7 DEF PollInv

LEMMA SamplePoll == ASSUME PollInv, Poll!Sample PROVE PollInv'
<1>1. PICK id \in go.polled :
        /\ go' = [go EXCEPT !.taken[id] = @ + 1]
        /\ chan' = Append(chan, [op |-> "sample", id |-> id, arg |-> go.taken[id] + 1, ok |-> TRUE, ids |-> <<>>])
        /\ UNCHANGED <<rows, phase, loading, secret, calls>>
  BY DEF Poll!Sample
<1> DEFINE m == [op |-> "sample", id |-> id, arg |-> go.taken[id] + 1, ok |-> TRUE, ids |-> <<>>]
<1>2. /\ go \in Backend /\ id \in SessionIds /\ chan \in Seq(News) /\ rows \in Seq(Row) /\ loading.loaded \in Seq(Row)
      /\ IsFiniteSet(go.given) /\ go.stored \subseteq go.given /\ go.polled \subseteq go.given
      /\ \A i \in SessionIds : go.written[i] <= go.taken[i]
  BY DEF PollInv, PollTyped, Backend
<1>3. \A i \in SessionIds : go.taken[i] \in Nat /\ go.written[i] \in Nat
  BY <1>2 DEF Backend
<1>4. /\ go' \in Backend /\ go'.given = go.given /\ go'.stored = go.stored /\ go'.polled = go.polled
      /\ go'.written = go.written /\ go'.taken = [go.taken EXCEPT ![id] = @ + 1]
  <2> DEFINE t == [go.taken EXCEPT ![id] = @ + 1]
  <2>1. go.taken \in [SessionIds -> Nat]
    BY <1>2 DEF Backend
  <2>2. t \in [SessionIds -> Nat]
    BY <2>1, <1>2
  <2>3. go' = [go EXCEPT !.taken = t]
    BY <1>1
  <2> HIDE DEF t
  <2>4. go' \in Backend /\ go'.given = go.given /\ go'.stored = go.stored /\ go'.polled = go.polled
        /\ go'.written = go.written /\ go'.taken = t
    BY <1>2, <2>2, <2>3 DEF Backend
  <2> QED BY <2>4 DEF t
<1>5. /\ \A i \in SessionIds : go'.taken[i] = IF i = id THEN go.taken[i] + 1 ELSE go.taken[i]
      /\ Grown(go, go') /\ \A i \in SessionIds : go'.written[i] <= go'.taken[i]
  <2>1. go.taken \in [SessionIds -> Nat]
    BY <1>2 DEF Backend
  <2>2. \A i \in SessionIds : go'.taken[i] = IF i = id THEN go.taken[i] + 1 ELSE go.taken[i]
    BY <2>1, <1>4
  <2> QED BY <2>2, <1>2, <1>3, <1>4 DEF Grown
<1>6. /\ m \in News /\ m.op = "sample" /\ m.id = id /\ m.arg = go.taken[id] + 1
  BY <1>2, <1>3 DEF News
<1>7. NewsFine(m, go')
  BY <1>5, <1>6, <1>2, <1>3 DEF NewsFine, Made
<1>8. \A i \in DOMAIN chan : InTurn(chan[i], m)
  <2> SUFFICES ASSUME NEW i \in DOMAIN chan PROVE InTurn(chan[i], m)
    OBVIOUS
  <2> HIDE DEF m
  <2>1. NewsFine(chan[i], go) /\ chan[i] \in News
    BY <1>2 DEF PollInv, NewsInTurn
  <2>2. chan[i].op = "sample" /\ chan[i].id = id => chan[i].arg < m.arg
    BY <2>1, <1>2, <1>3, <1>6, NewsTyped DEF NewsFine
  <2>3. ASSUME chan[i].op = "data", chan[i].id = id PROVE Under(chan[i].ids, m.arg)
    <3>1. \A k \in DOMAIN chan[i].ids : chan[i].ids[k] \in Nat /\ chan[i].ids[k] <= go.taken[id]
      BY <2>1, <2>3, NewsTyped DEF NewsFine
    <3> QED BY <3>1, <1>2, <1>3, <1>6 DEF Under
  <2> QED BY <2>2, <2>3, <1>6 DEF InTurn, Made
<1>9. \A rs \in {rows, loading.loaded} : \A k \in DOMAIN rs : rs[k].id = m.id => Under(rs[k].results, m.arg)
  <2> SUFFICES ASSUME NEW rs \in {rows, loading.loaded}, NEW k \in DOMAIN rs, rs[k].id = id
               PROVE  Under(rs[k].results, m.arg)
    BY <1>6
  <2> HIDE DEF m
  <2>1. RowFine(rs[k], chan, go) /\ rs[k] \in Row
    BY <1>2 DEF PollInv, RowsFine
  <2>2. \A n \in DOMAIN rs[k].results : rs[k].results[n] \in Nat /\ rs[k].results[n] <= go.taken[id]
    BY <2>1, NewsTyped DEF RowFine
  <2> QED BY <2>2, <1>2, <1>3, <1>6 DEF Under
<1>10. Unseen(m, rows, loading)
  BY <1>6 DEF Unseen
<1>11. \A op \in Loads : OneAt(op, calls', chan', phase)
  <2> HIDE DEF m
  <2>1. chan' = Append(chan, m) /\ calls' = calls
    BY <1>1 DEF m
  <2> QED BY <2>1, <1>2, <1>6, OneSent DEF PollInv, Loads
<1>12. chan' = Append(chan, m) /\ UNCHANGED <<rows, phase, loading, secret, calls>>
  BY <1>1
<1> HIDE DEF m
<1> QED BY <1>2, <1>4, <1>5, <1>6, <1>7, <1>8, <1>9, <1>10, <1>11, <1>12, SendStep

LEMMA OverrunPoll == ASSUME PollInv, Poll!Overrun PROVE PollInv'
<1>1. PICK id \in go.polled, late \in BOOLEAN :
        /\ chan' = Append(chan, [op |-> "overrun", id |-> id, arg |-> late, ok |-> TRUE, ids |-> <<>>])
        /\ UNCHANGED <<rows, phase, loading, secret, calls, go>>
  BY DEF Poll!Overrun
<1> DEFINE m == [op |-> "overrun", id |-> id, arg |-> late, ok |-> TRUE, ids |-> <<>>]
<1>2. /\ go \in Backend /\ id \in SessionIds /\ chan \in Seq(News)
      /\ IsFiniteSet(go.given) /\ go.stored \subseteq go.given /\ go.polled \subseteq go.given
      /\ \A i \in SessionIds : go.written[i] <= go.taken[i]
  BY DEF PollInv, PollTyped, Backend
<1>3. m \in News /\ m.op = "overrun"
  BY <1>2 DEF News
<1>4. Grown(go, go') /\ NewsFine(m, go') /\ Unseen(m, rows, loading)
  <2>1. \A i \in SessionIds : go.taken[i] \in Nat
    BY <1>2 DEF Backend
  <2> HIDE DEF m
  <2> QED BY <1>1, <1>3, <2>1 DEF Grown, NewsFine, Unseen, Made
<1>5. \A i \in DOMAIN chan : InTurn(chan[i], m)
  BY <1>3 DEF InTurn, Made
<1>6. chan' = Append(chan, m) /\ UNCHANGED <<rows, phase, loading, secret, calls, go>>
  BY <1>1
<1> HIDE DEF m
<1>7. \A op \in Loads : OneAt(op, calls', chan', phase)
  BY <1>2, <1>3, <1>6, OneSent DEF PollInv, Loads
<1> QED BY <1>2, <1>3, <1>4, <1>5, <1>6, <1>7, SendStep

LEMMA StartPoll == ASSUME PollInv, Poll!initFromBackend PROVE PollInv'
<1>1. /\ phase = "timer" /\ phase' = "list"
      /\ calls' = calls \cup {Poll!Call("list", Poll!NoId, [left |-> 0])}
      /\ UNCHANGED <<rows, loading, secret, chan, go>>
  BY DEF Poll!initFromBackend
<1> DEFINE c == Poll!Call("list", Poll!NoId, [left |-> 0])
<1>2. c \in Request /\ c.op = "list"
  BY CallTyped2 DEF Plain, Groups, Numbers, Poll!NoId
<1> HIDE DEF c
<1>3. calls' = calls \cup {c}
  BY <1>1 DEF c
<1>4. PollTyped'
  BY <1>1, <1>2, <1>3 DEF PollInv, PollTyped, Phases
<1>5. \A op \in Loads : OneAt(op, calls, chan, "timer")
  BY <1>1 DEF PollInv, Loads
<1>6. \A op \in {"list", "data", "running"} : OneAt(op, calls, chan, phase)'
  BY <1>1, <1>2, <1>3, <1>5 DEF OneAt, Loads
<1>7. NextLoad(calls, chan, phase, loading)'
  BY <1>1 DEF NextLoad
<1> QED BY <1>1, <1>4, <1>6, <1>7 DEF PollInv

\* A call is answered, and makes no session.
LEMMA ServedStep ==
  ASSUME PollInv, NEW c \in calls, NEW m \in News, m.op = c.op, m.op = "data" => m.id = c.id,
         ~Made(m), NewsFine(m, go'), chan' = Append(chan, m), calls' = calls \ {c},
         go' \in Backend, go'.given = go.given, go'.taken = go.taken, go'.written = go.written,
         go'.stored \subseteq go.given, go'.polled \subseteq go.given,
         UNCHANGED <<rows, phase, loading, secret>>
  PROVE  PollInv'
<1>1. /\ go \in Backend /\ chan \in Seq(News) /\ IsFiniteSet(go.given)
      /\ \A i \in SessionIds : go.written[i] <= go.taken[i]
      /\ \A op \in Loads : OneAt(op, calls, chan, phase)
  BY DEF PollInv, PollTyped, Loads
<1>2. Grown(go, go')
  BY <1>1 DEF Grown, Backend
<1>3. m.op \notin {"sample", "overrun"}
  BY <1>1 DEF PollInv, PollTyped, Request, Plain
<1>4. (\A i \in DOMAIN chan : InTurn(chan[i], m)) /\ Unseen(m, rows, loading)
  BY <1>3 DEF InTurn, Unseen, Made
<1>5. \A op \in Loads : OneAt(op, calls', chan', phase)
  <2> SUFFICES ASSUME NEW op \in Loads PROVE OneAt(op, calls \ {c}, Append(chan, m), phase)
    OBVIOUS
  <2>1. OneAt(op, calls, chan, phase)
    BY <1>1
  <2> QED BY <1>1, <2>1, OneServed
<1>6. m.op = "data" => \A d \in calls : d.op = "data" => m.id = d.id
  <2>1. OneAt("data", calls, chan, phase)
    BY <1>1 DEF Loads
  <2> QED BY <2>1 DEF OneAt
<1> QED BY <1>1, <1>2, <1>3, <1>4, <1>5, <1>6, SendStep

\* A session is made, with a number that was given to none.
LEMMA MadeStep ==
  ASSUME PollInv, NEW c \in calls, NEW id \in SessionIds, id \notin go.given, NEW started \in BOOLEAN,
         c.op \in {"create", "bind"}, go' = Poll!Create(id, started), calls' = calls \ {c},
         chan' = Append(chan, [Poll!Answer(c, TRUE, <<>>) EXCEPT !.id = id]),
         UNCHANGED <<rows, phase, loading, secret>>
  PROVE  PollInv'
<1> DEFINE m == [Poll!Answer(c, TRUE, <<>>) EXCEPT !.id = id]
<1>1. /\ go \in Backend /\ chan \in Seq(News) /\ IsFiniteSet(go.given) /\ c \in Request /\ secret \in Nat
      /\ go.stored \subseteq go.given /\ go.polled \subseteq go.given
      /\ \A i \in SessionIds : go.written[i] <= go.taken[i]
      /\ \A op \in Loads : OneAt(op, calls, chan, phase)
  BY DEF PollInv, PollTyped, Loads
<1>2. m = [op |-> c.op, id |-> id, arg |-> c.arg, ok |-> TRUE, ids |-> <<>>]
  <2> DEFINE a == Poll!Answer(c, TRUE, <<>>)
  <2>1. a = [op |-> c.op, id |-> c.id, arg |-> c.arg, ok |-> TRUE, ids |-> <<>>]
    BY DEF Poll!Answer
  <2>2. m = [a EXCEPT !.id = id]
    OBVIOUS
  <2> HIDE DEF a, m
  <2> QED BY <2>1, <2>2
<1>3. c.arg \in Groups /\ <<>> \in Seq(Nat) /\ id \in Numbers
  BY <1>1 DEF Request, Numbers
<1>4. m \in News /\ m.op = c.op /\ m.id = id
  BY <1>2, <1>3 DEF News, Plain
<1> HIDE DEF m
<1>5. /\ go' \in Backend /\ go'.given = go.given \cup {id} /\ go'.stored = go.stored \cup {id}
      /\ go'.polled \subseteq go.polled \cup {id} /\ go'.taken = go.taken /\ go'.written = go.written
  <2> DEFINE s == [go.cred EXCEPT ![id] = secret]
             p == IF started THEN go.polled \cup {id} ELSE go.polled
  <2>1. s \in [SessionIds -> Nat] /\ p \subseteq go.polled \cup {id} /\ p \subseteq SessionIds
    BY <1>1 DEF Backend
  <2>2. go' = [go EXCEPT !.given = go.given \cup {id}, !.stored = go.stored \cup {id}, !.polled = p, !.cred = s]
    BY DEF Poll!Create
  <2> HIDE DEF s, p
  <2>3. /\ go'.given = go.given \cup {id} /\ go'.stored = go.stored \cup {id} /\ go'.polled = p
        /\ go'.cred = s /\ go'.taken = go.taken /\ go'.written = go.written
    BY <1>1, <2>2 DEF Backend
  <2>4. go' = [given |-> go'.given, stored |-> go'.stored, polled |-> go'.polled, cred |-> go'.cred,
               taken |-> go'.taken, written |-> go'.written]
    BY <1>1, <2>2 DEF Backend
  <2>5. go'.given \in SUBSET SessionIds /\ go'.stored \in SUBSET SessionIds /\ go'.polled \in SUBSET SessionIds
        /\ go'.taken \in [SessionIds -> Nat] /\ go'.written \in [SessionIds -> Nat]
    BY <1>1, <2>1, <2>3 DEF Backend
  <2>6. go' \in Backend
    BY <2>1, <2>3, <2>4, <2>5, Zenon DEF Backend
  <2> QED BY <2>1, <2>3, <2>6
<1>6. IsFiniteSet(go'.given) /\ go'.stored \subseteq go'.given /\ go'.polled \subseteq go'.given
  BY <1>1, <1>5, FS_AddElement
<1>7. Grown(go, go')
  BY <1>1, <1>5 DEF Grown, Backend
<1>8. NewsFine(m, go')
  BY <1>4, <1>5 DEF NewsFine
<1>9. \A i \in DOMAIN chan : InTurn(chan[i], m)
  <2>1. \A i \in DOMAIN chan : NewsFine(chan[i], go)
    BY DEF PollInv, NewsInTurn
  <2> QED BY <1>4, <2>1 DEF InTurn, NewsFine
<1>10. Unseen(m, rows, loading)
  BY <1>4 DEF PollInv, Unseen, RowsFine, RowFine, LoadFine
<1>11. \A op \in Loads : OneAt(op, calls', chan', phase)
  <2> SUFFICES ASSUME NEW op \in Loads PROVE OneAt(op, calls \ {c}, Append(chan, m), phase)
    BY DEF m
  <2>1. OneAt(op, calls, chan, phase)
    BY <1>1
  <2> QED BY <1>1, <1>4, <2>1, OneServed
<1>12. chan' = Append(chan, m)
  BY DEF m
<1> QED BY <1>1, <1>4, <1>5, <1>6, <1>7, <1>8, <1>9, <1>10, <1>11, <1>12, SendStep

LEMMA AnswerTyped ==
  ASSUME NEW c \in Request, c.op # "delete", NEW ok \in BOOLEAN, NEW ids \in Seq(Nat)
  PROVE  /\ Poll!Answer(c, ok, ids) \in News /\ Poll!Answer(c, ok, ids).op = c.op
         /\ Poll!Answer(c, ok, ids).id = c.id /\ Poll!Answer(c, ok, ids).ids = ids
         /\ Poll!Answer(c, ok, ids).ok = ok
  BY DEF Poll!Answer, Request, News

LEMMA Counting == \A S : Poll!Cardinality(S) = Cardinality(S)
  BY DEF Poll!Cardinality, Cardinality, Poll!IsFiniteSet, IsFiniteSet

LEMMA SeqsOfSet ==
  ASSUME NEW S, IsFiniteSet(S), S \subseteq Nat, NEW s \in Poll!SetToSeqs(S)
  PROVE  s \in Seq(Nat) /\ Differ(s) /\ \A k \in DOMAIN s : s[k] \in S
<1>1. Cardinality(S) \in Nat
  BY FS_CardinalityType
<1>2. s \in [1..Cardinality(S) -> S] /\ \A i, j \in 1..Cardinality(S) : i # j => s[i] # s[j]
  BY Counting DEF Poll!SetToSeqs
<1>3. s \in [1..Cardinality(S) -> Nat]
  BY <1>2
<1>4. s \in Seq(Nat) /\ DOMAIN s = 1..Cardinality(S)
  BY <1>1, <1>3
<1> QED BY <1>2, <1>4 DEF Differ

LEMMA ServePoll == ASSUME PollAssumption, PollInv, NEW c \in calls, Poll!Serve(c) PROVE PollInv'
<1>1. /\ go \in Backend /\ chan \in Seq(News) /\ IsFiniteSet(go.given) /\ c \in Request /\ secret \in Nat
      /\ go.stored \subseteq go.given /\ go.polled \subseteq go.given /\ go.given \subseteq SessionIds
      /\ \A i \in SessionIds : go.written[i] <= go.taken[i] /\ go.written[i] \in Nat /\ go.taken[i] \in Nat
  BY DEF PollInv, PollTyped, Backend
<1>2. calls' = calls \ {c} /\ UNCHANGED <<rows, phase, loading, secret>>
  BY DEF Poll!Serve
<1>3. SessionIds \subseteq Nat /\ <<>> \in Seq(Nat)
  BY DEF PollAssumption
<1>4. ASSUME NEW ok \in BOOLEAN, NEW ids \in Seq(Nat), c.op # "delete",
             chan' = Append(chan, Poll!Answer(c, ok, ids)), ok => c.op \notin {"create", "bind"},
             c.op = "list" => Differ(ids) /\ \A k \in DOMAIN ids : ids[k] \in go.given,
             c.op = "data" => c.id \in SessionIds /\ Ascends(ids) /\ \A k \in DOMAIN ids : ids[k] <= go.taken[c.id],
             go' \in Backend, go'.given = go.given, go'.taken = go.taken, go'.written = go.written,
             go'.stored \subseteq go.given, go'.polled \subseteq go.given
      PROVE  PollInv'
  <2> DEFINE m == Poll!Answer(c, ok, ids)
  <2>1. m \in News /\ m.op = c.op /\ m.id = c.id /\ m.ids = ids /\ m.ok = ok
    BY <1>1, <1>4, AnswerTyped
  <2>2. m.op # "sample"
    BY <1>1, <2>1 DEF Request, Plain
  <2> HIDE DEF m
  <2>3. NewsFine(m, go') /\ ~Made(m)
    BY <2>1, <2>2, <1>4 DEF NewsFine, Made
  <2>4. chan' = Append(chan, m)
    BY <1>4 DEF m
  <2> QED BY <1>2, <1>4, <2>1, <2>3, <2>4, ServedStep
<1>5. CASE c.op = "list" /\ (\E ids \in Poll!SetToSeqs(go.stored) : chan' = Append(chan, Poll!Answer(c, TRUE, ids)))
           /\ UNCHANGED <<go, purse>>
  <2>1. PICK ids \in Poll!SetToSeqs(go.stored) : chan' = Append(chan, Poll!Answer(c, TRUE, ids))
    BY <1>5
  <2>2. IsFiniteSet(go.stored) /\ go.stored \subseteq Nat
    BY <1>1, <1>3, FS_Subset
  <2>3. ids \in Seq(Nat) /\ Differ(ids) /\ \A k \in DOMAIN ids : ids[k] \in go.stored
    BY <2>2, SeqsOfSet
  <2> QED BY <1>1, <1>4, <1>5, <2>1, <2>3
<1>6. CASE c.op = "data" /\ chan' = Append(chan, Poll!Answer(c, TRUE, [n \in 1..go.written[c.id] |-> n]))
           /\ UNCHANGED <<go, purse>>
  <2> DEFINE ids == [n \in 1..go.written[c.id] |-> n]
  <2>1. c.id \in SessionIds
    <3>1. phase = "data"
      BY <1>6 DEF PollInv, OneAt
    <3>2. loading.left # <<>> /\ c.id = Head(loading.left) /\ loading.left \in Seq(SessionIds)
      BY <3>1, <1>6 DEF PollInv, PollTyped, NextLoad
    <3> QED BY <3>2
  <2>2. ids \in Seq(Nat) /\ Ascends(ids) /\ \A k \in DOMAIN ids : ids[k] <= go.taken[c.id]
    BY <2>1, <1>1 DEF Ascends
  <2>3. chan' = Append(chan, Poll!Answer(c, TRUE, ids))
    BY <1>6
  <2> HIDE DEF ids
  <2> QED BY <1>1, <1>4, <1>6, <2>1, <2>2, <2>3
<1>7. CASE c.op = "running"
           /\ (\E ids \in Poll!SetToSeqs(go.polled) : chan' = Append(chan, Poll!Answer(c, TRUE, ids)))
           /\ UNCHANGED <<go, purse>>
  <2>1. PICK ids \in Poll!SetToSeqs(go.polled) : chan' = Append(chan, Poll!Answer(c, TRUE, ids))
    BY <1>7
  <2>2. IsFiniteSet(go.polled) /\ go.polled \subseteq Nat
    BY <1>1, <1>3, FS_Subset
  <2>3. ids \in Seq(Nat)
    BY <2>2, SeqsOfSet
  <2> QED BY <1>1, <1>4, <1>7, <2>1, <2>3
<1>8. CASE /\ c.op \in {"create", "bind"} /\ Poll!FreeIds # {}
           /\ LET id == CHOOSE x \in Poll!FreeIds : \A y \in Poll!FreeIds : x <= y
              IN /\ go' = Poll!Create(id, c.op = "bind")
                 /\ chan' = Append(chan, [Poll!Answer(c, TRUE, <<>>) EXCEPT !.id = id])
  <2> DEFINE id == CHOOSE x \in Poll!FreeIds : \A y \in Poll!FreeIds : x <= y
             started == c.op = "bind"
  <2>1. Poll!FreeIds \in SUBSET Nat /\ Poll!FreeIds # {} /\ Poll!FreeIds = SessionIds \ go.given
    BY <1>3, <1>8 DEF Poll!FreeIds
  <2>2. \E x \in Poll!FreeIds : \A y \in Poll!FreeIds : x <= y
    BY <2>1, Least
  <2>3. id \in Poll!FreeIds
    BY <2>2
  <2>4. go' = Poll!Create(id, started) /\ chan' = Append(chan, [Poll!Answer(c, TRUE, <<>>) EXCEPT !.id = id])
        /\ started \in BOOLEAN
    BY <1>8
  <2> HIDE DEF id, started
  <2>5. id \in SessionIds /\ id \notin go.given
    BY <2>1, <2>3
  <2> QED BY <1>2, <1>8, <2>4, <2>5, MadeStep
<1>9. CASE /\ c.op = "start"
           /\ go' = IF c.id \in go.stored THEN [go EXCEPT !.polled = @ \cup {c.id}] ELSE go
           /\ chan' = Append(chan, Poll!Answer(c, c.id \in go.stored, <<>>))
  <2>1. go' \in Backend /\ go'.given = go.given /\ go'.taken = go.taken /\ go'.written = go.written
        /\ go'.stored \subseteq go.given /\ go'.polled \subseteq go.given
    BY <1>1, <1>9 DEF Backend
  <2>2. (c.id \in go.stored) \in BOOLEAN
    OBVIOUS
  <2> QED BY <1>3, <1>4, <1>9, <2>1, <2>2
<1>10. CASE /\ c.op \in {"stop", "unload"} /\ go' = [go EXCEPT !.polled = @ \ {c.id}]
            /\ chan' = Append(chan, Poll!Answer(c, TRUE, <<>>))
  <2>1. go' \in Backend /\ go'.given = go.given /\ go'.taken = go.taken /\ go'.written = go.written
        /\ go'.stored \subseteq go.given /\ go'.polled \subseteq go.given
    BY <1>1, <1>10 DEF Backend
  <2> QED BY <1>3, <1>4, <1>10, <2>1
<1>11. CASE /\ c.op = "delete" /\ go' = [go EXCEPT !.polled = @ \ {c.id}, !.stored = @ \ {c.id}]
            /\ UNCHANGED chan
  <2>1. go' \in Backend /\ go'.given = go.given /\ go'.taken = go.taken /\ go'.written = go.written
        /\ go'.stored \subseteq go.given /\ go'.polled \subseteq go.given
    BY <1>1, <1>11 DEF Backend
  <2>2. PollTyped'
    BY <1>1, <1>2, <1>11, <2>1 DEF PollInv, PollTyped
  <2>3. RowsFine(rows, chan, go)' /\ RowsFine(loading.loaded, chan, go)'
    BY <1>2, <1>11, <2>1 DEF PollInv, RowsFine, RowFine
  <2>4. LoadFine(loading, go)' /\ NewsInTurn(chan, go)'
    BY <1>2, <1>11, <2>1 DEF PollInv, LoadFine, NewsInTurn, NewsFine
  <2>5. /\ Apart(rows)' /\ AllUnseen(chan, rows, loading)' /\ NextLoad(calls, chan, phase, loading)'
    BY <1>2, <1>11 DEF PollInv, NextLoad
  <2>6. \A op \in {"list", "data", "running"} : OneAt(op, calls, chan, phase)'
    BY <1>2, <1>11 DEF PollInv, OneAt
  <2> QED BY <2>2, <2>3, <2>4, <2>5, <2>6 DEF PollInv
<1>12. CASE /\ c.op = "update" /\ go' = [go EXCEPT !.cred[c.id] = c.arg.secret]
            /\ chan' = Append(chan, Poll!Answer(c, TRUE, <<>>))
  <2>1. go' \in Backend /\ go'.given = go.given /\ go'.taken = go.taken /\ go'.written = go.written
        /\ go'.stored \subseteq go.given /\ go'.polled \subseteq go.given
    <3> DEFINE s == [go.cred EXCEPT ![c.id] = c.arg.secret]
    <3>1. c.arg.secret \in Nat
      BY <1>1, <1>12 DEF Request, Others, Plain
    <3>2. s \in [SessionIds -> Nat]
      BY <1>1, <3>1 DEF Backend
    <3>3. go' = [go EXCEPT !.cred = s]
      BY <1>12
    <3> HIDE DEF s
    <3> QED BY <1>1, <3>2, <3>3 DEF Backend
  <2> QED BY <1>3, <1>4, <1>12, <2>1
<1>13. CASE /\ c.op \in {"list", "data", "running", "create", "bind", "start", "update"}
            /\ chan' = Append(chan, Poll!Answer(c, FALSE, <<>>)) /\ UNCHANGED go
  <2>1. Differ(<<>>) /\ Ascends(<<>>) /\ DOMAIN <<>> = {}
    BY DEF Differ, Ascends
  <2>2. c.op = "data" => c.id \in SessionIds
    <3> SUFFICES ASSUME c.op = "data" PROVE c.id \in SessionIds
      OBVIOUS
    <3>1. phase = "data"
      BY DEF PollInv, OneAt
    <3>2. loading.left # <<>> /\ c.id = Head(loading.left) /\ loading.left \in Seq(SessionIds)
      BY <3>1 DEF PollInv, PollTyped, NextLoad
    <3> QED BY <3>2
  <2> QED BY <1>1, <1>3, <1>4, <1>13, <2>1, <2>2
<1> QED BY <1>5, <1>6, <1>7, <1>8, <1>9, <1>10, <1>11, <1>12, <1>13 DEF Poll!Serve

\* What is known of the window that hears a message.
Heard(m, q) ==
  /\ m \in News /\ q \in Seq(News) /\ NewsFine(m, go)
  /\ \A i \in DOMAIN q : InTurn(m, q[i])
  /\ NewsInTurn(q, go) /\ RowsFine(rows, q, go) /\ RowsFine(loading.loaded, q, go)
  /\ AllUnseen(q, rows, loading) /\ Unseen(m, rows, loading)

LEMMA AllHeard == ASSUME PollInv, chan # <<>> PROVE Heard(Head(chan), Tail(chan))
<1>1. chan \in Seq(News)
  BY DEF PollInv, PollTyped
<1> QED BY <1>1, Shift, AfterHearing DEF PollInv, Heard

LEMMA KeepLast ==
  ASSUME PollAssumption, NEW s \in Seq(Nat), NEW n \in Nat, Ascends(s), Under(s, n)
  PROVE  /\ Poll!keepLast(Append(s, n)) \in Seq(Nat) /\ Ascends(Poll!keepLast(Append(s, n)))
         /\ \A k \in DOMAIN Poll!keepLast(Append(s, n)) :
              Poll!keepLast(Append(s, n))[k] = n \/ \E j \in DOMAIN s : Poll!keepLast(Append(s, n))[k] = s[j]
<1> DEFINE t == Append(s, n)
<1>1. /\ t \in Seq(Nat) /\ Len(t) \in Nat /\ Cap \in Nat
      /\ \A k \in DOMAIN t : t[k] = n \/ \E j \in DOMAIN s : t[k] = s[j]
  BY DEF PollAssumption
<1>2. Ascends(t)
  BY DEF Ascends, Under
<1> HIDE DEF t
<1>3. CASE Len(t) > Cap
  <2> DEFINE d == Len(t) - Cap
             u == SubSeq(t, d + 1, Len(t))
  <2>1. d \in Nat /\ d <= Len(t) /\ d > 0
    BY <1>1, <1>3
  <2>2. u \in Seq(Nat) /\ Len(u) = Len(t) - d /\ \A k \in 1..Len(u) : u[k] = t[k + d] /\ k + d \in DOMAIN t
    BY <1>1, <2>1
  <2>3. Poll!keepLast(t) = u
    BY <1>1, <1>3 DEF Poll!keepLast
  <2> HIDE DEF u, d
  <2>4. Ascends(u)
    <3> SUFFICES ASSUME NEW i \in DOMAIN u, NEW j \in DOMAIN u, i < j PROVE u[i] < u[j]
      BY DEF Ascends
    <3>0. i \in 1..Len(u) /\ j \in 1..Len(u) /\ Len(u) \in Nat
      <4>1. u \in Seq(Nat)
        BY <2>2, Zenon
      <4> QED BY <4>1
    <3>1. i + d < j + d /\ i \in 1..Len(u) /\ j \in 1..Len(u)
      BY <2>1, <3>0
    <3>2. u[i] = t[i + d] /\ u[j] = t[j + d] /\ i + d \in DOMAIN t /\ j + d \in DOMAIN t
      BY <3>1, <2>2, Zenon
    <3>3. t[i + d] < t[j + d]
      BY <3>1, <3>2, <1>2, Zenon DEF Ascends
    <3> QED BY <3>2, <3>3
  <2>5. \A k \in DOMAIN u : u[k] = n \/ \E j \in DOMAIN s : u[k] = s[j]
    BY <1>1, <2>2
  <2> QED BY <2>2, <2>3, <2>4, <2>5 DEF t
<1>4. CASE ~(Len(t) > Cap)
  <2>1. Poll!keepLast(t) = t
    BY <1>4 DEF Poll!keepLast
  <2> QED BY <2>1, <1>1, <1>2 DEF t
<1> QED BY <1>3, <1>4

LEMMA HearSamplePoll ==
  ASSUME PollAssumption, PollInv, chan # <<>>, chan' = Tail(chan), Poll!HearSample(Head(chan)),
         UNCHANGED <<secret, go>>
  PROVE  PollInv'
<1> DEFINE m == Head(chan)
           q == Tail(chan)
<1>1. Heard(m, q) /\ rows \in Seq(Row) /\ chan \in Seq(News) /\ go \in Backend
  BY AllHeard DEF PollInv, PollTyped
<1>2. /\ m.op = "sample" /\ rows' = Poll!withSample(m.id, m.arg) /\ chan' = q
      /\ UNCHANGED <<phase, loading, calls, secret, go>>
  BY DEF Poll!HearSample
<1> HIDE DEF m, q
<1>3. m.id \in SessionIds /\ m.arg \in Nat /\ m \in News /\ q \in Seq(News)
  BY <1>1, <1>2, NewsTyped DEF Heard
<1> DEFINE more(r) == [r EXCEPT !.results = Poll!keepLast(Append(r.results, m.arg)), !.running = TRUE]
<1>4. rows' = [i \in DOMAIN rows |-> IF rows[i].id = m.id THEN more(rows[i]) ELSE rows[i]]
  BY <1>2 DEF Poll!withSample, Poll!OnRow
<1>5. ASSUME NEW r \in Row, RowFine(r, q, go), r.id = m.id, Under(r.results, m.arg)
      PROVE  more(r) \in Row /\ more(r).id = r.id /\ RowFine(more(r), q, go)
  <2> DEFINE s == r.results
             t == Poll!keepLast(Append(s, m.arg))
  <2>1. s \in Seq(Nat) /\ Ascends(s)
    BY <1>5, NewsTyped DEF RowFine
  <2>2. t \in Seq(Nat) /\ Ascends(t) /\ \A k \in DOMAIN t : t[k] = m.arg \/ \E j \in DOMAIN s : t[k] = s[j]
    BY <2>1, <1>3, <1>5, KeepLast
  <2>3. more(r) = [r EXCEPT !.results = t, !.running = TRUE]
    OBVIOUS
  <2> HIDE DEF more, t
  <2>4. more(r) \in Row /\ more(r).id = r.id /\ more(r).results = t
    BY <2>2, <2>3 DEF Row
  <2>5. \A k \in DOMAIN t : t[k] <= go.taken[r.id]
    <3>1. m.arg <= go.taken[r.id]
      BY <1>1, <1>2, <1>5 DEF Heard, NewsFine
    <3>2. \A j \in DOMAIN s : s[j] <= go.taken[r.id]
      BY <1>5 DEF RowFine
    <3> QED BY <2>2, <3>1, <3>2
  <2>6. ASSUME NEW i \in DOMAIN q, q[i].op = "sample", q[i].id = r.id PROVE Under(t, q[i].arg)
    <3>1. m.arg < q[i].arg
      BY <1>1, <1>2, <1>5, <2>6 DEF Heard, InTurn
    <3>2. \A j \in DOMAIN s : s[j] < q[i].arg
      BY <1>5, <2>6 DEF RowFine, Under
    <3> QED BY <2>2, <3>1, <3>2 DEF Under
  <2> QED BY <1>5, <2>2, <2>4, <2>5, <2>6 DEF RowFine
<1> HIDE DEF more
<1>6. ASSUME NEW i \in DOMAIN rows
      PROVE  rows'[i] \in Row /\ rows'[i].id = rows[i].id /\ RowFine(rows'[i], q, go)
  <2>1. rows[i] \in Row /\ RowFine(rows[i], q, go)
    BY <1>1 DEF Heard, RowsFine
  <2>2. rows[i].id = m.id => Under(rows[i].results, m.arg)
    <3>1. RowFine(rows[i], chan, go) /\ 1 \in DOMAIN chan /\ chan[1] = m
      BY <1>1, Shift DEF PollInv, RowsFine, m
    <3> QED BY <3>1, <1>2 DEF RowFine
  <2>3. rows'[i] = IF rows[i].id = m.id THEN more(rows[i]) ELSE rows[i]
    BY <1>4
  <2> QED BY <2>1, <2>2, <2>3, <1>5
<1>7. DOMAIN rows' = DOMAIN rows /\ rows' \in Seq(Row)
  <2>1. rows' = [i \in DOMAIN rows |-> rows'[i]] /\ DOMAIN rows = 1..Len(rows) /\ Len(rows) \in Nat
    BY <1>1, <1>4
  <2>2. rows' \in [1..Len(rows) -> Row]
    BY <2>1, <1>6
  <2> QED BY <2>1, <2>2
<1>8. Apart(rows') /\ RowsFine(rows', q, go) /\ AllUnseen(q, rows', loading)
  <2>1. Apart(rows')
    BY <1>6, <1>7 DEF PollInv, Apart
  <2>2. AllUnseen(q, rows', loading)
    BY <1>1, <1>6, <1>7 DEF Heard, AllUnseen, Unseen
  <2> QED BY <2>1, <2>2, <1>6, <1>7 DEF RowsFine
<1>9. m.op \notin Loads /\ {} \in SUBSET Request /\ calls' = calls \cup {}
  BY <1>2 DEF Loads
<1> QED BY <1>2, <1>7, <1>8, <1>9, HearStep DEF m, q

\* The rows change in what they say of running, and calls may follow.
LEMMA HearRestated ==
  ASSUME PollInv, chan # <<>>, chan' = Tail(chan), Head(chan).op \notin Loads,
         rows' \in Seq(Row), SameRows(rows, rows'),
         NEW new \in SUBSET Request, \A c \in new : c.op \notin Loads, calls' = calls \cup new,
         UNCHANGED <<phase, loading, secret, go>>
  PROVE  PollInv'
<1>1. /\ RowsFine(rows, Tail(chan), go) /\ AllUnseen(Tail(chan), rows, loading)
  BY AllHeard DEF Heard
<1>2. Apart(rows') /\ RowsFine(rows', Tail(chan), go) /\ AllUnseen(Tail(chan), rows', loading)
  BY <1>1, OnSameRows DEF PollInv
<1> QED BY <1>2, HearStep

\* A row is added, of a session that is shown by none and announced by none.
LEMMA HearAdded ==
  ASSUME PollInv, chan # <<>>, chan' = Tail(chan), Head(chan).op \notin Loads,
         Made(Head(chan)), \A k \in DOMAIN rows : rows[k].id # Head(chan).id,
         NEW r, r \in Row, r.id = Head(chan).id, r.results = <<>>,
         rows' = Append(rows, r),
         NEW new \in SUBSET Request, \A c \in new : c.op \notin Loads, calls' = calls \cup new,
         UNCHANGED <<phase, loading, secret, go>>
  PROVE  PollInv'
<1> DEFINE m == Head(chan)
           q == Tail(chan)
<1>1. Heard(m, q) /\ rows \in Seq(Row) /\ go \in Backend
  BY AllHeard DEF PollInv, PollTyped
<1> HIDE DEF m, q
<1>2. m.id \in go.given /\ Made(m)
  BY <1>1 DEF Heard, NewsFine, m
<1>3. r \in Row /\ r.id = m.id /\ r.results = <<>>
  BY <1>1, <1>2 DEF Backend, m
<1>4. rows' \in Seq(Row)
  BY <1>1, <1>3, Extend
<1>5. Apart(rows')
  <2>1. \A k \in DOMAIN rows : rows[k].id # m.id
    BY DEF m
  <2> QED BY <2>1, <1>1, <1>3, Extend DEF PollInv, Apart
<1>6. RowFine(r, q, go)
  BY <1>2, <1>3 DEF RowFine, Ascends, Under
<1>7. RowsFine(rows', q, go)
  BY <1>1, <1>3, <1>6, Extend DEF Heard, RowsFine
<1>8. AllUnseen(q, rows', loading)
  <2> SUFFICES ASSUME NEW i \in DOMAIN q, q[i].op = "create", q[i].ok PROVE Unseen(q[i], rows', loading)
    BY DEF AllUnseen, Unseen
  <2>1. m.id # q[i].id
    BY <1>1, <1>2 DEF Heard, InTurn, Made
  <2>2. Unseen(q[i], rows, loading)
    BY <1>1 DEF Heard, AllUnseen
  <2> QED BY <2>1, <2>2, <1>1, <1>3, Extend DEF Unseen
<1> QED BY <1>4, <1>5, <1>7, <1>8, HearStep DEF m, q

LEMMA HearOthersPoll ==
  ASSUME PollAssumption, PollInv, chan # <<>>, chan' = Tail(chan), UNCHANGED <<secret, go>>,
         \/ Poll!HearOverrun(Head(chan)) \/ Poll!HearCreate(Head(chan)) \/ Poll!HearStart(Head(chan))
         \/ Poll!HearBind(Head(chan)) \/ Poll!HearStop(Head(chan)) \/ Poll!HearUpdate(Head(chan))
  PROVE  PollInv'
<1> DEFINE m == Head(chan)
<1>1. /\ m \in News /\ NewsFine(m, go) /\ Unseen(m, rows, loading) /\ rows \in Seq(Row) /\ SameRows(rows, rows)
  BY AllHeard DEF PollInv, PollTyped, Heard, SameRows
<1>2. {} \in SUBSET Request /\ (\A c \in {} : c.op \notin Loads) /\ calls \cup {} = calls
  OBVIOUS
<1>3. m.id \in Numbers
  BY <1>1, NewsTyped
<1>m. Made(m) => m.id \in SessionIds
  BY <1>1 DEF NewsFine, PollInv, PollTyped, Backend
<1>4. Poll!NoId \in Numbers
  BY DEF Poll!NoId, Numbers
<1> DEFINE fresh(id) == [Poll!sessionFromBackend(id, <<>>) EXCEPT !.running = TRUE]
<1>5. \A id \in SessionIds : fresh(id) \in Row /\ fresh(id).id = id /\ fresh(id).results = <<>>
  <2>1. \A r \in Row : /\ [r EXCEPT !.running = TRUE] \in Row /\ [r EXCEPT !.running = TRUE].id = r.id
                       /\ [r EXCEPT !.running = TRUE].results = r.results
    BY DEF Row
  <2>2. \A id \in SessionIds : /\ Poll!sessionFromBackend(id, <<>>) \in Row /\ Poll!sessionFromBackend(id, <<>>).id = id
                        /\ Poll!sessionFromBackend(id, <<>>).results = <<>>
    BY DEF Poll!sessionFromBackend, Row
  <2> QED BY <2>1, <2>2
<1> HIDE DEF fresh
<1> HIDE DEF m
<1>6. CASE Poll!HearOverrun(m)
  <2>1. m.op = "overrun" /\ rows' = Poll!OnRow(m.id, LAMBDA r : [r EXCEPT !.slow = m.arg])
        /\ UNCHANGED <<phase, loading, calls>>
    BY <1>6 DEF Poll!HearOverrun
  <2>2. m.arg \in BOOLEAN
    BY <1>1, <2>1 DEF News, Plain
  <2>3. rows' \in Seq(Row) /\ SameRows(rows, rows')
    BY <2>1, <2>2, Marked
  <2>4. m.op \notin Loads
    BY <2>1 DEF Loads
  <2> QED BY <1>2, <2>1, <2>3, <2>4, HearRestated DEF m
<1>7. CASE Poll!HearCreate(m)
  <2>1. m.op = "create" /\ m.op \notin Loads /\ UNCHANGED <<phase, loading>>
    BY <1>7 DEF Poll!HearCreate, Loads
  <2>2. CASE m.ok
    <3> DEFINE r == fresh(m.id)
               new == {Poll!Call("start", m.id, m.arg)}
    <3>1. m.arg \in Groups
      BY <1>1, <2>1 DEF News
    <3>2. new \in SUBSET Request /\ \A c \in new : c.op \notin Loads
      BY <1>3, <3>1, CallTyped2 DEF Plain, Loads
    <3>3. rows' = Append(rows, r) /\ calls' = calls \cup new
      BY <1>7, <2>2 DEF Poll!HearCreate, fresh
    <3>4. Made(m) /\ \A k \in DOMAIN rows : rows[k].id # m.id
      BY <1>1, <2>1, <2>2 DEF Made, Unseen
    <3>5. r \in Row /\ r.id = m.id /\ r.results = <<>>
      BY <1>m, <1>5, <3>4
    <3> HIDE DEF new, r
    <3> QED BY <2>1, <3>2, <3>3, <3>4, <3>5, HearAdded DEF m
  <2>3. CASE ~m.ok
    <3>1. UNCHANGED <<rows, calls>>
      BY <1>7, <2>3 DEF Poll!HearCreate
    <3> QED BY <1>1, <1>2, <2>1, <3>1, HearRestated DEF m
  <2> QED BY <2>2, <2>3
<1>8. CASE Poll!HearStart(m)
  <2> DEFINE new == IF m.arg.left > 0 THEN {Poll!Call("create", Poll!NoId, [left |-> m.arg.left - 1])} ELSE {}
  <2>1. m.op = "start" /\ m.op \notin Loads /\ UNCHANGED <<phase, loading>>
    BY <1>8 DEF Poll!HearStart, Loads
  <2>2. m.arg.left \in Nat
    BY <1>1, <2>1 DEF News, Groups
  <2>3. new \in SUBSET Request /\ \A c \in new : c.op \notin Loads
    <3>1. m.arg.left > 0 => [left |-> m.arg.left - 1] \in Groups
      BY <2>2 DEF Groups
    <3> QED BY <1>4, <3>1, CallTyped2 DEF Plain, Loads
  <2>4. calls' = calls \cup new /\ rows' = IF m.ok THEN rows ELSE Poll!markRunning(m.id, FALSE)
    BY <1>8 DEF Poll!HearStart
  <2>5. rows' \in Seq(Row) /\ SameRows(rows, rows')
    BY <1>1, <2>4, Marked
  <2> HIDE DEF new
  <2> QED BY <2>1, <2>3, <2>4, <2>5, HearRestated DEF m
<1>9. CASE Poll!HearBind(m)
  <2>1. m.op = "bind" /\ m.op \notin Loads /\ UNCHANGED <<phase, loading, calls>>
        /\ rows' = IF m.ok THEN Poll!adoptSession(m.id) ELSE rows
    BY <1>9 DEF Poll!HearBind, Loads
  <2>2. CASE ~m.ok
    BY <1>1, <1>2, <2>1, <2>2, HearRestated DEF m
  <2>3. CASE m.ok /\ m.id \notin Poll!RowIds
    <3> DEFINE r == fresh(m.id)
    <3>1. rows' = Append(rows, r)
      BY <2>1, <2>3 DEF Poll!adoptSession, fresh
    <3>2. Made(m) /\ \A k \in DOMAIN rows : rows[k].id # m.id
      BY <2>1, <2>3 DEF Made, Poll!RowIds, Poll!ToSet
    <3>3. r \in Row /\ r.id = m.id /\ r.results = <<>>
      BY <1>m, <1>5, <3>2
    <3> HIDE DEF r
    <3> QED BY <1>2, <2>1, <3>1, <3>2, <3>3, HearAdded DEF m
  <2>4. CASE m.ok /\ m.id \in Poll!RowIds
    <3> DEFINE again(r) ==
                 [[id |-> m.id, running |-> FALSE, results |-> r.results, slow |-> FALSE] EXCEPT !.running = TRUE]
    <3>1. rows' = [i \in DOMAIN rows |-> IF rows[i].id = m.id THEN again(rows[i]) ELSE rows[i]]
      BY <2>1, <2>4 DEF Poll!adoptSession, Poll!OnRow, Poll!sessionFromBackend
    <3>2. \A r \in Row : r.id = m.id => again(r) \in Row /\ again(r).id = r.id /\ again(r).results = r.results
      BY DEF Row
    <3> HIDE DEF again
    <3>3. \A i \in DOMAIN rows : rows[i] \in Row
      BY <1>1
    <3>4. rows' = [i \in DOMAIN rows |-> rows'[i]]
      BY <3>1
    <3>5. \A i \in DOMAIN rows : rows'[i] \in Row /\ rows'[i].id = rows[i].id /\ rows'[i].results = rows[i].results
      BY <3>1, <3>2, <3>3
    <3>6. rows' \in Seq(Row) /\ SameRows(rows, rows')
      BY <1>1, <3>4, <3>5, Restated
    <3> QED BY <1>2, <2>1, <3>6, HearRestated DEF m
  <2> QED BY <2>2, <2>3, <2>4
<1>10. CASE Poll!HearStop(m)
  <2>1. m.op = "stop" /\ m.op \notin Loads /\ UNCHANGED <<rows, phase, loading, calls>>
    BY <1>10 DEF Poll!HearStop, Loads
  <2> QED BY <1>1, <1>2, <2>1, HearRestated DEF m
<1>11. CASE Poll!HearUpdate(m)
  <2> DEFINE new == Poll!Follow(m.arg.left, m.arg.secret)
  <2>1. m.op = "update" /\ m.op \notin Loads /\ UNCHANGED <<rows, phase, loading>> /\ calls' = calls \cup new
    BY <1>11 DEF Poll!HearUpdate, Loads
  <2>2. m.arg.left \in Seq(SessionIds) /\ m.arg.secret \in Nat
    BY <1>1, <2>1 DEF News, Others, Plain
  <2>3. new \in SUBSET Request /\ \A c \in new : c.op \notin Loads
    <3>1. CASE m.arg.left = <<>>
      BY <3>1 DEF Poll!Follow
    <3>2. CASE m.arg.left # <<>>
      <4>1. Head(m.arg.left) \in Numbers /\ [left |-> Tail(m.arg.left), secret |-> m.arg.secret] \in Others
        BY <2>2, <3>2 DEF Numbers, Others
      <4> QED BY <4>1, <3>2, CallTyped2 DEF Poll!Follow, Loads
    <3> QED BY <3>1, <3>2
  <2> HIDE DEF new
  <2> QED BY <1>1, <2>1, <2>3, HearRestated DEF m
<1> QED BY <1>6, <1>7, <1>8, <1>9, <1>10, <1>11 DEF m

LEMMA OnlyOfPoll == \A q, stay : Poll!Only(q, stay) = Left(q, stay)
<1> SUFFICES ASSUME NEW q, NEW stay PROVE Poll!Only(q, stay) = Left(q, stay)
  OBVIOUS
<1> DEFINE Before(i) == {j \in stay : j < i}
<1>1. Poll!Cardinality(stay) = Cardinality(stay) /\ \A i : Poll!Cardinality(Before(i)) = Cardinality(Before(i))
  BY Counting, Zenon
<1>2. \A n : (CHOOSE i \in stay : Poll!Cardinality(Before(i)) = n - 1)
              = (CHOOSE i \in stay : Cardinality(Before(i)) = n - 1)
  BY <1>1, Zenon
<1>3. Poll!Only(q, stay) = [n \in 1..Poll!Cardinality(stay) |->
                               q[CHOOSE i \in stay : Poll!Cardinality(Before(i)) = n - 1]]
  BY DEF Poll!Only
<1>4. Poll!Only(q, stay) = [n \in 1..Cardinality(stay) |-> q[CHOOSE i \in stay : Cardinality(Before(i)) = n - 1]]
  BY <1>1, <1>2, <1>3, Zenon
<1> QED BY <1>4, Zenon DEF Left

LEMMA Fewer ==
  ASSUME NEW id, rows \in Seq(Row)
  PROVE  /\ Poll!Without(id) \in Seq(Row)
         /\ \A n \in DOMAIN Poll!Without(id) : \E i \in DOMAIN rows : Poll!Without(id)[n] = rows[i]
         /\ Apart(rows) => Apart(Poll!Without(id))
<1> DEFINE stay == {i \in DOMAIN rows : rows[i].id # id}
           t == Left(rows, stay)
<1>1. Poll!Without(id) = t
  BY OnlyOfPoll DEF Poll!Without
<1>2. stay \subseteq DOMAIN rows
  OBVIOUS
<1> HIDE DEF stay
<1>3. t \in Seq(Row)
  BY <1>2, OnlyIs
<1>4. PICK at \in [DOMAIN t -> stay] : /\ \A n \in DOMAIN t : t[n] = rows[at[n]]
                                       /\ \A n, m \in DOMAIN t : at[n] = at[m] => n = m
  BY <1>2, OnlyIs DEF Taken
<1> HIDE DEF t
<1>5. \A n \in DOMAIN t : t[n] = rows[at[n]] /\ at[n] \in DOMAIN rows
  BY <1>2, <1>4
<1>6. ASSUME Apart(rows) PROVE Apart(t)
  BY <1>4, <1>5, <1>6 DEF Apart
<1> QED BY <1>1, <1>3, <1>5, <1>6

LEMMA HearUnloadPoll ==
  ASSUME PollInv, chan # <<>>, chan' = Tail(chan), Poll!HearUnload(Head(chan)), UNCHANGED <<secret, go>>
  PROVE  PollInv'
<1> DEFINE m == Head(chan)
           new == {Poll!Call("delete", m.id, [left |-> 0])}
<1>1. Heard(m, Tail(chan)) /\ rows \in Seq(Row)
  BY AllHeard DEF PollInv, PollTyped
<1>2. /\ m.op = "unload" /\ rows' = Poll!Without(m.id) /\ calls' = calls \cup new
      /\ UNCHANGED <<phase, loading>>
  BY DEF Poll!HearUnload
<1>3. new \in SUBSET Request /\ \A c \in new : c.op \notin Loads
  <2>1. m.id \in Numbers
    BY <1>1, NewsTyped DEF Heard
  <2>2. [left |-> 0] \in Groups
    BY DEF Groups
  <2> HIDE DEF m
  <2>3. /\ Poll!Call("delete", m.id, [left |-> 0]) \in Request
        /\ Poll!Call("delete", m.id, [left |-> 0]).op = "delete"
    BY <2>1, <2>2, CallTyped2
  <2> QED BY <2>3 DEF Loads
<1>4. m.op \notin Loads
  BY <1>2 DEF Loads
<1> HIDE DEF m, new
<1>5. rows' \in Seq(Row) /\ Apart(rows') /\ \A n \in DOMAIN rows' : \E i \in DOMAIN rows : rows'[n] = rows[i]
  BY <1>1, <1>2, Fewer DEF PollInv
<1>6. RowsFine(rows', Tail(chan), go)
  BY <1>1, <1>5 DEF Heard, RowsFine
<1>7. AllUnseen(Tail(chan), rows', loading)
  <2>1. AllUnseen(Tail(chan), rows, loading)
    BY <1>1 DEF Heard
  <2> QED BY <1>5, <2>1 DEF AllUnseen, Unseen
<1> QED BY <1>2, <1>3, <1>4, <1>5, <1>6, <1>7, HearStep DEF m

\* The load: what there is, what it showed, and what runs.
LEMMA HearRunningPoll ==
  ASSUME PollInv, chan # <<>>, chan' = Tail(chan), Poll!HearRunning(Head(chan)), UNCHANGED <<secret, go>>
  PROVE  PollInv'
<1> DEFINE m == Head(chan)
           q == Tail(chan)
<1>1. Heard(m, q) /\ rows \in Seq(Row) /\ chan \in Seq(News) /\ chan' = q
  BY AllHeard DEF PollInv, PollTyped
<1>2. PICK autoResume \in BOOLEAN :
        LET idle == {r.id : r \in {x \in Poll!ToSet(rows) : x.id \notin Poll!ToSet(m.ids) /\ x.results # <<>>}}
            also == IF autoResume THEN idle ELSE {}
        IN /\ rows' = [i \in DOMAIN rows |-> [rows[i] EXCEPT !.running = rows[i].id \in Poll!ToSet(m.ids) \cup also]]
           /\ calls' = calls \cup {Poll!Call("start", id, [left |-> 0]) : id \in also}
  BY DEF Poll!HearRunning
<1>3. m.op = "running" /\ phase' = "done" /\ UNCHANGED loading
  BY DEF Poll!HearRunning
<1> HIDE DEF m, q
<1> DEFINE idle == {r.id : r \in {x \in Poll!ToSet(rows) : x.id \notin Poll!ToSet(m.ids) /\ x.results # <<>>}}
           also == IF autoResume THEN idle ELSE {}
           new  == {Poll!Call("start", id, [left |-> 0]) : id \in also}
<1>4. \A id \in also : id \in Numbers
  <2>1. \A i \in DOMAIN rows : rows[i].id \in SessionIds
    BY <1>1, NewsTyped
  <2> QED BY <2>1 DEF Poll!ToSet, Numbers
<1>5. rows' = [i \in DOMAIN rows |-> [rows[i] EXCEPT !.running = rows[i].id \in Poll!ToSet(m.ids) \cup also]]
      /\ calls' = calls \cup new
  BY <1>2
<1> HIDE DEF idle, also
<1>6. new \in SUBSET Request /\ \A c \in new : c.op \notin Loads
  BY <1>4, CallTyped2 DEF Plain, Groups, Loads
<1> HIDE DEF new
<1>7. rows' \in Seq(Row) /\ SameRows(rows, rows')
  <2>1. \A r \in Row : \A b \in BOOLEAN : /\ [r EXCEPT !.running = b] \in Row /\ [r EXCEPT !.running = b].id = r.id
                                          /\ [r EXCEPT !.running = b].results = r.results
    BY DEF Row
  <2>2. \A i \in DOMAIN rows : rows[i] \in Row
    BY <1>1
  <2>3. rows' = [i \in DOMAIN rows |-> rows'[i]]
    BY <1>5
  <2>5. ASSUME NEW i \in DOMAIN rows
        PROVE  rows'[i] \in Row /\ rows'[i].id = rows[i].id /\ rows'[i].results = rows[i].results
    <3> DEFINE b == rows[i].id \in Poll!ToSet(m.ids) \cup also
    <3>1. rows'[i] = [rows[i] EXCEPT !.running = b]
      BY <1>5, Zenon
    <3>2. b \in BOOLEAN
      OBVIOUS
    <3> HIDE DEF b
    <3> QED BY <2>1, <2>2, <3>1, <3>2
  <2> QED BY <1>1, <2>3, <2>5, Restated
<1>8. PollTyped'
  BY <1>1, <1>3, <1>5, <1>6, <1>7 DEF PollInv, PollTyped, Heard, Phases
<1>9. Apart(rows)' /\ RowsFine(rows, chan, go)' /\ AllUnseen(chan, rows, loading)'
  BY <1>1, <1>3, <1>7, OnSameRows DEF PollInv, Heard
<1>10. LoadFine(loading, go)' /\ RowsFine(loading.loaded, chan, go)' /\ NewsInTurn(chan, go)'
  BY <1>1, <1>3 DEF PollInv, Heard
<1>11. \A op \in {"list", "data", "running"} : OneAt(op, calls, chan, phase)'
  <2> SUFFICES ASSUME NEW op \in Loads PROVE OneAt(op, calls', chan', "done")
    BY <1>3 DEF Loads
  <2>1. OneAt("running", calls, chan, phase) /\ OneAt(op, calls, chan, phase)
    BY DEF PollInv, Loads
  <2>2. phase = "running" /\ OneAt("running", calls, q, "done")
    <3>1. Head(chan).op = "running" /\ chan # <<>> /\ chan \in Seq(News)
      BY <1>1, <1>3 DEF m
    <3> QED BY <2>1, <3>1, OneHeard DEF q
  <2>3. OneAt(op, calls, q, phase)
    BY <1>1, <2>1, OneHeard DEF q
  <2>4. OneAt(op, calls, q, "done")
    BY <2>2, <2>3 DEF OneAt
  <2> QED BY <1>1, <1>5, <1>6, <2>4, OneCalled
<1>12. NextLoad(calls, chan, phase, loading)'
  BY <1>3 DEF NextLoad
<1> QED BY <1>8, <1>9, <1>10, <1>11, <1>12 DEF PollInv

\* A message of the load was the only one there was of its kind, and of the others there was none.
LEMMA NoneLeft ==
  ASSUME PollInv, chan # <<>>, Head(chan).op \in Loads, NEW op \in Loads
  PROVE  /\ (\A c \in calls : c.op # op) /\ (\A i \in DOMAIN Tail(chan) : Tail(chan)[i].op # op)
         /\ phase = Head(chan).op
<1>1. chan \in Seq(News) /\ \A x \in Loads : OneAt(x, calls, chan, phase)
  BY DEF PollInv, PollTyped, Loads
<1>2. phase = Head(chan).op
  BY <1>1, OneHeard
<1>3. CASE op = Head(chan).op
  <2>1. OneAt(op, calls, Tail(chan), "timer")
    BY <1>1, <1>3, OneHeard
  <2> QED BY <1>2, <2>1 DEF OneAt, Loads
<1>4. CASE op # Head(chan).op
  <2>1. OneAt(op, calls, Tail(chan), phase) /\ op # phase
    BY <1>1, <1>2, <1>4, OneHeard
  <2> QED BY <1>2, <2>1 DEF OneAt
<1> QED BY <1>3, <1>4

\* The load goes on with what is left to load, and what is loaded.
LEMMA LoadStep ==
  ASSUME PollInv, chan # <<>>, chan' = Tail(chan), Head(chan).op \in Loads,
         NEW left \in Seq(SessionIds), NEW got \in Seq(Row), Poll!LoadNext(left, got),
         NEW ld, ld = [left |-> left, loaded |-> got], LoadFine(ld, go),
         RowsFine(got, Tail(chan), go), AllUnseen(Tail(chan), rows, ld), UNCHANGED <<secret, go>>
  PROVE  PollInv'
<1> DEFINE q == Tail(chan)
           c == IF left = <<>> THEN Poll!Call("running", Poll!NoId, [left |-> 0])
                               ELSE Poll!Call("data", Head(left), [left |-> 0])
           at == IF left = <<>> THEN "running" ELSE "data"
<1>1. Heard(Head(chan), q) /\ rows \in Seq(Row)
  BY AllHeard DEF PollInv, PollTyped
<1>2. /\ rows' = (IF left = <<>> THEN got ELSE rows) /\ phase' = at /\ calls' = calls \cup {c}
      /\ loading' = IF left = <<>> THEN [left |-> <<>>, loaded |-> <<>>] ELSE ld
  BY DEF Poll!LoadNext, Poll!LoadGoesOn
<1>3. \A op \in Loads : (\A d \in calls : d.op # op) /\ (\A i \in DOMAIN q : q[i].op # op)
  BY NoneLeft
<1>4. c \in Request /\ c.op = at
  <2>1. Poll!NoId \in Numbers /\ [left |-> 0] \in Groups
    BY DEF Poll!NoId, Numbers, Groups
  <2>2. left # <<>> => Head(left) \in Numbers
    BY DEF Numbers
  <2> QED BY <2>1, <2>2, CallTyped2 DEF Plain
<1>5. left # <<>> => c.id = Head(left)
  BY CallTyped2
<1>6. at \in Loads /\ (left = <<>> => at = "running") /\ (left # <<>> => at = "data")
  BY DEF Loads
<1> HIDE DEF c, at, q
<1>7. <<>> \in Seq(SessionIds) /\ <<>> \in Seq(Row)
  OBVIOUS
<1>8. rows' \in Seq(Row) /\ Apart(rows') /\ RowsFine(rows', q, go)
  BY <1>1, <1>2 DEF PollInv, Heard, LoadFine, q
<1>9. loading' \in [left : Seq(SessionIds), loaded : Seq(Row)] /\ LoadFine(loading', go) /\ RowsFine(loading'.loaded, q, go)
  <2>1. CASE left = <<>>
    BY <2>1, <1>2, <1>7 DEF LoadFine, Apart, Differ, RowsFine
  <2>2. CASE left # <<>>
    BY <2>2, <1>2 DEF q
  <2> QED BY <2>1, <2>2
<1>10. AllUnseen(q, rows', loading')
  <2>1. CASE left = <<>>
    BY <2>1, <1>2 DEF AllUnseen, Unseen, q
  <2>2. CASE left # <<>>
    BY <2>2, <1>2 DEF q
  <2> QED BY <2>1, <2>2
<1>11. \A op \in {"list", "data", "running"} : OneAt(op, calls, chan, phase)'
  BY <1>2, <1>3, <1>4, <1>6 DEF OneAt, Loads, q
<1>12. NextLoad(calls, chan, phase, loading)'
  BY <1>2, <1>3, <1>5, <1>6 DEF NextLoad, Loads, q
<1>13. PollTyped'
  BY <1>1, <1>2, <1>4, <1>6, <1>8, <1>9 DEF PollInv, PollTyped, Heard, Loads, Phases, q
<1>14. NewsInTurn(chan', go')
  BY <1>1 DEF Heard, q
<1> QED BY <1>8, <1>9, <1>10, <1>11, <1>12, <1>13, <1>14 DEF PollInv, q

LEMMA HearListPoll ==
  ASSUME PollInv, chan # <<>>, chan' = Tail(chan), Poll!HearList(Head(chan)), UNCHANGED <<secret, go>>
  PROVE  PollInv'
<1> DEFINE m == Head(chan)
           q == Tail(chan)
<1>1. Heard(m, q) /\ m.op = "list" /\ m.op \in Loads
  BY AllHeard DEF Poll!HearList, Loads
<1>2. CASE m.ids = <<>>
  <2>1. phase' = "done" /\ UNCHANGED <<rows, loading, calls>>
    BY <1>2 DEF Poll!HearList
  <2>2. \A op \in {"list", "data", "running"} : OneAt(op, calls, chan, phase)'
    BY <1>1, <2>1, NoneLeft DEF OneAt, Loads
  <2>3. PollTyped'
    BY <1>1, <2>1 DEF PollInv, PollTyped, Heard, Phases
  <2>4. NextLoad(calls, chan, phase, loading)'
    BY <2>1 DEF NextLoad
  <2> QED BY <1>1, <2>1, <2>2, <2>3, <2>4 DEF PollInv, Heard
<1>3. CASE m.ids # <<>>
  <2> DEFINE ld == [left |-> m.ids, loaded |-> <<>>]
  <2>1. Poll!LoadNext(m.ids, <<>>)
    BY <1>3 DEF Poll!HearList
  <2> HIDE DEF m, q
  <2>2. Differ(m.ids) /\ (\A k \in DOMAIN m.ids : m.ids[k] \in go.given) /\ m.ids \in Seq(Nat)
    BY <1>1, NewsTyped DEF Heard, NewsFine
  <2>3. m.ids \in Seq(SessionIds) /\ <<>> \in Seq(Row)
    <3>1. \A k \in DOMAIN m.ids : m.ids[k] \in SessionIds
      BY <2>2 DEF PollInv, PollTyped, Backend
    <3> QED BY <2>2, <3>1
  <2>4. LoadFine(ld, go) /\ RowsFine(<<>>, q, go)
    BY <2>2 DEF LoadFine, RowsFine, Apart
  <2>5. AllUnseen(q, rows, ld)
    <3> SUFFICES ASSUME NEW i \in DOMAIN q, q[i].op = "create", q[i].ok PROVE Unseen(q[i], rows, ld)
      BY DEF AllUnseen, Unseen
    <3>1. \A k \in DOMAIN m.ids : m.ids[k] # q[i].id
      BY <1>1 DEF Heard, InTurn
    <3>2. Unseen(q[i], rows, loading)
      BY <1>1 DEF Heard, AllUnseen
    <3> QED BY <3>1, <3>2 DEF Unseen
  <2> HIDE DEF ld
  <2>6. ld = [left |-> m.ids, loaded |-> <<>>]
    BY DEF ld
  <2> QED BY <1>1, <2>1, <2>3, <2>4, <2>5, <2>6, LoadStep DEF m, q
<1> QED BY <1>2, <1>3

LEMMA HearDataPoll ==
  ASSUME PollInv, chan # <<>>, chan' = Tail(chan), Poll!HearData(Head(chan)), UNCHANGED <<secret, go>>
  PROVE  PollInv'
<1> DEFINE m == Head(chan)
           q == Tail(chan)
           old == loading.left
           r == Poll!sessionFromBackend(m.id, m.ids)
           left == Tail(old)
           got == Append(loading.loaded, r)
           ld == [left |-> left, loaded |-> got]
<1>1. Heard(m, q) /\ m.op = "data" /\ m.op \in Loads /\ chan \in Seq(News) /\ Poll!LoadNext(left, got)
  BY AllHeard DEF PollInv, PollTyped, Poll!HearData, Loads
<1>2. old \in Seq(SessionIds) /\ loading.loaded \in Seq(Row) /\ LoadFine(loading, go)
  BY DEF PollInv, PollTyped
<1>3. old # <<>> /\ m.id = Head(old) /\ Head(old) = old[1] /\ 1 \in DOMAIN old
  <2>1. phase = "data"
    BY <1>1, NoneLeft
  <2>2. 1 \in DOMAIN chan /\ chan[1] = m
    BY <1>1, Shift
  <2>3. old # <<>> /\ m.id = Head(old)
    BY <1>1, <2>1, <2>2 DEF PollInv, NextLoad
  <2> QED BY <1>2, <2>3, Shift
<1>4. m.id \in SessionIds /\ m.id \in go.given
  BY <1>2, <1>3, Shift DEF LoadFine
<1>5. r \in Row /\ r.id = m.id /\ r.results = m.ids
  BY <1>1, <1>4, NewsTyped DEF Heard, Poll!sessionFromBackend, Row
<1> HIDE DEF m, q, old, r
<1>6. /\ left \in Seq(SessionIds) /\ got \in Seq(Row)
      /\ \A i \in DOMAIN left : i \in Nat \ {0} /\ i + 1 \in DOMAIN old /\ left[i] = old[i + 1]
  BY <1>2, <1>3, <1>5, Shift, Extend
<1>7. \A k \in DOMAIN got : \/ got[k] = r /\ k = Len(loading.loaded) + 1
                            \/ k \in DOMAIN loading.loaded /\ got[k] = loading.loaded[k]
  BY <1>2, <1>5, Extend
<1> HIDE DEF left, got
<1>8. \A i \in DOMAIN left : left[i] # m.id
  <2> TAKE i \in DOMAIN left
  <2>1. i + 1 # 1 /\ i + 1 \in DOMAIN old /\ left[i] = old[i + 1]
    BY <1>6
  <2> QED BY <1>2, <1>3, <2>1 DEF LoadFine, old, Differ
<1>9. LoadFine(ld, go)
  <2>1. \A k \in DOMAIN loading.loaded : loading.loaded[k].id # m.id
    BY <1>2, <1>3 DEF LoadFine, old
  <2>2. Apart(got)
    BY <1>2, <1>5, <1>7, <2>1 DEF LoadFine, Apart
  <2>3. Differ(left)
    <3> SUFFICES ASSUME NEW i \in DOMAIN left, NEW j \in DOMAIN left, left[i] = left[j] PROVE i = j
      BY DEF Differ
    <3>1. i + 1 \in DOMAIN old /\ j + 1 \in DOMAIN old /\ old[i + 1] = old[j + 1] /\ i \in Nat /\ j \in Nat
      BY <1>6
    <3>2. i + 1 = j + 1
      BY <1>2, <3>1 DEF LoadFine, Differ, old
    <3> QED BY <3>1, <3>2
  <2>4. \A k \in DOMAIN left : left[k] \in go.given
    BY <1>2, <1>6 DEF LoadFine, old
  <2>5. \A k \in DOMAIN got : \A n \in DOMAIN left : got[k].id # left[n]
    <3> TAKE k \in DOMAIN got
    <3> TAKE n \in DOMAIN left
    <3>1. CASE got[k] = r
      BY <3>1, <1>5, <1>8
    <3>2. CASE k \in DOMAIN loading.loaded /\ got[k] = loading.loaded[k]
      BY <3>2, <1>2, <1>6 DEF LoadFine, old
    <3> QED BY <1>7, <3>1, <3>2
  <2> QED BY <2>2, <2>3, <2>4, <2>5 DEF LoadFine
<1>10. RowsFine(got, q, go)
  <2>1. RowFine(r, q, go)
    <3>1. Ascends(r.results) /\ \A k \in DOMAIN r.results : r.results[k] <= go.taken[r.id]
      BY <1>1, <1>5 DEF Heard, NewsFine
    <3>2. \A i \in DOMAIN q : q[i].op = "sample" /\ q[i].id = r.id => Under(r.results, q[i].arg)
      BY <1>1, <1>5 DEF Heard, InTurn
    <3> QED BY <1>4, <1>5, <3>1, <3>2 DEF RowFine
  <2>2. RowsFine(loading.loaded, q, go)
    BY <1>1 DEF Heard
  <2> QED BY <1>7, <2>1, <2>2 DEF RowsFine
<1>11. AllUnseen(q, rows, ld)
  <2> SUFFICES ASSUME NEW i \in DOMAIN q, q[i].op = "create", q[i].ok PROVE Unseen(q[i], rows, ld)
    BY DEF AllUnseen, Unseen
  <2>1. Unseen(q[i], rows, loading)
    BY <1>1 DEF Heard, AllUnseen
  <2>2. /\ \A k \in DOMAIN rows : rows[k].id # q[i].id
        /\ \A k \in DOMAIN loading.loaded : loading.loaded[k].id # q[i].id
        /\ \A k \in DOMAIN old : old[k] # q[i].id
    BY <2>1 DEF Unseen, old
  <2>3. \A k \in DOMAIN got : got[k].id # q[i].id
    BY <1>3, <1>5, <1>7, <2>2
  <2>4. \A k \in DOMAIN left : left[k] # q[i].id
    BY <1>6, <2>2
  <2> QED BY <2>2, <2>3, <2>4 DEF Unseen
<1>12. ld = [left |-> left, loaded |-> got]
  OBVIOUS
<1> HIDE DEF ld
<1> QED BY <1>1, <1>6, <1>9, <1>10, <1>11, <1>12, LoadStep DEF m, q

LEMMA HearPoll == ASSUME PollAssumption, PollInv, Poll!Hear PROVE PollInv'
<1>1. /\ chan # <<>> /\ chan' = Tail(chan) /\ UNCHANGED <<secret, go>>
      /\ \/ Poll!HearList(Head(chan)) \/ Poll!HearData(Head(chan)) \/ Poll!HearRunning(Head(chan))
         \/ Poll!HearSample(Head(chan)) \/ Poll!HearUnload(Head(chan))
         \/ Poll!HearOverrun(Head(chan)) \/ Poll!HearCreate(Head(chan)) \/ Poll!HearStart(Head(chan))
         \/ Poll!HearBind(Head(chan)) \/ Poll!HearStop(Head(chan)) \/ Poll!HearUpdate(Head(chan))
  BY DEF Poll!Hear
<1> QED BY <1>1, HearListPoll, HearDataPoll, HearRunningPoll, HearSamplePoll, HearUnloadPoll, HearOthersPoll

LEMMA StepPoll == ASSUME PollAssumption, PollInv, [Poll!Next]_(Poll!vars) PROVE PollInv'
<1>1. CASE Poll!Next
  <2>1. \/ Poll!startPolling \/ Poll!bindPreset \/ Poll!resumeSession \/ Poll!stopPolling \/ Poll!stopAll
        \/ Poll!removeSession \/ Poll!acceptSlow \/ Poll!followCredentials
        \/ Poll!initFromBackend \/ Poll!Hear \/ (\E c \in calls : Poll!Serve(c))
        \/ Poll!Sample \/ Poll!Flush \/ Poll!Overrun
    BY <1>1 DEF Poll!Next
  <2> QED BY <2>1, CommandsPoll, StartPoll, HearPoll, ServePoll, SamplePoll, FlushPoll, OverrunPoll
<1>2. CASE UNCHANGED Poll!vars
  BY <1>2 DEF Poll!vars, PollInv, PollTyped
<1> QED BY <1>1, <1>2

LEMMA PollAlways == ASSUME PollAssumption PROVE Poll!Spec => []PollInv
<1>1. Poll!Init => PollInv
  BY InitPoll
<1>2. PollInv /\ [Poll!Next]_(Poll!vars) => PollInv'
  BY StepPoll
<1> QED BY <1>1, <1>2, PTL DEF Poll!Spec

\* However the load of the sessions, a start and the answer of a binding cross
\* (initFromBackend, startPolling and adoptSession of
\* frontend/src/stores/pollingStore.js), whatever calls fail and in whatever order
\* they are served, no session is shown on two rows.
THEOREM OneRowEach == ASSUME PollAssumption PROVE Poll!Spec => []Poll!OneRowPerSession
<1>1. PollInv => Poll!OneRowPerSession
  BY DEF PollInv, Apart, Poll!OneRowPerSession
<1> QED BY <1>1, PollAlways, PTL

\* The history read at the start and the samples that go on arriving are two ways
\* into a row (initFromBackend and the "monitor:samples" listener of
\* frontend/src/stores/pollingStore.js), and what they bring is shown once each
\* and in the order it was measured, whatever a flush has written by then.
THEOREM SamplesOnceInOrder == ASSUME PollAssumption PROVE Poll!Spec => []Poll!EachSampleOnceInOrder
<1>1. PollInv => Poll!EachSampleOnceInOrder
  BY DEF PollInv, RowsFine, RowFine, Ascends, Poll!EachSampleOnceInOrder, Poll!ToSet
<1> QED BY <1>1, PollAlways, PTL

(***************************************************************************)
(* EventsWindow: the journal as the window shows it.                       *)
(***************************************************************************)
EventsAssumption == Limit \in Nat \ {0} /\ MaxLive \in Nat \ {0, 1}

Event  == [seq : Nat, kind : Kinds, acked : BOOLEAN]
OfView == [items : Seq(Event), cursor : Nat, loading : BOOLEAN, error : BOOLEAN, filter : Filters]

\* One row of each number.
OneOfEach(list) == \A i, j \in DOMAIN list : list[i].seq = list[j].seq => i = j

PageFine(page) == page.items \in Seq(Event) /\ OneOfEach(page.items) /\ page.cursor \in Nat

\* A call is the record it was made as, and carries what its answer will need.
Asked(c) ==
  /\ DOMAIN c = {"op", "arg", "n", "reply"} /\ c = [x \in DOMAIN c |-> c[x]]
  /\ c.op = "load" => c.arg \in Filters
  /\ c.op \in {"load", "more"} /\ c.reply # Null => PageFine(c.reply)

EventsInv ==
  /\ stored \in Nat /\ journal \subseteq Event /\ IsFiniteSet(journal) /\ announced \in Seq(Event)
  /\ view \in OfView /\ chips \in Filters /\ OneOfEach(view.items)
  /\ \A c \in pending : Asked(c)

-----------------------------------------------------------------------------
(* Lists of events. *)

LEMMA CountingEvents == \A S : Events!Cardinality(S) = Cardinality(S)
  BY DEF Events!Cardinality, Cardinality, Events!IsFiniteSet, IsFiniteSet

LEMMA OnlyOfEvents == \A q, stay : Events!Only(q, stay) = Left(q, stay)
<1> SUFFICES ASSUME NEW q, NEW stay PROVE Events!Only(q, stay) = Left(q, stay)
  OBVIOUS
<1> DEFINE Before(i) == {j \in stay : j < i}
<1>1. Events!Cardinality(stay) = Cardinality(stay) /\ \A i : Events!Cardinality(Before(i)) = Cardinality(Before(i))
  BY CountingEvents, Zenon
<1>2. \A n : (CHOOSE i \in stay : Events!Cardinality(Before(i)) = n - 1)
              = (CHOOSE i \in stay : Cardinality(Before(i)) = n - 1)
  BY <1>1, Zenon
<1>3. Events!Only(q, stay) = [n \in 1..Events!Cardinality(stay) |->
                               q[CHOOSE i \in stay : Events!Cardinality(Before(i)) = n - 1]]
  BY DEF Events!Only
<1>4. Events!Only(q, stay) = [n \in 1..Cardinality(stay) |-> q[CHOOSE i \in stay : Cardinality(Before(i)) = n - 1]]
  BY <1>1, <1>2, <1>3, Zenon
<1> QED BY <1>4, Zenon DEF Left

\* What is left of rows of different numbers are rows of different numbers.
LEMMA OnlyKeeps ==
  ASSUME NEW q \in Seq(Event), NEW stay, stay \subseteq DOMAIN q,
         \A i, j \in stay : q[i].seq = q[j].seq => i = j
  PROVE  Events!Only(q, stay) \in Seq(Event) /\ OneOfEach(Events!Only(q, stay))
<1> DEFINE t == Left(q, stay)
<1>1. t \in Seq(Event)
  BY OnlyIs
<1>2. PICK at \in [DOMAIN t -> stay] : /\ \A n \in DOMAIN t : t[n] = q[at[n]]
                                       /\ \A n, m \in DOMAIN t : at[n] = at[m] => n = m
  BY OnlyIs DEF Taken
<1> HIDE DEF t
<1>3. ASSUME NEW n \in DOMAIN t, NEW m \in DOMAIN t, t[n].seq = t[m].seq PROVE n = m
  <2>1. at[n] \in stay /\ at[m] \in stay /\ q[at[n]].seq = q[at[m]].seq
    BY <1>2, <1>3
  <2>2. at[n] = at[m]
    BY <2>1
  <2> QED BY <1>2, <2>2
<1>4. OneOfEach(t)
  BY <1>3 DEF OneOfEach
<1> QED BY <1>1, <1>4, OnlyOfEvents DEF t

LEMMA DedupeFine ==
  ASSUME NEW q \in Seq(Event)
  PROVE  Events!dedupeById(q) \in Seq(Event) /\ OneOfEach(Events!dedupeById(q))
<1> DEFINE stay == {i \in DOMAIN q : \A j \in 1..(i - 1) : q[j].seq # q[i].seq}
<1>1. stay \subseteq DOMAIN q
  OBVIOUS
<1>2. ASSUME NEW i \in stay, NEW j \in stay, q[i].seq = q[j].seq PROVE i = j
  <2>1. i \in Int /\ j \in Int /\ i >= 1 /\ j >= 1
    OBVIOUS
  <2>2. CASE i < j
    <3>1. i \in 1..(j - 1)
      BY <2>1, <2>2
    <3> QED BY <3>1, <1>2
  <2>3. CASE j < i
    <3>1. j \in 1..(i - 1)
      BY <2>1, <2>3
    <3> QED BY <3>1, <1>2
  <2> QED BY <2>1, <2>2, <2>3
<1>3. Events!dedupeById(q) = Events!Only(q, stay)
  BY DEF Events!dedupeById
<1> HIDE DEF stay
<1> QED BY <1>1, <1>2, <1>3, OnlyKeeps

LEMMA CutFine ==
  ASSUME NEW q \in Seq(Event), NEW n \in Nat
  PROVE  /\ SubSeq(q, 1, n) \in Seq(Event) \/ n > Len(q)
         /\ OneOfEach(q) /\ n <= Len(q) => OneOfEach(SubSeq(q, 1, n))
BY DEF OneOfEach

LEMMA FirstFine ==
  ASSUME NEW q \in Seq(Event), NEW n \in Nat, OneOfEach(q)
  PROVE  Events!First(q, n) \in Seq(Event) /\ OneOfEach(Events!First(q, n)) /\ Len(Events!First(q, n)) <= n
BY CutFine DEF Events!First

LEMMA PagesFine ==
  ASSUME EventsAssumption, EventsInv, NEW f, NEW before, NEW page \in Events!PagesOf(f, before)
  PROVE  PageFine(page)
<1> DEFINE S == {e \in journal : Events!Matches(e, f) /\ (before = 0 \/ e.seq < before)}
<1>1. IsFiniteSet(S) /\ S \subseteq Event
  BY FS_Subset DEF EventsInv
<1>2. PICK found \in Events!Newest(S) :
        page = [items |-> Events!First(found, Limit),
                cursor |-> IF Len(Events!First(found, Limit)) = Limit
                           THEN Events!First(found, Limit)[Limit].seq ELSE 0]
  BY DEF Events!PagesOf
<1> HIDE DEF S
<1>3. Cardinality(S) \in Nat
  BY <1>1, FS_CardinalityType
<1>4. found \in [1..Cardinality(S) -> S] /\ Events!Falls(found)
  BY <1>2, CountingEvents DEF Events!Newest, Events!SetToSeqs
<1>5. found \in Seq(Event)
  BY <1>1, <1>3, <1>4
<1>6. OneOfEach(found)
  <2> SUFFICES ASSUME NEW i \in DOMAIN found, NEW j \in DOMAIN found, found[i].seq = found[j].seq PROVE i = j
    BY DEF OneOfEach
  <2>0. found[i] \in Event /\ found[j] \in Event
    BY <1>5
  <2>1. i \in Int /\ j \in Int /\ found[i].seq \in Nat /\ found[j].seq \in Nat
    BY <1>5, <2>0 DEF Event
  <2>2. ~(i < j) /\ ~(j < i)
    BY <1>4, <2>1 DEF Events!Falls
  <2> QED BY <2>1, <2>2
<1>7. Limit \in Nat \ {0}
  BY DEF EventsAssumption
<1> DEFINE q == Events!First(found, Limit)
<1>8. q \in Seq(Event) /\ OneOfEach(q) /\ Len(q) <= Limit
  BY <1>5, <1>6, <1>7, FirstFine
<1>9. page = [items |-> q, cursor |-> IF Len(q) = Limit THEN q[Limit].seq ELSE 0]
  BY <1>2
<1> HIDE DEF q
<1>10. Len(q) = Limit => q[Limit].seq \in Nat
  <2>1. Len(q) = Limit => q[Limit] \in Event
    BY <1>7, <1>8
  <2> QED BY <2>1 DEF Event
<1> QED BY <1>8, <1>9, <1>10 DEF PageFine

-----------------------------------------------------------------------------
(* Calls. *)

LEMMA CallMade ==
  ASSUME NEW op, NEW arg, NEW rest, op = "load" => arg \in Filters,
         \A c \in rest : Asked(c), Events!Make(Events!Call(op, arg), rest)
  PROVE  \A c \in pending' : Asked(c)
<1> PICK x : pending' = rest \cup {[Events!Call(op, arg) EXCEPT !.n = x]}
  BY DEF Events!Make
<1> DEFINE d == [Events!Call(op, arg) EXCEPT !.n = x]
<1>1. d = [[op |-> op, arg |-> arg, n |-> 0, reply |-> Null] EXCEPT !.n = x]
  BY DEF Events!Call
<1>2. DOMAIN d = {"op", "arg", "n", "reply"} /\ d.op = op /\ d.arg = arg /\ d.reply = Null
      /\ d = [y \in DOMAIN d |-> d[y]]
  BY <1>1
<1> HIDE DEF d
<1>3. Asked(d)
  BY <1>2 DEF Asked
<1> QED BY <1>3 DEF d

LEMMA Replied ==
  ASSUME NEW c, Asked(c), NEW r, c.op \in {"load", "more"} => PageFine(r)
  PROVE  Asked([c EXCEPT !.reply = r])
<1> DEFINE d == [c EXCEPT !.reply = r]
<1>1. DOMAIN d = {"op", "arg", "n", "reply"} /\ d.op = c.op /\ d.arg = c.arg /\ d.reply = r
      /\ d = [y \in DOMAIN d |-> d[y]]
  BY DEF Asked
<1> HIDE DEF d
<1>2. Asked(d)
  BY <1>1 DEF Asked
<1> QED BY <1>2 DEF d

-----------------------------------------------------------------------------
(* What is shown. *)

LEMMA ViewIs ==
  ASSUME NEW v \in OfView
  PROVE  v.items \in Seq(Event) /\ v.cursor \in Nat /\ v.filter \in Filters
BY DEF OfView

LEMMA ItemsSet ==
  ASSUME NEW v \in OfView, NEW q \in Seq(Event)
  PROVE  [v EXCEPT !.items = q] \in OfView /\ [v EXCEPT !.items = q].items = q
BY DEF OfView

LEMMA ItemsCut ==
  ASSUME NEW v \in OfView, NEW q \in Seq(Event), NEW n \in Nat
  PROVE  [v EXCEPT !.items = q, !.cursor = n] \in OfView /\ [v EXCEPT !.items = q, !.cursor = n].items = q
BY DEF OfView

LEMMA PrependFine ==
  ASSUME EventsAssumption, NEW v \in OfView, OneOfEach(v.items), NEW e \in Event
  PROVE  Events!Prepend(v, e) \in OfView /\ OneOfEach(Events!Prepend(v, e).items)
<1>1. CASE Events!Prepend(v, e) = v
  BY <1>1
<1>2. CASE Events!Prepend(v, e) # v
  <2> DEFINE q == <<e>> \o v.items
  <2>1. e.seq \notin Events!Seqs(v.items) /\ Events!Prepend(v, e) = Events!Cut(v, q)
    BY <1>2 DEF Events!Prepend
  <2>2. v.items \in Seq(Event)
    BY ViewIs
  <2>3. /\ q \in Seq(Event) /\ Len(q) = Len(v.items) + 1 /\ q[1] = e
        /\ \A i \in 2..Len(q) : q[i] = v.items[i - 1] /\ i - 1 \in DOMAIN v.items
    BY <2>2
  <2> HIDE DEF q
  <2>4. OneOfEach(q)
    <3> SUFFICES ASSUME NEW i \in DOMAIN q, NEW j \in DOMAIN q, q[i].seq = q[j].seq PROVE i = j
      BY DEF OneOfEach
    <3>1. DOMAIN q = 1..Len(q) /\ i \in Int /\ j \in Int
      BY <2>3
    <3>2. \A k \in 2..Len(q) : q[k].seq # e.seq
      BY <2>1, <2>3 DEF Events!Seqs
    <3>3. CASE i = 1 \/ j = 1
      <4>1. q[i].seq = e.seq /\ q[j].seq = e.seq
        BY <3>3, <2>3
      <4> QED BY <4>1, <3>1, <3>2
    <3>4. CASE i # 1 /\ j # 1
      <4>1. i \in 2..Len(q) /\ j \in 2..Len(q)
        BY <3>1, <3>4
      <4>2. i - 1 = j - 1
        BY <4>1, <2>3 DEF OneOfEach
      <4> QED BY <4>2, <3>1
    <3> QED BY <3>3, <3>4
  <2>5. CASE Len(q) <= MaxLive
    <3>1. Events!Cut(v, q) = [v EXCEPT !.items = q]
      BY <2>5 DEF Events!Cut
    <3> QED BY <3>1, <2>1, <2>3, <2>4, ItemsSet
  <2>6. CASE ~(Len(q) <= MaxLive)
    <3> DEFINE t == SubSeq(q, 1, MaxLive)
    <3>1. MaxLive \in 1..Len(q) /\ MaxLive \in Nat
      BY <2>3, <2>6 DEF EventsAssumption
    <3>2. t \in Seq(Event) /\ OneOfEach(t)
      BY <3>1, <2>3, <2>4, CutFine
    <3>3. q[MaxLive] \in Event
      BY <3>1, <2>3
    <3>4. q[MaxLive].seq \in Nat
      BY <3>3 DEF Event
    <3>5. Events!Cut(v, q) = [v EXCEPT !.items = t, !.cursor = q[MaxLive].seq]
      BY <2>6 DEF Events!Cut
    <3> HIDE DEF t
    <3> DEFINE w == [v EXCEPT !.items = t, !.cursor = q[MaxLive].seq]
    <3>6. w \in OfView /\ w.items = t
      BY <3>2, <3>4, ItemsCut, Zenon
    <3> HIDE DEF w
    <3>7. Events!Prepend(v, e) = w
      BY <3>5, <2>1 DEF w
    <3> QED BY <3>2, <3>6, <3>7
  <2> QED BY <2>5, <2>6
<1> QED BY <1>1, <1>2

-----------------------------------------------------------------------------
(* The steps. *)

LEMMA ImageFinite ==
  ASSUME NEW h, IsFiniteSet(DOMAIN h) PROVE IsFiniteSet({h[x] : x \in DOMAIN h})
<1> DEFINE T == {h[x] : x \in DOMAIN h}
           g == [x \in DOMAIN h |-> h[x]]
<1>1. g \in Surjection(DOMAIN h, T)
  BY DEF Surjection
<1> HIDE DEF T, g
<1>2. IsFiniteSet(T)
  BY <1>1, FS_Surjection
<1> QED BY <1>2 DEF T

LEMMA InitEvents == ASSUME EventsAssumption, Events!Init PROVE EventsInv
<1>1. PICK n \in 0..1 : \E k \in [1..n -> Kinds] :
        stored = n /\ journal = {[seq |-> i, kind |-> k[i], acked |-> FALSE] : i \in 1..n}
  BY DEF Events!Init
<1>2. PICK k \in [1..n -> Kinds] : journal = {[seq |-> i, kind |-> k[i], acked |-> FALSE] : i \in 1..n}
  BY <1>1
<1> DEFINE e(i) == [seq |-> i, kind |-> k[i], acked |-> FALSE]
<1>3. journal \subseteq Event
  <2>1. \A i \in 1..n : e(i) \in Event
    BY DEF Event
  <2>2. journal = {e(i) : i \in 1..n}
    BY <1>2
  <2> HIDE DEF e
  <2> QED BY <2>1, <2>2
<1>4. IsFiniteSet(journal)
  <2>1. IsFiniteSet(1..n)
    BY FS_Interval
  <2>2. journal = {e(i) : i \in 1..n}
    BY <1>2
  <2> DEFINE h == [i \in 1..n |-> e(i)]
  <2>3. journal = {h[i] : i \in 1..n} /\ DOMAIN h = 1..n
    BY <2>2
  <2> HIDE DEF h
  <2> QED BY <2>1, <2>3, ImageFinite
<1>5. /\ chips \in Filters /\ announced = <<>>
      /\ view = [items |-> <<>>, cursor |-> 0, loading |-> TRUE, error |-> FALSE, filter |-> chips]
      /\ pending = {[op |-> "load", arg |-> chips, n |-> 1, reply |-> Null]}
  BY DEF Events!Init
<1>6. view \in OfView /\ view.items = <<>> /\ OneOfEach(view.items)
  BY <1>5 DEF OfView, OneOfEach
<1>7. \A c \in pending : Asked(c)
  BY <1>5 DEF Asked
<1> QED BY <1>1, <1>3, <1>4, <1>5, <1>6, <1>7 DEF EventsInv

LEMMA StoreEvents == ASSUME EventsInv, Events!Store PROVE EventsInv'
<1> PICK k \in Kinds :
      /\ stored' = stored + 1
      /\ LET e == [seq |-> stored', kind |-> k, acked |-> FALSE]
         IN journal' = journal \cup {e} /\ announced' = Append(announced, e)
      /\ UNCHANGED <<pending, view, chips>>
  BY DEF Events!Store
<1> DEFINE e == [seq |-> stored', kind |-> k, acked |-> FALSE]
<1>1. stored' \in Nat /\ journal' = journal \cup {e} /\ announced' = Append(announced, e)
  BY DEF EventsInv
<1>2. e \in Event
  BY <1>1 DEF Event
<1> HIDE DEF e
<1>3. journal' \subseteq Event /\ announced' \in Seq(Event)
  BY <1>1, <1>2 DEF EventsInv
<1>4. IsFiniteSet(journal')
  <2>1. IsFiniteSet(journal)
    BY DEF EventsInv
  <2>2. IsFiniteSet(journal \cup {e})
    BY <2>1, FS_AddElement, Zenon
  <2> QED BY <1>1, <2>2, Zenon
<1> QED BY <1>1, <1>3, <1>4 DEF EventsInv

LEMMA PerformEvents == ASSUME EventsAssumption, EventsInv, Events!Perform PROVE EventsInv'
<1> PICK c \in pending : /\ journal' = Events!Did(c)
                         /\ \E reply \in Events!Replies(c) :
                              pending' = (pending \ {c}) \cup {[c EXCEPT !.reply = reply]}
                         /\ UNCHANGED <<announced, stored, view, chips>>
  BY DEF Events!Perform
<1> PICK r \in Events!Replies(c) : pending' = (pending \ {c}) \cup {[c EXCEPT !.reply = r]}
  OBVIOUS
<1>1. journal' \subseteq Event /\ IsFiniteSet(journal')
  <2> DEFINE f(e) == [e EXCEPT !.acked = @ \/ e.seq \in c.arg]
             g(e) == [e EXCEPT !.acked = @ \/ Events!Matches(e, c.arg)]
  <2>1. journal \subseteq Event /\ IsFiniteSet(journal)
    BY DEF EventsInv
  <2>2. CASE c.op = "ack"
    <3>1. journal' = {f(e) : e \in journal}
      BY <2>2 DEF Events!Did
    <3>2. \A e \in journal : f(e) \in Event
      BY <2>1, Zenon DEF Event
    <3> DEFINE h == [e \in journal |-> f(e)]
    <3>3. journal' = {h[e] : e \in journal} /\ DOMAIN h = journal
      BY <3>1
    <3>4. journal' \subseteq Event
      BY <3>2, <3>3
    <3> HIDE DEF f, h
    <3> QED BY <2>1, <3>3, <3>4, ImageFinite
  <2>3. CASE c.op = "ackAll"
    <3>1. journal' = {g(e) : e \in journal}
      BY <2>3 DEF Events!Did
    <3>2. \A e \in journal : g(e) \in Event
      BY <2>1 DEF Event, Events!Matches
    <3> DEFINE h == [e \in journal |-> g(e)]
    <3>3. journal' = {h[e] : e \in journal} /\ DOMAIN h = journal
      BY <3>1
    <3>4. journal' \subseteq Event
      BY <3>2, <3>3
    <3> HIDE DEF g, h
    <3> QED BY <2>1, <3>3, <3>4, ImageFinite
  <2>4. CASE c.op \notin {"ack", "ackAll"}
    <3>1. journal' \subseteq journal
      BY <2>4 DEF Events!Did
    <3> QED BY <2>1, <3>1, FS_Subset
  <2> QED BY <2>2, <2>3, <2>4
<1>2. c.op \in {"load", "more"} => PageFine(r)
  BY PagesFine DEF Events!Replies
<1>3. Asked([c EXCEPT !.reply = r])
  BY <1>2, Replied DEF EventsInv
<1>4. \A d \in pending' : Asked(d)
  BY <1>3 DEF EventsInv
<1> QED BY <1>1, <1>4 DEF EventsInv

LEMMA ListenEvents == ASSUME EventsAssumption, EventsInv, Events!listen PROVE EventsInv'
<1> PICK i \in DOMAIN announced :
      /\ announced' = Events!RemoveAt(announced, i) /\ view' = Events!Prepend(view, announced[i])
      /\ UNCHANGED <<journal, stored, pending, chips>>
  BY DEF Events!listen
<1>1. announced \in Seq(Event) /\ view \in OfView /\ OneOfEach(view.items)
  BY DEF EventsInv
<1>2. announced' \in Seq(Event)
  BY <1>1 DEF Events!RemoveAt
<1>3. view' \in OfView /\ OneOfEach(view'.items)
  BY <1>1, PrependFine
<1> QED BY <1>2, <1>3 DEF EventsInv

LEMMA AskEvents ==
  ASSUME EventsInv, Events!reload \/ Events!loadMore \/ Events!ackAll \/ Events!clear \/ Events!AskIncidents
  PROVE  EventsInv'
<1>1. \E op, arg : (op = "load" => arg \in Filters) /\ Events!Make(Events!Call(op, arg), pending)
  <2>1. CASE Events!reload
    BY <2>1 DEF Events!reload, Events!Ask
  <2>2. CASE Events!loadMore
    BY <2>2 DEF Events!loadMore, Events!Ask
  <2>3. CASE Events!ackAll
    BY <2>3 DEF Events!ackAll, Events!Ask
  <2>4. CASE Events!clear
    BY <2>4 DEF Events!clear, Events!Ask
  <2>5. CASE Events!AskIncidents
    BY <2>5 DEF Events!AskIncidents, Events!Ask
  <2> QED BY <2>1, <2>2, <2>3, <2>4, <2>5
<1>2. \A c \in pending' : Asked(c)
  BY <1>1, CallMade DEF EventsInv
<1>3. view' \in OfView /\ view'.items = view.items /\ chips' \in Filters
  BY DEF Events!reload, Events!loadMore, Events!ackAll, Events!clear, Events!AskIncidents, EventsInv, OfView
<1>4. UNCHANGED <<journal, announced, stored>>
  BY DEF Events!reload, Events!loadMore, Events!ackAll, Events!clear, Events!AskIncidents, Events!go
<1> QED BY <1>2, <1>3, <1>4 DEF EventsInv

LEMMA AckEvents == ASSUME EventsInv, Events!ack PROVE EventsInv'
<1> PICK s : /\ Events!Make(Events!Call("ack", {s}), pending)
             /\ view' = [view EXCEPT !.items = [i \in DOMAIN @ |-> IF @[i].seq = s THEN [@[i] EXCEPT !.acked = TRUE]
                                                                                ELSE @[i]]]
             /\ UNCHANGED <<journal, announced, stored, chips>>
  BY DEF Events!ack, Events!Ask, Events!go
<1> DEFINE q == view.items
           t == [i \in DOMAIN q |-> IF q[i].seq = s THEN [q[i] EXCEPT !.acked = TRUE] ELSE q[i]]
<1>1. \A c \in pending' : Asked(c)
  BY CallMade DEF EventsInv
<1>2. q \in Seq(Event) /\ OneOfEach(q) /\ view \in OfView
  BY ViewIs DEF EventsInv
<1>3. \A i \in DOMAIN q : t[i] \in Event /\ t[i].seq = q[i].seq
  <2> SUFFICES ASSUME NEW i \in DOMAIN q PROVE t[i] \in Event /\ t[i].seq = q[i].seq
    OBVIOUS
  <2>1. q[i] \in Event
    BY <1>2
  <2>2. [q[i] EXCEPT !.acked = TRUE] \in Event /\ [q[i] EXCEPT !.acked = TRUE].seq = q[i].seq
    BY <2>1 DEF Event
  <2>3. t[i] = IF q[i].seq = s THEN [q[i] EXCEPT !.acked = TRUE] ELSE q[i]
    OBVIOUS
  <2> QED BY <2>1, <2>2, <2>3
<1>4. view' = [view EXCEPT !.items = t]
  BY <1>2 DEF OfView
<1> HIDE DEF q
<1>5. t \in Seq(Event) /\ OneOfEach(t)
  <2>1. DOMAIN t = DOMAIN q /\ DOMAIN q = 1..Len(q) /\ Len(q) \in Nat
    BY <1>2
  <2> HIDE DEF t
  <2>2. t \in [1..Len(q) -> Event]
    <3>1. t = [i \in 1..Len(q) |-> t[i]]
      BY <2>1 DEF t
    <3> QED BY <3>1, <1>3, <2>1
  <2>3. t \in Seq(Event)
    BY <2>1, <2>2
  <2> QED BY <2>1, <2>3, <1>2, <1>3 DEF OneOfEach
<1> HIDE DEF t
<1>6. view' \in OfView /\ view'.items = t
  BY <1>2, <1>4, <1>5, ItemsSet
<1> QED BY <1>1, <1>5, <1>6 DEF EventsInv

LEMMA RemoveEvents == ASSUME EventsInv, Events!remove PROVE EventsInv'
<1> PICK s : /\ Events!Make(Events!Call("delete", {s}), pending)
             /\ view' = [view EXCEPT !.items = Events!Only(@, {i \in DOMAIN @ : @[i].seq # s})]
             /\ UNCHANGED <<journal, announced, stored, chips>>
  BY DEF Events!remove, Events!Ask, Events!go
<1> DEFINE q == view.items
           stay == {i \in DOMAIN q : q[i].seq # s}
<1>1. \A c \in pending' : Asked(c)
  BY CallMade DEF EventsInv
<1>2. q \in Seq(Event) /\ OneOfEach(q) /\ view \in OfView
  BY ViewIs DEF EventsInv
<1>3. Events!Only(q, stay) \in Seq(Event) /\ OneOfEach(Events!Only(q, stay))
  <2>1. stay \subseteq DOMAIN q /\ \A i, j \in stay : q[i].seq = q[j].seq => i = j
    BY <1>2 DEF OneOfEach
  <2> HIDE DEF stay, q
  <2> QED BY <1>2, <2>1, OnlyKeeps
<1>4. view' = [view EXCEPT !.items = Events!Only(q, stay)]
  BY <1>2 DEF OfView
<1> HIDE DEF q, stay
<1>5. view' \in OfView /\ view'.items = Events!Only(q, stay)
  BY <1>2, <1>3, <1>4, ItemsSet
<1> QED BY <1>1, <1>3, <1>5 DEF EventsInv

LEMMA LoadedEvents == ASSUME EventsInv, Events!LoadAnswered PROVE EventsInv'
<1> PICK c \in Events!Answered("load") :
      /\ view' \in {[items |-> c.reply.items, cursor |-> c.reply.cursor, loading |-> FALSE, error |-> FALSE,
                     filter |-> c.arg],
                    [view EXCEPT !.loading = FALSE, !.error = TRUE]}
      /\ Events!Make(Events!Counts, Events!Others(c))
      /\ UNCHANGED <<journal, announced, stored, chips>>
  BY DEF Events!LoadAnswered, Events!go
<1>1. Asked(c) /\ c.op = "load" /\ c.reply # Null /\ view \in OfView /\ OneOfEach(view.items)
  BY DEF Events!Answered, EventsInv
<1>2. c.arg \in Filters /\ PageFine(c.reply)
  BY <1>1 DEF Asked
<1>3. \A d \in pending' : Asked(d)
  BY CallMade DEF EventsInv, Events!Counts, Events!Others
<1>4. view' \in OfView /\ OneOfEach(view'.items)
  <2>1. CASE view' = [items |-> c.reply.items, cursor |-> c.reply.cursor, loading |-> FALSE, error |-> FALSE,
                      filter |-> c.arg]
    BY <2>1, <1>2 DEF OfView, PageFine
  <2>2. CASE view' = [view EXCEPT !.loading = FALSE, !.error = TRUE]
    <3>1. view' \in OfView /\ view'.items = view.items
      BY <2>2, <1>1 DEF OfView
    <3> QED BY <3>1, <1>1
  <2> QED BY <2>1, <2>2
<1> QED BY <1>3, <1>4 DEF EventsInv

LEMMA MoreEvents == ASSUME EventsInv, Events!MoreAnswered PROVE EventsInv'
<1> PICK c \in Events!Answered("more") :
      /\ view' \in {[view EXCEPT !.items = Events!dedupeById(@ \o c.reply.items), !.cursor = c.reply.cursor,
                                 !.loading = FALSE],
                    [view EXCEPT !.loading = FALSE, !.error = TRUE]}
      /\ pending' = Events!Others(c)
      /\ UNCHANGED <<journal, announced, stored, chips>>
  BY DEF Events!MoreAnswered, Events!go
<1>1. Asked(c) /\ c.op = "more" /\ c.reply # Null /\ view \in OfView /\ OneOfEach(view.items)
  BY DEF Events!Answered, EventsInv
<1>2. PageFine(c.reply)
  BY <1>1 DEF Asked
<1>3. \A d \in pending' : Asked(d)
  BY DEF EventsInv, Events!Others
<1>4. view' \in OfView /\ OneOfEach(view'.items)
  <2> DEFINE q == view.items \o c.reply.items
             t == Events!dedupeById(q)
  <2>1. CASE view' = [view EXCEPT !.items = Events!dedupeById(@ \o c.reply.items), !.cursor = c.reply.cursor,
                                  !.loading = FALSE]
    <3>1. view.items \in Seq(Event) /\ c.reply.items \in Seq(Event) /\ c.reply.cursor \in Nat
      BY <1>1, <1>2, ViewIs DEF PageFine
    <3>2. q \in Seq(Event)
      BY <3>1
    <3>3. view' = [view EXCEPT !.items = t, !.cursor = c.reply.cursor, !.loading = FALSE]
      BY <2>1, <1>1 DEF OfView
    <3> HIDE DEF q
    <3>4. t \in Seq(Event) /\ OneOfEach(t)
      BY <3>2, DedupeFine
    <3> HIDE DEF t
    <3>5. view' \in OfView /\ view'.items = t
      BY <1>1, <3>1, <3>3, <3>4 DEF OfView
    <3> QED BY <3>4, <3>5
  <2>2. CASE view' = [view EXCEPT !.loading = FALSE, !.error = TRUE]
    <3>1. view' \in OfView /\ view'.items = view.items
      BY <2>2, <1>1 DEF OfView
    <3> QED BY <3>1, <1>1
  <2> QED BY <2>1, <2>2
<1> QED BY <1>3, <1>4 DEF EventsInv

LEMMA OthersEvents ==
  ASSUME EventsInv, Events!ChangeAnswered \/ Events!AllAnswered \/ Events!refreshCounts \/ Events!IncidentsAnswered
  PROVE  EventsInv'
<1>1. \A c : \A d \in Events!Others(c) : Asked(d)
  BY DEF EventsInv, Events!Others
<1>2. \A c \in pending' : Asked(c)
  <2>1. CASE Events!ChangeAnswered
    BY <2>1, <1>1, CallMade DEF Events!ChangeAnswered, Events!Counts
  <2>2. CASE Events!AllAnswered
    BY <2>2, <1>1, CallMade, ViewIs DEF Events!AllAnswered, EventsInv
  <2>3. CASE Events!refreshCounts
    BY <2>3, <1>1 DEF Events!refreshCounts
  <2>4. CASE Events!IncidentsAnswered
    BY <2>4, <1>1 DEF Events!IncidentsAnswered
  <2> QED BY <2>1, <2>2, <2>3, <2>4
<1>3. view' \in OfView /\ view'.items = view.items
  BY DEF Events!ChangeAnswered, Events!AllAnswered, Events!refreshCounts, Events!IncidentsAnswered, EventsInv, OfView
<1>4. UNCHANGED <<journal, announced, stored, chips>>
  BY DEF Events!ChangeAnswered, Events!AllAnswered, Events!refreshCounts, Events!IncidentsAnswered, Events!go
<1> QED BY <1>2, <1>3, <1>4 DEF EventsInv

LEMMA StepEvents == ASSUME EventsAssumption, EventsInv, [Events!Next]_(Events!vars) PROVE EventsInv'
<1>1. CASE UNCHANGED Events!vars
  BY <1>1 DEF EventsInv, Events!vars
<1>2. CASE Events!LeaveMonitor
  BY <1>2 DEF EventsInv, Events!LeaveMonitor, Events!go
<1>3. CASE Events!Answer
  BY <1>3, LoadedEvents, MoreEvents, OthersEvents DEF Events!Answer
<1> QED BY <1>1, <1>2, <1>3, StoreEvents, PerformEvents, ListenEvents, AskEvents, AckEvents, RemoveEvents
        DEF Events!Next

LEMMA EventsAlways == ASSUME EventsAssumption PROVE Events!Spec => []EventsInv
<1>1. Events!Init => EventsInv
  BY InitEvents
<1>2. EventsInv /\ [Events!Next]_(Events!vars) => EventsInv'
  BY StepEvents
<1> QED BY <1>1, <1>2, PTL DEF Events!Spec

-----------------------------------------------------------------------------
\* However pages, answers and announcements cross, and whatever is removed or
\* acknowledged meanwhile, no event is shown on two rows of the keyed list of the
\* Events tab (load, loadMore, startListening and dedupeById of
\* frontend/src/stores/eventsStore.js).
THEOREM OneRowPerEvent == ASSUME EventsAssumption PROVE Events!Spec => []Events!KeyedRows
<1>1. EventsInv => Events!KeyedRows
  BY DEF EventsInv, OneOfEach, Events!KeyedRows
<1> QED BY <1>1, EventsAlways, PTL

LEMMA CutLosesOlder ==
  ASSUME EventsAssumption, EventsInv, Events!listen, Events!Falls(view.items),
         NEW s \in Events!Seqs(view.items), s \notin Events!Seqs(view'.items)
  PROVE  s < view'.cursor
<1> PICK i \in DOMAIN announced : view' = Events!Prepend(view, announced[i])
  BY DEF Events!listen
<1> DEFINE e == announced[i]
           old == view.items
           q == <<e>> \o old
<1>1. view \in OfView /\ old \in Seq(Event) /\ e \in Event /\ MaxLive \in Nat /\ MaxLive >= 2
  BY ViewIs DEF EventsInv, EventsAssumption
<1>2. /\ q \in Seq(Event) /\ Len(q) = Len(old) + 1
      /\ \A k \in DOMAIN old : k + 1 \in DOMAIN q /\ q[k + 1] = old[k]
  BY <1>1
<1>3. view' # view
  OBVIOUS
<1>4. view' = Events!Cut(view, q)
  BY <1>3 DEF Events!Prepend
<1>5. PICK j \in DOMAIN old : s = old[j].seq
  BY DEF Events!Seqs
<1> HIDE DEF q, e, old
<1>6. ~(Len(q) <= MaxLive)
  <2> SUFFICES ASSUME Len(q) <= MaxLive PROVE FALSE
    OBVIOUS
  <2>1. view'.items = q
    BY <1>1, <1>2, <1>4, ItemsSet DEF Events!Cut
  <2> QED BY <1>2, <1>5, <2>1 DEF Events!Seqs
<1>7. view' = [view EXCEPT !.items = SubSeq(q, 1, MaxLive), !.cursor = q[MaxLive].seq]
  BY <1>4, <1>6 DEF Events!Cut
<1>8. MaxLive \in 1..Len(q)
  BY <1>1, <1>2, <1>6
<1>9. view'.items = SubSeq(q, 1, MaxLive) /\ view'.cursor = q[MaxLive].seq
  BY <1>1, <1>7 DEF OfView
<1>10. Len(old) \in Nat /\ DOMAIN old = 1..Len(old) /\ j \in 1..Len(old)
  BY <1>1
<1>11. j + 1 > MaxLive
  <2> SUFFICES ASSUME j + 1 <= MaxLive PROVE FALSE
    BY <1>1, <1>10
  <2>1. j + 1 \in 1..MaxLive
    BY <1>1, <1>10
  <2>2. j + 1 \in DOMAIN view'.items /\ view'.items[j + 1] = q[j + 1]
    BY <1>2, <1>8, <1>9, <2>1
  <2> QED BY <1>2, <1>5, <2>2 DEF Events!Seqs
<1>12. MaxLive - 1 \in DOMAIN old /\ MaxLive - 1 < j
  BY <1>1, <1>10, <1>11
<1>13. q[MaxLive] = old[MaxLive - 1]
  <2>1. q[(MaxLive - 1) + 1] = old[MaxLive - 1]
    BY <1>2, <1>12
  <2> QED BY <1>1, <2>1
<1>14. old[MaxLive - 1].seq > old[j].seq
  BY <1>5, <1>12 DEF Events!Falls, old
<1>15. old[MaxLive - 1].seq \in Nat /\ old[j].seq \in Nat
  <2>1. old[MaxLive - 1] \in Event /\ old[j] \in Event
    BY <1>1, <1>12
  <2> QED BY <2>1 DEF Event
<1> QED BY <1>5, <1>9, <1>13, <1>14, <1>15

\* The cap that cuts the live list moves the cursor to its end, so that what it cut is
\* what the next page begins with, wherever the list falls as the pages do
\* (startListening of frontend/src/stores/eventsStore.js).
THEOREM CutComesBack == ASSUME EventsAssumption PROVE Events!Spec => Events!CutIsReachable
<1>1. EventsInv /\ [Events!Next]_(Events!vars) => [Events!CutsReachably]_(Events!vars)
  <2> SUFFICES ASSUME EventsInv, Events!Next, Len(announced') < Len(announced), Events!Falls(view.items),
                      NEW s \in Events!Seqs(view.items) \ Events!Seqs(view'.items)
               PROVE  s < view'.cursor
    BY DEF Events!CutsReachably
  <2>1. CASE Events!listen
    BY <2>1, CutLosesOlder
  <2>2. CASE Events!Store
    <3>1. \E e : announced' = Append(announced, e)
      BY <2>2 DEF Events!Store
    <3>2. announced \in Seq(Event) /\ Len(announced') = Len(announced) + 1
      BY <3>1 DEF EventsInv
    <3> QED BY <3>2
  <2>3. CASE ~(Events!listen \/ Events!Store)
    <3>1. announced' = announced
      BY <2>3 DEF Events!Next, Events!Perform, Events!reload, Events!loadMore, Events!ack, Events!remove,
                  Events!ackAll, Events!clear, Events!AskIncidents, Events!LeaveMonitor, Events!Answer,
                  Events!LoadAnswered, Events!MoreAnswered, Events!ChangeAnswered, Events!AllAnswered,
                  Events!refreshCounts, Events!IncidentsAnswered, Events!go
    <3>2. Len(announced') \in Nat
      BY <3>1 DEF EventsInv
    <3> QED BY <3>1, <3>2
  <2> QED BY <2>1, <2>2, <2>3
<1> QED BY <1>1, EventsAlways, PTL DEF Events!Spec, Events!CutIsReachable

(***************************************************************************)
(* RequestHistory: the history of the requests and its table.              *)
(***************************************************************************)
\* Entries are numbered from 1, those of an older version first; none is no number.
HistoryAssumption ==
  /\ OldLog \in Seq(1..Len(OldLog)) /\ HistoryClicks \in Nat /\ HistoryFaults \in Nat /\ HistoryRestarts \in Nat
  /\ PAGE_SIZE \in Nat \ {0} /\ MAX_HISTORY_ENTRIES \in Nat \ {0}
  /\ Null \notin Nat /\ Null \notin {"GET", "WALK"}

Held(s) == History!ToSet(s)

Saving(c, e)   == \/ c.fn = "SaveHistoryEntry" /\ e \in c.ids
                  \/ c.fn = "ImportHistoryEntries" /\ e \in Held(OldLog)
Dropping(c, e) == c.fn = "ClearHistory" \/ (c.fn = "DeleteHistoryEntries" /\ e \in c.ids)

Verbs  == {"LoadHistory", "SaveHistoryEntry", "DeleteHistoryEntries", "ClearHistory", "ImportHistoryEntries"}
Stages == {"off", "load", "answer", "failed", "import", "imported", "done"}
Shown  == [open : BOOLEAN, only : {Null, "GET", "WALK"}, asc : BOOLEAN, page : Int, expanded : SUBSET Nat,
           selected : SUBSET Nat, flash : Nat \cup {Null}, a : Nat \cup {Null}, b : Nat \cup {Null}]

HistoryTyped ==
  /\ numbered \in Nat /\ numbered >= Len(OldLog)
  /\ table \in Seq(1..numbered) /\ mirror \in Seq(1..numbered) /\ gone \subseteq 1..numbered
  /\ requests \in Seq([fn : Verbs, ids : SUBSET Nat])
  /\ \A i \in DOMAIN requests : requests[i].fn = "SaveHistoryEntry" =>
       requests[i].ids \subseteq (Len(OldLog) + 1)..numbered
  /\ stage \in [at : Stages, reply : Seq(1..numbered), tried : BOOLEAN]
  /\ local \in [live : {<<>>, OldLog}, backup : {<<>>, OldLog}]
  /\ panel \in Shown /\ highlight \in Nat \cup {Null}
  /\ allowance \in [clicks : Int, faults : Int, restarts : Int] /\ allowance.faults <= HistoryFaults

\* What was deleted will be gone from the table once the calls under way are served.
Leaves(e, t, rs) ==
  \/ \E j \in DOMAIN rs : Dropping(rs[j], e) /\ \A i \in DOMAIN rs : i > j => ~Saving(rs[i], e)
  \/ e \notin Held(t) /\ \A i \in DOMAIN rs : ~Saving(rs[i], e)

\* The table is read before anything made since the start is saved.
ReadFirst(at, rs) ==
  /\ at = "off" => \A i \in DOMAIN rs : rs[i].fn \notin {"SaveHistoryEntry", "ImportHistoryEntries"}
  /\ at = "load" => \E i \in DOMAIN rs :
       /\ rs[i].fn = "LoadHistory"
       /\ \A j \in DOMAIN rs : /\ rs[j].fn = "LoadHistory" => j = i
                               /\ j < i => rs[j].fn \notin {"SaveHistoryEntry", "ImportHistoryEntries"}
  /\ at # "load" => \A i \in DOMAIN rs : rs[i].fn # "LoadHistory"

\* The entries of an older version are imported once.
ImportOnce(at, rs) ==
  \A i, j \in DOMAIN rs : rs[i].fn = "ImportHistoryEntries" =>
    at = "import" /\ (rs[j].fn = "ImportHistoryEntries" => i = j)

\* What was read, or is still to be read, holds nothing made or deleted since.
ReadIsOld ==
  /\ stage.at \in {"off", "load"} => Held(table) \cap (gone \cup Held(mirror)) = {}
  /\ stage.at = "answer" => Held(stage.reply) \cap (gone \cup Held(mirror)) = {}

\* What is still to be imported is nowhere yet.
LegacyIsNew ==
  /\ stage.at \in {"import", "imported"} => local.live # <<>>
  /\ local.live # <<>> =>
       /\ Held(OldLog) \cap (gone \cup Held(mirror)) = {}
       /\ stage.at = "answer" => Held(OldLog) \cap Held(stage.reply) = {}
       /\ stage.at # "imported" => Held(OldLog) \cap Held(table) = {}

Smooth ==
  /\ stage.at # "failed" /\ ~stage.tried
  /\ \A e \in gone : Leaves(e, table, requests)
  /\ gone \cap Held(mirror) = {}
  /\ ReadFirst(stage.at, requests) /\ ImportOnce(stage.at, requests) /\ ReadIsOld /\ LegacyIsNew

\* With no fault, and the calls served in the order they are sent.
Orderly == InOrder /\ History!Calm

HistoryInv == HistoryTyped /\ (Orderly => Smooth)

-----------------------------------------------------------------------------
(* Lists of entries. *)

LEMMA HeldIs ==
  ASSUME NEW S, NEW s \in Seq(S)
  PROVE  Held(s) \subseteq S /\ \A e : e \in Held(s) <=> \E i \in DOMAIN s : s[i] = e
BY DEF Held, History!ToSet

LEMMA CountingHistory == \A S : History!Cardinality(S) = Cardinality(S)
  BY DEF History!Cardinality, Cardinality, History!IsFiniteSet, IsFiniteSet

LEMMA OnlyOfHistory == \A q, stay : History!Only(q, stay) = Left(q, stay)
<1> SUFFICES ASSUME NEW q, NEW stay PROVE History!Only(q, stay) = Left(q, stay)
  OBVIOUS
<1> DEFINE Before(i) == {j \in stay : j < i}
<1>1. History!Cardinality(stay) = Cardinality(stay)
      /\ \A i : History!Cardinality(Before(i)) = Cardinality(Before(i))
  BY CountingHistory, Zenon
<1>2. \A n : (CHOOSE i \in stay : History!Cardinality(Before(i)) = n - 1)
              = (CHOOSE i \in stay : Cardinality(Before(i)) = n - 1)
  BY <1>1, Zenon
<1>3. History!Only(q, stay) = [n \in 1..History!Cardinality(stay) |->
                               q[CHOOSE i \in stay : History!Cardinality(Before(i)) = n - 1]]
  BY DEF History!Only
<1>4. History!Only(q, stay) = [n \in 1..Cardinality(stay) |-> q[CHOOSE i \in stay : Cardinality(Before(i)) = n - 1]]
  BY <1>1, <1>2, <1>3, Zenon
<1> QED BY <1>4, Zenon DEF Left

LEMMA WithoutIs ==
  ASSUME NEW S, NEW s \in Seq(S), NEW ids
  PROVE  History!Without(s, ids) \in Seq(S) /\ Held(History!Without(s, ids)) \subseteq Held(s) \ ids
<1> DEFINE stay == {i \in DOMAIN s : s[i] \notin ids}
           t == Left(s, stay)
<1>1. History!Without(s, ids) = t /\ stay \subseteq DOMAIN s
  BY OnlyOfHistory DEF History!Without
<1> HIDE DEF stay
<1>2. t \in Seq(S) /\ Taken(s, stay, t)
  BY <1>1, OnlyIs
<1> HIDE DEF t
<1>3. \A n \in DOMAIN t : \E i \in stay : t[n] = s[i]
  BY <1>2 DEF Taken
<1>4. Held(t) \subseteq Held(s) \ ids
  BY <1>1, <1>3 DEF Held, History!ToSet, stay
<1> QED BY <1>1, <1>2, <1>4

LEMMA RisingIs ==
  ASSUME NEW N \in Nat, NEW T, T \subseteq 1..N
  PROVE  History!Rising(T) \in Seq(T)
<1> DEFINE Before(i) == {j \in T : j < i}
           place(n) == CHOOSE i \in T : Cardinality(Before(i)) = n - 1
           K == Cardinality(T)
<1>1. History!Cardinality(T) = K /\ \A i : History!Cardinality(Before(i)) = Cardinality(Before(i))
  BY CountingHistory, Zenon
<1>2. \A n : (CHOOSE i \in T : History!Cardinality(Before(i)) = n - 1) = place(n)
  BY <1>1, Zenon
<1>3. History!Rising(T) = [n \in 1..History!Cardinality(T) |->
                             CHOOSE i \in T : History!Cardinality(Before(i)) = n - 1]
  BY DEF History!Rising
<1>4. History!Rising(T) = [n \in 1..K |-> place(n)]
  BY <1>1, <1>2, <1>3, Zenon
<1>5. K \in Nat /\ \A n \in 1..K : \E i \in T : Cardinality(Before(i)) = n - 1
  BY AllCounted
<1> HIDE DEF Before, K
<1>6. \A n \in 1..K : place(n) \in T
  BY <1>5
<1> HIDE DEF place
<1>7. [n \in 1..K |-> place(n)] \in [1..K -> T]
  BY <1>6
<1> QED BY <1>4, <1>5, <1>7

LEMMA ReverseIs ==
  ASSUME NEW S, NEW s \in Seq(S)
  PROVE  History!Reverse(s) \in Seq(S) /\ Held(History!Reverse(s)) = Held(s)
<1> DEFINE t == History!Reverse(s)
<1>1. t = [i \in 1..Len(s) |-> s[Len(s) - i + 1]] /\ Len(s) \in Nat /\ DOMAIN s = 1..Len(s)
  BY DEF History!Reverse
<1>2. \A i \in 1..Len(s) : Len(s) - i + 1 \in 1..Len(s) /\ Len(s) - (Len(s) - i + 1) + 1 = i
  BY <1>1
<1> HIDE DEF t
<1>3. t \in Seq(S) /\ DOMAIN t = 1..Len(s) /\ \A i \in 1..Len(s) : t[i] = s[Len(s) - i + 1]
  BY <1>1, <1>2
<1>4. \A i \in 1..Len(s) : s[i] = t[Len(s) - i + 1]
  BY <1>2, <1>3
<1>5. ASSUME NEW x \in Held(t) PROVE x \in Held(s)
  <2>1. PICK i \in 1..Len(s) : x = t[i]
    BY <1>3 DEF Held, History!ToSet
  <2>2. Len(s) - i + 1 \in DOMAIN s /\ x = s[Len(s) - i + 1]
    BY <1>1, <1>2, <1>3, <2>1
  <2> QED BY <2>2 DEF Held, History!ToSet
<1>6. ASSUME NEW x \in Held(s) PROVE x \in Held(t)
  <2>1. PICK i \in 1..Len(s) : x = s[i]
    BY <1>1 DEF Held, History!ToSet
  <2>2. Len(s) - i + 1 \in DOMAIN t /\ x = t[Len(s) - i + 1]
    BY <1>2, <1>3, <1>4, <2>1
  <2> QED BY <2>2 DEF Held, History!ToSet
<1>7. Held(t) = Held(s)
  BY <1>5, <1>6
<1> QED BY <1>3, <1>7 DEF t

LEMMA JoinIs ==
  ASSUME NEW S, NEW s \in Seq(S), NEW t \in Seq(S)
  PROVE  s \o t \in Seq(S) /\ Held(s \o t) = Held(s) \cup Held(t)
<1>1. /\ s \o t \in Seq(S) /\ Len(s) \in Nat /\ Len(t) \in Nat
      /\ DOMAIN s = 1..Len(s) /\ DOMAIN t = 1..Len(t) /\ DOMAIN (s \o t) = 1..(Len(s) + Len(t))
      /\ \A i \in 1..(Len(s) + Len(t)) : (s \o t)[i] = IF i <= Len(s) THEN s[i] ELSE t[i - Len(s)]
  OBVIOUS
<1> DEFINE u == s \o t
<1>2. \A i \in DOMAIN s : i \in DOMAIN u /\ u[i] = s[i]
  BY <1>1
<1>3. \A i \in DOMAIN t : i + Len(s) \in DOMAIN u /\ u[i + Len(s)] = t[i]
  BY <1>1
<1>4. \A i \in DOMAIN u : (i \in DOMAIN s /\ u[i] = s[i]) \/ (i - Len(s) \in DOMAIN t /\ u[i] = t[i - Len(s)])
  BY <1>1
<1> HIDE DEF u
<1>5. Held(u) = Held(s) \cup Held(t)
  BY <1>2, <1>3, <1>4 DEF Held, History!ToSet
<1> QED BY <1>1, <1>5 DEF u

LEMMA PartIs ==
  ASSUME NEW S, NEW s \in Seq(S), NEW m \in Nat \ {0}, NEW n \in Nat, n <= Len(s)
  PROVE  SubSeq(s, m, n) \in Seq(S) /\ Held(SubSeq(s, m, n)) \subseteq Held(s)
<1> DEFINE t == SubSeq(s, m, n)
<1>1. t \in Seq(S) /\ \A i \in DOMAIN t : t[i] = s[i + m - 1] /\ i + m - 1 \in DOMAIN s
  OBVIOUS
<1> HIDE DEF t
<1>2. Held(t) \subseteq Held(s)
  BY <1>1 DEF Held, History!ToSet
<1> QED BY <1>1, <1>2 DEF t

LEMMA TrimIs ==
  ASSUME HistoryAssumption, NEW S, NEW t \in Seq(S)
  PROVE  History!trimHistory(t) \in Seq(S) /\ Held(History!trimHistory(t)) \subseteq Held(t)
<1> DEFINE m == IF Len(t) > MAX_HISTORY_ENTRIES THEN Len(t) - MAX_HISTORY_ENTRIES + 1 ELSE 1
<1>1. m \in Nat \ {0} /\ Len(t) \in Nat
  BY DEF HistoryAssumption
<1>2. History!trimHistory(t) = SubSeq(t, m, Len(t))
  BY DEF History!trimHistory
<1> HIDE DEF m
<1> QED BY <1>1, <1>2, PartIs

LEMMA SliceIs ==
  ASSUME NEW S, NEW s \in Seq(S), NEW n \in Nat
  PROVE  History!Slice(s, 1, n) \in Seq(S) /\ Held(History!Slice(s, 1, n)) \subseteq Held(s)
<1> DEFINE k == IF n > Len(s) THEN Len(s) ELSE n
<1>1. k \in Nat /\ k <= Len(s)
  OBVIOUS
<1>2. History!Slice(s, 1, n) = SubSeq(s, 1, k)
  BY DEF History!Slice
<1> HIDE DEF k
<1>3. 1 \in Nat \ {0}
  OBVIOUS
<1> QED BY <1>1, <1>2, <1>3, PartIs, Zenon

LEMMA FilteredIs ==
  ASSUME NEW N \in Nat, NEW m \in Seq(1..N), NEW p
  PROVE  /\ History!filteredHistory(m, p) \in Seq(Held(m))
         /\ Held(m) \subseteq 1..N
<1> DEFINE T == {e \in Held(m) : p.only = Null \/ p.only = History!Kind(e)}
<1>1. Held(m) \subseteq 1..N
  BY HeldIs
<1>2. T \subseteq 1..N /\ T \subseteq Held(m)
  BY <1>1
<1>3. History!filteredHistory(m, p) = IF p.asc THEN History!Rising(T) ELSE History!Reverse(History!Rising(T))
  BY DEF History!filteredHistory, Held
<1> HIDE DEF T
<1>4. History!Rising(T) \in Seq(T)
  BY <1>2, RisingIs
<1>5. History!Rising(T) \in Seq(Held(m))
  BY <1>2, <1>4, SeqMonotonic
<1>6. History!Reverse(History!Rising(T)) \in Seq(Held(m))
  BY <1>5, ReverseIs
<1> QED BY <1>1, <1>3, <1>5, <1>6

-----------------------------------------------------------------------------
(* The panel. *)

LEMMA Divided ==
  ASSUME NEW P \in Nat \ {0}, NEW n \in Nat
  PROVE  n \div P \in Nat /\ (n \div P) * P <= n /\ n < ((n \div P) + 1) * P
OBVIOUS

\* The page of a place holds the place.
LEMMA OnItsPage ==
  ASSUME HistoryAssumption, NEW f, NEW p, NEW i \in DOMAIN f \cap Nat, i >= 1, p.asc \in BOOLEAN
  PROVE  History!PageOf(i) \in Int /\ f[i] \in History!pagedHistory(f, History!PageOf(i))
<1> DEFINE q == (i - 1) \div PAGE_SIZE
<1>1. PAGE_SIZE \in Nat \ {0} /\ i - 1 \in Nat
  BY DEF HistoryAssumption
<1>2. q \in Nat /\ q * PAGE_SIZE <= i - 1 /\ i - 1 < (q + 1) * PAGE_SIZE
  BY <1>1, Divided
<1>3. History!PageOf(i) = q + 1
  BY DEF History!PageOf
<1> HIDE DEF q
<1>4. (q + 1 - 1) * PAGE_SIZE = q * PAGE_SIZE /\ q * PAGE_SIZE \in Int /\ (q + 1) * PAGE_SIZE \in Int
  <2>1. q + 1 - 1 = q
    BY <1>2
  <2> QED BY <1>1, <1>2, <2>1
<1>5. i \in (((q + 1) - 1) * PAGE_SIZE + 1)..((q + 1) * PAGE_SIZE)
  BY <1>1, <1>2, <1>4
<1> QED BY <1>2, <1>3, <1>5 DEF History!pagedHistory

LEMMA PagesAre ==
  ASSUME HistoryAssumption, NEW S, NEW f \in Seq(S)
  PROVE  History!totalPages(f) \in Int
<1>1. Len(f) + PAGE_SIZE - 1 \in Int /\ PAGE_SIZE \in Nat \ {0}
  BY DEF HistoryAssumption
<1>2. (Len(f) + PAGE_SIZE - 1) \div PAGE_SIZE \in Int
  BY <1>1
<1> QED BY <1>2 DEF History!totalPages

\* An entry that begins to flash is expanded, on the page that is shown.
Revealed(m, old, p) ==
  p.flash \notin {Null, old} =>
    p.flash \in p.expanded /\ p.flash \in History!pagedHistory(History!filteredHistory(m, p), p.page)

LEMMA SettleIs ==
  ASSUME HistoryAssumption, NEW N \in Nat, NEW m \in Seq(1..N), NEW p \in Shown, NEW h \in Nat \cup {Null},
         History!Settle(m, p, h)
  PROVE  mirror' = m /\ panel' \in Shown /\ highlight' \in Nat \cup {Null} /\ Revealed(m, p.flash, panel')
<1> DEFINE f == History!filteredHistory(m, p)
           page == IF p.page > History!totalPages(f) THEN History!totalPages(f) ELSE p.page
           turned == [p EXCEPT !.page = page]
           shown == [p EXCEPT !.page = History!PageOf(CHOOSE i \in DOMAIN f : f[i] = h),
                              !.expanded = @ \cup {h}, !.flash = h]
<1>1. f \in Seq(Held(m))
  BY FilteredIs
<1>2. mirror' = m /\ \/ highlight' = h /\ panel' \in {p, turned}
                     \/ /\ h # Null /\ h \in Held(f) /\ highlight' = Null /\ panel' = shown
  BY DEF History!Settle, Held
<1>3. page \in Int
  BY <1>1, PagesAre DEF Shown
<1>4. CASE highlight' = h /\ panel' \in {p, turned}
  <2> HIDE DEF page
  <2>1. turned \in Shown /\ turned.flash = p.flash
    BY <1>3 DEF Shown
  <2> HIDE DEF turned
  <2> QED BY <1>2, <1>4, <2>1 DEF Revealed
<1>5. CASE h # Null /\ h \in Held(f) /\ highlight' = Null /\ panel' = shown
  <2> HIDE DEF f, page
  <2> DEFINE i == CHOOSE k \in DOMAIN f : f[k] = h
  <2>1. i \in DOMAIN f /\ f[i] = h
    BY <1>5 DEF Held, History!ToSet
  <2>2. i \in Nat /\ i >= 1
    BY <1>1, <2>1
  <2>3. History!PageOf(i) \in Int /\ f[i] \in History!pagedHistory(f, History!PageOf(i))
    BY <2>1, <2>2, OnItsPage DEF Shown
  <2> HIDE DEF i
  <2>4. shown = [p EXCEPT !.page = History!PageOf(i), !.expanded = @ \cup {h}, !.flash = h]
    BY DEF i
  <2>5. h \in Nat
    BY <1>5
  <2> HIDE DEF shown
  <2>6. /\ shown \in Shown /\ shown.flash = h /\ h \in shown.expanded /\ shown.page = History!PageOf(i)
        /\ shown.only = p.only /\ shown.asc = p.asc
    BY <2>3, <2>4, <2>5 DEF Shown
  <2>7. History!filteredHistory(m, shown) = f
    BY <2>6 DEF f, History!filteredHistory
  <2> QED BY <1>2, <1>5, <2>1, <2>3, <2>6, <2>7 DEF Revealed
<1> QED BY <1>2, <1>4, <1>5

-----------------------------------------------------------------------------
(* Calls. *)

Calls == Seq([fn : Verbs, ids : SUBSET Nat])

LEMMA LeavesAfter ==
  ASSUME NEW e, NEW t, NEW rs \in Calls, NEW c \in [fn : Verbs, ids : SUBSET Nat],
         Dropping(c, e) \/ (Leaves(e, t, rs) /\ ~Saving(c, e))
  PROVE  Leaves(e, t, Append(rs, c))
<1> DEFINE u == Append(rs, c)
<1>1. /\ DOMAIN u = 1..(Len(rs) + 1) /\ u[Len(rs) + 1] = c /\ Len(rs) \in Nat /\ DOMAIN rs = 1..Len(rs)
      /\ \A i \in 1..Len(rs) : u[i] = rs[i]
  BY DEF Calls
<1> HIDE DEF u
<1>2. CASE Dropping(c, e)
  <2>1. Len(rs) + 1 \in DOMAIN u /\ Dropping(u[Len(rs) + 1], e) /\ \A i \in DOMAIN u : ~(i > Len(rs) + 1)
    BY <1>1, <1>2
  <2> QED BY <2>1 DEF Leaves, u
<1>3. CASE Leaves(e, t, rs) /\ ~Saving(c, e)
  <2>1. \A i \in DOMAIN u : (i \in DOMAIN rs /\ u[i] = rs[i]) \/ u[i] = c
    BY <1>1
  <2>2. \A i \in DOMAIN rs : i \in DOMAIN u /\ u[i] = rs[i]
    BY <1>1
  <2>3. Leaves(e, t, u)
    <3> HIDE <1>1
    <3> QED BY <1>3, <2>1, <2>2 DEF Leaves
  <2> QED BY <2>3 DEF u
<1> QED BY <1>2, <1>3

LEMMA FirstServed ==
  ASSUME NEW rs \in Calls, rs # <<>>
  PROVE  /\ 1 \in DOMAIN rs /\ rs[1] \in [fn : Verbs, ids : SUBSET Nat]
         /\ History!RemoveAt(rs, 1) = Tail(rs) /\ Tail(rs) \in Calls
         /\ \A i \in DOMAIN Tail(rs) : i + 1 \in DOMAIN rs /\ Tail(rs)[i] = rs[i + 1] /\ i \in Nat
         /\ \A i \in DOMAIN rs : i # 1 => i - 1 \in DOMAIN Tail(rs) /\ Tail(rs)[i - 1] = rs[i] /\ i \in Nat
<1> DEFINE E == [fn : Verbs, ids : SUBSET Nat]
<1>1. rs \in Seq(E) /\ Len(rs) \in Nat /\ Len(rs) >= 1 /\ DOMAIN rs = 1..Len(rs)
  BY DEF Calls
<1> HIDE DEF E
<1>2. 1 \in DOMAIN rs /\ rs[1] \in E
  BY <1>1
<1>3. Tail(rs) \in Seq(E) /\ Len(Tail(rs)) = Len(rs) - 1 /\ \A i \in 1..(Len(rs) - 1) : Tail(rs)[i] = rs[i + 1]
  BY <1>1
<1>4. DOMAIN Tail(rs) = 1..(Len(rs) - 1)
  BY <1>1, <1>3
<1>5. History!RemoveAt(rs, 1) = Tail(rs)
  <2>1. History!RemoveAt(rs, 1) = SubSeq(rs, 1, 0) \o SubSeq(rs, 2, Len(rs))
    BY DEF History!RemoveAt
  <2>2. SubSeq(rs, 1, 0) = <<>> /\ SubSeq(rs, 2, Len(rs)) = Tail(rs)
    BY <1>1, <1>3
  <2> QED BY <1>3, <2>1, <2>2
<1> QED BY <1>1, <1>2, <1>3, <1>4, <1>5 DEF Calls, E

LEMMA LeavesServed ==
  ASSUME NEW e, NEW t, NEW new, NEW rs \in Calls, rs # <<>>, Leaves(e, t, rs),
         Dropping(rs[1], e) => e \notin Held(new),
         e \in Held(new) => e \in Held(t) \/ Saving(rs[1], e)
  PROVE  Leaves(e, new, Tail(rs))
<1> DEFINE us == Tail(rs)
<1>1. /\ 1 \in DOMAIN rs
      /\ \A i \in DOMAIN us : i + 1 \in DOMAIN rs /\ us[i] = rs[i + 1] /\ i \in Nat
      /\ \A i \in DOMAIN rs : i # 1 => i - 1 \in DOMAIN us /\ us[i - 1] = rs[i] /\ i \in Nat
      /\ \A i \in DOMAIN us : i + 1 > 1
  BY FirstServed DEF Calls
<1> HIDE DEF us
<1>2. CASE \E j \in DOMAIN rs : Dropping(rs[j], e) /\ \A i \in DOMAIN rs : i > j => ~Saving(rs[i], e)
  <2> PICK j \in DOMAIN rs : Dropping(rs[j], e) /\ \A i \in DOMAIN rs : i > j => ~Saving(rs[i], e)
    BY <1>2
  <2>1. CASE j = 1
    <3>1. e \notin Held(new)
      BY <2>1
    <3>2. \A i \in DOMAIN us : ~Saving(us[i], e)
      BY <1>1, <2>1
    <3> QED BY <3>1, <3>2 DEF Leaves, us
  <2>2. CASE j # 1
    <3>1. j - 1 \in DOMAIN us /\ Dropping(us[j - 1], e) /\ j \in Nat
      BY <1>1, <2>2
    <3>2. \A i \in DOMAIN us : i > j - 1 => ~Saving(us[i], e)
      BY <1>1, <3>1
    <3> QED BY <3>1, <3>2 DEF Leaves, us
  <2> QED BY <2>1, <2>2
<1>3. CASE e \notin Held(t) /\ \A i \in DOMAIN rs : ~Saving(rs[i], e)
  <2>1. e \notin Held(new)
    BY <1>1, <1>3
  <2>2. \A i \in DOMAIN us : ~Saving(us[i], e)
    BY <1>1, <1>3
  <2> QED BY <2>1, <2>2 DEF Leaves, us
<1> QED BY <1>2, <1>3 DEF Leaves

LEMMA AppendIs ==
  ASSUME NEW rs \in Calls, NEW c \in [fn : Verbs, ids : SUBSET Nat]
  PROVE  /\ Append(rs, c) \in Calls /\ Len(rs) \in Nat
         /\ Len(rs) + 1 \in DOMAIN Append(rs, c) /\ Append(rs, c)[Len(rs) + 1] = c
         /\ \A i \in DOMAIN Append(rs, c) : /\ i <= Len(rs) + 1 /\ i \in Nat
                                            /\ (i \in DOMAIN rs /\ Append(rs, c)[i] = rs[i]) \/ i = Len(rs) + 1
         /\ \A i \in DOMAIN rs : i \in DOMAIN Append(rs, c) /\ Append(rs, c)[i] = rs[i] /\ i < Len(rs) + 1
BY DEF Calls

LEMMA AskedAfter ==
  ASSUME NEW at, NEW rs \in Calls, NEW c \in [fn : Verbs, ids : SUBSET Nat],
         c.fn \notin {"LoadHistory", "ImportHistoryEntries"}, at = "off" => c.fn # "SaveHistoryEntry",
         ReadFirst(at, rs), ImportOnce(at, rs)
  PROVE  ReadFirst(at, Append(rs, c)) /\ ImportOnce(at, Append(rs, c))
<1> DEFINE us == Append(rs, c)
           last == Len(rs) + 1
<1>1. /\ last \in DOMAIN us /\ us[last] = c
      /\ \A i \in DOMAIN us : (i \in DOMAIN rs /\ us[i] = rs[i]) \/ i = last
      /\ \A i \in DOMAIN rs : i \in DOMAIN us /\ us[i] = rs[i] /\ i < last
      /\ \A i \in DOMAIN rs : ~(last < i)
  BY AppendIs
<1> HIDE DEF us, last
<1>2. ReadFirst(at, us)
  <2>1. CASE at = "load"
    <3> PICK i \in DOMAIN rs :
          /\ rs[i].fn = "LoadHistory"
          /\ \A j \in DOMAIN rs : /\ rs[j].fn = "LoadHistory" => j = i
                                  /\ j < i => rs[j].fn \notin {"SaveHistoryEntry", "ImportHistoryEntries"}
      BY <2>1 DEF ReadFirst
    <3>1. i \in DOMAIN us /\ us[i].fn = "LoadHistory"
      BY <1>1
    <3>2. \A j \in DOMAIN us : us[j].fn = "LoadHistory" => j = i
      BY <1>1
    <3>3. \A j \in DOMAIN us : j < i => us[j].fn \notin {"SaveHistoryEntry", "ImportHistoryEntries"}
      BY <1>1
    <3> QED BY <2>1, <3>1, <3>2, <3>3 DEF ReadFirst
  <2>2. CASE at # "load"
    BY <1>1, <2>2 DEF ReadFirst
  <2> QED BY <2>1, <2>2
<1>3. ImportOnce(at, us)
  <2> SUFFICES ASSUME NEW i \in DOMAIN us, NEW j \in DOMAIN us, us[i].fn = "ImportHistoryEntries"
               PROVE  at = "import" /\ (us[j].fn = "ImportHistoryEntries" => i = j)
    BY DEF ImportOnce
  <2>1. i \in DOMAIN rs /\ us[i] = rs[i]
    BY <1>1
  <2> QED BY <1>1, <2>1 DEF ImportOnce
<1> QED BY <1>2, <1>3 DEF us

-----------------------------------------------------------------------------
(* The steps. *)

Allowed(a) == a \in [clicks : Int, faults : Int, restarts : Int] /\ a.faults = allowance.faults

LEMMA GestureStep ==
  ASSUME HistoryInv, panel' \in Shown, highlight' \in Nat \cup {Null}, mirror' = mirror, Allowed(allowance'),
         UNCHANGED <<table, local, requests, stage, numbered, gone>>
  PROVE  HistoryInv'
<1>1. HistoryTyped'
  BY DEF HistoryInv, HistoryTyped, Allowed
<1>2. ASSUME Orderly' PROVE Smooth'
  <2>1. Smooth
    BY <1>2 DEF HistoryInv, Orderly, History!Calm, Allowed
  <2> QED BY <2>1 DEF Smooth, ReadIsOld, LegacyIsNew
<1> QED BY <1>1, <1>2 DEF HistoryInv

LEMMA DropStep ==
  ASSUME HistoryInv, NEW ids, ids \subseteq Held(mirror), NEW c \in [fn : Verbs, ids : SUBSET Nat],
         c.fn \in {"DeleteHistoryEntries", "ClearHistory"}, \A e \in ids : Dropping(c, e),
         requests' = Append(requests, c), gone' = gone \cup ids,
         mirror' \in Seq(1..numbered), Held(mirror') \subseteq Held(mirror) \ ids,
         panel' \in Shown, highlight' \in Nat \cup {Null}, Allowed(allowance'),
         UNCHANGED <<table, local, stage, numbered>>
  PROVE  HistoryInv'
<1>1. /\ requests \in Calls /\ mirror \in Seq(1..numbered) /\ Held(mirror) \subseteq 1..numbered
  BY HeldIs DEF HistoryInv, HistoryTyped, Calls
<1>2. HistoryTyped'
  <2>1. requests' \in Seq([fn : Verbs, ids : SUBSET Nat])
    BY <1>1 DEF Calls
  <2>2. \A i \in DOMAIN requests' : requests'[i].fn = "SaveHistoryEntry" =>
          requests'[i].ids \subseteq (Len(OldLog) + 1)..numbered
    BY <1>1, AppendIs DEF HistoryInv, HistoryTyped
  <2> QED BY <1>1, <2>1, <2>2 DEF HistoryInv, HistoryTyped, Allowed
<1>3. ASSUME Orderly' PROVE Smooth'
  <2>1. Smooth
    BY <1>3 DEF HistoryInv, Orderly, History!Calm, Allowed
  <2>2. \A e \in gone' : Leaves(e, table, requests')
    <3> SUFFICES ASSUME NEW e \in gone' PROVE Leaves(e, table, requests')
      OBVIOUS
    <3>1. Dropping(c, e) \/ (Leaves(e, table, requests) /\ ~Saving(c, e))
      BY <2>1 DEF Smooth, Saving
    <3> QED BY <1>1, <3>1, LeavesAfter
  <2>3. ReadFirst(stage.at, requests') /\ ImportOnce(stage.at, requests')
    BY <1>1, <2>1, AskedAfter DEF Smooth
  <2>4. gone' \cap Held(mirror') = {}
    BY <2>1 DEF Smooth
  <2>5. ReadIsOld'
    BY <2>1 DEF Smooth, ReadIsOld
  <2>6. LegacyIsNew'
    BY <2>1 DEF Smooth, LegacyIsNew
  <2> QED BY <2>1, <2>2, <2>3, <2>4, <2>5, <2>6 DEF Smooth
<1> QED BY <1>2, <1>3 DEF HistoryInv

LEMMA InitHistory == ASSUME HistoryAssumption, History!Init PROVE HistoryInv
<1>1. /\ table = <<>> /\ requests = <<>> /\ mirror = <<>> /\ panel = History!Closed /\ highlight = Null
      /\ local \in {[live |-> OldLog, backup |-> <<>>], [live |-> <<>>, backup |-> <<>>]}
      /\ stage = [at |-> "off", reply |-> <<>>, tried |-> FALSE]
      /\ numbered = Len(OldLog) /\ gone = {}
      /\ allowance.faults = HistoryFaults
  BY DEF History!Init
<1>2. HistoryTyped
  <2>1. panel \in Shown
    BY <1>1 DEF Shown, History!Closed
  <2>2. allowance \in [clicks : Int, faults : Int, restarts : Int] /\ HistoryFaults \in Nat
    BY DEF History!Init, HistoryAssumption
  <2> QED BY <1>1, <2>1, <2>2 DEF HistoryTyped, HistoryAssumption, Stages
<1>3. Held(mirror) = {} /\ Held(table) = {}
  BY <1>1 DEF Held, History!ToSet
<1>4. Smooth
  BY <1>1, <1>3 DEF Smooth, ReadFirst, ImportOnce, ReadIsOld, LegacyIsNew
<1> QED BY <1>2, <1>4 DEF HistoryInv

LEMMA StartHistory == ASSUME HistoryInv, History!init PROVE HistoryInv'
<1> DEFINE c == [fn |-> "LoadHistory", ids |-> {}]
<1>1. /\ stage.at = "off" /\ stage' = [stage EXCEPT !.at = "load"] /\ requests' = Append(requests, c)
      /\ UNCHANGED <<mirror, panel, highlight, table, local, numbered, gone, allowance>>
  BY DEF History!init, History!Send, History!Keeps
<1>2. c \in [fn : Verbs, ids : SUBSET Nat] /\ c.fn = "LoadHistory" /\ requests \in Calls
  BY DEF Verbs, Calls, HistoryInv, HistoryTyped
<1> HIDE DEF c
<1>3. stage' \in [at : Stages, reply : Seq(1..numbered), tried : BOOLEAN]
      /\ stage'.at = "load" /\ stage'.tried = stage.tried /\ stage'.reply = stage.reply
  BY <1>1 DEF HistoryInv, HistoryTyped, Stages
<1>4. HistoryTyped'
  <2>1. requests' \in Seq([fn : Verbs, ids : SUBSET Nat])
    BY <1>1, <1>2 DEF Calls
  <2>2. \A i \in DOMAIN requests' : requests'[i].fn = "SaveHistoryEntry" =>
          requests'[i].ids \subseteq (Len(OldLog) + 1)..numbered
    BY <1>1, <1>2, AppendIs DEF HistoryInv, HistoryTyped
  <2> QED BY <1>1, <1>3, <2>1, <2>2 DEF HistoryInv, HistoryTyped
<1>5. ASSUME Orderly' PROVE Smooth'
  <2>1. Smooth
    BY <1>1, <1>5 DEF HistoryInv, Orderly, History!Calm
  <2>2. \A e \in gone' : Leaves(e, table', requests')
    BY <1>1, <1>2, <2>1, LeavesAfter DEF Smooth, Saving
  <2>3. \A i \in DOMAIN requests : requests[i].fn \notin {"LoadHistory", "SaveHistoryEntry", "ImportHistoryEntries"}
    BY <1>1, <2>1 DEF Smooth, ReadFirst
  <2>4. ReadFirst("load", requests')
    <3> DEFINE last == Len(requests) + 1
    <3>1. /\ last \in DOMAIN requests' /\ requests'[last] = c
          /\ \A i \in DOMAIN requests' : (i \in DOMAIN requests /\ requests'[i] = requests[i]) \/ i = last
      BY <1>1, <1>2, AppendIs
    <3>2. last \in Int
      BY <1>2 DEF Calls
    <3> HIDE DEF last
    <3>3. \A j \in DOMAIN requests' : requests'[j].fn = "LoadHistory" => j = last
      BY <2>3, <3>1
    <3>4. \A j \in DOMAIN requests' : j < last => requests'[j].fn \notin {"SaveHistoryEntry", "ImportHistoryEntries"}
      BY <2>3, <3>1, <3>2
    <3> QED BY <1>2, <3>1, <3>3, <3>4 DEF ReadFirst
  <2>5. ImportOnce("load", requests')
    BY <1>1, <1>2, <2>3, AppendIs DEF ImportOnce
  <2>6. ReadIsOld' /\ LegacyIsNew'
    BY <1>1, <1>3, <2>1 DEF Smooth, ReadIsOld, LegacyIsNew
  <2> QED BY <1>1, <1>3, <2>1, <2>2, <2>4, <2>5, <2>6 DEF Smooth
<1> QED BY <1>4, <1>5 DEF HistoryInv

\* A list of entries stays one when an entry is made.
LEMMA OneMore == ASSUME NEW n \in Nat, NEW s \in Seq(1..n) PROVE s \in Seq(1..(n + 1))
<1>1. 1..n \subseteq 1..(n + 1)
  OBVIOUS
<1> QED BY <1>1, SeqMonotonic

LEMMA AddHistory == ASSUME HistoryAssumption, HistoryInv, History!add PROVE HistoryInv'
<1> DEFINE e == numbered + 1
           q == <<e>> \o mirror
           m == History!Slice(q, 1, MAX_HISTORY_ENTRIES)
           c == [fn |-> "SaveHistoryEntry", ids |-> {e}]
<1>1. /\ stage.at # "off" /\ numbered' = e /\ History!Settle(m, panel, highlight) /\ requests' = Append(requests, c)
      /\ UNCHANGED <<table, local, stage, gone, allowance>>
  BY DEF History!add, History!Send
<1>2. /\ numbered \in Nat /\ numbered >= Len(OldLog) /\ Len(OldLog) \in Nat /\ e \in Nat
      /\ table \in Seq(1..numbered) /\ mirror \in Seq(1..numbered) /\ stage.reply \in Seq(1..numbered)
      /\ gone \subseteq 1..numbered /\ requests \in Calls /\ Held(OldLog) \subseteq 1..Len(OldLog)
  <2>1. OldLog \in Seq(1..Len(OldLog)) /\ Len(OldLog) \in Nat
    BY DEF HistoryAssumption
  <2>2. Held(OldLog) \subseteq 1..Len(OldLog)
    BY <2>1, HeldIs
  <2>3. /\ numbered \in Nat /\ numbered >= Len(OldLog) /\ gone \subseteq 1..numbered
        /\ table \in Seq(1..numbered) /\ mirror \in Seq(1..numbered) /\ requests \in Calls
    BY DEF HistoryInv, HistoryTyped, Calls
  <2>4. stage.reply \in Seq(1..numbered)
    BY DEF HistoryInv, HistoryTyped
  <2>5. e \in Nat
    BY <2>3
  <2> HIDE DEF e
  <2> QED BY <2>1, <2>2, <2>3, <2>4, <2>5
<1>3. e \notin gone /\ e \notin Held(table) /\ e \notin Held(stage.reply) /\ e \notin Held(OldLog)
  <2>1. Held(table) \subseteq 1..numbered /\ Held(stage.reply) \subseteq 1..numbered
    BY <1>2, HeldIs
  <2> QED BY <1>2, <2>1
<1>4. m \in Seq(1..e) /\ Held(m) \subseteq Held(mirror) \cup {e}
  <2>1. mirror \in Seq(1..e) /\ <<e>> \in Seq(1..e)
    BY <1>2, OneMore
  <2>2. q \in Seq(1..e) /\ Held(q) = Held(<<e>>) \cup Held(mirror)
    <3> DEFINE one == <<e>>
    <3>1. one \in Seq(1..e)
      BY <2>1
    <3> HIDE DEF e, one
    <3>2. one \o mirror \in Seq(1..e) /\ Held(one \o mirror) = Held(one) \cup Held(mirror)
      BY <2>1, <3>1, JoinIs
    <3> QED BY <3>2 DEF one
  <2>3. Held(<<e>>) = {e}
    BY DEF Held, History!ToSet
  <2>4. MAX_HISTORY_ENTRIES \in Nat
    BY DEF HistoryAssumption
  <2> HIDE DEF q, e
  <2> QED BY <2>2, <2>3, <2>4, SliceIs
<1>5. c \in [fn : Verbs, ids : SUBSET Nat] /\ c.fn = "SaveHistoryEntry" /\ c.ids = {e}
  BY <1>2 DEF Verbs
<1> HIDE DEF m, c
<1>6. mirror' = m /\ panel' \in Shown /\ highlight' \in Nat \cup {Null}
  <2>1. panel \in Shown /\ highlight \in Nat \cup {Null}
    BY DEF HistoryInv, HistoryTyped
  <2> HIDE DEF e
  <2> QED BY <1>1, <1>2, <1>4, <2>1, SettleIs
<1>7. HistoryTyped'
  <2>1. requests' \in Seq([fn : Verbs, ids : SUBSET Nat])
    BY <1>1, <1>2, <1>5, AppendIs DEF Calls
  <2>2. \A i \in DOMAIN requests' : requests'[i].fn = "SaveHistoryEntry" =>
          requests'[i].ids \subseteq (Len(OldLog) + 1)..numbered'
    <3>1. (Len(OldLog) + 1)..numbered \subseteq (Len(OldLog) + 1)..numbered' /\ e \in (Len(OldLog) + 1)..numbered'
      BY <1>1, <1>2
    <3>2. \A i \in DOMAIN requests' : (i \in DOMAIN requests /\ requests'[i] = requests[i]) \/ requests'[i] = c
      BY <1>1, <1>2, <1>5, AppendIs
    <3> HIDE DEF e
    <3> QED BY <1>5, <3>1, <3>2 DEF HistoryInv, HistoryTyped
  <2>3. table' \in Seq(1..numbered') /\ stage'.reply \in Seq(1..numbered') /\ mirror' \in Seq(1..numbered')
    BY <1>1, <1>2, <1>4, <1>6, OneMore
  <2>4. stage' \in [at : Stages, reply : Seq(1..numbered'), tried : BOOLEAN]
    <3>1. stage' = stage /\ stage \in [at : Stages, reply : Seq(1..numbered), tried : BOOLEAN]
      BY <1>1 DEF HistoryInv, HistoryTyped
    <3> HIDE DEF e
    <3> QED BY <2>3, <3>1
  <2>5. numbered' \in Nat /\ numbered' >= Len(OldLog) /\ gone' \subseteq 1..numbered'
    BY <1>1, <1>2
  <2> HIDE DEF e
  <2> QED BY <1>1, <1>6, <2>1, <2>2, <2>3, <2>4, <2>5 DEF HistoryInv, HistoryTyped
<1>8. ASSUME Orderly' PROVE Smooth'
  <2>1. Smooth
    BY <1>1, <1>8 DEF HistoryInv, Orderly, History!Calm
  <2>2. \A d \in gone' : Leaves(d, table', requests')
    <3>1. \A d \in gone : ~Saving(c, d)
      BY <1>3, <1>5 DEF Saving
    <3> HIDE DEF e
    <3> QED BY <1>1, <1>2, <1>5, <2>1, <3>1, LeavesAfter DEF Smooth
  <2>3. ReadFirst(stage.at, requests') /\ ImportOnce(stage.at, requests')
    <3> HIDE DEF e
    <3> QED BY <1>1, <1>2, <1>5, <2>1, AskedAfter DEF Smooth
  <2> HIDE DEF e
  <2>4. gone' \cap Held(mirror') = {}
    BY <1>1, <1>3, <1>4, <1>6, <2>1 DEF Smooth
  <2>5. ReadIsOld'
    BY <1>1, <1>3, <1>4, <1>6, <2>1 DEF Smooth, ReadIsOld
  <2>6. LegacyIsNew'
    BY <1>1, <1>3, <1>4, <1>6, <2>1 DEF Smooth, LegacyIsNew
  <2> QED BY <1>1, <2>1, <2>2, <2>3, <2>4, <2>5, <2>6 DEF Smooth
<1> QED BY <1>7, <1>8 DEF HistoryInv

LEMMA ClickIs == ASSUME HistoryInv, History!Click PROVE Allowed(allowance')
<1>1. allowance \in [clicks : Int, faults : Int, restarts : Int]
  BY DEF HistoryInv, HistoryTyped
<1>2. allowance' = [allowance EXCEPT !.clicks = @ - 1]
  BY DEF History!Click
<1> QED BY <1>1, <1>2 DEF Allowed

LEMMA DropsHistory ==
  ASSUME HistoryAssumption, HistoryInv, History!clear \/ History!remove \/ History!deleteSelected
  PROVE  HistoryInv'
<1>0. /\ numbered \in Nat /\ mirror \in Seq(1..numbered) /\ panel \in Shown /\ highlight \in Nat \cup {Null}
      /\ Held(mirror) \subseteq 1..numbered
  BY HeldIs DEF HistoryInv, HistoryTyped
<1>1. CASE History!clear
  <2> DEFINE c == [fn |-> "ClearHistory", ids |-> {}]
  <2>1. /\ History!Click /\ gone' = gone \cup Held(mirror) /\ History!Settle(<<>>, panel, highlight)
        /\ requests' = Append(requests, c) /\ UNCHANGED <<table, local, stage, numbered>>
    BY <1>1 DEF History!clear, History!Deletes, History!Send, Held
  <2>2. c \in [fn : Verbs, ids : SUBSET Nat] /\ c.fn = "ClearHistory"
    BY DEF Verbs
  <2>3. <<>> \in Seq(1..numbered) /\ Held(<<>>) = {}
    BY DEF Held, History!ToSet
  <2>4. mirror' = <<>> /\ panel' \in Shown /\ highlight' \in Nat \cup {Null}
    BY <1>0, <2>1, <2>3, SettleIs
  <2>5. \A e \in Held(mirror) : Dropping(c, e)
    BY <2>2 DEF Dropping
  <2> HIDE DEF c
  <2> QED BY <2>1, <2>2, <2>3, <2>4, <2>5, ClickIs, DropStep
<1>2. CASE History!remove
  <2> PICK e \in History!pagedHistory(History!filteredHistory(mirror, panel), panel.page) :
        /\ History!Click /\ History!Deletes({e}) /\ History!Settle(History!Without(mirror, {e}), panel, highlight)
        /\ History!DeletedThere({e})
    BY <1>2 DEF History!remove
  <2> DEFINE c == [fn |-> "DeleteHistoryEntries", ids |-> {e}]
             m == History!Without(mirror, {e})
  <2>1. gone' = gone \cup {e} /\ requests' = Append(requests, c) /\ UNCHANGED <<table, local, stage, numbered>>
    BY DEF History!Deletes, History!DeletedThere, History!Send
  <2>2. e \in Held(mirror)
    <3> DEFINE f == History!filteredHistory(mirror, panel)
    <3>1. f \in Seq(Held(mirror))
      BY <1>0, FilteredIs
    <3>2. \E i \in DOMAIN f : e = f[i]
      BY DEF History!pagedHistory
    <3> HIDE DEF f
    <3> QED BY <3>1, <3>2
  <2>3. c \in [fn : Verbs, ids : SUBSET Nat] /\ c.fn = "DeleteHistoryEntries" /\ c.ids = {e}
    BY <1>0, <2>2 DEF Verbs
  <2> HIDE DEF c
  <2>4. m \in Seq(1..numbered) /\ Held(m) \subseteq Held(mirror) \ {e}
    BY <1>0, WithoutIs
  <2>5. mirror' = m /\ panel' \in Shown /\ highlight' \in Nat \cup {Null}
    BY <1>0, <2>4, SettleIs
  <2>6. {e} \subseteq Held(mirror) /\ \A d \in {e} : Dropping(c, d)
    BY <2>2, <2>3 DEF Dropping
  <2> HIDE DEF m
  <2> QED BY <2>1, <2>3, <2>4, <2>5, <2>6, ClickIs, DropStep
<1>3. CASE History!deleteSelected
  <2> DEFINE all == panel.selected
             c == [fn |-> "DeleteHistoryEntries", ids |-> all]
             m == History!Without(mirror, all)
             p == [panel EXCEPT !.selected = {}]
             ids == all \cap Held(mirror)
  <2>1. /\ History!Click /\ gone' = gone \cup ids /\ History!Settle(m, p, highlight)
        /\ requests' = Append(requests, c) /\ UNCHANGED <<table, local, stage, numbered>>
    BY <1>3 DEF History!deleteSelected, History!Deletes, History!DeletedThere, History!Send, Held
  <2>2. all \in SUBSET Nat /\ p \in Shown
    BY <1>0 DEF Shown
  <2>3. c \in [fn : Verbs, ids : SUBSET Nat] /\ c.fn = "DeleteHistoryEntries" /\ c.ids = all
    BY <2>2 DEF Verbs
  <2> HIDE DEF c, p, all
  <2>4. m \in Seq(1..numbered) /\ Held(m) \subseteq Held(mirror) \ all
    BY <1>0, WithoutIs
  <2>5. mirror' = m /\ panel' \in Shown /\ highlight' \in Nat \cup {Null}
    BY <1>0, <2>1, <2>2, <2>4, SettleIs
  <2>6. ids \subseteq Held(mirror) /\ Held(m) \subseteq Held(mirror) \ ids /\ \A d \in ids : Dropping(c, d)
    BY <2>3, <2>4 DEF Dropping
  <2> HIDE DEF m, ids
  <2> QED BY <2>1, <2>3, <2>4, <2>5, <2>6, ClickIs, DropStep
<1> QED BY <1>1, <1>2, <1>3

LEMMA GesturesHistory ==
  ASSUME HistoryAssumption, HistoryInv,
         \/ History!goToHistory \/ History!flashEnds \/ History!leave \/ History!operationFilter
         \/ History!toggleSort \/ History!turnPage \/ History!toggleSelect \/ History!toggleDiffSelection
  PROVE  HistoryInv' /\ mirror' = mirror /\ Revealed(mirror, panel.flash, panel')
<1>0. /\ numbered \in Nat /\ mirror \in Seq(1..numbered) /\ panel \in Shown /\ highlight \in Nat \cup {Null}
      /\ Held(mirror) \subseteq Nat
  <2>1. numbered \in Nat /\ mirror \in Seq(1..numbered)
    BY DEF HistoryInv, HistoryTyped
  <2>2. Held(mirror) \subseteq 1..numbered
    BY <2>1, HeldIs
  <2> QED BY <2>1, <2>2 DEF HistoryInv, HistoryTyped
<1>1. UNCHANGED <<table, local, requests, stage, numbered, gone>>
  BY DEF History!Rest, History!goToHistory, History!flashEnds, History!leave, History!operationFilter,
         History!toggleSort, History!turnPage, History!toggleSelect, History!toggleDiffSelection
<1>2. Allowed(allowance')
  <2>1. CASE allowance' = allowance
    BY <2>1 DEF HistoryInv, HistoryTyped, Allowed
  <2>2. CASE History!Click
    BY <2>2, ClickIs
  <2> QED BY <2>1, <2>2
          DEF History!goToHistory, History!flashEnds, History!leave, History!operationFilter,
              History!toggleSort, History!turnPage, History!toggleSelect, History!toggleDiffSelection
<1>3. ASSUME NEW p \in Shown, NEW h \in Nat \cup {Null}, History!Settle(mirror, p, h),
             p.flash \in {Null, panel.flash}
      PROVE  mirror' = mirror /\ panel' \in Shown /\ highlight' \in Nat \cup {Null}
             /\ Revealed(mirror, panel.flash, panel')
  <2>1. /\ mirror' = mirror /\ panel' \in Shown /\ highlight' \in Nat \cup {Null}
        /\ Revealed(mirror, p.flash, panel')
    BY <1>0, <1>3, SettleIs
  <2> QED BY <1>3, <2>1 DEF Revealed
<1>4. History!Closed \in Shown /\ [History!Closed EXCEPT !.open = TRUE] \in Shown
      /\ History!Closed.flash = Null /\ [History!Closed EXCEPT !.open = TRUE].flash = Null
  <2> DEFINE C == History!Closed
  <2>1. C \in Shown /\ C.flash = Null
    BY DEF History!Closed, Shown
  <2> HIDE DEF C
  <2>2. [C EXCEPT !.open = TRUE] \in Shown /\ [C EXCEPT !.open = TRUE].flash = Null
    BY <2>1 DEF Shown
  <2> QED BY <2>1, <2>2 DEF C
<1>5. /\ mirror' = mirror /\ panel' \in Shown /\ highlight' \in Nat \cup {Null}
      /\ Revealed(mirror, panel.flash, panel')
  <2>1. CASE History!goToHistory
    <3> PICK h \in {Null} \cup Held(History!Slice(mirror, 1, 5)) :
          History!Settle(mirror, [History!Closed EXCEPT !.open = TRUE], h)
      BY <2>1 DEF History!goToHistory, Held
    <3>1. h \in Nat \cup {Null}
      BY <1>0, SliceIs
    <3> QED BY <1>3, <1>4, <3>1
  <2>2. CASE History!flashEnds
    <3>1. panel' = [panel EXCEPT !.flash = Null] /\ UNCHANGED <<mirror, highlight>>
      BY <2>2 DEF History!flashEnds
    <3>2. panel' \in Shown /\ panel'.flash = Null
      BY <1>0, <3>1 DEF Shown
    <3> QED BY <1>0, <3>1, <3>2 DEF Revealed
  <2>3. CASE History!leave
    BY <1>0, <1>4, <2>3 DEF History!leave, Revealed
  <2>4. CASE History!operationFilter
    <3> PICK o \in {Null, "GET", "WALK"} : History!Settle(mirror, [panel EXCEPT !.only = o], highlight)
      BY <2>4 DEF History!operationFilter
    <3>1. [panel EXCEPT !.only = o] \in Shown /\ [panel EXCEPT !.only = o].flash = panel.flash
      BY <1>0 DEF Shown
    <3> QED BY <1>0, <1>3, <3>1
  <2>5. CASE History!toggleSort
    <3>1. History!Settle(mirror, [panel EXCEPT !.asc = ~@], highlight)
      BY <2>5 DEF History!toggleSort
    <3>2. [panel EXCEPT !.asc = ~@] \in Shown /\ [panel EXCEPT !.asc = ~@].flash = panel.flash
      BY <1>0 DEF Shown
    <3> QED BY <1>0, <1>3, <3>1, <3>2
  <2>6. CASE History!turnPage
    <3> PICK d \in {-1, 1} : History!Settle(mirror, [panel EXCEPT !.page = @ + d], highlight)
      BY <2>6 DEF History!turnPage
    <3>1. [panel EXCEPT !.page = @ + d] \in Shown /\ [panel EXCEPT !.page = @ + d].flash = panel.flash
      BY <1>0 DEF Shown
    <3> QED BY <1>0, <1>3, <3>1
  <2>7. CASE History!toggleSelect
    <3> DEFINE f == History!filteredHistory(mirror, panel)
    <3>0. f \in Seq(Held(mirror))
      BY <1>0, FilteredIs
    <3>1. PICK ids \in {{e} : e \in History!pagedHistory(f, panel.page)} \cup {Held(f)} :
            History!Settle(mirror, [panel EXCEPT !.selected = History!SymDiff(@, ids)], highlight)
      BY <2>7 DEF History!toggleSelect, Held
    <3> HIDE DEF f
    <3>2. ids \subseteq Nat
      BY <1>0, <3>0, HeldIs DEF History!pagedHistory
    <3> DEFINE both == History!SymDiff(panel.selected, ids)
    <3>3. both \in SUBSET Nat
      BY <1>0, <3>2 DEF Shown, History!SymDiff
    <3>4. [panel EXCEPT !.selected = History!SymDiff(@, ids)] = [panel EXCEPT !.selected = both]
      BY <1>0 DEF Shown
    <3> HIDE DEF both
    <3>5. [panel EXCEPT !.selected = both] \in Shown /\ [panel EXCEPT !.selected = both].flash = panel.flash
      BY <1>0, <3>3 DEF Shown
    <3> QED BY <1>0, <1>3, <3>1, <3>4, <3>5
  <2>8. CASE History!toggleDiffSelection
    <3> DEFINE f == History!filteredHistory(mirror, panel)
    <3>0. f \in Seq(Held(mirror))
      BY <1>0, FilteredIs
    <3>1. PICK e \in History!pagedHistory(f, panel.page) :
            History!Settle(mirror, CASE panel.a = e    -> [panel EXCEPT !.a = Null]
                                     [] panel.b = e    -> [panel EXCEPT !.b = Null]
                                     [] panel.a = Null -> [panel EXCEPT !.a = e]
                                     [] panel.b = Null /\ panel.a # Null -> [panel EXCEPT !.b = e]
                                     [] OTHER          -> panel, highlight)
      BY <2>8 DEF History!toggleDiffSelection
    <3> HIDE DEF f
    <3>2. e \in Nat
      BY <1>0, <3>0 DEF History!pagedHistory
    <3>3. PICK p \in {panel} \cup {[panel EXCEPT !.a = x] : x \in {Null, e}}
                             \cup {[panel EXCEPT !.b = x] : x \in {Null, e}} :
            History!Settle(mirror, p, highlight)
      BY <3>1
    <3>4. ASSUME NEW x \in {Null, e}
          PROVE  /\ [panel EXCEPT !.a = x] \in Shown /\ [panel EXCEPT !.a = x].flash = panel.flash
                 /\ [panel EXCEPT !.b = x] \in Shown /\ [panel EXCEPT !.b = x].flash = panel.flash
      <4>1. x \in Nat \cup {Null}
        BY <3>2
      <4> QED BY <1>0, <4>1 DEF Shown
    <3>5. p \in Shown /\ p.flash = panel.flash
      BY <1>0, <3>3, <3>4, Zenon
    <3> QED BY <1>0, <1>3, <3>3, <3>5
  <2> QED BY <2>1, <2>2, <2>3, <2>4, <2>5, <2>6, <2>7, <2>8
<1> QED BY <1>1, <1>2, <1>5, GestureStep

LEMMA AnyCall ==
  ASSUME HistoryInv, NEW k \in DOMAIN requests
  PROVE  /\ requests \in Calls /\ requests[k] \in [fn : Verbs, ids : SUBSET Nat]
         /\ requests[k].fn = "SaveHistoryEntry" => requests[k].ids \subseteq (Len(OldLog) + 1)..numbered
<1> DEFINE E == [fn : Verbs, ids : SUBSET Nat]
<1>1. requests \in Seq(E)
  BY DEF HistoryInv, HistoryTyped
<1> HIDE DEF E
<1>2. requests[k] \in E
  BY <1>1
<1> QED BY <1>1, <1>2 DEF E, Calls, HistoryInv, HistoryTyped

\* What a call makes of the table.
LEMMA ServedIs ==
  ASSUME HistoryAssumption, HistoryInv, NEW k \in DOMAIN requests, NEW new \in History!Served(requests[k])
  PROVE  /\ new \in Seq(1..numbered)
         /\ \A e \in Held(new) : e \in Held(table) \/ Saving(requests[k], e)
         /\ \A e : Dropping(requests[k], e) => e \notin Held(new)
         /\ requests[k].fn = "LoadHistory" => new = table
<1> DEFINE c == requests[k]
<1>1. /\ numbered \in Nat /\ numbered >= Len(OldLog) /\ Len(OldLog) \in Nat /\ table \in Seq(1..numbered)
      /\ OldLog \in Seq(1..Len(OldLog))
      /\ c \in [fn : Verbs, ids : SUBSET Nat]
      /\ c.fn = "SaveHistoryEntry" => c.ids \subseteq (Len(OldLog) + 1)..numbered
  <2>1. /\ c \in [fn : Verbs, ids : SUBSET Nat]
        /\ c.fn = "SaveHistoryEntry" => c.ids \subseteq (Len(OldLog) + 1)..numbered
    BY AnyCall
  <2> HIDE DEF c
  <2>2. OldLog \in Seq(1..Len(OldLog)) /\ Len(OldLog) \in Nat
    BY DEF HistoryAssumption
  <2> QED BY <2>1, <2>2 DEF HistoryInv, HistoryTyped
<1> HIDE DEF c
<1>2. CASE c.fn = "SaveHistoryEntry"
  <2> DEFINE t == History!Without(table, c.ids)
             r == History!Rising(c.ids)
  <2>1. t \in Seq(1..numbered) /\ Held(t) \subseteq Held(table) \ c.ids
    BY <1>1, WithoutIs
  <2>2. c.ids \subseteq 1..numbered
    BY <1>1, <1>2
  <2>3. r \in Seq(c.ids)
    BY <1>1, <2>2, RisingIs
  <2>4. r \in Seq(1..numbered) /\ Held(r) \subseteq c.ids
    BY <2>2, <2>3, SeqMonotonic, HeldIs
  <2>5. new \in {t \o r, History!trimHistory(t \o r)}
    BY <1>2 DEF History!Served, c
  <2> HIDE DEF t, r
  <2>6. t \o r \in Seq(1..numbered) /\ Held(t \o r) \subseteq Held(table) \cup c.ids
    BY <2>1, <2>4, JoinIs
  <2>7. new \in Seq(1..numbered) /\ Held(new) \subseteq Held(table) \cup c.ids
    BY <2>5, <2>6, TrimIs
  <2> QED BY <1>2, <2>7 DEF Saving, Dropping, c
<1>3. CASE c.fn = "DeleteHistoryEntries"
  <2>1. new = History!Without(table, c.ids)
    BY <1>3 DEF History!Served, c
  <2>2. new \in Seq(1..numbered) /\ Held(new) \subseteq Held(table) \ c.ids
    BY <1>1, <2>1, WithoutIs
  <2> QED BY <1>3, <2>2 DEF Dropping, c
<1>4. CASE c.fn = "ClearHistory"
  <2>1. new = <<>>
    BY <1>4 DEF History!Served, c
  <2> QED BY <1>4, <2>1 DEF Held, History!ToSet, c
<1>5. CASE c.fn = "ImportHistoryEntries"
  <2> DEFINE t == History!Without(table, Held(OldLog))
  <2>1. t \in Seq(1..numbered) /\ Held(t) \subseteq Held(table)
    BY <1>1, WithoutIs
  <2>2. new = History!trimHistory(t \o OldLog)
    BY <1>5 DEF History!Served, Held, c
  <2> HIDE DEF t
  <2>3. OldLog \in Seq(1..numbered)
    <3>1. 1..Len(OldLog) \subseteq 1..numbered
      BY <1>1
    <3> QED BY <1>1, <3>1, SeqMonotonic
  <2>4. t \o OldLog \in Seq(1..numbered) /\ Held(t \o OldLog) \subseteq Held(table) \cup Held(OldLog)
    BY <2>1, <2>3, JoinIs
  <2>5. new \in Seq(1..numbered) /\ Held(new) \subseteq Held(table) \cup Held(OldLog)
    BY <2>2, <2>4, TrimIs
  <2> QED BY <1>5, <2>5 DEF Saving, Dropping, c
<1>6. CASE c.fn = "LoadHistory"
  <2>1. new = table
    BY <1>6 DEF History!Served, c
  <2> QED BY <1>1, <1>6, <2>1 DEF Dropping, c
<1> QED BY <1>1, <1>2, <1>3, <1>4, <1>5, <1>6 DEF Verbs

\* One call less.
LEMMA AskedBefore ==
  ASSUME NEW at, NEW rs \in Calls, rs # <<>>, ReadFirst(at, rs), ImportOnce(at, rs)
  PROVE  /\ rs[1].fn \notin {"LoadHistory", "ImportHistoryEntries"}
              => ReadFirst(at, Tail(rs)) /\ ImportOnce(at, Tail(rs))
         /\ rs[1].fn = "LoadHistory"
              => at = "load" /\ ReadFirst("answer", Tail(rs)) /\ ImportOnce("answer", Tail(rs))
         /\ rs[1].fn = "ImportHistoryEntries"
              => at = "import" /\ ReadFirst("imported", Tail(rs)) /\ ImportOnce("imported", Tail(rs))
         /\ at \in {"off", "load"} => rs[1].fn \notin {"SaveHistoryEntry", "ImportHistoryEntries"}
<1> DEFINE us == Tail(rs)
<1>1. /\ 1 \in DOMAIN rs
      /\ \A i \in DOMAIN us : i + 1 \in DOMAIN rs /\ us[i] = rs[i + 1] /\ i \in Nat
      /\ \A i \in DOMAIN rs : i # 1 => i - 1 \in DOMAIN us /\ us[i - 1] = rs[i] /\ i \in Nat
      /\ \A i \in DOMAIN us : i + 1 # 1
      /\ \A i \in DOMAIN rs : i \in Nat /\ i >= 1
  <2>1. \A i \in DOMAIN rs : i \in Nat /\ i >= 1
    BY DEF Calls
  <2>2. \A i \in DOMAIN us : i \in Nat /\ i >= 1
    BY FirstServed DEF Calls
  <2> QED BY <2>1, <2>2, FirstServed
<1> HIDE DEF us
<1>2. ASSUME at = "load"
      PROVE  \E i \in DOMAIN rs :
               /\ rs[i].fn = "LoadHistory"
               /\ \A j \in DOMAIN rs : /\ rs[j].fn = "LoadHistory" => j = i
                                       /\ j < i => rs[j].fn \notin {"SaveHistoryEntry", "ImportHistoryEntries"}
  BY <1>2 DEF ReadFirst
<1>3. at \in {"off", "load"} => rs[1].fn \notin {"SaveHistoryEntry", "ImportHistoryEntries"}
  <2>1. CASE at = "off"
    BY <1>1, <2>1 DEF ReadFirst
  <2>2. CASE at = "load"
    <3> PICK i \in DOMAIN rs :
          /\ rs[i].fn = "LoadHistory"
          /\ \A j \in DOMAIN rs : j < i => rs[j].fn \notin {"SaveHistoryEntry", "ImportHistoryEntries"}
      BY <1>2, <2>2
    <3>1. i = 1 \/ 1 < i
      BY <1>1
    <3> QED BY <1>1, <3>1
  <2> QED BY <2>1, <2>2
<1>4. ASSUME rs[1].fn # "ImportHistoryEntries" PROVE ImportOnce(at, us)
  <2> SUFFICES ASSUME NEW i \in DOMAIN us, NEW j \in DOMAIN us, us[i].fn = "ImportHistoryEntries"
               PROVE  at = "import" /\ (us[j].fn = "ImportHistoryEntries" => i = j)
    BY DEF ImportOnce
  <2>1. at = "import" /\ (rs[j + 1].fn = "ImportHistoryEntries" => i + 1 = j + 1)
    BY <1>1 DEF ImportOnce
  <2> QED BY <1>1, <2>1
<1>5. ASSUME rs[1].fn \notin {"LoadHistory", "ImportHistoryEntries"} PROVE ReadFirst(at, us)
  <2>1. CASE at = "load"
    <3> PICK i \in DOMAIN rs :
          /\ rs[i].fn = "LoadHistory"
          /\ \A j \in DOMAIN rs : /\ rs[j].fn = "LoadHistory" => j = i
                                  /\ j < i => rs[j].fn \notin {"SaveHistoryEntry", "ImportHistoryEntries"}
      BY <1>2, <2>1
    <3>1. i - 1 \in DOMAIN us /\ us[i - 1].fn = "LoadHistory" /\ i \in Nat
      BY <1>1, <1>5
    <3>2. \A j \in DOMAIN us : us[j].fn = "LoadHistory" => j = i - 1
      <4> TAKE j \in DOMAIN us
      <4>1. j + 1 \in DOMAIN rs /\ us[j] = rs[j + 1] /\ j \in Nat
        BY <1>1
      <4> QED BY <3>1, <4>1
    <3>3. \A j \in DOMAIN us : j < i - 1 => us[j].fn \notin {"SaveHistoryEntry", "ImportHistoryEntries"}
      <4> TAKE j \in DOMAIN us
      <4>1. j + 1 \in DOMAIN rs /\ us[j] = rs[j + 1] /\ j \in Nat
        BY <1>1
      <4>2. j < i - 1 => j + 1 < i
        BY <3>1, <4>1
      <4> QED BY <4>1, <4>2
    <3> QED BY <2>1, <3>1, <3>2, <3>3 DEF ReadFirst
  <2>2. CASE at # "load"
    BY <1>1, <2>2 DEF ReadFirst
  <2> QED BY <2>1, <2>2
<1>6. ASSUME rs[1].fn = "LoadHistory"
      PROVE  at = "load" /\ ReadFirst("answer", us) /\ ImportOnce("answer", us)
  <2>1. at = "load"
    BY <1>1, <1>6 DEF ReadFirst
  <2>2. \A j \in DOMAIN rs : rs[j].fn = "LoadHistory" => j = 1
    BY <1>1, <1>2, <1>6, <2>1
  <2>3. \A i \in DOMAIN us : us[i].fn # "LoadHistory"
    BY <1>1, <2>2
  <2>4. \A i \in DOMAIN us : us[i].fn # "ImportHistoryEntries"
    BY <1>1, <2>1 DEF ImportOnce
  <2> QED BY <2>1, <2>3, <2>4 DEF ReadFirst, ImportOnce
<1>7. ASSUME rs[1].fn = "ImportHistoryEntries"
      PROVE  at = "import" /\ ReadFirst("imported", us) /\ ImportOnce("imported", us)
  <2>1. at = "import" /\ \A j \in DOMAIN rs : rs[j].fn = "ImportHistoryEntries" => 1 = j
    BY <1>1, <1>7 DEF ImportOnce
  <2>2. \A i \in DOMAIN us : us[i].fn # "ImportHistoryEntries"
    BY <1>1, <2>1
  <2>3. \A i \in DOMAIN us : us[i].fn # "LoadHistory"
    BY <1>1, <2>1 DEF ReadFirst
  <2> QED BY <2>1, <2>2, <2>3 DEF ReadFirst, ImportOnce
<1> QED BY <1>3, <1>4, <1>5, <1>6, <1>7 DEF us

\* One call less, whichever.
LEMMA AnyServed ==
  ASSUME NEW S, NEW rs \in Seq(S), NEW k \in DOMAIN rs
  PROVE  /\ History!RemoveAt(rs, k) \in Seq(S)
         /\ \A i \in DOMAIN History!RemoveAt(rs, k) : \E j \in DOMAIN rs : History!RemoveAt(rs, k)[i] = rs[j]
<1> DEFINE a == SubSeq(rs, 1, k - 1)
           b == SubSeq(rs, k + 1, Len(rs))
<1>1. k \in Nat /\ k >= 1 /\ k <= Len(rs) /\ Len(rs) \in Nat
  OBVIOUS
<1>2. a \in Seq(S) /\ Held(a) \subseteq Held(rs)
  <2>1. 1 \in Nat \ {0} /\ k - 1 \in Nat /\ k - 1 <= Len(rs)
    BY <1>1
  <2> QED BY <2>1, PartIs
<1>3. b \in Seq(S) /\ Held(b) \subseteq Held(rs)
  <2>1. k + 1 \in Nat \ {0} /\ Len(rs) <= Len(rs)
    BY <1>1
  <2> QED BY <1>1, <2>1, PartIs
<1>4. History!RemoveAt(rs, k) = a \o b
  BY DEF History!RemoveAt
<1> HIDE DEF a, b
<1>5. a \o b \in Seq(S) /\ Held(a \o b) \subseteq Held(rs)
  BY <1>2, <1>3, JoinIs
<1> QED BY <1>4, <1>5, HeldIs

\* What a stage may become.
LEMMA StageIs ==
  ASSUME NEW N, NEW s \in [at : Stages, reply : Seq(1..N), tried : BOOLEAN], NEW at \in Stages, NEW r \in Seq(1..N)
  PROVE  /\ [s EXCEPT !.at = at] \in [at : Stages, reply : Seq(1..N), tried : BOOLEAN]
         /\ [s EXCEPT !.at = at, !.reply = r] \in [at : Stages, reply : Seq(1..N), tried : BOOLEAN]
         /\ [s EXCEPT !.at = at, !.reply = r, !.tried = TRUE] \in [at : Stages, reply : Seq(1..N), tried : BOOLEAN]
         /\ [s EXCEPT !.at = at].at = at /\ [s EXCEPT !.at = at].tried = s.tried
         /\ [s EXCEPT !.at = at].reply = s.reply
         /\ [s EXCEPT !.at = at, !.reply = r].at = at /\ [s EXCEPT !.at = at, !.reply = r].tried = s.tried
         /\ [s EXCEPT !.at = at, !.reply = r].reply = r
<1> DEFINE R == Seq(1..N)
<1> HIDE DEF R, Stages
<1> SUFFICES ASSUME s \in [at : Stages, reply : R, tried : BOOLEAN], r \in R
    PROVE  /\ [s EXCEPT !.at = at] \in [at : Stages, reply : R, tried : BOOLEAN]
           /\ [s EXCEPT !.at = at, !.reply = r] \in [at : Stages, reply : R, tried : BOOLEAN]
           /\ [s EXCEPT !.at = at, !.reply = r, !.tried = TRUE] \in [at : Stages, reply : R, tried : BOOLEAN]
           /\ [s EXCEPT !.at = at].at = at /\ [s EXCEPT !.at = at].tried = s.tried
           /\ [s EXCEPT !.at = at].reply = s.reply
           /\ [s EXCEPT !.at = at, !.reply = r].at = at /\ [s EXCEPT !.at = at, !.reply = r].tried = s.tried
           /\ [s EXCEPT !.at = at, !.reply = r].reply = r
  BY DEF R
<1> QED OBVIOUS

LEMMA BackendHistory == ASSUME HistoryAssumption, HistoryInv, History!Backend PROVE HistoryInv'
<1>1. PICK k \in DOMAIN requests :
      /\ InOrder => k = 1
      /\ requests' = History!RemoveAt(requests, k)
      /\ UNCHANGED <<mirror, panel, highlight, local, numbered, gone>>
      /\ \/ /\ table' \in History!Served(requests[k])
            /\ stage' = IF requests[k].fn = "LoadHistory"
                          THEN [stage EXCEPT !.at = "answer", !.reply = History!Reverse(table)]
                        ELSE IF requests[k].fn = "ImportHistoryEntries" THEN [stage EXCEPT !.at = "imported"]
                        ELSE stage
            /\ UNCHANGED allowance
         \/ /\ allowance.faults > 0 /\ allowance' = [allowance EXCEPT !.faults = @ - 1]
            /\ stage' = IF requests[k].fn = "LoadHistory" THEN [stage EXCEPT !.at = "failed"]
                        ELSE IF requests[k].fn = "ImportHistoryEntries"
                          THEN [stage EXCEPT !.at = "answer", !.reply = <<>>, !.tried = TRUE]
                        ELSE stage
            /\ UNCHANGED table
  BY DEF History!Backend, History!Keeps
<1> DEFINE c == requests[k]
           R == [at : Stages, reply : Seq(1..numbered), tried : BOOLEAN]
<1>2. /\ numbered \in Nat /\ table \in Seq(1..numbered) /\ c \in [fn : Verbs, ids : SUBSET Nat]
      /\ stage \in R /\ requests \in Calls
      /\ c.fn = "SaveHistoryEntry" => c.ids \subseteq (Len(OldLog) + 1)..numbered
  BY AnyCall DEF HistoryInv, HistoryTyped, Calls
<1>3. /\ requests' \in Seq([fn : Verbs, ids : SUBSET Nat])
      /\ \A i \in DOMAIN requests' : requests'[i].fn = "SaveHistoryEntry" =>
           requests'[i].ids \subseteq (Len(OldLog) + 1)..numbered
  <2>1. requests' \in Calls /\ \A i \in DOMAIN requests' : \E j \in DOMAIN requests : requests'[i] = requests[j]
    BY <1>1, <1>2, AnyServed DEF Calls
  <2>2. requests' \in Seq([fn : Verbs, ids : SUBSET Nat])
    BY <2>1 DEF Calls
  <2> QED BY <2>1, <2>2 DEF HistoryInv, HistoryTyped
<1>4. History!Reverse(table) \in Seq(1..numbered) /\ Held(History!Reverse(table)) = Held(table)
  BY <1>2, ReverseIs
<1>5. <<>> \in Seq(1..numbered) /\ {"answer", "failed", "imported"} \subseteq Stages
  BY DEF Stages
<1> HIDE DEF R
<1>6. stage' \in R
  <2> DEFINE none == <<>>
  <2>1. none \in Seq(1..numbered)
    BY <1>5
  <2> HIDE DEF none
  <2>2. /\ [stage EXCEPT !.at = "answer", !.reply = History!Reverse(table)] \in R
        /\ [stage EXCEPT !.at = "imported"] \in R /\ [stage EXCEPT !.at = "failed"] \in R
        /\ [stage EXCEPT !.at = "answer", !.reply = none, !.tried = TRUE] \in R
    BY <1>2, <1>4, <1>5, <2>1, StageIs DEF R
  <2> QED BY <1>1, <1>2, <2>2 DEF none
<1>7. CASE allowance' # allowance
  <2>1. allowance.faults > 0 /\ allowance' = [allowance EXCEPT !.faults = @ - 1] /\ table' = table
    BY <1>1, <1>7
  <2>2. /\ allowance \in [clicks : Int, faults : Int, restarts : Int] /\ allowance.faults <= HistoryFaults
        /\ HistoryFaults \in Nat
    BY DEF HistoryInv, HistoryTyped, HistoryAssumption
  <2>3. allowance' \in [clicks : Int, faults : Int, restarts : Int] /\ allowance'.faults < HistoryFaults
    BY <2>1, <2>2
  <2>4. ~Orderly'
    BY <2>2, <2>3 DEF Orderly, History!Calm
  <2>5. allowance'.faults <= HistoryFaults
    BY <2>2, <2>3
  <2> HIDE <2>1
  <2>6. table' = table
    BY <2>1
  <2>7. HistoryTyped'
    BY <1>1, <1>3, <1>6, <2>3, <2>5, <2>6 DEF HistoryInv, HistoryTyped, R
  <2> QED BY <2>4, <2>7 DEF HistoryInv
<1>8. CASE allowance' = allowance
  <2>1. /\ table' \in History!Served(c)
        /\ stage' = IF c.fn = "LoadHistory"
                      THEN [stage EXCEPT !.at = "answer", !.reply = History!Reverse(table)]
                    ELSE IF c.fn = "ImportHistoryEntries" THEN [stage EXCEPT !.at = "imported"]
                    ELSE stage
    <3>1. allowance.faults \in Int /\ allowance \in [clicks : Int, faults : Int, restarts : Int]
      BY DEF HistoryInv, HistoryTyped
    <3>2. [allowance EXCEPT !.faults = @ - 1] # allowance
      BY <3>1
    <3> QED BY <1>1, <1>8, <3>2
  <2>2. /\ table' \in Seq(1..numbered)
        /\ \A e \in Held(table') : e \in Held(table) \/ Saving(c, e)
        /\ \A e : Dropping(c, e) => e \notin Held(table')
        /\ c.fn = "LoadHistory" => table' = table
    BY <2>1, ServedIs
  <2> HIDE DEF c
  <2>3. /\ c.fn = "LoadHistory" => /\ stage'.at = "answer" /\ stage'.reply = History!Reverse(table)
                                   /\ stage'.tried = stage.tried
        /\ c.fn = "ImportHistoryEntries" => stage'.at = "imported" /\ stage'.tried = stage.tried
        /\ c.fn \notin {"LoadHistory", "ImportHistoryEntries"} => stage' = stage
    BY <1>2, <1>4, <1>5, <2>1, StageIs DEF R
  <2>4. HistoryTyped'
    BY <1>1, <1>3, <1>6, <1>8, <2>2 DEF HistoryInv, HistoryTyped, R
  <2>5. ASSUME Orderly' PROVE Smooth'
    <3>1. Smooth /\ k = 1
      BY <1>1, <1>8, <2>5 DEF HistoryInv, Orderly, History!Calm
    <3>2. requests # <<>> /\ c = requests[1] /\ requests' = Tail(requests)
      <4>1. requests # <<>> /\ c = requests[1] /\ requests' = History!RemoveAt(requests, 1)
        BY <1>1, <1>2, <3>1 DEF c
      <4> QED BY <1>2, <4>1, FirstServed
    <3>3. \A e \in gone' : Leaves(e, table', requests')
      <4> SUFFICES ASSUME NEW e \in gone PROVE Leaves(e, table', Tail(requests))
        BY <1>1, <3>2
      <4>1. Leaves(e, table, requests)
        BY <3>1 DEF Smooth
      <4> QED BY <1>2, <2>2, <3>2, <4>1, LeavesServed
    <3>4. /\ c.fn \notin {"LoadHistory", "ImportHistoryEntries"}
               => ReadFirst(stage.at, requests') /\ ImportOnce(stage.at, requests')
          /\ c.fn = "LoadHistory"
               => stage.at = "load" /\ ReadFirst("answer", requests') /\ ImportOnce("answer", requests')
          /\ c.fn = "ImportHistoryEntries"
               => stage.at = "import" /\ ReadFirst("imported", requests') /\ ImportOnce("imported", requests')
          /\ stage.at \in {"off", "load"} => c.fn \notin {"SaveHistoryEntry", "ImportHistoryEntries"}
      BY <1>2, <3>1, <3>2, AskedBefore DEF Smooth
    <3>5. CASE c.fn = "LoadHistory"
      <4>1. stage.at = "load" /\ stage'.at = "answer" /\ stage'.reply = History!Reverse(table) /\ table' = table
        BY <2>2, <2>3, <3>4, <3>5
      <4>2. ReadIsOld' /\ LegacyIsNew'
        BY <1>1, <1>4, <3>1, <4>1 DEF Smooth, ReadIsOld, LegacyIsNew
      <4> QED BY <1>1, <2>3, <3>1, <3>3, <3>4, <3>5, <4>1, <4>2 DEF Smooth
    <3>6. CASE c.fn = "ImportHistoryEntries"
      <4>1. stage.at = "import" /\ stage'.at = "imported"
        BY <2>3, <3>4, <3>6
      <4>2. ReadIsOld' /\ LegacyIsNew'
        BY <1>1, <3>1, <4>1 DEF Smooth, ReadIsOld, LegacyIsNew
      <4> QED BY <1>1, <2>3, <3>1, <3>3, <3>4, <3>6, <4>1, <4>2 DEF Smooth
    <3>7. CASE c.fn \notin {"LoadHistory", "ImportHistoryEntries"}
      <4>1. stage' = stage
        BY <2>3, <3>7
      <4>2. \A e \in Held(table') : e \in Held(table) \/ (c.fn = "SaveHistoryEntry" /\ e \notin Held(OldLog))
        <5> SUFFICES ASSUME NEW e \in Held(table'), e \notin Held(table)
                     PROVE  c.fn = "SaveHistoryEntry" /\ e \notin Held(OldLog)
          OBVIOUS
        <5>1. c.fn = "SaveHistoryEntry" /\ e \in c.ids
          BY <2>2, <3>7 DEF Saving
        <5>2. e \in (Len(OldLog) + 1)..numbered
          BY <1>2, <5>1 DEF c
        <5>3. Held(OldLog) \subseteq 1..Len(OldLog) /\ Len(OldLog) \in Nat
          BY HeldIs DEF HistoryAssumption
        <5> QED BY <1>2, <5>1, <5>2, <5>3
      <4>3. ReadIsOld' /\ LegacyIsNew'
        BY <1>1, <3>1, <3>4, <4>1, <4>2 DEF Smooth, ReadIsOld, LegacyIsNew
      <4> QED BY <1>1, <3>1, <3>3, <3>4, <3>7, <4>1, <4>3 DEF Smooth
    <3> QED BY <3>5, <3>6, <3>7
  <2> QED BY <2>4, <2>5 DEF HistoryInv
<1> QED BY <1>7, <1>8

\* The entries of an older version are a list of entries.
LEMMA LegacyListed ==
  ASSUME HistoryAssumption, HistoryInv
  PROVE  <<>> \in Seq(1..numbered) /\ OldLog \in Seq(1..numbered)
<1>1. numbered \in Nat /\ numbered >= Len(OldLog) /\ Len(OldLog) \in Nat /\ OldLog \in Seq(1..Len(OldLog))
  BY DEF HistoryAssumption, HistoryInv, HistoryTyped
<1>2. 1..Len(OldLog) \subseteq 1..numbered
  BY <1>1
<1> QED BY <1>1, <1>2, SeqMonotonic

LEMMA MergedIs ==
  ASSUME NEW S, mirror \in Seq(S), NEW entries \in Seq(S)
  PROVE  /\ History!Merged(entries) \in Seq(S)
         /\ Held(History!Merged(entries)) \subseteq Held(mirror) \cup Held(entries)
<1> DEFINE t == History!Without(mirror, Held(entries))
<1>1. t \in Seq(S) /\ Held(t) \subseteq Held(mirror)
  BY WithoutIs
<1>2. History!Merged(entries) = t \o entries
  BY DEF History!Merged, Held
<1> HIDE DEF t
<1> QED BY <1>1, <1>2, JoinIs

\* What is waited for is not asked for twice.
LEMMA NoneAsked ==
  ASSUME NEW at, NEW rs, ReadFirst(at, rs), ImportOnce(at, rs), at \notin {"load", "import"}
  PROVE  \A i \in DOMAIN rs : rs[i].fn \notin {"LoadHistory", "ImportHistoryEntries"}
BY DEF ReadFirst, ImportOnce

LEMMA LoadedHistory == ASSUME HistoryAssumption, HistoryInv, History!Loaded PROVE HistoryInv'
<1> DEFINE c == [fn |-> "ImportHistoryEntries", ids |-> {}]
           m == History!Merged(stage.reply)
<1>1. /\ stage.at = "answer" /\ UNCHANGED <<table, local, numbered, gone, allowance>>
      /\ \/ /\ stage.reply = <<>> /\ ~stage.tried /\ local.live # <<>>
            /\ stage' = [stage EXCEPT !.at = "import"] /\ requests' = Append(requests, c)
            /\ UNCHANGED <<mirror, panel, highlight>>
         \/ /\ stage' = [stage EXCEPT !.at = "done"] /\ History!Settle(m, panel, highlight) /\ UNCHANGED requests
  BY DEF History!Loaded, History!Send, History!Keeps
<1>2. /\ numbered \in Nat /\ mirror \in Seq(1..numbered) /\ requests \in Calls
      /\ stage \in [at : Stages, reply : Seq(1..numbered), tried : BOOLEAN]
      /\ panel \in Shown /\ highlight \in Nat \cup {Null}
      /\ c \in [fn : Verbs, ids : SUBSET Nat] /\ c.fn = "ImportHistoryEntries"
  BY DEF HistoryInv, HistoryTyped, Calls, Verbs
<1> HIDE DEF c
<1>3. CASE /\ stage.reply = <<>> /\ ~stage.tried /\ local.live # <<>>
           /\ stage' = [stage EXCEPT !.at = "import"] /\ requests' = Append(requests, c)
           /\ UNCHANGED <<mirror, panel, highlight>>
  <2>1. stage' \in [at : Stages, reply : Seq(1..numbered), tried : BOOLEAN] /\ stage'.at = "import"
        /\ stage'.tried = stage.tried
    <3>1. "import" \in Stages /\ stage.reply \in Seq(1..numbered)
      BY <1>2 DEF Stages
    <3> QED BY <1>2, <1>3, <3>1, StageIs
  <2>2. HistoryTyped'
    <3>1. requests' \in Seq([fn : Verbs, ids : SUBSET Nat])
      BY <1>2, <1>3, AppendIs DEF Calls
    <3>2. \A i \in DOMAIN requests' : requests'[i].fn = "SaveHistoryEntry" =>
            requests'[i].ids \subseteq (Len(OldLog) + 1)..numbered
      <4>1. \A i \in DOMAIN requests' : (i \in DOMAIN requests /\ requests'[i] = requests[i]) \/ requests'[i] = c
        BY <1>2, <1>3, AppendIs
      <4> QED BY <1>2, <4>1, AnyCall
    <3> QED BY <1>1, <1>3, <2>1, <3>1, <3>2 DEF HistoryInv, HistoryTyped
  <2>3. ASSUME Orderly' PROVE Smooth'
    <3>1. Smooth /\ local.live # <<>> /\ Held(OldLog) \cap gone = {}
      BY <1>1, <1>3, <2>3 DEF HistoryInv, Orderly, History!Calm, Smooth, LegacyIsNew
    <3>2. \A e \in gone' : Leaves(e, table', requests')
      <4> SUFFICES ASSUME NEW e \in gone PROVE Leaves(e, table, Append(requests, c))
        BY <1>1, <1>3
      <4>1. Leaves(e, table, requests) /\ ~Saving(c, e)
        BY <1>2, <3>1 DEF Smooth, Saving
      <4> QED BY <1>2, <4>1, LeavesAfter
    <3>3. \A i \in DOMAIN requests : requests[i].fn \notin {"LoadHistory", "ImportHistoryEntries"}
      BY <1>1, <3>1, NoneAsked DEF Smooth
    <3>4. \A i \in DOMAIN requests' : (i \in DOMAIN requests /\ requests'[i] = requests[i])
                                      \/ (i = Len(requests) + 1 /\ requests'[i] = c)
      BY <1>2, <1>3, AppendIs
    <3>5. ReadFirst("import", requests') /\ ImportOnce("import", requests')
      BY <1>2, <3>3, <3>4 DEF ReadFirst, ImportOnce
    <3>6. ReadIsOld' /\ LegacyIsNew'
      BY <1>1, <1>3, <2>1, <3>1 DEF Smooth, ReadIsOld, LegacyIsNew
    <3> QED BY <1>1, <1>3, <2>1, <3>1, <3>2, <3>5, <3>6 DEF Smooth
  <2> QED BY <2>2, <2>3 DEF HistoryInv
<1>4. CASE stage' = [stage EXCEPT !.at = "done"] /\ History!Settle(m, panel, highlight) /\ UNCHANGED requests
  <2>1. stage' \in [at : Stages, reply : Seq(1..numbered), tried : BOOLEAN] /\ stage'.at = "done"
        /\ stage'.tried = stage.tried /\ stage.reply \in Seq(1..numbered)
    <3>1. "done" \in Stages /\ stage.reply \in Seq(1..numbered)
      BY <1>2 DEF Stages
    <3> QED BY <1>2, <1>4, <3>1, StageIs
  <2>2. m \in Seq(1..numbered) /\ Held(m) \subseteq Held(mirror) \cup Held(stage.reply)
    BY <1>2, <2>1, MergedIs
  <2>3. mirror' = m /\ panel' \in Shown /\ highlight' \in Nat \cup {Null}
    BY <1>2, <1>4, <2>2, SettleIs
  <2> HIDE DEF m
  <2>4. HistoryTyped'
    BY <1>1, <1>4, <2>1, <2>2, <2>3 DEF HistoryInv, HistoryTyped
  <2>5. ASSUME Orderly' PROVE Smooth'
    <3>1. Smooth
      BY <1>1, <2>5 DEF HistoryInv, Orderly, History!Calm
    <3>2. \A i \in DOMAIN requests : requests[i].fn \notin {"LoadHistory", "ImportHistoryEntries"}
      BY <1>1, <3>1, NoneAsked DEF Smooth
    <3>3. ReadFirst("done", requests') /\ ImportOnce("done", requests')
      BY <1>4, <3>2 DEF ReadFirst, ImportOnce
    <3>4. ReadIsOld' /\ LegacyIsNew' /\ gone' \cap Held(mirror') = {}
      BY <1>1, <2>1, <2>2, <2>3, <3>1 DEF Smooth, ReadIsOld, LegacyIsNew
    <3> QED BY <1>1, <1>4, <2>1, <3>1, <3>3, <3>4 DEF Smooth
  <2> QED BY <2>4, <2>5 DEF HistoryInv
<1> QED BY <1>1, <1>3, <1>4

LEMMA MigratedHistory == ASSUME HistoryAssumption, HistoryInv, History!Migrated PROVE HistoryInv'
<1> DEFINE m == History!Merged(local.live)
<1>1. /\ stage.at = "imported" /\ stage' = [stage EXCEPT !.at = "done"]
      /\ local' = [live |-> <<>>, backup |-> local.live] /\ History!Settle(m, panel, highlight)
      /\ UNCHANGED <<table, requests, numbered, gone, allowance>>
  BY DEF History!Migrated
<1>2. /\ numbered \in Nat /\ mirror \in Seq(1..numbered) /\ panel \in Shown /\ highlight \in Nat \cup {Null}
      /\ stage \in [at : Stages, reply : Seq(1..numbered), tried : BOOLEAN] /\ local.live \in {<<>>, OldLog}
  BY DEF HistoryInv, HistoryTyped
<1>3. local.live \in Seq(1..numbered)
  BY <1>2, LegacyListed
<1>4. m \in Seq(1..numbered) /\ Held(m) \subseteq Held(mirror) \cup Held(local.live)
  BY <1>2, <1>3, MergedIs
<1>5. mirror' = m /\ panel' \in Shown /\ highlight' \in Nat \cup {Null}
  BY <1>1, <1>2, <1>4, SettleIs
<1> HIDE DEF m
<1>6. stage' \in [at : Stages, reply : Seq(1..numbered), tried : BOOLEAN] /\ stage'.at = "done"
      /\ stage'.tried = stage.tried
  <2>1. "done" \in Stages /\ stage.reply \in Seq(1..numbered)
    BY <1>2 DEF Stages
  <2> QED BY <1>1, <1>2, <2>1, StageIs
<1>7. HistoryTyped'
  <2>1. local' \in [live : {<<>>, OldLog}, backup : {<<>>, OldLog}]
    BY <1>1, <1>2
  <2> QED BY <1>1, <1>4, <1>5, <1>6, <2>1 DEF HistoryInv, HistoryTyped
<1>8. ASSUME Orderly' PROVE Smooth'
  <2>1. Smooth
    BY <1>1, <1>8 DEF HistoryInv, Orderly, History!Calm
  <2>2. local.live = OldLog /\ Held(OldLog) \cap gone = {}
    BY <1>1, <1>2, <2>1 DEF Smooth, LegacyIsNew
  <2>3. ReadFirst("done", requests') /\ ImportOnce("done", requests')
    <3>1. \A i \in DOMAIN requests : requests[i].fn \notin {"LoadHistory", "ImportHistoryEntries"}
      BY <1>1, <2>1, NoneAsked DEF Smooth
    <3> QED BY <1>1, <3>1 DEF ReadFirst, ImportOnce
  <2>4. ReadIsOld' /\ LegacyIsNew' /\ gone' \cap Held(mirror') = {}
    BY <1>1, <1>4, <1>5, <1>6, <2>1, <2>2 DEF Smooth, ReadIsOld, LegacyIsNew
  <2> QED BY <1>1, <1>6, <2>1, <2>3, <2>4 DEF Smooth
<1> QED BY <1>7, <1>8 DEF HistoryInv

LEMMA FallbackHistory == ASSUME HistoryAssumption, HistoryInv, History!Fallback PROVE HistoryInv'
<1> DEFINE m == IF local.live # <<>> THEN local.live ELSE local.backup
<1>1. /\ stage.at = "failed" /\ stage' = [stage EXCEPT !.at = "done"] /\ History!Settle(m, panel, highlight)
      /\ UNCHANGED <<table, local, requests, numbered, gone, allowance>>
  BY DEF History!Fallback
<1>2. /\ numbered \in Nat /\ panel \in Shown /\ highlight \in Nat \cup {Null} /\ m \in {<<>>, OldLog}
      /\ stage \in [at : Stages, reply : Seq(1..numbered), tried : BOOLEAN]
  BY DEF HistoryInv, HistoryTyped
<1>3. m \in Seq(1..numbered)
  BY <1>2, LegacyListed
<1> HIDE DEF m
<1>4. mirror' = m /\ panel' \in Shown /\ highlight' \in Nat \cup {Null}
  BY <1>1, <1>2, <1>3, SettleIs
<1>5. stage' \in [at : Stages, reply : Seq(1..numbered), tried : BOOLEAN]
  <2>1. "done" \in Stages /\ stage.reply \in Seq(1..numbered)
    BY <1>2 DEF Stages
  <2> QED BY <1>1, <1>2, <2>1, StageIs
<1>6. HistoryTyped'
  BY <1>1, <1>3, <1>4, <1>5 DEF HistoryInv, HistoryTyped
<1>7. ~Orderly'
  BY <1>1 DEF HistoryInv, Smooth, Orderly, History!Calm
<1> QED BY <1>6, <1>7 DEF HistoryInv

LEMMA RestartHistory == ASSUME HistoryAssumption, HistoryInv, History!Restart PROVE HistoryInv'
<1>1. /\ requests = <<>> /\ stage.at = "done" /\ stage' = [at |-> "off", reply |-> <<>>, tried |-> FALSE]
      /\ allowance' = [allowance EXCEPT !.restarts = @ - 1]
      /\ mirror' = <<>> /\ panel' = History!Closed /\ highlight' = Null
      /\ UNCHANGED <<table, local, requests, numbered, gone>>
  BY DEF History!Restart
<1>2. Allowed(allowance')
  <2>1. allowance \in [clicks : Int, faults : Int, restarts : Int]
    BY DEF HistoryInv, HistoryTyped
  <2> QED BY <1>1, <2>1 DEF Allowed
<1>3. panel' \in Shown
  BY <1>1 DEF Shown, History!Closed
<1>4. stage' \in [at : Stages, reply : Seq(1..numbered), tried : BOOLEAN] /\ mirror' \in Seq(1..numbered)
  BY <1>1 DEF Stages
<1>5. HistoryTyped'
  BY <1>1, <1>2, <1>3, <1>4 DEF HistoryInv, HistoryTyped, Allowed
<1>6. ASSUME Orderly' PROVE Smooth'
  <2>1. Smooth
    BY <1>2, <1>6 DEF HistoryInv, Orderly, History!Calm, Allowed
  <2>2. \A e \in gone : e \notin Held(table)
    BY <1>1, <2>1 DEF Smooth, Leaves
  <2>3. Held(mirror') = {}
    BY <1>1 DEF Held, History!ToSet
  <2>4. ReadFirst("off", requests') /\ ImportOnce("off", requests')
    BY <1>1 DEF ReadFirst, ImportOnce
  <2>5. ReadIsOld' /\ LegacyIsNew'
    BY <1>1, <2>1, <2>2, <2>3 DEF Smooth, ReadIsOld, LegacyIsNew
  <2> QED BY <1>1, <2>1, <2>3, <2>4, <2>5 DEF Smooth
<1> QED BY <1>5, <1>6 DEF HistoryInv

LEMMA StepHistory == ASSUME HistoryAssumption, HistoryInv, [History!Next]_(History!vars) PROVE HistoryInv'
<1>1. CASE History!Next
  BY <1>1, StartHistory, BackendHistory, LoadedHistory, MigratedHistory, FallbackHistory, AddHistory,
     DropsHistory, GesturesHistory, RestartHistory, Zenon DEF History!Next
<1>2. CASE UNCHANGED History!vars
  BY <1>2 DEF History!vars, HistoryInv, HistoryTyped, Orderly, History!Calm, Smooth, ReadIsOld, LegacyIsNew
<1> QED BY <1>1, <1>2

LEMMA HistoryAlways == ASSUME HistoryAssumption PROVE History!Spec => []HistoryInv
<1>1. History!Init => HistoryInv
  BY InitHistory
<1>2. HistoryInv /\ [History!Next]_(History!vars) => HistoryInv'
  BY StepHistory
<1> QED BY <1>1, <1>2, PTL DEF History!Spec

\* DeletedStaysDeleted (historyStore.js, remove, removeMany, clear): what the
\* operator deleted is not in the history again, in this session or the next,
\* as long as no call fails and calls are served in the order they are sent.
THEOREM DeletedIsGone == ASSUME HistoryAssumption, InOrder PROVE History!Spec => []History!DeletedStaysDeleted
<1>1. HistoryInv => History!DeletedStaysDeleted
  BY DEF HistoryInv, Smooth, Orderly, Held, History!DeletedStaysDeleted
<1> QED BY <1>1, HistoryAlways, PTL

-----------------------------------------------------------------------------
(* An entry that begins to flash. *)

LEMMA SettledReveals ==
  ASSUME HistoryAssumption, HistoryInv', NEW m, NEW p \in Shown, p.flash = panel.flash,
         NEW h \in Nat \cup {Null}, History!Settle(m, p, h)
  PROVE  Revealed(mirror', panel.flash, panel')
<1>1. mirror' = m
  BY DEF History!Settle
<1>2. numbered' \in Nat /\ m \in Seq(1..numbered')
  BY <1>1 DEF HistoryInv, HistoryTyped
<1> QED BY <1>1, <1>2, SettleIs

LEMMA StepReveals ==
  ASSUME HistoryAssumption, HistoryInv, HistoryInv', History!Next
  PROVE  Revealed(mirror', panel.flash, panel')
<1>1. panel \in Shown /\ highlight \in Nat \cup {Null}
  BY DEF HistoryInv, HistoryTyped
<1>2. CASE panel' = panel \/ panel' = History!Closed
  BY <1>2 DEF Revealed, History!Closed
<1>3. CASE \E m : History!Settle(m, panel, highlight)
  BY <1>1, <1>3, SettledReveals
<1>4. CASE \E m : History!Settle(m, [panel EXCEPT !.selected = {}], highlight)
  <2>1. [panel EXCEPT !.selected = {}] \in Shown /\ [panel EXCEPT !.selected = {}].flash = panel.flash
    BY <1>1 DEF Shown
  <2> QED BY <1>1, <1>4, <2>1, SettledReveals
<1>5. CASE \/ History!goToHistory \/ History!flashEnds \/ History!leave \/ History!operationFilter
           \/ History!toggleSort \/ History!turnPage \/ History!toggleSelect \/ History!toggleDiffSelection
  BY <1>5, GesturesHistory
<1>6. CASE History!init \/ History!Backend \/ History!Restart
  BY <1>2, <1>6 DEF History!init, History!Backend, History!Restart, History!Keeps
<1>7. CASE History!Loaded
  BY <1>2, <1>3, <1>7 DEF History!Loaded, History!Keeps
<1>8. CASE History!Migrated \/ History!Fallback \/ History!add \/ History!clear \/ History!remove
  BY <1>3, <1>8 DEF History!Migrated, History!Fallback, History!add, History!clear, History!remove
<1>9. CASE History!deleteSelected
  BY <1>4, <1>9 DEF History!deleteSelected
<1> QED BY <1>5, <1>6, <1>7, <1>8, <1>9, Zenon DEF History!Next

\* Reveals (HistoryPanel.svelte, revealEntry): an entry that begins to flash is
\* expanded and on the page that is shown, whatever the order, the filter and
\* the pages, and whichever calls fail.
THEOREM RevealedIsShown ==
  ASSUME HistoryAssumption PROVE History!Spec => [][History!Reveals]_(History!vars)
<1>1. HistoryInv /\ HistoryInv' /\ [History!Next]_(History!vars) => [History!Reveals]_(History!vars)
  <2> SUFFICES ASSUME HistoryInv, HistoryInv', History!Next PROVE History!Reveals
    OBVIOUS
  <2> QED BY StepReveals DEF Revealed, History!Reveals
<1> QED BY <1>1, HistoryAlways, PTL DEF History!Spec

(***************************************************************************)
(* Records.                                                                *)
(***************************************************************************)
\* A record of these fields, whatever they hold.
Has(fields, r) == r = [k \in fields |-> r[k]]

\* What has these fields is a function on them.
LEMMA HasDomain == ASSUME NEW fields, NEW r, Has(fields, r) PROVE DOMAIN r = fields
<1>1. DOMAIN [k \in fields |-> r[k]] = fields
  OBVIOUS
<1> QED BY <1>1 DEF Has

\* One field changed, the others as they were.
Changed(r, u, f, v) == u = [r EXCEPT ![f] = v]

LEMMA FieldIs ==
  ASSUME NEW fields, NEW r, Has(fields, r), NEW f \in fields, NEW v, NEW u, Changed(r, u, f, v)
  PROVE  Has(fields, u) /\ u[f] = v /\ \A k \in fields : k # f => u[k] = r[k]
<1>1. DOMAIN r = fields
  BY HasDomain
<1>2. u = [k \in fields |-> IF k = f THEN v ELSE r[k]]
  BY <1>1 DEF Changed
<1>3. Has(fields, u)
  BY <1>2 DEF Has
<1> QED BY <1>2, <1>3

(***************************************************************************)
(* The gates before a toast and a notification (TrapTail).                 *)
(***************************************************************************)
\* A gate is open for a width of its own; a timer that is not set is not a time.
TailAssumption == Width \in [Gates -> Nat] /\ Null \notin Int

TailTyped ==
  /\ gate \in [Gates -> [ends : Nat, suppressed : Nat, timer : Nat \cup {Null}]]
  /\ said \in [Gates -> [led : Nat, summed : Nat]] /\ eligible \in [Gates -> Nat] /\ wall \in Nat

\* A window without a timer is not open, and holds nothing back.
Timed(g) == g.timer = Null => g.ends = 0 /\ g.suppressed = 0

\* What was offered led a window, was summed up, or is held back.
Told(g, s, n) == s.led + s.summed + g.suppressed = n

TailInv == TailTyped /\ \A g \in Gates : Timed(gate[g]) /\ Told(gate[g], said[g], eligible[g])

LEMMA GateOffered ==
  ASSUME TailAssumption, TailInv, NEW asked, Arrivals!offer(asked), UNCHANGED wall PROVE TailInv'
<1> USE DEF TailInv, TailTyped, TailAssumption
<1>1. ASSUME NEW g \in Gates
      PROVE  /\ Arrivals!Offered(gate[g], Width[g]) \in [ends : Nat, suppressed : Nat, timer : Nat \cup {Null}]
             /\ Timed(Arrivals!Offered(gate[g], Width[g]))
             /\ IF Arrivals!Leads(gate[g])
                THEN /\ Arrivals!Offered(gate[g], Width[g]).suppressed = gate[g].suppressed
                     /\ [said[g] EXCEPT !.led = @ + 1] \in [led : Nat, summed : Nat]
                     /\ [said[g] EXCEPT !.led = @ + 1].led = said[g].led + 1
                     /\ [said[g] EXCEPT !.led = @ + 1].summed = said[g].summed
                ELSE Arrivals!Offered(gate[g], Width[g]).suppressed = gate[g].suppressed + 1
  <2>1. gate[g] \in [ends : Nat, suppressed : Nat, timer : Nat \cup {Null}]
        /\ said[g] \in [led : Nat, summed : Nat] /\ Width[g] \in Nat /\ wall \in Nat /\ Timed(gate[g])
    OBVIOUS
  <2>2. Arrivals!Leads(gate[g]) =>
          Arrivals!Offered(gate[g], Width[g]) =
            [ends |-> wall + Width[g], suppressed |-> gate[g].suppressed,
             timer |-> IF gate[g].timer = Null THEN Width[g] ELSE gate[g].timer]
    BY <2>1 DEF Arrivals!Offered, Arrivals!Leads
  <2>3. ~Arrivals!Leads(gate[g]) =>
          Arrivals!Offered(gate[g], Width[g]) =
            [ends |-> gate[g].ends, suppressed |-> gate[g].suppressed + 1, timer |-> gate[g].timer]
    BY <2>1 DEF Arrivals!Offered, Arrivals!Leads
  <2>4. [said[g] EXCEPT !.led = @ + 1] = [led |-> said[g].led + 1, summed |-> said[g].summed]
    BY <2>1
  <2> QED BY <2>1, <2>2, <2>3, <2>4 DEF Timed, Arrivals!Leads
<1>2. TailTyped'
  <2>1. ASSUME NEW g \in Gates
        PROVE  /\ gate'[g] \in [ends : Nat, suppressed : Nat, timer : Nat \cup {Null}]
               /\ said'[g] \in [led : Nat, summed : Nat] /\ eligible'[g] \in Nat
    <3>1. CASE g \in asked
      <4>1. gate'[g] = Arrivals!Offered(gate[g], Width[g]) /\ eligible'[g] = eligible[g] + 1
            /\ said'[g] = IF Arrivals!Leads(gate[g]) THEN [said[g] EXCEPT !.led = @ + 1] ELSE said[g]
        BY <3>1 DEF Arrivals!offer
      <4>2. said[g] \in [led : Nat, summed : Nat] /\ eligible[g] \in Nat
        OBVIOUS
      <4> HIDE DEF TailTyped
      <4> QED BY <1>1, <4>1, <4>2
    <3>2. CASE g \notin asked
      BY <3>2 DEF Arrivals!offer
    <3> QED BY <3>1, <3>2
  <2> QED BY <2>1 DEF Arrivals!offer
<1>3. ASSUME NEW g \in Gates PROVE Timed(gate'[g]) /\ Told(gate'[g], said'[g], eligible'[g])
  <2>1. CASE g \in asked
    <3>1. gate'[g] = Arrivals!Offered(gate[g], Width[g]) /\ eligible'[g] = eligible[g] + 1
          /\ said'[g] = IF Arrivals!Leads(gate[g]) THEN [said[g] EXCEPT !.led = @ + 1] ELSE said[g]
      BY <2>1 DEF Arrivals!offer
    <3>2. /\ said[g].led \in Nat /\ said[g].summed \in Nat /\ eligible[g] \in Nat
          /\ gate[g].suppressed \in Nat /\ Told(gate[g], said[g], eligible[g])
      OBVIOUS
    <3> HIDE DEF TailTyped
    <3> QED BY ONLY <1>1, <3>1, <3>2 DEF Told
  <2>2. CASE g \notin asked
    BY <2>2 DEF Arrivals!offer
  <2> QED BY <2>1, <2>2
<1> QED BY <1>2, <1>3

LEMMA TailEveryStep == ASSUME TailAssumption, TailInv, [Arrivals!Next]_Arrivals!vars PROVE TailInv'
<1>1. CASE UNCHANGED <<gate, said, eligible, wall>>
  BY <1>1 DEF TailInv, TailTyped
<1>2. CASE Arrivals!onSummary
  <2> USE DEF TailInv, TailTyped, TailAssumption
  <2>1. PICK h \in Gates : /\ gate' = [gate EXCEPT ![h] = Arrivals!flush(@)]
                           /\ said' = [said EXCEPT ![h].summed = @ + gate[h].suppressed]
                           /\ eligible' = eligible /\ wall' = wall
    BY <1>2 DEF Arrivals!onSummary
  <2>2. /\ Arrivals!flush(gate[h]) = [ends |-> 0, suppressed |-> 0, timer |-> Null]
        /\ [said[h] EXCEPT !.summed = @ + gate[h].suppressed]
             = [led |-> said[h].led, summed |-> said[h].summed + gate[h].suppressed]
    <3>1. gate[h] \in [ends : Nat, suppressed : Nat, timer : Nat \cup {Null}]
          /\ said[h] \in [led : Nat, summed : Nat]
      OBVIOUS
    <3>2. Arrivals!flush(gate[h]) = [ends |-> 0, suppressed |-> 0, timer |-> Null]
      <4>1. [gate[h] EXCEPT !.timer = Null] \in [ends : Nat, suppressed : Nat, timer : {Null}]
        BY ONLY <3>1
      <4>2. [[gate[h] EXCEPT !.timer = Null] EXCEPT !.suppressed = 0]
              \in [ends : Nat, suppressed : {0}, timer : {Null}]
        BY ONLY <4>1
      <4>3. Arrivals!flush(gate[h]) \in [ends : {0}, suppressed : {0}, timer : {Null}]
        BY ONLY <4>2 DEF Arrivals!flush
      <4> QED BY ONLY <4>3
    <3> DEFINE n == gate[h].suppressed
    <3>3. [said[h] EXCEPT !.summed = @ + n] = [led |-> said[h].led, summed |-> said[h].summed + n]
      BY ONLY <3>1
    <3> QED BY ONLY <3>2, <3>3
  <2>3. ASSUME NEW g \in Gates
        PROVE  /\ gate'[g] = IF g = h THEN [ends |-> 0, suppressed |-> 0, timer |-> Null] ELSE gate[g]
               /\ said'[g] = IF g = h THEN [led |-> said[h].led, summed |-> said[h].summed + gate[h].suppressed]
                                      ELSE said[g]
    BY <2>1, <2>2
  <2>4. TailTyped'
    <3>1. gate' = [g \in Gates |-> gate'[g]] /\ said' = [g \in Gates |-> said'[g]]
      BY <2>1
    <3>2. \A g \in Gates : /\ gate'[g] \in [ends : Nat, suppressed : Nat, timer : Nat \cup {Null}]
                           /\ said'[g] \in [led : Nat, summed : Nat]
      BY <2>3
    <3> QED BY <2>1, <3>1, <3>2
  <2>5. ASSUME NEW g \in Gates PROVE Timed(gate'[g]) /\ Told(gate'[g], said'[g], eligible'[g])
    BY <2>1, <2>3 DEF Timed, Told
  <2> QED BY <2>4, <2>5
<1>3. CASE Arrivals!Tick
  <2> USE DEF TailInv, TailTyped, TailAssumption
  <2>1. PICK d \in 0..2 : /\ wall' = wall + d /\ said' = said /\ eligible' = eligible
                          /\ gate' = [g \in Gates |-> IF gate[g].timer \in {Null, 0} THEN gate[g]
                                                      ELSE [gate[g] EXCEPT !.timer = @ - 1]]
    BY <1>3 DEF Arrivals!Tick
  <2>2. ASSUME NEW g \in Gates
        PROVE  /\ gate'[g] \in [ends : Nat, suppressed : Nat, timer : Nat \cup {Null}]
               /\ Timed(gate'[g]) /\ gate'[g].suppressed = gate[g].suppressed
    <3>1. gate[g] \in [ends : Nat, suppressed : Nat, timer : Nat \cup {Null}] /\ Timed(gate[g])
      OBVIOUS
    <3>2. [gate[g] EXCEPT !.timer = @ - 1]
            = [ends |-> gate[g].ends, suppressed |-> gate[g].suppressed, timer |-> gate[g].timer - 1]
      BY <3>1
    <3>3. gate'[g] = IF gate[g].timer \in {Null, 0} THEN gate[g] ELSE [gate[g] EXCEPT !.timer = @ - 1]
      BY <2>1
    <3> HIDE DEF TailTyped
    <3> QED BY <3>1, <3>2, <3>3 DEF Timed
  <2>3. TailTyped'
    BY <2>1, <2>2
  <2>4. ASSUME NEW g \in Gates PROVE Timed(gate'[g]) /\ Told(gate'[g], said'[g], eligible'[g])
    BY <2>1, <2>2 DEF Told
  <2> QED BY <2>3, <2>4
<1>4. CASE Arrivals!newTrap
  BY <1>4, GateOffered DEF Arrivals!newTrap
<1> QED BY <1>1, <1>2, <1>3, <1>4 DEF Arrivals!Next, Arrivals!vars, Arrivals!setFilter, Arrivals!handleClear,
        Arrivals!ConfirmEnds, Arrivals!setPanelVisibility, Arrivals!setWindowFocus

LEMMA TailAlways == ASSUME TailAssumption PROVE Arrivals!Spec => []TailInv
<1>1. Arrivals!Init => TailInv
  BY DEF Arrivals!Init, TailInv, TailTyped, Timed, Told
<1>2. TailInv /\ [Arrivals!Next]_Arrivals!vars => TailInv'
  BY TailEveryStep
<1> QED BY <1>1, <1>2, PTL DEF Arrivals!Spec

\* No notification is passed over in silence: what a gate holds back has a timer
\* that will say it, or has been summed up (burst.js).
THEOREM HeldBackIsSaid == ASSUME TailAssumption PROVE Arrivals!Spec => []Arrivals!TailReported
<1>1. ASSUME TailAssumption, TailInv PROVE Arrivals!TailReported
  BY <1>1 DEF TailInv, TailTyped, Timed, Told, Arrivals!TailReported
<1> QED BY <1>1, TailAlways, PTL

(***************************************************************************)
(* The Monitor tab: histories and choices of view (MonitorView).           *)
(***************************************************************************)
LoadFields == {"loading", "raw", "buckets", "info"}

\* One load at a time, which the lists are emptied for; then what was found.
OneKind(h) ==
  /\ Has(LoadFields, h) /\ h.loading \in {{}, {"raw"}, {"buckets"}}
  /\ h.loading # {} => ~h.raw /\ ~h.buckets
  /\ ~(h.raw /\ h.buckets)
  /\ h.raw => h.info = "raw"
  /\ h.buckets => h.info = "buckets"

\* A view that was chosen is one the panel has settled before.
Settled(x) == Has({"mode", "auto", "chosen", "extra"}, x) /\ (x.chosen => x.auto)
Kept(s)    == Has({"form", "view"}, s) /\ \A id \in DOMAIN s.view : Settled(s.view[id])

PanelInv ==
  /\ \A id \in DOMAIN history : OneKind(history[id])
  /\ Kept(store) /\ Kept(blob) /\ presses \in Nat

LEMMA NoLoadIsOne == OneKind(Panel!NoLoad)
<1>1. Panel!NoLoad = [k \in LoadFields |-> Panel!NoLoad[k]]
  BY DEF Panel!NoLoad, LoadFields
<1>2. Panel!NoLoad.loading = {} /\ ~Panel!NoLoad.raw /\ ~Panel!NoLoad.buckets
  BY DEF Panel!NoLoad
<1> QED BY <1>1, <1>2 DEF OneKind, Has

\* The lists are emptied, and a load begins.
LEMMA LoadBegins ==
  ASSUME NEW h, OneKind(h), Panel!LoadButton(h), NEW kind \in {"raw", "buckets"},
         NEW a, Changed(h, a, "loading", h.loading \cup {kind}),
         NEW no, no = FALSE, NEW b, Changed(a, b, "raw", no), NEW c, Changed(b, c, "buckets", no)
  PROVE  OneKind(c)
<1>1. Has(LoadFields, h) /\ h.loading = {}
  BY DEF OneKind, Panel!LoadButton
<1>2. Has(LoadFields, a) /\ a.loading = h.loading \cup {kind}
  BY <1>1, FieldIs DEF LoadFields
<1>3. Has(LoadFields, b) /\ b.loading = a.loading /\ b.raw = no
  BY <1>2, FieldIs DEF LoadFields
<1>4. Has(LoadFields, c) /\ c.loading = b.loading /\ c.raw = b.raw /\ c.buckets = no
  BY <1>3, FieldIs DEF LoadFields
<1>5. c.loading = {kind}
  BY <1>1, <1>2, <1>3, <1>4
<1> QED BY <1>3, <1>4, <1>5 DEF OneKind

\* It ends, with something found or without.
LEMMA LoadEnds ==
  ASSUME NEW h, OneKind(h), NEW kind \in h.loading, NEW a, Changed(h, a, "loading", h.loading \ {kind}),
         NEW yes, yes = TRUE
  PROVE  /\ OneKind(a)
         /\ \A b, c : kind = "raw" /\ Changed(a, b, "raw", yes) /\ Changed(b, c, "info", kind) => OneKind(c)
         /\ \A b, c : kind # "raw" /\ Changed(a, b, "buckets", yes) /\ Changed(b, c, "info", kind) => OneKind(c)
<1>1. Has(LoadFields, h) /\ h.loading = {kind} /\ kind \in {"raw", "buckets"} /\ ~h.raw /\ ~h.buckets
  BY DEF OneKind
<1>2. /\ Has(LoadFields, a) /\ a.loading = h.loading \ {kind} /\ a.raw = h.raw /\ a.buckets = h.buckets
  BY <1>1, FieldIs DEF LoadFields
<1>3. a.loading = {} /\ ~a.raw /\ ~a.buckets
  BY <1>1, <1>2
<1>4. ASSUME NEW b, NEW c, NEW f \in {"raw", "buckets"}, kind = f,
             Changed(a, b, f, yes), Changed(b, c, "info", kind)
      PROVE  OneKind(c)
  <2>1. Has(LoadFields, b) /\ b[f] = yes /\ \A k \in LoadFields : k # f => b[k] = a[k]
    <3>1. f \in LoadFields /\ Has(LoadFields, a) /\ Changed(a, b, f, yes)
      BY <1>2, <1>4 DEF LoadFields
    <3> QED BY ONLY <3>1, FieldIs
  <2>2. Has(LoadFields, c) /\ c.info = kind /\ \A k \in LoadFields : k # "info" => c[k] = b[k]
    BY <1>4, <2>1, FieldIs DEF LoadFields
  <2>3. c.loading = {} /\ c.raw = b.raw /\ c.buckets = b.buckets
    BY <1>3, <1>4, <2>1, <2>2 DEF LoadFields
  <2>4. (f = "raw" => b.raw /\ ~b.buckets) /\ (f = "buckets" => b.buckets /\ ~b.raw)
    BY <1>3, <1>4, <2>1 DEF LoadFields
  <2> QED BY <1>4, <2>2, <2>3, <2>4 DEF OneKind
<1>5. OneKind(a)
  BY <1>2, <1>3 DEF OneKind
<1> QED BY <1>1, <1>4, <1>5

\* One entry of a function of histories put anew.
Entry(f, g, id, h) == g = [f EXCEPT ![id] = h]

LEMMA EntryIs ==
  ASSUME NEW f, NEW g, NEW id, NEW h, Entry(f, g, id, h), OneKind(h), \A j \in DOMAIN f : OneKind(f[j])
  PROVE  \A j \in DOMAIN g : OneKind(g[j])
BY DEF Entry

LEMMA HistoryStays ==
  ASSUME PanelInv, [Panel!Next]_Panel!vars PROVE \A id \in DOMAIN history' : OneKind(history'[id])
<1>1. \A id \in DOMAIN history : OneKind(history[id])
  BY DEF PanelInv
<1>2. CASE UNCHANGED history
  BY <1>1, <1>2
<1>3. CASE history' = [id \in DOMAIN history |-> Panel!NoLoad]
  BY <1>3, NoLoadIsOne
<1>4. CASE Panel!SessionCreated
  <2>1. PICK id : history' = Panel!With(history, id, Panel!NoLoad)
    BY <1>4 DEF Panel!SessionCreated
  <2> QED BY <1>1, <2>1, NoLoadIsOne DEF Panel!With
<1>5. CASE Panel!loadHistorical
  <2>1. PICK id \in DOMAIN sessions, kind \in {"raw", "buckets"} :
          /\ Panel!LoadButton(history[id])
          /\ history' = [history EXCEPT ![id].loading = @ \cup {kind}, ![id].raw = FALSE, ![id].buckets = FALSE]
    BY <1>5 DEF Panel!loadHistorical
  <2>2. CASE id \notin DOMAIN history
    <3>1. history' = [j \in DOMAIN history |-> history[j]]
      BY <2>1, <2>2
    <3> QED BY <1>1, <3>1
  <2>3. CASE id \in DOMAIN history
    <3>0. PICK no : no = FALSE
      OBVIOUS
    <3> DEFINE h == history[id]
               a == [h EXCEPT !.loading = h.loading \cup {kind}]
               b == [a EXCEPT !.raw = FALSE]
               c == [b EXCEPT !.buckets = FALSE]
    <3>1. Changed(h, a, "loading", h.loading \cup {kind}) /\ Changed(a, b, "raw", no)
          /\ Changed(b, c, "buckets", no)
      BY <3>0 DEF Changed
    <3>2. history'[id] = c /\ DOMAIN history' = DOMAIN history
          /\ \A j \in DOMAIN history : j # id => history'[j] = history[j]
      BY <2>1, <2>3
    <3>3. OneKind(h) /\ Panel!LoadButton(h)
      BY <1>1, <2>1, <2>3
    <3> HIDE DEF h, a, b, c
    <3>4. OneKind(c)
      BY ONLY <3>0, <3>1, <3>3, LoadBegins
    <3> QED BY <1>1, <3>2, <3>4
  <2> QED BY <2>2, <2>3
<1>6. CASE Panel!HistoryAnswered
  <2>0. PICK id \in DOMAIN history : \E kind \in history[id].loading, found \in BOOLEAN :
          history' = [history EXCEPT ![id] =
             IF ~found THEN [history[id] EXCEPT !.loading = @ \ {kind}]
             ELSE IF kind = "raw" THEN [[history[id] EXCEPT !.loading = @ \ {kind}] EXCEPT !.raw = TRUE, !.info = kind]
             ELSE [[history[id] EXCEPT !.loading = @ \ {kind}] EXCEPT !.buckets = TRUE, !.info = kind]]
    BY <1>6 DEF Panel!HistoryAnswered
  <2>1. PICK kind \in history[id].loading, found \in BOOLEAN :
          history' = [history EXCEPT ![id] =
             IF ~found THEN [history[id] EXCEPT !.loading = @ \ {kind}]
             ELSE IF kind = "raw" THEN [[history[id] EXCEPT !.loading = @ \ {kind}] EXCEPT !.raw = TRUE, !.info = kind]
             ELSE [[history[id] EXCEPT !.loading = @ \ {kind}] EXCEPT !.buckets = TRUE, !.info = kind]]
    BY <2>0
  <2>7. PICK yes : yes = TRUE
    OBVIOUS
  <2> DEFINE h == history[id]
             a == [h EXCEPT !.loading = h.loading \ {kind}]
             b == [a EXCEPT !.raw = TRUE]
             c == [b EXCEPT !.info = kind]
             d == [a EXCEPT !.buckets = TRUE]
             e == [d EXCEPT !.info = kind]
             n == IF ~found THEN a ELSE IF kind = "raw" THEN c ELSE e
  <2>2. /\ Changed(h, a, "loading", h.loading \ {kind})
        /\ Changed(a, b, "raw", yes) /\ Changed(b, c, "info", kind)
        /\ Changed(a, d, "buckets", yes) /\ Changed(d, e, "info", kind)
    BY <2>7 DEF Changed
  <2>3. Entry(history, history', id, n)
    BY <2>1 DEF Entry
  <2>4. OneKind(h) /\ kind \in h.loading
    BY <1>1, <2>1
  <2>5. n = a \/ (kind = "raw" /\ n = c) \/ (kind # "raw" /\ n = e)
    OBVIOUS
  <2> HIDE DEF h, a, b, c, d, e, n
  <2>6. OneKind(n)
    BY ONLY <2>2, <2>4, <2>5, <2>7, LoadEnds
  <2> QED BY <1>1, <2>3, <2>6, EntryIs
<1>7. CASE Panel!clearHistorical
  <2>1. PICK id \in DOMAIN sessions :
          history' = [history EXCEPT ![id] = [Panel!NoLoad EXCEPT !.loading = history[id].loading]]
    BY <1>7 DEF Panel!clearHistorical
  <2>2. CASE id \notin DOMAIN history
    <3>1. history' = [j \in DOMAIN history |-> history[j]]
      BY <2>1, <2>2
    <3> QED BY <1>1, <3>1
  <2>3. CASE id \in DOMAIN history
    <3> DEFINE c == [Panel!NoLoad EXCEPT !.loading = history[id].loading]
    <3>1. Changed(Panel!NoLoad, c, "loading", history[id].loading) /\ Entry(history, history', id, c)
      BY <2>1 DEF Changed, Entry
    <3>2. Has(LoadFields, Panel!NoLoad) /\ ~Panel!NoLoad.raw /\ ~Panel!NoLoad.buckets
      BY NoLoadIsOne DEF OneKind, Panel!NoLoad
    <3>3. history[id].loading \in {{}, {"raw"}, {"buckets"}}
      BY <1>1, <2>3 DEF OneKind
    <3> HIDE DEF c
    <3>4. Has(LoadFields, c) /\ c.loading = history[id].loading /\ c.raw = Panel!NoLoad.raw
          /\ c.buckets = Panel!NoLoad.buckets
      BY <3>1, <3>2, FieldIs DEF LoadFields
    <3>5. OneKind(c)
      BY <3>2, <3>3, <3>4 DEF OneKind
    <3> QED BY <1>1, <3>1, <3>5, EntryIs
  <2> QED BY <2>2, <2>3
<1> QED BY <1>2, <1>3, <1>4, <1>5, <1>6, <1>7 DEF Panel!Next, Panel!vars, Panel!SetForm, Panel!typeOid, Panel!typeBand,
        Panel!addOid, Panel!removeOid, Panel!toggleTarget, Panel!setAllTargets, Panel!handleStartPolling,
        Panel!StartAnswered, Panel!Sample, Panel!setViewMode, Panel!toggleLatency, Panel!handleRemove,
        Panel!LeaveTab, Panel!EnterTab, Panel!Persist, Panel!Restart

\* What is known of a view and of a session without one.
LEMMA ViewTurns ==
  ASSUME NEW v, \A i \in DOMAIN v : Settled(v[i]), NEW id
  PROVE  Settled(Panel!ViewOf(v, id)) /\ (id \in DOMAIN v => Panel!ViewOf(v, id) = v[id])
<1>1. Panel!Fresh = [k \in {"mode", "auto", "chosen", "extra"} |-> Panel!Fresh[k]] /\ ~Panel!Fresh.chosen
  BY DEF Panel!Fresh
<1> QED BY <1>1 DEF Panel!ViewOf, Settled, Has

\* Neither a mode, nor a preference, nor that it is settled, unsettles a view.
LEMMA SettledStays ==
  ASSUME NEW x, Settled(x), NEW v, NEW f \in {"mode", "auto", "chosen", "extra"}, NEW y, Changed(x, y, f, v),
         f = "auto" => v, f = "chosen" => v = x.auto \/ ~v
  PROVE  Settled(y)
<1>1. Has({"mode", "auto", "chosen", "extra"}, x) /\ (x.chosen => x.auto)
  BY DEF Settled
<1>2. Has({"mode", "auto", "chosen", "extra"}, y) /\ y[f] = v
      /\ \A k \in {"mode", "auto", "chosen", "extra"} : k # f => y[k] = x[k]
  BY ONLY <1>1, FieldIs, f \in {"mode", "auto", "chosen", "extra"}, Changed(x, y, f, v)
<1>3. y.chosen => y.auto
  BY <1>1, <1>2
<1> QED BY <1>2, <1>3 DEF Settled

\* A type that is told settles the view of its session, and touches no other one.
LEMMA ModesSettled ==
  ASSUME NEW v, \A i \in DOMAIN v : Settled(v[i]), NEW typed
  PROVE  \A id \in DOMAIN Panel!AutoModes(v, typed) :
           /\ Settled(Panel!AutoModes(v, typed)[id])
           /\ id \in DOMAIN v /\ v[id].auto => Panel!AutoModes(v, typed)[id] = v[id]
<1> DEFINE first == {id \in DOMAIN typed : typed[id] # Null /\ ~Panel!ViewOf(v, id).auto}
           m(id) == LET x == Panel!ViewOf(v, id)
                    IN IF typed[id] = "counter" /\ x.mode = "raw" THEN "rate" ELSE x.mode
           a(id) == [Panel!ViewOf(v, id) EXCEPT !.auto = TRUE]
           b(id) == [a(id) EXCEPT !.mode = m(id)]
<1>1. Panel!AutoModes(v, typed) = [id \in DOMAIN v \cup first |-> IF id \notin first THEN Panel!ViewOf(v, id) ELSE b(id)]
  <2>1. \A id : a(id).mode = Panel!ViewOf(v, id).mode
    <3> TAKE id
    <3>1. "mode" \in DOMAIN Panel!ViewOf(v, id)
      BY ViewTurns, HasDomain DEF Settled
    <3> QED BY <3>1
  <2> QED BY <2>1 DEF Panel!AutoModes
<1>2. SUFFICES ASSUME NEW id \in DOMAIN v \cup first
               PROVE  /\ Settled(IF id \notin first THEN Panel!ViewOf(v, id) ELSE b(id))
                      /\ id \in DOMAIN v /\ v[id].auto => id \notin first
  BY <1>1, ViewTurns
<1>3. Settled(b(id))
  <2>0. PICK yes : yes = TRUE
    OBVIOUS
  <2> DEFINE x == Panel!ViewOf(v, id)
             p == a(id)
             q == b(id)
             w == m(id)
  <2>1. Changed(x, p, "auto", yes) /\ Changed(p, q, "mode", w)
    BY <2>0 DEF Changed
  <2>2. Settled(x)
    BY ViewTurns
  <2> HIDE DEF x, p, q, w
  <2>3. Settled(p)
    BY ONLY <2>0, <2>1, <2>2, SettledStays
  <2>4. Settled(q)
    BY ONLY <2>1, <2>3, SettledStays
  <2> QED BY <2>4 DEF q
<1> QED BY <1>3, ViewTurns

\* A store whose views are put anew, and one whose form is.
LEMMA ViewsPut ==
  ASSUME NEW s, Kept(s), NEW v, NEW f \in {"form", "view"}, NEW t, Changed(s, t, f, v)
  PROVE  /\ f = "view" /\ (\A id \in DOMAIN v : Settled(v[id])) => Kept(t) /\ t.view = v
         /\ f = "form" => Kept(t) /\ t.view = s.view
<1>1. Has({"form", "view"}, t) /\ t[f] = v /\ \A k \in {"form", "view"} : k # f => t[k] = s[k]
  <2>1. Has({"form", "view"}, s)
    BY DEF Kept
  <2> QED BY ONLY <2>1, FieldIs, f \in {"form", "view"}, Changed(s, t, f, v)
<1> QED BY <1>1 DEF Kept

\* One view put, in the views there are.
LEMMA ViewPut ==
  ASSUME NEW v, \A i \in DOMAIN v : Settled(v[i]), NEW id, NEW x, Settled(x)
  PROVE  \A i \in DOMAIN Panel!With(v, id, x) : Settled(Panel!With(v, id, x)[i])
BY DEF Panel!With

\* The choices that stand when nobody clicks.
Stands(v, w, made) == \A id \in DOMAIN v \cap DOMAIN w : v[id].chosen /\ id \notin made => w[id].mode = v[id].mode

LEMMA ViewsStay ==
  ASSUME PanelInv, [Panel!Next]_Panel!vars
  PROVE  /\ Kept(store') /\ Kept(blob') /\ presses' \in Nat
         /\ presses' = presses => Stands(store.view, store'.view, IF starting = Null THEN {} ELSE starting.made)
<1> USE DEF Panel!view, Panel!form
<1>1. /\ Kept(store) /\ Kept(blob) /\ presses \in Nat
      /\ \A i \in DOMAIN store.view : Settled(store.view[i]) /\ (store.view[i].chosen => store.view[i].auto)
  BY DEF PanelInv, Kept, Settled
<1>2. CASE UNCHANGED <<store, blob>> /\ (Panel!Click \/ UNCHANGED presses)
  BY <1>1, <1>2 DEF Panel!Click, Stands
<1>3. ASSUME NEW f, Panel!SetForm(f), Panel!Click
      PROVE  Kept(store') /\ Kept(blob') /\ presses' = presses + 1
  <2>1. Changed(store, store', "form", f) /\ blob' = blob /\ presses' = presses + 1
    BY <1>3 DEF Panel!SetForm, Changed, Panel!Click
  <2> QED BY <1>1, <2>1, ViewsPut
<1>4. CASE Panel!typeOid \/ Panel!typeBand \/ Panel!addOid \/ Panel!removeOid \/ Panel!toggleTarget \/ Panel!setAllTargets
  <2>1. \E f : Panel!SetForm(f) /\ Panel!Click
    BY <1>4 DEF Panel!typeOid, Panel!typeBand, Panel!addOid, Panel!removeOid, Panel!toggleTarget, Panel!setAllTargets
  <2> QED BY <1>1, <1>3, <2>1
<1>5. ASSUME NEW v, Changed(store, store', "view", v), \A i \in DOMAIN v : Settled(v[i]), blob' = blob
      PROVE  Kept(store') /\ Kept(blob') /\ store'.view = v
  BY <1>1, <1>5, ViewsPut
<1>6. CASE Panel!StartAnswered
  <2>0. starting # Null /\ presses' = presses /\ blob' = blob
    BY <1>6 DEF Panel!StartAnswered
  <2> DEFINE x(id) == Panel!ViewOf(store.view, id)
             y(id) == [x(id) EXCEPT !.mode = "raw"]
             v == [id \in DOMAIN store.view \cup starting.made |->
                     IF id \in starting.made THEN y(id) ELSE store.view[id]]
  <2>1. CASE ~mounted
    BY <1>1, <1>6, <2>1 DEF Panel!StartAnswered, Stands
  <2>2. CASE mounted
    <3>1. Changed(store, store', "view", v)
      BY <1>6, <2>2 DEF Panel!StartAnswered, Changed
    <3>2. ASSUME NEW id PROVE Settled(y(id))
      <4> DEFINE p == x(id)
                 q == y(id)
      <4>1. Changed(p, q, "mode", "raw")
        BY DEF Changed
      <4>2. Settled(p)
        BY <1>1, ViewTurns
      <4> HIDE DEF p, q
      <4>3. Settled(q)
        BY ONLY <4>1, <4>2, SettledStays
      <4> QED BY <4>3 DEF q
    <3>3. \A id \in DOMAIN v : Settled(v[id])
      BY <1>1, <3>2
    <3>4. \A id \in DOMAIN store.view \cap DOMAIN v : id \notin starting.made => v[id] = store.view[id]
      OBVIOUS
    <3> HIDE DEF v
    <3>5. Kept(store') /\ Kept(blob') /\ store'.view = v
      BY <1>5, <2>0, <3>1, <3>3
    <3> QED BY <1>1, <2>0, <3>4, <3>5 DEF Stands
  <2> QED BY <2>1, <2>2
<1>7. ASSUME NEW typed, NEW v, v = Panel!AutoModes(store.view, typed)
      PROVE  (\A i \in DOMAIN v : Settled(v[i])) /\ \A made : Stands(store.view, v, made)
  BY <1>1, <1>7, ModesSettled DEF Stands
<1>8. CASE Panel!Sample
  <2>0. presses' = presses /\ blob' = blob
    BY <1>8 DEF Panel!Sample
  <2>1. CASE ~mounted
    BY <1>1, <1>8, <2>1 DEF Panel!Sample, Stands
  <2>2. CASE mounted
    <3> DEFINE v == Panel!AutoModes(store.view, sessions')
    <3>1. Changed(store, store', "view", v)
      BY <1>8, <2>2 DEF Panel!Sample, Changed
    <3>2. (\A i \in DOMAIN v : Settled(v[i])) /\ \A made : Stands(store.view, v, made)
      BY <1>7
    <3> HIDE DEF v
    <3>3. Kept(store') /\ Kept(blob') /\ store'.view = v
      BY <1>5, <2>0, <3>1, <3>2
    <3> QED BY <1>1, <2>0, <3>2, <3>3
  <2> QED BY <2>1, <2>2
<1>9. CASE Panel!EnterTab
  <2> DEFINE v == Panel!AutoModes(store.view, sessions)
             f == [store.form EXCEPT !.bands = Panel!Copied(@)]
  <2>1. store' = [form |-> f, view |-> v] /\ blob' = blob /\ presses' = presses
    BY <1>9 DEF Panel!EnterTab
  <2>2. (\A i \in DOMAIN v : Settled(v[i])) /\ \A made : Stands(store.view, v, made)
    BY <1>7
  <2> HIDE DEF v, f
  <2>3. store' = [k \in {"form", "view"} |-> store'[k]] /\ store'.view = v
    BY <2>1
  <2> QED BY <1>1, <2>1, <2>2, <2>3 DEF Kept, Has
<1>10. CASE Panel!setViewMode
  <2>1. PICK id \in DOMAIN sessions, m \in Panel!Modes :
          /\ Panel!Click /\ blob' = blob
          /\ store' = [store EXCEPT !.view = Panel!With(store.view, id,
                         [Panel!ViewOf(store.view, id) EXCEPT !.mode = m, !.chosen = Panel!ViewOf(store.view, id).auto])]
    BY <1>10 DEF Panel!setViewMode
  <2> DEFINE x == Panel!ViewOf(store.view, id)
             w == x.auto
             p == [x EXCEPT !.mode = m]
             q == [p EXCEPT !.chosen = w]
             v == Panel!With(store.view, id, q)
  <2>2. Changed(x, p, "mode", m) /\ Changed(p, q, "chosen", w) /\ Changed(store, store', "view", v)
    BY <2>1 DEF Changed
  <2>3. Settled(x) /\ w = x.auto
    BY <1>1, ViewTurns
  <2>4. p.auto = w
    <3>1. "auto" \in DOMAIN x
      BY <2>3, HasDomain DEF Settled
    <3> QED BY <3>1
  <2> HIDE DEF x, w, p, q
  <2>5. Settled(p)
    BY ONLY <2>2, <2>3, SettledStays
  <2>6. Settled(q)
    BY ONLY <2>2, <2>4, <2>5, SettledStays
  <2>7. \A i \in DOMAIN v : Settled(v[i])
    BY <1>1, <2>6, ViewPut
  <2> HIDE DEF v
  <2> QED BY <1>1, <1>5, <2>1, <2>2, <2>7 DEF Panel!Click
<1>11. CASE Panel!toggleLatency
  <2>1. PICK id \in DOMAIN sessions :
          /\ Panel!Click /\ blob' = blob
          /\ store' = [store EXCEPT !.view = Panel!With(store.view, id, [Panel!ViewOf(store.view, id) EXCEPT !.extra = ~@])]
    BY <1>11 DEF Panel!toggleLatency
  <2> DEFINE x == Panel!ViewOf(store.view, id)
             w == ~x.extra
             q == [x EXCEPT !.extra = w]
             v == Panel!With(store.view, id, q)
  <2>2. Changed(x, q, "extra", w) /\ Changed(store, store', "view", v)
    BY <2>1 DEF Changed
  <2>3. Settled(x)
    BY <1>1, ViewTurns
  <2> HIDE DEF x, w, q
  <2>4. Settled(q)
    BY ONLY <2>2, <2>3, SettledStays
  <2>5. \A i \in DOMAIN v : Settled(v[i])
    BY <1>1, <2>4, ViewPut
  <2> HIDE DEF v
  <2> QED BY <1>1, <1>5, <2>1, <2>2, <2>5 DEF Panel!Click
<1>12. CASE Panel!handleRemove
  <2>1. PICK id \in DOMAIN sessions :
          /\ Panel!Click /\ blob' = blob
          /\ LET x == Panel!ViewOf(store.view, id)
             IN store' = [store EXCEPT !.view =
                  IF x.extra \/ x.auto THEN Panel!With(store.view, id, [x EXCEPT !.mode = "raw", !.chosen = FALSE])
                  ELSE [i \in DOMAIN store.view \ {id} |-> store.view[i]]]
    BY <1>12 DEF Panel!handleRemove
  <2>0. PICK no : no = FALSE
    OBVIOUS
  <2> DEFINE x == Panel!ViewOf(store.view, id)
             p == [x EXCEPT !.mode = "raw"]
             q == [p EXCEPT !.chosen = FALSE]
             v == IF x.extra \/ x.auto THEN Panel!With(store.view, id, q)
                  ELSE [i \in DOMAIN store.view \ {id} |-> store.view[i]]
  <2>2. Changed(x, p, "mode", "raw") /\ Changed(p, q, "chosen", no) /\ Changed(store, store', "view", v)
    BY <2>0, <2>1 DEF Changed
  <2>3. Settled(x)
    BY <1>1, ViewTurns
  <2> HIDE DEF x, p, q
  <2>4. Settled(p)
    BY ONLY <2>2, <2>3, SettledStays
  <2>5. Settled(q)
    BY ONLY <2>0, <2>2, <2>4, SettledStays
  <2>6. \A i \in DOMAIN v : Settled(v[i])
    BY <1>1, <2>5, ViewPut
  <2> HIDE DEF v
  <2>7. blob' = blob /\ presses' = presses + 1
    BY <2>1 DEF Panel!Click
  <2>8. Changed(store, store', "view", v)
    BY <2>2
  <2>9. Kept(store') /\ Kept(blob')
    BY ONLY <1>5, <2>6, <2>7, <2>8
  <2> QED BY <1>1, <2>7, <2>9
<1>13. CASE Panel!Persist
  BY <1>1, <1>13 DEF Panel!Persist, Stands
<1>14. CASE Panel!Restart
  BY <1>1, <1>14 DEF Panel!Restart, Panel!Click
<1> QED BY <1>2, <1>4, <1>6, <1>8, <1>9, <1>10, <1>11, <1>12, <1>13, <1>14 DEF Panel!Next, Panel!vars,
        Panel!handleStartPolling, Panel!SessionCreated, Panel!loadHistorical, Panel!HistoryAnswered,
        Panel!clearHistorical, Panel!LeaveTab

LEMMA PanelAlways == Panel!Spec => []PanelInv
<1>1. Panel!Init => PanelInv
  <2> SUFFICES ASSUME Panel!Init PROVE PanelInv
    OBVIOUS
  <2>1. \A id \in DOMAIN history : OneKind(history[id])
    BY NoLoadIsOne DEF Panel!Init
  <2>2. store = [k \in {"form", "view"} |-> store[k]] /\ store.view = <<>> /\ blob = store /\ presses \in Nat
    BY DEF Panel!Init
  <2>3. Kept(store)
    BY <2>2 DEF Kept, Has
  <2> QED BY <2>1, <2>2, <2>3 DEF PanelInv
<1>2. PanelInv /\ [Panel!Next]_Panel!vars => PanelInv'
  BY HistoryStays, ViewsStay DEF PanelInv
<1> QED BY <1>1, <1>2, PTL DEF Panel!Spec

\* The history that is drawn is of one kind, the one the header names, for any
\* sessions, loads and answers (loadHistorical, MonitorPanel.svelte).
THEOREM OneKindIsDrawn == Panel!Spec => []Panel!HistoryIsOneKind
<1>1. PanelInv => Panel!HistoryIsOneKind
  BY DEF PanelInv, OneKind, Panel!HistoryIsOneKind, Panel!Drawn
<1> QED BY <1>1, PanelAlways, PTL

\* A view that was chosen stays as it was chosen until it is clicked again,
\* through types told late, the tab left and entered, and restarts
\* (MonitorPanel.svelte).
THEOREM ChosenStands == Panel!Spec => [][Panel!FightsNoChoice]_Panel!vars
<1>1. ASSUME PanelInv, [Panel!Next]_Panel!vars PROVE [Panel!FightsNoChoice]_Panel!vars
  BY <1>1, ViewsStay DEF Stands, Panel!FightsNoChoice, Panel!view
<1> QED BY <1>1, PanelAlways, PTL DEF Panel!Spec

(***************************************************************************)
(* The charts of a session and the window they share (ChartWindows).       *)
(***************************************************************************)
\* A range and a gesture are told from none.
RangesAssumption ==
  /\ Null \notin Ranges
  /\ \A c, x : /\ [source |-> c, live |-> FALSE, range |-> x] # Null
               /\ [source |-> c, live |-> TRUE, windowMs |-> x] # Null

ChartFields == {"built", "follow", "windowMs", "pin"}

\* What is placed is a chart; a session has a last gesture or none.
Drawable(f) ==
  /\ f = [c \in Charts!Charts |-> f[c]]
  /\ \A c \in Charts!Charts : f[c] # Null => Has(ChartFields, f[c])

ChartsInv == Drawable(chart) /\ DOMAIN chartSync = Sessions

\* A pin put where the chart follows, and nothing else.
LEMMA WindowApplied ==
  ASSUME NEW x, Has(ChartFields, x), NEW last
  PROVE  /\ Has(ChartFields, Charts!applyWindow(x, last))
         /\ Charts!applyWindow(x, last).built = x.built /\ Charts!applyWindow(x, last).follow = x.follow
         /\ Charts!applyWindow(x, last).windowMs = x.windowMs
         /\ Charts!applyWindow(x, last).pin =
              IF ~x.follow THEN x.pin
              ELSE IF x.windowMs = 0 THEN Null ELSE [min |-> last - x.windowMs, max |-> last]
<1> DEFINE p == IF x.windowMs = 0 THEN Null ELSE [min |-> last - x.windowMs, max |-> last]
           y == [x EXCEPT !.pin = p]
<1>1. Charts!applyWindow(x, last) = IF ~x.follow THEN x ELSE y
  BY DEF Charts!applyWindow
<1>2. Changed(x, y, "pin", p)
  BY DEF Changed
<1> HIDE DEF p, y
<1>3. Has(ChartFields, y) /\ y.pin = p /\ \A k \in ChartFields : k # "pin" => y[k] = x[k]
  <2>1. "pin" \in ChartFields
    BY DEF ChartFields
  <2> QED BY ONLY <1>2, <2>1, FieldIs, Has(ChartFields, x)
<1> QED BY <1>1, <1>3 DEF ChartFields, p

\* One field of a chart put anew.
LEMMA FieldPut ==
  ASSUME NEW x, Has(ChartFields, x), NEW f \in ChartFields, NEW v
  PROVE  /\ Has(ChartFields, [x EXCEPT ![f] = v]) /\ [x EXCEPT ![f] = v][f] = v
         /\ \A k \in ChartFields : k # f => [x EXCEPT ![f] = v][k] = x[k]
<1> DEFINE y == [x EXCEPT ![f] = v]
<1>1. Changed(x, y, f, v)
  BY DEF Changed
<1> HIDE DEF y
<1>2. Has(ChartFields, y) /\ y[f] = v /\ \A k \in ChartFields : k # f => y[k] = x[k]
  BY ONLY <1>1, FieldIs, f \in ChartFields, Has(ChartFields, x)
<1> QED BY <1>2 DEF y

\* A chart that is made to follow follows, and is where its width and the last
\* sample put it if it is drawn.
Follows(y, x, ms, last) ==
  /\ Has(ChartFields, y) /\ y.follow /\ y.built = x.built /\ y.windowMs = ms
  /\ x.built => y.pin = IF ms = 0 THEN Null ELSE [min |-> last - ms, max |-> last]

LEMMA LiveIs ==
  ASSUME NEW x, Has(ChartFields, x), NEW last
  PROVE  Follows(Charts!goLive(x, last), x, x.windowMs, last)
<1> DEFINE a == [x EXCEPT !.follow = TRUE]
           b == [a EXCEPT !.pin = Null]
<1>0. PICK yes : yes = TRUE
  OBVIOUS
<1>1. Charts!goLive(x, last) = IF x.built THEN Charts!applyWindow(b, last) ELSE a
  BY DEF Charts!goLive
<1>2. Changed(x, a, "follow", yes) /\ Changed(a, b, "pin", Null)
  BY <1>0 DEF Changed
<1>3. "follow" \in ChartFields /\ "pin" \in ChartFields
  BY DEF ChartFields
<1> HIDE DEF a, b
<1>4. Has(ChartFields, a) /\ a.follow = yes /\ \A k \in ChartFields : k # "follow" => a[k] = x[k]
  BY ONLY <1>2, <1>3, FieldIs, Has(ChartFields, x)
<1>5. Has(ChartFields, b) /\ b.pin = Null /\ \A k \in ChartFields : k # "pin" => b[k] = a[k]
  BY ONLY <1>2, <1>3, <1>4, FieldIs
<1>6. /\ a.follow /\ a.built = x.built /\ a.windowMs = x.windowMs
      /\ b.follow /\ b.built = x.built /\ b.windowMs = x.windowMs
  BY <1>0, <1>4, <1>5 DEF ChartFields
<1>7. CASE x.built
  <2>1. /\ Has(ChartFields, Charts!applyWindow(b, last)) /\ Charts!applyWindow(b, last).built = b.built
        /\ Charts!applyWindow(b, last).follow = b.follow /\ Charts!applyWindow(b, last).windowMs = b.windowMs
        /\ Charts!applyWindow(b, last).pin =
              IF ~b.follow THEN b.pin ELSE IF b.windowMs = 0 THEN Null ELSE [min |-> last - b.windowMs, max |-> last]
    BY <1>5, WindowApplied
  <2> QED BY <1>1, <1>6, <1>7, <2>1 DEF Follows
<1>8. CASE ~x.built
  BY <1>1, <1>4, <1>6, <1>8 DEF Follows
<1> QED BY <1>7, <1>8

\* A chart put on a range follows no more; one that shows it already keeps its pin.
Stops(y, c, x, r) ==
  y.follow = FALSE /\ (y.pin = r \/ (y.pin = x.pin /\ Charts!Shown(c, x, newest) = r))

\* What a chart becomes when it hears of a gesture of its session.
LEMMA HeardIs ==
  ASSUME NEW c, NEW x, Has(ChartFields, x), NEW e
  PROVE  /\ Has(ChartFields, Charts!Followed(c, x, e, newest))
         /\ e.live => Follows(Charts!Followed(c, x, e, newest), [x EXCEPT !.windowMs = e.windowMs], e.windowMs,
                              newest[Charts!group(c)])
         /\ ~e.live => Stops(Charts!Followed(c, x, e, newest), c, x, e.range)
<1>0. PICK no : no = FALSE
  OBVIOUS
<1> DEFINE a == [x EXCEPT !.windowMs = e.windowMs]
           b == [x EXCEPT !.follow = FALSE]
           d == [b EXCEPT !.pin = e.range]
           w == e.windowMs
           r == e.range
<1>1. Changed(x, a, "windowMs", w) /\ Changed(x, b, "follow", no) /\ Changed(b, d, "pin", r)
  BY <1>0 DEF Changed
<1>2. Charts!Followed(c, x, e, newest) =
        IF e.live THEN Charts!goLive(a, newest[Charts!group(c)])
        ELSE IF Charts!Shown(c, x, newest) = r THEN b ELSE d
  BY DEF Charts!Followed
<1>3. "follow" \in ChartFields /\ "pin" \in ChartFields /\ "windowMs" \in ChartFields
  BY DEF ChartFields
<1> HIDE DEF a, b, d
<1>4. Has(ChartFields, a) /\ a.windowMs = w
  BY ONLY <1>1, <1>3, FieldIs, Has(ChartFields, x)
<1>5. Has(ChartFields, b) /\ b.follow = no /\ \A k \in ChartFields : k # "follow" => b[k] = x[k]
  BY ONLY <1>1, <1>3, FieldIs, Has(ChartFields, x)
<1>6. Has(ChartFields, d) /\ d.pin = r /\ \A k \in ChartFields : k # "pin" => d[k] = b[k]
  BY ONLY <1>1, <1>3, <1>5, FieldIs
<1>7. b.pin = x.pin /\ d.follow = b.follow
  BY <1>5, <1>6 DEF ChartFields
<1>8. Follows(Charts!goLive(a, newest[Charts!group(c)]), a, w, newest[Charts!group(c)])
  BY <1>4, LiveIs
<1>9. Has(ChartFields, Charts!goLive(a, newest[Charts!group(c)]))
  BY <1>8 DEF Follows
<1> QED BY <1>0, <1>2, <1>5, <1>6, <1>7, <1>8, <1>9 DEF a, Stops

\* A gesture is told to the charts of its session, which all hear of it.
Gesture(c, e, f) == Charts!Broadcast(c, e, f) /\ newest' = newest /\ e.source = c

LEMMA AllHear ==
  ASSUME ChartsInv, NEW c \in Charts!Charts, NEW e, NEW f, Gesture(c, e, f), Drawable(f)
  PROVE  /\ ChartsInv'
         /\ \A s \in Sessions : chartSync'[s] # chartSync[s] => s = Charts!group(c) /\ chartSync'[s] = e
         /\ chart'[c] = f[c]
         /\ \A d \in Charts!Charts : d # c /\ d \in Charts!Built(f) /\ Charts!group(d) = Charts!group(c) /\ e # Null
              => chart'[d] = Charts!Followed(d, f[d], e, newest)
<1>1. /\ chartSync' = [chartSync EXCEPT ![Charts!group(c)] = e] /\ newest' = newest /\ e.source = c
      /\ chart' = [d \in Charts!Charts |->
            IF d \notin Charts!Built(f) \/ chartSync'[Charts!group(d)] = Null \/ chartSync'[Charts!group(d)].source = d
            THEN f[d] ELSE Charts!Followed(d, f[d], chartSync'[Charts!group(d)], newest)]
  BY DEF Gesture, Charts!Broadcast, Charts!Heard
<1>2. Charts!group(c) \in Sessions
  BY DEF Charts!group, Charts!Charts
<1>3. /\ DOMAIN chartSync' = Sessions /\ chartSync'[Charts!group(c)] = e
      /\ \A s \in Sessions : s # Charts!group(c) => chartSync'[s] = chartSync[s]
  BY <1>1, <1>2 DEF ChartsInv
<1>4. ASSUME NEW d \in Charts!Charts, chart'[d] # Null PROVE Has(ChartFields, chart'[d])
  <2>1. CASE chart'[d] = f[d]
    BY <1>4, <2>1 DEF Drawable
  <2>2. CASE d \in Charts!Built(f) /\ chart'[d] = Charts!Followed(d, f[d], chartSync'[Charts!group(d)], newest)
    <3>1. Has(ChartFields, f[d])
      BY <2>2 DEF Charts!Built, Drawable
    <3> QED BY <2>2, <3>1, HeardIs
  <2> QED BY <1>1, <2>1, <2>2
<1>5. chart' = [d \in Charts!Charts |-> chart'[d]]
  BY <1>1
<1> QED BY <1>1, <1>3, <1>4, <1>5 DEF ChartsInv, Drawable

\* What a gesture on a session leaves its charts with.
Gathered(s) ==
  \A c, d \in Charts!Charts : c = chartSync'[s].source =>
    /\ chart'[c].follow = chartSync'[s].live
    /\ c \in Charts!Built(chart) /\ d \in Charts!Built(chart) /\ Charts!group(d) = s =>
         /\ chart'[c].follow = chart'[d].follow
         /\ Charts!Shown(c, chart'[c], newest) = Charts!Shown(d, chart'[d], newest)

\* LIVE, a reset and a width: every chart that is drawn follows.
LEMMA LiveGathers ==
  ASSUME ChartsInv, NEW c \in Charts!Charts, chart[c] # Null, NEW y, Has(ChartFields, y), y.built = chart[c].built,
         NEW e, e = [source |-> c, live |-> TRUE, windowMs |-> y.windowMs], e # Null,
         NEW f, Entry(chart, f, c, Charts!goLive(y, newest[Charts!group(c)])), Gesture(c, e, f)
  PROVE  ChartsInv' /\ \A s \in Sessions : chartSync'[s] # chartSync[s] => Gathered(s)
<1> DEFINE last == newest[Charts!group(c)]
           g == Charts!goLive(y, last)
           ms == y.windowMs
<1>1. Follows(g, y, ms, last)
  BY LiveIs
<1>2. f[c] = g /\ f = [d \in Charts!Charts |-> f[d]] /\ \A d \in Charts!Charts : d # c => f[d] = chart[d]
  BY DEF Entry, ChartsInv, Drawable
<1> HIDE DEF g
<1>3. Drawable(f)
  BY <1>1, <1>2 DEF ChartsInv, Follows, Drawable
<1>4. /\ ChartsInv'
      /\ \A s \in Sessions : chartSync'[s] # chartSync[s] => s = Charts!group(c) /\ chartSync'[s] = e
      /\ chart'[c] = f[c]
      /\ \A d \in Charts!Charts : d # c /\ d \in Charts!Built(f) /\ Charts!group(d) = Charts!group(c)
              => chart'[d] = Charts!Followed(d, f[d], e, newest)
  BY ONLY <1>3, AllHear, ChartsInv, c \in Charts!Charts, Gesture(c, e, f), e # Null
<1>5. e.source = c /\ e.live = TRUE /\ e.windowMs = ms
  OBVIOUS
<1>6. ASSUME NEW s \in Sessions, chartSync'[s] # chartSync[s] PROVE Gathered(s)
  <2>1. s = Charts!group(c) /\ chartSync'[s].source = c /\ chartSync'[s].live = TRUE /\ g.follow
    BY <1>1, <1>4, <1>5, <1>6 DEF Follows
  <2>2. ASSUME NEW d \in Charts!Charts, c \in Charts!Built(chart), d \in Charts!Built(chart), Charts!group(d) = s, d # c
        PROVE  g.follow = chart'[d].follow /\ g.pin = chart'[d].pin
    <3>1. f[d] = chart[d] /\ Has(ChartFields, chart[d]) /\ chart[d].built /\ d \in Charts!Built(f) /\ y.built
      BY <1>2, <2>2 DEF Charts!Built, ChartsInv, Drawable
    <3> DEFINE x == [chart[d] EXCEPT !.windowMs = ms]
    <3>2. Follows(chart'[d], x, ms, last)
      <4>1. chart'[d] = Charts!Followed(d, chart[d], e, newest)
        BY <1>4, <2>1, <2>2, <3>1
      <4>2. Follows(Charts!Followed(d, chart[d], e, newest), [chart[d] EXCEPT !.windowMs = e.windowMs], e.windowMs,
                    newest[Charts!group(d)])
        BY <1>5, <3>1, HeardIs
      <4> QED BY <1>5, <2>1, <2>2, <4>1, <4>2
    <3>3. x.built = chart[d].built
      BY <3>1, HasDomain DEF ChartFields
    <3> HIDE DEF x
    <3>4. /\ g.pin = IF ms = 0 THEN Null ELSE [min |-> last - ms, max |-> last]
          /\ chart'[d].pin = IF ms = 0 THEN Null ELSE [min |-> last - ms, max |-> last]
      BY <1>1, <3>1, <3>2, <3>3 DEF Follows
    <3>5. g.follow = TRUE /\ chart'[d].follow = TRUE
      BY <1>1, <3>2 DEF Follows
    <3> QED BY <3>4, <3>5
  <2>3. g.follow = TRUE /\ chart'[c] = g
    BY <1>1, <1>2, <1>4 DEF Follows
  <2>4. ASSUME NEW d \in Charts!Charts, c \in Charts!Built(chart), d \in Charts!Built(chart), Charts!group(d) = s
        PROVE  /\ chart'[c].follow = chart'[d].follow
               /\ Charts!Shown(c, chart'[c], newest) = Charts!Shown(d, chart'[d], newest)
    <3>1. CASE d = c
      BY <3>1
    <3>2. CASE d # c
      <4>1. chart'[c].follow = chart'[d].follow /\ chart'[c].pin = chart'[d].pin
        BY <2>2, <2>3, <2>4, <3>2
      <4> QED BY ONLY <2>1, <2>4, <4>1 DEF Charts!Shown
    <3> QED BY <3>1, <3>2
  <2>5. chart'[c].follow = chartSync'[s].live
    BY <2>1, <2>3
  <2> QED BY ONLY <2>1, <2>4, <2>5 DEF Gathered
<1> QED BY <1>4, <1>6

\* A range: every chart that is drawn shows it, and none follows.
LEMMA RangeGathers ==
  ASSUME RangesAssumption, ChartsInv, NEW c \in Charts!Built(chart), NEW r \in Ranges,
         NEW e, e = [source |-> c, live |-> FALSE, range |-> r], e # Null,
         NEW a, NEW no, no = FALSE, Changed(chart[c], a, "follow", no), NEW b, Changed(a, b, "pin", r),
         NEW f, Entry(chart, f, c, b), Gesture(c, e, f)
  PROVE  ChartsInv' /\ \A s \in Sessions : chartSync'[s] # chartSync[s] => Gathered(s)
<1>1. c \in Charts!Charts /\ Has(ChartFields, chart[c])
  BY DEF Charts!Built, ChartsInv, Drawable
<1>2. "follow" \in ChartFields /\ "pin" \in ChartFields
  BY DEF ChartFields
<1>3. Has(ChartFields, a) /\ a.follow = no
  BY ONLY <1>1, <1>2, FieldIs, Changed(chart[c], a, "follow", no)
<1>4. Has(ChartFields, b) /\ b.pin = r /\ \A k \in ChartFields : k # "pin" => b[k] = a[k]
  BY ONLY <1>2, <1>3, FieldIs, Changed(a, b, "pin", r)
<1>5. b.follow = FALSE /\ r # Null
  BY <1>3, <1>4 DEF ChartFields, RangesAssumption
<1>6. f[c] = b /\ f = [d \in Charts!Charts |-> f[d]] /\ \A d \in Charts!Charts : d # c => f[d] = chart[d]
  BY <1>1 DEF Entry, ChartsInv, Drawable
<1>7. Drawable(f)
  BY <1>4, <1>6 DEF ChartsInv, Drawable
<1>8. /\ ChartsInv'
      /\ \A s \in Sessions : chartSync'[s] # chartSync[s] => s = Charts!group(c) /\ chartSync'[s] = e
      /\ chart'[c] = f[c]
      /\ \A d \in Charts!Charts : d # c /\ d \in Charts!Built(f) /\ Charts!group(d) = Charts!group(c)
              => chart'[d] = Charts!Followed(d, f[d], e, newest)
  BY ONLY <1>1, <1>7, AllHear, ChartsInv, Gesture(c, e, f), e # Null
<1>9. e.source = c /\ e.live = FALSE /\ e.range = r
  OBVIOUS
<1>10. ASSUME NEW s \in Sessions, chartSync'[s] # chartSync[s] PROVE Gathered(s)
  <2>1. s = Charts!group(c) /\ chartSync'[s].source = c /\ chartSync'[s].live = FALSE
    BY <1>8, <1>9, <1>10
  <2>2. ASSUME NEW d \in Charts!Charts, d \in Charts!Built(chart), Charts!group(d) = s, d # c
        PROVE  chart'[d].follow = FALSE /\ Charts!Shown(d, chart'[d], newest) = r
    <3>1. f[d] = chart[d] /\ Has(ChartFields, chart[d]) /\ d \in Charts!Built(f)
      BY <1>6, <2>2 DEF Charts!Built, ChartsInv, Drawable
    <3>2. chart'[d] = Charts!Followed(d, chart[d], e, newest)
      BY <1>8, <2>1, <2>2, <3>1
    <3>3. /\ chart'[d].follow = FALSE
          /\ chart'[d].pin = r \/ (chart'[d].pin = chart[d].pin /\ Charts!Shown(d, chart[d], newest) = r)
      <4>1. ~e.live
        BY <1>9
      <4>2. Stops(Charts!Followed(d, chart[d], e, newest), d, chart[d], e.range)
        BY <3>1, <4>1, HeardIs
      <4> QED BY <1>9, <3>2, <4>2 DEF Stops
    <3> QED BY <1>5, <3>3 DEF Charts!Shown
  <2>3. chart'[c] = b /\ Charts!Shown(c, b, newest) = r
    BY <1>4, <1>5, <1>6, <1>8 DEF Charts!Shown
  <2> QED BY <1>5, <2>1, <2>2, <2>3 DEF Gathered
<1> QED BY <1>8, <1>10

LEMMA ChartsEveryStep ==
  ASSUME RangesAssumption, ChartsInv, [Charts!Next]_Charts!vars
  PROVE  ChartsInv' /\ \A s \in Sessions : chartSync'[s] # chartSync[s] => Gathered(s)
<1>0. Drawable(chart) /\ DOMAIN chartSync = Sessions
  BY DEF ChartsInv
<1>1. CASE UNCHANGED <<chart, chartSync>>
  BY <1>0, <1>1 DEF ChartsInv, Drawable
<1>2. CASE Charts!publishRange
  <2>1. PICK c \in Charts!Built(chart), r \in Ranges :
          /\ Charts!Broadcast(c, [source |-> c, live |-> FALSE, range |-> r],
                              [chart EXCEPT ![c].follow = FALSE, ![c].pin = r])
          /\ newest' = newest
    BY <1>2 DEF Charts!publishRange
  <2>2. PICK no : no = FALSE
    OBVIOUS
  <2> DEFINE e == [source |-> c, live |-> FALSE, range |-> r]
             a == [chart[c] EXCEPT !.follow = FALSE]
             b == [a EXCEPT !.pin = r]
             f == [chart EXCEPT ![c].follow = FALSE, ![c].pin = r]
  <2>3. Changed(chart[c], a, "follow", no) /\ Changed(a, b, "pin", r)
    BY <2>2 DEF Changed
  <2>4. Entry(chart, f, c, b)
    BY DEF Entry
  <2>5. e # Null
    BY DEF RangesAssumption
  <2>6. Gesture(c, e, f)
    BY <2>1 DEF Gesture
  <2>7. e = [source |-> c, live |-> FALSE, range |-> r]
    OBVIOUS
  <2> HIDE DEF a, b, f, e
  <2> QED BY ONLY RangesAssumption, ChartsInv, <2>2, <2>3, <2>4, <2>5, <2>6, <2>7, RangeGathers,
             c \in Charts!Built(chart), r \in Ranges
<1>3. ASSUME NEW c \in Charts!Charts, chart[c] # Null, NEW y, Has(ChartFields, y), y.built = chart[c].built,
             NEW ms, ms = y.windowMs, newest' = newest,
             Charts!Broadcast(c, [source |-> c, live |-> TRUE, windowMs |-> ms],
                              [chart EXCEPT ![c] = Charts!goLive(y, newest[Charts!group(c)])])
      PROVE  ChartsInv' /\ \A s \in Sessions : chartSync'[s] # chartSync[s] => Gathered(s)
  <2> DEFINE e == [source |-> c, live |-> TRUE, windowMs |-> y.windowMs]
             f == [chart EXCEPT ![c] = Charts!goLive(y, newest[Charts!group(c)])]
  <2>1. Entry(chart, f, c, Charts!goLive(y, newest[Charts!group(c)])) /\ Gesture(c, e, f)
        /\ e = [source |-> c, live |-> TRUE, windowMs |-> y.windowMs]
    BY <1>3 DEF Entry, Gesture
  <2>2. e # Null
    BY DEF RangesAssumption
  <2> HIDE DEF e, f
  <2> QED BY ONLY ChartsInv, <1>3, <2>1, <2>2, LiveGathers
<1>4. CASE Charts!resetZoom
  <2>1. PICK c \in Charts!Charts :
          /\ chart[c] # Null /\ newest' = newest
          /\ Charts!Broadcast(c, [source |-> c, live |-> TRUE, windowMs |-> chart[c].windowMs],
                              [chart EXCEPT ![c] = Charts!goLive(chart[c], newest[Charts!group(c)])])
    BY <1>4 DEF Charts!resetZoom
  <2>2. Has(ChartFields, chart[c])
    BY <1>0, <2>1 DEF Drawable
  <2> QED BY <1>3, <2>1, <2>2
<1>5. CASE Charts!setTimebase
  <2>1. PICK c \in Charts!Charts, ms \in Timebases :
          /\ chart[c] # Null /\ newest' = newest
          /\ Charts!Broadcast(c, [source |-> c, live |-> TRUE, windowMs |-> ms],
                [chart EXCEPT ![c] = Charts!goLive([chart[c] EXCEPT !.windowMs = ms], newest[Charts!group(c)])])
    BY <1>5 DEF Charts!setTimebase
  <2> DEFINE y == [chart[c] EXCEPT !.windowMs = ms]
  <2>2. Has(ChartFields, chart[c]) /\ Changed(chart[c], y, "windowMs", ms) /\ "windowMs" \in ChartFields
    BY <1>0, <2>1 DEF Drawable, Changed, ChartFields
  <2> HIDE DEF y
  <2>3. Has(ChartFields, y) /\ y.windowMs = ms /\ \A k \in ChartFields : k # "windowMs" => y[k] = chart[c][k]
    BY ONLY <2>2, FieldIs
  <2>4. y.built = chart[c].built
    BY <2>3 DEF ChartFields
  <2>5. Charts!Broadcast(c, [source |-> c, live |-> TRUE, windowMs |-> ms],
                         [chart EXCEPT ![c] = Charts!goLive(y, newest[Charts!group(c)])])
    BY <2>1 DEF y
  <2> QED BY <1>3, <2>1, <2>3, <2>4, <2>5
<1>6. CASE Charts!refresh \/ Charts!create \/ Charts!rebuild \/ Charts!switchTab \/ Charts!toggleLatency
  <2>1. chartSync' = chartSync
    BY <1>6 DEF Charts!refresh, Charts!create, Charts!rebuild, Charts!switchTab, Charts!toggleLatency, Charts!Place
  <2>2. CASE Charts!refresh
    <3>1. PICK s \in Sessions : chart' = [c \in Charts!Charts |->
             IF c \in Charts!Built(chart) /\ Charts!group(c) = s THEN Charts!applyWindow(chart[c], newest'[s]) ELSE chart[c]]
      BY <2>2 DEF Charts!refresh
    <3> QED BY <1>0, <2>1, <3>1, WindowApplied DEF ChartsInv, Drawable, Charts!Built
  <2>3. CASE Charts!create
    <3>1. PICK c \in Charts!Charts : /\ chart[c] # Null
             /\ chart' = [chart EXCEPT ![c] = Charts!applyWindow([chart[c] EXCEPT !.built = TRUE], newest[Charts!group(c)])]
      BY <2>3 DEF Charts!create
    <3>2. PICK yes : yes = TRUE
      OBVIOUS
    <3> DEFINE y == [chart[c] EXCEPT !.built = TRUE]
    <3>3. Has(ChartFields, chart[c]) /\ Changed(chart[c], y, "built", yes) /\ "built" \in ChartFields
      BY <1>0, <3>1, <3>2 DEF Drawable, Changed, ChartFields
    <3>4. Entry(chart, chart', c, Charts!applyWindow(y, newest[Charts!group(c)]))
      BY <3>1 DEF Entry
    <3> HIDE DEF y
    <3>5. Has(ChartFields, y)
      BY ONLY <3>3, FieldIs
    <3>6. Has(ChartFields, Charts!applyWindow(y, newest[Charts!group(c)]))
      BY <3>5, WindowApplied
    <3> QED BY <1>0, <2>1, <3>4, <3>6 DEF ChartsInv, Drawable, Entry
  <2>4. CASE Charts!rebuild
    <3>1. chart' = [c \in Charts!Charts |-> IF c \in Charts!Built(chart)
             THEN Charts!applyWindow([chart[c] EXCEPT !.pin = Null], newest[Charts!group(c)]) ELSE chart[c]]
      BY <2>4 DEF Charts!rebuild
    <3>2. ASSUME NEW c \in Charts!Built(chart) PROVE Has(ChartFields, [chart[c] EXCEPT !.pin = Null])
      <4>1. Has(ChartFields, chart[c]) /\ "pin" \in ChartFields
        BY <1>0 DEF Drawable, ChartFields, Charts!Built
      <4> QED BY <4>1, FieldPut
    <3>3. \A c \in Charts!Built(chart) :
            Has(ChartFields, Charts!applyWindow([chart[c] EXCEPT !.pin = Null], newest[Charts!group(c)]))
      BY <3>2, WindowApplied
    <3> QED BY <1>0, <2>1, <3>1, <3>3 DEF ChartsInv, Drawable
  <2>5. CASE Charts!switchTab \/ Charts!toggleLatency
    <3>1. PICK t, comp : Charts!Place(t, comp)
      BY <2>5 DEF Charts!switchTab, Charts!toggleLatency
    <3>2. chart' = [c \in Charts!Charts |-> IF c \notin Charts!Placed(t, comp) THEN Null
                                           ELSE IF chart[c] = Null THEN Charts!Mounted(c) ELSE chart[c]]
      BY <3>1 DEF Charts!Place
    <3>3. \A c : Has(ChartFields, Charts!Mounted(c))
      BY DEF Charts!Mounted, Has, ChartFields
    <3> QED BY <1>0, <2>1, <3>2, <3>3 DEF ChartsInv, Drawable
  <2> QED BY <1>6, <2>1, <2>2, <2>3, <2>4, <2>5
<1> QED BY <1>1, <1>2, <1>4, <1>5, <1>6 DEF Charts!Next, Charts!vars

LEMMA ChartsAlways == ASSUME RangesAssumption PROVE Charts!Spec => []ChartsInv
<1>1. Charts!Init => ChartsInv
  BY DEF Charts!Init, ChartsInv, Drawable
<1>2. ChartsInv /\ [Charts!Next]_Charts!vars => ChartsInv'
  BY ChartsEveryStep
<1> QED BY <1>1, <1>2, PTL DEF Charts!Spec

\* A gesture on a chart leaves the charts of its session together, whatever they
\* showed before (MonitorChart.svelte).
THEOREM GestureGathers == ASSUME RangesAssumption PROVE Charts!Spec => [][Charts!GathersGroup]_Charts!vars
<1>1. ASSUME ChartsInv, [Charts!Next]_Charts!vars PROVE [Charts!GathersGroup]_Charts!vars
  <2> SUFFICES ASSUME NEW s \in Sessions, chartSync'[s] # chartSync[s],
                      NEW c \in Charts!Charts, NEW d \in Charts!Charts, c = chartSync'[s].source
               PROVE  /\ chart'[c].follow = chartSync'[s].live
                      /\ c \in Charts!Built(chart) /\ d \in Charts!Built(chart) /\ Charts!group(d) = s =>
                           Charts!Agree(c, d)'
    BY DEF Charts!GathersGroup, Charts!GestureOn
  <2>1. Gathered(s)
    BY <1>1, ChartsEveryStep
  <2>2. newest' = newest
    BY <1>1 DEF Charts!Next, Charts!vars, Charts!publishRange, Charts!resetZoom, Charts!setTimebase, Charts!refresh,
                Charts!create, Charts!rebuild, Charts!switchTab, Charts!toggleLatency, Charts!Place
  <2> QED BY <2>1, <2>2 DEF Gathered, Charts!Agree
<1> QED BY <1>1, ChartsAlways, PTL DEF Charts!Spec

(***************************************************************************)
(* The mirror shows the table (RequestHistory): no entry is twice in a     *)
(* list, and what the table holds, or will hold once the calls under way   *)
(* are served, is shown or on its way, unless the mirror has been full.    *)
(***************************************************************************)
Distinct(s) == \A i, j \in DOMAIN s : s[i] = s[j] => i = j

\* What stays of a list is all there, and distinct if it was.
LEMMA LeftIsAll ==
  ASSUME NEW S, NEW q \in Seq(S), NEW stay, stay \subseteq DOMAIN q
  PROVE  /\ \A i \in stay : \E n \in DOMAIN Left(q, stay) : Left(q, stay)[n] = q[i]
         /\ Distinct(q) => Distinct(Left(q, stay))
<1> DEFINE t == Left(q, stay)
           K == Cardinality(stay)
<1>1. DOMAIN t = 1..K
  BY DEF Left
<1>2. IsFiniteSet(stay) /\ K \in Nat
  <2>1. Len(q) \in Nat /\ stay \in SUBSET (1..Len(q)) /\ IsFiniteSet(1..Len(q))
    BY FS_Interval
  <2> QED BY <2>1, FS_Subset, FS_CardinalityType
<1>3. Taken(q, stay, t)
  BY OnlyIs
<1> HIDE DEF t, K
<1>4. PICK at \in [DOMAIN t -> stay] : /\ \A n \in DOMAIN t : t[n] = q[at[n]]
                                      /\ \A n, m \in DOMAIN t : at[n] = at[m] => n = m
  BY <1>3 DEF Taken
<1>5. IsFiniteSet(1..K) /\ Cardinality(1..K) = K
  BY <1>2, FS_Interval
<1>6. at \in Surjection(1..K, stay)
  <2>1. at \in Injection(1..K, stay)
    BY <1>1, <1>4 DEF Injection, IsInjective
  <2>2. Cardinality(1..K) = Cardinality(stay)
    BY <1>5 DEF K
  <2> QED BY <1>2, <2>1, <2>2, FS_Injection
<1>7. \A i \in stay : \E n \in DOMAIN t : t[n] = q[i]
  BY <1>1, <1>4, <1>6 DEF Surjection
<1>8. ASSUME Distinct(q) PROVE Distinct(t)
  BY <1>4, <1>8 DEF Distinct
<1> QED BY <1>7, <1>8 DEF t

LEMMA WithoutIsAll ==
  ASSUME NEW S, NEW s \in Seq(S), NEW ids
  PROVE  /\ Held(History!Without(s, ids)) = Held(s) \ ids
         /\ Distinct(s) => Distinct(History!Without(s, ids))
<1> DEFINE stay == {i \in DOMAIN s : s[i] \notin ids}
           t == Left(s, stay)
<1>1. History!Without(s, ids) = t /\ stay \subseteq DOMAIN s
  BY OnlyOfHistory DEF History!Without
<1>2. \A i \in DOMAIN s : s[i] \notin ids => i \in stay
  OBVIOUS
<1> HIDE DEF stay
<1>3. (\A i \in stay : \E n \in DOMAIN t : t[n] = s[i]) /\ (Distinct(s) => Distinct(t))
  BY <1>1, LeftIsAll
<1>4. Held(t) \subseteq Held(s) \ ids
  BY <1>1, WithoutIs
<1> HIDE DEF t
<1>5. Held(s) \ ids \subseteq Held(t)
  BY <1>2, <1>3 DEF Held, History!ToSet
<1> QED BY <1>1, <1>3, <1>4, <1>5

LEMMA RisingIsAll ==
  ASSUME NEW N \in Nat, NEW T, T \subseteq 1..N PROVE Distinct(History!Rising(T))
<1> DEFINE Before(i) == {j \in T : j < i}
           place(n) == CHOOSE i \in T : Cardinality(Before(i)) = n - 1
           K == Cardinality(T)
<1>1. History!Cardinality(T) = K /\ \A i : History!Cardinality(Before(i)) = Cardinality(Before(i))
  BY CountingHistory, Zenon
<1>2. \A n : (CHOOSE i \in T : History!Cardinality(Before(i)) = n - 1) = place(n)
  BY <1>1, Zenon
<1>3. History!Rising(T) = [n \in 1..History!Cardinality(T) |->
                             CHOOSE i \in T : History!Cardinality(Before(i)) = n - 1]
  BY DEF History!Rising
<1>4. History!Rising(T) = [n \in 1..K |-> place(n)]
  BY <1>1, <1>2, <1>3, Zenon
<1>5. K \in Nat /\ \A n \in 1..K : \E i \in T : Cardinality(Before(i)) = n - 1
  BY AllCounted
<1> HIDE DEF Before, K
<1>6. \A n \in 1..K : Cardinality(Before(place(n))) = n - 1
  BY <1>5
<1> HIDE DEF place
<1>7. \A n, m \in 1..K : place(n) = place(m) => n = m
  BY <1>6
<1> QED BY <1>4, <1>7 DEF Distinct

LEMMA ReverseIsAll == ASSUME NEW S, NEW s \in Seq(S), Distinct(s) PROVE Distinct(History!Reverse(s))
<1> DEFINE t == History!Reverse(s)
<1>1. t = [i \in 1..Len(s) |-> s[Len(s) - i + 1]] /\ Len(s) \in Nat /\ DOMAIN s = 1..Len(s)
  BY DEF History!Reverse
<1>2. \A i \in 1..Len(s) : Len(s) - i + 1 \in 1..Len(s)
  BY <1>1
<1>3. \A i, j \in 1..Len(s) : Len(s) - i + 1 = Len(s) - j + 1 => i = j
  BY <1>1
<1> QED BY <1>1, <1>2, <1>3 DEF Distinct

LEMMA JoinIsAll ==
  ASSUME NEW S, NEW s \in Seq(S), NEW t \in Seq(S), Distinct(s), Distinct(t), Held(s) \cap Held(t) = {}
  PROVE  Distinct(s \o t)
<1>1. /\ Len(s) \in Nat /\ Len(t) \in Nat
      /\ DOMAIN s = 1..Len(s) /\ DOMAIN t = 1..Len(t) /\ DOMAIN (s \o t) = 1..(Len(s) + Len(t))
      /\ \A i \in 1..(Len(s) + Len(t)) : (s \o t)[i] = IF i <= Len(s) THEN s[i] ELSE t[i - Len(s)]
  OBVIOUS
<1> DEFINE u == s \o t
<1>2. \A i \in DOMAIN u : i \in Int /\ ((i \in DOMAIN s /\ u[i] = s[i]) \/ (i - Len(s) \in DOMAIN t /\ u[i] = t[i - Len(s)]))
  BY <1>1
<1> HIDE DEF u
<1>3. \A i \in DOMAIN s, j \in DOMAIN t : s[i] # t[j]
  BY DEF Held, History!ToSet
<1>4. Distinct(u)
  <2> SUFFICES ASSUME NEW i \in DOMAIN u, NEW j \in DOMAIN u, u[i] = u[j] PROVE i = j
    BY DEF Distinct
  <2>1. CASE i \in DOMAIN s /\ u[i] = s[i] /\ j \in DOMAIN s /\ u[j] = s[j]
    BY <2>1 DEF Distinct
  <2>2. CASE i - Len(s) \in DOMAIN t /\ u[i] = t[i - Len(s)] /\ j - Len(s) \in DOMAIN t /\ u[j] = t[j - Len(s)]
    <3>1. i - Len(s) = j - Len(s)
      BY <2>2 DEF Distinct
    <3> QED BY <1>1, <1>2, <3>1
  <2> QED BY <1>2, <1>3, <2>1, <2>2
<1> QED BY <1>4 DEF u

LEMMA PartIsAll ==
  ASSUME NEW S, NEW s \in Seq(S), NEW m \in Nat \ {0}, NEW n \in Nat, n <= Len(s), Distinct(s)
  PROVE  Distinct(SubSeq(s, m, n))
<1> DEFINE t == SubSeq(s, m, n)
<1>1. \A i \in DOMAIN t : t[i] = s[i + m - 1] /\ i + m - 1 \in DOMAIN s /\ i \in Int
  OBVIOUS
<1> HIDE DEF t
<1>2. \A i, j \in DOMAIN t : i + m - 1 = j + m - 1 => i = j
  BY <1>1
<1> QED BY <1>1, <1>2 DEF Distinct, t

\* As many entries as places, if none is twice.
LEMMA HeldCounted ==
  ASSUME NEW S, NEW s \in Seq(S)
  PROVE  /\ IsFiniteSet(Held(s)) /\ Cardinality(Held(s)) \in Nat /\ Cardinality(Held(s)) <= Len(s)
         /\ Distinct(s) => Cardinality(Held(s)) = Len(s)
<1>1. Len(s) \in Nat /\ DOMAIN s = 1..Len(s) /\ IsFiniteSet(1..Len(s)) /\ Cardinality(1..Len(s)) = Len(s)
  <2>1. Len(s) \in Nat /\ DOMAIN s = 1..Len(s)
    OBVIOUS
  <2>2. 1 \in Int /\ Len(s) \in Int
    BY <2>1
  <2>3. IsFiniteSet(1..Len(s)) /\ Cardinality(1..Len(s)) = IF 1 > Len(s) THEN 0 ELSE Len(s) - 1 + 1
    BY ONLY <2>2, FS_Interval
  <2> QED BY <2>1, <2>3
<1>2. s = [i \in 1..Len(s) |-> s[i]] /\ \A i \in 1..Len(s) : s[i] \in Held(s)
  BY <1>1 DEF Held, History!ToSet
<1>3. s \in Surjection(1..Len(s), Held(s))
  <2>1. s \in [1..Len(s) -> Held(s)]
    BY <1>2
  <2>2. \A e \in Held(s) : \E i \in 1..Len(s) : s[i] = e
    BY <1>1 DEF Held, History!ToSet
  <2> QED BY <2>1, <2>2 DEF Surjection
<1>4. /\ IsFiniteSet(Held(s)) /\ Cardinality(Held(s)) <= Cardinality(1..Len(s))
      /\ Cardinality(Held(s)) = Cardinality(1..Len(s)) <=> s \in Injection(1..Len(s), Held(s))
  BY ONLY <1>1, <1>3, FS_Surjection
<1>5. Distinct(s) => s \in Injection(1..Len(s), Held(s))
  <2>1. s \in [1..Len(s) -> Held(s)]
    BY <1>2
  <2> QED BY <1>1, <2>1 DEF Distinct, Injection, IsInjective
<1> QED BY <1>1, <1>4, <1>5, FS_CardinalityType


LEMMA MergedIsAll ==
  ASSUME NEW S, mirror \in Seq(S), NEW entries \in Seq(S)
  PROVE  /\ Held(History!Merged(entries)) = Held(mirror) \cup Held(entries)
         /\ Distinct(mirror) /\ Distinct(entries) => Distinct(History!Merged(entries))
<1> DEFINE t == History!Without(mirror, Held(entries))
<1>1. t \in Seq(S) /\ Held(t) = Held(mirror) \ Held(entries) /\ (Distinct(mirror) => Distinct(t))
  BY WithoutIs, WithoutIsAll
<1>2. History!Merged(entries) = t \o entries
  BY DEF History!Merged, Held
<1> HIDE DEF t
<1>3. Held(t \o entries) = Held(t) \cup Held(entries)
  BY <1>1, JoinIs
<1>4. Distinct(t) /\ Distinct(entries) => Distinct(t \o entries)
  <2>1. Held(t) \cap Held(entries) = {}
    BY <1>1
  <2> QED BY <1>1, <2>1, JoinIsAll
<1> QED BY <1>1, <1>2, <1>3, <1>4

LEMMA TrimIsAll ==
  ASSUME HistoryAssumption, NEW S, NEW t \in Seq(S), Distinct(t)
  PROVE  Distinct(History!trimHistory(t))
<1> DEFINE m == IF Len(t) > MAX_HISTORY_ENTRIES THEN Len(t) - MAX_HISTORY_ENTRIES + 1 ELSE 1
<1>1. m \in Nat \ {0} /\ Len(t) \in Nat
  BY DEF HistoryAssumption
<1>2. History!trimHistory(t) = SubSeq(t, m, Len(t))
  BY DEF History!trimHistory
<1> HIDE DEF m
<1> QED BY <1>1, <1>2, PartIsAll

\* What a call makes of a table in which nothing is twice.
LEMMA ServedIsAll ==
  ASSUME HistoryAssumption, HistoryInv, Distinct(OldLog), Distinct(table),
         NEW k \in DOMAIN requests, NEW new \in History!Served(requests[k])
  PROVE  Distinct(new)
<1> DEFINE c == requests[k]
<1>1. /\ numbered \in Nat /\ numbered >= Len(OldLog) /\ Len(OldLog) \in Nat /\ table \in Seq(1..numbered)
      /\ OldLog \in Seq(1..numbered)
      /\ c \in [fn : Verbs, ids : SUBSET Nat]
      /\ c.fn = "SaveHistoryEntry" => c.ids \subseteq (Len(OldLog) + 1)..numbered
  <2>1. /\ c \in [fn : Verbs, ids : SUBSET Nat]
        /\ c.fn = "SaveHistoryEntry" => c.ids \subseteq (Len(OldLog) + 1)..numbered
    BY AnyCall
  <2> HIDE DEF c
  <2>2. OldLog \in Seq(1..Len(OldLog)) /\ Len(OldLog) \in Nat
    BY DEF HistoryAssumption
  <2> QED BY <2>1, <2>2, LegacyListed DEF HistoryInv, HistoryTyped
<1> HIDE DEF c
<1>2. CASE c.fn = "SaveHistoryEntry"
  <2> DEFINE t == History!Without(table, c.ids)
             r == History!Rising(c.ids)
  <2>1. t \in Seq(1..numbered) /\ Held(t) = Held(table) \ c.ids /\ Distinct(t)
    BY <1>1, WithoutIs, WithoutIsAll
  <2>2. c.ids \subseteq 1..numbered
    BY <1>1, <1>2
  <2>3. r \in Seq(c.ids) /\ Distinct(r)
    BY <1>1, <2>2, RisingIs, RisingIsAll
  <2>4. r \in Seq(1..numbered) /\ Held(r) \subseteq c.ids
    BY <2>2, <2>3, SeqMonotonic, HeldIs
  <2>5. new \in {t \o r, History!trimHistory(t \o r)}
    BY <1>2 DEF History!Served, c
  <2> HIDE DEF t, r
  <2>6. t \o r \in Seq(1..numbered)
    BY <2>1, <2>4, JoinIs
  <2>7. Distinct(t \o r)
    <3>1. Held(t) \cap Held(r) = {}
      BY <2>1, <2>4
    <3> QED BY <2>1, <2>3, <2>4, <3>1, JoinIsAll
  <2> QED BY <2>5, <2>6, <2>7, TrimIsAll
<1>3. CASE c.fn = "DeleteHistoryEntries"
  <2>1. new = History!Without(table, c.ids)
    BY <1>3 DEF History!Served, c
  <2> QED BY <1>1, <2>1, WithoutIsAll
<1>4. CASE c.fn = "ClearHistory"
  <2>1. new = <<>>
    BY <1>4 DEF History!Served, c
  <2> QED BY <2>1 DEF Distinct
<1>5. CASE c.fn = "ImportHistoryEntries"
  <2> DEFINE t == History!Without(table, Held(OldLog))
  <2>1. t \in Seq(1..numbered) /\ Held(t) = Held(table) \ Held(OldLog) /\ Distinct(t)
    BY <1>1, WithoutIs, WithoutIsAll
  <2>2. new = History!trimHistory(t \o OldLog)
    BY <1>5 DEF History!Served, Held, c
  <2> HIDE DEF t
  <2>3. t \o OldLog \in Seq(1..numbered)
    BY <1>1, <2>1, JoinIs
  <2>4. Distinct(t \o OldLog)
    <3>1. Held(t) \cap Held(OldLog) = {}
      BY <2>1
    <3> QED BY <1>1, <2>1, <3>1, JoinIsAll
  <2> QED BY <2>2, <2>3, <2>4, TrimIsAll
<1>6. CASE c.fn = "LoadHistory"
  <2>1. new = table
    BY <1>6 DEF History!Served, c
  <2> QED BY <2>1
<1> QED BY <1>1, <1>2, <1>3, <1>4, <1>5, <1>6 DEF Verbs

-----------------------------------------------------------------------------
(* What is owed. *)

\* A call that is still to be served saves it, and none after that drops it,
StillSaved(e, rs) ==
  \E i \in DOMAIN rs : Saving(rs[i], e) /\ \A j \in DOMAIN rs : j > i => ~Dropping(rs[j], e)

\* or the table holds it, and no call is still to drop it.
Coming(e, t, rs) == StillSaved(e, rs) \/ (e \in Held(t) /\ \A j \in DOMAIN rs : ~Dropping(rs[j], e))

\* What the mirror owes: until the table is read, only what this start saved.
Owed(e, at, t, rs) == IF at \in {"off", "load"} THEN StillSaved(e, rs) ELSE Coming(e, t, rs)

\* What was read and is not shown yet.
OnTheWay ==
  CASE stage.at = "answer" -> Held(stage.reply)
    [] stage.at \in {"import", "imported"} -> Held(OldLog)
    [] OTHER -> {}

\* The mirror has been full, but for what was deleted since.
Full == Cardinality(Held(mirror)) + Cardinality(gone) >= MAX_HISTORY_ENTRIES

NoneTwice == Distinct(table) /\ Distinct(mirror) /\ Distinct(stage.reply)

Mirrored == Full \/ \A e : Owed(e, stage.at, table, requests) => e \in Held(mirror) \cup OnTheWay

MirrorInv == NoneTwice /\ (Orderly => Mirrored)

LEMMA OwedAfter ==
  ASSUME NEW e, NEW at, NEW t, NEW rs \in Calls, NEW c \in [fn : Verbs, ids : SUBSET Nat],
         Owed(e, at, t, Append(rs, c))
  PROVE  (Owed(e, at, t, rs) /\ ~Dropping(c, e)) \/ Saving(c, e)
<1> DEFINE us == Append(rs, c)
           last == Len(rs) + 1
<1>1. /\ last \in DOMAIN us /\ us[last] = c
      /\ \A i \in DOMAIN us : (i \in DOMAIN rs /\ us[i] = rs[i]) \/ i = last
      /\ \A i \in DOMAIN rs : i \in DOMAIN us /\ us[i] = rs[i] /\ last > i
  <2>1. \A i \in DOMAIN rs : i < Len(rs) + 1 => Len(rs) + 1 > i
    BY DEF Calls
  <2> QED BY <2>1, AppendIs
<1> HIDE DEF us, last
<1>2. StillSaved(e, us) => (StillSaved(e, rs) /\ ~Dropping(c, e)) \/ Saving(c, e)
  BY <1>1 DEF StillSaved
<1>3. (e \in Held(t) /\ \A j \in DOMAIN us : ~Dropping(us[j], e))
        => (e \in Held(t) /\ \A j \in DOMAIN rs : ~Dropping(rs[j], e)) /\ ~Dropping(c, e)
  BY <1>1
<1>4. Owed(e, at, t, us)
  BY DEF us
<1> QED BY <1>2, <1>3, <1>4 DEF Owed, Coming

LEMMA OwedServed ==
  ASSUME NEW e, NEW at, NEW t, NEW new, NEW rs \in Calls, rs # <<>>, Owed(e, at, new, Tail(rs)),
         Dropping(rs[1], e) => e \notin Held(new),
         e \in Held(new) => e \in Held(t) \/ Saving(rs[1], e)
  PROVE  Owed(e, at, t, rs)
<1> DEFINE us == Tail(rs)
<1>1. /\ 1 \in DOMAIN rs
      /\ \A i \in DOMAIN us : i + 1 \in DOMAIN rs /\ us[i] = rs[i + 1] /\ i \in Nat
      /\ \A i \in DOMAIN rs : i # 1 => i - 1 \in DOMAIN us /\ us[i - 1] = rs[i] /\ i \in Nat
  BY FirstServed DEF Calls
<1>2. Owed(e, at, new, us)
  OBVIOUS
<1> HIDE DEF us
<1>3. ASSUME StillSaved(e, us) PROVE StillSaved(e, rs)
  <2> PICK i \in DOMAIN us : Saving(us[i], e) /\ \A j \in DOMAIN us : j > i => ~Dropping(us[j], e)
    BY <1>3 DEF StillSaved
  <2>1. i + 1 \in DOMAIN rs /\ Saving(rs[i + 1], e) /\ i \in Nat
    BY <1>1
  <2>2. \A j \in DOMAIN rs : j > i + 1 => ~Dropping(rs[j], e)
    <3> SUFFICES ASSUME NEW j \in DOMAIN rs, j > i + 1 PROVE ~Dropping(rs[j], e)
      OBVIOUS
    <3>1. j # 1
      BY <2>1
    <3>2. j - 1 \in DOMAIN us /\ us[j - 1] = rs[j] /\ j \in Nat
      BY <1>1, <3>1
    <3>3. j - 1 > i
      BY <2>1, <3>2
    <3> QED BY <3>2, <3>3
  <2> QED BY <2>1, <2>2 DEF StillSaved
<1>4. ASSUME e \in Held(new), \A j \in DOMAIN us : ~Dropping(us[j], e) PROVE Coming(e, t, rs)
  <2>1. ~Dropping(rs[1], e)
    BY <1>4
  <2>2. \A j \in DOMAIN rs : ~Dropping(rs[j], e)
    BY <1>1, <1>4, <2>1
  <2>3. CASE e \in Held(t)
    BY <2>2, <2>3 DEF Coming
  <2>4. CASE Saving(rs[1], e)
    BY <1>1, <2>2, <2>4 DEF Coming, StillSaved
  <2> QED BY <1>4, <2>3, <2>4
<1> QED BY <1>2, <1>3, <1>4 DEF Owed, Coming

-----------------------------------------------------------------------------
(* The steps. *)

LEMMA MirrorFacts ==
  ASSUME HistoryAssumption, HistoryInv
  PROVE  /\ numbered \in Nat /\ table \in Seq(1..numbered) /\ mirror \in Seq(1..numbered)
         /\ stage.reply \in Seq(1..numbered) /\ requests \in Calls /\ Held(mirror) \subseteq 1..numbered
         /\ Cardinality(Held(mirror)) \in Nat
         /\ gone \subseteq 1..numbered /\ IsFiniteSet(gone) /\ Cardinality(gone) \in Nat
         /\ MAX_HISTORY_ENTRIES \in Nat \ {0}
<1>1. /\ numbered \in Nat /\ table \in Seq(1..numbered) /\ mirror \in Seq(1..numbered)
      /\ stage.reply \in Seq(1..numbered) /\ requests \in Calls /\ gone \in SUBSET (1..numbered)
  BY DEF HistoryInv, HistoryTyped, Calls
<1>2. IsFiniteSet(1..numbered)
  <2>1. 1 \in Int /\ numbered \in Int
    BY <1>1
  <2> QED BY ONLY <2>1, FS_Interval
<1>3. IsFiniteSet(gone) /\ Cardinality(gone) \in Nat
  BY <1>1, <1>2, FS_Subset, FS_CardinalityType
<1>4. Held(mirror) \subseteq 1..numbered /\ Cardinality(Held(mirror)) \in Nat
  BY <1>1, HeldIs, HeldCounted
<1> QED BY <1>1, <1>3, <1>4 DEF HistoryAssumption

\* What is shown grows, and nothing goes: as full as it was.
LEMMA StaysFull ==
  ASSUME HistoryAssumption, HistoryInv, HistoryInv', Full, Held(mirror) \subseteq Held(mirror'), gone' = gone
  PROVE  Full'
<1>1. mirror' \in Seq(1..numbered') /\ Cardinality(Held(mirror)) \in Nat /\ Cardinality(gone) \in Nat
      /\ MAX_HISTORY_ENTRIES \in Nat
  BY MirrorFacts DEF HistoryInv, HistoryTyped
<1>2. IsFiniteSet(Held(mirror')) /\ Cardinality(Held(mirror')) \in Nat
  BY <1>1, HeldCounted
<1>3. Cardinality(Held(mirror)) <= Cardinality(Held(mirror'))
  BY <1>2, FS_Subset
<1> QED BY <1>1, <1>2, <1>3 DEF Full

\* Steps that show more, and ask for what is shown or on its way.
LEMMA ShowStep ==
  ASSUME HistoryAssumption, HistoryInv, HistoryInv', MirrorInv, NoneTwice',
         gone' = gone, Held(mirror) \subseteq Held(mirror'), Orderly' => Orderly,
         Orderly' => \A e : Owed(e, stage'.at, table', requests') =>
           Owed(e, stage.at, table, requests) \/ e \in Held(mirror') \cup OnTheWay',
         Orderly' => OnTheWay \subseteq Held(mirror') \cup OnTheWay'
  PROVE  MirrorInv'
<1>1. ASSUME Orderly' PROVE Mirrored'
  <2>1. Mirrored
    BY <1>1 DEF MirrorInv
  <2>2. CASE Full
    BY <2>2, StaysFull DEF Mirrored
  <2>3. CASE \A e : Owed(e, stage.at, table, requests) => e \in Held(mirror) \cup OnTheWay
    <3>1. \A e : Owed(e, stage'.at, table', requests') => e \in Held(mirror') \cup OnTheWay'
      BY <1>1, <2>3
    <3> QED BY <3>1 DEF Mirrored
  <2> QED BY <2>1, <2>2, <2>3 DEF Mirrored
<1> QED BY <1>1 DEF MirrorInv

\* Steps that take something away, and have it dropped.
LEMMA HideStep ==
  ASSUME HistoryAssumption, HistoryInv, HistoryInv', MirrorInv, NoneTwice',
         NEW ids, ids \subseteq Held(mirror), NEW c \in [fn : Verbs, ids : SUBSET Nat],
         c.fn \in {"DeleteHistoryEntries", "ClearHistory"}, \A e \in ids : Dropping(c, e),
         requests' = Append(requests, c), gone' = gone \cup ids,
         Held(mirror') = Held(mirror) \ ids, Orderly' => Orderly, UNCHANGED <<table, stage>>
  PROVE  MirrorInv'
<1>1. ASSUME Orderly' PROVE Mirrored'
  <2>1. Mirrored /\ gone \cap Held(mirror) = {}
    BY <1>1 DEF MirrorInv, HistoryInv, Smooth
  <2>2. CASE Full
    <3>1. /\ IsFiniteSet(Held(mirror)) /\ IsFiniteSet(gone) /\ Cardinality(gone) \in Nat
          /\ Cardinality(Held(mirror)) \in Nat
      BY MirrorFacts, HeldCounted
    <3>2. IsFiniteSet(ids) /\ Cardinality(ids) \in Nat
      BY <3>1, FS_Subset, FS_CardinalityType
    <3>3. Cardinality(Held(mirror) \ ids) = Cardinality(Held(mirror)) - Cardinality(ids)
      <4>1. Held(mirror) \cap ids = ids
        OBVIOUS
      <4> QED BY <3>1, <4>1, FS_Difference
    <3>4. Cardinality(gone \cup ids) = Cardinality(gone) + Cardinality(ids)
      <4>1. gone \cap ids = {}
        BY <2>1
      <4>2. Cardinality(gone \cup ids) = Cardinality(gone) + Cardinality(ids) - Cardinality({})
        BY <3>1, <3>2, <4>1, FS_Union
      <4>3. Cardinality({}) = 0
        BY FS_EmptySet
      <4> QED BY <3>1, <3>2, <4>2, <4>3
    <3>5. Full'
      BY <2>2, <3>1, <3>2, <3>3, <3>4, MirrorFacts DEF Full
    <3> QED BY <3>5 DEF Mirrored
  <2>3. CASE \A e : Owed(e, stage.at, table, requests) => e \in Held(mirror) \cup OnTheWay
    <3>1. ASSUME NEW e, Owed(e, stage'.at, table', requests') PROVE e \in Held(mirror') \cup OnTheWay'
      <4>1. Owed(e, stage.at, table, Append(requests, c)) /\ requests \in Calls
        BY <3>1, MirrorFacts
      <4>2. Owed(e, stage.at, table, requests) /\ ~Dropping(c, e)
        BY <4>1, OwedAfter DEF Saving
      <4>3. e \notin ids
        BY <4>2
      <4> QED BY <2>3, <4>2, <4>3 DEF OnTheWay
    <3> QED BY <3>1 DEF Mirrored
  <2> QED BY <2>1, <2>2, <2>3 DEF Mirrored
<1> QED BY <1>1 DEF MirrorInv

LEMMA StartMirrors == ASSUME HistoryAssumption, HistoryInv, HistoryInv', MirrorInv, History!init PROVE MirrorInv'
<1> DEFINE c == [fn |-> "LoadHistory", ids |-> {}]
<1>1. /\ stage.at = "off" /\ stage' = [stage EXCEPT !.at = "load"] /\ requests' = Append(requests, c)
      /\ UNCHANGED <<mirror, panel, highlight, table, local, numbered, gone, allowance>>
  BY DEF History!init, History!Send, History!Keeps
<1>2. c \in [fn : Verbs, ids : SUBSET Nat] /\ c.fn = "LoadHistory" /\ requests \in Calls
  BY MirrorFacts DEF Verbs
<1> HIDE DEF c
<1>3. stage'.at = "load" /\ stage'.reply = stage.reply
  <2>1. stage \in [at : Stages, reply : Seq(1..numbered), tried : BOOLEAN]
    BY DEF HistoryInv, HistoryTyped
  <2> QED BY <1>1, <2>1
<1>4. NoneTwice' /\ (Orderly' => Orderly)
  BY <1>1, <1>3 DEF MirrorInv, NoneTwice, Orderly, History!Calm
<1>5. OnTheWay = {}
  BY <1>1 DEF OnTheWay
<1>6. ASSUME NEW e, Owed(e, stage'.at, table', requests') PROVE Owed(e, stage.at, table, requests)
  <2>1. Owed(e, stage.at, table, Append(requests, c))
    BY <1>1, <1>3, <1>6 DEF Owed
  <2> QED BY <1>2, <2>1, OwedAfter DEF Saving
<1> QED BY <1>1, <1>4, <1>5, <1>6, ShowStep

LEMMA BackendMirrors ==
  ASSUME HistoryAssumption, Distinct(OldLog), HistoryInv, HistoryInv', MirrorInv, History!Backend
  PROVE  MirrorInv'
<1>1. PICK k \in DOMAIN requests :
      /\ InOrder => k = 1
      /\ requests' = History!RemoveAt(requests, k)
      /\ UNCHANGED <<mirror, panel, highlight, local, numbered, gone>>
      /\ \/ /\ table' \in History!Served(requests[k])
            /\ stage' = IF requests[k].fn = "LoadHistory"
                          THEN [stage EXCEPT !.at = "answer", !.reply = History!Reverse(table)]
                        ELSE IF requests[k].fn = "ImportHistoryEntries" THEN [stage EXCEPT !.at = "imported"]
                        ELSE stage
            /\ UNCHANGED allowance
         \/ /\ allowance.faults > 0 /\ allowance' = [allowance EXCEPT !.faults = @ - 1]
            /\ stage' = IF requests[k].fn = "LoadHistory" THEN [stage EXCEPT !.at = "failed"]
                        ELSE IF requests[k].fn = "ImportHistoryEntries"
                          THEN [stage EXCEPT !.at = "answer", !.reply = <<>>, !.tried = TRUE]
                        ELSE stage
            /\ UNCHANGED table
  BY DEF History!Backend, History!Keeps
<1> DEFINE c == requests[k]
<1>2. /\ stage \in [at : Stages, reply : Seq(1..numbered), tried : BOOLEAN]
      /\ table \in Seq(1..numbered) /\ requests \in Calls
  BY MirrorFacts DEF HistoryInv, HistoryTyped
<1>3. NoneTwice'
  <2>1. Distinct(table) /\ Distinct(mirror) /\ Distinct(stage.reply)
    BY DEF MirrorInv, NoneTwice
  <2>2. Distinct(table')
    BY <1>1, <2>1, ServedIsAll
  <2>3. Distinct(History!Reverse(table)) /\ Distinct(<<>>)
    <3>1. Distinct(<<>>)
      BY DEF Distinct
    <3> QED BY <1>2, <2>1, <3>1, ReverseIsAll
  <2>4. stage'.reply \in {stage.reply, History!Reverse(table), <<>>}
    BY <1>1, <1>2
  <2> QED BY <1>1, <2>1, <2>2, <2>3, <2>4 DEF NoneTwice
<1>4. CASE allowance' # allowance
  <2>1. allowance.faults > 0 /\ allowance' = [allowance EXCEPT !.faults = @ - 1]
    BY <1>1, <1>4
  <2>2. /\ allowance \in [clicks : Int, faults : Int, restarts : Int] /\ allowance.faults <= HistoryFaults
        /\ HistoryFaults \in Nat
    BY DEF HistoryInv, HistoryTyped, HistoryAssumption
  <2>3. allowance'.faults < HistoryFaults
    BY <2>1, <2>2
  <2>4. ~Orderly'
    BY <2>2, <2>3 DEF Orderly, History!Calm
  <2> QED BY <1>3, <2>4 DEF MirrorInv
<1>5. CASE allowance' = allowance
  <2>1. /\ table' \in History!Served(c)
        /\ stage' = IF c.fn = "LoadHistory"
                      THEN [stage EXCEPT !.at = "answer", !.reply = History!Reverse(table)]
                    ELSE IF c.fn = "ImportHistoryEntries" THEN [stage EXCEPT !.at = "imported"]
                    ELSE stage
    <3>1. allowance.faults \in Int /\ allowance \in [clicks : Int, faults : Int, restarts : Int]
      BY DEF HistoryInv, HistoryTyped
    <3>2. [allowance EXCEPT !.faults = @ - 1] # allowance
      BY <3>1
    <3> QED BY <1>1, <1>5, <3>2
  <2>2. /\ \A e \in Held(table') : e \in Held(table) \/ Saving(c, e)
        /\ \A e : Dropping(c, e) => e \notin Held(table')
        /\ c.fn = "LoadHistory" => table' = table
    BY <2>1, ServedIs
  <2>3. ASSUME Orderly'
        PROVE  /\ Orderly /\ requests # <<>> /\ c = requests[1] /\ requests' = Tail(requests)
               /\ c.fn = "LoadHistory" => stage.at = "load"
               /\ c.fn = "ImportHistoryEntries" => stage.at = "import"
    <3>1. Orderly /\ Smooth /\ k = 1
      BY <1>1, <1>5, <2>3 DEF HistoryInv, Orderly, History!Calm
    <3>2. requests # <<>> /\ c = requests[1] /\ requests' = History!RemoveAt(requests, 1)
      BY <1>1, <1>2, <3>1
    <3>3. requests' = Tail(requests)
      BY <1>2, <3>2, FirstServed
    <3> HIDE DEF c
    <3>4. ReadFirst(stage.at, requests) /\ ImportOnce(stage.at, requests)
      BY <3>1 DEF Smooth
    <3> QED BY <1>2, <3>1, <3>2, <3>3, <3>4, AskedBefore
  <2> HIDE DEF c
  <2>4. ASSUME Orderly', NEW e, Owed(e, stage.at, table', requests') PROVE Owed(e, stage.at, table, requests)
    BY <1>2, <2>2, <2>3, <2>4, OwedServed
  <2>5. CASE c.fn = "LoadHistory"
    <3>1. stage'.at = "answer" /\ stage'.reply = History!Reverse(table) /\ table' = table
      BY <1>2, <2>1, <2>2, <2>5
    <3>2. Held(stage'.reply) = Held(table)
      BY <1>2, <3>1, ReverseIs
    <3>3. ASSUME Orderly' PROVE OnTheWay = {} /\ OnTheWay' = Held(table) /\ stage.at = "load"
      BY <2>3, <2>5, <3>1, <3>2, <3>3 DEF OnTheWay
    <3>4. ASSUME Orderly', NEW e, Owed(e, stage'.at, table', requests')
          PROVE  Owed(e, stage.at, table, requests) \/ e \in Held(mirror') \cup OnTheWay'
      <4>1. StillSaved(e, requests') \/ e \in Held(table)
        BY <3>1, <3>4 DEF Owed, Coming
      <4>2. StillSaved(e, requests') => Owed(e, stage.at, table', requests')
        BY <3>3, <3>4 DEF Owed
      <4> QED BY <2>4, <3>3, <3>4, <4>1, <4>2
    <3> QED BY <1>1, <1>3, <2>3, <3>3, <3>4, ShowStep
  <2>6. CASE c.fn = "ImportHistoryEntries"
    <3>1. stage'.at = "imported"
      BY <1>2, <2>1, <2>6
    <3>2. ASSUME Orderly' PROVE OnTheWay' = OnTheWay /\ stage.at = "import"
      BY <2>3, <2>6, <3>1, <3>2 DEF OnTheWay
    <3>3. ASSUME Orderly', NEW e, Owed(e, stage'.at, table', requests') PROVE Owed(e, stage.at, table, requests)
      <4>1. Owed(e, stage.at, table', requests')
        BY <3>1, <3>2, <3>3 DEF Owed
      <4> QED BY <2>4, <3>3, <4>1
    <3> QED BY <1>1, <1>3, <2>3, <3>2, <3>3, ShowStep
  <2>7. CASE c.fn \notin {"LoadHistory", "ImportHistoryEntries"}
    <3>1. stage' = stage
      BY <2>1, <2>7
    <3>2. OnTheWay' = OnTheWay
      BY <3>1 DEF OnTheWay
    <3> QED BY <1>1, <1>3, <2>3, <2>4, <3>1, <3>2, ShowStep
  <2> QED BY <2>5, <2>6, <2>7
<1> QED BY <1>4, <1>5

\* The front of a list: all of it, or as many as were asked for.
LEMMA SliceIsAll ==
  ASSUME NEW S, NEW s \in Seq(S), NEW n \in Nat, Distinct(s)
  PROVE  /\ Distinct(History!Slice(s, 1, n))
         /\ History!Slice(s, 1, n) = s \/ Len(History!Slice(s, 1, n)) = n
<1> DEFINE k == IF n > Len(s) THEN Len(s) ELSE n
<1>1. k \in Nat /\ k <= Len(s) /\ (k = Len(s) \/ k = n) /\ Len(s) \in Nat /\ 1 \in Nat \ {0}
  OBVIOUS
<1>2. History!Slice(s, 1, n) = SubSeq(s, 1, k)
  BY DEF History!Slice
<1> HIDE DEF k
<1>3. Distinct(SubSeq(s, 1, k))
  BY <1>1, PartIsAll
<1>4. Len(SubSeq(s, 1, k)) = k
  BY <1>1
<1>5. k = Len(s) => SubSeq(s, 1, k) = s
  BY <1>1
<1> QED BY <1>1, <1>2, <1>3, <1>4, <1>5

LEMMA AddMirrors ==
  ASSUME HistoryAssumption, HistoryInv, HistoryInv', MirrorInv, History!add
  PROVE  MirrorInv'
<1> DEFINE e == numbered + 1
           one == <<e>>
           q == one \o mirror
           m == History!Slice(q, 1, MAX_HISTORY_ENTRIES)
           c == [fn |-> "SaveHistoryEntry", ids |-> {e}]
<1>1. /\ stage.at # "off" /\ numbered' = e /\ History!Settle(m, panel, highlight) /\ requests' = Append(requests, c)
      /\ UNCHANGED <<table, local, stage, gone, allowance>>
  BY DEF History!add, History!Send
<1>2. /\ numbered \in Nat /\ mirror \in Seq(1..numbered) /\ Held(mirror) \subseteq 1..numbered /\ requests \in Calls
      /\ MAX_HISTORY_ENTRIES \in Nat /\ mirror \in Seq(1..e) /\ e \notin Held(mirror) /\ e \in Nat
  BY MirrorFacts, OneMore
<1>3. one \in Seq(1..e) /\ Held(one) = {e} /\ Distinct(one)
  BY <1>2 DEF Held, History!ToSet, Distinct
<1>4. c \in [fn : Verbs, ids : SUBSET Nat] /\ \A d : (Saving(c, d) => d = e) /\ ~Dropping(c, d)
  BY <1>2 DEF Verbs, Saving, Dropping
<1>5. mirror' = m
  BY <1>1 DEF History!Settle
<1> HIDE DEF e, one, c
<1>6. q \in Seq(1..e) /\ Held(q) = {e} \cup Held(mirror) /\ Distinct(q)
  <2>1. Held(one) \cap Held(mirror) = {}
    BY <1>2, <1>3
  <2>2. Distinct(mirror)
    BY DEF MirrorInv, NoneTwice
  <2>3. Distinct(one \o mirror)
    BY <1>2, <1>3, <2>1, <2>2, JoinIsAll
  <2> QED BY <1>2, <1>3, <2>3, JoinIs
<1> HIDE DEF q
<1>7. m \in Seq(1..e) /\ Distinct(m) /\ (m = q \/ Len(m) = MAX_HISTORY_ENTRIES)
  BY <1>2, <1>6, SliceIs, SliceIsAll
<1> HIDE DEF m
<1>8. NoneTwice'
  BY <1>1, <1>5, <1>7 DEF MirrorInv, NoneTwice
<1>9. Orderly' => Orderly
  BY <1>1 DEF Orderly, History!Calm
<1>10. CASE m = q
  <2>1. Held(mirror') = {e} \cup Held(mirror)
    BY <1>5, <1>6, <1>10
  <2>2. ASSUME NEW d, Owed(d, stage'.at, table', requests')
        PROVE  Owed(d, stage.at, table, requests) \/ d \in Held(mirror') \cup OnTheWay'
    <3>1. Owed(d, stage.at, table, Append(requests, c))
      BY <1>1, <2>2
    <3>2. Owed(d, stage.at, table, requests) \/ d = e
      BY <1>2, <1>4, <3>1, OwedAfter
    <3> QED BY <2>1, <3>2
  <2>3. OnTheWay' = OnTheWay
    BY <1>1 DEF OnTheWay
  <2> QED BY <1>1, <1>8, <1>9, <2>1, <2>2, <2>3, ShowStep
<1>11. CASE Len(m) = MAX_HISTORY_ENTRIES
  <2>1. Cardinality(Held(mirror')) = MAX_HISTORY_ENTRIES
    BY <1>5, <1>7, <1>11, HeldCounted
  <2>2. Cardinality(gone') \in Nat
    BY <1>1, MirrorFacts
  <2>3. Full'
    BY <1>2, <2>1, <2>2 DEF Full
  <2> QED BY <1>8, <2>3 DEF MirrorInv, Mirrored
<1> QED BY <1>7, <1>10, <1>11

LEMMA DropsMirror ==
  ASSUME HistoryAssumption, HistoryInv, HistoryInv', MirrorInv,
         History!clear \/ History!remove \/ History!deleteSelected
  PROVE  MirrorInv'
<1>0. /\ numbered \in Nat /\ mirror \in Seq(1..numbered) /\ panel \in Shown /\ Held(mirror) \subseteq 1..numbered
      /\ Distinct(mirror)
  BY HeldIs DEF HistoryInv, HistoryTyped, MirrorInv, NoneTwice
<1>1. ASSUME NEW ids, ids \subseteq Held(mirror), NEW c \in [fn : Verbs, ids : SUBSET Nat],
             c.fn \in {"DeleteHistoryEntries", "ClearHistory"}, \A e \in ids : Dropping(c, e),
             requests' = Append(requests, c), gone' = gone \cup ids, History!Click,
             Held(mirror') = Held(mirror) \ ids, Distinct(mirror'), UNCHANGED <<table, stage>>
      PROVE  MirrorInv'
  <2>1. Orderly' => Orderly
    BY <1>1, ClickIs DEF Orderly, History!Calm, Allowed
  <2>2. NoneTwice'
    BY <1>1 DEF MirrorInv, NoneTwice
  <2> QED BY <1>1, <2>1, <2>2, HideStep
<1>2. CASE History!clear
  <2> DEFINE c == [fn |-> "ClearHistory", ids |-> {}]
  <2>1. /\ History!Click /\ gone' = gone \cup Held(mirror) /\ mirror' = <<>>
        /\ requests' = Append(requests, c) /\ UNCHANGED <<table, stage>>
    BY <1>2 DEF History!clear, History!Deletes, History!Send, History!Settle, Held
  <2>2. c \in [fn : Verbs, ids : SUBSET Nat] /\ c.fn = "ClearHistory" /\ \A e : Dropping(c, e)
    BY DEF Verbs, Dropping
  <2>3. Held(mirror') = Held(mirror) \ Held(mirror) /\ Distinct(mirror')
    BY <2>1 DEF Held, History!ToSet, Distinct
  <2> HIDE DEF c
  <2> DEFINE ids == Held(mirror)
  <2>4. ids \subseteq Held(mirror) /\ gone' = gone \cup ids /\ Held(mirror') = Held(mirror) \ ids
    BY <2>1, <2>3
  <2> HIDE DEF ids
  <2> QED BY <1>1, <2>1, <2>2, <2>3, <2>4
<1>3. CASE History!remove
  <2> PICK e \in History!pagedHistory(History!filteredHistory(mirror, panel), panel.page) :
        /\ History!Click /\ History!Deletes({e}) /\ mirror' = History!Without(mirror, {e})
        /\ History!DeletedThere({e})
    BY <1>3 DEF History!remove, History!Settle
  <2> DEFINE c == [fn |-> "DeleteHistoryEntries", ids |-> {e}]
  <2>1. gone' = gone \cup {e} /\ requests' = Append(requests, c) /\ UNCHANGED <<table, stage>>
    BY DEF History!Deletes, History!DeletedThere, History!Send
  <2>2. e \in Held(mirror)
    <3> DEFINE f == History!filteredHistory(mirror, panel)
    <3>1. f \in Seq(Held(mirror))
      BY <1>0, FilteredIs
    <3>2. \E i \in DOMAIN f : e = f[i]
      BY DEF History!pagedHistory
    <3> HIDE DEF f
    <3> QED BY <3>1, <3>2
  <2>3. c \in [fn : Verbs, ids : SUBSET Nat] /\ c.fn = "DeleteHistoryEntries" /\ c.ids = {e}
    BY <1>0, <2>2 DEF Verbs
  <2> HIDE DEF c
  <2>4. Held(mirror') = Held(mirror) \ {e} /\ Distinct(mirror')
    BY <1>0, WithoutIsAll
  <2>5. {e} \subseteq Held(mirror) /\ \A d \in {e} : Dropping(c, d)
    BY <2>2, <2>3 DEF Dropping
  <2> QED BY <1>1, <2>1, <2>3, <2>4, <2>5
<1>4. CASE History!deleteSelected
  <2> DEFINE all == panel.selected
             c == [fn |-> "DeleteHistoryEntries", ids |-> all]
             ids == all \cap Held(mirror)
  <2>1. /\ History!Click /\ gone' = gone \cup ids /\ mirror' = History!Without(mirror, all)
        /\ requests' = Append(requests, c) /\ UNCHANGED <<table, stage>>
    BY <1>4 DEF History!deleteSelected, History!Deletes, History!DeletedThere, History!Send, History!Settle, Held
  <2>2. all \in SUBSET Nat
    BY <1>0 DEF Shown
  <2>3. c \in [fn : Verbs, ids : SUBSET Nat] /\ c.fn = "DeleteHistoryEntries" /\ c.ids = all
    BY <2>2 DEF Verbs
  <2> HIDE DEF c, all
  <2>4. Held(mirror') = Held(mirror) \ all /\ Distinct(mirror')
    BY <1>0, <2>1, WithoutIsAll
  <2>5. ids \subseteq Held(mirror) /\ Held(mirror') = Held(mirror) \ ids /\ \A d \in ids : Dropping(c, d)
    BY <2>3, <2>4 DEF Dropping
  <2> HIDE DEF ids
  <2> QED BY <1>1, <2>1, <2>3, <2>4, <2>5
<1> QED BY <1>2, <1>3, <1>4

LEMMA LoadedMirrors ==
  ASSUME HistoryAssumption, HistoryInv, HistoryInv', MirrorInv, History!Loaded
  PROVE  MirrorInv'
<1> DEFINE c == [fn |-> "ImportHistoryEntries", ids |-> {}]
           m == History!Merged(stage.reply)
<1>1. /\ stage.at = "answer" /\ UNCHANGED <<table, local, numbered, gone, allowance>>
      /\ \/ /\ stage.reply = <<>>
            /\ stage' = [stage EXCEPT !.at = "import"] /\ requests' = Append(requests, c)
            /\ UNCHANGED mirror
         \/ stage' = [stage EXCEPT !.at = "done"] /\ mirror' = m /\ UNCHANGED requests
  BY DEF History!Loaded, History!Send, History!Keeps, History!Settle
<1>2. /\ mirror \in Seq(1..numbered) /\ requests \in Calls /\ stage.reply \in Seq(1..numbered)
      /\ stage \in [at : Stages, reply : Seq(1..numbered), tried : BOOLEAN]
      /\ c \in [fn : Verbs, ids : SUBSET Nat] /\ c.fn = "ImportHistoryEntries"
  BY MirrorFacts DEF HistoryInv, HistoryTyped, Verbs
<1>3. Orderly' => Orderly
  BY <1>1 DEF Orderly, History!Calm
<1>4. NoneTwice /\ OnTheWay = Held(stage.reply)
  BY <1>1 DEF MirrorInv, OnTheWay
<1> HIDE DEF c
<1>5. CASE stage.reply = <<>> /\ stage' = [stage EXCEPT !.at = "import"] /\ requests' = Append(requests, c)
           /\ UNCHANGED mirror
  <2>1. stage'.at = "import" /\ stage'.reply = stage.reply
    BY <1>2, <1>5
  <2>2. NoneTwice'
    BY <1>1, <1>4, <1>5, <2>1 DEF NoneTwice
  <2>3. OnTheWay = {} /\ OnTheWay' = Held(OldLog)
    <3>1. Held(stage.reply) = {}
      BY <1>5 DEF Held, History!ToSet
    <3>2. OnTheWay' = Held(OldLog)
      BY <2>1 DEF OnTheWay
    <3> QED BY <1>4, <3>1, <3>2
  <2>4. ASSUME NEW d, Owed(d, stage'.at, table', requests')
        PROVE  Owed(d, stage.at, table, requests) \/ d \in Held(mirror') \cup OnTheWay'
    <3>1. Owed(d, stage.at, table, Append(requests, c))
      BY <1>1, <1>5, <2>1, <2>4 DEF Owed
    <3>2. Owed(d, stage.at, table, requests) \/ Saving(c, d)
      BY <1>2, <3>1, OwedAfter
    <3> QED BY <1>2, <2>3, <3>2 DEF Saving
  <2> QED BY <1>1, <1>3, <1>5, <2>2, <2>3, <2>4, ShowStep
<1>6. CASE stage' = [stage EXCEPT !.at = "done"] /\ mirror' = m /\ UNCHANGED requests
  <2>1. stage'.at = "done" /\ stage'.reply = stage.reply
    BY <1>2, <1>6
  <2>2. Held(m) = Held(mirror) \cup Held(stage.reply) /\ Distinct(m)
    BY <1>2, <1>4, MergedIsAll DEF NoneTwice
  <2> HIDE DEF m
  <2>3. NoneTwice'
    BY <1>1, <1>4, <1>6, <2>1, <2>2 DEF NoneTwice
  <2>4. OnTheWay' = {}
    BY <2>1 DEF OnTheWay
  <2>5. ASSUME NEW d, Owed(d, stage'.at, table', requests') PROVE Owed(d, stage.at, table, requests)
    BY <1>1, <1>6, <2>1, <2>5 DEF Owed
  <2> QED BY <1>1, <1>3, <1>4, <1>6, <2>2, <2>3, <2>4, <2>5, ShowStep
<1> QED BY <1>1, <1>5, <1>6

LEMMA MigratedMirrors ==
  ASSUME HistoryAssumption, Distinct(OldLog), HistoryInv, HistoryInv', MirrorInv, History!Migrated
  PROVE  MirrorInv'
<1> DEFINE m == History!Merged(local.live)
<1>1. /\ stage.at = "imported" /\ stage' = [stage EXCEPT !.at = "done"] /\ mirror' = m
      /\ UNCHANGED <<table, requests, numbered, gone, allowance>>
  BY DEF History!Migrated, History!Settle
<1>2. /\ mirror \in Seq(1..numbered) /\ local.live \in {<<>>, OldLog} /\ NoneTwice
      /\ stage \in [at : Stages, reply : Seq(1..numbered), tried : BOOLEAN]
  BY DEF HistoryInv, HistoryTyped, MirrorInv
<1>3. local.live \in Seq(1..numbered) /\ Distinct(local.live)
  <2>1. Distinct(<<>>)
    BY DEF Distinct
  <2> QED BY <1>2, <2>1, LegacyListed
<1>4. Held(m) = Held(mirror) \cup Held(local.live) /\ Distinct(m)
  BY <1>2, <1>3, MergedIsAll DEF NoneTwice
<1> HIDE DEF m
<1>5. stage'.at = "done" /\ stage'.reply = stage.reply
  BY <1>1, <1>2
<1>6. NoneTwice'
  BY <1>1, <1>2, <1>4, <1>5 DEF NoneTwice
<1>7. OnTheWay = Held(OldLog) /\ OnTheWay' = {}
  BY <1>1, <1>5 DEF OnTheWay
<1>8. ASSUME Orderly' PROVE Orderly /\ local.live = OldLog
  BY <1>1, <1>2, <1>8 DEF HistoryInv, Orderly, History!Calm, Smooth, LegacyIsNew
<1>9. ASSUME NEW d, Owed(d, stage'.at, table', requests') PROVE Owed(d, stage.at, table, requests)
  BY <1>1, <1>5, <1>9 DEF Owed
<1> QED BY <1>1, <1>4, <1>6, <1>7, <1>8, <1>9, ShowStep

LEMMA FallbackMirrors ==
  ASSUME HistoryAssumption, Distinct(OldLog), HistoryInv, MirrorInv, History!Fallback
  PROVE  MirrorInv'
<1> DEFINE m == IF local.live # <<>> THEN local.live ELSE local.backup
<1>1. /\ stage.at = "failed" /\ stage' = [stage EXCEPT !.at = "done"] /\ mirror' = m
      /\ UNCHANGED <<table, allowance>>
  BY DEF History!Fallback, History!Settle
<1>2. /\ m \in {<<>>, OldLog} /\ NoneTwice
      /\ stage \in [at : Stages, reply : Seq(1..numbered), tried : BOOLEAN]
  BY DEF HistoryInv, HistoryTyped, MirrorInv
<1> HIDE DEF m
<1>3. Distinct(m)
  <2>1. Distinct(<<>>)
    BY DEF Distinct
  <2> QED BY <1>2, <2>1
<1>4. NoneTwice'
  <2>1. stage'.reply = stage.reply
    BY <1>1, <1>2
  <2> QED BY <1>1, <1>2, <1>3, <2>1 DEF NoneTwice
<1>5. ~Orderly'
  BY <1>1 DEF HistoryInv, Smooth, Orderly, History!Calm
<1> QED BY <1>4, <1>5 DEF MirrorInv

LEMMA GesturesMirror ==
  ASSUME HistoryAssumption, HistoryInv, MirrorInv,
         \/ History!goToHistory \/ History!flashEnds \/ History!leave \/ History!operationFilter
         \/ History!toggleSort \/ History!turnPage \/ History!toggleSelect \/ History!toggleDiffSelection
  PROVE  MirrorInv'
<1>1. UNCHANGED <<table, requests, stage, gone>> /\ (allowance' = allowance \/ History!Click)
  BY DEF History!Rest, History!goToHistory, History!flashEnds, History!leave, History!operationFilter,
         History!toggleSort, History!turnPage, History!toggleSelect, History!toggleDiffSelection
<1>2. Orderly' => Orderly
  BY <1>1, ClickIs DEF Orderly, History!Calm, Allowed
<1>3. mirror' = mirror
  BY GesturesHistory
<1> QED BY <1>1, <1>2, <1>3 DEF MirrorInv, NoneTwice, Mirrored, Full, OnTheWay

LEMMA RestartMirrors == ASSUME MirrorInv, History!Restart PROVE MirrorInv'
<1>1. /\ requests' = <<>> /\ stage' = [at |-> "off", reply |-> <<>>, tried |-> FALSE] /\ mirror' = <<>>
      /\ table' = table
  BY DEF History!Restart
<1>2. NoneTwice'
  BY <1>1 DEF MirrorInv, NoneTwice, Distinct
<1>3. \A d : ~Owed(d, stage'.at, table', requests')
  BY <1>1 DEF Owed, StillSaved
<1> QED BY <1>2, <1>3 DEF MirrorInv, Mirrored

LEMMA InitMirror == ASSUME History!Init PROVE MirrorInv
<1>1. /\ requests = <<>> /\ stage = [at |-> "off", reply |-> <<>>, tried |-> FALSE] /\ mirror = <<>>
      /\ table = <<>>
  BY DEF History!Init
<1>2. NoneTwice
  BY <1>1 DEF NoneTwice, Distinct
<1>3. \A d : ~Owed(d, stage.at, table, requests)
  BY <1>1 DEF Owed, StillSaved
<1> QED BY <1>2, <1>3 DEF MirrorInv, Mirrored

LEMMA MirrorAlways == ASSUME HistoryAssumption, Distinct(OldLog) PROVE History!Spec => [](HistoryInv /\ MirrorInv)
<1>1. History!Init => MirrorInv
  BY InitMirror
<1>2. HistoryInv /\ HistoryInv' /\ MirrorInv /\ [History!Next]_(History!vars) => MirrorInv'
  <2> SUFFICES ASSUME HistoryInv, HistoryInv', MirrorInv, [History!Next]_(History!vars) PROVE MirrorInv'
    OBVIOUS
  <2>1. CASE History!Next
    BY <2>1, StartMirrors, BackendMirrors, LoadedMirrors, MigratedMirrors, FallbackMirrors, AddMirrors,
       DropsMirror, GesturesMirror, RestartMirrors, Zenon DEF History!Next
  <2>2. CASE UNCHANGED History!vars
    BY <2>2 DEF History!vars, MirrorInv, NoneTwice, Mirrored, Full, OnTheWay, Orderly, History!Calm
  <2> QED BY <2>1, <2>2
<1> QED BY <1>1, <1>2, HistoryAlways, PTL DEF History!Spec

\* HistoryIsTheTable (historyStore.js, init, remove, clear; storage.go,
\* query_history): once every call is served the mirror shows what the table
\* holds, unless it is full, and what was deleted is not there again, where an
\* older version left no entry twice, no call fails and calls are served in the
\* order they are sent.
THEOREM MirrorIsTheTable ==
  ASSUME HistoryAssumption, Distinct(OldLog), InOrder PROVE History!Spec => []HistoryIsTheTable
<1>1. HistoryInv /\ MirrorInv => History!MirrorsTheTable
  <2> SUFFICES ASSUME HistoryInv, MirrorInv, requests = <<>>, stage.at = "done", History!Calm
               PROVE  \/ Held(table) \subseteq Held(mirror)
                      \/ Len(mirror) + Cardinality(gone) >= MAX_HISTORY_ENTRIES
    BY CountingHistory DEF History!MirrorsTheTable, Held
  <2>1. Mirrored /\ OnTheWay = {}
    BY DEF MirrorInv, Orderly, OnTheWay
  <2>2. \A e \in Held(table) : Owed(e, stage.at, table, requests)
    BY DEF Owed, Coming
  <2>3. Cardinality(Held(mirror)) = Len(mirror)
    <3>1. mirror \in Seq(1..numbered) /\ Distinct(mirror)
      BY MirrorFacts DEF MirrorInv, NoneTwice
    <3> QED BY <3>1, HeldCounted
  <2> QED BY <2>1, <2>2, <2>3 DEF Mirrored, Full
<1>2. History!MirrorsTheTable /\ History!DeletedStaysDeleted => HistoryIsTheTable
  BY DEF HistoryIsTheTable
<1> QED BY <1>1, <1>2, MirrorAlways, DeletedIsGone, PTL
(***************************************************************************)
(* What the parts promise together.                                        *)
(***************************************************************************)
\* A row shows each of its samples once and in order, a session has one row,
\* and a history is raw samples or buckets but never both, whatever is loaded,
\* started and answered around them (pollingStore.js, MonitorPanel.svelte).
THEOREM RowsAreRight ==
  ASSUME PollAssumption PROVE Poll!Spec /\ Panel!Spec => []RowsAreTheSessions
<1>1. Poll!EachSampleOnceInOrder /\ Poll!OneRowPerSession /\ Panel!HistoryIsOneKind => RowsAreTheSessions
  BY DEF RowsAreTheSessions
<1> QED BY <1>1, OneRowEach, SamplesOnceInOrder, OneKindIsDrawn, PTL

\* Each event has one row, and what a gate held back is told with the next
\* notification, whatever pages and timers cross (eventsStore.js, burst.js).
THEOREM NewsIsTold ==
  ASSUME EventsAssumption, TailAssumption PROVE Events!Spec /\ Arrivals!Spec => []NewsIsToldOnce
<1>1. Events!KeyedRows /\ Arrivals!TailReported => NewsIsToldOnce
  BY DEF NewsIsToldOnce
<1> QED BY <1>1, OneRowPerEvent, HeldBackIsSaid, PTL

\* What somebody chose is left as it is by everything else that happens: the
\* view of a session, the window of a group of charts, the rows a cut leaves to
\* be paged back, the page an entry is looked for on (MonitorPanel.svelte,
\* MonitorChart.svelte, eventsStore.js, HistoryPanel.svelte).
THEOREM ChoicesAreKept ==
  ASSUME EventsAssumption, HistoryAssumption, RangesAssumption
  PROVE  Panel!Spec /\ Charts!Spec /\ Events!Spec /\ History!Spec => ChoicesStand
<1>1. Events!Spec => [][Events!CutsReachably]_Events!vars
  BY CutComesBack DEF Events!CutIsReachable
<1>2. /\ [Panel!FightsNoChoice]_Panel!vars /\ [Charts!GathersGroup]_Charts!vars
      /\ [Events!CutsReachably]_Events!vars /\ [History!Reveals]_History!vars
      => [/\ store # Null => [Panel!FightsNoChoice]_Panel!vars
          /\ chart # Null => [Charts!GathersGroup]_Charts!vars
          /\ journal # Null => [Events!CutsReachably]_Events!vars
          /\ table # Null => [History!Reveals]_History!vars
         ]_<<Panel!vars, Charts!vars, Events!vars, History!vars>>
  OBVIOUS
<1> QED BY <1>1, <1>2, ChosenStands, GestureGathers, RevealedIsShown, PTL DEF ChoicesStand
=============================================================================
