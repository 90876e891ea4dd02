-------------------------- MODULE SchedulesProofs --------------------------
(***************************************************************************)
(* Proofs about Schedules, for any number of plans, defects and rounds.    *)
(***************************************************************************)
EXTENDS Schedules, FiniteSetTheorems, TLAPS

Round == [plan : Plans, version : 1..MaxVersion, action : Actions, status : RoundStates,
          lapsed : BOOLEAN, item : [Defects -> ItemStates]]

RoundsInv ==
    /\ rounds \in Seq(Round) /\ Len(rounds) <= MaxRounds
    /\ pc \in Steps /\ (Working => cur > 0)

PlanType == [version : 1..MaxVersion, enabled : BOOLEAN, due : BOOLEAN, failures : Nat,
             action : Actions]

PlansInv == DOMAIN plans \subseteq Plans /\ plans \in [DOMAIN plans -> PlanType]

\* A plan only moves on, so that a round whose plan was changed stays behind it.
VersionsInv ==
    \A i \in DOMAIN rounds : rounds[i].plan \in DOMAIN plans =>
        rounds[i].version <= plans[rounds[i].plan].version

LateInv ==
    /\ late \in {0, 1}
    /\ pc \in {"idle", "claim", "start"} => late = 0
    /\ late = 1 => Touched(cur)

\* What the dispatcher has in hand at each of its steps.
HandInv ==
    /\ todo \subseteq Defects /\ existing \subseteq Defects /\ tasks \subseteq Defects
    /\ active \in Defects \cup {NoDefect} /\ reserved \in BOOLEAN /\ active \notin todo
    /\ pc \in {"idle", "claim", "scan"} => todo = {}
    /\ pc \in {"idle", "claim", "scan", "loop"} => active = NoDefect /\ reserved = FALSE
    /\ pc \in {"check", "note", "reserve"} => active # NoDefect /\ reserved = FALSE
    /\ pc \in {"start", "record", "item", "confirm"} => active # NoDefect /\ reserved = TRUE

\* The claims, against the ledger and what was started.
ClaimsInv ==
    /\ claims \in [Actions -> [Defects -> [round : 0..Len(rounds), recorded : BOOLEAN]]]
    /\ starts \subseteq (1..Len(rounds)) \X Defects
    /\ \A a \in Actions, d \in Defects : claims[a][d].round = 0 => claims[a][d].recorded = FALSE

\* The defects that the round has claimed.
Claimed == {d \in Defects : claims[rounds[cur].action][d].round = cur}

\* What the round has claimed is what it has reserved; nothing else in its hands.
OwnInv ==
    /\ pc = "scan" => Claimed = {}
    /\ Working => todo \cap Claimed = {}
    /\ Working /\ active # NoDefect => (active \in Claimed <=> reserved = TRUE)
    /\ pc \in {"record", "item", "confirm"} => <<cur, active>> \in starts
    /\ pc = "item" => claims[rounds[cur].action][active].recorded = TRUE

\* Candidates in hand that are neither skipped nor started yet.
Pending == IF pc \in {"check", "reserve", "start", "record", "item", "confirm"} THEN 1 ELSE 0

CountsInv ==
    /\ discovered \in Nat /\ skipped \in Nat /\ started \in Nat
    /\ pc = "scan" => skipped = 0 /\ started = 0
    /\ IF pc \in {"failed", "close"} THEN skipped + started <= discovered
       ELSE skipped + started + Cardinality(todo) + Pending <= discovered

IInv ==
    /\ RoundsInv /\ PlansInv /\ VersionsInv /\ LateInv /\ HandInv /\ ClaimsInv /\ OwnInv
    /\ CountsInv /\ LedgerExplainsClaims


LEMMA RoundsAre ==
    ASSUME RoundsInv
    PROVE  /\ Len(rounds) \in Nat /\ DOMAIN rounds = 1..Len(rounds) /\ cur = Len(rounds)
           /\ \A i \in 1..Len(rounds) : rounds[i] \in Round
           /\ Working => cur \in 1..Len(rounds)
BY DEF RoundsInv, cur

LEMMA SameRounds ==
    ASSUME RoundsInv, NEW r, DOMAIN r = DOMAIN rounds, \A i \in DOMAIN rounds : r[i] \in Round,
           r = [i \in DOMAIN rounds |-> r[i]]
    PROVE  r \in Seq(Round) /\ Len(r) = Len(rounds)
BY DEF RoundsInv

\* The steps that write about the candidate in hand.
Writes == NoteSkipped \/ Reserve \/ NoteStarted \/ NoteFailed

\* What a step may do to the rounds there are.
Stay ==
    /\ rounds' \in Seq(Round) /\ Len(rounds') = Len(rounds)
    /\ \A i \in 1..Len(rounds) :
          /\ rounds'[i].plan = rounds[i].plan /\ rounds'[i].version = rounds[i].version
          /\ rounds'[i].action = rounds[i].action
          /\ \A d \in Defects :
                (i = cur /\ d = active /\ Writes) \/ rounds'[i].item[d] = rounds[i].item[d]

LEMMA Rewritten ==
    ASSUME RoundsInv, HandInv, Working, NEW x \in Round, x.plan = rounds[cur].plan,
           x.version = rounds[cur].version, x.action = rounds[cur].action,
           \A d \in Defects : (d = active /\ Writes) \/ x.item[d] = rounds[cur].item[d],
           rounds' = [rounds EXCEPT ![cur] = x]
    PROVE  Stay /\ rounds'[cur] = x
<1>1. /\ DOMAIN rounds' = DOMAIN rounds /\ rounds'[cur] = x
      /\ \A i \in DOMAIN rounds : i # cur => rounds'[i] = rounds[i]
      /\ rounds' = [i \in DOMAIN rounds |-> rounds'[i]]
      /\ \A i \in DOMAIN rounds : rounds'[i] \in Round
  BY RoundsAre
<1>2. rounds' \in Seq(Round) /\ Len(rounds') = Len(rounds)
  BY <1>1, SameRounds
<1> QED
  BY <1>1, <1>2, RoundsAre DEF Stay

LEMMA RoundsStay ==
    ASSUME RoundsInv, HandInv, Next
    PROVE  Stay \/ \E p \in Plans : OpenRound(p)
<1>9. CASE UNCHANGED rounds
  BY <1>9, RoundsAre DEF Stay, RoundsInv
<1>1. ASSUME Working, NEW d, rounds' = [rounds EXCEPT ![cur].item[active] = d], d \in ItemStates,
             active \in Defects, Writes
      PROVE  Stay
  <2> DEFINE x == [rounds[cur] EXCEPT !.item[active] = d]
  <2>0. rounds[cur] \in Round
    BY <1>1, RoundsAre
  <2>1. /\ x \in Round /\ x.plan = rounds[cur].plan /\ x.version = rounds[cur].version
        /\ x.action = rounds[cur].action
        /\ \A e \in Defects : e # active => x.item[e] = rounds[cur].item[e]
    BY <1>1, <2>0 DEF Round
  <2>2. rounds' = [rounds EXCEPT ![cur] = x]
    BY <1>1, RoundsAre
  <2> HIDE DEF x
  <2> QED
    BY <1>1, <2>1, <2>2, Rewritten
<1>2. ASSUME Working, NEW failed \in BOOLEAN, FinishRun(failed)
      PROVE  Stay
  <2> DEFINE x == [rounds[cur] EXCEPT !.lapsed = TRUE, !.status = IF failed THEN "failed" ELSE "success"]
  <2>0. rounds[cur] \in Round
    BY <1>2, RoundsAre
  <2>1. /\ x \in Round /\ x.plan = rounds[cur].plan /\ x.version = rounds[cur].version
        /\ x.action = rounds[cur].action /\ x.item = rounds[cur].item
    BY <2>0 DEF Round, RoundStates
  <2>2. rounds' = [rounds EXCEPT ![cur] = x]
    BY <1>2, RoundsAre DEF FinishRun
  <2> HIDE DEF x
  <2> QED
    BY <1>2, <2>1, <2>2, Rewritten
<1>11. CASE Recover
  <2>1. /\ DOMAIN rounds' = DOMAIN rounds /\ rounds' = [i \in DOMAIN rounds |-> rounds'[i]]
        /\ \A i \in DOMAIN rounds :
              rounds'[i] = rounds[i] \/ rounds'[i] = [rounds[i] EXCEPT !.status = "interrupted"]
    BY <1>11 DEF Recover
  <2>2. \A i \in DOMAIN rounds : /\ rounds'[i] \in Round /\ rounds'[i].plan = rounds[i].plan
                                 /\ rounds'[i].version = rounds[i].version
                                 /\ rounds'[i].action = rounds[i].action
                                 /\ rounds'[i].item = rounds[i].item
    BY <2>1, RoundsAre DEF Round, RoundStates
  <2>3. rounds' \in Seq(Round) /\ Len(rounds') = Len(rounds)
    BY <2>1, <2>2, SameRounds
  <2> QED
    BY <2>2, <2>3, RoundsAre DEF Stay
<1>12. CASE \E p \in Plans : OpenRound(p)
  BY <1>12
<1>13. CASE NoteSkipped
  BY <1>13, <1>1, <1>2 DEF NoteSkipped, Writes, Working, HandInv, ItemStates
<1>14. CASE Reserve
  BY <1>1, <1>9, <1>14 DEF Reserve, Writes, Working, HandInv, ItemStates
<1>15. CASE NoteStarted
  BY <1>15, <1>1, <1>2 DEF NoteStarted, Writes, Working, HandInv, ItemStates
<1>16. CASE Succeed
  BY <1>16, <1>1, <1>2 DEF Succeed, FinishRun, Settled, Writes, Working, HandInv, ItemStates
<1>17. CASE NoteFailed
  BY <1>1, <1>9, <1>17 DEF NoteFailed, Verdict, Writes, Working, HandInv, ItemStates
<1>18. CASE CloseFailed
  BY <1>18, <1>1, <1>2 DEF CloseFailed, FinishRun, Settled, Writes, Working, HandInv, ItemStates
<1>19. CASE \E i \in 1..MaxRounds : Lapse(i)
  <2>1. PICK n \in DOMAIN rounds : rounds' = [rounds EXCEPT ![n].lapsed = TRUE]
    BY <1>19 DEF Lapse
  <2>2. /\ DOMAIN rounds' = DOMAIN rounds /\ rounds' = [i \in DOMAIN rounds |-> rounds'[i]]
        /\ \A i \in DOMAIN rounds :
              rounds'[i] = rounds[i] \/ rounds'[i] = [rounds[i] EXCEPT !.lapsed = TRUE]
    BY <2>1, RoundsAre
  <2>3. \A i \in DOMAIN rounds : /\ rounds'[i] \in Round /\ rounds'[i].plan = rounds[i].plan
                                 /\ rounds'[i].version = rounds[i].version
                                 /\ rounds'[i].action = rounds[i].action
                                 /\ rounds'[i].item = rounds[i].item
    <3>1. \A x \in Round : LET y == [x EXCEPT !.lapsed = TRUE] IN
              /\ y \in Round /\ y.plan = x.plan /\ y.version = x.version /\ y.action = x.action
              /\ y.item = x.item
      BY DEF Round
    <3> QED
      BY <2>2, <3>1, RoundsAre
  <2>4. rounds' \in Seq(Round) /\ Len(rounds') = Len(rounds)
    BY <2>2, <2>3, SameRounds
  <2> QED
    BY <2>3, <2>4, RoundsAre DEF Stay
<1> QED
  BY <1>9, <1>11, <1>12, <1>13, <1>14, <1>15, <1>16, <1>17, <1>18, <1>19
  DEF Next, Dispatch, Users, Time, vars, store, dispatcher, history, Locals, NothingDue, Scan,
      Choose, Skip, Consider, Start, Record, Confirm, Fail, Abandon, Crash, Create, Edit,
      Delete, StartElsewhere, BecomeDue, DeleteTask

\* A plan after a step of each kind.
LEMMA PlanFits ==
    ASSUME NEW x \in PlanType
    PROVE  /\ \A due \in BOOLEAN : /\ [x EXCEPT !.due = due] \in PlanType
                                   /\ [x EXCEPT !.due = due].version = x.version
           /\ \A failed \in BOOLEAN : /\ Settled(x, failed) \in PlanType
                                      /\ Settled(x, failed).version = x.version
           /\ \A a \in Actions, on \in BOOLEAN :
                 /\ x.version < MaxVersion => Edited(x, a, on) \in PlanType
                 /\ Edited(x, a, on).version = x.version + 1
                 /\ NewPlan(a, on) \in PlanType
<1>1. \A due \in BOOLEAN : /\ [x EXCEPT !.due = due] \in PlanType
                           /\ [x EXCEPT !.due = due].version = x.version
  BY DEF PlanType
<1>2. ASSUME NEW failed \in BOOLEAN
      PROVE  Settled(x, failed) \in PlanType /\ Settled(x, failed).version = x.version
  <2>1. \A k \in Nat, b \in BOOLEAN : /\ [x EXCEPT !.failures = k, !.enabled = b] \in PlanType
                                      /\ [x EXCEPT !.failures = k, !.enabled = b].version = x.version
    BY DEF PlanType
  <2> DEFINE n == IF failed THEN x.failures + 1 ELSE 0
  <2>2. n \in Nat
    BY DEF PlanType
  <2>3. PICK on \in BOOLEAN : on = (x.enabled /\ n < PauseAfter)
    BY DEF PlanType
  <2>4. Settled(x, failed) = [x EXCEPT !.failures = n, !.enabled = on]
    BY <2>3 DEF Settled
  <2> HIDE DEF n
  <2>5. /\ [x EXCEPT !.failures = n, !.enabled = on] \in PlanType
        /\ [x EXCEPT !.failures = n, !.enabled = on].version = x.version
    BY <2>1, <2>2
  <2> QED
    BY <2>4, <2>5
<1>3. ASSUME NEW a \in Actions, NEW on \in BOOLEAN
      PROVE  /\ x.version < MaxVersion => Edited(x, a, on) \in PlanType
             /\ Edited(x, a, on).version = x.version + 1
             /\ NewPlan(a, on) \in PlanType
  BY SchedulesAssumption DEF PlanType, Edited, NewPlan
<1> QED
  BY <1>1, <1>2, <1>3

\* What a step may do to the plans there are.
LEMMA PlansMove ==
    ASSUME PlansInv, Next
    PROVE  /\ PlansInv'
           /\ \A p \in DOMAIN plans' :
                 \/ p \in DOMAIN plans /\ plans'[p].version >= plans[p].version
                 \/ p \notin DOMAIN plans /\ \A i \in DOMAIN rounds : rounds[i].plan # p
<1>1. \A p \in DOMAIN plans : plans[p] \in PlanType /\ plans[p].version \in Nat
  BY DEF PlansInv, PlanType
<1>2. ASSUME NEW p \in DOMAIN plans, NEW x \in PlanType, x.version >= plans[p].version,
             plans' = [plans EXCEPT ![p] = x]
      PROVE  /\ PlansInv' /\ DOMAIN plans' = DOMAIN plans
             /\ \A q \in DOMAIN plans' : plans'[q].version >= plans[q].version
  BY <1>1, <1>2 DEF PlansInv
<1>3. CASE UNCHANGED plans
  BY <1>1, <1>3 DEF PlansInv
<1>4. CASE \E p \in Plans, a \in Actions, on \in BOOLEAN : Create(p, a, on)
  <2>1. PICK p \in Plans, a \in Actions, on \in BOOLEAN : Create(p, a, on)
    BY <1>4
  <2>2. NewPlan(a, on) \in PlanType
    BY SchedulesAssumption DEF NewPlan, PlanType
  <2> QED
    BY <1>1, <2>1, <2>2 DEF Create, PlansInv
<1>5. CASE \E p \in Plans, a \in Actions, on \in BOOLEAN : Edit(p, a, on)
  <2>1. PICK p \in Plans, a \in Actions, on \in BOOLEAN : Edit(p, a, on)
    BY <1>5
  <2>2. /\ p \in DOMAIN plans /\ plans' = [plans EXCEPT ![p] = Edited(plans[p], a, on)]
        /\ Edited(plans[p], a, on) \in PlanType
        /\ Edited(plans[p], a, on).version >= plans[p].version
    BY <1>1, <2>1, PlanFits DEF Edit
  <2> QED
    BY <1>2, <2>2
<1>6. CASE \E p \in Plans : BecomeDue(p) \/ OpenRound(p)
  <2>1. PICK p \in DOMAIN plans, due \in BOOLEAN : plans' = [plans EXCEPT ![p].due = due]
    BY <1>6 DEF BecomeDue, OpenRound, Due
  <2>2. /\ plans' = [plans EXCEPT ![p] = [plans[p] EXCEPT !.due = due]]
        /\ [plans[p] EXCEPT !.due = due] \in PlanType
        /\ [plans[p] EXCEPT !.due = due].version >= plans[p].version
    BY <1>1, <2>1, PlanFits DEF PlansInv
  <2> QED
    BY <1>2, <2>2
<1>7. CASE \E p \in Plans : Delete(p)
  BY <1>1, <1>7 DEF Delete, PlansInv
<1>8. CASE Succeed \/ CloseFailed
  <2>1. PICK failed \in BOOLEAN : FinishRun(failed)
    BY <1>8 DEF Succeed, CloseFailed
  <2>2. CASE plans' # plans
    <3> DEFINE p == rounds[cur].plan
    <3>1. /\ p \in DOMAIN plans /\ plans' = [plans EXCEPT ![p] = Settled(plans[p], failed)]
          /\ Settled(plans[p], failed) \in PlanType
          /\ Settled(plans[p], failed).version >= plans[p].version
      <4>1. p \in DOMAIN plans /\ plans' = [plans EXCEPT ![p] = Settled(plans[p], failed)]
        BY <2>1, <2>2 DEF FinishRun
      <4> QED
        BY <1>1, <4>1, PlanFits
    <3> QED
      BY <1>2, <3>1
  <2> QED
    BY <1>3, <2>2
<1> QED
  BY <1>3, <1>4, <1>5, <1>6, <1>7, <1>8
  DEF Next, Dispatch, Users, Time, store, Recover, NothingDue, Scan, Choose, Skip, NoteSkipped,
      Consider, Reserve, Start, Record, NoteStarted, Confirm, Fail, NoteFailed, Abandon, Crash,
      StartElsewhere, DeleteTask, Lapse

LEMMA OpenedIs ==
    ASSUME RoundsInv, PlansInv, NEW p \in Plans, OpenRound(p)
    PROVE  /\ rounds' \in Seq(Round) /\ Len(rounds') = Len(rounds) + 1 /\ Len(rounds') <= MaxRounds
           /\ \A i \in 1..Len(rounds) : rounds'[i] = rounds[i]
           /\ rounds'[Len(rounds) + 1] = NewRound(p) /\ p \in DOMAIN plans
<1>1. p \in DOMAIN plans /\ NewRound(p) \in Round
  BY DEF OpenRound, Due, NewRound, Round, PlansInv, PlanType, RoundStates, ItemStates
<1>2. rounds' = Append(rounds, NewRound(p)) /\ Len(rounds) < MaxRounds
  BY DEF OpenRound
<1> HIDE DEF NewRound
<1> QED
  BY <1>1, <1>2, SchedulesAssumption DEF RoundsInv

LEMMA RoundsStep == RoundsInv /\ PlansInv /\ HandInv /\ Next => RoundsInv'
<1> SUFFICES ASSUME RoundsInv, PlansInv, HandInv, Next
             PROVE  RoundsInv'
  OBVIOUS
<1>1. /\ rounds' \in Seq(Round) /\ Len(rounds') \in {Len(rounds), Len(rounds) + 1}
      /\ Len(rounds') <= MaxRounds
  BY RoundsStay, OpenedIs DEF Stay, RoundsInv
<1>2. pc' \in Steps /\ (Working' => Working \/ Len(rounds') = Len(rounds) + 1)
  <2>1. CASE \E p \in Plans : OpenRound(p)
    BY <2>1, OpenedIs DEF OpenRound, Steps
  <2>2. CASE UNCHANGED pc
    BY <2>2 DEF RoundsInv, Working
  <2> QED
    BY <2>1, <2>2 DEF RoundsInv, Steps, Working, Go, Leave, dispatcher,
      Next, Dispatch, Users, Time, Recover, NothingDue, Scan, Choose, Skip, NoteSkipped,
      Consider, Reserve, Start, Record, NoteStarted, Confirm, Succeed, Fail, NoteFailed,
      CloseFailed, Abandon, Crash, Create, Edit, Delete, StartElsewhere, DeleteTask, BecomeDue,
      Lapse
<1> QED
  BY <1>1, <1>2 DEF RoundsInv, cur

LEMMA VersionsStep == RoundsInv /\ PlansInv /\ HandInv /\ VersionsInv /\ Next => VersionsInv'
<1> SUFFICES ASSUME RoundsInv, PlansInv, HandInv, VersionsInv, Next
             PROVE  VersionsInv'
  OBVIOUS
<1>1. \A i \in 1..Len(rounds) : rounds[i] \in Round
  BY RoundsAre
<1>9. CASE \E p \in Plans : OpenRound(p)
  <2>1. PICK p \in Plans : OpenRound(p)
    BY <1>9
  <2>2. /\ rounds' \in Seq(Round) /\ Len(rounds') = Len(rounds) + 1
        /\ \A i \in 1..Len(rounds) : rounds'[i] = rounds[i]
        /\ rounds'[Len(rounds) + 1].plan = p /\ rounds'[Len(rounds) + 1].version = plans[p].version
        /\ p \in DOMAIN plans
    <3>1. NewRound(p).plan = p /\ NewRound(p).version = plans[p].version
      BY DEF NewRound
    <3> QED
      BY <2>1, <3>1, OpenedIs
  <2>3. DOMAIN plans' = DOMAIN plans /\ \A q \in DOMAIN plans : plans'[q].version = plans[q].version
    BY <2>1 DEF OpenRound, PlansInv
  <2> QED
    <3>1. plans[p].version \in Nat
      BY <2>2 DEF PlansInv, PlanType
    <3>2. DOMAIN rounds' = 1..(Len(rounds) + 1)
      BY <2>2
    <3> QED
      BY <2>2, <2>3, <3>1, <3>2, RoundsAre DEF VersionsInv
<1>2. CASE Stay
  <2>1. /\ DOMAIN rounds' = 1..Len(rounds) /\ DOMAIN rounds = 1..Len(rounds)
        /\ \A i \in 1..Len(rounds) : /\ rounds[i].version \in Nat
                                     /\ rounds'[i].plan = rounds[i].plan
                                     /\ rounds'[i].version = rounds[i].version
    BY <1>1, <1>2, RoundsAre DEF Stay, Round
  <2>2. \A q \in DOMAIN plans' : /\ plans'[q].version \in Nat
                                 /\ q \in DOMAIN plans => plans[q].version \in Nat
    BY PlansMove DEF PlansInv, PlanType
  <2>3. ASSUME NEW i \in 1..Len(rounds), rounds[i].plan \in DOMAIN plans'
        PROVE  rounds[i].version <= plans'[rounds[i].plan].version
    BY <2>1, <2>2, <2>3, PlansMove DEF VersionsInv
  <2> QED
    BY <2>1, <2>3 DEF VersionsInv
<1> QED
  BY <1>2, <1>9, RoundsStay

LEMMA TouchedStays ==
    ASSUME RoundsInv, PlansInv, HandInv, VersionsInv, Next, Working, Working', Touched(cur)
    PROVE  Touched(cur)'
<1>1. Working /\ ~ (pc = "claim")
  BY DEF Working
<1>2. Stay
  BY <1>1, RoundsStay DEF OpenRound
<1> DEFINE p == rounds[cur].plan
<1>3. /\ cur \in 1..Len(rounds) /\ rounds[cur] \in Round /\ cur' = cur
      /\ rounds'[cur].plan = p /\ rounds'[cur].version = rounds[cur].version
  BY <1>1, <1>2, RoundsAre DEF Stay, cur
<1>4. p \in DOMAIN plans => plans[p].version > rounds[cur].version
  BY <1>3, RoundsAre DEF Touched, VersionsInv, PlansInv, PlanType, Round
<1>5. p \in DOMAIN plans' => p \in DOMAIN plans /\ plans'[p].version >= plans[p].version
  BY <1>3, RoundsAre, PlansMove
<1>6. p \in DOMAIN plans' => plans'[p].version \in Nat
  BY PlansMove DEF PlansInv, PlanType
<1> QED
  BY <1>3, <1>4, <1>5, <1>6 DEF Touched, PlansInv, PlanType, Round

LEMMA LateStep ==
    RoundsInv /\ PlansInv /\ HandInv /\ VersionsInv /\ LateInv /\ Next => LateInv'
<1> SUFFICES ASSUME RoundsInv, PlansInv, HandInv, VersionsInv, LateInv, Next
             PROVE  LateInv'
  OBVIOUS
<1>1. late = 1 => Working
  BY DEF LateInv, Working, RoundsInv, Steps
<1>2. CASE UNCHANGED late /\ Working' /\ (pc' = "start" => pc = "start")
  BY <1>1, <1>2, TouchedStays DEF LateInv, Working
<1>3. CASE late' = 0
  BY <1>3 DEF LateInv
<1>4. CASE Reserve
  <2>1. Current(cur) => ~Touched(cur)
    BY DEF Current, Touched
  <2> QED
    BY <1>1, <1>2, <1>4, <2>1 DEF Reserve, LateInv, Working, history, Go
<1>5. CASE \E replied \in BOOLEAN : Start(replied)
  <2>1. late = 0 /\ late' = (IF Touched(cur) THEN late + 1 ELSE late) /\ Working /\ Working'
    BY <1>5 DEF Start, LateInv, Working, Go
  <2>2. late' = 1 => Touched(cur)'
    BY <2>1, TouchedStays
  <2> QED
    BY <1>5, <2>1, <2>2 DEF LateInv, Start, Go
<1>6. CASE UNCHANGED <<pc, late>>
  BY <1>1, <1>2, <1>3, <1>6 DEF LateInv, Working
<1> QED
  BY <1>1, <1>2, <1>3, <1>4, <1>5, <1>6
  DEF LateInv, Working, Go, Leave, dispatcher, history, Recover, NothingDue, OpenRound, Scan,
      Choose, Skip, NoteSkipped, Consider, Record, NoteStarted, Confirm, Succeed, Fail,
      NoteFailed, CloseFailed, Abandon, Crash, Create, Edit, Delete, StartElsewhere, DeleteTask,
      BecomeDue, Lapse, Next, Dispatch, Users, Time


LEMMA HandStep == HandInv /\ Next => HandInv'
<1> SUFFICES ASSUME HandInv, Next
             PROVE  HandInv'
  OBVIOUS
<1>9. CASE UNCHANGED <<tasks, dispatcher>>
  BY <1>9 DEF dispatcher, HandInv
<1>11. CASE Recover
  BY <1>11, SchedulesAssumption DEF Recover, Abandoned, HandInv, Go, Leave, Locals, Working, dispatcher
<1>12. CASE NothingDue
  BY <1>12, SchedulesAssumption DEF NothingDue, HandInv, Go, Leave, Locals, Working, dispatcher
<1>13. CASE \E p \in Plans : OpenRound(p)
  BY <1>13, SchedulesAssumption DEF OpenRound, NewRound, Due, HandInv, Go, Leave, Locals, Working, dispatcher
<1>14. CASE \E found \in SUBSET Defects : Scan(found)
  BY <1>14, SchedulesAssumption DEF Scan, HandInv, Go, Leave, Locals, Working, dispatcher
<1>15. CASE \E d \in Defects : Choose(d)
  BY <1>15, SchedulesAssumption DEF Choose, HandInv, Go, Leave, Locals, Working, dispatcher
<1>16. CASE Skip
  BY <1>16, SchedulesAssumption DEF Skip, HandInv, Go, Leave, Locals, Working, dispatcher
<1>17. CASE NoteSkipped
  BY <1>17, SchedulesAssumption DEF NoteSkipped, HandInv, Go, Leave, Locals, Working, dispatcher
<1>18. CASE Consider
  BY <1>18, SchedulesAssumption DEF Consider, HandInv, Go, Leave, Locals, Working, dispatcher
<1>19. CASE Reserve
  BY <1>19, SchedulesAssumption DEF Reserve, Claimable, HandInv, Go, Leave, Locals, Working, dispatcher
<1>20. CASE \E replied \in BOOLEAN : Start(replied)
  BY <1>20, SchedulesAssumption DEF Start, HandInv, Go, Leave, Locals, Working, dispatcher
<1>21. CASE Record
  BY <1>21, SchedulesAssumption DEF Record, HandInv, Go, Leave, Locals, Working, dispatcher
<1>22. CASE NoteStarted
  BY <1>22, SchedulesAssumption DEF NoteStarted, HandInv, Go, Leave, Locals, Working, dispatcher
<1>23. CASE Confirm
  BY <1>23, SchedulesAssumption DEF Confirm, HandInv, Go, Leave, Locals, Working, dispatcher
<1>24. CASE Succeed
  BY <1>24, SchedulesAssumption DEF Succeed, FinishRun, Settled, HandInv, Go, Leave, Locals, Working, dispatcher
<1>25. CASE Fail
  BY <1>25, SchedulesAssumption DEF Fail, HandInv, Go, Leave, Locals, Working, dispatcher
<1>26. CASE NoteFailed
  BY <1>26, SchedulesAssumption DEF NoteFailed, Verdict, HandInv, Go, Leave, Locals, Working, dispatcher
<1>27. CASE CloseFailed
  BY <1>27, SchedulesAssumption DEF CloseFailed, FinishRun, Settled, HandInv, Go, Leave, Locals, Working, dispatcher
<1>28. CASE Abandon
  BY <1>28, SchedulesAssumption DEF Abandon, HandInv, Go, Leave, Locals, Working, dispatcher
<1>29. CASE Crash
  BY <1>29, SchedulesAssumption DEF Crash, HandInv, Go, Leave, Locals, Working, dispatcher
<1>30. CASE \E d \in Defects : StartElsewhere(d) \/ DeleteTask(d)
  BY <1>30, SchedulesAssumption DEF StartElsewhere, DeleteTask, HandInv, Go, Leave, Locals, Working, dispatcher
<1> QED
  BY <1>9, <1>11, <1>12, <1>13, <1>14, <1>15, <1>16, <1>17, <1>18, <1>19, <1>20, <1>21, <1>22, <1>23,
     <1>24, <1>25, <1>26, <1>27, <1>28, <1>29, <1>30
  DEF Next, Dispatch, Users, Time, vars, store, dispatcher, history, Locals, Create, Edit,
      Delete, BecomeDue, Lapse, DeleteTask

\* What a step writes into the ledger, about the candidate in hand.
LEMMA Written ==
    ASSUME RoundsInv, Working, active \in Defects, NEW x,
           rounds' = [rounds EXCEPT ![cur].item[active] = x]
    PROVE  rounds'[cur].item[active] = x
<1>1. cur \in DOMAIN rounds /\ rounds[cur] \in Round /\ rounds \in Seq(Round)
  BY RoundsAre DEF RoundsInv
<1> QED
  BY <1>1 DEF Round

ClaimType(known) == [round : known, recorded : BOOLEAN]

\* What a step does to the claims.
LEMMA ClaimsMove ==
    ASSUME RoundsInv, PlansInv, HandInv, ClaimsInv, Next
    PROVE  LET a == rounds[cur].action IN
           \/ UNCHANGED claims /\ ~Record /\ ~ (Reserve /\ pc' = "start")
           \/ /\ Record \/ (Reserve /\ pc' = "start")
              /\ a \in Actions /\ active \in Defects
              /\ claims' \in [Actions -> [Defects -> ClaimType(0..Len(rounds))]]
              /\ \A b \in Actions, d \in Defects :
                    b # a \/ d # active => claims'[b][d] = claims[b][d]
              /\ Reserve => /\ claims[a][active].round = 0 /\ claims'[a][active].round = cur
                            /\ claims'[a][active].recorded = claims[a][active].recorded
              /\ Record => /\ claims'[a][active].round = claims[a][active].round
                           /\ claims'[a][active].recorded =
                                 (claims[a][active].recorded \/ claims[a][active].round = cur)
<1> DEFINE a == rounds[cur].action
<1>1. /\ claims \in [Actions -> [Defects -> ClaimType(0..Len(rounds))]]
  BY DEF ClaimsInv, ClaimType
<1>2. Working => a \in Actions /\ cur \in 0..Len(rounds)
  BY RoundsAre DEF Round
<1>3. ASSUME a \in Actions, active \in Defects, NEW n \in 0..Len(rounds),
             claims' = [claims EXCEPT ![a][active].round = n]
      PROVE  /\ claims' \in [Actions -> [Defects -> ClaimType(0..Len(rounds))]]
             /\ \A b \in Actions, d \in Defects :
                    b # a \/ d # active => claims'[b][d] = claims[b][d]
             /\ claims'[a][active].round = n
             /\ claims'[a][active].recorded = claims[a][active].recorded
  <2> DEFINE x == [claims[a][active] EXCEPT !.round = n]
  <2>1. x \in ClaimType(0..Len(rounds)) /\ x.round = n /\ x.recorded = claims[a][active].recorded
    <3>1. PICK known : known = 0..Len(rounds)
      OBVIOUS
    <3>2. claims[a][active] \in ClaimType(known) /\ n \in known
      BY <1>1, <1>3, <3>1
    <3>3. x \in ClaimType(known) /\ x.round = n /\ x.recorded = claims[a][active].recorded
      BY <3>2 DEF ClaimType
    <3> QED
      BY <3>1, <3>3
  <2>2. claims' = [claims EXCEPT ![a] = [claims[a] EXCEPT ![active] = x]]
    BY <1>1, <1>3
  <2> HIDE DEF x, a
  <2> QED
    BY <1>1, <1>3, <2>1, <2>2
<1>4. ASSUME a \in Actions, active \in Defects, NEW on \in BOOLEAN,
             claims' = [claims EXCEPT ![a][active].recorded = on]
      PROVE  /\ claims' \in [Actions -> [Defects -> ClaimType(0..Len(rounds))]]
             /\ \A b \in Actions, d \in Defects :
                    b # a \/ d # active => claims'[b][d] = claims[b][d]
             /\ claims'[a][active].recorded = on
             /\ claims'[a][active].round = claims[a][active].round
  <2> DEFINE x == [claims[a][active] EXCEPT !.recorded = on]
  <2>1. x \in ClaimType(0..Len(rounds)) /\ x.recorded = on /\ x.round = claims[a][active].round
    BY <1>1, <1>4 DEF ClaimType
  <2>2. claims' = [claims EXCEPT ![a] = [claims[a] EXCEPT ![active] = x]]
    BY <1>1, <1>4
  <2> HIDE DEF x, a
  <2> QED
    BY <1>1, <1>4, <2>1, <2>2
<1>5. CASE Reserve
  <2>1. a \in Actions /\ cur \in 0..Len(rounds) /\ active \in Defects
    BY <1>2, <1>5 DEF Reserve, Working, HandInv
  <2>2. \/ /\ claims' = [claims EXCEPT ![a][active].round = cur] /\ pc' = "start"
           /\ claims[a][active].round = 0
        \/ UNCHANGED claims /\ pc' = "note"
    BY <1>5 DEF Reserve, Claimable, Go
  <2>3. ~Record
    BY <1>5 DEF Reserve, Record
  <2> HIDE DEF a
  <2> QED
    BY <1>3, <1>5, <2>1, <2>2, <2>3 DEF a
<1>6. CASE Record
  <2>1. a \in Actions /\ active \in Defects
    BY <1>2, <1>6 DEF Record, Working, HandInv
  <2>2. PICK on \in BOOLEAN : on = (claims[a][active].recorded \/ claims[a][active].round = cur)
    BY <1>1, <2>1 DEF ClaimType
  <2>3. claims' = [claims EXCEPT ![a][active].recorded = on]
    BY <1>6, <2>2 DEF Record
  <2>4. ~Reserve
    BY <1>6 DEF Reserve, Record
  <2> HIDE DEF a
  <2> QED
    BY <1>4, <1>6, <2>1, <2>2, <2>3, <2>4 DEF a
<1>7. CASE UNCHANGED claims /\ ~Record /\ ~Reserve
  BY <1>7
<1> QED
  BY <1>5, <1>6, <1>7
  DEF Next, Dispatch, Users, Time, store, Recover, NothingDue, OpenRound, Scan, Choose, Skip,
      NoteSkipped, Consider, Start, NoteStarted, Confirm, Succeed, Fail, NoteFailed, CloseFailed,
      Abandon, Crash, Create, Edit, Delete, StartElsewhere, DeleteTask, BecomeDue, Lapse

LEMMA ClaimsStep ==
    RoundsInv /\ RoundsInv' /\ PlansInv /\ HandInv /\ ClaimsInv /\ Next => ClaimsInv'
<1> SUFFICES ASSUME RoundsInv, RoundsInv', PlansInv, HandInv, ClaimsInv, Next
             PROVE  ClaimsInv'
  OBVIOUS
<1>1. Len(rounds) \in Nat /\ Len(rounds') \in Nat /\ Len(rounds) <= Len(rounds')
  BY RoundsStay, RoundsAre, OpenedIs DEF Stay
<1>2. /\ 0..Len(rounds) \subseteq 0..Len(rounds') /\ 1..Len(rounds) \subseteq 1..Len(rounds')
  BY <1>1
<1>3. /\ claims \in [Actions -> [Defects -> ClaimType(0..Len(rounds))]]
      /\ claims' \in [Actions -> [Defects -> ClaimType(0..Len(rounds))]]
  BY ClaimsMove DEF ClaimsInv, ClaimType
<1>4. claims' \in [Actions -> [Defects -> [round : 0..Len(rounds'), recorded : BOOLEAN]]]
  BY <1>2, <1>3 DEF ClaimType
<1>5. starts' \subseteq (1..Len(rounds')) \X Defects
  <2>1. starts \subseteq (1..Len(rounds')) \X Defects
    BY <1>2 DEF ClaimsInv
  <2>2. CASE \E replied \in BOOLEAN : Start(replied)
    <3>1. starts' = starts \cup {<<cur, active>>} /\ pc = "start"
      BY <2>2 DEF Start
    <3>2. cur \in 1..Len(rounds) /\ active \in Defects
      BY <3>1, RoundsAre DEF Working, HandInv
    <3>3. <<cur, active>> \in (1..Len(rounds')) \X Defects
      BY <1>2, <3>2
    <3> QED
      BY <2>1, <3>1, <3>3
  <2>3. CASE UNCHANGED starts
    BY <2>1, <2>3
  <2> QED
    BY <2>2, <2>3
    DEF Next, Dispatch, Users, Time, history, Recover, NothingDue, OpenRound, Scan, Choose, Skip,
        NoteSkipped, Consider, Reserve, Record, NoteStarted, Confirm, Succeed, Fail, NoteFailed,
        CloseFailed, Abandon, Crash, Create, Edit, Delete, StartElsewhere, DeleteTask, BecomeDue,
        Lapse
<1>6. ASSUME NEW a \in Actions, NEW d \in Defects, claims'[a][d].round = 0
      PROVE  claims'[a][d].recorded = FALSE
  <2>1. claims[a][d].round = 0 => claims[a][d].recorded = FALSE
    BY DEF ClaimsInv
  <2>2. CASE claims'[a][d] = claims[a][d]
    BY <1>6, <2>1, <2>2
  <2>3. CASE Record \/ Reserve
    <3>1. cur \in 1..Len(rounds)
      BY <2>3, RoundsAre DEF Record, Reserve, Working
    <3>2. cur # 0
      BY <3>1
    <3> QED
      BY <1>6, <2>1, <2>2, <3>2, ClaimsMove
  <2> QED
    BY <2>2, <2>3, ClaimsMove
<1> QED
  BY <1>4, <1>5, <1>6 DEF ClaimsInv

LEMMA ClaimedMoves ==
    ASSUME RoundsInv, PlansInv, HandInv, ClaimsInv, Next, Stay, Working
    PROVE  /\ cur' = cur /\ rounds'[cur].action = rounds[cur].action
           /\ Claimed' = IF Reserve /\ pc' = "start" THEN Claimed \cup {active} ELSE Claimed
<1> DEFINE a == rounds[cur].action
<1>1. cur' = cur /\ rounds'[cur].action = a /\ cur \in 1..Len(rounds) /\ a \in Actions
  BY RoundsAre DEF Stay, cur, Round
<1>2. /\ Claimed' = {d \in Defects : claims'[a][d].round = cur}
      /\ Claimed = {d \in Defects : claims[a][d].round = cur}
  BY <1>1 DEF Claimed
<1> HIDE DEF a
<1>3. CASE UNCHANGED claims /\ ~ (Reserve /\ pc' = "start")
  BY <1>1, <1>2, <1>3 DEF a
<1>4. CASE Record
  <2>1. \A d \in Defects : claims'[a][d].round = claims[a][d].round
    BY <1>1, <1>4, ClaimsMove DEF a
  <2>2. ~ Reserve
    BY <1>4 DEF Record, Reserve
  <2> QED
    BY <1>1, <1>2, <2>1, <2>2 DEF a
<1>5. CASE Reserve /\ pc' = "start"
  <2>1. /\ active \in Defects /\ claims'[a][active].round = cur
        /\ \A d \in Defects : d # active => claims'[a][d] = claims[a][d]
    BY <1>1, <1>5, ClaimsMove DEF Reserve, Record, a
  <2> QED
    BY <1>1, <1>2, <1>5, <2>1 DEF a
<1> QED
  BY <1>1, <1>3, <1>4, <1>5, ClaimsMove DEF a

LEMMA OwnStep ==
    RoundsInv /\ PlansInv /\ HandInv /\ ClaimsInv /\ OwnInv /\ HandInv' /\ Next => OwnInv'
<1> SUFFICES ASSUME RoundsInv, PlansInv, HandInv, ClaimsInv, OwnInv, HandInv', Next
             PROVE  OwnInv'
  OBVIOUS
<1>1. CASE \E p \in Plans : OpenRound(p)
  <2>1. Len(rounds') = Len(rounds) + 1 /\ cur' = Len(rounds) + 1 /\ pc' = "scan"
        /\ rounds'[cur'].action \in Actions /\ UNCHANGED claims
    <3>1. PICK p \in Plans : OpenRound(p)
      BY <1>1
    <3>2. /\ rounds' \in Seq(Round) /\ Len(rounds') = Len(rounds) + 1
      BY <3>1, OpenedIs
    <3>3. cur' = Len(rounds) + 1 /\ rounds'[Len(rounds) + 1] \in Round
      BY <3>2, RoundsAre DEF cur
    <3> QED
      BY <3>1, <3>2, <3>3 DEF OpenRound, Round, Go
  <2>2. \A a \in Actions, d \in Defects : claims[a][d].round \in 0..Len(rounds)
    BY DEF ClaimsInv
  <2>3. Claimed' = {}
    BY <2>1, <2>2, RoundsAre DEF Claimed
  <2> QED
    BY <2>1, <2>3 DEF OwnInv, HandInv, Working
<1>2. CASE ~ Working'
  BY <1>2 DEF OwnInv, Working
<1>3. ASSUME Working, Working', Stay
      PROVE  OwnInv'
  <2>1. cur' = cur /\ rounds'[cur].action = rounds[cur].action
        /\ Claimed' = IF Reserve /\ pc' = "start" THEN Claimed \cup {active} ELSE Claimed
    BY <1>3, ClaimedMoves
  <2>2. Claimed \subseteq Defects /\ NoDefect \notin Defects
    BY SchedulesAssumption DEF Claimed
  <2>3. CASE UNCHANGED dispatcher /\ UNCHANGED starts /\ UNCHANGED claims
    BY <1>3, <2>1, <2>3 DEF OwnInv, dispatcher, Reserve
  <2>4. CASE Reserve
    BY <1>3, <2>1, <2>2, <2>4 DEF OwnInv, HandInv, Reserve, Go
  <2>5. CASE Record
    <3>1. /\ active \in Claimed /\ pc' = "item" /\ active' = active /\ todo' = todo
          /\ reserved' = reserved /\ starts' = starts /\ <<cur, active>> \in starts
          /\ active # NoDefect /\ ~Reserve
      BY <1>3, <2>5 DEF OwnInv, HandInv, Record, Locals, history, Go, Reserve
    <3>2. claims[rounds[cur].action][active].round = cur
      BY <3>1 DEF Claimed
    <3>3. claims'[rounds[cur].action][active].recorded = TRUE
      BY <2>5, <3>1, <3>2, ClaimsMove
    <3> QED
      BY <1>3, <2>1, <3>1, <3>3 DEF OwnInv, HandInv
  <2>6. CASE \E replied \in BOOLEAN : Start(replied)
    BY <1>3, <2>1, <2>6 DEF OwnInv, HandInv, Start, Locals, Go, Reserve
  <2>7. CASE (\E found \in SUBSET Defects : Scan(found)) \/ (\E d \in Defects : Choose(d))
    BY <1>3, <2>1, <2>2, <2>7 DEF OwnInv, HandInv, Scan, Choose, Go, Reserve, store, history
  <2>8. CASE Skip \/ NoteSkipped \/ Consider \/ NoteStarted \/ Confirm \/ Fail \/ NoteFailed
    BY <1>3, <2>1, <2>2, <2>8
    DEF OwnInv, HandInv, Skip, NoteSkipped, Consider, NoteStarted, Confirm, Fail, NoteFailed,
        Go, Locals, Reserve, store, history
  <2> QED
    BY <1>3, <2>3, <2>4, <2>5, <2>6, <2>7, <2>8
    DEF Next, Dispatch, Users, Time, store, history, dispatcher, Working, Go, Leave, Recover,
        NothingDue, OpenRound, Succeed, CloseFailed, Abandon, Crash, Create, Edit, Delete,
        StartElsewhere, DeleteTask, BecomeDue, Lapse
<1>4. ~Working => ~Working' \/ \E p \in Plans : OpenRound(p)
  BY DEF Next, Dispatch, Users, Time, Working, Go, Leave, dispatcher, Recover, NothingDue, Scan,
         Choose, Skip, NoteSkipped, Consider, Reserve, Start, Record, NoteStarted, Confirm,
         Succeed, Fail, NoteFailed, CloseFailed, Abandon, Crash, Create, Edit, Delete,
         StartElsewhere, DeleteTask, BecomeDue, Lapse
<1> QED
  BY <1>1, <1>2, <1>3, <1>4, RoundsStay

LEMMA CountsStep == HandInv /\ HandInv' /\ CountsInv /\ Next => CountsInv'
<1> SUFFICES ASSUME HandInv, HandInv', CountsInv, Next
             PROVE  CountsInv'
  OBVIOUS
<1>1. \A S \in SUBSET Defects : IsFiniteSet(S) /\ Cardinality(S) \in Nat
  BY FS_Subset, FS_CardinalityType, SchedulesAssumption
<1>2. \A S \in SUBSET Defects : \A d \in S : Cardinality(S \ {d}) = Cardinality(S) - 1
  BY <1>1, FS_RemoveElement
<1>3. Cardinality({}) = 0
  BY FS_EmptySet
<1>4. Cardinality(todo) \in Nat /\ Cardinality(todo') \in Nat
  BY <1>1 DEF HandInv
<1>9. CASE UNCHANGED dispatcher
  BY <1>9 DEF dispatcher, CountsInv, Pending
<1>11. CASE Recover
  BY <1>11, <1>1, <1>2, <1>3, <1>4 DEF Recover, Abandoned, HandInv, CountsInv, Pending, Go, Leave, Locals, Working, dispatcher
<1>12. CASE NothingDue
  BY <1>12, <1>1, <1>2, <1>3, <1>4 DEF NothingDue, HandInv, CountsInv, Pending, Go, Leave, Locals, Working, dispatcher
<1>13. CASE \E p \in Plans : OpenRound(p)
  BY <1>13, <1>1, <1>2, <1>3, <1>4 DEF OpenRound, NewRound, Due, HandInv, CountsInv, Pending, Go, Leave, Locals, Working, dispatcher
<1>14. CASE \E found \in SUBSET Defects : Scan(found)
  <2>1. PICK found \in SUBSET Defects : Scan(found)
    BY <1>14
  <2>2. /\ pc = "scan" /\ pc' = "loop" /\ todo' = found /\ discovered' = Cardinality(found)
        /\ skipped' = skipped /\ started' = started /\ Cardinality(found) \in Nat
    BY <1>1, <2>1 DEF Scan, Go
  <2>3. skipped = 0 /\ started = 0
    BY <2>2 DEF CountsInv
  <2> QED
    BY <2>2, <2>3 DEF CountsInv, Pending
<1>15. CASE \E d \in Defects : Choose(d)
  BY <1>15, <1>1, <1>2, <1>3, <1>4 DEF Choose, HandInv, CountsInv, Pending, Go, Leave, Locals, Working, dispatcher
<1>16. CASE Skip
  BY <1>16, <1>1, <1>2, <1>3, <1>4 DEF Skip, HandInv, CountsInv, Pending, Go, Leave, Locals, Working, dispatcher
<1>17. CASE NoteSkipped
  BY <1>17, <1>1, <1>2, <1>3, <1>4 DEF NoteSkipped, HandInv, CountsInv, Pending, Go, Leave, Locals, Working, dispatcher
<1>18. CASE Consider
  BY <1>18, <1>1, <1>2, <1>3, <1>4 DEF Consider, HandInv, CountsInv, Pending, Go, Leave, Locals, Working, dispatcher
<1>19. CASE Reserve
  BY <1>19, <1>1, <1>2, <1>3, <1>4 DEF Reserve, Claimable, HandInv, CountsInv, Pending, Go, Leave, Locals, Working, dispatcher
<1>20. CASE \E replied \in BOOLEAN : Start(replied)
  BY <1>20, <1>1, <1>2, <1>3, <1>4 DEF Start, HandInv, CountsInv, Pending, Go, Leave, Locals, Working, dispatcher
<1>21. CASE Record
  BY <1>21, <1>1, <1>2, <1>3, <1>4 DEF Record, HandInv, CountsInv, Pending, Go, Leave, Locals, Working, dispatcher
<1>22. CASE NoteStarted
  BY <1>22, <1>1, <1>2, <1>3, <1>4 DEF NoteStarted, HandInv, CountsInv, Pending, Go, Leave, Locals, Working, dispatcher
<1>23. CASE Confirm
  BY <1>23, <1>1, <1>2, <1>3, <1>4 DEF Confirm, HandInv, CountsInv, Pending, Go, Leave, Locals, Working, dispatcher
<1>24. CASE Succeed
  BY <1>24, <1>1, <1>2, <1>3, <1>4 DEF Succeed, FinishRun, Settled, HandInv, CountsInv, Pending, Go, Leave, Locals, Working, dispatcher
<1>25. CASE Fail
  BY <1>25, <1>1, <1>2, <1>3, <1>4 DEF Fail, HandInv, CountsInv, Pending, Go, Leave, Locals, Working, dispatcher
<1>26. CASE NoteFailed
  BY <1>26, <1>1, <1>2, <1>3, <1>4 DEF NoteFailed, Verdict, HandInv, CountsInv, Pending, Go, Leave, Locals, Working, dispatcher
<1>27. CASE CloseFailed
  BY <1>27, <1>1, <1>2, <1>3, <1>4 DEF CloseFailed, FinishRun, Settled, HandInv, CountsInv, Pending, Go, Leave, Locals, Working, dispatcher
<1>28. CASE Abandon
  BY <1>28, <1>1, <1>2, <1>3, <1>4 DEF Abandon, HandInv, CountsInv, Pending, Go, Leave, Locals, Working, dispatcher
<1>29. CASE Crash
  BY <1>29, <1>1, <1>2, <1>3, <1>4 DEF Crash, HandInv, CountsInv, Pending, Go, Leave, Locals, Working, dispatcher
<1> QED
  BY <1>9, <1>11, <1>12, <1>13, <1>14, <1>15, <1>16, <1>17, <1>18, <1>19, <1>20, <1>21, <1>22, <1>23,
     <1>24, <1>25, <1>26, <1>27, <1>28, <1>29
  DEF Next, Dispatch, Users, Time, vars, store, dispatcher, history, Locals, Create, Edit,
      Delete, StartElsewhere, BecomeDue, Lapse, DeleteTask

LEMMA LedgerStep ==
    RoundsInv /\ RoundsInv' /\ PlansInv /\ HandInv /\ ClaimsInv /\ OwnInv /\ LedgerExplainsClaims /\ Next
        => LedgerExplainsClaims'
<1> SUFFICES ASSUME RoundsInv, RoundsInv', PlansInv, HandInv, ClaimsInv, OwnInv, LedgerExplainsClaims, Next
             PROVE  LedgerExplainsClaims'
  OBVIOUS
<1>1. /\ \A i \in 1..Len(rounds) :
            /\ i \in 1..Len(rounds') /\ rounds'[i].action = rounds[i].action
            /\ rounds[i].action \in Actions
            /\ \A d \in Defects : (i = cur /\ d = active /\ Writes)
                                     \/ rounds'[i].item[d] = rounds[i].item[d]
      /\ \A i \in 1..Len(rounds') :
            i \in 1..Len(rounds) \/ rounds'[i].item = [d \in Defects |-> "none"]
      /\ DOMAIN rounds' = 1..Len(rounds') /\ DOMAIN rounds = 1..Len(rounds)
  <2>1. CASE Stay
    BY <2>1, RoundsAre DEF Stay, Round
  <2>2. CASE \E p \in Plans : OpenRound(p)
    <3>1. PICK p \in Plans : OpenRound(p)
      BY <2>2
    <3>2. NewRound(p).item = [d \in Defects |-> "none"]
      BY DEF NewRound
    <3>3. /\ rounds' \in Seq(Round) /\ Len(rounds') = Len(rounds) + 1
          /\ \A i \in 1..Len(rounds) : rounds'[i] = rounds[i]
          /\ rounds'[Len(rounds) + 1].item = [d \in Defects |-> "none"]
      BY <3>1, <3>2, OpenedIs
    <3> QED
      BY <3>3, RoundsAre DEF Round
  <2> QED
    BY <2>1, <2>2, RoundsStay
<1>2. \A a \in Actions, d \in Defects :
          claims[a][d].round \in 0..Len(rounds) /\ claims[a][d].recorded \in BOOLEAN
  BY DEF ClaimsInv
<1>3. \A s \in starts : s[1] \in 1..Len(rounds) /\ s[2] \in Defects
  BY DEF ClaimsInv
\* A candidate in hand that the round has not claimed may be written off; one
\* that it has claimed is reserved, started, or needs attention.
<1>4. ASSUME Writes
      PROVE  /\ active \in Defects => cur \in 1..Len(rounds)
             /\ active \notin Claimed =>
                   \/ rounds' = rounds \/ rounds'[cur].item[active] \in {"skipped", "failed"}
                   \/ Reserve /\ pc' = "start" /\ rounds'[cur].item[active] = "reserved"
             /\ active \in Claimed =>
                   \/ rounds' = rounds \/ rounds'[cur].item[active] = "needs_attention"
                   \/ NoteStarted /\ rounds'[cur].item[active] = "started"
  <2>1. Working
    BY <1>4 DEF Writes, NoteSkipped, Reserve, NoteStarted, NoteFailed, Working
  <2>2. /\ pc \in {"note", "reserve"} => active \notin Claimed
        /\ pc = "item" => active \in Claimed
        /\ active \in Defects => (active \in Claimed <=> reserved = TRUE)
        /\ active # NoDefect => active \in Defects
        /\ active \in Claimed => active \in Defects
    BY <2>1, SchedulesAssumption DEF OwnInv, HandInv, Claimed
  <2>3. CASE NoteSkipped
    BY <2>1, <2>2, <2>3, Written, RoundsAre DEF NoteSkipped, HandInv
  <2>4. CASE Reserve
    BY <2>1, <2>2, <2>4, Written, RoundsAre DEF Reserve, HandInv, Go
  <2>5. CASE NoteStarted
    BY <2>1, <2>2, <2>5, Written, RoundsAre DEF NoteStarted, HandInv
  <2>6. CASE NoteFailed
    BY <2>1, <2>2, <2>6, Written, RoundsAre DEF NoteFailed, Verdict, HandInv
  <2> QED
    BY <1>4, <2>3, <2>4, <2>5, <2>6 DEF Writes
<1>5. \A a \in Actions, d \in Defects :
         /\ claims[a][d].round > 0 => claims'[a][d].round = claims[a][d].round
         /\ claims[a][d].recorded = TRUE => claims'[a][d].recorded = TRUE
  BY <1>2, ClaimsMove
<1>6. starts \subseteq starts'
  BY DEF Next, Dispatch, Users, Time, history, Recover, NothingDue, OpenRound, Scan, Choose, Skip,
         NoteSkipped, Consider, Reserve, Start, Record, NoteStarted, Confirm, Succeed, Fail,
         NoteFailed, CloseFailed, Abandon, Crash, Create, Edit, Delete, StartElsewhere, DeleteTask,
         BecomeDue, Lapse
<1>0. \A a \in Actions, d \in Defects : claims[a][d].round > 0 =>
         /\ rounds[claims[a][d].round].action = a
         /\ rounds[claims[a][d].round].item[d] \in {"reserved", "started", "needs_attention"}
         /\ claims[a][d].recorded => <<claims[a][d].round, d>> \in starts
  BY DEF LedgerExplainsClaims
\* The steps that write the ledger leave what was recorded; those that write a claim are two.
<1>7. ASSUME NEW a \in Actions, NEW d \in Defects, claims'[a][d].round > 0
      PROVE  LET c == claims'[a][d] IN
             /\ rounds'[c.round].action = a
             /\ rounds'[c.round].item[d] \in {"reserved", "started", "needs_attention"}
             /\ c.recorded => <<c.round, d>> \in starts'
  <2>1. CASE claims'[a][d] = claims[a][d]
    <3> DEFINE n == claims[a][d].round
    <3>1. n \in 1..Len(rounds) /\ rounds[n].action = a /\ rounds'[n].action = a
      <4>1. n \in 0..Len(rounds) /\ n > 0 /\ Len(rounds) \in Nat
        BY <1>2, <1>7, <2>1, RoundsAre
      <4>2. n \in 1..Len(rounds)
        BY <4>1
      <4> QED
        BY <1>0, <1>1, <4>1, <4>2
    <3>2. /\ rounds[n].item[d] \in {"reserved", "started", "needs_attention"}
          /\ claims[a][d].recorded => <<n, d>> \in starts
      BY <1>0, <3>1
    <3>3. rounds'[n].item[d] \in {"reserved", "started", "needs_attention"}
      <4>1. CASE n = cur /\ d = active /\ Writes
        <5>1. active \in Claimed
          BY <3>1, <4>1 DEF Claimed
        <5> QED
          BY <1>4, <3>2, <4>1, <5>1
      <4>2. CASE rounds'[n].item[d] = rounds[n].item[d]
        BY <3>2, <4>2
      <4> QED
        BY <1>1, <3>1, <4>1, <4>2
    <3> QED
      BY <1>6, <2>1, <3>1, <3>2, <3>3
  <2>2. CASE Reserve /\ pc' = "start" /\ a = rounds[cur].action /\ d = active
    <3>1. /\ claims'[a][d].round = cur /\ claims'[a][d].recorded = FALSE
          /\ claims[a][d].round = 0
      BY <2>2, ClaimsMove DEF ClaimsInv, Reserve, Record
    <3>2. cur \in 1..Len(rounds) /\ cur # 0
      BY <2>2, RoundsAre DEF Reserve, Working
    <3>3. active \notin Claimed
      BY <2>2, <3>1, <3>2 DEF Claimed
    <3>4. rounds'[cur].item[d] = "reserved"
      BY <2>2, <3>2, Written, RoundsAre DEF Reserve, Working, HandInv, Go
    <3> QED
      BY <1>1, <2>2, <3>1, <3>2, <3>4
  <2>3. CASE Record /\ a = rounds[cur].action /\ d = active
    <3>1. pc = "record" /\ Working /\ active # NoDefect /\ reserved = TRUE
      BY <2>3 DEF Record, Working, HandInv
    <3>2. active \in Claimed /\ <<cur, active>> \in starts /\ cur \in 1..Len(rounds)
      BY <3>1, RoundsAre DEF OwnInv
    <3>3. claims[a][d].round = cur /\ claims'[a][d].round = cur /\ cur > 0
      BY <2>3, <3>2, ClaimsMove DEF Claimed
    <3>4. ~Writes
      BY <2>3 DEF Writes, Record, NoteSkipped, Reserve, NoteStarted, NoteFailed
    <3>5. rounds[cur].item[d] \in {"reserved", "started", "needs_attention"}
      <4>1. claims[a][d].round > 0
        BY <3>3
      <4>2. rounds[claims[a][d].round].item[d] \in {"reserved", "started", "needs_attention"}
        BY <1>0, <4>1
      <4> QED
        BY <3>3, <4>2
    <3> QED
      BY <1>1, <1>6, <2>3, <3>2, <3>3, <3>4, <3>5
  <2> QED
    BY <2>1, <2>2, <2>3, ClaimsMove
<1>8. ASSUME NEW s \in starts'
      PROVE  claims'[rounds'[s[1]].action][s[2]].round = s[1]
  <2>1. CASE s \in starts
    <3>1. s[1] \in 1..Len(rounds) /\ s[2] \in Defects /\ claims[rounds[s[1]].action][s[2]].round = s[1]
      BY <1>3, <2>1 DEF LedgerExplainsClaims
    <3>2. rounds'[s[1]].action = rounds[s[1]].action /\ rounds[s[1]].action \in Actions
      BY <1>1, <3>1
    <3>3. s[1] > 0
      BY <3>1
    <3> QED
      BY <1>5, <3>1, <3>2, <3>3
  <2>2. CASE s \notin starts
    <3>1. PICK replied \in BOOLEAN : Start(replied)
      BY <2>2
      DEF Next, Dispatch, Users, Time, history, Recover, NothingDue, OpenRound, Scan, Choose, Skip,
          NoteSkipped, Consider, Reserve, Record, NoteStarted, Confirm, Succeed, Fail,
          NoteFailed, CloseFailed, Abandon, Crash, Create, Edit, Delete, StartElsewhere, DeleteTask,
          BecomeDue, Lapse
    <3>2. s = <<cur, active>> /\ pc = "start" /\ UNCHANGED <<rounds, claims>>
      BY <2>2, <3>1 DEF Start, store
    <3>3. active \in Claimed
      BY <3>2 DEF OwnInv, HandInv, Working
    <3> QED
      BY <3>2, <3>3 DEF Claimed
  <2> QED
    BY <2>1, <2>2
<1>9. ASSUME NEW i \in DOMAIN rounds', NEW d \in Defects, rounds'[i].item[d] = "started"
      PROVE  claims'[rounds'[i].action][d].recorded
  <2>1. i \in 1..Len(rounds) /\ rounds'[i].action = rounds[i].action /\ rounds[i].action \in Actions
    BY <1>1, <1>9
  <2>2. CASE rounds[i].item[d] = "started"
    <3>1. claims[rounds[i].action][d].recorded = TRUE
      BY <1>1, <1>2, <2>1, <2>2 DEF LedgerExplainsClaims
    <3> QED
      BY <1>5, <2>1, <3>1
  <2>3. CASE rounds[i].item[d] # "started"
    <3>1. i = cur /\ d = active /\ Writes /\ rounds' # rounds
      BY <1>1, <1>9, <2>1, <2>3
    <3>2. active \in Claimed /\ NoteStarted
      BY <1>4, <1>9, <3>1
    <3>3. claims[rounds[cur].action][active].recorded = TRUE
      BY <3>2 DEF OwnInv, NoteStarted
    <3> QED
      BY <1>5, <2>1, <3>1, <3>3
  <2> QED
    BY <2>2, <2>3
<1> QED
  BY <1>7, <1>8, <1>9 DEF LedgerExplainsClaims

LEMMA InitIInv == Init => IInv
<1> SUFFICES ASSUME Init
             PROVE  IInv
  OBVIOUS
<1> USE DEF Init
<1>1. rounds = <<>> /\ Len(rounds) = 0 /\ DOMAIN rounds = {}
  OBVIOUS
<1>2. RoundsInv
  BY <1>1, SchedulesAssumption DEF RoundsInv, Round, Steps, Working
<1>7. PlansInv
  BY DEF PlansInv
<1>8. VersionsInv
  BY <1>1 DEF VersionsInv
<1>9. LateInv
  BY DEF LateInv
<1>10. HandInv
  BY DEF HandInv
<1>3. OwnInv
  BY DEF OwnInv, Working
<1>4. ClaimsInv
  BY <1>1 DEF ClaimsInv
<1>5. CountsInv
  BY FS_EmptySet DEF CountsInv, Pending
<1>6. LedgerExplainsClaims
  BY <1>1 DEF LedgerExplainsClaims
<1> QED
  BY <1>2, <1>3, <1>4, <1>5, <1>6, <1>7, <1>8, <1>9, <1>10 DEF IInv

LEMMA IInvStep == IInv /\ [Next]_vars => IInv'
<1>1. ASSUME IInv, Next
      PROVE  IInv'
  <2>1. RoundsInv' /\ PlansInv' /\ VersionsInv' /\ LateInv' /\ HandInv'
    BY <1>1, RoundsStep, PlansMove, VersionsStep, LateStep, HandStep DEF IInv
  <2>2. ClaimsInv' /\ OwnInv' /\ CountsInv' /\ LedgerExplainsClaims'
    BY <1>1, <2>1, ClaimsStep, OwnStep, CountsStep, LedgerStep DEF IInv
  <2> QED
    BY <2>1, <2>2 DEF IInv
<1>2. ASSUME IInv, UNCHANGED vars
      PROVE  IInv'
  <2> USE <1>2 DEF IInv, vars, store, dispatcher, history
  <2>1. RoundsInv'
    BY DEF RoundsInv, Working, cur
  <2>2. PlansInv' /\ VersionsInv'
    BY DEF PlansInv, VersionsInv
  <2>3. LateInv'
    BY DEF LateInv, Touched, cur
  <2>4. HandInv'
    BY DEF HandInv, Working, cur
  <2>5. ClaimsInv'
    BY DEF ClaimsInv
  <2>6. OwnInv'
    BY DEF OwnInv, Working, Claimed, cur
  <2>7. CountsInv'
    BY DEF CountsInv, Pending
  <2>8. LedgerExplainsClaims'
    BY DEF LedgerExplainsClaims
  <2> QED
    BY <2>1, <2>2, <2>3, <2>4, <2>5, <2>6, <2>7, <2>8
<1> QED
  BY <1>1, <1>2

LEMMA Invariant == Spec => []IInv
BY InitIInv, IInvStep, PTL DEF Spec

-----------------------------------------------------------------------------

\* Every row of the store and every variable of dispatch keeps its type, and
\* a round that goes well never counts more candidates than it discovered.
THEOREM TypeCorrect == Spec => []TypeOK
<1>1. IInv => TypeOK
  <2> SUFFICES ASSUME IInv
               PROVE  TypeOK
    OBVIOUS
  <2> USE DEF IInv
  <2>1. Len(rounds) \in Nat /\ Len(rounds) <= MaxRounds /\ MaxRounds \in Nat
    BY SchedulesAssumption, RoundsAre DEF RoundsInv
  <2>2. 0..Len(rounds) \subseteq 0..MaxRounds /\ 1..Len(rounds) \subseteq 1..MaxRounds
    BY <2>1
  <2>3. /\ DOMAIN plans \subseteq Plans
        /\ \A p \in DOMAIN plans :
              plans[p] \in [version : 1..MaxVersion, enabled : BOOLEAN, due : BOOLEAN,
                            failures : Nat, action : Actions]
    BY DEF PlansInv, PlanType
  <2>4. \A i \in DOMAIN rounds :
          rounds[i] \in [plan : Plans, version : 1..MaxVersion, action : Actions,
                         status : RoundStates, lapsed : BOOLEAN,
                         item : [Defects -> ItemStates]]
    BY RoundsAre DEF Round
  <2>5. /\ claims \in [Actions -> [Defects -> ClaimType(0..Len(rounds))]]
        /\ starts \subseteq (1..Len(rounds)) \X Defects
    BY DEF ClaimsInv, ClaimType
  <2>6. claims \in [Actions -> [Defects -> [round : 0..MaxRounds, recorded : BOOLEAN]]]
    BY <2>2, <2>5 DEF ClaimType
  <2>7. starts \subseteq (1..MaxRounds) \X Defects
    BY <2>2, <2>5
  <2>8. discovered \in Nat /\ skipped \in Nat /\ started \in Nat /\ skipped + started <= discovered
    <3>1. IsFiniteSet(todo)
      BY FS_Subset, SchedulesAssumption DEF HandInv
    <3>2. Cardinality(todo) \in Nat
      BY <3>1, FS_CardinalityType
    <3> QED
      BY <3>2 DEF CountsInv, Pending
  <2>9. pc \in Steps
    BY DEF RoundsInv
  <2>10. /\ tasks \subseteq Defects /\ todo \subseteq Defects /\ existing \subseteq Defects
         /\ active \in Defects \cup {NoDefect} /\ reserved \in BOOLEAN
    BY DEF HandInv
  <2>11. late \in Nat
    BY DEF LateInv
  <2> QED
    BY <2>1, <2>3, <2>4, <2>6, <2>7, <2>8, <2>9, <2>10, <2>11 DEF TypeOK
<1> HIDE DEF IInv, TypeOK
<1> QED
  BY <1>1, Invariant, PTL

\* Whatever rounds crash, lose their lease, overlap with edits or belong to
\* other plans, the claims of reserve_run_item and the ledger of the rounds
\* tell the same story: a claim has an item in its round that says "reserved",
\* "started" or "needs_attention", every workflow started has its claim, and
\* what the ledger calls started has the workflow's id in its claim.
THEOREM LedgerAlwaysExplains == Spec => []LedgerExplainsClaims
<1>1. IInv => LedgerExplainsClaims
  BY DEF IInv
<1> HIDE DEF IInv, LedgerExplainsClaims
<1> QED
  BY <1>1, Invariant, PTL

\* No two starts of one action on one defect, by however many rounds of
\* however many plans: the claim is permanent and comes before the start.
THEOREM AlwaysStartedOnce == Spec => []StartedOnce
<1>1. IInv => StartedOnce
  <2> SUFFICES ASSUME IInv, NEW s \in starts, NEW t \in starts, s[2] = t[2],
                      rounds[s[1]].action = rounds[t[1]].action
               PROVE  s = t
    BY DEF StartedOnce
  <2>1. s[1] = t[1]
    BY DEF IInv, LedgerExplainsClaims
  <2>2. s = <<s[1], s[2]>> /\ t = <<t[1], t[2]>>
    BY DEF IInv, ClaimsInv
  <2> QED
    BY <2>1, <2>2
<1> HIDE DEF IInv, StartedOnce
<1> QED
  BY <1>1, Invariant, PTL

\* A plan edited, paused or deleted while its round runs sees at most the one
\* workflow that reserve_run_item had already let through.
THEOREM AlwaysStopsAfterChange == Spec => []StopsAfterChange
<1>1. IInv => StopsAfterChange
  BY DEF IInv, LateInv, StopsAfterChange
<1> HIDE DEF IInv, StopsAfterChange
<1> QED
  BY <1>1, Invariant, PTL

=============================================================================
