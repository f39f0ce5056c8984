------------------------- MODULE SessionWorkProofs -------------------------
(***************************************************************************)
(* Goals and asks, for any number of sessions, requests and people's acts. *)
(* The slot is what makes the goal's properties inductive: whoever holds   *)
(* it is alone between a charge and the turn it pays for.  What makes the  *)
(* asks' inductive is that every turn remembers the ask it was begun for.  *)
(***************************************************************************)
EXTENDS SessionWork, TLAPS, WellFoundedInduction

Turn == [thread : Threads, ask : Nat, state : {"running", "said", "silent", "failed"}]

Drivers ==
    {Quiet} \cup [pc : {"looked"}, t : Threads] \cup [pc : {"charged"}, t : Threads, gen : Nat]
    \cup [pc : {"sent"}, t : Threads, gen : Nat, got : Nat]

Watches ==
    {Quiet}
    \cup [pc : {"read"}, ask : AskIds, failed : BOOLEAN, expired : BOOLEAN, item : Nat]
    \cup [pc : {"nudge"}, ask : AskIds, item : Nat]
    \cup [pc : {"nudged"}, ask : AskIds, item : Nat, got : Nat]
    \cup [pc : {"gathered", "marked"}, t : Threads, owed : SUBSET AskIds]
    \cup [pc : {"charged"}, t : Threads, owed : SUBSET AskIds, charged : BOOLEAN]
    \cup [pc : {"sent"}, t : Threads, charged : BOOLEAN, got : Nat]

Persons ==
    {Quiet} \cup [pc : {"typed", "begun"}, t : Threads]
    \cup [pc : {"stopping", "stopped", "waiting"}, t : Threads, turn : Nat]

Calls ==
    {Quiet} \cup [pc : {"checked"}, peer : Threads] \cup [pc : {"recorded"}, ask : AskIds]
    \cup [pc : {"sent"}, ask : AskIds, got : Nat]

RecordTypes ==
    /\ turns \in Seq(Turn) /\ live \in [Threads -> Nat]
    /\ goal \in [Threads -> Goal] /\ asks \in [AskIds -> Ask]

TaskTypes ==
    /\ slot \in {"free", "driver", "watch", "person"}
    /\ driver \in Drivers /\ watch \in Watches /\ person \in Persons
    /\ delegates \in [Threads -> Calls]

PeopleTypes ==
    /\ frames \subseteq [n : Nat, t : GoalThreads, what : GoalFrames] /\ spent \in Nat
    /\ applied \in [Threads -> Nat] /\ word \in [Threads -> GoalFrames \cup {"none"}]

HistoryTypes ==
    /\ refused \in [Threads -> BOOLEAN] /\ driven \in [Threads -> Nat]
    /\ unwatched \in [Threads -> Nat] /\ handed \in [AskIds -> Nat]

WorkTypes == RecordTypes /\ TaskTypes /\ PeopleTypes /\ HistoryTypes

\* Whoever is past taking the slot holds it.
SlotIsHeld ==
    /\ driver.pc # "idle" => slot = "driver"
    /\ watch.pc \in {"marked", "charged", "sent"} => slot = "watch"
    /\ person.pc \in {"typed", "begun", "stopping", "stopped"} => slot = "person"

\* What a session shows and what a stop is after are turns of that session.
StopsKnowTheirTurn ==
    /\ \A t \in Threads : live[t] # 0 => live[t] \in DOMAIN turns
    /\ person.pc \in {"stopping", "stopped", "waiting"} =>
           person.turn \in DOMAIN turns /\ turns[person.turn].thread = person.t

\* A turn of t is charged and not yet sent.
Pending(t) ==
    \/ driver.pc = "charged" /\ driver.t = t
    \/ watch.pc = "charged" /\ watch.t = t /\ watch.charged

\* The budget has room for what is charged and for what is about to begin.
PaidFor == \A t \in Threads : driven[t] + (IF Pending(t) THEN 1 ELSE 0) <= goal[t].turns

\* Somebody is between the charge and the news of a hand-over of t.
InHand(t) ==
    \/ driver.pc \in {"charged", "sent"} /\ driver.t = t
    \/ watch.pc \in {"charged", "sent"} /\ watch.t = t /\ watch.charged

\* A hand-over that did not land was refused, or is under way.
HandOversLand ==
    /\ \A t \in Threads :
           IsDriving(goal[t]) /\ DispatchNeverStarted(goal[t]) => refused[t] \/ InHand(t)
    /\ driver.pc = "sent" => (refused[driver.t] <=> driver.got = 0)
    /\ watch.pc = "sent" /\ watch.charged => (refused[watch.t] <=> watch.got = 0)

\* Nothing is handed over before it is marked delivered, and what is marked is handed over once.
MarkedFirst ==
    /\ \A a \in AskIds : handed[a] <= 1 /\ (~asks[a].delivered => handed[a] = 0)
    /\ watch.pc = "gathered" => \A a \in watch.owed : ~asks[a].delivered
    /\ watch.pc \in {"marked", "charged"} =>
           \A a \in watch.owed : asks[a].delivered /\ handed[a] = 0

\* An ask that was made is of a session, and nobody is at work on one that was not.
AsksAreReal ==
    /\ \A a \in AskIds : asks[a].status # "none" => asks[a].peer \in Threads
    /\ watch.pc \in {"read", "nudge", "nudged"} => asks[watch.ask].status # "none"
    /\ \A t \in Threads :
           delegates[t].pc \in {"recorded", "sent"} => asks[delegates[t].ask].status # "none"

\* The turn i was begun for the ask a.
Mine(a, i) == i \in DOMAIN turns /\ turns[i].ask = a

\* A turn begun for an ask runs on the peer of an ask that was really made.
AskedTurns ==
    \A i \in DOMAIN turns :
        LET a == turns[i].ask IN
        a # 0 => a \in AskIds /\ asks[a].status # "none" /\ turns[i].thread = asks[a].peer

\* Every turn the record of an ask speaks of was begun for it.
RecordsAreOwn ==
    \A a \in AskIds :
        /\ asks[a].turn # 0 => Mine(a, asks[a].turn)
        /\ asks[a].nudged => Mine(a, asks[a].baseline)
        /\ asks[a].status = "done" /\ ~asks[a].byTool => Mine(a, asks[a].from)

\* And so was what the watchdog has read of it, and the turn it has begun.
WatchIsOwn ==
    /\ watch.pc = "read" /\ ~watch.failed /\ ~watch.expired => Mine(watch.ask, watch.item)
    /\ watch.pc \in {"nudge", "nudged"} => Mine(watch.ask, watch.item)
    /\ watch.pc = "nudged" /\ watch.got # 0 => Mine(watch.ask, watch.got)

\* And the turn that a delegate call has begun.
CallsAreOwn ==
    \A t \in Threads :
        LET d == delegates[t] IN
        d.pc = "sent" /\ d.got # 0 => Mine(d.ask, d.got)

AsksAreOwn == AskedTurns /\ RecordsAreOwn /\ WatchIsOwn /\ CallsAreOwn

\* A session whose last word was a stop has a cancelled goal, or never had one.
StoppedStays ==
    \A t \in Threads :
        /\ word[t] = "stop" => goal[t].status \in {"none", "cancelled"}
        /\ goal[t].status = "none" => ~goal[t].open

(***************************************************************************)
(* Types                                                                   *)
(***************************************************************************)

\* A set of turns of one session that is not empty has a latest one.
LEMMA LatestOfSome ==
    ASSUME NEW n \in Nat, NEW T, T \subseteq 1..n, T # {}
    PROVE  \E i \in T : \A j \in T : j <= i
<1> DEFINE D == {n - i : i \in T}
           R == {ss \in Nat \X Nat : ss[1] < ss[2]}
<1>1. D \subseteq Nat /\ D # {}
  <2>1. D \subseteq Nat
    OBVIOUS
  <2>2. PICK i \in T : TRUE
    OBVIOUS
  <2> QED
    BY <2>1, <2>2
<1>2. IsWellFoundedOn(R, Nat)
  BY NatLessThanWellFounded DEF OpToRel
<1>3. PICK x \in D : \A y \in D : ~(<<y, x>> \in R)
  <2> HIDE DEF D, R
  <2> QED
    BY <1>1, <1>2, WFMin
<1>4. \A y \in D : x <= y
  <2> SUFFICES ASSUME NEW y \in D, y < x PROVE FALSE
    BY <1>1
  <2> QED
    BY <1>1, <1>3
<1>5. PICK i \in T : x = n - i
  OBVIOUS
<1>6. ASSUME NEW j \in T PROVE j <= i
  <2>1. n - j \in D /\ x <= n - j
    BY <1>4
  <2> QED
    BY <1>5, <2>1
<1> QED
  BY <1>6

\* What a session said last is one of its turns, or nothing.
LEMMA LatestIsATurn ==
    ASSUME RecordTypes, NEW t
    PROVE  Latest(t) \in Nat
<1> DEFINE said == {i \in DOMAIN turns : turns[i].thread = t /\ Said(i)}
<1>1. said \subseteq 1..Len(turns) /\ Len(turns) \in Nat
  BY DEF RecordTypes
<1>2. CASE said = {}
  BY <1>2 DEF Latest
<1>3. CASE said # {}
  <2>1. \E i \in said : \A j \in said : j <= i
    BY <1>1, <1>3, LatestOfSome
  <2>2. (CHOOSE i \in said : \A j \in said : j <= i) \in said
    BY <2>1
  <2> QED
    BY <1>1, <1>3, <2>2 DEF Latest
<1> QED
  BY <1>2, <1>3

\* What starting a turn does to the turns and to what the session shows.
LEMMA StartTurnTypes ==
    ASSUME RecordTypes, NEW t \in Threads, NEW a \in Nat, NEW begun \in BOOLEAN,
           StartTurn(t, a, begun)
    PROVE  turns' \in Seq(Turn) /\ live' \in [Threads -> Nat]
<1>1. CASE begun
  <2>1. [thread |-> t, ask |-> a, state |-> "running"] \in Turn
    BY DEF Turn
  <2>2. Len(turns) + 1 \in Nat
    BY DEF RecordTypes
  <2>3. turns' = Append(turns, [thread |-> t, ask |-> a, state |-> "running"])
    BY <1>1 DEF StartTurn
  <2>4. turns' \in Seq(Turn)
    BY <2>1, <2>3 DEF RecordTypes
  <2> QED
    BY <1>1, <2>2, <2>4 DEF StartTurn, RecordTypes
<1>2. CASE ~begun
  BY <1>2 DEF StartTurn, RecordTypes
<1> QED
  BY <1>1, <1>2

\* A turn that is told how it ended is still the turn it was.
LEMMA TurnMayEnd ==
    ASSUME turns \in Seq(Turn), NEW i \in DOMAIN turns,
           NEW end \in {"running", "said", "silent", "failed"}
    PROVE  LET after == [turns EXCEPT ![i].state = end] IN
           /\ after \in Seq(Turn) /\ DOMAIN after = DOMAIN turns
           /\ \A j \in DOMAIN turns :
                  /\ after[j].thread = turns[j].thread /\ after[j].ask = turns[j].ask
                  /\ after[j].state = IF j = i THEN end ELSE turns[j].state
<1> DEFINE e == [turns[i] EXCEPT !.state = end]
           after == [turns EXCEPT ![i] = e]
<1>1. e \in Turn /\ e.thread = turns[i].thread /\ e.ask = turns[i].ask /\ e.state = end
  <2>1. turns[i] \in Turn
    OBVIOUS
  <2> QED
    BY <2>1 DEF Turn
<1>2. after = [turns EXCEPT ![i].state = end]
  OBVIOUS
<1> HIDE DEF e
<1>3. after \in Seq(Turn) /\ DOMAIN after = DOMAIN turns
  BY <1>1
<1>4. \A j \in DOMAIN turns : after[j] = IF j = i THEN e ELSE turns[j]
  OBVIOUS
<1> HIDE DEF after
<1> QED
  BY <1>1, <1>2, <1>3, <1>4

\* Closing a dispatch keeps the status, the count and the generation.
LEMMA CloseDispatchGives ==
    ASSUME NEW g \in Goal
    PROVE  LET h == CloseDispatch(g) IN
           /\ h \in Goal
           /\ h.status = g.status /\ h.turns = g.turns /\ ~h.open /\ ~h.landed
BY DEF Goal, CloseDispatch

\* A settled goal is not open, unless it was cancelled before.
LEMMA SettleGives ==
    ASSUME NEW g \in Goal, NEW s \in GoalStatuses
    PROVE  LET h == Settle(g, s) IN
           /\ h \in Goal /\ h.turns = g.turns
           /\ IF g.status = "cancelled" THEN h = g ELSE h.status = s /\ ~h.open
<1> DEFINE h == [g EXCEPT !.status = s]
<1>1. h \in Goal /\ h.status = s /\ h.turns = g.turns
  BY DEF Goal, GoalStatuses
<1>2. Settle(g, s) = IF g.status = "cancelled" THEN g ELSE CloseDispatch(h)
  BY DEF Settle
<1> HIDE DEF h
<1> QED
  BY <1>1, <1>2, CloseDispatchGives

\* A reply resumes a goal that was stuck, and spends nothing.
LEMMA ResumeGives ==
    ASSUME NEW g \in Goal
    PROVE  LET h == ResumeOnReply(g) IN
           /\ h \in Goal /\ h.turns = g.turns
           /\ h = g \/ (g.status \in {"awaiting_user", "blocked"} /\ h.status = "active" /\ ~h.open)
<1> DEFINE h == [g EXCEPT !.status = "active", !.gen = @ + 1]
<1>1. h \in Goal /\ h.status = "active" /\ h.turns = g.turns
  <2>1. g.gen \in Nat /\ g.gen + 1 \in Nat
    BY DEF Goal
  <2> QED
    BY <2>1 DEF Goal, GoalStatuses
<1>2. ResumeOnReply(g) = IF g.status \in {"awaiting_user", "blocked"} THEN CloseDispatch(h) ELSE g
  BY DEF ResumeOnReply
<1> HIDE DEF h
<1> QED
  BY <1>1, <1>2, CloseDispatchGives

\* A revised goal is driven, with its old count or none.
LEMMA ReviseGives ==
    ASSUME NEW g \in Goal, NEW r \in BOOLEAN
    PROVE  LET h == Revise(g, r) IN
           h \in Goal /\ h.turns \in {0, g.turns} /\ h.status = "active" /\ ~h.open
<1> DEFINE h == [g EXCEPT !.turns = IF r \/ g.status = "out_of_turns" THEN 0 ELSE @,
                          !.status = "active", !.gen = @ + 1]
<1>1. h \in Goal /\ h.status = "active" /\ h.turns \in {0, g.turns}
  <2>1. g.gen + 1 \in Nat /\ g.turns \in Nat
    BY DEF Goal
  <2> QED
    BY <2>1 DEF Goal, GoalStatuses
<1>2. Revise(g, r) = CloseDispatch(h)
  BY DEF Revise
<1> HIDE DEF h
<1> QED
  BY <1>1, <1>2, CloseDispatchGives

\* A hand-over is charged; it is open and has not landed.
LEMMA HandOverGives ==
    ASSUME NEW g \in Goal
    PROVE  LET h == HandOver(g) IN
           /\ h \in Goal /\ h.turns = g.turns + 1 /\ h.open /\ ~h.landed
           /\ h.status \in {g.status, "out_of_turns"}
<1>1. g.gen + 1 \in Nat /\ g.turns + 1 \in Nat
  BY DEF Goal
<1>2. CASE g.turns + 1 >= MaxGoalTurns
  BY <1>1, <1>2 DEF Goal, GoalStatuses, HandOver
<1>3. CASE ~(g.turns + 1 >= MaxGoalTurns)
  BY <1>1, <1>3 DEF Goal, GoalStatuses, HandOver
<1> QED
  BY <1>2, <1>3

\* The news of a turn marks what is open as landed and changes nothing else that counts.
LEMMA LandedGives ==
    ASSUME NEW g \in Goal, NEW gen \in Nat, NEW i \in Nat
    PROVE  LET h == NoteDispatchTurn(DispatchLanded(g), gen, i) IN
           /\ h \in Goal /\ h.turns = g.turns /\ h.status = g.status
           /\ h.open = g.open /\ (h.open => h.landed)
<1> DEFINE k == DispatchLanded(g)
<1>1. k \in Goal /\ k.turns = g.turns /\ k.status = g.status /\ k.open = g.open
      /\ (k.open => k.landed)
  BY DEF Goal, DispatchLanded
<1> HIDE DEF k
<1>2. LET h == NoteDispatchTurn(k, gen, i) IN
      h \in Goal /\ h.turns = k.turns /\ h.status = k.status /\ h.open = k.open
      /\ h.landed = k.landed
  BY <1>1 DEF Goal, NoteDispatchTurn
<1> QED
  BY <1>1, <1>2 DEF k

\* No goal, and a new one.
LEMMA NewGoalGives ==
    /\ NoGoal \in Goal /\ NoGoal.status = "none" /\ NoGoal.turns = 0 /\ ~NoGoal.open
    /\ NewGoal \in Goal /\ NewGoal.status = "active" /\ NewGoal.turns = 0 /\ ~NewGoal.open
BY DEF Goal, GoalStatuses, NoGoal, NewGoal

\* The operations on an ask give an ask, of the same two sessions.
LEMMA AskOperations ==
    ASSUME NEW a \in Ask, NEW i \in Nat
    PROVE  /\ Finish(a, i) \in Ask /\ Fail(a) \in Ask
           /\ NoAsk \in Ask
           /\ \A x, y \in Threads : NewAsk(x, y, i) \in Ask
           /\ [a EXCEPT !.delivered = TRUE] \in Ask
<1> USE DEF Ask, NoAsk
<1>1. Finish(a, i) \in Ask /\ Fail(a) \in Ask
  BY DEF Finish, Fail, IsTerminal
<1>2. NoAsk \in Ask
  OBVIOUS
<1>3. \A x, y \in Threads : NewAsk(x, y, i) \in Ask
  BY DEF NewAsk
<1> QED
  BY <1>1, <1>2, <1>3

\* The types hold at the start.
LEMMA InitTypes == Init => WorkTypes
<1> SUFFICES ASSUME Init PROVE WorkTypes
  OBVIOUS
<1> USE WorkAssumption DEF Init, Quiet
<1>1. NoGoal \in Goal /\ NoAsk \in Ask
  BY DEF NoGoal, Goal, NoAsk, Ask, GoalStatuses
<1>2. RecordTypes
  BY <1>1 DEF RecordTypes
<1>3. TaskTypes
  BY DEF TaskTypes, Drivers, Watches, Persons, Calls
<1>4. PeopleTypes /\ HistoryTypes
  BY DEF PeopleTypes, HistoryTypes
<1> QED
  BY <1>2, <1>3, <1>4 DEF WorkTypes

\* What the goal watchdog carries, by where it is.
LEMMA DriverShape ==
    ASSUME driver \in Drivers
    PROVE  /\ driver.pc \in {"idle", "looked", "charged", "sent"}
           /\ driver.pc = "idle" => driver = Quiet
           /\ driver.pc # "idle" => driver.t \in Threads
           /\ driver.pc \in {"charged", "sent"} => driver.gen \in Nat
           /\ driver.pc = "sent" => driver.got \in Nat
BY DEF Drivers, Quiet

\* What the ask watchdog carries, by where it is.
LEMMA WatchShape ==
    ASSUME watch \in Watches
    PROVE  /\ watch.pc \in {"idle", "read", "nudge", "nudged", "gathered", "marked", "charged", "sent"}
           /\ watch.pc = "idle" => watch = Quiet
           /\ watch.pc \in {"read", "nudge", "nudged"} => watch.ask \in AskIds /\ watch.item \in Nat
           /\ watch.pc = "read" => watch.failed \in BOOLEAN /\ watch.expired \in BOOLEAN
           /\ watch.pc = "nudged" => watch.got \in Nat
           /\ watch.pc \in {"gathered", "marked", "charged", "sent"} => watch.t \in Threads
           /\ watch.pc \in {"gathered", "marked", "charged"} => watch.owed \subseteq AskIds
           /\ watch.pc \in {"charged", "sent"} => watch.charged \in BOOLEAN
           /\ watch.pc = "sent" => watch.got \in Nat
           /\ watch.pc = "gathered" =>
                  [watch EXCEPT !.pc = "marked"] =
                      [pc |-> "marked", t |-> watch.t, owed |-> watch.owed]
BY DEF Watches, Quiet

\* What the person's call carries, by where it is.
LEMMA PersonShape ==
    ASSUME person \in Persons
    PROVE  /\ person.pc \in {"idle", "typed", "begun", "stopping", "stopped", "waiting"}
           /\ person.pc = "idle" => person = Quiet
           /\ person.pc # "idle" => person.t \in Threads
           /\ person.pc \in {"stopping", "stopped", "waiting"} =>
                  /\ person.turn \in Nat
                  /\ \A pc \in {"stopped", "waiting"} :
                        [person EXCEPT !.pc = pc] =
                            [pc |-> pc, t |-> person.t, turn |-> person.turn]
BY DEF Persons, Quiet

\* What a delegate call carries, by where it is.
LEMMA CallShape ==
    ASSUME NEW d \in Calls
    PROVE  /\ d.pc \in {"idle", "checked", "recorded", "sent"}
           /\ d.pc = "checked" => d.peer \in Threads
           /\ d.pc \in {"recorded", "sent"} => d.ask \in AskIds
           /\ d.pc = "sent" => d.got \in Nat
BY DEF Calls, Quiet

\* AskIds counts from one, and turns can be numbered.
LEMMA Numbers ==
    /\ AskIds \subseteq Nat /\ 0 \notin AskIds /\ 0..MaxStarts \subseteq Nat
    /\ GoalThreads \subseteq Threads
BY WorkAssumption DEF AskIds

\* The goal watchdog keeps the types.
LEMMA DriveKeepsTypes ==
    ASSUME WorkTypes, (\E t \in GoalThreads : DriverLooks(t)) \/ Drive
    PROVE  WorkTypes'
<1> USE Numbers, DriverShape DEF WorkTypes
<1>1. ASSUME NEW t \in GoalThreads, DriverLooks(t)
      PROVE  WorkTypes'
  BY <1>1 DEF DriverLooks, RecordTypes, TaskTypes, PeopleTypes, HistoryTypes, Drivers,
              records, people, history
<1>2. CASE DriverCharges
  <2>1. driver.t \in Threads /\ goal[driver.t] \in Goal
    BY <1>2 DEF DriverCharges, TaskTypes, RecordTypes
  <2>2. Settle(goal[driver.t], "blocked") \in Goal /\ HandOver(goal[driver.t]) \in Goal
    BY <2>1, SettleGives, HandOverGives DEF GoalStatuses
  <2>3. RecordTypes'
    BY <1>2, <2>1, <2>2 DEF DriverCharges, RecordTypes
  <2>4. driver' \in Drivers
    <3>1. driver' = Quiet \/ driver' = [pc |-> "charged", t |-> driver.t, gen |-> goal'[driver.t].gen]
      BY <1>2 DEF DriverCharges
    <3>2. goal'[driver.t].gen \in Nat
      BY <2>1, <2>3 DEF RecordTypes, Goal
    <3> QED
      BY <2>1, <3>1, <3>2 DEF Drivers
  <2>5. TaskTypes'
    BY <1>2, <2>4 DEF DriverCharges, TaskTypes
  <2> QED
    BY <1>2, <2>3, <2>5 DEF DriverCharges, PeopleTypes, HistoryTypes, people, history
<1>3. CASE DriverSends
  <2>1. PICK begun \in BOOLEAN, got \in 0..MaxStarts :
          /\ StartTurn(driver.t, 0, begun)
          /\ driver' = [pc |-> "sent", t |-> driver.t, gen |-> driver.gen, got |-> got]
          /\ refused' = [refused EXCEPT ![driver.t] = got = 0]
          /\ Counted(driver.t, begun, TRUE)
    BY <1>3 DEF DriverSends
  <2>2. driver.t \in Threads /\ driver.gen \in Nat
    BY <1>3 DEF DriverSends, TaskTypes
  <2>3. turns' \in Seq(Turn) /\ live' \in [Threads -> Nat]
    BY <2>1, <2>2, StartTurnTypes
  <2>4. driver' \in Drivers
    BY <2>1, <2>2 DEF Drivers
  <2>5. refused' \in [Threads -> BOOLEAN] /\ driven' \in [Threads -> Nat]
        /\ unwatched' \in [Threads -> Nat]
    BY <2>1, <2>2 DEF Counted, HistoryTypes
  <2> QED
    BY <1>3, <2>3, <2>4, <2>5
       DEF DriverSends, RecordTypes, TaskTypes, PeopleTypes, HistoryTypes, people, records
<1>4. CASE DriverLands
  <2>1. driver.t \in Threads /\ driver.gen \in Nat /\ driver.got \in Nat
    BY <1>4 DEF DriverLands, TaskTypes
  <2>2. goal' \in [Threads -> Goal]
    BY <1>4, <2>1, LandedGives DEF DriverLands, RecordTypes
  <2> QED
    BY <1>4, <2>2
       DEF DriverLands, RecordTypes, TaskTypes, PeopleTypes, HistoryTypes, Drivers, people, history
<1> QED
  BY <1>1, <1>2, <1>3, <1>4 DEF Drive

\* The ask watchdog keeps the types while it settles.
LEMMA SweepKeepsTypes ==
    ASSUME WorkTypes, AsksAreReal,
           (\E a \in AskIds, expired \in BOOLEAN : SweepReads(a, expired)) \/ Sweep
    PROVE  WorkTypes'
<1> USE Numbers, WatchShape DEF WorkTypes
<1>1. ASSUME NEW a \in AskIds, NEW expired \in BOOLEAN, SweepReads(a, expired)
      PROVE  WorkTypes'
  <2>1. asks[a].turn \in Nat /\ Latest(asks[a].peer) \in Nat
    BY LatestIsATurn DEF RecordTypes, Ask
  <2>2. PICK item \in {asks[a].turn, Latest(asks[a].peer)} :
          watch' = [pc |-> "read", ask |-> a, failed |-> TurnFailed(asks[a].turn),
                    expired |-> expired, item |-> item]
    BY <1>1 DEF SweepReads
  <2>3. TurnFailed(asks[a].turn) \in BOOLEAN
    BY DEF TurnFailed
  <2>4. watch' \in Watches
    BY <2>1, <2>2, <2>3 DEF Watches
  <2> QED
    BY <1>1, <2>4
       DEF SweepReads, watchOnly, RecordTypes, TaskTypes, PeopleTypes, HistoryTypes, people, history
<1>2. ASSUME watch.pc \in {"read", "nudge", "nudged"}, NEW h \in Ask,
             asks' = [asks EXCEPT ![watch.ask] = h], watch' = Quiet, watchOnly
      PROVE  WorkTypes'
  BY <1>2 DEF watchOnly, RecordTypes, TaskTypes, PeopleTypes, HistoryTypes, Watches, people, history
<1>3. ASSUME watch.pc \in {"read", "nudge", "nudged"}
      PROVE  /\ watch.ask \in AskIds /\ watch.item \in Nat
             /\ asks[watch.ask] \in Ask /\ asks[watch.ask].peer \in Threads \cup {Nobody}
             /\ asks[watch.ask].baseline \in Nat
  BY <1>3 DEF TaskTypes, RecordTypes, Ask
<1>4. CASE SweepFails
  <2>1. Finish(asks[watch.ask], asks[watch.ask].baseline) \in Ask /\ Fail(asks[watch.ask]) \in Ask
    BY <1>3, <1>4, AskOperations DEF SweepFails
  <2> QED
    BY <1>2, <1>4, <2>1 DEF SweepFails
<1>5. CASE SweepTimesOut
  <2>1. Finish(asks[watch.ask], watch.item) \in Ask /\ Fail(asks[watch.ask]) \in Ask
    BY <1>3, <1>5, AskOperations DEF SweepTimesOut
  <2> QED
    BY <1>2, <1>5, <2>1 DEF SweepTimesOut
<1>6. CASE SweepMatches
  <2>1. Finish(asks[watch.ask], watch.item) \in Ask
    BY <1>3, <1>6, AskOperations DEF SweepMatches
  <2>2. CASE watch' = Quiet /\ asks' = [asks EXCEPT ![watch.ask] = Finish(@, watch.item)]
    BY <1>2, <1>6, <2>1, <2>2 DEF SweepMatches
  <2>3. CASE UNCHANGED asks
    <3>1. watch' \in Watches
      BY <1>3, <1>6 DEF SweepMatches, Watches
    <3> QED
      BY <1>6, <2>3, <3>1
         DEF SweepMatches, watchOnly, RecordTypes, TaskTypes, PeopleTypes, HistoryTypes, people,
             history
  <2> QED
    BY <1>6, <2>2, <2>3 DEF SweepMatches
<1>7. CASE SweepNotes
  <2>1. /\ Finish(asks[watch.ask], watch.item) \in Ask
        /\ [asks[watch.ask] EXCEPT !.nudged = TRUE, !.turn = watch.got, !.baseline = watch.item] \in Ask
    <3>1. watch.got \in Nat
      BY <1>7 DEF SweepNotes, TaskTypes
    <3> QED
      BY <1>3, <1>7, <3>1, AskOperations DEF SweepNotes, Ask
  <2> QED
    BY <1>2, <1>7, <2>1 DEF SweepNotes
<1>8. CASE SweepNudges
  <2>1. PICK begun \in BOOLEAN, got \in 0..MaxStarts :
          /\ StartTurn(asks[watch.ask].peer, watch.ask, begun)
          /\ watch' = [pc |-> "nudged", ask |-> watch.ask, item |-> watch.item, got |-> got]
    BY <1>8 DEF SweepNudges
  <2>2. asks[watch.ask].peer \in Threads /\ watch.ask \in Nat
    BY <1>3, <1>8 DEF SweepNudges, AsksAreReal
  <2>3. turns' \in Seq(Turn) /\ live' \in [Threads -> Nat]
    BY <2>1, <2>2, StartTurnTypes
  <2>4. watch' \in Watches
    BY <1>3, <1>8, <2>1 DEF SweepNudges, Watches
  <2> QED
    BY <1>8, <2>3, <2>4
       DEF SweepNudges, RecordTypes, TaskTypes, PeopleTypes, HistoryTypes, people, history, records
<1> QED
  BY <1>1, <1>4, <1>5, <1>6, <1>7, <1>8 DEF Sweep

\* The ask watchdog keeps the types while it wakes an asker.
LEMMA WakeKeepsTypes ==
    ASSUME WorkTypes, (\E t \in Threads : WakeLooks(t)) \/ Wake
    PROVE  WorkTypes'
<1> USE Numbers DEF WorkTypes
<1>1. ASSUME NEW t \in Threads, WakeLooks(t)
      PROVE  WorkTypes'
  <2>1. watch' \in Watches
    BY <1>1 DEF WakeLooks, Watches, AsksOf
  <2> QED
    BY <1>1, <2>1
       DEF WakeLooks, watchOnly, RecordTypes, TaskTypes, PeopleTypes, HistoryTypes, people, history
<1>2. CASE WakeMarks
  <2>1. watch.t \in Threads /\ watch.owed \subseteq AskIds
    BY <1>2, WatchShape DEF WakeMarks, TaskTypes
  <2>2. watch' \in Watches
    <3>1. watch' = Quiet \/ watch' = [pc |-> "marked", t |-> watch.t, owed |-> watch.owed]
      BY <1>2, WatchShape DEF WakeMarks, TaskTypes
    <3> QED
      BY <2>1, <3>1 DEF Watches
  <2>3. asks' \in [AskIds -> Ask]
    <3>1. \A a \in AskIds : asks[a] \in Ask /\ [asks[a] EXCEPT !.delivered = TRUE] \in Ask
      BY AskOperations DEF RecordTypes
    <3> QED
      BY <1>2, <3>1 DEF WakeMarks, RecordTypes
  <2> QED
    BY <1>2, <2>2, <2>3
       DEF WakeMarks, RecordTypes, TaskTypes, PeopleTypes, HistoryTypes, people, history
<1>3. CASE WakeCharges
  <2>1. watch.t \in Threads /\ watch.owed \subseteq AskIds
    BY <1>3, WatchShape DEF WakeCharges, TaskTypes
  <2>2. goal[watch.t] \in Goal /\ HandOver(goal[watch.t]) \in Goal
    BY <2>1, HandOverGives DEF RecordTypes
  <2>3. goal' \in [Threads -> Goal]
    BY <1>3, <2>2 DEF WakeCharges, RecordTypes
  <2>4. watch' \in Watches
    BY <1>3, <2>1 DEF WakeCharges, Watches, IsDriving
  <2> QED
    BY <1>3, <2>3, <2>4
       DEF WakeCharges, RecordTypes, TaskTypes, PeopleTypes, HistoryTypes, people, history
<1>4. CASE WakeSends
  <2>1. PICK begun \in BOOLEAN, got \in 0..MaxStarts :
          /\ StartTurn(watch.t, 0, begun)
          /\ watch' = [pc |-> "sent", t |-> watch.t, charged |-> watch.charged, got |-> got]
          /\ refused' = [refused EXCEPT ![watch.t] = IF watch.charged THEN got = 0 ELSE @]
          /\ handed' = [a \in AskIds |->
                          IF begun /\ a \in watch.owed THEN handed[a] + 1 ELSE handed[a]]
          /\ Counted(watch.t, begun, watch.charged)
    BY <1>4 DEF WakeSends
  <2>2. watch.t \in Threads /\ watch.charged \in BOOLEAN
    BY <1>4, WatchShape DEF WakeSends, TaskTypes
  <2>3. turns' \in Seq(Turn) /\ live' \in [Threads -> Nat]
    BY <2>1, <2>2, StartTurnTypes
  <2>4. watch' \in Watches
    BY <2>1, <2>2 DEF Watches
  <2>5. driven' \in [Threads -> Nat] /\ unwatched' \in [Threads -> Nat]
    BY <2>1, <2>2 DEF Counted, HistoryTypes
  <2>6. refused' \in [Threads -> BOOLEAN]
    BY <2>1, <2>2 DEF HistoryTypes
  <2>7. handed' \in [AskIds -> Nat]
    BY <2>1 DEF HistoryTypes
  <2> QED
    BY <1>4, <2>3, <2>4, <2>5, <2>6, <2>7
       DEF WakeSends, RecordTypes, TaskTypes, PeopleTypes, HistoryTypes, people, records
<1>5. CASE WakeLands
  <2>1. watch.t \in Threads /\ watch.got \in Nat
    BY <1>5, WatchShape DEF WakeLands, TaskTypes
  <2>2. goal[watch.t] \in Goal /\ goal[watch.t].gen \in Nat
    BY <2>1 DEF RecordTypes, Goal
  <2>3. NoteDispatchTurn(DispatchLanded(goal[watch.t]), goal[watch.t].gen, watch.got) \in Goal
    BY <2>1, <2>2, LandedGives
  <2>4. goal' \in [Threads -> Goal]
    BY <1>5, <2>2, <2>3 DEF WakeLands, RecordTypes
  <2> QED
    BY <1>5, <2>4
       DEF WakeLands, RecordTypes, TaskTypes, PeopleTypes, HistoryTypes, Watches, people, history
<1> QED
  BY <1>1, <1>2, <1>3, <1>4, <1>5 DEF Wake

\* People keep the types.
LEMMA PersonKeepsTypes ==
    ASSUME WorkTypes, StopsKnowTheirTurn,
           (\E t \in Threads : PersonTypes(t) \/ PersonStops(t)) \/ Serve
    PROVE  WorkTypes'
<1> USE Numbers, PersonShape DEF WorkTypes
<1>1. ASSUME NEW t \in Threads, PersonTypes(t)
      PROVE  WorkTypes'
  BY <1>1 DEF PersonTypes, Acts, RecordTypes, TaskTypes, PeopleTypes, HistoryTypes, Persons,
              records, history
<1>2. ASSUME NEW t \in Threads, PersonStops(t)
      PROVE  WorkTypes'
  <2>1. goal[t] \in Goal /\ Settle(goal[t], "interrupted") \in Goal
    BY SettleGives DEF RecordTypes, GoalStatuses
  <2>2. goal' \in [Threads -> Goal]
    BY <1>2, <2>1 DEF PersonStops, RecordTypes
  <2>3. person' \in Persons
    BY <1>2 DEF PersonStops, RecordTypes, Persons
  <2>4. unwatched' \in [Threads -> Nat]
    BY <1>2 DEF PersonStops, Watched, HistoryTypes
  <2>5. RecordTypes' /\ TaskTypes'
    BY <1>2, <2>2, <2>3 DEF PersonStops, RecordTypes, TaskTypes
  <2>6. PeopleTypes' /\ HistoryTypes'
    BY <1>2, <2>4 DEF PersonStops, Acts, PeopleTypes, HistoryTypes
  <2> QED
    BY <2>5, <2>6
<1>3. CASE PersonStarts
  <2>1. PICK begun \in BOOLEAN, got \in 0..MaxStarts :
          /\ StartTurn(person.t, 0, begun)
          /\ IF got = 0 THEN person' = Quiet /\ slot' = "free"
             ELSE person' = [pc |-> "begun", t |-> person.t] /\ UNCHANGED slot
    BY <1>3 DEF PersonStarts
  <2>2. person.t \in Threads
    BY <1>3 DEF PersonStarts, TaskTypes
  <2>3. turns' \in Seq(Turn) /\ live' \in [Threads -> Nat]
    BY <2>1, <2>2, StartTurnTypes
  <2>4. person' \in Persons
    BY <2>1, <2>2 DEF Persons
  <2> QED
    BY <1>3, <2>1, <2>3, <2>4
       DEF PersonStarts, RecordTypes, TaskTypes, PeopleTypes, HistoryTypes, people, history, records
<1>4. CASE PersonReplies
  <2>1. person.t \in Threads
    BY <1>4 DEF PersonReplies, TaskTypes
  <2>2. goal' \in [Threads -> Goal]
    BY <1>4, <2>1, ResumeGives DEF PersonReplies, RecordTypes
  <2>3. unwatched' \in [Threads -> Nat]
    BY <1>4, <2>1 DEF PersonReplies, Watched, HistoryTypes
  <2> QED
    BY <1>4, <2>2, <2>3
       DEF PersonReplies, RecordTypes, TaskTypes, PeopleTypes, HistoryTypes, Persons, people
<1>5. CASE StopIsAnswered
  <2>1. /\ person.t \in Threads /\ person.turn \in Nat
        /\ [person EXCEPT !.pc = "stopped"] = [pc |-> "stopped", t |-> person.t, turn |-> person.turn]
    BY <1>5 DEF StopIsAnswered, TaskTypes
  <2>2. person' \in Persons
    BY <1>5, <2>1 DEF StopIsAnswered, Persons
  <2>3. live' \in [Threads -> Nat]
    BY <1>5, <2>1 DEF StopIsAnswered, RecordTypes
  <2>4. turns' \in Seq(Turn)
    <3>1. CASE UNCHANGED turns
      BY <3>1 DEF RecordTypes
    <3>2. CASE turns' = [turns EXCEPT ![person.turn].state =
                           IF @ = "running" THEN "silent" ELSE @]
      <4>1. person.turn \in DOMAIN turns /\ turns[person.turn] \in Turn
        BY <1>5 DEF StopIsAnswered, StopsKnowTheirTurn, RecordTypes
      <4>2. turns[person.turn].state \in {"running", "said", "silent", "failed"}
        BY <4>1 DEF Turn
      <4> QED
        BY <3>2, <4>1, <4>2, TurnMayEnd DEF RecordTypes
    <3> QED
      BY <1>5, <3>1, <3>2 DEF StopIsAnswered
  <2> QED
    BY <1>5, <2>2, <2>3, <2>4
       DEF StopIsAnswered, RecordTypes, TaskTypes, PeopleTypes, HistoryTypes, people, history, records
<1>6. CASE StopSettles
  <2>1. /\ person.t \in Threads /\ person.turn \in Nat
        /\ [person EXCEPT !.pc = "waiting"] = [pc |-> "waiting", t |-> person.t, turn |-> person.turn]
    BY <1>6 DEF StopSettles, TaskTypes
  <2>2. person' \in Persons
    BY <1>6, <2>1 DEF StopSettles, Persons
  <2>3. asks' \in [AskIds -> Ask]
    <3>1. \A a \in AskIds : /\ asks[a] \in Ask /\ Fail(asks[a]) \in Ask
                            /\ Finish(asks[a], Latest(person.t)) \in Ask
      BY LatestIsATurn, AskOperations DEF RecordTypes
    <3> QED
      BY <1>6, <3>1 DEF StopSettles
  <2> QED
    BY <1>6, <2>2, <2>3
       DEF StopSettles, RecordTypes, TaskTypes, PeopleTypes, HistoryTypes, people, history
<1>7. CASE StopIsGivenUp
  <2>1. person.t \in Threads
    BY <1>7 DEF StopIsGivenUp, TaskTypes
  <2> QED
    BY <1>7, <2>1 DEF StopIsGivenUp, RecordTypes, TaskTypes, PeopleTypes, HistoryTypes, Persons,
                      people, history, records
<1> QED
  BY <1>1, <1>2, <1>3, <1>4, <1>5, <1>6, <1>7 DEF Serve

\* Goal frames keep the types.
LEMMA FramesKeepTypes ==
    ASSUME WorkTypes,
           \/ \E t \in GoalThreads : \E what \in GoalFrames : FrameArrives(t, what)
           \/ \E f \in frames : Handle(f)
    PROVE  WorkTypes'
<1> USE Numbers DEF WorkTypes
<1>1. ASSUME NEW t \in GoalThreads, NEW what \in GoalFrames, FrameArrives(t, what)
      PROVE  WorkTypes'
  BY <1>1 DEF FrameArrives, Acts, RecordTypes, TaskTypes, PeopleTypes, HistoryTypes, records,
              tasks, history
<1>2. ASSUME NEW f \in frames, FrameIsRefused(f) \/ FrameIsLate(f)
      PROVE  WorkTypes'
  BY <1>2 DEF FrameIsRefused, FrameIsLate, RecordTypes, TaskTypes, PeopleTypes, HistoryTypes,
              records, tasks, history
<1>3. ASSUME NEW f \in frames
      PROVE  /\ f.t \in GoalThreads /\ f.t \in Threads /\ f.n \in Nat /\ f.what \in GoalFrames
             /\ goal[f.t] \in Goal
  BY DEF PeopleTypes, RecordTypes
<1>4. ASSUME NEW f \in frames, Claims(f), Remembers(f), Watched(f.t), frames' = frames \ {f},
             UNCHANGED spent
      PROVE  PeopleTypes' /\ unwatched' \in [Threads -> Nat]
  BY <1>3, <1>4 DEF Claims, Remembers, Watched, PeopleTypes, HistoryTypes
<1>5. ASSUME NEW f \in frames, SetGoal(f)
      PROVE  WorkTypes'
  <2> DEFINE h == IF goal[f.t].status = "none" THEN NewGoal ELSE Revise(goal[f.t], f.what = "reset")
  <2>1. h \in Goal
    BY <1>3, NewGoalGives, ReviseGives
  <2>2. goal' = [goal EXCEPT ![f.t] = h]
        /\ driven' = [driven EXCEPT ![f.t] = IF h.turns = 0 THEN 0 ELSE @]
    BY <1>5 DEF SetGoal
  <2> HIDE DEF h
  <2>3. goal' \in [Threads -> Goal] /\ driven' \in [Threads -> Nat]
    BY <1>3, <2>1, <2>2 DEF RecordTypes, HistoryTypes
  <2>4. PeopleTypes' /\ unwatched' \in [Threads -> Nat]
    BY <1>4, <1>5 DEF SetGoal
  <2> QED
    BY <1>5, <2>3, <2>4 DEF SetGoal, RecordTypes, TaskTypes, HistoryTypes, tasks
<1>6. ASSUME NEW f \in frames, StopGoal(f)
      PROVE  WorkTypes'
  <2>1. Settle(goal[f.t], "cancelled") \in Goal
    BY <1>3, SettleGives DEF GoalStatuses
  <2>2. goal' \in [Threads -> Goal]
    BY <1>3, <1>6, <2>1 DEF StopGoal, RecordTypes
  <2>3. PeopleTypes' /\ unwatched' \in [Threads -> Nat]
    BY <1>4, <1>6 DEF StopGoal
  <2> QED
    BY <1>6, <2>2, <2>3 DEF StopGoal, RecordTypes, TaskTypes, HistoryTypes, tasks
<1> QED
  BY <1>1, <1>2, <1>5, <1>6 DEF Handle

\* Agents keep the types.
LEMMA AgentsKeepTypes ==
    ASSUME WorkTypes, AsksAreReal,
           \/ \E t \in GoalThreads, s \in {"complete_claimed", "blocked", "awaiting_user"} : Report(t, s)
           \/ \E pair \in MayAsk : DelegateChecks(pair[1], pair[2])
           \/ \E t \in Threads : Delegate(t) \/ ReportBack(t)
    PROVE  WorkTypes'
<1> USE Numbers DEF WorkTypes
<1>1. ASSUME NEW t \in GoalThreads, NEW s \in {"complete_claimed", "blocked", "awaiting_user"},
             Report(t, s)
      PROVE  WorkTypes'
  <2>1. goal[t] \in Goal /\ Settle(goal[t], s) \in Goal
    BY SettleGives DEF RecordTypes, GoalStatuses
  <2>2. goal' \in [Threads -> Goal]
    BY <1>1, <2>1 DEF Report, RecordTypes
  <2> QED
    BY <1>1, <2>2
       DEF Report, RecordTypes, TaskTypes, PeopleTypes, HistoryTypes, tasks, people, history
<1>2. ASSUME NEW pair \in MayAsk, DelegateChecks(pair[1], pair[2])
      PROVE  WorkTypes'
  <2>1. pair[1] \in Threads /\ pair[2] \in Threads
    BY WorkAssumption
  <2>2. delegates' \in [Threads -> Calls]
    BY <1>2, <2>1 DEF DelegateChecks, TaskTypes, Calls
  <2> QED
    BY <1>2, <2>2
       DEF DelegateChecks, RecordTypes, TaskTypes, PeopleTypes, HistoryTypes, people, history, records
<1>3. ASSUME NEW t \in Threads, DelegateRecords(t)
      PROVE  WorkTypes'
  <2>1. delegates[t].peer \in Threads /\ Latest(delegates[t].peer) \in Nat
    BY <1>3, CallShape, LatestIsATurn DEF DelegateRecords, TaskTypes
  <2>2. CASE UNCHANGED asks /\ delegates' = [delegates EXCEPT ![t] = Quiet]
    BY <1>3, <2>2
       DEF DelegateRecords, RecordTypes, TaskTypes, PeopleTypes, HistoryTypes, Calls, people, history
  <2>3. ASSUME NEW a \in AskIds,
               asks' = [asks EXCEPT ![a] = NewAsk(t, delegates[t].peer, Latest(delegates[t].peer))],
               delegates' = [delegates EXCEPT ![t] = [pc |-> "recorded", ask |-> a]]
        PROVE  WorkTypes'
    <3>1. NewAsk(t, delegates[t].peer, Latest(delegates[t].peer)) \in Ask
      <4>1. asks[a] \in Ask
        BY DEF RecordTypes
      <4> QED
        BY <2>1, <4>1, AskOperations
    <3>2. asks' \in [AskIds -> Ask] /\ delegates' \in [Threads -> Calls]
      BY <2>3, <3>1 DEF RecordTypes, TaskTypes, Calls
    <3> QED
      BY <1>3, <3>2
         DEF DelegateRecords, RecordTypes, TaskTypes, PeopleTypes, HistoryTypes, people, history
  <2> QED
    BY <1>3, <2>2, <2>3 DEF DelegateRecords
<1>4. ASSUME NEW t \in Threads, DelegateSends(t)
      PROVE  WorkTypes'
  <2> DEFINE a == delegates[t].ask
  <2>1. PICK begun \in BOOLEAN, got \in 0..MaxStarts :
          /\ StartTurn(asks[a].peer, a, begun)
          /\ delegates' = [delegates EXCEPT ![t] = [pc |-> "sent", ask |-> a, got |-> got]]
    BY <1>4 DEF DelegateSends
  <2>2. a \in AskIds /\ a \in Nat /\ asks[a].peer \in Threads
    BY <1>4, CallShape DEF DelegateSends, TaskTypes, AsksAreReal
  <2> HIDE DEF a
  <2>3. turns' \in Seq(Turn) /\ live' \in [Threads -> Nat]
    BY <2>1, <2>2, StartTurnTypes
  <2>4. delegates' \in [Threads -> Calls]
    BY <2>1, <2>2 DEF TaskTypes, Calls
  <2> QED
    BY <1>4, <2>3, <2>4
       DEF DelegateSends, RecordTypes, TaskTypes, PeopleTypes, HistoryTypes, people, history, records
<1>5. ASSUME NEW t \in Threads, DelegateSent(t)
      PROVE  WorkTypes'
  <2> DEFINE a == delegates[t].ask
             got == delegates[t].got
  <2>1. a \in AskIds /\ got \in Nat /\ asks[a] \in Ask
    BY <1>5, CallShape DEF DelegateSent, TaskTypes, RecordTypes
  <2>2. Fail(asks[a]) \in Ask /\ [asks[a] EXCEPT !.turn = got, !.sent = TRUE] \in Ask
    BY <2>1, AskOperations DEF Ask
  <2>3. asks' \in [AskIds -> Ask] /\ delegates' \in [Threads -> Calls]
    BY <1>5, <2>1, <2>2 DEF DelegateSent, RecordTypes, TaskTypes, Calls
  <2> QED
    BY <1>5, <2>3
       DEF DelegateSent, RecordTypes, TaskTypes, PeopleTypes, HistoryTypes, people, history
<1>6. ASSUME NEW t \in Threads, ReportBack(t)
      PROVE  WorkTypes'
  <2>1. PICK i \in Running(t), a \in AskIds :
          asks' = [asks EXCEPT ![a] = [Finish(@, i) EXCEPT !.byTool = TRUE]]
    BY <1>6 DEF ReportBack
  <2>2. i \in Nat /\ asks[a] \in Ask
    BY DEF Running, RecordTypes
  <2>3. Finish(asks[a], i) \in Ask
    BY <2>2, AskOperations
  <2>4. [Finish(asks[a], i) EXCEPT !.byTool = TRUE] \in Ask
    BY <2>3 DEF Ask
  <2>5. asks' \in [AskIds -> Ask]
    BY <2>1, <2>4 DEF RecordTypes
  <2> QED
    BY <1>6, <2>5
       DEF ReportBack, RecordTypes, TaskTypes, PeopleTypes, HistoryTypes, tasks, people, history
<1> QED
  BY <1>1, <1>2, <1>3, <1>4, <1>5, <1>6 DEF Delegate

\* A turn that ends keeps the types.
LEMMA TurnEndKeepsTypes ==
    ASSUME WorkTypes, NEW i \in DOMAIN turns, TurnEnds(i)
    PROVE  WorkTypes'
<1>1. turns' \in Seq(Turn)
  <2>1. PICK end \in {"said", "silent", "failed"} : turns' = [turns EXCEPT ![i].state = end]
    BY DEF TurnEnds
  <2> QED
    BY <2>1, TurnMayEnd DEF WorkTypes, RecordTypes
<1>2. live' \in [Threads -> Nat]
  BY DEF TurnEnds, WorkTypes, RecordTypes
<1> QED
  BY <1>1, <1>2 DEF TurnEnds, WorkTypes, RecordTypes, TaskTypes, PeopleTypes, HistoryTypes,
                    records, tasks, people, history

\* Every step keeps the types.
LEMMA TypesAreKept ==
    ASSUME WorkTypes, AsksAreReal, StopsKnowTheirTurn, [Next]_vars
    PROVE  WorkTypes'
<1>1. CASE UNCHANGED vars
  BY <1>1 DEF vars, WorkTypes, RecordTypes, TaskTypes, PeopleTypes, HistoryTypes
<1>2. CASE Next
  BY <1>2, TurnEndKeepsTypes, DriveKeepsTypes, SweepKeepsTypes, WakeKeepsTypes, PersonKeepsTypes,
     FramesKeepTypes, AgentsKeepTypes
     DEF Next
<1> QED
  BY <1>1, <1>2

(***************************************************************************)
(* Who does what: the steps that touch a variable                          *)
(***************************************************************************)

\* The steps of the goal watchdog, of a wake and of a person, which pass the slot on.
Slots ==
    \/ \E t \in GoalThreads : DriverLooks(t)
    \/ Drive \/ Wake \/ Serve
    \/ \E t \in Threads : PersonTypes(t) \/ PersonStops(t)

\* Any other step leaves the slot alone, and what its holders are at.
LEMMA WhoTakesTheSlot ==
    ASSUME [Next]_vars, ~Slots
    PROVE  /\ UNCHANGED <<slot, driver, person>>
           /\ watch.pc \in {"marked", "charged", "sent"} \/ watch'.pc \in {"marked", "charged", "sent"} =>
                  UNCHANGED watch
<1>1. CASE UNCHANGED vars
  BY <1>1 DEF vars
<1>2. CASE \E i \in DOMAIN turns : TurnEnds(i)
  BY <1>2 DEF TurnEnds, tasks
<1>3. CASE (\E a \in AskIds, expired \in BOOLEAN : SweepReads(a, expired)) \/ Sweep
  BY <1>3 DEF SweepReads, Sweep, SweepFails, SweepTimesOut, SweepMatches, SweepNudges, SweepNotes,
              watchOnly, Quiet
<1>4. CASE \E t \in Threads : WakeLooks(t)
  BY <1>4 DEF WakeLooks, watchOnly
<1>5. CASE \E t \in GoalThreads : \E what \in GoalFrames : FrameArrives(t, what)
  BY <1>5 DEF FrameArrives, tasks
<1>6. CASE \E f \in frames : Handle(f)
  BY <1>6 DEF Handle, FrameIsRefused, FrameIsLate, SetGoal, StopGoal, tasks
<1>7. CASE \E t \in GoalThreads, s \in {"complete_claimed", "blocked", "awaiting_user"} : Report(t, s)
  BY <1>7 DEF Report, tasks
<1>8. CASE \E pair \in MayAsk : DelegateChecks(pair[1], pair[2])
  BY <1>8 DEF DelegateChecks
<1>9. CASE \E t \in Threads : Delegate(t) \/ ReportBack(t)
  BY <1>9 DEF Delegate, DelegateRecords, DelegateSends, DelegateSent, ReportBack, tasks
<1> QED
  BY <1>1, <1>2, <1>3, <1>4, <1>5, <1>6, <1>7, <1>8, <1>9 DEF Next, Slots

\* The slot is held by whoever is past taking it.
LEMMA SlotIsKept ==
    ASSUME WorkTypes, SlotIsHeld, [Next]_vars
    PROVE  SlotIsHeld'
<1> USE DriverShape, WatchShape, PersonShape DEF WorkTypes, TaskTypes, SlotIsHeld, Quiet
<1>1. CASE ~Slots
  BY <1>1, WhoTakesTheSlot
<1>2. CASE \E t \in GoalThreads : DriverLooks(t)
  BY <1>2 DEF DriverLooks
<1>3. CASE Drive
  <2>1. CASE DriverCharges
    BY <2>1 DEF DriverCharges
  <2>2. CASE DriverSends
    BY <2>2 DEF DriverSends
  <2>3. CASE DriverLands
    BY <2>3 DEF DriverLands
  <2> QED
    BY <1>3, <2>1, <2>2, <2>3 DEF Drive
<1>4. CASE Wake
  BY <1>4 DEF Wake, WakeMarks, WakeCharges, WakeSends, WakeLands
<1>5. CASE Serve
  BY <1>5 DEF Serve, PersonStarts, PersonReplies, StopIsAnswered, StopSettles, StopIsGivenUp
<1>6. CASE \E t \in Threads : PersonTypes(t) \/ PersonStops(t)
  BY <1>6 DEF PersonTypes, PersonStops
<1> QED
  BY <1>1, <1>2, <1>3, <1>4, <1>5, <1>6 DEF Slots

(***************************************************************************)
(* Turns                                                                   *)
(***************************************************************************)

\* The steps in which the relay asks a provider for a turn.
Begins ==
    \/ DriverSends \/ SweepNudges \/ WakeSends \/ PersonStarts
    \/ \E t \in Threads : DelegateSends(t)

\* The steps of a person's message or stop.
PersonActs == Serve \/ \E t \in Threads : PersonTypes(t) \/ PersonStops(t)

\* Any other step leaves the turns alone, except for one that ends.
LEMMA WhoTouchesTurns ==
    ASSUME [Next]_vars, ~Begins, ~PersonActs, ~\E i \in DOMAIN turns : TurnEnds(i)
    PROVE  UNCHANGED <<turns, live, person>>
<1>1. CASE UNCHANGED vars
  BY <1>1 DEF vars
<1>2. CASE (\E t \in GoalThreads : DriverLooks(t)) \/ Drive
  BY <1>2 DEF DriverLooks, Drive, DriverCharges, DriverLands, Begins
<1>3. CASE (\E a \in AskIds, expired \in BOOLEAN : SweepReads(a, expired)) \/ Sweep
  BY <1>3 DEF SweepReads, Sweep, SweepFails, SweepTimesOut, SweepMatches, SweepNotes, watchOnly, Begins
<1>4. CASE (\E t \in Threads : WakeLooks(t)) \/ Wake
  BY <1>4 DEF WakeLooks, Wake, WakeMarks, WakeCharges, WakeLands, watchOnly, Begins
<1>5. CASE \E t \in GoalThreads : \E what \in GoalFrames : FrameArrives(t, what)
  BY <1>5 DEF FrameArrives, tasks
<1>6. CASE \E f \in frames : Handle(f)
  BY <1>6 DEF Handle, FrameIsRefused, FrameIsLate, SetGoal, StopGoal, tasks
<1>7. CASE \E t \in GoalThreads, s \in {"complete_claimed", "blocked", "awaiting_user"} : Report(t, s)
  BY <1>7 DEF Report, tasks
<1>8. CASE \E pair \in MayAsk : DelegateChecks(pair[1], pair[2])
  BY <1>8 DEF DelegateChecks
<1>9. CASE \E t \in Threads : Delegate(t) \/ ReportBack(t)
  BY <1>9 DEF Delegate, DelegateRecords, DelegateSent, ReportBack, tasks, Begins
<1> QED
  BY <1>1, <1>2, <1>3, <1>4, <1>5, <1>6, <1>7, <1>8, <1>9 DEF Next, PersonActs

\* Asking a provider for a turn adds a running one, for an ask that was made, or nothing.
LEMMA BeginsAddsATurn ==
    ASSUME WorkTypes, AsksAreReal, Begins
    PROVE  \E t \in Threads, a \in {0} \cup AskIds, begun \in BOOLEAN :
               /\ StartTurn(t, a, begun) /\ UNCHANGED asks
               /\ a # 0 => asks[a].status # "none" /\ t = asks[a].peer
<1> USE Numbers DEF WorkTypes, TaskTypes
<1>1. CASE DriverSends
  BY <1>1, DriverShape DEF DriverSends, records
<1>2. CASE SweepNudges
  BY <1>2, WatchShape DEF SweepNudges, records, AsksAreReal
<1>3. CASE WakeSends
  BY <1>3, WatchShape DEF WakeSends, records
<1>4. CASE PersonStarts
  BY <1>4, PersonShape DEF PersonStarts, records
<1>5. ASSUME NEW t \in Threads, DelegateSends(t)
      PROVE  \E b \in AskIds, begun \in BOOLEAN :
               /\ StartTurn(asks[b].peer, b, begun) /\ UNCHANGED asks
               /\ asks[b].status # "none" /\ asks[b].peer \in Threads
  <2> DEFINE b == delegates[t].ask
  <2>1. b \in AskIds /\ asks[b].status # "none" /\ asks[b].peer \in Threads
    BY <1>5, CallShape DEF DelegateSends, AsksAreReal
  <2>2. \E begun \in BOOLEAN : StartTurn(asks[b].peer, b, begun)
    BY <1>5 DEF DelegateSends
  <2>3. UNCHANGED asks
    BY <1>5 DEF DelegateSends, records
  <2> HIDE DEF b
  <2> QED
    BY <2>1, <2>2, <2>3
<1> QED
  BY <1>1, <1>2, <1>3, <1>4, <1>5 DEF Begins

\* A running turn of t is added, for the ask a, and t shows it.
TurnIsAdded(t, a, n) ==
    /\ DOMAIN turns' = DOMAIN turns \cup {n} /\ n \notin DOMAIN turns /\ n \in Nat \ {0}
    /\ \A i \in DOMAIN turns : turns'[i] = turns[i]
    /\ turns'[n] = [thread |-> t, ask |-> a, state |-> "running"]
    /\ live' = [live EXCEPT ![t] = n]

\* What a turn that was begun looks like, to whoever hears of it.
LEMMA StartTurnGives ==
    ASSUME RecordTypes, NEW t \in Threads, NEW a \in Nat, NEW begun \in BOOLEAN,
           StartTurn(t, a, begun)
    PROVE  IF begun THEN TurnIsAdded(t, a, Len(turns) + 1) ELSE UNCHANGED <<turns, live>>
<1> DEFINE e == [thread |-> t, ask |-> a, state |-> "running"]
<1>1. CASE begun
  <2>1. e \in Turn /\ turns' = Append(turns, e) /\ live' = [live EXCEPT ![t] = Len(turns) + 1]
    BY <1>1 DEF StartTurn, Turn
  <2> HIDE DEF e
  <2>2. /\ Len(turns) \in Nat /\ DOMAIN turns = 1..Len(turns)
        /\ DOMAIN turns' = 1..(Len(turns) + 1)
        /\ \A i \in DOMAIN turns : turns'[i] = turns[i]
        /\ turns'[Len(turns) + 1] = e
    BY <2>1 DEF RecordTypes
  <2>3. /\ DOMAIN turns' = DOMAIN turns \cup {Len(turns) + 1}
        /\ Len(turns) + 1 \notin DOMAIN turns /\ Len(turns) + 1 \in Nat \ {0}
    BY <2>2
  <2> QED
    BY <1>1, <2>1, <2>2, <2>3 DEF e, TurnIsAdded
<1>2. CASE ~begun
  BY <1>2 DEF StartTurn
<1> QED
  BY <1>1, <1>2

\* What a session shows is a turn that runs on it.
LEMMA NoGhostsAreMade ==
    ASSUME WorkTypes, AsksAreReal, StopsKnowTheirTurn, NoGhostTurns, [Next]_vars
    PROVE  StopsKnowTheirTurn' /\ NoGhostTurns'
<1> USE PersonShape DEF WorkTypes, TaskTypes, RecordTypes
<1>1. CASE UNCHANGED <<turns, live, person>>
  BY <1>1 DEF StopsKnowTheirTurn, NoGhostTurns
<1>2. CASE Begins
  <2>1. PICK t \in Threads, a \in {0} \cup AskIds, begun \in BOOLEAN : StartTurn(t, a, begun)
    BY <1>2, BeginsAddsATurn
  <2>2. a \in Nat
    BY Numbers
  <2>3. person'.pc \in {"stopping", "stopped", "waiting"} => person' = person
    <3>1. CASE PersonStarts
      BY <3>1 DEF PersonStarts, Quiet
    <3>2. CASE ~PersonStarts
      BY <1>2, <3>2 DEF Begins, DriverSends, SweepNudges, WakeSends, DelegateSends
    <3> QED
      BY <3>1, <3>2
  <2>4. CASE UNCHANGED <<turns, live>>
    BY <2>3, <2>4 DEF StopsKnowTheirTurn, NoGhostTurns
  <2>5. CASE TurnIsAdded(t, a, Len(turns) + 1)
    BY <2>3, <2>5 DEF TurnIsAdded, StopsKnowTheirTurn, NoGhostTurns
  <2> QED
    BY <2>1, <2>2, <2>4, <2>5, StartTurnGives
<1>3. ASSUME NEW i \in DOMAIN turns, NEW end \in {"said", "silent", "failed"},
             turns' = [turns EXCEPT ![i].state = end],
             live' = [live EXCEPT ![turns[i].thread] = IF @ = i THEN 0 ELSE @],
             person'.pc \in {"stopping", "stopped", "waiting"} =>
                 person'.t = person.t /\ person'.turn = person.turn
                 /\ person.pc \in {"stopping", "stopped", "waiting"}
      PROVE  StopsKnowTheirTurn' /\ NoGhostTurns'
  <2>1. /\ DOMAIN turns' = DOMAIN turns
        /\ \A j \in DOMAIN turns :
               /\ turns'[j].thread = turns[j].thread
               /\ turns'[j].state = IF j = i THEN end ELSE turns[j].state
    BY <1>3, TurnMayEnd
  <2>2. \A t \in Threads : live'[t] # 0 => live'[t] = live[t] /\ live[t] # i
    BY <1>3 DEF NoGhostTurns
  <2> QED
    BY <1>3, <2>1, <2>2 DEF StopsKnowTheirTurn, NoGhostTurns
<1>4. CASE \E i \in DOMAIN turns : TurnEnds(i)
  BY <1>3, <1>4 DEF TurnEnds, tasks
<1>5. ASSUME NEW t \in Threads, PersonTypes(t) \/ PersonStops(t)
      PROVE  StopsKnowTheirTurn' /\ NoGhostTurns'
  BY <1>5 DEF PersonTypes, PersonStops, Working, StopsKnowTheirTurn, NoGhostTurns
<1>6. CASE PersonReplies
  BY <1>6 DEF PersonReplies, Quiet, StopsKnowTheirTurn, NoGhostTurns
<1>7. CASE StopIsAnswered
  <2>1. /\ person.t \in Threads /\ person.turn \in DOMAIN turns
        /\ turns[person.turn].thread = person.t /\ turns[person.turn] \in Turn
        /\ [person EXCEPT !.pc = "stopped"] = [pc |-> "stopped", t |-> person.t, turn |-> person.turn]
    BY <1>7 DEF StopIsAnswered, StopsKnowTheirTurn
  <2>2. person' \in {Quiet, [pc |-> "stopped", t |-> person.t, turn |-> person.turn]}
    BY <1>7, <2>1 DEF StopIsAnswered
  <2>3. CASE UNCHANGED <<turns, live>>
    BY <2>1, <2>2, <2>3 DEF Quiet, StopsKnowTheirTurn, NoGhostTurns
  <2>4. CASE /\ turns' = [turns EXCEPT ![person.turn].state = IF @ = "running" THEN "silent" ELSE @]
             /\ live' = [live EXCEPT ![person.t] = IF @ = person.turn THEN 0 ELSE @]
    <3> DEFINE s == turns[person.turn].state
               end == IF s = "running" THEN "silent" ELSE s
    <3>1. s \in {"running", "said", "silent", "failed"}
      BY <2>1 DEF Turn
    <3>2. end \in {"running", "said", "silent", "failed"}
      BY <3>1
    <3>3. turns' = [turns EXCEPT ![person.turn].state = end]
      BY <2>4
    <3> HIDE DEF end
    <3>4. /\ DOMAIN turns' = DOMAIN turns
          /\ \A j \in DOMAIN turns :
                 /\ turns'[j].thread = turns[j].thread
                 /\ turns'[j].state = IF j = person.turn THEN end ELSE turns[j].state
      BY <2>1, <3>2, <3>3, TurnMayEnd
    <3>5. \A t \in Threads : live'[t] # 0 => live'[t] = live[t] /\ live[t] # person.turn
      BY <2>1, <2>4 DEF NoGhostTurns
    <3>6. NoGhostTurns'
      BY <3>4, <3>5 DEF StopsKnowTheirTurn, NoGhostTurns
    <3>7. \A t \in Threads : live'[t] # 0 => live'[t] \in DOMAIN turns'
      BY <3>4, <3>5 DEF StopsKnowTheirTurn
    <3>8. person'.pc \in {"stopping", "stopped", "waiting"} =>
              person'.turn = person.turn /\ person'.t = person.t
      BY <2>2 DEF Quiet
    <3> QED
      BY <2>1, <3>4, <3>6, <3>7, <3>8 DEF StopsKnowTheirTurn
  <2> QED
    BY <1>7, <2>3, <2>4 DEF StopIsAnswered
<1>8. CASE StopSettles
  <2>1. person' \in {Quiet, [pc |-> "waiting", t |-> person.t, turn |-> person.turn]}
    BY <1>8 DEF StopSettles
  <2> QED
    BY <1>8, <2>1 DEF StopSettles, Quiet, StopsKnowTheirTurn, NoGhostTurns
<1>9. CASE StopIsGivenUp
  <2>1. \A t \in Threads : live'[t] # 0 => live'[t] = live[t]
    BY <1>9 DEF StopIsGivenUp
  <2> QED
    BY <1>9, <2>1 DEF StopIsGivenUp, records, Quiet, StopsKnowTheirTurn, NoGhostTurns
<1> QED
  BY <1>1, <1>2, <1>4, <1>5, <1>6, <1>7, <1>8, <1>9, WhoTouchesTurns DEF PersonActs, Serve, Begins

(***************************************************************************)
(* Goals                                                                   *)
(***************************************************************************)

\* The frames that are applied, and the reports of agents.
GoalActs ==
    \/ \E f \in frames : SetGoal(f) \/ StopGoal(f)
    \/ \E t \in GoalThreads, s \in {"complete_claimed", "blocked", "awaiting_user"} : Report(t, s)

\* Besides them only whoever takes or holds the slot touches a goal.
LEMMA WhoTouchesGoals ==
    ASSUME [Next]_vars, ~Slots, ~GoalActs
    PROVE  UNCHANGED <<goal, driven, refused, word>>
<1>1. CASE UNCHANGED vars
  BY <1>1 DEF vars
<1>2. CASE \E i \in DOMAIN turns : TurnEnds(i)
  BY <1>2 DEF TurnEnds, records, people, history
<1>3. CASE (\E a \in AskIds, expired \in BOOLEAN : SweepReads(a, expired)) \/ Sweep
  BY <1>3 DEF SweepReads, Sweep, SweepFails, SweepTimesOut, SweepMatches, SweepNudges, SweepNotes,
              watchOnly, records, people, history
<1>4. CASE \E t \in Threads : WakeLooks(t)
  BY <1>4 DEF WakeLooks, watchOnly, people, history
<1>5. CASE \E t \in GoalThreads : \E what \in GoalFrames : FrameArrives(t, what)
  BY <1>5 DEF FrameArrives, records, history
<1>6. CASE \E f \in frames : Handle(f)
  BY <1>6 DEF Handle, FrameIsRefused, FrameIsLate, GoalActs, records, history
<1>8. CASE \E pair \in MayAsk : DelegateChecks(pair[1], pair[2])
  BY <1>8 DEF DelegateChecks, records, people, history
<1>9. CASE \E t \in Threads : Delegate(t) \/ ReportBack(t)
  BY <1>9 DEF Delegate, DelegateRecords, DelegateSends, DelegateSent, ReportBack, records, people,
              history
<1> QED
  BY <1>1, <1>2, <1>3, <1>4, <1>5, <1>6, <1>8, <1>9 DEF Next, Slots, GoalActs

\* What holds of every goal between the steps.
GoalsAreKept == PaidFor /\ HandOversLand /\ StoppedStays

\* The goal watchdog keeps it.
LEMMA DriveKeepsGoals ==
    ASSUME WorkTypes, SlotIsHeld, GoalsAreKept,
           (\E t \in GoalThreads : DriverLooks(t)) \/ Drive
    PROVE  GoalsAreKept'
<1> USE DriverShape DEF WorkTypes, TaskTypes
<1> DEFINE t == driver.t
<1>0. ASSUME Drive
      PROVE  /\ t \in Threads /\ goal[t] \in Goal /\ driven[t] \in Nat /\ goal[t].turns \in Nat
             /\ watch.pc \notin {"charged", "sent"} /\ UNCHANGED <<watch, word>>
             /\ driver.pc # "idle"
  BY <1>0 DEF Drive, DriverCharges, DriverSends, DriverLands, SlotIsHeld, RecordTypes, HistoryTypes,
              Goal, people
<1>1. CASE \E x \in GoalThreads : DriverLooks(x)
  BY <1>1 DEF DriverLooks, Quiet, SlotIsHeld, GoalsAreKept, PaidFor, HandOversLand, StoppedStays, Pending, InHand,
              records, people, history
<1>2. CASE DriverCharges
  <2>1. /\ t \in Threads /\ goal[t] \in Goal /\ UNCHANGED <<driven, refused>>
        /\ driver.pc = "looked" /\ goal[t].turns \in Nat
    BY <1>0, <1>2 DEF Drive, DriverCharges, history
  <2>2. CASE ~IsDriving(goal[t])
    BY <1>0, <1>2, <2>1, <2>2
       DEF Drive, DriverCharges, Quiet, GoalsAreKept, PaidFor, HandOversLand, StoppedStays, Pending, InHand
  <2>3. CASE IsDriving(goal[t]) /\ DispatchNeverStarted(goal[t])
    <3> DEFINE h == Settle(goal[t], "blocked")
    <3>1. h \in Goal /\ h.turns = goal[t].turns /\ h.status = "blocked" /\ ~h.open
      BY <2>1, <2>3, SettleGives DEF IsDriving, GoalStatuses
    <3>2. goal' = [goal EXCEPT ![t] = h] /\ driver' = Quiet
      BY <1>2, <2>3 DEF DriverCharges
    <3> HIDE DEF h
    <3> QED
      BY <1>0, <1>2, <2>1, <2>3, <3>1, <3>2
         DEF Drive, Quiet, IsDriving, RecordTypes, GoalsAreKept, PaidFor, HandOversLand, StoppedStays, Pending,
             InHand
  <2>4. CASE IsDriving(goal[t]) /\ ~DispatchNeverStarted(goal[t])
    <3> DEFINE h == HandOver(goal[t])
    <3>1. h \in Goal /\ h.turns = goal[t].turns + 1 /\ h.status \in {"active", "out_of_turns"}
      BY <2>1, <2>4, HandOverGives DEF IsDriving
    <3>2. goal' = [goal EXCEPT ![t] = h] /\ driver'.pc = "charged" /\ driver'.t = t
      BY <1>2, <2>4 DEF DriverCharges
    <3> HIDE DEF h, t
    <3>3. goal'[t] = h /\ \A x \in Threads : x # t => goal'[x] = goal[x]
      BY <2>1, <3>2 DEF RecordTypes
    <3>4. PaidFor'
      BY <1>0, <1>2, <2>1, <3>1, <3>2, <3>3
         DEF Drive, t, GoalsAreKept, PaidFor, Pending, HistoryTypes
    <3>5. HandOversLand'
      BY <1>0, <1>2, <2>1, <3>1, <3>2, <3>3 DEF Drive, t, GoalsAreKept, HandOversLand, InHand
    <3>6. StoppedStays'
      BY <1>0, <1>2, <2>1, <2>4, <3>1, <3>3
         DEF Drive, IsDriving, GoalsAreKept, StoppedStays
    <3> QED
      BY <3>4, <3>5, <3>6 DEF GoalsAreKept
  <2> QED
    BY <2>2, <2>3, <2>4
<1>3. CASE DriverSends
  <2>1. PICK begun \in BOOLEAN, got \in 0..MaxStarts :
          /\ driver' = [pc |-> "sent", t |-> t, gen |-> driver.gen, got |-> got]
          /\ refused' = [refused EXCEPT ![t] = got = 0]
          /\ driven' = [driven EXCEPT ![t] = IF begun THEN @ + 1 ELSE @]
    BY <1>3 DEF DriverSends, Counted
  <2>2. UNCHANGED goal /\ driver.pc = "charged"
    BY <1>3 DEF DriverSends, records
  <2> HIDE DEF t
  <2>3. \A x \in Threads : x # t => driven'[x] = driven[x] /\ refused'[x] = refused[x]
    BY <1>0, <1>3, <2>1 DEF Drive, HistoryTypes
  <2>4. driven'[t] <= driven[t] + 1 /\ (refused'[t] <=> got = 0)
    <3>1. driven'[t] <= driven[t] + 1
      BY <1>0, <1>3, <2>1 DEF Drive, HistoryTypes
    <3>2. refused'[t] = (got = 0)
      BY <1>0, <1>3, <2>1, Zenon DEF Drive, HistoryTypes
    <3> QED
      BY <3>1, <3>2
  <2>5. PaidFor'
    BY <1>0, <1>3, <2>1, <2>2, <2>3, <2>4 DEF Drive, t, GoalsAreKept, PaidFor, Pending, HistoryTypes
  <2>6. HandOversLand' /\ StoppedStays'
    BY <1>0, <1>3, <2>1, <2>2, <2>3, <2>4
       DEF Drive, t, GoalsAreKept, HandOversLand, InHand, StoppedStays
  <2> QED
    BY <2>5, <2>6 DEF GoalsAreKept
<1>4. CASE DriverLands
  <2> DEFINE h == IF driver.got = 0 THEN goal[t]
                  ELSE NoteDispatchTurn(DispatchLanded(goal[t]), driver.gen, driver.got)
  <2>1. /\ driver.pc = "sent" /\ driver.gen \in Nat /\ driver.got \in Nat
        /\ goal' = [goal EXCEPT ![t] = h] /\ driver' = Quiet /\ UNCHANGED <<refused, driven>>
    BY <1>4 DEF DriverLands, history
  <2>2. /\ h \in Goal /\ h.turns = goal[t].turns /\ h.status = goal[t].status
        /\ h.open = goal[t].open
        /\ driver.got = 0 \/ ~h.open \/ h.landed
        /\ driver.got = 0 => h = goal[t]
    <3>1. t \in Threads /\ goal[t] \in Goal
      BY <1>0, <1>4 DEF Drive
    <3>2. CASE driver.got = 0
      BY <3>1, <3>2
    <3>3. CASE driver.got # 0
      BY <2>1, <3>1, <3>3, LandedGives
    <3> QED
      BY <3>2, <3>3
  <2> HIDE DEF h, t
  <2>3. goal'[t] = h /\ \A x \in Threads : x # t => goal'[x] = goal[x]
    BY <1>0, <1>4, <2>1 DEF Drive, RecordTypes
  <2>4. PaidFor' /\ StoppedStays'
    BY <1>0, <1>4, <2>1, <2>2, <2>3
       DEF Drive, Quiet, GoalsAreKept, PaidFor, StoppedStays, Pending, HistoryTypes
  <2>5. HandOversLand'
    BY <1>0, <1>4, <2>1, <2>2, <2>3
       DEF Drive, Quiet, t, GoalsAreKept, HandOversLand, InHand, IsDriving, DispatchNeverStarted
  <2> QED
    BY <2>4, <2>5 DEF GoalsAreKept
<1> QED
  BY <1>1, <1>2, <1>3, <1>4 DEF Drive

\* A wake keeps it.
LEMMA WakeKeepsGoals ==
    ASSUME WorkTypes, SlotIsHeld, GoalsAreKept, Wake
    PROVE  GoalsAreKept'
<1> USE WatchShape DEF WorkTypes, TaskTypes
<1> DEFINE t == watch.t
<1>0. /\ t \in Threads /\ goal[t] \in Goal /\ driven[t] \in Nat /\ goal[t].turns \in Nat
      /\ UNCHANGED <<driver, word>>
  BY DEF Wake, WakeMarks, WakeCharges, WakeSends, WakeLands, RecordTypes, HistoryTypes, Goal, people
<1>1. CASE WakeMarks
  BY <1>1 DEF WakeMarks, Quiet, GoalsAreKept, PaidFor, HandOversLand, StoppedStays, Pending,
              InHand, people, history
<1>2. CASE WakeCharges
  <2>1. /\ watch.pc = "marked" /\ driver.pc = "idle" /\ UNCHANGED <<driven, refused>>
        /\ watch'.pc = "charged" /\ watch'.t = t /\ watch'.charged = IsDriving(goal[t])
    BY <1>2 DEF WakeCharges, SlotIsHeld, history
  <2>2. CASE ~IsDriving(goal[t])
    <3>1. goal' = [goal EXCEPT ![t] = goal[t]]
      BY <1>2, <2>2 DEF WakeCharges
    <3>2. UNCHANGED goal
      BY <1>0, <3>1 DEF RecordTypes
    <3> HIDE DEF t
    <3> QED
      BY <1>0, <2>1, <2>2, <3>2
         DEF GoalsAreKept, PaidFor, HandOversLand, StoppedStays, Pending, InHand
  <2>3. CASE IsDriving(goal[t])
    <3> DEFINE h == HandOver(goal[t])
    <3>1. h \in Goal /\ h.turns = goal[t].turns + 1 /\ h.status \in {"active", "out_of_turns"}
      BY <1>0, <2>3, HandOverGives DEF IsDriving
    <3>2. goal' = [goal EXCEPT ![t] = h]
      BY <1>2, <2>3 DEF WakeCharges
    <3> HIDE DEF h, t
    <3>3. goal'[t] = h /\ \A x \in Threads : x # t => goal'[x] = goal[x]
      BY <1>0, <3>2 DEF RecordTypes
    <3>4. PaidFor'
      BY <1>0, <2>1, <2>3, <3>1, <3>3 DEF t, GoalsAreKept, PaidFor, Pending, HistoryTypes
    <3>5. HandOversLand'
      BY <1>0, <2>1, <2>3, <3>1, <3>3 DEF t, GoalsAreKept, HandOversLand, InHand
    <3>6. StoppedStays'
      BY <1>0, <2>1, <2>3, <3>1, <3>3 DEF IsDriving, GoalsAreKept, StoppedStays
    <3> QED
      BY <3>4, <3>5, <3>6 DEF GoalsAreKept
  <2> QED
    BY <2>2, <2>3
<1>3. CASE WakeSends
  <2>1. PICK begun \in BOOLEAN, got \in 0..MaxStarts :
          /\ watch' = [pc |-> "sent", t |-> t, charged |-> watch.charged, got |-> got]
          /\ refused' = [refused EXCEPT ![t] = IF watch.charged THEN got = 0 ELSE @]
          /\ driven' = [driven EXCEPT ![t] = IF begun /\ watch.charged THEN @ + 1 ELSE @]
    BY <1>3 DEF WakeSends, Counted
  <2>2. UNCHANGED goal /\ watch.pc = "charged" /\ driver.pc = "idle"
    BY <1>3 DEF WakeSends, SlotIsHeld, records
  <2> HIDE DEF t
  <2>3. \A x \in Threads : x # t => driven'[x] = driven[x] /\ refused'[x] = refused[x]
    BY <1>0, <2>1 DEF HistoryTypes
  <2>4. driven'[t] <= driven[t] + (IF watch.charged THEN 1 ELSE 0)
    BY <1>0, <2>1 DEF HistoryTypes
  <2>5. refused'[t] = IF watch.charged THEN got = 0 ELSE refused[t]
    BY <1>0, <2>1, Zenon DEF HistoryTypes
  <2>6. PaidFor'
    BY <1>0, <2>1, <2>2, <2>3, <2>4 DEF t, GoalsAreKept, PaidFor, Pending, HistoryTypes
  <2>7. HandOversLand' /\ StoppedStays'
    BY <1>0, <2>1, <2>2, <2>3, <2>5 DEF t, GoalsAreKept, HandOversLand, InHand, StoppedStays
  <2> QED
    BY <2>6, <2>7 DEF GoalsAreKept
<1>4. CASE WakeLands
  <2> DEFINE g == goal[t]
             h == IF watch.charged /\ watch.got # 0
                  THEN NoteDispatchTurn(DispatchLanded(g), g.gen, watch.got) ELSE g
  <2>1. /\ watch.pc = "sent" /\ watch.got \in Nat /\ driver.pc = "idle" /\ watch.charged \in BOOLEAN
        /\ goal' = [goal EXCEPT ![t] = h] /\ watch' = Quiet /\ UNCHANGED <<refused, driven>>
    BY <1>4 DEF WakeLands, SlotIsHeld, history
  <2>2. /\ h \in Goal /\ h.turns = g.turns /\ h.status = g.status /\ h.open = g.open
        /\ h = g \/ ~h.open \/ h.landed
        /\ ~watch.charged \/ watch.got = 0 \/ ~h.open \/ h.landed
    <3>1. CASE watch.charged /\ watch.got # 0
      <4>1. g \in Goal /\ g.gen \in Nat /\ watch.got \in Nat
        BY <1>0, <2>1 DEF Goal
      <4>2. h = NoteDispatchTurn(DispatchLanded(g), g.gen, watch.got)
        BY <3>1
      <4> HIDE DEF g, h
      <4> QED
        BY <4>1, <4>2, LandedGives
    <3>2. CASE ~(watch.charged /\ watch.got # 0)
      BY <1>0, <3>2
    <3> QED
      BY <3>1, <3>2
  <2> HIDE DEF h, t
  <2>3. goal'[t] = h /\ \A x \in Threads : x # t => goal'[x] = goal[x]
    BY <1>0, <2>1 DEF RecordTypes
  <2>4. PaidFor' /\ StoppedStays'
    BY <1>0, <2>1, <2>2, <2>3
       DEF Quiet, GoalsAreKept, PaidFor, StoppedStays, Pending, HistoryTypes
  <2>5. HandOversLand'
    BY <1>0, <2>1, <2>2, <2>3
       DEF Quiet, t, GoalsAreKept, HandOversLand, InHand, IsDriving, DispatchNeverStarted
  <2> QED
    BY <2>4, <2>5 DEF GoalsAreKept
<1> QED
  BY <1>1, <1>2, <1>3, <1>4 DEF Wake

\* A goal that is settled, resumed, revised or new is none that waits for a hand-over to land;
\* it keeps what holds of goals, if its count and its last word allow.
LEMMA ClosedGoalIsKept ==
    ASSUME WorkTypes, GoalsAreKept, NEW t \in Threads, NEW h \in Goal,
           goal' = [goal EXCEPT ![t] = h],
           UNCHANGED <<driver, watch, refused>>,
           ~h.open \/ h = goal[t],
           \A x \in Threads : x # t => driven'[x] = driven[x] /\ word'[x] = word[x],
           driven'[t] + (IF Pending(t) THEN 1 ELSE 0) <= h.turns,
           word'[t] = "stop" => h.status \in {"none", "cancelled"}
    PROVE  GoalsAreKept'
<1>1. goal'[t] = h /\ \A x \in Threads : x # t => goal'[x] = goal[x]
  BY DEF WorkTypes, RecordTypes
<1>2. \A x \in Threads : Pending(x)' <=> Pending(x)
  BY DEF Pending
<1>3. \A x \in Threads : InHand(x)' <=> InHand(x)
  BY DEF InHand
<1>4. PaidFor'
  <2> SUFFICES ASSUME NEW x \in Threads
               PROVE  driven'[x] + (IF Pending(x)' THEN 1 ELSE 0) <= goal'[x].turns
    BY DEF PaidFor
  <2>1. CASE x = t
    BY <1>1, <1>2, <2>1
  <2>2. CASE x # t
    BY <1>1, <1>2, <2>2 DEF GoalsAreKept, PaidFor
  <2> QED
    BY <2>1, <2>2
<1>5. HandOversLand'
  BY <1>1, <1>3 DEF GoalsAreKept, HandOversLand, DispatchNeverStarted
<1>6. StoppedStays'
  BY <1>1 DEF GoalsAreKept, StoppedStays
<1> QED
  BY <1>4, <1>5, <1>6 DEF GoalsAreKept

\* A person's message or stop keeps it.
LEMMA PersonKeepsGoals ==
    ASSUME WorkTypes, SlotIsHeld, GoalsAreKept, PersonActs
    PROVE  GoalsAreKept'
<1> USE DEF WorkTypes
<1>1. ASSUME UNCHANGED <<goal, driver, watch, refused, driven, word>>
      PROVE  GoalsAreKept'
  BY <1>1 DEF GoalsAreKept, PaidFor, HandOversLand, StoppedStays, Pending, InHand
<1>2. ASSUME NEW t \in Threads, slot \in {"free", "person"}
      PROVE  /\ ~Pending(t) /\ goal[t] \in Goal /\ driven[t] \in Nat
             /\ driven[t] <= goal[t].turns
             /\ word[t] = "stop" => goal[t].status \in {"none", "cancelled"}
  <2>1. ~Pending(t)
    BY <1>2 DEF SlotIsHeld, Pending
  <2> QED
    BY <2>1 DEF GoalsAreKept, PaidFor, StoppedStays, RecordTypes, HistoryTypes, Goal
<1>3. CASE \E t \in Threads : PersonTypes(t)
  BY <1>1, <1>3 DEF PersonTypes, records, history
<1>4. ASSUME NEW t \in Threads, PersonStops(t)
      PROVE  GoalsAreKept'
  <2> DEFINE h == IF IsDriving(goal[t]) THEN Settle(goal[t], "interrupted") ELSE goal[t]
  <2>1. slot = "free" /\ goal' = [goal EXCEPT ![t] = h]
        /\ UNCHANGED <<driver, watch, refused, driven, word>>
    BY <1>4 DEF PersonStops
  <2>2. /\ h \in Goal /\ h.turns = goal[t].turns
        /\ ~h.open \/ h = goal[t]
        /\ h = goal[t] \/ goal[t].status = "active"
    <3>1. goal[t] \in Goal
      BY DEF RecordTypes
    <3> QED
      BY <3>1, SettleGives DEF GoalStatuses, IsDriving
  <2> HIDE DEF h
  <2>3. driven'[t] + (IF Pending(t) THEN 1 ELSE 0) <= h.turns
        /\ (word'[t] = "stop" => h.status \in {"none", "cancelled"})
    BY <1>2, <2>1, <2>2
  <2> QED
    BY <2>1, <2>2, <2>3, ClosedGoalIsKept
<1>5. CASE PersonReplies
  <2> DEFINE t == person.t
             h == ResumeOnReply(goal[t])
  <2>1. t \in Threads /\ slot = "person"
    BY <1>5, PersonShape DEF PersonReplies, TaskTypes, SlotIsHeld
  <2>2. goal' = [goal EXCEPT ![t] = h] /\ UNCHANGED <<driver, watch, refused, driven, word>>
    BY <1>5 DEF PersonReplies, people
  <2>3. /\ h \in Goal /\ h.turns = goal[t].turns
        /\ h = goal[t] \/ (goal[t].status \in {"awaiting_user", "blocked"} /\ ~h.open)
    BY <1>2, <2>1, ResumeGives
  <2> HIDE DEF h, t
  <2>4. driven'[t] + (IF Pending(t) THEN 1 ELSE 0) <= h.turns
        /\ (word'[t] = "stop" => h.status \in {"none", "cancelled"})
    BY <1>2, <2>1, <2>2, <2>3
  <2> QED
    BY <2>1, <2>2, <2>3, <2>4, ClosedGoalIsKept
<1>6. CASE PersonStarts \/ StopIsAnswered \/ StopSettles \/ StopIsGivenUp
  BY <1>1, <1>6
     DEF PersonStarts, StopIsAnswered, StopSettles, StopIsGivenUp, records, people, history
<1> QED
  BY <1>3, <1>4, <1>5, <1>6 DEF PersonActs, Serve

\* Frames that are applied, and reports, keep it.
LEMMA GoalActsKeepGoals ==
    ASSUME WorkTypes, SlotIsHeld, GoalsAreKept, GoalActs
    PROVE  GoalsAreKept'
<1> USE DEF WorkTypes
<1>1. ASSUME NEW f \in frames
      PROVE  f.t \in Threads /\ f.n \in Nat /\ goal[f.t] \in Goal
             /\ driven \in [Threads -> Nat] /\ word \in [Threads -> GoalFrames \cup {"none"}]
  BY Numbers DEF PeopleTypes, RecordTypes, HistoryTypes
<1>2. ASSUME NEW t \in Threads
      PROVE  slot = "free" => ~Pending(t)
  BY DEF SlotIsHeld, Pending
<1>3. ASSUME NEW t \in Threads
      PROVE  goal[t].turns \in Nat /\ driven[t] \in Nat /\ driven[t] <= goal[t].turns
  <2>1. goal[t].turns \in Nat /\ driven[t] \in Nat
    BY DEF RecordTypes, HistoryTypes, Goal
  <2>2. driven[t] + (IF Pending(t) THEN 1 ELSE 0) <= goal[t].turns
    BY DEF GoalsAreKept, PaidFor
  <2> QED
    BY <2>1, <2>2
<1>4. ASSUME NEW f \in frames, SetGoal(f)
      PROVE  GoalsAreKept'
  <2> DEFINE t == f.t
             h == IF goal[t].status = "none" THEN NewGoal ELSE Revise(goal[t], f.what = "reset")
  <2>1. /\ slot = "free" /\ f.what # "stop" /\ applied[t] < f.n
        /\ goal' = [goal EXCEPT ![t] = h]
        /\ driven' = [driven EXCEPT ![t] = IF h.turns = 0 THEN 0 ELSE @]
        /\ word' = [word EXCEPT ![t] = IF f.n > applied[t] THEN f.what ELSE @]
        /\ UNCHANGED <<driver, watch, refused>>
    BY <1>4 DEF SetGoal, Claims, Remembers, tasks
  <2>2. h \in Goal /\ h.turns \in {0, goal[t].turns} /\ ~h.open
    BY <1>1, NewGoalGives, ReviseGives
  <2> HIDE DEF h
  <2>3. driven'[t] \in Nat /\ driven'[t] <= h.turns
    BY <1>1, <1>3, <2>1, <2>2
  <2>4. word'[t] # "stop"
    <3>1. applied[t] \in Nat
      BY <1>1 DEF PeopleTypes
    <3>2. f.n > applied[t]
      BY <1>1, <2>1, <3>1
    <3> QED
      BY <1>1, <2>1, <3>2
  <2>5. \A x \in Threads : x # t => driven'[x] = driven[x] /\ word'[x] = word[x]
    BY <1>1, <2>1
  <2>6. t \in Threads /\ ~Pending(t)
    BY <1>1, <1>2, <2>1
  <2> HIDE DEF t
  <2>7. driven'[t] + (IF Pending(t) THEN 1 ELSE 0) <= h.turns
    BY <2>3, <2>6
  <2> QED
    BY <2>1, <2>2, <2>4, <2>5, <2>6, <2>7, ClosedGoalIsKept
<1>5. ASSUME NEW f \in frames, StopGoal(f)
      PROVE  GoalsAreKept'
  <2> DEFINE t == f.t
             h == IF goal[t].status = "none" THEN goal[t] ELSE Settle(goal[t], "cancelled")
  <2>1. /\ slot = "free" /\ goal' = [goal EXCEPT ![t] = h]
        /\ \A x \in Threads : x # t => word'[x] = word[x]
        /\ UNCHANGED <<driver, watch, refused, driven>>
    BY <1>1, <1>5 DEF StopGoal, Remembers, tasks
  <2>2. /\ h \in Goal /\ h.turns = goal[t].turns /\ h.status \in {"none", "cancelled"}
        /\ ~h.open \/ h = goal[t]
    BY <1>1, SettleGives DEF GoalStatuses
  <2> HIDE DEF h
  <2>3. t \in Threads /\ ~Pending(t)
    BY <1>1, <1>2, <2>1
  <2> HIDE DEF t
  <2>4. driven'[t] + (IF Pending(t) THEN 1 ELSE 0) <= h.turns
    BY <1>3, <2>1, <2>2, <2>3
  <2> QED
    BY <2>1, <2>2, <2>3, <2>4, ClosedGoalIsKept
<1>6. ASSUME NEW t \in GoalThreads, NEW s \in {"complete_claimed", "blocked", "awaiting_user"},
             Report(t, s)
      PROVE  GoalsAreKept'
  <2> DEFINE h == Settle(goal[t], s)
  <2>1. t \in Threads /\ goal[t].open /\ goal' = [goal EXCEPT ![t] = h]
        /\ UNCHANGED <<driver, watch, refused, driven, word>>
    BY <1>6, Numbers DEF Report, tasks, people, history
  <2>2. /\ h \in Goal /\ h.turns = goal[t].turns
        /\ ~h.open \/ h = goal[t]
        /\ h = goal[t] \/ goal[t].status # "cancelled"
    <3>1. goal[t] \in Goal
      BY <2>1 DEF RecordTypes
    <3> QED
      BY <3>1, SettleGives DEF GoalStatuses
  <2> HIDE DEF h
  <2>3. driven'[t] + (IF Pending(t) THEN 1 ELSE 0) <= h.turns
    BY <2>1, <2>2 DEF GoalsAreKept, PaidFor
  <2>4. word'[t] = "stop" => h.status \in {"none", "cancelled"}
    BY <2>1, <2>2 DEF GoalsAreKept, StoppedStays
  <2> QED
    BY <2>1, <2>2, <2>3, <2>4, ClosedGoalIsKept
<1> QED
  BY <1>4, <1>5, <1>6 DEF GoalActs

\* Every step keeps what holds of goals.
LEMMA GoalsKept ==
    ASSUME WorkTypes, SlotIsHeld, GoalsAreKept, [Next]_vars
    PROVE  GoalsAreKept'
<1>1. CASE ~Slots /\ ~GoalActs
  <2>1. UNCHANGED <<goal, driven, refused, word, driver>>
    BY <1>1, WhoTakesTheSlot, WhoTouchesGoals
  <2>2. watch.pc \in {"charged", "sent"} \/ watch'.pc \in {"charged", "sent"} => UNCHANGED watch
    BY <1>1, WhoTakesTheSlot
  <2> QED
    BY <2>1, <2>2 DEF GoalsAreKept, PaidFor, HandOversLand, StoppedStays, Pending, InHand
<1> QED
  BY <1>1, DriveKeepsGoals, WakeKeepsGoals, PersonKeepsGoals, GoalActsKeepGoals DEF Slots, PersonActs

(***************************************************************************)
(* Answers                                                                 *)
(***************************************************************************)

\* A step on the asks keeps who was asked, and moves neither a record nor a turn to another ask.
AskMoves ==
    \/ Sweep \/ Wake \/ StopSettles
    \/ \E t \in Threads : Delegate(t) \/ ReportBack(t)

\* Besides these, only turns that end or begin matter to an ask.
LEMMA WhoTouchesAsks ==
    ASSUME [Next]_vars, ~AskMoves
    PROVE  UNCHANGED <<asks, handed>>
<1>1. CASE UNCHANGED vars
  BY <1>1 DEF vars
<1>2. CASE \E i \in DOMAIN turns : TurnEnds(i)
  BY <1>2 DEF TurnEnds, records, history
<1>3. CASE (\E t \in GoalThreads : DriverLooks(t)) \/ Drive
  BY <1>3 DEF DriverLooks, Drive, DriverCharges, DriverSends, DriverLands, records, history
<1>4. CASE \E a \in AskIds, expired \in BOOLEAN : SweepReads(a, expired)
  BY <1>4 DEF SweepReads, watchOnly, history
<1>5. CASE \E t \in Threads : WakeLooks(t)
  BY <1>5 DEF WakeLooks, watchOnly, history
<1>6. CASE PersonActs
  BY <1>6 DEF PersonActs, PersonTypes, PersonStops, Serve, PersonStarts, PersonReplies,
              StopIsAnswered, StopIsGivenUp, AskMoves, records, history
<1>7. CASE (\E t \in GoalThreads : \E what \in GoalFrames : FrameArrives(t, what))
           \/ \E f \in frames : Handle(f)
  BY <1>7 DEF FrameArrives, Handle, FrameIsRefused, FrameIsLate, SetGoal, StopGoal, records, history
<1>8. CASE \/ \E t \in GoalThreads, s \in {"complete_claimed", "blocked", "awaiting_user"} : Report(t, s)
           \/ \E pair \in MayAsk : DelegateChecks(pair[1], pair[2])
  BY <1>8 DEF Report, DelegateChecks, records, history
<1> QED
  BY <1>1, <1>2, <1>3, <1>4, <1>5, <1>6, <1>7, <1>8 DEF Next, PersonActs, AskMoves

\* What may happen to the record of an ask in one step.
AskMay(a) ==
    \/ asks'[a] = asks[a]
    \/ asks[a].status # "none" /\ asks'[a] = Fail(asks[a])
    \/ asks[a].status # "none" /\ \E i \in Nat : Mine(a, i) /\ asks'[a] = Finish(asks[a], i)
    \/ /\ IsLive(asks[a])
       /\ \E i \in Nat : asks'[a] = [Finish(asks[a], i) EXCEPT !.byTool = TRUE]
    \/ /\ asks[a].status # "none"
       /\ \E i, j \in Nat :
              /\ Mine(a, i) /\ Mine(a, j)
              /\ asks'[a] = [asks[a] EXCEPT !.nudged = TRUE, !.turn = i, !.baseline = j]
    \/ /\ asks[a].status # "none"
       /\ \E i \in Nat : Mine(a, i) /\ asks'[a] = [asks[a] EXCEPT !.turn = i, !.sent = TRUE]
    \/ WakeMarks /\ a \in watch.owed /\ asks'[a] = [asks[a] EXCEPT !.delivered = TRUE]
    \/ /\ asks[a] = NoAsk
       /\ \E x, y \in Threads, i \in Nat : asks'[a] = NewAsk(x, y, i)

\* A reply that answers an ask was said in a turn of the ask.
LEMMA AnswerIsMine ==
    ASSUME WorkTypes, RecordsAreOwn, NEW a \in AskIds, NEW i, ReplyAnswersAsk(asks[a], i)
    PROVE  Mine(a, i) /\ i \in Nat
BY DEF WorkTypes, RecordTypes, Ask, RecordsAreOwn, ReplyAnswersAsk

\* What settling does to an ask.
LEMMA SweepSettles ==
    ASSUME WorkTypes, AsksAreReal, AsksAreOwn, Sweep, NEW a \in AskIds
    PROVE  AskMay(a)
<1> DEFINE b == watch.ask
<1> USE DEF WorkTypes
<1>0. watch.pc \in {"read", "nudge", "nudged"}
  BY DEF Sweep, SweepFails, SweepTimesOut, SweepMatches, SweepNudges, SweepNotes
<1>1. b \in AskIds /\ watch.item \in Nat /\ asks[b].status # "none" /\ asks[b].baseline \in Nat
  BY <1>0, WatchShape DEF TaskTypes, AsksAreReal, RecordTypes, Ask
<1> HIDE DEF b
<1>2. ASSUME NEW h, asks' = [asks EXCEPT ![b] = h], a # b
      PROVE  AskMay(a)
  BY <1>2 DEF AskMay, RecordTypes
<1>3. ASSUME NEW h, asks' = [asks EXCEPT ![b] = h]
      PROVE  asks'[b] = h
  BY <1>1, <1>3 DEF RecordTypes
<1>4. CASE SweepFails
  <2>1. asks' = [asks EXCEPT ![b] = IF @.nudged THEN Finish(@, @.baseline) ELSE Fail(@)]
    BY <1>4 DEF SweepFails, b
  <2>2. asks[b].nudged => Mine(b, asks[b].baseline)
    BY <1>1 DEF AsksAreOwn, RecordsAreOwn
  <2>3. AskMay(b)
    <3>1. asks'[b] = IF asks[b].nudged THEN Finish(asks[b], asks[b].baseline) ELSE Fail(asks[b])
      BY <1>1, <2>1 DEF RecordTypes
    <3> QED
      BY <1>1, <2>2, <3>1 DEF AskMay
  <2> QED
    BY <1>2, <2>1, <2>3
<1>5. CASE SweepTimesOut
  <2>1. asks' = [asks EXCEPT ![b] = IF ReplyAnswersAsk(@, watch.item) THEN Finish(@, watch.item)
                                    ELSE Fail(@)]
    BY <1>5 DEF SweepTimesOut, b
  <2>2. ReplyAnswersAsk(asks[b], watch.item) => Mine(b, watch.item)
    BY <1>1, AnswerIsMine DEF AsksAreOwn
  <2>3. AskMay(b)
    <3>1. asks'[b] = IF ReplyAnswersAsk(asks[b], watch.item) THEN Finish(asks[b], watch.item)
                     ELSE Fail(asks[b])
      BY <1>1, <2>1 DEF RecordTypes
    <3> QED
      BY <1>1, <2>2, <3>1 DEF AskMay
  <2> QED
    BY <1>2, <2>1, <2>3
<1>6. CASE SweepMatches
  <2>1. UNCHANGED asks \/ asks' = [asks EXCEPT ![b] = Finish(@, watch.item)]
    BY <1>6 DEF SweepMatches, b
  <2>2. Mine(b, watch.item)
    BY <1>6 DEF SweepMatches, AsksAreOwn, WatchIsOwn, b
  <2>3. CASE UNCHANGED asks
    BY <2>3 DEF AskMay
  <2>4. CASE asks' = [asks EXCEPT ![b] = Finish(@, watch.item)]
    <3>1. AskMay(b)
      BY <1>1, <1>3, <2>2, <2>4 DEF AskMay
    <3> QED
      BY <1>2, <2>4, <3>1
  <2> QED
    BY <2>1, <2>3, <2>4
<1>7. CASE SweepNudges
  BY <1>7 DEF SweepNudges, AskMay, records
<1>8. CASE SweepNotes
  <2> DEFINE h == IF watch.got = 0 THEN Finish(asks[b], watch.item)
                  ELSE [asks[b] EXCEPT !.nudged = TRUE, !.turn = watch.got, !.baseline = watch.item]
  <2>1. asks' = [asks EXCEPT ![b] = h]
    BY <1>8 DEF SweepNotes, b
  <2>2. Mine(b, watch.item) /\ (watch.got # 0 => Mine(b, watch.got)) /\ watch.got \in Nat
    BY <1>8, WatchShape DEF SweepNotes, AsksAreOwn, WatchIsOwn, TaskTypes, b
  <2>3. AskMay(b)
    <3>1. asks'[b] = h
      BY <1>3, <2>1
    <3> QED
      BY <1>1, <2>2, <3>1 DEF AskMay
  <2> QED
    BY <1>2, <2>1, <2>3
<1> QED
  BY <1>4, <1>5, <1>6, <1>7, <1>8 DEF Sweep

\* What any step does to an ask.
LEMMA AsksMayOnly ==
    ASSUME WorkTypes, AsksAreReal, AsksAreOwn, [Next]_vars, NEW a \in AskIds
    PROVE  AskMay(a)
<1> USE DEF WorkTypes
<1>1. CASE ~AskMoves
  BY <1>1, WhoTouchesAsks DEF AskMay
<1>2. CASE Sweep
  BY <1>2, SweepSettles
<1>3. CASE Wake
  <2>1. CASE WakeMarks
    BY <2>1 DEF WakeMarks, AskMay
  <2>2. CASE WakeCharges \/ WakeSends \/ WakeLands
    BY <2>2 DEF WakeCharges, WakeSends, WakeLands, AskMay, records
  <2> QED
    BY <1>3, <2>1, <2>2 DEF Wake
<1>4. CASE StopSettles
  <2> DEFINE item == Latest(person.t)
  <2>1. \/ asks'[a] = asks[a]
        \/ /\ IsLive(asks[a])
           /\ asks'[a] = IF ReplyAnswersAsk(asks[a], item) THEN Finish(asks[a], item) ELSE Fail(asks[a])
    BY <1>4 DEF StopSettles
  <2>2. ReplyAnswersAsk(asks[a], item) => Mine(a, item) /\ item \in Nat
    BY AnswerIsMine DEF AsksAreOwn
  <2> HIDE DEF item
  <2> QED
    BY <2>1, <2>2 DEF AskMay, IsLive
<1>5. ASSUME NEW t \in Threads, DelegateRecords(t)
      PROVE  AskMay(a)
  <2> DEFINE p == delegates[t].peer
  <2>1. p \in Threads /\ Latest(p) \in Nat
    BY <1>5, CallShape, LatestIsATurn DEF DelegateRecords, TaskTypes
  <2>2. UNCHANGED asks \/ \E b \in AskIds : asks[b] = NoAsk /\ asks' = [asks EXCEPT ![b] = NewAsk(t, p, Latest(p))]
    BY <1>5 DEF DelegateRecords
  <2> HIDE DEF p
  <2>3. asks'[a] = asks[a] \/ (asks[a] = NoAsk /\ asks'[a] = NewAsk(t, p, Latest(p)))
    BY <2>2 DEF RecordTypes
  <2> QED
    BY <2>1, <2>3 DEF AskMay
<1>6. ASSUME NEW t \in Threads, DelegateSends(t)
      PROVE  AskMay(a)
  BY <1>6 DEF DelegateSends, AskMay, records
<1>7. ASSUME NEW t \in Threads, DelegateSent(t)
      PROVE  AskMay(a)
  <2> DEFINE b == delegates[t].ask
             got == delegates[t].got
             h == IF got = 0 THEN Fail(asks[b]) ELSE [asks[b] EXCEPT !.turn = got, !.sent = TRUE]
  <2>1. /\ b \in AskIds /\ got \in Nat /\ asks[b].status # "none"
        /\ got # 0 => Mine(b, got)
    BY <1>7, CallShape DEF DelegateSent, TaskTypes, AsksAreReal, AsksAreOwn, CallsAreOwn
  <2>2. asks' = [asks EXCEPT ![b] = h]
    BY <1>7 DEF DelegateSent
  <2> HIDE DEF b, got
  <2>3. asks'[a] = asks[a] \/ (a = b /\ asks'[a] = h)
    BY <2>2 DEF RecordTypes
  <2> QED
    BY <2>1, <2>3 DEF AskMay
<1>8. ASSUME NEW t \in Threads, ReportBack(t)
      PROVE  AskMay(a)
  <2>1. PICK i \in Running(t), b \in AskIds :
          IsLive(asks[b]) /\ asks' = [asks EXCEPT ![b] = [Finish(@, i) EXCEPT !.byTool = TRUE]]
    BY <1>8 DEF ReportBack
  <2>2. i \in Nat
    BY DEF Running, RecordTypes
  <2> DEFINE h == [Finish(asks[b], i) EXCEPT !.byTool = TRUE]
  <2>3. asks'[a] = asks[a] \/ (a = b /\ asks'[a] = h)
    <3>1. asks' = [asks EXCEPT ![b] = h]
      BY <2>1
    <3> HIDE DEF h
    <3> QED
      BY <3>1 DEF RecordTypes
  <2> QED
    BY <2>1, <2>2, <2>3 DEF AskMay
<1> QED
  BY <1>1, <1>2, <1>3, <1>4, <1>5, <1>6, <1>7, <1>8 DEF AskMoves, Delegate

\* What is finished keeps everything but its end, and what is final keeps that too.
LEMMA FinishGives ==
    ASSUME NEW r \in Ask, NEW i \in Nat
    PROVE  /\ \A h \in {Finish(r, i), Fail(r)} :
                  /\ h \in Ask /\ h.peer = r.peer /\ h.delivered = r.delivered /\ h.turn = r.turn
                  /\ h.nudged = r.nudged /\ h.baseline = r.baseline /\ h.byTool = r.byTool
                  /\ h.status \in {"done", "failed"}
           /\ Finish(r, i).status = "done" => Finish(r, i).from \in {i, r.from}
           /\ Finish(r, i).status = "done" => r.status = "done" \/ Finish(r, i).from = i
           /\ r.status = "done" => Finish(r, i).from = r.from
           /\ Fail(r).status = "done" => r.status = "done" /\ Fail(r).from = r.from
BY DEF Ask, Finish, Fail, IsTerminal

\* What is left of an ask after a step.
LEMMA AskMayGives ==
    ASSUME WorkTypes, NEW a \in AskIds, AskMay(a)
    PROVE  /\ asks[a].status # "none" => asks'[a].status # "none" /\ asks'[a].peer = asks[a].peer
           /\ asks'[a].status # "none" => asks[a].status # "none" \/ asks'[a].peer \in Threads
           /\ \/ asks'[a].delivered = asks[a].delivered
              \/ WakeMarks /\ a \in watch.owed /\ asks'[a].delivered
           /\ asks'[a].turn # 0 => asks'[a].turn = asks[a].turn \/ Mine(a, asks'[a].turn)
           /\ asks'[a].nudged => \/ asks[a].nudged /\ asks'[a].baseline = asks[a].baseline
                                 \/ Mine(a, asks'[a].baseline)
           /\ asks'[a].status = "done" /\ ~asks'[a].byTool =>
                  \/ asks[a].status = "done" /\ ~asks[a].byTool /\ asks'[a].from = asks[a].from
                  \/ Mine(a, asks'[a].from)
<1> DEFINE r == asks[a]
           h == asks'[a]
<1>0. r \in Ask
  BY DEF WorkTypes, RecordTypes
<1> HIDE DEF r, h
<1> SUFFICES
           /\ r.status # "none" => h.status # "none" /\ h.peer = r.peer
           /\ h.status # "none" => r.status # "none" \/ h.peer \in Threads
           /\ h.delivered = r.delivered \/ (WakeMarks /\ a \in watch.owed /\ h.delivered)
           /\ h.turn # 0 => h.turn = r.turn \/ Mine(a, h.turn)
           /\ h.nudged => (r.nudged /\ h.baseline = r.baseline) \/ Mine(a, h.baseline)
           /\ h.status = "done" /\ ~h.byTool =>
                  (r.status = "done" /\ ~r.byTool /\ h.from = r.from) \/ Mine(a, h.from)
  BY DEF r, h
<1>1. CASE h = r
  BY <1>1
<1>2. CASE r.status # "none" /\ h = Fail(r)
  BY <1>0, <1>2, FinishGives
<1>3. ASSUME NEW i \in Nat, r.status # "none", Mine(a, i), h = Finish(r, i)
      PROVE  /\ h.status # "none" /\ h.peer = r.peer /\ h.delivered = r.delivered
             /\ h.turn = r.turn /\ h.nudged = r.nudged /\ h.baseline = r.baseline
             /\ h.byTool = r.byTool
             /\ h.status = "done" => (r.status = "done" /\ h.from = r.from) \/ Mine(a, h.from)
  BY <1>0, <1>3, FinishGives
<1>4. ASSUME NEW i \in Nat, IsLive(r), h = [Finish(r, i) EXCEPT !.byTool = TRUE]
      PROVE  /\ h.status # "none" /\ h.peer = r.peer /\ h.delivered = r.delivered
             /\ h.turn = r.turn /\ h.nudged = r.nudged /\ h.baseline = r.baseline /\ h.byTool
  <2> DEFINE k == Finish(r, i)
  <2>1. /\ k \in Ask /\ k.peer = r.peer /\ k.delivered = r.delivered /\ k.turn = r.turn
        /\ k.nudged = r.nudged /\ k.baseline = r.baseline /\ k.status # "none"
    BY <1>0, FinishGives
  <2> HIDE DEF k
  <2>2. h = [k EXCEPT !.byTool = TRUE]
    BY <1>4 DEF k
  <2> QED
    BY <2>1, <2>2 DEF Ask
<1>5. ASSUME NEW i \in Nat, NEW j \in Nat, r.status # "none", Mine(a, i), Mine(a, j),
             h = [r EXCEPT !.nudged = TRUE, !.turn = i, !.baseline = j]
      PROVE  /\ h.status = r.status /\ h.peer = r.peer /\ h.delivered = r.delivered
             /\ Mine(a, h.turn) /\ Mine(a, h.baseline) /\ h.byTool = r.byTool /\ h.from = r.from
  BY <1>0, <1>5 DEF Ask
<1>6. ASSUME NEW i \in Nat, r.status # "none", Mine(a, i),
             h = [r EXCEPT !.turn = i, !.sent = TRUE]
      PROVE  /\ h.status = r.status /\ h.peer = r.peer /\ h.delivered = r.delivered
             /\ Mine(a, h.turn) /\ h.nudged = r.nudged /\ h.baseline = r.baseline
             /\ h.byTool = r.byTool /\ h.from = r.from
  BY <1>0, <1>6 DEF Ask
<1>7. ASSUME h = [r EXCEPT !.delivered = TRUE]
      PROVE  /\ h.status = r.status /\ h.peer = r.peer /\ h.delivered
             /\ h.turn = r.turn /\ h.nudged = r.nudged /\ h.baseline = r.baseline
             /\ h.byTool = r.byTool /\ h.from = r.from
  BY <1>0, <1>7 DEF Ask
<1>8. ASSUME NEW x \in Threads, NEW y \in Threads, NEW i \in Nat, r = NoAsk, h = NewAsk(x, y, i)
      PROVE  /\ r.status = "none" /\ h.status = "working" /\ h.peer \in Threads
             /\ h.delivered = r.delivered /\ h.turn = 0 /\ ~h.nudged
  BY <1>8 DEF NoAsk, NewAsk
<1> QED
  <2>1. CASE r.status # "none" /\ \E i \in Nat : Mine(a, i) /\ h = Finish(r, i)
    BY <1>3, <2>1
  <2>2. CASE IsLive(r) /\ \E i \in Nat : h = [Finish(r, i) EXCEPT !.byTool = TRUE]
    BY <1>4, <2>2 DEF IsLive
  <2>3. CASE /\ r.status # "none"
             /\ \E i, j \in Nat :
                    /\ Mine(a, i) /\ Mine(a, j)
                    /\ h = [r EXCEPT !.nudged = TRUE, !.turn = i, !.baseline = j]
    BY <1>5, <2>3
  <2>4. CASE /\ r.status # "none"
             /\ \E i \in Nat : Mine(a, i) /\ h = [r EXCEPT !.turn = i, !.sent = TRUE]
    BY <1>6, <2>4
  <2>5. CASE WakeMarks /\ a \in watch.owed /\ h = [r EXCEPT !.delivered = TRUE]
    BY <1>7, <2>5
  <2>6. CASE r = NoAsk /\ \E x, y \in Threads, i \in Nat : h = NewAsk(x, y, i)
    BY <1>8, <2>6
  <2> QED
    BY <1>1, <1>2, <2>1, <2>2, <2>3, <2>4, <2>5, <2>6 DEF AskMay, r, h

\* A turn stays what it is for; one that is added is for an ask that was made, or for none.
LEMMA TurnsStay ==
    ASSUME WorkTypes, AsksAreReal, StopsKnowTheirTurn, [Next]_vars
    PROVE  /\ \A i \in DOMAIN turns :
                  i \in DOMAIN turns' /\ turns'[i].ask = turns[i].ask /\ turns'[i].thread = turns[i].thread
           /\ \A i \in DOMAIN turns' \ DOMAIN turns :
                  LET a == turns'[i].ask IN
                  a # 0 => a \in AskIds /\ asks[a].status # "none" /\ turns'[i].thread = asks[a].peer
<1>1. CASE UNCHANGED turns
  BY <1>1
<1>2. CASE Begins
  <2>1. PICK t \in Threads, a \in {0} \cup AskIds, begun \in BOOLEAN :
          /\ StartTurn(t, a, begun)
          /\ a # 0 => asks[a].status # "none" /\ t = asks[a].peer
    BY <1>2, BeginsAddsATurn
  <2>2. UNCHANGED turns \/ TurnIsAdded(t, a, Len(turns) + 1)
    <3>1. a \in Nat
      BY Numbers
    <3> QED
      BY <2>1, <3>1, StartTurnGives DEF WorkTypes
  <2> QED
    BY <1>1, <2>1, <2>2 DEF TurnIsAdded
<1>3. ASSUME NEW i \in DOMAIN turns, NEW end \in {"running", "said", "silent", "failed"},
             turns' = [turns EXCEPT ![i].state = end]
      PROVE  /\ DOMAIN turns' = DOMAIN turns
             /\ \A j \in DOMAIN turns :
                   turns'[j].ask = turns[j].ask /\ turns'[j].thread = turns[j].thread
  BY <1>3, TurnMayEnd DEF WorkTypes, RecordTypes
<1>4. CASE \E i \in DOMAIN turns : TurnEnds(i)
  BY <1>3, <1>4 DEF TurnEnds
<1>5. CASE StopIsAnswered
  <2> DEFINE s == turns[person.turn].state
             end == IF s = "running" THEN "silent" ELSE s
  <2>1. person.turn \in DOMAIN turns
    BY <1>5 DEF StopIsAnswered, StopsKnowTheirTurn
  <2>2. end \in {"running", "said", "silent", "failed"}
    <3>1. turns[person.turn] \in Turn
      BY <2>1 DEF WorkTypes, RecordTypes
    <3> QED
      BY <3>1 DEF Turn
  <2>3. UNCHANGED turns \/ turns' = [turns EXCEPT ![person.turn].state = end]
    BY <1>5 DEF StopIsAnswered
  <2> HIDE DEF end
  <2> QED
    BY <1>1, <1>3, <2>1, <2>2, <2>3
<1>6. CASE PersonActs /\ ~StopIsAnswered /\ ~Begins
  BY <1>1, <1>6 DEF PersonActs, Serve, PersonTypes, PersonStops, PersonReplies, StopSettles,
                    StopIsGivenUp, Begins
<1> QED
  BY <1>1, <1>2, <1>4, <1>5, <1>6, WhoTouchesTurns

\* Who moves the ask watchdog, and who moves a delegate call.
LEMMA WhoMovesTheWatch ==
    ASSUME [Next]_vars,
           ~(\E a \in AskIds, expired \in BOOLEAN : SweepReads(a, expired)), ~Sweep,
           ~(\E t \in Threads : WakeLooks(t)), ~Wake
    PROVE  UNCHANGED watch
<1>1. CASE UNCHANGED vars
  BY <1>1 DEF vars
<1>2. CASE \E i \in DOMAIN turns : TurnEnds(i)
  BY <1>2 DEF TurnEnds, tasks
<1>3. CASE (\E t \in GoalThreads : DriverLooks(t)) \/ Drive
  BY <1>3 DEF DriverLooks, Drive, DriverCharges, DriverSends, DriverLands
<1>4. CASE PersonActs
  BY <1>4 DEF PersonActs, PersonTypes, PersonStops, Serve, PersonStarts, PersonReplies,
              StopIsAnswered, StopSettles, StopIsGivenUp
<1>5. CASE (\E t \in GoalThreads : \E what \in GoalFrames : FrameArrives(t, what))
           \/ \E f \in frames : Handle(f)
  BY <1>5 DEF FrameArrives, Handle, FrameIsRefused, FrameIsLate, SetGoal, StopGoal, tasks
<1>6. CASE \/ \E t \in GoalThreads, s \in {"complete_claimed", "blocked", "awaiting_user"} : Report(t, s)
           \/ \E pair \in MayAsk : DelegateChecks(pair[1], pair[2])
           \/ \E t \in Threads : Delegate(t) \/ ReportBack(t)
  BY <1>6 DEF Report, DelegateChecks, Delegate, DelegateRecords, DelegateSends, DelegateSent,
              ReportBack, tasks
<1> QED
  BY <1>1, <1>2, <1>3, <1>4, <1>5, <1>6 DEF Next, PersonActs

LEMMA WhoMovesTheCalls ==
    ASSUME [Next]_vars, ~(\E pair \in MayAsk : DelegateChecks(pair[1], pair[2])),
           ~(\E t \in Threads : Delegate(t))
    PROVE  UNCHANGED delegates
<1>1. CASE UNCHANGED vars
  BY <1>1 DEF vars
<1>2. CASE \E i \in DOMAIN turns : TurnEnds(i)
  BY <1>2 DEF TurnEnds, tasks
<1>3. CASE (\E t \in GoalThreads : DriverLooks(t)) \/ Drive
  BY <1>3 DEF DriverLooks, Drive, DriverCharges, DriverSends, DriverLands
<1>4. CASE PersonActs
  BY <1>4 DEF PersonActs, PersonTypes, PersonStops, Serve, PersonStarts, PersonReplies,
              StopIsAnswered, StopSettles, StopIsGivenUp
<1>5. CASE (\E t \in GoalThreads : \E what \in GoalFrames : FrameArrives(t, what))
           \/ \E f \in frames : Handle(f)
  BY <1>5 DEF FrameArrives, Handle, FrameIsRefused, FrameIsLate, SetGoal, StopGoal, tasks
<1>6. CASE \/ \E t \in GoalThreads, s \in {"complete_claimed", "blocked", "awaiting_user"} : Report(t, s)
           \/ \E t \in Threads : ReportBack(t)
  BY <1>6 DEF Report, ReportBack, tasks
<1>7. CASE (\E a \in AskIds, expired \in BOOLEAN : SweepReads(a, expired)) \/ Sweep
  BY <1>7 DEF SweepReads, Sweep, SweepFails, SweepTimesOut, SweepMatches, SweepNudges, SweepNotes,
              watchOnly
<1>8. CASE (\E t \in Threads : WakeLooks(t)) \/ Wake
  BY <1>8 DEF WakeLooks, Wake, WakeMarks, WakeCharges, WakeSends, WakeLands, watchOnly
<1> QED
  BY <1>1, <1>2, <1>3, <1>4, <1>5, <1>6, <1>7, <1>8 DEF Next, PersonActs

\* Nobody is at work on an ask that was not made.
LEMMA AsksStayReal ==
    ASSUME WorkTypes, AsksAreReal, AsksAreOwn, [Next]_vars
    PROVE  AsksAreReal'
<1> USE DEF WorkTypes
<1>1. \A a \in AskIds : AskMay(a)
  BY AsksMayOnly
<1>2. \A a \in AskIds :
          /\ asks[a].status # "none" => asks'[a].status # "none" /\ asks'[a].peer = asks[a].peer
          /\ asks'[a].status # "none" => asks[a].status # "none" \/ asks'[a].peer \in Threads
  BY <1>1, AskMayGives
<1>3. \A a \in AskIds : asks'[a].status # "none" => asks'[a].peer \in Threads
  BY <1>2 DEF AsksAreReal
<1>4. watch'.pc \in {"read", "nudge", "nudged"} => asks'[watch'.ask].status # "none"
  <2>1. CASE UNCHANGED watch
    BY <1>2, <2>1, WatchShape DEF TaskTypes, AsksAreReal
  <2>2. ASSUME NEW a \in AskIds, NEW expired \in BOOLEAN, SweepReads(a, expired)
        PROVE  asks'[watch'.ask].status # "none"
    BY <2>2 DEF SweepReads, IsLive
  <2>3. CASE Sweep
    <3>1. watch.ask \in AskIds /\ asks'[watch.ask].status # "none"
      BY <1>2, <2>3, WatchShape
         DEF Sweep, SweepFails, SweepTimesOut, SweepMatches, SweepNudges, SweepNotes, TaskTypes,
             AsksAreReal
    <3>2. watch' = Quiet \/ watch'.ask = watch.ask
      BY <2>3 DEF Sweep, SweepFails, SweepTimesOut, SweepMatches, SweepNudges, SweepNotes
    <3> QED
      BY <3>1, <3>2 DEF Quiet
  <2>4. CASE (\E t \in Threads : WakeLooks(t)) \/ Wake
    <3>1. ASSUME WakeMarks
          PROVE  watch'.pc \notin {"read", "nudge", "nudged"}
      BY <3>1, WatchShape DEF WakeMarks, TaskTypes, Quiet
    <3> QED
      BY <2>4, <3>1 DEF WakeLooks, Wake, WakeCharges, WakeSends, WakeLands, Quiet
  <2> QED
    BY <2>1, <2>2, <2>3, <2>4, WhoMovesTheWatch
<1>5. \A t \in Threads :
          delegates'[t].pc \in {"recorded", "sent"} => asks'[delegates'[t].ask].status # "none"
  <2>1. ASSUME NEW t \in Threads, delegates'[t] = delegates[t],
               delegates'[t].pc \in {"recorded", "sent"}
        PROVE  asks'[delegates'[t].ask].status # "none"
    <3>1. delegates[t].ask \in AskIds
      BY <2>1, CallShape DEF TaskTypes
    <3> QED
      BY <1>2, <2>1, <3>1 DEF AsksAreReal
  <2>2. ASSUME NEW t \in Threads, NEW d, delegates' = [delegates EXCEPT ![t] = d],
               d.pc \in {"recorded", "sent"} => asks'[d.ask].status # "none"
        PROVE  \A x \in Threads :
                  delegates'[x].pc \in {"recorded", "sent"} => asks'[delegates'[x].ask].status # "none"
    BY <2>1, <2>2 DEF TaskTypes
  <2>3. ASSUME NEW t \in Threads, DelegateRecords(t)
        PROVE  \E d : /\ delegates' = [delegates EXCEPT ![t] = d]
                      /\ d.pc \in {"recorded", "sent"} => asks'[d.ask].status # "none"
    <3>1. CASE delegates' = [delegates EXCEPT ![t] = Quiet]
      <4> WITNESS Quiet
      <4> QED
        BY <3>1 DEF Quiet
    <3>2. ASSUME NEW a \in AskIds,
                 asks' = [asks EXCEPT ![a] = NewAsk(t, delegates[t].peer, Latest(delegates[t].peer))],
                 delegates' = [delegates EXCEPT ![t] = [pc |-> "recorded", ask |-> a]]
          PROVE  asks'[a].status # "none"
      <4>1. asks'[a] = NewAsk(t, delegates[t].peer, Latest(delegates[t].peer))
        BY <3>2 DEF RecordTypes
      <4> QED
        BY <4>1 DEF NewAsk, NoAsk
    <3>3. CASE \E a \in AskIds :
                 /\ asks' = [asks EXCEPT ![a] = NewAsk(t, delegates[t].peer, Latest(delegates[t].peer))]
                 /\ delegates' = [delegates EXCEPT ![t] = [pc |-> "recorded", ask |-> a]]
      <4>1. PICK a \in AskIds :
                 /\ asks' = [asks EXCEPT ![a] = NewAsk(t, delegates[t].peer, Latest(delegates[t].peer))]
                 /\ delegates' = [delegates EXCEPT ![t] = [pc |-> "recorded", ask |-> a]]
        BY <3>3
      <4>2. asks'[a].status # "none"
        BY <3>2, <4>1
      <4> WITNESS [pc |-> "recorded", ask |-> a]
      <4> QED
        BY <4>1, <4>2
    <3> QED
      BY <2>3, <3>1, <3>3 DEF DelegateRecords
  <2>4. ASSUME NEW t \in Threads, DelegateSends(t)
        PROVE  \E d : /\ delegates' = [delegates EXCEPT ![t] = d]
                      /\ d.pc \in {"recorded", "sent"} => asks'[d.ask].status # "none"
    <3>1. PICK got \in 0..MaxStarts :
            delegates' = [delegates EXCEPT ![t] = [pc |-> "sent", ask |-> delegates[t].ask, got |-> got]]
      BY <2>4 DEF DelegateSends
    <3>2. delegates[t].ask \in AskIds /\ asks'[delegates[t].ask].status # "none"
      BY <1>2, <2>4, CallShape DEF DelegateSends, TaskTypes, AsksAreReal
    <3> WITNESS [pc |-> "sent", ask |-> delegates[t].ask, got |-> got]
    <3> QED
      BY <3>1, <3>2
  <2>5. ASSUME NEW t \in Threads, DelegateSent(t)
        PROVE  \E d : /\ delegates' = [delegates EXCEPT ![t] = d]
                      /\ d.pc \in {"recorded", "sent"} => asks'[d.ask].status # "none"
    <3> WITNESS Quiet
    <3> QED
      BY <2>5 DEF DelegateSent, Quiet
  <2>6. ASSUME NEW pair \in MayAsk, DelegateChecks(pair[1], pair[2])
        PROVE  /\ delegates' = [delegates EXCEPT ![pair[1]] = [pc |-> "checked", peer |-> pair[2]]]
               /\ pair[1] \in Threads
    BY <2>6, WorkAssumption DEF DelegateChecks
  <2>7. CASE UNCHANGED delegates
    BY <2>1, <2>7
  <2>8. CASE \E t \in Threads : Delegate(t)
    <3>1. PICK t \in Threads : Delegate(t)
      BY <2>8
    <3>2. \E d : /\ delegates' = [delegates EXCEPT ![t] = d]
                 /\ d.pc \in {"recorded", "sent"} => asks'[d.ask].status # "none"
      BY <2>3, <2>4, <2>5, <3>1 DEF Delegate
    <3> QED
      BY <2>2, <3>2
  <2>9. CASE \E pair \in MayAsk : DelegateChecks(pair[1], pair[2])
    <3>1. PICK pair \in MayAsk : DelegateChecks(pair[1], pair[2])
      BY <2>9
    <3> DEFINE t == pair[1]
               d == [pc |-> "checked", peer |-> pair[2]]
    <3>2. t \in Threads /\ delegates' = [delegates EXCEPT ![t] = d]
      BY <2>6, <3>1
    <3>3. d.pc \notin {"recorded", "sent"}
      OBVIOUS
    <3> HIDE DEF t, d
    <3> QED
      BY <2>2, <3>2, <3>3
  <2> QED
    BY <2>7, <2>8, <2>9, WhoMovesTheCalls
<1> QED
  BY <1>3, <1>4, <1>5 DEF AsksAreReal

\* The turn of an ask that the caller hears of was begun for it.
LEMMA HeardIsMine ==
    ASSUME WorkTypes, NEW a \in AskIds, NEW t \in Threads, NEW begun \in BOOLEAN, NEW got \in Nat,
           Heard(begun, got), StartTurn(t, a, begun), got # 0
    PROVE  got \in DOMAIN turns' /\ turns'[got].ask = a
<1>1. begun /\ got = Len(turns) + 1 /\ a \in Nat
  BY Numbers DEF Heard
<1>2. TurnIsAdded(t, a, got)
  BY <1>1, StartTurnGives DEF WorkTypes
<1> QED
  BY <1>2 DEF TurnIsAdded

\* What the records, the watchdog and the calls know of an ask stays its own.
LEMMA AsksStayOwn ==
    ASSUME WorkTypes, AsksAreReal, StopsKnowTheirTurn, AsksAreOwn, [Next]_vars
    PROVE  AsksAreOwn'
<1> USE DEF WorkTypes
<1>1. /\ \A i \in DOMAIN turns :
             i \in DOMAIN turns' /\ turns'[i].ask = turns[i].ask /\ turns'[i].thread = turns[i].thread
      /\ \A i \in DOMAIN turns' \ DOMAIN turns :
             LET a == turns'[i].ask IN
             a # 0 => a \in AskIds /\ asks[a].status # "none" /\ turns'[i].thread = asks[a].peer
  BY TurnsStay
<1>2. \A a \in AskIds : AskMay(a)
  BY AsksMayOnly
<1>3. \A a \in AskIds :
          /\ asks[a].status # "none" => asks'[a].status # "none" /\ asks'[a].peer = asks[a].peer
          /\ asks'[a].turn # 0 => asks'[a].turn = asks[a].turn \/ Mine(a, asks'[a].turn)
          /\ asks'[a].nudged => \/ asks[a].nudged /\ asks'[a].baseline = asks[a].baseline
                                \/ Mine(a, asks'[a].baseline)
          /\ asks'[a].status = "done" /\ ~asks'[a].byTool =>
                 \/ asks[a].status = "done" /\ ~asks[a].byTool /\ asks'[a].from = asks[a].from
                 \/ Mine(a, asks'[a].from)
  BY <1>2, AskMayGives
<1>4. ASSUME NEW a, NEW i, Mine(a, i)
      PROVE  i \in DOMAIN turns' /\ turns'[i].ask = a
  BY <1>1, <1>4 DEF Mine
<1>5. AskedTurns'
  <2> SUFFICES ASSUME NEW i \in DOMAIN turns', turns'[i].ask # 0
               PROVE  LET a == turns'[i].ask IN
                      a \in AskIds /\ asks'[a].status # "none" /\ turns'[i].thread = asks'[a].peer
    BY DEF AskedTurns
  <2> DEFINE a == turns'[i].ask
  <2>1. a \in AskIds /\ asks[a].status # "none" /\ turns'[i].thread = asks[a].peer
    <3>1. CASE i \in DOMAIN turns
      BY <1>1, <3>1 DEF AsksAreOwn, AskedTurns
    <3>2. CASE i \notin DOMAIN turns
      BY <1>1, <3>2
    <3> QED
      BY <3>1, <3>2
  <2> HIDE DEF a
  <2>2. asks'[a].status # "none" /\ asks'[a].peer = asks[a].peer
    BY <1>3, <2>1
  <2> QED
    BY <2>1, <2>2 DEF a
<1>6. RecordsAreOwn'
  <2> DEFINE Stays(a, i) == i \in DOMAIN turns' /\ turns'[i].ask = a
  <2> SUFFICES ASSUME NEW a \in AskIds
               PROVE  /\ asks'[a].turn # 0 => Stays(a, asks'[a].turn)
                      /\ asks'[a].nudged => Stays(a, asks'[a].baseline)
                      /\ asks'[a].status = "done" /\ ~asks'[a].byTool => Stays(a, asks'[a].from)
    BY DEF RecordsAreOwn, Mine
  <2>1. asks'[a].turn # 0 => Mine(a, asks'[a].turn)
    BY <1>3 DEF AsksAreOwn, RecordsAreOwn
  <2>2. asks'[a].nudged => Mine(a, asks'[a].baseline)
    BY <1>3 DEF AsksAreOwn, RecordsAreOwn
  <2>3. asks'[a].status = "done" /\ ~asks'[a].byTool => Mine(a, asks'[a].from)
    BY <1>3 DEF AsksAreOwn, RecordsAreOwn
  <2> QED
    BY <1>4, <2>1, <2>2, <2>3
<1>7. WatchIsOwn'
  <2> USE DEF AsksAreOwn, WatchIsOwn, Mine
  <2>1. CASE UNCHANGED watch
    BY <1>4, <2>1
  <2>2. ASSUME NEW a \in AskIds, NEW expired \in BOOLEAN, SweepReads(a, expired)
        PROVE  WatchIsOwn'
    <3>1. PICK item :
            /\ TurnFailed(asks[a].turn) \/ expired \/ ReplyAnswersAsk(asks[a], item)
            /\ watch' = [pc |-> "read", ask |-> a, failed |-> TurnFailed(asks[a].turn),
                         expired |-> expired, item |-> item]
      BY <2>2 DEF SweepReads
    <3>2. ReplyAnswersAsk(asks[a], item) => Mine(a, item)
      BY AnswerIsMine
    <3>3. ReplyAnswersAsk(asks[a], item) => item \in DOMAIN turns' /\ turns'[item].ask = a
      BY <1>4, <3>2
    <3> QED
      BY <3>1, <3>3
  <2>3. CASE SweepMatches
    <3>1. watch' = Quiet \/ watch' = [pc |-> "nudge", ask |-> watch.ask, item |-> watch.item]
      BY <2>3 DEF SweepMatches
    <3>2. watch.item \in DOMAIN turns' /\ turns'[watch.item].ask = watch.ask
      BY <1>4, <2>3 DEF SweepMatches
    <3> QED
      BY <3>1, <3>2 DEF Quiet
  <2>4. CASE SweepNudges
    <3>1. PICK begun \in BOOLEAN, got \in 0..MaxStarts :
            /\ Heard(begun, got) /\ StartTurn(asks[watch.ask].peer, watch.ask, begun)
            /\ watch' = [pc |-> "nudged", ask |-> watch.ask, item |-> watch.item, got |-> got]
      BY <2>4 DEF SweepNudges
    <3>2. watch.ask \in AskIds /\ asks[watch.ask].peer \in Threads /\ got \in Nat
      BY <2>4, WatchShape, Numbers DEF SweepNudges, TaskTypes, AsksAreReal
    <3>3. got # 0 => got \in DOMAIN turns' /\ turns'[got].ask = watch.ask
      BY <3>1, <3>2, HeardIsMine
    <3>4. watch.item \in DOMAIN turns' /\ turns'[watch.item].ask = watch.ask
      BY <1>4, <2>4 DEF SweepNudges
    <3> QED
      BY <3>1, <3>3, <3>4
  <2>5. CASE SweepFails \/ SweepTimesOut \/ SweepNotes
    BY <2>5 DEF SweepFails, SweepTimesOut, SweepNotes, Quiet
  <2>6. CASE (\E t \in Threads : WakeLooks(t)) \/ Wake
    <3>1. ASSUME WakeMarks
          PROVE  watch'.pc \notin {"read", "nudge", "nudged"}
      BY <3>1, WatchShape DEF WakeMarks, TaskTypes, Quiet
    <3> QED
      BY <2>6, <3>1 DEF WakeLooks, Wake, WakeCharges, WakeSends, WakeLands, Quiet
  <2> QED
    BY <2>1, <2>2, <2>3, <2>4, <2>5, <2>6, WhoMovesTheWatch DEF Sweep
<1>8. CallsAreOwn'
  <2> DEFINE Own(d) == d.pc = "sent" /\ d.got # 0 => d.got \in DOMAIN turns' /\ turns'[d.got].ask = d.ask
  <2>1. ASSUME NEW t \in Threads
        PROVE  Own(delegates[t])
    BY <1>4 DEF AsksAreOwn, CallsAreOwn
  <2>2. ASSUME NEW t \in Threads, NEW d, delegates' = [delegates EXCEPT ![t] = d], Own(d)
        PROVE  CallsAreOwn'
    <3>1. \A x \in Threads : delegates'[x] = delegates[x] \/ delegates'[x] = d
      BY <2>2 DEF TaskTypes
    <3>2. \A x \in Threads : Own(delegates'[x])
      BY <2>1, <2>2, <3>1
    <3> QED
      BY <3>2 DEF CallsAreOwn, Mine
  <2>3. CASE UNCHANGED delegates
    <3>1. \A x \in Threads : Own(delegates'[x])
      BY <2>1, <2>3
    <3> QED
      BY <3>1 DEF CallsAreOwn, Mine
  <2>4. ASSUME NEW t \in Threads, DelegateRecords(t) \/ DelegateSent(t)
        PROVE  CallsAreOwn'
    <3>1. \/ delegates' = [delegates EXCEPT ![t] = Quiet]
          \/ \E a \in AskIds : delegates' = [delegates EXCEPT ![t] = [pc |-> "recorded", ask |-> a]]
      BY <2>4 DEF DelegateRecords, DelegateSent
    <3> QED
      BY <2>2, <3>1 DEF Quiet
  <2>5. ASSUME NEW t \in Threads, DelegateSends(t)
        PROVE  CallsAreOwn'
    <3> DEFINE a == delegates[t].ask
    <3>1. PICK begun \in BOOLEAN, got \in 0..MaxStarts :
            /\ Heard(begun, got) /\ StartTurn(asks[a].peer, a, begun)
            /\ delegates' = [delegates EXCEPT ![t] = [pc |-> "sent", ask |-> a, got |-> got]]
      BY <2>5 DEF DelegateSends
    <3>2. a \in AskIds /\ asks[a].peer \in Threads /\ got \in Nat
      BY <2>5, CallShape, Numbers DEF DelegateSends, TaskTypes, AsksAreReal
    <3> HIDE DEF a
    <3>3. got # 0 => got \in DOMAIN turns' /\ turns'[got].ask = a
      BY <3>1, <3>2, HeardIsMine
    <3> QED
      BY <2>2, <3>1, <3>3
  <2>6. ASSUME NEW pair \in MayAsk, DelegateChecks(pair[1], pair[2])
        PROVE  CallsAreOwn'
    <3> DEFINE t == pair[1]
               d == [pc |-> "checked", peer |-> pair[2]]
    <3>1. t \in Threads /\ delegates' = [delegates EXCEPT ![t] = d]
      BY <2>6, WorkAssumption DEF DelegateChecks
    <3>2. Own(d)
      OBVIOUS
    <3> HIDE DEF t, d
    <3> QED
      BY <2>2, <3>1, <3>2
  <2> QED
    BY <2>3, <2>4, <2>5, <2>6, WhoMovesTheCalls DEF Delegate
<1> QED
  BY <1>5, <1>6, <1>7, <1>8 DEF AsksAreOwn

\* An answer is handed over at most once.
LEMMA AnswersStayMarked ==
    ASSUME WorkTypes, AsksAreReal, AsksAreOwn, MarkedFirst, [Next]_vars
    PROVE  MarkedFirst'
<1> USE DEF WorkTypes
<1>1. \A a \in AskIds : AskMay(a)
  BY AsksMayOnly
<1>2. \A a \in AskIds :
          \/ asks'[a].delivered = asks[a].delivered
          \/ WakeMarks /\ a \in watch.owed /\ asks'[a].delivered
  BY <1>1, AskMayGives
<1>3. CASE WakeMarks
  <2>1. watch.pc = "gathered" /\ watch.owed \subseteq AskIds /\ UNCHANGED handed
    BY <1>3, WatchShape DEF WakeMarks, TaskTypes, history
  <2>2. watch' = Quiet \/ (/\ watch' = [pc |-> "marked", t |-> watch.t, owed |-> watch.owed]
                           /\ \A a \in watch.owed : asks'[a] = [asks[a] EXCEPT !.delivered = TRUE])
    BY <1>3, <2>1, WatchShape DEF WakeMarks, TaskTypes
  <2>3. \A a \in watch.owed : [asks[a] EXCEPT !.delivered = TRUE].delivered = TRUE
    BY <2>1 DEF RecordTypes, Ask
  <2>4. \A a \in watch.owed : handed[a] = 0
    BY <2>1 DEF MarkedFirst
  <2>5. \A a \in AskIds : handed'[a] <= 1 /\ (~asks'[a].delivered => handed'[a] = 0)
    BY <1>2, <2>1 DEF MarkedFirst
  <2>6. CASE watch' = Quiet
    BY <2>5, <2>6 DEF Quiet, MarkedFirst
  <2>7. CASE /\ watch' = [pc |-> "marked", t |-> watch.t, owed |-> watch.owed]
             /\ \A a \in watch.owed : asks'[a] = [asks[a] EXCEPT !.delivered = TRUE]
    <3>1. \A a \in watch.owed : asks'[a].delivered /\ handed'[a] = 0
      BY <2>1, <2>3, <2>4, <2>7
    <3>2. watch'.pc = "marked" /\ watch'.owed = watch.owed
      BY <2>7
    <3> HIDE <2>7
    <3> QED
      BY <2>5, <3>1, <3>2 DEF MarkedFirst
  <2> QED
    BY <2>2, <2>6, <2>7
<1>4. CASE WakeSends
  <2>1. PICK begun \in BOOLEAN :
          handed' = [a \in AskIds |-> IF begun /\ a \in watch.owed THEN handed[a] + 1 ELSE handed[a]]
    BY <1>4 DEF WakeSends
  <2>2. watch.pc = "charged" /\ watch'.pc = "sent" /\ UNCHANGED asks
    BY <1>4 DEF WakeSends, records
  <2>3. \A a \in AskIds : handed'[a] <= 1 /\ (~asks'[a].delivered => handed'[a] = 0)
    BY <2>1, <2>2 DEF MarkedFirst, HistoryTypes
  <2> QED
    BY <2>2, <2>3 DEF MarkedFirst
<1>5. CASE ~WakeMarks /\ ~WakeSends
  <2>1. UNCHANGED handed
    <3>1. CASE ~AskMoves
      BY <3>1, WhoTouchesAsks
    <3>2. CASE Sweep \/ StopSettles
      BY <3>2 DEF Sweep, SweepFails, SweepTimesOut, SweepMatches, SweepNudges, SweepNotes, StopSettles,
                  watchOnly, history
    <3>3. CASE Wake
      BY <1>5, <3>3 DEF Wake, WakeCharges, WakeLands, history
    <3>4. CASE \E t \in Threads : Delegate(t) \/ ReportBack(t)
      BY <3>4 DEF Delegate, DelegateRecords, DelegateSends, DelegateSent, ReportBack, history
    <3> QED
      BY <3>1, <3>2, <3>3, <3>4 DEF AskMoves
  <2>2. \A a \in AskIds : asks'[a].delivered = asks[a].delivered
    BY <1>2, <1>5
  <2>3. \A a \in AskIds : handed'[a] <= 1 /\ (~asks'[a].delivered => handed'[a] = 0)
    BY <2>1, <2>2 DEF MarkedFirst
  <2>4. CASE UNCHANGED watch
    <3>1. watch.pc \in {"gathered", "marked", "charged"} => watch.owed \subseteq AskIds
      BY WatchShape DEF TaskTypes
    <3> QED
      BY <2>1, <2>2, <2>3, <2>4, <3>1 DEF MarkedFirst
  <2>5. CASE (\E a \in AskIds, expired \in BOOLEAN : SweepReads(a, expired)) \/ Sweep
    <3>1. watch'.pc \in {"idle", "read", "nudge", "nudged"}
      BY <2>5 DEF SweepReads, Sweep, SweepFails, SweepTimesOut, SweepMatches, SweepNudges, SweepNotes,
                  Quiet
    <3> QED
      BY <2>3, <3>1 DEF MarkedFirst
  <2>6. ASSUME NEW t \in Threads, WakeLooks(t)
        PROVE  MarkedFirst'
    <3>1. watch'.pc = "gathered" /\ watch'.owed = {a \in AsksOf(t) : IsOwed(asks[a])}
      BY <2>6 DEF WakeLooks
    <3>2. \A a \in watch'.owed : a \in AskIds /\ ~asks'[a].delivered
      BY <2>2, <3>1 DEF AsksOf, IsOwed
    <3> QED
      BY <2>3, <3>1, <3>2 DEF MarkedFirst
  <2>7. CASE WakeCharges
    <3>1. watch.pc = "marked" /\ watch'.pc = "charged" /\ watch'.owed = watch.owed
          /\ watch.owed \subseteq AskIds
      BY <2>7, WatchShape DEF WakeCharges, TaskTypes
    <3> QED
      BY <2>1, <2>2, <2>3, <3>1 DEF MarkedFirst
  <2>8. CASE WakeLands
    BY <2>3, <2>8 DEF WakeLands, Quiet, MarkedFirst
  <2> QED
    BY <1>5, <2>4, <2>5, <2>6, <2>7, <2>8, WhoMovesTheWatch DEF Wake
<1> QED
  BY <1>3, <1>4, <1>5

(***************************************************************************)
(* The theorems                                                            *)
(***************************************************************************)

\* The inductive invariant.
WorkInv ==
    /\ WorkTypes /\ SlotIsHeld
    /\ StopsKnowTheirTurn /\ NoGhostTurns
    /\ GoalsAreKept
    /\ AsksAreReal /\ AsksAreOwn /\ MarkedFirst

\* It holds before anything has happened.
LEMMA InitWork == Init => WorkInv
<1> SUFFICES ASSUME Init PROVE WorkInv
  OBVIOUS
<1>1. WorkTypes
  BY InitTypes
<1>2. SlotIsHeld
  BY DEF Init, Quiet, SlotIsHeld
<1>3. StopsKnowTheirTurn /\ NoGhostTurns
  BY DEF Init, Quiet, StopsKnowTheirTurn, NoGhostTurns
<1>4. GoalsAreKept
  BY DEF Init, Quiet, NoGoal, IsDriving, GoalsAreKept, PaidFor, Pending, HandOversLand, InHand,
         StoppedStays
<1>5. AsksAreReal /\ AsksAreOwn /\ MarkedFirst
  BY DEF Init, Quiet, NoAsk, AsksAreReal, AsksAreOwn, AskedTurns, RecordsAreOwn, WatchIsOwn,
         CallsAreOwn, MarkedFirst
<1> QED
  BY <1>1, <1>2, <1>3, <1>4, <1>5 DEF WorkInv

\* Every step keeps it.
LEMMA NextWork == WorkInv /\ [Next]_vars => WorkInv'
<1> SUFFICES ASSUME WorkInv, [Next]_vars PROVE WorkInv'
  OBVIOUS
<1>1. WorkTypes' /\ SlotIsHeld'
  BY TypesAreKept, SlotIsKept DEF WorkInv
<1>2. StopsKnowTheirTurn' /\ NoGhostTurns'
  BY NoGhostsAreMade DEF WorkInv
<1>3. GoalsAreKept'
  BY GoalsKept DEF WorkInv
<1>4. AsksAreReal' /\ AsksAreOwn' /\ MarkedFirst'
  BY AsksStayReal, AsksStayOwn, AnswersStayMarked DEF WorkInv
<1> QED
  BY <1>1, <1>2, <1>3, <1>4 DEF WorkInv

\* So it always holds.
LEMMA WorkInvHolds == Spec => []WorkInv
BY InitWork, NextWork, PTL DEF Spec

\* A session shows only a turn that is running on it, whatever sends and stops overlap: an
\* event, the answer to a stop and the end of a wait all take off exactly the turn they mean.
THEOREM SessionsShowNoGhosts == Spec => []NoGhostTurns
BY WorkInvHolds, PTL DEF WorkInv

\* What was driven was paid for: the charge of both watchdogs comes before their send, and
\* nothing they hear of it gives it back.
THEOREM BudgetsAreKept == Spec => []BudgetIsKept
<1>1. WorkInv => BudgetIsKept
  <2> SUFFICES ASSUME WorkInv, NEW t \in GoalThreads PROVE driven[t] <= goal[t].turns
    BY DEF BudgetIsKept
  <2>1. t \in Threads /\ driven[t] \in Nat /\ goal[t].turns \in Nat
    BY Numbers DEF WorkInv, WorkTypes, RecordTypes, HistoryTypes, Goal
  <2>2. driven[t] + (IF Pending(t) THEN 1 ELSE 0) <= goal[t].turns
    BY <2>1 DEF WorkInv, GoalsAreKept, PaidFor
  <2> QED
    BY <2>1, <2>2
<1> QED
  BY <1>1, WorkInvHolds, PTL

\* Seen with the slot free, a hand-over that never landed is one the provider refused: the
\* slot is held from before the charge until the news of its turn.
THEOREM HealthyGoalsAreNotBlocked == Spec => []HealthyGoalsAreDriven
<1>1. WorkInv => HealthyGoalsAreDriven
  <2> SUFFICES ASSUME WorkInv, NEW t \in GoalThreads,
                      slot = "free", IsDriving(goal[t]), DispatchNeverStarted(goal[t])
               PROVE  refused[t]
    BY DEF HealthyGoalsAreDriven
  <2>1. ~InHand(t)
    BY DEF WorkInv, SlotIsHeld, InHand
  <2> QED
    BY <2>1, Numbers DEF WorkInv, GoalsAreKept, HandOversLand
<1> QED
  BY <1>1, WorkInvHolds, PTL

\* A goal whose latest-admitted frame was its stop is not driven: positions are claimed in
\* the order of admission, and nothing reopens what was cancelled but a frame admitted later.
THEOREM LastWordIsKept == Spec => []LastWordWins
<1>1. WorkInv => LastWordWins
  BY Numbers DEF WorkInv, GoalsAreKept, StoppedStays, LastWordWins, IsDriving
<1> QED
  BY <1>1, WorkInvHolds, PTL

\* The answer to an ask is handed to one turn: it is marked delivered before it is sent, and
\* gathered only when it is not.
THEOREM AnswersAreGivenOnce == Spec => []AnswersGoOnce
<1>1. WorkInv => AnswersGoOnce
  BY DEF WorkInv, MarkedFirst, AnswersGoOnce
<1> QED
  BY <1>1, WorkInvHolds, PTL

\* What the relay takes for the answer to an ask was said in a turn begun for it, on the
\* session that was asked: also by way of a reminder, a timeout or a stop.
THEOREM AnswersBelongToTheirAsk == Spec => []AnswersBelong
<1>1. WorkInv => AnswersBelong
  <2> SUFFICES ASSUME WorkInv, NEW a \in AskIds, asks[a].status = "done", ~asks[a].byTool
               PROVE  turns[asks[a].from].ask = a /\ turns[asks[a].from].thread = asks[a].peer
    BY DEF AnswersBelong
  <2>1. Mine(a, asks[a].from)
    BY DEF WorkInv, AsksAreOwn, RecordsAreOwn
  <2> QED
    BY <2>1, Numbers DEF WorkInv, AsksAreOwn, AskedTurns, Mine
<1> QED
  BY <1>1, WorkInvHolds, PTL
=============================================================================
