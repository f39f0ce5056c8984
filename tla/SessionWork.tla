----------------------------- MODULE SessionWork -----------------------------
(***************************************************************************)
(* Turns nobody typed.  Two tasks of the relay start turns on sessions on  *)
(* their own: the goal watchdog hands a session its objective again and    *)
(* again until it reports or its budget is spent, and the ask watchdog     *)
(* settles what one agent asked of another and wakes the asker with the    *)
(* answers.  They meet the people who type, stop, set and cancel, and the  *)
(* agents that report and delegate, at the session slot (a lock that is    *)
(* tried, never waited for) and at the records they share.                 *)
(*                                                                         *)
(* Providers are external: a turn may be refused, may begin, or may begin  *)
(* although the relay is told it did not; it ends with something said,     *)
(* with nothing said, or in failure, when it likes.                        *)
(***************************************************************************)
EXTENDS GoalRecord, AskRecord, Sequences, FiniteSets, Relation

CONSTANTS GoalThreads,   \* sessions a person may give a goal
          GoalFrames,    \* what people ask of a goal: set it, set it anew, stop it
          MayAsk,        \* who may come to ask whom
          MaxAsks,       \* bound: requests from agent to agent
          MaxStarts,     \* bound: turns the providers begin
          MaxActs        \* bound: messages, stops and goal frames of people

ASSUME WorkAssumption ==
    /\ {MaxAsks, MaxStarts, MaxActs} \subseteq Nat
    /\ GoalFrames \subseteq {"set", "reset", "stop"} /\ GoalThreads \subseteq Threads
    /\ MayAsk \subseteq Threads \X Threads

VARIABLES turns,       \* every turn begun: its session, the ask it is for (0 for none), how it goes
          live,        \* the running turn a session shows, 0 for none
          goal,        \* the goal of every session
          asks,        \* the requests, oldest first
          slot,        \* who holds the session slot
          driver,      \* where the goal watchdog is
          watch,       \* where the ask watchdog is
          person,      \* where the person's message or stop is
          delegates,   \* where the delegate call of every session's agent is
          frames,      \* goal frames admitted and not yet handled
          spent,       \* what people did so far
          applied,     \* goal_ingress_by_thread
          word,        \* history: the latest-admitted frame that was not turned away
          refused,     \* history: the last charged hand-over was answered with an error
          driven,      \* history: turns charged to the budget that really began
          unwatched,   \* history: turns the relay began since a person last acted
          handed       \* history: how often the answer to an ask was given to a turn

records == <<goal, asks>>
tasks   == <<driver, watch, person, delegates>>
people  == <<frames, spent, applied, word>>
history == <<refused, driven, unwatched, handed>>
vars    == <<turns, live, goal, asks, slot, driver, watch, person, delegates, frames, spent,
             applied, word, refused, driven, unwatched, handed>>

Quiet == [pc |-> "idle"]
AskIds == 1..MaxAsks

Init ==
    /\ turns = <<>> /\ live = [t \in Threads |-> 0]
    /\ goal = [t \in Threads |-> NoGoal]
    /\ asks = [a \in AskIds |-> NoAsk]
    /\ slot = "free"
    /\ driver = Quiet /\ watch = Quiet /\ person = Quiet
    /\ delegates = [t \in Threads |-> Quiet]
    /\ frames = {} /\ spent = 0
    /\ applied = [t \in Threads |-> 0]
    /\ word = [t \in Threads |-> "none"]
    /\ refused = [t \in Threads |-> FALSE]
    /\ driven = [t \in Threads |-> 0] /\ unwatched = [t \in Threads |-> 0]
    /\ handed = [a \in AskIds |-> 0]

(***************************************************************************)
(* Providers                                                               *)
(***************************************************************************)

Running(t) == {i \in DOMAIN turns : turns[i].thread = t /\ turns[i].state = "running"}
Working(t) == live[t] # 0

Said(i) == i \in DOMAIN turns /\ turns[i].state = "said"
TurnFailed(i) == i \in DOMAIN turns /\ turns[i].state = "failed"

\* latest_assistant_entry: the last thing said on a session, known by its turn.
Latest(t) ==
    LET said == {i \in DOMAIN turns : turns[i].thread = t /\ Said(i)}
    IN  IF said = {} THEN 0 ELSE CHOOSE i \in said : \A j \in said : j <= i

\* start_turn: refused, begun, or begun with the answer lost.  A turn begun on a session
\* that has one running becomes the one it shows.
StartTurn(t, ask, begun) ==
    IF begun
    THEN /\ Len(turns) < MaxStarts
         /\ turns' = Append(turns, [thread |-> t, ask |-> ask, state |-> "running"])
         /\ live' = [live EXCEPT ![t] = Len(turns) + 1]
    ELSE UNCHANGED <<turns, live>>

\* What the caller hears of it: the turn, or 0 for an error.
Heard(begun, got) == got = 0 \/ (begun /\ got = Len(turns) + 1)

\* The failure of a turn that no ask is waiting for is silence.
TurnEnds(i) ==
    /\ turns[i].state = "running"
    /\ \E end \in {"said", "silent", "failed"} :
         /\ end = "failed" => turns[i].ask # 0
         /\ turns' = [turns EXCEPT ![i].state = end]
    /\ live' = [live EXCEPT ![turns[i].thread] = IF @ = i THEN 0 ELSE @]
    /\ UNCHANGED <<records, slot, tasks, people, history>>

(***************************************************************************)
(* The records, as the tasks read them                                     *)
(***************************************************************************)

AsksOf(t) == {a \in AskIds : asks[a].asker = t}

\* Waiting on an agent, or not yet told what it said.
Waits(t) == \E a \in AsksOf(t) : IsLive(asks[a]) \/ IsOwed(asks[a])

\* live_ask_ancestors: everyone who waits on t, also at a remove.
Ancestors(t) ==
    LET waitsOn == [x, y \in Threads |->
                      \E a \in AsksOf(x) : IsLive(asks[a]) /\ asks[a].peer = y]
        closure == TransitiveClosure(waitsOn, Threads)
    IN  {x \in Threads : closure[x, t]}

\* A turn charged to the goal of t, or begun while that goal was out of turns, counts as
\* one nobody watched.
Counted(t, begun, charged) ==
    /\ driven' = [driven EXCEPT ![t] = IF begun /\ charged THEN @ + 1 ELSE @]
    /\ unwatched' = [unwatched EXCEPT ![t] =
                       IF begun /\ goal[t].status \in {"active", "out_of_turns"}
                       THEN @ + 1 ELSE @]

\* A person acted on the session.
Watched(t) == unwatched' = [unwatched EXCEPT ![t] = 0]

(***************************************************************************)
(* The goal watchdog                                                       *)
(***************************************************************************)

\* Variant: a hand-over nobody reported on passes for a turn still running.
DriverLooksUnlessOpen(t) ==
    /\ driver.pc = "idle" /\ slot = "free"
    /\ IsDriving(goal[t]) /\ ~Working(t) /\ ~Waits(t) /\ ~goal[t].open
    /\ slot' = "driver" /\ driver' = [pc |-> "looked", t |-> t]
    /\ UNCHANGED <<turns, live, records, watch, person, delegates, people, history>>

\* The slot is taken, and the session is free and waits on nobody.  A look that finds a
\* refusal that stands (the day's budget, a workspace that moved) or a session lent to a
\* review charges and settles nothing, and is left out: the look is then not taken for as
\* long as that lasts.
DriverLooks(t) ==
    /\ driver.pc = "idle" /\ slot = "free"
    /\ IsDriving(goal[t]) /\ ~Working(t) /\ ~Waits(t)
    /\ slot' = "driver" /\ driver' = [pc |-> "looked", t |-> t]
    /\ UNCHANGED <<turns, live, records, watch, person, delegates, people, history>>

\* What the decision rests on is read again under the write lock.  A hand-over that was
\* charged and never became a turn is a session that cannot be driven.
DriverCharges ==
    /\ driver.pc = "looked"
    /\ LET t == driver.t IN
       \/ /\ ~IsDriving(goal[t])
          /\ driver' = Quiet /\ slot' = "free" /\ UNCHANGED goal
       \/ /\ IsDriving(goal[t]) /\ DispatchNeverStarted(goal[t])
          /\ goal' = [goal EXCEPT ![t] = Settle(@, "blocked")]
          /\ driver' = Quiet /\ slot' = "free"
       \/ /\ IsDriving(goal[t]) /\ ~DispatchNeverStarted(goal[t])
          /\ goal' = [goal EXCEPT ![t] = HandOver(@)]
          /\ driver' = [pc |-> "charged", t |-> t, gen |-> goal'[t].gen]
          /\ UNCHANGED slot
    /\ UNCHANGED <<turns, live, asks, watch, person, delegates, people, history>>

DriverSends ==
    /\ driver.pc = "charged"
    /\ \E begun \in BOOLEAN, got \in 0..MaxStarts :
         /\ Heard(begun, got) /\ StartTurn(driver.t, 0, begun)
         /\ driver' = [pc |-> "sent", t |-> driver.t, gen |-> driver.gen, got |-> got]
         /\ refused' = [refused EXCEPT ![driver.t] = got = 0]
         /\ Counted(driver.t, begun, TRUE)
    /\ UNCHANGED <<records, slot, watch, person, delegates, people, handed>>

\* Variant: an error gives the turn back.
DriverLandsWithRefund ==
    /\ driver.pc = "sent"
    /\ goal' = [goal EXCEPT ![driver.t] =
                  IF driver.got = 0 THEN [@ EXCEPT !.turns = @ - 1]
                  ELSE NoteDispatchTurn(DispatchLanded(@), driver.gen, driver.got)]
    /\ driver' = Quiet /\ slot' = "free"
    /\ UNCHANGED <<turns, live, asks, watch, person, delegates, people, history>>

\* An error proves nothing about the turn, so the charge stands.  A turn whose objective
\* has gone meanwhile is asked to stop, which it may or may not do.
DriverLands ==
    /\ driver.pc = "sent"
    /\ goal' = [goal EXCEPT ![driver.t] =
                  IF driver.got = 0 THEN @
                  ELSE NoteDispatchTurn(DispatchLanded(@), driver.gen, driver.got)]
    /\ driver' = Quiet /\ slot' = "free"
    /\ UNCHANGED <<turns, live, asks, watch, person, delegates, people, history>>

(***************************************************************************)
(* The ask watchdog: settling                                              *)
(***************************************************************************)

watchOnly == UNCHANGED <<turns, live, goal, slot, driver, person, delegates, people, history>>

\* An ask that was sent, of a peer that is idle and waits on nobody itself: what the peer
\* said in the turn of the ask is read, else the last thing it said at all.  A round that
\* finds nothing to act on changes nothing, and is left out.
SweepReads(a, expired) ==
    /\ watch.pc = "idle"
    /\ IsLive(asks[a]) /\ asks[a].sent
    /\ ~Working(asks[a].peer) /\ ~Waits(asks[a].peer)
    /\ LET own  == asks[a].turn
           item == IF Said(own) THEN own ELSE Latest(asks[a].peer)
       IN  /\ TurnFailed(own) \/ expired \/ ReplyAnswersAsk(asks[a], item)
           /\ watch' = [pc |-> "read", ask |-> a, failed |-> TurnFailed(own),
                        expired |-> expired, item |-> item]
    /\ UNCHANGED asks /\ watchOnly

\* The turn failed: what the peer said before it was reminded still counts.
SweepFails ==
    /\ watch.pc = "read" /\ watch.failed
    /\ asks' = [asks EXCEPT ![watch.ask] = IF @.nudged THEN Finish(@, @.baseline) ELSE Fail(@)]
    /\ watch' = Quiet /\ watchOnly

\* The clock ran out: take what it did say in its own turn before giving up.
SweepTimesOut ==
    /\ watch.pc = "read" /\ ~watch.failed /\ watch.expired
    /\ asks' = [asks EXCEPT ![watch.ask] =
                  IF ReplyAnswersAsk(@, watch.item) THEN Finish(@, watch.item) ELSE Fail(@)]
    /\ watch' = Quiet /\ watchOnly

\* Answered through the tool meanwhile; or the first answer, without the tool: the peer is
\* reminded of it; or the second, which is taken.
SweepMatches ==
    /\ watch.pc = "read" /\ ~watch.failed /\ ~watch.expired
    /\ LET ask == asks[watch.ask] IN
       \/ /\ IsTerminal(ask) /\ watch' = Quiet /\ UNCHANGED asks
       \/ /\ IsLive(ask) /\ ~ask.nudged
          /\ watch' = [pc |-> "nudge", ask |-> watch.ask, item |-> watch.item] /\ UNCHANGED asks
       \/ /\ IsLive(ask) /\ ask.nudged
          /\ asks' = [asks EXCEPT ![watch.ask] = Finish(@, watch.item)]
          /\ watch' = Quiet
    /\ watchOnly

SweepNudges ==
    /\ watch.pc = "nudge"
    /\ \E begun \in BOOLEAN, got \in 0..MaxStarts :
         /\ Heard(begun, got)
         /\ StartTurn(asks[watch.ask].peer, watch.ask, begun)
         /\ watch' = [pc |-> "nudged", ask |-> watch.ask, item |-> watch.item, got |-> got]
    /\ UNCHANGED <<records, slot, driver, person, delegates, people, history>>

\* The reminder is a turn of its own, and the reply to wait for belongs to it now.
SweepNotes ==
    /\ watch.pc = "nudged"
    /\ asks' = [asks EXCEPT ![watch.ask] =
                  IF watch.got = 0 THEN Finish(@, watch.item)
                  ELSE [@ EXCEPT !.nudged = TRUE, !.turn = watch.got, !.baseline = watch.item]]
    /\ watch' = Quiet /\ watchOnly

(***************************************************************************)
(* The ask watchdog: waking                                                *)
(***************************************************************************)

\* askers_ready_to_wake, then the answers gathered: one with something to hear, nothing
\* left to wait for, and no turn running.
WakeLooks(t) ==
    /\ watch.pc = "idle"
    /\ \A a \in AsksOf(t) : ~IsLive(asks[a])
    /\ \E a \in AsksOf(t) : IsOwed(asks[a])
    /\ ~Working(t)
    /\ watch' = [pc |-> "gathered", t |-> t, owed |-> {a \in AsksOf(t) : IsOwed(asks[a])}]
    /\ UNCHANGED asks /\ watchOnly

\* Variant: the slot is not taken for a wake.
WakeMarksWithoutSlot ==
    /\ watch.pc = "gathered"
    /\ asks' = [a \in AskIds |->
                  IF a \in watch.owed THEN [asks[a] EXCEPT !.delivered = TRUE] ELSE asks[a]]
    /\ watch' = [watch EXCEPT !.pc = "marked"]
    /\ UNCHANGED <<turns, live, goal, slot, driver, person, delegates, people, history>>

\* Variant: the answers are marked only when their turn was confirmed.
WakeMarksLater ==
    /\ watch.pc = "gathered"
    /\ slot = "free" /\ slot' = "watch" /\ UNCHANGED asks
    /\ watch' = [watch EXCEPT !.pc = "marked"]
    /\ UNCHANGED <<turns, live, goal, driver, person, delegates, people, history>>

\* The slot is tried; the answers are marked before they are sent.
WakeMarks ==
    /\ watch.pc = "gathered"
    /\ \/ /\ slot # "free" /\ watch' = Quiet /\ UNCHANGED <<asks, slot>>
       \/ /\ slot = "free" /\ slot' = "watch"
          /\ asks' = [a \in AskIds |->
                        IF a \in watch.owed THEN [asks[a] EXCEPT !.delivered = TRUE]
                        ELSE asks[a]]
          /\ watch' = [watch EXCEPT !.pc = "marked"]
    /\ UNCHANGED <<turns, live, goal, driver, person, delegates, people, history>>

\* charge_goal_for_driven_turn
WakeCharges ==
    /\ watch.pc = "marked"
    /\ goal' = [goal EXCEPT ![watch.t] = IF IsDriving(@) THEN HandOver(@) ELSE @]
    /\ watch' = [pc |-> "charged", t |-> watch.t, owed |-> watch.owed,
                 charged |-> IsDriving(goal[watch.t])]
    /\ UNCHANGED <<turns, live, asks, slot, driver, person, delegates, people, history>>

WakeSends ==
    /\ watch.pc = "charged"
    /\ \E begun \in BOOLEAN, got \in 0..MaxStarts :
         /\ Heard(begun, got) /\ StartTurn(watch.t, 0, begun)
         /\ watch' = [pc |-> "sent", t |-> watch.t, charged |-> watch.charged, got |-> got]
         /\ refused' = [refused EXCEPT ![watch.t] = IF watch.charged THEN got = 0 ELSE @]
         /\ handed' = [a \in AskIds |-> IF begun /\ a \in watch.owed THEN handed[a] + 1 ELSE handed[a]]
         /\ Counted(watch.t, begun, watch.charged)
    /\ UNCHANGED <<records, slot, driver, person, delegates, people>>

\* goal_dispatch_landed: noted for the hand-over that is current now.
WakeLands ==
    /\ watch.pc = "sent"
    /\ goal' = [goal EXCEPT ![watch.t] =
                  IF watch.charged /\ watch.got # 0
                  THEN NoteDispatchTurn(DispatchLanded(@), @.gen, watch.got) ELSE @]
    /\ watch' = Quiet /\ slot' = "free"
    /\ UNCHANGED <<turns, live, asks, driver, person, delegates, people, history>>

(***************************************************************************)
(* People                                                                  *)
(***************************************************************************)

Acts == spent < MaxActs /\ spent' = spent + 1

\* A message to a session: the slot is taken, and no turn may be running.
PersonTypes(t) ==
    /\ person.pc = "idle" /\ Acts
    /\ slot = "free" /\ ~Working(t)
    /\ slot' = "person" /\ person' = [pc |-> "typed", t |-> t]
    /\ UNCHANGED <<turns, live, records, driver, watch, delegates, frames, applied, word, history>>

PersonStarts ==
    /\ person.pc = "typed"
    /\ \E begun \in BOOLEAN, got \in 0..MaxStarts :
         /\ Heard(begun, got) /\ StartTurn(person.t, 0, begun)
         /\ IF got = 0 THEN person' = Quiet /\ slot' = "free"
            ELSE person' = [pc |-> "begun", t |-> person.t] /\ UNCHANGED slot
    /\ UNCHANGED <<records, driver, watch, delegates, people, history>>

\* resume_goal_on_reply: only once the turn is under way.
PersonReplies ==
    /\ person.pc = "begun"
    /\ goal' = [goal EXCEPT ![person.t] = ResumeOnReply(@)]
    /\ Watched(person.t)
    /\ person' = Quiet /\ slot' = "free"
    /\ UNCHANGED <<turns, live, asks, driver, watch, delegates, people, refused, driven, handed>>

\* stop_active_turn: the goal is paused before the provider is asked.
PersonStops(t) ==
    /\ person.pc = "idle" /\ Acts
    /\ slot = "free" /\ Working(t)
    /\ goal' = [goal EXCEPT ![t] = IF IsDriving(@) THEN Settle(@, "interrupted") ELSE @]
    /\ Watched(t)
    /\ slot' = "person" /\ person' = [pc |-> "stopping", t |-> t, turn |-> live[t]]
    /\ UNCHANGED <<turns, live, asks, driver, watch, delegates, frames, applied, word, refused,
                   driven, handed>>

\* Variant: the turn the provider forgot stays on the session.
StopIsAnsweredWithGhost ==
    /\ person.pc = "stopping"
    /\ person' = [person EXCEPT !.pc = "stopped"] /\ UNCHANGED <<slot, live>>
    /\ turns' = [turns EXCEPT ![person.turn].state = IF @ = "running" THEN "silent" ELSE @]
    /\ UNCHANGED <<records, driver, watch, delegates, people, history>>

\* Refused; taken; or the provider no longer knows the turn, and it is over here too.
StopIsAnswered ==
    /\ person.pc = "stopping"
    /\ \/ /\ person' = Quiet /\ slot' = "free" /\ UNCHANGED <<turns, live>>
       \/ /\ person' = [person EXCEPT !.pc = "stopped"] /\ UNCHANGED <<turns, live, slot>>
       \/ /\ person' = [person EXCEPT !.pc = "stopped"] /\ UNCHANGED slot
          /\ turns' = [turns EXCEPT ![person.turn].state = IF @ = "running" THEN "silent" ELSE @]
          /\ live' = [live EXCEPT ![person.t] = IF @ = person.turn THEN 0 ELSE @]
    /\ UNCHANGED <<records, driver, watch, delegates, people, history>>

\* settle_asks_stopped_by_user: whatever the peer said in the turn of an ask is its
\* answer, and the others have failed.
StopSettles ==
    /\ person.pc = "stopped"
    /\ LET item == Latest(person.t) IN
       asks' = [a \in AskIds |->
                  IF asks[a].peer = person.t /\ IsLive(asks[a]) /\ asks[a].sent
                  THEN IF ReplyAnswersAsk(asks[a], item) THEN Finish(asks[a], item)
                       ELSE Fail(asks[a])
                  ELSE asks[a]]
    /\ person' = IF live[person.t] = person.turn THEN [person EXCEPT !.pc = "waiting"] ELSE Quiet
    /\ slot' = "free"
    /\ UNCHANGED <<turns, live, goal, driver, watch, delegates, people, history>>

\* await_stop_or_mark_idle: a turn that is not over in time is taken off the session, though
\* the provider may go on with it.
StopIsGivenUp ==
    /\ person.pc = "waiting"
    /\ live' = [live EXCEPT ![person.t] = IF @ = person.turn THEN 0 ELSE @]
    /\ person' = Quiet
    /\ UNCHANGED <<turns, records, slot, driver, watch, delegates, people, history>>

\* Frames are numbered as they are read off the broker's socket, and handled apart.
FrameArrives(t, what) ==
    /\ Acts
    /\ frames' = frames \cup {[n |-> spent + 1, t |-> t, what |-> what]}
    /\ UNCHANGED <<turns, live, records, slot, tasks, applied, word, history>>

\* Variant: whoever is handled last wins.
ClaimsAnyway(f) == applied' = [applied EXCEPT ![f.t] = f.n]

\* claim_goal_ingress
Claims(f) ==
    /\ applied[f.t] < f.n
    /\ applied' = [applied EXCEPT ![f.t] = f.n]

\* The slot is held by whoever starts a turn: the frame is turned away.
FrameIsRefused(f) ==
    /\ slot # "free"
    /\ frames' = frames \ {f}
    /\ UNCHANGED <<turns, live, records, slot, tasks, spent, applied, word, history>>

\* A frame admitted later was handled already.
FrameIsLate(f) ==
    /\ slot = "free" /\ f.n <= applied[f.t]
    /\ frames' = frames \ {f}
    /\ UNCHANGED <<turns, live, records, slot, tasks, spent, applied, word, history>>

\* word keeps what the frame admitted last of those handled asked for.
Remembers(f) == word' = [word EXCEPT ![f.t] = IF f.n > applied[f.t] THEN f.what ELSE @]

\* write_goal: set, revised as it is ("set") or with a new budget ("reset").
SetGoal(f) ==
    /\ slot = "free" /\ f.what \in {"set", "reset"} /\ Claims(f) /\ Remembers(f)
    /\ LET g == goal[f.t]
           h == IF g.status = "none" THEN NewGoal ELSE Revise(g, f.what = "reset")
       IN  /\ goal' = [goal EXCEPT ![f.t] = h]
           /\ driven' = [driven EXCEPT ![f.t] = IF h.turns = 0 THEN 0 ELSE @]
    /\ Watched(f.t)
    /\ frames' = frames \ {f}
    /\ UNCHANGED <<turns, live, asks, slot, tasks, spent, refused, handed>>

\* stop_goal: the position is taken even where there is no goal to stop.
StopGoal(f) ==
    /\ slot = "free" /\ f.what = "stop" /\ Claims(f) /\ Remembers(f)
    /\ goal' = [goal EXCEPT ![f.t] = IF @.status = "none" THEN @ ELSE Settle(@, "cancelled")]
    /\ Watched(f.t)
    /\ frames' = frames \ {f}
    /\ UNCHANGED <<turns, live, asks, slot, tasks, spent, refused, driven, handed>>

(***************************************************************************)
(* Agents, in a turn that is running                                       *)
(***************************************************************************)

\* settle_goal: done, stuck or asking; admitted while a hand-over is open.
Report(t, status) ==
    /\ Running(t) # {} /\ goal[t].open
    /\ goal' = [goal EXCEPT ![t] = Settle(@, status)]
    /\ UNCHANGED <<turns, live, asks, slot, tasks, people, history>>

\* check_peer_is_askable, under a lock of its own
DelegateChecks(t, p) ==
    /\ delegates[t].pc = "idle" /\ Running(t) # {}
    /\ t # p /\ p \notin Ancestors(t) /\ ~Working(p)
    /\ \E a \in AskIds : asks[a] = NoAsk
    /\ delegates' = [delegates EXCEPT ![t] = [pc |-> "checked", peer |-> p]]
    /\ UNCHANGED <<turns, live, records, slot, driver, watch, person, people, history>>

\* Recorded before it is sent.
DelegateRecords(t) ==
    /\ delegates[t].pc = "checked"
    /\ IF \E a \in AskIds : asks[a] = NoAsk
       THEN \E a \in AskIds :
              /\ asks[a] = NoAsk /\ \A b \in 1..(a - 1) : asks[b] # NoAsk
              /\ LET p == delegates[t].peer IN
                 /\ asks' = [asks EXCEPT ![a] = NewAsk(t, p, Latest(p))]
                 /\ delegates' = [delegates EXCEPT ![t] = [pc |-> "recorded", ask |-> a]]
       ELSE delegates' = [delegates EXCEPT ![t] = Quiet] /\ UNCHANGED asks
    /\ UNCHANGED <<turns, live, goal, slot, driver, watch, person, people, history>>

DelegateSends(t) ==
    /\ delegates[t].pc = "recorded"
    /\ LET a == delegates[t].ask IN
       \E begun \in BOOLEAN, got \in 0..MaxStarts :
         /\ Heard(begun, got) /\ StartTurn(asks[a].peer, a, begun)
         /\ delegates' = [delegates EXCEPT ![t] = [pc |-> "sent", ask |-> a, got |-> got]]
    /\ UNCHANGED <<records, slot, driver, watch, person, people, history>>

DelegateSent(t) ==
    /\ delegates[t].pc = "sent"
    /\ LET got == delegates[t].got IN
       asks' = [asks EXCEPT ![delegates[t].ask] =
                  IF got = 0 THEN Fail(@) ELSE [@ EXCEPT !.turn = got, !.sent = TRUE]]
    /\ delegates' = [delegates EXCEPT ![t] = Quiet]
    /\ UNCHANGED <<turns, live, goal, slot, driver, watch, person, people, history>>

\* report_back: for the oldest ask the peer was handed, whichever turn says it.
ReportBack(p) ==
    /\ \E i \in Running(p), a \in AskIds :
         /\ asks[a].peer = p /\ IsLive(asks[a]) /\ asks[a].sent
         /\ \A b \in 1..(a - 1) : ~(asks[b].peer = p /\ IsLive(asks[b]) /\ asks[b].sent)
         /\ asks' = [asks EXCEPT ![a] = [Finish(@, i) EXCEPT !.byTool = TRUE]]
    /\ UNCHANGED <<turns, live, goal, slot, tasks, people, history>>

(***************************************************************************)
(* The system                                                              *)
(***************************************************************************)

Drive == DriverCharges \/ DriverSends \/ DriverLands
Sweep == SweepFails \/ SweepTimesOut \/ SweepMatches \/ SweepNudges \/ SweepNotes
Wake  == WakeMarks \/ WakeCharges \/ WakeSends \/ WakeLands
Serve == PersonStarts \/ PersonReplies \/ StopIsAnswered \/ StopSettles \/ StopIsGivenUp
Delegate(t) == DelegateRecords(t) \/ DelegateSends(t) \/ DelegateSent(t)
Handle(f) == FrameIsRefused(f) \/ FrameIsLate(f) \/ SetGoal(f) \/ StopGoal(f)

Next ==
    \/ \E i \in DOMAIN turns : TurnEnds(i)
    \/ \E t \in GoalThreads : DriverLooks(t)
    \/ Drive
    \/ \E a \in AskIds, expired \in BOOLEAN : SweepReads(a, expired)
    \/ Sweep
    \/ \E t \in Threads : WakeLooks(t)
    \/ Wake
    \/ \E t \in Threads : PersonTypes(t) \/ PersonStops(t)
    \/ Serve
    \/ \E t \in GoalThreads : \E what \in GoalFrames : FrameArrives(t, what)
    \/ \E f \in frames : Handle(f)
    \/ \E t \in GoalThreads, s \in {"complete_claimed", "blocked", "awaiting_user"} : Report(t, s)
    \/ \E pair \in MayAsk : DelegateChecks(pair[1], pair[2])
    \/ \E t \in Threads : Delegate(t) \/ ReportBack(t)

Spec == Init /\ [][Next]_vars

\* Whatever is under way goes on: turns end, and calls return.
Proceeds == (\E i \in DOMAIN turns : TurnEnds(i)) \/ Drive \/ Serve \/ (\E t \in Threads : Delegate(t))

\* The ask watchdog comes round, and the clock of an ask runs out in the end.
ComesRound ==
    \/ \E a \in AskIds : SweepReads(a, TRUE)
    \/ Sweep
    \/ \E t \in Threads : WakeLooks(t)
    \/ Wake

FairSpec == Spec /\ WF_vars(Proceeds) /\ WF_vars(ComesRound)

\* Not in the fairness of the code: no refusal stands for ever, and no session is lent to a
\* review for ever, so that every goal is looked at in the end.
RefusalsEnd == \A t \in GoalThreads : WF_vars(DriverLooks(t))

(***************************************************************************)
(* Properties                                                              *)
(***************************************************************************)

\* A session shows only a turn that is running on it: a send that returns after its turn
\* has ended, or a stop of a turn the provider has forgotten, leaves no ghost that keeps
\* the session busy (thread_turn_revision, bg_set_active_turn).
NoGhostTurns ==
    \A t \in Threads :
        live[t] # 0 => turns[live[t]].thread = t /\ turns[live[t]].state = "running"

\* Every turn that was charged and really began is paid for out of the budget the person
\* last gave, also when the relay was told that it had not begun (hand_over, and no refund
\* for a send that errors).
BudgetIsKept == \A t \in GoalThreads : driven[t] <= goal[t].turns

\* The answer to an ask is given to at most one turn of the asker, whatever the watchdog
\* is told of the turn it woke (marked delivered before the send).
AnswersGoOnce == \A a \in AskIds : handed[a] <= 1

\* An answer the relay itself takes from a peer's transcript was said in a turn begun for
\* that ask: never in one a person typed, or one for another ask (reply_answers_ask).
AnswersBelong ==
    \A a \in AskIds :
        asks[a].status = "done" /\ ~asks[a].byTool =>
            turns[asks[a].from].ask = a /\ turns[asks[a].from].thread = asks[a].peer

\* Whenever the watchdog could look, a hand-over that reads as never started is one the
\* provider answered with an error: a healthy goal is not blocked because somebody else is
\* half way through starting its turn (the slot held across charge and send).
HealthyGoalsAreDriven ==
    \A t \in GoalThreads :
        slot = "free" /\ IsDriving(goal[t]) /\ DispatchNeverStarted(goal[t]) => refused[t]

\* A goal is not driven when the frame admitted last, of those that were not turned away,
\* was its stop, in whatever order the frames were handled (claim_goal_ingress).
LastWordWins == \A t \in GoalThreads : word[t] = "stop" => ~IsDriving(goal[t])

\* A request handed to a peer has not come back to its asker.
Owing == \E a \in AskIds : asks[a].sent /\ ~asks[a].delivered

\* A goal is being driven, or a request is owed an answer.
UnderWay == Owing \/ \E t \in GoalThreads : IsDriving(goal[t])

\* Once people leave the relay alone, whoever asked an agent is given the answer or told of
\* the failure, also while the goal watchdog looks at nothing.  The goals end too, reported
\* on, out of turns, blocked or stopped, provided that no refusal stands for ever: one that
\* does leaves its goal active and undriven, as the code means it to.
WorkComesToRest ==
    /\ []<>~Owing
    /\ RefusalsEnd => []<>~UnderWay

\* Between two acts of a person the relay starts no more turns on a session with a goal
\* than the budget allows (charge_goal_for_driven_turn: "Every autonomous turn has to come
\* out of the budget").
UnwatchedTurnsAreCapped == \A t \in GoalThreads : unwatched[t] <= MaxGoalTurns
=============================================================================
