------------------------------ MODULE TeamRuns ------------------------------
(***************************************************************************)
(* One task of the relay: its lifecycle record, the drivers that work      *)
(* through it turn by turn, and the requests of its owner to pause, stop,  *)
(* mark, resume, recover or reopen it.  All of them meet at the drive      *)
(* gate, a fair lock; a request is dropped with the connection it came     *)
(* over, a driver may be lost, and the relay may restart.                  *)
(*                                                                         *)
(* What a driver decides is private to it: here it does anything the port  *)
(* it is given lets it do.  What the turns produce is left out; whether a  *)
(* turn is still running is not.                                           *)
(***************************************************************************)
EXTENDS TeamRecord, Naturals, Sequences, FiniteSets

CONSTANTS Handlers,      \* requests of the owner that are handled at once
          Drivers,       \* drivers the relay may come to spawn
          Requests,      \* the kinds of request the owner makes
          MaxRequests,   \* bound: requests made
          MaxHangups,    \* bound: requests dropped half way
          MaxPanics,     \* bound: drivers that unwind
          MaxRestarts,   \* bound: restarts of the relay
          None

Kinds == {"pause", "stop", "cancel", "done", "resume", "resolve", "reopen", "send"}

ASSUME BoundsAssumption ==
    /\ {MaxRequests, MaxHangups, MaxPanics, MaxRestarts} \subseteq Nat
    /\ Requests \subseteq Kinds
    /\ Handlers \cap Drivers = {} /\ None \notin Handlers \cup Drivers
    /\ Drivers # {}

VARIABLES run,       \* the record: status, pause_requested, stopping, awaiting, in_flight_thread
          disk,      \* the record as last written
          working,   \* whose turns are observably under way on the task's threads
          late,      \* a message given to the provider may yet start, though nobody waits for it
          pc,        \* where every handler and every driver is
          op,        \* what a handler was asked for
          outcome,   \* how the last turn of a driver ended
          ticket,    \* who holds the right to drive
          gateQ,     \* the drive gate: its holder, and who queues for it
          abandons,  \* stops dropped, whose cleanup has yet to run
          restores,  \* recoveries dropped, whose cleanup has yet to run
          restore,   \* the record a reopen goes back to
          spent      \* how much of every bound is used up

vars == <<run, disk, working, late, pc, op, outcome, ticket, gateQ, abandons, restores, restore, spent>>

Procs    == Handlers \cup Drivers

\* The status a settlement is asked for; one that hands the workspace back is only
\* written when every turn is known to have stopped.
SettleTeamRun(r, s) ==
    CASE r.status = s                                        -> r
      [] r.status # s /\ working # {}                        -> Block(r)
      [] r.status # s /\ working = {} /\ s = "Paused"        -> SettlePaused(r)
      [] r.status # s /\ working = {} /\ s = "Cancelled"     -> Cancel(r)
      [] r.status # s /\ working = {} /\ s = "Done"          -> ForceMark(r, s)

(***************************************************************************)
(* Processes                                                               *)
(***************************************************************************)

Goes(p, l) == pc' = [pc EXCEPT ![p] = l]

\* The gate is fair: it is handed to whoever queued first.
Queues(p)   == gateQ' = Append(gateQ, p)
HasGate(p)  == gateQ # <<>> /\ Head(gateQ) = p
LetsGo      == gateQ' = Tail(gateQ)

\* A process queues once at a time, and gives up its place wherever that is.
Place(p)  == {i \in 1..Len(gateQ) : gateQ[i] = p}
Leaves(p) ==
    \/ Place(p) = {} /\ UNCHANGED gateQ
    \/ \E i \in Place(p) : gateQ' = SubSeq(gateQ, 1, i - 1) \o SubSeq(gateQ, i + 1, Len(gateQ))

Spend(what, max) == spent[what] < max /\ spent' = [spent EXCEPT ![what] = @ + 1]

\* Where a driver is still driving, and where the net of a lost one is at work.
Driving == {"boundary", "dispatch", "waiting", "stalling", "report",
            "closing", "closeGate", "closeDrain"}
Netting == {"lost", "lostGate", "lostDrain"}

Init ==
    /\ run = NewRun /\ disk = NewRun
    /\ working = {} /\ late = FALSE
    /\ \E d \in Drivers :
         /\ pc = [p \in Procs |-> IF p = d THEN "boundary" ELSE "none"]
         /\ ticket = d
    /\ op = [h \in Handlers |-> None]
    /\ outcome = [d \in Drivers |-> "none"]
    /\ gateQ = <<>>
    /\ abandons = 0 /\ restores = 0
    /\ restore = NewRun
    /\ spent = [requests |-> 0, hangups |-> 0, panics |-> 0, restarts |-> 0]

(***************************************************************************)
(* Stopping turns                                                          *)
(***************************************************************************)

\* Variant: a stop counts as confirmed once it has been asked for.
DrainsUnconfirmed(confirmed) == confirmed /\ working' \in SUBSET working

\* Every turn of the task is told to stop.  It is confirmed when all of them have, and
\* given up after the drain window when one has not, or when the thread of the turn that
\* is marked as in flight cannot be observed.
Drains(confirmed) ==
    \/ confirmed /\ working' = {}
    \/ ~confirmed /\ \E left \in SUBSET working : (left # {} \/ run.inFlight) /\ working' = left

(***************************************************************************)
(* Drivers                                                                 *)
(***************************************************************************)

\* The task's driver is on its own, with the gate it shares left alone.
drivesAlone == UNCHANGED <<disk, late, op, ticket, gateQ, abandons, restores, restore, spent>>

\* The top of the driver's loop: a task that is to stop here does, before anything else
\* is begun.
DriverAtBoundary(d) ==
    /\ pc[d] = "boundary"
    /\ \/ /\ OffLimits(run)
          /\ Goes(d, "closing") /\ UNCHANGED run
       \/ /\ ~OffLimits(run) /\ run.pauseRequested
          /\ run' = SettleTeamRun(run, "Paused")
          /\ Goes(d, "closing")
       \/ /\ ~OffLimits(run) /\ ~run.pauseRequested
          /\ run' = IF run.status = "Queued" THEN SetStatus(run, "Running") ELSE run
          /\ Goes(d, "dispatch")
    /\ UNCHANGED <<working, outcome>> /\ drivesAlone

\* A turn that was allowed many awaits ago queues for the gate.
TurnQueues(d) ==
    /\ pc[d] = "dispatch" /\ Place(d) = {} /\ ~OffLimits(run)
    /\ Queues(d)
    /\ UNCHANGED <<run, working, pc, outcome, disk, late, op, ticket, abandons, restores,
                   restore, spent>>

\* A task that has settled, or is about to, gets no further turn.
TurnIsRefused == OffLimits(run) \/ run.stopping \/ run.pauseRequested

\* Asked before the turn queues and again under the gate.  A pause that was asked for
\* gracefully is settled here, and so is a review that has nothing to look at; a stop that
\* is draining settles the task itself.  A thread that is busy gets no second turn.
TurnRefused(d) ==
    /\ pc[d] = "dispatch" /\ (Place(d) = {} \/ HasGate(d))
    /\ \/ OffLimits(run) /\ UNCHANGED run
       \/ ~OffLimits(run) /\ run.stopping /\ UNCHANGED run
       \/ /\ ~OffLimits(run) /\ ~run.stopping
          /\ run' = IF working = {} THEN SettlePaused(run) ELSE Block(run)
       \/ ~TurnIsRefused /\ HasGate(d) /\ working # {} /\ UNCHANGED run
    /\ Goes(d, "report") /\ outcome' = [outcome EXCEPT ![d] = "failed"]
    /\ IF HasGate(d) THEN LetsGo ELSE UNCHANGED gateQ
    /\ UNCHANGED <<working, disk, late, op, ticket, abandons, restores, restore, spent>>

\* The turn is sent.  A start that is not confirmed is watched for a while; should the
\* turn show up after all it is stopped, or the task is reported as out of control.
TurnStarts(d) ==
    /\ pc[d] = "dispatch" /\ HasGate(d) /\ ~TurnIsRefused
    /\ \/ /\ working' = working \cup {"driver"}
          /\ run' = [run EXCEPT !.inFlight = TRUE]
          /\ Goes(d, "waiting") /\ UNCHANGED outcome
       \/ /\ run' = [run EXCEPT !.inFlight = FALSE]
          /\ Goes(d, "report") /\ outcome' = [outcome EXCEPT ![d] = "failed"]
          /\ UNCHANGED working
       \/ /\ working' = working \cup {"driver"}
          /\ run' = [run EXCEPT !.inFlight = TRUE]
          /\ Goes(d, "report") /\ outcome' = [outcome EXCEPT ![d] = "blocked"]
    /\ LetsGo
    /\ UNCHANGED <<disk, late, op, ticket, abandons, restores, restore, spent>>

\* The provider ends a turn, whoever began it.
TurnEnds ==
    /\ \E w \in working : working' = working \ {w}
    /\ UNCHANGED <<run, pc, outcome>> /\ drivesAlone

\* The agent asks its user something, and is answered.
ParkOnQuestion(d) ==
    /\ pc[d] = "waiting" /\ "driver" \in working /\ ~run.awaiting
    /\ run' = [SetStatus(run, "AwaitingUser") EXCEPT !.awaiting = TRUE]
    /\ UNCHANGED <<working, pc, outcome>> /\ drivesAlone

Unparked(r) == [r EXCEPT !.awaiting = FALSE,
                         !.status = IF r.status = "AwaitingUser" THEN "Running" ELSE @]

Unpark(d) ==
    /\ pc[d] = "waiting" /\ "driver" \in working /\ run.awaiting
    /\ run' = Unparked(run)
    /\ UNCHANGED <<working, pc, outcome>> /\ drivesAlone

\* A turn that makes no progress, or waits for an answer too long, is given up.
TurnStalls(d) ==
    /\ pc[d] = "waiting" /\ "driver" \in working
    /\ run' = Unparked(run)
    /\ Goes(d, "stalling")
    /\ UNCHANGED <<working, outcome>> /\ drivesAlone

\* It is stopped; where that is not confirmed it stays marked as in flight.
StallStops(d) ==
    /\ pc[d] = "stalling"
    /\ \/ /\ working' = working \ {"driver"}
          /\ run' = [run EXCEPT !.inFlight = FALSE]
          /\ outcome' = [outcome EXCEPT ![d] = "failed"]
       \/ /\ "driver" \in working
          /\ outcome' = [outcome EXCEPT ![d] = "blocked"]
          /\ UNCHANGED <<run, working>>
    /\ Goes(d, "report") /\ drivesAlone

\* The driver sees that its turn is over.  A turn that ran into a limit pauses the task
\* before its failure is reported.
TurnObserved(d) ==
    /\ pc[d] = "waiting" /\ "driver" \notin working
    /\ LET over == [Unparked(run) EXCEPT !.inFlight = FALSE]
       IN  \/ run' = over /\ outcome' \in {[outcome EXCEPT ![d] = o] : o \in {"ok", "failed"}}
           \/ run' = SettleTeamRun(over, "Paused") /\ outcome' = [outcome EXCEPT ![d] = "failed"]
    /\ Goes(d, "report")
    /\ UNCHANGED working /\ drivesAlone

\* What a driver writes after a turn, through the commands it is given.
DriverReports(d) ==
    /\ pc[d] = "report"
    /\ \/ outcome[d] = "ok" /\ Goes(d, "boundary") /\ UNCHANGED run
       \/ outcome[d] = "ok" /\ Goes(d, "closing") /\ run' = SettleTeamRun(run, "Done")
       \/ outcome[d] = "ok" /\ Goes(d, "closing") /\ run' = SetStatus(run, "Escalated")
       \/ outcome[d] = "failed" /\ Goes(d, "closing") /\ run' = Fail(run)
       \/ outcome[d] = "blocked" /\ Goes(d, "closing") /\ run' = Block(run)
    /\ outcome' = [outcome EXCEPT ![d] = "none"]
    /\ UNCHANGED working /\ drivesAlone

\* A driver may return whenever it is not inside a turn.
DriverReturns(d) ==
    /\ pc[d] \in {"boundary", "report"}
    /\ Goes(d, "closing") /\ outcome' = [outcome EXCEPT ![d] = "none"]
    /\ UNCHANGED <<run, working>> /\ drivesAlone

\* A driver unwinds: its right to drive goes with it, and what it leaves behind is
\* looked after by a task of its own.
DriverPanics(d) ==
    /\ pc[d] \in {"boundary", "dispatch", "waiting", "stalling", "report"}
    /\ Spend("panics", MaxPanics)
    /\ Goes(d, "lost") /\ Leaves(d)
    /\ ticket' = None
    /\ outcome' = [outcome EXCEPT ![d] = "none"]
    /\ UNCHANGED <<run, disk, working, late, op, abandons, restores, restore>>

\* Variant: a pause that is asked for is taken for a pause that was reached.
StrandedUnlessPausing == ~OffLimits(run) /\ ~run.pauseRequested

\* Nobody else is going to move the task.
Stranded == ~OffLimits(run)

\* The net under every driver: a task left active is drained and marked interrupted.
\* A driver that returned keeps its right to drive until this is done.
NetChecks(d) ==
    /\ pc[d] \in {"closing", "lost"}
    /\ IF Stranded
         THEN /\ Queues(d) /\ UNCHANGED ticket
              /\ Goes(d, IF pc[d] = "closing" THEN "closeGate" ELSE "lostGate")
         ELSE /\ Goes(d, "none") /\ UNCHANGED gateQ
              /\ ticket' = IF pc[d] = "closing" THEN None ELSE ticket
    /\ UNCHANGED <<run, disk, working, late, op, outcome, abandons, restores, restore, spent>>

NetDrains(d) ==
    /\ pc[d] \in {"closeGate", "lostGate"} /\ HasGate(d)
    /\ \/ /\ Drains(TRUE)
          /\ Goes(d, IF pc[d] = "closeGate" THEN "closeDrain" ELSE "lostDrain")
          /\ UNCHANGED <<run, ticket, gateQ>>
       \/ /\ Drains(FALSE)
          /\ run' = Block(run)
          /\ ticket' = IF pc[d] = "closeGate" THEN None ELSE ticket
          /\ Goes(d, "none") /\ LetsGo
    /\ UNCHANGED <<disk, late, op, outcome, abandons, restores, restore, spent>>

NetInterrupts(d) ==
    /\ pc[d] \in {"closeDrain", "lostDrain"}
    /\ run' = MarkInterruptedIfStranded(run)
    /\ ticket' = IF pc[d] = "closeDrain" THEN None ELSE ticket
    /\ Goes(d, "none") /\ LetsGo
    /\ UNCHANGED <<disk, working, late, op, outcome, abandons, restores, restore, spent>>

(***************************************************************************)
(* The owner's requests                                                    *)
(***************************************************************************)

\* A handler ends, with nothing held any more.
Ends(h) == Goes(h, "none") /\ op' = [op EXCEPT ![h] = None]

asks(h, k) == /\ pc[h] = "none" /\ k \in Requests /\ Spend("requests", MaxRequests)
              /\ op' = [op EXCEPT ![h] = k]

\* The session slot is held by one reopen or one message at a time.
SlotIsFree == ~\E h \in Handlers : op[h] \in {"reopen", "send"}

\* Pause and the two stops decide nothing before they hold the gate.
AskToStop(h) ==
    /\ \E k \in {"pause", "stop", "cancel"} : asks(h, k)
    /\ Goes(h, "gate") /\ Queues(h)
    /\ UNCHANGED <<run, disk, working, late, outcome, ticket, abandons, restores, restore>>

\* Marking a task done takes another way for every status it may have just now.
AskToMark(h) ==
    /\ asks(h, "done") /\ run.status \notin {"Done", "Resolving"}
    /\ Goes(h, IF run.status = "Blocked" THEN "markBlocked"
               ELSE IF OffLimits(run) THEN "markQuiescent" ELSE "gate")
    /\ Queues(h)
    /\ UNCHANGED <<run, disk, working, late, outcome, ticket, abandons, restores, restore>>

AskToResume(h) ==
    /\ asks(h, "resume") /\ run.status = "Paused"
    /\ Goes(h, "probe")
    /\ UNCHANGED <<run, disk, working, late, outcome, ticket, gateQ, abandons, restores, restore>>

AskToResolve(h) ==
    /\ asks(h, "resolve") /\ run.status = "Blocked"
    /\ run' = Is(run, "Resolving")
    /\ Goes(h, "resolving") /\ Queues(h)
    /\ UNCHANGED <<disk, working, late, outcome, ticket, abandons, restores, restore>>

AskToReopen(h) ==
    /\ SlotIsFree
    /\ asks(h, "reopen") /\ run.status \in Reopenable
    /\ Goes(h, "reopening") /\ Queues(h)
    /\ UNCHANGED <<run, disk, working, late, outcome, ticket, abandons, restores, restore>>

\* A message to the lead of a paused task does not wait for the gate.
AskToSend(h) ==
    /\ SlotIsFree
    /\ asks(h, "send")
    /\ gateQ = <<>> /\ run.status = "Paused" /\ working \cap {"user", "stray"} = {}
    /\ Goes(h, "sending") /\ Queues(h)
    /\ UNCHANGED <<run, disk, working, late, outcome, ticket, abandons, restores, restore>>

\* The provider says that the message has started, or that it failed.  It may start after
\* all when it failed, and nobody watches for that as a driver does.
SendStarts(h) ==
    /\ pc[h] = "sending"
    /\ \/ working' = working \cup {"user"} /\ UNCHANGED late
       \/ late' \in {late, TRUE} /\ UNCHANGED working
    /\ Ends(h) /\ LetsGo
    /\ UNCHANGED <<run, disk, late, outcome, ticket, abandons, restores, restore, spent>>

\* A message nobody waits for any more starts.
StrayBegins ==
    /\ late /\ late' = FALSE
    /\ working' = working \cup {"stray"}
    /\ UNCHANGED <<run, disk, pc, op, outcome, ticket, gateQ, abandons, restores, restore, spent>>

PauseDecides(h) ==
    /\ pc[h] = "gate" /\ HasGate(h) /\ op[h] = "pause"
    /\ run' = RequestPause(run)
    /\ Ends(h) /\ LetsGo
    /\ UNCHANGED <<disk, working, late, outcome, ticket, abandons, restores, restore, spent>>

\* A stop re-reads the status once it holds the gate; the marker says that failures to
\* come are its own doing.
StopDecides(h) ==
    /\ pc[h] = "gate" /\ HasGate(h) /\ op[h] # "pause"
    /\ \/ /\ run.status \in Terminal \cup {"Blocked", "Resolving"}
          /\ Ends(h) /\ LetsGo /\ UNCHANGED run
       \/ /\ run.status \notin Terminal \cup {"Blocked", "Resolving"}
          /\ run' = IF op[h] = "stop" /\ run.status = "Paused" THEN run ELSE RequestStop(run)
          /\ Goes(h, IF op[h] = "stop" /\ run.status = "Paused" THEN "drainPaused" ELSE "drain")
          /\ UNCHANGED <<op, gateQ>>
    /\ UNCHANGED <<disk, working, late, outcome, ticket, abandons, restores, restore, spent>>

StopDrains(h) ==
    /\ pc[h] \in {"drain", "drainPaused"}
    /\ \/ /\ Drains(TRUE)
          /\ IF pc[h] = "drain" THEN Goes(h, "settle") /\ UNCHANGED <<op, gateQ>>
                                ELSE Ends(h) /\ LetsGo
          /\ UNCHANGED run
       \/ /\ Drains(FALSE)
          /\ run' = Block(run)
          /\ Ends(h) /\ LetsGo
    /\ UNCHANGED <<disk, late, outcome, ticket, abandons, restores, restore, spent>>

Target(k) == CASE k = "stop" -> "Paused" [] k = "cancel" -> "Cancelled" [] k = "done" -> "Done"

StopSettles(h) ==
    /\ pc[h] = "settle"
    /\ run' = SettleTeamRun(run, Target(op[h]))
    /\ Ends(h) /\ LetsGo
    /\ UNCHANGED <<disk, working, late, outcome, ticket, abandons, restores, restore, spent>>

\* A task that is not being driven is relabelled once nothing of it runs any more.
MarkQuiescent(h) ==
    /\ pc[h] = "markQuiescent" /\ HasGate(h)
    /\ run' = IF working = {} /\ run.status \in Terminal \cup {"Paused"}
                THEN ForceMark(run, "Done") ELSE run
    /\ Ends(h) /\ LetsGo
    /\ UNCHANGED <<disk, working, late, outcome, ticket, abandons, restores, restore, spent>>

MarkBlockedDrains(h) ==
    /\ pc[h] = "markBlocked" /\ HasGate(h)
    /\ \/ /\ run.status = "Blocked" /\ Drains(TRUE)
          /\ Goes(h, "markDrained") /\ UNCHANGED <<op, gateQ>>
       \/ /\ run.status = "Blocked" /\ Drains(FALSE)
          /\ Ends(h) /\ LetsGo
       \/ /\ run.status # "Blocked"
          /\ Ends(h) /\ LetsGo /\ UNCHANGED working
    /\ UNCHANGED <<run, disk, late, outcome, ticket, abandons, restores, restore, spent>>

MarkBlocked(h) ==
    /\ pc[h] = "markDrained"
    /\ run' = IF run.status = "Blocked" THEN ForceMark(run, "Done") ELSE run
    /\ Ends(h) /\ LetsGo
    /\ UNCHANGED <<disk, working, late, outcome, ticket, abandons, restores, restore, spent>>

ResolveDrains(h) ==
    /\ pc[h] = "resolving" /\ HasGate(h)
    /\ \/ Drains(TRUE) /\ Goes(h, "resolved") /\ UNCHANGED <<run, op, gateQ>>
       \/ Drains(FALSE) /\ run' = Block(run) /\ Ends(h) /\ LetsGo
    /\ UNCHANGED <<disk, late, outcome, ticket, abandons, restores, restore, spent>>

ResolveSettles(h) ==
    /\ pc[h] = "resolved"
    /\ run' = ResolveAsPaused(run)
    /\ Ends(h) /\ LetsGo
    /\ UNCHANGED <<disk, working, late, outcome, ticket, abandons, restores, restore, spent>>

\* Variant: the right to drive is not asked about before it is taken.
ClaimsAnyway(h) == ticket' = h

\* The right to drive, or nothing when somebody has it.
Claims(h) == ticket = None /\ ticket' = h

\* The worktree may be gone by now; otherwise the right to drive is claimed before
\* anything is changed.
ResumeProbes(h) ==
    /\ pc[h] = "probe"
    /\ \/ run' = Block(run) /\ Ends(h) /\ UNCHANGED <<ticket, gateQ>>
       \/ Claims(h) /\ Goes(h, "resume") /\ Queues(h) /\ UNCHANGED <<run, op>>
       \/ ticket # None /\ Ends(h) /\ UNCHANGED <<run, ticket, gateQ>>
    /\ UNCHANGED <<disk, working, late, outcome, abandons, restores, restore, spent>>

\* Variant: nobody looks whether the lead is still at work.
MaySpawnBusy == run.status = "Paused"

\* Only a paused task is resumed, and not while a message to its lead is worked on.
MaySpawn == run.status = "Paused" /\ working = {}

\* The record turns to running and its driver is spawned in one go.
Spawns(h) ==
    /\ MaySpawn
    /\ run' = Resume(run)
    /\ \E d \in Drivers :
         /\ pc[d] = "none"
         /\ pc' = [pc EXCEPT ![d] = "boundary", ![h] = "none"]
         /\ ticket' = d

ResumeSpawns(h) ==
    /\ pc[h] = "resume" /\ HasGate(h)
    /\ \/ Spawns(h)
       \/ ~MaySpawn /\ Goes(h, "none") /\ ticket' = None /\ UNCHANGED run
    /\ op' = [op EXCEPT ![h] = None] /\ LetsGo
    /\ UNCHANGED <<disk, working, late, outcome, abandons, restores, restore, spent>>

\* A finished task is made a paused one first, and its old record kept for as long as the
\* reopen lasts.
ReopenProvisions(h) ==
    /\ pc[h] = "reopening" /\ HasGate(h)
    /\ \/ /\ run.status \in Reopenable
          /\ restore' = run
          /\ run' = Is(run, "Paused")
          /\ Goes(h, "reopened") /\ UNCHANGED <<op, gateQ>>
       \/ /\ run.status \notin Reopenable
          /\ Ends(h) /\ LetsGo /\ UNCHANGED <<run, restore>>
    /\ UNCHANGED <<disk, working, late, outcome, ticket, abandons, restores, spent>>

ReopenClaims(h) ==
    /\ pc[h] = "reopened"
    /\ \/ Claims(h) /\ Goes(h, "claimed")
       \/ ticket # None /\ Goes(h, "rollback") /\ UNCHANGED ticket
    /\ UNCHANGED <<run, disk, working, late, op, outcome, gateQ, abandons, restores, restore, spent>>

ReopenSpawns(h) ==
    /\ pc[h] = "claimed"
    /\ \/ /\ Spawns(h)
          /\ op' = [op EXCEPT ![h] = None] /\ LetsGo
          /\ restore' = NewRun
       \/ /\ ~MaySpawn /\ Goes(h, "rollback") /\ ticket' = None
          /\ UNCHANGED <<run, op, gateQ, restore>>
    /\ UNCHANGED <<disk, working, late, outcome, abandons, restores, spent>>

\* What a reopen that found no way to a driver leaves: the old record, unless the task
\* was settled otherwise meanwhile.
RolledBack == IF run.status = "Paused" THEN restore ELSE run

RollBackReopenProvision(h) ==
    /\ pc[h] = "rollback"
    /\ run' = RolledBack
    /\ Ends(h) /\ LetsGo
    /\ restore' = NewRun
    /\ UNCHANGED <<disk, working, late, outcome, ticket, abandons, restores, spent>>

\* Variant: a recovery is only looked after once it has drained.
OwesRestoreOnceDrained(h) == pc[h] = "resolved"

\* A recovery dropped at any point of it leaves the task resolving.
OwesRestore(h) == pc[h] \in {"resolving", "resolved"}

\* The connection of a request is gone, and the handler with it, wherever it waits.
\* A stop that has set its marker, and a recovery, leave somebody to clean up; a reopen
\* leaves the task paused; a message that is on its way to the provider is not called back.
HangUp(h) ==
    /\ pc[h] \in {"gate", "drain", "drainPaused", "settle", "markQuiescent", "markBlocked",
                  "markDrained", "resolving", "resolved", "probe", "resume", "reopening",
                  "claimed", "rollback", "sending"}
    /\ Spend("hangups", MaxHangups)
    /\ abandons' = abandons + (IF pc[h] \in {"drain", "settle"} THEN 1 ELSE 0)
    /\ restores' = restores + (IF OwesRestore(h) THEN 1 ELSE 0)
    /\ ticket' = IF ticket = h THEN None ELSE ticket
    /\ restore' = IF pc[h] \in {"claimed", "rollback"} THEN NewRun ELSE restore
    /\ late' \in {late, late \/ pc[h] = "sending"}
    /\ Ends(h) /\ Leaves(h)
    /\ UNCHANGED <<run, disk, working, outcome>>

AbandonTeamStop ==
    /\ abandons > 0 /\ abandons' = abandons - 1
    /\ run' = IF run.status \in Terminal THEN run ELSE [run EXCEPT !.stopping = FALSE]
    /\ UNCHANGED <<disk, working, late, pc, op, outcome, ticket, gateQ, restores, restore, spent>>

RestoreResolvingAsBlocked ==
    /\ restores > 0 /\ restores' = restores - 1
    /\ run' = IF run.status = "Resolving" THEN Block(run) ELSE run
    /\ UNCHANGED <<disk, working, late, pc, op, outcome, ticket, gateQ, abandons, restore, spent>>

(***************************************************************************)
(* The relay                                                               *)
(***************************************************************************)

Save ==
    /\ disk # run
    /\ disk' = run
    /\ UNCHANGED <<run, working, late, pc, op, outcome, ticket, gateQ, abandons, restores,
                   restore, spent>>

\* The relay ends and comes back: providers, drivers and requests go with it.
Restart ==
    /\ Spend("restarts", MaxRestarts)
    /\ run' = ReconcileAfterRestore(disk) /\ disk' = run'
    /\ working' = {} /\ late' = FALSE
    /\ pc' = [p \in Procs |-> "none"]
    /\ op' = [h \in Handlers |-> None]
    /\ outcome' = [d \in Drivers |-> "none"]
    /\ ticket' = None /\ gateQ' = <<>>
    /\ abandons' = 0 /\ restores' = 0 /\ restore' = NewRun

DriverStep(d) ==
    \/ DriverAtBoundary(d) \/ TurnQueues(d) \/ TurnRefused(d) \/ TurnStarts(d)
    \/ ParkOnQuestion(d) \/ Unpark(d) \/ TurnStalls(d) \/ StallStops(d) \/ TurnObserved(d)
    \/ DriverReports(d) \/ DriverReturns(d) \/ DriverPanics(d)
    \/ NetChecks(d) \/ NetDrains(d) \/ NetInterrupts(d)

HandlerStep(h) ==
    \/ PauseDecides(h) \/ StopDecides(h) \/ StopDrains(h) \/ StopSettles(h)
    \/ MarkQuiescent(h) \/ MarkBlockedDrains(h) \/ MarkBlocked(h)
    \/ ResolveDrains(h) \/ ResolveSettles(h)
    \/ ResumeProbes(h) \/ ResumeSpawns(h) \/ ReopenProvisions(h) \/ ReopenClaims(h)
    \/ ReopenSpawns(h) \/ RollBackReopenProvision(h) \/ SendStarts(h)

OwnerStep(h) ==
    \/ AskToStop(h) \/ AskToMark(h) \/ AskToResume(h) \/ AskToResolve(h) \/ AskToReopen(h)
    \/ AskToSend(h) \/ HangUp(h)

Next ==
    \/ \E d \in Drivers : DriverStep(d)
    \/ \E h \in Handlers : HandlerStep(h) \/ OwnerStep(h)
    \/ TurnEnds \/ StrayBegins \/ AbandonTeamStop \/ RestoreResolvingAsBlocked \/ Save \/ Restart

Spec == Init /\ [][Next]_vars

\* Tasks of the runtime that can go on do, and a turn ends: by itself, or because it is
\* stopped when it makes no progress.  Nobody has to ask for anything, to hang up or to
\* answer a question, and nothing has to be written.
FairSpec ==
    /\ Spec
    /\ \A d \in Drivers :
         /\ WF_vars(DriverAtBoundary(d) \/ TurnQueues(d) \/ TurnRefused(d) \/ TurnStarts(d)
                      \/ StallStops(d) \/ TurnObserved(d) \/ DriverReports(d))
         /\ WF_vars(NetChecks(d) \/ NetDrains(d) \/ NetInterrupts(d))
    /\ \A h \in Handlers : WF_vars(HandlerStep(h))
    /\ WF_vars(TurnEnds) /\ WF_vars(AbandonTeamStop) /\ WF_vars(RestoreResolvingAsBlocked)

(***************************************************************************)
(* Properties                                                              *)
(***************************************************************************)

\* Every variable has its type.
TypeOK ==
    /\ run \in [status : Statuses, pauseRequested : BOOLEAN, stopping : BOOLEAN,
                awaiting : BOOLEAN, inFlight : BOOLEAN]
    /\ working \subseteq {"driver", "user", "stray"} /\ late \in BOOLEAN
    /\ ticket \in Procs \cup {None}
    /\ gateQ \in Seq(Procs)
    /\ {abandons, restores} \subseteq Nat

\* The right to drive is held by the driver that drives, or by the resume or the reopen
\* about to spawn one, and never by anybody who is gone: a right that leaked could not be claimed again.
TicketIsOwned ==
    /\ TypeOK
    /\ \A d \in Drivers : pc[d] \in Driving <=> ticket = d
    /\ \A h \in Handlers : pc[h] \in {"resume", "claimed"} <=> ticket = h

\* A task that hands its workspace back (paused, or finished in any way) has no agent of
\* its driver still writing in it.
HandedBackIsQuiet == run.status \in Terminal \cup {"Paused"} => "driver" \notin working

\* A task that only a driver can move has one, or the net of a lost driver is about to
\* look at it.
NeverDriverless ==
    run.status \in Active => \E d \in Drivers : pc[d] \in Driving \cup Netting

\* A message to the lead that the provider said it has started is never worked on next to
\* a turn of the driver.  A message that failed or was dropped on its way and starts
\* nevertheless is not meant: nothing in the relay keeps it from a driver's side.
OneWriter == ~({"driver", "user"} \subseteq working)

\* A stop is heard: whatever becomes of the request, the driver and the turn under way,
\* the task comes to rest.
StopIsHeard == run.stopping ~> OffLimits(run)

\* A task whose recovery was begun is given back to its owner.
ResolvingEnds == run.status = "Resolving" ~> run.status # "Resolving"

=============================================================================
