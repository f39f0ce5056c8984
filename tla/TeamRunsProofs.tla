--------------------------- MODULE TeamRunsProofs ---------------------------
(* Proofs about TeamRuns: who may drive, who writes in the workspace, and that a *)
(* task is never left to nobody.                                                *)
EXTENDS TeamRuns, TLAPS

USE BoundsAssumption

(* ---- The inductive invariant ------------------------------------------------ *)

Record == [status : Statuses, pauseRequested : BOOLEAN, stopping : BOOLEAN,
           awaiting : BOOLEAN, inFlight : BOOLEAN]

Outcomes == {"none", "ok", "failed", "blocked"}

Places ==
    {"none"} \cup Driving \cup Netting
    \cup {"gate", "drain", "drainPaused", "settle", "markQuiescent", "markBlocked", "markDrained",
          "resolving", "resolved", "probe", "resume", "reopening", "reopened", "claimed", "rollback",
          "sending"}

Types ==
    /\ run \in Record /\ disk \in Record /\ restore \in Record
    /\ working \in SUBSET {"driver", "user", "stray"} /\ late \in BOOLEAN
    /\ pc \in [Procs -> Places]
    /\ outcome \in [Drivers -> Outcomes]
    /\ ticket \in Procs \cup {None}
    /\ gateQ \in Seq(Procs)
    /\ abandons \in Nat /\ restores \in Nat

\* A handler that stops knows what for.
StopsHaveTargets ==
    /\ op \in [Handlers -> Kinds \cup {None}]
    /\ \A h \in Handlers :
        /\ pc[h] = "gate" => op[h] \in {"pause", "stop", "cancel", "done"}
        /\ pc[h] \in {"drain", "settle"} => op[h] \in {"stop", "cancel", "done"}

\* Where a process is inside the gate, not waiting for it.
Holding == {"drain", "drainPaused", "settle", "markDrained", "resolved", "reopened", "claimed",
            "rollback", "sending", "closeDrain", "lostDrain"}

HoldersHold == \A p \in Procs : pc[p] \in Holding => HasGate(p)

\* Where a handler has the right to drive, about to spawn.
Claiming == {"resume", "claimed"}

\* The second half of TicketIsOwned.
OneMayDrive ==
    /\ \A d \in Drivers : pc[d] \in Driving <=> ticket = d
    /\ \A h \in Handlers : pc[h] \in Claiming <=> ticket = h

\* Where the turns of the driver are known to have stopped, for as long as the gate is held.
Drained == {"settle", "markDrained", "resolved", "closeDrain", "lostDrain", "sending"}

DrainedIsQuiet == \A p \in Procs : pc[p] \in Drained => "driver" \notin working

\* A driver that is not inside a turn, and does not report one that got out of hand, has
\* none under way, or its task is settled, and stays so.
BetweenTurns(d) == pc[d] \in {"boundary", "dispatch"} \/ (pc[d] = "report" /\ outcome[d] # "blocked")

DriversAreQuiet ==
    \A d \in Drivers : BetweenTurns(d) => OffLimits(run) \/ "driver" \notin working

\* A message to the lead is worked on only while nobody may drive.
UsersWaitForRest ==
    /\ "user" \in working => OffLimits(run) /\ "driver" \notin working
    /\ \A h \in Handlers : pc[h] = "sending" => OffLimits(run)

\* What a reopen may go back to is a finished task.
Provisioned == {"reopened", "claimed", "rollback"}

ReopensGoBack == \A h \in Handlers : pc[h] \in Provisioned => restore.status \in Reopenable

RunsInv ==
    /\ Types /\ StopsHaveTargets /\ HoldersHold /\ OneMayDrive
    /\ HandedBackIsQuiet /\ DrainedIsQuiet /\ DriversAreQuiet /\ UsersWaitForRest
    /\ ReopensGoBack /\ NeverDriverless

(* ---- Records ---------------------------------------------------------------- *)

\* A task whose workspace is its owner's again.
Handed(r) == r.status \in Terminal \cup {"Paused"}

\* What settling, blocking and failing make of a record.
LEMMA RecordsSettled ==
    ASSUME NEW r \in Record
    PROVE  /\ Block(r) \in Record /\ OffLimits(Block(r)) /\ (Handed(Block(r)) => Handed(r))
           /\ SettlePaused(r) \in Record /\ OffLimits(SettlePaused(r))
           /\ Handed(SettlePaused(r)) => Handed(r) \/ ~OffLimits(r)
           /\ Fail(r) \in Record /\ (OffLimits(r) => Fail(r) = r)
           /\ Handed(Fail(r)) => Handed(r) \/ ~OffLimits(r)
           /\ Cancel(r) \in Record /\ OffLimits(Cancel(r))
           /\ ForceMark(r, "Done") \in Record /\ OffLimits(ForceMark(r, "Done"))
           /\ MarkInterruptedIfStranded(r) \in Record /\ OffLimits(MarkInterruptedIfStranded(r))
           /\ ReconcileAfterRestore(r) \in Record /\ OffLimits(ReconcileAfterRestore(r))
           /\ ResolveAsPaused(r) \in Record /\ (OffLimits(r) => OffLimits(ResolveAsPaused(r)))
           /\ ~OffLimits(r) => ResolveAsPaused(r) = r
<1>1. Block(r) \in Record /\ OffLimits(Block(r)) /\ (Handed(Block(r)) => Handed(r))
  BY DEF Block, Is, Record, Statuses, Terminal, Settled, Active, OffLimits, Handed
<1>2. /\ SettlePaused(r) \in Record /\ OffLimits(SettlePaused(r))
      /\ Handed(SettlePaused(r)) => Handed(r) \/ ~OffLimits(r)
  BY DEF SettlePaused, AtRest, Record, Statuses, Terminal, Settled, Active, OffLimits, Handed
<1>3. /\ Fail(r) \in Record /\ (OffLimits(r) => Fail(r) = r)
      /\ Handed(Fail(r)) => Handed(r) \/ ~OffLimits(r)
  BY DEF Fail, Is, Record, Statuses, Terminal, Settled, Active, OffLimits, Handed
<1>4. Cancel(r) \in Record /\ OffLimits(Cancel(r))
  BY DEF Cancel, AtRest, Record, Statuses, Terminal, Settled, Active, OffLimits
<1>5. ForceMark(r, "Done") \in Record /\ OffLimits(ForceMark(r, "Done"))
  BY DEF ForceMark, AtRest, Record, Statuses, Terminal, Settled, Active, OffLimits
<1>6. MarkInterruptedIfStranded(r) \in Record /\ OffLimits(MarkInterruptedIfStranded(r))
  BY DEF MarkInterruptedIfStranded, Is, Record, Statuses, Terminal, Settled, Active, OffLimits
<1>7. ReconcileAfterRestore(r) \in Record /\ OffLimits(ReconcileAfterRestore(r))
  <2>1. CASE r.status \in Terminal
    BY <2>1 DEF ReconcileAfterRestore, OffLimits, Terminal
  <2>2. CASE r.status = "Paused"
    BY <2>2 DEF ReconcileAfterRestore, AtRest, Record, Statuses, Terminal, Settled, OffLimits
  <2>3. CASE r.status \in {"PausePending", "AwaitingUser"}
    BY <1>2, <2>3 DEF ReconcileAfterRestore, Terminal
  <2>4. CASE r.status \in {"Queued", "Running", "Blocked", "Resolving"}
    BY <1>6, <2>4 DEF ReconcileAfterRestore, Terminal
  <2> QED BY <2>1, <2>2, <2>3, <2>4 DEF Record, Statuses, Settled, Active
<1>8. /\ ResolveAsPaused(r) \in Record /\ (OffLimits(r) => OffLimits(ResolveAsPaused(r)))
      /\ ~OffLimits(r) => ResolveAsPaused(r) = r
  BY DEF ResolveAsPaused, AtRest, Record, Statuses, Terminal, Settled, Active, OffLimits
<1> QED BY <1>1, <1>2, <1>3, <1>4, <1>5, <1>6, <1>7, <1>8

\* What asking for something makes of a record: nothing is settled that was not.
LEMMA RecordsAsked ==
    ASSUME NEW r \in Record
    PROVE  /\ \A s \in Statuses : /\ SetStatus(r, s) \in Record /\ (OffLimits(r) => SetStatus(r, s) = r)
                                  /\ ~OffLimits(r) => SetStatus(r, s).status = s
                                  /\ Is(r, s) \in Record /\ Is(r, s).status = s
           /\ RequestPause(r) \in Record /\ (OffLimits(r) => RequestPause(r) = r)
           /\ ~OffLimits(r) => ~OffLimits(RequestPause(r))
           /\ RequestStop(r) \in Record /\ (OffLimits(r) => RequestStop(r) = r)
           /\ ~OffLimits(r) => ~OffLimits(RequestStop(r))
           /\ Resume(r) \in Record /\ Resume(r).status = "Running"
           /\ Unparked(r) \in Record /\ (OffLimits(r) => Unparked(r).status = r.status)
           /\ ~OffLimits(r) => ~OffLimits(Unparked(r))
           /\ \A b \in BOOLEAN :
                 /\ [r EXCEPT !.inFlight = b] \in Record /\ [r EXCEPT !.inFlight = b].status = r.status
                 /\ [r EXCEPT !.awaiting = b] \in Record /\ [r EXCEPT !.awaiting = b].status = r.status
                 /\ [r EXCEPT !.stopping = b] \in Record /\ [r EXCEPT !.stopping = b].status = r.status
<1>1. \A s \in Statuses : /\ SetStatus(r, s) \in Record /\ (OffLimits(r) => SetStatus(r, s) = r)
                          /\ ~OffLimits(r) => SetStatus(r, s).status = s
                          /\ Is(r, s) \in Record /\ Is(r, s).status = s
  BY DEF SetStatus, Is, Record
<1>2. /\ RequestPause(r) \in Record /\ (OffLimits(r) => RequestPause(r) = r)
      /\ ~OffLimits(r) => ~OffLimits(RequestPause(r))
  BY DEF RequestPause, Is, Record, Statuses, Active, OffLimits, Terminal, Settled
<1>3. /\ RequestStop(r) \in Record /\ (OffLimits(r) => RequestStop(r) = r)
      /\ ~OffLimits(r) => ~OffLimits(RequestStop(r))
  BY DEF RequestStop, RequestPause, Is, Record, Statuses, Active, OffLimits, Terminal, Settled
<1>4. Resume(r) \in Record /\ Resume(r).status = "Running"
  BY DEF Resume, Is, Record, Statuses, Active
<1>5. /\ Unparked(r) \in Record /\ (OffLimits(r) => Unparked(r).status = r.status)
      /\ ~OffLimits(r) => ~OffLimits(Unparked(r))
  BY DEF Unparked, Record, Statuses, Active, OffLimits, Terminal, Settled
<1>6. \A b \in BOOLEAN :
         /\ [r EXCEPT !.inFlight = b] \in Record /\ [r EXCEPT !.inFlight = b].status = r.status
         /\ [r EXCEPT !.awaiting = b] \in Record /\ [r EXCEPT !.awaiting = b].status = r.status
         /\ [r EXCEPT !.stopping = b] \in Record /\ [r EXCEPT !.stopping = b].status = r.status
  BY DEF Record
<1> QED BY <1>1, <1>2, <1>3, <1>4, <1>5, <1>6

\* A settlement that is asked for settles the task, and hands back only a quiet workspace.
LEMMA SettlementsSettle ==
    ASSUME NEW r \in Record, NEW s \in {"Paused", "Cancelled", "Done"}
    PROVE  /\ SettleTeamRun(r, s) \in Record /\ OffLimits(SettleTeamRun(r, s))
           /\ Handed(SettleTeamRun(r, s)) => Handed(r) \/ working = {}
<1>1. CASE r.status = s
  BY <1>1 DEF SettleTeamRun, OffLimits, Terminal, Settled
<1>2. CASE r.status # s /\ working # {}
  BY <1>2, RecordsSettled DEF SettleTeamRun
<1>3. CASE r.status # s /\ working = {}
  <2>1. SettleTeamRun(r, s) \in {SettlePaused(r), Cancel(r), ForceMark(r, "Done")}
    BY <1>3 DEF SettleTeamRun
  <2> QED BY <1>3, <2>1, RecordsSettled
<1> QED BY <1>1, <1>2, <1>3

\* A task is active or off limits.
LEMMA ActiveOrOffLimits ==
    ASSUME NEW r \in Record
    PROVE  /\ r.status \in Active <=> ~OffLimits(r)
           /\ Handed(r) => OffLimits(r)
BY DEF Record, Statuses, Active, OffLimits, Terminal, Settled, Handed

(* ---- The gate ---------------------------------------------------------------- *)

\* A process that gives up its place keeps the queue a queue and leaves its head to who
\* has it.
LEMMA PlacesAreLeft ==
    ASSUME gateQ \in Seq(Procs), NEW p \in Procs, NEW q \in Procs, NEW i \in Place(p),
           gateQ' = SubSeq(gateQ, 1, i - 1) \o SubSeq(gateQ, i + 1, Len(gateQ))
    PROVE  gateQ' \in Seq(Procs) /\ (q # p /\ HasGate(q) => HasGate(q)')
<1>1. i \in 1..Len(gateQ) /\ gateQ[i] = p /\ Len(gateQ) \in Nat
  BY DEF Place
<1> DEFINE s == SubSeq(gateQ, 1, i - 1)  t == SubSeq(gateQ, i + 1, Len(gateQ))
<1>2. s \in Seq(Procs) /\ t \in Seq(Procs) /\ Len(s) = i - 1
  BY <1>1
<1>3. gateQ' \in Seq(Procs)
  BY <1>2
<1>4. ASSUME q # p, HasGate(q) PROVE HasGate(q)'
  <2>1. gateQ[1] = q /\ i # 1
    BY <1>1, <1>4 DEF HasGate
  <2>2. Len(s) >= 1 /\ s[1] = q
    BY <1>1, <1>2, <2>1
  <2>3. gateQ' = s \o t
    OBVIOUS
  <2> HIDE DEF s, t
  <2>4. \A a, b \in Seq(Procs) : Len(a) >= 1 => a \o b # <<>> /\ Head(a \o b) = a[1]
    OBVIOUS
  <2>5. s \o t # <<>> /\ Head(s \o t) = q
    BY <1>2, <2>2, <2>4
  <2> QED BY <2>3, <2>5 DEF HasGate
<1> QED BY <1>3, <1>4

\* Who queues takes the gate from nobody, and has it when nobody else does.
LEMMA QueueSteps ==
    ASSUME gateQ \in Seq(Procs), NEW p \in Procs, NEW q \in Procs, Queues(p)
    PROVE  /\ HasGate(q) => HasGate(q)'
           /\ gateQ = <<>> => HasGate(p)'
BY DEF Queues, HasGate

(* ---- What a step makes of the record ----------------------------------------- *)

\* A driver is let go of on a paused and quiet task.
Spawned(d) ==
    /\ pc[d] = "none" /\ pc'[d] = "boundary"
    /\ ticket' = d /\ ticket \notin Drivers
    /\ working = {} /\ working' = {} /\ run'.status = "Running"

\* A settled task stays settled unless a driver is spawned, and a workspace is handed
\* back when it is quiet.
Moved ==
    /\ run' \in Record
    /\ OffLimits(run) => OffLimits(run') \/ \E d \in Drivers : Spawned(d)
    /\ Handed(run') => Handed(run) \/ "driver" \notin working'

\* Where the invariant is used for it: a driver that reports has no turn under way, and a
\* gate that is held since the turns were stopped keeps them stopped.
LEMMA RunMoves ==
    ASSUME RunsInv, [Next]_vars
    PROVE  Moved
<1>0. run \in Record /\ restore \in Record /\ disk \in Record
  BY DEF RunsInv, Types
<1>h. \A q \in Record : /\ OffLimits(q) <=> q.status \in Terminal \cup Settled
                        /\ Handed(q) <=> q.status \in Terminal \cup {"Paused"}
  BY DEF OffLimits, Handed
<1>u. ASSUME UNCHANGED run PROVE Moved
  BY <1>0, <1>u DEF Moved
<1>b. /\ Block(run) \in Record /\ OffLimits(Block(run)) /\ (Handed(Block(run)) => Handed(run))
      /\ \A s \in {"Paused", "Cancelled", "Done"} :
           /\ SettleTeamRun(run, s) \in Record /\ OffLimits(SettleTeamRun(run, s))
           /\ Handed(SettleTeamRun(run, s)) => Handed(run) \/ working = {}
  BY <1>0, RecordsSettled, SettlementsSettle
<1>s. \A s \in {"Running", "Escalated", "AwaitingUser"} :
           /\ SetStatus(run, s) \in Record /\ (OffLimits(run) => SetStatus(run, s) = run)
           /\ ~OffLimits(run) => SetStatus(run, s).status = s
  <2> SUFFICES ASSUME NEW s \in {"Running", "Escalated", "AwaitingUser"}
              PROVE  /\ SetStatus(run, s) \in Record /\ (OffLimits(run) => SetStatus(run, s) = run)
                     /\ ~OffLimits(run) => SetStatus(run, s).status = s
    OBVIOUS
  <2>1. s \in Statuses
    BY DEF Statuses, Active, Terminal
  <2> QED BY <1>0, <2>1, RecordsAsked
<1>o. /\ Unparked(run) \in Record /\ (OffLimits(Unparked(run)) <=> OffLimits(run))
      /\ OffLimits(run) => Unparked(run).status = run.status
  BY <1>0, <1>h, RecordsAsked
<1>w. \A q \in {run, Unparked(run)}, b \in BOOLEAN :
         /\ [q EXCEPT !.inFlight = b] \in Record /\ [q EXCEPT !.inFlight = b].status = q.status
         /\ [q EXCEPT !.stopping = b] \in Record /\ [q EXCEPT !.stopping = b].status = q.status
  BY <1>0, <1>o, RecordsAsked
<1>1. ASSUME NEW d \in Drivers, DriverAtBoundary(d) PROVE Moved
  BY <1>0, <1>1, <1>b, <1>s, <1>h DEF DriverAtBoundary, Moved, Terminal, Settled
<1>2. ASSUME NEW d \in Drivers,
             TurnQueues(d) \/ DriverReturns(d) \/ DriverPanics(d) \/ NetChecks(d)
      PROVE  Moved
  BY <1>2, <1>u DEF TurnQueues, DriverReturns, DriverPanics, NetChecks
<1>3. ASSUME NEW d \in Drivers, TurnRefused(d) PROVE Moved
  BY <1>0, <1>3, <1>b, <1>u, RecordsSettled DEF TurnRefused, Moved
<1>4. ASSUME NEW d \in Drivers, TurnStarts(d) PROVE Moved
  BY <1>0, <1>4, <1>w, <1>h DEF TurnStarts, Moved
<1>5. ASSUME NEW d \in Drivers, ParkOnQuestion(d) PROVE Moved
  <2> DEFINE q == SetStatus(run, "AwaitingUser")
  <2>1. q \in Record /\ [q EXCEPT !.awaiting = TRUE] \in Record
        /\ [q EXCEPT !.awaiting = TRUE].status = q.status
    BY <1>s, RecordsAsked
  <2> QED BY <1>0, <1>5, <1>h, <1>s, <2>1 DEF ParkOnQuestion, Moved, Terminal, Settled
<1>6. ASSUME NEW d \in Drivers, Unpark(d) PROVE Moved
  BY <1>0, <1>6, <1>h, <1>o DEF Unpark, Moved, Terminal, Settled
<1>7. ASSUME NEW q \in {Unparked(run), [Unparked(run) EXCEPT !.inFlight = FALSE]}
      PROVE  q \in Record /\ (OffLimits(q) <=> OffLimits(run)) /\ (Handed(q) => Handed(run))
  <2>1. q \in Record /\ q.status = Unparked(run).status
    BY <1>o, <1>w
  <2>2. OffLimits(q) <=> OffLimits(run)
    BY <1>o, <1>h, <2>1
  <2>3. ASSUME Handed(q) PROVE Handed(run)
    <3>1. OffLimits(run)
      BY <2>1, <2>2, <2>3, ActiveOrOffLimits
    <3>2. q.status = run.status
      BY <1>o, <2>1, <3>1
    <3> QED BY <2>3, <3>2 DEF Handed
  <2> QED BY <2>1, <2>2, <2>3
<1>8. ASSUME NEW d \in Drivers, TurnStalls(d) \/ StallStops(d) PROVE Moved
  <2>1. CASE TurnStalls(d)
    BY <1>7, <2>1 DEF TurnStalls, Moved
  <2>2. CASE StallStops(d)
    BY <1>0, <1>h, <1>w, <1>u, <2>2 DEF StallStops, Moved
  <2> QED BY <1>8, <2>1, <2>2
<1>9. ASSUME NEW d \in Drivers, TurnObserved(d) PROVE Moved
  <2> DEFINE over == [Unparked(run) EXCEPT !.inFlight = FALSE]
  <2>1. over \in Record /\ (OffLimits(over) <=> OffLimits(run)) /\ (Handed(over) => Handed(run))
    BY <1>7
  <2>2. run' \in {over, SettleTeamRun(over, "Paused")} /\ working' = working
    BY <1>9 DEF TurnObserved
  <2> HIDE DEF over
  <2> QED BY <2>1, <2>2, SettlementsSettle DEF Moved
<1>10. ASSUME NEW d \in Drivers, DriverReports(d) PROVE Moved
  <2>1. working' = working /\ (outcome[d] # "blocked" => OffLimits(run) \/ "driver" \notin working)
    BY <1>10 DEF DriverReports, RunsInv, DriversAreQuiet, BetweenTurns
  <2>2. CASE UNCHANGED run
    BY <1>u, <2>2
  <2>3. CASE run' = SettleTeamRun(run, "Done") \/ run' = Block(run)
    BY <1>b, <2>1, <2>3 DEF Moved
  <2>4. CASE run' = SetStatus(run, "Escalated") /\ outcome[d] # "blocked"
    BY <1>0, <1>s, <2>1, <2>4 DEF Moved
  <2>5. CASE run' = Fail(run) /\ outcome[d] # "blocked"
    BY <1>0, <2>1, <2>5, RecordsSettled DEF Moved
  <2> QED BY <1>10, <2>2, <2>3, <2>4, <2>5 DEF DriverReports
<1>11. ASSUME NEW d \in Drivers, NetDrains(d) PROVE Moved
  BY <1>11, <1>b, <1>u DEF NetDrains, Moved
<1>12. ASSUME NEW d \in Drivers, NetInterrupts(d) PROVE Moved
  <2>1. "driver" \notin working'
    BY <1>12 DEF NetInterrupts, RunsInv, DrainedIsQuiet, Drained, Procs
  <2> QED BY <1>0, <1>12, <2>1, RecordsSettled DEF NetInterrupts, Moved
<1>13. ASSUME NEW h \in Handlers, PauseDecides(h) \/ StopDecides(h) PROVE Moved
  <2>1. run' \in {run, RequestPause(run), RequestStop(run)}
    BY <1>13 DEF PauseDecides, StopDecides
  <2>2. ASSUME NEW q \in {RequestPause(run), RequestStop(run)}
        PROVE  q \in Record /\ (OffLimits(run) => q = run) /\ (~OffLimits(run) => ~OffLimits(q))
    BY <1>0, RecordsAsked
  <2>3. ASSUME run' # run PROVE Moved
    BY <2>1, <2>2, <2>3, ActiveOrOffLimits DEF Moved
  <2> QED BY <1>u, <2>3
<1>14. ASSUME NEW h \in Handlers, StopDrains(h) \/ MarkBlockedDrains(h) \/ ResolveDrains(h) PROVE Moved
  BY <1>14, <1>b, <1>u DEF StopDrains, MarkBlockedDrains, ResolveDrains, Moved
<1>15. ASSUME NEW h \in Handlers, StopSettles(h) PROVE Moved
  <2>1. Target(op[h]) \in {"Paused", "Cancelled", "Done"}
    BY <1>15 DEF StopSettles, RunsInv, StopsHaveTargets, Target
  <2> QED BY <1>15, <1>b, <2>1 DEF StopSettles, Moved
<1>16. ASSUME NEW h \in Handlers, MarkQuiescent(h) PROVE Moved
  BY <1>0, <1>16, <1>u, RecordsSettled DEF MarkQuiescent, Moved
<1>17. ASSUME NEW h \in Handlers, MarkBlocked(h) \/ ResolveSettles(h) PROVE Moved
  <2>1. "driver" \notin working'
    BY <1>17 DEF MarkBlocked, ResolveSettles, RunsInv, DrainedIsQuiet, Drained, Procs
  <2> QED BY <1>0, <1>17, <1>u, <2>1, RecordsSettled DEF MarkBlocked, ResolveSettles, Moved
<1>18. ASSUME NEW h \in Handlers, ResumeProbes(h) PROVE Moved
  BY <1>18, <1>b, <1>u DEF ResumeProbes, Moved
<1>19. ASSUME NEW h \in Handlers, Spawns(h), ticket \notin Drivers, UNCHANGED working
       PROVE  Moved
  <2>1. run' \in Record /\ run'.status = "Running" /\ ~Handed(run')
    BY <1>0, <1>h, <1>19, RecordsAsked DEF Spawns, Terminal
  <2>2. PICK d \in Drivers : /\ pc[d] = "none" /\ ticket' = d
                             /\ pc' = [pc EXCEPT ![d] = "boundary", ![h] = "none"]
    BY <1>19 DEF Spawns
  <2>3. pc \in [Procs -> Places] /\ d \in Procs /\ h \in Procs /\ d # h
    BY DEF RunsInv, Types, Procs
  <2>4. pc'[d] = "boundary"
    BY <2>2, <2>3
  <2>5. Spawned(d)
    BY <1>19, <2>1, <2>2, <2>4 DEF Spawned, Spawns, MaySpawn
  <2> QED BY <2>1, <2>5 DEF Moved
<1>20. ASSUME NEW h \in Handlers, ResumeSpawns(h) PROVE Moved
  <2>1. ticket \notin Drivers
    BY <1>20 DEF ResumeSpawns, RunsInv, OneMayDrive, Claiming
  <2> QED BY <1>19, <1>20, <1>u, <2>1 DEF ResumeSpawns
<1>21. ASSUME NEW h \in Handlers, ReopenProvisions(h) PROVE Moved
  <2>1. CASE run.status \in Reopenable /\ run' = Is(run, "Paused")
    <3>1. Handed(run)
      BY <2>1 DEF Handed, Reopenable, Terminal
    <3>2. "Paused" \in Statuses /\ "Paused" \in Settled
      BY DEF Statuses, Settled
    <3>3. run' \in Record /\ run'.status = "Paused"
      BY <1>0, <2>1, <3>2, RecordsAsked
    <3>4. OffLimits(run')
      BY <1>h, <3>2, <3>3
    <3> QED BY <3>1, <3>3, <3>4 DEF Moved
  <2> QED BY <1>21, <1>u, <2>1 DEF ReopenProvisions
<1>22. ASSUME NEW h \in Handlers,
              ReopenClaims(h) \/ ReopenSpawns(h) \/ RollBackReopenProvision(h)
       PROVE  Moved
  <2>1. CASE RollBackReopenProvision(h)
    <3>1. restore.status \in Reopenable
      BY <2>1 DEF RollBackReopenProvision, RunsInv, ReopensGoBack, Provisioned
    <3>2. run' = RolledBack
      BY <2>1 DEF RollBackReopenProvision
    <3> QED BY <1>0, <1>h, <1>u, <3>1, <3>2 DEF RolledBack, Moved, Reopenable, Terminal
  <2>2. CASE ReopenSpawns(h)
    <3>1. ticket \notin Drivers
      BY <2>2 DEF ReopenSpawns, RunsInv, OneMayDrive, Claiming
    <3> QED BY <1>19, <1>u, <2>2, <3>1 DEF ReopenSpawns
  <2>3. CASE ReopenClaims(h)
    BY <1>u, <2>3 DEF ReopenClaims
  <2> QED BY <1>22, <2>1, <2>2, <2>3
<1>23. ASSUME NEW h \in Handlers, AskToResolve(h) PROVE Moved
  <2>1. run' \in Record /\ run'.status = "Resolving"
    BY <1>0, <1>23, RecordsAsked DEF AskToResolve, Statuses, Settled
  <2> QED BY <1>h, <2>1 DEF Moved, Settled, Terminal
<1>24. ASSUME NEW h \in Handlers,
              \/ SendStarts(h) \/ AskToStop(h) \/ AskToMark(h) \/ AskToResume(h)
              \/ AskToReopen(h) \/ AskToSend(h) \/ HangUp(h)
       PROVE  Moved
  BY <1>24, <1>u DEF SendStarts, AskToStop, AskToMark, AskToResume, AskToReopen, AskToSend, HangUp
<1>25. CASE TurnEnds \/ StrayBegins \/ Save \/ UNCHANGED vars
  BY <1>25, <1>u DEF TurnEnds, StrayBegins, Save, vars
<1>26. CASE AbandonTeamStop
  BY <1>0, <1>26, <1>u, <1>h, <1>w DEF AbandonTeamStop, Moved
<1>27. CASE RestoreResolvingAsBlocked
  BY <1>27, <1>b, <1>u DEF RestoreResolvingAsBlocked, Moved
<1>28. CASE Restart
  BY <1>0, <1>28, RecordsSettled DEF Restart, Moved
<1> QED
  BY <1>1, <1>2, <1>3, <1>4, <1>5, <1>6, <1>8, <1>9, <1>10, <1>11, <1>12, <1>13, <1>14, <1>15,
     <1>16, <1>17, <1>18, <1>20, <1>21, <1>22, <1>23, <1>24, <1>25, <1>26, <1>27, <1>28
     DEF Next, DriverStep, HandlerStep, OwnerStep

(* ---- What a step makes of the processes -------------------------------------- *)

\* Nobody moves, and nothing starts but a message nobody waits for.
Still ==
    /\ UNCHANGED <<pc, op, outcome, ticket, gateQ, restore>>
    /\ working' \subseteq working \cup {"stray"}

\* One process moves, and leaves the others where they are.
MovesAlone(p) ==
    /\ \A q \in Procs \ {p} : pc'[q] = pc[q]
    /\ \A d \in Drivers \ {p} : outcome'[d] = outcome[d]
    /\ \A h \in Handlers \ {p} : op'[h] = op[h]

\* It is let in at the gate at the end of the queue and lets go of it from its head.
GateMoves(p) ==
    /\ \/ UNCHANGED gateQ /\ (pc'[p] \in Holding => HasGate(p))
       \/ Queues(p) /\ (pc'[p] \in Holding => gateQ = <<>>)
       \/ HasGate(p) /\ LetsGo /\ pc'[p] \notin Holding
       \/ Leaves(p) /\ pc'[p] \notin Holding
    /\ HasGate(p) \/ UNCHANGED restore
    /\ pc'[p] \in Provisioned => restore'.status \in Reopenable

\* It takes the right to drive when nobody has it, and gives it up when it has done.
TicketMoves(p) ==
    \/ /\ UNCHANGED ticket
       /\ pc'[p] \in Driving <=> pc[p] \in Driving
       /\ pc'[p] \in Claiming <=> pc[p] \in Claiming
    \/ ticket = p /\ ticket' = None /\ pc'[p] \notin Driving \cup Claiming
    \/ p \in Handlers /\ ticket = None /\ ticket' = p /\ pc'[p] \in Claiming

\* It starts a turn only under the gate and on a task that is not settled, and is between
\* turns only when it has seen the last one end.
WorkMoves(p) ==
    /\ "driver" \in working' =>
          "driver" \in working \/ (p \in Drivers /\ pc[p] = "dispatch" /\ HasGate(p) /\ ~OffLimits(run))
    /\ "user" \in working' => "user" \in working \/ (p \in Handlers /\ pc[p] = "sending" /\ UNCHANGED run)
    /\ pc'[p] \in Drained => "driver" \notin working'
    /\ pc'[p] = "sending" => OffLimits(run')
    /\ p \in Drivers /\ BetweenTurns(p)' =>
          (BetweenTurns(p) /\ working' = working) \/ "driver" \notin working'
    /\ pc[p] \in Driving \cup Netting => pc'[p] \in Driving \cup Netting \/ OffLimits(run')

\* What a handler was asked for goes with where it is.
Targeted(h) ==
    /\ pc'[h] = "gate" => op'[h] \in {"pause", "stop", "cancel", "done"}
    /\ pc'[h] \in {"drain", "settle"} => op'[h] \in {"stop", "cancel", "done"}

Moves(p) ==
    /\ MovesAlone(p) /\ GateMoves(p) /\ TicketMoves(p) /\ WorkMoves(p)
    /\ p \in Handlers => Targeted(p)

\* A handler hands its right to drive to the driver it spawns.
MovesBySpawning(h, d) ==
    /\ Spawned(d) /\ pc[h] \in Claiming /\ ticket = h
    /\ HasGate(h) /\ LetsGo
    /\ pc'[h] = "none" /\ \A q \in Procs \ {h, d} : pc'[q] = pc[q]
    /\ UNCHANGED outcome /\ \A q \in Handlers \ {h} : op'[q] = op[q]

\* The small variables keep their types, whatever a process does.
LEMMA SmallTypes ==
    ASSUME RunsInv, [Next]_vars
    PROVE  /\ disk' \in Record /\ restore' \in Record
           /\ working' \in SUBSET {"driver", "user", "stray"} /\ late' \in BOOLEAN
           /\ pc' \in [Procs -> Places] /\ outcome' \in [Drivers -> Outcomes]
           /\ op' \in [Handlers -> Kinds \cup {None}]
           /\ ticket' \in Procs \cup {None}
           /\ abandons' \in Nat /\ restores' \in Nat
<1> DEFINE Small == /\ disk \in Record /\ restore \in Record
                    /\ working \in SUBSET {"driver", "user", "stray"} /\ late \in BOOLEAN
                    /\ pc \in [Procs -> Places] /\ outcome \in [Drivers -> Outcomes]
                    /\ op \in [Handlers -> Kinds \cup {None}]
                    /\ ticket \in Procs \cup {None}
                    /\ abandons \in Nat /\ restores \in Nat
<1>0. Small /\ run \in Record
  BY DEF RunsInv, Types, StopsHaveTargets
<1>r. NewRun \in Record
  BY DEF NewRun, Record, Statuses, Active
<1>1. ASSUME NEW d \in Drivers, DriverAtBoundary(d) PROVE Small'
  BY <1>0, <1>1 DEF DriverAtBoundary, Goes, drivesAlone, Procs, Outcomes, Places, Driving, Netting, Kinds
<1>2. ASSUME NEW d \in Drivers, TurnQueues(d) PROVE Small'
  BY <1>0, <1>2 DEF TurnQueues, Goes, Procs, Outcomes, Places, Driving, Netting, Kinds
<1>3. ASSUME NEW d \in Drivers, TurnRefused(d) PROVE Small'
  BY <1>0, <1>3 DEF TurnRefused, Goes, Procs, Outcomes, Places, Driving, Netting, Kinds
<1>4. ASSUME NEW d \in Drivers, TurnStarts(d) PROVE Small'
  BY <1>0, <1>4 DEF TurnStarts, Goes, Procs, Outcomes, Places, Driving, Netting, Kinds
<1>5. ASSUME NEW d \in Drivers, ParkOnQuestion(d) PROVE Small'
  BY <1>0, <1>5 DEF ParkOnQuestion, drivesAlone, Procs, Outcomes, Places, Driving, Netting, Kinds
<1>6. ASSUME NEW d \in Drivers, Unpark(d) PROVE Small'
  BY <1>0, <1>6 DEF Unpark, drivesAlone, Procs, Outcomes, Places, Driving, Netting, Kinds
<1>7. ASSUME NEW d \in Drivers, TurnStalls(d) PROVE Small'
  BY <1>0, <1>7 DEF TurnStalls, Goes, drivesAlone, Procs, Outcomes, Places, Driving, Netting, Kinds
<1>7s. ASSUME NEW d \in Drivers, StallStops(d) PROVE Small'
  BY <1>0, <1>7s DEF StallStops, Goes, drivesAlone, Procs, Outcomes, Places, Driving, Netting, Kinds
<1>8. ASSUME NEW d \in Drivers, TurnObserved(d) PROVE Small'
  BY <1>0, <1>8 DEF TurnObserved, Goes, drivesAlone, Procs, Outcomes, Places, Driving, Netting, Kinds
<1>9. ASSUME NEW d \in Drivers, DriverReports(d) PROVE Small'
  BY <1>0, <1>9 DEF DriverReports, Goes, drivesAlone, Procs, Outcomes, Places, Driving, Netting, Kinds
<1>10. ASSUME NEW d \in Drivers, DriverReturns(d) PROVE Small'
  BY <1>0, <1>10 DEF DriverReturns, Goes, drivesAlone, Procs, Outcomes, Places, Driving, Netting, Kinds
<1>11. ASSUME NEW d \in Drivers, DriverPanics(d) PROVE Small'
  BY <1>0, <1>11 DEF DriverPanics, Goes, Procs, Outcomes, Places, Driving, Netting, Kinds
<1>12. ASSUME NEW d \in Drivers, NetChecks(d) PROVE Small'
  BY <1>0, <1>12 DEF NetChecks, Goes, Procs, Outcomes, Places, Driving, Netting, Kinds
<1>13. ASSUME NEW d \in Drivers, NetDrains(d) PROVE Small'
  BY <1>0, <1>13 DEF NetDrains, Goes, Drains, Procs, Outcomes, Places, Driving, Netting, Kinds
<1>14. ASSUME NEW d \in Drivers, NetInterrupts(d) PROVE Small'
  BY <1>0, <1>14 DEF NetInterrupts, Goes, Procs, Outcomes, Places, Driving, Netting, Kinds
<1>15. ASSUME NEW h \in Handlers, PauseDecides(h) PROVE Small'
  BY <1>0, <1>15 DEF PauseDecides, Ends, Goes, Procs, Outcomes, Places, Driving, Netting, Kinds
<1>16. ASSUME NEW h \in Handlers, StopDecides(h) PROVE Small'
  BY <1>0, <1>16 DEF StopDecides, Ends, Goes, Procs, Outcomes, Places, Driving, Netting, Kinds
<1>17. ASSUME NEW h \in Handlers, StopDrains(h) PROVE Small'
  BY <1>0, <1>17 DEF StopDrains, Ends, Goes, Drains, Procs, Outcomes, Places, Driving, Netting, Kinds
<1>18. ASSUME NEW h \in Handlers, StopSettles(h) PROVE Small'
  BY <1>0, <1>18 DEF StopSettles, Ends, Goes, Procs, Outcomes, Places, Driving, Netting, Kinds
<1>19. ASSUME NEW h \in Handlers, MarkQuiescent(h) PROVE Small'
  BY <1>0, <1>19 DEF MarkQuiescent, Ends, Goes, Procs, Outcomes, Places, Driving, Netting, Kinds
<1>20. ASSUME NEW h \in Handlers, MarkBlockedDrains(h) PROVE Small'
  BY <1>0, <1>20 DEF MarkBlockedDrains, Ends, Goes, Drains, Procs, Outcomes, Places, Driving, Netting, Kinds
<1>21. ASSUME NEW h \in Handlers, MarkBlocked(h) PROVE Small'
  BY <1>0, <1>21 DEF MarkBlocked, Ends, Goes, Procs, Outcomes, Places, Driving, Netting, Kinds
<1>22. ASSUME NEW h \in Handlers, ResolveDrains(h) PROVE Small'
  BY <1>0, <1>22 DEF ResolveDrains, Ends, Goes, Drains, Procs, Outcomes, Places, Driving, Netting, Kinds
<1>23. ASSUME NEW h \in Handlers, ResolveSettles(h) PROVE Small'
  BY <1>0, <1>23 DEF ResolveSettles, Ends, Goes, Procs, Outcomes, Places, Driving, Netting, Kinds
<1>24. ASSUME NEW h \in Handlers, ResumeProbes(h) PROVE Small'
  BY <1>0, <1>24 DEF ResumeProbes, Ends, Goes, Claims, Procs, Outcomes, Places, Driving, Netting, Kinds
<1>25. ASSUME NEW h \in Handlers, ResumeSpawns(h) PROVE Small'
  BY <1>0, <1>25 DEF ResumeSpawns, Spawns, MaySpawn, Goes, Procs, Outcomes, Places, Driving, Netting, Kinds
<1>26. ASSUME NEW h \in Handlers, ReopenProvisions(h) PROVE Small'
  BY <1>0, <1>26 DEF ReopenProvisions, Ends, Goes, Procs, Outcomes, Places, Driving, Netting, Kinds
<1>27. ASSUME NEW h \in Handlers, ReopenSpawns(h) PROVE Small'
  BY <1>0, <1>r, <1>27 DEF ReopenSpawns, Spawns, MaySpawn, Goes, Procs, Outcomes, Places, Driving, Netting, Kinds
<1>27c. ASSUME NEW h \in Handlers, ReopenClaims(h) PROVE Small'
  BY <1>0, <1>27c DEF ReopenClaims, Claims, Goes, Procs, Outcomes, Places, Driving, Netting, Kinds
<1>27r. ASSUME NEW h \in Handlers, RollBackReopenProvision(h) PROVE Small'
  BY <1>0, <1>r, <1>27r DEF RollBackReopenProvision, Ends, Goes, Procs, Outcomes, Places, Driving, Netting, Kinds
<1>28. ASSUME NEW h \in Handlers, SendStarts(h) PROVE Small'
  BY <1>0, <1>28 DEF SendStarts, Ends, Goes, Procs, Outcomes, Places, Driving, Netting, Kinds
<1>29. ASSUME NEW h \in Handlers, AskToStop(h) PROVE Small'
  BY <1>0, <1>29 DEF AskToStop, asks, Goes, Procs, Outcomes, Places, Driving, Netting, Kinds
<1>30. ASSUME NEW h \in Handlers, AskToMark(h) PROVE Small'
  BY <1>0, <1>30 DEF AskToMark, asks, Goes, Procs, Outcomes, Places, Driving, Netting, Kinds
<1>31. ASSUME NEW h \in Handlers, AskToResume(h) PROVE Small'
  BY <1>0, <1>31 DEF AskToResume, asks, Goes, Procs, Outcomes, Places, Driving, Netting, Kinds
<1>32. ASSUME NEW h \in Handlers, AskToResolve(h) PROVE Small'
  BY <1>0, <1>32 DEF AskToResolve, asks, Goes, Procs, Outcomes, Places, Driving, Netting, Kinds
<1>33. ASSUME NEW h \in Handlers, AskToReopen(h) PROVE Small'
  BY <1>0, <1>33 DEF AskToReopen, asks, Goes, Procs, Outcomes, Places, Driving, Netting, Kinds
<1>34. ASSUME NEW h \in Handlers, AskToSend(h) PROVE Small'
  BY <1>0, <1>34 DEF AskToSend, asks, Goes, Procs, Outcomes, Places, Driving, Netting, Kinds
<1>35. ASSUME NEW h \in Handlers, HangUp(h) PROVE Small'
  <2>1. late' \in BOOLEAN
    BY <1>0, <1>35, Zenon DEF HangUp
  <2>2. restore' \in Record /\ ticket' \in Procs \cup {None} /\ abandons' \in Nat /\ restores' \in Nat
    BY <1>0, <1>r, <1>35 DEF HangUp
  <2>3. /\ pc' = [pc EXCEPT ![h] = "none"] /\ op' = [op EXCEPT ![h] = None]
        /\ UNCHANGED <<disk, working, outcome>>
    BY <1>35 DEF HangUp, Ends, Goes
  <2> QED BY <1>0, <2>1, <2>2, <2>3 DEF Procs, Places, Kinds
<1>36. CASE TurnEnds
  BY <1>0, <1>36 DEF TurnEnds, drivesAlone, Procs, Outcomes, Places, Driving, Netting
<1>36s. CASE StrayBegins
  BY <1>0, <1>36s DEF StrayBegins, vars, Procs, Outcomes, Places, Driving, Netting
<1>37. CASE AbandonTeamStop
  BY <1>0, <1>37 DEF AbandonTeamStop, vars, Procs, Outcomes, Places, Driving, Netting
<1>38. CASE RestoreResolvingAsBlocked
  BY <1>0, <1>38 DEF RestoreResolvingAsBlocked, vars, Procs, Outcomes, Places, Driving, Netting
<1>39. CASE Save
  BY <1>0, <1>39 DEF Save, vars, Procs, Outcomes, Places, Driving, Netting
<1>40. CASE Restart
  BY <1>0, <1>r, <1>40, RecordsSettled DEF Restart, Procs, Outcomes, Places, Driving, Netting
<1>41. CASE UNCHANGED vars
  BY <1>0, <1>41 DEF vars
<1> QED
  BY <1>1, <1>2, <1>3, <1>4, <1>5, <1>6, <1>7, <1>7s, <1>8, <1>9, <1>10, <1>11, <1>12, <1>13, <1>14, <1>15, <1>16, <1>17, <1>18, <1>19, <1>20,
     <1>21, <1>22, <1>23, <1>24, <1>25, <1>26, <1>27, <1>27c, <1>27r, <1>28, <1>29, <1>30, <1>31, <1>32, <1>33, <1>34, <1>35,
     <1>36, <1>36s, <1>37, <1>38, <1>39, <1>40, <1>41
     DEF Next, DriverStep, HandlerStep, OwnerStep

\* Every step but a restart moves nobody, one process, or a handler and the driver it
\* spawns.
LEMMA StepsMove ==
    ASSUME RunsInv, [Next]_vars
    PROVE  \/ Restart \/ Still \/ \E p \in Procs : Moves(p)
           \/ \E h \in Handlers, d \in Drivers : MovesBySpawning(h, d)
<1>0. Types /\ StopsHaveTargets /\ OneMayDrive
  BY DEF RunsInv
<1>a. \A d \in Drivers : d \in Procs /\ d \notin Handlers /\ d # None
  BY DEF Procs
<1>b. \A h \in Handlers : h \in Procs /\ h \notin Drivers /\ h # None
  BY DEF Procs
<1>c. pc \in [Procs -> Places] /\ op \in [Handlers -> Kinds \cup {None}]
      /\ outcome \in [Drivers -> Outcomes]
  BY <1>0 DEF Types, StopsHaveTargets
<1>e. \A p \in Procs : pc[p] \in Holding => HasGate(p)
  BY DEF RunsInv, HoldersHold
<1>f. \A p \in Procs : pc[p] \in Drained => "driver" \notin working
  BY DEF RunsInv, DrainedIsQuiet
<1>g. OffLimits(Block(run)) /\ OffLimits(MarkInterruptedIfStranded(run))
  BY RecordsSettled DEF RunsInv, Types
<1>1. ASSUME NEW d \in Drivers, DriverAtBoundary(d) PROVE Moves(d)
  <2>1. MovesAlone(d)
    BY <1>a, <1>c, <1>1 DEF DriverAtBoundary, Goes, drivesAlone, MovesAlone
  <2>2. GateMoves(d)
    BY <1>a, <1>c, <1>e, <1>1 DEF DriverAtBoundary, Goes, drivesAlone, GateMoves, Holding, Provisioned
  <2>3. TicketMoves(d)
    BY <1>0, <1>a, <1>c, <1>1 DEF DriverAtBoundary, Goes, drivesAlone, TicketMoves, OneMayDrive, Driving, Claiming
  <2>4. WorkMoves(d)
    BY <1>a, <1>c, <1>f, <1>g, <1>1 DEF DriverAtBoundary, Goes, drivesAlone, WorkMoves, BetweenTurns, Drained, Driving, Netting
  <2> QED BY <1>a, <2>1, <2>2, <2>3, <2>4 DEF Moves
<1>2. ASSUME NEW d \in Drivers, TurnQueues(d) PROVE Moves(d)
  <2>1. MovesAlone(d)
    BY <1>a, <1>c, <1>2 DEF TurnQueues, Goes, MovesAlone
  <2>2. GateMoves(d)
    BY <1>a, <1>c, <1>e, <1>2 DEF TurnQueues, Goes, GateMoves, Holding, Provisioned
  <2>3. TicketMoves(d)
    BY <1>0, <1>a, <1>c, <1>2 DEF TurnQueues, Goes, TicketMoves, OneMayDrive, Driving, Claiming
  <2>4. WorkMoves(d)
    BY <1>a, <1>c, <1>f, <1>g, <1>2 DEF TurnQueues, Goes, WorkMoves, BetweenTurns, Drained, Driving, Netting
  <2> QED BY <1>a, <2>1, <2>2, <2>3, <2>4 DEF Moves
<1>3. ASSUME NEW d \in Drivers, TurnRefused(d) PROVE Moves(d)
  <2>1. MovesAlone(d)
    BY <1>a, <1>c, <1>3 DEF TurnRefused, Goes, MovesAlone
  <2>2. GateMoves(d)
    BY <1>a, <1>c, <1>e, <1>3 DEF TurnRefused, Goes, GateMoves, Holding, Provisioned
  <2>3. TicketMoves(d)
    BY <1>0, <1>a, <1>c, <1>3 DEF TurnRefused, Goes, TicketMoves, OneMayDrive, Driving, Claiming
  <2>4. WorkMoves(d)
    BY <1>a, <1>c, <1>f, <1>g, <1>3 DEF TurnRefused, Goes, WorkMoves, BetweenTurns, Drained, Driving, Netting
  <2> QED BY <1>a, <2>1, <2>2, <2>3, <2>4 DEF Moves
<1>4. ASSUME NEW d \in Drivers, TurnStarts(d) PROVE Moves(d)
  <2>1. MovesAlone(d)
    BY <1>a, <1>c, <1>4 DEF TurnStarts, Goes, MovesAlone
  <2>2. GateMoves(d)
    BY <1>a, <1>c, <1>e, <1>4 DEF TurnStarts, Goes, GateMoves, Holding, Provisioned
  <2>3. TicketMoves(d)
    BY <1>0, <1>a, <1>c, <1>4 DEF TurnStarts, Goes, TicketMoves, OneMayDrive, Driving, Claiming
  <2>4. WorkMoves(d)
    BY <1>a, <1>c, <1>f, <1>g, <1>4 DEF TurnStarts, TurnIsRefused, Goes, WorkMoves, BetweenTurns, Drained, Driving, Netting
  <2> QED BY <1>a, <2>1, <2>2, <2>3, <2>4 DEF Moves
<1>5. ASSUME NEW d \in Drivers, TurnStalls(d) PROVE Moves(d)
  <2>1. MovesAlone(d)
    BY <1>a, <1>c, <1>5 DEF TurnStalls, Goes, drivesAlone, MovesAlone
  <2>2. GateMoves(d)
    BY <1>a, <1>c, <1>e, <1>5 DEF TurnStalls, Goes, drivesAlone, GateMoves, Holding, Provisioned
  <2>3. TicketMoves(d)
    BY <1>0, <1>a, <1>c, <1>5 DEF TurnStalls, Goes, drivesAlone, TicketMoves, OneMayDrive, Driving, Claiming
  <2>4. WorkMoves(d)
    BY <1>a, <1>c, <1>f, <1>g, <1>5 DEF TurnStalls, Goes, drivesAlone, WorkMoves, BetweenTurns, Drained, Driving, Netting
  <2> QED BY <1>a, <2>1, <2>2, <2>3, <2>4 DEF Moves
<1>5s. ASSUME NEW d \in Drivers, StallStops(d) PROVE Moves(d)
  <2>1. MovesAlone(d)
    BY <1>a, <1>c, <1>5s DEF StallStops, Goes, drivesAlone, MovesAlone
  <2>2. GateMoves(d)
    BY <1>a, <1>c, <1>e, <1>5s DEF StallStops, Goes, drivesAlone, GateMoves, Holding, Provisioned
  <2>3. TicketMoves(d)
    BY <1>0, <1>a, <1>c, <1>5s DEF StallStops, Goes, drivesAlone, TicketMoves, OneMayDrive, Driving, Claiming
  <2>4. WorkMoves(d)
    BY <1>a, <1>c, <1>f, <1>g, <1>5s DEF StallStops, Goes, drivesAlone, WorkMoves, BetweenTurns, Drained, Driving, Netting
  <2> QED BY <1>a, <2>1, <2>2, <2>3, <2>4 DEF Moves
<1>6. ASSUME NEW d \in Drivers, TurnObserved(d) PROVE Moves(d)
  <2>1. MovesAlone(d)
    BY <1>a, <1>c, <1>6 DEF TurnObserved, Goes, drivesAlone, MovesAlone
  <2>2. GateMoves(d)
    BY <1>a, <1>c, <1>e, <1>6 DEF TurnObserved, Goes, drivesAlone, GateMoves, Holding, Provisioned
  <2>3. TicketMoves(d)
    BY <1>0, <1>a, <1>c, <1>6 DEF TurnObserved, Goes, drivesAlone, TicketMoves, OneMayDrive, Driving, Claiming
  <2>4. WorkMoves(d)
    BY <1>a, <1>c, <1>f, <1>g, <1>6 DEF TurnObserved, Goes, drivesAlone, WorkMoves, BetweenTurns, Drained, Driving, Netting
  <2> QED BY <1>a, <2>1, <2>2, <2>3, <2>4 DEF Moves
<1>7. ASSUME NEW d \in Drivers, DriverReports(d) PROVE Moves(d)
  <2>1. MovesAlone(d)
    BY <1>a, <1>c, <1>7 DEF DriverReports, Goes, drivesAlone, MovesAlone
  <2>2. GateMoves(d)
    BY <1>a, <1>c, <1>e, <1>7 DEF DriverReports, Goes, drivesAlone, GateMoves, Holding, Provisioned
  <2>3. TicketMoves(d)
    BY <1>0, <1>a, <1>c, <1>7 DEF DriverReports, Goes, drivesAlone, TicketMoves, OneMayDrive, Driving, Claiming
  <2>4. WorkMoves(d)
    BY <1>a, <1>c, <1>f, <1>g, <1>7 DEF DriverReports, Goes, drivesAlone, WorkMoves, BetweenTurns, Drained, Driving, Netting
  <2> QED BY <1>a, <2>1, <2>2, <2>3, <2>4 DEF Moves
<1>8. ASSUME NEW d \in Drivers, DriverReturns(d) PROVE Moves(d)
  <2>1. MovesAlone(d)
    BY <1>a, <1>c, <1>8 DEF DriverReturns, Goes, drivesAlone, MovesAlone
  <2>2. GateMoves(d)
    BY <1>a, <1>c, <1>e, <1>8 DEF DriverReturns, Goes, drivesAlone, GateMoves, Holding, Provisioned
  <2>3. TicketMoves(d)
    BY <1>0, <1>a, <1>c, <1>8 DEF DriverReturns, Goes, drivesAlone, TicketMoves, OneMayDrive, Driving, Claiming
  <2>4. WorkMoves(d)
    BY <1>a, <1>c, <1>f, <1>g, <1>8 DEF DriverReturns, Goes, drivesAlone, WorkMoves, BetweenTurns, Drained, Driving, Netting
  <2> QED BY <1>a, <2>1, <2>2, <2>3, <2>4 DEF Moves
<1>9. ASSUME NEW d \in Drivers, DriverPanics(d) PROVE Moves(d)
  <2>1. MovesAlone(d)
    BY <1>a, <1>c, <1>9 DEF DriverPanics, Goes, MovesAlone
  <2>2. GateMoves(d)
    BY <1>a, <1>c, <1>e, <1>9 DEF DriverPanics, Goes, GateMoves, Holding, Provisioned
  <2>3. TicketMoves(d)
    BY <1>0, <1>a, <1>c, <1>9 DEF DriverPanics, Goes, TicketMoves, OneMayDrive, Driving, Claiming
  <2>4. WorkMoves(d)
    BY <1>a, <1>c, <1>f, <1>g, <1>9 DEF DriverPanics, Goes, WorkMoves, BetweenTurns, Drained, Driving, Netting
  <2> QED BY <1>a, <2>1, <2>2, <2>3, <2>4 DEF Moves
<1>10. ASSUME NEW d \in Drivers, NetChecks(d) PROVE Moves(d)
  <2>1. MovesAlone(d)
    BY <1>a, <1>c, <1>10 DEF NetChecks, Goes, MovesAlone
  <2>2. GateMoves(d)
    BY <1>a, <1>c, <1>e, <1>10 DEF NetChecks, Goes, GateMoves, Holding, Provisioned
  <2>3. TicketMoves(d)
    BY <1>0, <1>a, <1>c, <1>10 DEF NetChecks, Goes, TicketMoves, OneMayDrive, Driving, Claiming
  <2>4. WorkMoves(d)
    BY <1>a, <1>c, <1>f, <1>g, <1>10 DEF NetChecks, Stranded, Goes, WorkMoves, BetweenTurns, Drained, Driving, Netting
  <2> QED BY <1>a, <2>1, <2>2, <2>3, <2>4 DEF Moves
<1>11. ASSUME NEW d \in Drivers, NetDrains(d) PROVE Moves(d)
  <2>1. MovesAlone(d)
    BY <1>a, <1>c, <1>11 DEF NetDrains, Goes, Drains, MovesAlone
  <2>2. GateMoves(d)
    BY <1>a, <1>c, <1>e, <1>11 DEF NetDrains, Goes, Drains, GateMoves, Holding, Provisioned
  <2>3. TicketMoves(d)
    BY <1>0, <1>a, <1>c, <1>11 DEF NetDrains, Goes, Drains, TicketMoves, OneMayDrive, Driving, Claiming
  <2>4. WorkMoves(d)
    BY <1>a, <1>c, <1>f, <1>g, <1>11 DEF NetDrains, Goes, Drains, WorkMoves, BetweenTurns, Drained, Driving, Netting
  <2> QED BY <1>a, <2>1, <2>2, <2>3, <2>4 DEF Moves
<1>12. ASSUME NEW d \in Drivers, NetInterrupts(d) PROVE Moves(d)
  <2>1. MovesAlone(d)
    BY <1>a, <1>c, <1>12 DEF NetInterrupts, Goes, MovesAlone
  <2>2. GateMoves(d)
    BY <1>a, <1>c, <1>e, <1>12 DEF NetInterrupts, Goes, GateMoves, Holding, Provisioned
  <2>3. TicketMoves(d)
    BY <1>0, <1>a, <1>c, <1>12 DEF NetInterrupts, Goes, TicketMoves, OneMayDrive, Driving, Claiming
  <2>4. WorkMoves(d)
    BY <1>a, <1>c, <1>f, <1>g, <1>12 DEF NetInterrupts, Goes, WorkMoves, BetweenTurns, Drained, Driving, Netting
  <2> QED BY <1>a, <2>1, <2>2, <2>3, <2>4 DEF Moves
<1>13. ASSUME NEW h \in Handlers, PauseDecides(h) PROVE Moves(h)
  <2>1. MovesAlone(h)
    BY <1>b, <1>c, <1>13 DEF PauseDecides, Ends, Goes, MovesAlone
  <2>2. GateMoves(h)
    BY <1>b, <1>c, <1>e, <1>13 DEF PauseDecides, Ends, Goes, GateMoves, Holding, Provisioned
  <2>3. TicketMoves(h)
    BY <1>0, <1>b, <1>c, <1>13 DEF PauseDecides, Ends, Goes, TicketMoves, OneMayDrive, Driving, Claiming
  <2>4. WorkMoves(h)
    BY <1>b, <1>c, <1>f, <1>g, <1>13 DEF PauseDecides, Ends, Goes, WorkMoves, BetweenTurns, Drained, Driving, Netting
  <2>5. Targeted(h)
    BY <1>0, <1>b, <1>c, <1>13 DEF PauseDecides, Ends, Goes, Targeted, StopsHaveTargets
  <2> QED BY <2>1, <2>2, <2>3, <2>4, <2>5 DEF Moves
<1>14. ASSUME NEW h \in Handlers, StopDecides(h) PROVE Moves(h)
  <2>1. MovesAlone(h)
    BY <1>b, <1>c, <1>14 DEF StopDecides, Ends, Goes, MovesAlone
  <2>2. GateMoves(h)
    BY <1>b, <1>c, <1>e, <1>14 DEF StopDecides, Ends, Goes, GateMoves, Holding, Provisioned
  <2>3. TicketMoves(h)
    BY <1>0, <1>b, <1>c, <1>14 DEF StopDecides, Ends, Goes, TicketMoves, OneMayDrive, Driving, Claiming
  <2>4. WorkMoves(h)
    BY <1>b, <1>c, <1>f, <1>g, <1>14 DEF StopDecides, Ends, Goes, WorkMoves, BetweenTurns, Drained, Driving, Netting
  <2>5. Targeted(h)
    BY <1>0, <1>b, <1>c, <1>14 DEF StopDecides, Ends, Goes, Targeted, StopsHaveTargets
  <2> QED BY <2>1, <2>2, <2>3, <2>4, <2>5 DEF Moves
<1>15. ASSUME NEW h \in Handlers, StopDrains(h) PROVE Moves(h)
  <2>1. MovesAlone(h)
    BY <1>b, <1>c, <1>15 DEF StopDrains, Ends, Goes, Drains, MovesAlone
  <2>2. GateMoves(h)
    BY <1>b, <1>c, <1>e, <1>15 DEF StopDrains, Ends, Goes, Drains, GateMoves, Holding, Provisioned
  <2>3. TicketMoves(h)
    BY <1>0, <1>b, <1>c, <1>15 DEF StopDrains, Ends, Goes, Drains, TicketMoves, OneMayDrive, Driving, Claiming
  <2>4. WorkMoves(h)
    BY <1>b, <1>c, <1>f, <1>g, <1>15 DEF StopDrains, Ends, Goes, Drains, WorkMoves, BetweenTurns, Drained, Driving, Netting
  <2>5. Targeted(h)
    BY <1>0, <1>b, <1>c, <1>15 DEF StopDrains, Ends, Goes, Drains, Targeted, StopsHaveTargets
  <2> QED BY <2>1, <2>2, <2>3, <2>4, <2>5 DEF Moves
<1>16. ASSUME NEW h \in Handlers, StopSettles(h) PROVE Moves(h)
  <2>1. MovesAlone(h)
    BY <1>b, <1>c, <1>16 DEF StopSettles, Ends, Goes, MovesAlone
  <2>2. GateMoves(h)
    BY <1>b, <1>c, <1>e, <1>16 DEF StopSettles, Ends, Goes, GateMoves, Holding, Provisioned
  <2>3. TicketMoves(h)
    BY <1>0, <1>b, <1>c, <1>16 DEF StopSettles, Ends, Goes, TicketMoves, OneMayDrive, Driving, Claiming
  <2>4. WorkMoves(h)
    BY <1>b, <1>c, <1>f, <1>g, <1>16 DEF StopSettles, Ends, Goes, WorkMoves, BetweenTurns, Drained, Driving, Netting
  <2>5. Targeted(h)
    BY <1>0, <1>b, <1>c, <1>16 DEF StopSettles, Ends, Goes, Targeted, StopsHaveTargets
  <2> QED BY <2>1, <2>2, <2>3, <2>4, <2>5 DEF Moves
<1>17. ASSUME NEW h \in Handlers, MarkQuiescent(h) PROVE Moves(h)
  <2>1. MovesAlone(h)
    BY <1>b, <1>c, <1>17 DEF MarkQuiescent, Ends, Goes, MovesAlone
  <2>2. GateMoves(h)
    BY <1>b, <1>c, <1>e, <1>17 DEF MarkQuiescent, Ends, Goes, GateMoves, Holding, Provisioned
  <2>3. TicketMoves(h)
    BY <1>0, <1>b, <1>c, <1>17 DEF MarkQuiescent, Ends, Goes, TicketMoves, OneMayDrive, Driving, Claiming
  <2>4. WorkMoves(h)
    BY <1>b, <1>c, <1>f, <1>g, <1>17 DEF MarkQuiescent, Ends, Goes, WorkMoves, BetweenTurns, Drained, Driving, Netting
  <2>5. Targeted(h)
    BY <1>0, <1>c, <1>17 DEF MarkQuiescent, Ends, Goes, Targeted, StopsHaveTargets
  <2> QED BY <2>1, <2>2, <2>3, <2>4, <2>5 DEF Moves
<1>18. ASSUME NEW h \in Handlers, MarkBlockedDrains(h) PROVE Moves(h)
  <2>1. MovesAlone(h)
    BY <1>b, <1>c, <1>18 DEF MarkBlockedDrains, Ends, Goes, Drains, MovesAlone
  <2>2. GateMoves(h)
    BY <1>b, <1>c, <1>e, <1>18 DEF MarkBlockedDrains, Ends, Goes, Drains, GateMoves, Holding, Provisioned
  <2>3. TicketMoves(h)
    BY <1>0, <1>b, <1>c, <1>18 DEF MarkBlockedDrains, Ends, Goes, Drains, TicketMoves, OneMayDrive, Driving, Claiming
  <2>4. WorkMoves(h)
    BY <1>b, <1>c, <1>f, <1>g, <1>18 DEF MarkBlockedDrains, Ends, Goes, Drains, WorkMoves, BetweenTurns, Drained, Driving, Netting
  <2>5. Targeted(h)
    BY <1>0, <1>c, <1>18 DEF MarkBlockedDrains, Ends, Goes, Drains, Targeted, StopsHaveTargets
  <2> QED BY <2>1, <2>2, <2>3, <2>4, <2>5 DEF Moves
<1>19. ASSUME NEW h \in Handlers, MarkBlocked(h) PROVE Moves(h)
  <2>1. MovesAlone(h)
    BY <1>b, <1>c, <1>19 DEF MarkBlocked, Ends, Goes, MovesAlone
  <2>2. GateMoves(h)
    BY <1>b, <1>c, <1>e, <1>19 DEF MarkBlocked, Ends, Goes, GateMoves, Holding, Provisioned
  <2>3. TicketMoves(h)
    BY <1>0, <1>b, <1>c, <1>19 DEF MarkBlocked, Ends, Goes, TicketMoves, OneMayDrive, Driving, Claiming
  <2>4. WorkMoves(h)
    BY <1>b, <1>c, <1>f, <1>g, <1>19 DEF MarkBlocked, Ends, Goes, WorkMoves, BetweenTurns, Drained, Driving, Netting
  <2>5. Targeted(h)
    BY <1>0, <1>c, <1>19 DEF MarkBlocked, Ends, Goes, Targeted, StopsHaveTargets
  <2> QED BY <2>1, <2>2, <2>3, <2>4, <2>5 DEF Moves
<1>20. ASSUME NEW h \in Handlers, ResolveDrains(h) PROVE Moves(h)
  <2>1. MovesAlone(h)
    BY <1>b, <1>c, <1>20 DEF ResolveDrains, Ends, Goes, Drains, MovesAlone
  <2>2. GateMoves(h)
    BY <1>b, <1>c, <1>e, <1>20 DEF ResolveDrains, Ends, Goes, Drains, GateMoves, Holding, Provisioned
  <2>3. TicketMoves(h)
    BY <1>0, <1>b, <1>c, <1>20 DEF ResolveDrains, Ends, Goes, Drains, TicketMoves, OneMayDrive, Driving, Claiming
  <2>4. WorkMoves(h)
    BY <1>b, <1>c, <1>f, <1>g, <1>20 DEF ResolveDrains, Ends, Goes, Drains, WorkMoves, BetweenTurns, Drained, Driving, Netting
  <2>5. Targeted(h)
    BY <1>0, <1>c, <1>20 DEF ResolveDrains, Ends, Goes, Drains, Targeted, StopsHaveTargets
  <2> QED BY <2>1, <2>2, <2>3, <2>4, <2>5 DEF Moves
<1>21. ASSUME NEW h \in Handlers, ResolveSettles(h) PROVE Moves(h)
  <2>1. MovesAlone(h)
    BY <1>b, <1>c, <1>21 DEF ResolveSettles, Ends, Goes, MovesAlone
  <2>2. GateMoves(h)
    BY <1>b, <1>c, <1>e, <1>21 DEF ResolveSettles, Ends, Goes, GateMoves, Holding, Provisioned
  <2>3. TicketMoves(h)
    BY <1>0, <1>b, <1>c, <1>21 DEF ResolveSettles, Ends, Goes, TicketMoves, OneMayDrive, Driving, Claiming
  <2>4. WorkMoves(h)
    BY <1>b, <1>c, <1>f, <1>g, <1>21 DEF ResolveSettles, Ends, Goes, WorkMoves, BetweenTurns, Drained, Driving, Netting
  <2>5. Targeted(h)
    BY <1>0, <1>c, <1>21 DEF ResolveSettles, Ends, Goes, Targeted, StopsHaveTargets
  <2> QED BY <2>1, <2>2, <2>3, <2>4, <2>5 DEF Moves
<1>22. ASSUME NEW h \in Handlers, ResumeProbes(h) PROVE Moves(h)
  <2>1. MovesAlone(h)
    BY <1>b, <1>c, <1>22 DEF ResumeProbes, Ends, Goes, Claims, MovesAlone
  <2>2. GateMoves(h)
    BY <1>b, <1>c, <1>e, <1>22 DEF ResumeProbes, Ends, Goes, Claims, GateMoves, Holding, Provisioned
  <2>3. TicketMoves(h)
    BY <1>0, <1>b, <1>c, <1>22 DEF ResumeProbes, Ends, Goes, Claims, TicketMoves, OneMayDrive, Driving, Claiming
  <2>4. WorkMoves(h)
    BY <1>b, <1>c, <1>f, <1>g, <1>22 DEF ResumeProbes, Ends, Goes, Claims, WorkMoves, BetweenTurns, Drained, Driving, Netting
  <2>5. Targeted(h)
    BY <1>0, <1>c, <1>22 DEF ResumeProbes, Ends, Goes, Claims, Targeted, StopsHaveTargets
  <2> QED BY <2>1, <2>2, <2>3, <2>4, <2>5 DEF Moves
<1>23. ASSUME NEW h \in Handlers, ReopenProvisions(h) PROVE Moves(h)
  <2>1. MovesAlone(h)
    BY <1>b, <1>c, <1>23 DEF ReopenProvisions, Ends, Goes, MovesAlone
  <2>2. GateMoves(h)
    BY <1>b, <1>c, <1>e, <1>23 DEF ReopenProvisions, Ends, Goes, GateMoves, Holding, Provisioned
  <2>3. TicketMoves(h)
    BY <1>0, <1>b, <1>c, <1>23 DEF ReopenProvisions, Ends, Goes, TicketMoves, OneMayDrive, Driving, Claiming
  <2>4. WorkMoves(h)
    BY <1>b, <1>c, <1>f, <1>g, <1>23 DEF ReopenProvisions, Ends, Goes, WorkMoves, BetweenTurns, Drained, Driving, Netting
  <2>5. Targeted(h)
    BY <1>0, <1>c, <1>23 DEF ReopenProvisions, Ends, Goes, Targeted, StopsHaveTargets
  <2> QED BY <2>1, <2>2, <2>3, <2>4, <2>5 DEF Moves
<1>23c. ASSUME NEW h \in Handlers, ReopenClaims(h) PROVE Moves(h)
  <2>1. MovesAlone(h)
    BY <1>b, <1>c, <1>23c DEF ReopenClaims, Claims, Goes, MovesAlone
  <2>2. GateMoves(h)
    <3>1. HasGate(h) /\ restore.status \in Reopenable
      BY <1>b, <1>e, <1>23c DEF ReopenClaims, Holding, Provisioned, RunsInv, ReopensGoBack
    <3> QED BY <1>23c, <3>1 DEF ReopenClaims, GateMoves
  <2>3. TicketMoves(h)
    BY <1>0, <1>b, <1>c, <1>23c DEF ReopenClaims, Claims, Goes, TicketMoves, OneMayDrive, Driving, Claiming
  <2>4. WorkMoves(h)
    BY <1>b, <1>c, <1>f, <1>g, <1>23c DEF ReopenClaims, Claims, Goes, WorkMoves, BetweenTurns, Drained, Driving, Netting
  <2>5. Targeted(h)
    BY <1>0, <1>b, <1>c, <1>23c DEF ReopenClaims, Claims, Goes, Targeted, StopsHaveTargets
  <2> QED BY <2>1, <2>2, <2>3, <2>4, <2>5 DEF Moves
<1>23r. ASSUME NEW h \in Handlers, RollBackReopenProvision(h) PROVE Moves(h)
  <2>1. MovesAlone(h)
    BY <1>b, <1>c, <1>23r DEF RollBackReopenProvision, Ends, Goes, MovesAlone
  <2>2. GateMoves(h)
    BY <1>b, <1>c, <1>e, <1>23r DEF RollBackReopenProvision, Ends, Goes, GateMoves, Holding, Provisioned
  <2>3. TicketMoves(h)
    BY <1>0, <1>b, <1>c, <1>23r DEF RollBackReopenProvision, Ends, Goes, TicketMoves, OneMayDrive, Driving, Claiming
  <2>4. WorkMoves(h)
    BY <1>b, <1>c, <1>f, <1>g, <1>23r DEF RollBackReopenProvision, Ends, Goes, WorkMoves, BetweenTurns, Drained, Driving, Netting
  <2>5. Targeted(h)
    BY <1>0, <1>b, <1>c, <1>23r DEF RollBackReopenProvision, Ends, Goes, Targeted, StopsHaveTargets
  <2> QED BY <2>1, <2>2, <2>3, <2>4, <2>5 DEF Moves
<1>24. ASSUME NEW h \in Handlers, SendStarts(h) PROVE Moves(h)
  <2>1. MovesAlone(h)
    BY <1>b, <1>c, <1>24 DEF SendStarts, Ends, Goes, MovesAlone
  <2>2. GateMoves(h)
    BY <1>b, <1>c, <1>e, <1>24 DEF SendStarts, Ends, Goes, GateMoves, Holding, Provisioned
  <2>3. TicketMoves(h)
    BY <1>0, <1>b, <1>c, <1>24 DEF SendStarts, Ends, Goes, TicketMoves, OneMayDrive, Driving, Claiming
  <2>4. WorkMoves(h)
    BY <1>b, <1>c, <1>f, <1>g, <1>24 DEF SendStarts, Ends, Goes, WorkMoves, BetweenTurns, Drained, Driving, Netting
  <2>5. Targeted(h)
    BY <1>0, <1>c, <1>24 DEF SendStarts, Ends, Goes, Targeted, StopsHaveTargets
  <2> QED BY <2>1, <2>2, <2>3, <2>4, <2>5 DEF Moves
<1>25. ASSUME NEW h \in Handlers, AskToStop(h) PROVE Moves(h)
  <2>1. MovesAlone(h)
    BY <1>b, <1>c, <1>25 DEF AskToStop, asks, Goes, MovesAlone
  <2>2. GateMoves(h)
    BY <1>b, <1>c, <1>e, <1>25 DEF AskToStop, asks, Goes, GateMoves, Holding, Provisioned
  <2>3. TicketMoves(h)
    BY <1>0, <1>b, <1>c, <1>25 DEF AskToStop, asks, Goes, TicketMoves, OneMayDrive, Driving, Claiming
  <2>4. WorkMoves(h)
    BY <1>b, <1>c, <1>f, <1>g, <1>25 DEF AskToStop, asks, Goes, WorkMoves, BetweenTurns, Drained, Driving, Netting
  <2>5. Targeted(h)
    BY <1>0, <1>c, <1>25 DEF AskToStop, asks, Goes, Targeted, StopsHaveTargets
  <2> QED BY <2>1, <2>2, <2>3, <2>4, <2>5 DEF Moves
<1>26. ASSUME NEW h \in Handlers, AskToMark(h) PROVE Moves(h)
  <2>1. MovesAlone(h)
    BY <1>b, <1>c, <1>26 DEF AskToMark, asks, Goes, MovesAlone
  <2>2. GateMoves(h)
    BY <1>b, <1>c, <1>e, <1>26 DEF AskToMark, asks, Goes, GateMoves, Holding, Provisioned
  <2>3. TicketMoves(h)
    BY <1>0, <1>b, <1>c, <1>26 DEF AskToMark, asks, Goes, TicketMoves, OneMayDrive, Driving, Claiming
  <2>4. WorkMoves(h)
    BY <1>b, <1>c, <1>f, <1>g, <1>26 DEF AskToMark, asks, Goes, WorkMoves, BetweenTurns, Drained, Driving, Netting
  <2>5. Targeted(h)
    BY <1>0, <1>c, <1>26 DEF AskToMark, asks, Goes, Targeted, StopsHaveTargets
  <2> QED BY <2>1, <2>2, <2>3, <2>4, <2>5 DEF Moves
<1>27. ASSUME NEW h \in Handlers, AskToResume(h) PROVE Moves(h)
  <2>1. MovesAlone(h)
    BY <1>b, <1>c, <1>27 DEF AskToResume, asks, Goes, MovesAlone
  <2>2. GateMoves(h)
    BY <1>b, <1>c, <1>e, <1>27 DEF AskToResume, asks, Goes, GateMoves, Holding, Provisioned
  <2>3. TicketMoves(h)
    BY <1>0, <1>b, <1>c, <1>27 DEF AskToResume, asks, Goes, TicketMoves, OneMayDrive, Driving, Claiming
  <2>4. WorkMoves(h)
    BY <1>b, <1>c, <1>f, <1>g, <1>27 DEF AskToResume, asks, Goes, WorkMoves, BetweenTurns, Drained, Driving, Netting
  <2>5. Targeted(h)
    BY <1>0, <1>c, <1>27 DEF AskToResume, asks, Goes, Targeted, StopsHaveTargets
  <2> QED BY <2>1, <2>2, <2>3, <2>4, <2>5 DEF Moves
<1>28. ASSUME NEW h \in Handlers, AskToResolve(h) PROVE Moves(h)
  <2>1. MovesAlone(h)
    BY <1>b, <1>c, <1>28 DEF AskToResolve, asks, Goes, MovesAlone
  <2>2. GateMoves(h)
    BY <1>b, <1>c, <1>e, <1>28 DEF AskToResolve, asks, Goes, GateMoves, Holding, Provisioned
  <2>3. TicketMoves(h)
    BY <1>0, <1>b, <1>c, <1>28 DEF AskToResolve, asks, Goes, TicketMoves, OneMayDrive, Driving, Claiming
  <2>4. WorkMoves(h)
    BY <1>b, <1>c, <1>f, <1>g, <1>28 DEF AskToResolve, asks, Goes, WorkMoves, BetweenTurns, Drained, Driving, Netting
  <2>5. Targeted(h)
    BY <1>0, <1>c, <1>28 DEF AskToResolve, asks, Goes, Targeted, StopsHaveTargets
  <2> QED BY <2>1, <2>2, <2>3, <2>4, <2>5 DEF Moves
<1>29. ASSUME NEW h \in Handlers, AskToReopen(h) PROVE Moves(h)
  <2>1. MovesAlone(h)
    BY <1>b, <1>c, <1>29 DEF AskToReopen, asks, Goes, MovesAlone
  <2>2. GateMoves(h)
    BY <1>b, <1>c, <1>e, <1>29 DEF AskToReopen, asks, Goes, GateMoves, Holding, Provisioned
  <2>3. TicketMoves(h)
    BY <1>0, <1>b, <1>c, <1>29 DEF AskToReopen, asks, Goes, TicketMoves, OneMayDrive, Driving, Claiming
  <2>4. WorkMoves(h)
    BY <1>b, <1>c, <1>f, <1>g, <1>29 DEF AskToReopen, asks, Goes, WorkMoves, BetweenTurns, Drained, Driving, Netting
  <2>5. Targeted(h)
    BY <1>0, <1>c, <1>29 DEF AskToReopen, asks, Goes, Targeted, StopsHaveTargets
  <2> QED BY <2>1, <2>2, <2>3, <2>4, <2>5 DEF Moves
<1>30. ASSUME NEW h \in Handlers, AskToSend(h) PROVE Moves(h)
  <2>1. MovesAlone(h)
    BY <1>b, <1>c, <1>30 DEF AskToSend, asks, Goes, MovesAlone
  <2>2. GateMoves(h)
    BY <1>b, <1>c, <1>e, <1>30 DEF AskToSend, asks, Goes, GateMoves, Holding, Provisioned
  <2>3. TicketMoves(h)
    BY <1>0, <1>b, <1>c, <1>30 DEF AskToSend, asks, Goes, TicketMoves, OneMayDrive, Driving, Claiming
  <2>4. WorkMoves(h)
    <3>1. "driver" \notin working /\ OffLimits(run)
      BY <1>30 DEF AskToSend, RunsInv, HandedBackIsQuiet, OffLimits, Settled
    <3> QED BY <1>b, <1>c, <1>30, <3>1 DEF AskToSend, asks, Goes, WorkMoves, Drained, Driving, Netting
  <2>5. Targeted(h)
    BY <1>0, <1>c, <1>30 DEF AskToSend, asks, Goes, Targeted, StopsHaveTargets
  <2> QED BY <2>1, <2>2, <2>3, <2>4, <2>5 DEF Moves
<1>31. ASSUME NEW h \in Handlers, HangUp(h) PROVE Moves(h)
  <2>1. MovesAlone(h)
    BY <1>b, <1>c, <1>31 DEF HangUp, Ends, Goes, MovesAlone
  <2>2. GateMoves(h)
    BY <1>b, <1>c, <1>e, <1>31 DEF HangUp, Ends, Goes, GateMoves, Holding, Provisioned
  <2>3. TicketMoves(h)
    BY <1>0, <1>b, <1>c, <1>31 DEF HangUp, Ends, Goes, TicketMoves, OneMayDrive, Driving, Claiming
  <2>4. WorkMoves(h)
    BY <1>b, <1>c, <1>f, <1>g, <1>31 DEF HangUp, Ends, Goes, WorkMoves, BetweenTurns, Drained, Driving, Netting
  <2>5. Targeted(h)
    BY <1>0, <1>b, <1>c, <1>31 DEF HangUp, Ends, Goes, Targeted, StopsHaveTargets
  <2> QED BY <2>1, <2>2, <2>3, <2>4, <2>5 DEF Moves
<1>s. ASSUME NEW h \in Handlers, Spawns(h), HasGate(h), LetsGo,
             UNCHANGED <<working, outcome>>, op' = [op EXCEPT ![h] = None],
             pc[h] \in Claiming, ticket = h
      PROVE  \E d \in Drivers : MovesBySpawning(h, d)
  <2>1. run'.status = "Running"
    BY <1>s, RecordsAsked DEF Spawns, RunsInv, Types
  <2>2. PICK d \in Drivers : /\ pc[d] = "none" /\ ticket' = d
                             /\ pc' = [pc EXCEPT ![d] = "boundary", ![h] = "none"]
    BY <1>s DEF Spawns
  <2>3. /\ pc'[d] = "boundary" /\ pc'[h] = "none"
        /\ \A q \in Procs \ {h, d} : pc'[q] = pc[q]
    BY <1>a, <1>b, <1>c, <2>2
  <2>4. Spawned(d)
    BY <1>a, <1>b, <1>s, <2>1, <2>2, <2>3 DEF Spawned, Spawns, MaySpawn
  <2>5. \A q \in Handlers \ {h} : op'[q] = op[q]
    BY <1>c, <1>s
  <2> QED BY <1>s, <2>3, <2>4, <2>5 DEF MovesBySpawning
<1>32. ASSUME NEW h \in Handlers, ResumeSpawns(h)
       PROVE  Moves(h) \/ \E d \in Drivers : MovesBySpawning(h, d)
  <2>1. ticket = h /\ pc[h] = "resume"
    BY <1>0, <1>32 DEF ResumeSpawns, OneMayDrive, Claiming
  <2>2. CASE Spawns(h)
    BY <1>s, <1>32, <2>1, <2>2 DEF ResumeSpawns, Claiming
  <2>3. CASE Goes(h, "none") /\ ticket' = None
    <3>1. pc'[h] = "none"
      BY <1>b, <1>c, <2>3 DEF Goes
    <3>2. MovesAlone(h)
      BY <1>b, <1>c, <1>32, <2>3 DEF ResumeSpawns, MovesAlone, Goes
    <3>3. GateMoves(h)
      BY <1>32, <3>1 DEF ResumeSpawns, GateMoves, Holding, Provisioned
    <3>4. TicketMoves(h)
      BY <2>1, <2>3, <3>1 DEF TicketMoves, Driving, Claiming
    <3>5. WorkMoves(h) /\ Targeted(h)
      BY <1>b, <1>32, <2>1, <3>1 DEF ResumeSpawns, WorkMoves, Targeted, Drained, Driving, Netting
    <3> QED BY <3>2, <3>3, <3>4, <3>5 DEF Moves
  <2> QED BY <1>32, <2>2, <2>3 DEF ResumeSpawns
<1>33. ASSUME NEW h \in Handlers, ReopenSpawns(h)
       PROVE  Moves(h) \/ \E d \in Drivers : MovesBySpawning(h, d)
  <2>1. pc[h] = "claimed" /\ HasGate(h) /\ ticket = h /\ UNCHANGED <<working, outcome>>
        /\ restore.status \in Reopenable
    BY <1>0, <1>b, <1>e, <1>33
       DEF ReopenSpawns, OneMayDrive, Claiming, Holding, Provisioned, RunsInv, ReopensGoBack
  <2>2. CASE Spawns(h) /\ op' = [op EXCEPT ![h] = None] /\ LetsGo
    BY <1>s, <2>1, <2>2 DEF Claiming
  <2>3. CASE Goes(h, "rollback") /\ ticket' = None /\ UNCHANGED <<op, gateQ, restore>>
    <3>1. pc'[h] = "rollback"
      BY <1>b, <1>c, <2>3 DEF Goes
    <3>2. MovesAlone(h)
      BY <1>b, <1>c, <2>1, <2>3 DEF MovesAlone, Goes
    <3>3. GateMoves(h)
      BY <2>1, <2>3, <3>1 DEF GateMoves
    <3>4. TicketMoves(h)
      BY <2>1, <2>3, <3>1 DEF TicketMoves, Driving, Claiming
    <3>5. WorkMoves(h) /\ Targeted(h)
      BY <1>b, <2>1, <3>1 DEF WorkMoves, Targeted, Drained, Driving, Netting
    <3> QED BY <3>2, <3>3, <3>4, <3>5 DEF Moves
  <2> QED BY <1>33, <2>2, <2>3 DEF ReopenSpawns
<1>34. ASSUME NEW d \in Drivers, ParkOnQuestion(d) \/ Unpark(d) PROVE Still
  BY <1>34 DEF ParkOnQuestion, Unpark, drivesAlone, Still
<1>35. CASE TurnEnds \/ StrayBegins \/ AbandonTeamStop \/ RestoreResolvingAsBlocked \/ Save \/ UNCHANGED vars
  BY <1>35 DEF TurnEnds, StrayBegins, AbandonTeamStop, RestoreResolvingAsBlocked, Save, drivesAlone, vars, Still
<1> QED
  BY <1>a, <1>b, <1>1, <1>2, <1>3, <1>4, <1>5, <1>5s, <1>6, <1>7, <1>8, <1>9, <1>10, <1>11, <1>12, <1>13, <1>14, <1>15, <1>16, <1>17, <1>18, <1>19, <1>20, <1>21, <1>22, <1>23, <1>23c, <1>23r, <1>24, <1>25, <1>26, <1>27, <1>28, <1>29, <1>30, <1>31, <1>32, <1>33, <1>34, <1>35
     DEF Next, DriverStep, HandlerStep, OwnerStep

(* ---- The conjuncts of the invariant ------------------------------------------- *)

\* Two processes are never inside the gate at once, and a driver that moves has moved by
\* itself or was spawned.
LEMMA OneAtTheGate ==
    ASSUME NEW p, NEW q, HasGate(p), HasGate(q)
    PROVE  p = q
BY DEF HasGate

\* Who is inside the gate stays at its head until it lets go.
LEMMA HoldersHoldStep ==
    ASSUME RunsInv, [Next]_vars
    PROVE  gateQ' \in Seq(Procs) /\ HoldersHold'
<1>0. gateQ \in Seq(Procs) /\ HoldersHold
  BY DEF RunsInv, Types
<1>1. CASE Restart
  BY <1>1 DEF Restart, HoldersHold, Holding
<1>2. CASE Still
  BY <1>0, <1>2 DEF Still, HoldersHold, HasGate
<1>3. ASSUME NEW p \in Procs, Moves(p) PROVE gateQ' \in Seq(Procs) /\ HoldersHold'
  <2>1. gateQ' \in Seq(Procs)
    <3>1. CASE UNCHANGED gateQ
      BY <1>0, <3>1
    <3>2. CASE Queues(p)
      BY <1>0, <3>2 DEF Queues
    <3>3. CASE HasGate(p) /\ LetsGo
      BY <1>0, <3>3 DEF HasGate, LetsGo
    <3>4. CASE Leaves(p)
      BY <1>0, <3>1, <3>4, PlacesAreLeft DEF Leaves
    <3> QED BY <1>3, <3>1, <3>2, <3>3, <3>4 DEF Moves, GateMoves
  <2>2. ASSUME pc'[p] \in Holding PROVE HasGate(p)'
    <3>1. \/ UNCHANGED gateQ /\ HasGate(p)
          \/ Queues(p) /\ gateQ = <<>>
      BY <1>3, <2>2 DEF Moves, GateMoves
    <3>2. Queues(p) /\ gateQ = <<>> => HasGate(p)'
      BY <1>0, QueueSteps
    <3> QED BY <3>1, <3>2 DEF HasGate
  <2>3. ASSUME NEW q \in Procs, q # p, pc'[q] \in Holding PROVE HasGate(q)'
    <3>1. HasGate(q)
      BY <1>0, <1>3, <2>3 DEF Moves, MovesAlone, HoldersHold
    <3>2. UNCHANGED gateQ \/ Queues(p) \/ Leaves(p)
      BY <1>3, <2>3, <3>1, OneAtTheGate DEF Moves, GateMoves
    <3>3. UNCHANGED gateQ => HasGate(q)'
      BY <3>1 DEF HasGate
    <3>4. Queues(p) => HasGate(q)'
      BY <1>0, <3>1, QueueSteps
    <3>5. ASSUME Leaves(p) PROVE HasGate(q)'
      BY <1>0, <2>3, <3>1, <3>3, <3>5, PlacesAreLeft DEF Leaves, HasGate
    <3> QED BY <3>2, <3>3, <3>4, <3>5
  <2> QED BY <2>1, <2>2, <2>3 DEF HoldersHold
<1>4. ASSUME NEW h \in Handlers, NEW d \in Drivers, MovesBySpawning(h, d)
      PROVE  gateQ' \in Seq(Procs) /\ HoldersHold'
  <2>1. h \in Procs /\ d \in Procs
    BY DEF Procs
  <2>2. gateQ' \in Seq(Procs)
    BY <1>0, <1>4 DEF MovesBySpawning, HasGate, LetsGo
  <2>3. ASSUME NEW q \in Procs, pc'[q] \in Holding PROVE FALSE
    <3>1. q # h /\ q # d
      BY <1>4, <2>3 DEF MovesBySpawning, Spawned, Holding
    <3>2. HasGate(q) /\ HasGate(h)
      BY <1>0, <1>4, <2>3, <3>1 DEF MovesBySpawning, HoldersHold
    <3> QED BY <3>1, <3>2, OneAtTheGate
  <2> QED BY <2>2, <2>3 DEF HoldersHold
<1> QED BY <1>1, <1>2, <1>3, <1>4, StepsMove

\* Every variable keeps its type.
LEMMA TypesStep ==
    ASSUME RunsInv, [Next]_vars
    PROVE  Types'
BY SmallTypes, RunMoves, HoldersHoldStep DEF Types, Moved

\* A handler still knows what it was asked for.
LEMMA TargetsStep ==
    ASSUME RunsInv, [Next]_vars
    PROVE  StopsHaveTargets'
<1>0. StopsHaveTargets /\ op' \in [Handlers -> Kinds \cup {None}]
  BY SmallTypes DEF RunsInv
<1>p. \A h \in Handlers : h \in Procs /\ h \notin Drivers
  BY DEF Procs
<1>1. CASE Restart
  BY <1>0, <1>1, <1>p DEF Restart, StopsHaveTargets
<1>2. CASE Still
  BY <1>0, <1>2 DEF Still, StopsHaveTargets
<1>3. ASSUME NEW p \in Procs, Moves(p) PROVE StopsHaveTargets'
  <2> SUFFICES ASSUME NEW h \in Handlers PROVE Targeted(h)
    BY <1>0 DEF StopsHaveTargets, Targeted
  <2>1. CASE h = p
    BY <1>3, <2>1 DEF Moves
  <2>2. CASE h # p
    BY <1>0, <1>3, <1>p, <2>2 DEF Moves, MovesAlone, Targeted, StopsHaveTargets
  <2> QED BY <2>1, <2>2
<1>4. ASSUME NEW h \in Handlers, NEW d \in Drivers, MovesBySpawning(h, d)
      PROVE  StopsHaveTargets'
  <2> SUFFICES ASSUME NEW q \in Handlers PROVE Targeted(q)
    BY <1>0 DEF StopsHaveTargets, Targeted
  <2>1. CASE q = h
    BY <1>4, <2>1 DEF MovesBySpawning, Targeted
  <2>2. CASE q # h
    BY <1>0, <1>4, <1>p, <2>2 DEF MovesBySpawning, Targeted, StopsHaveTargets
  <2> QED BY <2>1, <2>2
<1> QED BY <1>1, <1>2, <1>3, <1>4, StepsMove

\* The right to drive stays with who drives.
LEMMA OneMayDriveStep ==
    ASSUME RunsInv, [Next]_vars
    PROVE  OneMayDrive'
<1>0. OneMayDrive
  BY DEF RunsInv
<1>p. /\ \A h \in Handlers : h \in Procs /\ h \notin Drivers /\ h # None
      /\ \A d \in Drivers : d \in Procs /\ d \notin Handlers /\ d # None
  BY DEF Procs
<1>1. CASE Restart
  BY <1>1, <1>p DEF Restart, OneMayDrive, Driving, Claiming
<1>2. CASE Still
  BY <1>0, <1>2 DEF Still, OneMayDrive
<1>3. ASSUME NEW p \in Procs, Moves(p) PROVE OneMayDrive'
  <2>1. TicketMoves(p) /\ MovesAlone(p)
    BY <1>3 DEF Moves
  <2>2. ASSUME NEW d \in Drivers PROVE pc'[d] \in Driving <=> ticket' = d
    BY <1>0, <1>p, <2>1 DEF OneMayDrive, TicketMoves, MovesAlone, Driving, Claiming
  <2>3. ASSUME NEW h \in Handlers PROVE pc'[h] \in Claiming <=> ticket' = h
    BY <1>0, <1>p, <2>1 DEF OneMayDrive, TicketMoves, MovesAlone, Driving, Claiming
  <2> QED BY <2>2, <2>3 DEF OneMayDrive
<1>4. ASSUME NEW h \in Handlers, NEW d \in Drivers, MovesBySpawning(h, d)
      PROVE  OneMayDrive'
  BY <1>0, <1>4, <1>p DEF MovesBySpawning, Spawned, OneMayDrive, Driving, Claiming
<1> QED BY <1>1, <1>2, <1>3, <1>4, StepsMove

\* A driver's turn starts only under the gate and on a task that is not settled; what a
\* drain has found quiet stays quiet while the gate is held.
LEMMA DrainedIsQuietStep ==
    ASSUME RunsInv, [Next]_vars
    PROVE  DrainedIsQuiet'
<1>0. DrainedIsQuiet /\ HoldersHold
  BY DEF RunsInv
<1>1. CASE Restart
  BY <1>1 DEF Restart, DrainedIsQuiet
<1>2. CASE Still
  BY <1>0, <1>2 DEF Still, DrainedIsQuiet
<1>3. ASSUME NEW p \in Procs, Moves(p) PROVE DrainedIsQuiet'
  <2> SUFFICES ASSUME NEW q \in Procs, pc'[q] \in Drained PROVE "driver" \notin working'
    BY DEF DrainedIsQuiet
  <2>1. CASE q = p
    BY <1>3, <2>1 DEF Moves, WorkMoves
  <2>2. CASE q # p
    <3>1. pc[q] \in Drained
      BY <1>3, <2>2 DEF Moves, MovesAlone
    <3>2. "driver" \notin working /\ HasGate(q)
      BY <1>0, <3>1 DEF DrainedIsQuiet, HoldersHold, Drained, Holding
    <3> QED BY <1>3, <2>2, <3>2, OneAtTheGate DEF Moves, WorkMoves
  <2> QED BY <2>1, <2>2
<1>4. ASSUME NEW h \in Handlers, NEW d \in Drivers, MovesBySpawning(h, d)
      PROVE  DrainedIsQuiet'
  BY <1>4 DEF MovesBySpawning, Spawned, DrainedIsQuiet
<1> QED BY <1>1, <1>2, <1>3, <1>4, StepsMove

\* Only the driver that drives begins turns, so one that is between turns has none, or its
\* task was settled under it.
LEMMA DriversAreQuietStep ==
    ASSUME RunsInv, [Next]_vars
    PROVE  DriversAreQuiet'
<1>0. DriversAreQuiet /\ OneMayDrive /\ Moved
  BY RunMoves DEF RunsInv
<1>1. CASE Restart
  BY <1>1 DEF Restart, DriversAreQuiet
<1> SUFFICES ASSUME NEW d \in Drivers, BetweenTurns(d)', ~OffLimits(run'), ~Restart
             PROVE  "driver" \notin working'
  BY <1>1 DEF DriversAreQuiet, OffLimits
<1>2. CASE \E e \in Drivers : Spawned(e)
  BY <1>2 DEF Spawned
<1>3. CASE ~ \E e \in Drivers : Spawned(e)
  <2>1. BetweenTurns(d) => "driver" \notin working
    BY <1>0, <1>3 DEF Moved, DriversAreQuiet
  <2>2. CASE Still
    BY <2>1, <2>2 DEF Still, BetweenTurns
  <2>3. ASSUME NEW p \in Procs, Moves(p) PROVE "driver" \notin working'
    <3>1. CASE p = d
      BY <2>1, <2>3, <3>1 DEF Moves, WorkMoves
    <3>2. CASE p # d
      <4>1. BetweenTurns(d)
        BY <2>3, <3>2 DEF Moves, MovesAlone, BetweenTurns, Procs
      <4>2. ~(p \in Drivers /\ pc[p] = "dispatch")
        BY <1>0, <3>2, <4>1 DEF OneMayDrive, BetweenTurns, Driving
      <4> QED BY <2>1, <2>3, <4>1, <4>2 DEF Moves, WorkMoves
    <3> QED BY <3>1, <3>2
  <2> QED BY <1>3, <2>2, <2>3, StepsMove DEF MovesBySpawning
<1> QED BY <1>2, <1>3

\* A message to the lead is worked on under a settled task, and ends before it is resumed.
LEMMA UsersWaitStep ==
    ASSUME RunsInv, [Next]_vars
    PROVE  UsersWaitForRest'
<1>0. UsersWaitForRest /\ HoldersHold /\ DrainedIsQuiet /\ Moved
  BY RunMoves DEF RunsInv
<1>p. \A h \in Handlers : h \in Procs /\ h \notin Drivers
  BY DEF Procs
<1>1. CASE Restart
  BY <1>1, <1>p DEF Restart, UsersWaitForRest
<1>2. CASE Still
  <2>1. ~ \E e \in Drivers : Spawned(e)
    BY <1>2 DEF Still, Spawned
  <2> QED BY <1>0, <1>2, <2>1 DEF Still, UsersWaitForRest, Moved
<1>3. ASSUME NEW p \in Procs, Moves(p) PROVE UsersWaitForRest'
  <2>1. ASSUME "user" \in working' PROVE OffLimits(run') /\ "driver" \notin working'
    <3>1. ~ \E e \in Drivers : Spawned(e)
      BY <2>1 DEF Spawned
    <3>2. CASE "user" \in working
      BY <1>0, <1>3, <3>1, <3>2 DEF UsersWaitForRest, Moved, Moves, WorkMoves
    <3>3. CASE p \in Handlers /\ pc[p] = "sending" /\ UNCHANGED run
      <4>1. OffLimits(run) /\ "driver" \notin working
        BY <1>0, <3>3 DEF UsersWaitForRest, DrainedIsQuiet, Drained
      <4> QED BY <1>3, <3>3, <4>1 DEF Moves, WorkMoves
    <3> QED BY <1>3, <2>1, <3>2, <3>3 DEF Moves, WorkMoves
  <2>2. ASSUME NEW h \in Handlers, pc'[h] = "sending" PROVE OffLimits(run')
    <3>1. CASE h = p
      BY <1>3, <2>2, <3>1 DEF Moves, WorkMoves
    <3>2. CASE h # p
      <4>1. pc[h] = "sending"
        BY <1>3, <1>p, <2>2, <3>2 DEF Moves, MovesAlone
      <4>2. ASSUME NEW e \in Drivers, Spawned(e) PROVE FALSE
        <5>1. e = p
          BY <1>3, <4>2 DEF Spawned, Moves, MovesAlone, Procs
        <5>2. ticket' = p /\ ticket # p /\ p \in Drivers
          BY <4>2, <5>1 DEF Spawned
        <5> QED BY <1>3, <1>p, <5>2 DEF Moves, TicketMoves
      <4> QED BY <1>0, <4>1, <4>2 DEF UsersWaitForRest, Moved
    <3> QED BY <3>1, <3>2
  <2> QED BY <2>1, <2>2 DEF UsersWaitForRest
<1>4. ASSUME NEW h \in Handlers, NEW d \in Drivers, MovesBySpawning(h, d)
      PROVE  UsersWaitForRest'
  <2>1. "user" \notin working'
    BY <1>4 DEF MovesBySpawning, Spawned
  <2>2. ASSUME NEW q \in Handlers, pc'[q] = "sending" PROVE FALSE
    <3>1. q # h /\ q # d
      BY <1>4, <2>2 DEF MovesBySpawning, Spawned
    <3>2. HasGate(q) /\ HasGate(h)
      BY <1>0, <1>4, <1>p, <2>2, <3>1 DEF MovesBySpawning, HoldersHold, Holding
    <3> QED BY <3>1, <3>2, OneAtTheGate
  <2> QED BY <2>1, <2>2 DEF UsersWaitForRest
<1> QED BY <1>1, <1>2, <1>3, <1>4, StepsMove

\* The record a reopen goes back to is written by itself alone, under the gate.
LEMMA ReopensGoBackStep ==
    ASSUME RunsInv, [Next]_vars
    PROVE  ReopensGoBack'
<1>0. ReopensGoBack /\ HoldersHold
  BY DEF RunsInv
<1>p. \A h \in Handlers : h \in Procs /\ h \notin Drivers
  BY DEF Procs
<1>1. CASE Restart
  BY <1>1, <1>p DEF Restart, ReopensGoBack, Provisioned
<1>2. CASE Still
  BY <1>0, <1>2 DEF Still, ReopensGoBack
<1>3. ASSUME NEW p \in Procs, Moves(p) PROVE ReopensGoBack'
  <2> SUFFICES ASSUME NEW h \in Handlers, pc'[h] \in Provisioned
               PROVE  restore'.status \in Reopenable
    BY DEF ReopensGoBack
  <2>1. CASE h = p
    BY <1>3, <2>1 DEF Moves, GateMoves
  <2>2. CASE h # p
    <3>1. pc[h] \in Provisioned /\ HasGate(h)
      BY <1>0, <1>3, <1>p, <2>2 DEF Moves, MovesAlone, HoldersHold, Holding, Provisioned
    <3>2. UNCHANGED restore
      BY <1>3, <2>2, <3>1, OneAtTheGate DEF Moves, GateMoves
    <3> QED BY <1>0, <3>1, <3>2 DEF ReopensGoBack
  <2> QED BY <2>1, <2>2
<1>4. ASSUME NEW h \in Handlers, NEW d \in Drivers, MovesBySpawning(h, d)
      PROVE  ReopensGoBack'
  <2>1. ASSUME NEW q \in Handlers, pc'[q] \in Provisioned PROVE FALSE
    <3>1. q # h /\ q # d
      BY <1>4, <2>1 DEF MovesBySpawning, Spawned, Provisioned
    <3>2. HasGate(q) /\ HasGate(h)
      BY <1>0, <1>4, <1>p, <2>1, <3>1 DEF MovesBySpawning, HoldersHold, Holding, Provisioned
    <3> QED BY <3>1, <3>2, OneAtTheGate
  <2> QED BY <2>1 DEF ReopensGoBack
<1> QED BY <1>1, <1>2, <1>3, <1>4, StepsMove

\* A workspace is handed back when it is quiet, and a turn starts on no workspace that is.
LEMMA HandedBackStep ==
    ASSUME RunsInv, [Next]_vars
    PROVE  HandedBackIsQuiet'
<1>0. HandedBackIsQuiet /\ Moved
  BY RunMoves DEF RunsInv
<1> SUFFICES ASSUME Handed(run'), "driver" \in working' PROVE FALSE
  BY DEF HandedBackIsQuiet, Handed
<1>1. Handed(run) /\ OffLimits(run)
  BY <1>0, ActiveOrOffLimits DEF Moved, RunsInv, Types
<1>2. "driver" \notin working
  BY <1>0, <1>1 DEF HandedBackIsQuiet, Handed
<1>3. CASE Restart
  BY <1>3 DEF Restart
<1>4. CASE Still
  BY <1>2, <1>4 DEF Still
<1>5. ASSUME NEW p \in Procs, Moves(p) PROVE FALSE
  BY <1>1, <1>2, <1>5 DEF Moves, WorkMoves
<1>6. ASSUME NEW h \in Handlers, NEW d \in Drivers, MovesBySpawning(h, d) PROVE FALSE
  BY <1>6 DEF MovesBySpawning, Spawned
<1> QED BY <1>3, <1>4, <1>5, <1>6, StepsMove

\* A driver, or its net, leaves the task alone only once it is settled.
LEMMA NeverDriverlessStep ==
    ASSUME RunsInv, [Next]_vars
    PROVE  NeverDriverless'
<1>0. NeverDriverless /\ Moved /\ run \in Record
  BY RunMoves DEF RunsInv, Types
<1> SUFFICES ASSUME run'.status \in Active
             PROVE  \E d \in Drivers : pc'[d] \in Driving \cup Netting
  BY DEF NeverDriverless
<1>1. ~OffLimits(run')
  BY <1>0, ActiveOrOffLimits DEF Moved
<1>2. CASE \E d \in Drivers : Spawned(d)
  BY <1>2 DEF Spawned, Driving
<1>3. CASE ~ \E d \in Drivers : Spawned(d)
  <2>1. PICK d \in Drivers : pc[d] \in Driving \cup Netting
    BY <1>0, <1>1, <1>3, ActiveOrOffLimits DEF Moved, NeverDriverless
  <2>2. CASE Restart
    <3>1. OffLimits(run')
      BY <2>2, RecordsSettled DEF Restart, RunsInv, Types
    <3> QED BY <1>1, <3>1
  <2>3. CASE Still
    BY <2>1, <2>3 DEF Still
  <2>4. ASSUME NEW p \in Procs, Moves(p) PROVE pc'[d] \in Driving \cup Netting
    BY <1>1, <2>1, <2>4 DEF Moves, MovesAlone, WorkMoves, Procs
  <2> QED BY <1>3, <2>1, <2>2, <2>3, <2>4, StepsMove DEF MovesBySpawning
<1> QED BY <1>2, <1>3

(* ---- Theorems ------------------------------------------------------------------ *)

\* The invariant holds when the relay has just taken the task up.
LEMMA RunsInvInit ==
    Init => RunsInv
<1> SUFFICES ASSUME Init PROVE RunsInv
  OBVIOUS
<1>1. PICK d \in Drivers : /\ pc = [p \in Procs |-> IF p = d THEN "boundary" ELSE "none"]
                           /\ ticket = d
  BY DEF Init
<1>2. NewRun \in Record /\ NewRun.status = "Queued" /\ run = NewRun /\ working = {} /\ gateQ = <<>>
  BY DEF NewRun, Record, Statuses, Active, Init
<1>3. /\ \A p \in Procs : pc[p] \in {"boundary", "none"}
      /\ \A q \in Drivers : q \in Procs /\ q \notin Handlers /\ (pc[q] = "boundary" <=> q = d)
      /\ \A h \in Handlers : h \in Procs /\ h \notin Drivers /\ pc[h] = "none"
  BY <1>1 DEF Procs
<1>4. Types
  <2>1. pc \in [Procs -> Places] /\ ticket \in Procs
    BY <1>1 DEF Places, Driving, Procs
  <2>2. /\ outcome \in [Drivers -> Outcomes] /\ abandons \in Nat /\ restores \in Nat
        /\ late \in BOOLEAN
    BY DEF Init, Outcomes
  <2> QED BY <1>2, <2>1, <2>2 DEF Init, Types
<1>5. StopsHaveTargets
  BY <1>3 DEF Init, StopsHaveTargets
<1>6. HoldersHold /\ DrainedIsQuiet /\ ReopensGoBack
  BY <1>2, <1>3 DEF HoldersHold, Holding, DrainedIsQuiet, ReopensGoBack, Provisioned
<1>7. OneMayDrive
  BY <1>1, <1>3 DEF OneMayDrive, Driving, Claiming
<1>8. HandedBackIsQuiet /\ DriversAreQuiet /\ UsersWaitForRest
  BY <1>2, <1>3 DEF HandedBackIsQuiet, DriversAreQuiet, UsersWaitForRest
<1>9. NeverDriverless
  BY <1>3 DEF NeverDriverless, Driving
<1> QED BY <1>4, <1>5, <1>6, <1>7, <1>8, <1>9 DEF RunsInv

\* No step of the task, of its owner or of the relay breaks the invariant.
THEOREM RunsAreInvariant == Spec => []RunsInv
<1>1. ASSUME RunsInv, [Next]_vars PROVE RunsInv'
  BY <1>1, TypesStep, TargetsStep, HoldersHoldStep, OneMayDriveStep, HandedBackStep,
     DrainedIsQuietStep, DriversAreQuietStep, UsersWaitStep, ReopensGoBackStep,
     NeverDriverlessStep DEF RunsInv
<1> QED BY <1>1, RunsInvInit, PTL DEF Spec

\* The right to drive is held by the driver that drives or by the resume or the
\* reopen about to spawn one, and by nobody who is gone: it never leaks, and no second driver is ever spawned.
THEOREM RightToDriveNeverLeaks == Spec => []TicketIsOwned
<1>1. RunsInv => TicketIsOwned
  BY DEF RunsInv, Types, OneMayDrive, Claiming, TicketIsOwned, TypeOK, Record
<1> QED BY <1>1, RunsAreInvariant, PTL

\* Whatever interrupts a stop, a recovery or a driver, a task that is reported paused or
\* finished has no turn of its driver still writing in the workspace it hands back.
THEOREM WorkspaceIsHandedBackQuiet == Spec => []HandedBackIsQuiet
<1>1. RunsInv => HandedBackIsQuiet
  BY DEF RunsInv
<1> QED BY <1>1, RunsAreInvariant, PTL

\* However drivers are lost, a task in a status only a driver moves has one, or the net of
\* a lost driver has yet to look at it.
THEOREM ActiveTasksAreDriven == Spec => []NeverDriverless
<1>1. RunsInv => NeverDriverless
  BY DEF RunsInv
<1> QED BY <1>1, RunsAreInvariant, PTL

\* A message of the owner to the lead that the provider said it has started, and a turn of
\* the driver, are never worked on together.
THEOREM OneWritesAtATime == Spec => []OneWriter
<1>1. RunsInv => OneWriter
  BY DEF RunsInv, UsersWaitForRest, OneWriter
<1> QED BY <1>1, RunsAreInvariant, PTL
=============================================================================
