---------------------------- MODULE TeamCommands ----------------------------
(***************************************************************************)
(* The one seam a task's driver may write through: commands that carry an  *)
(* id, a sequence number and the revision they were decided on.  They are  *)
(* delivered late, twice or out of order, while the owner pauses, resumes, *)
(* leaves notes and sends sub-tasks back to work, and the relay restarts.  *)
(*                                                                         *)
(* The prose a command carries is left out; of the plan, whether a         *)
(* sub-task waits for work is kept, and of the phases, which of them close *)
(* the task.  A fingerprint stands for the envelope it was made from.      *)
(***************************************************************************)
EXTENDS TeamRecord, Naturals, Sequences, FiniteSets

CONSTANTS Ids,          \* ids a driver gives its commands
          Kinds,        \* the kinds of command a driver makes use of
          Notes,        \* notes the owner may leave
          MaxSeq,       \* bound: sequence numbers
          MaxRev,       \* the largest value a counter can hold
          MaxJournal,   \* records kept of past commands
          MaxNotes,     \* notes one command may drain
          MaxTasks,     \* bound: sub-tasks
          MaxSent,      \* bound: commands decided on
          MaxActs,      \* bound: things the owner or the host does
          MaxRestarts   \* bound: restarts of the relay

ASSUME CommandBounds ==
    /\ {MaxSeq, MaxRev, MaxJournal, MaxNotes, MaxTasks, MaxSent, MaxActs, MaxRestarts} \subseteq Nat
    /\ MaxJournal > 0

VARIABLES run,        \* the record, with what is remembered of its history
          sent,       \* commands decided on, which may arrive at any time and again
          admitted,   \* submissions between the two locks they take
          tool,       \* an owner's call that has chosen its task and not acted yet
          receipt,    \* the answer given last
          spent       \* how much of every bound is used up

vars == <<run, sent, admitted, tool, receipt, spent>>

Closing  == {"MrGate", "Finished"}
Phases   == {"Planning", "SubTasks"} \cup Closing
Over     == {"Done", "Escalated", "Superseded"}
TaskStatuses == {"Pending"} \cup Over

AllCommands ==
    {[kind |-> "SetPhase", to |-> "MrGate"], [kind |-> "FinishRun", to |-> "Finished"]}
      \cup [kind : {"RecordReviewRound"}, at : 1..MaxTasks, status : {"Done"}]
      \cup [kind : {"MarkSubTaskDigested"}, at : 1..MaxTasks, to : {"MrGate"}]
      \cup [kind : {"SettleRun"}, to : {"Paused", "Done"}]
      \cup [kind : {"ReplanSubTasks", "TakeUserNotes", "FailRun", "BlockRun"}]

Commands == {c \in AllCommands : c.kind \in Kinds}

Lifecycle == {"SettleRun", "FailRun", "BlockRun"}

NoReceipt == [status |-> "none"]

\* log, left and acts are not kept by the program: what took effect and what it drained,
\* the notes ever left, and how often decisions became void.
TaskAt(phase, tasks) ==
    [status |-> "Running", pauseRequested |-> FALSE, stopping |-> FALSE,
     awaiting |-> FALSE, inFlight |-> FALSE,
     rev |-> 0, lastSeq |-> 0, journal |-> <<>>, notes |-> {}, drained |-> {},
     phase |-> phase, tasks |-> tasks,
     log |-> <<>>, left |-> {}, acts |-> 0]

\* A new task, or one saved by a relay that kept no journal yet.
Init ==
    /\ run \in {TaskAt("Planning", <<>>),
                TaskAt("MrGate", <<[status |-> "Escalated", digested |-> TRUE]>>)}
    /\ sent = {} /\ admitted = {} /\ tool = "none" /\ receipt = NoReceipt
    /\ spent = [sent |-> 0, acts |-> 0, restarts |-> 0]

Spend(what, max) == spent[what] < max /\ spent' = [spent EXCEPT ![what] = @ + 1]

(***************************************************************************)
(* The journal                                                             *)
(***************************************************************************)

Recorded(r, id) == {i \in 1..Len(r.journal) : r.journal[i].id = id}

Without(s, i) == SubSeq(s, 1, i - 1) \o SubSeq(s, i + 1, Len(s))

\* Variant: the oldest record makes room, and what it drained is kept.
EvictedKeepingNotes(r) ==
    IF Len(r.journal) <= MaxJournal THEN r ELSE [r EXCEPT !.journal = Tail(@)]

\* The first record below the watermark makes room, and the notes it drained go with it.
Evicted(r) ==
    LET old == {i \in 1..Len(r.journal) : r.journal[i].env.seq < r.lastSeq}
    IN  IF Len(r.journal) <= MaxJournal \/ old = {} THEN r
        ELSE LET i == CHOOSE i \in old : \A j \in old : i <= j
             IN  [r EXCEPT !.journal = Without(@, i),
                           !.drained = {d \in @ : d.id # r.journal[i].id
                                                    \/ r.journal[i].env.cmd.kind # "TakeUserNotes"}]

\* The one place a record is written: its number is used up whatever the outcome.
Pushed(r, e, outcome) ==
    Evicted([r EXCEPT !.lastSeq = IF e.seq > @ THEN e.seq ELSE @,
                      !.journal = Append(@, [id |-> e.id, env |-> e, outcome |-> outcome])])

\* Variant: a record says how its command ended, and no more.
ReplayedBare(r, rec) == [status |-> rec.outcome, notes |-> {}]

\* What a record says when its command is delivered again.
Replayed(r, rec) ==
    IF rec.outcome = "applied" /\ rec.env.cmd.kind = "TakeUserNotes"
      THEN IF \E d \in r.drained : d.id = rec.id
             THEN [status |-> "applied",
                   notes |-> (CHOOSE d \in r.drained : d.id = rec.id).notes]
             ELSE [status |-> "stale", notes |-> {}]
      ELSE [status |-> rec.outcome, notes |-> {}]

\* Who the command is, asked before anything else: the answer it already had, or that
\* its id is another command's.
Known(r, e) == Recorded(r, e.id) # {}

PreflightAnswer(r, e) ==
    LET rec == r.journal[CHOOSE i \in Recorded(r, e.id) : TRUE]
    IN  IF rec.env = e THEN Replayed(r, rec) ELSE [status |-> "duplicate", notes |-> {}]

Answers(e, a) == receipt' = [env |-> e, status |-> a.status, notes |-> a.notes]

(***************************************************************************)
(* What a command does                                                     *)
(***************************************************************************)

Waiting(t) == t.status \notin Over \/ ~t.digested
SomeWaits(r) == \E i \in 1..Len(r.tasks) : Waiting(r.tasks[i])

\* Variant: what the driver decided about the phase stands.
HeldAsDecided(r) == r

\* A phase that closes the task is not entered while a sub-task waits.
HoldPhaseForWaitingSubTasks(r) ==
    IF r.phase \in Closing /\ SomeWaits(r)
      THEN [r EXCEPT !.phase = "SubTasks"] ELSE r

\* What never finished is retired, not dropped.
Replan(r) ==
    [r EXCEPT !.phase = "SubTasks",
              !.tasks = Append([i \in 1..Len(@) |->
                                  IF @[i].status \in Over THEN @[i]
                                  ELSE [status |-> "Superseded", digested |-> TRUE]],
                               [status |-> "Pending", digested |-> FALSE])]

\* Variant: the notes stay until they are known to have arrived.
DrainedLater(r) == r

Drained(r) == [r EXCEPT !.notes = {}]

Effects(r, c) ==
    CASE c.kind \in {"SetPhase", "FinishRun"} -> [r EXCEPT !.phase = c.to]
      [] c.kind = "ReplanSubTasks"      -> Replan(r)
      [] c.kind = "RecordReviewRound"   -> [r EXCEPT !.tasks[c.at].status = c.status]
      [] c.kind = "MarkSubTaskDigested" -> [r EXCEPT !.tasks[c.at].digested = TRUE, !.phase = c.to]
      [] c.kind = "TakeUserNotes"       -> Drained(r)
      [] c.kind = "FailRun"             -> Fail(r)
      [] c.kind = "BlockRun"            -> Block(r)
      [] c.kind = "SettleRun" /\ c.to = "Paused" ->
           IF OffLimits(r) THEN r ELSE [SettlePaused(r) EXCEPT !.rev = @ + 1]
      [] c.kind = "SettleRun" /\ c.to = "Done"   -> ForceMark(r, "Done")

\* A command that names a sub-task there is not, or drains more notes than it may carry.
Malformed(r, c) ==
    \/ c.kind \in {"RecordReviewRound", "MarkSubTaskDigested"} /\ c.at > Len(r.tasks)
    \/ c.kind = "TakeUserNotes" /\ Cardinality(r.notes) > MaxNotes

\* Two counters move with every command, and its successor needs a number.  The count of
\* events never exceeds the revision, so that one is left out.
NoHeadroom(r, e) == r.rev >= MaxRev \/ e.seq >= MaxRev

\* A task that is settled, or is about to be, is not worked on.
RefusesWork(r) == OffLimits(r) \/ r.pauseRequested \/ r.stopping

\* Variant: a revision is only compared while the task is being stopped.
IsStaleWhileStopping(r, e) == r.stopping /\ e.expected # r.rev

\* The task changed since the command was decided on.
IsStale(r, e) == e.expected # r.rev

Rejects(e, reason) ==
    /\ run' = Pushed(run, e, reason)
    /\ Answers(e, [status |-> reason, notes |-> {}])

\* The reducer, under the write lock.  The host may have turned a settlement into a
\* block in between; identity and order stay those of the command that was sent.
ApplyTeamCommand(a) ==
    LET e == a.env
        c == IF a.blocked THEN [kind |-> "BlockRun"] ELSE e.cmd
        taken == IF c.kind = "TakeUserNotes" THEN run.notes ELSE {}
    IN  /\ a \in admitted /\ admitted' = admitted \ {a}
        /\ \/ /\ Known(run, e)
              /\ Answers(e, PreflightAnswer(run, e)) /\ UNCHANGED run
           \/ /\ ~Known(run, e) /\ e.seq <= run.lastSeq
              /\ Answers(e, [status |-> "stale", notes |-> {}]) /\ UNCHANGED run
           \/ /\ ~Known(run, e) /\ e.seq > run.lastSeq
              /\ Malformed(run, c) \/ Malformed(run, e.cmd) \/ NoHeadroom(run, e)
              /\ Rejects(e, "invalid")
           \/ /\ ~Known(run, e) /\ e.seq > run.lastSeq
              /\ ~Malformed(run, c) /\ ~Malformed(run, e.cmd) /\ ~NoHeadroom(run, e)
              /\ IsStale(run, e)
              /\ Rejects(e, "stale")
           \/ /\ ~Known(run, e) /\ e.seq > run.lastSeq
              /\ ~Malformed(run, c) /\ ~Malformed(run, e.cmd) /\ ~NoHeadroom(run, e)
              /\ ~IsStale(run, e) /\ e.cmd.kind \notin Lifecycle /\ RefusesWork(run)
              /\ Rejects(e, "invalid")
           \/ /\ ~Known(run, e) /\ e.seq > run.lastSeq
              /\ ~Malformed(run, c) /\ ~Malformed(run, e.cmd) /\ ~NoHeadroom(run, e)
              /\ ~IsStale(run, e) /\ (e.cmd.kind \in Lifecycle \/ ~RefusesWork(run))
              /\ LET done == HoldPhaseForWaitingSubTasks(Effects(run, c))
                     kept == IF c.kind = "TakeUserNotes"
                               THEN done.drained \cup {[id |-> e.id, notes |-> taken]} ELSE done.drained
                 IN  run' = Pushed([done EXCEPT !.rev = @ + 1, !.drained = kept,
                                      !.log = Append(@, [env |-> e, notes |-> taken])], e, "applied")
              /\ Answers(e, [status |-> "applied", notes |-> taken])
        /\ UNCHANGED <<sent, tool, spent>>

(***************************************************************************)
(* Drivers and deliveries                                                  *)
(***************************************************************************)

\* One that is known is answered on the spot, and any other waits for the write lock.  A
\* settlement is turned into a block when a turn is found to be under way.
Submits(e) ==
    \/ /\ Known(run, e)
       /\ Answers(e, PreflightAnswer(run, e)) /\ UNCHANGED admitted
    \/ /\ ~Known(run, e)
       /\ \E blocked \in BOOLEAN :
            /\ blocked => e.cmd.kind = "SettleRun"
            /\ admitted' = admitted \cup {[env |-> e, blocked |-> blocked]}
       /\ receipt' = NoReceipt

\* A driver that finds its task unsettled decides on something and submits it.  Numbers
\* go up, and may be skipped.
Decide ==
    /\ ~OffLimits(run) /\ Spend("sent", MaxSent)
    /\ \E id \in Ids, c \in Commands, n \in {run.lastSeq + 1, run.lastSeq + 2} :
         /\ n <= MaxSeq
         /\ c.kind = "ReplanSubTasks" => Len(run.tasks) < MaxTasks
         /\ LET e == [id |-> id, seq |-> n, expected |-> run.rev, cmd |-> c, acts |-> run.acts]
            IN  sent' = sent \cup {e} /\ Submits(e)
    /\ UNCHANGED <<run, tool>>

\* The same command is submitted again.
Redeliver(e) ==
    /\ e \in sent /\ Submits(e)
    /\ UNCHANGED <<run, sent, tool, spent>>

(***************************************************************************)
(* The owner and the host                                                  *)
(***************************************************************************)

\* Whatever a driver decided before is void.  The counter stays at its end.
Invalidated(r) == [r EXCEPT !.rev = IF @ < MaxRev THEN @ + 1 ELSE @, !.acts = @ + 1]

Writes(r) == run' = r /\ receipt' = NoReceipt /\ UNCHANGED <<sent, admitted>>
Acts(r)   == Writes(r) /\ Spend("acts", MaxActs)

\* A pause that is asked for does the same, without the marker and with one step of the
\* counter.
AskToStop ==
    /\ ~OffLimits(run) /\ Acts(Invalidated(Invalidated(RequestStop(run))))
    /\ UNCHANGED tool

\* The host settles a pause, or ends the task, when every turn is known to have stopped.
HostSettles ==
    /\ \/ ~OffLimits(run) /\ run.pauseRequested /\ Acts(Invalidated(SettlePaused(run)))
       \/ run.status \notin Terminal /\ Acts(Invalidated(Cancel(run)))
    /\ UNCHANGED tool

ResumeTeamRun == run.status = "Paused" /\ Acts(Invalidated(Resume(run))) /\ UNCHANGED tool

\* A stop that could not be confirmed, and the recovery from it.
HostBlocks ==
    /\ run.stopping /\ ~OffLimits(run) /\ Writes(Block(run))
    /\ UNCHANGED <<tool, spent>>

BeginResolvingBlocked ==
    /\ run.status = "Blocked" /\ Writes(Is(run, "Resolving"))
    /\ UNCHANGED <<tool, spent>>

ResolveSettles ==
    /\ run.status = "Resolving" /\ Writes(ResolveAsPaused(run))
    /\ UNCHANGED <<tool, spent>>

\* Sub-tasks that are over go back to work.
Revived(r, chosen) ==
    IF chosen = {} THEN r
    ELSE Invalidated([r EXCEPT !.tasks = [i \in 1..Len(@) |->
                                 IF i \in chosen THEN [status |-> "Pending", digested |-> FALSE]
                                                 ELSE @[i]],
                               !.phase = IF @ = "MrGate" THEN "SubTasks" ELSE @])

\* A call about a task that is not over first finds the task, and later acts on it.
ToolFindsRun ==
    /\ tool = "none" /\ run.status \notin Terminal /\ Spend("acts", MaxActs)
    /\ tool' \in {"message", "rerun"}
    /\ receipt' = NoReceipt /\ UNCHANGED <<run, sent, admitted>>

\* A note asks for another go, so it buys one.
MessageTeam ==
    /\ tool = "message" /\ tool' = "none"
    /\ \E n \in Notes \ run.left :
         LET r == [run EXCEPT !.notes = @ \cup {n}, !.left = @ \cup {n}]
         IN  Writes(Revived(r, {i \in 1..Len(r.tasks) : r.tasks[i].status = "Escalated"}))
    /\ UNCHANGED spent

\* All of the sub-tasks that are named have to be over, or nothing is done.
RerunSubTasks ==
    /\ tool = "rerun" /\ tool' = "none"
    /\ \E named \in SUBSET (1..Len(run.tasks)) :
         Writes(Revived(run, IF \A i \in named : run.tasks[i].status \in Over THEN named ELSE {}))
    /\ UNCHANGED spent

\* The record is written as a whole, and the driver is a part of the relay: coming back
\* with an older record is having restarted then.  A pause that is settled on the way makes
\* decisions void like any other.
Restart ==
    /\ Spend("restarts", MaxRestarts)
    /\ LET r == ReconcileAfterRestore(run)
       IN  run' = IF run.status \in {"PausePending", "AwaitingUser"} THEN Invalidated(r) ELSE r
    /\ sent' = {} /\ admitted' = {} /\ tool' = "none" /\ receipt' = NoReceipt

Next ==
    \/ Decide
    \/ \E e \in sent : Redeliver(e)
    \/ \E a \in admitted : ApplyTeamCommand(a)
    \/ AskToStop \/ HostSettles \/ ResumeTeamRun \/ HostBlocks \/ BeginResolvingBlocked \/ ResolveSettles
    \/ ToolFindsRun \/ MessageTeam \/ RerunSubTasks \/ Restart

Spec == Init /\ [][Next]_vars

(***************************************************************************)
(* Properties                                                              *)
(***************************************************************************)

\* The journal is bounded, every number in it is used up, an id names one record, and
\* the notes kept for a replay are those of the records kept.
JournalIsSound ==
    /\ Len(run.journal) <= MaxJournal
    /\ \A i \in 1..Len(run.journal) : run.journal[i].env.seq <= run.lastSeq
    /\ \A i, j \in 1..Len(run.journal) : i < j => run.journal[i].id # run.journal[j].id
    /\ {d.id : d \in run.drained} =
         {run.journal[i].id : i \in {k \in 1..Len(run.journal) :
            run.journal[k].outcome = "applied" /\ run.journal[k].env.cmd.kind = "TakeUserNotes"}}

\* Every note the owner left is still waiting, or was given to exactly one command.
NotesAreGivenOnce ==
    LET given(i) == run.log[i].notes
    IN  /\ run.left = run.notes \cup UNION {given(i) : i \in 1..Len(run.log)}
        /\ \A i \in 1..Len(run.log) : given(i) \cap run.notes = {}
        /\ \A i, j \in 1..Len(run.log) : i # j => given(i) \cap given(j) = {}

\* An answer is true: what is said to be applied took effect and had these notes; what is
\* said to be refused took no effect, unless nothing is remembered of it any more.
AnswersAreTrue ==
    \/ receipt = NoReceipt
    \/ receipt.status = "applied"
         /\ \E i \in 1..Len(run.log) : run.log[i] = [env |-> receipt.env, notes |-> receipt.notes]
    \/ receipt.status \in {"invalid", "stale", "duplicate"}
         /\ \A i \in 1..Len(run.log) : run.log[i].env = receipt.env =>
              receipt.status # "invalid" /\ receipt.env.seq < run.lastSeq

\* What a driver decided before its owner paused, resumed, ended or changed the task does
\* not happen after it.
DecisionsAreFresh ==
    [][Len(run'.log) > Len(run.log) => run'.log[Len(run'.log)].env.acts = run.acts]_vars

\* The review of the whole diff is not entered or kept while a sub-task waits for work.
GateWaitsForWork == run.phase = "MrGate" => ~SomeWaits(run)

=============================================================================
