------------------------- MODULE TeamCommandsProofs -------------------------
(* Proofs about TeamCommands: what the journal remembers is true, notes are given *)
(* out once, and nothing happens that was decided before its task was changed.    *)
EXTENDS TeamCommands, TLAPS

\* The bounds that count for a record are numbers, and it has room for one record at least.
LEMMA Bounds ==
    MaxRev \in Nat /\ MaxJournal \in Nat /\ MaxJournal > 0 /\ MaxTasks \in Nat
BY CommandBounds

USE Bounds

(* ---- The inductive invariant ------------------------------------------------ *)

Outcomes == {"applied", "stale", "invalid"}
Envs     == [id : Ids, seq : Nat, expected : Nat, cmd : Commands, acts : Nat]
Entries  == [id : Ids, env : Envs, outcome : Outcomes]
SubTasks == [status : TaskStatuses, digested : BOOLEAN]
Given    == [id : Ids, notes : SUBSET Notes]
Effected == [env : Envs, notes : SUBSET Notes]
Task     == [status : Statuses, pauseRequested : BOOLEAN, stopping : BOOLEAN,
             awaiting : BOOLEAN, inFlight : BOOLEAN,
             rev : Nat, lastSeq : Nat, journal : Seq(Entries), notes : SUBSET Notes,
             drained : SUBSET Given, phase : Phases, tasks : Seq(SubTasks),
             log : Seq(Effected), left : SUBSET Notes, acts : Nat]

\* The host turns nothing but a settlement into a block.
Admissions == {a \in [env : Envs, blocked : BOOLEAN] : a.blocked => a.env.cmd.kind = "SettleRun"}

Types == run \in Task /\ sent \subseteq Envs /\ admitted \subseteq Admissions

RecordsNameTheirCommand ==
    \A i \in 1..Len(run.journal) : run.journal[i].id = run.journal[i].env.id

\* What took effect last is still in the journal.
LogIsCounted ==
    \A k \in 1..Len(run.log) :
        /\ run.log[k].env.seq <= run.lastSeq
        /\ run.log[k].env.seq = run.lastSeq =>
             \E i \in 1..Len(run.journal) : run.journal[i].env = run.log[k].env

\* A record of a command that was applied is right, down to the notes it was given: it is
\* the log's entry k.
IsLogged(r, i, k) ==
    /\ r.log[k].env = r.journal[i].env
    /\ r.journal[i].env.cmd.kind = "TakeUserNotes" =>
         \A d \in r.drained : d.id = r.journal[i].id => d.notes = r.log[k].notes
    /\ r.journal[i].env.cmd.kind # "TakeUserNotes" => r.log[k].notes = {}

AppliedIsLogged ==
    \A i \in 1..Len(run.journal) :
        run.journal[i].outcome = "applied" => \E k \in 1..Len(run.log) : IsLogged(run, i, k)

\* A record of a command that was refused is right as well.
RefusedIsNotLogged ==
    \A i \in 1..Len(run.journal), k \in 1..Len(run.log) :
        run.journal[i].outcome # "applied" => run.log[k].env # run.journal[i].env

\* A decision on the revision the task has now was made since its owner last acted, for as
\* long as the revision can be counted.
IsFresh(r, e) == /\ e.expected <= r.rev
                 /\ e.expected = r.rev /\ r.rev < MaxRev => e.acts = r.acts

PendingIsFresh == (\A e \in sent : IsFresh(run, e)) /\ \A a \in admitted : IsFresh(run, a.env)

CommandsInv ==
    /\ Types /\ JournalIsSound /\ RecordsNameTheirCommand
    /\ LogIsCounted /\ AppliedIsLogged /\ RefusedIsNotLogged
    /\ NotesAreGivenOnce /\ AnswersAreTrue /\ GateWaitsForWork /\ PendingIsFresh

(* ---- The record, apart from the journal --------------------------------------- *)

\* All that commands and notes are remembered by is left as it is.
SameMemory(r, q) ==
    /\ q.lastSeq = r.lastSeq /\ q.journal = r.journal /\ q.drained = r.drained
    /\ q.notes = r.notes /\ q.left = r.left /\ q.log = r.log

\* And the plan and the counters with it.
SameWork(r, q) ==
    /\ SameMemory(r, q) /\ q.phase = r.phase /\ q.tasks = r.tasks
    /\ q.rev = r.rev /\ q.acts = r.acts

\* The transitions of the lifecycle touch the lifecycle alone.
LEMMA LifecycleKeepsWork ==
    ASSUME NEW r \in Task,
           NEW q \in {RequestStop(r), SettlePaused(r), Cancel(r), Resume(r), Block(r), Fail(r),
                      Is(r, "Resolving"), ResolveAsPaused(r), ReconcileAfterRestore(r),
                      ForceMark(r, "Done")}
    PROVE  q \in Task /\ SameWork(r, q)
<1> USE DEF SameWork, SameMemory, Task
<1>s. {"Paused", "Blocked", "Resolving", "Done", "Cancelled", "Failed", "Interrupted",
       "Running", "PausePending"} \subseteq Statuses
  BY DEF Statuses, Terminal, Settled, Active
<1>1. ASSUME NEW s \in Statuses PROVE Is(r, s) \in Task /\ SameWork(r, Is(r, s))
  BY DEF Is
<1>2. ASSUME NEW s \in Statuses PROVE AtRest(r, s) \in Task /\ SameWork(r, AtRest(r, s))
  BY DEF AtRest
<1>3. CASE q = RequestStop(r)
  BY <1>3, <1>s DEF RequestStop, RequestPause, Is
<1>4. CASE q = SettlePaused(r) \/ q = Cancel(r) \/ q = ForceMark(r, "Done")
  BY <1>2, <1>4, <1>s DEF SettlePaused, Cancel, ForceMark
<1>5. CASE q = Resume(r)
  BY <1>5, <1>s DEF Resume, Is
<1>6. CASE q = Block(r)
  BY <1>6, <1>s DEF Block, Is
<1>7. CASE q = Fail(r) \/ q = Is(r, "Resolving")
  BY <1>1, <1>7, <1>s DEF Fail
<1>8. CASE q = ResolveAsPaused(r)
  BY <1>8, <1>s DEF ResolveAsPaused, AtRest
<1>9. CASE q = ReconcileAfterRestore(r)
  <2>1. q \in {r, [AtRest(r, "Paused") EXCEPT !.inFlight = r.inFlight], AtRest(r, "Paused"),
               Is(r, "Interrupted")}
    BY <1>9 DEF ReconcileAfterRestore, SettlePaused, MarkInterruptedIfStranded
  <2>2. CASE q = [AtRest(r, "Paused") EXCEPT !.inFlight = r.inFlight]
    BY <1>s, <2>2 DEF AtRest
  <2>3. Is(r, "Interrupted") \in Task /\ SameWork(r, Is(r, "Interrupted"))
        /\ AtRest(r, "Paused") \in Task /\ SameWork(r, AtRest(r, "Paused"))
    BY <1>1, <1>2, <1>s
  <2> QED BY <2>1, <2>2, <2>3
<1> QED BY <1>3, <1>4, <1>5, <1>6, <1>7, <1>8, <1>9

(* ---- The plan ----------------------------------------------------------------- *)

\* A plan of sub-tasks in which nobody waits lets the whole diff be reviewed.
Gated(r) == r.phase = "MrGate" => ~SomeWaits(r)

\* A decision becomes void: the counter moves, or it is at its end.
LEMMA InvalidationVoids ==
    ASSUME NEW r \in Task
    PROVE  LET q == Invalidated(r)
           IN  /\ q \in Task /\ SameMemory(r, q) /\ q.phase = r.phase /\ q.tasks = r.tasks
               /\ q.acts = r.acts + 1
               /\ q.rev >= r.rev /\ (q.rev < MaxRev => q.rev > r.rev)
<1>1. MaxRev \in Nat /\ r.rev \in Nat /\ r.acts \in Nat
  BY DEF Task
<1> DEFINE n == IF r.rev < MaxRev THEN r.rev + 1 ELSE r.rev
<1>2. n \in Nat /\ n >= r.rev /\ (n < MaxRev => n > r.rev) /\ r.acts + 1 \in Nat
  BY <1>1
<1>3. Invalidated(r) = [r EXCEPT !.rev = n, !.acts = r.acts + 1]
  BY DEF Invalidated
<1> HIDE DEF n
<1> QED BY <1>2, <1>3 DEF Task, SameMemory

\* Sub-tasks that go back to work take the task back from the review of the whole diff.
LEMMA RevivalVoids ==
    ASSUME NEW r \in Task, NEW chosen \in SUBSET (1..Len(r.tasks)), Gated(r)
    PROVE  LET q == Revived(r, chosen)
           IN  /\ q \in Task /\ SameMemory(r, q) /\ Gated(q)
               /\ q.rev >= r.rev
               /\ \/ q.acts = r.acts /\ q.rev = r.rev
                  \/ q.acts = r.acts + 1 /\ (q.rev < MaxRev => q.rev > r.rev)
<1>1. CASE chosen = {}
  BY <1>1 DEF Revived, SameMemory, Task
<1>2. CASE chosen # {}
  <2> DEFINE plan == [i \in 1..Len(r.tasks) |->
                        IF i \in chosen THEN [status |-> "Pending", digested |-> FALSE]
                                        ELSE r.tasks[i]]
             phase == IF r.phase = "MrGate" THEN "SubTasks" ELSE r.phase
             back == [r EXCEPT !.tasks = plan, !.phase = phase]
  <2>1. r.tasks \in Seq(SubTasks) /\ Len(r.tasks) \in Nat
    BY DEF Task
  <2>2. [status |-> "Pending", digested |-> FALSE] \in SubTasks
    BY DEF SubTasks, TaskStatuses
  <2>3. \A i \in 1..Len(r.tasks) : r.tasks[i] \in SubTasks
    BY <2>1
  <2>4. plan \in [1..Len(r.tasks) -> SubTasks]
    BY <2>2, <2>3
  <2>5. plan \in Seq(SubTasks)
    BY <2>1, <2>4
  <2>6. phase \in Phases /\ phase # "MrGate"
    BY DEF Phases, Closing, Task
  <2>7. Revived(r, chosen) = Invalidated(back)
    BY <1>2 DEF Revived
  <2> HIDE DEF plan, phase
  <2>8. back \in Task /\ SameMemory(r, back) /\ back.phase = phase
        /\ back.rev = r.rev /\ back.acts = r.acts
    BY <2>5, <2>6 DEF Task, SameMemory
  <2> HIDE DEF back
  <2>9. LET q == Invalidated(back)
        IN  /\ q \in Task /\ SameMemory(back, q) /\ q.phase = back.phase
            /\ q.acts = back.acts + 1 /\ q.rev >= back.rev /\ (q.rev < MaxRev => q.rev > back.rev)
    BY <2>8, InvalidationVoids
  <2> QED BY <2>6, <2>7, <2>8, <2>9 DEF SameMemory, Gated
<1> QED BY <1>1, <1>2

\* A phase that closes the task is only kept when nobody waits.
LEMMA HoldingGates ==
    ASSUME NEW r \in Task
    PROVE  LET q == HoldPhaseForWaitingSubTasks(r)
           IN  q \in Task /\ SameMemory(r, q) /\ Gated(q) /\ q.rev = r.rev /\ q.acts = r.acts
<1>1. CASE r.phase \in Closing /\ SomeWaits(r)
  BY <1>1 DEF HoldPhaseForWaitingSubTasks, Task, SameMemory, Gated, Phases
<1>2. CASE ~(r.phase \in Closing /\ SomeWaits(r))
  BY <1>2 DEF HoldPhaseForWaitingSubTasks, SameMemory, Gated, Closing
<1> QED BY <1>1, <1>2

\* What a replan makes of the plan is a plan.
LEMMA ReplanIsAPlan ==
    ASSUME NEW r \in Task
    PROVE  Replan(r) \in Task /\ SameMemory(r, Replan(r)) /\ Replan(r).rev = r.rev /\ Replan(r).acts = r.acts
<1> DEFINE old == [i \in 1..Len(r.tasks) |->
                     IF r.tasks[i].status \in Over THEN r.tasks[i]
                     ELSE [status |-> "Superseded", digested |-> TRUE]]
           plan == Append(old, [status |-> "Pending", digested |-> FALSE])
<1>1. r.tasks \in Seq(SubTasks) /\ Len(r.tasks) \in Nat
  BY DEF Task
<1>2. /\ [status |-> "Pending", digested |-> FALSE] \in SubTasks
      /\ [status |-> "Superseded", digested |-> TRUE] \in SubTasks
  BY DEF SubTasks, TaskStatuses, Over
<1>3. old \in [1..Len(r.tasks) -> SubTasks]
  BY <1>1, <1>2
<1>4. plan \in Seq(SubTasks)
  BY <1>1, <1>2, <1>3
<1>5. Replan(r) = [r EXCEPT !.phase = "SubTasks", !.tasks = plan]
  BY DEF Replan
<1> HIDE DEF plan
<1> QED BY <1>4, <1>5 DEF Task, SameMemory, Phases

(* ---- What commands do ----------------------------------------------------------- *)

\* The commands that are carried out: those of a driver, and the block a settlement may
\* be turned into.
Carried == Commands \cup {[kind |-> "BlockRun"]}

\* What a command carries is fit for the record.
LEMMA CommandsAreFit ==
    ASSUME NEW c \in Carried
    PROVE  /\ c.kind \in {"SetPhase", "FinishRun", "RecordReviewRound", "MarkSubTaskDigested",
                          "SettleRun", "ReplanSubTasks", "TakeUserNotes", "FailRun", "BlockRun"}
           /\ c.kind \in {"SetPhase", "FinishRun", "MarkSubTaskDigested"} => c.to \in Phases
           /\ c.kind = "SettleRun" => c.to \in {"Paused", "Done"}
           /\ c.kind \in {"RecordReviewRound", "MarkSubTaskDigested"} => c.at \in Nat /\ c.at >= 1
           /\ c.kind = "RecordReviewRound" => c.status \in TaskStatuses
<1> USE DEF Phases, Closing, TaskStatuses, Over
<1>b. MaxTasks \in Nat
  OBVIOUS
<1>1. CASE c \in {[kind |-> "SetPhase", to |-> "MrGate"], [kind |-> "FinishRun", to |-> "Finished"]}
  BY <1>1
<1>2. CASE c \in [kind : {"RecordReviewRound"}, at : 1..MaxTasks, status : {"Done"}]
  BY <1>2, <1>b
<1>3. CASE c \in [kind : {"MarkSubTaskDigested"}, at : 1..MaxTasks, to : {"MrGate"}]
  BY <1>3, <1>b
<1>4. CASE c \in [kind : {"SettleRun"}, to : {"Paused", "Done"}]
  BY <1>4
<1>5. CASE c \in [kind : {"ReplanSubTasks", "TakeUserNotes", "FailRun", "BlockRun"}]
  BY <1>5
<1>6. CASE c = [kind |-> "BlockRun"]
  BY <1>6
<1> QED BY <1>1, <1>2, <1>3, <1>4, <1>5, <1>6 DEF Carried, Commands, AllCommands

\* The effects of a command that is not malformed leave the journal, the log and what was
\* drained before alone, and empty the notes only when they are what was asked for.
LEMMA EffectsAreFit ==
    ASSUME NEW r \in Task, NEW c \in Carried, ~Malformed(r, c)
    PROVE  LET q == Effects(r, c)
           IN  /\ q \in Task /\ q.lastSeq = r.lastSeq /\ q.journal = r.journal
               /\ q.drained = r.drained /\ q.left = r.left /\ q.log = r.log
               /\ q.notes = IF c.kind = "TakeUserNotes" THEN {} ELSE r.notes
               /\ q.acts = r.acts /\ q.rev >= r.rev
<1> DEFINE q == Effects(r, c)
<1>0. r.rev \in Nat /\ r.rev >= r.rev
  BY DEF Task
<1>1. CASE c.kind \in {"SetPhase", "FinishRun"}
  <2>1. q = [r EXCEPT !.phase = c.to]
    BY <1>1 DEF Effects
  <2>2. c.to \in Phases
    BY <1>1, CommandsAreFit
  <2> QED BY <1>0, <1>1, <2>1, <2>2 DEF Task
<1>2. CASE c.kind = "ReplanSubTasks"
  <2>1. q = Replan(r)
    BY <1>2 DEF Effects
  <2> QED BY <1>0, <1>2, <2>1, ReplanIsAPlan DEF SameMemory
<1>3. CASE c.kind \in {"RecordReviewRound", "MarkSubTaskDigested"}
  <2>1. c.at \in 1..Len(r.tasks) /\ r.tasks \in Seq(SubTasks) /\ Len(r.tasks) \in Nat
    BY <1>3, CommandsAreFit DEF Malformed, Task
  <2>2. CASE c.kind = "RecordReviewRound"
    <3> DEFINE plan == [r.tasks EXCEPT ![c.at].status = c.status]
    <3>1. r.tasks[c.at] \in SubTasks /\ c.status \in TaskStatuses
      BY <2>1, <2>2, CommandsAreFit
    <3>2. [r.tasks[c.at] EXCEPT !.status = c.status] \in SubTasks
      BY <3>1 DEF SubTasks
    <3>3. plan \in Seq(SubTasks)
      BY <2>1, <3>2
    <3>4. q = [r EXCEPT !.tasks = plan]
      BY <2>2 DEF Effects
    <3> HIDE DEF plan
    <3> QED BY <1>0, <2>2, <3>3, <3>4 DEF Task
  <2>3. CASE c.kind = "MarkSubTaskDigested"
    <3> DEFINE plan == [r.tasks EXCEPT ![c.at].digested = TRUE]
    <3>1. r.tasks[c.at] \in SubTasks /\ c.to \in Phases
      BY <2>1, <2>3, CommandsAreFit
    <3>2. [r.tasks[c.at] EXCEPT !.digested = TRUE] \in SubTasks
      BY <3>1 DEF SubTasks
    <3>3. plan \in Seq(SubTasks)
      BY <2>1, <3>2
    <3>4. q = [r EXCEPT !.tasks = plan, !.phase = c.to]
      BY <2>3 DEF Effects
    <3> HIDE DEF plan
    <3> QED BY <1>0, <2>3, <3>1, <3>3, <3>4 DEF Task
  <2> QED BY <1>3, <2>2, <2>3
<1>4. CASE c.kind = "TakeUserNotes"
  BY <1>0, <1>4 DEF Effects, Drained, Task
<1>5. CASE c.kind \in {"FailRun", "BlockRun"}
  <2>1. q \in {Fail(r), Block(r)}
    BY <1>5 DEF Effects
  <2>2. q \in Task /\ SameWork(r, q)
    BY <2>1, LifecycleKeepsWork
  <2> QED BY <1>0, <1>5, <2>2 DEF SameWork, SameMemory
<1>6. CASE c.kind = "SettleRun"
  <2>1. q \in {r, [SettlePaused(r) EXCEPT !.rev = @ + 1], ForceMark(r, "Done")}
    BY <1>6, CommandsAreFit DEF Effects
  <2>2. CASE q = r
    BY <1>0, <1>6, <2>2
  <2>3. CASE q = [SettlePaused(r) EXCEPT !.rev = @ + 1]
    <3> DEFINE s == SettlePaused(r)
    <3>1. s \in Task /\ SameWork(r, s) /\ q = [s EXCEPT !.rev = s.rev + 1]
      BY <2>3, LifecycleKeepsWork
    <3> HIDE DEF s, q
    <3>2. s.rev = r.rev /\ s.rev + 1 \in Nat /\ s.rev + 1 >= r.rev
      BY <1>0, <3>1 DEF SameWork
    <3>3. q \in Task /\ q.rev = s.rev + 1 /\ q.acts = s.acts /\ SameMemory(s, q)
      BY <3>1, <3>2 DEF Task, SameMemory
    <3> QED BY <1>6, <3>1, <3>2, <3>3 DEF SameWork, SameMemory, q
  <2>4. CASE q = ForceMark(r, "Done")
    <3>1. ForceMark(r, "Done") \in Task /\ SameWork(r, ForceMark(r, "Done"))
      BY LifecycleKeepsWork
    <3> QED BY <1>0, <1>6, <2>4, <3>1 DEF SameWork, SameMemory
  <2> QED BY <2>1, <2>2, <2>3, <2>4
<1> QED BY <1>1, <1>2, <1>3, <1>4, <1>5, <1>6, CommandsAreFit

(* ---- The journal ------------------------------------------------------------------ *)

\* Writing a record makes it the last one, uses its number up, and drops the first record
\* with its notes when there are too many: lost is how many are.
Recording(r, q, e, o, lost) ==
    /\ lost \in {0, 1} /\ (lost = 1 => Len(r.journal) >= 1)
    /\ Len(q.journal) = Len(r.journal) + 1 - lost /\ Len(q.journal) <= MaxJournal
    /\ \A i \in 1..(Len(q.journal) - 1) : q.journal[i] = r.journal[i + lost]
    /\ q.journal[Len(q.journal)] = [id |-> e.id, env |-> e, outcome |-> o]
    /\ q.lastSeq = e.seq
    /\ q.drained = {d \in r.drained : lost = 1 =>
                      d.id # r.journal[1].id \/ r.journal[1].env.cmd.kind # "TakeUserNotes"}

\* What a record leaves alone.
Beside(r, q) ==
    /\ q.notes = r.notes /\ q.left = r.left /\ q.log = r.log
    /\ q.phase = r.phase /\ q.tasks = r.tasks /\ q.rev = r.rev /\ q.acts = r.acts

\* A command that is new has the highest number, so every older record may make room.
LEMMA PushingRecords ==
    ASSUME NEW r \in Task, NEW e \in Envs, NEW o \in Outcomes,
           e.seq > r.lastSeq, Len(r.journal) <= MaxJournal,
           \A i \in 1..Len(r.journal) : r.journal[i].env.seq <= r.lastSeq
    PROVE  /\ Pushed(r, e, o) \in Task /\ Beside(r, Pushed(r, e, o))
           /\ \E lost \in {0, 1} : Recording(r, Pushed(r, e, o), e, o, lost)
<1> DEFINE rec == [id |-> e.id, env |-> e, outcome |-> o]
           j   == Append(r.journal, rec)
           q   == [r EXCEPT !.lastSeq = e.seq, !.journal = j]
<1>1. rec \in Entries /\ rec.env = e
  BY DEF Entries, Envs
<1>2. r.journal \in Seq(Entries) /\ Len(r.journal) \in Nat /\ MaxJournal \in Nat /\ MaxJournal > 0
      /\ e.seq \in Nat /\ r.lastSeq \in Nat
  BY DEF Task, Envs
<1>3. Pushed(r, e, o) = Evicted(q)
  BY <1>1 DEF Pushed
<1>4. /\ j \in Seq(Entries) /\ Len(j) = Len(r.journal) + 1 /\ j[Len(j)] = rec
      /\ \A i \in 1..Len(r.journal) : j[i] = r.journal[i]
  BY <1>1, <1>2
<1> HIDE DEF j, rec
<1>5. q \in Task /\ q.journal = j /\ q.lastSeq = e.seq /\ Beside(r, q) /\ q.drained = r.drained
  BY <1>2, <1>4 DEF Task, Beside
<1> HIDE DEF q
<1>6. CASE Len(j) <= MaxJournal
  <2>1. Evicted(q) = q
    BY <1>5, <1>6 DEF Evicted
  <2>2. Recording(r, q, e, o, 0)
    BY <1>2, <1>4, <1>5, <1>6 DEF Recording, rec
  <2> QED BY <1>3, <1>5, <2>1, <2>2
<1>7. CASE Len(j) > MaxJournal
  <2> DEFINE old == {i \in 1..Len(q.journal) : q.journal[i].env.seq < q.lastSeq}
  <2>0. Len(r.journal) >= 1 /\ 1 \in 1..Len(r.journal) /\ 1 \in 1..Len(j)
    BY <1>2, <1>4, <1>7
  <2>j. j[1] = r.journal[1] /\ r.journal[1].env.seq <= r.lastSeq /\ r.journal[1] \in Entries
    BY <1>2, <1>4, <2>0
  <2>k. r.journal[1].env.seq \in Nat
    BY <2>j DEF Entries, Envs
  <2>1. 1 \in old /\ \A i \in old : i \in Nat /\ 1 <= i
    <3>1. j[1].env.seq < e.seq
      BY <1>2, <2>j, <2>k
    <3>2. 1 \in old
      BY <1>5, <2>0, <3>1
    <3>3. Len(q.journal) \in Nat
      BY <1>2, <1>4, <1>5
    <3> QED BY <3>2, <3>3
  <2>2. (CHOOSE i \in old : \A k \in old : i <= k) = 1
    <3>1. \A i \in old : (\A k \in old : i <= k) => i = 1
      BY <2>1
    <3> HIDE DEF old
    <3> QED BY <2>1, <3>1
  <2>3. Evicted(q) = [q EXCEPT !.journal = Without(j, 1),
                               !.drained = {d \in q.drained : d.id # j[1].id
                                              \/ j[1].env.cmd.kind # "TakeUserNotes"}]
    <3>1. ~(Len(q.journal) <= MaxJournal \/ old = {})
      <4>1. Len(q.journal) = Len(j) /\ old # {}
        BY <1>5, <2>1
      <4> HIDE DEF old
      <4> QED BY <1>2, <1>4, <1>7, <4>1
    <3> HIDE DEF old
    <3>2. Evicted(q) = [q EXCEPT !.journal = Without(q.journal, 1),
                                 !.drained = {d \in q.drained : d.id # q.journal[1].id
                                                \/ q.journal[1].env.cmd.kind # "TakeUserNotes"}]
      BY <2>2, <3>1 DEF Evicted, old
    <3> QED BY <1>5, <3>2
  <2>4. /\ Without(j, 1) \in Seq(Entries) /\ Len(Without(j, 1)) = Len(j) - 1
        /\ \A i \in 1..(Len(j) - 1) : Without(j, 1)[i] = j[i + 1]
    BY <1>2, <1>4, <1>7 DEF Without
  <2>5. j[1] = r.journal[1] /\ Len(r.journal) = MaxJournal
    BY <1>2, <1>4, <1>7
  <2>6. Evicted(q) \in Task /\ Evicted(q).journal = Without(j, 1) /\ Beside(r, Evicted(q))
        /\ Evicted(q).lastSeq = e.seq
        /\ Evicted(q).drained = {d \in q.drained : d.id # j[1].id
                                              \/ j[1].env.cmd.kind # "TakeUserNotes"}
    BY <1>5, <2>3, <2>4 DEF Task, Beside
  <2>7. Recording(r, Evicted(q), e, o, 1)
    <3>1. Len(Evicted(q).journal) = Len(r.journal) /\ Len(r.journal) >= 1
      BY <1>2, <1>4, <2>4, <2>5, <2>6
    <3>2. \A i \in 1..(Len(r.journal) - 1) : Evicted(q).journal[i] = r.journal[i + 1]
      <4> SUFFICES ASSUME NEW i \in 1..(Len(r.journal) - 1)
                   PROVE  Evicted(q).journal[i] = r.journal[i + 1]
        OBVIOUS
      <4>1. i \in 1..(Len(j) - 1) /\ i + 1 \in 1..Len(r.journal)
        BY <1>2, <1>4
      <4> QED BY <1>4, <2>4, <2>6, <4>1
    <3>3. Evicted(q).journal[Len(r.journal)] = rec
      <4>1. Len(r.journal) \in 1..(Len(j) - 1) /\ Len(r.journal) + 1 = Len(j)
        BY <1>2, <1>4, <2>0
      <4> QED BY <1>4, <2>4, <2>6, <4>1
    <3> QED BY <1>2, <1>5, <2>5, <2>6, <3>1, <3>2, <3>3 DEF Recording, rec
  <2> QED BY <1>3, <2>6, <2>7
<1> QED BY <1>2, <1>4, <1>6, <1>7

(* ---- What the record is made of ------------------------------------------------------ *)

\* The parts of a record have their types.
LEMMA TaskParts ==
    ASSUME NEW r \in Task
    PROVE  /\ r.rev \in Nat /\ r.acts \in Nat /\ r.lastSeq \in Nat
           /\ r.drained \subseteq Given /\ r.notes \subseteq Notes /\ r.left \subseteq Notes
           /\ r.journal \in Seq(Entries) /\ Len(r.journal) \in Nat
           /\ \A i \in 1..Len(r.journal) :
                /\ r.journal[i] \in Entries /\ r.journal[i].env \in Envs /\ r.journal[i].env.seq \in Nat
           /\ r.log \in Seq(Effected) /\ Len(r.log) \in Nat
           /\ \A k \in 1..Len(r.log) :
                /\ r.log[k] \in Effected /\ r.log[k].env \in Envs /\ r.log[k].env.seq \in Nat
<1>1. /\ r.rev \in Nat /\ r.acts \in Nat /\ r.lastSeq \in Nat
      /\ r.drained \subseteq Given /\ r.notes \subseteq Notes /\ r.left \subseteq Notes
      /\ r.journal \in Seq(Entries) /\ r.log \in Seq(Effected)
  BY DEF Task
<1>2. \A x \in Entries : x.env \in Envs
  BY DEF Entries
<1>3. \A x \in Effected : x.env \in Envs
  BY DEF Effected
<1>4. \A x \in Envs : x.seq \in Nat
  BY DEF Envs
<1>5. Len(r.journal) \in Nat /\ \A i \in 1..Len(r.journal) : r.journal[i] \in Entries
  BY <1>1
<1>6. Len(r.log) \in Nat /\ \A k \in 1..Len(r.log) : r.log[k] \in Effected
  BY <1>1
<1> QED BY <1>1, <1>2, <1>3, <1>4, <1>5, <1>6

(* ---- What the journal remembers ----------------------------------------------------- *)

\* What was drained is in the journal, and what the journal says was drained is kept.
LEMMA DrainedIsRecorded ==
    ASSUME JournalIsSound, Types
    PROVE  /\ \A d \in run.drained : \E i \in 1..Len(run.journal) :
                 /\ run.journal[i].id = d.id /\ run.journal[i].outcome = "applied"
                 /\ run.journal[i].env.cmd.kind = "TakeUserNotes"
           /\ \A i \in 1..Len(run.journal) :
                 run.journal[i].outcome = "applied" /\ run.journal[i].env.cmd.kind = "TakeUserNotes"
                   => \E d \in run.drained : d.id = run.journal[i].id
<1> DEFINE ids == {d.id : d \in run.drained}
           taking == {k \in 1..Len(run.journal) :
                 run.journal[k].outcome = "applied" /\ run.journal[k].env.cmd.kind = "TakeUserNotes"}
<1>1. ids = {run.journal[i].id : i \in taking}
  BY DEF JournalIsSound
<1>2. ASSUME NEW d \in run.drained
      PROVE  \E i \in 1..Len(run.journal) :
                 /\ run.journal[i].id = d.id /\ run.journal[i].outcome = "applied"
                 /\ run.journal[i].env.cmd.kind = "TakeUserNotes"
  <2>1. d.id \in ids
    OBVIOUS
  <2>2. PICK i \in taking : run.journal[i].id = d.id
    BY <1>1, <2>1
  <2> QED BY <2>2
<1>3. ASSUME NEW i \in taking PROVE \E d \in run.drained : d.id = run.journal[i].id
  <2>1. run.journal[i].id \in ids
    BY <1>1
  <2> QED BY <2>1
<1> QED BY <1>2, <1>3

\* A command that takes the notes is remembered with them.
Takes(r, q, e, o) ==
    IF o = "applied" /\ e.cmd.kind = "TakeUserNotes"
      THEN \E ns : q.drained = r.drained \cup {[id |-> e.id, notes |-> ns]}
      ELSE q.drained = r.drained

\* A new record keeps the journal sound, and makes room together with what it drained.
LEMMA RecordingIsSound ==
    ASSUME CommandsInv, NEW e \in Envs, NEW o \in Outcomes, NEW lost, NEW r \in Task, NEW q \in Task,
           ~Known(run, e), e.seq > run.lastSeq, r.journal = run.journal,
           Recording(r, q, e, o, lost), run' = q,
           Takes(run, r, e, o)
    PROVE  JournalIsSound' /\ RecordsNameTheirCommand'
<1> DEFINE n == Len(run.journal)
           m == Len(q.journal)
           takes(rec) == rec.outcome = "applied" /\ rec.env.cmd.kind = "TakeUserNotes"
<1>0. /\ run \in Task /\ JournalIsSound /\ RecordsNameTheirCommand
      /\ n \in Nat /\ m \in Nat /\ lost \in {0, 1} /\ m = n + 1 - lost
      /\ e.seq \in Nat /\ run.lastSeq \in Nat
  <2>1. run \in Task /\ JournalIsSound /\ RecordsNameTheirCommand
    BY DEF CommandsInv, Types
  <2>2. n \in Nat /\ m \in Nat /\ run.lastSeq \in Nat
    BY <2>1, TaskParts
  <2>3. lost \in {0, 1} /\ m = n + 1 - lost
    BY DEF Recording
  <2>4. e.seq \in Nat
    BY DEF Envs
  <2> QED BY <2>1, <2>2, <2>3, <2>4
<1>1. ASSUME NEW i \in 1..m, i # m
      PROVE  /\ i + lost \in 1..n /\ q.journal[i] = run.journal[i + lost]
             /\ run.journal[i + lost].id # e.id /\ run.journal[i + lost] \in Entries
             /\ run.journal[i + lost].env.seq \in Nat
  <2>1. i + lost \in 1..n /\ i \in 1..(m - 1)
    BY <1>0, <1>1
  <2>2. q.journal[i] = run.journal[i + lost]
    BY <2>1 DEF Recording
  <2>3. run.journal[i + lost].id # e.id
    BY <2>1 DEF Known, Recorded
  <2>4. run.journal[i + lost] \in Entries /\ run.journal[i + lost].env.seq \in Nat
    BY <1>0, <2>1, TaskParts
  <2> QED BY <2>1, <2>2, <2>3, <2>4
<1>2. /\ m \in 1..m /\ q.journal[m].id = e.id /\ q.journal[m].env = e /\ q.journal[m].outcome = o
  BY <1>0 DEF Recording
<1>3. m <= MaxJournal /\ q.lastSeq = e.seq
  BY DEF Recording
<1>4. \A i \in 1..m : q.journal[i].env.seq <= q.lastSeq
  <2> SUFFICES ASSUME NEW i \in 1..m PROVE q.journal[i].env.seq <= e.seq
    BY <1>3
  <2>1. CASE i = m
    BY <1>0, <1>2, <2>1
  <2>2. CASE i # m
    <3>1. run.journal[i + lost].env.seq <= run.lastSeq
      BY <1>0, <1>1, <2>2 DEF JournalIsSound
    <3>2. run.journal[i + lost].env.seq \in Nat /\ q.journal[i] = run.journal[i + lost]
      BY <1>1, <2>2
    <3> DEFINE x == run.journal[i + lost].env.seq
    <3>3. x \in Nat /\ x <= run.lastSeq /\ q.journal[i].env.seq = x
      BY <3>1, <3>2
    <3> HIDE DEF x
    <3> QED BY <1>0, <3>3
  <2> QED BY <2>1, <2>2
<1>5. \A i, k \in 1..m : i < k => q.journal[i].id # q.journal[k].id
  <2> SUFFICES ASSUME NEW i \in 1..m, NEW k \in 1..m, i < k PROVE q.journal[i].id # q.journal[k].id
    OBVIOUS
  <2>1. i # m
    BY <1>0
  <2>2. CASE k = m
    BY <1>1, <1>2, <2>1, <2>2
  <2>3. CASE k # m
    <3>1. i + lost < k + lost
      BY <1>0
    <3> QED BY <1>0, <1>1, <2>1, <2>3, <3>1 DEF JournalIsSound
  <2> QED BY <2>2, <2>3
<1>6. ASSUME NEW d \in q.drained
      PROVE  \E i \in 1..m : q.journal[i].id = d.id /\ takes(q.journal[i])
  <2>1. d \in r.drained /\ (lost = 1 => d.id # run.journal[1].id
                                       \/ run.journal[1].env.cmd.kind # "TakeUserNotes")
    BY DEF Recording
  <2>2. CASE d \in run.drained
    <3>1. PICK i \in 1..n : run.journal[i].id = d.id /\ takes(run.journal[i])
      BY <1>0, <2>2, DrainedIsRecorded DEF CommandsInv
    <3>2. ~(lost = 1 /\ i = 1)
      BY <2>1, <3>1
    <3>3. i - lost \in 1..m /\ i - lost # m /\ (i - lost) + lost = i
      BY <1>0, <3>2
    <3> QED BY <1>1, <3>1, <3>3
  <2>3. CASE d \notin run.drained
    <3>1. o = "applied" /\ e.cmd.kind = "TakeUserNotes" /\ d.id = e.id
      BY <2>1, <2>3 DEF Takes
    <3> QED BY <1>2, <3>1
  <2> QED BY <2>2, <2>3
<1>7. ASSUME NEW i \in 1..m, takes(q.journal[i])
      PROVE  \E d \in q.drained : d.id = q.journal[i].id
  <2>1. CASE i # m
    <3>1. PICK d \in run.drained : d.id = run.journal[i + lost].id
      BY <1>0, <1>1, <1>7, <2>1, DrainedIsRecorded DEF CommandsInv
    <3>2. lost = 1 => d.id # run.journal[1].id
      <4>1. lost = 1 => 1 < i + lost /\ 1 \in 1..n
        BY <1>0, <2>1
      <4> QED BY <1>0, <1>1, <2>1, <3>1, <4>1 DEF JournalIsSound
    <3>3. d \in q.drained
      BY <3>1, <3>2 DEF Recording, Takes
    <3> QED BY <1>1, <2>1, <3>1, <3>3
  <2>2. CASE i = m
    <3>1. PICK d \in r.drained : d.id = e.id
      <4>1. o = "applied" /\ e.cmd.kind = "TakeUserNotes"
        BY <1>2, <1>7, <2>2
      <4>2. PICK ns : r.drained = run.drained \cup {[id |-> e.id, notes |-> ns]}
        BY <4>1 DEF Takes
      <4>3. [id |-> e.id, notes |-> ns] \in r.drained /\ [id |-> e.id, notes |-> ns].id = e.id
        BY <4>2
      <4> QED BY <4>3
    <3>2. lost = 1 => d.id # run.journal[1].id
      BY <1>0, <3>1 DEF Known, Recorded, Recording
    <3>3. d \in q.drained
      BY <3>1, <3>2 DEF Recording, Takes
    <3> QED BY <1>2, <2>2, <3>1, <3>3
  <2> QED BY <2>1, <2>2
<1>8. {d.id : d \in q.drained} = {q.journal[i].id : i \in {k \in 1..m : takes(q.journal[k])}}
  BY <1>6, <1>7
<1>9. RecordsNameTheirCommand'
  <2> SUFFICES ASSUME NEW i \in 1..m PROVE q.journal[i].id = q.journal[i].env.id
    BY DEF RecordsNameTheirCommand
  <2> QED BY <1>0, <1>1, <1>2 DEF RecordsNameTheirCommand
<1> QED BY <1>3, <1>4, <1>5, <1>8, <1>9 DEF JournalIsSound

\* What is refused is remembered as refused, and nothing of what took effect is forgotten
\* that a new answer could contradict.
LEMMA RefusalsAreRemembered ==
    ASSUME CommandsInv, NEW e \in Envs, NEW o \in {"stale", "invalid"}, ~Known(run, e),
           e.seq > run.lastSeq, run' = Pushed(run, e, o)
    PROVE  /\ run' \in Task /\ Beside(run, run') /\ JournalIsSound' /\ RecordsNameTheirCommand'
           /\ LogIsCounted' /\ AppliedIsLogged' /\ RefusedIsNotLogged'
<1>0. /\ run \in Task /\ JournalIsSound /\ o \in Outcomes
      /\ LogIsCounted /\ AppliedIsLogged /\ RefusedIsNotLogged
  BY DEF CommandsInv, Types, Outcomes
<1>1. /\ run' \in Task /\ Beside(run, run')
      /\ \E lost \in {0, 1} : Recording(run, run', e, o, lost)
  BY <1>0, PushingRecords DEF JournalIsSound
<1>2. PICK lost \in {0, 1} : Recording(run, run', e, o, lost)
  BY <1>1
<1> DEFINE n == Len(run.journal)  m == Len(run'.journal)
<1>3. /\ n \in Nat /\ m = n + 1 - lost /\ m \in Nat /\ run'.log = run.log /\ run'.lastSeq = e.seq
      /\ e.seq \in Nat /\ run.lastSeq \in Nat
      /\ run'.journal[m] = [id |-> e.id, env |-> e, outcome |-> o]
      /\ run'.drained \subseteq run.drained
  <2>1. n \in Nat /\ m \in Nat /\ run.lastSeq \in Nat
    BY <1>0, <1>1, TaskParts
  <2>2. e.seq \in Nat
    BY DEF Envs
  <2>3. run'.log = run.log
    BY <1>1 DEF Beside
  <2>4. /\ m = n + 1 - lost /\ run'.lastSeq = e.seq
        /\ run'.journal[m] = [id |-> e.id, env |-> e, outcome |-> o]
        /\ run'.drained \subseteq run.drained
    BY <1>2 DEF Recording
  <2> QED BY <2>1, <2>2, <2>3, <2>4
<1>4. JournalIsSound' /\ RecordsNameTheirCommand'
  BY <1>0, <1>1, <1>2, RecordingIsSound DEF Takes
<1>5. ASSUME NEW k \in 1..Len(run.log)
      PROVE  run.log[k].env.seq <= run.lastSeq /\ run.log[k].env.seq \in Nat /\ run.log[k].env # e
  <2>1. run.log[k].env.seq \in Nat
    BY <1>0, TaskParts
  <2> QED BY <1>0, <1>3, <2>1 DEF LogIsCounted
<1>6. LogIsCounted'
  <2>1. ASSUME NEW k \in 1..Len(run.log)
        PROVE  run.log[k].env.seq <= e.seq /\ run.log[k].env.seq # e.seq
    <3> DEFINE x == run.log[k].env.seq
    <3>1. x \in Nat /\ x <= run.lastSeq
      BY <1>5
    <3> HIDE DEF x
    <3>2. x <= e.seq /\ x # e.seq
      BY <1>3, <3>1
    <3> QED BY <3>2 DEF x
  <2> QED BY <1>3, <2>1 DEF LogIsCounted
<1>7. ASSUME NEW i \in 1..m, i # m
      PROVE  i + lost \in 1..n /\ run'.journal[i] = run.journal[i + lost]
  <2>1. i + lost \in 1..n /\ i \in 1..(m - 1)
    BY <1>3, <1>7
  <2> QED BY <1>2, <2>1 DEF Recording
<1>8. AppliedIsLogged'
  <2>1. ASSUME NEW i \in 1..m, run'.journal[i].outcome = "applied"
        PROVE  \E k \in 1..Len(run.log) : IsLogged(run', i, k)
    <3>1. i # m
      BY <1>0, <1>3, <2>1
    <3>2. PICK k \in 1..Len(run.log) : IsLogged(run, i + lost, k)
      BY <1>0, <1>7, <2>1, <3>1 DEF AppliedIsLogged
    <3>3. IsLogged(run', i, k)
      BY <1>3, <1>7, <3>1, <3>2 DEF IsLogged
    <3> QED BY <3>3
  <2> QED BY <1>3, <2>1 DEF AppliedIsLogged
<1>9. RefusedIsNotLogged'
  <2> SUFFICES ASSUME NEW i \in 1..m, NEW k \in 1..Len(run.log), run'.journal[i].outcome # "applied"
               PROVE  run.log[k].env # run'.journal[i].env
    BY <1>3 DEF RefusedIsNotLogged
  <2>1. CASE i = m
    BY <1>3, <1>5, <2>1
  <2>2. CASE i # m
    BY <1>0, <1>7, <2>2 DEF RefusedIsNotLogged
  <2> QED BY <2>1, <2>2
<1> QED BY <1>1, <1>4, <1>6, <1>8, <1>9

(* ---- A command that takes effect ------------------------------------------------------ *)

\* What the reducer makes of the record before it writes its own.
AfterEffect(r, e, c, taken) ==
    LET done == HoldPhaseForWaitingSubTasks(Effects(r, c))
        kept == IF c.kind = "TakeUserNotes"
                  THEN done.drained \cup {[id |-> e.id, notes |-> taken]} ELSE done.drained
    IN  [done EXCEPT !.rev = @ + 1, !.drained = kept, !.log = Append(@, [env |-> e, notes |-> taken])]

\* The notes a command takes with it.
IsTaken(r, c, taken) ==
    /\ c.kind = "TakeUserNotes" => taken = r.notes
    /\ c.kind # "TakeUserNotes" => taken = {}

\* What is carried out for a command is the command, or the block a settlement became.
CarriedFor(c, e) == c = e.cmd \/ (c.kind = "BlockRun" /\ e.cmd.kind = "SettleRun")

\* A command that takes effect is logged, moves the revision on, and takes the notes away
\* only with itself.
LEMMA EffectsAreLogged ==
    ASSUME NEW r \in Task, NEW e \in Envs, NEW c \in Carried, NEW taken,
           ~Malformed(r, c), CarriedFor(c, e), IsTaken(r, c, taken)
    PROVE  LET q == AfterEffect(r, e, c, taken)
           IN  /\ q \in Task /\ q.journal = r.journal /\ q.lastSeq = r.lastSeq /\ q.left = r.left
               /\ q.log = Append(r.log, [env |-> e, notes |-> taken])
               /\ e.cmd.kind = "TakeUserNotes" =>
                    /\ taken = r.notes /\ q.notes = {}
                    /\ q.drained = r.drained \cup {[id |-> e.id, notes |-> taken]}
               /\ e.cmd.kind # "TakeUserNotes" => taken = {} /\ q.notes = r.notes /\ q.drained = r.drained
               /\ Gated(q) /\ q.acts = r.acts /\ q.rev > r.rev
<1> DEFINE eff  == Effects(r, c)
           done == HoldPhaseForWaitingSubTasks(eff)
           kept == IF c.kind = "TakeUserNotes"
                     THEN done.drained \cup {[id |-> e.id, notes |-> taken]} ELSE done.drained
           log  == Append(done.log, [env |-> e, notes |-> taken])
           q    == [done EXCEPT !.rev = done.rev + 1, !.drained = kept, !.log = log]
<1>1. /\ eff \in Task /\ eff.lastSeq = r.lastSeq /\ eff.journal = r.journal
      /\ eff.drained = r.drained /\ eff.left = r.left /\ eff.log = r.log
      /\ eff.notes = IF c.kind = "TakeUserNotes" THEN {} ELSE r.notes
      /\ eff.acts = r.acts /\ eff.rev >= r.rev
  BY EffectsAreFit
<1> HIDE DEF eff
<1>2. /\ done \in Task /\ SameMemory(eff, done) /\ Gated(done)
      /\ done.rev = eff.rev /\ done.acts = eff.acts
  BY <1>1, HoldingGates
<1>q. AfterEffect(r, e, c, taken) = q
  BY DEF AfterEffect, eff
<1> HIDE DEF done
<1>3. c.kind = "TakeUserNotes" <=> e.cmd.kind = "TakeUserNotes"
  BY DEF CarriedFor
<1>4. taken \in SUBSET Notes
  BY TaskParts DEF IsTaken
<1>5. [id |-> e.id, notes |-> taken] \in Given /\ [env |-> e, notes |-> taken] \in Effected
  BY <1>4 DEF Given, Effected, Envs
<1>6. kept \in SUBSET Given /\ log \in Seq(Effected) /\ done.rev + 1 \in Nat /\ done.rev + 1 > r.rev
  <2>1. done.drained \subseteq Given /\ done.log \in Seq(Effected) /\ done.rev \in Nat /\ r.rev \in Nat
    BY <1>2, TaskParts
  <2> QED BY <1>1, <1>2, <1>5, <2>1
<1>7. /\ c.kind = "TakeUserNotes" => kept = r.drained \cup {[id |-> e.id, notes |-> taken]}
      /\ c.kind # "TakeUserNotes" => kept = r.drained
      /\ log = Append(r.log, [env |-> e, notes |-> taken])
  BY <1>1, <1>2 DEF SameMemory
<1> HIDE DEF kept, log
<1>8. /\ q \in Task /\ q.rev = done.rev + 1 /\ q.drained = kept /\ q.log = log
      /\ q.journal = done.journal /\ q.lastSeq = done.lastSeq /\ q.left = done.left
      /\ q.notes = done.notes /\ q.acts = done.acts /\ q.phase = done.phase /\ q.tasks = done.tasks
  BY <1>2, <1>6 DEF Task
<1> HIDE DEF q
<1>9. Gated(q)
  BY <1>2, <1>8 DEF Gated, SomeWaits
<1>10. /\ q.journal = r.journal /\ q.lastSeq = r.lastSeq /\ q.left = r.left /\ q.acts = r.acts
       /\ q.notes = eff.notes
  BY <1>1, <1>2, <1>8 DEF SameMemory
<1>11. e.cmd.kind = "TakeUserNotes" =>
         /\ taken = r.notes /\ q.notes = {}
         /\ q.drained = r.drained \cup {[id |-> e.id, notes |-> taken]}
  BY <1>1, <1>3, <1>7, <1>8, <1>10 DEF IsTaken
<1>12. e.cmd.kind # "TakeUserNotes" => taken = {} /\ q.notes = r.notes /\ q.drained = r.drained
  BY <1>1, <1>3, <1>7, <1>8, <1>10 DEF IsTaken
<1> QED BY <1>6, <1>7, <1>8, <1>9, <1>10, <1>11, <1>12, <1>q

\* What took effect is remembered as it was answered.
LEMMA EffectsAreRemembered ==
    ASSUME CommandsInv, NEW e \in Envs, NEW c \in Carried, NEW taken,
           ~Known(run, e), e.seq > run.lastSeq,
           ~Malformed(run, c), CarriedFor(c, e), IsTaken(run, c, taken),
           run' = Pushed(AfterEffect(run, e, c, taken), e, "applied")
    PROVE  /\ run' \in Task /\ JournalIsSound' /\ RecordsNameTheirCommand'
           /\ LogIsCounted' /\ AppliedIsLogged' /\ RefusedIsNotLogged'
           /\ Gated(run') /\ run'.acts = run.acts /\ run'.rev > run.rev /\ run'.left = run.left
           /\ run'.log = Append(run.log, [env |-> e, notes |-> taken])
           /\ \/ taken = run.notes /\ run'.notes = {}
              \/ taken = {} /\ run'.notes = run.notes
<1> DEFINE r == AfterEffect(run, e, c, taken)
<1>0. /\ run \in Task /\ JournalIsSound /\ LogIsCounted /\ AppliedIsLogged /\ RefusedIsNotLogged
  BY DEF CommandsInv, Types
<1>1. /\ r \in Task /\ r.journal = run.journal /\ r.lastSeq = run.lastSeq /\ r.left = run.left
      /\ r.log = Append(run.log, [env |-> e, notes |-> taken])
      /\ e.cmd.kind = "TakeUserNotes" =>
           /\ taken = run.notes /\ r.notes = {}
           /\ r.drained = run.drained \cup {[id |-> e.id, notes |-> taken]}
      /\ e.cmd.kind # "TakeUserNotes" => taken = {} /\ r.notes = run.notes /\ r.drained = run.drained
      /\ Gated(r) /\ r.acts = run.acts /\ r.rev > run.rev
  BY <1>0, EffectsAreLogged
<1>a. "applied" \in Outcomes /\ run' = Pushed(r, e, "applied")
  BY DEF Outcomes
<1> HIDE DEF r
<1>2. /\ run' \in Task /\ Beside(r, run')
      /\ \E lost \in {0, 1} : Recording(r, run', e, "applied", lost)
  <2>1. Len(r.journal) <= MaxJournal /\ \A i \in 1..Len(r.journal) : r.journal[i].env.seq <= r.lastSeq
    BY <1>0, <1>1 DEF JournalIsSound
  <2> QED BY <1>1, <1>a, <2>1, PushingRecords
<1>3. PICK lost \in {0, 1} : Recording(r, run', e, "applied", lost)
  BY <1>2
<1>4. Takes(run, r, e, "applied")
  BY <1>1 DEF Takes
<1>5. JournalIsSound' /\ RecordsNameTheirCommand'
  BY <1>1, <1>2, <1>3, <1>4, <1>a, RecordingIsSound
<1> DEFINE n == Len(run.journal)  m == Len(run'.journal)  len == Len(run.log)
<1>6. /\ n \in Nat /\ m = n + 1 - lost /\ m \in Nat /\ run'.lastSeq = e.seq
      /\ e.seq \in Nat /\ run.lastSeq \in Nat
      /\ run'.journal[m] = [id |-> e.id, env |-> e, outcome |-> "applied"]
      /\ run'.drained \subseteq r.drained
  <2>1. n \in Nat /\ m \in Nat /\ run.lastSeq \in Nat
    BY <1>0, <1>2, TaskParts
  <2>2. e.seq \in Nat
    BY DEF Envs
  <2>3. /\ m = n + 1 - lost /\ run'.lastSeq = e.seq
        /\ run'.journal[m] = [id |-> e.id, env |-> e, outcome |-> "applied"]
        /\ run'.drained \subseteq r.drained
    BY <1>1, <1>3 DEF Recording
  <2> QED BY <2>1, <2>2, <2>3
<1>7. /\ len \in Nat /\ Len(run'.log) = len + 1
      /\ run'.log[len + 1] = [env |-> e, notes |-> taken]
      /\ \A k \in 1..len : run'.log[k] = run.log[k]
  <2>1. run'.log = Append(run.log, [env |-> e, notes |-> taken])
    BY <1>1, <1>2 DEF Beside
  <2>2. run.log \in Seq(Effected) /\ len \in Nat
    BY <1>0, TaskParts
  <2> QED BY <2>1, <2>2
<1>8. ASSUME NEW k \in 1..len
      PROVE  run.log[k].env.seq <= run.lastSeq /\ run.log[k].env.seq \in Nat
  <2>1. run.log[k].env.seq \in Nat
    BY <1>0, TaskParts
  <2> QED BY <1>0, <2>1 DEF LogIsCounted
<1>9. ASSUME NEW i \in 1..m, i # m
      PROVE  /\ i + lost \in 1..n /\ run'.journal[i] = run.journal[i + lost]
             /\ run'.journal[i].id # e.id /\ run'.journal[i].env # e
  <2>1. i + lost \in 1..n /\ i \in 1..(m - 1)
    BY <1>6, <1>9
  <2>2. run'.journal[i] = run.journal[i + lost]
    BY <1>1, <1>3, <2>1 DEF Recording
  <2>3. run.journal[i + lost].id # e.id
    BY <2>1 DEF Known, Recorded
  <2>4. run.journal[i + lost].env # e
    <3>1. run.journal[i + lost].env.seq <= run.lastSeq
      BY <1>0, <2>1 DEF JournalIsSound
    <3> QED BY <1>6, <3>1
  <2> QED BY <2>1, <2>2, <2>3, <2>4
<1>10. LogIsCounted'
  <2>1. ASSUME NEW k \in 1..len
        PROVE  run'.log[k].env.seq <= e.seq /\ run'.log[k].env.seq # e.seq
    <3> DEFINE x == run'.log[k].env.seq
    <3>1. x \in Nat /\ x <= run.lastSeq
      BY <1>7, <1>8
    <3> HIDE DEF x
    <3>2. x <= e.seq /\ x # e.seq
      BY <1>6, <3>1
    <3> QED BY <3>2 DEF x
  <2>2. m \in 1..m /\ run'.journal[m].env = e /\ run'.log[len + 1].env = e /\ e.seq <= e.seq
    <3>1. lost = 0 \/ (lost = 1 /\ n >= 1)
      BY <1>1, <1>3 DEF Recording
    <3>2. m \in 1..m
      BY <1>6, <3>1
    <3> QED BY <1>6, <1>7, <3>2
  <2> SUFFICES ASSUME NEW k \in 1..(len + 1)
               PROVE  /\ run'.log[k].env.seq <= e.seq
                      /\ run'.log[k].env.seq = e.seq =>
                           \E i \in 1..m : run'.journal[i].env = run'.log[k].env
    BY <1>6, <1>7 DEF LogIsCounted
  <2>3. CASE k \in 1..len
    BY <2>1, <2>3
  <2>4. CASE k = len + 1
    BY <2>2, <2>4
  <2> QED BY <1>7, <2>3, <2>4
<1>11. AppliedIsLogged'
  <2>1. ASSUME NEW i \in 1..m, run'.journal[i].outcome = "applied"
        PROVE  \E k \in 1..(len + 1) : IsLogged(run', i, k)
    <3>1. CASE i # m
      <4>1. PICK k \in 1..len : IsLogged(run, i + lost, k)
        BY <1>0, <1>9, <2>1, <3>1 DEF AppliedIsLogged
      <4>2. \A d \in run'.drained : d.id = run'.journal[i].id => d \in run.drained
        <5>1. run'.journal[i].id # e.id
          BY <1>9, <3>1
        <5>2. ASSUME NEW d \in run'.drained, d.id # e.id PROVE d \in run.drained
          <6>1. d \in r.drained
            BY <1>6
          <6>2. d \notin {[id |-> e.id, notes |-> taken]}
            BY <5>2
          <6> QED BY <1>1, <6>1, <6>2
        <5> HIDE DEF m
        <5> QED BY <5>1, <5>2
      <4>3. IsLogged(run', i, k)
        BY <1>7, <1>9, <3>1, <4>1, <4>2 DEF IsLogged
      <4> QED BY <1>7, <4>3
    <3>2. CASE i = m
      <4>1. ASSUME e.cmd.kind = "TakeUserNotes", NEW d \in run'.drained, d.id = e.id
            PROVE  d.notes = taken
        <5>1. d \notin run.drained
          BY <1>0, <4>1, DrainedIsRecorded DEF CommandsInv, Known, Recorded
        <5> QED BY <1>1, <1>6, <4>1, <5>1
      <4>2. run'.journal[m].env = e /\ run'.journal[m].id = e.id
            /\ run'.log[len + 1].env = e /\ run'.log[len + 1].notes = taken
        BY <1>6, <1>7
      <4>3. e.cmd.kind # "TakeUserNotes" => taken = {}
        BY <1>1
      <4> HIDE DEF m, len
      <4>4. IsLogged(run', m, len + 1)
        BY <4>1, <4>2, <4>3 DEF IsLogged
      <4>5. len + 1 \in 1..(len + 1)
        BY <1>7
      <4> QED BY <3>2, <4>4, <4>5
    <3> QED BY <3>1, <3>2
  <2> QED BY <1>7, <2>1 DEF AppliedIsLogged
<1>12. RefusedIsNotLogged'
  <2> SUFFICES ASSUME NEW i \in 1..m, NEW k \in 1..(len + 1), run'.journal[i].outcome # "applied"
               PROVE  run'.log[k].env # run'.journal[i].env
    BY <1>7 DEF RefusedIsNotLogged
  <2>1. i # m
    BY <1>6
  <2>2. CASE k \in 1..len
    BY <1>0, <1>7, <1>9, <2>1, <2>2 DEF RefusedIsNotLogged
  <2>3. CASE k = len + 1
    BY <1>7, <1>9, <2>1, <2>3
  <2> QED BY <1>7, <2>2, <2>3
<1>13. Gated(run') /\ run'.acts = run.acts /\ run'.rev > run.rev /\ run'.left = run.left
       /\ run'.log = Append(run.log, [env |-> e, notes |-> taken]) /\ run'.notes = r.notes
  BY <1>1, <1>2 DEF Beside, Gated, SomeWaits
<1> QED BY <1>1, <1>2, <1>5, <1>10, <1>11, <1>12, <1>13

(* ---- Answers --------------------------------------------------------------------------- *)

\* A known command is answered with what became of it, or that its id is another's.
LEMMA KnownIsAnsweredTruly ==
    ASSUME CommandsInv, NEW e \in Envs, Known(run, e),
           Answers(e, PreflightAnswer(run, e)), UNCHANGED run
    PROVE  AnswersAreTrue'
<1> DEFINE i == CHOOSE i \in Recorded(run, e.id) : TRUE
           rec == run.journal[i]
           given == CHOOSE d \in run.drained : d.id = rec.id
<1>0. /\ run \in Task /\ JournalIsSound /\ LogIsCounted /\ AppliedIsLogged /\ RefusedIsNotLogged
      /\ RecordsNameTheirCommand
  BY DEF CommandsInv, Types
<1>1. i \in Recorded(run, e.id)
  BY DEF Known
<1>2. i \in 1..Len(run.journal) /\ rec.id = e.id /\ rec \in Entries
  BY <1>0, <1>1, TaskParts DEF Recorded
<1>3. \A k \in 1..Len(run.log) : run.log[k] = [env |-> run.log[k].env, notes |-> run.log[k].notes]
  BY <1>0, TaskParts DEF Effected
<1>p. /\ rec.env = e => PreflightAnswer(run, e) = Replayed(run, rec)
      /\ rec.env # e => PreflightAnswer(run, e) = [status |-> "duplicate", notes |-> {}]
  BY DEF PreflightAnswer
<1> HIDE DEF i
<1>4. CASE rec.env = e /\ rec.outcome = "applied"
  <2>1. PICK k \in 1..Len(run.log) : IsLogged(run, i, k)
    BY <1>0, <1>2, <1>4 DEF AppliedIsLogged
  <2>2. run.log[k].env = e
    BY <1>4, <2>1 DEF IsLogged
  <2>3. Replayed(run, rec) = [status |-> "applied", notes |-> run.log[k].notes]
    <3>1. CASE e.cmd.kind = "TakeUserNotes"
      <4>1. \E d \in run.drained : d.id = rec.id
        BY <1>0, <1>2, <1>4, <3>1, DrainedIsRecorded DEF CommandsInv
      <4>2. given \in run.drained /\ given.id = rec.id
        BY <4>1
      <4>3. given.notes = run.log[k].notes
        BY <1>4, <2>1, <3>1, <4>2 DEF IsLogged
      <4> QED BY <1>4, <3>1, <4>1, <4>3 DEF Replayed
    <3>2. CASE e.cmd.kind # "TakeUserNotes"
      BY <1>4, <2>1, <3>2 DEF Replayed, IsLogged
    <3> QED BY <3>1, <3>2
  <2>4. receipt' = [env |-> e, status |-> "applied", notes |-> run.log[k].notes]
    BY <1>4, <1>p, <2>3 DEF Answers
  <2>5. run.log[k] = [env |-> e, notes |-> run.log[k].notes]
    BY <1>3, <2>2
  <2> QED BY <2>4, <2>5 DEF AnswersAreTrue
<1>5. CASE rec.env = e /\ rec.outcome # "applied"
  <2>1. rec.outcome \in {"invalid", "stale"} /\ receipt' = [env |-> e, status |-> rec.outcome, notes |-> {}]
    <3>1. rec.outcome \in {"invalid", "stale"}
      BY <1>2, <1>5 DEF Entries, Outcomes
    <3>2. Replayed(run, rec) = [status |-> rec.outcome, notes |-> {}]
      BY <3>1 DEF Replayed
    <3>3. PreflightAnswer(run, e) = [status |-> rec.outcome, notes |-> {}]
      BY <1>5, <1>p, <3>2
    <3> HIDE DEF rec
    <3> QED BY <3>1, <3>3 DEF Answers
  <2>2. \A k \in 1..Len(run.log) : run.log[k].env # e
    BY <1>0, <1>2, <1>5 DEF RefusedIsNotLogged
  <2> QED BY <2>1, <2>2 DEF AnswersAreTrue
<1>6. CASE rec.env # e
  <2>1. receipt' = [env |-> e, status |-> "duplicate", notes |-> {}]
    BY <1>6, <1>p DEF Answers
  <2>2. ASSUME NEW k \in 1..Len(run.log), run.log[k].env = e PROVE e.seq < run.lastSeq
    <3>1. e.seq <= run.lastSeq /\ e.seq \in Nat /\ run.lastSeq \in Nat
      BY <1>0, <2>2, TaskParts DEF LogIsCounted
    <3>2. ASSUME e.seq = run.lastSeq PROVE FALSE
      <4>1. PICK j \in 1..Len(run.journal) : run.journal[j].env = e
        BY <1>0, <2>2, <3>2 DEF LogIsCounted
      <4>2. run.journal[j].id = rec.id
        BY <1>0, <1>2, <4>1 DEF RecordsNameTheirCommand
      <4>3. i = j
        <5>1. \A a, b \in 1..Len(run.journal) : a < b => run.journal[a].id # run.journal[b].id
          BY <1>0 DEF JournalIsSound
        <5>2. i \in 1..Len(run.journal) /\ j \in 1..Len(run.journal) /\ Len(run.journal) \in Nat
          BY <1>0, <1>2, TaskParts
        <5>3. ~(i < j) /\ ~(j < i)
          BY <4>2, <5>1, <5>2
        <5> QED BY <5>2, <5>3
      <4> QED BY <1>6, <4>1, <4>3
    <3> QED BY <3>1, <3>2
  <2> QED BY <2>1, <2>2 DEF AnswersAreTrue
<1> QED BY <1>4, <1>5, <1>6

\* A command that is not known and has no new number did not take effect, or is forgotten.
LEMMA PastIsAnsweredTruly ==
    ASSUME CommandsInv, NEW e \in Envs, ~Known(run, e), e.seq <= run.lastSeq,
           Answers(e, [status |-> "stale", notes |-> {}]), UNCHANGED run
    PROVE  AnswersAreTrue'
<1>0. run \in Task /\ LogIsCounted /\ RecordsNameTheirCommand
  BY DEF CommandsInv, Types
<1>1. receipt' = [env |-> e, status |-> "stale", notes |-> {}]
  BY DEF Answers
<1>2. ASSUME NEW k \in 1..Len(run.log), run.log[k].env = e PROVE e.seq < run.lastSeq
  <2>1. e.seq \in Nat /\ run.lastSeq \in Nat
    BY <1>0, <1>2, TaskParts
  <2>2. ASSUME e.seq = run.lastSeq PROVE FALSE
    <3>1. PICK j \in 1..Len(run.journal) : run.journal[j].env = e
      BY <1>0, <1>2, <2>2 DEF LogIsCounted
    <3> QED BY <1>0, <3>1 DEF RecordsNameTheirCommand, Known, Recorded
  <2> QED BY <2>1, <2>2
<1> QED BY <1>1, <1>2 DEF AnswersAreTrue

(* ---- The owner and the host --------------------------------------------------------------- *)

\* An act of the owner or the host makes decisions void, or changes nothing they rest on.
Voids(r, q) ==
    /\ q.rev >= r.rev
    /\ q.acts = r.acts \/ (q.rev < MaxRev => q.rev > r.rev)

\* What is fresh stays fresh, whatever happens.
LEMMA FreshnessIsKept ==
    ASSUME NEW r \in Task, NEW q \in Task, Voids(r, q), NEW e \in Envs, IsFresh(r, e)
    PROVE  IsFresh(q, e)
<1>1. r.rev \in Nat /\ q.rev \in Nat /\ e.expected \in Nat
  BY TaskParts DEF Envs
<1> QED BY <1>1 DEF Voids, IsFresh

\* A note that is left, if any: it is new.
LeavesNote(r, q) ==
    \/ q.notes = r.notes /\ q.left = r.left
    \/ \E n \in Notes \ r.left : q.notes = r.notes \cup {n} /\ q.left = r.left \cup {n}

\* The memory of commands is left alone.
KeepsJournal(r, q) ==
    q.lastSeq = r.lastSeq /\ q.journal = r.journal /\ q.drained = r.drained /\ q.log = r.log

OwnerMoves ==
    /\ run' \in Task /\ KeepsJournal(run, run') /\ LeavesNote(run, run')
    /\ Voids(run, run') /\ Gated(run')
    /\ receipt' = NoReceipt /\ sent' \subseteq sent /\ admitted' \subseteq admitted

\* A transition of the lifecycle is such a move, whether or not it makes decisions void.
LEMMA LifecycleMoves ==
    ASSUME CommandsInv, NEW q \in Task, SameWork(run, q),
           run' \in {q, Invalidated(q), Invalidated(Invalidated(q))},
           receipt' = NoReceipt, sent' \subseteq sent, admitted' \subseteq admitted
    PROVE  OwnerMoves
<1>0. run \in Task /\ Gated(run)
  BY DEF CommandsInv, Types, GateWaitsForWork, Gated
<1>1. Gated(q) /\ q.rev = run.rev /\ q.acts = run.acts /\ SameMemory(run, q)
  BY <1>0 DEF SameWork, Gated, SomeWaits
<1>2. run.rev \in Nat
  BY <1>0, TaskParts
<1> DEFINE s == Invalidated(q)  t == Invalidated(s)
<1>3. /\ s \in Task /\ SameMemory(q, s) /\ s.phase = q.phase /\ s.tasks = q.tasks
      /\ s.rev \in Nat /\ s.rev >= q.rev /\ (s.rev < MaxRev => s.rev > q.rev)
  BY InvalidationVoids, TaskParts
<1> HIDE DEF s
<1>4. /\ t \in Task /\ SameMemory(s, t) /\ t.phase = s.phase /\ t.tasks = s.tasks
      /\ t.rev \in Nat /\ t.rev >= s.rev /\ (t.rev < MaxRev => t.rev > s.rev)
  BY <1>3, InvalidationVoids, TaskParts
<1> HIDE DEF t
<1>5. CASE run' = q
  BY <1>1, <1>2, <1>5 DEF OwnerMoves, KeepsJournal, LeavesNote, Voids, SameMemory
<1>6. CASE run' = s
  <2>1. Gated(s)
    BY <1>1, <1>3 DEF Gated, SomeWaits
  <2> QED BY <1>1, <1>2, <1>3, <1>6, <2>1 DEF OwnerMoves, KeepsJournal, LeavesNote, Voids, SameMemory
<1>7. CASE run' = t
  <2>1. Gated(t)
    BY <1>1, <1>3, <1>4 DEF Gated, SomeWaits
  <2>2. t.rev >= run.rev /\ (t.rev < MaxRev => t.rev > run.rev)
    BY <1>1, <1>2, <1>3, <1>4
  <2> QED BY <1>1, <1>3, <1>4, <1>7, <2>1, <2>2 DEF OwnerMoves, KeepsJournal, LeavesNote, Voids, SameMemory
<1> QED BY <1>5, <1>6, <1>7 DEF s, t

\* Everything the owner and the host do is such a move.
LEMMA OwnersAndHostsMove ==
    ASSUME CommandsInv,
           \/ AskToStop \/ HostSettles \/ ResumeTeamRun \/ HostBlocks \/ BeginResolvingBlocked
           \/ ResolveSettles \/ ToolFindsRun \/ MessageTeam \/ RerunSubTasks \/ Restart
    PROVE  OwnerMoves
<1>0. run \in Task /\ Gated(run) /\ run.tasks \in Seq(SubTasks)
  BY DEF CommandsInv, Types, GateWaitsForWork, Gated, Task
<1> USE DEF Acts, Writes
<1>1. CASE AskToStop
  BY <1>0, <1>1, LifecycleKeepsWork, LifecycleMoves DEF AskToStop
<1>2. CASE HostSettles
  BY <1>0, <1>2, LifecycleKeepsWork, LifecycleMoves DEF HostSettles
<1>3. CASE ResumeTeamRun
  BY <1>0, <1>3, LifecycleKeepsWork, LifecycleMoves DEF ResumeTeamRun
<1>4. CASE HostBlocks \/ BeginResolvingBlocked \/ ResolveSettles
  BY <1>0, <1>4, LifecycleKeepsWork, LifecycleMoves DEF HostBlocks, BeginResolvingBlocked, ResolveSettles
<1>5. CASE ToolFindsRun
  BY <1>0, <1>5, LifecycleMoves DEF ToolFindsRun, SameWork, SameMemory
<1>6. CASE Restart
  <2> DEFINE q == ReconcileAfterRestore(run)
  <2>1. run' = q \/ run' = Invalidated(q)
    BY <1>6 DEF Restart
  <2> QED BY <1>0, <1>6, <2>1, LifecycleKeepsWork, LifecycleMoves DEF Restart
<1>7. CASE MessageTeam
  <2>1. PICK n \in Notes \ run.left :
          LET r == [run EXCEPT !.notes = @ \cup {n}, !.left = @ \cup {n}]
          IN  Writes(Revived(r, {i \in 1..Len(r.tasks) : r.tasks[i].status = "Escalated"}))
    BY <1>7 DEF MessageTeam
  <2> DEFINE r == [run EXCEPT !.notes = run.notes \cup {n}, !.left = run.left \cup {n}]
             chosen == {i \in 1..Len(r.tasks) : r.tasks[i].status = "Escalated"}
             q == Revived(r, chosen)
  <2>2. r \in Task /\ KeepsJournal(run, r) /\ LeavesNote(run, r)
        /\ r.rev = run.rev /\ r.acts = run.acts /\ r.phase = run.phase /\ r.tasks = run.tasks
    BY <1>0 DEF Task, KeepsJournal, LeavesNote
  <2>3. run' = q /\ receipt' = NoReceipt /\ sent' = sent /\ admitted' = admitted
    BY <2>1
  <2> HIDE DEF r
  <2>4. Gated(r)
    BY <1>0, <2>2 DEF Gated, SomeWaits
  <2>5. chosen \in SUBSET (1..Len(r.tasks))
    OBVIOUS
  <2> HIDE DEF chosen
  <2>6. q \in Task /\ SameMemory(r, q) /\ Gated(q) /\ Voids(r, q)
    BY <2>2, <2>4, <2>5, RevivalVoids DEF Voids
  <2> HIDE DEF q
  <2> QED BY <2>2, <2>3, <2>6 DEF OwnerMoves, KeepsJournal, LeavesNote, Voids, SameMemory
<1>8. CASE RerunSubTasks
  <2>1. PICK named \in SUBSET (1..Len(run.tasks)) :
          Writes(Revived(run, IF \A i \in named : run.tasks[i].status \in Over THEN named ELSE {}))
    BY <1>8 DEF RerunSubTasks
  <2> DEFINE chosen == IF \A i \in named : run.tasks[i].status \in Over THEN named ELSE {}
             q == Revived(run, chosen)
  <2>2. run' = q /\ receipt' = NoReceipt /\ sent' = sent /\ admitted' = admitted
    BY <2>1
  <2>3. chosen \in SUBSET (1..Len(run.tasks))
    OBVIOUS
  <2> HIDE DEF chosen
  <2>4. q \in Task /\ SameMemory(run, q) /\ Gated(q) /\ Voids(run, q)
    BY <1>0, <2>3, RevivalVoids DEF Voids
  <2> HIDE DEF q
  <2> QED BY <2>2, <2>4 DEF OwnerMoves, KeepsJournal, LeavesNote, SameMemory
<1> QED BY <1>1, <1>2, <1>3, <1>4, <1>5, <1>6, <1>7, <1>8


(* ---- Notes ---------------------------------------------------------------------------------- *)

\* A note that is left waits; it was given to nobody.
LEMMA NotesAreLeft ==
    ASSUME NotesAreGivenOnce, LeavesNote(run, run'), run'.log = run.log
    PROVE  NotesAreGivenOnce'
<1> DEFINE all == UNION {run.log[i].notes : i \in 1..Len(run.log)}
<1>1. /\ run.left = run.notes \cup all
      /\ \A i \in 1..Len(run.log) : run.log[i].notes \cap run.notes = {}
      /\ \A i, j \in 1..Len(run.log) : i # j => run.log[i].notes \cap run.log[j].notes = {}
  BY DEF NotesAreGivenOnce
<1>2. \A i \in 1..Len(run.log) : run.log[i].notes \subseteq all
  OBVIOUS
<1> HIDE DEF all
<1>3. run'.left = run'.notes \cup all
  BY <1>1 DEF LeavesNote
<1>4. ASSUME NEW i \in 1..Len(run.log) PROVE run.log[i].notes \cap run'.notes = {}
  <2>1. run.log[i].notes \subseteq run.left /\ run.log[i].notes \cap run.notes = {}
    BY <1>1, <1>2
  <2> QED BY <2>1 DEF LeavesNote
<1> QED BY <1>1, <1>3, <1>4 DEF NotesAreGivenOnce, all

\* A command takes all of the notes that wait, or none.
LEMMA NotesAreTaken ==
    ASSUME NotesAreGivenOnce, run \in Task, NEW e, NEW taken,
           run'.log = Append(run.log, [env |-> e, notes |-> taken]), run'.left = run.left,
           \/ taken = run.notes /\ run'.notes = {}
           \/ taken = {} /\ run'.notes = run.notes
    PROVE  NotesAreGivenOnce'
<1> DEFINE all == UNION {run.log[i].notes : i \in 1..Len(run.log)}
           all2 == UNION {run'.log[i].notes : i \in 1..Len(run'.log)}
           len == Len(run.log)
<1>1. /\ run.left = run.notes \cup all
      /\ \A i \in 1..len : run.log[i].notes \cap run.notes = {}
      /\ \A i, j \in 1..len : i # j => run.log[i].notes \cap run.log[j].notes = {}
  BY DEF NotesAreGivenOnce
<1>2. /\ len \in Nat /\ Len(run'.log) = len + 1
      /\ run'.log[len + 1].notes = taken
      /\ \A k \in 1..len : run'.log[k] = run.log[k]
  <2>1. run.log \in Seq(Effected) /\ len \in Nat
    BY TaskParts
  <2> QED BY <2>1
<1>3. all2 = all \cup taken
  <2>1. ASSUME NEW x \in all2 PROVE x \in all \cup taken
    <3>1. PICK i \in 1..(len + 1) : x \in run'.log[i].notes
      BY <1>2
    <3>2. CASE i = len + 1
      BY <1>2, <3>1, <3>2
    <3>3. CASE i \in 1..len
      BY <1>2, <3>1, <3>3
    <3> QED BY <1>2, <3>2, <3>3
  <2>2. ASSUME NEW x \in taken PROVE x \in all2
    <3>1. len + 1 \in 1..Len(run'.log)
      BY <1>2
    <3> QED BY <1>2, <3>1
  <2>3. ASSUME NEW x \in all PROVE x \in all2
    <3>1. PICK i \in 1..len : x \in run.log[i].notes
      OBVIOUS
    <3>2. i \in 1..Len(run'.log) /\ x \in run'.log[i].notes
      BY <1>2, <3>1
    <3> QED BY <3>2
  <2> QED BY <2>1, <2>2, <2>3
<1>4. run'.left = run'.notes \cup all2
  <2> HIDE DEF all, all2
  <2> QED BY <1>1, <1>3
<1>5. ASSUME NEW i \in 1..(len + 1) PROVE run'.log[i].notes \cap run'.notes = {}
  BY <1>1, <1>2
<1>6. ASSUME NEW i \in 1..(len + 1), NEW j \in 1..(len + 1), i # j
      PROVE  run'.log[i].notes \cap run'.log[j].notes = {}
  <2>1. CASE i \in 1..len /\ j \in 1..len
    BY <1>1, <1>2, <1>6, <2>1
  <2>2. CASE i = len + 1 /\ j \in 1..len
    BY <1>1, <1>2, <2>2
  <2>3. CASE i \in 1..len /\ j = len + 1
    BY <1>1, <1>2, <2>3
  <2> QED BY <1>2, <1>6, <2>1, <2>2, <2>3
<1> QED BY <1>2, <1>4, <1>5, <1>6 DEF NotesAreGivenOnce

(* ---- The steps -------------------------------------------------------------------------------- *)

\* The rest of the invariant when the record, apart from its counters and its plan, is
\* left alone.
LEMMA OwnerKeepsInv ==
    ASSUME CommandsInv, OwnerMoves
    PROVE  CommandsInv'
<1>0. run \in Task /\ run' \in Task /\ sent \subseteq Envs /\ admitted \subseteq Admissions
  BY DEF CommandsInv, Types, OwnerMoves
<1>1. /\ run'.journal = run.journal /\ run'.log = run.log /\ run'.lastSeq = run.lastSeq
      /\ run'.drained = run.drained
  BY DEF OwnerMoves, KeepsJournal
<1>2. Types'
  BY <1>0 DEF Types, OwnerMoves
<1>3. JournalIsSound' /\ RecordsNameTheirCommand'
  <2>1. JournalIsSound /\ RecordsNameTheirCommand
    BY DEF CommandsInv
  <2>2. JournalIsSound'
    <3> DEFINE taking(j) == {k \in 1..Len(j) : j[k].outcome = "applied"
                                              /\ j[k].env.cmd.kind = "TakeUserNotes"}
               kept(r) == {d.id : d \in r.drained} = {r.journal[i].id : i \in taking(r.journal)}
    <3>1. kept(run) => kept(run')
      BY <1>1
    <3>2. kept(run)
      BY <2>1 DEF JournalIsSound
    <3>3. /\ Len(run'.journal) <= MaxJournal
          /\ \A i \in 1..Len(run'.journal) : run'.journal[i].env.seq <= run'.lastSeq
          /\ \A i, j \in 1..Len(run'.journal) : i < j => run'.journal[i].id # run'.journal[j].id
      BY <1>1, <2>1 DEF JournalIsSound
    <3> QED BY <3>1, <3>2, <3>3 DEF JournalIsSound
  <2>3. RecordsNameTheirCommand'
    BY <1>1, <2>1 DEF RecordsNameTheirCommand
  <2> QED BY <2>2, <2>3
<1>4. LogIsCounted' /\ RefusedIsNotLogged'
  BY <1>1 DEF CommandsInv, LogIsCounted, RefusedIsNotLogged
<1>5. AppliedIsLogged'
  <2>1. AppliedIsLogged
    BY DEF CommandsInv
  <2>2. \A i \in 1..Len(run.journal), k \in 1..Len(run.log) : IsLogged(run, i, k) => IsLogged(run', i, k)
    BY <1>1 DEF IsLogged
  <2> QED BY <1>1, <2>1, <2>2 DEF AppliedIsLogged
<1>6. NotesAreGivenOnce'
  BY <1>1, NotesAreLeft DEF CommandsInv, OwnerMoves
<1>7. AnswersAreTrue' /\ GateWaitsForWork'
  BY DEF OwnerMoves, AnswersAreTrue, GateWaitsForWork, Gated
<1>8. PendingIsFresh'
  <2>1. ASSUME NEW e \in sent' PROVE IsFresh(run', e)
    BY <1>0, <2>1, FreshnessIsKept DEF OwnerMoves, CommandsInv, PendingIsFresh
  <2>2. ASSUME NEW a \in admitted' PROVE IsFresh(run', a.env)
    <3>1. a \in admitted /\ a.env \in Envs
      BY <1>0 DEF OwnerMoves, Admissions
    <3> QED BY <1>0, <3>1, FreshnessIsKept DEF OwnerMoves, CommandsInv, PendingIsFresh
  <2> QED BY <2>1, <2>2 DEF PendingIsFresh
<1> QED BY <1>2, <1>3, <1>4, <1>5, <1>6, <1>7, <1>8 DEF CommandsInv

\* What is said of the record holds while it is not touched.
LEMMA RecordStays ==
    ASSUME CommandsInv, run' = run
    PROVE  /\ JournalIsSound' /\ RecordsNameTheirCommand' /\ LogIsCounted' /\ AppliedIsLogged'
           /\ RefusedIsNotLogged' /\ NotesAreGivenOnce' /\ GateWaitsForWork'
<1>1. /\ JournalIsSound /\ RecordsNameTheirCommand /\ LogIsCounted /\ AppliedIsLogged
      /\ RefusedIsNotLogged /\ NotesAreGivenOnce /\ GateWaitsForWork
  BY DEF CommandsInv
<1>2. JournalIsSound' /\ NotesAreGivenOnce'
  BY <1>1 DEF JournalIsSound, NotesAreGivenOnce
<1>3. RecordsNameTheirCommand' /\ LogIsCounted' /\ RefusedIsNotLogged'
  BY <1>1 DEF RecordsNameTheirCommand, LogIsCounted, RefusedIsNotLogged
<1>4. AppliedIsLogged' /\ GateWaitsForWork'
  BY <1>1 DEF AppliedIsLogged, GateWaitsForWork, SomeWaits
<1> QED BY <1>2, <1>3, <1>4

\* A command that arrives is answered truly, or waits.
LEMMA SubmissionsKeepInv ==
    ASSUME CommandsInv, NEW e \in Envs, IsFresh(run, e), Submits(e), run' = run,
           sent' \subseteq sent \cup {e}
    PROVE  CommandsInv'
<1>0. run \in Task /\ sent \subseteq Envs /\ admitted \subseteq Admissions
  BY DEF CommandsInv, Types
<1>1. AnswersAreTrue' /\ admitted' \subseteq admitted \cup {a \in Admissions : a.env = e}
  <2>1. CASE Known(run, e) /\ Answers(e, PreflightAnswer(run, e)) /\ UNCHANGED admitted
    BY <2>1, KnownIsAnsweredTruly
  <2>2. ASSUME NEW blocked \in BOOLEAN, blocked => e.cmd.kind = "SettleRun",
               admitted' = admitted \cup {[env |-> e, blocked |-> blocked]}, receipt' = NoReceipt
        PROVE  AnswersAreTrue' /\ admitted' \subseteq admitted \cup {a \in Admissions : a.env = e}
    <3>1. [env |-> e, blocked |-> blocked] \in Admissions
      BY <2>2 DEF Admissions
    <3> QED BY <2>2, <3>1 DEF AnswersAreTrue
  <2> QED BY <2>1, <2>2 DEF Submits
<1>2. Types'
  BY <1>0, <1>1 DEF Types, Admissions
<1>3. PendingIsFresh'
  BY <1>1 DEF CommandsInv, PendingIsFresh
<1>4. /\ JournalIsSound' /\ RecordsNameTheirCommand' /\ LogIsCounted' /\ AppliedIsLogged'
      /\ RefusedIsNotLogged' /\ NotesAreGivenOnce' /\ GateWaitsForWork'
  BY RecordStays
<1> QED BY <1>1, <1>2, <1>3, <1>4 DEF CommandsInv


\* The reducer answers what it knows, and writes down whatever else it is given.
LEMMA ReducerKeepsInv ==
    ASSUME CommandsInv, NEW a \in admitted, ApplyTeamCommand(a)
    PROVE  CommandsInv'
<1> DEFINE e == a.env
           c == IF a.blocked THEN [kind |-> "BlockRun"] ELSE e.cmd
           taken == IF c.kind = "TakeUserNotes" THEN run.notes ELSE {}
<1>0. /\ run \in Task /\ sent \subseteq Envs /\ admitted \subseteq Admissions
      /\ sent' = sent /\ admitted' = admitted \ {a}
  BY DEF CommandsInv, Types, ApplyTeamCommand
<1>1. e \in Envs /\ a.blocked \in BOOLEAN /\ (a.blocked => e.cmd.kind = "SettleRun")
  BY <1>0 DEF Admissions
<1>2. c \in Carried /\ CarriedFor(c, e) /\ IsTaken(run, c, taken)
  <2>1. e.cmd \in Commands
    BY <1>1 DEF Envs
  <2>2. c \in Carried /\ CarriedFor(c, e)
    BY <1>1, <2>1 DEF Carried, CarriedFor
  <2> QED BY <2>2 DEF IsTaken
<1>3. ASSUME UNCHANGED run, AnswersAreTrue' PROVE CommandsInv'
  <2>1. Types'
    BY <1>0, <1>3 DEF Types
  <2>2. PendingIsFresh'
    BY <1>0, <1>3 DEF CommandsInv, PendingIsFresh
  <2> QED BY <1>3, <2>1, <2>2, RecordStays DEF CommandsInv
<1>4. ASSUME run' \in Task, Voids(run, run') PROVE Types' /\ PendingIsFresh'
  <2>1. Types'
    BY <1>0, <1>4 DEF Types
  <2>2. ASSUME NEW d \in sent PROVE IsFresh(run', d)
    BY <1>0, <1>4, FreshnessIsKept DEF CommandsInv, PendingIsFresh
  <2>3. ASSUME NEW b \in admitted PROVE IsFresh(run', b.env)
    <3>1. b.env \in Envs
      BY <1>0 DEF Admissions
    <3> QED BY <1>0, <1>4, <3>1, FreshnessIsKept DEF CommandsInv, PendingIsFresh
  <2> QED BY <1>0, <2>1, <2>2, <2>3 DEF PendingIsFresh
<1> HIDE DEF taken, c, e
<1>5. CASE Known(run, e) /\ Answers(e, PreflightAnswer(run, e)) /\ UNCHANGED run
  BY <1>1, <1>3, <1>5, KnownIsAnsweredTruly
<1>6. CASE /\ ~Known(run, e) /\ e.seq <= run.lastSeq
           /\ Answers(e, [status |-> "stale", notes |-> {}]) /\ UNCHANGED run
  BY <1>1, <1>3, <1>6, PastIsAnsweredTruly
<1>7. ASSUME NEW o \in {"stale", "invalid"}, ~Known(run, e), e.seq > run.lastSeq, Rejects(e, o)
      PROVE  CommandsInv'
  <2>1. run' = Pushed(run, e, o) /\ receipt' = [env |-> e, status |-> o, notes |-> {}]
    BY <1>7 DEF Rejects, Answers
  <2>2. /\ run' \in Task /\ Beside(run, run') /\ JournalIsSound' /\ RecordsNameTheirCommand'
        /\ LogIsCounted' /\ AppliedIsLogged' /\ RefusedIsNotLogged'
    BY <1>1, <1>7, <2>1, RefusalsAreRemembered
  <2>3. Voids(run, run') /\ LeavesNote(run, run') /\ run'.log = run.log
    BY <1>0, <2>2, TaskParts DEF Beside, Voids, LeavesNote
  <2>4. NotesAreGivenOnce' /\ GateWaitsForWork'
    BY <2>2, <2>3, NotesAreLeft DEF CommandsInv, Beside, GateWaitsForWork, SomeWaits
  <2>5. ASSUME NEW k \in 1..Len(run.log) PROVE run.log[k].env # e
    <3>1. run.log[k].env.seq <= run.lastSeq
      BY DEF CommandsInv, LogIsCounted
    <3>2. run.log[k].env.seq \in Nat /\ run.lastSeq \in Nat
      BY <1>0, TaskParts
    <3> QED BY <1>7, <3>1, <3>2
  <2>6. AnswersAreTrue'
    BY <2>1, <2>3, <2>5 DEF AnswersAreTrue
  <2> QED BY <1>4, <2>2, <2>3, <2>4, <2>6 DEF CommandsInv
<1>8. ASSUME ~Known(run, e), e.seq > run.lastSeq, ~Malformed(run, c),
             run' = Pushed(AfterEffect(run, e, c, taken), e, "applied"),
             Answers(e, [status |-> "applied", notes |-> taken])
      PROVE  CommandsInv'
  <2>1. /\ run' \in Task /\ JournalIsSound' /\ RecordsNameTheirCommand'
        /\ LogIsCounted' /\ AppliedIsLogged' /\ RefusedIsNotLogged'
        /\ Gated(run') /\ run'.acts = run.acts /\ run'.rev > run.rev /\ run'.left = run.left
        /\ run'.log = Append(run.log, [env |-> e, notes |-> taken])
        /\ \/ taken = run.notes /\ run'.notes = {}
           \/ taken = {} /\ run'.notes = run.notes
    BY <1>1, <1>2, <1>8, EffectsAreRemembered
  <2>2. Voids(run, run')
    BY <1>0, <2>1, TaskParts DEF Voids
  <2>3. NotesAreGivenOnce' /\ GateWaitsForWork'
    BY <1>0, <2>1, NotesAreTaken DEF CommandsInv, GateWaitsForWork, Gated
  <2>4. AnswersAreTrue'
    <3>1. receipt' = [env |-> e, status |-> "applied", notes |-> taken]
      BY <1>8 DEF Answers
    <3>2. Len(run'.log) \in 1..Len(run'.log) /\ run'.log[Len(run'.log)] = [env |-> e, notes |-> taken]
      <4>1. run.log \in Seq(Effected) /\ Len(run.log) \in Nat
        BY <1>0, TaskParts
      <4> QED BY <2>1, <4>1
    <3> QED BY <3>1, <3>2 DEF AnswersAreTrue
  <2> QED BY <1>4, <2>1, <2>2, <2>3, <2>4 DEF CommandsInv
<1>9. \/ Known(run, e) /\ Answers(e, PreflightAnswer(run, e)) /\ UNCHANGED run
      \/ /\ ~Known(run, e) /\ e.seq <= run.lastSeq
         /\ Answers(e, [status |-> "stale", notes |-> {}]) /\ UNCHANGED run
      \/ ~Known(run, e) /\ e.seq > run.lastSeq /\ (Rejects(e, "stale") \/ Rejects(e, "invalid"))
      \/ /\ ~Known(run, e) /\ e.seq > run.lastSeq /\ ~Malformed(run, c)
         /\ run' = Pushed(AfterEffect(run, e, c, taken), e, "applied")
         /\ Answers(e, [status |-> "applied", notes |-> taken])
  BY DEF ApplyTeamCommand, AfterEffect, e, c, taken
<1> QED BY <1>5, <1>6, <1>7, <1>8, <1>9

\* Every step keeps the invariant.
LEMMA StepsKeepInv ==
    ASSUME CommandsInv, [Next]_vars
    PROVE  CommandsInv'
<1>0. run \in Task /\ sent \subseteq Envs
  BY DEF CommandsInv, Types
<1>1. CASE Decide
  <2>1. PICK id \in Ids, c \in Commands, n \in {run.lastSeq + 1, run.lastSeq + 2} :
          LET e == [id |-> id, seq |-> n, expected |-> run.rev, cmd |-> c, acts |-> run.acts]
          IN  sent' = sent \cup {e} /\ Submits(e)
    BY <1>1 DEF Decide
  <2> DEFINE e == [id |-> id, seq |-> n, expected |-> run.rev, cmd |-> c, acts |-> run.acts]
  <2>2. run.rev \in Nat /\ run.acts \in Nat /\ run.lastSeq \in Nat
    BY <1>0, TaskParts
  <2>3. e \in Envs /\ IsFresh(run, e)
    BY <2>2 DEF Envs, IsFresh
  <2>4. sent' = sent \cup {e} /\ Submits(e) /\ run' = run
    BY <1>1, <2>1 DEF Decide
  <2> HIDE DEF e
  <2> QED BY <2>3, <2>4, SubmissionsKeepInv
<1>2. ASSUME NEW e \in sent, Redeliver(e) PROVE CommandsInv'
  BY <1>0, <1>2, SubmissionsKeepInv DEF Redeliver, CommandsInv, PendingIsFresh
<1>3. ASSUME NEW a \in admitted, ApplyTeamCommand(a) PROVE CommandsInv'
  BY <1>3, ReducerKeepsInv
<1>4. CASE \/ AskToStop \/ HostSettles \/ ResumeTeamRun \/ HostBlocks \/ BeginResolvingBlocked
           \/ ResolveSettles \/ ToolFindsRun \/ MessageTeam \/ RerunSubTasks \/ Restart
  BY <1>4, OwnersAndHostsMove, OwnerKeepsInv
<1>5. CASE UNCHANGED vars
  <2>1. /\ run' = run /\ receipt' = receipt /\ sent' = sent /\ admitted' = admitted
    BY <1>5 DEF vars
  <2>2. Types' /\ PendingIsFresh' /\ AnswersAreTrue'
    BY <2>1 DEF CommandsInv, Types, PendingIsFresh, AnswersAreTrue
  <2> QED BY <2>1, <2>2, RecordStays DEF CommandsInv
<1> QED BY <1>1, <1>2, <1>3, <1>4, <1>5 DEF Next


\* A new task, and one of a relay that kept no journal, have nothing to be wrong about.
LEMMA TasksBegin == Init => CommandsInv
<1> SUFFICES ASSUME Init PROVE CommandsInv
  OBVIOUS
<1>1. PICK phase \in Phases, tasks \in {<<>>, <<[status |-> "Escalated", digested |-> TRUE]>>} :
        run = TaskAt(phase, tasks) /\ (phase = "MrGate" => tasks # <<>>)
  BY DEF Init, Phases, Closing
<1>2. tasks \in Seq(SubTasks) /\ \A i \in 1..Len(tasks) : tasks[i].status = "Escalated" /\ tasks[i].digested
  <2> DEFINE t == [status |-> "Escalated", digested |-> TRUE]
  <2>1. t \in SubTasks /\ t.status = "Escalated" /\ t.digested
    BY DEF SubTasks, TaskStatuses, Over
  <2> HIDE DEF t
  <2>2. CASE tasks = <<>>
    BY <2>2
  <2>3. CASE tasks = <<t>>
    <3>1. tasks \in Seq(SubTasks) /\ Len(tasks) = 1 /\ tasks[1] = t
      BY <2>1, <2>3
    <3> QED BY <2>1, <3>1
  <2> QED BY <2>2, <2>3 DEF t
<1>3. "Running" \in Statuses
  BY DEF Statuses, Active
<1>4. /\ run.tasks = tasks /\ run.journal = <<>> /\ run.log = <<>> /\ run.notes = {} /\ run.left = {}
      /\ run.drained = {} /\ run \in Task
  BY <1>1, <1>2, <1>3 DEF TaskAt, Task
<1>5. sent = {} /\ admitted = {} /\ receipt = NoReceipt
  BY DEF Init
<1>6. Types /\ PendingIsFresh /\ AnswersAreTrue
  BY <1>4, <1>5 DEF Types, PendingIsFresh, AnswersAreTrue
<1>7. JournalIsSound /\ RecordsNameTheirCommand /\ AppliedIsLogged
  BY <1>4 DEF JournalIsSound, RecordsNameTheirCommand, AppliedIsLogged
<1>8. LogIsCounted /\ RefusedIsNotLogged /\ NotesAreGivenOnce
  BY <1>4 DEF LogIsCounted, RefusedIsNotLogged, NotesAreGivenOnce
<1>9. GateWaitsForWork
  BY <1>2, <1>4 DEF GateWaitsForWork, SomeWaits, Waiting, Over
<1> QED BY <1>6, <1>7, <1>8, <1>9 DEF CommandsInv

(* ---- The theorems ------------------------------------------------------------------------------- *)

\* The record, the commands under way and the last answer have their types, and all that is
\* remembered of past commands agrees with what took effect.
THEOREM CommandsAreInvariant == Spec => []CommandsInv
<1> QED BY TasksBegin, StepsKeepInv, PTL DEF Spec

\* The journal is bounded, every number in it is used up, an id names one record, and the
\* notes kept for a replay are those of the records kept: record_command_outcome makes room
\* for both together.
THEOREM TheJournalStaysSound == Spec => []JournalIsSound
<1>1. CommandsInv => JournalIsSound
  BY DEF CommandsInv
<1> QED BY <1>1, CommandsAreInvariant, PTL

\* Every note the owner left still waits, or was given to exactly one command, whatever is
\* delivered twice, out of order, or across a restart.
THEOREM NobodyGetsANoteTwice == Spec => []NotesAreGivenOnce
<1>1. CommandsInv => NotesAreGivenOnce
  BY DEF CommandsInv
<1> QED BY <1>1, CommandsAreInvariant, PTL

\* What a driver is told of a command is true: applied only when it took effect, with the
\* notes it took, and refused only when it did not, or nothing is remembered of it.
THEOREM NobodyIsToldALie == Spec => []AnswersAreTrue
<1>1. CommandsInv => AnswersAreTrue
  BY DEF CommandsInv
<1> QED BY <1>1, CommandsAreInvariant, PTL

\* The review of the whole diff is not entered or kept while a sub-task waits for work,
\* whatever a driver decides on and whatever its owner sends back.
THEOREM TheGateWaits == Spec => []GateWaitsForWork
<1>1. CommandsInv => GateWaitsForWork
  BY DEF CommandsInv
<1> QED BY <1>1, CommandsAreInvariant, PTL

\* The log grows by an application alone, and an application is of what was decided on the
\* revision the task has.
LEMMA ApplicationsAreFresh ==
    ASSUME CommandsInv, [Next]_vars, Len(run'.log) > Len(run.log)
    PROVE  run'.log[Len(run'.log)].env.acts = run.acts
<1>0. run \in Task /\ admitted \subseteq Admissions
  BY DEF CommandsInv, Types
<1>1. Len(run.log) \in Nat /\ run.log \in Seq(Effected) /\ run.rev \in Nat
  BY <1>0, TaskParts
<1>2. run'.log # run.log
  BY <1>1
<1>3. ~(\/ AskToStop \/ HostSettles \/ ResumeTeamRun \/ HostBlocks \/ BeginResolvingBlocked
        \/ ResolveSettles \/ ToolFindsRun \/ MessageTeam \/ RerunSubTasks \/ Restart)
  BY <1>2, OwnersAndHostsMove DEF OwnerMoves, KeepsJournal
<1>4. ~Decide /\ ~UNCHANGED vars /\ \A e \in sent : ~Redeliver(e)
  BY <1>2 DEF Decide, Redeliver, vars
<1>5. PICK a \in admitted : ApplyTeamCommand(a)
  BY <1>3, <1>4 DEF Next
<1> DEFINE e == a.env
           c == IF a.blocked THEN [kind |-> "BlockRun"] ELSE e.cmd
           taken == IF c.kind = "TakeUserNotes" THEN run.notes ELSE {}
<1>6. e \in Envs /\ a.blocked \in BOOLEAN /\ (a.blocked => e.cmd.kind = "SettleRun")
  BY <1>0 DEF Admissions
<1>7. c \in Carried /\ CarriedFor(c, e) /\ IsTaken(run, c, taken)
  <2>1. e.cmd \in Commands
    BY <1>6 DEF Envs
  <2>2. c \in Carried /\ CarriedFor(c, e)
    BY <1>6, <2>1 DEF Carried, CarriedFor
  <2> QED BY <2>2 DEF IsTaken
<1> HIDE DEF taken, c, e
<1>8. ASSUME NEW o \in {"stale", "invalid"}, ~Known(run, e), e.seq > run.lastSeq, Rejects(e, o)
      PROVE  FALSE
  BY <1>2, <1>6, <1>8, RefusalsAreRemembered DEF Rejects, Beside
<1>9. /\ ~Known(run, e) /\ e.seq > run.lastSeq /\ ~Malformed(run, c)
      /\ ~NoHeadroom(run, e) /\ ~IsStale(run, e)
      /\ run' = Pushed(AfterEffect(run, e, c, taken), e, "applied")
  BY <1>2, <1>5, <1>8 DEF ApplyTeamCommand, AfterEffect, e, c, taken
<1>10. run'.log = Append(run.log, [env |-> e, notes |-> taken])
  BY <1>6, <1>7, <1>9, EffectsAreRemembered
<1>11. run'.log[Len(run'.log)] = [env |-> e, notes |-> taken]
  BY <1>1, <1>10
<1>12. IsFresh(run, e)
  BY DEF CommandsInv, PendingIsFresh, e
<1>13. e.acts = run.acts
  BY <1>1, <1>9, <1>12 DEF IsFresh, IsStale, NoHeadroom
<1> QED BY <1>11, <1>13

\* What a driver decided before its owner paused, resumed, ended or changed the task does
\* not happen after it: the reducer compares the revision, and every act moves it.
THEOREM NothingVoidHappens == Spec => DecisionsAreFresh
<1>1. CommandsInv /\ [Next]_vars
        => [Len(run'.log) > Len(run.log) => run'.log[Len(run'.log)].env.acts = run.acts]_vars
  BY ApplicationsAreFresh
<1> QED BY <1>1, CommandsAreInvariant, PTL DEF Spec, DecisionsAreFresh

=============================================================================
