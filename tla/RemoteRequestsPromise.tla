------------------------ MODULE RemoteRequestsPromise ------------------------
(* Proofs about RemoteRequests: it implements WriteOnce, and no running record   *)
(* is left without its task; then that request sessions are sound, no attempt is *)
(* answered twice, and one waiter answers for a reservation.                     *)
EXTENDS RemoteRequestsProofs

(* ---- Where effects and outcomes come from --------------------------------- *)

\* A write on record as done has taken effect.
DoneHasRun ==
    \A d \in Devices, a \in Writes :
        writes[d][a].state = "done" => \E x \in ran : x.device = d /\ x.action = a

\* So has one whose task has run.
RanHasRun ==
    \A t \in tasks : t.phase = "ran" /\ t.action \in Writes =>
        \E x \in ran : x.device = t.device /\ x.action = t.action

\* Only reads wait on the result cache.
ReadersWaitOnCache == \A w \in waiters : w.source = "cache" => w.action \in Reads

\* Nothing runs that no phone has sent.
TasksWereAsked ==
    \A t \in tasks : t.action \in Writes => <<t.device, t.action>> \in Sent

\* A token is one task's own, and marks what that task has done.
TokensAreOwn ==
    /\ \A t \in tasks : t.token < nextToken
    /\ \A t, u \in tasks : t.token = u.token => t = u
    /\ \A x \in ran : /\ x.token < nextToken
                      /\ \A t \in tasks : t.token = x.token => t.phase = "ran"

EarnedInv == DoneHasRun /\ RanHasRun /\ ReadersWaitOnCache /\ TasksWereAsked /\ TokensAreOwn

\* A task is started for an attempt, under a token of its own.
Starts(m) ==
    /\ m.action \in Writes \cup Reads
    /\ tasks' = tasks \cup {NewTask(m, nextToken)} /\ nextToken' = nextToken + 1
    /\ ran' = ran

\* A step starts a task, runs one, or adds nothing to what is under way or done.
LEMMA TaskKinds ==
    ASSUME TypeOK, [Next]_vars
    PROVE  \/ tasks' \subseteq tasks /\ ran' = ran /\ nextToken' = nextToken
           \/ \E m \in net : Starts(m)
           \/ \E t \in tasks : RunAction(t)
<1> DEFINE Still == tasks' \subseteq tasks /\ ran' = ran /\ nextToken' = nextToken
<1>1. CASE UNCHANGED vars
  BY <1>1 DEF vars, bookVars, histVars
<1>2. ASSUME NEW p \in Peers, SurfaceJoined(p) \/ SurfaceLeft(p) PROVE Still
  BY <1>2 DEF SurfaceJoined, SurfaceLeft, bookVars, histVars
<1>3. ASSUME BrokerLost \/ (\E online \in SUBSET Peers : Welcome(online)) PROVE Still
  BY <1>3 DEF BrokerLost, Welcome, bookVars, histVars
<1>4. ASSUME NEW d \in Devices, OpenRequestSession(d) \/ Revoke(d) \/ PairAgain(d) PROVE Still
  BY <1>4 DEF OpenRequestSession, Revoke, PairAgain, bookVars, histVars
<1>5. ASSUME Restart \/ Tick PROVE Still
  BY <1>5 DEF Restart, Tick, bookVars, histVars
<1>6. ASSUME NEW m \in net, Reauthorize(m) \/ DropDuplicate(m) \/ AdmitBeat(m) PROVE Still
  BY <1>6 DEF Reauthorize, DropDuplicate, AdmitBeat, bookVars, histVars
<1>7. ASSUME NEW m \in net, JoinWrite(m) \/ AnswerWrite(m) PROVE Still
  BY <1>7 DEF JoinWrite, AnswerWrite
<1>8. ASSUME NEW m \in net, AdmitWrite(m) PROVE Starts(m)
  BY <1>8 DEF AdmitWrite, Starts
<1>9. ASSUME NEW m \in net, AdmitRead(m) PROVE Still \/ Starts(m)
  BY <1>9 DEF AdmitRead, Starts
<1>10. ASSUME NEW t \in tasks, CompleteWrite(t) \/ CompleteRead(t) PROVE Still
  BY <1>10 DEF CompleteWrite, CompleteRead, histVars
<1>11. ASSUME NEW w \in waiters, WaiterSubscribe(w) \/ WaiterGiveUp(w) \/ WaiterWake(w) PROVE Still
  BY <1>11 DEF WaiterSubscribe, WaiterGiveUp, WaiterWake, histVars
<1>12. ASSUME PhoneNext PROVE Still
  BY <1>12 DEF PhoneNext, PhoneDispatch, PhoneResend, PhoneSettle, PhoneSend, PhoneReconnect,
     relaySide, bookVars, histVars
<1> QED
  BY <1>1, <1>2, <1>3, <1>4, <1>5, <1>6, <1>7, <1>8, <1>9, <1>10, <1>11, <1>12
     DEF Next, RelayNext

\* What a run adds, and what it leaves alone.
LEMMA RunFrame ==
    ASSUME TypeOK, NEW t \in tasks, RunAction(t)
    PROVE  \E u : /\ u.device = t.device /\ u.action = t.action /\ u.token = t.token
                  /\ u.phase = "ran" /\ tasks' = (tasks \ {t}) \cup {u}
<1>1. t \in Task
  BY DEF TypeOK, TasksOK
<1> WITNESS [t EXCEPT !.phase = "ran"]
<1> QED
  BY <1>1 DEF RunAction, Task

\* Tokens stay their tasks' own.
LEMMA TokensStep ==
    ASSUME TypeOK, TokensAreOwn, [Next]_vars
    PROVE  TokensAreOwn'
<1>0. /\ nextToken \in Nat /\ \A t \in tasks : t.token \in Nat
      /\ \A x \in ran : x.token \in Nat
  BY DEF TypeOK, BookOK, TasksOK, HistoryOK, Task, Run
<1>1. CASE tasks' \subseteq tasks /\ ran' = ran /\ nextToken' = nextToken
  BY <1>1 DEF TokensAreOwn
<1>2. ASSUME NEW m \in net, Starts(m) PROVE TokensAreOwn'
  <2> DEFINE new == NewTask(m, nextToken)
  <2>1. new.token = nextToken BY DEF NewTask
  <2>2. tasks' = tasks \cup {new} /\ ran' = ran /\ nextToken' = nextToken + 1
    BY <1>2 DEF Starts
  <2> HIDE DEF new
  <2> QED BY <1>0, <2>1, <2>2 DEF TokensAreOwn
<1>3. ASSUME NEW t \in tasks, RunAction(t) PROVE TokensAreOwn'
  <2>1. PICK u : /\ u.token = t.token /\ u.phase = "ran" /\ tasks' = (tasks \ {t}) \cup {u}
    BY <1>3, RunFrame
  <2>2. nextToken' = nextToken /\ \A x \in ran' : x \in ran \/ x.token = t.token
    BY <1>3 DEF RunAction
  <2> QED BY <2>1, <2>2 DEF TokensAreOwn
<1> QED BY <1>1, <1>2, <1>3, TaskKinds

\* What has been sent stays sent, and what is done stays done.
LEMMA OnlyMore ==
    ASSUME TypeOK, [Next]_vars
    PROVE  net \subseteq net' /\ ran \subseteq ran'
<1>1. ran \subseteq ran'
  <2>1. ASSUME NEW t \in tasks, RunAction(t) PROVE ran \subseteq ran'
    BY <2>1 DEF RunAction
  <2>2. ASSUME NEW m \in net, Starts(m) PROVE ran \subseteq ran'
    BY <2>2 DEF Starts
  <2> QED BY <2>1, <2>2, TaskKinds
<1>2. ASSUME NEW m \in net, AdmitWrite(m) \/ JoinWrite(m) \/ AnswerWrite(m) PROVE net' = net
  BY <1>2, AdmittedFrame
<1>3. ASSUME NEW t \in tasks, RunAction(t) \/ CompleteWrite(t) PROVE net' = net
  BY <1>3, ExecutedFrame
<1>4. CASE QuietStep \/ Restart \/ Tick
  BY <1>1, <1>4 DEF QuietStep, Restart, Tick, phoneVars
<1>5. ASSUME NEW d \in Devices, OpenRequestSession(d) \/ Revoke(d) PROVE net' = net
  BY <1>5 DEF OpenRequestSession, Revoke, phoneVars
<1>6. CASE PhoneNext
  BY <1>1, <1>6 DEF PhoneNext, PhoneDispatch, PhoneResend, PhoneSettle, PhoneSend, PhoneReconnect
<1> QED BY <1>1, <1>2, <1>3, <1>4, <1>5, <1>6, StepKinds

\* A task is started for an attempt that is in the network.
LEMMA AskedStep ==
    ASSUME TypeOK, TasksWereAsked, [Next]_vars
    PROVE  TasksWereAsked'
<1>1. Sent \subseteq Sent'
  BY OnlyMore DEF Sent
<1>2. CASE tasks' \subseteq tasks
  BY <1>1, <1>2 DEF TasksWereAsked
<1>3. ASSUME NEW m \in net, Starts(m) PROVE TasksWereAsked'
  <2>1. NewTask(m, nextToken).device = m.device /\ NewTask(m, nextToken).action = m.action
    BY DEF NewTask
  <2>2. m.action \in Writes => <<m.device, m.action>> \in Sent
    BY DEF Sent
  <2>3. \A t \in tasks' : t \in tasks \/ t = NewTask(m, nextToken)
    BY <1>3 DEF Starts
  <2> QED BY <1>1, <2>1, <2>2, <2>3 DEF TasksWereAsked
<1>4. ASSUME NEW t \in tasks, RunAction(t) PROVE TasksWereAsked'
  <2>1. PICK u : /\ u.device = t.device /\ u.action = t.action
                 /\ tasks' = (tasks \ {t}) \cup {u}
    BY <1>4, RunFrame
  <2> QED BY <1>1, <2>1 DEF TasksWereAsked
<1> QED BY <1>2, <1>3, <1>4, TaskKinds

\* A task that has run has left its mark.
LEMMA RanStep ==
    ASSUME TypeOK, RanHasRun, [Next]_vars
    PROVE  RanHasRun'
<1>1. CASE tasks' \subseteq tasks /\ ran' = ran
  BY <1>1 DEF RanHasRun
<1>2. ASSUME NEW m \in net, Starts(m) PROVE RanHasRun'
  <2>1. NewTask(m, nextToken).phase = "admitted"
    BY DEF NewTask
  <2>2. ran' = ran /\ \A t \in tasks' : t \in tasks \/ t = NewTask(m, nextToken)
    BY <1>2 DEF Starts
  <2> QED BY <2>1, <2>2 DEF RanHasRun
<1>3. ASSUME NEW t \in tasks, RunAction(t) PROVE RanHasRun'
  <2>1. PICK u : /\ u.device = t.device /\ u.action = t.action
                 /\ tasks' = (tasks \ {t}) \cup {u}
    BY <1>3, RunFrame
  <2>2. ran \subseteq ran' BY OnlyMore
  <2>3. ASSUME t.action \in Writes
        PROVE  \E x \in ran' : x.device = t.device /\ x.action = t.action
    <3> DEFINE run == [device |-> t.device, action |-> t.action, epoch |-> t.epoch,
                       token |-> t.token]
    <3>1. run \in ran'
      BY <1>3, <2>3 DEF RunAction
    <3> QED BY <3>1
  <2> QED BY <2>1, <2>2, <2>3 DEF RanHasRun
<1> QED BY <1>1, <1>2, <1>3, TaskKinds

\* Only a task that has run, and still holds its reservation, makes a record done.
LEMMA DoneComesFromTasks ==
    ASSUME TypeOK, [Next]_vars, NEW d \in Devices, NEW a \in Writes,
           writes'[d][a].state = "done", writes[d][a].state # "done"
    PROVE  \E t \in tasks : CompleteWrite(t) /\ t.device = d /\ t.action = a
<1>0. writes \in [Devices -> [Writes -> WriteRecord]]
  BY DEF TypeOK, BookOK
<1>1. ASSUME NEW recs \in [Writes -> WriteRecord], PruneWrites(recs, Clock)[a].state = "done"
      PROVE  recs[a].state = "done"
  BY <1>1 DEF PruneWrites, NoRecord
<1>2. ASSUME NEW m \in net, AdmitWrite(m) \/ JoinWrite(m) \/ AnswerWrite(m) PROVE FALSE
  <2> DEFINE recs == PruneWrites(writes[m.device], Clock)
  <2>1. m.device \in Devices /\ m.action \in Writes
    BY <1>2 DEF TypeOK, PhonesOK, Attempt, AdmitWrite, JoinWrite, AnswerWrite
  <2>2. recs \in [Writes -> WriteRecord] /\ (recs[a].state = "done" /\ d = m.device => FALSE)
    BY <1>0, <1>1, <2>1, PruneWritesType
  <2> HIDE DEF recs
  <2>3. CASE AdmitWrite(m)
    <3>1. writes' = [writes EXCEPT ![m.device] =
                        [recs EXCEPT ![m.action] = RunningRecord(m.opBoot, m.opT0, nextToken)]]
      BY <2>3 DEF AdmitWrite, recs
    <3> QED BY <1>0, <2>1, <2>2, <3>1 DEF RunningRecord
  <2>4. CASE JoinWrite(m)
    <3>1. /\ writes' = [writes EXCEPT ![m.device] =
                          [recs EXCEPT ![m.action] = [recs[m.action] EXCEPT !.waiters = @ + 1]]]
          /\ recs[m.action].state = "running"
      BY <2>4 DEF JoinWrite, recs
    <3>2. [recs[m.action] EXCEPT !.waiters = @ + 1].state = "running"
      BY <2>1, <2>2, <3>1 DEF WriteRecord
    <3> QED BY <1>0, <2>1, <2>2, <3>1, <3>2
  <2>5. CASE AnswerWrite(m)
    <3>1. \/ writes' = [writes EXCEPT ![m.device] = recs]
          \/ writes' = [writes EXCEPT ![m.device] = writes[m.device]]
      BY <2>5 DEF AnswerWrite, recs
    <3> QED BY <1>0, <2>1, <2>2, <3>1
  <2> QED BY <1>2, <2>3, <2>4, <2>5
<1>3. ASSUME NEW t \in tasks, CompleteWrite(t) PROVE t.device = d /\ t.action = a
  <2>1. t.device \in Devices /\ t.action \in Writes
    BY <1>3 DEF TypeOK, TasksOK, Task, CompleteWrite
  <2>2. \/ writes' = writes
        \/ writes' = [writes EXCEPT ![t.device] = [writes[t.device] EXCEPT ![t.action] =
                        [writes[t.device][t.action] EXCEPT !.state = "done", !.doneAt = Clock]]]
    BY <1>3 DEF CompleteWrite
  <2> QED BY <1>0, <2>1, <2>2
<1>4. ASSUME NEW t \in tasks, RunAction(t) PROVE FALSE
  BY <1>4 DEF RunAction
<1>5. ASSUME QuietStep \/ Tick PROVE FALSE
  BY <1>5 DEF QuietStep, Tick, bookVars
<1>6. ASSUME Restart PROVE FALSE
  BY <1>6 DEF Restart, NoRecord
<1>7. ASSUME NEW e \in Devices, OpenRequestSession(e) \/ Revoke(e) PROVE FALSE
  BY <1>0, <1>7 DEF OpenRequestSession, Revoke, NoRecord, bookVars
<1>8. ASSUME PhoneNext PROVE FALSE
  <2>1. writes' = writes
    BY <1>8 DEF PhoneNext, PhoneDispatch, PhoneResend, PhoneSettle, PhoneSend, PhoneReconnect,
       relaySide, bookVars
  <2> QED BY <2>1
<1> QED BY <1>2, <1>3, <1>4, <1>5, <1>6, <1>7, <1>8, StepKinds

\* A record that is done has run.
LEMMA DoneStep ==
    ASSUME TypeOK, DoneHasRun, RanHasRun, [Next]_vars
    PROVE  DoneHasRun'
<1> SUFFICES ASSUME NEW d \in Devices, NEW a \in Writes, writes'[d][a].state = "done"
             PROVE  \E x \in ran' : x.device = d /\ x.action = a
  BY DEF DoneHasRun
<1>1. ran \subseteq ran'
  BY OnlyMore
<1>2. CASE writes[d][a].state = "done"
  BY <1>1, <1>2 DEF DoneHasRun
<1>3. CASE writes[d][a].state # "done"
  <2>1. PICK t \in tasks : CompleteWrite(t) /\ t.device = d /\ t.action = a
    BY <1>3, DoneComesFromTasks
  <2> QED BY <1>1, <2>1 DEF CompleteWrite, RanHasRun
<1> QED BY <1>2, <1>3

\* Waking a waiter changes neither what it waits on nor what for.
LEMMA NotifyKeeps ==
    ASSUME NEW ws \in SUBSET Waiter, NEW tokens, NEW w \in Notify(ws, tokens)
    PROVE  \E v \in ws : v.source = w.source /\ v.action = w.action
BY DEF Notify, Waiter

\* Who waits on the cache waits for a read.
LEMMA WaitersStep ==
    ASSUME TypeOK, ReadersWaitOnCache, [Next]_vars
    PROVE  ReadersWaitOnCache'
<1> DEFINE Old(w) == \E v \in waiters : v.source = w.source /\ v.action = w.action
<1>0. waiters \in SUBSET Waiter
  BY DEF TypeOK, TasksOK
<1>1. ASSUME NEW tokens PROVE \A w \in Notify(waiters, tokens) : Old(w)
  BY <1>0, NotifyKeeps
<1>2. ASSUME \A w \in waiters' : Old(w) PROVE ReadersWaitOnCache'
  BY <1>2 DEF ReadersWaitOnCache
<1>3. ASSUME waiters' \subseteq waiters PROVE ReadersWaitOnCache'
  BY <1>3 DEF ReadersWaitOnCache
<1> HIDE DEF Old
<1>4. CASE UNCHANGED vars
  BY <1>3, <1>4 DEF vars, bookVars
<1>5. ASSUME NEW p \in Peers, SurfaceJoined(p) \/ SurfaceLeft(p) PROVE ReadersWaitOnCache'
  BY <1>3, <1>5 DEF SurfaceJoined, SurfaceLeft, bookVars
<1>6. CASE BrokerLost \/ (\E online \in SUBSET Peers : Welcome(online))
  BY <1>3, <1>6 DEF BrokerLost, Welcome, bookVars
<1>7. ASSUME NEW d \in Devices, OpenRequestSession(d) \/ PairAgain(d) PROVE ReadersWaitOnCache'
  BY <1>3, <1>7 DEF OpenRequestSession, PairAgain, bookVars
<1>8. ASSUME NEW d \in Devices, Revoke(d) PROVE ReadersWaitOnCache'
  BY <1>1, <1>2, <1>8 DEF Revoke
<1>9. CASE Restart \/ Tick
  BY <1>3, <1>9 DEF Restart, Tick, bookVars
<1>10. ASSUME NEW m \in net,
              Reauthorize(m) \/ DropDuplicate(m) \/ AdmitBeat(m) \/ AdmitWrite(m) \/ AnswerWrite(m)
       PROVE  ReadersWaitOnCache'
  BY <1>3, <1>10 DEF Reauthorize, DropDuplicate, AdmitBeat, AdmitWrite, AnswerWrite, bookVars
<1>11. ASSUME NEW m \in net, JoinWrite(m) PROVE ReadersWaitOnCache'
  <2>1. \A w \in waiters' : w \in waiters \/ w.source = "ledger"
    BY <1>11 DEF JoinWrite, NewWaiter
  <2> QED BY <2>1 DEF ReadersWaitOnCache
<1>12. ASSUME NEW m \in net, AdmitRead(m) PROVE ReadersWaitOnCache'
  <2> DEFINE woken == Notify(waiters, Abandoned(cache, now))
  <2>1. /\ m.action \in Reads
        /\ \/ waiters' = woken
           \/ \E token, ticket : waiters' = woken \cup {NewWaiter(m, "cache", token, ticket)}
    BY <1>12 DEF AdmitRead
  <2>2. \A token, ticket : NewWaiter(m, "cache", token, ticket).action = m.action
    BY DEF NewWaiter
  <2>3. \A w \in woken : Old(w)
    BY <1>1
  <2> HIDE DEF woken
  <2> QED BY <2>1, <2>2, <2>3 DEF ReadersWaitOnCache, Old
<1>13. ASSUME NEW t \in tasks, RunAction(t) PROVE ReadersWaitOnCache'
  BY <1>3, <1>13 DEF RunAction
<1>14. ASSUME NEW t \in tasks, CompleteWrite(t) \/ CompleteRead(t) PROVE ReadersWaitOnCache'
  BY <1>1, <1>2, <1>3, <1>14 DEF CompleteWrite, CompleteRead
<1>15. ASSUME NEW w \in waiters, WaiterSubscribe(w) PROVE ReadersWaitOnCache'
  <2> DEFINE u == [w EXCEPT !.phase = "subscribed"]
  <2>1. u.source = w.source /\ u.action = w.action
    BY <1>0 DEF Waiter
  <2>2. waiters' = (waiters \ {w}) \cup {u}
    BY <1>15 DEF WaiterSubscribe
  <2> HIDE DEF u
  <2> QED BY <2>1, <2>2 DEF ReadersWaitOnCache
<1>16. ASSUME NEW w \in waiters, WaiterGiveUp(w) \/ WaiterWake(w) PROVE ReadersWaitOnCache'
  BY <1>3, <1>16 DEF WaiterGiveUp, WaiterWake
<1>17. CASE PhoneNext
  BY <1>3, <1>17 DEF PhoneNext, PhoneDispatch, PhoneResend, PhoneSettle, PhoneSend,
     PhoneReconnect, relaySide, bookVars
<1> QED
  BY <1>4, <1>5, <1>6, <1>7, <1>8, <1>9, <1>10, <1>11, <1>12, <1>13, <1>14, <1>15, <1>16, <1>17
     DEF Next, RelayNext

\* Outcomes are earned.
THEOREM OutcomesAreEarned == Spec => []EarnedInv
<1>1. Init => EarnedInv
  BY DEF Init, EarnedInv, DoneHasRun, RanHasRun, ReadersWaitOnCache, TasksWereAsked, TokensAreOwn,
     NoRecord
<1>2. TypeOK /\ EarnedInv /\ [Next]_vars => EarnedInv'
  BY DoneStep, RanStep, WaitersStep, AskedStep, TokensStep DEF EarnedInv
<1> QED BY <1>1, <1>2, TypeCorrect, PTL DEF Spec

(* ---- The abstract promise ------------------------------------------------- *)

Earned == {"result", "already_completed"}

\* Telling a phone something confirms no more than the write it is about.
LEMMA TellConfirms ==
    ASSUME NEW d, NEW p, NEW lease, NEW a, NEW kind, told' = Tell(d, p, lease, a, kind)
    PROVE  \/ Confirmed' = Confirmed
           \/ a \in Writes /\ kind \in Earned /\ Confirmed' = Confirmed \cup {<<d, a>>}
<1> DEFINE r == [device |-> d, action |-> a, kind |-> kind]
<1>1. told' = told \/ told' = told \cup {r}
  BY DEF Tell
<1>2. r.device = d /\ r.action = a /\ r.kind = kind
  OBVIOUS
<1> HIDE DEF r
<1>3. CASE told' = told
  BY <1>3 DEF Confirmed
<1>4. CASE told' = told \cup {r} /\ a \in Writes /\ kind \in Earned
  BY <1>2, <1>4 DEF Confirmed, Earned
<1>5. CASE told' = told \cup {r} /\ ~(a \in Writes /\ kind \in Earned)
  <2>1. {x \in told' : x.action \in Writes /\ x.kind \in Earned}
            = {x \in told : x.action \in Writes /\ x.kind \in Earned}
    BY <1>2, <1>5
  <2> QED BY <2>1 DEF Confirmed, Earned
<1> QED BY <1>1, <1>3, <1>4, <1>5

\* An attempt that comes to the network asks for its write, or for no write.
LEMMA SendingAsks ==
    ASSUME NEW m \in Attempt, net' = net \cup {m}, ran' = ran, told' = told
    PROVE  [Promise!Next]_(Promise!promise)
<1>1. Confirmed' = Confirmed
  BY DEF Confirmed
<1>2. CASE m.action \in Writes
  <2>1. Sent' = Sent \cup {<<m.device, m.action>>}
    BY <1>2 DEF Sent
  <2>2. m.device \in Devices
    BY DEF Attempt
  <2>3. Promise!Ask(m.device, m.action)
    BY <1>1, <2>1 DEF Promise!Ask
  <2> QED BY <1>2, <2>2, <2>3 DEF Promise!Next
<1>3. CASE m.action \notin Writes
  <2>1. Sent' = Sent
    <3>1. {n \in net' : n.action \in Writes} = {n \in net : n.action \in Writes}
      BY <1>3
    <3> QED BY <3>1 DEF Sent
  <2> QED BY <1>1, <2>1 DEF Promise!promise
<1> QED BY <1>2, <1>3

\* A step that only tells phones things confirms what has run.
LEMMA TellingConfirms ==
    ASSUME NEW d \in Devices, NEW p, NEW lease, NEW a, NEW kind,
           told' = Tell(d, p, lease, a, kind), net' = net, ran' = ran,
           a \in Writes /\ kind \in Earned => \E x \in ran : x.device = d /\ x.action = a
    PROVE  [Promise!Next]_(Promise!promise)
<1>1. Sent' = Sent
  BY DEF Sent
<1>2. CASE Confirmed' = Confirmed
  BY <1>1, <1>2 DEF Promise!promise
<1>3. CASE a \in Writes /\ kind \in Earned /\ Confirmed' = Confirmed \cup {<<d, a>>}
  <2>1. Promise!Confirm(d, a)
    BY <1>1, <1>3 DEF Promise!Confirm
  <2> QED BY <1>3, <2>1 DEF Promise!Next
<1> QED BY <1>2, <1>3, TellConfirms

\* A step that sends, does and tells nothing is a stutter.
LEMMA SilentSteps ==
    ASSUME net' = net, ran' = ran, told' = told
    PROVE  [Promise!Next]_(Promise!promise)
BY DEF Promise!promise, Sent, Confirmed

\* A run performs a write that was asked for and not performed before in this pairing.
LEMMA RunningPerforms ==
    ASSUME TypeOK, LedgerInv, EarnedInv, NEW t \in tasks, RunAction(t)
    PROVE  [Promise!Next]_(Promise!promise)
<1>1. net' = net /\ told' = told
  BY DEF RunAction, phoneVars
<1>2. CASE t.action \notin Writes
  BY <1>1, <1>2, SilentSteps DEF RunAction
<1>3. CASE t.action \in Writes
  <2> DEFINE run == [device |-> t.device, action |-> t.action, epoch |-> t.epoch,
                     token |-> t.token]
  <2>1. run.device = t.device /\ run.action = t.action /\ run.epoch = t.epoch
        /\ run.token = t.token
    OBVIOUS
  <2>2. ran' = ran \cup {run} /\ t.phase = "admitted"
    BY <1>3 DEF RunAction
  <2>3. t \in Task
    BY DEF TypeOK, TasksOK
  <2>4. run \in [device : Devices, action : Writes, epoch : Nat, token : Nat]
    BY <1>3, <2>3 DEF Task
  <2> HIDE DEF run
  <2>5. Sent' = Sent /\ Confirmed' = Confirmed
    BY <1>1 DEF Sent, Confirmed
  <2>6. <<run.device, run.action>> \in Sent
    BY <1>3, <2>1 DEF EarnedInv, TasksWereAsked
  <2>7. ASSUME NEW x \in ran, x.device = t.device, x.action = t.action, x.epoch = t.epoch
        PROVE  FALSE
    <3>1. PICK y \in reserved : Backs(y, x)
      BY DEF LedgerInv, RunsAreReserved
    <3>2. PICK z \in reserved : Backs(z, t)
      BY <1>3 DEF LedgerInv, RunsAreReserved
    <3>3. x.token = t.token
      BY <2>7, <3>1, <3>2 DEF LedgerInv, ReservedOnce, Backs
    <3> QED BY <2>2, <3>3 DEF EarnedInv, TokensAreOwn
  <2>8. Promise!Perform(run)
    BY <2>1, <2>2, <2>5, <2>6, <2>7 DEF Promise!Perform
  <2>9. run \in ran' \ ran
    BY <2>1, <2>2, <2>7
  <2> QED BY <2>4, <2>8, <2>9 DEF Promise!Next, Promise!Effects
<1> QED BY <1>2, <1>3

\* The answer to an attempt that comes again confirms only what is on record as done.
LEMMA AnswersConfirm ==
    ASSUME TypeOK, EarnedInv, NEW m \in net, AnswerWrite(m)
    PROVE  [Promise!Next]_(Promise!promise)
<1> DEFINE recs == IF OperationIsKnown(m) /\ OperationClockIsSane(m)
                   THEN PruneWrites(writes[m.device], Clock) ELSE writes[m.device]
           kind == AnswerOf(m, recs)
<1>1. m.device \in Devices /\ m.action \in Writes /\ net' = net /\ ran' = ran
  BY DEF AnswerWrite, Admit, phoneVars, TypeOK, PhonesOK, Attempt
<1>2. told' = Tell(m.device, m.peer, leases[m.peer], m.action, kind)
  BY DEF AnswerWrite
<1>3. ASSUME kind \in Earned PROVE writes[m.device][m.action].state = "done"
  <2>1. /\ OperationIsKnown(m) /\ OperationClockIsSane(m)
        /\ recs[m.action].state # "none" /\ SameOperation(recs[m.action], m)
    BY <1>3 DEF AnswerOf, Earned
  <2>2. recs[m.action].state # "running"
    BY <2>1 DEF AnswerWrite
  <2>3. writes \in [Devices -> [Writes -> WriteRecord]] /\ recs = PruneWrites(writes[m.device], Clock)
    BY <2>1 DEF TypeOK, BookOK
  <2>4. recs[m.action] = writes[m.device][m.action]
    BY <1>1, <2>1, <2>3 DEF PruneWrites, NoRecord
  <2> HIDE DEF recs
  <2>5. writes[m.device][m.action] \in WriteRecord
    BY <1>1, <2>3
  <2> QED BY <2>1, <2>2, <2>4, <2>5 DEF WriteRecord
<1>4. kind \in Earned => \E x \in ran : x.device = m.device /\ x.action = m.action
  BY <1>1, <1>3 DEF EarnedInv, DoneHasRun
<1> HIDE DEF kind
<1> QED BY <1>1, <1>2, <1>4, TellingConfirms

\* So does a waiter that is woken.
LEMMA WakesConfirm ==
    ASSUME TypeOK, EarnedInv, NEW w \in waiters, WaiterWake(w)
    PROVE  [Promise!Next]_(Promise!promise)
<1>1. w \in Waiter /\ net' = net /\ ran' = ran
  BY DEF WaiterWake, TypeOK, TasksOK, phoneVars, histVars
<1>2. CASE WaitOutcome(w) = "superseded"
  BY <1>1, <1>2, SilentSteps DEF WaiterWake
<1>3. CASE WaitOutcome(w) # "superseded"
  <2>1. told' = Tell(w.device, w.peer, w.lease, w.action, WaitOutcome(w))
    BY <1>3 DEF WaiterWake
  <2>2. ASSUME w.action \in Writes PROVE \E x \in ran : x.device = w.device /\ x.action = w.action
    <3>1. w.source = "ledger"
      BY <1>1, <2>2, ClassAssumption DEF Waiter, EarnedInv, ReadersWaitOnCache
    <3>2. writes[w.device][w.action].state = "done"
      BY <1>3, <3>1 DEF WaitOutcome
    <3> QED BY <1>1, <2>2, <3>2 DEF Waiter, EarnedInv, DoneHasRun
  <2> QED BY <1>1, <2>1, <2>2, TellingConfirms DEF Waiter
<1> QED BY <1>2, <1>3

\* Every step of phone, broker and relay is one WriteOnce allows, or stutters.
LEMMA StepIsPromised ==
    ASSUME TypeOK, LedgerInv, EarnedInv, [Next]_vars
    PROVE  [Promise!Next]_(Promise!promise)
<1> USE SilentSteps
<1>1. CASE UNCHANGED vars
  BY <1>1 DEF vars, phoneVars, histVars
<1>2. ASSUME NEW p \in Peers, SurfaceJoined(p) \/ SurfaceLeft(p)
      PROVE  [Promise!Next]_(Promise!promise)
  BY <1>2 DEF SurfaceJoined, SurfaceLeft, phoneVars, histVars
<1>3. CASE BrokerLost \/ (\E online \in SUBSET Peers : Welcome(online))
  BY <1>3 DEF BrokerLost, Welcome, phoneVars, histVars
<1>4. ASSUME NEW d \in Devices, OpenRequestSession(d) \/ Revoke(d) \/ PairAgain(d)
      PROVE  [Promise!Next]_(Promise!promise)
  BY <1>4 DEF OpenRequestSession, Revoke, PairAgain, phoneVars, histVars
<1>5. CASE Restart \/ Tick
  BY <1>5 DEF Restart, Tick, phoneVars, histVars
<1>6. ASSUME NEW m \in net, Reauthorize(m) \/ DropDuplicate(m) \/ AdmitBeat(m) \/ AdmitWrite(m)
                            \/ JoinWrite(m)
      PROVE  [Promise!Next]_(Promise!promise)
  BY <1>6 DEF Reauthorize, DropDuplicate, AdmitBeat, AdmitWrite, JoinWrite, Admit, phoneVars,
     histVars
<1>7. ASSUME NEW m \in net, AnswerWrite(m) PROVE [Promise!Next]_(Promise!promise)
  BY <1>7, AnswersConfirm
<1>8. ASSUME NEW m \in net, AdmitRead(m) PROVE [Promise!Next]_(Promise!promise)
  <2>1. m.action \notin Writes /\ m.device \in Devices /\ net' = net /\ ran' = ran
    BY <1>8, ClassAssumption DEF AdmitRead, Admit, phoneVars, TypeOK, PhonesOK, Attempt
  <2>2. told' = told \/ told' = Tell(m.device, m.peer, leases[m.peer], m.action, "result")
    BY <1>8 DEF AdmitRead
  <2> QED BY <2>1, <2>2, TellingConfirms
<1>9. ASSUME NEW t \in tasks, RunAction(t) PROVE [Promise!Next]_(Promise!promise)
  BY <1>9, RunningPerforms
<1>10. ASSUME NEW t \in tasks, CompleteWrite(t) \/ CompleteRead(t)
       PROVE  [Promise!Next]_(Promise!promise)
  <2>1. t.device \in Devices /\ net' = net /\ ran' = ran
        /\ told' = Tell(t.device, t.peer, t.lease, t.action, "result")
    BY <1>10 DEF CompleteWrite, CompleteRead, TypeOK, TasksOK, Task, phoneVars, histVars
  <2>2. t.action \in Writes => \E x \in ran : x.device = t.device /\ x.action = t.action
    BY <1>10, ClassAssumption DEF CompleteWrite, CompleteRead, EarnedInv, RanHasRun
  <2> QED BY <2>1, <2>2, TellingConfirms
<1>11. ASSUME NEW w \in waiters, WaiterSubscribe(w) \/ WaiterGiveUp(w)
       PROVE  [Promise!Next]_(Promise!promise)
  BY <1>11 DEF WaiterSubscribe, WaiterGiveUp, phoneVars, histVars
<1>12. ASSUME NEW w \in waiters, WaiterWake(w) PROVE [Promise!Next]_(Promise!promise)
  BY <1>12, WakesConfirm
<1>13. CASE PhoneNext
  <2>1. ran' = ran /\ told' = told
    BY <1>13 DEF PhoneNext, PhoneDispatch, PhoneResend, PhoneSettle, PhoneSend, PhoneReconnect,
       relaySide, histVars
  <2>2. net' = net \/ \E m \in Attempt : net' = net \cup {m}
    <3>1. ASSUME NEW d \in Devices, NEW a \in Actions,
                 PhoneDispatch(d, a) \/ PhoneResend(d, a)
          PROVE  net' = net \/ \E m \in Attempt : net' = net \cup {m}
      BY <3>1, AttemptsType DEF PhoneDispatch, PhoneResend
    <3>2. ASSUME NEW m \in signing, PhoneSend(m) PROVE \E n \in Attempt : net' = net \cup {n}
      BY <3>2 DEF PhoneSend, TypeOK, PhonesOK
    <3> QED BY <1>13, <3>1, <3>2 DEF PhoneNext, PhoneSettle, PhoneReconnect
  <2> QED BY <2>1, <2>2, SendingAsks
<1> QED
  BY <1>1, <1>2, <1>3, <1>4, <1>5, <1>6, <1>7, <1>8, <1>9, <1>10, <1>11, <1>12, <1>13
     DEF Next, RelayNext

\* Phone, broker and relay together implement the abstract promise: a write takes effect
\* only if asked for, at most once per pairing, and is confirmed only once it has.
THEOREM RemoteRequestsImplementWriteOnce == Spec => ImplementsWriteOnce
<1>1. Init => Promise!Init
  BY DEF Init, Promise!Init, Sent, Confirmed
<1>2. TypeOK /\ LedgerInv /\ EarnedInv /\ [Next]_vars => [Promise!Next]_(Promise!promise)
  BY StepIsPromised
<1> QED
  BY <1>1, <1>2, TypeCorrect, LedgerCorrect, OutcomesAreEarned, PTL
     DEF Spec, ImplementsWriteOnce, Promise!Spec

(* ---- Running records ------------------------------------------------------- *)

\* A running record has its token from before, or from the attempt that reserved it.
LEMMA RunningComesFromAdmission ==
    ASSUME TypeOK, [Next]_vars, NEW d \in Devices, NEW a \in Writes,
           writes'[d][a].state = "running"
    PROVE  \/ writes[d][a].state = "running" /\ writes'[d][a].token = writes[d][a].token
           \/ \E m \in net : /\ AdmitWrite(m) /\ m.device = d /\ m.action = a
                             /\ writes'[d][a].token = nextToken
<1> DEFINE Kept == writes[d][a].state = "running" /\ writes'[d][a].token = writes[d][a].token
<1>0. writes \in [Devices -> [Writes -> WriteRecord]]
  BY DEF TypeOK, BookOK
<1>1. ASSUME NEW recs \in [Writes -> WriteRecord], PruneWrites(recs, Clock)[a].state = "running"
      PROVE  PruneWrites(recs, Clock)[a] = recs[a]
  BY <1>1 DEF PruneWrites, NoRecord
<1>2. ASSUME NEW m \in net, AdmitWrite(m) \/ JoinWrite(m) \/ AnswerWrite(m)
      PROVE  Kept \/ (AdmitWrite(m) /\ m.device = d /\ m.action = a /\ writes'[d][a].token = nextToken)
  <2> DEFINE recs == PruneWrites(writes[m.device], Clock)
  <2>1. m.device \in Devices /\ m.action \in Writes
    BY <1>2 DEF TypeOK, PhonesOK, Attempt, AdmitWrite, JoinWrite, AnswerWrite
  <2>2. /\ recs \in [Writes -> WriteRecord]
        /\ recs[a].state = "running" /\ d = m.device => recs[a] = writes[d][a]
    BY <1>0, <1>1, <2>1, PruneWritesType
  <2> HIDE DEF recs
  <2>3. CASE AdmitWrite(m)
    <3>1. writes' = [writes EXCEPT ![m.device] =
                        [recs EXCEPT ![m.action] = RunningRecord(m.opBoot, m.opT0, nextToken)]]
      BY <2>3 DEF AdmitWrite, recs
    <3> QED BY <1>0, <2>1, <2>2, <2>3, <3>1 DEF RunningRecord
  <2>4. CASE JoinWrite(m)
    <3>1. /\ writes' = [writes EXCEPT ![m.device] =
                          [recs EXCEPT ![m.action] = [recs[m.action] EXCEPT !.waiters = @ + 1]]]
          /\ recs[m.action].state = "running"
      BY <2>4 DEF JoinWrite, recs
    <3>2. [recs[m.action] EXCEPT !.waiters = @ + 1].token = recs[m.action].token
      BY <2>1, <2>2 DEF WriteRecord
    <3> QED BY <1>0, <2>1, <2>2, <3>1, <3>2
  <2>5. CASE AnswerWrite(m)
    <3>1. \/ writes' = [writes EXCEPT ![m.device] = recs]
          \/ writes' = [writes EXCEPT ![m.device] = writes[m.device]]
      BY <2>5 DEF AnswerWrite, recs
    <3> QED BY <1>0, <2>1, <2>2, <3>1
  <2> QED BY <1>2, <2>3, <2>4, <2>5
<1>3. ASSUME NEW t \in tasks, CompleteWrite(t) PROVE Kept
  <2>1. t.device \in Devices /\ t.action \in Writes
    BY <1>3 DEF TypeOK, TasksOK, Task, CompleteWrite
  <2>2. \/ writes' = writes
        \/ writes' = [writes EXCEPT ![t.device] = [writes[t.device] EXCEPT ![t.action] =
                        [writes[t.device][t.action] EXCEPT !.state = "done", !.doneAt = Clock]]]
    BY <1>3 DEF CompleteWrite
  <2>3. [writes[t.device][t.action] EXCEPT !.state = "done", !.doneAt = Clock].state = "done"
    BY <1>0, <2>1 DEF WriteRecord
  <2> DEFINE rec == [writes[t.device][t.action] EXCEPT !.state = "done", !.doneAt = Clock]
  <2> HIDE DEF rec
  <2>4. ASSUME writes' = [writes EXCEPT ![t.device] = [writes[t.device] EXCEPT ![t.action] = rec]],
               rec.state = "done"
        PROVE  writes'[d][a] = writes[d][a]
    BY <1>0, <2>1, <2>4
  <2>5. writes'[d][a] = writes[d][a]
    BY <2>2, <2>3, <2>4 DEF rec
  <2> QED BY <2>5
<1>4. ASSUME writes' = writes PROVE Kept
  BY <1>4
<1>5. ASSUME NEW t \in tasks, RunAction(t) PROVE writes' = writes
  BY <1>5 DEF RunAction
<1>6. ASSUME QuietStep \/ Tick \/ PhoneNext PROVE writes' = writes
  BY <1>6 DEF QuietStep, Tick, PhoneNext, PhoneDispatch, PhoneResend, PhoneSettle, PhoneSend,
     PhoneReconnect, relaySide, bookVars
<1>7. ASSUME Restart PROVE FALSE
  BY <1>7 DEF Restart, NoRecord
<1>8. ASSUME NEW e \in Devices, OpenRequestSession(e) \/ Revoke(e) PROVE Kept
  BY <1>0, <1>8 DEF OpenRequestSession, Revoke, NoRecord, bookVars
<1> QED BY <1>2, <1>3, <1>4, <1>5, <1>6, <1>7, <1>8, StepKinds DEF Kept

\* A task leaves the table only by its own steps, or with the process.
LEMMA TasksLeaveBy ==
    ASSUME TypeOK, [Next]_vars, NEW t \in tasks
    PROVE  t \in tasks' \/ RunAction(t) \/ CompleteWrite(t) \/ CompleteRead(t) \/ Restart
<1>1. CASE UNCHANGED vars
  BY <1>1 DEF vars, bookVars
<1>2. ASSUME NEW p \in Peers, SurfaceJoined(p) \/ SurfaceLeft(p) PROVE tasks' = tasks
  BY <1>2 DEF SurfaceJoined, SurfaceLeft, bookVars
<1>3. ASSUME BrokerLost \/ (\E online \in SUBSET Peers : Welcome(online)) PROVE tasks' = tasks
  BY <1>3 DEF BrokerLost, Welcome, bookVars
<1>4. ASSUME NEW d \in Devices, OpenRequestSession(d) \/ Revoke(d) \/ PairAgain(d)
      PROVE  tasks' = tasks
  BY <1>4 DEF OpenRequestSession, Revoke, PairAgain, bookVars
<1>5. ASSUME NEW m \in net, \/ Reauthorize(m) \/ DropDuplicate(m) \/ AdmitBeat(m) \/ AdmitWrite(m)
                            \/ JoinWrite(m) \/ AnswerWrite(m) \/ AdmitRead(m)
      PROVE  tasks \subseteq tasks'
  BY <1>5 DEF Reauthorize, DropDuplicate, AdmitBeat, AdmitWrite, JoinWrite, AnswerWrite, AdmitRead,
     bookVars
<1>6. ASSUME NEW u \in tasks, RunAction(u) \/ CompleteWrite(u) \/ CompleteRead(u)
      PROVE  tasks \ {u} \subseteq tasks'
  BY <1>6 DEF RunAction, CompleteWrite, CompleteRead
<1>7. ASSUME NEW w \in waiters, WaiterSubscribe(w) \/ WaiterGiveUp(w) \/ WaiterWake(w)
      PROVE  tasks' = tasks
  BY <1>7 DEF WaiterSubscribe, WaiterGiveUp, WaiterWake
<1>8. ASSUME PhoneNext PROVE tasks' = tasks
  BY <1>8 DEF PhoneNext, PhoneDispatch, PhoneResend, PhoneSettle, PhoneSend, PhoneReconnect,
     relaySide, bookVars
<1>9. ASSUME Tick PROVE tasks' = tasks
  BY <1>9 DEF Tick, bookVars
<1> QED
  BY <1>1, <1>2, <1>3, <1>4, <1>5, <1>6, <1>7, <1>8, <1>9 DEF Next, RelayNext

\* The task of a running record keeps it until it makes it done.
LEMMA OwnedStep ==
    ASSUME TypeOK, RunningIsOwned, [Next]_vars
    PROVE  RunningIsOwned'
<1> SUFFICES ASSUME NEW d \in Devices, NEW a \in Writes, writes'[d][a].state = "running"
             PROVE  \E t \in tasks' :
                        t.device = d /\ t.action = a /\ t.token = writes'[d][a].token
  BY DEF RunningIsOwned
<1>1. ASSUME NEW m \in net, AdmitWrite(m), m.device = d, m.action = a,
             writes'[d][a].token = nextToken
      PROVE  \E t \in tasks' : t.device = d /\ t.action = a /\ t.token = writes'[d][a].token
  <2>1. NewTask(m, nextToken) \in tasks'
    BY <1>1 DEF AdmitWrite
  <2> QED BY <1>1, <2>1 DEF NewTask
<1>2. ASSUME writes[d][a].state = "running", writes'[d][a].token = writes[d][a].token
      PROVE  \E t \in tasks' : t.device = d /\ t.action = a /\ t.token = writes'[d][a].token
  <2>1. PICK t \in tasks : t.device = d /\ t.action = a /\ t.token = writes[d][a].token
    BY <1>2 DEF RunningIsOwned
  <2>2. CASE t \in tasks'
    BY <1>2, <2>1, <2>2
  <2>3. ASSUME RunAction(t)
        PROVE  \E u \in tasks' : u.device = d /\ u.action = a /\ u.token = writes'[d][a].token
    BY <1>2, <2>1, <2>3, RunFrame
  <2>4. ~CompleteWrite(t)
    <3> SUFFICES ASSUME CompleteWrite(t) PROVE FALSE OBVIOUS
    <3>1. writes' = [writes EXCEPT ![d] = [writes[d] EXCEPT ![a] =
                        [writes[d][a] EXCEPT !.state = "done", !.doneAt = Clock]]]
      BY <1>2, <2>1 DEF CompleteWrite, Holds
    <3>2. writes \in [Devices -> [Writes -> WriteRecord]]
      BY DEF TypeOK, BookOK
    <3>3. writes'[d][a].state = "done"
      BY <3>1, <3>2 DEF WriteRecord
    <3> QED BY <3>3
  <2>5. ~CompleteRead(t) /\ ~Restart
    <3>1. ~CompleteRead(t)
      BY <2>1, ClassAssumption DEF CompleteRead
    <3>2. ~Restart
      BY DEF Restart, NoRecord
    <3> QED BY <3>1, <3>2
  <2>6. t \in tasks' \/ RunAction(t) \/ CompleteWrite(t) \/ CompleteRead(t) \/ Restart
    BY <2>1, TasksLeaveBy
  <2> QED BY <2>2, <2>3, <2>4, <2>5, <2>6
<1> QED BY <1>1, <1>2, RunningComesFromAdmission

\* A write that was reserved has a task that will record it, whatever becomes of the surface.
THEOREM RunningRecordsAreOwned == Spec => []RunningIsOwned
<1>1. Init => RunningIsOwned
  BY DEF Init, RunningIsOwned, NoRecord
<1> QED BY <1>1, OwnedStep, TypeCorrect, PTL DEF Spec

USE LimitsAssumption

(* ---- Request sessions ------------------------------------------------------ *)

\* Sessions are only lost, and nothing is answered.
Fewer ==
    /\ DOMAIN sessions' \subseteq DOMAIN sessions
    /\ \A s \in DOMAIN sessions' : sessions'[s] = sessions[s]
    /\ nextSid' = nextSid /\ answered' = answered /\ twice' = twice

\* An attempt is admitted under its session.
Spends(m) ==
    LET live == PruneSessions(sessions, Clock) IN
    /\ m.sid \in DOMAIN live /\ SeqIsUnused(live[m.sid], m.seq)
    /\ sessions' = [live EXCEPT ![m.sid] = UseSeq(live[m.sid], m.seq)]
    /\ answered' = answered \cup {<<m.sid, m.seq>>}
    /\ twice' = twice \cup ({<<m.sid, m.seq>>} \cap answered)
    /\ nextSid' = nextSid

\* Restricting the sessions loses some.
LEMMA RestrictIsFewer ==
    ASSUME NEW S \in SUBSET DOMAIN sessions, sessions' = Restrict(sessions, S),
           nextSid' = nextSid, answered' = answered, twice' = twice
    PROVE  Fewer
BY DEF Fewer, Restrict

\* So does pruning them.
LEMMA PruningIsFewer ==
    ASSUME sessions' = PruneSessions(sessions, Clock),
           nextSid' = nextSid, answered' = answered, twice' = twice
    PROVE  Fewer
BY DEF Fewer, PruneSessions, Restrict

\* An admitted attempt spends its number.
LEMMA AdmitSpends ==
    ASSUME NEW m, Admit(m)
    PROVE  Spends(m) /\ paired' = paired
<1> DEFINE live == PruneSessions(sessions, Clock)
<1>1. m.sid \in DOMAIN live /\ SeqIsUnused(sessions[m.sid], m.seq)
  BY DEF Admit, Authorized, SessionMatches
<1>2. live[m.sid] = sessions[m.sid]
  BY <1>1, PruneSessionsIsRestriction
<1> QED BY <1>1, <1>2 DEF Admit, Spends, pairVars

\* What a step does to the sessions.
LEMMA SessionKinds ==
    ASSUME TypeOK, [Next]_vars
    PROVE  \/ Fewer /\ paired \subseteq paired'
           \/ \E d \in Devices : OpenRequestSession(d) \/ Revoke(d)
           \/ \E m \in net : Spends(m) /\ paired' = paired
<1> DEFINE Kept == UNCHANGED <<sessions, nextSid, answered, twice>> /\ paired \subseteq paired'
<1>0. Kept => Fewer /\ paired \subseteq paired'
  BY DEF Fewer
<1>1. CASE UNCHANGED vars
  BY <1>0, <1>1 DEF vars, relayVars, histVars, pairVars
<1>2. ASSUME NEW p \in Peers, SurfaceJoined(p) PROVE Kept
  BY <1>2 DEF SurfaceJoined, histVars, pairVars
<1>3. ASSUME NEW p \in Peers, SurfaceLeft(p) PROVE Fewer /\ paired' = paired
  BY <1>3, RestrictIsFewer DEF SurfaceLeft, histVars, pairVars
<1>4. CASE BrokerLost
  BY <1>0, <1>4 DEF BrokerLost, histVars, pairVars
<1>5. ASSUME NEW online \in SUBSET Peers, Welcome(online) PROVE Fewer /\ paired' = paired
  BY <1>5, RestrictIsFewer DEF Welcome, histVars, pairVars
<1>6. ASSUME NEW d \in Devices, PairAgain(d) PROVE Kept
  BY <1>6 DEF PairAgain, relayVars, histVars
<1>7. ASSUME Restart PROVE Fewer /\ paired' = paired
  BY <1>7 DEF Restart, Fewer, NoSessions, histVars, pairVars
<1>8. CASE Tick
  BY <1>0, <1>8 DEF Tick, relayVars, histVars, pairVars
<1>9. ASSUME NEW m \in net, Reauthorize(m) \/ DropDuplicate(m) PROVE Fewer /\ paired' = paired
  BY <1>9, PruningIsFewer DEF Reauthorize, DropDuplicate, histVars, pairVars
<1>10. ASSUME NEW m \in net, \/ AdmitBeat(m) \/ AdmitWrite(m) \/ JoinWrite(m) \/ AnswerWrite(m)
                             \/ AdmitRead(m)
       PROVE  Spends(m) /\ paired' = paired
  BY <1>10, AdmitSpends DEF AdmitBeat, AdmitWrite, JoinWrite, AnswerWrite, AdmitRead
<1>11. ASSUME NEW t \in tasks, RunAction(t) \/ CompleteWrite(t) \/ CompleteRead(t) PROVE Kept
  BY <1>11 DEF RunAction, CompleteWrite, CompleteRead, relayVars, histVars, pairVars
<1>12. ASSUME NEW w \in waiters, WaiterSubscribe(w) \/ WaiterGiveUp(w) \/ WaiterWake(w) PROVE Kept
  BY <1>12 DEF WaiterSubscribe, WaiterGiveUp, WaiterWake, relayVars, histVars, pairVars
<1>13. ASSUME PhoneNext PROVE Kept
  BY <1>13 DEF PhoneNext, PhoneDispatch, PhoneResend, PhoneSettle, PhoneSend, PhoneReconnect,
     relaySide, relayVars, histVars, pairVars
<1> HIDE DEF Kept
<1> QED
  BY <1>0, <1>1, <1>2, <1>3, <1>4, <1>5, <1>6, <1>7, <1>8, <1>9, <1>10, <1>11, <1>12, <1>13
     DEF Next, RelayNext

\* Opening a session makes room and adds one.
LEMMA OpeningKeeps ==
    ASSUME NEW d \in Devices, OpenRequestSession(d)
    PROVE  /\ nextSid' = nextSid + 1 /\ answered' = answered /\ twice' = twice /\ paired' = paired
           /\ \A s \in DOMAIN sessions' :
                  s = nextSid \/ (s \in DOMAIN sessions /\ sessions'[s] = sessions[s])
<1> DEFINE live == PruneSessions(sessions, Clock)
           rest == Restrict(live, {s \in DOMAIN live : live[s].device # d \/ live[s].peer # phone[d].peer})
<1>1. DOMAIN rest \subseteq DOMAIN sessions /\ \A s \in DOMAIN rest : rest[s] = sessions[s]
  BY PruneSessionsIsRestriction DEF Restrict
<1>2. PICK kept \in Survivors(rest, d) :
         sessions' = [s \in (DOMAIN rest \ SessionsOf(rest, d)) \cup kept \cup {nextSid} |->
                         IF s = nextSid THEN NewSession(d, phone[d].peer, Clock) ELSE rest[s]]
  BY DEF OpenRequestSession
<1>3. kept \subseteq DOMAIN rest
  BY DEF Survivors, SessionsOf
<1> HIDE DEF rest
<1>4. nextSid' = nextSid + 1 /\ answered' = answered /\ twice' = twice /\ paired' = paired
  BY DEF OpenRequestSession, histVars, pairVars
<1> QED BY <1>1, <1>2, <1>3, <1>4

(* ---- No attempt twice ------------------------------------------------------ *)

\* A number that was answered is never again unused, and sessions are numbered afresh.
SpentInv ==
    /\ \A s \in DOMAIN sessions : s < nextSid
    /\ \A e \in answered :
           /\ e[1] < nextSid
           /\ e[1] \in DOMAIN sessions => ~SeqIsUnused(sessions[e[1]], e[2])
    /\ twice = {}

\* Spending a number leaves it spent, and every other that was.
LEMMA SpentStaysSpent ==
    ASSUME NEW s \in Session, NEW seq \in Nat, SeqIsUnused(s, seq)
    PROVE  /\ ~SeqIsUnused(UseSeq(s, seq), seq)
           /\ \A q \in Nat : ~SeqIsUnused(s, q) => ~SeqIsUnused(UseSeq(s, seq), q)
<1> DEFINE high == IF seq > s.high THEN seq ELSE s.high
           used == {q \in s.used \cup {seq} : q > high - SeqWindow}
<1>1. UseSeq(s, seq).high = high /\ UseSeq(s, seq).used = used
  BY DEF UseSeq, Session
<1>2. s.high \in Nat /\ SeqWindow \in Nat \ {0} /\ high \in Nat /\ high >= s.high /\ high >= seq
  BY DEF Session
<1>3. seq \in used
  BY <1>2 DEF SeqIsUnused
<1>4. ASSUME NEW q \in Nat, ~SeqIsUnused(s, q), q # 0, high - q < SeqWindow PROVE q \in used
  <2>1. s.high - q < SeqWindow
    BY <1>2, <1>4
  <2>2. q \in s.used
    BY <1>4, <2>1 DEF SeqIsUnused
  <2> QED BY <1>2, <1>4, <2>2
<1>5. ASSUME NEW q \in Nat, ~SeqIsUnused(s, q), q # 0 PROVE ~(q > high)
  BY <1>2, <1>5 DEF SeqIsUnused
<1> HIDE DEF high, used
<1> DEFINE after == UseSeq(s, seq)
<1>6. after.high = high /\ after.used = used
  BY <1>1
<1> HIDE DEF after
<1>7. ~SeqIsUnused(after, seq)
  BY <1>2, <1>3, <1>6 DEF SeqIsUnused
<1>8. ASSUME NEW q \in Nat, ~SeqIsUnused(s, q) PROVE ~SeqIsUnused(after, q)
  BY <1>2, <1>4, <1>5, <1>6, <1>8 DEF SeqIsUnused
<1> QED BY <1>7, <1>8 DEF after

\* Spent numbers stay spent.
LEMMA SpentStep ==
    ASSUME TypeOK, SpentInv, [Next]_vars
    PROVE  SpentInv'
<1>0. /\ nextSid \in Nat /\ answered \in SUBSET (Nat \X Nat)
      /\ \A s \in DOMAIN sessions : s \in Nat /\ sessions[s] \in Session
  BY DEF TypeOK, SessionsOK, HistoryOK
<1>1. CASE Fewer
  BY <1>1 DEF Fewer, SpentInv
<1>2. ASSUME NEW d \in Devices, Revoke(d) PROVE SpentInv'
  <2>1. Fewer
    BY <1>2, RestrictIsFewer DEF Revoke, histVars
  <2> QED BY <1>1, <2>1
<1>3. ASSUME NEW d \in Devices, OpenRequestSession(d) PROVE SpentInv'
  <2>1. /\ nextSid' = nextSid + 1 /\ answered' = answered /\ twice' = twice
        /\ \A s \in DOMAIN sessions' : s = nextSid \/ (s \in DOMAIN sessions /\ sessions'[s] = sessions[s])
    BY <1>3, OpeningKeeps
  <2> QED BY <1>0, <2>1 DEF SpentInv
<1>4. ASSUME NEW m \in net, Spends(m) PROVE SpentInv'
  <2> DEFINE live == PruneSessions(sessions, Clock)
  <2>1. /\ DOMAIN live \subseteq DOMAIN sessions /\ m.sid \in DOMAIN live
        /\ \A s \in DOMAIN live : live[s] = sessions[s]
        /\ SeqIsUnused(live[m.sid], m.seq) /\ m.seq \in Nat
    BY <1>4, PruneSessionsIsRestriction DEF Spends, TypeOK, PhonesOK, Attempt
  <2>2. sessions' = [live EXCEPT ![m.sid] = UseSeq(live[m.sid], m.seq)]
    BY <1>4 DEF Spends
  <2>3. live = [s \in DOMAIN live |-> live[s]]
    BY DEF PruneSessions, Restrict
  <2> HIDE DEF live
  <2>4. /\ DOMAIN sessions' = DOMAIN live /\ sessions'[m.sid] = UseSeq(sessions[m.sid], m.seq)
        /\ \A s \in DOMAIN live : s # m.sid => sessions'[s] = sessions[s]
    BY <2>1, <2>2, <2>3
  <2>5. /\ ~SeqIsUnused(sessions'[m.sid], m.seq)
        /\ \A q \in Nat : ~SeqIsUnused(sessions[m.sid], q) => ~SeqIsUnused(sessions'[m.sid], q)
    BY <1>0, <2>1, <2>4, SpentStaysSpent
  <2>6. \A s \in DOMAIN sessions' : s < nextSid'
    BY <1>4, <2>1, <2>4 DEF Spends, SpentInv
  <2>7. ASSUME NEW e \in answered'
        PROVE  e[1] < nextSid' /\ (e[1] \in DOMAIN sessions' => ~SeqIsUnused(sessions'[e[1]], e[2]))
    <3>1. CASE e = <<m.sid, m.seq>>
      BY <1>4, <2>1, <2>5, <3>1 DEF Spends, SpentInv
    <3>2. CASE e \in answered
      <4>1. e[2] \in Nat /\ e[1] < nextSid
            /\ (e[1] \in DOMAIN sessions => ~SeqIsUnused(sessions[e[1]], e[2]))
        BY <1>0, <3>2 DEF SpentInv
      <4> QED BY <1>4, <2>1, <2>4, <2>5, <4>1 DEF Spends
    <3> QED BY <1>4, <3>1, <3>2 DEF Spends
  <2>8. twice' = {}
    <3>1. <<m.sid, m.seq>> \notin answered
      BY <2>1 DEF SpentInv
    <3> QED BY <1>4, <3>1 DEF Spends, SpentInv
  <2> QED BY <2>6, <2>7, <2>8 DEF SpentInv
<1> QED BY <1>1, <1>2, <1>3, <1>4, SessionKinds

\* No signed attempt is given an answer twice, however often the broker delivers it.
THEOREM AttemptsAreAnsweredOnce == Spec => []NoAttemptTwice
<1>1. Init => SpentInv
  BY DEF Init, SpentInv, NoSessions
<1>2. TypeOK /\ SpentInv /\ [Next]_vars => SpentInv'
  BY SpentStep
<1>3. SpentInv => NoAttemptTwice
  BY DEF SpentInv, NoAttemptTwice
<1> QED BY <1>1, <1>2, <1>3, TypeCorrect, PTL DEF Spec

(* ---- Sessions are sound ---------------------------------------------------- *)

\* What makes SessionsAreSound inductive: there are finitely many sessions, and their
\* numbers are behind the next.
SoundInv ==
    /\ IsFiniteSet(DOMAIN sessions)
    /\ \A s \in DOMAIN sessions : s < nextSid
    /\ SessionsAreSound

\* The sessions of a device that survive losing some are no more than they were.
LEMMA FewerSessions ==
    ASSUME NEW S, NEW T, IsFiniteSet(S), T \subseteq S, Cardinality(S) <= MaxSessions
    PROVE  IsFiniteSet(T) /\ Cardinality(T) <= MaxSessions
<1>1. IsFiniteSet(T) /\ Cardinality(T) <= Cardinality(S)
  BY FS_Subset
<1>2. Cardinality(S) \in Nat /\ Cardinality(T) \in Nat
  BY <1>1, FS_CardinalityType
<1> QED BY <1>1, <1>2

\* Losing sessions leaves the rest sound, if whoever keeps one stays paired.
LEMMA FewerIsSound ==
    ASSUME SoundInv, Fewer, \A s \in DOMAIN sessions' : sessions[s].device \in paired'
    PROVE  SoundInv'
<1>1. DOMAIN sessions' \subseteq DOMAIN sessions /\ IsFiniteSet(DOMAIN sessions)
  BY DEF Fewer, SoundInv
<1>2. IsFiniteSet(DOMAIN sessions')
  BY <1>1, FS_Subset
<1>3. ASSUME NEW d \in Devices PROVE Cardinality(SessionsOf(sessions', d)) <= MaxSessions
  <2>1. SessionsOf(sessions', d) \subseteq SessionsOf(sessions, d)
    BY DEF Fewer, SessionsOf
  <2>2. SessionsOf(sessions, d) \subseteq DOMAIN sessions
    BY DEF SessionsOf
  <2>3. IsFiniteSet(SessionsOf(sessions, d))
    BY <1>1, <2>2, FS_Subset
  <2>4. Cardinality(SessionsOf(sessions, d)) <= MaxSessions
    BY DEF SoundInv, SessionsAreSound
  <2> QED BY <2>1, <2>3, <2>4, FewerSessions
<1>4. \A s \in DOMAIN sessions' : s < nextSid' /\ sessions'[s].device \in paired'
  BY DEF Fewer, SoundInv
<1>5. \A s, r \in DOMAIN sessions' :
          sessions'[s].device = sessions'[r].device /\ sessions'[s].peer = sessions'[r].peer => s = r
  BY <1>1 DEF Fewer, SoundInv, SessionsAreSound
<1> QED BY <1>2, <1>3, <1>4, <1>5 DEF SoundInv, SessionsAreSound

\* Opening a session makes room for it: the device's own sessions stay within the limit,
\* and the one it had under the same peer id goes.
LEMMA OpeningIsSound ==
    ASSUME TypeOK, SoundInv, NEW d \in Devices, OpenRequestSession(d)
    PROVE  SoundInv'
<1> DEFINE p    == phone[d].peer
           live == PruneSessions(sessions, Clock)
           rest == Restrict(live, {s \in DOMAIN live : live[s].device # d \/ live[s].peer # p})
<1>1. /\ DOMAIN rest \subseteq DOMAIN sessions
      /\ \A s \in DOMAIN rest : rest[s] = sessions[s] /\ (rest[s].device # d \/ rest[s].peer # p)
  BY PruneSessionsIsRestriction DEF Restrict
<1>2. PICK kept \in Survivors(rest, d) :
         sessions' = [s \in (DOMAIN rest \ SessionsOf(rest, d)) \cup kept \cup {nextSid} |->
                         IF s = nextSid THEN NewSession(d, p, Clock) ELSE rest[s]]
  BY DEF OpenRequestSession
<1>3. nextSid' = nextSid + 1 /\ paired' = paired /\ d \in paired
  BY DEF OpenRequestSession, pairVars
<1> DEFINE new == NewSession(d, p, Clock)
<1>4. new.device = d /\ new.peer = p
  BY DEF NewSession
<1> HIDE DEF rest, new, p
<1>5. kept \subseteq SessionsOf(rest, d)
  BY DEF Survivors
<1>6. IsFiniteSet(DOMAIN sessions) /\ nextSid \in Nat /\ nextSid \notin DOMAIN sessions
      /\ \A s \in DOMAIN sessions : s \in Nat /\ s < nextSid
  BY DEF SoundInv, TypeOK, SessionsOK
<1>7. IsFiniteSet(DOMAIN rest) /\ IsFiniteSet(SessionsOf(rest, d)) /\ IsFiniteSet(kept)
  BY <1>1, <1>5, <1>6, FS_Subset DEF SessionsOf
<1>8. Cardinality(kept) \in Nat /\ Cardinality(kept) < MaxSessions
  <2>1. Cardinality(kept) \in Nat
    BY <1>7, FS_CardinalityType
  <2>2. IF Cardinality(SessionsOf(rest, d)) < MaxSessions THEN kept = SessionsOf(rest, d)
        ELSE Cardinality(kept) = MaxSessions - 1
    BY DEF Survivors
  <2> QED BY <2>1, <2>2
<1>9. /\ DOMAIN sessions' = (DOMAIN rest \ SessionsOf(rest, d)) \cup kept \cup {nextSid}
      /\ sessions'[nextSid] = new
      /\ \A s \in DOMAIN sessions' : s # nextSid => s \in DOMAIN rest /\ sessions'[s] = sessions[s]
  BY <1>1, <1>2, <1>5 DEF SessionsOf, new
<1>10. IsFiniteSet(DOMAIN sessions')
  <2>1. DOMAIN sessions' \subseteq DOMAIN sessions \cup {nextSid}
    BY <1>1, <1>9
  <2> QED BY <1>6, <2>1, FS_AddElement, FS_Subset
<1>11. \A s \in DOMAIN sessions' : s < nextSid' /\ sessions'[s].device \in paired'
  BY <1>1, <1>3, <1>4, <1>6, <1>9 DEF SoundInv, SessionsAreSound
<1>12. \A s, r \in DOMAIN sessions' :
          sessions'[s].device = sessions'[r].device /\ sessions'[s].peer = sessions'[r].peer => s = r
  BY <1>1, <1>4, <1>9 DEF SoundInv, SessionsAreSound
<1>13. ASSUME NEW e \in Devices PROVE Cardinality(SessionsOf(sessions', e)) <= MaxSessions
  <2>1. CASE e = d
    <3>1. SessionsOf(sessions', e) \subseteq kept \cup {nextSid}
      BY <1>1, <1>9, <2>1 DEF SessionsOf
    <3>2. /\ IsFiniteSet(kept \cup {nextSid})
          /\ Cardinality(kept \cup {nextSid}) = IF nextSid \in kept THEN Cardinality(kept)
                                                ELSE Cardinality(kept) + 1
      BY <1>7, FS_AddElement
    <3>3. Cardinality(kept \cup {nextSid}) <= MaxSessions
      BY <1>8, <3>2
    <3> QED BY <3>1, <3>2, <3>3, FewerSessions
  <2>2. CASE e # d
    <3>1. SessionsOf(sessions', e) \subseteq SessionsOf(sessions, e)
      BY <1>1, <1>4, <1>9, <2>2 DEF SessionsOf
    <3>2. IsFiniteSet(SessionsOf(sessions, e))
      BY <1>6, FS_Subset DEF SessionsOf
    <3>3. Cardinality(SessionsOf(sessions, e)) <= MaxSessions
      BY DEF SoundInv, SessionsAreSound
    <3> QED BY <3>1, <3>2, <3>3, FewerSessions
  <2> QED BY <2>1, <2>2
<1> QED BY <1>10, <1>11, <1>12, <1>13 DEF SoundInv, SessionsAreSound

\* An admitted attempt changes what its session has used, and nothing else.
LEMMA SpendingIsSound ==
    ASSUME TypeOK, SoundInv, NEW m \in net, Spends(m), paired' = paired
    PROVE  SoundInv'
<1> DEFINE live == PruneSessions(sessions, Clock)
<1>1. DOMAIN live \subseteq DOMAIN sessions /\ \A s \in DOMAIN live : live[s] = sessions[s]
  BY PruneSessionsIsRestriction
<1>2. /\ m.sid \in DOMAIN live /\ nextSid' = nextSid
      /\ sessions' = [live EXCEPT ![m.sid] = UseSeq(live[m.sid], m.seq)]
  BY DEF Spends
<1>3. live = [s \in DOMAIN live |-> live[s]]
  BY DEF PruneSessions, Restrict
<1> HIDE DEF live
<1>4. live[m.sid] \in Session
  BY <1>1, <1>2 DEF TypeOK, SessionsOK
<1>5. UseSeq(live[m.sid], m.seq).device = live[m.sid].device
      /\ UseSeq(live[m.sid], m.seq).peer = live[m.sid].peer
  BY <1>4 DEF UseSeq, Session
<1>6. /\ DOMAIN sessions' \subseteq DOMAIN sessions
      /\ \A s \in DOMAIN sessions' :
             sessions'[s].device = sessions[s].device /\ sessions'[s].peer = sessions[s].peer
  BY <1>1, <1>2, <1>3, <1>5
<1>7. IsFiniteSet(DOMAIN sessions')
  BY <1>6, FS_Subset DEF SoundInv
<1>8. ASSUME NEW d \in Devices PROVE Cardinality(SessionsOf(sessions', d)) <= MaxSessions
  <2>1. SessionsOf(sessions', d) \subseteq SessionsOf(sessions, d)
    BY <1>6 DEF SessionsOf
  <2>2. IsFiniteSet(SessionsOf(sessions, d))
    BY FS_Subset DEF SoundInv, SessionsOf
  <2>3. Cardinality(SessionsOf(sessions, d)) <= MaxSessions
    BY DEF SoundInv, SessionsAreSound
  <2> QED BY <2>1, <2>2, <2>3, FewerSessions
<1>9. /\ \A s \in DOMAIN sessions' : s < nextSid' /\ sessions'[s].device \in paired'
      /\ \A s, r \in DOMAIN sessions' :
             sessions'[s].device = sessions'[r].device /\ sessions'[s].peer = sessions'[r].peer => s = r
  BY <1>2, <1>6 DEF SoundInv, SessionsAreSound
<1> QED BY <1>7, <1>8, <1>9 DEF SoundInv, SessionsAreSound

\* Sessions belong to paired devices, one to a peer id, and never more than the limit.
THEOREM SessionsStaySound == Spec => []SessionsAreSound
<1>1. Init => SoundInv
  <2> SUFFICES ASSUME Init PROVE SoundInv OBVIOUS
  <2>1. DOMAIN sessions = {}
    BY DEF Init, NoSessions
  <2>2. \A d \in Devices : SessionsOf(sessions, d) = {}
    BY <2>1 DEF SessionsOf
  <2> QED BY <2>1, <2>2, FS_EmptySet DEF SoundInv, SessionsAreSound
<1>2. TypeOK /\ SoundInv /\ [Next]_vars => SoundInv'
  <2> SUFFICES ASSUME TypeOK, SoundInv, [Next]_vars PROVE SoundInv' OBVIOUS
  <2>1. CASE Fewer /\ paired \subseteq paired'
    BY <2>1, FewerIsSound DEF Fewer, SoundInv, SessionsAreSound
  <2>2. ASSUME NEW d \in Devices, Revoke(d) PROVE SoundInv'
    <3>1. Fewer
      BY <2>2, RestrictIsFewer DEF Revoke, histVars
    <3>2. \A s \in DOMAIN sessions' : sessions[s].device \in paired'
      BY <2>2 DEF Revoke, Restrict, SoundInv, SessionsAreSound
    <3> QED BY <3>1, <3>2, FewerIsSound
  <2> QED BY <2>1, <2>2, OpeningIsSound, SpendingIsSound, SessionKinds
<1>3. SoundInv => SessionsAreSound
  BY DEF SoundInv
<1> QED BY <1>1, <1>2, <1>3, TypeCorrect, PTL DEF Spec

(* ---- One answer per reservation -------------------------------------------- *)

\* Waiters for one reservation wait for the same thing, with a ticket each.
TicketsDiffer ==
    \A w, v \in waiters : w.token = v.token =>
        /\ w.device = v.device /\ w.action = v.action /\ w.source = v.source
        /\ w.ticket = v.ticket => w = v

\* The reservation a waiter was sent to, if it is still there, has counted its ticket.
TicketsAreCounted ==
    \A w \in waiters :
        /\ w.token < nextToken
        /\ \A d \in Devices, a \in Writes :
               Holds(writes[d][a], w.token) =>
                   /\ w.source = "ledger" /\ w.device = d /\ w.action = a
                   /\ w.ticket <= writes[d][a].waiters
        /\ \A k \in Keys :
               cache[k].state = "inflight" /\ cache[k].token = w.token =>
                   /\ w.source = "cache" /\ k = <<w.device, w.action>>
                   /\ w.ticket <= cache[k].waiters

\* A token names one reservation.
TokensName ==
    /\ \A d \in Devices, a \in Writes : writes[d][a].state = "running" =>
           /\ writes[d][a].token < nextToken
           /\ \A e \in Devices, b \in Writes :
                  Holds(writes[e][b], writes[d][a].token) => e = d /\ b = a
           /\ \A k \in Keys : ~(cache[k].state = "inflight" /\ cache[k].token = writes[d][a].token)
    /\ \A k \in Keys : cache[k].state = "inflight" =>
           /\ cache[k].token < nextToken
           /\ \A j \in Keys : cache[j].state = "inflight" /\ cache[j].token = cache[k].token => j = k

TicketInv == TicketsDiffer /\ TicketsAreCounted /\ TokensName

Like(w, v) ==
    /\ w.token = v.token /\ w.ticket = v.ticket /\ w.source = v.source
    /\ w.device = v.device /\ w.action = v.action

\* The waiters ws are waiters there have been, each at most once.
Renewed(ws) ==
    /\ \A w \in ws : \E v \in waiters : Like(w, v)
    /\ \A w, u \in ws : Like(w, u) => w = u

\* Some of the waiters are waiters there have been.
LEMMA SubsetRenews ==
    ASSUME TicketsDiffer, NEW ws \in SUBSET waiters
    PROVE  Renewed(ws)
BY DEF Renewed, Like, TicketsDiffer

\* Waking waiters renews them.
LEMMA NotifyRenews ==
    ASSUME TypeOK, TicketsDiffer, NEW tokens
    PROVE  Renewed(Notify(waiters, tokens))
<1> DEFINE F(w) == IF w.token \in tokens /\ w.phase = "subscribed"
                   THEN [w EXCEPT !.phase = "woken"] ELSE w
<1>1. \A w \in waiters : Like(F(w), w)
  BY DEF TypeOK, TasksOK, Waiter, Like
<1>2. Notify(waiters, tokens) = {F(w) : w \in waiters}
  BY DEF Notify
<1> HIDE DEF F
<1>3. ASSUME NEW w \in waiters, NEW v \in waiters, Like(F(w), F(v)) PROVE w = v
  BY <1>1, <1>3 DEF Like, TicketsDiffer
<1> QED BY <1>1, <1>2, <1>3 DEF Renewed

\* So does subscribing one.
LEMMA SubscribingRenews ==
    ASSUME TypeOK, TicketsDiffer, NEW w \in waiters, WaiterSubscribe(w)
    PROVE  Renewed(waiters')
<1> DEFINE u == [w EXCEPT !.phase = "subscribed"]
<1>1. Like(u, w)
  BY DEF TypeOK, TasksOK, Waiter, Like
<1>2. waiters' = (waiters \ {w}) \cup {u}
  BY DEF WaiterSubscribe
<1> HIDE DEF u
<1> QED BY <1>1, <1>2 DEF Renewed, Like, TicketsDiffer

\* Pruning, storing and trimming start no reservation and touch none that stays.
LEMMA CacheOnlyLoses ==
    ASSUME NEW c \in [Keys -> CacheEntry], NEW k \in Keys, NEW t
    PROVE  /\ \A j \in Keys : PruneCache(c, t)[j].state = "inflight" => PruneCache(c, t)[j] = c[j]
           /\ \A e \in Trims(StoreResult(c, k, t)) : \A j \in Keys :
                  e[j].state = "inflight" => e[j] = c[j]
<1>1. \A j \in Keys : PruneCache(c, t)[j].state = "inflight" => PruneCache(c, t)[j] = c[j]
  BY DEF PruneCache, NoEntry
<1>2. PruneCache(c, t) \in [Keys -> CacheEntry]
  BY PruneCacheType
<1> DEFINE s == StoreResult(c, k, t)
<1>3. DOMAIN s = Keys /\ \A j \in Keys : s[j].state = "inflight" => s[j] = c[j]
  BY <1>1, <1>2 DEF StoreResult
<1> HIDE DEF s
<1>4. \A e \in Trims(s) : \A j \in Keys : e[j].state = "inflight" => e[j] = s[j]
  BY <1>3 DEF Trims, NoEntry
<1> QED BY <1>1, <1>3, <1>4 DEF s

\* Reservations are only lost, and so are waiters.
Lessens ==
    /\ \A d \in Devices, a \in Writes :
           writes'[d][a].state = "running" => writes'[d][a] = writes[d][a]
    /\ \A k \in Keys : cache'[k].state = "inflight" => cache'[k] = cache[k]
    /\ Renewed(waiters') /\ nextToken' = nextToken

\* Losing reservations and waiters takes no ticket out of order.
LEMMA LesseningKeepsTickets ==
    ASSUME TicketInv, Lessens
    PROVE  TicketInv'
<1>1. TicketsDiffer'
  BY DEF TicketInv, TicketsDiffer, Lessens, Renewed, Like
<1>2. TicketsAreCounted'
  <2> SUFFICES ASSUME NEW w \in waiters'
               PROVE  /\ w.token < nextToken'
                      /\ \A d \in Devices, a \in Writes :
                             Holds(writes'[d][a], w.token) =>
                                 /\ w.source = "ledger" /\ w.device = d /\ w.action = a
                                 /\ w.ticket <= writes'[d][a].waiters
                      /\ \A k \in Keys :
                             cache'[k].state = "inflight" /\ cache'[k].token = w.token =>
                                 /\ w.source = "cache" /\ k = <<w.device, w.action>>
                                 /\ w.ticket <= cache'[k].waiters
    BY DEF TicketsAreCounted, Holds
  <2>1. PICK v \in waiters : Like(w, v)
    BY DEF Lessens, Renewed
  <2>2. w.token < nextToken'
    BY <2>1 DEF Lessens, Like, TicketInv, TicketsAreCounted
  <2>3. ASSUME NEW d \in Devices, NEW a \in Writes, Holds(writes'[d][a], w.token)
        PROVE  /\ w.source = "ledger" /\ w.device = d /\ w.action = a
               /\ w.ticket <= writes'[d][a].waiters
    <3>1. writes'[d][a] = writes[d][a]
      BY <2>3 DEF Holds, Lessens
    <3> QED BY <2>1, <2>3, <3>1 DEF Like, TicketInv, TicketsAreCounted
  <2>4. ASSUME NEW k \in Keys, cache'[k].state = "inflight", cache'[k].token = w.token
        PROVE  /\ w.source = "cache" /\ k = <<w.device, w.action>>
               /\ w.ticket <= cache'[k].waiters
    <3>1. cache'[k] = cache[k]
      BY <2>4 DEF Lessens
    <3> QED BY <2>1, <2>4, <3>1 DEF Like, TicketInv, TicketsAreCounted
  <2> QED BY <2>2, <2>3, <2>4
<1>3. TokensName'
  BY DEF TicketInv, TokensName, Lessens, Holds
<1> QED BY <1>1, <1>2, <1>3 DEF TicketInv

\* Every step only loses reservations and waiters, unless it admits a write or a read.
LEMMA BookKinds ==
    ASSUME TypeOK, TicketsDiffer, [Next]_vars
    PROVE  Lessens \/ \E m \in net : AdmitWrite(m) \/ JoinWrite(m) \/ AdmitRead(m)
<1>0. /\ writes \in [Devices -> [Writes -> WriteRecord]] /\ cache \in [Keys -> CacheEntry]
      /\ waiters \in SUBSET Waiter
  BY DEF TypeOK, BookOK, TasksOK
<1>a. Renewed(waiters)
  BY SubsetRenews
<1>b. ASSUME UNCHANGED <<writes, cache, waiters, nextToken>> PROVE Lessens
  BY <1>a, <1>b DEF Lessens
<1>1. CASE UNCHANGED vars
  BY <1>b, <1>1 DEF vars, bookVars
<1>2. ASSUME NEW p \in Peers, SurfaceJoined(p) \/ SurfaceLeft(p) PROVE Lessens
  BY <1>b, <1>2 DEF SurfaceJoined, SurfaceLeft, bookVars
<1>3. CASE BrokerLost \/ (\E online \in SUBSET Peers : Welcome(online))
  BY <1>b, <1>3 DEF BrokerLost, Welcome, bookVars
<1>4. ASSUME NEW d \in Devices, OpenRequestSession(d) \/ PairAgain(d) PROVE Lessens
  BY <1>b, <1>4 DEF OpenRequestSession, PairAgain, bookVars
<1>5. ASSUME NEW d \in Devices, Revoke(d) PROVE Lessens
  <2>1. \A e \in Devices, a \in Writes :
            writes'[e][a].state = "running" => writes'[e][a] = writes[e][a]
    BY <1>0, <1>5 DEF Revoke, NoRecord
  <2>2. Renewed(waiters') /\ cache' = cache /\ nextToken' = nextToken
    BY <1>5, NotifyRenews DEF Revoke
  <2> QED BY <2>1, <2>2 DEF Lessens
<1>6. CASE Restart
  BY <1>6 DEF Restart, Lessens, Renewed, NoRecord, NoEntry
<1>7. CASE Tick
  BY <1>b, <1>7 DEF Tick, bookVars
<1>8. ASSUME NEW m \in net, Reauthorize(m) \/ DropDuplicate(m) \/ AdmitBeat(m) PROVE Lessens
  BY <1>b, <1>8 DEF Reauthorize, DropDuplicate, AdmitBeat, bookVars
<1>9. ASSUME NEW m \in net, AnswerWrite(m) PROVE Lessens
  <2>1. m.device \in Devices
    BY DEF TypeOK, PhonesOK, Attempt
  <2>2. \/ writes' = [writes EXCEPT ![m.device] = PruneWrites(writes[m.device], Clock)]
        \/ writes' = [writes EXCEPT ![m.device] = writes[m.device]]
    BY <1>9 DEF AnswerWrite
  <2>3. \A a \in Writes : PruneWrites(writes[m.device], Clock)[a].state = "running" =>
            PruneWrites(writes[m.device], Clock)[a] = writes[m.device][a]
    BY <1>0, <2>1 DEF PruneWrites, NoRecord
  <2>4. \A e \in Devices, a \in Writes :
            writes'[e][a].state = "running" => writes'[e][a] = writes[e][a]
    BY <1>0, <2>1, <2>2, <2>3
  <2> QED BY <1>a, <1>9, <2>4 DEF AnswerWrite, Lessens
<1>10. ASSUME NEW t \in tasks, RunAction(t) PROVE Lessens
  BY <1>b, <1>10 DEF RunAction
<1>11. ASSUME NEW t \in tasks, CompleteWrite(t) PROVE Lessens
  <2>1. t.device \in Devices /\ t.action \in Writes /\ <<t.device, t.action>> \in Keys
    BY <1>11 DEF TypeOK, TasksOK, Task, CompleteWrite, Keys, Actions
  <2>2. CASE UNCHANGED <<writes, cache, waiters>>
    BY <1>b, <1>11, <2>2 DEF CompleteWrite
  <2>3. CASE Holds(writes[t.device][t.action], t.token)
    <3>1. /\ writes' = [writes EXCEPT ![t.device] = [writes[t.device] EXCEPT ![t.action] =
                          [writes[t.device][t.action] EXCEPT !.state = "done", !.doneAt = Clock]]]
          /\ cache' \in Trims(StoreResult(cache, <<t.device, t.action>>, now))
          /\ nextToken' = nextToken
      BY <1>11, <2>3 DEF CompleteWrite
    <3>2. Renewed(waiters')
      BY <1>11, <2>3, NotifyRenews DEF CompleteWrite
    <3> DEFINE rec == [writes[t.device][t.action] EXCEPT !.state = "done", !.doneAt = Clock]
    <3>3. rec.state = "done" /\ writes' = [writes EXCEPT ![t.device] = [writes[t.device] EXCEPT ![t.action] = rec]]
      BY <1>0, <2>1, <3>1 DEF WriteRecord
    <3> HIDE DEF rec
    <3>4. \A e \in Devices, a \in Writes :
              writes'[e][a].state = "running" => writes'[e][a] = writes[e][a]
      BY <1>0, <2>1, <3>3
    <3>5. \A k \in Keys : cache'[k].state = "inflight" => cache'[k] = cache[k]
      BY <1>0, <2>1, <3>1, CacheOnlyLoses
    <3> QED BY <3>1, <3>2, <3>4, <3>5 DEF Lessens
  <2> QED BY <1>11, <2>2, <2>3 DEF CompleteWrite
<1>12. ASSUME NEW t \in tasks, CompleteRead(t) PROVE Lessens
  <2>1. <<t.device, t.action>> \in Keys
    BY <1>12 DEF TypeOK, TasksOK, Task, Keys
  <2>2. /\ cache' \in Trims(StoreResult(cache, <<t.device, t.action>>, now))
        /\ writes' = writes /\ nextToken' = nextToken
    BY <1>12 DEF CompleteRead
  <2>3. Renewed(waiters')
    BY <1>12, NotifyRenews DEF CompleteRead
  <2>4. \A k \in Keys : cache'[k].state = "inflight" => cache'[k] = cache[k]
    BY <1>0, <2>1, <2>2, CacheOnlyLoses
  <2> QED BY <2>2, <2>3, <2>4 DEF Lessens
<1>13. ASSUME NEW w \in waiters, WaiterSubscribe(w) PROVE Lessens
  BY <1>13, SubscribingRenews DEF WaiterSubscribe, Lessens
<1>14. ASSUME NEW w \in waiters, WaiterGiveUp(w) \/ WaiterWake(w) PROVE Lessens
  <2>1. Renewed(waiters \ {w})
    BY SubsetRenews
  <2> QED BY <1>14, <2>1 DEF WaiterGiveUp, WaiterWake, Lessens
<1>15. CASE PhoneNext
  BY <1>b, <1>15 DEF PhoneNext, PhoneDispatch, PhoneResend, PhoneSettle, PhoneSend,
     PhoneReconnect, relaySide, bookVars
<1> QED
  BY <1>1, <1>2, <1>3, <1>4, <1>5, <1>6, <1>7, <1>8, <1>9, <1>10, <1>11, <1>12, <1>13, <1>14, <1>15
     DEF Next, RelayNext

\* The types the next lemmas compare tickets and tokens under.
LEMMA TicketTypes ==
    ASSUME TypeOK
    PROVE  /\ nextToken \in Nat
           /\ \A d \in Devices, a \in Writes : writes[d][a] \in WriteRecord
           /\ \A k \in Keys : cache[k] \in CacheEntry
           /\ \A w \in waiters : w \in Waiter
BY DEF TypeOK, BookOK, TasksOK

\* A write that is reserved gets a token nobody has.
LEMMA ReservingAWrite ==
    ASSUME TypeOK, TicketInv, NEW m \in net, AdmitWrite(m)
    PROVE  TicketInv'
<1> DEFINE recs == PruneWrites(writes[m.device], Clock)
           new  == RunningRecord(m.opBoot, m.opT0, nextToken)
<1>0. m.device \in Devices /\ m.action \in Writes
  BY DEF AdmitWrite, TypeOK, PhonesOK, Attempt
<1>1. /\ cache' = cache /\ waiters' = waiters /\ nextToken' = nextToken + 1
      /\ writes' = [writes EXCEPT ![m.device] = [recs EXCEPT ![m.action] = new]]
  BY DEF AdmitWrite
<1>2. new.state = "running" /\ new.token = nextToken
  BY DEF RunningRecord
<1>3. recs \in [Writes -> WriteRecord] /\ writes \in [Devices -> [Writes -> WriteRecord]]
      /\ \A a \in Writes : recs[a].state = "running" => recs[a] = writes[m.device][a]
  BY <1>0, PruneWritesType DEF TypeOK, BookOK, PruneWrites, NoRecord
<1> HIDE DEF recs, new
<1>4. ASSUME NEW d \in Devices, NEW a \in Writes, writes'[d][a].state = "running"
      PROVE  \/ writes'[d][a] = writes[d][a]
             \/ d = m.device /\ a = m.action /\ writes'[d][a].token = nextToken
  BY <1>0, <1>1, <1>2, <1>3, <1>4
<1>5. TicketsDiffer'
  BY <1>1 DEF TicketInv, TicketsDiffer
<1>6. TicketsAreCounted'
  <2> SUFFICES ASSUME NEW w \in waiters
               PROVE  /\ w.token < nextToken'
                      /\ \A d \in Devices, a \in Writes :
                             Holds(writes'[d][a], w.token) =>
                                 /\ w.source = "ledger" /\ w.device = d /\ w.action = a
                                 /\ w.ticket <= writes'[d][a].waiters
                      /\ \A k \in Keys :
                             cache[k].state = "inflight" /\ cache[k].token = w.token =>
                                 /\ w.source = "cache" /\ k = <<w.device, w.action>>
                                 /\ w.ticket <= cache[k].waiters
    BY <1>1 DEF TicketsAreCounted, Holds
  <2>1. w.token < nextToken /\ w.token \in Nat /\ nextToken \in Nat
    BY TicketTypes DEF TicketInv, TicketsAreCounted, Waiter
  <2>2. ASSUME NEW d \in Devices, NEW a \in Writes, Holds(writes'[d][a], w.token)
        PROVE  /\ w.source = "ledger" /\ w.device = d /\ w.action = a
               /\ w.ticket <= writes'[d][a].waiters
    <3>1. writes'[d][a] = writes[d][a]
      BY <1>4, <2>1, <2>2 DEF Holds
    <3> QED BY <2>2, <3>1 DEF TicketInv, TicketsAreCounted
  <2> QED BY <1>1, <2>1, <2>2 DEF TicketInv, TicketsAreCounted
<1>7. TokensName'
  <2>1. nextToken \in Nat
        /\ \A d \in Devices, a \in Writes : writes[d][a].token \in Nat
        /\ \A k \in Keys : cache[k].token \in Nat
    BY TicketTypes DEF WriteRecord, CacheEntry
  <2>2. ASSUME NEW d \in Devices, NEW a \in Writes, writes'[d][a].state = "running"
        PROVE  /\ writes'[d][a].token < nextToken'
               /\ \A k \in Keys : ~(cache[k].state = "inflight" /\ cache[k].token = writes'[d][a].token)
    BY <1>1, <1>4, <2>1, <2>2 DEF TicketInv, TokensName
  <2>3. ASSUME NEW d \in Devices, NEW a \in Writes, writes'[d][a].state = "running",
               NEW e \in Devices, NEW b \in Writes, writes'[e][b].state = "running",
               writes'[e][b].token = writes'[d][a].token
        PROVE  e = d /\ b = a
    <3>1. \/ writes'[d][a] = writes[d][a] /\ writes[d][a].token < nextToken
          \/ d = m.device /\ a = m.action /\ writes'[d][a].token = nextToken
      BY <1>4, <2>3 DEF TicketInv, TokensName
    <3>2. \/ writes'[e][b] = writes[e][b] /\ writes[e][b].token < nextToken
          \/ e = m.device /\ b = m.action /\ writes'[e][b].token = nextToken
      BY <1>4, <2>3 DEF TicketInv, TokensName
    <3> QED BY <2>1, <2>3, <3>1, <3>2 DEF TicketInv, TokensName, Holds
  <2>4. ASSUME NEW k \in Keys, cache[k].state = "inflight"
        PROVE  /\ cache[k].token < nextToken'
               /\ \A j \in Keys : cache[j].state = "inflight" /\ cache[j].token = cache[k].token => j = k
    <3>1. cache[k].token < nextToken
          /\ \A j \in Keys : cache[j].state = "inflight" /\ cache[j].token = cache[k].token => j = k
      BY <2>4 DEF TicketInv, TokensName
    <3>2. cache[k].token \in Nat
      BY <2>4, TicketTypes DEF CacheEntry
    <3>3. nextToken' = nextToken + 1
      BY <1>1
    <3>4. cache[k].token < nextToken'
      BY <2>1, <3>1, <3>2, <3>3
    <3> QED BY <3>1, <3>4
  <2> QED BY <1>1, <2>2, <2>3, <2>4 DEF TokensName, Holds
<1> QED BY <1>5, <1>6, <1>7 DEF TicketInv

\* A waiter for a write that runs takes the next ticket.
LEMMA JoiningAWrite ==
    ASSUME TypeOK, TicketInv, NEW m \in net, JoinWrite(m)
    PROVE  TicketInv'
<1> DEFINE recs == PruneWrites(writes[m.device], Clock)
           new  == [recs[m.action] EXCEPT !.waiters = @ + 1]
           w    == NewWaiter(m, "ledger", recs[m.action].token, recs[m.action].waiters + 1)
           old  == writes[m.device][m.action]
<1>0. m.device \in Devices /\ m.action \in Writes
  BY DEF JoinWrite, TypeOK, PhonesOK, Attempt
<1>1. /\ cache' = cache /\ nextToken' = nextToken /\ waiters' = waiters \cup {w}
      /\ writes' = [writes EXCEPT ![m.device] = [recs EXCEPT ![m.action] = new]]
      /\ recs[m.action].state = "running"
  BY DEF JoinWrite
<1>2. recs \in [Writes -> WriteRecord] /\ writes \in [Devices -> [Writes -> WriteRecord]]
      /\ \A a \in Writes : recs[a].state = "running" => recs[a] = writes[m.device][a]
  BY <1>0, PruneWritesType DEF TypeOK, BookOK, PruneWrites, NoRecord
<1>3. /\ old.state = "running" /\ old.waiters \in Nat /\ old.token \in Nat
      /\ new.state = "running" /\ new.token = old.token /\ new.waiters = old.waiters + 1
      /\ w.token = old.token /\ w.ticket = old.waiters + 1 /\ w.source = "ledger"
      /\ w.device = m.device /\ w.action = m.action
  BY <1>0, <1>1, <1>2 DEF WriteRecord, NewWaiter
<1> HIDE DEF recs, new, w
<1>4. writes'[m.device][m.action] = new
  BY <1>0, <1>1, <1>2
<1>5. ASSUME NEW d \in Devices, NEW a \in Writes, writes'[d][a].state = "running"
      PROVE  \/ writes'[d][a] = writes[d][a]
             \/ d = m.device /\ a = m.action /\ writes'[d][a] = new
  BY <1>0, <1>1, <1>2, <1>5
<1>6. \A v \in waiters : v.token = w.token =>
          /\ v.source = "ledger" /\ v.device = m.device /\ v.action = m.action
          /\ v.ticket <= old.waiters /\ v.ticket \in Nat
  BY <1>0, <1>3, TicketTypes DEF TicketInv, TicketsAreCounted, Holds, Waiter
<1>7. TicketsDiffer'
  BY <1>1, <1>3, <1>6 DEF TicketInv, TicketsDiffer
<1>8. TokensName'
  BY <1>0, <1>1, <1>3, <1>5 DEF TicketInv, TokensName, Holds
<1>9. TicketsAreCounted'
  <2> SUFFICES ASSUME NEW v \in waiters'
               PROVE  /\ v.token < nextToken'
                      /\ \A d \in Devices, a \in Writes :
                             Holds(writes'[d][a], v.token) =>
                                 /\ v.source = "ledger" /\ v.device = d /\ v.action = a
                                 /\ v.ticket <= writes'[d][a].waiters
                      /\ \A k \in Keys :
                             cache'[k].state = "inflight" /\ cache'[k].token = v.token =>
                                 /\ v.source = "cache" /\ k = <<v.device, v.action>>
                                 /\ v.ticket <= cache'[k].waiters
    BY DEF TicketsAreCounted, Holds
  <2>1. CASE v = w
    <3>1. w.token < nextToken
          /\ \A k \in Keys : ~(cache[k].state = "inflight" /\ cache[k].token = w.token)
      BY <1>0, <1>3 DEF TicketInv, TokensName
    <3>2. ASSUME NEW d \in Devices, NEW a \in Writes, Holds(writes'[d][a], w.token)
          PROVE  d = m.device /\ a = m.action
      BY <1>0, <1>3, <1>5, <3>2 DEF TicketInv, TokensName, Holds
    <3>3. ASSUME NEW d \in Devices, NEW a \in Writes, Holds(writes'[d][a], w.token)
          PROVE  /\ w.source = "ledger" /\ w.device = d /\ w.action = a
                 /\ w.ticket <= writes'[d][a].waiters
      BY <1>3, <1>4, <3>2, <3>3
    <3> QED BY <1>1, <2>1, <3>1, <3>3
  <2>2. CASE v \in waiters
    <3>1. ASSUME NEW d \in Devices, NEW a \in Writes, Holds(writes'[d][a], v.token)
          PROVE  /\ v.source = "ledger" /\ v.device = d /\ v.action = a
                 /\ v.ticket <= writes'[d][a].waiters
      <4>1. CASE writes'[d][a] = writes[d][a]
        BY <2>2, <3>1, <4>1 DEF TicketInv, TicketsAreCounted
      <4>2. CASE d = m.device /\ a = m.action /\ writes'[d][a] = new
        <5>1. v.token = w.token
          BY <1>3, <3>1, <4>2 DEF Holds
        <5>2. v.ticket <= old.waiters /\ v.ticket \in Nat /\ v.source = "ledger"
              /\ v.device = m.device /\ v.action = m.action
          BY <1>6, <2>2, <5>1
        <5> QED BY <1>3, <4>2, <5>2
      <4> QED BY <1>5, <3>1, <4>1, <4>2 DEF Holds
    <3> QED BY <1>1, <2>2, <3>1 DEF TicketInv, TicketsAreCounted
  <2> QED BY <1>1, <2>1, <2>2
<1> QED BY <1>7, <1>8, <1>9 DEF TicketInv

\* Waiters from before keep their tickets' order, and nothing else is said of them.
LEMMA RenewedFromBefore ==
    ASSUME TicketInv, NEW ws, Renewed(ws)
    PROVE  /\ \A w, v \in ws : w.token = v.token =>
                  /\ w.device = v.device /\ w.action = v.action /\ w.source = v.source
                  /\ w.ticket = v.ticket => w = v
           /\ \A w \in ws :
                  /\ w.token < nextToken
                  /\ \A d \in Devices, a \in Writes :
                         Holds(writes[d][a], w.token) =>
                             /\ w.source = "ledger" /\ w.device = d /\ w.action = a
                             /\ w.ticket <= writes[d][a].waiters
                  /\ \A k \in Keys :
                         cache[k].state = "inflight" /\ cache[k].token = w.token =>
                             /\ w.source = "cache" /\ k = <<w.device, w.action>>
                             /\ w.ticket <= cache[k].waiters
<1>1. ASSUME NEW w \in ws
      PROVE  /\ w.token < nextToken
             /\ \A d \in Devices, a \in Writes :
                    Holds(writes[d][a], w.token) =>
                        /\ w.source = "ledger" /\ w.device = d /\ w.action = a
                        /\ w.ticket <= writes[d][a].waiters
             /\ \A k \in Keys :
                    cache[k].state = "inflight" /\ cache[k].token = w.token =>
                        /\ w.source = "cache" /\ k = <<w.device, w.action>>
                        /\ w.ticket <= cache[k].waiters
  <2>1. PICK v \in waiters : Like(w, v)
    BY DEF Renewed
  <2> QED BY <2>1 DEF Like, TicketInv, TicketsAreCounted
<1>2. ASSUME NEW w \in ws, NEW v \in ws, w.token = v.token
      PROVE  /\ w.device = v.device /\ w.action = v.action /\ w.source = v.source
             /\ w.ticket = v.ticket => w = v
  <2>1. PICK x \in waiters : Like(w, x)
    BY DEF Renewed
  <2>2. PICK y \in waiters : Like(v, y)
    BY DEF Renewed
  <2>3. w.device = v.device /\ w.action = v.action /\ w.source = v.source
    <3>1. x.token = y.token
      BY <1>2, <2>1, <2>2 DEF Like
    <3>2. x.device = y.device /\ x.action = y.action /\ x.source = y.source
      BY <3>1 DEF TicketInv, TicketsDiffer
    <3> QED BY <2>1, <2>2, <3>2 DEF Like
  <2>4. ASSUME w.ticket = v.ticket PROVE w = v
    <3>1. Like(w, v)
      BY <1>2, <2>3, <2>4 DEF Like
    <3> QED BY <3>1 DEF Renewed
  <2> QED BY <2>3, <2>4
<1> QED BY <1>1, <1>2

\* What an admitted read does to the cache of results.
LEMMA AdmittingARead ==
    ASSUME TypeOK, TicketInv, NEW m \in net, AdmitRead(m)
    PROVE  TicketInv'
<1> DEFINE k  == <<m.device, m.action>>
           c  == PruneCache(cache, now)
           ws == Notify(waiters, Abandoned(cache, now))
           w  == NewWaiter(m, "cache", c[k].token, c[k].waiters + 1)
<1>0. k \in Keys /\ cache \in [Keys -> CacheEntry] /\ c \in [Keys -> CacheEntry]
      /\ writes' = writes /\ nextToken \in Nat
  BY PruneCacheType DEF AdmitRead, TypeOK, PhonesOK, BookOK, Attempt, Keys
<1>1. \A j \in Keys : c[j].state = "inflight" => c[j] = cache[j]
  BY <1>0, CacheOnlyLoses
<1>2. Renewed(ws)
  BY NotifyRenews DEF TicketInv
<1>3. w.token = c[k].token /\ w.ticket = c[k].waiters + 1 /\ w.source = "cache"
      /\ w.device = m.device /\ w.action = m.action
  BY DEF NewWaiter
<1>4. \/ /\ cache' = [c EXCEPT ![k] = [state |-> "inflight", token |-> nextToken,
                                        waiters |-> 0, seen |-> now]]
         /\ nextToken' = nextToken + 1 /\ waiters' = ws
      \/ /\ c[k].state = "inflight" /\ cache' = [c EXCEPT ![k] = [c[k] EXCEPT !.waiters = @ + 1]]
         /\ waiters' = ws \cup {w} /\ nextToken' = nextToken
      \/ cache' = c /\ waiters' = ws /\ nextToken' = nextToken
  BY DEF AdmitRead
<1> HIDE DEF c, ws, w
<1>5. CASE cache' = c /\ waiters' = ws /\ nextToken' = nextToken
  BY <1>0, <1>1, <1>2, <1>5, LesseningKeepsTickets DEF Lessens
<1>6. CASE /\ cache' = [c EXCEPT ![k] = [state |-> "inflight", token |-> nextToken,
                                        waiters |-> 0, seen |-> now]]
           /\ nextToken' = nextToken + 1 /\ waiters' = ws
  <2>1. ASSUME NEW j \in Keys, cache'[j].state = "inflight"
        PROVE  cache'[j] = cache[j] \/ (j = k /\ cache'[j].token = nextToken)
    BY <1>0, <1>1, <1>6, <2>1
  <2>2. TicketsDiffer'
    BY <1>2, <1>6, RenewedFromBefore DEF TicketsDiffer
  <2>3. /\ \A d \in Devices, a \in Writes : writes[d][a].token \in Nat
        /\ \A j \in Keys : cache[j].token \in Nat
        /\ \A v \in ws : v.token \in Nat
    <3>1. \A v \in ws : v.token \in Nat
      BY <1>2, TicketTypes DEF Renewed, Like, Waiter
    <3> QED BY <3>1, TicketTypes DEF WriteRecord, CacheEntry
  <2>4. TicketsAreCounted'
    <3> SUFFICES ASSUME NEW v \in ws
                 PROVE  /\ v.token < nextToken'
                        /\ \A d \in Devices, a \in Writes :
                               Holds(writes[d][a], v.token) =>
                                   /\ v.source = "ledger" /\ v.device = d /\ v.action = a
                                   /\ v.ticket <= writes[d][a].waiters
                        /\ \A j \in Keys :
                               cache'[j].state = "inflight" /\ cache'[j].token = v.token =>
                                   /\ v.source = "cache" /\ j = <<v.device, v.action>>
                                   /\ v.ticket <= cache'[j].waiters
      BY <1>0, <1>6 DEF TicketsAreCounted, Holds
    <3>1. v.token < nextToken
      BY <1>2, RenewedFromBefore
    <3>2. v.token < nextToken'
      BY <1>0, <1>6, <2>3, <3>1
    <3>3. ASSUME NEW j \in Keys, cache'[j].state = "inflight", cache'[j].token = v.token
          PROVE  /\ v.source = "cache" /\ j = <<v.device, v.action>>
                 /\ v.ticket <= cache'[j].waiters
      <4>1. cache'[j] = cache[j]
        BY <1>0, <2>1, <2>3, <3>1, <3>3
      <4> QED BY <1>2, <3>3, <4>1, RenewedFromBefore
    <3>4. \A d \in Devices, a \in Writes :
              Holds(writes[d][a], v.token) =>
                  /\ v.source = "ledger" /\ v.device = d /\ v.action = a
                  /\ v.ticket <= writes[d][a].waiters
      BY <1>2, RenewedFromBefore
    <3> QED BY <3>2, <3>3, <3>4
  <2>5. TokensName'
    <3>1. ASSUME NEW j \in Keys, cache'[j].state = "inflight"
          PROVE  /\ cache'[j].token < nextToken'
                 /\ \A d \in Devices, a \in Writes : ~Holds(writes[d][a], cache'[j].token)
      BY <1>0, <1>6, <2>1, <2>3, <3>1 DEF TicketInv, TokensName, Holds
    <3>2. ASSUME NEW j \in Keys, cache'[j].state = "inflight",
                 NEW i \in Keys, cache'[i].state = "inflight", cache'[i].token = cache'[j].token
          PROVE  i = j
      <4>1. (cache'[j] = cache[j] /\ cache[j].token < nextToken) \/ (j = k /\ cache'[j].token = nextToken)
        BY <2>1, <3>2 DEF TicketInv, TokensName
      <4>2. (cache'[i] = cache[i] /\ cache[i].token < nextToken) \/ (i = k /\ cache'[i].token = nextToken)
        BY <2>1, <3>2 DEF TicketInv, TokensName
      <4> QED BY <1>0, <2>3, <3>2, <4>1, <4>2 DEF TicketInv, TokensName
    <3>3. ASSUME NEW d \in Devices, NEW a \in Writes, writes[d][a].state = "running"
          PROVE  /\ writes[d][a].token < nextToken'
                 /\ \A e \in Devices, b \in Writes :
                        Holds(writes[e][b], writes[d][a].token) => e = d /\ b = a
                 /\ \A j \in Keys :
                        ~(cache'[j].state = "inflight" /\ cache'[j].token = writes[d][a].token)
      <4>1. /\ writes[d][a].token < nextToken
            /\ \A e \in Devices, b \in Writes :
                   Holds(writes[e][b], writes[d][a].token) => e = d /\ b = a
        BY <3>3 DEF TicketInv, TokensName
      <4>2. writes[d][a].token < nextToken'
        BY <1>0, <1>6, <2>3, <4>1
      <4> QED BY <3>1, <3>3, <4>1, <4>2 DEF Holds
    <3> QED BY <1>0, <3>1, <3>2, <3>3 DEF TokensName, Holds
  <2> QED BY <2>2, <2>4, <2>5 DEF TicketInv
<1>7. CASE /\ c[k].state = "inflight" /\ cache' = [c EXCEPT ![k] = [c[k] EXCEPT !.waiters = @ + 1]]
           /\ waiters' = ws \cup {w} /\ nextToken' = nextToken
  <2>0. /\ cache[k].state = "inflight" /\ c[k] = cache[k]
        /\ cache[k].token \in Nat /\ cache[k].waiters \in Nat
    BY <1>0, <1>1, <1>7 DEF CacheEntry
  <2>1. /\ cache'[k].state = "inflight" /\ cache'[k].token = cache[k].token
        /\ cache'[k].waiters = cache[k].waiters + 1
        /\ \A j \in Keys : cache'[j].state = "inflight" => cache'[j] = cache[j] \/ j = k
    BY <1>0, <1>1, <1>7, <2>0 DEF CacheEntry
  <2>2. /\ w.token = cache[k].token /\ w.ticket = cache[k].waiters + 1 /\ w.source = "cache"
        /\ w.device = m.device /\ w.action = m.action
    BY <1>3, <2>0
  <2>3. \A v \in ws : v.ticket \in Nat
    BY <1>2, TicketTypes DEF Renewed, Like, Waiter
  <2>4. \A v \in ws : v.token = w.token =>
            /\ v.source = "cache" /\ v.device = m.device /\ v.action = m.action
            /\ v.ticket <= cache[k].waiters
    <3> SUFFICES ASSUME NEW v \in ws, v.token = w.token
                 PROVE  /\ v.source = "cache" /\ v.device = m.device /\ v.action = m.action
                        /\ v.ticket <= cache[k].waiters
      OBVIOUS
    <3>1. /\ v.source = "cache" /\ k = <<v.device, v.action>>
          /\ v.ticket <= cache[k].waiters
      BY <1>0, <1>2, <2>0, <2>2, RenewedFromBefore
    <3> QED BY <3>1
  <2>5. TicketsDiffer'
    <3>1. \A v \in ws : v.ticket # w.ticket \/ v.token # w.token
      BY <2>0, <2>2, <2>3, <2>4
    <3>2. ASSUME NEW v \in ws, NEW u \in ws, v.token = u.token
          PROVE  /\ v.device = u.device /\ v.action = u.action /\ v.source = u.source
                 /\ v.ticket = u.ticket => v = u
      BY <1>2, <3>2, RenewedFromBefore
    <3> QED BY <1>7, <2>2, <2>4, <3>1, <3>2 DEF TicketsDiffer
  <2>6. TokensName'
    <3>1. ASSUME NEW j \in Keys, cache'[j].state = "inflight"
          PROVE  cache[j].state = "inflight" /\ cache'[j].token = cache[j].token
      BY <2>0, <2>1, <3>1
    <3> QED BY <1>0, <1>7, <3>1 DEF TicketInv, TokensName, Holds
  <2>7. TicketsAreCounted'
    <3> SUFFICES ASSUME NEW v \in ws \cup {w}
                 PROVE  /\ v.token < nextToken
                        /\ \A d \in Devices, a \in Writes :
                               Holds(writes[d][a], v.token) =>
                                   /\ v.source = "ledger" /\ v.device = d /\ v.action = a
                                   /\ v.ticket <= writes[d][a].waiters
                        /\ \A j \in Keys :
                               cache'[j].state = "inflight" /\ cache'[j].token = v.token =>
                                   /\ v.source = "cache" /\ j = <<v.device, v.action>>
                                   /\ v.ticket <= cache'[j].waiters
      BY <1>0, <1>7 DEF TicketsAreCounted, Holds
    <3>1. CASE v = w
      <4>1. v.token < nextToken
        BY <1>0, <2>0, <2>2, <3>1 DEF TicketInv, TokensName
      <4>2. ASSUME NEW d \in Devices, NEW a \in Writes PROVE ~Holds(writes[d][a], v.token)
        BY <1>0, <2>0, <2>2, <3>1 DEF TicketInv, TokensName, Holds
      <4>3. ASSUME NEW j \in Keys, cache'[j].state = "inflight", cache'[j].token = v.token
            PROVE  j = k
        <5>1. j = k \/ (cache[j].state = "inflight" /\ cache[j].token = cache[k].token)
          BY <2>1, <2>2, <3>1, <4>3
        <5> QED BY <1>0, <2>0, <5>1 DEF TicketInv, TokensName
      <4>4. v.source = "cache" /\ k = <<v.device, v.action>> /\ v.ticket <= cache'[k].waiters
        BY <2>0, <2>1, <2>2, <3>1
      <4> QED BY <4>1, <4>2, <4>3, <4>4
    <3>2. CASE v \in ws
      <4>1. /\ v.token < nextToken
            /\ \A d \in Devices, a \in Writes :
                   Holds(writes[d][a], v.token) =>
                       /\ v.source = "ledger" /\ v.device = d /\ v.action = a
                       /\ v.ticket <= writes[d][a].waiters
        BY <1>2, <3>2, RenewedFromBefore
      <4>2. ASSUME NEW j \in Keys, cache'[j].state = "inflight", cache'[j].token = v.token
            PROVE  /\ v.source = "cache" /\ j = <<v.device, v.action>>
                   /\ v.ticket <= cache'[j].waiters
        <5>1. CASE cache'[j] = cache[j]
          BY <1>2, <3>2, <4>2, <5>1, RenewedFromBefore
        <5>2. CASE j = k
          BY <2>0, <2>1, <2>2, <2>3, <2>4, <3>2, <4>2, <5>2
        <5> QED BY <2>1, <4>2, <5>1, <5>2
      <4> QED BY <4>1, <4>2
    <3> QED BY <3>1, <3>2
  <2> QED BY <2>5, <2>6, <2>7 DEF TicketInv
<1> QED BY <1>4, <1>5, <1>6, <1>7

\* Of the attempts that wait for one reservation, one answers: the ticket it holds is
\* the last that was handed out (answer_from_attempt_ahead, delivery.rs).
THEOREM ReservationsAreAnsweredOnce == Spec => []OneAnswerPerReservation
<1>1. Init => TicketInv
  BY DEF Init, TicketInv, TicketsDiffer, TicketsAreCounted, TokensName, NoRecord, NoEntry, Holds
<1>2. TypeOK /\ TicketInv /\ [Next]_vars => TicketInv'
  BY BookKinds, LesseningKeepsTickets, ReservingAWrite, JoiningAWrite, AdmittingARead DEF TicketInv
<1>3. TypeOK /\ TicketInv => OneAnswerPerReservation
  <2> SUFFICES ASSUME TypeOK, TicketInv, NEW w \in waiters, NEW v \in waiters,
                      w.token = v.token,
                      WaitOutcome(w) # "superseded", WaitOutcome(v) # "superseded"
               PROVE  w = v
    BY DEF OneAnswerPerReservation
  <2>1. w.ticket = v.ticket => w = v
    BY DEF TicketInv, TicketsDiffer
  <2> QED BY <2>1 DEF WaitOutcome, TicketInv, TicketsDiffer
<1> QED BY <1>1, <1>2, <1>3, TypeCorrect, PTL DEF Spec
=============================================================================
