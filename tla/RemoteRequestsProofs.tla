------------------------ MODULE RemoteRequestsProofs ------------------------
(* Proofs about RemoteRequests: its types, and that a write takes effect at most *)
(* once, for any number of devices, peers, actions, attempts, sessions, restarts *)
(* and revocations.                                                              *)
EXTENDS RemoteRequests, FiniteSetTheorems, TLAPS

USE TimesAssumption, LimitsAssumption, DriftAssumption, BoundsAssumption

(* ---- Types of the operators ---------------------------------------------- *)

\* PruneWrites keeps the ledger of a device a ledger.
LEMMA PruneWritesType ==
    ASSUME NEW recs \in [Writes -> WriteRecord], NEW t
    PROVE  PruneWrites(recs, t) \in [Writes -> WriteRecord]
BY DEF PruneWrites, NoRecord, WriteRecord

\* Pruning the result cache keeps it a cache.
LEMMA PruneCacheType ==
    ASSUME NEW c \in [Keys -> CacheEntry], NEW t
    PROVE  PruneCache(c, t) \in [Keys -> CacheEntry]
BY DEF PruneCache, NoEntry, CacheEntry

\* Trimming the result cache keeps it a cache.
LEMMA TrimsType ==
    ASSUME NEW c \in [Keys -> CacheEntry], NEW e \in Trims(c)
    PROVE  e \in [Keys -> CacheEntry]
BY DEF Trims, NoEntry, CacheEntry

\* Storing a result keeps the cache a cache.
LEMMA StoreResultType ==
    ASSUME NEW c \in [Keys -> CacheEntry], NEW k \in Keys, NEW t \in Nat
    PROVE  StoreResult(c, k, t) \in [Keys -> CacheEntry]
BY PruneCacheType DEF StoreResult, CacheEntry

\* notify_waiters changes no more than the phase of a waiter.
LEMMA NotifyType ==
    ASSUME NEW ws \in SUBSET Waiter, NEW tokens
    PROVE  Notify(ws, tokens) \in SUBSET Waiter
BY DEF Notify, Waiter

\* A pruned set of sessions is a subset of the sessions there were.
LEMMA PruneSessionsIsRestriction ==
    ASSUME NEW ss, NEW t
    PROVE  /\ DOMAIN PruneSessions(ss, t) \subseteq DOMAIN ss
           /\ \A sid \in DOMAIN PruneSessions(ss, t) : PruneSessions(ss, t)[sid] = ss[sid]
BY DEF PruneSessions, Restrict

\* Spending a number leaves a session a session.
LEMMA UseSeqType ==
    ASSUME NEW s \in Session, NEW seq \in Nat
    PROVE  UseSeq(s, seq) \in Session
BY DEF UseSeq, Session

\* What a phone builds is an attempt, under the claim it holds.
LEMMA AttemptsType ==
    ASSUME TypeOK, NEW d \in Devices, NEW a \in Actions, NEW m \in Attempts(d, a)
    PROVE  m \in Attempt
<1>1. phone[d] \in Phone /\ ops[d][a] \in PendingOp /\ Clock \in Nat
  BY DEF TypeOK, PhonesOK, ClockOK, Clock
<1>2. PICK t \in PhoneClock(d) :
        m = [device |-> d, peer |-> phone[d].peer, sid |-> phone[d].claim.sid,
             boot |-> phone[d].claim.boot, seq |-> phone[d].seq + 1, sent |-> t, action |-> a,
             opBoot |-> IF ops[d][a].sent THEN ops[d][a].boot ELSE phone[d].claim.boot,
             opT0 |-> IF ops[d][a].sent THEN ops[d][a].t0 ELSE t]
  BY DEF Attempts
<1>3. t \in Nat
  BY <1>1 DEF PhoneClock, Phone
<1> QED BY <1>1, <1>2, <1>3 DEF Attempt, Phone, PendingOp

\* The relay tells a phone only what the type of told allows.
LEMMA TellType ==
    ASSUME told \in SUBSET Told, NEW d \in Devices, NEW p, NEW lease, NEW a \in Actions,
           NEW kind \in {"result", "already_completed", "outcome_unknown", "refused"}
    PROVE  Tell(d, p, lease, a, kind) \in SUBSET Told
BY DEF Tell, Told

(* ---- Type correctness ---------------------------------------------------- *)

\* Restricting the sessions keeps them sessions.
LEMMA RestrictSessions ==
    ASSUME SessionsOK, NEW S \in SUBSET DOMAIN sessions, sessions' = Restrict(sessions, S),
           nextSid' = nextSid
    PROVE  SessionsOK'
BY DEF SessionsOK, Restrict

\* The types of what every admitted attempt changes.
LEMMA AdmitType ==
    ASSUME TypeOK, NEW m \in net, Admit(m)
    PROVE  /\ m \in Attempt
           /\ ClockOK' /\ PairsOK' /\ LeasesOK' /\ SessionsOK' /\ PhonesOK'
           /\ answered' \in SUBSET (Nat \X Nat) /\ twice' \in SUBSET (Nat \X Nat)
           /\ leases[m.peer] \in Nat /\ epoch[m.device] \in Nat /\ Clock \in Nat
<1> DEFINE live == PruneSessions(sessions, Clock)
<1>1. m \in Attempt
  BY DEF TypeOK, PhonesOK
<1>2. SessionsOK'
  <2>1. m.sid \in DOMAIN live /\ DOMAIN live \subseteq DOMAIN sessions
    BY PruneSessionsIsRestriction DEF Admit, Authorized, SessionMatches
  <2>2. \A sid \in DOMAIN live : live[sid] \in Session
    BY <2>1, PruneSessionsIsRestriction DEF TypeOK, SessionsOK
  <2>3. UseSeq(live[m.sid], m.seq) \in Session
    BY <1>1, <2>1, <2>2, UseSeqType DEF Attempt
  <2>4. sessions' = [live EXCEPT ![m.sid] = UseSeq(live[m.sid], m.seq)] /\ nextSid' = nextSid
    BY DEF Admit
  <2>5. live = [sid \in DOMAIN live |-> live[sid]]
    BY DEF PruneSessions, Restrict
  <2> HIDE DEF live
  <2>6. DOMAIN sessions' = DOMAIN live
    BY <2>4, <2>5
  <2>7. \A sid \in DOMAIN live : sessions'[sid] \in Session
    BY <2>2, <2>3, <2>4, <2>5
  <2> QED BY <2>1, <2>4, <2>6, <2>7 DEF TypeOK, SessionsOK
<1>3. ClockOK' /\ PairsOK' /\ LeasesOK' /\ PhonesOK'
  BY DEF Admit, TypeOK, ClockOK, PairsOK, LeasesOK, PhonesOK, clockVars, pairVars, phoneVars
<1>4. answered' \in SUBSET (Nat \X Nat) /\ twice' \in SUBSET (Nat \X Nat)
  BY <1>1 DEF Admit, TypeOK, HistoryOK, Attempt
<1>5. leases[m.peer] \in Nat /\ epoch[m.device] \in Nat /\ Clock \in Nat
  BY <1>1 DEF TypeOK, LeasesOK, PairsOK, ClockOK, Clock, Attempt
<1> QED BY <1>1, <1>2, <1>3, <1>4, <1>5

\* The relay's presence, claim and pairing steps keep the types.
LEMMA PresenceType ==
    ASSUME TypeOK,
           \/ \E p \in Peers : SurfaceJoined(p) \/ SurfaceLeft(p)
           \/ BrokerLost
           \/ \E online \in SUBSET Peers : Welcome(online)
           \/ \E d \in Devices : OpenRequestSession(d) \/ Revoke(d) \/ PairAgain(d)
           \/ Restart \/ Tick
    PROVE  TypeOK'
<1> USE DEF TypeOK
<1>1. ASSUME NEW p \in Peers, SurfaceJoined(p) PROVE TypeOK'
  BY <1>1 DEF SurfaceJoined, ClockOK, PairsOK, LeasesOK, SessionsOK, BookOK, TasksOK, PhonesOK,
     HistoryOK, bookVars, phoneVars, clockVars, pairVars, histVars
<1>2. ASSUME NEW p \in Peers, SurfaceLeft(p) PROVE TypeOK'
  <2>1. SessionsOK' BY <1>2, RestrictSessions DEF SurfaceLeft
  <2> QED BY <1>2, <2>1 DEF SurfaceLeft, ClockOK, PairsOK, LeasesOK, BookOK, TasksOK, PhonesOK,
        HistoryOK, bookVars, phoneVars, clockVars, pairVars, histVars
<1>3. CASE BrokerLost
  BY <1>3 DEF BrokerLost, ClockOK, PairsOK, LeasesOK, SessionsOK, BookOK, TasksOK, PhonesOK,
     HistoryOK, bookVars, phoneVars, clockVars, pairVars, histVars
<1>4. ASSUME NEW online \in SUBSET Peers, Welcome(online) PROVE TypeOK'
  <2>1. SessionsOK' BY <1>4, RestrictSessions DEF Welcome
  <2>2. Cardinality(online) \in Nat
    BY PeersAssumption, FS_Subset, FS_CardinalityType
  <2>3. LeasesOK'
    BY <1>4, <2>2 DEF Welcome, LeasesOK
  <2> QED BY <1>4, <2>1, <2>3 DEF Welcome, ClockOK, PairsOK, BookOK, TasksOK, PhonesOK,
        HistoryOK, bookVars, phoneVars, clockVars, pairVars, histVars
<1>5. ASSUME NEW d \in Devices, OpenRequestSession(d) PROVE TypeOK'
  <2> DEFINE p    == phone[d].peer
             live == PruneSessions(sessions, Clock)
             rest == Restrict(live, {s \in DOMAIN live : live[s].device # d \/ live[s].peer # p})
  <2>1. Clock \in Nat /\ p \in Peers /\ boot \in Nat
    BY DEF ClockOK, Clock, PhonesOK, Phone
  <2>2. DOMAIN rest \subseteq Nat /\ \A s \in DOMAIN rest : rest[s] \in Session
    BY PruneSessionsIsRestriction DEF SessionsOK, Restrict
  <2>3. NewSession(d, p, Clock) \in Session
    BY <2>1 DEF NewSession, Session
  <2>4. SessionsOK'
    <3>1. PICK kept \in Survivors(rest, d) :
            sessions' = [s \in (DOMAIN rest \ SessionsOf(rest, d)) \cup kept \cup {nextSid} |->
                           IF s = nextSid THEN NewSession(d, p, Clock) ELSE rest[s]]
      BY <1>5 DEF OpenRequestSession
    <3>2. kept \subseteq DOMAIN rest
      BY DEF Survivors, SessionsOf
    <3>3. nextSid' = nextSid + 1
      BY <1>5 DEF OpenRequestSession
    <3> HIDE DEF rest, live
    <3> QED BY <2>2, <2>3, <3>1, <3>2, <3>3 DEF SessionsOK
  <2>5. phone' \in [Devices -> Phone]
    <3> DEFINE claim == [sid |-> nextSid, boot |-> boot, relayMs |-> Clock]
               held  == [phone[d] EXCEPT !.claim = claim, !.seq = 0]
    <3>1. phone' = [phone EXCEPT ![d] = held] \/ phone' = phone
      BY <1>5 DEF OpenRequestSession
    <3>2. phone \in [Devices -> Phone] /\ phone[d] \in Phone
      BY DEF PhonesOK
    <3>3. claim \in [sid : Nat, boot : Nat, relayMs : Nat]
      BY <2>1 DEF SessionsOK
    <3> HIDE DEF claim
    <3>4. held \in Phone
      BY <3>2, <3>3 DEF Phone
    <3> HIDE DEF held
    <3> QED BY <3>1, <3>2, <3>4
  <2>6. PhonesOK'
    BY <1>5, <2>5 DEF OpenRequestSession, PhonesOK
  <2> QED BY <1>5, <2>4, <2>6 DEF OpenRequestSession, ClockOK, PairsOK, LeasesOK, BookOK, TasksOK,
        HistoryOK, bookVars, clockVars, pairVars, histVars
<1>6. ASSUME NEW d \in Devices, Revoke(d) PROVE TypeOK'
  <2>1. SessionsOK' BY <1>6, RestrictSessions DEF Revoke
  <2>2. waiters' \in SUBSET Waiter BY <1>6, NotifyType DEF Revoke, TasksOK
  <2>3. BookOK' BY <1>6 DEF Revoke, BookOK, NoRecord, WriteRecord
  <2>4. PairsOK' BY <1>6 DEF Revoke, PairsOK
  <2>5. ClockOK' /\ LeasesOK' /\ PhonesOK' /\ HistoryOK' /\ tasks' = tasks
    BY <1>6 DEF Revoke, ClockOK, LeasesOK, PhonesOK, HistoryOK, phoneVars, clockVars, histVars
  <2> QED BY <2>1, <2>2, <2>3, <2>4, <2>5 DEF TasksOK
<1>7. ASSUME NEW d \in Devices, PairAgain(d) PROVE TypeOK'
  BY <1>7 DEF PairAgain, ClockOK, PairsOK, LeasesOK, SessionsOK, BookOK, TasksOK, PhonesOK,
     HistoryOK, relayVars, bookVars, phoneVars, clockVars, histVars
<1>8. CASE Restart
  <2>1. BookOK' BY <1>8 DEF Restart, BookOK, NoRecord, WriteRecord, NoEntry, CacheEntry
  <2> QED BY <1>8, <2>1 DEF Restart, NoSessions, ClockOK, PairsOK, LeasesOK, SessionsOK, TasksOK,
        PhonesOK, HistoryOK, phoneVars, pairVars, histVars
<1>9. CASE Tick
  BY <1>9 DEF Tick, ClockOK, PairsOK, LeasesOK, SessionsOK, BookOK, TasksOK, PhonesOK,
     HistoryOK, relayVars, bookVars, phoneVars, pairVars, histVars
<1> QED BY <1>1, <1>2, <1>3, <1>4, <1>5, <1>6, <1>7, <1>8, <1>9

\* What the relay does with an attempt keeps the types.
LEMMA AdmissionType ==
    ASSUME TypeOK, NEW m \in net,
           \/ Reauthorize(m) \/ DropDuplicate(m) \/ AdmitBeat(m)
           \/ AdmitWrite(m) \/ JoinWrite(m) \/ AnswerWrite(m) \/ AdmitRead(m)
    PROVE  TypeOK'
<1>0. BookOK /\ TasksOK /\ HistoryOK
  BY DEF TypeOK
<1>1. CASE Reauthorize(m) \/ DropDuplicate(m)
  <2>1. SessionsOK'
    BY <1>1, RestrictSessions DEF TypeOK, Reauthorize, DropDuplicate, PruneSessions
  <2> QED BY <1>1, <2>1 DEF Reauthorize, DropDuplicate, TypeOK, ClockOK, PairsOK, LeasesOK, BookOK,
        TasksOK, PhonesOK, HistoryOK, bookVars, phoneVars, clockVars, pairVars, histVars
<1>2. CASE AdmitBeat(m)
  BY <1>0, <1>2, AdmitType DEF AdmitBeat, TypeOK, BookOK, TasksOK, HistoryOK, bookVars
<1>3. CASE AdmitWrite(m)
  <2> DEFINE recs == PruneWrites(writes[m.device], Clock)
  <2>1. Admit(m) /\ m.action \in Writes BY <1>3 DEF AdmitWrite
  <2>2. m \in Attempt /\ Clock \in Nat /\ leases[m.peer] \in Nat /\ epoch[m.device] \in Nat
    BY <2>1, AdmitType
  <2>3. recs \in [Writes -> WriteRecord]
    BY <1>0, <2>2, PruneWritesType DEF BookOK, Attempt
  <2>4. RunningRecord(m.opBoot, m.opT0, nextToken) \in WriteRecord
    BY <1>0, <2>2 DEF RunningRecord, WriteRecord, Attempt, BookOK
  <2>5. BookOK'
    <3>1. writes' = [writes EXCEPT ![m.device] =
                      [recs EXCEPT ![m.action] = RunningRecord(m.opBoot, m.opT0, nextToken)]]
          /\ nextToken' = nextToken + 1 /\ cache' = cache
      BY <1>3 DEF AdmitWrite
    <3> HIDE DEF recs
    <3> QED BY <1>0, <2>1, <2>2, <2>3, <2>4, <3>1 DEF BookOK, Attempt
  <2>6. NewTask(m, nextToken) \in Task
    BY <1>0, <2>2 DEF NewTask, Task, Attempt, BookOK
  <2>7. TasksOK'
    BY <1>0, <1>3, <2>6 DEF AdmitWrite, TasksOK
  <2>8. reserved' \in SUBSET Reservation
    BY <1>0, <1>3, <2>2, <2>1 DEF AdmitWrite, HistoryOK, Reservation, TypeOK, ClockOK, Attempt, BookOK
  <2>9. told' = told /\ ran' = ran
    BY <1>3 DEF AdmitWrite
  <2> QED BY <1>0, <2>1, <2>5, <2>7, <2>8, <2>9, AdmitType DEF TypeOK, HistoryOK
<1>4. CASE JoinWrite(m)
  <2> DEFINE recs == PruneWrites(writes[m.device], Clock)
             rec  == recs[m.action]
  <2>1. Admit(m) /\ m.action \in Writes BY <1>4 DEF JoinWrite
  <2>2. m \in Attempt /\ Clock \in Nat /\ leases[m.peer] \in Nat /\ epoch[m.device] \in Nat
    BY <2>1, AdmitType
  <2>3. recs \in [Writes -> WriteRecord] /\ rec \in WriteRecord
    BY <1>0, <2>1, <2>2, PruneWritesType DEF BookOK, Attempt
  <2>4. BookOK'
    <3>1. writes' = [writes EXCEPT ![m.device] =
                       [recs EXCEPT ![m.action] = [rec EXCEPT !.waiters = rec.waiters + 1]]]
          /\ nextToken' = nextToken /\ cache' = cache
      BY <1>4 DEF JoinWrite
    <3>2. [rec EXCEPT !.waiters = rec.waiters + 1] \in WriteRecord
      BY <2>3 DEF WriteRecord
    <3> HIDE DEF recs, rec
    <3> QED BY <1>0, <2>3, <3>1, <3>2 DEF BookOK
  <2>5. NewWaiter(m, "ledger", rec.token, rec.waiters + 1) \in Waiter
    BY <2>2, <2>3 DEF NewWaiter, Waiter, Attempt, WriteRecord
  <2>6. TasksOK'
    BY <1>0, <1>4, <2>5 DEF JoinWrite, TasksOK
  <2>7. told' = told /\ ran' = ran /\ reserved' = reserved
    BY <1>4 DEF JoinWrite
  <2> QED BY <1>0, <2>1, <2>4, <2>6, <2>7, AdmitType DEF TypeOK, HistoryOK
<1>5. CASE AnswerWrite(m)
  <2> DEFINE recs == IF OperationIsKnown(m) /\ OperationClockIsSane(m)
                     THEN PruneWrites(writes[m.device], Clock) ELSE writes[m.device]
  <2>1. Admit(m) /\ m.action \in Writes BY <1>5 DEF AnswerWrite
  <2>2. m \in Attempt BY <2>1, AdmitType
  <2>3. recs \in [Writes -> WriteRecord]
    BY <1>0, <2>2, PruneWritesType DEF BookOK, Attempt
  <2>4. BookOK'
    <3>1. writes' = [writes EXCEPT ![m.device] = recs] /\ nextToken' = nextToken /\ cache' = cache
      BY <1>5 DEF AnswerWrite
    <3> HIDE DEF recs
    <3> QED BY <1>0, <2>3, <3>1 DEF BookOK
  <2>5. AnswerOf(m, recs) \in {"result", "already_completed", "outcome_unknown", "refused"}
    BY DEF AnswerOf
  <2>6. told' \in SUBSET Told
    <3>1. told' = Tell(m.device, m.peer, leases[m.peer], m.action, AnswerOf(m, recs))
      BY <1>5 DEF AnswerWrite
    <3> HIDE DEF recs
    <3> QED BY <1>0, <2>2, <2>5, <3>1, TellType DEF HistoryOK, Attempt
  <2>7. tasks' = tasks /\ waiters' = waiters /\ ran' = ran /\ reserved' = reserved
    BY <1>5 DEF AnswerWrite
  <2> QED BY <1>0, <2>1, <2>4, <2>6, <2>7, AdmitType DEF TypeOK, HistoryOK, TasksOK
<1>6. CASE AdmitRead(m)
  <2> DEFINE k == <<m.device, m.action>>
             c == PruneCache(cache, now)
             ws == Notify(waiters, Abandoned(cache, now))
  <2>1. Admit(m) /\ m.action \in Reads BY <1>6 DEF AdmitRead
  <2>2. m \in Attempt /\ leases[m.peer] \in Nat /\ epoch[m.device] \in Nat /\ now \in Nat
    BY <2>1, AdmitType DEF TypeOK, ClockOK
  <2>3. k \in Keys BY <2>2 DEF Keys, Attempt
  <2>4. c \in [Keys -> CacheEntry] /\ c[k] \in CacheEntry
    BY <1>0, <2>3, PruneCacheType DEF BookOK
  <2>5. ws \in SUBSET Waiter BY <1>0, NotifyType DEF TasksOK
  <2>6. writes' = writes /\ reserved' = reserved /\ ran' = ran
    BY <1>6 DEF AdmitRead
  <2>7. CASE /\ cache' = [c EXCEPT ![k] = [state |-> "inflight", token |-> nextToken,
                                           waiters |-> 0, seen |-> now]]
             /\ tasks' = tasks \cup {NewTask(m, nextToken)}
             /\ nextToken' = nextToken + 1
             /\ waiters' = ws
             /\ UNCHANGED told
    <3>1. NewTask(m, nextToken) \in Task
      BY <1>0, <2>2 DEF NewTask, Task, Attempt, BookOK
    <3> DEFINE entry == [state |-> "inflight", token |-> nextToken, waiters |-> 0, seen |-> now]
    <3>2. entry \in CacheEntry /\ cache' = [c EXCEPT ![k] = entry] /\ nextToken' = nextToken + 1
      BY <1>0, <2>2, <2>7 DEF CacheEntry, BookOK
    <3> HIDE DEF c, k, ws, entry
    <3>3. cache' \in [Keys -> CacheEntry] BY <2>4, <3>2
    <3>4. BookOK' BY <1>0, <2>6, <3>2, <3>3 DEF BookOK
    <3>5. TasksOK' BY <1>0, <2>5, <2>7, <3>1 DEF TasksOK
    <3> QED BY <1>0, <2>1, <2>6, <2>7, <3>4, <3>5, AdmitType DEF TypeOK, HistoryOK
  <2>8. CASE /\ cache' = [c EXCEPT ![k] = [c[k] EXCEPT !.waiters = c[k].waiters + 1]]
             /\ waiters' = ws \cup {NewWaiter(m, "cache", c[k].token, c[k].waiters + 1)}
             /\ UNCHANGED <<nextToken, tasks, told>>
    <3>1. NewWaiter(m, "cache", c[k].token, c[k].waiters + 1) \in Waiter
      BY <2>2, <2>4 DEF NewWaiter, Waiter, Attempt, CacheEntry
    <3>2. [c[k] EXCEPT !.waiters = c[k].waiters + 1] \in CacheEntry
      BY <2>4 DEF CacheEntry
    <3> HIDE DEF c, k, ws
    <3>3. BookOK' BY <1>0, <2>4, <2>6, <2>8, <3>2 DEF BookOK
    <3>4. TasksOK' BY <1>0, <2>5, <2>8, <3>1 DEF TasksOK
    <3> QED BY <1>0, <2>1, <2>6, <2>8, <3>3, <3>4, AdmitType DEF TypeOK, HistoryOK
  <2>9. CASE /\ cache' = c
             /\ waiters' = ws
             /\ told' = Tell(m.device, m.peer, leases[m.peer], m.action, "result")
             /\ UNCHANGED <<nextToken, tasks>>
    <3>1. told' \in SUBSET Told
      BY <1>0, <2>2, <2>9, TellType DEF HistoryOK, Attempt
    <3> HIDE DEF c, k, ws
    <3>2. BookOK' /\ TasksOK'
      BY <1>0, <2>4, <2>5, <2>6, <2>9 DEF BookOK, TasksOK
    <3> QED BY <1>0, <2>1, <2>6, <3>1, <3>2, AdmitType DEF TypeOK, HistoryOK
  <2> QED BY <1>6, <2>7, <2>8, <2>9 DEF AdmitRead
<1> QED BY <1>1, <1>2, <1>3, <1>4, <1>5, <1>6

\* Running and recording an action, and waiting for one, keep the types.
LEMMA ExecutionType ==
    ASSUME TypeOK,
           \/ \E t \in tasks : RunAction(t) \/ CompleteWrite(t) \/ CompleteRead(t)
           \/ \E w \in waiters : WaiterSubscribe(w) \/ WaiterGiveUp(w) \/ WaiterWake(w)
    PROVE  TypeOK'
<1>0. BookOK /\ TasksOK /\ HistoryOK /\ ClockOK /\ now \in Nat /\ Clock \in Nat
  BY DEF TypeOK, ClockOK, Clock
<1>1. ASSUME NEW t \in tasks, RunAction(t) PROVE TypeOK'
  <2>1. t \in Task BY <1>0 DEF TasksOK
  <2>2. [t EXCEPT !.phase = "ran"] \in Task BY <2>1 DEF Task
  <2>3. TasksOK' BY <1>0, <1>1, <2>2 DEF RunAction, TasksOK
  <2>4. ran' \in SUBSET Run BY <1>0, <1>1, <2>1 DEF RunAction, HistoryOK, Run, Task
  <2> QED BY <1>1, <2>3, <2>4 DEF RunAction, TypeOK, ClockOK, PairsOK, LeasesOK, SessionsOK, BookOK,
        PhonesOK, HistoryOK, relayVars, phoneVars, clockVars, pairVars
<1>2. ASSUME NEW t \in tasks, CompleteWrite(t) PROVE TypeOK'
  <2> DEFINE k == <<t.device, t.action>>
  <2>1. t \in Task /\ t.action \in Writes BY <1>0, <1>2 DEF TasksOK, CompleteWrite
  <2>2. k \in Keys BY <2>1 DEF Keys, Task
  <2>3. writes' \in [Devices -> [Writes -> WriteRecord]]
    <3>1. writes[t.device][t.action] \in WriteRecord /\ t.device \in Devices
      BY <1>0, <2>1 DEF BookOK, Task
    <3>2. [writes[t.device][t.action] EXCEPT !.state = "done", !.doneAt = Clock] \in WriteRecord
      BY <1>0, <3>1 DEF WriteRecord
    <3> DEFINE done == [writes[t.device][t.action] EXCEPT !.state = "done", !.doneAt = Clock]
    <3>3. writes' = [writes EXCEPT ![t.device][t.action] = done] \/ writes' = writes
      BY <1>2 DEF CompleteWrite
    <3> HIDE DEF done
    <3> QED BY <1>0, <2>1, <3>1, <3>2, <3>3 DEF BookOK, done
  <2>4. cache' \in [Keys -> CacheEntry]
    <3>1. StoreResult(cache, k, now) \in [Keys -> CacheEntry]
      BY <1>0, <2>2, StoreResultType DEF BookOK
    <3> QED BY <1>0, <1>2, <3>1, TrimsType DEF CompleteWrite, BookOK
  <2>5. waiters' \in SUBSET Waiter BY <1>0, <1>2, NotifyType DEF CompleteWrite, TasksOK
  <2>6. told' \in SUBSET Told
    BY <1>0, <1>2, <2>1, TellType DEF CompleteWrite, HistoryOK, Task
  <2>7. tasks' \in SUBSET Task /\ nextToken' = nextToken
    BY <1>0, <1>2 DEF CompleteWrite, TasksOK
  <2> QED BY <1>0, <1>2, <2>3, <2>4, <2>5, <2>6, <2>7 DEF CompleteWrite, TypeOK, ClockOK, PairsOK,
        LeasesOK, SessionsOK, BookOK, TasksOK, PhonesOK, HistoryOK, relayVars, phoneVars, clockVars,
        pairVars, histVars
<1>3. ASSUME NEW t \in tasks, CompleteRead(t) PROVE TypeOK'
  <2> DEFINE k == <<t.device, t.action>>
  <2>1. t \in Task BY <1>0 DEF TasksOK
  <2>2. k \in Keys BY <2>1 DEF Keys, Task
  <2>3. cache' \in [Keys -> CacheEntry]
    <3>1. StoreResult(cache, k, now) \in [Keys -> CacheEntry]
      BY <1>0, <2>2, StoreResultType DEF BookOK
    <3> QED BY <1>3, <3>1, TrimsType DEF CompleteRead
  <2>4. waiters' \in SUBSET Waiter BY <1>0, <1>3, NotifyType DEF CompleteRead, TasksOK
  <2>5. told' \in SUBSET Told
    BY <1>0, <1>3, <2>1, TellType DEF CompleteRead, HistoryOK, Task
  <2>6. tasks' \in SUBSET Task /\ nextToken' = nextToken /\ writes' = writes
    BY <1>0, <1>3 DEF CompleteRead, TasksOK
  <2> QED BY <1>0, <1>3, <2>3, <2>4, <2>5, <2>6 DEF CompleteRead, TypeOK, ClockOK, PairsOK,
        LeasesOK, SessionsOK, BookOK, TasksOK, PhonesOK, HistoryOK, relayVars, phoneVars, clockVars,
        pairVars, histVars
<1>4. ASSUME NEW w \in waiters, WaiterSubscribe(w) \/ WaiterGiveUp(w) PROVE TypeOK'
  <2>1. waiters' \in SUBSET Waiter
    BY <1>0, <1>4 DEF WaiterSubscribe, WaiterGiveUp, TasksOK, Waiter
  <2> QED BY <1>4, <2>1 DEF WaiterSubscribe, WaiterGiveUp, TypeOK, ClockOK, PairsOK,
        LeasesOK, SessionsOK, BookOK, TasksOK, PhonesOK, HistoryOK, relayVars, phoneVars, clockVars,
        pairVars, histVars
<1>5. ASSUME NEW w \in waiters, WaiterWake(w) PROVE TypeOK'
  <2>1. w \in Waiter BY <1>0 DEF TasksOK
  <2>2. WaitOutcome(w) \in {"result", "already_completed", "superseded"}
    BY DEF WaitOutcome
  <2>3. told' \in SUBSET Told
    BY <1>0, <1>5, <2>1, <2>2, TellType DEF WaiterWake, HistoryOK, Waiter
  <2>4. waiters' \in SUBSET Waiter
    BY <1>0, <1>5 DEF WaiterWake, TasksOK
  <2> QED BY <1>5, <2>3, <2>4 DEF WaiterWake, TypeOK, ClockOK, PairsOK,
        LeasesOK, SessionsOK, BookOK, TasksOK, PhonesOK, HistoryOK, relayVars, phoneVars, clockVars,
        pairVars, histVars
<1> QED BY <1>1, <1>2, <1>3, <1>4, <1>5

\* The phone's steps keep the types.
LEMMA PhoneType ==
    ASSUME TypeOK, PhoneNext PROVE TypeOK'
<1>0. PhonesOK BY DEF TypeOK
<1>1. ASSUME NEW d \in Devices, NEW a \in Actions, PhoneDispatch(d, a) \/ PhoneResend(d, a)
      PROVE TypeOK'
  <2>1. phone' \in [Devices -> Phone] /\ attempts' \in Nat
    <3>1. phone' = [phone EXCEPT ![d] = [phone[d] EXCEPT !.seq = phone[d].seq + 1]]
          /\ attempts' = attempts + 1
      BY <1>1 DEF PhoneDispatch, PhoneResend, CountAttempt
    <3>2. [phone[d] EXCEPT !.seq = phone[d].seq + 1] \in Phone
      BY <1>0 DEF PhonesOK, Phone
    <3> QED BY <1>0, <3>1, <3>2 DEF PhonesOK
  <2>2. signing' \in SUBSET Attempt /\ net' \in SUBSET Attempt
    BY <1>0, <1>1, AttemptsType DEF PhoneDispatch, PhoneResend, PhonesOK
  <2>3. ops' \in [Devices -> [Actions -> PendingOp]]
    <3>1. CASE PhoneDispatch(d, a)
      <4> DEFINE o == [ops[d][a] EXCEPT !.status = IF a \in Beats THEN "settled" ELSE "pending"]
      <4>1. o \in PendingOp BY <1>0 DEF PhonesOK, PendingOp
      <4>2. ops' = [ops EXCEPT ![d][a] = o] BY <3>1 DEF PhoneDispatch
      <4> HIDE DEF o
      <4> QED BY <1>0, <4>1, <4>2 DEF PhonesOK
    <3>2. CASE PhoneResend(d, a) BY <1>0, <3>2 DEF PhoneResend, PhonesOK
    <3> QED BY <1>1, <3>1, <3>2
  <2> QED BY <1>1, <2>1, <2>2, <2>3 DEF PhoneDispatch, PhoneResend, TypeOK, ClockOK, PairsOK, LeasesOK,
        SessionsOK, BookOK, TasksOK, PhonesOK, HistoryOK, relaySide, relayVars, bookVars, clockVars,
        pairVars, histVars
<1>2. ASSUME NEW d \in Devices, NEW a \in Actions, PhoneSettle(d, a) PROVE TypeOK'
  <2> DEFINE o == [ops[d][a] EXCEPT !.status = "settled"]
  <2>1. o \in PendingOp BY <1>0 DEF PhonesOK, PendingOp
  <2>2. ops' = [ops EXCEPT ![d][a] = o] BY <1>2 DEF PhoneSettle
  <2> HIDE DEF o
  <2>3. ops' \in [Devices -> [Actions -> PendingOp]] BY <1>0, <2>1, <2>2 DEF PhonesOK
  <2>4. PhonesOK' BY <1>0, <1>2, <2>3 DEF PhoneSettle, PhonesOK
  <2> QED BY <1>2, <2>4 DEF PhoneSettle, TypeOK, ClockOK, PairsOK, LeasesOK, SessionsOK, BookOK,
        TasksOK, HistoryOK, relaySide, relayVars, bookVars, clockVars, pairVars, histVars
<1>3. ASSUME NEW m \in signing, PhoneSend(m) PROVE TypeOK'
  <2> DEFINE o == IF ops[m.device][m.action].sent THEN ops[m.device][m.action]
                  ELSE [ops[m.device][m.action] EXCEPT !.sent = TRUE, !.boot = m.opBoot, !.t0 = m.opT0]
  <2>1. m \in Attempt BY <1>0 DEF PhonesOK
  <2>2. ops[m.device][m.action] \in PendingOp /\ m.opBoot \in Nat /\ m.opT0 \in Nat
    BY <1>0, <2>1 DEF PhonesOK, Attempt
  <2>3. o \in PendingOp
    <3>1. [ops[m.device][m.action] EXCEPT !.sent = TRUE, !.boot = m.opBoot, !.t0 = m.opT0]
            \in PendingOp
      BY <2>2 DEF PendingOp
    <3> QED BY <2>2, <3>1
  <2>4. ops' = [ops EXCEPT ![m.device][m.action] = o] BY <1>3 DEF PhoneSend
  <2> HIDE DEF o
  <2>5. ops' \in [Devices -> [Actions -> PendingOp]] BY <1>0, <2>1, <2>3, <2>4 DEF PhonesOK, Attempt
  <2>6. PhonesOK' BY <1>0, <1>3, <2>1, <2>5 DEF PhoneSend, PhonesOK
  <2> QED BY <1>3, <2>6 DEF PhoneSend, TypeOK, ClockOK, PairsOK, LeasesOK, SessionsOK, BookOK,
        TasksOK, HistoryOK, relaySide, relayVars, bookVars, clockVars, pairVars, histVars
<1>4. ASSUME NEW d \in Devices, NEW p \in Peers, PhoneReconnect(d, p) PROVE TypeOK'
  <2>1. [peer |-> p, claim |-> NoClaim, seq |-> 0] \in Phone BY DEF Phone, NoClaim
  <2>2. phone' \in [Devices -> Phone]
    BY <1>0, <1>4, <2>1 DEF PhoneReconnect, PhonesOK
  <2>3. \A a \in Actions : [ops[d][a] EXCEPT !.status = "settled"] \in PendingOp
    BY <1>0 DEF PhonesOK, PendingOp
  <2>4. ops' \in [Devices -> [Actions -> PendingOp]]
    BY <1>0, <1>4, <2>3 DEF PhoneReconnect, PhonesOK
  <2>5. PhonesOK' BY <1>0, <1>4, <2>2, <2>4 DEF PhoneReconnect, PhonesOK
  <2> QED BY <1>4, <2>5 DEF PhoneReconnect, TypeOK, ClockOK, PairsOK, LeasesOK, SessionsOK, BookOK,
        TasksOK, HistoryOK, relaySide, relayVars, bookVars, clockVars, pairVars, histVars
<1> QED BY <1>1, <1>2, <1>3, <1>4 DEF PhoneNext

\* Every state the relay and its phones reach is well typed: clocks never run
\* backwards past the boot, and nothing of the wrong class enters the book.
THEOREM TypeCorrect == Spec => []TypeOK
<1>1. Init => TypeOK
  <2> SUFFICES ASSUME Init PROVE TypeOK OBVIOUS
  <2>1. BookOK BY DEF Init, BookOK, NoRecord, WriteRecord, NoEntry, CacheEntry
  <2>2. PhonesOK BY DEF Init, PhonesOK, Phone, NoClaim, IdleOp, PendingOp
  <2> QED BY <2>1, <2>2 DEF Init, NoSessions, TypeOK, ClockOK, PairsOK, LeasesOK, SessionsOK, TasksOK,
        HistoryOK
<1>2. TypeOK /\ [Next]_vars => TypeOK'
  <2> SUFFICES ASSUME TypeOK, [Next]_vars PROVE TypeOK' OBVIOUS
  <2>1. CASE Next
    BY <2>1, PresenceType, AdmissionType, ExecutionType, PhoneType DEF Next, RelayNext
  <2>2. CASE UNCHANGED vars
    BY <2>2 DEF vars, relayVars, bookVars, phoneVars, clockVars, pairVars, histVars, TypeOK, ClockOK,
       PairsOK, LeasesOK, SessionsOK, BookOK, TasksOK, PhonesOK, HistoryOK
  <2> QED BY <2>1, <2>2
<1> QED BY <1>1, <1>2, PTL DEF Spec

(* ---- A write takes effect at most once ----------------------------------- *)

\* A step that touches neither the phones, the clock, the ledger nor its history, and
\* starts no write.
QuietStep ==
    /\ UNCHANGED <<clockVars, phoneVars, epoch, writes, reserved, ran>>
    /\ \A t \in tasks' : t.action \in Writes => t \in tasks

\* Every step is quiet or one of the few that matter to the ledger.
LEMMA StepKinds ==
    ASSUME TypeOK, [Next]_vars
    PROVE  \/ QuietStep
           \/ \E d \in Devices : OpenRequestSession(d) \/ Revoke(d)
           \/ Restart \/ Tick
           \/ \E m \in net : AdmitWrite(m) \/ JoinWrite(m) \/ AnswerWrite(m)
           \/ \E t \in tasks : RunAction(t) \/ CompleteWrite(t)
           \/ PhoneNext
<1>1. CASE UNCHANGED vars
  BY <1>1 DEF QuietStep, vars, bookVars, pairVars, histVars
<1>2. ASSUME NEW p \in Peers, SurfaceJoined(p) \/ SurfaceLeft(p) PROVE QuietStep
  BY <1>2 DEF QuietStep, SurfaceJoined, SurfaceLeft, bookVars, pairVars, histVars
<1>3. CASE BrokerLost
  BY <1>3 DEF QuietStep, BrokerLost, bookVars, pairVars, histVars
<1>4. ASSUME NEW online \in SUBSET Peers, Welcome(online) PROVE QuietStep
  BY <1>4 DEF QuietStep, Welcome, bookVars, pairVars, histVars
<1>5. ASSUME NEW d \in Devices, PairAgain(d) PROVE QuietStep
  BY <1>5 DEF QuietStep, PairAgain, bookVars, histVars
<1>6. ASSUME NEW m \in net, Reauthorize(m) \/ DropDuplicate(m) \/ AdmitBeat(m) PROVE QuietStep
  BY <1>6 DEF QuietStep, Reauthorize, DropDuplicate, AdmitBeat, Admit, bookVars, pairVars, histVars
<1>7. ASSUME NEW m \in net, AdmitRead(m) PROVE QuietStep
  <2>1. UNCHANGED <<clockVars, phoneVars, epoch, writes, reserved, ran>>
    BY <1>7 DEF AdmitRead, Admit, pairVars
  <2>2. NewTask(m, nextToken).action \notin Writes
    BY <1>7, ClassAssumption DEF NewTask, AdmitRead
  <2>3. tasks' \subseteq tasks \cup {NewTask(m, nextToken)}
    BY <1>7 DEF AdmitRead
  <2> QED BY <2>1, <2>2, <2>3 DEF QuietStep
<1>8. ASSUME NEW t \in tasks, CompleteRead(t) PROVE QuietStep
  BY <1>8 DEF QuietStep, CompleteRead, pairVars, histVars
<1>9. ASSUME NEW w \in waiters, WaiterSubscribe(w) \/ WaiterGiveUp(w) \/ WaiterWake(w)
      PROVE QuietStep
  BY <1>9 DEF QuietStep, WaiterSubscribe, WaiterGiveUp, WaiterWake, pairVars, histVars
<1> QED
  BY <1>1, <1>2, <1>3, <1>4, <1>5, <1>6, <1>7, <1>8, <1>9 DEF Next, RelayNext

\* An admitted attempt leaves the phones, the clock and the pairing alone.
LEMMA AdmittedFrame ==
    ASSUME NEW m, AdmitWrite(m) \/ JoinWrite(m) \/ AnswerWrite(m)
    PROVE  UNCHANGED <<now, boot, bootAt, phone, ops, signing, net, epoch>>
BY DEF AdmitWrite, JoinWrite, AnswerWrite, Admit, phoneVars, clockVars, pairVars

\* So does running a write and recording it.
LEMMA ExecutedFrame ==
    ASSUME NEW t, RunAction(t) \/ CompleteWrite(t)
    PROVE  UNCHANGED <<now, boot, bootAt, phone, ops, signing, net, epoch, reserved>>
BY DEF RunAction, CompleteWrite, phoneVars, clockVars, pairVars, histVars

\* The operation keeps the identity its first attempt was sent under.
SameIdentity(o, q) == o.sent = q.sent /\ o.boot = q.boot /\ o.t0 = q.t0

\* Dispatching, resending and settling change no operation's identity.
LEMMA DispatchKeepsIdentities ==
    ASSUME TypeOK, NEW d \in Devices, NEW a \in Actions,
           PhoneDispatch(d, a) \/ PhoneResend(d, a) \/ PhoneSettle(d, a)
    PROVE  \A e \in Devices, b \in Actions : SameIdentity(ops'[e][b], ops[e][b])
<1>1. ops \in [Devices -> [Actions -> PendingOp]] /\ ops[d][a] \in PendingOp
  BY DEF TypeOK, PhonesOK
<1>2. PICK st : ops' = [ops EXCEPT ![d][a] = [ops[d][a] EXCEPT !.status = st]] \/ ops' = ops
  BY DEF PhoneDispatch, PhoneResend, PhoneSettle
<1> DEFINE o == [ops[d][a] EXCEPT !.status = st]
<1>3. SameIdentity(o, ops[d][a])
  BY <1>1 DEF PendingOp, SameIdentity
<1>4. ops' = [ops EXCEPT ![d][a] = o] \/ ops' = ops
  BY <1>2
<1> HIDE DEF o
<1> QED BY <1>1, <1>3, <1>4 DEF SameIdentity

\* Nor does a reconnection, which only rejects what is pending.
LEMMA ReconnectKeepsIdentities ==
    ASSUME TypeOK, NEW d \in Devices, NEW p \in Peers, PhoneReconnect(d, p)
    PROVE  \A e \in Devices, b \in Actions : SameIdentity(ops'[e][b], ops[e][b])
<1>1. ops \in [Devices -> [Actions -> PendingOp]]
  BY DEF TypeOK, PhonesOK
<1>2. \A b \in Actions : SameIdentity([ops[d][b] EXCEPT !.status = "settled"], ops[d][b])
  BY <1>1 DEF PendingOp, SameIdentity
<1> QED BY <1>1, <1>2 DEF PhoneReconnect, SameIdentity

\* What a phone newly builds is dated by its clock, or by its first attempt.
LEMMA AttemptsAreDated ==
    ASSUME TypeOK, IdentitiesAreDated, NEW d \in Devices, NEW a \in Actions,
           NEW m \in Attempts(d, a)
    PROVE  /\ m.device = d /\ m.action = a
           /\ m.opBoot <= boot /\ (m.opBoot = boot => m.opT0 <= Clock + Drift)
           /\ ops[d][a].sent => m.opBoot = ops[d][a].boot /\ m.opT0 = ops[d][a].t0
<1>1. phone[d] \in Phone /\ ops[d][a] \in PendingOp /\ Clock \in Nat
  BY DEF TypeOK, PhonesOK, ClockOK, Clock
<1>2. PICK t \in PhoneClock(d) :
        m = [device |-> d, peer |-> phone[d].peer, sid |-> phone[d].claim.sid,
             boot |-> phone[d].claim.boot, seq |-> phone[d].seq + 1, sent |-> t, action |-> a,
             opBoot |-> IF ops[d][a].sent THEN ops[d][a].boot ELSE phone[d].claim.boot,
             opT0 |-> IF ops[d][a].sent THEN ops[d][a].t0 ELSE t]
  BY DEF Attempts
<1>3. phone[d].claim.boot = boot => t <= Clock + Drift
  BY <1>1 DEF PhoneClock
<1> QED BY <1>1, <1>2, <1>3 DEF IdentitiesAreDated

\* Identities stay dated: time and boots only grow, and new ones are dated now.
LEMMA DatedStep ==
    ASSUME TypeOK, TypeOK', IdentitiesAreDated, [Next]_vars
    PROVE  IdentitiesAreDated'
<1>0. boot \in Nat /\ Clock \in Nat /\ PhonesOK
  BY DEF TypeOK, ClockOK, Clock
<1>1. CASE QuietStep
  BY <1>1 DEF QuietStep, IdentitiesAreDated, Clock, clockVars, phoneVars
<1>2. ASSUME NEW d \in Devices, OpenRequestSession(d) PROVE IdentitiesAreDated'
  <2>1. UNCHANGED <<now, boot, bootAt, ops, signing, net>>
    BY <1>2 DEF OpenRequestSession, clockVars
  <2>2. \A e \in Devices : \/ phone'[e].claim = phone[e].claim
                           \/ phone'[e].claim = [sid |-> nextSid, boot |-> boot, relayMs |-> Clock]
    <3> DEFINE claim == [sid |-> nextSid, boot |-> boot, relayMs |-> Clock]
               held  == [phone[d] EXCEPT !.claim = claim, !.seq = 0]
    <3>1. phone' = [phone EXCEPT ![d] = held] \/ phone' = phone
      BY <1>2 DEF OpenRequestSession
    <3>2. phone \in [Devices -> Phone] /\ phone[d] \in Phone
      BY <1>0 DEF PhonesOK
    <3> HIDE DEF claim
    <3>3. held.claim = claim
      BY <3>2 DEF Phone
    <3> HIDE DEF held
    <3> QED BY <3>1, <3>2, <3>3 DEF claim
  <2> QED BY <1>0, <2>1, <2>2 DEF IdentitiesAreDated, Clock
<1>3. ASSUME NEW d \in Devices, Revoke(d) PROVE IdentitiesAreDated'
  BY <1>3 DEF Revoke, IdentitiesAreDated, Clock, phoneVars, clockVars
<1>4. CASE Restart
  <2>1. boot' = boot + 1 /\ UNCHANGED <<phone, ops, signing, net>>
    BY <1>4 DEF Restart, phoneVars
  <2>2. /\ \A d \in Devices : phone[d].claim.boot \in Nat
        /\ \A m \in signing \cup net : m.opBoot \in Nat
        /\ \A d \in Devices, a \in Actions : ops[d][a].boot \in Nat
    BY <1>0 DEF PhonesOK, Phone, Attempt, PendingOp
  <2> QED BY <1>0, <2>1, <2>2 DEF IdentitiesAreDated
<1>5. CASE Tick
  <2>1. boot' = boot /\ Clock' = Clock + 1 /\ UNCHANGED <<phone, ops, signing, net>>
    BY <1>5 DEF Tick, phoneVars, Clock, TypeOK, ClockOK
  <2>2. /\ \A d \in Devices : phone[d].claim.relayMs \in Nat
        /\ \A m \in signing \cup net : m.opT0 \in Nat
        /\ \A d \in Devices, a \in Actions : ops[d][a].t0 \in Nat
    BY <1>0 DEF PhonesOK, Phone, Attempt, PendingOp
  <2> QED BY <1>0, <2>1, <2>2 DEF IdentitiesAreDated
<1>6. ASSUME NEW m \in net, AdmitWrite(m) \/ JoinWrite(m) \/ AnswerWrite(m)
      PROVE IdentitiesAreDated'
  BY <1>6, AdmittedFrame DEF IdentitiesAreDated, Clock
<1>7. ASSUME NEW t \in tasks, RunAction(t) \/ CompleteWrite(t) PROVE IdentitiesAreDated'
  BY <1>7, ExecutedFrame DEF IdentitiesAreDated, Clock
<1>8. ASSUME NEW d \in Devices, NEW a \in Actions, PhoneDispatch(d, a) \/ PhoneResend(d, a)
      PROVE IdentitiesAreDated'
  <2>1. boot' = boot /\ Clock' = Clock
    BY <1>8 DEF PhoneDispatch, PhoneResend, relaySide, clockVars, Clock
  <2>2. \A e \in Devices : phone'[e].claim = phone[e].claim
    <3> DEFINE held == [phone[d] EXCEPT !.seq = phone[d].seq + 1]
    <3>1. phone' = [phone EXCEPT ![d] = held]
      BY <1>8 DEF PhoneDispatch, PhoneResend, CountAttempt
    <3>2. phone \in [Devices -> Phone] /\ phone[d] \in Phone
      BY <1>0 DEF PhonesOK
    <3>3. held.claim = phone[d].claim
      BY <3>2 DEF Phone
    <3> HIDE DEF held
    <3> QED BY <3>1, <3>2, <3>3
  <2>3. \A e \in Devices, b \in Actions : SameIdentity(ops'[e][b], ops[e][b])
    BY <1>8, DispatchKeepsIdentities
  <2>4. PICK m \in Attempts(d, a) : signing' \cup net' = signing \cup net \cup {m}
    BY <1>8 DEF PhoneDispatch, PhoneResend
  <2> QED BY <2>1, <2>2, <2>3, <2>4, AttemptsAreDated DEF IdentitiesAreDated, SameIdentity
<1>9. ASSUME NEW d \in Devices, NEW a \in Actions, PhoneSettle(d, a) PROVE IdentitiesAreDated'
  <2>1. UNCHANGED <<now, boot, bootAt, phone, signing, net>>
    BY <1>9 DEF PhoneSettle, relaySide, clockVars
  <2>2. \A e \in Devices, b \in Actions : SameIdentity(ops'[e][b], ops[e][b])
    BY <1>9, DispatchKeepsIdentities
  <2> QED BY <2>1, <2>2 DEF IdentitiesAreDated, Clock, SameIdentity
<1>10. ASSUME NEW m \in signing, PhoneSend(m) PROVE IdentitiesAreDated'
  <2>1. UNCHANGED <<now, boot, bootAt, phone>> /\ signing' \cup net' = signing \cup net
    BY <1>10 DEF PhoneSend, relaySide, clockVars
  <2>2. \A e \in Devices, b \in Actions :
          \/ ops'[e][b].boot = ops[e][b].boot /\ ops'[e][b].t0 = ops[e][b].t0
          \/ ops'[e][b].boot = m.opBoot /\ ops'[e][b].t0 = m.opT0
    BY <1>0, <1>10 DEF PhoneSend, PhonesOK, PendingOp, Attempt
  <2> QED BY <2>1, <2>2 DEF IdentitiesAreDated, Clock
<1>11. ASSUME NEW d \in Devices, NEW p \in Peers, PhoneReconnect(d, p) PROVE IdentitiesAreDated'
  <2>1. UNCHANGED <<now, boot, bootAt, signing, net>>
    BY <1>11 DEF PhoneReconnect, relaySide, clockVars
  <2>2. \A e \in Devices : phone'[e].claim = phone[e].claim \/ phone'[e].claim = NoClaim
    BY <1>0, <1>11 DEF PhoneReconnect, PhonesOK, Phone
  <2>3. \A e \in Devices, b \in Actions : SameIdentity(ops'[e][b], ops[e][b])
    BY <1>11, ReconnectKeepsIdentities
  <2> QED BY <1>0, <2>1, <2>2, <2>3 DEF IdentitiesAreDated, Clock, NoClaim, SameIdentity
<1> QED BY <1>1, <1>2, <1>3, <1>4, <1>5, <1>6, <1>7, <1>8, <1>9, <1>10, <1>11, StepKinds DEF PhoneNext

\* The reservation AdmitWrite makes.
NewReservation(m) ==
    [device |-> m.device, action |-> m.action, epoch |-> epoch[m.device],
     token |-> nextToken, boot |-> boot, at |-> Clock]

\* No later attempt is newer than a reservation of its operation.
LEMMA NewerStep ==
    ASSUME TypeOK, TypeOK', IdentitiesAreDated, NothingIsNewer, [Next]_vars
    PROVE  NothingIsNewer'
<1>0. /\ boot \in Nat /\ Clock \in Nat
      /\ ops \in [Devices -> [Actions -> PendingOp]]
      /\ signing \in SUBSET Attempt /\ net \in SUBSET Attempt /\ reserved \in SUBSET Reservation
  BY DEF TypeOK, ClockOK, Clock, PhonesOK, HistoryOK
<1>1. CASE UNCHANGED <<ops, signing, net, reserved>>
  BY <1>1 DEF NothingIsNewer, Predates
<1>2. ASSUME NEW m \in net, AdmitWrite(m) PROVE NothingIsNewer'
  <2> DEFINE x == NewReservation(m)
  <2>1. reserved' = reserved \cup {x} /\ m.action \in Writes /\ UNCHANGED <<ops, signing, net>>
    BY <1>2, AdmittedFrame DEF AdmitWrite, NewReservation
  <2>2. m.device \in Devices /\ m.action \in Actions /\ m.action \notin Beats
    BY <1>0, <2>1, ClassAssumption DEF Attempt
  <2>3. x.device = m.device /\ x.action = m.action /\ x.boot = boot /\ x.at = Clock
    BY DEF NewReservation
  <2>4. ops[x.device][x.action].sent
    BY <2>2, <2>3 DEF NothingIsNewer
  <2>5. \A b, t0 \in Nat : b <= boot /\ (b = boot => t0 <= Clock + Drift) => Predates(b, t0, x)
    BY <1>0, <2>3 DEF Predates
  <2>6. Predates(ops[x.device][x.action].boot, ops[x.device][x.action].t0, x)
    BY <1>0, <2>2, <2>3, <2>5 DEF IdentitiesAreDated, PendingOp
  <2>7. \A n \in signing \cup net : Predates(n.opBoot, n.opT0, x)
    BY <1>0, <2>5 DEF IdentitiesAreDated, Attempt
  <2> HIDE DEF x
  <2> QED BY <2>1, <2>4, <2>6, <2>7 DEF NothingIsNewer, Predates
<1>3. ASSUME NEW d \in Devices, NEW a \in Actions,
             PhoneDispatch(d, a) \/ PhoneResend(d, a) \/ PhoneSettle(d, a)
      PROVE NothingIsNewer'
  <2>1. reserved' = reserved
    BY <1>3 DEF PhoneDispatch, PhoneResend, PhoneSettle, relaySide, histVars
  <2>2. \A e \in Devices, b \in Actions : SameIdentity(ops'[e][b], ops[e][b])
    BY <1>3, DispatchKeepsIdentities
  <2>3. \A n \in signing' \cup net' : n \in signing \cup net \/ n \in Attempts(d, a)
    BY <1>3 DEF PhoneDispatch, PhoneResend, PhoneSettle
  <2>4. \A n \in net' : n \in net \/ (n \in Attempts(d, a) /\ (a \in Beats \/ ops[d][a].sent))
    BY <1>3 DEF PhoneDispatch, PhoneResend, PhoneSettle
  <2>5. \A n \in Attempts(d, a) :
          /\ n.device = d /\ n.action = a
          /\ ops[d][a].sent => n.opBoot = ops[d][a].boot /\ n.opT0 = ops[d][a].t0
    BY AttemptsAreDated
  <2>6. \A n \in net' : n.action \notin Beats => ops'[n.device][n.action].sent
    BY <1>0, <2>2, <2>4, <2>5 DEF NothingIsNewer, Attempt, SameIdentity
  <2>7. \A x \in reserved :
          /\ ops'[x.device][x.action].sent
          /\ Predates(ops'[x.device][x.action].boot, ops'[x.device][x.action].t0, x)
    <3> SUFFICES ASSUME NEW x \in reserved
                 PROVE  /\ ops'[x.device][x.action].sent
                        /\ Predates(ops'[x.device][x.action].boot, ops'[x.device][x.action].t0, x)
      OBVIOUS
    <3>1. x.device \in Devices /\ x.action \in Actions
      BY <1>0 DEF Reservation, Actions
    <3> QED BY <2>2, <3>1 DEF NothingIsNewer, SameIdentity
  <2>8. \A x \in reserved : \A n \in signing' \cup net' :
          n.device = x.device /\ n.action = x.action => Predates(n.opBoot, n.opT0, x)
    BY <2>3, <2>5 DEF NothingIsNewer
  <2> QED BY <2>1, <2>6, <2>7, <2>8 DEF NothingIsNewer, Predates
<1>4. ASSUME NEW m \in signing, PhoneSend(m) PROVE NothingIsNewer'
  <2> DEFINE o == IF ops[m.device][m.action].sent THEN ops[m.device][m.action]
                  ELSE [ops[m.device][m.action] EXCEPT !.sent = TRUE, !.boot = m.opBoot, !.t0 = m.opT0]
  <2>1. /\ ops' = [ops EXCEPT ![m.device][m.action] = o]
        /\ reserved' = reserved /\ net' = net \cup {m} /\ signing' \cup net' = signing \cup net
    BY <1>4 DEF PhoneSend, relaySide, histVars
  <2>2. m.device \in Devices /\ m.action \in Actions /\ ops[m.device][m.action] \in PendingOp
    BY <1>0 DEF Attempt
  <2>3. o.sent /\ (ops[m.device][m.action].sent => o = ops[m.device][m.action])
    BY <2>2 DEF PendingOp
  <2> HIDE DEF o
  <2>4. \A e \in Devices, b \in Actions :
          /\ ops[e][b].sent => ops'[e][b] = ops[e][b]
          /\ e = m.device /\ b = m.action => ops'[e][b].sent
    BY <1>0, <2>1, <2>2, <2>3
  <2>5. \A n \in net' : n.action \notin Beats => ops'[n.device][n.action].sent
    <3> SUFFICES ASSUME NEW n \in net', n.action \notin Beats
                 PROVE  ops'[n.device][n.action].sent
      OBVIOUS
    <3>1. n.device \in Devices /\ n.action \in Actions
      BY <1>0, <2>1 DEF Attempt
    <3>2. CASE n = m BY <2>2, <2>4, <3>2
    <3>3. CASE n \in net BY <2>4, <3>1, <3>3 DEF NothingIsNewer
    <3> QED BY <2>1, <3>2, <3>3
  <2>6. \A x \in reserved : ops'[x.device][x.action] = ops[x.device][x.action]
    BY <1>0, <2>4 DEF NothingIsNewer, Reservation, Actions
  <2> QED BY <2>1, <2>5, <2>6 DEF NothingIsNewer, Predates
<1>5. ASSUME NEW d \in Devices, NEW p \in Peers, PhoneReconnect(d, p) PROVE NothingIsNewer'
  <2>1. UNCHANGED <<signing, net, reserved>>
    BY <1>5 DEF PhoneReconnect, relaySide, histVars
  <2>2. \A e \in Devices, b \in Actions : SameIdentity(ops'[e][b], ops[e][b])
    BY <1>5, ReconnectKeepsIdentities
  <2>3. /\ \A n \in net : n.device \in Devices /\ n.action \in Actions
        /\ \A x \in reserved : x.device \in Devices /\ x.action \in Actions
    BY <1>0 DEF Attempt, Reservation, Actions
  <2> QED BY <2>1, <2>2, <2>3 DEF NothingIsNewer, Predates, SameIdentity
<1>6. CASE QuietStep \/ Restart \/ Tick
  BY <1>1, <1>6 DEF QuietStep, Restart, Tick, phoneVars, histVars
<1>7. ASSUME NEW d \in Devices, OpenRequestSession(d) \/ Revoke(d) PROVE NothingIsNewer'
  BY <1>1, <1>7 DEF OpenRequestSession, Revoke, phoneVars, histVars
<1>8. ASSUME NEW m \in net, JoinWrite(m) \/ AnswerWrite(m) PROVE NothingIsNewer'
  <2>1. reserved' = reserved BY <1>8 DEF JoinWrite, AnswerWrite
  <2> QED BY <1>1, <1>8, <2>1, AdmittedFrame
<1>9. ASSUME NEW t \in tasks, RunAction(t) \/ CompleteWrite(t) PROVE NothingIsNewer'
  BY <1>1, <1>9, ExecutedFrame
<1> QED BY <1>2, <1>3, <1>4, <1>5, <1>6, <1>7, <1>8, <1>9, StepKinds DEF PhoneNext

\* Pruning the ledger forgets a record only once its reservation is Retention old.
LEMMA PruneRemembers ==
    ASSUME NEW recs \in [Writes -> WriteRecord], NEW a \in Writes, NEW x \in Reservation,
           Clock \in Nat, Remembered(recs[a], x)
    PROVE  Remembered(PruneWrites(recs, Clock)[a], x)
<1>1. recs[a] \in WriteRecord /\ x.at \in Nat
  BY DEF Reservation
<1>2. PruneWrites(recs, Clock)[a] = IF Expired(recs[a], Clock) THEN NoRecord ELSE recs[a]
  BY DEF PruneWrites
<1>3. CASE Expired(recs[a], Clock)
  BY <1>1, <1>2, <1>3 DEF Expired, Remembered, NoRecord, WriteRecord
<1>4. CASE ~Expired(recs[a], Clock)
  BY <1>2, <1>4
<1> QED BY <1>3, <1>4

\* The heart of the matter: an operation that was reserved in this pairing is not
\* reserved again. The attempt is dated before the old reservation, so it comes from
\* this boot, and a ledger that no longer shows the record is old enough for the
\* attempt to be past its retry window.
LEMMA AdmitsOnlyOnce ==
    ASSUME TypeOK, NothingIsNewer, LedgerRemembers, NEW m \in net, AdmitWrite(m),
           NEW x \in reserved, x.device = m.device, x.action = m.action
    PROVE  x.epoch # epoch[m.device]
<1> SUFFICES ASSUME x.epoch = epoch[m.device] PROVE FALSE OBVIOUS
<1> DEFINE recs == PruneWrites(writes[m.device], Clock)
<1>1. /\ m \in Attempt /\ x \in Reservation /\ Clock \in Nat /\ boot \in Nat
      /\ writes[m.device] \in [Writes -> WriteRecord]
  BY DEF TypeOK, PhonesOK, HistoryOK, ClockOK, Clock, BookOK, Attempt
<1>2. /\ m.action \in Writes /\ m.opBoot = boot /\ Clock - m.opT0 <= RetryWindow
      /\ recs[m.action].state = "none"
  BY DEF AdmitWrite, OperationIsKnown, WithinRetryWindow
<1>3. Predates(m.opBoot, m.opT0, x) /\ x.boot <= boot
  BY DEF NothingIsNewer, LedgerRemembers
<1>4. x.boot = boot /\ m.opT0 <= x.at + MaxFuture
  BY <1>1, <1>2, <1>3 DEF Predates, Attempt, Reservation
<1>5. Remembered(writes[m.device][m.action], x)
  BY <1>4 DEF LedgerRemembers
<1>6. Remembered(recs[m.action], x)
  BY <1>1, <1>2, <1>5, PruneRemembers
<1>7. Clock > x.at + Retention
  BY <1>2, <1>6 DEF Remembered
<1> QED
  BY <1>1, <1>2, <1>4, <1>7, RetentionAssumption DEF Attempt, Reservation

\* The ledger keeps remembering.
LEMMA RemembersStep ==
    ASSUME TypeOK, TypeOK', NothingIsNewer, LedgerRemembers, [Next]_vars
    PROVE  LedgerRemembers'
<1>0. /\ boot \in Nat /\ Clock \in Nat /\ epoch \in [Devices -> Nat]
      /\ writes \in [Devices -> [Writes -> WriteRecord]]
      /\ reserved \in SUBSET Reservation
  BY DEF TypeOK, ClockOK, Clock, PairsOK, BookOK, HistoryOK
<1>a. \A x \in reserved : /\ x.device \in Devices /\ x.action \in Writes
                          /\ x.epoch \in Nat /\ x.boot \in Nat /\ x.at \in Nat
  BY <1>0 DEF Reservation
<1>1. CASE UNCHANGED <<now, boot, bootAt, epoch, writes, reserved>>
  BY <1>1 DEF LedgerRemembers, Remembered, Clock
<1>2. ASSUME NEW d \in Devices, Revoke(d) PROVE LedgerRemembers'
  <2>1. /\ UNCHANGED <<now, boot, bootAt, reserved>>
        /\ epoch' = [epoch EXCEPT ![d] = epoch[d] + 1]
        /\ writes' = [writes EXCEPT ![d] = [a \in Writes |-> NoRecord]]
    BY <1>2 DEF Revoke, clockVars, histVars
  <2>2. \A x \in reserved : x.device # d =>
          epoch'[x.device] = epoch[x.device] /\ writes'[x.device] = writes[x.device]
    BY <1>0, <1>a, <2>1
  <2>3. \A x \in reserved : x.device = d => x.epoch < epoch'[x.device]
    BY <1>0, <1>a, <2>1 DEF LedgerRemembers
  <2> SUFFICES ASSUME NEW x \in reserved
               PROVE  /\ x.boot <= boot /\ x.epoch <= epoch'[x.device]
                      /\ (x.boot = boot => x.at <= Clock)
                      /\ x.boot = boot /\ x.epoch = epoch'[x.device] =>
                           Remembered(writes'[x.device][x.action], x)
    BY <2>1 DEF LedgerRemembers, Remembered, Clock
  <2>4. CASE x.device = d
    BY <1>0, <1>a, <2>1, <2>3, <2>4 DEF LedgerRemembers
  <2>5. CASE x.device # d
    BY <2>2, <2>5 DEF LedgerRemembers
  <2> QED BY <2>4, <2>5
<1>3. CASE Restart
  <2>1. boot' = boot + 1 /\ UNCHANGED <<reserved, epoch>>
    BY <1>3 DEF Restart, histVars, pairVars
  <2> QED BY <1>0, <1>a, <2>1 DEF LedgerRemembers
<1>4. CASE Tick
  <2>1. boot' = boot /\ Clock' = Clock + 1 /\ UNCHANGED <<reserved, epoch, writes>>
    BY <1>4 DEF Tick, Clock, TypeOK, ClockOK, histVars, pairVars, bookVars
  <2> QED BY <1>0, <1>a, <2>1 DEF LedgerRemembers, Remembered
<1>5. ASSUME NEW m \in net, AdmitWrite(m) \/ JoinWrite(m) \/ AnswerWrite(m) PROVE LedgerRemembers'
  <2> DEFINE recs == PruneWrites(writes[m.device], Clock)
  <2>1. UNCHANGED <<now, boot, bootAt, epoch>> /\ Clock' = Clock
    BY <1>5, AdmittedFrame DEF Clock
  <2>2. m.device \in Devices /\ m.action \in Writes /\ writes[m.device] \in [Writes -> WriteRecord]
    BY <1>0, <1>5 DEF TypeOK, PhonesOK, Attempt, AdmitWrite, JoinWrite, AnswerWrite
  <2>3. recs \in [Writes -> WriteRecord]
    BY <2>2, PruneWritesType
  <2>4. ASSUME NEW x \in reserved, x.boot = boot, x.epoch = epoch[x.device]
        PROVE  Remembered(writes'[x.device][x.action], x)
    <3>1. Remembered(writes[x.device][x.action], x) /\ x.device \in Devices /\ x.action \in Writes
      BY <1>a, <2>4 DEF LedgerRemembers
    <3>2. x.device = m.device => Remembered(recs[x.action], x)
      BY <1>0, <2>2, <3>1, PruneRemembers
    <3>3. CASE AdmitWrite(m)
      <4> DEFINE new == RunningRecord(m.opBoot, m.opT0, nextToken)
      <4>1. writes' = [writes EXCEPT ![m.device] = [recs EXCEPT ![m.action] = new]]
        BY <3>3 DEF AdmitWrite
      <4>2. ~(x.device = m.device /\ x.action = m.action)
        BY <2>4, <3>3, AdmitsOnlyOnce
      <4> HIDE DEF recs, new
      <4>3. writes'[x.device][x.action] =
              IF x.device = m.device THEN recs[x.action] ELSE writes[x.device][x.action]
        BY <1>0, <2>2, <2>3, <3>1, <4>1, <4>2
      <4> QED BY <3>1, <3>2, <4>3
    <3>4. CASE JoinWrite(m)
      <4> DEFINE new == [recs[m.action] EXCEPT !.waiters = recs[m.action].waiters + 1]
      <4>1. writes' = [writes EXCEPT ![m.device] = [recs EXCEPT ![m.action] = new]]
        BY <3>4 DEF JoinWrite
      <4>2. /\ new.state = recs[m.action].state /\ new.token = recs[m.action].token
            /\ new.doneAt = recs[m.action].doneAt
        BY <2>2, <2>3 DEF WriteRecord
      <4> HIDE DEF recs, new
      <4>3. writes'[x.device][x.action] =
              IF x.device = m.device THEN (IF x.action = m.action THEN new ELSE recs[x.action])
              ELSE writes[x.device][x.action]
        BY <1>0, <2>2, <2>3, <3>1, <4>1
      <4> QED BY <3>1, <3>2, <4>2, <4>3 DEF Remembered
    <3>5. CASE AnswerWrite(m)
      <4>1. writes' = [writes EXCEPT ![m.device] = recs]
            \/ writes' = [writes EXCEPT ![m.device] = writes[m.device]]
        BY <3>5 DEF AnswerWrite
      <4> HIDE DEF recs
      <4> QED BY <1>0, <2>2, <3>1, <3>2, <4>1
    <3> QED BY <1>5, <3>3, <3>4, <3>5
  <2>5. ASSUME AdmitWrite(m)
        PROVE  LET x == NewReservation(m) IN
               /\ x.device = m.device /\ x.boot = boot /\ x.epoch = epoch[m.device] /\ x.at = Clock
               /\ Remembered(writes'[x.device][x.action], x)
    <3> DEFINE new == RunningRecord(m.opBoot, m.opT0, nextToken)
    <3>1. writes' = [writes EXCEPT ![m.device] = [recs EXCEPT ![m.action] = new]]
      BY <2>5 DEF AdmitWrite
    <3>2. new.state = "running" /\ new.token = nextToken
      BY DEF RunningRecord
    <3> HIDE DEF recs, new
    <3>3. writes'[m.device][m.action] = new
      BY <1>0, <2>2, <2>3, <3>1
    <3> QED BY <3>2, <3>3 DEF NewReservation, Remembered
  <2>6. reserved' = reserved \/ (AdmitWrite(m) /\ reserved' = reserved \cup {NewReservation(m)})
    BY <1>5 DEF AdmitWrite, JoinWrite, AnswerWrite, NewReservation
  <2> QED BY <1>0, <2>1, <2>2, <2>4, <2>5, <2>6 DEF LedgerRemembers, Remembered
<1>6. ASSUME NEW t \in tasks, CompleteWrite(t) PROVE LedgerRemembers'
  <2> DEFINE rec == writes[t.device][t.action]
             new == [rec EXCEPT !.state = "done", !.doneAt = Clock]
  <2>1. UNCHANGED <<now, boot, bootAt, epoch, reserved>>
    BY <1>6, ExecutedFrame
  <2>2. \/ Holds(rec, t.token) /\ writes' = [writes EXCEPT ![t.device][t.action] = new]
        \/ writes' = writes
    BY <1>6 DEF CompleteWrite
  <2>3. t.device \in Devices /\ t.action \in Writes /\ rec \in WriteRecord
    BY <1>0, <1>6 DEF TypeOK, TasksOK, Task, CompleteWrite
  <2>4. new.state = "done" /\ new.token = rec.token /\ new.doneAt = Clock
    BY <2>3 DEF WriteRecord
  <2>5. Holds(rec, t.token) => rec.state = "running"
    BY DEF Holds
  <2> HIDE DEF rec, new
  <2>6. ASSUME NEW x \in reserved, x.boot = boot, x.epoch = epoch[x.device]
        PROVE  Remembered(writes'[x.device][x.action], x)
    <3>1. /\ Remembered(writes[x.device][x.action], x) /\ x.at <= Clock
          /\ x.device \in Devices /\ x.action \in Writes
      BY <1>a, <2>6 DEF LedgerRemembers
    <3>2. CASE writes' = writes BY <3>1, <3>2
    <3>3. CASE x.device = t.device /\ x.action = t.action /\ Holds(rec, t.token)
               /\ writes' = [writes EXCEPT ![t.device][t.action] = new]
      <4>1. writes'[x.device][x.action] = new
        BY <1>0, <2>3, <3>3
      <4>2. rec.state = "running" /\ rec.token = x.token
        BY <2>5, <3>1, <3>3 DEF Remembered, rec
      <4> QED BY <1>0, <1>a, <2>4, <3>1, <4>1, <4>2 DEF Remembered
    <3>4. CASE ~(x.device = t.device /\ x.action = t.action)
               /\ writes' = [writes EXCEPT ![t.device][t.action] = new]
      <4>1. writes'[x.device][x.action] = writes[x.device][x.action]
        BY <1>0, <2>3, <3>1, <3>4
      <4> QED BY <3>1, <4>1
    <3> QED BY <2>2, <3>2, <3>3, <3>4
  <2> QED BY <2>1, <2>6 DEF LedgerRemembers, Remembered, Clock
<1>7. CASE QuietStep
  BY <1>1, <1>7 DEF QuietStep, clockVars
<1>8. ASSUME NEW d \in Devices, OpenRequestSession(d) PROVE LedgerRemembers'
  BY <1>1, <1>8 DEF OpenRequestSession, clockVars, pairVars, bookVars, histVars
<1>9. ASSUME NEW t \in tasks, RunAction(t) PROVE LedgerRemembers'
  <2>1. writes' = writes BY <1>9 DEF RunAction
  <2> QED BY <1>1, <1>9, <2>1, ExecutedFrame
<1>10. CASE PhoneNext
  <2>1. UNCHANGED relaySide
    BY <1>10 DEF PhoneNext, PhoneDispatch, PhoneResend, PhoneSettle, PhoneSend, PhoneReconnect
  <2> QED BY <1>1, <2>1 DEF relaySide, clockVars, pairVars, bookVars, histVars
<1> QED BY <1>2, <1>3, <1>4, <1>5, <1>6, <1>7, <1>8, <1>9, <1>10, StepKinds

\* Only AdmitWrite reserves, and it reserves one operation.
LEMMA ReservedFrame ==
    ASSUME TypeOK, [Next]_vars
    PROVE  \/ reserved' = reserved
           \/ \E m \in net : AdmitWrite(m) /\ reserved' = reserved \cup {NewReservation(m)}
<1>1. ASSUME NEW m \in net, AdmitWrite(m) PROVE reserved' = reserved \cup {NewReservation(m)}
  BY <1>1 DEF AdmitWrite, NewReservation
<1>2. ASSUME NEW m \in net, JoinWrite(m) \/ AnswerWrite(m) PROVE reserved' = reserved
  BY <1>2 DEF JoinWrite, AnswerWrite
<1>3. ASSUME NEW t \in tasks, RunAction(t) \/ CompleteWrite(t) PROVE reserved' = reserved
  BY <1>3, ExecutedFrame
<1>4. CASE QuietStep \/ Restart \/ Tick
  BY <1>4 DEF QuietStep, Restart, Tick, histVars
<1>5. ASSUME NEW d \in Devices, OpenRequestSession(d) \/ Revoke(d) PROVE reserved' = reserved
  BY <1>5 DEF OpenRequestSession, Revoke, histVars
<1>6. CASE PhoneNext
  BY <1>6 DEF PhoneNext, PhoneDispatch, PhoneResend, PhoneSettle, PhoneSend, PhoneReconnect,
     relaySide, histVars
<1> QED BY <1>1, <1>2, <1>3, <1>4, <1>5, <1>6, StepKinds

\* No operation is reserved twice in one pairing.
LEMMA OnceStep ==
    ASSUME TypeOK, NothingIsNewer, LedgerRemembers, ReservedOnce, [Next]_vars
    PROVE  ReservedOnce'
<1>1. CASE reserved' = reserved
  BY <1>1 DEF ReservedOnce
<1>2. ASSUME NEW m \in net, AdmitWrite(m), reserved' = reserved \cup {NewReservation(m)}
      PROVE  ReservedOnce'
  <2> DEFINE new == NewReservation(m)
  <2>1. new.device = m.device /\ new.action = m.action /\ new.epoch = epoch[m.device]
    BY DEF NewReservation
  <2>2. \A x \in reserved : x.device = m.device /\ x.action = m.action => x.epoch # epoch[m.device]
    BY <1>2, AdmitsOnlyOnce
  <2> HIDE DEF new
  <2>3. reserved' = reserved \cup {new} BY <1>2 DEF new
  <2> QED BY <2>1, <2>2, <2>3 DEF ReservedOnce
<1> QED BY <1>1, <1>2, ReservedFrame

\* Nothing runs that was not reserved.
LEMMA RunsStep ==
    ASSUME TypeOK, RunsAreReserved, [Next]_vars
    PROVE  RunsAreReserved'
<1>0. reserved \subseteq reserved'
  BY ReservedFrame
<1>1. CASE ran' = ran /\ \A t \in tasks' : t.action \in Writes => t \in tasks
  BY <1>0, <1>1 DEF RunsAreReserved, Backs
<1>2. ASSUME NEW m \in net, AdmitWrite(m) PROVE RunsAreReserved'
  <2>1. /\ tasks' = tasks \cup {NewTask(m, nextToken)} /\ ran' = ran
        /\ NewReservation(m) \in reserved'
    BY <1>2 DEF AdmitWrite, NewReservation
  <2>2. Backs(NewReservation(m), NewTask(m, nextToken))
    BY DEF Backs, NewReservation, NewTask
  <2> QED BY <1>0, <2>1, <2>2 DEF RunsAreReserved, Backs
<1>3. ASSUME NEW t \in tasks, RunAction(t) PROVE RunsAreReserved'
  <2> DEFINE after == [t EXCEPT !.phase = "ran"]
             run   == [device |-> t.device, action |-> t.action, epoch |-> t.epoch,
                       token |-> t.token]
  <2>1. t \in Task BY DEF TypeOK, TasksOK
  <2>2. \A x : Backs(x, after) <=> Backs(x, t)
    BY <2>1 DEF Backs, Task
  <2>3. \A x : Backs(x, run) <=> Backs(x, t)
    BY DEF Backs
  <2>4. after.action = t.action BY <2>1 DEF Task
  <2>5. tasks' = (tasks \ {t}) \cup {after} /\ (t.action \in Writes => ran' = ran \cup {run})
        /\ (t.action \notin Writes => ran' = ran)
    BY <1>3 DEF RunAction
  <2>6. reserved' = reserved BY <1>3, ExecutedFrame
  <2> HIDE DEF after, run
  <2>7. \A u \in tasks' : u.action \in Writes => \E x \in reserved : Backs(x, u)
    BY <2>2, <2>4, <2>5 DEF RunsAreReserved
  <2>8. \A r \in ran' : \E x \in reserved : Backs(x, r)
    BY <2>3, <2>5 DEF RunsAreReserved
  <2> QED BY <2>6, <2>7, <2>8 DEF RunsAreReserved, Backs
<1>4. ASSUME NEW t \in tasks, CompleteWrite(t) PROVE RunsAreReserved'
  BY <1>1, <1>4 DEF CompleteWrite, histVars
<1>5. ASSUME NEW m \in net, JoinWrite(m) \/ AnswerWrite(m) PROVE RunsAreReserved'
  BY <1>1, <1>5 DEF JoinWrite, AnswerWrite
<1>6. CASE QuietStep \/ Restart \/ Tick
  BY <1>1, <1>6 DEF QuietStep, Restart, Tick, histVars, bookVars
<1>7. ASSUME NEW d \in Devices, OpenRequestSession(d) \/ Revoke(d) PROVE RunsAreReserved'
  BY <1>1, <1>7 DEF OpenRequestSession, Revoke, histVars, bookVars
<1>8. CASE PhoneNext
  BY <1>1, <1>8 DEF PhoneNext, PhoneDispatch, PhoneResend, PhoneSettle, PhoneSend, PhoneReconnect,
     relaySide, histVars, bookVars
<1> QED BY <1>2, <1>3, <1>4, <1>5, <1>6, <1>7, <1>8, StepKinds

\* The inductive invariant behind AtMostOnce: identities are dated by their first
\* attempt, and the ledger outlives every attempt that could still be let in.
THEOREM LedgerCorrect == Spec => []LedgerInv
<1>1. Init => LedgerInv
  <2> SUFFICES ASSUME Init PROVE LedgerInv OBVIOUS
  <2>1. IdentitiesAreDated
    BY DEF Init, IdentitiesAreDated, Clock, NoClaim, IdleOp
  <2> QED BY <2>1 DEF Init, LedgerInv, NothingIsNewer, LedgerRemembers, ReservedOnce, RunsAreReserved
<1>2. TypeOK /\ TypeOK' /\ LedgerInv /\ [Next]_vars => LedgerInv'
  BY DatedStep, NewerStep, RemembersStep, OnceStep, RunsStep DEF LedgerInv
<1> QED BY <1>1, <1>2, TypeCorrect, PTL DEF Spec

\* A write takes effect at most once per action id while its device stays paired,
\* however often it is resent, claimed for again or cut off, and across restarts.
THEOREM WriteRunsAtMostOnce == Spec => []AtMostOnce
<1>1. LedgerInv => AtMostOnce
  BY DEF LedgerInv, ReservedOnce, RunsAreReserved, Backs, AtMostOnce
<1> QED BY <1>1, LedgerCorrect, PTL
=============================================================================
