--------------------------- MODULE RemoteRequests ---------------------------
(* How a paired phone's request is run at most once by the relay, although the *)
(* broker between them may lose, delay, repeat or reorder its frames, either    *)
(* side may reconnect, and the relay may restart.                               *)
(*                                                                              *)
(* The phone (frontend/remote/actions.js) gives every operation one action id   *)
(* and one identity (opBoot, opT0), and sends it again in newly signed attempts.*)
(* The relay admits an attempt under a surface lease and a request session      *)
(* (broker.rs, state/app/broker.rs, state/relay/remote_requests.rs), runs it on *)
(* the surface's lane (broker/remote_actions/execution.rs) and lets a repeated  *)
(* attempt wait for the one ahead of it (broker/remote_actions/delivery.rs).    *)
EXTENDS RequestBook

CONSTANTS
    Devices, Peers,        \* device ids, broker peer ids of surfaces
    Writes, Reads, Beats,  \* action ids by RequestClass: Write, Read or Stream, Untracked
    Drift,                 \* how far a phone's estimate of the relay clock runs ahead
    \* bounds of the model
    MaxLag, MaxTime, MaxBoot, MaxAttempts, MaxSid, MaxLease, MaxEpoch

ASSUME DriftAssumption == Drift \in Nat /\ Drift <= MaxFuture

ASSUME BoundsAssumption ==
    /\ MaxLag \in Nat /\ MaxTime \in Nat /\ MaxBoot \in Nat
    /\ MaxAttempts \in Nat /\ MaxSid \in Nat /\ MaxLease \in Nat /\ MaxEpoch \in Nat

ASSUME PeersAssumption == IsFiniteSet(Peers)

Actions == Writes \cup Reads \cup Beats
Keys == Devices \X Actions

ASSUME ClassAssumption ==
    Writes \cap Reads = {} /\ Writes \cap Beats = {} /\ Reads \cap Beats = {}

VARIABLES
    now,        \* true time; the relay's clock counts it from bootAt
    boot,       \* relay_boot_id, as a number
    bootAt,
    paired,     \* paired_devices
    leases,     \* surface_leases, 0 for a peer without one
    nextLease,  \* next_surface_lease
    sessions,   \* RemoteRequestBook.sessions, by session id
    nextSid,
    writes,     \* RemoteRequestBook.writes, by device and action id
    cache,      \* recent_remote_actions, by <<device, action id>>
    nextToken,  \* names a reservation: the address of its Notify
    tasks,      \* execute_admitted calls under way
    waiters,    \* answer_from_attempt_ahead tasks
    phone,      \* per device: broker peer id, adopted claim, last sequence number
    ops,        \* the phone's pendingActions
    signing,    \* first attempts being signed
    net,        \* attempts the broker may deliver, any number of times
    attempts,   \* attempts built so far
    told,       \* what the relay has sent to each phone about each action
    \* history
    epoch,      \* how often each device was revoked
    reserved,   \* every reservation of a write
    ran,        \* reservations whose write took effect
    answered,   \* <<sid, seq>> of the attempts that were given an answer
    twice       \* those given one more than once

relayVars == <<leases, nextLease, sessions, nextSid>>
bookVars  == <<writes, cache, nextToken, tasks, waiters>>
phoneVars == <<phone, ops, signing, net, attempts>>
clockVars == <<now, boot, bootAt>>
pairVars  == <<paired, epoch>>
histVars  == <<reserved, ran, answered, twice>>
vars == <<relayVars, bookVars, phoneVars, clockVars, pairVars, histVars, told>>

NoClaim == [sid |-> 0, boot |-> 0, relayMs |-> 0]
NoSessions == [sid \in {} |-> NoClaim]
IdleOp == [status |-> "idle", sent |-> FALSE, boot |-> 0, t0 |-> 0]

\* relay_clock_ms: monotonic from the start of the process. The constant origin
\* the code adds to it cancels out of every comparison.
Clock == now - bootAt

Init ==
    /\ now = 0 /\ boot = 1 /\ bootAt = 0
    /\ paired = Devices /\ epoch = [d \in Devices |-> 0]
    /\ leases = [p \in Peers |-> 0] /\ nextLease = 1
    /\ sessions = NoSessions /\ nextSid = 1
    /\ writes = [d \in Devices |-> [a \in Writes |-> NoRecord]]
    /\ cache = [k \in Keys |-> NoEntry]
    /\ nextToken = 1
    /\ tasks = {} /\ waiters = {}
    /\ phone \in [Devices -> {[peer |-> p, claim |-> NoClaim, seq |-> 0] : p \in Peers}]
    /\ ops = [d \in Devices |-> [a \in Actions |-> IdleOp]]
    /\ signing = {} /\ net = {} /\ attempts = 0 /\ told = {}
    /\ reserved = {} /\ ran = {} /\ answered = {} /\ twice = {}

(* ---- Surface presence and leases ----------------------------------------- *)

LeaseIsCurrent(p, lease) == lease # 0 /\ leases[p] = lease

\* mark_surface_peer_online
SurfaceJoined(p) ==
    /\ nextLease <= MaxLease
    /\ leases' = [leases EXCEPT ![p] = nextLease]
    /\ nextLease' = nextLease + 1
    /\ UNCHANGED <<sessions, nextSid, bookVars, phoneVars, clockVars, pairVars,
                   histVars, told>>

\* mark_surface_peer_offline
SurfaceLeft(p) ==
    /\ leases' = [leases EXCEPT ![p] = 0]
    /\ sessions' = Restrict(sessions, {sid \in DOMAIN sessions : sessions[sid].peer # p})
    /\ UNCHANGED <<nextLease, nextSid, bookVars, phoneVars, clockVars, pairVars,
                   histVars, told>>

\* The relay's own broker session ends (set_broker_connection(false)): every lease
\* goes; sessions stay, and so does the work the lanes already accepted.
BrokerLost ==
    /\ \E p \in Peers : leases[p] # 0
    /\ leases' = [p \in Peers |-> 0]
    /\ UNCHANGED <<nextLease, sessions, nextSid, bookVars, phoneVars, clockVars,
                   pairVars, histVars, told>>

\* replace_online_surface_peers, from the welcome of a new broker session: each
\* listed peer takes a new lease, the sessions of the others are dropped.
Welcome(online) ==
    /\ nextLease + Cardinality(online) <= MaxLease + 1
    /\ \E lease \in [online -> nextLease .. nextLease + Cardinality(online) - 1] :
        /\ IsInjective(lease)
        /\ leases' = [p \in Peers |-> IF p \in online THEN lease[p] ELSE 0]
    /\ nextLease' = nextLease + Cardinality(online)
    /\ sessions' = Restrict(sessions, {sid \in DOMAIN sessions : sessions[sid].peer \in online})
    /\ UNCHANGED <<nextSid, bookVars, phoneVars, clockVars, pairVars, histVars,
                   told>>

(* ---- Claims, pairing, restarts ------------------------------------------- *)

\* complete_remote_claim and the open_request_session inside it; the challenge that
\* precedes it is not modelled here. The answer reaches the phone, which adopts the
\* claim (setSessionClaim), or is lost.
OpenRequestSession(d) ==
    LET p    == phone[d].peer
        live == PruneSessions(sessions, Clock)
        rest == Restrict(live, {s \in DOMAIN live : live[s].device # d \/ live[s].peer # p})
    IN  /\ d \in paired /\ leases[p] # 0 /\ nextSid <= MaxSid
        /\ \E kept \in Survivors(rest, d) :
             LET others == DOMAIN rest \ SessionsOf(rest, d)
             IN  sessions' = [s \in others \cup kept \cup {nextSid} |->
                                IF s = nextSid THEN NewSession(d, p, Clock) ELSE rest[s]]
        /\ nextSid' = nextSid + 1
        /\ \/ phone' = [phone EXCEPT ![d] =
                          [@ EXCEPT !.claim = [sid |-> nextSid, boot |-> boot, relayMs |-> Clock],
                                    !.seq = 0]]
           \/ UNCHANGED phone
        /\ UNCHANGED <<leases, nextLease, ops, signing, net, attempts, bookVars, clockVars,
                       pairVars, histVars, told>>

\* Subscribers of these reservations hear notify_waiters; a waiter that has not
\* subscribed yet does not.
Notify(ws, tokens) ==
    {IF w.token \in tokens /\ w.phase = "subscribed" THEN [w EXCEPT !.phase = "woken"] ELSE w
        : w \in ws}

\* Broken variant: the sessions of the revoked device stay.
RevokeKeepingSessions(d) ==
    /\ d \in paired /\ epoch[d] < MaxEpoch
    /\ paired' = paired \ {d}
    /\ epoch' = [epoch EXCEPT ![d] = @ + 1]
    /\ writes' = [writes EXCEPT ![d] = [a \in Writes |-> NoRecord]]
    /\ UNCHANGED <<sessions, leases, nextLease, nextSid, cache, nextToken, tasks, waiters,
                   phoneVars, clockVars, histVars, told>>

\* revoke_paired_device, for its part in forget_remote_requests_for_device.
Revoke(d) ==
    /\ d \in paired /\ epoch[d] < MaxEpoch
    /\ paired' = paired \ {d}
    /\ epoch' = [epoch EXCEPT ![d] = @ + 1]
    /\ sessions' = Restrict(sessions, {sid \in DOMAIN sessions : sessions[sid].device # d})
    /\ writes' = [writes EXCEPT ![d] = [a \in Writes |-> NoRecord]]
    /\ waiters' = Notify(waiters, {writes[d][a].token :
                                     a \in {b \in Writes : writes[d][b].state = "running"}})
    /\ UNCHANGED <<leases, nextLease, nextSid, cache, nextToken, tasks, phoneVars,
                   clockVars, histVars, told>>

\* The device is approved again; the same key gets the same device id.
PairAgain(d) ==
    /\ d \notin paired
    /\ paired' = paired \cup {d}
    /\ UNCHANGED <<epoch, relayVars, bookVars, phoneVars, clockVars, histVars, told>>

\* The process ends and starts again: a new boot id, a new clock, an empty book.
\* Only the paired devices come back from disk.
Restart ==
    /\ boot < MaxBoot
    /\ boot' = boot + 1 /\ bootAt' = now
    /\ leases' = [p \in Peers |-> 0]
    /\ sessions' = NoSessions
    /\ writes' = [d \in Devices |-> [a \in Writes |-> NoRecord]]
    /\ cache' = [k \in Keys |-> NoEntry]
    /\ tasks' = {} /\ waiters' = {}
    /\ UNCHANGED <<now, nextLease, nextSid, nextToken, phoneVars, pairVars, histVars, told>>

Tick ==
    /\ now < MaxTime /\ now' = now + 1
    /\ UNCHANGED <<boot, bootAt, relayVars, bookVars, phoneVars, pairVars, histVars, told>>

(* ---- Admission ----------------------------------------------------------- *)

\* The read loop stamps a frame with the lease its surface holds; the frame waits on
\* that surface's lane, one handler at a time, and is admitted only if the lease is
\* still the surface's own. A frame that outlives its lease changes nothing, which is
\* a lost frame, so an attempt is taken straight from the broker under the current
\* lease, when that lease's lane is not busy running an action.
LaneIsFree(m) ==
    leases[m.peer] # 0 /\ \A t \in tasks : t.peer # m.peer \/ t.lease # leases[m.peer]

\* What a surface is told, provided the lease it asked under is still its own.  The key
\* that seals the answer was read before, so a device revoked since is told too.
Tell(d, p, lease, a, kind) ==
    told \cup {r \in {[device |-> d, action |-> a, kind |-> kind]} : LeaseIsCurrent(p, lease)}

SessionMatches(m) ==
    LET live == PruneSessions(sessions, Clock) IN
    /\ m.sid \in DOMAIN live
    /\ live[m.sid].device = m.device /\ live[m.sid].peer = m.peer

IsFresh(m) == m.sent + MaxAge >= Clock /\ m.sent <= Clock + MaxFuture

Authorized(m) ==
    SessionMatches(m) /\ m.boot = boot /\ m.device \in paired /\ IsFresh(m)

\* Genuinely the phone's, but not under a session and clock good here: nothing is
\* spent, and the phone is asked to claim and send again (see PhoneResend).
Reauthorize(m) ==
    /\ m \in net /\ LaneIsFree(m) /\ ~Authorized(m)
    /\ sessions' = PruneSessions(sessions, Clock)
    /\ UNCHANGED <<leases, nextLease, nextSid, bookVars, phoneVars, clockVars, pairVars,
                   histVars, told>>

\* A number already spent, or too far behind to tell: silence.
DropDuplicate(m) ==
    /\ m \in net /\ LaneIsFree(m)
    /\ Authorized(m) /\ ~SeqIsUnused(sessions[m.sid], m.seq)
    /\ sessions' = PruneSessions(sessions, Clock)
    /\ UNCHANGED <<leases, nextLease, nextSid, bookVars, phoneVars, clockVars, pairVars,
                   histVars, told>>

\* The attempt is answered one way or another, and that spends its number.
Admit(m) ==
    /\ m \in net /\ LaneIsFree(m)
    /\ Authorized(m) /\ SeqIsUnused(sessions[m.sid], m.seq)
    /\ sessions' = [PruneSessions(sessions, Clock) EXCEPT ![m.sid] = UseSeq(@, m.seq)]
    /\ answered' = answered \cup {<<m.sid, m.seq>>}
    /\ twice' = twice \cup ({<<m.sid, m.seq>>} \cap answered)
    /\ UNCHANGED <<leases, nextLease, nextSid, phoneVars, clockVars, pairVars>>

NewTask(m, token) ==
    [device |-> m.device, action |-> m.action, peer |-> m.peer, lease |-> leases[m.peer],
     token |-> token, epoch |-> epoch[m.device], phase |-> "admitted"]

NewWaiter(m, source, token, ticket) ==
    [device |-> m.device, action |-> m.action, peer |-> m.peer, lease |-> leases[m.peer],
     source |-> source, token |-> token, ticket |-> ticket, phase |-> "spawned"]

\* Untracked: run, and answered by nobody.
AdmitBeat(m) ==
    /\ m.action \in Beats
    /\ Admit(m)
    /\ UNCHANGED <<bookVars, reserved, ran, told>>

\* admit_write, up to the lookup of the record
OperationIsKnown(m) == m.opBoot = boot
OperationClockIsSane(m) == m.opT0 <= Clock + MaxFuture
SameOperation(rec, m) == rec.opBoot = m.opBoot /\ rec.opT0 = m.opT0
WithinRetryWindow(m) == Clock - m.opT0 <= RetryWindow

\* No record and room for one: reserve the operation and run it.
AdmitWrite(m) ==
    LET recs == PruneWrites(writes[m.device], Clock)
    IN  /\ m.action \in Writes
        /\ Admit(m)
        /\ OperationIsKnown(m) /\ OperationClockIsSane(m)
        /\ recs[m.action].state = "none"
        /\ WithinRetryWindow(m) /\ LedgerSize(recs) < MaxWriteRecords
        /\ writes' = [writes EXCEPT ![m.device] =
                        [recs EXCEPT ![m.action] = RunningRecord(m.opBoot, m.opT0, nextToken)]]
        /\ tasks' = tasks \cup {NewTask(m, nextToken)}
        /\ reserved' = reserved \cup
              {[device |-> m.device, action |-> m.action, epoch |-> epoch[m.device],
                token |-> nextToken, boot |-> boot, at |-> Clock]}
        /\ nextToken' = nextToken + 1
        /\ UNCHANGED <<cache, waiters, ran, told>>

\* The operation is running: take the next ticket and wait for its outcome.
JoinWrite(m) ==
    LET recs == PruneWrites(writes[m.device], Clock)
        rec  == recs[m.action]
    IN  /\ m.action \in Writes
        /\ Admit(m)
        /\ OperationIsKnown(m) /\ OperationClockIsSane(m)
        /\ rec.state = "running" /\ SameOperation(rec, m)
        /\ writes' = [writes EXCEPT ![m.device] = [recs EXCEPT ![m.action].waiters = @ + 1]]
        /\ waiters' = waiters \cup {NewWaiter(m, "ledger", rec.token, rec.waiters + 1)}
        /\ UNCHANGED <<cache, nextToken, tasks, reserved, ran, told>>

\* Every other write attempt is answered at once: with the result on file, or with
\* why there is none.
AnswerOf(m, recs) ==
    LET rec == recs[m.action] IN
    CASE ~OperationIsKnown(m)     -> "outcome_unknown"
      [] ~OperationClockIsSane(m) -> "refused"
      [] rec.state = "none"       -> IF WithinRetryWindow(m) THEN "refused" ELSE "outcome_unknown"
      [] ~SameOperation(rec, m)   -> "refused"
      [] OTHER                    -> IF cache[<<m.device, m.action>>].state = "completed"
                                     THEN "result" ELSE "already_completed"

AnswerWrite(m) ==
    LET recs == IF OperationIsKnown(m) /\ OperationClockIsSane(m)
                THEN PruneWrites(writes[m.device], Clock) ELSE writes[m.device]
        rec  == recs[m.action]
    IN  /\ m.action \in Writes
        /\ Admit(m)
        /\ OperationIsKnown(m) /\ OperationClockIsSane(m) =>
             /\ rec.state = "running" => ~SameOperation(rec, m)
             /\ rec.state = "none" =>
                  ~WithinRetryWindow(m) \/ LedgerSize(recs) >= MaxWriteRecords
        /\ writes' = [writes EXCEPT ![m.device] = recs]
        /\ told' = Tell(m.device, m.peer, leases[m.peer], m.action, AnswerOf(m, recs))
        /\ UNCHANGED <<cache, nextToken, tasks, waiters, reserved, ran>>

\* Read and Stream go by the result cache alone (reserve_remote_action_with_digest).
AdmitRead(m) ==
    LET k == <<m.device, m.action>>
        c == PruneCache(cache, now)
    IN  /\ m.action \in Reads
        /\ Admit(m)
        /\ \/ /\ c[k].state = "none"
              /\ cache' = [c EXCEPT ![k] = [state |-> "inflight", token |-> nextToken,
                                            waiters |-> 0, seen |-> now]]
              /\ tasks' = tasks \cup {NewTask(m, nextToken)}
              /\ nextToken' = nextToken + 1
              /\ waiters' = Notify(waiters, Abandoned(cache, now))
              /\ UNCHANGED told
           \/ /\ c[k].state = "inflight"
              /\ cache' = [c EXCEPT ![k].waiters = @ + 1]
              /\ waiters' = Notify(waiters, Abandoned(cache, now)) \cup
                              {NewWaiter(m, "cache", c[k].token, c[k].waiters + 1)}
              /\ UNCHANGED <<nextToken, tasks, told>>
           \/ /\ c[k].state = "completed"
              /\ cache' = c
              /\ waiters' = Notify(waiters, Abandoned(cache, now))
              /\ told' = Tell(m.device, m.peer, leases[m.peer], m.action, "result")
              /\ UNCHANGED <<nextToken, tasks>>
        /\ UNCHANGED <<writes, reserved, ran>>

(* ---- Execution ----------------------------------------------------------- *)

\* run_remote_action has returned, or panicked and been caught; what the action
\* changed is changed, and saved if it can be (commit_core).
RunAction(t) ==
    /\ t \in tasks /\ t.phase = "admitted"
    /\ tasks' = (tasks \ {t}) \cup {[t EXCEPT !.phase = "ran"]}
    /\ ran' = IF t.action \in Writes
              THEN ran \cup {[device |-> t.device, action |-> t.action, epoch |-> t.epoch,
                              token |-> t.token]}
              ELSE ran
    /\ UNCHANGED <<writes, cache, nextToken, waiters, relayVars, phoneVars, clockVars,
                   pairVars, reserved, answered, twice, told>>

\* The reservation is this task's own: ReservationToken::holds
Holds(rec, token) == rec.state = "running" /\ rec.token = token

\* Broken variant: nothing is recorded for a surface that has gone.
CompleteWriteForSurface(t) ==
    LET k   == <<t.device, t.action>>
        rec == writes[t.device][t.action]
    IN  /\ t \in tasks /\ t.phase = "ran" /\ t.action \in Writes
        /\ \/ /\ LeaseIsCurrent(t.peer, t.lease) /\ Holds(rec, t.token)
              /\ writes' = [writes EXCEPT ![t.device][t.action] =
                              [@ EXCEPT !.state = "done", !.doneAt = Clock]]
              /\ cache' \in Trims(StoreResult(cache, k, now))
              /\ waiters' = Notify(waiters, {t.token} \cup StoreWakes(cache, k, now))
           \/ /\ ~(LeaseIsCurrent(t.peer, t.lease) /\ Holds(rec, t.token))
              /\ UNCHANGED <<writes, cache, waiters>>
        /\ tasks' = tasks \ {t}
        /\ UNCHANGED <<nextToken, relayVars, phoneVars, clockVars, pairVars, histVars, told>>

\* complete_remote_write, then the reply. A write whose reservation is gone or
\* belongs to another attempt leaves no trace in the book.
CompleteWrite(t) ==
    LET k   == <<t.device, t.action>>
        rec == writes[t.device][t.action]
    IN  /\ t \in tasks /\ t.phase = "ran" /\ t.action \in Writes
        /\ \/ /\ Holds(rec, t.token)
              /\ writes' = [writes EXCEPT ![t.device][t.action] =
                              [@ EXCEPT !.state = "done", !.doneAt = Clock]]
              /\ cache' \in Trims(StoreResult(cache, k, now))
              /\ waiters' = Notify(waiters, {t.token} \cup StoreWakes(cache, k, now))
           \/ ~Holds(rec, t.token) /\ UNCHANGED <<writes, cache, waiters>>
        /\ tasks' = tasks \ {t}
        /\ told' = Tell(t.device, t.peer, t.lease, t.action, "result")
        /\ UNCHANGED <<nextToken, relayVars, phoneVars, clockVars, pairVars, histVars>>

\* store_remote_action_result, then the reply. A read carries no token.
CompleteRead(t) ==
    LET k == <<t.device, t.action>> IN
    /\ t \in tasks /\ t.phase = "ran" /\ t.action \in Reads
    /\ cache' \in Trims(StoreResult(cache, k, now))
    /\ waiters' = Notify(waiters, StoreWakes(cache, k, now))
    /\ tasks' = tasks \ {t}
    /\ told' = Tell(t.device, t.peer, t.lease, t.action, "result")
    /\ UNCHANGED <<writes, nextToken, relayVars, phoneVars, clockVars, pairVars, histVars>>

(* ---- Waiting for the attempt ahead --------------------------------------- *)

\* The spawned task polls its Notified for the first time. notify_waiters keeps no
\* permit, so this poll never finds one: what was notified earlier went unheard.
WaiterSubscribe(w) ==
    /\ w \in waiters /\ w.phase = "spawned"
    /\ waiters' = (waiters \ {w}) \cup {[w EXCEPT !.phase = "subscribed"]}
    /\ UNCHANGED <<writes, cache, nextToken, tasks, relayVars, phoneVars, clockVars, pairVars,
                   histVars, told>>

\* Nothing came within REMOTE_ACTION_WAIT_TIMEOUT.
WaiterGiveUp(w) ==
    /\ w \in waiters /\ w.phase = "subscribed"
    /\ waiters' = waiters \ {w}
    /\ UNCHANGED <<writes, cache, nextToken, tasks, relayVars, phoneVars, clockVars, pairVars,
                   histVars, told>>

\* Broken variant: a record that is there at all counts as one that ran.
WaitOutcomeOfAnyRecord(w) ==
    LET rec    == writes[w.device][w.action]
        onFile == cache[<<w.device, w.action>>].state = "completed"
    IN  IF onFile THEN "result"
        ELSE IF w.source = "ledger" /\ rec.state # "none" THEN "already_completed"
        ELSE "superseded"

\* remote_write_wait_outcome and remote_action_wait_outcome: only the latest asker
\* is answered.
WaitOutcome(w) ==
    LET rec   == writes[w.device][w.action]
        entry == cache[<<w.device, w.action>>]
        onFile == entry.state = "completed"
    IN  IF w.source = "ledger"
        THEN IF rec.state = "done" /\ rec.waiters = w.ticket
             THEN IF onFile THEN "result" ELSE "already_completed"
             ELSE "superseded"
        ELSE IF onFile /\ entry.waiters = w.ticket THEN "result" ELSE "superseded"

WaiterWake(w) ==
    /\ w \in waiters /\ w.phase = "woken"
    /\ waiters' = waiters \ {w}
    /\ told' = IF WaitOutcome(w) = "superseded" THEN told
                  ELSE Tell(w.device, w.peer, w.lease, w.action, WaitOutcome(w))
    /\ UNCHANGED <<writes, cache, nextToken, tasks, relayVars, phoneVars, clockVars, pairVars,
                   histVars>>

(* ---- The phone ----------------------------------------------------------- *)

\* relayClockNow: the stamp of the adopted claim plus the time since it arrived. It
\* lags by the delivery of the claim and by any sleep, and may drift ahead. What a
\* claim of an earlier boot makes of it decides nothing: the boot already differs.
PhoneClock(d) ==
    LET claim == phone[d].claim
        guess == IF claim.boot = boot THEN Clock ELSE claim.relayMs
    IN  {t \in guess - MaxLag .. guess + Drift : t >= claim.relayMs}

\* buildSignedActionPayload: a new number and time for this attempt; the identity of
\* the operation from its first attempt if that one has been sent, else a new one.
Attempts(d, a) ==
    LET claim == phone[d].claim
        o     == ops[d][a]
    IN  {[device |-> d, peer |-> phone[d].peer, sid |-> claim.sid, boot |-> claim.boot,
          seq |-> phone[d].seq + 1, sent |-> t, action |-> a,
          opBoot |-> IF o.sent THEN o.boot ELSE claim.boot,
          opT0   |-> IF o.sent THEN o.t0 ELSE t] : t \in PhoneClock(d)}

CanBuild(d) == phone[d].claim.sid # 0 /\ attempts < MaxAttempts

CountAttempt(d) ==
    /\ phone' = [phone EXCEPT ![d].seq = @ + 1]
    /\ attempts' = attempts + 1

relaySide == <<relayVars, bookVars, clockVars, pairVars, histVars, told>>

\* dispatchRemoteAction. The fire-and-forget form keeps nothing to retry, and is gone
\* once it is sent.
PhoneDispatch(d, a) ==
    /\ ops[d][a].status = "idle" /\ CanBuild(d)
    /\ \E m \in Attempts(d, a) :
         IF a \in Beats THEN net' = net \cup {m} /\ UNCHANGED signing
                        ELSE signing' = signing \cup {m} /\ UNCHANGED net
    /\ ops' = [ops EXCEPT ![d][a].status = IF a \in Beats THEN "settled" ELSE "pending"]
    /\ CountAttempt(d)
    /\ UNCHANGED relaySide

\* resendPendingActions when the relay is back in the room, reauthorizePendingAction
\* when it asks for a new claim. Both come at times the relay does not choose; the
\* limits the phone sets itself on how often and for how long are left out, so that
\* nothing rests on them. A resend may overtake a first attempt still being signed,
\* and then gives the operation an identity of its own.
PhoneResend(d, a) ==
    /\ ops[d][a].status = "pending" /\ CanBuild(d)
    /\ \E m \in Attempts(d, a) :
         IF ops[d][a].sent THEN net' = net \cup {m} /\ UNCHANGED signing
                           ELSE signing' = signing \cup {m} /\ UNCHANGED net
    /\ CountAttempt(d)
    /\ UNCHANGED <<ops, relaySide>>

\* The signature is there: send. Only now does the pending action keep the identity.
PhoneSend(m) ==
    /\ m \in signing
    /\ signing' = signing \ {m}
    /\ net' = net \cup {m}
    /\ ops' = [ops EXCEPT ![m.device][m.action] =
                 IF @.sent THEN @
                 ELSE [@ EXCEPT !.sent = TRUE, !.boot = m.opBoot, !.t0 = m.opT0]]
    /\ UNCHANGED <<phone, attempts, relaySide>>

\* Answered, past its deadline, or too old to resend: the phone stops asking.
PhoneSettle(d, a) ==
    /\ ops[d][a].status = "pending"
    /\ ops' = [ops EXCEPT ![d][a].status = "settled"]
    /\ UNCHANGED <<phone, signing, net, attempts, relaySide>>

\* onBrokerDisconnect and the next socket: everything pending is rejected, and the
\* broker gives the phone another peer id.
PhoneReconnect(d, p) ==
    /\ \A e \in Devices : phone[e].peer # p
    /\ phone' = [phone EXCEPT ![d] = [peer |-> p, claim |-> NoClaim, seq |-> 0]]
    /\ ops' = [ops EXCEPT ![d] =
                 [a \in Actions |-> IF ops[d][a].status = "pending"
                                    THEN [ops[d][a] EXCEPT !.status = "settled"] ELSE ops[d][a]]]
    /\ UNCHANGED <<signing, net, attempts, relaySide>>

(* ---- Specification ------------------------------------------------------- *)

RelayNext ==
    \/ \E p \in Peers : SurfaceJoined(p) \/ SurfaceLeft(p)
    \/ BrokerLost
    \/ \E online \in SUBSET Peers : Welcome(online)
    \/ \E d \in Devices : OpenRequestSession(d) \/ Revoke(d) \/ PairAgain(d)
    \/ Restart
    \/ \E m \in net : \/ Reauthorize(m) \/ DropDuplicate(m) \/ AdmitBeat(m)
                      \/ AdmitWrite(m) \/ JoinWrite(m) \/ AnswerWrite(m) \/ AdmitRead(m)
    \/ \E t \in tasks : RunAction(t) \/ CompleteWrite(t) \/ CompleteRead(t)
    \/ \E w \in waiters : WaiterSubscribe(w) \/ WaiterGiveUp(w) \/ WaiterWake(w)

PhoneNext ==
    \/ \E d \in Devices, a \in Actions :
          PhoneDispatch(d, a) \/ PhoneResend(d, a) \/ PhoneSettle(d, a)
    \/ \E m \in signing : PhoneSend(m)
    \/ \E d \in Devices, p \in Peers : PhoneReconnect(d, p)

Next == RelayNext \/ PhoneNext \/ Tick

Spec == Init /\ [][Next]_vars

\* An accepted action is run and recorded by its own task whatever becomes of the
\* surface that asked; a waiter is scheduled. A phone need do nothing.
Fairness ==
    /\ WF_vars(\E t \in tasks : RunAction(t) \/ CompleteWrite(t) \/ CompleteRead(t))
    /\ WF_vars(\E w \in waiters : WaiterSubscribe(w) \/ WaiterWake(w) \/ WaiterGiveUp(w))

FairSpec == Spec /\ Fairness

(* ---- Types --------------------------------------------------------------- *)

Attempt ==
    [device : Devices, peer : Peers, sid : Nat, boot : Nat, seq : Nat, sent : Nat,
     action : Actions, opBoot : Nat, opT0 : Nat]
Session ==
    [device : Devices, peer : Peers, opened : Nat, expires : Nat, high : Nat,
     used : SUBSET Nat]
WriteRecord ==
    [state : {"none", "running", "done"}, opBoot : Nat, opT0 : Nat, token : Nat,
     waiters : Nat, doneAt : Nat]
CacheEntry ==
    [state : {"none", "inflight", "completed"}, token : Nat, waiters : Nat, seen : Nat]
Task ==
    [device : Devices, action : Actions, peer : Peers, lease : Nat, token : Nat,
     epoch : Nat, phase : {"admitted", "ran"}]
Waiter ==
    [device : Devices, action : Actions, peer : Peers, lease : Nat,
     source : {"ledger", "cache"}, token : Nat, ticket : Nat,
     phase : {"spawned", "subscribed", "woken"}]
Phone == [peer : Peers, claim : [sid : Nat, boot : Nat, relayMs : Nat], seq : Nat]
PendingOp ==
    [status : {"idle", "pending", "settled"}, sent : BOOLEAN, boot : Nat, t0 : Nat]
Told ==
    [device : Devices, action : Actions,
     kind : {"result", "already_completed", "outcome_unknown", "refused"}]
Reservation ==
    [device : Devices, action : Writes, epoch : Nat, token : Nat, boot : Nat, at : Nat]
Run == [device : Devices, action : Writes, epoch : Nat, token : Nat]

ClockOK == now \in Nat /\ boot \in Nat /\ bootAt \in Nat /\ bootAt <= now
PairsOK == paired \in SUBSET Devices /\ epoch \in [Devices -> Nat]
LeasesOK == leases \in [Peers -> Nat] /\ nextLease \in Nat
SessionsOK ==
    /\ nextSid \in Nat
    /\ DOMAIN sessions \subseteq Nat /\ \A sid \in DOMAIN sessions : sessions[sid] \in Session
BookOK ==
    /\ writes \in [Devices -> [Writes -> WriteRecord]]
    /\ cache \in [Keys -> CacheEntry]
    /\ nextToken \in Nat
TasksOK == tasks \in SUBSET Task /\ waiters \in SUBSET Waiter
PhonesOK ==
    /\ phone \in [Devices -> Phone]
    /\ ops \in [Devices -> [Actions -> PendingOp]]
    /\ signing \in SUBSET Attempt /\ net \in SUBSET Attempt
    /\ attempts \in Nat
HistoryOK ==
    /\ told \in SUBSET Told /\ reserved \in SUBSET Reservation /\ ran \in SUBSET Run
    /\ answered \in SUBSET (Nat \X Nat) /\ twice \in SUBSET (Nat \X Nat)

\* Every variable holds values of the shape the code gives it, and the relay clock
\* never runs backwards past the start of the process.
TypeOK ==
    /\ ClockOK /\ PairsOK /\ LeasesOK /\ SessionsOK
    /\ BookOK /\ TasksOK /\ PhonesOK /\ HistoryOK

(* ---- Properties ---------------------------------------------------------- *)

\* A write takes effect at most once per action id for as long as the device stays
\* paired: across resends, re-claims, reconnections, evicted results, expired
\* ledger records and relay restarts (RequestClass::Write, remote_requests.rs:100).
AtMostOnce ==
    \A x, y \in ran :
        x.device = y.device /\ x.action = y.action /\ x.epoch = y.epoch => x.token = y.token

\* Why it holds, as an inductive invariant. A phone dates an operation no later than
\* its own clock allows, and its claims are no newer than the relay.
IdentitiesAreDated ==
    /\ \A d \in Devices : LET c == phone[d].claim IN
         c.boot <= boot /\ (c.boot = boot => c.relayMs <= Clock)
    /\ \A m \in signing \cup net : m.opBoot <= boot /\ (m.opBoot = boot => m.opT0 <= Clock + Drift)
    /\ \A d \in Devices, a \in Actions : LET o == ops[d][a] IN
         o.boot <= boot /\ (o.boot = boot => o.t0 <= Clock + Drift)

\* The identity (b, t0) was given out by the time x was reserved.
Predates(b, t0, x) == b <= x.boot /\ (b = x.boot => t0 <= x.at + MaxFuture)

\* Nothing a phone sends for an operation is newer than a reservation of it: by then
\* the phone has sent an attempt, and keeps to the identity of the first.
NothingIsNewer ==
    /\ \A m \in net : m.action \notin Beats => ops[m.device][m.action].sent
    /\ \A x \in reserved :
         /\ ops[x.device][x.action].sent
         /\ Predates(ops[x.device][x.action].boot, ops[x.device][x.action].t0, x)
         /\ \A m \in signing \cup net :
              m.device = x.device /\ m.action = x.action => Predates(m.opBoot, m.opT0, x)

\* What becomes of the record of a reservation x.
Remembered(rec, x) ==
    \/ rec.state = "running" /\ rec.token = x.token
    \/ rec.state = "done" /\ rec.token = x.token /\ rec.doneAt >= x.at
    \/ rec.state = "none" /\ Clock > x.at + Retention

\* A reservation made since the relay started, for a device not revoked since, is on
\* record, or was for so long that no retry of it is let in any more.
LedgerRemembers ==
    \A x \in reserved :
        /\ x.boot <= boot /\ x.epoch <= epoch[x.device] /\ (x.boot = boot => x.at <= Clock)
        /\ x.boot = boot /\ x.epoch = epoch[x.device] =>
             Remembered(writes[x.device][x.action], x)

ReservedOnce ==
    \A x, y \in reserved :
        x.device = y.device /\ x.action = y.action /\ x.epoch = y.epoch => x.token = y.token

Backs(x, t) ==
    x.device = t.device /\ x.action = t.action /\ x.epoch = t.epoch /\ x.token = t.token

RunsAreReserved ==
    /\ \A t \in tasks : t.action \in Writes => \E x \in reserved : Backs(x, t)
    /\ \A r \in ran : \E x \in reserved : Backs(x, r)

\* A write's first identity outlives every record of it: whatever the phone sends
\* later is dated before the reservation, so admit_write finds the record, or refuses
\* it by its age or its boot.
LedgerInv ==
    IdentitiesAreDated /\ NothingIsNewer /\ LedgerRemembers /\ ReservedOnce /\ RunsAreReserved

\* No signed attempt is given an answer twice, even one delivered again after its
\* number has left the window of remembered numbers (use_seq).
NoAttemptTwice == twice = {}

\* Every running record has a task that will finish it, so no resend is told "still
\* running" by a reservation nobody holds (run_remote_action).
RunningIsOwned ==
    \A d \in Devices, a \in Writes :
        writes[d][a].state = "running" =>
            \E t \in tasks : t.device = d /\ t.action = a /\ t.token = writes[d][a].token

\* However many attempts wait for the same reservation, at most one of them answers
\* (the ticket of RemoteActionWait).
OneAnswerPerReservation ==
    \A w, v \in waiters :
        /\ w.phase = "woken" /\ v.phase = "woken" /\ w.token = v.token
        /\ WaitOutcome(w) # "superseded" /\ WaitOutcome(v) # "superseded"
        => w = v

\* Sessions belong to devices that are still paired, a device has at most one per
\* peer and never more than the limit (open_request_session, revoke_paired_device).
SessionsAreSound ==
    /\ \A s \in DOMAIN sessions : sessions[s].device \in paired
    /\ \A s, r \in DOMAIN sessions :
        sessions[s].device = sessions[r].device /\ sessions[s].peer = sessions[r].peer => s = r
    /\ \A d \in Devices : Cardinality(SessionsOf(sessions, d)) <= MaxSessions

\* A reserved write is eventually recorded as done or forgotten with its device,
\* whatever becomes of the surface that asked for it (execute_admitted).
ReservationsSettle ==
    \A d \in Devices, a \in Writes :
        writes[d][a].state = "running" ~> writes[d][a].state # "running"

\* "Subscribe before reading the cache, or a result stored in between wakes nobody"
\* (delivery.rs:486): a waiter that listens and has heard nothing is waiting for
\* something that is still under way.
NoLostWakeup ==
    \A w \in waiters :
        w.phase = "subscribed" =>
            IF w.source = "ledger"
            THEN Holds(writes[w.device][w.action], w.token)
            ELSE LET e == cache[<<w.device, w.action>>]
                 IN  e.state = "inflight" /\ e.token = w.token

(* ---- Refinement ---------------------------------------------------------- *)

Sent == {<<m.device, m.action>> : m \in {n \in net : n.action \in Writes}}
Confirmed ==
    {<<r.device, r.action>> :
        r \in {x \in told : x.action \in Writes /\ x.kind \in {"result", "already_completed"}}}

Promise == INSTANCE WriteOnce WITH
    Owners <- Devices, Operations <- Writes, asked <- Sent, done <- ran, confirmed <- Confirmed

\* Phone, broker and relay together do no more than WriteOnce allows: each step asks
\* for a write, performs one that was asked for and not yet performed, confirms one
\* that was, or does none of these (admit_write, complete_remote_write).
ImplementsWriteOnce == Promise!Spec
=============================================================================
