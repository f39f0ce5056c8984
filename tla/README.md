# A TLA+ model of sealwire's relay

sealwire lets a phone drive coding agents that run on somebody's own machine. A
**relay** (`crates/relay-server`) runs beside the agents; a **broker**
(`crates/relay-broker`) forwards opaque frames between the relay and the **surfaces**
that have joined its room (phones, browser tabs, `frontend/remote`). The broker is
not trusted with content and promises little about delivery, so everything that makes
a remote action safe happens at the two ends. The relay also starts work of its own: it
drives goals, carries requests from agent to agent, and runs tasks with a team of agents.
This directory models six parts: the path of a remote action, the writer its answers leave
through, the pairing and revocation of the phones that may send one, the broker's rooms, tasks
(teams), and the turns nobody typed (goals and asks).

## 1. Inventory

| part | state | operations | talks to |
|---|---|---|---|
| remote request book (`state/relay/remote_requests.rs`) | request sessions with sequence windows; write ledger | open a session, admit a signed attempt, complete a write, read a wait outcome, prune, forget a device | dispatch, pairing, result cache |
| result cache, leases, presence (`state/relay.rs`, `state/app/broker.rs`) | recent results and in-flight reads; one lease per surface | reserve, store, prune, trim; join, leave, welcome, connection lost | dispatch, broker session |
| dispatch, execution, delivery (`broker.rs`, `broker/remote_actions*`) | one lane per surface lease; running actions; waiters | admit, run, record, reply, wait for the attempt ahead | request book, providers, writer |
| phone action client (`frontend/remote/actions.js`, `remote-runtime.js`, `state.js`) | adopted claim, sequence number, pending actions | dispatch, sign, send, resend, re-authorise, settle, reconnect | broker socket |
| pairing and device records (`state/relay/device.rs`, `state/app/pairing.rs`) | tickets, pending and claimed requests, paired devices, revoked devices | ticket, request, decide, complete, revoke, challenge | broker control plane, request book |
| broker rooms (`relay-broker/src/state.rs`, `lib.rs`) | rooms, peers, join tickets | join, leave, publish, kick | relay, surfaces |
| broker control plane (`relay-broker/src/public_control.rs`) | enrolled relays, device grants | enrol, grant, revoke | relay pairing |
| tasks (`relay-api/src/team.rs`, `state/app/team.rs`, `team_command_reducer.rs`) | one record per task, drive gate and ticket, command journal | start, drive, pause, stop, mark, resume, recover, reopen; apply a driver's command | sessions, orchestrator, persistence |
| goals (`state/goal.rs`, `state/app/goal.rs`) | one goal per session: status, turns charged, open hand-over | set, stop, hand over, report, resume | sessions, asks |
| asks (`state/delegation.rs`, `state/app/delegation.rs`) | requests from agent to agent | check, record, send, settle, remind, wake | sessions, goals |
| broker writer (`broker/writer.rs`) | four queues, the resident chunk train, deadlines | hand over, pace, interleave, abandon, drain, abort | delivery, presence, socket |
| reviews, handover, orchestrator (`state/*.rs`, `state/app/*.rs`) | one state machine per job | start, step, interrupt, finish | sessions, providers |
| sessions, threads, transcripts (`state/app/sessions.rs`, `state/relay/transcript*.rs`) | runtimes, transcript entries, approvals | provider events, edits, deltas | providers, surfaces |
| persistence (`state/core_store.rs`, `instance_lock.rs`, `storage_migration.rs`) | the persisted core | commit, load, migrate, lock | everything that must survive |
| providers (`claude.rs`, `codex.rs`, `acp.rs`, `pi.rs`) | child processes | start, send, interrupt | sessions |

What makes each part correct:

* request book, cache, dispatch, phone: a write takes effect at most once per action id
  and pairing; an attempt is answered once; an answer reports the outcome of the action it
  names; whoever waits is woken.
* pairing and grants: a QR serves the first phone that registered on it; nobody who
  registered is lost; the broker honours exactly the devices the relay believes it does,
  or the relay can still ask it to stop.
* broker rooms: whoever lost access is not seated, however far its join was; a seat is lost
  only to a later join or a closure; and every peer knows who else is there.
* broker writer: chunks keep their distance, a train is given up only for who left, nothing
  starves, and the loop can always wake.
* tasks: one driver at a time; a workspace is handed back only when nobody writes in it; a
  stop is heard; commands take effect once, on the state they were decided on, and their
  answers are true.
* goals and asks: every turn begun unasked is paid for, an answer is the peer's and is given
  once, the latest word of a person stands, and left alone the relay comes to rest.
* the other jobs (reviews, handover): a job interrupted by a restart is resumed or reported.
* persistence: what a reply promised to be saved is there after a crash.
* transcripts and terminal: revisions only grow, and input is applied in order, once.

The hard behaviours of remote actions: frames that are lost, repeated, late or reordered;
two clocks that only roughly agree; a surface that goes away while its action runs; a relay that restarts between running a write and answering for it; a
device revoked and paired again under the same id while its write is still running;
bounded tables that have to forget something; and waiters that are woken by a
`Notify` without memory. Those of pairing: broker calls that take seconds, fail halfway or
succeed without saying so, made between two acquisitions of the relay's lock; two phones
on one QR; a QR replaced while its phone is being answered; HTTP handlers dropped with
their caller; revocations that cross approvals and each other; a relay that ends before
its last change was saved. Those of rooms: a join checked in four awaits and seated in one,
beside calls that take access away. Those of tasks: requests that queue at a gate with the
driver they are about, are dropped with their connection in the middle of a drain, and find
drivers that have just returned or unwound. Those of goals and asks: two watchdogs, people and
agents that meet at a lock which is tried and never waited for, with providers whose answer to
"begin a turn" may be an error although the turn began. `PROJECT.json` lists them as hazards at the line where they
bite, with the property that would catch each going wrong.

## 2. Modules

`RequestBook` holds pure operators over the book's data: the sequence window of a
session, which sessions may survive making room, expiry of ledger records, and the
prune/trim/store functions of the result cache.

`RemoteRequests` is the state machine: relay, phones and the broker between them.

| code | model |
|---|---|
| `mark_surface_peer_online/offline`, `set_broker_connection(false)`, `replace_online_surface_peers` | `SurfaceJoined`, `SurfaceLeft`, `BrokerLost`, `Welcome` |
| `complete_remote_claim` → `open_request_session`, answer adopted by `setSessionClaim` or lost | `OpenRequestSession` |
| `revoke_paired_device`, approval of the same key again | `Revoke`, `PairAgain` |
| end of the process, `apply_persisted` | `Restart` |
| `admit_signed_request` | `Reauthorize`, `DropDuplicate`, and `Admit` inside the five below |
| `admit_operation`, `admit_write`, `reserve_remote_action_with_digest` | `AdmitBeat`, `AdmitWrite`, `JoinWrite`, `AnswerWrite`, `AdmitRead` |
| `execute_admitted`, `complete_remote_write`, `store_remote_action_result` | `RunAction`, `CompleteWrite`, `CompleteRead` |
| `spawn_waiter`, `await_remote_action_result`, `answer_from_attempt_ahead` | `WaiterSubscribe`, `WaiterWake`, `WaiterGiveUp` |
| `dispatchRemoteAction`, `resendPendingActions`, `reauthorizePendingAction`, `sendRemoteActionFrame`, `settlePendingAction`, `onBrokerDisconnect` | `PhoneDispatch`, `PhoneResend`, `PhoneSend`, `PhoneSettle`, `PhoneReconnect` |

`WriteOnce` is the abstract promise behind it: a write takes effect only if it was asked for,
at most once per action id and pairing, and is confirmed only after it has. `RemoteRequests`
maps to it (`Promise`): attempts in the network are what was asked, `ran` what was done, and
what a phone was told of a write's result is what was confirmed; every other step stutters.

`MCRemoteRequests` instantiates it for TLC; `RemoteRequestsProofs` and `RemoteRequestsPromise`
hold the proofs.

`Pairing` is a state machine of its own, over the relay's pairing tables and device records
and the broker's set of granted devices. It shares no state with `RemoteRequests`, whose
`Revoke` and `PairAgain` are what revocation and approval do to the request book.

| code | model |
|---|---|
| `prune_expired_pairings`, run by every operation | `PrunedAt`, and `Prune` for those that do nothing else |
| `prepare_pairing_ticket`; then `install_pairing_ticket` or an error | `PreparePairingTicket`, `StartSettles` |
| `handle_pairing_request`, one step per question it asks under the lock | `PhoneAsks`, `AskWhetherRetired`, `AskWhetherDecided`, `RegisterPairingRequest`, `Refuse` |
| `decide_pairing_request_with` (approve): `claim_pairing_request`, the broker's two calls, `restore_pairing_request` + `decide_pairing_request`, `roll_back_pairing_credential` | `ClaimPairingRequest`, `IssueDeviceGrant`, `CredentialFails`, `ClientGrantFails`, `DecideApproved`, `RollBackPairingCredential` |
| the same (reject) | `DecideRejected` |
| `revoke_device_with`, `revoke_other_devices_with`; `revoke_device_grant` at the broker; `settle_broker_revoke` | `RevokeDevice`, `RevokeOtherDevices`, `BrokerRevokes`, `SettleBrokerRevoke` |
| a handler dropped with its caller; a request the broker carries out for nobody | `ApprovalDropped`, `RevokeDropped`; `LateGrant`, `BrokerRevokes` |
| `clear_device_history`, `mark_paired_device_seen` | `ClearDeviceHistory`, `MarkPairedDeviceSeen` |
| `spawn_core_commit_task` with what `from_relay` writes; `apply_persisted` | `Save`, `Restart` |

`MCPairing` instantiates it for TLC; `PairingProofs` holds the proofs.

`BrokerRooms` is one room of the broker. It is what the "network" of `RemoteRequests` and the
"set of granted devices" of `Pairing` look like from the broker's side; the three share no
state, since the relay's own properties rest on neither the broker's presence nor its queues.

| code | model |
|---|---|
| `handle_socket` up to the seat: verify and read the epoch, `relay_id_for_join`, `authorize_verified_join_access`, `prove_relay_socket`, `join_if_access_epoch` | `JoinStarts`, `JoinChecksRoom`, `JoinChecksAccess`, `JoinProves`, `JoinSeats`, `JoinIsRefused` |
| the loop of a seated socket, its end, `leave_connection`, `publish_connection` | `Deliver`, `SocketCloses`, `SocketIsDropped`, `Publish` |
| `public_release_relay_access`, `revoke_relay_registration_chain`, `force_close_room`; the handler dropped | `ReleaseStarts`, `ReleaseCleansUp`, `ReleaseCloses`, `ReleaseIsDropped` |
| `revoke_device_grant`, `revoke_other_device_grants`, `close_revoked_surfaces` | `Revoke`, `RevokeFails`, `CloseRevoked` |
| `recheck_room_access`; `issue_device_grant` | `RecheckIsDenied`, `RecheckCloses`; `Grant` |

`BrokerWriter` is the task that owns the write half of the relay's socket to its room, with the
hand-over of large replies to it. `RemoteRequests` says which answer is given; how a large one
leaves the relay is this module's subject, and they share no state.

| code | model |
|---|---|
| `publish_remote_action_result_chunks`: lease, presence, `send_train` | `ChecksLease`, `Probes`, `Offers` |
| `send_ping`, `send_now`, `send_terminal` | `Beats`, `SendsNow`, `SendsTerminal` |
| `drive_writer_with_signer`, one action for each step of its loop | `TakesPing`, `TakesChunk`, `HearsPresence`, `TakesTrain`, `TakesNow`, `TakesTerminal` |
| its `select!`, one action for each branch | `WakesForPing`, `WakesForNow`, `WakesForTrain`, `WakesForTerminal`, `WakesInTime` |
| `accept_train`, `advance_train` | `Accepts`, `Written` |
| handles dropped; a failed write or `BrokerWriterGuard` | `HandlesDrop`; `Ends` |

Tasks are three modules. `TeamRecord` holds the transitions of a task's record. `TeamRuns` is
the lifecycle: the record, its drivers, its owner's requests and the gate they queue at.
`TeamCommands` is the seam a driver writes through: commands, the reducer and its journal.
`TeamRuns` lets a driver do whatever its port allows and keeps no commands; `TeamCommands`
keeps no turns. Both use the transitions of `TeamRecord`, and `TeamRunsProofs` and
`TeamCommandsProofs` prove their safety properties.

| code | model |
|---|---|
| `team_boundary_check`, `team_turn`, `wait_for_team_step`, questions | `DriverAtBoundary`, `TurnQueues`, `TurnRefused`, `TurnStarts`, `ParkOnQuestion`, `Unpark`, `TurnStalls`, `StallStops`, `TurnObserved` |
| `spawn_team_driver`, its guard, `interrupt_team_run_if_stranded` | `DriverReturns`, `DriverPanics`, `NetChecks`, `NetDrains`, `NetInterrupts` |
| `pause_team_run`, `stop_team_run`, `mark_team_run` | `AskToStop`, `PauseDecides`, `StopDecides`, `StopDrains`, `StopSettles`, `AskToMark`, `MarkQuiescent`, `MarkBlockedDrains`, `MarkBlocked` |
| `resume_team_run`, `reopen_team_run`, `resolve_blocked_team_run` | `AskToResume`, `ResumeProbes`, `ResumeSpawns`, `AskToReopen`, `ReopenProvisions`, `ReopenClaims`, `ReopenSpawns`, `RollBackReopenProvision`, `AskToResolve`, `ResolveDrains`, `ResolveSettles` |
| a message to the lead; requests dropped; the cleanups of their guards | `AskToSend`, `SendStarts`, `StrayBegins`; `HangUp`; `AbandonTeamStop`, `RestoreResolvingAsBlocked` |
| `submit_command`, `apply_team_command_with_effective`, `push_with_eviction` | `Decide`, `Redeliver`, `ApplyTeamCommand` with `PreflightAnswer`, `Pushed`, `Evicted` |
| owner and host on the record; the orchestrator's two calls | `AskToStop`, `HostSettles`, `ResumeTeamRun`, `HostBlocks`, `BeginResolvingBlocked`, `ResolveSettles`; `ToolFindsRun`, `MessageTeam`, `RerunSubTasks` |

`SessionWork` composes goals (`GoalRecord`) and asks (`AskRecord`) with the sessions they start
turns on.

| code | model |
|---|---|
| `drive_goals_at` | `DriverLooks`, `DriverCharges`, `DriverSends`, `DriverLands` |
| `settle_finished_asks_at` | `SweepReads`, `SweepFails`, `SweepTimesOut`, `SweepMatches`, `SweepNudges`, `SweepNotes` |
| `wake_idle_askers`, `charge_goal_for_driven_turn`, `goal_dispatch_landed` | `WakeLooks`, `WakeMarks`, `WakeCharges`, `WakeSends`, `WakeLands` |
| `send_message_with_native_request`, `resume_goal_on_reply` | `PersonTypes`, `PersonStarts`, `PersonReplies` |
| `stop_active_turn`, `settle_asks_stopped_by_user`, `await_stop_or_mark_idle` | `PersonStops`, `StopIsAnswered`, `StopSettles`, `StopIsGivenUp` |
| `write_goal`, `stop_goal`, `claim_goal_ingress` | `FrameArrives`, `SetGoal`, `StopGoal`, `FrameIsRefused`, `FrameIsLate` |
| `settle_goal`, `delegate_filling`, `report_back` | `Report`, `DelegateChecks`, `DelegateRecords`, `DelegateSends`, `DelegateSent`, `ReportBack` |

Choices a reader should know, for `RemoteRequests`:

* **The network** is the set `net` of attempts sent so far; delivery reads from it
  without removing, so any attempt may arrive never, late, often and in any order.
* **Lanes.** A frame is stamped with the surface's lease when read and handled on that
  lease's lane, one at a time; a frame whose lease has gone changes nothing. That is
  the same as losing it, so attempts are taken from `net` under the current lease
  when that lane is idle.
* **Time.** `now` is true time; the relay's clock is `now - bootAt` (the constant the
  code adds cancels out), and restarts with the process. The result cache uses wall
  seconds, taken to advance with `now`. A phone's idea of the relay's clock may lag by
  `MaxLag` and run ahead by `Drift`, which is assumed to be within the relay's own
  allowance `MaxFuture`.
* **Identity.** A phone fixes an operation's identity `(opBoot, opT0)` when the first
  frame is handed to the socket, not when it is built, so a resend can overtake a first
  attempt that is still being signed and go out under an identity of its own.
* **The phone's own limits** (retry window, number of re-authorisations, deadline) are
  left out, so no guarantee rests on them.
* **Kind and digest** of an action are functions of its action id; a mismatch can only
  come through the identity. Signatures and encryption always verify; the claim
  challenge before `open_request_session` and the bookkeeping of "last seen" times are
  left out.
* **History variables** `epoch`, `reserved`, `ran`, `answered`, `twice` record what the
  properties talk about and restrict nothing.

and for `Pairing`:

* **A phone is its verify key**; its device id is computed from the key (`key_device_id`).
  Pairing ids are numbered by start, which is also `pairing_generation`.
* **Locks.** What happens under one acquisition of the relay's lock is one step. An
  approval holds `pairing_decision_guard` throughout, so there is at most one, and no QR is
  installed meanwhile; revocation does not take it.
* **Time.** An approval keeps the time at which it began and decides with it, as the code
  does, although other operations may have pruned the QR with a later one.
* **The broker** carries out a call at some moment after it was made; its answer may come
  much later, report failure, or be lost although the call was carried out. A call whose caller
  has failed or hung up may still be carried out: `late` holds the grants, and a revocation that
  nobody waits for settles no device (`devices` is empty); `MaxLate` bounds them. A roll-back may
  fail and the code does not look. The client grant, the second call of an approval, is
  only seen to succeed or fail.
* **Left out**: what a refused phone is told, claim challenges, labels and path scopes, the
  self-hosted mode in which credentials cannot be revoked, and token rotation: the broker's
  grants are kept as device ids, so that a late grant also replaces the token of a device paired
  meanwhile is not seen.
* **History variables** restrict nothing: `first` (who registered first on a QR),
  `crossed` (granted while a revocation could still hit them at the broker, or brought back
  by a restart), `unsettled` (revoked while another revocation was unanswered, or by a
  caller who hung up), `abandoned` (the QRs whose approval was dropped with its caller), `unsaved`, and `forgotten` (granted by the broker while the relay
  kept no note: an answer lost, a roll-back that failed, a process that ended before it
  saved).

For `BrokerRooms`:

* **The epoch** is compared for equality only, so the model keeps `current`, the joins under way
  whose epoch is still the one in force; a closure empties it.
* **A queue** counts frames. The byte budget beside it is left out; `overflow` marks a peer that
  missed a frame, and the code then ends its socket.
* **A saved revocation** and the closing of its seats are two steps; a save that fails has
  already taken the grant from memory (`RevokeFails`).
* **One room.** Rooms share only the epoch, so another room's closure makes joins here start
  over, which a refusal of the join already allows.
* **History variables**: `told` (lost its seat to a later join or a closure), `freed`, `cut`.

For `BrokerWriter`:

* **Time** is kept as what is left of a deadline and what has passed since the last chunk, so
  that nothing grows. A frame's write takes any time.
* **One interval** for all trains, as the only caller passes.
* **Departures.** `moved` stands for a lease that is no longer current; a repeated arrival,
  which also renews the lease, is left out. `moved` is kept to the end of the reply.
* **Left out**: signing and sealing, and a frame that the seal withholds (it takes its turn
  all the same); the reply `busy` gets instead of its train is an ordinary frame.

For tasks:

* **The gate** is a fair lock, a queue. What happens between two awaits is one step.
* **Turns** are kept as whose turn is observably under way (`working`), not what they produce.
  A drain either confirms that all have stopped or gives up with some of them running; with
  nothing under way and nothing marked as in flight it has nothing to give up on.
* **Hang-ups.** A request may be dropped at every await, a message that is being sent to the
  lead included. The gate is then free although the provider may begin the message later
  (`late`, then `"stray"` in `working`), as it may when the send ended in an error. A reopen that
  is dropped between provisioning and spawning leaves its task paused.
* **A fingerprint** stands for the envelope it was made from; prose is left out. The count of
  events never exceeds the revision and is left out.
* `TaskAt` also starts from an old record with an escalated sub-task, which a relay without
  journals may have saved. `log`, `left` and `acts` are history.

For goals and asks:

* **Providers** may refuse a turn, begin it, or begin it with the answer lost; a turn ends with
  something said, with nothing, or in failure. A turn is known by its number.
* **A watchdog round** that would change nothing is left out, and one looks at one session or
  ask at a time, which is a round in which the others were busy.
* **Skipped goals.** The goal watchdog passes over a goal as long as a refusal stands (the usage
  budget, a thread that cannot be driven) or its session is lent to a review, without charging or
  blocking it. `DriverLooks` is a look at a goal that is not passed over; how often there is one
  is a matter of fairness, below.
* **History variables**: `word`, `refused`, `driven`, `unwatched`, `handed`.

## 3. Runs

`CHECK_DEADLOCK FALSE` throughout: time, attempts, calls, turns, acts, commands and restarts
are bounded, so every behaviour ends. Every module has an `MC` module of its own;
interchangeable peers, phones and ids are a symmetry set where no temporal property is checked.

| run | checks | instance and why it is enough |
|---|---|---|
| `requests_repair` | `AtMostOnce`, `RunningIsOwned`, `ImplementsWriteOnce`, `ReservationsSettle` | one write, three attempts, two sessions and leases, a revocation, a new pairing, a restart and one tick with `Retention` = 0: a record can expire, be forgotten or be reserved anew with an attempt in flight |
| `requests_surfaces` | `NoAttemptTwice`, `SessionsAreSound`, `OneAnswerPerReservation` | two peer ids of one phone with room for one session, a sequence window of one, a read, a beat and expiry within the run |
| `requests_wakeup` | `NoLostWakeup` is **violated** | finding 1 |
| `pairing_qr` | `FirstKeyKeepsQr`, `NewestQrIsOffered`, `NobodyIsForgotten` | two phones, two QRs with lifetimes 1 and 2 over time 0..2, two requests handled at once, and hang-ups: a phone can register, a QR expire or be replaced, and the operator disappear, at every point of an approval or of the other's request |
| `pairing_grants` | `PairedKeepsGrant`, `SettledGrantsAreAccountedFor` | two phones, two QRs (so one can be paired again), hang-ups, two revocations of one device or of all others, one request carried out late, one restart, saves at any moment; no QR expires (`MaxTime` = 0), since expiry leads an approval only to the roll-back that a failing client grant leads it to as well |
| `pairing_overlap` | `RevocationCanBeRetried` is **violated** | finding 2 |
| `teams_run` | `TicketIsOwned`, `HandedBackIsQuiet`, `NeverDriverless`, `OneWriter`, `StopIsHeard`, `ResolvingEnds` | the fair specification; two requests of every kind, both at once, two drivers so that one can succeed another, and one each of hang-up, panic and restart; messages that begin late |
| `teams_commands` | `JournalIsSound`, `NotesAreGivenOnce`, `AnswersAreTrue`, `GateWaitsForWork`, `DecisionsAreFresh` | a journal of one record under two commands, so that one evicts the other; revisions end at 3, so that counters run out; two notes where one fits a command; redelivery at any moment |
| `goals_asks` | `NoGhostTurns`, `BudgetIsKept`, `AnswersGoOnce`, `AnswersBelong`, `HealthyGoalsAreDriven`, `LastWordWins`, `WorkComesToRest` | two sessions, a budget of two turns, one ask with its reminder, two acts, three turns: a person, a wake and a hand-over can each come between any two steps of another |
| `goals_unwatched` | `UnwatchedTurnsAreCapped` is **violated** | finding 3 |
| `broker_rooms` | `ReleasedRoomsAreEmpty`, `RevokedDevicesLeave`, `SeatIsOwned`, `PresenceIsTrue`, `DeniedRoomsEmpty` | three connections, so that one can displace another before a third; a relay, a device and a pairing ticket; queues of two, which overflow; two calls, so that access can go and come back |
| `writer_trains` | `StayersHearAll`, `ParkedIsWaiting`, `ChunksArePaced`, `RepliesGetOut` | the fair specification; two replies of up to two chunks, so that one waits behind another; an interval of one for chunks and for terminal frames, so that either deadline can come first; a surface that leaves and comes back; queues of one, ordinary and terminal frames without bound |

The properties, in words, stand above their definitions in the modules. Every
property of a passing run is broken by a mutant of the code's own definitions
(`PROJECT.json`, `mutants`): a record dropped one instant early, a token not compared, a
completion skipped for a surface that has gone, a join seated without comparing the epoch, a
drain that is not awaited, answers marked after they were sent, and so on.

**Fairness.**

* `RemoteRequests`: weak fairness of the running actions and of the waiters. An admitted
  action runs on its own task, which the runtime schedules, and is recorded whether or not its
  surface is still there; a handler that panics is caught. Nothing is assumed of phones,
  surfaces or the broker.
* `TeamRuns`: weak fairness of every driver and its net, of every request once it is under way,
  of the cleanups, and of the end of a turn: all are tasks of the runtime, and a turn without
  progress is stopped by a timer. Nobody has to ask for anything, answer a question, or save.
* `SessionWork`: weak fairness of what is under way (`Proceeds`: turns end, calls return) and of
  the ask watchdog (`ComesRound`: its timer fires, and the deadline of an ask passes). Nothing is
  assumed of people, of what agents report or ask, or of the success of any send, nor of the goal
  watchdog, which may pass over a goal for ever: answers come back without it. The second half of
  `WorkComesToRest`, that goals end, states its own assumption (`RefusalsEnd`: every goal is
  looked at in the end); where a refusal stands for ever it does not hold, as the code means it.
  The work the property speaks of is bounded by the budget and by `MaxAsks`.
* `BrokerRooms`: weak fairness of the recheck, which a timer drives; it assumes that a strategy
  that goes on denying is heard at last.
* `BrokerWriter`: weak fairness of the loop, which is a task, of time, and of the end of a write:
  either the socket takes the frame or the session ends, because the heartbeat of a socket that
  is stuck goes unanswered and the guard aborts the task. `MaxBeats` bounds the heartbeats,
  which the loop puts first: they come seconds apart, and a flood of them is not something the
  code can produce.

### Findings

1. `requests_wakeup`: a waiter subscribes to the running attempt's `Notify` on its
   first poll, in a task spawned after admission gave up the lock, and reads the outcome
   only after a wake. A completion in between is unheard (`notify_waiters` stores no
   permit): the phone hears "still running" until `REMOTE_ACTION_WAIT_TIMEOUT` and then
   nothing, with the result on file all the while. The comments at `delivery.rs:486` and
   `relay.rs:7486` describe a check that is not made.
2. `pairing_overlap`: a device revoked, paired again and revoked again while the first
   answer is on its way. The second call fails and is marked for a retry; the first
   answer, a success, clears the mark (`pairing.rs:120`), and the broker goes on honouring
   a device the relay shows as revoked.
3. `goals_unwatched`: `charge_goal_for_driven_turn` charges only a goal that is driving. Once the
   budget is spent the wake is sent all the same, so an agent that ends every turn by asking a
   peer goes on being woken without limit; the comment at `goal.rs:644` says that such turns
   have to come out of the budget.

Met while modelling, and not among the runs: a dropped approval leaves its request neither
restored nor decided until its QR expires or is replaced (the last case of `NobodyIsForgotten`);
a message to a paused task's lead that is dropped while the provider is asked, or that is answered
with an error, may begin after the drive gate was let go, beside a resumed driver or after a
cancel has drained (`sessions.rs:936`; the comment at 856 claims that the gate prevents it, and
`team_turn` watches for such a start, `team.rs:3147`), which is why `OneWriter` speaks of confirmed ones; a reopen dropped before it spawns leaves its task paused; a grant whose answer is lost
is rolled back by nobody (`pairing.rs:283`); a cache over its limit drops the entry of a read
that is still waited for (`relay.rs:7571`); a release dropped after its clean-up was saved leaves
peers seated in a room the recheck no longer asks about (`lib.rs:2567`, `1900`); a surface that
leaves between the lease check of its reply and the probe of its presence is recorded as nobody,
and its train is paced out while it holds the only slot (`delivery.rs:412`, `428`). They stand at
their lines in the hazards.

## 4. Proofs

`RemoteRequestsProofs`, for every value of the constants allowed by the assumptions
(`TimesAssumption`, `LimitsAssumption`, `RetentionAssumption`, `DriftAssumption`,
`BoundsAssumption`, `ClassAssumption`, `PeersAssumption`):

* `TypeCorrect`: `Spec => []TypeOK`.
* `LedgerCorrect`: `Spec => []LedgerInv`, the inductive invariant below.
* `WriteRunsAtMostOnce`: `Spec => []AtMostOnce`.

`AtMostOnce` speaks of effects; by itself it is far from inductive. What carries it:

1. `IdentitiesAreDated`: no claim, attempt or pending operation carries an identity
   from a later boot, or from this boot and later than the relay's clock plus `Drift`.
2. `NothingIsNewer`: once an operation has been reserved, every attempt of it in
   flight, and the identity the phone keeps, predates the reservation (an earlier boot,
   or the same boot and at most `MaxFuture` later). It holds because a reservation
   needs a delivered attempt, a delivered attempt has been sent, and from then on the
   phone keeps one identity.
3. `LedgerRemembers`: a reservation of this boot and pairing is on record as running or
   done under its own token, or the record has gone and the reservation is more than
   `Retention` old.
4. `ReservedOnce`, `RunsAreReserved`: one reservation per device, action and pairing;
   whatever runs has one.

The step that matters is `AdmitsOnlyOnce`: an attempt that `admit_write` would reserve
anew comes from this boot (`OperationIsKnown`), so by 2 the old reservation does too; by
3 its record has expired, so the clock is past `at + Retention`; by 2 the attempt is
dated at most `at + MaxFuture`; so it is older than `Retention - MaxFuture >=
RetryWindow` and was refused. `RetentionAssumption` is exactly what the code's constants
(10 minutes, 5 minutes, 5 seconds) must satisfy, and `DriftAssumption` is what is asked
of a phone's clock.

`RemoteRequestsPromise`, from the same assumptions:

* `RemoteRequestsImplementWriteOnce`: `Spec => ImplementsWriteOnce`.
* `OutcomesAreEarned`: `Spec => []EarnedInv`.
* `RunningRecordsAreOwned`: `Spec => []RunningIsOwned`.

`WriteOnce` confirms only what was performed, and performs only what was asked for and not
yet performed. The last follows from `LedgerInv` and `TokensAreOwn` below: an effect and the
task that now runs are both backed by a reservation (`RunsAreReserved`), under one pairing by
the same (`ReservedOnce`), so they share a token, and that task would have run before. The rest is `EarnedInv`: a record that is
done, or a task that has run, has taken effect (`DoneHasRun`, `RanHasRun`); whoever waits on the cache waits for a read (`ReadersWaitOnCache`), so no read's
result is taken for a write's; a task's action was asked for (`TasksWereAsked`); and a token is
one task's own, and marks an effect only when that task has run (`TokensAreOwn`).

Its second part, from the same assumptions:

* `AttemptsAreAnsweredOnce`: `Spec => []NoAttemptTwice`, by `SpentInv`: sessions are numbered
  afresh, and under a session that is still there a number that was answered is not unused,
  be it remembered or fallen behind the window.
* `SessionsStaySound`: `Spec => []SessionsAreSound`, by `SoundInv`, which adds that there are
  finitely many sessions: the limit is a count.
* `ReservationsAreAnsweredOnce`: `Spec => []OneAnswerPerReservation`, by `TicketInv`: waiters
  with one token have tickets that differ and wait at one place (`TicketsDiffer`); while the
  reservation is there it has counted the ticket of each (`TicketsAreCounted`), so the next is
  new; and a token names one reservation (`TokensName`).

`PairingProofs`, for every value of the constants (`LifetimesAssumption`,
`InstanceAssumption`):

* `PairingTypeCorrect`: `Spec => []TypeOK`.
* `FirstPhoneKeepsItsQr`, `NoOldQrComesBack`: `Spec => []FirstKeyKeepsQr` and
  `Spec => []NewestQrIsOffered`, both from `QrsAreSound`.
* `NobodyIsEverForgotten`: `Spec => []NobodyIsForgotten`, callers that hang up included.
* `PairedDeviceKeepsItsGrant`: `Spec => []PairedKeepsGrant`.
* `NoGrantIsLostSightOf`: `Spec => []SettledGrantsAreAccountedFor`.

The inductive invariant behind the first three is `QrInv`. `IdsAreFresh`: a pairing id is
signed for before it is offered and never comes back, so installing the newest start
cannot undo a replacement. `RequestsAreFirst`: every request, approval and decision goes
back to the first registration on its QR. `FirstHoldsQr`: on a QR on offer that first
request is waiting or claimed, which is why no other phone passes both checks of
`register_pairing_request`. `NobodyIsForgotten` needs in addition that an approval's QR
stays on offer until it expires (`ApprovalHoldsQr`): the decision guard keeps installs out, and
that a QR whose approval was dropped stays claimed while it is on offer (`AbandonedKeepsQr`).
`PairedKeepsGrant` rests on `GrantInv`: an issued grant is there unless a revocation crossed
it, and no revocation still on its way hits a paired device that it had not been noted for
(`RevokesSparePaired`); the roll-back is harmless because it asks for `paired` first.

`SettledGrantsAreAccountedFor` needs `SettleInv`. A revocation that is settled as carried out
forgets its device, so a grant the device has by then must be a new one
(`GrantsAfterCallsAreNew`); one that failed lists its device only if there is still a record to
list, which `ClearDeviceHistory` must have left alone: it does, because the device is in
`broker_revokes_in_flight` until its only call is over (`CallsHoldTheirDevices`). For two calls of
one device that is false, which is finding 2 and the reason for `unsettled`. `DiskAccounts` carries
the invariant over a restart: what is saved lists the revocations that still wait. And an approval
that has asked the broker for nothing counts for nothing (`GrantsAreInSight`), as it may end so.

`BrokerRoomsProofs`, for every value of the constants (`RoomAssumption`):

* `ReleasedRoomsStayEmpty`: `Spec => []ReleasedRoomsAreEmpty`.
* `RevokedDevicesHaveLeft`: `Spec => []RevokedDevicesLeave`.
* `SeatsAreOwned`: `Spec => []SeatIsOwned`.
* `PresenceStaysTrue`: `Spec => []PresenceIsTrue`.

None of the first three is inductive by itself, since a join that is past its checks is about to take a seat. The
invariant `RoomInv` says what the epoch is for: while the room is released, a join whose epoch
still holds has not passed the access check; a join of a device that was cut off whose epoch
still holds has not passed the grant check; and only joins under way are in `current`.

`PresenceInv` adds to it what presence rests on. A room has one relay at most (`OneRelay`), so no
two seats share a peer id (`PeersDiffer`) and a departure is never announced for a peer that is
still there; the assumption that no other socket is given the relay's id stands for the refusal of
an id that is connected already (`state.rs:203`). A socket that is not open has nothing queued
(`QueuesAreMail`), so a newcomer starts from the list it is handed. What is left is about queues,
and is said of any queue: frames about others say nothing of a peer (`OtherFramesSayNothing`), the
last word counts (`LeftIsBelieved`, `JoinedIsBelieved`), hearing a frame changes nothing of what
will be believed in the end (`HearingChangesNothing`), and a socket that `Enqueue` did not mark got
every frame (`EnqueueSends`).

`SessionWorkProofs`, for every value of the constants (`WorkAssumption`,
`GoalTurnsAssumption`):

* `SessionsShowNoGhosts`: `Spec => []NoGhostTurns`.
* `BudgetsAreKept`, `HealthyGoalsAreNotBlocked`, `LastWordIsKept`: `Spec => []BudgetIsKept`,
  `Spec => []HealthyGoalsAreDriven`, `Spec => []LastWordWins`.
* `AnswersAreGivenOnce`, `AnswersBelongToTheirAsk`: `Spec => []AnswersGoOnce`,
  `Spec => []AnswersBelong`.

All six come from one inductive invariant, `WorkInv`, in three parts.

1. The slot (`SlotIsHeld`): whoever is past taking it holds it, so between the charge of a
   goal and the turn it pays for nobody else charges or drives. Hence `PaidFor`, which
   counts a pending charge as a turn already driven, and `HandOversLand`: a driving goal whose
   hand-over has not landed was refused, or its hand-over is under way, which a free slot
   excludes.
2. Positions (`StoppedStays`): a frame moves a goal only if it was admitted after the last one
   that did, so after a stop as the last word nothing has reopened the goal.
3. Turns remember the ask they were begun for (`AskedTurns`, `RecordsAreOwn`, `WatchIsOwn`,
   `CallsAreOwn`): the records of asks, the watchdog half-way through an ask and a `delegate`
   call half-way through its send name only such turns. And an answer is marked before it is
   handed over (`MarkedFirst`), so one that was gathered unmarked was never handed over.

`BrokerWriterProofs`, for every value of the constants (`WriterAssumption`):

* `ChunksKeepTheirDistance`: `Spec => ChunksArePaced`.
* `WhoStaysIsAnswered`: `Spec => []StayersHearAll`.
* `TheWriterCanWake`: `Spec => []ParkedIsWaiting`.

The invariant is `WriterInv`. `Pace`: there is a deadline exactly as long as a chunk is left or
on its way, and what is left of it and the time since the last chunk add up to the interval;
that is why a chunk that is due keeps its distance, also from a train that was given up.
`Targets`: who was there at a hand-over and is not there has left since asking. `Waiting`: with
every queue closed the loop has returned, or holds a frame or a train with a deadline.

`TeamRunsProofs`, from `BoundsAssumption`:

* `RunsAreInvariant`: `Spec => []RunsInv`.
* `RightToDriveNeverLeaks`, `ActiveTasksAreDriven`: `Spec => []TicketIsOwned`,
  `Spec => []NeverDriverless`.
* `WorkspaceIsHandedBackQuiet`, `OneWritesAtATime`: `Spec => []HandedBackIsQuiet`,
  `Spec => []OneWriter`.

None of them is inductive, since a stop, a recovery and a driver are each many steps. `RunsInv`
follows who is inside the gate and what they have found there:

1. A process past the gate holds it (`HoldersHold`), so there is one (`OneAtTheGate`); the right
   to drive is where `TicketIsOwned` says (`OneMayDrive`), so there is one driver.
2. Whoever has drained at the gate has found the driver quiet, and nothing starts a turn there
   until it leaves (`DrainedIsQuiet`). That is why a stop may settle the record as paused.
   `HandedBackIsQuiet` does not follow by itself: a driver outside a turn could start one. It cannot,
   because between turns it has none under way, or its task is settled already
   (`DriversAreQuiet`), and a settled task is refused a turn.
3. A message to the lead that was confirmed is worked on only in a settled task without a turn
   (`UsersWaitForRest`), and a reopen that fails goes back to a finished task (`ReopensGoBack`).
4. A stop knows what it was asked for from the gate to its settlement (`StopsHaveTargets`), so
   what it settles the record as is one of the statuses a workspace is handed back in.

`StepsMove` reads every action as one process that changes its place, a resume that spawns a driver,
a restart, or a step that moves nobody; `RunMoves` says how a step may change the record. The lemma
of each conjunct then only looks at the places it speaks of.

`TeamCommandsProofs`, from `CommandBounds`:

* `CommandsAreInvariant`: `Spec => []CommandsInv`.
* `TheJournalStaysSound`, `NobodyIsToldALie`: `Spec => []JournalIsSound`,
  `Spec => []AnswersAreTrue`.
* `NobodyGetsANoteTwice`, `TheGateWaits`: `Spec => []NotesAreGivenOnce`,
  `Spec => []GateWaitsForWork`.
* `NothingVoidHappens`: `Spec => DecisionsAreFresh`, an action property.

A driver hears of a command again from the journal, so the invariant `CommandsInv` ties the
journal to what took effect, which the program does not keep:

1. A record says of itself that it was applied only if it is in the log, with the notes that are
   kept for it (`AppliedIsLogged`), and that it was refused only if it is not
   (`RefusedIsNotLogged`).
2. Nothing in the log has a number above the watermark, and what has the watermark itself is
   still in the journal (`LogIsCounted`). So a command that is new was never applied, and one
   that is unknown and no longer new was not applied or is forgotten: `stale` is then the truth.
   It needs that a record carries the id of its command (`RecordsNameTheirCommand`), and that
   what is evicted is never the record just written.
3. A command under way was decided on a revision no later than the task's, and on this revision
   only since the last act of the owner (`PendingIsFresh`). At the end of the counter that fails,
   which is why `NoHeadroom` must refuse there, and the proof of `ApplicationsAreFresh` uses it.

`PushingRecords` says what a write of the journal does to it, with or without an eviction;
`EffectsAreFit` what a command leaves alone. `OwnersAndHostsMove` gathers the ten actions beside
the reducer in one kind of step (`OwnerMoves`).

Only model-checked: the liveness properties (`ReservationsSettle`, `StopIsHeard`, `ResolvingEnds`,
`WorkComesToRest`, `DeniedRoomsEmpty`, `RepliesGetOut`), which are out of the prover's reach.
Every invariant and every action property of a passing run is also a theorem.

## 5. Plan

1. *(done)* `RequestBook`, `RemoteRequests`: requests run at most once; the abstract promise
   `WriteOnce`.
2. *(done)* `Pairing`: QRs, approval across a slow broker, revocation and its settlement.
3. *(done)* `BrokerRooms`: joins, seats, presence, closures, and proofs.
4. *(done)* `TeamRecord`, `TeamRuns`, `TeamCommands`: the life of a task and the commands of its
   driver.
5. *(done)* `GoalRecord`, `AskRecord`, `SessionWork`: goals and asks over sessions, and their
   proofs.
6. *(done)* `BrokerWriter`: chunk trains, their pace and their abandonment, and proofs.
7. Reviews and handover, which lock the sessions that goals and asks leave open; persistence of
   asks and goals over a restart.
8. `Terminal`, `Transcript`: sequenced input, deltas. `CoreStore`: what a commit promises the others.
9. Proofs: *(done)* the refinement of `WriteOnce`, sessions, tickets, the safety invariants of
   tasks and of their commands, the settlement of grants, presence; then reviews once they are modelled.

## 6. Not modelled

* **Whole parts**: provider child processes and their wire formats, encryption, HTTP handlers
  and wire types, rendering, push notifications, usage accounting and file migration are I/O or
  formatting, with no protocol of their own that the properties could speak about. The
  terminal, transcripts, approvals, reviews, handover, the commit protocol of the core store
  and the instance lock are planned above.
* **Broker**: rate and tenant limits, byte budgets, several rooms, a second broker process over
  the same registry, enrolment and client grants, and what frames contain. A released relay
  that enrols again is given a new room, so a room is never registered twice.
* **Tasks**: provisioning of worktrees and seats, the git gate, deletion, the replacement of an
  unresumable lead, backends that cannot run a task, several tasks and the limits between them,
  in-flight commands recovered at start, and what turns say.
* **Goals and asks**: cards and plan steps, narrowed permissions and sessions that became part
  of a task, competing drivers, asks that a person starts and their briefs, the approval of a
  model, peers that are started afresh or have no tools, cancelled asks and archived sessions, a
  restart, history read from disk, turns the provider does not name, and more than one message
  or stop of a person at a time. A goal's count may pass the limit by the turns begun while it
  was being revised; the budget a person gave is what `BudgetIsKept` speaks of.
