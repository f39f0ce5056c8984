----------------------------- MODULE TeamRecord -----------------------------
(***************************************************************************)
(* The lifecycle of a task's record: its statuses and the transitions the  *)
(* relay makes on it.  A record has at least the fields status,            *)
(* pauseRequested, stopping, awaiting and inFlight; the others are left    *)
(* alone.                                                                  *)
(***************************************************************************)

Terminal == {"Done", "Escalated", "Failed", "Interrupted", "Cancelled"}
Settled  == {"Paused", "Blocked", "Resolving"}
Active   == {"Queued", "Running", "PausePending", "AwaitingUser"}
Statuses == Terminal \cup Settled \cup Active
Reopenable == {"Done", "Escalated", "Interrupted", "Failed"}

\* A status nobody but its owner may change.
OffLimits(r) == r.status \in Terminal \cup Settled

Is(r, s) == [r EXCEPT !.status = s]

(***************************************************************************)
(* The record and what may happen to it                                    *)
(***************************************************************************)

NewRun == [status |-> "Queued", pauseRequested |-> FALSE, stopping |-> FALSE,
           awaiting |-> FALSE, inFlight |-> FALSE]

SetStatus(r, s) == IF OffLimits(r) THEN r ELSE Is(r, s)

\* A stop that is draining outranks the failure it causes.
Fail(r) == IF OffLimits(r) \/ r.stopping THEN r ELSE Is(r, "Failed")

Block(r) == IF r.status \in Terminal THEN r ELSE [Is(r, "Blocked") EXCEPT !.stopping = FALSE]

RequestPause(r) == IF OffLimits(r) THEN r ELSE [Is(r, "PausePending") EXCEPT !.pauseRequested = TRUE]

RequestStop(r) == IF OffLimits(r) THEN r ELSE [RequestPause(r) EXCEPT !.stopping = TRUE]

\* Nothing is asked for, nothing is under way and nobody is waited for.
AtRest(r, s) == [r EXCEPT !.status = s, !.pauseRequested = FALSE, !.stopping = FALSE,
                          !.awaiting = FALSE, !.inFlight = FALSE]

SettlePaused(r) == IF OffLimits(r) THEN r ELSE AtRest(r, "Paused")

Cancel(r) == IF r.status \in Terminal THEN r ELSE AtRest(r, "Cancelled")

ForceMark(r, s) == IF r.status = s THEN r ELSE AtRest(r, s)

Resume(r) == [Is(r, "Running") EXCEPT !.pauseRequested = FALSE, !.stopping = FALSE]

\* The awaited question is not touched by a recovery.
ResolveAsPaused(r) ==
    IF r.status = "Resolving"
      THEN [AtRest(r, "Paused") EXCEPT !.awaiting = r.awaiting] ELSE r

MarkInterruptedIfStranded(r) ==
    IF r.status \in Terminal \cup {"Paused"} THEN r ELSE Is(r, "Interrupted")

\* What a restart makes of the record on disk: no driver is left.
ReconcileAfterRestore(r) ==
    CASE r.status \in Terminal                      -> r
      [] r.status = "Paused"                        -> [AtRest(r, "Paused") EXCEPT !.inFlight = r.inFlight]
      [] r.status \in {"PausePending", "AwaitingUser"} -> SettlePaused(r)
      [] OTHER                                      -> MarkInterruptedIfStranded(r)

=============================================================================
