----------------------------- MODULE RequestBook -----------------------------
(* The relay's book of remote requests: request sessions with their sequence   *)
(* windows, the write ledger, and the cache of results it is kept apart from.  *)
(* Pure operators, used by RemoteRequests; translated from                     *)
(* crates/relay-server/src/state/relay/remote_requests.rs and the replay cache *)
(* of crates/relay-server/src/state/relay.rs.                                  *)
(*                                                                             *)
(* Only the order of times matters, so a time is a number of abstract units.   *)
EXTENDS Integers, FiniteSets, Functions

CONSTANTS
    MaxAge,          \* REMOTE_REQUEST_MAX_AGE_MS
    MaxFuture,       \* REMOTE_REQUEST_MAX_FUTURE_MS
    RetryWindow,     \* WRITE_RETRY_WINDOW_MS
    Retention,       \* WRITE_RECORD_RETENTION_MS
    SeqWindow,       \* REQUEST_SEQ_WINDOW
    MaxSessions,     \* MAX_REQUEST_SESSIONS_PER_DEVICE
    SessionTTL,      \* REQUEST_SESSION_TTL_MS
    MaxWriteRecords, \* MAX_WRITE_RECORDS_PER_DEVICE
    ReplayTTL,       \* REMOTE_ACTION_REPLAY_TTL_SECS
    MaxReplays       \* MAX_REMOTE_ACTION_REPLAY_ENTRIES

ASSUME TimesAssumption ==
    /\ MaxAge \in Nat /\ MaxFuture \in Nat /\ RetryWindow \in Nat
    /\ Retention \in Nat /\ SessionTTL \in Nat /\ ReplayTTL \in Nat

ASSUME LimitsAssumption ==
    /\ SeqWindow \in Nat \ {0} /\ MaxSessions \in Nat \ {0}
    /\ MaxWriteRecords \in Nat \ {0} /\ MaxReplays \in Nat \ {0}

\* "Longer than any retry can arrive" (remote_requests.rs:24). The part of that
\* sentence the ledger rests on: 10 minutes against 5 minutes and 5 seconds.
ASSUME RetentionAssumption == Retention >= RetryWindow + MaxFuture

(* ---- Request sessions ---------------------------------------------------- *)

NewSession(d, p, t) ==
    [device |-> d, peer |-> p, opened |-> t, expires |-> t + SessionTTL,
     high |-> 0, used |-> {}]

\* Broken variant: a number that has left the window counts as unused.
SeqIsUnusedWithoutWindow(s, seq) == seq # 0 /\ seq \notin s.used

\* RequestSession::seq_is_unused
SeqIsUnused(s, seq) ==
    /\ seq # 0
    /\ seq > s.high \/ (s.high - seq < SeqWindow /\ seq \notin s.used)

\* RequestSession::use_seq: the set keeps only the numbers inside the window.
UseSeq(s, seq) ==
    LET high == IF seq > s.high THEN seq ELSE s.high
    IN  [s EXCEPT !.high = high,
                  !.used = {q \in s.used \cup {seq} : q > high - SeqWindow}]

PruneSessions(ss, t) == Restrict(ss, {sid \in DOMAIN ss : ss[sid].expires > t})

SessionsOf(ss, d) == {sid \in DOMAIN ss : ss[sid].device = d}

\* The sessions of device d that may survive making room for one more: the oldest
\* go first, and which of two equally old ones goes is up to the hash map.
Survivors(ss, d) ==
    LET mine == SessionsOf(ss, d) IN
    {K \in SUBSET mine :
        /\ IF Cardinality(mine) < MaxSessions THEN K = mine
           ELSE Cardinality(K) = MaxSessions - 1
        /\ \A gone \in mine \ K, kept \in K : ss[gone].opened <= ss[kept].opened}

(* ---- The write ledger ---------------------------------------------------- *)

NoRecord ==
    [state |-> "none", opBoot |-> 0, opT0 |-> 0, token |-> 0, waiters |-> 0,
     doneAt |-> 0]

RunningRecord(opBoot, opT0, token) ==
    [state |-> "running", opBoot |-> opBoot, opT0 |-> opT0, token |-> token,
     waiters |-> 0, doneAt |-> 0]

\* Broken variant: the record goes one instant too early.
ExpiredEarly(rec, t) == rec.state = "done" /\ rec.doneAt + Retention <= t

\* A finished record outlives its completion by Retention; a running one stays.
Expired(rec, t) == rec.state = "done" /\ rec.doneAt + Retention < t

\* prune_writes, over the records of one device
PruneWrites(recs, t) ==
    [a \in DOMAIN recs |-> IF Expired(recs[a], t) THEN NoRecord ELSE recs[a]]

LedgerSize(recs) == Cardinality({a \in DOMAIN recs : recs[a].state # "none"})

(* ---- The result cache ---------------------------------------------------- *)

NoEntry == [state |-> "none", token |-> 0, waiters |-> 0, seen |-> 0]

Stale(e, t) == e.state # "none" /\ e.seen + ReplayTTL <= t

\* prune_remote_action_replays; Abandoned is the set of reservations it wakes.
PruneCache(c, t) ==
    [k \in DOMAIN c |-> IF Stale(c[k], t) THEN NoEntry ELSE c[k]]

Abandoned(c, t) ==
    {c[k].token : k \in {j \in DOMAIN c : Stale(c[j], t) /\ c[j].state = "inflight"}}

CacheKeys(c) == {k \in DOMAIN c : c[k].state # "none"}

\* trim_remote_action_replays: the oldest entries go, running ones included, and
\* nobody who waits on one is told.
Trims(c) ==
    LET keys == CacheKeys(c)
        over == Cardinality(keys) - MaxReplays
        outs == {K \in SUBSET keys :
                    /\ Cardinality(K) = (IF over > 0 THEN over ELSE 0)
                    /\ \A gone \in K, kept \in keys \ K : c[gone].seen <= c[kept].seen}
    IN  {[k \in DOMAIN c |-> IF k \in K THEN NoEntry ELSE c[k]] : K \in outs}

\* store_remote_action_result: the entry keeps the count of those who asked, and
\* only an entry that was in flight has anybody to wake.
StoreResult(c, k, t) ==
    [PruneCache(c, t) EXCEPT ![k] =
        [state |-> "completed", token |-> 0, waiters |-> @.waiters, seen |-> t]]

StoreWakes(c, k, t) ==
    Abandoned(c, t) \cup
    (IF PruneCache(c, t)[k].state = "inflight" THEN {c[k].token} ELSE {})
=============================================================================
