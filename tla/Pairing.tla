------------------------------ MODULE Pairing ------------------------------
(***************************************************************************)
(* Pairing QRs, the operator's decision on the phone that answers one, and  *)
(* the revocation of paired devices: state/relay/device.rs under the locks  *)
(* of state/app/pairing.rs, with the broker's control plane on the other    *)
(* side of slow calls.                                                     *)
(*                                                                         *)
(* A phone is its verify key, from which its device id is computed.  The   *)
(* broker's table of device grants is the set honoured; its answers may    *)
(* come late, or not at all although the request was carried out.          *)
(***************************************************************************)
EXTENDS Integers, FiniteSets

CONSTANTS
    Keys,               \* verify keys of phones
    Ttls,               \* lifetimes a QR may be given
    StartWindow,        \* the minute over which starts are counted
    StartsPerWindow,    \* MAX_PAIRING_STARTS_PER_MINUTE
    CallersCanHangUp,   \* may an HTTP caller go away, which drops its handler?
    MaxStarts, MaxTime, MaxCalls, MaxAsks, MaxRestarts,   \* bounds of the instance
    MaxLate             \* bound: requests the broker has yet to carry out for nobody

ASSUME LifetimesAssumption ==
    /\ Ttls \subseteq Nat \ {0}
    /\ StartWindow \in Nat /\ StartsPerWindow \in Nat

ASSUME InstanceAssumption ==
    /\ CallersCanHangUp \in BOOLEAN
    /\ MaxStarts \in Nat /\ MaxTime \in Nat /\ MaxCalls \in Nat
    /\ MaxAsks \in Nat /\ MaxRestarts \in Nat /\ MaxLate \in Nat

VARIABLES
    now,
    tickets,    \* per pairing id: when it was started and when it expires
    started,    \* pairing_generation: the latest start
    recent,     \* pairing_starts
    signing,    \* starts waiting for the broker's signature
    pending,    \* pending_pairings
    retired,    \* retired_pairings
    waiting,    \* pending_pairing_requests: [id, key]
    claimed,    \* claimed_pairing_requests
    completed,  \* completed_pairings: [id, key, outcome]
    approval,   \* the approval that holds pairing_decision_guard, if any
    asks,       \* requests of phones being handled: [id, key, step]
    paired,     \* paired_devices
    records,    \* device_records: their lifecycle state, or "none"
    owed,       \* the devices whose record has broker_revoke_pending
    inFlight,   \* broker_revokes_in_flight
    calls,      \* revocations waiting for the broker's answer
    callCount,
    honoured,   \* the devices with a grant at the broker
    late,       \* grants asked of the broker that nobody waits for any more
    disk,       \* what has been saved of paired, records and owed
    restarts,
    first,      \* history: the first phone to register on each QR
    abandoned,  \* history: QRs whose approval was dropped with its caller
    crossed,    \* history: paired while a revocation could still hit them
    unsettled,  \* history: revoked while another answer was due, or by a caller who hung up
    unsaved,    \* history: granted since the last save
    forgotten   \* history: granted by the broker without the relay keeping note of it

qrVars     == <<tickets, started, recent, signing>>
tableVars  == <<pending, retired, waiting, claimed, completed>>
deviceVars == <<paired, records, owed>>
revokeVars == <<inFlight, calls, callCount, unsettled>>
saveVars   == <<disk, restarts>>
vars == <<now, qrVars, tableVars, approval, asks, deviceVars, revokeVars, honoured, late,
          saveVars, first, crossed, abandoned, unsaved, forgotten>>

Ids      == 1..MaxStarts
Outcomes == {"approved", "rejected", "replaced"}

(***************************************************************************)
(* QRs                                                                     *)
(***************************************************************************)

\* The requests for other QRs: a table holds one request per pairing id.
Others(table, id) == {x \in table : x.id # id}

\* What is left of a table of pairing ids at time t.
Live(ids, t) == {i \in ids : tickets[i].expires > t}

\* Every operation drops what has expired before it does anything else.
PendingAt(t)   == Live(pending, t)
WaitingAt(t)   == {w \in waiting : w.id \in PendingAt(t)}
ClaimedAt(t)   == claimed \cap PendingAt(t)
RetiredAt(t)   == Live(retired, t)
CompletedAt(t) == {c \in completed : tickets[c.id].expires > t}

PrunedAt(t) ==
    /\ pending' = PendingAt(t)
    /\ retired' = RetiredAt(t)
    /\ waiting' = WaitingAt(t)
    /\ claimed' = ClaimedAt(t)
    /\ completed' = CompletedAt(t)

\* An operation that finds nothing to do still leaves the tables pruned.
Prune ==
    /\ PrunedAt(now)
    /\ UNCHANGED <<now, qrVars, approval, asks, deviceVars, revokeVars, honoured, late,
                   saveVars, first, crossed, abandoned, unsaved, forgotten>>

\* A new QR is asked for.  Nothing is installed until the broker has signed it.
PreparePairingTicket(ttl) ==
    LET id   == started + 1
        kept == {i \in recent : tickets[i].at > now - StartWindow}
    IN  /\ id \in Ids
        /\ Cardinality(kept) < StartsPerWindow
        /\ PrunedAt(now)
        /\ recent' = kept \cup {id}
        /\ tickets' = [tickets EXCEPT ![id] = [at |-> now, expires |-> now + ttl]]
        /\ started' = id
        /\ signing' = signing \cup {id}
        /\ UNCHANGED <<now, approval, asks, deviceVars, revokeVars, honoured, late, saveVars,
                       first, crossed, abandoned, unsaved, forgotten>>

\* Variant: a signature that comes late still installs its QR.
IsAnyStart(id) == id <= started

IsNewestStart(id) == id = started

\* The signed QR becomes the only live one.  Phones waiting on the ones it replaces are
\* told so.  The decision guard keeps it out while an approval is under way.
InstallPairingTicket(id) ==
    /\ approval = {}
    /\ IsNewestStart(id)
    /\ tickets[id].expires > now
    /\ pending' = {id}
    /\ retired' = retired \cup pending
    /\ completed' = completed \cup
           {[id |-> w.id, key |-> w.key, outcome |-> "replaced"] : w \in waiting}
    /\ waiting' = {}
    /\ UNCHANGED claimed

\* The broker's signature arrives, or the start fails: no signature, a newer start since,
\* expired on the way.
StartSettles(id) ==
    /\ id \in signing
    /\ signing' = signing \ {id}
    /\ \/ InstallPairingTicket(id)
       \/ UNCHANGED tableVars
    /\ UNCHANGED <<now, tickets, started, recent, approval, asks, deviceVars, revokeVars,
                   honoured, late, saveVars, first, crossed, abandoned, unsaved, forgotten>>

(***************************************************************************)
(* A phone's pairing request.  The handler takes the relay's lock anew for *)
(* each question it asks, so the answers need not agree.                   *)
(***************************************************************************)

\* The request can be read: its QR's secret is still on file.
PhoneAsks(id, k) ==
    /\ Cardinality(asks) < MaxAsks
    /\ PrunedAt(now)
    /\ id \in PendingAt(now) \cup RetiredAt(now) \cup {c.id : c \in CompletedAt(now)}
    /\ asks' = asks \cup {[id |-> id, key |-> k, step |-> "retired?"]}
    /\ UNCHANGED <<now, qrVars, approval, deviceVars, revokeVars, honoured, late, saveVars,
                   first, crossed, abandoned, unsaved, forgotten>>

Goes(a, step) == asks' = (asks \ {a}) \cup {[a EXCEPT !.step = step]}
Ends(a)       == asks' = asks \ {a}

\* A replaced QR is answered as such.
AskWhetherRetired(a) ==
    /\ a.step = "retired?"
    /\ PrunedAt(now)
    /\ IF a.id \in RetiredAt(now) THEN Ends(a) ELSE Goes(a, "decided?")
    /\ UNCHANGED first

\* A decided QR is answered with the decision, to the phone it was about only.
AskWhetherDecided(a) ==
    /\ a.step = "decided?"
    /\ PrunedAt(now)
    /\ IF \E c \in CompletedAt(now) : c.id = a.id
       THEN IF \E c \in CompletedAt(now) : c.id = a.id /\ c.key = a.key
            THEN Ends(a)
            ELSE Goes(a, "refuse")
       ELSE Goes(a, "register")
    /\ UNCHANGED first

\* Variant: a QR whose request an approval has taken looks free.
MayRegisterWhileClaimed(a) ==
    /\ a.id \in PendingAt(now)
    /\ \A w \in WaitingAt(now) : w.id = a.id => w.key = a.key

MayRegister(a) ==
    /\ a.id \in PendingAt(now)
    /\ a.id \notin ClaimedAt(now)
    /\ \A w \in WaitingAt(now) : w.id = a.id => w.key = a.key

\* The phone waits for the operator, or finds that another one has the QR.
RegisterPairingRequest(a) ==
    /\ a.step = "register"
    /\ pending' = PendingAt(now) /\ retired' = RetiredAt(now)
    /\ claimed' = ClaimedAt(now) /\ completed' = CompletedAt(now)
    /\ IF MayRegister(a)
       THEN /\ Ends(a)
            /\ waiting' = Others(WaitingAt(now), a.id) \cup {[id |-> a.id, key |-> a.key]}
            /\ first' = IF \E f \in first : f.id = a.id
                        THEN first
                        ELSE first \cup {[id |-> a.id, key |-> a.key]}
       ELSE /\ Goes(a, "refuse")
            /\ waiting' = WaitingAt(now)
            /\ UNCHANGED first

\* A refused phone is told that another one has the QR, if that is why.
Refuse(a) ==
    /\ a.step = "refuse"
    /\ Ends(a)
    /\ UNCHANGED <<tableVars, first>>

HandlePairingRequest(a) ==
    /\ \/ AskWhetherRetired(a)
       \/ AskWhetherDecided(a)
       \/ RegisterPairingRequest(a)
       \/ Refuse(a)
    /\ UNCHANGED <<now, qrVars, approval, deviceVars, revokeVars, honoured, late, saveVars,
                   crossed, abandoned, unsaved, forgotten>>

(***************************************************************************)
(* The operator's decision                                                 *)
(***************************************************************************)

UnderApproval(k) == \E a \in approval : a.key = k

\* Revocations that may still reach the broker and would hit k there.
CanStillHit(k) == \E c \in calls : ~c.applied /\ k \in c.hits

\* What the broker may still carry out of calls and approvals that nobody waits for any more.
MayBeLate == Cardinality(late) + Cardinality({c \in calls : c.devices = {}}) < MaxLate
LateRevokes(C) ==
    {[c EXCEPT !.devices = {}] : c \in {d \in C : MayBeLate /\ ~d.applied}}
LateGrants(A) ==
    {a.key : a \in {b \in A : MayBeLate /\ b.stage = "claimed"}}
LateRollBacks(A) ==
    {[n |-> callCount, devices |-> {}, hits |-> {a.key}, applied |-> FALSE] :
        a \in {b \in A : MayBeLate /\ b.stage = "undo" /\ b.key \notin paired}}

\* Taking the request away before any broker call keeps a second approval off it.
ClaimPairingRequest(w) ==
    /\ approval = {}
    /\ w \in WaitingAt(now)
    /\ pending' = PendingAt(now) /\ retired' = RetiredAt(now)
    /\ completed' = CompletedAt(now)
    /\ waiting' = Others(WaitingAt(now), w.id)
    /\ claimed' = ClaimedAt(now) \cup {w.id}
    /\ approval' = {[id |-> w.id, key |-> w.key, at |-> now, stage |-> "claimed"]}
    /\ UNCHANGED <<now, qrVars, asks, deviceVars, revokeVars, honoured, late, saveVars,
                   first, crossed, abandoned, unsaved, forgotten>>

\* At the broker: a grant for the device, replacing the one it may have.
IssueDeviceGrant(a) ==
    /\ a.stage = "claimed"
    /\ honoured' = honoured \cup {a.key}
    /\ approval' = {[a EXCEPT !.stage = "issued"]}
    /\ crossed' = IF CanStillHit(a.key) THEN crossed \cup {a.key} ELSE crossed \ {a.key}
    /\ unsaved' = unsaved \cup {a.key}
    /\ forgotten' = forgotten \ {a.key}
    /\ UNCHANGED <<tableVars, paired, records, owed>>

\* The claim is given back, unless the QR has gone in the meantime.
RestorePairingRequest(a) ==
    /\ claimed' = claimed \ {a.id}
    /\ waiting' = IF a.id \in pending
                  THEN Others(waiting, a.id) \cup {[id |-> a.id, key |-> a.key]}
                  ELSE waiting
    /\ UNCHANGED <<pending, retired, completed>>

\* Variant: the failed approval keeps its claim.
CredentialFailsKeepingClaim(a) ==
    /\ a.stage \in {"claimed", "issued"}
    /\ approval' = {}
    /\ UNCHANGED <<tableVars, honoured, late, crossed, abandoned, calls, unsaved, forgotten,
                   paired, records, owed>>

\* The key of an approval that ends here, if the broker has given it a grant.
Granted(a) == IF a.stage = "claimed" THEN {} ELSE {a.key}

\* No credential came back from the broker, which may have issued one, or be about to.
CredentialFails(a) ==
    /\ a.stage \in {"claimed", "issued"}
    /\ RestorePairingRequest(a)
    /\ approval' = {}
    /\ forgotten' = forgotten \cup Granted(a)
    /\ late' = late \cup LateGrants({a})
    /\ UNCHANGED <<honoured, crossed, abandoned, calls, unsaved, paired, records, owed>>

\* The second broker call, for the client's grant, fails.
ClientGrantFails(a) ==
    /\ a.stage = "issued"
    /\ approval' = {[a EXCEPT !.stage = "undo"]}
    /\ UNCHANGED <<tableVars, honoured, crossed, unsaved, forgotten, paired, records, owed>>

\* Both calls came back.  The claim is restored and decided under one lock, with the time
\* at which the approval began; it fails if the QR has been pruned since.
DecideApproved(a) ==
    /\ a.stage = "issued"
    /\ claimed' = ClaimedAt(a.at) \ {a.id}
    /\ retired' = RetiredAt(a.at)
    /\ waiting' = Others(WaitingAt(a.at), a.id)
    /\ pending' = PendingAt(a.at) \ {a.id}
    /\ IF a.id \in PendingAt(a.at)
       THEN /\ paired' = paired \cup {a.key}
            /\ records' = [records EXCEPT ![a.key] = "approved"]
            /\ owed' = owed \ {a.key}
            /\ completed' = CompletedAt(a.at) \cup
                   {[id |-> a.id, key |-> a.key, outcome |-> "approved"]}
            /\ approval' = {}
       ELSE /\ approval' = {[a EXCEPT !.stage = "undo"]}
            /\ completed' = CompletedAt(a.at)
            /\ UNCHANGED <<paired, records, owed>>
    /\ UNCHANGED <<honoured, crossed, unsaved, forgotten>>

\* Variant: the grant is taken back by device id, whoever uses it.
RollBackAnyCredential(a) ==
    /\ a.stage = "undo"
    /\ honoured' = honoured \ {a.key}
    /\ RestorePairingRequest(a)
    /\ approval' = {}
    /\ UNCHANGED <<crossed, abandoned, late, calls, unsaved, forgotten, paired, records, owed>>

\* The grant of a failed approval is taken back, unless the device is paired and using it.
\* Whether that worked is not looked at.
RollBackPairingCredential(a) ==
    /\ a.stage = "undo"
    /\ \/ /\ honoured' = IF a.key \in paired THEN honoured ELSE honoured \ {a.key}
          /\ UNCHANGED <<forgotten, calls>>
       \/ /\ a.key \notin paired
          /\ forgotten' = forgotten \cup {a.key}
          /\ calls' = calls \cup LateRollBacks({a})
          /\ UNCHANGED honoured
    /\ RestorePairingRequest(a)
    /\ approval' = {}
    /\ UNCHANGED <<crossed, abandoned, late, unsaved, paired, records, owed>>

\* The operator's browser goes away and the handler is dropped where it waits: its claim
\* stays, and what it asked of the broker may come to pass.
ApprovalDropped(a) ==
    /\ CallersCanHangUp
    /\ approval' = {}
    /\ forgotten' = forgotten \cup Granted(a)
    /\ abandoned' = abandoned \cup {a.id}
    /\ late' = late \cup LateGrants({a})
    /\ calls' = calls \cup LateRollBacks({a})
    /\ UNCHANGED <<tableVars, honoured, crossed, unsaved, paired, records, owed>>

ContinueApproval(a) ==
    /\ \/ /\ IssueDeviceGrant(a) \/ ClientGrantFails(a) \/ DecideApproved(a)
          /\ UNCHANGED <<late, calls, abandoned>>
       \/ CredentialFails(a)
       \/ RollBackPairingCredential(a)
       \/ ApprovalDropped(a)
    /\ UNCHANGED <<now, qrVars, asks, inFlight, callCount, unsettled, saveVars, first>>

\* The broker gives a grant that nobody waits for any more.
LateGrant(k) ==
    /\ k \in late
    /\ late' = late \ {k}
    /\ honoured' = honoured \cup {k}
    /\ forgotten' = forgotten \cup {k}
    /\ UNCHANGED <<now, qrVars, tableVars, approval, asks, deviceVars, revokeVars, saveVars,
                   first, crossed, abandoned, unsaved>>

\* A rejected re-pair changes nothing about the device it named.
RecordRejected(k) ==
    records' = IF records[k] = "revoked" \/ k \in paired
               THEN records
               ELSE [records EXCEPT ![k] = "rejected"]

DecideRejected(w) ==
    /\ approval = {}
    /\ w \in WaitingAt(now)
    /\ pending' = PendingAt(now) \ {w.id}
    /\ retired' = RetiredAt(now)
    /\ claimed' = ClaimedAt(now)
    /\ waiting' = Others(WaitingAt(now), w.id)
    /\ completed' = CompletedAt(now) \cup
           {[id |-> w.id, key |-> w.key, outcome |-> "rejected"]}
    /\ RecordRejected(w.key)
    /\ UNCHANGED <<now, qrVars, approval, asks, paired, owed, revokeVars, honoured, late,
                   saveVars, first, crossed, abandoned, unsaved, forgotten>>

(***************************************************************************)
(* Revocation                                                              *)
(***************************************************************************)

\* The devices go at once on this computer; the broker is told afterwards, without a lock.
Revoked(ks, targets, hits) ==
    /\ callCount < MaxCalls
    /\ callCount' = callCount + 1
    /\ paired' = paired \ ks
    /\ records' = [k \in Keys |-> IF k \in ks THEN "revoked" ELSE records[k]]
    /\ inFlight' = inFlight \cup targets
    /\ unsettled' = unsettled \cup {k \in targets : \E c \in calls : k \in c.devices}
    /\ calls' = calls \cup
           {[n |-> callCount, devices |-> targets, hits |-> hits, applied |-> FALSE]}
    /\ crossed' = crossed \cup {k \in hits : \E a \in approval : a.key = k /\ a.stage # "claimed"}
    /\ UNCHANGED <<now, qrVars, tableVars, approval, asks, owed, honoured, late, saveVars, first,
                   abandoned, unsaved, forgotten>>

\* Revoking again is how a revocation the broker did not carry out is retried.
RevokeDevice(k) ==
    /\ k \in paired \/ (records[k] # "none" /\ k \in owed)
    /\ Revoked({k} \cap paired, {k}, {k})

RevokeOtherDevices(keep) ==
    /\ keep \in paired
    /\ paired \ {keep} # {}
    /\ Revoked(paired \ {keep}, paired \ {keep}, Keys \ {keep})

\* At the broker: the grants are removed.
BrokerRevokes(c) ==
    /\ ~c.applied
    /\ honoured' = honoured \ c.hits
    /\ calls' = (calls \ {c}) \cup
           (IF c.devices = {} THEN {} ELSE {[c EXCEPT !.applied = TRUE]})
    /\ UNCHANGED <<inFlight, owed, unsettled>>

\* Once nobody waits for it, a revocation the broker has not carried out is still on its way.
StopsWaiting(c) ==
    /\ c.devices # {}
    /\ calls' = (calls \ {c}) \cup LateRevokes({c})

\* The broker's answer, or the lack of one, decides whether a retry stays on offer.
SettleBrokerRevoke(c) ==
    /\ StopsWaiting(c)
    /\ inFlight' = inFlight \ c.devices
    /\ \/ c.applied /\ owed' = owed \ c.devices
       \/ owed' = owed \cup {k \in c.devices : records[k] # "none"}
    /\ UNCHANGED <<honoured, unsettled>>

\* The caller goes away and nothing settles the revocation.
RevokeDropped(c) ==
    /\ CallersCanHangUp
    /\ StopsWaiting(c)
    /\ unsettled' = unsettled \cup c.devices
    /\ UNCHANGED <<inFlight, owed, honoured>>

ContinueRevoke(c) ==
    /\ \/ BrokerRevokes(c)
       \/ SettleBrokerRevoke(c)
       \/ RevokeDropped(c)
    /\ UNCHANGED <<now, qrVars, tableVars, approval, asks, paired, records, callCount,
                   late, saveVars, first, crossed, abandoned, unsaved, forgotten>>

\* Revoked and rejected devices are forgotten, but not one whose revocation is unfinished.
ClearDeviceHistory ==
    /\ records' = [k \in Keys |->
           IF records[k] \in {"revoked", "rejected"} /\ k \notin owed /\ k \notin inFlight
           THEN "none" ELSE records[k]]
    /\ UNCHANGED <<now, qrVars, tableVars, approval, asks, paired, owed, revokeVars,
                   honoured, late, saveVars, first, crossed, abandoned, unsaved, forgotten>>

\* A paired device is heard from, which brings its record up to date.
MarkPairedDeviceSeen(k) ==
    /\ k \in paired
    /\ records' = [records EXCEPT ![k] = "approved"]
    /\ owed' = owed \ {k}
    /\ UNCHANGED <<now, qrVars, tableVars, approval, asks, paired, revokeVars, honoured, late,
                   saveVars, first, crossed, abandoned, unsaved, forgotten>>

(***************************************************************************)
(* Saving and restarting                                                   *)
(***************************************************************************)

\* Variant: only what the records say is saved.
SavedOwedAsShown == owed

\* A revocation still waiting for its answer is saved as one to retry.
SavedOwed == owed \cup {k \in inFlight : records[k] # "none"}

Save ==
    /\ disk' = [paired |-> paired, records |-> records, owed |-> SavedOwed]
    /\ unsaved' = {a.key : a \in {b \in approval : b.stage # "claimed"}}
    /\ UNCHANGED <<now, qrVars, tableVars, approval, asks, deviceVars, revokeVars, honoured, late,
                   restarts, forgotten, first, crossed, abandoned>>

\* The process ends, with every handler in it, and another reads what was saved.  The
\* broker goes on.
Restart ==
    /\ restarts < MaxRestarts
    /\ restarts' = restarts + 1
    /\ paired' = disk.paired
    /\ owed' = disk.owed
    /\ records' = [k \in Keys |->
           IF disk.records[k] = "none" /\ k \in disk.paired THEN "approved" ELSE disk.records[k]]
    /\ pending' = {} /\ retired' = {} /\ waiting' = {} /\ claimed' = {} /\ completed' = {}
    /\ signing' = {} /\ recent' = {}
    /\ approval' = {} /\ asks' = {} /\ inFlight' = {}
    /\ late' = late \cup LateGrants(approval)
    /\ calls' = LateRevokes(calls) \cup LateRollBacks(approval)
    /\ first' = {} /\ abandoned' = {}
    /\ crossed' = crossed \cup (disk.paired \ paired)
    /\ forgotten' = forgotten \cup unsaved
    /\ unsaved' = {}
    /\ UNCHANGED <<now, tickets, started, callCount, unsettled, honoured, disk>>

Tick ==
    /\ now < MaxTime
    /\ now' = now + 1
    /\ UNCHANGED <<qrVars, tableVars, approval, asks, deviceVars, revokeVars, honoured, late,
                   saveVars, first, crossed, abandoned, unsaved, forgotten>>

(***************************************************************************)
(* The specification                                                       *)
(***************************************************************************)

Init ==
    /\ now = 0
    /\ tickets = [i \in Ids |-> [at |-> 0, expires |-> 0]]
    /\ started = 0 /\ recent = {} /\ signing = {}
    /\ pending = {} /\ retired = {} /\ waiting = {} /\ claimed = {} /\ completed = {}
    /\ approval = {} /\ asks = {}
    /\ paired = {} /\ records = [k \in Keys |-> "none"] /\ owed = {}
    /\ inFlight = {} /\ calls = {} /\ callCount = 0
    /\ honoured = {} /\ late = {}
    /\ disk = [paired |-> {}, records |-> [k \in Keys |-> "none"], owed |-> {}]
    /\ restarts = 0
    /\ first = {} /\ abandoned = {} /\ crossed = {} /\ unsettled = {}
    /\ unsaved = {} /\ forgotten = {}

Next ==
    \/ Prune
    \/ \E ttl \in Ttls : PreparePairingTicket(ttl)
    \/ \E id \in Ids : StartSettles(id)
    \/ \E id \in Ids, k \in Keys : PhoneAsks(id, k)
    \/ \E a \in asks : HandlePairingRequest(a)
    \/ \E w \in waiting : ClaimPairingRequest(w) \/ DecideRejected(w)
    \/ \E a \in approval : ContinueApproval(a)
    \/ \E k \in late : LateGrant(k)
    \/ \E k \in Keys : RevokeDevice(k) \/ RevokeOtherDevices(k) \/ MarkPairedDeviceSeen(k)
    \/ \E c \in calls : ContinueRevoke(c)
    \/ ClearDeviceHistory
    \/ Save
    \/ Restart
    \/ Tick

Spec == Init /\ [][Next]_vars

(***************************************************************************)
(* Properties                                                              *)
(***************************************************************************)

States == {"none", "approved", "revoked", "rejected"}

Request   == [id : Ids, key : Keys]
Completed == [id : Ids, key : Keys, outcome : Outcomes]
Approval  == [id : Ids, key : Keys, at : Nat, stage : {"claimed", "issued", "undo"}]
Ask       == [id : Ids, key : Keys, step : {"retired?", "decided?", "register", "refuse"}]
Call      == [n : Nat, devices : SUBSET Keys, hits : SUBSET Keys, applied : BOOLEAN]

TablesOK ==
    /\ tickets \in [Ids -> [at : Nat, expires : Nat]]
    /\ started \in 0..MaxStarts
    /\ recent \subseteq Ids /\ signing \subseteq Ids
    /\ pending \subseteq Ids /\ retired \subseteq Ids /\ claimed \subseteq Ids
    /\ waiting \subseteq Request /\ first \subseteq Request
    /\ completed \subseteq Completed
    /\ abandoned \subseteq Ids
    /\ asks \subseteq Ask

DevicesOK ==
    /\ paired \subseteq Keys /\ owed \subseteq Keys /\ inFlight \subseteq Keys
    /\ honoured \subseteq Keys /\ late \subseteq Keys
    /\ records \in [Keys -> States]
    /\ disk \in [paired : SUBSET Keys, records : [Keys -> States], owed : SUBSET Keys]
    /\ calls \subseteq Call
    /\ callCount \in Nat
    /\ crossed \subseteq Keys /\ unsettled \subseteq Keys
    /\ unsaved \subseteq Keys /\ forgotten \subseteq Keys

\* The type invariant, with what the tables promise each other: only a QR that is on offer
\* has a phone waiting on it, and there is one decision at a time.
TypeOK ==
    /\ now \in Nat /\ restarts \in Nat
    /\ TablesOK
    /\ DevicesOK
    /\ approval \subseteq Approval
    /\ \A a, b \in approval : a = b
    /\ \A w \in waiting : w.id \in pending

\* Whoever is decided about on a QR is the first phone that registered on it: a phone that
\* comes later, at whatever moment of the approval, never inherits it (the key check and
\* the claim check of register_pairing_request, device.rs:581-600).
FirstKeyKeepsQr ==
    \A f \in first :
        /\ \A w \in waiting   : w.id = f.id => w.key = f.key
        /\ \A a \in approval  : a.id = f.id => a.key = f.key
        /\ \A c \in completed : c.id = f.id => c.key = f.key

\* A QR on offer is newer than every one it replaced: a slow signature never brings an
\* older QR back (install_pairing_ticket, device.rs:362-364).
NewestQrIsOffered == \A p \in pending, r \in retired : r < p

\* A QR whose approval was dropped: nobody can be approved on it, and nobody else can take
\* it, until it expires or is replaced, which its phone is told.
StaysClaimed(id) == id \in abandoned /\ (id \in claimed \cap pending \/ id \in retired)

\* A phone that registered on a QR that has not expired is waiting, being decided or
\* answered, through failed broker calls and replaced QRs.  Only an operator who hangs up
\* in the middle of an approval leaves its phone undecided, and even then the QR stays the
\* phone's own: no other phone registers on it, and a replacement tells it so
\* (claim, restore and decide, device.rs:627-774; the handler's drop, main.rs:2546-2557).
NobodyIsForgotten ==
    \A f \in first :
        tickets[f.id].expires > now =>
            \/ f \in waiting
            \/ \E a \in approval  : a.id = f.id
            \/ \E c \in completed : c.id = f.id
            \/ StaysClaimed(f.id)

\* A paired device has a grant at the broker, unless a revocation could still hit it when
\* the grant was given: an approval that fails never takes back the grant of a device that
\* is still paired (roll_back_pairing_credential, pairing.rs:232-245).
PairedKeepsGrant == paired \subseteq honoured \cup crossed

\* The relay can still act on the grant of k: the device is paired, is being approved, has a
\* revocation on its way, or is listed with a retry.
Accounted(k) ==
    \/ k \in paired
    \/ UnderApproval(k)
    \/ k \in owed /\ records[k] # "none"
    \/ \E c \in calls : k \in c.devices

\* A revocation the broker has not carried out can be asked for again
\* (settle_broker_revoke, pairing.rs:109-121).
RevocationCanBeRetried ==
    \A k \in honoured \ forgotten : records[k] = "revoked" => Accounted(k)

\* A grant the relay was told of, and had the time to save, stays in its sight through failed
\* and unanswered revocations, restarts and cleared histories; left out are devices revoked
\* twice at once, or by a caller who hung up (settle_broker_revoke, clear_device_history, and
\* the saving of revocations in flight, persistence.rs:310-322).
SettledGrantsAreAccountedFor ==
    \A k \in honoured \ (unsettled \cup forgotten) : Accounted(k)

(***************************************************************************)
(* Inductive invariants                                                    *)
(***************************************************************************)

\* A pairing id is signed for before it is offered, and never comes back.
IdsAreFresh ==
    /\ \A i \in signing : i <= started
    /\ \A i \in pending \cup retired : i <= started /\ i \notin signing
    /\ \A f \in first : f.id <= started /\ f.id \notin signing

\* Every request in the tables goes back to the first one registered on its QR.
RequestsAreFirst ==
    /\ \A f, g \in first : f.id = g.id => f.key = g.key
    /\ \A w \in waiting : \E f \in first : f.id = w.id /\ f.key = w.key
    /\ \A a \in approval : \E f \in first : f.id = a.id /\ f.key = a.key
    /\ \A c \in completed : \E f \in first : f.id = c.id /\ f.key = c.key

\* On a QR on offer the first request waits or is claimed, so no other can register.
FirstHoldsQr ==
    \A f \in first : f.id \in pending =>
        f.id \in claimed \/ \E w \in waiting : w.id = f.id /\ w.key = f.key

\* The QRs are sound.
QrInv ==
    /\ IdsAreFresh
    /\ RequestsAreFirst
    /\ FirstHoldsQr
    /\ NewestQrIsOffered

\* A claim whose approval was dropped is nobody's until its QR expires.
AbandonedKeepsQr ==
    \A i \in abandoned :
        /\ \E f \in first : f.id = i
        /\ tickets[i].expires > now =>
             /\ StaysClaimed(i)
             /\ \A w \in waiting : w.id # i
             /\ \A a \in approval : a.id # i

\* An approval works on a QR that is on offer, and on which nobody else waits, until the QR
\* expires.
ApprovalHoldsQr ==
    \A a \in approval :
        /\ a.at <= now
        /\ tickets[a.id].expires > now =>
             /\ a.id \in pending \cap claimed
             /\ \A w \in waiting : w.id # a.id

\* The grant an approval was given is there, or a revocation may have hit it.
IssuedIsGranted ==
    \A a \in approval : a.stage = "issued" => a.key \in honoured \cup crossed

\* A revocation that may still reach the broker spares who is paired, or has been noted.
RevokesSparePaired ==
    \A c \in calls : \A k \in c.hits : ~c.applied =>
        /\ k \in paired => k \in crossed
        /\ \A a \in approval : a.key = k /\ a.stage # "claimed" => k \in crossed

\* Grants are sound.
GrantInv ==
    /\ IssuedIsGranted
    /\ RevokesSparePaired
    /\ PairedKeepsGrant

=============================================================================
