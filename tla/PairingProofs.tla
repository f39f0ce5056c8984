--------------------------- MODULE PairingProofs ---------------------------
(***************************************************************************)
(* Proofs about Pairing, for any phones, lifetimes and bounds.             *)
(***************************************************************************)
EXTENDS Pairing, TLAPS

\* What every disjunct of Next is, one action per case, with the sets they choose from.
\* States no property of the code: it only names the cases of a step.
LEMMA PairingSteps ==
    ASSUME [Next]_vars
    PROVE  \/ UNCHANGED vars
           \/ Prune
           \/ \E ttl \in Ttls : PreparePairingTicket(ttl)
           \/ \E id \in Ids : StartSettles(id)
           \/ \E id \in Ids, k \in Keys : PhoneAsks(id, k)
           \/ \E a \in asks : HandlePairingRequest(a)
           \/ \E w \in waiting : ClaimPairingRequest(w)
           \/ \E w \in waiting : DecideRejected(w)
           \/ \E a \in approval : ContinueApproval(a)
           \/ \E k \in late : LateGrant(k)
           \/ \E k \in Keys : RevokeDevice(k)
           \/ \E k \in Keys : RevokeOtherDevices(k)
           \/ \E k \in Keys : MarkPairedDeviceSeen(k)
           \/ \E c \in calls : ContinueRevoke(c)
           \/ ClearDeviceHistory
           \/ Save
           \/ Restart
           \/ Tick
  BY DEF Next

\* Pruning only takes away, and keeps phones waiting on QRs that are on offer.
LEMMA PruningKeepsTypes ==
    ASSUME TypeOK, NEW t \in Nat
    PROVE  /\ PendingAt(t) \subseteq Ids /\ RetiredAt(t) \subseteq Ids
           /\ ClaimedAt(t) \subseteq Ids
           /\ WaitingAt(t) \subseteq Request /\ CompletedAt(t) \subseteq Completed
           /\ \A w \in WaitingAt(t) : w.id \in PendingAt(t)
  BY DEF TypeOK, TablesOK, PendingAt, RetiredAt, ClaimedAt, WaitingAt, CompletedAt, Live

USE DEF qrVars, tableVars, deviceVars, revokeVars, saveVars

\* What the broker may still carry out for nobody is a request like any other.
LEMMA LateTypes ==
    ASSUME TypeOK
    PROVE  /\ \A A \in SUBSET approval : LateGrants(A) \subseteq Keys /\ LateRollBacks(A) \subseteq Call
           /\ \A C \in SUBSET calls : LateRevokes(C) \subseteq Call
<1>1. approval \subseteq Approval /\ callCount \in Nat /\ calls \subseteq Call
  BY DEF TypeOK, DevicesOK
<1>2. ASSUME NEW a \in approval
      PROVE  [n |-> callCount, devices |-> {}, hits |-> {a.key}, applied |-> FALSE] \in Call
  BY <1>1 DEF Approval, Call
<1>3. ASSUME NEW c \in calls PROVE [c EXCEPT !.devices = {}] \in Call
  BY <1>1 DEF Call
<1> QED BY <1>1, <1>2, <1>3 DEF LateGrants, LateRollBacks, LateRevokes, Approval

LEMMA PairingTypeInit == Init => TypeOK
  BY InstanceAssumption DEF Init, TypeOK, TablesOK, DevicesOK, States

LEMMA PairingTypeStep ==
    ASSUME TypeOK, [Next]_vars
    PROVE  TypeOK'
<1> USE DEF TypeOK
<1>0. CASE UNCHANGED vars
  BY <1>0 DEF vars, TablesOK, DevicesOK
<1>1. CASE Prune
  BY <1>1, PruningKeepsTypes DEF Prune, PrunedAt, TablesOK, DevicesOK
<1>2. ASSUME NEW ttl \in Ttls, PreparePairingTicket(ttl) PROVE TypeOK'
  <2>1. started + 1 \in Ids /\ now + ttl \in Nat /\ now \in Nat
    BY <1>2, LifetimesAssumption DEF PreparePairingTicket
  <2>2. tickets' \in [Ids -> [at : Nat, expires : Nat]]
    BY <1>2, <2>1 DEF PreparePairingTicket, TablesOK
  <2>3. started' \in 0..MaxStarts
    BY <1>2, <2>1, InstanceAssumption DEF PreparePairingTicket, Ids
  <2>4. recent' \subseteq Ids /\ signing' \subseteq Ids
    BY <1>2, <2>1 DEF PreparePairingTicket, TablesOK
  <2>5. TablesOK'
    BY <1>2, <2>2, <2>3, <2>4, PruningKeepsTypes DEF PreparePairingTicket, PrunedAt, TablesOK
  <2> QED BY <1>2, <2>5, PruningKeepsTypes DEF PreparePairingTicket, PrunedAt, DevicesOK
<1>3. ASSUME NEW id \in Ids, StartSettles(id) PROVE TypeOK'
  <2>1. CASE InstallPairingTicket(id)
    <3>1. completed' \subseteq Completed
      BY <2>1 DEF InstallPairingTicket, TablesOK, Request, Completed, Outcomes
    <3> QED BY <1>3, <2>1, <3>1 DEF StartSettles, InstallPairingTicket, TablesOK, DevicesOK
  <2>2. CASE UNCHANGED tableVars
    BY <1>3, <2>2 DEF StartSettles, TablesOK, DevicesOK
  <2> QED BY <1>3, <2>1, <2>2 DEF StartSettles
<1>4. ASSUME NEW id \in Ids, NEW k \in Keys, PhoneAsks(id, k) PROVE TypeOK'
  <2>1. asks' \subseteq Ask
    BY <1>4 DEF PhoneAsks, Ask, TablesOK
  <2> QED BY <1>4, <2>1, PruningKeepsTypes DEF PhoneAsks, PrunedAt, TablesOK, DevicesOK
<1>5. ASSUME NEW a \in asks, HandlePairingRequest(a) PROVE TypeOK'
  <2>0. a \in Ask /\ a.id \in Ids /\ a.key \in Keys
    BY DEF TablesOK, Ask
  <2>1. ASSUME NEW s \in {"decided?", "register", "refuse"}
        PROVE  [a EXCEPT !.step = s] \in Ask
    BY <2>0 DEF Ask
  <2>2. asks' \subseteq Ask
    BY <1>5, <2>1 DEF HandlePairingRequest, AskWhetherRetired, AskWhetherDecided,
       RegisterPairingRequest, Refuse, Goes, Ends, TablesOK
  <2>3. [id |-> a.id, key |-> a.key] \in Request
    BY <2>0 DEF Request
  <2>4. /\ waiting' \subseteq Request
        /\ pending' \subseteq Ids /\ retired' \subseteq Ids /\ claimed' \subseteq Ids
        /\ completed' \subseteq Completed
        /\ \A w \in waiting' : w.id \in pending'
    <3>1. CASE AskWhetherRetired(a) \/ AskWhetherDecided(a)
      BY <3>1, PruningKeepsTypes DEF AskWhetherRetired, AskWhetherDecided, PrunedAt
    <3>2. CASE RegisterPairingRequest(a)
      BY <3>2, <2>3, PruningKeepsTypes DEF RegisterPairingRequest, MayRegister, Others
    <3>3. CASE Refuse(a)
      BY <3>3 DEF Refuse, TablesOK
    <3> QED BY <1>5, <3>1, <3>2, <3>3 DEF HandlePairingRequest
  <2>5. first' \subseteq Request
    BY <1>5, <2>3 DEF HandlePairingRequest, AskWhetherRetired, AskWhetherDecided,
       RegisterPairingRequest, Refuse, TablesOK
  <2> QED BY <1>5, <2>2, <2>4, <2>5 DEF HandlePairingRequest, TablesOK, DevicesOK
<1>6. ASSUME NEW w \in waiting, ClaimPairingRequest(w) PROVE TypeOK'
  <2>1. w.id \in Ids /\ w.key \in Keys
    BY DEF TablesOK, Request
  <2>2. approval' \subseteq Approval /\ \A a, b \in approval' : a = b
    BY <1>6, <2>1 DEF ClaimPairingRequest, Approval
  <2> QED BY <1>6, <2>1, <2>2, PruningKeepsTypes
     DEF ClaimPairingRequest, Others, TablesOK, DevicesOK
<1>7. ASSUME NEW w \in waiting, DecideRejected(w) PROVE TypeOK'
  <2>1. w.id \in Ids /\ w.key \in Keys
    BY DEF TablesOK, Request
  <2>2. completed' \subseteq Completed
    BY <1>7, <2>1, PruningKeepsTypes DEF DecideRejected, Completed, Outcomes
  <2>3. records' \in [Keys -> States]
    BY <1>7, <2>1 DEF DecideRejected, RecordRejected, DevicesOK, States
  <2>4. \A v \in waiting' : v.id \in pending'
    BY <1>7, PruningKeepsTypes DEF DecideRejected, Others
  <2> QED BY <1>7, <2>2, <2>3, <2>4, PruningKeepsTypes
     DEF DecideRejected, Others, TablesOK, DevicesOK
<1>8. ASSUME NEW a \in approval, ContinueApproval(a) PROVE TypeOK'
  <2>0. a \in Approval /\ a.id \in Ids /\ a.key \in Keys /\ a.at \in Nat
    BY DEF Approval
  <2>1. ASSUME NEW s \in {"issued", "undo"} PROVE [a EXCEPT !.stage = s] \in Approval
    BY <2>0 DEF Approval
  <2>2. approval' \subseteq Approval /\ \A b, c \in approval' : b = c
    BY <1>8, <2>1 DEF ContinueApproval, IssueDeviceGrant, CredentialFails, ClientGrantFails,
       DecideApproved, RollBackPairingCredential, ApprovalDropped
  <2>3. [id |-> a.id, key |-> a.key] \in Request
    BY <2>0 DEF Request
  <2>4. [id |-> a.id, key |-> a.key, outcome |-> "approved"] \in Completed
    BY <2>0 DEF Completed, Outcomes
  <2>5. /\ waiting' \subseteq Request
        /\ pending' \subseteq Ids /\ retired' \subseteq Ids /\ claimed' \subseteq Ids
        /\ completed' \subseteq Completed
        /\ \A w \in waiting' : w.id \in pending'
    <3>1. CASE RestorePairingRequest(a)
      BY <3>1, <2>3 DEF RestorePairingRequest, Others, TablesOK
    <3>2. CASE UNCHANGED tableVars
      BY <3>2 DEF TablesOK
    <3>3. CASE DecideApproved(a)
      <4>1. completed' \subseteq Completed
        BY <3>3, <2>0, <2>4, PruningKeepsTypes DEF DecideApproved
      <4>2. /\ waiting' \subseteq Request
            /\ pending' \subseteq Ids /\ retired' \subseteq Ids /\ claimed' \subseteq Ids
        BY <3>3, <2>0, PruningKeepsTypes DEF DecideApproved, Others
      <4>3. \A w \in waiting' : w.id \in pending'
        BY <3>3, <2>0, PruningKeepsTypes DEF DecideApproved, Others
      <4> QED BY <4>1, <4>2, <4>3
    <3> QED BY <1>8, <3>1, <3>2, <3>3 DEF ContinueApproval, IssueDeviceGrant, CredentialFails,
            ClientGrantFails, RollBackPairingCredential, ApprovalDropped
  <2>6. /\ paired' \subseteq Keys /\ owed' \subseteq Keys /\ honoured' \subseteq Keys
        /\ crossed' \subseteq Keys /\ unsaved' \subseteq Keys /\ forgotten' \subseteq Keys
        /\ records' \in [Keys -> States]
    BY <1>8, <2>0 DEF ContinueApproval, IssueDeviceGrant, CredentialFails, ClientGrantFails,
       DecideApproved, RollBackPairingCredential, ApprovalDropped, Granted, DevicesOK, States
  <2>7. /\ calls' \subseteq Call /\ late' \subseteq Keys
        /\ abandoned' \subseteq Ids
    <3>1. LateGrants({a}) \subseteq Keys /\ LateRollBacks({a}) \subseteq Call
      BY LateTypes
    <3> QED BY <1>8, <2>0, <3>1 DEF ContinueApproval, CredentialFails, RollBackPairingCredential,
            ApprovalDropped, TablesOK, DevicesOK
  <2> QED BY <1>8, <2>2, <2>5, <2>6, <2>7 DEF ContinueApproval, TablesOK, DevicesOK
<1>9. ASSUME NEW ks \in SUBSET Keys, NEW targets \in SUBSET Keys, NEW hits \in SUBSET Keys,
             Revoked(ks, targets, hits)
      PROVE  TypeOK'
  <2>0. callCount \in Nat /\ callCount' \in Nat
    BY <1>9 DEF Revoked, DevicesOK
  <2>1. calls' \subseteq Call
    <3>1. [n |-> callCount, devices |-> targets, hits |-> hits, applied |-> FALSE] \in Call
      BY <2>0 DEF Call
    <3> QED BY <1>9, <3>1 DEF Revoked, DevicesOK
  <2>2. records' \in [Keys -> States]
    BY <1>9 DEF Revoked, DevicesOK, States
  <2>3. unsettled' \subseteq Keys /\ crossed' \subseteq Keys /\ inFlight' \subseteq Keys
    BY <1>9 DEF Revoked, DevicesOK
  <2> QED BY <1>9, <2>0, <2>1, <2>2, <2>3 DEF Revoked, TablesOK, DevicesOK
<1>10. ASSUME NEW k \in Keys, RevokeDevice(k) PROVE TypeOK'
  BY <1>9, <1>10 DEF RevokeDevice
<1>11. ASSUME NEW k \in Keys, RevokeOtherDevices(k) PROVE TypeOK'
  <2>1. paired \ {k} \in SUBSET Keys /\ Keys \ {k} \in SUBSET Keys
    BY DEF DevicesOK
  <2> QED BY <1>9, <1>11, <2>1 DEF RevokeOtherDevices
<1>12. ASSUME NEW k \in Keys, MarkPairedDeviceSeen(k) PROVE TypeOK'
  BY <1>12 DEF MarkPairedDeviceSeen, TablesOK, DevicesOK, States
<1>13. ASSUME NEW c \in calls, ContinueRevoke(c) PROVE TypeOK'
  <2>1. c \in Call /\ [c EXCEPT !.applied = TRUE] \in Call /\ c.devices \subseteq Keys
    BY DEF DevicesOK, Call
  <2>2. /\ calls' \subseteq Call /\ inFlight' \subseteq Keys
        /\ owed' \subseteq Keys /\ honoured' \subseteq Keys /\ unsettled' \subseteq Keys
    <3>1. LateRevokes({c}) \subseteq Call
      BY LateTypes
    <3> QED BY <1>13, <2>1, <3>1
       DEF ContinueRevoke, BrokerRevokes, StopsWaiting, SettleBrokerRevoke, RevokeDropped, DevicesOK
  <2> QED BY <1>13, <2>2 DEF ContinueRevoke, TablesOK, DevicesOK
<1>14. CASE ClearDeviceHistory
  BY <1>14 DEF ClearDeviceHistory, TablesOK, DevicesOK, States
<1>15. CASE Save
  <2>1. disk' \in [paired : SUBSET Keys, records : [Keys -> States], owed : SUBSET Keys]
    BY <1>15 DEF Save, SavedOwed, DevicesOK
  <2>2. unsaved' \subseteq Keys
    BY <1>15 DEF Save, Approval
  <2> QED BY <1>15, <2>1, <2>2 DEF Save, TablesOK, DevicesOK
<1>16. CASE Restart
  <2>1. records' \in [Keys -> States]
    BY <1>16 DEF Restart, DevicesOK, States
  <2>2. paired' \subseteq Keys /\ owed' \subseteq Keys /\ crossed' \subseteq Keys
    BY <1>16 DEF Restart, DevicesOK
  <2>3. late' \subseteq Keys /\ calls' \subseteq Call
    <3>1. LateRevokes(calls) \subseteq Call /\ LateGrants(approval) \subseteq Keys /\ LateRollBacks(approval) \subseteq Call
      BY LateTypes
    <3> QED BY <1>16, <3>1 DEF Restart, DevicesOK
  <2> QED BY <1>16, <2>1, <2>2, <2>3 DEF Restart, TablesOK, DevicesOK
<1>17. CASE Tick
  BY <1>17 DEF Tick, TablesOK, DevicesOK
<1>18. ASSUME NEW k \in late, LateGrant(k) PROVE TypeOK'
  BY <1>18 DEF LateGrant, TablesOK, DevicesOK
<1> QED
  BY <1>0, <1>1, <1>2, <1>3, <1>4, <1>5, <1>6, <1>7, <1>8, <1>10, <1>11, <1>12, <1>13,
     <1>14, <1>15, <1>16, <1>17, <1>18, PairingSteps

\* The tables of QRs, requests and devices keep their shape through every step, and a phone
\* only ever waits on a QR that is on offer.
THEOREM PairingTypeCorrect == Spec => []TypeOK
  BY PairingTypeInit, PairingTypeStep, PTL DEF Spec

(***************************************************************************)
(* The QRs                                                                 *)
(***************************************************************************)

\* The variables the QRs depend on.
QrState == <<signing, started, tableVars, first, approval>>

\* Steps that leave the QRs, the requests and the approval alone.
LEMMA QrFrame ==
    ASSUME QrInv, UNCHANGED QrState
    PROVE  QrInv'
  BY DEF QrState, QrInv, IdsAreFresh, RequestsAreFirst, FirstHoldsQr, NewestQrIsOffered

\* Dropping what has expired keeps the QRs sound: request, claim and QR go together.
LEMMA QrPruned ==
    ASSUME QrInv, TypeOK, NEW t \in Nat, PrunedAt(t),
           UNCHANGED <<signing, started, first, approval>>
    PROVE  QrInv'
<1> USE DEF PrunedAt
<1>1. IdsAreFresh'
  BY DEF QrInv, IdsAreFresh, PendingAt, RetiredAt, Live
<1>2. RequestsAreFirst'
  BY DEF QrInv, RequestsAreFirst, WaitingAt, CompletedAt
<1>3. FirstHoldsQr'
  BY DEF QrInv, FirstHoldsQr, PendingAt, ClaimedAt, WaitingAt, Live
<1>4. NewestQrIsOffered'
  BY DEF QrInv, NewestQrIsOffered, PendingAt, RetiredAt, Live
<1> QED BY <1>1, <1>2, <1>3, <1>4 DEF QrInv

\* A new start takes an id above every other.
LEMMA QrPrepare ==
    ASSUME QrInv, TypeOK, NEW ttl \in Ttls, PreparePairingTicket(ttl)
    PROVE  QrInv'
<1> USE DEF PreparePairingTicket, PrunedAt
<1>0. started \in Nat /\ started' = started + 1 /\ signing' = signing \cup {started + 1}
  BY InstanceAssumption DEF TypeOK, TablesOK
<1>1. IdsAreFresh'
  <2>1. \A i \in signing' : i <= started'
    BY <1>0 DEF QrInv, IdsAreFresh, TypeOK, TablesOK, Ids
  <2>2. \A i \in pending' \cup retired' : i <= started' /\ i \notin signing'
    BY <1>0 DEF QrInv, IdsAreFresh, PendingAt, RetiredAt, Live, TypeOK, TablesOK, Ids
  <2>3. \A f \in first' : f.id <= started' /\ f.id \notin signing'
    BY <1>0 DEF QrInv, IdsAreFresh, TypeOK, TablesOK, Ids, Request
  <2> QED BY <2>1, <2>2, <2>3 DEF IdsAreFresh
<1>2. RequestsAreFirst'
  BY DEF QrInv, RequestsAreFirst, WaitingAt, CompletedAt
<1>3. FirstHoldsQr'
  BY DEF QrInv, FirstHoldsQr, PendingAt, ClaimedAt, WaitingAt, Live
<1>4. NewestQrIsOffered'
  BY DEF QrInv, NewestQrIsOffered, PendingAt, RetiredAt, Live
<1> QED BY <1>1, <1>2, <1>3, <1>4 DEF QrInv

\* A signed QR is newer than all it replaces, and nobody has registered on it yet.
LEMMA QrSettles ==
    ASSUME QrInv, TypeOK, NEW id \in Ids, StartSettles(id)
    PROVE  QrInv'
<1> USE DEF StartSettles
<1>1. CASE UNCHANGED tableVars
  BY <1>1 DEF QrInv, IdsAreFresh, RequestsAreFirst, FirstHoldsQr, NewestQrIsOffered
<1>2. CASE InstallPairingTicket(id)
  <2> USE <1>2 DEF InstallPairingTicket, IsNewestStart
  <2>1. IdsAreFresh'
    BY DEF QrInv, IdsAreFresh, TypeOK, TablesOK, Ids
  <2>2. RequestsAreFirst'
    BY DEF QrInv, RequestsAreFirst
  <2>3. FirstHoldsQr'
    BY DEF QrInv, FirstHoldsQr, IdsAreFresh
  <2>4. NewestQrIsOffered'
    BY DEF QrInv, NewestQrIsOffered, IdsAreFresh, TypeOK, TablesOK, Ids
  <2> QED BY <2>1, <2>2, <2>3, <2>4 DEF QrInv
<1> QED BY <1>1, <1>2

\* A request is registered on a QR nobody holds, or by the phone that holds it.
LEMMA QrRequest ==
    ASSUME QrInv, TypeOK, NEW a \in asks, HandlePairingRequest(a)
    PROVE  QrInv'
<1> USE DEF HandlePairingRequest
<1>0. now \in Nat
  BY DEF TypeOK
<1>1. CASE AskWhetherRetired(a) \/ AskWhetherDecided(a)
  BY <1>0, <1>1, QrPruned DEF AskWhetherRetired, AskWhetherDecided
<1>2. CASE Refuse(a)
  BY <1>2, QrFrame DEF Refuse, QrState
<1>3. CASE RegisterPairingRequest(a)
  <2> USE <1>3 DEF RegisterPairingRequest
  <2>1. CASE ~MayRegister(a)
    BY <1>0, <2>1, QrPruned DEF PrunedAt
  <2>2. CASE MayRegister(a)
    <3>0. a.id \in Ids /\ a.key \in Keys
      BY DEF TypeOK, TablesOK, Ask
    <3>1. \A f \in first : f.id = a.id => f.key = a.key
      BY <2>2 DEF MayRegister, PendingAt, ClaimedAt, WaitingAt, Live, QrInv, FirstHoldsQr
    <3>2. a.id \in pending
      BY <2>2 DEF MayRegister, PendingAt, Live
    <3>3. \E f \in first' : f.id = a.id /\ f.key = a.key
      BY <2>2, <3>1
    <3>4. first \subseteq first' /\ \A f \in first' \ first : f.id = a.id /\ f.key = a.key
      BY <2>2
    <3>5. IdsAreFresh'
      BY <3>2, <3>4 DEF QrInv, IdsAreFresh, PendingAt, RetiredAt, Live
    <3>6. RequestsAreFirst'
      <4>1. \A f, g \in first' : f.id = g.id => f.key = g.key
        BY <3>1, <3>4 DEF QrInv, RequestsAreFirst
      <4>2. \A w \in waiting' : \E f \in first' : f.id = w.id /\ f.key = w.key
        BY <2>2, <3>3, <3>4 DEF QrInv, RequestsAreFirst, WaitingAt, Others
      <4>3. \A b \in approval' : \E f \in first' : f.id = b.id /\ f.key = b.key
        BY <3>4 DEF QrInv, RequestsAreFirst
      <4>4. \A c \in completed' : \E f \in first' : f.id = c.id /\ f.key = c.key
        BY <3>4 DEF QrInv, RequestsAreFirst, CompletedAt
      <4> QED BY <4>1, <4>2, <4>3, <4>4 DEF RequestsAreFirst
    <3>7. FirstHoldsQr'
      <4>1. \E w \in waiting' : w.id = a.id /\ w.key = a.key
        <5>1. [id |-> a.id, key |-> a.key] \in waiting'
          BY <2>2
        <5> QED BY <5>1
      <4>2. ASSUME NEW f \in first, f.id # a.id, f.id \in pending'
            PROVE  f.id \in claimed' \/ \E w \in waiting' : w.id = f.id /\ w.key = f.key
        BY <2>2, <4>2 DEF QrInv, FirstHoldsQr, PendingAt, ClaimedAt, WaitingAt, Others, Live
      <4> QED BY <3>1, <3>4, <4>1, <4>2 DEF FirstHoldsQr
    <3>8. NewestQrIsOffered'
      BY DEF QrInv, NewestQrIsOffered, PendingAt, RetiredAt, Live
    <3> QED BY <3>5, <3>6, <3>7, <3>8 DEF QrInv
  <2> QED BY <2>1, <2>2
<1> QED BY <1>1, <1>2, <1>3

\* Claiming moves the request from the table to the approval and marks its QR.
LEMMA QrClaim ==
    ASSUME QrInv, TypeOK, NEW w \in waiting, ClaimPairingRequest(w)
    PROVE  QrInv'
<1> USE DEF ClaimPairingRequest
<1>1. IdsAreFresh'
  BY DEF QrInv, IdsAreFresh, PendingAt, RetiredAt, Live
<1>2. RequestsAreFirst'
  BY DEF QrInv, RequestsAreFirst, WaitingAt, CompletedAt, Others
<1>3. FirstHoldsQr'
  BY DEF QrInv, FirstHoldsQr, PendingAt, ClaimedAt, WaitingAt, Others, Live
<1>4. NewestQrIsOffered'
  BY DEF QrInv, NewestQrIsOffered, PendingAt, RetiredAt, Live
<1> QED BY <1>1, <1>2, <1>3, <1>4 DEF QrInv

\* A rejected QR is no longer on offer.
LEMMA QrReject ==
    ASSUME QrInv, TypeOK, NEW w \in waiting, DecideRejected(w)
    PROVE  QrInv'
<1> USE DEF DecideRejected
<1>1. IdsAreFresh'
  BY DEF QrInv, IdsAreFresh, PendingAt, RetiredAt, Live
<1>2. RequestsAreFirst'
  BY DEF QrInv, RequestsAreFirst, WaitingAt, CompletedAt, Others
<1>3. FirstHoldsQr'
  BY DEF QrInv, FirstHoldsQr, PendingAt, ClaimedAt, WaitingAt, Others, Live
<1>4. NewestQrIsOffered'
  BY DEF QrInv, NewestQrIsOffered, PendingAt, RetiredAt, Live
<1> QED BY <1>1, <1>2, <1>3, <1>4 DEF QrInv

\* Every way an approval goes on leaves the QR with the request it claimed, or without one.
LEMMA QrApproval ==
    ASSUME QrInv, TypeOK, NEW a \in approval, ContinueApproval(a)
    PROVE  QrInv'
<1>0. /\ a.at \in Nat
      /\ UNCHANGED <<signing, started, first>>
      /\ \E f \in first : f.id = a.id /\ f.key = a.key
      /\ \A f \in first : f.id = a.id => f.key = a.key
  BY DEF ContinueApproval, TypeOK, Approval, QrInv, RequestsAreFirst
<1>1. \A b \in approval' : b.id = a.id /\ b.key = a.key
  BY DEF ContinueApproval, IssueDeviceGrant, CredentialFails, ClientGrantFails, DecideApproved,
     RollBackPairingCredential, ApprovalDropped, TypeOK, Approval
<1>2. CASE UNCHANGED tableVars
  BY <1>0, <1>1, <1>2 DEF QrInv, IdsAreFresh, RequestsAreFirst, FirstHoldsQr, NewestQrIsOffered
<1>3. CASE RestorePairingRequest(a)
  <2> USE <1>3 DEF RestorePairingRequest
  <2>1. IdsAreFresh'
    BY <1>0 DEF QrInv, IdsAreFresh
  <2>2. RequestsAreFirst'
    BY <1>0, <1>1 DEF QrInv, RequestsAreFirst, Others
  <2>3. FirstHoldsQr'
    <3>1. ASSUME NEW f \in first, f.id = a.id, f.id \in pending
          PROVE  \E w \in waiting' : w.id = f.id /\ w.key = f.key
      <4>1. [id |-> a.id, key |-> a.key] \in waiting'
        BY <3>1
      <4> QED BY <1>0, <3>1, <4>1
    <3>2. ASSUME NEW f \in first, f.id # a.id, f.id \in pending
          PROVE  f.id \in claimed' \/ \E w \in waiting' : w.id = f.id /\ w.key = f.key
      BY <3>2 DEF QrInv, FirstHoldsQr, Others
    <3> QED BY <1>0, <3>1, <3>2 DEF FirstHoldsQr
  <2>4. NewestQrIsOffered'
    BY DEF QrInv, NewestQrIsOffered
  <2> QED BY <2>1, <2>2, <2>3, <2>4 DEF QrInv
<1>4. CASE DecideApproved(a)
  <2> USE <1>4 DEF DecideApproved
  <2>1. IdsAreFresh'
    BY <1>0 DEF QrInv, IdsAreFresh, PendingAt, RetiredAt, Live
  <2>2. RequestsAreFirst'
    BY <1>0, <1>1 DEF QrInv, RequestsAreFirst, WaitingAt, CompletedAt, Others
  <2>3. FirstHoldsQr'
    BY <1>0 DEF QrInv, FirstHoldsQr, PendingAt, ClaimedAt, WaitingAt, Others, Live
  <2>4. NewestQrIsOffered'
    BY DEF QrInv, NewestQrIsOffered, PendingAt, RetiredAt, Live
  <2> QED BY <2>1, <2>2, <2>3, <2>4 DEF QrInv
<1> QED
  BY <1>2, <1>3, <1>4 DEF ContinueApproval, IssueDeviceGrant, CredentialFails,
     ClientGrantFails, RollBackPairingCredential, ApprovalDropped

\* Every step keeps the QRs sound.
LEMMA QrStep ==
    ASSUME QrInv, TypeOK, [Next]_vars
    PROVE  QrInv'
<1>0. now \in Nat
  BY DEF TypeOK
<1>1. CASE Prune
  BY <1>0, <1>1, QrPruned DEF Prune
<1>2. ASSUME NEW id \in Ids, NEW k \in Keys, PhoneAsks(id, k) PROVE QrInv'
  BY <1>0, <1>2, QrPruned DEF PhoneAsks
<1>3. CASE Restart
  BY <1>3 DEF Restart, QrInv, IdsAreFresh, RequestsAreFirst, FirstHoldsQr, NewestQrIsOffered
<1>4. ASSUME NEW k \in Keys, RevokeDevice(k) \/ RevokeOtherDevices(k) \/ MarkPairedDeviceSeen(k)
      PROVE  QrInv'
  BY <1>4, QrFrame DEF RevokeDevice, RevokeOtherDevices, Revoked, MarkPairedDeviceSeen, QrState
<1>5. ASSUME NEW c \in calls, ContinueRevoke(c) PROVE QrInv'
  BY <1>5, QrFrame DEF ContinueRevoke, QrState
<1>6. CASE ClearDeviceHistory \/ Save \/ Tick \/ UNCHANGED vars
  BY <1>6, QrFrame DEF ClearDeviceHistory, Save, Tick, vars, QrState
<1>7. ASSUME NEW k \in late, LateGrant(k) PROVE QrInv'
  BY <1>7, QrFrame DEF LateGrant, QrState
<1> QED
  BY <1>1, <1>2, <1>3, <1>4, <1>5, <1>6, <1>7, PairingSteps, QrPrepare, QrSettles, QrRequest,
     QrClaim, QrReject, QrApproval

\* The inductive invariant of the QRs (device.rs:310-774).
THEOREM QrsAreSound == Spec => []QrInv
<1>1. Init => QrInv
  BY DEF Init, QrInv, IdsAreFresh, RequestsAreFirst, FirstHoldsQr, NewestQrIsOffered
<1> QED BY <1>1, QrStep, PairingTypeCorrect, PTL DEF Spec

\* Whoever the operator decides about on a QR is the first phone that registered on it.
THEOREM FirstPhoneKeepsItsQr == Spec => []FirstKeyKeepsQr
<1>1. QrInv => FirstKeyKeepsQr
  BY DEF QrInv, RequestsAreFirst, FirstKeyKeepsQr
<1> QED BY <1>1, QrsAreSound, PTL

\* A QR on offer is newer than every one it replaced.
THEOREM NoOldQrComesBack == Spec => []NewestQrIsOffered
<1>1. QrInv => NewestQrIsOffered
  BY DEF QrInv
<1> QED BY <1>1, QrsAreSound, PTL

(***************************************************************************)
(* Nobody is forgotten                                                     *)
(***************************************************************************)

\* A phone that registered is kept, or its approval was dropped.
Kept ==
    \A f \in first :
        tickets[f.id].expires > now =>
            \/ f \in waiting
            \/ \E a \in approval  : a.id = f.id
            \/ \E c \in completed : c.id = f.id
            \/ f.id \in abandoned

\* The variables that decide whether a phone is kept.
KeptState == <<now, tickets, tableVars, first, approval, abandoned>>

LEMMA KeptFrame ==
    ASSUME Kept, ApprovalHoldsQr, UNCHANGED KeptState
    PROVE  Kept' /\ ApprovalHoldsQr'
  BY DEF KeptState, Kept, ApprovalHoldsQr

\* Dropping what has expired, by a clock that may be late, touches no QR that has not.
LEMMA KeptPruned ==
    ASSUME Kept, ApprovalHoldsQr, TypeOK, NEW t \in Nat, t <= now, PrunedAt(t),
           UNCHANGED <<now, tickets, first, approval, abandoned>>
    PROVE  Kept' /\ ApprovalHoldsQr'
<1> USE DEF PrunedAt
<1>0. \A i \in Ids : tickets[i].expires \in Nat /\ (tickets[i].expires > now => tickets[i].expires > t)
  BY DEF TypeOK, TablesOK
<1>1. ApprovalHoldsQr'
  BY <1>0 DEF ApprovalHoldsQr, PendingAt, ClaimedAt, WaitingAt, Live, TypeOK, Approval
<1>2. Kept'
  BY <1>0 DEF Kept, PendingAt, WaitingAt, CompletedAt, Live, TypeOK, TablesOK, Request
<1> QED BY <1>1, <1>2

\* A QR that has not expired survives any pruning done by now.
LEMMA UnexpiredSurvives ==
    ASSUME TypeOK, NEW t \in Nat, t <= now
    PROVE  /\ \A i \in pending : tickets[i].expires > now => i \in PendingAt(t)
           /\ \A w \in waiting : tickets[w.id].expires > now => w \in WaitingAt(t)
           /\ \A i \in claimed \cap pending : tickets[i].expires > now => i \in ClaimedAt(t)
           /\ \A i \in retired : tickets[i].expires > now => i \in RetiredAt(t)
           /\ \A c \in completed : tickets[c.id].expires > now => c \in CompletedAt(t)
           /\ WaitingAt(t) \subseteq waiting
<1>0. \A i \in Ids : tickets[i].expires \in Nat /\ (tickets[i].expires > now => tickets[i].expires > t)
  BY DEF TypeOK, TablesOK
<1> QED BY <1>0 DEF PendingAt, WaitingAt, ClaimedAt, RetiredAt, CompletedAt, Live, TypeOK, TablesOK, Request, Completed

LEMMA KeptPrepare ==
    ASSUME Kept, ApprovalHoldsQr, QrInv, TypeOK,
           NEW ttl \in Ttls, PreparePairingTicket(ttl)
    PROVE  Kept' /\ ApprovalHoldsQr'
<1> USE DEF PreparePairingTicket, PrunedAt
<1>0. started \in Nat /\ now \in Nat /\ now <= now
  BY InstanceAssumption DEF TypeOK, TablesOK
<1>1. \A i \in Ids : i <= started => tickets'[i] = tickets[i]
  BY <1>0 DEF TypeOK, TablesOK, Ids
<1>2. \A f \in first : f.id \in Ids /\ f.id <= started
  BY DEF QrInv, IdsAreFresh, TypeOK, TablesOK, Request
<1>3. \A a \in approval : a.id \in Ids /\ a.id <= started
  BY <1>2 DEF QrInv, RequestsAreFirst
<1>4. ApprovalHoldsQr'
  BY <1>0, <1>1, <1>3, UnexpiredSurvives DEF ApprovalHoldsQr
<1>5. Kept'
  BY <1>0, <1>1, <1>2, UnexpiredSurvives DEF Kept
<1> QED BY <1>4, <1>5

LEMMA KeptSettles ==
    ASSUME Kept, ApprovalHoldsQr, TypeOK, NEW id \in Ids, StartSettles(id)
    PROVE  Kept' /\ ApprovalHoldsQr'
<1>1. CASE UNCHANGED tableVars
  BY <1>1, KeptFrame DEF StartSettles, KeptState
<1>2. CASE InstallPairingTicket(id)
  <2> USE <1>2 DEF StartSettles, InstallPairingTicket
  <2>1. ASSUME NEW f \in waiting PROVE \E c \in completed' : c.id = f.id
    <3>1. [id |-> f.id, key |-> f.key, outcome |-> "replaced"] \in completed'
      OBVIOUS
    <3> QED BY <3>1
  <2>2. completed \subseteq completed' /\ approval = {}
    OBVIOUS
  <2> QED BY <2>1, <2>2 DEF Kept, ApprovalHoldsQr
<1> QED BY <1>1, <1>2 DEF StartSettles

LEMMA KeptRequest ==
    ASSUME Kept, ApprovalHoldsQr, QrInv, TypeOK,
           NEW a \in asks, HandlePairingRequest(a)
    PROVE  Kept' /\ ApprovalHoldsQr'
<1> USE DEF HandlePairingRequest
<1>0. now \in Nat /\ now <= now
  BY DEF TypeOK
<1>1. CASE AskWhetherRetired(a) \/ AskWhetherDecided(a)
  BY <1>0, <1>1, KeptPruned DEF AskWhetherRetired, AskWhetherDecided
<1>2. CASE Refuse(a)
  BY <1>2, KeptFrame DEF Refuse, KeptState
<1>3. CASE RegisterPairingRequest(a)
  <2> USE <1>3 DEF RegisterPairingRequest
  <2>1. CASE ~MayRegister(a)
    BY <1>0, <2>1, KeptPruned DEF PrunedAt
  <2>2. CASE MayRegister(a)
    <3> DEFINE r == [id |-> a.id, key |-> a.key]
    <3>1. \A f \in first : f.id = a.id => f = r
      BY <2>2 DEF MayRegister, PendingAt, ClaimedAt, WaitingAt, Live, QrInv, FirstHoldsQr,
         TypeOK, TablesOK, Request
    <3>2. first' \subseteq first \cup {r} /\ r \in waiting'
      BY <2>2
    <3>3. \A f \in WaitingAt(now) : f.id # a.id => f \in waiting'
      BY <2>2 DEF Others
    <3>4. ApprovalHoldsQr'
      <4>1. \A b \in approval : tickets[b.id].expires > now => b.id # a.id
        BY <1>0, <2>2, UnexpiredSurvives DEF ApprovalHoldsQr, MayRegister
      <4>2. \A w \in waiting' : w \in waiting \/ w.id = a.id
        BY <1>0, <2>2, UnexpiredSurvives DEF Others
      <4> QED BY <1>0, <4>1, <4>2, UnexpiredSurvives DEF ApprovalHoldsQr
    <3>5. ASSUME NEW f \in first', tickets[f.id].expires > now
          PROVE  \/ f \in waiting'
                 \/ \E b \in approval  : b.id = f.id
                 \/ \E c \in completed' : c.id = f.id
                 \/ f.id \in abandoned
      <4>1. CASE f = r
        BY <3>2, <4>1
      <4>2. CASE f # r
        BY <1>0, <3>1, <3>2, <3>3, <3>5, <4>2, UnexpiredSurvives DEF Kept
      <4> QED BY <4>1, <4>2
    <3> QED BY <3>4, <3>5 DEF Kept
  <2> QED BY <2>1, <2>2
<1> QED BY <1>1, <1>2, <1>3

LEMMA KeptClaim ==
    ASSUME Kept, ApprovalHoldsQr, TypeOK, NEW w \in waiting, ClaimPairingRequest(w)
    PROVE  Kept' /\ ApprovalHoldsQr'
<1> USE DEF ClaimPairingRequest
<1>0. now \in Nat /\ now <= now
  BY DEF TypeOK
<1>1. approval = {} /\ \A a \in approval' : a.id = w.id /\ a.at = now
  OBVIOUS
<1>2. \E a \in approval' : a.id = w.id
  OBVIOUS
<1>3. ApprovalHoldsQr'
  BY <1>0, <1>1 DEF ApprovalHoldsQr, WaitingAt, Others
<1>4. Kept'
  BY <1>0, <1>1, <1>2, UnexpiredSurvives DEF Kept, Others
<1> QED BY <1>3, <1>4

LEMMA KeptReject ==
    ASSUME Kept, ApprovalHoldsQr, TypeOK, NEW w \in waiting, DecideRejected(w)
    PROVE  Kept' /\ ApprovalHoldsQr'
<1> USE DEF DecideRejected
<1>0. now \in Nat /\ now <= now
  BY DEF TypeOK
<1>1. \E c \in completed' : c.id = w.id
  <2>1. [id |-> w.id, key |-> w.key, outcome |-> "rejected"] \in completed'
    OBVIOUS
  <2> QED BY <2>1
<1>2. Kept'
  BY <1>0, <1>1, UnexpiredSurvives DEF Kept, Others
<1>3. ApprovalHoldsQr'
  BY DEF ApprovalHoldsQr
<1> QED BY <1>2, <1>3

\* An approval that ends without its caller hanging up has answered its phone or put the
\* request back.
LEMMA KeptApproval ==
    ASSUME Kept, ApprovalHoldsQr, QrInv, TypeOK,
           NEW a \in approval, ContinueApproval(a)
    PROVE  Kept' /\ ApprovalHoldsQr'
<1>0. /\ a.at \in Nat /\ a.at <= now /\ a.id \in Ids
      /\ tickets[a.id].expires > now => a.id \in pending \cap claimed /\ \A w \in waiting : w.id # a.id
      /\ UNCHANGED <<now, tickets, first>>
      /\ abandoned \subseteq abandoned'
  BY DEF ContinueApproval, TypeOK, Approval, ApprovalHoldsQr, CredentialFails,
     RollBackPairingCredential, ApprovalDropped
<1>1. \A f \in first : f.id = a.id => f = [id |-> a.id, key |-> a.key]
  BY DEF QrInv, RequestsAreFirst, TypeOK, TablesOK, Request
<1>2. \A b \in approval : b = a
  BY DEF TypeOK
<1>3. CASE RestorePairingRequest(a) /\ approval' = {}
  <2>1. ApprovalHoldsQr'
    BY <1>3 DEF ApprovalHoldsQr
  <2>2. Kept'
    BY <1>0, <1>1, <1>2, <1>3 DEF RestorePairingRequest, Kept, Others
  <2> QED BY <2>1, <2>2
<1>4. CASE UNCHANGED tableVars /\ \E s \in {"issued", "undo"} : approval' = {[a EXCEPT !.stage = s]}
  <2>1. PICK s \in {"issued", "undo"} : approval' = {[a EXCEPT !.stage = s]}
    BY <1>4
  <2>2. [a EXCEPT !.stage = s].id = a.id /\ [a EXCEPT !.stage = s].at = a.at
    BY DEF TypeOK, Approval
  <2>3. ApprovalHoldsQr'
    BY <1>0, <1>4, <2>1, <2>2 DEF ApprovalHoldsQr
  <2>4. Kept'
    BY <1>0, <1>2, <1>4, <2>1, <2>2 DEF Kept
  <2> QED BY <2>3, <2>4
<1>5. CASE DecideApproved(a)
  <2> USE <1>5 DEF DecideApproved
  <2>1. CASE a.id \in PendingAt(a.at)
    <3>1. [id |-> a.id, key |-> a.key, outcome |-> "approved"] \in completed'
      BY <2>1
    <3>2. \E c \in completed' : c.id = a.id
      BY <3>1
    <3>3. approval' = {}
      BY <2>1
    <3>4. CompletedAt(a.at) \subseteq completed'
      BY <2>1
    <3>5. Kept'
      BY <1>0, <1>2, <3>2, <3>4, UnexpiredSurvives DEF Kept, Others
    <3> QED BY <3>3, <3>5 DEF ApprovalHoldsQr
  <2>2. CASE a.id \notin PendingAt(a.at)
    <3>1. ~(tickets[a.id].expires > now)
      BY <1>0, <2>2, UnexpiredSurvives
    <3>2. approval' = {[a EXCEPT !.stage = "undo"]} /\ completed' = CompletedAt(a.at)
      BY <2>2
    <3>3. [a EXCEPT !.stage = "undo"].id = a.id /\ [a EXCEPT !.stage = "undo"].at = a.at
      BY DEF TypeOK, Approval
    <3>4. ApprovalHoldsQr'
      BY <1>0, <3>1, <3>2, <3>3 DEF ApprovalHoldsQr
    <3>5. Kept'
      BY <1>0, <1>2, <3>1, <3>2, UnexpiredSurvives DEF Kept, Others
    <3> QED BY <3>4, <3>5
  <2> QED BY <2>1, <2>2
<1>6. CASE ApprovalDropped(a)
  BY <1>0, <1>2, <1>6 DEF ApprovalDropped, Kept, ApprovalHoldsQr
<1> QED
  BY <1>3, <1>4, <1>5, <1>6 DEF ContinueApproval, IssueDeviceGrant, CredentialFails,
     ClientGrantFails, RollBackPairingCredential

LEMMA KeptStep ==
    ASSUME Kept, ApprovalHoldsQr, QrInv, TypeOK, [Next]_vars
    PROVE  Kept' /\ ApprovalHoldsQr'
<1>0. now \in Nat /\ now <= now
  BY DEF TypeOK
<1>1. CASE Prune
  BY <1>0, <1>1, KeptPruned DEF Prune
<1>2. ASSUME NEW id \in Ids, NEW k \in Keys, PhoneAsks(id, k)
      PROVE  Kept' /\ ApprovalHoldsQr'
  BY <1>0, <1>2, KeptPruned DEF PhoneAsks
<1>3. CASE Restart
  BY <1>3 DEF Restart, Kept, ApprovalHoldsQr
<1>4. CASE Tick
  <2>1. now' = now + 1 /\ UNCHANGED <<tickets, tableVars, first, approval, abandoned>>
    BY <1>4 DEF Tick
  <2>2. \A i \in Ids : tickets[i].expires \in Nat /\ (tickets[i].expires > now + 1 => tickets[i].expires > now)
    BY DEF TypeOK, TablesOK
  <2> QED BY <1>0, <2>1, <2>2 DEF Kept, ApprovalHoldsQr, TypeOK, TablesOK, Request, Approval
<1>5. ASSUME NEW k \in Keys, RevokeDevice(k) \/ RevokeOtherDevices(k) \/ MarkPairedDeviceSeen(k)
      PROVE  Kept' /\ ApprovalHoldsQr'
  BY <1>5, KeptFrame DEF RevokeDevice, RevokeOtherDevices, Revoked, MarkPairedDeviceSeen, KeptState
<1>6. ASSUME NEW c \in calls, ContinueRevoke(c) PROVE Kept' /\ ApprovalHoldsQr'
  BY <1>6, KeptFrame DEF ContinueRevoke, KeptState
<1>7. CASE ClearDeviceHistory \/ Save \/ UNCHANGED vars
  BY <1>7, KeptFrame DEF ClearDeviceHistory, Save, vars, KeptState
<1>8. ASSUME NEW k \in late, LateGrant(k) PROVE Kept' /\ ApprovalHoldsQr'
  BY <1>8, KeptFrame DEF LateGrant, KeptState
<1> QED
  BY <1>1, <1>2, <1>3, <1>4, <1>5, <1>6, <1>7, <1>8, PairingSteps, KeptPrepare, KeptSettles,
     KeptRequest, KeptClaim, KeptReject, KeptApproval

\* A QR whose approval was dropped, and an approval under way, stay apart from the requests
\* that wait.
LEMMA AbandonedFrame ==
    ASSUME AbandonedKeepsQr, UNCHANGED KeptState
    PROVE  AbandonedKeepsQr'
  BY DEF KeptState, AbandonedKeepsQr, StaysClaimed

LEMMA AbandonedPruned ==
    ASSUME AbandonedKeepsQr, TypeOK, NEW t \in Nat, t <= now, PrunedAt(t),
           UNCHANGED <<now, tickets, first, approval, abandoned>>
    PROVE  AbandonedKeepsQr'
  BY UnexpiredSurvives DEF PrunedAt, AbandonedKeepsQr, StaysClaimed

LEMMA AbandonedPrepare ==
    ASSUME AbandonedKeepsQr, QrInv, TypeOK, NEW ttl \in Ttls, PreparePairingTicket(ttl)
    PROVE  AbandonedKeepsQr'
<1> USE DEF PreparePairingTicket, PrunedAt
<1>0. started \in Nat /\ now \in Nat /\ now <= now
  BY InstanceAssumption DEF TypeOK, TablesOK
<1>1. \A i \in Ids : i <= started => tickets'[i] = tickets[i]
  BY <1>0 DEF TypeOK, TablesOK, Ids
<1>2. \A i \in abandoned : i \in Ids /\ i <= started
  BY DEF AbandonedKeepsQr, QrInv, IdsAreFresh, TypeOK, TablesOK
<1> QED BY <1>0, <1>1, <1>2, UnexpiredSurvives DEF AbandonedKeepsQr, StaysClaimed

\* Nobody registers on a QR that an approval left claimed, nor on one that was replaced.
LEMMA AbandonedRegister ==
    ASSUME AbandonedKeepsQr, QrInv, TypeOK, NEW a \in asks, HandlePairingRequest(a),
           RegisterPairingRequest(a), MayRegister(a)
    PROVE  AbandonedKeepsQr'
<1> USE DEF HandlePairingRequest, RegisterPairingRequest
<1>0. now \in Nat /\ now <= now /\ UNCHANGED <<now, tickets, approval, abandoned>>
  BY DEF TypeOK
<1>1. ASSUME NEW i \in abandoned, tickets[i].expires > now PROVE a.id # i
  <2>1. StaysClaimed(i)
    BY <1>1 DEF AbandonedKeepsQr
  <2>2. CASE i \in claimed \cap pending
    BY <1>0, <1>1, <2>2, UnexpiredSurvives DEF MayRegister
  <2>3. CASE i \in retired
    BY <2>3 DEF MayRegister, PendingAt, Live, QrInv, NewestQrIsOffered, TypeOK, TablesOK, Ids
  <2> QED BY <2>1, <2>2, <2>3 DEF StaysClaimed
<1>2. \A w \in waiting' : w \in waiting \/ w.id = a.id
  BY <1>0, UnexpiredSurvives DEF Others
<1>3. first \subseteq first'
  OBVIOUS
<1> QED BY <1>0, <1>1, <1>2, <1>3, UnexpiredSurvives DEF AbandonedKeepsQr, StaysClaimed

\* Only a request that waits is decided, so never one on an abandoned QR.
LEMMA AbandonedDecided ==
    ASSUME AbandonedKeepsQr, TypeOK, NEW w \in waiting,
           ClaimPairingRequest(w) \/ DecideRejected(w)
    PROVE  AbandonedKeepsQr'
<1>0. now \in Nat /\ now <= now
  BY DEF TypeOK
<1>1. \A i \in abandoned : tickets[i].expires > now => w.id # i
  BY DEF AbandonedKeepsQr
<1>2. CASE ClaimPairingRequest(w)
  BY <1>0, <1>1, <1>2, UnexpiredSurvives
     DEF ClaimPairingRequest, Others, AbandonedKeepsQr, StaysClaimed
<1>3. CASE DecideRejected(w)
  BY <1>0, <1>1, <1>3, UnexpiredSurvives
     DEF DecideRejected, Others, AbandonedKeepsQr, StaysClaimed
<1> QED BY <1>2, <1>3

\* An approval that is dropped leaves its QR claimed; another one is about another QR.
LEMMA AbandonedApproval ==
    ASSUME AbandonedKeepsQr, ApprovalHoldsQr, QrInv, TypeOK,
           NEW a \in approval, ContinueApproval(a)
    PROVE  AbandonedKeepsQr'
<1>0. /\ a.at \in Nat /\ a.at <= now
      /\ tickets[a.id].expires > now => a.id \in pending \cap claimed /\ \A w \in waiting : w.id # a.id
      /\ UNCHANGED <<now, tickets, first>>
      /\ \E f \in first : f.id = a.id
  BY DEF ContinueApproval, TypeOK, Approval, ApprovalHoldsQr, QrInv, RequestsAreFirst
<1>1. \A i \in abandoned : tickets[i].expires > now => a.id # i
  BY DEF AbandonedKeepsQr
<1>2. \A b \in approval' : b.id = a.id
  BY DEF ContinueApproval, IssueDeviceGrant, CredentialFails, ClientGrantFails, DecideApproved,
     RollBackPairingCredential, ApprovalDropped, TypeOK, Approval
<1>3. CASE RestorePairingRequest(a) /\ abandoned' = abandoned
  BY <1>0, <1>1, <1>2, <1>3 DEF RestorePairingRequest, Others, AbandonedKeepsQr, StaysClaimed
<1>4. CASE UNCHANGED <<tableVars, abandoned>>
  BY <1>0, <1>1, <1>2, <1>4 DEF AbandonedKeepsQr, StaysClaimed
<1>5. CASE DecideApproved(a) /\ abandoned' = abandoned
  BY <1>0, <1>1, <1>2, <1>5, UnexpiredSurvives
     DEF DecideApproved, Others, AbandonedKeepsQr, StaysClaimed
<1>6. CASE ApprovalDropped(a)
  BY <1>0, <1>1, <1>2, <1>6 DEF ApprovalDropped, AbandonedKeepsQr, StaysClaimed
<1> QED
  BY <1>3, <1>4, <1>5, <1>6 DEF ContinueApproval, IssueDeviceGrant, CredentialFails,
     ClientGrantFails, RollBackPairingCredential

LEMMA AbandonedStep ==
    ASSUME AbandonedKeepsQr, ApprovalHoldsQr, QrInv, TypeOK, [Next]_vars
    PROVE  AbandonedKeepsQr'
<1>0. now \in Nat /\ now <= now
  BY DEF TypeOK
<1>1. CASE Prune
  BY <1>0, <1>1, AbandonedPruned DEF Prune
<1>2. ASSUME NEW id \in Ids, NEW k \in Keys, PhoneAsks(id, k) PROVE AbandonedKeepsQr'
  BY <1>0, <1>2, AbandonedPruned DEF PhoneAsks
<1>3. CASE Restart
  BY <1>3 DEF Restart, AbandonedKeepsQr
<1>4. CASE Tick
  <2>1. now' = now + 1 /\ UNCHANGED <<tickets, tableVars, first, approval, abandoned>>
    BY <1>4 DEF Tick
  <2>2. \A i \in Ids : tickets[i].expires \in Nat /\ (tickets[i].expires > now + 1 => tickets[i].expires > now)
    BY DEF TypeOK, TablesOK
  <2>3. abandoned \subseteq Ids
    BY DEF TypeOK, TablesOK
  <2> QED BY <1>0, <2>1, <2>2, <2>3 DEF AbandonedKeepsQr, StaysClaimed
<1>5. ASSUME NEW id \in Ids, StartSettles(id) PROVE AbandonedKeepsQr'
  <2>1. CASE UNCHANGED tableVars
    BY <1>5, <2>1, AbandonedFrame DEF StartSettles, KeptState
  <2>2. CASE InstallPairingTicket(id)
    BY <1>5, <2>2 DEF StartSettles, InstallPairingTicket, AbandonedKeepsQr, StaysClaimed
  <2> QED BY <1>5, <2>1, <2>2 DEF StartSettles
<1>6. ASSUME NEW a \in asks, HandlePairingRequest(a) PROVE AbandonedKeepsQr'
  <2>1. CASE AskWhetherRetired(a) \/ AskWhetherDecided(a)
    BY <1>0, <1>6, <2>1, AbandonedPruned
       DEF HandlePairingRequest, AskWhetherRetired, AskWhetherDecided
  <2>2. CASE Refuse(a)
    BY <1>6, <2>2, AbandonedFrame DEF HandlePairingRequest, Refuse, KeptState
  <2>3. CASE RegisterPairingRequest(a) /\ ~MayRegister(a)
    BY <1>0, <1>6, <2>3, AbandonedPruned DEF HandlePairingRequest, RegisterPairingRequest, PrunedAt
  <2>4. CASE RegisterPairingRequest(a) /\ MayRegister(a)
    BY <1>6, <2>4, AbandonedRegister
  <2> QED BY <1>6, <2>1, <2>2, <2>3, <2>4 DEF HandlePairingRequest
<1>7. ASSUME NEW k \in Keys, RevokeDevice(k) \/ RevokeOtherDevices(k) \/ MarkPairedDeviceSeen(k)
      PROVE  AbandonedKeepsQr'
  BY <1>7, AbandonedFrame
     DEF RevokeDevice, RevokeOtherDevices, Revoked, MarkPairedDeviceSeen, KeptState
<1>8. ASSUME NEW c \in calls, ContinueRevoke(c) PROVE AbandonedKeepsQr'
  BY <1>8, AbandonedFrame DEF ContinueRevoke, KeptState
<1>9. CASE ClearDeviceHistory \/ Save \/ UNCHANGED vars
  BY <1>9, AbandonedFrame DEF ClearDeviceHistory, Save, vars, KeptState
<1>10. ASSUME NEW k \in late, LateGrant(k) PROVE AbandonedKeepsQr'
  BY <1>10, AbandonedFrame DEF LateGrant, KeptState
<1> QED
  BY <1>1, <1>2, <1>3, <1>4, <1>5, <1>6, <1>7, <1>8, <1>9, <1>10, PairingSteps,
     AbandonedPrepare, AbandonedDecided, AbandonedApproval

\* Whatever fails, and whoever hangs up, a phone that registered on a QR is waiting, being
\* decided or answered until the QR expires, or, after a hang-up only, keeps the QR claimed
\* or is told that it was replaced.
THEOREM NobodyIsEverForgotten == Spec => []NobodyIsForgotten
<1>1. Init => Kept /\ ApprovalHoldsQr /\ AbandonedKeepsQr
  BY DEF Init, Kept, ApprovalHoldsQr, AbandonedKeepsQr
<1>2. Kept /\ AbandonedKeepsQr => NobodyIsForgotten
  BY DEF Kept, AbandonedKeepsQr, NobodyIsForgotten
<1> QED BY <1>1, <1>2, KeptStep, AbandonedStep, QrsAreSound, PairingTypeCorrect, PTL DEF Spec

(***************************************************************************)
(* Grants                                                                  *)
(***************************************************************************)

\* The variables grants depend on.
GrantState == <<approval, paired, honoured, crossed, calls>>

LEMMA GrantFrame ==
    ASSUME GrantInv, UNCHANGED GrantState
    PROVE  GrantInv'
  BY DEF GrantState, GrantInv, IssuedIsGranted, RevokesSparePaired, PairedKeepsGrant

\* An approval keeps note of the revocations that can still hit the grant it is given, and
\* takes back no grant of a device that is paired.
LEMMA GrantApproval ==
    ASSUME GrantInv, TypeOK, NEW a \in approval, ContinueApproval(a)
    PROVE  GrantInv'
<1>0. /\ a \in Approval
      /\ \A b \in approval : b = a
  BY DEF TypeOK
<1>b. \A c \in LateRollBacks({a}) : c.hits = {a.key} /\ a.key \notin paired
  BY DEF LateRollBacks
<1>a. ASSUME NEW s \in {"issued", "undo"}
      PROVE  [a EXCEPT !.stage = s].key = a.key /\ [a EXCEPT !.stage = s].stage = s
  BY <1>0 DEF Approval
<1>1. CASE IssueDeviceGrant(a) /\ UNCHANGED calls
  <2> USE <1>1 DEF IssueDeviceGrant
  <2>1. IssuedIsGranted'
    BY <1>a DEF IssuedIsGranted
  <2>2. RevokesSparePaired'
    <3> SUFFICES ASSUME NEW c \in calls, NEW k \in c.hits, ~c.applied
                 PROVE  /\ k \in paired => k \in crossed'
                        /\ k = a.key => k \in crossed'
      BY <1>0, <1>a DEF RevokesSparePaired
    <3>1. CASE k = a.key
      BY <3>1 DEF CanStillHit
    <3>2. CASE k # a.key
      BY <3>2 DEF GrantInv, RevokesSparePaired
    <3> QED BY <3>1, <3>2
  <2>3. PairedKeepsGrant'
    BY DEF GrantInv, PairedKeepsGrant
  <2> QED BY <2>1, <2>2, <2>3 DEF GrantInv
<1>2. CASE CredentialFails(a) \/ ApprovalDropped(a)
  BY <1>0, <1>b, <1>2 DEF CredentialFails, ApprovalDropped, GrantInv, IssuedIsGranted,
     RevokesSparePaired, PairedKeepsGrant
<1>3. CASE ClientGrantFails(a) /\ UNCHANGED calls
  BY <1>0, <1>3, <1>a DEF ClientGrantFails, GrantInv, IssuedIsGranted,
     RevokesSparePaired, PairedKeepsGrant
<1>4. CASE DecideApproved(a) /\ UNCHANGED calls
  <2> USE <1>4 DEF DecideApproved
  <2>1. a.stage = "issued" /\ UNCHANGED <<honoured, crossed>> /\ paired' \subseteq paired \cup {a.key}
    OBVIOUS
  <2>2. \A b \in approval' : b.key = a.key /\ b.stage = "undo"
    BY <1>a
  <2>3. PairedKeepsGrant'
    BY <2>1 DEF GrantInv, PairedKeepsGrant, IssuedIsGranted
  <2>4. IssuedIsGranted'
    BY <2>2 DEF IssuedIsGranted
  <2>5. RevokesSparePaired'
    BY <1>0, <2>1, <2>2 DEF GrantInv, RevokesSparePaired
  <2> QED BY <2>3, <2>4, <2>5 DEF GrantInv
<1>5. CASE RollBackPairingCredential(a)
  BY <1>0, <1>b, <1>5 DEF RollBackPairingCredential, GrantInv, IssuedIsGranted,
     RevokesSparePaired, PairedKeepsGrant
<1> QED
  BY <1>1, <1>2, <1>3, <1>4, <1>5 DEF ContinueApproval

\* A revocation unpairs whoever it is about to hit, and notes the approval under way.
LEMMA GrantRevoked ==
    ASSUME GrantInv, TypeOK, NEW ks, NEW targets, NEW hits, Revoked(ks, targets, hits),
           paired \cap hits \subseteq ks
    PROVE  GrantInv'
<1> USE DEF Revoked
<1>1. IssuedIsGranted'
  BY DEF GrantInv, IssuedIsGranted
<1>2. PairedKeepsGrant'
  BY DEF GrantInv, PairedKeepsGrant
<1>3. RevokesSparePaired'
  <2> DEFINE new == [n |-> callCount, devices |-> targets, hits |-> hits, applied |-> FALSE]
  <2>1. new.hits = hits /\ calls' = calls \cup {new}
    OBVIOUS
  <2> HIDE DEF new
  <2>2. ASSUME NEW k \in hits
        PROVE  /\ k \in paired' => k \in crossed'
               /\ \A a \in approval' : a.key = k /\ a.stage # "claimed" => k \in crossed'
    OBVIOUS
  <2>3. ASSUME NEW c \in calls, NEW k \in c.hits, ~c.applied
        PROVE  /\ k \in paired' => k \in crossed'
               /\ \A a \in approval' : a.key = k /\ a.stage # "claimed" => k \in crossed'
    BY <2>3 DEF GrantInv, RevokesSparePaired
  <2> QED BY <2>1, <2>2, <2>3 DEF RevokesSparePaired
<1> QED BY <1>1, <1>2, <1>3 DEF GrantInv

\* At the broker a revocation takes only grants that nobody counts on, or that were noted.
LEMMA GrantRevoke ==
    ASSUME GrantInv, TypeOK, NEW c \in calls, ContinueRevoke(c)
    PROVE  GrantInv'
<1>0. UNCHANGED <<approval, paired, crossed>>
  BY DEF ContinueRevoke
<1>1. CASE BrokerRevokes(c)
  <2> USE <1>1 DEF BrokerRevokes
  <2>1. PairedKeepsGrant'
    BY <1>0 DEF GrantInv, PairedKeepsGrant, RevokesSparePaired
  <2>2. IssuedIsGranted'
    BY <1>0 DEF GrantInv, IssuedIsGranted, RevokesSparePaired
  <2>3. RevokesSparePaired'
    <3>1. [c EXCEPT !.applied = TRUE].applied = TRUE
      BY DEF TypeOK, DevicesOK, Call
    <3>2. \A d \in calls' : d \in calls \/ d.applied
      BY <3>1
    <3> QED BY <1>0, <3>2 DEF GrantInv, RevokesSparePaired
  <2> QED BY <2>1, <2>2, <2>3 DEF GrantInv
<1>2. CASE SettleBrokerRevoke(c) \/ RevokeDropped(c)
  <2>0. \A d \in LateRevokes({c}) : d.hits = c.hits /\ ~c.applied
    BY DEF LateRevokes, TypeOK, DevicesOK, Call
  <2>1. (\A d \in calls' : d \in calls \/ (d.hits = c.hits /\ ~c.applied)) /\ UNCHANGED honoured
    BY <1>2, <2>0 DEF StopsWaiting, SettleBrokerRevoke, RevokeDropped
  <2> QED BY <1>0, <2>1 DEF GrantInv, IssuedIsGranted, RevokesSparePaired, PairedKeepsGrant
<1> QED BY <1>1, <1>2 DEF ContinueRevoke

LEMMA GrantStep ==
    ASSUME GrantInv, TypeOK, [Next]_vars
    PROVE  GrantInv'
<1>1. ASSUME NEW w \in waiting, ClaimPairingRequest(w) PROVE GrantInv'
  <2>1. \A a \in approval' : a.stage = "claimed"
    BY <1>1 DEF ClaimPairingRequest
  <2>2. UNCHANGED <<paired, honoured, crossed, calls>>
    BY <1>1 DEF ClaimPairingRequest
  <2> QED BY <2>1, <2>2 DEF GrantInv, IssuedIsGranted, RevokesSparePaired, PairedKeepsGrant
<1>2. ASSUME NEW k \in Keys, RevokeDevice(k) PROVE GrantInv'
  <2>1. paired \cap {k} \subseteq {k} \cap paired
    OBVIOUS
  <2> QED BY <1>2, <2>1, GrantRevoked DEF RevokeDevice
<1>3. ASSUME NEW k \in Keys, RevokeOtherDevices(k) PROVE GrantInv'
  <2>1. paired \cap (Keys \ {k}) \subseteq paired \ {k}
    OBVIOUS
  <2> QED BY <1>3, <2>1, GrantRevoked DEF RevokeOtherDevices
<1>4. CASE Restart
  <2>1. /\ approval' = {} /\ UNCHANGED honoured
        /\ paired' = disk.paired /\ crossed' = crossed \cup (disk.paired \ paired)
        /\ calls' = LateRevokes(calls) \cup LateRollBacks(approval)
    BY <1>4 DEF Restart
  <2>2. ASSUME NEW c \in calls', NEW k \in c.hits, k \in paired
        PROVE  k \in crossed
    <3>1. CASE c \in LateRevokes(calls)
      <4>1. PICK d \in calls : ~d.applied /\ c = [d EXCEPT !.devices = {}]
        BY <3>1 DEF LateRevokes
      <4>2. c.hits = d.hits
        BY <4>1 DEF TypeOK, DevicesOK, Call
      <4> QED BY <2>2, <4>1, <4>2 DEF GrantInv, RevokesSparePaired
    <3>2. CASE c \in LateRollBacks(approval)
      BY <2>2, <3>2 DEF LateRollBacks
    <3> QED BY <2>1, <3>1, <3>2
  <2> QED BY <2>2, <2>1 DEF GrantInv, IssuedIsGranted, RevokesSparePaired, PairedKeepsGrant
<1>5. ASSUME NEW a \in asks, HandlePairingRequest(a) PROVE GrantInv'
  BY <1>5, GrantFrame DEF HandlePairingRequest, GrantState
<1>6. ASSUME NEW w \in waiting, DecideRejected(w) PROVE GrantInv'
  BY <1>6, GrantFrame DEF DecideRejected, GrantState
<1>7. ASSUME NEW k \in Keys, MarkPairedDeviceSeen(k) PROVE GrantInv'
  BY <1>7, GrantFrame DEF MarkPairedDeviceSeen, GrantState
<1>8. ASSUME NEW ttl \in Ttls, PreparePairingTicket(ttl) PROVE GrantInv'
  BY <1>8, GrantFrame DEF PreparePairingTicket, GrantState
<1>9. ASSUME NEW id \in Ids, StartSettles(id) PROVE GrantInv'
  BY <1>9, GrantFrame DEF StartSettles, GrantState
<1>10. ASSUME NEW id \in Ids, NEW k \in Keys, PhoneAsks(id, k) PROVE GrantInv'
  BY <1>10, GrantFrame DEF PhoneAsks, GrantState
<1>11. CASE Prune \/ ClearDeviceHistory \/ Save \/ Tick \/ UNCHANGED vars
  BY <1>11, GrantFrame DEF Prune, ClearDeviceHistory, Save, Tick, vars, GrantState
<1>12. ASSUME NEW k \in late, LateGrant(k) PROVE GrantInv'
  BY <1>12 DEF LateGrant, GrantInv, IssuedIsGranted, RevokesSparePaired, PairedKeepsGrant
<1> QED
  BY <1>1, <1>2, <1>3, <1>4, <1>5, <1>6, <1>7, <1>8, <1>9, <1>10, <1>11, <1>12, PairingSteps,
     GrantApproval, GrantRevoke

\* A paired device has its grant at the broker unless a revocation crossed its approval:
\* no approval that fails, for whatever reason, takes the grant of a paired device back.
THEOREM PairedDeviceKeepsItsGrant == Spec => []PairedKeepsGrant
<1>1. Init => GrantInv
  BY DEF Init, GrantInv, IssuedIsGranted, RevokesSparePaired, PairedKeepsGrant
<1>2. GrantInv => PairedKeepsGrant
  BY DEF GrantInv
<1> QED BY <1>1, <1>2, GrantStep, PairingTypeCorrect, PTL DEF Spec


(***************************************************************************)
(* Grants in sight                                                         *)
(***************************************************************************)

\* A grant is being given: the broker has issued it, and the approval is not over.
Granting == {a.key : a \in {b \in approval : b.stage # "claimed"}}

\* Devices whose revocation can be retried.
Listed == {k \in owed : records[k] # "none"}

\* The grants that SettledGrantsAreAccountedFor speaks of.
Sighted == honoured \ (unsettled \cup forgotten)

\* It holds without the approvals that have asked for nothing yet: they may end with nothing.
GrantsAreInSight ==
    \A k \in Sighted : k \in paired \cup Granting \cup Listed \/ \E c \in calls : k \in c.devices

\* A revocation under way keeps its devices from being cleared, takes their grants, and is the
\* only one of each.
CallsHoldTheirDevices ==
    \A c \in calls :
        /\ c.devices \subseteq c.hits
        /\ \A k \in c.devices \ unsettled :
             /\ k \in inFlight /\ records[k] # "none"
             /\ \A d \in calls : k \in d.devices => d = c

\* Once it is carried out, a grant is a new one.
GrantsAfterCallsAreNew ==
    \A c \in calls : c.applied => c.devices \cap Sighted \subseteq paired \cup Granting

\* What was saved is enough to go on from.
DiskAccounts ==
    \A k \in Sighted \ unsaved :
        k \in disk.paired \/ (k \in disk.owed /\ disk.records[k] # "none")

SettleInv ==
    /\ GrantsAreInSight /\ CallsHoldTheirDevices /\ GrantsAfterCallsAreNew /\ DiskAccounts

\* A step that leaves revocations and the disk alone keeps the grants in sight when whatever
\* it grants is being given or paired, what it gives up is paired, forgotten or gone, and it
\* clears no device of a revocation.
LEMMA SettleBeside ==
    ASSUME SettleInv, TypeOK,
           calls \subseteq calls', \A c \in calls' : c \in calls \/ c.devices = {},
           UNCHANGED <<inFlight, unsettled, disk>>,
           \A k \in inFlight : records[k] # "none" => records'[k] # "none",
           paired \subseteq paired',
           Sighted' \subseteq paired' \cup Granting' \cup (Sighted \ Granting),
           Listed \subseteq Listed' \cup paired',
           Sighted' \ unsaved' \subseteq Sighted \ unsaved
    PROVE  SettleInv'
<1>1. GrantsAreInSight'
  BY DEF SettleInv, GrantsAreInSight
<1>2. CallsHoldTheirDevices'
  BY DEF SettleInv, CallsHoldTheirDevices
<1>3. GrantsAfterCallsAreNew'
  <2> SUFFICES ASSUME NEW c \in calls, c.applied, NEW k \in c.devices, k \in Sighted'
               PROVE  k \in paired' \cup Granting'
    BY DEF GrantsAfterCallsAreNew
  <2>1. k \in Sighted => k \in paired \cup Granting
    BY DEF SettleInv, GrantsAfterCallsAreNew
  <2> QED BY <2>1
<1>4. DiskAccounts'
  BY DEF SettleInv, DiskAccounts
<1> QED BY <1>1, <1>2, <1>3, <1>4 DEF SettleInv

\* An approval ends with its device paired, its grant taken back, or the relay not knowing.
LEMMA SettleApproval ==
    ASSUME SettleInv, TypeOK, NEW a \in approval, ContinueApproval(a)
    PROVE  SettleInv'
<1>0. /\ UNCHANGED <<inFlight, unsettled, disk>>
      /\ a \in Approval /\ \A b \in approval : b = a
      /\ calls \subseteq calls' /\ \A c \in calls' : c \in calls \/ c.devices = {}
  BY DEF ContinueApproval, TypeOK, CredentialFails, RollBackPairingCredential, ApprovalDropped,
     LateRollBacks
<1>a. ASSUME NEW s \in {"issued", "undo"}
      PROVE  [a EXCEPT !.stage = s].key = a.key /\ [a EXCEPT !.stage = s].stage = s
  BY <1>0 DEF Approval
<1>b. Granting = IF a.stage = "claimed" THEN {} ELSE {a.key}
  BY <1>0 DEF Granting
<1>c. a.key \in Keys
  BY <1>0 DEF Approval
<1>1. CASE IssueDeviceGrant(a) /\ UNCHANGED calls
  <2> USE <1>1 DEF IssueDeviceGrant
  <2>1. Granting' = {a.key} /\ Granting = {}
    BY <1>a, <1>b DEF Granting
  <2>2. Sighted' \subseteq {a.key} \cup Sighted /\ a.key \in unsaved' /\ unsaved \subseteq unsaved'
    BY <1>0 DEF Sighted
  <2>3. UNCHANGED <<paired, records, Listed>>
    BY DEF Listed
  <2> QED BY <1>0, <2>1, <2>2, <2>3, SettleBeside
<1>2. CASE CredentialFails(a) \/ ApprovalDropped(a)
  <2>1. Sighted' \subseteq Sighted \ Granting /\ unsaved' = unsaved
    BY <1>0, <1>b, <1>2 DEF Sighted, Granted, CredentialFails, ApprovalDropped
  <2>2. UNCHANGED <<paired, records, Listed>>
    BY <1>2 DEF Listed, CredentialFails, ApprovalDropped
  <2> QED BY <1>0, <2>1, <2>2, SettleBeside
<1>3. CASE ClientGrantFails(a) /\ UNCHANGED calls
  <2>1. Granting' = {a.key} /\ Granting = {a.key}
    BY <1>a, <1>b, <1>3 DEF Granting, ClientGrantFails
  <2>2. UNCHANGED <<paired, records, Listed, Sighted, unsaved>>
    BY <1>0, <1>3 DEF Listed, Sighted, ClientGrantFails
  <2> QED BY <1>0, <2>1, <2>2, SettleBeside
<1>4. CASE DecideApproved(a) /\ UNCHANGED calls
  <2> USE <1>4 DEF DecideApproved
  <2>1. Granting = {a.key} /\ UNCHANGED <<Sighted, unsaved>>
    BY <1>0, <1>b DEF Sighted
  <2>2. CASE a.id \in PendingAt(a.at)
    <3>1. paired' = paired \cup {a.key} /\ owed' = owed \ {a.key}
          /\ records' = [records EXCEPT ![a.key] = "approved"]
      BY <2>2
    <3>2. \A k \in Keys : records[k] # "none" => records'[k] # "none"
      BY <3>1 DEF TypeOK, DevicesOK
    <3>3. Listed \subseteq Listed' \cup paired' /\ \A k \in inFlight : k \in Keys
      BY <3>1, <3>2 DEF Listed, TypeOK, DevicesOK
    <3> QED BY <1>0, <2>1, <3>1, <3>2, <3>3, SettleBeside
  <2>3. CASE a.id \notin PendingAt(a.at)
    <3>1. Granting' = {a.key} /\ UNCHANGED <<paired, records, Listed>>
      BY <1>a, <2>3 DEF Granting, Listed
    <3> QED BY <1>0, <2>1, <3>1, SettleBeside
  <2> QED BY <2>2, <2>3
<1>5. CASE RollBackPairingCredential(a)
  <2>1. UNCHANGED <<paired, records, Listed, unsaved>> /\ a.stage = "undo"
    BY <1>5 DEF Listed, RollBackPairingCredential
  <2>2. Sighted' \subseteq paired \cup (Sighted \ {a.key}) /\ Sighted' \subseteq Sighted
    BY <1>0, <1>5 DEF Sighted, RollBackPairingCredential
  <2>3. Granting = {a.key}
    BY <1>b, <2>1
  <2> QED BY <1>0, <2>1, <2>2, <2>3, SettleBeside
<1> QED
  BY <1>1, <1>2, <1>3, <1>4, <1>5 DEF ContinueApproval

\* A revocation that begins is a new call, or one of devices whose call was not over.
LEMMA SettleRevoked ==
    ASSUME SettleInv, TypeOK, NEW ks, NEW targets, NEW hits, Revoked(ks, targets, hits),
           ks \subseteq targets, targets \subseteq hits, targets \subseteq Keys,
           \A k \in targets : k \in ks \/ records[k] # "none"
    PROVE  SettleInv'
<1> DEFINE new == [n |-> callCount, devices |-> targets, hits |-> hits, applied |-> FALSE]
<1>1. /\ new.devices = targets /\ new.hits = hits /\ ~new.applied /\ calls' = calls \cup {new}
      /\ paired' = paired \ ks /\ inFlight' = inFlight \cup targets
      /\ UNCHANGED <<disk, unsaved, owed>>
  BY DEF Revoked
<1>2. unsettled' = unsettled \cup {k \in targets : \E c \in calls : k \in c.devices}
  BY DEF Revoked
<1>3. /\ \A k \in Keys : records[k] # "none" => records'[k] # "none"
      /\ \A k \in ks : records'[k] # "none"
  BY DEF Revoked
<1>4. Granting' = Granting /\ Sighted' \subseteq Sighted
  BY DEF Revoked, Granting, Sighted
<1>5. Listed \subseteq Listed'
  BY <1>1, <1>3 DEF Listed, TypeOK, DevicesOK
<1>6. \A c \in calls : c.devices \subseteq Keys
  BY DEF TypeOK, DevicesOK, Call
<1> HIDE DEF new
<1>7. GrantsAreInSight'
  <2> SUFFICES ASSUME NEW k \in Sighted'
               PROVE  k \in paired' \cup Granting' \cup Listed' \/ \E c \in calls' : k \in c.devices
    BY DEF GrantsAreInSight
  <2>1. k \in paired \cup Granting \cup Listed \/ \E c \in calls : k \in c.devices
    BY <1>4 DEF SettleInv, GrantsAreInSight
  <2> QED BY <1>1, <1>4, <1>5, <2>1
<1>8. CallsHoldTheirDevices'
  <2> SUFFICES ASSUME NEW c \in calls'
               PROVE  /\ c.devices \subseteq c.hits
                      /\ \A k \in c.devices \ unsettled' :
                           /\ k \in inFlight' /\ records'[k] # "none"
                           /\ \A d \in calls' : k \in d.devices => d = c
    BY DEF CallsHoldTheirDevices
  <2>1. CASE c = new
    BY <1>1, <1>2, <1>3, <2>1
  <2>2. CASE c \in calls
    <3>1. c.devices \subseteq c.hits
      BY <2>2 DEF SettleInv, CallsHoldTheirDevices
    <3>2. ASSUME NEW k \in c.devices \ unsettled'
          PROVE  /\ k \in inFlight' /\ records'[k] # "none"
                 /\ \A d \in calls' : k \in d.devices => d = c
      <4>1. k \notin unsettled /\ k \notin targets /\ k \in Keys
        BY <1>2, <1>6, <2>2
      <4>2. /\ k \in inFlight /\ records[k] # "none"
            /\ \A d \in calls : k \in d.devices => d = c
        BY <2>2, <4>1 DEF SettleInv, CallsHoldTheirDevices
      <4> QED BY <1>1, <1>3, <4>1, <4>2
    <3> QED BY <3>1, <3>2
  <2> QED BY <1>1, <2>1, <2>2
<1>9. GrantsAfterCallsAreNew'
  <2> SUFFICES ASSUME NEW c \in calls, c.applied, NEW k \in c.devices, k \in Sighted'
               PROVE  k \in paired' \cup Granting'
    BY <1>1 DEF GrantsAfterCallsAreNew
  <2>1. k \in paired \cup Granting
    BY <1>4 DEF SettleInv, GrantsAfterCallsAreNew
  <2>2. k \notin targets
    BY <1>2 DEF Sighted
  <2> QED BY <1>1, <1>4, <2>1, <2>2
<1>10. DiskAccounts'
  BY <1>1, <1>4 DEF SettleInv, DiskAccounts
<1> QED BY <1>7, <1>8, <1>9, <1>10 DEF SettleInv

\* The broker's part of a revocation takes the grants away, and its settlement lets its
\* devices go only when a grant they have is new, or lists them.
LEMMA SettleRevoke ==
    ASSUME SettleInv, TypeOK, NEW c \in calls, ContinueRevoke(c)
    PROVE  SettleInv'
<1>0. UNCHANGED <<approval, paired, records, disk, unsaved, forgotten>> /\ Granting' = Granting
  BY DEF ContinueRevoke, Granting
<1>a. /\ GrantsAreInSight /\ CallsHoldTheirDevices /\ GrantsAfterCallsAreNew /\ DiskAccounts
      /\ c.devices \subseteq c.hits
  BY DEF SettleInv, CallsHoldTheirDevices
<1>b. \A d \in LateRevokes({c}) : d.devices = {}
  BY DEF LateRevokes, TypeOK, DevicesOK, Call
<1>1. CASE BrokerRevokes(c)
  <2> DEFINE done == [c EXCEPT !.applied = TRUE]
  <2>1. /\ done.devices = c.devices /\ done.hits = c.hits
        /\ calls' = (calls \ {c}) \cup (IF c.devices = {} THEN {} ELSE {done})
    BY <1>1 DEF BrokerRevokes, TypeOK, DevicesOK, Call
  <2>2. Sighted' = Sighted \ c.hits /\ UNCHANGED <<inFlight, owed, unsettled>> /\ Listed' = Listed
    BY <1>0, <1>1 DEF BrokerRevokes, Sighted, Listed
  <2> HIDE DEF done
  <2>3. GrantsAreInSight'
    BY <1>0, <1>a, <2>1, <2>2 DEF GrantsAreInSight
  <2>4. CallsHoldTheirDevices'
    BY <1>0, <1>a, <2>1, <2>2 DEF CallsHoldTheirDevices
  <2>5. GrantsAfterCallsAreNew'
    BY <1>0, <1>a, <2>1, <2>2 DEF GrantsAfterCallsAreNew
  <2>6. DiskAccounts'
    BY <1>0, <1>a, <2>2 DEF DiskAccounts
  <2> QED BY <2>3, <2>4, <2>5, <2>6 DEF SettleInv
<1>2. CASE SettleBrokerRevoke(c)
  <2>1. /\ calls' = (calls \ {c}) \cup LateRevokes({c})
        /\ inFlight' = inFlight \ c.devices /\ UNCHANGED unsettled
        /\ Sighted' = Sighted
    BY <1>0, <1>2 DEF SettleBrokerRevoke, StopsWaiting, Sighted
  <2>2. ASSUME NEW k \in Sighted, k \notin paired \cup Granting
        PROVE  k \in Listed' \/ \E d \in calls' : k \in d.devices
    <3>1. k \in Listed \/ \E d \in calls : k \in d.devices
      BY <1>a, <2>2 DEF GrantsAreInSight
    <3>2. CASE k \notin c.devices
      BY <1>0, <1>2, <2>1, <3>1, <3>2 DEF SettleBrokerRevoke, Listed
    <3>3. CASE k \in c.devices
      <4>1. ~c.applied
        BY <1>a, <2>2, <3>3 DEF GrantsAfterCallsAreNew
      <4>2. records[k] # "none"
        BY <1>a, <2>2, <3>3 DEF CallsHoldTheirDevices, Sighted
      <4> QED BY <1>0, <1>2, <3>3, <4>1, <4>2 DEF SettleBrokerRevoke, Listed
    <3> QED BY <3>2, <3>3
  <2>3. GrantsAreInSight'
    BY <1>0, <2>1, <2>2 DEF GrantsAreInSight
  <2>4. CallsHoldTheirDevices'
    BY <1>0, <1>a, <1>b, <2>1 DEF CallsHoldTheirDevices
  <2>5. GrantsAfterCallsAreNew' /\ DiskAccounts'
    BY <1>0, <1>a, <1>b, <2>1 DEF GrantsAfterCallsAreNew, DiskAccounts
  <2> QED BY <2>3, <2>4, <2>5 DEF SettleInv
<1>3. CASE RevokeDropped(c)
  <2>1. /\ calls' = (calls \ {c}) \cup LateRevokes({c}) /\ unsettled' = unsettled \cup c.devices
        /\ UNCHANGED inFlight /\ Listed' = Listed /\ Sighted' = Sighted \ c.devices
    BY <1>0, <1>3 DEF RevokeDropped, StopsWaiting, Sighted, Listed
  <2>2. GrantsAreInSight'
    BY <1>0, <1>a, <2>1 DEF GrantsAreInSight
  <2>3. CallsHoldTheirDevices'
    BY <1>0, <1>a, <1>b, <2>1 DEF CallsHoldTheirDevices
  <2>4. GrantsAfterCallsAreNew' /\ DiskAccounts'
    BY <1>0, <1>a, <1>b, <2>1 DEF GrantsAfterCallsAreNew, DiskAccounts
  <2> QED BY <2>2, <2>3, <2>4 DEF SettleInv
<1> QED BY <1>1, <1>2, <1>3 DEF ContinueRevoke

\* What is saved lists the revocations that wait for an answer, and a restart goes on from
\* it: what was granted since is forgotten.
LEMMA SettleSaved ==
    ASSUME SettleInv, TypeOK, Save \/ Restart
    PROVE  SettleInv'
<1>a. GrantsAreInSight /\ CallsHoldTheirDevices /\ DiskAccounts
  BY DEF SettleInv
<1>1. CASE Save
  <2>1. /\ disk' = [paired |-> paired, records |-> records, owed |-> SavedOwed]
        /\ unsaved' = Granting
        /\ UNCHANGED <<approval, paired, records, owed, inFlight, calls, unsettled, Sighted>>
        /\ UNCHANGED <<Granting, Listed>>
    BY <1>1 DEF Save, Granting, Sighted, Listed
  <2>2. disk'.paired = paired /\ disk'.records = records /\ disk'.owed = SavedOwed
    BY <2>1
  <2>3. ASSUME NEW k \in Sighted, k \notin Granting, k \notin paired
        PROVE  k \in SavedOwed /\ records[k] # "none"
    <3>1. CASE k \in Listed
      BY <3>1 DEF Listed, SavedOwed
    <3>2. CASE k \notin Listed
      <4>1. PICK c \in calls : k \in c.devices
        BY <1>a, <2>3, <3>2 DEF GrantsAreInSight
      <4>2. k \in inFlight /\ records[k] # "none"
        BY <1>a, <2>3, <4>1 DEF CallsHoldTheirDevices, Sighted
      <4> QED BY <4>2 DEF SavedOwed
    <3> QED BY <3>1, <3>2
  <2>4. DiskAccounts'
    BY <2>1, <2>2, <2>3 DEF DiskAccounts
  <2>5. GrantsAreInSight' /\ CallsHoldTheirDevices' /\ GrantsAfterCallsAreNew'
    BY <2>1 DEF SettleInv, GrantsAreInSight, CallsHoldTheirDevices, GrantsAfterCallsAreNew
  <2> QED BY <2>4, <2>5 DEF SettleInv
<1>2. CASE Restart
  <2>1. /\ paired' = disk.paired /\ owed' = disk.owed /\ UNCHANGED disk
        /\ Sighted' \subseteq Sighted \ unsaved
        /\ \A c \in calls' : c.devices = {}
    <3>1. \A c \in LateRevokes(calls) \cup LateRollBacks(approval) : c.devices = {}
      BY DEF LateRevokes, LateRollBacks, TypeOK, DevicesOK, Call
    <3> QED BY <1>2, <3>1 DEF Restart, Sighted
  <2>2. \A k \in Keys : disk.records[k] # "none" => records'[k] # "none"
    BY <1>2 DEF Restart
  <2>3. \A k \in Sighted' : k \in paired' \/ k \in Listed'
    <3> SUFFICES ASSUME NEW k \in Sighted', k \notin disk.paired PROVE k \in Listed'
      BY <2>1
    <3>1. k \in disk.owed /\ disk.records[k] # "none"
      BY <1>a, <2>1 DEF DiskAccounts
    <3>2. k \in Keys
      BY <2>1 DEF Sighted, TypeOK, DevicesOK
    <3> QED BY <2>1, <2>2, <3>1, <3>2 DEF Listed
  <2>4. GrantsAreInSight' /\ CallsHoldTheirDevices' /\ GrantsAfterCallsAreNew'
    BY <2>1, <2>3 DEF GrantsAreInSight, CallsHoldTheirDevices, GrantsAfterCallsAreNew
  <2>5. DiskAccounts'
    BY <1>a, <2>1 DEF DiskAccounts
  <2> QED BY <2>4, <2>5 DEF SettleInv
<1> QED BY <1>1, <1>2

\* The variables grants in sight depend on.
SightState == <<approval, paired, records, owed, inFlight, calls, honoured, disk, unsettled,
                unsaved, forgotten>>

\* Steps of QRs and phones leave them alone.
LEMMA SightFrame ==
    ASSUME SettleInv, UNCHANGED SightState
    PROVE  SettleInv'
<1>1. UNCHANGED <<Granting, Listed, Sighted>>
  BY DEF SightState, Granting, Listed, Sighted
<1> QED
  BY <1>1 DEF SightState, SettleInv, GrantsAreInSight, CallsHoldTheirDevices,
     GrantsAfterCallsAreNew, DiskAccounts

\* Every step keeps the grants in sight.
LEMMA SettleStep ==
    ASSUME SettleInv, TypeOK, [Next]_vars
    PROVE  SettleInv'
<1>0. records \in [Keys -> States] /\ inFlight \subseteq Keys /\ owed \subseteq Keys /\ paired \subseteq Keys
  BY DEF TypeOK, DevicesOK
<1>1. ASSUME NEW w \in waiting, ClaimPairingRequest(w) PROVE SettleInv'
  <2>1. /\ UNCHANGED <<calls, inFlight, unsettled, disk, records, paired, unsaved>>
        /\ approval = {} /\ UNCHANGED <<Listed, Sighted>>
    BY <1>1 DEF ClaimPairingRequest, Listed, Sighted
  <2>2. Granting = {}
    BY <2>1 DEF Granting
  <2> QED BY <2>1, <2>2, SettleBeside
<1>2. ASSUME NEW w \in waiting, DecideRejected(w) PROVE SettleInv'
  <2>1. /\ UNCHANGED <<calls, inFlight, unsettled, disk, paired, owed, unsaved>>
        /\ UNCHANGED <<Granting, Sighted>>
    BY <1>2 DEF DecideRejected, Granting, Sighted
  <2>2. \A k \in Keys : records[k] # "none" => records'[k] # "none"
    BY <1>0, <1>2 DEF DecideRejected, RecordRejected
  <2>3. Listed \subseteq Listed'
    BY <1>0, <2>1, <2>2 DEF Listed
  <2> QED BY <1>0, <2>1, <2>2, <2>3, SettleBeside
<1>3. ASSUME NEW k \in Keys, MarkPairedDeviceSeen(k) PROVE SettleInv'
  <2>1. /\ UNCHANGED <<calls, inFlight, unsettled, disk, paired, unsaved>>
        /\ UNCHANGED <<Granting, Sighted>> /\ k \in paired /\ owed' = owed \ {k}
    BY <1>3 DEF MarkPairedDeviceSeen, Granting, Sighted
  <2>2. \A j \in Keys : records[j] # "none" => records'[j] # "none"
    BY <1>0, <1>3 DEF MarkPairedDeviceSeen
  <2>3. Listed \subseteq Listed' \cup paired'
    BY <1>0, <2>1, <2>2 DEF Listed
  <2> QED BY <1>0, <2>1, <2>2, <2>3, SettleBeside
<1>4. CASE ClearDeviceHistory
  <2>1. /\ UNCHANGED <<calls, inFlight, unsettled, disk, paired, owed, unsaved>>
        /\ UNCHANGED <<Granting, Sighted>>
    BY <1>4 DEF ClearDeviceHistory, Granting, Sighted
  <2>2. \A k \in Keys : k \in owed \cup inFlight => records'[k] = records[k]
    BY <1>4 DEF ClearDeviceHistory
  <2>3. Listed \subseteq Listed'
    BY <1>0, <2>1, <2>2 DEF Listed
  <2> QED BY <1>0, <2>1, <2>2, <2>3, SettleBeside
<1>5. ASSUME NEW k \in Keys, RevokeDevice(k) PROVE SettleInv'
  <2>1. Revoked({k} \cap paired, {k}, {k}) /\ (k \in paired \/ records[k] # "none")
    BY <1>5 DEF RevokeDevice
  <2> QED BY <2>1, SettleRevoked
<1>6. ASSUME NEW k \in Keys, RevokeOtherDevices(k) PROVE SettleInv'
  <2>1. Revoked(paired \ {k}, paired \ {k}, Keys \ {k})
    BY <1>6 DEF RevokeOtherDevices
  <2> QED BY <1>0, <2>1, SettleRevoked
<1>7. ASSUME NEW a \in asks, HandlePairingRequest(a) PROVE SettleInv'
  BY <1>7, SightFrame DEF HandlePairingRequest, SightState
<1>8. ASSUME NEW ttl \in Ttls, PreparePairingTicket(ttl) PROVE SettleInv'
  BY <1>8, SightFrame DEF PreparePairingTicket, SightState
<1>9. ASSUME NEW id \in Ids, StartSettles(id) PROVE SettleInv'
  BY <1>9, SightFrame DEF StartSettles, SightState
<1>10. ASSUME NEW id \in Ids, NEW k \in Keys, PhoneAsks(id, k) PROVE SettleInv'
  BY <1>10, SightFrame DEF PhoneAsks, SightState
<1>11. CASE Prune \/ Tick \/ UNCHANGED vars
  BY <1>11, SightFrame DEF Prune, Tick, vars, SightState
<1>12. ASSUME NEW k \in late, LateGrant(k) PROVE SettleInv'
  <2>1. /\ UNCHANGED <<calls, inFlight, unsettled, disk, paired, owed, records, unsaved>>
        /\ UNCHANGED <<Granting, Listed>> /\ Sighted' = Sighted \ {k}
    BY <1>12 DEF LateGrant, Granting, Sighted, Listed
  <2> QED BY <2>1, SettleBeside
<1> QED
  BY <1>1, <1>2, <1>3, <1>4, <1>5, <1>6, <1>7, <1>8, <1>9, <1>10, <1>11, <1>12, PairingSteps,
     SettleApproval, SettleRevoke, SettleSaved

\* A grant the relay was told of, and had the time to save, stays in its sight: its device is
\* paired, being approved, being revoked or listed with a retry, through failed and
\* unanswered revocations (settle_broker_revoke), cleared histories and restarts.
THEOREM NoGrantIsLostSightOf == Spec => []SettledGrantsAreAccountedFor
<1>1. Init => SettleInv
  BY DEF Init, SettleInv, GrantsAreInSight, CallsHoldTheirDevices, GrantsAfterCallsAreNew,
     DiskAccounts, Sighted
<1>2. SettleInv => SettledGrantsAreAccountedFor
  <2> SUFFICES ASSUME SettleInv, NEW k \in Sighted PROVE Accounted(k)
    BY DEF SettledGrantsAreAccountedFor, Sighted
  <2>1. k \in paired \cup Granting \cup Listed \/ \E c \in calls : k \in c.devices
    BY DEF SettleInv, GrantsAreInSight
  <2>2. k \in Granting => UnderApproval(k)
    BY DEF Granting, UnderApproval
  <2> QED BY <2>1, <2>2 DEF Accounted, Listed
<1> QED BY <1>1, <1>2, SettleStep, PairingTypeCorrect, PTL DEF Spec

=============================================================================
