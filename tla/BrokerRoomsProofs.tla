-------------------------- MODULE BrokerRoomsProofs --------------------------
(***************************************************************************)
(* The room keeps out whom it has let go, and tells those in it the truth  *)
(* about each other, for any number of connections, devices and tickets.   *)
(* What makes the first inductive is the epoch: a join that has passed a   *)
(* check since overtaken is no longer in current, so it will not be        *)
(* seated.  The second rests on one peer id for one seat.                  *)
(***************************************************************************)
EXTENDS BrokerRooms, FiniteSetTheorems, TLAPS

JoinPcs == {"verified", "known", "unproven", "admitted"}

\* What the other conjuncts need to know of the variables they speak of.
RoomTypes ==
    /\ pc \in [Sockets -> JoinPcs \cup {"away", "open", "gone"}]
    /\ ticket \in [Sockets -> Tickets \cup {None}]
    /\ device \in [Sockets -> Devices \cup {None}]
    /\ current \subseteq Sockets /\ seated \subseteq Sockets
    /\ cut \subseteq Devices

\* A seat belongs to a socket whose loop runs, and a relay's has no device.
SeatsAreOpen ==
    \A s \in seated : pc[s] = "open" /\ (ticket[s] = Relay => device[s] = None)

\* While a released relay is kept out, no join that can still be seated is past the access check.
NoneSlipsIn ==
    freed => ~allowed /\ seated = {} /\ \A s \in current : pc[s] \notin {"unproven", "admitted"}

\* No join that can still be seated carries a revoked device past the grant check.
NoneCutSlipsIn ==
    /\ cut \cap granted = {}
    /\ \A s \in current :
           pc[s] \in {"known", "unproven", "admitted"} => ticket[s] \notin cut

RoomInv == RoomTypes /\ SeatsAreOpen /\ NoneSlipsIn /\ NoneCutSlipsIn
           /\ RevokedDevicesLeave /\ SeatIsOwned

\* Before anyone comes the room is empty and nobody is under way.
LEMMA InitRoomInv == Init => RoomInv
BY RoomAssumption
   DEF Init, RoomInv, RoomTypes, SeatsAreOpen, NoneSlipsIn, NoneCutSlipsIn, RevokedDevicesLeave,
       SeatIsOwned, JoinPcs

\* A join that starts, passes a check or is given up keeps the invariant.
LEMMA JoinStepsKeepRoomInv ==
    ASSUME RoomInv, NEW s \in Sockets,
           \/ \E t \in Tickets : JoinStarts(s, t)
           \/ JoinChecksRoom(s) \/ JoinChecksAccess(s) \/ JoinProves(s) \/ JoinIsRefused(s)
    PROVE  RoomInv'
<1> USE DEF RoomInv, RoomTypes, SeatsAreOpen, NoneSlipsIn, NoneCutSlipsIn, RevokedDevicesLeave,
            SeatIsOwned, JoinPcs, room, access, calls, history
<1>1. CASE \E t \in Tickets : JoinStarts(s, t)
  <2>1. PICK t \in Tickets : JoinStarts(s, t)
    BY <1>1
  <2> QED
    BY <2>1, RoomAssumption DEF JoinStarts, Tickets
<1>2. CASE JoinChecksRoom(s)
  BY <1>2, RoomAssumption DEF JoinChecksRoom, Tickets
<1>3. CASE JoinChecksAccess(s)
  BY <1>3 DEF JoinChecksAccess
<1>4. CASE JoinProves(s)
  BY <1>4 DEF JoinProves
<1>5. CASE JoinIsRefused(s)
  BY <1>5 DEF JoinIsRefused
<1> QED
  BY <1>1, <1>2, <1>3, <1>4, <1>5

\* Taking a seat keeps the invariant: the epoch has held since before the checks.
LEMMA JoinSeatsKeepsRoomInv ==
    ASSUME RoomInv, NEW s \in Sockets, JoinSeats(s)
    PROVE  RoomInv'
<1> USE DEF RoomInv, JoinSeats, EpochHolds, Replaced, Superseded, access, calls
<1>1. RoomTypes'
  BY RoomAssumption DEF RoomTypes, Tickets, JoinPcs
<1>2. SeatsAreOpen'
  BY RoomAssumption DEF RoomTypes, SeatsAreOpen, Tickets
<1>3. NoneSlipsIn'
  BY DEF RoomTypes, NoneSlipsIn
<1>4. NoneCutSlipsIn'
  BY DEF RoomTypes, NoneCutSlipsIn
<1>5. RevokedDevicesLeave'
  BY RoomAssumption DEF RoomTypes, NoneCutSlipsIn, RevokedDevicesLeave, Tickets
<1>6. SeatIsOwned'
  BY DEF RoomTypes, SeatIsOwned
<1> QED
  BY <1>1, <1>2, <1>3, <1>4, <1>5, <1>6

\* A seated socket that is written to, publishes or ends keeps the invariant.
LEMMA SocketStepsKeepRoomInv ==
    ASSUME RoomInv, NEW s \in Sockets,
           \/ Deliver(s) \/ SocketCloses(s) \/ SocketIsDropped(s)
           \/ \E x \in Sockets, d \in Devices \cup {None} : Publish(s, x, d)
    PROVE  RoomInv'
<1> USE DEF RoomInv, RoomTypes, SeatsAreOpen, NoneSlipsIn, NoneCutSlipsIn, RevokedDevicesLeave,
            SeatIsOwned, JoinPcs, join, access, calls, history
<1>1. CASE Deliver(s)
  BY <1>1 DEF Deliver
<1>2. CASE SocketCloses(s) \/ SocketIsDropped(s)
  BY <1>2 DEF SocketCloses, SocketIsDropped, Ends, Leaves
<1>3. CASE \E x \in Sockets, d \in Devices \cup {None} : Publish(s, x, d)
  <2>1. PICK x \in Sockets, d \in Devices \cup {None} : Publish(s, x, d)
    BY <1>3
  <2> QED
    BY <2>1, RoomAssumption DEF Publish
<1> QED
  BY <1>1, <1>2, <1>3

\* Closing the room, or the seats of a revocation, keeps the invariant: every join under way has
\* to start over.
LEMMA ClosingKeepsRoomInv ==
    ASSUME RoomInv,
           \/ ReleaseCloses \/ RecheckCloses \/ \E D \in Revocations : CloseRevoked(D)
    PROVE  RoomInv'
<1> USE DEF RoomInv, RoomTypes, SeatsAreOpen, NoneSlipsIn, NoneCutSlipsIn, RevokedDevicesLeave,
            SeatIsOwned, join, access
<1>1. CASE ReleaseCloses
  BY <1>1 DEF ReleaseCloses, ForceClose
<1>2. CASE RecheckCloses
  BY <1>2 DEF RecheckCloses, ForceClose
<1>3. CASE \E D \in Revocations : CloseRevoked(D)
  <2>1. PICK D \in Revocations : CloseRevoked(D)
    BY <1>3
  <2>2. D \subseteq Devices
    BY DEF Revocations
  <2> QED
    BY <2>1, <2>2, RoomAssumption DEF CloseRevoked, RevokedSeats
<1> QED
  BY <1>1, <1>2, <1>3

\* Saving a revocation, releasing, granting and what the strategy decides keep the invariant.
LEMMA AccessStepsKeepRoomInv ==
    ASSUME RoomInv,
           \/ ReleaseStarts \/ ReleaseCleansUp \/ ReleaseIsDropped \/ RecheckIsDenied
           \/ \E D \in Revocations : Revoke(D) \/ RevokeFails(D)
           \/ \E d \in Devices : Grant(d)
           \/ AccessLapses \/ AccessReturns
    PROVE  RoomInv'
BY DEF RoomInv, RoomTypes, SeatsAreOpen, NoneSlipsIn, NoneCutSlipsIn, RevokedDevicesLeave,
       SeatIsOwned, join, room, history, access, ReleaseStarts, ReleaseCleansUp, ReleaseIsDropped,
       RecheckIsDenied, Revoke, RevokeFails, Grant, AccessLapses, AccessReturns

\* Every step keeps the invariant.
LEMMA NextRoomInv == RoomInv /\ [Next]_vars => RoomInv'
<1> SUFFICES ASSUME RoomInv, [Next]_vars
             PROVE  RoomInv'
  OBVIOUS
<1>1. CASE UNCHANGED vars
  BY <1>1 DEF vars, RoomInv, RoomTypes, SeatsAreOpen, NoneSlipsIn, NoneCutSlipsIn,
              RevokedDevicesLeave, SeatIsOwned
<1>2. CASE Next
  BY <1>2, JoinStepsKeepRoomInv, JoinSeatsKeepsRoomInv, SocketStepsKeepRoomInv,
     ClosingKeepsRoomInv, AccessStepsKeepRoomInv
     DEF Next, Joining, Releasing
<1> QED
  BY <1>1, <1>2

\* The invariant the results rest on.
LEMMA RoomIsSound == Spec => []RoomInv
BY InitRoomInv, NextRoomInv, PTL DEF Spec

\* However many connections are on their way in, nobody is seated in a released room
\* (force_close_room, join_if_access_epoch).
THEOREM ReleasedRoomsStayEmpty == Spec => []ReleasedRoomsAreEmpty
<1>1. RoomInv => ReleasedRoomsAreEmpty
  BY DEF RoomInv, NoneSlipsIn, ReleasedRoomsAreEmpty
<1> QED
  BY <1>1, RoomIsSound, PTL

\* A revoked device has no seat once the revocation is answered (close_revoked_surfaces).
THEOREM RevokedDevicesHaveLeft == Spec => []RevokedDevicesLeave
<1>1. RoomInv => RevokedDevicesLeave
  BY DEF RoomInv
<1> QED
  BY <1>1, RoomIsSound, PTL

\* A socket loses its seat only to a later join or a closure (leave_connection).
THEOREM SeatsAreOwned == Spec => []SeatIsOwned
<1>1. RoomInv => SeatIsOwned
  BY DEF RoomInv
<1> QED
  BY <1>1, RoomIsSound, PTL

(* ------------------------- What a client believes ------------------------- *)

\* A set is enumerated by the sequence made of it.
LEMMA SetToSeqEnumerates ==
    ASSUME NEW S, IsFiniteSet(S)
    PROVE  /\ SetToSeq(S) \in Seq(S) /\ Len(SetToSeq(S)) = Cardinality(S)
           /\ \A x \in S : \E i \in DOMAIN SetToSeq(S) : SetToSeq(S)[i] = x
<1> DEFINE n == Cardinality(S)
<1>1. n \in Nat /\ ExistsBijection(1..n, S)
  BY FS_CardinalityType
<1>2. PICK b \in Bijection(1..n, S) : TRUE
  BY <1>1 DEF ExistsBijection
<1>3. b \in [1..n -> S] /\ IsInjective(b)
  BY <1>2 DEF Bijection, Injection
<1>4. SetToSeq(S) \in [1..n -> S] /\ IsInjective(SetToSeq(S))
  BY <1>3 DEF SetToSeq
<1>5. SetToSeq(S) \in Injection(1..n, S)
  BY <1>4 DEF Injection
<1>6. IsFiniteSet(1..n) /\ Cardinality(1..n) = n
  BY <1>1, FS_Interval
<1>7. SetToSeq(S) \in Surjection(1..n, S)
  BY <1>5, <1>6, FS_Injection
<1> QED
  BY <1>1, <1>4, <1>7 DEF Surjection

\* The frames a room sends.
Frames == {Closed, Data} \cup {Joined(p) : p \in Peers} \cup {Left(p) : p \in Peers}

\* Frames of two kinds, or about two peers, differ.
LEMMA FramesDiffer ==
    /\ \A p, r : Joined(p) # Left(r) /\ Closed # Joined(p) /\ Closed # Left(p)
                 /\ Data # Joined(p) /\ Data # Left(p)
    /\ \A p, r : (Joined(p) = Joined(r) \/ Left(p) = Left(r)) => p = r
<1>1. /\ \A p : Joined(p).kind = "joined" /\ Joined(p).peer = p
      /\ \A p : Left(p).kind = "left" /\ Left(p).peer = p
      /\ Closed.kind = "error" /\ Data.kind = "message"
  BY DEF Joined, Left, Closed, Data
<1> QED
  BY <1>1

\* Frames that are not about a peer say nothing of it.
LEMMA OtherFramesSayNothing ==
    ASSUME NEW F, NEW q \in Seq(F), NEW more \in Seq(F), NEW seen, NEW p,
           \A i \in DOMAIN more : more[i] # Joined(p) /\ more[i] # Left(p)
    PROVE  Believes(seen, q \o more, p) <=> Believes(seen, q, p)
<1> DEFINE all == q \o more
<1>1. /\ DOMAIN all = 1..(Len(q) + Len(more)) /\ DOMAIN q = 1..Len(q)
      /\ DOMAIN more = 1..Len(more) /\ Len(q) \in Nat /\ Len(more) \in Nat
  OBVIOUS
<1>2. \A i \in DOMAIN q : i \in DOMAIN all /\ all[i] = q[i]
  BY <1>1
<1>3. ASSUME NEW i \in DOMAIN all, i \notin DOMAIN q
      PROVE  all[i] # Joined(p) /\ all[i] # Left(p)
  <2>1. i - Len(q) \in DOMAIN more /\ all[i] = more[i - Len(q)]
    BY <1>1, <1>3
  <2> QED
    BY <2>1
<1>4. \A i \in DOMAIN all : all[i] \in {Joined(p), Left(p)} => i \in DOMAIN q
  BY <1>3
<1> HIDE DEF all
<1> QED
  BY <1>1, <1>2, <1>4 DEF Believes

\* After frames that say a peer left, and not that it came, nobody believes in it.
LEMMA LeftIsBelieved ==
    ASSUME NEW F, NEW q \in Seq(F), NEW more \in Seq(F), NEW seen, NEW p,
           \E i \in DOMAIN more : more[i] = Left(p),
           \A i \in DOMAIN more : more[i] # Joined(p)
    PROVE  ~Believes(seen, q \o more, p)
<1> DEFINE all == q \o more
<1>1. /\ DOMAIN all = 1..(Len(q) + Len(more)) /\ DOMAIN q = 1..Len(q)
      /\ DOMAIN more = 1..Len(more) /\ Len(q) \in Nat /\ Len(more) \in Nat
  OBVIOUS
<1>2. PICK k \in DOMAIN more : more[k] = Left(p)
  OBVIOUS
<1>3. Len(q) + k \in DOMAIN all /\ all[Len(q) + k] = Left(p)
  BY <1>1, <1>2
<1>4. \A i \in DOMAIN all : all[i] = Joined(p) => i \in DOMAIN q
  <2> SUFFICES ASSUME NEW i \in DOMAIN all, i \notin DOMAIN q
               PROVE  all[i] # Joined(p)
    OBVIOUS
  <2>1. i - Len(q) \in DOMAIN more /\ all[i] = more[i - Len(q)]
    BY <1>1
  <2> QED
    BY <2>1
<1>5. \A i \in DOMAIN q : Len(q) + k > i
  BY <1>1
<1> HIDE DEF all
<1>6. ~\E i \in DOMAIN all : all[i] = Joined(p) /\ \A j \in DOMAIN all : j > i => all[j] # Left(p)
  BY <1>3, <1>4, <1>5
<1> QED
  BY <1>3, <1>6 DEF Believes, all

\* After a last frame that says a peer came, it is believed in.
LEMMA JoinedIsBelieved ==
    ASSUME NEW F, NEW q \in Seq(F), NEW seen, NEW p
    PROVE  Believes(seen, q \o <<Joined(p)>>, p)
<1> DEFINE all == q \o <<Joined(p)>>
<1>1. /\ DOMAIN all = 1..(Len(q) + 1) /\ Len(q) \in Nat
      /\ all[Len(q) + 1] = Joined(p)
  OBVIOUS
<1> HIDE DEF all
<1>2. Len(q) + 1 \in DOMAIN all /\ \A j \in DOMAIN all : ~(j > Len(q) + 1)
  BY <1>1
<1> QED
  BY <1>1, <1>2 DEF Believes, all

\* To hear the next frame changes nothing of what will be believed in the end.
LEMMA HearingChangesNothing ==
    ASSUME NEW q \in Seq(Frames), q # <<>>, NEW seen, NEW p
    PROVE  Believes(Heard(seen, Head(q)), Tail(q), p) <=> Believes(seen, q, p)
<1> DEFINE h == Head(q)
           t == Tail(q)
<1>1. /\ DOMAIN q = 1..Len(q) /\ Len(q) \in Nat \ {0} /\ DOMAIN t = 1..(Len(q) - 1)
      /\ h = q[1] /\ \A i \in DOMAIN t : t[i] = q[i + 1]
      /\ h \in Frames
  OBVIOUS
<1>2. p \in Heard(seen, h) <=> h = Joined(p) \/ (p \in seen /\ h # Left(p))
  <2>1. CASE h \in {Closed, Data}
    <3>1. Heard(seen, h) = seen
      BY <2>1 DEF Heard, Closed, Data
    <3> QED
      BY <2>1, <3>1, FramesDiffer
  <2>2. ASSUME NEW r \in Peers, h = Joined(r)
        PROVE  p \in Heard(seen, h) <=> h = Joined(p) \/ (p \in seen /\ h # Left(p))
    <3>1. Heard(seen, h) = seen \cup {r}
      BY <2>2 DEF Heard, Joined
    <3> QED
      BY <2>2, <3>1, FramesDiffer
  <2>3. ASSUME NEW r \in Peers, h = Left(r)
        PROVE  p \in Heard(seen, h) <=> h = Joined(p) \/ (p \in seen /\ h # Left(p))
    <3>1. Heard(seen, h) = seen \ {r}
      BY <2>3 DEF Heard, Left
    <3> QED
      BY <2>3, <3>1, FramesDiffer
  <2> QED
    BY <1>1, <2>1, <2>2, <2>3 DEF Frames
<1>3. \A i \in DOMAIN q : i = 1 \/ (i - 1 \in DOMAIN t /\ t[i - 1] = q[i])
  BY <1>1
<1>4. \A i \in DOMAIN t : i + 1 \in DOMAIN q
  BY <1>1
<1>5. 1 \in DOMAIN q /\ \A i \in DOMAIN q : i \in Nat /\ i >= 1
  BY <1>1
<1>6. \A i \in DOMAIN t : i \in Nat /\ i >= 1
  BY <1>1
<1> DEFINE new == Heard(seen, h)
<1> HIDE DEF h, t, new
<1>7. (\A i \in DOMAIN q : q[i] # Left(p)) <=> h # Left(p) /\ \A i \in DOMAIN t : t[i] # Left(p)
  BY <1>1, <1>3, <1>4, <1>5
<1>8. Believes(new, t, p) => Believes(seen, q, p)
  <2>1. CASE p \in new /\ \A i \in DOMAIN t : t[i] # Left(p)
    <3>1. CASE h = Joined(p)
      <4>1. \A j \in DOMAIN q : j > 1 => q[j] # Left(p)
        BY <1>3, <2>1
      <4> QED
        BY <1>1, <1>5, <3>1, <4>1 DEF Believes
    <3>2. CASE p \in seen /\ h # Left(p)
      BY <1>7, <2>1, <3>2 DEF Believes
    <3> QED
      BY <1>2, <2>1, <3>1, <3>2 DEF new
  <2>2. CASE \E i \in DOMAIN t : t[i] = Joined(p) /\ \A j \in DOMAIN t : j > i => t[j] # Left(p)
    <3>1. PICK i \in DOMAIN t : t[i] = Joined(p) /\ \A j \in DOMAIN t : j > i => t[j] # Left(p)
      BY <2>2
    <3>2. i + 1 \in DOMAIN q /\ q[i + 1] = Joined(p)
      BY <1>1, <1>4, <3>1
    <3>3. \A j \in DOMAIN q : j > i + 1 => q[j] # Left(p)
      BY <1>3, <1>5, <1>6, <3>1
    <3> QED
      BY <3>2, <3>3 DEF Believes
  <2> QED
    BY <2>1, <2>2 DEF Believes
<1>9. Believes(seen, q, p) => Believes(new, t, p)
  <2>1. CASE p \in seen /\ \A i \in DOMAIN q : q[i] # Left(p)
    BY <1>2, <1>7, <2>1 DEF Believes, new
  <2>2. CASE \E i \in DOMAIN q : q[i] = Joined(p) /\ \A j \in DOMAIN q : j > i => q[j] # Left(p)
    <3>1. PICK i \in DOMAIN q : q[i] = Joined(p) /\ \A j \in DOMAIN q : j > i => q[j] # Left(p)
      BY <2>2
    <3>2. CASE i = 1
      <4>1. \A j \in DOMAIN t : t[j] # Left(p)
        BY <1>1, <1>4, <1>6, <3>1, <3>2
      <4> QED
        BY <1>1, <1>2, <3>1, <3>2, <4>1 DEF Believes, new
    <3>3. CASE i # 1
      <4>1. i - 1 \in DOMAIN t /\ t[i - 1] = Joined(p)
        BY <1>3, <3>1, <3>3
      <4>2. \A j \in DOMAIN t : j > i - 1 => t[j] # Left(p)
        BY <1>1, <1>4, <1>5, <1>6, <3>1
      <4> QED
        BY <4>1, <4>2 DEF Believes
    <3> QED
      BY <3>2, <3>3
  <2> QED
    BY <2>1, <2>2 DEF Believes
<1> QED
  BY <1>8, <1>9 DEF new, h, t

(* ----------------------------- Peers and mail ----------------------------- *)

\* What is queued are frames, for sockets whose loop runs.
QueuesAreMail ==
    /\ queue \in [Sockets -> Seq(Frames)] /\ view \in [Sockets -> SUBSET Peers]
    /\ \A s \in Sockets : pc[s] # "open" => queue[s] = <<>>

\* A room has at most one relay.
OneRelay == \A s, x \in seated : ticket[s] = Relay /\ ticket[x] = Relay => s = x

PresenceInv == RoomInv /\ QueuesAreMail /\ OneRelay /\ PresenceIsTrue

\* One seat, one peer id.
LEMMA PeersDiffer ==
    ASSUME RoomInv, OneRelay, NEW s \in seated, NEW x \in seated, PeerOf(s) = PeerOf(x)
    PROVE  s = x
BY RoomAssumption DEF OneRelay, PeerOf, RoomInv, RoomTypes, Sockets

\* Partings names those who are gone, and nobody else.
LEMMA PartingsSayWhoLeft ==
    ASSUME NEW gone \in SUBSET Sockets
    PROVE  /\ Partings(gone) \in Seq(Frames)
           /\ \A s \in gone : \E i \in DOMAIN Partings(gone) : Partings(gone)[i] = Left(PeerOf(s))
           /\ \A i \in DOMAIN Partings(gone) : \E s \in gone : Partings(gone)[i] = Left(PeerOf(s))
           /\ gone = {} => Partings(gone) = <<>>
           /\ \A s : gone = {s} => Len(Partings(gone)) = 1
<1> DEFINE S == {Left(PeerOf(s)) : s \in gone}
<1>1. IsFiniteSet(S)
  <2>1. IsFiniteSet(Sockets)
    BY FS_Interval, RoomAssumption DEF Sockets
  <2>2. IsFiniteSet(gone)
    BY <2>1, FS_Subset
  <2> DEFINE name == [s \in gone |-> Left(PeerOf(s))]
  <2>3. name \in Surjection(gone, S)
    BY DEF Surjection
  <2> QED
    BY <2>2, <2>3, FS_Surjection
<1>2. S \subseteq Frames
  BY DEF Frames, Peers, PeerOf
<1>3. Partings(gone) = SetToSeq(S)
  BY DEF Partings
<1> HIDE DEF S
<1>4. /\ Partings(gone) \in Seq(S) /\ Len(Partings(gone)) = Cardinality(S)
      /\ \A f \in S : \E i \in DOMAIN Partings(gone) : Partings(gone)[i] = f
  BY <1>1, <1>3, SetToSeqEnumerates
<1>5. \A i \in DOMAIN Partings(gone) : Partings(gone)[i] \in S
  BY <1>4
<1>6. Partings(gone) \in Seq(Frames)
  BY <1>2, <1>4
<1>7. gone = {} => Partings(gone) = <<>>
  BY <1>4, FS_EmptySet DEF S
<1>8. ASSUME NEW s, gone = {s}
      PROVE  Len(Partings(gone)) = 1
  <2>1. S = {Left(PeerOf(s))}
    BY <1>8 DEF S
  <2> QED
    BY <1>4, <2>1, FS_Singleton
<1> QED
  BY <1>4, <1>5, <1>6, <1>7, <1>8 DEF S

\* What fits is all of it, when the queue is long enough.
LEMMA FitsKeepsMail ==
    ASSUME QueuesAreMail, NEW s \in Sockets, NEW frames \in Seq(Frames)
    PROVE  /\ Fits(s, frames) \in Seq(Frames)
           /\ Len(queue[s]) + Len(frames) <= QueueCap => Fits(s, frames) = queue[s] \o frames
<1>1. queue[s] \in Seq(Frames)
  BY DEF QueuesAreMail
<1>2. /\ queue[s] \o frames \in Seq(Frames)
      /\ Len(queue[s] \o frames) = Len(queue[s]) + Len(frames)
  BY <1>1
<1> DEFINE all == queue[s] \o frames
<1>3. Len(all) > QueueCap => SubSeq(all, 1, QueueCap) \in Seq(Frames)
  BY <1>2, RoomAssumption
<1> QED
  BY <1>1, <1>2, <1>3, RoomAssumption DEF Fits

\* Who is not marked by Enqueue was sent all that is due.
LEMMA EnqueueSends ==
    ASSUME QueuesAreMail, NEW mail, DOMAIN mail \subseteq Sockets,
           \A s \in DOMAIN mail : mail[s] \in Seq(Frames),
           Enqueue(mail)
    PROVE  /\ queue' \in [Sockets -> Seq(Frames)]
           /\ \A s \in Sockets \ DOMAIN mail : queue'[s] = queue[s]
           /\ \A s \in Sockets \ overflow' :
                  s \notin overflow /\ (s \in DOMAIN mail => queue'[s] = queue[s] \o mail[s])
<1>1. \A s \in Sockets : queue[s] \in Seq(Frames)
  BY DEF QueuesAreMail
<1>2. \A s \in DOMAIN mail : Fits(s, mail[s]) \in Seq(Frames)
  BY FitsKeepsMail
<1>3. ASSUME NEW s \in Sockets \ overflow'
      PROVE  s \notin overflow /\ (s \in DOMAIN mail => queue'[s] = queue[s] \o mail[s])
  <2>1. s \notin overflow /\ (s \in DOMAIN mail => ~(Len(queue[s]) + Len(mail[s]) > QueueCap))
    BY <1>3 DEF Enqueue
  <2>2. ASSUME s \in DOMAIN mail
        PROVE  queue'[s] = queue[s] \o mail[s]
    <3>1. Len(queue[s]) \in Nat /\ Len(mail[s]) \in Nat
      BY <1>1, <2>2
    <3>2. Len(queue[s]) + Len(mail[s]) <= QueueCap
      BY <2>1, <2>2, <3>1, RoomAssumption
    <3>3. Fits(s, mail[s]) = queue[s] \o mail[s]
      BY <2>2, <3>2, FitsKeepsMail
    <3> QED
      BY <2>2, <3>3 DEF Enqueue
  <2> QED
    BY <2>1, <2>2
<1>4. queue' \in [Sockets -> Seq(Frames)]
  BY <1>1, <1>2 DEF Enqueue
<1>5. \A s \in Sockets \ DOMAIN mail : queue'[s] = queue[s]
  BY DEF Enqueue
<1> QED
  BY <1>3, <1>4, <1>5

(* --------------------- Presence, one step after another ------------------- *)

\* Steps that touch no seat, no queue and no seated ticket keep what is believed true.
LEMMA PresenceIsKept ==
    ASSUME PresenceInv, RoomInv', UNCHANGED <<seated, queue, overflow, view>>,
           \A s \in seated : ticket'[s] = ticket[s],
           \A s \in Sockets : pc[s] = "open" => pc'[s] = "open"
    PROVE  PresenceInv'
<1>1. QueuesAreMail'
  BY DEF PresenceInv, QueuesAreMail
<1>2. OneRelay'
  BY DEF PresenceInv, OneRelay
<1>3. \A s \in seated : PeerOf(s)' = PeerOf(s)
  BY DEF PeerOf
<1>4. PresenceIsTrue'
  BY <1>3 DEF PresenceInv, PresenceIsTrue
<1> QED
  BY <1>1, <1>2, <1>4 DEF PresenceInv

\* Whoever stays and is told who left believes in the others who stay.
LEMMA PartingsAreBelieved ==
    ASSUME PresenceInv, NEW gone \in SUBSET seated, NEW x \in seated \ gone, x \notin overflow,
           NEW p \in Peers
    PROVE  Believes(view[x], queue[x] \o Partings(gone), p)
               <=> p \in {PeerOf(y) : y \in (seated \ gone) \ {x}}
<1> DEFINE more == Partings(gone)
<1>1. seated \subseteq Sockets /\ queue[x] \in Seq(Frames)
  BY DEF PresenceInv, RoomInv, RoomTypes, QueuesAreMail
<1>2. /\ more \in Seq(Frames)
      /\ \A s \in gone : \E i \in DOMAIN more : more[i] = Left(PeerOf(s))
      /\ \A i \in DOMAIN more : \E s \in gone : more[i] = Left(PeerOf(s))
  BY <1>1, PartingsSayWhoLeft
<1> HIDE DEF more
<1>3. \A i \in DOMAIN more : more[i] # Joined(p)
  BY <1>2, FramesDiffer
<1>4. CASE \E s \in gone : PeerOf(s) = p
  <2>1. PICK s \in gone : PeerOf(s) = p
    BY <1>4
  <2>2. ~Believes(view[x], queue[x] \o more, p)
    BY <1>1, <1>2, <1>3, <2>1, LeftIsBelieved
  <2>3. \A y \in seated \ gone : PeerOf(y) # p
    BY <2>1, PeersDiffer DEF PresenceInv
  <2> QED
    BY <2>2, <2>3 DEF more
<1>5. CASE \A s \in gone : PeerOf(s) # p
  <2>1. \A i \in DOMAIN more : more[i] # Left(p)
    BY <1>2, <1>5, FramesDiffer
  <2>2. Believes(view[x], queue[x] \o more, p) <=> Believes(view[x], queue[x], p)
    BY <1>1, <1>2, <1>3, <2>1, OtherFramesSayNothing
  <2>3. Believes(view[x], queue[x], p) <=> p \in {PeerOf(y) : y \in seated \ {x}}
    BY DEF PresenceInv, PresenceIsTrue
  <2>4. p \in {PeerOf(y) : y \in seated \ {x}} <=> p \in {PeerOf(y) : y \in (seated \ gone) \ {x}}
    BY <1>5
  <2> QED
    BY <2>2, <2>3, <2>4 DEF more
<1> QED
  BY <1>4, <1>5

\* Frames queued one after another.
LEMMA MailAppends ==
    ASSUME NEW F, NEW a \in Seq(F), NEW b \in Seq(F), NEW c \in Seq(F)
    PROVE  a \o (b \o c) = (a \o b) \o c
OBVIOUS

\* Before anyone comes nothing is queued and nobody is believed in.
LEMMA InitPresenceInv == Init => PresenceInv
BY InitRoomInv DEF Init, PresenceInv, QueuesAreMail, OneRelay, PresenceIsTrue

\* A join that takes its seat is told of all who stay, and they of it and of whom it displaced.
LEMMA JoinSeatsKeepsPresence ==
    ASSUME PresenceInv, RoomInv', NEW s \in Sockets, JoinSeats(s)
    PROVE  PresenceInv'
<1> DEFINE out    == Superseded(s)
           others == seated \ (Replaced(s) \cup out)
           mail   == [x \in others \cup out |->
                          IF x \in others THEN Announcement(s) ELSE <<Closed>>]
<1>1. /\ seated \subseteq Sockets /\ pc[s] = "admitted" /\ s \notin seated
      /\ queue[s] = <<>> /\ queue \in [Sockets -> Seq(Frames)] /\ view \in [Sockets -> SUBSET Peers]
      /\ \A x \in seated : pc[x] = "open"
  BY DEF PresenceInv, RoomInv, RoomTypes, SeatsAreOpen, QueuesAreMail, JoinSeats
<1>2. out \subseteq seated /\ Replaced(s) \subseteq seated
  BY DEF Superseded, Replaced
<1>3. /\ seated' = others \cup {s} /\ ticket' = ticket
      /\ view' = [view EXCEPT ![s] = {PeerOf(x) : x \in others}]
      /\ pc' = [pc EXCEPT ![s] = "open"]
      /\ Enqueue(mail)
  BY DEF JoinSeats
<1>4. \A x \in Sockets : PeerOf(x)' = PeerOf(x) /\ PeerOf(x) \in Peers
  BY <1>3 DEF PeerOf, Peers
<1>5. Partings(out) \in Seq(Frames)
  BY <1>1, <1>2, PartingsSayWhoLeft
<1>6. <<Joined(PeerOf(s))>> \in Seq(Frames) /\ <<Closed>> \in Seq(Frames)
  BY <1>4 DEF Frames
<1>7. Announcement(s) = Partings(out) \o <<Joined(PeerOf(s))>> /\ Announcement(s) \in Seq(Frames)
  BY <1>5, <1>6 DEF Announcement
<1> HIDE DEF others, out
<1>8. /\ DOMAIN mail = others \cup out /\ \A x \in DOMAIN mail : mail[x] \in Seq(Frames)
      /\ \A x \in others : mail[x] = Announcement(s)
  BY <1>6, <1>7
<1>9. others \subseteq seated /\ others \cap out = {}
  BY DEF others
<1> HIDE DEF mail
<1>10. /\ queue' \in [Sockets -> Seq(Frames)]
       /\ \A x \in Sockets \ (others \cup out) : queue'[x] = queue[x]
       /\ \A x \in Sockets \ overflow' :
              x \notin overflow /\ (x \in others \cup out => queue'[x] = queue[x] \o mail[x])
  BY <1>1, <1>2, <1>3, <1>8, <1>9, EnqueueSends DEF PresenceInv
<1>11. QueuesAreMail'
  <2>1. view' \in [Sockets -> SUBSET Peers]
    BY <1>1, <1>3, <1>4, <1>9
  <2>2. \A x \in Sockets : pc'[x] # "open" => queue'[x] = <<>>
    BY <1>1, <1>2, <1>3, <1>9, <1>10 DEF PresenceInv, QueuesAreMail, RoomInv, RoomTypes
  <2> QED
    BY <1>10, <2>1, <2>2 DEF QueuesAreMail, Peers
<1>12. OneRelay'
  BY <1>3 DEF PresenceInv, OneRelay, others, Replaced
<1>13. ASSUME NEW p \in Peers
       PROVE  s \notin overflow' =>
                  (Believes(view'[s], queue'[s], p) <=> p \in {PeerOf(y)' : y \in seated' \ {s}})
  <2>1. queue'[s] = <<>> /\ view'[s] = {PeerOf(x) : x \in others}
    BY <1>1, <1>2, <1>3, <1>9, <1>10
  <2>2. Believes(view'[s], queue'[s], p) <=> p \in view'[s]
    BY <2>1 DEF Believes
  <2>3. seated' \ {s} = others
    BY <1>1, <1>3, <1>9
  <2> QED
    BY <1>1, <1>4, <1>9, <2>1, <2>2, <2>3
<1>14. ASSUME NEW x \in others, x \notin overflow', NEW p \in Peers
       PROVE  Believes(view'[x], queue'[x], p) <=> p \in {PeerOf(y)' : y \in seated' \ {x}}
  <2> DEFINE q    == queue[x] \o Partings(out)
             here == <<Joined(PeerOf(s))>>
  <2>1. /\ x \in seated /\ x \in Sockets /\ x # s /\ x \notin overflow /\ x \in seated \ out
        /\ view'[x] = view[x] /\ queue'[x] = queue[x] \o Announcement(s)
        /\ queue[x] \in Seq(Frames)
    BY <1>1, <1>3, <1>8, <1>9, <1>10, <1>14
  <2>2. q \in Seq(Frames) /\ queue'[x] = q \o here
    <3>1. q \in Seq(Frames) /\ here \in Seq(Frames)
      BY <1>5, <1>6, <2>1
    <3>2. queue'[x] = queue[x] \o (Partings(out) \o here)
      BY <1>7, <2>1
    <3> HIDE DEF here
    <3>3. queue[x] \o (Partings(out) \o here) = (queue[x] \o Partings(out)) \o here
      <4> DEFINE a == queue[x]
                 b == Partings(out)
      <4>1. a \in Seq(Frames) /\ b \in Seq(Frames)
        BY <1>5, <2>1
      <4> HIDE DEF a, b
      <4>2. a \o (b \o here) = (a \o b) \o here
        BY <3>1, <4>1, MailAppends
      <4> QED
        BY <4>2 DEF a, b
    <3> QED
      BY <3>1, <3>2, <3>3
  <2>3. Believes(view[x], q, p) <=> p \in {PeerOf(y) : y \in (seated \ out) \ {x}}
    BY <1>2, <2>1, PartingsAreBelieved
  <2> HIDE DEF q
  <2>4. CASE p = PeerOf(s)
    <3>1. Believes(view[x], queue'[x], p)
      BY <2>2, <2>4, JoinedIsBelieved
    <3>2. p \in {PeerOf(y)' : y \in seated' \ {x}}
      BY <1>3, <1>4, <2>1, <2>4
    <3> QED
      BY <2>1, <3>1, <3>2
  <2>5. CASE p # PeerOf(s)
    <3>1. here \in Seq(Frames) /\ \A i \in DOMAIN here : here[i] # Joined(p) /\ here[i] # Left(p)
      BY <1>6, <2>5, FramesDiffer
    <3> HIDE DEF here
    <3>2. Believes(view[x], queue'[x], p) <=> Believes(view[x], q, p)
      BY <2>2, <3>1, OtherFramesSayNothing
    <3>3. \A y \in Replaced(s) : PeerOf(y) # p
      BY <2>5 DEF Replaced, PeerOf
    <3>4. \A y \in seated \ out : PeerOf(y) = p => y \in others
      BY <3>3 DEF others
    <3>5. others \subseteq seated \ out
      BY <1>9
    <3>6. p \in {PeerOf(y) : y \in (seated \ out) \ {x}} <=> p \in {PeerOf(y) : y \in others \ {x}}
      BY <3>4, <3>5
    <3>7. p \in {PeerOf(y)' : y \in seated' \ {x}} <=> p \in {PeerOf(y) : y \in others \ {x}}
      BY <1>1, <1>3, <1>4, <1>9, <2>5
    <3> QED
      BY <2>1, <2>3, <3>2, <3>6, <3>7
  <2> QED
    BY <2>4, <2>5
<1>15. PresenceIsTrue'
  BY <1>3, <1>13, <1>14 DEF PresenceIsTrue, Peers
<1> QED
  BY <1>11, <1>12, <1>15 DEF PresenceInv

\* To read the next frame keeps what will be believed.
LEMMA DeliverKeepsPresence ==
    ASSUME PresenceInv, RoomInv', NEW s \in Sockets, Deliver(s)
    PROVE  PresenceInv'
<1>1. /\ queue[s] \in Seq(Frames) /\ queue[s] # <<>> /\ pc[s] = "open" /\ view[s] \subseteq Peers
      /\ seated' = seated /\ ticket' = ticket /\ overflow' = overflow /\ pc' = pc
      /\ view' = [view EXCEPT ![s] = Heard(view[s], Head(queue[s]))]
      /\ queue' = [queue EXCEPT ![s] = Tail(queue[s])]
  BY DEF PresenceInv, QueuesAreMail, Deliver, join
<1>2. Tail(queue[s]) \in Seq(Frames) /\ Head(queue[s]) \in Frames
  BY <1>1
<1>3. Heard(view[s], Head(queue[s])) \subseteq Peers
  <2>1. \A p \in Peers : Joined(p).peer = p /\ Left(p).peer = p
    BY DEF Joined, Left
  <2>2. Head(queue[s]).kind = "joined" => Head(queue[s]).peer \in Peers
    BY <1>2, <2>1 DEF Frames, Closed, Data, Left
  <2> QED
    BY <1>1, <2>2 DEF Heard
<1>4. QueuesAreMail'
  <2>1. queue' \in [Sockets -> Seq(Frames)]
    BY <1>1, <1>2 DEF PresenceInv, QueuesAreMail
  <2>2. view' \in [Sockets -> SUBSET Peers]
    BY <1>1, <1>3 DEF PresenceInv, QueuesAreMail
  <2>3. \A x \in Sockets : pc'[x] # "open" => queue'[x] = <<>>
    BY <1>1 DEF PresenceInv, QueuesAreMail
  <2> QED
    BY <2>1, <2>2, <2>3 DEF QueuesAreMail, Frames, Peers, Closed, Data, Joined, Left
<1>5. OneRelay'
  BY <1>1 DEF PresenceInv, OneRelay
<1>6. ASSUME NEW x \in seated, NEW p \in Peers
      PROVE  Believes(view'[x], queue'[x], p) <=> Believes(view[x], queue[x], p)
  <2>1. x \in Sockets
    BY DEF PresenceInv, RoomInv, RoomTypes
  <2>2. CASE x = s
    BY <1>1, <2>1, <2>2, HearingChangesNothing DEF PresenceInv, QueuesAreMail
  <2>3. CASE x # s
    BY <1>1, <2>1, <2>3 DEF PresenceInv, QueuesAreMail
  <2> QED
    BY <2>2, <2>3
<1>7. \A x : PeerOf(x)' = PeerOf(x)
  BY <1>1 DEF PeerOf
<1>8. PresenceIsTrue'
  BY <1>1, <1>6, <1>7 DEF PresenceInv, PresenceIsTrue, Peers
<1> QED
  BY <1>4, <1>5, <1>8 DEF PresenceInv

\* A socket that ends clears its queue, and those who stay are told it left if it had a seat.
LEMMA EndsKeepsPresence ==
    ASSUME PresenceInv, RoomInv', NEW s \in Sockets, Ends(s)
    PROVE  PresenceInv'
<1> DEFINE gone == Leaves(s)
           stay == seated \ gone
<1>1. /\ seated \subseteq Sockets /\ gone = seated \cap {s}
      /\ queue \in [Sockets -> Seq(Frames)] /\ view \in [Sockets -> SUBSET Peers]
  BY DEF PresenceInv, RoomInv, RoomTypes, QueuesAreMail, Leaves
<1>2. /\ seated' = stay /\ pc' = [pc EXCEPT ![s] = "gone"]
      /\ view' = [view EXCEPT ![s] = {}] /\ ticket' = [ticket EXCEPT ![s] = None]
      /\ queue' = [x \in Sockets |-> CASE x = s -> <<>>
                                       [] x \in stay -> Fits(x, Partings(gone))
                                       [] OTHER -> queue[x]]
      /\ overflow' = (overflow \ {s}) \cup
                         {x \in stay : Len(queue[x]) + Cardinality(gone) > QueueCap}
  BY DEF Ends
<1> HIDE DEF gone
<1>3. Partings(gone) \in Seq(Frames) /\ Len(Partings(gone)) = Cardinality(gone)
  <2>1. gone \in SUBSET Sockets
    BY <1>1
  <2>2. Partings(gone) \in Seq(Frames)
    BY <2>1, PartingsSayWhoLeft
  <2>3. CASE gone = {}
    <3>1. Partings(gone) = <<>>
      BY <2>1, <2>3, PartingsSayWhoLeft
    <3> QED
      BY <2>2, <2>3, <3>1, FS_EmptySet
  <2>4. CASE gone = {s}
    <3>1. Len(Partings(gone)) = 1
      BY <2>1, <2>4, PartingsSayWhoLeft
    <3> QED
      BY <2>2, <2>4, <3>1, FS_Singleton
  <2> QED
    BY <1>1, <2>3, <2>4
<1>4. s \notin stay
  BY <1>1
<1> HIDE DEF stay
<1>5. \A x \in Sockets : Fits(x, Partings(gone)) \in Seq(Frames)
  BY <1>3, FitsKeepsMail DEF PresenceInv
<1>6. QueuesAreMail'
  <2>1. queue' \in [Sockets -> Seq(Frames)]
    <3>1. ASSUME NEW x \in Sockets
          PROVE  queue'[x] \in Seq(Frames)
      <4>1. CASE x = s
        <5>1. queue'[x] = <<>>
          BY <1>2, <1>4, <4>1
        <5> QED
          BY <5>1
      <4>2. CASE x # s /\ x \in stay
        BY <1>2, <1>5, <4>2
      <4>3. CASE x # s /\ x \notin stay
        BY <1>1, <1>2, <4>3
      <4> QED
        BY <4>1, <4>2, <4>3
    <3> QED
      BY <1>2, <3>1
  <2>2. view' \in [Sockets -> SUBSET Peers]
    BY <1>1, <1>2
  <2>3. \A x \in Sockets : pc'[x] # "open" => queue'[x] = <<>>
    <3>1. \A x \in stay : x # s /\ pc[x] = "open"
      BY <1>4 DEF stay, PresenceInv, RoomInv, SeatsAreOpen
    <3> QED
      BY <1>1, <1>2, <3>1 DEF PresenceInv, QueuesAreMail, RoomInv, RoomTypes
  <2> QED
    BY <2>1, <2>2, <2>3 DEF QueuesAreMail, Frames, Peers, Closed, Data, Joined, Left
<1>7. \A x \in stay : ticket'[x] = ticket[x] /\ PeerOf(x)' = PeerOf(x)
  BY <1>1, <1>2, <1>4 DEF PeerOf, stay
<1>8. OneRelay'
  BY <1>2, <1>7 DEF PresenceInv, OneRelay, stay
<1>9. ASSUME NEW x \in stay, x \notin overflow', NEW p \in Peers
      PROVE  Believes(view'[x], queue'[x], p) <=> p \in {PeerOf(y)' : y \in seated' \ {x}}
  <2>1. x \in Sockets /\ x # s /\ x \in seated \ gone /\ x \notin overflow /\ view'[x] = view[x]
    BY <1>1, <1>2, <1>4, <1>9 DEF stay
  <2>2. ~(Len(queue[x]) + Len(Partings(gone)) > QueueCap)
    BY <1>2, <1>3, <1>9
  <2>3. queue'[x] = queue[x] \o Partings(gone)
    <3>1. Len(queue[x]) \in Nat /\ Len(Partings(gone)) \in Nat
      BY <1>1, <1>3, <2>1
    <3>2. Len(queue[x]) + Len(Partings(gone)) <= QueueCap
      BY <2>2, <3>1, RoomAssumption
    <3>3. Fits(x, Partings(gone)) = queue[x] \o Partings(gone)
      BY <1>3, <2>1, <3>2, FitsKeepsMail DEF PresenceInv
    <3> QED
      BY <1>2, <1>9, <2>1, <3>3
  <2>4. Believes(view[x], queue[x] \o Partings(gone), p)
            <=> p \in {PeerOf(y) : y \in (seated \ gone) \ {x}}
    BY <1>1, <2>1, PartingsAreBelieved
  <2>5. p \in {PeerOf(y) : y \in (seated \ gone) \ {x}}
            <=> p \in {PeerOf(y)' : y \in seated' \ {x}}
    BY <1>2, <1>7 DEF stay
  <2> QED
    BY <2>1, <2>3, <2>4, <2>5
<1>10. PresenceIsTrue'
  BY <1>2, <1>9 DEF PresenceIsTrue, Peers
<1> QED
  BY <1>6, <1>8, <1>10 DEF PresenceInv

\* A message for a peer says nothing of who is there.
LEMMA PublishKeepsPresence ==
    ASSUME PresenceInv, RoomInv', NEW s \in Sockets, NEW x \in Sockets,
           NEW d \in Devices \cup {None}, Publish(s, x, d)
    PROVE  PresenceInv'
<1> DEFINE mail == [y \in {x} |-> <<Data>>]
<1>1. /\ x \in seated /\ seated \subseteq Sockets /\ pc[x] = "open"
      /\ queue \in [Sockets -> Seq(Frames)]
      /\ seated' = seated /\ ticket' = ticket /\ pc' = pc /\ view' = view /\ Enqueue(mail)
  BY DEF PresenceInv, RoomInv, RoomTypes, SeatsAreOpen, QueuesAreMail, Publish, join
<1>2. <<Data>> \in Seq(Frames)
  BY DEF Frames
<1>3. DOMAIN mail = {x} /\ mail[x] = <<Data>>
  OBVIOUS
<1> HIDE DEF mail
<1>4. /\ queue' \in [Sockets -> Seq(Frames)]
      /\ \A y \in Sockets \ {x} : queue'[y] = queue[y]
      /\ \A y \in Sockets \ overflow' :
             y \notin overflow /\ (y = x => queue'[y] = queue[y] \o <<Data>>)
  <2>1. DOMAIN mail \subseteq Sockets /\ \A y \in DOMAIN mail : mail[y] \in Seq(Frames)
    BY <1>2, <1>3
  <2>2. /\ queue' \in [Sockets -> Seq(Frames)]
        /\ \A y \in Sockets \ DOMAIN mail : queue'[y] = queue[y]
        /\ \A y \in Sockets \ overflow' :
               y \notin overflow /\ (y \in DOMAIN mail => queue'[y] = queue[y] \o mail[y])
    BY <1>1, <2>1, EnqueueSends DEF PresenceInv
  <2> QED
    BY <1>3, <2>2
<1>5. QueuesAreMail'
  BY <1>1, <1>4 DEF PresenceInv, QueuesAreMail, Frames, Peers, Closed, Data, Joined, Left
<1>6. OneRelay'
  BY <1>1 DEF PresenceInv, OneRelay
<1>7. ASSUME NEW y \in seated \ overflow', NEW p \in Peers
      PROVE  Believes(view'[y], queue'[y], p) <=> Believes(view[y], queue[y], p)
  <2>1. CASE y # x
    BY <1>1, <1>4, <1>7, <2>1
  <2>2. CASE y = x
    <3> DEFINE note == <<Data>>
    <3>1. note \in Seq(Frames) /\ \A i \in DOMAIN note : note[i] # Joined(p) /\ note[i] # Left(p)
      BY <1>2, FramesDiffer
    <3>2. queue'[y] = queue[y] \o note /\ queue[y] \in Seq(Frames)
      BY <1>1, <1>4, <1>7, <2>2
    <3> HIDE DEF note
    <3> QED
      BY <1>1, <3>1, <3>2, OtherFramesSayNothing
  <2> QED
    BY <2>1, <2>2
<1>8. \A y : PeerOf(y)' = PeerOf(y)
  BY <1>1 DEF PeerOf
<1>9. PresenceIsTrue'
  BY <1>1, <1>4, <1>7, <1>8 DEF PresenceInv, PresenceIsTrue, Peers
<1> QED
  BY <1>5, <1>6, <1>9 DEF PresenceInv

\* When the room is closed nobody is left to believe anything.
LEMMA ForceCloseKeepsPresence ==
    ASSUME PresenceInv, RoomInv', ForceClose
    PROVE  PresenceInv'
<1> DEFINE mail == [x \in seated |-> <<Closed>>]
<1>1. /\ seated \subseteq Sockets /\ \A x \in seated : pc[x] = "open"
      /\ seated' = {} /\ pc' = pc /\ view' = view /\ Enqueue(mail)
  BY DEF PresenceInv, RoomInv, RoomTypes, SeatsAreOpen, ForceClose, join
<1>2. DOMAIN mail = seated /\ \A x \in seated : mail[x] \in Seq(Frames)
  BY DEF Frames
<1> HIDE DEF mail
<1>3. /\ queue' \in [Sockets -> Seq(Frames)]
      /\ \A x \in Sockets \ seated : queue'[x] = queue[x]
  BY <1>1, <1>2, EnqueueSends DEF PresenceInv
<1>4. QueuesAreMail'
  BY <1>1, <1>3 DEF PresenceInv, QueuesAreMail, Frames, Peers, Closed, Data, Joined, Left
<1> QED
  BY <1>1, <1>4 DEF PresenceInv, OneRelay, PresenceIsTrue

\* A revocation closes its seats, and those who stay are told.
LEMMA CloseRevokedKeepsPresence ==
    ASSUME PresenceInv, RoomInv', NEW D \in Revocations, CloseRevoked(D)
    PROVE  PresenceInv'
<1> DEFINE gone == RevokedSeats(D)
           mail == [x \in IF gone = {} THEN {} ELSE seated |->
                        IF x \in gone THEN <<Closed>> ELSE Partings(gone)]
<1>1. /\ seated \subseteq Sockets /\ gone \subseteq seated /\ \A x \in seated : pc[x] = "open"
      /\ queue \in [Sockets -> Seq(Frames)]
      /\ seated' = seated \ gone /\ ticket' = ticket /\ pc' = pc /\ view' = view /\ Enqueue(mail)
  BY DEF PresenceInv, RoomInv, RoomTypes, SeatsAreOpen, QueuesAreMail, CloseRevoked, join,
         RevokedSeats
<1> HIDE DEF gone
<1>2. Partings(gone) \in Seq(Frames)
  BY <1>1, PartingsSayWhoLeft
<1>3. <<Closed>> \in Seq(Frames)
  BY DEF Frames
<1>4. /\ DOMAIN mail \subseteq Sockets /\ DOMAIN mail = IF gone = {} THEN {} ELSE seated
      /\ \A x \in DOMAIN mail : mail[x] \in Seq(Frames)
      /\ \A x \in DOMAIN mail \ gone : mail[x] = Partings(gone)
  BY <1>1, <1>2, <1>3
<1> HIDE DEF mail
<1>5. /\ queue' \in [Sockets -> Seq(Frames)]
      /\ \A x \in Sockets \ DOMAIN mail : queue'[x] = queue[x]
      /\ \A x \in Sockets \ overflow' :
             x \notin overflow /\ (x \in DOMAIN mail => queue'[x] = queue[x] \o mail[x])
  BY <1>1, <1>4, EnqueueSends DEF PresenceInv
<1>6. QueuesAreMail'
  BY <1>1, <1>4, <1>5 DEF PresenceInv, QueuesAreMail, Frames, Peers, Closed, Data, Joined, Left
<1>7. OneRelay'
  BY <1>1 DEF PresenceInv, OneRelay
<1>8. ASSUME NEW x \in seated \ gone, x \notin overflow', NEW p \in Peers
      PROVE  Believes(view'[x], queue'[x], p) <=> p \in {PeerOf(y) : y \in (seated \ gone) \ {x}}
  <2>1. x \in Sockets /\ x \notin overflow
    BY <1>1, <1>5, <1>8
  <2>2. CASE gone = {}
    <3>1. queue'[x] = queue[x]
      BY <1>4, <1>5, <2>1, <2>2
    <3> QED
      BY <1>1, <1>8, <2>1, <2>2, <3>1 DEF PresenceInv, PresenceIsTrue
  <2>3. CASE gone # {}
    <3>1. queue'[x] = queue[x] \o Partings(gone)
      BY <1>4, <1>5, <1>8, <2>1, <2>3
    <3>2. Believes(view[x], queue[x] \o Partings(gone), p)
              <=> p \in {PeerOf(y) : y \in (seated \ gone) \ {x}}
      BY <1>1, <1>8, <2>1, PartingsAreBelieved
    <3> QED
      BY <1>1, <3>1, <3>2
  <2> QED
    BY <2>2, <2>3
<1>9. \A x : PeerOf(x)' = PeerOf(x)
  BY <1>1 DEF PeerOf
<1>10. PresenceIsTrue'
  BY <1>1, <1>8, <1>9 DEF PresenceIsTrue, Peers
<1> QED
  BY <1>6, <1>7, <1>10 DEF PresenceInv

\* A step towards a seat, short of taking it, is nothing to those who are seated.
LEMMA JoinStepsKeepPresence ==
    ASSUME PresenceInv, RoomInv', NEW s \in Sockets,
           \/ \E t \in Tickets : JoinStarts(s, t)
           \/ JoinChecksRoom(s) \/ JoinChecksAccess(s) \/ JoinProves(s) \/ JoinIsRefused(s)
    PROVE  PresenceInv'
<1>1. /\ UNCHANGED <<seated, queue, overflow, view>> /\ pc[s] # "open"
      /\ ticket' = ticket \/ \E t : ticket' = [ticket EXCEPT ![s] = t]
      /\ \E k : pc' = [pc EXCEPT ![s] = k]
  BY DEF JoinStarts, JoinChecksRoom, JoinChecksAccess, JoinProves, JoinIsRefused, room
<1>2. s \notin seated
  BY <1>1 DEF PresenceInv, RoomInv, SeatsAreOpen
<1>3. \A x \in seated : ticket'[x] = ticket[x]
  BY <1>1, <1>2 DEF PresenceInv, RoomInv, RoomTypes
<1>4. \A x \in Sockets : pc[x] = "open" => pc'[x] = "open"
  BY <1>1 DEF PresenceInv, RoomInv, RoomTypes
<1> QED
  BY <1>1, <1>3, <1>4, PresenceIsKept

\* Every step keeps what is believed true.
LEMMA NextPresenceInv == PresenceInv /\ [Next]_vars => PresenceInv'
<1> SUFFICES ASSUME PresenceInv, [Next]_vars
             PROVE  PresenceInv'
  OBVIOUS
<1>1. RoomInv'
  BY NextRoomInv DEF PresenceInv
<1>2. CASE UNCHANGED <<pc, ticket, seated, queue, overflow, view>>
  BY <1>1, <1>2, PresenceIsKept
<1>3. ASSUME NEW s \in Sockets,
             Joining(s) \/ Deliver(s) \/ SocketCloses(s) \/ SocketIsDropped(s)
      PROVE  PresenceInv'
  <2>1. CASE JoinSeats(s)
    BY <1>1, <2>1, JoinSeatsKeepsPresence
  <2>2. CASE Deliver(s)
    BY <1>1, <2>2, DeliverKeepsPresence
  <2>3. CASE SocketCloses(s) \/ SocketIsDropped(s)
    BY <1>1, <2>3, EndsKeepsPresence DEF SocketCloses, SocketIsDropped
  <2> QED
    BY <1>1, <1>3, <2>1, <2>2, <2>3, JoinStepsKeepPresence DEF Joining
<1>4. CASE \E s, x \in Sockets, d \in Devices \cup {None} : Publish(s, x, d)
  BY <1>1, <1>4, PublishKeepsPresence
<1>5. CASE ReleaseCloses \/ RecheckCloses
  BY <1>1, <1>5, ForceCloseKeepsPresence DEF ReleaseCloses, RecheckCloses
<1>6. CASE \E D \in Revocations : CloseRevoked(D)
  BY <1>1, <1>6, CloseRevokedKeepsPresence
<1>7. CASE \/ ReleaseStarts \/ ReleaseCleansUp \/ ReleaseIsDropped \/ RecheckIsDenied
           \/ \E D \in Revocations : Revoke(D) \/ RevokeFails(D)
           \/ \E d \in Devices : Grant(d)
           \/ AccessLapses \/ AccessReturns
  <2>1. UNCHANGED <<pc, ticket, seated, queue, overflow, view>>
    BY <1>7 DEF ReleaseStarts, ReleaseCleansUp, ReleaseIsDropped, RecheckIsDenied, Revoke,
                RevokeFails, Grant, AccessLapses, AccessReturns, join, room
  <2> QED
    BY <1>2, <2>1
<1>8. CASE UNCHANGED vars
  BY <1>2, <1>8 DEF vars
<1> QED
  BY <1>3, <1>4, <1>5, <1>6, <1>7, <1>8 DEF Next, Releasing

\* Once its queue is read, a seated peer whose queue has not overflowed believes in exactly the
\* peers seated besides it (join, unseat, Presence).
THEOREM PresenceStaysTrue == Spec => []PresenceIsTrue
<1>1. PresenceInv => PresenceIsTrue
  BY DEF PresenceInv
<1> QED
  BY <1>1, InitPresenceInv, NextPresenceInv, PTL DEF Spec

=============================================================================
