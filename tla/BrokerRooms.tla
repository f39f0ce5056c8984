----------------------------- MODULE BrokerRooms -----------------------------
(***************************************************************************)
(* A room of the broker: the relay and the surfaces seated in it, the      *)
(* frames queued for each, and the calls that take access away while peers *)
(* are seated or on their way in.  A join is checked in several awaits and *)
(* seated in one; what holds it together is access_epoch, read before the  *)
(* first check and compared when the seat is taken.                        *)
(*                                                                         *)
(* A socket is one connection.  The access strategy is external: it allows *)
(* or denies the relay, changes its mind, or does not answer.              *)
(***************************************************************************)
EXTENDS Integers, Sequences, FiniteSets, SequencesExt

CONSTANTS MaxSockets,  \* bound: connections, one after another or at once
          Devices,     \* devices that hold a ws token for the room
          Pairings,    \* pairing tickets, each in somebody's QR
          Relay,       \* the relay's ticket, and the peer id it pins
          None,
          QueueCap,    \* OUTBOUND_QUEUE_CAPACITY
          MaxActs      \* bound: frames published, and calls that change access

ASSUME RoomAssumption ==
    /\ QueueCap \in Nat \ {0} /\ MaxActs \in Nat /\ MaxSockets \in Nat
    /\ Relay \notin Devices \cup Pairings \cup {None} \cup 1..MaxSockets
    /\ None \notin Devices \cup Pairings
    /\ Devices \cap Pairings = {}

VARIABLES pc,          \* how far a socket is: away, then its join, open, gone
          ticket,      \* the join ticket it came with
          current,     \* joins under way whose epoch, read first, is still access_epoch
          seated,      \* the sockets whose handle is in the room
          device,      \* device_id of a seat
          queue,       \* frames on their way to a socket
          overflow,    \* sockets whose queue was full when a frame was due
          view,        \* the peers a client believes are there besides itself
          registered,  \* the control plane has a registration for the room
          granted,     \* devices with a grant
          allowed,     \* the access strategy lets the relay in
          closing,     \* revocations saved, whose seats are still to be closed
          release,     \* where the release of the relay's access is
          recheck,     \* the periodic recheck has been told the relay is denied
          acts,        \* bound: see MaxActs
          told,        \* history: sockets that lost their seat to a later join or a closure
          freed,       \* history: a release was answered and access has not come back
          cut          \* history: revocations answered, for devices not granted or named since

join    == <<pc, ticket>>
room    == <<current, seated, device, queue, overflow, view>>
access  == <<registered, granted, allowed>>
calls   == <<closing, release, recheck, acts>>
history == <<told, freed, cut>>
vars    == <<pc, ticket, current, seated, device, queue, overflow, view, registered, granted,
             allowed, closing, release, recheck, acts, told, freed, cut>>

\* Connections in the order they are made.
Sockets == 1..MaxSockets

Tickets == {Relay} \cup Devices \cup Pairings
Closed == [kind |-> "error"]
Data   == [kind |-> "message"]
Joined(p) == [kind |-> "joined", peer |-> p]
Left(p)   == [kind |-> "left", peer |-> p]

\* The relay's ticket pins its peer id; a surface is given one of its own.
PeerOf(s) == IF ticket[s] = Relay THEN Relay ELSE s
Peers == Sockets \cup {Relay}

Init ==
    /\ pc = [s \in Sockets |-> "away"] /\ ticket = [s \in Sockets |-> None]
    /\ current = {} /\ seated = {} /\ device = [s \in Sockets |-> None]
    /\ queue = [s \in Sockets |-> <<>>] /\ overflow = {} /\ view = [s \in Sockets |-> {}]
    /\ registered = TRUE /\ granted = Devices /\ allowed = TRUE
    /\ closing = {} /\ release = "idle" /\ recheck = FALSE /\ acts = 0
    /\ told = {} /\ freed = FALSE /\ cut = {}

(* --------------------------- Frames and seats --------------------------- *)

\* What enqueue leaves of frames for a socket: those that still fit.
Fits(s, frames) ==
    LET all == queue[s] \o frames
    IN  IF Len(all) <= QueueCap THEN all ELSE SubSeq(all, 1, QueueCap)

\* Everyone in mail is sent their frames, and is marked when one of them does not fit.
Enqueue(mail) ==
    /\ queue' = [s \in Sockets |-> IF s \in DOMAIN mail THEN Fits(s, mail[s]) ELSE queue[s]]
    /\ overflow' = overflow \cup
           {s \in DOMAIN mail : Len(queue[s]) + Len(mail[s]) > QueueCap}

\* unseat: the sockets out of the room, and the rest told that they left.
Partings(gone) == SetToSeq({Left(PeerOf(s)) : s \in gone})

\* Variant: leave without a connection id.
LeavesWhoeverHoldsIt(s) == {x \in seated : PeerOf(x) = PeerOf(s)}

\* leave_connection: a socket gives up its own seat, never its successor's.
Leaves(s) == seated \cap {s}

(* -------------------------------- Joining -------------------------------- *)

\* The ticket is verified and the epoch read, before anything is asked.
JoinStarts(s, t) ==
    /\ pc[s] = "away" /\ \A x \in Sockets : pc[x] = "away" => s <= x
    /\ pc' = [pc EXCEPT ![s] = "verified"] /\ ticket' = [ticket EXCEPT ![s] = t]
    /\ current' = current \cup {s}
    /\ UNCHANGED <<seated, device, queue, overflow, view, access, calls, history>>

\* relay_id_for_join: the room is registered, and a device's grant is still there.
JoinChecksRoom(s) ==
    /\ pc[s] = "verified" /\ registered
    /\ ticket[s] \in Devices => ticket[s] \in granted
    /\ pc' = [pc EXCEPT ![s] = "known"]
    /\ UNCHANGED <<ticket, room, access, calls, history>>

\* authorize_relay or authorize_device.
JoinChecksAccess(s) ==
    /\ pc[s] = "known" /\ allowed
    /\ pc' = [pc EXCEPT ![s] = IF ticket[s] = Relay THEN "unproven" ELSE "admitted"]
    /\ UNCHANGED <<ticket, room, access, calls, history>>

\* A relay proves its key against the registration, over the socket.
JoinProves(s) ==
    /\ pc[s] = "unproven" /\ registered
    /\ pc' = [pc EXCEPT ![s] = "admitted"]
    /\ UNCHANGED <<ticket, room, access, calls, history>>

\* A check fails, a limit is reached, or the client goes away first.
JoinIsRefused(s) ==
    /\ pc[s] \in {"verified", "known", "unproven", "admitted"}
    /\ pc' = [pc EXCEPT ![s] = "gone"] /\ ticket' = [ticket EXCEPT ![s] = None]
    /\ current' = current \ {s}
    /\ UNCHANGED <<seated, device, queue, overflow, view, access, calls, history>>

\* Variant: join without an expected epoch.
EpochIgnored(s) == TRUE

\* The epoch is the one the join started from.
EpochHolds(s) == s \in current

\* The earlier connection of a relay that joins again.
Replaced(s) == {x \in seated : ticket[s] = Relay /\ ticket[x] = Relay}

\* The earlier holder of the same pairing ticket.
Superseded(s) == {x \in seated : ticket[s] \in Pairings /\ ticket[x] = ticket[s]}

\* Variant: the seat is taken from its earlier holder without a word.
AnnouncementOfTheNewcomer(s) == <<Joined(PeerOf(s))>>

\* The frames the rest of the room gets of a join: who made way, who came.
Announcement(s) == Partings(Superseded(s)) \o <<Joined(PeerOf(s))>>

\* join_if_access_epoch: under the room's lock the newcomer takes its seat, those it displaces
\* lose theirs, the others are told and it is given the list of them.
JoinSeats(s) ==
    LET others == seated \ (Replaced(s) \cup Superseded(s))
    IN  /\ pc[s] = "admitted" /\ EpochHolds(s)
        /\ seated' = others \cup {s}
        /\ device' = [device EXCEPT ![s] = IF ticket[s] \in Devices THEN ticket[s] ELSE None]
        /\ Enqueue([x \in others \cup Superseded(s) |->
                        IF x \in others THEN Announcement(s) ELSE <<Closed>>])
        /\ view' = [view EXCEPT ![s] = {PeerOf(x) : x \in others}]
        /\ pc' = [pc EXCEPT ![s] = "open"] /\ current' = current \ {s}
        /\ told' = told \cup Replaced(s) \cup Superseded(s)
        /\ UNCHANGED <<ticket, access, calls, freed, cut>>

(* ----------------------------- A seated socket ---------------------------- *)

Heard(seen, frame) ==
    CASE frame.kind = "joined" -> seen \cup {frame.peer}
      [] frame.kind = "left"   -> seen \ {frame.peer}
      [] OTHER                 -> seen

\* The socket's loop sends the next frame; the client follows who is there.
Deliver(s) ==
    /\ pc[s] = "open" /\ queue[s] # <<>>
    /\ view' = [view EXCEPT ![s] = Heard(@, Head(queue[s]))]
    /\ queue' = [queue EXCEPT ![s] = Tail(@)]
    /\ UNCHANGED <<join, current, seated, device, overflow, access, calls, history>>

\* The loop ends, the socket leaves and what it held is gone with it.
Ends(s) ==
    /\ pc[s] = "open"
    /\ pc' = [pc EXCEPT ![s] = "gone"]
    /\ seated' = seated \ Leaves(s)
    /\ queue' = [x \in Sockets |->
                    CASE x = s -> <<>>
                      [] x \in seated \ Leaves(s) -> Fits(x, Partings(Leaves(s)))
                      [] OTHER -> queue[x]]
    /\ overflow' = (overflow \ {s}) \cup
           {x \in seated \ Leaves(s) : Len(queue[x]) + Cardinality(Leaves(s)) > QueueCap}
    /\ view' = [view EXCEPT ![s] = {}] /\ device' = [device EXCEPT ![s] = None]
    /\ ticket' = [ticket EXCEPT ![s] = None] /\ told' = told \ {s}
    /\ UNCHANGED <<current, access, calls, freed, cut>>

\* The client closes or falls silent, a frame of its own is refused, or a send fails.
SocketCloses(s) == Ends(s)

\* The handle was dropped and what was queued is sent, or the queue was full.
SocketIsDropped(s) ==
    /\ s \in overflow \/ (s \notin seated /\ queue[s] = <<>>)
    /\ Ends(s)

\* publish_connection: a frame for a peer of the other role.  A pairing result of the relay
\* names the device that a pairing seat of that ticket belongs to from now on.
Publish(s, x, d) ==
    LET names == ticket[s] = Relay /\ device[x] = None /\ ticket[x] \in Pairings /\ d # None
    IN  /\ pc[s] = "open" /\ s \in seated /\ x \in seated
        /\ (ticket[s] = Relay) # (ticket[x] = Relay)
        /\ acts < MaxActs /\ acts' = acts + 1
        /\ device' = IF names THEN [device EXCEPT ![x] = d] ELSE device
        /\ cut' = IF names THEN cut \ {d} ELSE cut
        /\ Enqueue([y \in {x} |-> <<Data>>])
        /\ UNCHANGED <<join, current, seated, view, access, closing, release, recheck, told, freed>>

(* ------------------------- Access is taken away -------------------------- *)

\* force_close_room: everyone loses their seat, and no join under way will get one.
ForceClose ==
    /\ current' = {} /\ seated' = {} /\ told' = told \cup seated
    /\ Enqueue([x \in seated |-> <<Closed>>])
    /\ UNCHANGED <<join, device, view>>

\* A call that changes who may come in is made.
Acts == acts < MaxActs /\ acts' = acts + 1

\* release_access: the strategy lets go of the relay, under its lifecycle lock.
ReleaseStarts ==
    /\ Acts /\ release = "idle" /\ registered
    /\ allowed' = FALSE /\ release' = "released"
    /\ UNCHANGED <<join, room, registered, granted, closing, recheck, history>>

\* revoke_relay_registration_chain: the registration and the grants go, or the save fails and
\* they stay.
ReleaseCleansUp ==
    /\ release = "released"
    /\ \/ registered' = FALSE /\ granted' = {}
       \/ UNCHANGED <<registered, granted>>
    /\ release' = "cleaned"
    /\ UNCHANGED <<join, room, allowed, closing, recheck, acts, history>>

\* The room is closed whatever became of the clean-up, and the call is answered.
ReleaseCloses ==
    /\ release = "cleaned" /\ ForceClose
    /\ release' = "idle" /\ freed' = ~allowed
    /\ UNCHANGED <<access, closing, recheck, acts, cut>>

\* The caller goes away while the clean-up is being saved; the rest does not happen.
ReleaseIsDropped ==
    /\ release = "released"
    /\ \/ registered' = FALSE /\ granted' = {}
       \/ UNCHANGED <<registered, granted>>
    /\ release' = "idle"
    /\ UNCHANGED <<join, room, allowed, closing, recheck, acts, history>>

\* The devices one call revokes: one of them, or all but one.  A call that revokes nobody only
\* makes joins under way start over, and they may be refused at any time.
Revocations == ({{d} : d \in Devices} \cup {Devices \ {d} : d \in Devices}) \ {{}}

\* revoke_device_grant and revoke_other_device_grants, saved.
Revoke(D) ==
    /\ Acts /\ registered
    /\ granted' = granted \ D /\ closing' = closing \cup {D}
    /\ UNCHANGED <<join, room, registered, allowed, release, recheck, history>>

\* The save fails without being undone, or the caller goes away during it: the grants are gone
\* from memory and no seat is closed.
RevokeFails(D) ==
    /\ Acts /\ registered /\ D \cap granted # {}
    /\ granted' = granted \ D
    /\ UNCHANGED <<join, room, registered, allowed, closing, release, recheck, history>>

\* Variant: only seats that came with a ticket of the device.
RevokedTickets(D) == {s \in seated : ticket[s] \in D}

\* The surfaces a revocation closes.
RevokedSeats(D) == {s \in seated : ticket[s] # Relay /\ device[s] \in D}

\* close_revoked_surfaces: they lose their seats, and no join under way will get one.
CloseRevoked(D) ==
    LET gone == RevokedSeats(D)
    IN  /\ D \in closing /\ closing' = closing \ {D}
        /\ current' = {}
        /\ seated' = seated \ gone /\ told' = told \cup gone
        /\ Enqueue([x \in IF gone = {} THEN {} ELSE seated |->
                        IF x \in gone THEN <<Closed>> ELSE Partings(gone)])
        /\ cut' = cut \cup (D \ granted)
        /\ UNCHANGED <<join, device, view, access, release, recheck, acts, freed>>

\* Variant: only rooms a relay is seated in are asked about.
RecheckIsDeniedForRelays ==
    /\ ~recheck /\ registered /\ ~allowed /\ \E s \in seated : ticket[s] = Relay
    /\ recheck' = TRUE
    /\ UNCHANGED <<join, room, access, closing, release, acts, history>>

\* recheck_room_access asks for a room that is in use and has a registration; no answer, or a
\* good one, changes nothing.
RecheckIsDenied ==
    /\ ~recheck /\ seated # {} /\ registered /\ ~allowed
    /\ recheck' = TRUE
    /\ UNCHANGED <<join, room, access, closing, release, acts, history>>

RecheckCloses ==
    /\ recheck /\ recheck' = FALSE
    /\ ForceClose
    /\ UNCHANGED <<access, closing, release, acts, freed, cut>>

(* ------------------------- Access is given again ------------------------- *)

\* A released relay that enrols again is given a new room (issue_new_relay_ids), so nothing here
\* registers this one again.

\* issue_device_grant.
Grant(d) ==
    /\ Acts /\ registered
    /\ granted' = granted \cup {d} /\ cut' = cut \ {d}
    /\ UNCHANGED <<join, room, registered, allowed, closing, release, recheck, told, freed>>

\* The strategy changes its mind.
AccessLapses ==
    /\ Acts /\ allowed /\ allowed' = FALSE
    /\ UNCHANGED <<join, room, registered, granted, closing, release, recheck, history>>

AccessReturns ==
    /\ Acts /\ ~allowed /\ allowed' = TRUE /\ freed' = FALSE
    /\ UNCHANGED <<join, room, registered, granted, closing, release, recheck, told, cut>>

(* ----------------------------- Specification ----------------------------- *)

Joining(s) ==
    \/ \E t \in Tickets : JoinStarts(s, t)
    \/ JoinChecksRoom(s) \/ JoinChecksAccess(s) \/ JoinProves(s) \/ JoinIsRefused(s)
    \/ JoinSeats(s)

Releasing == ReleaseStarts \/ ReleaseCleansUp \/ ReleaseCloses \/ ReleaseIsDropped

Next ==
    \/ \E s \in Sockets : Joining(s) \/ Deliver(s) \/ SocketCloses(s) \/ SocketIsDropped(s)
    \/ \E s, x \in Sockets, d \in Devices \cup {None} : Publish(s, x, d)
    \/ Releasing
    \/ \E D \in Revocations : Revoke(D) \/ RevokeFails(D) \/ CloseRevoked(D)
    \/ RecheckIsDenied \/ RecheckCloses
    \/ \E d \in Devices : Grant(d)
    \/ AccessLapses \/ AccessReturns

Spec == Init /\ [][Next]_vars

\* The recheck's timer keeps firing, and an access strategy that denies is at last heard.
FairSpec == Spec /\ WF_vars(RecheckIsDenied) /\ WF_vars(RecheckCloses)

(* ------------------------------ Properties ------------------------------- *)

\* Once the release of a relay is answered nobody is seated in its room until the strategy lets
\* the relay in again, joins that were already past their checks included
\* (public_release_relay_access, force_close_room).
ReleasedRoomsAreEmpty == freed => seated = {}

\* Once a revocation is answered the device has no seat until it is granted or named anew, a join
\* that passed its grant check before the revocation included (close_revoked_surfaces).
RevokedDevicesLeave == \A s \in seated : device[s] \notin cut

\* A socket whose loop runs has its seat, unless a later join or a closure took it: the end of a
\* replaced connection does not unseat its successor (leave_connection).
SeatIsOwned == \A s \in Sockets : pc[s] = "open" => s \in seated \/ s \in told

\* What a client believes of p once it has read q: the last frame about p decides, and what it
\* believed before, if there is none.
Believes(seen, q, p) ==
    \/ p \in seen /\ \A i \in DOMAIN q : q[i] # Left(p)
    \/ \E i \in DOMAIN q : q[i] = Joined(p) /\ \A j \in DOMAIN q : j > i => q[j] # Left(p)

\* A seated peer that has read what is queued for it believes exactly in the peers that are
\* seated besides it, whatever joined, left, was replaced or closed around it, unless its queue
\* has overflowed (join, unseat, Presence).
PresenceIsTrue ==
    \A s \in seated \ overflow, p \in Peers :
        Believes(view[s], queue[s], p) <=> p \in {PeerOf(x) : x \in seated \ {s}}

\* A relay that stays denied, in a room that stays registered, does not keep its peers: from some
\* point on the room is empty (recheck_room_access).
DeniedRoomsEmpty == <>[](~allowed /\ registered) => <>[](seated = {})

=============================================================================
