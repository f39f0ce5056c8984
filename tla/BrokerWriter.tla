---------------------------- MODULE BrokerWriter ----------------------------
(***************************************************************************)
(* The write half of a broker session: one task, four queues, and one      *)
(* large reply at a time, sent as a train of chunks an interval apart      *)
(* while ordinary frames overtake it.  Producers hand replies over and     *)
(* never wait; a surface that was there at the hand-over and is gone when  *)
(* a chunk is due has its train abandoned.                                 *)
(*                                                                         *)
(* Deadlines are kept as the time that is left, so nothing grows.          *)
(***************************************************************************)
EXTENDS Integers, Sequences, FiniteSets

CONSTANTS Surfaces,         \* peer ids that ask for large replies
          None,
          MaxReplies,       \* bound: replies handed over, the attempts at it included
          MaxChunks,        \* bound: chunks of a reply
          ChunkInterval,    \* REMOTE_ACTION_RESULT_CHUNK_PUBLISH_INTERVAL_MILLIS
          TerminalInterval, \* TERMINAL_FRAME_INTERVAL
          NowCap,           \* NOW_QUEUE_CAPACITY
          MaxMoves,         \* bound: departures and returns of surfaces
          MaxBeats          \* bound: heartbeat pings

ASSUME WriterAssumption ==
    /\ MaxReplies \in Nat /\ MaxChunks \in Nat \ {0}
    /\ ChunkInterval \in Nat \ {0} /\ TerminalInterval \in Nat \ {0}
    /\ NowCap \in Nat \ {0} /\ MaxMoves \in Nat /\ MaxBeats \in Nat
    /\ None \notin Surfaces

VARIABLES at,           \* where the loop of drive_writer_with_signer is
          sending,      \* the frame being written: its kind, and the reply of a chunk
          closed,       \* now_closed, train_closed, terminal_closed
          train,        \* the reply whose chunks are resident; 0 is none
          watch,        \* train_watch_target
          nextChunk,    \* time left to next_chunk_at; Unset without one
          sinceChunk,   \* time since last_chunk_at, up to ChunkInterval
          held,         \* terminal_frame is there
          nextTerminal, \* time left to next_terminal_at
          pings, now, terminals, \* frames in ping_tx, now_tx and terminal_tx
          trains,       \* replies in train_tx
          dropped,      \* every handle of the writer is gone
          online,       \* surfaces that are in the room
          st,           \* what has become of a reply
          surface,      \* whom it is for
          chunks,       \* its chunks that are still to be sent
          target,       \* the watch_target recorded at its hand-over
          moved,        \* its surface has left since it asked: its lease is not current
          moves, beats  \* bounds

loop    == <<at, sending, closed, train, watch, nextChunk, sinceChunk, held, nextTerminal>>
queues  == <<pings, now, terminals, trains>>
replies == <<st, surface, chunks, target, moved>>
bounds  == <<moves, beats>>
vars    == <<at, sending, closed, train, watch, nextChunk, sinceChunk, held, nextTerminal, pings,
             now, terminals, trains, dropped, online, st, surface, chunks, target, moved,
             moves, beats>>

Replies == 1..MaxReplies

\* TRAIN_QUEUE_CAPACITY and TERMINAL_QUEUE_CAPACITY; one heartbeat is on its way at a time.
TrainCap == 1
TerminalCap == 1

\* No deadline.
Unset == -1

Nothing == [kind |-> "none", reply |-> 0]
Frame(kind) == [kind |-> kind, reply |-> 0]
Chunk(r) == [kind |-> "chunk", reply |-> r]

Running == at # "stopped"

Init ==
    /\ at = "ping" /\ sending = Nothing /\ closed = {} /\ train = 0 /\ watch = None
    /\ nextChunk = Unset /\ sinceChunk = ChunkInterval /\ held = FALSE /\ nextTerminal = 0
    /\ pings = 0 /\ now = 0 /\ terminals = 0 /\ trains = <<>>
    /\ dropped = FALSE /\ online = Surfaces
    /\ st = [r \in Replies |-> "none"] /\ surface = [r \in Replies |-> None]
    /\ chunks = [r \in Replies |-> 0] /\ target = [r \in Replies |-> None]
    /\ moved = [r \in Replies |-> FALSE]
    /\ moves = 0 /\ beats = 0

(* ------------------------------ Surfaces ------------------------------- *)

\* A surface asks for something large while it is in the room; requests are numbered as they
\* come, and whoever answers one holds a handle.
Asks(r, s, n) ==
    /\ st[r] = "none" /\ s \in online /\ ~dropped
    /\ \A q \in Replies : q < r => st[q] # "none"
    /\ st' = [st EXCEPT ![r] = "asked"] /\ surface' = [surface EXCEPT ![r] = s]
    /\ chunks' = [chunks EXCEPT ![r] = n]
    /\ UNCHANGED <<loop, queues, dropped, online, target, moved, bounds>>

\* Something is still to become of the reply.
Open(r) == st[r] \in {"asked", "leased", "probed", "queued"}

\* Its presence ends, and with it the lease of what it has asked for.
Leaves(s) ==
    /\ s \in online /\ moves < MaxMoves
    /\ online' = online \ {s} /\ moves' = moves + 1
    /\ moved' = [r \in Replies |-> moved[r] \/ (surface[r] = s /\ Open(r))]
    /\ UNCHANGED <<loop, queues, dropped, st, surface, chunks, target, beats>>

Returns(s) ==
    /\ s \notin online /\ moves < MaxMoves
    /\ online' = online \cup {s} /\ moves' = moves + 1
    /\ UNCHANGED <<loop, queues, dropped, replies, beats>>

(* ------------------------------ Hand-over ------------------------------ *)

\* publish_remote_action_result_chunks: the lease is checked,
ChecksLease(r) ==
    /\ st[r] = "asked"
    /\ st' = [st EXCEPT ![r] = IF moved[r] THEN "dropped" ELSE "leased"]
    /\ chunks' = [chunks EXCEPT ![r] = IF moved[r] THEN 0 ELSE @]
    /\ UNCHANGED <<loop, queues, dropped, online, surface, target, moved, bounds>>

\* then the presence is probed,
Probes(r) ==
    /\ st[r] = "leased"
    /\ st' = [st EXCEPT ![r] = "probed"]
    /\ target' = [target EXCEPT ![r] = IF surface[r] \in online THEN surface[r] ELSE None]
    /\ UNCHANGED <<loop, queues, dropped, online, surface, chunks, moved, bounds>>

\* and the train is offered: send_train never waits.
Offers(r) ==
    /\ st[r] = "probed"
    /\ \/ /\ Running /\ Len(trains) < TrainCap
          /\ trains' = Append(trains, r) /\ st' = [st EXCEPT ![r] = "queued"]
          /\ UNCHANGED <<chunks, target>>
       \/ /\ ~Running \/ Len(trains) = TrainCap
          /\ st' = [st EXCEPT ![r] = IF Running THEN "busy" ELSE "lost"]
          /\ chunks' = [chunks EXCEPT ![r] = 0] /\ target' = [target EXCEPT ![r] = None]
          /\ UNCHANGED trains
    /\ UNCHANGED <<loop, pings, now, terminals, dropped, online, surface, moved, bounds>>

\* The other producers: heartbeats, ordinary frames, terminal frames.
Beats ==
    /\ Running /\ ~dropped /\ pings = 0 /\ beats < MaxBeats
    /\ pings' = 1 /\ beats' = beats + 1
    /\ UNCHANGED <<loop, now, terminals, trains, dropped, online, replies, moves>>

SendsNow ==
    /\ Running /\ ~dropped /\ now < NowCap /\ now' = now + 1
    /\ UNCHANGED <<loop, pings, terminals, trains, dropped, online, replies, bounds>>

SendsTerminal ==
    /\ Running /\ ~dropped /\ terminals < TerminalCap /\ terminals' = terminals + 1
    /\ UNCHANGED <<loop, pings, now, trains, dropped, online, replies, bounds>>

(* ------------------------------- The loop ------------------------------ *)

Goes(to) == at' = to /\ sending' = Nothing

\* write_broker_frame hands a frame to the socket and awaits it.
Writes(frame) == at' = "writing" /\ sending' = frame

deadlines == <<nextChunk, sinceChunk, nextTerminal>>
trainOf   == <<train, watch, nextChunk>>

\* Variant: a reply that is taken on starts at once.
AcceptsAtOnce ==
    LET r == Head(trains) IN
    /\ trains' = Tail(trains) /\ train' = r /\ watch' = target[r] /\ nextChunk' = 0
    /\ Goes("ping")

\* Variant: for a reply nobody was there for, the surface of the one before is still watched.
AcceptsKeepingWatch ==
    LET r == Head(trains) IN
    /\ trains' = Tail(trains) /\ train' = r
    /\ watch' = IF target[r] = None THEN watch ELSE target[r]
    /\ nextChunk' = ChunkInterval - sinceChunk
    /\ Goes("ping")

\* accept_train: due as soon as the pace allows, across trains.
Accepts ==
    LET r == Head(trains) IN
    /\ trains' = Tail(trains) /\ train' = r /\ watch' = target[r]
    /\ nextChunk' = ChunkInterval - sinceChunk
    /\ Goes("ping")

\* 0. Heartbeats first.
TakesPing ==
    /\ at = "ping"
    /\ IF pings > 0 THEN pings' = pings - 1 /\ Writes(Frame("ping"))
                    ELSE UNCHANGED pings /\ Goes("chunk")
    /\ UNCHANGED <<closed, trainOf, sinceChunk, held, nextTerminal, now, terminals, trains,
                   dropped, online, replies, bounds>>

\* The chunk that is next is taken off the train and written.
PopsChunk ==
    /\ chunks' = [chunks EXCEPT ![train] = @ - 1]
    /\ train' = IF chunks[train] = 1 THEN 0 ELSE train
    /\ Writes(Chunk(train))

\* 1. A chunk that is due, unless its surface has to be looked for first.
TakesChunk ==
    /\ at = "chunk"
    /\ \/ /\ nextChunk = 0 /\ watch = None
          /\ PopsChunk
       \/ /\ nextChunk = 0 /\ watch # None
          /\ Goes("presence") /\ UNCHANGED <<chunks, train>>
       \/ /\ nextChunk # 0
          /\ Goes("accept") /\ UNCHANGED <<chunks, train>>
    /\ UNCHANGED <<closed, watch, deadlines, held, queues, dropped, online, st, surface, target,
                   moved, bounds>>

\* The answer to is_online: the chunk is written, or the whole train is given up.
HearsPresence ==
    /\ at = "presence"
    /\ \/ /\ watch \in online
          /\ PopsChunk /\ UNCHANGED <<watch, nextChunk, st>>
       \/ /\ watch \notin online
          /\ st' = [st EXCEPT ![train] = "cut"] /\ chunks' = [chunks EXCEPT ![train] = 0]
          /\ train' = 0 /\ watch' = None /\ nextChunk' = Unset
          /\ Goes("ping")
    /\ UNCHANGED <<closed, sinceChunk, held, nextTerminal, queues, dropped, online, surface,
                   target, moved, bounds>>

\* Variant: ordinary traffic is drained before a reply is taken on.
TakesTrainLast ==
    /\ at = "accept"
    /\ \/ /\ train = 0 /\ trains # <<>> /\ now = 0
          /\ Accepts /\ UNCHANGED closed
       \/ /\ train # 0 \/ trains = <<>> \/ now > 0
          /\ closed' = IF train = 0 /\ dropped /\ trains = <<>> THEN closed \cup {"train"} ELSE closed
          /\ Goes("ordinary") /\ UNCHANGED <<trainOf, trains>>
    /\ UNCHANGED <<sinceChunk, held, nextTerminal, pings, now, terminals, dropped, online,
                   replies, bounds>>

\* 2. A reply that waits, before ordinary traffic.
TakesTrain ==
    /\ at = "accept"
    /\ \/ /\ train = 0 /\ trains # <<>>
          /\ Accepts /\ UNCHANGED closed
       \/ /\ train # 0 \/ trains = <<>>
          /\ closed' = IF train = 0 /\ dropped THEN closed \cup {"train"} ELSE closed
          /\ Goes("ordinary") /\ UNCHANGED <<trainOf, trains>>
    /\ UNCHANGED <<sinceChunk, held, nextTerminal, pings, now, terminals, dropped, online,
                   replies, bounds>>

\* 3. Ordinary traffic.
TakesNow ==
    /\ at = "ordinary"
    /\ \/ /\ now > 0 /\ now' = now - 1 /\ Writes(Frame("now")) /\ UNCHANGED closed
       \/ /\ now = 0 /\ Goes("terminal") /\ UNCHANGED now
          /\ closed' = IF dropped THEN closed \cup {"now"} ELSE closed
    /\ UNCHANGED <<trainOf, sinceChunk, held, nextTerminal, pings, terminals, trains, dropped,
                   online, replies, bounds>>

\* Terminal output last; with all of it done and nobody left to send, the task returns.
TakesTerminal ==
    /\ at = "terminal"
    /\ LET take == ~held /\ terminals > 0
           has  == held \/ take
           gone == ~held /\ terminals = 0 /\ dropped
           shut == IF gone THEN closed \cup {"terminal"} ELSE closed
       IN  /\ terminals' = IF take THEN terminals - 1 ELSE terminals
           /\ closed' = shut
           /\ \/ /\ has /\ nextTerminal = 0
                 /\ held' = FALSE /\ Writes(Frame("terminal"))
              \/ /\ ~(has /\ nextTerminal = 0)
                 /\ held' = has
                 /\ Goes(IF shut = {"now", "train", "terminal"} /\ train = 0 /\ ~has THEN "stopped" ELSE "park")
    /\ UNCHANGED <<trainOf, sinceChunk, nextTerminal, pings, now, trains, dropped, online,
                   replies, bounds>>

\* Nothing is ready: select! waits for the first of these, in this order.
WakesForPing ==
    /\ at = "park" /\ pings > 0
    /\ pings' = pings - 1 /\ Writes(Frame("ping"))
    /\ UNCHANGED <<closed, trainOf, sinceChunk, held, nextTerminal, now, terminals, trains,
                   dropped, online, replies, bounds>>

\* The heartbeats' branch is off when the handles were gone before the wait began.
NoPing == pings = 0 \/ dropped

ReadyNow == "now" \notin closed /\ (now > 0 \/ dropped)
ReadyTrain == train = 0 /\ "train" \notin closed /\ (trains # <<>> \/ dropped)
ReadyTerminal == ~held /\ "terminal" \notin closed /\ (terminals > 0 \/ dropped)

WakesForNow ==
    /\ at = "park" /\ NoPing /\ ReadyNow
    /\ \/ /\ now > 0 /\ now' = now - 1 /\ Writes(Frame("now")) /\ UNCHANGED closed
       \/ /\ now = 0 /\ closed' = closed \cup {"now"} /\ Goes("ping") /\ UNCHANGED now
    /\ UNCHANGED <<trainOf, sinceChunk, held, nextTerminal, pings, terminals, trains, dropped,
                   online, replies, bounds>>

WakesForTrain ==
    /\ at = "park" /\ NoPing /\ ~ReadyNow /\ ReadyTrain
    /\ \/ /\ trains # <<>> /\ Accepts /\ UNCHANGED closed
       \/ /\ trains = <<>> /\ closed' = closed \cup {"train"}
          /\ Goes("ping") /\ UNCHANGED <<trainOf, trains>>
    /\ UNCHANGED <<sinceChunk, held, nextTerminal, pings, now, terminals, dropped, online,
                   replies, bounds>>

WakesForTerminal ==
    /\ at = "park" /\ NoPing /\ ~ReadyNow /\ ~ReadyTrain /\ ReadyTerminal
    /\ held' = (terminals > 0)
    /\ \/ /\ terminals > 0 /\ terminals' = terminals - 1 /\ UNCHANGED closed
       \/ /\ terminals = 0 /\ closed' = closed \cup {"terminal"} /\ UNCHANGED terminals
    /\ Goes("ping")
    /\ UNCHANGED <<trainOf, sinceChunk, nextTerminal, pings, now, trains, dropped, online,
                   replies, bounds>>

\* The earlier of the two deadlines has come.
DeadlineComes == nextChunk = 0 \/ (held /\ nextTerminal = 0)

WakesInTime ==
    /\ at = "park" /\ NoPing /\ ~ReadyNow /\ ~ReadyTrain /\ ~ReadyTerminal
    /\ DeadlineComes
    /\ Goes("ping")
    /\ UNCHANGED <<closed, trainOf, sinceChunk, held, nextTerminal, queues, dropped, online,
                   replies, bounds>>

Wakes == WakesForPing \/ WakesForNow \/ WakesForTrain \/ WakesForTerminal \/ WakesInTime

\* Variant: a chunk that is sent leaves no deadline for the next.
WrittenForGood ==
    /\ at = "writing"
    /\ CASE sending.kind = "chunk" ->
              /\ sinceChunk' = 0 /\ nextChunk' = Unset
              /\ st' = [st EXCEPT ![sending.reply] = IF train = 0 THEN "out" ELSE @]
              /\ UNCHANGED nextTerminal
         [] sending.kind = "terminal" ->
              /\ nextTerminal' = TerminalInterval
              /\ UNCHANGED <<sinceChunk, nextChunk, st>>
         [] OTHER -> UNCHANGED <<deadlines, st>>
    /\ Goes("ping")
    /\ UNCHANGED <<closed, train, watch, held, queues, dropped, online, surface, chunks, target,
                   moved, bounds>>

\* The socket has taken the frame: the pace is counted from here.
Written ==
    /\ at = "writing"
    /\ CASE sending.kind = "chunk" ->
              /\ sinceChunk' = 0
              /\ nextChunk' = IF train = 0 THEN Unset ELSE ChunkInterval
              /\ st' = [st EXCEPT ![sending.reply] = IF train = 0 THEN "out" ELSE @]
              /\ UNCHANGED nextTerminal
         [] sending.kind = "terminal" ->
              /\ nextTerminal' = TerminalInterval
              /\ UNCHANGED <<sinceChunk, nextChunk, st>>
         [] OTHER -> UNCHANGED <<deadlines, st>>
    /\ Goes("ping")
    /\ UNCHANGED <<closed, train, watch, held, queues, dropped, online, surface, chunks, target,
                   moved, bounds>>

(* -------------------------- Time and the socket ------------------------ *)

Less(n) == IF n > 0 THEN n - 1 ELSE n

Tick ==
    /\ sinceChunk < ChunkInterval \/ nextTerminal > 0
    /\ sinceChunk' = IF sinceChunk < ChunkInterval THEN sinceChunk + 1 ELSE sinceChunk
    /\ nextChunk' = Less(nextChunk) /\ nextTerminal' = Less(nextTerminal)
    /\ UNCHANGED <<at, sending, closed, train, watch, held, queues, dropped, online, replies,
                   bounds>>

\* The handles go, as when a session is over; what is queued is still sent.
HandlesDrop ==
    /\ ~dropped /\ dropped' = TRUE
    /\ \A r \in Replies : st[r] \notin {"asked", "leased", "probed"}
    /\ UNCHANGED <<loop, queues, online, replies, bounds>>

\* A write fails, or BrokerWriterGuard aborts the task: what it held is lost.
Ends ==
    /\ Running /\ Goes("stopped")
    /\ train' = 0 /\ watch' = None /\ nextChunk' = Unset /\ held' = FALSE
    /\ pings' = 0 /\ now' = 0 /\ terminals' = 0 /\ trains' = <<>>
    /\ st' = [r \in Replies |-> IF st[r] = "queued" THEN "lost" ELSE st[r]]
    /\ chunks' = [r \in Replies |-> IF st[r] = "queued" THEN 0 ELSE chunks[r]]
    /\ UNCHANGED <<closed, sinceChunk, nextTerminal, dropped, online, surface, target, moved,
                   bounds>>

Loop ==
    \/ TakesPing \/ TakesChunk \/ HearsPresence \/ TakesTrain \/ TakesNow \/ TakesTerminal
    \/ Wakes \/ Written

HandsOver == \E r \in Replies : ChecksLease(r) \/ Probes(r) \/ Offers(r)

Next ==
    \/ \E r \in Replies, s \in Surfaces, n \in 1..MaxChunks : Asks(r, s, n)
    \/ \E s \in Surfaces : Leaves(s) \/ Returns(s)
    \/ HandsOver \/ Beats \/ SendsNow \/ SendsTerminal
    \/ Loop \/ Tick \/ HandlesDrop \/ Ends

Spec == Init /\ [][Next]_vars

\* The task runs, time passes, and a write ends: a socket that is stuck costs the session its
\* heartbeat, and the session its writer.
FairSpec ==
    /\ Spec /\ WF_vars(Loop \/ (at = "writing" /\ Ends)) /\ WF_vars(Tick)

(* ------------------------------ Properties ----------------------------- *)

\* accept_train and advance_train: whatever trains, abandonments and slow writes there are,
\* two chunks are an interval apart, also across the border of two trains.
ChunksArePaced ==
    [][sending'.kind = "chunk" /\ sending.kind # "chunk" => sinceChunk = ChunkInterval]_vars

\* drive_writer_with_signer, step 1: a train is given up only for a surface that was there at
\* its hand-over and has left since; nobody who stayed misses a chunk.
StayersHearAll == \A r \in Replies : st[r] = "cut" => moved[r] /\ target[r] = surface[r]

\* The select! at the end of the loop, beside its pings: there is always a branch that may come, so the task
\* neither panics with every branch disabled nor sleeps on a train without a deadline.
ParkedIsWaiting ==
    at = "park" =>
        /\ train # 0 => nextChunk # Unset
        /\ \/ "now" \notin closed \/ (train = 0 /\ "train" \notin closed)
           \/ (~held /\ "terminal" \notin closed) \/ nextChunk # Unset \/ held

\* Backpressure without a stall: a reply that was taken on is sent or given up although
\* ordinary and terminal frames never stop coming, unless the session ends under it.
RepliesGetOut == \A r \in Replies : st[r] = "queued" ~> st[r] \in {"out", "cut", "lost"}
=============================================================================
