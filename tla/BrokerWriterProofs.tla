------------------------- MODULE BrokerWriterProofs -------------------------
(***************************************************************************)
(* The pace, the abandonment and the wait of the broker's writer, for any  *)
(* number of replies, chunks and surfaces.  A deadline and the time since  *)
(* the last chunk always add up to the interval: that is what carries the  *)
(* pace from one train to the next.                                        *)
(***************************************************************************)
EXTENDS BrokerWriter, TLAPS

Places == {"ping", "chunk", "presence", "accept", "ordinary", "terminal", "park", "writing",
           "stopped"}

Statuses == {"none", "asked", "leased", "probed", "queued", "out", "cut", "dropped", "busy", "lost"}

LoopTypes ==
    /\ at \in Places /\ train \in 0..MaxReplies /\ watch \in Surfaces \cup {None}
    /\ nextChunk \in Nat \cup {Unset} /\ sinceChunk \in 0..ChunkInterval
    /\ nextTerminal \in Nat /\ closed \subseteq {"now", "train", "terminal"}
    /\ sending = Nothing \/ sending \in [kind : {"ping", "now", "terminal"}, reply : {0}]
       \/ sending \in [kind : {"chunk"}, reply : Replies]

ReplyTypes ==
    /\ trains \in Seq(Replies) /\ Len(trains) <= TrainCap /\ online \subseteq Surfaces
    /\ st \in [Replies -> Statuses] /\ surface \in [Replies -> Surfaces \cup {None}]
    /\ chunks \in [Replies -> Int] /\ target \in [Replies -> Surfaces \cup {None}]
    /\ moved \in [Replies -> BOOLEAN]

WriterTypes == LoopTypes /\ ReplyTypes

\* A frame is being written exactly where the loop says so.
Sending == sending # Nothing <=> at = "writing"

\* There is a deadline as long as a chunk is left or on its way, and it keeps the interval.
Pace ==
    /\ nextChunk # Unset <=> train # 0 \/ sending.kind = "chunk"
    /\ nextChunk # Unset => nextChunk + sinceChunk = ChunkInterval
    /\ sending.kind = "chunk" \/ at = "presence" => nextChunk = 0
    /\ at = "presence" => train # 0 /\ watch # None

\* What waits and what is resident has been taken on and not yet sent or given up.
Resident ==
    /\ train # 0 => st[train] = "queued" /\ watch = target[train]
    /\ \A i \in DOMAIN trains :
           /\ st[trains[i]] = "queued" /\ trains[i] # train
           /\ sending.kind = "chunk" => trains[i] # sending.reply
    /\ sending.kind = "chunk" => st[sending.reply] = "queued"

\* Whom a reply is for is known from the start; who was there at the hand-over and is not there
\* has left; and only they are given up.
Targets ==
    \A r \in Replies :
        /\ st[r] # "none" => surface[r] \in Surfaces
        /\ target[r] # None => target[r] = surface[r] /\ st[r] # "none"
        /\ st[r] \in {"probed", "queued"} /\ target[r] # None /\ target[r] \notin online =>
               moved[r]
        /\ st[r] = "cut" => moved[r] /\ target[r] = surface[r]

\* What the loop waits for when nothing is ready, whether or not the handles are still there.
Waiting ==
    at = "park" =>
        \/ "now" \notin closed \/ (train = 0 /\ "train" \notin closed)
        \/ (~held /\ "terminal" \notin closed) \/ nextChunk # Unset \/ held

WriterInv == WriterTypes /\ Sending /\ Pace /\ Resident /\ Targets /\ Waiting

\* What is left of a deadline only shrinks, and does not vanish.
LEMMA LessIsLess ==
    ASSUME NEW n \in Nat \cup {Unset}
    PROVE  /\ Less(n) \in Nat \cup {Unset} /\ (Less(n) = Unset <=> n = Unset)
           /\ n \in Nat /\ n > 0 => Less(n) = n - 1
           /\ n = 0 => Less(n) = 0
BY DEF Less, Unset

LEMMA InitWriter == Init => WriterInv
<1> SUFFICES ASSUME Init PROVE WriterInv
  OBVIOUS
<1>1. LoopTypes
  BY WriterAssumption DEF Init, LoopTypes, Places, Nothing, Unset
<1>2. ReplyTypes
  BY DEF Init, ReplyTypes, Statuses, TrainCap
<1>3. Sending /\ Pace /\ Waiting
  BY DEF Init, Sending, Pace, Waiting, Nothing, Unset
<1>4. Resident /\ Targets
  BY DEF Init, Resident, Targets, Nothing
<1> QED
  BY <1>1, <1>2, <1>3, <1>4 DEF WriterInv, WriterTypes

\* Whatever waits, is resident or is being written is a reply.
LEMMA AllAreReplies ==
    ASSUME WriterTypes
    PROVE  /\ train # 0 => train \in Replies
           /\ \A i \in DOMAIN trains : trains[i] \in Replies
           /\ sending.kind = "chunk" => sending.reply \in Replies
<1>1. train # 0 => train \in Replies
  BY WriterAssumption DEF WriterTypes, LoopTypes, Replies
<1>2. \A i \in DOMAIN trains : trains[i] \in Replies
  BY DEF WriterTypes, ReplyTypes
<1>3. sending.kind = "chunk" => sending.reply \in Replies
  BY DEF WriterTypes, LoopTypes, Nothing
<1> QED
  BY <1>1, <1>2, <1>3

\* The producers and the surfaces do not touch the loop.
LEMMA OutsideKeepsInv ==
    ASSUME WriterInv,
           \/ \E r \in Replies, s \in Surfaces, n \in 1..MaxChunks : Asks(r, s, n)
           \/ \E s \in Surfaces : Leaves(s) \/ Returns(s)
           \/ Beats \/ SendsNow \/ SendsTerminal \/ HandlesDrop
    PROVE  WriterInv'
<1> USE WriterAssumption DEF WriterInv
<1>1. CASE \E r \in Replies, s \in Surfaces, n \in 1..MaxChunks : Asks(r, s, n)
  <2> PICK r \in Replies, s \in Surfaces, n \in 1..MaxChunks : Asks(r, s, n)
    BY <1>1
  <2>1. WriterTypes'
    BY DEF Asks, WriterTypes, LoopTypes, ReplyTypes, Statuses, loop, queues
  <2>2. Sending' /\ Pace' /\ Waiting'
    BY DEF Asks, Sending, Pace, Waiting, loop
  <2>3. Resident'
    BY AllAreReplies DEF Asks, Resident, WriterTypes, ReplyTypes, loop, queues
  <2>4. Targets'
    BY DEF Asks, Targets, WriterTypes, ReplyTypes
  <2> QED
    BY <2>1, <2>2, <2>3, <2>4
<1>2. CASE \E s \in Surfaces : Leaves(s)
  <2> PICK s \in Surfaces : Leaves(s)
    BY <1>2
  <2>1. WriterTypes'
    BY DEF Leaves, WriterTypes, LoopTypes, ReplyTypes, loop, queues
  <2>2. Sending' /\ Pace' /\ Waiting' /\ Resident'
    BY DEF Leaves, Sending, Pace, Waiting, Resident, loop, queues
  <2>3. Targets'
    BY DEF Leaves, Targets, WriterTypes, ReplyTypes, Open
  <2> QED
    BY <2>1, <2>2, <2>3
<1>3. CASE \E s \in Surfaces : Returns(s)
  BY <1>3 DEF Returns, WriterTypes, LoopTypes, ReplyTypes, Sending, Pace, Waiting, Resident,
              Targets, loop, queues, replies
<1>4. CASE Beats \/ SendsNow \/ SendsTerminal \/ HandlesDrop
  <2>1. UNCHANGED <<loop, trains, online, replies>>
    BY <1>4 DEF Beats, SendsNow, SendsTerminal, HandlesDrop, queues
  <2> QED
    BY <2>1 DEF WriterTypes, LoopTypes, ReplyTypes, Sending, Pace, Waiting, Resident, Targets,
                loop, replies
<1> QED
  BY <1>1, <1>2, <1>3, <1>4

\* A hand-over records who was there, and queues what nobody else has queued.
LEMMA HandOverKeepsInv ==
    ASSUME WriterInv, NEW r \in Replies, ChecksLease(r) \/ Probes(r) \/ Offers(r)
    PROVE  WriterInv'
<1> USE WriterAssumption DEF WriterInv
<1>1. Sending' /\ Pace' /\ Waiting'
  BY DEF ChecksLease, Probes, Offers, Sending, Pace, Waiting, loop
<1>2. \/ trains' = trains
      \/ trains' = Append(trains, r) /\ Len(trains) < TrainCap /\ st'[r] = "queued"
         /\ st[r] = "probed"
  <2>1. CASE ChecksLease(r) \/ Probes(r)
    BY <2>1 DEF ChecksLease, Probes, queues
  <2>2. CASE Offers(r)
    BY <2>2 DEF Offers, WriterTypes, ReplyTypes
  <2> QED
    BY <2>1, <2>2
<1>3. trains' \in Seq(Replies) /\ Len(trains') <= TrainCap
  BY <1>2 DEF WriterTypes, ReplyTypes, TrainCap
<1>4. WriterTypes'
  <2>1. LoopTypes'
    <3>1. UNCHANGED loop
      BY DEF ChecksLease, Probes, Offers
    <3> QED
      BY <3>1 DEF WriterTypes, LoopTypes, loop
  <2>2. 0 \in 0..MaxChunks /\ {"dropped", "leased", "probed", "queued", "busy", "lost"} \subseteq Statuses
    BY DEF Statuses
  <2>3. CASE ChecksLease(r)
    BY <1>3, <2>1, <2>2, <2>3 DEF ChecksLease, WriterTypes, ReplyTypes
  <2>4. CASE Probes(r)
    BY <1>3, <2>1, <2>2, <2>4 DEF Probes, WriterTypes, ReplyTypes
  <2>5. CASE Offers(r)
    <3>1. /\ \E x \in Statuses : st' = [st EXCEPT ![r] = x]
          /\ chunks' = [chunks EXCEPT ![r] = 0] \/ chunks' = chunks
          /\ target' = [target EXCEPT ![r] = None] \/ target' = target
          /\ UNCHANGED <<online, surface, moved>>
      BY <2>2, <2>5 DEF Offers
    <3> QED
      BY <1>3, <2>1, <3>1 DEF WriterTypes, ReplyTypes
  <2> QED
    BY <2>3, <2>4, <2>5
<1>5. \A q \in Replies : st[q] = "queued" => st'[q] = "queued"
  <2>1. st[r] # "queued" /\ st' = [st EXCEPT ![r] = st'[r]]
    BY DEF ChecksLease, Probes, Offers, WriterTypes, ReplyTypes
  <2> QED
    BY <2>1 DEF WriterTypes, ReplyTypes
<1>6. \A i \in DOMAIN trains' :
          /\ st'[trains'[i]] = "queued" /\ trains'[i] # train
          /\ sending.kind = "chunk" => trains'[i] # sending.reply
  <2> SUFFICES ASSUME NEW i \in DOMAIN trains'
               PROVE  /\ st'[trains'[i]] = "queued" /\ trains'[i] # train
                      /\ sending.kind = "chunk" => trains'[i] # sending.reply
    OBVIOUS
  <2>1. CASE trains' = trains
    BY <2>1, <1>5, AllAreReplies DEF Resident
  <2>2. CASE trains' = Append(trains, r) /\ st'[r] = "queued" /\ st[r] = "probed"
    <3>1. trains'[i] = r \/ (i \in DOMAIN trains /\ trains'[i] = trains[i])
      BY <2>2 DEF WriterTypes, ReplyTypes
    <3>2. r # 0
      BY DEF Replies
    <3> QED
      BY <3>1, <3>2, <2>2, <1>5, AllAreReplies DEF Resident
  <2> QED
    BY <2>1, <2>2, <1>2
<1>7. Resident'
  <2>1. st[r] # "queued" /\ target' = [target EXCEPT ![r] = target'[r]]
    BY DEF ChecksLease, Probes, Offers, WriterTypes, ReplyTypes
  <2>2. UNCHANGED <<train, watch, sending>>
    BY DEF ChecksLease, Probes, Offers, loop
  <2> QED
    BY <2>1, <2>2, <1>5, <1>6, AllAreReplies DEF Resident, WriterTypes, ReplyTypes
<1>8. Targets'
  BY DEF ChecksLease, Probes, Offers, Targets, WriterTypes, ReplyTypes
<1> QED
  BY <1>1, <1>4, <1>7, <1>8

\* Taking a chunk off the train leaves a deadline that is due.
LEMMA PoppingKeepsInv ==
    ASSUME WriterInv, PopsChunk, train # 0, nextChunk = 0, sending = Nothing,
           UNCHANGED <<closed, watch, nextChunk, sinceChunk, nextTerminal, held, trains, online,
                       st, surface, target, moved>>
    PROVE  WriterInv'
<1> USE WriterAssumption DEF WriterInv
<1>1. train \in Replies
  BY DEF WriterTypes, LoopTypes, Replies
<1>2. WriterTypes'
  BY <1>1 DEF PopsChunk, Writes, Chunk, WriterTypes, LoopTypes, ReplyTypes, Places, Replies
<1>3. Sending' /\ Pace' /\ Waiting'
  BY <1>1 DEF PopsChunk, Writes, Chunk, Nothing, Sending, Pace, Waiting, Unset
<1>4. sending' = Chunk(train) /\ sending'.reply = train /\ train' \in {0, train}
  BY DEF PopsChunk, Writes, Chunk
<1>5. Resident'
  BY <1>1, <1>4, AllAreReplies DEF Resident, Replies
<1>6. Targets'
  BY DEF Targets
<1> QED
  BY <1>2, <1>3, <1>5, <1>6

\* A reply is taken on with a deadline that keeps the interval.
LEMMA AcceptingKeepsInv ==
    ASSUME WriterInv, Accepts, train = 0, trains # <<>>, sending = Nothing,
           UNCHANGED <<closed, sinceChunk, nextTerminal, held, online, st, surface, chunks,
                       target, moved>>
    PROVE  WriterInv'
<1> USE WriterAssumption DEF WriterInv
<1>1. Head(trains) \in Replies /\ 1 \in DOMAIN trains /\ Head(trains) = trains[1]
  BY DEF WriterTypes, ReplyTypes
<1>2. trains' = <<>>
  BY DEF WriterTypes, ReplyTypes, Accepts, TrainCap
<1>3. WriterTypes'
  BY <1>1, <1>2 DEF Accepts, Goes, WriterTypes, LoopTypes, ReplyTypes, Places, Replies, TrainCap
<1>4. Sending' /\ Pace' /\ Waiting'
  BY <1>1 DEF Accepts, Goes, Nothing, Sending, Pace, Waiting, Unset, Replies, WriterTypes,
              LoopTypes
<1>5. Resident' /\ Targets'
  BY <1>1, <1>2 DEF Accepts, Goes, Nothing, Resident, Targets
<1> QED
  BY <1>3, <1>4, <1>5

\* The steps of the loop that touch neither a train nor a reply.
LEMMA OtherFramesKeepInv ==
    ASSUME WriterInv,
           TakesPing \/ TakesNow \/ TakesTerminal \/ WakesForPing \/ WakesForNow
           \/ WakesForTerminal \/ WakesInTime
    PROVE  WriterInv'
<1> USE WriterAssumption DEF WriterInv
<1> USE DEF TakesPing, TakesNow, TakesTerminal, WakesForPing, WakesForNow, WakesForTerminal,
            WakesInTime, trainOf, queues, replies
<1>1. sending = Nothing
  BY DEF Sending
<1>2. UNCHANGED <<train, watch, nextChunk, sinceChunk, trains, online, st, surface, chunks,
                  target, moved>>
  OBVIOUS
<1>3. sending' = Nothing \/ sending' \in [kind : {"ping", "now", "terminal"}, reply : {0}]
  BY DEF Goes, Writes, Frame
<1>4. at' \in Places \ {"presence", "accept"} /\ (sending' # Nothing <=> at' = "writing")
  BY DEF Goes, Writes, Frame, Nothing, Places
<1>5. WriterTypes'
  <2>1. UNCHANGED nextTerminal /\ closed' \subseteq {"now", "train", "terminal"}
    BY DEF WriterTypes, LoopTypes
  <2> QED
    BY <1>2, <1>3, <1>4, <2>1 DEF WriterTypes, LoopTypes, ReplyTypes
<1>6. Sending' /\ Pace' /\ Resident' /\ Targets'
  BY <1>1, <1>2, <1>3, <1>4 DEF Sending, Pace, Resident, Targets, Nothing
<1>7. Waiting'
  <2>1. CASE TakesTerminal
    <3>1. SUFFICES ASSUME at' = "park" PROVE Waiting'
      BY DEF Waiting
    <3>2. PICK shut : closed' = shut /\ ~(shut = {"now", "train", "terminal"} /\ train = 0 /\ ~held')
      BY <2>1, <3>1 DEF Goes, Writes
    <3>3. closed' \subseteq {"now", "train", "terminal"}
      BY <2>1 DEF WriterTypes, LoopTypes
    <3>4. train # 0 => nextChunk # Unset
      BY DEF Pace
    <3> QED
      BY <1>2, <3>2, <3>3, <3>4 DEF Waiting
  <2>2. CASE ~TakesTerminal
    BY <2>2 DEF Goes, Writes, Waiting
  <2> QED
    BY <2>1, <2>2
<1> QED
  BY <1>5, <1>6, <1>7

\* The steps that do: a chunk that is due, the answer about presence, a reply that waits.
LEMMA TrainStepsKeepInv ==
    ASSUME WriterInv, TakesChunk \/ HearsPresence \/ TakesTrain \/ WakesForTrain
    PROVE  WriterInv'
<1> USE WriterAssumption DEF WriterInv
<1>1. sending = Nothing
  BY DEF Sending, TakesChunk, HearsPresence, TakesTrain, WakesForTrain
<1>2. nextChunk = 0 => train # 0
  BY <1>1 DEF Pace, Unset, Nothing
<1>3. CASE /\ PopsChunk /\ train # 0 /\ nextChunk = 0
           /\ UNCHANGED <<closed, watch, nextChunk, sinceChunk, nextTerminal, held, trains,
                          online, st, surface, target, moved>>
  BY <1>1, <1>3, PoppingKeepsInv
<1>4. CASE Accepts /\ train = 0 /\ trains # <<>>
           /\ UNCHANGED <<closed, sinceChunk, nextTerminal, held, online, st, surface, chunks,
                          target, moved>>
  BY <1>1, <1>4, AcceptingKeepsInv
<1>5. CASE TakesChunk
  <2>1. CASE nextChunk = 0 /\ watch = None /\ PopsChunk
    BY <1>2, <1>3, <1>5, <2>1 DEF TakesChunk, deadlines, queues
  <2>2. CASE nextChunk = 0 /\ watch # None /\ Goes("presence") /\ UNCHANGED <<chunks, train>>
    BY <1>1, <1>2, <1>5, <2>2
       DEF TakesChunk, deadlines, queues, Goes, WriterTypes, LoopTypes, ReplyTypes, Places,
           Sending, Pace, Resident, Targets, Waiting, Nothing
  <2>3. CASE Goes("accept") /\ UNCHANGED <<chunks, train>>
    BY <1>1, <1>5, <2>3
       DEF TakesChunk, deadlines, queues, Goes, WriterTypes, LoopTypes, ReplyTypes, Places,
           Sending, Pace, Resident, Targets, Waiting, Nothing
  <2> QED
    BY <1>5, <2>1, <2>2, <2>3 DEF TakesChunk
<1>6. CASE HearsPresence
  <2>1. train # 0 /\ watch # None /\ nextChunk = 0
    BY <1>6 DEF HearsPresence, Pace
  <2>2. CASE watch \in online
    BY <1>3, <1>6, <2>1, <2>2 DEF HearsPresence, queues
  <2>3. CASE watch \notin online
    <3>1. train \in Replies /\ st[train] = "queued" /\ watch = target[train]
      BY <2>1, AllAreReplies DEF Resident
    <3>2. /\ st' = [st EXCEPT ![train] = "cut"]
          /\ train' = 0 /\ watch' = None /\ nextChunk' = Unset /\ Goes("ping")
          /\ chunks' = [chunks EXCEPT ![train] = 0]
          /\ UNCHANGED <<closed, sinceChunk, held, nextTerminal, trains, online, surface, target,
                         moved>>
      BY <1>6, <2>3 DEF HearsPresence, queues
    <3>3. WriterTypes'
      BY <3>1, <3>2 DEF Goes, WriterTypes, LoopTypes, ReplyTypes, Places, Statuses
    <3>4. Sending' /\ Pace' /\ Waiting'
      BY <3>2 DEF Goes, Sending, Pace, Waiting, Nothing
    <3>5. \A i \in DOMAIN trains : trains[i] # train
      BY DEF Resident
    <3>6. Resident'
      BY <3>1, <3>2, <3>5, AllAreReplies
         DEF Goes, Nothing, Resident, WriterTypes, ReplyTypes, Replies
    <3>7. Targets'
      BY <2>1, <2>3, <3>1, <3>2 DEF Targets, WriterTypes, ReplyTypes
    <3> QED
      BY <3>3, <3>4, <3>6, <3>7
  <2> QED
    BY <2>2, <2>3
<1>7. CASE TakesTrain \/ WakesForTrain
  <2>1. CASE train = 0 /\ trains # <<>>
    BY <1>4, <1>7, <2>1 DEF TakesTrain, WakesForTrain, replies
  <2>2. CASE ~(train = 0 /\ trains # <<>>)
    <3>1. /\ at' \in {"ordinary", "ping"} /\ sending' = Nothing
          /\ UNCHANGED <<trainOf, trains, sinceChunk, held, nextTerminal, online, replies>>
      BY <1>7, <2>2 DEF TakesTrain, WakesForTrain, ReadyTrain, Goes
    <3>2. closed' \subseteq {"now", "train", "terminal"}
      BY <1>7, <2>2 DEF TakesTrain, WakesForTrain, WriterTypes, LoopTypes
    <3> QED
      BY <1>1, <3>1, <3>2 DEF trainOf, replies, WriterTypes, LoopTypes, ReplyTypes, Places, Sending,
                        Pace, Resident, Targets, Waiting, Nothing
  <2> QED
    BY <2>1, <2>2
<1> QED
  BY <1>5, <1>6, <1>7

\* A chunk that has left starts the interval anew; the last one makes its reply out.
LEMMA WritingKeepsInv == ASSUME WriterInv, Written PROVE WriterInv'
<1> USE WriterAssumption DEF WriterInv
<1>1. /\ Goes("ping") /\ UNCHANGED <<train, watch, held, closed, trains, online, surface,
                                     chunks, target, moved>>
  BY DEF Written, queues
<1>2. CASE sending.kind = "chunk"
  <2>1. /\ sinceChunk' = 0 /\ UNCHANGED nextTerminal
        /\ nextChunk' = IF train = 0 THEN Unset ELSE ChunkInterval
        /\ st' = [st EXCEPT ![sending.reply] = IF train = 0 THEN "out" ELSE @]
    BY <1>2 DEF Written
  <2>2. sending.reply \in Replies
    BY <1>2, AllAreReplies
  <2>3. WriterTypes'
    BY <1>1, <2>1, <2>2
       DEF Goes, WriterTypes, LoopTypes, ReplyTypes, Places, Statuses, Unset
  <2>4. Sending' /\ Pace' /\ Waiting'
    BY <1>1, <2>1 DEF Goes, Sending, Pace, Waiting, Nothing, Unset
  <2>5. Resident'
    BY <1>1, <1>2, <2>1, <2>2, AllAreReplies
       DEF Goes, Nothing, Resident, WriterTypes, ReplyTypes
  <2>6. Targets'
    BY <1>1, <1>2, <2>1, <2>2 DEF Targets, Resident, WriterTypes, ReplyTypes
  <2> QED
    BY <2>3, <2>4, <2>5, <2>6
<1>3. CASE sending.kind # "chunk"
  <2>1. UNCHANGED <<sinceChunk, nextChunk, st>> /\ nextTerminal' \in Nat
    BY <1>3 DEF Written, deadlines, WriterTypes, LoopTypes
  <2>2. WriterTypes'
    BY <1>1, <2>1 DEF Goes, WriterTypes, LoopTypes, ReplyTypes, Places
  <2>3. Sending' /\ Pace' /\ Waiting' /\ Resident' /\ Targets'
    BY <1>1, <1>3, <2>1 DEF Goes, Sending, Pace, Waiting, Resident, Targets, Nothing
  <2> QED
    BY <2>2, <2>3
<1> QED
  BY <1>2, <1>3

\* Time wears the deadline down by as much as it adds to the time since the last chunk.
LEMMA TimeKeepsInv == ASSUME WriterInv, Tick PROVE WriterInv'
<1> USE WriterAssumption DEF WriterInv
<1>1. UNCHANGED <<at, sending, closed, train, watch, held, trains, online, st, surface, chunks,
                  target, moved>>
  BY DEF Tick, queues, replies
<1>2. /\ nextChunk' \in Nat \cup {Unset} /\ (nextChunk' = Unset <=> nextChunk = Unset)
      /\ nextChunk = 0 => nextChunk' = 0
      /\ nextTerminal' \in Nat
  BY LessIsLess DEF Tick, WriterTypes, LoopTypes, Less
<1>3. sinceChunk' \in 0..ChunkInterval
  BY DEF Tick, WriterTypes, LoopTypes
<1>4. nextChunk # Unset => nextChunk' + sinceChunk' = ChunkInterval
  BY LessIsLess DEF Tick, WriterTypes, LoopTypes, Pace, Less, Unset
<1>5. WriterTypes'
  BY <1>1, <1>2, <1>3 DEF WriterTypes, LoopTypes, ReplyTypes
<1>6. Sending' /\ Pace' /\ Waiting' /\ Resident' /\ Targets'
  BY <1>1, <1>2, <1>4 DEF Sending, Pace, Waiting, Resident, Targets
<1> QED
  BY <1>5, <1>6

\* With the task gone nothing is resident or on its way.
LEMMA EndingKeepsInv == ASSUME WriterInv, Ends PROVE WriterInv'
<1> USE WriterAssumption DEF WriterInv
<1>1. WriterTypes'
  BY DEF Ends, Goes, WriterTypes, LoopTypes, ReplyTypes, Places, Statuses, TrainCap
<1>2. Sending' /\ Pace' /\ Waiting' /\ Resident'
  BY DEF Ends, Goes, Sending, Pace, Waiting, Resident, Nothing, Unset
<1>3. Targets'
  BY DEF Ends, Targets, WriterTypes, ReplyTypes
<1> QED
  BY <1>1, <1>2, <1>3

LEMMA NextWriter == WriterInv /\ [Next]_vars => WriterInv'
<1> SUFFICES ASSUME WriterInv, [Next]_vars PROVE WriterInv'
  OBVIOUS
<1>1. CASE UNCHANGED vars
  BY <1>1 DEF vars, WriterInv, WriterTypes, LoopTypes, ReplyTypes, Sending, Pace, Resident,
              Targets, Waiting
<1>2. CASE Next
  BY <1>2, OutsideKeepsInv, HandOverKeepsInv, OtherFramesKeepInv, TrainStepsKeepInv,
     WritingKeepsInv, TimeKeepsInv, EndingKeepsInv DEF Next, HandsOver, Loop, Wakes
<1> QED
  BY <1>1, <1>2

LEMMA WriterInvHolds == Spec => []WriterInv
BY InitWriter, NextWriter, PTL DEF Spec

\* Chunks leave at least an interval apart: accept_train counts from the last chunk of
\* whatever train, advance_train from the end of the write.
THEOREM ChunksKeepTheirDistance == Spec => ChunksArePaced
<1>1. ASSUME WriterInv, [Next]_vars, sending'.kind = "chunk", sending.kind # "chunk"
      PROVE  sinceChunk = ChunkInterval
  <2>1. nextChunk' = 0 /\ UNCHANGED <<nextChunk, sinceChunk>>
    <3>1. WriterInv'
      BY <1>1, NextWriter
    <3>2. nextChunk' = 0
      BY <1>1, <3>1 DEF WriterInv, Pace
    <3>3. TakesChunk \/ HearsPresence
      BY <1>1 DEF Next, vars, HandsOver, Loop, Wakes, Asks, Leaves, Returns, ChecksLease, Probes,
                  Offers, Beats, SendsNow, SendsTerminal, HandlesDrop, TakesPing, TakesTrain,
                  TakesNow, TakesTerminal, WakesForPing, WakesForNow, WakesForTrain,
                  WakesForTerminal, WakesInTime, Written, Tick, Ends, Accepts,
                  Goes, Writes, Frame, Nothing, loop
    <3> QED
      BY <1>1, <3>2, <3>3 DEF TakesChunk, HearsPresence, deadlines, Goes, Nothing
  <2> QED
    BY <1>1, <2>1 DEF WriterInv, WriterTypes, LoopTypes, Pace, Unset
<1>2. WriterInv /\ [Next]_vars =>
          [sending'.kind = "chunk" /\ sending.kind # "chunk" => sinceChunk = ChunkInterval]_vars
  BY <1>1
<1> QED
  BY <1>2, WriterInvHolds, PTL DEF Spec, ChunksArePaced

\* A train is given up only for a surface that was there at its hand-over and has left.
THEOREM WhoStaysIsAnswered == Spec => []StayersHearAll
<1>1. WriterInv => StayersHearAll
  BY DEF WriterInv, Targets, StayersHearAll
<1> QED
  BY <1>1, WriterInvHolds, PTL

\* Whenever the task waits in select!, one of its branches can still come.
THEOREM TheWriterCanWake == Spec => []ParkedIsWaiting
<1>1. WriterInv => ParkedIsWaiting
  BY DEF WriterInv, Waiting, Pace, ParkedIsWaiting
<1> QED
  BY <1>1, WriterInvHolds, PTL
=============================================================================
