----------------------------- MODULE AskRecord -----------------------------
(***************************************************************************)
(* One agent's request to another (state/delegation.rs): who asked, whom,  *)
(* which turn is to answer, how it ended and whether the asker has heard.  *)
(***************************************************************************)
EXTENDS Naturals

CONSTANT Threads   \* sessions

Nobody == "nobody"

\* from is the turn an answer was taken from, byTool whether by report_back.
Ask ==
    [status : {"none", "working", "done", "failed"}, asker : Threads \cup {Nobody},
     peer : Threads \cup {Nobody}, baseline : Nat, turn : Nat, nudged : BOOLEAN,
     sent : BOOLEAN, delivered : BOOLEAN, from : Nat, byTool : BOOLEAN]

NoAsk ==
    [status |-> "none", asker |-> Nobody, peer |-> Nobody, baseline |-> 0, turn |-> 0,
     nudged |-> FALSE, sent |-> FALSE, delivered |-> FALSE, from |-> 0, byTool |-> FALSE]

NewAsk(asker, peer, baseline) ==
    [NoAsk EXCEPT !.status = "working", !.asker = asker, !.peer = peer, !.baseline = baseline]

IsLive(a) == a.status = "working"
IsTerminal(a) == a.status \in {"done", "failed"}

\* owed_to_asker
IsOwed(a) == IsTerminal(a) /\ ~a.delivered

\* Terminal is final.
Finish(a, turn) == IF IsTerminal(a) THEN a ELSE [a EXCEPT !.status = "done", !.from = turn]
Fail(a) == IF IsTerminal(a) THEN a ELSE [a EXCEPT !.status = "failed"]

\* Broken variant: anything newer than the baseline will do.
ReplyIsNewer(a, item) == item # 0 /\ item # a.baseline

\* reply_answers_ask: newer than the baseline, and said in the turn the ask started.
ReplyAnswersAsk(a, item) == item # 0 /\ item # a.baseline /\ item = a.turn
=============================================================================
