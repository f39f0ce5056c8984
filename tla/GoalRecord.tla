----------------------------- MODULE GoalRecord -----------------------------
(***************************************************************************)
(* The record of a session's goal and what may be done to it              *)
(* (state/goal.rs).  Its words, its plan and what the agent says of it are *)
(* left out; what decides whether the relay drives a turn, and which turn  *)
(* may report, is kept.                                                    *)
(***************************************************************************)
EXTENDS Naturals

CONSTANT MaxGoalTurns   \* MAX_GOAL_TURNS

ASSUME GoalTurnsAssumption == MaxGoalTurns \in Nat \ {0}

GoalStatuses ==
    {"active", "awaiting_user", "complete_claimed", "blocked", "out_of_turns",
     "interrupted", "cancelled"}

Goal ==
    [status : GoalStatuses \cup {"none"}, turns : Nat, open : BOOLEAN, landed : BOOLEAN,
     turn : Nat, gen : Nat]

NoGoal == [status |-> "none", turns |-> 0, open |-> FALSE, landed |-> FALSE, turn |-> 0, gen |-> 0]
NewGoal == [NoGoal EXCEPT !.status = "active"]

IsDriving(g) == g.status = "active"

CloseDispatch(g) == [g EXCEPT !.open = FALSE, !.landed = FALSE, !.turn = 0]

\* A late claim does not reopen what the user closed.
Settle(g, status) ==
    IF g.status = "cancelled" THEN g ELSE CloseDispatch([g EXCEPT !.status = status])

\* The person answered the question, or wrote to a goal that is stuck.
ResumeOnReply(g) ==
    IF g.status \in {"awaiting_user", "blocked"}
    THEN CloseDispatch([g EXCEPT !.status = "active", !.gen = @ + 1]) ELSE g

Revise(g, resetTurns) ==
    CloseDispatch([g EXCEPT !.turns = IF resetTurns \/ g.status = "out_of_turns" THEN 0 ELSE @,
                            !.status = "active", !.gen = @ + 1])

\* Charge a turn and open the dispatch it pays for.
HandOver(g) ==
    [g EXCEPT !.turns = @ + 1, !.open = TRUE, !.landed = FALSE, !.turn = 0, !.gen = @ + 1,
              !.status = IF g.turns + 1 >= MaxGoalTurns THEN "out_of_turns" ELSE @]

DispatchLanded(g) == IF g.open THEN [g EXCEPT !.landed = TRUE] ELSE g

NoteDispatchTurn(g, gen, turn) == IF g.gen = gen /\ g.open THEN [g EXCEPT !.turn = turn] ELSE g

DispatchNeverStarted(g) == g.open /\ ~g.landed
=============================================================================
