------------------------------ MODULE Requests ------------------------------
(***************************************************************************)
(* Requests of the web client to the server.  A request is a slot of       *)
(* calls: it is sent, handled by the server at a later moment, and its     *)
(* answer delivered later still, so that requests overtake each other and  *)
(* an answer may describe a past state.                                    *)
(***************************************************************************)
EXTENDS Integers, FiniteSets

CONSTANT MaxCalls    \* bound: requests under way at a time

ASSUME RequestsAssumption == MaxCalls \in Nat \ {0}

VARIABLE calls       \* the requests under way

\* A request: the component that waits for it ("gone" if that is unmounted),
\* what it asks for, how far it is, and the data it carries that way or back.
Nothing == [nothing |-> TRUE]
NoCall == [by |-> "nobody", op |-> "none", phase |-> "free", data |-> Nothing]
Slots == 1..MaxCalls
NoCalls == [s \in Slots |-> NoCall]
Free == {s \in Slots : calls[s].phase = "free"}
Waiting(s, op) == calls[s].op = op /\ calls[s].phase = "waiting"
Answered(s, by, op) ==
    calls[s].by = by /\ calls[s].op = op /\ calls[s].phase \in {"done", "failed"}
Failed(s) == calls[s].phase = "failed"

Request(by, op, data) == [by |-> by, op |-> op, phase |-> "waiting", data |-> data]

Send(by, op, data) ==
    \E s \in Free :
        /\ \A t \in Free : s <= t
        /\ calls' = [calls EXCEPT ![s] = Request(by, op, data)]

Settle(s, phase, answer) ==
    calls' = [calls EXCEPT ![s] = IF @.by = "gone" THEN NoCall
                                  ELSE [@ EXCEPT !.phase = phase, !.data = answer]]
Reply(s, answer) == Settle(s, "done", answer)
Refuse(s) == Settle(s, "failed", Nothing)

Take(s) == calls' = [calls EXCEPT ![s] = NoCall]

Quiet(who) == \A s \in Slots : calls[s].by \notin who

\* Unmounting: the answers are not used, but what was asked for, if it changes
\* something on the server, is still done.
Abandoned(who, changing) ==
    [s \in Slots |-> IF calls[s].by \notin who THEN calls[s]
                     ELSE IF calls[s].op \in changing /\ calls[s].phase \notin {"done", "failed"}
                     THEN [calls[s] EXCEPT !.by = "gone"]
                     ELSE NoCall]
=============================================================================
