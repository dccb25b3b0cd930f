------------------------------ MODULE RateBudget ------------------------------
(***************************************************************************)
(* What the rate limiter of the MCP bridge promises: every client has a    *)
(* budget for bursts and one for the hour, all clients together have two   *)
(* more, and every budget grows with time up to its size.  A call is       *)
(* charged to the four in turn and admitted when none of them is short.    *)
(***************************************************************************)
EXTENDS Naturals, Sequences

CONSTANTS
  Client,
  Cost,        \* what a call takes from each budget
  Size(_),     \* the size of a budget
  Income(_)    \* what it grows by in a tick

VARIABLE budget

Global == "all"

Budget == {"minute", "hour"} \X (Client \cup {Global})

Chain(c) ==
  << <<"minute", c>>, <<"hour", c>>, <<"minute", Global>>, <<"hour", Global>> >>

\* The k-th budget of c's chain is reached: none before it is short.
Reached(c, k) == \A j \in 1 .. k - 1 : budget[Chain(c)[j]] >= Cost

Charged(c) ==
  {Chain(c)[k] : k \in {k \in 1 .. 4 : Reached(c, k) /\ budget[Chain(c)[k]] >= Cost}}

Init == budget = [b \in Budget |-> Size(b)]

(* A budget that is reached is charged even if a later one is short. *)
Call(c) ==
  budget' = [b \in Budget |-> IF b \in Charged(c) THEN budget[b] - Cost ELSE budget[b]]

Earn ==
  budget' = [b \in Budget |->
               IF budget[b] + Income(b) < Size(b) THEN budget[b] + Income(b) ELSE Size(b)]

(* Clients may be given full budgets; the global ones never are. *)
Refund ==
  \E cs \in SUBSET Client :
    budget' = [b \in Budget |-> IF b[2] \in cs THEN Size(b) ELSE budget[b]]

Next == (\E c \in Client : Call(c)) \/ Earn \/ Refund

Spec == Init /\ [][Next]_budget
=============================================================================
