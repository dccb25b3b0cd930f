------------------------------- MODULE MCConsole -------------------------------
(***************************************************************************)
(* What people do at the console, on one instance: sign in (ConsoleAuth)   *)
(* and decide on requests (ApprovalService).  The two are processes of     *)
(* their own that share no state, so a behaviour uses one of them, as in   *)
(* MCSupport, and each has the fairness it has alone.                      *)
(***************************************************************************)
EXTENDS ApprovalService, ConsoleAuth

VARIABLE used

parts == <<used, vars, authVars>>

MCInit == Init /\ AuthInit /\ used \in {"approvals", "sign_in"}

Deciding(A) == used = "approvals" /\ A /\ UNCHANGED <<used, authVars>>

SigningIn(A) == used = "sign_in" /\ A /\ UNCHANGED <<used, vars>>

MCNext == Deciding(Next) \/ SigningIn(AuthNext)

MCFairness ==
  /\ \A s \in Sweeper : WF_parts(Deciding(Sweep(s) \/ Settle(s)))
  /\ \A a \in Analyst : WF_parts(Deciding(ApproveRaise(a) \/ Settle(a)))
  /\ \A r \in Req : WF_parts(Deciding(CreateEnqueue(r)))
  /\ WF_parts(SigningIn(Tick))

MCSpec == MCInit /\ [][MCNext]_parts /\ MCFairness
================================================================================
