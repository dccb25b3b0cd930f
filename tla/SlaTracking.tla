------------------------------ MODULE SlaTracking -----------------------------
(***************************************************************************)
(* The terms of an alert and its escalation in the MDR operations          *)
(* (cobalt-mdr-ops, slas.py).  Both are computed from the alert's age when *)
(* somebody asks, which may be late; the level reached is kept by whoever  *)
(* asks and handed in.  Time is in minutes and only the ages at which      *)
(* somebody may look are told apart.                                       *)
(***************************************************************************)
EXTENDS Naturals, Sequences

CONSTANT Ages   \* minutes after an alert's creation at which somebody looks

ASSUME AgesAssumption == Ages \subseteq Nat

VARIABLES
  ticket,    \* the alert: [priority, age]
  level,     \* the escalation level it has reached
  notified   \* the escalations whoever asks was given, in order

slaTracking == <<ticket, level, notified>>

Priority == {"P1", "P2", "P3", "P4"}

Terms(response, containment, resolution) ==
  [response |-> response, containment |-> containment, resolution |-> resolution]

DefaultSlas ==
  [P1 |-> Terms(15, 60, 240), P2 |-> Terms(60, 240, 1440),
   P3 |-> Terms(240, 1440, 5760), P4 |-> Terms(1440, 5760, 14400)]

\* Without the roles and the paging, which nothing depends on.
Rule(priority, delay, lvl) == [priority |-> priority, delay |-> delay, level |-> lvl]

DefaultEscalationRules ==
  {Rule("P1", 5, 1), Rule("P1", 15, 2), Rule("P2", 30, 1), Rule("P2", 60, 2),
   Rule("P3", 120, 1), Rule("P4", 480, 1)}

SlaInit ==
  /\ ticket \in [priority : Priority, age : {0}]
  /\ level = 0
  /\ notified = <<>>

-----------------------------------------------------------------------------
\* The last of the terms that has run out: a term is breached once it is over.
CheckBreach(t) ==
  LET sla == DefaultSlas[t.priority]
  IN CASE t.age > sla.resolution -> "resolution"
       [] t.age <= sla.resolution /\ t.age > sla.containment -> "containment"
       [] t.age <= sla.containment /\ t.age > sla.response -> "response"
       [] OTHER -> "none"

\* The rules for the priority that are due.
ApplicableRules(t) ==
  {r \in DefaultEscalationRules : r.priority = t.priority /\ t.age >= r.delay}

\* Bug variant: the highest rule that is due.
MutHighest(t, current) ==
  {r \in ApplicableRules(t) : r.level > current /\ \A s \in ApplicableRules(t) : s.level <= r.level}

\* The first rule above the level reached, if there is one: the code sorts them
\* by level, and those of a priority differ in it.
ShouldEscalate(t, current) ==
  LET above == {r \in ApplicableRules(t) : r.level > current}
  IN {r \in above : \A s \in above : r.level <= s.level}

Age(m) ==
  /\ m > ticket.age
  /\ ticket' = [ticket EXCEPT !.age = m]
  /\ UNCHANGED <<level, notified>>

\* Whoever asks passes on the rule's roles and keeps its level.
Escalate ==
  /\ \E rule \in ShouldEscalate(ticket, level) :
       /\ level' = rule.level
       /\ notified' = Append(notified, rule)
  /\ UNCHANGED ticket

SlaNext == Escalate \/ \E m \in Ages : Age(m)

-----------------------------------------------------------------------------
(* However late and seldom somebody asks, the escalations of an alert are    *)
(* given in the order of their levels, none left out and none twice; and     *)
(* when a term of the alert has been breached, an escalation was given or is *)
(* given to the next who asks.                                               *)
EscalationKeepsUp ==
  /\ \A i \in DOMAIN notified : notified[i].level = i
  /\ CheckBreach(ticket) # "none" => notified # <<>> \/ ShouldEscalate(ticket, level) # {}
===============================================================================
