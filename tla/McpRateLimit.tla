----------------------------- MODULE McpRateLimit -----------------------------
(***************************************************************************)
(* The rate limiter of the MCP bridge (frameworks/mcp-bridge/.../middleware*)
(* /rate_limit.py): token buckets that are only refilled when somebody     *)
(* looks at them.  check_rate_limit does not await, so a call is one       *)
(* action; which client calls when, how much time passes in between, and   *)
(* resets are free.                                                        *)
(*                                                                         *)
(* A token is divided into Cost units, so that the refill of a tick is a   *)
(* whole number of them.  A client without buckets gets full ones with its *)
(* next call, just like one whose buckets have had the time to fill up:    *)
(* both are full buckets here.  The clock never goes back.                 *)
(***************************************************************************)
EXTENDS Naturals

CONSTANTS
  Client,      \* client ids
  Cost,        \* units of a token: what a call consumes
  Burst,       \* capacity of a client's minute bucket (burst_size)
  PerMinute,   \* capacity of the global minute bucket
  PerHour,     \* capacity of the hour buckets, the clients' and the global one
  MinuteRate,  \* units a minute bucket gains in a tick
  HourRate,    \* units an hour bucket gains in a tick
  Watched,     \* the client whose calls are counted
  MaxTicks     \* bound on the length of the windows calls are counted in

ASSUME RateAssumption ==
  /\ Watched \in Client
  /\ Cost \in Nat \ {0}
  /\ Burst \in Nat /\ PerMinute \in Nat /\ PerHour \in Nat
  /\ Burst >= Cost /\ PerMinute >= Cost /\ PerHour >= Cost
  /\ MinuteRate \in Nat \ {0} /\ HourRate \in Nat \ {0}
  /\ MaxTicks \in Nat

\* The name of the global budgets.
ASSUME NameAssumption == "all" \notin Client

VARIABLES
  minute, hour,    \* _minute_buckets, _hour_buckets
  gminute, ghour,  \* _global_minute, _global_hour
  win              \* calls admitted since some instant: history, not state

vars == <<minute, hour, gminute, ghour, win>>

Least(i, j) == IF i < j THEN i ELSE j

\* The ticks that fill an empty bucket.
FillTime(cap, rate) == (cap + rate - 1) \div rate

\* tokens when last_refill was set, and the time since then, which counts only
\* up to what fills the bucket.
Bucket(cap, rate) == [tokens : 0 .. cap, elapsed : 0 .. FillTime(cap, rate)]

Full(cap) == [tokens |-> cap, elapsed |-> 0]

\* Bug variant: last_refill is not moved on.
MutRefill(b, cap, rate) ==
  [tokens |-> Least(cap, b.tokens + b.elapsed * rate), elapsed |-> b.elapsed]

\* _refill
Refilled(b, cap, rate) ==
  [tokens |-> Least(cap, b.tokens + b.elapsed * rate), elapsed |-> 0]

Covers(b) == b.tokens >= Cost

\* Bug variant: a bucket that is short is overdrawn to zero.
MutTaken(b) ==
  [b EXCEPT !.tokens = IF @ >= Cost THEN @ - Cost ELSE 0]

\* consume, on a bucket that has been refilled
Taken(b) == IF Covers(b) THEN [b EXCEPT !.tokens = @ - Cost] ELSE b

\* No calls are being counted.
Closed == [open |-> FALSE, ticks |-> 0, client |-> 0, all |-> 0]

-----------------------------------------------------------------------------
Init ==
  /\ minute = [c \in Client |-> Full(Burst)]
  /\ hour = [c \in Client |-> Full(PerHour)]
  /\ gminute = Full(PerMinute)
  /\ ghour = Full(PerHour)
  /\ win = Closed

\* The buckets as a call of c finds them.
MinuteOf(c) == Refilled(minute[c], Burst, MinuteRate)
HourOf(c) == Refilled(hour[c], PerHour, HourRate)
GlobalMinute == Refilled(gminute, PerMinute, MinuteRate)
GlobalHour == Refilled(ghour, PerHour, HourRate)

Admitted(c) ==
  Covers(MinuteOf(c)) /\ Covers(HourOf(c)) /\ Covers(GlobalMinute) /\ Covers(GlobalHour)

Count(c) ==
  win' = IF win.open /\ Admitted(c)
         THEN [win EXCEPT !.client = IF c = Watched THEN @ + 1 ELSE @, !.all = @ + 1]
         ELSE win

\* Bug variant: the global buckets are consulted only for a client whose own
\* buckets are short.
MutCheckRateLimit(c) ==
  /\ minute' = [minute EXCEPT ![c] = Taken(MinuteOf(c))]
  /\ hour' = IF Covers(MinuteOf(c))
             THEN [hour EXCEPT ![c] = Taken(HourOf(c))] ELSE hour
  /\ UNCHANGED <<gminute, ghour>>
  /\ win' = IF win.open /\ Covers(MinuteOf(c)) /\ Covers(HourOf(c))
            THEN [win EXCEPT !.client = IF c = Watched THEN @ + 1 ELSE @, !.all = @ + 1]
            ELSE win

(* check_rate_limit: each bucket is refilled and charged only if the ones
   before it were not short; nothing is given back when a later one is. *)
CheckRateLimit(c) ==
  LET m == Covers(MinuteOf(c))
      h == m /\ Covers(HourOf(c))
      g == h /\ Covers(GlobalMinute)
  IN  /\ minute' = [minute EXCEPT ![c] = Taken(MinuteOf(c))]
      /\ hour' = IF m THEN [hour EXCEPT ![c] = Taken(HourOf(c))] ELSE hour
      /\ gminute' = IF h THEN Taken(GlobalMinute) ELSE gminute
      /\ ghour' = IF g THEN Taken(GlobalHour) ELSE ghour
      /\ Count(c)

\* get_rate_limit_headers: available_tokens refills.
Headers(c) ==
  /\ minute' = [minute EXCEPT ![c] = MinuteOf(c)]
  /\ hour' = [hour EXCEPT ![c] = HourOf(c)]
  /\ UNCHANGED <<gminute, ghour, win>>

\* reset, of one client or of all; the global buckets stay as they are.
Reset(cs) ==
  /\ minute' = [c \in Client |-> IF c \in cs THEN Full(Burst) ELSE minute[c]]
  /\ hour' = [c \in Client |-> IF c \in cs THEN Full(PerHour) ELSE hour[c]]
  /\ win' = IF Watched \in cs THEN [win EXCEPT !.client = 0] ELSE win
  /\ UNCHANGED <<gminute, ghour>>

Aged(b, cap, rate) == [b EXCEPT !.elapsed = Least(@ + 1, FillTime(cap, rate))]

\* The clock.  Counting ends with a window's last tick.
Tick ==
  /\ minute' = [c \in Client |-> Aged(minute[c], Burst, MinuteRate)]
  /\ hour' = [c \in Client |-> Aged(hour[c], PerHour, HourRate)]
  /\ gminute' = Aged(gminute, PerMinute, MinuteRate)
  /\ ghour' = Aged(ghour, PerHour, HourRate)
  /\ win' = IF ~win.open \/ win.ticks = MaxTicks THEN Closed
            ELSE [win EXCEPT !.ticks = @ + 1]

\* Counting starts, at any instant.
OpenWindow ==
  /\ ~win.open
  /\ win' = [win EXCEPT !.open = TRUE]
  /\ UNCHANGED <<minute, hour, gminute, ghour>>

Next ==
  \/ \E c \in Client : CheckRateLimit(c) \/ Headers(c) \/ Reset({c})
  \/ Reset(Client)
  \/ Tick
  \/ OpenWindow

Spec == Init /\ [][Next]_vars

(* Time passes and every client keeps calling. *)
FairSpec == Spec /\ WF_vars(Tick) /\ \A c \in Client : WF_vars(CheckRateLimit(c))

-----------------------------------------------------------------------------
(* Every variable has its type: no bucket is overdrawn or overfull. *)
TypeOK ==
  /\ minute \in [Client -> Bucket(Burst, MinuteRate)]
  /\ hour \in [Client -> Bucket(PerHour, HourRate)]
  /\ gminute \in Bucket(PerMinute, MinuteRate)
  /\ ghour \in Bucket(PerHour, HourRate)
  /\ win \in [open : BOOLEAN, ticks : 0 .. MaxTicks, client : Nat, all : Nat]

(* In every window, wherever it begins, a client is admitted no more often
   than its burst and the refill since then allow, nor more than its hour allows;
   all clients together keep within the global limits, also when clients are
   reset meanwhile (check_rate_limit, _refill, reset). *)
WindowBounded ==
  /\ win.client * Cost <= Burst + win.ticks * MinuteRate
  /\ win.client * Cost <= PerHour + win.ticks * HourRate
  /\ win.all * Cost <= PerMinute + win.ticks * MinuteRate
  /\ win.all * Cost <= PerHour + win.ticks * HourRate

(* Refilling on demand loses and gains nothing: the buckets behave like
   budgets that grow with every tick, whenever they are looked at. *)
Eager(b, cap, rate) == Refilled(b, cap, rate).tokens

SizeOf(b) ==
  IF b[1] = "hour" THEN PerHour ELSE IF b[2] \in Client THEN Burst ELSE PerMinute

IncomeOf(b) == IF b[1] = "hour" THEN HourRate ELSE MinuteRate

Budgets ==
  [b \in {"minute", "hour"} \X (Client \cup {"all"}) |->
     CASE b[2] \in Client /\ b[1] = "minute" -> Eager(minute[b[2]], Burst, MinuteRate)
       [] b[2] \in Client /\ b[1] = "hour"   -> Eager(hour[b[2]], PerHour, HourRate)
       [] b = <<"minute", "all">>            -> Eager(gminute, PerMinute, MinuteRate)
       [] b = <<"hour", "all">>              -> Eager(ghour, PerHour, HourRate)]

Promise == INSTANCE RateBudget
             WITH budget <- Budgets, Size <- SizeOf, Income <- IncomeOf

KeepsBudgets == Promise!Spec

(* The limiter never locks everybody out: while clients keep calling, some call
   is admitted again and again, although refused calls are charged too. *)
SomeAdmitted == []<><<\E c \in Client : Admitted(c) /\ CheckRateLimit(c)>>_vars
=============================================================================
