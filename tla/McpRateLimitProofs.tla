--------------------------- MODULE McpRateLimitProofs ---------------------------
(***************************************************************************)
(* Proofs about the rate limiter for any number of clients, sizes and      *)
(* rates.  What a call can still find in a bucket, Eager, is what the      *)
(* argument is about: calls admitted since the window opened and what is   *)
(* still there never exceed the bucket's size and its income since then.   *)
(***************************************************************************)
EXTENDS McpRateLimit, TLAPS

Kept(cap) == [tokens : 0 .. cap, elapsed : Nat]

\* n calls in the window on b's account.
Within(n, b, cap, rate) == n * Cost + Eager(b, cap, rate) <= cap + win.ticks * rate

BucketsKept ==
  /\ minute \in [Client -> Kept(Burst)]
  /\ hour \in [Client -> Kept(PerHour)]
  /\ gminute \in Kept(PerMinute)
  /\ ghour \in Kept(PerHour)

WindowKept ==
  /\ win \in [open : BOOLEAN, ticks : Nat, client : Nat, all : Nat]
  /\ ~win.open => win = Closed

AccountsHold ==
  /\ Within(win.client, minute[Watched], Burst, MinuteRate)
  /\ Within(win.client, hour[Watched], PerHour, HourRate)
  /\ Within(win.all, gminute, PerMinute, MinuteRate)
  /\ Within(win.all, ghour, PerHour, HourRate)

IInv == BucketsKept /\ WindowKept /\ AccountsHold

-----------------------------------------------------------------------------
\* One bucket.

LEMMA EagerFacts ==
  ASSUME NEW cap \in Nat, NEW rate \in Nat, NEW b \in Kept(cap)
  PROVE  /\ Eager(b, cap, rate) \in 0 .. cap
         /\ Refilled(b, cap, rate) \in Kept(cap)
         /\ Refilled(b, cap, rate) = [tokens |-> Eager(b, cap, rate), elapsed |-> 0]
<1>1. b.tokens \in 0 .. cap /\ b.elapsed \in Nat
  BY DEF Kept
<1>2. b.elapsed * rate \in Nat
  BY <1>1
<1>3. Eager(b, cap, rate) = Least(cap, b.tokens + b.elapsed * rate)
  BY DEF Eager, Refilled
<1>4. Eager(b, cap, rate) \in 0 .. cap
  BY <1>1, <1>2, <1>3 DEF Least
<1>5. Refilled(b, cap, rate) = [tokens |-> Eager(b, cap, rate), elapsed |-> 0]
  BY <1>3 DEF Refilled
<1> QED BY <1>4, <1>5 DEF Kept

\* A bucket that was just looked at holds what it says.
LEMMA EagerOfNow ==
  ASSUME NEW cap \in Nat, NEW rate \in Nat, NEW t \in 0 .. cap
  PROVE  /\ [tokens |-> t, elapsed |-> 0] \in Kept(cap)
         /\ Eager([tokens |-> t, elapsed |-> 0], cap, rate) = t
<1>1. 0 * rate = 0
  OBVIOUS
<1> QED BY <1>1 DEF Kept, Eager, Refilled, Least

LEMMA RefilledFacts ==
  ASSUME NEW cap \in Nat, NEW rate \in Nat, NEW b \in Kept(cap)
  PROVE  Eager(Refilled(b, cap, rate), cap, rate) = Eager(b, cap, rate)
BY EagerFacts, EagerOfNow

\* A call takes Cost from a bucket that has it, and nothing from another.
LEMMA ChargeFacts ==
  ASSUME NEW cap \in Nat, NEW rate \in Nat, NEW b \in Kept(cap)
  PROVE  /\ Taken(Refilled(b, cap, rate)) \in Kept(cap)
         /\ Covers(Refilled(b, cap, rate)) <=> Eager(b, cap, rate) >= Cost
         /\ Eager(Taken(Refilled(b, cap, rate)), cap, rate) =
              IF Eager(b, cap, rate) >= Cost THEN Eager(b, cap, rate) - Cost
              ELSE Eager(b, cap, rate)
<1> DEFINE x == Refilled(b, cap, rate)
           t == Eager(b, cap, rate)
<1>1. x = [tokens |-> t, elapsed |-> 0] /\ t \in 0 .. cap
  BY EagerFacts
<1>2. Covers(x) <=> t >= Cost
  BY <1>1 DEF Covers
<1>3. Cost \in Nat
  BY RateAssumption
<1> HIDE DEF x, t
<1>4. CASE t >= Cost
  <2>1. Taken(x) = [tokens |-> t - Cost, elapsed |-> 0]
    BY <1>1, <1>2, <1>4 DEF Taken
  <2>2. t - Cost \in 0 .. cap
    BY <1>1, <1>3, <1>4
  <2> QED BY <1>2, <1>4, <2>1, <2>2, EagerOfNow DEF x, t
<1>5. CASE ~(t >= Cost)
  <2>1. Taken(x) = [tokens |-> t, elapsed |-> 0]
    BY <1>1, <1>2, <1>5 DEF Taken
  <2> QED BY <1>1, <1>2, <1>5, <2>1, EagerOfNow DEF x, t
<1> QED BY <1>4, <1>5

\* A tick brings no more than the rate.
LEMMA AgedFacts ==
  ASSUME NEW cap \in Nat, NEW rate \in Nat \ {0}, NEW b \in Kept(cap), FillTime(cap, rate) \in Nat
  PROVE  /\ Aged(b, cap, rate) \in Kept(cap)
         /\ Eager(Aged(b, cap, rate), cap, rate) <= Eager(b, cap, rate) + rate
<1> DEFINE e == Least(b.elapsed + 1, FillTime(cap, rate))
<1>1. b.tokens \in 0 .. cap /\ b.elapsed \in Nat
  BY DEF Kept
<1>2. e \in Nat /\ e <= b.elapsed + 1
  BY <1>1 DEF Least
<1>3. Aged(b, cap, rate) = [tokens |-> b.tokens, elapsed |-> e]
  BY DEF Aged, Kept
<1> HIDE DEF e
<1>4. e * rate \in Nat /\ e * rate <= b.elapsed * rate + rate
  <2>1. e <= b.elapsed + 1 => e * rate <= (b.elapsed + 1) * rate
    BY <1>1, <1>2
  <2>2. (b.elapsed + 1) * rate = b.elapsed * rate + rate
    BY <1>1
  <2>3. e * rate \in Nat
    BY <1>2
  <2> QED BY <1>2, <2>1, <2>2, <2>3
<1>5. Aged(b, cap, rate) \in Kept(cap)
  BY <1>1, <1>2, <1>3 DEF Kept
<1>6. /\ Eager(b, cap, rate) = Least(cap, b.tokens + b.elapsed * rate)
      /\ Eager(Aged(b, cap, rate), cap, rate) = Least(cap, b.tokens + e * rate)
  BY <1>3 DEF Eager, Refilled
<1>7. b.elapsed * rate \in Nat
  BY <1>1
<1> QED BY <1>1, <1>4, <1>5, <1>6, <1>7 DEF Least

LEMMA FillTimeType ==
  ASSUME NEW cap \in Nat, NEW rate \in Nat \ {0}
  PROVE  FillTime(cap, rate) \in Nat
<1>1. cap + rate - 1 \in Nat
  OBVIOUS
<1> QED BY <1>1 DEF FillTime

-----------------------------------------------------------------------------
\* One account: n calls, E left.

LEMMA Spend ==
  ASSUME NEW n \in Nat, NEW E \in Nat, NEW bound \in Nat, n * Cost + E <= bound,
         NEW n2 \in Nat, NEW E2 \in Nat,
         (n2 = n /\ E2 <= E) \/ (n2 = n + 1 /\ E >= Cost /\ E2 = E - Cost)
  PROVE  n2 * Cost + E2 <= bound
<1>1. Cost \in Nat /\ n * Cost \in Nat /\ (n + 1) * Cost = n * Cost + Cost
  BY RateAssumption
<1>2. CASE n2 = n /\ E2 <= E
  BY <1>1, <1>2
<1>3. CASE n2 = n + 1 /\ E >= Cost /\ E2 = E - Cost
  BY <1>1, <1>3
<1> QED BY <1>2, <1>3

LEMMA Earn ==
  ASSUME NEW spent \in Nat, NEW E \in Nat, NEW cap \in Nat, NEW t \in Nat, NEW rate \in Nat,
         spent + E <= cap + t * rate, NEW E2 \in Nat, E2 <= E + rate
  PROVE  spent + E2 <= cap + (t + 1) * rate
<1>1. t * rate \in Nat /\ (t + 1) * rate = t * rate + rate
  OBVIOUS
<1> QED BY <1>1

-----------------------------------------------------------------------------
LEMMA InitIInv == Init => IInv
<1> SUFFICES ASSUME Init PROVE IInv
  OBVIOUS
<1>1. \A cap \in {Burst, PerMinute, PerHour} : cap \in Nat
  BY RateAssumption
<1>2. \A cap \in {Burst, PerMinute, PerHour} : Full(cap) \in Kept(cap)
  BY <1>1 DEF Full, Kept
<1>3. BucketsKept
  BY <1>2 DEF Init, BucketsKept
<1>4. WindowKept
  BY DEF Init, WindowKept, Closed
<1>5. ASSUME NEW cap \in {Burst, PerMinute, PerHour}, NEW rate \in Nat
      PROVE  Within(0, Full(cap), cap, rate)
  <2>1. Eager(Full(cap), cap, rate) = cap
    BY <1>1, EagerOfNow DEF Full
  <2>2. win.ticks = 0
    BY DEF Init, Closed
  <2>3. 0 * Cost = 0 /\ 0 * rate = 0
    BY RateAssumption
  <2> QED BY <1>1, <2>1, <2>2, <2>3 DEF Within
<1>6. AccountsHold
  <2>1. win.client = 0 /\ win.all = 0
    BY DEF Init, Closed
  <2> QED BY <1>5, <2>1, RateAssumption DEF Init, AccountsHold
<1> QED BY <1>3, <1>4, <1>6 DEF IInv

\* The bound of an account is a number.
LEMMA BoundType ==
  ASSUME WindowKept, NEW cap \in Nat, NEW rate \in Nat
  PROVE  cap + win.ticks * rate \in Nat
<1>1. win.ticks \in Nat
  BY DEF WindowKept
<1> QED BY <1>1

(* An account that a step leaves with no more, or that pays for a call.     *)
LEMMA AccountKept ==
  ASSUME WindowKept, win'.ticks = win.ticks,
         NEW cap \in Nat, NEW rate \in Nat, NEW n \in Nat, NEW n2 \in Nat,
         NEW b \in Kept(cap), NEW b2 \in Kept(cap),
         n * Cost + Eager(b, cap, rate) <= cap + win.ticks * rate,
         \/ n2 = n /\ Eager(b2, cap, rate) <= Eager(b, cap, rate)
         \/ /\ n2 = n + 1 /\ Eager(b, cap, rate) >= Cost
            /\ Eager(b2, cap, rate) = Eager(b, cap, rate) - Cost
  PROVE  n2 * Cost + Eager(b2, cap, rate) <= cap + win'.ticks * rate
<1>1. Eager(b, cap, rate) \in Nat /\ Eager(b2, cap, rate) \in Nat
  BY EagerFacts
<1>2. cap + win.ticks * rate \in Nat
  BY BoundType
<1> QED BY <1>1, <1>2, Spend

\* What a call finds in each of its buckets.
MinuteLeft(c) == Eager(minute[c], Burst, MinuteRate)
HourLeft(c) == Eager(hour[c], PerHour, HourRate)
AllMinuteLeft == Eager(gminute, PerMinute, MinuteRate)
AllHourLeft == Eager(ghour, PerHour, HourRate)

(* A bucket is charged when neither it nor one before it is short.          *)
LEMMA CallFacts ==
  ASSUME BucketsKept, NEW c \in Client, CheckRateLimit(c)
  PROVE  /\ BucketsKept'
         /\ \A d \in Client : d # c => minute'[d] = minute[d] /\ hour'[d] = hour[d]
         /\ MinuteLeft(c)' = IF MinuteLeft(c) >= Cost THEN MinuteLeft(c) - Cost ELSE MinuteLeft(c)
         /\ HourLeft(c)' = IF MinuteLeft(c) >= Cost /\ HourLeft(c) >= Cost
                           THEN HourLeft(c) - Cost ELSE HourLeft(c)
         /\ AllMinuteLeft' = IF /\ MinuteLeft(c) >= Cost /\ HourLeft(c) >= Cost
                                /\ AllMinuteLeft >= Cost
                             THEN AllMinuteLeft - Cost ELSE AllMinuteLeft
         /\ AllHourLeft' = IF /\ MinuteLeft(c) >= Cost /\ HourLeft(c) >= Cost
                              /\ AllMinuteLeft >= Cost /\ AllHourLeft >= Cost
                           THEN AllHourLeft - Cost ELSE AllHourLeft
         /\ Admitted(c) <=> /\ MinuteLeft(c) >= Cost /\ HourLeft(c) >= Cost
                            /\ AllMinuteLeft >= Cost /\ AllHourLeft >= Cost
<1> USE RateAssumption
<1>1. minute[c] \in Kept(Burst) /\ hour[c] \in Kept(PerHour)
      /\ gminute \in Kept(PerMinute) /\ ghour \in Kept(PerHour)
  BY DEF BucketsKept
<1>2. /\ Covers(MinuteOf(c)) <=> MinuteLeft(c) >= Cost
      /\ Covers(HourOf(c)) <=> HourLeft(c) >= Cost
      /\ Covers(GlobalMinute) <=> AllMinuteLeft >= Cost
      /\ Covers(GlobalHour) <=> AllHourLeft >= Cost
  BY <1>1, ChargeFacts DEF MinuteOf, HourOf, GlobalMinute, GlobalHour,
                           MinuteLeft, HourLeft, AllMinuteLeft, AllHourLeft
<1>3. /\ minute' = [minute EXCEPT ![c] = minute'[c]]
      /\ hour' = [hour EXCEPT ![c] = hour'[c]]
  BY DEF CheckRateLimit, BucketsKept
<1>4. /\ minute'[c] = Taken(MinuteOf(c))
      /\ hour'[c] = IF Covers(MinuteOf(c)) THEN Taken(HourOf(c)) ELSE hour[c]
      /\ gminute' = IF Covers(MinuteOf(c)) /\ Covers(HourOf(c)) THEN Taken(GlobalMinute) ELSE gminute
      /\ ghour' = IF Covers(MinuteOf(c)) /\ Covers(HourOf(c)) /\ Covers(GlobalMinute)
                  THEN Taken(GlobalHour) ELSE ghour
  BY DEF CheckRateLimit, BucketsKept
<1>5. minute'[c] \in Kept(Burst) /\ hour'[c] \in Kept(PerHour)
      /\ gminute' \in Kept(PerMinute) /\ ghour' \in Kept(PerHour)
  BY <1>1, <1>4, ChargeFacts DEF MinuteOf, HourOf, GlobalMinute, GlobalHour
<1>6. BucketsKept'
  BY <1>3, <1>5 DEF BucketsKept
<1>7. /\ MinuteLeft(c)' = IF MinuteLeft(c) >= Cost THEN MinuteLeft(c) - Cost ELSE MinuteLeft(c)
      /\ HourLeft(c)' = IF MinuteLeft(c) >= Cost /\ HourLeft(c) >= Cost
                        THEN HourLeft(c) - Cost ELSE HourLeft(c)
      /\ AllMinuteLeft' = IF MinuteLeft(c) >= Cost /\ HourLeft(c) >= Cost /\ AllMinuteLeft >= Cost
                          THEN AllMinuteLeft - Cost ELSE AllMinuteLeft
      /\ AllHourLeft' = IF /\ MinuteLeft(c) >= Cost /\ HourLeft(c) >= Cost
                           /\ AllMinuteLeft >= Cost /\ AllHourLeft >= Cost
                        THEN AllHourLeft - Cost ELSE AllHourLeft
  BY <1>1, <1>2, <1>4, ChargeFacts DEF MinuteOf, HourOf, GlobalMinute, GlobalHour,
                                       MinuteLeft, HourLeft, AllMinuteLeft, AllHourLeft
<1> HIDE DEF MinuteLeft, HourLeft, AllMinuteLeft, AllHourLeft
<1>8. Admitted(c) <=> /\ MinuteLeft(c) >= Cost /\ HourLeft(c) >= Cost
                      /\ AllMinuteLeft >= Cost /\ AllHourLeft >= Cost
  BY <1>2 DEF Admitted
<1>9. \A d \in Client : d # c => minute'[d] = minute[d] /\ hour'[d] = hour[d]
  BY DEF CheckRateLimit, BucketsKept
<1> QED BY <1>6, <1>7, <1>8, <1>9

(* A call pays all four accounts, or is not counted.                        *)
LEMMA CallIInv ==
  ASSUME IInv, NEW c \in Client, CheckRateLimit(c)
  PROVE  IInv'
<1> USE RateAssumption
<1> DEFINE mE == MinuteLeft(c)
           hE == HourLeft(c)
           gE == AllMinuteLeft
           aE == AllHourLeft
<1>1. minute[c] \in Kept(Burst) /\ hour[c] \in Kept(PerHour)
      /\ gminute \in Kept(PerMinute) /\ ghour \in Kept(PerHour)
  BY DEF IInv, BucketsKept
<1>2. BucketsKept'
  BY CallFacts DEF IInv
<1>3. \A d \in Client : d # c => minute'[d] = minute[d] /\ hour'[d] = hour[d]
  BY CallFacts DEF IInv
<1>4. minute'[c] \in Kept(Burst) /\ hour'[c] \in Kept(PerHour)
      /\ gminute' \in Kept(PerMinute) /\ ghour' \in Kept(PerHour)
  BY <1>2 DEF BucketsKept
<1>5. /\ mE' = IF mE >= Cost THEN mE - Cost ELSE mE
      /\ hE' = IF mE >= Cost /\ hE >= Cost THEN hE - Cost ELSE hE
      /\ gE' = IF mE >= Cost /\ hE >= Cost /\ gE >= Cost THEN gE - Cost ELSE gE
      /\ aE' = IF mE >= Cost /\ hE >= Cost /\ gE >= Cost /\ aE >= Cost THEN aE - Cost ELSE aE
      /\ Admitted(c) <=> mE >= Cost /\ hE >= Cost /\ gE >= Cost /\ aE >= Cost
  BY CallFacts DEF IInv
<1>6. mE \in Nat /\ hE \in Nat /\ gE \in Nat /\ aE \in Nat
  BY <1>1, EagerFacts DEF MinuteLeft, HourLeft, AllMinuteLeft, AllHourLeft
<1>7. /\ win'.ticks = win.ticks /\ win'.open = win.open
      /\ win' \in [open : BOOLEAN, ticks : Nat, client : Nat, all : Nat]
      /\ ~win.open => win' = win
      /\ ~Admitted(c) => win'.client = win.client /\ win'.all = win.all
      /\ win'.all \in {win.all, win.all + 1} /\ win'.client \in {win.client, win.client + 1}
      /\ c # Watched => win'.client = win.client
  <2>1. win \in [open : BOOLEAN, ticks : Nat, client : Nat, all : Nat]
    BY DEF IInv, WindowKept
  <2>2. CASE win.open /\ Admitted(c)
    <3> DEFINE k == IF c = Watched THEN win.client + 1 ELSE win.client
    <3>1. win' = [open |-> win.open, ticks |-> win.ticks, client |-> k, all |-> win.all + 1]
      BY <2>1, <2>2 DEF CheckRateLimit, Count
    <3>2. k \in Nat /\ k \in {win.client, win.client + 1} /\ (c # Watched => k = win.client)
          /\ win.all + 1 \in Nat
      BY <2>1
    <3> HIDE DEF k
    <3> QED BY <2>1, <2>2, <3>1, <3>2
  <2>3. CASE ~(win.open /\ Admitted(c))
    <3>1. win' = win
      BY <2>3 DEF CheckRateLimit, Count
    <3> QED BY <2>1, <3>1
  <2> QED BY <2>2, <2>3
<1>8. WindowKept'
  BY <1>7 DEF IInv, WindowKept
<1>9. win.client \in Nat /\ win.all \in Nat /\ win'.client \in Nat /\ win'.all \in Nat
  BY <1>7 DEF IInv, WindowKept
<1>10. /\ mE = Eager(minute[c], Burst, MinuteRate) /\ mE' = Eager(minute'[c], Burst, MinuteRate)
       /\ hE = Eager(hour[c], PerHour, HourRate) /\ hE' = Eager(hour'[c], PerHour, HourRate)
       /\ gE = Eager(gminute, PerMinute, MinuteRate) /\ gE' = Eager(gminute', PerMinute, MinuteRate)
       /\ aE = Eager(ghour, PerHour, HourRate) /\ aE' = Eager(ghour', PerHour, HourRate)
  BY DEF MinuteLeft, HourLeft, AllMinuteLeft, AllHourLeft
<1> HIDE DEF mE, hE, gE, aE
<1>11. /\ \/ win'.client = win.client /\ mE' <= mE
          \/ win'.client = win.client + 1 /\ mE >= Cost /\ mE' = mE - Cost
       /\ \/ win'.client = win.client /\ hE' <= hE
          \/ win'.client = win.client + 1 /\ hE >= Cost /\ hE' = hE - Cost
       /\ \/ win'.all = win.all /\ gE' <= gE
          \/ win'.all = win.all + 1 /\ gE >= Cost /\ gE' = gE - Cost
       /\ \/ win'.all = win.all /\ aE' <= aE
          \/ win'.all = win.all + 1 /\ aE >= Cost /\ aE' = aE - Cost
  BY <1>5, <1>6, <1>7
<1> USE <1>1, <1>4, <1>7, <1>9, <1>10, <1>11
<1>12. Within(win.client, minute[Watched], Burst, MinuteRate)'
  <2>1. CASE c = Watched
    BY <2>1, AccountKept DEF IInv, AccountsHold, Within
  <2>2. CASE c # Watched
    BY <1>3, <2>2 DEF IInv, AccountsHold, Within
  <2> QED BY <2>1, <2>2
<1>13. Within(win.client, hour[Watched], PerHour, HourRate)'
  <2>1. CASE c = Watched
    BY <2>1, AccountKept DEF IInv, AccountsHold, Within
  <2>2. CASE c # Watched
    BY <1>3, <2>2 DEF IInv, AccountsHold, Within
  <2> QED BY <2>1, <2>2
<1>14. Within(win.all, gminute, PerMinute, MinuteRate)'
  BY AccountKept DEF IInv, AccountsHold, Within
<1>15. Within(win.all, ghour, PerHour, HourRate)'
  BY AccountKept DEF IInv, AccountsHold, Within
<1> QED BY <1>2, <1>8, <1>12, <1>13, <1>14, <1>15 DEF IInv, AccountsHold

LEMMA HeadersIInv ==
  ASSUME IInv, NEW c \in Client, Headers(c)
  PROVE  IInv'
<1> USE RateAssumption
<1>1. \A d \in Client : minute[d] \in Kept(Burst) /\ hour[d] \in Kept(PerHour)
  BY DEF IInv, BucketsKept
<1>2. \A d \in Client :
        /\ minute'[d] = IF d = c THEN MinuteOf(c) ELSE minute[d]
        /\ hour'[d] = IF d = c THEN HourOf(c) ELSE hour[d]
  BY DEF Headers, IInv, BucketsKept
<1>3. /\ MinuteOf(c) \in Kept(Burst) /\ HourOf(c) \in Kept(PerHour)
      /\ Eager(MinuteOf(c), Burst, MinuteRate) = Eager(minute[c], Burst, MinuteRate)
      /\ Eager(HourOf(c), PerHour, HourRate) = Eager(hour[c], PerHour, HourRate)
  BY <1>1, EagerFacts, RefilledFacts DEF MinuteOf, HourOf
<1>4. BucketsKept'
  BY <1>3 DEF Headers, IInv, BucketsKept
<1>5. /\ Eager(minute'[Watched], Burst, MinuteRate) = Eager(minute[Watched], Burst, MinuteRate)
      /\ Eager(hour'[Watched], PerHour, HourRate) = Eager(hour[Watched], PerHour, HourRate)
  BY <1>2, <1>3
<1> QED BY <1>4, <1>5 DEF Headers, IInv, WindowKept, AccountsHold, Within

(* A client that is given full buckets starts its counts anew.              *)
LEMMA ResetIInv ==
  ASSUME IInv, NEW cs \in SUBSET Client, Reset(cs)
  PROVE  IInv'
<1> USE RateAssumption
<1>1. Full(Burst) \in Kept(Burst) /\ Full(PerHour) \in Kept(PerHour)
  BY DEF Full, Kept
<1>2. BucketsKept'
  BY <1>1 DEF Reset, IInv, BucketsKept
<1>3. win \in [open : BOOLEAN, ticks : Nat, client : Nat, all : Nat]
  BY DEF IInv, WindowKept
<1>4. CASE Watched \in cs
  <2>1. win' = [open |-> win.open, ticks |-> win.ticks, client |-> 0, all |-> win.all]
    BY <1>3, <1>4 DEF Reset
  <2>2. WindowKept'
    <3>1. win' \in [open : BOOLEAN, ticks : Nat, client : Nat, all : Nat]
      BY <1>3, <2>1
    <3>2. ~win.open => win' = win
      BY <2>1 DEF IInv, WindowKept, Closed
    <3>3. win'.open = win.open
      BY <2>1
    <3> QED BY <3>1, <3>2, <3>3 DEF IInv, WindowKept
  <2>3. ASSUME NEW cap \in Nat, NEW rate \in Nat
        PROVE  0 * Cost + Eager(Full(cap), cap, rate) <= cap + win.ticks * rate
    <3>1. Eager(Full(cap), cap, rate) = cap
      BY EagerOfNow DEF Full
    <3>2. 0 * Cost = 0 /\ win.ticks * rate \in Nat
      BY <1>3
    <3> QED BY <3>1, <3>2
  <2>4. minute'[Watched] = Full(Burst) /\ hour'[Watched] = Full(PerHour)
    BY <1>4 DEF Reset
  <2> QED BY <1>2, <2>1, <2>2, <2>3, <2>4 DEF Reset, IInv, AccountsHold, Within
<1>5. CASE Watched \notin cs
  <2>1. minute'[Watched] = minute[Watched] /\ hour'[Watched] = hour[Watched] /\ win' = win
    BY <1>5 DEF Reset
  <2> QED BY <1>2, <2>1 DEF Reset, IInv, WindowKept, AccountsHold, Within
<1> QED BY <1>4, <1>5

LEMMA TickIInv ==
  ASSUME IInv, Tick
  PROVE  IInv'
<1> USE RateAssumption
<1>1. \A cap \in Nat, rate \in Nat \ {0} : \A b \in Kept(cap) :
        /\ Aged(b, cap, rate) \in Kept(cap)
        /\ Eager(Aged(b, cap, rate), cap, rate) <= Eager(b, cap, rate) + rate
        /\ Eager(b, cap, rate) \in Nat
        /\ Eager(Aged(b, cap, rate), cap, rate) \in 0 .. cap
  BY AgedFacts, FillTimeType, EagerFacts
<1>2. /\ \A d \in Client : minute[d] \in Kept(Burst) /\ hour[d] \in Kept(PerHour)
      /\ gminute \in Kept(PerMinute) /\ ghour \in Kept(PerHour)
  BY DEF IInv, BucketsKept
<1>3. BucketsKept'
  BY <1>1, <1>2 DEF Tick, BucketsKept
<1>4. /\ minute'[Watched] = Aged(minute[Watched], Burst, MinuteRate)
      /\ hour'[Watched] = Aged(hour[Watched], PerHour, HourRate)
      /\ gminute' = Aged(gminute, PerMinute, MinuteRate)
      /\ ghour' = Aged(ghour, PerHour, HourRate)
  BY DEF Tick
<1>5. win \in [open : BOOLEAN, ticks : Nat, client : Nat, all : Nat]
  BY DEF IInv, WindowKept
<1>6. CASE win' = Closed
  <2>1. win'.client = 0 /\ win'.all = 0 /\ win'.ticks = 0
    BY <1>6 DEF Closed
  <2>2. WindowKept'
    BY <1>6 DEF WindowKept, Closed
  <2>3. ASSUME NEW cap \in Nat, NEW rate \in Nat, NEW E \in 0 .. cap
        PROVE  0 * Cost + E <= cap + 0 * rate
    <3>1. 0 * Cost = 0 /\ 0 * rate = 0
      OBVIOUS
    <3> QED BY <3>1
  <2> QED BY <1>1, <1>2, <1>3, <1>4, <2>1, <2>2, <2>3 DEF IInv, AccountsHold, Within
<1>7. CASE win' # Closed
  <2>1. win.open /\ win' = [open |-> win.open, ticks |-> win.ticks + 1,
                            client |-> win.client, all |-> win.all]
    BY <1>5, <1>7 DEF Tick
  <2>2. WindowKept'
    BY <1>5, <2>1 DEF WindowKept
  <2>3. /\ win'.ticks = win.ticks + 1 /\ win'.client = win.client /\ win'.all = win.all
        /\ win.ticks \in Nat /\ win.client * Cost \in Nat /\ win.all * Cost \in Nat
    BY <1>5, <2>1
  <2>4. Within(win.client, minute[Watched], Burst, MinuteRate)'
    BY <1>1, <1>2, <1>4, <2>3, Earn DEF IInv, AccountsHold, Within
  <2>5. Within(win.client, hour[Watched], PerHour, HourRate)'
    BY <1>1, <1>2, <1>4, <2>3, Earn DEF IInv, AccountsHold, Within
  <2>6. Within(win.all, gminute, PerMinute, MinuteRate)'
    BY <1>1, <1>2, <1>4, <2>3, Earn DEF IInv, AccountsHold, Within
  <2>7. Within(win.all, ghour, PerHour, HourRate)'
    BY <1>1, <1>2, <1>4, <2>3, Earn DEF IInv, AccountsHold, Within
  <2> QED BY <1>3, <2>2, <2>4, <2>5, <2>6, <2>7 DEF IInv, AccountsHold
<1> QED BY <1>6, <1>7

LEMMA NextIInv == IInv /\ [Next]_vars => IInv'
<1> SUFFICES ASSUME IInv, [Next]_vars PROVE IInv'
  OBVIOUS
<1>1. ASSUME NEW c \in Client, CheckRateLimit(c) PROVE IInv'
  BY <1>1, CallIInv
<1>2. ASSUME NEW c \in Client, Headers(c) PROVE IInv'
  BY <1>2, HeadersIInv
<1>3. ASSUME NEW cs \in SUBSET Client, Reset(cs) PROVE IInv'
  BY <1>3, ResetIInv
<1>4. CASE Tick
  BY <1>4, TickIInv
<1>5. CASE OpenWindow
  <2>1. win = Closed /\ win' = [open |-> TRUE, ticks |-> 0, client |-> 0, all |-> 0]
    <3>1. win = Closed
      BY <1>5 DEF OpenWindow, IInv, WindowKept
    <3>2. win' = [Closed EXCEPT !.open = TRUE]
      BY <1>5, <3>1 DEF OpenWindow
    <3> QED BY <3>1, <3>2 DEF Closed
  <2>2. WindowKept'
    BY <2>1 DEF WindowKept
  <2>3. win'.ticks = win.ticks /\ win'.client = win.client /\ win'.all = win.all
    BY <2>1 DEF Closed
  <2> QED BY <1>5, <2>2, <2>3 DEF OpenWindow, IInv, BucketsKept, AccountsHold, Within
<1>6. CASE UNCHANGED vars
  BY <1>6 DEF vars, IInv, BucketsKept, WindowKept, AccountsHold, Within
<1> QED BY <1>1, <1>2, <1>3, <1>4, <1>5, <1>6 DEF Next

(* Whatever the clients, sizes, rates and windows, no client and no group   *)
(* of clients is admitted beyond its budget and the income since.           *)
THEOREM WindowAlwaysBounded == Spec => []WindowBounded
<1>1. Init => IInv
  BY InitIInv
<1>2. IInv /\ [Next]_vars => IInv'
  BY NextIInv
<1>3. IInv => WindowBounded
  <2> SUFFICES ASSUME IInv PROVE WindowBounded
    OBVIOUS
  <2>1. /\ win.client * Cost \in Nat /\ win.all * Cost \in Nat /\ win.ticks \in Nat
    <3>1. win.client \in Nat /\ win.all \in Nat /\ win.ticks \in Nat
      BY DEF IInv, WindowKept
    <3> QED BY <3>1, RateAssumption
  <2>2. /\ Eager(minute[Watched], Burst, MinuteRate) \in Nat
        /\ Eager(hour[Watched], PerHour, HourRate) \in Nat
        /\ Eager(gminute, PerMinute, MinuteRate) \in Nat
        /\ Eager(ghour, PerHour, HourRate) \in Nat
    BY EagerFacts, RateAssumption DEF IInv, BucketsKept
  <2>3. win.ticks * MinuteRate \in Nat /\ win.ticks * HourRate \in Nat
    BY <2>1, RateAssumption
  <2> QED BY <2>1, <2>2, <2>3, RateAssumption DEF IInv, AccountsHold, Within, WindowBounded
<1> QED BY <1>1, <1>2, <1>3, PTL DEF Spec

-----------------------------------------------------------------------------
\* The refinement of RateBudget.

BudgetSet == {"minute", "hour"} \X (Client \cup {"all"})

LEMMA FillTimeCovers ==
  ASSUME NEW cap \in Nat, NEW rate \in Nat \ {0}
  PROVE  FillTime(cap, rate) * rate >= cap
<1> DEFINE x == cap + rate - 1
           q == x \div rate
<1>1. x \in Nat
  OBVIOUS
<1>2. q \in Nat /\ x = q * rate + (x % rate) /\ x % rate \in 0 .. rate - 1
  BY <1>1
<1>3. q * rate \in Nat
  BY <1>2
<1>4. FillTime(cap, rate) = q
  BY DEF FillTime
<1> HIDE DEF q
<1> QED BY <1>2, <1>3, <1>4

BudgetFacts ==
  /\ Budgets = [b \in BudgetSet |-> Budgets[b]]
  /\ \A c \in Client : /\ Budgets[<<"minute", c>>] = Eager(minute[c], Burst, MinuteRate)
                       /\ Budgets[<<"hour", c>>] = Eager(hour[c], PerHour, HourRate)
  /\ Budgets[<<"minute", "all">>] = Eager(gminute, PerMinute, MinuteRate)
  /\ Budgets[<<"hour", "all">>] = Eager(ghour, PerHour, HourRate)

LEMMA BudgetsAre == BudgetFacts
<1> USE NameAssumption
<1> DEFINE Case(b) == CASE b[2] \in Client /\ b[1] = "minute" -> Eager(minute[b[2]], Burst, MinuteRate)
       [] b[2] \in Client /\ b[1] = "hour"   -> Eager(hour[b[2]], PerHour, HourRate)
       [] b = <<"minute", "all">>            -> Eager(gminute, PerMinute, MinuteRate)
       [] b = <<"hour", "all">>              -> Eager(ghour, PerHour, HourRate)
<1>1. \A c \in Client : /\ Case(<<"minute", c>>) = Eager(minute[c], Burst, MinuteRate)
                        /\ Case(<<"hour", c>>) = Eager(hour[c], PerHour, HourRate)
  OBVIOUS
<1>2. /\ Case(<<"minute", "all">>) = Eager(gminute, PerMinute, MinuteRate)
      /\ Case(<<"hour", "all">>) = Eager(ghour, PerHour, HourRate)
  OBVIOUS
<1>3. Budgets = [b \in BudgetSet |-> Case(b)]
  BY DEF Budgets, BudgetSet
<1> HIDE DEF Case
<1>4. \A k \in {"minute", "hour"}, c \in Client \cup {"all"} : <<k, c>> \in BudgetSet
  BY DEF BudgetSet
<1>5. \A b \in BudgetSet : Budgets[b] = Case(b)
  BY <1>3
<1>6. BudgetFacts
  BY <1>1, <1>2, <1>3, <1>4, <1>5 DEF BudgetFacts
<1> QED BY <1>6

LEMMA BudgetsWillBe == BudgetFacts'
BY BudgetsAre, PTL

LEMMA Sizes ==
  /\ \A c \in Client : SizeOf(<<"minute", c>>) = Burst /\ SizeOf(<<"hour", c>>) = PerHour
                       /\ IncomeOf(<<"minute", c>>) = MinuteRate /\ IncomeOf(<<"hour", c>>) = HourRate
  /\ SizeOf(<<"minute", "all">>) = PerMinute /\ SizeOf(<<"hour", "all">>) = PerHour
  /\ IncomeOf(<<"minute", "all">>) = MinuteRate /\ IncomeOf(<<"hour", "all">>) = HourRate
BY NameAssumption DEF SizeOf, IncomeOf

\* Two tables of budgets that agree in every entry are the same.
LEMMA PairFacts ==
  ASSUME NEW S, NEW T, NEW b \in S \X T
  PROVE  b = <<b[1], b[2]>> /\ b[1] \in S /\ b[2] \in T
OBVIOUS

LEMMA SameBudgets ==
  ASSUME NEW f, NEW g, f = [b \in BudgetSet |-> f[b]], g = [b \in BudgetSet |-> g[b]],
         \A c \in Client : f[<<"minute", c>>] = g[<<"minute", c>>] /\ f[<<"hour", c>>] = g[<<"hour", c>>],
         f[<<"minute", "all">>] = g[<<"minute", "all">>], f[<<"hour", "all">>] = g[<<"hour", "all">>]
  PROVE  f = g
<1>1. ASSUME NEW b \in BudgetSet PROVE f[b] = g[b]
  <2>1. b = <<b[1], b[2]>> /\ b[1] \in {"minute", "hour"} /\ b[2] \in Client \cup {"all"}
    BY PairFacts DEF BudgetSet
  <2> QED BY <2>1
<1> QED BY <1>1

BucketsTyped ==
  /\ minute \in [Client -> Bucket(Burst, MinuteRate)]
  /\ hour \in [Client -> Bucket(PerHour, HourRate)]
  /\ gminute \in Bucket(PerMinute, MinuteRate)
  /\ ghour \in Bucket(PerHour, HourRate)

LEMMA BucketFacts ==
  ASSUME NEW cap \in Nat, NEW rate \in Nat \ {0}, NEW b \in Bucket(cap, rate)
  PROVE  /\ b \in Kept(cap)
         /\ Full(cap) \in Bucket(cap, rate)
         /\ Refilled(b, cap, rate) \in Bucket(cap, rate)
         /\ Taken(Refilled(b, cap, rate)) \in Bucket(cap, rate)
         /\ Aged(b, cap, rate) \in Bucket(cap, rate)
<1>1. FillTime(cap, rate) \in Nat
  BY FillTimeType
<1>2. b.tokens \in 0 .. cap /\ b.elapsed \in 0 .. FillTime(cap, rate)
  BY DEF Bucket
<1>3. b \in Kept(cap)
  BY <1>1 DEF Bucket, Kept
<1>4. \A t \in 0 .. cap : [tokens |-> t, elapsed |-> 0] \in Bucket(cap, rate)
  BY <1>1 DEF Bucket
<1>5. Full(cap) \in Bucket(cap, rate)
  BY <1>4 DEF Full
<1>6. Refilled(b, cap, rate) \in Bucket(cap, rate)
  BY <1>3, <1>4, EagerFacts
<1>7. Taken(Refilled(b, cap, rate)) \in Bucket(cap, rate)
  <2> DEFINE t == Eager(b, cap, rate)
  <2>1. Refilled(b, cap, rate) = [tokens |-> t, elapsed |-> 0] /\ t \in 0 .. cap
    BY <1>3, EagerFacts
  <2> HIDE DEF t
  <2>2. Cost \in Nat
    BY RateAssumption
  <2>3. CASE t >= Cost
    <3>1. Taken(Refilled(b, cap, rate)) = [tokens |-> t - Cost, elapsed |-> 0]
      BY <2>1, <2>3 DEF Taken, Covers
    <3>2. t - Cost \in 0 .. cap
      BY <2>1, <2>2, <2>3
    <3> QED BY <1>4, <3>1, <3>2
  <2>4. CASE ~(t >= Cost)
    <3>1. Taken(Refilled(b, cap, rate)) = [tokens |-> t, elapsed |-> 0]
      BY <2>1, <2>4 DEF Taken, Covers
    <3> QED BY <1>4, <2>1, <3>1
  <2> QED BY <2>3, <2>4
<1>8. Aged(b, cap, rate) \in Bucket(cap, rate)
  <2>1. Aged(b, cap, rate) = [tokens |-> b.tokens, elapsed |-> Least(b.elapsed + 1, FillTime(cap, rate))]
    BY DEF Aged, Bucket
  <2>2. Least(b.elapsed + 1, FillTime(cap, rate)) \in 0 .. FillTime(cap, rate)
    BY <1>1, <1>2 DEF Least
  <2> QED BY <1>2, <2>1, <2>2 DEF Bucket
<1> QED BY <1>3, <1>5, <1>6, <1>7, <1>8

\* A tick earns exactly the rate, up to the size: a bucket that has stopped aging is full.
LEMMA AgedEarns ==
  ASSUME NEW cap \in Nat, NEW rate \in Nat \ {0}, NEW b \in Bucket(cap, rate)
  PROVE  Eager(Aged(b, cap, rate), cap, rate) =
           IF Eager(b, cap, rate) + rate < cap THEN Eager(b, cap, rate) + rate ELSE cap
<1> DEFINE F == FillTime(cap, rate)
           e == Least(b.elapsed + 1, F)
<1>1. F \in Nat /\ F * rate \in Nat /\ F * rate >= cap
  BY FillTimeType, FillTimeCovers
<1>2. b.tokens \in 0 .. cap /\ b.elapsed \in 0 .. F
  BY DEF Bucket
<1>3. Aged(b, cap, rate) = [tokens |-> b.tokens, elapsed |-> e]
  BY DEF Aged, Bucket
<1>4. /\ Eager(b, cap, rate) = Least(cap, b.tokens + b.elapsed * rate)
      /\ Eager(Aged(b, cap, rate), cap, rate) = Least(cap, b.tokens + e * rate)
  BY <1>3 DEF Eager, Refilled
<1> HIDE DEF F
<1>5. CASE b.elapsed = F
  <2>1. e = F
    BY <1>1, <1>5 DEF Least
  <2> HIDE DEF e
  <2> QED BY <1>1, <1>2, <1>4, <1>5, <2>1 DEF Least
<1>6. CASE b.elapsed # F
  <2>1. e = b.elapsed + 1
    BY <1>1, <1>2, <1>6 DEF Least
  <2> HIDE DEF e
  <2>2. b.elapsed * rate \in Nat /\ e * rate = b.elapsed * rate + rate
    BY <1>1, <1>2, <2>1
  <2> HIDE DEF e
  <2>3. \A x \in Nat, t \in 0 .. cap :
          Least(cap, t + (x + rate)) =
            IF Least(cap, t + x) + rate < cap THEN Least(cap, t + x) + rate ELSE cap
    BY DEF Least
  <2> QED BY <1>2, <1>4, <2>2, <2>3
<1> QED BY <1>5, <1>6

LEMMA BucketsAlwaysTyped == Spec => []BucketsTyped
<1> USE RateAssumption
<1>0. /\ \A c \in {Full(Burst)} : c \in Bucket(Burst, MinuteRate)
      /\ Full(PerHour) \in Bucket(PerHour, HourRate)
      /\ Full(PerMinute) \in Bucket(PerMinute, MinuteRate)
  BY FillTimeType DEF Full, Bucket
<1>1. Init => BucketsTyped
  BY <1>0 DEF Init, BucketsTyped
<1>2. BucketsTyped /\ [Next]_vars => BucketsTyped'
  <2> SUFFICES ASSUME BucketsTyped, [Next]_vars PROVE BucketsTyped'
    OBVIOUS
  <2>0. /\ \A c \in Client : minute[c] \in Bucket(Burst, MinuteRate) /\ hour[c] \in Bucket(PerHour, HourRate)
        /\ gminute \in Bucket(PerMinute, MinuteRate) /\ ghour \in Bucket(PerHour, HourRate)
    BY DEF BucketsTyped
  <2>1. ASSUME NEW c \in Client, CheckRateLimit(c) PROVE BucketsTyped'
    <3>1. /\ Taken(MinuteOf(c)) \in Bucket(Burst, MinuteRate)
          /\ Taken(HourOf(c)) \in Bucket(PerHour, HourRate)
          /\ Taken(GlobalMinute) \in Bucket(PerMinute, MinuteRate)
          /\ Taken(GlobalHour) \in Bucket(PerHour, HourRate)
      BY <2>0, BucketFacts DEF MinuteOf, HourOf, GlobalMinute, GlobalHour
    <3>2. minute' \in [Client -> Bucket(Burst, MinuteRate)]
      BY <2>1, <3>1 DEF CheckRateLimit, BucketsTyped
    <3>3. hour' \in [Client -> Bucket(PerHour, HourRate)]
      BY <2>1, <3>1 DEF CheckRateLimit, BucketsTyped
    <3>4. gminute' \in Bucket(PerMinute, MinuteRate) /\ ghour' \in Bucket(PerHour, HourRate)
      BY <2>0, <2>1, <3>1 DEF CheckRateLimit
    <3> QED BY <3>2, <3>3, <3>4 DEF BucketsTyped
  <2>2. ASSUME NEW c \in Client, Headers(c) PROVE BucketsTyped'
    <3>1. MinuteOf(c) \in Bucket(Burst, MinuteRate) /\ HourOf(c) \in Bucket(PerHour, HourRate)
      BY <2>0, BucketFacts DEF MinuteOf, HourOf
    <3> QED BY <2>2, <3>1 DEF Headers, BucketsTyped
  <2>3. ASSUME NEW cs \in SUBSET Client, Reset(cs) PROVE BucketsTyped'
    BY <1>0, <2>0, <2>3 DEF Reset, BucketsTyped
  <2>4. CASE Tick
    <3>1. /\ \A c \in Client : /\ Aged(minute[c], Burst, MinuteRate) \in Bucket(Burst, MinuteRate)
                               /\ Aged(hour[c], PerHour, HourRate) \in Bucket(PerHour, HourRate)
          /\ Aged(gminute, PerMinute, MinuteRate) \in Bucket(PerMinute, MinuteRate)
          /\ Aged(ghour, PerHour, HourRate) \in Bucket(PerHour, HourRate)
      BY <2>0, BucketFacts
    <3> QED BY <2>4, <3>1 DEF Tick, BucketsTyped
  <2>5. CASE OpenWindow \/ UNCHANGED vars
    BY <2>5 DEF OpenWindow, vars, BucketsTyped
  <2> QED BY <2>1, <2>2, <2>3, <2>4, <2>5 DEF Next
<1> QED BY <1>1, <1>2, PTL DEF Spec

-----------------------------------------------------------------------------
\* What a step of the abstract specification does, in the names used here.
LEMMA PromiseSteps ==
  /\ \A c \in Client : Promise!Call(c) <=>
       Budgets' = [b \in BudgetSet |-> IF b \in Promise!Charged(c) THEN Budgets[b] - Cost
                                       ELSE Budgets[b]]
  /\ Promise!Earn <=>
       Budgets' = [b \in BudgetSet |-> IF Budgets[b] + IncomeOf(b) < SizeOf(b)
                                       THEN Budgets[b] + IncomeOf(b) ELSE SizeOf(b)]
  /\ Promise!Refund <=> \E cs \in SUBSET Client :
       Budgets' = [b \in BudgetSet |-> IF b[2] \in cs THEN SizeOf(b) ELSE Budgets[b]]
  /\ Promise!Init <=> Budgets = [b \in BudgetSet |-> SizeOf(b)]
BY DEF Promise!Call, Promise!Earn, Promise!Refund, Promise!Init, Promise!Budget,
       Promise!Global, BudgetSet

\* A call reaches a budget when the ones before it in its chain are not short.
LEMMA ChargedAre ==
  ASSUME NEW c \in Client
  PROVE  Promise!Charged(c) =
           {b \in {<<"minute", c>>, <<"hour", c>>, <<"minute", "all">>, <<"hour", "all">>} :
              /\ Budgets[<<"minute", c>>] >= Cost
              /\ b # <<"minute", c>> => Budgets[<<"hour", c>>] >= Cost
              /\ b \in {<<"minute", "all">>, <<"hour", "all">>} => Budgets[<<"minute", "all">>] >= Cost
              /\ b = <<"hour", "all">> => Budgets[<<"hour", "all">>] >= Cost}
<1> USE NameAssumption
<1> DEFINE ch == <<<<"minute", c>>, <<"hour", c>>, <<"minute", "all">>, <<"hour", "all">>>>
           R(k) == \A j \in 1 .. k - 1 : Budgets[ch[j]] >= Cost
<1>1. Promise!Charged(c) = {ch[k] : k \in {k \in 1 .. 4 : R(k) /\ Budgets[ch[k]] >= Cost}}
  BY DEF Promise!Charged, Promise!Reached, Promise!Chain, Promise!Global
<1>2. 1 .. 4 = {1, 2, 3, 4} /\ ch[1] = <<"minute", c>> /\ ch[2] = <<"hour", c>>
      /\ ch[3] = <<"minute", "all">> /\ ch[4] = <<"hour", "all">>
  OBVIOUS
<1>3. 1 .. 0 = {} /\ 1 .. 1 = {1} /\ 1 .. 2 = {1, 2} /\ 1 .. 3 = {1, 2, 3}
  OBVIOUS
<1> HIDE DEF ch
<1>4. /\ R(1)
      /\ R(2) <=> Budgets[ch[1]] >= Cost
      /\ R(3) <=> Budgets[ch[1]] >= Cost /\ Budgets[ch[2]] >= Cost
      /\ R(4) <=> Budgets[ch[1]] >= Cost /\ Budgets[ch[2]] >= Cost /\ Budgets[ch[3]] >= Cost
  BY <1>3
<1> HIDE DEF R
<1>5. ch[1] # ch[2] /\ ch[1] # ch[3] /\ ch[1] # ch[4] /\ ch[2] # ch[3] /\ ch[2] # ch[4] /\ ch[3] # ch[4]
  BY <1>2
<1>6. \A b : b \in Promise!Charged(c) <=>
        \/ b = ch[1] /\ Budgets[ch[1]] >= Cost
        \/ b = ch[2] /\ R(2) /\ Budgets[ch[2]] >= Cost
        \/ b = ch[3] /\ R(3) /\ Budgets[ch[3]] >= Cost
        \/ b = ch[4] /\ R(4) /\ Budgets[ch[4]] >= Cost
  BY <1>1, <1>2, <1>4
<1> QED BY <1>2, <1>4, <1>5, <1>6

\* The entries of Budgets after a step.
LEMMA CallRefines ==
  ASSUME BucketsKept, NEW c \in Client, CheckRateLimit(c)
  PROVE  Promise!Call(c)
<1> DEFINE g == [b \in BudgetSet |-> IF b \in Promise!Charged(c) THEN Budgets[b] - Cost
                                     ELSE Budgets[b]]
<1>1. /\ \A k \in {"minute", "hour"}, d \in Client \cup {"all"} : <<k, d>> \in BudgetSet
      /\ g = [b \in BudgetSet |-> g[b]]
  BY DEF BudgetSet
<1>2. Budgets[<<"minute", c>>] = MinuteLeft(c) /\ Budgets[<<"hour", c>>] = HourLeft(c)
      /\ Budgets[<<"minute", "all">>] = AllMinuteLeft /\ Budgets[<<"hour", "all">>] = AllHourLeft
  BY BudgetsAre DEF BudgetFacts, MinuteLeft, HourLeft, AllMinuteLeft, AllHourLeft
<1>3. Budgets'[<<"minute", c>>] = MinuteLeft(c)' /\ Budgets'[<<"hour", c>>] = HourLeft(c)'
      /\ Budgets'[<<"minute", "all">>] = AllMinuteLeft' /\ Budgets'[<<"hour", "all">>] = AllHourLeft'
  BY BudgetsWillBe DEF BudgetFacts, MinuteLeft, HourLeft, AllMinuteLeft, AllHourLeft
<1>4. \A d \in Client : d # c => /\ Budgets'[<<"minute", d>>] = Budgets[<<"minute", d>>]
                                 /\ Budgets'[<<"hour", d>>] = Budgets[<<"hour", d>>]
  BY BudgetsAre, BudgetsWillBe, CallFacts DEF BudgetFacts
<1>5. Budgets' = [b \in BudgetSet |-> Budgets'[b]]
  BY BudgetsWillBe DEF BudgetFacts
<1>6. /\ <<"minute", c>> \in Promise!Charged(c) <=> MinuteLeft(c) >= Cost
      /\ <<"hour", c>> \in Promise!Charged(c) <=> MinuteLeft(c) >= Cost /\ HourLeft(c) >= Cost
      /\ <<"minute", "all">> \in Promise!Charged(c) <=>
           MinuteLeft(c) >= Cost /\ HourLeft(c) >= Cost /\ AllMinuteLeft >= Cost
      /\ <<"hour", "all">> \in Promise!Charged(c) <=>
           /\ MinuteLeft(c) >= Cost /\ HourLeft(c) >= Cost
           /\ AllMinuteLeft >= Cost /\ AllHourLeft >= Cost
      /\ \A d \in Client : d # c => /\ <<"minute", d>> \notin Promise!Charged(c)
                                    /\ <<"hour", d>> \notin Promise!Charged(c)
  BY <1>2, ChargedAre, NameAssumption
<1> HIDE DEF Budgets
<1>7. \A k \in {"minute", "hour"}, d \in Client \cup {"all"} :
        g[<<k, d>>] = IF <<k, d>> \in Promise!Charged(c) THEN Budgets[<<k, d>>] - Cost
                      ELSE Budgets[<<k, d>>]
  BY <1>1
<1> HIDE DEF g
<1>8. ASSUME NEW d \in Client
      PROVE  Budgets'[<<"minute", d>>] = g[<<"minute", d>>] /\ Budgets'[<<"hour", d>>] = g[<<"hour", d>>]
  <2>1. CASE d = c
    BY <1>2, <1>3, <1>6, <1>7, <2>1, CallFacts
  <2>2. CASE d # c
    BY <1>4, <1>6, <1>7, <2>2
  <2> QED BY <2>1, <2>2
<1>9. Budgets'[<<"minute", "all">>] = g[<<"minute", "all">>]
      /\ Budgets'[<<"hour", "all">>] = g[<<"hour", "all">>]
  BY <1>2, <1>3, <1>6, <1>7, CallFacts
<1>10. Budgets' = g
  BY <1>1, <1>5, <1>8, <1>9, SameBudgets
<1> QED BY <1>10, PromiseSteps DEF g

\* Looking at a bucket changes nothing a call could tell.
LEMMA HeadersRefine ==
  ASSUME BucketsKept, NEW c \in Client, Headers(c)
  PROVE  Budgets' = Budgets
<1> USE RateAssumption
<1>1. minute[c] \in Kept(Burst) /\ hour[c] \in Kept(PerHour)
  BY DEF BucketsKept
<1>2. \A d \in Client :
        /\ Eager(minute'[d], Burst, MinuteRate) = Eager(minute[d], Burst, MinuteRate)
        /\ Eager(hour'[d], PerHour, HourRate) = Eager(hour[d], PerHour, HourRate)
  <2>1. ASSUME NEW d \in Client, d # c PROVE minute'[d] = minute[d] /\ hour'[d] = hour[d]
    BY <2>1 DEF Headers, BucketsKept
  <2>2. minute'[c] = MinuteOf(c) /\ hour'[c] = HourOf(c)
    BY DEF Headers, BucketsKept
  <2>3. /\ Eager(MinuteOf(c), Burst, MinuteRate) = Eager(minute[c], Burst, MinuteRate)
        /\ Eager(HourOf(c), PerHour, HourRate) = Eager(hour[c], PerHour, HourRate)
    BY <1>1, RefilledFacts DEF MinuteOf, HourOf
  <2> QED BY <2>1, <2>2, <2>3
<1>3. gminute' = gminute /\ ghour' = ghour
  BY DEF Headers
<1> QED BY <1>2, <1>3, BudgetsAre, BudgetsWillBe, SameBudgets DEF BudgetFacts

\* Clients that are reset have full budgets.
LEMMA ResetRefines ==
  ASSUME NEW cs \in SUBSET Client, Reset(cs)
  PROVE  Promise!Refund
<1> USE RateAssumption
<1> DEFINE g == [b \in BudgetSet |-> IF b[2] \in cs THEN SizeOf(b) ELSE Budgets[b]]
<1>1. /\ g = [b \in BudgetSet |-> g[b]]
      /\ \A k \in {"minute", "hour"}, d \in Client \cup {"all"} :
           g[<<k, d>>] = IF d \in cs THEN SizeOf(<<k, d>>) ELSE Budgets[<<k, d>>]
  BY DEF BudgetSet
<1> HIDE DEF g
<1>2. Eager(Full(Burst), Burst, MinuteRate) = Burst /\ Eager(Full(PerHour), PerHour, HourRate) = PerHour
  BY EagerOfNow DEF Full
<1>3. /\ \A d \in Client : /\ minute'[d] = IF d \in cs THEN Full(Burst) ELSE minute[d]
                           /\ hour'[d] = IF d \in cs THEN Full(PerHour) ELSE hour[d]
      /\ gminute' = gminute /\ ghour' = ghour
  BY DEF Reset
<1>4. ASSUME NEW d \in Client
      PROVE  /\ Budgets'[<<"minute", d>>] = g[<<"minute", d>>]
             /\ Budgets'[<<"hour", d>>] = g[<<"hour", d>>]
  <2>1. /\ g[<<"minute", d>>] = IF d \in cs THEN Burst ELSE Budgets[<<"minute", d>>]
        /\ g[<<"hour", d>>] = IF d \in cs THEN PerHour ELSE Budgets[<<"hour", d>>]
    BY <1>1, Sizes
  <2>2. /\ Budgets'[<<"minute", d>>] = Eager(minute'[d], Burst, MinuteRate)
        /\ Budgets'[<<"hour", d>>] = Eager(hour'[d], PerHour, HourRate)
        /\ Budgets[<<"minute", d>>] = Eager(minute[d], Burst, MinuteRate)
        /\ Budgets[<<"hour", d>>] = Eager(hour[d], PerHour, HourRate)
    BY BudgetsAre, BudgetsWillBe DEF BudgetFacts
  <2> QED BY <1>2, <1>3, <2>1, <2>2
<1>5. /\ Budgets'[<<"minute", "all">>] = g[<<"minute", "all">>]
      /\ Budgets'[<<"hour", "all">>] = g[<<"hour", "all">>]
  BY <1>1, <1>3, NameAssumption, BudgetsAre, BudgetsWillBe DEF BudgetFacts
<1>6. Budgets' = [b \in BudgetSet |-> Budgets'[b]]
  BY BudgetsWillBe DEF BudgetFacts
<1>7. Budgets' = g
  BY <1>1, <1>4, <1>5, <1>6, SameBudgets
<1> QED BY <1>7, PromiseSteps DEF g

\* The buckets that stop counting the time are full.
LEMMA TickRefines ==
  ASSUME BucketsTyped, Tick
  PROVE  Promise!Earn
<1> USE RateAssumption
<1> DEFINE g == [b \in BudgetSet |-> IF Budgets[b] + IncomeOf(b) < SizeOf(b)
                                      THEN Budgets[b] + IncomeOf(b) ELSE SizeOf(b)]
<1>1. /\ g = [b \in BudgetSet |-> g[b]]
      /\ \A k \in {"minute", "hour"}, d \in Client \cup {"all"} :
           g[<<k, d>>] = IF Budgets[<<k, d>>] + IncomeOf(<<k, d>>) < SizeOf(<<k, d>>)
                         THEN Budgets[<<k, d>>] + IncomeOf(<<k, d>>) ELSE SizeOf(<<k, d>>)
  BY DEF BudgetSet
<1> HIDE DEF g
<1>2. /\ \A d \in Client : /\ minute[d] \in Bucket(Burst, MinuteRate)
                           /\ hour[d] \in Bucket(PerHour, HourRate)
                           /\ minute'[d] = Aged(minute[d], Burst, MinuteRate)
                           /\ hour'[d] = Aged(hour[d], PerHour, HourRate)
      /\ gminute \in Bucket(PerMinute, MinuteRate) /\ ghour \in Bucket(PerHour, HourRate)
      /\ gminute' = Aged(gminute, PerMinute, MinuteRate) /\ ghour' = Aged(ghour, PerHour, HourRate)
  BY DEF Tick, BucketsTyped
<1>3. ASSUME NEW d \in Client
      PROVE  /\ Budgets'[<<"minute", d>>] = g[<<"minute", d>>]
             /\ Budgets'[<<"hour", d>>] = g[<<"hour", d>>]
  <2>1. /\ Eager(minute'[d], Burst, MinuteRate) =
             IF Eager(minute[d], Burst, MinuteRate) + MinuteRate < Burst
             THEN Eager(minute[d], Burst, MinuteRate) + MinuteRate ELSE Burst
        /\ Eager(hour'[d], PerHour, HourRate) =
             IF Eager(hour[d], PerHour, HourRate) + HourRate < PerHour
             THEN Eager(hour[d], PerHour, HourRate) + HourRate ELSE PerHour
    BY <1>2, AgedEarns
  <2> QED BY <1>1, <2>1, Sizes, BudgetsAre, BudgetsWillBe DEF BudgetFacts
<1>4. /\ Budgets'[<<"minute", "all">>] = g[<<"minute", "all">>]
      /\ Budgets'[<<"hour", "all">>] = g[<<"hour", "all">>]
  <2>1. /\ Eager(gminute', PerMinute, MinuteRate) =
             IF Eager(gminute, PerMinute, MinuteRate) + MinuteRate < PerMinute
             THEN Eager(gminute, PerMinute, MinuteRate) + MinuteRate ELSE PerMinute
        /\ Eager(ghour', PerHour, HourRate) =
             IF Eager(ghour, PerHour, HourRate) + HourRate < PerHour
             THEN Eager(ghour, PerHour, HourRate) + HourRate ELSE PerHour
    BY <1>2, AgedEarns
  <2> QED BY <1>1, <2>1, Sizes, BudgetsAre, BudgetsWillBe DEF BudgetFacts
<1>5. Budgets' = [b \in BudgetSet |-> Budgets'[b]]
  BY BudgetsWillBe DEF BudgetFacts
<1>6. Budgets' = g
  BY <1>1, <1>3, <1>4, <1>5, SameBudgets
<1> QED BY <1>6, PromiseSteps DEF g

LEMMA InitRefines == Init => Promise!Init
<1> SUFFICES ASSUME Init PROVE Promise!Init
  OBVIOUS
<1> USE RateAssumption
<1> DEFINE g == [b \in BudgetSet |-> SizeOf(b)]
<1>1. /\ g = [b \in BudgetSet |-> g[b]]
      /\ \A k \in {"minute", "hour"}, d \in Client \cup {"all"} : g[<<k, d>>] = SizeOf(<<k, d>>)
  BY DEF BudgetSet
<1> HIDE DEF g
<1>2. /\ Eager(Full(Burst), Burst, MinuteRate) = Burst
      /\ Eager(Full(PerMinute), PerMinute, MinuteRate) = PerMinute
      /\ Eager(Full(PerHour), PerHour, HourRate) = PerHour
  BY EagerOfNow DEF Full
<1>3. /\ \A d \in Client : minute[d] = Full(Burst) /\ hour[d] = Full(PerHour)
      /\ gminute = Full(PerMinute) /\ ghour = Full(PerHour)
  BY DEF Init
<1>4. /\ \A d \in Client : /\ Budgets[<<"minute", d>>] = g[<<"minute", d>>]
                           /\ Budgets[<<"hour", d>>] = g[<<"hour", d>>]
      /\ Budgets[<<"minute", "all">>] = g[<<"minute", "all">>]
      /\ Budgets[<<"hour", "all">>] = g[<<"hour", "all">>]
      /\ Budgets = [b \in BudgetSet |-> Budgets[b]]
  BY <1>1, <1>2, <1>3, Sizes, BudgetsAre DEF BudgetFacts
<1>5. Budgets = g
  BY <1>1, <1>4, SameBudgets
<1> QED BY <1>5, PromiseSteps DEF g

\* What the buckets do not change, the budgets do not.
LEMMA StillBudgets ==
  ASSUME UNCHANGED <<minute, hour, gminute, ghour>>
  PROVE  Budgets' = Budgets
<1>1. /\ \A d \in Client : /\ Budgets'[<<"minute", d>>] = Budgets[<<"minute", d>>]
                           /\ Budgets'[<<"hour", d>>] = Budgets[<<"hour", d>>]
      /\ Budgets'[<<"minute", "all">>] = Budgets[<<"minute", "all">>]
      /\ Budgets'[<<"hour", "all">>] = Budgets[<<"hour", "all">>]
  BY BudgetsAre, BudgetsWillBe DEF BudgetFacts
<1> QED BY <1>1, BudgetsAre, BudgetsWillBe, SameBudgets DEF BudgetFacts

(* Buckets refilled only when somebody looks at them behave, for any        *)
(* clients, sizes and rates, like budgets that grow with every tick.        *)
THEOREM BudgetsAlwaysKept == Spec => KeepsBudgets
<1>1. Init => Promise!Init
  BY InitRefines
<1>2. BucketsTyped /\ [Next]_vars => [Promise!Next]_Budgets
  <2> SUFFICES ASSUME BucketsTyped, [Next]_vars
               PROVE  Promise!Next \/ Budgets' = Budgets
    OBVIOUS
  <2> USE DEF Promise!Next
  <2>0. BucketsKept
    BY BucketFacts, RateAssumption DEF BucketsTyped, BucketsKept
  <2>1. ASSUME NEW c \in Client, CheckRateLimit(c) PROVE Promise!Next
    BY <2>0, <2>1, CallRefines
  <2>2. ASSUME NEW c \in Client, Headers(c) PROVE Budgets' = Budgets
    BY <2>0, <2>2, HeadersRefine
  <2>3. ASSUME NEW cs \in SUBSET Client, Reset(cs) PROVE Promise!Next
    BY <2>3, ResetRefines
  <2>4. CASE Tick
    BY <2>4, TickRefines
  <2>5. CASE OpenWindow \/ UNCHANGED vars
    BY <2>5, StillBudgets DEF OpenWindow, vars
  <2> QED BY <2>1, <2>2, <2>3, <2>4, <2>5 DEF Next
<1> QED BY <1>1, <1>2, BucketsAlwaysTyped, PTL DEF Spec, KeepsBudgets, Promise!Spec

-----------------------------------------------------------------------------
(* Types: no bucket is overdrawn or overfull, and no window is too long.   *)
THEOREM TypeCorrect == Spec => []TypeOK
<1> DEFINE WindowTyped == win \in [open : BOOLEAN, ticks : 0 .. MaxTicks, client : Nat, all : Nat]
<1>0. MaxTicks \in Nat
  BY RateAssumption
<1>1. Init => WindowTyped
  BY <1>0 DEF Init, Closed
<1>2. WindowTyped /\ [Next]_vars => WindowTyped'
  <2> SUFFICES ASSUME WindowTyped, [Next]_vars PROVE WindowTyped'
    OBVIOUS
  <2>1. CASE UNCHANGED win
    BY <2>1
  <2>2. ASSUME NEW c \in Client, Count(c) PROVE WindowTyped'
    <3>1. win.client + 1 \in Nat /\ win.all + 1 \in Nat
      OBVIOUS
    <3> QED BY <2>2, <3>1 DEF Count
  <2>3. ASSUME NEW cs, Reset(cs) PROVE WindowTyped'
    BY <2>3 DEF Reset
  <2>4. CASE Tick
    BY <1>0, <2>4 DEF Tick, Closed
  <2>5. CASE OpenWindow
    BY <2>5 DEF OpenWindow
  <2> QED BY <2>1, <2>2, <2>3, <2>4, <2>5 DEF Next, CheckRateLimit, Headers, vars
<1>3. BucketsTyped /\ WindowTyped => TypeOK
  BY DEF BucketsTyped, TypeOK
<1> HIDE DEF WindowTyped
<1> QED BY <1>1, <1>2, <1>3, BucketsAlwaysTyped, PTL DEF Spec
================================================================================
