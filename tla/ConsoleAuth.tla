------------------------------ MODULE ConsoleAuth ------------------------------
(***************************************************************************)
(* The console's authentication service (services/console-auth/main.py):   *)
(* login with a sliding-window limiter, refresh with rotation, logout and  *)
(* verify.  No handler awaits, so each runs in one piece on the event loop *)
(* and is one action; the order of the calls, retries with old tokens, the *)
(* clock and restarts are free.                                            *)
(*                                                                         *)
(* login and refresh always issue an access and a refresh token together:  *)
(* the n-th pair ever issued is pairs[n], and n stands for both tokens and *)
(* for the hash of the refresh token.  Signatures are taken as unforgeable,*)
(* so a token that was never issued is refused and changes nothing.        *)
(***************************************************************************)
EXTENDS Naturals, Sequences, FiniteSets

CONSTANTS
  User,         \* user names, known or not
  Ip,           \* client addresses
  MaxPairs,     \* bound on the token pairs ever issued
  AccessLife,   \* ACCESS_TOKEN_EXPIRE_MINUTES, in clock ticks
  RefreshLife,  \* REFRESH_TOKEN_EXPIRE_DAYS
  MaxAttempts,  \* RATE_LIMIT_PER_MINUTE
  Window        \* window_seconds of LoginRateLimiter

ASSUME AuthAssumption ==
  /\ MaxPairs \in Nat
  /\ AccessLife \in Nat \ {0} /\ RefreshLife \in Nat \ {0}
  /\ AccessLife <= RefreshLife
  /\ MaxAttempts \in Nat \ {0} /\ Window \in Nat \ {0}

VARIABLES
  users,     \* _users: the configuration the process was started with
  pairs,     \* every token pair ever issued: what the clients hold
  store,     \* _refresh_token_hashes
  attempts,  \* _attempts: per key, the age of each recorded failure
  wrong      \* per key, the age of each wrong password checked by this
             \* process within a window: history, not state of the program

authVars == <<users, pairs, store, attempts, wrong>>

Key == Ip \X User   \* rate_key

\* parent: the pair that was exchanged for this one, 0 after a login.
\* Ages saturate where nothing tells them apart any more.
Pair == [user : User, parent : 0 .. MaxPairs, age : 0 .. RefreshLife]

Issued == 1 .. Len(pairs)

Older(age, bound) == IF age < bound THEN age + 1 ELSE age

-----------------------------------------------------------------------------
AuthInit ==
  /\ users \in SUBSET User
  /\ pairs = <<>>
  /\ store = {}
  /\ attempts = [k \in Key |-> <<>>]
  /\ wrong = [k \in Key |-> <<>>]

\* The entries outside the window: the clock is monotonic, so they come first.
Expired(ages) == Cardinality({i \in 1 .. Len(ages) : ages[i] >= Window})

\* The entries within it.
Recent(ages) == SubSeq(ages, Expired(ages) + 1, Len(ages))

\* Bug variant: nothing ever leaves the list.
MutPurge(ages) == ages

\* is_allowed and remaining drop the entries that are outside the window.
Purged(ages) == Recent(ages)

\* create_access_token and create_refresh_token.
Issue(u, parent) ==
  pairs' = Append(pairs, [user |-> u, parent |-> parent, age |-> 0])

(* login, by outcome.  is_allowed has purged the key's list in all of them. *)
LoginLimited(k) ==
  /\ Len(Purged(attempts[k])) >= MaxAttempts
  /\ attempts' = [attempts EXCEPT ![k] = Purged(@)]
  /\ UNCHANGED <<users, pairs, store, wrong>>

\* Bug variant: only failures of known users are recorded.
MutRecordKnown(k) ==
  IF k[2] \in users
  THEN [attempts EXCEPT ![k] = Append(Purged(@), 0)]
  ELSE [attempts EXCEPT ![k] = Purged(@)]

\* record_attempt
Recorded(k) == [attempts EXCEPT ![k] = Append(Purged(@), 0)]

\* Unknown user, wrong password, or a configured hash bcrypt cannot read.
LoginWrong(k) ==
  /\ Len(Purged(attempts[k])) < MaxAttempts
  /\ attempts' = Recorded(k)
  /\ wrong' = [wrong EXCEPT ![k] = Append(@, 0)]
  /\ UNCHANGED <<users, pairs, store>>

LoginRight(k) ==
  /\ Len(Purged(attempts[k])) < MaxAttempts
  /\ k[2] \in users
  /\ Len(pairs) < MaxPairs
  /\ attempts' = [attempts EXCEPT ![k] = Purged(@)]
  /\ Issue(k[2], 0)
  /\ store' = store \cup {Len(pairs) + 1}
  /\ UNCHANGED <<users, wrong>>

AccessValid(n) == pairs[n].age < AccessLife

\* Bug variant: the signature and the expiry alone are verified.
MutNoStore(n) == pairs[n].age < RefreshLife

\* verify_refresh_token
RefreshValid(n) == pairs[n].age < RefreshLife /\ n \in store

\* Bug variant: the old token is kept when a new one is issued.
MutNoRotation(n) ==
  /\ RefreshValid(n)
  /\ pairs[n].user \in users
  /\ Len(pairs) < MaxPairs
  /\ Issue(pairs[n].user, n)
  /\ store' = store \cup {Len(pairs) + 1}
  /\ UNCHANGED <<users, attempts, wrong>>

\* A token that is refused, or whose user is gone, changes nothing.
Refresh(n) ==
  /\ RefreshValid(n)
  /\ pairs[n].user \in users
  /\ Len(pairs) < MaxPairs
  /\ Issue(pairs[n].user, n)
  /\ store' = (store \ {n}) \cup {Len(pairs) + 1}
  /\ UNCHANGED <<users, attempts, wrong>>

\* revoke_refresh_token, which does not ask whether the token has expired.
Logout(n) ==
  /\ n \in store
  /\ store' = store \ {n}
  /\ UNCHANGED <<users, pairs, attempts, wrong>>

(* A new process: the store and the limiter are empty, the users are read
   again; tokens signed before keep their signatures. *)
Restart ==
  /\ users' \in SUBSET User
  /\ store' = {}
  /\ attempts' = [k \in Key |-> <<>>]
  /\ wrong' = [k \in Key |-> <<>>]
  /\ UNCHANGED pairs

Tick ==
  /\ pairs' = [n \in Issued |-> [pairs[n] EXCEPT !.age = Older(@, RefreshLife)]]
  /\ attempts' = [k \in Key |-> [i \in 1 .. Len(attempts[k]) |->
                                   Older(attempts[k][i], Window)]]
  /\ wrong' = [k \in Key |-> Recent([i \in 1 .. Len(wrong[k]) |-> wrong[k][i] + 1])]
  /\ UNCHANGED <<users, store>>

AuthNext ==
  \/ \E k \in Key : LoginLimited(k) \/ LoginWrong(k) \/ LoginRight(k)
  \/ \E n \in Issued : Refresh(n) \/ Logout(n)
  \/ Restart
  \/ Tick

AuthSpec == AuthInit /\ [][AuthNext]_authVars

(* Time passes.  Nothing is assumed of the clients or of restarts. *)
AuthFairSpec == AuthSpec /\ WF_authVars(Tick)

-----------------------------------------------------------------------------
(* Every variable has its type; the limiter's lists are bounded. *)
AuthTypeOK ==
  /\ users \subseteq User
  /\ pairs \in Seq(Pair) /\ Len(pairs) <= MaxPairs
  /\ store \subseteq Issued
  /\ attempts \in [Key -> Seq(0 .. Window)]
  /\ \A k \in Key : Len(attempts[k]) <= MaxAttempts
  /\ wrong \in [Key -> Seq(0 .. Window - 1)]

(* A refresh token is exchanged at most once, however often it is presented
   and whatever restarts come in between, and one that has been exchanged is
   not in the store: of the tokens of one login at most one can be used
   (refresh, "each refresh invalidates the previous token"). *)
SingleUse ==
  \A m, n \in Issued : pairs[n].parent # 0 =>
    /\ pairs[m].parent = pairs[n].parent => m = n
    /\ pairs[n].parent \notin store

\* The pairs of the login that began with pair n: with n, everything that was
\* issued in exchange for one of them.
Line(n) ==
  {m \in Issued : \A D \in SUBSET Issued :
     n \in D /\ (\A k \in Issued : pairs[k].parent \in D => k \in D) => m \in D}

\* No refresh token of the login that began with pair n is in the store.
LoggedOut(n) == n \in Issued /\ Line(n) \cap store = {}

\* And no access token of it is valid.
ShutOut(n) == LoggedOut(n) /\ \A m \in Line(n) : ~AccessValid(m)

(* Logging out with the current token ends a login for good: no token of it
   can be refreshed any more, and after its access tokens have run out none
   is let through again (logout, refresh, verify). *)
LogoutShutsOut == \A n \in 1 .. MaxPairs : LoggedOut(n) ~> []ShutOut(n)

(* No more than MaxAttempts wrong passwords are checked for one key within one
   window by one process, with limits, expiry and successful logins in any
   order, for known and for unknown users (login, LoginRateLimiter). *)
GuessesBounded == \A k \in Key : Len(wrong[k]) <= MaxAttempts

(* A key that is limited is allowed again after some time, also when its user
   keeps trying meanwhile: refused attempts do not extend the limit. *)
LimitEnds ==
  \A k \in Key :
    Len(Purged(attempts[k])) >= MaxAttempts
      ~> Len(Purged(attempts[k])) < MaxAttempts
=============================================================================
