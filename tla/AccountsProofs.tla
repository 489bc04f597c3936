--------------------------- MODULE AccountsProofs ---------------------------
(***************************************************************************)
(* What the authentication service guarantees, for any number of requests, *)
(* accounts, tokens, addresses and pictures: the bound of the rate limiter *)
(* (middleware/rateLimitter.go) for any rate, burst and TTL in which an    *)
(* idle bucket fills up, the tokens of services/auth.go and                *)
(* services/users.go, the profile pictures of services/avatar.go, and the  *)
(* roles and overrides of handlers/roles.go and services/permissions.go.   *)
(***************************************************************************)
EXTENDS Accounts, Roles, RateLimiter, Avatars, SequenceTheorems, TLAPS

-----------------------------------------------------------------------------
(* The rate limiter *)

\* What a rate brings in d ticks. The provers multiply badly: the steps below know
\* of products only what the lemmas say.
Earned(d) == Rate * d

LEMMA ConstantFacts ==
  /\ Rate \in Nat /\ Cost \in Nat /\ TTL \in Nat /\ MaxTime \in Nat
  /\ Full \in Nat /\ Cost <= Full /\ Full <= Earned(TTL)
BY LimiterAssumption, SMT DEF Full, Earned

LEMMA EarnedFacts ==
  /\ Earned(0) = 0
  /\ \A d \in Nat : Earned(d) \in Nat /\ Earned(d + 1) = Earned(d) + Rate
  /\ \A d, e \in Nat : d <= e => Earned(d) <= Earned(e)
  /\ \A d, e \in Nat : Earned(d + e) = Earned(d) + Earned(e)
<1>0. Rate \in Nat
  BY ConstantFacts
<1>1. \A d, e \in Nat : Earned(d + e) = Earned(d) + Earned(e)
  BY <1>0, SMT DEF Earned
<1>2. Earned(0) = 0 /\ Earned(1) = Rate /\ \A d \in Nat : Earned(d) \in Nat
  BY <1>0, SMT DEF Earned
<1>3. ASSUME NEW d \in Nat, NEW e \in Nat, d <= e PROVE Earned(d) <= Earned(e)
  <2> DEFINE f == e - d
  <2>1. f \in Nat /\ e = d + f
    BY <1>3
  <2>2. Earned(d + f) = Earned(d) + Earned(f)
    BY <1>1, <2>1
  <2>3. Earned(d) \in Nat /\ Earned(f) \in Nat
    BY <1>2, <2>1
  <2> HIDE DEF f
  <2> QED BY <2>1, <2>2, <2>3
<1>4. ASSUME NEW d \in Nat PROVE Earned(d + 1) = Earned(d) + Rate
  BY <1>1, <1>2
<1> QED BY <1>1, <1>2, <1>3, <1>4

LEMMA PassedFacts ==
  /\ Cost * 0 = 0
  /\ \A n \in Nat : Cost * n \in Nat /\ Cost * (n + 1) = Cost * n + Cost
BY ConstantFacts, SMT

\* The bucket of a client, in the words of Earned
LEMMA RefilledFacts ==
  ASSUME NEW c \in Client,
         now \in Nat
  PROVE  /\ Refilled(c) \in 0 .. Full
         /\ now - c.last \in Nat
         /\ Refilled(c) = AtMost(c.tokens + Earned(now - c.last), Full)
<1>1. Refilled(c) = AtMost(c.tokens + Earned(now - c.last), Full)
  BY DEF Refilled, Earned
<1>2. c.last \in 0 .. now /\ c.tokens \in 0 .. Full
  BY DEF Client
<1>3. now - c.last \in Nat
  BY <1>2
<1>4. Earned(now - c.last) \in Nat
  BY <1>3, EarnedFacts
<1>5. AtMost(c.tokens + Earned(now - c.last), Full) \in 0 .. Full
  BY <1>2, <1>4, ConstantFacts DEF AtMost
<1> QED BY <1>1, <1>3, <1>5

-----------------------------------------------------------------------------
\* Every reachable state of the limiter is well typed; no bucket runs below zero
\* or over.
THEOREM LimiterTypeCorrect == LimiterSpec => []LimiterTypeOK
<1>1. LimiterInit => LimiterTypeOK
  BY ConstantFacts DEF LimiterInit, LimiterTypeOK, Client, Unknown
<1>2. LimiterTypeOK /\ [LimiterNext]_limiterVars => LimiterTypeOK'
  <2> SUFFICES ASSUME LimiterTypeOK, [LimiterNext]_limiterVars PROVE LimiterTypeOK'
    OBVIOUS
  <2>0. now \in Nat /\ since \in 0 .. now /\ since \in Nat /\ MaxTime \in Nat
    BY ConstantFacts DEF LimiterTypeOK, Client
  <2>1. ASSUME NEW a \in Address
        PROVE Refilled(clients[a]) \in 0 .. Full
    BY <2>0, RefilledFacts DEF LimiterTypeOK, Client
  <2>2. ASSUME NEW a \in Address, NEW t \in 0 .. Full, Store(a, t), UNCHANGED now
        PROVE clients' \in [Address -> Client']
    BY <2>0, <2>2 DEF Store, LimiterTypeOK, Client
  <2>3. ASSUME NEW a \in Address, AllowNew(a) PROVE LimiterTypeOK'
    <3>1. Full - Cost \in 0 .. Full
      BY ConstantFacts
    <3> QED BY <2>2, <2>3, <3>1 DEF AllowNew, LimiterTypeOK, Client
  <2>4. ASSUME NEW a \in Address, Allow(a) PROVE LimiterTypeOK'
    <3>1. Refilled(clients[a]) - Cost \in 0 .. Full
      BY <2>1, <2>4, ConstantFacts DEF Allow
    <3> QED BY <2>2, <2>4, <3>1 DEF Allow, LimiterTypeOK, Client
  <2>5. ASSUME NEW a \in Address, Refuse(a) PROVE LimiterTypeOK'
    BY <2>1, <2>2, <2>5 DEF Refuse, LimiterTypeOK, Client
  <2>6. CASE JanitorWakes
    BY <2>6, <2>0, ConstantFacts DEF JanitorWakes, LimiterTypeOK, Client
  <2>7. CASE Cleanup
    BY <2>7, <2>0, ConstantFacts DEF Cleanup, LimiterTypeOK, Client, Unknown
  <2>8. CASE LimiterTick
    <3>1. now' \in 0 .. MaxTime /\ 0 .. now \subseteq 0 .. now'
      BY <2>8, <2>0 DEF LimiterTick, LimiterTypeOK, Client
    <3>2. clients' \in [Address -> Client']
      BY <2>8, <3>1 DEF LimiterTick, LimiterTypeOK, Client
    <3> QED BY <2>8, <2>0, <3>1, <3>2 DEF LimiterTick, LimiterTypeOK, Client
  <2>9. CASE Watch
    BY <2>9, <2>0 DEF Watch, LimiterTypeOK, Client
  <2>10. CASE UNCHANGED limiterVars
    BY <2>10 DEF limiterVars, LimiterTypeOK, Client
  <2> QED BY <2>3, <2>4, <2>5, <2>6, <2>7, <2>8, <2>9, <2>10 DEF LimiterNext
<1> QED BY <1>1, <1>2, PTL DEF LimiterSpec

-----------------------------------------------------------------------------
\* A cleanup that waited for the mutex only has an older cutoff.
CutoffOK == cutoff = 0 \/ cutoff + TTL <= now

\* BurstBound is inductive if the tokens at hand count as well.
Covered(a) == Cost * passed[a] + Level(a) <= Full + Earned(now - since)

BurstInv == LimiterTypeOK /\ CutoffOK /\ \A a \in Address : Covered(a)

LEMMA LevelFacts ==
  ASSUME LimiterTypeOK, NEW a \in Address
  PROVE  Level(a) \in 0 .. Full
<1>1. now \in Nat /\ clients[a] \in Client
  BY ConstantFacts DEF LimiterTypeOK, Client
<1>2. Refilled(clients[a]) \in 0 .. Full
  BY <1>1, RefilledFacts
<1> QED BY <1>2, ConstantFacts DEF Level

\* A call leaves in the bucket what it stores there, and other buckets alone.
LEMMA StoreFacts ==
  ASSUME LimiterTypeOK, NEW a \in Address, NEW t \in 0 .. Full, Store(a, t), now' = now
  PROVE  /\ Level(a)' = t
         /\ \A b \in Address \ {a} : Level(b)' = Level(b)
<1>1. clients'[a] = [known |-> TRUE, tokens |-> t, last |-> now] /\ now \in Nat
  BY ConstantFacts DEF Store, LimiterTypeOK, Client
<1>2. Level(a)' = AtMost(t + Rate * (now - now), Full)
  BY <1>1 DEF Level, Refilled, AtMost
<1>3. Rate * (now - now) = 0
  <2>1. now - now = 0
    BY <1>1
  <2> QED BY <2>1, EarnedFacts DEF Earned
<1>4. \A b \in Address \ {a} : clients'[b] = clients[b]
  BY DEF Store, LimiterTypeOK, Client
<1> QED BY <1>2, <1>3, <1>4, ConstantFacts DEF Level, Refilled, AtMost

\* Evicting an idle client is equivalent to letting it fill up: rateLimitter.go:78.
LEMMA EvictionChangesNothing ==
  ASSUME LimiterTypeOK, CutoffOK, Cleanup, NEW a \in Address
  PROVE  Level(a)' = Level(a)
<1> DEFINE c == clients[a]
<1>1. now \in Nat /\ now' = now /\ c \in Client
  BY ConstantFacts DEF LimiterTypeOK, Client, Cleanup
<1>2. CASE c.known /\ c.last < cutoff
  <2>1. TTL <= now - c.last /\ now - c.last \in Nat
    BY <1>1, <1>2, ConstantFacts DEF CutoffOK, LimiterTypeOK, Client
  <2>2. Full <= Earned(now - c.last) /\ Earned(now - c.last) \in Nat
    <3> DEFINE d == now - c.last
    <3>1. TTL \in Nat /\ d \in Nat /\ TTL <= d
      BY <2>1, ConstantFacts
    <3> HIDE DEF d
    <3>2. Earned(TTL) <= Earned(d) /\ Earned(d) \in Nat /\ Earned(TTL) \in Nat
      BY <3>1, EarnedFacts
    <3>3. Full <= Earned(d)
      BY <3>2, ConstantFacts
    <3> QED BY <3>2, <3>3 DEF d
  <2>3. Refilled(c) = Full
    <3>1. Refilled(c) = AtMost(c.tokens + Earned(now - c.last), Full)
      BY <1>1, RefilledFacts
    <3> QED BY <1>1, <2>2, <3>1, ConstantFacts DEF AtMost, Client
  <2>4. clients'[a] = Unknown
    BY <1>2 DEF Cleanup
  <2> QED BY <1>2, <2>3, <2>4 DEF Level, Unknown
<1>3. CASE ~(c.known /\ c.last < cutoff)
  <2>1. clients'[a] = clients[a]
    BY <1>3 DEF Cleanup, LimiterTypeOK, Client
  <2> QED BY <1>1, <2>1 DEF Level, Refilled
<1> QED BY <1>2, <1>3

\* In a tick a bucket gains what the rate says, until it is full.
LEMMA TickFacts ==
  ASSUME LimiterTypeOK, LimiterTick, NEW a \in Address
  PROVE  Level(a)' = AtMost(Level(a) + Rate, Full) /\ Level(a)' \in 0 .. Full
<1> DEFINE c == clients[a]
<1>1. /\ now \in Nat /\ now' = now + 1 /\ clients' = clients
      /\ c \in Client
  BY ConstantFacts DEF LimiterTypeOK, Client, LimiterTick
<1>2. CASE c.known
  <2>1. /\ now - c.last \in Nat
        /\ Refilled(c) = AtMost(c.tokens + Earned(now - c.last), Full)
    BY <1>1, RefilledFacts
  <2>2. Earned((now - c.last) + 1) = Earned(now - c.last) + Rate
    BY <2>1, EarnedFacts
  <2>3. (now + 1) - c.last = (now - c.last) + 1
    BY <1>1 DEF Client
  <2>4. Level(a)' = AtMost(c.tokens + Rate * ((now + 1) - c.last), Full)
    BY <1>1, <1>2 DEF Level, Refilled, AtMost
  <2>5. Level(a)' = AtMost(c.tokens + (Earned(now - c.last) + Rate), Full)
    BY <2>2, <2>3, <2>4 DEF Earned
  <2>6. Level(a) = AtMost(c.tokens + Earned(now - c.last), Full)
    BY <1>2, <2>1 DEF Level
  <2>7. Earned(now - c.last) \in Nat
    BY <2>1, EarnedFacts
  <2> QED BY <1>1, <2>5, <2>6, <2>7, ConstantFacts DEF AtMost, Client
<1>3. CASE ~c.known
  BY <1>1, <1>3, ConstantFacts DEF Level, AtMost
<1> QED BY <1>2, <1>3

LEMMA InitBurstInv == LimiterInit => BurstInv
<1> SUFFICES ASSUME LimiterInit PROVE BurstInv
  OBVIOUS
<1>1. LimiterTypeOK
  BY ConstantFacts DEF LimiterInit, LimiterTypeOK, Client, Unknown
<1>2. \A a \in Address : Level(a) = Full /\ Cost * passed[a] = 0
  BY ConstantFacts, PassedFacts DEF LimiterInit, Level, Unknown
<1>3. Earned(now - since) = 0
  BY EarnedFacts DEF LimiterInit
<1>4. CutoffOK
  BY DEF LimiterInit, CutoffOK
<1> QED BY <1>1, <1>2, <1>3, <1>4, ConstantFacts DEF BurstInv, Covered

LEMMA NextBurstInv == BurstInv /\ LimiterTypeOK' /\ [LimiterNext]_limiterVars => BurstInv'
<1> SUFFICES ASSUME BurstInv, LimiterTypeOK', [LimiterNext]_limiterVars PROVE BurstInv'
  OBVIOUS
<1>0. /\ LimiterTypeOK /\ CutoffOK /\ now \in Nat /\ since \in 0 .. now /\ cutoff \in Nat
      /\ now - since \in Nat /\ Earned(now - since) \in Nat
  <2>1. LimiterTypeOK /\ CutoffOK /\ now \in Nat /\ since \in 0 .. now /\ cutoff \in Nat
    BY ConstantFacts DEF BurstInv, LimiterTypeOK, Client
  <2>2. now - since \in Nat
    BY <2>1
  <2> QED BY <2>1, <2>2, EarnedFacts
<1>1. ASSUME NEW a \in Address
      PROVE  /\ passed[a] \in Nat /\ Cost * passed[a] \in Nat
             /\ Cost * (passed[a] + 1) = Cost * passed[a] + Cost
             /\ Level(a) \in 0 .. Full /\ Covered(a)
  BY <1>0, PassedFacts, LevelFacts DEF BurstInv, LimiterTypeOK, Client
\* A call that takes a token, or none, and stores the rest
<1>2. ASSUME NEW a \in Address, NEW t \in 0 .. Full, Store(a, t),
             UNCHANGED <<now, cutoff, since>>,
             \/ /\ t = Level(a) - Cost
                /\ passed' = [passed EXCEPT ![a] = @ + 1]
             \/ t = Level(a) /\ passed' = passed
      PROVE  BurstInv'
  <2>1. Level(a)' = t /\ \A b \in Address \ {a} : Level(b)' = Level(b)
    BY <1>0, <1>2, StoreFacts
  <2>2. Covered(a)'
    BY <1>0, <1>1, <1>2, <2>1, ConstantFacts DEF Covered, LimiterTypeOK, Client
  <2>3. \A b \in Address \ {a} : Covered(b)'
    BY <1>0, <1>1, <1>2, <2>1, ConstantFacts DEF Covered, LimiterTypeOK, Client
  <2> QED BY <1>0, <1>2, <2>2, <2>3 DEF BurstInv, CutoffOK
<1>3. ASSUME NEW a \in Address, AllowNew(a) PROVE BurstInv'
  <2>1. Full - Cost \in 0 .. Full /\ Level(a) = Full
    BY <1>3, ConstantFacts DEF AllowNew, Level
  <2> QED BY <1>2, <1>3, <2>1 DEF AllowNew
<1>4. ASSUME NEW a \in Address, Allow(a) PROVE BurstInv'
  <2>1. Level(a) = Refilled(clients[a]) /\ Level(a) - Cost \in 0 .. Full
    BY <1>1, <1>4, ConstantFacts DEF Allow, Level
  <2> QED BY <1>2, <1>4, <2>1 DEF Allow
<1>5. ASSUME NEW a \in Address, Refuse(a) PROVE BurstInv'
  <2>1. Level(a) = Refilled(clients[a]) /\ Level(a) \in 0 .. Full
    BY <1>1, <1>5 DEF Refuse, Level
  <2> QED BY <1>2, <1>5, <2>1 DEF Refuse
<1>6. CASE JanitorWakes
  <2>1. \A a \in Address : Covered(a)'
    BY <1>1, <1>6 DEF JanitorWakes, Covered, Level, Refilled
  <2> QED BY <1>0, <1>6, <2>1, ConstantFacts DEF JanitorWakes, BurstInv, CutoffOK
<1>7. CASE Cleanup
  <2>1. \A a \in Address : Covered(a)'
    BY <1>0, <1>1, <1>7, EvictionChangesNothing DEF Cleanup, Covered
  <2> QED BY <1>7, <2>1 DEF Cleanup, BurstInv, CutoffOK
<1>8. CASE LimiterTick
  <2>1. now' - since' = (now - since) + 1 /\ passed' = passed
    BY <1>0, <1>8 DEF LimiterTick
  <2>2. Earned(now' - since') = Earned(now - since) + Rate
    BY <1>0, <2>1, EarnedFacts
  <2>3. ASSUME NEW a \in Address PROVE Covered(a)'
    <3>1. Level(a)' <= Level(a) + Rate /\ Level(a)' \in 0 .. Full
      BY <1>0, <1>1, <1>8, TickFacts, ConstantFacts DEF AtMost
    <3> QED BY <1>0, <1>1, <2>1, <2>2, <3>1, ConstantFacts DEF Covered
  <2> QED BY <1>0, <1>8, <2>3, ConstantFacts DEF LimiterTick, BurstInv, CutoffOK
<1>9. CASE Watch
  <2>1. now' - since' = 0 /\ clients' = clients /\ now' = now
    BY <1>0, <1>9 DEF Watch
  <2>2. Earned(now' - since') = 0
    BY <2>1, EarnedFacts
  <2>3. ASSUME NEW a \in Address PROVE Covered(a)'
    <3>1. Level(a)' = Level(a) /\ Cost * passed'[a] = 0
      BY <2>1, <1>9, PassedFacts DEF Watch, Level, Refilled
    <3> QED BY <1>1, <2>2, <3>1, ConstantFacts DEF Covered
  <2> QED BY <1>0, <1>9, <2>3 DEF Watch, BurstInv, CutoffOK
<1>10. CASE UNCHANGED limiterVars
  <2>1. \A a \in Address : Covered(a)'
    BY <1>1, <1>10 DEF limiterVars, Covered, Level, Refilled
  <2> QED BY <1>0, <1>10, <2>1 DEF limiterVars, BurstInv, CutoffOK
<1> QED BY <1>3, <1>4, <1>5, <1>6, <1>7, <1>8, <1>9, <1>10 DEF LimiterNext

\* No address gets more through, in any window of time, than a burst and what the
\* rate allows for the window, evictions or not.
THEOREM BurstIsBounded == LimiterSpec => []BurstBound
<1>1. BurstInv => BurstBound
  <2> SUFFICES ASSUME BurstInv, NEW a \in Address
               PROVE  Cost * passed[a] <= Full + Rate * (now - since)
    BY DEF BurstBound
  <2>1. Level(a) \in 0 .. Full /\ passed[a] \in Nat /\ now - since \in Nat
    BY LevelFacts, ConstantFacts DEF BurstInv, LimiterTypeOK, Client
  <2>2. Cost * passed[a] \in Nat /\ Earned(now - since) \in Nat
    BY <2>1, PassedFacts, EarnedFacts
  <2>3. Cost * passed[a] <= Full + Earned(now - since)
    BY <2>1, <2>2, ConstantFacts DEF BurstInv, Covered
  <2> QED BY <2>3 DEF Earned
<1> QED BY <1>1, InitBurstInv, NextBurstInv, LimiterTypeCorrect, PTL DEF LimiterSpec

\* The limiter does what buckets would that are never evicted: a call lets a
\* request through exactly when the address has the tokens for it, and what else
\* the limiter does, the janitor's cleanup above all, changes no bucket's level.
THEOREM BucketImplemented == LimiterSpec => Bucket!Spec
<1> DEFINE level == [a \in Address |-> Level(a)]
<1>1. ASSUME LimiterInit PROVE Bucket!Init
  BY <1>1 DEF LimiterInit, Bucket!Init, Level, Unknown
<1>2. ASSUME BurstInv, [LimiterNext]_limiterVars PROVE [Bucket!Next]_(Bucket!vars)
  <2> USE DEF Bucket!vars, Bucket!Next
  <2>0. /\ LimiterTypeOK /\ CutoffOK
        /\ \A a \in Address : Level(a) \in 0 .. Full
    BY <1>2, LevelFacts DEF BurstInv
  \* A call that takes a token, or none, and stores the rest
  <2>1. ASSUME NEW a \in Address, NEW t \in 0 .. Full, Store(a, t), now' = now
        PROVE  level' = [level EXCEPT ![a] = t]
    <3>1. Level(a)' = t /\ \A b \in Address \ {a} : Level(b)' = Level(b)
      BY <2>0, <2>1, StoreFacts
    <3> QED BY <3>1, Zenon
  <2>2. ASSUME NEW a \in Address, NEW t \in 0 .. Full, Store(a, t), now' = now,
               Level(a) >= Cost, t = Level(a) - Cost, passed' = [passed EXCEPT ![a] = @ + 1]
        PROVE  Bucket!Pass(a)
    BY <2>1, <2>2 DEF Bucket!Pass
  <2>3. ASSUME NEW a \in Address, AllowNew(a) PROVE Bucket!Pass(a)
    <3>1. Full - Cost \in 0 .. Full /\ Level(a) = Full /\ Level(a) >= Cost
      BY <2>3, ConstantFacts DEF AllowNew, Level
    <3> QED BY <2>2, <2>3, <3>1 DEF AllowNew
  <2>4. ASSUME NEW a \in Address, Allow(a) PROVE Bucket!Pass(a)
    <3>1. Level(a) = Refilled(clients[a]) /\ Level(a) - Cost \in 0 .. Full /\ Level(a) >= Cost
      BY <2>0, <2>4, ConstantFacts DEF Allow, Level
    <3> QED BY <2>2, <2>4, <3>1 DEF Allow
  <2>5. ASSUME NEW a \in Address, Refuse(a) PROVE UNCHANGED <<level, passed>>
    <3>1. Level(a) = Refilled(clients[a]) /\ Level(a) \in 0 .. Full
      BY <2>0, <2>5 DEF Refuse, Level
    <3>2. level' = [level EXCEPT ![a] = Level(a)]
      BY <2>1, <2>5, <3>1 DEF Refuse
    <3> QED BY <2>5, <3>2 DEF Refuse
  <2>6. CASE JanitorWakes
    BY <2>6 DEF JanitorWakes, Level, Refilled
  <2>7. CASE Cleanup
    <3>1. \A a \in Address : Level(a)' = Level(a)
      BY <2>0, <2>7, EvictionChangesNothing
    <3> QED BY <2>7, <3>1, Zenon DEF Cleanup
  <2>8. CASE LimiterTick
    <3>1. \A a \in Address : Level(a)' = AtMost(Level(a) + Rate, Full)
      BY <2>0, <2>8, TickFacts
    <3> QED BY <2>8, <3>1 DEF LimiterTick, Bucket!Tick, AtMost
  <2>9. CASE Watch
    BY <2>9 DEF Watch, Bucket!Watch, Level, Refilled
  <2>10. CASE UNCHANGED limiterVars
    BY <2>10 DEF limiterVars, Level, Refilled
  <2> QED BY <1>2, <2>3, <2>4, <2>5, <2>6, <2>7, <2>8, <2>9, <2>10 DEF LimiterNext
<1>3. LimiterSpec => []BurstInv
  BY InitBurstInv, NextBurstInv, LimiterTypeCorrect, PTL DEF LimiterSpec
<1> QED BY <1>1, <1>2, <1>3, PTL DEF LimiterSpec, Bucket!Spec

-----------------------------------------------------------------------------
(* Accounts and tokens *)

USE NoneAssumption

Holding == {"validated", "inserted"}

\* What a request carries, by what it is doing
ReqOK ==
  \A r \in Request :
    /\ req[r].pc \in Holding => req[r].token \in Token /\ req[r].name \in Name
                                /\ req[r].new \in Password
    /\ req[r].pc \notin Holding => req[r].token = None
    /\ req[r].pc = "resetting" =>
         /\ req[r].key \in Key /\ req[r].name \in Name /\ req[r].new \in Password
         /\ resets[req[r].key].state # "absent"
         /\ resets[req[r].key].user = req[r].name
    /\ req[r].pc = "changing" => req[r].name \in Name /\ req[r].new \in Password

RowsOK == \A k \in Key : resets[k].state # "absent" => resets[k].user \in Name

\* The strengthening of TypeOK that is inductive
TypeInv == TypeOK /\ ReqOK /\ RowsOK

LEMMA InitTypeInv == Init => TypeInv
BY DEF Init, TypeInv, TypeOK, ReqOK, RowsOK, Idle, Label, RowState, Holding

LEMMA DoneTypeInv ==
  ASSUME TypeInv, NEW r \in Request, Done(r), UNCHANGED resets
  PROVE  /\ req' \in [Request -> [pc : Label, name : Name \cup {None},
                          token : Token \cup {None}, key : Key \cup {None},
                          old : Password \cup {None}, new : Password \cup {None}]]
         /\ ReqOK' /\ RowsOK'
BY DEF TypeInv, TypeOK, ReqOK, RowsOK, Done, Idle, Label, Holding

\* Retiring an account's tokens keeps what a row is.
LEMMA RetiredRows ==
  ASSUME TypeInv, NEW n \in Name
  PROVE  /\ Retired(n) \in [Key -> [state : RowState, user : Name \cup {None}]]
         /\ \A k \in Key : /\ Retired(n)[k].user = resets[k].user
                           /\ Retired(n)[k].state = "absent" <=> resets[k].state = "absent"
                           /\ Retired(n)[k].state = "live" <=>
                                resets[k].state = "live" /\ resets[k].user # n
                           /\ resets[k].state = "used" => Retired(n)[k].state = "used"
                           /\ resets[k].state = "live" /\ resets[k].user = n
                                => Retired(n)[k].state = "used"
BY DEF TypeInv, TypeOK, Retired, RowState

LEMMA NextTypeInv == TypeInv /\ [Next]_vars => TypeInv'
<1> SUFFICES ASSUME TypeInv, [Next]_vars PROVE TypeInv'
  OBVIOUS
<1> USE DEF TypeInv, history, tables
<1>1. ASSUME NEW t \in Token, CreateInvitation(t) PROVE TypeInv'
  BY <1>1 DEF CreateInvitation, TypeOK, ReqOK, RowsOK, RowState
<1>2. ASSUME NEW t \in Token, ExpireInvitation(t) PROVE TypeInv'
  BY <1>2 DEF ExpireInvitation, TypeOK, ReqOK, RowsOK, RowState
<1>3. ASSUME NEW n \in Name, NEW k \in Key, ForgotPassword(n, k) PROVE TypeInv'
  <2>1. resets' \in [Key -> [state : RowState, user : Name \cup {None}]]
    BY <1>3, RetiredRows DEF ForgotPassword, RowState
  <2>2. TypeOK'
    BY <1>3, <2>1 DEF ForgotPassword, TypeOK
  <2>3. \A q \in Key : /\ resets[q].state # "absent" => q # k
                       /\ q # k => /\ resets'[q].user = resets[q].user
                                   /\ resets'[q].state = "absent" <=> resets[q].state = "absent"
    BY <1>3, RetiredRows DEF ForgotPassword
  <2>4. resets'[k] = [state |-> "live", user |-> n]
    BY <1>3, RetiredRows DEF ForgotPassword
  <2>5. ReqOK' /\ RowsOK'
    BY <1>3, <2>3, <2>4 DEF ForgotPassword, ReqOK, RowsOK
  <2> QED BY <2>2, <2>5
<1>4. ASSUME NEW k \in Key, ExpireReset(k) PROVE TypeInv'
  BY <1>4 DEF ExpireReset, TypeOK, ReqOK, RowsOK, RowState
<1>5. ASSUME NEW r \in Request, NEW n \in Name, NEW t \in Token, NEW p \in Password,
             BeginRegister(r, n, t, p)
      PROVE TypeInv'
  <2>1. raced' \subseteq Token
    BY <1>5 DEF BeginRegister, TypeOK
  <2> QED BY <1>5, <2>1 DEF BeginRegister, TypeOK, ReqOK, RowsOK, Idle, Label, Holding
<1>6. ASSUME NEW r \in Request, InsertUser(r) PROVE TypeInv'
  <2>1. created' \in [Token -> Nat]
    BY <1>6 DEF InsertUser, TypeOK, ReqOK, Holding
  <2>2. users' \in [Name -> Password \cup {None}]
    BY <1>6 DEF InsertUser, TypeOK, ReqOK, Holding
  <2>3. ReqOK'
    BY <1>6 DEF InsertUser, TypeOK, ReqOK, Holding
  <2>4. req' \in [Request -> [pc : Label, name : Name \cup {None},
                          token : Token \cup {None}, key : Key \cup {None},
                          old : Password \cup {None}, new : Password \cup {None}]]
    BY <1>6 DEF InsertUser, TypeOK, Label
  <2> QED BY <1>6, <2>1, <2>2, <2>3, <2>4 DEF InsertUser, TypeOK, RowsOK
<1>7. ASSUME NEW r \in Request, NameTaken(r) PROVE TypeInv'
  BY <1>7, DoneTypeInv DEF NameTaken, TypeOK
<1>8. ASSUME NEW r \in Request, MarkUsed(r) PROVE TypeInv'
  <2>1. invitations' \in [Token -> RowState]
    BY <1>8 DEF MarkUsed, TypeOK, ReqOK, Holding, RowState
  <2> QED BY <1>8, <2>1, DoneTypeInv DEF MarkUsed, TypeOK
<1>9. ASSUME NEW r \in Request, NEW k \in Key, NEW p \in Password, BeginReset(r, k, p)
      PROVE TypeInv'
  <2>1. resets[k].user \in Name
    BY <1>9 DEF BeginReset, RowsOK
  <2> QED BY <1>9, <2>1 DEF BeginReset, TypeOK, ReqOK, RowsOK, Idle, Label, Holding
<1>10. ASSUME NEW r \in Request, CommitReset(r) PROVE TypeInv'
  <2>1. req[r].key \in Key /\ req[r].name \in Name /\ req[r].new \in Password
    BY <1>10 DEF CommitReset, ReqOK
  <2>2. /\ resets' \in [Key -> [state : RowState, user : Name \cup {None}]]
        /\ \A k \in Key : /\ resets'[k].user = resets[k].user
                          /\ resets'[k].state = "absent" <=> resets[k].state = "absent"
    BY <1>10, <2>1, RetiredRows DEF CommitReset
  <2>3. users' \in [Name -> Password \cup {None}] /\ applied' \in [Key -> Nat]
    BY <1>10, <2>1 DEF CommitReset, TypeOK
  <2>4. req' \in [Request -> [pc : Label, name : Name \cup {None},
                          token : Token \cup {None}, key : Key \cup {None},
                          old : Password \cup {None}, new : Password \cup {None}]]
    BY <1>10 DEF CommitReset, Done, Idle, Label, TypeOK
  <2>5. ReqOK' /\ RowsOK'
    BY <1>10, <2>2 DEF CommitReset, Done, Idle, ReqOK, RowsOK, Holding, TypeOK
  <2> QED BY <1>10, <2>2, <2>3, <2>4, <2>5 DEF CommitReset, TypeOK
<1>11. ASSUME NEW r \in Request, RejectReset(r) PROVE TypeInv'
  BY <1>11, DoneTypeInv DEF RejectReset, TypeOK
<1>12. ASSUME NEW r \in Request, NEW n \in Name, NEW p \in Password, BeginChange(r, n, p)
       PROVE TypeInv'
  BY <1>12 DEF BeginChange, TypeOK, ReqOK, RowsOK, Idle, Label, Holding
<1>13. ASSUME NEW r \in Request, CommitChange(r) PROVE TypeInv'
  <2>1. users' \in [Name -> Password \cup {None}]
    BY <1>13 DEF CommitChange, TypeOK, ReqOK
  <2> QED BY <1>13, <2>1, DoneTypeInv DEF CommitChange, TypeOK
<1>14. ASSUME NEW r \in Request, Fail(r) PROVE TypeInv'
  <2>1. raced' \subseteq Token
    BY <1>14 DEF Fail, TypeOK, ReqOK, Holding
  <2> QED BY <1>14, <2>1, DoneTypeInv DEF Fail, TypeOK
<1>15. CASE UNCHANGED vars
  BY <1>15 DEF vars, TypeOK, ReqOK, RowsOK
<1> QED
  BY <1>1, <1>2, <1>3, <1>4, <1>5, <1>6, <1>7, <1>8, <1>9, <1>10, <1>11, <1>12,
     <1>13, <1>14, <1>15 DEF Next

\* The tables hold what their columns allow, and a request in progress names
\* rows that exist.
THEOREM TypeCorrect == Spec => []TypeOK
<1>1. TypeInv => TypeOK
  BY DEF TypeInv
<1> QED BY InitTypeInv, NextTypeInv, <1>1, PTL DEF Spec
-----------------------------------------------------------------------------
(* Password resets *)

\* A live token is the newest of its account; one that was applied is spent;
\* so none is applied a second time.
ResetInv == TypeInv /\ OnlyNewestLive /\ AppliedIsUsed /\ ResetOnce

\* Retiring an account's tokens leaves the live ones of other accounts alone
\* and every spent one spent.
LEMMA ResetStep == ResetInv /\ [Next]_vars => ResetInv'
<1> SUFFICES ASSUME ResetInv, [Next]_vars PROVE ResetInv'
  OBVIOUS
<1>0. TypeInv /\ TypeInv'
  BY NextTypeInv DEF ResetInv
<1> USE DEF ResetInv, history, tables
<1>1. ASSUME UNCHANGED <<resets, applied, newest>> PROVE ResetInv'
  BY <1>0, <1>1 DEF OnlyNewestLive, AppliedIsUsed, ResetOnce
<1>2. ASSUME NEW n \in Name, NEW k \in Key, ForgotPassword(n, k) PROVE ResetInv'
  <2>1. /\ resets'[k] = [state |-> "live", user |-> n]
        /\ newest' = [newest EXCEPT ![n] = k] /\ applied' = applied
        /\ \A q \in Key \ {k} : resets'[q] = Retired(n)[q]
    BY <1>0, <1>2, RetiredRows DEF ForgotPassword
  <2>2. OnlyNewestLive'
    <3> SUFFICES ASSUME NEW q \in Key, resets'[q].state = "live"
                 PROVE  newest'[resets'[q].user] = q
      BY DEF OnlyNewestLive
    <3>1. CASE q = k
      BY <1>0, <2>1, <3>1 DEF TypeInv, TypeOK
    <3>2. CASE q # k
      <4>1. resets[q].state = "live" /\ resets[q].user # n /\ resets'[q].user = resets[q].user
        BY <1>0, <2>1, <3>2, RetiredRows
      <4>2. newest[resets[q].user] = q /\ resets[q].user \in Name
        BY <1>0, <4>1 DEF OnlyNewestLive, TypeInv, RowsOK
      <4> QED BY <1>0, <2>1, <4>1, <4>2 DEF TypeInv, TypeOK
    <3> QED BY <3>1, <3>2
  <2>3. AppliedIsUsed'
    <3> SUFFICES ASSUME NEW q \in Key, applied[q] > 0 PROVE resets'[q].state = "used"
      BY <2>1 DEF AppliedIsUsed
    <3>1. resets[q].state = "used" /\ resets[k].state = "absent"
      BY <1>2 DEF AppliedIsUsed, ForgotPassword
    <3>2. q # k
      BY <3>1
    <3> QED BY <1>0, <2>1, <3>1, <3>2, RetiredRows
  <2> QED BY <1>0, <2>1, <2>2, <2>3 DEF ResetOnce
<1>3. ASSUME NEW k \in Key, ExpireReset(k) PROVE ResetInv'
  <2>1. \A q \in Key : /\ resets'[q].user = resets[q].user
                       /\ resets'[q].state = "live" => resets[q].state = "live"
                       /\ resets[q].state = "used" => resets'[q].state = "used"
    BY <1>0, <1>3 DEF ExpireReset, TypeInv, TypeOK
  <2> QED
    BY <1>0, <1>3, <2>1 DEF ExpireReset, OnlyNewestLive, AppliedIsUsed, ResetOnce
<1>4. ASSUME NEW r \in Request, CommitReset(r) PROVE ResetInv'
  <2> DEFINE k == req[r].key
  <2>1. /\ k \in Key /\ req[r].name \in Name
        /\ resets[k].user = req[r].name /\ resets[k].state = "live"
        /\ resets' = Retired(req[r].name) /\ newest' = newest
        /\ applied' = [applied EXCEPT ![k] = @ + 1]
    BY <1>0, <1>4 DEF CommitReset, TypeInv, ReqOK
  <2>2. OnlyNewestLive'
    BY <1>0, <2>1, RetiredRows DEF OnlyNewestLive
  <2>3. resets'[k].state = "used" /\ \A q \in Key : resets[q].state = "used" => resets'[q].state = "used"
    BY <1>0, <2>1, RetiredRows
  <2>4. \A q \in Key : applied[q] \in Nat
    BY <1>0 DEF TypeInv, TypeOK
  <2>5. ~(applied[k] > 0)
    BY <2>1 DEF AppliedIsUsed
  <2>6. applied[k] = 0
    BY <2>1, <2>4, <2>5
  <2>7. applied'[k] = 1 /\ \A q \in Key \ {k} : applied'[q] = applied[q]
    BY <1>0, <2>1, <2>6 DEF TypeInv, TypeOK
  <2>8. AppliedIsUsed'
    BY <2>3, <2>7 DEF AppliedIsUsed
  <2>9. ResetOnce'
    <3> SUFFICES ASSUME NEW q \in Key PROVE applied'[q] <= 1
      BY DEF ResetOnce
    <3>1. CASE q = k BY <2>7, <3>1
    <3>2. CASE q # k BY <2>7, <3>2 DEF ResetOnce
    <3> QED BY <3>1, <3>2
  <2> QED BY <1>0, <2>2, <2>8, <2>9
<1>5. ASSUME NEW t \in Token, CreateInvitation(t) \/ ExpireInvitation(t) PROVE ResetInv'
  BY <1>1, <1>5 DEF CreateInvitation, ExpireInvitation
<1>6. ASSUME NEW r \in Request, NEW n \in Name, NEW t \in Token, NEW p \in Password,
             BeginRegister(r, n, t, p)
      PROVE ResetInv'
  BY <1>1, <1>6 DEF BeginRegister
<1>7. ASSUME NEW r \in Request, InsertUser(r) \/ NameTaken(r) \/ MarkUsed(r)
      PROVE ResetInv'
  BY <1>1, <1>7 DEF InsertUser, NameTaken, MarkUsed
<1>8. ASSUME NEW r \in Request, NEW k \in Key, NEW p \in Password, BeginReset(r, k, p)
      PROVE ResetInv'
  BY <1>1, <1>8 DEF BeginReset
<1>9. ASSUME NEW r \in Request, NEW n \in Name, NEW p \in Password, BeginChange(r, n, p)
      PROVE ResetInv'
  BY <1>1, <1>9 DEF BeginChange
<1>10. ASSUME NEW r \in Request, RejectReset(r) \/ CommitChange(r) \/ Fail(r)
       PROVE ResetInv'
  BY <1>1, <1>10 DEF RejectReset, CommitChange, Fail
<1>11. CASE UNCHANGED vars
  BY <1>1, <1>11 DEF vars
<1> QED
  BY <1>2, <1>3, <1>4, <1>5, <1>6, <1>7, <1>8, <1>9, <1>10, <1>11 DEF Next

LEMMA InitResetInv == Init => ResetInv
BY InitTypeInv DEF Init, ResetInv, OnlyNewestLive, AppliedIsUsed, ResetOnce

\* A mailed token changes a password at most once, although the request that
\* carries it looks it up before the transaction that spends it.
THEOREM ResetsAreSingleUse == Spec => [](ResetOnce /\ AppliedIsUsed)
<1>1. ResetInv => ResetOnce /\ AppliedIsUsed
  BY DEF ResetInv
<1> QED BY InitResetInv, ResetStep, <1>1, PTL DEF Spec

\* A token is worth nothing once a newer one was mailed.
THEOREM NewestOnly == Spec => []OnlyNewestLive
<1>1. ResetInv => OnlyNewestLive
  BY DEF ResetInv
<1> QED BY InitResetInv, ResetStep, <1>1, PTL DEF Spec

\* The password that a reset sets comes from the token mailed last.
THEOREM ResetsByNewest == Spec => ResetByNewest
<1>1. ResetInv /\ [Next]_vars =>
        [\A r \in Request : CommitReset(r) => newest[req[r].name] = req[r].key]_vars
  BY DEF ResetInv, OnlyNewestLive, TypeInv, ReqOK, CommitReset
<1> QED BY InitResetInv, ResetStep, <1>1, PTL DEF Spec, ResetByNewest

-----------------------------------------------------------------------------
(* Invitations *)

Holds(r, t) == req[r].pc \in Holding /\ req[r].token = t

\* Of an invitation that no two requests have held at once, and with which no
\* request failed half-way: one request at most holds it; the account it made
\* was made by that request or its row is marked; until then none was made.
InvitationInv(t) ==
  t \notin raced =>
    /\ \A r, q \in Request : Holds(r, t) /\ Holds(q, t) => r = q
    /\ created[t] = 0 \/ created[t] = 1
    /\ created[t] = 1 => \/ invitations[t] = "used"
                         \/ \E r \in Request : Holds(r, t) /\ req[r].pc = "inserted"
    /\ \A r \in Request : Holds(r, t) /\ req[r].pc = "validated" => created[t] = 0

LEMMA InvitationStep ==
  ASSUME TypeInv, TypeInv', NEW t \in Token, InvitationInv(t), [Next]_vars
  PROVE  InvitationInv(t)'
<1> USE DEF history, tables
<1>1. ASSUME UNCHANGED <<raced, created>>,
             invitations[t] = "used" => invitations'[t] = "used",
             \A r \in Request : /\ Holds(r, t)' <=> Holds(r, t)
                                /\ Holds(r, t) => req'[r].pc = req[r].pc
      PROVE InvitationInv(t)'
  BY <1>1 DEF InvitationInv
<1>2. ASSUME NEW r \in Request, NEW n \in Name, NEW u \in Token, NEW p \in Password,
             BeginRegister(r, n, u, p)
      PROVE InvitationInv(t)'
  <2>1. /\ req[r].pc = "idle" /\ req'[r].pc = "validated" /\ req'[r].token = u
        /\ \A q \in Request \ {r} : req'[q] = req[q]
        /\ ~Holds(r, t)
    BY <1>2 DEF BeginRegister, TypeInv, TypeOK, Idle, Holds, Holding
  <2>2. \A q \in Request \ {r} : Holds(q, t)' <=> Holds(q, t)
    BY <2>1 DEF Holds
  <2>3. CASE u # t
    <3>1. ~Holds(r, t)'
      BY <2>1, <2>3 DEF Holds
    <3>2. t \in raced' <=> t \in raced
      BY <1>2, <2>3 DEF BeginRegister
    <3>3. created' = created /\ invitations' = invitations
      BY <1>2 DEF BeginRegister
    <3> QED BY <2>1, <2>2, <3>1, <3>2, <3>3 DEF InvitationInv
  <2>4. CASE u = t
    <3> SUFFICES ASSUME t \notin raced' PROVE InvitationInv(t)'
      BY DEF InvitationInv
    <3>1. t \notin raced /\ \A q \in Request \ {r} : req[q].token # t
      BY <1>2, <2>4 DEF BeginRegister
    <3>2. \A q \in Request : ~Holds(q, t)
      BY <2>1, <3>1 DEF Holds
    <3>3. invitations[t] = "live" /\ created' = created /\ invitations' = invitations
      BY <1>2, <2>4 DEF BeginRegister
    <3>4. created[t] = 0
      BY <3>1, <3>2, <3>3 DEF InvitationInv
    <3>5. \A q \in Request : Holds(q, t)' => q = r
      BY <2>2, <3>2
    <3> QED BY <3>3, <3>4, <3>5 DEF InvitationInv
  <2> QED BY <2>3, <2>4
<1>3. ASSUME NEW r \in Request, InsertUser(r) PROVE InvitationInv(t)'
  <2>1. /\ req[r].pc = "validated" /\ req[r].token \in Token
        /\ req'[r].pc = "inserted" /\ req'[r].token = req[r].token
        /\ \A q \in Request \ {r} : req'[q] = req[q]
        /\ raced' = raced /\ invitations' = invitations
        /\ created' = [created EXCEPT ![req[r].token] = @ + 1]
    BY <1>3 DEF InsertUser, TypeInv, TypeOK, ReqOK, Holding
  <2>2. \A q \in Request : Holds(q, t)' <=> Holds(q, t)
    BY <2>1 DEF Holds, Holding
  <2>3. CASE req[r].token # t
    <3>1. created'[t] = created[t] /\ ~Holds(r, t)
      BY <2>1, <2>3 DEF TypeInv, TypeOK, Holds
    <3> QED BY <2>1, <2>2, <3>1 DEF InvitationInv
  <2>4. CASE req[r].token = t
    <3> SUFFICES ASSUME t \notin raced PROVE InvitationInv(t)'
      BY <2>1 DEF InvitationInv
    <3>1. Holds(r, t) /\ Holds(r, t)'
      BY <2>1, <2>2, <2>4 DEF Holds, Holding
    <3>2. created[t] = 0
      BY <2>1, <3>1 DEF InvitationInv
    <3>3. created'[t] = 1
      BY <2>1, <2>4, <3>2 DEF TypeInv, TypeOK
    <3>4. \A q \in Request : Holds(q, t)' => q = r
      BY <2>2, <3>1 DEF InvitationInv
    <3> QED BY <2>1, <2>2, <3>1, <3>3, <3>4 DEF InvitationInv
  <2> QED BY <2>3, <2>4
<1>4. ASSUME NEW r \in Request, MarkUsed(r) PROVE InvitationInv(t)'
  <2>1. /\ req[r].pc = "inserted" /\ req[r].token \in Token
        /\ ~Holds(r, t)' /\ \A q \in Request \ {r} : req'[q] = req[q]
        /\ raced' = raced /\ created' = created
        /\ invitations' = [invitations EXCEPT ![req[r].token] = "used"]
    BY <1>4 DEF MarkUsed, Done, Idle, Holds, TypeInv, TypeOK, ReqOK, Holding
  <2>2. \A q \in Request \ {r} : Holds(q, t)' <=> Holds(q, t)
    BY <2>1 DEF Holds
  <2>3. invitations[t] = "used" => invitations'[t] = "used"
    BY <2>1 DEF TypeInv, TypeOK
  <2>4. Holds(r, t) => invitations'[t] = "used"
    BY <2>1 DEF TypeInv, TypeOK, Holds
  <2> QED BY <2>1, <2>2, <2>3, <2>4 DEF InvitationInv
<1>5. ASSUME NEW r \in Request, NameTaken(r) PROVE InvitationInv(t)'
  <2>1. /\ req[r].pc = "validated"
        /\ ~Holds(r, t)' /\ \A q \in Request \ {r} : req'[q] = req[q]
        /\ raced' = raced /\ created' = created /\ invitations' = invitations
    BY <1>5 DEF NameTaken, Done, Idle, Holds, TypeInv, TypeOK, Holding
  <2>2. \A q \in Request \ {r} : Holds(q, t)' <=> Holds(q, t)
    BY <2>1 DEF Holds
  <2> QED BY <2>1, <2>2 DEF InvitationInv
<1>6. ASSUME NEW r \in Request, Fail(r) PROVE InvitationInv(t)'
  <2> SUFFICES ASSUME t \notin raced' PROVE InvitationInv(t)'
    BY DEF InvitationInv
  <2>1. /\ t \notin raced /\ ~(Holds(r, t) /\ req[r].pc = "inserted")
        /\ ~Holds(r, t)' /\ \A q \in Request \ {r} : req'[q] = req[q]
        /\ created' = created /\ invitations' = invitations
    BY <1>6 DEF Fail, Done, Idle, Holds, TypeInv, TypeOK, Holding
  <2>2. \A q \in Request \ {r} : Holds(q, t)' <=> Holds(q, t)
    BY <2>1 DEF Holds
  <2> QED BY <2>1, <2>2 DEF InvitationInv
<1>7. ASSUME NEW u \in Token, CreateInvitation(u) \/ ExpireInvitation(u)
      PROVE InvitationInv(t)'
  <2>1. invitations[t] = "used" => invitations'[t] = "used"
    BY <1>7 DEF CreateInvitation, ExpireInvitation, TypeInv, TypeOK
  <2> QED BY <1>1, <1>7, <2>1 DEF CreateInvitation, ExpireInvitation, Holds
<1>8. ASSUME NEW r \in Request, req[r].pc \notin Holding, req'[r].pc \notin Holding,
             \A q \in Request \ {r} : req'[q] = req[q],
             UNCHANGED <<raced, created, invitations>>
      PROVE InvitationInv(t)'
  BY <1>1, <1>8 DEF Holds
<1>9. ASSUME NEW r \in Request, CommitReset(r) \/ RejectReset(r) \/ CommitChange(r)
      PROVE InvitationInv(t)'
  <2>1. /\ req[r].pc \in {"resetting", "changing"} /\ Done(r)
        /\ UNCHANGED <<raced, created, invitations>>
    BY <1>9 DEF CommitReset, RejectReset, CommitChange
  <2> QED BY <1>8, <2>1 DEF Done, Idle, Holding, TypeInv, TypeOK
<1>10. ASSUME NEW r \in Request, NEW k \in Key, NEW p \in Password, BeginReset(r, k, p)
       PROVE InvitationInv(t)'
  BY <1>8, <1>10 DEF BeginReset, Idle, Holding, TypeInv, TypeOK
<1>11. ASSUME NEW r \in Request, NEW n \in Name, NEW p \in Password, BeginChange(r, n, p)
       PROVE InvitationInv(t)'
  BY <1>8, <1>11 DEF BeginChange, Idle, Holding, TypeInv, TypeOK
<1>12. ASSUME NEW n \in Name, NEW k \in Key, ForgotPassword(n, k)
       PROVE InvitationInv(t)'
  BY <1>1, <1>12 DEF ForgotPassword, Holds
<1>13. ASSUME NEW k \in Key, ExpireReset(k) PROVE InvitationInv(t)'
  BY <1>1, <1>13 DEF ExpireReset, Holds
<1>14. CASE UNCHANGED vars
  BY <1>1, <1>14 DEF vars, Holds
<1> QED
  BY <1>2, <1>3, <1>4, <1>5, <1>6, <1>7, <1>9, <1>10, <1>11, <1>12, <1>13, <1>14
     DEF Next

\* Used by one request after another, none failing between creating its
\* account and marking it, an invitation makes one account at most.
THEOREM InvitationsAreSingleUse == Spec => []InvitationOnceUnlessRaced
<1> DEFINE Inv == TypeInv /\ \A t \in Token : InvitationInv(t)
<1>1. Init => Inv
  BY InitTypeInv DEF Init, InvitationInv, Holds, Idle, Holding
<1>2. Inv /\ [Next]_vars => Inv'
  <2> SUFFICES ASSUME Inv, [Next]_vars PROVE Inv'
    OBVIOUS
  <2>1. TypeInv'
    BY NextTypeInv
  <2>2. ASSUME NEW t \in Token PROVE InvitationInv(t)'
    BY <2>1, InvitationStep
  <2> QED BY <2>1, <2>2
<1>3. Inv => InvitationOnceUnlessRaced
  BY DEF InvitationInv, InvitationOnceUnlessRaced
<1> QED BY <1>1, <1>2, <1>3, PTL DEF Spec

-----------------------------------------------------------------------------
(* Profile pictures *)

USE PictureAssumption

\* A new file has been nobody's picture yet: no other request knows its name. One
\* that is being removed is not the picture any more, and no name comes back.
NewApart(e) ==
  /\ edits[e].new \in Picture \ {avatar}
  /\ files[edits[e].new] = (IF edits[e].pc = "copying" THEN "part" ELSE "whole")
  /\ \A d \in Editor : /\ edits[d].old # edits[e].new
                       /\ Unnamed(d) /\ d # e => edits[d].new # edits[e].new

OldApart(e) ==
  /\ edits[e].old \in Picture => files[edits[e].old] # "unused"
  /\ edits[e].pc \in {"found", "replaced"} => edits[e].old \in Picture
  /\ edits[e].pc = "replaced" => edits[e].old # avatar

NamesApart == \A e \in Editor : (Unnamed(e) => NewApart(e)) /\ OldApart(e)

AvatarInv == AvatarTypeOK /\ NamesApart /\ AvatarsAgree

LEMMA InitAvatarInv == AvatarInit => AvatarInv
<1> SUFFICES ASSUME AvatarInit PROVE AvatarInv
  OBVIOUS
<1>1. AvatarTypeOK
  BY DEF AvatarInit, AvatarTypeOK, NoEdit, Edit
<1>2. \A e \in Editor : ~Unnamed(e) /\ edits[e].old = NoPicture /\ edits[e].pc = "none"
  BY DEF AvatarInit, Unnamed, NoEdit
<1>3. NamesApart
  BY <1>2 DEF NamesApart, NewApart, OldApart
<1>4. AvatarsAgree
  BY DEF AvatarInit, AvatarsAgree, NamedIsWhole, NothingLeftBehind
<1> QED BY <1>1, <1>3, <1>4 DEF AvatarInv

\* A request ends that has removed its file, or has tried to.
LEMMA Removing ==
  ASSUME AvatarInv, NEW e \in Editor, NEW p \in Picture \ {avatar},
         Delete(p), EditEnds(e),
         UNCHANGED avatar,
         Unnamed(e) => p = edits[e].new,
         edits[e].pc = "replaced" => p = edits[e].old,
         edits[e].pc \in {"copying", "copied", "naming", "replaced"},
         \A d \in Editor : Unnamed(d) /\ d # e => edits[d].new # p
  PROVE  AvatarInv'
<1> USE DEF AvatarInv
<1>1. edits' = [edits EXCEPT ![e] = NoEdit] /\ edits'[e] = NoEdit
      /\ \A d \in Editor \ {e} : edits'[d] = edits[d]
  BY DEF EditEnds, AvatarTypeOK
<1>2. /\ files' = [files EXCEPT ![p] = "gone"] \/ (files' = files /\ untidy' = TRUE)
      /\ \A q \in Picture \ {p} : files'[q] = files[q]
      /\ files'[p] # "unused"
  <2>1. files[p] # "unused"
    BY DEF NamesApart, NewApart, OldApart, Unnamed
  <2> QED BY <2>1 DEF Delete, AvatarTypeOK
<1>3. AvatarTypeOK'
  BY <1>1 DEF AvatarTypeOK, Delete, NoEdit, Edit
<1>4. \A d \in Editor : Unnamed(d)' => d # e /\ Unnamed(d) /\ edits'[d] = edits[d]
  BY <1>1 DEF Unnamed, NoEdit
<1>5. NamesApart'
  <2>1. ASSUME NEW d \in Editor, Unnamed(d)'
        PROVE  NewApart(d)'
    <3>1. d # e /\ Unnamed(d) /\ edits'[d] = edits[d]
      BY <1>4, <2>1
    <3>2. edits[d].new \in Picture \ {avatar, p}
      BY <3>1 DEF NamesApart, NewApart, OldApart
    <3>3. \A c \in Editor : edits'[c].old \in {edits[c].old, NoPicture}
      BY <1>1 DEF NoEdit
    <3> QED BY <1>2, <1>4, <3>1, <3>2, <3>3 DEF NamesApart, NewApart, OldApart
  <2>2. ASSUME NEW d \in Editor
        PROVE  OldApart(d)'
    <3>1. CASE d = e
      BY <1>1, <3>1 DEF NoEdit, OldApart
    <3>2. CASE d # e
      BY <1>1, <1>2, <3>2 DEF NamesApart, NewApart, OldApart
    <3> QED BY <3>1, <3>2
  <2> QED BY <2>1, <2>2 DEF NamesApart, NewApart, OldApart
<1>6. NamedIsWhole'
  BY <1>2 DEF AvatarsAgree, NamedIsWhole, AvatarTypeOK
<1>7. untidy' \/ NothingLeftBehind'
  <2> SUFFICES ASSUME ~untidy', NEW q \in Picture, files'[q] \in {"part", "whole"}
               PROVE  \/ q = avatar
                      \/ \E d \in Editor :
                           \/ Unnamed(d)' /\ q = edits'[d].new
                           \/ edits'[d].pc = "replaced" /\ q = edits'[d].old
    BY DEF NothingLeftBehind
  <2>1. ~untidy /\ q # p
    BY <1>2 DEF Delete, AvatarTypeOK
  <2>2. \/ q = avatar
        \/ \E d \in Editor : \/ Unnamed(d) /\ q = edits[d].new
                             \/ edits[d].pc = "replaced" /\ q = edits[d].old
    BY <1>2, <2>1 DEF AvatarsAgree, NothingLeftBehind
  <2>3. \A d \in Editor : \/ Unnamed(d) /\ q = edits[d].new
                          \/ edits[d].pc = "replaced" /\ q = edits[d].old => d # e
    BY <2>1
  <2> QED BY <1>1, <2>1, <2>2 DEF Unnamed
<1> QED BY <1>3, <1>5, <1>6, <1>7 DEF AvatarsAgree

\* The column is overwritten, with a new file's name or with none.
LEMMA Overwriting ==
  ASSUME AvatarInv, NEW e \in Editor, NEW p \in Picture \cup {NoPicture}, Overwrite(e, p),
         \/ edits[e].pc = "naming" /\ p = edits[e].new
         \/ edits[e].pc = "found" /\ p = NoPicture
  PROVE  AvatarInv'
<1> USE DEF AvatarInv
<1>1. avatar' = p /\ files' = files
      /\ untidy' = (untidy \/ avatar \notin {edits[e].old, NoPicture})
  BY DEF Overwrite
<1>2. /\ \A d \in Editor \ {e} : edits'[d] = edits[d]
      /\ \/ edits[e].old = NoPicture /\ edits'[e] = NoEdit
         \/ /\ edits[e].old # NoPicture
            /\ edits'[e] = [edits[e] EXCEPT !.pc = "replaced"]
  BY DEF Overwrite, EditEnds, AvatarTypeOK
<1>3. AvatarTypeOK'
  BY <1>1 DEF AvatarTypeOK, Overwrite, EditEnds, NoEdit, Edit
<1>4. /\ edits'[e].pc \in {"none", "replaced"}
      /\ edits'[e].old = edits[e].old
      /\ edits'[e].pc = "replaced" => edits[e].old \in Picture
  BY <1>2 DEF AvatarTypeOK, NoEdit
<1>5. \A d \in Editor : Unnamed(d)' => d # e /\ Unnamed(d) /\ edits'[d] = edits[d]
  BY <1>2, <1>4 DEF Unnamed
<1>6. p \in Picture => Unnamed(e) /\ p = edits[e].new /\ files[p] = "whole"
  <2>1. p \in Picture => edits[e].pc = "naming" /\ Unnamed(e) /\ p = edits[e].new
    BY DEF Unnamed
  <2> QED BY <2>1 DEF NamesApart, NewApart
<1>7. NamesApart'
  <2>1. ASSUME NEW d \in Editor, Unnamed(d)'
        PROVE  NewApart(d)'
    <3>1. d # e /\ Unnamed(d) /\ edits'[d] = edits[d]
      BY <1>5, <2>1
    <3>2. edits[d].new # p /\ edits[d].new \in Picture
      BY <1>6, <3>1 DEF NamesApart, NewApart, OldApart
    <3>3. \A c \in Editor : edits'[c].old = edits[c].old
      BY <1>2, <1>4
    <3> QED BY <1>1, <1>5, <3>1, <3>2, <3>3 DEF NamesApart, NewApart, OldApart
  <2>2. ASSUME NEW d \in Editor
        PROVE  OldApart(d)'
    <3>1. edits[d].old # p \/ p = NoPicture
      BY <1>6 DEF NamesApart, NewApart, OldApart
    <3>2. CASE d = e
      BY <1>1, <1>4, <3>1, <3>2 DEF NamesApart, NewApart, OldApart
    <3>3. CASE d # e
      BY <1>1, <1>2, <3>1, <3>3 DEF NamesApart, NewApart, OldApart
    <3> QED BY <3>2, <3>3
  <2> QED BY <2>1, <2>2 DEF NamesApart, NewApart, OldApart
<1>8. NamedIsWhole'
  BY <1>1, <1>6 DEF NamedIsWhole
<1>9. untidy' \/ NothingLeftBehind'
  <2> SUFFICES ASSUME ~untidy', NEW q \in Picture, files'[q] \in {"part", "whole"}
               PROVE  \/ q = p
                      \/ \E d \in Editor :
                           \/ Unnamed(d)' /\ q = edits'[d].new
                           \/ edits'[d].pc = "replaced" /\ q = edits'[d].old
    BY <1>1 DEF NothingLeftBehind
  <2>1. ~untidy /\ avatar \in {edits[e].old, NoPicture}
    BY <1>1
  <2>2. CASE q = avatar
    <3>1. edits'[e].pc = "replaced" /\ q = edits'[e].old
      BY <1>2, <1>4, <2>1, <2>2 DEF AvatarTypeOK
    <3> QED BY <3>1
  <2>3. ASSUME NEW d \in Editor, Unnamed(d), q = edits[d].new
        PROVE  q = p \/ (Unnamed(d)' /\ q = edits'[d].new)
    <3>1. d = e => q = p
      BY <2>3 DEF Unnamed
    <3> QED BY <1>2, <2>3, <3>1 DEF Unnamed
  <2>4. ASSUME NEW d \in Editor, edits[d].pc = "replaced", q = edits[d].old
        PROVE  edits'[d].pc = "replaced" /\ q = edits'[d].old
    BY <1>2, <2>4
  <2> QED BY <1>1, <2>1, <2>2, <2>3, <2>4 DEF AvatarsAgree, NothingLeftBehind
<1> QED BY <1>3, <1>7, <1>8, <1>9 DEF AvatarsAgree

\* A request that keeps its file, or has none, goes over to d; only p may be made
\* or filled by it.
LEMMA NextAvatarInv == AvatarInv /\ [AvatarNext]_avatarVars => AvatarInv'
<1> SUFFICES ASSUME AvatarInv, [AvatarNext]_avatarVars PROVE AvatarInv'
  OBVIOUS
<1>0. AvatarTypeOK /\ NamesApart /\ AvatarsAgree
  BY DEF AvatarInv
<1> USE DEF Unnamed
<1>1. ASSUME NEW e \in Editor, NEW p \in Picture, CreatePicture(e, p) PROVE AvatarInv'
  <2>1. /\ edits'[e] = [NoEdit EXCEPT !.pc = "copying", !.new = p]
        /\ \A d \in Editor \ {e} : edits'[d] = edits[d]
        /\ edits[e].pc = "none" /\ files[p] = "unused"
        /\ UNCHANGED <<avatar, untidy>>
        /\ files'[p] = "part" /\ \A q \in Picture \ {p} : files'[q] = files[q]
    BY <1>0, <1>1 DEF CreatePicture, AvatarTypeOK
  <2>2. AvatarTypeOK'
    BY <1>0, <1>1 DEF CreatePicture, AvatarTypeOK, NoEdit, Edit
  <2>3. p # avatar
    BY <1>0, <2>1 DEF AvatarsAgree, NamedIsWhole
  <2>4. \A d \in Editor \ {e} : Unnamed(d)' <=> Unnamed(d)
    BY <2>1 DEF Unnamed
  <2>5. \A d \in Editor : /\ edits[d].old # p
                          /\ Unnamed(d) => edits[d].new # p
    BY <1>0, <2>1 DEF NamesApart, NewApart, OldApart
  <2>6. edits'[e].pc = "copying" /\ edits'[e].new = p /\ edits'[e].old = NoPicture
    BY <2>1 DEF NoEdit
  <2>7. NamesApart'
    <3>1. ASSUME NEW d \in Editor, Unnamed(d)' PROVE NewApart(d)'
      <4>1. CASE d = e
        <5>1. ASSUME NEW c \in Editor
              PROVE  edits'[c].old # p /\ (Unnamed(c)' /\ c # e => edits'[c].new # p)
          <6>1. CASE c = e BY <2>6, <6>1
          <6>2. CASE c # e BY <2>1, <2>5, <6>2
          <6> QED BY <6>1, <6>2
        <5> QED BY <2>1, <2>3, <2>6, <4>1, <5>1 DEF NewApart
      <4>2. CASE d # e
        <5>1. NewApart(d) /\ edits'[d] = edits[d]
          BY <1>0, <2>1, <2>4, <3>1, <4>2 DEF NamesApart
        <5>2. edits[d].new # p /\ edits[d].new # NoPicture
          BY <2>4, <2>5, <3>1, <4>2, <5>1 DEF NewApart
        <5>3. ASSUME NEW c \in Editor
              PROVE  /\ edits'[c].old # edits[d].new
                     /\ Unnamed(c)' /\ c # d => edits'[c].new # edits[d].new
          <6>1. CASE c = e BY <2>6, <5>2, <6>1
          <6>2. CASE c # e BY <2>1, <5>1, <6>2 DEF NewApart
          <6> QED BY <6>1, <6>2
        <5>4. /\ edits[d].new \in Picture \ {avatar}
              /\ files'[edits[d].new] = (IF edits[d].pc = "copying"
                                          THEN "part" ELSE "whole")
          BY <2>1, <5>1, <5>2 DEF NewApart
        <5> QED BY <2>1, <5>1, <5>3, <5>4 DEF NewApart
      <4> QED BY <4>1, <4>2
    <3>2. ASSUME NEW d \in Editor PROVE OldApart(d)'
      <4>1. CASE d = e BY <2>6, <4>1 DEF OldApart
      <4>2. CASE d # e BY <1>0, <2>1, <4>2 DEF NamesApart, OldApart
      <4> QED BY <4>1, <4>2
    <3> QED BY <3>1, <3>2 DEF NamesApart
  <2>8. NamedIsWhole'
    BY <1>0, <2>1, <2>3 DEF AvatarsAgree, NamedIsWhole, AvatarTypeOK
  <2>9. untidy' \/ NothingLeftBehind'
    <3>1. Unnamed(e)'
      BY <2>6 DEF Unnamed
    <3>2. ~Unnamed(e)
      BY <2>1 DEF Unnamed
    <3> SUFFICES ASSUME ~untidy', NEW q \in Picture, files'[q] \in {"part", "whole"}
                 PROVE  \/ q = avatar
                        \/ \E d \in Editor :
                             \/ Unnamed(d)' /\ q = edits'[d].new
                             \/ edits'[d].pc = "replaced" /\ q = edits'[d].old
      BY <2>1 DEF NothingLeftBehind
    <3>3. CASE q = p BY <2>6, <3>1, <3>3
    <3>4. CASE q # p
      <4>1. \/ q = avatar
            \/ \E d \in Editor : \/ Unnamed(d) /\ q = edits[d].new
                                 \/ edits[d].pc = "replaced" /\ q = edits[d].old
        BY <1>0, <2>1, <3>4 DEF AvatarsAgree, NothingLeftBehind
      <4> QED BY <2>1, <2>4, <3>2, <4>1
    <3> QED BY <3>3, <3>4
  <2> QED BY <2>2, <2>7, <2>8, <2>9 DEF AvatarInv, AvatarsAgree
<1>2. ASSUME NEW e \in Editor, CopyPicture(e) PROVE AvatarInv'
  <2> DEFINE p == edits[e].new
  <2>1. Unnamed(e) /\ p \in Picture /\ files[p] = "part" /\ edits[e].pc = "copying"
    BY <1>0, <1>2 DEF CopyPicture, Unnamed, NamesApart, NewApart, OldApart
  <2>2. /\ edits'[e] = [edits[e] EXCEPT !.pc = "copied"]
        /\ \A d \in Editor \ {e} : edits'[d] = edits[d]
        /\ UNCHANGED <<avatar, untidy>>
        /\ files'[p] = "whole" /\ \A q \in Picture \ {p} : files'[q] = files[q]
    BY <1>0, <1>2, <2>1 DEF CopyPicture, AvatarTypeOK
  <2>3. AvatarTypeOK'
    BY <1>0, <1>2 DEF CopyPicture, AvatarTypeOK, Edit
  <2>4. /\ edits'[e].pc = "copied" /\ edits'[e].new = p /\ edits'[e].old = edits[e].old
        /\ \A d \in Editor : /\ Unnamed(d)' <=> Unnamed(d)
                             /\ edits'[d].new = edits[d].new
                             /\ edits'[d].old = edits[d].old
    BY <1>0, <2>1, <2>2 DEF Unnamed, AvatarTypeOK
  <2>5. NamesApart'
    <3>1. ASSUME NEW d \in Editor, Unnamed(d)' PROVE NewApart(d)'
      <4>1. NewApart(d) /\ NewApart(e)
        BY <1>0, <2>1, <2>4, <3>1 DEF NamesApart
      <4>2. d # e => edits'[d] = edits[d] /\ edits[d].new # p
        BY <2>1, <2>2, <2>4, <3>1, <4>1 DEF NewApart
      <4>3. /\ edits'[d].new = edits[d].new
            /\ files'[edits[d].new] = (IF edits'[d].pc = "copying"
                                        THEN "part" ELSE "whole")
        <5>1. CASE d = e BY <2>2, <2>4, <5>1
        <5>2. CASE d # e BY <2>2, <4>1, <4>2, <5>2 DEF NewApart
        <5> QED BY <5>1, <5>2
      <4>4. \A c \in Editor : /\ edits'[c].old # edits[d].new
                              /\ Unnamed(c)' /\ c # d => edits'[c].new # edits[d].new
        BY <2>4, <4>1 DEF NewApart
      <4>5. edits[d].new \in Picture \ {avatar} /\ avatar' = avatar
        BY <2>2, <4>1 DEF NewApart
      <4> QED BY <4>3, <4>4, <4>5 DEF NewApart
    <3>2. ASSUME NEW d \in Editor PROVE OldApart(d)'
      <4>1. OldApart(d) /\ edits[d].old # p
        BY <1>0, <2>1 DEF NamesApart, NewApart
      <4>2. d = e \/ edits'[d] = edits[d]
        BY <2>2
      <4>3. /\ edits'[d].old = edits[d].old
            /\ edits[d].old \in Picture => files'[edits[d].old] = files[edits[d].old]
        BY <2>2, <2>4, <4>1
      <4>4. d = e => edits'[d].pc = "copied"
        BY <2>4
      <4> QED BY <2>2, <4>1, <4>2, <4>3, <4>4 DEF OldApart
    <3> QED BY <3>1, <3>2 DEF NamesApart
  <2>6. NamedIsWhole'
    BY <1>0, <2>1, <2>2 DEF AvatarsAgree, NamedIsWhole, AvatarTypeOK
  <2>7. untidy' \/ NothingLeftBehind'
    BY <1>0, <2>1, <2>2, <2>4 DEF AvatarsAgree, NothingLeftBehind
  <2> QED BY <2>3, <2>5, <2>6, <2>7 DEF AvatarInv, AvatarsAgree
<1>3. ASSUME NEW e \in Editor, SaveFails(e) PROVE AvatarInv'
  <2>1. Unnamed(e) /\ edits[e].new \in Picture \ {avatar}
    BY <1>0, <1>3 DEF SaveFails, NamesApart, NewApart
  <2>2. \A d \in Editor : Unnamed(d) /\ d # e => edits[d].new # edits[e].new
    BY <1>0, <2>1 DEF NamesApart, NewApart, OldApart
  <2>3. edits[e].pc # "replaced" /\ edits[e].pc \in {"copying", "copied", "naming"}
    BY <2>1 DEF Unnamed
  <2> QED BY <1>3, <2>1, <2>2, <2>3, Removing DEF SaveFails
<1>4. ASSUME NEW e \in Editor, LookUpOld(e) PROVE AvatarInv'
  <2>1. /\ edits'[e] = [edits[e] EXCEPT !.pc = "naming", !.old = avatar]
        /\ edits[e].pc = "copied"
        /\ \A d \in Editor \ {e} : edits'[d] = edits[d]
        /\ UNCHANGED <<avatar, files, untidy>>
    BY <1>0, <1>4 DEF LookUpOld, AvatarTypeOK
  <2>2. AvatarTypeOK'
    BY <1>0, <1>4, ZenonT(30) DEF LookUpOld, AvatarTypeOK, Edit
  <2>3. /\ edits'[e].pc = "naming" /\ edits'[e].old = avatar
        /\ edits'[e].new = edits[e].new
    BY <1>0, <2>1 DEF AvatarTypeOK
  <2>7. \A d \in Editor : /\ Unnamed(d)' <=> Unnamed(d)
                          /\ edits'[d].new = edits[d].new
                          /\ edits'[d].old \in {edits[d].old, avatar}
                          /\ d # e => edits'[d] = edits[d]
    BY <2>1, <2>3
  <2>4. avatar \in Picture => files[avatar] # "unused"
    BY <1>0 DEF AvatarsAgree, NamedIsWhole
  <2>5. NamesApart'
    <3>1. ASSUME NEW d \in Editor, Unnamed(d)' PROVE NewApart(d)'
      <4>1. NewApart(d) /\ (edits'[d].pc = "copying" <=> edits[d].pc = "copying")
        BY <1>0, <2>1, <2>3, <2>7, <3>1 DEF NamesApart
      <4>2. \A c \in Editor : /\ edits'[c].old # edits[d].new
                              /\ Unnamed(c)' /\ c # d => edits'[c].new # edits[d].new
        BY <2>7, <4>1 DEF NewApart
      <4> QED BY <2>1, <2>7, <4>1, <4>2 DEF NewApart
    <3>2. ASSUME NEW d \in Editor PROVE OldApart(d)'
      <4>1. CASE d = e BY <2>1, <2>3, <2>4, <4>1 DEF OldApart
      <4>2. CASE d # e BY <1>0, <2>1, <2>3, <4>2 DEF NamesApart, OldApart
      <4> QED BY <4>1, <4>2
    <3> QED BY <3>1, <3>2 DEF NamesApart
  <2>6. AvatarsAgree'
    <3>1. \A d \in Editor : edits[d].pc = "replaced" => edits'[d] = edits[d]
      BY <2>1
    <3> QED BY <1>0, <2>1, <2>7, <3>1 DEF AvatarsAgree, NamedIsWhole, NothingLeftBehind
  <2> QED BY <2>2, <2>5, <2>6 DEF AvatarInv
<1>5. ASSUME NEW e \in Editor, NamePicture(e) PROVE AvatarInv'
  <2>1. edits[e].pc = "naming" /\ edits[e].new \in Picture
    BY <1>0, <1>5 DEF NamePicture, NamesApart, NewApart, OldApart, Unnamed
  <2> QED BY <1>5, <2>1, Overwriting DEF NamePicture
<1>6. ASSUME NEW e \in Editor, RemoveOld(e) PROVE AvatarInv'
  <2>1. edits[e].pc = "replaced" /\ ~Unnamed(e)
    BY <1>6 DEF RemoveOld, Unnamed
  <2>2. edits[e].old \in Picture \ {avatar}
    BY <1>0, <2>1 DEF NamesApart, NewApart, OldApart
  <2>3. \A d \in Editor : Unnamed(d) /\ d # e => edits[d].new # edits[e].old
    BY <1>0 DEF NamesApart, NewApart, OldApart
  <2> QED BY <1>6, <2>1, <2>2, <2>3, Removing DEF RemoveOld
<1>7. ASSUME NEW e \in Editor, FindPicture(e) PROVE AvatarInv'
  <2>1. /\ edits'[e] = [NoEdit EXCEPT !.pc = "found", !.old = avatar]
        /\ edits[e].pc = "none" /\ avatar # NoPicture
        /\ \A d \in Editor \ {e} : edits'[d] = edits[d]
        /\ UNCHANGED <<avatar, files, untidy>>
    BY <1>0, <1>7 DEF FindPicture, AvatarTypeOK
  <2>2. AvatarTypeOK'
    BY <1>0, <1>7 DEF FindPicture, AvatarTypeOK, NoEdit, Edit
  <2>3. /\ edits'[e].pc = "found" /\ edits'[e].old = avatar
        /\ avatar \in Picture /\ files[avatar] # "unused"
    BY <1>0, <2>1 DEF NoEdit, AvatarTypeOK, AvatarsAgree, NamedIsWhole
  <2>4. /\ ~Unnamed(e) /\ ~Unnamed(e)'
        /\ \A d \in Editor \ {e} : Unnamed(d)' <=> Unnamed(d)
    BY <2>1, <2>3 DEF Unnamed
  <2>5. NamesApart'
    <3>1. ASSUME NEW d \in Editor, Unnamed(d)' PROVE NewApart(d)'
      <4>1. d # e /\ NewApart(d) /\ edits'[d] = edits[d]
        BY <1>0, <2>1, <2>4, <3>1 DEF NamesApart
      <4>2. \A c \in Editor : edits'[c].old \in {edits[c].old, avatar}
        BY <2>1, <2>3
      <4> QED BY <2>1, <2>4, <4>1, <4>2, ZenonT(30) DEF NewApart
    <3>2. ASSUME NEW d \in Editor PROVE OldApart(d)'
      <4>1. CASE d = e BY <2>1, <2>3, <4>1 DEF OldApart
      <4>2. CASE d # e BY <1>0, <2>1, <4>2 DEF NamesApart, OldApart
      <4> QED BY <4>1, <4>2
    <3> QED BY <3>1, <3>2 DEF NamesApart
  <2>6. AvatarsAgree'
    BY <1>0, <2>1, <2>3, <2>4 DEF AvatarsAgree, NamedIsWhole, NothingLeftBehind
  <2> QED BY <2>2, <2>5, <2>6 DEF AvatarInv
<1>8. ASSUME NEW e \in Editor, ClearColumn(e) PROVE AvatarInv'
  BY <1>8, Overwriting DEF ClearColumn
<1>9. ASSUME NEW e \in Editor, ClearFails(e) PROVE AvatarInv'
  <2>1. /\ edits'[e] = NoEdit /\ edits[e].pc = "found"
        /\ \A d \in Editor \ {e} : edits'[d] = edits[d]
        /\ UNCHANGED <<avatar, files, untidy>>
    BY <1>0, <1>9 DEF ClearFails, EditEnds, AvatarTypeOK
  <2>2. AvatarTypeOK'
    BY <1>0, <1>9 DEF ClearFails, EditEnds, AvatarTypeOK, NoEdit, Edit
  <2>3. /\ edits'[e].pc = "none" /\ edits'[e].old = NoPicture
        /\ ~Unnamed(e) /\ ~Unnamed(e)'
        /\ \A d \in Editor \ {e} : Unnamed(d)' <=> Unnamed(d)
    BY <2>1 DEF Unnamed, NoEdit
  <2>4. NamesApart'
    BY <1>0, <2>1, <2>3 DEF NamesApart, NewApart, OldApart
  <2>5. AvatarsAgree'
    BY <1>0, <2>1, <2>3 DEF AvatarsAgree, NamedIsWhole, NothingLeftBehind
  <2> QED BY <2>2, <2>4, <2>5 DEF AvatarInv
<1>10. CASE EditsDie
  <2>1. /\ \A d \in Editor : edits'[d] = NoEdit
        /\ UNCHANGED <<avatar, files>> /\ untidy' = TRUE
    BY <1>10 DEF EditsDie
  <2>2. AvatarTypeOK'
    BY <1>0, <1>10 DEF EditsDie, AvatarTypeOK, NoEdit, Edit
  <2>3. \A d \in Editor : /\ ~Unnamed(d)' /\ edits'[d].old = NoPicture
                          /\ edits'[d].pc = "none"
    BY <2>1 DEF Unnamed, NoEdit
  <2> QED BY <1>0, <2>1, <2>2, <2>3
          DEF AvatarInv, NamesApart, NewApart, OldApart, AvatarsAgree, NamedIsWhole
<1>11. CASE UNCHANGED avatarVars
  BY <1>0, <1>11 DEF avatarVars, AvatarInv, AvatarTypeOK, NamesApart, NewApart, OldApart,
                     AvatarsAgree, NamedIsWhole, NothingLeftBehind, Unnamed
<1> QED BY <1>1, <1>2, <1>3, <1>4, <1>5, <1>6, <1>7, <1>8, <1>9, <1>10, <1>11
        DEF AvatarNext

\* services/avatar.go: the column never names a file that is missing or unfinished,
\* for any number of requests that overlap, fail at any step, or die; and files
\* are left behind only where the code does not look.
THEOREM AvatarsStayInStep == AvatarSpec => []AvatarsAgree
<1>1. AvatarInv => AvatarsAgree
  BY DEF AvatarInv
<1> QED BY InitAvatarInv, NextAvatarInv, <1>1, PTL DEF AvatarSpec
-----------------------------------------------------------------------------
(* Roles and permissions: what the guards of handlers/roles.go and         *)
(* services/permissions.go are worth, for any number of accounts, requests *)
(* and boots with any seed                                                 *)

\* What a request carries
RolesReqOK ==
  \A r \in Change :
    /\ changes[r].pc # "idle" => changes[r].caller \in User /\ changes[r].target \in User
    /\ changes[r].pc = "setRole" => changes[r].role \in Role \ {"Owner"}

RolesTypeInv == RolesTypeOK /\ RolesReqOK

LEMMA HeadIsUser == RolesTypeOK /\ accounts # <<>> => Head(accounts) \in User
BY DEF RolesTypeOK

\* A boot gives roles only to accounts that have none.
LEMMA BootRoles ==
  ASSUME RolesTypeOK, NEW seed \in [User -> Role \cup {Unset}], Boot(seed)
  PROVE  /\ role' \in [User -> Role \cup {Unset}]
         /\ \A u \in User : role[u] # Unset => role'[u] = role[u]
<1> DEFINE seeded == Seeded(seed)
<1>1. /\ seeded \in [User -> Role \cup {Unset}]
      /\ \A u \in User : role[u] # Unset => seeded[u] = role[u]
  BY DEF Seeded, RolesTypeOK
<1> HIDE DEF seeded
<1>2. role' = Bootstrapped(seeded)
  BY DEF Boot, seeded
<1>3. CASE accounts # <<>> /\ \A u \in User : seeded[u] = Unset
  BY <1>1, <1>2, <1>3, HeadIsUser DEF Bootstrapped, Role, Unset
<1>4. CASE ~(accounts # <<>> /\ \A u \in User : seeded[u] = Unset)
  BY <1>1, <1>2, <1>4 DEF Bootstrapped
<1> QED BY <1>3, <1>4

LEMMA InitRolesTypeInv == RolesInit => RolesTypeInv
<1> SUFFICES ASSUME RolesInit PROVE RolesTypeInv
  OBVIOUS
<1>1. accounts \in Seq(User)
  BY EmptySeq DEF RolesInit
<1>2. NoChange \in [pc : ChangeLabel, caller : User \cup {Unset},
                     target : User \cup {Unset}, role : Role \cup {Unset}, override : Override, saw : Role \cup {Unset}]
  BY DEF NoChange, ChangeLabel, Override
<1>3. RolesTypeOK
  BY <1>1, <1>2 DEF RolesInit, RolesTypeOK, Override
<1> QED BY <1>3 DEF RolesTypeInv, RolesReqOK, RolesInit, NoChange

LEMMA NextRolesTypeInv == RolesTypeInv /\ [RolesNext]_rolesVars => RolesTypeInv'
<1> SUFFICES ASSUME RolesTypeInv, [RolesNext]_rolesVars PROVE RolesTypeInv'
  OBVIOUS
<1> USE DEF RolesTypeInv
<1>1. ASSUME NEW u \in User, Register(u) PROVE RolesTypeInv'
  BY <1>1 DEF Register, RolesTypeOK, RolesReqOK
<1>2. ASSUME NEW seed \in [User -> Role \cup {Unset}], Boot(seed) PROVE RolesTypeInv'
  <2>1. changes' = [r \in Change |-> NoChange] /\ managed' \in BOOLEAN
    BY <1>2 DEF Boot, RolesTypeOK
  <2>2. NoChange \in [pc : ChangeLabel, caller : User \cup {Unset},
                     target : User \cup {Unset}, role : Role \cup {Unset}, override : Override, saw : Role \cup {Unset}]
    BY DEF NoChange, ChangeLabel, Override
  <2>3. RolesTypeOK'
    BY <1>2, <2>1, <2>2, BootRoles DEF Boot, RolesTypeOK
  <2> QED BY <2>1, <2>3 DEF RolesReqOK, NoChange
<1>3. ASSUME NEW r \in Change, NEW c \in User, NEW t \in User, NEW ro \in Role,
             AdmitSetRole(r, c, t, ro)
      PROVE RolesTypeInv'
  BY <1>3 DEF AdmitSetRole, RolesTypeOK, RolesReqOK, NoChange, ChangeLabel, Override
<1>4. ASSUME NEW r \in Change, SetUserRole(r) PROVE RolesTypeInv'
  BY <1>4 DEF SetUserRole, EndChange, RolesTypeOK, RolesReqOK, NoChange, ChangeLabel, Override
<1>5. ASSUME NEW r \in Change, NEW c \in User, NEW t \in User, NEW ov \in Override,
             AdmitOverride(r, c, t, ov)
      PROVE RolesTypeInv'
  BY <1>5 DEF AdmitOverride, RolesTypeOK, RolesReqOK, NoChange, ChangeLabel
<1>6. ASSUME NEW r \in Change, LookAtTarget(r) PROVE RolesTypeInv'
  BY <1>6 DEF LookAtTarget, EndChange, RolesTypeOK, RolesReqOK, NoChange, ChangeLabel, Override
<1>7. ASSUME NEW r \in Change, SetUserOverrides(r) PROVE RolesTypeInv'
  BY <1>7 DEF SetUserOverrides, EndChange, RolesTypeOK, RolesReqOK, NoChange, ChangeLabel, Override
<1>8. CASE UNCHANGED rolesVars
  BY <1>8 DEF rolesVars, RolesTypeOK, RolesReqOK
<1> QED BY <1>1, <1>2, <1>3, <1>4, <1>5, <1>6, <1>7, <1>8 DEF RolesNext

\* Every reachable state of the roles is well typed, for any number of accounts
\* and requests.
THEOREM RolesTypeCorrect == RolesSpec => []RolesTypeOK
<1>1. RolesTypeInv => RolesTypeOK
  BY DEF RolesTypeInv
<1> QED BY InitRolesTypeInv, NextRolesTypeInv, <1>1, PTL DEF RolesSpec

-----------------------------------------------------------------------------
(* Overrides *)

\* Whoever has no role has no override; an override decided is not for an Owner,
\* who is made one only by a boot, and no request lives through a boot. As long
\* as requests follow one another the role it was decided for is still there.
OverrideInv ==
  /\ OwnerUnedited
  /\ \A u \in User : role[u] = Unset => override[u] = "default"
  /\ \A r \in Change : changes[r].pc = "decided" => role[changes[r].target] # "Owner"
  /\ ~overlapped => OverrideFitsRole
  /\ ~overlapped => \A r \in Change :
                 changes[r].pc = "decided" => changes[r].saw = role[changes[r].target]

\* Until requests overlap one is busy at most.
OneBusy == ~overlapped => \A q, r \in Busy : q = r

RolesInv == RolesTypeInv /\ OneBusy /\ OverrideInv

\* A request that is admitted is alone, or races.
LEMMA AdmitAlone ==
  ASSUME RolesTypeInv, OneBusy, NEW r \in Change, NEW q, changes' = [changes EXCEPT ![r] = q],
         overlapped' = (overlapped \/ Busy # {})
  PROVE  OneBusy'
BY DEF RolesTypeInv, RolesTypeOK, OneBusy, Busy

\* No other request becomes busy.
LEMMA StaysAlone ==
  ASSUME RolesTypeInv, OneBusy, NEW r \in Change, NEW q, changes' = [changes EXCEPT ![r] = q],
         changes[r].pc # "idle", UNCHANGED overlapped
  PROVE  OneBusy'
BY DEF RolesTypeInv, RolesTypeOK, OneBusy, Busy

LEMMA NextOneBusy == RolesTypeInv /\ OneBusy /\ [RolesNext]_rolesVars => OneBusy'
<1> SUFFICES ASSUME RolesTypeInv, OneBusy, [RolesNext]_rolesVars PROVE OneBusy'
  OBVIOUS
<1>1. ASSUME NEW u \in User, Register(u) PROVE OneBusy'
  BY <1>1 DEF Register, OneBusy, Busy
<1>2. ASSUME NEW seed \in [User -> Role \cup {Unset}], Boot(seed) PROVE OneBusy'
  BY <1>2 DEF Boot, OneBusy, Busy, NoChange
<1>3. ASSUME NEW r \in Change, NEW c \in User, NEW t \in User, NEW ro \in Role,
             AdmitSetRole(r, c, t, ro)
      PROVE OneBusy'
  BY <1>3, AdmitAlone DEF AdmitSetRole
<1>4. ASSUME NEW r \in Change, SetUserRole(r) PROVE OneBusy'
  BY <1>4, StaysAlone DEF SetUserRole, EndChange
<1>5. ASSUME NEW r \in Change, NEW c \in User, NEW t \in User, NEW ov \in Override,
             AdmitOverride(r, c, t, ov)
      PROVE OneBusy'
  BY <1>5, AdmitAlone DEF AdmitOverride
<1>6. ASSUME NEW r \in Change, LookAtTarget(r) PROVE OneBusy'
  <2>1. CASE Refused(r)
    BY <1>6, <2>1, StaysAlone DEF LookAtTarget, EndChange
  <2>2. CASE ~Refused(r)
    BY <1>6, <2>2, StaysAlone DEF LookAtTarget
  <2> QED BY <2>1, <2>2
<1>7. ASSUME NEW r \in Change, SetUserOverrides(r) PROVE OneBusy'
  BY <1>7, StaysAlone DEF SetUserOverrides, EndChange
<1>8. CASE UNCHANGED rolesVars
  BY <1>8 DEF rolesVars, OneBusy, Busy
<1> QED BY <1>1, <1>2, <1>3, <1>4, <1>5, <1>6, <1>7, <1>8 DEF RolesNext

LEMMA NextRolesInv == RolesInv /\ [RolesNext]_rolesVars => RolesInv'
<1> SUFFICES ASSUME RolesInv, [RolesNext]_rolesVars PROVE OverrideInv'
  BY NextRolesTypeInv, NextOneBusy DEF RolesInv
<1>0. RolesTypeInv /\ OneBusy /\ OverrideInv
  BY DEF RolesInv
<1> USE DEF OverrideInv, OwnerUnedited, OverrideFitsRole
<1>1. ASSUME NEW u \in User, Register(u) PROVE OverrideInv'
  BY <1>0, <1>1 DEF Register
<1>2. ASSUME NEW seed \in [User -> Role \cup {Unset}], Boot(seed) PROVE OverrideInv'
  <2>1. \A u \in User : role[u] # Unset => role'[u] = role[u]
    BY <1>0, <1>2, BootRoles DEF RolesTypeInv
  <2>2. \A r \in Change : changes'[r].pc = "idle"
    BY <1>2 DEF Boot, NoChange
  <2>3. UNCHANGED <<override, overlapped, decidedFor>>
    BY <1>2 DEF Boot
  <2> HIDE DEF Boot
  <2> QED BY <1>0, <2>1, <2>2, <2>3
<1>3. ASSUME NEW r \in Change, NEW c \in User, NEW t \in User, NEW ro \in Role,
             AdmitSetRole(r, c, t, ro)
      PROVE OverrideInv'
  BY <1>0, <1>3 DEF AdmitSetRole, RolesTypeInv, RolesTypeOK, NoChange
<1>4. ASSUME NEW r \in Change, SetUserRole(r) PROVE OverrideInv'
  <2>1. /\ changes[r].target \in User /\ changes[r].role \in Role \ {"Owner"}
        /\ role' = [role EXCEPT ![changes[r].target] = changes[r].role]
        /\ override' = [override EXCEPT ![changes[r].target] = "default"]
        /\ \A q \in Change \ {r} : changes'[q] = changes[q]
        /\ changes'[r].pc = "idle" /\ overlapped' = overlapped
        /\ decidedFor' = [decidedFor EXCEPT ![changes[r].target] = Unset]
    BY <1>0, <1>4 DEF SetUserRole, EndChange, NoChange, RolesTypeInv, RolesTypeOK, RolesReqOK
  <2>2. \A u \in User : u # changes[r].target =>
            /\ role'[u] = role[u] /\ override'[u] = override[u]
            /\ decidedFor'[u] = decidedFor[u]
    BY <1>0, <2>1 DEF RolesTypeInv, RolesTypeOK
  <2>3. /\ role'[changes[r].target] \in Role \ {"Owner"}
        /\ override'[changes[r].target] = "default"
    BY <1>0, <2>1 DEF RolesTypeInv, RolesTypeOK
  <2>4. ~overlapped => \A q \in Change : changes'[q].pc = "idle"
    BY <1>0, <1>4, <2>1 DEF OneBusy, Busy, SetUserRole
  <2>5. \A q \in Change : changes'[q].pc = "decided" =>
            q # r /\ changes'[q] = changes[q] /\ changes[q].target \in User
    BY <1>0, <2>1 DEF RolesTypeInv, RolesReqOK
  <2> QED BY <1>0, <2>1, <2>2, <2>3, <2>4, <2>5 DEF Role, Unset
<1>5. ASSUME NEW r \in Change, NEW c \in User, NEW t \in User, NEW ov \in Override,
             AdmitOverride(r, c, t, ov)
      PROVE OverrideInv'
  BY <1>0, <1>5 DEF AdmitOverride, RolesTypeInv, RolesTypeOK, NoChange
<1>6. ASSUME NEW r \in Change, LookAtTarget(r) PROVE OverrideInv'
  <2>1. /\ UNCHANGED <<role, override, overlapped, decidedFor>>
        /\ \A q \in Change \ {r} : changes'[q] = changes[q]
    BY <1>0, <1>6 DEF LookAtTarget, EndChange, RolesTypeInv, RolesTypeOK
  <2>2. \/ changes'[r].pc = "idle"
        \/ /\ role[changes'[r].target] # "Owner"
           /\ changes'[r].saw = role[changes'[r].target]
    <3>1. CASE Refused(r)
      BY <1>0, <1>6, <3>1 DEF LookAtTarget, EndChange, NoChange, RolesTypeInv, RolesTypeOK
    <3>2. CASE ~Refused(r)
      <4>1. role[changes[r].target] # "Owner"
        BY <3>2 DEF Refused
      <4>2. changes'[r] = [changes[r] EXCEPT !.pc = "decided",
                                             !.saw = role[changes[r].target]]
        BY <1>0, <1>6, <3>2 DEF LookAtTarget, RolesTypeInv, RolesTypeOK
      <4> QED BY <1>0, <4>1, <4>2 DEF RolesTypeInv, RolesTypeOK
    <3> QED BY <3>1, <3>2
  <2>3. \A q \in Change : changes'[q].pc = "decided" =>
           \/ q # r /\ changes'[q] = changes[q]
           \/ /\ role[changes'[q].target] # "Owner"
              /\ changes'[q].saw = role[changes'[q].target]
    BY <2>1, <2>2
  <2> HIDE DEF LookAtTarget
  <2> QED BY <1>0, <2>1, <2>3
<1>7. ASSUME NEW r \in Change, SetUserOverrides(r) PROVE OverrideInv'
  <2>1. /\ changes[r].target \in User /\ changes[r].pc = "decided"
        /\ \A q \in Change \ {r} : changes'[q] = changes[q]
        /\ changes'[r].pc = "idle" /\ overlapped' = overlapped /\ role' = role
    BY <1>0, <1>7 DEF SetUserOverrides, EndChange, NoChange, RolesTypeInv, RolesTypeOK, RolesReqOK
  <2>2. \A q \in Change : changes'[q].pc = "decided" => q # r /\ changes'[q] = changes[q]
    BY <2>1
  <2>3. CASE role[changes[r].target] = Unset
    BY <1>0, <1>7, <2>1, <2>2, <2>3 DEF SetUserOverrides
  <2>4. CASE role[changes[r].target] # Unset
    <3>1. /\ override' = [override EXCEPT ![changes[r].target] = changes[r].override]
          /\ decidedFor' = [decidedFor EXCEPT ![changes[r].target] = changes[r].saw]
      BY <1>7, <2>4 DEF SetUserOverrides
    <3>2. \A u \in User : u # changes[r].target =>
            override'[u] = override[u] /\ decidedFor'[u] = decidedFor[u]
      BY <1>0, <3>1 DEF RolesTypeInv, RolesTypeOK
    <3>3. decidedFor'[changes[r].target] = changes[r].saw
      BY <1>0, <2>1, <3>1 DEF RolesTypeInv, RolesTypeOK
    <3>4. role[changes[r].target] # "Owner"
      BY <1>0, <2>1
    <3> QED BY <1>0, <2>1, <2>2, <2>4, <3>2, <3>3, <3>4
  <2> QED BY <2>3, <2>4
<1>8. CASE UNCHANGED rolesVars
  BY <1>0, <1>8 DEF rolesVars
<1> QED BY <1>1, <1>2, <1>3, <1>4, <1>5, <1>6, <1>7, <1>8 DEF RolesNext

LEMMA InitRolesInv == RolesInit => RolesInv
BY InitRolesTypeInv DEF RolesInit, RolesInv, OneBusy, Busy, OverrideInv, OwnerUnedited,
                   OverrideFitsRole, NoChange

\* permissions.go:131: no override outlives the role it was meant for, as long as
\* requests follow one another; and an Owner's permissions are never edited,
\* whatever overlaps.
THEOREM OverridesFitRoles == RolesSpec => []OverridesFit
<1>1. RolesInv => OverridesFit
  BY DEF RolesInv, OverrideInv, OverridesFit
<1> QED BY InitRolesInv, NextRolesInv, <1>1, PTL DEF RolesSpec

-----------------------------------------------------------------------------
(* Lockout *)

\* Until requests overlap, the caller of the one in progress still has the
\* permission, and keeps it whatever the request does to the target.
KeepsOwn(q) ==
  /\ Manages(q.caller)
  /\ q.pc = "setRole" /\ q.caller = q.target => q.role \in Managing
  /\ q.pc = "decided" /\ q.caller = q.target => Grants(role[q.target], q.override)

LockoutInv ==
  ~overlapped => /\ managed => \E u \in User : Manages(u)
                 /\ \A r \in Busy : KeepsOwn(changes[r])

LEMMA NextLockout == RolesInv /\ LockoutInv /\ [RolesNext]_rolesVars => LockoutInv'
<1> SUFFICES ASSUME RolesInv, LockoutInv, [RolesNext]_rolesVars, ~overlapped' PROVE LockoutInv'
  BY DEF LockoutInv
<1>0. RolesTypeOK /\ RolesReqOK /\ OneBusy
  BY DEF RolesInv, RolesTypeInv
<1>1. ASSUME NEW u \in User, Register(u) PROVE LockoutInv'
  BY <1>1 DEF Register, LockoutInv, KeepsOwn, Manages, Busy
<1>2. ASSUME NEW seed \in [User -> Role \cup {Unset}], Boot(seed) PROVE LockoutInv'
  <2>1. /\ \A u \in User : role[u] # Unset => role'[u] = role[u]
        /\ \A r \in Change : changes'[r].pc = "idle"
        /\ UNCHANGED <<override, overlapped>>
        /\ managed' = (managed \/ \E u \in User : Grants(role'[u], override[u]))
    BY <1>0, <1>2, BootRoles DEF Boot, NoChange
  <2>2. \A u \in User : Manages(u) => Manages(u)'
    BY <2>1 DEF Manages, Grants
  <2>3. managed' => \E u \in User : Manages(u)'
    BY <2>1, <2>2 DEF LockoutInv, Manages
  <2> QED BY <2>1, <2>3 DEF LockoutInv, Busy
<1>3. ASSUME NEW r \in Change, NEW c \in User, NEW t \in User, NEW ro \in Role,
             AdmitSetRole(r, c, t, ro)
      PROVE LockoutInv'
  <2>1. Busy' = {r} /\ UNCHANGED <<role, override, managed>> /\ ~overlapped
    BY <1>0, <1>3 DEF AdmitSetRole, Busy, RolesTypeOK, NoChange
  <2>2. Manages(c) /\ (c = t => ro \in Managing) /\ changes'[r].pc = "setRole"
        /\ changes'[r].caller = c /\ changes'[r].target = t /\ changes'[r].role = ro
    BY <1>0, <1>3 DEF AdmitSetRole, RolesTypeOK, NoChange
  <2> QED BY <2>1, <2>2 DEF LockoutInv, KeepsOwn, Manages
<1>4. ASSUME NEW r \in Change, SetUserRole(r) PROVE LockoutInv'
  <2> DEFINE c == changes[r].caller
  <2>1. r \in Busy /\ KeepsOwn(changes[r]) /\ c \in User /\ changes[r].target \in User
    BY <1>0, <1>4 DEF SetUserRole, LockoutInv, Busy, RolesReqOK
  <2>2. Busy' = {}
    BY <1>0, <1>4, <2>1 DEF SetUserRole, EndChange, OneBusy, Busy, NoChange, RolesTypeOK
  <2>3. CASE c = changes[r].target
    <3>1. /\ role'[c] = changes[r].role /\ override'[c] = "default"
          /\ changes[r].role \in Managing
      BY <1>0, <1>4, <2>1, <2>3 DEF SetUserRole, KeepsOwn, RolesTypeOK
    <3> QED BY <2>1, <2>2, <3>1 DEF LockoutInv, Manages, Grants, Managing, Unset
  <2>4. CASE c # changes[r].target
    <3>1. role'[c] = role[c] /\ override'[c] = override[c]
      BY <1>0, <1>4, <2>1, <2>4 DEF SetUserRole, RolesTypeOK
    <3> QED BY <2>1, <2>2, <3>1 DEF LockoutInv, KeepsOwn, Manages
  <2> QED BY <2>3, <2>4
<1>5. ASSUME NEW r \in Change, NEW c \in User, NEW t \in User, NEW ov \in Override,
             AdmitOverride(r, c, t, ov)
      PROVE LockoutInv'
  <2>1. Busy' = {r} /\ UNCHANGED <<role, override, managed>> /\ ~overlapped
    BY <1>0, <1>5 DEF AdmitOverride, Busy, RolesTypeOK, NoChange
  <2>2. Manages(c) /\ changes'[r].pc = "override" /\ changes'[r].caller = c
    BY <1>0, <1>5 DEF AdmitOverride, RolesTypeOK, NoChange
  <2> QED BY <2>1, <2>2 DEF LockoutInv, KeepsOwn, Manages
<1>6. ASSUME NEW r \in Change, LookAtTarget(r) PROVE LockoutInv'
  <2>1. /\ r \in Busy /\ KeepsOwn(changes[r]) /\ \A q \in Busy : q = r
        /\ UNCHANGED <<role, override, managed, overlapped>>
        /\ changes[r].target \in User
    BY <1>0, <1>6 DEF LookAtTarget, LockoutInv, OneBusy, Busy, RolesReqOK
  <2>2. CASE Refused(r)
    <3>1. Busy' = {}
      BY <1>0, <1>6, <2>1, <2>2 DEF LookAtTarget, EndChange, Busy, NoChange, RolesTypeOK
    <3> QED BY <2>1, <3>1 DEF LockoutInv, Manages
  <2>3. CASE ~Refused(r)
    <3>1. changes' = [changes EXCEPT ![r].pc = "decided",
                                     ![r].saw = role[changes[r].target]]
      BY <1>6, <2>3 DEF LookAtTarget
    <3>2. /\ changes'[r].pc = "decided" /\ changes'[r].caller = changes[r].caller
          /\ changes'[r].target = changes[r].target
          /\ changes'[r].override = changes[r].override
      BY <1>0, <3>1 DEF RolesTypeOK
    <3>3. Busy' = {r}
      BY <1>0, <2>1, <3>1, <3>2 DEF Busy, RolesTypeOK
    <3>4. changes[r].caller = changes[r].target
            => Grants(role[changes[r].target], changes[r].override)
      BY <2>1, <2>3 DEF Refused, KeepsOwn, Manages, Grants
    <3> QED BY <2>1, <3>2, <3>3, <3>4 DEF LockoutInv, KeepsOwn, Manages
  <2> QED BY <2>2, <2>3
<1>7. ASSUME NEW r \in Change, SetUserOverrides(r) PROVE LockoutInv'
  <2> DEFINE c == changes[r].caller
  <2>1. /\ r \in Busy /\ KeepsOwn(changes[r]) /\ c \in User /\ changes[r].target \in User
        /\ role' = role /\ changes[r].pc = "decided"
    BY <1>0, <1>7 DEF SetUserOverrides, LockoutInv, Busy, RolesReqOK
  <2>2. Busy' = {}
    BY <1>0, <1>7, <2>1 DEF SetUserOverrides, EndChange, OneBusy, Busy, NoChange, RolesTypeOK
  <2>3. CASE c = changes[r].target
    <3>1. override'[c] = changes[r].override /\ Grants(role[c], changes[r].override)
      BY <1>0, <1>7, <2>1, <2>3 DEF SetUserOverrides, KeepsOwn, Manages, Grants, RolesTypeOK
    <3> QED BY <2>1, <2>2, <3>1 DEF LockoutInv, Manages
  <2>4. CASE c # changes[r].target
    <3>1. override'[c] = override[c]
      BY <1>0, <1>7, <2>1, <2>4 DEF SetUserOverrides, RolesTypeOK
    <3> QED BY <2>1, <2>2, <3>1 DEF LockoutInv, KeepsOwn, Manages
  <2> QED BY <2>3, <2>4
<1>8. CASE UNCHANGED rolesVars
  BY <1>8 DEF rolesVars, LockoutInv, KeepsOwn, Manages, Busy
<1> QED BY <1>1, <1>2, <1>3, <1>4, <1>5, <1>6, <1>7, <1>8 DEF RolesNext

\* The lockout guards of handlers/roles.go work: as long as requests follow one
\* another somebody who can manage roles remains, whoever is changed.
THEOREM SomebodyManages == RolesSpec => []ManagerRemains
<1>1. RolesInit => LockoutInv
  BY DEF RolesInit, LockoutInv, Busy, NoChange
<1>2. LockoutInv => ManagerRemains
  BY DEF LockoutInv, ManagerRemains
<1> QED BY InitRolesInv, NextRolesInv, NextLockout, <1>1, <1>2, PTL DEF RolesSpec
=============================================================================
