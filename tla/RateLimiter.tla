----------------------------- MODULE RateLimiter -----------------------------
(***************************************************************************)
(* middleware/rateLimitter.go: a token bucket for each client address, and *)
(* a janitor that evicts idle ones.  Time is counted in ticks and tokens   *)
(* in parts, Cost of which make a token, so that both stay whole numbers   *)
(* where the code has floating-point ones; a call reads the clock once.    *)
(***************************************************************************)
EXTENDS Naturals

CONSTANTS Address,
          Rate,     \* parts of a token per tick
          Cost,     \* parts of a token
          Burst,    \* maxBurst, in tokens
          TTL,      \* defaultClientTTL, in ticks
          MaxTime   \* bound: ticks

\* All limiters of main.go have it: 20 tokens at 10 a second, 5 and 10 at 5 and 10
\* a minute, are back long before the ten minutes of the TTL have passed.
ASSUME LimiterAssumption ==
  /\ Rate \in Nat /\ Cost \in Nat \ {0} /\ Burst \in Nat \ {0} /\ TTL \in Nat
  /\ MaxTime \in Nat
  /\ Cost * Burst <= Rate * TTL

VARIABLES
  now,      \* the clock
  clients,  \* the map of buckets
  cutoff,   \* what the janitor's cleanup compares with, 0 when it sleeps
  since,    \* history: the start of a window of time, any one
  passed    \* history: the requests let through in it

limiterVars == <<now, clients, cutoff, since, passed>>

Full == Cost * Burst

Client == [known : BOOLEAN, tokens : 0 .. Full, last : 0 .. now]

Unknown == [known |-> FALSE, tokens |-> 0, last |-> 0]

LimiterTypeOK ==
  /\ now \in 0 .. MaxTime
  /\ clients \in [Address -> Client]
  /\ cutoff \in Nat
  /\ since \in 0 .. now
  /\ passed \in [Address -> Nat]

LimiterInit ==
  /\ now = 0
  /\ clients = [a \in Address |-> Unknown]
  /\ cutoff = 0
  /\ since = 0
  /\ passed = [a \in Address |-> 0]

AtMost(x, max) == IF x <= max THEN x ELSE max

\* The tokens the bucket would have now
Refilled(c) == AtMost(c.tokens + Rate * (now - c.last), Full)

Store(a, tokens) ==
  clients' = [clients EXCEPT ![a] = [known |-> TRUE, tokens |-> tokens, last |-> now]]

AllowNew(a) ==
  /\ ~clients[a].known
  /\ Store(a, Full - Cost)
  /\ passed' = [passed EXCEPT ![a] = @ + 1]
  /\ UNCHANGED <<now, cutoff, since>>

Allow(a) ==
  /\ clients[a].known
  /\ Refilled(clients[a]) >= Cost
  /\ Store(a, Refilled(clients[a]) - Cost)
  /\ passed' = [passed EXCEPT ![a] = @ + 1]
  /\ UNCHANGED <<now, cutoff, since>>

Refuse(a) ==
  /\ clients[a].known
  /\ Refilled(clients[a]) < Cost
  /\ Store(a, Refilled(clients[a]))
  /\ UNCHANGED <<now, cutoff, since, passed>>

\* Mutant of JanitorWakes: it does not go back by the TTL.
JanitorWakesNow ==
  /\ cutoff = 0
  /\ cutoff' = now
  /\ UNCHANGED <<now, clients, since, passed>>

\* Then it waits for the mutex, and others go first.
JanitorWakes ==
  /\ cutoff = 0 /\ now > TTL
  /\ cutoff' = now - TTL
  /\ UNCHANGED <<now, clients, since, passed>>

Cleanup ==
  /\ cutoff # 0
  /\ clients' = [a \in Address |-> IF clients[a].known /\ clients[a].last < cutoff
                                   THEN Unknown ELSE clients[a]]
  /\ cutoff' = 0
  /\ UNCHANGED <<now, since, passed>>

LimiterTick ==
  /\ now < MaxTime
  /\ now' = now + 1
  /\ UNCHANGED <<clients, cutoff, since, passed>>

\* An observer who begins to count
Watch ==
  /\ since' = now
  /\ passed' = [a \in Address |-> 0]
  /\ UNCHANGED <<now, clients, cutoff>>

LimiterNext ==
  \/ \E a \in Address : AllowNew(a) \/ Allow(a) \/ Refuse(a)
  \/ JanitorWakes \/ Cleanup
  \/ LimiterTick \/ Watch

LimiterSpec == LimiterInit /\ [][LimiterNext]_limiterVars

-----------------------------------------------------------------------------
\* The tokens an address has at hand: one that is not in the map would begin with
\* a full bucket.
Level(a) == IF clients[a].known THEN Refilled(clients[a]) ELSE Full

\* The limiter implements a bucket for each address that nobody evicts.
Bucket == INSTANCE TokenBucket WITH level <- [a \in Address |-> Level(a)], Brim <- Full

-----------------------------------------------------------------------------
\* In no window of time does an address get more requests through than a burst
\* and what the rate allows for the window, although it is forgotten now and
\* then and begins again with a full bucket (rateLimitter.go:78: evicting "is
\* equivalent to letting a fresh entry be created").
BurstBound ==
  \A a \in Address : Cost * passed[a] <= Full + Rate * (now - since)
=============================================================================
