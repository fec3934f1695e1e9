------------------------------ MODULE RateLimit ------------------------------
(***************************************************************************)
(* The rate limit of the MCP server: a bucket of tokens for every address, *)
(* filled with the time that has passed when a request comes.  A tick is a *)
(* second, in which a bucket gains Rps tokens.                             *)
(***************************************************************************)
EXTENDS Naturals, FiniteSets

CONSTANTS Addresses,
          Rps,         \* the configured rate, which is also the size of a bucket
          MaxTime      \* bound: ticks

VARIABLES now,
          bucket,      \* the buckets of the addresses seen so far
          passed       \* ghost: address, tick -> requests let through

limitVars == <<now, bucket, passed>>

Ticks == 0..MaxTime

\* A rate that is not positive is taken for one.
rate == IF Rps = 0 THEN 1 ELSE Rps

newLimiter == [tokens |-> rate, last |-> now]

Least(m, n) == IF m < n THEN m ELSE n

Bucket(a) == IF a \in DOMAIN bucket THEN bucket[a] ELSE newLimiter

\* Tokens gained since the last request never exceed the size of the bucket.
Filled(b) == Least(b.tokens + (now - b.last) * rate, rate)

Init == /\ now = 0
        /\ bucket = <<>>
        /\ passed = [a \in Addresses |-> [t \in Ticks |-> 0]]

Tick == now < MaxTime /\ now' = now + 1 /\ UNCHANGED <<bucket, passed>>

\* Mutant: an empty bucket gives a token all the same.
TakeFromEmpty(a) ==
  /\ bucket' = [x \in DOMAIN bucket \cup {a} |->
                  IF x = a THEN [tokens |-> Filled(Bucket(a)) - 1, last |-> now] ELSE bucket[x]]
  /\ passed' = [passed EXCEPT ![a][now] = @ + 1]
  /\ UNCHANGED now

\* Mutant: the moment of the last filling is not moved on.
TakeWithoutClock(a) ==
  LET tokens == Filled(Bucket(a)) IN
  /\ bucket' = [x \in DOMAIN bucket \cup {a} |->
       IF x = a THEN [tokens |-> IF tokens >= 1 THEN tokens - 1 ELSE tokens,
                      last |-> Bucket(a).last] ELSE bucket[x]]
  /\ passed' = IF tokens >= 1 THEN [passed EXCEPT ![a][now] = @ + 1] ELSE passed
  /\ UNCHANGED now

(* limiterSet.allow: the bucket is made at the first request of its        *)
(* address, filled, and gives a token if it holds a whole one.             *)
Take(a) ==
  LET tokens == Filled(Bucket(a))
      left   == IF tokens >= 1 THEN tokens - 1 ELSE tokens
  IN /\ bucket' = [x \in DOMAIN bucket \cup {a} |->
                     IF x = a THEN [tokens |-> left, last |-> now] ELSE bucket[x]]
     /\ passed' = IF tokens >= 1 THEN [passed EXCEPT ![a][now] = @ + 1] ELSE passed
     /\ UNCHANGED now

Next == Tick \/ \E a \in Addresses : Take(a)

Spec == Init /\ [][Next]_limitVars

------------------------------------------------------------------------------

TypeOK == /\ now \in Ticks
          /\ DOMAIN bucket \subseteq Addresses
          /\ \A a \in DOMAIN bucket : bucket[a] \in [tokens : 0..rate, last : Ticks]
          /\ passed \in [Addresses -> [Ticks -> Nat]]

(* In any stretch of time an address gets no more requests through than a  *)
(* full bucket holds and the stretch adds to it, however they are spread;  *)
(* and a whole bucket is there for an address that has kept quiet.         *)
Sum(p, from, to) ==
  LET sum[t \in Ticks] == IF t < from THEN 0
                          ELSE p[t] + (IF t = 0 THEN 0 ELSE sum[t - 1])
  IN sum[to]

Passed(a, from, to) == Sum(passed[a], from, to)

RateIsBounded ==
  \A a \in Addresses, from \in Ticks, to \in Ticks :
    from <= to /\ to <= now => Passed(a, from, to) <= rate * (1 + to - from)

==============================================================================
