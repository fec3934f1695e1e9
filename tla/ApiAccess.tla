------------------------------ MODULE ApiAccess ------------------------------
(***************************************************************************)
(* Who is let in to the MCP server.  The key of a request is looked up in  *)
(* a cache and, on a miss, first among the tenants and then among the      *)
(* clients, each with a query of its own; the answer, good or bad, is      *)
(* cached for TTL.  The rows change meanwhile: keys are issued, rotated,   *)
(* revoked, tenants are switched off and on.  Nothing invalidates the      *)
(* cache.                                                                  *)
(***************************************************************************)
EXTENDS Naturals, FiniteSets

CONSTANTS TenantKeys, ClientKeys,   \* keys, by the table that may hold them
          Requests,                 \* requests under way at once
          TTL,                      \* life of a cached answer
          MaxLookup,                \* bound: ticks a lookup takes at most
          MaxTime,                  \* bound: ticks
          Faults                    \* whether a query may fail

VARIABLES now,
          valid,        \* the keys the tables accept at this moment
          cache,        \* key -> answer and expiry, for the keys looked up
          request,      \* what each request under way has found so far
          decision,     \* the last answer: the key, whether it was let in, and when
          wasGood,      \* ghost: key -> the last time it was acceptable
          wasBad        \* ghost: key -> the last time it was not, or a query for it failed

accessVars == <<now, valid, cache, request, decision, wasGood, wasBad>>

Keys == TenantKeys \cup ClientKeys
Ticks == 0..MaxTime
Free == [pc |-> "free"]
Never == MaxTime + 1         \* no such moment yet
NoDecision == [key |-> "none"]

Init == /\ now = 0
        /\ valid \in SUBSET Keys
        /\ cache = <<>>
        /\ request = [r \in Requests |-> Free]
        /\ decision = NoDecision
        /\ wasGood = [k \in Keys |-> IF k \in valid THEN 0 ELSE Never]
        /\ wasBad = [k \in Keys |-> IF k \in valid THEN Never ELSE 0]

------------------------------------------------------------------------------

Busy(r) == request[r].pc # "free"

(* Time passes while no lookup is at its limit. *)
Tick ==
  /\ now < MaxTime
  /\ \A r \in Requests : Busy(r) => now - request[r].since < MaxLookup
  /\ now' = now + 1
  /\ wasGood' = [k \in Keys |-> IF k \in valid THEN now + 1 ELSE wasGood[k]]
  /\ wasBad' = [k \in Keys |-> IF k \in valid THEN wasBad[k] ELSE now + 1]
  /\ UNCHANGED <<valid, cache, request, decision>>

(* Rotation, revocation and switching a tenant off take the key out of the *)
(* tables, issuing it or switching the tenant on puts it there.            *)
Revoke(k) ==
  /\ k \in valid
  /\ valid' = valid \ {k}
  /\ wasBad' = [wasBad EXCEPT ![k] = now]
  /\ UNCHANGED <<now, cache, request, decision, wasGood>>

Issue(k) ==
  /\ k \notin valid
  /\ valid' = valid \cup {k}
  /\ wasGood' = [wasGood EXCEPT ![k] = now]
  /\ UNCHANGED <<now, cache, request, decision, wasBad>>

\* Mutant: get does not look at the expiry.
HitForEver(k) == k \in DOMAIN cache

Hit(k) == k \in DOMAIN cache /\ now <= cache[k].expires

Decide(k, ok) == decision' = [key |-> k, ok |-> ok, at |-> now]

Arrive(r, k) ==
  /\ ~Busy(r)
  /\ IF Hit(k)
       THEN Decide(k, cache[k].ok) /\ UNCHANGED request
       ELSE /\ request' = [request EXCEPT ![r] = [pc |-> "tenant", key |-> k, since |-> now]]
            /\ UNCHANGED decision
  /\ UNCHANGED <<now, valid, cache, wasGood, wasBad>>

(* What a query says of the key; an error is taken for "unknown". *)
Answer(k, table, failed) == k \in table /\ k \in valid /\ ~failed

(* A failing query counts as a moment at which the key was not acceptable. *)
Blame(k, failed) ==
  wasBad' = IF failed THEN [wasBad EXCEPT ![k] = now] ELSE wasBad

QueryTenants(r, failed) ==
  /\ request[r].pc = "tenant" /\ (failed => Faults)
  /\ request' = [request EXCEPT ![r].pc =
       IF Answer(request[r].key, TenantKeys, failed) THEN "good" ELSE "client"]
  /\ Blame(request[r].key, failed)
  /\ UNCHANGED <<now, valid, cache, decision, wasGood>>

QueryClients(r, failed) ==
  /\ request[r].pc = "client" /\ (failed => Faults)
  /\ request' = [request EXCEPT ![r].pc =
       IF Answer(request[r].key, ClientKeys, failed) THEN "good" ELSE "bad"]
  /\ Blame(request[r].key, failed)
  /\ UNCHANGED <<now, valid, cache, decision, wasGood>>

(* The answer is cached and given. *)
Resolve(r) ==
  /\ request[r].pc \in {"good", "bad"}
  /\ LET k  == request[r].key
         ok == request[r].pc = "good"
     IN /\ cache' = [c \in DOMAIN cache \cup {k} |->
                       IF c = k THEN [ok |-> ok, expires |-> now + TTL] ELSE cache[c]]
        /\ Decide(k, ok)
  /\ request' = [request EXCEPT ![r] = Free]
  /\ UNCHANGED <<now, valid, wasGood, wasBad>>

Next == \/ Tick
        \/ \E k \in Keys : Revoke(k)
        \/ \E k \in Keys : Issue(k)
        \/ \E r \in Requests, k \in Keys : Arrive(r, k)
        \/ \E r \in Requests, failed \in BOOLEAN : QueryTenants(r, failed)
        \/ \E r \in Requests, failed \in BOOLEAN : QueryClients(r, failed)
        \/ \E r \in Requests : Resolve(r)

Spec == Init /\ [][Next]_accessVars

------------------------------------------------------------------------------

TypeOK ==
  /\ now \in Ticks
  /\ valid \subseteq Keys
  /\ DOMAIN cache \subseteq Keys
  /\ \A k \in DOMAIN cache : cache[k].ok \in BOOLEAN /\ cache[k].expires \in Nat
  /\ request \in [Requests -> {Free} \cup
       [pc : {"tenant", "client", "good", "bad"}, key : Keys, since : Ticks]]
  /\ decision \in {NoDecision} \cup [key : Keys, ok : BOOLEAN, at : Ticks]
  /\ wasGood \in [Keys -> 0..Never] /\ wasBad \in [Keys -> 0..Never]

(* A key is let in only if the tables accepted it at most a lookup and a   *)
(* TTL ago, and turned away only if within the same time they did not, or  *)
(* a query for it failed: a revocation and a new key both take effect that *)
(* soon although nothing invalidates the cache and an old lookup may       *)
(* overwrite the answer of a younger one.                                  *)
Recent(t) == t # Never /\ now <= t + MaxLookup + TTL

DecisionIsRecent ==
  \A k \in Keys :
    decision' # decision /\ decision'.key = k =>
      Recent(IF decision'.ok THEN wasGood[k] ELSE wasBad[k])

DecisionsAreRecent == [][DecisionIsRecent]_accessVars

==============================================================================
