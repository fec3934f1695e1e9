------------------------------- MODULE DoorsProofs -------------------------------
(***************************************************************************)
(* Proofs about the ways in (Doors): the keys of the MCP server and its    *)
(* rate limit, the portal, the panel and the forms.  The setting of each   *)
(* is its named assumption.                                                *)
(***************************************************************************)
EXTENDS Doors, DataLemmas


------------------------------------------------------------------------------

(* The keys of the MCP server. *)

\* The ghosts know the present, and nothing of the future: a key is
\* acceptable now or unacceptable now.
GhostsKnow(w) == \A k \in Access(w)!Keys : /\ k \in valid => wasGood[k] = now
                                           /\ k \notin valid => wasBad[k] = now
                                           /\ wasGood[k] # Access(w)!Never => wasGood[k] <= now
                                           /\ wasBad[k] # Access(w)!Never => wasBad[k] <= now

\* The moment t has been, at or after the start s of a lookup.
Since(w, s, t) == t # Access(w)!Never /\ s <= t

\* What a lookup has found was true, or a query for it failed, at a moment
\* after it began.  Once the second query is asked, the first has refused a
\* tenant's key.
Found(w, q) == /\ q.pc = "good" => Since(w, q.since, wasGood[q.key])
               /\ q.pc = "bad" => Since(w, q.since, wasBad[q.key])
               /\ q.pc = "client" /\ q.key \in w.tenants => Since(w, q.since, wasBad[q.key])

InTime(q) == q.since <= now /\ now <= q.since + MaxLookup

Lookups(w) == \A r \in Requests : Access(w)!Busy(r) => InTime(request[r]) /\ Found(w, request[r])

\* A cached answer was true, or a query failed, so shortly before it was
\* cached that it is recent until it expires.
CacheTrue(w) ==
  \A k \in DOMAIN cache :
    LET t == IF cache[k].ok THEN wasGood[k] ELSE wasBad[k] IN
    t # Access(w)!Never /\ cache[k].expires <= t + MaxLookup + TTL

AccessInv(w) == Access(w)!TypeOK /\ GhostsKnow(w) /\ Lookups(w) /\ CacheTrue(w)

InFlight(w) == [pc : {"tenant", "client", "good", "bad"}, key : Access(w)!Keys, since : Access(w)!Ticks]

\* A request under way has a key and the moment it began.
LEMMA BusyType ==
  ASSUME NEW w, Access(w)!TypeOK, NEW r \in Requests
  PROVE  Access(w)!Busy(r) <=> request[r] \in InFlight(w)
  BY DEF Access!TypeOK, Access!Busy, Access!Free, InFlight

\* No moment that has come is Never.
LEMMA PresentIsNotNever ==
  ASSUME NEW w, now \in Access(w)!Ticks
  PROVE  now \in Nat /\ now # Access(w)!Never /\ now \in 0..Access(w)!Never
  BY AccessAssumption DEF Access!Ticks, Access!Never

\* The ghosts move forward only.
Later(w, t, u) == t # Access(w)!Never => u # Access(w)!Never /\ t <= u
GhostsMoveOn(w) == /\ wasGood' \in [Access(w)!Keys -> 0..Access(w)!Never] /\ wasBad' \in [Access(w)!Keys -> 0..Access(w)!Never]
                   /\ \A k \in Access(w)!Keys : Later(w, wasGood[k], wasGood'[k])
                   /\ \A k \in Access(w)!Keys : Later(w, wasBad[k], wasBad'[k])

LEMMA FoundStays ==
  ASSUME NEW w, Access(w)!TypeOK, GhostsMoveOn(w)
  PROVE  \A q \in InFlight(w) : Found(w, q) => Found(w, q)'
<1> SUFFICES ASSUME NEW q \in InFlight(w), Found(w, q) PROVE Found(w, q)'
  OBVIOUS
<1>1. /\ q.key \in Access(w)!Keys /\ q.since \in Nat
      /\ wasGood[q.key] \in Nat /\ wasGood'[q.key] \in Nat
      /\ wasBad[q.key] \in Nat /\ wasBad'[q.key] \in Nat
  BY AccessAssumption DEF InFlight, Access!Ticks, Access!TypeOK, GhostsMoveOn, Access!Never
<1>2. /\ Later(w, wasGood[q.key], wasGood'[q.key])
      /\ Later(w, wasBad[q.key], wasBad'[q.key])
  BY <1>1 DEF GhostsMoveOn
<1>3. QED
  BY <1>1, <1>2 DEF Found, Since, Later

LEMMA CacheStays ==
  ASSUME NEW w, Access(w)!TypeOK, GhostsMoveOn(w), CacheTrue(w), UNCHANGED cache
  PROVE  CacheTrue(w)'
<1> SUFFICES ASSUME NEW k \in DOMAIN cache
             PROVE  LET t == IF cache[k].ok THEN wasGood'[k] ELSE wasBad'[k] IN
                    t # Access(w)!Never /\ cache[k].expires <= t + MaxLookup + TTL
  BY DEF CacheTrue
<1>1. /\ k \in Access(w)!Keys /\ cache[k].expires \in Nat
      /\ wasGood[k] \in Nat /\ wasGood'[k] \in Nat
      /\ wasBad[k] \in Nat /\ wasBad'[k] \in Nat
  BY AccessAssumption DEF Access!TypeOK, GhostsMoveOn, Access!Never
<1>2. Later(w, wasGood[k], wasGood'[k]) /\ Later(w, wasBad[k], wasBad'[k])
  BY <1>1 DEF GhostsMoveOn
<1>3. QED
  BY <1>1, <1>2, AccessAssumption DEF CacheTrue, Later

\* One lookup goes on with what it has found; the others stay.
LEMMA OneGoesOn ==
  ASSUME NEW w, AccessInv(w), GhostsMoveOn(w), UNCHANGED now, NEW r \in Requests,
         NEW q, request' = [request EXCEPT ![r] = q],
         q = Access(w)!Free \/ (q \in InFlight(w) /\ InTime(q) /\ Found(w, q)')
  PROVE  /\ request' \in [Requests -> {Access(w)!Free} \cup InFlight(w)]
         /\ Lookups(w)'
<1>1. request' \in [Requests -> {Access(w)!Free} \cup InFlight(w)]
  BY DEF AccessInv, Access!TypeOK, InFlight
<1>2. ASSUME NEW s \in Requests, request'[s].pc # "free"
      PROVE  \E p \in InFlight(w) : request'[s] = p /\ InTime(p) /\ Found(w, p)'
  <2>1. CASE s = r
    BY <1>2, <2>1 DEF AccessInv, Access!TypeOK, Access!Free
  <2>2. CASE s # r
    <3>1. request'[s] = request[s] /\ Access(w)!Busy(s)
      BY <1>2, <2>2 DEF AccessInv, Access!TypeOK, Access!Busy
    <3>2. request[s] \in InFlight(w) /\ InTime(request[s]) /\ Found(w, request[s])
      BY <3>1, BusyType DEF AccessInv, Lookups
    <3>3. PICK p \in InFlight(w) : p = request[s]
      BY <3>2
    <3>4. Found(w, p)'
      BY <3>2, <3>3, FoundStays DEF AccessInv
    <3>5. QED
      BY <3>1, <3>2, <3>3, <3>4
  <2>3. QED
    BY <2>1, <2>2
<1>3. Lookups(w)'
  BY <1>2 DEF Lookups, Access!Busy, InTime, Found
<1>4. QED
  BY <1>1, <1>3

\* Where only the ghosts move, lookups and cache are as before.
LEMMA NobodyGoesOn ==
  ASSUME NEW w, AccessInv(w), GhostsMoveOn(w), UNCHANGED <<request, cache>>,
         \A r \in Requests : Access(w)!Busy(r) => InTime(request[r])'
  PROVE  Lookups(w)' /\ CacheTrue(w)'
<1>1. ASSUME NEW r \in Requests, Access(w)!Busy(r)
      PROVE  InTime(request[r])' /\ Found(w, request[r])'
  <2>1. request[r] \in InFlight(w) /\ Found(w, request[r])
    BY <1>1, BusyType DEF AccessInv, Lookups
  <2>2. PICK p \in InFlight(w) : p = request[r]
    BY <2>1
  <2>3. Found(w, p)'
    BY <2>1, <2>2, FoundStays DEF AccessInv
  <2>4. QED
    BY <1>1, <2>2, <2>3 DEF Found
<1>2. Lookups(w)'
  BY <1>1 DEF Lookups, Access!Busy
<1>3. QED
  BY <1>2, CacheStays DEF AccessInv

\* The ghosts stay, or one of them comes to the present for a key.
LEMMA GhostsStay ==
  ASSUME NEW w, AccessInv(w), UNCHANGED <<wasGood, wasBad>>
  PROVE  GhostsMoveOn(w)
  BY AccessAssumption DEF AccessInv, Access!TypeOK, GhostsMoveOn, Later, Access!Never

LEMMA BadNow ==
  ASSUME NEW w, AccessInv(w), NEW k \in Access(w)!Keys,
         UNCHANGED wasGood, wasBad' = [wasBad EXCEPT ![k] = now]
  PROVE  GhostsMoveOn(w) /\ wasBad'[k] = now
<1>1. now \in Nat /\ now # Access(w)!Never /\ now \in 0..Access(w)!Never
  BY PresentIsNotNever DEF AccessInv, Access!TypeOK
<1>2. \A j \in Access(w)!Keys : /\ wasBad[j] \in Nat /\ wasGood[j] \in Nat
                                /\ wasBad[j] # Access(w)!Never => wasBad[j] <= now
  BY AccessAssumption DEF AccessInv, Access!TypeOK, GhostsKnow, Access!Never
<1>3. QED
  BY <1>1, <1>2 DEF AccessInv, Access!TypeOK, GhostsMoveOn, Later

LEMMA GoodNow ==
  ASSUME NEW w, AccessInv(w), NEW k \in Access(w)!Keys,
         UNCHANGED wasBad, wasGood' = [wasGood EXCEPT ![k] = now]
  PROVE  GhostsMoveOn(w) /\ wasGood'[k] = now
<1>1. now \in Nat /\ now # Access(w)!Never /\ now \in 0..Access(w)!Never
  BY PresentIsNotNever DEF AccessInv, Access!TypeOK
<1>2. \A j \in Access(w)!Keys : /\ wasBad[j] \in Nat /\ wasGood[j] \in Nat
                                /\ wasGood[j] # Access(w)!Never => wasGood[j] <= now
  BY AccessAssumption DEF AccessInv, Access!TypeOK, GhostsKnow, Access!Never
<1>3. QED
  BY <1>1, <1>2 DEF AccessInv, Access!TypeOK, GhostsMoveOn, Later

LEMMA InitAccess == ASSUME NEW w PROVE Access(w)!Init => AccessInv(w)
<1> SUFFICES ASSUME Access(w)!Init PROVE AccessInv(w)
  OBVIOUS
<1>1. 0 \in 0..Access(w)!Never /\ Access(w)!Never \in 0..Access(w)!Never /\ 0 \in Access(w)!Ticks
  BY AccessAssumption DEF Access!Never, Access!Ticks
<1>2. Access(w)!TypeOK
  <2>1. request \in [Requests -> {Access(w)!Free}]
    BY DEF Access!Init
  <2>2. wasGood \in [Access(w)!Keys -> 0..Access(w)!Never] /\ wasBad \in [Access(w)!Keys -> 0..Access(w)!Never]
    BY <1>1 DEF Access!Init
  <2>3. QED
    BY <1>1, <2>1, <2>2 DEF Access!Init, Access!TypeOK
<1>3. GhostsKnow(w)
  BY DEF Access!Init, GhostsKnow
<1>4. Lookups(w) /\ CacheTrue(w)
  BY DEF Access!Init, Lookups, CacheTrue, Access!Busy, Access!Free
<1>5. QED
  BY <1>2, <1>3, <1>4 DEF AccessInv

\* A lookup at its limit keeps the clock.
LEMMA TickAccess == ASSUME NEW w, AccessInv(w), Access(w)!Tick PROVE AccessInv(w)'
<1>1. /\ now \in Nat /\ now' = now + 1 /\ now' \in Access(w)!Ticks
      /\ UNCHANGED <<valid, cache, request, decision>>
  BY AccessAssumption DEF Access!Tick, AccessInv, Access!TypeOK, Access!Ticks
<1>2. now' \in Nat /\ now' # Access(w)!Never /\ now' \in 0..Access(w)!Never
  BY <1>1, AccessAssumption DEF Access!Ticks, Access!Never
<1>3. \A k \in Access(w)!Keys : /\ wasGood[k] \in Nat /\ wasBad[k] \in Nat
                                /\ wasGood'[k] = IF k \in valid THEN now' ELSE wasGood[k]
                                /\ wasBad'[k] = IF k \in valid THEN wasBad[k] ELSE now'
                                /\ wasGood[k] # Access(w)!Never => wasGood[k] <= now
                                /\ wasBad[k] # Access(w)!Never => wasBad[k] <= now
  BY <1>1, AccessAssumption DEF Access!Tick, AccessInv, Access!TypeOK, GhostsKnow, Access!Never
<1>4. wasGood' \in [Access(w)!Keys -> 0..Access(w)!Never] /\ wasBad' \in [Access(w)!Keys -> 0..Access(w)!Never]
  BY <1>1, <1>2 DEF Access!Tick, AccessInv, Access!TypeOK
<1>5. GhostsMoveOn(w)
  BY <1>1, <1>2, <1>3, <1>4 DEF GhostsMoveOn, Later
<1>6. Access(w)!TypeOK'
  BY <1>1, <1>4 DEF AccessInv, Access!TypeOK
<1>7. GhostsKnow(w)'
  BY <1>1, <1>2, <1>3 DEF GhostsKnow
<1>8. ASSUME NEW r \in Requests, Access(w)!Busy(r)
      PROVE  InTime(request[r])'
  <2>1. request[r].since \in Nat /\ now - request[r].since < MaxLookup
    BY <1>8, BusyType DEF Access!Tick, AccessInv, InFlight, Access!Ticks
  <2>2. request[r].since <= now
    BY <1>8 DEF AccessInv, Lookups, InTime
  <2>3. QED
    BY <1>1, <2>1, <2>2, AccessAssumption DEF InTime
<1>9. QED
  BY <1>1, <1>5, <1>6, <1>7, <1>8, NobodyGoesOn DEF AccessInv

\* Without the clock a request that is not touched stays in time.
LEMMA StillInTime ==
  ASSUME NEW w, AccessInv(w), UNCHANGED <<now, request>>
  PROVE  \A r \in Requests : Access(w)!Busy(r) => InTime(request[r])'
  BY DEF AccessInv, Lookups, InTime

LEMMA TablesAccess ==
  ASSUME NEW w, AccessInv(w), NEW k \in Access(w)!Keys, Access(w)!Revoke(k) \/ Access(w)!Issue(k)
  PROVE  AccessInv(w)'
<1>1. GhostsMoveOn(w) /\ UNCHANGED <<now, cache, request, decision>>
  BY BadNow, GoodNow DEF Access!Revoke, Access!Issue
<1>2. Access(w)!TypeOK'
  BY <1>1 DEF AccessInv, Access!TypeOK, GhostsMoveOn, Access!Revoke, Access!Issue
<1>3. GhostsKnow(w)'
  <2>1. now \in Nat
    BY PresentIsNotNever DEF AccessInv, Access!TypeOK
  <2>2. CASE Access(w)!Revoke(k)
    BY <2>1, <2>2 DEF Access!Revoke, AccessInv, Access!TypeOK, GhostsKnow
  <2>3. CASE Access(w)!Issue(k)
    BY <2>1, <2>3 DEF Access!Issue, AccessInv, Access!TypeOK, GhostsKnow
  <2>4. QED
    BY <2>2, <2>3
<1>4. QED
  BY <1>1, <1>2, <1>3, StillInTime, NobodyGoesOn DEF AccessInv

\* A decision is about a key, at the present.
LEMMA DecisionType ==
  ASSUME NEW w, AccessInv(w), NEW k \in Access(w)!Keys, NEW ok \in BOOLEAN, Access(w)!Decide(k, ok)
  PROVE  decision' \in {Access(w)!NoDecision} \cup [key : Access(w)!Keys, ok : BOOLEAN, at : Access(w)!Ticks]
  BY DEF AccessInv, Access!TypeOK, Access!Decide

LEMMA ArriveAccess ==
  ASSUME NEW w, AccessInv(w), NEW r \in Requests, NEW k \in Access(w)!Keys, Access(w)!Arrive(r, k)
  PROVE  AccessInv(w)'
<1>1. GhostsMoveOn(w) /\ UNCHANGED <<now, valid, cache, wasGood, wasBad>>
  BY GhostsStay DEF Access!Arrive
<1>2. GhostsKnow(w)'
  BY <1>1 DEF AccessInv, GhostsKnow
<1>3. CASE Access(w)!Hit(k)
  <2>1. UNCHANGED request /\ Access(w)!Decide(k, cache[k].ok) /\ cache[k].ok \in BOOLEAN
    BY <1>3 DEF Access!Arrive, Access!Hit, AccessInv, Access!TypeOK
  <2>2. Access(w)!TypeOK'
    BY <1>1, <2>1, DecisionType DEF AccessInv, Access!TypeOK
  <2>3. QED
    BY <1>1, <1>2, <2>1, <2>2, StillInTime, NobodyGoesOn DEF AccessInv
<1>4. CASE ~Access(w)!Hit(k)
  <2>1. PICK q : q = [pc |-> "tenant", key |-> k, since |-> now]
    OBVIOUS
  <2>2. now \in Nat /\ now \in Access(w)!Ticks
    BY PresentIsNotNever DEF AccessInv, Access!TypeOK
  <2>3. q \in InFlight(w) /\ InTime(q) /\ Found(w, q)'
    BY <2>1, <2>2, AccessAssumption DEF InFlight, InTime, Found
  <2>4. request' = [request EXCEPT ![r] = q] /\ UNCHANGED decision
    BY <1>4, <2>1 DEF Access!Arrive
  <2>5. request' \in [Requests -> {Access(w)!Free} \cup InFlight(w)] /\ Lookups(w)'
    BY <1>1, <2>3, <2>4, OneGoesOn
  <2>6. Access(w)!TypeOK'
    BY <1>1, <2>4, <2>5 DEF AccessInv, Access!TypeOK, InFlight
  <2>7. QED
    BY <1>1, <1>2, <2>5, <2>6, CacheStays DEF AccessInv
<1>5. QED
  BY <1>3, <1>4

\* A failing query counts as a moment at which the key was not acceptable.
LEMMA Blamed ==
  ASSUME NEW w, AccessInv(w), NEW k \in Access(w)!Keys, NEW failed \in BOOLEAN,
         UNCHANGED <<now, valid, wasGood>>, Access(w)!Blame(k, failed)
  PROVE  /\ GhostsMoveOn(w) /\ GhostsKnow(w)'
         /\ failed => wasBad'[k] = now
         /\ k \notin valid => wasBad'[k] = now
<1>1. now \in Nat
  BY PresentIsNotNever DEF AccessInv, Access!TypeOK
<1>2. CASE failed
  <2>1. wasBad' = [wasBad EXCEPT ![k] = now]
    BY <1>2 DEF Access!Blame
  <2>2. GhostsMoveOn(w) /\ wasBad'[k] = now
    BY <2>1, BadNow
  <2>3. GhostsKnow(w)'
    BY <1>1, <2>1 DEF AccessInv, Access!TypeOK, GhostsKnow
  <2>4. QED
    BY <2>2, <2>3
<1>3. CASE ~failed
  <2>1. UNCHANGED wasBad
    BY <1>3 DEF Access!Blame
  <2>2. QED
    BY <1>3, <2>1, GhostsStay DEF AccessInv, GhostsKnow
<1>4. QED
  BY <1>2, <1>3

\* The first query lets a tenant's key in, or refuses it, or says nothing.
LEMMA TenantsAccess ==
  ASSUME NEW w, AccessInv(w), NEW r \in Requests, NEW failed \in BOOLEAN,
         Access(w)!QueryTenants(r, failed)
  PROVE  AccessInv(w)'
<1> DEFINE pc == IF Access(w)!Answer(request[r].key, w.tenants, failed) THEN "good" ELSE "client"
<1>1. PICK p \in InFlight(w) : p = request[r] /\ InTime(p)
  BY BusyType DEF Access!QueryTenants, AccessInv, Access!Busy, Lookups
<1>2. /\ p.key \in Access(w)!Keys /\ p.since \in Nat /\ p.since <= now /\ now # Access(w)!Never
      /\ now \in Nat
  BY <1>1, PresentIsNotNever DEF InFlight, Access!Ticks, InTime, AccessInv, Access!TypeOK
<1>3. PICK q \in InFlight(w) : /\ q = [p EXCEPT !.pc = pc] /\ q.pc = pc
                               /\ q.key = p.key /\ q.since = p.since
  <2>1. pc \in {"good", "client", "bad"}
    OBVIOUS
  <2> HIDE DEF pc
  <2>2. /\ [p EXCEPT !.pc = pc] \in InFlight(w)
        /\ [p EXCEPT !.pc = pc].pc = pc
        /\ [p EXCEPT !.pc = pc].key = p.key
        /\ [p EXCEPT !.pc = pc].since = p.since
    BY <2>1 DEF InFlight
  <2>3. QED
    BY <2>2
<1>4. /\ request' = [request EXCEPT ![r] = q]
      /\ Access(w)!Blame(p.key, failed) /\ UNCHANGED <<now, valid, cache, decision, wasGood>>
  BY <1>1, <1>3 DEF Access!QueryTenants
<1>5. /\ GhostsMoveOn(w) /\ GhostsKnow(w)'
      /\ failed => wasBad'[p.key] = now
      /\ p.key \notin valid => wasBad'[p.key] = now
  BY <1>2, <1>4, Blamed
<1>6. Found(w, q)'
  <2>1. CASE Access(w)!Answer(p.key, w.tenants, failed)
    <3>1. q.pc = "good" /\ wasGood'[p.key] = now
      BY <1>1, <1>2, <1>3, <1>4, <2>1 DEF Access!Answer, AccessInv, GhostsKnow
    <3>2. QED
      BY <1>2, <1>3, <3>1 DEF Found, Since
  <2>2. CASE ~ Access(w)!Answer(p.key, w.tenants, failed)
    <3>1. q.pc = "client" /\ (p.key \in w.tenants => wasBad'[p.key] = now)
      BY <1>1, <1>3, <1>5, <2>2 DEF Access!Answer
    <3>2. QED
      BY <1>2, <1>3, <3>1 DEF Found, Since
  <2>3. QED
    BY <2>1, <2>2
<1>7. InTime(q)
  BY <1>1, <1>3 DEF InTime
<1>8. request' \in [Requests -> {Access(w)!Free} \cup InFlight(w)] /\ Lookups(w)'
  BY <1>4, <1>5, <1>6, <1>7, OneGoesOn
<1>9. Access(w)!TypeOK'
  BY <1>4, <1>5, <1>8 DEF AccessInv, Access!TypeOK, InFlight, GhostsMoveOn
<1>10. QED
  BY <1>4, <1>5, <1>8, <1>9, CacheStays DEF AccessInv

\* The second query lets a client's key in or refuses it; a tenant's key has
\* been refused by the first.
LEMMA ClientsAccess ==
  ASSUME NEW w, AccessInv(w), NEW r \in Requests, NEW failed \in BOOLEAN,
         Access(w)!QueryClients(r, failed)
  PROVE  AccessInv(w)'
<1> DEFINE pc == IF Access(w)!Answer(request[r].key, w.clients, failed) THEN "good" ELSE "bad"
<1>1. PICK p \in InFlight(w) : p = request[r] /\ p.pc = "client" /\ InTime(p) /\ Found(w, p)
  BY BusyType DEF Access!QueryClients, AccessInv, Access!Busy, Lookups
<1>2. /\ p.key \in Access(w)!Keys /\ p.since \in Nat /\ p.since <= now /\ now # Access(w)!Never
      /\ now \in Nat
  BY <1>1, PresentIsNotNever DEF InFlight, Access!Ticks, InTime, AccessInv, Access!TypeOK
<1>3. PICK q \in InFlight(w) : /\ q = [p EXCEPT !.pc = pc] /\ q.pc = pc
                               /\ q.key = p.key /\ q.since = p.since
  <2>1. pc \in {"good", "client", "bad"}
    OBVIOUS
  <2> HIDE DEF pc
  <2>2. /\ [p EXCEPT !.pc = pc] \in InFlight(w)
        /\ [p EXCEPT !.pc = pc].pc = pc
        /\ [p EXCEPT !.pc = pc].key = p.key
        /\ [p EXCEPT !.pc = pc].since = p.since
    BY <2>1 DEF InFlight
  <2>3. QED
    BY <2>2
<1>4. /\ request' = [request EXCEPT ![r] = q]
      /\ Access(w)!Blame(p.key, failed) /\ UNCHANGED <<now, valid, cache, decision, wasGood>>
  BY <1>1, <1>3 DEF Access!QueryClients
<1>5. /\ GhostsMoveOn(w) /\ GhostsKnow(w)'
      /\ failed => wasBad'[p.key] = now
      /\ p.key \notin valid => wasBad'[p.key] = now
  BY <1>2, <1>4, Blamed
<1>6. Found(w, q)'
  <2>1. CASE Access(w)!Answer(p.key, w.clients, failed)
    <3>1. q.pc = "good" /\ wasGood'[p.key] = now
      BY <1>1, <1>2, <1>3, <1>4, <2>1 DEF Access!Answer, AccessInv, GhostsKnow
    <3>2. QED
      BY <1>2, <1>3, <3>1 DEF Found, Since
  <2>2. CASE ~ Access(w)!Answer(p.key, w.clients, failed)
    <3>1. q.pc = "bad" /\ (p.key \notin w.tenants => wasBad'[p.key] = now)
      BY <1>1, <1>2, <1>3, <1>5, <2>2 DEF Access!Answer, Access!Keys
    <3>2. p.key \in w.tenants => Since(w, p.since, wasBad'[p.key])
      <4>1. Found(w, p)'
        BY <1>1, <1>5, FoundStays DEF AccessInv
      <4>2. QED
        BY <1>1, <4>1 DEF Found
    <3>3. QED
      BY <1>2, <1>3, <3>1, <3>2 DEF Found, Since
  <2>3. QED
    BY <2>1, <2>2
<1>7. InTime(q)
  BY <1>1, <1>3 DEF InTime
<1>8. request' \in [Requests -> {Access(w)!Free} \cup InFlight(w)] /\ Lookups(w)'
  BY <1>4, <1>5, <1>6, <1>7, OneGoesOn
<1>9. Access(w)!TypeOK'
  BY <1>4, <1>5, <1>8 DEF AccessInv, Access!TypeOK, InFlight, GhostsMoveOn
<1>10. QED
  BY <1>4, <1>5, <1>8, <1>9, CacheStays DEF AccessInv

\* The moment on which a lookup is resolved lies at most a lookup back.
LEMMA ResolvedRecently ==
  ASSUME NEW w, AccessInv(w), NEW r \in Requests, request[r].pc \in {"good", "bad"}
  PROVE  LET k == request[r].key
             t == IF request[r].pc = "good" THEN wasGood[k] ELSE wasBad[k]
         IN k \in Access(w)!Keys /\ t \in Nat /\ t # Access(w)!Never /\ now <= t + MaxLookup
<1>1. request[r] \in InFlight(w) /\ InTime(request[r]) /\ Found(w, request[r])
  BY BusyType DEF AccessInv, Access!Busy, Lookups
<1>2. /\ request[r].key \in Access(w)!Keys /\ request[r].since \in Nat /\ now \in Nat
  BY <1>1, PresentIsNotNever DEF InFlight, Access!Ticks, AccessInv, Access!TypeOK
<1>3. wasGood[request[r].key] \in Nat /\ wasBad[request[r].key] \in Nat
  BY <1>2, AccessAssumption DEF AccessInv, Access!TypeOK, Access!Never
<1>4. QED
  BY <1>1, <1>2, <1>3, AccessAssumption DEF InTime, Found, Since

LEMMA ResolveAccess ==
  ASSUME NEW w, AccessInv(w), NEW r \in Requests, Access(w)!Resolve(r)
  PROVE  AccessInv(w)'
<1>1. PICK k, ok : k = request[r].key /\ ok = (request[r].pc = "good")
  OBVIOUS
<1>2. /\ ok \in BOOLEAN /\ k \in Access(w)!Keys /\ now \in Nat
      /\ LET t == IF ok THEN wasGood[k] ELSE wasBad[k]
         IN t \in Nat /\ t # Access(w)!Never /\ now <= t + MaxLookup
  BY <1>1, ResolvedRecently, PresentIsNotNever DEF Access!Resolve, AccessInv, Access!TypeOK
<1>3. PICK answer : answer = [ok |-> ok, expires |-> now + TTL]
  OBVIOUS
<1>4. /\ cache' = [c \in DOMAIN cache \cup {k} |-> IF c = k THEN answer ELSE cache[c]]
      /\ Access(w)!Decide(k, ok)
      /\ request' = [request EXCEPT ![r] = Access(w)!Free]
      /\ UNCHANGED <<now, valid, wasGood, wasBad>>
  BY <1>1, <1>3 DEF Access!Resolve
<1>5. /\ answer.ok = ok /\ answer.expires = now + TTL /\ answer.expires \in Nat
  BY <1>2, <1>3, AccessAssumption <1>6. GhostsMoveOn(w) /\ GhostsKnow(w)'
  BY <1>4, GhostsStay DEF AccessInv, GhostsKnow
<1>7. request' \in [Requests -> {Access(w)!Free} \cup InFlight(w)] /\ Lookups(w)'
  BY <1>4, <1>6, OneGoesOn
<1>8. Access(w)!TypeOK'
  BY <1>2, <1>4, <1>5, <1>7, DecisionType DEF AccessInv, Access!TypeOK, InFlight
<1>9. CacheTrue(w)'
  <2>1. ASSUME NEW c \in DOMAIN cache'
        PROVE  LET t == IF cache'[c].ok THEN wasGood[c] ELSE wasBad[c] IN
               t # Access(w)!Never /\ cache'[c].expires <= t + MaxLookup + TTL
    <3>1. CASE c = k
      BY <3>1, <1>2, <1>4, <1>5, AccessAssumption <3>2. CASE c # k
      BY <3>2, <1>4 DEF AccessInv, CacheTrue
    <3>3. QED
      BY <3>1, <3>2
  <2>2. QED
    BY <1>4, <2>1 DEF CacheTrue
<1>10. QED
  BY <1>6, <1>7, <1>8, <1>9 DEF AccessInv

LEMMA InductiveAccess == ASSUME NEW w PROVE AccessInv(w) /\ [Access(w)!Next]_(Access(w)!accessVars) => AccessInv(w)'
<1> SUFFICES ASSUME AccessInv(w), [Access(w)!Next]_(Access(w)!accessVars) PROVE AccessInv(w)'
  OBVIOUS
<1>1. CASE Access(w)!Tick
  BY <1>1, TickAccess
<1>2. CASE \E k \in Access(w)!Keys : Access(w)!Revoke(k) \/ Access(w)!Issue(k)
  BY <1>2, TablesAccess
<1>3. CASE \E r \in Requests, k \in Access(w)!Keys : Access(w)!Arrive(r, k)
  BY <1>3, ArriveAccess
<1>4. CASE \E r \in Requests, failed \in BOOLEAN : Access(w)!QueryTenants(r, failed)
  BY <1>4, TenantsAccess
<1>5. CASE \E r \in Requests, failed \in BOOLEAN : Access(w)!QueryClients(r, failed)
  BY <1>5, ClientsAccess
<1>6. CASE \E r \in Requests : Access(w)!Resolve(r)
  BY <1>6, ResolveAccess
<1>7. CASE UNCHANGED Access(w)!accessVars
  <2>1. UNCHANGED <<now, valid, cache, request, decision, wasGood, wasBad>>
    BY <1>7 DEF Access!accessVars
  <2>2. Access(w)!TypeOK' /\ GhostsKnow(w)'
    BY <2>1 DEF AccessInv, Access!TypeOK, GhostsKnow
  <2>3. QED
    BY <2>1, <2>2, GhostsStay, StillInTime, NobodyGoesOn DEF AccessInv
<1>8. QED
  BY <1>1, <1>2, <1>3, <1>4, <1>5, <1>6, <1>7 DEF Access!Next

\* A cached answer is used until it expires.
LEMMA HitIsRecent ==
  ASSUME NEW w, AccessInv(w), NEW k \in Access(w)!Keys, Access(w)!Hit(k)
  PROVE  Access(w)!Recent(IF cache[k].ok THEN wasGood[k] ELSE wasBad[k])
<1>1. /\ k \in DOMAIN cache /\ now <= cache[k].expires
      /\ cache[k].expires \in Nat /\ now \in Nat
  BY PresentIsNotNever DEF Access!Hit, AccessInv, Access!TypeOK
<1>2. wasGood[k] \in Nat /\ wasBad[k] \in Nat
  BY AccessAssumption DEF AccessInv, Access!TypeOK, Access!Never
<1>3. QED
  BY <1>1, <1>2, AccessAssumption DEF AccessInv, CacheTrue, Access!Recent

\* The two steps that decide do so on something recent.
LEMMA StepIsRecent ==
  ASSUME NEW w PROVE AccessInv(w) /\ [Access(w)!Next]_(Access(w)!accessVars) => [Access(w)!DecisionIsRecent]_(Access(w)!accessVars)
<1> SUFFICES ASSUME AccessInv(w), [Access(w)!Next]_(Access(w)!accessVars),
                    NEW k \in Access(w)!Keys, decision' # decision, decision'.key = k
             PROVE  Access(w)!Recent(IF decision'.ok THEN wasGood[k] ELSE wasBad[k])
  BY DEF Access!DecisionIsRecent
<1>1. CASE \E r \in Requests, j \in Access(w)!Keys : Access(w)!Arrive(r, j)
  <2>1. PICK j \in Access(w)!Keys : Access(w)!Hit(j) /\ Access(w)!Decide(j, cache[j].ok)
    BY <1>1 DEF Access!Arrive
  <2>2. decision'.key = j /\ decision'.ok = cache[j].ok
    BY <2>1 DEF Access!Decide
  <2>3. QED
    BY <2>1, <2>2, HitIsRecent
<1>2. CASE \E r \in Requests : Access(w)!Resolve(r)
  <2>1. PICK r \in Requests : Access(w)!Resolve(r)
    BY <1>2
  <2>2. /\ decision'.key = request[r].key
        /\ decision'.ok = (request[r].pc = "good")
    BY <2>1 DEF Access!Resolve, Access!Decide
  <2>3. LET t == IF decision'.ok THEN wasGood[k] ELSE wasBad[k]
        IN t \in Nat /\ t # Access(w)!Never /\ now <= t + MaxLookup
    BY <2>1, <2>2, ResolvedRecently DEF Access!Resolve
  <2>4. now \in Nat
    BY PresentIsNotNever DEF AccessInv, Access!TypeOK
  <2>5. QED
    BY <2>3, <2>4, AccessAssumption DEF Access!Recent
<1>3. QED
  BY <1>1, <1>2 DEF Access!Next, Access!Tick, Access!Revoke, Access!Issue, Access!QueryTenants, Access!QueryClients, Access!accessVars

\* The cache, the requests under way and the ghosts keep their types
\* (keyCache of key_cache.go).
THEOREM AccessTypeCorrect == ASSUME NEW w PROVE Access(w)!Spec => []Access(w)!TypeOK
<1>1. AccessInv(w) => Access(w)!TypeOK
  BY DEF AccessInv
<1>2. QED
  BY InitAccess, InductiveAccess, <1>1, PTL DEF Access!Spec

\* A key is let in only if the tables accepted it at most a lookup and a TTL
\* ago, and turned away only if within that time they did not or a query for
\* it failed, whatever lookups overlap with whatever changes of the tables.
THEOREM AccessAnswersAreRecent == ASSUME NEW w PROVE Access(w)!Spec => Access(w)!DecisionsAreRecent
  BY InitAccess, InductiveAccess, StepIsRecent, PTL DEF Access!Spec, Access!DecisionsAreRecent

------------------------------------------------------------------------------

(* The rate limit. *)

\* The sum of a stretch of ticks is what its last tick has and the sum of the rest.
LEMMA SumUnfolds ==
  ASSUME NEW p \in [Limit!Ticks -> Nat], NEW from \in Limit!Ticks, NEW to \in Limit!Ticks
  PROVE  /\ Limit!Sum(p, from, to) \in Nat
         /\ Limit!Sum(p, from, to) =
              IF to < from THEN 0
              ELSE p[to] + (IF to = 0 THEN 0 ELSE Limit!Sum(p, from, to - 1))
<1> DEFINE Eq(f) == f = [t \in Limit!Ticks |-> IF t < from THEN 0
                           ELSE p[t] + (IF t = 0 THEN 0 ELSE f[t - 1])]
           sum == CHOOSE f : Eq(f)
           step == [i \in 1..RateTime |->
                      [n \in Nat |-> IF i < from THEN 0 ELSE p[i] + n]]
           first == IF 0 < from THEN 0 ELSE p[0]
<1>1. Limit!Ticks = 0..RateTime /\ RateTime \in Nat
  BY LimitAssumption DEF Limit!Ticks
<1>2. PICK f \in [0..RateTime -> Nat] : f[0] = first /\ \A i \in 1..RateTime : f[i] = step[i][f[i - 1]]
  <2>1. first \in Nat
    BY <1>1
  <2>2. step \in [1..RateTime -> [Nat -> Nat]]
    BY <1>1
  <2> HIDE DEF step, first
  <2>3. \E f : IsRecursive(f, RateTime, Nat, first, step)
    BY <1>1, <2>1, <2>2, Recursion
  <2>4. QED
    BY <2>3 DEF IsRecursive
<1>3. Eq(f)
  <2>1. ASSUME NEW t \in 0..RateTime
        PROVE  f[t] = IF t < from THEN 0 ELSE p[t] + (IF t = 0 THEN 0 ELSE f[t - 1])
    <3>1. CASE t = 0
      BY <1>2, <3>1
    <3>2. CASE t # 0
      <4>1. t \in 1..RateTime /\ t - 1 \in 0..RateTime /\ f[t - 1] \in Nat
        BY <1>1, <1>2, <3>2
      <4>2. f[t] = step[t][f[t - 1]]
        BY <1>2, <4>1
      <4>3. QED
        BY <3>2, <4>1, <4>2
    <3>3. QED
      BY <3>1, <3>2
  <2>2. QED
    BY <1>1, <1>2, <2>1
<1>4. Eq(sum)
  <2>1. \E g : Eq(g)
    BY <1>3
  <2> HIDE DEF Eq
  <2>2. QED
    BY <2>1
<1>5. \A t \in Limit!Ticks : Limit!Sum(p, from, t) = sum[t]
  BY DEF Limit!Sum
<1> HIDE DEF sum
<1>6. \A t \in 0..RateTime :
        sum[t] = IF t < from THEN 0 ELSE p[t] + (IF t = 0 THEN 0 ELSE sum[t - 1])
  BY <1>1, <1>4
<1>7. 0..RateTime \subseteq {t \in 0..RateTime : sum[t] \in Nat}
  <2> DEFINE S == {t \in 0..RateTime : sum[t] \in Nat}
  <2>1. 0 \in S
    BY <1>1, <1>6
  <2>2. ASSUME NEW n \in Nat, n < RateTime, n \in S
        PROVE  n + 1 \in S
    <3>1. n + 1 \in 0..RateTime /\ (n + 1) - 1 = n /\ n + 1 # 0
      BY <1>1, <2>2
    <3>2. sum[n + 1] = IF n + 1 < from THEN 0 ELSE p[n + 1] + sum[n]
      BY <1>6, <3>1
    <3>3. p[n + 1] \in Nat /\ sum[n] \in Nat
      BY <1>1, <2>2, <3>1
    <3>4. QED
      BY <3>1, <3>2, <3>3
  <2> HIDE DEF S
  <2>3. 0..RateTime \subseteq S
    BY <1>1, <2>1, <2>2, InductionTo
  <2>4. QED
    BY <2>3 DEF S
<1>8. to = 0 \/ to - 1 \in 0..RateTime
  BY <1>1
<1>9. QED
  BY <1>1, <1>5, <1>6, <1>7, <1>8

\* The sum looks at no tick beyond its end.
LEMMA SumLooksBack ==
  ASSUME NEW p \in [Limit!Ticks -> Nat], NEW q \in [Limit!Ticks -> Nat],
         NEW from \in Limit!Ticks, NEW to \in Limit!Ticks,
         \A t \in Limit!Ticks : t <= to => p[t] = q[t]
  PROVE  Limit!Sum(p, from, to) = Limit!Sum(q, from, to)
<1> DEFINE S == {t \in 0..to : Limit!Sum(p, from, t) = Limit!Sum(q, from, t)}
<1>1. Limit!Ticks = 0..RateTime /\ RateTime \in Nat /\ to \in Nat /\ 0..to \subseteq Limit!Ticks
  BY LimitAssumption DEF Limit!Ticks
<1> DEFINE Unfolds(f, t) == Limit!Sum(f, from, t) =
              IF t < from THEN 0 ELSE f[t] + (IF t = 0 THEN 0 ELSE Limit!Sum(f, from, t - 1))
<1>a. \A t \in Limit!Ticks : Unfolds(p, t) /\ Unfolds(q, t)
  BY SumUnfolds
<1>2. 0 \in S
  BY <1>1, <1>a
<1>3. ASSUME NEW n \in Nat, n < to, n \in S
      PROVE  n + 1 \in S
  <2>1. n + 1 \in 0..to /\ (n + 1) - 1 = n /\ n + 1 # 0
    BY <1>1, <1>3
  <2>2. Limit!Sum(p, from, n + 1) = IF n + 1 < from THEN 0 ELSE p[n + 1] + Limit!Sum(p, from, n)
    BY <1>1, <1>a, <2>1
  <2>3. Limit!Sum(q, from, n + 1) = IF n + 1 < from THEN 0 ELSE q[n + 1] + Limit!Sum(q, from, n)
    BY <1>1, <1>a, <2>1
  <2>4. p[n + 1] = q[n + 1]
    BY <1>1, <2>1
  <2>5. QED
    BY <1>3, <2>1, <2>2, <2>3, <2>4
<1> HIDE DEF S
<1>4. 0..to \subseteq S
  BY <1>1, <1>2, <1>3, InductionTo
<1>5. QED
  BY <1>1, <1>4 DEF S

\* A rate is never 0, and what accrues in one tick more is the rate.
LEMMA RateAccrues ==
  /\ Limit!rate \in Nat \ {0} /\ 0 * Limit!rate = 0 /\ Limit!rate * 1 = Limit!rate
  /\ \A n \in Nat : /\ (n + 1) * Limit!rate = n * Limit!rate + Limit!rate
                    /\ Limit!rate * (n + 1) = Limit!rate * n + Limit!rate
                    /\ n * Limit!rate \in Nat /\ Limit!rate * n \in Nat
<1>1. Limit!rate \in Nat \ {0}
  BY LimitAssumption DEF Limit!rate
<1> HIDE DEF Limit!rate
<1>2. ASSUME NEW r \in Nat, NEW n \in Nat
      PROVE  /\ (n + 1) * r = n * r + r /\ r * (n + 1) = r * n + r
             /\ n * r \in Nat /\ r * n \in Nat /\ 0 * r = 0 /\ r * 1 = r
  OBVIOUS
<1>3. QED
  BY <1>1, <1>2

(* What has passed since any tick, and what the bucket would hold now,     *)
(* come to no more than a full bucket and what the ticks since have added. *)
Accounted(a) ==
  \A from \in Limit!Ticks : from <= now =>
    Limit!Sum(passed[a], from, now) + Limit!Filled(Limit!Bucket(a)) <= Limit!rate * ((now - from) + 1)

LimitInv == /\ Limit!TypeOK
            /\ \A a \in DOMAIN bucket : bucket[a].last <= now
            /\ \A a \in Addresses, t \in Limit!Ticks : now < t => passed[a][t] = 0
            /\ \A a \in Addresses : Accounted(a)
            /\ Limit!RateIsBounded

LEMMA InitLimit ==
  ASSUME Limit!Init PROVE LimitInv
<1>1. Limit!Ticks = 0..RateTime /\ 0 \in Limit!Ticks /\ now = 0 /\ DOMAIN bucket = {}
  BY LimitAssumption DEF Limit!Ticks, Limit!Init
<1>2. Limit!rate \in Nat \ {0} /\ Limit!rate * 1 = Limit!rate
  BY RateAccrues
<1>3. passed \in [Addresses -> [Limit!Ticks -> Nat]] /\ \A a \in Addresses, t \in Limit!Ticks : passed[a][t] = 0
  BY DEF Limit!Init
<1>4. \A a \in Addresses, from \in Limit!Ticks : from <= now =>
        from = 0 /\ Limit!Sum(passed[a], from, now) = 0
  <2>1. ASSUME NEW a \in Addresses, NEW from \in Limit!Ticks, from <= now
        PROVE  from = 0 /\ Limit!Sum(passed[a], from, now) = 0
    <3>1. passed[a] \in [Limit!Ticks -> Nat] /\ from = 0 /\ passed[a][now] = 0
      BY <1>1, <1>3, <2>1
    <3>2. QED
      BY <1>1, <3>1, SumUnfolds
  <2>2. QED
    BY <2>1
<1>5. \A a : Limit!Filled(Limit!Bucket(a)) \in Nat /\ Limit!Filled(Limit!Bucket(a)) <= Limit!rate
  <2> HIDE DEF Limit!rate
  <2>1. \A a : Limit!Bucket(a) = [tokens |-> Limit!rate, last |-> 0]
    BY <1>1 DEF Limit!Bucket, Limit!newLimiter
  <2>2. (now - 0) * Limit!rate = 0
    BY <1>1, RateAccrues
  <2>3. QED
    BY <1>1, <1>2, <2>1, <2>2 DEF Limit!Filled, Limit!Least
<1>6. \A a \in Addresses : Accounted(a)
  BY <1>1, <1>2, <1>4, <1>5 DEF Accounted
<1>7. Limit!RateIsBounded
  <2>1. ASSUME NEW a \in Addresses, NEW from \in Limit!Ticks, NEW to \in Limit!Ticks, from <= to, to <= now
        PROVE  Limit!Sum(passed[a], from, to) <= Limit!rate * (1 + to - from)
    <3>1. from = 0 /\ to = now
      BY <1>1, <2>1
    <3>2. 1 + to - from = 1
      BY <1>1, <3>1
    <3>3. QED
      BY <1>2, <1>4, <2>1, <3>1, <3>2
  <2>2. QED
    BY <2>1 DEF Limit!RateIsBounded, Limit!Passed
<1>8. Limit!TypeOK
  BY <1>1, <1>3 DEF Limit!TypeOK
<1>9. QED
  BY <1>1, <1>3, <1>6, <1>7, <1>8 DEF LimitInv

LEMMA BucketType ==
  ASSUME LimitInv, NEW a \in Addresses
  PROVE  /\ Limit!Bucket(a) \in [tokens : 0..Limit!rate, last : 0..now]
         /\ Limit!Filled(Limit!Bucket(a)) \in 0..Limit!rate
         /\ now \in Limit!Ticks /\ Limit!Ticks = 0..RateTime /\ now \in Nat /\ now <= RateTime
         /\ passed[a] \in [Limit!Ticks -> Nat]
<1>1. Limit!rate \in Nat \ {0}
  BY RateAccrues
<1>2. now \in Limit!Ticks /\ Limit!Ticks = 0..RateTime /\ now \in Nat /\ now <= RateTime
      /\ passed[a] \in [Limit!Ticks -> Nat]
  BY LimitAssumption DEF LimitInv, Limit!TypeOK, Limit!Ticks
<1> HIDE DEF Limit!rate
<1>3. Limit!Bucket(a) \in [tokens : 0..Limit!rate, last : 0..now]
  BY <1>1, <1>2 DEF LimitInv, Limit!TypeOK, Limit!Bucket, Limit!newLimiter
<1>4. (now - Limit!Bucket(a).last) * Limit!rate \in Nat
  <2>1. now - Limit!Bucket(a).last \in Nat
    BY <1>2, <1>3
  <2>2. QED
    BY <2>1, RateAccrues
<1>5. Limit!Filled(Limit!Bucket(a)) \in 0..Limit!rate
  BY <1>1, <1>3, <1>4 DEF Limit!Filled, Limit!Least
<1>6. QED
  BY <1>2, <1>3, <1>5

LEMMA TickLimit ==
  ASSUME LimitInv, Limit!Tick PROVE LimitInv'
<1>1. now' = now + 1 /\ now < RateTime /\ bucket' = bucket /\ passed' = passed
  BY DEF Limit!Tick
<1>2. Limit!rate \in Nat \ {0}
  BY RateAccrues
<1>3. Limit!Ticks = 0..RateTime /\ RateTime \in Nat /\ now \in Nat /\ now' \in Limit!Ticks
  BY <1>1, LimitAssumption DEF LimitInv, Limit!TypeOK, Limit!Ticks
<1>a. ASSUME NEW a \in Addresses
      PROVE  /\ Limit!Filled(Limit!Bucket(a))' \in Nat
             /\ Limit!Filled(Limit!Bucket(a))' <= Limit!rate
             /\ Limit!Filled(Limit!Bucket(a))' <= Limit!Filled(Limit!Bucket(a)) + Limit!rate
  <2> HIDE DEF Limit!rate
  <2>1. CASE a \in DOMAIN bucket
    <3> DEFINE b == bucket[a]
    <3>1. b \in [tokens : 0..Limit!rate, last : 0..now] /\ now - b.last \in Nat
      BY <1>3, <2>1, BucketType DEF Limit!Bucket
    <3>2. (now' - b.last) = (now - b.last) + 1
      BY <1>1, <1>3, <3>1
    <3>3. (now' - b.last) * Limit!rate = (now - b.last) * Limit!rate + Limit!rate
          /\ (now - b.last) * Limit!rate \in Nat
      BY <3>1, <3>2, RateAccrues
    <3>4. Limit!Filled(Limit!Bucket(a))' = Limit!Least(b.tokens + (now' - b.last) * Limit!rate, Limit!rate)
      BY <1>1, <2>1 DEF Limit!Filled, Limit!Least, Limit!Bucket
    <3>5. Limit!Filled(Limit!Bucket(a)) = Limit!Least(b.tokens + (now - b.last) * Limit!rate, Limit!rate)
      BY <2>1 DEF Limit!Filled, Limit!Bucket
    <3> HIDE DEF b
    <3>6. QED
      BY <1>2, <3>1, <3>3, <3>4, <3>5 DEF Limit!Least
  <2>2. CASE a \notin DOMAIN bucket
    <3>1. Limit!Bucket(a)' = [tokens |-> Limit!rate, last |-> now']
      BY <1>1, <2>2 DEF Limit!Bucket, Limit!newLimiter
    <3>2. now' - now' = 0
      BY <1>1, <1>3
    <3>a. Limit!Filled(Limit!Bucket(a))' =
            Limit!Least(Limit!Bucket(a)'.tokens + (now' - Limit!Bucket(a)'.last) * Limit!rate, Limit!rate)
      BY DEF Limit!Filled, Limit!Least
    <3>3. Limit!Filled(Limit!Bucket(a))' = Limit!Least(Limit!rate + 0, Limit!rate)
      BY <3>1, <3>2, <3>a, RateAccrues
    <3>4. Limit!Filled(Limit!Bucket(a)) \in Nat
      BY <1>2, BucketType
    <3>5. QED
      BY <1>2, <3>3, <3>4 DEF Limit!Least
  <2>3. QED
    BY <2>1, <2>2
<1>4. ASSUME NEW a \in Addresses
      PROVE  Accounted(a)'
  <2>1. passed[a] \in [Limit!Ticks -> Nat] /\ passed[a][now'] = 0 /\ now' # 0 /\ now' - 1 = now
    BY <1>1, <1>3 DEF LimitInv, Limit!TypeOK
  <2>2. now \in Limit!Ticks
    BY BucketType
  <2>3. ASSUME NEW from \in Limit!Ticks, from <= now'
        PROVE  Limit!Sum(passed[a], from, now') + Limit!Filled(Limit!Bucket(a))' <= Limit!rate * ((now' - from) + 1)
    <3> DEFINE total == Limit!Sum(passed[a], from, now)
    <3>a. \A t \in Limit!Ticks : Limit!Sum(passed[a], from, t) =
            IF t < from THEN 0
            ELSE passed[a][t] + (IF t = 0 THEN 0 ELSE Limit!Sum(passed[a], from, t - 1))
      BY <2>1, SumUnfolds
    <3>1. Limit!Sum(passed[a], from, now') = IF now' < from THEN 0 ELSE passed[a][now'] + total
      BY <1>3, <2>1, <3>a
    <3>2. total \in Nat
      BY <2>1, <2>2, SumUnfolds
    <3>3. Limit!Filled(Limit!Bucket(a)) \in Nat
      BY <1>2, BucketType
    <3>4. CASE from <= now
      <4>1. PICK d \in Nat : d = now - from
        BY <1>3, <3>4
      <4>2. now' - from = d + 1 /\ ~ (now' < from)
        BY <1>1, <1>3, <3>4, <4>1
      <4>3. Limit!rate * ((d + 1) + 1) = Limit!rate * (d + 1) + Limit!rate
            /\ Limit!rate * (d + 1) \in Nat
        BY RateAccrues
      <4>4. total + Limit!Filled(Limit!Bucket(a)) <= Limit!rate * (d + 1)
        BY <3>4, <4>1 DEF LimitInv, Accounted
      <4> HIDE DEF total
      <4>5. QED
        BY <1>2, <1>a, <2>1, <3>1, <3>2, <3>3, <4>2, <4>3, <4>4
    <3>5. CASE from = now'
      <4>1. now < from /\ (now' - from) + 1 = 1
        BY <1>1, <1>3, <3>5
      <4>2. total = 0
        BY <2>1, <2>2, <4>1, SumUnfolds
      <4> HIDE DEF total
      <4>3. QED
        BY <1>2, <1>a, <2>1, <3>1, <3>5, <4>1, <4>2, RateAccrues
    <3>6. QED
      BY <1>1, <1>3, <2>3, <3>4, <3>5
  <2>4. QED
    BY <1>1, <2>3 DEF Accounted
<1>5. Limit!RateIsBounded'
  <2>1. ASSUME NEW a \in Addresses, NEW from \in Limit!Ticks, NEW to \in Limit!Ticks, from <= to, to <= now'
        PROVE  Limit!Sum(passed[a], from, to) <= Limit!rate * (1 + to - from)
    <3>1. CASE to <= now
      BY <2>1, <3>1 DEF LimitInv, Limit!RateIsBounded, Limit!Passed
    <3>2. CASE to = now'
      <4>1. 1 + to - from = (to - from) + 1 /\ to - from \in Nat
        BY <1>1, <1>3, <2>1
      <4>2. Limit!Sum(passed[a], from, to) + Limit!Filled(Limit!Bucket(a))' <= Limit!rate * ((to - from) + 1)
        BY <1>1, <1>4, <2>1, <3>2 DEF Accounted
      <4>3. Limit!Filled(Limit!Bucket(a))' \in Nat
        BY <1>a
      <4>4. Limit!Sum(passed[a], from, to) \in Nat /\ Limit!rate * ((to - from) + 1) \in Nat
        <5>1. passed[a] \in [Limit!Ticks -> Nat]
          BY BucketType
        <5>2. Limit!Sum(passed[a], from, to) \in Nat
          BY <5>1, SumUnfolds
        <5>3. (to - from) + 1 \in Nat
          BY <4>1
        <5>4. QED
          BY <5>2, <5>3, RateAccrues
      <4>5. QED
        BY <4>1, <4>2, <4>3, <4>4
    <3>3. QED
      BY <1>1, <1>3, <2>1, <3>1, <3>2
  <2>2. QED
    BY <1>1, <2>1 DEF Limit!RateIsBounded, Limit!Passed
<1>6. Limit!TypeOK'
  BY <1>1, <1>3 DEF LimitInv, Limit!TypeOK
<1>7. (\A a \in DOMAIN bucket : bucket[a].last <= now)'
  BY <1>1, <1>3 DEF LimitInv, Limit!TypeOK
<1>8. (\A a \in Addresses, t \in Limit!Ticks : now < t => passed[a][t] = 0)'
  BY <1>1, <1>3 DEF LimitInv
<1>9. QED
  BY <1>4, <1>5, <1>6, <1>7, <1>8 DEF LimitInv

LEMMA TakeLimit ==
  ASSUME LimitInv, NEW a \in Addresses, Limit!Take(a) PROVE LimitInv'
<1> DEFINE had == Limit!Filled(Limit!Bucket(a))
           left == IF had >= 1 THEN had - 1 ELSE had
           more == IF had >= 1 THEN 1 ELSE 0
<1>1. /\ now' = now
      /\ bucket' = [x \in DOMAIN bucket \cup {a} |->
                      IF x = a THEN [tokens |-> left, last |-> now] ELSE bucket[x]]
      /\ passed' = IF had >= 1 THEN [passed EXCEPT ![a][now] = @ + 1] ELSE passed
  BY DEF Limit!Take
<1>2. /\ Limit!rate \in Nat \ {0} /\ had \in 0..Limit!rate
      /\ left \in 0..Limit!rate /\ left + more = had
  <2>1. Limit!rate \in Nat \ {0} /\ had \in 0..Limit!rate
    BY RateAccrues, BucketType
  <2> HIDE DEF had, Limit!rate
  <2>2. QED
    BY <2>1
<1>3. now \in Limit!Ticks /\ Limit!Ticks = 0..RateTime /\ now \in Nat /\ RateTime \in Nat
  BY BucketType, LimitAssumption
<1>4. passed \in [Addresses -> [Limit!Ticks -> Nat]]
  BY DEF LimitInv, Limit!TypeOK
<1> HIDE DEF had
<1>5. /\ passed' \in [Addresses -> [Limit!Ticks -> Nat]]
      /\ passed'[a] = [passed[a] EXCEPT ![now] = @ + more]
      /\ \A x \in Addresses : x # a => passed'[x] = passed[x]
  <2>1. CASE had >= 1
    BY <1>1, <1>3, <1>4, <2>1
  <2>2. CASE ~ (had >= 1)
    <3>1. more = 0 /\ passed' = passed
      BY <1>1, <2>2
    <3>2. passed[a] \in [Limit!Ticks -> Nat] /\ passed[a][now] + 0 = passed[a][now]
      BY <1>3, <1>4
    <3> HIDE DEF more
    <3>3. QED
      BY <1>4, <3>1, <3>2
  <2>3. QED
    BY <2>1, <2>2
<1>6. /\ DOMAIN bucket' = DOMAIN bucket \cup {a} /\ DOMAIN bucket \subseteq Addresses
      /\ bucket'[a] = [tokens |-> left, last |-> now]
      /\ \A x \in DOMAIN bucket : x # a => bucket'[x] = bucket[x]
  BY <1>1 DEF LimitInv, Limit!TypeOK
<1>7. Limit!Filled(Limit!Bucket(a))' = left
  <2>1. Limit!Filled(Limit!Bucket(a))' =
          Limit!Least(Limit!Bucket(a)'.tokens + (now' - Limit!Bucket(a)'.last) * Limit!rate, Limit!rate)
    BY DEF Limit!Filled, Limit!Least
  <2>2. Limit!Bucket(a)' = [tokens |-> left, last |-> now]
    BY <1>6 DEF Limit!Bucket
  <2>3. now' - now = 0 /\ 0 * Limit!rate = 0
    BY <1>1, <1>3, RateAccrues
  <2> HIDE DEF left
  <2>4. Limit!Filled(Limit!Bucket(a))' = Limit!Least(left + 0, Limit!rate)
    BY <2>1, <2>2, <2>3
  <2>5. QED
    BY <1>2, <2>4 DEF Limit!Least
<1>8. ASSUME NEW x \in Addresses, x # a
      PROVE  Limit!Filled(Limit!Bucket(x))' = Limit!Filled(Limit!Bucket(x))
  <2>1. Limit!Bucket(x)' = Limit!Bucket(x)
    BY <1>1, <1>6, <1>8 DEF Limit!Bucket, Limit!newLimiter
  <2>2. Limit!Filled(Limit!Bucket(x))' =
          Limit!Least(Limit!Bucket(x)'.tokens + (now' - Limit!Bucket(x)'.last) * Limit!rate, Limit!rate)
    BY DEF Limit!Filled, Limit!Least
  <2>3. QED
    BY <1>1, <2>1, <2>2 DEF Limit!Filled
<1>9. ASSUME NEW from \in Limit!Ticks, NEW to \in Limit!Ticks, to <= now
      PROVE  Limit!Sum(passed'[a], from, to) =
               Limit!Sum(passed[a], from, to) + (IF to = now /\ from <= now THEN more ELSE 0)
  <2> DEFINE p == passed[a]
             q == passed'[a]
             Rest(r, t) == IF t = 0 THEN 0 ELSE Limit!Sum(r, from, t - 1)
  <2>1. p \in [Limit!Ticks -> Nat] /\ q \in [Limit!Ticks -> Nat] /\ more \in Nat
        /\ q = [p EXCEPT ![now] = @ + more]
    BY <1>4, <1>5
  <2> HIDE DEF p, q, more
  <2>2. Limit!Sum(p, from, to) = (IF to < from THEN 0 ELSE p[to] + Rest(p, to))
        /\ Limit!Sum(q, from, to) = (IF to < from THEN 0 ELSE q[to] + Rest(q, to))
    <3>1. ASSUME NEW r \in [Limit!Ticks -> Nat]
          PROVE  Limit!Sum(r, from, to) = (IF to < from THEN 0 ELSE r[to] + Rest(r, to))
      <4>1. Limit!Sum(r, from, to) = IF to < from THEN 0
              ELSE r[to] + (IF to = 0 THEN 0 ELSE Limit!Sum(r, from, to - 1))
        BY SumUnfolds
      <4>2. QED
        BY <4>1
    <3>2. QED
      BY <2>1, <3>1
  <2>3. Rest(q, to) = Rest(p, to) /\ Rest(p, to) \in Nat
    <3>1. CASE to = 0
      BY <3>1
    <3>2. CASE to # 0
      <4>1. to - 1 \in Limit!Ticks /\ \A t \in Limit!Ticks : t <= to - 1 => p[t] = q[t]
        BY <1>3, <1>9, <2>1, <3>2
      <4>2. Limit!Sum(p, from, to - 1) = Limit!Sum(q, from, to - 1)
        BY <2>1, <4>1, SumLooksBack
      <4>3. Limit!Sum(p, from, to - 1) \in Nat
        BY <2>1, <4>1, SumUnfolds
      <4>4. QED
        BY <3>2, <4>2, <4>3
    <3>3. QED
      BY <3>1, <3>2
  <2> HIDE DEF Rest
  <2>4. q[to] = p[to] + (IF to = now THEN more ELSE 0) /\ p[to] \in Nat
    BY <1>3, <2>1
  <2>5. to < from \/ ~ (to < from)
    OBVIOUS
  <2>6. Limit!Sum(q, from, to) =
               Limit!Sum(p, from, to) + (IF to = now /\ from <= now THEN more ELSE 0)
    BY <1>3, <1>9, <2>1, <2>2, <2>3, <2>4
  <2>7. QED
    BY <2>6 DEF p, q
<1>10. ASSUME NEW x \in Addresses
       PROVE  Accounted(x)'
  <2>1. CASE x # a
    BY <1>1, <1>5, <1>8, <2>1 DEF LimitInv, Accounted
  <2>2. CASE x = a
    <3>1. ASSUME NEW from \in Limit!Ticks, from <= now
          PROVE  Limit!Sum(passed'[a], from, now) + left <= Limit!rate * ((now - from) + 1)
      <4>1. Limit!Sum(passed'[a], from, now) = Limit!Sum(passed[a], from, now) + more
        BY <1>3, <1>9, <3>1
      <4>2. Limit!Sum(passed[a], from, now) + had <= Limit!rate * ((now - from) + 1)
        BY <3>1 DEF LimitInv, Accounted, had
      <4>3. Limit!Sum(passed[a], from, now) \in Nat /\ more \in Nat
        BY <1>3, <1>4, SumUnfolds
      <4>4. (Limit!Sum(passed[a], from, now) + more) + left = Limit!Sum(passed[a], from, now) + had
        BY <1>2, <4>3
      <4> HIDE DEF more, left
      <4>5. QED
        BY <4>1, <4>2, <4>4
    <3>2. QED
      BY <1>1, <1>7, <2>2, <3>1 DEF Accounted
  <2>3. QED
    BY <2>1, <2>2
<1>11. Limit!RateIsBounded'
  <2>1. ASSUME NEW x \in Addresses, NEW from \in Limit!Ticks, NEW to \in Limit!Ticks, from <= to, to <= now
        PROVE  Limit!Sum(passed'[x], from, to) <= Limit!rate * (1 + to - from)
    <3>0. Limit!Sum(passed[x], from, to) <= Limit!rate * (1 + to - from)
      BY <2>1 DEF LimitInv, Limit!RateIsBounded, Limit!Passed
    <3>1. CASE x # a
      BY <1>5, <3>0, <3>1
    <3>2. CASE x = a /\ to # now
      <4>1. Limit!Sum(passed'[a], from, to) = Limit!Sum(passed[a], from, to) + 0
        BY <1>9, <2>1, <3>2
      <4>2. Limit!Sum(passed[a], from, to) \in Nat
        BY <1>3, <1>4, SumUnfolds
      <4>3. QED
        BY <3>0, <3>2, <4>1, <4>2
    <3>3. CASE x = a /\ to = now
      <4>1. from <= now /\ (now - from) + 1 = 1 + to - from /\ (now - from) + 1 \in Nat
        BY <1>3, <2>1, <3>3
      <4>2. Limit!Sum(passed'[a], from, now) + left <= Limit!rate * ((now - from) + 1)
        BY <1>1, <1>7, <1>10, <3>3, <4>1 DEF Accounted
      <4>3. Limit!Sum(passed'[a], from, now) \in Nat
        BY <1>3, <1>5, SumUnfolds
      <4>4. Limit!rate * ((now - from) + 1) \in Nat
        BY <4>1, RateAccrues
      <4> HIDE DEF left
      <4>5. Limit!Sum(passed'[a], from, now) <= Limit!rate * ((now - from) + 1)
        BY <1>2, <4>2, <4>3, <4>4
      <4>6. QED
        BY <3>3, <4>1, <4>5
    <3>4. QED
      BY <3>1, <3>2, <3>3
  <2>2. QED
    BY <1>1, <2>1 DEF Limit!RateIsBounded, Limit!Passed
<1>12. Limit!TypeOK' /\ (\A x \in DOMAIN bucket : bucket[x].last <= now)'
  <2> HIDE DEF left
  <2>1. [tokens |-> left, last |-> now] \in [tokens : 0..Limit!rate, last : Limit!Ticks]
    BY <1>2, <1>3
  <2>2. \A x \in DOMAIN bucket : bucket[x] \in [tokens : 0..Limit!rate, last : Limit!Ticks]
                               /\ bucket[x].last <= now
    BY DEF LimitInv, Limit!TypeOK
  <2>3. \A x \in DOMAIN bucket' : bucket'[x] \in [tokens : 0..Limit!rate, last : Limit!Ticks]
                               /\ bucket'[x].last <= now
    BY <1>3, <1>6, <2>1, <2>2
  <2>4. QED
    BY <1>1, <1>3, <1>5, <1>6, <2>3 DEF Limit!TypeOK
<1>13. (\A x \in Addresses, t \in Limit!Ticks : now < t => passed[x][t] = 0)'
  BY <1>1, <1>3, <1>4, <1>5 DEF LimitInv
<1>14. QED
  BY <1>10, <1>11, <1>12, <1>13 DEF LimitInv

LEMMA InductiveLimit ==
  ASSUME LimitInv, [Limit!Next]_(Limit!limitVars) PROVE LimitInv'
<1>1. CASE Limit!Tick
  BY <1>1, TickLimit
<1>2. ASSUME NEW a \in Addresses, Limit!Take(a) PROVE LimitInv'
  BY <1>2, TakeLimit
<1>3. CASE UNCHANGED Limit!limitVars
  BY <1>3 DEF LimitInv, Accounted, Limit!limitVars, Limit!TypeOK, Limit!RateIsBounded, Limit!Passed,
     Limit!Filled, Limit!Bucket, Limit!newLimiter
<1>4. QED
  BY <1>1, <1>2, <1>3 DEF Limit!Next

(* The rate limit holds whatever the rate, the addresses and the requests: *)
(* what passed since any tick and what the bucket holds are bounded by the *)
(* refill (limiterSet.allow).                                              *)
THEOREM RateHolds == Limit!Spec => [](Limit!TypeOK /\ Limit!RateIsBounded)
<1>1. LimitInv => Limit!TypeOK /\ Limit!RateIsBounded
  BY DEF LimitInv
<1>2. QED
  BY <1>1, InitLimit, InductiveLimit, PTL DEF Limit!Spec

------------------------------------------------------------------------------

(* The portal. *)

\* The ghost is a record of two functions.
VisitsRecorded ==
  /\ visits = [asked |-> visits.asked, opened |-> visits.opened]
  /\ \A s \in DOMAIN visits.opened : visits.opened[s].at \in Nat

\* The link is one that was asked for, for an address of the client.
AskedFor(link, client) == /\ link \in DOMAIN visits.asked
                          /\ EmailOf[client] = visits.asked[link].email

\* A stored link belongs to a client with the address it was asked for; a
\* link in a mailbox was asked for.
LinksAddressed ==
  /\ \A l \in DOMAIN tokens : AskedFor(l, tokens[l].client)
  /\ mailbox \subseteq DOMAIN visits.asked

\* A link that was taken has been mailed and is in the store no more, and it
\* is in the hands of one request, which has not opened a session with it.
TakenOnce ==
  \A t \in taken :
    /\ AskedFor(t.link, t.client)
    /\ t.link \in mailbox /\ t.link \notin DOMAIN tokens
    /\ \A u \in taken : u.link = t.link => u = t
    /\ \A s \in DOMAIN visits.opened : visits.opened[s].link # t.link

\* The link of a session has been mailed, is in the store no more and opened
\* no other session.
OpenedOnce ==
  \A s \in DOMAIN visits.opened :
    /\ visits.opened[s].link \in mailbox
    /\ visits.opened[s].link \notin DOMAIN tokens
    /\ \A t \in DOMAIN visits.opened :
         visits.opened[s].link = visits.opened[t].link => s = t

\* A live session ends SessionLife after it was opened, and is that of a
\* client with the address its link was asked for.
SessionsInvited ==
  \A s \in DOMAIN sessions :
    /\ s \in DOMAIN visits.opened
    /\ sessions[s].expires = visits.opened[s].at + SessionLife
    /\ AskedFor(visits.opened[s].link, sessions[s].client)

\* The session of the page that was served was opened.
PageInvited ==
  page # Door!NoPage => /\ page.session \in DOMAIN visits.opened
                        /\ AskedFor(visits.opened[page.session].link, page.client)
                        /\ page.at <= visits.opened[page.session].at + SessionLife

Books == LinksAddressed /\ TakenOnce /\ OpenedOnce /\ SessionsInvited

PortalInv == Door!TypeOK /\ VisitsRecorded /\ Books /\ PageInvited

\* The promise is part of the invariant.
LEMMA PortalPromise == PortalInv => Door!ServedByInvitation
<1> SUFFICES ASSUME PortalInv PROVE Door!ServedByInvitation
  OBVIOUS
<1>1. ASSUME page # Door!NoPage
      PROVE  LET o == visits.opened[page.session]
             IN /\ page.at <= o.at + SessionLife
                /\ o.link \in mailbox
                /\ EmailOf[page.client] = visits.asked[o.link].email
  BY <1>1 DEF PortalInv, PageInvited, Books, OpenedOnce, AskedFor
<1>2. QED
  BY <1>1 DEF Door!ServedByInvitation, PortalInv, Books, OpenedOnce

\* The client whom a link is made for has the address.
LEMMA LookedUp ==
  ASSUME NEW e \in Emails, Door!Holders(e) # {}
  PROVE  /\ Door!lookupClientByEmail(e) \in PortalClients
         /\ EmailOf[Door!lookupClientByEmail(e)] = e
<1>1. Door!lookupClientByEmail(e) \in Door!Holders(e)
  BY PortalAssumption DEF Door!lookupClientByEmail
<1>2. QED
  BY <1>1 DEF Door!Holders

LEMMA InitPortal == Door!Init => PortalInv
<1> SUFFICES ASSUME Door!Init PROVE PortalInv
  OBVIOUS
<1>1. Door!TypeOK
  BY PortalAssumption DEF Door!Init, Door!TypeOK
<1>2. VisitsRecorded /\ PageInvited
  BY DEF Door!Init, VisitsRecorded, PageInvited
<1>3. Books
  BY DEF Door!Init, Books, LinksAddressed, TakenOnce, OpenedOnce, SessionsInvited
<1>4. QED
  BY <1>1, <1>2, <1>3 DEF PortalInv

LEMMA LoginPortal ==
  ASSUME PortalInv, NEW e \in Emails, NEW link \in Links,
         NEW mailed \in BOOLEAN, Door!LoginSubmit(e, link, mailed)
  PROVE  PortalInv'
<1> DEFINE c == Door!lookupClientByEmail(e)
           token == [client |-> c, expires |-> now + LinkLife]
<1>1. c \in PortalClients /\ EmailOf[c] = e
  BY LookedUp DEF Door!LoginSubmit
<1>2. token \in [client : PortalClients, expires : Nat] /\ token.client = c
  BY <1>1, PortalAssumption DEF PortalInv, Door!TypeOK
<1>3. link \notin DOMAIN visits.asked
  BY DEF Door!LoginSubmit
<1>4. /\ tokens' = Door!With(tokens, link, token)
      /\ mailbox' \subseteq mailbox \cup {link} /\ mailbox \subseteq mailbox'
      /\ UNCHANGED <<now, taken, sessions, overdue, page>>
  BY DEF Door!LoginSubmit
<1> HIDE DEF c, token
<1>5. /\ visits' = [asked |-> visits'.asked, opened |-> visits'.opened]
      /\ visits'.opened = visits.opened
      /\ visits'.asked = Door!With(visits.asked, link, [at |-> now, email |-> e])
  BY DEF Door!LoginSubmit, PortalInv, VisitsRecorded
<1>6. /\ DOMAIN tokens' = DOMAIN tokens \cup {link}
      /\ tokens'[link] = token
      /\ \A l \in DOMAIN tokens : l # link => tokens'[l] = tokens[l]
  BY <1>4 DEF Door!With
<1>7. /\ DOMAIN visits'.asked = DOMAIN visits.asked \cup {link}
      /\ visits'.asked[link].email = e
      /\ \A l \in DOMAIN visits.asked : visits'.asked[l] = visits.asked[l]
  BY <1>3, <1>5 DEF Door!With
<1>8. Door!TypeOK'
  BY <1>2, <1>4, <1>5, <1>6, <1>7 DEF PortalInv, Door!TypeOK
<1>9. \A l, d : AskedFor(l, d) => l # link /\ AskedFor(l, d)'
  BY <1>3, <1>7 DEF AskedFor
<1>10. LinksAddressed'
  <2>1. ASSUME NEW l \in DOMAIN tokens'
        PROVE  l \in DOMAIN visits'.asked
               /\ EmailOf[tokens'[l].client] = visits'.asked[l].email
    <3>1. CASE l = link
      BY <3>1, <1>1, <1>2, <1>6, <1>7
    <3>2. CASE l # link
      BY <3>2, <1>6, <1>7 DEF PortalInv, Books, LinksAddressed, AskedFor
    <3>3. QED
      BY <3>1, <3>2
  <2>2. mailbox' \subseteq DOMAIN visits'.asked
    BY <1>4, <1>7 DEF PortalInv, Books, LinksAddressed
  <2>3. QED
    BY <2>1, <2>2 DEF LinksAddressed, AskedFor
<1>11. TakenOnce'
  BY <1>4, <1>5, <1>6, <1>9 DEF PortalInv, Books, TakenOnce
<1>12. OpenedOnce'
  BY <1>3, <1>4, <1>5, <1>6 DEF PortalInv, Books, OpenedOnce, LinksAddressed
<1>13. SessionsInvited' /\ PageInvited'
  BY <1>4, <1>5, <1>9 DEF PortalInv, Books, SessionsInvited, PageInvited
<1>14. VisitsRecorded'
  BY <1>5 DEF PortalInv, VisitsRecorded
<1>15. QED
  BY <1>8, <1>10, <1>11, <1>12, <1>13, <1>14 DEF PortalInv, Books

LEMMA VerifyPortal ==
  ASSUME PortalInv, NEW link \in Links, Door!VerifyMagicLink(link)
  PROVE  PortalInv'
<1> DEFINE new == [link |-> link, client |-> tokens[link].client]
<1>1. /\ link \in mailbox /\ link \in DOMAIN tokens
      /\ tokens' = Door!Without(tokens, link)
      /\ UNCHANGED <<now, mailbox, sessions, overdue, page, visits>>
  BY DEF Door!VerifyMagicLink
<1>2. taken' \subseteq taken \cup {new}
  BY DEF Door!VerifyMagicLink
<1>3. /\ new \in [link : Links, client : PortalClients]
      /\ new.link = link /\ AskedFor(link, new.client)
  BY <1>1 DEF PortalInv, Door!TypeOK, Books, LinksAddressed
<1> HIDE DEF new
<1>4. /\ DOMAIN tokens' = DOMAIN tokens \ {link}
      /\ \A l \in DOMAIN tokens' : tokens'[l] = tokens[l]
  BY <1>1 DEF Door!Without
<1>5. Door!TypeOK' /\ VisitsRecorded'
  BY <1>1, <1>2, <1>3, <1>4 DEF PortalInv, Door!TypeOK, VisitsRecorded
<1>6. LinksAddressed'
  BY <1>1, <1>4 DEF PortalInv, Books, LinksAddressed, AskedFor
<1>7. TakenOnce'
  BY <1>1, <1>2, <1>3, <1>4 DEF PortalInv, Books, TakenOnce, OpenedOnce, AskedFor
<1>8. OpenedOnce' /\ SessionsInvited' /\ PageInvited'
  BY <1>1, <1>4 DEF PortalInv, Books, OpenedOnce, SessionsInvited, PageInvited, AskedFor
<1>9. QED
  BY <1>5, <1>6, <1>7, <1>8 DEF PortalInv, Books

LEMMA CreatePortal ==
  ASSUME PortalInv, NEW t \in taken, NEW s \in PortalSessions, Door!CreateSession(t, s)
  PROVE  PortalInv'
<1> DEFINE session == [client |-> t.client, expires |-> now + SessionLife]
           opened == [at |-> now, link |-> t.link]
<1>1. /\ s \notin DOMAIN visits.opened
      /\ taken' = taken \ {t}
      /\ sessions' = Door!With(sessions, s, session)
      /\ UNCHANGED <<now, tokens, mailbox, overdue, page>>
  BY DEF Door!CreateSession
<1>2. /\ visits' = [asked |-> visits'.asked, opened |-> visits'.opened]
      /\ visits'.asked = visits.asked
      /\ visits'.opened = Door!With(visits.opened, s, opened)
  BY DEF Door!CreateSession, PortalInv, VisitsRecorded
<1>3. /\ now \in Nat /\ session \in [client : PortalClients, expires : Nat]
      /\ session.client = t.client /\ session.expires = now + SessionLife
      /\ opened.at = now /\ opened.link = t.link
  BY PortalAssumption DEF PortalInv, Door!TypeOK
<1> HIDE DEF session, opened
<1>4. /\ DOMAIN sessions' = DOMAIN sessions \cup {s} /\ sessions'[s] = session
      /\ \A u \in DOMAIN sessions : u # s => sessions'[u] = sessions[u]
  BY <1>1 DEF Door!With
<1>5. /\ DOMAIN visits'.opened = DOMAIN visits.opened \cup {s}
      /\ visits'.opened[s] = opened
      /\ \A u \in DOMAIN visits.opened : visits'.opened[u] = visits.opened[u]
  BY <1>1, <1>2 DEF Door!With
<1>6. Door!TypeOK' /\ VisitsRecorded'
  BY <1>1, <1>2, <1>3, <1>4, <1>5 DEF PortalInv, Door!TypeOK, VisitsRecorded
<1>7. LinksAddressed'
  BY <1>1, <1>2 DEF PortalInv, Books, LinksAddressed, AskedFor
<1>8. TakenOnce'
  BY <1>1, <1>2, <1>3, <1>5 DEF PortalInv, Books, TakenOnce, AskedFor
<1>9. OpenedOnce'
  BY <1>1, <1>3, <1>5 DEF PortalInv, Books, OpenedOnce, TakenOnce
<1>10. SessionsInvited'
  BY <1>1, <1>2, <1>3, <1>4, <1>5 DEF PortalInv, Books, SessionsInvited, TakenOnce, AskedFor
<1>11. PageInvited'
  BY <1>1, <1>2, <1>5 DEF PortalInv, PageInvited, AskedFor
<1>12. QED
  BY <1>6, <1>7, <1>8, <1>9, <1>10, <1>11 DEF PortalInv, Books

\* A logout and the cleanup take links and sessions away.
LEMMA FewerPortal ==
  ASSUME PortalInv, Door!Cleanup \/ \E s \in DOMAIN sessions : Door!DeleteSession(s)
  PROVE  PortalInv'
<1>1. /\ DOMAIN tokens' \subseteq DOMAIN tokens
      /\ \A l \in DOMAIN tokens' : tokens'[l] = tokens[l]
      /\ DOMAIN sessions' \subseteq DOMAIN sessions
      /\ \A s \in DOMAIN sessions' : sessions'[s] = sessions[s]
      /\ UNCHANGED <<now, mailbox, taken, overdue, page, visits>>
  BY DEF Door!Cleanup, Door!DeleteSession, Door!Without
<1>2. Door!TypeOK' /\ VisitsRecorded'
  BY <1>1 DEF PortalInv, Door!TypeOK, VisitsRecorded
<1>3. LinksAddressed' /\ TakenOnce'
  BY <1>1 DEF PortalInv, Books, LinksAddressed, TakenOnce, AskedFor
<1>4. OpenedOnce' /\ SessionsInvited' /\ PageInvited'
  BY <1>1 DEF PortalInv, Books, OpenedOnce, SessionsInvited, PageInvited, AskedFor
<1>5. QED
  BY <1>2, <1>3, <1>4 DEF PortalInv, Books

\* Links, sessions and the ghost stay.
LEMMA BooksStay ==
  ASSUME PortalInv, UNCHANGED <<tokens, mailbox, taken, sessions, visits>>
  PROVE  VisitsRecorded' /\ Books'
<1>1. VisitsRecorded'
  BY DEF PortalInv, VisitsRecorded
<1>2. LinksAddressed' /\ TakenOnce'
  BY DEF PortalInv, Books, LinksAddressed, TakenOnce, AskedFor
<1>3. OpenedOnce' /\ SessionsInvited'
  BY DEF PortalInv, Books, OpenedOnce, SessionsInvited, AskedFor
<1>4. QED
  BY <1>1, <1>2, <1>3 DEF Books

\* A page is served in a session that has not ended.
LEMMA ServePortal ==
  ASSUME PortalInv, NEW s \in DOMAIN sessions, NEW about, Door!Serve(s, about)
  PROVE  PortalInv'
<1>1. VisitsRecorded' /\ Books'
  BY BooksStay DEF Door!Serve
<1>2. Door!TypeOK'
  BY DEF Door!Serve, PortalInv, Door!TypeOK
<1>3. /\ page'.session = s /\ page'.client = sessions[s].client /\ page'.at = now
      /\ now <= sessions[s].expires /\ UNCHANGED visits
  BY DEF Door!Serve, Door!GetSession
<1>4. PageInvited'
  BY <1>3 DEF PortalInv, Books, SessionsInvited, PageInvited, AskedFor
<1>5. QED
  BY <1>1, <1>2, <1>4 DEF PortalInv

LEMMA InductivePortal == PortalInv /\ [Door!Next]_(Door!portalVars) => PortalInv'
<1> SUFFICES ASSUME PortalInv, [Door!Next]_(Door!portalVars) PROVE PortalInv'
  OBVIOUS
<1>1. CASE Door!Tick \/ (\E c \in PortalClients : Door!DeadlineMissed(c)) \/ UNCHANGED Door!portalVars
  <2>1. UNCHANGED <<tokens, mailbox, taken, sessions, page, visits>>
    BY <1>1 DEF Door!Tick, Door!DeadlineMissed, Door!portalVars
  <2>2. Door!TypeOK'
    BY <1>1, <2>1, PortalAssumption DEF Door!Tick, Door!DeadlineMissed, Door!portalVars, PortalInv, Door!TypeOK
  <2>3. PageInvited'
    BY <2>1 DEF PortalInv, PageInvited, AskedFor
  <2>4. QED
    BY <2>1, <2>2, <2>3, BooksStay DEF PortalInv
<1>2. CASE \E e \in Emails, l \in Links, mailed \in BOOLEAN : Door!LoginSubmit(e, l, mailed)
  BY <1>2, LoginPortal
<1>3. CASE \E l \in Links : Door!VerifyMagicLink(l)
  BY <1>3, VerifyPortal
<1>4. CASE \E t \in taken, s \in PortalSessions : Door!CreateSession(t, s)
  BY <1>4, CreatePortal
<1>5. CASE Door!Cleanup \/ \E s \in DOMAIN sessions : Door!DeleteSession(s)
  BY <1>5, FewerPortal
<1>6. CASE \E s \in DOMAIN sessions :
             \/ Door!OwnPage(s) \/ Door!OwnCall(s) \/ Door!Notifications(s) \/ Door!Subscriptions(s)
             \/ Door!DeadlinesPage(s)
  BY <1>6, ServePortal DEF Door!OwnPage, Door!OwnCall, Door!Notifications, Door!Subscriptions, Door!DeadlinesPage
<1>7. QED
  BY <1>1, <1>2, <1>3, <1>4, <1>5, <1>6 DEF Door!Next

\* Links, sessions and the requests between the two keep their types
\* (MagicToken and Session of portal/auth.go).
THEOREM PortalTypeCorrect == Door!Spec => []Door!TypeOK
<1>1. PortalInv => Door!TypeOK
  BY DEF PortalInv
<1>2. QED
  BY InitPortal, InductivePortal, <1>1, PTL DEF Door!Spec

\* A page is served to a client only in a session that has not outlived
\* SessionLife and was opened by a link mailed to that client's address, and
\* no link opens two sessions, for any interleaving of logins, of the two
\* critical sections of a verification and of the cleanup.
THEOREM PagesServedByInvitation == Door!Spec => []Door!ServedByInvitation
  BY InitPortal, InductivePortal, PortalPromise, PTL DEF Door!Spec

------------------------------------------------------------------------------

(* The panel. *)

\* The ghost: the sessions that were opened, and which of them have ended.
LoginsRecorded ==
  /\ ghost = [opened |-> ghost.opened, ended |-> ghost.ended, restarts |-> ghost.restarts]
  /\ DOMAIN ghost.opened \subseteq PanelSessions
  /\ \A s \in DOMAIN ghost.opened : ghost.opened[s].at \in Nat
  /\ ghost.ended \subseteq DOMAIN ghost.opened

\* A session that was opened is in memory until it has ended, with its end.
HeldUntilEnded ==
  /\ DOMAIN held \cap ghost.ended = {}
  /\ DOMAIN ghost.opened \subseteq DOMAIN held \cup ghost.ended
  /\ \A s \in DOMAIN held : held[s] = ghost.opened[s].at + Life

\* The session is one that the browser opened, and it was not over at t.
OpenedBy(b, s, t) == /\ s \in DOMAIN ghost.opened
                     /\ ghost.opened[s].by = b
                     /\ t <= ghost.opened[s].at + Life

\* A browser drops its cookie when the session is over.
CookieOwned == \A b \in Browsers : cookie[b] # 0 => OpenedBy(b, cookie[b], now)

\* What a tab waits for or shows was admitted.
TabAdmitted ==
  /\ DOMAIN tab = Browsers
  /\ \A b \in Browsers :
       /\ Panel!Served(b) => OpenedBy(b, tab[b].in, tab[b].when)
       /\ tab[b].at = "residency" => (tab[b].right \/ ~guarded)

PanelInv == Panel!TypeOK /\ LoginsRecorded /\ HeldUntilEnded /\ CookieOwned /\ TabAdmitted

\* The promises are parts of the invariant.
LEMMA PanelPromise == PanelInv => Panel!ServedToTheAdmin /\ Panel!LoginLasts
<1> SUFFICES ASSUME PanelInv PROVE Panel!ServedToTheAdmin /\ Panel!LoginLasts
  OBVIOUS
<1>1. Panel!ServedToTheAdmin
  BY DEF PanelInv, TabAdmitted, HeldUntilEnded, OpenedBy, Panel!ServedToTheAdmin
<1>2. ASSUME NEW b \in Browsers, cookie[b] # 0, cookie[b] \notin ghost.ended
      PROVE  Panel!GetSession(cookie[b])
  <2>1. OpenedBy(b, cookie[b], now)
    BY <1>2 DEF PanelInv, CookieOwned
  <2>2. cookie[b] \in DOMAIN held /\ held[cookie[b]] = ghost.opened[cookie[b]].at + Life
    BY <1>2, <2>1 DEF PanelInv, HeldUntilEnded, OpenedBy
  <2>3. QED
    BY <2>1, <2>2 DEF OpenedBy, Panel!GetSession
<1>3. QED
  BY <1>1, <1>2 DEF Panel!LoginLasts

\* A tab turns to t, and nothing else is different.
LEMMA TabTurns ==
  ASSUME PanelInv, NEW b \in Browsers, NEW t, Panel!Show(b, t),
         t.at \in {"admitted", "shown"} => OpenedBy(b, t.in, t.when),
         t.at = "residency" => (t.right \/ ~guarded),
         UNCHANGED <<now, guarded, proc, held, cookie, ghost>>
  PROVE  PanelInv'
<1>1. /\ DOMAIN tab' = Browsers /\ tab'[b] = t
      /\ \A d \in Browsers : d # b => tab'[d] = tab[d]
  BY DEF Panel!Show, PanelInv, TabAdmitted
<1>2. \A d, s, x : OpenedBy(d, s, x)' <=> OpenedBy(d, s, x)
  BY DEF OpenedBy
<1>3. TabAdmitted'
  BY <1>1 DEF PanelInv, TabAdmitted, Panel!Served, OpenedBy
<1>4. Panel!TypeOK' /\ LoginsRecorded' /\ HeldUntilEnded' /\ CookieOwned'
  BY DEF PanelInv, Panel!TypeOK, LoginsRecorded, HeldUntilEnded, CookieOwned, OpenedBy
<1>5. QED
  BY <1>3, <1>4 DEF PanelInv

\* A request with a cookie of a live session is admitted in it.
LEMMA AskPanel ==
  ASSUME PanelInv, NEW b \in Browsers, NEW p, Panel!Ask(b, p)
  PROVE  PanelInv'
<1> DEFINE t == Panel!requireAuth(b, p)
<1>1. t.at \in {"admitted", "shown"} => OpenedBy(b, t.in, t.when)
  <2>1. ASSUME Panel!GetSession(cookie[b])
        PROVE  OpenedBy(b, cookie[b], now)
    BY <2>1, PanelAssumption DEF Panel!GetSession, PanelInv, Panel!TypeOK, LoginsRecorded, CookieOwned
  <2>2. QED
    BY <2>1 DEF Panel!requireAuth, Panel!Admitted, Panel!LoginForm
<1>2. t.at # "residency"
  BY DEF Panel!requireAuth, Panel!Admitted, Panel!LoginForm
<1>3. Panel!Show(b, t) /\ UNCHANGED <<now, guarded, proc, held, cookie, ghost>>
  BY DEF Panel!Ask
<1> HIDE DEF t
<1>4. QED
  BY <1>1, <1>2, <1>3, TabTurns

LEMMA InitPanel == Panel!Init => PanelInv
<1> SUFFICES ASSUME Panel!Init PROVE PanelInv
  OBVIOUS
<1>1. Panel!TypeOK /\ LoginsRecorded
  BY PanelAssumption DEF Panel!Init, Panel!TypeOK, LoginsRecorded
<1>2. HeldUntilEnded /\ CookieOwned
  BY DEF Panel!Init, HeldUntilEnded, CookieOwned
<1>3. TabAdmitted
  BY DEF Panel!Init, TabAdmitted, Panel!Blank, Panel!Served
<1>4. QED
  BY <1>1, <1>2, <1>3 DEF PanelInv

LEMMA TickPanel == ASSUME PanelInv, Panel!Tick PROVE PanelInv'
<1>1. /\ now' = now + 1 /\ now' \in 0..PanelTime
      /\ UNCHANGED <<guarded, proc, held, tab, ghost>>
  BY PanelAssumption DEF Panel!Tick, PanelInv, Panel!TypeOK
<1>2. ASSUME NEW b \in Browsers
      PROVE  /\ cookie'[b] \in {0, cookie[b]}
             /\ cookie'[b] # 0 => OpenedBy(b, cookie[b], now')
  <2>1. cookie[b] # 0 => /\ OpenedBy(b, cookie[b], now)
                         /\ ghost.opened[cookie[b]].at \in Nat
    BY DEF PanelInv, CookieOwned, LoginsRecorded, OpenedBy
  <2>2. cookie'[b] = IF cookie[b] # 0 /\ ghost.opened[cookie[b]].at + Life < now + 1
                     THEN 0 ELSE cookie[b]
    BY DEF Panel!Tick
  <2>3. QED
    BY <1>1, <2>1, <2>2, PanelAssumption DEF OpenedBy, PanelInv, Panel!TypeOK
<1>3. Panel!TypeOK'
  <2>1. cookie' \in [Browsers -> {0} \cup PanelSessions]
    BY <1>2 DEF Panel!Tick, PanelInv, Panel!TypeOK
  <2>2. QED
    BY <1>1, <2>1 DEF PanelInv, Panel!TypeOK
<1>4. LoginsRecorded' /\ HeldUntilEnded' /\ TabAdmitted'
  BY <1>1 DEF PanelInv, LoginsRecorded, HeldUntilEnded, TabAdmitted, Panel!Served, OpenedBy
<1>5. CookieOwned'
  BY <1>1, <1>2 DEF CookieOwned, OpenedBy
<1>6. QED
  BY <1>3, <1>4, <1>5 DEF PanelInv

\* The residency port opens, the panel opens, or the process ends: tabs that
\* wait are lost, sessions may end.
LEMMA ProcessPanel ==
  ASSUME PanelInv, Panel!OpenResidency \/ Panel!ListenAndServe \/ Panel!Restart
  PROVE  PanelInv'
<1>1. /\ DOMAIN tab' = Browsers
      /\ \A b \in Browsers : tab'[b] \in {tab[b], Panel!Blank}
  BY DEF PanelInv, TabAdmitted, Panel!OpenResidency, Panel!ListenAndServe, Panel!Restart, Panel!Lost
<1>2. /\ ghost' = [opened |-> ghost.opened, ended |-> ghost'.ended,
                   restarts |-> ghost'.restarts]
      /\ \/ ghost'.ended = ghost.ended /\ held' = held
         \/ ghost'.ended = ghost.ended \cup DOMAIN held /\ held' = <<>>
      /\ ghost'.restarts \in 0..MaxRestarts
      /\ ghost'.opened = ghost.opened
  <2>1. CASE UNCHANGED <<held, ghost>>
    BY <2>1 DEF PanelInv, Panel!TypeOK, LoginsRecorded
  <2>2. CASE ~ UNCHANGED <<held, ghost>>
    <3>1. /\ \/ ghost' = [ghost EXCEPT !.restarts = @ + 1] /\ held' = held
             \/ /\ ghost' = [ghost EXCEPT !.restarts = @ + 1, !.ended = @ \cup DOMAIN held]
                /\ held' = <<>>
          /\ ghost.restarts < MaxRestarts
      BY <2>2 DEF Panel!OpenResidency, Panel!ListenAndServe, Panel!Restart
    <3>2. ghost.restarts + 1 \in 0..MaxRestarts
      BY <3>1, PanelAssumption DEF PanelInv, Panel!TypeOK
    <3>3. ghost = [opened |-> ghost.opened, ended |-> ghost.ended, restarts |-> ghost.restarts]
      BY DEF PanelInv, LoginsRecorded
    <3>4. PICK e, r :
            /\ ghost' = [opened |-> ghost.opened, ended |-> e, restarts |-> r]
            /\ r \in 0..MaxRestarts
            /\ \/ e = ghost.ended /\ held' = held
               \/ e = ghost.ended \cup DOMAIN held /\ held' = <<>>
      BY <3>1, <3>2, <3>3
    <3>5. QED
      BY <3>4
  <2>3. QED
    BY <2>1, <2>2
<1>3. /\ proc' \in {"down", "residency", "up"}
      /\ UNCHANGED <<now, guarded, cookie>>
  BY DEF Panel!OpenResidency, Panel!ListenAndServe, Panel!Restart
<1>4. Panel!TypeOK'
  BY <1>2, <1>3 DEF PanelInv, Panel!TypeOK
<1>5. LoginsRecorded' /\ HeldUntilEnded'
  BY <1>2, <1>4 DEF PanelInv, Panel!TypeOK, LoginsRecorded, HeldUntilEnded
<1>6. CookieOwned'
  BY <1>2, <1>3 DEF PanelInv, CookieOwned, OpenedBy
<1>7. TabAdmitted'
  BY <1>1, <1>2, <1>3 DEF PanelInv, TabAdmitted, Panel!Served, OpenedBy, Panel!Blank
<1>8. QED
  BY <1>4, <1>5, <1>6, <1>7 DEF PanelInv

\* A form with the wrong password comes again; the right one opens a session
\* that nobody had.
LEMMA SubmitPanel ==
  ASSUME PanelInv, NEW b \in Browsers, NEW right \in BOOLEAN, Panel!Submit(b, right)
  PROVE  PanelInv'
<1>1. CASE ~Panel!Authenticate(right)
  <2>1. Panel!Show(b, Panel!LoginForm) /\ UNCHANGED <<now, guarded, proc, held, cookie, ghost>>
    BY <1>1 DEF Panel!Submit
  <2>2. Panel!LoginForm.at \notin {"admitted", "shown", "residency"}
    BY DEF Panel!LoginForm
  <2>3. QED
    BY <2>1, <2>2, TabTurns
<1>2. CASE Panel!Authenticate(right)
  <2> DEFINE left == PanelSessions \ DOMAIN ghost.opened
  <2>1. PICK s : s = CHOOSE n \in left : \A m \in left : n <= m
    OBVIOUS
  <2>2. left # {} /\ left \subseteq Nat
    BY <1>2, PanelAssumption DEF Panel!Submit, PanelInv, LoginsRecorded
  <2>3. \E n \in left : \A m \in left : n <= m
    BY <2>2, LeastNumber
  <2>4. s \in PanelSessions /\ s \notin DOMAIN ghost.opened
    BY <2>1, <2>3
  <2> DEFINE opened == [at |-> now, by |-> b]
  <2>5. /\ held' = Panel!Put(held, s, now + Life)
        /\ cookie' = [cookie EXCEPT ![b] = s]
        /\ ghost' = [ghost EXCEPT !.opened = Panel!Put(@, s, opened)]
        /\ Panel!Show(b, Panel!Admitted(s, "/"))
        /\ UNCHANGED <<now, guarded, proc>>
    BY <1>2, <2>1 DEF Panel!Submit
  <2>6. opened.at = now /\ opened.by = b /\ now \in Nat
    BY PanelAssumption DEF PanelInv, Panel!TypeOK
  <2> HIDE DEF left, opened
  <2>7. /\ ghost' = [opened |-> ghost'.opened, ended |-> ghost.ended,
                     restarts |-> ghost.restarts]
        /\ ghost'.ended = ghost.ended /\ ghost'.restarts = ghost.restarts
        /\ ghost'.opened = Panel!Put(ghost.opened, s, opened)
    BY <2>5 DEF PanelInv, LoginsRecorded
  <2>8. /\ DOMAIN ghost'.opened = DOMAIN ghost.opened \cup {s}
        /\ ghost'.opened[s] = opened
        /\ \A x \in DOMAIN ghost.opened : ghost'.opened[x] = ghost.opened[x]
    BY <2>4, <2>7 DEF Panel!Put
  <2>9. /\ DOMAIN held' = DOMAIN held \cup {s} /\ held'[s] = now + Life
        /\ \A x \in DOMAIN held : x # s => held'[x] = held[x]
    BY <2>5 DEF Panel!Put
  <2>10. /\ cookie'[b] = s /\ cookie' \in [Browsers -> {0} \cup PanelSessions]
         /\ \A d \in Browsers : d # b => cookie'[d] = cookie[d]
    BY <2>4, <2>5 DEF PanelInv, Panel!TypeOK
  <2>11. \A d, x, y : OpenedBy(d, x, y) => OpenedBy(d, x, y)'
    BY <2>8 DEF OpenedBy
  <2>12. \A x : x = now => OpenedBy(b, s, x)'
    BY <2>6, <2>8, PanelAssumption DEF OpenedBy
  <2>13. Panel!TypeOK'
    BY <2>4, <2>5, <2>6, <2>7, <2>8, <2>9, <2>10, PanelAssumption DEF PanelInv, Panel!TypeOK
  <2>14. LoginsRecorded'
    BY <2>4, <2>6, <2>7, <2>8 DEF PanelInv, LoginsRecorded
  <2>15. HeldUntilEnded'
    BY <2>4, <2>6, <2>7, <2>8, <2>9 DEF PanelInv, Panel!TypeOK, LoginsRecorded, HeldUntilEnded
  <2>16. CookieOwned'
    BY <2>5, <2>10, <2>11, <2>12 DEF PanelInv, CookieOwned
  <2>17. TabAdmitted'
    <3>1. /\ DOMAIN tab' = Browsers
          /\ tab'[b].at = "admitted" /\ tab'[b].in = s /\ tab'[b].when = now
          /\ \A d \in Browsers : d # b => tab'[d] = tab[d]
      BY <2>5 DEF Panel!Show, Panel!Admitted, PanelInv, TabAdmitted
    <3>2. QED
      BY <2>5, <2>11, <2>12, <3>1 DEF PanelInv, TabAdmitted, Panel!Served
  <2>18. QED
    BY <2>13, <2>14, <2>15, <2>16, <2>17 DEF PanelInv
<1>3. QED
  BY <1>1, <1>2

\* The session of the cookie ends for every tab.
LEMMA LogoutPanel ==
  ASSUME PanelInv, NEW b \in Browsers, Panel!Logout(b)
  PROVE  PanelInv'
<1>1. /\ held' = Panel!Keep(held, DOMAIN held \ {cookie[b]})
      /\ cookie' = [cookie EXCEPT ![b] = 0]
      /\ Panel!Show(b, Panel!LoginForm)
      /\ UNCHANGED <<now, guarded, proc>>
  BY DEF Panel!Logout
<1>2. /\ ghost' = [opened |-> ghost.opened, ended |-> ghost'.ended,
                   restarts |-> ghost.restarts]
      /\ ghost'.opened = ghost.opened /\ ghost'.restarts = ghost.restarts
      /\ ghost'.ended = ghost.ended \cup ({cookie[b]} \cap DOMAIN held)
  BY DEF Panel!Logout, PanelInv, LoginsRecorded
<1>3. /\ DOMAIN held' = DOMAIN held \ {cookie[b]}
      /\ \A s \in DOMAIN held' : held'[s] = held[s]
  BY <1>1 DEF Panel!Keep
<1>4. /\ cookie' \in [Browsers -> {0} \cup PanelSessions] /\ cookie'[b] = 0
      /\ \A d \in Browsers : d # b => cookie'[d] = cookie[d]
  BY <1>1 DEF PanelInv, Panel!TypeOK
<1>5. Panel!TypeOK'
  BY <1>1, <1>2, <1>3, <1>4 DEF PanelInv, Panel!TypeOK
<1>6. LoginsRecorded' /\ HeldUntilEnded'
  BY <1>2, <1>3 DEF PanelInv, Panel!TypeOK, LoginsRecorded, HeldUntilEnded
<1>7. CookieOwned'
  BY <1>1, <1>2, <1>4 DEF PanelInv, CookieOwned, OpenedBy
<1>8. TabAdmitted'
  <2>1. /\ DOMAIN tab' = Browsers /\ tab'[b].at = "login"
        /\ \A d \in Browsers : d # b => tab'[d] = tab[d]
    BY <1>1 DEF Panel!Show, Panel!LoginForm, PanelInv, TabAdmitted
  <2>2. QED
    BY <1>1, <1>2, <2>1 DEF PanelInv, TabAdmitted, Panel!Served, OpenedBy
<1>9. QED
  BY <1>5, <1>6, <1>7, <1>8 DEF PanelInv

\* Requests that only move a tab.
LEMMA TabPanel ==
  ASSUME PanelInv, NEW b \in Browsers, NEW right \in BOOLEAN,
         \/ Panel!Window(b) \/ Panel!Handle(b)
         \/ Panel!AskResidency(b, right) \/ Panel!HandleResidency(b)
  PROVE  PanelInv'
<1>1. CASE Panel!Window(b) \/ Panel!HandleResidency(b)
  <2>1. PICK t \in {Panel!LoginForm, Panel!Blank} : Panel!Show(b, t)
    BY <1>1 DEF Panel!Window, Panel!HandleResidency
  <2>2. t.at \notin {"admitted", "shown", "residency"}
    BY <2>1 DEF Panel!LoginForm, Panel!Blank
  <2>3. QED
    BY <1>1, <2>1, <2>2, TabTurns DEF Panel!Window, Panel!HandleResidency
<1>2. CASE Panel!Handle(b)
  <2>1. PICK t : t = [at |-> "shown", in |-> tab[b].in, page |-> tab[b].page,
                      when |-> tab[b].when]
    OBVIOUS
  <2>2. t.at = "shown" /\ OpenedBy(b, t.in, t.when)
    BY <1>2, <2>1 DEF Panel!Handle, PanelInv, TabAdmitted, Panel!Served
  <2>3. QED
    BY <1>2, <2>1, <2>2, TabTurns DEF Panel!Handle
<1>3. CASE Panel!AskResidency(b, right)
  <2>1. PICK t : t = IF Panel!BasicAuth(right) THEN [at |-> "residency", right |-> right] ELSE Panel!Blank
    OBVIOUS
  <2>2. /\ t.at \notin {"admitted", "shown"}
        /\ t.at = "residency" => (t.right \/ ~guarded)
    BY <2>1 DEF Panel!BasicAuth, Panel!Blank
  <2>3. QED
    BY <1>3, <2>1, <2>2, TabTurns DEF Panel!AskResidency
<1>4. QED
  BY <1>1, <1>2, <1>3

LEMMA InductivePanel == PanelInv /\ [Panel!Next]_(Panel!panelVars) => PanelInv'
<1> SUFFICES ASSUME PanelInv, [Panel!Next]_(Panel!panelVars) PROVE PanelInv'
  OBVIOUS
<1>1. CASE Panel!Tick
  BY <1>1, TickPanel
<1>2. CASE Panel!OpenResidency \/ Panel!ListenAndServe \/ Panel!Restart
  BY <1>2, ProcessPanel
<1>3. CASE \E b \in Browsers : (\E p \in Panel!Pages : Panel!Ask(b, p)) \/ Panel!handleLoginPage(b)
  BY <1>3, AskPanel DEF Panel!handleLoginPage
<1>4. CASE \E b \in Browsers, right \in BOOLEAN : Panel!Submit(b, right)
  BY <1>4, SubmitPanel
<1>5. CASE \E b \in Browsers : Panel!Logout(b)
  BY <1>5, LogoutPanel
<1>6. CASE \E b \in Browsers, right \in BOOLEAN :
             Panel!Window(b) \/ Panel!Handle(b) \/ Panel!AskResidency(b, right) \/ Panel!HandleResidency(b)
  BY <1>6, TabPanel
<1>7. CASE UNCHANGED Panel!panelVars
  BY <1>7 DEF Panel!panelVars, PanelInv, Panel!TypeOK, LoginsRecorded, HeldUntilEnded, CookieOwned,
              TabAdmitted, Panel!Served, OpenedBy
<1>8. QED
  <2>1. ASSUME NEW b \in Browsers, Panel!Window(b) \/ Panel!Handle(b) \/ Panel!HandleResidency(b)
        PROVE  PanelInv'
    BY <1>6, <2>1
  <2>2. QED
    BY <1>1, <1>2, <1>3, <1>4, <1>5, <1>6, <1>7, <2>1 DEF Panel!Next

\* Sessions, cookies and the state of the process keep their types
\* (adminAuthStore of auth.go).
THEOREM PanelTypeCorrect == Panel!Spec => []Panel!TypeOK
<1>1. PanelInv => Panel!TypeOK
  BY DEF PanelInv
<1>2. QED
  BY InitPanel, InductivePanel, <1>1, PTL DEF Panel!Spec

\* A page of the panel reaches a browser only in a session which that browser
\* opened with the password and whose life was not over, an ended session is
\* never live again, and the residency pages are handled without the password
\* only where none is set: for any interleaving of logins, logouts, requests
\* admitted and handled later, restarts and the end of a process that has no
\* credentials.
THEOREM PagesServedToTheAdmin == Panel!Spec => []Panel!ServedToTheAdmin
  BY InitPanel, InductivePanel, PanelPromise, PTL DEF Panel!Spec

\* Who has logged in is not asked again before the life of his session is
\* over, he logs out, or the process ends.
THEOREM LoginsLast == Panel!Spec => []Panel!LoginLasts
  BY InitPanel, InductivePanel, PanelPromise, PTL DEF Panel!Spec

------------------------------------------------------------------------------

(* The forms. *)

FormTexts == [client : FormClients, edition : 0..MaxChanges, by : {"portal", "tool", "command"}]

FormNames == [name : {Clean[NameOf[c]] : c \in FormClients},
              form : {Templates[t].form : t \in DOMAIN Templates}, day : 0..MaxChanges]

FormOrders == [at : {"rendered", "printing", "sent", "got"}, name : FormNames, text : FormTexts,
               ext : {"go", "html", "docx"}, alone : BOOLEAN, got : FormTexts \cup {Desk!NoFile}]

FormsTyped == /\ shelf \in [Desk!Files -> FormTexts \cup {Desk!NoFile}]
              /\ orders \in [Orders -> {Desk!Open, [at |-> "failed"]} \cup FormOrders]
              /\ tpl \in [DOMAIN Templates -> {"absent", "standard", "edited"}]
              /\ edition \in 0..MaxChanges /\ day \in 0..MaxChanges

\* A file holds what was written for a client of the name it has.
FilesNamed == \A f \in Desk!Files : shelf[f] # Desk!NoFile => Clean[NameOf[shelf[f].client]] = f.name

OrdersNamed == \A o \in Orders : orders[o] \in FormOrders =>
                 /\ orders[o].name.name = Clean[NameOf[orders[o].text.client]]
                 /\ orders[o].at = "printing" => orders[o].ext = "go"

LastFile(r) == Desk!As(r.name, Desk!LastExt(r.ext))

\* What was answered is in its file, and is the order's own if it was alone.
AnswerKept == \A o \in Orders : orders[o].at = "sent" =>
                /\ shelf[LastFile(orders[o])] # Desk!NoFile
                /\ orders[o].alone => shelf[LastFile(orders[o])] = orders[o].text

\* No two orders for one file, both in work, are alone with it.
OrdersApart == \A o, p \in Orders :
                 o # p /\ Desk!InWork(o) /\ Desk!InWork(p) /\ orders[o].name = orders[p].name =>
                   ~ orders[o].alone

FormInv == FormsTyped /\ FilesNamed /\ OrdersNamed /\ AnswerKept /\ OrdersApart /\ Desk!OwnForm

\* A text is not the mark of a missing file.
LEMMA TextIsFile ==
  \A x \in FormTexts : x # Desk!NoFile
<1>1. ASSUME NEW x \in FormTexts, x = Desk!NoFile
      PROVE  FALSE
  <2>1. DOMAIN x = {"client", "edition", "by"}
    BY DEF FormTexts
  <2>2. DOMAIN x = {"client"}
    BY <1>1 DEF Desk!NoFile
  <2>3. QED
    BY <2>1, <2>2
<1>2. QED
  BY <1>1

\* An order past its first step has all the fields.
LEMMA OrderFields ==
  ASSUME FormsTyped, NEW o \in Orders
  PROVE  /\ orders[o] \in FormOrders <=> orders[o].at \in {"rendered", "printing", "sent", "got"}
         /\ orders[o].at = "open" <=> orders[o] = Desk!Open
  BY DEF FormsTyped, FormOrders, Desk!Open

\* The file of an order is one of the files.
LEMMA OrderFile ==
  ASSUME NEW n \in FormNames, NEW e \in {"go", "html", "docx", "pdf"}
  PROVE  /\ e # "go" => Desk!As(n, e) \in Desk!Files
         /\ Desk!As(n, Desk!LastExt(e)) \in Desk!Files /\ Desk!As(n, Desk!FirstExt(e)) \in Desk!Files
         /\ Desk!As(n, e).name = n.name
  BY DEF FormNames, Desk!As, Desk!Files, Desk!LastExt, Desk!FirstExt

\* Names, with their endings, tell the files apart.
LEMMA FilesApart ==
  ASSUME NEW n \in FormNames, NEW m \in FormNames, NEW d, NEW e, Desk!As(n, d) = Desk!As(m, e)
  PROVE  n = m /\ d = e
  BY DEF FormNames, Desk!As

LEMMA InitForms ==
  ASSUME Desk!Init PROVE FormInv
<1>1. FormsTyped
  BY DeskAssumption DEF FormsTyped, Desk!Init
<1>2. \A o \in Orders : orders[o] = Desk!Open /\ orders[o].at = "open"
  BY DEF Desk!Init, Desk!Open
<1>3. \A f \in Desk!Files : shelf[f] = Desk!NoFile
  BY DEF Desk!Init
<1>4. \A o \in Orders : orders[o] \notin FormOrders /\ ~ Desk!InWork(o)
  BY <1>2 DEF FormOrders, Desk!InWork
<1>5. QED
  BY <1>1, <1>2, <1>3, <1>4
     DEF FormInv, FilesNamed, OrdersNamed, AnswerKept, OrdersApart, Desk!OwnForm

\* Steps that touch neither the files nor the orders.
LEMMA AsideForms ==
  ASSUME FormInv, UNCHANGED <<shelf, orders>>, FormsTyped' PROVE FormInv'
  BY DEF FormInv, FilesNamed, OrdersNamed, AnswerKept, OrdersApart, Desk!OwnForm, Desk!InWork

LEMMA ChangeForms ==
  ASSUME FormInv, Desk!CreateDefaultTemplates \/ Desk!EditTemplate \/ Desk!EditClients \/ Desk!NextDay
  PROVE  FormInv'
<1>1. ASSUME Desk!CanChange
      PROVE  edition + 1 \in 0..MaxChanges /\ day + 1 \in 0..MaxChanges
  <2> DEFINE E == {t \in DOMAIN tpl : tpl[t] = "edited"}
  <2>1. IsFiniteSet(E)
    <3>1. E \subseteq DOMAIN Templates
      BY DEF FormInv, FormsTyped
    <3>2. QED
      BY <3>1, DeskAssumption, FS_Subset
  <2>2. Cardinality(E) \in Nat
    BY <2>1, FS_CardinalityType
  <2>a. Desk!Cardinality(E) = Cardinality(E)
    BY DEF Desk!Cardinality, Cardinality
  <2>3. day + edition + Cardinality(E) < MaxChanges
    BY <1>1, <2>a DEF Desk!CanChange
  <2> HIDE DEF E
  <2>4. QED
    BY <2>2, <2>3, DeskAssumption DEF FormInv, FormsTyped
<1>2. FormsTyped' /\ UNCHANGED <<shelf, orders>>
  <2>1. CASE Desk!CreateDefaultTemplates
    BY <2>1 DEF FormInv, FormsTyped, Desk!CreateDefaultTemplates
  <2>2. CASE Desk!EditTemplate
    BY <2>2 DEF FormInv, FormsTyped, Desk!EditTemplate
  <2>3. CASE Desk!EditClients
    BY <1>1, <2>3 DEF FormInv, FormsTyped, Desk!EditClients
  <2>4. CASE Desk!NextDay
    BY <1>1, <2>4 DEF FormInv, FormsTyped, Desk!NextDay
  <2>5. QED
    BY <2>1, <2>2, <2>3, <2>4
<1>3. QED
  BY <1>2, AsideForms

\* An order fails: it is out of work, and the others are as they were.
LEMMA FailForms ==
  ASSUME FormInv, NEW o \in Orders, orders' = [orders EXCEPT ![o] = [at |-> "failed"]],
         UNCHANGED <<shelf, tpl, edition, day>>
  PROVE  FormInv'
<1>1. FormsTyped'
  BY DEF FormInv, FormsTyped
<1>2. orders'[o].at = "failed" /\ orders'[o] \notin FormOrders /\ \A p \in Orders : p # o => orders'[p] = orders[p]
  BY DEF FormInv, FormsTyped, FormOrders
<1>3. QED
  BY <1>1, <1>2 DEF FormInv, FilesNamed, OrdersNamed, AnswerKept, OrdersApart, Desk!OwnForm, Desk!InWork

LEMMA RenderForms ==
  ASSUME FormInv, NEW o \in Orders, NEW c \in FormClients, NEW t \in DOMAIN Templates,
         NEW by \in {"portal", "tool", "command"}, Desk!RenderTemplate(o, c, t, by)
  PROVE  FormInv'
<1>1. CASE ~ Desk!GetTemplate(t) \/ ~ Desk!Parses(t)
  BY <1>1, FailForms DEF Desk!RenderTemplate
<1>2. CASE Desk!GetTemplate(t) /\ Desk!Parses(t)
  <2> DEFINE name == Desk!FileName(c, t)
             others == Desk!Shares(o, name)
             new == [at |-> "rendered", name |-> name, text |-> Desk!buildTemplateData(c, by),
                     ext |-> Desk!templateExtension(t), alone |-> others = {}, got |-> Desk!NoFile]
  <2>1. /\ orders' = [p \in Orders |->
               IF p = o THEN new
               ELSE IF p \in others THEN [orders[p] EXCEPT !.alone = FALSE]
               ELSE orders[p]]
        /\ UNCHANGED <<shelf, tpl, edition, day>>
    BY <1>2 DEF Desk!RenderTemplate
  <2>2. new \in FormOrders /\ new.name.name = Clean[NameOf[new.text.client]]
    <3>1. name \in FormNames /\ name.name = Clean[NameOf[c]]
      BY DEF Desk!FileName, Desk!sanitizeFilename, FormNames, FormInv, FormsTyped
    <3>2. Desk!buildTemplateData(c, by) \in FormTexts /\ Desk!buildTemplateData(c, by).client = c
      BY DEF Desk!buildTemplateData, FormTexts, FormInv, FormsTyped
    <3>3. Desk!templateExtension(t) \in {"go", "html", "docx"}
      BY DeskAssumption DEF Desk!templateExtension
    <3>4. (others = {}) \in BOOLEAN
      OBVIOUS
    <3> HIDE DEF name, others
    <3>5. QED
      BY <3>1, <3>2, <3>3, <3>4 DEF FormOrders
  <2>3. new.at = "rendered" /\ new.name = name /\ (new.alone <=> others = {})
    OBVIOUS
  <2>4. \A p \in others : p \in Orders /\ p # o /\ Desk!InWork(p) /\ orders[p].name = name
    BY DEF Desk!Shares
  <2>5. \A p \in Orders : p # o /\ Desk!InWork(p) /\ orders[p].name = name => p \in others
    BY DEF Desk!Shares
  <2> HIDE DEF new, others, name
  <2>6. orders'[o] = new /\ \A p \in Orders : p # o =>
          /\ p \notin others => orders'[p] = orders[p]
          /\ p \in others => orders'[p] = [orders[p] EXCEPT !.alone = FALSE]
    BY <2>1
  <2>7. \A p \in others : orders[p] \in FormOrders
    BY <2>4, OrderFields DEF FormInv, Desk!InWork
  <2>8. \A p \in others : /\ orders'[p] \in FormOrders
                          /\ orders'[p].at = orders[p].at /\ orders'[p].name = orders[p].name
                          /\ orders'[p].text = orders[p].text /\ orders'[p].ext = orders[p].ext
                          /\ ~ orders'[p].alone /\ orders'[p].got = orders[p].got
    <3>1. ASSUME NEW r \in FormOrders
          PROVE  LET q == [r EXCEPT !.alone = FALSE] IN
                 /\ q \in FormOrders /\ q.at = r.at /\ q.name = r.name /\ q.text = r.text
                 /\ q.ext = r.ext /\ q.alone = FALSE /\ q.got = r.got
      BY DEF FormOrders
    <3>2. ASSUME NEW p \in others
          PROVE  orders'[p] = [orders[p] EXCEPT !.alone = FALSE] /\ orders[p] \in FormOrders
      BY <2>4, <2>6, <2>7
    <3>3. QED
      BY <3>1, <3>2
  <2>9. FormsTyped'
    <3>1. \A p \in Orders : orders'[p] \in {Desk!Open, [at |-> "failed"]} \cup FormOrders
      BY <2>2, <2>6, <2>8 DEF FormInv, FormsTyped
    <3>2. QED
      BY <2>1, <3>1 DEF FormInv, FormsTyped
  <2>10. FilesNamed'
    BY <2>1 DEF FormInv, FilesNamed
  <2>11. OrdersNamed'
    <3>1. ASSUME NEW p \in Orders, orders'[p] \in FormOrders
          PROVE  /\ orders'[p].name.name = Clean[NameOf[orders'[p].text.client]]
                 /\ orders'[p].at = "printing" => orders'[p].ext = "go"
      <4>1. CASE p = o
        BY <2>2, <2>3, <2>6, <4>1
      <4>2. CASE p # o /\ p \in others
        <5>1. orders[p] \in FormOrders
          BY <2>7, <4>2
        <5>2. QED
          BY <2>8, <4>2, <5>1 DEF FormInv, OrdersNamed
      <4>3. CASE p # o /\ p \notin others
        BY <2>6, <3>1, <4>3 DEF FormInv, OrdersNamed
      <4>4. QED
        BY <4>1, <4>2, <4>3
    <3>2. QED
      BY <3>1 DEF OrdersNamed
  <2>12. AnswerKept'
    BY <2>1, <2>3, <2>6, <2>8 DEF FormInv, AnswerKept, LastFile
  <2>13. OrdersApart'
    <3>1. ASSUME NEW p \in Orders, NEW q \in Orders, p # q, Desk!InWork(p)', Desk!InWork(q)',
                 orders'[p].name = orders'[q].name
          PROVE  ~ orders'[p].alone
      <4>1. CASE p = o
        <5>1. q \in others
          BY <2>3, <2>5, <2>6, <2>8, <3>1, <4>1 DEF Desk!InWork
        <5>2. QED
          BY <2>3, <2>6, <4>1, <5>1
      <4>2. CASE q = o
        BY <2>3, <2>5, <2>6, <2>8, <3>1, <4>2 DEF Desk!InWork
      <4>3. CASE p # o /\ q # o
        <5>1. CASE p \in others
          BY <2>8, <5>1
        <5>2. CASE p \notin others
          <6>1. orders'[p] = orders[p] /\ orders'[q].at = orders[q].at /\ orders'[q].name = orders[q].name
            BY <2>6, <2>8, <4>3, <5>2
          <6>2. QED
            BY <3>1, <6>1 DEF Desk!InWork, FormInv, OrdersApart
        <5>3. QED
          BY <5>1, <5>2
      <4>4. QED
        BY <4>1, <4>2, <4>3
    <3>2. QED
      BY <3>1 DEF OrdersApart
  <2>14. Desk!OwnForm'
    <3>1. \A p \in Orders : orders'[p].at = "got" => orders'[p] = orders[p]
      BY <2>3, <2>4, <2>6, <2>8 DEF Desk!InWork
    <3>2. QED
      BY <3>1 DEF FormInv, Desk!OwnForm
  <2>15. QED
    BY <2>9, <2>10, <2>11, <2>12, <2>13, <2>14 DEF FormInv
<1>3. QED
  BY <1>1, <1>2

\* A file is written by an order in work and goes on to its next state.
LEMMA WriteForms ==
  ASSUME FormInv, NEW o \in Orders, NEW ext \in {"html", "pdf", "docx"}, NEW next \in {"printing", "sent"},
         Desk!InWork(o), Desk!Writes(o, ext), orders' = [orders EXCEPT ![o].at = next],
         next = "sent" => ext = Desk!LastExt(orders[o].ext), next = "printing" => orders[o].ext = "go",
         UNCHANGED <<tpl, edition, day>>
  PROVE  FormInv'
<1>1. orders[o] \in FormOrders
  BY OrderFields DEF FormInv, Desk!InWork
<1> DEFINE file == Desk!As(orders[o].name, ext)
<1>2. file \in Desk!Files /\ file.name = orders[o].name.name /\ orders[o].name \in FormNames
      /\ orders[o].text \in FormTexts
  BY <1>1, OrderFile DEF FormOrders
<1>3. shelf' = [shelf EXCEPT ![file] = orders[o].text]
  BY DEF Desk!Writes
<1>4. /\ orders'[o] \in FormOrders /\ orders'[o].at = next /\ orders'[o].name = orders[o].name
      /\ orders'[o].text = orders[o].text /\ orders'[o].ext = orders[o].ext
      /\ orders'[o].alone = orders[o].alone
      /\ \A p \in Orders : p # o => orders'[p] = orders[p]
  BY <1>1 DEF FormOrders, FormInv, FormsTyped
<1>a. shelf'[file] = orders[o].text /\ \A f \in Desk!Files : f # file => shelf'[f] = shelf[f]
  BY <1>2, <1>3 DEF FormInv, FormsTyped
<1>b. file = Desk!As(orders[o].name, ext)
  OBVIOUS
<1> HIDE DEF file
<1>5. FormsTyped'
  <2>1. \A p \in Orders : orders'[p] \in {Desk!Open, [at |-> "failed"]} \cup FormOrders
    BY <1>4 DEF FormInv, FormsTyped
  <2>2. QED
    BY <1>2, <1>3, <1>4, <2>1 DEF FormInv, FormsTyped
<1>6. FilesNamed'
  BY <1>1, <1>2, <1>a DEF FormInv, FilesNamed, OrdersNamed
<1>7. OrdersNamed'
  <2>1. orders[o].name.name = Clean[NameOf[orders[o].text.client]]
    BY <1>1 DEF FormInv, OrdersNamed
  <2>2. ASSUME NEW p \in Orders, p # o, orders'[p] \in FormOrders
        PROVE  /\ orders'[p].name.name = Clean[NameOf[orders'[p].text.client]]
               /\ orders'[p].at = "printing" => orders'[p].ext = "go"
    BY <1>4, <2>2 DEF FormInv, OrdersNamed
  <2>3. QED
    BY <1>4, <2>1, <2>2 DEF OrdersNamed
<1>8. AnswerKept'
  <2>1. ASSUME NEW p \in Orders, orders'[p].at = "sent"
        PROVE  /\ shelf'[LastFile(orders'[p])] # Desk!NoFile
               /\ orders'[p].alone => shelf'[LastFile(orders'[p])] = orders'[p].text
    <3>1. CASE p = o
      <4>1. LastFile(orders'[o]) = file
        BY <1>4, <1>b, <2>1, <3>1 DEF LastFile
      <4>2. QED
        BY <1>2, <1>4, <1>a, <3>1, <4>1, TextIsFile
    <3>2. CASE p # o
      <4>1. orders'[p] = orders[p] /\ orders[p].at = "sent" /\ orders[p] \in FormOrders
        BY <1>4, <2>1, <3>2, OrderFields DEF FormInv
      <4>2. orders[p].name \in FormNames /\ orders[p].ext \in {"go", "html", "docx"}
            /\ LastFile(orders[p]) \in Desk!Files
        BY <4>1, OrderFile DEF FormOrders, LastFile
      <4>3. CASE LastFile(orders[p]) = file
        <5>1. orders[p].name = orders[o].name
          BY <1>2, <1>b, <4>2, <4>3, FilesApart DEF LastFile
        <5>2. ~ orders[p].alone
          BY <3>2, <4>1, <5>1 DEF FormInv, OrdersApart, Desk!InWork
        <5>3. QED
          BY <1>2, <1>a, <4>1, <4>3, <5>2, TextIsFile
      <4>4. CASE LastFile(orders[p]) # file
        BY <1>a, <4>1, <4>2, <4>4 DEF FormInv, AnswerKept
      <4>5. QED
        BY <4>3, <4>4
    <3>3. QED
      BY <3>1, <3>2
  <2>2. QED
    BY <2>1 DEF AnswerKept
<1>9. OrdersApart'
  BY <1>4 DEF FormInv, OrdersApart, Desk!InWork
<1>10. Desk!OwnForm'
  BY <1>4 DEF FormInv, Desk!OwnForm
<1>11. QED
  BY <1>5, <1>6, <1>7, <1>8, <1>9, <1>10 DEF FormInv

LEMMA PrintForms ==
  ASSUME FormInv, NEW o \in Orders, Desk!WriteFile(o) \/ Desk!GeneratePDF(o) PROVE FormInv'
<1>1. Desk!InWork(o) /\ orders[o] \in FormOrders /\ orders[o].ext \in {"go", "html", "docx"}
  <2>1. Desk!InWork(o)
    BY DEF Desk!WriteFile, Desk!GeneratePDF, Desk!InWork
  <2>2. QED
    BY <2>1, OrderFields DEF FormInv, Desk!InWork, FormOrders
<1>2. CASE Desk!WriteFile(o)
  <2>1. CASE orders' = [orders EXCEPT ![o] = [at |-> "failed"]] /\ UNCHANGED shelf
    BY <1>2, <2>1, FailForms DEF Desk!WriteFile
  <2>2. CASE /\ Desk!Writes(o, Desk!FirstExt(orders[o].ext))
             /\ orders' = [orders EXCEPT ![o].at = IF orders[o].ext = "go" THEN "printing" ELSE "sent"]
    <3>1. Desk!FirstExt(orders[o].ext) \in {"html", "pdf", "docx"}
      BY <1>1 DEF Desk!FirstExt
    <3>2. orders[o].ext # "go" => Desk!FirstExt(orders[o].ext) = Desk!LastExt(orders[o].ext)
      BY DEF Desk!FirstExt, Desk!LastExt
    <3>3. UNCHANGED <<tpl, edition, day>>
      BY <1>2 DEF Desk!WriteFile
    <3>4. CASE orders[o].ext = "go"
      <4>1. orders' = [orders EXCEPT ![o].at = "printing"]
        BY <2>2, <3>4
      <4>2. QED
        BY <1>1, <2>2, <3>1, <3>3, <3>4, <4>1, WriteForms
    <3>5. CASE orders[o].ext # "go"
      <4>1. orders' = [orders EXCEPT ![o].at = "sent"]
        BY <2>2, <3>5
      <4>2. QED
        BY <1>1, <2>2, <3>1, <3>2, <3>3, <3>5, <4>1, WriteForms
    <3>6. QED
      BY <3>4, <3>5
  <2>3. QED
    BY <1>2, <2>1, <2>2 DEF Desk!WriteFile
<1>3. CASE Desk!GeneratePDF(o)
  <2>1. CASE orders' = [orders EXCEPT ![o] = [at |-> "failed"]] /\ UNCHANGED shelf
    BY <1>3, <2>1, FailForms DEF Desk!GeneratePDF
  <2>2. CASE Desk!generatePDFChrome(o) /\ orders' = [orders EXCEPT ![o].at = "sent"]
    <3>1. "pdf" = Desk!LastExt(orders[o].ext)
      BY <1>1, <1>3 DEF Desk!GeneratePDF, FormInv, OrdersNamed, Desk!LastExt
    <3>2. Desk!Writes(o, "pdf") /\ UNCHANGED <<tpl, edition, day>>
      BY <1>3, <2>2 DEF Desk!generatePDFChrome, Desk!GeneratePDF
    <3>3. QED
      BY <1>1, <2>2, <3>1, <3>2, WriteForms
  <2>3. QED
    BY <1>3, <2>1, <2>2 DEF Desk!GeneratePDF
<1>4. QED
  BY <1>2, <1>3

LEMMA ReadForms ==
  ASSUME FormInv, NEW o \in Orders, Desk!Reads(o) PROVE FormInv'
<1> DEFINE file == LastFile(orders[o])
<1>1. orders[o] \in FormOrders /\ orders[o].at = "sent"
  BY OrderFields DEF FormInv, Desk!Reads
<1>2. orders' = [orders EXCEPT ![o].at = "got", ![o].got = shelf[file]] /\ UNCHANGED <<shelf, tpl, edition, day>>
  BY DEF Desk!Reads, LastFile
<1>3. file \in Desk!Files /\ file.name = orders[o].name.name
  BY <1>1, OrderFile DEF FormOrders, LastFile, Desk!LastExt
<1>4. shelf[file] \in FormTexts \cup {Desk!NoFile} /\ shelf[file] # Desk!NoFile
      /\ (orders[o].alone => shelf[file] = orders[o].text)
  BY <1>1, <1>3 DEF FormInv, FormsTyped, AnswerKept
<1>5. Clean[NameOf[shelf[file].client]] = Clean[NameOf[orders[o].text.client]]
  BY <1>1, <1>3, <1>4 DEF FormInv, FilesNamed, OrdersNamed
<1> HIDE DEF file
<1>6. /\ orders'[o] \in FormOrders /\ orders'[o].at = "got" /\ orders'[o].name = orders[o].name
      /\ orders'[o].text = orders[o].text /\ orders'[o].got = shelf[file]
      /\ orders'[o].alone = orders[o].alone
      /\ \A p \in Orders : p # o => orders'[p] = orders[p]
  BY <1>1, <1>2, <1>4 DEF FormOrders, FormInv, FormsTyped
<1>7. FormsTyped'
  BY <1>2, <1>6 DEF FormInv, FormsTyped
<1>8. FilesNamed' /\ OrdersNamed'
  <2>1. orders[o].name.name = Clean[NameOf[orders[o].text.client]]
    BY <1>1 DEF FormInv, OrdersNamed
  <2>2. ASSUME NEW p \in Orders, p # o, orders'[p] \in FormOrders
        PROVE  /\ orders'[p].name.name = Clean[NameOf[orders'[p].text.client]]
               /\ orders'[p].at = "printing" => orders'[p].ext = "go"
    BY <1>6, <2>2 DEF FormInv, OrdersNamed
  <2>3. OrdersNamed'
    BY <1>6, <2>1, <2>2 DEF OrdersNamed
  <2>4. FilesNamed'
    BY <1>2 DEF FormInv, FilesNamed
  <2>5. QED
    BY <2>3, <2>4
<1>9. AnswerKept' /\ OrdersApart'
  <2>1. AnswerKept'
    BY <1>2, <1>6 DEF FormInv, AnswerKept
  <2>2. ASSUME NEW p \in Orders, NEW q \in Orders, p # q, Desk!InWork(p)', Desk!InWork(q)',
               orders'[p].name = orders'[q].name
        PROVE  ~ orders'[p].alone
    <3>1. p # o /\ q # o
      BY <1>6, <2>2 DEF Desk!InWork
    <3>2. QED
      BY <1>6, <2>2, <3>1 DEF FormInv, OrdersApart, Desk!InWork
  <2>3. QED
    BY <2>1, <2>2 DEF OrdersApart
<1>10. Desk!OwnForm'
  BY <1>4, <1>5, <1>6 DEF FormInv, Desk!OwnForm
<1>11. QED
  BY <1>7, <1>8, <1>9, <1>10 DEF FormInv

LEMMA InductiveForms ==
  ASSUME FormInv, [Desk!Next]_(Desk!formVars) PROVE FormInv'
<1>1. CASE Desk!cmdGenerate
  BY <1>1, ChangeForms, RenderForms DEF Desk!cmdGenerate
<1>2. CASE Desk!EditTemplate \/ Desk!EditClients \/ Desk!NextDay
  BY <1>2, ChangeForms
<1>3. ASSUME NEW o \in Orders, NEW c \in FormClients,
             Desk!handleGenerateSubmit(o, c) \/ Desk!generate_document(o, c)
      PROVE  FormInv'
  <2>1. Desk!handleGenerate \subseteq DOMAIN Templates
    BY DEF Desk!handleGenerate, Desk!ListTemplates, FormInv, FormsTyped
  <2>2. QED
    BY <1>3, <2>1, RenderForms DEF Desk!handleGenerateSubmit, Desk!generate_document
<1>4. ASSUME NEW o \in Orders,
             Desk!WriteFile(o) \/ Desk!GeneratePDF(o) \/ Desk!handleDownload(o) \/ Desk!ReadInline(o)
      PROVE  FormInv'
  BY <1>4, PrintForms, ReadForms DEF Desk!handleDownload, Desk!ReadInline
<1>5. CASE UNCHANGED Desk!formVars
  <2>1. UNCHANGED <<shelf, orders, tpl, edition, day>>
    BY <1>5 DEF Desk!formVars
  <2>2. FormsTyped'
    BY <2>1 DEF FormInv, FormsTyped
  <2>3. QED
    BY <2>1, <2>2, AsideForms
<1>6. QED
  BY <1>1, <1>2, <1>3, <1>4, <1>5 DEF Desk!Next

(* Who is sent for his form finds one of a client of his name, and his own *)
(* unless another order for the same file was in work with his, whatever   *)
(* overlaps and fails (handleGenerateSubmit, RenderTemplate).              *)
THEOREM FormsAreOwn == Desk!Init /\ [][Desk!Next]_(Desk!formVars) => [](Desk!TypeOK /\ Desk!OwnForm)
<1>1. FormInv => Desk!TypeOK /\ Desk!OwnForm
  BY DEF FormInv, FormsTyped, Desk!TypeOK, FormTexts
<1>2. QED
  BY <1>1, InitForms, InductiveForms, PTL

==================================================================================
