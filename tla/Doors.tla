--------------------------------- MODULE Doors ---------------------------------
(***************************************************************************)
(* The ways in: the keys of the MCP server and its rate limit, the portal  *)
(* of the residents and the forms it hands out, and the panel.  Each keeps *)
(* state of its own; the clock is the same for all.                        *)
(***************************************************************************)
EXTENDS Naturals, Sequences, FiniteSets

CONSTANTS AllKeys, Requests, TTL, MaxLookup, KeyTime,                  \* ApiAccess
          Addresses, Rps, RateTime,                                 \* RateLimit
          PortalClients, Emails, EmailOf, LinkLife, SessionLife,
          Links, PortalSessions, PortalTime,                        \* Portal
          Browsers, Life, PanelSessions, PanelTime, MaxRestarts,    \* PanelDoor
          FormClients, NameOf, Clean, Templates, Broken, Orders,
          MaxChanges                                                \* Forms

VARIABLES now,
          valid, cache, request, decision, wasGood, wasBad,         \* ApiAccess
          bucket, passed,                                           \* RateLimit
          tokens, mailbox, taken, sessions, overdue, page, visits,  \* Portal
          guarded, proc, held, cookie, tab, ghost,                  \* PanelDoor
          shelf, tpl, orders, edition, day                          \* Forms

keyVars    == <<valid, cache, request, decision, wasGood, wasBad>>
bucketVars == <<bucket, passed>>
doorVars   == <<tokens, mailbox, taken, sessions, overdue, page, visits>>
panelVars  == <<guarded, proc, held, cookie, tab, ghost>>
formVars   == <<shelf, tpl, orders, edition, day>>

\* k tells which keys are the tenants' and which the clients'.
Access(k) == INSTANCE ApiAccess WITH TenantKeys <- k.tenants, ClientKeys <- k.clients,
               MaxTime <- KeyTime, Faults <- TRUE
Limit     == INSTANCE RateLimit WITH MaxTime <- RateTime
Door      == INSTANCE Portal WITH Clients <- PortalClients, Sessions <- PortalSessions,
               MaxTime <- PortalTime, history <- visits
Panel     == INSTANCE PanelDoor WITH Sessions <- PanelSessions, MaxTime <- PanelTime
Desk      == INSTANCE Forms WITH Clients <- FormClients

TenantKey == [tenants |-> AllKeys, clients |-> {}]
ClientKey == [tenants |-> {}, clients |-> AllKeys]

(* Times are numbers. *)
ASSUME AccessAssumption == TTL \in Nat /\ MaxLookup \in Nat /\ KeyTime \in Nat

ASSUME LimitAssumption == Rps \in Nat /\ RateTime \in Nat

(* Every client of the portal has an address; of the clients with one      *)
(* address, one is the youngest.                                           *)
ASSUME PortalAssumption ==
  /\ EmailOf \in [PortalClients -> Emails]
  /\ \A e \in Emails : Door!Holders(e) # {} =>
       \E c \in Door!Holders(e) : \A d \in Door!Holders(e) : d <= c
  /\ LinkLife \in Nat /\ SessionLife \in Nat /\ PortalTime \in Nat

(* Sessions of the panel are numbers other than 0, which is no cookie. *)
ASSUME PanelAssumption ==
  /\ PanelSessions \subseteq Nat \ {0}
  /\ Life \in Nat /\ PanelTime \in Nat /\ MaxRestarts \in Nat

(* Every name has its form in a file name; a directory of templates ends. *)
ASSUME DeskAssumption ==
  /\ NameOf \in [FormClients -> DOMAIN Clean]
  /\ IsFiniteSet(DOMAIN Templates)
  /\ \A t \in DOMAIN Templates : Templates[t].ext \in {"go", "html", "docx"}
  /\ MaxChanges \in Nat

================================================================================
