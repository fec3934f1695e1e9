------------------------------- MODULE Office --------------------------------
(***************************************************************************)
(* The office behind the panel and its doors: residents, tenants and their *)
(* bots, the API keys, the rate limit and the portal, each on an instance  *)
(* of its own; a behaviour picks one at the start and stays with it.  The  *)
(* fairness is the one each module states for its part.                    *)
(***************************************************************************)
EXTENDS Doors

CONSTANTS Clients, RacingWorkers, RacingEntries, SerialEntries, MaxKeys,  \* Residents
          Tenants, Named, Tokens, FallbackToken, NoToken, GlobalBot,
          Editors, MaxEdits, MaxFailures,                                 \* Tenants
          BotUpdates, BotStarts, ChatUpdates, ChatStarts,                 \* TgBot
          Ids, OVPN, Testers, MaxFiles,                                   \* Proxies
          Places, QwenPlaces, SeedModels, SeedAgents, Ensured, MaxModels, MaxAgents,
          Budgets,                                                        \* Assistants
          DAY, SummaryHour, ReportingDays, Soon, Horizon,
          StuckWarning, StuckCritical, MaxDays                            \* Deadlines

VARIABLES part,
          row, history, due, work, issued,                            \* Residents
          tenant, keyOf, edit, manager, running, edits, failures,     \* Tenants
          sent, confirmed, state, offset, channel, busy, cooling,
          banner, replied,                                            \* TgBot
          proxies, current, file, created, locked, test, fetch,       \* Proxies
          models, agents, made, start, reseed, batch, steady, budget, \* Assistants
          deadlines, updated, up, waiting, warned, lostOn             \* Deadlines

residentVars == <<row, history, due, work, issued>>
tenantVars   == <<tenant, keyOf, edit, manager, running, edits, failures>>
botVars      == <<sent, confirmed, state, offset, channel, busy, cooling, banner, replied>>
proxyVars    == <<proxies, current, file, created, locked, test, fetch>>
aiVars       == <<models, agents, made, start, reseed, batch, steady, budget>>
termVars     == <<deadlines, updated, up, waiting, warned, lostOn>>
laterVars    == <<termVars, panelVars, formVars>>
officeVars   == <<residentVars, tenantVars, botVars, proxyVars, aiVars>>
accessVars   == <<now, keyVars, bucketVars, doorVars>>
vars         == <<part, officeVars, accessVars, laterVars>>

\* s tells how many requests may overlap and whether a statement may fail.
Residency(s) == INSTANCE Residents WITH Workers <- s.workers, MaxEntries <- s.entries,
               Faults <- s.faults
Rows      == INSTANCE Tenants
\* u holds the updates: their kinds and chats, and how often the bot starts.
Bot(u)    == INSTANCE TgBot WITH MaxUpdates <- Len(u.kind), Kind <- u.kind,
               ChatOf <- u.chat, Starts <- u.starts
Switch    == INSTANCE Proxies
Ai        == INSTANCE Assistants
Terms     == INSTANCE Deadlines

(* What is urgent is looked ahead for, and the first report is further     *)
(* away than that; a summary goes out when its hour has struck, so never   *)
(* at midnight itself, when the deadlines fall.                            *)
ASSUME TermsAssumption ==
  /\ DAY \in Nat \ {0} /\ SummaryHour \in 1..(DAY - 1)
  /\ Soon \in Nat /\ Horizon \in Nat /\ ReportingDays \in Nat
  /\ Soon < Horizon /\ Horizon < ReportingDays
  /\ StuckWarning \in Nat /\ StuckCritical \in Nat /\ StuckWarning <= StuckCritical
  /\ MaxDays \in Nat

(* The rows of the tenants are not the bot of no tenant, and no token is   *)
(* the word for none.                                                      *)
ASSUME TenantsAssumption ==
  /\ Named \subseteq Tenants /\ GlobalBot \notin Tenants
  /\ NoToken \notin Tokens /\ FallbackToken \in Tokens \cup {NoToken}
  /\ MaxEdits \in Nat /\ MaxFailures \in Nat

ASSUME BotsAssumption ==
  /\ BotUpdates \in Seq({"ask", "list", "text"}) /\ ChatUpdates \in Seq({"ask", "list", "text"})
  /\ BotStarts \in Nat /\ ChatStarts \in Nat

(* The lists that a start seeds from are not empty, and name nothing twice. *)
ASSUME AssistantsAssumption ==
  /\ Places \subseteq Nat \ {0} /\ QwenPlaces \subseteq Places
  /\ SeedModels \in Seq(QwenPlaces) /\ SeedModels # <<>>
  /\ \A i, j \in DOMAIN SeedModels : SeedModels[i] = SeedModels[j] => i = j
  /\ SeedAgents \in Seq(STRING) /\ SeedAgents # <<>>
  /\ \A i, j \in DOMAIN SeedAgents : SeedAgents[i] = SeedAgents[j] => i = j
  /\ Ensured \in Seq(STRING) /\ Ensured # <<>>
  /\ Ai!Types \cap {"no", "none"} = {}
  /\ MaxModels \in Nat /\ MaxAgents \in Nat
  /\ Budgets \subseteq [edits : Nat, faults : Nat, restarts : Nat]

(* Proxies are numbered from 1; a headless run has something to download. *)
ASSUME ProxiesAssumption == Ids \subseteq Nat \ {0} /\ MaxFiles \in Nat \ {0}

Racing == [workers |-> RacingWorkers, entries |-> RacingEntries, faults |-> TRUE]
Serial == [workers |-> {1}, entries |-> SerialEntries, faults |-> FALSE]
Asked  == [kind |-> BotUpdates, chat |-> [u \in DOMAIN BotUpdates |-> "chat"], starts |-> BotStarts]
Talked == [kind |-> ChatUpdates, chat |-> [u \in DOMAIN ChatUpdates |-> "chat"], starts |-> ChatStarts]

NoResidents == row = 0 /\ history = 0 /\ due = 0 /\ work = 0 /\ issued = 0
NoTenants   == tenant = 0 /\ keyOf = 0 /\ edit = 0 /\ manager = 0 /\ running = 0
               /\ edits = 0 /\ failures = 0
NoBot       == sent = 0 /\ confirmed = 0 /\ state = 0 /\ offset = 0 /\ channel = 0
               /\ busy = 0 /\ cooling = 0 /\ banner = 0 /\ replied = {}

NoKeys      == valid = {} /\ cache = 0 /\ request = 0 /\ decision = 0 /\ wasGood = 0 /\ wasBad = 0
NoBuckets   == bucket = 0 /\ passed = 0
NoDoor      == tokens = 0 /\ mailbox = 0 /\ taken = 0 /\ sessions = 0 /\ overdue = 0
               /\ page = 0 /\ visits = 0
NoProxies   == proxies = 0 /\ current = 0 /\ file = 0 /\ created = 0 /\ locked = 0
               /\ test = 0 /\ fetch = 0
NoAi        == models = 0 /\ agents = 0 /\ made = 0 /\ start = 0 /\ reseed = 0 /\ batch = 0
               /\ steady = 0 /\ budget = 0
NoOffice    == NoResidents /\ NoTenants /\ NoBot /\ NoProxies /\ NoAi
NoAccess    == now = 0 /\ NoKeys /\ NoBuckets /\ NoDoor

NoTerms     == deadlines = 0 /\ updated = 0 /\ up = 0 /\ waiting = 0 /\ warned = 0 /\ lostOn = 0
NoPanel     == guarded = 0 /\ proc = 0 /\ held = 0 /\ cookie = 0 /\ tab = 0 /\ ghost = 0
NoForms     == shelf = 0 /\ tpl = 0 /\ orders = 0 /\ edition = 0 /\ day = 0

OfficeInit ==
        \/ part = "racing" /\ Residency(Racing)!Init /\ NoTenants /\ NoBot /\ NoProxies /\ NoAi /\ NoAccess
        \/ part = "serial" /\ Residency(Serial)!Init /\ NoTenants /\ NoBot /\ NoProxies /\ NoAi /\ NoAccess
        \/ part = "tenants" /\ Rows!Init /\ NoResidents /\ NoBot /\ NoProxies /\ NoAi /\ NoAccess
        \/ part = "bot" /\ Bot(Asked)!Init /\ NoResidents /\ NoTenants /\ NoProxies /\ NoAi /\ NoAccess
        \/ part = "chat" /\ Bot(Talked)!Init /\ NoResidents /\ NoTenants /\ NoProxies /\ NoAi /\ NoAccess
        \/ part = "proxies" /\ Switch!Init /\ NoResidents /\ NoTenants /\ NoBot /\ NoAi /\ NoAccess
        \/ part = "assistants" /\ Ai!Init /\ NoResidents /\ NoTenants /\ NoBot /\ NoProxies /\ NoAccess
        \/ part = "tenant key" /\ Access(TenantKey)!Init /\ NoBuckets /\ NoDoor /\ NoOffice
        \/ part = "client key" /\ Access(ClientKey)!Init /\ NoBuckets /\ NoDoor /\ NoOffice
        \/ part = "rate" /\ Limit!Init /\ NoKeys /\ NoDoor /\ NoOffice
        \/ part = "portal" /\ Door!Init /\ NoKeys /\ NoBuckets /\ NoOffice

Init == \/ OfficeInit /\ NoTerms /\ NoPanel /\ NoForms
        \/ /\ NoOffice /\ NoKeys /\ NoBuckets /\ NoDoor /\ NoForms
           /\ \/ part = "deadlines" /\ Terms!Init /\ NoPanel
              \/ part = "panel" /\ Panel!Init /\ NoTerms
        \/ part = "forms" /\ Desk!Init /\ NoOffice /\ NoAccess /\ NoTerms /\ NoPanel

ResidentOnly(A) == A /\ UNCHANGED <<part, tenantVars, botVars, proxyVars, aiVars, accessVars, laterVars>>
TenantOnly(A)   == part = "tenants" /\ A /\ UNCHANGED <<part, residentVars, botVars, proxyVars, aiVars, accessVars, laterVars>>
BotOnly(A)      == A /\ UNCHANGED <<part, residentVars, tenantVars, proxyVars, aiVars, accessVars, laterVars>>
ProxyOnly(A)    == A /\ UNCHANGED <<part, residentVars, tenantVars, botVars, aiVars, accessVars, laterVars>>
AiOnly(A)       == A /\ UNCHANGED <<part, residentVars, tenantVars, botVars, proxyVars, accessVars, laterVars>>
AccessOnly(A)   == A /\ UNCHANGED <<part, officeVars, laterVars>>
TermStep == part = "deadlines" /\ Terms!Next /\ UNCHANGED <<part, officeVars, keyVars, bucketVars, doorVars, panelVars, formVars>>
PanelStep == part = "panel" /\ Panel!Next /\ UNCHANGED <<part, officeVars, keyVars, bucketVars, doorVars, termVars, formVars>>
FormStep == part = "forms" /\ Desk!Next /\ UNCHANGED <<part, officeVars, accessVars, termVars, panelVars>>

RacingStep == part = "racing" /\ ResidentOnly(Residency(Racing)!Next)
SerialStep == part = "serial" /\ ResidentOnly(Residency(Serial)!Next)
TenantStep == TenantOnly(Rows!Next)
BotStep    == part = "bot" /\ BotOnly(Bot(Asked)!Next)
ChatStep   == part = "chat" /\ BotOnly(Bot(Talked)!Next)
ProxyStep  == part = "proxies" /\ ProxyOnly(Switch!Next)
AiStep     == part = "assistants" /\ AiOnly(Ai!Next)

TenantKeyStep == part = "tenant key" /\ AccessOnly(Access(TenantKey)!Next /\ UNCHANGED <<bucketVars, doorVars>>)
ClientKeyStep == part = "client key" /\ AccessOnly(Access(ClientKey)!Next /\ UNCHANGED <<bucketVars, doorVars>>)
RateStep      == part = "rate" /\ AccessOnly(Limit!Next /\ UNCHANGED <<keyVars, doorVars>>)
PortalStep    == part = "portal" /\ AccessOnly(Door!Next /\ UNCHANGED <<keyVars, bucketVars>>)

Next == \/ RacingStep \/ SerialStep \/ TenantStep \/ BotStep \/ ChatStep \/ ProxyStep
        \/ AiStep \/ TenantKeyStep \/ ClientKeyStep \/ RateStep \/ PortalStep
        \/ TermStep \/ PanelStep \/ FormStep

Fairness ==
  /\ WF_vars(TenantOnly(Rows!Round))
  /\ \A e \in Editors : WF_vars(TenantOnly(Rows!CreateDefault(e) \/ Rows!WriteEdit(e)))
  /\ \A i \in 1..BotStarts :
       /\ WF_vars(part = "bot" /\ BotOnly(Bot(Asked)!StartBot(i)))
       /\ WF_vars(part = "bot" /\ BotOnly(Bot(Asked)!Poll(i, FALSE)))
       /\ WF_vars(part = "bot" /\ BotOnly(Bot(Asked)!Works(i)))
  /\ \A i \in 1..ChatStarts :
       /\ WF_vars(part = "chat" /\ BotOnly(Bot(Talked)!StartBot(i)))
       /\ WF_vars(part = "chat" /\ BotOnly(Bot(Talked)!Poll(i, FALSE)))
       /\ WF_vars(part = "chat" /\ BotOnly(Bot(Talked)!Works(i)))

Spec == Init /\ [][Next]_vars /\ Fairness

------------------------------------------------------------------------------

(* Type correctness of the part that runs. *)
TypeOK == /\ part = "racing" => Residency(Racing)!TypeOK
          /\ part = "serial" => Residency(Serial)!TypeOK
          /\ part = "tenants" => Rows!TypeOK
          /\ part = "bot" => Bot(Asked)!TypeOK
          /\ part = "chat" => Bot(Talked)!TypeOK
          /\ part = "tenant key" => Access(TenantKey)!TypeOK
          /\ part = "client key" => Access(ClientKey)!TypeOK
          /\ part = "rate" => Limit!TypeOK
          /\ part = "portal" => Door!TypeOK
          /\ part = "proxies" => Switch!TypeOK
          /\ part = "assistants" => Ai!TypeOK
          /\ part = "deadlines" => Terms!TypeOK
          /\ part = "panel" => Panel!TypeOK
          /\ part = "forms" => Desk!TypeOK

(* No client is in a stage its history does not lead to, whatever overlaps *)
(* or fails; one request at a time, the history is a path to the stage, and *)
(* one open deadline is kept for who has been in reporting                 *)
(* (handleClientStageTransition and its like).                             *)
StageRecorded == /\ part = "racing" => Residency(Racing)!StageRecorded
                 /\ part = "serial" => Residency(Serial)!HistoryLeadsToStage

(* A deadline passes unannounced only when every summary of the days before *)
(* was lost or sent without it, because a reading failed; and the pages    *)
(* tell of it what the summary tells (sendDailySummary, buildDashboardRows). *)
DeadlinesAreAnnounced == part = "deadlines" => Terms!WarnedInTime /\ Terms!PagesAgree

(* Left alone by the panel, the bots come to match the tenants' rows       *)
(* (tgbot/manager.go, reconcile).                                          *)
BotsFollowTenants == <>[](part = "tenants" => running = Rows!desiredBots)

(* However much is sent to the bot, the moment comes when all of it has its *)
(* reply, across its stops and starts (tgbot/bot.go, runLoop).             *)
EveryUpdateReplied == []<>(part \in {"bot", "chat"} => 1..sent \subseteq replied)

(* A key is let in, or turned away, on what the tables said at most a      *)
(* lookup and a TTL ago (key_cache.go, resolveAuth).                       *)
DecisionsAreRecent ==
  [][/\ part = "tenant key" => Access(TenantKey)!DecisionIsRecent
     /\ part = "client key" => Access(ClientKey)!DecisionIsRecent]_vars

(* In any stretch of time an address gets no more requests through than a  *)
(* full bucket and the stretch's refill (ratelimit.go).                    *)
RateIsBounded == part = "rate" => Limit!RateIsBounded

(* A portal page is served only in a live session opened by the one use of *)
(* a link mailed to the address of its client (portal/auth.go); a page of  *)
(* the panel only in a session opened by the password, which lasts its     *)
(* life, and no session comes back once ended (admin/auth.go); and who is  *)
(* handed a generated form gets his own (handleGenerateSubmit).            *)
ServedByInvitation ==
  /\ part = "portal" => Door!ServedByInvitation
  /\ part = "panel" => Panel!ServedToTheAdmin /\ Panel!LoginLasts
  /\ part = "forms" => Desk!OwnForm

(* What is used is what can be used: no proxy is active but the current    *)
(* one, a restart brings back a list with one, even after a failed write,  *)
(* and an open browser goes through the one its run has chosen             *)
(* (proxy_manager.go, fetchWithRetry); a batch goes without an agent, or   *)
(* gives up, only when no agent and no model could serve it, and no start  *)
(* seeds them twice (aimodels/store.go).                                   *)
UsableIsUsed ==
  /\ part = "proxies" => Switch!OneActive /\ Switch!SessionFollowsProxy
  /\ part = "assistants" => Ai!SkippedOnlyWithoutAgent /\ Ai!EveryModelIsAsked /\ Ai!SeededOnce

==============================================================================
