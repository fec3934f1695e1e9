------------------------------- MODULE Tenants -------------------------------
(***************************************************************************)
(* The tenants' rows, the panel that edits them and the bot manager that   *)
(* follows them.  A row carries the tenant's API key, the token of its     *)
(* Telegram bot and whether it is active.  Every edit reads the row and    *)
(* writes all of it back; the manager does the same when a started bot     *)
(* tells its name.  The manager compares the rows with the running bots    *)
(* every 45 seconds.                                                       *)
(***************************************************************************)
EXTENDS Naturals, FiniteSets

CONSTANTS Tenants,        \* rows that may exist
          Named,          \* those whose name is "Default"
          Tokens,         \* tokens of bots
          FallbackToken,  \* TELEGRAM_BOT_TOKEN, or NoToken when it is not set
          NoToken,
          GlobalBot,      \* the key of the bot that belongs to no tenant
          Editors,        \* requests of the panel under way at once
          MaxEdits,       \* bound: edits of the panel altogether
          MaxFailures     \* bound: failed readings of the rows and failed starts

VARIABLES tenant,         \* the rows
          keyOf,          \* the number of the key last issued to each tenant
          edit,           \* what each request of the panel has read
          manager,        \* where the manager's round stands
          running,        \* the manager's map of running bots: key -> token
          edits, failures

tenantVars == <<tenant, keyOf, edit, manager, running, edits, failures>>

Row   == [active : BOOLEAN, token : Tokens \cup {NoToken},
          username : Tokens \cup {NoToken}, key : Nat]
NoRow == [key |-> 0]                            \* not created yet

BotKeys == Tenants \cup {GlobalBot}
Present(t) == tenant[t] # NoRow

(* An active tenant with a token of its own has a bot; one named Default   *)
(* without a token takes the global one; when no tenant took the global    *)
(* token that way, it gets a bot of its own.                               *)
Inherits(t) == /\ Present(t) /\ tenant[t].active /\ tenant[t].token = NoToken
               /\ t \in Named /\ FallbackToken # NoToken

desiredBots ==
  LET own    == {t \in Tenants : Present(t) /\ tenant[t].active /\ tenant[t].token # NoToken}
      heirs  == {t \in Tenants : Inherits(t)}
      global == IF FallbackToken # NoToken /\ heirs = {} THEN {GlobalBot} ELSE {}
  IN [k \in own \cup heirs \cup global |->
        IF k \in own THEN tenant[k].token ELSE FallbackToken]

NoEdit   == [op |-> "none"]
Ops      == {"regenerate", "token", "toggle"}
Waiting  == [pc |-> "wait"]

------------------------------------------------------------------------------

Init == /\ tenant = [t \in Tenants |-> NoRow]
        /\ keyOf = [t \in Tenants |-> 0]
        /\ edit = [e \in Editors |-> NoEdit]
        /\ manager = Waiting
        /\ running = <<>>
        /\ edits = 0 /\ failures = 0

(* A new tenant is active, has a fresh key and no token. *)
Insert(t) ==
  /\ tenant' = [tenant EXCEPT ![t] =
       [active |-> TRUE, token |-> NoToken, username |-> NoToken, key |-> 1]]
  /\ keyOf' = [keyOf EXCEPT ![t] = 1]

CreateTenant(t) ==
  /\ ~Present(t) /\ t \notin Named
  /\ Insert(t)
  /\ UNCHANGED <<edit, manager, running, edits, failures>>

(* The tenant named Default is looked for first; nothing holds the table   *)
(* until it is created.                                                    *)
LookForDefault(e, t) ==
  /\ edit[e] = NoEdit /\ t \in Named
  /\ \A u \in Named : ~Present(u)
  /\ [op |-> "default", tenant |-> t] \notin {edit[f] : f \in Editors}   \* a fresh identifier
  /\ edit' = [edit EXCEPT ![e] = [op |-> "default", tenant |-> t]]
  /\ UNCHANGED <<tenant, keyOf, manager, running, edits, failures>>

CreateDefault(e) ==
  /\ edit[e].op = "default"
  /\ edit' = [edit EXCEPT ![e] = NoEdit]
  /\ ~Present(edit[e].tenant)
  /\ Insert(edit[e].tenant)
  /\ UNCHANGED <<manager, running, edits, failures>>

ReadForEdit(e, t, op, token) ==
  /\ edit[e] = NoEdit /\ Present(t) /\ edits < MaxEdits
  /\ edit' = [edit EXCEPT ![e] = [op |-> op, tenant |-> t, copy |-> tenant[t], token |-> token]]
  /\ edits' = edits + 1
  /\ UNCHANGED <<tenant, keyOf, manager, running, failures>>

Edited(e) ==
  LET r == edit[e].copy IN
  CASE edit[e].op = "regenerate" -> [r EXCEPT !.key = keyOf[edit[e].tenant] + 1]
    [] edit[e].op = "toggle"     -> [r EXCEPT !.active = ~@]
    [] edit[e].op = "token"      ->
         [r EXCEPT !.token = edit[e].token,
                   !.username = IF edit[e].token = NoToken THEN NoToken ELSE @]

(* UpdateTenant writes every column from the copy that was read. *)
WriteEdit(e) ==
  /\ edit[e].op \in Ops
  /\ tenant' = [tenant EXCEPT ![edit[e].tenant] = Edited(e)]
  /\ keyOf' = [keyOf EXCEPT ![edit[e].tenant] =
                 IF edit[e].op = "regenerate" THEN @ + 1 ELSE @]
  /\ edit' = [edit EXCEPT ![e] = NoEdit]
  /\ UNCHANGED <<manager, running, edits, failures>>

------------------------------------------------------------------------------
(* The manager's round: read the rows, drop the bots that are no longer    *)
(* wanted, then take the wanted ones in any order.                         *)

WithoutKeys(f, K) == [k \in DOMAIN f \ K |-> f[k]]
WithBot(k, token) == [b \in DOMAIN running \cup {k} |-> IF b = k THEN token ELSE running[b]]

BeginRound ==
  /\ manager = Waiting
  /\ running' = WithoutKeys(running, DOMAIN running \ DOMAIN desiredBots)
  /\ manager' = [pc |-> "bots", wanted |-> desiredBots, todo |-> DOMAIN desiredBots,
                 names |-> [t \in {u \in Tenants : Present(u)} |-> tenant[t].username]]
  /\ UNCHANGED <<tenant, keyOf, edit, edits, failures>>

(* The rows cannot be read: nothing is touched until the next round. *)
RoundFails ==
  /\ manager = Waiting /\ failures < MaxFailures
  /\ failures' = failures + 1
  /\ UNCHANGED <<tenant, keyOf, edit, manager, running, edits>>

Taken(k) == manager.pc = "bots" /\ k \in manager.todo
Next1(k) == [manager EXCEPT !.todo = @ \ {k}]
\* Mutant: a bot is kept whatever its token.
RunsWithAnyToken(k) == k \in DOMAIN running

Runs(k)  == k \in DOMAIN running /\ running[k] = manager.wanted[k]

KeepBot(k) ==
  /\ Taken(k) /\ Runs(k)
  /\ manager' = Next1(k)
  /\ UNCHANGED <<tenant, keyOf, edit, running, edits, failures>>

(* The new bot is built, the old one having been stopped; when its name is *)
(* not the one in the row, the name is saved before the bot is entered.    *)
StartBot(k) ==
  /\ Taken(k) /\ ~Runs(k)
  /\ IF k = GlobalBot \/ (k # GlobalBot /\ manager.names[k] = manager.wanted[k])
       THEN /\ manager' = Next1(k)
            /\ running' = WithBot(k, manager.wanted[k])
       ELSE /\ manager' = [pc |-> "name", wanted |-> manager.wanted, todo |-> manager.todo,
                           names |-> manager.names, bot |-> k, copy |-> tenant[k]]
            /\ running' = WithoutKeys(running, {k})
  /\ UNCHANGED <<tenant, keyOf, edit, edits, failures>>

(* Telegram refuses the token or is out of reach: the bot is left for the  *)
(* next round.                                                             *)
StartFails(k) ==
  /\ Taken(k) /\ ~Runs(k) /\ failures < MaxFailures
  /\ failures' = failures + 1
  /\ running' = WithoutKeys(running, {k})
  /\ manager' = Next1(k)
  /\ UNCHANGED <<tenant, keyOf, edit, edits>>

(* persistUsername: the row read before is written back with the name. *)
SaveName ==
  /\ manager.pc = "name"
  /\ tenant' = [tenant EXCEPT ![manager.bot] =
                  [manager.copy EXCEPT !.username = manager.wanted[manager.bot]]]
  /\ running' = WithBot(manager.bot, manager.wanted[manager.bot])
  /\ manager' = [pc |-> "bots", wanted |-> manager.wanted, names |-> manager.names,
                 todo |-> manager.todo \ {manager.bot}]
  /\ UNCHANGED <<keyOf, edit, edits, failures>>

EndRound ==
  /\ manager.pc = "bots" /\ manager.todo = {}
  /\ manager' = Waiting
  /\ UNCHANGED <<tenant, keyOf, edit, running, edits, failures>>

(* What the manager does of itself: its ticker does not stop while the    *)
(* process lives.                                                          *)
Round == \/ BeginRound \/ EndRound \/ SaveName
         \/ \E k \in BotKeys : KeepBot(k) \/ StartBot(k)

Next == \/ \E t \in Tenants : CreateTenant(t)
        \/ \E e \in Editors, t \in Tenants : LookForDefault(e, t)
        \/ \E e \in Editors : CreateDefault(e)
        \/ \E e \in Editors, t \in Tenants, token \in Tokens \cup {NoToken} :
             ReadForEdit(e, t, "token", token)
        \/ \E e \in Editors, t \in Tenants, op \in {"regenerate", "toggle"} :
             ReadForEdit(e, t, op, NoToken)
        \/ \E e \in Editors : WriteEdit(e)
        \/ BeginRound
        \/ RoundFails
        \/ \E k \in BotKeys : KeepBot(k)
        \/ \E k \in BotKeys : StartBot(k)
        \/ \E k \in BotKeys : StartFails(k)
        \/ SaveName
        \/ EndRound

Spec == Init /\ [][Next]_tenantVars

------------------------------------------------------------------------------

TypeOK == /\ tenant \in [Tenants -> Row \cup {NoRow}]
          /\ keyOf \in [Tenants -> Nat]
          /\ edit \in [Editors -> {NoEdit}
               \cup [op : {"default"}, tenant : Named]
               \cup [op : Ops, tenant : Tenants, copy : Row, token : Tokens \cup {NoToken}]]
          /\ manager.pc \in {"wait", "bots", "name"}
          /\ DOMAIN running \subseteq BotKeys
          /\ \A k \in DOMAIN running : running[k] \in Tokens
          /\ edits \in 0..MaxEdits /\ failures \in 0..MaxFailures

==============================================================================
