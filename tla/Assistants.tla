------------------------------ MODULE Assistants ------------------------------
(***************************************************************************)
(* The language models and the agents bound to them (aimodels/store.go):   *)
(* what a start of the service seeds, what the panel edits                 *)
(* (admin/ai_admin.go), and a batch of annotations (docenrich/enrich.go)   *)
(* or a single question (agents/consultant.go, relevance/analyzer.go) that *)
(* looks for an agent with a model it can use.  Every read of a table is a *)
(* statement of its own; what was read is kept for the rest of the batch.  *)
(* A key is never blank: the form and both seedings insist on one.         *)
(***************************************************************************)
EXTENDS Naturals, Sequences

CONSTANTS Places,       \* places of a model in the listing by provider and name
          QwenPlaces,   \* those of them of the provider whose models are seeded
          SeedModels,   \* places of the seeded models, in the order of their creation
          SeedAgents,   \* types of the agents seeded, in that order
          Ensured,      \* types of the annotators that a start makes sure of
          MaxModels, MaxAgents,   \* bounds
          Budgets       \* bounds: how many edits, faults and restarts there may be

VARIABLES models,       \* the rows of ai_models, by id
          agents,       \* the rows of ai_agents, by id
          made,         \* ids given to models and to agents
          start,        \* how far the start of the service has come
          reseed,       \* how many models the panel's button has left to create
          batch,        \* the batch of calls under way
          steady,       \* what was usable at every moment since the batch began
          budget        \* edits, faults and restarts left

vars == <<models, agents, made, start, reseed, batch, steady, budget>>

Types == {SeedAgents[i] : i \in DOMAIN SeedAgents} \cup {Ensured[i] : i \in DOMAIN Ensured}
None  == 0

\* seeded tells which of the seeded rows a row was created as and still is: a
\* model moved to another provider, or an agent of another type, is no more.
ModelRow == [place : Places, enabled : BOOLEAN, seeded : Places \cup {None}]
AgentRow == [type : Types, model : 0..MaxModels, enabled : BOOLEAN, seeded : Types \cup {"no"}]

(* What a form may hold: its key, name and id are never blank. *)
ModelForms == [place : Places, enabled : BOOLEAN, seeded : {None}]
AgentForms(t, bound) == [type : {t}, model : bound, enabled : BOOLEAN, seeded : {"no"}]

(* A model in a listing, which a later change of the table does not change; *)
(* the listing is in the order of places, in any order at one and the same. *)
AsRead(m)    == [place |-> models[m].place, id |-> m]
ListModels   == {AsRead(m) : m \in DOMAIN models}
Heads(list)  == {r \in list : \A q \in list : r.place <= q.place}

(* The first model that is enabled, else the first there is. *)
EnabledIn(list) == {r \in list : models[r.id].enabled}
FirstModels ==
  LET from == IF EnabledIn(ListModels) # {} THEN EnabledIn(ListModels) ELSE ListModels
  IN  IF from = {} THEN {None} ELSE {r.id : r \in Heads(from)}

WithRow(table, id, row) == [i \in DOMAIN table \cup {id} |-> IF i = id THEN row ELSE table[i]]

AddModel(row) ==
  /\ made.models < MaxModels
  /\ made' = [made EXCEPT !.models = @ + 1]
  /\ models' = WithRow(models, made.models + 1, row)

AddAgent(row) ==
  /\ made.agents < MaxAgents
  /\ made' = [made EXCEPT !.agents = @ + 1]
  /\ agents' = WithRow(agents, made.agents + 1, row)

Spend(what) == budget[what] > 0 /\ budget' = [budget EXCEPT ![what] = @ - 1]

NoBatch == [at |-> "none", type |-> "none", left |-> {}, model |-> None, reserve |-> {},
            tried |-> {}, failed |-> FALSE]

Init == /\ models = <<>> /\ agents = <<>>
        /\ made = [models |-> 0, agents |-> 0]
        /\ start = [at |-> "off", next |-> 1]
        /\ reseed = 0
        /\ batch = NoBatch /\ steady = [agents |-> {}, models |-> {}]
        /\ budget \in Budgets

------------------------------------------------------------------------------
(* The start of the service *)

At(pc)       == start.at = pc
GoTo(pc)     == start' = [at |-> pc, next |-> 1]
NextOf(list, after) == IF start.next < Len(list) THEN start' = [start EXCEPT !.next = @ + 1] ELSE GoTo(after)
StartOnly    == UNCHANGED <<reseed, batch>>

(* Models and agents are seeded only when QWEN_API_KEY is set. *)
StartService ==
  /\ At("off")
  /\ GoTo("count") \/ GoTo("ensure")
  /\ UNCHANGED <<models, agents, made, budget>> /\ StartOnly

(* Models of other providers do not keep a start from seeding. *)
CountModelsByProvider ==
  /\ At("count")
  /\ IF \E m \in DOMAIN models : models[m].place \in QwenPlaces THEN GoTo("agents") ELSE GoTo("model")
  /\ UNCHANGED <<models, agents, made, budget>> /\ StartOnly

SeedQwenModel ==
  /\ At("model")
  /\ AddModel([place |-> SeedModels[start.next], enabled |-> TRUE, seeded |-> SeedModels[start.next]])
  /\ NextOf(SeedModels, "agents")
  /\ UNCHANGED <<agents, budget>> /\ StartOnly

(* Without a model, or beside any agent at all, no agent is seeded. *)
CheckAgents ==
  /\ At("agents")
  /\ IF ListModels # {} /\ DOMAIN agents = {} THEN GoTo("agent") ELSE GoTo("ensure")
  /\ UNCHANGED <<models, agents, made, budget>> /\ StartOnly

(* All seeded agents get the first model of the list, enabled or not. *)
SeedDefaultAgent ==
  /\ At("agent")
  /\ \E first \in Heads(ListModels) :
       AddAgent([type |-> SeedAgents[start.next], model |-> first.id,
                 enabled |-> TRUE, seeded |-> SeedAgents[start.next]])
  /\ NextOf(SeedAgents, "ensure")
  /\ UNCHANGED <<models, budget>> /\ StartOnly

(* An annotator is created only when there is none of its type; without an *)
(* enabled model, or without the list of models, it is created switched    *)
(* off.                                                                    *)
EnsureAnnotatorAgent ==
  /\ At("ensure")
  /\ \E model \in FirstModels \cup {None} :
       /\ IF model \in FirstModels THEN UNCHANGED budget ELSE Spend("faults")
       /\ LET type == Ensured[start.next]
          IN  IF \E a \in DOMAIN agents : agents[a].type = type
              THEN UNCHANGED <<agents, made>>
              ELSE AddAgent([type |-> type, model |-> model, seeded |-> type,
                             enabled |-> model # None /\ models[model].enabled])
  /\ NextOf(Ensured, "up")
  /\ UNCHANGED models /\ StartOnly

(* An error ends the seeding it hits and is only logged. *)
SeedingFails ==
  /\ Spend("faults")
  /\ \/ At("count") /\ GoTo("agents")
     \/ At("model") /\ GoTo("agents")
     \/ At("agents") /\ GoTo("ensure")
     \/ At("agent") /\ GoTo("ensure")
     \/ At("ensure") /\ NextOf(Ensured, "up")
  /\ UNCHANGED <<models, agents, made>> /\ StartOnly

ServiceStops ==
  /\ ~At("off") /\ Spend("restarts")
  /\ GoTo("off")
  /\ reseed' = 0 /\ batch' = NoBatch
  /\ UNCHANGED <<models, agents, made>>

------------------------------------------------------------------------------
(* The panel, which the same process serves once it is up *)

Editing == At("up") /\ UNCHANGED <<start, batch>>

CreateModel ==
  /\ Editing /\ Spend("edits")
  /\ \E form \in ModelForms : AddModel(form)
  /\ UNCHANGED <<agents, reseed>>

(* The form may name another provider. *)
UpdateModel(m) ==
  /\ Editing /\ Spend("edits")
  /\ \E form \in ModelForms :
       models' = [models EXCEPT ![m] =
                    IF form.place \in QwenPlaces THEN [form EXCEPT !.seeded = models[m].seeded] ELSE form]
  /\ UNCHANGED <<agents, made, reseed>>

(* ON DELETE SET NULL: its agents stay, without a model. *)
DeleteModel(m) ==
  /\ Editing /\ Spend("edits")
  /\ models' = [n \in DOMAIN models \ {m} |-> models[n]]
  /\ agents' = [a \in DOMAIN agents |->
                  IF agents[a].model = m THEN [agents[a] EXCEPT !.model = None] ELSE agents[a]]
  /\ UNCHANGED <<made, reseed>>

(* A model that is gone is refused by the foreign key. *)
Bindable == DOMAIN models \cup {None}

CreateAgent(t) ==
  /\ Editing /\ Spend("edits")
  /\ \E form \in AgentForms(t, Bindable) : AddAgent(form)
  /\ UNCHANGED <<models, reseed>>

UpdateAgent(a) ==
  /\ Editing /\ Spend("edits")
  /\ \E t \in Types : \E form \in AgentForms(t, Bindable) :
       agents' = [agents EXCEPT ![a] = IF @.type = t THEN [form EXCEPT !.seeded = agents[a].seeded] ELSE form]
  /\ UNCHANGED <<models, made, reseed>>

DeleteAgent(a) ==
  /\ Editing /\ Spend("edits")
  /\ agents' = [b \in DOMAIN agents \ {a} |-> agents[b]]
  /\ UNCHANGED <<models, made, reseed>>

(* The button creates the whole set anew, beside what there is; a model    *)
(* that cannot be created is passed over.                                  *)
PressSeedQwen ==
  /\ Editing /\ reseed = 0 /\ Spend("edits")
  /\ reseed' = Len(SeedModels)
  /\ UNCHANGED <<models, agents, made>>

SeedQwenAnew ==
  /\ Editing /\ reseed > 0
  /\ reseed' = reseed - 1
  /\ \/ /\ AddModel([place |-> SeedModels[Len(SeedModels) + 1 - reseed], enabled |-> TRUE, seeded |-> None])
        /\ UNCHANGED budget
     \/ /\ Spend("faults")
        /\ UNCHANGED <<models, made>>
  /\ UNCHANGED agents

------------------------------------------------------------------------------
(* A batch of calls: the annotators go over to the next model when one     *)
(* fails, the consultant and the monitor have only their own               *)

FailsOver == \E i \in DOMAIN Ensured : Ensured[i] = batch.type

Calling(pc) == batch.at = pc /\ UNCHANGED <<models, agents, made, start, reseed>>
Kept        == UNCHANGED budget

BeginBatch(t) ==
  /\ Calling("none") /\ At("up") /\ Kept
  /\ batch' = [NoBatch EXCEPT !.at = "agents", !.type = t]

(* The agents in question and their models; they are listed by their names, *)
(* which can be in any order.                                              *)
Candidates == {<<a, agents[a].model>> : a \in {b \in DOMAIN agents :
                  agents[b].type = batch.type /\ agents[b].enabled /\ agents[b].model # None}}

NextCandidate(left) == [batch EXCEPT !.left = left, !.at = IF left = {} THEN "skipped" ELSE "model"]

ReadAgents ==
  /\ Calling("agents") /\ Kept
  /\ batch' = NextCandidate(Candidates)

Usable(m) == m \in DOMAIN models /\ models[m].enabled

With(m) == [batch EXCEPT !.left = {}, !.model = m, !.at = IF FailsOver THEN "reserve" ELSE "call"]

\* Mutant: the search ends at the first agent whose model cannot be used.
GetFirstModel ==
  /\ Calling("model") /\ Kept
  /\ \E c \in batch.left : batch' = IF Usable(c[2]) THEN With(c[2]) ELSE NextCandidate({})

(* EnabledAgentWithModel passes over an agent whose model is gone or off. *)
GetModel ==
  /\ Calling("model") /\ Kept
  /\ \E c \in batch.left :
       batch' = IF Usable(c[2]) THEN With(c[2]) ELSE NextCandidate(batch.left \ {c})

(* EnabledAgentWithModels: the other enabled models stand in reserve. *)
ReadReserve ==
  /\ Calling("reserve") /\ Kept
  /\ batch' = [batch EXCEPT !.at = "call",
                 !.reserve = {r \in EnabledIn(ListModels) : r.id # batch.model}]

(* Without the list of agents the batch is skipped, without a model its    *)
(* agent is passed over, without the reserve the bound model is alone.     *)
LookupFails ==
  /\ \/ Calling("agents") /\ batch' = [batch EXCEPT !.at = "skipped", !.failed = TRUE]
     \/ Calling("model") /\ \E c \in batch.left :
          batch' = [NextCandidate(batch.left \ {c}) EXCEPT !.failed = TRUE]
     \/ Calling("reserve") /\ batch' = [batch EXCEPT !.at = "call", !.failed = TRUE]
  /\ Spend("faults")

(* What a call that is answered comes to. *)
Outcomes == {"answered", "unreadable"}

(* A call that fails passes the prompt on, an answer ends the line whether *)
(* or not it can be parsed.                                                *)
ChatWithAgent ==
  /\ Calling("call") /\ Kept
  /\ LET asked == [batch EXCEPT !.tried = @ \cup {batch.model}] IN
     \/ \E outcome \in Outcomes :
          batch' = [asked EXCEPT !.at = outcome, !.reserve = {}]
     \/ batch.reserve = {} /\ batch' = [asked EXCEPT !.at = "exhausted"]
     \/ \E next \in Heads(batch.reserve) :
          batch' = [asked EXCEPT !.model = next.id, !.reserve = @ \ {next}]

EndBatch ==
  /\ batch.at \in {"skipped", "answered", "unreadable", "exhausted"}
  /\ Calling(batch.at) /\ Kept
  /\ batch' = NoBatch

------------------------------------------------------------------------------

Action == \/ StartService \/ CountModelsByProvider \/ SeedQwenModel \/ CheckAgents \/ SeedDefaultAgent
          \/ EnsureAnnotatorAgent \/ SeedingFails \/ ServiceStops
          \/ CreateModel \/ PressSeedQwen \/ SeedQwenAnew
          \/ \E m \in DOMAIN models : UpdateModel(m) \/ DeleteModel(m)
          \/ \E a \in DOMAIN agents : UpdateAgent(a) \/ DeleteAgent(a)
          \/ \E t \in Types : CreateAgent(t) \/ BeginBatch(t)
          \/ ReadAgents \/ GetModel \/ ReadReserve \/ LookupFails \/ ChatWithAgent \/ EndBatch

(* While a batch looks around, steady keeps what never ceased to be usable *)
(* since it began.                                                         *)
Pairs  == {<<a, agents[a].model>> : a \in {b \in DOMAIN agents :
              agents[b].type = batch.type /\ agents[b].enabled /\ Usable(agents[b].model)}}
Now    == [agents |-> Pairs, models |-> {m \in DOMAIN models : Usable(m)}]
Looking == batch.at \in {"agents", "model", "reserve"}

Watch == steady' = IF batch'.at = "none" THEN [agents |-> {}, models |-> {}]
                   ELSE IF batch.at = "none" THEN Now'
                   ELSE IF Looking THEN [agents |-> steady.agents \cap Now'.agents,
                                         models |-> steady.models \cap Now'.models]
                   ELSE steady

Next == Action /\ Watch

Spec == Init /\ [][Next]_vars

------------------------------------------------------------------------------

(* Type correctness; no agent is bound to a model that is gone. *)
Read    == [place : Places, id : 1..MaxModels]
Batches == [at : {"none", "agents", "model", "reserve", "call",
                  "skipped", "answered", "unreadable", "exhausted"},
            type : Types \cup {"none"}, left : SUBSET ((1..MaxAgents) \X (1..MaxModels)),
            model : 0..MaxModels, reserve : SUBSET Read, tried : SUBSET (0..MaxModels), failed : BOOLEAN]
Starts  == [at : {"off", "count", "model", "agents", "agent", "ensure", "up"}, next : Nat]

TypeOK ==
  /\ DOMAIN models \subseteq 1..MaxModels /\ \A m \in DOMAIN models : models[m] \in ModelRow
  /\ DOMAIN agents \subseteq 1..MaxAgents /\ \A a \in DOMAIN agents :
       agents[a] \in AgentRow /\ agents[a].model \in Bindable
  /\ made \in [models : 0..MaxModels, agents : 0..MaxAgents]
  /\ start \in Starts /\ batch \in Batches
  /\ reseed \in 0..Len(SeedModels)
  /\ budget \in [edits : Nat, faults : Nat, restarts : Nat]

(* A batch is skipped only when no agent of its type had one and the same  *)
(* usable model during the whole search (ErrNoUsableAgent), however the    *)
(* panel edits the tables meanwhile.                                       *)
SkippedOnlyWithoutAgent ==
  batch.at = "skipped" /\ ~batch.failed => steady.agents = {}

(* An annotator gives a document up for failed calls only after every      *)
(* model that stayed enabled during its search has been asked.             *)
EveryModelIsAsked ==
  batch.at = "exhausted" /\ FailsOver /\ ~batch.failed => steady.models \subseteq batch.tried

(* Starts, stops and failures in the middle of a seeding, and whatever the *)
(* panel edits, deletes or moves to another provider, leave no seeded      *)
(* model of the provider and no seeded agent twice (SeedQwenModels).       *)
SeededOnce ==
  /\ \A m, n \in DOMAIN models :
       models[m].seeded = models[n].seeded /\ models[m].seeded # None => m = n
  /\ \A a, b \in DOMAIN agents :
       agents[a].seeded = agents[b].seeded /\ agents[a].seeded # "no" => a = b

==============================================================================
