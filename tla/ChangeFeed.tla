------------------------------ MODULE ChangeFeed ------------------------------
(***************************************************************************)
(* The feed of changes and its delivery: pipeline.processRelevance and     *)
(* notifyChanges (pipeline/pipeline.go), the table change_events           *)
(* (changes/postgres.go), the dispatcher (relevance/dispatcher.go), the    *)
(* residents' inbox (common/store/notification_store.go) and the manual    *)
(* re-analysis of the admin panel (admin/admin.go).                        *)
(*                                                                         *)
(* Several pipelines may be at work on one database: the scheduled job of  *)
(* the server and the command "skolkovo sync".  Each of their calls to the *)
(* database, to Telegram or to the mail server is a step and may fail; a   *)
(* pipeline may die at any step.  Telegram is optional: a process is       *)
(* started with or without its token and chat.  Events are numbered in the *)
(* order of detected_at.                                                   *)
(***************************************************************************)
EXTENDS Integers, FiniteSets

CONSTANTS
    Pipeline,    \* processes that run RunOnce
    Docs,        \* entities of type document
    Others,      \* entities of the other types (NPA, news, contests)
    Client,
    NumStages,   \* stages of residency, in the order Dispatch visits them
    Limit,       \* rows a query of the feed returns at most (50)
    MaxEvents,   \* bound: events that are recorded
    MaxMoves,    \* bound: stage changes of clients
    MaxFaults    \* bound: failed calls and deaths of a pipeline

ASSUME ChangeFeedAssumption ==
    /\ Docs \cup Others # {} /\ Docs \cap Others = {}
    /\ NumStages \in Nat \ {0}
    /\ Limit \in Nat \ {0}
    /\ MaxEvents \in Nat
    /\ MaxMoves \in Nat
    /\ MaxFaults \in Nat

Event    == 1..MaxEvents
Stage    == 1..NumStages
Severity == {"info", "warning", "critical"}
NoEvent  == 0

VARIABLES
    recorded,    \* number of rows of change_events
    entity,      \* entity_id of each row
    analyzed,    \* rows with analyzed = TRUE
    notified,    \* rows with notified = TRUE
    stageOf,     \* the residency stage of each client
    inbox,       \* table client_notifications: pairs <<client, event>>
    mails,       \* history: e-mails sent about an event to a client
    owed,        \* history: mails notifyClient has gone on to, <<client, event>>
    addressed,   \* history: alerts of the dispatcher about an event
    unheard,     \* history: events dispatched by a process without Telegram
    generic,     \* history: alerts of notifyChanges about an event
    quiet,       \* history: events a pipeline found informational
    slipped,     \* history: <<pipeline, event, client>>: the client moved from
                 \* a stage the dispatch had still to visit to a visited one
    moves,       \* history: number of stage changes
    faults,      \* history: failures so far
    verdicts,    \* events handleAPIReanalyze has found and not yet written
    telegram,    \* pipelines whose process has Telegram configured
    run          \* the local variables of each pipeline

feed == <<recorded, entity, analyzed, notified>>
told == <<inbox, mails, owed, addressed, unheard, generic, quiet>>
clients == <<stageOf, slipped, moves>>
outside == <<clients, verdicts, telegram>>
vars == <<feed, told, outside, faults, run>>

PcLabel == {"idle", "fetch", "analyze", "enrich", "stage", "client", "mail",
            "alert", "mark", "gfetch", "gsend", "gmark"}

(* batch: events still to be processed; ev: the one at hand; sev, stages:   *)
(* the result of its analysis; visited: the stages Dispatch has come to;    *)
(* todo: clients of the last of them; seen: clients listed for ev so far;   *)
(* who: the client an e-mail goes to; done: what MarkNotified is to get.    *)
RunType == [pc : PcLabel, batch : SUBSET Event, ev : Event \cup {NoEvent},
            sev : Severity, stages : SUBSET Stage, visited : SUBSET Stage,
            todo : SUBSET Client, seen : SUBSET Client, who : SUBSET Client,
            done : SUBSET Event]

Idle == [pc |-> "idle", batch |-> {}, ev |-> NoEvent, sev |-> "info",
         stages |-> {}, visited |-> {}, todo |-> {}, seen |-> {}, who |-> {},
         done |-> {}]

TypeOK ==
    /\ recorded \in 0..MaxEvents
    /\ entity \in [Event -> Docs \cup Others]
    /\ analyzed \subseteq Event
    /\ notified \subseteq Event
    /\ stageOf \in [Client -> Stage]
    /\ inbox \subseteq Client \X Event
    /\ mails \in [Client \X Event -> Nat]
    /\ owed \subseteq Client \X Event
    /\ addressed \in [Event -> Nat]
    /\ unheard \subseteq Event
    /\ generic \in [Event -> Nat]
    /\ quiet \subseteq Event
    /\ slipped \subseteq Pipeline \X Event \X Client
    /\ moves \in 0..MaxMoves
    /\ faults \in 0..MaxFaults
    /\ verdicts \subseteq Event
    /\ telegram \subseteq Pipeline
    /\ run \in [Pipeline -> RunType]

Init ==
    /\ recorded = 0
    /\ entity = [e \in Event |-> CHOOSE d \in Docs \cup Others : TRUE]
    /\ analyzed = {} /\ notified = {}
    /\ stageOf \in [Client -> Stage]
    /\ inbox = {}
    /\ mails = [ce \in Client \X Event |-> 0]
    /\ owed = {}
    /\ addressed = [e \in Event |-> 0]
    /\ unheard = {}
    /\ generic = [e \in Event |-> 0]
    /\ quiet = {}
    /\ slipped = {} /\ moves = 0
    /\ faults = 0
    /\ verdicts = {}
    /\ telegram \in SUBSET Pipeline
    /\ run = [p \in Pipeline |-> Idle]

Fault == faults < MaxFaults /\ faults' = faults + 1

At(p, label) == run[p].pc = label

-----------------------------------------------------------------------------
(* The feed.                                                               *)

Rows == 1..recorded

\* ORDER BY detected_at ASC LIMIT Limit
OldestOf(S) == {e \in S : Cardinality({f \in S : f <= e}) <= Limit}

Unanalyzed == OldestOf({e \in Rows \ analyzed : entity[e] \in Docs})
Unnotified == OldestOf(Rows \ notified)

IsFirst(e, S) == e \in S /\ \A f \in S : e <= f

\* A collector records a change (scraper, news, site crawler).
Record(d) ==
    /\ recorded < MaxEvents
    /\ recorded' = recorded + 1
    /\ entity' = [entity EXCEPT ![recorded + 1] = d]
    /\ UNCHANGED <<analyzed, notified, told, outside, faults, run>>

\* handleAPIReanalyze -> persistVerdict -> LatestByEntity: the verdict is
\* meant for the event that is the newest of the document by then.
Reanalyze(d) ==
    /\ \E e \in Rows :
         /\ entity[e] = d
         /\ \A f \in Rows : entity[f] = d => f <= e
         /\ verdicts' = verdicts \cup {e}
    /\ UNCHANGED <<feed, told, clients, faults, telegram, run>>

\* Mutant: a fresh verdict puts the event up for announcement again.
MutPersistVerdict(e) ==
    /\ e \in verdicts
    /\ verdicts' = verdicts \ {e}
    /\ analyzed' = analyzed \cup {e}
    /\ notified' = notified \ {e}
    /\ UNCHANGED <<recorded, entity, told, clients, faults, telegram, run>>

\* persistVerdict -> Enrich: the event counts as analysed from then on.
PersistVerdict(e) ==
    /\ e \in verdicts
    /\ verdicts' = verdicts \ {e}
    /\ analyzed' = analyzed \cup {e}
    /\ UNCHANGED <<recorded, entity, notified, told, clients, faults, telegram,
                   run>>

PersistVerdictFails(e) ==
    /\ e \in verdicts
    /\ Fault
    /\ verdicts' = verdicts \ {e}
    /\ UNCHANGED <<feed, told, clients, telegram, run>>

\* A consultant moves a client to another stage.
MoveClient(c, s) ==
    /\ moves < MaxMoves
    /\ s # stageOf[c]
    /\ stageOf' = [stageOf EXCEPT ![c] = s]
    /\ slipped' = slipped \cup
         {<<p, run[p].ev, c>> : p \in {q \in Pipeline :
             /\ run[q].ev # NoEvent
             /\ stageOf[c] \notin run[q].visited /\ s \in run[q].visited}}
    /\ moves' = moves + 1
    /\ UNCHANGED <<feed, told, faults, verdicts, telegram, run>>

-----------------------------------------------------------------------------
(* processRelevance.                                                       *)

\* RunOnce has collected and indexed, and comes to the changes.
Begin(p) ==
    /\ At(p, "idle")
    /\ run' = [run EXCEPT ![p].pc = "fetch"]
    /\ UNCHANGED <<feed, told, outside, faults>>

\* Mutant: an empty queue of the analyzer ends the cycle.
MutFetch(p) ==
    /\ At(p, "fetch")
    /\ run' = [run EXCEPT ![p].batch = Unanalyzed,
                          ![p].pc = IF Unanalyzed = {} THEN "idle"
                                                       ELSE "analyze"]
    /\ UNCHANGED <<feed, told, outside, faults>>

Fetch(p) ==
    /\ At(p, "fetch")
    /\ run' = [run EXCEPT ![p].batch = Unanalyzed,
                          ![p].pc = IF Unanalyzed = {} THEN "gfetch"
                                                       ELSE "analyze"]
    /\ UNCHANGED <<feed, told, outside, faults>>

FetchFails(p) ==
    /\ At(p, "fetch")
    /\ Fault
    /\ run' = [run EXCEPT ![p].pc = "gfetch"]
    /\ UNCHANGED <<feed, told, outside>>

\* The loop of processRelevance goes on with what is left of the batch; done
\* is what it has finished.
NextEvent(p, left, done) ==
    LET label == CASE left # {} -> "analyze"
                   [] left = {} /\ done # {} -> "mark"
                   [] OTHER -> "gfetch"
    IN  run' = [run EXCEPT ![p] = [Idle EXCEPT !.batch = left, !.done = done,
                                               !.pc = label]]

\* Analyze: versions, diff, LLM or heuristic decide severity and stages.
Analyze(p) ==
    /\ At(p, "analyze")
    /\ \E e \in Event, sev \in Severity, stages \in SUBSET Stage :
         /\ IsFirst(e, run[p].batch)
         /\ run' = [run EXCEPT ![p].ev = e, ![p].sev = sev,
                               ![p].stages = stages, ![p].pc = "enrich"]
    /\ UNCHANGED <<feed, told, outside, faults>>

AnalyzeFails(p) ==
    /\ At(p, "analyze")
    /\ Fault
    /\ \E e \in Event : /\ IsFirst(e, run[p].batch)
                        /\ NextEvent(p, run[p].batch \ {e}, run[p].done)
    /\ UNCHANGED <<feed, told, outside>>

\* Mutant: the identifier is appended after the loop variable is cleared.
MutFinished(p) == NextEvent(p, run[p].batch \ {run[p].ev},
                               run[p].done \cup {NoEvent})

Finished(p) == NextEvent(p, run[p].batch \ {run[p].ev},
                            run[p].done \cup {run[p].ev})

\* Enrich; an informational change is not dispatched.
Enrich(p) ==
    /\ At(p, "enrich")
    /\ analyzed' = analyzed \cup {run[p].ev}
    /\ IF run[p].sev = "info"
       THEN quiet' = quiet \cup {run[p].ev} /\ Finished(p)
       ELSE quiet' = quiet /\ run' = [run EXCEPT ![p].pc = "stage"]
    /\ UNCHANGED <<recorded, entity, notified, inbox, mails, owed, addressed,
                   unheard, generic, outside, faults>>

EnrichFails(p) ==
    /\ At(p, "enrich")
    /\ Fault
    /\ NextEvent(p, run[p].batch \ {run[p].ev}, run[p].done)
    /\ UNCHANGED <<feed, told, outside>>

Unvisited(p) == run[p].stages \ run[p].visited

\* Dispatch lists the clients of the next affected stage, without those an
\* earlier stage has brought already.
ListClients(p) ==
    /\ At(p, "stage")
    /\ \E s \in Stage :
         /\ IsFirst(s, Unvisited(p))
         /\ LET listed == {c \in Client : stageOf[c] = s} \ run[p].seen
            IN  run' = [run EXCEPT ![p].visited = @ \cup {s},
                                   ![p].todo = listed,
                                   ![p].seen = @ \cup listed,
                                   ![p].pc = "client"]
    /\ UNCHANGED <<feed, told, outside, faults>>

ListClientsFails(p) ==
    /\ At(p, "stage")
    /\ Fault
    /\ \E s \in Stage :
         /\ IsFirst(s, Unvisited(p))
         /\ run' = [run EXCEPT ![p].visited = @ \cup {s}]
    /\ UNCHANGED <<feed, told, outside>>

\* notifyClient comes to the mail or not; the bookkeeping of both.
GoesOn(p, c, mailing) ==
    /\ run' = [run EXCEPT ![p].todo = @ \ {c},
                          ![p].who = IF mailing THEN {c} ELSE {},
                          ![p].pc = IF mailing THEN "mail" ELSE @]
    /\ owed' = IF mailing THEN owed \cup {<<c, run[p].ev>>} ELSE owed

\* Mutant: the insert reports a row as created although it was there.
MutNotifyClient(p, c) ==
    /\ At(p, "client")
    /\ c \in run[p].todo
    /\ GoesOn(p, c, run[p].sev = "critical")
    /\ inbox' = inbox \cup {<<c, run[p].ev>>}
    /\ UNCHANGED <<feed, mails, addressed, unheard, generic, quiet, outside, faults>>

\* notifyClient: INSERT ... ON CONFLICT (client_id, change_event_id) DO
\* NOTHING.  Only the call that created the row goes on to the e-mail, and
\* only if SMTP is configured and the client has an address.
NotifyClient(p, c) ==
    /\ At(p, "client")
    /\ c \in run[p].todo
    /\ \E addressable \in BOOLEAN :
         GoesOn(p, c, /\ addressable
                      /\ <<c, run[p].ev>> \notin inbox
                      /\ run[p].sev = "critical")
    /\ inbox' = inbox \cup {<<c, run[p].ev>>}
    /\ UNCHANGED <<feed, mails, addressed, unheard, generic, quiet, outside, faults>>

NotifyClientFails(p, c) ==
    /\ At(p, "client")
    /\ c \in run[p].todo
    /\ Fault
    /\ run' = [run EXCEPT ![p].todo = @ \ {c}]
    /\ UNCHANGED <<feed, told, outside>>

\* Mutant: the loop over the clients of a stage may end early.
MutStageDone(p) ==
    /\ At(p, "client")
    /\ run' = [run EXCEPT ![p].pc = "stage", ![p].todo = {}]
    /\ UNCHANGED <<feed, told, outside, faults>>

StageDone(p) ==
    /\ At(p, "client")
    /\ run[p].todo = {}
    /\ run' = [run EXCEPT ![p].pc = "stage"]
    /\ UNCHANGED <<feed, told, outside, faults>>

MailSent(p) == run' = [run EXCEPT ![p].who = {}, ![p].pc = "client"]

\* Mutant: the loop goes on to the next client before it sends.
MutSendMail(p) ==
    /\ At(p, "mail")
    /\ mails' = [ce \in Client \X Event |->
                   IF ce[1] \in run[p].who /\ ce[2] = run[p].ev
                      /\ run[p].todo = {}
                   THEN mails[ce] + 1 ELSE mails[ce]]
    /\ MailSent(p)
    /\ UNCHANGED <<feed, inbox, owed, addressed, unheard, generic, quiet,
                   outside, faults>>

\* Mail.Send, and MarkEmailSent when it succeeded.
SendMail(p) ==
    /\ At(p, "mail")
    /\ mails' = [ce \in Client \X Event |->
                   IF ce[1] \in run[p].who /\ ce[2] = run[p].ev
                   THEN mails[ce] + 1 ELSE mails[ce]]
    /\ MailSent(p)
    /\ UNCHANGED <<feed, inbox, owed, addressed, unheard, generic, quiet,
                   outside, faults>>

SendMailFails(p) ==
    /\ At(p, "mail")
    /\ Fault
    /\ MailSent(p)
    /\ UNCHANGED <<feed, told, outside>>

\* The consultant's alert; Dispatch returns and the event is done either way.
Alert(p) ==
    /\ At(p, "stage")
    /\ Unvisited(p) = {}
    /\ p \in telegram
    /\ addressed' = [addressed EXCEPT ![run[p].ev] = @ + 1]
    /\ Finished(p)
    /\ UNCHANGED <<feed, inbox, mails, owed, unheard, generic, quiet, outside,
                   faults>>

\* Without Telegram nobody but the clients of the stages hears of the event,
\* which is done all the same.
NoAlert(p) ==
    /\ At(p, "stage")
    /\ Unvisited(p) = {}
    /\ p \notin telegram
    /\ unheard' = unheard \cup {run[p].ev}
    /\ Finished(p)
    /\ UNCHANGED <<feed, inbox, mails, owed, addressed, generic, quiet, outside,
                   faults>>

AlertFails(p) ==
    /\ At(p, "stage")
    /\ Unvisited(p) = {}
    /\ p \in telegram
    /\ Fault
    /\ Finished(p)
    /\ UNCHANGED <<feed, told, outside>>

\* One MarkNotified for the whole batch, after the loop.
MarkNotified(p) ==
    /\ At(p, "mark")
    /\ notified' = notified \cup run[p].done
    /\ run' = [run EXCEPT ![p] = [Idle EXCEPT !.pc = "gfetch"]]
    /\ UNCHANGED <<recorded, entity, analyzed, told, outside, faults>>

MarkNotifiedFails(p) ==
    /\ At(p, "mark")
    /\ Fault
    /\ run' = [run EXCEPT ![p] = [Idle EXCEPT !.pc = "gfetch"]]
    /\ UNCHANGED <<feed, told, outside>>

-----------------------------------------------------------------------------
(* notifyChanges.                                                          *)

\* Mutant: everything unsent is marked, not the page that was announced.
MutGenericFetch(p) ==
    /\ At(p, "gfetch")
    /\ p \in telegram
    /\ run' = [run EXCEPT ![p] =
                 IF Unnotified = {} THEN Idle
                 ELSE [Idle EXCEPT !.batch = Unnotified,
                                   !.done = Rows \ notified, !.pc = "gsend"]]
    /\ UNCHANGED <<feed, told, outside, faults>>

\* Without Telegram notifyChanges returns at once: what has not been
\* dispatched stays in the feed, unsent.
GenericOff(p) ==
    /\ At(p, "gfetch")
    /\ p \notin telegram
    /\ run' = [run EXCEPT ![p] = Idle]
    /\ UNCHANGED <<feed, told, outside, faults>>

GenericFetch(p) ==
    /\ At(p, "gfetch")
    /\ p \in telegram
    /\ run' = [run EXCEPT ![p] =
                 IF Unnotified = {} THEN Idle
                 ELSE [Idle EXCEPT !.batch = Unnotified, !.done = Unnotified,
                                   !.pc = "gsend"]]
    /\ UNCHANGED <<feed, told, outside, faults>>

GenericFetchFails(p) ==
    /\ At(p, "gfetch")
    /\ p \in telegram
    /\ Fault
    /\ run' = [run EXCEPT ![p] = Idle]
    /\ UNCHANGED <<feed, told, outside>>

GenericSent(p, e) ==
    run' = [run EXCEPT ![p].batch = @ \ {e},
                       ![p].pc = IF run[p].batch = {e} THEN "gmark" ELSE @]

\* One Telegram message per event; its error is ignored.
GenericSend(p) ==
    /\ At(p, "gsend")
    /\ \E e \in Event : /\ IsFirst(e, run[p].batch)
                        /\ generic' = [generic EXCEPT ![e] = @ + 1]
                        /\ GenericSent(p, e)
    /\ UNCHANGED <<feed, inbox, mails, owed, addressed, unheard, quiet, outside,
                   faults>>

GenericSendFails(p) ==
    /\ At(p, "gsend")
    /\ Fault
    /\ \E e \in Event : IsFirst(e, run[p].batch) /\ GenericSent(p, e)
    /\ UNCHANGED <<feed, told, outside>>

GenericMark(p) ==
    /\ At(p, "gmark")
    /\ notified' = notified \cup run[p].done
    /\ run' = [run EXCEPT ![p] = Idle]
    /\ UNCHANGED <<recorded, entity, analyzed, told, outside, faults>>

GenericMarkFails(p) ==
    /\ At(p, "gmark")
    /\ Fault
    /\ run' = [run EXCEPT ![p] = Idle]
    /\ UNCHANGED <<feed, told, outside>>

\* The process of the pipeline dies; what the tables hold is all that is left.
\* It may come back with other settings.
Crash(p) ==
    /\ ~At(p, "idle")
    /\ Fault
    /\ run' = [run EXCEPT ![p] = Idle]
    /\ telegram' \in {telegram \ {p}, telegram \cup {p}}
    /\ UNCHANGED <<feed, told, clients, verdicts>>

-----------------------------------------------------------------------------

Works(p) ==
    \/ Begin(p) \/ Fetch(p) \/ Analyze(p) \/ Enrich(p) \/ ListClients(p)
    \/ \E c \in Client : NotifyClient(p, c)
    \/ StageDone(p) \/ SendMail(p) \/ Alert(p) \/ NoAlert(p) \/ MarkNotified(p)
    \/ GenericOff(p) \/ GenericFetch(p) \/ GenericSend(p) \/ GenericMark(p)

Fails(p) ==
    \/ FetchFails(p) \/ AnalyzeFails(p) \/ EnrichFails(p)
    \/ ListClientsFails(p)
    \/ \E c \in Client : NotifyClientFails(p, c)
    \/ SendMailFails(p) \/ AlertFails(p) \/ MarkNotifiedFails(p)
    \/ GenericFetchFails(p) \/ GenericSendFails(p) \/ GenericMarkFails(p)
    \/ Crash(p)

Environment ==
    \/ \E d \in Docs \cup Others : Record(d)
    \/ \E d \in Docs : Reanalyze(d)
    \/ \E e \in Event : PersistVerdict(e) \/ PersistVerdictFails(e)
    \/ \E c \in Client, s \in Stage : MoveClient(c, s)

Next ==
    \/ \E p \in Pipeline : Works(p) \/ Fails(p)
    \/ Environment

Spec == Init /\ [][Next]_vars

\* The scheduler starts every pipeline again (JobScheduler), its steps return.
FairSpec == Spec /\ \A p \in Pipeline : WF_vars(Works(p))

-----------------------------------------------------------------------------
(* Properties.                                                             *)

\* A resident gets at most one e-mail about a change, also when two pipelines
\* process the same event and when one dies and the event is taken up again:
\* the unique index on (client, event) decides who sends.
OneMailPerChange ==
    \A ce \in Client \X Event :
        /\ mails[ce] <= 1
        /\ mails[ce] = 1 => ce \in inbox

\* The e-mail of a row just created is about to go out.
Pending(p, ce) ==
    At(p, "mail") /\ ce[1] \in run[p].who /\ ce[2] = run[p].ev

\* A mail notifyClient has gone on to (the row of the inbox exists by then, so
\* nobody will try again) is lost only by a failure of its own: there are at
\* most as many lost ones as failed calls and deaths.
LostMails ==
    {ce \in owed : mails[ce] = 0 /\ \A p \in Pipeline : ~Pending(p, ce)}

MailsLostByFaults == Cardinality(LostMails) <= faults

\* Between two stages of a dispatch, every client in one of the stages visited
\* so far has the event in the inbox, whoever put it there.  The one exception
\* is a client who was moved behind the back of the dispatch, from a stage
\* still to visit to one already visited; any other move, pipeline,
\* re-analysis or overlap of stages makes nobody be skipped.
DispatchReachesClients ==
    faults = 0 =>
        \A p \in Pipeline, c \in Client :
            /\ At(p, "stage") /\ stageOf[c] \in run[p].visited
            /\ <<p, run[p].ev, c>> \notin slipped
            => <<c, run[p].ev>> \in inbox

\* Without a failure nothing is marked as sent in silence: one of the two
\* alerts has announced it, or a pipeline has found it informational, or it
\* was dispatched to its clients by a process without Telegram.  In particular
\* what is not dispatched stays unsent where there is no Telegram
\* (pipeline.go:133-135).
NoSilentDrop ==
    faults = 0 =>
        \A e \in notified :
            addressed[e] + generic[e] > 0 \/ e \in quiet \/ e \in unheard

\* The feed only grows and its two flags are never taken back, whatever
\* pipelines, administrators and crashes do.
FlagsOnlyRise ==
    [][/\ recorded <= recorded'
       /\ analyzed \subseteq analyzed'
       /\ notified \subseteq notified'
       /\ inbox \subseteq inbox']_vars

\* After finitely many failures every change of a document is eventually
\* analysed, and where some pipeline ends up with Telegram configured every
\* recorded change is eventually marked as sent.
EveryChangeHandled ==
    \A e \in Event :
        /\ e \in Rows ~> (entity[e] \in Docs => e \in analyzed)
        /\ <>[](telegram # {}) => (e \in Rows ~> e \in notified)

\* pipeline.go:34-35 says that with an analyzer changes of documents pass the
\* classification and the dispatch to the residents concerned: one that is
\* analysed and closed was dispatched, or found not to be worth it.
ChangesAreDispatched ==
    faults = 0 /\ (\A p \in Pipeline : At(p, "idle")) =>
        \A e \in analyzed \cap notified :
            addressed[e] > 0 \/ e \in quiet \/ e \in unheard
=============================================================================
