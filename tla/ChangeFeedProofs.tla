--------------------------- MODULE ChangeFeedProofs ---------------------------
(***************************************************************************)
(* Theorems about ChangeFeed, for any number of pipelines, clients, events *)
(* and faults: the types, that no resident gets two e-mails about one      *)
(* change, and that nothing is dropped and nobody skipped without a fault. *)
(***************************************************************************)
EXTENDS ChangeFeed, FiniteSetTheorems, TLAPS

\* An event is at hand at every label that refers to it.
EventAtHand ==
    \A p \in Pipeline :
        run[p].pc \in {"enrich", "stage", "client", "mail"}
            => run[p].ev \in Event

\* Who is about to send has created the row of the inbox, nobody has sent
\* before, and nobody else is about to send.
PendingIsSole ==
    \A p \in Pipeline : \A ce \in Client \X Event :
        Pending(p, ce) => /\ ce \in inbox
                          /\ mails[ce] = 0
                          /\ \A q \in Pipeline : Pending(q, ce) => q = p

MailInv == TypeOK /\ EventAtHand /\ OneMailPerChange /\ PendingIsSole

\* The locals of an idle pipeline, and those the next event starts with.
LEMMA IdleType ==
    /\ Idle \in RunType
    /\ Idle.pc = "idle"
    /\ \A label \in PcLabel, b, d \in SUBSET Event :
         /\ [Idle EXCEPT !.batch = b, !.done = d, !.pc = label] \in RunType
         /\ [Idle EXCEPT !.batch = b, !.done = d, !.pc = label].pc = label
         /\ [Idle EXCEPT !.pc = label] \in RunType
         /\ [Idle EXCEPT !.pc = label].pc = label
<1>1. Idle \in RunType /\ Idle.pc = "idle"
  BY DEF Idle, RunType, PcLabel, Severity, NoEvent
<1>2. ASSUME NEW label \in PcLabel, NEW b \in SUBSET Event,
             NEW d \in SUBSET Event
      PROVE  /\ [Idle EXCEPT !.batch = b, !.done = d, !.pc = label] \in RunType
             /\ [Idle EXCEPT !.pc = label] \in RunType
  BY <1>1 DEF RunType
<1>3. ASSUME NEW label \in PcLabel, NEW b \in SUBSET Event,
             NEW d \in SUBSET Event
      PROVE  /\ [Idle EXCEPT !.batch = b, !.done = d, !.pc = label].pc = label
             /\ [Idle EXCEPT !.pc = label].pc = label
  BY DEF Idle
<1>4. QED
  BY <1>1, <1>2, <1>3

\* What the two queries of the feed return are recorded events.
LEMMA QueriesReturnEvents ==
    ASSUME recorded \in 0..MaxEvents
    PROVE  Unanalyzed \in SUBSET Event /\ Unnotified \in SUBSET Event
<1>1. Rows \subseteq Event
  BY ChangeFeedAssumption DEF Rows, Event
<1>2. QED
  BY <1>1 DEF Unanalyzed, Unnotified, OldestOf

\* A pipeline that replaces its locals by typed ones changes no other's.
LEMMA ReplaceLocals ==
    ASSUME run \in [Pipeline -> RunType], NEW p \in Pipeline,
           NEW r \in RunType, run' = [run EXCEPT ![p] = r]
    PROVE  /\ run' \in [Pipeline -> RunType]
           /\ \A q \in Pipeline \ {p} : run'[q] = run[q]
           /\ run'[p] = r
OBVIOUS

LEMMA NextEventType ==
    ASSUME NEW p \in Pipeline, run \in [Pipeline -> RunType],
           NEW left \in SUBSET Event, NEW done \in SUBSET Event,
           NextEvent(p, left, done)
    PROVE  /\ run' \in [Pipeline -> RunType]
           /\ \A q \in Pipeline \ {p} : run'[q] = run[q]
           /\ run'[p].pc \in {"analyze", "mark", "gfetch"}
<1> DEFINE label == CASE left # {} -> "analyze"
                      [] left = {} /\ done # {} -> "mark"
                      [] OTHER -> "gfetch"
           locals == [Idle EXCEPT !.batch = left, !.done = done, !.pc = label]
<1>1. label \in {"analyze", "mark", "gfetch"} /\ label \in PcLabel
  BY DEF PcLabel
<1>2. locals \in RunType /\ locals.pc = label
  <2> HIDE DEF label
  <2>1. locals.pc = label
    BY DEF Idle
  <2>2. QED
    BY <1>1, <2>1, IdleType
<1>3. run' = [run EXCEPT ![p] = locals]
  BY DEF NextEvent
<1>4. QED
  <2> HIDE DEF locals
  <2>1. QED
    BY <1>1, <1>2, <1>3

\* A step of a pipeline changes its own locals only, and they stay typed.
LEMMA LocalsStep ==
    ASSUME TypeOK, EventAtHand, NEW p \in Pipeline, Works(p) \/ Fails(p)
    PROVE  /\ run' \in [Pipeline -> RunType]
           /\ \A q \in Pipeline \ {p} : run'[q] = run[q]
           /\ run'[p].pc \in {"enrich", "stage", "client", "mail"}
                => run'[p].ev \in Event
<1> DEFINE Goal == /\ run' \in [Pipeline -> RunType]
                   /\ \A q \in Pipeline \ {p} : run'[q] = run[q]
                   /\ run'[p].pc \in {"enrich", "stage", "client", "mail"}
                        => run'[p].ev \in Event
<1>0. /\ run \in [Pipeline -> RunType]
      /\ recorded \in 0..MaxEvents
      /\ run[p].pc \in {"enrich", "stage", "client", "mail"}
            => run[p].ev \in Event
  BY DEF TypeOK, EventAtHand
<1> USE <1>0, ChangeFeedAssumption DEF At
<1>1. CASE Begin(p)
  BY <1>1 DEF Begin, RunType, PcLabel
<1>2. CASE Fetch(p)
  <2>1. PICK label \in {"gfetch", "analyze"} :
           run' = [run EXCEPT ![p] = [run[p] EXCEPT !.batch = Unanalyzed, !.pc = label]]
    BY <1>2 DEF Fetch
  <2> DEFINE r == [run[p] EXCEPT !.batch = Unanalyzed, !.pc = label]
  <2>2. r \in RunType /\ r.ev = run[p].ev /\ r.pc \in PcLabel
    BY <2>1, QueriesReturnEvents DEF RunType, PcLabel
  <2>3. r.pc \notin {"enrich", "stage", "client", "mail"} \/ run[p].ev \in Event
    BY <1>2, <2>1 DEF RunType, Fetch
  <2> HIDE DEF r
  <2>4. QED
    BY <2>1, <2>2, <2>3, ReplaceLocals DEF r
<1>3. CASE FetchFails(p)
  BY <1>3 DEF FetchFails, Fault, RunType, PcLabel
<1>4. CASE Analyze(p)
  BY <1>4 DEF Analyze, IsFirst, RunType, PcLabel
<1>5. CASE AnalyzeFails(p)
  <2>1. PICK e \in Event : /\ IsFirst(e, run[p].batch)
                          /\ NextEvent(p, run[p].batch \ {e}, run[p].done)
    BY <1>5 DEF AnalyzeFails
  <2>2. /\ run[p].batch \ {e} \in SUBSET Event
        /\ run[p].done \in SUBSET Event
    BY DEF RunType
  <2>3. QED
    BY <1>5, <2>1, <2>2, NextEventType DEF AnalyzeFails, Fault
<1>6. CASE Enrich(p)
  <2>1. /\ run[p].batch \ {run[p].ev} \in SUBSET Event
        /\ run[p].done \cup {run[p].ev} \in SUBSET Event
    BY <1>6 DEF Enrich, RunType
  <2>2. CASE run[p].sev = "info"
    BY <1>6, <2>1, <2>2, NextEventType DEF Enrich, Finished
  <2>3. CASE run[p].sev # "info"
    BY <1>6, <2>3 DEF Enrich, RunType, PcLabel
  <2>4. QED
    BY <2>2, <2>3
<1>7. CASE EnrichFails(p)
  <2>1. /\ run[p].batch \ {run[p].ev} \in SUBSET Event
        /\ run[p].done \in SUBSET Event
    BY <1>7 DEF EnrichFails, RunType
  <2>2. QED
    BY <1>7, <2>1, NextEventType DEF EnrichFails, Fault
<1>8. CASE ListClients(p)
  <2>1. PICK s \in Stage :
          LET listed == {c \in Client : stageOf[c] = s} \ run[p].seen
          IN  run' = [run EXCEPT ![p].visited = @ \cup {s},
                                 ![p].todo = listed,
                                 ![p].seen = @ \cup listed,
                                 ![p].pc = "client"]
    BY <1>8 DEF ListClients
  <2> DEFINE listed == {c \in Client : stageOf[c] = s} \ run[p].seen
             v == run[p].visited \cup {s}
             u == run[p].seen \cup listed
             r == [run[p] EXCEPT !.visited = v, !.todo = listed, !.seen = u,
                                 !.pc = "client"]
  <2>2. listed \in SUBSET Client /\ run' = [run EXCEPT ![p] = r]
    BY <2>1
  <2> HIDE DEF listed
  <2>3. run[p].ev \in Event
    BY <1>8 DEF ListClients
  <2>4. r \in RunType /\ r.ev = run[p].ev
    <3>1. v \in SUBSET Stage
      BY DEF RunType
    <3>2. u \in SUBSET Client
      BY <2>2 DEF RunType
    <3>3. run[p] \in RunType /\ listed \in SUBSET Client
      BY <2>2
    <3>4. r = [run[p] EXCEPT !.visited = v, !.todo = listed, !.seen = u,
                             !.pc = "client"]
      OBVIOUS
    <3> HIDE DEF r, u, v
    <3>5. QED
      BY ONLY <3>1, <3>2, <3>3, <3>4 DEF RunType, PcLabel
  <2> HIDE DEF r
  <2>5. QED
    BY <2>2, <2>3, <2>4, ReplaceLocals
<1>9. CASE ListClientsFails(p)
  BY <1>9 DEF ListClientsFails, Unvisited, IsFirst, Fault, RunType, PcLabel
<1>10. ASSUME NEW c \in Client, NotifyClient(p, c) PROVE Goal
  <2>0. PICK mailing \in BOOLEAN : GoesOn(p, c, mailing)
    BY <1>10 DEF NotifyClient
  <2>1. PICK w \in SUBSET Client, label \in {"client", "mail"} :
           run' = [run EXCEPT ![p] = [run[p] EXCEPT
              !.todo = @ \ {c}, !.who = w, !.pc = label]]
    <3>1. (IF mailing THEN {c} ELSE {}) \in SUBSET Client
      OBVIOUS
    <3>2. (IF mailing THEN "mail" ELSE run[p].pc) \in {"client", "mail"}
      BY <1>10 DEF NotifyClient
    <3> QED BY <2>0, <3>1, <3>2 DEF GoesOn
  <2> DEFINE r == [run[p] EXCEPT
              !.todo = @ \ {c}, !.who = w, !.pc = label]
  <2>2. r \in RunType /\ r.ev = run[p].ev /\ r.pc \in PcLabel
    BY <2>1, QueriesReturnEvents DEF RunType, PcLabel
  <2>3. r.pc \notin {"enrich", "stage", "client", "mail"} \/ run[p].ev \in Event
    BY <1>10, <2>1 DEF RunType, NotifyClient, GoesOn
  <2> HIDE DEF r
  <2>4. QED
    BY <2>1, <2>2, <2>3, ReplaceLocals DEF r
<1>11. ASSUME NEW c \in Client, NotifyClientFails(p, c) PROVE Goal
  BY <1>11 DEF NotifyClientFails, Fault, RunType, PcLabel
<1>12. CASE StageDone(p)
  BY <1>12 DEF StageDone, RunType, PcLabel
<1>13. CASE SendMail(p)
  BY <1>13 DEF SendMail, MailSent, RunType, PcLabel
<1>14. CASE SendMailFails(p)
  BY <1>14 DEF SendMailFails, MailSent, Fault, RunType, PcLabel
<1>15. CASE Alert(p)
  <2>1. /\ run[p].batch \ {run[p].ev} \in SUBSET Event
        /\ run[p].done \cup {run[p].ev} \in SUBSET Event
    BY <1>15 DEF Alert, RunType
  <2>2. QED
    BY <1>15, <2>1, NextEventType DEF Alert, Finished
<1>16. CASE AlertFails(p)
  <2>1. /\ run[p].batch \ {run[p].ev} \in SUBSET Event
        /\ run[p].done \cup {run[p].ev} \in SUBSET Event
    BY <1>16 DEF AlertFails, RunType
  <2>2. QED
    BY <1>16, <2>1, NextEventType DEF AlertFails, Finished, Fault
<1>17. CASE MarkNotified(p)
  BY <1>17, IdleType DEF MarkNotified, PcLabel
<1>18. CASE MarkNotifiedFails(p)
  BY <1>18, IdleType DEF MarkNotifiedFails, PcLabel
<1>19. CASE GenericFetch(p)
  <2>1. CASE Unnotified = {}
    BY <1>19, <2>1, IdleType DEF GenericFetch
  <2>2. CASE Unnotified # {}
    <3> DEFINE r == [Idle EXCEPT !.batch = Unnotified, !.done = Unnotified,
                                 !.pc = "gsend"]
    <3>0. "gsend" \in PcLabel /\ Unnotified \in SUBSET Event
      BY QueriesReturnEvents DEF PcLabel
    <3>1. r \in RunType /\ r.pc = "gsend"
      BY <3>0, IdleType
    <3>2. run' = [run EXCEPT ![p] = r]
      BY <1>19, <2>2 DEF GenericFetch
    <3> HIDE DEF r
    <3>3. QED
      BY <3>1, <3>2, ReplaceLocals
  <2>3. QED
    BY <2>1, <2>2
<1>20. CASE GenericFetchFails(p)
  BY <1>20, IdleType DEF GenericFetchFails, Fault
<1>21. CASE GenericSend(p)
  <2>1. PICK e \in Event, label \in {"gsend", "gmark"} :
           run' = [run EXCEPT ![p] = [run[p] EXCEPT
              !.batch = @ \ {e}, !.pc = label]]
    BY <1>21 DEF GenericSend, GenericSent
  <2> DEFINE r == [run[p] EXCEPT
              !.batch = @ \ {e}, !.pc = label]
  <2>2. r \in RunType /\ r.ev = run[p].ev /\ r.pc \in PcLabel
    BY <2>1, QueriesReturnEvents DEF RunType, PcLabel
  <2>3. r.pc \notin {"enrich", "stage", "client", "mail"} \/ run[p].ev \in Event
    BY <1>21, <2>1 DEF RunType, GenericSend
  <2> HIDE DEF r
  <2>4. QED
    BY <2>1, <2>2, <2>3, ReplaceLocals DEF r
<1>22. CASE GenericSendFails(p)
  <2>1. PICK e \in Event, label \in {"gsend", "gmark"} :
           run' = [run EXCEPT ![p] = [run[p] EXCEPT
              !.batch = @ \ {e}, !.pc = label]]
    BY <1>22 DEF GenericSendFails, GenericSent
  <2> DEFINE r == [run[p] EXCEPT
              !.batch = @ \ {e}, !.pc = label]
  <2>2. r \in RunType /\ r.ev = run[p].ev /\ r.pc \in PcLabel
    BY <2>1, QueriesReturnEvents DEF RunType, PcLabel
  <2>3. r.pc \notin {"enrich", "stage", "client", "mail"} \/ run[p].ev \in Event
    BY <1>22, <2>1 DEF RunType, GenericSendFails
  <2> HIDE DEF r
  <2>4. QED
    BY <2>1, <2>2, <2>3, ReplaceLocals DEF r
<1>23. CASE GenericMark(p)
  BY <1>23, IdleType DEF GenericMark
<1>24. CASE GenericMarkFails(p)
  BY <1>24, IdleType DEF GenericMarkFails, Fault
<1>25. CASE Crash(p)
  BY <1>25, IdleType DEF Crash, Fault
<1>26. CASE NoAlert(p)
  <2>1. /\ run[p].batch \ {run[p].ev} \in SUBSET Event
        /\ run[p].done \cup {run[p].ev} \in SUBSET Event
    BY <1>26 DEF NoAlert, RunType
  <2>2. QED
    BY <1>26, <2>1, NextEventType DEF NoAlert, Finished
<1>27. CASE GenericOff(p)
  BY <1>27, IdleType DEF GenericOff
<1>28. QED
  BY <1>1, <1>2, <1>3, <1>4, <1>5, <1>6, <1>7, <1>8, <1>9, <1>10, <1>11,
     <1>12, <1>13, <1>14, <1>15, <1>16, <1>17, <1>18, <1>19, <1>20, <1>21,
     <1>22, <1>23, <1>24, <1>25, <1>26, <1>27
  DEF Works, Fails

\* A step of a pipeline keeps the types of the tables and the histories.
LEMMA TablesStep ==
    ASSUME TypeOK, EventAtHand, NEW p \in Pipeline, Works(p) \/ Fails(p),
           run' \in [Pipeline -> RunType]
    PROVE  TypeOK'
<1>0. /\ run[p].done \subseteq Event
      /\ run[p].pc \in {"enrich", "stage", "client", "mail"}
            => run[p].ev \in Event
  BY DEF TypeOK, EventAtHand, RunType
<1> USE <1>0, ChangeFeedAssumption DEF TypeOK, At, feed, told, clients, outside
<1>1. CASE Begin(p)
  BY <1>1 DEF Begin
<1>2. CASE Fetch(p)
  BY <1>2 DEF Fetch
<1>3. CASE FetchFails(p)
  BY <1>3 DEF FetchFails, Fault
<1>4. CASE Analyze(p)
  BY <1>4 DEF Analyze
<1>5. CASE AnalyzeFails(p)
  BY <1>5 DEF AnalyzeFails, Fault
<1>6. CASE Enrich(p)
  BY <1>6 DEF Enrich
<1>7. CASE EnrichFails(p)
  BY <1>7 DEF EnrichFails, Fault
<1>8. CASE ListClients(p)
  BY <1>8 DEF ListClients
<1>9. CASE ListClientsFails(p)
  BY <1>9 DEF ListClientsFails, Fault
<1>10. ASSUME NEW c \in Client, NotifyClient(p, c) PROVE TypeOK'
  BY <1>10 DEF NotifyClient, GoesOn
<1>11. ASSUME NEW c \in Client, NotifyClientFails(p, c) PROVE TypeOK'
  BY <1>11 DEF NotifyClientFails, Fault
<1>12. CASE StageDone(p)
  BY <1>12 DEF StageDone
<1>13. CASE SendMail(p)
  BY <1>13 DEF SendMail
<1>14. CASE SendMailFails(p)
  BY <1>14 DEF SendMailFails, Fault
<1>15. CASE Alert(p)
  BY <1>15 DEF Alert
<1>16. CASE AlertFails(p)
  BY <1>16 DEF AlertFails, Fault
<1>17. CASE MarkNotified(p)
  BY <1>17 DEF MarkNotified
<1>18. CASE MarkNotifiedFails(p)
  BY <1>18 DEF MarkNotifiedFails, Fault
<1>19. CASE GenericFetch(p)
  BY <1>19 DEF GenericFetch
<1>20. CASE GenericFetchFails(p)
  BY <1>20 DEF GenericFetchFails, Fault
<1>21. CASE GenericSend(p)
  BY <1>21 DEF GenericSend
<1>22. CASE GenericSendFails(p)
  BY <1>22 DEF GenericSendFails, Fault
<1>23. CASE GenericMark(p)
  BY <1>23 DEF GenericMark
<1>24. CASE GenericMarkFails(p)
  BY <1>24 DEF GenericMarkFails, Fault
<1>25. CASE Crash(p)
  BY <1>25 DEF Crash, Fault
<1>26. CASE NoAlert(p)
  BY <1>26 DEF NoAlert
<1>27. CASE GenericOff(p)
  BY <1>27 DEF GenericOff
<1>28. QED
  BY <1>1, <1>2, <1>3, <1>4, <1>5, <1>6, <1>7, <1>8, <1>9, <1>10, <1>11,
     <1>12, <1>13, <1>14, <1>15, <1>16, <1>17, <1>18, <1>19, <1>20, <1>21,
     <1>22, <1>23, <1>24, <1>25, <1>26, <1>27
  DEF Works, Fails

\* Every step of a pipeline keeps the types, and an event at hand.
LEMMA TypeStep ==
    ASSUME TypeOK, EventAtHand, NEW p \in Pipeline, Works(p) \/ Fails(p)
    PROVE  TypeOK' /\ EventAtHand'
BY LocalsStep, TablesStep DEF EventAtHand

\* The same for what collectors, administrators and consultants do.
LEMMA EnvironmentTypeStep ==
    ASSUME TypeOK, EventAtHand, Environment
    PROVE  TypeOK' /\ EventAtHand'
<1> USE ChangeFeedAssumption
    DEF TypeOK, EventAtHand, told, clients, outside, feed
<1>1. ASSUME NEW d \in Docs \cup Others, Record(d)
      PROVE  TypeOK' /\ EventAtHand'
  <2>1. recorded + 1 \in Event /\ recorded + 1 \in 0..MaxEvents
    BY <1>1 DEF Record, Event
  <2>2. QED
    BY <1>1, <2>1 DEF Record
<1>2. ASSUME NEW d \in Docs, Reanalyze(d) PROVE TypeOK' /\ EventAtHand'
  <2>1. Rows \subseteq Event
    BY DEF Rows, Event
  <2>2. QED
    BY <1>2, <2>1 DEF Reanalyze
<1>3. ASSUME NEW c \in Client, NEW s \in Stage, MoveClient(c, s)
      PROVE  TypeOK' /\ EventAtHand'
  <2>1. \A q \in Pipeline : run[q].ev # NoEvent => run[q].ev \in Event
    BY DEF RunType
  <2>2. slipped' \subseteq Pipeline \X Event \X Client
    BY <1>3, <2>1 DEF MoveClient
  <2>3. QED
    BY <1>3, <2>2 DEF MoveClient
<1>4. ASSUME NEW e \in Event, PersistVerdict(e) \/ PersistVerdictFails(e)
      PROVE  TypeOK' /\ EventAtHand'
  BY <1>4 DEF PersistVerdict, PersistVerdictFails, Fault
<1>5. QED
  BY <1>1, <1>2, <1>3, <1>4 DEF Environment

\* A step that sends nothing and makes nobody a sender keeps the senders sole.
LEMMA NoNewSender ==
    ASSUME OneMailPerChange, PendingIsSole, mails' = mails, inbox \subseteq inbox',
           \A p \in Pipeline : \A ce \in Client \X Event :
               Pending(p, ce)' => Pending(p, ce)
    PROVE  OneMailPerChange' /\ PendingIsSole'
BY DEF OneMailPerChange, PendingIsSole

\* A step of one pipeline that does not leave it at "mail" makes no sender.
LEMMA NotASender ==
    ASSUME NEW p \in Pipeline, \A q \in Pipeline \ {p} : run'[q] = run[q],
           run'[p].pc # "mail"
    PROVE  \A q \in Pipeline : \A ce \in Client \X Event :
               Pending(q, ce)' => Pending(q, ce)
BY DEF Pending, At

\* Only notifyClient takes a pipeline to a mail, and only the sending takes
\* it on from there, a failure of the sending or a death.
LEMMA QuietStep ==
    ASSUME MailInv, NEW p \in Pipeline, Works(p) \/ Fails(p), ~SendMail(p),
           \A c \in Client : ~NotifyClient(p, c)
    PROVE  /\ run'[p].pc # "mail"
           /\ UNCHANGED <<mails, owed>>
           /\ inbox \subseteq inbox'
           /\ At(p, "mail") => Fault
<1> DEFINE Quiet == /\ run'[p].pc # "mail"
                    /\ UNCHANGED <<mails, owed>>
                    /\ inbox \subseteq inbox'
                    /\ At(p, "mail") => Fault
<1>0. /\ run \in [Pipeline -> RunType]
      /\ run[p] \in RunType
      /\ recorded \in 0..MaxEvents
      /\ run[p].pc \in {"enrich", "stage", "client", "mail"}
            => run[p].ev \in Event
      /\ \A q \in Pipeline \ {p} : run'[q] = run[q]
      /\ run' \in [Pipeline -> RunType]
      /\ mails \in [Client \X Event -> Nat]
  BY LocalsStep DEF MailInv, TypeOK, EventAtHand
<1> USE <1>0 DEF At, told
<1>1. ASSUME Begin(p) PROVE Quiet
  BY <1>1 DEF Begin
<1>2. ASSUME Fetch(p) PROVE Quiet
  BY <1>2 DEF Fetch, Unanalyzed, OldestOf, Rows
<1>3. ASSUME FetchFails(p) PROVE Quiet
  BY <1>3 DEF FetchFails, Fault
<1>4. ASSUME Analyze(p) PROVE Quiet
  BY <1>4 DEF Analyze, IsFirst
<1>5. ASSUME AnalyzeFails(p) PROVE Quiet
  <2>1. PICK e \in Event : /\ IsFirst(e, run[p].batch)
                          /\ NextEvent(p, run[p].batch \ {e}, run[p].done)
    BY <1>5 DEF AnalyzeFails
  <2>2. /\ run[p].batch \ {e} \in SUBSET Event
        /\ run[p].done \in SUBSET Event
    BY DEF RunType
  <2>3. QED
    BY <1>5, <2>1, <2>2, NextEventType DEF AnalyzeFails, Fault
<1>6. ASSUME Enrich(p) PROVE Quiet
  <2>1. /\ run[p].batch \ {run[p].ev} \in SUBSET Event
        /\ run[p].done \cup {run[p].ev} \in SUBSET Event
    BY <1>6 DEF Enrich, RunType
  <2>2. CASE run[p].sev = "info"
    BY <1>6, <2>1, <2>2, NextEventType DEF Enrich, Finished
  <2>3. CASE run[p].sev # "info"
    <3>1. run' = [run EXCEPT ![p].pc = "stage"]
      BY <1>6, <2>3 DEF Enrich
    <3>2. run'[p].pc = "stage"
      BY <3>1 DEF RunType
    <3>3. QED
      BY <1>6, <3>2 DEF Enrich
  <2>4. QED
    BY <2>2, <2>3
<1>7. ASSUME EnrichFails(p) PROVE Quiet
  <2>1. /\ run[p].batch \ {run[p].ev} \in SUBSET Event
        /\ run[p].done \in SUBSET Event
    BY <1>7 DEF EnrichFails, RunType
  <2>2. QED
    BY <1>7, <2>1, NextEventType DEF EnrichFails, Fault
<1>8. ASSUME ListClients(p) PROVE Quiet
  <2>1. PICK s \in Stage :
          LET listed == {c \in Client : stageOf[c] = s} \ run[p].seen
          IN  run' = [run EXCEPT ![p].visited = @ \cup {s},
                                 ![p].todo = listed,
                                 ![p].seen = @ \cup listed,
                                 ![p].pc = "client"]
    BY <1>8 DEF ListClients
  <2>2. run'[p].pc = "client"
    BY <2>1 DEF RunType
  <2>3. QED
    BY <1>8, <2>2 DEF ListClients
<1>9. ASSUME ListClientsFails(p) PROVE Quiet
  BY <1>9 DEF ListClientsFails, Unvisited, IsFirst, Fault
<1>10. ASSUME NEW c \in Client, NotifyClientFails(p, c) PROVE Quiet
  BY <1>10 DEF NotifyClientFails, Fault
<1>11. ASSUME StageDone(p) PROVE Quiet
  BY <1>11 DEF StageDone
<1>12. ASSUME SendMailFails(p) PROVE Quiet
  BY <1>12 DEF SendMailFails, MailSent, Fault
<1>13. ASSUME Alert(p) PROVE Quiet
  <2>1. /\ run[p].batch \ {run[p].ev} \in SUBSET Event
        /\ run[p].done \cup {run[p].ev} \in SUBSET Event
    BY <1>13 DEF Alert, RunType
  <2>2. QED
    BY <1>13, <2>1, NextEventType DEF Alert, Finished
<1>14. ASSUME AlertFails(p) PROVE Quiet
  <2>1. /\ run[p].batch \ {run[p].ev} \in SUBSET Event
        /\ run[p].done \cup {run[p].ev} \in SUBSET Event
    BY <1>14 DEF AlertFails, RunType
  <2>2. QED
    BY <1>14, <2>1, NextEventType DEF AlertFails, Finished, Fault
<1>15. ASSUME MarkNotified(p) PROVE Quiet
  BY <1>15, IdleType DEF MarkNotified, PcLabel
<1>16. ASSUME MarkNotifiedFails(p) PROVE Quiet
  BY <1>16, IdleType DEF MarkNotifiedFails, PcLabel, Fault
<1>17. ASSUME GenericFetch(p) PROVE Quiet
  <2>1. "gsend" \in PcLabel /\ Unnotified \in SUBSET Event
    BY QueriesReturnEvents DEF PcLabel
  <2>2. QED
    BY <1>17, <2>1, IdleType DEF GenericFetch
<1>18. ASSUME GenericFetchFails(p) PROVE Quiet
  BY <1>18, IdleType DEF GenericFetchFails, PcLabel, Fault
<1>19. ASSUME GenericSend(p) PROVE Quiet
  BY <1>19 DEF GenericSend, GenericSent, IsFirst
<1>20. ASSUME GenericSendFails(p) PROVE Quiet
  BY <1>20 DEF GenericSendFails, GenericSent, IsFirst, Fault
<1>21. ASSUME GenericMark(p) PROVE Quiet
  BY <1>21, IdleType DEF GenericMark, PcLabel
<1>22. ASSUME GenericMarkFails(p) PROVE Quiet
  BY <1>22, IdleType DEF GenericMarkFails, PcLabel, Fault
<1>23. ASSUME Crash(p) PROVE Quiet
  BY <1>23, IdleType DEF Crash, PcLabel, Fault
<1>28. ASSUME NoAlert(p) PROVE Quiet
  <2>1. /\ run[p].batch \ {run[p].ev} \in SUBSET Event
        /\ run[p].done \cup {run[p].ev} \in SUBSET Event
    BY <1>28 DEF NoAlert, RunType
  <2>2. QED
    BY <1>28, <2>1, NextEventType DEF NoAlert, Finished
<1>29. ASSUME GenericOff(p) PROVE Quiet
  BY <1>29, IdleType DEF GenericOff, PcLabel
<1>30. QED
  BY <1>1, <1>2, <1>3, <1>4, <1>5, <1>6, <1>7, <1>8, <1>9, <1>10,
     <1>11, <1>12, <1>13, <1>14, <1>15, <1>16, <1>17, <1>18,
     <1>19, <1>20, <1>21, <1>22, <1>23, <1>28, <1>29
  DEF Works, Fails

\* Every step of a pipeline keeps the senders sole: only notifyClient makes
\* one, and only after it has created the row.
LEMMA SenderStep ==
    ASSUME MailInv, NEW p \in Pipeline, Works(p) \/ Fails(p)
    PROVE  OneMailPerChange' /\ PendingIsSole'
<1>0. /\ run \in [Pipeline -> RunType]
      /\ run[p] \in RunType
      /\ run[p].pc \in {"enrich", "stage", "client", "mail"}
            => run[p].ev \in Event
      /\ \A q \in Pipeline \ {p} : run'[q] = run[q]
      /\ run' \in [Pipeline -> RunType]
      /\ mails \in [Client \X Event -> Nat]
  BY LocalsStep DEF MailInv, TypeOK, EventAtHand
<1> USE <1>0 DEF At, told
<1>24. ASSUME run'[p].pc # "mail", mails' = mails, inbox \subseteq inbox'
       PROVE  OneMailPerChange' /\ PendingIsSole'
  <2>1. \A q \in Pipeline : \A ce \in Client \X Event :
            Pending(q, ce)' => Pending(q, ce)
    BY <1>24, NotASender
  <2>2. QED
    BY <1>24, <2>1, NoNewSender DEF MailInv
<1>25. CASE SendMail(p)
  <2>1. \A q \in Pipeline : \A ce \in Client \X Event :
            Pending(q, ce)' => Pending(q, ce) /\ q # p
    BY <1>25 DEF SendMail, MailSent, Pending
  <2>2. \A ce \in Client \X Event :
            mails'[ce] = IF Pending(p, ce) THEN mails[ce] + 1 ELSE mails[ce]
    BY <1>25 DEF SendMail, Pending
  <2>3. inbox' = inbox
    BY <1>25 DEF SendMail
  <2>4. QED
    BY <2>1, <2>2, <2>3 DEF MailInv, OneMailPerChange, PendingIsSole
<1>26. ASSUME NEW c \in Client, NotifyClient(p, c)
      PROVE  OneMailPerChange' /\ PendingIsSole'
  <2> DEFINE new == <<c, run[p].ev>>
  <2>1. mails' = mails /\ inbox' = inbox \cup {new} /\ new \in Client \X Event
    BY <1>26 DEF NotifyClient
  <2>5. PICK mailing \in BOOLEAN :
           GoesOn(p, c, mailing) /\ (mailing => new \notin inbox)
    BY <1>26 DEF NotifyClient
  <2>2. CASE mailing
    <3>1. run'[p].who = {c} /\ run'[p].ev = run[p].ev /\ run[p].pc # "mail"
      BY <1>26, <2>2, <2>5 DEF NotifyClient, GoesOn, RunType
    <3>2. \A ce \in Client \X Event : Pending(p, ce)' => ce = new
      BY <3>1 DEF Pending
    <3>3. \A q \in Pipeline \ {p} : \A ce \in Client \X Event :
              Pending(q, ce)' <=> Pending(q, ce)
      BY DEF Pending
    <3>4. mails[new] = 0 /\ \A q \in Pipeline : ~Pending(q, new)
      <4>1. new \notin inbox
        BY <2>2, <2>5
      <4> HIDE DEF new
      <4>2. mails[new] # 1 /\ mails[new] <= 1 /\ mails[new] \in Nat
        BY <2>1, <4>1 DEF MailInv, OneMailPerChange
      <4> QED BY <2>1, <4>1, <4>2 DEF MailInv, PendingIsSole
    <3> HIDE DEF new
    <3>5. QED
      BY <2>1, <3>2, <3>3, <3>4 DEF MailInv, OneMailPerChange, PendingIsSole
  <2>3. CASE ~mailing
    <3>1. run'[p].pc = "client"
      <4>1. run[p].pc = "client"
        BY <1>26 DEF NotifyClient
      <4>2. run' = [run EXCEPT ![p].todo = run[p].todo \ {c},
                               ![p].who = {}, ![p].pc = run[p].pc]
        BY <2>3, <2>5 DEF GoesOn
      <4> QED BY <4>1, <4>2 DEF RunType
    <3>2. QED
      BY <2>1, <3>1, <1>24
  <2>4. QED
    BY <2>2, <2>3
<1>27. QED
  BY <1>24, <1>25, <1>26, QuietStep

\* The invariant holds at the start and every step keeps it.
LEMMA MailInvStep == MailInv /\ [Next]_vars => MailInv'
<1> SUFFICES ASSUME MailInv, [Next]_vars PROVE MailInv'
  OBVIOUS
<1>1. ASSUME NEW p \in Pipeline, Works(p) \/ Fails(p) PROVE MailInv'
  BY <1>1, TypeStep, SenderStep DEF MailInv
<1>2. CASE Environment
  <2>1. TypeOK' /\ EventAtHand'
    BY <1>2, EnvironmentTypeStep DEF MailInv
  <2>2. UNCHANGED <<run, inbox, mails>>
    BY <1>2 DEF Environment, Record, Reanalyze, PersistVerdict,
       PersistVerdictFails, MoveClient, told
  <2>3. QED
    BY <2>1, <2>2 DEF MailInv, OneMailPerChange, PendingIsSole, Pending, At
<1>3. CASE UNCHANGED vars
  BY <1>3 DEF vars, feed, told, clients, outside, MailInv, TypeOK, EventAtHand,
              OneMailPerChange, PendingIsSole, Pending, At
<1>4. QED
  BY <1>1, <1>2, <1>3 DEF Next

LEMMA MailInvInit == Init => MailInv
<1> SUFFICES ASSUME Init PROVE MailInv
  OBVIOUS
<1>1. (CHOOSE d \in Docs \cup Others : TRUE) \in Docs \cup Others
  BY ChangeFeedAssumption
<1>2. TypeOK
  <2>1. run \in [Pipeline -> RunType]
    BY IdleType DEF Init
  <2>2. entity \in [Event -> Docs \cup Others]
    BY <1>1 DEF Init
  <2>3. QED
    BY <2>1, <2>2, ChangeFeedAssumption DEF Init, TypeOK
<1>3. EventAtHand /\ OneMailPerChange /\ PendingIsSole
  <2>1. \A p \in Pipeline : run[p].pc = "idle"
    BY IdleType DEF Init
  <2>2. \A ce \in Client \X Event : mails[ce] = 0
    BY DEF Init
  <2>3. QED
    BY <2>1, <2>2 DEF EventAtHand, OneMailPerChange, PendingIsSole, Pending, At
<1>4. QED
  BY <1>2, <1>3 DEF MailInv

\* Every variable of the feed and of the pipelines keeps its type
\* (pipeline.go, changes/postgres.go), whatever fails.
THEOREM TypeCorrect == Spec => []TypeOK
<1>1. Spec => []MailInv
  BY MailInvInit, MailInvStep, PTL DEF Spec
<1>2. MailInv => TypeOK
  BY DEF MailInv
<1>3. QED
  BY <1>1, <1>2, PTL

\* No resident gets a second e-mail about a change (dispatcher.notifyClient),
\* for any number of pipelines working on the same events and any failures.
THEOREM OneMail == Spec => []OneMailPerChange
<1>1. Spec => []MailInv
  BY MailInvInit, MailInvStep, PTL DEF Spec
<1>2. MailInv => OneMailPerChange
  BY DEF MailInv
<1>3. QED
  BY <1>1, <1>2, PTL

\* Who is about to send sends to one client.
OneAtATime ==
    \A p \in Pipeline :
        At(p, "mail") => \E c \in Client : run[p].who \subseteq {c}

LostInv ==
    /\ OneAtATime
    /\ IsFiniteSet(LostMails)
    /\ Cardinality(LostMails) <= faults

\* Nothing more is lost, or one mail for a failure.
LEMMA LostByFault ==
    ASSUME TypeOK, LostInv, NEW ce,
           \/ LostMails' \subseteq LostMails /\ (faults' = faults \/ Fault)
           \/ LostMails' \subseteq LostMails \cup {ce} /\ Fault
    PROVE  IsFiniteSet(LostMails)' /\ (Cardinality(LostMails) <= faults)'
<1>1. faults \in Nat /\ Cardinality(LostMails) \in Nat
  BY ChangeFeedAssumption, FS_CardinalityType DEF TypeOK, LostInv
<1>2. CASE LostMails' \subseteq LostMails /\ (faults' = faults \/ Fault)
  <2>1. /\ IsFiniteSet(LostMails')
        /\ Cardinality(LostMails') <= Cardinality(LostMails)
        /\ Cardinality(LostMails') \in Nat
    BY <1>2, FS_Subset, FS_CardinalityType DEF LostInv
  <2> QED BY <1>1, <1>2, <2>1 DEF LostInv, Fault
<1>3. CASE LostMails' \subseteq LostMails \cup {ce} /\ Fault
  <2> DEFINE more == LostMails \cup {ce}
  <2>3. /\ IsFiniteSet(more)
        /\ \/ Cardinality(more) = Cardinality(LostMails)
           \/ Cardinality(more) = Cardinality(LostMails) + 1
    <3>1. IsFiniteSet(LostMails)
      BY DEF LostInv
    <3> QED BY <3>1, FS_AddElement
  <2>1. /\ IsFiniteSet(LostMails \cup {ce})
        /\ Cardinality(LostMails \cup {ce}) <= Cardinality(LostMails) + 1
        /\ Cardinality(LostMails \cup {ce}) \in Nat
    <3> HIDE DEF more
    <3>1. Cardinality(more) <= Cardinality(LostMails) + 1 /\ Cardinality(more) \in Nat
      BY <1>1, <2>3
    <3> QED BY <2>3, <3>1 DEF more
  <2>2. /\ IsFiniteSet(LostMails')
        /\ Cardinality(LostMails') <= Cardinality(LostMails \cup {ce})
        /\ Cardinality(LostMails') \in Nat
    BY <1>3, <2>1, FS_Subset, FS_CardinalityType
  <2> QED BY <1>1, <1>3, <2>1, <2>2 DEF LostInv, Fault
<1> QED BY <1>2, <1>3

\* Every call of a pipeline either fails or counts no failure.
LEMMA FaultOrNot ==
    ASSUME NEW p \in Pipeline, Works(p) \/ Fails(p)
    PROVE  faults' = faults \/ Fault
<1>1. ASSUME NEW c \in Client, NotifyClient(p, c) PROVE faults' = faults
  BY <1>1 DEF NotifyClient
<1>2. CASE Works(p)
  BY <1>1, <1>2 DEF Works, Begin, Fetch, Analyze, Enrich, ListClients, StageDone,
     SendMail, Alert, NoAlert, MarkNotified, GenericOff, GenericFetch,
     GenericSend, GenericMark
<1>3. CASE Fails(p)
  BY <1>3 DEF Fails, FetchFails, AnalyzeFails, EnrichFails, ListClientsFails,
     NotifyClientFails, SendMailFails, AlertFails, MarkNotifiedFails,
     GenericFetchFails, GenericSendFails, GenericMarkFails, Crash
<1> QED BY <1>2, <1>3

LEMMA LostStep ==
    ASSUME MailInv, LostInv, NEW p \in Pipeline, Works(p) \/ Fails(p)
    PROVE  LostInv'
<1>0. /\ run \in [Pipeline -> RunType] /\ run' \in [Pipeline -> RunType]
      /\ run[p].pc \in {"enrich", "stage", "client", "mail"}
            => run[p].ev \in Event
      /\ \A q \in Pipeline \ {p} : run'[q] = run[q]
      /\ mails \in [Client \X Event -> Nat]
      /\ owed \subseteq Client \X Event /\ owed' \subseteq Client \X Event
      /\ TypeOK
  BY LocalsStep, TablesStep DEF MailInv, TypeOK, EventAtHand
<1>1. \A q \in Pipeline \ {p} : \A ce : Pending(q, ce)' <=> Pending(q, ce)
  BY <1>0 DEF Pending, At
<1>2. CASE SendMail(p)
  <2>1. /\ owed' = owed /\ run'[p].pc # "mail" /\ faults' = faults
        /\ \A ce \in Client \X Event :
              mails'[ce] = IF Pending(p, ce) THEN mails[ce] + 1 ELSE mails[ce]
    BY <1>0, <1>2 DEF SendMail, MailSent, Pending, At
  <2>2. LostMails' \subseteq LostMails
    BY <1>0, <1>1, <2>1 DEF LostMails
  <2>3. OneAtATime'
    BY <1>0, <2>1 DEF OneAtATime, LostInv, At
  <2> QED BY <1>0, <2>1, <2>2, <2>3, LostByFault DEF LostInv
<1>3. ASSUME NEW c \in Client, NotifyClient(p, c) PROVE LostInv'
  <2>1. PICK mailing \in BOOLEAN : GoesOn(p, c, mailing)
    BY <1>3 DEF NotifyClient
  <2>2. /\ run[p].pc = "client" /\ mails' = mails /\ faults' = faults
        /\ run'[p].who \subseteq {c}
        /\ mailing => /\ run'[p].pc = "mail" /\ run'[p].ev = run[p].ev
                      /\ run'[p].who = {c}
        /\ owed' = IF mailing THEN owed \cup {<<c, run[p].ev>>} ELSE owed
    BY <1>0, <1>3, <2>1 DEF NotifyClient, GoesOn, At, RunType
  <2>3. \A ce : ~Pending(p, ce)
    BY <2>2 DEF Pending, At
  <2>4. mailing => Pending(p, <<c, run[p].ev>>)'
    BY <2>2 DEF Pending, At
  <2>5. LostMails' \subseteq LostMails
    BY <1>1, <2>2, <2>3, <2>4 DEF LostMails
  <2>6. OneAtATime'
    BY <1>0, <2>2 DEF OneAtATime, LostInv, At
  <2> QED BY <1>0, <2>2, <2>5, <2>6, LostByFault DEF LostInv
<1>4. CASE ~SendMail(p) /\ \A c \in Client : ~NotifyClient(p, c)
  <2>1. /\ run'[p].pc # "mail"
        /\ UNCHANGED <<mails, owed>>
        /\ At(p, "mail") => Fault
    BY <1>4, QuietStep
  <2>2. OneAtATime'
    BY <1>0, <2>1 DEF OneAtATime, LostInv, At
  <2>3. CASE ~At(p, "mail")
    <3>1. LostMails' \subseteq LostMails
      BY <1>1, <2>1, <2>3 DEF LostMails, Pending
    <3> QED BY <1>0, <2>2, <3>1, FaultOrNot, LostByFault DEF LostInv
  <2>4. CASE At(p, "mail")
    <3>1. PICK c \in Client : run[p].who \subseteq {c}
      BY <2>4 DEF LostInv, OneAtATime
    <3>2. LostMails' \subseteq LostMails \cup {<<c, run[p].ev>>}
      BY <1>0, <1>1, <2>1, <3>1 DEF LostMails, Pending
    <3> QED BY <1>0, <2>1, <2>2, <2>4, <3>2, LostByFault DEF LostInv
  <2> QED BY <2>3, <2>4
<1> QED BY <1>2, <1>3, <1>4

\* A mail that notifyClient has come to is lost only by a failure of its own
\* (dispatcher.notifyClient), for any number of pipelines.
THEOREM MailsAccounted == Spec => []MailsLostByFaults
<1>1. Init => LostInv
  <2> SUFFICES ASSUME Init PROVE LostInv
    OBVIOUS
  <2>1. LostMails = {}
    BY DEF Init, LostMails
  <2>2. \A p \in Pipeline : run[p].pc = "idle"
    BY IdleType DEF Init
  <2> QED BY <2>1, <2>2, FS_EmptySet DEF LostInv, OneAtATime, At, Init
<1>2. MailInv /\ LostInv /\ [Next]_vars => LostInv'
  <2> SUFFICES ASSUME MailInv, LostInv, [Next]_vars PROVE LostInv'
    OBVIOUS
  <2>1. ASSUME NEW p \in Pipeline, Works(p) \/ Fails(p) PROVE LostInv'
    BY <2>1, LostStep
  <2>2. CASE Environment \/ UNCHANGED vars
    <3>1. UNCHANGED <<run, mails, owed>> /\ (faults' = faults \/ Fault)
      BY <2>2 DEF Environment, Record, Reanalyze, PersistVerdict,
         PersistVerdictFails, MoveClient, told, vars
    <3>2. LostMails' \subseteq LostMails /\ OneAtATime'
      BY <3>1 DEF LostMails, Pending, At, OneAtATime, LostInv
    <3> QED BY <3>1, <3>2, LostByFault DEF LostInv, MailInv
  <2> QED BY <2>1, <2>2 DEF Next
<1>3. LostInv => MailsLostByFaults
  BY DEF LostInv, MailsLostByFaults
<1> QED BY <1>1, <1>2, <1>3, MailInvInit, MailInvStep, PTL DEF Spec

\* The feed only grows, and its flags and the inbox are never taken back
\* (changes/postgres.go, notification_store.go).
THEOREM FlagsKept == Spec => FlagsOnlyRise
<1>1. TypeOK /\ [Next]_vars => [/\ recorded <= recorded'
                               /\ analyzed \subseteq analyzed'
                               /\ notified \subseteq notified'
                               /\ inbox \subseteq inbox']_vars
  <2> SUFFICES ASSUME TypeOK, Next
               PROVE  /\ recorded <= recorded'
                      /\ analyzed \subseteq analyzed'
                      /\ notified \subseteq notified'
                      /\ inbox \subseteq inbox'
    OBVIOUS
  <2> USE DEF TypeOK, feed, told
  <2>1. ASSUME NEW p \in Pipeline, Works(p)
        PROVE  /\ recorded <= recorded'
               /\ analyzed \subseteq analyzed'
               /\ notified \subseteq notified'
               /\ inbox \subseteq inbox'
    <3>1. CASE Enrich(p)
      BY <3>1 DEF Enrich
    <3>2. ASSUME NEW c \in Client, NotifyClient(p, c)
          PROVE  /\ UNCHANGED feed
                 /\ inbox \subseteq inbox'
      BY <3>2 DEF NotifyClient
    <3>3. CASE MarkNotified(p) \/ GenericMark(p)
      BY <3>3 DEF MarkNotified, GenericMark
    <3>4. CASE \/ Begin(p) \/ Fetch(p) \/ Analyze(p) \/ ListClients(p)
               \/ StageDone(p) \/ SendMail(p) \/ Alert(p) \/ NoAlert(p)
               \/ GenericOff(p) \/ GenericFetch(p) \/ GenericSend(p)
      <4>1. UNCHANGED <<feed, inbox>>
        BY <3>4 DEF Begin, Fetch, Analyze, ListClients, StageDone, SendMail,
           Alert, NoAlert, GenericOff, GenericFetch, GenericSend
      <4>2. QED
        BY <4>1
    <3>5. QED
      BY <2>1, <3>1, <3>2, <3>3, <3>4 DEF Works
  <2>2. ASSUME NEW p \in Pipeline, Fails(p) PROVE UNCHANGED <<feed, told>>
    BY <2>2 DEF Fails, FetchFails, AnalyzeFails, EnrichFails, ListClientsFails,
       NotifyClientFails, SendMailFails, AlertFails, MarkNotifiedFails,
       GenericFetchFails, GenericSendFails, GenericMarkFails, Crash
  <2>3. CASE Environment
    BY <2>3 DEF Environment, Record, Reanalyze, PersistVerdict,
       PersistVerdictFails, MoveClient
  <2>4. QED
    BY <2>1, <2>2, <2>3 DEF Next
<1>2. QED
  BY <1>1, TypeCorrect, PTL DEF Spec, FlagsOnlyRise

-----------------------------------------------------------------------------
(* Announcements: what is marked has been said, and whom a dispatch lists  *)
(* it reaches, as long as nothing has failed.                              *)

\* One of the two alerts has announced the event, or a pipeline has found it
\* informational, or it was dispatched where there is no Telegram.
Said(e) == addressed[e] + generic[e] > 0 \/ e \in quiet \/ e \in unheard

\* What a pipeline has finished is said, and it marks only what is finished.
Settled(r) ==
    /\ \A e \in r.done \ r.batch : Said(e)
    /\ r.pc \in {"mark", "gmark"} => r.batch = {}
    /\ r.pc \in {"idle", "fetch"} => r.done = {}

\* Clients in a visited stage have been listed, unless they slipped into it;
\* who has been listed is still to come or has the event in the inbox.
Reaches(p) ==
    LET r == run[p]
    IN  /\ r.pc \notin {"client", "mail"} => r.todo = {}
        /\ r.pc \notin {"stage", "client", "mail"} => r.visited = {} /\ r.seen = {}
        /\ \A c \in Client :
             /\ stageOf[c] \in r.visited => c \in r.seen \/ <<p, r.ev, c>> \in slipped
             /\ c \in r.seen => c \in r.todo \/ <<c, r.ev>> \in inbox

TellInv ==
    faults = 0 => /\ \A e \in notified : Said(e)
                  /\ \A p \in Pipeline : Settled(run[p]) /\ Reaches(p)

\* The locals that the next event starts with, and those without an event.
LEMMA FreshLocals ==
    ASSUME NEW b \in SUBSET Event, NEW d \in SUBSET Event, NEW label \in PcLabel
    PROVE  LET r == [Idle EXCEPT !.batch = b, !.done = d, !.pc = label]
           IN  /\ r.batch = b /\ r.done = d /\ r.pc = label
               /\ r.visited = {} /\ r.seen = {} /\ r.todo = {}
BY DEF Idle

LEMMA IdleLocals ==
    ASSUME NEW label \in PcLabel
    PROVE  LET r == [Idle EXCEPT !.pc = label]
           IN  /\ r.batch = {} /\ r.done = {} /\ r.pc = label
               /\ r.visited = {} /\ r.seen = {} /\ r.todo = {}
BY DEF Idle

\* Locals without a client at hand reach everybody, for there are none.
LEMMA FreshTells ==
    ASSUME NEW q \in Pipeline, run'[q].todo = {},
           run'[q].visited = {}, run'[q].seen = {},
           \A e \in run'[q].done \ run'[q].batch : Said(e)',
           run'[q].pc \in {"mark", "gmark"} => run'[q].batch = {},
           run'[q].pc \in {"idle", "fetch"} => run'[q].done = {}
    PROVE  Settled(run[q])' /\ Reaches(q)'
BY DEF Reaches, Settled

\* The loop goes on with the next event, or ends.
LEMMA NextEventTells ==
    ASSUME NEW p \in Pipeline, run \in [Pipeline -> RunType],
           NEW left \in SUBSET Event, NEW done \in SUBSET Event,
           NextEvent(p, left, done),
           \A e \in done \ left : Said(e)'
    PROVE  Settled(run[p])' /\ Reaches(p)'
<1> DEFINE label == CASE left # {} -> "analyze"
                      [] left = {} /\ done # {} -> "mark"
                      [] OTHER -> "gfetch"
           locals == [Idle EXCEPT !.batch = left, !.done = done, !.pc = label]
<1>1. /\ label \in {"analyze", "mark", "gfetch"} /\ label \in PcLabel
      /\ label = "mark" => left = {}
  BY DEF PcLabel
<1>2. /\ locals.batch = left /\ locals.done = done /\ locals.pc = label
      /\ locals.visited = {} /\ locals.seen = {} /\ locals.todo = {}
  <2> HIDE DEF label
  <2> QED BY <1>1, FreshLocals
<1>3. run'[p] = locals
  BY DEF NextEvent
<1> HIDE DEF locals, label
<1> QED BY <1>1, <1>2, <1>3, FreshTells

\* A step without a failure counts none.
LEMMA WorksKeepFaults ==
    ASSUME NEW p \in Pipeline, Works(p)
    PROVE  UNCHANGED <<outside, faults>> /\ inbox \subseteq inbox'
<1>1. ASSUME NEW c \in Client, NotifyClient(p, c)
      PROVE  UNCHANGED <<outside, faults>> /\ inbox \subseteq inbox'
  BY <1>1 DEF NotifyClient
<1> QED BY <1>1 DEF Works, Begin, Fetch, Analyze, Enrich, ListClients, StageDone,
   SendMail, Alert, NoAlert, MarkNotified, GenericOff, GenericFetch, GenericSend,
   GenericMark, told

\* What has been said stays said, and the other pipelines lose nothing by a
\* step of one that calls without failing.
LEMMA OthersTell ==
    ASSUME TypeOK, EventAtHand, TellInv, faults = 0, NEW p \in Pipeline, Works(p)
    PROVE  /\ UNCHANGED <<outside, faults>>
           /\ inbox \subseteq inbox'
           /\ \A e \in Event : Said(e) => Said(e)'
           /\ \A q \in Pipeline \ {p} : Settled(run[q])' /\ Reaches(q)'
<1>1. UNCHANGED <<outside, faults>> /\ inbox \subseteq inbox'
  BY WorksKeepFaults
<1>2. /\ quiet \subseteq quiet' /\ unheard \subseteq unheard'
      /\ \A e \in Event : addressed[e] <= addressed'[e] /\ generic[e] <= generic'[e]
  <2> USE DEF TypeOK, told
  <2>1. CASE Enrich(p)
    BY <2>1 DEF Enrich
  <2>2. CASE Alert(p)
    BY <2>2 DEF Alert
  <2>3. CASE GenericSend(p)
    BY <2>3 DEF GenericSend
  <2>4. ASSUME NEW c \in Client, NotifyClient(p, c)
        PROVE UNCHANGED <<quiet, unheard, addressed, generic>>
    BY <2>4 DEF NotifyClient
  <2>8. CASE NoAlert(p)
    BY <2>8 DEF NoAlert
  <2>5. ASSUME \/ Begin(p) \/ Fetch(p) \/ Analyze(p) \/ ListClients(p)
               \/ StageDone(p) \/ SendMail(p) \/ MarkNotified(p)
               \/ GenericOff(p) \/ GenericFetch(p) \/ GenericMark(p)
        PROVE  UNCHANGED <<quiet, unheard, addressed, generic>>
    BY <2>5 DEF Begin, Fetch, Analyze, ListClients, StageDone, SendMail,
       MarkNotified, GenericOff, GenericFetch, GenericMark
  <2>6. UNCHANGED <<quiet, unheard, addressed, generic>> =>
          /\ quiet \subseteq quiet' /\ unheard \subseteq unheard'
          /\ \A e \in Event : /\ addressed[e] <= addressed'[e]
                              /\ generic[e] <= generic'[e]
    OBVIOUS
  <2>7. UNCHANGED <<quiet, unheard, addressed, generic>> \/ Enrich(p) \/ Alert(p)
           \/ GenericSend(p) \/ NoAlert(p)
    BY <2>4, <2>5 DEF Works
  <2> QED BY <2>1, <2>2, <2>3, <2>6, <2>7, <2>8
<1>3. ASSUME NEW e \in Event, Said(e) PROVE Said(e)'
  <2>1. /\ addressed[e] \in Nat /\ generic[e] \in Nat
        /\ addressed'[e] \in Nat /\ generic'[e] \in Nat
    BY TypeStep DEF TypeOK
  <2> QED BY <1>2, <1>3, <2>1 DEF Said
<1>4. ASSUME NEW q \in Pipeline \ {p}
      PROVE  Settled(run[q])' /\ Reaches(q)'
  <2>1. run'[q] = run[q] /\ run[q] \in RunType
    BY LocalsStep DEF TypeOK
  <2>2. Settled(run[q]) /\ Reaches(q)
    BY DEF TellInv
  <2>3. Settled(run[q])'
    BY <1>3, <2>1, <2>2 DEF Settled, RunType
  <2>4. Reaches(q)'
    BY <1>1, <2>1, <2>2 DEF Reaches, clients, outside
  <2> QED BY <2>3, <2>4
<1> QED BY <1>1, <1>3, <1>4

\* Each step of a pipeline keeps its own promises.
LEMMA OwnTells ==
    ASSUME TypeOK, EventAtHand, TellInv, faults = 0, NEW p \in Pipeline, Works(p)
    PROVE  Settled(run[p])' /\ Reaches(p)'
<1> DEFINE Goal == Settled(run[p])' /\ Reaches(p)'
           r == run[p]
<1>0. /\ run \in [Pipeline -> RunType]
      /\ run[p] \in RunType
      /\ recorded \in 0..MaxEvents
      /\ run[p].pc \in {"enrich", "stage", "client", "mail"}
            => run[p].ev \in Event
      /\ Settled(run[p]) /\ Reaches(p)
      /\ UNCHANGED <<outside, faults>>
      /\ inbox \subseteq inbox'
      /\ \A e \in Event : Said(e) => Said(e)'
      /\ run[p].batch \in SUBSET Event /\ run[p].done \in SUBSET Event
      /\ \A e \in run[p].done \ run[p].batch : Said(e)'
  <2>1. /\ run \in [Pipeline -> RunType]
        /\ run[p] \in RunType
        /\ recorded \in 0..MaxEvents
        /\ run[p].pc \in {"enrich", "stage", "client", "mail"}
              => run[p].ev \in Event
        /\ Settled(run[p]) /\ Reaches(p)
    BY DEF TypeOK, EventAtHand, TellInv
  <2>2. run[p].batch \in SUBSET Event /\ run[p].done \in SUBSET Event
    BY <2>1 DEF RunType
  <2> QED BY <2>1, <2>2, OthersTell DEF Settled
<1> USE <1>0 DEF At
<1>1. CASE Begin(p)
  BY <1>1 DEF Begin, RunType, Settled, Reaches, clients, outside
<1>2. CASE Fetch(p)
  <2>1. /\ run'[p].batch = Unanalyzed /\ run'[p].done = {}
        /\ run'[p].pc \in {"gfetch", "analyze"}
        /\ run'[p].visited = {} /\ run'[p].seen = {} /\ run'[p].todo = {}
    BY <1>2 DEF Fetch, RunType, Settled, Reaches
  <2> QED BY <2>1, FreshTells
<1>3. CASE Analyze(p)
  BY <1>3 DEF Analyze, RunType, Settled, Reaches, clients, outside
<1>4. CASE StageDone(p)
  BY <1>4 DEF StageDone, RunType, Settled, Reaches, clients, outside
<1>5. CASE SendMail(p)
  BY <1>5 DEF SendMail, MailSent, RunType, Settled, Reaches, clients, outside
<1>6. CASE Enrich(p)
  <2>1. CASE run[p].sev = "info"
    <3>1. PICK e \in Event : e = run[p].ev
      BY <1>6 DEF Enrich
    <3>2. /\ Said(e)'
          /\ NextEvent(p, run[p].batch \ {e}, run[p].done \cup {e})
      BY <1>6, <2>1, <3>1 DEF Enrich, Finished, Said
    <3> QED BY <3>1, <3>2, NextEventTells
  <2>2. CASE run[p].sev # "info"
    <3>1. run' = [run EXCEPT ![p].pc = "stage"]
      BY <1>6, <2>2 DEF Enrich
    <3> QED BY <1>6, <3>1 DEF Enrich, RunType, Settled, Reaches, clients, outside
  <2> QED BY <2>1, <2>2
<1>7. CASE Alert(p)
  <2>1. PICK e \in Event : e = run[p].ev
    BY <1>7 DEF Alert
  <2>2. NextEvent(p, run[p].batch \ {e}, run[p].done \cup {e})
    BY <1>7, <2>1 DEF Alert, Finished
  <2>3. Said(e)'
    <3>1. addressed'[e] = addressed[e] + 1 /\ generic'[e] = generic[e]
      BY <1>7, <2>1 DEF Alert, TypeOK
    <3>2. addressed[e] \in Nat /\ generic[e] \in Nat
      BY DEF TypeOK
    <3> QED BY <3>1, <3>2 DEF Said
  <2> QED BY <2>1, <2>2, <2>3, NextEventTells
<1>8. CASE ListClients(p)
  <2>1. PICK s \in Stage :
          LET listed == {c \in Client : stageOf[c] = s} \ run[p].seen
          IN  run' = [run EXCEPT ![p].visited = @ \cup {s},
                                 ![p].todo = listed,
                                 ![p].seen = @ \cup listed,
                                 ![p].pc = "client"]
    BY <1>8 DEF ListClients
  <2> DEFINE listed == {c \in Client : stageOf[c] = s} \ run[p].seen
  <2>2. /\ run'[p].visited = run[p].visited \cup {s}
        /\ run'[p].todo = listed
        /\ run'[p].seen = run[p].seen \cup listed
        /\ run'[p].pc = "client" /\ run'[p].ev = run[p].ev
        /\ run'[p].batch = run[p].batch /\ run'[p].done = run[p].done
    BY <2>1 DEF RunType
  <2>3. run[p].todo = {} /\ inbox' = inbox
    BY <1>8 DEF ListClients, Reaches, told
  <2>4. Settled(run[p])'
    BY <2>2 DEF Settled
  <2>5. Reaches(p)'
    BY <2>2, <2>3 DEF Reaches, clients, outside
  <2> QED BY <2>4, <2>5
<1>9. ASSUME NEW c \in Client, NotifyClient(p, c) PROVE Goal
  <2>1. /\ run'[p].visited = run[p].visited
        /\ run'[p].todo = run[p].todo \ {c}
        /\ run'[p].seen = run[p].seen
        /\ run'[p].pc \in {"client", "mail"} /\ run'[p].ev = run[p].ev
        /\ run'[p].batch = run[p].batch /\ run'[p].done = run[p].done
        /\ <<c, run[p].ev>> \in inbox'
    BY <1>9 DEF NotifyClient, GoesOn, RunType
  <2>2. Settled(run[p])'
    BY <2>1 DEF Settled
  <2>3. Reaches(p)'
    BY <2>1 DEF Reaches, clients, outside
  <2> QED BY <2>2, <2>3
<1>10. CASE MarkNotified(p)
  <2>1. "gfetch" \in PcLabel /\ run'[p] = [Idle EXCEPT !.pc = "gfetch"]
    BY <1>10 DEF MarkNotified, PcLabel
  <2> QED BY <2>1, IdleLocals, FreshTells
<1>11. CASE GenericFetch(p)
  <2>1. CASE Unnotified = {}
    <3>1. run'[p] = Idle
      BY <1>11, <2>1 DEF GenericFetch
    <3> QED BY <3>1, FreshTells DEF Idle
  <2>2. CASE Unnotified # {}
    <3>1. run'[p] = [Idle EXCEPT !.batch = Unnotified, !.done = Unnotified,
                                 !.pc = "gsend"]
      BY <1>11, <2>2 DEF GenericFetch
    <3>2. "gsend" \in PcLabel /\ Unnotified \in SUBSET Event
      BY QueriesReturnEvents DEF PcLabel
    <3>3. /\ run'[p].batch = Unnotified /\ run'[p].done = Unnotified
          /\ run'[p].pc = "gsend"
          /\ run'[p].visited = {} /\ run'[p].seen = {} /\ run'[p].todo = {}
      BY <3>1, <3>2, FreshLocals
    <3> QED BY <3>3, FreshTells
  <2> QED BY <2>1, <2>2
<1>12. CASE GenericSend(p)
  <2>1. PICK e \in Event : /\ generic' = [generic EXCEPT ![e] = @ + 1]
                           /\ GenericSent(p, e)
    BY <1>12 DEF GenericSend
  <2>2. Said(e)'
    BY <1>12, <2>1 DEF GenericSend, Said, TypeOK
  <2>3. /\ run'[p].batch = run[p].batch \ {e} /\ run'[p].done = run[p].done
        /\ run'[p].pc = IF run[p].batch = {e} THEN "gmark" ELSE "gsend"
        /\ run'[p].visited = run[p].visited /\ run'[p].seen = run[p].seen
        /\ run'[p].todo = run[p].todo
    BY <1>12, <2>1 DEF GenericSend, GenericSent, RunType
  <2>4. run[p].visited = {} /\ run[p].seen = {} /\ run[p].todo = {}
    BY <1>12 DEF GenericSend, Reaches
  <2> QED BY <2>2, <2>3, <2>4, FreshTells
<1>13. CASE GenericMark(p) \/ GenericOff(p)
  <2>1. run'[p] = Idle
    BY <1>13 DEF GenericMark, GenericOff
  <2> QED BY <2>1, FreshTells DEF Idle
<1>14. CASE NoAlert(p)
  <2>1. PICK e \in Event : e = run[p].ev
    BY <1>14 DEF NoAlert
  <2>2. NextEvent(p, run[p].batch \ {e}, run[p].done \cup {e})
    BY <1>14, <2>1 DEF NoAlert, Finished
  <2>3. Said(e)'
    BY <1>14, <2>1 DEF NoAlert, Said
  <2> QED BY <2>1, <2>2, <2>3, NextEventTells
<1> QED
  BY <1>1, <1>2, <1>3, <1>4, <1>5, <1>6, <1>7, <1>8, <1>9, <1>10, <1>11, <1>12,
     <1>13, <1>14 DEF Works

\* Only what is said is marked.
LEMMA MarksSaid ==
    ASSUME TypeOK, EventAtHand, TellInv, faults = 0, NEW p \in Pipeline, Works(p)
    PROVE  \A e \in notified' : Said(e)'
<1>1. /\ \A e \in notified : Said(e)' /\ e \in Event
      /\ Settled(run[p]) /\ run[p].done \subseteq Event
  BY OthersTell DEF TellInv, TypeOK, RunType
<1>2. CASE MarkNotified(p) \/ GenericMark(p)
  <2>1. notified' = notified \cup run[p].done /\ run[p].batch = {}
    BY <1>1, <1>2 DEF MarkNotified, GenericMark, Settled, At
  <2> QED BY <1>1, <2>1, OthersTell DEF Settled
<1>3. CASE ~(MarkNotified(p) \/ GenericMark(p))
  <2>1. ASSUME NEW c \in Client, NotifyClient(p, c) PROVE notified' = notified
    BY <2>1 DEF NotifyClient, feed
  <2>2. notified' = notified
    BY <1>3, <2>1 DEF Works, Begin, Fetch, Analyze, Enrich, ListClients, StageDone,
       SendMail, Alert, NoAlert, GenericOff, GenericFetch, GenericSend, feed
  <2> QED BY <1>1, <2>2
<1> QED BY <1>2, <1>3

LEMMA TellInvStep == MailInv /\ TellInv /\ [Next]_vars => TellInv'
<1> SUFFICES ASSUME MailInv, TellInv, [Next]_vars, faults' = 0 PROVE TellInv'
  BY DEF TellInv
<1> USE DEF MailInv
<1>1. faults \in Nat
  BY ChangeFeedAssumption DEF TypeOK
<1>2. ASSUME NEW p \in Pipeline, Works(p) PROVE TellInv'
  <2>1. faults = 0
    BY <1>2, WorksKeepFaults
  <2> QED BY <1>2, <2>1, OwnTells, MarksSaid, OthersTell DEF TellInv
<1>3. ASSUME NEW p \in Pipeline, Fails(p) PROVE FALSE
  <2>1. Fault
    BY <1>3 DEF Fails, FetchFails, AnalyzeFails, EnrichFails, ListClientsFails,
       NotifyClientFails, SendMailFails, AlertFails, MarkNotifiedFails,
       GenericFetchFails, GenericSendFails, GenericMarkFails, Crash
  <2> QED BY <1>1, <2>1 DEF Fault
<1>4. CASE Environment
  <2>1. /\ UNCHANGED <<run, inbox, addressed, unheard, generic, quiet>>
        /\ notified' = notified
    BY <1>4 DEF Environment, Record, Reanalyze, PersistVerdict,
       PersistVerdictFails, MoveClient, told, feed
  <2>2. UNCHANGED faults
    BY <1>1, <1>4 DEF Environment, Record, Reanalyze, PersistVerdict,
       PersistVerdictFails, MoveClient, Fault
  <2>3. UNCHANGED clients
           \/ \E c \in Client, s \in Stage : MoveClient(c, s)
    BY <1>4 DEF Environment, Record, Reanalyze, PersistVerdict,
       PersistVerdictFails, outside
  <2>4. ASSUME NEW p \in Pipeline PROVE Settled(run[p])' /\ Reaches(p)'
    <3>1. Settled(run[p]) /\ Reaches(p)
      BY <2>2 DEF TellInv
    <3>2. Settled(run[p])'
      BY <2>1, <3>1 DEF Settled, Said
    <3>3. CASE UNCHANGED clients
      BY <2>1, <3>1, <3>2, <3>3 DEF Reaches, clients
    <3>4. ASSUME NEW c \in Client, NEW s \in Stage, MoveClient(c, s)
          PROVE  Reaches(p)'
      <4>1. /\ stageOf' = [stageOf EXCEPT ![c] = s]
            /\ slipped \subseteq slipped'
            /\ run[p].ev # NoEvent /\ stageOf[c] \notin run[p].visited
                  /\ s \in run[p].visited => <<p, run[p].ev, c>> \in slipped'
        BY <3>4 DEF MoveClient
      <4>2. run[p].visited # {} => run[p].ev # NoEvent
        BY <3>1 DEF Reaches, EventAtHand, Event, NoEvent
      <4>3. \A d \in Client : stageOf'[d] \in run[p].visited =>
                d \in run[p].seen \/ <<p, run[p].ev, d>> \in slipped'
        BY <3>1, <4>1, <4>2 DEF Reaches, TypeOK
      <4> QED BY <2>1, <3>1, <4>3 DEF Reaches
    <3> QED BY <2>3, <3>2, <3>3, <3>4
  <2> QED BY <2>1, <2>2, <2>4 DEF TellInv, Said
<1>5. CASE UNCHANGED vars
  BY <1>5 DEF vars, feed, told, clients, outside, TellInv, Settled, Reaches, Said
<1> QED BY <1>2, <1>3, <1>4, <1>5 DEF Next

LEMMA TellInvInit == Init => TellInv
<1> SUFFICES ASSUME Init PROVE TellInv
  OBVIOUS
<1>1. \A p \in Pipeline : run[p] = Idle
  BY DEF Init
<1>2. /\ Idle.done = {} /\ Idle.todo = {} /\ Idle.visited = {} /\ Idle.seen = {}
      /\ Idle.batch = {}
  BY DEF Idle
<1> QED BY <1>1, <1>2 DEF TellInv, Settled, Reaches, Init

\* Without a failure nothing is marked as sent in silence (pipeline.go,
\* processRelevance and notifyChanges), for any number of pipelines that take
\* each other's events.
THEOREM NothingDroppedSilently == Spec => []NoSilentDrop
<1>1. TellInv => NoSilentDrop
  BY DEF TellInv, NoSilentDrop, Said
<1> QED BY <1>1, MailInvInit, MailInvStep, TellInvInit, TellInvStep, PTL DEF Spec

\* Without a failure every client who stays in an affected stage is reached
\* (dispatcher.Dispatch), whoever else is at work on the same event and
\* whoever moves meanwhile.
THEOREM EveryClientReached == Spec => []DispatchReachesClients
<1>1. TellInv => DispatchReachesClients
  BY DEF TellInv, Reaches, DispatchReachesClients, At
<1> QED BY <1>1, MailInvInit, MailInvStep, TellInvInit, TellInvStep, PTL DEF Spec
=============================================================================
