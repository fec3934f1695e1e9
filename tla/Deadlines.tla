------------------------------- MODULE Deadlines -------------------------------
(***************************************************************************)
(* The deadlines of the residents and who is told of them.  Entering the   *)
(* stage of reporting sets a deadline; each day at its hour the service    *)
(* sends the consultant a summary of what is due, which is lost when the   *)
(* service is down at that hour or the message does not get through, and   *)
(* is not sent again; whose deadlines cannot be read is left out of it.    *)
(* The pages of the panel count the same days.  A deadline is a date: it   *)
(* falls at midnight.                                                      *)
(***************************************************************************)
EXTENDS Integers, FiniteSets

CONSTANTS Clients,
          DAY,           \* ticks of a day
          SummaryHour,   \* the tick of the day at which the summary goes out
          ReportingDays, \* days to the first report (90 in the code)
          Soon,          \* days in which a deadline is urgent (3 in the code)
          Horizon,       \* days the summary and the page look ahead (30 in the code)
          StuckWarning, StuckCritical,     \* days without a move (14 and 30)
          MaxDays        \* bound

VARIABLES now,
          deadlines,     \* the deadlines set, [client, at]
          updated,       \* when a client's row was last written
          up,            \* whether the service runs
          waiting,       \* whether its summary of this day is still to come
          warned,        \* deadlines named as urgent in a summary that arrived
          lostOn         \* <<client, day>>: no summary of the day told of the client

deadlineVars == <<deadlines, updated, up, waiting, warned, lostOn>>

Days == 0..MaxDays
Times == 0..(MaxDays * DAY)

TypeOK == /\ now \in Times
          /\ deadlines \subseteq [client : Clients, at : Nat]
          /\ updated \in [Clients -> Times]
          /\ up \in BOOLEAN /\ waiting \in BOOLEAN
          /\ warned \subseteq deadlines
          /\ lostOn \subseteq Clients \X Days

Init == /\ now = 0 /\ deadlines = {} /\ updated = [c \in Clients |-> 0]
        /\ up = TRUE /\ waiting = TRUE /\ warned = {} /\ lostOn = {}

------------------------------------------------------------------------------
(* Durations are cut towards zero: a deadline past by less than a day is    *)
(* zero days away.                                                          *)
WholeDays(ticks) == IF ticks >= 0 THEN ticks \div DAY ELSE -((-ticks) \div DAY)
daysLeft(d) == WholeDays(d.at - now)
StuckDays(c) == WholeDays(now - updated[c])
Today == now \div DAY

ListDeadlines(c, ahead) == {d \in deadlines : d.client = c /\ d.at <= now + ahead * DAY}
ListOverdueDeadlines == {d \in deadlines : d.at < now}

EnsureReportingDeadline(c) ==
  deadlines' = IF \E d \in deadlines : d.client = c THEN deadlines
               ELSE deadlines \cup {[client |-> c, at |-> (Today + ReportingDays) * DAY]}

(* A move to reporting, from wherever it is made; another move only writes  *)
(* the client's row.  Nothing closes a deadline.                            *)
EnterReporting(c) == /\ EnsureReportingDeadline(c)
                     /\ updated' = [updated EXCEPT ![c] = now]
                     /\ UNCHANGED <<now, up, waiting, warned, lostOn>>
UpdateClient(c) == /\ updated[c] # now
                   /\ updated' = [updated EXCEPT ![c] = now]
                   /\ UNCHANGED <<now, deadlines, up, waiting, warned, lostOn>>

------------------------------------------------------------------------------
(* The summary. *)

UrgentTooLate(c) == {d \in ListDeadlines(c, Horizon) : daysLeft(d) < Soon}
UrgentFor(c)   == {d \in ListDeadlines(c, Horizon) : daysLeft(d) <= Soon}
StuckClients   == {c \in Clients : StuckDays(c) >= StuckWarning}

AtTheHour == now % DAY = SummaryHour

(* The clients read before the summary is sent: none when ListClients fails,   *)
(* and a client whose ListDeadlines fails counts as one without a deadline.    *)
(* The summary goes out all the same.                                          *)
sendDailySummary(read, arrives) ==
  LET told == IF arrives THEN read ELSE {} IN
  /\ warned' = warned \cup UNION {UrgentFor(c) : c \in told}
  /\ lostOn' = lostOn \cup (Clients \ told) \X {Today}

runDailySummary(read, arrives) ==
  /\ up /\ waiting /\ AtTheHour
  /\ sendDailySummary(read, arrives)
  /\ waiting' = FALSE
  /\ UNCHANGED <<now, deadlines, updated, up>>

(* A service that starts at the hour or later waits for the next day.       *)
Start == /\ ~up /\ up' = TRUE
         /\ waiting' = (now % DAY < SummaryHour)
         /\ UNCHANGED <<now, deadlines, updated, warned, lostOn>>
(* A stop between the hour and the sending loses the summary. *)
Stop == /\ up /\ up' = FALSE /\ waiting' = FALSE
        /\ lostOn' = IF waiting /\ AtTheHour THEN lostOn \cup Clients \X {Today} ELSE lostOn
        /\ UNCHANGED <<now, deadlines, updated, warned>>

(* Time waits for the summary of a running service; a day on which none was  *)
(* sent is lost.                                                            *)
Tick == /\ now + 1 \in Times
        /\ ~(up /\ waiting /\ AtTheHour)
        /\ now' = now + 1
        /\ waiting' = IF now' % DAY = 0 THEN up ELSE waiting
        /\ UNCHANGED <<deadlines, updated, up, warned>>
        /\ LET missed == now % DAY < SummaryHour /\ now' % DAY = SummaryHour /\ ~(up /\ waiting)
           IN  lostOn' = IF missed THEN lostOn \cup Clients \X {Today} ELSE lostOn

Next == \/ Tick \/ Start \/ Stop
        \/ \E c \in Clients : EnterReporting(c) \/ UpdateClient(c)
        \/ \E read \in SUBSET Clients, arrives \in BOOLEAN : runDailySummary(read, arrives)

------------------------------------------------------------------------------
(* The pages. *)

Closest(S) == CHOOSE d \in S : \A e \in S : d.at <= e.at

(* The dashboard of the consultant, and its order of urgency. *)
buildDashboardRow(c) ==
  LET near == ListDeadlines(c, ReportingDays) IN
  [next |-> IF near = {} THEN {} ELSE {Closest(near)}, stuck |-> StuckDays(c)]

calcUrgency(row) ==
  IF \E d \in row.next : daysLeft(d) < 0 THEN "overdue"
  ELSE IF \E d \in row.next : daysLeft(d) <= Soon THEN "critical"
  ELSE IF \E d \in row.next : daysLeft(d) <= 2 * Soon + 1 THEN "warning"
  ELSE IF row.stuck >= StuckCritical THEN "critical"
  ELSE IF row.stuck >= StuckWarning THEN "warning"
  ELSE "ok"

Urgency(c) == calcUrgency(buildDashboardRow(c))

(* The page of deadlines of the panel shows those of everybody. *)
PageOverdue  == ListOverdueDeadlines
PageUpcoming == UNION {ListDeadlines(c, Horizon) : c \in Clients}
ClientCard(c) == ListDeadlines(c, ReportingDays)

------------------------------------------------------------------------------

(* A deadline passes unannounced only when the four summaries before its    *)
(* day were all lost, or sent without the deadlines of its client.          *)
WarnedInTime ==
  \A d \in deadlines \ warned :
    now >= d.at =>
      \A day \in Days : day * DAY + SummaryHour \in (d.at - (Soon + 1) * DAY)..(d.at - 1)
                         => <<d.client, day>> \in lostOn

(* The summary, the dashboard, the page and the client's card tell one       *)
(* story: who is urgent in the summary is urgent on the dashboard and on     *)
(* the card; overdue on the dashboard is overdue on the page, and the other  *)
(* way round a day later.                                                   *)
PagesAgree ==
  \A c \in Clients :
    LET urgent  == UrgentFor(c) # {}
        overdue == {d \in PageOverdue : d.client = c} IN
    /\ urgent => Urgency(c) \in {"overdue", "critical"} /\ UrgentFor(c) \subseteq ClientCard(c)
    /\ Urgency(c) = "overdue" => urgent /\ overdue # {}
    /\ Urgency(c) = "critical" => urgent \/ c \in StuckClients
    /\ overdue \subseteq PageUpcoming
    /\ (\E d \in overdue : now >= d.at + DAY) => Urgency(c) = "overdue"

==============================================================================
