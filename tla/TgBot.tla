-------------------------------- MODULE TgBot --------------------------------
(***************************************************************************)
(* One Telegram bot across the starts and stops that the manager gives it. *)
(* Each start makes a loop of its own that asks Telegram for updates and   *)
(* one that handles them in order; a stopped one still has its last poll   *)
(* out and drains what it brought, possibly beside its successor.          *)
(***************************************************************************)
EXTENDS Naturals, Sequences, FiniteSets

CONSTANTS MaxUpdates,     \* bound: updates sent to the bot
          Kind,           \* kind of each update: "ask", "list" or "text"
          ChatOf,         \* its chat
          Starts          \* bound: starts of the bot

VARIABLES sent,           \* updates sent so far
          confirmed,      \* Telegram has forgotten the updates up to this one
          state,          \* of each start: "off", "run", "stop" or "closed"
          offset,         \* updates this start has seen
          channel,        \* updates fetched and not yet taken
          busy,           \* the update under way, 0 if none
          cooling,        \* chats that asked within the cooldown
          banner,         \* the cached file_id of the banner: "absent", "empty", "valid", "stale"
          replied         \* updates that got a reply

botVars == <<sent, confirmed, state, offset, channel, busy, cooling, banner, replied>>

Runs == 1..Starts
Updates == 1..MaxUpdates

Init == /\ sent = 0 /\ confirmed = 0
        /\ state = [i \in Runs |-> "off"]
        /\ offset = [i \in Runs |-> 0]
        /\ channel = [i \in Runs |-> <<>>]
        /\ busy = [i \in Runs |-> 0]
        /\ cooling = {} /\ banner = "absent" /\ replied = {}

Send == /\ sent < MaxUpdates
        /\ sent' = sent + 1
        /\ UNCHANGED <<confirmed, state, offset, channel, busy, cooling, banner, replied>>

(* The manager starts the bot anew only after it has cancelled the old one *)
(* and does not wait for it to end.                                        *)
StartBot(i) ==
  /\ state[i] = "off"
  /\ \A j \in 1..(i - 1) : state[j] \in {"stop", "closed"}
  /\ state' = [state EXCEPT ![i] = "run"]
  /\ UNCHANGED <<sent, confirmed, offset, channel, busy, cooling, banner, replied>>

StopBot(i) ==
  /\ state[i] = "run"
  /\ i < Starts                   \* the last start is not stopped
  /\ state' = [state EXCEPT ![i] = "stop"]
  /\ UNCHANGED <<sent, confirmed, offset, channel, busy, cooling, banner, replied>>

Larger(m, n) == IF m > n THEN m ELSE n

\* Mutant: the offset is put one update too far.
PollTooFar(i, last) ==
  LET known == Larger(confirmed, offset[i]) IN
  /\ state[i] = (IF last THEN "stop" ELSE "run")
  /\ known < sent
  /\ confirmed' = known
  /\ channel' = [channel EXCEPT ![i] = @ \o [k \in 1..(sent - known) |-> known + k]]
  /\ offset' = [offset EXCEPT ![i] = sent + 1]
  /\ state' = IF last THEN [state EXCEPT ![i] = "closed"] ELSE state
  /\ UNCHANGED <<sent, busy, cooling, banner, replied>>

(* GetUpdates confirms what this start has seen before and brings the rest *)
(* of what Telegram still holds.  A stopped start may get one answer more. *)
Poll(i, last) ==
  LET known == Larger(confirmed, offset[i]) IN
  /\ state[i] = (IF last THEN "stop" ELSE "run")
  /\ known < sent
  /\ confirmed' = Larger(confirmed, offset[i])
  /\ channel' = [channel EXCEPT ![i] = @ \o [k \in 1..(sent - known) |-> known + k]]
  /\ offset' = [offset EXCEPT ![i] = sent]
  /\ state' = IF last THEN [state EXCEPT ![i] = "closed"] ELSE state
  /\ UNCHANGED <<sent, busy, cooling, banner, replied>>

Close(i) ==
  /\ state[i] = "stop"
  /\ state' = [state EXCEPT ![i] = "closed"]
  /\ UNCHANGED <<sent, confirmed, offset, channel, busy, cooling, banner, replied>>

\* Mutant: the loop ends with its context and leaves the channel as it is.
TakeWhileRunning(i) == /\ state[i] = "run"
                       /\ busy[i] = 0 /\ channel[i] # <<>>
                       /\ busy' = [busy EXCEPT ![i] = Head(channel[i])]
                       /\ channel' = [channel EXCEPT ![i] = Tail(@)]
                       /\ UNCHANGED <<sent, confirmed, state, offset, cooling, banner, replied>>

(* The loop takes an update, whatever the state of the start: a closed     *)
(* channel is drained.  A question of a chat that asked within the         *)
(* cooldown is turned away at once.                                        *)
Take(i) ==
  /\ busy[i] = 0 /\ channel[i] # <<>>
  /\ LET u == Head(channel[i]) IN
       IF Kind[u] = "text" \/ (Kind[u] = "ask" /\ ChatOf[u] \in cooling)
         THEN replied' = replied \cup {u} /\ UNCHANGED <<busy, cooling>>
         ELSE /\ busy' = [busy EXCEPT ![i] = u]
              /\ cooling' = IF Kind[u] = "ask" THEN cooling \cup {ChatOf[u]} ELSE cooling
              /\ UNCHANGED replied
  /\ channel' = [channel EXCEPT ![i] = Tail(@)]
  /\ UNCHANGED <<sent, confirmed, state, offset, banner>>

CooldownEnds(c) ==
  /\ c \in cooling
  /\ cooling' = cooling \ {c}
  /\ UNCHANGED <<sent, confirmed, state, offset, channel, busy, banner, replied>>

Reply(i) ==
  /\ replied' = replied \cup {busy[i]}
  /\ busy' = [busy EXCEPT ![i] = 0]
  /\ UNCHANGED <<sent, confirmed, state, offset, channel, cooling>>

(* The consultant's answer or its error: either is a reply. *)
Answer(i) == /\ busy[i] # 0 /\ Kind[busy[i]] = "ask"
             /\ Reply(i)
             /\ UNCHANGED banner

(* A banner goes by its cached file_id, or else it is uploaded. *)
sendCommandBanner(uploaded) ==
  IF banner = "valid" \/ uploaded THEN "valid"
  ELSE IF banner = "stale" THEN "empty" ELSE banner

(* A list begins with its banner; the text follows even if that failed. *)
List(i, uploaded) ==
  /\ busy[i] # 0 /\ Kind[busy[i]] = "list"
  /\ banner' = sendCommandBanner(uploaded)
  /\ Reply(i)

(* The feed cannot be read: the reply says so, and there is no banner. *)
ListFails(i) == /\ busy[i] # 0 /\ Kind[busy[i]] = "list"
                /\ Reply(i)
                /\ UNCHANGED banner

(* Telegram forgets an uploaded file in the course of time. *)
BannerExpires == /\ banner = "valid"
                 /\ banner' = "stale"
                 /\ UNCHANGED <<sent, confirmed, state, offset, channel, busy, cooling, replied>>

Next == \/ Send
        \/ \E i \in Runs : StartBot(i)
        \/ \E i \in Runs : StopBot(i)
        \/ \E i \in Runs, last \in BOOLEAN : Poll(i, last)
        \/ \E i \in Runs : Close(i)
        \/ \E i \in Runs : Take(i)
        \/ \E u \in Updates : CooldownEnds(ChatOf[u])
        \/ \E i \in Runs : Answer(i)
        \/ \E i \in Runs, uploaded \in BOOLEAN : List(i, uploaded)
        \/ \E i \in Runs : ListFails(i)
        \/ BannerExpires

(* What the two loops of a start do of themselves. *)
Works(i) == Take(i) \/ Answer(i) \/ List(i, TRUE) \/ List(i, FALSE) \/ ListFails(i)

Spec == Init /\ [][Next]_botVars

TypeOK ==
  /\ sent \in 0..MaxUpdates /\ confirmed \in 0..MaxUpdates
  /\ state \in [Runs -> {"off", "run", "stop", "closed"}]
  /\ offset \in [Runs -> 0..MaxUpdates]
  /\ channel \in [Runs -> Seq(Updates)]
  /\ busy \in [Runs -> {0} \cup Updates]
  /\ cooling \subseteq {ChatOf[u] : u \in Updates}
  /\ banner \in {"absent", "empty", "valid", "stale"}
  /\ replied \subseteq Updates

==============================================================================
