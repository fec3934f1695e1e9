------------------------------- MODULE Portal --------------------------------
(***************************************************************************)
(* The residents' portal: a link to log in is sent by mail and works once  *)
(* within LinkLife; it opens a session of SessionLife, kept in memory; the *)
(* pages are served to a live session.  Taking the link and making the     *)
(* session are two critical sections, and a cleanup runs beside them.      *)
(***************************************************************************)
EXTENDS Naturals, FiniteSets

CONSTANTS Clients,        \* numbered in the order of their registration
          Emails, EmailOf,\* contact address of each client; two may share one
          LinkLife, SessionLife,
          Links,          \* links that may be generated
          Sessions,       \* sessions that may be opened
          MaxTime

VARIABLES now,
          tokens,         \* links the store holds: link -> client and expiry
          mailbox,        \* links that reached their owner
          taken,          \* requests that have taken a link and not yet opened a session
          sessions,       \* session -> client and expiry
          overdue,        \* clients with an overdue deadline
          page,           \* the last page served: to which session, about which clients
          history         \* ghost: when each link was asked for, each session opened and by which link

portalVars == <<now, tokens, mailbox, taken, sessions, overdue, page, history>>

NoPage == [session |-> "none"]

Without(f, x) == [y \in DOMAIN f \ {x} |-> f[y]]
With(f, x, v) == [y \in DOMAIN f \cup {x} |-> IF y = x THEN v ELSE f[y]]

Init == /\ now = 0
        /\ tokens = <<>> /\ sessions = <<>>
        /\ mailbox = {} /\ taken = {} /\ overdue = {}
        /\ page = NoPage
        /\ history = [asked |-> <<>>, opened |-> <<>>]

Tick == /\ now < MaxTime
        /\ now' = now + 1
        /\ UNCHANGED <<tokens, mailbox, taken, sessions, overdue, page, history>>

(* lookupClientByEmail takes the first match of a list, youngest first. *)
Holders(e) == {c \in Clients : EmailOf[c] = e}
lookupClientByEmail(e) == CHOOSE c \in Holders(e) : \A d \in Holders(e) : d <= c

(* The link is stored before it is mailed; a failed mail leaves it there.  *)
LoginSubmit(e, link, mailed) ==
  /\ Holders(e) # {}
  /\ link \notin DOMAIN history.asked
  /\ tokens' = With(tokens, link, [client |-> lookupClientByEmail(e), expires |-> now + LinkLife])
  /\ mailbox' = IF mailed THEN mailbox \cup {link} ELSE mailbox
  /\ history' = [history EXCEPT !.asked = With(@, link, [at |-> now, email |-> e])]
  /\ UNCHANGED <<now, taken, sessions, overdue, page>>

\* Mutant: the link is read and left in the store.
VerifyMagicLinkAgain(link) ==
  /\ link \in mailbox \cap DOMAIN tokens
  /\ taken' = IF now > tokens[link].expires THEN taken
              ELSE taken \cup {[link |-> link, client |-> tokens[link].client]}
  /\ UNCHANGED <<now, tokens, mailbox, sessions, overdue, page, history>>

(* The link is taken out of the store whether it has expired or not. *)
VerifyMagicLink(link) ==
  /\ link \in mailbox \cap DOMAIN tokens
  /\ tokens' = Without(tokens, link)
  /\ taken' = IF now > tokens[link].expires THEN taken
              ELSE taken \cup {[link |-> link, client |-> tokens[link].client]}
  /\ UNCHANGED <<now, mailbox, sessions, overdue, page, history>>

CreateSession(t, s) ==
  /\ t \in taken
  /\ s \notin DOMAIN history.opened
  /\ taken' = taken \ {t}
  /\ sessions' = With(sessions, s, [client |-> t.client, expires |-> now + SessionLife])
  /\ history' = [history EXCEPT !.opened = With(@, s, [at |-> now, link |-> t.link])]
  /\ UNCHANGED <<now, tokens, mailbox, overdue, page>>

GetSession(s) == s \in DOMAIN sessions /\ now <= sessions[s].expires

DeleteSession(s) ==
  /\ GetSession(s)
  /\ sessions' = Without(sessions, s)
  /\ UNCHANGED <<now, tokens, mailbox, taken, overdue, page, history>>

Cleanup ==
  /\ tokens' = [l \in {k \in DOMAIN tokens : now <= tokens[k].expires} |-> tokens[l]]
  /\ sessions' = [s \in {k \in DOMAIN sessions : now <= sessions[k].expires} |-> sessions[s]]
  /\ UNCHANGED <<now, mailbox, taken, overdue, page, history>>

DeadlineMissed(c) ==
  /\ c \notin overdue
  /\ overdue' = overdue \cup {c}
  /\ UNCHANGED <<now, tokens, mailbox, taken, sessions, page, history>>

Serve(s, about) ==
  /\ GetSession(s)
  /\ page' = [session |-> s, client |-> sessions[s].client, at |-> now, about |-> about]
  /\ UNCHANGED <<now, tokens, mailbox, taken, sessions, overdue, history>>

(* What the stores hold for the client of the session. *)
ClientData(s) == {sessions[s].client}

(* Dashboard, checklists and documents; the calls that answer in JSON; the *)
(* inbox; the subscriptions.                                               *)
OwnPage(s)       == Serve(s, ClientData(s))
OwnCall(s)       == Serve(s, ClientData(s))
Notifications(s) == Serve(s, ClientData(s))
Subscriptions(s) == Serve(s, ClientData(s))

(* The page of deadlines adds the overdue ones, which the store lists for  *)
(* no client in particular. *)
DeadlinesPage(s) == Serve(s, ClientData(s) \cup overdue)

Next == \/ Tick
        \/ \E e \in Emails, l \in Links, mailed \in BOOLEAN : LoginSubmit(e, l, mailed)
        \/ \E l \in Links : VerifyMagicLink(l)
        \/ \E t \in taken, s \in Sessions : CreateSession(t, s)
        \/ \E s \in DOMAIN sessions : DeleteSession(s)
        \/ Cleanup
        \/ \E c \in Clients : DeadlineMissed(c)
        \/ \E s \in DOMAIN sessions :
             OwnPage(s) \/ OwnCall(s) \/ Notifications(s) \/ Subscriptions(s)
        \/ \E s \in DOMAIN sessions : DeadlinesPage(s)

Spec == Init /\ [][Next]_portalVars

------------------------------------------------------------------------------

TypeOK ==
  /\ now \in 0..MaxTime
  /\ DOMAIN tokens \subseteq Links /\ DOMAIN sessions \subseteq Sessions
  /\ \A l \in DOMAIN tokens : tokens[l] \in [client : Clients, expires : Nat]
  /\ \A s \in DOMAIN sessions : sessions[s] \in [client : Clients, expires : Nat]
  /\ mailbox \subseteq Links /\ overdue \subseteq Clients
  /\ taken \subseteq [link : Links, client : Clients]
  /\ DOMAIN history.asked \subseteq Links /\ DOMAIN history.opened \subseteq Sessions

(* A page is served to a client only in a session opened at most           *)
(* SessionLife before, by a link that was mailed to the address of that    *)
(* client, and no link opens two sessions, however requests and the        *)
(* cleanup interleave and whichever mails fail.                            *)
ServedByInvitation ==
  /\ page # NoPage =>
       LET o == history.opened[page.session]
       IN /\ page.at <= o.at + SessionLife
          /\ o.link \in mailbox
          /\ EmailOf[page.client] = history.asked[o.link].email
  /\ \A s, t \in DOMAIN history.opened :
       history.opened[s].link = history.opened[t].link => s = t

==============================================================================
