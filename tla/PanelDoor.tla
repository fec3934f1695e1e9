------------------------------ MODULE PanelDoor -------------------------------
(***************************************************************************)
(* The doors of the administrator: the panel, whose pages are served in a  *)
(* session opened by the password and kept in memory, and the residency    *)
(* pages on a port of their own, which ask for the password every time.    *)
(* A request is admitted first and handled later.  Without credentials the *)
(* panel ends the process as soon as it is to listen.                      *)
(***************************************************************************)
EXTENDS Naturals

CONSTANTS Browsers,
          Life,             \* of a session and of its cookie
          Sessions,         \* ids that may be drawn, each once: 1..n
          MaxTime, MaxRestarts

VARIABLES now,
          guarded,          \* ADMIN_USER and ADMIN_PASSWORD are set
          proc,             \* "down", "residency" (only that port), "up"
          held,             \* adminAuthStore.sessions: session -> expiry
          cookie,           \* of each browser; 0: none
          tab,              \* of each browser: what it waits for or shows
          ghost             \* sessions drawn, when; ended; restarts

panelVars == <<now, guarded, proc, held, cookie, tab, ghost>>

Pages == {"/", "page"}
Blank == [at |-> "blank"]

Keep(f, S) == [x \in DOMAIN f \cap S |-> f[x]]
Put(f, x, v) == [y \in DOMAIN f \cup {x} |-> IF y = x THEN v ELSE f[y]]
Show(b, t) == tab' = [tab EXCEPT ![b] = t]

Init == /\ now = 0 /\ proc = "down"
        /\ guarded \in BOOLEAN
        /\ held = <<>>
        /\ cookie = [b \in Browsers |-> 0]
        /\ tab = [b \in Browsers |-> Blank]
        /\ ghost = [opened |-> <<>>, ended |-> {}, restarts |-> 0]

(* The browser drops a cookie that has expired. *)
Tick == /\ now < MaxTime
        /\ now' = now + 1
        /\ cookie' = [b \in Browsers |->
                        IF cookie[b] # 0 /\ ghost.opened[cookie[b]].at + Life < now + 1 THEN 0
                        ELSE cookie[b]]
        /\ UNCHANGED <<guarded, proc, held, tab, ghost>>

(* The residency port opens first. *)
OpenResidency == /\ proc = "down"
                 /\ proc' = "residency"
                 /\ UNCHANGED <<now, guarded, held, cookie, tab, ghost>>

(* log.Fatal: the process dies with every door. *)
Lost == [b \in Browsers |-> IF tab[b].at \in {"admitted", "residency"} THEN Blank ELSE tab[b]]

ListenAndServe == /\ proc = "residency"
                  /\ IF guarded THEN proc' = "up" /\ UNCHANGED <<tab, ghost>>
                     ELSE /\ ghost.restarts < MaxRestarts
                          /\ proc' = "down" /\ tab' = Lost
                          /\ ghost' = [ghost EXCEPT !.restarts = @ + 1]
                  /\ UNCHANGED <<now, guarded, held, cookie>>

(* The sessions live in the memory of the process. *)
Restart == /\ proc # "down" /\ ghost.restarts < MaxRestarts
           /\ proc' = "down"
           /\ held' = <<>>
           /\ tab' = Lost
           /\ ghost' = [ghost EXCEPT !.restarts = @ + 1, !.ended = @ \cup DOMAIN held]
           /\ UNCHANGED <<now, guarded, cookie>>

GetSession(s) == s \in DOMAIN held /\ now <= held[s]

LoginForm == [at |-> "login"]
Admitted(s, p) == [at |-> "admitted", in |-> s, page |-> p, when |-> now]

(* No cookie, an unknown or an expired session: the browser is sent to the *)
(* login page (an API call gets 401 and comes to the same).                *)
requireAuth(b, p) == IF GetSession(cookie[b]) THEN Admitted(cookie[b], p) ELSE LoginForm

Waiting(b) == tab[b].at \in {"blank", "login", "shown"}

Ask(b, p) == /\ proc = "up" /\ Waiting(b)
             /\ Show(b, requireAuth(b, p))
             /\ UNCHANGED <<now, guarded, proc, held, cookie, ghost>>

(* Who is logged in is sent to the first page. *)
handleLoginPage(b) == Ask(b, "/")

Authenticate(right) == guarded /\ right

(* The form of the page drops the page that was asked for, so the first    *)
(* page is what the browser is sent to.                                    *)
Submit(b, right) ==
  /\ proc = "up" /\ tab[b].at = "login"
  /\ IF ~Authenticate(right) THEN Show(b, LoginForm) /\ UNCHANGED <<held, cookie, ghost>>
     ELSE /\ Sessions # DOMAIN ghost.opened
          /\ LET s == CHOOSE n \in Sessions \ DOMAIN ghost.opened :
                        \A m \in Sessions \ DOMAIN ghost.opened : n <= m
             IN /\ held' = Put(held, s, now + Life)
                /\ cookie' = [cookie EXCEPT ![b] = s]
                /\ ghost' = [ghost EXCEPT !.opened = Put(@, s, [at |-> now, by |-> b])]
                /\ Show(b, Admitted(s, "/"))
  /\ UNCHANGED <<now, guarded, proc>>

\* Mutant: the browser forgets the session, the panel does not.
LogoutOfBrowser(b) ==
  /\ proc = "up" /\ Waiting(b)
  /\ ghost' = [ghost EXCEPT !.ended = @ \cup ({cookie[b]} \cap DOMAIN held)]
  /\ cookie' = [cookie EXCEPT ![b] = 0]
  /\ Show(b, LoginForm)
  /\ UNCHANGED <<now, guarded, proc, held>>

Logout(b) == /\ proc = "up" /\ Waiting(b)
             /\ held' = Keep(held, DOMAIN held \ {cookie[b]})
             /\ ghost' = [ghost EXCEPT !.ended = @ \cup ({cookie[b]} \cap DOMAIN held)]
             /\ cookie' = [cookie EXCEPT ![b] = 0]
             /\ Show(b, LoginForm)
             /\ UNCHANGED <<now, guarded, proc>>

(* Another window of the browser is sent to log in meanwhile. *)
Window(b) == /\ proc = "up" /\ tab[b].at = "shown"
             /\ Show(b, LoginForm)
             /\ UNCHANGED <<now, guarded, proc, held, cookie, ghost>>

Handle(b) == /\ tab[b].at = "admitted"
             /\ Show(b, [at |-> "shown", in |-> tab[b].in, page |-> tab[b].page,
                         when |-> tab[b].when])
             /\ UNCHANGED <<now, guarded, proc, held, cookie, ghost>>

(* The residency pages, and the consultant's: the password comes with each *)
(* request, and nothing is asked where none is set.                        *)
BasicAuth(right) == guarded => right

AskResidency(b, right) ==
  /\ proc \in {"residency", "up"} /\ Waiting(b)
  /\ Show(b, IF BasicAuth(right) THEN [at |-> "residency", right |-> right] ELSE Blank)
  /\ UNCHANGED <<now, guarded, proc, held, cookie, ghost>>

HandleResidency(b) == /\ tab[b].at = "residency"
                      /\ Show(b, Blank)
                      /\ UNCHANGED <<now, guarded, proc, held, cookie, ghost>>

Next == \/ Tick \/ OpenResidency \/ ListenAndServe \/ Restart
        \/ \E b \in Browsers :
             \/ \E p \in Pages : Ask(b, p)
             \/ handleLoginPage(b)
             \/ \E right \in BOOLEAN : Submit(b, right)
             \/ Logout(b) \/ Window(b) \/ Handle(b)
             \/ \E right \in BOOLEAN : AskResidency(b, right)
             \/ HandleResidency(b)

Spec == Init /\ [][Next]_panelVars

------------------------------------------------------------------------------

TypeOK == /\ now \in 0..MaxTime /\ guarded \in BOOLEAN
          /\ proc \in {"down", "residency", "up"}
          /\ DOMAIN held \subseteq DOMAIN ghost.opened
          /\ \A s \in DOMAIN held : held[s] \in Nat
          /\ cookie \in [Browsers -> {0} \cup Sessions]
          /\ ghost.restarts \in 0..MaxRestarts

Served(b) == tab[b].at \in {"admitted", "shown"}

(* A page of the panel reaches a browser only in a session which that      *)
(* browser opened with the password at most a life before the page was     *)
(* asked for; no session that ended, by a logout or with the process, is   *)
(* ever among the live ones again; and a residency page is handled without *)
(* the password only where none is set.                                    *)
ServedToTheAdmin ==
  /\ \A b \in Browsers :
       /\ Served(b) => /\ tab[b].in \in DOMAIN ghost.opened
                       /\ ghost.opened[tab[b].in].by = b
                       /\ tab[b].when <= ghost.opened[tab[b].in].at + Life
       /\ tab[b].at = "residency" => (tab[b].right \/ ~guarded)
  /\ DOMAIN held \cap ghost.ended = {}

(* A browser that logged in is not asked to log in again while its session *)
(* lasts: its cookie is that of a live session until the life is over, the *)
(* browser logs out or the process ends.                                   *)
LoginLasts == \A b \in Browsers :
                cookie[b] # 0 /\ cookie[b] \notin ghost.ended => GetSession(cookie[b])

==============================================================================
