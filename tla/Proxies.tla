------------------------------- MODULE Proxies -------------------------------
(***************************************************************************)
(* The proxies of the panel (admin/proxy_manager.go) and a headless run    *)
(* that downloads through them (fetcher.go, EnrichMissing).  The list, the *)
(* current id and the JSON file are kept under one mutex; a test of a      *)
(* proxy lets the mutex go for the time of the request and then writes to  *)
(* the index it had found.  A write of the file may fail unnoticed.  A     *)
(* request that panics under the mutex is recovered by net/http, the mutex *)
(* stays locked: only a restart helps.                                     *)
(*                                                                         *)
(* An address is a number: 0 is no proxy, n the URL of proxy n, and        *)
(* IdText(n) the id of proxy n given where a URL is expected.              *)
(***************************************************************************)
EXTENDS Integers, Sequences, SequencesExt

CONSTANTS Ids,          \* the proxies in the order of their creation
          OVPN,         \* those of them that are OpenVPN files
          Testers,      \* requests that test a proxy
          MaxFiles      \* the documents a headless run has to download

VARIABLES proxies,      \* the list in memory
          current,      \* CurrentID, 0 when there is none
          file,         \* the list on disk
          created,      \* the last id given
          locked,       \* the mutex was left locked
          test,         \* per tester: the id and the index under test
          fetch         \* the headless run

vars == <<proxies, current, file, created, locked, test, fetch>>

IdText(n) == -n

Idle   == [id |-> 0, index |-> 0]
NoRun  == [at |-> "idle", by |-> "panel", proxy |-> 0, chosen |-> 0, session |-> 0,
           open |-> FALSE, attempt |-> 0, left |-> 0]

IndexOf(list, id) == SelectInSeq(list, LAMBDA p : p.id = id)
Without(list, id) == RemoveAt(list, IndexOf(list, id))
Only(list, id)    == [i \in DOMAIN list |-> [list[i] EXCEPT !.active = list[i].id = id]]
Active(list)      == {i \in DOMAIN list : list[i].active}

(* A list without an active proxy gets its first one made active. *)
Saved(list) == IF Active(list) = {} /\ list # <<>> THEN [list EXCEPT ![1].active = TRUE] ELSE list

(* Nobody looks whether the file was written: beside the list there may be *)
(* what was on disk before, or a torso that is read as an empty list.      *)
OnDisk(list) == {list, file, <<>>}

(* The last active proxy of a list is the current one, if there is one.    *)
LastActive(list, none) ==
  LET on == Active(list)
  IN  IF on = {} THEN none ELSE list[CHOOSE i \in on : \A j \in on : j <= i].id

saveLocked(list) ==
  /\ proxies' = Saved(list)
  /\ file' \in OnDisk(Saved(list))
  /\ current' = LastActive(Saved(list), current)

(* The URL of the first active proxy that is not an OpenVPN file. *)
GetActiveURL(list) ==
  LET i == SelectInSeq(list, LAMBDA p : p.active /\ p.id \notin OVPN)
  IN  IF i = 0 THEN 0 ELSE list[i].id

(* The first proxy that works, or that is an OpenVPN file. *)
FirstWorking(list) == SelectInSeq(list, LAMBDA p : p.status = "ok" \/ p.id \in OVPN)

Init == /\ proxies = <<>> /\ file = <<>> /\ current = 0 /\ created = 0 /\ locked = FALSE
        /\ test = [t \in Testers |-> Idle]
        /\ fetch = NoRun

------------------------------------------------------------------------------
(* The operations of the manager *)

NewProxy(id, list) == [id |-> id, active |-> list = <<>>, status |-> "unknown"]

AddProxy ==
  /\ ~locked /\ created + 1 \in Ids
  /\ created' = created + 1
  /\ saveLocked(Append(proxies, NewProxy(created + 1, proxies)))
  /\ UNCHANGED <<locked, test, fetch>>

(* An unknown id switches every proxy off in memory and saves nothing. *)
ActivateProxy(id) ==
  /\ ~locked
  /\ \/ /\ IndexOf(proxies, id) # 0
        /\ saveLocked(Only(proxies, id))
     \/ /\ IndexOf(proxies, id) = 0
        /\ proxies' = Only(proxies, id)
        /\ UNCHANGED <<current, file>>
  /\ UNCHANGED <<created, locked, test, fetch>>

RemoveProxy(id) ==
  /\ ~locked /\ IndexOf(proxies, id) # 0
  /\ LET rest == Without(proxies, id)
     IN  IF current = id /\ rest = <<>>
         THEN proxies' = <<>> /\ file' \in OnDisk(<<>>) /\ current' = 0
         ELSE saveLocked(IF current = id THEN [rest EXCEPT ![1].active = TRUE] ELSE rest)
  /\ UNCHANGED <<created, locked, test, fetch>>

BeginTest(t, id) ==
  /\ ~locked /\ test[t] = Idle /\ IndexOf(proxies, id) # 0
  /\ test' = [test EXCEPT ![t] = [id |-> id, index |-> IndexOf(proxies, id)]]
  /\ UNCHANGED <<proxies, current, file, created, locked, fetch>>

(* The outcome goes to whatever is at the index by now; a missing OpenVPN  *)
(* file leaves err empty, so it counts as working.                         *)
EndTest(t, ok) ==
  LET i == test[t].index
  IN  /\ ~locked /\ test[t] # Idle
      /\ test' = [test EXCEPT ![t] = Idle]
      /\ IF i \in DOMAIN proxies
         THEN /\ saveLocked([proxies EXCEPT ![i].status =
                               IF ok \/ test[t].id \in OVPN THEN "ok" ELSE "error"])
              /\ UNCHANGED locked
         ELSE locked' = TRUE /\ UNCHANGED <<proxies, current, file>>
      /\ UNCHANGED <<created, fetch>>

(* The last request forgets to switch the other proxies off. *)
AutoSwitchKeepsOthers ==
  LET i == FirstWorking(proxies)
  IN  IF i = 0 THEN UNCHANGED <<proxies, current, file>>
      ELSE saveLocked([proxies EXCEPT ![i].active = TRUE])

(* What switching makes of the manager. *)
Switched ==
  LET i == FirstWorking(proxies)
  IN  IF i = 0 THEN UNCHANGED <<proxies, current, file>>
      ELSE saveLocked(Only(proxies, proxies[i].id))

AutoSwitch == /\ ~locked /\ Switched /\ UNCHANGED <<created, locked, test, fetch>>

(* The finder comes back with an address that passed its probe. *)
Finds(id) == id \in Ids /\ id \notin OVPN

(* The button that looks for a proxy adds what it finds and activates it. *)
FindRussianProxy ==
  /\ ~locked /\ Finds(created + 1)
  /\ created' = created + 1
  /\ saveLocked(Only(Append(proxies, NewProxy(created + 1, proxies)), created + 1))
  /\ UNCHANGED <<locked, test, fetch>>

(* The process starts again and reads its file; what cannot be opened is   *)
(* written anew as an empty list (load).                                   *)
Restart ==
  /\ \/ proxies' = file /\ current' = LastActive(file, 0) /\ UNCHANGED file
     \/ proxies' = <<>> /\ current' = 0 /\ file' \in OnDisk(<<>>)
  /\ locked' = FALSE
  /\ test' = [t \in Testers |-> Idle]
  /\ fetch' = NoRun
  /\ UNCHANGED created

------------------------------------------------------------------------------
(* A headless run *)

(* The fetcher takes the active proxy; the browser may fail to start. *)
StartFetch(by, opens) ==
  /\ ~locked /\ fetch.at = "idle"
  /\ fetch' = IF opens
              THEN [NoRun EXCEPT !.at = "file", !.by = by, !.proxy = GetActiveURL(proxies),
                                 !.chosen = GetActiveURL(proxies),
                                 !.session = GetActiveURL(proxies),
                                 !.open = TRUE, !.attempt = 1, !.left = MaxFiles]
              ELSE NoRun
  /\ UNCHANGED <<proxies, current, file, created, locked, test>>

NextFile(f) == IF f.left = 1 THEN NoRun ELSE [f EXCEPT !.left = @ - 1, !.attempt = 1]
Retry(f, n) == IF f.attempt >= n THEN NextFile(f) ELSE [f EXCEPT !.attempt = @ + 1]

(* The file is loaded with the cookies of the session, through the proxy   *)
(* of the fetcher.                                                          *)
FetchOne == /\ fetch.at = "file" /\ fetch.open
            /\ fetch' = NextFile(fetch)
            /\ UNCHANGED <<proxies, current, file, created, locked, test>>

NoLink == /\ fetch.at = "file" /\ fetch.open
          /\ fetch' = Retry(fetch, 2)
          /\ UNCHANGED <<proxies, current, file, created, locked, test>>

(* A passing failure, or a session that is closed: three attempts. *)
Hiccup == /\ fetch.at = "file"
          /\ fetch' = Retry(fetch, 3)
          /\ UNCHANGED <<proxies, current, file, created, locked, test>>

(* applyProxy, and a new session through that proxy.  When the browser     *)
(* does not start the closed session stays for the documents to come.      *)
Reopened(f, url, opens) ==
  LET g == [f EXCEPT !.proxy = url]
  IN  IF opens THEN Retry([g EXCEPT !.session = url, !.open = TRUE], 3)
      ELSE NextFile([g EXCEPT !.open = FALSE])

(* The panel's answer to a block is the active address after switching. *)
BlockedPanel(opens) ==
  /\ ~locked /\ fetch.at = "file" /\ fetch.open /\ fetch.by = "panel"
  /\ Switched
  /\ fetch' = Reopened(fetch, GetActiveURL(proxies'), opens)
  /\ UNCHANGED <<created, locked, test>>

(* The job's answer is what AutoSwitch returns, the id of the proxy. *)
BlockedJob(opens) ==
  LET i == FirstWorking(proxies)
      next == IdText(proxies[i].id)
  IN  /\ ~locked /\ fetch.at = "file" /\ fetch.open /\ fetch.by = "job" /\ i # 0
      /\ Switched
      /\ fetch' = Reopened([fetch EXCEPT !.chosen = next], next, opens)
      /\ UNCHANGED <<created, locked, test>>

(* With no proxy that works the job looks for a new one, adds it and       *)
(* activates it, or stays with the address it has.                         *)
FindsProxy(opens) ==
  LET id == created + 1
  IN  /\ ~locked /\ fetch.at = "file" /\ fetch.open /\ fetch.by = "job"
      /\ FirstWorking(proxies) = 0 /\ Finds(id)
      /\ saveLocked(Only(Append(proxies, NewProxy(id, proxies)), id))
      /\ created' = id
      /\ fetch' = Reopened([fetch EXCEPT !.chosen = id], id, opens)
      /\ UNCHANGED <<locked, test>>

FindsNone(opens) ==
  /\ ~locked /\ fetch.at = "file" /\ fetch.open /\ fetch.by = "job" /\ FirstWorking(proxies) = 0
  /\ fetch' = Reopened(fetch, fetch.chosen, opens)
  /\ UNCHANGED <<proxies, current, file, created, locked, test>>

Next ==
  \/ AddProxy \/ AutoSwitch \/ FindRussianProxy \/ Restart
  \/ FetchOne \/ NoLink \/ Hiccup
  \/ \E id \in Ids : ActivateProxy(id) \/ RemoveProxy(id)
  \/ \E t \in Testers : \/ \E id \in Ids : BeginTest(t, id)
                        \/ \E ok \in BOOLEAN : EndTest(t, ok)
  \/ \E opens \in BOOLEAN : \/ \E by \in {"panel", "job"} : StartFetch(by, opens)
                            \/ BlockedPanel(opens) \/ BlockedJob(opens)
                            \/ FindsProxy(opens) \/ FindsNone(opens)

Spec == Init /\ [][Next]_vars

------------------------------------------------------------------------------

ProxyRow == [id : Ids, active : BOOLEAN, status : {"unknown", "ok", "error"}]
Lists == Seq(ProxyRow)
Urls  == {IdText(n) : n \in Ids} \cup Ids \cup {0}
Runs  == [at : {"idle", "file"}, by : {"panel", "job"}, proxy : Urls, chosen : Urls, session : Urls,
          open : BOOLEAN, attempt : 0..3, left : 0..MaxFiles]

(* Type correctness. *)
TypeOK ==
  /\ proxies \in Lists /\ file \in Lists
  /\ current \in Ids \cup {0} /\ created \in Ids \cup {0} /\ locked \in BOOLEAN
  /\ test \in [Testers -> [id : Ids \cup {0}, index : Nat]]
  /\ fetch \in Runs

(* Whatever the order of requests, tests, restarts and failing writes, no  *)
(* proxy is active but the one CurrentID names, which is in the list (none *)
(* is active only after the activation of an unknown id); and a list that  *)
(* a restart brings back, be it an old one, has exactly one active proxy   *)
(* (saveLocked, load).                                                     *)
OneActive ==
  /\ proxies # <<>> => \E i \in DOMAIN proxies : proxies[i].id = current /\ Active(proxies) \subseteq {i}
  /\ proxies = <<>> => current = 0
  /\ file # <<>> => \E i \in DOMAIN file : Active(file) = {i}

(* A browser that is open goes through the proxy of the fetcher, which     *)
(* loads the files with that browser's cookies (fetchWithRetry).           *)
SessionFollowsProxy == fetch.open => fetch.session = fetch.proxy

==============================================================================
