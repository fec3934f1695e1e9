------------------------------ MODULE OfficeProofs -----------------------------
(***************************************************************************)
(* Proofs about the office (Office): the residents, the deadlines, the     *)
(* proxies, the bots, the tenants' rows and the assistants, each under the *)
(* named assumption of its setting; then what the runs of the office       *)
(* check, for whichever part runs.                                         *)
(***************************************************************************)
EXTENDS Office, DoorsProofs


------------------------------------------------------------------------------

(* The stages of the residents. *)

\* What may stand in the row of a client without contradicting its history.
Warranted(s) == [c \in Clients |-> Residency(s)!Reached(c) \cup {"application"}]

\* A request that goes to work on a client's stage has either still to
\* record the move, which was checked on its copy, or has recorded it; and the
\* copy it will write back names a stage that the client has been in.
CopiesWarranted(s) ==
  \A w \in s.workers :
    /\ work[w] # Residency(s)!Idle => work[w].copy.stage \in Warranted(s)[work[w].client]
    /\ work[w].pc = "write" => work[w].to \in Warranted(s)[work[w].client]
    /\ work[w].pc = "record" => <<work[w].copy.stage, work[w].to>> \in Residency(s)!Moves

StageInv(s) == Residency(s)!TypeOK /\ Residency(s)!StageRecorded /\ CopiesWarranted(s)

\* A request that is not idle works for a client, with a copy of a row; one
\* that changes a stage knows the stage it goes to.
LEMMA StageBusyType ==
  ASSUME NEW s, Residency(s)!TypeOK, NEW w \in s.workers
  PROVE  /\ work[w] = Residency(s)!Idle <=> work[w].pc = "idle"
         /\ work[w] # Residency(s)!Idle => /\ work[w].client \in Clients
                                           /\ work[w].copy \in Residency(s)!Rows
         /\ work[w].pc \in {"record", "write", "list", "create"} =>
              work[w] \in Residency(s)!StageWork
         /\ work[w].pc \in {"generate", "revoke"} => work[w] \in Residency(s)!KeyWork
  BY DEF Residency!TypeOK, Residency!StageWork, Residency!KeyWork, Residency!Idle

\* Appending to a history keeps what it has reached and adds the new stage.
LEMMA ReachedGrows ==
  ASSUME NEW s, Residency(s)!TypeOK, NEW c \in Clients, NEW m \in Residency(s)!Moves,
         history' = [history EXCEPT ![c] = Append(@, m)]
  PROVE  /\ history' \in [Clients -> Seq(Residency(s)!Moves)]
         /\ m[2] \in Warranted(s)'[c]
         /\ \A d \in Clients : /\ Residency(s)!Reached(d) \subseteq Residency(s)!Reached(d)'
                              /\ Warranted(s)[d] \subseteq Warranted(s)'[d]
<1>1. history[c] \in Seq(Residency(s)!Moves)
  BY DEF Residency!TypeOK
<1>2. Append(history[c], m) \in Seq(Residency(s)!Moves)
  BY <1>1
<1>3. history' \in [Clients -> Seq(Residency(s)!Moves)]
  BY <1>2 DEF Residency!TypeOK
<1>4. history'[c] = Append(history[c], m)
  BY DEF Residency!TypeOK
<1>5. /\ Len(history[c]) + 1 \in DOMAIN history'[c]
      /\ history'[c][Len(history[c]) + 1] = m
  BY <1>1, <1>4
<1>6. m[2] \in Residency(s)!Reached(c)'
  BY <1>5 DEF Residency!Reached
<1>7. ASSUME NEW d \in Clients, NEW g \in Residency(s)!Reached(d)
      PROVE  g \in Residency(s)!Reached(d)'
  <2>1. PICK i \in DOMAIN history[d] : g = history[d][i][2]
    BY DEF Residency!Reached
  <2>2. i \in DOMAIN history'[d] /\ history'[d][i] = history[d][i]
    <3>1. CASE d = c
      BY <3>1, <2>1, <1>1, <1>4
    <3>2. CASE d # c
      BY <3>2, <2>1 DEF Residency!TypeOK
    <3>3. QED
      BY <3>1, <3>2
  <2>3. QED
    BY <2>1, <2>2 DEF Residency!Reached
<1>8. QED
  BY <1>3, <1>6, <1>7 DEF Warranted

\* Where the histories stay, so do the warranted stages.
LEMMA SameHistory ==
  ASSUME NEW s, UNCHANGED history
  PROVE  Warranted(s)' = Warranted(s)
  BY DEF Warranted, Residency!Reached

\* A row that is written as a copy with a warranted stage is one that its
\* history leads to.
LEMMA RowWritten ==
  ASSUME NEW s, StageInv(s), UNCHANGED history, NEW c \in Clients, NEW r \in Residency(s)!Rows,
         r.stage \in Warranted(s)[c], row' = [row EXCEPT ![c] = r]
  PROVE  row' \in [Clients -> Residency(s)!Rows \cup {Residency(s)!NoRow}] /\ Residency(s)!StageRecorded'
<1>1. row' \in [Clients -> Residency(s)!Rows \cup {Residency(s)!NoRow}]
  BY DEF StageInv, Residency!TypeOK
<1>2. ASSUME NEW d \in Clients
      PROVE  row'[d].stage \in Residency(s)!Reached(d)' \cup {"application", "none"}
  BY SameHistory DEF StageInv, Residency!TypeOK, Residency!StageRecorded, Warranted, Residency!Reached
<1>3. QED
  BY <1>1, <1>2 DEF Residency!StageRecorded

\* What one request has read and does next changes; what is warranted grows.
LEMMA StageTurns ==
  ASSUME NEW s, StageInv(s), NEW w \in s.workers,
         NEW l \in {Residency(s)!Idle} \cup Residency(s)!StageWork \cup Residency(s)!KeyWork,
         work' = [work EXCEPT ![w] = l],
         l # Residency(s)!Idle => l.copy.stage \in Warranted(s)'[l.client],
         l.pc = "write" => l.to \in Warranted(s)'[l.client],
         l.pc = "record" => <<l.copy.stage, l.to>> \in Residency(s)!Moves,
         \A c \in Clients : Warranted(s)[c] \subseteq Warranted(s)'[c]
  PROVE  /\ work' \in [s.workers -> {Residency(s)!Idle} \cup Residency(s)!StageWork \cup Residency(s)!KeyWork]
         /\ CopiesWarranted(s)'
<1>1. work' \in [s.workers -> {Residency(s)!Idle} \cup Residency(s)!StageWork \cup Residency(s)!KeyWork]
  BY DEF StageInv, Residency!TypeOK
<1>2. ASSUME NEW v \in s.workers
      PROVE  /\ work'[v] # Residency(s)!Idle => work'[v].copy.stage \in Warranted(s)'[work'[v].client]
             /\ work'[v].pc = "write" => work'[v].to \in Warranted(s)'[work'[v].client]
             /\ work'[v].pc = "record" => <<work'[v].copy.stage, work'[v].to>> \in Residency(s)!Moves
  <2>1. CASE v = w
    BY <2>1 DEF StageInv, Residency!TypeOK
  <2>2. CASE v # w
    <3>1. work'[v] = work[v]
      BY <2>2 DEF StageInv, Residency!TypeOK
    <3>2. work[v] # Residency(s)!Idle => work[v].client \in Clients
      BY StageBusyType DEF StageInv
    <3>3. work[v].pc = "write" => work[v] # Residency(s)!Idle
      BY StageBusyType DEF StageInv
    <3>4. QED
      BY <3>1, <3>2, <3>3 DEF StageInv, CopiesWarranted
  <2>3. QED
    BY <2>1, <2>2
<1>3. QED
  BY <1>1, <1>2 DEF CopiesWarranted

\* The request ends.
LEMMA StageEnds ==
  ASSUME NEW s, StageInv(s), UNCHANGED history, NEW w \in s.workers, Residency(s)!Finish(w)
  PROVE  /\ work' \in [s.workers -> {Residency(s)!Idle} \cup Residency(s)!StageWork \cup Residency(s)!KeyWork]
         /\ CopiesWarranted(s)'
<1>1. Residency(s)!Idle.pc \notin {"write", "record"}
  BY DEF Residency!Idle
<1>2. QED
  BY <1>1, SameHistory, StageTurns DEF Residency!Finish

\* The request goes on with the same copy to another label than "write".
LEMMA StageGoesOn ==
  ASSUME NEW s, StageInv(s), UNCHANGED history, NEW w \in s.workers, work[w] \in Residency(s)!StageWork,
         NEW pc \in {"list", "create"}, Residency(s)!Become(w, pc)
  PROVE  /\ work' \in [s.workers -> {Residency(s)!Idle} \cup Residency(s)!StageWork \cup Residency(s)!KeyWork]
         /\ CopiesWarranted(s)'
<1> DEFINE l == [work[w] EXCEPT !.pc = pc]
<1>1. work' = [work EXCEPT ![w] = l]
  BY DEF Residency!Become
<1>2. /\ l \in Residency(s)!StageWork /\ l.pc \notin {"write", "record"}
      /\ l.copy = work[w].copy /\ l.client = work[w].client
  BY DEF Residency!StageWork
<1>3. work[w] # Residency(s)!Idle /\ work[w].client \in Clients
  BY DEF Residency!StageWork, Residency!Idle
<1>4. l.copy.stage \in Warranted(s)'[l.client]
  BY <1>2, <1>3, SameHistory DEF StageInv, CopiesWarranted
<1>5. \A c \in Clients : Warranted(s)[c] \subseteq Warranted(s)'[c]
  BY SameHistory
<1> HIDE DEF l
<1>6. QED
  BY <1>1, <1>2, <1>4, <1>5, StageTurns

\* The rows and the histories stay; only requests move.
LEMMA RowsStay ==
  ASSUME NEW s, StageInv(s), UNCHANGED <<row, history>>
  PROVE  Residency(s)!StageRecorded'
  BY DEF StageInv, Residency!StageRecorded, Residency!Reached

LEMMA InitStage == ASSUME NEW s PROVE Residency(s)!Init => StageInv(s)
<1> SUFFICES ASSUME Residency(s)!Init PROVE StageInv(s)
  OBVIOUS
<1>1. Residency(s)!TypeOK
  BY DEF Residency!Init, Residency!TypeOK, Residency!NoRow
<1>2. Residency(s)!StageRecorded
  BY DEF Residency!Init, Residency!StageRecorded, Residency!NoRow
<1>3. CopiesWarranted(s)
  BY DEF Residency!Init, CopiesWarranted, Residency!Idle
<1>4. QED
  BY <1>1, <1>2, <1>3 DEF StageInv

LEMMA CreateClientStage ==
  ASSUME NEW s, StageInv(s), NEW c \in Clients, Residency(s)!CreateClient(c)
  PROVE  StageInv(s)'
<1>1. Residency(s)!NewRow \in Residency(s)!Rows /\ Residency(s)!NewRow.stage \in Warranted(s)[c]
  BY DEF Residency!NewRow, Residency!Rows, Residency!Stages, Warranted
<1>2. row' \in [Clients -> Residency(s)!Rows \cup {Residency(s)!NoRow}] /\ Residency(s)!StageRecorded'
  BY <1>1, RowWritten DEF Residency!CreateClient
<1>3. CopiesWarranted(s)'
  BY SameHistory DEF Residency!CreateClient, StageInv, CopiesWarranted
<1>4. QED
  BY <1>2, <1>3 DEF Residency!CreateClient, StageInv, Residency!TypeOK

\* What a registered client's row holds is warranted.
LEMMA ReadIsWarranted ==
  ASSUME NEW s, StageInv(s), NEW c \in Clients, Residency(s)!Registered(c)
  PROVE  row[c] \in Residency(s)!Rows /\ row[c].stage \in Warranted(s)[c]
<1>1. row[c] \in Residency(s)!Rows
  BY DEF StageInv, Residency!TypeOK, Residency!Registered
<1>2. row[c].stage # "none"
  BY <1>1 DEF Residency!Rows, Residency!Stages
<1>3. QED
  BY <1>1, <1>2 DEF StageInv, Residency!StageRecorded, Warranted

LEMMA ReadForStageStage ==
  ASSUME NEW s, StageInv(s), NEW w \in s.workers, NEW c \in Clients, NEW to \in Residency(s)!Stages,
         Residency(s)!ReadForStage(w, c, to)
  PROVE  StageInv(s)'
<1> DEFINE l == [pc |-> "record", client |-> c, copy |-> row[c], to |-> to]
<1>1. row[c] \in Residency(s)!Rows /\ row[c].stage \in Warranted(s)[c]
  BY ReadIsWarranted DEF Residency!ReadForStage
<1>2. /\ l \in Residency(s)!StageWork /\ l.pc # "write" /\ l.copy = row[c] /\ l.client = c
      /\ l.to = to /\ <<row[c].stage, to>> \in Residency(s)!Moves
      /\ work' = [work EXCEPT ![w] = l]
  BY <1>1 DEF Residency!StageWork, Residency!ReadForStage, Residency!Moves, Residency!Rows
<1>3. Warranted(s)' = Warranted(s)
  BY SameHistory DEF Residency!ReadForStage
<1> HIDE DEF l
<1>4. /\ work' \in [s.workers -> {Residency(s)!Idle} \cup Residency(s)!StageWork \cup Residency(s)!KeyWork]
      /\ CopiesWarranted(s)'
  BY <1>1, <1>2, <1>3, StageTurns
<1>5. Residency(s)!StageRecorded'
  BY RowsStay DEF Residency!ReadForStage
<1>6. QED
  BY <1>4, <1>5 DEF Residency!ReadForStage, StageInv, Residency!TypeOK

LEMMA ReadForKeyStage ==
  ASSUME NEW s, StageInv(s), NEW w \in s.workers, NEW c \in Clients,
         NEW pc \in {"generate", "revoke"}, Residency(s)!ReadForKey(w, c, pc)
  PROVE  StageInv(s)'
<1> DEFINE l == [pc |-> pc, client |-> c, copy |-> row[c]]
<1>1. row[c] \in Residency(s)!Rows /\ row[c].stage \in Warranted(s)[c]
  BY ReadIsWarranted DEF Residency!ReadForKey
<1>2. /\ l \in Residency(s)!KeyWork /\ l.pc \notin {"write", "record"} /\ l.copy = row[c] /\ l.client = c
      /\ work' = [work EXCEPT ![w] = l]
  BY <1>1 DEF Residency!KeyWork, Residency!ReadForKey
<1>3. Warranted(s)' = Warranted(s)
  BY SameHistory DEF Residency!ReadForKey
<1> HIDE DEF l
<1>4. /\ work' \in [s.workers -> {Residency(s)!Idle} \cup Residency(s)!StageWork \cup Residency(s)!KeyWork]
      /\ CopiesWarranted(s)'
  BY <1>1, <1>2, <1>3, StageTurns
<1>5. Residency(s)!StageRecorded'
  BY RowsStay DEF Residency!ReadForKey
<1>6. QED
  BY <1>4, <1>5 DEF Residency!ReadForKey, StageInv, Residency!TypeOK

\* The move that is recorded was allowed for the copy; from then on the stage
\* it leads to is warranted.
LEMMA RecordTransitionStage ==
  ASSUME NEW s, StageInv(s), NEW w \in s.workers, Residency(s)!RecordTransition(w)
  PROVE  StageInv(s)'
<1> DEFINE l == [work[w] EXCEPT !.pc = "write"]
           c == work[w].client
           m == <<work[w].copy.stage, work[w].to>>
<1>1. work[w] \in Residency(s)!StageWork /\ work[w] # Residency(s)!Idle /\ c \in Clients
  BY StageBusyType DEF StageInv, Residency!RecordTransition, Residency!At, Residency!Idle
<1>2. m \in Residency(s)!Moves
  BY DEF StageInv, CopiesWarranted, Residency!RecordTransition, Residency!At
<1>3. history' = [history EXCEPT ![c] = Append(@, m)]
  BY DEF Residency!RecordTransition
<1>4. /\ l \in Residency(s)!StageWork /\ l.pc = "write" /\ l.copy = work[w].copy
      /\ l.client = c /\ l.to = m[2]
      /\ work' = [work EXCEPT ![w] = l]
  BY <1>1 DEF Residency!StageWork, Residency!RecordTransition, Residency!Become
<1>5. work[w].copy.stage \in Warranted(s)[c]
  BY <1>1 DEF StageInv, CopiesWarranted
<1> HIDE DEF l, c, m
<1>6. /\ history' \in [Clients -> Seq(Residency(s)!Moves)]
      /\ m[2] \in Warranted(s)'[c]
      /\ \A d \in Clients : /\ Residency(s)!Reached(d) \subseteq Residency(s)!Reached(d)'
                           /\ Warranted(s)[d] \subseteq Warranted(s)'[d]
  BY <1>1, <1>2, <1>3, ReachedGrows DEF StageInv
<1>7. /\ work' \in [s.workers -> {Residency(s)!Idle} \cup Residency(s)!StageWork \cup Residency(s)!KeyWork]
      /\ CopiesWarranted(s)'
  BY <1>1, <1>4, <1>5, <1>6, StageTurns
<1>8. Residency(s)!StageRecorded'
  BY <1>6 DEF StageInv, Residency!StageRecorded, Residency!RecordTransition
<1>9. QED
  BY <1>6, <1>7, <1>8 DEF Residency!RecordTransition, StageInv, Residency!TypeOK

\* The row is written with the stage that has been recorded.
LEMMA WriteStageStage ==
  ASSUME NEW s, StageInv(s), NEW w \in s.workers, Residency(s)!WriteStage(w)
  PROVE  StageInv(s)'
<1> DEFINE c == work[w].client
           r == [work[w].copy EXCEPT !.stage = work[w].to]
<1>1. /\ work[w] \in Residency(s)!StageWork /\ c \in Clients /\ work[w].copy \in Residency(s)!Rows
      /\ work[w].to \in Residency(s)!Stages
  BY StageBusyType DEF StageInv, Residency!WriteStage, Residency!At, Residency!Idle, Residency!StageWork
<1>2. work[w].to \in Warranted(s)[c]
  BY DEF StageInv, CopiesWarranted, Residency!WriteStage, Residency!At
<1>3. r \in Residency(s)!Rows /\ r.stage = work[w].to
  BY <1>1 DEF Residency!Rows
<1>4. row' = [row EXCEPT ![c] = r] /\ UNCHANGED history
  BY DEF Residency!WriteStage
<1> HIDE DEF r, c
<1>5. row' \in [Clients -> Residency(s)!Rows \cup {Residency(s)!NoRow}] /\ Residency(s)!StageRecorded'
  BY <1>1, <1>2, <1>3, <1>4, RowWritten
<1>6. /\ work' \in [s.workers -> {Residency(s)!Idle} \cup Residency(s)!StageWork \cup Residency(s)!KeyWork]
      /\ CopiesWarranted(s)'
  BY <1>1, StageEnds, StageGoesOn DEF Residency!WriteStage
<1>7. QED
  BY <1>5, <1>6 DEF Residency!WriteStage, StageInv, Residency!TypeOK

\* The two statements about the deadline touch no stage.
LEMMA DeadlineStage ==
  ASSUME NEW s, StageInv(s), NEW w \in s.workers, Residency(s)!ListDeadlines(w) \/ Residency(s)!CreateDeadline(w)
  PROVE  StageInv(s)'
<1>1. work[w] \in Residency(s)!StageWork /\ work[w].client \in Clients
  BY StageBusyType DEF StageInv, Residency!ListDeadlines, Residency!CreateDeadline, Residency!At, Residency!Idle
<1>2. /\ work' \in [s.workers -> {Residency(s)!Idle} \cup Residency(s)!StageWork \cup Residency(s)!KeyWork]
      /\ CopiesWarranted(s)'
  BY <1>1, StageEnds, StageGoesOn DEF Residency!ListDeadlines, Residency!CreateDeadline
<1>3. due' \in [Clients -> Nat]
  <2>1. due[work[w].client] + 1 \in Nat
    BY <1>1 DEF StageInv, Residency!TypeOK
  <2>2. QED
    BY <2>1 DEF StageInv, Residency!TypeOK, Residency!ListDeadlines, Residency!CreateDeadline
<1>4. UNCHANGED <<row, history, issued>>
  BY DEF Residency!ListDeadlines, Residency!CreateDeadline
<1>5. Residency(s)!StageRecorded'
  BY <1>4, RowsStay
<1>6. QED
  BY <1>2, <1>3, <1>4, <1>5 DEF StageInv, Residency!TypeOK

\* A key request writes back the stage it has read.
LEMMA KeyStage ==
  ASSUME NEW s, StageInv(s), NEW w \in s.workers, Residency(s)!GenerateKey(w) \/ Residency(s)!RevokeKey(w)
  PROVE  StageInv(s)'
<1> DEFINE c == work[w].client
<1>1. /\ work[w] \in Residency(s)!KeyWork /\ c \in Clients /\ work[w].copy \in Residency(s)!Rows
      /\ work[w].copy.stage \in Warranted(s)[c]
  BY StageBusyType DEF StageInv, CopiesWarranted, Residency!GenerateKey, Residency!RevokeKey, Residency!At, Residency!Idle
<1>2. issued' \in Nat
  BY DEF StageInv, Residency!TypeOK, Residency!GenerateKey, Residency!RevokeKey
<1>3. PICK n \in Nat : row' = [row EXCEPT ![c] = [work[w].copy EXCEPT !.key = n]]
  <2>1. CASE Residency(s)!GenerateKey(w)
    <3>1. /\ issued + 1 \in Nat
          /\ row' = [row EXCEPT ![c] = [work[w].copy EXCEPT !.key = issued + 1]]
      BY <2>1 DEF StageInv, Residency!TypeOK, Residency!GenerateKey
    <3>2. QED
      BY <3>1
  <2>2. CASE Residency(s)!RevokeKey(w)
    <3>1. row' = [row EXCEPT ![c] = [work[w].copy EXCEPT !.key = 0]]
      BY <2>2 DEF Residency!RevokeKey
    <3>2. QED
      BY <3>1
  <2>3. QED
    BY <2>1, <2>2
<1> DEFINE r == [work[w].copy EXCEPT !.key = n]
<1>4. r \in Residency(s)!Rows /\ r.stage = work[w].copy.stage
  BY <1>1 DEF Residency!Rows
<1>5. UNCHANGED history /\ Residency(s)!Finish(w)
  BY DEF Residency!GenerateKey, Residency!RevokeKey
<1> HIDE DEF r, c
<1>6. row' \in [Clients -> Residency(s)!Rows \cup {Residency(s)!NoRow}] /\ Residency(s)!StageRecorded'
  BY <1>1, <1>3, <1>4, <1>5, RowWritten DEF r
<1>7. /\ work' \in [s.workers -> {Residency(s)!Idle} \cup Residency(s)!StageWork \cup Residency(s)!KeyWork]
      /\ CopiesWarranted(s)'
  BY <1>5, StageEnds
<1>8. QED
  BY <1>2, <1>6, <1>7 DEF Residency!GenerateKey, Residency!RevokeKey, StageInv, Residency!TypeOK

\* A failing statement leaves the tables, and at most goes on to the next
\* statement about the deadline.
LEMMA StatementFailsStage ==
  ASSUME NEW s, StageInv(s), NEW w \in s.workers, Residency(s)!StatementFails(w)
  PROVE  StageInv(s)'
<1>1. Residency(s)!At(w, "list") => work[w] \in Residency(s)!StageWork
  BY StageBusyType DEF StageInv, Residency!At
<1>2. /\ work' \in [s.workers -> {Residency(s)!Idle} \cup Residency(s)!StageWork \cup Residency(s)!KeyWork]
      /\ CopiesWarranted(s)'
  BY <1>1, StageEnds, StageGoesOn DEF Residency!StatementFails
<1>3. Residency(s)!StageRecorded'
  BY RowsStay DEF Residency!StatementFails
<1>4. QED
  BY <1>2, <1>3 DEF Residency!StatementFails, StageInv, Residency!TypeOK

LEMMA InductiveStage == ASSUME NEW s PROVE StageInv(s) /\ [Residency(s)!Next]_(Residency(s)!residentVars) => StageInv(s)'
<1> SUFFICES ASSUME StageInv(s), [Residency(s)!Next]_(Residency(s)!residentVars) PROVE StageInv(s)'
  OBVIOUS
<1>1. CASE \E c \in Clients : Residency(s)!CreateClient(c)
  BY <1>1, CreateClientStage
<1>2. CASE \E w \in s.workers, c \in Clients, to \in Residency(s)!Stages : Residency(s)!ReadForStage(w, c, to)
  BY <1>2, ReadForStageStage
<1>3. CASE \E w \in s.workers : Residency(s)!RecordTransition(w)
  BY <1>3, RecordTransitionStage
<1>4. CASE \E w \in s.workers : Residency(s)!WriteStage(w)
  BY <1>4, WriteStageStage
<1>5. CASE \E w \in s.workers : Residency(s)!ListDeadlines(w) \/ Residency(s)!CreateDeadline(w)
  BY <1>5, DeadlineStage
<1>6. CASE \E w \in s.workers, c \in Clients, pc \in {"generate", "revoke"} :
             Residency(s)!ReadForKey(w, c, pc)
  BY <1>6, ReadForKeyStage
<1>7. CASE \E w \in s.workers : Residency(s)!GenerateKey(w) \/ Residency(s)!RevokeKey(w)
  BY <1>7, KeyStage
<1>8. CASE \E w \in s.workers : Residency(s)!StatementFails(w)
  BY <1>8, StatementFailsStage
<1>9. CASE UNCHANGED Residency(s)!residentVars
  <2>1. Residency(s)!TypeOK' /\ Residency(s)!StageRecorded'
    BY <1>9, RowsStay DEF Residency!residentVars, StageInv, Residency!TypeOK
  <2>2. CopiesWarranted(s)'
    BY <1>9, SameHistory DEF Residency!residentVars, StageInv, CopiesWarranted
  <2>3. QED
    BY <2>1, <2>2 DEF StageInv
<1>10. QED
  BY <1>1, <1>2, <1>3, <1>4, <1>5, <1>6, <1>7, <1>8, <1>9 DEF Residency!Next

\* Rows, histories, deadlines, keys and what each request has read keep their
\* types (Client, StageTransition of models.go); a history holds allowed moves.
THEOREM StagesTypeCorrect == ASSUME NEW s PROVE Residency(s)!Spec => []Residency(s)!TypeOK
<1>1. StageInv(s) => Residency(s)!TypeOK
  BY DEF StageInv
<1>2. QED
  BY InitStage, InductiveStage, <1>1, PTL DEF Residency!Spec

\* No client is ever in a stage its history does not lead to, however many
\* requests of the panel, the API, the tool and the key handlers overlap and
\* whichever statements fail: the transition is written before the row, and a
\* row restored from an old copy restores a stage recorded earlier.
THEOREM StagesRecorded == ASSUME NEW s PROVE Residency(s)!Spec => []Residency(s)!StageRecorded
<1>1. StageInv(s) => Residency(s)!StageRecorded
  BY DEF StageInv
<1>2. QED
  BY InitStage, InductiveStage, <1>1, PTL DEF Residency!Spec

------------------------------------------------------------------------------

(* The residents, one request at a time. *)

\* What a history h tells: that it is a path, where it ends, and how many
\* open deadlines a client with it should have.
IsPath(h)    == \A i \in DOMAIN h : h[i][1] = IF i = 1 THEN "application" ELSE h[i - 1][2]
LastStage(h) == IF h = <<>> THEN "application" ELSE h[Len(h)][2]
Owed(h)      == IF \E i \in DOMAIN h : h[i][2] = "reporting" THEN 1 ELSE 0

\* With the one request l under way, every history is a path; it leads to
\* the stage of the row unless the row is still to be written, and its
\* deadlines are in order unless the request has still to see to them.
PathsLead(s, l) ==
  \A c \in Clients :
    /\ IsPath(history[c])
    /\ ~ Residency(s)!Registered(c) =>
         history[c] = <<>> /\ due[c] = 0 /\ (l.pc # "idle" => l.client # c)
    /\ Residency(s)!Registered(c) =>
         /\ row[c].stage = LastStage(history[c]) \/ (l.pc = "write" /\ l.client = c)
         /\ \/ due[c] = Owed(history[c])
            \/ l.pc \in {"write", "list", "create"} /\ l.client = c /\ l.to = "reporting"

RequestTrue(s, l) ==
  /\ l.pc \in {"record", "generate", "revoke"} => l.copy = row[l.client]
  /\ l.pc = "record" => <<l.copy.stage, l.to>> \in Residency(s)!Moves
  /\ l.pc = "write" => l.to = LastStage(history[l.client])
  /\ l.pc \in {"list", "create"} => l.to = "reporting"
  /\ l.pc \in {"write", "list", "create"} /\ l.to = "reporting" =>
       Owed(history[l.client]) = 1 /\ due[l.client] \in {0, 1}
  /\ l.pc = "create" => due[l.client] = 0

SerialInv(s, w) == Residency(s)!TypeOK /\ PathsLead(s, work[w]) /\ RequestTrue(s, work[w])

\* A path goes on with a move from where it ends.
LEMMA PathGrows ==
  ASSUME NEW S, NEW h \in Seq(S), NEW m \in S, IsPath(h), m[1] = LastStage(h)
  PROVE  /\ IsPath(Append(h, m)) /\ LastStage(Append(h, m)) = m[2]
         /\ Owed(Append(h, m)) = IF m[2] = "reporting" THEN 1 ELSE Owed(h)
<1> DEFINE g == Append(h, m)
<1>1. /\ Len(h) \in Nat /\ DOMAIN h = 1..Len(h) /\ Len(g) = Len(h) + 1 /\ DOMAIN g = 1..(Len(h) + 1)
      /\ g[Len(h) + 1] = m /\ \A i \in 1..Len(h) : g[i] = h[i]
      /\ (h = <<>> <=> Len(h) = 0) /\ g # <<>>
  OBVIOUS
<1> HIDE DEF g
<1>2. IsPath(g)
  <2>1. ASSUME NEW i \in 1..(Len(h) + 1)
        PROVE  g[i][1] = IF i = 1 THEN "application" ELSE g[i - 1][2]
    <3>1. CASE i = Len(h) + 1
      BY <1>1, <3>1 DEF LastStage
    <3>2. CASE i # Len(h) + 1
      <4>1. i \in 1..Len(h) /\ (i # 1 => i - 1 \in 1..Len(h))
        BY <1>1, <3>2
      <4>2. QED
        BY <1>1, <4>1 DEF IsPath
    <3>3. QED
      BY <3>1, <3>2
  <2>2. QED
    BY <1>1, <2>1 DEF IsPath
<1>3. LastStage(g) = m[2]
  BY <1>1 DEF LastStage
<1>4. Owed(g) = IF m[2] = "reporting" THEN 1 ELSE Owed(h)
  <2>1. (\E i \in DOMAIN g : g[i][2] = "reporting") <=>
          m[2] = "reporting" \/ \E i \in DOMAIN h : h[i][2] = "reporting"
    <3>1. \A i \in 1..(Len(h) + 1) : i = Len(h) + 1 \/ i \in 1..Len(h)
      BY <1>1
    <3>2. Len(h) + 1 \in 1..(Len(h) + 1) /\ \A i \in 1..Len(h) : i \in 1..(Len(h) + 1)
      BY <1>1
    <3>3. QED
      BY <1>1, <3>1, <3>2
  <2>2. QED
    BY <2>1 DEF Owed
<1>5. QED
  BY <1>2, <1>3, <1>4 DEF g

\* A row is not the mark of a missing one.
LEMMA RowsRegistered ==
  ASSUME NEW s
  PROVE  \A r \in Residency(s)!Rows : r # Residency(s)!NoRow
  BY DEF Residency!Rows, Residency!NoRow, Residency!Stages

LEMMA InitSerial ==
  ASSUME NEW s, NEW w, s.workers = {w}, Residency(s)!Init
  PROVE  SerialInv(s, w)
<1>1. Residency(s)!TypeOK
  BY InitStage DEF StageInv
<1>2. work[w] = Residency(s)!Idle /\ work[w].pc = "idle"
  BY DEF Residency!Init, Residency!Idle
<1>3. \A c \in Clients : history[c] = <<>> /\ due[c] = 0 /\ ~ Residency(s)!Registered(c)
  BY DEF Residency!Init, Residency!Registered
<1>4. IsPath(<<>>)
  BY DEF IsPath
<1>5. QED
  BY <1>1, <1>2, <1>3, <1>4 DEF SerialInv, PathsLead, RequestTrue

LEMMA ReadSerial ==
  ASSUME NEW s, NEW w, s.workers = {w}, SerialInv(s, w), NEW l,
         work[w].pc = "idle", work' = [work EXCEPT ![w] = l], UNCHANGED <<row, history, due>>,
         Residency(s)!TypeOK', l.pc \in {"record", "generate", "revoke"},
         l.client \in Clients, Residency(s)!Registered(l.client), l.copy = row[l.client],
         l.pc = "record" => <<l.copy.stage, l.to>> \in Residency(s)!Moves
  PROVE  SerialInv(s, w)'
<1>1. work'[w] = l
  BY DEF SerialInv, Residency!TypeOK
<1>2. PathsLead(s, l)'
  BY DEF SerialInv, PathsLead, Residency!Registered
<1>3. RequestTrue(s, l)'
  BY DEF RequestTrue
<1>4. QED
  BY <1>1, <1>2, <1>3 DEF SerialInv, PathsLead, RequestTrue

LEMMA RecordSerial ==
  ASSUME NEW s, NEW w, s.workers = {w}, SerialInv(s, w), Residency(s)!RecordTransition(w),
         Residency(s)!TypeOK'
  PROVE  SerialInv(s, w)'
<1> DEFINE l == work[w]
           m == <<l.copy.stage, l.to>>
<1>1. /\ l.pc = "record" /\ l \in Residency(s)!StageWork /\ l.client \in Clients
      /\ work' = [work EXCEPT ![w].pc = "write"]
      /\ history' = [history EXCEPT ![l.client] = Append(@, m)]
      /\ row' = row /\ due' = due
  BY StageBusyType DEF SerialInv, Residency!RecordTransition, Residency!At, Residency!Become, Residency!StageWork
<1>2. /\ work'[w].pc = "write" /\ work'[w].client = l.client /\ work'[w].to = l.to
  BY <1>1 DEF SerialInv, Residency!TypeOK, Residency!StageWork
<1>3. Residency(s)!Registered(l.client) /\ l.copy = row[l.client] /\ m \in Residency(s)!Moves
      /\ row[l.client].stage = LastStage(history[l.client]) /\ due[l.client] = Owed(history[l.client])
      /\ IsPath(history[l.client])
  BY <1>1 DEF SerialInv, PathsLead, RequestTrue
<1>4. history[l.client] \in Seq(Residency(s)!Moves) /\ history'[l.client] = Append(history[l.client], m)
      /\ \A c \in Clients : c # l.client => history'[c] = history[c]
  BY <1>1 DEF SerialInv, Residency!TypeOK
<1>5. m[1] = LastStage(history[l.client]) /\ m[2] = l.to
  BY <1>3
<1> HIDE DEF m
<1>6. /\ IsPath(history'[l.client]) /\ LastStage(history'[l.client]) = l.to
      /\ Owed(history'[l.client]) = IF l.to = "reporting" THEN 1 ELSE Owed(history[l.client])
  BY <1>3, <1>4, <1>5, PathGrows
<1>7. due[l.client] \in {0, 1}
  BY <1>3 DEF Owed
<1> HIDE DEF l
<1>8. PathsLead(s, work[w])'
  <2>1. ASSUME NEW c \in Clients, c # l.client
        PROVE  /\ IsPath(history'[c])
               /\ ~ Residency(s)!Registered(c) => history'[c] = <<>> /\ due[c] = 0
               /\ Residency(s)!Registered(c) => /\ row[c].stage = LastStage(history'[c])
                                                /\ due[c] = Owed(history'[c])
    BY <1>1, <1>4, <2>1 DEF SerialInv, PathsLead, l
  <2>2. QED
    BY <1>1, <1>2, <1>3, <1>6, <2>1 DEF PathsLead, Residency!Registered
<1>9. RequestTrue(s, work[w])'
  BY <1>1, <1>2, <1>6, <1>7 DEF RequestTrue
<1>10. QED
  BY <1>8, <1>9 DEF SerialInv

\* The row of the client is written: it stays one, and the others as they are.
LEMMA WriteSerial ==
  ASSUME NEW s, NEW w, s.workers = {w}, SerialInv(s, w), NEW c \in Clients, NEW r \in Residency(s)!Rows,
         row' = [row EXCEPT ![c] = r], Residency(s)!Registered(c)
  PROVE  /\ row'[c] = r /\ \A d \in Clients : d # c => row'[d] = row[d]
         /\ \A d \in Clients : Residency(s)!Registered(d)' <=> Residency(s)!Registered(d)
<1>1. row'[c] = r /\ \A d \in Clients : d # c => row'[d] = row[d]
  BY DEF SerialInv, Residency!TypeOK
<1>2. QED
  BY <1>1, RowsRegistered DEF Residency!Registered

LEMMA StageWrittenSerial ==
  ASSUME NEW s, NEW w, s.workers = {w}, SerialInv(s, w), Residency(s)!WriteStage(w), Residency(s)!TypeOK'
  PROVE  SerialInv(s, w)'
<1> DEFINE l == work[w]
           r == [l.copy EXCEPT !.stage = l.to]
<1>1. /\ l.pc = "write" /\ l \in Residency(s)!StageWork /\ l.client \in Clients /\ l.to \in Residency(s)!Stages
      /\ r \in Residency(s)!Rows /\ r.stage = l.to
      /\ row' = [row EXCEPT ![l.client] = r] /\ history' = history /\ due' = due
      /\ Residency(s)!Registered(l.client)
  <2>1. l.pc = "write" /\ l \in Residency(s)!StageWork
    BY StageBusyType DEF SerialInv, Residency!WriteStage, Residency!At
  <2>2. l.client \in Clients /\ l.to \in Residency(s)!Stages /\ r \in Residency(s)!Rows /\ r.stage = l.to
    BY <2>1 DEF Residency!StageWork, Residency!Rows
  <2>3. Residency(s)!Registered(l.client)
    BY <2>1, <2>2 DEF SerialInv, PathsLead
  <2>4. QED
    BY <2>1, <2>2, <2>3 DEF Residency!WriteStage
<1>2. /\ row'[l.client].stage = l.to /\ \A d \in Clients : d # l.client => row'[d] = row[d]
      /\ \A d \in Clients : Residency(s)!Registered(d)' <=> Residency(s)!Registered(d)
  <2> HIDE DEF r, l
  <2>1. /\ row'[l.client] = r /\ \A d \in Clients : d # l.client => row'[d] = row[d]
        /\ \A d \in Clients : Residency(s)!Registered(d)' <=> Residency(s)!Registered(d)
    BY <1>1, WriteSerial
  <2>2. QED
    BY <1>1, <2>1
<1>3. l.to = LastStage(history[l.client])
  BY <1>1 DEF SerialInv, RequestTrue
<1>4. IF l.to = "reporting" THEN work' = [work EXCEPT ![w].pc = "list"] ELSE work' = [work EXCEPT ![w] = Residency(s)!Idle]
  BY DEF Residency!WriteStage, Residency!Become, Residency!Finish
<1>5. CASE l.to = "reporting"
  <2>1. work'[w].pc = "list" /\ work'[w].client = l.client /\ work'[w].to = "reporting"
    BY <1>1, <1>4, <1>5 DEF SerialInv, Residency!TypeOK, Residency!StageWork
  <2>2. PathsLead(s, work[w])'
    BY <1>1, <1>2, <1>3, <1>5, <2>1 DEF SerialInv, PathsLead
  <2>3. RequestTrue(s, work[w])'
    BY <1>1, <1>5, <2>1 DEF SerialInv, RequestTrue
  <2>4. QED
    BY <2>2, <2>3 DEF SerialInv
<1>6. CASE l.to # "reporting"
  <2>1. work'[w].pc = "idle"
    BY <1>1, <1>4, <1>6 DEF SerialInv, Residency!TypeOK, Residency!Idle
  <2>2. PathsLead(s, work[w])'
    BY <1>1, <1>2, <1>3, <1>6, <2>1 DEF SerialInv, PathsLead
  <2>3. RequestTrue(s, work[w])'
    BY <2>1 DEF RequestTrue
  <2>4. QED
    BY <2>2, <2>3 DEF SerialInv
<1>7. QED
  BY <1>5, <1>6

LEMMA DeadlineSerial ==
  ASSUME NEW s, NEW w, s.workers = {w}, SerialInv(s, w),
         Residency(s)!ListDeadlines(w) \/ Residency(s)!CreateDeadline(w), Residency(s)!TypeOK'
  PROVE  SerialInv(s, w)'
<1> DEFINE l == work[w]
<1>1. /\ l.pc \in {"list", "create"} /\ l \in Residency(s)!StageWork /\ l.client \in Clients
      /\ row' = row /\ history' = history /\ due[l.client] \in {0, 1} /\ Owed(history[l.client]) = 1
      /\ l.to = "reporting"
  <2>1. l.pc \in {"list", "create"} /\ l \in Residency(s)!StageWork
    BY StageBusyType DEF SerialInv, Residency!ListDeadlines, Residency!CreateDeadline, Residency!At
  <2>2. l.client \in Clients
    BY <2>1 DEF Residency!StageWork
  <2>3. QED
    BY <2>1, <2>2 DEF SerialInv, RequestTrue, Residency!ListDeadlines, Residency!CreateDeadline
<1>2. CASE Residency(s)!ListDeadlines(w) /\ due[l.client] > 0
  <2>1. work' = [work EXCEPT ![w] = Residency(s)!Idle] /\ due' = due /\ due[l.client] = 1
    BY <1>1, <1>2 DEF Residency!ListDeadlines, Residency!Finish
  <2>2. work'[w].pc = "idle"
    BY <2>1 DEF SerialInv, Residency!TypeOK, Residency!Idle
  <2>3. PathsLead(s, work[w])'
    BY <1>1, <2>1, <2>2 DEF SerialInv, PathsLead, Residency!Registered
  <2>4. RequestTrue(s, work[w])'
    BY <2>2 DEF RequestTrue
  <2>5. QED
    BY <2>3, <2>4 DEF SerialInv
<1>3. CASE Residency(s)!ListDeadlines(w) /\ ~ (due[l.client] > 0)
  <2>1. work' = [work EXCEPT ![w].pc = "create"] /\ due' = due /\ due[l.client] = 0
    BY <1>1, <1>3 DEF Residency!ListDeadlines, Residency!Become
  <2>2. work'[w].pc = "create" /\ work'[w].client = l.client /\ work'[w].to = "reporting"
    BY <1>1, <2>1 DEF SerialInv, Residency!TypeOK, Residency!StageWork
  <2>a. l.pc # "write"
    BY <1>1
  <2>3. PathsLead(s, work[w])'
    BY <1>1, <2>1, <2>2, <2>a DEF SerialInv, PathsLead, Residency!Registered
  <2>4. RequestTrue(s, work[w])'
    BY <1>1, <2>1, <2>2 DEF RequestTrue
  <2>5. QED
    BY <2>3, <2>4 DEF SerialInv
<1>4. CASE Residency(s)!CreateDeadline(w)
  <2>1. /\ work' = [work EXCEPT ![w] = Residency(s)!Idle] /\ l.pc = "create" /\ due[l.client] = 0
        /\ due' = [due EXCEPT ![l.client] = @ + 1]
    BY <1>4 DEF Residency!CreateDeadline, Residency!Finish, Residency!At, SerialInv, RequestTrue
  <2>2. work'[w].pc = "idle"
    BY <2>1 DEF SerialInv, Residency!TypeOK, Residency!Idle
  <2>3. due'[l.client] = 1 /\ \A c \in Clients : c # l.client => due'[c] = due[c]
    BY <1>1, <2>1 DEF SerialInv, Residency!TypeOK
  <2>a. Residency(s)!Registered(l.client)
    BY <1>1 DEF SerialInv, PathsLead
  <2>4. PathsLead(s, work[w])'
    BY <1>1, <2>1, <2>2, <2>3, <2>a DEF SerialInv, PathsLead, Residency!Registered
  <2>5. RequestTrue(s, work[w])'
    BY <2>2 DEF RequestTrue
  <2>6. QED
    BY <2>4, <2>5 DEF SerialInv
<1>5. QED
  BY <1>2, <1>3, <1>4

LEMMA KeySerial ==
  ASSUME NEW s, NEW w, s.workers = {w}, SerialInv(s, w),
         Residency(s)!GenerateKey(w) \/ Residency(s)!RevokeKey(w), Residency(s)!TypeOK'
  PROVE  SerialInv(s, w)'
<1> DEFINE l == work[w]
<1>1. l.pc \in {"generate", "revoke"} /\ l \in Residency(s)!KeyWork /\ l.client \in Clients
  <2>1. l.pc \in {"generate", "revoke"} /\ l \in Residency(s)!KeyWork
    BY StageBusyType DEF SerialInv, Residency!GenerateKey, Residency!RevokeKey, Residency!At
  <2>2. QED
    BY <2>1 DEF Residency!KeyWork
<1>2. Residency(s)!Registered(l.client) /\ l.copy = row[l.client]
  BY <1>1 DEF SerialInv, PathsLead, RequestTrue
<1>3. PICK k \in Nat : row' = [row EXCEPT ![l.client] = [l.copy EXCEPT !.key = k]]
  <2>1. issued + 1 \in Nat
    BY DEF SerialInv, Residency!TypeOK
  <2>2. QED
    BY <2>1 DEF Residency!GenerateKey, Residency!RevokeKey
<1>4. [l.copy EXCEPT !.key = k] \in Residency(s)!Rows /\ [l.copy EXCEPT !.key = k].stage = l.copy.stage
  BY <1>1 DEF Residency!KeyWork, Residency!Rows
<1>5. /\ row'[l.client].stage = row[l.client].stage
      /\ \A d \in Clients : d # l.client => row'[d] = row[d]
      /\ \A d \in Clients : Residency(s)!Registered(d)' <=> Residency(s)!Registered(d)
  <2> DEFINE r == [l.copy EXCEPT !.key = k]
  <2>1. r \in Residency(s)!Rows /\ r.stage = row[l.client].stage /\ row' = [row EXCEPT ![l.client] = r]
    BY <1>2, <1>3, <1>4
  <2> HIDE DEF r, l
  <2>2. /\ row'[l.client] = r /\ \A d \in Clients : d # l.client => row'[d] = row[d]
        /\ \A d \in Clients : Residency(s)!Registered(d)' <=> Residency(s)!Registered(d)
    BY <1>1, <1>2, <2>1, WriteSerial
  <2>3. QED
    BY <2>1, <2>2
<1>6. /\ work' = [work EXCEPT ![w] = Residency(s)!Idle] /\ history' = history /\ due' = due
  BY DEF Residency!GenerateKey, Residency!RevokeKey, Residency!Finish
<1>7. work'[w].pc = "idle"
  BY <1>6 DEF SerialInv, Residency!TypeOK, Residency!Idle
<1>8. PathsLead(s, work[w])'
  BY <1>1, <1>5, <1>6, <1>7 DEF SerialInv, PathsLead
<1>9. RequestTrue(s, work[w])'
  BY <1>7 DEF RequestTrue
<1>10. QED
  BY <1>8, <1>9 DEF SerialInv

LEMMA CreateSerial ==
  ASSUME NEW s, NEW w, s.workers = {w}, SerialInv(s, w), NEW c \in Clients, Residency(s)!CreateClient(c),
         Residency(s)!TypeOK'
  PROVE  SerialInv(s, w)'
<1>1. /\ ~ Residency(s)!Registered(c) /\ work' = work /\ history' = history /\ due' = due
      /\ row'[c] = Residency(s)!NewRow /\ \A d \in Clients : d # c => row'[d] = row[d]
  BY DEF SerialInv, Residency!CreateClient, Residency!TypeOK
<1>2. row'[c].stage = "application" /\ Residency(s)!Registered(c)'
  BY <1>1 DEF Residency!NewRow, Residency!NoRow, Residency!Registered
<1>3. history[c] = <<>> /\ due[c] = 0 /\ (work[w].pc # "idle" => work[w].client # c)
  BY <1>1 DEF SerialInv, PathsLead
<1>4. LastStage(<<>>) = "application" /\ Owed(<<>>) = 0
  BY DEF LastStage, Owed
<1>5. PathsLead(s, work[w])'
  <2>1. \A d \in Clients : d # c => (Residency(s)!Registered(d)' <=> Residency(s)!Registered(d))
    BY <1>1 DEF Residency!Registered
  <2>2. QED
    BY <1>1, <1>2, <1>3, <1>4, <2>1 DEF SerialInv, PathsLead
<1>6. RequestTrue(s, work[w])'
  <2>1. work[w].pc # "idle" => work[w].client \in Clients /\ work[w].client # c
    BY <1>3, StageBusyType DEF SerialInv
  <2>2. QED
    BY <1>1, <2>1 DEF SerialInv, RequestTrue
<1>7. QED
  BY <1>5, <1>6 DEF SerialInv

LEMMA InductiveSerial ==
  ASSUME NEW s, NEW w, s.workers = {w}, s.faults = FALSE, SerialInv(s, w), Residency(s)!TypeOK',
         [Residency(s)!Next]_(Residency(s)!residentVars)
  PROVE  SerialInv(s, w)'
<1>1. ASSUME NEW c \in Clients, Residency(s)!CreateClient(c) PROVE SerialInv(s, w)'
  BY <1>1, CreateSerial
<1>2. ASSUME NEW c \in Clients, NEW to \in Residency(s)!Stages, Residency(s)!ReadForStage(w, c, to)
      PROVE  SerialInv(s, w)'
  <2> DEFINE l == [pc |-> "record", client |-> c, copy |-> row[c], to |-> to]
  <2>1. /\ work[w].pc = "idle" /\ Residency(s)!Registered(c) /\ work' = [work EXCEPT ![w] = l]
        /\ Residency(s)!CanTransition(row[c].stage, to) /\ UNCHANGED <<row, history, due>>
    BY <1>2 DEF Residency!ReadForStage, Residency!At
  <2>2. row[c] \in Residency(s)!Rows
    BY <2>1 DEF SerialInv, Residency!TypeOK, Residency!Registered
  <2>3. <<row[c].stage, to>> \in Residency(s)!Moves
    BY <2>1, <2>2 DEF Residency!Moves, Residency!Rows
  <2>4. l.pc = "record" /\ l.client = c /\ l.copy = row[c] /\ l.to = to
    OBVIOUS
  <2> HIDE DEF l
  <2>5. QED
    BY <2>1, <2>3, <2>4, ReadSerial
<1>3. ASSUME NEW c \in Clients, NEW pc \in {"generate", "revoke"}, Residency(s)!ReadForKey(w, c, pc)
      PROVE  SerialInv(s, w)'
  <2> DEFINE l == [pc |-> pc, client |-> c, copy |-> row[c]]
  <2>1. /\ work[w].pc = "idle" /\ Residency(s)!Registered(c) /\ work' = [work EXCEPT ![w] = l]
        /\ UNCHANGED <<row, history, due>>
    BY <1>3 DEF Residency!ReadForKey, Residency!At
  <2>2. l.pc = pc /\ l.client = c /\ l.copy = row[c]
    OBVIOUS
  <2> HIDE DEF l
  <2>3. QED
    BY <2>1, <2>2, ReadSerial
<1>4. CASE Residency(s)!RecordTransition(w)
  BY <1>4, RecordSerial
<1>5. CASE Residency(s)!WriteStage(w)
  BY <1>5, StageWrittenSerial
<1>6. CASE Residency(s)!ListDeadlines(w) \/ Residency(s)!CreateDeadline(w)
  BY <1>6, DeadlineSerial
<1>7. CASE Residency(s)!GenerateKey(w) \/ Residency(s)!RevokeKey(w)
  BY <1>7, KeySerial
<1>8. CASE UNCHANGED Residency(s)!residentVars
  BY <1>8 DEF Residency!residentVars, SerialInv, PathsLead, RequestTrue, Residency!Registered
<1>9. ~ Residency(s)!StatementFails(w)
  BY DEF Residency!StatementFails
<1>10. QED
  BY <1>1, <1>2, <1>3, <1>4, <1>5, <1>6, <1>7, <1>8, <1>9 DEF Residency!Next

LEMMA SerialPromise ==
  ASSUME NEW s, NEW w, s.workers = {w}, SerialInv(s, w)
  PROVE  Residency(s)!HistoryLeadsToStage
<1>1. ASSUME NEW c \in Clients, Residency(s)!Registered(c), Residency(s)!Settled(c)
      PROVE  /\ IsPath(history[c]) /\ row[c].stage = LastStage(history[c])
             /\ due[c] = Owed(history[c])
  <2>1. work[w].pc = "idle" \/ work[w].client # c
    BY <1>1 DEF Residency!Settled, Residency!At
  <2>2. QED
    BY <1>1, <2>1 DEF SerialInv, PathsLead
<1>2. \A c \in Clients : Owed(history[c]) = IF "reporting" \in Residency(s)!Reached(c) THEN 1 ELSE 0
  BY DEF Owed, Residency!Reached
<1>3. QED
  BY <1>1, <1>2 DEF Residency!HistoryLeadsToStage, IsPath, LastStage

(* One request at a time and no failing statement: the history of a client *)
(* is a path from the application to the stage of its row, and one open    *)
(* deadline is kept for who has been in reporting, however often it comes  *)
(* back (transitionStage, EnsureReportingDeadline).                        *)
THEOREM HistoriesLeadToStages ==
  ASSUME NEW s, NEW w, s.workers = {w}, s.faults = FALSE
  PROVE  Residency(s)!Spec => []Residency(s)!HistoryLeadsToStage
<1>1. StageInv(s) => Residency(s)!TypeOK
  BY DEF StageInv
<1>2. QED
  BY <1>1, InitStage, InductiveStage, InitSerial, InductiveSerial, SerialPromise, PTL DEF Residency!Spec

------------------------------------------------------------------------------

(* The deadlines. *)

\* What the whole days between two moments tell of the time between them.
LEMMA WholeDaysTell ==
  ASSUME NEW x \in Int
  PROVE  /\ Terms!WholeDays(x) \in Int
         /\ Terms!WholeDays(x) < 0 <=> x <= -DAY
         /\ \A k \in Nat : Terms!WholeDays(x) <= k <=> x < (k + 1) * DAY
<1>1. DAY \in Nat \ {0}
  BY TermsAssumption
<1>2. CASE x >= 0
  <2>1. PICK q \in Int, r \in 0..(DAY - 1) : q = x \div DAY /\ x = DAY * q + r
    BY <1>1, Division
  <2>2. Terms!WholeDays(x) = q
    BY <1>2, <2>1 DEF Terms!WholeDays
  <2>3. q >= 0
    BY <1>1, <1>2, <2>1, MultiplesApart
  <2>4. ASSUME NEW k \in Nat
        PROVE  q <= k <=> x < (k + 1) * DAY
    <3>1. k \in Int /\ k + 1 \in Int /\ q + 1 \in Int /\ 0 \in Int
      BY <2>1
    <3>2. (k + 1) * DAY = k * DAY + DAY /\ k * DAY \in Int /\ q * DAY = DAY * q /\ q * DAY \in Int
      BY <1>1, <3>1, <2>1, MultiplesApart
    <3>3. q < k + 1 <=> q * DAY < (k + 1) * DAY
      BY <1>1, <2>1, <3>1, MultiplesApart
    <3>4. q < k + 1 => q * DAY + DAY <= (k + 1) * DAY
      BY <1>1, <2>1, <3>1, MultiplesApart
    <3>5. QED
      BY <1>1, <2>1, <3>1, <3>2, <3>3, <3>4
  <2>5. QED
    BY <1>1, <1>2, <2>1, <2>2, <2>3, <2>4
<1>3. CASE x < 0
  <2>1. -x \in Int /\ -x > 0
    BY <1>3
  <2>2. PICK q \in Int, r \in 0..(DAY - 1) : q = (-x) \div DAY /\ -x = DAY * q + r
    BY <1>1, <2>1, Division
  <2>3. Terms!WholeDays(x) = -q
    BY <1>3, <2>2 DEF Terms!WholeDays
  <2>4. q >= 0 /\ (q >= 1 <=> -x >= DAY)
    <3>1. q < 0 => q * DAY + DAY <= 0 * DAY
      BY <1>1, <2>2, MultiplesApart
    <3>2. 0 < q => 0 * DAY + DAY <= q * DAY
      BY <1>1, <2>2, MultiplesApart
    <3>3. q * DAY = DAY * q /\ q * DAY \in Int /\ 0 * DAY = 0
      BY <1>1, <2>2, MultiplesApart
    <3>4. q = 0 => q * DAY = 0
      BY <3>3
    <3>5. QED
      BY <1>1, <2>1, <2>2, <3>1, <3>2, <3>3, <3>4
  <2>5. \A k \in Nat : -q <= k /\ (k + 1) * DAY > 0
    <3>1. ASSUME NEW k \in Nat PROVE (k + 1) * DAY > 0
      BY <1>1
    <3>2. QED
      BY <2>2, <2>4, <3>1
  <2>6. QED
    BY <1>1, <1>3, <2>2, <2>3, <2>4, <2>5
<1>4. QED
  BY <1>2, <1>3

\* The moments at which a deadline is announced, if a summary goes out.
Window(d) == (d.at - (Soon + 1) * DAY)..(d.at - 1)

\* A summary of the past that could have named a deadline has, or its client
\* is among those it was lost on.
Announced ==
  \A d \in deadlines \ warned, on \in Terms!Days :
    LET t == on * DAY + SummaryHour IN
    t \in Window(d) /\ (t < now \/ (t = now /\ ~ (up /\ waiting))) => <<d.client, on>> \in lostOn

\* A deadline falls at midnight, and nobody has two.
AtMidnight == \A d \in deadlines : \E k \in Nat : d.at = k * DAY
OneEach    == \A d, e \in deadlines : d.client = e.client => d = e

TermInv == Terms!TypeOK /\ AtMidnight /\ OneEach /\ Announced

\* The day and the hour of a moment.
LEMMA DayAndHour ==
  ASSUME NEW t \in Nat
  PROVE  /\ t \div DAY \in Nat /\ t % DAY \in 0..(DAY - 1)
         /\ t = (t \div DAY) * DAY + (t % DAY) /\ (t \div DAY) * DAY \in Nat
         /\ \A k \in Nat, r \in 0..(DAY - 1) : t = k * DAY + r => t \div DAY = k /\ t % DAY = r
<1>1. DAY \in Nat \ {0}
  BY TermsAssumption
<1>2. PICK q \in Int, r \in 0..(DAY - 1) : q = t \div DAY /\ r = t % DAY /\ t = DAY * q + r
  BY <1>1, Division
<1>3. q * DAY = DAY * q /\ q * DAY \in Int /\ 0 * DAY = 0
      /\ (q < 0 => q * DAY + DAY <= 0 * DAY) /\ (0 < q => 0 * DAY < q * DAY)
  BY <1>1, <1>2, MultiplesApart
<1>4. q \in Nat /\ q * DAY \in Nat
  BY <1>1, <1>2, <1>3
<1>5. ASSUME NEW k \in Nat, NEW p \in 0..(DAY - 1), t = k * DAY + p
      PROVE  t \div DAY = k /\ t % DAY = p
  <2>1. k * DAY = DAY * k /\ k \in Int
    BY <1>1, MultiplesApart
  <2>2. QED
    BY <1>1, <1>5, <2>1, DivisionIsUnique
<1>6. QED
  BY <1>2, <1>3, <1>4, <1>5

\* The times are numbers, up to the last day.
LEMMA TimesBounded ==
  ASSUME Terms!TypeOK
  PROVE  /\ now \in Nat /\ Terms!Today \in Terms!Days /\ Terms!Days = 0..MaxDays
         /\ Terms!Times = 0..(MaxDays * DAY) /\ MaxDays * DAY \in Nat
<1>1. DAY \in Nat \ {0} /\ MaxDays \in Nat
  BY TermsAssumption
<1>2. MaxDays * DAY \in Nat
  BY <1>1
<1>3. now \in Nat /\ now <= MaxDays * DAY
  BY <1>2 DEF Terms!TypeOK, Terms!Times
<1>4. Terms!Today \in Nat /\ Terms!Today * DAY <= now /\ Terms!Today * DAY \in Nat
  BY <1>1, <1>3, DayAndHour DEF Terms!Today
<1>5. ~ (MaxDays < Terms!Today)
  <2>1. MaxDays < Terms!Today => MaxDays * DAY < Terms!Today * DAY
    BY <1>1, <1>4, MultiplesApart
  <2>2. QED
    BY <1>2, <1>3, <1>4, <2>1
<1>6. QED
  BY <1>1, <1>2, <1>3, <1>4, <1>5 DEF Terms!Days, Terms!Times

LEMMA InitTerms ==
  ASSUME Terms!Init PROVE TermInv
<1>1. MaxDays * DAY \in Nat
  BY TermsAssumption
<1>2. QED
  BY <1>1 DEF Terms!Init, TermInv, Terms!TypeOK, Terms!Times, AtMidnight, OneEach, Announced

LEMMA EnterTerms ==
  ASSUME TermInv, NEW c \in Clients, Terms!EnterReporting(c) PROVE TermInv'
<1>1. /\ now' = now /\ up' = up /\ waiting' = waiting /\ warned' = warned /\ lostOn' = lostOn
      /\ updated' = [updated EXCEPT ![c] = now] /\ Terms!EnsureReportingDeadline(c)
  BY DEF Terms!EnterReporting
<1>2. CASE \E d \in deadlines : d.client = c
  <2>1. deadlines' = deadlines
    BY <1>1, <1>2 DEF Terms!EnsureReportingDeadline
  <2>2. QED
    BY <1>1, <2>1 DEF TermInv, Terms!TypeOK, AtMidnight, OneEach, Announced
<1>3. CASE ~ \E d \in deadlines : d.client = c
  <2> DEFINE n == [client |-> c, at |-> (Terms!Today + ReportingDays) * DAY]
  <2>1. deadlines' = deadlines \cup {n}
    BY <1>1, <1>3 DEF Terms!EnsureReportingDeadline
  <2>2. /\ DAY \in Nat \ {0} /\ Terms!Today \in Nat /\ ReportingDays \in Nat /\ Soon \in Nat
        /\ Soon + 2 <= ReportingDays /\ SummaryHour \in 1..(DAY - 1) /\ now \in Nat
        /\ MaxDays \in Nat
    BY TermsAssumption, TimesBounded DEF TermInv, Terms!Days
  <2>3. n.at \in Nat /\ n.client = c /\ n \in [client : Clients, at : Nat]
    BY <2>2
  <2>4. Terms!TypeOK'
    BY <1>1, <2>1, <2>3 DEF TermInv, Terms!TypeOK
  <2>5. AtMidnight'
    <3>1. n.at = (Terms!Today + ReportingDays) * DAY /\ Terms!Today + ReportingDays \in Nat
      BY <2>2
    <3>2. QED
      BY <2>1, <3>1 DEF TermInv, AtMidnight
  <2>6. OneEach'
    BY <1>3, <2>1, <2>3 DEF TermInv, OneEach
  <2>7. ASSUME NEW on \in Terms!Days, on * DAY + SummaryHour \in Window(n)
        PROVE  now < on * DAY + SummaryHour
    <3>1. on \in Nat
      BY <2>2 DEF Terms!Days
    <3> DEFINE T == Terms!Today
               a == T + ReportingDays
               b == Soon + 1
    <3>2. a \in Int /\ b \in Int /\ T + 1 \in Int /\ T \in Int /\ on \in Int /\ T + b < a
      BY <2>2, <3>1
    <3>3. a * DAY - b * DAY = (a - b) * DAY /\ (a - b) \in Int /\ T < a - b
      BY <2>2, <3>2
    <3>4. T * DAY + DAY <= (a - b) * DAY /\ T * DAY \in Int
      BY <2>2, <3>2, <3>3, MultiplesApart
    <3>5. now < T * DAY + DAY
      <4>1. now = T * DAY + (now % DAY) /\ now % DAY \in 0..(DAY - 1)
        BY <2>2, DayAndHour DEF Terms!Today
      <4>2. QED
        BY <2>2, <3>4, <4>1
    <3>6. a * DAY - b * DAY <= on * DAY + SummaryHour
      BY <2>7 DEF Window
    <3>7. on * DAY \in Int /\ (a - b) * DAY \in Int
      BY <2>2, <3>2, <3>3, MultiplesApart
    <3> HIDE DEF T, a, b
    <3>8. QED
      BY <2>2, <3>3, <3>4, <3>5, <3>6, <3>7
  <2>8. Announced'
    <3>1. ASSUME NEW d \in deadlines' \ warned', NEW on \in Terms!Days,
                 on * DAY + SummaryHour \in Window(d),
                 \/ on * DAY + SummaryHour < now
                 \/ on * DAY + SummaryHour = now /\ ~ (up /\ waiting)
          PROVE  <<d.client, on>> \in lostOn
      <4>1. CASE d = n
        <5>1. now < on * DAY + SummaryHour
          BY <2>7, <3>1, <4>1
        <5>2. on * DAY + SummaryHour \in Int
          BY <2>2 DEF Terms!Days
        <5>3. QED
          BY <2>2, <3>1, <5>1, <5>2
      <4>2. CASE d # n
        BY <1>1, <2>1, <3>1, <4>2 DEF TermInv, Announced
      <4>3. QED
        BY <4>1, <4>2
    <3>2. QED
      BY <1>1, <3>1 DEF Announced, Window
  <2>9. QED
    BY <2>4, <2>5, <2>6, <2>8 DEF TermInv
<1>4. QED
  BY <1>2, <1>3

\* A summary that arrives at its hour names every deadline in whose window it is.
LEMMA SummaryNames ==
  ASSUME TermInv, NEW d \in deadlines, NEW on \in Terms!Days,
         now = on * DAY + SummaryHour, now \in Window(d)
  PROVE  d \in Terms!UrgentFor(d.client)
<1>1. /\ DAY \in Nat \ {0} /\ Soon \in Nat /\ Horizon \in Nat /\ Soon + 1 <= Horizon
      /\ SummaryHour \in 1..(DAY - 1) /\ now \in Nat /\ on \in Nat
  BY TermsAssumption, TimesBounded DEF TermInv, Terms!Days
<1>2. PICK k \in Nat : d.at = k * DAY
  BY DEF TermInv, AtMidnight
<1>3. d.client \in Clients /\ d.at \in Nat
  BY DEF TermInv, Terms!TypeOK
<1>4. d.at - now < (Soon + 1) * DAY
  <2> DEFINE b == Soon + 1
  <2>1. k * DAY - b * DAY <= on * DAY + SummaryHour /\ b \in Int /\ b \in Nat
    BY <1>1, <1>2 DEF Window
  <2>2. (on + b) * DAY = on * DAY + b * DAY /\ on * DAY \in Int /\ b * DAY \in Int /\ k * DAY \in Int
    BY <1>1, <2>1
  <2>3. on + b < k => (on + b) * DAY + DAY <= k * DAY
    BY <1>1, <1>2, <2>1, MultiplesApart
  <2>4. k < on + b => k * DAY < (on + b) * DAY
    BY <1>1, <1>2, <2>1, MultiplesApart
  <2>5. ~ (on + b < k)
    BY <1>1, <2>1, <2>2, <2>3
  <2>6. k = on + b \/ k < on + b
    BY <1>1, <2>1, <2>5
  <2>7. k * DAY <= (on + b) * DAY
    BY <2>2, <2>4, <2>6
  <2> HIDE DEF b
  <2>8. k * DAY - now < b * DAY
    BY <1>1, <2>1, <2>2, <2>7
  <2>9. QED
    BY <1>2, <2>8 DEF b
<1>5. Terms!daysLeft(d) <= Soon
  <2>1. d.at - now \in Int
    BY <1>1, <1>3
  <2>2. QED
    BY <1>1, <1>4, <2>1, WholeDaysTell DEF Terms!daysLeft
<1>6. d.at <= now + Horizon * DAY
  <2>1. (Soon + 1) * DAY <= Horizon * DAY /\ (Soon + 1) * DAY \in Int /\ Horizon * DAY \in Int
    <3>1. Soon + 1 < Horizon => (Soon + 1) * DAY < Horizon * DAY
      BY <1>1, MultiplesApart
    <3>2. Soon + 1 = Horizon \/ Soon + 1 < Horizon
      BY <1>1
    <3>3. (Soon + 1) * DAY \in Int /\ Horizon * DAY \in Int
      BY <1>1, MultiplesApart
    <3>4. QED
      BY <3>1, <3>2, <3>3
  <2>2. QED
    BY <1>1, <1>3, <1>4, <2>1
<1>7. QED
  BY <1>3, <1>5, <1>6 DEF Terms!UrgentFor, Terms!ListDeadlines

LEMMA SummaryTerms ==
  ASSUME TermInv, NEW read \in SUBSET Clients, NEW arrives \in BOOLEAN,
         Terms!runDailySummary(read, arrives)
  PROVE  TermInv'
<1> DEFINE told == IF arrives THEN read ELSE {}
<1>1. /\ up /\ waiting /\ now % DAY = SummaryHour /\ waiting' = FALSE
      /\ now' = now /\ deadlines' = deadlines /\ updated' = updated /\ up' = up
      /\ warned' = warned \cup UNION {Terms!UrgentFor(c) : c \in told}
      /\ lostOn' = lostOn \cup (Clients \ told) \X {Terms!Today}
  BY DEF Terms!runDailySummary, Terms!sendDailySummary, Terms!AtTheHour
<1>2. /\ UNION {Terms!UrgentFor(c) : c \in told} \subseteq deadlines
      /\ Terms!Today \in Terms!Days /\ told \subseteq Clients
  <2>1. \A c : Terms!UrgentFor(c) \subseteq deadlines
    BY DEF Terms!UrgentFor, Terms!ListDeadlines
  <2> QED BY <2>1, TimesBounded DEF TermInv
<1> HIDE DEF told
<1>3. Terms!TypeOK'
  BY <1>1, <1>2 DEF TermInv, Terms!TypeOK
<1>4. Announced'
  <2>1. ASSUME NEW d \in deadlines \ warned', NEW on \in Terms!Days,
               on * DAY + SummaryHour \in Window(d),
               on * DAY + SummaryHour < now \/ on * DAY + SummaryHour = now
        PROVE  <<d.client, on>> \in lostOn'
    <3>1. CASE on * DAY + SummaryHour < now
      BY <1>1, <2>1, <3>1 DEF TermInv, Announced
    <3>2. CASE on * DAY + SummaryHour = now
      <4>1. d \in Terms!UrgentFor(d.client)
        BY <2>1, <3>2, SummaryNames
      <4>2. d.client \in Clients \ told
        BY <1>1, <2>1, <4>1 DEF TermInv, Terms!TypeOK
      <4>3. on \in Nat /\ SummaryHour \in 0..(DAY - 1) /\ now \in Nat
        BY TermsAssumption, TimesBounded DEF Terms!Days, TermInv
      <4>4. Terms!Today = on
        BY <3>2, <4>3, DayAndHour DEF Terms!Today
      <4>5. QED
        BY <1>1, <4>2, <4>4
    <3>3. QED
      BY <2>1, <3>1, <3>2
  <2>2. QED
    BY <1>1, <2>1 DEF Announced, Window
<1>5. AtMidnight' /\ OneEach'
  BY <1>1 DEF TermInv, AtMidnight, OneEach
<1>6. QED
  BY <1>3, <1>4, <1>5 DEF TermInv

LEMMA StartStopTerms ==
  ASSUME TermInv, Terms!Start \/ Terms!Stop PROVE TermInv'
<1>1. /\ now' = now /\ deadlines' = deadlines /\ updated' = updated /\ warned' = warned
      /\ up' \in BOOLEAN /\ waiting' \in BOOLEAN
      /\ lostOn \subseteq lostOn' /\ lostOn' \subseteq lostOn \cup Clients \X {Terms!Today}
  <2>1. CASE Terms!Start
    <3>1. /\ now' = now /\ deadlines' = deadlines /\ updated' = updated /\ warned' = warned
          /\ lostOn' = lostOn /\ up' = TRUE /\ waiting' = (now % DAY < SummaryHour)
      BY <2>1 DEF Terms!Start
    <3>2. waiting' \in BOOLEAN
      BY <3>1
    <3>3. QED
      BY <3>1, <3>2
  <2>2. CASE Terms!Stop
    BY <2>2 DEF Terms!Stop
  <2>3. QED
    BY <2>1, <2>2
<1>2. Terms!TypeOK'
  BY <1>1, TimesBounded DEF TermInv, Terms!TypeOK
<1>3. AtMidnight' /\ OneEach'
  BY <1>1 DEF TermInv, AtMidnight, OneEach
<1>4. ASSUME NEW on \in Terms!Days, on * DAY + SummaryHour = now
      PROVE  Terms!Today = on /\ Terms!AtTheHour
  <2>1. on \in Nat /\ SummaryHour \in 0..(DAY - 1) /\ SummaryHour \in Nat /\ now \in Nat
    BY TermsAssumption, TimesBounded DEF Terms!Days, TermInv
  <2>2. QED
    BY <1>4, <2>1, DayAndHour DEF Terms!Today, Terms!AtTheHour
<1>5. Announced'
  <2>1. ASSUME NEW d \in deadlines \ warned, NEW on \in Terms!Days,
               on * DAY + SummaryHour \in Window(d),
               on * DAY + SummaryHour < now \/ on * DAY + SummaryHour = now
        PROVE  <<d.client, on>> \in lostOn'
    <3>1. CASE on * DAY + SummaryHour < now
      BY <1>1, <2>1, <3>1 DEF TermInv, Announced
    <3>2. CASE on * DAY + SummaryHour = now
      <4>1. CASE up /\ waiting
        <5>1. Terms!Today = on /\ Terms!AtTheHour
          BY <1>4, <3>2
        <5>2. CASE Terms!Start
          BY <4>1, <5>2 DEF Terms!Start
        <5>3. CASE Terms!Stop
          <6>1. lostOn' = lostOn \cup Clients \X {on} /\ d.client \in Clients
            BY <4>1, <5>1, <5>3 DEF Terms!Stop, TermInv, Terms!TypeOK
          <6> QED BY <6>1
        <5>4. QED
          BY <5>2, <5>3
      <4>2. CASE ~ (up /\ waiting)
        BY <1>1, <2>1, <3>2, <4>2 DEF TermInv, Announced
      <4>3. QED
        BY <4>1, <4>2
    <3>3. QED
      BY <2>1, <3>1, <3>2
  <2>2. QED
    BY <1>1, <2>1 DEF Announced, Window
<1>6. QED
  BY <1>2, <1>3, <1>5 DEF TermInv

LEMMA TickTerms ==
  ASSUME TermInv, Terms!Tick PROVE TermInv'
<1>1. /\ now + 1 \in Terms!Times /\ ~ (up /\ waiting /\ now % DAY = SummaryHour) /\ now' = now + 1
      /\ waiting' = (IF now' % DAY = 0 THEN up ELSE waiting)
      /\ deadlines' = deadlines /\ updated' = updated /\ up' = up /\ warned' = warned
      /\ lostOn' = IF now % DAY < SummaryHour /\ now' % DAY = SummaryHour /\ ~ (up /\ waiting)
                   THEN lostOn \cup Clients \X {Terms!Today} ELSE lostOn
  BY DEF Terms!Tick, Terms!AtTheHour
<1>2. Terms!TypeOK'
  BY <1>1, TimesBounded DEF TermInv, Terms!TypeOK
<1>3. AtMidnight' /\ OneEach'
  BY <1>1 DEF TermInv, AtMidnight, OneEach
<1>4. now \in Nat /\ DAY \in Nat \ {0} /\ SummaryHour \in 1..(DAY - 1)
  BY TimesBounded, TermsAssumption DEF TermInv
<1>5. ASSUME NEW on \in Terms!Days, on * DAY + SummaryHour = now
      PROVE  ~ (up /\ waiting)
  <2>1. on \in Nat /\ SummaryHour \in 0..(DAY - 1)
    BY <1>4, TermsAssumption DEF Terms!Days
  <2>2. now % DAY = SummaryHour
    BY <1>4, <1>5, <2>1, DayAndHour
  <2>3. QED
    BY <1>1, <2>2
<1>6. ASSUME NEW on \in Terms!Days, on * DAY + SummaryHour = now', ~ (up' /\ waiting')
      PROVE  Clients \X {on} \subseteq lostOn'
  <2>1. on \in Nat /\ SummaryHour \in 0..(DAY - 1) /\ SummaryHour - 1 \in 0..(DAY - 1) /\ on * DAY \in Nat
    BY <1>4, TermsAssumption DEF Terms!Days
  <2>2. now' % DAY = SummaryHour
    BY <1>1, <1>4, <1>6, <2>1, DayAndHour
  <2>3. now = on * DAY + (SummaryHour - 1)
    <3> DEFINE m == on * DAY
    <3>1. m + SummaryHour = now + 1 /\ m \in Nat /\ SummaryHour \in Nat /\ SummaryHour - 1 \in Int
      BY <1>1, <1>4, <1>6, <2>1
    <3> HIDE DEF m
    <3>2. now = m + (SummaryHour - 1)
      BY <1>4, <3>1
    <3>3. QED
      BY <3>2 DEF m
  <2>4. now % DAY = SummaryHour - 1 /\ Terms!Today = on
    BY <1>4, <2>1, <2>3, DayAndHour DEF Terms!Today
  <2>5. now % DAY < SummaryHour /\ ~ (up /\ waiting)
    BY <1>1, <1>4, <1>6, <2>2, <2>4
  <2>6. QED
    BY <1>1, <2>2, <2>4, <2>5
<1>7. Announced'
  <2>1. ASSUME NEW d \in deadlines \ warned, NEW on \in Terms!Days,
               on * DAY + SummaryHour \in Window(d),
               \/ on * DAY + SummaryHour < now'
               \/ on * DAY + SummaryHour = now' /\ ~ (up' /\ waiting')
        PROVE  <<d.client, on>> \in lostOn'
    <3>1. on * DAY + SummaryHour \in Int
      BY <1>4, TermsAssumption DEF Terms!Days
    <3>2. CASE on * DAY + SummaryHour < now
      BY <1>1, <2>1, <3>2 DEF TermInv, Announced
    <3>3. CASE on * DAY + SummaryHour = now
      BY <1>1, <1>5, <2>1, <3>3 DEF TermInv, Announced
    <3>4. CASE on * DAY + SummaryHour = now'
      <4>1. Clients \X {on} \subseteq lostOn'
        BY <1>1, <1>4, <1>6, <2>1, <3>4
      <4>2. d.client \in Clients
        BY <1>1, <2>1 DEF TermInv, Terms!TypeOK
      <4> QED BY <4>1, <4>2
    <3>5. QED
      BY <1>1, <1>4, <2>1, <3>1, <3>2, <3>3, <3>4
  <2>2. QED
    BY <1>1, <2>1 DEF Announced, Window
<1>8. QED
  BY <1>2, <1>3, <1>7 DEF TermInv

LEMMA InductiveTerms ==
  ASSUME TermInv, [Terms!Next]_<<now, Terms!deadlineVars>> PROVE TermInv'
<1>1. CASE Terms!Tick \/ Terms!Start \/ Terms!Stop
  BY <1>1, TickTerms, StartStopTerms
<1>2. ASSUME NEW c \in Clients, Terms!EnterReporting(c) \/ Terms!UpdateClient(c) PROVE TermInv'
  <2>1. CASE Terms!EnterReporting(c)
    BY <2>1, EnterTerms
  <2>2. CASE Terms!UpdateClient(c)
    BY <2>2 DEF Terms!UpdateClient, TermInv, Terms!TypeOK, AtMidnight, OneEach, Announced
  <2>3. QED
    BY <1>2, <2>1, <2>2
<1>3. ASSUME NEW read \in SUBSET Clients, NEW arrives \in BOOLEAN,
             Terms!runDailySummary(read, arrives)
      PROVE  TermInv'
  BY <1>3, SummaryTerms
<1>4. CASE UNCHANGED <<now, Terms!deadlineVars>>
  BY <1>4 DEF Terms!deadlineVars, TermInv, Terms!TypeOK, AtMidnight, OneEach, Announced
<1>5. QED
  BY <1>1, <1>2, <1>3, <1>4 DEF Terms!Next

LEMMA WarnedPromise ==
  ASSUME TermInv PROVE Terms!WarnedInTime
<1>1. ASSUME NEW d \in deadlines \ warned, now >= d.at, NEW on \in Terms!Days,
             on * DAY + SummaryHour \in Window(d)
      PROVE  <<d.client, on>> \in lostOn
  <2>1. on * DAY + SummaryHour \in Int /\ now \in Int /\ d.at \in Int
    BY TimesBounded, TermsAssumption DEF TermInv, Terms!TypeOK, Terms!Days
  <2>2. on * DAY + SummaryHour < now
    BY <1>1, <2>1 DEF Window
  <2>3. QED
    BY <1>1, <2>2 DEF TermInv, Announced
<1>2. QED
  BY <1>1 DEF Terms!WarnedInTime, Window

\* What the panel shows of a client with no deadline.
LEMMA PagesWithoutDeadline ==
  ASSUME TermInv, NEW c \in Clients, \A d \in deadlines : d.client # c
  PROVE  /\ Terms!UrgentFor(c) = {} /\ {d \in Terms!PageOverdue : d.client = c} = {}
         /\ Terms!Urgency(c) # "overdue"
         /\ Terms!Urgency(c) = "critical" => Terms!StuckDays(c) >= StuckCritical
<1>1. \A k : Terms!ListDeadlines(c, k) = {}
  BY DEF Terms!ListDeadlines
<1>2. Terms!buildDashboardRow(c) = [next |-> {}, stuck |-> Terms!StuckDays(c)]
  BY <1>1 DEF Terms!buildDashboardRow
<1>3. QED
  BY <1>1, <1>2 DEF Terms!UrgentFor, Terms!PageOverdue, Terms!ListOverdueDeadlines,
                    Terms!Urgency, Terms!calcUrgency

\* What they show of a client's one deadline, x whole days away: the summary
\* names it when it is within Soon, the dashboard by x and by its own order.
LEMMA PagesOfADeadline ==
  ASSUME TermInv, NEW c \in Clients, NEW d \in deadlines, d.client = c
  PROVE  LET x == Terms!daysLeft(d) IN
         /\ x \in Int
         /\ Terms!UrgentFor(c) = IF x <= Soon THEN {d} ELSE {}
         /\ {e \in Terms!PageOverdue : e.client = c} = IF d.at < now THEN {d} ELSE {}
         /\ x <= Soon => d \in Terms!ClientCard(c)
         /\ (Terms!Urgency(c) = "overdue") <=> (x < 0)
         /\ x \in 0..Soon => Terms!Urgency(c) = "critical"
         /\ Terms!Urgency(c) = "critical" => x \in 0..Soon \/ Terms!StuckDays(c) >= StuckCritical
         /\ (x < 0) <=> (d.at + DAY <= now)
         /\ d.at < now => d \in Terms!ListDeadlines(c, Horizon)
<1> DEFINE x == Terms!daysLeft(d)
<1>1. /\ DAY \in Nat \ {0} /\ Soon \in Nat /\ Horizon \in Nat /\ ReportingDays \in Nat
      /\ Soon + 1 <= Horizon /\ Horizon + 1 <= ReportingDays /\ now \in Nat /\ d.at \in Nat
      /\ d \in [client : Clients, at : Nat]
  BY TermsAssumption, TimesBounded DEF TermInv, Terms!TypeOK
<1>2. /\ x \in Int /\ (x < 0 <=> d.at - now <= -DAY)
      /\ (x <= Soon <=> d.at - now < (Soon + 1) * DAY)
  <2>1. d.at - now \in Int
    BY <1>1
  <2>2. QED
    BY <1>1, <2>1, WholeDaysTell DEF Terms!daysLeft
<1>3. /\ (Soon + 1) * DAY <= Horizon * DAY /\ Horizon * DAY <= ReportingDays * DAY
      /\ (Soon + 1) * DAY \in Int /\ Horizon * DAY \in Nat /\ ReportingDays * DAY \in Nat
  <2>1. Soon + 1 \in Int /\ Horizon \in Int /\ ReportingDays \in Int
    BY <1>1
  <2>2. /\ Soon + 1 < Horizon => (Soon + 1) * DAY < Horizon * DAY
        /\ Horizon < ReportingDays => Horizon * DAY < ReportingDays * DAY
        /\ (Soon + 1) * DAY \in Int
    BY <1>1, <2>1, MultiplesApart
  <2>3. Horizon * DAY \in Nat /\ ReportingDays * DAY \in Nat
    BY <1>1
  <2>4. (Soon + 1) * DAY <= Horizon * DAY
    BY <1>1, <2>1, <2>2, <2>3
  <2>5. QED
    BY <1>1, <2>1, <2>2, <2>3, <2>4
<1>4. \A k : Terms!ListDeadlines(c, k) = IF d.at <= now + k * DAY THEN {d} ELSE {}
  BY DEF Terms!ListDeadlines, TermInv, OneEach
<1>5. /\ x <= Soon => d.at <= now + Horizon * DAY
      /\ x <= Soon => d.at <= now + ReportingDays * DAY
      /\ d.at < now => d.at <= now + Horizon * DAY
      /\ x < 0 <=> d.at + DAY <= now
  BY <1>1, <1>2, <1>3
<1>6. Terms!UrgentFor(c) = IF x <= Soon THEN {d} ELSE {}
  BY <1>4, <1>5 DEF Terms!UrgentFor
<1>7. {e \in Terms!PageOverdue : e.client = c} = IF d.at < now THEN {d} ELSE {}
  BY DEF Terms!PageOverdue, Terms!ListOverdueDeadlines, TermInv, OneEach
<1>8. x <= Soon => d \in Terms!ClientCard(c)
  BY <1>4, <1>5 DEF Terms!ClientCard
<1> DEFINE near == Terms!ListDeadlines(c, ReportingDays)
           shown == IF near = {} THEN {} ELSE {Terms!Closest(near)}
<1>9. shown = near
  <2>1. CASE near = {}
    BY <2>1
  <2>2. CASE near = {d}
    <3>1. Terms!Closest({d}) = d
      BY <1>1 DEF Terms!Closest
    <3>2. QED
      BY <2>2, <3>1
  <2>3. QED
    BY <1>4, <2>1, <2>2
<1>10. Terms!Urgency(c) = Terms!calcUrgency([next |-> near, stuck |-> Terms!StuckDays(c)])
  BY <1>9 DEF Terms!Urgency, Terms!buildDashboardRow
<1>11. near = {} \/ near = {d}
  BY <1>4
<1>12. x <= Soon => near = {d}
  BY <1>4, <1>5
<1> HIDE DEF x, near, shown
<1>13. Soon \in Nat /\ x \in Int
  BY <1>1, <1>2
<1>14. x = Terms!daysLeft(d)
  BY DEF x
<1>15. ASSUME near = {}
       PROVE  /\ (Terms!Urgency(c) = "overdue") <=> (x < 0)
              /\ x \in 0..Soon => Terms!Urgency(c) = "critical"
              /\ Terms!Urgency(c) = "critical" => x \in 0..Soon \/ Terms!StuckDays(c) >= StuckCritical
  BY <1>10, <1>12, <1>13, <1>15 DEF Terms!calcUrgency
<1>16. ASSUME near = {d}
       PROVE  /\ (Terms!Urgency(c) = "overdue") <=> (x < 0)
              /\ x \in 0..Soon => Terms!Urgency(c) = "critical"
              /\ Terms!Urgency(c) = "critical" => x \in 0..Soon \/ Terms!StuckDays(c) >= StuckCritical
  <2> DEFINE shows == [next |-> {d}, stuck |-> Terms!StuckDays(c)]
  <2>1. Terms!Urgency(c) = Terms!calcUrgency(shows) /\ shows.next = {d} /\ shows.stuck = Terms!StuckDays(c)
    BY <1>10, <1>16
  <2> HIDE DEF shows
  <2>2. Terms!calcUrgency(shows) =
          IF x < 0 THEN "overdue" ELSE IF x <= Soon THEN "critical"
          ELSE IF x <= 2 * Soon + 1 THEN "warning"
          ELSE IF Terms!StuckDays(c) >= StuckCritical THEN "critical"
          ELSE IF Terms!StuckDays(c) >= StuckWarning THEN "warning" ELSE "ok"
    BY <1>14, <2>1 DEF Terms!calcUrgency
  <2>3. x < 0 => Terms!Urgency(c) = "overdue"
    BY <1>13, <2>1, <2>2
  <2>4. x \in 0..Soon => Terms!Urgency(c) = "critical"
    BY <1>13, <2>1, <2>2
  <2>5. ~ (x < 0) => Terms!Urgency(c) # "overdue"
    BY <1>13, <2>1, <2>2
  <2>6. Terms!Urgency(c) = "critical" => x \in 0..Soon \/ Terms!StuckDays(c) >= StuckCritical
    BY <1>13, <2>1, <2>2
  <2>7. QED
    BY <2>3, <2>4, <2>5, <2>6
<1>17. /\ (Terms!Urgency(c) = "overdue") <=> (x < 0)
       /\ x \in 0..Soon => Terms!Urgency(c) = "critical"
       /\ Terms!Urgency(c) = "critical" => x \in 0..Soon \/ Terms!StuckDays(c) >= StuckCritical
  BY <1>11, <1>15, <1>16
<1>18. d.at < now => d \in Terms!ListDeadlines(c, Horizon)
  BY <1>4, <1>5
<1>19. QED
  BY <1>2, <1>4, <1>5, <1>6, <1>7, <1>8, <1>17, <1>18 DEF x

LEMMA PagesPromise ==
  ASSUME TermInv PROVE Terms!PagesAgree
<1>1. ASSUME NEW c \in Clients, Terms!StuckDays(c) >= StuckCritical PROVE c \in Terms!StuckClients
  <2>1. now \in Int /\ updated[c] \in Int
    BY TimesBounded DEF TermInv, Terms!TypeOK
  <2>2. Terms!StuckDays(c) \in Int
    BY <2>1, WholeDaysTell DEF Terms!StuckDays
  <2>3. QED
    BY <1>1, <2>2, TermsAssumption DEF Terms!StuckClients
<1>2. ASSUME NEW c \in Clients
      PROVE  LET urgent  == Terms!UrgentFor(c) # {}
                 late    == {d \in Terms!PageOverdue : d.client = c} IN
             /\ urgent => /\ Terms!Urgency(c) \in {"overdue", "critical"}
                          /\ Terms!UrgentFor(c) \subseteq Terms!ClientCard(c)
             /\ Terms!Urgency(c) = "overdue" => urgent /\ late # {}
             /\ Terms!Urgency(c) = "critical" => urgent \/ c \in Terms!StuckClients
             /\ late \subseteq Terms!PageUpcoming
             /\ (\E d \in late : now >= d.at + DAY) => Terms!Urgency(c) = "overdue"
  <2>1. CASE \A d \in deadlines : d.client # c
    BY <1>1, <2>1, PagesWithoutDeadline
  <2>2. ASSUME NEW d \in deadlines, d.client = c
        PROVE  LET x == Terms!daysLeft(d) IN
               /\ Terms!UrgentFor(c) # {} => /\ Terms!Urgency(c) \in {"overdue", "critical"}
                                             /\ Terms!UrgentFor(c) \subseteq Terms!ClientCard(c)
               /\ Terms!Urgency(c) = "overdue" =>
                     Terms!UrgentFor(c) # {} /\ {e \in Terms!PageOverdue : e.client = c} # {}
               /\ Terms!Urgency(c) = "critical" => Terms!UrgentFor(c) # {} \/ c \in Terms!StuckClients
               /\ {e \in Terms!PageOverdue : e.client = c} \subseteq Terms!PageUpcoming
               /\ (\E e \in {e \in Terms!PageOverdue : e.client = c} : now >= e.at + DAY) =>
                     Terms!Urgency(c) = "overdue"
    <3> DEFINE x    == Terms!daysLeft(d)
               late == {e \in Terms!PageOverdue : e.client = c}
    <3>1. DAY \in Nat /\ DAY > 0 /\ Soon \in Nat /\ now \in Nat /\ d.at \in Nat
      BY TermsAssumption, TimesBounded DEF TermInv, Terms!TypeOK
    <3>2. /\ x \in Int /\ Terms!UrgentFor(c) = (IF x <= Soon THEN {d} ELSE {})
          /\ late = (IF d.at < now THEN {d} ELSE {})
          /\ (x <= Soon => d \in Terms!ClientCard(c))
          /\ (Terms!Urgency(c) = "overdue" <=> x < 0)
          /\ (x \in 0..Soon => Terms!Urgency(c) = "critical")
          /\ (Terms!Urgency(c) = "critical" => x \in 0..Soon \/ Terms!StuckDays(c) >= StuckCritical)
          /\ (x < 0 <=> d.at + DAY <= now)
          /\ (d.at < now => d \in Terms!ListDeadlines(c, Horizon))
      BY <2>2, PagesOfADeadline
    <3> HIDE DEF x, late
    <3>3. Terms!UrgentFor(c) # {} => /\ Terms!Urgency(c) \in {"overdue", "critical"}
                                     /\ Terms!UrgentFor(c) \subseteq Terms!ClientCard(c)
      BY <3>1, <3>2
    <3>4. Terms!Urgency(c) = "overdue" => Terms!UrgentFor(c) # {} /\ late # {}
      BY <3>1, <3>2
    <3>5. Terms!Urgency(c) = "critical" => Terms!UrgentFor(c) # {} \/ c \in Terms!StuckClients
      BY <1>1, <3>1, <3>2
    <3>6. late \subseteq Terms!PageUpcoming
      BY <3>2 DEF Terms!PageUpcoming
    <3>7. (\E e \in late : now >= e.at + DAY) => Terms!Urgency(c) = "overdue"
      BY <3>1, <3>2
    <3>8. QED
      BY <3>3, <3>4, <3>5, <3>6, <3>7 DEF late
  <2>3. QED
    BY <2>1, <2>2
<1>3. QED
  BY <1>2 DEF Terms!PagesAgree

\* The deadlines keep their types; one passes unannounced only when all the
\* summaries before it were lost or sent without the deadlines of its client;
\* and the pages of the panel tell of it what a whole summary tells
\* (sendDailySummary, buildDashboardRows).
THEOREM DeadlinesTold ==
  Terms!Init /\ [][Terms!Next]_<<now, Terms!deadlineVars>> =>
    [](Terms!TypeOK /\ Terms!WarnedInTime /\ Terms!PagesAgree)
<1>1. TermInv => Terms!TypeOK /\ Terms!WarnedInTime /\ Terms!PagesAgree
  BY WarnedPromise, PagesPromise DEF TermInv
<1>2. QED
  BY <1>1, InitTerms, InductiveTerms, PTL

------------------------------------------------------------------------------

(* The proxies. *)

\* The first place in a list of those with some property.
LEMMA FirstPlace ==
  ASSUME NEW n \in Nat, NEW S \in SUBSET (1..n)
  PROVE  LET i == IF S # {} THEN Switch!Min(S) ELSE 0 IN
         /\ i \in S \/ (i = 0 /\ S = {})
         /\ \A j \in S : i <= j
<1>1. CASE S = {}
  BY <1>1
<1>2. CASE S # {}
  <2>1. \E i \in S : \A j \in S : i <= j
    <3>1. S \subseteq Nat
      OBVIOUS
    <3>2. QED
      BY <1>2, <3>1, LeastNumber
  <2>2. Switch!Min(S) \in S /\ \A j \in S : Switch!Min(S) <= j
    BY <2>1 DEF Switch!Min
  <2>3. QED
    BY <1>2, <2>2
<1>3. QED
  BY <1>1, <1>2

LEMMA IndexFound ==
  ASSUME NEW list \in Switch!Lists, NEW id
  PROVE  LET i == Switch!IndexOf(list, id) IN
         \/ i \in DOMAIN list /\ list[i].id = id
         \/ i = 0 /\ \A j \in DOMAIN list : list[j].id # id
<1> DEFINE S == {j \in 1..Len(list) : list[j].id = id}
<1>1. Len(list) \in Nat /\ DOMAIN list = 1..Len(list) /\ S \subseteq 1..Len(list)
  BY DEF Switch!Lists
<1>2. Switch!IndexOf(list, id) = IF S # {} THEN Switch!Min(S) ELSE 0
  BY DEF Switch!IndexOf, Switch!SelectInSeq
<1>3. QED
  BY <1>1, <1>2, FirstPlace

LEMMA WorkingFound ==
  ASSUME NEW list \in Switch!Lists
  PROVE  Switch!FirstWorking(list) \in DOMAIN list \cup {0}
<1> DEFINE S == {j \in 1..Len(list) : list[j].status = "ok" \/ list[j].id \in OVPN}
<1>1. Len(list) \in Nat /\ DOMAIN list = 1..Len(list) /\ S \subseteq 1..Len(list)
  BY DEF Switch!Lists
<1>2. Switch!FirstWorking(list) = IF S # {} THEN Switch!Min(S) ELSE 0
  BY DEF Switch!FirstWorking, Switch!SelectInSeq
<1>3. QED
  BY <1>1, <1>2, FirstPlace

LEMMA AddressFound ==
  ASSUME NEW list \in Switch!Lists
  PROVE  Switch!GetActiveURL(list) \in Ids \cup {0}
<1> DEFINE S == {j \in 1..Len(list) : list[j].active /\ list[j].id \notin OVPN}
           i == IF S # {} THEN Switch!Min(S) ELSE 0
<1>1. Len(list) \in Nat /\ DOMAIN list = 1..Len(list) /\ S \subseteq 1..Len(list)
  BY DEF Switch!Lists
<1>2. Switch!GetActiveURL(list) = IF i = 0 THEN 0 ELSE list[i].id
  BY DEF Switch!GetActiveURL, Switch!SelectInSeq
<1>3. i \in 1..Len(list) \cup {0}
  BY <1>1, FirstPlace
<1> HIDE DEF i
<1>4. i \in 1..Len(list) => list[i].id \in Ids
  <2>1. i \in 1..Len(list) => list[i] \in Switch!ProxyRow
    BY <1>1 DEF Switch!Lists
  <2>2. QED
    BY <2>1 DEF Switch!ProxyRow
<1>5. QED
  BY <1>2, <1>3, <1>4

\* A list as the manager keeps it: of ids given so far, no two the same, and
\* no two proxies active.
Sound(list, last) ==
  /\ list \in Switch!Lists
  /\ \A i \in DOMAIN list : list[i].id \in 1..last
  /\ \A i, j \in DOMAIN list : list[i].id = list[j].id => i = j
  /\ \A i, j \in Switch!Active(list) : i = j

\* The one active proxy of a list is this one.
Settled(list, id) == \E i \in DOMAIN list : Switch!Active(list) = {i} /\ list[i].id = id

\* What a restart brings back.
FileInv == Sound(file, created) /\ (file # <<>> => \E i \in DOMAIN file : Switch!Active(file) = {i})

\* What holds of the lists, and of the tests and the headless run.
ListInv == /\ current \in Ids \cup {0} /\ created \in Ids \cup {0}
           /\ Sound(file, created) /\ Sound(proxies, created) /\ Switch!OneActive
RunInv == /\ locked \in BOOLEAN
          /\ test \in [Testers -> [id : Ids \cup {0}, index : Nat]]
          /\ fetch \in Switch!Runs /\ Switch!SessionFollowsProxy
          /\ fetch.at = "file" => fetch.left >= 1 /\ fetch.attempt >= 1

ProxyInv == ListInv /\ RunInv

LEMMA OnlyOne ==
  ASSUME NEW list \in Switch!Lists, NEW id,
         \A i, j \in DOMAIN list : list[i].id = list[j].id => i = j
  PROVE  /\ Switch!Only(list, id) \in Switch!Lists
         /\ DOMAIN Switch!Only(list, id) = DOMAIN list
         /\ \A i \in DOMAIN list : /\ Switch!Only(list, id)[i].id = list[i].id
                                   /\ Switch!Only(list, id)[i].active = (list[i].id = id)
         /\ \A i, j \in Switch!Active(Switch!Only(list, id)) : i = j
<1> DEFINE o == Switch!Only(list, id)
<1>1. list \in [1..Len(list) -> Switch!ProxyRow] /\ Len(list) \in Nat /\ DOMAIN list = 1..Len(list)
  BY DEF Switch!Lists
<1>2. ASSUME NEW i \in 1..Len(list)
      PROVE  LET p == [list[i] EXCEPT !.active = list[i].id = id] IN
             p \in Switch!ProxyRow /\ p.id = list[i].id /\ p.active = (list[i].id = id)
  <2> DEFINE is == list[i].id = id
  <2>1. list[i] \in Switch!ProxyRow
    BY <1>1
  <2>2. is \in BOOLEAN
    OBVIOUS
  <2> HIDE DEF is
  <2>3. LET p == [list[i] EXCEPT !.active = is] IN
        p \in Switch!ProxyRow /\ p.id = list[i].id /\ p.active = is
    BY <2>1, <2>2 DEF Switch!ProxyRow
  <2>4. QED
    BY <2>3 DEF is
<1>3. o = [i \in 1..Len(list) |-> [list[i] EXCEPT !.active = list[i].id = id]]
  BY <1>1 DEF Switch!Only
<1>4. o \in Switch!Lists /\ DOMAIN o = DOMAIN list
  BY <1>1, <1>2, <1>3 DEF Switch!Lists
<1>5. ASSUME NEW i \in DOMAIN list
      PROVE  o[i].id = list[i].id /\ o[i].active = (list[i].id = id)
  <2>1. o[i] = [list[i] EXCEPT !.active = list[i].id = id] /\ i \in 1..Len(list)
    BY <1>1, <1>3
  <2>2. QED
    BY <1>2, <2>1
<1> HIDE DEF o
<1>6. \A i, j \in Switch!Active(o) : i = j
  BY <1>4, <1>5 DEF Switch!Active
<1>7. QED
  BY <1>4, <1>5, <1>6 DEF o

LEMMA SavedList ==
  ASSUME NEW last \in Nat, NEW list, Sound(list, last), list # <<>>
  PROVE  /\ Sound(Switch!Saved(list), last) /\ Switch!Saved(list) # <<>>
         /\ \E i \in DOMAIN Switch!Saved(list) : Switch!Active(Switch!Saved(list)) = {i}
<1> DEFINE s == Switch!Saved(list)
<1>1. /\ list \in [1..Len(list) -> Switch!ProxyRow] /\ Len(list) \in Nat /\ DOMAIN list = 1..Len(list)
      /\ 1 \in DOMAIN list
  BY DEF Sound, Switch!Lists
<1>2. CASE Switch!Active(list) # {}
  <2>1. s = list
    BY <1>2 DEF Switch!Saved
  <2>2. PICK i \in Switch!Active(list) : TRUE
    BY <1>2
  <2>3. Switch!Active(list) = {i} /\ i \in DOMAIN list
    BY <2>2 DEF Sound, Switch!Active
  <2>4. QED
    BY <2>1, <2>3
<1>3. CASE Switch!Active(list) = {}
  <2>1. s = [list EXCEPT ![1].active = TRUE]
    BY <1>3 DEF Switch!Saved
  <2>2. /\ DOMAIN s = 1..Len(list) /\ s[1] = [list[1] EXCEPT !.active = TRUE]
        /\ \A i \in DOMAIN list : i # 1 => s[i] = list[i]
    BY <1>1, <2>1
  <2>3. s[1] \in Switch!ProxyRow /\ s[1].id = list[1].id /\ s[1].active = TRUE
    <3>1. list[1] \in Switch!ProxyRow /\ s[1] = [list[1] EXCEPT !.active = TRUE]
      BY <1>1, <2>2
    <3> HIDE DEF s
    <3>2. QED
      BY <3>1 DEF Switch!ProxyRow
  <2>4. \A i \in DOMAIN list : s[i] \in Switch!ProxyRow /\ s[i].id = list[i].id
    BY <1>1, <2>2, <2>3
  <2>5. s \in Switch!Lists
    <3>1. s \in [1..Len(list) -> Switch!ProxyRow]
      BY <1>1, <2>1, <2>2, <2>4
    <3>2. QED
      BY <1>1, <3>1 DEF Switch!Lists
  <2>6. Switch!Active(s) = {1}
    BY <1>1, <1>3, <2>2, <2>3 DEF Switch!Active
  <2> HIDE DEF s
  <2>7. Sound(s, last)
    BY <1>1, <2>2, <2>4, <2>5, <2>6 DEF Sound
  <2>8. s # <<>> /\ 1 \in DOMAIN s
    BY <1>1, <2>2
  <2>9. QED
    BY <2>6, <2>7, <2>8 DEF s
<1>4. QED
  BY <1>2, <1>3

LEMMA Saving ==
  ASSUME NEW last \in Nat, NEW list, Sound(list, last), list # <<>>, Switch!saveLocked(list),
         last \in Ids \cup {0}
  PROVE  /\ Sound(proxies', last) /\ proxies' # <<>> /\ Settled(proxies', current')
         /\ current' \in Ids
         /\ file' \in {proxies', file, <<>>}
<1> DEFINE s == Switch!Saved(list)
<1>1. PICK i \in DOMAIN s : Switch!Active(s) = {i}
  BY SavedList
<1>2. (CHOOSE k \in {i} : \A j \in {i} : j <= k) = i
  <2>1. i \in Nat
    <3>1. s \in Switch!Lists
      BY SavedList DEF Sound
    <3>2. QED
      BY <1>1, <3>1 DEF Switch!Lists
  <2>2. QED
    BY <2>1
<1>3. proxies' = s /\ file' \in {s, file, <<>>} /\ current' = s[i].id
  <2>1. Switch!LastActive(s, current) = s[i].id
    BY <1>1, <1>2 DEF Switch!LastActive
  <2>2. QED
    BY <2>1 DEF Switch!saveLocked, Switch!OnDisk
<1>4. Sound(s, last) /\ s # <<>>
  BY SavedList
<1> HIDE DEF s
<1>5. s[i] \in Switch!ProxyRow
  BY <1>1, <1>4 DEF Sound, Switch!Lists
<1>6. QED
  BY <1>1, <1>3, <1>4, <1>5 DEF Settled, Switch!ProxyRow

\* Ids that were given stay given.
LEMMA SoundLater ==
  ASSUME NEW last \in Nat, NEW later \in Nat, last <= later, NEW list, Sound(list, last)
  PROVE  Sound(list, later)
<1>1. \A i \in DOMAIN list : list[i].id \in 1..later
  BY DEF Sound
<1>2. QED
  BY <1>1 DEF Sound

LEMMA MemorySound ==
  ASSUME ListInv PROVE Sound(proxies, created) /\ created \in Nat
BY ProxiesAssumption DEF ListInv

LEMMA EmptySound == ASSUME NEW last \in Nat PROVE Sound(<<>>, last)
BY DEF Sound, Switch!Lists, Switch!Active

\* The file after a write that may fail.
LEMMA FileKept ==
  ASSUME ListInv, created' \in Nat, created <= created',
         file' = file \/ file' = <<>> \/
         (Sound(file', created') /\ \E i \in DOMAIN file' : Switch!Active(file') = {i})
  PROVE  FileInv'
<1>1. CASE file' = file
  <2>1. Sound(file, created') /\ (file # <<>> => \E i \in DOMAIN file : Switch!Active(file) = {i})
    BY MemorySound, SoundLater DEF ListInv, Switch!OneActive
  <2>2. QED
    BY <1>1, <2>1 DEF FileInv, Sound, Switch!Active
<1>2. CASE file' = <<>>
  <2>1. Sound(<<>>, created')
    BY EmptySound
  <2>2. QED
    BY <1>2, <2>1 DEF FileInv, Sound, Switch!Active
<1>3. CASE Sound(file', created') /\ \E i \in DOMAIN file' : Switch!Active(file') = {i}
  BY <1>3 DEF FileInv, Sound, Switch!Active
<1>4. QED
  BY <1>1, <1>2, <1>3

\* A list that only this proxy is active in.
LEMMA OnlySound ==
  ASSUME NEW last \in Nat, NEW list, Sound(list, last), NEW id
  PROVE  Sound(Switch!Only(list, id), last) /\ (list # <<>> => Switch!Only(list, id) # <<>>)
<1>1. /\ Switch!Only(list, id) \in Switch!Lists /\ DOMAIN Switch!Only(list, id) = DOMAIN list
      /\ \A i \in DOMAIN list : Switch!Only(list, id)[i].id = list[i].id
      /\ \A i, j \in Switch!Active(Switch!Only(list, id)) : i = j
  BY OnlyOne DEF Sound
<1>2. list # <<>> => Switch!Only(list, id) # <<>>
  BY <1>1 DEF Sound, Switch!Lists
<1>3. QED
  BY <1>1, <1>2 DEF Sound

\* A new proxy at the end of the list.
LEMMA AppendedSound ==
  ASSUME NEW last \in Nat, NEW list, Sound(list, last), last + 1 \in Ids
  PROVE  LET l == Append(list, Switch!NewProxy(last + 1, list)) IN Sound(l, last + 1) /\ l # <<>>
<1> DEFINE p == Switch!NewProxy(last + 1, list)
           l == Append(list, p)
           n == Len(list)
<1>1. n \in Nat /\ DOMAIN list = 1..n /\ list \in [1..n -> Switch!ProxyRow]
  BY DEF Sound, Switch!Lists
<1>2. p.id = last + 1 /\ p.active = (list = <<>>) /\ p \in Switch!ProxyRow
  <2> DEFINE is == list = <<>>
  <2>1. is \in BOOLEAN
    OBVIOUS
  <2>2. p = [id |-> last + 1, active |-> is, status |-> "unknown"]
    BY DEF Switch!NewProxy
  <2> HIDE DEF is, p
  <2>3. QED
    BY <2>1, <2>2 DEF Switch!ProxyRow, is
<1> HIDE DEF p
<1>3. list \in Seq(Switch!ProxyRow)
  BY DEF Sound, Switch!Lists
<1>4. /\ l \in Seq(Switch!ProxyRow) /\ DOMAIN l = 1..(n + 1)
      /\ \A i \in 1..n : l[i] = list[i]
      /\ l[n + 1] = p
  BY <1>1, <1>2, <1>3
<1> HIDE DEF l
<1>5. \A i \in DOMAIN l : (i \in 1..n /\ l[i] = list[i]) \/ (i = n + 1 /\ l[i] = p)
  BY <1>1, <1>4
<1>6. \A i \in 1..n : list[i].id \in 1..last
  BY <1>1 DEF Sound
<1>7. \A i \in DOMAIN l : l[i].id \in 1..(last + 1)
  BY <1>2, <1>5, <1>6
<1>8. \A i, j \in DOMAIN l : l[i].id = l[j].id => i = j
  <2>1. \A i, j \in 1..n : list[i].id = list[j].id => i = j
    BY <1>1 DEF Sound
  <2>2. QED
    BY <1>2, <1>5, <1>6, <2>1
<1>9. \A i, j \in Switch!Active(l) : i = j
  <2>1. CASE list = <<>>
    <3>1. n = 0
      BY <2>1
    <3>2. QED
      BY <1>5, <3>1 DEF Switch!Active
  <2>2. CASE list # <<>>
    <3>1. ~ p.active
      BY <1>2, <2>2
    <3>2. \A i \in Switch!Active(l) : i \in Switch!Active(list)
      BY <1>1, <1>5, <3>1 DEF Switch!Active
    <3>3. QED
      BY <3>2 DEF Sound
  <2>3. QED
    BY <2>1, <2>2
<1>10. l # <<>>
  BY <1>1, <1>4
<1>11. QED
  BY <1>4, <1>7, <1>8, <1>9, <1>10 DEF Sound, Switch!Lists, l, p

\* The list without one of its proxies: the ones behind it move up.
LEMMA WithoutSound ==
  ASSUME NEW last \in Nat, NEW list, Sound(list, last), NEW id, Switch!IndexOf(list, id) # 0
  PROVE  LET w == Switch!Without(list, id) IN
         /\ Sound(w, last)
         /\ w = <<>> <=> DOMAIN list = {1}
         /\ \A i \in Switch!Active(w) : \E j \in Switch!Active(list) : w[i] = list[j] /\ list[j].id # id
<1> DEFINE at == Switch!IndexOf(list, id)
           w == Switch!Without(list, id)
           n == Len(list)
<1>1. list \in Seq(Switch!ProxyRow) /\ n \in Nat /\ DOMAIN list = 1..n /\ list \in [1..n -> Switch!ProxyRow]
  BY DEF Sound, Switch!Lists
<1>2. at \in 1..n /\ list[at].id = id
  BY <1>1, IndexFound DEF Sound
<1> HIDE DEF at
<1>3. w = SubSeq(list, 1, at - 1) \o SubSeq(list, at + 1, n)
  BY DEF Switch!Without, Switch!RemoveAt, at
<1>6. w \in Seq(Switch!ProxyRow) /\ Len(w) = n - 1 /\ DOMAIN w = 1..(n - 1)
  <2>1. w \in Seq(Switch!ProxyRow) /\ Len(w) = n - 1
    BY <1>1, <1>2, <1>3, Removal
  <2> HIDE DEF w
  <2>2. QED
    BY <1>1, <2>1
<1>7. \A i \in 1..(n - 1) : w[i] = IF i < at THEN list[i] ELSE list[i + 1]
  <2>1. LET v == SubSeq(list, 1, at - 1) \o SubSeq(list, at + 1, Len(list)) IN
        \A i \in 1..(Len(list) - 1) : v[i] = IF i < at THEN list[i] ELSE list[i + 1]
    BY <1>1, <1>2, Removal
  <2>2. QED
    BY <1>3, <2>1
<1> HIDE DEF w
<1>8. \A i \in 1..(n - 1) : \E j \in 1..n : j # at /\ w[i] = list[j] /\ (j < at => i = j) /\ (at < j => i = j - 1)
  <2>1. ASSUME NEW i \in 1..(n - 1)
        PROVE  \E j \in 1..n : j # at /\ w[i] = list[j] /\ (j < at => i = j) /\ (at < j => i = j - 1)
    <3>1. CASE i < at
      <4>1. i \in 1..n /\ i # at /\ w[i] = list[i]
        BY <1>1, <1>2, <1>7, <3>1
      <4>2. QED
        BY <1>1, <1>2, <3>1, <4>1
    <3>2. CASE ~ (i < at)
      <4>1. i + 1 \in 1..n /\ at < i + 1 /\ w[i] = list[i + 1] /\ i = (i + 1) - 1
        BY <1>1, <1>2, <1>7, <3>2
      <4>2. QED
        BY <1>1, <1>2, <4>1
    <3>3. QED
      BY <3>1, <3>2
  <2>2. QED
    BY <2>1
<1>9. \A i \in DOMAIN w : w[i].id \in 1..last
  BY <1>1, <1>6, <1>8 DEF Sound
<1>10. \A i, j \in 1..n : list[i].id = list[j].id => i = j
  BY <1>1 DEF Sound
<1>11. \A i, j \in DOMAIN w : w[i].id = w[j].id => i = j
  <2>1. ASSUME NEW i \in 1..(n - 1), NEW j \in 1..(n - 1), w[i].id = w[j].id PROVE i = j
    <3>1. PICK k \in 1..n : k # at /\ w[i] = list[k] /\ (k < at => i = k) /\ (at < k => i = k - 1)
      BY <1>8
    <3>2. PICK m \in 1..n : m # at /\ w[j] = list[m] /\ (m < at => j = m) /\ (at < m => j = m - 1)
      BY <1>8
    <3>3. k = m
      BY <1>10, <2>1, <3>1, <3>2
    <3>4. QED
      BY <1>2, <3>1, <3>2, <3>3
  <2>2. QED
    BY <1>6, <2>1
<1>12. \A i \in Switch!Active(w) : \E j \in Switch!Active(list) :
           w[i] = list[j] /\ j # at /\ (j < at => i = j) /\ (at < j => i = j - 1)
  BY <1>1, <1>6, <1>8 DEF Switch!Active
<1>13. \A i, j \in Switch!Active(w) : i = j
  <2>1. \A i, j \in Switch!Active(list) : i = j /\ i \in 1..n
    BY <1>1 DEF Sound, Switch!Active
  <2>2. QED
    BY <1>2, <1>12, <2>1
<1>14. w = <<>> <=> DOMAIN list = {1}
  BY <1>1, <1>2, <1>6
<1>15. \A i \in Switch!Active(w) : \E j \in Switch!Active(list) : w[i] = list[j] /\ list[j].id # id
  BY <1>1, <1>2, <1>10, <1>12 DEF Switch!Active
<1>16. QED
  BY <1>6, <1>9, <1>11, <1>13, <1>14, <1>15 DEF Sound, Switch!Lists, w

\* A sound list that is saved keeps the invariant of the lists.
LEMMA SavingKeeps ==
  ASSUME ListInv, NEW last \in Nat, NEW list, Sound(list, last), list # <<>>, Switch!saveLocked(list),
         last \in Ids \cup {0}, created' = last, created <= last
  PROVE  ListInv'
<1>1. /\ Sound(proxies', last) /\ proxies' # <<>> /\ Settled(proxies', current')
      /\ current' \in Ids /\ file' \in {proxies', file, <<>>}
  BY Saving
<1>2. FileInv'
  <2>1. Sound(proxies', created') /\ \E i \in DOMAIN proxies' : Switch!Active(proxies') = {i}
    BY <1>1 DEF Settled
  <2>2. QED
    BY <1>1, <2>1, FileKept
<1>3. Switch!OneActive'
  BY <1>1, <1>2 DEF Switch!OneActive, FileInv, Settled, Switch!Active
<1>4. Sound(proxies, created)'
  BY <1>1 DEF Sound, Switch!Active
<1>5. QED
  BY <1>1, <1>2, <1>3, <1>4 DEF ListInv, FileInv

LEMMA SwitchedKeeps ==
  ASSUME ListInv, Switch!Switched, created' = created PROVE ListInv'
<1>1. Sound(proxies, created) /\ created \in Nat /\ created \in Ids \cup {0}
  BY MemorySound DEF ListInv
<1> DEFINE i == Switch!FirstWorking(proxies)
<1>2. CASE i = 0
  BY <1>2 DEF Switch!Switched, ListInv, Sound, Switch!OneActive, Switch!Active
<1>3. CASE i # 0
  <2>1. proxies # <<>>
    BY <1>1, <1>3, WorkingFound DEF Sound
  <2>2. Switch!saveLocked(Switch!Only(proxies, proxies[i].id))
    BY <1>3 DEF Switch!Switched
  <2>3. QED
    BY <1>1, <2>1, <2>2, OnlySound, SavingKeeps
<1>4. QED
  BY <1>2, <1>3

LEMMA AppendKeeps ==
  ASSUME ListInv, NEW id, id = created + 1, id \in Ids, created' = id,
         LET l == Append(proxies, Switch!NewProxy(id, proxies)) IN
         Switch!saveLocked(l) \/ Switch!saveLocked(Switch!Only(l, id))
  PROVE  ListInv'
<1> DEFINE l == Append(proxies, Switch!NewProxy(id, proxies))
<1>1. Sound(l, id) /\ l # <<>> /\ id \in Nat /\ created <= id
  BY MemorySound, AppendedSound
<1>2. Sound(Switch!Only(l, id), id) /\ Switch!Only(l, id) # <<>>
  BY <1>1, OnlySound
<1>3. Switch!saveLocked(l) \/ Switch!saveLocked(Switch!Only(l, id))
  OBVIOUS
<1> HIDE DEF l
<1>4. QED
  BY <1>1, <1>2, <1>3, SavingKeeps

LEMMA ActivateKeeps ==
  ASSUME ListInv, NEW id \in Ids, Switch!ActivateProxy(id) PROVE ListInv'
<1>1. Sound(proxies, created) /\ created \in Nat /\ created' = created
  BY MemorySound DEF Switch!ActivateProxy
<1>2. CASE Switch!IndexOf(proxies, id) # 0
  <2>1. Switch!saveLocked(Switch!Only(proxies, id)) /\ proxies # <<>>
    BY <1>1, <1>2, IndexFound DEF Switch!ActivateProxy, Sound
  <2>2. QED
    BY <1>1, <2>1, OnlySound, SavingKeeps DEF ListInv
<1>3. CASE Switch!IndexOf(proxies, id) = 0
  <2>1. proxies' = Switch!Only(proxies, id) /\ current' = current /\ file' = file
    BY <1>3 DEF Switch!ActivateProxy
  <2>2. \A i \in DOMAIN proxies : proxies[i].id # id /\ proxies[i].id # 0
    <3>1. \A i \in DOMAIN proxies : proxies[i].id \in 1..created
      BY <1>1 DEF Sound
    <3>2. 0 \notin DOMAIN proxies
      BY <1>1 DEF Sound, Switch!Lists
    <3>3. \A i \in DOMAIN proxies : proxies[i].id # id
      BY <1>1, <1>3, <3>2, IndexFound DEF Sound
    <3>4. QED
      BY <1>1, <3>1, <3>3
  <2>3. Sound(proxies', created) /\ DOMAIN proxies' = DOMAIN proxies
        /\ \A i \in DOMAIN proxies : proxies'[i].id = proxies[i].id /\ ~ proxies'[i].active
    <3>1. /\ DOMAIN proxies' = DOMAIN proxies
          /\ \A i \in DOMAIN proxies : /\ proxies'[i].id = proxies[i].id
                                        /\ proxies'[i].active = (proxies[i].id = id)
      BY <1>1, <2>1, OnlyOne DEF Sound
    <3>2. QED
      BY <1>1, <2>1, <2>2, <3>1, OnlySound
  <2>4. Sound(proxies, created)' /\ Sound(file, created)'
    BY <1>1, <2>1, <2>3 DEF ListInv, Sound, Switch!Active
  <2>5. Switch!OneActive'
    <3>1. Switch!Active(proxies') = {} /\ (proxies' = <<>> <=> proxies = <<>>)
      BY <1>1, <2>3 DEF Switch!Active, Sound, Switch!Lists
    <3>2. QED
      BY <2>1, <2>3, <3>1 DEF ListInv, Switch!OneActive, Switch!Active
  <2>6. QED
    BY <1>1, <2>1, <2>4, <2>5 DEF ListInv
<1>4. QED
  BY <1>2, <1>3

LEMMA RemoveKeeps ==
  ASSUME ListInv, NEW id \in Ids, Switch!RemoveProxy(id) PROVE ListInv'
<1> DEFINE rest == Switch!Without(proxies, id)
<1>1. Sound(proxies, created) /\ created \in Nat /\ created' = created /\ created \in Ids \cup {0}
  BY MemorySound DEF Switch!RemoveProxy, ListInv
<1>2. Switch!IndexOf(proxies, id) # 0
  BY DEF Switch!RemoveProxy
<1>3. /\ Sound(rest, created)
      /\ rest = <<>> <=> DOMAIN proxies = {1}
      /\ \A i \in Switch!Active(rest) : \E j \in Switch!Active(proxies) :
           rest[i] = proxies[j] /\ proxies[j].id # id
  BY <1>1, <1>2, WithoutSound
<1>4. /\ proxies # <<>>
      /\ \A j \in Switch!Active(proxies) : proxies[j].id = current
  <2>1. proxies # <<>>
    BY <1>1, <1>2, IndexFound DEF Sound
  <2>2. QED
    BY <2>1 DEF ListInv, Switch!OneActive
<1>5. rest = <<>> => current = id
  <2>1. ASSUME rest = <<>> PROVE current = id
    <3>1. DOMAIN proxies = {1}
      BY <1>3, <2>1
    <3>2. proxies[1].id = id
      BY <1>1, <1>2, <3>1, IndexFound DEF Sound
    <3>3. proxies[1].id = current
      BY <1>4, <3>1 DEF ListInv, Switch!OneActive
    <3>4. QED
      BY <3>2, <3>3
  <2>2. QED
    BY <2>1
<1>6. CASE rest = <<>>
  <2>1. proxies' = <<>> /\ file' \in {<<>>, file} /\ current' = 0
    BY <1>5, <1>6 DEF Switch!RemoveProxy, Switch!OnDisk
  <2>2. FileInv'
    BY <1>1, <2>1, FileKept
  <2>3. QED
    BY <1>1, <2>1, <2>2, EmptySound DEF ListInv, FileInv, Sound, Switch!OneActive, Switch!Active
<1>7. CASE rest # <<>> /\ current # id
  <2>1. Switch!saveLocked(rest)
    BY <1>7 DEF Switch!RemoveProxy
  <2>2. QED
    BY <1>1, <1>3, <1>7, <2>1, SavingKeeps
<1>8. CASE rest # <<>> /\ current = id
  <2> DEFINE l == [rest EXCEPT ![1].active = TRUE]
  <2>1. Switch!saveLocked(l)
    BY <1>8 DEF Switch!RemoveProxy
  <2>2. Switch!Active(rest) = {}
    BY <1>3, <1>4, <1>8
  <2>3. Switch!Saved(rest) = l
    BY <1>8, <2>2 DEF Switch!Saved
  <2>4. Sound(l, created) /\ l # <<>>
    BY <1>1, <1>3, <1>8, <2>3, SavedList
  <2> HIDE DEF l
  <2>5. QED
    BY <1>1, <2>1, <2>4, SavingKeeps
<1>9. QED
  BY <1>6, <1>7, <1>8

\* A test writes its outcome to a place of the list, and nothing else there.
LEMMA TestKeeps ==
  ASSUME ListInv, RunInv, NEW t \in Testers, NEW ok \in BOOLEAN, Switch!EndTest(t, ok) PROVE ListInv'
<1> DEFINE i == test[t].index
           r == IF ok \/ test[t].id \in OVPN THEN "ok" ELSE "error"
           l == [proxies EXCEPT ![i].status = r]
           n == Len(proxies)
<1>1. Sound(proxies, created) /\ created \in Nat /\ created' = created /\ created \in Ids \cup {0}
  BY MemorySound DEF Switch!EndTest, ListInv
<1>2. CASE i \notin DOMAIN proxies
  BY <1>1, <1>2 DEF Switch!EndTest, ListInv, Sound, Switch!OneActive, Switch!Active
<1>3. CASE i \in DOMAIN proxies
  <2>1. Switch!saveLocked(l)
    BY <1>3 DEF Switch!EndTest
  <2>2. n \in Nat /\ DOMAIN proxies = 1..n /\ proxies \in [1..n -> Switch!ProxyRow] /\ i \in 1..n
    BY <1>1, <1>3 DEF Sound, Switch!Lists
  <2>3. r \in {"unknown", "ok", "error"}
    OBVIOUS
  <2> HIDE DEF r, i
  <2>4. /\ DOMAIN l = 1..n /\ l[i] = [proxies[i] EXCEPT !.status = r]
        /\ \A j \in 1..n : j # i => l[j] = proxies[j]
    BY <2>2
  <2>5. l[i] \in Switch!ProxyRow /\ l[i].id = proxies[i].id /\ l[i].active = proxies[i].active
    <3>1. proxies[i] \in Switch!ProxyRow /\ l[i] = [proxies[i] EXCEPT !.status = r]
      BY <2>2, <2>4
    <3> HIDE DEF l
    <3>2. QED
      BY <2>3, <3>1 DEF Switch!ProxyRow
  <2>6. \A j \in 1..n : l[j] \in Switch!ProxyRow /\ l[j].id = proxies[j].id /\ l[j].active = proxies[j].active
    BY <2>2, <2>4, <2>5
  <2>7. l \in Switch!Lists /\ l # <<>>
    <3>1. l \in [1..n -> Switch!ProxyRow] /\ n # 0
      BY <2>2, <2>4, <2>6
    <3>2. QED
      BY <2>2, <2>4, <3>1 DEF Switch!Lists
  <2> HIDE DEF l
  <2>8. Switch!Active(l) = Switch!Active(proxies)
    BY <2>2, <2>4, <2>6 DEF Switch!Active
  <2>9. Sound(l, created)
    BY <1>1, <2>2, <2>4, <2>6, <2>7, <2>8 DEF Sound
  <2>10. QED
    BY <1>1, <2>1, <2>7, <2>9, SavingKeeps
<1>4. QED
  BY <1>2, <1>3

LEMMA RestartKeeps ==
  ASSUME ListInv, Switch!Restart PROVE ListInv'
<1>1. created' = created /\ created \in Nat /\ Sound(file, created) /\ created \in Ids \cup {0}
  BY MemorySound DEF Switch!Restart, ListInv
<1>2. CASE proxies' = file /\ current' = Switch!LastActive(file, 0) /\ file' = file
  <2>1. CASE file = <<>>
    <3>1. current' = 0
      BY <1>2, <2>1 DEF Switch!LastActive, Switch!Active
    <3>2. QED
      BY <1>1, <1>2, <2>1, <3>1 DEF ListInv, Sound, Switch!OneActive, Switch!Active
  <2>2. CASE file # <<>>
    <3>1. PICK i \in DOMAIN file : Switch!Active(file) = {i}
      BY <2>2 DEF ListInv, Switch!OneActive
    <3>2. (CHOOSE k \in {i} : \A j \in {i} : j <= k) = i
      <4>1. i \in Nat
        BY <1>1 DEF Sound, Switch!Lists
      <4>2. QED
        BY <4>1
    <3>3. current' = file[i].id
      BY <1>2, <3>1, <3>2 DEF Switch!LastActive
    <3>4. file[i] \in Switch!ProxyRow
      BY <1>1 DEF Sound, Switch!Lists
    <3>5. QED
      BY <1>1, <1>2, <2>2, <3>1, <3>3, <3>4 DEF ListInv, Sound, Switch!OneActive, Switch!Active, Switch!ProxyRow
  <2>3. QED
    BY <2>1, <2>2
<1>3. CASE proxies' = <<>> /\ current' = 0 /\ file' \in {<<>>, file}
  <2>1. FileInv'
    BY <1>1, <1>3, FileKept
  <2>2. QED
    BY <1>1, <1>3, <2>1, EmptySound DEF ListInv, FileInv, Sound, Switch!OneActive, Switch!Active
<1>4. QED
  BY <1>2, <1>3 DEF Switch!Restart, Switch!OnDisk

\* Every way a headless run goes on leaves it a run.
GoodRun(f) == /\ f \in Switch!Runs /\ (f.open => f.session = f.proxy)
              /\ f.at = "file" => f.left >= 1 /\ f.attempt >= 1

LEMMA NoRunIsGood == GoodRun(Switch!NoRun)
  BY ProxiesAssumption DEF GoodRun, Switch!NoRun, Switch!Runs, Switch!Urls

LEMMA NextFileIsGood ==
  ASSUME NEW f, GoodRun(f), f.at = "file" PROVE GoodRun(Switch!NextFile(f))
<1>1. MaxFiles \in Nat \ {0}
  BY ProxiesAssumption
<1>2. CASE f.left = 1
  BY <1>2, NoRunIsGood DEF Switch!NextFile
<1>3. CASE f.left # 1
  <2> DEFINE n == f.left - 1
             g == [f EXCEPT !.left = n, !.attempt = 1]
  <2>1. Switch!NextFile(f) = g
    BY <1>3 DEF Switch!NextFile
  <2>2. f.left \in 0..MaxFiles /\ f.left >= 1
    BY DEF GoodRun, Switch!Runs
  <2>3. n \in 0..MaxFiles /\ n >= 1
    BY <1>1, <1>3, <2>2
  <2> HIDE DEF n
  <2>4. g \in Switch!Runs
    <3> DEFINE h == [f EXCEPT !.left = n]
    <3>1. h \in Switch!Runs
      BY <2>3 DEF GoodRun, Switch!Runs
    <3>2. g = [h EXCEPT !.attempt = 1]
      BY DEF GoodRun, Switch!Runs
    <3> HIDE DEF h, g
    <3>3. QED
      BY <3>1, <3>2 DEF Switch!Runs
  <2>5. g.left = n /\ g.attempt = 1 /\ g.open = f.open /\ g.session = f.session /\ g.proxy = f.proxy
    BY DEF GoodRun, Switch!Runs
  <2>6. GoodRun(g)
    BY <2>3, <2>4, <2>5 DEF GoodRun
  <2>7. QED
    BY <2>1, <2>6
<1>4. QED
  BY <1>2, <1>3

LEMMA RetryIsGood ==
  ASSUME NEW f, GoodRun(f), f.at = "file", NEW n \in 1..3 PROVE GoodRun(Switch!Retry(f, n))
<1>1. CASE f.attempt >= n
  BY <1>1, NextFileIsGood DEF Switch!Retry
<1>2. CASE ~ (f.attempt >= n)
  <2> DEFINE a == f.attempt + 1
             g == [f EXCEPT !.attempt = a]
  <2>1. Switch!Retry(f, n) = g
    BY <1>2 DEF Switch!Retry
  <2>2. f.attempt \in 0..3 /\ f.attempt >= 1
    BY DEF GoodRun, Switch!Runs
  <2>3. a \in 0..3 /\ a >= 1
    BY <1>2, <2>2
  <2> HIDE DEF a
  <2>4. GoodRun(g)
    BY <2>3 DEF GoodRun, Switch!Runs
  <2>5. QED
    BY <2>1, <2>4
<1>3. QED
  BY <1>1, <1>2

LEMMA ReopenedIsGood ==
  ASSUME NEW f, GoodRun(f), f.at = "file", NEW url \in Switch!Urls, NEW opens \in BOOLEAN
  PROVE  GoodRun(Switch!Reopened(f, url, opens))
<1> DEFINE g == [f EXCEPT !.proxy = url]
           o == [g EXCEPT !.session = url, !.open = TRUE]
           s == [g EXCEPT !.open = FALSE]
<1>1. GoodRun(o) /\ o.at = "file"
  BY DEF GoodRun, Switch!Runs
<1>2. GoodRun(s) /\ s.at = "file"
  BY DEF GoodRun, Switch!Runs
<1>3. Switch!Reopened(f, url, opens) = IF opens THEN Switch!Retry(o, 3) ELSE Switch!NextFile(s)
  BY DEF Switch!Reopened
<1> HIDE DEF g, o, s
<1>4. QED
  BY <1>1, <1>2, <1>3, RetryIsGood, NextFileIsGood

\* The run changes by these, or not at all.
LEMMA RunKept ==
  ASSUME RunInv, locked' \in BOOLEAN,
         test' = test \/ test' \in [Testers -> [id : Ids \cup {0}, index : Nat]],
         fetch' = fetch \/ GoodRun(fetch')
  PROVE  RunInv'
BY DEF RunInv, GoodRun, Switch!SessionFollowsProxy

LEMMA RunSteps ==
  ASSUME ListInv, RunInv, Switch!Next PROVE RunInv'
<1>1. GoodRun(fetch) /\ locked \in BOOLEAN
  BY DEF RunInv, GoodRun, Switch!SessionFollowsProxy
<1>2. test' = test \/ test' \in [Testers -> [id : Ids \cup {0}, index : Nat]]
  <2>1. ASSUME NEW t \in Testers, NEW id \in Ids, Switch!BeginTest(t, id)
        PROVE  test' \in [Testers -> [id : Ids \cup {0}, index : Nat]]
    <3>1. Switch!IndexOf(proxies, id) \in Nat
      BY IndexFound DEF ListInv, Sound, Switch!Lists
    <3>2. QED
      BY <2>1, <3>1 DEF Switch!BeginTest, RunInv
  <2>2. ASSUME NEW t \in Testers, NEW ok \in BOOLEAN, Switch!EndTest(t, ok)
        PROVE  test' \in [Testers -> [id : Ids \cup {0}, index : Nat]]
    BY <2>2 DEF Switch!EndTest, Switch!Idle, RunInv
  <2>3. CASE Switch!Restart
    BY <2>3 DEF Switch!Restart, Switch!Idle
  <2>4. QED
    BY <2>1, <2>2, <2>3 DEF Switch!Next, Switch!AddProxy, Switch!AutoSwitch, Switch!FindRussianProxy,
       Switch!FetchOne, Switch!NoLink, Switch!Hiccup, Switch!ActivateProxy, Switch!RemoveProxy,
       Switch!StartFetch, Switch!BlockedPanel, Switch!BlockedJob, Switch!FindsProxy, Switch!FindsNone
<1>3. locked' \in BOOLEAN
  <2>1. ASSUME NEW t \in Testers, NEW ok \in BOOLEAN, Switch!EndTest(t, ok) PROVE locked' \in BOOLEAN
    BY <1>1, <2>1 DEF Switch!EndTest
  <2>2. QED
    BY <1>1, <2>1 DEF Switch!Next, Switch!AddProxy, Switch!AutoSwitch, Switch!FindRussianProxy,
       Switch!FetchOne, Switch!NoLink, Switch!Hiccup, Switch!ActivateProxy, Switch!RemoveProxy,
       Switch!StartFetch, Switch!BlockedPanel, Switch!BlockedJob, Switch!FindsProxy, Switch!FindsNone,
       Switch!Restart, Switch!BeginTest
<1>4. ASSUME NEW opens \in BOOLEAN, NEW by \in {"panel", "job"}, Switch!StartFetch(by, opens)
      PROVE  GoodRun(fetch')
  <2> DEFINE u == Switch!GetActiveURL(proxies)
  <2>1. u \in Switch!Urls
    BY AddressFound DEF ListInv, Sound, Switch!Urls
  <2>2. CASE opens
    <3>1. fetch' = [Switch!NoRun EXCEPT !.at = "file", !.by = by, !.proxy = u, !.chosen = u,
                                        !.session = u, !.open = TRUE, !.attempt = 1, !.left = MaxFiles]
      BY <1>4, <2>2 DEF Switch!StartFetch
    <3> HIDE DEF u
    <3>2. fetch' = [at |-> "file", by |-> by, proxy |-> u, chosen |-> u, session |-> u,
                    open |-> TRUE, attempt |-> 1, left |-> MaxFiles]
      BY <3>1 DEF Switch!NoRun
    <3>3. MaxFiles \in 0..MaxFiles /\ MaxFiles >= 1
      BY ProxiesAssumption
    <3>4. fetch' \in Switch!Runs
      BY <2>1, <3>2, <3>3 DEF Switch!Runs
    <3>5. QED
      BY <3>2, <3>3, <3>4 DEF GoodRun
  <2>3. CASE ~ opens
    BY <1>4, <2>3, NoRunIsGood DEF Switch!StartFetch
  <2>4. QED
    BY <2>2, <2>3
<1>5. ASSUME Switch!FetchOne \/ Switch!NoLink \/ Switch!Hiccup PROVE GoodRun(fetch')
  BY <1>1, <1>5, NextFileIsGood, RetryIsGood DEF Switch!FetchOne, Switch!NoLink, Switch!Hiccup
<1>6. ASSUME NEW opens \in BOOLEAN, Switch!BlockedPanel(opens) PROVE GoodRun(fetch')
  <2>1. proxies' \in Switch!Lists
    BY <1>6, SwitchedKeeps DEF Switch!BlockedPanel, ListInv, Sound
  <2>2. Switch!GetActiveURL(proxies') \in Switch!Urls
    BY <2>1, AddressFound DEF Switch!Urls
  <2>3. QED
    BY <1>1, <1>6, <2>2, ReopenedIsGood DEF Switch!BlockedPanel
<1>7. ASSUME NEW opens \in BOOLEAN, Switch!BlockedJob(opens) PROVE GoodRun(fetch')
  <2> DEFINE i == Switch!FirstWorking(proxies)
             u == Switch!IdText(proxies[i].id)
             f == [fetch EXCEPT !.chosen = u]
  <2>1. i \in DOMAIN proxies
    BY <1>7, WorkingFound DEF Switch!BlockedJob, ListInv, Sound
  <2>2. proxies[i] \in Switch!ProxyRow
    BY <2>1 DEF ListInv, Sound, Switch!Lists
  <2>3. u \in Switch!Urls
    BY <2>2 DEF Switch!ProxyRow, Switch!Urls
  <2>4. fetch' = Switch!Reopened(f, u, opens) /\ fetch.at = "file"
    BY <1>7 DEF Switch!BlockedJob
  <2> HIDE DEF u
  <2>5. GoodRun(f) /\ f.at = "file"
    BY <1>1, <2>3, <2>4 DEF GoodRun, Switch!Runs
  <2>6. QED
    BY <2>3, <2>4, <2>5, ReopenedIsGood
<1>8. ASSUME NEW opens \in BOOLEAN, Switch!FindsProxy(opens) PROVE GoodRun(fetch')
  <2> DEFINE u == created + 1
             f == [fetch EXCEPT !.chosen = u]
  <2>1. u \in Switch!Urls
    BY <1>8 DEF Switch!FindsProxy, Switch!Finds, Switch!Urls
  <2>2. fetch' = Switch!Reopened(f, u, opens) /\ fetch.at = "file"
    BY <1>8 DEF Switch!FindsProxy
  <2> HIDE DEF u
  <2>3. GoodRun(f) /\ f.at = "file"
    BY <1>1, <2>1, <2>2 DEF GoodRun, Switch!Runs
  <2>4. QED
    BY <2>1, <2>2, <2>3, ReopenedIsGood
<1>9. ASSUME NEW opens \in BOOLEAN, Switch!FindsNone(opens) PROVE GoodRun(fetch')
  <2>1. fetch' = Switch!Reopened(fetch, fetch.chosen, opens) /\ fetch.at = "file" /\ fetch.chosen \in Switch!Urls
    BY <1>1, <1>9 DEF Switch!FindsNone, GoodRun, Switch!Runs
  <2>2. QED
    BY <1>1, <2>1, ReopenedIsGood
<1>10. fetch' = fetch \/ GoodRun(fetch')
  <2>1. CASE Switch!AddProxy \/ Switch!AutoSwitch \/ Switch!FindRussianProxy \/ Switch!Restart
    BY <2>1, NoRunIsGood DEF Switch!AddProxy, Switch!AutoSwitch, Switch!FindRussianProxy, Switch!Restart
  <2>2. ASSUME NEW id \in Ids, Switch!ActivateProxy(id) \/ Switch!RemoveProxy(id) PROVE fetch' = fetch
    BY <2>2 DEF Switch!ActivateProxy, Switch!RemoveProxy
  <2>3. ASSUME NEW t \in Testers, NEW id \in Ids, Switch!BeginTest(t, id) PROVE fetch' = fetch
    BY <2>3 DEF Switch!BeginTest
  <2>4. ASSUME NEW t \in Testers, NEW ok \in BOOLEAN, Switch!EndTest(t, ok) PROVE fetch' = fetch
    BY <2>4 DEF Switch!EndTest
  <2>5. QED
    BY <1>4, <1>5, <1>6, <1>7, <1>8, <1>9, <2>1, <2>2, <2>3, <2>4 DEF Switch!Next
<1>11. QED
  BY <1>2, <1>3, <1>10, RunKept

LEMMA ListSteps ==
  ASSUME ListInv, RunInv, Switch!Next PROVE ListInv'
<1>1. CASE Switch!AddProxy \/ Switch!FindRussianProxy
  BY <1>1, AppendKeeps DEF Switch!AddProxy, Switch!FindRussianProxy, Switch!Finds
<1>2. CASE Switch!AutoSwitch
  BY <1>2, SwitchedKeeps DEF Switch!AutoSwitch
<1>3. ASSUME NEW opens \in BOOLEAN,
             Switch!BlockedPanel(opens) \/ Switch!BlockedJob(opens) \/ Switch!FindsProxy(opens)
      PROVE  ListInv'
  <2>1. CASE Switch!BlockedPanel(opens)
    BY <2>1, SwitchedKeeps DEF Switch!BlockedPanel
  <2>2. CASE Switch!BlockedJob(opens)
    BY <2>2, SwitchedKeeps DEF Switch!BlockedJob
  <2>3. CASE Switch!FindsProxy(opens)
    BY <2>3, AppendKeeps DEF Switch!FindsProxy, Switch!Finds
  <2>4. QED
    BY <1>3, <2>1, <2>2, <2>3
<1>4. ASSUME NEW id \in Ids, Switch!ActivateProxy(id) \/ Switch!RemoveProxy(id) PROVE ListInv'
  BY <1>4, ActivateKeeps, RemoveKeeps
<1>5. ASSUME NEW t \in Testers, NEW ok \in BOOLEAN, Switch!EndTest(t, ok) PROVE ListInv'
  BY <1>5, TestKeeps
<1>6. CASE Switch!Restart
  BY <1>6, RestartKeeps
<1>7. ASSUME UNCHANGED <<proxies, current, file, created>> PROVE ListInv'
  BY <1>7 DEF ListInv, Sound, Switch!OneActive, Switch!Active, Switch!Only
<1>8. QED
  BY <1>1, <1>2, <1>3, <1>4, <1>5, <1>6, <1>7
     DEF Switch!Next, Switch!FetchOne, Switch!NoLink, Switch!Hiccup, Switch!BeginTest,
         Switch!StartFetch, Switch!FindsNone

LEMMA InitProxies == ASSUME Switch!Init PROVE ProxyInv
<1>1. ListInv
  BY DEF Switch!Init, ListInv, Sound, Switch!Lists, Switch!OneActive, Switch!Active
<1>2. RunInv
  BY NoRunIsGood DEF Switch!Init, RunInv, GoodRun, Switch!SessionFollowsProxy, Switch!Idle
<1>3. QED
  BY <1>1, <1>2 DEF ProxyInv

LEMMA InductiveProxies == ASSUME ProxyInv, [Switch!Next]_(Switch!vars) PROVE ProxyInv'
<1>1. CASE Switch!Next
  BY <1>1, ListSteps, RunSteps DEF ProxyInv
<1>2. CASE UNCHANGED Switch!vars
  BY <1>2 DEF Switch!vars, ProxyInv, ListInv, RunInv, Sound, Switch!OneActive, Switch!Active,
              Switch!Only, Switch!SessionFollowsProxy
<1>3. QED
  BY <1>1, <1>2

LEMMA ProxyPromise ==
  ASSUME ProxyInv PROVE Switch!TypeOK /\ Switch!OneActive /\ Switch!SessionFollowsProxy
BY DEF ProxyInv, ListInv, Sound, RunInv, Switch!TypeOK

\* The manager keeps its types; whatever the order of requests, tests,
\* restarts and failing writes no proxy is active but the current one, and a
\* restart brings back a list with exactly one; an open browser goes through
\* the proxy of its fetcher (proxy_manager.go, fetchWithRetry).
THEOREM OneProxyActive ==
  Switch!Spec => [](Switch!TypeOK /\ Switch!OneActive /\ Switch!SessionFollowsProxy)
<1>1. ProxyInv => Switch!TypeOK /\ Switch!OneActive /\ Switch!SessionFollowsProxy
  BY ProxyPromise
<1>2. QED
  BY <1>1, InitProxies, InductiveProxies, PTL DEF Switch!Spec

------------------------------------------------------------------------------

(* The bots. *)

\* An update that is answered, waits in a channel or is under way.
Held(u, n) == \/ n \in replied
              \/ \E i \in Bot(u)!Runs : busy[i] = n \/ \E k \in DOMAIN channel[i] : channel[i][k] = n

\* What Telegram has forgotten, or a start has seen, is held.
NothingForgotten(u) ==
  /\ \A n \in 1..confirmed : Held(u, n)
  /\ \A i \in Bot(u)!Runs : \A n \in 1..offset[i] : Held(u, n)

BotInv(u) == Bot(u)!TypeOK /\ NothingForgotten(u)

LEMMA InitBot ==
  ASSUME NEW u, Len(u.kind) \in Nat, Bot(u)!Init PROVE BotInv(u)
BY DEF Bot!Init, BotInv, Bot!TypeOK, NothingForgotten, Held

\* Steps that take nothing from anybody forget nothing.
LEMMA HeldStays ==
  ASSUME NEW u, BotInv(u), confirmed' = confirmed, offset' = offset, \A n : Held(u, n) => Held(u, n)'
  PROVE  NothingForgotten(u)'
BY DEF BotInv, NothingForgotten

LEMMA PollBot ==
  ASSUME NEW u, Len(u.kind) \in Nat, BotInv(u),
         NEW i \in Bot(u)!Runs, NEW last \in BOOLEAN, Bot(u)!Poll(i, last)
  PROVE  BotInv(u)'
<1> DEFINE M == Len(u.kind)
           known == Bot(u)!Larger(confirmed, offset[i])
           more == [k \in 1..(sent - known) |-> known + k]
<1>1. /\ sent \in 0..M /\ confirmed \in 0..M /\ offset \in [Bot(u)!Runs -> 0..M] /\ M \in Nat
      /\ channel \in [Bot(u)!Runs -> Seq(1..M)] /\ Bot(u)!Updates = 1..M
  BY DEF BotInv, Bot!TypeOK, Bot!Updates
<1>2. known \in 0..M /\ known < sent /\ (known = confirmed \/ known = offset[i]) /\ confirmed <= known
  BY <1>1 DEF Bot!Poll, Bot!Larger
<1>3. /\ sent' = sent /\ busy' = busy /\ cooling' = cooling /\ banner' = banner /\ replied' = replied
      /\ confirmed' = known /\ offset' = [offset EXCEPT ![i] = sent]
      /\ channel' = [channel EXCEPT ![i] = channel[i] \o more]
      /\ state' = IF last THEN [state EXCEPT ![i] = "closed"] ELSE state
  BY DEF Bot!Poll
<1> HIDE DEF known, M
<1>4. more \in Seq(1..M) /\ Len(more) = sent - known /\ \A k \in 1..(sent - known) : more[k] = known + k
  <2> DEFINE d == sent - known
  <2>1. d \in Nat /\ \A k \in 1..d : known + k \in 1..M
    BY <1>1, <1>2
  <2>2. more = [k \in 1..d |-> known + k]
    OBVIOUS
  <2> HIDE DEF d, more
  <2>3. more \in [1..d -> 1..M] /\ \A k \in 1..d : more[k] = known + k
    BY <2>1, <2>2
  <2>4. more \in Seq(1..M) /\ Len(more) = d
    <3> DEFINE S == 1..M
    <3>1. more \in [1..d -> S]
      BY <2>3
    <3> HIDE DEF S
    <3>2. more \in Seq(S)
      BY <2>1, <3>1
    <3>3. DOMAIN more = 1..d
      BY <3>1
    <3>4. Len(more) = d
      BY <2>1, <3>2, <3>3
    <3>5. QED
      BY <3>2, <3>4 DEF S
  <2>5. QED
    BY <2>3, <2>4 DEF d
<1> HIDE DEF more
<1>5. /\ channel'[i] = channel[i] \o more /\ channel'[i] \in Seq(1..M)
      /\ \A j \in Bot(u)!Runs : j # i => channel'[j] = channel[j]
      /\ channel' \in [Bot(u)!Runs -> Seq(1..M)]
  BY <1>1, <1>3, <1>4
<1>6. Bot(u)!TypeOK'
  BY <1>1, <1>2, <1>3, <1>5 DEF BotInv, Bot!TypeOK, Bot!Updates, M
<1>7. \A k \in DOMAIN channel[i] : k \in DOMAIN channel'[i] /\ channel'[i][k] = channel[i][k]
  <2>1. /\ DOMAIN channel[i] = 1..Len(channel[i]) /\ Len(channel[i]) \in Nat /\ Len(more) \in Nat
        /\ channel[i] \in Seq(1..M)
    BY <1>1, <1>4
  <2>2. /\ DOMAIN channel'[i] = 1..(Len(channel[i]) + Len(more))
        /\ \A k \in 1..Len(channel[i]) : channel'[i][k] = channel[i][k]
    BY <1>4, <1>5, <2>1, InARow
  <2>3. QED
    BY <2>1, <2>2
<1>8. \A n : Held(u, n) => Held(u, n)'
  <2>1. ASSUME NEW n, NEW j \in Bot(u)!Runs, NEW k \in DOMAIN channel[j], channel[j][k] = n
        PROVE  \E h \in DOMAIN channel'[j] : channel'[j][h] = n
    <3>1. CASE j = i
      BY <1>7, <2>1, <3>1
    <3>2. CASE j # i
      BY <1>5, <2>1, <3>2
    <3>3. QED
      BY <3>1, <3>2
  <2>2. QED
    BY <1>3, <2>1 DEF Held, Bot!Runs
<1>9. \A n \in (known + 1)..sent : Held(u, n)'
  <2>1. ASSUME NEW n \in (known + 1)..sent
        PROVE  \E k \in DOMAIN channel'[i] : channel'[i][k] = n
    <3> DEFINE at == n - known
    <3>1. Len(channel[i]) \in Nat /\ at \in 1..Len(more) /\ channel[i] \in Seq(1..M)
      BY <1>1, <1>2, <1>4
    <3>2. more[at] = n
      BY <1>1, <1>2, <1>4
    <3> HIDE DEF at
    <3>3. /\ DOMAIN channel'[i] = 1..(Len(channel[i]) + Len(more))
          /\ channel'[i][Len(channel[i]) + at] = more[at]
      BY <1>4, <1>5, <3>1, InARow
    <3>4. Len(channel[i]) + at \in DOMAIN channel'[i]
      BY <3>1, <3>3
    <3>5. QED
      BY <3>2, <3>3, <3>4
  <2>2. QED
    BY <2>1 DEF Held, Bot!Runs
<1>10. \A n \in 1..known : Held(u, n)'
  BY <1>2, <1>8 DEF BotInv, NothingForgotten
<1>11. \A n \in 1..sent : Held(u, n)'
  BY <1>1, <1>2, <1>9, <1>10
<1>12. NothingForgotten(u)'
  <2>1. ASSUME NEW j \in Bot(u)!Runs, NEW n \in 1..(offset'[j]) PROVE Held(u, n)'
    <3>1. CASE j = i
      BY <1>1, <1>3, <1>11, <2>1, <3>1
    <3>2. CASE j # i
      BY <1>1, <1>3, <1>8, <2>1, <3>2 DEF BotInv, NothingForgotten
    <3>3. QED
      BY <3>1, <3>2
  <2>2. \A n \in 1..confirmed' : Held(u, n)'
    BY <1>3, <1>10
  <2>3. QED
    BY <2>1, <2>2 DEF NothingForgotten, Bot!Runs
<1>13. QED
  BY <1>6, <1>12 DEF BotInv

LEMMA TakeBot ==
  ASSUME NEW u, Len(u.kind) \in Nat, BotInv(u), NEW i \in Bot(u)!Runs, Bot(u)!Take(i)
  PROVE  BotInv(u)'
<1> DEFINE M == Len(u.kind)
           h == Head(channel[i])
           c == u.chat[h]
<1>1. /\ channel \in [Bot(u)!Runs -> Seq(1..M)] /\ Bot(u)!Updates = 1..M
      /\ channel[i] \in Seq(1..M) /\ channel[i] # <<>> /\ busy[i] = 0
  BY DEF BotInv, Bot!TypeOK, Bot!Updates, Bot!Take
<1>2. /\ sent' = sent /\ confirmed' = confirmed /\ state' = state /\ offset' = offset /\ banner' = banner
      /\ channel' = [channel EXCEPT ![i] = Tail(channel[i])]
      /\ \/ replied' = replied \cup {h} /\ busy' = busy /\ cooling' = cooling
         \/ /\ busy' = [busy EXCEPT ![i] = h] /\ replied' = replied
            /\ cooling' = cooling \/ cooling' = cooling \cup {c}
  BY DEF Bot!Take
<1>3. /\ h \in 1..M /\ h = channel[i][1] /\ Tail(channel[i]) \in Seq(1..M)
      /\ Len(Tail(channel[i])) = Len(channel[i]) - 1 /\ Len(channel[i]) \in Nat
      /\ \A k \in 1..Len(Tail(channel[i])) : Tail(channel[i])[k] = channel[i][k + 1]
  BY <1>1, HeadTailProperties
<1> HIDE DEF h, M
<1>4. c \in {u.chat[n] : n \in 1..M}
  BY <1>3
<1> HIDE DEF c
<1>5. Bot(u)!TypeOK'
  <2>1. /\ channel' \in [Bot(u)!Runs -> Seq(1..M)] /\ replied' \subseteq 1..M
        /\ busy' \in [Bot(u)!Runs -> {0} \cup 1..M] /\ cooling' \subseteq {u.chat[n] : n \in 1..M}
    BY <1>1, <1>2, <1>3, <1>4 DEF BotInv, Bot!TypeOK
  <2>2. QED
    BY <1>1, <1>2, <2>1 DEF BotInv, Bot!TypeOK, Bot!Updates, Bot!Runs, M
<1>6. ASSUME NEW n, Held(u, n), n # 0 PROVE Held(u, n)'
  <2>1. CASE n \in replied
    BY <1>2, <2>1 DEF Held
  <2>2. ASSUME NEW j \in Bot(u)!Runs, busy[j] = n PROVE Held(u, n)'
    <3>1. busy'[j] = n
      BY <1>1, <1>2, <1>6, <2>2 DEF BotInv, Bot!TypeOK
    <3>2. QED
      BY <3>1 DEF Held, Bot!Runs
  <2>3. ASSUME NEW j \in Bot(u)!Runs, NEW k \in DOMAIN channel[j], channel[j][k] = n PROVE Held(u, n)'
    <3>1. CASE j # i
      <4>1. channel'[j] = channel[j]
        BY <1>1, <1>2, <3>1
      <4>2. QED
        BY <2>3, <4>1 DEF Held, Bot!Runs
    <3>2. CASE j = i /\ k = 1
      <4>1. n = h
        BY <1>3, <2>3, <3>2
      <4>2. n \in replied' \/ busy'[i] = n
        BY <1>2, <4>1 DEF BotInv, Bot!TypeOK
      <4>3. QED
        BY <4>2 DEF Held, Bot!Runs
    <3>3. CASE j = i /\ k # 1
      <4>1. k \in 1..Len(channel[i]) /\ Len(channel[i]) \in Nat
        BY <1>1, <1>3, <2>3, <3>3
      <4>2. k - 1 \in 1..Len(Tail(channel[i])) /\ (k - 1) + 1 = k
        BY <1>3, <3>3, <4>1
      <4>3. Tail(channel[i])[k - 1] = n
        BY <1>3, <2>3, <3>3, <4>2
      <4>4. channel'[i] = Tail(channel[i]) /\ k - 1 \in DOMAIN channel'[i]
        BY <1>1, <1>2, <1>3, <4>2
      <4>5. \E x \in DOMAIN channel'[i] : channel'[i][x] = n
        BY <4>3, <4>4
      <4>6. QED
        BY <4>5 DEF Held, Bot!Runs
    <3>4. QED
      BY <3>1, <3>2, <3>3
  <2>4. QED
    BY <1>6, <2>1, <2>2, <2>3 DEF Held
<1>7. NothingForgotten(u)'
  BY <1>2, <1>6 DEF BotInv, NothingForgotten, Bot!Runs
<1>8. QED
  BY <1>5, <1>7 DEF BotInv

\* The answer to an update under way.
LEMMA ReplyBot ==
  ASSUME NEW u, Len(u.kind) \in Nat, BotInv(u), NEW i \in Bot(u)!Runs, busy[i] # 0, Bot(u)!Reply(i),
         banner' \in {"absent", "empty", "valid", "stale"}
  PROVE  BotInv(u)'
<1>1. /\ sent' = sent /\ confirmed' = confirmed /\ state' = state /\ offset' = offset /\ channel' = channel
      /\ cooling' = cooling /\ replied' = replied \cup {busy[i]} /\ busy' = [busy EXCEPT ![i] = 0]
  BY DEF Bot!Reply
<1>2. Bot(u)!TypeOK'
  BY <1>1 DEF BotInv, Bot!TypeOK
<1>3. ASSUME NEW n, Held(u, n), n # 0 PROVE Held(u, n)'
  BY <1>1, <1>3 DEF Held, BotInv, Bot!TypeOK
<1>4. NothingForgotten(u)'
  BY <1>1, <1>3 DEF BotInv, NothingForgotten, Bot!Runs
<1>5. QED
  BY <1>2, <1>4 DEF BotInv

LEMMA InductiveBot ==
  ASSUME NEW u, Len(u.kind) \in Nat, BotInv(u), [Bot(u)!Next]_(Bot(u)!botVars) PROVE BotInv(u)'
<1>1. ASSUME NEW i \in Bot(u)!Runs, NEW last \in BOOLEAN, Bot(u)!Poll(i, last) PROVE BotInv(u)'
  BY <1>1, PollBot
<1>2. ASSUME NEW i \in Bot(u)!Runs, Bot(u)!Take(i) PROVE BotInv(u)'
  BY <1>2, TakeBot
<1>3. ASSUME NEW i \in Bot(u)!Runs, NEW uploaded \in BOOLEAN,
             Bot(u)!Answer(i) \/ Bot(u)!List(i, uploaded) \/ Bot(u)!ListFails(i)
      PROVE  BotInv(u)'
  <2>1. busy[i] # 0 /\ Bot(u)!Reply(i) /\ banner' \in {"absent", "empty", "valid", "stale"}
    BY <1>3 DEF Bot!Answer, Bot!List, Bot!ListFails, Bot!sendCommandBanner, BotInv, Bot!TypeOK
  <2>2. QED
    BY <2>1, ReplyBot
<1>4. ASSUME \/ Bot(u)!Send \/ Bot(u)!BannerExpires \/ UNCHANGED Bot(u)!botVars
             \/ \E i \in Bot(u)!Runs : Bot(u)!StartBot(i) \/ Bot(u)!StopBot(i) \/ Bot(u)!Close(i)
             \/ \E n \in Bot(u)!Updates : Bot(u)!CooldownEnds(u.chat[n])
      PROVE  BotInv(u)'
  <2>1. /\ confirmed' = confirmed /\ offset' = offset /\ replied' = replied /\ busy' = busy /\ channel' = channel
    BY <1>4 DEF Bot!Send, Bot!BannerExpires, Bot!botVars, Bot!StartBot, Bot!StopBot,
                Bot!Close, Bot!CooldownEnds
  <2>2. Bot(u)!TypeOK'
    <3>1. CASE Bot(u)!Send
      BY <3>1 DEF BotInv, Bot!TypeOK, Bot!Send
    <3>2. CASE Bot(u)!BannerExpires \/ UNCHANGED Bot(u)!botVars
      BY <3>2 DEF BotInv, Bot!TypeOK, Bot!BannerExpires, Bot!botVars
    <3>3. ASSUME NEW i \in Bot(u)!Runs, Bot(u)!StartBot(i) \/ Bot(u)!StopBot(i) \/ Bot(u)!Close(i)
          PROVE  Bot(u)!TypeOK'
      BY <3>3 DEF BotInv, Bot!TypeOK, Bot!StartBot, Bot!StopBot, Bot!Close
    <3>4. ASSUME NEW n \in Bot(u)!Updates, Bot(u)!CooldownEnds(u.chat[n]) PROVE Bot(u)!TypeOK'
      BY <3>4 DEF BotInv, Bot!TypeOK, Bot!CooldownEnds
    <3>5. QED
      BY <1>4, <3>1, <3>2, <3>3, <3>4
  <2>3. NothingForgotten(u)'
    BY <2>1 DEF BotInv, NothingForgotten, Held
  <2>4. QED
    BY <2>2, <2>3 DEF BotInv
<1>5. QED
  BY <1>1, <1>2, <1>3, <1>4 DEF Bot!Next

\* The bot keeps its types, and no update that Telegram has forgotten is lost
\* across its stops and starts: it is answered, under way or in a channel
\* (tgbot/bot.go, runLoop).
THEOREM UpdatesAreHeld ==
  ASSUME NEW u, Len(u.kind) \in Nat
  PROVE  Bot(u)!Spec => [](Bot(u)!TypeOK /\ \A n \in 1..confirmed : Held(u, n))
<1>1. Bot(u)!Init => BotInv(u)
  BY InitBot
<1>2. BotInv(u) /\ [Bot(u)!Next]_(Bot(u)!botVars) => BotInv(u)'
  BY InductiveBot
<1>3. BotInv(u) => Bot(u)!TypeOK /\ \A n \in 1..confirmed : Held(u, n)
  BY DEF BotInv, NothingForgotten
<1>4. QED
  BY <1>1, <1>2, <1>3, PTL DEF Bot!Spec

------------------------------------------------------------------------------

(* The rows of the tenants. *)

Token == Tokens \cup {NoToken}

\* What a round wants is a token for each bot; the rows it read stay.
Wanted(m) ==
  /\ DOMAIN m.wanted \subseteq Rows!BotKeys /\ m.todo \subseteq DOMAIN m.wanted
  /\ \A k \in DOMAIN m.wanted : /\ m.wanted[k] \in Tokens
                                /\ k # GlobalBot => tenant[k] \in Rows!Row

GoodRound(m) ==
  \/ m = Rows!Waiting
  \/ Wanted(m) /\ m.pc = "bots"
  \/ Wanted(m) /\ m.pc = "name" /\ m.bot \in DOMAIN m.wanted /\ m.bot # GlobalBot /\ m.copy \in Rows!Row

RowInv == Rows!TypeOK /\ GoodRound(manager)

LEMMA InitRows == ASSUME Rows!Init PROVE RowInv
BY TenantsAssumption DEF Rows!Init, RowInv, Rows!TypeOK, GoodRound, Rows!Waiting, Rows!NoEdit

\* The bots that should run have tokens, and rows if they are a tenant's.
LEMMA DesiredHaveTokens ==
  ASSUME Rows!TypeOK
  PROVE  /\ DOMAIN Rows!desiredBots \subseteq Rows!BotKeys
         /\ \A k \in DOMAIN Rows!desiredBots :
              Rows!desiredBots[k] \in Tokens /\ (k # GlobalBot => tenant[k] \in Rows!Row)
<1> DEFINE own    == {t \in Tenants : Rows!Present(t) /\ tenant[t].active /\ tenant[t].token # NoToken}
           heirs  == {t \in Tenants : Rows!Inherits(t)}
           global == IF FallbackToken # NoToken /\ heirs = {} THEN {GlobalBot} ELSE {}
<1>1. Rows!desiredBots = [k \in own \cup heirs \cup global |->
                            IF k \in own THEN tenant[k].token ELSE FallbackToken]
  BY DEF Rows!desiredBots
<1>2. \A t \in Tenants : Rows!Present(t) => tenant[t] \in Rows!Row
  BY DEF Rows!TypeOK, Rows!Present
<1>3. \A k \in own : k \in Tenants /\ tenant[k] \in Rows!Row /\ tenant[k].token \in Tokens
  BY <1>2 DEF Rows!Row
<1>4. \A k \in heirs : k \in Tenants /\ tenant[k] \in Rows!Row /\ FallbackToken # NoToken
  BY <1>2 DEF Rows!Inherits
<1>5. \A k \in global : k = GlobalBot /\ FallbackToken # NoToken
  OBVIOUS
<1> HIDE DEF own, heirs, global
<1>6. FallbackToken # NoToken => FallbackToken \in Tokens
  BY TenantsAssumption
<1>7. QED
  BY <1>1, <1>3, <1>4, <1>5, <1>6 DEF Rows!BotKeys

\* A step of the panel: rows come and are rewritten, none goes.
LEMMA TenantRowsStay ==
  ASSUME RowInv, Rows!TypeOK', manager' = manager,
         \A t \in Tenants : tenant[t] \in Rows!Row => tenant'[t] \in Rows!Row
  PROVE  RowInv'
<1>1. ASSUME NEW k, k \in Rows!BotKeys, k # GlobalBot, tenant[k] \in Rows!Row PROVE tenant'[k] \in Rows!Row
  BY <1>1 DEF Rows!BotKeys
<1>2. Wanted(manager) => Wanted(manager)'
  BY <1>1 DEF Wanted
<1>3. GoodRound(manager)'
  BY <1>2 DEF RowInv, GoodRound
<1>4. QED
  BY <1>3 DEF RowInv

LEMMA InsertRows ==
  ASSUME RowInv, NEW t \in Tenants, Rows!Insert(t), edits' = edits, failures' = failures,
         manager' = manager, running' = running,
         edit' = edit \/ \E e \in Editors : edit' = [edit EXCEPT ![e] = Rows!NoEdit]
  PROVE  RowInv'
<1> DEFINE r == [active |-> TRUE, token |-> NoToken, username |-> NoToken, key |-> 1]
<1>1. tenant' = [tenant EXCEPT ![t] = r] /\ keyOf' = [keyOf EXCEPT ![t] = 1]
  BY DEF Rows!Insert
<1>2. r \in Rows!Row
  BY DEF Rows!Row
<1> HIDE DEF r
<1>3. /\ tenant' \in [Tenants -> Rows!Row \cup {Rows!NoRow}] /\ keyOf' \in [Tenants -> Nat]
      /\ \A u \in Tenants : tenant[u] \in Rows!Row => tenant'[u] \in Rows!Row
  BY <1>1, <1>2 DEF RowInv, Rows!TypeOK
<1>4. Rows!TypeOK'
  BY <1>3 DEF RowInv, Rows!TypeOK
<1>5. QED
  BY <1>3, <1>4, TenantRowsStay

LEMMA EditRows ==
  ASSUME RowInv, NEW e \in Editors,
         \/ Rows!WriteEdit(e)
         \/ \E t \in Tenants : Rows!LookForDefault(e, t)
         \/ \E t \in Tenants, op \in Rows!Ops, token \in Token : Rows!ReadForEdit(e, t, op, token)
  PROVE  RowInv'
<1>1. ASSUME NEW t \in Tenants, Rows!LookForDefault(e, t) PROVE RowInv'
  <2>1. Rows!TypeOK'
    BY <1>1 DEF RowInv, Rows!TypeOK, Rows!LookForDefault
  <2>2. QED
    BY <1>1, <2>1, TenantRowsStay DEF Rows!LookForDefault
<1>2. ASSUME NEW t \in Tenants, NEW op \in Rows!Ops, NEW token \in Token, Rows!ReadForEdit(e, t, op, token)
      PROVE  RowInv'
  <2>1. tenant[t] \in Rows!Row
    BY <1>2 DEF RowInv, Rows!TypeOK, Rows!ReadForEdit, Rows!Present
  <2>2. [op |-> op, tenant |-> t, copy |-> tenant[t], token |-> token]
          \in [op : Rows!Ops, tenant : Tenants, copy : Rows!Row, token : Tokens \cup {NoToken}]
    BY <2>1 DEF Token
  <2>3. edits' \in 0..MaxEdits
    BY <1>2, TenantsAssumption DEF RowInv, Rows!TypeOK, Rows!ReadForEdit
  <2>4. Rows!TypeOK'
    BY <1>2, <2>2, <2>3 DEF RowInv, Rows!TypeOK, Rows!ReadForEdit
  <2>5. QED
    BY <1>2, <2>4, TenantRowsStay DEF Rows!ReadForEdit
<1>3. CASE Rows!WriteEdit(e)
  <2>1. edit[e] \in [op : Rows!Ops, tenant : Tenants, copy : Rows!Row, token : Tokens \cup {NoToken}]
    BY <1>3 DEF RowInv, Rows!TypeOK, Rows!WriteEdit, Rows!NoEdit, Rows!Ops
  <2> DEFINE t == edit[e].tenant
             r == edit[e].copy
  <2>2. /\ t \in Tenants /\ r \in Rows!Row /\ edit[e].token \in Tokens \cup {NoToken}
        /\ keyOf[t] \in Nat /\ edit[e].op \in Rows!Ops
    BY <2>1 DEF RowInv, Rows!TypeOK
  <2>3. Rows!Edited(e) \in Rows!Row
    <3>1. CASE edit[e].op = "regenerate"
      <4>1. Rows!Edited(e) = [r EXCEPT !.key = keyOf[t] + 1]
        BY <3>1 DEF Rows!Edited
      <4>2. QED
        BY <2>2, <4>1 DEF Rows!Row
    <3>2. CASE edit[e].op = "toggle"
      <4>1. Rows!Edited(e) = [r EXCEPT !.active = ~ r.active]
        BY <3>2 DEF Rows!Edited
      <4>2. QED
        BY <2>2, <4>1 DEF Rows!Row
    <3>3. CASE edit[e].op = "token"
      <4> DEFINE name == IF edit[e].token = NoToken THEN NoToken ELSE r.username
      <4>1. Rows!Edited(e) = [r EXCEPT !.token = edit[e].token, !.username = name]
        BY <3>3 DEF Rows!Edited
      <4>2. name \in Tokens \cup {NoToken}
        BY <2>2 DEF Rows!Row
      <4> HIDE DEF name
      <4>3. QED
        BY <2>2, <4>1, <4>2 DEF Rows!Row
    <3>4. QED
      BY <2>2, <3>1, <3>2, <3>3 DEF Rows!Ops
  <2>4. /\ tenant' = [tenant EXCEPT ![t] = Rows!Edited(e)]
        /\ keyOf' = [keyOf EXCEPT ![t] = IF edit[e].op = "regenerate" THEN keyOf[t] + 1 ELSE keyOf[t]]
        /\ edit' = [edit EXCEPT ![e] = Rows!NoEdit]
        /\ manager' = manager /\ running' = running /\ edits' = edits /\ failures' = failures
    BY <1>3 DEF Rows!WriteEdit
  <2> HIDE DEF t, r
  <2>5. /\ tenant' \in [Tenants -> Rows!Row \cup {Rows!NoRow}] /\ keyOf' \in [Tenants -> Nat]
        /\ \A u \in Tenants : tenant[u] \in Rows!Row => tenant'[u] \in Rows!Row
    BY <2>2, <2>3, <2>4 DEF RowInv, Rows!TypeOK
  <2>6. Rows!TypeOK'
    BY <2>4, <2>5 DEF RowInv, Rows!TypeOK
  <2>7. QED
    BY <2>4, <2>5, <2>6, TenantRowsStay
<1>4. QED
  BY <1>1, <1>2, <1>3

\* A bot is entered under its key, or keys are taken out.
LEMMA RunningBots ==
  ASSUME Rows!TypeOK
  PROVE  /\ \A K : LET f == Rows!WithoutKeys(running, K) IN
                   DOMAIN f \subseteq Rows!BotKeys /\ \A k \in DOMAIN f : f[k] \in Tokens
         /\ \A b \in Rows!BotKeys, token \in Tokens : LET f == Rows!WithBot(b, token) IN
                   DOMAIN f \subseteq Rows!BotKeys /\ \A k \in DOMAIN f : f[k] \in Tokens
BY DEF Rows!TypeOK, Rows!WithoutKeys, Rows!WithBot

\* A step of the manager that leaves the rows alone.
LEMMA RoundGoesOn ==
  ASSUME RowInv, UNCHANGED <<tenant, keyOf, edit, edits>>, GoodRound(manager'), failures' \in 0..MaxFailures,
         DOMAIN running' \subseteq Rows!BotKeys, \A k \in DOMAIN running' : running'[k] \in Tokens
  PROVE  RowInv'
<1>1. GoodRound(manager)'
  BY DEF GoodRound, Wanted
<1>2. manager'.pc \in {"wait", "bots", "name"}
  BY DEF GoodRound, Rows!Waiting
<1>3. QED
  BY <1>1, <1>2 DEF RowInv, Rows!TypeOK

LEMMA RoundRows ==
  ASSUME RowInv,
         \/ Rows!BeginRound \/ Rows!RoundFails \/ Rows!EndRound
         \/ \E k \in Rows!BotKeys : Rows!KeepBot(k) \/ Rows!StartBot(k) \/ Rows!StartFails(k)
  PROVE  RowInv'
<1>1. failures \in 0..MaxFailures /\ MaxFailures \in Nat /\ Rows!TypeOK
  BY TenantsAssumption DEF RowInv, Rows!TypeOK
<1>2. CASE Rows!BeginRound
  <2>1. /\ manager'.pc = "bots" /\ manager'.wanted = Rows!desiredBots
        /\ manager'.todo = DOMAIN Rows!desiredBots
        /\ running' = Rows!WithoutKeys(running, DOMAIN running \ DOMAIN Rows!desiredBots)
        /\ UNCHANGED <<tenant, keyOf, edit, edits, failures>>
    BY <1>2 DEF Rows!BeginRound
  <2>2. GoodRound(manager')
    BY <1>1, <2>1, DesiredHaveTokens DEF GoodRound, Wanted
  <2>3. QED
    BY <1>1, <2>1, <2>2, RunningBots, RoundGoesOn
<1>3. CASE Rows!RoundFails \/ Rows!EndRound
  <2>1. UNCHANGED <<tenant, keyOf, edit, edits, running>> /\ failures' \in 0..MaxFailures
    BY <1>1, <1>3 DEF Rows!RoundFails, Rows!EndRound
  <2>2. GoodRound(manager')
    BY <1>3 DEF Rows!RoundFails, Rows!EndRound, GoodRound, RowInv
  <2>3. QED
    BY <1>1, <2>1, <2>2, RoundGoesOn DEF Rows!TypeOK
<1>4. ASSUME NEW k \in Rows!BotKeys, Rows!Taken(k)
      PROVE  /\ Wanted(manager) /\ k \in DOMAIN manager.wanted /\ manager.wanted[k] \in Tokens
             /\ k # GlobalBot => tenant[k] \in Rows!Row
  <2>1. Wanted(manager) /\ k \in manager.todo
    BY <1>4 DEF Rows!Taken, RowInv, GoodRound, Rows!Waiting
  <2>2. QED
    BY <2>1 DEF Wanted
<1>5. ASSUME NEW k \in Rows!BotKeys, Rows!Taken(k) PROVE GoodRound(Rows!Next1(k))
  <2>1. Rows!Next1(k) = [manager EXCEPT !.todo = manager.todo \ {k}] /\ manager.pc = "bots" /\ Wanted(manager)
    BY <1>4, <1>5 DEF Rows!Next1, Rows!Taken
  <2> DEFINE m == Rows!Next1(k)
  <2>2. m.wanted = manager.wanted /\ m.pc = manager.pc /\ m.todo \subseteq manager.todo
    BY <2>1
  <2> HIDE DEF m
  <2>3. Wanted(m) /\ m.pc = "bots"
    BY <2>1, <2>2 DEF Wanted
  <2>4. QED
    BY <2>3 DEF GoodRound, m
<1>6. ASSUME NEW k \in Rows!BotKeys, Rows!KeepBot(k) \/ Rows!StartFails(k) PROVE RowInv'
  <2>1. /\ UNCHANGED <<tenant, keyOf, edit, edits>> /\ failures' \in 0..MaxFailures
        /\ manager' = Rows!Next1(k) /\ Rows!Taken(k)
        /\ running' = running \/ running' = Rows!WithoutKeys(running, {k})
    BY <1>1, <1>6 DEF Rows!KeepBot, Rows!StartFails
  <2>2. GoodRound(manager')
    BY <1>5, <2>1
  <2>3. DOMAIN running' \subseteq Rows!BotKeys /\ \A b \in DOMAIN running' : running'[b] \in Tokens
    BY <1>1, <2>1, RunningBots DEF Rows!TypeOK
  <2>4. QED
    BY <2>1, <2>2, <2>3, RoundGoesOn
<1>7. ASSUME NEW k \in Rows!BotKeys, Rows!StartBot(k) PROVE RowInv'
  <2>1. UNCHANGED <<tenant, keyOf, edit, edits>> /\ failures' \in 0..MaxFailures /\ Rows!Taken(k)
    BY <1>1, <1>7 DEF Rows!StartBot
  <2>2. \/ manager' = Rows!Next1(k) /\ running' = Rows!WithBot(k, manager.wanted[k])
        \/ /\ manager' = [pc |-> "name", wanted |-> manager.wanted, todo |-> manager.todo,
                          names |-> manager.names, bot |-> k, copy |-> tenant[k]]
           /\ running' = Rows!WithoutKeys(running, {k}) /\ k # GlobalBot
    BY <1>7 DEF Rows!StartBot
  <2>3. CASE manager' = Rows!Next1(k) /\ running' = Rows!WithBot(k, manager.wanted[k])
    <3>1. GoodRound(manager') /\ manager.wanted[k] \in Tokens
      BY <1>4, <1>5, <2>1, <2>3
    <3>2. DOMAIN running' \subseteq Rows!BotKeys /\ \A b \in DOMAIN running' : running'[b] \in Tokens
      BY <1>1, <2>3, <3>1, RunningBots
    <3>3. QED
      BY <2>1, <3>1, <3>2, RoundGoesOn
  <2>4. CASE /\ manager' = [pc |-> "name", wanted |-> manager.wanted, todo |-> manager.todo,
                            names |-> manager.names, bot |-> k, copy |-> tenant[k]]
             /\ running' = Rows!WithoutKeys(running, {k}) /\ k # GlobalBot
    <3>1. /\ manager'.pc = "name" /\ manager'.wanted = manager.wanted /\ manager'.todo = manager.todo
          /\ manager'.bot = k /\ manager'.copy = tenant[k]
      BY <2>4
    <3>2. GoodRound(manager')
      BY <1>4, <2>1, <2>4, <3>1 DEF GoodRound, Wanted
    <3>3. QED
      BY <1>1, <2>1, <2>4, <3>2, RunningBots, RoundGoesOn
  <2>5. QED
    BY <2>2, <2>3, <2>4
<1>8. QED
  BY <1>2, <1>3, <1>6, <1>7

LEMMA SaveNameRows == ASSUME RowInv, Rows!SaveName PROVE RowInv'
<1> DEFINE b == manager.bot
           r == [manager.copy EXCEPT !.username = manager.wanted[b]]
<1>1. /\ Wanted(manager) /\ b \in DOMAIN manager.wanted /\ b # GlobalBot /\ manager.copy \in Rows!Row
      /\ manager.wanted[b] \in Tokens /\ b \in Rows!BotKeys /\ b \in Tenants
  BY DEF RowInv, GoodRound, Rows!SaveName, Rows!Waiting, Wanted, Rows!BotKeys
<1>2. r \in Rows!Row
  BY <1>1 DEF Rows!Row
<1>3. /\ tenant' = [tenant EXCEPT ![b] = r] /\ running' = Rows!WithBot(b, manager.wanted[b])
      /\ manager'.pc = "bots" /\ manager'.wanted = manager.wanted /\ manager'.todo = manager.todo \ {b}
      /\ UNCHANGED <<keyOf, edit, edits, failures>>
  BY DEF Rows!SaveName
<1> HIDE DEF r, b
<1>4. /\ tenant' \in [Tenants -> Rows!Row \cup {Rows!NoRow}]
      /\ \A t \in Tenants : tenant[t] \in Rows!Row => tenant'[t] \in Rows!Row
  BY <1>1, <1>2, <1>3 DEF RowInv, Rows!TypeOK
<1>5. DOMAIN running' \subseteq Rows!BotKeys /\ \A k \in DOMAIN running' : running'[k] \in Tokens
  BY <1>1, <1>3, RunningBots DEF RowInv
<1>6. GoodRound(manager)'
  <2>1. \A k \in DOMAIN manager.wanted : k # GlobalBot => tenant'[k] \in Rows!Row
    BY <1>1, <1>4 DEF Wanted, Rows!BotKeys
  <2>2. QED
    BY <1>1, <1>3, <2>1 DEF GoodRound, Wanted
<1>7. Rows!TypeOK'
  BY <1>3, <1>4, <1>5 DEF RowInv, Rows!TypeOK
<1>8. QED
  BY <1>6, <1>7 DEF RowInv

LEMMA InductiveRows == ASSUME RowInv, [Rows!Next]_(Rows!tenantVars) PROVE RowInv'
<1>1. ASSUME NEW t \in Tenants, Rows!CreateTenant(t) PROVE RowInv'
  BY <1>1, InsertRows DEF Rows!CreateTenant
<1>2. ASSUME NEW e \in Editors, Rows!CreateDefault(e) PROVE RowInv'
  <2>1. edit[e].tenant \in Tenants
    BY <1>2, TenantsAssumption DEF Rows!CreateDefault, RowInv, Rows!TypeOK, Rows!NoEdit, Rows!Ops
  <2>2. QED
    BY <1>2, <2>1, InsertRows DEF Rows!CreateDefault
<1>3. ASSUME NEW e \in Editors, NEW t \in Tenants,
             \/ Rows!LookForDefault(e, t)
             \/ \E token \in Tokens \cup {NoToken} : Rows!ReadForEdit(e, t, "token", token)
             \/ \E op \in {"regenerate", "toggle"} : Rows!ReadForEdit(e, t, op, NoToken)
      PROVE  RowInv'
  <2>1. CASE Rows!LookForDefault(e, t)
    BY <2>1, EditRows
  <2>2. ASSUME NEW token \in Tokens \cup {NoToken}, Rows!ReadForEdit(e, t, "token", token) PROVE RowInv'
    <3>1. "token" \in Rows!Ops /\ token \in Token
      BY DEF Rows!Ops, Token
    <3>2. QED
      BY <2>2, <3>1, EditRows
  <2>3. ASSUME NEW op \in {"regenerate", "toggle"}, Rows!ReadForEdit(e, t, op, NoToken) PROVE RowInv'
    <3>1. op \in Rows!Ops /\ NoToken \in Token
      BY DEF Rows!Ops, Token
    <3>2. QED
      BY <2>3, <3>1, EditRows
  <2>4. QED
    BY <1>3, <2>1, <2>2, <2>3
<1>4. ASSUME NEW e \in Editors, Rows!WriteEdit(e) PROVE RowInv'
  BY <1>4, EditRows
<1>5. CASE UNCHANGED Rows!tenantVars
  BY <1>5 DEF Rows!tenantVars, RowInv, Rows!TypeOK, GoodRound, Wanted
<1>6. QED
  BY <1>1, <1>2, <1>3, <1>4, <1>5, RoundRows, SaveNameRows DEF Rows!Next

\* The rows of the tenants, the edits under way and the bots that run keep
\* their types (tenants.go, tgbot/manager.go).
THEOREM TenantsTypeCorrect == Rows!Spec => []Rows!TypeOK
<1>1. RowInv => Rows!TypeOK
  BY DEF RowInv
<1>2. QED
  BY <1>1, InitRows, InductiveRows, PTL DEF Rows!Spec

------------------------------------------------------------------------------

(* The language models and their agents. *)

\* The rows are numbered as they are made, and an agent is bound to a model
\* that is there.
AiRows == /\ made \in [models : 0..MaxModels, agents : 0..MaxAgents]
          /\ DOMAIN models \subseteq 1..made.models
          /\ \A m \in DOMAIN models : models[m] \in Ai!ModelRow
          /\ DOMAIN agents \subseteq 1..made.agents
          /\ \A a \in DOMAIN agents : agents[a] \in Ai!AgentRow /\ agents[a].model \in Ai!Bindable

AiCounters == /\ reseed \in 0..Len(SeedModels)
              /\ budget \in [edits : Nat, faults : Nat, restarts : Nat]

\* A start has seeded what comes before the next on its list and nothing
\* else; a seeded model is of its provider and a seeded agent of its type.
AiStart ==
  /\ start \in Ai!Starts
  /\ start.at = "model" => /\ start.next \in 1..Len(SeedModels)
                           /\ \A m \in DOMAIN models : models[m].seeded # Ai!None =>
                                \E i \in 1..(start.next - 1) : models[m].seeded = SeedModels[i]
  /\ start.at = "agent" => /\ start.next \in 1..Len(SeedAgents)
                           /\ \A a \in DOMAIN agents : \E i \in 1..(start.next - 1) :
                                agents[a].seeded = SeedAgents[i]
  /\ start.at = "ensure" => start.next \in 1..Len(Ensured)
  /\ \A m \in DOMAIN models : models[m].seeded # Ai!None => models[m].place \in QwenPlaces
  /\ \A a \in DOMAIN agents : agents[a].seeded # "no" => agents[a].seeded = agents[a].type
  /\ Ai!SeededOnce

\* What stayed usable is still to be tried, or has been.
Ahead(b, s) ==
  /\ b.at = "model" /\ ~b.failed => s.agents \subseteq b.left
  /\ b.at = "call" /\ (\E i \in DOMAIN Ensured : Ensured[i] = b.type) /\ ~b.failed =>
       s.models \subseteq b.tried \cup {b.model} \cup {r.id : r \in b.reserve}
  /\ b.at = "skipped" /\ ~b.failed => s.agents = {}
  /\ b.at = "exhausted" /\ (\E i \in DOMAIN Ensured : Ensured[i] = b.type) /\ ~b.failed =>
       s.models \subseteq b.tried

AiSearch == batch \in Ai!Batches /\ Ahead(batch, steady)

AiInv == AiRows /\ AiCounters /\ AiStart /\ AiSearch

LEMMA SeedsAreNamed ==
  /\ \A i \in 1..Len(SeedModels) : SeedModels[i] \in QwenPlaces /\ SeedModels[i] # 0
  /\ QwenPlaces \subseteq Places
  /\ \A i, j \in 1..Len(SeedModels) : SeedModels[i] = SeedModels[j] => i = j
  /\ \A i \in 1..Len(SeedAgents) : SeedAgents[i] \in Ai!Types
  /\ \A i, j \in 1..Len(SeedAgents) : SeedAgents[i] = SeedAgents[j] => i = j
  /\ \A i \in 1..Len(Ensured) : Ensured[i] \in Ai!Types
  /\ Len(SeedModels) \in Nat \ {0} /\ Len(SeedAgents) \in Nat \ {0} /\ Len(Ensured) \in Nat \ {0}
  /\ "no" \notin Ai!Types /\ 0 \notin Places
<1>1. Len(SeedModels) \in Nat \ {0} /\ DOMAIN SeedModels = 1..Len(SeedModels)
      /\ \A i \in 1..Len(SeedModels) : SeedModels[i] \in QwenPlaces
      /\ QwenPlaces \subseteq Places
  BY AssistantsAssumption
<1>2. Len(SeedAgents) \in Nat \ {0} /\ DOMAIN SeedAgents = 1..Len(SeedAgents)
  BY AssistantsAssumption
<1>3. Len(Ensured) \in Nat \ {0} /\ DOMAIN Ensured = 1..Len(Ensured)
  BY AssistantsAssumption
<1>4. "no" \notin Ai!Types /\ 0 \notin Places
  BY AssistantsAssumption
<1>5. /\ \A i, j \in 1..Len(SeedModels) : SeedModels[i] = SeedModels[j] => i = j
      /\ \A i, j \in 1..Len(SeedAgents) : SeedAgents[i] = SeedAgents[j] => i = j
  BY <1>1, <1>2, AssistantsAssumption
<1>6. (\A i \in 1..Len(SeedAgents) : SeedAgents[i] \in Ai!Types) /\ (\A i \in 1..Len(Ensured) : Ensured[i] \in Ai!Types)
  BY <1>2, <1>3 DEF Ai!Types
<1>7. QED
  BY <1>1, <1>2, <1>3, <1>4, <1>5, <1>6

LEMMA Spent ==
  ASSUME AiCounters, NEW what \in {"edits", "faults", "restarts"}, Ai!Spend(what)
  PROVE  budget' \in [edits : Nat, faults : Nat, restarts : Nat]
BY DEF AiCounters, Ai!Spend

LEMMA CounterSteps == ASSUME AiCounters, Ai!Action PROVE AiCounters'
<1>1. reseed' \in 0..Len(SeedModels)
  <2>1. Len(SeedModels) \in Nat
    BY SeedsAreNamed
  <2>2. CASE Ai!SeedQwenAnew
    BY <2>1, <2>2 DEF AiCounters, Ai!SeedQwenAnew
  <2>3. CASE Ai!PressSeedQwen \/ Ai!ServiceStops
    BY <2>1, <2>3 DEF Ai!PressSeedQwen, Ai!ServiceStops
  <2>4. CASE reseed' = reseed
    BY <2>4 DEF AiCounters
  <2>5. QED
    BY <2>2, <2>3, <2>4
       DEF Ai!Action, Ai!StartService, Ai!CountModelsByProvider, Ai!SeedQwenModel, Ai!CheckAgents,
           Ai!SeedDefaultAgent, Ai!EnsureAnnotatorAgent, Ai!SeedingFails, Ai!StartOnly,
           Ai!CreateModel, Ai!UpdateModel, Ai!DeleteModel, Ai!CreateAgent, Ai!UpdateAgent,
           Ai!DeleteAgent, Ai!BeginBatch, Ai!ReadAgents, Ai!GetModel, Ai!ReadReserve,
           Ai!LookupFails, Ai!ChatWithAgent, Ai!EndBatch, Ai!Calling
<1>2. budget' \in [edits : Nat, faults : Nat, restarts : Nat]
  <2>1. CASE budget' = budget
    BY <2>1 DEF AiCounters
  <2>2. CASE \E what \in {"edits", "faults", "restarts"} : Ai!Spend(what)
    BY <2>2, Spent
  <2>3. QED
    BY <2>1, <2>2
       DEF Ai!Action, Ai!StartService, Ai!CountModelsByProvider, Ai!SeedQwenModel, Ai!CheckAgents,
           Ai!SeedDefaultAgent, Ai!EnsureAnnotatorAgent, Ai!SeedingFails, Ai!ServiceStops,
           Ai!CreateModel, Ai!UpdateModel, Ai!DeleteModel, Ai!CreateAgent, Ai!UpdateAgent,
           Ai!DeleteAgent, Ai!PressSeedQwen, Ai!SeedQwenAnew, Ai!BeginBatch, Ai!ReadAgents,
           Ai!GetModel, Ai!ReadReserve, Ai!LookupFails, Ai!ChatWithAgent, Ai!EndBatch, Ai!Kept
<1>3. QED
  BY <1>1, <1>2 DEF AiCounters

LEMMA ModelAdded ==
  ASSUME AiRows, NEW r \in Ai!ModelRow, Ai!AddModel(r), agents' = agents
  PROVE  /\ AiRows' /\ made.models + 1 \notin DOMAIN models
         /\ DOMAIN models' = DOMAIN models \cup {made.models + 1}
         /\ models'[made.models + 1] = r
         /\ \A m \in DOMAIN models : models'[m] = models[m]
<1> DEFINE n == made.models + 1
<1>1. made.models \in 0..MaxModels /\ MaxModels \in Nat /\ n \in Nat
  BY AssistantsAssumption DEF AiRows
<1>2. n \notin DOMAIN models
  BY <1>1 DEF AiRows
<1>3. models' = [i \in DOMAIN models \cup {n} |-> IF i = n THEN r ELSE models[i]]
  BY DEF Ai!AddModel, Ai!WithRow
<1>4. made' \in [models : 0..MaxModels, agents : 0..MaxAgents] /\ made'.models = n /\ made'.agents = made.agents
  BY <1>1 DEF Ai!AddModel, AiRows
<1>5. DOMAIN models \subseteq 1..n /\ n \in 1..n
  BY <1>1 DEF AiRows
<1> HIDE DEF n
<1>6. DOMAIN models' = DOMAIN models \cup {n} /\ models'[n] = r /\ \A m \in DOMAIN models : models'[m] = models[m]
  BY <1>2, <1>3
<1>7. DOMAIN models' \subseteq 1..made'.models
  BY <1>4, <1>5, <1>6
<1>8. \A m \in DOMAIN models' : models'[m] \in Ai!ModelRow
  BY <1>6 DEF AiRows
<1>9. \A a \in DOMAIN agents : agents[a] \in Ai!AgentRow /\ agents[a].model \in Ai!Bindable'
  BY <1>6 DEF AiRows, Ai!Bindable
<1>10. AiRows'
  BY <1>4, <1>7, <1>8, <1>9 DEF AiRows
<1>11. QED
  BY <1>2, <1>6, <1>10 DEF n

LEMMA AgentAdded ==
  ASSUME AiRows, NEW r \in Ai!AgentRow, r.model \in Ai!Bindable, Ai!AddAgent(r), models' = models
  PROVE  /\ AiRows' /\ made.agents + 1 \notin DOMAIN agents
         /\ DOMAIN agents' = DOMAIN agents \cup {made.agents + 1}
         /\ agents'[made.agents + 1] = r
         /\ \A a \in DOMAIN agents : agents'[a] = agents[a]
<1> DEFINE n == made.agents + 1
<1>1. made.agents \in 0..MaxAgents /\ MaxAgents \in Nat /\ n \in Nat
  BY AssistantsAssumption DEF AiRows
<1>2. n \notin DOMAIN agents
  BY <1>1 DEF AiRows
<1>3. agents' = [i \in DOMAIN agents \cup {n} |-> IF i = n THEN r ELSE agents[i]]
  BY DEF Ai!AddAgent, Ai!WithRow
<1>4. made' \in [models : 0..MaxModels, agents : 0..MaxAgents] /\ made'.agents = n /\ made'.models = made.models
  BY <1>1 DEF Ai!AddAgent, AiRows
<1>5. DOMAIN agents \subseteq 1..n /\ n \in 1..n
  BY <1>1 DEF AiRows
<1> HIDE DEF n
<1>6. DOMAIN agents' = DOMAIN agents \cup {n} /\ agents'[n] = r /\ \A a \in DOMAIN agents : agents'[a] = agents[a]
  BY <1>2, <1>3
<1>7. DOMAIN agents' \subseteq 1..made'.agents
  BY <1>4, <1>5, <1>6
<1>8. Ai!Bindable' = Ai!Bindable
  BY DEF Ai!Bindable
<1>9. \A a \in DOMAIN agents' : agents'[a] \in Ai!AgentRow /\ agents'[a].model \in Ai!Bindable'
  BY <1>6, <1>8 DEF AiRows
<1>10. AiRows'
  BY <1>4, <1>7, <1>9 DEF AiRows
<1>11. QED
  BY <1>2, <1>6, <1>10 DEF n

LEMMA RowsKept ==
  ASSUME AiRows, UNCHANGED <<models, agents, made>> PROVE AiRows'
BY DEF AiRows, Ai!Bindable

\* A row of the form with the mark of the row it replaces.
LEMMA Remarked ==
  ASSUME NEW f \in Ai!ModelForms, NEW was \in Ai!ModelRow
  PROVE  /\ [f EXCEPT !.seeded = was.seeded] \in Ai!ModelRow
         /\ [f EXCEPT !.seeded = was.seeded].seeded = was.seeded
         /\ [f EXCEPT !.seeded = was.seeded].place = f.place
         /\ f \in Ai!ModelRow /\ f.seeded = Ai!None
BY DEF Ai!ModelForms, Ai!ModelRow

LEMMA BindableIsNumber == ASSUME AiRows PROVE Ai!Bindable \subseteq 0..MaxModels
<1>1. made.models \in 0..MaxModels /\ MaxModels \in Nat /\ DOMAIN models \subseteq 1..made.models
  BY AssistantsAssumption DEF AiRows
<1>2. QED
  BY <1>1 DEF Ai!Bindable, Ai!None

LEMMA FormsAreRows ==
  ASSUME AiRows, NEW t \in Ai!Types, NEW f \in Ai!AgentForms(t, Ai!Bindable)
  PROVE  f \in Ai!AgentRow /\ f.model \in Ai!Bindable /\ f.seeded = "no" /\ f.type = t
BY BindableIsNumber DEF Ai!AgentForms, Ai!AgentRow

LEMMA AgentRemarked ==
  ASSUME AiRows, NEW t \in Ai!Types, NEW f \in Ai!AgentForms(t, Ai!Bindable), NEW was \in Ai!AgentRow
  PROVE  LET g == IF was.type = t THEN [f EXCEPT !.seeded = was.seeded] ELSE f
         IN  /\ g \in Ai!AgentRow /\ g.model \in Ai!Bindable /\ g.type = t
             /\ g.seeded = IF was.type = t THEN was.seeded ELSE "no"
<1>1. f \in Ai!AgentRow /\ f.model \in Ai!Bindable /\ f.seeded = "no" /\ f.type = t
  BY FormsAreRows
<1>2. CASE was.type = t
  <2> DEFINE g == [f EXCEPT !.seeded = was.seeded]
  <2>1. was.seeded \in Ai!Types \cup {"no"}
    BY DEF Ai!AgentRow
  <2>2. g \in Ai!AgentRow /\ g.model = f.model /\ g.type = f.type /\ g.seeded = was.seeded
    BY <1>1, <2>1 DEF Ai!AgentRow
  <2>3. QED
    BY <1>1, <1>2, <2>2
<1>3. CASE was.type # t
  BY <1>1, <1>3
<1>4. QED
  BY <1>2, <1>3

LEMMA CreateModelSteps ==
  ASSUME AiRows, Ai!CreateModel PROVE AiRows' /\ (AiStart => AiStart')
<1>1. PICK f \in Ai!ModelForms : Ai!AddModel(f)
  BY DEF Ai!CreateModel
<1>2. f \in Ai!ModelRow /\ f.seeded = Ai!None
  BY <1>1 DEF Ai!ModelForms, Ai!ModelRow
<1>3. agents' = agents /\ start' = start /\ start.at = "up"
  BY DEF Ai!CreateModel, Ai!Editing, Ai!At
<1> DEFINE n == made.models + 1
<1>4. /\ AiRows' /\ n \notin DOMAIN models /\ DOMAIN models' = DOMAIN models \cup {n}
      /\ models'[n] = f /\ \A m \in DOMAIN models : models'[m] = models[m]
  BY <1>1, <1>2, <1>3, ModelAdded
<1> HIDE DEF n
<1>5. AiStart => AiStart'
  BY <1>2, <1>3, <1>4 DEF AiStart, Ai!SeededOnce
<1>6. QED
  BY <1>4, <1>5

LEMMA SeedAnewSteps ==
  ASSUME AiRows, AiCounters, Ai!SeedQwenAnew PROVE AiRows' /\ (AiStart => AiStart')
<1>1. agents' = agents /\ start' = start /\ start.at = "up"
  BY DEF Ai!SeedQwenAnew, Ai!Editing, Ai!At
<1> DEFINE p == SeedModels[Len(SeedModels) + 1 - reseed]
           f == [place |-> p, enabled |-> TRUE, seeded |-> Ai!None]
<1>2. CASE Ai!AddModel(f)
  <2>1. Len(SeedModels) + 1 - reseed \in 1..Len(SeedModels)
    BY SeedsAreNamed DEF AiCounters, Ai!SeedQwenAnew
  <2>2. p \in Places
    BY <2>1, SeedsAreNamed
  <2> HIDE DEF p
  <2>3. f \in Ai!ModelRow /\ f.seeded = Ai!None
    BY <2>2 DEF Ai!ModelRow
  <2> DEFINE n == made.models + 1
  <2> HIDE DEF f
  <2>4. /\ AiRows' /\ n \notin DOMAIN models /\ DOMAIN models' = DOMAIN models \cup {n}
        /\ models'[n] = f /\ \A m \in DOMAIN models : models'[m] = models[m]
    BY <1>1, <1>2, <2>3, ModelAdded
  <2> HIDE DEF n
  <2>5. AiStart => AiStart'
    BY <1>1, <2>3, <2>4 DEF AiStart, Ai!SeededOnce
  <2>6. QED
    BY <2>4, <2>5
<1>3. CASE UNCHANGED <<models, made>>
  BY <1>1, <1>3, RowsKept DEF AiStart, Ai!SeededOnce
<1>4. QED
  BY <1>2, <1>3 DEF Ai!SeedQwenAnew

LEMMA UpdateModelSteps ==
  ASSUME AiRows, NEW m \in DOMAIN models, Ai!UpdateModel(m) PROVE AiRows' /\ (AiStart => AiStart')
<1>1. PICK f \in Ai!ModelForms : models' = [models EXCEPT ![m] =
        IF f.place \in QwenPlaces THEN [f EXCEPT !.seeded = models[m].seeded] ELSE f]
  BY DEF Ai!UpdateModel
<1>2. agents' = agents /\ start' = start /\ start.at = "up" /\ made' = made
  BY DEF Ai!UpdateModel, Ai!Editing, Ai!At
<1> DEFINE g == IF f.place \in QwenPlaces THEN [f EXCEPT !.seeded = models[m].seeded] ELSE f
<1>3. /\ g \in Ai!ModelRow
      /\ g.seeded # Ai!None => g.seeded = models[m].seeded /\ g.place \in QwenPlaces
  BY Remarked DEF AiRows
<1> HIDE DEF g
<1>4. /\ DOMAIN models' = DOMAIN models /\ models'[m] = g
      /\ \A n \in DOMAIN models : n # m => models'[n] = models[n]
  BY <1>1 DEF AiRows, g
<1>5. AiRows'
  BY <1>2, <1>3, <1>4 DEF AiRows, Ai!Bindable
<1>6. \A n \in DOMAIN models : models'[n].seeded # Ai!None =>
        models'[n].seeded = models[n].seeded /\ (n = m => models'[n].place \in QwenPlaces)
  BY <1>3, <1>4
<1>7. AiStart => AiStart'
  BY <1>2, <1>4, <1>6 DEF AiStart, Ai!SeededOnce
<1>8. QED
  BY <1>5, <1>7

LEMMA DeleteModelSteps ==
  ASSUME AiRows, NEW m \in DOMAIN models, Ai!DeleteModel(m) PROVE AiRows' /\ (AiStart => AiStart')
<1>1. start' = start /\ start.at = "up" /\ made' = made
  BY DEF Ai!DeleteModel, Ai!Editing, Ai!At
<1>2. DOMAIN models' = DOMAIN models \ {m} /\ \A n \in DOMAIN models' : models'[n] = models[n]
  BY DEF Ai!DeleteModel
<1>3. DOMAIN agents' = DOMAIN agents
  BY DEF Ai!DeleteModel
<1>4. ASSUME NEW a \in DOMAIN agents
      PROVE  /\ agents'[a] \in Ai!AgentRow /\ agents'[a].model \in Ai!Bindable'
             /\ agents'[a].seeded = agents[a].seeded /\ agents'[a].type = agents[a].type
  <2> DEFINE g == [agents[a] EXCEPT !.model = Ai!None]
  <2>1. agents'[a] = IF agents[a].model = m THEN g ELSE agents[a]
    BY DEF Ai!DeleteModel
  <2>2. agents[a] \in Ai!AgentRow /\ agents[a].model \in Ai!Bindable
    BY DEF AiRows
  <2>3. 0 \in 0..MaxModels
    BY AssistantsAssumption
  <2>4. g \in Ai!AgentRow /\ g.model = Ai!None /\ g.seeded = agents[a].seeded /\ g.type = agents[a].type
    BY <2>2, <2>3 DEF Ai!AgentRow, Ai!None
  <2> HIDE DEF g
  <2>5. QED
    BY <1>2, <2>1, <2>2, <2>4 DEF Ai!Bindable
<1>5. AiRows'
  BY <1>1, <1>2, <1>3, <1>4 DEF AiRows
<1>6. AiStart => AiStart'
  BY <1>1, <1>2, <1>3, <1>4 DEF AiStart, Ai!SeededOnce
<1>7. QED
  BY <1>5, <1>6

LEMMA CreateAgentSteps ==
  ASSUME AiRows, NEW t \in Ai!Types, Ai!CreateAgent(t) PROVE AiRows' /\ (AiStart => AiStart')
<1>1. PICK f \in Ai!AgentForms(t, Ai!Bindable) : Ai!AddAgent(f)
  BY DEF Ai!CreateAgent
<1>2. f \in Ai!AgentRow /\ f.model \in Ai!Bindable /\ f.seeded = "no"
  BY <1>1, FormsAreRows
<1>3. models' = models /\ start' = start /\ start.at = "up"
  BY DEF Ai!CreateAgent, Ai!Editing, Ai!At
<1> DEFINE n == made.agents + 1
<1>4. /\ AiRows' /\ n \notin DOMAIN agents /\ DOMAIN agents' = DOMAIN agents \cup {n}
      /\ agents'[n] = f /\ \A a \in DOMAIN agents : agents'[a] = agents[a]
  BY <1>1, <1>2, <1>3, AgentAdded
<1> HIDE DEF n
<1>5. AiStart => AiStart'
  BY <1>2, <1>3, <1>4 DEF AiStart, Ai!SeededOnce
<1>6. QED
  BY <1>4, <1>5

LEMMA UpdateAgentSteps ==
  ASSUME AiRows, NEW a \in DOMAIN agents, Ai!UpdateAgent(a) PROVE AiRows' /\ (AiStart => AiStart')
<1>0. PICK t \in Ai!Types : \E f \in Ai!AgentForms(t, Ai!Bindable) :
        agents' = [agents EXCEPT ![a] = IF @.type = t THEN [f EXCEPT !.seeded = agents[a].seeded] ELSE f]
  BY DEF Ai!UpdateAgent
<1>1. PICK f \in Ai!AgentForms(t, Ai!Bindable) :
        agents' = [agents EXCEPT ![a] = IF @.type = t THEN [f EXCEPT !.seeded = agents[a].seeded] ELSE f]
  BY <1>0
<1>2. models' = models /\ start' = start /\ start.at = "up" /\ made' = made
  BY DEF Ai!UpdateAgent, Ai!Editing, Ai!At
<1> DEFINE g == IF agents[a].type = t THEN [f EXCEPT !.seeded = agents[a].seeded] ELSE f
<1>3. agents[a] \in Ai!AgentRow
  BY DEF AiRows
<1>4. /\ g \in Ai!AgentRow /\ g.model \in Ai!Bindable /\ g.type = t
      /\ g.seeded = IF agents[a].type = t THEN agents[a].seeded ELSE "no"
  BY <1>3, AgentRemarked
<1>5. agents' = [agents EXCEPT ![a] = g]
  BY <1>1
<1> HIDE DEF g
<1>6. /\ DOMAIN agents' = DOMAIN agents /\ agents'[a] = g
      /\ \A b \in DOMAIN agents : b # a => agents'[b] = agents[b]
  BY <1>5
<1>7. AiRows'
  BY <1>2, <1>4, <1>6 DEF AiRows, Ai!Bindable
<1>8. AiStart => AiStart'
  BY <1>2, <1>4, <1>6 DEF AiStart, Ai!SeededOnce
<1>9. QED
  BY <1>7, <1>8

LEMMA DeleteAgentSteps ==
  ASSUME AiRows, NEW a \in DOMAIN agents, Ai!DeleteAgent(a) PROVE AiRows' /\ (AiStart => AiStart')
<1>1. models' = models /\ start' = start /\ start.at = "up" /\ made' = made
  BY DEF Ai!DeleteAgent, Ai!Editing, Ai!At
<1>2. DOMAIN agents' = DOMAIN agents \ {a} /\ \A b \in DOMAIN agents' : agents'[b] = agents[b]
  BY DEF Ai!DeleteAgent
<1>3. QED
  BY <1>1, <1>2 DEF AiRows, Ai!Bindable, AiStart, Ai!SeededOnce

\* A start goes to the head of a list, or on along it.
LEMMA GoesTo ==
  ASSUME NEW pc \in {"off", "count", "model", "agents", "agent", "ensure", "up"}, Ai!GoTo(pc)
  PROVE  start' \in Ai!Starts /\ start'.at = pc /\ start'.next = 1
BY DEF Ai!GoTo, Ai!Starts

LEMMA GoesOn ==
  ASSUME start \in Ai!Starts, NEW list, Len(list) \in Nat, start.next \in 1..Len(list),
         NEW after \in {"agents", "ensure", "up"}, Ai!NextOf(list, after)
  PROVE  /\ start' \in Ai!Starts
         /\ \/ start'.at = start.at /\ start'.next = start.next + 1 /\ start.next < Len(list)
            \/ start'.at = after /\ start'.next = 1
<1>1. CASE start.next < Len(list)
  BY <1>1 DEF Ai!NextOf, Ai!Starts
<1>2. CASE ~ (start.next < Len(list))
  BY <1>2, GoesTo DEF Ai!NextOf
<1>3. QED
  BY <1>1, <1>2

\* Where nothing is seeded, a step of the start only goes to another list.
LEMMA OnlyGoes ==
  ASSUME AiRows, AiStart, UNCHANGED <<models, agents, made>>, start' \in Ai!Starts,
         \/ start'.at \in {"off", "count", "agents", "up"}
         \/ start'.at = "model" /\ start'.next = 1 /\ \A m \in DOMAIN models : models[m].seeded = Ai!None
         \/ start'.at = "agent" /\ start'.next = 1 /\ DOMAIN agents = {}
         \/ start'.at = "ensure" /\ start'.next \in 1..Len(Ensured)
  PROVE  AiRows' /\ AiStart'
<1>1. 1 \in 1..Len(SeedModels) /\ 1 \in 1..Len(SeedAgents)
  BY SeedsAreNamed
<1>2. AiRows'
  BY RowsKept
<1>3. QED
  BY <1>1, <1>2 DEF AiStart, Ai!SeededOnce

LEMMA SeedModelSteps == ASSUME AiRows, AiStart, Ai!SeedQwenModel PROVE AiRows' /\ AiStart'
<1> DEFINE p == SeedModels[start.next]
           f == [place |-> p, enabled |-> TRUE, seeded |-> p]
<1>1. /\ start.at = "model" /\ start \in Ai!Starts /\ start.next \in 1..Len(SeedModels)
      /\ Ai!AddModel(f) /\ agents' = agents
  BY DEF Ai!SeedQwenModel, Ai!At, AiStart
<1>2. p \in Places /\ p \in QwenPlaces /\ p # 0
  BY <1>1, SeedsAreNamed
<1>3. f \in Ai!ModelRow /\ f.seeded = p /\ f.place = p
  BY <1>2 DEF Ai!ModelRow
<1> DEFINE n == made.models + 1
<1> HIDE DEF f
<1>4. /\ AiRows' /\ n \notin DOMAIN models /\ DOMAIN models' = DOMAIN models \cup {n}
      /\ models'[n] = f /\ \A m \in DOMAIN models : models'[m] = models[m]
  BY <1>1, <1>3, ModelAdded
<1> HIDE DEF n
<1>5. /\ start' \in Ai!Starts
      /\ \/ start'.at = "model" /\ start'.next = start.next + 1 /\ start.next < Len(SeedModels)
         \/ start'.at = "agents" /\ start'.next = 1
  BY <1>1, GoesOn, SeedsAreNamed DEF Ai!SeedQwenModel
<1>6. \A m \in DOMAIN models : models[m].seeded # Ai!None => \E i \in 1..(start.next - 1) : models[m].seeded = SeedModels[i]
  BY <1>1 DEF AiStart
<1>7. \A m \in DOMAIN models : models[m].seeded # p
  <2>1. ASSUME NEW i \in 1..(start.next - 1) PROVE SeedModels[i] # p
    BY <1>1, <2>1, SeedsAreNamed
  <2>2. QED
    BY <1>2, <1>6, <2>1 DEF Ai!None
<1>8. Ai!SeededOnce'
  BY <1>1, <1>3, <1>4, <1>7 DEF AiStart, Ai!SeededOnce
<1>9. ASSUME start'.at = "model"
      PROVE  /\ start'.next \in 1..Len(SeedModels)
             /\ \A m \in DOMAIN models' : models'[m].seeded # Ai!None =>
                  \E i \in 1..(start'.next - 1) : models'[m].seeded = SeedModels[i]
  <2>1. start'.next = start.next + 1 /\ start.next < Len(SeedModels)
    BY <1>5, <1>9
  <2>2. /\ start'.next \in 1..Len(SeedModels) /\ start.next \in 1..(start'.next - 1)
        /\ \A i \in 1..(start.next - 1) : i \in 1..(start'.next - 1)
    BY <1>1, <2>1, SeedsAreNamed
  <2>3. \A m \in DOMAIN models : models'[m].seeded # Ai!None => \E i \in 1..(start'.next - 1) : models'[m].seeded = SeedModels[i]
    BY <1>4, <1>6, <2>2
  <2>4. QED
    BY <1>3, <1>4, <2>2, <2>3
<1>10. AiStart'
  BY <1>1, <1>2, <1>3, <1>4, <1>5, <1>8, <1>9 DEF AiStart
<1>11. QED
  BY <1>4, <1>10

LEMMA SeedAgentSteps == ASSUME AiRows, AiStart, Ai!SeedDefaultAgent PROVE AiRows' /\ AiStart'
<1> DEFINE t == SeedAgents[start.next]
<1>1. PICK first \in Ai!Heads(Ai!ListModels) :
        Ai!AddAgent([type |-> t, model |-> first.id, enabled |-> TRUE, seeded |-> t])
  BY DEF Ai!SeedDefaultAgent
<1> DEFINE f == [type |-> t, model |-> first.id, enabled |-> TRUE, seeded |-> t]
<1>2. /\ start.at = "agent" /\ start \in Ai!Starts /\ start.next \in 1..Len(SeedAgents)
      /\ models' = models
  BY DEF Ai!SeedDefaultAgent, Ai!At, AiStart
<1>3. t \in Ai!Types /\ t # "no"
  BY <1>2, SeedsAreNamed
<1>4. first.id \in DOMAIN models
  BY DEF Ai!Heads, Ai!ListModels, Ai!AsRead
<1>5. first.id \in Ai!Bindable /\ first.id \in 0..MaxModels
  BY <1>4, BindableIsNumber DEF Ai!Bindable
<1>6. f \in Ai!AgentRow /\ f.seeded = t /\ f.type = t /\ f.model \in Ai!Bindable
  BY <1>3, <1>5 DEF Ai!AgentRow
<1> DEFINE n == made.agents + 1
<1> HIDE DEF f
<1>7. /\ AiRows' /\ n \notin DOMAIN agents /\ DOMAIN agents' = DOMAIN agents \cup {n}
      /\ agents'[n] = f /\ \A a \in DOMAIN agents : agents'[a] = agents[a]
  BY <1>1, <1>2, <1>6, AgentAdded DEF f
<1> HIDE DEF n
<1>8. /\ start' \in Ai!Starts
      /\ \/ start'.at = "agent" /\ start'.next = start.next + 1 /\ start.next < Len(SeedAgents)
         \/ start'.at = "ensure" /\ start'.next = 1
  BY <1>2, GoesOn, SeedsAreNamed DEF Ai!SeedDefaultAgent
<1>9. \A a \in DOMAIN agents : \E i \in 1..(start.next - 1) : agents[a].seeded = SeedAgents[i]
  BY <1>2 DEF AiStart
<1>10. \A a \in DOMAIN agents : agents[a].seeded # t
  <2>1. ASSUME NEW i \in 1..(start.next - 1) PROVE SeedAgents[i] # t
    BY <1>2, <2>1, SeedsAreNamed
  <2>2. QED
    BY <1>9, <2>1
<1> HIDE DEF t
<1>11. Ai!SeededOnce'
  BY <1>2, <1>6, <1>7, <1>10 DEF AiStart, Ai!SeededOnce
<1>12. ASSUME start'.at = "agent"
       PROVE  /\ start'.next \in 1..Len(SeedAgents)
              /\ \A a \in DOMAIN agents' : \E i \in 1..(start'.next - 1) : agents'[a].seeded = SeedAgents[i]
  <2>1. start'.next = start.next + 1 /\ start.next < Len(SeedAgents)
    BY <1>8, <1>12
  <2>2. /\ start'.next \in 1..Len(SeedAgents) /\ start.next \in 1..(start'.next - 1)
        /\ \A i \in 1..(start.next - 1) : i \in 1..(start'.next - 1)
    BY <1>2, <2>1, SeedsAreNamed
  <2>3. \A a \in DOMAIN agents : \E i \in 1..(start'.next - 1) : agents'[a].seeded = SeedAgents[i]
    BY <1>7, <1>9, <2>2
  <2>4. QED
    BY <1>6, <1>7, <2>2, <2>3 DEF t
<1>13. \A a \in DOMAIN agents' : agents'[a].seeded # "no" => agents'[a].seeded = agents'[a].type
  BY <1>6, <1>7 DEF AiStart
<1>14. start'.at = "ensure" => start'.next \in 1..Len(Ensured)
  BY <1>8, SeedsAreNamed
<1>15. AiStart'
  BY <1>2, <1>8, <1>11, <1>12, <1>13, <1>14 DEF AiStart
<1>16. QED
  BY <1>7, <1>15

LEMMA EnsureSteps == ASSUME AiRows, AiStart, Ai!EnsureAnnotatorAgent PROVE AiRows' /\ AiStart'
<1> DEFINE t == Ensured[start.next]
<1>1. /\ start.at = "ensure" /\ start \in Ai!Starts /\ start.next \in 1..Len(Ensured)
      /\ models' = models
  BY DEF Ai!EnsureAnnotatorAgent, Ai!At, AiStart
<1>2. t \in Ai!Types /\ t # "no"
  BY <1>1, SeedsAreNamed
<1>3. /\ start' \in Ai!Starts
      /\ \/ start'.at = "ensure" /\ start'.next = start.next + 1 /\ start.next < Len(Ensured)
         \/ start'.at = "up" /\ start'.next = 1
  BY <1>1, GoesOn, SeedsAreNamed DEF Ai!EnsureAnnotatorAgent
<1>4. start'.at = "up" \/ (start'.at = "ensure" /\ start'.next \in 1..Len(Ensured))
  BY <1>1, <1>3, SeedsAreNamed
<1>5. CASE UNCHANGED <<agents, made>>
  BY <1>1, <1>3, <1>4, <1>5, OnlyGoes
<1>6. ASSUME NEW m \in Ai!FirstModels \cup {Ai!None}, ~ (\E a \in DOMAIN agents : agents[a].type = t),
             Ai!AddAgent([type |-> t, model |-> m, seeded |-> t, enabled |-> m # Ai!None /\ models[m].enabled])
      PROVE  AiRows' /\ AiStart'
  <2> DEFINE on == m # Ai!None /\ models[m].enabled
             f  == [type |-> t, model |-> m, seeded |-> t, enabled |-> on]
  <2>1. m \in Ai!Bindable
    BY DEF Ai!FirstModels, Ai!Heads, Ai!EnabledIn, Ai!ListModels, Ai!AsRead, Ai!Bindable
  <2>2. on \in BOOLEAN
    OBVIOUS
  <2> HIDE DEF t, on
  <2>3. f \in Ai!AgentRow /\ f.seeded = t /\ f.type = t /\ f.model \in Ai!Bindable
    BY <1>2, <2>1, <2>2, BindableIsNumber DEF Ai!AgentRow
  <2> DEFINE n == made.agents + 1
  <2>4. Ai!AddAgent(f)
    BY <1>6 DEF on
  <2> HIDE DEF f
  <2>5. /\ AiRows' /\ n \notin DOMAIN agents /\ DOMAIN agents' = DOMAIN agents \cup {n}
        /\ agents'[n] = f /\ \A a \in DOMAIN agents : agents'[a] = agents[a]
    BY <1>1, <2>3, <2>4, AgentAdded
  <2> HIDE DEF n
  <2>6. \A a \in DOMAIN agents : agents[a].seeded # t
    BY <1>2, <1>6 DEF AiStart
  <2>7. Ai!SeededOnce'
    BY <1>1, <2>3, <2>5, <2>6 DEF AiStart, Ai!SeededOnce
  <2>8. \A a \in DOMAIN agents' : agents'[a].seeded # "no" => agents'[a].seeded = agents'[a].type
    BY <2>3, <2>5 DEF AiStart
  <2>9. AiStart'
    BY <1>1, <1>3, <1>4, <2>7, <2>8 DEF AiStart
  <2>10. QED
    BY <2>5, <2>9
<1>7. QED
  BY <1>5, <1>6 DEF Ai!EnsureAnnotatorAgent

LEMMA GoingSteps ==
  ASSUME AiRows, AiStart,
         Ai!StartService \/ Ai!CountModelsByProvider \/ Ai!CheckAgents \/ Ai!SeedingFails \/ Ai!ServiceStops
  PROVE  AiRows' /\ AiStart'
<1>1. 1 \in 1..Len(Ensured)
  BY SeedsAreNamed
<1>2. UNCHANGED <<models, agents, made>>
  BY DEF Ai!StartService, Ai!CountModelsByProvider, Ai!CheckAgents, Ai!SeedingFails, Ai!ServiceStops
<1>3. CASE Ai!StartService
  BY <1>1, <1>2, <1>3, GoesTo, OnlyGoes DEF Ai!StartService
<1>4. CASE Ai!CountModelsByProvider
  <2>1. CASE Ai!GoTo("agents")
    BY <1>1, <1>2, <2>1, GoesTo, OnlyGoes
  <2>2. CASE Ai!GoTo("model") /\ \A m \in DOMAIN models : models[m].place \notin QwenPlaces
    <3>1. \A m \in DOMAIN models : models[m].seeded = Ai!None
      BY <2>2 DEF AiStart
    <3>2. QED
      BY <1>1, <1>2, <2>2, <3>1, GoesTo, OnlyGoes
  <2>3. QED
    BY <1>4, <2>1, <2>2 DEF Ai!CountModelsByProvider
<1>5. CASE Ai!CheckAgents
  BY <1>1, <1>2, <1>5, GoesTo, OnlyGoes DEF Ai!CheckAgents
<1>6. CASE Ai!SeedingFails
  <2>1. CASE Ai!GoTo("agents") \/ Ai!GoTo("ensure")
    BY <1>1, <1>2, <2>1, GoesTo, OnlyGoes
  <2>2. CASE start.at = "ensure" /\ Ai!NextOf(Ensured, "up")
    <3>1. start \in Ai!Starts /\ start.next \in 1..Len(Ensured)
      BY <2>2 DEF AiStart
    <3>2. /\ start' \in Ai!Starts
          /\ \/ start'.at = "ensure" /\ start'.next = start.next + 1 /\ start.next < Len(Ensured)
             \/ start'.at = "up" /\ start'.next = 1
      BY <2>2, <3>1, GoesOn, SeedsAreNamed
    <3>3. start'.at = "up" \/ (start'.at = "ensure" /\ start'.next \in 1..Len(Ensured))
      BY <3>1, <3>2, SeedsAreNamed
    <3>4. QED
      BY <1>2, <3>2, <3>3, OnlyGoes
  <2>3. QED
    BY <1>6, <2>1, <2>2 DEF Ai!SeedingFails, Ai!At
<1>7. CASE Ai!ServiceStops
  BY <1>2, <1>7, GoesTo, OnlyGoes DEF Ai!ServiceStops
<1>8. QED
  BY <1>3, <1>4, <1>5, <1>6, <1>7

\* What is read: the agents in question are numbered pairs, and all that can
\* be used are among them.
LEMMA ReadsAreTyped ==
  ASSUME AiRows
  PROVE  /\ Ai!Candidates \subseteq (1..MaxAgents) \X (1..MaxModels)
         /\ Ai!Pairs \subseteq Ai!Candidates
         /\ \A r \in Ai!ListModels : r \in Ai!Read
<1>1. /\ made.models \in 0..MaxModels /\ made.agents \in 0..MaxAgents
      /\ MaxModels \in Nat /\ MaxAgents \in Nat
  BY AssistantsAssumption DEF AiRows
<1>2. DOMAIN models \subseteq 1..MaxModels /\ DOMAIN agents \subseteq 1..MaxAgents
  BY <1>1 DEF AiRows
<1>3. \A a \in DOMAIN agents : agents[a].model # 0 => agents[a].model \in 1..MaxModels
  BY <1>2 DEF AiRows, Ai!Bindable, Ai!None
<1>4. Ai!Candidates \subseteq (1..MaxAgents) \X (1..MaxModels)
  BY <1>2, <1>3 DEF Ai!Candidates, Ai!None
<1>5. 0 \notin DOMAIN models
  BY <1>2
<1>6. Ai!Pairs \subseteq Ai!Candidates
  BY <1>5 DEF Ai!Pairs, Ai!Candidates, Ai!Usable, Ai!None
<1>7. \A r \in Ai!ListModels : r \in Ai!Read
  BY <1>2 DEF Ai!ListModels, Ai!AsRead, Ai!Read, AiRows, Ai!ModelRow
<1>8. QED
  BY <1>4, <1>6, <1>7

\* While a batch is left alone, what stayed usable only shrinks.
LEMMA Watched ==
  ASSUME Ai!Watch, batch'.at # "none", batch.at # "none"
  PROVE  IF Ai!Looking THEN /\ steady'.agents = steady.agents \cap Ai!Pairs'
                            /\ steady'.models = steady.models \cap {m \in DOMAIN models' : Ai!Usable(m)'}
         ELSE steady' = steady
BY DEF Ai!Watch, Ai!Now

LEMMA BatchKept ==
  ASSUME AiSearch, batch' = batch, Ai!Watch PROVE AiSearch'
<1>1. CASE batch.at = "none"
  BY <1>1 DEF AiSearch, Ahead
<1>2. CASE batch.at # "none"
  <2>1. steady'.agents \subseteq steady.agents /\ steady'.models \subseteq steady.models
    BY <1>2, Watched DEF Ai!Looking
  <2>2. QED
    BY <2>1 DEF AiSearch, Ahead
<1>3. QED
  BY <1>1, <1>2

LEMMA NoBatchIsGood == \A s : Ai!NoBatch \in Ai!Batches /\ Ahead(Ai!NoBatch, s)
<1>1. 0 \in 0..MaxModels
  BY AssistantsAssumption
<1>2. QED
  BY <1>1 DEF Ai!NoBatch, Ai!Batches, Ai!None, Ahead

\* The batch goes on to the agents that are left, or is skipped.
LEMMA Narrowed ==
  ASSUME AiSearch, NEW set \in SUBSET ((1..MaxAgents) \X (1..MaxModels))
  PROVE  LET b == Ai!NextCandidate(set)
         IN  /\ b \in Ai!Batches /\ b.left = set /\ b.failed = batch.failed
             /\ b.at = IF set = {} THEN "skipped" ELSE "model"
<1> DEFINE g  == [batch EXCEPT !.left = set]
           pc == IF set = {} THEN "skipped" ELSE "model"
           b  == [g EXCEPT !.at = pc]
<1>1. batch \in Ai!Batches
  BY DEF AiSearch
<1>2. g \in Ai!Batches /\ g.left = set /\ g.failed = batch.failed
  BY <1>1 DEF Ai!Batches
<1>3. Ai!NextCandidate(set) = b
  BY <1>1 DEF Ai!NextCandidate, Ai!Batches
<1>4. pc \in {"skipped", "model"}
  OBVIOUS
<1> HIDE DEF g, pc
<1>5. b \in Ai!Batches /\ b.left = set /\ b.failed = batch.failed /\ b.at = pc
  BY <1>2, <1>4 DEF Ai!Batches
<1>6. QED
  BY <1>3, <1>5 DEF pc

LEMMA NarrowedSafely ==
  ASSUME AiSearch, NEW set \in SUBSET ((1..MaxAgents) \X (1..MaxModels)),
         batch' = Ai!NextCandidate(set), batch.failed \/ steady'.agents \subseteq set
  PROVE  AiSearch'
<1>1. /\ batch' \in Ai!Batches /\ batch'.left = set /\ batch'.failed = batch.failed
      /\ batch'.at = IF set = {} THEN "skipped" ELSE "model"
  BY Narrowed
<1>2. QED
  BY <1>1 DEF AiSearch, Ahead

\* What has failed promises nothing more.
LEMMA FailedIsFree ==
  ASSUME AiSearch, NEW b \in Ai!Batches, batch' = [b EXCEPT !.failed = TRUE] PROVE AiSearch'
<1>1. batch' \in Ai!Batches /\ batch'.failed
  BY DEF Ai!Batches
<1>2. QED
  BY <1>1 DEF AiSearch, Ahead

LEMMA BeginSteps ==
  ASSUME NEW t \in Ai!Types, Ai!BeginBatch(t) PROVE AiSearch'
<1> DEFINE g == [Ai!NoBatch EXCEPT !.at = "agents"]
<1>1. g \in Ai!Batches /\ g.at = "agents"
  BY NoBatchIsGood DEF Ai!Batches
<1>2. batch' = [g EXCEPT !.type = t]
  BY DEF Ai!BeginBatch, Ai!NoBatch
<1> HIDE DEF g
<1>3. batch' \in Ai!Batches /\ batch'.at = "agents"
  BY <1>1, <1>2 DEF Ai!Batches
<1>4. QED
  BY <1>3 DEF AiSearch, Ahead

LEMMA ReadAgentsSteps ==
  ASSUME AiRows, AiSearch, Ai!ReadAgents, Ai!Watch PROVE AiSearch'
<1>1. batch.at = "agents" /\ batch' = Ai!NextCandidate(Ai!Candidates) /\ UNCHANGED <<models, agents>>
  BY DEF Ai!ReadAgents, Ai!Calling
<1>2. Ai!Candidates \in SUBSET ((1..MaxAgents) \X (1..MaxModels)) /\ Ai!Pairs \subseteq Ai!Candidates
  BY ReadsAreTyped
<1>3. batch'.at # "none" /\ batch'.type = batch.type
  BY <1>1 DEF Ai!NextCandidate, AiSearch, Ai!Batches
<1>4. Ai!Pairs' = Ai!Pairs
  BY <1>1, <1>3 DEF Ai!Pairs, Ai!Usable
<1>5. steady'.agents \subseteq Ai!Candidates
  BY <1>1, <1>2, <1>3, <1>4, Watched DEF Ai!Looking
<1>6. QED
  BY <1>1, <1>2, <1>5, NarrowedSafely

\* The model that is found is used; a bound one has its reserve to be read.
LEMMA FoundIsUsed ==
  ASSUME AiSearch, NEW m \in 1..MaxModels, batch' = Ai!With(m), ~Ai!FailsOver \/ batch'.at = "reserve"
  PROVE  AiSearch'
<1> DEFINE pc == IF Ai!FailsOver THEN "reserve" ELSE "call"
           g == [batch EXCEPT !.left = {}]
           h == [g EXCEPT !.model = m]
<1>1. batch \in Ai!Batches
  BY DEF AiSearch
<1>2. g \in Ai!Batches /\ g.type = batch.type
  BY <1>1 DEF Ai!Batches
<1>3. batch' = [h EXCEPT !.at = pc]
  BY <1>1 DEF Ai!With, Ai!Batches
<1> HIDE DEF g
<1>4. h \in Ai!Batches /\ h.type = batch.type
  BY <1>2 DEF Ai!Batches
<1>5. pc \in {"reserve", "call"} /\ (pc = "call" => ~Ai!FailsOver)
  OBVIOUS
<1> HIDE DEF h, pc
<1>6. batch' \in Ai!Batches /\ batch'.type = batch.type /\ batch'.at = pc
  BY <1>3, <1>4, <1>5 DEF Ai!Batches
<1>7. QED
  BY <1>5, <1>6 DEF AiSearch, Ahead, Ai!FailsOver

LEMMA GetModelSteps ==
  ASSUME AiRows, AiSearch, Ai!GetModel, Ai!Watch PROVE AiSearch'
<1>1. PICK c \in batch.left :
        batch' = IF Ai!Usable(c[2]) THEN Ai!With(c[2]) ELSE Ai!NextCandidate(batch.left \ {c})
  BY DEF Ai!GetModel
<1>2. batch.at = "model" /\ UNCHANGED <<models, agents>>
  BY DEF Ai!GetModel, Ai!Calling
<1>3. batch \in Ai!Batches /\ batch.left \in SUBSET ((1..MaxAgents) \X (1..MaxModels))
  BY DEF AiSearch, Ai!Batches
<1>4. c[2] \in 1..MaxModels
  BY <1>3
<1>5. CASE Ai!Usable(c[2])
  <2>1. batch' = Ai!With(c[2])
    BY <1>1, <1>5
  <2>2. batch'.at = IF Ai!FailsOver THEN "reserve" ELSE "call"
    BY <1>3, <2>1 DEF Ai!With, Ai!Batches
  <2>3. QED
    BY <1>4, <2>1, <2>2, FoundIsUsed
<1>6. CASE ~ Ai!Usable(c[2])
  <2>1. batch' = Ai!NextCandidate(batch.left \ {c})
    BY <1>1, <1>6
  <2>2. batch'.at # "none" /\ batch'.type = batch.type
    BY <1>3, <2>1 DEF Ai!NextCandidate, Ai!Batches
  <2>3. c \notin Ai!Pairs'
    <3>1. ASSUME NEW a, c = <<a, agents[a].model>> PROVE ~ Ai!Usable(agents[a].model)
      BY <1>6, <3>1
    <3>2. Ai!Pairs' = Ai!Pairs
      BY <1>2, <2>2 DEF Ai!Pairs, Ai!Usable
    <3>3. QED
      BY <3>1, <3>2 DEF Ai!Pairs
  <2>4. steady'.agents \subseteq steady.agents \ {c}
    BY <1>2, <2>2, <2>3, Watched DEF Ai!Looking
  <2>5. batch.failed \/ steady.agents \subseteq batch.left
    BY <1>2 DEF AiSearch, Ahead
  <2>6. batch.failed \/ steady'.agents \subseteq batch.left \ {c}
    BY <2>4, <2>5
  <2>7. QED
    BY <1>3, <2>1, <2>6, NarrowedSafely
<1>7. QED
  BY <1>5, <1>6

LEMMA ReadReserveSteps ==
  ASSUME AiRows, AiSearch, Ai!ReadReserve, Ai!Watch PROVE AiSearch'
<1> DEFINE set == {r \in Ai!EnabledIn(Ai!ListModels) : r.id # batch.model}
           g   == [batch EXCEPT !.at = "call"]
<1>1. /\ batch.at = "reserve" /\ batch \in Ai!Batches /\ UNCHANGED <<models, agents>>
      /\ batch' = [g EXCEPT !.reserve = set]
  BY DEF Ai!ReadReserve, Ai!Calling, AiSearch, Ai!Batches
<1>2. set \in SUBSET Ai!Read
  BY ReadsAreTyped DEF Ai!EnabledIn
<1>3. g \in Ai!Batches /\ g.at = "call" /\ g.model = batch.model
  BY <1>1 DEF Ai!Batches
<1>4. \A m \in DOMAIN models : Ai!Usable(m) => m = batch.model \/ m \in {r.id : r \in set}
  <2>1. ASSUME NEW m \in DOMAIN models, Ai!Usable(m), m # batch.model PROVE Ai!AsRead(m) \in set /\ Ai!AsRead(m).id = m
    BY <2>1 DEF Ai!EnabledIn, Ai!ListModels, Ai!AsRead, Ai!Usable
  <2>2. QED
    BY <2>1
<1> HIDE DEF set, g
<1>5. batch' \in Ai!Batches /\ batch'.at = "call" /\ batch'.reserve = set /\ batch'.model = batch.model
  BY <1>1, <1>2, <1>3 DEF Ai!Batches
<1>6. steady'.models \subseteq {m \in DOMAIN models' : Ai!Usable(m)'}
  BY <1>1, <1>5, Watched DEF Ai!Looking
<1>7. steady'.models \subseteq {batch'.model} \cup {r.id : r \in batch'.reserve}
  BY <1>1, <1>4, <1>5, <1>6 DEF Ai!Usable
<1>8. QED
  BY <1>5, <1>7 DEF AiSearch, Ahead

LEMMA LookupFailsSteps ==
  ASSUME AiSearch, Ai!LookupFails PROVE AiSearch'
<1>0. batch \in Ai!Batches
  BY DEF AiSearch
<1>1. ASSUME NEW pc \in {"skipped", "call"}, batch' = [batch EXCEPT !.at = pc, !.failed = TRUE] PROVE AiSearch'
  <2> DEFINE g == [batch EXCEPT !.at = pc]
  <2>1. g \in Ai!Batches
    BY <1>0 DEF Ai!Batches
  <2>2. batch' = [g EXCEPT !.failed = TRUE]
    BY <1>0, <1>1 DEF Ai!Batches
  <2> HIDE DEF g
  <2>3. QED
    BY <2>1, <2>2, FailedIsFree
<1>2. ASSUME NEW c \in batch.left, batch' = [Ai!NextCandidate(batch.left \ {c}) EXCEPT !.failed = TRUE]
      PROVE  AiSearch'
  <2>1. batch.left \ {c} \in SUBSET ((1..MaxAgents) \X (1..MaxModels))
    BY <1>0 DEF Ai!Batches
  <2>2. QED
    BY <1>2, <2>1, Narrowed, FailedIsFree
<1>3. QED
  BY <1>1, <1>2 DEF Ai!LookupFails

LEMMA ChatSteps ==
  ASSUME AiSearch, Ai!ChatWithAgent, Ai!Watch PROVE AiSearch'
<1> DEFINE tried == batch.tried \cup {batch.model}
           asked == [batch EXCEPT !.tried = tried]
<1>1. batch \in Ai!Batches /\ batch.at = "call"
  BY DEF Ai!ChatWithAgent, Ai!Calling, AiSearch
<1>2. tried \in SUBSET (0..MaxModels)
  BY <1>1 DEF Ai!Batches
<1> HIDE DEF tried
<1>3. /\ asked \in Ai!Batches /\ asked.tried = tried /\ asked.at = "call"
      /\ asked.type = batch.type /\ asked.failed = batch.failed
      /\ asked.model = batch.model /\ asked.reserve = batch.reserve
  BY <1>1, <1>2 DEF Ai!Batches
<1> HIDE DEF asked
<1>4. batch'.at # "none" => steady' = steady
  BY <1>1, Watched DEF Ai!Looking
<1>5. (\E i \in DOMAIN Ensured : Ensured[i] = batch.type) /\ ~batch.failed =>
        steady.models \subseteq tried \cup {r.id : r \in batch.reserve}
  BY <1>1 DEF AiSearch, Ahead, tried
<1>6. ASSUME NEW outcome \in {"answered", "unreadable"},
             batch' = [asked EXCEPT !.at = outcome, !.reserve = {}]
      PROVE  AiSearch'
  <2> DEFINE g == [asked EXCEPT !.at = outcome]
  <2>1. g \in Ai!Batches /\ g.at = outcome
    BY <1>3 DEF Ai!Batches
  <2>2. batch' = [g EXCEPT !.reserve = {}]
    BY <1>3, <1>6 DEF Ai!Batches
  <2> HIDE DEF g
  <2>3. batch' \in Ai!Batches /\ batch'.at = outcome
    BY <2>1, <2>2 DEF Ai!Batches
  <2>4. QED
    BY <2>3 DEF AiSearch, Ahead
<1>7. ASSUME batch.reserve = {}, batch' = [asked EXCEPT !.at = "exhausted"] PROVE AiSearch'
  <2>1. /\ batch' \in Ai!Batches /\ batch'.at = "exhausted" /\ batch'.tried = tried
        /\ batch'.type = batch.type /\ batch'.failed = batch.failed
    BY <1>3, <1>7 DEF Ai!Batches
  <2>2. QED
    BY <1>4, <1>5, <1>7, <2>1 DEF AiSearch, Ahead
<1>8. ASSUME NEW next \in Ai!Heads(batch.reserve),
             batch' = [asked EXCEPT !.model = next.id, !.reserve = @ \ {next}]
      PROVE  AiSearch'
  <2> DEFINE set == batch.reserve \ {next}
             g   == [asked EXCEPT !.model = next.id]
  <2>1. next \in batch.reserve /\ next.id \in 0..MaxModels /\ set \in SUBSET Ai!Read
    BY <1>1 DEF Ai!Heads, Ai!Batches, Ai!Read
  <2>2. /\ g \in Ai!Batches /\ g.at = "call" /\ g.model = next.id /\ g.tried = tried
        /\ g.type = batch.type /\ g.failed = batch.failed
    BY <1>3, <2>1 DEF Ai!Batches
  <2>3. batch' = [g EXCEPT !.reserve = set]
    BY <1>3, <1>8 DEF Ai!Batches
  <2>4. {r.id : r \in batch.reserve} \subseteq {next.id} \cup {r.id : r \in set}
    OBVIOUS
  <2> HIDE DEF g, set
  <2>5. /\ batch' \in Ai!Batches /\ batch'.at = "call" /\ batch'.model = next.id /\ batch'.tried = tried
        /\ batch'.type = batch.type /\ batch'.failed = batch.failed /\ batch'.reserve = set
    BY <2>1, <2>2, <2>3 DEF Ai!Batches
  <2>6. (\E i \in DOMAIN Ensured : Ensured[i] = batch.type) /\ ~batch.failed =>
          steady.models \subseteq tried \cup {next.id} \cup {r.id : r \in set}
    BY <1>5, <2>4
  <2>7. QED
    BY <1>4, <2>5, <2>6 DEF AiSearch, Ahead
<1>9. QED
  BY <1>3, <1>6, <1>7, <1>8 DEF Ai!ChatWithAgent, Ai!Outcomes, asked, tried

LEMMA SearchSteps ==
  ASSUME AiRows, AiSearch, Ai!Next PROVE AiSearch'
<1>1. Ai!Watch /\ Ai!Action
  BY DEF Ai!Next
<1>2. CASE batch' = batch
  BY <1>1, <1>2, BatchKept
<1>3. CASE batch' = Ai!NoBatch
  BY <1>3, NoBatchIsGood DEF AiSearch
<1>4. ASSUME NEW t \in Ai!Types, Ai!BeginBatch(t) PROVE AiSearch'
  BY <1>4, BeginSteps
<1>5. CASE Ai!ReadAgents \/ Ai!GetModel \/ Ai!ReadReserve \/ Ai!LookupFails \/ Ai!ChatWithAgent
  BY <1>1, <1>5, ReadAgentsSteps, GetModelSteps, ReadReserveSteps, LookupFailsSteps, ChatSteps
<1>6. QED
  BY <1>1, <1>2, <1>3, <1>4, <1>5
     DEF Ai!Action, Ai!StartService, Ai!CountModelsByProvider, Ai!SeedQwenModel, Ai!CheckAgents,
         Ai!SeedDefaultAgent, Ai!EnsureAnnotatorAgent, Ai!SeedingFails, Ai!ServiceStops, Ai!StartOnly,
         Ai!CreateModel, Ai!UpdateModel, Ai!DeleteModel, Ai!CreateAgent, Ai!UpdateAgent,
         Ai!DeleteAgent, Ai!PressSeedQwen, Ai!SeedQwenAnew, Ai!Editing, Ai!EndBatch

LEMMA TableSteps ==
  ASSUME AiRows, AiCounters, AiStart, Ai!Action PROVE AiRows' /\ AiStart'
<1>1. CASE Ai!StartService \/ Ai!CountModelsByProvider \/ Ai!CheckAgents \/ Ai!SeedingFails \/ Ai!ServiceStops
  BY <1>1, GoingSteps
<1>2. CASE Ai!SeedQwenModel \/ Ai!SeedDefaultAgent \/ Ai!EnsureAnnotatorAgent
  BY <1>2, SeedModelSteps, SeedAgentSteps, EnsureSteps
<1>3. CASE Ai!CreateModel \/ Ai!SeedQwenAnew
  BY <1>3, CreateModelSteps, SeedAnewSteps
<1>4. ASSUME NEW m \in DOMAIN models, Ai!UpdateModel(m) \/ Ai!DeleteModel(m) PROVE AiRows' /\ AiStart'
  BY <1>4, UpdateModelSteps, DeleteModelSteps
<1>5. ASSUME NEW a \in DOMAIN agents, Ai!UpdateAgent(a) \/ Ai!DeleteAgent(a) PROVE AiRows' /\ AiStart'
  BY <1>5, UpdateAgentSteps, DeleteAgentSteps
<1>6. ASSUME NEW t \in Ai!Types, Ai!CreateAgent(t) PROVE AiRows' /\ AiStart'
  BY <1>6, CreateAgentSteps
<1>7. CASE UNCHANGED <<models, agents, made, start>>
  BY <1>7, RowsKept DEF AiStart, Ai!SeededOnce
<1>8. QED
  BY <1>1, <1>2, <1>3, <1>4, <1>5, <1>6, <1>7
     DEF Ai!Action, Ai!PressSeedQwen, Ai!Editing, Ai!BeginBatch, Ai!ReadAgents, Ai!GetModel,
         Ai!ReadReserve, Ai!LookupFails, Ai!ChatWithAgent, Ai!EndBatch, Ai!Calling

LEMMA InitAssistants == ASSUME Ai!Init PROVE AiInv
<1>1. models = <<>> /\ agents = <<>> /\ DOMAIN models = {} /\ DOMAIN agents = {}
  BY DEF Ai!Init
<1>2. MaxModels \in Nat /\ MaxAgents \in Nat /\ Len(SeedModels) \in Nat
  BY AssistantsAssumption, SeedsAreNamed
<1>3. AiRows
  BY <1>1, <1>2 DEF Ai!Init, AiRows
<1>4. AiCounters
  BY <1>2, AssistantsAssumption DEF Ai!Init, AiCounters
<1>5. AiStart
  BY <1>1 DEF Ai!Init, AiStart, Ai!Starts, Ai!SeededOnce
<1>6. AiSearch
  BY NoBatchIsGood DEF Ai!Init, AiSearch
<1>7. QED
  BY <1>3, <1>4, <1>5, <1>6 DEF AiInv

LEMMA InductiveAssistants == ASSUME AiInv, [Ai!Next]_(Ai!vars) PROVE AiInv'
<1>1. CASE Ai!Next
  <2>1. AiRows' /\ AiStart' /\ AiCounters'
    BY <1>1, TableSteps, CounterSteps DEF AiInv, Ai!Next
  <2>2. QED
    BY <1>1, <2>1, SearchSteps DEF AiInv
<1>2. CASE UNCHANGED Ai!vars
  <2>1. AiRows' /\ AiCounters'
    BY <1>2 DEF Ai!vars, AiInv, AiRows, AiCounters, Ai!Bindable
  <2>2. AiStart' /\ AiSearch'
    BY <1>2 DEF Ai!vars, AiInv, AiStart, AiSearch, Ahead, Ai!SeededOnce
  <2>3. QED
    BY <2>1, <2>2 DEF AiInv
<1>3. QED
  BY <1>1, <1>2

LEMMA AssistantsPromise ==
  ASSUME AiInv
  PROVE  Ai!TypeOK /\ Ai!SkippedOnlyWithoutAgent /\ Ai!EveryModelIsAsked /\ Ai!SeededOnce
<1>1. /\ made.models \in 0..MaxModels /\ made.agents \in 0..MaxAgents
      /\ MaxModels \in Nat /\ MaxAgents \in Nat
  BY AssistantsAssumption DEF AiInv, AiRows
<1>2. DOMAIN models \subseteq 1..MaxModels /\ DOMAIN agents \subseteq 1..MaxAgents
  BY <1>1 DEF AiInv, AiRows
<1>3. Ai!TypeOK
  BY <1>2 DEF AiInv, AiRows, AiCounters, AiStart, AiSearch, Ai!TypeOK
<1>4. QED
  BY <1>3 DEF AiInv, AiStart, AiSearch, Ahead, Ai!SkippedOnlyWithoutAgent, Ai!EveryModelIsAsked, Ai!FailsOver

\* A batch is skipped only when no agent of its type stayed usable, gives up
\* only when every model that stayed enabled has been asked, and no seeded
\* agent and no seeded model that is still of its provider is there twice
\* (aimodels/store.go, cmd/skolkovo/main.go).
THEOREM AssistantsFindModels ==
  Ai!Spec => [](Ai!TypeOK /\ Ai!SkippedOnlyWithoutAgent /\ Ai!EveryModelIsAsked /\ Ai!SeededOnce)
<1>1. AiInv => Ai!TypeOK /\ Ai!SkippedOnlyWithoutAgent /\ Ai!EveryModelIsAsked /\ Ai!SeededOnce
  BY AssistantsPromise
<1>2. QED
  BY <1>1, InitAssistants, InductiveAssistants, PTL DEF Ai!Spec

------------------------------------------------------------------------------

(* The office as a whole. *)

\* Whichever part runs keeps the invariant of its own.
OfficeInv == /\ part = "racing" => StageInv(Racing)
             /\ part = "serial" => StageInv(Serial) /\ SerialInv(Serial, 1)
             /\ part = "tenants" => RowInv
             /\ part = "bot" => BotInv(Asked)
             /\ part = "chat" => BotInv(Talked)
             /\ part = "proxies" => ProxyInv
             /\ part = "assistants" => AiInv
             /\ part = "tenant key" => AccessInv(TenantKey)
             /\ part = "client key" => AccessInv(ClientKey)
             /\ part = "rate" => LimitInv
             /\ part = "portal" => PortalInv
             /\ part = "deadlines" => TermInv
             /\ part = "panel" => PanelInv
             /\ part = "forms" => FormInv

LEMMA UpdatesAreCounted == Len(Asked.kind) \in Nat /\ Len(Talked.kind) \in Nat
<1>1. Len(BotUpdates) \in Nat /\ Len(ChatUpdates) \in Nat
  BY BotsAssumption
<1>2. QED
  BY <1>1 DEF Asked, Talked

LEMMA PartStarts ==
  ASSUME Init
  PROVE  /\ part = "racing" => Residency(Racing)!Init
         /\ part = "serial" => Residency(Serial)!Init
         /\ part = "tenants" => Rows!Init
         /\ part = "bot" => Bot(Asked)!Init
         /\ part = "chat" => Bot(Talked)!Init
         /\ part = "proxies" => Switch!Init
         /\ part = "assistants" => Ai!Init
         /\ part = "tenant key" => Access(TenantKey)!Init
         /\ part = "client key" => Access(ClientKey)!Init
         /\ part = "rate" => Limit!Init
         /\ part = "portal" => Door!Init
         /\ part = "deadlines" => Terms!Init
         /\ part = "panel" => Panel!Init
         /\ part = "forms" => Desk!Init
BY DEF Init, OfficeInit

LEMMA PartStays == ASSUME [Next]_vars PROVE part' = part
BY DEF Next, vars, RacingStep, SerialStep, TenantStep, BotStep, ChatStep, ProxyStep, AiStep,
       TenantKeyStep, ClientKeyStep, RateStep, PortalStep, TermStep, PanelStep, FormStep,
       ResidentOnly, TenantOnly, BotOnly, ProxyOnly, AiOnly, AccessOnly

LEMMA PartGoesOn ==
  ASSUME Next
  PROVE  /\ part = "racing" => Residency(Racing)!Next
         /\ part = "serial" => Residency(Serial)!Next
         /\ part = "tenants" => Rows!Next
         /\ part = "bot" => Bot(Asked)!Next
         /\ part = "chat" => Bot(Talked)!Next
         /\ part = "proxies" => Switch!Next
         /\ part = "assistants" => Ai!Next
         /\ part = "tenant key" => Access(TenantKey)!Next
         /\ part = "client key" => Access(ClientKey)!Next
         /\ part = "rate" => Limit!Next
         /\ part = "portal" => Door!Next
         /\ part = "deadlines" => Terms!Next
         /\ part = "panel" => Panel!Next
         /\ part = "forms" => Desk!Next
BY DEF Next, RacingStep, SerialStep, TenantStep, BotStep, ChatStep, ProxyStep, AiStep,
       TenantKeyStep, ClientKeyStep, RateStep, PortalStep, TermStep, PanelStep, FormStep,
       ResidentOnly, TenantOnly, BotOnly, ProxyOnly, AiOnly, AccessOnly

LEMMA PartStutters ==
  ASSUME UNCHANGED vars
  PROVE  /\ \A s : UNCHANGED Residency(s)!residentVars
         /\ UNCHANGED Rows!tenantVars
         /\ \A u : UNCHANGED Bot(u)!botVars
         /\ UNCHANGED Switch!vars
         /\ UNCHANGED Ai!vars
         /\ \A w : UNCHANGED Access(w)!accessVars
         /\ UNCHANGED Limit!limitVars
         /\ UNCHANGED Door!portalVars
         /\ UNCHANGED <<now, Terms!deadlineVars>>
         /\ UNCHANGED Panel!panelVars
         /\ UNCHANGED Desk!formVars
BY DEF vars, residentVars, tenantVars, botVars, proxyVars, aiVars, termVars, laterVars, officeVars,
       accessVars, keyVars, bucketVars, doorVars, panelVars, formVars,
       Residency!residentVars, Rows!tenantVars, Bot!botVars, Switch!vars, Ai!vars,
       Access!accessVars, Limit!limitVars, Door!portalVars, Terms!deadlineVars, Panel!panelVars, Desk!formVars

LEMMA InitOffice == ASSUME Init PROVE OfficeInv
<1>1. part = "serial" => StageInv(Serial) /\ SerialInv(Serial, 1)
  BY PartStarts, InitStage, InitSerial DEF Serial
<1>2. /\ part = "bot" => BotInv(Asked)
      /\ part = "chat" => BotInv(Talked)
  BY PartStarts, UpdatesAreCounted, InitBot
<1>3. QED
  BY <1>1, <1>2, PartStarts, InitStage, InitRows, InitProxies, InitAssistants, InitAccess, InitLimit,
     InitPortal, InitTerms, InitPanel, InitForms
     DEF OfficeInv

LEMMA InductiveOffice == ASSUME OfficeInv, [Next]_vars PROVE OfficeInv'
<1>1. part' = part
  BY PartStays
<1>2. (part = "racing" => StageInv(Racing))'
  BY <1>1, PartGoesOn, PartStutters, InductiveStage DEF OfficeInv
<1>3. (part = "serial" => StageInv(Serial) /\ SerialInv(Serial, 1))'
  <2>1. ASSUME part = "serial" PROVE StageInv(Serial)' /\ SerialInv(Serial, 1)'
    <3>1. StageInv(Serial) /\ SerialInv(Serial, 1) /\ [Residency(Serial)!Next]_(Residency(Serial)!residentVars)
      BY <2>1, PartGoesOn, PartStutters DEF OfficeInv
    <3>2. StageInv(Serial)'
      BY <3>1, InductiveStage
    <3>3. Residency(Serial)!TypeOK'
      BY <3>2 DEF StageInv
    <3>4. Serial.workers = {1} /\ Serial.faults = FALSE
      BY DEF Serial
    <3>5. QED
      BY <3>1, <3>2, <3>3, <3>4, InductiveSerial
  <2>2. QED
    BY <1>1, <2>1
<1>4. (part = "tenants" => RowInv)'
  BY <1>1, PartGoesOn, PartStutters, InductiveRows DEF OfficeInv
<1>5. (part = "bot" => BotInv(Asked))'
  BY <1>1, PartGoesOn, PartStutters, InductiveBot, UpdatesAreCounted DEF OfficeInv
<1>6. (part = "chat" => BotInv(Talked))'
  BY <1>1, PartGoesOn, PartStutters, InductiveBot, UpdatesAreCounted DEF OfficeInv
<1>7. (part = "proxies" => ProxyInv)'
  BY <1>1, PartGoesOn, PartStutters, InductiveProxies DEF OfficeInv
<1>8. (part = "assistants" => AiInv)'
  BY <1>1, PartGoesOn, PartStutters, InductiveAssistants DEF OfficeInv
<1>9. (part = "tenant key" => AccessInv(TenantKey))'
  BY <1>1, PartGoesOn, PartStutters, InductiveAccess DEF OfficeInv
<1>10. (part = "client key" => AccessInv(ClientKey))'
  BY <1>1, PartGoesOn, PartStutters, InductiveAccess DEF OfficeInv
<1>11. (part = "rate" => LimitInv)'
  BY <1>1, PartGoesOn, PartStutters, InductiveLimit DEF OfficeInv
<1>12. (part = "portal" => PortalInv)'
  BY <1>1, PartGoesOn, PartStutters, InductivePortal DEF OfficeInv
<1>13. (part = "deadlines" => TermInv)'
  BY <1>1, PartGoesOn, PartStutters, InductiveTerms DEF OfficeInv
<1>14. (part = "panel" => PanelInv)'
  BY <1>1, PartGoesOn, PartStutters, InductivePanel DEF OfficeInv
<1>15. (part = "forms" => FormInv)'
  BY <1>1, PartGoesOn, PartStutters, InductiveForms DEF OfficeInv
<1>16. QED
  BY <1>2, <1>3, <1>4, <1>5, <1>6, <1>7, <1>8, <1>9, <1>10, <1>11, <1>12, <1>13, <1>14, <1>15
     DEF OfficeInv

\* The office keeps its types, whatever part runs.
THEOREM OfficeTypeCorrect == Spec => []TypeOK
<1>1. ASSUME OfficeInv PROVE TypeOK
  <2>1. part = "racing" => Residency(Racing)!TypeOK
    BY <1>1 DEF OfficeInv, StageInv
  <2>2. part = "serial" => Residency(Serial)!TypeOK
    BY <1>1 DEF OfficeInv, StageInv
  <2>3. part = "tenants" => Rows!TypeOK
    BY <1>1 DEF OfficeInv, RowInv
  <2>4. part = "bot" => Bot(Asked)!TypeOK
    BY <1>1 DEF OfficeInv, BotInv
  <2>5. part = "chat" => Bot(Talked)!TypeOK
    BY <1>1 DEF OfficeInv, BotInv
  <2>6. part = "tenant key" => Access(TenantKey)!TypeOK
    BY <1>1 DEF OfficeInv, AccessInv
  <2>7. part = "client key" => Access(ClientKey)!TypeOK
    BY <1>1 DEF OfficeInv, AccessInv
  <2>8. part = "rate" => Limit!TypeOK
    BY <1>1 DEF OfficeInv, LimitInv
  <2>9. part = "portal" => Door!TypeOK
    BY <1>1 DEF OfficeInv, PortalInv
  <2>10. part = "proxies" => Switch!TypeOK
    BY <1>1, ProxyPromise DEF OfficeInv
  <2>11. part = "assistants" => Ai!TypeOK
    BY <1>1, AssistantsPromise DEF OfficeInv
  <2>12. part = "deadlines" => Terms!TypeOK
    BY <1>1 DEF OfficeInv, TermInv
  <2>13. part = "panel" => Panel!TypeOK
    BY <1>1 DEF OfficeInv, PanelInv
  <2>14. part = "forms" => Desk!TypeOK
    BY <1>1 DEF OfficeInv, FormInv, FormsTyped, Desk!TypeOK, FormTexts
  <2>15. QED
    BY <2>1, <2>2, <2>3, <2>4, <2>5, <2>6, <2>7, <2>8, <2>9, <2>10, <2>11, <2>12, <2>13, <2>14 DEF TypeOK
<1>2. QED
  BY <1>1, InitOffice, InductiveOffice, PTL DEF Spec

\* However the requests of the office overlap and whatever statement fails,
\* a client's stage is one its history leads to (handleClientStageTransition);
\* one request at a time, the history is a path to it.
THEOREM OfficeStagesRecorded == Spec => []StageRecorded
<1>1. OfficeInv => StageRecorded
  <2>1. StageInv(Racing) => Residency(Racing)!StageRecorded
    BY DEF StageInv
  <2>2. Serial.workers = {1}
    BY DEF Serial
  <2>3. SerialInv(Serial, 1) => Residency(Serial)!HistoryLeadsToStage
    BY <2>2, SerialPromise
  <2>4. QED
    BY <2>1, <2>3 DEF OfficeInv, StageRecorded
<1>2. QED
  BY <1>1, InitOffice, InductiveOffice, PTL DEF Spec

\* No deadline passes unannounced while one summary before it goes out with
\* the deadlines of its client, and the pages tell of it what that summary
\* tells (sendDailySummary, buildDashboardRows).
THEOREM OfficeDeadlinesAnnounced == Spec => []DeadlinesAreAnnounced
<1>1. OfficeInv => DeadlinesAreAnnounced
  BY WarnedPromise, PagesPromise DEF OfficeInv, DeadlinesAreAnnounced
<1>2. QED
  BY <1>1, InitOffice, InductiveOffice, PTL DEF Spec

\* No address gets more through than a full bucket and the refill of the
\* time gone by, in any stretch of time (ratelimit.go).
THEOREM OfficeRateIsBounded == Spec => []RateIsBounded
<1>1. OfficeInv => RateIsBounded
  BY DEF OfficeInv, RateIsBounded, LimitInv
<1>2. QED
  BY <1>1, InitOffice, InductiveOffice, PTL DEF Spec

\* Pages of the portal and of the panel, and generated forms, go to those
\* they are meant for (portal/auth.go, admin/auth.go, handleGenerateSubmit).
THEOREM OfficeServedByInvitation == Spec => []ServedByInvitation
<1>1. OfficeInv => ServedByInvitation
  <2>1. FormInv => Desk!OwnForm
    BY DEF FormInv, FormsTyped, Desk!TypeOK, FormTexts
  <2>2. QED
    BY <2>1, PortalPromise, PanelPromise DEF OfficeInv, ServedByInvitation
<1>2. QED
  BY <1>1, InitOffice, InductiveOffice, PTL DEF Spec

\* No proxy is active but the current one, a restart brings back a list with
\* one, and browsers go through the one chosen; a batch goes without an
\* agent, or gives up, only when none could serve it
\* (proxy_manager.go, fetchWithRetry, aimodels/store.go).
THEOREM OfficeUsesTheUsable == Spec => []UsableIsUsed
<1>1. OfficeInv => UsableIsUsed
  BY ProxyPromise, AssistantsPromise DEF OfficeInv, UsableIsUsed
<1>2. QED
  BY <1>1, InitOffice, InductiveOffice, PTL DEF Spec

\* A key is answered for by what the tables said a lookup and a TTL ago at
\* most (key_cache.go, resolveAuth).
THEOREM OfficeDecisionsAreRecent == Spec => DecisionsAreRecent
<1>1. ASSUME OfficeInv, [Next]_vars
      PROVE  [/\ part = "tenant key" => Access(TenantKey)!DecisionIsRecent
              /\ part = "client key" => Access(ClientKey)!DecisionIsRecent]_vars
  <2>1. ASSUME NEW w, AccessInv(w), [Access(w)!Next]_(Access(w)!accessVars) PROVE Access(w)!DecisionIsRecent
    <3>1. CASE Access(w)!DecisionIsRecent
      BY <3>1
    <3>2. CASE UNCHANGED Access(w)!accessVars
      BY <3>2 DEF Access!accessVars, Access!DecisionIsRecent
    <3>3. QED
      BY <2>1, <3>1, <3>2, StepIsRecent
  <2>2. part = "tenant key" => Access(TenantKey)!DecisionIsRecent
    BY <1>1, <2>1, PartGoesOn, PartStutters DEF OfficeInv
  <2>3. part = "client key" => Access(ClientKey)!DecisionIsRecent
    BY <1>1, <2>1, PartGoesOn, PartStutters DEF OfficeInv
  <2>4. QED
    BY <2>2, <2>3
<1>2. QED
  BY <1>1, InitOffice, InductiveOffice, PTL DEF Spec, DecisionsAreRecent

==============================================================================
