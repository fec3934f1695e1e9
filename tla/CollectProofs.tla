------------------------------ MODULE CollectProofs ----------------------------
(***************************************************************************)
(* Proofs about the collectors (Collect): each part under the named        *)
(* assumption of its setting, which the settings of the runs, the pages    *)
(* and the downloads have to fit; then what the run of the collectors      *)
(* checks, for whichever part runs.                                        *)
(***************************************************************************)
EXTENDS Collect, DataLemmas


------------------------------------------------------------------------------

(* The runs over a source. *)

\* What the assumption says of the setting of one part.
WatchFits(s) == /\ s.entries \subseteq Nat \ {0}
                /\ s.texts \subseteq Nat \ {0} /\ 1 \in s.texts
                /\ s.stale \in Nat

RowTexts(s) == s.texts \cup {0}

WatchRuns(s) == [pc : {"idle", "fetch", "quiet", "next", "write", "tell"}, todo : SUBSET s.entries,
                 got : [s.entries -> RowTexts(s)], entry : s.entries \cup {0},
                 known : BOOLEAN, taken : 0..1]

WatchTypes(s) ==
  /\ source \in Watch(s)!Sources
  /\ page \in [s.entries -> RowTexts(s)] /\ rows \in [s.entries -> RowTexts(s)]
  /\ run \in [s.runners -> WatchRuns(s)]
  /\ news \in [s.entries -> 0..2]
  /\ health \in [fails : 0..3, age : 0..Watch(s)!Never]
  /\ fruitless \in 0..3 /\ unreached \in 0..3

\* A run has texts of the entries it takes, and only the job announces.
RunTakes(s, r) == /\ \A e \in run[r].todo : run[r].got[e] # 0
                  /\ run[r].pc \in {"write", "tell"} => run[r].entry \in s.entries
                                                        /\ run[r].got[run[r].entry] # 0
                  /\ run[r].pc = "tell" => r = "job"

\* What is announced is stored, and what is about to be announced was not yet.
AnnouncedOnce(s) ==
  source.creates = "insert" =>
    /\ \A e \in s.entries : news[e] = 0 \/ (news[e] = 1 /\ rows[e] # 0)
    /\ \A r \in s.runners : run[r].pc = "tell" /\ ~run[r].known
                              => news[run[r].entry] = 0 /\ rows[run[r].entry] # 0

\* A source that tells of its failures counts each the panel is to know of.
FailuresCounted(s) ==
  ~source.quiet => /\ \A r \in s.runners : run[r].pc # "quiet"
                   /\ unreached <= health.fails

WatchInv(s) == WatchTypes(s) /\ (\A r \in s.runners : RunTakes(s, r)) /\ AnnouncedOnce(s) /\ FailuresCounted(s)

LEMMA SourcesTyped ==
  ASSUME NEW s, source \in Watch(s)!Sources
  PROVE  /\ source.creates \in {"insert", "upsert", "post"} /\ source.quiet \in BOOLEAN
         /\ source.idFits \in BOOLEAN /\ source.announces \in BOOLEAN
         /\ source.sameSkipped \in BOOLEAN /\ source.olderSkipped \in BOOLEAN
<1>1. \/ source = Watch(s)!IngestEvents
      \/ source = Watch(s)!IngestContests
      \/ source = Watch(s)!IngestFAQ
      \/ source = Watch(s)!IngestResidents
      \/ source = Watch(s)!IngestRegulations
      \/ source = Watch(s)!IngestPreferences
      \/ source = Watch(s)!SyncNews
      \/ source = Watch(s)!IngestPosts
  BY DEF Watch!Sources
<1>2. CASE source = Watch(s)!IngestEvents
  BY <1>2 DEF Watch!IngestEvents, Watch!Collector
<1>3. CASE source = Watch(s)!IngestContests
  BY <1>3 DEF Watch!IngestContests, Watch!Collector
<1>4. CASE source = Watch(s)!IngestFAQ
  BY <1>4 DEF Watch!IngestFAQ, Watch!Collector
<1>5. CASE source = Watch(s)!IngestResidents
  BY <1>5 DEF Watch!IngestResidents, Watch!Collector
<1>6. CASE source = Watch(s)!IngestRegulations
  BY <1>6 DEF Watch!IngestRegulations, Watch!Collector
<1>7. CASE source = Watch(s)!IngestPreferences
  BY <1>7 DEF Watch!IngestPreferences, Watch!Collector
<1>8. CASE source = Watch(s)!SyncNews
  BY <1>8 DEF Watch!SyncNews, Watch!Collector
<1>9. CASE source = Watch(s)!IngestPosts
  BY <1>9 DEF Watch!IngestPosts, Watch!Collector
<1>10. QED
  BY <1>1, <1>2, <1>3, <1>4, <1>5, <1>6, <1>7, <1>8, <1>9

LEMMA CappedAt ==
  ASSUME NEW s, NEW n \in 0..3
  PROVE  /\ Watch(s)!Capped(n, 3) \in 0..3 /\ Watch(s)!Capped(n, 3) >= n
         /\ n \in 0..1 => Watch(s)!Capped(n, 1) \in 0..1
         /\ n \in 0..2 => Watch(s)!Capped(n, 2) \in 0..2
         /\ n = 0 => Watch(s)!Capped(n, 2) = 1
         /\ \A m \in 0..3 : m <= n => Watch(s)!Capped(m, 3) <= Watch(s)!Capped(n, 3)
BY DEF Watch!Capped

LEMMA InitWatch ==
  ASSUME NEW s, WatchFits(s), Watch(s)!Init
  PROVE  WatchInv(s)
<1>1. page \in [s.entries -> RowTexts(s)] /\ rows \in [s.entries -> RowTexts(s)]
  BY DEF Watch!Init, WatchFits, RowTexts
<1>2. Watch(s)!Idle \in WatchRuns(s)
  BY DEF Watch!Idle, WatchRuns, RowTexts
<1>3. WatchTypes(s)
  BY <1>1, <1>2 DEF Watch!Init, WatchTypes, WatchFits, Watch!Never
<1>4. QED
  BY <1>3 DEF Watch!Init, Watch!Idle, WatchInv, RunTakes, AnnouncedOnce, FailuresCounted

\* The page and the clock do not touch what the runs hold.
LEMMA EditWatched ==
  ASSUME NEW s, WatchFits(s), WatchInv(s), Watch(s)!Edit \/ Watch(s)!Tick
  PROVE  WatchInv(s)'
<1>1. CASE Watch(s)!Edit
  <2>1. page' \in [s.entries -> RowTexts(s)]
    BY <1>1 DEF Watch!Edit, WatchInv, WatchTypes, WatchFits, RowTexts
  <2>2. QED
    BY <1>1, <2>1 DEF Watch!Edit, WatchInv, WatchTypes, RunTakes, AnnouncedOnce, FailuresCounted
<1>2. CASE Watch(s)!Tick
  <2>1. health' \in [fails : 0..3, age : 0..Watch(s)!Never] /\ health'.fails = health.fails
    BY <1>2 DEF Watch!Tick, WatchInv, WatchTypes, WatchFits, Watch!Never
  <2>2. QED
    BY <1>2, <2>1 DEF Watch!Tick, WatchInv, WatchTypes, RunTakes, AnnouncedOnce, FailuresCounted
<1>3. QED
  BY <1>1, <1>2

\* A run that goes on touches no other, and what it may not touch stays.
LEMMA RunGoesOn ==
  ASSUME NEW s, WatchFits(s), WatchInv(s), NEW r \in s.runners,
         source' = source, page' = page, rows' = rows, news' = news,
         run' = [run EXCEPT ![r] = run'[r]], run'[r] \in WatchRuns(s), RunTakes(s, r)',
         run'[r].pc # "tell",
         ~source.quiet => run'[r].pc # "quiet" /\ unreached' <= health'.fails,
         health' \in [fails : 0..3, age : 0..Watch(s)!Never],
         fruitless' \in 0..3, unreached' \in 0..3
  PROVE  WatchInv(s)'
<1>1. run' \in [s.runners -> WatchRuns(s)]
  BY DEF WatchInv, WatchTypes
<1>2. \A q \in s.runners : q # r => run'[q] = run[q]
  BY DEF WatchInv, WatchTypes
<1>3. WatchTypes(s)'
  BY <1>1 DEF WatchInv, WatchTypes
<1>4. \A q \in s.runners : RunTakes(s, q)'
  BY <1>2 DEF WatchInv, RunTakes
<1>5. AnnouncedOnce(s)' /\ FailuresCounted(s)'
  BY <1>2 DEF WatchInv, AnnouncedOnce, FailuresCounted
<1>6. QED
  BY <1>3, <1>4, <1>5 DEF WatchInv

LEMMA IdleRun ==
  ASSUME NEW s
  PROVE  /\ Watch(s)!Idle \in WatchRuns(s) /\ Watch(s)!Idle.pc = "idle" /\ Watch(s)!Idle.todo = {}
BY DEF Watch!Idle, WatchRuns, RowTexts

LEMMA ReadsWatched ==
  ASSUME NEW s, WatchFits(s), WatchInv(s), NEW r \in s.runners,
         \/ Watch(s)!StartRun(r) \/ Watch(s)!Fetch(r)
         \/ \E e \in s.entries : Watch(s)!Look(r, e, FALSE) \/ Watch(s)!Look(r, e, TRUE)
  PROVE  WatchInv(s)'
<1>1. run[r] \in WatchRuns(s) /\ RunTakes(s, r) /\ page \in [s.entries -> RowTexts(s)]
  BY DEF WatchInv, WatchTypes
<1>2. health' = health /\ fruitless' = fruitless /\ unreached' = unreached
      /\ source' = source /\ page' = page /\ rows' = rows /\ news' = news
  BY DEF Watch!StartRun, Watch!Fetch, Watch!Look
<1>3. run' = [run EXCEPT ![r] = run'[r]] /\ run'[r] \in WatchRuns(s) /\ RunTakes(s, r)'
      /\ run'[r].pc \in {"fetch", "next", "write"}
  <2>1. CASE Watch(s)!StartRun(r)
    BY <1>1, <2>1 DEF Watch!StartRun, WatchInv, WatchTypes, WatchRuns, RunTakes
  <2>2. CASE Watch(s)!Fetch(r)
    BY <1>1, <2>2 DEF Watch!Fetch, WatchInv, WatchTypes, WatchRuns, RunTakes
  <2>3. ASSUME NEW e \in s.entries, NEW fails \in BOOLEAN, Watch(s)!Look(r, e, fails)
        PROVE  run' = [run EXCEPT ![r] = run'[r]] /\ run'[r] \in WatchRuns(s) /\ RunTakes(s, r)'
               /\ run'[r].pc \in {"fetch", "next", "write"}
    <3>1. PICK known \in BOOLEAN, pc \in {"next", "write"} :
             run' = [run EXCEPT ![r].todo = @ \ {e}, ![r].known = known, ![r].entry = e, ![r].pc = pc]
      BY <2>3 DEF Watch!Look
    <3>2. e \in run[r].todo
      BY <2>3 DEF Watch!Look
    <3>3. run' = [run EXCEPT ![r] = run'[r]] /\ run'[r] \in WatchRuns(s) /\ run'[r].pc = pc
          /\ run'[r].entry = e /\ run'[r].todo = run[r].todo \ {e} /\ run'[r].got = run[r].got
      BY <1>1, <3>1 DEF WatchInv, WatchTypes, WatchRuns
    <3>4. QED
      BY <1>1, <3>2, <3>3 DEF RunTakes
  <2>4. QED
    BY <2>1, <2>2, <2>3
<1>4. health \in [fails : 0..3, age : 0..Watch(s)!Never] /\ fruitless \in 0..3 /\ unreached \in 0..3
      /\ (~source.quiet => unreached <= health.fails)
  BY DEF WatchInv, WatchTypes, FailuresCounted
<1>5. QED
  BY <1>2, <1>3, <1>4, RunGoesOn

LEMMA RecordKept ==
  ASSUME NEW s, WatchFits(s), WatchInv(s)
  PROVE  /\ Watch(s)!Record(TRUE) \in [fails : 0..3, age : 0..Watch(s)!Never]
         /\ Watch(s)!Record(TRUE).fails = Watch(s)!Capped(health.fails, 3)
         /\ Watch(s)!Record(FALSE) \in [fails : 0..3, age : 0..Watch(s)!Never]
         /\ Watch(s)!Record(FALSE).fails = 0
<1>1. health \in [fails : 0..3, age : 0..Watch(s)!Never] /\ Watch(s)!Never \in Nat
  BY DEF WatchInv, WatchTypes, WatchFits, Watch!Never
<1>2. Watch(s)!Capped(health.fails, 3) \in 0..3
  BY <1>1, CappedAt
<1>3. QED
  BY <1>1, <1>2 DEF Watch!Record

LEMMA EndsWatched ==
  ASSUME NEW s, WatchFits(s), WatchInv(s), NEW r \in s.runners,
         \/ \E kept \in BOOLEAN : Watch(s)!FetchFails(r, kept) \/ Watch(s)!Report(r, kept)
         \/ Watch(s)!CommandFails(r) \/ Watch(s)!FetchesNothing(r)
         \/ Watch(s)!PrintResult(r) \/ Watch(s)!Crash(r)
  PROVE  WatchInv(s)'
<1>1. run[r] \in WatchRuns(s) /\ RunTakes(s, r) /\ run \in [s.runners -> WatchRuns(s)]
      /\ source \in Watch(s)!Sources
  BY DEF WatchInv, WatchTypes
<1>2. source' = source /\ page' = page /\ rows' = rows /\ news' = news
  BY DEF Watch!FetchFails, Watch!CommandFails, Watch!FetchesNothing, Watch!Misses, Watch!Report,
         Watch!PrintResult, Watch!Crash
<1>3. /\ health \in [fails : 0..3, age : 0..Watch(s)!Never] /\ fruitless \in 0..3 /\ unreached \in 0..3
      /\ ~source.quiet => unreached <= health.fails /\ run[r].pc # "quiet"
      /\ health.fails \in 0..3
  BY DEF WatchInv, WatchTypes, FailuresCounted
<1>4. run' = [run EXCEPT ![r] = run'[r]] /\ run'[r] \in WatchRuns(s) /\ RunTakes(s, r)'
      /\ run'[r].pc \in {"idle", "quiet"} /\ (~source.quiet => run'[r].pc # "quiet")
  <2>1. CASE run' = [run EXCEPT ![r] = Watch(s)!Idle]
    BY <1>1, <2>1, IdleRun DEF RunTakes
  <2>2. CASE run' = [run EXCEPT ![r].pc = "quiet"] /\ source.quiet
    BY <1>1, <2>2 DEF WatchRuns, RunTakes
  <2>3. QED
    BY <2>1, <2>2 DEF Watch!FetchFails, Watch!CommandFails, Watch!FetchesNothing, Watch!Report,
         Watch!PrintResult, Watch!Crash
<1>5. /\ health' \in [fails : 0..3, age : 0..Watch(s)!Never] /\ fruitless' \in 0..3 /\ unreached' \in 0..3
      /\ ~source.quiet => unreached' <= health'.fails
  <2>1. Watch(s)!Capped(fruitless, 3) \in 0..3 /\ Watch(s)!Capped(unreached, 3) \in 0..3
        /\ (~source.quiet => Watch(s)!Capped(unreached, 3) <= Watch(s)!Capped(health.fails, 3))
    BY <1>3, CappedAt
  <2>2. ASSUME NEW kept \in BOOLEAN, Watch(s)!FetchFails(r, kept)
        PROVE  /\ health' \in [fails : 0..3, age : 0..Watch(s)!Never] /\ fruitless' \in 0..3 /\ unreached' \in 0..3
               /\ ~source.quiet => unreached' <= health'.fails
    <3>1. CASE kept
      BY <1>3, <2>1, <2>2, <3>1, RecordKept DEF Watch!FetchFails, Watch!recordHealth, Watch!Counted
    <3>2. CASE ~kept
      BY <1>3, <2>2, <3>2 DEF Watch!FetchFails, Watch!recordHealth, Watch!Counted
    <3>3. QED
      BY <3>1, <3>2
  <2>3. CASE Watch(s)!CommandFails(r)
    BY <1>3, <2>3 DEF Watch!CommandFails
  <2>4. CASE Watch(s)!FetchesNothing(r)
    BY <1>3, <2>4 DEF Watch!FetchesNothing
  <2>5. ASSUME NEW kept \in BOOLEAN, Watch(s)!Report(r, kept)
        PROVE  /\ health' \in [fails : 0..3, age : 0..Watch(s)!Never] /\ fruitless' \in 0..3 /\ unreached' \in 0..3
               /\ ~source.quiet => unreached' <= health'.fails
    <3>1. fruitless' \in {fruitless, Watch(s)!Capped(fruitless, 3), 0}
          /\ unreached' \in {unreached, Watch(s)!Capped(unreached, 3), 0}
      BY <2>5 DEF Watch!Report, Watch!Counted
    <3>2. health' \in {Watch(s)!Record(FALSE), health}
      BY <2>5 DEF Watch!Report, Watch!recordHealth
    <3>3. ~source.quiet => unreached' = 0
      BY <1>3, <2>5 DEF Watch!Report
    <3>4. health' \in [fails : 0..3, age : 0..Watch(s)!Never] /\ health'.fails \in 0..3
      BY <1>3, <3>2, RecordKept
    <3>5. fruitless' \in 0..3 /\ unreached' \in 0..3
      BY <1>3, <2>1, <3>1
    <3>6. QED
      BY <3>3, <3>4, <3>5
  <2>6. CASE Watch(s)!PrintResult(r) \/ Watch(s)!Crash(r)
    BY <1>3, <2>6 DEF Watch!PrintResult, Watch!Crash
  <2>7. QED
    BY <2>2, <2>3, <2>4, <2>5, <2>6
<1>6. QED
  BY <1>2, <1>4, <1>5, RunGoesOn

LEMMA WriteWatched ==
  ASSUME NEW s, WatchFits(s), WatchInv(s), NEW r \in s.runners, NEW fails \in BOOLEAN,
         Watch(s)!Write(r, fails)
  PROVE  WatchInv(s)'
<1> DEFINE e == run[r].entry
<1>1. run[r] \in WatchRuns(s) /\ RunTakes(s, r) /\ run \in [s.runners -> WatchRuns(s)]
      /\ rows \in [s.entries -> RowTexts(s)] /\ news \in [s.entries -> 0..2]
  BY DEF WatchInv, WatchTypes
<1>2. source' = source /\ page' = page /\ news' = news /\ health' = health /\ fruitless' = fruitless
      /\ unreached' = unreached
  BY DEF Watch!Write
<1>3. CASE Watch(s)!Written(r) /\ ~fails
  <2>1. e \in s.entries /\ run[r].got[e] # 0 /\ run[r].got[e] \in RowTexts(s)
    BY <1>1 DEF Watch!Write, RunTakes, WatchRuns
  <2>2. rows' = [rows EXCEPT ![e] = run[r].got[e]]
        /\ \E pc \in {"tell", "next"} :
             /\ run' = [run EXCEPT ![r].pc = pc, ![r].taken = Watch(s)!Capped(@, 1)]
             /\ pc = "tell" => r = "job"
    BY <1>3 DEF Watch!Write, Watch!Reports
  <2>3. PICK pc \in {"tell", "next"} :
             /\ run' = [run EXCEPT ![r].pc = pc, ![r].taken = Watch(s)!Capped(@, 1)]
             /\ pc = "tell" => r = "job"
    BY <2>2
  <2>4. Watch(s)!Capped(run[r].taken, 1) \in 0..1
    BY <1>1, CappedAt DEF WatchRuns
  <2>5. run'[r] \in WatchRuns(s) /\ run'[r].todo = run[r].todo /\ run'[r].got = run[r].got
        /\ run'[r].entry = e /\ run'[r].known = run[r].known /\ run'[r].pc = pc
    BY <1>1, <2>3, <2>4 DEF WatchRuns
  <2>6. \A q \in s.runners : q # r => run'[q] = run[q]
    BY <1>1, <2>3
  <2>7. run' \in [s.runners -> WatchRuns(s)]
    BY <1>1, <2>3, <2>5
  <2>8. rows' \in [s.entries -> RowTexts(s)] /\ rows'[e] # 0 /\ \A d \in s.entries : rows[d] # 0 => rows'[d] # 0
    BY <1>1, <2>1, <2>2
  <2>9. WatchTypes(s)'
    BY <1>2, <2>7, <2>8 DEF WatchInv, WatchTypes
  <2>10. \A q \in s.runners : RunTakes(s, q)'
    <3>1. RunTakes(s, r)'
      BY <1>1, <2>1, <2>3, <2>5 DEF RunTakes
    <3>2. ASSUME NEW q \in s.runners, q # r PROVE RunTakes(s, q)'
      BY <2>6, <3>2 DEF WatchInv, RunTakes
    <3>3. QED
      BY <3>1, <3>2
  <2>11. AnnouncedOnce(s)'
    <3>1. SUFFICES ASSUME source.creates = "insert" PROVE AnnouncedOnce(s)'
      BY <1>2 DEF AnnouncedOnce
    <3>2. \A d \in s.entries : news'[d] = 0 \/ (news'[d] = 1 /\ rows'[d] # 0)
      BY <1>2, <2>8, <3>1 DEF WatchInv, AnnouncedOnce
    <3>3. ASSUME NEW q \in s.runners, run'[q].pc = "tell", ~ run'[q].known
          PROVE  news'[run'[q].entry] = 0 /\ rows'[run'[q].entry] # 0
      <4>1. CASE q = r
        <5>1. rows[e] = 0
          BY <1>3, <2>5, <3>1, <3>3, <4>1 DEF Watch!Written
        <5>2. news[e] = 0
          BY <2>1, <3>1, <5>1 DEF WatchInv, AnnouncedOnce
        <5>3. QED
          BY <1>2, <2>5, <2>8, <4>1, <5>2
      <4>2. CASE q # r
        <5>1. run'[q] = run[q] /\ RunTakes(s, q)
          BY <2>6, <4>2 DEF WatchInv
        <5>2. run[q].entry \in s.entries
          BY <3>3, <5>1 DEF RunTakes
        <5>3. news[run[q].entry] = 0 /\ rows[run[q].entry] # 0
          BY <3>1, <3>3, <5>1 DEF WatchInv, AnnouncedOnce
        <5>4. QED
          BY <1>2, <2>8, <5>1, <5>2, <5>3
      <4>3. QED
        BY <4>1, <4>2
    <3>4. QED
      BY <3>2, <3>3 DEF AnnouncedOnce
  <2>12. FailuresCounted(s)'
    BY <1>2, <2>5, <2>6 DEF WatchInv, FailuresCounted
  <2>13. QED
    BY <2>9, <2>10, <2>11, <2>12 DEF WatchInv
<1>4. CASE ~ (Watch(s)!Written(r) /\ ~fails)
  <2>1. run' = [run EXCEPT ![r].pc = "next"] /\ rows' = rows
    BY <1>4 DEF Watch!Write
  <2>2. run' = [run EXCEPT ![r] = run'[r]] /\ run'[r] \in WatchRuns(s) /\ RunTakes(s, r)' /\ run'[r].pc = "next"
    BY <1>1, <2>1 DEF WatchRuns, RunTakes
  <2>3. health' \in [fails : 0..3, age : 0..Watch(s)!Never] /\ fruitless' \in 0..3 /\ unreached' \in 0..3
        /\ (~source.quiet => unreached' <= health'.fails)
    BY <1>2 DEF WatchInv, WatchTypes, FailuresCounted
  <2>4. QED
    BY <1>2, <2>1, <2>2, <2>3, RunGoesOn
<1>5. QED
  BY <1>3, <1>4

LEMMA TellWatched ==
  ASSUME NEW s, WatchFits(s), WatchInv(s), NEW r \in s.runners, NEW fails \in BOOLEAN,
         Watch(s)!Tell(r, fails)
  PROVE  WatchInv(s)'
<1> DEFINE e == run[r].entry
<1>1. run[r] \in WatchRuns(s) /\ RunTakes(s, r) /\ run \in [s.runners -> WatchRuns(s)]
      /\ rows \in [s.entries -> RowTexts(s)] /\ news \in [s.entries -> 0..2]
  BY DEF WatchInv, WatchTypes
<1>2. source' = source /\ page' = page /\ rows' = rows /\ health' = health /\ fruitless' = fruitless
      /\ unreached' = unreached /\ run' = [run EXCEPT ![r].pc = "next"] /\ run[r].pc = "tell"
  BY DEF Watch!Tell
<1>3. r = "job" /\ e \in s.entries
  BY <1>1, <1>2 DEF RunTakes
<1>4. run'[r] \in WatchRuns(s) /\ RunTakes(s, r)' /\ run'[r].pc = "next"
  BY <1>1, <1>2 DEF WatchRuns, RunTakes
<1>5. \A q \in s.runners : q # r => run'[q] = run[q] /\ run[q].pc # "tell"
  BY <1>1, <1>2, <1>3 DEF WatchInv, RunTakes
<1>6. run' \in [s.runners -> WatchRuns(s)]
  BY <1>1, <1>2, <1>4
<1>7. news' \in [s.entries -> 0..2]
  <2>1. Watch(s)!Capped(news[e], 2) \in 0..2
    BY <1>1, <1>3, CappedAt
  <2>2. QED
    BY <1>1, <2>1 DEF Watch!Tell
<1>8. WatchTypes(s)'
  BY <1>2, <1>6, <1>7 DEF WatchInv, WatchTypes
<1>9. \A q \in s.runners : RunTakes(s, q)'
  BY <1>4, <1>5 DEF WatchInv, RunTakes
<1>10. AnnouncedOnce(s)'
  <2>1. SUFFICES ASSUME source.creates = "insert" PROVE AnnouncedOnce(s)'
    BY <1>2 DEF AnnouncedOnce
  <2>2. \A d \in s.entries : news[d] = 0 \/ (news[d] = 1 /\ rows[d] # 0)
    BY <2>1 DEF WatchInv, AnnouncedOnce
  <2>3. ASSUME NEW d \in s.entries PROVE news'[d] = 0 \/ (news'[d] = 1 /\ rows'[d] # 0)
    <3>1. CASE news' = news
      BY <1>2, <2>2, <3>1
    <3>2. CASE news' # news
      <4>1. ~ run[r].known /\ news' = [news EXCEPT ![e] = Watch(s)!Capped(@, 2)]
        BY <3>2 DEF Watch!Tell
      <4>2. news[e] = 0 /\ rows[e] # 0
        BY <1>2, <2>1, <4>1 DEF WatchInv, AnnouncedOnce
      <4>3. Watch(s)!Capped(news[e], 2) = 1
        BY <4>2, CappedAt
      <4>4. QED
        BY <1>1, <1>2, <2>2, <4>1, <4>2, <4>3
    <3>3. QED
      BY <3>1, <3>2
  <2>4. \A q \in s.runners : run'[q].pc # "tell"
    BY <1>4, <1>5
  <2>5. QED
    BY <2>3, <2>4 DEF AnnouncedOnce
<1>11. FailuresCounted(s)'
  BY <1>2, <1>4, <1>5 DEF WatchInv, FailuresCounted
<1>12. QED
  BY <1>8, <1>9, <1>10, <1>11 DEF WatchInv

LEMMA InductiveWatch ==
  ASSUME NEW s, WatchFits(s), WatchInv(s), [Watch(s)!Next]_(Watch(s)!collectVars)
  PROVE  WatchInv(s)'
<1>1. CASE UNCHANGED Watch(s)!collectVars
  BY <1>1 DEF Watch!collectVars, WatchInv, WatchTypes, RunTakes, AnnouncedOnce, FailuresCounted
<1>2. CASE Watch(s)!Next
  BY <1>2, EditWatched, ReadsWatched, EndsWatched, WriteWatched, TellWatched DEF Watch!Next, Watch!Works
<1>3. QED
  BY <1>1, <1>2

LEMMA WatchHolds ==
  ASSUME NEW s, WatchFits(s), WatchInv(s)
  PROVE  Watch(s)!TypeOK /\ Watch(s)!NewOnce /\ Watch(s)!FailureIsNoticed
<1>1. Watch(s)!TypeOK
  BY DEF WatchInv, WatchTypes, WatchRuns, RunTakes, RowTexts, Watch!TypeOK
<1>2. Watch(s)!NewOnce
  BY DEF WatchInv, AnnouncedOnce, Watch!NewOnce
<1>3. Watch(s)!FailureIsNoticed
  BY DEF WatchInv, WatchTypes, FailuresCounted, Watch!FailureIsNoticed, Watch!Status
<1>4. QED
  BY <1>1, <1>2, <1>3

\* Every source of the settings, run by whom it may and failing where it may:
\* its rows, runs and row of health keep their types, an entry with a key of
\* its own is announced once, three failures in a row that were recorded show,
\* whichever records are lost between them (IngestEvents and its like,
\* Source.State).
THEOREM RunsAnnounceOnce ==
  \A p \in DOMAIN Watches :
    Watch(Watches[p])!Init /\ [][Watch(Watches[p])!Next]_(Watch(Watches[p])!collectVars)
      => [](/\ Watch(Watches[p])!TypeOK
            /\ Watch(Watches[p])!NewOnce
            /\ Watch(Watches[p])!FailureIsNoticed)
<1> TAKE p \in DOMAIN Watches
<1>1. WatchFits(Watches[p])
  BY WatchesAssumption DEF WatchFits
<1>2. Watch(Watches[p])!Init => WatchInv(Watches[p])
  BY <1>1, InitWatch
<1>3. WatchInv(Watches[p]) /\ [Watch(Watches[p])!Next]_(Watch(Watches[p])!collectVars) => WatchInv(Watches[p])'
  BY <1>1, InductiveWatch
<1>4. WatchInv(Watches[p]) => /\ Watch(Watches[p])!TypeOK
                              /\ Watch(Watches[p])!NewOnce
                              /\ Watch(Watches[p])!FailureIsNoticed
  BY <1>1, WatchHolds
<1>5. QED
  BY <1>2, <1>3, <1>4, PTL

------------------------------------------------------------------------------

(* The entries of a page. *)

CardFits(s) == s.site \in {"events", "contests", "regulations", "preferences", "faq", "residents"} /\ s.nodes \in Nat
CardInv(s) == doc \in Seq([depth : Nat, kind : s.kinds])

LEMMA InitCards == ASSUME NEW s, doc = <<>> PROVE CardInv(s)
BY DEF CardInv

LEMMA InductiveCards == ASSUME NEW s, CardFits(s), CardInv(s), [Parser(s)!Next]_doc PROVE CardInv(s)'
<1>1. CASE Parser(s)!Next
  <2>1. PICK depth \in 0..s.nodes, kind \in s.kinds : doc' = Append(doc, [depth |-> depth, kind |-> kind])
    BY <1>1 DEF Parser!Next, Parser!Append1
  <2>2. depth \in Nat
    BY DEF CardFits
  <2>3. [depth |-> depth, kind |-> kind] \in [depth : Nat, kind : s.kinds]
    BY <2>2
  <2>4. QED
    BY <2>1, <2>3 DEF CardInv
<1>2. CASE UNCHANGED doc
  BY <1>2 DEF CardInv
<1>3. QED
  BY <1>1, <1>2

LEMMA GreatestNumber ==
  ASSUME NEW N \in Nat, NEW S, S \subseteq 1..N, S # {}
  PROVE  \E n \in S : \A m \in S : n >= m
<1> DEFINE D == {d \in 0..N : N - d \in S}
<1>1. D \subseteq Nat /\ D # {}
  <2>1. PICK m \in 1..N : m \in S
    OBVIOUS
  <2>2. N - m \in 0..N /\ N - (N - m) = m
    BY <2>1
  <2>3. N - m \in D
    BY <2>1, <2>2
  <2>4. D # {}
    BY <2>3
  <2>5. D \subseteq Nat
    OBVIOUS
  <2>6. QED
    BY <2>4, <2>5
<1>2. PICK d \in D : \A c \in D : d <= c
  BY <1>1, LeastNumber
<1>3. ASSUME NEW m \in S PROVE N - d >= m
  <2>1. m \in 1..N
    OBVIOUS
  <2>2. N - m \in 0..N /\ N - (N - m) = m
    BY <2>1
  <2>3. N - m \in D
    BY <2>2
  <2>4. d <= N - m
    BY <1>2, <2>3
  <2>5. QED
    BY <1>2, <2>1, <2>4
<1>4. QED
  BY <1>2, <1>3

\* The nodes of a page, and those under one of them.
LEMMA Page ==
  ASSUME NEW s, CardInv(s)
  PROVE  /\ Len(doc) \in Nat /\ Parser(s)!Nodes = 1..Len(doc)
         /\ \A i \in 1..Len(doc) : doc[i].depth \in Nat
<1>1. \A i \in 1..Len(doc) : doc[i] \in [depth : Nat, kind : s.kinds]
  <2> DEFINE N == [depth : Nat, kind : s.kinds]
  <2>1. doc \in Seq(N)
    BY DEF CardInv
  <2> HIDE DEF N
  <2>2. \A i \in 1..Len(doc) : doc[i] \in N
    BY <2>1
  <2>3. QED
    BY <2>2 DEF N
<1>2. Len(doc) \in Nat /\ Parser(s)!Nodes = 1..Len(doc)
  BY DEF CardInv, Parser!Nodes
<1>3. QED
  BY <1>1, <1>2

LEMMA UnderNode ==
  ASSUME NEW s, CardInv(s), NEW i \in 1..Len(doc)
  PROVE  /\ i \in Parser(s)!Under(i) /\ Parser(s)!Under(i) \subseteq 1..Len(doc)
         /\ \A j \in Parser(s)!Under(i) : i <= j
<1>1. Len(doc) \in Nat
  BY Page
<1>2. QED
  BY <1>1 DEF Parser!Under

\* What is under a node that is under another is under that one as well.
LEMMA UnderUnder ==
  ASSUME NEW s, CardInv(s), NEW i \in 1..Len(doc), NEW j \in Parser(s)!Under(i)
  PROVE  Parser(s)!Under(j) \subseteq Parser(s)!Under(i)
<1>1. Len(doc) \in Nat /\ (\A k \in 1..Len(doc) : doc[k].depth \in Nat)
  BY Page
<1>2. j \in i..Len(doc) /\ (\A k \in (i + 1)..j : doc[k].depth > doc[i].depth)
  BY DEF Parser!Under
<1>3. ASSUME NEW m \in Parser(s)!Under(j) PROVE m \in Parser(s)!Under(i)
  <2>1. m \in j..Len(doc) /\ (\A k \in (j + 1)..m : doc[k].depth > doc[j].depth)
    BY DEF Parser!Under
  <2>2. ASSUME NEW k \in (i + 1)..m PROVE doc[k].depth > doc[i].depth
    <3>1. k \in 1..Len(doc) /\ j \in 1..Len(doc)
      BY <1>1, <1>2, <2>1
    <3>2. CASE k <= j
      BY <1>1, <1>2, <3>1, <3>2
    <3>3. CASE k > j
      <4>1. doc[k].depth > doc[j].depth
        BY <1>1, <2>1, <3>1, <3>3
      <4>2. j # i => doc[j].depth > doc[i].depth
        BY <1>1, <1>2
      <4>3. doc[j].depth >= doc[i].depth
        BY <1>1, <4>2, <3>1
      <4>4. QED
        BY <1>1, <3>1, <4>1, <4>3
    <3>4. QED
      BY <1>1, <3>1, <3>2, <3>3
  <2>3. m \in i..Len(doc)
    BY <1>1, <1>2, <2>1
  <2>4. QED
    BY <2>2, <2>3 DEF Parser!Under
<1>4. QED
  BY <1>3

LEMMA FirstNode ==
  ASSUME NEW s, CardInv(s), NEW S \in SUBSET (1..Len(doc)), S # {}
  PROVE  Parser(s)!First(S) \in S /\ \A j \in S : Parser(s)!First(S) <= j
<1>1. S \subseteq Nat
  BY Page
<1>2. \E i \in S : \A j \in S : i <= j
  BY <1>1, LeastNumber
<1>3. QED
  BY <1>2 DEF Parser!First

LEMMA LastNode ==
  ASSUME NEW s, CardInv(s), NEW S \in SUBSET (1..Len(doc)), S # {}
  PROVE  Parser(s)!Last(S) \in S /\ \A j \in S : Parser(s)!Last(S) >= j
<1>1. \E i \in S : \A j \in S : i >= j
  BY Page, GreatestNumber
<1>2. QED
  BY <1>1 DEF Parser!Last

LEMMA FirstUnder ==
  ASSUME NEW s, CardInv(s), NEW i \in 1..Len(doc), NEW S \in SUBSET Parser(s)!Under(i), S # {}
  PROVE  /\ Parser(s)!First(S) \in S /\ Parser(s)!First(S) \in 1..Len(doc)
         /\ Parser(s)!nodeText(Parser(s)!First(S)) \subseteq Parser(s)!Under(i)
<1>1. S \in SUBSET (1..Len(doc))
  BY UnderNode
<1>2. Parser(s)!First(S) \in S
  BY <1>1, FirstNode
<1>3. Parser(s)!Under(Parser(s)!First(S)) \subseteq Parser(s)!Under(i)
  BY <1>2, UnderUnder
<1>4. QED
  BY <1>1, <1>2, <1>3 DEF Parser!nodeText, Parser!Of

\* What an entry tells it takes from under its node, or below a heading from anywhere in the page.
Takes(s, E) ==
  \A x \in E : /\ x.at \in 1..Len(doc)
               /\ x.entry.text \cup x.entry.more \subseteq
                    (IF doc[x.at].kind = "heading" THEN 1..Len(doc) ELSE Parser(s)!Under(x.at))

\* A strategy looks at entries of lists and tables alone, each inside one, or at none of them.
Inside(s, i) == \E l \in Parser(s)!Of({"list", "table"}, 1..Len(doc)) : i \in Parser(s)!Under(l) /\ i # l
Alike(s, S) == \/ \A i \in S : doc[i].kind \notin {"li", "tr"}
               \/ \A i \in S : doc[i].kind \in {"li", "tr"} /\ Inside(s, i)
Places(E) == {x.at : x \in E}
Sound(s, E) == Takes(s, E) /\ Alike(s, Places(E))

Own(s, i, e) == e.text \cup e.more \subseteq Parser(s)!Under(i)

LEMMA CardOwn ==
  ASSUME NEW s, CardInv(s), NEW i \in 1..Len(doc)
  PROVE  \E k, t : Parser(s)!Card(i) = [key |-> k, text |-> t, more |-> {}] /\ t \subseteq Parser(s)!Under(i)
<1> DEFINE heads == Parser(s)!Of({"heading", "title"}, Parser(s)!Under(i))
           t == IF heads = {} THEN Parser(s)!nodeText(i) ELSE Parser(s)!nodeText(Parser(s)!First(heads))
           k == IF heads # {} /\ doc[Parser(s)!First(heads)].kind = "title" THEN {"in"} ELSE Parser(s)!findLink(i)
<1>1. heads \subseteq Parser(s)!Under(i)
  BY DEF Parser!Of
<1>2. heads # {} => Parser(s)!nodeText(Parser(s)!First(heads)) \subseteq Parser(s)!Under(i)
  BY <1>1, FirstUnder
<1>3. Parser(s)!nodeText(i) \subseteq Parser(s)!Under(i)
  BY DEF Parser!nodeText, Parser!Of
<1>4. t \subseteq Parser(s)!Under(i)
  BY <1>2, <1>3
<1>5. Parser(s)!Card(i) = [key |-> k, text |-> t, more |-> {}]
  BY DEF Parser!Card
<1>6. QED
  BY <1>4, <1>5

LEMMA CardsOwn ==
  ASSUME NEW s, CardInv(s), NEW i \in 1..Len(doc)
  PROVE  /\ Own(s, i, Parser(s)!extractCard(i))
         /\ Own(s, i, Parser(s)!extractContestCard(i))
         /\ Own(s, i, Parser(s)!extractPreferenceCard(i))
         /\ Own(s, i, Parser(s)!extractRegulationCard(i))
         /\ Own(s, i, Parser(s)!extractRegulationRow(i))
<1>1. PICK k, t : Parser(s)!Card(i) = [key |-> k, text |-> t, more |-> {}] /\ t \subseteq Parser(s)!Under(i)
  BY CardOwn
<1>2. Own(s, i, Parser(s)!extractCard(i)) /\ Own(s, i, Parser(s)!extractContestCard(i))
  BY <1>1 DEF Own, Parser!extractCard, Parser!extractContestCard
<1>3. Own(s, i, Parser(s)!extractPreferenceCard(i))
  <2> DEFINE m == Parser(s)!nodeText(i) \ Parser(s)!Card(i).text
  <2>1. m \subseteq Parser(s)!Under(i)
    BY DEF Parser!nodeText, Parser!Of
  <2>2. Parser(s)!extractPreferenceCard(i) = [[key |-> k, text |-> t, more |-> {}] EXCEPT !.more = m]
    BY <1>1 DEF Parser!extractPreferenceCard
  <2> HIDE DEF m
  <2>3. Parser(s)!extractPreferenceCard(i) = [key |-> k, text |-> t, more |-> m]
    BY <2>2
  <2>4. QED
    BY <1>1, <2>1, <2>3 DEF Own
<1>4. Own(s, i, Parser(s)!extractRegulationCard(i))
  <2> DEFINE m == Parser(s)!Of({"revoked"}, Parser(s)!Under(i))
  <2>1. m \subseteq Parser(s)!Under(i)
    BY DEF Parser!Of
  <2>2. Parser(s)!extractRegulationCard(i) = [[key |-> k, text |-> t, more |-> {}] EXCEPT !.more = m]
    BY <1>1 DEF Parser!extractRegulationCard
  <2> HIDE DEF m
  <2>3. Parser(s)!extractRegulationCard(i) = [key |-> k, text |-> t, more |-> m]
    BY <2>2
  <2>4. QED
    BY <1>1, <2>1, <2>3 DEF Own
<1>5. Own(s, i, Parser(s)!extractRegulationRow(i))
  <2> DEFINE T == Parser(s)!Of(Parser(s)!Links \ {"image"}, Parser(s)!Under(i))
  <2>1. T \subseteq Parser(s)!Under(i)
    BY DEF Parser!Of
  <2>2. T # {} => Parser(s)!First(T) \in Parser(s)!Under(i)
    BY <2>1, FirstUnder
  <2>3. /\ Parser(s)!extractRegulationRow(i).text = (IF T = {} THEN {} ELSE {Parser(s)!First(T)})
        /\ Parser(s)!extractRegulationRow(i).more = {}
    BY DEF Parser!extractRegulationRow
  <2>4. QED
    BY <2>2, <2>3 DEF Own
<1>6. QED
  BY <1>2, <1>3, <1>4, <1>5

LEMMA AnswerOwn ==
  ASSUME NEW s, CardInv(s), NEW i \in 1..Len(doc)
  PROVE  Parser(s)!findFAQAnswer(i) \subseteq Parser(s)!Under(i)
<1> DEFINE P == Parser(s)!Under(i)
           A == {j \in Parser(s)!Of({"answer", "content"}, P) :
                   Parser(s)!nodeText(j) \notin {{}, Parser(s)!findFAQQuestion(i)}}
           outer == {j \in A : ~\E k \in A \ {j} : j \in Parser(s)!Under(k)}
           text == Parser(s)!nodeText(i)
           quest == Parser(s)!findFAQQuestion(i)
<1>1. A \subseteq P /\ P \subseteq 1..Len(doc) /\ text \subseteq P
  BY UnderNode DEF Parser!Of, Parser!nodeText
<1>2. A # {} => Parser(s)!nodeText(Parser(s)!Last(outer)) \subseteq P
  <2>1. HAVE A # {}
  <2>2. Parser(s)!First(A) \in A /\ (\A j \in A : Parser(s)!First(A) <= j)
    BY <1>1, <2>1, FirstNode
  <2>3. ASSUME NEW k \in A \ {Parser(s)!First(A)} PROVE Parser(s)!First(A) \notin Parser(s)!Under(k)
    <3>1. k \in 1..Len(doc) /\ Parser(s)!First(A) \in 1..Len(doc)
      BY <1>1, <2>2
    <3>2. Parser(s)!First(A) <= k /\ Parser(s)!First(A) # k
      BY <2>2
    <3>3. ~(k <= Parser(s)!First(A))
      BY <3>1, <3>2, Page
    <3>4. QED
      BY <3>1, <3>3, UnderNode
  <2>4. outer # {} /\ outer \subseteq 1..Len(doc)
    BY <1>1, <2>2, <2>3
  <2>5. Parser(s)!Last(outer) \in outer
    BY <2>4, LastNode
  <2>6. Parser(s)!Last(outer) \in P
    BY <1>1, <2>5
  <2>7. Parser(s)!Under(Parser(s)!Last(outer)) \subseteq P
    BY <2>6, UnderUnder
  <2>8. QED
    BY <2>7 DEF Parser!nodeText, Parser!Of
<1>3. Parser(s)!findFAQAnswer(i)
        = IF A # {} THEN Parser(s)!nodeText(Parser(s)!Last(outer))
          ELSE IF quest # {} /\ Parser(s)!First(text) = Parser(s)!First(quest) THEN text \ quest ELSE text
  BY DEF Parser!findFAQAnswer
<1> HIDE DEF A, outer, quest, text
<1>4. QED
  BY <1>1, <1>2, <1>3

LEMMA FaqOwn ==
  ASSUME NEW s, CardInv(s), NEW i \in 1..Len(doc)
  PROVE  Own(s, i, Parser(s)!extractFAQEntry(i)) /\ Own(s, i, Parser(s)!extractFAQFromDetails(i))
<1>1. Own(s, i, Parser(s)!extractFAQEntry(i))
  BY AnswerOwn DEF Own, Parser!extractFAQEntry
<1>2. Own(s, i, Parser(s)!extractFAQFromDetails(i))
  BY DEF Own, Parser!extractFAQFromDetails, Parser!nodeText, Parser!Of
<1>3. QED
  BY <1>1, <1>2

LEMMA EmptyIsSound == ASSUME NEW s PROVE Sound(s, {})
BY DEF Sound, Takes, Alike, Places

LEMMA StrategyIsSound ==
  ASSUME NEW s, CardInv(s), NEW S \in SUBSET (1..Len(doc)), Alike(s, S), NEW E,
         \A x \in E : x.at \in S /\ Own(s, x.at, x.entry)
  PROVE  Sound(s, E)
<1>1. Takes(s, E)
  BY UnderNode DEF Takes, Own
<1>2. Places(E) \subseteq S
  BY DEF Places
<1>3. QED
  BY <1>1, <1>2 DEF Sound, Alike

LEMMA FirstIsSound ==
  ASSUME NEW s, NEW a, NEW b, NEW c, NEW d, Sound(s, a), Sound(s, b), Sound(s, c), Sound(s, d)
  PROVE  Sound(s, Parser(s)!FirstThatYields(a, b, c, d))
BY DEF Parser!FirstThatYields

LEMMA ListedInside ==
  ASSUME NEW s, CardInv(s)
  PROVE  Parser(s)!Listed \subseteq 1..Len(doc) /\ Alike(s, Parser(s)!Listed)
<1>1. ASSUME NEW j \in Parser(s)!Listed
      PROVE  j \in 1..Len(doc) /\ doc[j].kind = "li" /\ Inside(s, j)
  <2>1. PICK l \in Parser(s)!Of({"list"}, Parser(s)!Nodes) : j \in Parser(s)!Of({"li"}, Parser(s)!Children(l))
    BY DEF Parser!Listed
  <2>2. l \in 1..Len(doc) /\ doc[l].kind = "list"
    BY <2>1, Page DEF Parser!Of
  <2>3. j \in Parser(s)!Under(l) /\ doc[j].kind = "li"
    BY <2>1 DEF Parser!Of, Parser!Children
  <2>4. j # l /\ j \in 1..Len(doc)
    BY <2>2, <2>3, UnderNode
  <2>5. QED
    BY <2>2, <2>3, <2>4 DEF Inside, Parser!Of
<1>2. QED
  BY <1>1 DEF Alike

LEMMA LinkedIsSound == ASSUME NEW s, CardInv(s) PROVE Sound(s, Parser(s)!Linked)
<1> DEFINE S == Parser(s)!Of({"link", "title"}, Parser(s)!Nodes)
<1>1. S \in SUBSET (1..Len(doc)) /\ Alike(s, S)
  BY Page DEF Parser!Of, Alike
<1>2. ASSUME NEW x \in Parser(s)!Linked PROVE x.at \in S /\ Own(s, x.at, x.entry)
  <2>1. PICK i \in S : x = [at |-> i, entry |-> [key |-> {"in"}, text |-> {i}, more |-> {}]]
    BY DEF Parser!Linked, Parser!Entry
  <2>2. i \in Parser(s)!Under(i)
    BY <1>1, UnderNode
  <2>3. QED
    BY <2>1, <2>2 DEF Own
<1>3. QED
  BY <1>1, <1>2, StrategyIsSound

\* What the nodes of S yield, one entry each.
LEMMA YieldIsSound ==
  ASSUME NEW s, CardInv(s), NEW S \in SUBSET (1..Len(doc)), Alike(s, S), NEW E,
         \A x \in E : \E i \in S : x.at = i /\ Own(s, i, x.entry)
  PROVE  Sound(s, E)
BY StrategyIsSound

LEMMA PlainPlaces ==
  ASSUME NEW s, CardInv(s), NEW kinds, "li" \notin kinds, "tr" \notin kinds
  PROVE  Parser(s)!Of(kinds, Parser(s)!Nodes) \in SUBSET (1..Len(doc)) /\ Alike(s, Parser(s)!Of(kinds, Parser(s)!Nodes))
BY Page DEF Parser!Of, Alike

LEMMA EventsAreSound == ASSUME NEW s, CardInv(s) PROVE Sound(s, Parser(s)!findEventCards)
<1> DEFINE Cards(S) == Parser(s)!Whole({Parser(s)!Entry(i, Parser(s)!extractCard(i)) : i \in S})
<1>1. ASSUME NEW S \in SUBSET (1..Len(doc)), Alike(s, S) PROVE Sound(s, Cards(S))
  <2>1. \A x \in Cards(S) : \E i \in S : x.at = i /\ Own(s, i, x.entry)
    BY CardsOwn DEF Parser!Whole, Parser!Entry
  <2>2. QED
    BY <1>1, <2>1, YieldIsSound
<1>2. /\ Sound(s, Cards(Parser(s)!Of({"card"}, Parser(s)!Nodes)))
      /\ Sound(s, Cards(Parser(s)!Of({"article"}, Parser(s)!Nodes)))
      /\ Sound(s, Cards(Parser(s)!Listed))
  BY <1>1, PlainPlaces, ListedInside
<1>3. QED
  BY <1>2, LinkedIsSound, FirstIsSound DEF Parser!findEventCards

LEMMA ContestsAreSound == ASSUME NEW s, CardInv(s) PROVE Sound(s, Parser(s)!findContestCards)
<1> DEFINE Cards(S) == Parser(s)!Whole({Parser(s)!Entry(i, Parser(s)!extractContestCard(i)) : i \in S})
<1>1. ASSUME NEW S \in SUBSET (1..Len(doc)), Alike(s, S) PROVE Sound(s, Cards(S))
  <2>1. \A x \in Cards(S) : \E i \in S : x.at = i /\ Own(s, i, x.entry)
    BY CardsOwn DEF Parser!Whole, Parser!Entry
  <2>2. QED
    BY <1>1, <2>1, YieldIsSound
<1>2. /\ Sound(s, Cards(Parser(s)!Of({"card", "item"}, Parser(s)!Nodes)))
      /\ Sound(s, Cards(Parser(s)!Of({"article"}, Parser(s)!Nodes)))
      /\ Sound(s, Cards(Parser(s)!Listed))
  BY <1>1, PlainPlaces, ListedInside
<1>3. QED
  BY <1>2, LinkedIsSound, FirstIsSound DEF Parser!findContestCards

LEMMA PreferencesAreSound == ASSUME NEW s, CardInv(s) PROVE Sound(s, Parser(s)!findPreferenceCards)
<1> DEFINE Cards(S) == Parser(s)!Whole({Parser(s)!Entry(i, Parser(s)!extractPreferenceCard(i)) : i \in S})
<1>1. ASSUME NEW S \in SUBSET (1..Len(doc)), Alike(s, S) PROVE Sound(s, Cards(S))
  <2>1. \A x \in Cards(S) : \E i \in S : x.at = i /\ Own(s, i, x.entry)
    BY CardsOwn DEF Parser!Whole, Parser!Entry
  <2>2. QED
    BY <1>1, <2>1, YieldIsSound
<1>2. /\ Sound(s, Cards(Parser(s)!Of({"card"}, Parser(s)!Nodes)))
      /\ Sound(s, Cards(Parser(s)!Of({"article"}, Parser(s)!Nodes)))
      /\ Sound(s, Cards(Parser(s)!Listed))
  BY <1>1, PlainPlaces, ListedInside
<1>3. QED
  BY <1>2, LinkedIsSound, FirstIsSound DEF Parser!findPreferenceCards

LEMMA RegulationsAreSound == ASSUME NEW s, CardInv(s) PROVE Sound(s, Parser(s)!findRegulationCards)
<1> DEFINE Cards(S) == Parser(s)!Whole({Parser(s)!Entry(i, Parser(s)!extractRegulationCard(i)) : i \in S})
           bodies == UNION {Parser(s)!Of({"tbody"}, Parser(s)!Children(i)) : i \in Parser(s)!Of({"table"}, Parser(s)!Nodes)}
           trs == UNION {Parser(s)!Of({"tr"}, Parser(s)!Children(i)) : i \in bodies}
           Lines1 == Parser(s)!Whole({Parser(s)!Entry(i, Parser(s)!extractRegulationRow(i)) : i \in trs})
<1>1. ASSUME NEW S \in SUBSET (1..Len(doc)), Alike(s, S) PROVE Sound(s, Cards(S))
  <2>1. \A x \in Cards(S) : \E i \in S : x.at = i /\ Own(s, i, x.entry)
    BY CardsOwn DEF Parser!Whole, Parser!Entry
  <2>2. QED
    BY <1>1, <2>1, YieldIsSound
<1>2. /\ Sound(s, Cards(Parser(s)!Of({"card"}, Parser(s)!Nodes)))
      /\ Sound(s, Cards(Parser(s)!Of({"article"}, Parser(s)!Nodes)))
  BY <1>1, PlainPlaces
<1>3. ASSUME NEW j \in trs PROVE j \in 1..Len(doc) /\ doc[j].kind = "tr" /\ Inside(s, j)
  <2>1. PICK b \in bodies : j \in Parser(s)!Of({"tr"}, Parser(s)!Children(b))
    OBVIOUS
  <2>2. PICK t \in Parser(s)!Of({"table"}, Parser(s)!Nodes) : b \in Parser(s)!Of({"tbody"}, Parser(s)!Children(t))
    BY <2>1
  <2>3. t \in 1..Len(doc) /\ doc[t].kind = "table" /\ b \in Parser(s)!Under(t)
    BY <2>2, Page DEF Parser!Of, Parser!Children
  <2>4. b \in 1..Len(doc) /\ j \in Parser(s)!Under(b) /\ doc[j].kind = "tr"
    BY <2>1, <2>3, UnderNode DEF Parser!Of, Parser!Children
  <2>5. j \in Parser(s)!Under(t)
    BY <2>3, <2>4, UnderUnder
  <2>6. j # t /\ j \in 1..Len(doc)
    BY <2>3, <2>4, <2>5, UnderNode
  <2>7. QED
    BY <2>3, <2>4, <2>5, <2>6 DEF Inside, Parser!Of
<1>4. Sound(s, Lines1)
  <2>1. trs \in SUBSET (1..Len(doc)) /\ Alike(s, trs)
    BY <1>3 DEF Alike
  <2>2. \A x \in Lines1 : \E i \in trs : x.at = i /\ Own(s, i, x.entry)
    BY <2>1, CardsOwn DEF Parser!Whole, Parser!Entry
  <2>3. QED
    BY <2>1, <2>2, YieldIsSound
<1>5. QED
  BY <1>2, <1>4, LinkedIsSound, FirstIsSound DEF Parser!findRegulationCards

LEMMA SectionsAreSound == ASSUME NEW s, CardInv(s) PROVE Sound(s, Parser(s)!findFAQSections)
<1> DEFINE roots == Parser(s)!Of({"faq", "faq-item"}, Parser(s)!Nodes)
           P == Parser(s)!Under(Parser(s)!First(roots))
           H == Parser(s)!Of({"heading"}, P)
           Blocks(h) == {j \in Parser(s)!Of({"p", "content", "faq", "faq-item"}, P) :
                           j > h /\ Parser(s)!nodeText(j) # {} /\ ~\E g \in H : h < g /\ g < j}
           E == {Parser(s)!Entry(h, [key |-> {h}, text |-> Parser(s)!nodeText(Parser(s)!First(Blocks(h))), more |-> {}]) :
                   h \in {g \in H : Blocks(g) # {}}}
<1>1. CASE roots = {}
  BY <1>1, EmptyIsSound DEF Parser!findFAQSections
<1>2. CASE roots # {}
  <2>1. roots \in SUBSET (1..Len(doc))
    BY Page DEF Parser!Of
  <2>2. Parser(s)!First(roots) \in 1..Len(doc)
    BY <1>2, <2>1, FirstNode
  <2>3. P \subseteq 1..Len(doc)
    BY <2>2, UnderNode
  <2>4. H \in SUBSET (1..Len(doc)) /\ (\A h \in H : doc[h].kind = "heading")
    BY <2>3 DEF Parser!Of
  <2>5. ASSUME NEW h \in H, Blocks(h) # {}
        PROVE  Parser(s)!nodeText(Parser(s)!First(Blocks(h))) \subseteq 1..Len(doc)
    <3>1. Blocks(h) \subseteq P
      BY DEF Parser!Of
    <3>2. Parser(s)!nodeText(Parser(s)!First(Blocks(h))) \subseteq P
      BY <2>2, <2>5, <3>1, FirstUnder
    <3>3. QED
      BY <2>3, <3>2
  <2>6. Parser(s)!findFAQSections = E
    BY <1>2 DEF Parser!findFAQSections
  <2>7. ASSUME NEW x \in E PROVE x.at \in H /\ x.entry.more = {} /\ x.entry.text \subseteq 1..Len(doc)
    <3>1. PICK h \in H : /\ Blocks(h) # {}
                         /\ x = Parser(s)!Entry(h, [key |-> {h}, text |-> Parser(s)!nodeText(Parser(s)!First(Blocks(h))), more |-> {}])
      BY <2>7
    <3>2. QED
      BY <2>5, <3>1 DEF Parser!Entry
  <2> HIDE DEF E, H
  <2>8. QED
    BY <2>4, <2>6, <2>7 DEF Sound, Takes, Alike, Places
<1>3. QED
  BY <1>1, <1>2

LEMMA FaqIsSound == ASSUME NEW s, CardInv(s) PROVE Sound(s, Parser(s)!findFAQItems)
<1> DEFINE I == Parser(s)!Of({"faq-item"}, Parser(s)!Nodes)
           D == Parser(s)!Of({"details"}, Parser(s)!Nodes)
           E == Parser(s)!Whole({Parser(s)!Entry(i, Parser(s)!extractFAQEntry(i)) : i \in I})
           F == Parser(s)!Whole({Parser(s)!Entry(i, Parser(s)!extractFAQFromDetails(i)) : i \in D})
<1>1. I \in SUBSET (1..Len(doc)) /\ Alike(s, I) /\ D \in SUBSET (1..Len(doc)) /\ Alike(s, D)
  BY PlainPlaces
<1>2. \A x \in E : \E i \in I : x.at = i /\ Own(s, i, x.entry)
  BY <1>1, FaqOwn DEF Parser!Whole, Parser!Entry
<1>3. \A x \in F : \E i \in D : x.at = i /\ Own(s, i, x.entry)
  BY <1>1, FaqOwn DEF Parser!Whole, Parser!Entry
<1>4. Sound(s, E) /\ Sound(s, F)
  BY <1>1, <1>2, <1>3, YieldIsSound
<1>5. QED
  BY <1>4, SectionsAreSound, EmptyIsSound, FirstIsSound DEF Parser!findFAQItems

LEMMA ResidentsAreSound == ASSUME NEW s, CardInv(s) PROVE Sound(s, Parser(s)!parseResidentsHTML)
<1>1. Parser(s)!parseResidentsHTML \subseteq Parser(s)!Linked
  BY DEF Parser!parseResidentsHTML
<1>2. QED
  BY <1>1, LinkedIsSound DEF Sound, Takes, Alike, Places

LEMMA FoundIsSound == ASSUME NEW s, CardFits(s), CardInv(s) PROVE Sound(s, Parser(s)!Found)
BY EventsAreSound, ContestsAreSound, RegulationsAreSound, PreferencesAreSound, FaqIsSound, ResidentsAreSound
   DEF CardFits, Parser!Found

Around(s, x) == {i \in Parser(s)!Of({"list", "table"}, 1..Len(doc)) : x.at \in Parser(s)!Under(i) /\ i # x.at}

LEMMA HomeIs ==
  ASSUME NEW s, CardFits(s), CardInv(s), NEW x \in Parser(s)!Found
  PROVE  /\ x.at \in 1..Len(doc)
         /\ doc[x.at].kind \notin {"li", "tr"} => Parser(s)!Home(x) = x.at
         /\ doc[x.at].kind \in {"li", "tr"} =>
              /\ Around(s, x) # {} /\ Around(s, x) \in SUBSET (1..Len(doc))
              /\ Parser(s)!Home(x) = Parser(s)!Last(Around(s, x))
         /\ Parser(s)!Home(x) \in 1..Len(doc)
<1>1. Sound(s, Parser(s)!Found)
  BY FoundIsSound
<1>2. x.at \in 1..Len(doc) /\ x.at \in Places(Parser(s)!Found)
  BY <1>1 DEF Sound, Takes, Places
<1>3. CASE doc[x.at].kind \notin {"li", "tr"}
  BY <1>2, <1>3 DEF Parser!Home
<1>4. CASE doc[x.at].kind \in {"li", "tr"}
  <2>1. Inside(s, x.at)
    BY <1>1, <1>2, <1>4 DEF Sound, Alike
  <2>2. Around(s, x) # {} /\ Around(s, x) \in SUBSET (1..Len(doc))
    BY <2>1 DEF Inside, Around, Parser!Of
  <2>3. Parser(s)!Home(x) = Parser(s)!Last(Around(s, x))
    BY <1>4, Page DEF Parser!Home, Around
  <2>4. Parser(s)!Last(Around(s, x)) \in Around(s, x)
    BY <2>2, LastNode
  <2>5. QED
    BY <1>2, <1>4, <2>2, <2>3, <2>4
<1>5. QED
  BY <1>3, <1>4

\* Of the entries of one key there is one that comes after all others.
LEMMA StaysIs ==
  ASSUME NEW s, CardFits(s), CardInv(s), NEW key, \E x \in Parser(s)!Found : x.entry.key = key
  PROVE  /\ Parser(s)!Stays(key) \in Parser(s)!Found /\ Parser(s)!Stays(key).entry.key = key
         /\ \A y \in Parser(s)!Found : y.entry.key = key => Parser(s)!Later(Parser(s)!Stays(key), y)
<1> DEFINE E == {x \in Parser(s)!Found : x.entry.key = key}
           H == {Parser(s)!Home(x) : x \in E}
<1>1. \A x \in E : x.at \in 1..Len(doc) /\ Parser(s)!Home(x) \in 1..Len(doc)
  BY HomeIs
<1>2. H \subseteq 1..Len(doc) /\ H # {} /\ Len(doc) \in Nat
  BY <1>1, Page
<1>3. PICK h \in H : \A m \in H : h >= m
  BY <1>2, GreatestNumber
<1> DEFINE A == {x.at : x \in {y \in E : Parser(s)!Home(y) = h}}
<1>4. A \subseteq 1..Len(doc) /\ A # {}
  BY <1>1, <1>3
<1>5. PICK a \in A : \A m \in A : a >= m
  BY <1>2, <1>4, GreatestNumber
<1>6. PICK x \in E : Parser(s)!Home(x) = h /\ x.at = a
  BY <1>5
<1>7. ASSUME NEW y \in E PROVE Parser(s)!Later(x, y)
  <2>1. Parser(s)!Home(y) \in H /\ Parser(s)!Home(y) \in 1..Len(doc) /\ h \in 1..Len(doc)
    BY <1>1, <1>2, <1>3
  <2>2. h >= Parser(s)!Home(y)
    BY <1>3, <2>1
  <2>3. Parser(s)!Home(y) = h => a >= y.at
    BY <1>5
  <2>4. h > Parser(s)!Home(y) \/ h = Parser(s)!Home(y)
    BY <2>1, <2>2
  <2>5. QED
    BY <1>6, <2>3, <2>4 DEF Parser!Later
<1>8. Parser(s)!Stays(key) = CHOOSE z \in E : \A y \in E : Parser(s)!Later(z, y)
  BY DEF Parser!Stays
<1>9. Parser(s)!Stays(key) \in E /\ \A y \in E : Parser(s)!Later(Parser(s)!Stays(key), y)
  BY <1>6, <1>7, <1>8
<1>10. QED
  BY <1>9

\* An entry inside another of the same strategy comes after it.
LEMMA InnerIsLater ==
  ASSUME NEW s, CardFits(s), CardInv(s), NEW x \in Parser(s)!Found, NEW y \in Parser(s)!Found,
         y.at # x.at, y.at \in Parser(s)!Under(x.at)
  PROVE  ~Parser(s)!Later(x, y)
<1>1. /\ x.at \in 1..Len(doc) /\ y.at \in 1..Len(doc)
      /\ Parser(s)!Home(x) \in 1..Len(doc) /\ Parser(s)!Home(y) \in 1..Len(doc) /\ Len(doc) \in Nat
  BY HomeIs, Page
<1>2. y.at > x.at
  <2>1. x.at <= y.at
    BY <1>1, UnderNode
  <2>2. QED
    BY <1>1, <2>1
<1>3. doc[x.at].kind \in {"li", "tr"} <=> doc[y.at].kind \in {"li", "tr"}
  <2>1. Sound(s, Parser(s)!Found)
    BY FoundIsSound
  <2>2. x.at \in Places(Parser(s)!Found) /\ y.at \in Places(Parser(s)!Found)
    BY DEF Places
  <2>3. QED
    BY <2>1, <2>2 DEF Sound, Alike
<1>4. Parser(s)!Home(y) >= Parser(s)!Home(x)
  <2>1. CASE doc[x.at].kind \notin {"li", "tr"}
    <3>1. Parser(s)!Home(x) = x.at /\ Parser(s)!Home(y) = y.at
      BY <2>1, <1>3, HomeIs
    <3>2. QED
      BY <1>1, <1>2, <3>1
  <2>2. CASE doc[x.at].kind \in {"li", "tr"}
    <3>1. /\ Around(s, x) # {} /\ Around(s, x) \in SUBSET (1..Len(doc))
          /\ Parser(s)!Home(x) = Parser(s)!Last(Around(s, x))
      BY <2>2, HomeIs
    <3>2. /\ Around(s, y) # {} /\ Around(s, y) \in SUBSET (1..Len(doc))
          /\ Parser(s)!Home(y) = Parser(s)!Last(Around(s, y))
      BY <2>2, <1>3, HomeIs
    <3>3. ASSUME NEW i \in Around(s, x) PROVE i \in Around(s, y)
      <4>1. i \in 1..Len(doc) /\ x.at \in Parser(s)!Under(i) /\ i # x.at
            /\ i \in Parser(s)!Of({"list", "table"}, 1..Len(doc))
        BY <3>1 DEF Around
      <4>2. y.at \in Parser(s)!Under(i)
        BY <4>1, UnderUnder
      <4>3. i <= x.at
        BY <4>1, UnderNode
      <4>4. i # y.at
        BY <1>1, <1>2, <4>1, <4>3
      <4>5. QED
        BY <4>1, <4>2, <4>4 DEF Around
    <3>4. Parser(s)!Last(Around(s, x)) \in Around(s, x)
      BY <3>1, LastNode
    <3>5. Parser(s)!Last(Around(s, x)) \in Around(s, y)
      BY <3>3, <3>4
    <3>6. \A j \in Around(s, y) : Parser(s)!Last(Around(s, y)) >= j
      BY <3>2, LastNode
    <3>7. QED
      BY <3>1, <3>2, <3>5, <3>6
  <2>3. QED
    BY <2>1, <2>2
<1>5. QED
  BY <1>1, <1>2, <1>4 DEF Parser!Later

LEMMA CardHolds == ASSUME NEW s, CardFits(s), CardInv(s) PROVE Parser(s)!InnermostStays
<1>1. SUFFICES ASSUME NEW x \in Parser(s)!Found, NEW t, t = Parser(s)!Stays(x.entry.key)
               PROVE  /\ ~\E y \in Parser(s)!Found : y.entry.key = x.entry.key /\ y.at # t.at /\ y.at \in Parser(s)!Under(t.at)
                      /\ t.entry.text \cup t.entry.more \subseteq
                           (IF doc[t.at].kind = "heading" THEN Parser(s)!Nodes ELSE Parser(s)!Under(t.at))
  BY DEF Parser!InnermostStays
<1>2. /\ t \in Parser(s)!Found /\ t.entry.key = x.entry.key
      /\ \A y \in Parser(s)!Found : y.entry.key = x.entry.key => Parser(s)!Later(t, y)
  BY <1>1, StaysIs
<1>3. ~\E y \in Parser(s)!Found : y.entry.key = x.entry.key /\ y.at # t.at /\ y.at \in Parser(s)!Under(t.at)
  BY <1>2, InnerIsLater
<1>4. t.entry.text \cup t.entry.more \subseteq
        (IF doc[t.at].kind = "heading" THEN Parser(s)!Nodes ELSE Parser(s)!Under(t.at))
  BY <1>2, FoundIsSound, Page DEF Sound, Takes
<1>5. QED
  BY <1>3, <1>4

\* Of every page, whatever boxes stand in one another, each of the six parsers
\* leaves under a key an entry of the innermost of its boxes, with text of
\* that box (findEventCards and its like).
THEOREM InnermostOfEveryPage ==
  \A p \in DOMAIN Sheets :
    doc = <<>> /\ [][Parser(Sheets[p])!Next]_doc => []Parser(Sheets[p])!InnermostStays
<1> TAKE p \in DOMAIN Sheets
<1>1. CardFits(Sheets[p])
  BY SheetsAssumption DEF CardFits
<1>2. doc = <<>> => CardInv(Sheets[p])
  BY InitCards
<1>3. CardInv(Sheets[p]) /\ [Parser(Sheets[p])!Next]_doc => CardInv(Sheets[p])'
  BY <1>1, InductiveCards
<1>4. CardInv(Sheets[p]) => Parser(Sheets[p])!InnermostStays
  BY <1>1, CardHolds
<1>5. QED
  BY <1>2, <1>3, <1>4, PTL

------------------------------------------------------------------------------

(* The downloads of the catalogue. *)

\* What the assumption says of the setting of one part.
LoadFits(s) == /\ s.limit \in Nat /\ s.pages \in Nat \ {0} /\ s.faults \in Nat /\ s.restarts \in Nat

LoadRuns(x) ==
  [at : {"idle", "category", "page", "file", "download", "register", "save", "write", "over"},
   kind : {"panel", "command", "catalog"}, cats : SUBSET DOMAIN Listing, pages : Seq(Seq(Shown)),
   docs : {x.docs}, seen : SUBSET Shown, got : SUBSET Titles, index : {x.index}, done : Nat,
   link : {x.link}, failed : SUBSET Shown, broken : BOOLEAN, erased : SUBSET Titles]

TitleIs(id) == IF id \in Shown THEN TitleOf[id] ELSE id

LoadTypes(s) ==
  /\ rows \in [Shown \cup Titles -> Shown \cup {"none", "absent"}]
  /\ disk \subseteq Shown /\ faults \in 0..s.faults /\ restarts \in 0..s.restarts
  /\ DOMAIN run = DOMAIN s.kinds

\* A run at work: of what kind its page and its link are, and its index.
RunLoads(x) ==
  /\ x \in LoadRuns(x)
  /\ x.at = "idle" => x.got = {}
  /\ x.at = "page" => x.pages # <<>>
  /\ x.at = "file" => x.docs \in Seq(Shown)
  /\ x.kind = "catalog" => x.at \notin {"file", "download", "register"}
  /\ x.at \in {"download", "register"} => x.docs \in Seq(Shown) /\ x.link \in Shown
  /\ x.at # "idle" /\ x.kind = "panel" =>
       \A t \in Titles : x.index[t].id = "none" \/ (x.index[t].id \in Shown \cup Titles /\ TitleIs(x.index[t].id) = t)

\* The title has its file.
Fetched(R, D, t) == \E id \in Shown \cup Titles : TitleIs(id) = t /\ R[id] \in D

\* Of the links a run saw and that did not fail, the one in flight or of a
\* title it took; of the titles it took, the one in flight or with its file,
\* or one whose file was written over since it began.
RunMissesNone(R, D, x) ==
  x.kind # "catalog" /\ ~x.broken =>
    /\ \A l \in x.seen \ x.failed : (x.at = "download" /\ x.link = l) \/ TitleOf[l] \in x.got
    /\ \A t \in x.got : (x.at = "register" /\ TitleOf[x.link] = t) \/ Fetched(R, D, t) \/ t \in x.erased

LoadInv(s) == LoadTypes(s) /\ \A r \in DOMAIN s.kinds : /\ RunLoads(run[r]) /\ RunMissesNone(rows, disk, run[r])
                                                        /\ run[r].at = "register" => run[r].link \in disk

\* No row loses its file, and every title keeps it.
Keeps == disk \subseteq disk' /\ \A t : Fetched(rows, disk, t) => Fetched(rows', disk', t)

LEMMA ShownHasTitle ==
  /\ TitleOf \in [Shown -> Titles] /\ {"absent", "none"} \cap (Shown \cup Titles) = {}
  /\ \A c \in DOMAIN Listing : Listing[c] \in Seq(Seq(Shown)) \ {<<>>}
BY LoadsAssumption

LEMMA NoRunLoads ==
  ASSUME NEW s
  PROVE  /\ RunLoads(Loading(s)!NoRun) /\ \A R, D : RunMissesNone(R, D, Loading(s)!NoRun)
         /\ Loading(s)!NoRun.at = "idle"
BY DEF Loading!NoRun, Loading!NoBody, RunLoads, LoadRuns, RunMissesNone

LEMMA InitLoads ==
  ASSUME NEW s, LoadFits(s), Loading(s)!Init
  PROVE  LoadInv(s)
<1>1. LoadTypes(s)
  BY DEF Loading!Init, Loading!NoBody, Loading!Absent, LoadTypes, LoadFits
<1>2. \A r \in DOMAIN s.kinds : run[r] = Loading(s)!NoRun
  BY DEF Loading!Init
<1>3. QED
  BY <1>1, <1>2, NoRunLoads DEF LoadInv

\* A run that goes on as x, where the registry and the disk lose nothing.
LEMMA LoadGoesOn ==
  ASSUME NEW s, LoadInv(s), NEW r \in DOMAIN s.kinds, NEW x,
         run' = [run EXCEPT ![r] = x], LoadTypes(s)', Keeps,
         RunLoads(x), RunMissesNone(rows', disk', x), x.at = "register" => x.link \in disk'
  PROVE  LoadInv(s)'
<1>1. DOMAIN run = DOMAIN s.kinds
  BY DEF LoadInv, LoadTypes
<1>2. \A q \in DOMAIN s.kinds : run'[q] = IF q = r THEN x ELSE run[q]
  BY <1>1
<1>3. ASSUME NEW q \in DOMAIN s.kinds
      PROVE  RunLoads(run'[q]) /\ RunMissesNone(rows', disk', run'[q]) /\ (run'[q].at = "register" => run'[q].link \in disk')
  <2>1. CASE q = r
    BY <1>2, <2>1
  <2>2. CASE q # r
    <3>1. run'[q] = run[q] /\ RunLoads(run[q]) /\ RunMissesNone(rows, disk, run[q])
      BY <1>2, <2>2 DEF LoadInv
    <3>2. RunMissesNone(rows', disk', run'[q])
      BY <3>1 DEF RunMissesNone, Keeps
    <3>3. QED
      BY <3>1, <3>2 DEF LoadInv, Keeps
  <2>3. QED
    BY <2>1, <2>2
<1>4. QED
  BY <1>3 DEF LoadInv

\* The run of r, as the steps find it.
LEMMA LoadAtHand ==
  ASSUME NEW s, LoadInv(s), NEW r \in DOMAIN s.kinds
  PROVE  /\ RunLoads(run[r]) /\ RunMissesNone(rows, disk, run[r]) /\ DOMAIN run = DOMAIN s.kinds
         /\ run[r].at = "register" => run[r].link \in disk
BY DEF LoadInv, LoadTypes

LEMMA NothingLost ==
  ASSUME NEW s, LoadInv(s), UNCHANGED <<rows, disk>>, faults' \in 0..s.faults, restarts' \in 0..s.restarts,
         DOMAIN run' = DOMAIN s.kinds
  PROVE  Keeps /\ LoadTypes(s)'
BY DEF LoadInv, LoadTypes, Keeps

\* A run that goes on beside an unchanged registry.
LEMMA LoadTurns ==
  ASSUME NEW s, LoadInv(s), NEW r \in DOMAIN s.kinds, NEW x,
         UNCHANGED <<rows, disk>>, faults' \in 0..s.faults, restarts' \in 0..s.restarts,
         run' = [run EXCEPT ![r] = x], RunLoads(x), RunMissesNone(rows, disk, x), x.at # "register"
  PROVE  LoadInv(s)'
<1>1. DOMAIN run' = DOMAIN s.kinds
  BY LoadAtHand
<1>2. QED
  BY <1>1, NothingLost, LoadGoesOn

LEMMA CountsKept ==
  ASSUME NEW s, LoadFits(s), LoadInv(s)
  PROVE  /\ faults \in 0..s.faults /\ restarts \in 0..s.restarts
         /\ Loading(s)!Fault => faults' \in 0..s.faults
         /\ restarts < s.restarts => restarts + 1 \in 0..s.restarts
BY DEF LoadInv, LoadTypes, LoadFits, Loading!Fault

LEMMA BegunTyped ==
  ASSUME NEW s, NEW kind \in {"panel", "command", "catalog"}
  PROVE  LET x == Loading(s)!Begun(kind) IN
         /\ x \in LoadRuns(x)
         /\ x.at = "category" /\ x.kind = kind /\ x.seen = {} /\ x.got = {}
<1>1. PICK n : n = Loading(s)!NoRun
  OBVIOUS
<1>2. n \in LoadRuns(n) /\ n.seen = {} /\ n.got = {}
  BY <1>1 DEF Loading!NoRun, Loading!NoBody, LoadRuns
<1>3. Loading(s)!Begun(kind) = [n EXCEPT !.at = "category", !.kind = kind, !.cats = DOMAIN Listing]
  BY <1>1 DEF Loading!Begun
<1>4. DOMAIN Listing \in SUBSET DOMAIN Listing
  OBVIOUS
<1>5. QED
  BY <1>2, <1>3, <1>4 DEF LoadRuns

LEMMA BegunLoads ==
  ASSUME NEW s, NEW kind \in {"command", "catalog"}
  PROVE  /\ RunLoads(Loading(s)!Begun(kind)) /\ \A R, D : RunMissesNone(R, D, Loading(s)!Begun(kind))
         /\ Loading(s)!Begun(kind).at = "category"
BY BegunTyped DEF RunLoads, RunMissesNone

LEMMA PanelLoads ==
  ASSUME NEW s, LoadInv(s), NEW ix \in Loading(s)!TitleIndexes, NEW index,
         \A t \in Titles : index[t].id = ix[t]
  PROVE  LET x == [Loading(s)!Begun("panel") EXCEPT !.index = index] IN
         RunLoads(x) /\ (\A R, D : RunMissesNone(R, D, x)) /\ x.at = "category"
<1> DEFINE x == [Loading(s)!Begun("panel") EXCEPT !.index = index]
<1>1. x.at = "category" /\ x.kind = "panel" /\ x.index = index /\ x.seen = {} /\ x.got = {} /\ x \in LoadRuns(x)
  BY BegunTyped DEF LoadRuns
<1>2. ASSUME NEW t \in Titles, ix[t] # "none" PROVE ix[t] \in Shown \cup Titles /\ TitleIs(ix[t]) = t
  <2>1. DOMAIN rows = Shown \cup Titles
    BY DEF LoadInv, LoadTypes
  <2>2. \/ ix[t] = "none"
        \/ ix[t] \in {id \in DOMAIN rows : Loading(s)!Titled(id) = t /\ rows[id] # "absent"}
    BY DEF Loading!TitleIndexes, Loading!NoBody, Loading!Absent
  <2>3. QED
    BY <1>2, <2>1, <2>2 DEF Loading!Titled, TitleIs
<1> HIDE DEF x
<1>3. RunLoads(x)
  BY <1>1, <1>2 DEF RunLoads
<1>4. \A R, D : RunMissesNone(R, D, x)
  BY <1>1 DEF RunMissesNone
<1>5. QED
  BY <1>1, <1>3, <1>4 DEF x

LEMMA StartLoads ==
  ASSUME NEW s, LoadFits(s), LoadInv(s), NEW r \in DOMAIN s.kinds,
         Loading(s)!StartPanel(r) \/ Loading(s)!StartCommand(r) \/ Loading(s)!StartCatalog(r)
  PROVE  LoadInv(s)'
<1>1. UNCHANGED <<rows, disk, faults, restarts>>
  BY DEF Loading!StartPanel, Loading!StartCommand, Loading!StartCatalog
<1>2. \E x : /\ run' = [run EXCEPT ![r] = x] /\ RunLoads(x) /\ RunMissesNone(rows, disk, x) /\ x.at = "category"
  <2>1. CASE Loading(s)!StartPanel(r)
    <3>1. PICK ix \in Loading(s)!TitleIndexes :
            run' = [run EXCEPT ![r] = [Loading(s)!Begun("panel") EXCEPT !.index =
                     [t \in Titles |-> [id |-> ix[t], body |-> IF ix[t] = "none" THEN "none" ELSE rows[ix[t]]]]]]
      BY <2>1 DEF Loading!StartPanel, Loading!NoBody
    <3> DEFINE index == [t \in Titles |-> [id |-> ix[t], body |-> IF ix[t] = "none" THEN "none" ELSE rows[ix[t]]]]
    <3>2. \A t \in Titles : index[t].id = ix[t]
      OBVIOUS
    <3>3. run' = [run EXCEPT ![r] = [Loading(s)!Begun("panel") EXCEPT !.index = index]]
      BY <3>1
    <3> HIDE DEF index
    <3>4. QED
      BY <3>2, <3>3, PanelLoads
  <2>2. CASE Loading(s)!StartCommand(r)
    BY <2>2, BegunLoads DEF Loading!StartCommand
  <2>3. CASE Loading(s)!StartCatalog(r)
    BY <2>3, BegunLoads DEF Loading!StartCatalog
  <2>4. QED
    BY <2>1, <2>2, <2>3
<1>3. QED
  BY <1>1, <1>2, CountsKept, LoadTurns

LEMMA FirstPages ==
  ASSUME NEW c \in DOMAIN Listing, NEW most \in Nat \ {0}
  PROVE  LET p == SubSeq(Listing[c], 1, IF Len(Listing[c]) < most THEN Len(Listing[c]) ELSE most)
         IN  p \in Seq(Seq(Shown)) /\ p # <<>>
<1> DEFINE n == IF Len(Listing[c]) < most THEN Len(Listing[c]) ELSE most
<1>1. Listing[c] \in Seq(Seq(Shown)) /\ Listing[c] # <<>>
  BY ShownHasTitle
<1>2. n \in 1..Len(Listing[c]) /\ Len(Listing[c]) \in Nat
  BY <1>1
<1>3. \A i \in 1..n : Listing[c][i] \in Seq(Shown)
  BY <1>1, <1>2
<1>4. SubSeq(Listing[c], 1, n) \in Seq(Seq(Shown)) /\ Len(SubSeq(Listing[c], 1, n)) = n
  <2> HIDE DEF n
  <2>1. QED
    BY <1>2, <1>3, SubSeqProperties
<1>5. QED
  BY <1>2, <1>4

LEMMA CategoryLoads ==
  ASSUME NEW s, LoadFits(s), LoadInv(s), NEW r \in DOMAIN s.kinds, Loading(s)!NextCategory(r)
  PROVE  LoadInv(s)'
<1>1. RunLoads(run[r]) /\ RunMissesNone(rows, disk, run[r]) /\ run[r].at = "category"
  BY LoadAtHand DEF Loading!NextCategory
<1>2. CASE \E at \in {"save", "over"} : \E docs :
             run' = [run EXCEPT ![r].at = at, ![r].docs = docs]
  <2>1. PICK at \in {"save", "over"} : \E docs : run' = [run EXCEPT ![r].at = at, ![r].docs = docs]
    BY <1>2
  <2>2. PICK docs : run' = [run EXCEPT ![r].at = at, ![r].docs = docs]
    BY <2>1
  <2> DEFINE x == [run[r] EXCEPT !.at = at, !.docs = docs]
  <2>3. run' = [run EXCEPT ![r] = x]
    BY <2>2
  <2>4. x.at = at /\ RunLoads(x)
    BY <1>1 DEF RunLoads, LoadRuns
  <2>5. RunMissesNone(rows, disk, x)
    BY <1>1 DEF RunMissesNone, RunLoads, LoadRuns
  <2> HIDE DEF x
  <2>6. QED
    BY <2>3, <2>4, <2>5, CountsKept, LoadTurns DEF Loading!NextCategory
<1>3. CASE \E c \in run[r].cats :
             run' = [run EXCEPT ![r].at = "page", ![r].cats = @ \ {c},
                       ![r].pages = SubSeq(Listing[c], 1, IF Len(Listing[c]) < s.pages THEN Len(Listing[c]) ELSE s.pages)]
  <2>1. PICK c \in run[r].cats :
             run' = [run EXCEPT ![r].at = "page", ![r].cats = @ \ {c},
                       ![r].pages = SubSeq(Listing[c], 1, IF Len(Listing[c]) < s.pages THEN Len(Listing[c]) ELSE s.pages)]
    BY <1>3
  <2> DEFINE p == SubSeq(Listing[c], 1, IF Len(Listing[c]) < s.pages THEN Len(Listing[c]) ELSE s.pages)
             x == [run[r] EXCEPT !.at = "page", !.cats = @ \ {c}, !.pages = p]
  <2>2. run' = [run EXCEPT ![r] = x]
    BY <2>1
  <2>3. p \in Seq(Seq(Shown)) /\ p # <<>>
    BY <1>1, FirstPages DEF RunLoads, LoadRuns, LoadFits
  <2> HIDE DEF p
  <2>4. x.at = "page" /\ RunLoads(x)
    BY <1>1, <2>3 DEF RunLoads, LoadRuns
  <2>5. RunMissesNone(rows, disk, x)
    BY <1>1 DEF RunMissesNone, RunLoads, LoadRuns
  <2> HIDE DEF x
  <2>6. QED
    BY <2>2, <2>4, <2>5, CountsKept, LoadTurns DEF Loading!NextCategory
<1>4. QED
  BY <1>2, <1>3 DEF Loading!NextCategory

LEMMA HeadOfPages ==
  ASSUME NEW S, NEW q \in Seq(S), q # <<>>
  PROVE  Head(q) \in S /\ Tail(q) \in Seq(S) /\ (Len(q) > 1 => Tail(q) # <<>>)
<1>1. Head(q) \in S /\ Tail(q) \in Seq(S) /\ Len(Tail(q)) = Len(q) - 1 /\ Len(q) \in Nat
  OBVIOUS
<1>2. Len(<<>>) = 0
  OBVIOUS
<1>3. ASSUME Len(q) > 1, Tail(q) = <<>> PROVE FALSE
  <2>1. Len(Tail(q)) = 0
    BY <1>2, <1>3
  <2>2. QED
    BY <1>1, <1>3, <2>1
<1>4. QED
  BY <1>1, <1>3

LEMMA PageLoads ==
  ASSUME NEW s, LoadFits(s), LoadInv(s), NEW r \in DOMAIN s.kinds, Loading(s)!FetchPage(r)
  PROVE  LoadInv(s)'
<1>1. RunLoads(run[r]) /\ RunMissesNone(rows, disk, run[r]) /\ run[r].at = "page"
  BY LoadAtHand DEF Loading!FetchPage
<1>2. PICK n : n = run[r]
  OBVIOUS
<1>3. n \in LoadRuns(n) /\ n.pages # <<>> /\ n.pages \in Seq(Seq(Shown)) /\ n.at = "page"
  BY <1>1, <1>2 DEF RunLoads, LoadRuns
<1>4. /\ Head(n.pages) \in Seq(Shown) /\ Tail(n.pages) \in Seq(Seq(Shown))
      /\ Len(n.pages) > 1 => Tail(n.pages) # <<>>
  BY <1>3, HeadOfPages
<1>5. CASE n.kind = "catalog"
  <2> DEFINE more == n.docs \o Loading(s)!Unseen(n)
             read == n.seen \cup {Head(n.pages)[i] : i \in DOMAIN Head(n.pages)}
             to == IF Len(n.pages) > 1 THEN "page" ELSE "category"
             x == [n EXCEPT !.at = to, !.docs = more, !.seen = read, !.pages = Tail(@)]
  <2>1. [Loading(s)!Gathered(n) EXCEPT !.pages = Tail(@)] = x
    <3>1. Loading(s)!Gathered(n) = [n EXCEPT !.at = to, !.docs = more, !.seen = read]
      BY DEF Loading!Gathered
    <3> HIDE DEF to, more, read
    <3>2. QED
      BY <1>3, <3>1 DEF LoadRuns
  <2>2. run' = [run EXCEPT ![r] = x]
    BY <1>2, <1>5, <2>1 DEF Loading!FetchPage
  <2>3. read \in SUBSET Shown /\ to \in {"page", "category"}
    BY <1>3, <1>4 DEF LoadRuns
  <2>4. to = "page" => Tail(n.pages) # <<>>
    BY <1>4
  <2> HIDE DEF more, read, to
  <2>5. x \in LoadRuns(x) /\ x.at = to /\ x.kind = n.kind /\ x.pages = Tail(n.pages)
    BY <1>3, <1>4, <2>3 DEF LoadRuns
  <2> HIDE DEF x
  <2>6. RunLoads(x)
    BY <1>5, <2>3, <2>4, <2>5 DEF RunLoads
  <2>7. RunMissesNone(rows, disk, x)
    BY <1>5, <2>5 DEF RunMissesNone
  <2>8. QED
    BY <2>2, <2>3, <2>5, <2>6, <2>7, CountsKept, LoadTurns DEF Loading!FetchPage
<1>6. CASE n.kind # "catalog"
  <2> DEFINE x == [n EXCEPT !.at = "file", !.docs = Head(n.pages), !.pages = Tail(@)]
  <2>1. run' = [run EXCEPT ![r] = [[n EXCEPT !.at = "file", !.docs = Head(n.pages)] EXCEPT !.pages = Tail(@)]]
    BY <1>2, <1>6 DEF Loading!FetchPage
  <2>2. run' = [run EXCEPT ![r] = x]
    BY <1>3, <2>1 DEF LoadRuns
  <2>3. x.at = "file" /\ RunLoads(x)
    <3>1. PICK h, u : h = Head(n.pages) /\ u = Tail(n.pages)
      OBVIOUS
    <3>2. x = [n EXCEPT !.at = "file", !.docs = h, !.pages = u]
      BY <1>3, <3>1 DEF LoadRuns
    <3>3. h \in Seq(Shown) /\ u \in Seq(Seq(Shown))
      BY <1>4, <3>1
    <3> HIDE DEF x
    <3>4. x \in LoadRuns(x) /\ x.at = "file" /\ x.docs = h /\ x.kind = n.kind /\ x.index = n.index
      BY <1>3, <3>2, <3>3 DEF LoadRuns
    <3>5. QED
      BY <1>1, <1>2, <1>3, <1>6, <3>3, <3>4 DEF RunLoads
  <2>4. RunMissesNone(rows, disk, x)
    BY <1>1, <1>2, <1>3 DEF RunMissesNone, LoadRuns
  <2> HIDE DEF x
  <2>5. QED
    BY <2>2, <2>3, <2>4, CountsKept, LoadTurns DEF Loading!FetchPage
<1>7. QED
  BY <1>5, <1>6

LEMMA PassesLoads ==
  ASSUME NEW s, LoadFits(s), LoadInv(s), NEW r \in DOMAIN s.kinds,
         Loading(s)!FetchPageFails(r) \/ Loading(s)!PageDone(r) \/ Loading(s)!Refused(r)
         \/ Loading(s)!RegisterFails(r) \/ Loading(s)!Saved(r)
         \/ (\E read \in BOOLEAN : Loading(s)!ReadItem(r, read)) \/ Loading(s)!WriteItemFails(r)
  PROVE  LoadInv(s)'
<1>1. RunLoads(run[r]) /\ RunMissesNone(rows, disk, run[r])
  BY LoadAtHand
<1>2. PICK n : n = run[r]
  OBVIOUS
<1>3. n \in LoadRuns(n)
  BY <1>1, <1>2 DEF RunLoads
<1>4. UNCHANGED <<rows, disk>> /\ faults' \in 0..s.faults /\ restarts' \in 0..s.restarts
  BY CountsKept DEF Loading!FetchPageFails, Loading!PageDone, Loading!Refused, Loading!RegisterFails, Loading!Saved,
       Loading!ReadItem, Loading!WriteItemFails
<1>5. CASE Loading(s)!FetchPageFails(r)
  <2> DEFINE x == [n EXCEPT !.at = "category", !.pages = <<>>, !.broken = TRUE]
  <2>1. run' = [run EXCEPT ![r] = x]
    BY <1>2, <1>5 DEF Loading!FetchPageFails
  <2>2. x.at = "category" /\ x.broken /\ RunLoads(x)
    <3>1. <<>> \in Seq(Seq(Shown))
      OBVIOUS
    <3>2. PICK u \in Seq(Seq(Shown)) : u = <<>>
      BY <3>1, Zenon
    <3>3. x = [n EXCEPT !.at = "category", !.pages = u, !.broken = TRUE]
      BY <3>2
    <3> HIDE DEF x
    <3>4. /\ x \in LoadRuns(x) /\ x.at = "category" /\ x.broken /\ x.kind = n.kind /\ x.index = n.index
      BY <1>3, <3>3 DEF LoadRuns
    <3>5. n.at = "page"
      BY <1>2, <1>5 DEF Loading!FetchPageFails
    <3>6. QED
      BY <1>1, <1>2, <3>4, <3>5 DEF RunLoads
  <2> HIDE DEF x
  <2>3. QED
    BY <1>4, <2>1, <2>2, LoadTurns DEF RunMissesNone
<1>6. CASE Loading(s)!PageDone(r)
  <2> DEFINE x == [n EXCEPT !.at = IF n.pages = <<>> THEN "category" ELSE "page", !.docs = <<>>]
  <2>1. run' = [run EXCEPT ![r] = x] /\ n.at = "file"
    BY <1>2, <1>6 DEF Loading!PageDone
  <2>2. x.at \in {"category", "page"} /\ RunLoads(x)
    BY <1>1, <1>2, <1>3, <2>1 DEF RunLoads, LoadRuns
  <2>3. RunMissesNone(rows, disk, x)
    BY <1>1, <1>2, <1>3, <2>1 DEF RunMissesNone, LoadRuns
  <2> HIDE DEF x
  <2>4. QED
    BY <1>4, <2>1, <2>2, <2>3, LoadTurns
<1>7. CASE Loading(s)!Refused(r)
  <2> DEFINE x == [n EXCEPT !.at = "file", !.failed = @ \cup {n.link}]
  <2>1. run' = [run EXCEPT ![r] = x] /\ n.at = "download"
    BY <1>2, <1>7 DEF Loading!Refused
  <2>2. x.at = "file" /\ RunLoads(x)
    BY <1>1, <1>2, <1>3, <2>1 DEF RunLoads, LoadRuns
  <2>3. RunMissesNone(rows, disk, x)
    BY <1>1, <1>2, <1>3, <2>1 DEF RunMissesNone, LoadRuns
  <2> HIDE DEF x
  <2>4. QED
    BY <1>4, <2>1, <2>2, <2>3, LoadTurns
<1>8. CASE Loading(s)!RegisterFails(r)
  <2> DEFINE x == [n EXCEPT !.at = "file", !.broken = TRUE]
  <2>1. run' = [run EXCEPT ![r] = x] /\ n.at = "register"
    BY <1>2, <1>8 DEF Loading!RegisterFails
  <2>2. x.at = "file" /\ x.broken /\ RunLoads(x)
    BY <1>1, <1>2, <1>3, <2>1 DEF RunLoads, LoadRuns
  <2> HIDE DEF x
  <2>3. QED
    BY <1>4, <2>1, <2>2, LoadTurns DEF RunMissesNone
<1>9. CASE Loading(s)!Saved(r)
  <2> DEFINE x == [n EXCEPT !.at = "over"]
  <2>1. run' = [run EXCEPT ![r] = x] /\ n.at = "save"
    BY <1>2, <1>9 DEF Loading!Saved
  <2>2. x.at = "over" /\ RunLoads(x)
    BY <1>1, <1>2, <1>3, <2>1 DEF RunLoads, LoadRuns
  <2>3. RunMissesNone(rows, disk, x)
    BY <1>1, <1>2, <1>3, <2>1 DEF RunMissesNone, LoadRuns
  <2> HIDE DEF x
  <2>4. QED
    BY <1>4, <2>1, <2>2, <2>3, LoadTurns
<1>10. CASE \E read \in BOOLEAN : Loading(s)!ReadItem(r, read)
  <2> DEFINE Item(at, d, l) == [run EXCEPT ![r] = [n EXCEPT !.at = at, !.docs = d, !.link = l]]
  <2>1. PICK at \in {"save", "write"} : \E d, l : run' = Item(at, d, l)
    <3>1. n.at = "save"
      BY <1>2, <1>10 DEF Loading!ReadItem
    <3>2. CASE \E l : run' = [run EXCEPT ![r].at = "write", ![r].docs = Tail(@), ![r].link = l]
      <4>1. PICK l : run' = [run EXCEPT ![r].at = "write", ![r].docs = Tail(@), ![r].link = l]
        BY <3>2
      <4>2. run' = Item("write", Tail(n.docs), l)
        BY <1>2, <1>3, <4>1 DEF LoadRuns
      <4> HIDE DEF Item
      <4>3. QED
        BY <4>2
    <3>3. CASE run' = [run EXCEPT ![r].docs = Tail(@)]
      <4>1. run' = [run EXCEPT ![r] = [n EXCEPT !.docs = Tail(n.docs)]]
        BY <1>2, <1>3, <3>3 DEF LoadRuns
      <4>2. [n EXCEPT !.docs = Tail(n.docs)] = [n EXCEPT !.at = "save", !.docs = Tail(n.docs), !.link = n.link]
        BY <1>3, <3>1 DEF LoadRuns
      <4>3. run' = Item("save", Tail(n.docs), n.link)
        BY <4>1, <4>2
      <4> HIDE DEF Item
      <4>4. QED
        BY <4>3
    <3>4. QED
      BY <1>10, <3>2, <3>3 DEF Loading!ReadItem
  <2>6. PICK d, l : run' = Item(at, d, l)
    BY <2>1
  <2> DEFINE x == [n EXCEPT !.at = at, !.docs = d, !.link = l]
  <2>2. run' = [run EXCEPT ![r] = x] /\ n.at = "save"
    BY <1>2, <1>10, <2>6 DEF Loading!ReadItem
  <2>3. x.at = at /\ RunLoads(x)
    BY <1>1, <1>2, <1>3, <2>2 DEF RunLoads, LoadRuns
  <2>4. RunMissesNone(rows, disk, x)
    BY <1>1, <1>2, <1>3, <2>2 DEF RunMissesNone, LoadRuns
  <2> HIDE DEF x
  <2>5. QED
    BY <1>4, <2>2, <2>3, <2>4, LoadTurns
<1>11. CASE Loading(s)!WriteItemFails(r)
  <2> DEFINE x == [n EXCEPT !.at = "save"]
  <2>1. run' = [run EXCEPT ![r] = x] /\ n.at = "write"
    BY <1>2, <1>11 DEF Loading!WriteItemFails
  <2>2. x.at = "save" /\ RunLoads(x)
    BY <1>1, <1>2, <1>3, <2>1 DEF RunLoads, LoadRuns
  <2>3. RunMissesNone(rows, disk, x)
    BY <1>1, <1>2, <1>3, <2>1 DEF RunMissesNone, LoadRuns
  <2> HIDE DEF x
  <2>4. QED
    BY <1>4, <2>1, <2>2, <2>3, LoadTurns
<1>12. QED
  BY <1>5, <1>6, <1>7, <1>8, <1>9, <1>10, <1>11

LEMMA FileLoads ==
  ASSUME NEW s, LoadFits(s), LoadInv(s), NEW r \in DOMAIN s.kinds, NEW read \in BOOLEAN,
         Loading(s)!NextFile(r, read)
  PROVE  LoadInv(s)'
<1>1. RunLoads(run[r]) /\ RunMissesNone(rows, disk, run[r])
  BY LoadAtHand
<1>2. PICK n : n = run[r]
  OBVIOUS
<1>3. n \in LoadRuns(n) /\ n.at = "file" /\ n.docs \in Seq(Shown) /\ n.docs # <<>>
  BY <1>1, <1>2 DEF RunLoads, Loading!NextFile
<1> DEFINE l == Head(n.docs)
           skip == read /\ rows[l] \in disk
           found == IF l \notin n.seen /\ skip THEN n.got \cup {TitleOf[l]} ELSE n.got
           p == [n EXCEPT !.docs = Tail(@), !.seen = @ \cup {l}, !.got = found]
           wanted == l \notin n.seen /\ ~skip /\ TitleOf[l] \notin n.got
<1>4. l \in Shown /\ Tail(n.docs) \in Seq(Shown) /\ TitleOf[l] \in Titles
  BY <1>3, HeadOfPages, ShownHasTitle
<1>5. Loading(s)!Passed(n, l, skip) = p
  BY <1>3 DEF Loading!Passed, LoadRuns
<1>6. Loading(s)!Wanted(n, l, skip) = wanted
  BY DEF Loading!Wanted
<1>7. run' = [run EXCEPT ![r] = IF wanted THEN [p EXCEPT !.at = "download", !.link = l] ELSE p]
  BY <1>2, <1>5, <1>6 DEF Loading!NextFile, Loading!OnDisk
<1>8. found \in SUBSET Titles /\ (wanted => found = n.got)
  BY <1>3, <1>4 DEF LoadRuns
<1>9. TitleIs(l) = TitleOf[l]
  BY <1>4 DEF TitleIs
<1>10. \A t \in found : t \in n.got \/ Fetched(rows, disk, t)
  BY <1>4, <1>9 DEF Fetched
<1>11. n.got \subseteq found /\ (l \notin n.seen /\ ~wanted => TitleOf[l] \in found)
  OBVIOUS
<1> HIDE DEF l, found
<1>12. CASE wanted
  <2> DEFINE x == [n EXCEPT !.docs = Tail(@), !.seen = @ \cup {l}, !.got = found, !.at = "download", !.link = l]
  <2>1. run' = [run EXCEPT ![r] = x]
    BY <1>3, <1>7, <1>12 DEF LoadRuns
  <2>2. x.at = "download" /\ RunLoads(x)
    BY <1>1, <1>2, <1>3, <1>4, <1>8 DEF RunLoads, LoadRuns
  <2>3. RunMissesNone(rows, disk, x)
    <3>1. /\ x.at = "download" /\ x.link = l /\ x.seen = n.seen \cup {l} /\ x.got = n.got /\ x.kind = n.kind
          /\ x.broken = n.broken /\ x.failed = n.failed /\ x.erased = n.erased
      BY <1>3, <1>8, <1>12 DEF LoadRuns
    <3> HIDE DEF x
    <3>2. QED
      BY <1>1, <1>2, <1>3, <3>1 DEF RunMissesNone
  <2> HIDE DEF x
  <2>4. QED
    BY <2>1, <2>2, <2>3, CountsKept, LoadTurns DEF Loading!NextFile
<1>13. CASE ~wanted
  <2>1. run' = [run EXCEPT ![r] = p]
    BY <1>7, <1>13
  <2>2. p.at = "file" /\ RunLoads(p)
    BY <1>1, <1>2, <1>3, <1>4, <1>8 DEF RunLoads, LoadRuns
  <2>3. RunMissesNone(rows, disk, p)
    <3>1. /\ p.at = "file" /\ p.seen = n.seen \cup {l} /\ p.got = found /\ p.kind = n.kind
          /\ p.broken = n.broken /\ p.failed = n.failed /\ p.erased = n.erased
      BY <1>3 DEF LoadRuns
    <3>2. l \notin n.seen => TitleOf[l] \in found
      BY <1>11, <1>13
    <3> HIDE DEF p, wanted
    <3>3. QED
      BY <1>1, <1>2, <1>3, <1>10, <1>11, <3>1, <3>2 DEF RunMissesNone
  <2> HIDE DEF p
  <2>4. QED
    BY <2>1, <2>2, <2>3, CountsKept, LoadTurns DEF Loading!NextFile
<1>14. QED
  BY <1>12, <1>13

LEMMA DownloadLoads ==
  ASSUME NEW s, LoadFits(s), LoadInv(s), NEW r \in DOMAIN s.kinds, Loading(s)!Download(r)
  PROVE  LoadInv(s)'
<1>1. RunLoads(run[r]) /\ RunMissesNone(rows, disk, run[r])
  BY LoadAtHand
<1>2. PICK n : n = run[r]
  OBVIOUS
<1>3. n \in LoadRuns(n) /\ n.at = "download" /\ n.link \in Shown /\ disk' = disk \cup {n.link} /\ rows' = rows
  BY <1>1, <1>2 DEF RunLoads, Loading!Download
<1>4. TitleOf[n.link] \in Titles
  BY <1>3, ShownHasTitle
<1> DEFINE x == [n EXCEPT !.at = "register", !.got = @ \cup {TitleOf[n.link]}, !.done = @ + 1]
<1>5. run' = [run EXCEPT ![r] = x]
  BY <1>2 DEF Loading!Download, Loading!Downloaded
<1>6. x.at = "register" /\ x.link = n.link /\ RunLoads(x)
  <2>1. n.got \in SUBSET Titles /\ n.done \in Nat
    BY <1>3 DEF LoadRuns
  <2>2. n.got \cup {TitleOf[n.link]} \in SUBSET Titles /\ n.done + 1 \in Nat
    BY <1>4, <2>1
  <2>3. PICK g \in SUBSET Titles, d \in Nat : g = n.got \cup {TitleOf[n.link]} /\ d = n.done + 1
    BY <2>2, Zenon
  <2>4. x = [n EXCEPT !.at = "register", !.got = g, !.done = d]
    BY <1>3, <2>3 DEF LoadRuns
  <2> HIDE DEF x
  <2>5. /\ x \in LoadRuns(x) /\ x.at = "register" /\ x.kind = n.kind /\ x.index = n.index
        /\ x.link = n.link /\ x.docs = n.docs
    BY <1>3, <2>4 DEF LoadRuns
  <2>6. QED
    BY <1>1, <1>2, <1>3, <2>5 DEF RunLoads
<1>7. Keeps
  BY <1>3 DEF Keeps, Fetched
<1>8. RunMissesNone(rows', disk', x)
  <2>1. /\ x.at = "register" /\ x.link = n.link /\ x.seen = n.seen /\ x.got = n.got \cup {TitleOf[n.link]}
        /\ x.kind = n.kind /\ x.broken = n.broken /\ x.failed = n.failed /\ x.erased = n.erased
    BY <1>3 DEF LoadRuns
  <2> HIDE DEF x
  <2>2. QED
    BY <1>1, <1>2, <1>3, <1>7, <2>1 DEF RunMissesNone, Keeps
<1> HIDE DEF x
<1>9. LoadTypes(s)'
  BY <1>3, <1>5 DEF LoadInv, LoadTypes, Loading!Download
<1>10. QED
  BY <1>3, <1>5, <1>6, <1>7, <1>8, <1>9, LoadGoesOn

LEMMA TargetHasTitle ==
  ASSUME NEW s, LoadInv(s), NEW x, RunLoads(x), x.at = "register", NEW read \in BOOLEAN
  PROVE  Loading(s)!Target(x, read) \in Shown \cup Titles /\ TitleIs(Loading(s)!Target(x, read)) = TitleOf[x.link]
<1>1. x.link \in Shown /\ x.kind \in {"panel", "command", "catalog"}
  BY DEF RunLoads, LoadRuns
<1>2. TitleIs(x.link) = TitleOf[x.link] /\ TitleOf[x.link] \in Titles
  BY <1>1, ShownHasTitle DEF TitleIs
<1>3. CASE Loading(s)!Target(x, read) = x.link
  BY <1>1, <1>2, <1>3
<1>4. CASE Loading(s)!Target(x, read) # x.link
  <2>1. x.index[TitleOf[x.link]].id # "none" /\ Loading(s)!Target(x, read) = x.index[TitleOf[x.link]].id
        /\ x.kind # "command"
    BY <1>4 DEF Loading!Target, Loading!NoBody
  <2>2. QED
    BY <1>1, <1>2, <2>1 DEF RunLoads
<1>5. QED
  BY <1>3, <1>4

LEMMA RegisterLoads ==
  ASSUME NEW s, LoadFits(s), LoadInv(s), NEW r \in DOMAIN s.kinds, NEW read \in BOOLEAN,
         Loading(s)!Register(r, read)
  PROVE  LoadInv(s)'
<1>1. RunLoads(run[r]) /\ RunMissesNone(rows, disk, run[r]) /\ (run[r].at = "register" => run[r].link \in disk)
  BY LoadAtHand
<1>2. PICK n : n = run[r]
  OBVIOUS
<1> DEFINE to == Loading(s)!Target(n, read)
<1>3. /\ n \in LoadRuns(n) /\ n.at = "register" /\ n.link \in Shown /\ n.link \in disk
      /\ disk' = disk /\ rows' = [rows EXCEPT ![to] = n.link]
  BY <1>1, <1>2 DEF RunLoads, Loading!Register
<1>4. to \in Shown \cup Titles /\ TitleIs(to) = TitleOf[n.link]
  BY <1>1, <1>2, <1>3, TargetHasTitle
<1> HIDE DEF to
<1>5. rows \in [Shown \cup Titles -> Shown \cup {"none", "absent"}] /\ disk \subseteq Shown
  BY DEF LoadInv, LoadTypes
<1> DEFINE x == [n EXCEPT !.at = "file"]
<1>6. run' = [run EXCEPT ![r] = x]
  BY <1>2 DEF Loading!Register
<1>7. x.at = "file" /\ RunLoads(x)
  BY <1>1, <1>2, <1>3 DEF RunLoads, LoadRuns
<1>8. Keeps
  BY <1>3, <1>4, <1>5 DEF Keeps, Fetched
<1>9. Fetched(rows', disk', TitleOf[n.link])
  BY <1>3, <1>4, <1>5 DEF Fetched
<1>10. RunMissesNone(rows', disk', x)
  <2>1. /\ x.at = "file" /\ x.seen = n.seen /\ x.got = n.got
        /\ x.kind = n.kind /\ x.broken = n.broken /\ x.failed = n.failed /\ x.erased = n.erased
    BY <1>3 DEF LoadRuns
  <2> HIDE DEF x
  <2>2. QED
    BY <1>1, <1>2, <1>3, <1>8, <1>9, <2>1 DEF RunMissesNone, Keeps
<1> HIDE DEF x
<1>11. LoadTypes(s)'
  <2>1. faults' \in 0..s.faults /\ restarts' \in 0..s.restarts
    BY CountsKept DEF Loading!Register
  <2>2. QED
    BY <1>3, <1>4, <1>5, <1>6, <2>1 DEF LoadInv, LoadTypes
<1>12. QED
  BY <1>6, <1>7, <1>8, <1>10, <1>11, LoadGoesOn

LEMMA FileIs ==
  ASSUME NEW s, NEW R, DOMAIN R = Shown \cup Titles, NEW t
  PROVE  Loading(s)!HasFile(R, t) <=> Fetched(R, disk, t)
BY DEF Loading!HasFile, Loading!Titled, Fetched, TitleIs

LEMMA WriteLoads ==
  ASSUME NEW s, LoadFits(s), LoadInv(s), NEW r \in DOMAIN s.kinds, Loading(s)!WriteItem(r)
  PROVE  LoadInv(s)'
<1> DEFINE gone == {t \in Titles : Loading(s)!HasFile(rows, t) /\ ~Loading(s)!HasFile(rows', t)}
           Turned(q) == [run[q] EXCEPT !.at = IF q = r THEN "save" ELSE @,
                                       !.erased = IF run[q].at = "idle" THEN @ ELSE @ \cup gone]
<1>1. /\ disk' = disk /\ faults' = faults /\ restarts' = restarts /\ run[r].at = "write"
      /\ rows' = [rows EXCEPT ![run[r].link] = "none"]
      /\ run' = [q \in DOMAIN s.kinds |-> Turned(q)]
  BY DEF Loading!WriteItem, Loading!NoBody
<1>2. rows \in [Shown \cup Titles -> Shown \cup {"none", "absent"}]
  BY DEF LoadInv, LoadTypes
<1>3. rows' \in [Shown \cup Titles -> Shown \cup {"none", "absent"}]
  BY <1>1, <1>2
<1>4. LoadTypes(s)'
  BY <1>1, <1>3 DEF LoadInv, LoadTypes
<1>5. \A t \in Titles : Fetched(rows, disk, t) => Fetched(rows', disk', t) \/ t \in gone
  <2>1. DOMAIN rows = Shown \cup Titles /\ DOMAIN rows' = Shown \cup Titles
    BY <1>2, <1>3
  <2>2. \A t : Loading(s)!HasFile(rows, t) <=> Fetched(rows, disk, t)
    BY <2>1, FileIs
  <2>3. \A t : Loading(s)!HasFile(rows', t) <=> Fetched(rows', disk, t)
    BY <2>1, FileIs
  <2>4. QED
    BY <1>1, <2>2, <2>3
<1>6. gone \in SUBSET Titles
  OBVIOUS
<1> HIDE DEF gone
<1>7. ASSUME NEW q \in DOMAIN s.kinds
      PROVE  /\ RunLoads(run'[q]) /\ RunMissesNone(rows', disk', run'[q])
             /\ run'[q].at = "register" => run'[q].link \in disk'
  <2>1. RunLoads(run[q]) /\ RunMissesNone(rows, disk, run[q]) /\ (run[q].at = "register" => run[q].link \in disk)
    BY LoadAtHand
  <2>2. PICK n : n = run[q]
    OBVIOUS
  <2>3. n \in LoadRuns(n)
    BY <2>1, <2>2 DEF RunLoads
  <2>4. PICK at \in {n.at, "save"}, e \in SUBSET Titles :
          /\ run'[q] = [n EXCEPT !.at = at, !.erased = e]
          /\ n.at = "idle" => at = "idle" /\ e = n.erased
          /\ n.at # "idle" => e = n.erased \cup gone
          /\ at # n.at => n.at = "write"
    <3>1. run'[q] = [n EXCEPT !.at = IF q = r THEN "save" ELSE @,
                              !.erased = IF n.at = "idle" THEN @ ELSE @ \cup gone]
      BY <1>1, <2>2
    <3>2. n.erased \in SUBSET Titles
      BY <2>3 DEF LoadRuns
    <3>3. CASE n.at = "idle"
      BY <1>1, <2>2, <2>3, <3>1, <3>2, <3>3 DEF LoadRuns
    <3>4. CASE n.at # "idle"
      <4>1. n.erased \cup gone \in SUBSET Titles
        BY <1>6, <3>2
      <4>2. q = r => n.at = "write"
        BY <1>1, <2>2
      <4>3. run'[q] = [n EXCEPT !.at = IF q = r THEN "save" ELSE n.at, !.erased = n.erased \cup gone]
        BY <2>3, <3>1, <3>4 DEF LoadRuns
      <4>4. QED
        BY <3>4, <4>1, <4>2, <4>3
    <3>5. QED
      BY <3>3, <3>4
  <2> DEFINE x == [n EXCEPT !.at = at, !.erased = e]
  <2>5. /\ x \in LoadRuns(x) /\ x.at = at /\ x.erased = e /\ x.kind = n.kind /\ x.index = n.index /\ x.seen = n.seen
        /\ x.failed = n.failed /\ x.got = n.got /\ x.broken = n.broken /\ x.link = n.link /\ x.docs = n.docs
        /\ x.pages = n.pages
    BY <2>3, <2>4 DEF LoadRuns
  <2>6. run'[q] = x
    BY <2>4
  <2> HIDE DEF x
  <2>7. RunLoads(x)
    BY <2>1, <2>2, <2>4, <2>5 DEF RunLoads
  <2>8. RunMissesNone(rows', disk', x)
    <3>1. SUFFICES ASSUME x.kind # "catalog", ~x.broken
                   PROVE  /\ \A l \in x.seen \ x.failed : (x.at = "download" /\ x.link = l) \/ TitleOf[l] \in x.got
                          /\ \A t \in x.got : \/ x.at = "register" /\ TitleOf[x.link] = t
                                              \/ Fetched(rows', disk', t) \/ t \in x.erased
      BY DEF RunMissesNone
    <3>2. /\ \A l \in n.seen \ n.failed : (n.at = "download" /\ n.link = l) \/ TitleOf[l] \in n.got
          /\ \A t \in n.got : \/ n.at = "register" /\ TitleOf[n.link] = t
                              \/ Fetched(rows, disk, t) \/ t \in n.erased
      BY <2>1, <2>2, <2>5, <3>1 DEF RunMissesNone
    <3>3. \A l \in x.seen \ x.failed : (x.at = "download" /\ x.link = l) \/ TitleOf[l] \in x.got
      BY <2>4, <2>5, <3>2
    <3>4. ASSUME NEW t \in x.got
          PROVE  \/ x.at = "register" /\ TitleOf[x.link] = t
                 \/ Fetched(rows', disk', t) \/ t \in x.erased
      <4>1. t \in n.got /\ t \in Titles
        BY <2>3, <2>5, <3>4 DEF LoadRuns
      <4>2. CASE n.at = "idle"
        BY <2>1, <2>2, <4>1, <4>2 DEF RunLoads
      <4>3. CASE n.at # "idle"
        BY <1>5, <2>4, <2>5, <3>2, <4>1, <4>3
      <4>4. QED
        BY <4>2, <4>3
    <3>5. QED
      BY <3>3, <3>4
  <2>9. x.at = "register" => x.link \in disk'
    BY <1>1, <2>1, <2>2, <2>4, <2>5
  <2>10. QED
    BY <2>6, <2>7, <2>8, <2>9
<1>8. QED
  BY <1>4, <1>7 DEF LoadInv

LEMMA AnewLoads ==
  ASSUME NEW s, LoadFits(s), LoadInv(s), NEW r \in DOMAIN s.kinds, Loading(s)!Again(r) \/ Loading(s)!Stop(r)
  PROVE  LoadInv(s)'
<1>1. UNCHANGED <<rows, disk, faults>> /\ restarts < s.restarts /\ restarts' = restarts + 1
      /\ run' = [run EXCEPT ![r] = Loading(s)!NoRun]
  BY DEF Loading!Again, Loading!Stop
<1>2. QED
  BY <1>1, CountsKept, NoRunLoads, LoadTurns

LEMMA InductiveLoads ==
  ASSUME NEW s, LoadFits(s), LoadInv(s), [Loading(s)!Next]_(Loading(s)!vars)
  PROVE  LoadInv(s)'
<1>1. CASE UNCHANGED Loading(s)!vars
  BY <1>1 DEF Loading!vars, LoadInv, LoadTypes
<1>2. CASE Loading(s)!Next
  BY <1>2, StartLoads, CategoryLoads, PageLoads, PassesLoads, FileLoads, DownloadLoads, RegisterLoads,
     WriteLoads, AnewLoads DEF Loading!Next
<1>3. QED
  BY <1>1, <1>2

LEMMA LoadHolds ==
  ASSUME NEW s, LoadFits(s), LoadInv(s)
  PROVE  Loading(s)!TypeOK /\ Loading(s)!LiveTitlesAreFetched
<1>1. Loading(s)!TypeOK
  BY DEF LoadInv, LoadTypes, RunLoads, LoadRuns, Loading!TypeOK, Loading!NoBody, Loading!Absent
<1>2. ASSUME NEW r \in DOMAIN s.kinds, run[r].at = "over", run[r].kind # "catalog", ~ run[r].broken,
             NEW l \in run[r].seen \ run[r].failed
      PROVE  TitleOf[l] \in run[r].erased \/ Loading(s)!HasFile(rows, TitleOf[l])
  <2>1. TitleOf[l] \in run[r].erased \/ Fetched(rows, disk, TitleOf[l])
    BY <1>2 DEF LoadInv, RunMissesNone
  <2>2. DOMAIN rows = Shown \cup Titles
    BY DEF LoadInv, LoadTypes
  <2>3. QED
    BY <2>1, <2>2, FileIs
<1>3. QED
  BY <1>1, <1>2 DEF Loading!LiveTitlesAreFetched

\* Whatever runs overlap, fail and start anew, one that read every page, wrote
\* every row and stayed under its limit leaves each title it saw with a file
\* in the registry, unless every link of the title failed, or the listing has
\* written its only file over since the run began, which the next run repairs
\* (CollectViaCookie, registerOneCookieDoc, upsertCatalogItems).
THEOREM LiveTitlesGetFiles ==
  \A p \in DOMAIN Loads :
    Loading(Loads[p])!Spec => [](Loading(Loads[p])!TypeOK /\ Loading(Loads[p])!LiveTitlesAreFetched)
<1> TAKE p \in DOMAIN Loads
<1>1. LoadFits(Loads[p])
  BY LoadsAssumption DEF LoadFits
<1>2. Loading(Loads[p])!Init => LoadInv(Loads[p])
  BY <1>1, InitLoads
<1>3. LoadInv(Loads[p]) /\ [Loading(Loads[p])!Next]_(Loading(Loads[p])!vars) => LoadInv(Loads[p])'
  BY <1>1, InductiveLoads
<1>4. LoadInv(Loads[p]) => Loading(Loads[p])!TypeOK /\ Loading(Loads[p])!LiveTitlesAreFetched
  BY <1>1, LoadHolds
<1>5. QED
  BY <1>2, <1>3, <1>4, PTL DEF Loading!Spec

------------------------------------------------------------------------------

(* The walk over the site. *)

\* A page waits in the queue.
Waits(q, p) == \E i \in DOMAIN q : q[i] = p

WalkInv ==
  /\ links \in [WalkPages -> SUBSET WalkPages] /\ maxPages \in WalkLimits
  /\ queue \in Seq(WalkPages) /\ visited \subseteq WalkPages /\ lost \subseteq visited
  /\ Cardinality(visited) <= maxPages
  /\ \A p \in visited \ lost : \A q \in links[p] : q \in visited \/ Waits(queue, q)

LEMMA WalkCounts == \A S : Walk!Cardinality(S) = Cardinality(S)
BY DEF Walk!Cardinality, Cardinality

LEMMA WalkOrder ==
  ASSUME NEW S \in SUBSET WalkPages, NEW s \in Walk!Orders(S)
  PROVE  s \in Seq(WalkPages) /\ \A q \in S : Waits(s, q)
<1>1. IsFiniteSet(S)
  BY WalkAssumption, FS_Subset
<1>2. Cardinality(S) \in Nat
  BY <1>1, FS_CardinalityType
<1>3. s \in [1..Cardinality(S) -> S] /\ {s[i] : i \in DOMAIN s} = S
  BY WalkCounts DEF Walk!Orders
<1>4. s \in Seq(WalkPages)
  BY <1>2, <1>3
<1>5. QED
  BY <1>3, <1>4 DEF Waits

LEMMA InitWalk == ASSUME Walk!Init PROVE WalkInv
<1>1. PICK sitemap \in SUBSET (WalkPages \ {1}) : \E s \in Walk!Orders(sitemap) : queue = <<1>> \o s
  BY DEF Walk!Init, Walk!Seed
<1>2. PICK s \in Walk!Orders(sitemap) : queue = <<1>> \o s
  BY <1>1
<1>3. s \in Seq(WalkPages) /\ <<1>> \in Seq(WalkPages)
  BY WalkOrder, WalkAssumption
<1>4. queue \in Seq(WalkPages)
  BY <1>2, <1>3
<1>5. visited = {} /\ lost = {} /\ links \in [WalkPages -> SUBSET WalkPages] /\ maxPages \in WalkLimits
  BY DEF Walk!Init
<1>6. Cardinality(visited) <= maxPages
  BY <1>5, WalkAssumption, FS_EmptySet
<1>7. QED
  BY <1>4, <1>5, <1>6 DEF WalkInv

\* Who waits behind the first of a queue waits in its rest.
LEMMA RestWaits ==
  ASSUME NEW S, NEW q \in Seq(S), q # <<>>, NEW p, Waits(q, p)
  PROVE  p = Head(q) \/ Waits(Tail(q), p)
<1>1. PICK i \in 1..Len(q) : q[i] = p
  BY DEF Waits
<1>2. CASE i = 1
  BY <1>1, <1>2
<1>3. CASE i # 1
  <2>1. i - 1 \in DOMAIN Tail(q) /\ Tail(q)[i - 1] = q[i]
    BY <1>1, <1>3
  <2>2. QED
    BY <1>1, <2>1 DEF Waits
<1>4. QED
  BY <1>2, <1>3

LEMMA JoinedWait ==
  ASSUME NEW S, NEW q \in Seq(S), NEW t \in Seq(S), NEW p, Waits(q, p) \/ Waits(t, p)
  PROVE  Waits(q \o t, p)
<1>1. CASE Waits(q, p)
  <2>1. PICK i \in 1..Len(q) : q[i] = p
    BY <1>1 DEF Waits
  <2>2. i \in DOMAIN (q \o t) /\ (q \o t)[i] = p
    BY <2>1, InARow
  <2>3. QED
    BY <2>2 DEF Waits
<1>2. CASE Waits(t, p)
  <2>1. PICK i \in 1..Len(t) : t[i] = p
    BY <1>2 DEF Waits
  <2>2. Len(q) + i \in DOMAIN (q \o t) /\ (q \o t)[Len(q) + i] = p
    BY <2>1, InARow
  <2>3. QED
    BY <2>2 DEF Waits
<1>3. QED
  BY <1>1, <1>2

LEMMA StepWalk == ASSUME WalkInv, Walk!Next PROVE WalkInv'
<1> DEFINE h == Head(queue)
<1>1. /\ queue \in Seq(WalkPages) /\ queue # <<>> /\ links \in [WalkPages -> SUBSET WalkPages]
      /\ visited \subseteq WalkPages /\ lost \subseteq visited
      /\ \A p \in visited \ lost : \A q \in links[p] : q \in visited \/ Waits(queue, q)
  BY DEF WalkInv, Walk!Next, Walk!Drop, Walk!Crawl, Walk!Fails, Walk!Walking
<1>2. h \in WalkPages /\ Tail(queue) \in Seq(WalkPages)
  BY <1>1
<1>3. \A p \in visited \ lost : \A q \in links[p] : q \in visited \cup {h} \/ Waits(Tail(queue), q)
  BY <1>1, RestWaits
<1>4. maxPages' = maxPages /\ links' = links /\ maxPages \in WalkLimits /\ maxPages \in Nat
  BY WalkAssumption DEF WalkInv, Walk!Next, Walk!Drop, Walk!Crawl, Walk!Fails
<1>5. ASSUME h \notin visited, Cardinality(visited) < maxPages
      PROVE  Cardinality(visited \cup {h}) <= maxPages
  <2>1. IsFiniteSet(visited)
    BY <1>1, WalkAssumption, FS_Subset
  <2>2. Cardinality(visited \cup {h}) = Cardinality(visited) + 1 /\ Cardinality(visited) \in Nat
    BY <1>5, <2>1, FS_AddElement, FS_CardinalityType
  <2>3. QED
    BY <1>4, <1>5, <2>2
<1> HIDE DEF h
<1>6. CASE Walk!Drop
  <2>1. h \in visited /\ queue' = Tail(queue) /\ visited' = visited /\ lost' = lost
    BY <1>6 DEF Walk!Drop, h
  <2>2. QED
    BY <1>1, <1>2, <1>3, <1>4, <2>1 DEF WalkInv
<1>7. CASE Walk!Crawl
  <2>1. h \notin visited /\ Cardinality(visited) < maxPages /\ visited' = visited \cup {h} /\ lost' = lost
    BY <1>7, WalkCounts DEF Walk!Crawl, Walk!Walking, h
  <2>2. PICK s \in Walk!Orders(links[h] \ visited') : queue' = Tail(queue) \o s
    BY <1>7 DEF Walk!Crawl, h
  <2>3. s \in Seq(WalkPages) /\ \A q \in links[h] \ visited' : Waits(s, q)
    BY <1>1, <1>2, WalkOrder
  <2>4. queue' \in Seq(WalkPages)
    BY <1>2, <2>2, <2>3
  <2>5. \A q : Waits(Tail(queue), q) \/ Waits(s, q) => Waits(queue', q)
    BY <1>2, <2>2, <2>3, JoinedWait
  <2>6. \A p \in visited' \ lost' : \A q \in links[p] : q \in visited' \/ Waits(queue', q)
    BY <1>3, <2>1, <2>3, <2>5
  <2>7. QED
    BY <1>1, <1>2, <1>4, <1>5, <2>1, <2>4, <2>6 DEF WalkInv
<1>8. CASE Walk!Fails
  <2>1. /\ h \notin visited /\ Cardinality(visited) < maxPages /\ visited' = visited \cup {h}
        /\ lost' = lost \cup {h} /\ queue' = Tail(queue)
    BY <1>8, WalkCounts DEF Walk!Fails, Walk!Walking, h
  <2>2. QED
    BY <1>1, <1>2, <1>3, <1>4, <1>5, <2>1 DEF WalkInv
<1>9. QED
  BY <1>6, <1>7, <1>8 DEF Walk!Next

LEMMA InductiveWalk == ASSUME WalkInv, [Walk!Next]_(Walk!vars) PROVE WalkInv'
BY StepWalk DEF Walk!vars, WalkInv

LEMMA WalkHolds == ASSUME WalkInv PROVE Walk!TypeOK /\ Walk!WalkIsComplete
<1>1. queue = <<>> => \A q : ~ Waits(queue, q)
  BY DEF Waits
<1>2. Walk!TypeOK
  BY DEF WalkInv, Walk!TypeOK
<1>3. ASSUME queue = <<>>, NEW p \in visited \ lost PROVE links[p] \subseteq visited
  BY <1>1, <1>3 DEF WalkInv
<1>4. QED
  BY <1>2, <1>3, WalkCounts DEF WalkInv, Walk!WalkIsComplete

\* On every finite site the walk loads no more pages than it may, and when its
\* queue is empty has been to whatever a loaded page links to (EnumerateSite).
THEOREM WalkLeavesNothing ==
  Walk!Spec => [](Walk!TypeOK /\ Walk!WalkIsComplete)
BY InitWalk, InductiveWalk, WalkHolds, PTL DEF Walk!Spec

------------------------------------------------------------------------------

(* The lists of what was collected. *)

ListInv ==
  /\ asked \in [list : Lists!Lists, q : Lists!Questions, shown : SUBSET DOMAIN table, open : BOOLEAN]
  /\ Lists!Allowed(asked.list, asked.q)
  /\ IsFiniteSet(DOMAIN table) /\ DOMAIN table \subseteq 1..MaxRows
  /\ Lists!AnswersTheQuestion

LEMMA ListCounts == \A S : Lists!Cardinality(S) = Cardinality(S)
BY DEF Lists!Cardinality, Cardinality

\* A limit keeps a row back only behind as many rows as it lets through.
LEMMA CutKeepsBack ==
  ASSUME NEW S, IsFiniteSet(S), NEW n \in Nat
  PROVE  /\ Lists!Cut(S, n) \subseteq S
         /\ n = 0 => Lists!Cut(S, n) = S
         /\ \A i \in S \ Lists!Cut(S, n) : n > 0 /\ Lists!Before(S, i) >= n
<1>1. Lists!Cut(S, n) \subseteq S /\ (n = 0 => Lists!Cut(S, n) = S)
  BY DEF Lists!Cut
<1>2. ASSUME NEW i \in S \ Lists!Cut(S, n) PROVE n > 0 /\ Lists!Before(S, i) >= n
  <2>1. IsFiniteSet({j \in S : j < i})
    BY FS_Subset
  <2>2. Lists!Before(S, i) \in Nat
    BY <2>1, FS_CardinalityType, ListCounts DEF Lists!Before
  <2>3. n > 0 /\ ~(Lists!Before(S, i) < n)
    BY <1>2 DEF Lists!Cut
  <2>4. QED
    BY <2>2, <2>3
<1>3. QED
  BY <1>1, <1>2

\* What two lots of columns hold of a question is all of it, when the question asks no other.
LEMMA HasAll ==
  ASSUME NEW q, NEW i, NEW F, NEW G, q.wants \subseteq F \cup G
  PROVE  Lists!Has(q, i, F) /\ Lists!Has(q, i, G) <=> q.wants \subseteq table[i]
BY DEF Lists!Has

LEMMA HasOnly ==
  ASSUME NEW q, NEW i, NEW F, q.wants \subseteq F
  PROVE  Lists!Has(q, i, F) <=> q.wants \subseteq table[i]
BY DEF Lists!Has

\* What a list may be asked.
LEMMA Asking ==
  ASSUME NEW l \in Lists!Lists, NEW q \in Lists!Questions, Lists!Allowed(l, q)
  PROVE  /\ q.wants \subseteq {"text", "kind", "status", "tag"} /\ q.from \in Nat /\ q.to \in Nat /\ q.limit \in Nat
         /\ q = [wants |-> q.wants, from |-> q.from, to |-> q.to, recent |-> q.recent,
                 limit |-> q.limit, offset |-> q.offset]
         /\ q.recent \in Nat /\ q.offset \in Nat
         /\ q.wants \subseteq Lists!Offers(l)
         /\ q.from # 0 => "from" \in Lists!Offers(l)
         /\ q.to # 0 => "to" \in Lists!Offers(l)
         /\ q.recent # MaxRows => "recent" \in Lists!Offers(l)
         /\ q.limit # 0 => "limit" \in Lists!Offers(l)
         /\ q.offset # 0 => "offset" \in Lists!Offers(l)
<1>1. q.wants \subseteq {"text", "kind", "status", "tag"} /\ q.from \in 0..MaxRows /\ q.to \in 0..MaxRows
      /\ q.limit \in ListLimits /\ q.recent \in 0..MaxRows /\ q.offset \in 0..MaxRows
  BY DEF Lists!Questions, Lists!Facets
<1>2. q = [wants |-> q.wants, from |-> q.from, to |-> q.to, recent |-> q.recent,
           limit |-> q.limit, offset |-> q.offset]
  BY DEF Lists!Questions
<1>3. q.from \in Nat /\ q.to \in Nat /\ q.limit \in Nat /\ q.recent \in Nat /\ q.offset \in Nat
  BY <1>1, ListsAssumption
<1>4. QED
  BY <1>1, <1>2, <1>3 DEF Lists!Allowed

\* Only the lists of the changes have a period of their own, and only the pages an offset.
LEMMA Extras ==
  ASSUME NEW l \in Lists!Lists, NEW q \in Lists!Questions, Lists!Allowed(l, q)
  PROVE  /\ l \notin {"feed", "changes", "changes api"} => q.recent = MaxRows
         /\ l # "pages api" => q.offset = 0
<1>1. /\ q.recent # MaxRows => "recent" \in Lists!Offers(l)
      /\ q.offset # 0 => "offset" \in Lists!Offers(l)
  BY DEF Lists!Allowed
<1>2. l \notin {"feed", "changes", "changes api"} => "recent" \notin Lists!Offers(l)
  BY DEF Lists!Lists, Lists!Offers, Lists!Period, Lists!Facets
<1>3. l # "pages api" => "offset" \notin Lists!Offers(l)
  BY DEF Lists!Lists, Lists!Offers, Lists!Period, Lists!Facets
<1>4. QED
  BY <1>1, <1>2, <1>3

\* What is no place behind an offset within a limit is before it or after them.
LEMMA Outside ==
  ASSUME NEW p \in Nat, NEW o \in Nat, NEW n \in Nat, p \notin o..(o + n - 1)
  PROVE  p < o \/ p >= o + n
  OBVIOUS

LEMMA NoOffset == ASSUME NEW n \in Nat PROVE 0 + n = n
  OBVIOUS

\* No end of a period that is not given keeps a row away.
LEMMA NoEnds ==
  ASSUME NEW q, NEW i \in 1..MaxRows
  PROVE  (q.from = 0 /\ q.recent = MaxRows => Lists!Since(q, i)) /\ (q.to = 0 => Lists!Until(q, i))
BY ListsAssumption DEF Lists!Since, Lists!Until

\* The rows that are asked for.
Sought(q) == {i \in DOMAIN table : q.wants \subseteq table[i] /\ Lists!Since(q, i) /\ Lists!Until(q, i)}

LEMMA InitLists == ASSUME Lists!Init PROVE ListInv
<1>1. PICK l \in Lists!Lists, q \in Lists!Questions :
        /\ Lists!Allowed(l, q) /\ table \in Lists!Tables(q)
        /\ asked = [list |-> l, q |-> q, shown |-> {}, open |-> TRUE]
  BY DEF Lists!Init
<1>2. PICK n \in 0..MaxRows : table \in [1..n -> SUBSET q.wants]
  BY <1>1 DEF Lists!Tables
<1>3. DOMAIN table = 1..n /\ n \in Nat
  BY <1>2, ListsAssumption
<1>4. IsFiniteSet(DOMAIN table) /\ DOMAIN table \subseteq 1..MaxRows
  <2>1. IsFiniteSet(DOMAIN table)
    BY <1>3, FS_Interval
  <2>2. n <= MaxRows
    BY <1>2, ListsAssumption
  <2>3. QED
    BY <1>3, <2>1, <2>2, ListsAssumption
<1>5. asked.list = l /\ asked.q = q /\ asked.open = TRUE
  BY <1>1
<1>6. asked \in [list : Lists!Lists, q : Lists!Questions, shown : SUBSET DOMAIN table, open : BOOLEAN]
  BY <1>1
<1>7. Lists!AnswersTheQuestion
  BY <1>5 DEF Lists!AnswersTheQuestion
<1>8. QED
  BY <1>1, <1>3, <1>4, <1>5, <1>6, <1>7 DEF ListInv

\* What answers a question: rows that were asked for, and all of them but for a limit.
Fits(q, S, C, n) == /\ S \subseteq Sought(q)
                    /\ \A i \in Sought(q) \ S :
                         n > 0 /\ (Lists!Before(C, i) < q.offset \/ Lists!Before(C, i) >= q.offset + n)

LEMMA AllFit == ASSUME NEW q, NEW C, NEW n, NEW S, S = Sought(q) PROVE Fits(q, S, C, n)
BY DEF Fits

LEMMA CutFits ==
  ASSUME NEW q, NEW n \in Nat, NEW S, S = Lists!Cut(Sought(q), n), IsFiniteSet(DOMAIN table),
         q.offset = 0
  PROVE  Fits(q, S, Sought(q), n)
<1>1. IsFiniteSet(Sought(q))
  BY FS_Subset DEF Sought
<1>2. QED
  BY <1>1, CutKeepsBack DEF Fits

\* The lists that are cut at the limit of the question, if at any.
LEMMA PlainLists ==
  ASSUME NEW l \in Lists!Lists, NEW q \in Lists!Questions, Lists!Allowed(l, q),
         IsFiniteSet(DOMAIN table), DOMAIN table \subseteq 1..MaxRows,
         l \notin {"feed", "changes", "changes api"},
         ~(l = "events" /\ (q.from = 0) # (q.to = 0))
  PROVE  Fits(q, Lists!Answer(l, q), Sought(q), q.limit)
<1> DEFINE F == {"text", "kind", "status", "tag"}
<1>1. /\ q.wants \subseteq F /\ q.from \in Nat /\ q.to \in Nat /\ q.limit \in Nat
      /\ q = [wants |-> q.wants, from |-> q.from, to |-> q.to, recent |-> q.recent,
              limit |-> q.limit, offset |-> q.offset]
  BY Asking
<1>2. /\ q.wants \subseteq Lists!Offers(l)
      /\ q.from # 0 => "from" \in Lists!Offers(l)
      /\ q.to # 0 => "to" \in Lists!Offers(l)
      /\ q.limit # 0 => "limit" \in Lists!Offers(l)
  BY Asking
<1>3. \A i \in DOMAIN table : (q.from = 0 => Lists!Since(q, i)) /\ (q.to = 0 => Lists!Until(q, i))
  <2>1. q.recent = MaxRows
    BY Extras DEF Lists!Lists
  <2>2. QED
    BY <2>1, NoEnds
<1>18. l # "pages api" => q.offset = 0
  BY Extras DEF Lists!Lists
<1>4. \A i \in DOMAIN table : \A G, H : q.wants \subseteq G \cup H
        => (Lists!Has(q, i, G) /\ Lists!Has(q, i, H) <=> q.wants \subseteq table[i])
  BY HasAll
<1>5. \A i \in DOMAIN table : \A G : q.wants \subseteq G => (Lists!Has(q, i, G) <=> q.wants \subseteq table[i])
  BY HasOnly
<1>6. CASE l = "events"
  <2>1. q.wants \subseteq {"kind", "status"} \cup {"text"}
    BY <1>1, <1>2, <1>6 DEF Lists!Offers, Lists!Period
  <2>2. (q.from = 0) = (q.to = 0)
    BY <1>6
  <2>3. Lists!Words(Lists!ListEvents(q), q) = Sought(q)
    BY <1>3, <1>4, <2>1, <2>2 DEF Lists!Words, Lists!ListEvents, Sought, Lists!Numbers
  <2>4. Lists!Answer(l, q) = Lists!Cut(Sought(q), q.limit)
    BY <1>6, <2>3 DEF Lists!Answer, Lists!SearchEvents
  <2>5. QED
    BY <1>1, <2>4, <1>6, <1>18, CutFits
<1>7. CASE l \in {"contests", "benefits", "acts"}
  <2>1. q.wants \subseteq {"kind", "status"} \cup {"text"} /\ q.from = 0 /\ q.to = 0
    BY <1>1, <1>2, <1>7 DEF Lists!Offers, Lists!Period
  <2>2. Lists!Words({i \in DOMAIN table : Lists!Has(q, i, {"kind", "status"})}, q) = Sought(q)
    BY <1>3, <1>4, <2>1 DEF Lists!Words, Sought
  <2>3. Lists!Answer(l, q) = Lists!Cut(Sought(q), q.limit)
    BY <1>7, <2>2 DEF Lists!Answer, Lists!SearchContests, Lists!SearchPreferences, Lists!SearchNPA,
       Lists!ListContests, Lists!ListPreferences, Lists!ListNPA, Lists!Numbers
  <2>4. QED
    BY <1>1, <2>3, <1>7, <1>18, CutFits
<1>8. CASE l = "faq"
  <2>1. q.wants \subseteq {"kind"} \cup {"text"} /\ q.from = 0 /\ q.to = 0
    BY <1>1, <1>2, <1>8 DEF Lists!Offers, Lists!Period
  <2>2. Lists!Words(Lists!ListFAQItems(q), q) = Sought(q)
    BY <1>3, <1>4, <2>1 DEF Lists!Words, Lists!ListFAQItems, Sought, Lists!Numbers
  <2>3. Lists!Answer(l, q) = Lists!Cut(Sought(q), q.limit)
    BY <1>8, <2>2 DEF Lists!Answer, Lists!SearchFAQ
  <2>4. QED
    BY <1>1, <2>3, <1>8, <1>18, CutFits
<1>9. CASE l = "residents"
  <2>1. q.wants \subseteq {"kind", "status", "text"} /\ q.from = 0 /\ q.to = 0
    BY <1>1, <1>2, <1>9 DEF Lists!Offers, Lists!Period
  <2>2. Lists!ListResidents(q) = Sought(q)
    BY <1>3, <1>5, <2>1 DEF Lists!ListResidents, Sought, Lists!Numbers
  <2>3. Lists!Answer(l, q) = Lists!Cut(Sought(q), q.limit)
    BY <1>9, <2>2 DEF Lists!Answer, Lists!SearchResidents
  <2>4. QED
    BY <1>1, <2>3, <1>9, <1>18, CutFits
<1>10. CASE l \in {"links", "clients api"}
  <2>1. q.wants \subseteq {"kind"} /\ q.from = 0 /\ q.to = 0
    BY <1>1, <1>2, <1>10 DEF Lists!Offers, Lists!Period
  <2>2. {i \in DOMAIN table : Lists!Has(q, i, {"kind"})} = Sought(q)
    BY <1>3, <1>5, <2>1 DEF Sought
  <2>3. Lists!Answer(l, q) = Sought(q)
    BY <1>10, <2>2 DEF Lists!Answer, Lists!DocumentLinks, Lists!GetDocumentLinks, Lists!ClientsAPI,
       Lists!ListClients, Lists!Numbers
  <2>4. QED
    BY <2>3, AllFit
<1>11. CASE l = "events page"
  <2>1. q.wants \subseteq {"kind", "status"} /\ q.from = 0 /\ q.to = 0
    BY <1>1, <1>2, <1>11 DEF Lists!Offers, Lists!Period
  <2>2. [q EXCEPT !.from = 0, !.to = 0] = q
    BY <1>1, <2>1
  <2>3. Lists!ListEvents(q) = Sought(q)
    BY <1>3, <1>5, <2>1 DEF Lists!ListEvents, Sought, Lists!Numbers
  <2>4. Lists!Answer(l, q) = Sought(q)
    BY <1>11, <2>2, <2>3 DEF Lists!Answer, Lists!EventsAdmin
  <2>5. QED
    BY <2>4, AllFit
<1>12. CASE l \in {"contests page", "regulations"}
  <2>1. q.wants \subseteq {"kind", "status"} /\ q.from = 0 /\ q.to = 0
    BY <1>1, <1>2, <1>12 DEF Lists!Offers, Lists!Period
  <2>2. l = "regulations" => [q EXCEPT !.wants = {}] = q
    BY <1>1, <1>2, <1>12 DEF Lists!Offers
  <2>3. {i \in DOMAIN table : Lists!Has(q, i, {"kind", "status"})} = Sought(q)
    BY <1>3, <1>5, <2>1 DEF Sought
  <2>4. Lists!Answer(l, q) = Sought(q)
    BY <1>12, <2>2, <2>3 DEF Lists!Answer, Lists!ContestsAdmin, Lists!ListContests, Lists!RegulationsPage,
       Lists!ListPreferences, Lists!Numbers
  <2>5. QED
    BY <2>4, AllFit
<1>13. CASE l = "clients"
  <2>1. q.wants \subseteq {"kind"} \cup {"text"} /\ q.from = 0 /\ q.to = 0
    BY <1>1, <1>2, <1>13 DEF Lists!Offers, Lists!Period
  <2>2. Lists!Words(Lists!ListClients(q), q) = Sought(q)
    BY <1>3, <1>4, <2>1 DEF Lists!Words, Lists!ListClients, Sought, Lists!Numbers
  <2>3. Lists!Answer(l, q) = Sought(q)
    BY <1>13, <2>2 DEF Lists!Answer, Lists!ClientsList
  <2>4. QED
    BY <2>3, AllFit
<1>14. CASE l = "clients tool"
  <2>1. q.wants \subseteq {"kind"} /\ q.from = 0 /\ q.to = 0
    BY <1>1, <1>2, <1>14 DEF Lists!Offers, Lists!Period
  <2>2. Lists!ListClients(q) = Sought(q)
    BY <1>3, <1>5, <2>1 DEF Lists!ListClients, Sought, Lists!Numbers
  <2>3. Lists!Answer(l, q) = Lists!Cut(Sought(q), q.limit)
    BY <1>14, <2>2 DEF Lists!Answer, Lists!ClientsTool
  <2>4. QED
    BY <1>1, <2>3, <1>14, <1>18, CutFits
<1>15. CASE l = "documents"
  <2>1. Lists!Documents(q) = Sought(q)
    BY <1>1, <1>5 DEF Lists!Documents, Sought, Lists!Numbers, Lists!Facets
  <2>2. Lists!Answer(l, q) = Sought(q)
    BY <1>15, <2>1 DEF Lists!Answer
  <2>3. QED
    BY <2>2, AllFit
<1>16. CASE l = "pages api"
  <2> DEFINE B(i) == Lists!Before(Sought(q), i)
  <2>1. Lists!ListSitePages(q) = {i \in Sought(q) : q.limit > 0 => B(i) \in q.offset..(q.offset + q.limit - 1)}
    <3>1. {i \in Lists!Numbers : Lists!Since(q, i) /\ Lists!Until(q, i) /\ Lists!Has(q, i, Lists!Facets)} = Sought(q)
      BY <1>1, <1>5 DEF Sought, Lists!Numbers, Lists!Facets
    <3>2. QED
      BY <3>1 DEF Lists!ListSitePages
  <2>2. Lists!Answer(l, q) = Lists!ListSitePages(q)
    BY <1>16 DEF Lists!Answer, Lists!SitePagesAPI
  <2>3. IsFiniteSet(Sought(q))
    BY FS_Subset DEF Sought
  <2>4. ASSUME NEW i PROVE B(i) \in Nat
    <3>1. IsFiniteSet({j \in Sought(q) : j < i})
      BY <2>3, FS_Subset
    <3>2. QED
      BY <3>1, FS_CardinalityType, ListCounts DEF Lists!Before
  <2>5. ASSUME NEW i \in Sought(q) \ Lists!Answer(l, q)
        PROVE  q.limit > 0 /\ (B(i) < q.offset \/ B(i) >= q.offset + q.limit)
    <3>1. q.limit > 0 /\ B(i) \notin q.offset..(q.offset + q.limit - 1)
      BY <2>1, <2>2
    <3>2. q.offset \in Nat /\ q.limit \in Nat /\ B(i) \in Nat
      BY <1>1, <2>4, Asking
    <3> HIDE DEF B
    <3>3. QED
      BY <3>1, <3>2, Outside
  <2>6. QED
    BY <2>1, <2>2, <2>5 DEF Fits
<1>17. QED
  BY <1>6, <1>7, <1>8, <1>9, <1>10, <1>11, <1>12, <1>13, <1>14, <1>15, <1>16 DEF Lists!Lists

\* The rows the store lets through before the limit of the page.
Let(q, facets) == {i \in DOMAIN table : Lists!Since(q, i) /\ Lists!Has(q, i, facets)}

\* The lists of the changes: the limit of the page counts what the store lets through.
LEMMA ChangeLists ==
  ASSUME NEW l \in {"changes", "changes api"}, NEW q \in Lists!Questions, Lists!Allowed(l, q),
         IsFiniteSet(DOMAIN table), DOMAIN table \subseteq 1..MaxRows
  PROVE  Fits(q, Lists!Answer(l, q), Let(q, {"kind"}), PageLimit)
<1> DEFINE C == Let(q, {"kind"})
<1>1. /\ q.wants \subseteq {"text", "kind", "status", "tag"} /\ q.from \in Nat /\ q.to \in Nat
      /\ q.wants \subseteq Lists!Offers(l)
      /\ q.to # 0 => "to" \in Lists!Offers(l)
  <2>1. l \in Lists!Lists
    BY DEF Lists!Lists
  <2>2. QED
    BY <2>1, Asking
<1>2. q.wants \subseteq {"kind"} \cup {"text", "tag"} /\ (l = "changes api" => q.wants \subseteq {"kind"} \cup {"tag"} /\ q.to = 0)
  BY <1>1 DEF Lists!Offers, Lists!Period
<1>3. IsFiniteSet(C) /\ PageLimit \in Nat \ {0}
  BY FS_Subset, ListsAssumption DEF Let
<1>4. {i \in DOMAIN table : Lists!Since(q, i) /\ Lists!Has(q, i, {"kind", "status"})} = C
  BY <1>2 DEF Let, Lists!Has
<1>5. Lists!Recent(q, PageLimit, PageLimit) = Lists!Cut(C, PageLimit)
  BY <1>4 DEF Lists!Recent, Lists!Numbers
<1>6. \A i \in DOMAIN table : q.to = 0 => Lists!Until(q, i)
  BY NoEnds
<1>7. Lists!Answer(l, q) = Lists!Cut(C, PageLimit) \cap Sought(q)
  <2>1. Lists!Cut(C, PageLimit) \subseteq C
    BY <1>3, CutKeepsBack
  <2>2. CASE l = "changes"
    <3>1. Lists!Answer(l, q) = {i \in Lists!Cut(C, PageLimit) : Lists!Has(q, i, {"text", "tag"}) /\ Lists!Until(q, i)}
      BY <2>2, <1>5 DEF Lists!Answer, Lists!ChangesPage
    <3>2. \A i \in C : Lists!Has(q, i, {"text", "tag"}) <=> q.wants \subseteq table[i]
      BY <1>2, HasAll DEF Let
    <3>3. QED
      BY <2>1, <3>1, <3>2 DEF Let, Sought
  <2>3. CASE l = "changes api"
    <3>1. Lists!Answer(l, q) = {i \in Lists!Cut(C, PageLimit) : Lists!Has(q, i, {"tag"})}
      BY <2>3, <1>5 DEF Lists!Answer, Lists!ChangesAPI
    <3>2. \A i \in C : Lists!Has(q, i, {"tag"}) <=> q.wants \subseteq table[i]
      BY <1>2, <2>3, HasAll DEF Let
    <3>3. QED
      BY <2>1, <2>3, <1>2, <1>6, <3>1, <3>2 DEF Let, Sought
  <2>4. QED
    BY <2>2, <2>3
<1>8. Sought(q) \subseteq C
  BY DEF Sought, Let, Lists!Has
<1>9. q.offset = 0
  BY Extras DEF Lists!Lists
<1> HIDE DEF C
<1>10. \A i \in C \ Lists!Cut(C, PageLimit) : PageLimit > 0 /\ Lists!Before(C, i) >= PageLimit
  BY <1>3, CutKeepsBack DEF C
<1>11. q.offset + PageLimit = PageLimit
  <2>1. PageLimit \in Nat
    BY ListsAssumption
  <2>2. 0 + PageLimit = PageLimit
    BY <2>1, NoOffset
  <2>3. QED
    BY <1>9, <2>2, Zenon
<1>12. QED
  <2>1. Fits(q, Lists!Answer(l, q), C, PageLimit)
    BY <1>7, <1>8, <1>10, <1>11 DEF Fits
  <2>2. QED
    BY <2>1 DEF C

\* The tool that tells the recent changes.
LEMMA FeedList ==
  ASSUME NEW q \in Lists!Questions, Lists!Allowed("feed", q),
         IsFiniteSet(DOMAIN table), DOMAIN table \subseteq 1..MaxRows
  PROVE  Fits(q, Lists!Answer("feed", q), Sought(q), IF q.limit = 0 THEN PageLimit ELSE q.limit)
<1>1. /\ q.wants \subseteq {"text", "kind", "status", "tag"} /\ q.from \in Nat /\ q.to \in Nat /\ q.limit \in Nat
      /\ q.wants \subseteq Lists!Offers("feed")
      /\ q.to # 0 => "to" \in Lists!Offers("feed")
  BY Asking DEF Lists!Lists
<1>2. q.wants \subseteq {"kind", "status"} /\ q.to = 0
  BY <1>1 DEF Lists!Offers, Lists!Period
<1>3. \A i \in DOMAIN table : Lists!Until(q, i) /\ (Lists!Has(q, i, {"kind", "status"}) <=> q.wants \subseteq table[i])
  BY <1>2, NoEnds, HasOnly
<1>4. {i \in DOMAIN table : Lists!Since(q, i) /\ Lists!Has(q, i, {"kind", "status"})} = Sought(q)
  BY <1>3 DEF Sought
<1>5. Lists!Answer("feed", q) = Lists!Cut(Sought(q), IF q.limit = 0 THEN PageLimit ELSE q.limit)
  BY <1>4 DEF Lists!Answer, Lists!RecentChanges, Lists!Recent, Lists!Numbers
<1>6. (IF q.limit = 0 THEN PageLimit ELSE q.limit) \in Nat
  BY <1>1, ListsAssumption
<1>7. q.offset = 0
  BY Extras DEF Lists!Lists
<1>8. QED
  BY <1>5, <1>6, <1>7, CutFits

LEMMA NextLists == ASSUME ListInv, Lists!Next PROVE ListInv'
<1> DEFINE l == asked.list
           q == asked.q
<1>1. /\ asked.open = TRUE /\ l \in Lists!Lists /\ q \in Lists!Questions /\ Lists!Allowed(l, q)
      /\ IsFiniteSet(DOMAIN table) /\ DOMAIN table \subseteq 1..MaxRows
  BY DEF ListInv, Lists!Next
<1>2. table' = table /\ asked' = [asked EXCEPT !.shown = Lists!Answer(l, q), !.open = FALSE]
  BY DEF Lists!Next
<1>3. asked'.list = l /\ asked'.q = q /\ asked'.shown = Lists!Answer(l, q) /\ asked'.open = FALSE
      /\ asked' = [list |-> l, q |-> q, shown |-> Lists!Answer(l, q), open |-> FALSE]
  BY <1>2 DEF ListInv
<1>4. Lists!Matches' = Sought(q)
  BY <1>2, <1>3 DEF Lists!Matches, Sought, Lists!Numbers, Lists!Since, Lists!Until
<1> DEFINE n == Lists!LimitOf'
           C == Lists!Counted'
<1>5. ASSUME Lists!Answer(l, q) \subseteq DOMAIN table,
             Fits(q, Lists!Answer(l, q), C, n) \/ (l = "events" /\ (q.from = 0) # (q.to = 0))
      PROVE  ListInv'
  <2>1. asked' \in [list : Lists!Lists, q : Lists!Questions, shown : SUBSET DOMAIN table, open : BOOLEAN]
    BY <1>1, <1>3, <1>5
  <2>2. Lists!AnswersTheQuestion'
    BY <1>3, <1>4, <1>5 DEF Lists!AnswersTheQuestion, Fits, Lists!Before, Lists!Cardinality
  <2>3. Lists!Lists' = Lists!Lists /\ Lists!Questions' = Lists!Questions
        /\ (Lists!Allowed(asked.list, asked.q))'
    <3>1. Lists!Lists' = Lists!Lists /\ Lists!Questions' = Lists!Questions
      BY DEF Lists!Lists, Lists!Questions
    <3>2. (Lists!Allowed(asked.list, asked.q))'
      BY <1>1, <1>3 DEF Lists!Allowed, Lists!Offers, Lists!Period
    <3>3. QED
      BY <3>1, <3>2
  <2>4. QED
    BY <1>1, <1>2, <2>1, <2>2, <2>3 DEF ListInv
<1>6. CASE l \notin {"feed", "changes", "changes api"} /\ ~(l = "events" /\ (q.from = 0) # (q.to = 0))
  <2>1. Fits(q, Lists!Answer(l, q), Sought(q), q.limit)
    BY <1>1, <1>6, PlainLists
  <2>2. n = q.limit /\ C = Sought(q)
    BY <1>3, <1>4, <1>6 DEF Lists!LimitOf, Lists!Counted
  <2>3. QED
    BY <2>1, <2>2, <1>5 DEF Fits, Sought
<1>7. CASE l \in {"changes", "changes api"}
  <2>1. Fits(q, Lists!Answer(l, q), Let(q, {"kind"}), PageLimit)
    BY <1>1, <1>7, ChangeLists
  <2>2. n = PageLimit /\ C = Let(q, {"kind"})
    BY <1>2, <1>3, <1>7 DEF Lists!LimitOf, Lists!Counted, Let, Lists!Numbers, Lists!Since, Lists!Has
  <2>3. QED
    BY <2>1, <2>2, <1>5 DEF Fits, Sought
<1>8. CASE l = "feed"
  <2>1. Fits(q, Lists!Answer(l, q), Sought(q), IF q.limit = 0 THEN PageLimit ELSE q.limit)
    BY <1>1, <1>8, FeedList
  <2>2. n = (IF q.limit = 0 THEN PageLimit ELSE q.limit) /\ C = Sought(q)
    BY <1>3, <1>4, <1>8 DEF Lists!LimitOf, Lists!Counted
  <2>3. QED
    BY <2>1, <2>2, <1>5 DEF Fits, Sought
<1>9. CASE l = "events" /\ (q.from = 0) # (q.to = 0)
  <2>1. Lists!Answer(l, q) = Lists!SearchEvents(q)
    BY <1>9 DEF Lists!Answer
  <2>2. Lists!SearchEvents(q) \subseteq DOMAIN table
    BY DEF Lists!SearchEvents, Lists!Cut, Lists!Words, Lists!ListEvents, Lists!Numbers
  <2>3. QED
    BY <1>9, <2>1, <2>2, <1>5
<1>10. QED
  BY <1>6, <1>7, <1>8, <1>9

LEMMA InductiveLists == ASSUME ListInv, [Lists!Next]_<<table, asked>> PROVE ListInv'
<1>1. CASE Lists!Next
  BY <1>1, NextLists
<1>2. CASE UNCHANGED <<table, asked>>
  <2>1. table' = table /\ asked' = asked
    BY <1>2
  <2>2. Lists!Matches' = Lists!Matches /\ Lists!LimitOf' = Lists!LimitOf /\ Lists!Counted' = Lists!Counted
    BY <2>1 DEF Lists!Matches, Lists!LimitOf, Lists!Counted, Lists!Numbers, Lists!Since, Lists!Until, Lists!Has
  <2>3. Lists!AnswersTheQuestion'
    BY <2>1, <2>2 DEF ListInv, Lists!AnswersTheQuestion
  <2>4. (Lists!Allowed(asked.list, asked.q))'
    BY <2>1 DEF ListInv, Lists!Allowed, Lists!Offers, Lists!Period
  <2>5. asked' \in [list : Lists!Lists, q : Lists!Questions, shown : SUBSET DOMAIN table', open : BOOLEAN]
        /\ IsFiniteSet(DOMAIN table') /\ DOMAIN table' \subseteq 1..MaxRows
    BY <2>1 DEF ListInv
  <2>6. QED
    BY <2>3, <2>4, <2>5 DEF ListInv, Lists!Lists, Lists!Questions, Lists!Facets
<1>3. QED
  BY <1>1, <1>2

LEMMA ListHolds == ASSUME ListInv PROVE Lists!AnswersTheQuestion
BY DEF ListInv

\* Over a table of any length, each list shows only rows that were asked for
\* and, where it has a period of its own and the question no beginning, lie in
\* that period; it keeps one back only before the offset or behind as many newer
\* ones after it as its limit (Recent, ListEvents, handleSearchNPA and the
\* other lists).
THEOREM ListsAnswerTheQuestion ==
  Lists!Init /\ [][Lists!Next]_<<table, asked>> => [](Lists!AnswersTheQuestion)
BY InitLists, InductiveLists, ListHolds, PTL

------------------------------------------------------------------------------

(* The leaves of a list. *)

Distinct(s, n) == \A i, j \in 1..n : s[i] = s[j] => i = j
Front(s, n, b) == {s[i] : i \in {j \in 1..n : j <= b}}

\* w is s without the element at a place, with one more, and with one
\* brought to the front; the front of w holds one element more, or p.
WithoutAt(w, s, n, at) == \A i \in 1..(n - 1) : w[i] = IF i < at THEN s[i] ELSE s[i + 1]
WithAt(w, s, n, p, at) == \A i \in 1..(n + 1) : w[i] = IF i < at THEN s[i] ELSE IF i = at THEN p ELSE s[i - 1]
BroughtFirst(w, s, n, at) == \A i \in 1..n : w[i] = IF i = 1 THEN s[at] ELSE IF i - 1 < at THEN s[i - 1] ELSE s[i]
IsRemoval(w, s, at) == w = SubSeq(s, 1, at - 1) \o SubSeq(s, at + 1, Len(s))
IsInsertion(w, s, e, at) == w = SubSeq(s, 1, at - 1) \o <<e>> \o SubSeq(s, at, Len(s))
IsPutBefore(w, e, s) == w = <<e>> \o s
OneMore(w, m, s, n) == \A b \in Nat : \E q : Front(w, m, b) \subseteq Front(s, n, b) \cup {q}
NoneBut(p, w, m, s, n) == \A b \in Nat : Front(w, m, b) \subseteq Front(s, n, b) \cup {p}

\* A sequence with one element more: those behind it move down.
LEMMA Insertion ==
  ASSUME NEW S, NEW s \in Seq(S), NEW e \in S, NEW n \in Nat, n = Len(s), NEW at \in 1..(n + 1),
         NEW w, IsInsertion(w, s, e, at)
  PROVE  w \in Seq(S) /\ Len(w) = n + 1 /\ WithAt(w, s, n, e, at)
<1> DEFINE a == SubSeq(s, 1, at - 1)
           b == SubSeq(s, at, n)
           mid == <<e>>
<1>1. n \in Nat /\ at \in 1..(n + 1) /\ \A i \in 1..n : s[i] \in S
  OBVIOUS
<1>2. a \in Seq(S) /\ Len(a) = at - 1 /\ \A i \in 1..(at - 1) : a[i] = s[i]
  <2>1. at - 1 \in Int /\ 1 \in Int /\ \A i \in 1..(at - 1) : s[i] \in S
    BY <1>1
  <2>2. /\ a \in Seq(S) /\ Len(a) = (IF 1 <= at - 1 THEN at - 1 - 1 + 1 ELSE 0)
        /\ \A i \in 1..(at - 1 - 1 + 1) : a[i] = s[1 + i - 1]
    BY <2>1, SubSeqProperties
  <2>3. QED
    BY <1>1, <2>2
<1>3. b \in Seq(S) /\ Len(b) = n - at + 1 /\ \A i \in 1..(n - at + 1) : b[i] = s[at + i - 1]
  <2>1. at \in Int /\ n \in Int /\ \A i \in at..n : s[i] \in S
    BY <1>1
  <2>2. /\ b \in Seq(S) /\ Len(b) = (IF at <= n THEN n - at + 1 ELSE 0)
        /\ \A i \in 1..(n - at + 1) : b[i] = s[at + i - 1]
    BY <2>1, SubSeqProperties
  <2>3. QED
    BY <1>1, <2>2
<1>4. mid \in Seq(S) /\ Len(mid) = 1 /\ mid[1] = e
  OBVIOUS
<1>5. w = (a \o mid) \o b
  BY DEF IsInsertion
<1> HIDE DEF a, b, mid
<1>6. PICK c \in Seq(S) : /\ c = a \o mid /\ Len(c) = at
                          /\ \A i \in 1..(at - 1) : c[i] = s[i]
                          /\ c[at] = e
  <2>1. /\ a \o mid \in Seq(S) /\ Len(a \o mid) = Len(a) + Len(mid)
        /\ \A i \in 1..(Len(a) + Len(mid)) : (a \o mid)[i] = IF i <= Len(a) THEN a[i] ELSE mid[i - Len(a)]
    BY <1>2, <1>4, ConcatProperties
  <2>2. (at - 1) + 1 = at /\ at \in 1..((at - 1) + 1) /\ ~ (at <= at - 1) /\ at - (at - 1) = 1
        /\ \A i \in 1..(at - 1) : i <= at - 1 /\ i \in 1..((at - 1) + 1)
    BY <1>1
  <2>3. Len(a \o mid) = at /\ (a \o mid)[at] = e /\ \A i \in 1..(at - 1) : (a \o mid)[i] = s[i]
    BY <1>2, <1>4, <2>1, <2>2
  <2>4. QED
    BY <2>1, <2>3
<1>7. PICK d : d = c \o b
  OBVIOUS
<1>8. /\ d \in Seq(S) /\ Len(d) = at + (n - at + 1)
      /\ \A i \in 1..(at + (n - at + 1)) : d[i] = IF i <= at THEN c[i] ELSE b[i - at]
  <2>1. c \in Seq(S) /\ Len(c) = at /\ b \in Seq(S) /\ Len(b) = n - at + 1
    BY <1>3, <1>6
  <2>2. /\ c \o b \in Seq(S) /\ Len(c \o b) = Len(c) + Len(b)
        /\ \A i \in 1..(Len(c) + Len(b)) : (c \o b)[i] = IF i <= Len(c) THEN c[i] ELSE b[i - Len(c)]
    BY <2>1, ConcatProperties
  <2>3. QED
    BY <1>7, <2>1, <2>2
<1>9. ASSUME NEW i \in 1..(n + 1)
      PROVE  d[i] = IF i < at THEN s[i] ELSE IF i = at THEN e ELSE s[i - 1]
  <2>1. i \in 1..(at + (n - at + 1)) /\ i \in Int /\ at \in Int
    BY <1>1
  <2>2. CASE i < at
    <3>1. i \in 1..(at - 1) /\ i <= at
      BY <2>1, <2>2
    <3>2. QED
      BY <1>6, <1>8, <2>1, <2>2, <3>1
  <2>3. CASE i = at
    <3>1. at <= at /\ ~ (at < at)
      BY <2>1
    <3>2. QED
      BY <1>6, <1>8, <2>1, <2>3, <3>1
  <2>4. CASE i > at
    <3>1. i - at \in 1..(n - at + 1) /\ at + (i - at) - 1 = i - 1 /\ ~ (i <= at) /\ ~ (i < at) /\ i # at
      BY <1>1, <2>1, <2>4
    <3>2. d[i] = b[i - at]
      BY <1>8, <2>1, <3>1
    <3>3. b[i - at] = s[i - 1]
      BY <1>3, <3>1
    <3>4. QED
      BY <3>1, <3>2, <3>3
  <2>5. QED
    BY <2>1, <2>2, <2>3, <2>4
<1>10. at + (n - at + 1) = n + 1
  BY <1>1
<1>11. QED
  <2>1. w = d
    BY <1>5, <1>6, <1>7
  <2>2. QED
    BY <1>8, <1>9, <1>10, <2>1 DEF WithAt

LEMMA RemovedAt ==
  ASSUME NEW S, NEW s \in Seq(S), NEW n \in Nat, n = Len(s), NEW at \in 1..n, NEW w, IsRemoval(w, s, at)
  PROVE  w \in Seq(S) /\ Len(w) = n - 1 /\ WithoutAt(w, s, n, at)
<1>1. PICK v : v = SubSeq(s, 1, at - 1) \o SubSeq(s, at + 1, Len(s))
  OBVIOUS
<1>2. /\ v \in Seq(S) /\ Len(v) = Len(s) - 1
      /\ \A i \in 1..(Len(s) - 1) : v[i] = IF i < at THEN s[i] ELSE s[i + 1]
  BY <1>1, Removal
<1>3. v = w
  BY <1>1 DEF IsRemoval
<1>4. QED
  BY <1>2, <1>3 DEF WithoutAt

\* Of a list without one of its elements the front holds one more at most.
LEMMA FrontRemoved ==
  ASSUME NEW n \in Nat, NEW s, Distinct(s, n), NEW at \in 1..n, NEW w, WithoutAt(w, s, n, at)
  PROVE  /\ Distinct(w, n - 1) /\ \A i \in 1..(n - 1) : w[i] # s[at]
         /\ OneMore(w, n - 1, s, n)
<1>1. /\ \A i \in 1..(n - 1) : w[i] = IF i < at THEN s[i] ELSE s[i + 1]
      /\ at \in Int /\ \A i \in 1..(n - 1) : i \in 1..n /\ i + 1 \in 1..n /\ i \in Int
      /\ \A i, j \in 1..n : s[i] = s[j] => i = j
  BY DEF Distinct, WithoutAt
<1>2. ASSUME NEW i \in 1..(n - 1), NEW j \in 1..(n - 1), w[i] = w[j] PROVE i = j
  BY <1>1, <1>2
<1>3. ASSUME NEW i \in 1..(n - 1) PROVE w[i] # s[at]
  BY <1>1
<1>4. ASSUME NEW b \in Nat PROVE \E q : Front(w, n - 1, b) \subseteq Front(s, n, b) \cup {q}
  <2>1. PICK q : q = s[b + 1]
    OBVIOUS
  <2>2. ASSUME NEW i \in 1..(n - 1), i <= b PROVE w[i] \in Front(s, n, b) \cup {q}
    <3>1. CASE i < at
      BY <1>1, <2>2, <3>1 DEF Front
    <3>2. CASE ~ (i < at)
      <4>1. w[i] = s[i + 1] /\ i + 1 \in 1..n /\ (i + 1 <= b \/ i + 1 = b + 1)
        BY <1>1, <2>2, <3>2
      <4>2. CASE i + 1 = b + 1
        BY <2>1, <4>1, <4>2
      <4>3. CASE i + 1 <= b
        BY <4>1, <4>3 DEF Front
      <4>4. QED
        BY <4>1, <4>2, <4>3
    <3>3. QED
      BY <3>1, <3>2
  <2>3. Front(w, n - 1, b) \subseteq Front(s, n, b) \cup {q}
    BY <2>2 DEF Front
  <2>4. QED
    BY <2>3
<1>5. QED
  BY <1>2, <1>3, <1>4 DEF Distinct, OneMore

\* With a new element it holds nothing else.
LEMMA FrontInserted ==
  ASSUME NEW n \in Nat, NEW s, Distinct(s, n), NEW p, \A i \in 1..n : s[i] # p, NEW at \in 1..(n + 1), NEW w,
         WithAt(w, s, n, p, at)
  PROVE  Distinct(w, n + 1) /\ NoneBut(p, w, n + 1, s, n)
<1>1. /\ \A i \in 1..(n + 1) : w[i] = IF i < at THEN s[i] ELSE IF i = at THEN p ELSE s[i - 1]
      /\ at \in Int /\ \A i, j \in 1..n : s[i] = s[j] => i = j
      /\ \A i \in 1..(n + 1) : i \in Int
  BY DEF Distinct, WithAt
<1>2. ASSUME NEW i \in 1..(n + 1)
      PROVE  \/ i < at /\ i \in 1..n /\ w[i] = s[i]
             \/ i = at /\ w[i] = p
             \/ i > at /\ i - 1 \in 1..n /\ w[i] = s[i - 1]
  <2>1. CASE i < at
    BY <1>1, <2>1
  <2>2. CASE i = at
    BY <1>1, <2>2
  <2>3. CASE i > at
    BY <1>1, <2>3
  <2>4. QED
    BY <1>1, <2>1, <2>2, <2>3
<1>3. ASSUME NEW i \in 1..(n + 1), NEW j \in 1..(n + 1), w[i] = w[j] PROVE i = j
  <2>1. CASE i < at /\ i \in 1..n /\ w[i] = s[i]
    <3>1. (j < at /\ j \in 1..n /\ w[j] = s[j]) \/ (j > at /\ j - 1 \in 1..n /\ w[j] = s[j - 1])
      BY <1>2, <1>3, <2>1
    <3>2. i = j \/ (j > at /\ i = j - 1)
      BY <1>1, <1>3, <2>1, <3>1
    <3>3. QED
      BY <1>1, <2>1, <3>2
  <2>2. CASE i = at /\ w[i] = p
    BY <1>2, <1>3, <2>2
  <2>3. CASE i > at /\ i - 1 \in 1..n /\ w[i] = s[i - 1]
    <3>1. (j < at /\ j \in 1..n /\ w[j] = s[j]) \/ (j > at /\ j - 1 \in 1..n /\ w[j] = s[j - 1])
      BY <1>2, <1>3, <2>3
    <3>2. i - 1 = j - 1 \/ (j < at /\ i - 1 = j)
      BY <1>1, <1>3, <2>3, <3>1
    <3>3. QED
      BY <1>1, <2>3, <3>2
  <2>4. QED
    BY <1>2, <2>1, <2>2, <2>3
<1>4. ASSUME NEW b \in Nat PROVE Front(w, n + 1, b) \subseteq Front(s, n, b) \cup {p}
  <2>1. ASSUME NEW i \in 1..(n + 1), i <= b PROVE w[i] \in Front(s, n, b) \cup {p}
    <3>1. CASE i < at /\ i \in 1..n /\ w[i] = s[i]
      BY <2>1, <3>1 DEF Front
    <3>2. CASE i > at /\ i - 1 \in 1..n /\ w[i] = s[i - 1]
      <4>1. i - 1 <= b
        BY <2>1
      <4>2. QED
        BY <3>2, <4>1 DEF Front
    <3>3. QED
      BY <1>2, <3>1, <3>2
  <2>2. QED
    BY <2>1 DEF Front
<1>5. QED
  BY <1>3, <1>4 DEF Distinct, NoneBut

\* One element brought to the front.
LEMMA FrontMoved ==
  ASSUME NEW n \in Nat, NEW s, Distinct(s, n), NEW at \in 1..n, NEW w, BroughtFirst(w, s, n, at)
  PROVE  Distinct(w, n) /\ NoneBut(s[at], w, n, s, n)
<1>1. /\ \A i \in 1..n : w[i] = IF i = 1 THEN s[at] ELSE IF i - 1 < at THEN s[i - 1] ELSE s[i]
      /\ at \in Int /\ \A i, j \in 1..n : s[i] = s[j] => i = j
      /\ \A i \in 1..n : i \in Int
  BY DEF Distinct, BroughtFirst
<1>2. ASSUME NEW i \in 1..n
      PROVE  \/ i = 1 /\ w[i] = s[at]
             \/ i # 1 /\ i - 1 < at /\ i - 1 \in 1..n /\ w[i] = s[i - 1]
             \/ i # 1 /\ ~ (i - 1 < at) /\ w[i] = s[i] /\ i # at
  <2>1. CASE i = 1
    BY <1>1, <2>1
  <2>2. CASE i # 1 /\ i - 1 < at
    BY <1>1, <2>2
  <2>3. CASE i # 1 /\ ~ (i - 1 < at)
    BY <1>1, <2>3
  <2>4. QED
    BY <2>1, <2>2, <2>3
<1>3. ASSUME NEW i \in 1..n, NEW j \in 1..n, w[i] = w[j] PROVE i = j
  <2>1. CASE i = 1 /\ w[i] = s[at]
    <3>1. CASE j # 1 /\ j - 1 < at /\ j - 1 \in 1..n /\ w[j] = s[j - 1]
      <4>1. at = j - 1
        BY <1>1, <1>3, <2>1, <3>1
      <4>2. QED
        BY <1>1, <3>1, <4>1
    <3>2. CASE j # 1 /\ w[j] = s[j] /\ j # at
      BY <1>1, <1>3, <2>1, <3>2
    <3>3. QED
      BY <1>2, <2>1, <3>1, <3>2
  <2>2. CASE i # 1 /\ i - 1 < at /\ i - 1 \in 1..n /\ w[i] = s[i - 1]
    <3>1. CASE j = 1 /\ w[j] = s[at]
      <4>1. at = i - 1
        BY <1>1, <1>3, <2>2, <3>1
      <4>2. QED
        BY <1>1, <2>2, <4>1
    <3>2. CASE j # 1 /\ j - 1 \in 1..n /\ w[j] = s[j - 1]
      <4>1. i - 1 = j - 1
        BY <1>1, <1>3, <2>2, <3>2
      <4>2. QED
        BY <1>1, <4>1
    <3>3. CASE j # 1 /\ ~ (j - 1 < at) /\ w[j] = s[j]
      <4>1. i - 1 = j
        BY <1>1, <1>3, <2>2, <3>3
      <4>2. QED
        BY <1>1, <2>2, <3>3, <4>1
    <3>4. QED
      BY <1>2, <3>1, <3>2, <3>3
  <2>3. CASE i # 1 /\ ~ (i - 1 < at) /\ w[i] = s[i] /\ i # at
    <3>1. CASE j = 1 /\ w[j] = s[at]
      BY <1>1, <1>3, <2>3, <3>1
    <3>2. CASE j # 1 /\ j - 1 < at /\ j - 1 \in 1..n /\ w[j] = s[j - 1]
      <4>1. i = j - 1
        BY <1>1, <1>3, <2>3, <3>2
      <4>2. QED
        BY <1>1, <2>3, <3>2, <4>1
    <3>3. CASE w[j] = s[j]
      BY <1>1, <1>3, <2>3, <3>3
    <3>4. QED
      BY <1>2, <3>1, <3>2, <3>3
  <2>4. QED
    BY <1>2, <2>1, <2>2, <2>3
<1>4. ASSUME NEW b \in Nat PROVE Front(w, n, b) \subseteq Front(s, n, b) \cup {s[at]}
  <2>1. ASSUME NEW i \in 1..n, i <= b PROVE w[i] \in Front(s, n, b) \cup {s[at]}
    <3>1. CASE i - 1 \in 1..n /\ w[i] = s[i - 1]
      <4>1. i - 1 <= b
        BY <2>1
      <4>2. QED
        BY <3>1, <4>1 DEF Front
    <3>2. CASE w[i] = s[i]
      BY <2>1, <3>2 DEF Front
    <3>3. QED
      BY <1>2, <3>1, <3>2
  <2>2. QED
    BY <2>1 DEF Front
<1>5. QED
  BY <1>3, <1>4 DEF Distinct, NoneBut

\* An element put before a sequence, and before one it was taken from.
LEMMA PutBefore ==
  ASSUME NEW S, NEW s \in Seq(S), NEW n \in Nat, n = Len(s), NEW p \in S, NEW v, IsPutBefore(v, p, s)
  PROVE  v \in Seq(S) /\ Len(v) = n + 1 /\ WithAt(v, s, n, p, 1)
<1>1. PICK one : one = <<p>>
  OBVIOUS
<1>2. one \in Seq(S) /\ Len(one) = 1 /\ one[1] = p
  BY <1>1
<1>3. n = Len(s)
  OBVIOUS
<1>4. /\ one \o s \in Seq(S) /\ Len(one \o s) = Len(one) + Len(s)
      /\ \A i \in 1..(Len(one) + Len(s)) : (one \o s)[i] = IF i <= Len(one) THEN one[i] ELSE s[i - Len(one)]
  BY <1>2, ConcatProperties
<1>5. v = one \o s
  BY <1>1 DEF IsPutBefore
<1>6. /\ v \in Seq(S) /\ Len(v) = 1 + n
      /\ \A i \in 1..(1 + n) : v[i] = IF i <= 1 THEN one[i] ELSE s[i - 1]
  BY <1>2, <1>3, <1>4, <1>5
<1>7. 1 + n = n + 1 /\ \A i \in 1..(n + 1) : ~ (i < 1) /\ (i <= 1 <=> i = 1) /\ i \in 1..(1 + n)
  OBVIOUS
<1>8. QED
  BY <1>2, <1>3, <1>6, <1>7 DEF WithAt

LEMMA PutFirst ==
  ASSUME NEW S, NEW n \in Nat, NEW s, NEW at \in 1..n, s[at] \in S, NEW w \in Seq(S), Len(w) = n - 1,
         WithoutAt(w, s, n, at), NEW v, IsPutBefore(v, s[at], w)
  PROVE  v \in Seq(S) /\ Len(v) = n /\ BroughtFirst(v, s, n, at)
<1>1. PICK p \in S : p = s[at]
  OBVIOUS
<1>2. PICK m \in Nat : m = n - 1 /\ m + 1 = n
  <2>1. n - 1 \in Nat /\ (n - 1) + 1 = n
    OBVIOUS
  <2>2. QED
    BY <2>1
<1>3. /\ v \in Seq(S) /\ Len(v) = n /\ WithAt(v, w, m, p, 1)
  <2>1. m = Len(w) /\ IsPutBefore(v, p, w)
    BY <1>1, <1>2
  <2>2. v \in Seq(S) /\ Len(v) = m + 1 /\ WithAt(v, w, m, p, 1)
    BY <2>1, PutBefore
  <2>3. QED
    BY <1>2, <2>2
<1>4. ASSUME NEW i \in 1..n
      PROVE  v[i] = IF i = 1 THEN s[at] ELSE IF i - 1 < at THEN s[i - 1] ELSE s[i]
  <2>1. v[i] = IF i < 1 THEN w[i] ELSE IF i = 1 THEN p ELSE w[i - 1]
    BY <1>2, <1>3 DEF WithAt
  <2>2. CASE i = 1
    BY <1>1, <2>1, <2>2
  <2>3. CASE i # 1
    <3>1. i - 1 \in 1..(n - 1) /\ (i - 1) + 1 = i /\ ~ (i < 1)
      BY <2>3
    <3>2. v[i] = w[i - 1]
      BY <2>1, <2>3, <3>1
    <3>3. w[i - 1] = IF i - 1 < at THEN s[i - 1] ELSE s[(i - 1) + 1]
      BY <3>1 DEF WithoutAt
    <3>4. QED
      BY <2>3, <3>1, <3>2, <3>3
  <2>4. QED
    BY <2>2, <2>3
<1>5. QED
  BY <1>3, <1>4 DEF BroughtFirst

LeafTypes ==
  /\ list \in Seq(Matching) /\ Distinct(list, Len(list))
  /\ reader \in [step : {"count", "list", "reading", "done", "astray"}, onlyErrors : BOOLEAN,
                 leaf : [n : Nat \ {0}, leaves : Nat \ {0}, links : SUBSET Int],
                 total : Nat, seen : SUBSET Matching, left : Nat, pushed : Nat]
  /\ fresh \subseteq Matching
  /\ touches \in 0..MaxTouches /\ reader.left <= touches /\ reader.pushed <= touches

\* Of the first b rows as many may have been missed as left the list.
PassedBy(b) == Front(list, Len(list), b) \ (reader.seen \cup fresh)
Passed(b) == Cardinality(PassedBy(b)) <= reader.left

LeadsOn(leaf) ==
  leaf.n < leaf.leaves =>
    /\ leaf.links \subseteq 1..leaf.leaves
    /\ {leaf.n, leaf.n + 1} \subseteq leaf.links
    /\ leaf.n > 1 => leaf.n - 1 \in leaf.links
    /\ Cardinality(leaf.links) = Leaves!Smaller(Window, leaf.leaves)

LeafKept ==
  /\ reader.step \in {"count", "list"} => Passed((reader.leaf.n - 1) * PerPage)
  /\ reader.step = "reading" => Passed(reader.leaf.n * PerPage) /\ reader.leaf.n < reader.leaf.leaves
  /\ reader.step \in {"list", "reading"} => LeadsOn(reader.leaf)
  /\ reader.step = "list" => /\ reader.leaf.n <= reader.leaf.leaves
                             /\ reader.total <= reader.leaf.leaves * PerPage
                             /\ Len(list) <= reader.total + reader.pushed
  /\ reader.step = "done" =>
       Cardinality(PassedBy(Len(list))) <= reader.left + reader.pushed

LeafInv == LeafTypes /\ LeafKept

LEMMA MultiplesOf == ASSUME NEW k \in Nat PROVE k * PerPage \in Nat /\ (k + 1) * PerPage = k * PerPage + PerPage
<1>1. PICK p \in Nat \ {0} : p = PerPage
  BY LeavesAssumption
<1>2. k * p \in Int /\ (k + 1) * p = k * p + p
  BY MultiplesApart
<1>3. k * p >= 0
  <2>1. CASE k = 0
    <3>1. 0 * p = 0
      OBVIOUS
    <3>2. QED
      BY <2>1, <3>1
  <2>2. CASE 0 < k
    <3>1. 0 * p < k * p /\ 0 * p = 0
      BY <2>2, MultiplesApart
    <3>2. QED
      BY <1>2, <3>1
  <2>3. QED
    BY <2>1, <2>2
<1>4. QED
  BY <1>1, <1>2, <1>3

LEMMA LeafSizes ==
  ASSUME LeafTypes
  PROVE  /\ Len(list) \in Nat /\ PerPage \in Nat \ {0} /\ MaxTouches \in Nat /\ IsFiniteSet(Matching)
         /\ reader.leaf.n \in Nat \ {0} /\ reader.leaf.leaves \in Nat \ {0} /\ reader.total \in Nat
         /\ reader.left \in Nat /\ reader.pushed \in Nat /\ reader.seen \subseteq Matching
         /\ reader.step \in {"count", "list", "reading", "done", "astray"}
         /\ DOMAIN list = 1..Len(list) /\ \A i \in 1..Len(list) : list[i] \in Matching
         /\ \A b : IsFiniteSet(PassedBy(b)) /\ Cardinality(PassedBy(b)) \in Nat
         /\ (reader.leaf.n - 1) * PerPage \in Nat /\ reader.leaf.n * PerPage \in Nat
         /\ reader.leaf.n * PerPage = (reader.leaf.n - 1) * PerPage + PerPage
<1>1. /\ Len(list) \in Nat /\ PerPage \in Nat \ {0} /\ MaxTouches \in Nat /\ IsFiniteSet(Matching)
      /\ DOMAIN list = 1..Len(list) /\ \A i \in 1..Len(list) : list[i] \in Matching
  BY LeavesAssumption DEF LeafTypes
<1>2. /\ reader.leaf.n \in Nat \ {0} /\ reader.leaf.leaves \in Nat \ {0} /\ reader.total \in Nat
      /\ reader.left \in Nat /\ reader.pushed \in Nat /\ reader.seen \subseteq Matching
      /\ reader.step \in {"count", "list", "reading", "done", "astray"}
  BY DEF LeafTypes
<1>3. \A b : IsFiniteSet(PassedBy(b)) /\ Cardinality(PassedBy(b)) \in Nat
  <2>1. ASSUME NEW b PROVE IsFiniteSet(PassedBy(b)) /\ Cardinality(PassedBy(b)) \in Nat
    <3>1. PassedBy(b) \subseteq Matching
      BY <1>1 DEF PassedBy, Front
    <3>2. IsFiniteSet(PassedBy(b))
      BY <1>1, <3>1, FS_Subset
    <3>3. QED
      BY <3>2, FS_CardinalityType
  <2>2. QED
    BY <2>1
<1>4. PICK m \in Nat, n \in Nat : n = reader.leaf.n /\ m = n - 1 /\ n = m + 1
  <2>1. PICK n \in Nat \ {0} : n = reader.leaf.n
    BY <1>2
  <2>2. n - 1 \in Nat /\ n \in Nat /\ n = (n - 1) + 1
    BY <2>1
  <2>3. QED
    BY <2>1, <2>2
<1>5. m * PerPage \in Nat /\ n * PerPage \in Nat /\ n * PerPage = m * PerPage + PerPage
  <2>1. m * PerPage \in Nat /\ (m + 1) * PerPage = m * PerPage + PerPage
    BY <1>4, MultiplesOf
  <2>2. m * PerPage + PerPage \in Nat
    BY <1>1, <2>1
  <2>3. QED
    BY <1>4, <2>1, <2>2
<1>6. QED
  BY <1>1, <1>2, <1>3, <1>4, <1>5

LEMMA OneMoreAtMost ==
  ASSUME NEW S, IsFiniteSet(S), NEW T
  PROVE  /\ T \subseteq S => Cardinality(T) <= Cardinality(S)
         /\ \A q : T \subseteq S \cup {q} => Cardinality(T) <= Cardinality(S) + 1
<1>1. T \subseteq S => Cardinality(T) <= Cardinality(S)
  BY FS_Subset
<1>2. ASSUME NEW q, T \subseteq S \cup {q} PROVE Cardinality(T) <= Cardinality(S) + 1
  <2>1. /\ IsFiniteSet(S \cup {q})
        /\ Cardinality(S \cup {q}) = IF q \in S THEN Cardinality(S) ELSE Cardinality(S) + 1
    BY FS_AddElement
  <2>2. Cardinality(T) <= Cardinality(S \cup {q}) /\ Cardinality(T) \in Nat /\ Cardinality(S) \in Nat
    BY <1>2, <2>1, FS_Subset, FS_CardinalityType
  <2>3. QED
    BY <2>1, <2>2
<1>3. QED
  BY <1>1, <1>2

\* A change of the table: p is fresh, l rows leave and m come.
LEMMA ListMoves ==
  ASSUME LeafInv, NEW p \in Matching, NEW l \in 0..1, NEW m \in 0..1,
         Leaves!Touch(p, list'), reader' = [reader EXCEPT !.left = @ + l, !.pushed = @ + m],
         list' \in Seq(Matching), Distinct(list, Len(list))', Len(list') <= Len(list) + m,
         OneMore(list', Len(list'), list, Len(list)), l = 0 => NoneBut(p, list', Len(list'), list, Len(list))
  PROVE  LeafInv'
<1>1. /\ reader.step \notin {"done", "astray"} /\ touches' = touches + 1 /\ fresh' = fresh \cup {p} /\ touches < MaxTouches
      /\ LeafTypes
  BY DEF Leaves!Touch, LeafInv
<1>2. PICK el \in Nat, ep \in Nat : el = reader.left + l /\ ep = reader.pushed + m
  <2>1. PICK el \in Nat, ep \in Nat : el = reader.left /\ ep = reader.pushed
    BY <1>1, LeafSizes
  <2>2. el + l \in Nat /\ ep + m \in Nat
    OBVIOUS
  <2>3. QED
    BY <2>1, <2>2
<1>3. reader' = [reader EXCEPT !.left = el, !.pushed = ep]
  BY <1>2
<1>4. /\ reader' \in [step : {"count", "list", "reading", "done", "astray"}, onlyErrors : BOOLEAN,
                      leaf : [n : Nat \ {0}, leaves : Nat \ {0}, links : SUBSET Int],
                      total : Nat, seen : SUBSET Matching, left : Nat, pushed : Nat]
      /\ reader'.step = reader.step /\ reader'.leaf = reader.leaf /\ reader'.total = reader.total
      /\ reader'.seen = reader.seen /\ reader'.left = el /\ reader'.pushed = ep
  BY <1>1, <1>3 DEF LeafTypes
<1>5. LeafTypes'
  <2>1. touches' \in 0..MaxTouches /\ el <= touches' /\ ep <= touches'
    <3>1. PICK t \in Nat, x \in Nat, y \in Nat : t = touches /\ x = reader.left /\ y = reader.pushed
      BY <1>1, LeafSizes DEF LeafTypes
    <3>2. x <= t /\ y <= t /\ t < MaxTouches /\ MaxTouches \in Nat /\ touches' = t + 1 /\ el = x + l /\ ep = y + m
      BY <1>1, <1>2, <3>1, LeafSizes DEF LeafTypes
    <3>3. t + 1 \in 0..MaxTouches /\ el <= t + 1 /\ ep <= t + 1
      BY <3>2
    <3>4. QED
      BY <3>2, <3>3
  <2>2. QED
    BY <1>1, <1>4, <2>1 DEF LeafTypes
<1>6. ASSUME NEW b \in Nat, Passed(b) PROVE Passed(b)'
  <2>1. PICK q : /\ Front(list, Len(list), b)' \subseteq Front(list, Len(list), b) \cup {q}
                 /\ l = 0 => q = p
    <3>1. PICK q : Front(list', Len(list'), b) \subseteq Front(list, Len(list), b) \cup {q}
      BY DEF OneMore
    <3>2. l = 0 => Front(list', Len(list'), b) \subseteq Front(list, Len(list), b) \cup {p}
      BY DEF NoneBut
    <3>3. Front(list, Len(list), b)' = Front(list', Len(list'), b)
      BY DEF Front
    <3>4. QED
      BY <3>1, <3>2, <3>3
  <2>2. PassedBy(b)' \subseteq PassedBy(b) \cup {q} /\ (l = 0 => PassedBy(b)' \subseteq PassedBy(b))
    BY <1>1, <1>4, <2>1 DEF PassedBy
  <2>3. PICK big, small : big = PassedBy(b) /\ small = PassedBy(b)'
    OBVIOUS
  <2>4. IsFiniteSet(big) /\ Cardinality(big) \in Nat /\ Cardinality(big) <= reader.left
    BY <1>1, <1>6, <2>3, LeafSizes DEF Passed
  <2>5. Cardinality(small) <= Cardinality(big) + 1 /\ (l = 0 => Cardinality(small) <= Cardinality(big))
    BY <2>2, <2>3, <2>4, OneMoreAtMost
  <2>6. IsFiniteSet(small) /\ Cardinality(small) \in Nat
    <3>1. small \subseteq big \cup {q} /\ IsFiniteSet(big \cup {q})
      BY <2>2, <2>3, <2>4, FS_AddElement
    <3>2. QED
      BY <3>1, FS_Subset, FS_CardinalityType
  <2>7. Cardinality(small) <= el
    <3>1. reader.left \in Nat
      BY <1>1, LeafSizes
    <3>2. CASE l = 0
      BY <1>2, <2>4, <2>5, <2>6, <3>1, <3>2
    <3>3. CASE l = 1
      BY <1>2, <2>4, <2>5, <2>6, <3>1, <3>3
    <3>4. QED
      BY <3>2, <3>3
  <2>8. QED
    BY <1>4, <2>3, <2>7 DEF Passed
<1>7. PICK a \in Nat, c \in Nat : a = (reader.leaf.n - 1) * PerPage /\ c = reader.leaf.n * PerPage
  BY <1>1, LeafSizes
<1>8. (Passed(a) => Passed(a)') /\ (Passed(c) => Passed(c)')
  BY <1>6
<1>9. reader.step \in {"count", "list"} => Passed((reader.leaf.n - 1) * PerPage)'
  <2>1. reader.step \in {"count", "list"} => Passed(a)'
    BY <1>7, <1>8 DEF LeafInv, LeafKept
  <2>2. (reader'.leaf.n - 1) * PerPage = a
    BY <1>4, <1>7
  <2>3. QED
    BY <2>1, <2>2 DEF Passed, PassedBy
<1>10. reader.step = "reading" => Passed(reader.leaf.n * PerPage)'
  <2>1. reader.step = "reading" => Passed(c)'
    BY <1>7, <1>8 DEF LeafInv, LeafKept
  <2>2. reader'.leaf.n * PerPage = c
    BY <1>4, <1>7
  <2>3. QED
    BY <2>1, <2>2 DEF Passed, PassedBy
<1>11. reader.step = "list" => Len(list') <= reader'.total + reader'.pushed
  <2>1. reader.step = "list" => Len(list) <= reader.total + reader.pushed
    BY DEF LeafInv, LeafKept
  <2>2. reader.total \in Nat /\ reader.pushed \in Nat /\ Len(list) \in Nat /\ Len(list') \in Nat
    BY <1>1, LeafSizes
  <2>3. QED
    BY <1>2, <1>4, <2>1, <2>2
<1>12. LeafKept'
  BY <1>1, <1>4, <1>9, <1>10, <1>11 DEF LeafInv, LeafKept, LeadsOn
<1>13. QED
  BY <1>5, <1>12 DEF LeafInv

LEMMA RemovesRow ==
  ASSUME LeafTypes, NEW n \in Nat, n = Len(list), NEW p \in Matching, Leaves!Listed(p), NEW w, w = Leaves!Without(p)
  PROVE  \E at \in 1..n : list[at] = p /\ w \in Seq(Matching) /\ Len(w) = n - 1 /\ WithoutAt(w, list, n, at)
<1>1. \E i \in DOMAIN list : list[i] = p
  BY DEF Leaves!Listed, Leaves!Range
<1>2. PICK at : at = Leaves!PlaceOf(p)
  OBVIOUS
<1>3. at \in DOMAIN list /\ list[at] = p
  BY <1>1, <1>2 DEF Leaves!PlaceOf
<1>4. at \in 1..n /\ list \in Seq(Matching)
  BY <1>3, LeafSizes DEF LeafTypes
<1>5. IsRemoval(w, list, at)
  BY <1>2 DEF Leaves!Without, IsRemoval
<1>6. w \in Seq(Matching) /\ Len(w) = n - 1 /\ WithoutAt(w, list, n, at)
  BY <1>4, <1>5, RemovedAt
<1>7. QED
  BY <1>3, <1>4, <1>6

LEMMA UpsertsLeaf == ASSUME LeafInv, NEW p \in Matching, NEW matches \in BOOLEAN, Leaves!Upsert(p, matches) PROVE LeafInv'
<1>1. LeafTypes /\ (Leaves!Listed(p) \/ matches)
      /\ Leaves!Touch(p, IF matches THEN <<p>> \o Leaves!Without(p) ELSE Leaves!Without(p))
      /\ reader' = [reader EXCEPT !.left = @ + (IF Leaves!Listed(p) /\ ~ matches THEN 1 ELSE 0),
                                  !.pushed = @ + (IF Leaves!Listed(p) THEN 0 ELSE 1)]
  BY DEF Leaves!Upsert, LeafInv
<1>2. PICK n \in Nat : n = Len(list)
  BY <1>1, LeafSizes
<1>3. /\ list \in Seq(Matching) /\ Distinct(list, n) /\ DOMAIN list = 1..n
  BY <1>1, <1>2, LeafSizes DEF LeafTypes
<1>4. CASE Leaves!Listed(p)
  <2>1. PICK w : w = Leaves!Without(p)
    OBVIOUS
  <2>2. PICK at \in 1..n : list[at] = p /\ w \in Seq(Matching) /\ Len(w) = n - 1 /\ WithoutAt(w, list, n, at)
    BY <1>1, <1>2, <1>4, <2>1, RemovesRow
  <2>3. Distinct(w, n - 1) /\ OneMore(w, n - 1, list, n)
    BY <1>3, <2>2, FrontRemoved
  <2>4. CASE ~ matches
    <3>1. list' = w /\ Leaves!Touch(p, list')
      BY <1>1, <2>1, <2>4 DEF Leaves!Touch
    <3>2. reader' = [reader EXCEPT !.left = @ + 1, !.pushed = @ + 0]
      BY <1>1, <1>4, <2>4
    <3>3. Len(list') = n - 1 /\ n - 1 <= n + 0
      BY <2>2, <3>1
    <3>4. OneMore(list', Len(list'), list, Len(list))
      BY <1>2, <2>3, <3>1, <3>3 DEF OneMore, NoneBut
    <3>5. /\ list' \in Seq(Matching) /\ Distinct(list, Len(list))' /\ Len(list') <= Len(list) + 0
      BY <1>2, <2>2, <2>3, <3>1, <3>3 DEF Distinct
    <3>6. 1 \in 0..1 /\ 0 \in 0..1
      OBVIOUS
    <3>7. QED
      BY <3>1, <3>2, <3>4, <3>5, <3>6, ListMoves
  <2>5. CASE matches
    <3>1. list' = <<p>> \o w /\ Leaves!Touch(p, list')
      BY <1>1, <2>1, <2>5 DEF Leaves!Touch
    <3>2. reader' = [reader EXCEPT !.left = @ + 0, !.pushed = @ + 0]
      BY <1>1, <1>4, <2>5
    <3>3. PICK v : v = <<p>> \o w /\ IsPutBefore(v, list[at], w)
      BY <2>2 DEF IsPutBefore
    <3>4. /\ v \in Seq(Matching) /\ Len(v) = n
          /\ BroughtFirst(v, list, n, at)
      <4>1. list[at] \in Matching /\ IsPutBefore(v, list[at], w)
        BY <2>2, <3>3
      <4>2. QED
        BY <2>2, <4>1, PutFirst
    <3>5. Distinct(v, n) /\ NoneBut(p, v, n, list, n)
      BY <1>3, <2>2, <3>4, FrontMoved
    <3>6. list' = v
      BY <3>1, <3>3
    <3>7. OneMore(list', Len(list'), list, Len(list)) /\ NoneBut(p, list', Len(list'), list, Len(list))
      BY <1>2, <3>4, <3>5, <3>6 DEF OneMore, NoneBut
    <3>8. /\ list' \in Seq(Matching) /\ Distinct(list, Len(list))' /\ Len(list') <= Len(list) + 0
      BY <1>2, <3>4, <3>5, <3>6 DEF Distinct
    <3>9. 0 \in 0..1
      OBVIOUS
    <3>10. QED
      BY <3>1, <3>2, <3>7, <3>8, <3>9, ListMoves
  <2>6. QED
    BY <2>4, <2>5
<1>5. CASE ~ Leaves!Listed(p)
  <2>1. matches /\ Leaves!Without(p) = list /\ \A i \in 1..n : list[i] # p
    BY <1>1, <1>3, <1>5 DEF Leaves!Without, Leaves!Listed, Leaves!Range
  <2>2. list' = <<p>> \o list /\ Leaves!Touch(p, list')
    BY <1>1, <2>1 DEF Leaves!Touch
  <2>3. reader' = [reader EXCEPT !.left = @ + 0, !.pushed = @ + 1]
    BY <1>1, <1>5, <2>1
  <2>4. PICK v : v = <<p>> \o list /\ IsPutBefore(v, p, list)
    BY DEF IsPutBefore
  <2>5. /\ v \in Seq(Matching) /\ Len(v) = n + 1
        /\ WithAt(v, list, n, p, 1)
    BY <1>2, <1>3, <2>4, PutBefore
  <2>6. Distinct(v, n + 1) /\ NoneBut(p, v, n + 1, list, n)
    <3>1. 1 \in 1..(n + 1)
      BY <1>2
    <3>2. QED
      BY <1>3, <2>1, <2>5, <3>1, FrontInserted
  <2>7. list' = v
    BY <2>2, <2>4
  <2>8. OneMore(list', Len(list'), list, Len(list)) /\ NoneBut(p, list', Len(list'), list, Len(list))
    BY <1>2, <2>5, <2>6, <2>7 DEF OneMore, NoneBut
  <2>9. /\ list' \in Seq(Matching) /\ Distinct(list, Len(list))' /\ Len(list') <= Len(list) + 1
    BY <1>2, <2>5, <2>6, <2>7 DEF Distinct
  <2>10. 0 \in 0..1 /\ 1 \in 0..1
    OBVIOUS
  <2>11. QED
    BY <2>2, <2>3, <2>8, <2>9, <2>10, ListMoves
<1>6. QED
  BY <1>4, <1>5

LEMMA EnrichesLeaf ==
  ASSUME LeafInv, NEW p \in Matching, NEW i \in 1..(Len(list) + 1), Leaves!SaveEnrichment(p, i)
  PROVE  LeafInv'
<1>1. LeafTypes /\ ~ Leaves!Listed(p) /\ (\E v : IsInsertion(v, list, p, i) /\ Leaves!Touch(p, v))
      /\ reader' = [reader EXCEPT !.pushed = @ + 1]
  BY DEF Leaves!SaveEnrichment, LeafInv, IsInsertion
<1>2. PICK n \in Nat : n = Len(list)
  BY <1>1, LeafSizes
<1>3. /\ list \in Seq(Matching) /\ Distinct(list, n) /\ DOMAIN list = 1..n
  BY <1>1, <1>2, LeafSizes DEF LeafTypes
<1>4. \A j \in 1..n : list[j] # p
  BY <1>1, <1>3 DEF Leaves!Listed, Leaves!Range
<1>5. PICK v : IsInsertion(v, list, p, i) /\ Leaves!Touch(p, v)
  BY <1>1
<1>6. /\ v \in Seq(Matching) /\ Len(v) = n + 1
      /\ WithAt(v, list, n, p, i)
  BY <1>2, <1>3, <1>5, Insertion
<1>7. Distinct(v, n + 1) /\ NoneBut(p, v, n + 1, list, n)
  BY <1>2, <1>3, <1>4, <1>6, FrontInserted
<1>8. list' = v /\ Leaves!Touch(p, list')
  BY <1>1, <1>5 DEF Leaves!Touch
<1>9. reader' = [reader EXCEPT !.left = @ + 0, !.pushed = @ + 1]
  <2>1. PICK x \in Nat, y \in Nat : x = reader.left /\ y = reader.pushed
    BY <1>1, LeafSizes
  <2>2. reader' = [reader EXCEPT !.pushed = y + 1]
    BY <1>1, <2>1
  <2>3. [reader EXCEPT !.left = x] = reader
    BY <1>1, <2>1 DEF LeafTypes
  <2>4. x + 0 = x
    OBVIOUS
  <2>5. QED
    BY <2>1, <2>2, <2>3, <2>4
<1>10. OneMore(list', Len(list'), list, Len(list)) /\ NoneBut(p, list', Len(list'), list, Len(list))
  BY <1>2, <1>6, <1>7, <1>8 DEF OneMore, NoneBut
<1>11. /\ list' \in Seq(Matching) /\ Distinct(list, Len(list))' /\ Len(list') <= Len(list) + 1
  BY <1>2, <1>6, <1>7, <1>8 DEF Distinct
<1>12. 0 \in 0..1 /\ 1 \in 0..1
  OBVIOUS
<1>13. QED
  BY <1>8, <1>9, <1>10, <1>11, <1>12, ListMoves

LEMMA DeletesLeaf == ASSUME LeafInv, NEW p \in Matching, Leaves!DeleteByIDs(p) PROVE LeafInv'
<1>1. LeafTypes /\ Leaves!Listed(p) /\ Leaves!Touch(p, Leaves!Without(p)) /\ reader' = [reader EXCEPT !.left = @ + 1]
  BY DEF Leaves!DeleteByIDs, LeafInv
<1>2. PICK n \in Nat : n = Len(list)
  BY <1>1, LeafSizes
<1>3. Distinct(list, n)
  BY <1>1, <1>2 DEF LeafTypes
<1>4. PICK w : w = Leaves!Without(p)
  OBVIOUS
<1>5. PICK at \in 1..n : list[at] = p /\ w \in Seq(Matching) /\ Len(w) = n - 1 /\ WithoutAt(w, list, n, at)
  BY <1>1, <1>2, <1>4, RemovesRow
<1>6. Distinct(w, n - 1) /\ OneMore(w, n - 1, list, n)
  BY <1>3, <1>5, FrontRemoved
<1>7. list' = w /\ Leaves!Touch(p, list')
  BY <1>1, <1>4 DEF Leaves!Touch
<1>8. reader' = [reader EXCEPT !.left = @ + 1, !.pushed = @ + 0]
  <2>1. PICK x \in Nat, y \in Nat : x = reader.left /\ y = reader.pushed
    BY <1>1, LeafSizes
  <2>2. PICK r : r = [reader EXCEPT !.left = x + 1]
    OBVIOUS
  <2>3. [r EXCEPT !.pushed = y] = r
    BY <1>1, <2>1, <2>2 DEF LeafTypes
  <2>4. y + 0 = y
    OBVIOUS
  <2>5. QED
    BY <1>1, <2>1, <2>2, <2>3, <2>4
<1>9. Len(list') = n - 1 /\ n - 1 <= n + 0
  BY <1>5, <1>7
<1>10. OneMore(list', Len(list'), list, Len(list))
  BY <1>2, <1>6, <1>7, <1>9 DEF OneMore, NoneBut
<1>11. /\ list' \in Seq(Matching) /\ Distinct(list, Len(list))' /\ Len(list') <= Len(list) + 0
  BY <1>2, <1>5, <1>6, <1>7, <1>9 DEF Distinct
<1>12. 1 \in 0..1 /\ 0 \in 0..1
  OBVIOUS
<1>13. QED
  BY <1>7, <1>8, <1>10, <1>11, <1>12, ListMoves

\* The window of leaves around leaf n of m.
LEMMA WindowLeadsOn ==
  ASSUME NEW n \in Nat \ {0}, NEW m \in Nat \ {0}, n <= m, NEW s, s = Leaves!sitePagesPageLinks(n, m)
  PROVE  /\ s \subseteq Int
         /\ n < m => /\ s \subseteq 1..m /\ {n, n + 1} \subseteq s
                     /\ n > 1 => n - 1 \in s
                     /\ Cardinality(s) = Leaves!Smaller(Window, m)
<1>1. PICK w \in Nat : w = Window /\ w >= 3
  BY LeavesAssumption
<1>2. PICK h \in Int, r \in 0..1 : h = w \div 2 /\ w = 2 * h + r
  <2>1. w \div 2 \in Int /\ w % 2 \in 0..(2 - 1) /\ w = 2 * (w \div 2) + (w % 2)
    BY Division
  <2>2. QED
    BY <2>1
<1>3. h >= 1 /\ w - h >= 2
  BY <1>1, <1>2
<1>4. CASE n < m
  <2>1. PICK a \in Int : a = Leaves!Larger(1, n - h) /\ a >= 1 /\ (a = 1 \/ a = n - h) /\ a >= n - h
    BY DEF Leaves!Larger
  <2>2. PICK z \in Int : z = Leaves!Smaller(m, a + w - 1) /\ z <= m /\ z <= a + w - 1 /\ (z = m \/ z = a + w - 1)
    BY DEF Leaves!Smaller
  <2>3. PICK f \in Int : f = Leaves!Larger(1, z - w + 1) /\ f >= 1 /\ f >= z - w + 1 /\ (f = 1 \/ f = z - w + 1)
    <3>1. PICK x \in Int : x = z - w + 1
      OBVIOUS
    <3>2. CASE 1 > x
      <4>1. Leaves!Larger(1, x) = 1
        BY <3>2 DEF Leaves!Larger
      <4>2. QED
        BY <3>1, <3>2, <4>1
    <3>3. CASE ~ (1 > x)
      <4>1. Leaves!Larger(1, x) = x /\ x >= 1
        BY <3>3 DEF Leaves!Larger
      <4>2. QED
        BY <3>1, <4>1
    <3>4. QED
      BY <3>2, <3>3
  <2>4. s = f..z
    <3>1. ~ (m <= 1)
      BY <1>4
    <3>2. QED
      BY <1>1, <1>2, <2>1, <2>2, <2>3, <3>1 DEF Leaves!sitePagesPageLinks
  <2>5. f <= a
    BY <2>1, <2>2, <2>3
  <2>6. a <= n /\ (n > 1 => a <= n - 1)
    BY <1>3, <2>1
  <2>7. z >= n + 1
    <3>1. a + w - 1 >= n + 1
      BY <1>3, <2>1
    <3>2. m >= n + 1
      BY <1>4
    <3>3. QED
      BY <2>2, <3>1, <3>2
  <2>8. /\ s \subseteq 1..m /\ {n, n + 1} \subseteq s
        /\ n > 1 => n - 1 \in s
    <3>1. f <= n
      BY <2>5, <2>6
    <3>2. n > 1 => f <= n - 1
      BY <2>5, <2>6
    <3>3. n \in f..z /\ n + 1 \in f..z /\ (n > 1 => n - 1 \in f..z)
      BY <2>7, <3>1, <3>2
    <3>4. f..z \subseteq 1..m
      BY <2>2, <2>3
    <3>5. QED
      BY <2>4, <3>3, <3>4
  <2>9. Cardinality(s) = z - f + 1
    <3>1. f \in Int /\ z \in Int /\ ~ (f > z)
      BY <2>5, <2>6, <2>7
    <3>2. QED
      BY <2>4, <3>1, FS_Interval
  <2>10. z - f + 1 = Leaves!Smaller(Window, m)
    <3>1. CASE f = z - w + 1
      <4>1. z - f + 1 = w
        BY <3>1
      <4>2. w <= m
        BY <2>2, <2>3, <3>1
      <4>3. QED
        BY <1>1, <4>1, <4>2 DEF Leaves!Smaller
    <3>2. CASE f = 1 /\ f # z - w + 1
      <4>1. z < w
        BY <2>3, <3>2
      <4>2. z = m
        BY <2>1, <2>2, <4>1
      <4>3. z - f + 1 = m /\ m < w
        BY <3>2, <4>1, <4>2
      <4>4. QED
        BY <1>1, <4>3 DEF Leaves!Smaller
    <3>3. QED
      BY <2>3, <3>1, <3>2
  <2>11. QED
    BY <1>4, <2>4, <2>8, <2>9, <2>10
<1>5. CASE ~ (n < m)
  <2>1. CASE m <= 1
    BY <1>5, <2>1 DEF Leaves!sitePagesPageLinks
  <2>2. CASE ~ (m <= 1)
    <3>1. PICK f, z : s = f..z /\ f \in Int /\ z \in Int
      <4>1. \A x, y \in Int : Leaves!Larger(x, y) \in Int /\ Leaves!Smaller(x, y) \in Int
        BY DEF Leaves!Larger, Leaves!Smaller
      <4>2. PICK a \in Int : a = Leaves!Larger(1, n - h)
        BY <4>1
      <4>3. PICK z \in Int : z = Leaves!Smaller(m, a + w - 1)
        BY <4>1
      <4>4. PICK f \in Int : f = Leaves!Larger(1, z - w + 1)
        BY <4>1
      <4>5. s = f..z
        BY <1>1, <1>2, <2>2, <4>2, <4>3, <4>4 DEF Leaves!sitePagesPageLinks
      <4>6. QED
        BY <4>5
    <3>2. QED
      BY <1>5, <3>1
  <2>3. QED
    BY <2>1, <2>2
<1>6. QED
  BY <1>4, <1>5

\* As many leaves as hold all the rows there were.
LEMMA LeavesHold ==
  ASSUME NEW total \in Nat
  PROVE  /\ Leaves!LeavesOf(total) \in Nat \ {0}
         /\ total <= Leaves!LeavesOf(total) * PerPage
<1>1. PICK p \in Nat \ {0} : p = PerPage
  BY LeavesAssumption
<1>2. PICK q \in Int, r \in 0..(p - 1) : q = (total + p - 1) \div p /\ total + p - 1 = p * q + r
  <2>1. total + p - 1 \in Int
    OBVIOUS
  <2>2. /\ (total + p - 1) \div p \in Int /\ (total + p - 1) % p \in 0..(p - 1)
        /\ total + p - 1 = p * ((total + p - 1) \div p) + ((total + p - 1) % p)
    BY <2>1, Division
  <2>3. QED
    BY <2>2
<1>3. PICK l \in Int : l = Leaves!LeavesOf(total) /\ l >= 1 /\ l >= q /\ (l = 1 \/ l = q)
  BY <1>1, <1>2 DEF Leaves!LeavesOf, Leaves!Larger
<1>4. p * q \in Int /\ q * p = p * q /\ total <= p * q
  <2>1. q * p \in Int /\ q * p = p * q
    BY MultiplesApart
  <2>2. QED
    BY <1>2, <2>1
<1>5. total <= l * p
  <2>1. CASE l = q
    BY <1>4, <2>1
  <2>2. CASE l = 1 /\ q < 1
    <3>1. q * p < 1 * p /\ 1 * p = p /\ l * p = p
      BY <2>2, MultiplesApart
    <3>2. QED
      BY <1>4, <3>1
  <2>3. QED
    BY <1>3, <2>1, <2>2
<1>6. QED
  BY <1>1, <1>3, <1>5

\* What a smaller number of rows holds.
LEMMA PassedFewer ==
  ASSUME LeafTypes, NEW a \in Nat, NEW b \in Nat, a <= b, Passed(b)
  PROVE  Passed(a)
<1>1. PassedBy(a) \subseteq PassedBy(b)
  BY LeafSizes DEF PassedBy, Front
<1>2. Cardinality(PassedBy(a)) <= Cardinality(PassedBy(b))
  BY <1>1, LeafSizes, FS_Subset
<1>3. /\ Cardinality(PassedBy(a)) \in Nat /\ Cardinality(PassedBy(b)) \in Nat /\ reader.left \in Nat
      /\ Cardinality(PassedBy(b)) <= reader.left
  BY LeafSizes DEF Passed
<1>4. QED
  BY <1>2, <1>3 DEF Passed

LEMMA CountsLeaf == ASSUME LeafInv, Leaves!CountFiltered PROVE LeafInv'
<1>1. LeafTypes /\ reader.step = "count" /\ UNCHANGED <<list, fresh, touches>>
  BY DEF LeafInv, Leaves!CountFiltered
<1>2. PICK t \in Nat, m \in Nat \ {0} : t = Len(list) /\ m = Leaves!LeavesOf(t) /\ t <= m * PerPage
  BY <1>1, LeafSizes, LeavesHold
<1>3. PICK o \in Nat \ {0} : o = reader.leaf.n
  BY <1>1, LeafSizes
<1>4. PICK n \in Nat \ {0} : n = Leaves!Smaller(o, m) /\ n <= m /\ n <= o
  BY DEF Leaves!Smaller
<1>5. PICK s : s = Leaves!sitePagesPageLinks(n, m)
  OBVIOUS
<1>6. /\ s \subseteq Int
      /\ n < m => /\ s \subseteq 1..m /\ {n, n + 1} \subseteq s
                  /\ n > 1 => n - 1 \in s
                  /\ Cardinality(s) = Leaves!Smaller(Window, m)
  BY <1>4, <1>5, WindowLeadsOn
<1>7. PICK leaf \in [n : Nat \ {0}, leaves : Nat \ {0}, links : SUBSET Int] :
        leaf.n = n /\ leaf.leaves = m /\ leaf.links = s /\ leaf = Leaves!Leaf(n, m, s)
  BY <1>6 DEF Leaves!Leaf
<1>8. reader' = [reader EXCEPT !.step = "list", !.pushed = 0, !.total = t, !.leaf = leaf]
  BY <1>2, <1>3, <1>4, <1>5, <1>7 DEF Leaves!CountFiltered
<1>9. /\ reader' \in [step : {"count", "list", "reading", "done", "astray"}, onlyErrors : BOOLEAN,
                      leaf : [n : Nat \ {0}, leaves : Nat \ {0}, links : SUBSET Int],
                      total : Nat, seen : SUBSET Matching, left : Nat, pushed : Nat]
      /\ reader'.step = "list" /\ reader'.leaf = leaf /\ reader'.total = t
      /\ reader'.seen = reader.seen /\ reader'.left = reader.left /\ reader'.pushed = 0
  BY <1>1, <1>8 DEF LeafTypes
<1>10. LeafTypes'
  <2>1. 0 <= touches
    BY <1>1 DEF LeafTypes
  <2>2. QED
    BY <1>1, <1>9, <2>1 DEF LeafTypes
<1>11. Passed((reader.leaf.n - 1) * PerPage)'
  <2>1. PICK x \in Nat, y \in Nat : x = n - 1 /\ y = o - 1 /\ x <= y
    BY <1>4
  <2>2. PICK a \in Nat, b \in Nat : a = x * PerPage /\ b = y * PerPage /\ a <= b
    <3>1. x * PerPage \in Nat /\ y * PerPage \in Nat
      BY MultiplesOf
    <3>2. x * PerPage <= y * PerPage
      <4>1. CASE x = y
        BY <3>1, <4>1
      <4>2. CASE x < y
        <5>1. PICK p \in Nat \ {0} : p = PerPage
          BY LeavesAssumption
        <5>2. x * p < y * p
          BY <4>2, MultiplesApart
        <5>3. QED
          BY <3>1, <5>1, <5>2
      <4>3. QED
        BY <2>1, <4>1, <4>2
    <3>3. QED
      BY <3>1, <3>2
  <2>3. Passed(b)
    BY <1>1, <1>3, <2>1, <2>2 DEF LeafInv, LeafKept
  <2>4. Passed(a)
    BY <1>1, <2>2, <2>3, PassedFewer
  <2>5. Passed(a)'
    BY <1>1, <1>9, <2>4 DEF Passed, PassedBy
  <2>6. (reader'.leaf.n - 1) * PerPage = a
    BY <1>7, <1>9, <2>1, <2>2
  <2>7. QED
    BY <2>5, <2>6 DEF Passed, PassedBy
<1>12. LeadsOn(reader.leaf)'
  BY <1>6, <1>7, <1>9 DEF LeadsOn
<1>13. Len(list') <= reader'.total + reader'.pushed /\ reader'.total <= reader'.leaf.leaves * PerPage
       /\ reader'.leaf.n <= reader'.leaf.leaves
  <2>1. Len(list') = t /\ t <= t + 0
    BY <1>1, <1>2
  <2>2. QED
    BY <1>2, <1>4, <1>7, <1>9, <2>1
<1>14. LeafKept'
  BY <1>9, <1>11, <1>12, <1>13 DEF LeafKept
<1>15. QED
  BY <1>10, <1>14 DEF LeafInv

\* Where the table rests and the reader goes on.
LEMMA ReaderGoesOn ==
  ASSUME LeafInv, UNCHANGED <<list, fresh, touches>>,
         reader' \in [step : {"count", "list", "reading", "done", "astray"}, onlyErrors : BOOLEAN,
                      leaf : [n : Nat \ {0}, leaves : Nat \ {0}, links : SUBSET Int],
                      total : Nat, seen : SUBSET Matching, left : Nat, pushed : Nat],
         reader'.left = reader.left, reader'.pushed = reader.pushed, LeafKept'
  PROVE  LeafInv'
  BY DEF LeafInv, LeafTypes

\* The rows that are shown are those from the end of the leaf before.
LEMMA RowsOfLeaf ==
  ASSUME LeafTypes, NEW n \in Nat \ {0}, NEW a \in Nat, NEW b \in Nat,
         a = (n - 1) * PerPage, b = n * PerPage, b = a + PerPage, NEW i \in 1..Len(list), i <= b
  PROVE  i <= a \/ list[i] \in Leaves!Rows(n)
<1>1. PICK t \in Nat, p \in Nat \ {0} : t = Len(list) /\ p = PerPage
  BY LeafSizes
<1>2. PICK z \in Int : z = Leaves!Smaller(a + p, t) /\ (z = a + p \/ z = t)
  BY DEF Leaves!Smaller
<1>3. Leaves!Rows(n) = {list[k] : k \in (a + 1)..z}
  BY <1>1, <1>2 DEF Leaves!Rows
<1>4. CASE ~ (i <= a)
  <2>1. i \in (a + 1)..z
    BY <1>1, <1>2, <1>4
  <2>2. QED
    BY <1>3, <2>1
<1>5. QED
  BY <1>4

LEMMA RowsMatch == ASSUME LeafTypes, NEW n \in Nat \ {0} PROVE Leaves!Rows(n) \subseteq Matching
<1>1. PICK t \in Nat, p \in Nat \ {0} : t = Len(list) /\ p = PerPage
  BY LeafSizes
<1>2. PICK a \in Nat : a = (n - 1) * p
  <2>1. n - 1 \in Nat
    OBVIOUS
  <2>2. QED
    BY <1>1, <2>1, MultiplesOf
<1>3. PICK z \in Int : z = Leaves!Smaller(a + p, t) /\ z <= t
  BY DEF Leaves!Smaller
<1>4. Leaves!Rows(n) = {list[k] : k \in (a + 1)..z}
  BY <1>1, <1>2, <1>3 DEF Leaves!Rows
<1>5. \A k \in (a + 1)..z : k \in 1..t
  BY <1>3
<1>6. QED
  BY <1>1, <1>4, <1>5, LeafSizes

LEMMA ShowsLeaf == ASSUME LeafInv, Leaves!ShowLeaf PROVE LeafInv'
<1>1. LeafTypes /\ reader.step = "list" /\ UNCHANGED <<list, fresh, touches>>
  BY DEF LeafInv, Leaves!ShowLeaf
<1>2. PICK n \in Nat \ {0}, m \in Nat \ {0} : n = reader.leaf.n /\ m = reader.leaf.leaves
  BY <1>1, LeafSizes
<1>3. PICK a \in Nat, b \in Nat : a = (n - 1) * PerPage /\ b = n * PerPage /\ b = a + PerPage
  BY <1>1, <1>2, LeafSizes
<1>4. PICK new \in SUBSET Matching : new = reader.seen \cup Leaves!Rows(n)
  BY <1>1, <1>2, RowsMatch, LeafSizes
<1>5. PICK to \in {"reading", "done"} : to = IF n < m THEN "reading" ELSE "done"
  OBVIOUS
<1>6. reader' = [reader EXCEPT !.seen = new, !.step = to]
  BY <1>2, <1>4, <1>5 DEF Leaves!ShowLeaf
<1>7. /\ reader' \in [step : {"count", "list", "reading", "done", "astray"}, onlyErrors : BOOLEAN,
                      leaf : [n : Nat \ {0}, leaves : Nat \ {0}, links : SUBSET Int],
                      total : Nat, seen : SUBSET Matching, left : Nat, pushed : Nat]
      /\ reader'.step = to /\ reader'.leaf = reader.leaf /\ reader'.total = reader.total
      /\ reader'.seen = new /\ reader'.left = reader.left /\ reader'.pushed = reader.pushed
  BY <1>1, <1>6 DEF LeafTypes
<1>8. PassedBy(b)' \subseteq PassedBy(a)
  <2>1. ASSUME NEW i \in 1..Len(list), i <= b, list[i] \notin new \cup fresh
        PROVE  list[i] \in PassedBy(a)
    <3>1. i <= a
      BY <1>1, <1>2, <1>3, <1>4, <2>1, RowsOfLeaf
    <3>2. QED
      BY <1>4, <2>1, <3>1 DEF PassedBy, Front
  <2>2. QED
    BY <1>1, <1>7, <2>1 DEF PassedBy, Front
<1>9. PICK early, late : early = PassedBy(a) /\ late = PassedBy(b)'
  OBVIOUS
<1>10. /\ IsFiniteSet(early) /\ Cardinality(early) \in Nat /\ Cardinality(early) <= reader.left
       /\ IsFiniteSet(late) /\ Cardinality(late) \in Nat /\ Cardinality(late) <= Cardinality(early)
  <2>1. IsFiniteSet(early) /\ Cardinality(early) \in Nat
    BY <1>1, <1>9, LeafSizes
  <2>2. Cardinality(early) <= reader.left
    BY <1>1, <1>2, <1>3, <1>9 DEF LeafInv, LeafKept, Passed
  <2>3. QED
    BY <1>8, <1>9, <2>1, <2>2, FS_Subset, FS_CardinalityType
<1>11. reader.left \in Nat /\ reader.pushed \in Nat /\ Len(list) \in Nat
  BY <1>1, LeafSizes
<1>12. LeadsOn(reader.leaf) /\ n <= m /\ reader.total <= m * PerPage /\ Len(list) <= reader.total + reader.pushed
  BY <1>1, <1>2 DEF LeafInv, LeafKept
<1>13. CASE to = "reading"
  <2>1. n < m
    BY <1>5, <1>13
  <2>2. Passed(b)'
    BY <1>7, <1>9, <1>10, <1>11 DEF Passed
  <2>3. reader'.leaf.n * PerPage = b
    BY <1>2, <1>3, <1>7
  <2>4. Passed(reader.leaf.n * PerPage)'
    BY <2>2, <2>3 DEF Passed, PassedBy
  <2>5. LeafKept'
    BY <1>2, <1>7, <1>12, <1>13, <2>1, <2>4 DEF LeafKept, LeadsOn
  <2>6. QED
    BY <1>1, <1>7, <2>5, ReaderGoesOn
<1>14. CASE to = "done"
  <2>1. n = m
    BY <1>5, <1>12, <1>14
  <2>2. PICK t \in Nat, s \in Nat : t = Len(list) /\ s = reader.pushed /\ t <= b + s
    <3>1. PICK t \in Nat, s \in Nat, w \in Nat : t = Len(list) /\ s = reader.pushed /\ w = reader.total
      BY <1>1, LeafSizes
    <3>2. w <= b /\ t <= w + s
      BY <1>3, <1>12, <2>1, <3>1
    <3>3. t <= b + s
      BY <3>2
    <3>4. QED
      BY <3>1, <3>3
  <2>3. PICK rest : rest = {list[i] : i \in (b + 1)..t}
    OBVIOUS
  <2>4. IsFiniteSet(rest) /\ Cardinality(rest) \in Nat /\ Cardinality(rest) <= s
    <3>1. IsFiniteSet((b + 1)..t) /\ Cardinality((b + 1)..t) = (IF b + 1 > t THEN 0 ELSE t - (b + 1) + 1)
      <4>1. b + 1 \in Int /\ t \in Int
        OBVIOUS
      <4>2. QED
        BY <4>1, FS_Interval
    <3>2. IsFiniteSet(rest) /\ Cardinality(rest) <= Cardinality((b + 1)..t)
      <4>1. PICK f : f = [i \in (b + 1)..t |-> list[i]]
        OBVIOUS
      <4>2. f \in Surjection((b + 1)..t, rest)
        BY <2>3, <4>1 DEF Surjection
      <4>3. QED
        BY <3>1, <4>2, FS_Surjection
    <3>3. Cardinality((b + 1)..t) \in Nat /\ Cardinality((b + 1)..t) <= s
      BY <2>2, <3>1
    <3>4. Cardinality(rest) \in Nat
      BY <3>2, FS_CardinalityType
    <3>5. QED
      BY <3>2, <3>3, <3>4
  <2>5. PassedBy(Len(list))' \subseteq late \cup rest
    <3>1. ASSUME NEW i \in 1..t, list[i] \notin new \cup fresh
          PROVE  list[i] \in late \cup rest
      <4>1. CASE i <= b
        BY <1>1, <1>7, <1>9, <2>2, <3>1, <4>1 DEF PassedBy, Front
      <4>2. CASE ~ (i <= b)
        <5>1. i \in (b + 1)..t
          BY <4>2
        <5>2. QED
          BY <2>3, <5>1
      <4>3. QED
        BY <4>1, <4>2
    <3>2. QED
      BY <1>1, <1>7, <2>2, <3>1 DEF PassedBy, Front
  <2>6. PICK all : all = PassedBy(Len(list))'
    OBVIOUS
  <2>7. Cardinality(all) <= reader.left + reader.pushed
    <3>1. IsFiniteSet(late \cup rest) /\ Cardinality(late \cup rest) <= Cardinality(late) + Cardinality(rest)
      <4>1. /\ IsFiniteSet(late \cup rest)
            /\ Cardinality(late \cup rest) = Cardinality(late) + Cardinality(rest) - Cardinality(late \cap rest)
        BY <1>10, <2>4, FS_Union
      <4>2. Cardinality(late \cap rest) \in Nat
        BY <1>10, FS_Intersection, FS_CardinalityType
      <4>3. QED
        BY <1>10, <2>4, <4>1, <4>2
    <3>2. Cardinality(all) <= Cardinality(late \cup rest) /\ Cardinality(all) \in Nat /\ Cardinality(late \cup rest) \in Nat
      BY <2>5, <2>6, <3>1, FS_Subset, FS_CardinalityType
    <3>3. QED
      BY <1>10, <1>11, <2>2, <2>4, <3>1, <3>2
  <2>8. LeafKept'
    BY <1>7, <1>14, <2>6, <2>7 DEF LeafKept
  <2>9. QED
    BY <1>1, <1>7, <2>8, ReaderGoesOn
<1>15. QED
  BY <1>13, <1>14

LEMMA TurnsLeaf == ASSUME LeafInv, Leaves!NextURL PROVE LeafInv'
<1>1. LeafTypes /\ reader.step = "reading" /\ UNCHANGED <<list, fresh, touches>>
  BY DEF LeafInv, Leaves!NextURL
<1>2. PICK n \in Nat \ {0} : n = reader.leaf.n
  BY <1>1, LeafSizes
<1>3. PICK leaf \in [n : Nat \ {0}, leaves : Nat \ {0}, links : SUBSET Int] :
        leaf.n = n + 1 /\ leaf = Leaves!Leaf(n + 1, 1, {})
  <2>1. PICK k \in Nat \ {0} : k = n + 1
    OBVIOUS
  <2>2. PICK leaf : leaf = [n |-> k, leaves |-> 1, links |-> {}]
    OBVIOUS
  <2>3. leaf \in [n : Nat \ {0}, leaves : Nat \ {0}, links : SUBSET Int] /\ leaf.n = k
    BY <2>2
  <2>4. QED
    BY <2>1, <2>2, <2>3 DEF Leaves!Leaf
<1>4. reader' = [reader EXCEPT !.step = "count", !.leaf = leaf]
  <2>1. [reader EXCEPT !.step = "count", !.leaf = Leaves!Leaf(@.n + 1, 1, {})]
          = [reader EXCEPT !.step = "count", !.leaf = Leaves!Leaf(reader.leaf.n + 1, 1, {})]
    BY <1>1 DEF LeafTypes
  <2>2. QED
    BY <1>2, <1>3, <2>1 DEF Leaves!NextURL
<1>5. /\ reader' \in [step : {"count", "list", "reading", "done", "astray"}, onlyErrors : BOOLEAN,
                      leaf : [n : Nat \ {0}, leaves : Nat \ {0}, links : SUBSET Int],
                      total : Nat, seen : SUBSET Matching, left : Nat, pushed : Nat]
      /\ reader'.step = "count" /\ reader'.leaf = leaf
      /\ reader'.seen = reader.seen /\ reader'.left = reader.left /\ reader'.pushed = reader.pushed
  BY <1>1, <1>4 DEF LeafTypes
<1>6. Passed(reader.leaf.n * PerPage)
  BY <1>1 DEF LeafInv, LeafKept
<1>7. (reader'.leaf.n - 1) * PerPage = reader.leaf.n * PerPage
  <2>1. (n + 1) - 1 = n
    OBVIOUS
  <2>2. QED
    BY <1>2, <1>3, <1>5, <2>1
<1>8. Passed((reader.leaf.n - 1) * PerPage)'
  BY <1>1, <1>5, <1>6, <1>7 DEF Passed, PassedBy
<1>9. LeafKept'
  BY <1>5, <1>8 DEF LeafKept
<1>10. QED
  BY <1>1, <1>5, <1>9, ReaderGoesOn

\* The reading ends where the filter is lost.
LEMMA StraysLeaf == ASSUME LeafInv, Leaves!LosesFilter PROVE LeafInv'
<1>1. LeafTypes /\ UNCHANGED <<list, fresh, touches>> /\ reader' = [reader EXCEPT !.step = "astray"]
  BY DEF LeafInv, Leaves!LosesFilter
<1>2. /\ reader' \in [step : {"count", "list", "reading", "done", "astray"}, onlyErrors : BOOLEAN,
                      leaf : [n : Nat \ {0}, leaves : Nat \ {0}, links : SUBSET Int],
                      total : Nat, seen : SUBSET Matching, left : Nat, pushed : Nat]
      /\ reader'.step = "astray" /\ reader'.left = reader.left /\ reader'.pushed = reader.pushed
  BY <1>1 DEF LeafTypes
<1>3. LeafKept'
  BY <1>2 DEF LeafKept
<1>4. QED
  BY <1>1, <1>2, <1>3, ReaderGoesOn

LEMMA InitLeaf == ASSUME Leaves!Init PROVE LeafInv
<1>1. PICK c \in 0..Leaves!Cardinality(Matching) : list \in [1..c -> Matching] /\ Leaves!IsInjective(list)
  BY DEF Leaves!Init
<1>2. c \in Nat
  BY <1>1
<1>3. list \in Seq(Matching) /\ Len(list) = c /\ Distinct(list, Len(list))
  <2>1. DOMAIN list = 1..c
    BY <1>1
  <2>2. list \in Seq(Matching) /\ Len(list) = c
    BY <1>1, <1>2, <2>1
  <2>3. QED
    BY <1>1, <2>1, <2>2 DEF Leaves!IsInjective, Distinct
<1>4. PICK leaf \in [n : Nat \ {0}, leaves : Nat \ {0}, links : SUBSET Int] : leaf.n = 1 /\ leaf = Leaves!Leaf(1, 1, {})
  <2>1. PICK leaf : leaf = [n |-> 1, leaves |-> 1, links |-> {}]
    OBVIOUS
  <2>2. leaf \in [n : Nat \ {0}, leaves : Nat \ {0}, links : SUBSET Int] /\ leaf.n = 1
    BY <2>1
  <2>3. QED
    BY <2>1, <2>2 DEF Leaves!Leaf
<1>5. /\ \E only \in BOOLEAN : reader = [step |-> "count", onlyErrors |-> only, leaf |-> leaf, total |-> 0,
                                         seen |-> {}, left |-> 0, pushed |-> 0]
      /\ fresh = {} /\ touches = 0
  BY <1>4 DEF Leaves!Init
<1>6. /\ reader \in [step : {"count", "list", "reading", "done", "astray"}, onlyErrors : BOOLEAN,
                     leaf : [n : Nat \ {0}, leaves : Nat \ {0}, links : SUBSET Int],
                     total : Nat, seen : SUBSET Matching, left : Nat, pushed : Nat]
      /\ reader.step = "count" /\ reader.leaf = leaf /\ reader.left = 0 /\ reader.pushed = 0
  BY <1>5
<1>7. LeafTypes
  BY <1>3, <1>5, <1>6, LeavesAssumption DEF LeafTypes
<1>8. Passed((reader.leaf.n - 1) * PerPage)
  <2>1. PassedBy((reader.leaf.n - 1) * PerPage) = {}
    <3>1. (reader.leaf.n - 1) * PerPage = 0
      <4>1. PICK p \in Nat \ {0} : p = PerPage
        BY LeavesAssumption
      <4>2. (1 - 1) * p = 0
        OBVIOUS
      <4>3. QED
        BY <1>4, <1>6, <4>1, <4>2
    <3>2. \A i \in 1..Len(list) : ~ (i <= 0)
      BY <1>2, <1>3
    <3>3. QED
      BY <3>1, <3>2 DEF PassedBy, Front
  <2>2. Cardinality(PassedBy((reader.leaf.n - 1) * PerPage)) = 0 /\ reader.left = 0
    BY <1>6, <2>1, FS_EmptySet
  <2>3. QED
    BY <2>2 DEF Passed
<1>9. QED
  BY <1>6, <1>7, <1>8 DEF LeafInv, LeafKept

LEMMA InductiveLeaf == ASSUME LeafInv, [Leaves!Next]_(Leaves!pagerVars) PROVE LeafInv'
<1>1. CASE UNCHANGED Leaves!pagerVars
  BY <1>1 DEF Leaves!pagerVars, LeafInv, LeafTypes, LeafKept, Passed, PassedBy, LeadsOn
<1>2. CASE Leaves!Next
  BY <1>2, CountsLeaf, ShowsLeaf, TurnsLeaf, StraysLeaf, UpsertsLeaf, EnrichesLeaf, DeletesLeaf DEF Leaves!Next
<1>3. QED
  BY <1>1, <1>2

LEMMA LeafHolds == ASSUME LeafInv PROVE Leaves!TypeOK /\ Leaves!MissedAtMostMoved /\ Leaves!LinksLeadOn
<1>1. LeafTypes /\ DOMAIN list = 1..Len(list) /\ \A T : Leaves!Cardinality(T) = Cardinality(T)
  BY LeafSizes DEF LeafInv, Leaves!Cardinality, Cardinality
<1>2. Leaves!TypeOK
  <2>1. Leaves!IsInjective(list)
    BY <1>1 DEF LeafTypes, Distinct, Leaves!IsInjective
  <2>2. PICK t \in Nat, x \in Nat, y \in Nat : t = touches /\ x = reader.left /\ y = reader.pushed
    <3>1. touches \in Nat
      BY <1>1, LeafSizes DEF LeafTypes
    <3>2. reader.left \in Nat /\ reader.pushed \in Nat
      BY <1>1, LeafSizes
    <3>3. QED
      BY <3>1, <3>2
  <2>3. x \in 0..MaxTouches /\ y \in 0..MaxTouches
    BY <1>1, <2>2, LeafSizes DEF LeafTypes
  <2>4. QED
    BY <1>1, <2>1, <2>2, <2>3, LeafSizes DEF LeafTypes, Leaves!TypeOK
<1>3. Leaves!MissedAtMostMoved
  <2>1. Leaves!Missed = PassedBy(Len(list))
    <3>1. \A i \in 1..Len(list) : i <= Len(list)
      BY <1>1, LeafSizes
    <3>2. QED
      BY <1>1, <3>1 DEF Leaves!Missed, Leaves!Range, PassedBy, Front
  <2>2. QED
    BY <1>1, <2>1 DEF LeafInv, LeafKept, Leaves!MissedAtMostMoved
<1>4. Leaves!LinksLeadOn
  BY <1>1 DEF LeafInv, LeafKept, LeadsOn, Leaves!LinksLeadOn
<1>5. QED
  BY <1>2, <1>3, <1>4

\* Who reads a list of any length leaf by leaf, under filters the links hand on,
\* misses no more rows than left the list or moved in it meanwhile, and the links
\* of a leaf lead to leaves there are
\* (handleSitePagesPage, sitePageWindow).
THEOREM LeavesMissNoMoreThanMoved ==
  Leaves!Init /\ [][Leaves!Next]_(Leaves!pagerVars) => [](Leaves!TypeOK /\ Leaves!MissedAtMostMoved /\ Leaves!LinksLeadOn)
BY InitLeaf, InductiveLeaf, LeafHolds, PTL

------------------------------------------------------------------------------

(* The start of the service. *)

Releases0 == 0..(1 + MaxReleases)

BootProcs == [at : {"down", "opening", "loading", "applying", "recording", "assembling", "up"},
              seen : [1..Migrations -> Releases0], next : 1..(Migrations + 1), clean : BOOLEAN]

BootTypes ==
  /\ files \in [1..Migrations -> Releases0] /\ schema \in [1..Migrations -> Releases0]
  /\ recorded \in [1..Migrations -> Releases0] /\ documents \in BOOLEAN
  /\ executions \in [1..Migrations -> Nat] /\ cut \subseteq 1..Migrations
  /\ settings \in Boot!Settings
  /\ proc \in [{"serve", "migrate"} -> BootProcs]
  /\ budget \in [faults : Nat, starts : Nat, releases : Nat]
  /\ \A v \in 1..Migrations : files[v] + budget.releases <= 1 + MaxReleases

\* A release has no gaps, nothing is executed that it has not, and what is
\* recorded was executed as recorded, behind everything in front of it.
SchemaKept ==
  \A v \in 1..Migrations :
    /\ \A u \in 1..Migrations : u < v /\ files[v] # 0 => files[u] # 0
    /\ schema[v] # 0 => files[v] # 0
    /\ recorded[v] # 0 => schema[v] = recorded[v]
    /\ schema[v] # 0 => \A u \in 1..Migrations : u < v /\ files[u] # 0 => recorded[u] # 0

\* What a process has read is recorded still, what was recorded since is of
\* the release, and so is all it has passed.
ProcFits(x) ==
  x.at \in {"applying", "recording"} =>
    /\ \A v \in 1..Migrations : /\ x.seen[v] # 0 => recorded[v] = x.seen[v]
                                /\ x.seen[v] = 0 /\ recorded[v] # 0 => recorded[v] = files[v]
                                /\ v < x.next => files[v] = 0 \/ recorded[v] = files[v]
    /\ x.at = "recording" => /\ x.next \in 1..Migrations
                             /\ files[x.next] # 0 /\ schema[x.next] = files[x.next]

\* What is executed is being recorded, or recorded, unless it was cut.
InHand(x, v) == IF x.at = "recording" /\ x.next = v THEN 1 ELSE 0
ExecutionsCounted ==
  \A v \in 1..Migrations \ cut :
    executions[v] = InHand(proc["serve"], v) + InHand(proc["migrate"], v) + (IF recorded[v] # 0 THEN 1 ELSE 0)

\* A service that went through its migrations is up to date.
ServeKept ==
  /\ proc["migrate"].at \notin {"opening", "assembling", "up"}
  /\ proc["serve"].at \in {"assembling", "up"} /\ proc["serve"].clean /\ settings.migrate =>
       \A v \in 1..Migrations : recorded[v] = files[v]

ScheduleKept ==
  IF proc["serve"].at = "up" THEN \E jobs, pages \in BOOLEAN : schedule = Boot!Schedulers(settings, jobs, pages)
  ELSE schedule = {}

BootInv == /\ BootTypes /\ SchemaKept /\ ProcFits(proc["serve"]) /\ ProcFits(proc["migrate"])
           /\ ExecutionsCounted /\ ServeKept /\ ScheduleKept

LEMMA TwoProcesses ==
  /\ Boot!Processes = {"serve", "migrate"}
  /\ Boot!Other("serve") = "migrate" /\ Boot!Other("migrate") = "serve"
BY DEF Boot!Processes, Boot!Other

LEMMA InitBoot == ASSUME Boot!Init PROVE BootInv
<1>1. Migrations \in Nat /\ MaxReleases \in Nat /\ StartFaults \in Nat /\ MaxStarts \in Nat
      /\ Shipped \subseteq 1..Migrations /\ \A v \in Shipped, u \in 1..Migrations : u < v => u \in Shipped
  BY ServiceAssumption
<1>2. Boot!Down \in BootProcs /\ Boot!Down.at = "down"
  BY <1>1 DEF Boot!Down, BootProcs, Releases0
<1>3. BootTypes
  <2>1. budget = [faults |-> StartFaults, starts |-> MaxStarts, releases |-> MaxReleases]
        /\ settings \in Boot!Settings /\ documents \in BOOLEAN /\ cut = {}
    BY DEF Boot!Init
  <2>2. files \in [1..Migrations -> 0..1] /\ files \in [1..Migrations -> Releases0]
    BY <1>1 DEF Boot!Init, Releases0
  <2>3. schema \in [1..Migrations -> Releases0] /\ recorded \in [1..Migrations -> Releases0]
        /\ executions \in [1..Migrations -> Nat]
    BY <1>1 DEF Boot!Init, Releases0
  <2>4. proc \in [{"serve", "migrate"} -> BootProcs]
    BY <1>2, TwoProcesses DEF Boot!Init
  <2>5. \A v \in 1..Migrations : files[v] + budget.releases <= 1 + MaxReleases
    BY <1>1, <2>1, <2>2
  <2>6. QED
    BY <1>1, <2>1, <2>2, <2>3, <2>4, <2>5 DEF BootTypes
<1>4. proc["serve"].at = "down" /\ proc["migrate"].at = "down"
  BY <1>2, TwoProcesses DEF Boot!Init
<1>5. SchemaKept
  BY <1>1 DEF Boot!Init, SchemaKept
<1>6. ExecutionsCounted
  BY <1>4 DEF Boot!Init, ExecutionsCounted, InHand
<1>7. ServeKept /\ ScheduleKept /\ ProcFits(proc["serve"]) /\ ProcFits(proc["migrate"])
  BY <1>4 DEF Boot!Init, ServeKept, ScheduleKept, ProcFits
<1>8. QED
  BY <1>3, <1>5, <1>6, <1>7 DEF BootInv

\* A process that goes on changes nothing of the other but its being alone.
LEMMA ProcessGoesOn ==
  ASSUME proc \in [{"serve", "migrate"} -> BootProcs], NEW p \in {"serve", "migrate"}, NEW q \in {"serve", "migrate"},
         p # q, NEW x \in BootProcs, Boot!GoOn(p, x)
  PROVE  /\ proc' \in [{"serve", "migrate"} -> BootProcs]
         /\ proc'[p].at = x.at /\ proc'[p].seen = x.seen /\ proc'[p].next = x.next
         /\ proc'[p].clean => x.clean
         /\ proc'[q].at = proc[q].at /\ proc'[q].seen = proc[q].seen /\ proc'[q].next = proc[q].next
         /\ proc'[q].clean => proc[q].clean
<1>1. Boot!Other(p) = q
  BY TwoProcesses
<1>2. PICK alone \in BOOLEAN, also \in BOOLEAN :
        proc' = [proc EXCEPT ![p] = [x EXCEPT !.clean = @ /\ alone], ![q].clean = @ /\ also]
  BY <1>1 DEF Boot!GoOn
<1>3. x.clean \in BOOLEAN /\ proc[q].clean \in BOOLEAN
  BY DEF BootProcs
<1>4. PICK c \in BOOLEAN, d \in BOOLEAN : c = (x.clean /\ alone) /\ d = (proc[q].clean /\ also)
  BY <1>2, <1>3
<1>5. proc' = [proc EXCEPT ![p] = [x EXCEPT !.clean = c], ![q] = [proc[q] EXCEPT !.clean = d]]
  BY <1>2, <1>4
<1>6. QED
  BY <1>3, <1>4, <1>5 DEF BootProcs

LEMMA ScheduleStays ==
  ASSUME BootInv, UNCHANGED <<schedule, settings>>, proc'["serve"].at = "up" <=> proc["serve"].at = "up"
  PROVE  ScheduleKept'
BY DEF BootInv, ScheduleKept

LEMMA BudgetKept ==
  ASSUME BootInv, Boot!Free \/ Boot!Fault \/ Boot!Spend("starts")
  PROVE  budget' \in [faults : Nat, starts : Nat, releases : Nat] /\ budget'.releases = budget.releases
<1>1. budget \in [faults : Nat, starts : Nat, releases : Nat]
  BY DEF BootInv, BootTypes
<1>2. QED
  BY <1>1 DEF Boot!Free, Boot!Fault, Boot!Spend

\* A step of p that touches no migration.
LEMMA QuietBoot ==
  ASSUME BootInv, UNCHANGED <<files, schema, recorded, executions, cut, settings>>, documents' \in BOOLEAN,
         Boot!Free \/ Boot!Fault \/ Boot!Spend("starts"),
         NEW p \in {"serve", "migrate"}, NEW x \in BootProcs, Boot!GoOn(p, x),
         proc[p].at # "recording", x.at # "recording", ProcFits(x),
         p = "migrate" => x.at \notin {"opening", "assembling", "up"},
         p = "serve" /\ x.at \in {"assembling", "up"} /\ x.clean /\ settings.migrate =>
           \A v \in 1..Migrations : recorded[v] = files[v],
         \/ UNCHANGED schedule /\ (p = "serve" => x.at # "up" /\ proc[p].at # "up")
         \/ /\ p = "serve" /\ x.at = "up"
            /\ \E jobs, pages \in BOOLEAN : schedule' = Boot!Schedulers(settings, jobs, pages)
  PROVE  BootInv'
<1>1. PICK q \in {"serve", "migrate"} : q # p
  OBVIOUS
<1>2. proc \in [{"serve", "migrate"} -> BootProcs]
  BY DEF BootInv, BootTypes
<1>3. /\ proc' \in [{"serve", "migrate"} -> BootProcs]
      /\ proc'[p].at = x.at /\ proc'[p].seen = x.seen /\ proc'[p].next = x.next
      /\ proc'[p].clean => x.clean
      /\ proc'[q].at = proc[q].at /\ proc'[q].seen = proc[q].seen /\ proc'[q].next = proc[q].next
      /\ proc'[q].clean => proc[q].clean
  BY <1>1, <1>2, ProcessGoesOn
<1>4. BootTypes'
  BY <1>3, BudgetKept DEF BootInv, BootTypes
<1>5. SchemaKept'
  BY DEF BootInv, SchemaKept
<1>6. ASSUME NEW y, NEW z, z.at = y.at, z.seen = y.seen, z.next = y.next, ProcFits(y)
      PROVE  /\ z.at \in {"applying", "recording"} =>
                  /\ \A v \in 1..Migrations : /\ z.seen[v] # 0 => recorded[v] = z.seen[v]
                                              /\ z.seen[v] = 0 /\ recorded[v] # 0 => recorded[v] = files[v]
                                              /\ v < z.next => files[v] = 0 \/ recorded[v] = files[v]
                  /\ z.at = "recording" => /\ z.next \in 1..Migrations
                                           /\ files[z.next] # 0 /\ schema[z.next] = files[z.next]
  BY <1>6 DEF ProcFits
<1>7. ProcFits(proc["serve"])' /\ ProcFits(proc["migrate"])'
  <2>1. ProcFits(proc[p])'
    BY <1>3, <1>6 DEF ProcFits
  <2>2. ProcFits(proc[q])
    BY DEF BootInv
  <2>3. ProcFits(proc[q])'
    BY <1>3, <1>6, <2>2 DEF ProcFits
  <2>4. QED
    BY <1>1, <2>1, <2>3
<1>8. ExecutionsCounted'
  <2>1. \A v : InHand(proc'[p], v) = InHand(proc[p], v) /\ InHand(proc'[q], v) = InHand(proc[q], v)
    BY <1>3 DEF InHand
  <2>2. \A v : InHand(proc'["serve"], v) = InHand(proc["serve"], v) /\ InHand(proc'["migrate"], v) = InHand(proc["migrate"], v)
    BY <1>1, <2>1
  <2>3. QED
    BY <2>2 DEF BootInv, ExecutionsCounted
<1>9. ServeKept'
  BY <1>1, <1>3 DEF BootInv, ServeKept
<1>10. ScheduleKept'
  <2>1. CASE p = "serve" /\ x.at = "up" /\ \E jobs, pages \in BOOLEAN : schedule' = Boot!Schedulers(settings, jobs, pages)
    BY <1>3, <2>1 DEF ScheduleKept
  <2>2. CASE UNCHANGED schedule /\ (p = "serve" => x.at # "up" /\ proc[p].at # "up")
    BY <1>1, <1>3, <2>2, ScheduleStays
  <2>3. QED
    BY <2>1, <2>2
<1>11. QED
  BY <1>4, <1>5, <1>7, <1>8, <1>9, <1>10 DEF BootInv

LEMMA BegunProcs ==
  ASSUME NEW at \in {"opening", "loading"}
  PROVE  [Boot!Down EXCEPT !.at = at] \in BootProcs /\ [Boot!Down EXCEPT !.at = at].at = at
<1>1. Boot!Down \in BootProcs
  BY ServiceAssumption DEF Boot!Down, BootProcs, Releases0
<1>2. QED
  BY <1>1 DEF BootProcs

LEMMA BeginsBoot ==
  ASSUME BootInv, NEW p \in {"serve", "migrate"}, Boot!Start(p)
  PROVE  BootInv'
<1> DEFINE x == [Boot!Down EXCEPT !.at = IF p = "serve" THEN "opening" ELSE "loading"]
<1>1. x \in BootProcs /\ x.at \in {"opening", "loading"} /\ (p = "migrate" => x.at = "loading")
  BY BegunProcs
<1>2. /\ Boot!GoOn(p, x) /\ UNCHANGED <<files, schema, recorded, documents, executions, cut, settings, schedule>>
      /\ Boot!Spend("starts") /\ proc[p].at = "down"
  BY DEF Boot!Start, Boot!At, Boot!schemaVars
<1> HIDE DEF x
<1>3. ProcFits(x) /\ documents' \in BOOLEAN
  BY <1>1, <1>2 DEF ProcFits, BootInv, BootTypes
<1>4. QED
  BY <1>1, <1>2, <1>3, QuietBoot

LEMMA GivesUpBoot ==
  ASSUME BootInv, NEW p \in {"serve", "migrate"}, Boot!GiveUp(p), Boot!Free \/ Boot!Fault,
         UNCHANGED <<files, schema, recorded, documents, executions, cut, settings, schedule>>,
         proc[p].at \in {"loading", "applying"}
  PROVE  BootInv'
<1>1. PICK at \in {"assembling", "down"} : at = IF p = "serve" THEN "assembling" ELSE "down"
  OBVIOUS
<1> DEFINE x == [proc[p] EXCEPT !.at = at, !.clean = FALSE]
<1>2. x \in BootProcs /\ x.at \in {"assembling", "down"} /\ (p = "migrate" => x.at = "down") /\ ~ x.clean
  <2>1. proc[p] \in BootProcs
    BY DEF BootInv, BootTypes
  <2>2. QED
    BY <1>1, <2>1 DEF BootProcs
<1>3. Boot!GoOn(p, x)
  BY <1>1 DEF Boot!GiveUp
<1> HIDE DEF x
<1>4. ProcFits(x) /\ documents' \in BOOLEAN
  BY <1>2 DEF ProcFits, BootInv, BootTypes
<1>5. QED
  BY <1>2, <1>3, <1>4, QuietBoot

LEMMA MovesBoot ==
  ASSUME BootInv, NEW p \in {"serve", "migrate"}, Boot!Free \/ Boot!Fault, documents' \in BOOLEAN,
         UNCHANGED <<files, schema, recorded, executions, cut, settings, schedule>>,
         NEW at \in {"down", "loading", "assembling"}, Boot!Move(p, at),
         proc[p].at \in {"opening", "applying"}, p = "migrate" => at # "assembling",
         at = "assembling" /\ settings.migrate => \A v \in 1..Migrations : recorded[v] = files[v]
  PROVE  BootInv'
<1> DEFINE x == [proc[p] EXCEPT !.at = at]
<1>1. proc[p] \in BootProcs
  BY DEF BootInv, BootTypes
<1>2. x \in BootProcs /\ x.at = at
  BY <1>1 DEF BootProcs
<1>3. Boot!GoOn(p, x)
  BY DEF Boot!Move
<1> HIDE DEF x
<1>4. ProcFits(x)
  BY <1>2 DEF ProcFits
<1>5. QED
  BY <1>2, <1>3, <1>4, QuietBoot

LEMMA OpensBoot == ASSUME BootInv, Boot!openStore PROVE BootInv'
<1>1. UNCHANGED <<files, schema, recorded, executions, cut, settings, schedule>> /\ proc["serve"].at = "opening"
      /\ documents \in BOOLEAN
  BY DEF Boot!openStore, Boot!At, BootInv, BootTypes
<1>2. settings.migrate \in BOOLEAN /\ settings.postgres \in BOOLEAN
  BY DEF BootInv, BootTypes, Boot!Settings
<1>3. CASE Boot!Free /\ documents' = (documents \/ settings.postgres)
           /\ Boot!Move("serve", IF settings.migrate THEN "loading" ELSE "assembling")
  <2>1. documents' \in BOOLEAN
    BY <1>3
  <2>2. QED
    BY <1>1, <1>2, <1>3, <2>1, MovesBoot
<1>4. CASE Boot!Fault /\ Boot!Move("serve", "down") /\ UNCHANGED documents
  BY <1>1, <1>4, MovesBoot
<1>5. QED
  BY <1>3, <1>4 DEF Boot!openStore

LEMMA LoadsBoot ==
  ASSUME BootInv, NEW p \in {"serve", "migrate"}, Boot!loadApplied(p)
  PROVE  BootInv'
<1>1. UNCHANGED <<files, schema, recorded, documents, executions, cut, settings, schedule>> /\ proc[p].at = "loading"
  BY DEF Boot!loadApplied, Boot!At, Boot!schemaVars
<1>2. CASE Boot!Fault /\ Boot!GiveUp(p)
  BY <1>1, <1>2, GivesUpBoot
<1>3. CASE Boot!Free /\ Boot!GoOn(p, [proc[p] EXCEPT !.at = "applying", !.seen = recorded, !.next = 1])
  <2> DEFINE x == [proc[p] EXCEPT !.at = "applying", !.seen = recorded, !.next = 1]
  <2>1. proc[p] \in BootProcs /\ recorded \in [1..Migrations -> Releases0] /\ 1 \in 1..(Migrations + 1)
    BY ServiceAssumption DEF BootInv, BootTypes
  <2>2. x \in BootProcs /\ x.at = "applying" /\ x.seen = recorded /\ x.next = 1
    BY <2>1 DEF BootProcs
  <2>3. Boot!GoOn(p, x)
    BY <1>3
  <2> HIDE DEF x
  <2>4. ProcFits(x) /\ documents' \in BOOLEAN
    BY <1>1, <2>2 DEF ProcFits, BootInv, BootTypes
  <2>5. QED
    BY <1>1, <1>3, <2>2, <2>3, <2>4, QuietBoot
<1>4. QED
  BY <1>2, <1>3 DEF Boot!loadApplied

LEMMA PassesBoot ==
  ASSUME BootInv, NEW p \in {"serve", "migrate"},
         Boot!Applied(p) \/ \E v \in 1..Migrations : Boot!Skip(p, v) \/ Boot!Refuse(p, v) \/ Boot!ExecuteFails(p, v)
  PROVE  BootInv'
<1>1. UNCHANGED <<files, schema, recorded, documents, executions, cut, settings, schedule>> /\ proc[p].at = "applying"
  BY DEF Boot!Applied, Boot!Skip, Boot!Refuse, Boot!ExecuteFails, Boot!Runs, Boot!Applying, Boot!At, Boot!schemaVars
<1>2. proc[p] \in BootProcs /\ ProcFits(proc[p]) /\ documents \in BOOLEAN /\ Migrations \in Nat
  BY ServiceAssumption DEF BootInv, BootTypes
<1>3. CASE Boot!Applied(p)
  <2>1. proc[p].next = Migrations + 1
    BY <1>2, <1>3 DEF Boot!Applied, BootProcs
  <2>2. \A v \in 1..Migrations : files[v] = 0 \/ recorded[v] = files[v]
    BY <1>1, <1>2, <2>1 DEF ProcFits
  <2>3. \A v \in 1..Migrations : recorded[v] = files[v]
    BY <2>2 DEF BootInv, SchemaKept
  <2>4. Boot!Free /\ Boot!Move(p, IF p = "serve" THEN "assembling" ELSE "down")
    BY <1>3 DEF Boot!Applied, Boot!Done
  <2>5. QED
    BY <1>1, <1>2, <2>3, <2>4, MovesBoot
<1>4. CASE \E v \in 1..Migrations : Boot!Refuse(p, v) \/ Boot!ExecuteFails(p, v)
  BY <1>1, <1>4, GivesUpBoot DEF Boot!Refuse, Boot!ExecuteFails
<1>5. CASE \E v \in 1..Migrations : Boot!Skip(p, v)
  <2>1. PICK v \in 1..Migrations : Boot!Skip(p, v)
    BY <1>5
  <2>2. PICK n \in 1..(Migrations + 1) : n = v + 1
    BY <1>2
  <2> DEFINE x == [proc[p] EXCEPT !.at = "applying", !.next = n]
  <2>3. v = proc[p].next /\ (files[v] = 0 \/ proc[p].seen[v] = files[v]) /\ Boot!GoOn(p, x) /\ Boot!Free
    BY <2>1, <2>2 DEF Boot!Skip, Boot!Applying, Boot!Advance
  <2>4. x \in BootProcs /\ x.at = "applying" /\ x.seen = proc[p].seen /\ x.next = v + 1
    BY <1>2, <2>2 DEF BootProcs
  <2> HIDE DEF x
  <2>5. files[v] = 0 \/ recorded[v] = files[v]
    BY <1>1, <1>2, <2>3 DEF ProcFits
  <2>6. ProcFits(x)
    BY <1>1, <1>2, <2>3, <2>4, <2>5 DEF ProcFits
  <2>7. QED
    BY <1>1, <1>2, <2>3, <2>4, <2>6, QuietBoot
<1>6. QED
  BY <1>3, <1>4, <1>5

LEMMA AssemblesBoot == ASSUME BootInv, Boot!Assemble PROVE BootInv'
<1> DEFINE x == [proc["serve"] EXCEPT !.at = "up"]
<1>1. /\ UNCHANGED <<files, schema, recorded, documents, executions, cut, settings>> /\ proc["serve"].at = "assembling"
      /\ Boot!GoOn("serve", x) /\ (Boot!Free \/ Boot!Fault)
      /\ \E jobs, pages \in BOOLEAN : schedule' = Boot!Schedulers(settings, jobs, pages)
  BY DEF Boot!Assemble, Boot!At, Boot!schemaVars, Boot!Move
<1>2. proc["serve"] \in BootProcs /\ documents \in BOOLEAN
  BY DEF BootInv, BootTypes
<1>3. x \in BootProcs /\ x.at = "up" /\ x.clean = proc["serve"].clean
  BY <1>2 DEF BootProcs
<1> HIDE DEF x
<1>4. ProcFits(x)
  BY <1>3 DEF ProcFits
<1>5. x.clean /\ settings.migrate => \A v \in 1..Migrations : recorded[v] = files[v]
  BY <1>1, <1>3 DEF BootInv, ServeKept
<1>6. QED
  BY <1>1, <1>2, <1>3, <1>4, <1>5, QuietBoot

\* A step of p that is at a migration, or leaves it.
LEMMA MigrationMoves ==
  ASSUME BootInv, NEW p \in {"serve", "migrate"}, NEW q \in {"serve", "migrate"}, p # q,
         NEW x \in BootProcs, Boot!GoOn(p, x), UNCHANGED settings,
         x.at \in {"recording", "applying", "down", "assembling"},
         p = "migrate" => x.at # "assembling", x.at = "assembling" => ~ x.clean,
         schedule' = IF p = "serve" THEN {} ELSE schedule,
         proc[q].at \in {"assembling", "up"} /\ (\A v \in 1..Migrations : recorded[v] = files[v])
           => \A v \in 1..Migrations : recorded'[v] = files'[v]
  PROVE  /\ proc' \in [{"serve", "migrate"} -> BootProcs] /\ ServeKept' /\ ScheduleKept'
         /\ proc'[p].at = x.at /\ proc'[p].seen = x.seen /\ proc'[p].next = x.next
         /\ proc'[q].at = proc[q].at /\ proc'[q].seen = proc[q].seen /\ proc'[q].next = proc[q].next
         /\ {p, q} = {"serve", "migrate"} /\ proc[q] \in BootProcs /\ ProcFits(proc[q])
<1>1. proc \in [{"serve", "migrate"} -> BootProcs]
  BY DEF BootInv, BootTypes
<1>2. /\ proc' \in [{"serve", "migrate"} -> BootProcs]
      /\ proc'[p].at = x.at /\ proc'[p].seen = x.seen /\ proc'[p].next = x.next
      /\ proc'[p].clean => x.clean
      /\ proc'[q].at = proc[q].at /\ proc'[q].seen = proc[q].seen /\ proc'[q].next = proc[q].next
      /\ proc'[q].clean => proc[q].clean
  BY <1>1, ProcessGoesOn
<1>3. ServeKept'
  <2>1. CASE p = "serve"
    BY <1>2, <2>1 DEF BootInv, ServeKept
  <2>2. CASE p = "migrate"
    BY <1>2, <2>2 DEF BootInv, ServeKept
  <2>3. QED
    BY <2>1, <2>2
<1>4. ScheduleKept'
  <2>1. CASE p = "serve"
    BY <1>2, <2>1 DEF ScheduleKept
  <2>2. CASE p = "migrate"
    BY <1>2, <2>2, ScheduleStays
  <2>3. QED
    BY <2>1, <2>2
<1>5. QED
  BY <1>1, <1>2, <1>3, <1>4 DEF BootInv

\* Both processes fit if each does, however they are named.
LEMMA BothFit ==
  ASSUME NEW p \in {"serve", "migrate"}, NEW q \in {"serve", "migrate"}, p # q,
         ProcFits(proc[p])', ProcFits(proc[q])'
  PROVE  ProcFits(proc["serve"])' /\ ProcFits(proc["migrate"])'
<1>1. CASE p = "serve"
  <2>1. q = "migrate"
    BY <1>1
  <2>2. QED
    BY <1>1, <2>1
<1>2. CASE p = "migrate"
  <2>1. q = "serve"
    BY <1>2
  <2>2. QED
    BY <1>2, <2>1
<1>3. QED
  BY <1>1, <1>2

LEMMA BothCounted ==
  ASSUME NEW p \in {"serve", "migrate"}, NEW q \in {"serve", "migrate"}, p # q
  PROVE  \A v : /\ InHand(proc["serve"], v) + InHand(proc["migrate"], v) = InHand(proc[p], v) + InHand(proc[q], v)
                /\ InHand(proc'["serve"], v) + InHand(proc'["migrate"], v) = InHand(proc'[p], v) + InHand(proc'[q], v)
<1>1. \A v : InHand(proc["serve"], v) \in Nat /\ InHand(proc["migrate"], v) \in Nat
             /\ InHand(proc'["serve"], v) \in Nat /\ InHand(proc'["migrate"], v) \in Nat
  BY DEF InHand
<1>2. QED
  BY <1>1

LEMMA ExecutesBoot ==
  ASSUME BootInv, NEW p \in {"serve", "migrate"}, NEW v \in 1..Migrations, Boot!Execute(p, v)
  PROVE  BootInv'
<1>1. PICK q \in {"serve", "migrate"} : q # p
  OBVIOUS
<1> DEFINE x == [proc[p] EXCEPT !.at = "recording"]
<1>2. /\ proc[p].at = "applying" /\ proc[p].next = v /\ files[v] # 0 /\ proc[p].seen[v] = 0
      /\ schema' = [schema EXCEPT ![v] = files[v]] /\ executions' = [executions EXCEPT ![v] = @ + 1]
      /\ Boot!GoOn(p, x) /\ Boot!Free /\ UNCHANGED <<files, recorded, documents, cut, settings, schedule>>
  BY DEF Boot!Execute, Boot!Runs, Boot!Applying, Boot!At, Boot!Move
<1>3. proc[p] \in BootProcs /\ ProcFits(proc[p]) /\ BootTypes
  BY DEF BootInv, BootTypes
<1>4. x \in BootProcs /\ x.at = "recording" /\ x.seen = proc[p].seen /\ x.next = v
  BY <1>2, <1>3 DEF BootProcs
<1> HIDE DEF x
<1>5. schedule' = IF p = "serve" THEN {} ELSE schedule
  BY <1>2 DEF BootInv, ScheduleKept
<1>6. /\ proc' \in [{"serve", "migrate"} -> BootProcs] /\ ServeKept' /\ ScheduleKept'
      /\ proc'[p].at = x.at /\ proc'[p].seen = x.seen /\ proc'[p].next = x.next
      /\ proc'[q].at = proc[q].at /\ proc'[q].seen = proc[q].seen /\ proc'[q].next = proc[q].next
      /\ ProcFits(proc[q])
  BY <1>1, <1>2, <1>4, <1>5, MigrationMoves
<1>7. /\ \A u \in 1..Migrations : schema'[u] = IF u = v THEN files[v] ELSE schema[u]
      /\ \A u \in 1..Migrations : executions'[u] = IF u = v THEN executions[v] + 1 ELSE executions[u]
      /\ \A u \in 1..Migrations : u < v => files[u] = 0 \/ recorded[u] = files[u]
      /\ recorded[v] # 0 => recorded[v] = files[v]
  BY <1>2, <1>3 DEF BootTypes, ProcFits
<1>8. BootTypes'
  <2>1. schema' \in [1..Migrations -> Releases0]
    BY <1>2, <1>3 DEF BootTypes
  <2>2. executions' \in [1..Migrations -> Nat]
    BY <1>2, <1>3 DEF BootTypes
  <2>3. QED
    BY <1>2, <1>3, <1>6, <2>1, <2>2 DEF BootTypes, Boot!Free
<1>9. SchemaKept'
  BY <1>2, <1>7 DEF BootInv, SchemaKept
<1>10. ProcFits(proc[p])' /\ ProcFits(proc[q])'
  BY <1>2, <1>3, <1>4, <1>6, <1>7 DEF ProcFits
<1>11. ExecutionsCounted'
  <2>1. SUFFICES ASSUME NEW w \in 1..Migrations \ cut
        PROVE  executions'[w] = InHand(proc'[p], w) + InHand(proc'[q], w) + (IF recorded[w] # 0 THEN 1 ELSE 0)
    BY <1>1, <1>2, BothCounted DEF ExecutionsCounted
  <2>2. executions[w] = InHand(proc[p], w) + InHand(proc[q], w) + (IF recorded[w] # 0 THEN 1 ELSE 0)
    BY <1>1, BothCounted DEF BootInv, ExecutionsCounted
  <2>3. InHand(proc'[q], w) = InHand(proc[q], w) /\ InHand(proc[q], w) \in Nat
    BY <1>6 DEF InHand
  <2>4. InHand(proc[p], w) = 0 /\ InHand(proc'[p], w) = IF w = v THEN 1 ELSE 0
    BY <1>2, <1>4, <1>6 DEF InHand
  <2>5. QED
    BY <1>7, <2>2, <2>3, <2>4
<1>12. QED
  BY <1>1, <1>6, <1>8, <1>9, <1>10, <1>11, BothFit DEF BootInv

LEMMA RecordsBoot ==
  ASSUME BootInv, NEW p \in {"serve", "migrate"}, NEW v \in 1..Migrations, Boot!Record(p, v),
         recorded[v] = 0, Boot!Free, recorded' = [recorded EXCEPT ![v] = files[v]], Boot!Advance(p), UNCHANGED cut
  PROVE  BootInv'
<1>1. PICK q \in {"serve", "migrate"} : q # p
  OBVIOUS
<1>2. proc[p] \in BootProcs /\ ProcFits(proc[p]) /\ BootTypes /\ Migrations \in Nat
  BY ServiceAssumption DEF BootInv, BootTypes
<1>3. PICK n \in 1..(Migrations + 1) : n = v + 1
  BY <1>2
<1> DEFINE x == [proc[p] EXCEPT !.at = "applying", !.next = n]
<1>4. /\ proc[p].at = "recording" /\ proc[p].next = v
      /\ Boot!GoOn(p, x) /\ UNCHANGED <<files, schema, documents, executions, settings, schedule>>
  BY <1>3 DEF Boot!Record, Boot!At, Boot!Advance
<1>5. x \in BootProcs /\ x.at = "applying" /\ x.seen = proc[p].seen /\ x.next = n
  BY <1>2 DEF BootProcs
<1> HIDE DEF x
<1>6. files[v] # 0 /\ schema[v] = files[v] /\ proc[p].seen[v] = 0
  BY <1>2, <1>4 DEF ProcFits
<1>7. \A u \in 1..Migrations : recorded'[u] = IF u = v THEN files[v] ELSE recorded[u]
  BY <1>2 DEF BootTypes
<1>8. schedule' = IF p = "serve" THEN {} ELSE schedule
  BY <1>4 DEF BootInv, ScheduleKept
<1>9. /\ proc' \in [{"serve", "migrate"} -> BootProcs] /\ ServeKept' /\ ScheduleKept'
      /\ proc'[p].at = x.at /\ proc'[p].seen = x.seen /\ proc'[p].next = x.next
      /\ proc'[q].at = proc[q].at /\ proc'[q].seen = proc[q].seen /\ proc'[q].next = proc[q].next
      /\ ProcFits(proc[q])
  BY <1>1, <1>4, <1>5, <1>7, <1>8, MigrationMoves
<1>10. BootTypes'
  BY <1>2, <1>4, <1>9 DEF BootTypes, Boot!Free
<1>11. SchemaKept'
  BY <1>4, <1>6, <1>7 DEF BootInv, SchemaKept
<1>12. ProcFits(proc[p])'
  BY <1>2, <1>3, <1>4, <1>5, <1>6, <1>7, <1>9 DEF ProcFits
<1>13. ProcFits(proc[q])'
  BY <1>4, <1>6, <1>7, <1>9 DEF ProcFits
<1>14. ExecutionsCounted'
  <2>1. SUFFICES ASSUME NEW w \in 1..Migrations \ cut
        PROVE  executions[w] = InHand(proc'[p], w) + InHand(proc'[q], w) + (IF recorded'[w] # 0 THEN 1 ELSE 0)
    BY <1>1, <1>4, BothCounted DEF ExecutionsCounted
  <2>2. executions[w] = InHand(proc[p], w) + InHand(proc[q], w) + (IF recorded[w] # 0 THEN 1 ELSE 0)
    BY <1>1, BothCounted DEF BootInv, ExecutionsCounted
  <2>3. InHand(proc'[q], w) = InHand(proc[q], w) /\ InHand(proc[q], w) \in Nat
    BY <1>9 DEF InHand
  <2>4. InHand(proc'[p], w) = 0 /\ InHand(proc[p], w) = IF w = v THEN 1 ELSE 0
    BY <1>4, <1>5, <1>9 DEF InHand
  <2>5. QED
    BY <1>6, <1>7, <2>2, <2>3, <2>4
<1>15. QED
  BY <1>1, <1>9, <1>10, <1>11, <1>12, <1>13, <1>14, BothFit DEF BootInv

\* A process that stops while it records, or is refused, leaves its mark.
LEMMA CutsBoot ==
  ASSUME BootInv, NEW p \in {"serve", "migrate"}, NEW x \in BootProcs, Boot!GoOn(p, x),
         x.at \in {"down", "assembling"}, p = "migrate" => x.at # "assembling", x.at = "assembling" => ~ x.clean,
         Boot!Free \/ Boot!Fault,
         cut' = IF proc[p].at = "recording" THEN cut \cup {proc[p].next} ELSE cut,
         schedule' = IF p = "serve" THEN {} ELSE schedule,
         UNCHANGED <<files, schema, recorded, documents, executions, settings>>
  PROVE  BootInv'
<1>1. PICK q \in {"serve", "migrate"} : q # p
  OBVIOUS
<1>2. /\ proc' \in [{"serve", "migrate"} -> BootProcs] /\ ServeKept' /\ ScheduleKept'
      /\ proc'[p].at = x.at /\ proc'[p].seen = x.seen /\ proc'[p].next = x.next
      /\ proc'[q].at = proc[q].at /\ proc'[q].seen = proc[q].seen /\ proc'[q].next = proc[q].next
      /\ ProcFits(proc[q])
  BY <1>1, MigrationMoves
<1>3. proc[p] \in BootProcs /\ ProcFits(proc[p]) /\ BootTypes
  BY DEF BootInv, BootTypes
<1>4. cut' \subseteq 1..Migrations /\ cut \subseteq cut'
  BY <1>3 DEF BootTypes, ProcFits
<1>5. BootTypes'
  BY <1>2, <1>3, <1>4, BudgetKept DEF BootTypes
<1>6. SchemaKept'
  BY DEF BootInv, SchemaKept
<1>7. ProcFits(proc[p])' /\ ProcFits(proc[q])'
  BY <1>2 DEF ProcFits
<1>8. ExecutionsCounted'
  <2>1. SUFFICES ASSUME NEW w \in 1..Migrations \ cut'
        PROVE  executions[w] = InHand(proc'[p], w) + InHand(proc'[q], w) + (IF recorded[w] # 0 THEN 1 ELSE 0)
    BY <1>1, BothCounted DEF ExecutionsCounted
  <2>2. executions[w] = InHand(proc[p], w) + InHand(proc[q], w) + (IF recorded[w] # 0 THEN 1 ELSE 0)
    BY <1>1, <1>4, BothCounted DEF BootInv, ExecutionsCounted
  <2>3. InHand(proc'[q], w) = InHand(proc[q], w)
    BY <1>2 DEF InHand
  <2>4. InHand(proc'[p], w) = 0 /\ InHand(proc[p], w) = 0
    BY <1>2 DEF InHand
  <2>5. QED
    BY <2>2, <2>3, <2>4
<1>9. QED
  BY <1>1, <1>2, <1>5, <1>6, <1>7, <1>8, BothFit DEF BootInv

LEMMA StopsBoot ==
  ASSUME BootInv, NEW p \in {"serve", "migrate"},
         Boot!Stop(p) \/ \E v \in 1..Migrations : Boot!Record(p, v)
  PROVE  BootInv'
<1>1. proc[p] \in BootProcs
  BY DEF BootInv, BootTypes
<1>2. CASE Boot!Stop(p)
  <2> DEFINE x == [proc[p] EXCEPT !.at = "down"]
  <2>1. x \in BootProcs /\ x.at = "down"
    BY <1>1 DEF BootProcs
  <2>2. Boot!GoOn(p, x) /\ Boot!Free /\ UNCHANGED <<files, schema, recorded, documents, executions, settings>>
        /\ schedule' = (IF p = "serve" THEN {} ELSE schedule)
        /\ cut' = (IF proc[p].at = "recording" THEN cut \cup {proc[p].next} ELSE cut)
    BY <1>2 DEF Boot!Stop, Boot!Move, Boot!At
  <2> HIDE DEF x
  <2>3. QED
    BY <2>1, <2>2, CutsBoot
<1>3. ASSUME NEW v \in 1..Migrations, Boot!Record(p, v), cut' = cut \cup {v}, Boot!GiveUp(p), UNCHANGED recorded,
             Boot!Free \/ Boot!Fault
      PROVE  BootInv'
  <2>1. PICK at \in {"assembling", "down"} : at = IF p = "serve" THEN "assembling" ELSE "down"
    OBVIOUS
  <2> DEFINE x == [proc[p] EXCEPT !.at = at, !.clean = FALSE]
  <2>2. x \in BootProcs /\ x.at \in {"assembling", "down"} /\ (p = "migrate" => x.at = "down") /\ ~ x.clean
    BY <1>1, <2>1 DEF BootProcs
  <2>3. Boot!GoOn(p, x)
    BY <1>3, <2>1 DEF Boot!GiveUp
  <2> HIDE DEF x
  <2>4. UNCHANGED <<files, schema, documents, executions, settings, schedule>> /\ proc[p].at = "recording" /\ proc[p].next = v
    BY <1>3 DEF Boot!Record, Boot!At
  <2>5. schedule' = IF p = "serve" THEN {} ELSE schedule
    BY <2>4 DEF BootInv, ScheduleKept
  <2>6. QED
    BY <1>3, <2>2, <2>3, <2>4, <2>5, CutsBoot
<1>4. QED
  BY <1>2, <1>3, RecordsBoot DEF Boot!Record

LEMMA ReleasesBoot == ASSUME BootInv, Boot!Release PROVE BootInv'
<1>1. /\ proc["serve"].at = "down" /\ proc["migrate"].at = "down"
      /\ UNCHANGED <<schema, recorded, documents, executions, cut, proc, settings, schedule>>
  BY TwoProcesses DEF Boot!Release, Boot!At, Boot!schemaVars
<1>2. PICK v \in 1..Migrations : /\ \A u \in 1..Migrations : u < v => files[u] # 0
                                 /\ files' = [files EXCEPT ![v] = @ + 1]
  BY DEF Boot!Release
<1>3. BootTypes /\ MaxReleases \in Nat
  BY ServiceAssumption DEF BootInv
<1>4. budget' \in [faults : Nat, starts : Nat, releases : Nat] /\ budget'.releases = budget.releases - 1
      /\ budget.releases > 0 /\ budget.releases \in Nat
  BY <1>3 DEF BootTypes, Boot!Release, Boot!Spend
<1>5. files[v] \in Nat /\ files[v] + 1 \in Releases0
  BY <1>3, <1>4 DEF BootTypes, Releases0
<1>6. \A u \in 1..Migrations : files[u] \in Nat /\ files'[u] = IF u = v THEN files[v] + 1 ELSE files[u]
  BY <1>2, <1>3 DEF BootTypes, Releases0
<1>7. BootTypes'
  <2>1. files' \in [1..Migrations -> Releases0]
    BY <1>2, <1>3, <1>5 DEF BootTypes
  <2>2. \A u \in 1..Migrations : files'[u] + budget'.releases <= 1 + MaxReleases
    <3>1. SUFFICES ASSUME NEW u \in 1..Migrations PROVE files'[u] + budget'.releases <= 1 + MaxReleases
      OBVIOUS
    <3>2. files[u] \in Nat /\ files[u] + budget.releases <= 1 + MaxReleases
      BY <1>3, <1>6, <3>1 DEF BootTypes
    <3>3. files'[u] = files[u] \/ files'[u] = files[u] + 1
      BY <1>6, <3>1
    <3>4. QED
      BY <1>3, <1>4, <3>2, <3>3
  <2>3. QED
    BY <1>1, <1>3, <1>4, <2>1, <2>2 DEF BootTypes
<1>8. SchemaKept'
  BY <1>1, <1>2, <1>5, <1>6 DEF BootInv, SchemaKept
<1>9. QED
  BY <1>1, <1>7, <1>8 DEF BootInv, ProcFits, ExecutionsCounted, InHand, ServeKept, ScheduleKept

LEMMA InductiveBoot == ASSUME BootInv, [Boot!Next]_(Boot!vars) PROVE BootInv'
<1>1. CASE UNCHANGED Boot!vars
  BY <1>1 DEF Boot!vars, Boot!schemaVars, BootInv, BootTypes, SchemaKept, ProcFits, ExecutionsCounted, InHand,
              ServeKept, ScheduleKept
<1>2. CASE Boot!Next
  BY <1>2, TwoProcesses, BeginsBoot, StopsBoot, OpensBoot, LoadsBoot, PassesBoot, AssemblesBoot, ExecutesBoot,
     ReleasesBoot DEF Boot!Next, Boot!Migrate
<1>3. QED
  BY <1>1, <1>2

\* The works of a scheduler, by who is given them.
LEMMA SchedulersAre ==
  ASSUME NEW cfg, NEW pages, NEW a
  PROVE  /\ a \in Boot!Schedulers(cfg, TRUE, pages) =>
              a.by = "runner"
         /\ a \in Boot!Schedulers(cfg, FALSE, pages) =>
              \/ a = [by |-> "pipeline", work |-> "documents"]
              \/ a.by = "loop" /\ a.work # "documents"
         /\ \A jobs \in BOOLEAN : a \in Boot!Schedulers(cfg, jobs, pages) => a = [by |-> a.by, work |-> a.work]
<1>1. \A who, W, s : s \in Boot!By(who, W) => s.by = who /\ s.work \in W /\ s = [by |-> s.by, work |-> s.work]
  BY DEF Boot!By
<1>2. a \in Boot!Schedulers(cfg, TRUE, pages) => a.by = "runner"
  BY <1>1 DEF Boot!Schedulers, Boot!buildJobRunner
<1>3. a \in Boot!Schedulers(cfg, FALSE, pages) =>
              \/ a = [by |-> "pipeline", work |-> "documents"]
              \/ a.by = "loop" /\ a.work # "documents"
  <2>1. "documents" \notin {"bodies"} \cup Boot!Sources(cfg) \cup Boot!LoopPages(cfg, pages)
    BY DEF Boot!Sources, Boot!Entries, Boot!Monitors, Boot!LoopPages, Boot!SitePages
  <2>2. a \in Boot!Pipeline => a = [by |-> "pipeline", work |-> "documents"]
    BY DEF Boot!Pipeline, Boot!By
  <2>3. QED
    BY <1>1, <2>1, <2>2 DEF Boot!Schedulers, Boot!scheduleNewModules
<1>4. \A jobs \in BOOLEAN : a \in Boot!Schedulers(cfg, jobs, pages) => a = [by |-> a.by, work |-> a.work]
  BY <1>1 DEF Boot!Schedulers, Boot!buildJobRunner, Boot!scheduleNewModules, Boot!Pipeline
<1>5. QED
  BY <1>2, <1>3, <1>4

LEMMA WorkIsGiven == ASSUME NEW who, NEW W, NEW w \in W PROVE \E s \in Boot!By(who, W) : s.work = w
<1>1. [by |-> who, work |-> w] \in Boot!By(who, W) /\ [by |-> who, work |-> w].work = w
  BY DEF Boot!By
<1>2. QED
  BY <1>1

LEMMA EachIsGiven ==
  ASSUME NEW cfg, NEW pages, NEW jobs \in BOOLEAN,
         NEW w, w \in Boot!Always(cfg) \cup Boot!Sources(cfg) \/ (jobs /\ w \in Boot!Annotations(cfg))
  PROVE  \E s \in Boot!Schedulers(cfg, jobs, pages) : s.work = w
<1>1. CASE jobs
  <2>1. Boot!Schedulers(cfg, jobs, pages) =
          Boot!By("runner", Boot!Always(cfg) \cup Boot!Annotations(cfg) \cup Boot!Sources(cfg) \cup Boot!SitePages(cfg, pages))
    BY <1>1 DEF Boot!Schedulers, Boot!buildJobRunner
  <2>2. w \in Boot!Always(cfg) \cup Boot!Annotations(cfg) \cup Boot!Sources(cfg) \cup Boot!SitePages(cfg, pages)
    BY <1>1
  <2>3. QED
    BY <2>1, <2>2, WorkIsGiven
<1>2. CASE ~ jobs
  <2>1. w = "documents" \/ w \in {"bodies"} \cup Boot!Sources(cfg) \cup Boot!LoopPages(cfg, pages)
    BY <1>2 DEF Boot!Always
  <2>2. CASE w = "documents"
    <3>1. w \in {"documents"}
      BY <2>2
    <3>2. \E s \in Boot!Pipeline : s.work = w
      BY <3>1, WorkIsGiven DEF Boot!Pipeline
    <3>3. QED
      BY <1>2, <3>2 DEF Boot!Schedulers
  <2>3. CASE w \in {"bodies"} \cup Boot!Sources(cfg) \cup Boot!LoopPages(cfg, pages)
    <3>1. \E s \in Boot!scheduleNewModules(cfg, pages) : s.work = w
      <4>1. PICK W : W = {"bodies"} \cup Boot!Sources(cfg) \cup Boot!LoopPages(cfg, pages)
        OBVIOUS
      <4>2. w \in W
        BY <2>3, <4>1
      <4>3. \E s \in Boot!By("loop", W) : s.work = w
        BY <4>2, WorkIsGiven
      <4>4. QED
        BY <4>1, <4>3 DEF Boot!scheduleNewModules
    <3>2. QED
      BY <1>2, <3>1 DEF Boot!Schedulers
  <2>4. QED
    BY <2>1, <2>2, <2>3
<1>3. QED
  BY <1>1, <1>2

LEMMA BootHolds ==
  ASSUME BootInv
  PROVE  /\ Boot!TypeOK /\ Boot!AppliedInOrder /\ Boot!RepeatedOnlyWhenCut
         /\ Boot!CleanStartIsUpToDate /\ Boot!EachWorkScheduledOnce
<1>1. Boot!TypeOK
  BY DEF BootInv, BootTypes, Boot!TypeOK, Boot!Contents, Releases0
<1>2. Boot!AppliedInOrder
  BY DEF BootInv, SchemaKept, Boot!AppliedInOrder
<1>3. Boot!RepeatedOnlyWhenCut
  <2>1. SUFFICES ASSUME NEW v \in 1..Migrations \ cut, executions[v] > 1
                 PROVE  \E p \in {"serve", "migrate"} : proc[p].at = "recording" /\ proc[p].next = v
    BY TwoProcesses DEF Boot!RepeatedOnlyWhenCut, Boot!At
  <2>2. executions[v] = InHand(proc["serve"], v) + InHand(proc["migrate"], v) + (IF recorded[v] # 0 THEN 1 ELSE 0)
    BY DEF BootInv, ExecutionsCounted
  <2>3. InHand(proc["serve"], v) = 1 \/ InHand(proc["migrate"], v) = 1
    BY <2>1, <2>2 DEF InHand
  <2>4. QED
    BY <2>3 DEF InHand
<1>4. Boot!CleanStartIsUpToDate
  BY DEF BootInv, ServeKept, Boot!CleanStartIsUpToDate, Boot!At
<1>5. Boot!EachWorkScheduledOnce
  <2>1. CASE proc["serve"].at # "up"
    BY <2>1 DEF BootInv, ScheduleKept, Boot!EachWorkScheduledOnce, Boot!At
  <2>2. CASE proc["serve"].at = "up"
    <3>1. PICK jobs \in BOOLEAN, pages \in BOOLEAN : schedule = Boot!Schedulers(settings, jobs, pages)
      BY <2>2 DEF BootInv, ScheduleKept
    <3>2. ASSUME NEW a \in schedule
          PROVE  /\ a = [by |-> a.by, work |-> a.work]
                 /\ jobs => a.by = "runner"
                 /\ ~ jobs => a = [by |-> "pipeline", work |-> "documents"] \/ (a.by = "loop" /\ a.work # "documents")
      <4>1. a \in Boot!Schedulers(settings, jobs, pages)
        BY <3>1
      <4>2. a = [by |-> a.by, work |-> a.work]
        BY <4>1, SchedulersAre
      <4>3. CASE jobs = TRUE
        BY <4>1, <4>2, <4>3, SchedulersAre
      <4>4. CASE jobs = FALSE
        BY <4>1, <4>2, <4>4, SchedulersAre
      <4>5. QED
        BY <4>3, <4>4
    <3>3. ASSUME NEW w \in Boot!Always(settings) \cup Boot!Sources(settings) PROVE \E s \in schedule : s.work = w
      <4>1. \E s \in Boot!Schedulers(settings, jobs, pages) : s.work = w
        BY EachIsGiven
      <4>2. QED
        BY <3>1, <4>1
    <3>4. ASSUME NEW s \in schedule, s.by = "runner", NEW w \in Boot!Annotations(settings)
          PROVE  \E t \in schedule : t.work = w
      <4>1. jobs = TRUE
        <5>1. SUFFICES ASSUME jobs = FALSE PROVE FALSE
          OBVIOUS
        <5>2. s = [by |-> "pipeline", work |-> "documents"] \/ s.by = "loop"
          BY <3>2, <5>1
        <5>3. QED
          BY <3>4, <5>2
      <4>2. w \in Boot!Always(settings) \cup Boot!Sources(settings) \/ (jobs /\ w \in Boot!Annotations(settings))
        BY <4>1
      <4>3. \E t \in Boot!Schedulers(settings, jobs, pages) : t.work = w
        BY <4>2, EachIsGiven
      <4>4. QED
        BY <3>1, <4>3
    <3>5. ASSUME NEW a \in schedule, NEW b \in schedule, a.work = b.work PROVE a = b
      <4>1. a.by = b.by
        <5>1. CASE jobs = TRUE
          BY <3>2, <5>1
        <5>2. CASE jobs = FALSE
          <6>1. a = [by |-> "pipeline", work |-> "documents"] \/ (a.by = "loop" /\ a.work # "documents")
            BY <3>2, <5>2
          <6>2. b = [by |-> "pipeline", work |-> "documents"] \/ (b.by = "loop" /\ b.work # "documents")
            BY <3>2, <5>2
          <6>3. QED
            BY <3>5, <6>1, <6>2
        <5>3. QED
          BY <5>1, <5>2
      <4>2. a = [by |-> a.by, work |-> a.work] /\ b = [by |-> b.by, work |-> b.work]
        BY <3>2
      <4>3. QED
        BY <3>5, <4>1, <4>2
    <3>6. QED
      BY <3>5, <3>3, <3>4 DEF Boot!EachWorkScheduledOnce
  <2>3. QED
    BY <2>1, <2>2
<1>6. QED
  BY <1>1, <1>2, <1>3, <1>4, <1>5

\* For any migrations, releases, starts and failures, migrations are applied in
\* order and repeated only when cut off from their record, a clean start is up
\* to date, and each work has one scheduler (ApplyMigrations, cmdServe).
THEOREM StartsAreComplete ==
  Boot!Init /\ [][Boot!Next]_(Boot!vars) => [](/\ Boot!TypeOK /\ Boot!AppliedInOrder /\ Boot!RepeatedOnlyWhenCut
      /\ Boot!CleanStartIsUpToDate /\ Boot!EachWorkScheduledOnce)
BY InitBoot, InductiveBoot, BootHolds, PTL

------------------------------------------------------------------------------

(* The redactions of a document. *)

Texts0 == Editions \cup {0}

VersionTypes ==
  /\ site \in Editions /\ live \in Texts0
  /\ row \in [known : BOOLEAN, hash : Texts0, path : BOOLEAN]
  /\ archive \in [Editions -> Texts0]
  /\ seen \in Seq(Editions) /\ versions \in Seq([hash : Editions, text : Texts0])
  /\ spent \in [edits : Nat, faults : 0..VersionFaults]
  /\ work.at \in {"idle", "archive", "keep", "write", "upsert", "save"}
  /\ work.at # "idle" => work \in [at : {work.at}, body : Editions, old : Texts0, text : Texts0]
  /\ work.at = "idle" => work = [at |-> "idle"]

\* The row stands for the last of what it has stood for, and a download for
\* a redaction other than it, unless the row could not be read.
RowKept ==
  /\ row.path => row.known
  /\ row.path <=> seen # <<>>
  /\ row.hash = IF row.path THEN seen[Len(seen)] ELSE 0
  /\ versions # <<>> => row.path
  /\ work.at \in {"archive", "keep"} => row.path /\ work.old = row.hash /\ work.body # row.hash
  /\ work.at \in {"upsert", "save"} => live = work.body
  /\ work.at = "save" => row.path /\ row.hash = work.body
  /\ work.at = "archive" => work.text = 0
  /\ work.at = "keep" => work.text \in {0, live} /\ (spent.faults = 0 => work.text = live)

\* The file holds what the row stands for, but for a fault, and two faults
\* where the history is empty.
LiveKept ==
  /\ spent.faults = 0 /\ work.at # "upsert" => live = row.hash
  /\ versions = <<>> /\ row.path /\ work.at # "upsert" /\ live \notin {row.hash, 0} => spent.faults >= 2
  /\ spent.faults <= 1 => \A i \in 1..Len(versions) : versions[i].text \in {versions[i].hash, 0}
  /\ spent.faults = 0 => \A i \in 1..Len(versions) :
       i <= Len(seen) /\ versions[i].text = seen[i] /\ versions[i].hash = seen[i]

Embeds(f, k) ==
  /\ f \in [1..Len(versions) -> 1..Len(seen)]
  /\ \A i \in 1..Len(versions) : versions[i].hash = seen[f[i]]
  /\ \A i, j \in 1..Len(versions) : i < j => f[i] <= f[j]
  /\ k \in Nat /\ Cardinality({f[i] : i \in 1..Len(versions)}) = k
  /\ k <= Len(versions) /\ k <= Len(seen)

\* All but n of the redactions and of the versions have each other.
Follows(n) == \E f, k : Embeds(f, k) /\ Len(seen) + Len(versions) <= 2 * k + n
FollowsBut(n) == \E f, k : /\ Embeds(f, k) /\ \A i \in 1..Len(versions) : f[i] # Len(seen)
                           /\ k + 1 <= Len(seen) /\ Len(seen) + Len(versions) <= 2 * k + n + 1

PlacesKept ==
  IF versions = <<>>
    THEN /\ Len(seen) <= spent.faults + 1
         /\ work.at \in {"write", "upsert"} => Len(seen) <= spent.faults
    ELSE /\ work.at # "save" => Follows(spent.faults)
         /\ work.at \in {"write", "upsert"} /\ work.body = row.hash =>
              spent.faults > 0 /\ Follows(spent.faults - 1)
         /\ work.at = "save" => FollowsBut(spent.faults) \/ (spent.faults > 0 /\ Follows(spent.faults - 1))

CardKept ==
  /\ card.at \in {"unread", "listed", "shown"}
  /\ card.at = "listed" => card.newNo \in Nat /\ card.newNo <= Len(versions) /\ Len(versions) >= 2
  /\ card.at = "shown" =>
       /\ card.newNo \in Nat /\ card.oldNo \in Nat /\ card.newNo <= card.oldNo + 1
       /\ spent.faults = 0 => \E i \in 1..(Len(seen) - 1) :
                                card.from.text = seen[i] /\ card.to.text = seen[i + 1]

VersionInv == VersionTypes /\ RowKept /\ LiveKept /\ PlacesKept /\ CardKept

LEMMA SeqFacts == ASSUME NEW S, NEW s \in Seq(S)
                  PROVE  Len(s) \in Nat /\ DOMAIN s = 1..Len(s) /\ (s = <<>> <=> Len(s) = 0)
                         /\ \A i \in 1..Len(s) : s[i] \in S
  OBVIOUS

LEMMA Appended == ASSUME NEW S, NEW s \in Seq(S), NEW e \in S
                  PROVE  /\ Append(s, e) \in Seq(S) /\ Len(Append(s, e)) = Len(s) + 1
                         /\ \A i \in 1..Len(s) : Append(s, e)[i] = s[i]
                         /\ Append(s, e)[Len(s) + 1] = e /\ Append(s, e) # <<>>
<1>1. /\ Append(s, e) \in Seq(S) /\ Len(Append(s, e)) = Len(s) + 1
      /\ \A i \in 1..Len(s) : Append(s, e)[i] = s[i]
      /\ Append(s, e)[Len(s) + 1] = e
  OBVIOUS
<1>2. Len(s) \in Nat
  OBVIOUS
<1>3. QED
  BY <1>1, <1>2

LEMMA FollowsFewer == ASSUME NEW m \in Int, NEW n \in Int, m <= n, Follows(m), VersionTypes PROVE Follows(n)
<1>1. Len(seen) \in Nat /\ Len(versions) \in Nat
  BY DEF VersionTypes
<1>2. PICK f, k : Embeds(f, k) /\ Len(seen) + Len(versions) <= 2 * k + m
  BY DEF Follows
<1>3. k \in Nat
  BY <1>2 DEF Embeds
<1>4. Len(seen) + Len(versions) <= 2 * k + n
  BY <1>1, <1>2, <1>3
<1>5. QED
  BY <1>2, <1>4 DEF Follows

\* A version of the last redaction has its place there.
LEMMA SavesPlaces ==
  ASSUME VersionTypes, NEW v \in [hash : Editions, text : Texts0], seen # <<>>, v.hash = seen[Len(seen)],
         versions' = Append(versions, v), seen' = seen, NEW n \in Nat
  PROVE  /\ FollowsBut(n) => Follows(n)'
         /\ Follows(n) => Follows(n + 1)'
         /\ versions = <<>> /\ Len(seen) <= n + 1 => Follows(n)'
<1> DEFINE l == Len(seen)
           c == Len(versions)
<1>1. /\ l \in Nat \ {0} /\ c \in Nat /\ Len(versions') = c + 1 /\ versions'[c + 1] = v
      /\ \A i \in 1..c : versions'[i] = versions[i]
  <2>1. l \in Nat /\ l # 0
    BY SeqFacts DEF VersionTypes
  <2>2. QED
    BY <2>1, Appended, SeqFacts DEF VersionTypes
<1> HIDE DEF l, c
<1>2. ASSUME NEW f, NEW k, Embeds(f, k)
      PROVE  \E g, m : /\ Embeds(g, m)' /\ m \in {k, k + 1} /\ ((\A i \in 1..c : f[i] # l) => m = k + 1)
  <2> DEFINE R == {f[i] : i \in 1..c}
  <2>1. PICK g : g = [i \in 1..(c + 1) |-> IF i <= c THEN f[i] ELSE l]
    OBVIOUS
  <2>2. /\ f \in [1..c -> 1..l] /\ \A i \in 1..c : versions[i].hash = seen[f[i]]
        /\ \A i, j \in 1..c : i < j => f[i] <= f[j]
        /\ k \in Nat /\ Cardinality(R) = k /\ k <= c /\ k <= l
    BY <1>2 DEF Embeds, l, c
  <2>3. \A i \in 1..c : g[i] = f[i] /\ f[i] \in 1..l
    BY <1>1, <2>2, <2>1
  <2>4. g[c + 1] = l /\ g \in [1..(c + 1) -> 1..l]
    BY <1>1, <2>2, <2>1
  <2>5. {g[i] : i \in 1..(c + 1)} = R \cup {l}
    <3>1. \A i \in 1..(c + 1) : i \in 1..c \/ i = c + 1
      BY <1>1
    <3>2. \A i \in 1..c : i \in 1..(c + 1)
      BY <1>1
    <3>3. c + 1 \in 1..(c + 1)
      BY <1>1
    <3>4. QED
      BY <2>3, <2>4, <3>1, <3>2, <3>3
  <2>6. R \subseteq 1..l
    BY <2>3
  <2>7. IsFiniteSet(1..l) /\ Cardinality(1..l) = l /\ IsFiniteSet(R)
    <3>1. IsFiniteSet(1..l) /\ Cardinality(1..l) = l
      <4>1. 1 \in Int /\ l \in Int /\ ~ (1 > l) /\ l - 1 + 1 = l
        BY <1>1
      <4>2. QED
        BY <4>1, FS_Interval
    <3>2. QED
      BY <2>6, <3>1, FS_Subset
  <2>8. PICK m \in {k, k + 1} : /\ Cardinality(R \cup {l}) = m /\ m <= l /\ m <= c + 1
                                /\ l \notin R => m = k + 1
    <3> HIDE DEF R
    <3>1. CASE l \in R
      <4>1. R \cup {l} = R
        BY <3>1
      <4>2. Cardinality(R \cup {l}) = k
        BY <2>2, <4>1
      <4>3. k <= c + 1
        BY <1>1, <2>2
      <4>4. QED
        BY <2>2, <3>1, <4>2, <4>3
    <3>2. CASE l \notin R
      <4>1. Cardinality(R \cup {l}) = k + 1
        BY <2>2, <2>7, <3>2, FS_AddElement
      <4>2. R \cup {l} \subseteq 1..l
        <5>1. l \in 1..l
          BY <1>1
        <5>2. QED
          BY <2>6, <5>1
      <4>3. Cardinality(R \cup {l}) <= l
        BY <2>7, <4>2, FS_Subset
      <4>4. QED
        BY <1>1, <2>2, <4>1, <4>3
    <3>3. QED
      BY <3>1, <3>2
  <2>9. \A i \in 1..(c + 1) : versions'[i].hash = seen'[g[i]]
    <3>1. ASSUME NEW i \in 1..(c + 1) PROVE versions'[i].hash = seen'[g[i]]
      <4>1. CASE i \in 1..c
        BY <1>1, <2>2, <2>3, <4>1
      <4>2. CASE i = c + 1
        BY <1>1, <2>4, <4>2 DEF l
      <4>3. QED
        BY <1>1, <3>1, <4>1, <4>2
    <3>2. QED
      BY <3>1
  <2>10. \A i, j \in 1..(c + 1) : i < j => g[i] <= g[j]
    <3>1. ASSUME NEW i \in 1..(c + 1), NEW j \in 1..(c + 1), i < j PROVE g[i] <= g[j]
      <4>1. i \in 1..c /\ (j \in 1..c \/ j = c + 1)
        BY <1>1, <3>1
      <4>2. CASE j \in 1..c
        BY <2>2, <2>3, <3>1, <4>1, <4>2
      <4>3. CASE j = c + 1
        BY <2>3, <2>4, <4>1, <4>3
      <4>4. QED
        BY <4>1, <4>2, <4>3
    <3>2. QED
      BY <3>1
  <2>11. m \in Nat /\ ((\A i \in 1..c : f[i] # l) => m = k + 1)
    BY <2>2, <2>8
  <2>12. Embeds(g, m)'
    <3>1. Len(seen') = l /\ Len(versions') = c + 1
      BY <1>1 DEF l
    <3>2. /\ g \in [1..Len(versions') -> 1..Len(seen')]
          /\ \A i \in 1..Len(versions') : versions'[i].hash = seen'[g[i]]
          /\ \A i, j \in 1..Len(versions') : i < j => g[i] <= g[j]
          /\ m \in Nat /\ m <= Len(versions') /\ m <= Len(seen')
      BY <2>4, <2>8, <2>9, <2>10, <2>11, <3>1
    <3>3. Cardinality({g[i] : i \in 1..Len(versions')}) = m
      BY <2>5, <2>8, <3>1
    <3>4. QED
      BY <3>2, <3>3 DEF Embeds
  <2>13. QED
    BY <2>8, <2>11, <2>12
<1>3. ASSUME FollowsBut(n) PROVE Follows(n)'
  <2>1. PICK f, k : /\ Embeds(f, k) /\ \A i \in 1..c : f[i] # l
                    /\ k + 1 <= l /\ l + c <= 2 * k + n + 1
    BY <1>3 DEF FollowsBut, l, c
  <2>2. k \in Nat
    BY <2>1 DEF Embeds
  <2>3. PICK g, m : Embeds(g, m)' /\ m = k + 1
    BY <1>2, <2>1
  <2>4. l + (c + 1) <= 2 * m + n
    BY <1>1, <2>1, <2>2, <2>3
  <2>5. QED
    BY <1>1, <2>3, <2>4 DEF Follows, l
<1>4. ASSUME Follows(n) PROVE Follows(n + 1)'
  <2>1. PICK f, k : Embeds(f, k) /\ l + c <= 2 * k + n
    BY <1>4 DEF Follows, l, c
  <2>2. k \in Nat
    BY <2>1 DEF Embeds
  <2>3. PICK g, m : Embeds(g, m)' /\ m \in {k, k + 1}
    BY <1>2, <2>1
  <2>4. l + (c + 1) <= 2 * m + (n + 1)
    BY <1>1, <2>1, <2>2, <2>3
  <2>5. QED
    BY <1>1, <2>3, <2>4 DEF Follows, l
<1>5. ASSUME versions = <<>>, l <= n + 1 PROVE Follows(n)'
  <2>1. c = 0
    BY <1>5 DEF c
  <2> DEFINE none == [i \in 1..c |-> l]
  <2>2. Embeds(none, 0)
    <3>1. 1..c = {}
      BY <2>1
    <3>2. {none[i] : i \in 1..c} = {}
      BY <3>1
    <3>3. none \in [1..c -> 1..l]
      BY <3>1
    <3> HIDE DEF none
    <3>4. Cardinality({none[i] : i \in 1..c}) = 0
      BY <3>2, FS_EmptySet
    <3>5. QED
      BY <1>1, <2>1, <3>1, <3>3, <3>4 DEF Embeds, c, l
  <2>3. \A i \in 1..c : none[i] # l
    BY <2>1
  <2> HIDE DEF none
  <2>4. 0 + 1 <= l /\ l + c <= 2 * 0 + n + 1
    BY <1>1, <1>5, <2>1
  <2>5. FollowsBut(n)
    BY <2>2, <2>3, <2>4 DEF FollowsBut, c, l
  <2>6. QED
    BY <1>3, <2>5
<1>6. QED
  BY <1>3, <1>4, <1>5 DEF l

LEMMA SeenGrows ==
  ASSUME VersionTypes, NEW e \in Editions, seen' = Append(seen, e), versions' = versions, NEW n \in Nat, Follows(n)
  PROVE  FollowsBut(n)'
<1> DEFINE l == Len(seen)
           c == Len(versions)
<1>1. /\ l \in Nat /\ c \in Nat /\ Len(seen') = l + 1 /\ Len(versions') = c
      /\ \A i \in 1..l : seen'[i] = seen[i]
  BY Appended DEF VersionTypes
<1> HIDE DEF l, c
<1>2. PICK f, k : Embeds(f, k) /\ l + c <= 2 * k + n
  BY DEF Follows, l, c
<1>3. /\ f \in [1..c -> 1..l] /\ \A i \in 1..c : versions[i].hash = seen[f[i]]
      /\ \A i, j \in 1..c : i < j => f[i] <= f[j]
      /\ k \in Nat /\ Cardinality({f[i] : i \in 1..c}) = k /\ k <= c /\ k <= l
  BY <1>2 DEF Embeds, l, c
<1>4. \A i \in 1..c : f[i] \in 1..l /\ f[i] \in 1..(l + 1) /\ f[i] # l + 1
  BY <1>1, <1>3
<1>5. f \in [1..c -> 1..(l + 1)]
  BY <1>3, <1>4
<1>6. \A i \in 1..c : versions'[i].hash = seen'[f[i]]
  BY <1>1, <1>3, <1>4
<1>7. k + 1 <= l + 1 /\ k <= l + 1 /\ (l + 1) + c <= 2 * k + n + 1
  BY <1>1, <1>2, <1>3
<1>8. Embeds(f, k)'
  BY <1>1, <1>3, <1>5, <1>6, <1>7 DEF Embeds
<1>9. QED
  BY <1>1, <1>4, <1>7, <1>8 DEF FollowsBut

LEMMA FollowsSame ==
  ASSUME UNCHANGED <<seen, versions>>
  PROVE  \A n : (Follows(n)' <=> Follows(n)) /\ (FollowsBut(n)' <=> FollowsBut(n))
  BY DEF Follows, FollowsBut, Embeds

LEMMA ButFollows ==
  ASSUME VersionTypes, NEW n \in Nat, FollowsBut(n)
  PROVE  Follows(n + 1)
<1>1. Len(seen) \in Nat /\ Len(versions) \in Nat
  BY DEF VersionTypes
<1>2. PICK f, k : Embeds(f, k) /\ Len(seen) + Len(versions) <= 2 * k + n + 1
  BY DEF FollowsBut
<1>3. k \in Nat
  BY <1>2 DEF Embeds
<1>4. Len(seen) + Len(versions) <= 2 * k + (n + 1)
  BY <1>1, <1>2, <1>3
<1>5. QED
  BY <1>2, <1>4 DEF Follows

LEMMA VersionFails ==
  ASSUME VersionTypes
  PROVE  /\ spent.faults \in Nat /\ Redactions!Faults = spent.faults
         /\ Redactions!Fail => spent' \in [edits : Nat, faults : 0..VersionFaults] /\ spent'.faults = spent.faults + 1
         /\ Redactions!Ok => spent' \in [edits : Nat, faults : 0..VersionFaults] /\ spent'.faults = spent.faults
<1>1. spent \in [edits : Nat, faults : 0..VersionFaults] /\ VersionFaults \in Nat
  BY VersionsAssumption DEF VersionTypes
<1>2. Redactions!Faults = spent.faults
  BY DEF Redactions!Faults
<1>3. ASSUME Redactions!Fail PROVE spent' \in [edits : Nat, faults : 0..VersionFaults] /\ spent'.faults = spent.faults + 1
  <2>1. spent.faults < VersionFaults /\ spent' = [spent EXCEPT !.faults = @ + 1]
    BY <1>3 DEF Redactions!Fail, Redactions!CanFail, Redactions!Faults
  <2>2. PICK m \in 0..VersionFaults : m = spent.faults + 1
    BY <1>1, <2>1
  <2>3. spent' = [spent EXCEPT !.faults = m]
    BY <2>1, <2>2
  <2>4. QED
    BY <1>1, <2>2, <2>3
<1>4. QED
  BY <1>1, <1>2, <1>3 DEF Redactions!Ok

\* What has been shown stays true, whatever is added.
LEMMA CardRests ==
  ASSUME VersionTypes, CardKept, card' = card, spent'.faults \in {spent.faults, spent.faults + 1},
         Len(versions') \in {Len(versions), Len(versions) + 1},
         seen' = seen \/ \E e \in Editions : seen' = Append(seen, e)
  PROVE  CardKept'
<1>1. /\ Len(versions) \in Nat /\ Len(seen) \in Nat /\ spent.faults \in Nat
      /\ Len(seen') \in {Len(seen), Len(seen) + 1}
      /\ \A i \in 1..Len(seen) : seen'[i] = seen[i]
  BY Appended DEF VersionTypes
<1>2. card.at = "listed" => card'.newNo <= Len(versions') /\ Len(versions') >= 2
  BY <1>1 DEF CardKept
<1>3. ASSUME card.at = "shown", spent'.faults = 0
      PROVE  \E i \in 1..(Len(seen') - 1) : card.from.text = seen'[i] /\ card.to.text = seen'[i + 1]
  <2>1. spent.faults = 0
    BY <1>1, <1>3
  <2>2. PICK i \in 1..(Len(seen) - 1) : card.from.text = seen[i] /\ card.to.text = seen[i + 1]
    BY <1>3, <2>1 DEF CardKept
  <2>3. i \in 1..Len(seen) /\ i + 1 \in 1..Len(seen) /\ i \in 1..(Len(seen') - 1)
    BY <1>1
  <2>4. QED
    BY <1>1, <2>2, <2>3
<1>4. QED
  BY <1>2, <1>3 DEF CardKept

\* Where row, file and history stay.
LEMMA LiveRests ==
  ASSUME VersionInv, UNCHANGED <<row, live, seen, versions>>, spent'.faults \in {spent.faults, spent.faults + 1},
         work.at = "upsert" => spent'.faults = spent.faults + 1
  PROVE  LiveKept'
<1>1. spent.faults \in Nat /\ Len(seen) \in Nat /\ Len(versions) \in Nat
  BY DEF VersionInv, VersionTypes
<1>2. spent'.faults = 0 => spent.faults = 0 /\ work.at # "upsert"
  BY <1>1
<1>3. spent'.faults <= 1 => spent.faults <= 1
  BY <1>1
<1>4. versions = <<>> /\ row.path /\ live \notin {row.hash, 0} => spent'.faults >= 2
  <2>1. SUFFICES ASSUME versions = <<>>, row.path, live \notin {row.hash, 0} PROVE spent'.faults >= 2
    OBVIOUS
  <2>2. CASE work.at = "upsert"
    <3>1. seen # <<>> /\ Len(seen) <= spent.faults
      BY <2>1, <2>2 DEF VersionInv, RowKept, PlacesKept
    <3>2. Len(seen) # 0
      BY <3>1, SeqFacts DEF VersionInv, VersionTypes
    <3>3. QED
      BY <1>1, <2>2, <3>1, <3>2
  <2>3. CASE work.at # "upsert"
    <3>1. spent.faults >= 2
      BY <2>1, <2>3 DEF VersionInv, LiveKept
    <3>2. QED
      BY <1>1, <3>1
  <2>4. QED
    BY <2>2, <2>3
<1>5. LiveKept'
  BY <1>2, <1>3, <1>4 DEF VersionInv, LiveKept
<1>6. QED
  BY <1>5

\* A step that gives up leaves a fault, and the rest as it is.
LEMMA GivesUp ==
  ASSUME VersionInv, Redactions!Fail, work' = [at |-> "idle"], UNCHANGED <<site, row, live, archive, versions, seen, card>>
  PROVE  VersionInv'
<1>1. /\ VersionTypes /\ spent.faults \in Nat /\ spent'.faults = spent.faults + 1
      /\ spent' \in [edits : Nat, faults : 0..VersionFaults] /\ work'.at = "idle"
      /\ Len(seen) \in Nat
  BY VersionFails DEF VersionInv, VersionTypes
<1>2. VersionTypes' /\ RowKept' /\ LiveKept' /\ CardKept'
  <2>1. VersionTypes'
    BY <1>1 DEF VersionTypes
  <2>2. RowKept'
    BY <1>1 DEF VersionInv, RowKept
  <2>3. LiveKept'
    BY <1>1, LiveRests
  <2>4. CardKept'
    BY <1>1, CardRests DEF VersionInv
  <2>5. QED
    BY <2>1, <2>2, <2>3, <2>4
<1>3. PlacesKept'
  <2>1. CASE versions = <<>>
    <3>1. Len(seen) <= spent.faults + 1
      BY <2>1 DEF VersionInv, PlacesKept
    <3>2. Len(seen') <= spent'.faults + 1
      BY <1>1, <3>1
    <3>3. QED
      BY <1>1, <2>1, <3>2 DEF PlacesKept
  <2>2. CASE versions # <<>>
    <3>1. Follows(spent.faults) \/ FollowsBut(spent.faults) \/ (spent.faults > 0 /\ Follows(spent.faults - 1))
      BY <2>2 DEF VersionInv, PlacesKept
    <3>2. Follows(spent.faults + 1)
      <4>1. CASE Follows(spent.faults)
        BY <1>1, <4>1, FollowsFewer
      <4>2. CASE FollowsBut(spent.faults)
        BY <1>1, <4>2, ButFollows
      <4>3. CASE spent.faults > 0 /\ Follows(spent.faults - 1)
        BY <1>1, <4>3, FollowsFewer
      <4>4. QED
        BY <3>1, <4>1, <4>2, <4>3
    <3>3. PICK n : n = spent.faults + 1
      OBVIOUS
    <3>4. Follows(n)' /\ spent'.faults = n
      BY <1>1, <3>2, <3>3, FollowsSame
    <3>5. Follows(spent.faults)'
      BY <3>4 DEF Follows, Embeds
    <3>6. QED
      BY <1>1, <2>2, <3>5 DEF PlacesKept
  <2>3. QED
    BY <2>1, <2>2
<1>4. QED
  BY <1>2, <1>3 DEF VersionInv

LEMMA NowFollows ==
  ASSUME NEW n
  PROVE  /\ spent'.faults = n /\ Follows(n)' => Follows(spent.faults)'
         /\ spent'.faults = n /\ FollowsBut(n)' => FollowsBut(spent.faults)'
         /\ spent'.faults - 1 = n /\ Follows(n)' => Follows(spent.faults - 1)'
  BY DEF Follows, FollowsBut, Embeds

LEMMA PublishesVersions == ASSUME VersionInv, Redactions!Publish PROVE VersionInv'
<1>1. /\ site' \in Editions /\ UNCHANGED <<row, live, archive, versions, seen, work, card>>
      /\ VersionTypes
  BY DEF Redactions!Publish, VersionInv
<1>2. spent' \in [edits : Nat, faults : 0..VersionFaults] /\ spent'.faults = spent.faults
  <2>1. PICK m \in Nat : m = spent.edits + 1
    BY <1>1 DEF VersionTypes
  <2>2. spent' = [spent EXCEPT !.edits = m]
    BY <2>1 DEF Redactions!Publish
  <2>3. QED
    BY <1>1, <2>1, <2>2 DEF VersionTypes
<1>3. VersionTypes' /\ RowKept' /\ LiveKept'
  BY <1>1, <1>2 DEF VersionInv, VersionTypes, RowKept, LiveKept
<1>4. CardKept'
  BY <1>1, <1>2 DEF VersionInv, CardKept
<1>5. PlacesKept'
  <2>1. PICK n : n = spent.faults
    OBVIOUS
  <2>2. \A m : (Follows(m)' <=> Follows(m)) /\ (FollowsBut(m)' <=> FollowsBut(m))
    BY <1>1, FollowsSame
  <2>3. spent'.faults = n /\ spent'.faults - 1 = n - 1
    BY <1>2, <2>1
  <2>4. /\ Follows(spent.faults) => Follows(spent.faults)'
        /\ FollowsBut(spent.faults) => FollowsBut(spent.faults)'
        /\ Follows(spent.faults - 1) => Follows(spent.faults - 1)'
    <3>1. /\ Follows(spent.faults) => Follows(n)'
          /\ FollowsBut(spent.faults) => FollowsBut(n)'
          /\ Follows(spent.faults - 1) => Follows(n - 1)'
      BY <2>1, <2>2
    <3>2. QED
      BY <2>3, <3>1, NowFollows
  <2>5. QED
    BY <1>1, <1>2, <2>4 DEF VersionInv, PlacesKept
<1>6. QED
  BY <1>3, <1>4, <1>5 DEF VersionInv

\* The new state of a download, by its fields.
LEMMA DownloadsVersions == ASSUME VersionInv, Redactions!download PROVE VersionInv'
<1>1. /\ work.at = "idle" /\ VersionTypes /\ UNCHANGED <<site, row, live, archive, versions, seen, card>>
      /\ spent.faults \in Nat /\ Len(seen) \in Nat
  BY VersionFails DEF Redactions!download, Redactions!Idle, VersionInv, VersionTypes
<1>2. PICK known \in {row.known, FALSE} :
        /\ IF known = row.known THEN Redactions!Ok ELSE Redactions!Fail
        /\ ~(known /\ row.hash = site)
        /\ work' = [at |-> IF known /\ row.path THEN "archive" ELSE "write", body |-> site, old |-> row.hash, text |-> 0]
  BY DEF Redactions!download, Redactions!None
<1>3. PICK at \in {"archive", "write"} : at = IF known /\ row.path THEN "archive" ELSE "write"
  OBVIOUS
<1>4. /\ work' = [at |-> at, body |-> site, old |-> row.hash, text |-> 0]
      /\ row.hash \in Texts0 /\ row.path \in BOOLEAN /\ row.known \in BOOLEAN
  BY <1>1, <1>2, <1>3 DEF VersionTypes
<1>5. /\ work'.at = at /\ work'.body = site /\ work'.old = row.hash /\ work'.text = 0
      /\ work' \in [at : {at}, body : Editions, old : Texts0, text : Texts0]
  BY <1>1, <1>4 DEF VersionTypes, Texts0
<1>6. /\ spent' \in [edits : Nat, faults : 0..VersionFaults]
      /\ spent'.faults = IF known = row.known THEN spent.faults ELSE spent.faults + 1
  BY <1>1, <1>2, VersionFails
<1>7. spent'.faults \in {spent.faults, spent.faults + 1}
  BY <1>6
<1>8. VersionTypes'
  BY <1>1, <1>5, <1>6 DEF VersionTypes
<1>9. RowKept'
  BY <1>1, <1>2, <1>3, <1>4, <1>5 DEF VersionInv, RowKept
<1>10. LiveKept'
  BY <1>1, <1>7, LiveRests
<1>11. CardKept'
  BY <1>1, <1>7, CardRests DEF VersionInv
<1>12. at = "write" => ~ row.path \/ spent'.faults = spent.faults + 1
  BY <1>2, <1>3, <1>4, <1>6 DEF VersionInv, RowKept
<1>13. PlacesKept'
  <2>1. CASE versions = <<>>
    <3>1. Len(seen) <= spent.faults + 1 /\ (~ row.path => Len(seen) = 0)
      BY <1>1, <2>1, SeqFacts DEF VersionInv, PlacesKept, RowKept
    <3>2. Len(seen') <= spent'.faults + 1 /\ (at = "write" => Len(seen') <= spent'.faults)
      BY <1>1, <1>7, <1>12, <3>1
    <3>3. QED
      BY <1>1, <1>5, <2>1, <3>2 DEF PlacesKept
  <2>2. CASE versions # <<>>
    <3>1. Follows(spent.faults) /\ row.path
      BY <1>1, <2>2 DEF VersionInv, PlacesKept, RowKept
    <3>2. PICK n \in Nat : n = spent.faults
      BY <1>1
    <3>3. PICK m \in Nat : m = spent'.faults /\ m \in {n, n + 1}
      BY <1>7, <3>2
    <3>4. Follows(n)' /\ Follows(m)'
      <4>1. Follows(m)
        BY <1>1, <3>1, <3>2, <3>3, FollowsFewer
      <4>2. QED
        BY <1>1, <3>1, <3>2, <4>1, FollowsSame
    <3>5. at = "write" => spent'.faults - 1 = n /\ spent'.faults > 0
      BY <1>12, <3>1, <3>2
    <3>6. Follows(spent.faults)' /\ (at = "write" => spent'.faults > 0 /\ Follows(spent.faults - 1)')
      BY <3>3, <3>4, <3>5, NowFollows
    <3>7. QED
      BY <1>1, <1>5, <2>2, <3>6 DEF PlacesKept
  <2>3. QED
    BY <2>1, <2>2
<1>14. QED
  BY <1>8, <1>9, <1>10, <1>11, <1>13 DEF VersionInv

LEMMA ArchivesVersions == ASSUME VersionInv, Redactions!archiveFile PROVE VersionInv'
<1>1. /\ work.at = "archive" /\ VersionTypes /\ UNCHANGED <<site, row, live, versions, seen, card>>
      /\ spent.faults \in Nat /\ Len(seen) \in Nat
  BY VersionFails DEF Redactions!archiveFile, VersionInv, VersionTypes
<1>2. work \in [at : {"archive"}, body : Editions, old : Texts0, text : Texts0] /\ live \in Texts0 /\ work.text = 0
  BY <1>1 DEF VersionInv, VersionTypes, RowKept
<1>3. PICK t \in {0, live} : /\ work' = [work EXCEPT !.at = "keep", !.text = t]
                             /\ (Redactions!Ok /\ t = live) \/ Redactions!Fail
  <2>1. CASE work' = [work EXCEPT !.at = "keep", !.text = live] /\ (Redactions!Ok \/ Redactions!Fail)
    BY <2>1
  <2>2. CASE work' = [work EXCEPT !.at = "keep"] /\ Redactions!Fail
    <3>1. work' = [work EXCEPT !.at = "keep", !.text = 0]
      BY <1>2, <2>2
    <3>2. QED
      BY <2>2, <3>1
  <2>3. QED
    BY <2>1, <2>2 DEF Redactions!archiveFile
<1>4. /\ work' \in [at : {"keep"}, body : Editions, old : Texts0, text : Texts0]
      /\ work'.at = "keep" /\ work'.body = work.body /\ work'.old = work.old /\ work'.text = t
  BY <1>2, <1>3 DEF Texts0
<1>5. archive' \in [Editions -> Texts0]
  BY <1>1, <1>2 DEF Redactions!archiveFile, VersionTypes
<1>6. /\ spent' \in [edits : Nat, faults : 0..VersionFaults]
      /\ spent'.faults \in {spent.faults, spent.faults + 1}
      /\ spent'.faults = 0 => t = live
  BY <1>1, <1>3, VersionFails
<1>7. VersionTypes'
  BY <1>1, <1>4, <1>5, <1>6 DEF VersionTypes
<1>8. RowKept'
  BY <1>1, <1>3, <1>4, <1>6 DEF VersionInv, RowKept
<1>9. LiveKept'
  BY <1>1, <1>6, LiveRests
<1>10. CardKept'
  BY <1>1, <1>6, CardRests DEF VersionInv
<1>11. PlacesKept'
  <2>1. CASE versions = <<>>
    <3>1. Len(seen) <= spent.faults + 1
      BY <2>1 DEF VersionInv, PlacesKept
    <3>2. Len(seen') <= spent'.faults + 1
      BY <1>1, <1>6, <3>1
    <3>3. QED
      BY <1>1, <1>4, <2>1, <3>2 DEF PlacesKept
  <2>2. CASE versions # <<>>
    <3>1. Follows(spent.faults)
      BY <1>1, <2>2 DEF VersionInv, PlacesKept
    <3>2. PICK m \in Nat : m = spent'.faults /\ spent.faults <= m
      BY <1>1, <1>6
    <3>3. Follows(m)'
      BY <1>1, <3>1, <3>2, FollowsFewer, FollowsSame
    <3>4. Follows(spent.faults)'
      BY <3>2, <3>3, NowFollows
    <3>5. QED
      BY <1>1, <1>4, <2>2, <3>4 DEF PlacesKept
  <2>3. QED
    BY <2>1, <2>2
<1>12. QED
  BY <1>7, <1>8, <1>9, <1>10, <1>11 DEF VersionInv

LEMMA KeepsVersions == ASSUME VersionInv, Redactions!archiveOldVersion PROVE VersionInv'
<1>1. /\ work.at = "keep" /\ VersionTypes /\ UNCHANGED <<site, row, live, archive, seen, card>>
      /\ work' = [work EXCEPT !.at = "write"]
      /\ spent.faults \in Nat /\ Len(seen) \in Nat /\ Len(versions) \in Nat
  BY VersionFails DEF Redactions!archiveOldVersion, VersionInv, VersionTypes
<1>2. work \in [at : {"keep"}, body : Editions, old : Texts0, text : Texts0]
  BY <1>1 DEF VersionTypes
<1>3. /\ work' \in [at : {"write"}, body : Editions, old : Texts0, text : Texts0]
      /\ work'.at = "write" /\ work'.body = work.body /\ work'.old = work.old
  BY <1>1, <1>2
<1>4. row.path /\ work.old = row.hash /\ work.body # row.hash /\ work.text \in {0, live}
      /\ (spent.faults = 0 => work.text = live)
  BY <1>1 DEF VersionInv, RowKept
<1>5. CASE UNCHANGED versions /\ (Redactions!Fail \/ (Redactions!Ok /\ versions # <<>>))
  <2>1. /\ spent' \in [edits : Nat, faults : 0..VersionFaults]
        /\ spent'.faults \in {spent.faults, spent.faults + 1}
        /\ versions = <<>> => spent'.faults = spent.faults + 1
    BY <1>1, <1>5, VersionFails
  <2>2. VersionTypes'
    BY <1>1, <1>3, <1>5, <2>1 DEF VersionTypes
  <2>3. RowKept'
    BY <1>1, <1>3, <1>5 DEF VersionInv, RowKept
  <2>4. LiveKept'
    BY <1>1, <1>5, <2>1, LiveRests
  <2>5. CardKept'
    BY <1>1, <1>5, <2>1, CardRests DEF VersionInv
  <2>6. PlacesKept'
    <3>1. CASE versions = <<>>
      <4>1. Len(seen) <= spent.faults + 1
        BY <3>1 DEF VersionInv, PlacesKept
      <4>2. Len(seen') <= spent'.faults + 1 /\ Len(seen') <= spent'.faults
        BY <1>1, <2>1, <3>1, <4>1
      <4>3. QED
        BY <1>5, <3>1, <4>2 DEF PlacesKept
    <3>2. CASE versions # <<>>
      <4>1. Follows(spent.faults)
        BY <1>1, <3>2 DEF VersionInv, PlacesKept
      <4>2. PICK m \in Nat : m = spent'.faults /\ spent.faults <= m
        BY <1>1, <2>1
      <4>3. Follows(m)'
        BY <1>1, <1>5, <4>1, <4>2, FollowsFewer, FollowsSame
      <4>4. Follows(spent.faults)'
        BY <4>2, <4>3, NowFollows
      <4>5. QED
        BY <1>1, <1>3, <1>4, <1>5, <3>2, <4>4 DEF PlacesKept
    <3>3. QED
      BY <3>1, <3>2
  <2>7. QED
    BY <2>2, <2>3, <2>4, <2>5, <2>6 DEF VersionInv
<1>6. CASE Redactions!Ok /\ versions = <<>> /\ Redactions!SaveVersion(work.old, work.text)
  <2>1. seen # <<>> /\ row.hash = seen[Len(seen)] /\ row.hash \in Editions /\ Len(seen) # 0
    BY <1>1, <1>4, SeqFacts DEF VersionInv, RowKept, VersionTypes
  <2>2. PICK v \in [hash : Editions, text : Texts0] : v.hash = row.hash /\ v.text = work.text /\ versions' = Append(versions, v)
    <3>1. [hash |-> row.hash, text |-> work.text] \in [hash : Editions, text : Texts0]
      BY <1>2, <2>1
    <3>2. versions' = Append(versions, [hash |-> row.hash, text |-> work.text])
      BY <1>4, <1>6 DEF Redactions!SaveVersion
    <3>3. QED
      BY <3>1, <3>2
  <2>3. /\ versions' \in Seq([hash : Editions, text : Texts0]) /\ Len(versions') = 1 /\ versions'[1] = v /\ versions' # <<>>
    <3>1. Len(versions) = 0
      BY <1>6
    <3>2. /\ Append(versions, v) \in Seq([hash : Editions, text : Texts0])
          /\ Len(Append(versions, v)) = Len(versions) + 1
          /\ Append(versions, v)[Len(versions) + 1] = v /\ Append(versions, v) # <<>>
      BY <1>1, <2>2, Appended DEF VersionTypes
    <3>3. Len(versions) + 1 = 1
      BY <3>1
    <3>4. QED
      BY <2>2, <3>2, <3>3
  <2>4. spent' \in [edits : Nat, faults : 0..VersionFaults] /\ spent'.faults = spent.faults
    BY <1>1, <1>6, VersionFails
  <2>5. VersionTypes'
    BY <1>1, <1>3, <2>3, <2>4 DEF VersionTypes
  <2>6. RowKept'
    BY <1>1, <1>3, <1>4 DEF VersionInv, RowKept
  <2>7. Len(seen) <= spent.faults + 1
    BY <1>6 DEF VersionInv, PlacesKept
  <2>8. LiveKept'
    <3>1. live \notin {row.hash, 0} => spent.faults >= 2
      BY <1>1, <1>4, <1>6 DEF VersionInv, LiveKept
    <3>2. spent.faults <= 1 => v.text \in {v.hash, 0}
      BY <1>1, <1>4, <2>2, <3>1
    <3>3. spent.faults = 0 => live = row.hash
      BY <1>1 DEF VersionInv, LiveKept
    <3>4. spent.faults = 0 => Len(seen) = 1
      <4>1. SUFFICES ASSUME spent.faults = 0 PROVE Len(seen) = 1
        OBVIOUS
      <4>2. Len(seen) <= 1
        BY <2>7, <4>1
      <4>3. PICK l \in Nat : l = Len(seen)
        BY <1>1
      <4>4. l # 0 /\ l <= 1
        BY <2>1, <4>2, <4>3
      <4>5. l = 1
        BY <4>4
      <4>6. QED
        BY <4>3, <4>5
    <3>5. spent.faults = 0 => v.text = seen[1] /\ v.hash = seen[1] /\ 1 <= Len(seen)
      <4>1. SUFFICES ASSUME spent.faults = 0 PROVE v.text = seen[1] /\ v.hash = seen[1] /\ 1 <= Len(seen)
        OBVIOUS
      <4>2. Len(seen) = 1 /\ row.hash = seen[1]
        BY <2>1, <3>4, <4>1
      <4>3. v.text = row.hash /\ v.hash = row.hash
        BY <1>4, <2>2, <3>3, <4>1
      <4>4. QED
        BY <4>2, <4>3
    <3>6. \A i \in 1..Len(versions') : i = 1
      BY <2>3
    <3>7. QED
      BY <1>1, <1>3, <2>3, <2>4, <3>2, <3>3, <3>5, <3>6 DEF LiveKept
  <2>9. CardKept'
    <3>1. Len(versions') \in {Len(versions), Len(versions) + 1}
      BY <1>6, <2>3
    <3>2. QED
      BY <1>1, <2>4, <3>1, CardRests DEF VersionInv
  <2>10. PlacesKept'
    <3>1. PICK n \in Nat : n = spent.faults
      BY <1>1
    <3>2. Follows(n)'
      BY <1>1, <1>6, <2>1, <2>2, <2>7, <3>1, SavesPlaces
    <3>3. Follows(spent.faults)'
      BY <2>4, <3>1, <3>2, NowFollows
    <3>4. QED
      BY <1>1, <1>3, <1>4, <2>3, <3>3 DEF PlacesKept
  <2>11. QED
    BY <2>5, <2>6, <2>8, <2>9, <2>10 DEF VersionInv
<1>7. Redactions!CountVersions = 0 <=> versions = <<>>
  BY <1>1 DEF Redactions!CountVersions, VersionTypes
<1>8. QED
  BY <1>5, <1>6, <1>7 DEF Redactions!archiveOldVersion

LEMMA WritesVersions == ASSUME VersionInv, Redactions!WriteFile PROVE VersionInv'
<1>1. /\ work.at = "write" /\ VersionTypes /\ UNCHANGED <<site, row, archive, versions, seen, card>>
      /\ spent.faults \in Nat /\ Len(seen) \in Nat /\ Len(versions) \in Nat
  BY VersionFails DEF Redactions!WriteFile, VersionInv, VersionTypes
<1>2. work \in [at : {"write"}, body : Editions, old : Texts0, text : Texts0]
  BY <1>1 DEF VersionTypes
<1>3. CASE Redactions!Ok /\ live' = work.body /\ work' = [work EXCEPT !.at = "upsert"]
  <2>1. /\ work' \in [at : {"upsert"}, body : Editions, old : Texts0, text : Texts0]
        /\ work'.at = "upsert" /\ work'.body = work.body
    BY <1>2, <1>3
  <2>2. spent' \in [edits : Nat, faults : 0..VersionFaults] /\ spent'.faults = spent.faults
    BY <1>1, <1>3, VersionFails
  <2>3. VersionTypes'
    BY <1>1, <1>2, <1>3, <2>1, <2>2 DEF VersionTypes, Texts0
  <2>4. RowKept'
    BY <1>1, <1>3, <2>1 DEF VersionInv, RowKept
  <2>5. LiveKept'
    BY <1>1, <2>1, <2>2 DEF VersionInv, LiveKept
  <2>6. CardKept'
    BY <1>1, <2>2, CardRests DEF VersionInv
  <2>7. PlacesKept'
    <3>1. PICK n : n = spent.faults
      OBVIOUS
    <3>2. spent'.faults = n /\ spent'.faults - 1 = n - 1
      BY <2>2, <3>1
    <3>3. /\ Follows(spent.faults) => Follows(spent.faults)'
          /\ Follows(spent.faults - 1) => Follows(spent.faults - 1)'
      <4>1. (Follows(spent.faults) => Follows(n)') /\ (Follows(spent.faults - 1) => Follows(n - 1)')
        BY <1>1, <3>1, FollowsSame
      <4>2. QED
        BY <3>2, <4>1, NowFollows
    <3>4. QED
      BY <1>1, <2>1, <2>2, <3>3 DEF VersionInv, PlacesKept
  <2>8. QED
    BY <2>3, <2>4, <2>5, <2>6, <2>7 DEF VersionInv
<1>4. CASE Redactions!Fail /\ live' \in {live, 0} /\ work' = [at |-> "idle"]
  <2>1. CASE live' = live
    BY <1>1, <1>4, <2>1, GivesUp
  <2>2. CASE live' = 0
    <3>1. /\ spent' \in [edits : Nat, faults : 0..VersionFaults] /\ spent'.faults = spent.faults + 1
          /\ work'.at = "idle"
      BY <1>1, <1>4, VersionFails
    <3>2. VersionTypes'
      BY <1>1, <1>4, <2>2, <3>1 DEF VersionTypes, Texts0
    <3>3. RowKept'
      BY <1>1, <3>1 DEF VersionInv, RowKept
    <3>4. LiveKept'
      <4>1. spent'.faults # 0 /\ (spent'.faults <= 1 => spent.faults <= 1)
        BY <1>1, <3>1
      <4>2. QED
        BY <1>1, <2>2, <4>1 DEF VersionInv, LiveKept
    <3>5. CardKept'
      BY <1>1, <3>1, CardRests DEF VersionInv
    <3>6. PlacesKept'
      <4>1. CASE versions = <<>>
        <5>1. Len(seen) <= spent.faults + 1
          BY <4>1 DEF VersionInv, PlacesKept
        <5>2. Len(seen') <= spent'.faults + 1
          BY <1>1, <3>1, <5>1
        <5>3. QED
          BY <1>1, <3>1, <4>1, <5>2 DEF PlacesKept
      <4>2. CASE versions # <<>>
        <5>1. Follows(spent.faults)
          BY <1>1, <4>2 DEF VersionInv, PlacesKept
        <5>2. PICK m \in Nat : m = spent'.faults /\ spent.faults <= m
          BY <1>1, <3>1
        <5>3. Follows(m)'
          BY <1>1, <5>1, <5>2, FollowsFewer, FollowsSame
        <5>4. Follows(spent.faults)'
          BY <5>2, <5>3, NowFollows
        <5>5. QED
          BY <1>1, <3>1, <4>2, <5>4 DEF PlacesKept
      <4>3. QED
        BY <4>1, <4>2
    <3>7. QED
      BY <3>2, <3>3, <3>4, <3>5, <3>6 DEF VersionInv
  <2>3. QED
    BY <1>4, <2>1, <2>2
<1>5. QED
  BY <1>3, <1>4 DEF Redactions!WriteFile, Redactions!Idle, Redactions!None

LEMMA UpsertsVersions == ASSUME VersionInv, Redactions!Upsert PROVE VersionInv'
<1>1. /\ work.at = "upsert" /\ VersionTypes /\ UNCHANGED <<site, live, archive, versions, card>>
      /\ spent.faults \in Nat /\ Len(seen) \in Nat /\ Len(versions) \in Nat
  BY VersionFails DEF Redactions!Upsert, VersionInv, VersionTypes
<1>2. work \in [at : {"upsert"}, body : Editions, old : Texts0, text : Texts0] /\ live = work.body
  BY <1>1 DEF VersionInv, VersionTypes, RowKept
<1>3. CASE Redactions!Fail /\ work' = [at |-> "idle"] /\ UNCHANGED <<row, seen>>
  BY <1>1, <1>3, GivesUp
<1>4. CASE /\ Redactions!Ok
           /\ row' = [known |-> TRUE, hash |-> work.body, path |-> TRUE]
           /\ seen' = IF seen # <<>> /\ seen[Len(seen)] = work.body THEN seen ELSE Append(seen, work.body)
           /\ work' = [work EXCEPT !.at = "save"]
  <2>1. /\ work' \in [at : {"save"}, body : Editions, old : Texts0, text : Texts0]
        /\ work'.at = "save" /\ work'.body = work.body
    BY <1>2, <1>4
  <2>2. spent' \in [edits : Nat, faults : 0..VersionFaults] /\ spent'.faults = spent.faults
    BY <1>1, <1>4, VersionFails
  <2>3. row' \in [known : BOOLEAN, hash : Texts0, path : BOOLEAN] /\ row'.known /\ row'.path /\ row'.hash = work.body
    <3>1. work.body \in Texts0
      BY <1>2 DEF Texts0
    <3>2. row' \in [known : {TRUE}, hash : {work.body}, path : {TRUE}]
      BY <1>4
    <3>3. QED
      BY <3>1, <3>2
  <2>4. PICK n \in Nat : n = spent.faults
    BY <1>1
  <2>5. ASSUME seen' \in Seq(Editions), seen' # <<>>, seen'[Len(seen')] = work.body,
               \A i \in 1..Len(seen) : seen'[i] = seen[i], Len(seen) <= Len(seen'),
               seen' = seen \/ \E e \in Editions : seen' = Append(seen, e), PlacesKept'
        PROVE  VersionInv'
    <3>1. VersionTypes'
      BY <1>1, <2>1, <2>2, <2>3, <2>5 DEF VersionTypes
    <3>2. RowKept'
      BY <1>1, <1>2, <2>1, <2>3, <2>5 DEF VersionInv, RowKept
    <3>3. LiveKept'
      <4>1. live' = row'.hash
        BY <1>1, <1>2, <2>3
      <4>2. ASSUME spent.faults = 0, NEW i \in 1..Len(versions)
            PROVE  i <= Len(seen') /\ versions[i].text = seen'[i] /\ versions[i].hash = seen'[i]
        <5>1. i <= Len(seen) /\ versions[i].text = seen[i] /\ versions[i].hash = seen[i]
          BY <4>2 DEF VersionInv, LiveKept
        <5>2. i \in 1..Len(seen) /\ i <= Len(seen')
          <6>1. Len(seen') \in Nat
            BY <2>5
          <6>2. QED
            BY <1>1, <2>5, <5>1, <6>1
        <5>3. QED
          BY <2>5, <5>1, <5>2
      <4>3. spent.faults <= 1 => \A i \in 1..Len(versions) : versions[i].text \in {versions[i].hash, 0}
        BY DEF VersionInv, LiveKept
      <4>4. QED
        BY <1>1, <2>2, <4>1, <4>2, <4>3 DEF LiveKept
    <3>4. CardKept'
      BY <1>1, <2>2, <2>5, CardRests DEF VersionInv
    <3>5. QED
      BY <2>5, <3>1, <3>2, <3>3, <3>4 DEF VersionInv
  <2>6. CASE seen # <<>> /\ seen[Len(seen)] = work.body
    <3>1. seen' = seen
      BY <1>4, <2>6
    <3>2. work.body = row.hash
      BY <2>6 DEF VersionInv, RowKept
    <3>3. PlacesKept'
      <4>1. CASE versions = <<>>
        <5>1. Len(seen) <= spent.faults
          BY <1>1, <4>1 DEF VersionInv, PlacesKept
        <5>2. Len(seen') <= spent'.faults + 1
          BY <1>1, <2>2, <3>1, <5>1
        <5>3. QED
          BY <1>1, <2>1, <4>1, <5>2 DEF PlacesKept
      <4>2. CASE versions # <<>>
        <5>1. spent.faults > 0 /\ Follows(spent.faults - 1)
          BY <1>1, <3>2, <4>2 DEF VersionInv, PlacesKept
        <5>2. PICK m : m = n - 1
          OBVIOUS
        <5>3. Follows(m)' /\ spent'.faults - 1 = m
          BY <1>1, <2>2, <2>4, <3>1, <5>1, <5>2, FollowsSame
        <5>4. Follows(spent.faults - 1)' /\ spent'.faults > 0
          BY <2>2, <5>1, <5>3, NowFollows
        <5>5. QED
          BY <1>1, <2>1, <4>2, <5>4 DEF PlacesKept
      <4>3. QED
        BY <4>1, <4>2
    <3>4. QED
      BY <1>1, <2>5, <2>6, <3>1, <3>3 DEF VersionTypes
  <2>7. CASE ~ (seen # <<>> /\ seen[Len(seen)] = work.body)
    <3>1. seen' = Append(seen, work.body) /\ work.body \in Editions
      BY <1>2, <1>4, <2>7
    <3>2. /\ seen' \in Seq(Editions) /\ Len(seen') = Len(seen) + 1 /\ seen' # <<>>
          /\ \A i \in 1..Len(seen) : seen'[i] = seen[i]
          /\ seen'[Len(seen')] = work.body
      BY <1>1, <3>1, Appended DEF VersionTypes
    <3>3. PlacesKept'
      <4>1. CASE versions = <<>>
        <5>1. Len(seen) <= spent.faults
          BY <1>1, <4>1 DEF VersionInv, PlacesKept
        <5>2. Len(seen') <= spent'.faults + 1
          BY <1>1, <2>2, <3>2, <5>1
        <5>3. QED
          BY <1>1, <2>1, <4>1, <5>2 DEF PlacesKept
      <4>2. CASE versions # <<>>
        <5>1. Follows(n)
          BY <1>1, <2>4, <4>2 DEF VersionInv, PlacesKept
        <5>2. FollowsBut(n)'
          BY <1>1, <2>4, <3>1, <5>1, SeenGrows
        <5>3. FollowsBut(spent.faults)'
          BY <2>2, <2>4, <5>2, NowFollows
        <5>4. QED
          BY <1>1, <2>1, <4>2, <5>3 DEF PlacesKept
      <4>3. QED
        BY <4>1, <4>2
    <3>4. Len(seen) <= Len(seen') /\ \E e \in Editions : seen' = Append(seen, e)
      BY <1>1, <3>1, <3>2
    <3>5. QED
      BY <2>5, <3>2, <3>3, <3>4
  <2>8. QED
    BY <2>6, <2>7
<1>5. QED
  BY <1>3, <1>4 DEF Redactions!Upsert, Redactions!Idle

\* The version that ends a download.
LEMMA NewVersion ==
  ASSUME VersionInv, work.at = "save", NEW v \in [hash : Editions, text : Texts0], v.hash = work.body, v.text \in {0, live},
         versions' = Append(versions, v), work' = [at |-> "idle"],
         spent' \in [edits : Nat, faults : 0..VersionFaults],
         (v.text = live /\ spent'.faults = spent.faults) \/ spent'.faults = spent.faults + 1,
         UNCHANGED <<site, row, live, archive, seen, card>>
  PROVE  VersionInv'
<1>1. /\ VersionTypes /\ spent.faults \in Nat /\ Len(seen) \in Nat /\ Len(versions) \in Nat
      /\ spent'.faults \in {spent.faults, spent.faults + 1} /\ work'.at = "idle"
  BY VersionFails DEF VersionInv, VersionTypes
<1>2. /\ live = work.body /\ row.path /\ row.hash = work.body /\ seen # <<>> /\ seen[Len(seen)] = work.body
      /\ Len(seen) # 0
  BY <1>1, SeqFacts DEF VersionInv, RowKept, VersionTypes
<1>3. /\ versions' \in Seq([hash : Editions, text : Texts0]) /\ Len(versions') = Len(versions) + 1
      /\ \A i \in 1..Len(versions) : versions'[i] = versions[i]
      /\ versions'[Len(versions) + 1] = v /\ versions' # <<>>
  BY <1>1, Appended DEF VersionTypes
<1>4. VersionTypes'
  BY <1>1, <1>3 DEF VersionTypes
<1>5. RowKept'
  BY <1>1, <1>2 DEF VersionInv, RowKept
<1>6. CardKept'
  BY <1>1, <1>3, CardRests DEF VersionInv
<1>7. PICK n \in Nat : n = spent.faults
  BY <1>1
<1>8. Follows(n)'
  <2>1. CASE versions = <<>>
    <3>1. Len(seen) <= n + 1
      BY <1>7, <2>1 DEF VersionInv, PlacesKept
    <3>2. QED
      BY <1>1, <1>2, <2>1, <3>1, SavesPlaces
  <2>2. CASE versions # <<>>
    <3>1. FollowsBut(n) \/ (n > 0 /\ Follows(n - 1))
      BY <1>7, <2>2 DEF VersionInv, PlacesKept
    <3>2. CASE FollowsBut(n)
      BY <1>1, <1>2, <3>2, SavesPlaces
    <3>3. CASE n > 0 /\ Follows(n - 1)
      <4>1. PICK m \in Nat : m = n - 1
        BY <3>3
      <4>2. Follows(m + 1)'
        BY <1>1, <1>2, <3>3, <4>1, SavesPlaces
      <4>3. m + 1 = n
        BY <4>1
      <4>4. QED
        BY <4>2, <4>3
    <3>4. QED
      BY <3>1, <3>2, <3>3
  <2>3. QED
    BY <2>1, <2>2
<1>9. PlacesKept'
  <2>1. PICK m \in Nat : m = spent'.faults /\ n <= m
    BY <1>1, <1>7
  <2>2. Follows(m)'
    <3>1. PICK f, k : Embeds(f, k)' /\ Len(seen') + Len(versions') <= 2 * k + n
      BY <1>8 DEF Follows
    <3>2. k \in Nat /\ Len(seen') \in Nat /\ Len(versions') \in Nat
      BY <1>1, <1>3, <3>1 DEF Embeds
    <3>3. Len(seen') + Len(versions') <= 2 * k + m
      BY <2>1, <3>1, <3>2
    <3>4. QED
      BY <3>1, <3>3 DEF Follows
  <2>3. Follows(spent.faults)'
    BY <2>1, <2>2, NowFollows
  <2>4. QED
    BY <1>1, <1>3, <2>3 DEF PlacesKept
<1>10. ASSUME spent.faults = 0 PROVE Len(versions) + 1 = Len(seen)
  <2>1. CASE versions = <<>>
    <3>1. Len(seen) <= 1 /\ Len(versions) = 0
      <4>1. Len(seen) <= spent.faults + 1
        BY <2>1 DEF VersionInv, PlacesKept
      <4>2. QED
        BY <1>10, <2>1, <4>1
    <3>2. Len(seen) = 1
      <4>1. PICK l \in Nat : l = Len(seen)
        BY <1>1
      <4>2. l # 0 /\ l <= 1
        BY <1>2, <3>1, <4>1
      <4>3. l = 1
        BY <4>2
      <4>4. QED
        BY <4>1, <4>3
    <3>3. QED
      BY <3>1, <3>2
  <2>2. CASE versions # <<>>
    <3>1. FollowsBut(0)
      BY <1>10, <2>2 DEF VersionInv, PlacesKept
    <3>2. PICK f, k : Embeds(f, k) /\ k + 1 <= Len(seen) /\ Len(seen) + Len(versions) <= 2 * k + 0 + 1
      BY <3>1 DEF FollowsBut
    <3>3. k \in Nat /\ k <= Len(versions)
      BY <3>2 DEF Embeds
    <3>4. QED
      BY <1>1, <3>2, <3>3
  <2>3. QED
    BY <2>1, <2>2
<1>11. LiveKept'
  <2>1. ASSUME spent'.faults <= 1, NEW i \in 1..(Len(versions) + 1)
        PROVE  versions'[i].text \in {versions'[i].hash, 0}
    <3>1. CASE i \in 1..Len(versions)
      <4>1. spent.faults <= 1
        BY <1>1, <2>1
      <4>2. versions[i].text \in {versions[i].hash, 0}
        BY <3>1, <4>1 DEF VersionInv, LiveKept
      <4>3. QED
        BY <1>3, <3>1, <4>2
    <3>2. CASE i = Len(versions) + 1
      BY <1>2, <1>3, <3>2
    <3>3. QED
      BY <1>1, <2>1, <3>1, <3>2
  <2>2. ASSUME spent'.faults = 0, NEW i \in 1..(Len(versions) + 1)
        PROVE  i <= Len(seen) /\ versions'[i].text = seen[i] /\ versions'[i].hash = seen[i]
    <3>1. spent.faults = 0 /\ v.text = live /\ Len(versions) + 1 = Len(seen)
      BY <1>1, <1>10, <2>2
    <3>2. CASE i \in 1..Len(versions)
      <4>1. i <= Len(seen) /\ versions[i].text = seen[i] /\ versions[i].hash = seen[i]
        BY <3>1, <3>2 DEF VersionInv, LiveKept
      <4>2. QED
        BY <1>3, <3>2, <4>1
    <3>3. CASE i = Len(versions) + 1
      <4>1. i = Len(seen) /\ versions'[i] = v /\ seen[i] = work.body
        BY <1>2, <1>3, <3>1, <3>3
      <4>2. QED
        BY <1>1, <1>2, <3>1, <4>1
    <3>4. QED
      BY <1>1, <2>2, <3>2, <3>3
  <2>3. QED
    BY <1>1, <1>2, <1>3, <2>1, <2>2 DEF LiveKept
<1>12. QED
  BY <1>4, <1>5, <1>6, <1>9, <1>11 DEF VersionInv

LEMMA SavesVersions == ASSUME VersionInv, Redactions!saveNewVersion PROVE VersionInv'
<1>1. /\ work.at = "save" /\ VersionTypes /\ UNCHANGED <<site, row, live, archive, seen, card>>
      /\ work' = [at |-> "idle"] /\ spent.faults \in Nat
  BY VersionFails DEF Redactions!saveNewVersion, Redactions!Idle, VersionInv, VersionTypes
<1>2. work.body \in Editions /\ live \in Texts0 /\ 0 \in Texts0
  BY <1>1 DEF VersionTypes, Texts0
<1>3. ASSUME NEW t \in {0, live}, Redactions!SaveVersion(work.body, t),
             (t = live /\ Redactions!Ok) \/ Redactions!Fail
      PROVE  VersionInv'
  <2>1. PICK v \in [hash : Editions, text : Texts0] :
          v.hash = work.body /\ v.text = t /\ versions' = Append(versions, v)
    <3>1. [hash |-> work.body, text |-> t] \in [hash : Editions, text : Texts0]
      BY <1>2
    <3>2. QED
      BY <1>3, <3>1 DEF Redactions!SaveVersion
  <2>2. /\ spent' \in [edits : Nat, faults : 0..VersionFaults]
        /\ (v.text = live /\ spent'.faults = spent.faults) \/ spent'.faults = spent.faults + 1
    BY <1>1, <1>3, <2>1, VersionFails
  <2>3. QED
    BY <1>1, <2>1, <2>2, NewVersion
<1>4. CASE Redactions!Fail /\ UNCHANGED versions
  BY <1>1, <1>4, GivesUp
<1>5. QED
  BY <1>3, <1>4 DEF Redactions!saveNewVersion, Redactions!None

LEMMA CrashesVersions == ASSUME VersionInv, Redactions!Crash PROVE VersionInv'
  BY GivesUp DEF Redactions!Crash, Redactions!Idle

\* Where only the card moves, its own part is left to show.
LEMMA OnlyTheCard ==
  ASSUME VersionInv, UNCHANGED <<site, row, live, archive, versions, seen, work, spent>>, CardKept'
  PROVE  VersionInv'
<1>1. VersionTypes' /\ RowKept' /\ LiveKept'
  BY DEF VersionInv, VersionTypes, RowKept, LiveKept
<1>2. PlacesKept'
  BY DEF VersionInv, PlacesKept, Follows, FollowsBut, Embeds
<1>3. QED
  BY <1>1, <1>2 DEF VersionInv

\* Without a fault the history is what the row has stood for, but for the
\* redaction that is about to be kept.
LEMMA TurnsTheCard ==
  ASSUME VersionInv,
         \/ Redactions!DocumentsWithVersions
         \/ Redactions!handleDiffPage
         \/ Redactions!Close
  PROVE  VersionInv'
<1>1. PICK c \in Nat : c = Len(versions)
  BY DEF VersionInv, VersionTypes
<1>2. Len(seen) \in Nat
  BY DEF VersionInv, VersionTypes
<1>3. CASE Redactions!DocumentsWithVersions
  <2>1. c >= 2 /\ card' = [at |-> "listed", newNo |-> c]
        /\ UNCHANGED <<site, row, live, archive, versions, seen, work, spent>>
    BY <1>1, <1>3 DEF Redactions!DocumentsWithVersions, Redactions!CountVersions
  <2>2. CardKept'
    BY <1>1, <2>1 DEF CardKept
  <2>3. QED
    BY <2>1, <2>2, OnlyTheCard
<1>4. CASE Redactions!handleDiffPage
  <2>1. /\ c >= 2 /\ card.newNo \in Nat /\ card.newNo <= c
        /\ UNCHANGED <<site, row, live, archive, versions, seen, work, spent>>
    BY <1>1, <1>4 DEF Redactions!handleDiffPage, VersionInv, CardKept
  <2>2. PICK o \in Nat : o = c - 1 /\ 1 <= o
    BY <2>1
  <2>3. /\ SubSeq(versions, o, c)[1] = versions[o]
        /\ SubSeq(versions, o, c)[2] = versions[o + 1]
    <3>1. versions \in Seq([hash : Editions, text : Texts0]) /\ o \in 1..Len(versions) /\ c \in 1..Len(versions) /\ o + 1 = c
      BY <1>1, <2>1, <2>2 DEF VersionInv, VersionTypes
    <3>2. \A i \in o..c : versions[i] \in [hash : Editions, text : Texts0]
      <4>1. \A i \in o..c : i \in 1..Len(versions)
        BY <1>1, <3>1
      <4>2. PICK D : D = [hash : Editions, text : Texts0]
        OBVIOUS
      <4>3. versions \in Seq(D)
        BY <3>1, <4>2
      <4>4. \A i \in o..c : versions[i] \in D
        BY <4>1, <4>3
      <4>5. QED
        BY <4>2, <4>4
    <3>3. /\ o \in Int /\ c \in Int /\ 1 \in 1..(c - o + 1) /\ 2 \in 1..(c - o + 1)
          /\ o + 1 - 1 = o /\ o + 2 - 1 = o + 1
      BY <2>2
    <3>4. \A i \in 1..(c - o + 1) : SubSeq(versions, o, c)[i] = versions[o + i - 1]
      BY <3>2, <3>3, SubSeqProperties
    <3>5. SubSeq(versions, o, c)[1] = versions[o + 1 - 1] /\ SubSeq(versions, o, c)[2] = versions[o + 2 - 1]
      BY <3>3, <3>4
    <3>6. QED
      BY <3>3, <3>5
  <2>4. card' = [at |-> "shown", newNo |-> card.newNo, oldNo |-> o, from |-> versions[o], to |-> versions[o + 1]]
    BY <1>1, <1>4, <2>2, <2>3 DEF Redactions!handleDiffPage, Redactions!LatestVersions, Redactions!CountVersions
  <2>5. PICK d : d = card'
    OBVIOUS
  <2>6. /\ d.at = "shown" /\ d.newNo = card.newNo /\ d.oldNo = o
        /\ d.from = versions[o] /\ d.to = versions[o + 1]
    BY <2>4, <2>5
  <2>7. d.newNo \in Nat /\ d.oldNo \in Nat /\ d.newNo <= d.oldNo + 1
    BY <2>1, <2>2, <2>6
  <2>8. ASSUME spent.faults = 0
        PROVE  \E i \in 1..(Len(seen) - 1) : d.from.text = seen[i] /\ d.to.text = seen[i + 1]
    <3>1. \A i \in 1..c : i <= Len(seen) /\ versions[i].text = seen[i]
      BY <1>1, <2>8 DEF VersionInv, LiveKept
    <3>2. o \in 1..c /\ o + 1 \in 1..c
      BY <2>1, <2>2
    <3>3. o \in 1..(Len(seen) - 1)
      <4>1. o + 1 <= Len(seen)
        BY <3>1, <3>2
      <4>2. QED
        BY <1>2, <2>2, <4>1
    <3>4. QED
      BY <2>6, <3>1, <3>2, <3>3
  <2>9. CardKept'
    BY <2>1, <2>5, <2>6, <2>7, <2>8 DEF CardKept
  <2>10. QED
    BY <2>1, <2>9, OnlyTheCard
<1>5. CASE Redactions!Close
  <2>1. card' = [at |-> "unread"] /\ UNCHANGED <<site, row, live, archive, versions, seen, work, spent>>
    BY <1>5 DEF Redactions!Close, Redactions!Unread
  <2>2. CardKept'
    BY <2>1 DEF CardKept
  <2>3. QED
    BY <2>1, <2>2, OnlyTheCard
<1>6. QED
  BY <1>3, <1>4, <1>5

LEMMA InitVersions == ASSUME Redactions!Init PROVE VersionInv
<1>1. /\ site \in Editions /\ live = row.hash /\ archive = [e \in Editions |-> 0] /\ versions = <<>>
      /\ seen = (IF row.path THEN <<row.hash>> ELSE <<>>)
      /\ work = [at |-> "idle"] /\ card = [at |-> "unread"] /\ spent = [edits |-> 0, faults |-> 0]
  BY DEF Redactions!Init, Redactions!None, Redactions!Idle, Redactions!Unread
<1>2. /\ row \in [known : BOOLEAN, hash : Texts0, path : BOOLEAN]
      /\ row.path => row.known /\ row.hash \in Editions
      /\ ~ row.path => row.hash = 0
  <2>1. CASE row = [known |-> FALSE, hash |-> 0, path |-> FALSE] \/ row = [known |-> TRUE, hash |-> 0, path |-> FALSE]
    <3>1. PICK known \in BOOLEAN : row = [known |-> known, hash |-> 0, path |-> FALSE]
      BY <2>1
    <3>2. row \in [known : BOOLEAN, hash : {0}, path : {FALSE}]
      BY <3>1
    <3>3. QED
      BY <3>2 DEF Texts0
  <2>2. ASSUME NEW e \in Editions, row = [known |-> TRUE, hash |-> e, path |-> TRUE]
        PROVE  row \in [known : {TRUE}, hash : Editions, path : {TRUE}]
    BY <2>2
  <2>3. CASE row \in [known : {TRUE}, hash : Editions, path : {TRUE}]
    BY <2>3 DEF Texts0
  <2>4. QED
    BY <2>1, <2>2, <2>3 DEF Redactions!Init, Redactions!None
<1>3. /\ seen \in Seq(Editions) /\ (row.path <=> seen # <<>>) /\ Len(seen) <= 1
      /\ row.path => seen[Len(seen)] = row.hash
  <2>1. CASE row.path
    <3>1. seen = <<row.hash>> /\ row.hash \in Editions
      BY <1>1, <1>2, <2>1
    <3>2. QED
      BY <2>1, <3>1
  <2>2. CASE ~ row.path
    BY <1>1, <2>2
  <2>3. QED
    BY <2>1, <2>2
<1>4. spent \in [edits : Nat, faults : 0..VersionFaults] /\ spent.faults = 0 /\ work.at = "idle" /\ card.at = "unread"
  BY <1>1, VersionsAssumption
<1>5. VersionTypes
  <2>1. live \in Texts0 /\ archive \in [Editions -> Texts0]
    BY <1>1, <1>2 DEF Texts0
  <2>2. versions \in Seq([hash : Editions, text : Texts0])
    BY <1>1
  <2>3. QED
    BY <1>1, <1>2, <1>3, <1>4, <2>1, <2>2 DEF VersionTypes
<1>6. RowKept
  BY <1>1, <1>2, <1>3, <1>4 DEF RowKept
<1>7. LiveKept
  <2>1. Len(versions) = 0
    BY <1>1
  <2>2. QED
    BY <1>1, <1>4, <2>1 DEF LiveKept
<1>8. PlacesKept
  <2>1. Len(seen) <= spent.faults + 1
    BY <1>3, <1>4
  <2>2. QED
    BY <1>1, <1>4, <2>1 DEF PlacesKept
<1>9. QED
  BY <1>4, <1>5, <1>6, <1>7, <1>8 DEF VersionInv, CardKept

LEMMA InductiveVersions == ASSUME VersionInv, [Redactions!Next]_(Redactions!versionVars) PROVE VersionInv'
<1>1. CASE UNCHANGED Redactions!versionVars
  BY <1>1, OnlyTheCard DEF Redactions!versionVars, VersionInv, CardKept
<1>2. CASE Redactions!Next
  BY <1>2, PublishesVersions, DownloadsVersions, ArchivesVersions, KeepsVersions, WritesVersions,
     UpsertsVersions, SavesVersions, CrashesVersions, TurnsTheCard DEF Redactions!Next
<1>3. QED
  BY <1>1, <1>2

LEMMA VersionHolds == ASSUME VersionInv
                      PROVE  Redactions!TypeOK /\ Redactions!HistoryKept /\ Redactions!ComparedFollow
<1>1. Len(seen) \in Nat /\ Len(versions) \in Nat
  BY DEF VersionInv, VersionTypes
<1>2. PICK l \in Nat, c \in Nat : l = Len(seen) /\ c = Len(versions)
  BY <1>1
<1>3. spent.faults \in 0..VersionFaults /\ spent.faults \in Nat /\ VersionFaults \in Nat
  BY VersionsAssumption DEF VersionInv, VersionTypes
<1>4. Redactions!TypeOK
  BY DEF VersionInv, VersionTypes, Redactions!TypeOK, Redactions!None, Redactions!DocVersion, Redactions!Faults, Texts0
<1>5. ASSUME work = [at |-> "idle"], c > 0
      PROVE  \E f \in Redactions!Places : Redactions!Missed(f) + Redactions!Doubled(f) <= spent.faults
  <2>1. versions # <<>>
    BY <1>2, <1>5
  <2>2. PICK f, k : Embeds(f, k) /\ l + c <= 2 * k + spent.faults
    BY <1>2, <1>5, <2>1 DEF VersionInv, PlacesKept, Follows
  <2>3. /\ f \in [1..c -> 1..l] /\ \A i \in 1..c : versions[i].hash = seen[f[i]]
        /\ \A i, j \in 1..c : i < j => f[i] <= f[j]
        /\ k \in Nat /\ Cardinality({f[i] : i \in 1..c}) = k /\ k <= c /\ k <= l
    BY <1>2, <2>2 DEF Embeds
  <2>4. f \in Redactions!Places
    BY <1>2, <2>3 DEF Redactions!Places, Redactions!CountVersions
  <2>5. Redactions!Range(f) = {f[i] : i \in 1..c} /\ {f[i] : i \in 1..c} \subseteq 1..l
    BY <2>3 DEF Redactions!Range
  <2>6. DOMAIN seen = 1..l
    BY <1>2, SeqFacts DEF VersionInv, VersionTypes
  <2>7. IsFiniteSet(1..l) /\ Cardinality(1..l) = l
    <3>1. 1 \in Int /\ l \in Int /\ ~ (1 > l + 1) /\ l - 1 + 1 = l /\ (1 > l => l = 0)
      BY <1>2
    <3>2. QED
      BY <3>1, FS_Interval
  <2>8. Cardinality((1..l) \ {f[i] : i \in 1..c}) = l - k
    <3>1. (1..l) \ ((1..l) \ {f[i] : i \in 1..c}) = {f[i] : i \in 1..c}
      BY <2>5
    <3>2. IsFiniteSet({f[i] : i \in 1..c}) /\ (1..l) \cap {f[i] : i \in 1..c} = {f[i] : i \in 1..c}
      BY <2>5, <2>7, FS_Subset
    <3>3. Cardinality((1..l) \ {f[i] : i \in 1..c}) = Cardinality(1..l) - Cardinality((1..l) \cap {f[i] : i \in 1..c})
      BY <2>7, FS_Difference
    <3>4. QED
      BY <2>3, <2>7, <3>2, <3>3
  <2>9. Redactions!Missed(f) = l - k /\ Redactions!Doubled(f) = c - k
    <3>1. \A S : Redactions!Cardinality(S) = Cardinality(S)
      BY DEF Redactions!Cardinality, Cardinality
    <3>2. QED
      BY <1>2, <2>3, <2>5, <2>6, <2>8, <3>1 DEF Redactions!Missed, Redactions!Doubled, Redactions!CountVersions
  <2>10. (l - k) + (c - k) <= spent.faults
    BY <1>2, <1>3, <2>2, <2>3
  <2>11. QED
    BY <2>4, <2>9, <2>10
<1>6. Redactions!HistoryKept
  BY <1>2, <1>5 DEF VersionInv, LiveKept, Redactions!HistoryKept, Redactions!None, Redactions!Idle, Redactions!Faults,
     Redactions!CountVersions
<1>7. Redactions!ComparedFollow
  BY DEF VersionInv, CardKept, Redactions!ComparedFollow, Redactions!Faults
<1>8. QED
  BY <1>4, <1>6, <1>7

\* For any number of redactions, a failure or an end of the process costs the
\* history of a document at most one of them, missed or doubled, and where
\* there was none, the two that are compared came one after the other
\* (downloadDocument, handleDiffPage).
THEOREM RedactionsAreKept ==
  Redactions!Init /\ [][Redactions!Next]_(Redactions!versionVars) => [](Redactions!TypeOK /\ Redactions!HistoryKept /\ Redactions!ComparedFollow)
BY InitVersions, InductiveVersions, VersionHolds, PTL

------------------------------------------------------------------------------

(* The difference of two redactions. *)

\* What stands in each cell of a table is made of what stands in the cells before it.
Grid(M, N) == (0..M) \X (0..N)
Less(d, c) == d[1] + d[2] < c[1] + c[2]
Local(M, N, S, step) ==
  \A c \in Grid(M, N), f \in [Grid(M, N) -> S], g \in [Grid(M, N) -> S] :
    (\A d \in Grid(M, N) : Less(d, c) => f[d] = g[d]) => step[<<c, f>>] = step[<<c, g>>]
StepFits(M, N, S, step) == step \in [Grid(M, N) \X [Grid(M, N) -> S] -> S] /\ Local(M, N, S, step)
IsTable(M, N, S, step, f) == f \in [Grid(M, N) -> S] /\ f = [c \in Grid(M, N) |-> step[<<c, f>>]]
Filled(M, N, S, step, f, n) ==
  f \in [Grid(M, N) -> S] /\ \A c \in Grid(M, N) : c[1] + c[2] < n => f[c] = step[<<c, f>>]

LEMMA FillOne ==
  ASSUME NEW M \in Nat, NEW N \in Nat, NEW S, NEW step, StepFits(M, N, S, step), NEW n \in Nat, NEW f, Filled(M, N, S, step, f, n)
  PROVE  \E g : Filled(M, N, S, step, g, n + 1)
<1> DEFINE g == [c \in Grid(M, N) |-> IF c[1] + c[2] = n THEN step[<<c, f>>] ELSE f[c]]
<1>1. f \in [Grid(M, N) -> S]
  BY DEF Filled
<1>2. \A c \in Grid(M, N) : step[<<c, f>>] \in S /\ f[c] \in S
  BY <1>1 DEF StepFits
<1>3. g \in [Grid(M, N) -> S]
  BY <1>2
<1>4. \A c \in Grid(M, N) : c[1] + c[2] \in Nat
  BY DEF Grid
<1>5. \A d \in Grid(M, N) : d[1] + d[2] < n => g[d] = f[d]
  BY <1>4
<1>6. \A d \in Grid(M, N) : d[1] + d[2] = n => g[d] = step[<<d, f>>]
  OBVIOUS
<1> HIDE DEF g
<1>7. ASSUME NEW c \in Grid(M, N), c[1] + c[2] < n + 1 PROVE g[c] = step[<<c, g>>]
  <2>1. \A d \in Grid(M, N) : Less(d, c) => f[d] = g[d]
    BY <1>4, <1>5, <1>7 DEF Less
  <2>2. step[<<c, f>>] = step[<<c, g>>]
    BY <1>1, <1>3, <2>1 DEF Local, StepFits
  <2>3. c[1] + c[2] < n \/ c[1] + c[2] = n
    BY <1>4, <1>7
  <2>4. CASE c[1] + c[2] < n
    BY <2>2, <2>4, <1>5 DEF Filled
  <2>5. CASE c[1] + c[2] = n
    BY <2>2, <2>5, <1>6
  <2>6. QED
    BY <2>3, <2>4, <2>5
<1>8. QED
  BY <1>3, <1>7 DEF Filled

LEMMA TableExists ==
  ASSUME NEW M \in Nat, NEW N \in Nat, NEW S, NEW base \in S,
         NEW step, StepFits(M, N, S, step)
  PROVE  \E f : IsTable(M, N, S, step, f)
<1> DEFINE R == {n \in Nat : \E f : Filled(M, N, S, step, f, n)}
           T == M + N + 1
<1>1. \A c \in Grid(M, N) : c[1] + c[2] \in Nat /\ c[1] + c[2] < T
  BY DEF Grid
<1>2. 0 \in R
  <2> DEFINE f == [c \in Grid(M, N) |-> base]
  <2>1. Filled(M, N, S, step, f, 0)
    BY <1>1 DEF Filled
  <2>2. QED
    BY <2>1
<1>3. ASSUME NEW n \in Nat, n \in R PROVE n + 1 \in R
  <2>1. PICK f : Filled(M, N, S, step, f, n)
    BY <1>3
  <2>2. \E g : Filled(M, N, S, step, g, n + 1)
    BY <2>1, FillOne
  <2>3. QED
    BY <2>2
<1>4. T \in Nat
  OBVIOUS
<1>5. T \in R
  <2> HIDE DEF R, T
  <2>1. 0..T \subseteq R
    BY <1>2, <1>3, <1>4, InductionTo
  <2>2. QED
    BY <2>1, <1>4
<1>6. PICK f : Filled(M, N, S, step, f, T)
  BY <1>5
<1>7. f \in [Grid(M, N) -> S] /\ \A c \in Grid(M, N) : f[c] = step[<<c, f>>]
  BY <1>1, <1>6 DEF Filled
<1>8. f = [c \in Grid(M, N) |-> step[<<c, f>>]]
  BY <1>7
<1>9. QED
  BY <1>7, <1>8 DEF IsTable

\* What holds of a cell when it holds of those before it holds of every cell.
LEMMA CellByCell ==
  ASSUME NEW M \in Nat, NEW N \in Nat, NEW P, P \subseteq Grid(M, N),
         \A c \in Grid(M, N) : (\A d \in Grid(M, N) : Less(d, c) => d \in P) => c \in P
  PROVE  P = Grid(M, N)
<1> DEFINE T == M + N + 1
           R == {n \in Nat : \A c \in Grid(M, N) : c[1] + c[2] < n => c \in P}
<1>1. \A c \in Grid(M, N) : c[1] + c[2] \in Nat /\ c[1] + c[2] < T
  BY DEF Grid
<1>2. 0 \in R
  BY <1>1
<1>3. ASSUME NEW n \in Nat, n \in R PROVE n + 1 \in R
  <2>1. ASSUME NEW c \in Grid(M, N), c[1] + c[2] < n + 1 PROVE c \in P
    <3>1. \A d \in Grid(M, N) : Less(d, c) => d[1] + d[2] < n
      BY <1>1, <2>1 DEF Less
    <3>2. \A d \in Grid(M, N) : Less(d, c) => d \in P
      BY <1>3, <3>1
    <3>3. QED
      BY <3>2
  <2>2. QED
    BY <2>1
<1>4. T \in Nat
  OBVIOUS
<1>5. T \in R
  <2> HIDE DEF R, T
  <2>1. 0..T \subseteq R
    BY <1>2, <1>3, <1>4, InductionTo
  <2>2. QED
    BY <2>1, <1>4
<1>6. QED
  BY <1>1, <1>5

\* One cell of the table of lengths.
LcsCell(a, b, c, f) ==
  IF c[1] = 0 \/ c[2] = 0 THEN 0
  ELSE IF a[c[1]] = b[c[2]] THEN f[<<c[1] - 1, c[2] - 1>>] + 1
  ELSE Texts!Larger(f[<<c[1] - 1, c[2]>>], f[<<c[1], c[2] - 1>>])
LcsTable(a, b, f) == f = [c \in Grid(Len(a), Len(b)) |-> LcsCell(a, b, c, f)]

\* The cells a cell is made of.
LEMMA CellsBefore ==
  ASSUME NEW M \in Nat, NEW N \in Nat, NEW c \in Grid(M, N)
  PROVE  /\ c[1] \in 0..M /\ c[2] \in 0..N /\ c = <<c[1], c[2]>>
         /\ c[1] \in Nat /\ c[2] \in Nat
         /\ c[1] > 0 => <<c[1] - 1, c[2]>> \in Grid(M, N) /\ Less(<<c[1] - 1, c[2]>>, c)
         /\ c[2] > 0 => <<c[1], c[2] - 1>> \in Grid(M, N) /\ Less(<<c[1], c[2] - 1>>, c)
         /\ c[1] > 0 /\ c[2] > 0 => <<c[1] - 1, c[2] - 1>> \in Grid(M, N) /\ Less(<<c[1] - 1, c[2] - 1>>, c)
<1>1. c[1] \in 0..M /\ c[2] \in 0..N /\ c = <<c[1], c[2]>>
  BY DEF Grid
<1>2. c[1] > 0 => c[1] - 1 \in 0..M /\ (c[1] - 1) + c[2] < c[1] + c[2]
  BY <1>1
<1>3. c[2] > 0 => c[2] - 1 \in 0..N /\ c[1] + (c[2] - 1) < c[1] + c[2]
  BY <1>1
<1>4. c[1] > 0 /\ c[2] > 0 => (c[1] - 1) + (c[2] - 1) < c[1] + c[2]
  BY <1>1
<1>5. QED
  BY <1>1, <1>2, <1>3, <1>4 DEF Grid, Less

LEMMA LcsIsLocal ==
  ASSUME NEW a, NEW b, NEW M \in Nat, NEW N \in Nat, NEW c \in Grid(M, N), NEW f, NEW g,
         \A d \in Grid(M, N) : Less(d, c) => f[d] = g[d]
  PROVE  LcsCell(a, b, c, f) = LcsCell(a, b, c, g)
<1>1. c[1] \in 0..M /\ c[2] \in 0..N
  BY CellsBefore
<1>2. CASE c[1] = 0 \/ c[2] = 0
  BY <1>2 DEF LcsCell
<1>3. CASE ~(c[1] = 0 \/ c[2] = 0)
  <2>1. c[1] > 0 /\ c[2] > 0
    BY <1>1, <1>3
  <2>2. f[<<c[1] - 1, c[2] - 1>>] = g[<<c[1] - 1, c[2] - 1>>]
    BY <2>1, CellsBefore
  <2>3. f[<<c[1] - 1, c[2]>>] = g[<<c[1] - 1, c[2]>>]
    BY <2>1, CellsBefore
  <2>4. f[<<c[1], c[2] - 1>>] = g[<<c[1], c[2] - 1>>]
    BY <2>1, CellsBefore
  <2>5. QED
    BY <2>2, <2>3, <2>4 DEF LcsCell
<1>4. QED
  BY <1>2, <1>3

LEMMA LcsIsNumber ==
  ASSUME NEW a, NEW b, NEW M \in Nat, NEW N \in Nat, NEW c \in Grid(M, N), NEW f,
         \A d \in Grid(M, N) : Less(d, c) => f[d] \in Nat
  PROVE  LcsCell(a, b, c, f) \in Nat
<1>1. c[1] \in 0..M /\ c[2] \in 0..N
  BY CellsBefore
<1>2. CASE c[1] = 0 \/ c[2] = 0
  BY <1>2 DEF LcsCell
<1>3. CASE ~(c[1] = 0 \/ c[2] = 0)
  <2>1. c[1] > 0 /\ c[2] > 0
    BY <1>1, <1>3
  <2>2. f[<<c[1] - 1, c[2] - 1>>] \in Nat
    BY <2>1, CellsBefore
  <2>3. f[<<c[1] - 1, c[2]>>] \in Nat
    BY <2>1, CellsBefore
  <2>4. f[<<c[1], c[2] - 1>>] \in Nat
    BY <2>1, CellsBefore
  <2>5. QED
    BY <2>2, <2>3, <2>4 DEF LcsCell, Texts!Larger
<1>4. QED
  BY <1>2, <1>3

\* The table computeLCS fills.
LEMMA LcsIs ==
  ASSUME NEW a, NEW b, Len(a) \in Nat, Len(b) \in Nat
  PROVE  LcsTable(a, b, Texts!computeLCS(a, b))
<1> DEFINE M == Len(a)
           N == Len(b)
           step == [x \in Grid(M, N) \X [Grid(M, N) -> Nat] |-> LcsCell(a, b, x[1], x[2])]
<1>1. \A c \in Grid(M, N), f \in [Grid(M, N) -> Nat] : LcsCell(a, b, c, f) \in Nat
  BY LcsIsNumber
<1>2. step \in [Grid(M, N) \X [Grid(M, N) -> Nat] -> Nat]
  BY <1>1
<1>3. \A c \in Grid(M, N), f \in [Grid(M, N) -> Nat] : step[<<c, f>>] = LcsCell(a, b, c, f)
  OBVIOUS
<1>4. Local(M, N, Nat, step)
  <2>1. ASSUME NEW c \in Grid(M, N), NEW f \in [Grid(M, N) -> Nat], NEW g \in [Grid(M, N) -> Nat],
               \A d \in Grid(M, N) : Less(d, c) => f[d] = g[d]
        PROVE  step[<<c, f>>] = step[<<c, g>>]
    <3>1. LcsCell(a, b, c, f) = LcsCell(a, b, c, g)
      BY <2>1, LcsIsLocal
    <3>2. QED
      BY <1>3, <3>1
  <2> HIDE DEF step
  <2>2. QED
    BY <2>1 DEF Local
<1> HIDE DEF step
<1>5. PICK f : IsTable(M, N, Nat, step, f)
  <2>1. M \in Nat /\ N \in Nat /\ 0 \in Nat
    OBVIOUS
  <2>2. StepFits(M, N, Nat, step)
    BY <1>2, <1>4 DEF StepFits
  <2> HIDE DEF M, N
  <2>3. QED
    BY <2>1, <2>2, TableExists
<1>6. f = [c \in Grid(M, N) |-> step[<<c, f>>]] /\ f \in [Grid(M, N) -> Nat]
  BY <1>5 DEF IsTable
<1>7. LcsTable(a, b, f)
  BY <1>3, <1>6 DEF LcsTable
<1>8. Texts!computeLCS(a, b) = CHOOSE g : LcsTable(a, b, g)
  BY DEF Texts!computeLCS, LcsTable, LcsCell, Grid, Texts!Cells
<1>9. QED
  BY <1>7, <1>8, Zenon

\* Each cell of the table.
LEMMA LcsCells ==
  ASSUME NEW a, NEW b, Len(a) \in Nat, Len(b) \in Nat, NEW f, LcsTable(a, b, f)
  PROVE  \A c \in Grid(Len(a), Len(b)) : f[c] \in Nat /\ f[c] = LcsCell(a, b, c, f)
<1> DEFINE G == Grid(Len(a), Len(b))
           P == {c \in G : f[c] \in Nat}
<1>1. \A c \in G : f[c] = LcsCell(a, b, c, f)
  BY DEF LcsTable
<1>2. ASSUME NEW c \in G, \A d \in G : Less(d, c) => d \in P PROVE c \in P
  <2>1. LcsCell(a, b, c, f) \in Nat
    BY <1>2, LcsIsNumber
  <2>2. QED
    BY <1>1, <2>1
<1>3. P \subseteq G
  OBVIOUS
<1> HIDE DEF P
<1>4. P = G
  BY <1>2, <1>3, CellByCell
<1>5. QED
  BY <1>1, <1>4 DEF P

Changes == [type : {"added", "removed"}, line : Nat]

\* One cell of the table of changes.
WalkCell(a, b, l, c, f) ==
  IF c[1] = 0 /\ c[2] = 0 THEN <<>>
  ELSE IF c[1] > 0 /\ c[2] > 0 /\ a[c[1]] = b[c[2]] THEN f[<<c[1] - 1, c[2] - 1>>]
  ELSE IF c[2] > 0 /\ (c[1] = 0 \/ l[<<c[1], c[2] - 1>>] >= l[<<c[1] - 1, c[2]>>])
       THEN Append(f[<<c[1], c[2] - 1>>], [type |-> "added", line |-> c[2]])
  ELSE Append(f[<<c[1] - 1, c[2]>>], [type |-> "removed", line |-> c[1]])
WalkTable(a, b, l, f) == f = [c \in Grid(Len(a), Len(b)) |-> WalkCell(a, b, l, c, f)]

\* The ways a cell may come about.
AtStart(c, v) == c[1] = 0 /\ c[2] = 0 /\ v = <<>>
ByMatch(a, b, c, f, v) ==
  c[1] > 0 /\ c[2] > 0 /\ a[c[1]] = b[c[2]] /\ v = f[<<c[1] - 1, c[2] - 1>>]
ByAdding(a, b, l, c, f, v) ==
  /\ c[2] > 0
  /\ c[1] = 0 \/ (c[1] > 0 /\ a[c[1]] # b[c[2]] /\ l[<<c[1], c[2] - 1>>] >= l[<<c[1] - 1, c[2]>>])
  /\ v = Append(f[<<c[1], c[2] - 1>>], [type |-> "added", line |-> c[2]])
ByRemoving(a, b, l, c, f, v) ==
  /\ c[1] > 0
  /\ c[2] = 0 \/ (c[2] > 0 /\ a[c[1]] # b[c[2]] /\ ~(l[<<c[1], c[2] - 1>>] >= l[<<c[1] - 1, c[2]>>]))
  /\ v = Append(f[<<c[1] - 1, c[2]>>], [type |-> "removed", line |-> c[1]])

LEMMA WalkCases ==
  ASSUME NEW a, NEW b, NEW l, NEW M \in Nat, NEW N \in Nat, NEW c \in Grid(M, N), NEW f,
         NEW v, v = WalkCell(a, b, l, c, f)
  PROVE  AtStart(c, v) \/ ByMatch(a, b, c, f, v) \/ ByAdding(a, b, l, c, f, v) \/ ByRemoving(a, b, l, c, f, v)
<1>1. c[1] \in Nat /\ c[2] \in Nat
  BY CellsBefore
<1>2. CASE c[1] = 0 /\ c[2] = 0
  BY <1>2 DEF AtStart, WalkCell
<1>3. CASE c[1] = 0 /\ c[2] # 0
  <2>1. c[2] > 0 /\ ~(c[1] > 0)
    BY <1>1, <1>3
  <2>2. v = Append(f[<<c[1], c[2] - 1>>], [type |-> "added", line |-> c[2]])
    BY <1>3, <2>1 DEF WalkCell
  <2>3. QED
    BY <1>3, <2>1, <2>2 DEF ByAdding
<1>4. CASE c[1] # 0 /\ c[2] = 0
  <2>1. c[1] > 0 /\ ~(c[2] > 0)
    BY <1>1, <1>4
  <2>2. v = Append(f[<<c[1] - 1, c[2]>>], [type |-> "removed", line |-> c[1]])
    BY <1>4, <2>1 DEF WalkCell
  <2>3. QED
    BY <1>4, <2>1, <2>2 DEF ByRemoving
<1>5. CASE c[1] # 0 /\ c[2] # 0
  <2>1. c[1] > 0 /\ c[2] > 0
    BY <1>1, <1>5
  <2>2. CASE a[c[1]] = b[c[2]]
    BY <1>5, <2>1, <2>2 DEF WalkCell, ByMatch
  <2>3. CASE a[c[1]] # b[c[2]] /\ l[<<c[1], c[2] - 1>>] >= l[<<c[1] - 1, c[2]>>]
    BY <1>5, <2>1, <2>3 DEF WalkCell, ByAdding
  <2>4. CASE a[c[1]] # b[c[2]] /\ ~(l[<<c[1], c[2] - 1>>] >= l[<<c[1] - 1, c[2]>>])
    BY <1>5, <2>1, <2>4 DEF WalkCell, ByRemoving
  <2>5. QED
    BY <2>2, <2>3, <2>4
<1>6. QED
  BY <1>2, <1>3, <1>4, <1>5

LEMMA WalkIsLocal ==
  ASSUME NEW a, NEW b, NEW l, NEW M \in Nat, NEW N \in Nat, NEW c \in Grid(M, N), NEW f, NEW g,
         \A d \in Grid(M, N) : Less(d, c) => f[d] = g[d]
  PROVE  WalkCell(a, b, l, c, f) = WalkCell(a, b, l, c, g)
<1>1. c[1] \in 0..M /\ c[2] \in 0..N
  BY CellsBefore
<1>2. c[1] > 0 /\ c[2] > 0 => f[<<c[1] - 1, c[2] - 1>>] = g[<<c[1] - 1, c[2] - 1>>]
  BY CellsBefore
<1>3. c[1] > 0 => f[<<c[1] - 1, c[2]>>] = g[<<c[1] - 1, c[2]>>]
  BY CellsBefore
<1>4. c[2] > 0 => f[<<c[1], c[2] - 1>>] = g[<<c[1], c[2] - 1>>]
  BY CellsBefore
<1>5. c[1] > 0 \/ c[1] = 0
  BY <1>1
<1>6. c[2] > 0 \/ c[2] = 0
  BY <1>1
<1>7. QED
  BY <1>2, <1>3, <1>4, <1>5, <1>6 DEF WalkCell

LEMMA WalkIsChanges ==
  ASSUME NEW a, NEW b, NEW l, NEW M \in Nat, NEW N \in Nat, NEW c \in Grid(M, N), NEW f,
         \A d \in Grid(M, N) : Less(d, c) => f[d] \in Seq(Changes)
  PROVE  WalkCell(a, b, l, c, f) \in Seq(Changes)
<1> SUFFICES ASSUME NEW v, v = WalkCell(a, b, l, c, f) PROVE v \in Seq(Changes)
  OBVIOUS
<1>1. c[1] \in Nat /\ c[2] \in Nat
  BY CellsBefore
<1>2. [type |-> "added", line |-> c[2]] \in Changes /\ [type |-> "removed", line |-> c[1]] \in Changes
  BY <1>1 DEF Changes
<1>3. CASE AtStart(c, v)
  BY <1>3 DEF AtStart
<1>4. CASE ByMatch(a, b, c, f, v)
  BY <1>4, CellsBefore DEF ByMatch
<1>5. CASE ByAdding(a, b, l, c, f, v)
  <2>1. f[<<c[1], c[2] - 1>>] \in Seq(Changes)
    BY <1>5, CellsBefore DEF ByAdding
  <2>2. QED
    BY <1>2, <1>5, <2>1 DEF ByAdding
<1>6. CASE ByRemoving(a, b, l, c, f, v)
  <2>1. f[<<c[1] - 1, c[2]>>] \in Seq(Changes)
    BY <1>6, CellsBefore DEF ByRemoving
  <2>2. QED
    BY <1>2, <1>6, <2>1 DEF ByRemoving
<1>7. QED
  BY <1>3, <1>4, <1>5, <1>6, WalkCases

\* The changes buildDiff finds, and how it comes to them.
LEMMA WalkIs ==
  ASSUME NEW a, NEW b, Len(a) \in Nat, Len(b) \in Nat, NEW l
  PROVE  \E w : WalkTable(a, b, l, w) /\ Texts!buildDiff(a, b, l) = w[<<Len(a), Len(b)>>]
<1> DEFINE M == Len(a)
           N == Len(b)
           S == Seq(Changes)
           step == [x \in Grid(M, N) \X [Grid(M, N) -> S] |-> WalkCell(a, b, l, x[1], x[2])]
<1>1. \A c \in Grid(M, N), f \in [Grid(M, N) -> S] : WalkCell(a, b, l, c, f) \in S
  BY WalkIsChanges
<1>2. step \in [Grid(M, N) \X [Grid(M, N) -> S] -> S]
  BY <1>1
<1>3. \A c \in Grid(M, N), f \in [Grid(M, N) -> S] : step[<<c, f>>] = WalkCell(a, b, l, c, f)
  OBVIOUS
<1>4. Local(M, N, S, step)
  <2>1. ASSUME NEW c \in Grid(M, N), NEW f \in [Grid(M, N) -> S], NEW g \in [Grid(M, N) -> S],
               \A d \in Grid(M, N) : Less(d, c) => f[d] = g[d]
        PROVE  step[<<c, f>>] = step[<<c, g>>]
    <3>1. WalkCell(a, b, l, c, f) = WalkCell(a, b, l, c, g)
      BY <2>1, WalkIsLocal
    <3>2. QED
      BY <1>3, <3>1
  <2> HIDE DEF step
  <2>2. QED
    BY <2>1 DEF Local
<1> HIDE DEF step
<1>5. PICK f : IsTable(M, N, S, step, f)
  <2>1. M \in Nat /\ N \in Nat /\ <<>> \in S
    OBVIOUS
  <2>2. StepFits(M, N, S, step)
    BY <1>2, <1>4 DEF StepFits
  <2> HIDE DEF M, N, S
  <2>3. QED
    BY <2>1, <2>2, TableExists
<1>6. f = [c \in Grid(M, N) |-> step[<<c, f>>]] /\ f \in [Grid(M, N) -> S]
  BY <1>5 DEF IsTable
<1>7. WalkTable(a, b, l, f)
  BY <1>3, <1>6 DEF WalkTable
<1> DEFINE w == CHOOSE g : WalkTable(a, b, l, g)
<1>8. WalkTable(a, b, l, w)
  BY <1>7, Zenon
<1>9. Texts!buildDiff(a, b, l) = w[<<Len(a), Len(b)>>]
  BY DEF Texts!buildDiff, WalkTable, WalkCell, Grid, Texts!Cells
<1>10. QED
  BY <1>8, <1>9

\* A change written behind others.
IsWritten(v, w, t, m) == v = Append(w, [type |-> t, line |-> m])

LEMMA Written ==
  ASSUME NEW w \in Seq(Changes), NEW t \in {"added", "removed"}, NEW m \in Nat, NEW v,
         IsWritten(v, w, t, m)
  PROVE  /\ v \in Seq(Changes) /\ Len(v) = Len(w) + 1 /\ v # <<>>
         /\ Texts!OfType(v, t) = Texts!OfType(w, t) \cup {Len(w) + 1}
         /\ Texts!Named(v, t) = Texts!Named(w, t) \cup {m}
         /\ \A u \in {"added", "removed"} \ {t} :
              Texts!OfType(v, u) = Texts!OfType(w, u) /\ Texts!Named(v, u) = Texts!Named(w, u)
         /\ \A k \in 1..Len(w) : v[k] = w[k]
         /\ v[Len(w) + 1].type = t /\ v[Len(w) + 1].line = m
<1> DEFINE h == [type |-> t, line |-> m]
<1>1. h \in Changes /\ h.type = t /\ h.line = m
  BY DEF Changes
<1> HIDE DEF h
<1>2. v = Append(w, h)
  BY DEF h, IsWritten
<1>3. /\ v \in Seq(Changes) /\ Len(v) = Len(w) + 1 /\ v # <<>> /\ Len(w) \in Nat
      /\ DOMAIN w = 1..Len(w) /\ DOMAIN v = 1..(Len(w) + 1)
      /\ \A k \in 1..Len(w) : v[k] = w[k]
      /\ v[Len(w) + 1] = h
  BY <1>1, <1>2
<1>4. Texts!OfType(v, t) = Texts!OfType(w, t) \cup {Len(w) + 1}
  BY <1>1, <1>3 DEF Texts!OfType
<1>5. \A u \in {"added", "removed"} \ {t} : Texts!OfType(v, u) = Texts!OfType(w, u)
  BY <1>1, <1>3 DEF Texts!OfType
<1>6. \A u : \A k \in Texts!OfType(w, u) : v[k] = w[k] /\ k \in 1..Len(w)
  BY <1>3 DEF Texts!OfType
<1>7. Texts!Named(v, t) = Texts!Named(w, t) \cup {m}
  BY <1>1, <1>3, <1>4, <1>6 DEF Texts!Named
<1>8. \A u \in {"added", "removed"} \ {t} : Texts!Named(v, u) = Texts!Named(w, u)
  BY <1>5, <1>6 DEF Texts!Named
<1>9. QED
  BY <1>1, <1>3, <1>4, <1>5, <1>7, <1>8

\* The changes are named in the order of their texts, of which i and j lines are looked at.
Ordered(w, i, j) ==
  /\ Texts!Named(w, "removed") \subseteq 1..i /\ Texts!Named(w, "added") \subseteq 1..j
  /\ \A k, m \in 1..Len(w) : k < m /\ w[k].type = w[m].type => w[k].line < w[m].line

\* They are counted: n lines of both texts are in no change.
Counted(w, i, j, n) ==
  /\ Cardinality(Texts!OfType(w, "removed")) = i - n
  /\ Cardinality(Texts!OfType(w, "added")) = j - n
  /\ Len(w) = (i - n) + (j - n)

LEMMA OrderedOn ==
  ASSUME NEW w \in Seq(Changes), NEW t \in {"added", "removed"}, NEW i \in Nat, NEW j \in Nat, Ordered(w, i, j),
         NEW x \in Nat, NEW y \in Nat, i <= x, j <= y,
         NEW m \in Nat, t = "added" => m > j /\ m <= y, t = "removed" => m > i /\ m <= x,
         NEW v, IsWritten(v, w, t, m)
  PROVE  Ordered(v, x, y)
<1>1. Len(w) \in Nat
  OBVIOUS
<1>2. /\ Len(v) = Len(w) + 1
      /\ Texts!Named(v, t) = Texts!Named(w, t) \cup {m}
      /\ \A u \in {"added", "removed"} \ {t} : Texts!Named(v, u) = Texts!Named(w, u)
      /\ \A k \in 1..Len(w) : v[k] = w[k]
      /\ v[Len(w) + 1].type = t /\ v[Len(w) + 1].line = m
  BY Written
<1>3. Texts!Named(w, "removed") \subseteq 1..i /\ Texts!Named(w, "added") \subseteq 1..j
  BY DEF Ordered
<1>4. 1..i \subseteq 1..x /\ 1..j \subseteq 1..y
  OBVIOUS
<1>5. Texts!Named(v, "removed") \subseteq 1..x
  <2>1. CASE t = "added"
    BY <2>1, <1>2, <1>3, <1>4
  <2>2. CASE t = "removed"
    <3>1. m \in 1..x
      BY <2>2
    <3>2. QED
      BY <2>2, <3>1, <1>2, <1>3, <1>4
  <2>3. QED
    BY <2>1, <2>2
<1>6. Texts!Named(v, "added") \subseteq 1..y
  <2>1. CASE t = "removed"
    BY <2>1, <1>2, <1>3, <1>4
  <2>2. CASE t = "added"
    <3>1. m \in 1..y
      BY <2>2
    <3>2. QED
      BY <2>2, <3>1, <1>2, <1>3, <1>4
  <2>3. QED
    BY <2>1, <2>2
<1>7. ASSUME NEW k \in 1..Len(v), NEW h \in 1..Len(v), k < h, v[k].type = v[h].type
      PROVE  v[k].line < v[h].line
  <2>1. CASE h \in 1..Len(w)
    <3>1. k \in 1..Len(w)
      BY <1>1, <1>2, <1>7, <2>1
    <3>2. QED
      BY <1>1, <1>2, <1>7, <2>1, <3>1 DEF Ordered
  <2>2. CASE h = Len(w) + 1
    <3>1. k \in 1..Len(w)
      BY <1>1, <1>2, <1>7, <2>2
    <3>2. v[k] = w[k] /\ v[h].type = t /\ v[h].line = m /\ w[k].type = t
      BY <1>1, <1>2, <1>7, <2>2, <3>1
    <3>3. w[k].line \in Texts!Named(w, t)
      BY <3>1, <3>2 DEF Texts!Named, Texts!OfType
    <3>4. CASE t = "added"
      <4>1. w[k].line \in 1..j
        BY <1>3, <3>3, <3>4
      <4>2. QED
        BY <3>2, <3>4, <4>1
    <3>5. CASE t = "removed"
      <4>1. w[k].line \in 1..i
        BY <1>3, <3>3, <3>5
      <4>2. QED
        BY <3>2, <3>5, <4>1
    <3>6. QED
      BY <3>4, <3>5
  <2>3. QED
    BY <1>1, <1>2, <1>7, <2>1, <2>2
<1>8. QED
  BY <1>5, <1>6, <1>7 DEF Ordered

LEMMA CountedOn ==
  ASSUME NEW w \in Seq(Changes), NEW t \in {"added", "removed"}, NEW m \in Nat,
         NEW i \in Nat, NEW j \in Nat, NEW n \in Nat, Counted(w, i, j, n),
         NEW v, IsWritten(v, w, t, m)
  PROVE  /\ t = "added" => Counted(v, i, j + 1, n)
         /\ t = "removed" => Counted(v, i + 1, j, n)
<1>1. Len(w) \in Nat
  OBVIOUS
<1>2. /\ Len(v) = Len(w) + 1
      /\ Texts!OfType(v, t) = Texts!OfType(w, t) \cup {Len(w) + 1}
      /\ \A u \in {"added", "removed"} \ {t} : Texts!OfType(v, u) = Texts!OfType(w, u)
  BY Written
<1>3. Texts!OfType(w, t) \subseteq 1..Len(w)
  BY DEF Texts!OfType
<1>4. IsFiniteSet(Texts!OfType(w, t))
  <2>1. IsFiniteSet(1..Len(w))
    BY <1>1, FS_Interval
  <2>2. QED
    BY <1>3, <2>1, FS_Subset
<1>5. Len(w) + 1 \notin Texts!OfType(w, t)
  BY <1>1, <1>2, <1>3
<1>6. Cardinality(Texts!OfType(v, t)) = Cardinality(Texts!OfType(w, t)) + 1
  BY <1>1, <1>2, <1>4, <1>5, FS_AddElement
<1>7. CASE t = "added"
  <2>1. Texts!OfType(v, "removed") = Texts!OfType(w, "removed")
    BY <1>2, <1>7
  <2>2. Cardinality(Texts!OfType(v, "added")) = Cardinality(Texts!OfType(w, "added")) + 1
    BY <1>6, <1>7
  <2>3. /\ Cardinality(Texts!OfType(v, "removed")) = i - n
        /\ Cardinality(Texts!OfType(v, "added")) = (j + 1) - n
        /\ Len(v) = (i - n) + ((j + 1) - n)
    BY <1>1, <1>2, <2>1, <2>2 DEF Counted
  <2>4. Counted(v, i, j + 1, n)
    BY <2>3 DEF Counted
  <2>5. QED
    BY <1>7, <2>4
<1>8. CASE t = "removed"
  <2>1. Texts!OfType(v, "added") = Texts!OfType(w, "added")
    BY <1>2, <1>8
  <2>2. Cardinality(Texts!OfType(v, "removed")) = Cardinality(Texts!OfType(w, "removed")) + 1
    BY <1>6, <1>8
  <2>3. /\ Cardinality(Texts!OfType(v, "removed")) = (i + 1) - n
        /\ Cardinality(Texts!OfType(v, "added")) = j - n
        /\ Len(v) = ((i + 1) - n) + (j - n)
    BY <1>1, <1>2, <2>1, <2>2 DEF Counted
  <2>4. Counted(v, i + 1, j, n)
    BY <2>3 DEF Counted
  <2>5. QED
    BY <1>8, <2>4
<1>9. QED
  BY <1>7, <1>8

\* n of i lines and n of j lines that read alike.
Common(a, b, n, i, j) == \E p \in Texts!Picks(n, i), q \in Texts!Picks(n, j) : Texts!ReadAlike(a, p, b, q)

\* The lines that no change names: n of i and n of j, and they read alike.
Kept(a, b, n, i, j, w) ==
  \E p \in Texts!Picks(n, i), q \in Texts!Picks(n, j) :
     /\ {p[k] : k \in 1..n} = (1..i) \ Texts!Named(w, "removed")
     /\ {q[k] : k \in 1..n} = (1..j) \ Texts!Named(w, "added")
     /\ Texts!ReadAlike(a, p, b, q)

LEMMA PicksWiden ==
  ASSUME NEW n \in Nat, NEW i \in Nat, NEW j \in Nat, i <= j
  PROVE  Texts!Picks(n, i) \subseteq Texts!Picks(n, j)
<1>1. 1..i \subseteq 1..j
  OBVIOUS
<1>2. QED
  BY <1>1 DEF Texts!Picks

\* A pick whose last line stands within a shorter text is a pick of that.
LEMMA PickWithin ==
  ASSUME NEW n \in Nat \ {0}, NEW i \in Nat, NEW p \in Texts!Picks(n, i), NEW j \in Nat, p[n] <= j
  PROVE  p \in Texts!Picks(n, j)
<1>1. p \in [1..n -> 1..i] /\ (\A k, l \in 1..n : k < l => p[k] < p[l])
  BY DEF Texts!Picks
<1>2. n \in 1..n /\ p[n] \in 1..i
  BY <1>1
<1>3. \A k \in 1..n : k = n \/ k < n
  OBVIOUS
<1>4. \A k \in 1..n : p[k] \in 1..i /\ (p[k] < p[n] \/ p[k] = p[n])
  BY <1>1, <1>2, <1>3
<1>5. \A k \in 1..n : p[k] \in 1..j
  BY <1>2, <1>4
<1>6. QED
  BY <1>1, <1>5 DEF Texts!Picks

\* A pick without its last line.
LEMMA PickLess ==
  ASSUME NEW n \in Nat \ {0}, NEW i \in Nat, NEW p \in Texts!Picks(n, i), NEW j \in Nat, p[n] <= j + 1
  PROVE  [k \in 1..(n - 1) |-> p[k]] \in Texts!Picks(n - 1, j)
<1>1. p \in [1..n -> 1..i] /\ (\A k, l \in 1..n : k < l => p[k] < p[l])
  BY DEF Texts!Picks
<1>2. n \in 1..n
  OBVIOUS
<1>3. \A k \in 1..(n - 1) : k \in 1..n /\ k < n
  OBVIOUS
<1>4. \A k \in 1..(n - 1) : p[k] \in 1..i /\ p[k] < p[n]
  BY <1>1, <1>2, <1>3
<1>5. p[n] \in 1..i
  BY <1>1, <1>2
<1>6. \A k \in 1..(n - 1) : p[k] \in 1..j
  BY <1>4, <1>5
<1> DEFINE r == [k \in 1..(n - 1) |-> p[k]]
<1>7. r \in [1..(n - 1) -> 1..j]
  BY <1>6
<1>8. \A k, l \in 1..(n - 1) : k < l => r[k] < r[l]
  BY <1>1, <1>3
<1>9. QED
  BY <1>7, <1>8 DEF Texts!Picks

\* A pick with one line more behind it.
LEMMA PickMore ==
  ASSUME NEW n \in Nat, NEW i \in Nat, NEW p \in Texts!Picks(n, i)
  PROVE  LET r == [k \in 1..(n + 1) |-> IF k = n + 1 THEN i + 1 ELSE p[k]] IN
         /\ r \in Texts!Picks(n + 1, i + 1)
         /\ {r[k] : k \in 1..(n + 1)} = {p[k] : k \in 1..n} \cup {i + 1}
         /\ r[n + 1] = i + 1 /\ \A k \in 1..n : r[k] = p[k]
<1> DEFINE r == [k \in 1..(n + 1) |-> IF k = n + 1 THEN i + 1 ELSE p[k]]
<1>1. p \in [1..n -> 1..i] /\ (\A k, l \in 1..n : k < l => p[k] < p[l])
  BY DEF Texts!Picks
<1>2. \A k \in 1..(n + 1) : k = n + 1 \/ k \in 1..n
  OBVIOUS
<1>3. \A k \in 1..n : k \in 1..(n + 1) /\ k # n + 1
  OBVIOUS
<1>4. n + 1 \in 1..(n + 1) /\ i + 1 \in 1..(i + 1)
  OBVIOUS
<1>5. \A k \in 1..n : p[k] \in 1..(i + 1) /\ p[k] < i + 1
  BY <1>1
<1>6. r[n + 1] = i + 1 /\ \A k \in 1..n : r[k] = p[k]
  BY <1>3, <1>4
<1>7. r \in [1..(n + 1) -> 1..(i + 1)]
  BY <1>2, <1>4, <1>5
<1> HIDE DEF r
<1>8. ASSUME NEW k \in 1..(n + 1), NEW l \in 1..(n + 1), k < l PROVE r[k] < r[l]
  <2>1. k \in 1..n
    BY <1>8
  <2>2. CASE l = n + 1
    BY <2>1, <2>2, <1>5, <1>6
  <2>3. CASE l \in 1..n
    BY <2>1, <2>3, <1>1, <1>6, <1>8
  <2>4. QED
    BY <1>2, <2>2, <2>3
<1>9. r \in Texts!Picks(n + 1, i + 1)
  BY <1>7, <1>8 DEF Texts!Picks
<1>10. {r[k] : k \in 1..(n + 1)} = {p[k] : k \in 1..n} \cup {i + 1}
  BY <1>2, <1>3, <1>4, <1>6
<1>11. QED
  BY <1>6, <1>9, <1>10 DEF r

\* No more lines are common to two texts than the table tells.
LEMMA NoneLonger ==
  ASSUME NEW a, NEW b, Len(a) \in Nat, Len(b) \in Nat, NEW f, LcsTable(a, b, f)
  PROVE  \A c \in Grid(Len(a), Len(b)) : \A n \in Nat : Common(a, b, n, c[1], c[2]) => n <= f[c]
<1> DEFINE G == Grid(Len(a), Len(b))
           P == {c \in G : \A n \in Nat : Common(a, b, n, c[1], c[2]) => n <= f[c]}
<1>1. \A c \in G : f[c] \in Nat /\ f[c] = LcsCell(a, b, c, f)
  BY LcsCells
<1>2. ASSUME NEW c \in G, \A d \in G : Less(d, c) => d \in P PROVE c \in P
  <2>1. c[1] \in Nat /\ c[2] \in Nat
    BY CellsBefore
  <2>2. ASSUME NEW n \in Nat, Common(a, b, n, c[1], c[2]) PROVE n <= f[c]
    <3>1. PICK p \in Texts!Picks(n, c[1]), q \in Texts!Picks(n, c[2]) : Texts!ReadAlike(a, p, b, q)
      BY <2>2 DEF Common
    <3>2. p \in [1..n -> 1..c[1]] /\ q \in [1..n -> 1..c[2]]
      BY DEF Texts!Picks
    <3>3. CASE n = 0
      BY <1>1, <3>3
    <3>4. CASE n # 0
      <4>1. n \in 1..n /\ n - 1 \in Nat /\ n \in Nat \ {0}
        BY <3>4
      <4>2. p[n] \in 1..c[1] /\ q[n] \in 1..c[2]
        BY <3>2, <4>1
      <4>3. c[1] > 0 /\ c[2] > 0 /\ c[1] - 1 \in Nat /\ c[2] - 1 \in Nat /\ ~(c[1] = 0 \/ c[2] = 0)
        BY <2>1, <4>2
      <4>4. a[p[n]] = b[q[n]]
        BY <3>1, <3>2, <4>1 DEF Texts!ReadAlike
      <4>5. CASE a[c[1]] = b[c[2]]
        <5> DEFINE d == <<c[1] - 1, c[2] - 1>>
                   pp == [k \in 1..(n - 1) |-> p[k]]
                   qq == [k \in 1..(n - 1) |-> q[k]]
        <5>1. d \in G /\ d \in P
          BY <1>2, <4>3, CellsBefore
        <5>2. p[n] <= (c[1] - 1) + 1 /\ q[n] <= (c[2] - 1) + 1
          BY <2>1, <4>2
        <5>3. pp \in Texts!Picks(n - 1, c[1] - 1) /\ qq \in Texts!Picks(n - 1, c[2] - 1)
          BY <2>1, <4>1, <4>3, <5>2, PickLess
        <5>4. \A k \in 1..(n - 1) : k \in 1..n
          BY <4>1
        <5>5. Texts!ReadAlike(a, pp, b, qq)
          BY <3>1, <3>2, <5>4 DEF Texts!ReadAlike
        <5>6. Common(a, b, n - 1, c[1] - 1, c[2] - 1)
          BY <5>3, <5>5 DEF Common
        <5>7. n - 1 <= f[d]
          BY <4>1, <5>1, <5>6
        <5>8. f[c] = f[d] + 1
          BY <1>1, <4>3, <4>5 DEF LcsCell
        <5>9. f[d] \in Nat
          BY <1>1, <5>1
        <5>10. QED
          BY <5>7, <5>8, <5>9
      <4>6. CASE a[c[1]] # b[c[2]]
        <5> DEFINE d == <<c[1] - 1, c[2]>>
                   e == <<c[1], c[2] - 1>>
        <5>1. d \in G /\ d \in P /\ e \in G /\ e \in P
          BY <1>2, <4>3, CellsBefore
        <5>2. f[d] \in Nat /\ f[e] \in Nat /\ f[c] = Texts!Larger(f[d], f[e])
          BY <1>1, <4>3, <4>6, <5>1 DEF LcsCell
        <5>3. f[c] >= f[d] /\ f[c] >= f[e]
          BY <5>2 DEF Texts!Larger
        <5>4. p[n] # c[1] \/ q[n] # c[2]
          BY <4>4, <4>6
        <5>5. CASE p[n] # c[1]
          <6>1. p[n] <= c[1] - 1
            BY <2>1, <4>2, <5>5
          <6>2. p \in Texts!Picks(n, c[1] - 1)
            BY <2>1, <4>1, <4>3, <6>1, PickWithin
          <6>3. Common(a, b, n, c[1] - 1, c[2])
            BY <3>1, <6>2 DEF Common
          <6>4. n <= f[d]
            BY <5>1, <6>3
          <6>5. QED
            BY <1>1, <5>2, <5>3, <6>4
        <5>6. CASE q[n] # c[2]
          <6>1. q[n] <= c[2] - 1
            BY <2>1, <4>2, <5>6
          <6>2. q \in Texts!Picks(n, c[2] - 1)
            BY <2>1, <4>1, <4>3, <6>1, PickWithin
          <6>3. Common(a, b, n, c[1], c[2] - 1)
            BY <3>1, <6>2 DEF Common
          <6>4. n <= f[e]
            BY <5>1, <6>3
          <6>5. QED
            BY <1>1, <5>2, <5>3, <6>4
        <5>7. QED
          BY <5>4, <5>5, <5>6
      <4>7. QED
        BY <4>5, <4>6
    <3>5. QED
      BY <3>3, <3>4
  <2>3. QED
    BY <2>2
<1>3. P \subseteq G
  OBVIOUS
<1> HIDE DEF P
<1>4. P = G
  BY <1>2, <1>3, CellByCell
<1>5. QED
  BY <1>4 DEF P

\* What the changes w between i lines of a and j lines of b tell, of which n are common.
Explained(a, b, i, j, n, w) ==
  /\ w \in Seq(Changes) /\ n \in Nat
  /\ Kept(a, b, n, i, j, w) /\ Ordered(w, i, j) /\ Counted(w, i, j, n)
  /\ w = <<>> => i = j /\ \A k \in 1..i : a[k] = b[k]

LEMMA StartExplains == ASSUME NEW a, NEW b PROVE Explained(a, b, 0, 0, 0, <<>>)
<1> DEFINE p == [k \in 1..0 |-> k]
<1>1. 1..0 = {}
  OBVIOUS
<1>2. p \in Texts!Picks(0, 0) /\ {p[k] : k \in 1..0} = {} /\ Texts!ReadAlike(a, p, b, p)
  BY <1>1 DEF Texts!Picks, Texts!ReadAlike
<1>3. \A t : Texts!OfType(<<>>, t) = {} /\ Texts!Named(<<>>, t) = {}
  BY DEF Texts!OfType, Texts!Named
<1> HIDE DEF p
<1>4. Kept(a, b, 0, 0, 0, <<>>)
  BY <1>1, <1>2, <1>3 DEF Kept
<1>5. Ordered(<<>>, 0, 0)
  BY <1>3 DEF Ordered
<1>6. Counted(<<>>, 0, 0, 0)
  BY <1>3, FS_EmptySet DEF Counted
<1>7. QED
  BY <1>1, <1>4, <1>5, <1>6 DEF Explained

LEMMA LeftAndOne ==
  ASSUME NEW I, NEW R, R \subseteq I, NEW x, x \notin I, NEW J, J = I \cup {x}
  PROVE  (I \ R) \cup {x} = J \ R
OBVIOUS

LEMMA MatchExplains ==
  ASSUME NEW a, NEW b, NEW i \in Nat, NEW j \in Nat, NEW n, NEW w, Explained(a, b, i, j, n, w),
         a[i + 1] = b[j + 1]
  PROVE  Explained(a, b, i + 1, j + 1, n + 1, w)
<1>1. /\ w \in Seq(Changes) /\ n \in Nat /\ Kept(a, b, n, i, j, w) /\ Ordered(w, i, j) /\ Counted(w, i, j, n)
      /\ w = <<>> => i = j /\ \A k \in 1..i : a[k] = b[k]
  BY DEF Explained
<1>2. PICK p \in Texts!Picks(n, i), q \in Texts!Picks(n, j) :
        /\ {p[k] : k \in 1..n} = (1..i) \ Texts!Named(w, "removed")
        /\ {q[k] : k \in 1..n} = (1..j) \ Texts!Named(w, "added")
        /\ Texts!ReadAlike(a, p, b, q)
  BY <1>1 DEF Kept
<1> DEFINE pp == [k \in 1..(n + 1) |-> IF k = n + 1 THEN i + 1 ELSE p[k]]
           qq == [k \in 1..(n + 1) |-> IF k = n + 1 THEN j + 1 ELSE q[k]]
<1>3. /\ pp \in Texts!Picks(n + 1, i + 1)
      /\ {pp[k] : k \in 1..(n + 1)} = {p[k] : k \in 1..n} \cup {i + 1}
      /\ pp[n + 1] = i + 1 /\ \A k \in 1..n : pp[k] = p[k]
  BY <1>1, PickMore
<1>4. /\ qq \in Texts!Picks(n + 1, j + 1)
      /\ {qq[k] : k \in 1..(n + 1)} = {q[k] : k \in 1..n} \cup {j + 1}
      /\ qq[n + 1] = j + 1 /\ \A k \in 1..n : qq[k] = q[k]
  BY <1>1, PickMore
<1>5. DOMAIN pp = 1..(n + 1) /\ DOMAIN p = 1..n
  BY DEF Texts!Picks
<1> HIDE DEF pp, qq
<1>6. Texts!ReadAlike(a, pp, b, qq)
  <2>1. \A k \in 1..(n + 1) : k = n + 1 \/ k \in 1..n
    BY <1>1
  <2>2. \A k \in 1..n : a[p[k]] = b[q[k]]
    BY <1>2, <1>5 DEF Texts!ReadAlike
  <2>3. QED
    BY <1>3, <1>4, <1>5, <2>1, <2>2 DEF Texts!ReadAlike
<1>7. Texts!Named(w, "removed") \subseteq 1..i /\ Texts!Named(w, "added") \subseteq 1..j
  BY <1>1 DEF Ordered
<1>8. /\ 1..(i + 1) = (1..i) \cup {i + 1} /\ i + 1 \notin 1..i
      /\ 1..(j + 1) = (1..j) \cup {j + 1} /\ j + 1 \notin 1..j
  OBVIOUS
<1>9. /\ {pp[k] : k \in 1..(n + 1)} = (1..(i + 1)) \ Texts!Named(w, "removed")
      /\ {qq[k] : k \in 1..(n + 1)} = (1..(j + 1)) \ Texts!Named(w, "added")
  <2>1. ((1..i) \ Texts!Named(w, "removed")) \cup {i + 1} = (1..(i + 1)) \ Texts!Named(w, "removed")
    BY <1>7, <1>8, LeftAndOne
  <2>2. ((1..j) \ Texts!Named(w, "added")) \cup {j + 1} = (1..(j + 1)) \ Texts!Named(w, "added")
    BY <1>7, <1>8, LeftAndOne
  <2>3. QED
    BY <1>2, <1>3, <1>4, <2>1, <2>2
<1>10. Kept(a, b, n + 1, i + 1, j + 1, w)
  BY <1>3, <1>4, <1>6, <1>9 DEF Kept
<1>11. Ordered(w, i + 1, j + 1)
  BY <1>1, <1>8 DEF Ordered
<1>12. (i + 1) - (n + 1) = i - n /\ (j + 1) - (n + 1) = j - n
  BY <1>1
<1>13. Counted(w, i + 1, j + 1, n + 1)
  BY <1>1, <1>12 DEF Counted
<1>14. w = <<>> => i + 1 = j + 1 /\ \A k \in 1..(i + 1) : a[k] = b[k]
  BY <1>1, <1>8
<1>15. QED
  BY <1>1, <1>10, <1>11, <1>13, <1>14 DEF Explained

LEMMA AddExplains ==
  ASSUME NEW a, NEW b, NEW i \in Nat, NEW j \in Nat, NEW n, NEW w, Explained(a, b, i, j, n, w),
         NEW v, IsWritten(v, w, "added", j + 1)
  PROVE  Explained(a, b, i, j + 1, n, v)
<1>1. /\ w \in Seq(Changes) /\ n \in Nat /\ Kept(a, b, n, i, j, w) /\ Ordered(w, i, j) /\ Counted(w, i, j, n)
  BY DEF Explained
<1>2. PICK p \in Texts!Picks(n, i), q \in Texts!Picks(n, j) :
        /\ {p[k] : k \in 1..n} = (1..i) \ Texts!Named(w, "removed")
        /\ {q[k] : k \in 1..n} = (1..j) \ Texts!Named(w, "added")
        /\ Texts!ReadAlike(a, p, b, q)
  BY <1>1 DEF Kept
<1>3. j + 1 \in Nat /\ j <= j + 1 /\ i <= i /\ j + 1 > j /\ j + 1 <= j + 1
  OBVIOUS
<1>4. /\ v \in Seq(Changes) /\ v # <<>>
      /\ Texts!Named(v, "added") = Texts!Named(w, "added") \cup {j + 1}
      /\ Texts!Named(v, "removed") = Texts!Named(w, "removed")
  BY <1>1, <1>3, Written
<1>5. q \in Texts!Picks(n, j + 1)
  BY <1>1, <1>3, PicksWiden
<1>6. 1..(j + 1) = (1..j) \cup {j + 1} /\ j + 1 \notin 1..j
  OBVIOUS
<1>7. {q[k] : k \in 1..n} = (1..(j + 1)) \ Texts!Named(v, "added")
  BY <1>2, <1>4, <1>6
<1>8. Kept(a, b, n, i, j + 1, v)
  BY <1>2, <1>4, <1>5, <1>7 DEF Kept
<1>9. Ordered(v, i, j + 1)
  BY <1>1, <1>3, OrderedOn
<1>10. Counted(v, i, j + 1, n)
  BY <1>1, <1>3, CountedOn
<1>11. QED
  BY <1>1, <1>4, <1>8, <1>9, <1>10 DEF Explained

LEMMA RemoveExplains ==
  ASSUME NEW a, NEW b, NEW i \in Nat, NEW j \in Nat, NEW n, NEW w, Explained(a, b, i, j, n, w),
         NEW v, IsWritten(v, w, "removed", i + 1)
  PROVE  Explained(a, b, i + 1, j, n, v)
<1>1. /\ w \in Seq(Changes) /\ n \in Nat /\ Kept(a, b, n, i, j, w) /\ Ordered(w, i, j) /\ Counted(w, i, j, n)
  BY DEF Explained
<1>2. PICK p \in Texts!Picks(n, i), q \in Texts!Picks(n, j) :
        /\ {p[k] : k \in 1..n} = (1..i) \ Texts!Named(w, "removed")
        /\ {q[k] : k \in 1..n} = (1..j) \ Texts!Named(w, "added")
        /\ Texts!ReadAlike(a, p, b, q)
  BY <1>1 DEF Kept
<1>3. i + 1 \in Nat /\ i <= i + 1 /\ j <= j /\ i + 1 > i /\ i + 1 <= i + 1
  OBVIOUS
<1>4. /\ v \in Seq(Changes) /\ v # <<>>
      /\ Texts!Named(v, "removed") = Texts!Named(w, "removed") \cup {i + 1}
      /\ Texts!Named(v, "added") = Texts!Named(w, "added")
  BY <1>1, <1>3, Written
<1>5. p \in Texts!Picks(n, i + 1)
  BY <1>1, <1>3, PicksWiden
<1>6. 1..(i + 1) = (1..i) \cup {i + 1} /\ i + 1 \notin 1..i
  OBVIOUS
<1>7. {p[k] : k \in 1..n} = (1..(i + 1)) \ Texts!Named(v, "removed")
  BY <1>2, <1>4, <1>6
<1>8. Kept(a, b, n, i + 1, j, v)
  BY <1>2, <1>4, <1>5, <1>7 DEF Kept
<1>9. Ordered(v, i + 1, j)
  BY <1>1, <1>3, OrderedOn
<1>10. Counted(v, i + 1, j, n)
  BY <1>1, <1>3, CountedOn
<1>11. QED
  BY <1>1, <1>4, <1>8, <1>9, <1>10 DEF Explained

\* Each cell of the table of changes tells them truly.
LEMMA WalkExplains ==
  ASSUME NEW a, NEW b, Len(a) \in Nat, Len(b) \in Nat, NEW f, LcsTable(a, b, f),
         NEW w, WalkTable(a, b, f, w)
  PROVE  \A c \in Grid(Len(a), Len(b)) : Explained(a, b, c[1], c[2], f[c], w[c])
<1> DEFINE G == Grid(Len(a), Len(b))
           P == {c \in G : Explained(a, b, c[1], c[2], f[c], w[c])}
<1>1. \A c \in G : f[c] \in Nat /\ f[c] = LcsCell(a, b, c, f)
  BY LcsCells
<1>2. \A c \in G : w[c] = WalkCell(a, b, f, c, w)
  BY DEF WalkTable
<1>3. ASSUME NEW c \in G, \A d \in G : Less(d, c) => d \in P
      PROVE  Explained(a, b, c[1], c[2], f[c], w[c])
  <2>1. c[1] \in Nat /\ c[2] \in Nat
    BY CellsBefore
  <2>2. \A d \in G : Less(d, c) => Explained(a, b, d[1], d[2], f[d], w[d])
    BY <1>3
  <2> HIDE DEF P
  <2>3. CASE AtStart(c, w[c])
    <3>1. c[1] = 0 /\ c[2] = 0 /\ w[c] = <<>>
      BY <2>3 DEF AtStart
    <3>2. f[c] = 0
      BY <1>1, <3>1 DEF LcsCell
    <3>3. QED
      BY <3>1, <3>2, StartExplains
  <2>4. CASE ByMatch(a, b, c, w, w[c])
    <3> DEFINE d == <<c[1] - 1, c[2] - 1>>
    <3>1. c[1] > 0 /\ c[2] > 0 /\ a[c[1]] = b[c[2]] /\ w[c] = w[d]
      BY <2>4 DEF ByMatch
    <3>2. d \in G /\ Less(d, c)
      BY <3>1, CellsBefore
    <3>3. Explained(a, b, c[1] - 1, c[2] - 1, f[d], w[d])
      BY <2>2, <3>2
    <3>4. f[c] = f[d] + 1
      <4>1. ~(c[1] = 0 \/ c[2] = 0)
        BY <2>1, <3>1
      <4>2. QED
        BY <1>1, <3>1, <4>1 DEF LcsCell
    <3>5. c[1] - 1 \in Nat /\ c[2] - 1 \in Nat /\ (c[1] - 1) + 1 = c[1] /\ (c[2] - 1) + 1 = c[2]
      BY <2>1, <3>1
    <3> HIDE DEF d
    <3>6. Explained(a, b, (c[1] - 1) + 1, (c[2] - 1) + 1, f[d] + 1, w[d])
      BY <3>1, <3>3, <3>5, MatchExplains
    <3>7. QED
      BY <3>1, <3>4, <3>5, <3>6
  <2>5. CASE ByAdding(a, b, f, c, w, w[c])
    <3> DEFINE d == <<c[1], c[2] - 1>>
               e == <<c[1] - 1, c[2]>>
    <3>1. /\ c[2] > 0 /\ w[c] = Append(w[d], [type |-> "added", line |-> c[2]])
          /\ c[1] = 0 \/ (c[1] > 0 /\ a[c[1]] # b[c[2]] /\ f[d] >= f[e])
      BY <2>5 DEF ByAdding
    <3>2. d \in G /\ Less(d, c)
      BY <3>1, CellsBefore
    <3>3. Explained(a, b, c[1], c[2] - 1, f[d], w[d])
      BY <2>2, <3>2
    <3>4. f[c] = f[d]
      <4>1. CASE c[1] = 0
        <5>1. f[c] = 0
          BY <1>1, <4>1 DEF LcsCell
        <5>2. f[d] = 0
          BY <1>1, <3>2, <4>1 DEF LcsCell
        <5>3. QED
          BY <5>1, <5>2
      <4>2. CASE c[1] > 0 /\ a[c[1]] # b[c[2]] /\ f[d] >= f[e]
        <5>1. e \in G
          BY <4>2, CellsBefore
        <5>2. ~(c[1] = 0 \/ c[2] = 0)
          BY <2>1, <3>1, <4>2
        <5>3. f[c] = Texts!Larger(f[e], f[d])
          BY <1>1, <4>2, <5>2 DEF LcsCell
        <5>4. f[e] \in Nat /\ f[d] \in Nat
          BY <1>1, <3>2, <5>1
        <5> HIDE DEF d, e
        <5>5. QED
          BY <4>2, <5>3, <5>4 DEF Texts!Larger
      <4>3. QED
        BY <3>1, <4>1, <4>2
    <3>5. c[2] - 1 \in Nat /\ (c[2] - 1) + 1 = c[2]
      BY <2>1, <3>1
    <3> HIDE DEF d, e
    <3>6. IsWritten(w[c], w[d], "added", (c[2] - 1) + 1)
      BY <3>1, <3>5 DEF IsWritten
    <3>7. Explained(a, b, c[1], (c[2] - 1) + 1, f[d], w[c])
      BY <2>1, <3>3, <3>5, <3>6, AddExplains
    <3>8. QED
      BY <3>4, <3>5, <3>7
  <2>6. CASE ByRemoving(a, b, f, c, w, w[c])
    <3> DEFINE d == <<c[1], c[2] - 1>>
               e == <<c[1] - 1, c[2]>>
    <3>1. /\ c[1] > 0 /\ w[c] = Append(w[e], [type |-> "removed", line |-> c[1]])
          /\ c[2] = 0 \/ (c[2] > 0 /\ a[c[1]] # b[c[2]] /\ ~(f[d] >= f[e]))
      BY <2>6 DEF ByRemoving
    <3>2. e \in G /\ Less(e, c)
      BY <3>1, CellsBefore
    <3>3. Explained(a, b, c[1] - 1, c[2], f[e], w[e])
      BY <2>2, <3>2
    <3>4. f[c] = f[e]
      <4>1. CASE c[2] = 0
        <5>1. f[c] = 0
          BY <1>1, <4>1 DEF LcsCell
        <5>2. f[e] = 0
          BY <1>1, <3>2, <4>1 DEF LcsCell
        <5>3. QED
          BY <5>1, <5>2
      <4>2. CASE c[2] > 0 /\ a[c[1]] # b[c[2]] /\ ~(f[d] >= f[e])
        <5>1. d \in G
          BY <4>2, CellsBefore
        <5>2. ~(c[1] = 0 \/ c[2] = 0)
          BY <2>1, <3>1, <4>2
        <5>3. f[c] = Texts!Larger(f[e], f[d])
          BY <1>1, <4>2, <5>2 DEF LcsCell
        <5>4. f[e] \in Nat /\ f[d] \in Nat
          BY <1>1, <3>2, <5>1
        <5> HIDE DEF d, e
        <5>5. QED
          BY <4>2, <5>3, <5>4 DEF Texts!Larger
      <4>3. QED
        BY <3>1, <4>1, <4>2
    <3>5. c[1] - 1 \in Nat /\ (c[1] - 1) + 1 = c[1]
      BY <2>1, <3>1
    <3> HIDE DEF d, e
    <3>6. IsWritten(w[c], w[e], "removed", (c[1] - 1) + 1)
      BY <3>1, <3>5 DEF IsWritten
    <3>7. Explained(a, b, (c[1] - 1) + 1, c[2], f[e], w[c])
      BY <2>1, <3>3, <3>5, <3>6, RemoveExplains
    <3>8. QED
      BY <3>4, <3>5, <3>7
  <2>7. QED
    BY <1>2, <2>3, <2>4, <2>5, <2>6, WalkCases
<1>4. \A c \in G : (\A d \in G : Less(d, c) => d \in P) => c \in P
  BY <1>3
<1>5. P \subseteq G
  OBVIOUS
<1> HIDE DEF P
<1>6. P = G
  BY <1>4, <1>5, CellByCell
<1>7. QED
  BY <1>6 DEF P

TextInv == older \in Seq(Lines \cup {""}) \ {<<>>} /\ newer \in Seq(Lines \cup {""}) \ {<<>>}

LEMMA LastLine ==
  ASSUME NEW S, NEW t \in Seq(S) \ {<<>>}, NEW l \in S
  PROVE  /\ Append(t, l) \in Seq(S) \ {<<>>}
         /\ [t EXCEPT ![Len(t)] = l] \in Seq(S) \ {<<>>}
         /\ SubSeq(t, 1, Len(t) - 1) \in Seq(S)
<1>1. Len(t) \in Nat \ {0} /\ Len(t) \in 1..Len(t)
  BY EmptySeq
<1>2. Append(t, l) \in Seq(S) \ {<<>>}
  OBVIOUS
<1>3. [t EXCEPT ![Len(t)] = l] \in Seq(S) /\ Len([t EXCEPT ![Len(t)] = l]) = Len(t)
  BY <1>1, ExceptSeq
<1>4. [t EXCEPT ![Len(t)] = l] # <<>>
  BY <1>1, <1>3, EmptySeq
<1>5. SubSeq(t, 1, Len(t) - 1) \in Seq(S)
  BY <1>1, SubSeqProperties
<1>6. QED
  BY <1>2, <1>3, <1>4, <1>5

LEMMA OneLine == ASSUME NEW S, NEW l \in S PROVE <<l>> \in Seq(S) \ {<<>>}
OBVIOUS

LEMMA TextGrows ==
  ASSUME NEW t \in Seq(Lines \cup {""}) \ {<<>>}
  PROVE  /\ Texts!Break(t) \in Seq(Lines \cup {""}) \ {<<>>}
         /\ Texts!Fill(t) \subseteq Seq(Lines \cup {""}) \ {<<>>}
         /\ Texts!splitLines(t) \in Seq(Lines \cup {""})
<1>1. "" \in Lines \cup {""}
  BY Zenon
<1>2. Texts!Break(t) \in Seq(Lines \cup {""}) \ {<<>>}
  BY <1>1, LastLine, Zenon DEF Texts!Break
<1>3. ASSUME NEW l \in Lines PROVE [t EXCEPT ![Len(t)] = l] \in Seq(Lines \cup {""}) \ {<<>>}
  <2>1. l \in Lines \cup {""}
    OBVIOUS
  <2>2. QED
    BY <2>1, LastLine, Zenon
<1>4. Texts!splitLines(t) \in Seq(Lines \cup {""})
  <2>1. SubSeq(t, 1, Len(t) - 1) \in Seq(Lines \cup {""})
    BY <1>1, LastLine, Zenon
  <2>2. QED
    BY <2>1 DEF Texts!splitLines
<1>5. QED
  BY <1>2, <1>3, <1>4 DEF Texts!Fill

LEMMA InitTexts == ASSUME Texts!Init PROVE TextInv
<1>1. "" \in Lines \cup {""}
  BY Zenon
<1>2. <<"">> \in Seq(Lines \cup {""}) \ {<<>>}
  BY <1>1, OneLine, Zenon
<1>3. QED
  BY <1>2 DEF Texts!Init, TextInv

LEMMA InductiveTexts == ASSUME TextInv, [Texts!Next]_<<older, newer>> PROVE TextInv'
<1>1. CASE Texts!Next
  BY <1>1, TextGrows DEF TextInv, Texts!Next
<1>2. CASE UNCHANGED <<older, newer>>
  BY <1>2 DEF TextInv
<1>3. QED
  BY <1>1, <1>2

LEMMA TextHolds == ASSUME TextInv PROVE Texts!TypeOK /\ Texts!DifferenceIsExact
<1> DEFINE a == Texts!splitLines(older)
           b == Texts!splitLines(newer)
           f == Texts!computeLCS(a, b)
           v == Texts!buildDiff(a, b, f)
           n == f[<<Len(a), Len(b)>>]
           api == Texts!handleAPIDiff(older, newer)
           html == Texts!handleDiffFull(older, newer)
           T == Lines \cup {""}
<1>1. a \in Seq(T) /\ b \in Seq(T)
  BY TextGrows DEF TextInv
<1> HIDE DEF T
<1>2. /\ Len(a) \in Nat /\ Len(b) \in Nat /\ DOMAIN a = 1..Len(a) /\ DOMAIN b = 1..Len(b)
  BY <1>1
<1> HIDE DEF a, b
<1>3. LcsTable(a, b, f)
  BY <1>2, LcsIs
<1> HIDE DEF f
<1>4. PICK w : WalkTable(a, b, f, w) /\ v = w[<<Len(a), Len(b)>>]
  BY <1>2, WalkIs
<1>5. <<Len(a), Len(b)>> \in Grid(Len(a), Len(b))
  BY <1>2 DEF Grid
<1>6. Explained(a, b, Len(a), Len(b), n, v)
  <2> DEFINE c == <<Len(a), Len(b)>>
  <2>1. c[1] = Len(a) /\ c[2] = Len(b)
    OBVIOUS
  <2>2. Explained(a, b, c[1], c[2], f[c], w[c])
    BY <1>2, <1>3, <1>4, <1>5, WalkExplains
  <2>3. QED
    BY <1>4, <2>1, <2>2
<1>7. \A m \in Nat : Common(a, b, m, Len(a), Len(b)) => m <= n
  <2> DEFINE c == <<Len(a), Len(b)>>
  <2>1. c[1] = Len(a) /\ c[2] = Len(b)
    OBVIOUS
  <2>2. \A m \in Nat : Common(a, b, m, c[1], c[2]) => m <= f[c]
    BY <1>2, <1>3, <1>5, NoneLonger
  <2>3. QED
    BY <2>1, <2>2
<1>8. /\ v \in Seq(Changes) /\ n \in Nat /\ Kept(a, b, n, Len(a), Len(b), v)
      /\ Ordered(v, Len(a), Len(b)) /\ Counted(v, Len(a), Len(b), n)
      /\ v = <<>> => Len(a) = Len(b) /\ \A k \in 1..Len(a) : a[k] = b[k]
  BY <1>6 DEF Explained
<1> HIDE DEF n, v
<1>9. /\ html.lines = v /\ (html.unchanged <=> v = <<>>) /\ html = api.html
      /\ api.added = Cardinality(Texts!OfType(v, "added")) /\ api.removed = Cardinality(Texts!OfType(v, "removed"))
  <2> DEFINE diff == Texts!groupIntoSections(v)
  <2>1. diff = [added |-> Texts!OfType(v, "added"), removed |-> Texts!OfType(v, "removed"),
                sections |-> IF v = <<>> THEN <<>> ELSE <<v>>]
    BY DEF Texts!groupIntoSections
  <2>2. Texts!CompareDocuments(older, newer) = diff
    BY DEF Texts!CompareDocuments, a, b, f, v
  <2>3. html = Texts!ToHTML(diff)
    BY <2>2 DEF Texts!handleDiffFull
  <2>4. api = [added |-> Texts!Cardinality(diff.added), removed |-> Texts!Cardinality(diff.removed),
               html |-> Texts!ToHTML(diff)]
    BY <2>2 DEF Texts!handleAPIDiff
  <2>5. \A S : Texts!Cardinality(S) = Cardinality(S)
    BY DEF Texts!Cardinality, Cardinality
  <2>6. v = <<>> => Texts!OfType(v, "added") = {} /\ Texts!OfType(v, "removed") = {}
    BY DEF Texts!OfType
  <2> HIDE DEF diff, html, api
  <2>7. html.lines = (IF diff.sections # <<>> THEN Head(diff.sections) ELSE <<>>)
        /\ html.unchanged = (diff.sections = <<>> /\ diff.added = {} /\ diff.removed = {})
    BY <2>3 DEF Texts!ToHTML
  <2>8. html.lines = v /\ (html.unchanged <=> v = <<>>)
    <3>1. CASE v = <<>>
      <4>1. diff.sections = <<>> /\ diff.added = {} /\ diff.removed = {}
        BY <2>1, <2>6, <3>1
      <4>2. QED
        BY <2>7, <3>1, <4>1
    <3>2. CASE v # <<>>
      <4>1. diff.sections = <<v>>
        BY <2>1, <3>2
      <4>2. <<v>> # <<>> /\ Head(<<v>>) = v
        OBVIOUS
      <4>3. QED
        BY <2>7, <3>2, <4>1, <4>2
    <3>3. QED
      BY <3>1, <3>2
  <2>9. QED
    BY <2>1, <2>3, <2>4, <2>5, <2>8
<1> HIDE DEF api, html
<1>10. api.removed = Len(a) - n /\ api.added = Len(b) - n /\ Len(v) = (Len(a) - n) + (Len(b) - n)
  BY <1>8, <1>9 DEF Counted
<1>11. /\ Len(a) - api.removed = n /\ Len(b) - api.added = n
       /\ (Len(a) - n) + (Len(b) - n) = api.added + api.removed
  <2>1. n \in Nat /\ Len(a) \in Nat /\ Len(b) \in Nat
    BY <1>2, <1>8
  <2>2. \A x, y, z \in Nat : x - (x - z) = z /\ (x - z) + (y - z) = (y - z) + (x - z)
    OBVIOUS
  <2>3. QED
    BY <1>10, <2>1, <2>2
<1>12. \E p \in Texts!Picks(n, Len(a)), q \in Texts!Picks(n, Len(b)) :
          /\ {p[k] : k \in 1..n} = DOMAIN a \ Texts!Named(html.lines, "removed")
          /\ {q[k] : k \in 1..n} = DOMAIN b \ Texts!Named(html.lines, "added")
          /\ Texts!ReadAlike(a, p, b, q)
  BY <1>2, <1>8, <1>9 DEF Kept
<1>13. \A p \in Texts!Picks(n + 1, Len(a)), q \in Texts!Picks(n + 1, Len(b)) : ~Texts!ReadAlike(a, p, b, q)
  <2>1. ~Common(a, b, n + 1, Len(a), Len(b))
    BY <1>7, <1>8
  <2>2. QED
    BY <2>1 DEF Common
<1>14. Len(html.lines) = api.added + api.removed
  BY <1>9, <1>10, <1>11
<1>15. \A k, m \in DOMAIN html.lines :
          k < m /\ html.lines[k].type = html.lines[m].type => html.lines[k].line < html.lines[m].line
  BY <1>8, <1>9 DEF Ordered
<1>16. html.unchanged <=> a = b
  <2>1. v = <<>> => a = b
    BY <1>1, <1>2, <1>8
  <2>2. ASSUME a = b PROVE v = <<>>
    <3> DEFINE p == [k \in 1..Len(a) |-> k]
    <3>1. p \in Texts!Picks(Len(a), Len(a)) /\ Texts!ReadAlike(a, p, a, p)
      BY DEF Texts!Picks, Texts!ReadAlike
    <3>2. Common(a, b, Len(a), Len(a), Len(b))
      BY <2>2, <3>1 DEF Common
    <3>3. Len(a) <= n
      BY <1>2, <1>7, <3>2
    <3>4. Len(v) \in Nat /\ Len(v) = (Len(a) - n) + (Len(a) - n)
      BY <1>8, <1>10, <2>2
    <3>5. Len(v) = 0
      <4>1. n \in Nat /\ Len(a) \in Nat
        BY <1>2, <1>8
      <4>2. \A x, y \in Nat, z \in Nat : x <= y /\ z = (x - y) + (x - y) => z = 0
        OBVIOUS
      <4>3. QED
        BY <3>3, <3>4, <4>1, <4>2
    <3>6. QED
      BY <1>8, <3>5, EmptySeq
  <2>3. QED
    BY <1>9, <2>1, <2>2
<1>17. Texts!DifferenceIsExact
  BY <1>9, <1>11, <1>12, <1>13, <1>14, <1>15, <1>16 DEF Texts!DifferenceIsExact, a, b, api, html
<1>18. Texts!TypeOK
  BY DEF TextInv, Texts!TypeOK
<1>19. QED
  BY <1>17, <1>18

\* Of any two texts, the lines that the difference leaves out are a longest
\* common subsequence, what it lists stands in the order of the texts, and page
\* and API count alike (CompareDocuments, handleDiffFull, handleAPIDiff).
THEOREM DifferencesAreExact ==
  Texts!Init /\ [][Texts!Next]_<<older, newer>> => [](Texts!TypeOK /\ Texts!DifferenceIsExact)
BY InitTexts, InductiveTexts, TextHolds, PTL

------------------------------------------------------------------------------

(* The check of a company. *)

\* What is known of a company is its own, or told in an unknown word,
\* in a form of its own or one that misleads.
OwnWord(c) == /\ c.status \in {company.status, "unknown"} /\ c.type \in Company!Forms
              /\ c.okved \in {company.okved, ""} /\ c.young \in BOOLEAN /\ c.msp \in BOOLEAN
              /\ c = [status |-> c.status, type |-> c.type, okved |-> c.okved, young |-> c.young, msp |-> c.msp]

CompanyInv ==
  /\ company \in Company!Companies /\ query \in Company!Queries
  /\ check = [at |-> check.at, info |-> check.info, report |-> check.report]
  /\ check.at \in {"typed", "refused", "asking", "known", "asked", "done"}
  /\ check.info = {} \/ \E c : check.info = {c} /\ OwnWord(c)
  /\ check.at = "done" => \/ check.info = {} /\ check.report = Company!Unfound
                          \/ \E c : check.info = {c} /\ check.report = Company!Verdict(c)

LEMMA InitCompany == ASSUME Company!Init PROVE CompanyInv
  BY DEF Company!Init, CompanyInv

LEMMA AnswersCompany ==
  ASSUME CompanyInv, NEW info, Company!Answers(info), UNCHANGED <<company, query>>,
         info = {} \/ \E c : info = {c} /\ OwnWord(c)
  PROVE  CompanyInv'
<1>1. check' = [at |-> "known", info |-> info, report |-> check.report]
  BY DEF CompanyInv, Company!Answers
<1>2. check'.at = "known" /\ check'.info = info /\ check'.report = check.report
  BY <1>1
<1>3. check'.info = {} \/ \E c : check'.info = {c} /\ OwnWord(c)'
  BY <1>2 DEF OwnWord, Company!Forms
<1>4. QED
  BY <1>1, <1>2, <1>3 DEF CompanyInv

LEMMA InductiveCompany == ASSUME CompanyInv, [Company!Next]_(Company!eligibilityVars) PROVE CompanyInv'
<1>1. CASE UNCHANGED Company!eligibilityVars
  BY <1>1 DEF CompanyInv, OwnWord, Company!eligibilityVars, Company!Forms
<1>2. CASE Company!CheckByINN
  <2>1. PICK at \in {"asking", "refused"} : check' = [at |-> at, info |-> check.info, report |-> check.report]
    BY <1>2 DEF CompanyInv, Company!CheckByINN
  <2>2. check'.at = at /\ check'.info = check.info /\ check'.report = check.report
    BY <2>1
  <2>3. UNCHANGED <<company, query>>
    BY <1>2 DEF Company!CheckByINN
  <2>4. QED
    BY <2>1, <2>2, <2>3 DEF CompanyInv, OwnWord, Company!Forms
<1>3. CASE Company!lookupViaDadata
  <2>1. UNCHANGED <<company, query>>
    BY <1>3 DEF Company!lookupViaDadata
  <2>2. CASE Company!Answers({})
    BY <2>1, <2>2, AnswersCompany
  <2>3. ASSUME NEW w \in Company!Words, NEW form \in Company!Forms,
               Company!Answers(Company!parseDadataResponse(w, form))
        PROVE  CompanyInv'
    <3>1. company.young \in BOOLEAN
      BY DEF CompanyInv, Company!Companies
    <3> DEFINE c == [status |-> Company!normalizeStatus(w), type |-> form,
                     okved |-> company.okved, young |-> company.young, msp |-> FALSE]
    <3>2. OwnWord(c)
      BY <2>3, <3>1 DEF OwnWord, Company!Words, Company!normalizeStatus
    <3>3. Company!parseDadataResponse(w, form) = {c}
      BY DEF Company!parseDadataResponse
    <3> HIDE DEF c
    <3>4. Company!Answers({c})
      BY <2>3, <3>3
    <3>5. QED
      BY <2>1, <3>2, <3>4, AnswersCompany
  <2>4. QED
    BY <1>3, <2>2, <2>3 DEF Company!lookupViaDadata
<1>4. CASE Company!lookupViaFNS
  <2>1. UNCHANGED <<company, query>>
    BY <1>4 DEF Company!lookupViaFNS
  <2>2. CASE Company!Answers({})
    BY <2>1, <2>2, AnswersCompany
  <2>3. ASSUME NEW w \in Company!Words, NEW form \in Company!Forms,
               NEW young \in {company.young, FALSE}, Company!Answers(Company!parseFNSResponse(w, form, young))
        PROVE  CompanyInv'
    <3>1. young \in BOOLEAN
      BY DEF CompanyInv, Company!Companies
    <3> DEFINE c == [status |-> Company!normalizeStatus(w), type |-> form,
                     okved |-> "", young |-> young, msp |-> FALSE]
    <3>2. OwnWord(c)
      BY <2>3, <3>1 DEF OwnWord, Company!Words, Company!normalizeStatus
    <3>3. Company!parseFNSResponse(w, form, young) = {c}
      BY DEF Company!parseFNSResponse
    <3> HIDE DEF c
    <3>4. Company!Answers({c})
      BY <2>3, <3>3
    <3>5. QED
      BY <2>1, <3>2, <3>4, AnswersCompany
  <2>4. QED
    BY <1>4, <2>2, <2>3 DEF Company!lookupViaFNS
<1>5. CASE Company!checkMSP
  <2>1. PICK c : check.info = {c} /\ OwnWord(c)
    BY <1>5 DEF Company!checkMSP, CompanyInv
  <2>2. PICK msp \in {company.msp, FALSE} :
          check' = [check EXCEPT !.at = "asked", !.info = {[d EXCEPT !.msp = msp] : d \in check.info}]
    BY <1>5 DEF Company!checkMSP
  <2>3. msp \in BOOLEAN /\ UNCHANGED <<company, query>>
    BY <1>5 DEF CompanyInv, Company!Companies, Company!checkMSP
  <2> DEFINE d == [c EXCEPT !.msp = msp]
  <2>4. OwnWord(d)
    <3>1. c = [status |-> c.status, type |-> c.type, okved |-> c.okved, young |-> c.young, msp |-> c.msp]
      BY <2>1 DEF OwnWord
    <3>2. d = [status |-> c.status, type |-> c.type, okved |-> c.okved, young |-> c.young, msp |-> msp]
      BY <3>1
    <3> HIDE DEF d
    <3>3. d.status = c.status /\ d.type = c.type /\ d.okved = c.okved /\ d.young = c.young /\ d.msp = msp
      BY <3>2
    <3>4. QED
      BY <2>1, <2>3, <3>2, <3>3 DEF OwnWord
  <2>5. {[e EXCEPT !.msp = msp] : e \in check.info} = {d}
    BY <2>1
  <2> HIDE DEF d
  <2>6. check' = [at |-> "asked", info |-> {d}, report |-> check.report]
    BY <2>2, <2>5 DEF CompanyInv
  <2>7. check'.at = "asked" /\ check'.info = {d}
    BY <2>6
  <2>8. OwnWord(d)'
    BY <2>3, <2>4 DEF OwnWord, Company!Forms
  <2>9. check' = [at |-> check'.at, info |-> check'.info, report |-> check'.report]
    BY <2>6
  <2>10. QED
    BY <2>3, <2>7, <2>8, <2>9 DEF CompanyInv
<1>6. CASE Company!analyzeEligibility
  <2>1. UNCHANGED <<company, query>>
    BY <1>6 DEF Company!analyzeEligibility
  <2>2. CASE check.info = {}
    <3>1. check' = [at |-> "done", info |-> {}, report |-> Company!Unfound]
      BY <1>6, <2>2 DEF CompanyInv, Company!analyzeEligibility
    <3>2. check'.at = "done" /\ check'.info = {} /\ check'.report = Company!Unfound
      BY <3>1
    <3>3. QED
      BY <2>1, <3>1, <3>2 DEF CompanyInv
  <2>3. ASSUME NEW c, check.info = {c}, OwnWord(c) PROVE CompanyInv'
    <3>1. (CHOOSE d \in check.info : TRUE) = c
      BY <2>3
    <3>2. check' = [at |-> "done", info |-> {c}, report |-> Company!Verdict(c)]
      BY <1>6, <2>3, <3>1 DEF CompanyInv, Company!analyzeEligibility
    <3>3. check'.at = "done" /\ check'.info = {c} /\ check'.report = Company!Verdict(c)
      BY <3>2
    <3>4. check' = [at |-> check'.at, info |-> check'.info, report |-> check'.report]
      BY <3>2, <3>3
    <3>5. OwnWord(c)' /\ Company!Verdict(c)' = Company!Verdict(c)
      BY <2>1, <2>3 DEF OwnWord, Company!Forms
    <3>6. company' \in Company!Companies /\ query' \in Company!Queries
      BY <2>1 DEF CompanyInv
    <3>7. QED
      BY <3>3, <3>4, <3>5, <3>6 DEF CompanyInv
  <2>4. QED
    BY <2>2, <2>3 DEF CompanyInv
<1>7. QED
  BY <1>1, <1>2, <1>3, <1>4, <1>5, <1>6 DEF Company!Next

LEMMA Deducted ==
  ASSUME NEW a \in Nat, NEW b \in Nat, NEW d \in Nat, NEW e \in Nat, e <= 20
  PROVE  /\ a + b + d + e \in Nat
         /\ a = 0 /\ b = 0 /\ d = 0 => a + b + d + e <= 20
         /\ a >= 80 \/ b >= 80 \/ d >= 80 => a + b + d + e >= 80
  OBVIOUS

\* What a verdict says of a company with these words.
LEMMA VerdictSays ==
  ASSUME NEW c
  PROVE  LET v == Company!Verdict(c)  whole == c.status \notin Company!Bad /\ ~Company!isSoleTrader(c.type) IN
         /\ v.eligible <=> whole
         /\ v.issues = {} <=> whole
         /\ v.score >= 80 <=> whole
         /\ v.advice <=> c.status = "active"
<1> DEFINE gone == IF c.status \in Company!Bad THEN {c.status} ELSE {}
           alone == IF Company!isSoleTrader(c.type) THEN {"sole trader"} ELSE {}
           foreign == c.okved # "" /\ ~ Company!isInnovativeOKVED(c.okved)
           a == IF c.status \in {"liquidated", "bankrupt"} THEN 100 ELSE 0
           b == IF c.status = "liquidating" THEN 80 ELSE 0
           d == IF Company!isSoleTrader(c.type) THEN 100 ELSE 0
           e == IF foreign THEN 20 ELSE 0
           minus == a + b + d + e
           whole == c.status \notin Company!Bad /\ ~Company!isSoleTrader(c.type)
           v == Company!Verdict(c)
<1>1. gone \cup alone = {} <=> whole
  BY DEF Company!Bad
<1>2. minus \in Nat /\ (whole => minus <= 20) /\ (~ whole => minus >= 80)
  <2>1. a \in Nat /\ b \in Nat /\ d \in Nat /\ e \in Nat /\ e <= 20
    OBVIOUS
  <2>2. CASE whole
    <3>1. a = 0 /\ b = 0 /\ d = 0
      BY <2>2 DEF Company!Bad
    <3> HIDE DEF a, b, d, e
    <3>2. QED
      BY <2>1, <2>2, <3>1, Deducted
  <2>3. CASE ~ whole
    <3>1. a = 100 \/ b = 80 \/ d = 100
      BY <2>3 DEF Company!Bad
    <3> HIDE DEF a, b, d, e
    <3>2. a >= 80 \/ b >= 80 \/ d >= 80
      BY <3>1
    <3>3. QED
      BY <2>1, <2>3, <3>2, Deducted
  <2>4. QED
    BY <2>2, <2>3
<1> HIDE DEF minus, whole
<1>3. Company!Minus(100, minus) >= 80 <=> whole
  BY <1>2 DEF Company!Minus
<1>4. Company!Minus(100, minus) >= 50 <=> whole
  BY <1>2 DEF Company!Minus
<1>5. /\ v.issues = gone \cup alone /\ v.score = Company!Minus(100, minus) /\ v.advice = (c.status = "active")
      /\ v.eligible = (Company!Minus(100, minus) >= 50 /\ gone \cup alone = {})
  BY DEF Company!Verdict, minus
<1> HIDE DEF v, gone, alone
<1>6. QED
  BY <1>1, <1>3, <1>4, <1>5 DEF v, whole

LEMMA CompanyHolds == ASSUME CompanyInv PROVE Company!TypeOK /\ Company!VerdictIsSteady
<1>1. Company!TypeOK
  <2>1. Company!Cardinality({}) = 0 /\ \A c : Company!Cardinality({c}) = 1
    BY FS_EmptySet, FS_Singleton DEF Company!Cardinality, Cardinality
  <2>2. Company!Cardinality(check.info) <= 1
    <3>1. CASE check.info = {}
      BY <2>1, <3>1
    <3>2. ASSUME NEW c, check.info = {c} PROVE Company!Cardinality(check.info) <= 1
      <4>1. Company!Cardinality({c}) = 1
        BY <2>1
      <4>2. QED
        BY <3>2, <4>1
    <3>3. QED
      BY <3>1, <3>2 DEF CompanyInv
  <2>3. QED
    BY <2>2 DEF CompanyInv, Company!TypeOK
<1>2. SUFFICES ASSUME check.at = "done" PROVE Company!VerdictIsSteady
  BY <1>1 DEF Company!VerdictIsSteady
<1>3. Company!cmdEligibility = check.report
  BY <1>2 DEF Company!cmdEligibility
<1>4. CASE check.info = {}
  <2>1. check.report = Company!Unfound
    BY <1>2, <1>4 DEF CompanyInv
  <2>2. PICK r : r = [issues |-> {"no data"}, warnings |-> {"register down"}, advice |-> FALSE,
                      score |-> 0, eligible |-> FALSE]
    OBVIOUS
  <2>3. ~ r.eligible /\ r.issues # {} /\ ~ (r.score >= 80) /\ ~ r.advice
    <3>1. r.score = 0 /\ r.issues = {"no data"}
      BY <2>2
    <3>2. ~ r.eligible
      BY <2>2, Zenon
    <3>3. ~ r.advice
      BY <2>2, Zenon
    <3>4. ~ (r.score >= 80)
      <4>1. ~ (0 >= 80)
        OBVIOUS
      <4>2. QED
        BY <3>1, <4>1, Zenon
    <3>5. r.issues # {}
      BY <3>1
    <3>6. QED
      BY <3>2, <3>3, <3>4, <3>5
  <2>4. check.report = r
    BY <2>1, <2>2 DEF Company!Unfound
  <2>5. QED
    BY <1>3, <1>4, <2>3, <2>4 DEF Company!VerdictIsSteady
<1>5. CASE check.info # {}
  <2>1. PICK c : check.info = {c} /\ check.report = Company!Verdict(c)
    BY <1>2, <1>5 DEF CompanyInv
  <2>2. OwnWord(c)
    BY <1>5, <2>1 DEF CompanyInv
  <2>3. /\ company.type \in {"company", "sole trader"} /\ company.status # "unknown"
        /\ Company!Told("unknown") <=> c.status = "unknown"
        /\ Company!Misled <=> ~c.type.plain
    BY <2>1, CompanyAssumption DEF CompanyInv, Company!Companies, Company!Told, Company!Misled
  <2> DEFINE whole == c.status \notin Company!Bad /\ ~Company!isSoleTrader(c.type)
  <2>4. /\ check.report.eligible <=> whole
        /\ check.report.issues = {} <=> whole
        /\ check.report.score >= 80 <=> whole
        /\ check.report.advice <=> c.status = "active"
    BY <2>1, VerdictSays
  <2>5. whole <=> /\ (company.type = "company" <=> ~Company!Misled)
                  /\ (company.status \notin Company!Bad \/ Company!Told("unknown"))
    <3>1. c.type.of = company.type
      <4>1. PICK p \in BOOLEAN : c.type = [of |-> company.type, plain |-> p]
        BY <2>2, Zenon DEF OwnWord, Company!Forms
      <4>2. QED
        BY <4>1
    <3>2. company.type = "company" <=> ~(company.type = "sole trader")
      BY <2>3
    <3>3. Company!isSoleTrader(c.type) <=> (c.type.plain <=> company.type = "sole trader")
      BY <3>1, Zenon DEF Company!isSoleTrader
    <3>4. ~Company!isSoleTrader(c.type) <=> (company.type = "company" <=> ~Company!Misled)
      BY <2>3, <3>2, <3>3, Zenon
    <3>5. c.status \notin Company!Bad <=> company.status \notin Company!Bad \/ Company!Told("unknown")
      BY <2>2, <2>3 DEF OwnWord, Company!Bad
    <3>6. QED
      BY <3>4, <3>5
  <2>6. c.status = "active" => company.status \notin Company!Bad
    BY <2>2 DEF OwnWord, Company!Bad
  <2>7. QED
    BY <1>3, <1>5, <2>4, <2>5, <2>6 DEF Company!VerdictIsSteady
<1>6. QED
  BY <1>4, <1>5, <1>1

\* The verdict on a company is that of its own state, whichever register
\* answered, but for a word the check does not know and a form or a name that
\* misleads about sole traders (CheckByINN).
THEOREM VerdictsAreSteady ==
  Company!Init /\ [][Company!Next]_(Company!eligibilityVars) => [](Company!TypeOK /\ Company!VerdictIsSteady)
BY InitCompany, InductiveCompany, CompanyHolds, PTL

------------------------------------------------------------------------------

(* The map of the site. *)

AllStored == \A n \in Map!Flatten : n \in DOMAIN collection.points /\ collection.points[n] = nav.release

\* The collection, once made, keeps its size; what has been filled stays, and
\* after a pass of the release nothing else is there.
MapKept ==
  /\ collection = [size |-> collection.size, points |-> collection.points]
  /\ collection.size \in {0} \cup {Dims[r] : r \in DOMAIN Trees}
  /\ collection.size = 0 => collection.points = <<>>
  /\ DOMAIN collection.points \subseteq 1..MaxNode
  /\ maps = [md |-> maps.md, json |-> maps.json]
  /\ nav \in [release : DOMAIN Trees, serves : BOOLEAN, faults : 0..NavFaults, firm : SUBSET (1..MaxNode),
              clean : Nat, whole : Nat, opened : BOOLEAN]
  /\ nav.clean <= nav.release /\ nav.whole <= nav.release
  /\ nav.firm \subseteq Map!Flatten /\ nav.firm \subseteq DOMAIN collection.points
  /\ nav.opened => collection.size = Map!Dim
  /\ nav.clean = nav.release => AllStored /\ DOMAIN collection.points \subseteq Map!Flatten
  /\ nav.whole = nav.release => maps.md = nav.release /\ maps.json = nav.release

\* A pass has filled what the release has, and behind it are only nodes of the
\* release or such as it has marked; a whole command has written the files.
StageFits(i, x) ==
  /\ x.at \in {"idle", "render", "export", "ensure", "upsert", "scroll", "delete"}
  /\ x.at \in {"upsert", "scroll", "delete"} => collection.size = Map!Dim
  /\ x.at \in {"scroll", "delete"} => AllStored /\ x.stale \cap Map!Flatten = {}
  /\ x.at = "scroll" => /\ x \in [at : {x.at}, all : {x.all}, from : {x.from}, stale : {x.stale}]
                        /\ x.from \in Nat
                        /\ \A n \in DOMAIN collection.points \ Map!Flatten : n >= x.from \/ n \in x.stale
  /\ x.at = "delete" => DOMAIN collection.points \ Map!Flatten \subseteq x.stale
  /\ i = "command" /\ x.at # "idle" => x.all \in BOOLEAN
  /\ i = "command" /\ x.at \notin {"idle", "render"} /\ x.all => maps.md = nav.release
  /\ i = "command" /\ x.at \notin {"idle", "render", "export"} /\ x.all => maps.json = nav.release

MapInv == /\ MapKept
          /\ indexer = [i \in Map!Indexers |-> indexer[i]]
          /\ \A i \in Map!Indexers : StageFits(i, indexer[i])

LEMMA Releases1 ==
  ASSUME MapKept
  PROVE  /\ DOMAIN Trees \subseteq Nat \ {0} /\ nav.release \in Nat \ {0}
         /\ Map!Flatten \subseteq 1..MaxNode /\ Map!Dim \in Nat \ {0} /\ Map!Dim \in {Dims[r] : r \in DOMAIN Trees}
         /\ Map!Exists <=> collection.size # 0
<1>1. DOMAIN Trees \subseteq Nat \ {0} /\ \A r \in DOMAIN Trees : Trees[r] \subseteq 1..MaxNode /\ Dims[r] \in Nat \ {0}
  BY MapAssumption
<1>2. nav.release \in DOMAIN Trees
  BY DEF MapKept
<1>3. Map!Exists <=> collection.size # 0
  BY DEF MapKept, Map!Exists, Map!Absent
<1>4. QED
  BY <1>1, <1>2, <1>3 DEF Map!Flatten, Map!Dim

LEMMA InitMap == ASSUME Map!Init PROVE MapInv
<1>1. 1 \in DOMAIN Trees /\ NavFaults \in Nat
  BY MapAssumption
<1>2. collection = [size |-> 0, points |-> <<>>] /\ maps = [md |-> 0, json |-> 0]
  BY DEF Map!Init, Map!Absent
<1>3. nav = [release |-> 1, serves |-> FALSE, faults |-> 0, firm |-> {}, clean |-> 0, whole |-> 0, opened |-> FALSE]
  BY DEF Map!Init
<1>4. MapKept
  <2>1. collection.size = 0 /\ collection.points = <<>> /\ DOMAIN collection.points = {}
    BY <1>2
  <2>2. nav.release = 1 /\ nav.firm = {} /\ nav.clean = 0 /\ nav.whole = 0 /\ ~ nav.opened
    BY <1>3
  <2>3. nav \in [release : DOMAIN Trees, serves : BOOLEAN, faults : 0..NavFaults, firm : SUBSET (1..MaxNode),
                 clean : Nat, whole : Nat, opened : BOOLEAN]
    BY <1>1, <1>3
  <2>4. QED
    BY <1>2, <2>1, <2>2, <2>3 DEF MapKept
<1>5. \A i \in Map!Indexers : StageFits(i, indexer[i])
  BY DEF Map!Init, Map!Idle, StageFits
<1>6. indexer = [i \in Map!Indexers |-> indexer[i]]
  BY DEF Map!Init
<1>7. QED
  BY <1>4, <1>5, <1>6 DEF MapInv

\* What no step but a deployment undoes.
Goes1 == /\ nav'.release = nav.release
         /\ collection.size # 0 => collection'.size = collection.size
         /\ DOMAIN collection'.points \ Map!Flatten \subseteq DOMAIN collection.points \ Map!Flatten
         /\ AllStored => AllStored'
         /\ maps.md = nav.release => maps'.md = nav.release
         /\ maps.json = nav.release => maps'.json = nav.release

LEMMA StageStays ==
  ASSUME MapInv, Goes1, NEW i \in Map!Indexers, NEW x, x = indexer[i]
  PROVE  StageFits(i, x)'
<1>1. StageFits(i, x)
  BY DEF MapInv
<1>2. Map!Dim' = Map!Dim /\ Map!Flatten' = Map!Flatten /\ Map!Dim # 0
  BY Releases1 DEF MapInv, Goes1, Map!Dim, Map!Flatten
<1>3. QED
  BY <1>1, <1>2 DEF StageFits, Goes1

LEMMA MapGoes ==
  ASSUME MapInv, Goes1, NEW i \in Map!Indexers, NEW x, Map!Goes(i, x), StageFits(i, x)', MapKept'
  PROVE  MapInv'
<1>1. indexer' = [j \in Map!Indexers |-> IF j = i THEN x ELSE indexer[j]]
  BY DEF MapInv, Map!Goes
<1>2. indexer' = [j \in Map!Indexers |-> indexer'[j]]
  BY <1>1
<1>3. ASSUME NEW j \in Map!Indexers PROVE StageFits(j, indexer[j])'
  <2>1. CASE j = i
    <3>1. indexer'[j] = x
      BY <1>1, <2>1
    <3>2. QED
      BY <2>1, <3>1 DEF StageFits
  <2>2. CASE j # i
    <3>1. indexer'[j] = indexer[j]
      BY <1>1, <2>2
    <3>2. PICK y : y = indexer[j]
      OBVIOUS
    <3>3. StageFits(j, y)'
      BY <3>2, StageStays
    <3>4. QED
      BY <3>1, <3>2, <3>3 DEF StageFits
  <2>3. QED
    BY <2>1, <2>2
<1>4. QED
  BY <1>2, <1>3 DEF MapInv

LEMMA NavFails ==
  ASSUME MapKept, Map!Fail
  PROVE  /\ nav' \in [release : DOMAIN Trees, serves : BOOLEAN, faults : 0..NavFaults, firm : SUBSET (1..MaxNode),
                      clean : Nat, whole : Nat, opened : BOOLEAN]
         /\ nav'.release = nav.release /\ nav'.firm = nav.firm /\ nav'.clean = nav.clean
         /\ nav'.whole = nav.whole /\ nav'.opened = nav.opened
<1>1. NavFaults \in Nat
  BY MapAssumption
<1>2. PICK n \in 0..NavFaults : n = nav.faults + 1
  BY <1>1 DEF MapKept, Map!Fail, Map!CanFail
<1>3. nav' = [nav EXCEPT !.faults = n]
  BY <1>2 DEF Map!Fail
<1>4. QED
  BY <1>3 DEF MapKept

LEMMA Ensured ==
  ASSUME MapKept, Map!Fits, Map!EnsureCollection
  PROVE  /\ collection' = [size |-> Map!Dim, points |-> collection.points]
         /\ collection'.size = Map!Dim /\ collection'.points = collection.points
         /\ collection.size # 0 => collection.size = Map!Dim
<1>1. CASE Map!Exists
  BY <1>1, Releases1 DEF MapKept, Map!Fits, Map!EnsureCollection
<1>2. CASE ~ Map!Exists
  <2>1. collection.points = <<>> /\ collection.size = 0
    BY <1>2, Releases1 DEF MapKept
  <2>2. QED
    BY <1>2, <2>1 DEF Map!EnsureCollection
<1>3. QED
  BY <1>1, <1>2

\* The points and the files stay, and of the rest nothing that matters.
LEMMA QuietMap ==
  ASSUME MapInv,
         UNCHANGED collection \/ (Map!Fits /\ Map!EnsureCollection),
         maps' = maps,
         nav' \in [release : DOMAIN Trees, serves : BOOLEAN, faults : 0..NavFaults, firm : SUBSET (1..MaxNode),
                   clean : Nat, whole : Nat, opened : BOOLEAN],
         nav'.release = nav.release, nav'.firm = nav.firm, nav'.clean = nav.clean, nav'.whole = nav.whole,
         nav'.opened => nav.opened \/ (Map!Fits /\ Map!EnsureCollection)
  PROVE  MapKept' /\ Goes1
<1>1. MapKept
  BY DEF MapInv
<1>2. Map!Dim' = Map!Dim /\ Map!Flatten' = Map!Flatten /\ Map!Dim \in Nat \ {0} /\ Map!Dim \in {Dims[r] : r \in DOMAIN Trees}
  BY <1>1, Releases1 DEF Map!Dim, Map!Flatten
<1>3. /\ collection' = [size |-> collection'.size, points |-> collection'.points]
      /\ collection'.points = collection.points
      /\ collection.size # 0 => collection'.size = collection.size
      /\ collection'.size \in {0, Map!Dim} \cup {collection.size}
      /\ Map!Fits /\ Map!EnsureCollection => collection'.size = Map!Dim
  <2>1. CASE UNCHANGED collection
    <3>1. Map!Fits /\ Map!EnsureCollection => collection'.size = Map!Dim
      BY <1>1, Ensured
    <3>2. QED
      BY <1>1, <2>1, <3>1 DEF MapKept
  <2>2. CASE Map!Fits /\ Map!EnsureCollection
    <3>1. /\ collection' = [size |-> Map!Dim, points |-> collection.points]
          /\ collection'.size = Map!Dim /\ collection'.points = collection.points
          /\ collection.size # 0 => collection.size = Map!Dim
      BY <1>1, <2>2, Ensured
    <3>2. QED
      BY <3>1
  <2>3. QED
    BY <2>1, <2>2
<1>4. AllStored' <=> AllStored
  BY <1>2, <1>3 DEF AllStored
<1>5. Goes1
  BY <1>3, <1>4 DEF Goes1
<1>6. nav'.opened => collection'.size = Map!Dim
  <2>1. CASE nav.opened
    BY <1>1, <1>2, <1>3, <2>1 DEF MapKept
  <2>2. CASE Map!Fits /\ Map!EnsureCollection
    BY <1>3, <2>2
  <2>3. QED
    BY <2>1, <2>2
<1>7. collection'.size = 0 => collection'.points = <<>>
  BY <1>1, <1>2, <1>3 DEF MapKept
<1>8. QED
  BY <1>1, <1>2, <1>3, <1>4, <1>5, <1>6, <1>7 DEF MapKept

LEMMA StartsMap == ASSUME MapInv, Map!StartUp PROVE MapInv'
<1>1. MapKept /\ Map!Goes("start", [at |-> "ensure"]) /\ maps' = maps /\ "start" \in Map!Indexers
  BY DEF MapInv, Map!StartUp, Map!Indexers
<1>2. MapKept' /\ Goes1
  <2>1. CASE Map!Fits /\ Map!EnsureCollection /\ nav' = [nav EXCEPT !.serves = TRUE, !.opened = TRUE]
    <3>1. /\ nav' \in [release : DOMAIN Trees, serves : BOOLEAN, faults : 0..NavFaults, firm : SUBSET (1..MaxNode),
                       clean : Nat, whole : Nat, opened : BOOLEAN]
          /\ nav'.release = nav.release /\ nav'.firm = nav.firm /\ nav'.clean = nav.clean /\ nav'.whole = nav.whole
      BY <1>1, <2>1 DEF MapKept
    <3>2. QED
      BY <1>1, <2>1, <3>1, QuietMap
  <2>2. CASE UNCHANGED collection /\ nav' = [nav EXCEPT !.serves = TRUE, !.opened = FALSE]
    <3>1. /\ nav' \in [release : DOMAIN Trees, serves : BOOLEAN, faults : 0..NavFaults, firm : SUBSET (1..MaxNode),
                       clean : Nat, whole : Nat, opened : BOOLEAN]
          /\ nav'.release = nav.release /\ nav'.firm = nav.firm /\ nav'.clean = nav.clean /\ nav'.whole = nav.whole
          /\ nav'.opened = FALSE
      BY <1>1, <2>2 DEF MapKept
    <3>2. ~ nav'.opened
      BY <3>1
    <3>3. QED
      BY <1>1, <2>2, <3>1, <3>2, QuietMap
  <2>3. CASE Map!CanFail /\ UNCHANGED collection
             /\ nav' = [nav EXCEPT !.serves = TRUE, !.opened = FALSE, !.faults = @ + 1]
    <3>1. PICK n \in 0..NavFaults : n = nav.faults + 1
      BY <1>1, <2>3, MapAssumption DEF MapKept, Map!CanFail
    <3>2. /\ nav' \in [release : DOMAIN Trees, serves : BOOLEAN, faults : 0..NavFaults, firm : SUBSET (1..MaxNode),
                       clean : Nat, whole : Nat, opened : BOOLEAN]
          /\ nav'.release = nav.release /\ nav'.firm = nav.firm /\ nav'.clean = nav.clean /\ nav'.whole = nav.whole
          /\ nav'.opened = FALSE
      <4>1. nav' = [nav EXCEPT !.serves = TRUE, !.opened = FALSE, !.faults = n]
        BY <2>3, <3>1
      <4>2. QED
        BY <1>1, <4>1 DEF MapKept
    <3>3. ~ nav'.opened
      BY <3>2
    <3>4. QED
      BY <1>1, <2>3, <3>2, <3>3, QuietMap
  <2>4. QED
    BY <2>1, <2>2, <2>3 DEF Map!StartUp
<1> DEFINE x == [at |-> "ensure"]
<1>3. StageFits("start", x)'
  BY DEF StageFits
<1> HIDE DEF x
<1>4. Map!Goes("start", x)
  BY <1>1 DEF x
<1>5. QED
  BY <1>1, <1>2, <1>3, <1>4, MapGoes

LEMMA PanelMap == ASSUME MapInv, Map!handleAPINavIndex PROVE MapInv'
<1>1. MapKept /\ UNCHANGED <<collection, maps, nav>> /\ "panel" \in Map!Indexers
  BY DEF MapInv, Map!handleAPINavIndex, Map!Indexers
<1>2. MapKept' /\ Goes1
  BY <1>1, QuietMap DEF MapKept
<1> DEFINE x == [at |-> "ensure"]
<1>3. StageFits("panel", x)'
  BY DEF StageFits
<1>4. Map!Goes("panel", x)
  BY DEF Map!handleAPINavIndex
<1> HIDE DEF x
<1>5. QED
  BY <1>1, <1>2, <1>3, <1>4, MapGoes

LEMMA CommandMap == ASSUME MapInv, Map!cmdNavIndex PROVE MapInv'
<1>1. MapKept /\ UNCHANGED <<collection, maps, nav>> /\ "command" \in Map!Indexers
  BY DEF MapInv, Map!cmdNavIndex, Map!Indexers
<1>2. MapKept' /\ Goes1
  BY <1>1, QuietMap DEF MapKept
<1>3. PICK a \in {"render", "export", "ensure"}, all \in BOOLEAN :
        (all => a = "render") /\ Map!Goes("command", [at |-> a, all |-> all])
  BY DEF Map!cmdNavIndex
<1> DEFINE x == [at |-> a, all |-> all]
<1>4. x.at = a /\ x.all = all
  OBVIOUS
<1>5. Map!Goes("command", x)
  BY <1>3
<1> HIDE DEF x
<1>6. StageFits("command", x)'
  BY <1>3, <1>4 DEF StageFits
<1>7. QED
  BY <1>1, <1>2, <1>5, <1>6, MapGoes

\* Where a step ends a pass, nothing is expected of it.
LEMMA IdleFits == ASSUME NEW i PROVE StageFits(i, Map!Idle)'
<1>1. PICK x : x = Map!Idle
  OBVIOUS
<1>2. x.at = "idle"
  BY <1>1 DEF Map!Idle
<1>3. StageFits(i, x)'
  BY <1>2 DEF StageFits
<1>4. QED
  BY <1>1, <1>3 DEF StageFits, Map!Idle

LEMMA WritesFiles ==
  ASSUME MapInv, UNCHANGED <<collection, nav>>,
         \/ maps' = [maps EXCEPT !.md = nav.release]
         \/ maps' = [maps EXCEPT !.json = nav.release]
  PROVE  /\ MapKept' /\ Goes1
         /\ maps' = [maps EXCEPT !.md = nav.release] => maps'.md = nav.release /\ maps'.json = maps.json
         /\ maps' = [maps EXCEPT !.json = nav.release] => maps'.json = nav.release /\ maps'.md = maps.md
<1>1. MapKept /\ maps = [md |-> maps.md, json |-> maps.json]
  BY DEF MapInv, MapKept
<1>2. /\ maps' = [md |-> maps'.md, json |-> maps'.json]
      /\ maps' = [maps EXCEPT !.md = nav.release] => maps'.md = nav.release /\ maps'.json = maps.json
      /\ maps' = [maps EXCEPT !.json = nav.release] => maps'.json = nav.release /\ maps'.md = maps.md
  <2>1. CASE maps' = [maps EXCEPT !.md = nav.release]
    <3>1. maps' = [md |-> nav.release, json |-> maps.json]
      BY <1>1, <2>1
    <3>2. maps'.md = nav.release /\ maps'.json = maps.json
      BY <3>1
    <3>3. maps' = [maps EXCEPT !.json = nav.release] => maps'.json = nav.release /\ maps'.md = maps.md
      <4>1. SUFFICES ASSUME maps' = [maps EXCEPT !.json = nav.release]
                     PROVE  maps'.json = nav.release /\ maps'.md = maps.md
        OBVIOUS
      <4>2. maps' = [md |-> maps.md, json |-> nav.release]
        BY <1>1, <4>1
      <4>3. QED
        BY <4>2
    <3>4. QED
      BY <3>1, <3>2, <3>3
  <2>2. CASE maps' = [maps EXCEPT !.json = nav.release]
    <3>1. maps' = [md |-> maps.md, json |-> nav.release]
      BY <1>1, <2>2
    <3>2. maps'.json = nav.release /\ maps'.md = maps.md
      BY <3>1
    <3>3. maps' = [maps EXCEPT !.md = nav.release] => maps'.md = nav.release /\ maps'.json = maps.json
      <4>1. SUFFICES ASSUME maps' = [maps EXCEPT !.md = nav.release]
                     PROVE  maps'.md = nav.release /\ maps'.json = maps.json
        OBVIOUS
      <4>2. maps' = [md |-> nav.release, json |-> maps.json]
        BY <1>1, <4>1
      <4>3. QED
        BY <4>2
    <3>4. QED
      BY <3>1, <3>2, <3>3
  <2>3. QED
    BY <2>1, <2>2
<1>3. maps'.md = nav.release \/ maps'.md = maps.md
  BY <1>2
<1>4. maps'.json = nav.release \/ maps'.json = maps.json
  BY <1>2
<1>5. Map!Dim' = Map!Dim /\ Map!Flatten' = Map!Flatten /\ (AllStored' <=> AllStored)
  BY DEF Map!Dim, Map!Flatten, AllStored
<1>6. MapKept'
  BY <1>1, <1>2, <1>3, <1>4, <1>5 DEF MapKept
<1>7. Goes1
  BY <1>3, <1>4, <1>5 DEF Goes1
<1>8. QED
  BY <1>2, <1>6, <1>7

LEMMA FailsMap ==
  ASSUME MapInv, NEW i \in Map!Indexers, Map!Fail, Map!Goes(i, Map!Idle), UNCHANGED <<collection, maps>>
  PROVE  MapInv'
<1>1. MapKept' /\ Goes1
  BY NavFails, QuietMap DEF MapInv
<1>2. QED
  BY <1>1, IdleFits, MapGoes

LEMMA RendersMap == ASSUME MapInv, Map!Render PROVE MapInv'
<1>1. "command" \in Map!Indexers /\ indexer["command"].at = "render" /\ UNCHANGED collection
  BY DEF Map!Render, Map!At, Map!Indexers
<1>2. CASE Map!Fail /\ UNCHANGED maps /\ Map!Goes("command", Map!Idle)
  BY <1>1, <1>2, FailsMap
<1>3. CASE /\ maps' = [maps EXCEPT !.md = nav.release] /\ UNCHANGED nav
           /\ Map!Goes("command", IF indexer["command"].all THEN [at |-> "export", all |-> TRUE] ELSE Map!Idle)
  <2>1. MapKept' /\ Goes1 /\ maps'.md = nav.release
    BY <1>1, <1>3, WritesFiles
  <2>2. CASE indexer["command"].all
    <3> DEFINE x == [at |-> "export", all |-> TRUE]
    <3>1. Map!Goes("command", x)
      BY <1>3, <2>2
    <3>2. x.at = "export" /\ x.all = TRUE
      OBVIOUS
    <3> HIDE DEF x
    <3>3. StageFits("command", x)'
      BY <1>3, <2>1, <3>2 DEF StageFits
    <3>4. QED
      BY <1>1, <2>1, <3>1, <3>3, MapGoes
  <2>3. CASE ~ indexer["command"].all
    <3>1. Map!Goes("command", Map!Idle)
      BY <1>3, <2>3
    <3>2. QED
      BY <1>1, <2>1, <3>1, IdleFits, MapGoes
  <2>4. QED
    BY <2>2, <2>3
<1>4. QED
  BY <1>2, <1>3 DEF Map!Render

LEMMA ExportsMap == ASSUME MapInv, Map!Export PROVE MapInv'
<1>1. "command" \in Map!Indexers /\ indexer["command"].at = "export" /\ UNCHANGED collection
  BY DEF Map!Export, Map!At, Map!Indexers
<1>2. CASE Map!Fail /\ UNCHANGED maps /\ Map!Goes("command", Map!Idle)
  BY <1>1, <1>2, FailsMap
<1>3. CASE /\ maps' = [maps EXCEPT !.json = nav.release] /\ UNCHANGED nav
           /\ Map!Goes("command", IF indexer["command"].all THEN [at |-> "ensure", all |-> TRUE] ELSE Map!Idle)
  <2>1. MapKept' /\ Goes1 /\ maps'.json = nav.release /\ maps'.md = maps.md
    BY <1>1, <1>3, WritesFiles
  <2>2. CASE indexer["command"].all
    <3> DEFINE x == [at |-> "ensure", all |-> TRUE]
    <3>1. Map!Goes("command", x)
      BY <1>3, <2>2
    <3>2. x.at = "ensure" /\ x.all = TRUE
      OBVIOUS
    <3> HIDE DEF x
    <3>3. maps.md = nav.release
      BY <1>1, <2>2 DEF MapInv, StageFits
    <3>4. StageFits("command", x)'
      BY <1>3, <2>1, <3>2, <3>3 DEF StageFits
    <3>5. QED
      BY <1>1, <2>1, <3>1, <3>4, MapGoes
  <2>3. CASE ~ indexer["command"].all
    <3>1. Map!Goes("command", Map!Idle)
      BY <1>3, <2>3
    <3>2. QED
      BY <1>1, <2>1, <3>1, IdleFits, MapGoes
  <2>4. QED
    BY <2>2, <2>3
<1>4. QED
  BY <1>2, <1>3 DEF Map!Export

\* Whether a pass is of a whole command, and what has been written then.
LEMMA WholeFits ==
  ASSUME MapInv, NEW i \in Map!Indexers, indexer[i].at \in {"ensure", "upsert", "scroll", "delete"}
  PROVE  /\ Map!All(i) \in BOOLEAN
         /\ Map!All(i) => i = "command" /\ maps.md = nav.release /\ maps.json = nav.release
<1>1. StageFits(i, indexer[i])
  BY DEF MapInv
<1>2. QED
  BY <1>1 DEF StageFits, Map!All

LEMMA EnsuresMap == ASSUME MapInv, NEW i \in Map!Indexers, Map!Ensure(i) PROVE MapInv'
<1>1. indexer[i].at = "ensure" /\ maps' = maps /\ MapKept
  BY DEF Map!Ensure, Map!At, MapInv
<1>2. CASE ~ Map!Fits /\ Map!Goes(i, Map!Idle) /\ UNCHANGED <<collection, nav>>
  <2>1. MapKept' /\ Goes1
    BY <1>1, <1>2, QuietMap DEF MapKept
  <2>2. QED
    BY <1>2, <2>1, IdleFits, MapGoes
<1>3. CASE Map!Fail /\ Map!Goes(i, Map!Idle) /\ UNCHANGED collection
  BY <1>1, <1>3, FailsMap
<1>4. CASE /\ Map!Fits /\ Map!EnsureCollection /\ UNCHANGED nav
           /\ Map!Goes(i, [at |-> "upsert", all |-> Map!All(i)])
  <2>1. MapKept' /\ Goes1
    BY <1>1, <1>4, QuietMap DEF MapKept
  <2>2. collection'.size = Map!Dim /\ Map!Dim' = Map!Dim
    BY <1>1, <1>4, Ensured DEF Map!Dim
  <2>3. PICK all \in BOOLEAN : all = Map!All(i)
    BY <1>1, WholeFits
  <2>4. all => i = "command" /\ maps.md = nav.release /\ maps.json = nav.release
    BY <1>1, <2>3, WholeFits
  <2> DEFINE x == [at |-> "upsert", all |-> all]
  <2>5. Map!Goes(i, x)
    BY <1>4, <2>3
  <2>6. x.at = "upsert" /\ x.all = all
    OBVIOUS
  <2> HIDE DEF x
  <2>7. StageFits(i, x)'
    BY <1>1, <1>4, <2>2, <2>4, <2>6 DEF StageFits
  <2>8. QED
    BY <2>1, <2>5, <2>7, MapGoes
<1>5. QED
  BY <1>2, <1>3, <1>4 DEF Map!Ensure

LEMMA PointsMap ==
  ASSUME MapInv, collection.size = Map!Dim, collection'.size = collection.size, maps' = maps,
         collection' = [size |-> collection'.size, points |-> collection'.points],
         DOMAIN collection'.points \ Map!Flatten \subseteq DOMAIN collection.points \ Map!Flatten,
         AllStored => AllStored', DOMAIN collection'.points \subseteq 1..MaxNode,
         nav' \in [release : DOMAIN Trees, serves : BOOLEAN, faults : 0..NavFaults, firm : SUBSET (1..MaxNode),
                   clean : Nat, whole : Nat, opened : BOOLEAN],
         nav'.release = nav.release, nav'.opened = nav.opened,
         nav'.firm \subseteq Map!Flatten, nav'.firm \subseteq DOMAIN collection'.points,
         \/ nav'.clean = nav.clean
         \/ /\ nav'.clean = nav.release /\ AllStored'
            /\ DOMAIN collection'.points \subseteq Map!Flatten,
         nav'.whole = nav.whole \/ (nav'.whole = nav.release /\ maps.md = nav.release /\ maps.json = nav.release)
  PROVE  MapKept' /\ Goes1
<1>1. MapKept
  BY DEF MapInv
<1>2. Map!Dim' = Map!Dim /\ Map!Flatten' = Map!Flatten /\ Map!Dim \in Nat \ {0} /\ nav.release \in Nat
      /\ Map!Dim \in {Dims[r] : r \in DOMAIN Trees}
  BY <1>1, Releases1 DEF Map!Dim, Map!Flatten
<1>3. nav'.clean = nav'.release => AllStored' /\ DOMAIN collection'.points \subseteq Map!Flatten
  BY <1>1 DEF MapKept
<1>4. nav'.whole = nav'.release => maps'.md = nav'.release /\ maps'.json = nav'.release
  BY <1>1 DEF MapKept
<1>5. nav'.clean <= nav'.release /\ nav'.whole <= nav'.release
  BY <1>1, <1>2 DEF MapKept
<1>6. MapKept'
  BY <1>1, <1>2, <1>3, <1>4, <1>5 DEF MapKept
<1>7. Goes1
  BY DEF Goes1
<1>8. QED
  BY <1>6, <1>7

LEMMA WritesMap ==
  ASSUME MapInv, collection.size = Map!Dim, collection' = Map!Written, maps' = maps,
         nav' \in [release : DOMAIN Trees, serves : BOOLEAN, faults : 0..NavFaults, firm : SUBSET (1..MaxNode),
                   clean : Nat, whole : Nat, opened : BOOLEAN],
         nav'.release = nav.release, nav'.opened = nav.opened,
         nav'.firm \in {nav.firm, Map!Flatten}, nav'.clean = nav.clean, nav'.whole = nav.whole
  PROVE  MapKept' /\ Goes1 /\ AllStored'
<1>1. MapKept
  BY DEF MapInv
<1>2. Map!Dim' = Map!Dim /\ Map!Flatten' = Map!Flatten /\ Map!Flatten \subseteq 1..MaxNode
  BY <1>1, Releases1 DEF Map!Dim, Map!Flatten
<1> DEFINE P == [n \in DOMAIN collection.points \cup Map!Flatten |->
                    IF n \in Map!Flatten THEN nav.release ELSE collection.points[n]]
<1>3. collection' = [size |-> collection.size, points |-> P]
  BY DEF Map!Written
<1>4. DOMAIN P = DOMAIN collection.points \cup Map!Flatten /\ \A n \in Map!Flatten : P[n] = nav.release
  OBVIOUS
<1> HIDE DEF P
<1>5. collection'.size = collection.size /\ collection'.points = P
  BY <1>3
<1>6. AllStored'
  BY <1>2, <1>4, <1>5 DEF AllStored
<1>7. nav'.firm \subseteq Map!Flatten /\ nav'.firm \subseteq DOMAIN collection'.points
  BY <1>1, <1>4, <1>5 DEF MapKept
<1>8. DOMAIN collection'.points \subseteq 1..MaxNode
  BY <1>1, <1>2, <1>4, <1>5 DEF MapKept
<1>9. DOMAIN collection'.points \ Map!Flatten \subseteq DOMAIN collection.points \ Map!Flatten
  BY <1>4, <1>5
<1>10. collection' = [size |-> collection'.size, points |-> collection'.points]
  BY <1>3, <1>5
<1>11. QED
  BY <1>5, <1>6, <1>7, <1>8, <1>9, <1>10, PointsMap

LEMMA UpsertsMap == ASSUME MapInv, NEW i \in Map!Indexers, Map!Upsert(i) PROVE MapInv'
<1>1. indexer[i].at = "upsert" /\ maps' = maps /\ MapKept
  BY DEF Map!Upsert, Map!At, MapInv
<1>2. collection.size = Map!Dim
  BY <1>1 DEF MapInv, StageFits
<1>3. CASE Map!Fail /\ collection' \in {collection, Map!Written} /\ Map!Goes(i, Map!Idle)
  <2>1. CASE collection' = collection
    BY <1>1, <1>3, <2>1, FailsMap
  <2>2. CASE collection' = Map!Written
    <3>1. MapKept' /\ Goes1
      BY <1>1, <1>2, <1>3, <2>2, NavFails, WritesMap
    <3>2. QED
      BY <1>3, <3>1, IdleFits, MapGoes
  <2>3. QED
    BY <1>3, <2>1, <2>2
<1>4. CASE /\ collection' = Map!Written /\ nav' = [nav EXCEPT !.firm = Map!Flatten]
           /\ Map!Goes(i, [at |-> "scroll", all |-> Map!All(i), from |-> 1, stale |-> {}])
  <2>1. /\ nav' \in [release : DOMAIN Trees, serves : BOOLEAN, faults : 0..NavFaults, firm : SUBSET (1..MaxNode),
                     clean : Nat, whole : Nat, opened : BOOLEAN]
        /\ nav'.release = nav.release /\ nav'.opened = nav.opened
        /\ nav'.firm = Map!Flatten /\ nav'.clean = nav.clean /\ nav'.whole = nav.whole
    BY <1>1, <1>4, Releases1 DEF MapKept
  <2>2. MapKept' /\ Goes1 /\ AllStored'
    BY <1>1, <1>2, <1>4, <2>1, WritesMap
  <2>3. PICK all \in BOOLEAN : all = Map!All(i)
    BY <1>1, WholeFits
  <2>4. all => maps.md = nav.release /\ maps.json = nav.release
    BY <1>1, <2>3, WholeFits
  <2> DEFINE x == [at |-> "scroll", all |-> all, from |-> 1, stale |-> {}]
  <2>5. Map!Goes(i, x)
    BY <1>4, <2>3
  <2>6. /\ x.at = "scroll" /\ x.all = all /\ x.from = 1 /\ x.stale = {}
        /\ x \in [at : {x.at}, all : {x.all}, from : {x.from}, stale : {x.stale}]
    OBVIOUS
  <2> HIDE DEF x
  <2>7. collection'.size = Map!Dim /\ Map!Dim' = Map!Dim /\ Map!Dim # 0 /\ Map!Flatten' = Map!Flatten
    BY <1>1, <1>2, <2>1, <2>2, Releases1 DEF Goes1, Map!Dim, Map!Flatten
  <2>8. \A n \in DOMAIN collection'.points : n >= 1
    BY <2>2 DEF MapKept
  <2>9. StageFits(i, x)'
    BY <1>1, <2>1, <2>2, <2>4, <2>6, <2>7, <2>8 DEF StageFits
  <2>10. QED
    BY <2>2, <2>5, <2>9, MapGoes
<1>5. QED
  BY <1>3, <1>4 DEF Map!Upsert

\* A pass that is through.
LEMMA FinishesMap ==
  ASSUME MapInv, NEW i \in Map!Indexers, indexer[i].at \in {"scroll", "delete"}, nav' = Map!Finished(i), maps' = maps,
         AllStored', DOMAIN collection'.points \subseteq Map!Flatten,
         collection'.size = collection.size,
         collection' = [size |-> collection'.size, points |-> collection'.points],
         Map!Goes(i, Map!Idle)
  PROVE  MapInv'
<1>1. MapKept /\ collection.size = Map!Dim
  BY DEF MapInv, StageFits
<1>2. PICK w \in Nat : /\ w = IF Map!All(i) THEN nav.release ELSE nav.whole
                       /\ w = nav.whole \/ (w = nav.release /\ maps.md = nav.release /\ maps.json = nav.release)
  <2>1. nav.release \in Nat /\ nav.whole \in Nat
    BY <1>1, Releases1 DEF MapKept
  <2>2. QED
    BY <2>1, WholeFits
<1>3. nav' = [nav EXCEPT !.clean = nav.release, !.whole = w]
  BY <1>2 DEF Map!Finished
<1>4. /\ nav' \in [release : DOMAIN Trees, serves : BOOLEAN, faults : 0..NavFaults, firm : SUBSET (1..MaxNode),
                   clean : Nat, whole : Nat, opened : BOOLEAN]
      /\ nav'.release = nav.release /\ nav'.opened = nav.opened
      /\ nav'.firm = nav.firm /\ nav'.clean = nav.release /\ nav'.whole = w
  BY <1>1, <1>3, Releases1 DEF MapKept
<1>5. Map!Flatten' = Map!Flatten /\ Map!Flatten \subseteq 1..MaxNode
  BY <1>1, <1>4, Releases1 DEF Map!Flatten
<1>6. nav'.firm \subseteq Map!Flatten /\ nav'.firm \subseteq DOMAIN collection'.points
  BY <1>1, <1>4, <1>5 DEF MapKept, AllStored
<1>7. MapKept' /\ Goes1
  BY <1>1, <1>2, <1>4, <1>5, <1>6, PointsMap
<1>8. QED
  BY <1>7, IdleFits, MapGoes

LEMMA PrunesMap == ASSUME MapInv, NEW i \in Map!Indexers, Map!pruneStale(i) PROVE MapInv'
<1>1. indexer[i].at = "scroll" /\ UNCHANGED <<collection, maps>> /\ MapKept
  BY DEF Map!pruneStale, Map!At, MapInv
<1>2. PICK y : y = indexer[i]
  OBVIOUS
<1> DEFINE leaf == Map!Scroll(y.from)
           rest == Map!Rest(y.from) \ leaf
           stale == y.stale \cup (leaf \ Map!Flatten)
<1>3. /\ collection.size = Map!Dim /\ AllStored /\ y.stale \cap Map!Flatten = {} /\ y.from \in Nat
      /\ \A n \in DOMAIN collection.points \ Map!Flatten : n >= y.from \/ n \in y.stale
  BY <1>1, <1>2 DEF MapInv, StageFits
<1>4. /\ \A n \in DOMAIN collection.points : n >= y.from => n \in leaf \/ n \in rest
      /\ rest \subseteq DOMAIN collection.points /\ stale \cap Map!Flatten = {}
  BY <1>3 DEF Map!Rest
<1>5. DOMAIN collection.points \subseteq Nat
  BY <1>1 DEF MapKept
<1>6. PICK all \in BOOLEAN : /\ all = Map!All(i)
                             /\ all => maps.md = nav.release /\ maps.json = nav.release
  BY <1>1, WholeFits
<1>7. PICK s : s = stale
  OBVIOUS
<1>8. /\ s \cap Map!Flatten = {}
      /\ \A n \in DOMAIN collection.points \ Map!Flatten : n \in rest \/ n \in s
  BY <1>3, <1>4, <1>7
<1>9. \/ /\ UNCHANGED nav
         /\ \E next \in rest : (\A n \in rest : next <= n) /\ Map!Goes(i, [y EXCEPT !.from = next, !.stale = s])
      \/ rest = {} /\ s # {} /\ UNCHANGED nav /\ Map!Goes(i, [at |-> "delete", all |-> all, stale |-> s])
      \/ rest = {} /\ s = {} /\ Map!Goes(i, Map!Idle) /\ nav' = Map!Finished(i)
      \/ Map!Fail /\ Map!Goes(i, Map!Idle)
  BY <1>6, <1>7, <1>2 DEF Map!pruneStale
<1>10. rest \subseteq Nat
  BY <1>4, <1>5
<1> HIDE DEF rest, leaf, stale
<1>11. CASE /\ UNCHANGED nav
            /\ \E next \in rest : (\A n \in rest : next <= n) /\ Map!Goes(i, [y EXCEPT !.from = next, !.stale = s])
  <2>1. PICK n \in rest : (\A m \in rest : n <= m) /\ Map!Goes(i, [y EXCEPT !.from = n, !.stale = s])
    BY <1>11
  <2>2. MapKept' /\ Goes1
    BY <1>1, <1>11, QuietMap DEF MapKept
  <2> DEFINE x == [y EXCEPT !.from = n, !.stale = s]
  <2>3. Map!Goes(i, x)
    BY <1>11, <2>1
  <2>4. y \in [at : {y.at}, all : {y.all}, from : {y.from}, stale : {y.stale}]
    BY <1>1, <1>2 DEF MapInv, StageFits
  <2>5. /\ x.at = y.at /\ x.all = y.all /\ x.from = n /\ x.stale = s
        /\ x \in [at : {x.at}, all : {x.all}, from : {x.from}, stale : {x.stale}]
    BY <2>4
  <2> HIDE DEF x
  <2>6. x.at = "scroll"
    BY <1>1, <1>2, <2>5
  <2>7. \A m \in DOMAIN collection.points \ Map!Flatten : m >= x.from \/ m \in x.stale
    BY <1>8, <1>10, <2>1, <2>5
  <2>8. n \in Nat
    BY <1>10
  <2>9. /\ i = "command" => x.all \in BOOLEAN
        /\ i = "command" /\ x.all => maps.md = nav.release /\ maps.json = nav.release
    BY <1>1, <1>2, <2>5 DEF MapInv, StageFits
  <2>10. StageFits(i, x)
    BY <1>3, <1>8, <2>5, <2>6, <2>7, <2>8, <2>9 DEF StageFits
  <2>11. UNCHANGED <<collection, nav, maps>>
    BY <1>1, <1>11
  <2>12. StageFits(i, x)'
    BY <2>10, <2>11 DEF StageFits, AllStored, Map!Flatten, Map!Dim
  <2>13. QED
    BY <2>2, <2>3, <2>12, MapGoes
<1>12. CASE rest = {} /\ s # {} /\ UNCHANGED nav /\ Map!Goes(i, [at |-> "delete", all |-> all, stale |-> s])
  <2>1. MapKept' /\ Goes1
    BY <1>1, <1>12, QuietMap DEF MapKept
  <2> DEFINE x == [at |-> "delete", all |-> all, stale |-> s]
  <2>2. Map!Goes(i, x)
    BY <1>12
  <2>3. x.at = "delete" /\ x.all = all /\ x.stale = s
    OBVIOUS
  <2> HIDE DEF x
  <2>4. UNCHANGED <<collection, nav, maps>>
    BY <1>1, <1>12
  <2>5. StageFits(i, x)
    BY <1>3, <1>6, <1>8, <1>12, <2>3 DEF StageFits
  <2>6. StageFits(i, x)'
    BY <2>4, <2>5 DEF StageFits, AllStored, Map!Flatten, Map!Dim
  <2>7. QED
    BY <2>1, <2>2, <2>6, MapGoes
<1>13. CASE rest = {} /\ s = {} /\ Map!Goes(i, Map!Idle) /\ nav' = Map!Finished(i)
  <2>1. DOMAIN collection'.points \subseteq Map!Flatten
    BY <1>1, <1>8, <1>13
  <2>2. nav'.release = nav.release
    BY <1>1, <1>13 DEF MapKept, Map!Finished
  <2>3. AllStored'
    BY <1>1, <1>3, <2>2 DEF AllStored, Map!Flatten
  <2>4. QED
    BY <1>1, <1>13, <2>1, <2>3, FinishesMap DEF MapKept
<1>14. CASE Map!Fail /\ Map!Goes(i, Map!Idle)
  BY <1>1, <1>14, FailsMap
<1>15. QED
  BY <1>9, <1>11, <1>12, <1>13, <1>14

LEMMA DeletesMap == ASSUME MapInv, NEW i \in Map!Indexers, Map!Delete(i) PROVE MapInv'
<1>1. indexer[i].at = "delete" /\ maps' = maps /\ MapKept /\ Map!Goes(i, Map!Idle)
  BY DEF Map!Delete, Map!At, MapInv
<1>2. /\ collection.size = Map!Dim /\ AllStored /\ indexer[i].stale \cap Map!Flatten = {}
      /\ DOMAIN collection.points \ Map!Flatten \subseteq indexer[i].stale
  BY <1>1 DEF MapInv, StageFits
<1>3. CASE Map!Fail /\ UNCHANGED collection
  BY <1>1, <1>3, FailsMap
<1>4. CASE /\ collection' = [collection EXCEPT !.points = [n \in DOMAIN @ \ indexer[i].stale |-> @[n]]]
           /\ nav' = Map!Finished(i)
  <2> DEFINE P == [n \in DOMAIN collection.points \ indexer[i].stale |-> collection.points[n]]
  <2>1. collection' = [size |-> collection.size, points |-> P]
    BY <1>1, <1>4 DEF MapKept
  <2>2. collection'.size = collection.size /\ collection'.points = P
    BY <2>1
  <2>3. DOMAIN P = DOMAIN collection.points \ indexer[i].stale /\ \A n \in DOMAIN P : P[n] = collection.points[n]
    OBVIOUS
  <2> HIDE DEF P
  <2>4. nav'.release = nav.release
    BY <1>1, <1>4 DEF MapKept, Map!Finished
  <2>5. AllStored'
    BY <1>2, <2>2, <2>3, <2>4 DEF AllStored, Map!Flatten
  <2>6. DOMAIN collection'.points \subseteq Map!Flatten
    BY <1>2, <2>2, <2>3
  <2>7. collection' = [size |-> collection'.size, points |-> collection'.points]
    BY <2>1, <2>2
  <2>8. QED
    BY <1>1, <1>4, <2>2, <2>5, <2>6, <2>7, FinishesMap
<1>5. QED
  BY <1>3, <1>4 DEF Map!Delete

\* Of the next release nothing has gone through, and nobody works.
LEMMA DeploysMap == ASSUME MapInv, Map!Deploy PROVE MapInv'
<1>1. MapKept /\ UNCHANGED <<collection, maps>> /\ nav.release + 1 \in DOMAIN Trees
  BY DEF MapInv, Map!Deploy, Map!Releases
<1>2. PICK r \in DOMAIN Trees : r = nav.release + 1
  BY <1>1
<1>3. nav' = [nav EXCEPT !.release = r, !.serves = FALSE, !.opened = FALSE, !.firm = @ \cap Trees[r]]
  BY <1>2 DEF Map!Deploy
<1>4. /\ nav' \in [release : DOMAIN Trees, serves : BOOLEAN, faults : 0..NavFaults, firm : SUBSET (1..MaxNode),
                   clean : Nat, whole : Nat, opened : BOOLEAN]
      /\ nav'.release = r /\ nav'.opened = FALSE /\ nav'.firm = nav.firm \cap Trees[r]
      /\ nav'.clean = nav.clean /\ nav'.whole = nav.whole
  BY <1>1, <1>3 DEF MapKept
<1>5. nav.release \in Nat /\ nav.clean \in Nat /\ nav.whole \in Nat /\ nav.clean <= nav.release /\ nav.whole <= nav.release
  BY <1>1, Releases1 DEF MapKept
<1>6. r \in Nat /\ nav'.clean < r /\ nav'.whole < r
  BY <1>2, <1>4, <1>5
<1>7. ~ nav'.opened /\ Map!Flatten' = Trees[r]
  BY <1>4 DEF Map!Flatten
<1>8. nav'.firm \subseteq Map!Flatten' /\ nav'.firm \subseteq DOMAIN collection'.points
  BY <1>1, <1>4, <1>7 DEF MapKept
<1>9. nav'.clean <= nav'.release /\ nav'.whole <= nav'.release /\ nav'.clean # nav'.release /\ nav'.whole # nav'.release
  BY <1>4, <1>5, <1>6
<1>10. MapKept'
  BY <1>1, <1>4, <1>7, <1>8, <1>9 DEF MapKept
<1>11. indexer' = [j \in Map!Indexers |-> Map!Idle]
  BY DEF Map!Deploy
<1>12. ASSUME NEW j \in Map!Indexers PROVE StageFits(j, indexer[j])'
  <2>1. indexer'[j] = Map!Idle
    BY <1>11
  <2>2. indexer'[j].at = "idle"
    BY <2>1 DEF Map!Idle
  <2>3. QED
    BY <2>2 DEF StageFits
<1>13. indexer' = [j \in Map!Indexers |-> indexer'[j]]
  BY <1>11
<1>14. QED
  BY <1>10, <1>12, <1>13 DEF MapInv

LEMMA InductiveMap == ASSUME MapInv, [Map!Next]_(Map!navVars) PROVE MapInv'
<1>1. CASE UNCHANGED Map!navVars
  <2>1. UNCHANGED <<collection, indexer, maps, nav>>
    BY <1>1 DEF Map!navVars
  <2>2. MapKept' /\ AllStored' = AllStored
    BY <2>1 DEF MapInv, MapKept, AllStored, Map!Flatten, Map!Dim
  <2>3. ASSUME NEW i \in Map!Indexers PROVE StageFits(i, indexer[i])'
    <3>1. StageFits(i, indexer[i])
      BY DEF MapInv
    <3>2. QED
      BY <2>1, <2>2, <3>1 DEF StageFits, Map!Flatten, Map!Dim
  <2>4. QED
    BY <2>1, <2>2, <2>3 DEF MapInv
<1>2. CASE Map!Next
  BY <1>2, StartsMap, PanelMap, CommandMap, RendersMap, ExportsMap, DeploysMap, EnsuresMap, UpsertsMap, PrunesMap,
     DeletesMap DEF Map!Next
<1>3. QED
  BY <1>1, <1>2

LEMMA MapHolds ==
  ASSUME MapInv
  PROVE  Map!TypeOK /\ Map!AnswersKeepNodes /\ Map!PassCleansUp
<1>1. MapKept
  BY DEF MapInv
<1>2. Map!TypeOK
  BY <1>1 DEF MapKept, Map!TypeOK, Map!Releases
<1>3. Map!AnswersKeepNodes
  <2>1. Map!Search.found = DOMAIN collection.points /\ (Map!Search.ok <=> Map!Exists /\ Map!Fits)
    BY DEF Map!Search
  <2>2. nav.opened => Map!Exists /\ Map!Fits
    BY <1>1, Releases1 DEF MapKept, Map!Fits
  <2>3. nav.firm \subseteq DOMAIN collection.points
    BY <1>1 DEF MapKept
  <2>4. QED
    BY <2>1, <2>2, <2>3 DEF Map!AnswersKeepNodes
<1>4. Map!PassCleansUp
  <2>1. nav.clean = nav.release =>
          DOMAIN collection.points = Map!Flatten /\ \A n \in Map!Flatten : collection.points[n] = nav.release
    BY <1>1 DEF MapKept, AllStored
  <2>2. nav.whole = nav.release => maps = [md |-> nav.release, json |-> nav.release]
    BY <1>1 DEF MapKept
  <2>3. QED
    BY <2>1, <2>2 DEF Map!PassCleansUp
<1>5. QED
  BY <1>2, <1>3, <1>4

\* For any releases and vectors, however start, button and command overlap and
\* fail, a node once filled in is found while the index is rebuilt, and a pass
\* leaves the nodes of the release and no other (Indexer.Index, get_navigation).
THEOREM MapsAreComplete ==
  Map!Init /\ [][Map!Next]_(Map!navVars) => [](Map!TypeOK /\ Map!AnswersKeepNodes /\ Map!PassCleansUp)
BY InitMap, InductiveMap, MapHolds, PTL

------------------------------------------------------------------------------

(* The collectors as a whole. *)

\* Whichever part runs keeps the invariant of its own.
CollectInv == /\ \A p \in DOMAIN Watches : part = p => WatchInv(Watches[p])
              /\ \A p \in DOMAIN Sheets : part = p => CardInv(Sheets[p])
              /\ \A p \in DOMAIN Loads : part = p => LoadInv(Loads[p])
              /\ part = "walk" => WalkInv
              /\ part = "lists" => ListInv
              /\ part = "leaves" => LeafInv
              /\ part = "service" => BootInv
              /\ part = "versions" => VersionInv
              /\ part = "texts" => TextInv
              /\ part = "company" => CompanyInv
              /\ part = "map" => MapInv

LEMMA SettingsFit ==
  /\ \A p \in DOMAIN Watches : WatchFits(Watches[p])
  /\ \A p \in DOMAIN Sheets : CardFits(Sheets[p])
  /\ \A p \in DOMAIN Loads : LoadFits(Loads[p])
BY WatchesAssumption, SheetsAssumption, LoadsAssumption DEF WatchFits, CardFits, LoadFits

LEMMA PartStarts ==
  ASSUME Init
  PROVE  /\ \A p \in DOMAIN Watches : part = p => Watch(Watches[p])!Init
         /\ \A p \in DOMAIN Sheets : part = p => doc = <<>>
         /\ \A p \in DOMAIN Loads : part = p => Loading(Loads[p])!Init
         /\ part = "walk" => Walk!Init
         /\ part = "lists" => Lists!Init
         /\ part = "leaves" => Leaves!Init
         /\ part = "service" => Boot!Init
         /\ part = "versions" => Redactions!Init
         /\ part = "texts" => Texts!Init
         /\ part = "company" => Company!Init
         /\ part = "map" => Map!Init
BY PartsAssumption DEF Init, StartInit, CollectInit, ListInit, AnswerInit, OtherParts

LEMMA PartStays == ASSUME [Next]_vars PROVE part' = part
BY DEF Next, vars, WatchStep, ParserStep, LoadStep, WalkStep, ListStep, LeafStep, BootStep, VersionStep,
       TextStep, CompanyStep, MapStep, Gather, Read, Fetch, Visit, List, Serve, Answer

LEMMA PartGoesOn ==
  ASSUME Next
  PROVE  /\ \A p \in DOMAIN Watches : part = p => Watch(Watches[p])!Next
         /\ \A p \in DOMAIN Sheets : part = p => Parser(Sheets[p])!Next
         /\ \A p \in DOMAIN Loads : part = p => Loading(Loads[p])!Next
         /\ part = "walk" => Walk!Next
         /\ part = "lists" => Lists!Next
         /\ part = "leaves" => Leaves!Next
         /\ part = "service" => Boot!Next
         /\ part = "versions" => Redactions!Next
         /\ part = "texts" => Texts!Next
         /\ part = "company" => Company!Next
         /\ part = "map" => Map!Next
BY PartsAssumption
   DEF Next, WatchStep, ParserStep, LoadStep, WalkStep, ListStep, LeafStep, BootStep, VersionStep,
       TextStep, CompanyStep, MapStep, Gather, Read, Fetch, Visit, List, Serve, Answer, OtherParts

LEMMA PartStutters ==
  ASSUME UNCHANGED vars
  PROVE  /\ \A s : UNCHANGED Watch(s)!collectVars
         /\ UNCHANGED doc
         /\ \A s : UNCHANGED Loading(s)!vars
         /\ UNCHANGED Walk!vars
         /\ UNCHANGED <<table, asked>>
         /\ UNCHANGED Leaves!pagerVars
         /\ UNCHANGED Boot!vars
         /\ UNCHANGED Redactions!versionVars
         /\ UNCHANGED <<older, newer>>
         /\ UNCHANGED Company!eligibilityVars
         /\ UNCHANGED Map!navVars
BY DEF vars, collectVars, walkVars, listVars, serviceVars, versionVars, diffVars, companyVars, navVars, answerVars,
       Watch!collectVars, Loading!vars, Walk!vars, Leaves!pagerVars, Boot!vars, Boot!schemaVars,
       Redactions!versionVars, Company!eligibilityVars, Map!navVars

LEMMA InitCollect == ASSUME Init PROVE CollectInv
<1>1. /\ \A p \in DOMAIN Watches : part = p => WatchInv(Watches[p])
      /\ \A p \in DOMAIN Sheets : part = p => CardInv(Sheets[p])
      /\ \A p \in DOMAIN Loads : part = p => LoadInv(Loads[p])
  BY PartStarts, SettingsFit, InitWatch, InitCards, InitLoads
<1>2. QED
  BY <1>1, PartStarts, InitWalk, InitLists, InitLeaf, InitBoot, InitVersions, InitTexts, InitCompany, InitMap
     DEF CollectInv

LEMMA InductiveCollect == ASSUME CollectInv, [Next]_vars PROVE CollectInv'
<1>1. part' = part
  BY PartStays
<1>2. ASSUME NEW p \in DOMAIN Watches, part = p PROVE WatchInv(Watches[p])'
  <2>1. WatchInv(Watches[p]) /\ WatchFits(Watches[p])
    BY <1>2, SettingsFit DEF CollectInv
  <2>2. [Watch(Watches[p])!Next]_(Watch(Watches[p])!collectVars)
    BY <1>2, PartGoesOn, PartStutters
  <2>3. QED
    BY <2>1, <2>2, InductiveWatch
<1>3. ASSUME NEW p \in DOMAIN Sheets, part = p PROVE CardInv(Sheets[p])'
  <2>1. CardInv(Sheets[p]) /\ CardFits(Sheets[p])
    BY <1>3, SettingsFit DEF CollectInv
  <2>2. [Parser(Sheets[p])!Next]_doc
    BY <1>3, PartGoesOn, PartStutters
  <2>3. QED
    BY <2>1, <2>2, InductiveCards
<1>4. ASSUME NEW p \in DOMAIN Loads, part = p PROVE LoadInv(Loads[p])'
  <2>1. LoadInv(Loads[p]) /\ LoadFits(Loads[p])
    BY <1>4, SettingsFit DEF CollectInv
  <2>2. [Loading(Loads[p])!Next]_(Loading(Loads[p])!vars)
    BY <1>4, PartGoesOn, PartStutters
  <2>3. QED
    BY <2>1, <2>2, InductiveLoads
<1>5. (part = "walk" => WalkInv)'
  BY <1>1, PartGoesOn, PartStutters, InductiveWalk DEF CollectInv
<1>6. (part = "lists" => ListInv)'
  BY <1>1, PartGoesOn, PartStutters, InductiveLists DEF CollectInv
<1>7. (part = "leaves" => LeafInv)'
  BY <1>1, PartGoesOn, PartStutters, InductiveLeaf DEF CollectInv
<1>8. (part = "service" => BootInv)'
  BY <1>1, PartGoesOn, PartStutters, InductiveBoot DEF CollectInv
<1>9. (part = "versions" => VersionInv)'
  BY <1>1, PartGoesOn, PartStutters, InductiveVersions DEF CollectInv
<1>10. (part = "texts" => TextInv)'
  BY <1>1, PartGoesOn, PartStutters, InductiveTexts DEF CollectInv
<1>11. (part = "company" => CompanyInv)'
  BY <1>1, PartGoesOn, PartStutters, InductiveCompany DEF CollectInv
<1>12. (part = "map" => MapInv)'
  BY <1>1, PartGoesOn, PartStutters, InductiveMap DEF CollectInv
<1>13. QED
  BY <1>1, <1>2, <1>3, <1>4, <1>5, <1>6, <1>7, <1>8, <1>9, <1>10, <1>11, <1>12 DEF CollectInv

\* The parts whose settings are their parameters, each under its invariant.
LEMMA RunsPromise ==
  ASSUME CollectInv, NEW p \in DOMAIN Watches, part = p
  PROVE  /\ Watch(Watches[p])!TypeOK
         /\ Watch(Watches[p])!NewOnce
         /\ Watch(Watches[p])!FailureIsNoticed
BY SettingsFit, WatchHolds DEF CollectInv

LEMMA LoadsPromise ==
  ASSUME CollectInv, NEW p \in DOMAIN Loads, part = p
  PROVE  Loading(Loads[p])!TypeOK /\ Loading(Loads[p])!LiveTitlesAreFetched
BY SettingsFit, LoadHolds DEF CollectInv

\* Whatever part of the collectors runs, its state has its types.
THEOREM CollectTypeCorrect == Spec => []TypeOK
<1>1. CollectInv => TypeOK
  BY RunsPromise, LoadsPromise, WalkHolds, LeafHolds, BootHolds, VersionHolds, TextHolds, CompanyHolds, MapHolds
     DEF CollectInv, TypeOK
<1>2. QED
  BY <1>1, InitCollect, InductiveCollect, PTL DEF Spec

\* However the job and the command overlap, fail and restart, an entry with a
\* key of its own is announced as new at most once (IngestEvents and its like).
THEOREM CollectAnnouncesOnce == Spec => []NewOnce
<1>1. CollectInv => NewOnce
  BY RunsPromise DEF NewOnce
<1>2. QED
  BY <1>1, InitCollect, InductiveCollect, PTL DEF Spec

\* Three failed runs in a row that were recorded show the source as failing,
\* whatever runs overlapped them and whatever records were lost (Source.State,
\* Record).
THEOREM CollectNoticesFailure == Spec => []FailureIsNoticed
<1>1. CollectInv => FailureIsNoticed
  BY RunsPromise DEF FailureIsNoticed
<1>2. QED
  BY <1>1, InitCollect, InductiveCollect, PTL DEF Spec

\* On every page, of whatever boxes in whatever order, the entry of a key that
\* stays is of the innermost box, with text of its own (findEventCards and its
\* like, Upsert).
THEOREM CollectKeepsInnermost == Spec => []InnermostStays
<1>1. ASSUME CollectInv PROVE InnermostStays
  <2>1. ASSUME NEW p \in DOMAIN Sheets, part = p PROVE Parser(Sheets[p])!InnermostStays
    BY <1>1, <2>1, SettingsFit, CardHolds DEF CollectInv
  <2>2. QED
    BY <2>1 DEF InnermostStays
<1>2. QED
  BY <1>1, InitCollect, InductiveCollect, PTL DEF Spec

\* Nothing within reach is left out: no live title of a download but one whose
\* only file the listing wrote over meanwhile, no page of a walk, no migration
\* and no work of a start, no redaction beyond what faults account for, no page
\* of a pass over the site map (CollectViaCookie, EnumerateSite,
\* ApplyMigrations, cmdServe, downloadDocument, Indexer.Index).
THEOREM CollectMissesNothing == Spec => []NothingIsMissed
<1>1. CollectInv => NothingIsMissed
  BY LoadsPromise, WalkHolds, BootHolds, VersionHolds, MapHolds DEF CollectInv, NothingIsMissed
<1>2. QED
  BY <1>1, InitCollect, InductiveCollect, PTL DEF Spec

\* What is shown is what was asked for: the answers of the lists, within their
\* own periods and limits, the leaves of the site's pages, under the filters the
\* links hand on, the redactions compared and their difference, the verdict on a
\* company whose form is told plainly and the pages of the site map (Recent, ListEvents,
\* handleSitePagesPage, handleDiffPage, CompareDocuments, CheckByINN,
\* get_navigation).
THEOREM CollectShowsTrue == Spec => []ShownIsTrue
<1>1. CollectInv => ShownIsTrue
  BY ListHolds, LeafHolds, VersionHolds, TextHolds, CompanyHolds, MapHolds DEF CollectInv, ShownIsTrue
<1>2. QED
  BY <1>1, InitCollect, InductiveCollect, PTL DEF Spec

==============================================================================
