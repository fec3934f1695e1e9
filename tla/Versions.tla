------------------------------- MODULE Versions -------------------------------
(***************************************************************************)
(* The redactions of one document: the scraper downloads it, keeps a copy  *)
(* of the file it is about to overwrite and a row per redaction, and the   *)
(* page of comparisons shows the difference of the last two.  An edition   *)
(* is a number that stands for its body, its hash and its text; at each    *)
(* step something may fail, or the process stop.  The file is that of one  *)
(* document: that two whose addresses end alike share it, within a status  *)
(* and a category, is left out.                                            *)
(***************************************************************************)
EXTENDS Naturals, Sequences, FiniteSets, Functions

CONSTANTS Editions, MaxEdits, MaxFaults

VARIABLES site,             \* the edition the site offers
          row,              \* of the registry
          live,             \* the edition in the file of the document
          archive,          \* Архив/versions: hash -> edition
          versions,         \* doc_versions, in the order of version_no
          seen,             \* ghost: what the row has stood for, in order
          work,             \* the download that goes on
          card,             \* the page of comparisons
          spent             \* edits of the site and faults so far

versionVars == <<site, row, live, archive, versions, seen, work, card, spent>>

None == 0                   \* no row's hash, no file, no text
DocVersion == [hash : Editions, text : Editions \cup {None}]
Idle == [at |-> "idle"]
Unread == [at |-> "unread"]

Faults == spent.faults
CanFail == Faults < MaxFaults
Fail == CanFail /\ spent' = [spent EXCEPT !.faults = @ + 1]
Ok == UNCHANGED spent

(* Not known yet; known from the catalogue, without a file; downloaded     *)
(* before versions were kept.                                              *)
Init == /\ site \in Editions
        /\ \/ row = [known |-> FALSE, hash |-> None, path |-> FALSE]
           \/ row = [known |-> TRUE, hash |-> None, path |-> FALSE]
           \/ \E e \in Editions : row = [known |-> TRUE, hash |-> e, path |-> TRUE]
        /\ live = row.hash
        /\ archive = [e \in Editions |-> None]
        /\ versions = <<>>
        /\ seen = IF row.path THEN <<row.hash>> ELSE <<>>
        /\ work = Idle /\ card = Unread
        /\ spent = [edits |-> 0, faults |-> 0]

Publish == /\ spent.edits < MaxEdits
           /\ \E e \in Editions \ {site} : site' = e
           /\ spent' = [spent EXCEPT !.edits = @ + 1]
           /\ UNCHANGED <<row, live, archive, versions, seen, work, card>>

(* A row that cannot be read counts as none: the document is taken for a   *)
(* new one and nothing of the old is kept.                                 *)
download ==
  /\ work = Idle
  /\ \E known \in {row.known, FALSE} :
       /\ IF known = row.known THEN Ok ELSE Fail
       /\ ~(known /\ row.hash = site)
       /\ work' = [at |-> IF known /\ row.path THEN "archive" ELSE "write",
                   body |-> site, old |-> row.hash, text |-> None]
  /\ UNCHANGED <<site, row, live, archive, versions, seen, card>>

SaveVersion(hash, text) == versions' = Append(versions, [hash |-> hash, text |-> text])
CountVersions == Len(versions)

archiveFile ==
  /\ work.at = "archive"
  /\ \/ archive' = [archive EXCEPT ![work.old] = live]
        /\ work' = [work EXCEPT !.at = "keep", !.text = live] /\ Ok
     \/ UNCHANGED archive
        /\ work' = [work EXCEPT !.at = "keep", !.text = live] /\ Fail
     \/ archive' = [archive EXCEPT ![work.old] = live]
        /\ work' = [work EXCEPT !.at = "keep"] /\ Fail
  /\ UNCHANGED <<site, row, live, versions, seen, card>>

\* Mutant: the old redaction is entered whether the history has it or not.
archiveAnyVersion ==
  /\ work.at = "keep"
  /\ \/ Ok /\ SaveVersion(work.old, work.text)
     \/ Fail /\ UNCHANGED versions
  /\ work' = [work EXCEPT !.at = "write"]
  /\ UNCHANGED <<site, row, live, archive, seen, card>>

(* Only a history that is still empty takes the old redaction. *)
archiveOldVersion ==
  /\ work.at = "keep"
  /\ \/ Ok /\ IF CountVersions = 0 THEN SaveVersion(work.old, work.text)
              ELSE UNCHANGED versions
     \/ Fail /\ UNCHANGED versions
  /\ work' = [work EXCEPT !.at = "write"]
  /\ UNCHANGED <<site, row, live, archive, seen, card>>

(* A write that fails may have emptied the file. *)
WriteFile ==
  /\ work.at = "write"
  /\ \/ Ok /\ live' = work.body /\ work' = [work EXCEPT !.at = "upsert"]
     \/ Fail /\ live' \in {live, None} /\ work' = Idle
  /\ UNCHANGED <<site, row, archive, versions, seen, card>>

Upsert ==
  /\ work.at = "upsert"
  /\ \/ /\ Ok
        /\ row' = [known |-> TRUE, hash |-> work.body, path |-> TRUE]
        /\ seen' = IF seen # <<>> /\ seen[Len(seen)] = work.body THEN seen
                   ELSE Append(seen, work.body)
        /\ work' = [work EXCEPT !.at = "save"]
     \/ Fail /\ work' = Idle /\ UNCHANGED <<row, seen>>
  /\ UNCHANGED <<site, live, archive, versions, card>>

(* The text is read from the file, once more. *)
saveNewVersion ==
  /\ work.at = "save"
  /\ \/ Ok /\ SaveVersion(work.body, live)
     \/ Fail /\ (SaveVersion(work.body, None) \/ UNCHANGED versions)
  /\ work' = Idle
  /\ UNCHANGED <<site, row, live, archive, seen, card>>

Crash == /\ work # Idle /\ Fail
         /\ work' = Idle
         /\ UNCHANGED <<site, row, live, archive, versions, seen, card>>

(* The documents with two versions or more, then the two texts of each. *)
DocumentsWithVersions ==
  /\ card = Unread /\ CountVersions >= 2
  /\ card' = [at |-> "listed", newNo |-> CountVersions]
  /\ UNCHANGED <<site, row, live, archive, versions, seen, work, spent>>

LatestVersions == SubSeq(versions, CountVersions - 1, CountVersions)

handleDiffPage ==
  /\ card.at = "listed"
  /\ card' = [at |-> "shown", newNo |-> card.newNo, oldNo |-> CountVersions - 1,
              from |-> LatestVersions[1], to |-> LatestVersions[2]]
  /\ UNCHANGED <<site, row, live, archive, versions, seen, work, spent>>

Close == card.at = "shown" /\ card' = Unread
         /\ UNCHANGED <<site, row, live, archive, versions, seen, work, spent>>

Next == \/ Publish \/ download \/ archiveFile \/ archiveOldVersion \/ WriteFile \/ Upsert
        \/ saveNewVersion \/ Crash \/ DocumentsWithVersions \/ handleDiffPage \/ Close

------------------------------------------------------------------------------

TypeOK == /\ site \in Editions /\ live \in Editions \cup {None}
          /\ row \in [known : BOOLEAN, hash : Editions \cup {None}, path : BOOLEAN]
          /\ archive \in [Editions -> Editions \cup {None}]
          /\ seen \in Seq(Editions)
          /\ versions \in Seq(DocVersion)
          /\ Faults \in 0..MaxFaults

(* The place in seen of every version, in order. *)
Places == {f \in [1..CountVersions -> 1..Len(seen)] :
             /\ \A i \in 1..CountVersions : versions[i].hash = seen[f[i]]
             /\ \A i, j \in 1..CountVersions : i < j => f[i] <= f[j]}

Missed(f) == Cardinality(DOMAIN seen \ Range(f))
Doubled(f) == CountVersions - Cardinality(Range(f))

(* Once a document has a history, it follows the redactions in order, with *)
(* at most one of them missed, or entered twice, per fault; and it takes   *)
(* two faults for a version to hold the text of another redaction than the *)
(* one whose hash it carries.                                              *)
HistoryKept ==
  /\ Faults <= 1 => \A i \in 1..CountVersions : versions[i].text \in {versions[i].hash, None}
  /\ work = Idle /\ CountVersions > 0 =>
       \E f \in Places : Missed(f) + Doubled(f) <= Faults

(* Without a fault, what the page compares are two redactions that came    *)
(* one after the other, and the number it gives the newer is at most one   *)
(* above that of the older.                                                *)
ComparedFollow ==
  card.at = "shown" =>
    /\ card.newNo <= card.oldNo + 1
    /\ Faults = 0 => \E i \in 1..(Len(seen) - 1) :
                       card.from.text = seen[i] /\ card.to.text = seen[i + 1]

==============================================================================
