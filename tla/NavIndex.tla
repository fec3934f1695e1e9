------------------------------- MODULE NavIndex --------------------------------
(***************************************************************************)
(* The index of the site's own pages and blocks, from which the tool       *)
(* get_navigation answers: a collection of Qdrant that the start of the    *)
(* service, a button of the panel and a command fill from the tree the     *)
(* release carries, one beside another.  A deployment brings another tree, *)
(* and may bring vectors of another size.                                  *)
(***************************************************************************)
EXTENDS Naturals, FiniteSets

CONSTANTS Nodes,            \* ids of pages and blocks, in the order of the collection: 1..n
          Trees,            \* of each release, the ids Flatten yields
          Dims,             \* of each release, the size of its vectors
          PageSize,         \* of Scroll
          MaxFaults

Releases == DOMAIN Trees
Indexers == {"start", "panel", "command"}

VARIABLES collection,       \* none, or the size and the points: id -> release of its text
          indexer,          \* of each: how far it is
          maps,             \* the map and the JSON in the catalogue: their releases
          nav               \* release, whether it serves, faults, and ghosts

navVars == <<collection, indexer, maps, nav>>

Absent == [size |-> 0, points |-> <<>>]
Idle == [at |-> "idle"]
At(i, a) == indexer[i].at = a
Goes(i, x) == indexer' = [indexer EXCEPT ![i] = x]
CanFail == nav.faults < MaxFaults
Fail == CanFail /\ nav' = [nav EXCEPT !.faults = @ + 1]

Init == /\ collection = Absent
        /\ indexer = [i \in Indexers |-> Idle]
        /\ maps = [md |-> 0, json |-> 0]
        /\ nav = [release |-> 1, serves |-> FALSE, faults |-> 0,
                  firm |-> {}, clean |-> 0, whole |-> 0, opened |-> FALSE]

Flatten == Trees[nav.release]
Dim == Dims[nav.release]

Exists == collection # Absent

(* Refused if the collection holds vectors of another size. *)
Fits == ~Exists \/ collection.size = Dim
\* Mutant: the collection is created anew for every pass.
RecreateCollection == collection' = [size |-> Dim, points |-> <<>>]
EnsureCollection == collection' = IF Exists THEN collection ELSE [size |-> Dim, points |-> <<>>]

(* The service opens the collection before it serves, or goes on without;  *)
(* the index is filled beside its work.                                    *)
StartUp == /\ ~nav.serves
           /\ \/ /\ Fits /\ EnsureCollection
                 /\ nav' = [nav EXCEPT !.serves = TRUE, !.opened = TRUE]
              \/ /\ ~Fits
                 /\ nav' = [nav EXCEPT !.serves = TRUE, !.opened = FALSE] /\ UNCHANGED collection
              \/ /\ CanFail /\ UNCHANGED collection
                 /\ nav' = [nav EXCEPT !.serves = TRUE, !.opened = FALSE, !.faults = @ + 1]
           /\ Goes("start", [at |-> "ensure"])
           /\ UNCHANGED maps

handleAPINavIndex == /\ nav.serves /\ At("panel", "idle")
                     /\ Goes("panel", [at |-> "ensure"])
                     /\ UNCHANGED <<collection, maps, nav>>

(* The command writes the map, the JSON and the index, or one of them. *)
cmdNavIndex == /\ At("command", "idle")
               /\ \E a \in {"render", "export", "ensure"}, all \in BOOLEAN :
                    /\ all => a = "render"
                    /\ Goes("command", [at |-> a, all |-> all])
               /\ UNCHANGED <<collection, maps, nav>>

Render == /\ At("command", "render")
          /\ \/ /\ maps' = [maps EXCEPT !.md = nav.release] /\ UNCHANGED nav
                /\ Goes("command", IF indexer["command"].all THEN [at |-> "export", all |-> TRUE]
                                   ELSE Idle)
             \/ Fail /\ UNCHANGED maps /\ Goes("command", Idle)
          /\ UNCHANGED collection

Export == /\ At("command", "export")
          /\ \/ /\ maps' = [maps EXCEPT !.json = nav.release] /\ UNCHANGED nav
                /\ Goes("command", IF indexer["command"].all THEN [at |-> "ensure", all |-> TRUE]
                                   ELSE Idle)
             \/ Fail /\ UNCHANGED maps /\ Goes("command", Idle)
          /\ UNCHANGED collection

All(i) == i = "command" /\ indexer[i].all

Ensure(i) == /\ At(i, "ensure")
             /\ \/ /\ Fits /\ EnsureCollection /\ UNCHANGED nav
                   /\ Goes(i, [at |-> "upsert", all |-> All(i)])
                \/ ~Fits /\ Goes(i, Idle) /\ UNCHANGED <<collection, nav>>
                \/ Fail /\ Goes(i, Idle) /\ UNCHANGED collection
             /\ UNCHANGED maps

Written == [size |-> collection.size,
            points |-> [n \in DOMAIN collection.points \cup Flatten |->
                          IF n \in Flatten THEN nav.release ELSE collection.points[n]]]

(* All vectors first, and then one request with all points; one that is    *)
(* given up may have been carried out.                                     *)
Upsert(i) == /\ At(i, "upsert")
             /\ \/ /\ collection' = Written
                   /\ nav' = [nav EXCEPT !.firm = Flatten]
                   /\ Goes(i, [at |-> "scroll", all |-> All(i), from |-> 1, stale |-> {}])
                \/ Fail /\ collection' \in {collection, Written} /\ Goes(i, Idle)
             /\ UNCHANGED maps

Finished(i) == [nav EXCEPT !.clean = nav.release, !.whole = IF All(i) THEN nav.release ELSE @]

\* Mutant: the offset is taken for the last id that was listed.
RestBehind(from) == {n \in DOMAIN collection.points : n > from}

(* The first ids from an offset on, and the next offset, if there is one. *)
Rest(from) == {n \in DOMAIN collection.points : n >= from}
Scroll(from) == {n \in Rest(from) : Cardinality({m \in Rest(from) : m < n}) < PageSize}

pruneStale(i) ==
  /\ At(i, "scroll")
  /\ LET page == Scroll(indexer[i].from)
         rest == Rest(indexer[i].from) \ page
         stale == indexer[i].stale \cup (page \ Flatten)
     IN \/ /\ UNCHANGED nav
           /\ \E next \in rest : /\ \A n \in rest : next <= n
                                /\ Goes(i, [indexer[i] EXCEPT !.from = next, !.stale = stale])
        \/ /\ rest = {} /\ stale # {} /\ UNCHANGED nav
           /\ Goes(i, [at |-> "delete", all |-> All(i), stale |-> stale])
        \/ rest = {} /\ stale = {} /\ Goes(i, Idle) /\ nav' = Finished(i)
        \/ Fail /\ Goes(i, Idle)
  /\ UNCHANGED <<collection, maps>>

Delete(i) == /\ At(i, "delete")
             /\ \/ /\ collection' = [collection EXCEPT !.points =
                                [n \in DOMAIN @ \ indexer[i].stale |-> @[n]]]
                   /\ nav' = Finished(i)
                \/ Fail /\ UNCHANGED collection
             /\ Goes(i, Idle)
             /\ UNCHANGED maps

(* Without the collection, or with vectors of another size, an error.  A    *)
(* question may come at any moment.                                        *)
Search == [ok |-> Exists /\ Fits, found |-> DOMAIN collection.points]

(* Every process of the old release is gone. *)
Deploy == /\ nav.release + 1 \in Releases
          /\ nav' = [nav EXCEPT !.release = @ + 1, !.serves = FALSE, !.opened = FALSE,
                                !.firm = @ \cap Trees[nav.release + 1]]
          /\ indexer' = [i \in Indexers |-> Idle]
          /\ UNCHANGED <<collection, maps>>

Next == \/ StartUp \/ handleAPINavIndex \/ cmdNavIndex \/ Render \/ Export \/ Deploy
        \/ \E i \in Indexers : Ensure(i) \/ Upsert(i) \/ pruneStale(i) \/ Delete(i)

------------------------------------------------------------------------------

TypeOK == /\ collection.size \in {0} \cup {Dims[r] : r \in Releases}
          /\ DOMAIN collection.points \subseteq Nodes
          /\ nav.release \in Releases /\ nav.faults \in 0..MaxFaults

(* Whoever asks while the index is rebuilt, by one or by several, still    *)
(* finds every node that has been filled once and that no release has      *)
(* dropped since; and where the start has opened the collection a question *)
(* is not answered with an error.                                          *)
AnswersKeepNodes ==
  /\ nav.firm \subseteq Search.found
  /\ nav.serves /\ nav.opened => Search.ok

(* When a pass of this release has gone through, the index holds the       *)
(* release's nodes, with its texts, and nothing else, whatever other       *)
(* passes do after it; and after a whole command the map and the JSON are  *)
(* of that release too.                                                    *)
PassCleansUp ==
  /\ nav.clean = nav.release => /\ DOMAIN collection.points = Flatten
                                /\ \A n \in Flatten : collection.points[n] = nav.release
  /\ nav.whole = nav.release => maps = [md |-> nav.release, json |-> nav.release]

==============================================================================
