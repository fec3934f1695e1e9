-------------------------------- MODULE Paging --------------------------------
(***************************************************************************)
(* An administrator reads the list of the site's pages leaf by leaf, by    *)
(* the link to the next one, while crawls and annotation change the table. *)
(* The list holds the pages that match the filter, the last changed first; *)
(* a leaf is counted by one query and filled by another.  One filter, that *)
(* of the pages whose annotation failed, is not handed on by the links.    *)
(***************************************************************************)
EXTENDS Integers, Sequences, FiniteSets, Functions

CONSTANTS Pages,       \* pages that come to match the filter
          PerPage,       \* rows of a leaf
          Window,        \* leaves a leaf links to (7 in the code)
          MaxTouches     \* bound: changes of the table

VARIABLES list,        \* the matching pages in the order of last_changed
          reader,        \* the list and the leaf asked for, what was counted and seen
          fresh,         \* pages changed, or come to match, since the reading began
          touches

pagerVars == <<list, reader, fresh, touches>>

(* On a leaf of the list: its number, how many leaves there were, what it links to. *)
Leaf(n, total, links) == [n |-> n, leaves |-> total, links |-> links]

TypeOK == /\ list \in Seq(Pages) /\ IsInjective(list)
          /\ reader.step \in {"count", "list", "reading", "done", "astray"}
          /\ reader.seen \subseteq Pages /\ fresh \subseteq Pages
          /\ reader.left \in 0..MaxTouches /\ reader.pushed \in 0..MaxTouches

Init == /\ \E n \in 0..Cardinality(Pages) : list \in {s \in [1..n -> Pages] : IsInjective(s)}
        /\ \E onlyErrors \in BOOLEAN :
             reader = [step |-> "count", onlyErrors |-> onlyErrors, leaf |-> Leaf(1, 1, {}),
                       total |-> 0, seen |-> {}, left |-> 0, pushed |-> 0]
        /\ fresh = {} /\ touches = 0

------------------------------------------------------------------------------
(* The reader. *)

Larger(a, b)  == IF a > b THEN a ELSE b
Smaller(a, b) == IF a < b THEN a ELSE b

LeavesOf(total) == Larger(1, (total + PerPage - 1) \div PerPage)

(* A window of leaves around the current one, drawn back at the end. *)
sitePagesPageLinks(page, leaves) ==
  IF leaves <= 1 THEN {}
  ELSE LET ahead == Larger(1, page - Window \div 2)
           last  == Smaller(leaves, ahead + Window - 1)
       IN  Larger(1, last - Window + 1)..last

(* A leaf past the end is the last one. *)
CountFiltered ==
  /\ reader.step = "count"
  /\ LET leaves == LeavesOf(Len(list))
         n      == Smaller(reader.leaf.n, leaves)
     IN  reader' = [reader EXCEPT !.step = "list", !.pushed = 0, !.total = Len(list),
                                  !.leaf = Leaf(n, leaves, sitePagesPageLinks(n, leaves))]
  /\ UNCHANGED <<list, fresh, touches>>

Rows(n) == LET from == (n - 1) * PerPage
           IN  {list[i] : i \in (from + 1)..Smaller(from + PerPage, Len(list))}

ShowLeaf ==
  /\ reader.step = "list"
  /\ reader' = [reader EXCEPT !.seen = @ \cup Rows(reader.leaf.n),
                              !.step = IF reader.leaf.n < reader.leaf.leaves THEN "reading" ELSE "done"]
  /\ UNCHANGED <<list, fresh, touches>>

\* Mutant: the link names the leaf at hand plus two.
SkipURL ==
  /\ reader.step = "reading" /\ ~reader.onlyErrors
  /\ reader' = [reader EXCEPT !.step = "count", !.leaf = Leaf(@.n + 2, 1, {})]
  /\ UNCHANGED <<list, fresh, touches>>

(* The link to the next leaf keeps the words, the section, the state, the   *)
(* tags, the dates and the size (sitePagesPageURL).                         *)
NextURL ==
  /\ reader.step = "reading" /\ ~reader.onlyErrors
  /\ reader' = [reader EXCEPT !.step = "count", !.leaf = Leaf(@.n + 1, 1, {})]
  /\ UNCHANGED <<list, fresh, touches>>

(* It drops enrich=errors: the leaf it leads to is of the list of all pages, *)
(* and no link leads back.                                                  *)
LosesFilter ==
  /\ reader.step = "reading" /\ reader.onlyErrors
  /\ reader' = [reader EXCEPT !.step = "astray"]
  /\ UNCHANGED <<list, fresh, touches>>

------------------------------------------------------------------------------
(* The table. *)

Listed(p)  == p \in Range(list)
PlaceOf(p) == CHOOSE i \in DOMAIN list : list[i] = p
Without(p) ==
  IF Listed(p) THEN SubSeq(list, 1, PlaceOf(p) - 1) \o SubSeq(list, PlaceOf(p) + 1, Len(list)) ELSE list

Touch(p, to) == /\ touches < MaxTouches /\ reader.step \notin {"done", "astray"}
                /\ touches' = touches + 1
                /\ list' = to
                /\ fresh' = fresh \cup {p}

(* A page whose text has changed, or that is found gone, is the last        *)
(* changed; it may match the filter no more, or now.                        *)
Upsert(p, matches) ==
  /\ Listed(p) \/ matches
  /\ Touch(p, IF matches THEN <<p>> \o Without(p) ELSE Without(p))
  /\ reader' = [reader EXCEPT !.left = @ + (IF Listed(p) /\ ~matches THEN 1 ELSE 0),
                              !.pushed = @ + (IF Listed(p) THEN 0 ELSE 1)]

(* Annotation gives a page tags and a summary without moving it: it comes   *)
(* into the list at its place.                                              *)
SaveEnrichment(p, i) ==
  /\ ~Listed(p)
  /\ Touch(p, SubSeq(list, 1, i - 1) \o <<p>> \o SubSeq(list, i, Len(list)))
  /\ reader' = [reader EXCEPT !.pushed = @ + 1]

DeleteByIDs(p) ==
  /\ Listed(p)
  /\ Touch(p, Without(p))
  /\ reader' = [reader EXCEPT !.left = @ + 1]

Next == \/ CountFiltered \/ ShowLeaf \/ NextURL \/ LosesFilter
        \/ \E p \in Pages : \/ \E matches \in BOOLEAN : Upsert(p, matches)
                            \/ \E i \in 1..(Len(list) + 1) : SaveEnrichment(p, i)
                            \/ DeleteByIDs(p)

------------------------------------------------------------------------------

Missed == Range(list) \ (reader.seen \cup fresh)

(* Who reads to the last leaf misses of the pages that stayed as they were   *)
(* at most one for each page that left the list meanwhile, and for each that *)
(* came into it between the count of the last leaf and its rows.             *)
MissedAtMostMoved == reader.step = "done" => Cardinality(Missed) <= reader.left + reader.pushed

(* A leaf links by number to itself and its neighbours, and to no leaf there *)
(* is not.                                                                   *)
LinksLeadOn ==
  reader.step = "reading" =>
    LET leaf == reader.leaf IN
    /\ leaf.links \subseteq 1..leaf.leaves
    /\ {leaf.n, leaf.n + 1} \subseteq leaf.links
    /\ leaf.n > 1 => leaf.n - 1 \in leaf.links
    /\ Cardinality(leaf.links) = Smaller(Window, leaf.leaves)

==============================================================================
