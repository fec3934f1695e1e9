------------------------------- MODULE SiteWalk ------------------------------
(***************************************************************************)
(* The walk over the section of documents with a browser, taken when the   *)
(* HTTP listing gave nothing (fetcher.go, EnumerateSite): breadth first    *)
(* from the start page, the category pages and the sitemap, a page once,   *)
(* no more than maxPages of them.  The site is any graph of pages.         *)
(***************************************************************************)
EXTENDS Naturals, Sequences, FiniteSets

CONSTANTS Pages,        \* pages of the section, numbered
          Limits        \* the values of maxPages

VARIABLES links,        \* the site: page -> the pages it links to
          maxPages,
          queue, visited,
          lost          \* pages that could not be loaded

vars == <<links, maxPages, queue, visited, lost>>

Seed == 1

(* The pages of a set in any order, each once. *)
Orders(S) == {s \in [1..Cardinality(S) -> S] : {s[i] : i \in DOMAIN s} = S}

(* Any site, and the start page alone in the queue, or with the pages of   *)
(* the sitemap behind it.                                                  *)
Init == /\ links \in [Pages -> SUBSET Pages]
        /\ maxPages \in Limits
        /\ \E sitemap \in SUBSET (Pages \ {Seed}) :
             \E s \in Orders(sitemap) : queue = <<Seed>> \o s
        /\ visited = {} /\ lost = {}

\* Mutant: the limit is looked at one page too late.
WalkingOn == queue # <<>> /\ Cardinality(visited) <= maxPages
Walking == queue # <<>> /\ Cardinality(visited) < maxPages

(* A page already visited is dropped from the queue. *)
Drop == /\ Walking /\ Head(queue) \in visited
        /\ queue' = Tail(queue)
        /\ UNCHANGED <<links, maxPages, visited, lost>>

(* The links not visited yet join the queue as the page has them, those    *)
(* waiting in it too.                                                      *)
Crawl == /\ Walking /\ Head(queue) \notin visited
         /\ LET p == Head(queue)
            IN  /\ visited' = visited \cup {p}
                /\ \E s \in Orders(links[p] \ visited') : queue' = Tail(queue) \o s
         /\ UNCHANGED <<links, maxPages, lost>>

(* A page that does not load counts as visited. *)
Fails == /\ Walking /\ Head(queue) \notin visited
         /\ visited' = visited \cup {Head(queue)}
         /\ lost' = lost \cup {Head(queue)}
         /\ queue' = Tail(queue)
         /\ UNCHANGED <<links, maxPages>>

Next == Drop \/ Crawl \/ Fails

Spec == Init /\ [][Next]_vars

------------------------------------------------------------------------------

TypeOK == /\ visited \subseteq Pages /\ lost \subseteq visited
          /\ queue \in Seq(Pages) /\ maxPages \in Limits

(* When the walk ends under its limit, whatever a loaded page links to was *)
(* visited, so no page of documents that the walk could have come to is    *)
(* missing; and it never loads more than maxPages (EnumerateSite).         *)
WalkIsComplete ==
  /\ Cardinality(visited) <= maxPages
  /\ queue = <<>> => \A p \in visited \ lost : links[p] \subseteq visited

==============================================================================
