------------------------------- MODULE Listings -------------------------------
(***************************************************************************)
(* The lists the panel, the MCP tools and the portal draw from a table.    *)
(* A list narrows the table in SQL and in Go and cuts it at a limit; what  *)
(* is narrowed before the cut and what after it decides what is lost.  A   *)
(* row is known by its number in the order the list asks for (the newest   *)
(* first, residents by name), an answer is the set of its rows; the days   *)
(* of a period are the numbers of the rows at its ends.                    *)
(***************************************************************************)
EXTENDS Naturals, FiniteSets

CONSTANTS MaxRows,     \* bound: rows of the table
          Limits,        \* limits a caller asks for, 0 for none
          PageLimit      \* bound: the limits fixed in the code (50, 200, 500)

VARIABLES table,         \* per row: what it matches of the question
          asked          \* the question and its answer

Facets == {"text", "kind", "status", "tag"}
Period == {"from", "to"}
Numbers == DOMAIN table

(* from: this row and the newer ones; to: this row and the older ones;      *)
(* recent: the last row of the period a list takes of its own accord when   *)
(* the question gives no beginning (a month, a week in the tool), MaxRows   *)
(* for a list that takes none; offset: how many rows to pass over.          *)
Questions == [wants : SUBSET Facets, from : 0..MaxRows, to : 0..MaxRows, recent : 0..MaxRows,
              limit : Limits, offset : 0..MaxRows]

Asks(q, facet)   == facet \in q.wants
Since(q, i)      == i <= IF q.from = 0 THEN q.recent ELSE q.from
Until(q, i)      == i >= q.to
Has(q, i, facets) == q.wants \cap facets \subseteq table[i]

(* A limit lets the first n rows through, none lets all of them.            *)
Before(S, i) == Cardinality({j \in S : j < i})
Cut(S, n)    == {i \in S : n > 0 => Before(S, i) < n}

------------------------------------------------------------------------------
(* What the stores select. *)

(* The period counts only when both of its ends are given. *)
ListEvents(q) ==
  LET InPeriod(i) == (q.from # 0 /\ q.to # 0) => Since(q, i) /\ Until(q, i)
  IN  {i \in Numbers : Has(q, i, {"kind", "status"}) /\ InPeriod(i)}

ListContests(q)    == {i \in Numbers : Has(q, i, {"kind", "status"})}
ListPreferences(q) == {i \in Numbers : Has(q, i, {"kind", "status"})}
ListNPA(q)         == {i \in Numbers : Has(q, i, {"kind", "status"})}
ListFAQItems(q)    == {i \in Numbers : Has(q, i, {"kind"})}
ListResidents(q)   == {i \in Numbers : Has(q, i, {"kind", "status", "text"})}
GetDocumentLinks(q) == {i \in Numbers : Has(q, i, {"kind"})}
ListClients(q)     == {i \in Numbers : Has(q, i, {"kind"})}

(* Without a limit of its own a caller gets the store's. *)
Recent(q, limit, default) ==
  Cut({i \in Numbers : Since(q, i) /\ Has(q, i, {"kind", "status"})},
      IF limit = 0 THEN default ELSE limit)

(* An offset counts only beside a limit. *)
ListSitePages(q) ==
  LET found == {i \in Numbers : Since(q, i) /\ Until(q, i) /\ Has(q, i, Facets)}
  IN  {i \in found : q.limit > 0 => Before(found, i) \in q.offset..(q.offset + q.limit - 1)}

------------------------------------------------------------------------------
(* What the handlers make of it. *)

Words(S, q) == {i \in S : Has(q, i, {"text"})}

CutThenSearch(q)   == Words(Cut(ListNPA(q), q.limit), q)

SearchEvents(q)      == Cut(Words(ListEvents(q), q), q.limit)
SearchContests(q)    == Cut(Words(ListContests(q), q), q.limit)
SearchPreferences(q) == Cut(Words(ListPreferences(q), q), q.limit)
SearchNPA(q)         == Cut(Words(ListNPA(q), q), q.limit)
SearchFAQ(q)         == Cut(Words(ListFAQItems(q), q), q.limit)
SearchResidents(q)   == Cut(ListResidents(q), q.limit)
DocumentLinks(q)     == GetDocumentLinks(q)
RecentChanges(q)     == Recent(q, q.limit, PageLimit)

EventsAdmin(q)     == ListEvents([q EXCEPT !.from = 0, !.to = 0])
ContestsAdmin(q)   == ListContests(q)
RegulationsPage(q) == ListPreferences([q EXCEPT !.wants = {}])
ClientsList(q)     == Words(ListClients(q), q)
ClientsTool(q)     == Cut(ListClients(q), q.limit)
ClientsAPI(q)      == ListClients(q)

Documents(q) == {i \in Numbers : Has(q, i, Facets) /\ Since(q, i) /\ Until(q, i)}

(* The words, the end of the period and the tag are looked for among what    *)
(* the limit of the page has let through.                                   *)
ChangesPage(q) ==
  {i \in Recent(q, PageLimit, PageLimit) : Has(q, i, {"text", "tag"}) /\ Until(q, i)}
ChangesAPI(q) == {i \in Recent(q, PageLimit, PageLimit) : Has(q, i, {"tag"})}

SitePagesAPI(q) == ListSitePages(q)

(* Per list: what can be asked of it, the answer, and what the limit that    *)
(* cuts it counts.                                                          *)
Lists == {"events", "contests", "benefits", "acts", "faq", "residents", "links", "feed", "events page",
          "contests page", "regulations", "clients", "clients tool", "clients api", "documents", "changes", "changes api", "pages api"}

Offers(list) ==
  CASE list \in {"events"}                  -> {"text", "kind", "limit"} \cup Period
    [] list \in {"contests", "benefits", "acts"} -> {"text", "kind", "status", "limit"}
    [] list = "faq"                         -> {"text", "kind", "limit"}
    [] list = "residents"                   -> {"text", "kind", "status", "limit"}
    [] list = "links"                       -> {"kind"}
    [] list = "feed"                        -> {"kind", "status", "from", "recent", "limit"}
    [] list \in {"events page", "contests page"} -> {"status"}
    [] list = "regulations"                 -> {}
    [] list = "clients"                     -> {"kind", "text"}
    [] list = "clients tool"                -> {"kind", "limit"}
    [] list = "clients api"                 -> {"kind"}
    [] list = "documents"                   -> Facets \cup Period
    [] list = "changes"                     -> {"text", "kind", "tag", "recent"} \cup Period
    [] list = "changes api"                 -> {"kind", "tag", "from", "recent"}
    [] list = "pages api"                   -> {"text", "kind", "status", "tag", "limit", "offset"}

Answer(list, q) ==
  CASE list = "events"        -> SearchEvents(q)
    [] list = "contests"      -> SearchContests(q)
    [] list = "benefits"      -> SearchPreferences(q)
    [] list = "acts"          -> SearchNPA(q)
    [] list = "faq"           -> SearchFAQ(q)
    [] list = "residents"     -> SearchResidents(q)
    [] list = "links"         -> DocumentLinks(q)
    [] list = "feed"          -> RecentChanges(q)
    [] list = "events page"   -> EventsAdmin(q)
    [] list = "contests page" -> ContestsAdmin(q)
    [] list = "regulations"   -> RegulationsPage(q)
    [] list = "clients"       -> ClientsList(q)
    [] list = "clients tool"  -> ClientsTool(q)
    [] list = "clients api"   -> ClientsAPI(q)
    [] list = "documents"     -> Documents(q)
    [] list = "changes"       -> ChangesPage(q)
    [] list = "changes api"   -> ChangesAPI(q)
    [] list = "pages api"     -> SitePagesAPI(q)

(* Marks no question asks about make no difference and are left out.        *)
Tables(q) == UNION {[1..n -> SUBSET q.wants] : n \in 0..MaxRows}
Allowed(list, q) == /\ q.wants \subseteq Offers(list)
                    /\ q.from # 0 => "from" \in Offers(list)
                    /\ q.to # 0 => "to" \in Offers(list)
                    /\ q.recent # MaxRows => "recent" \in Offers(list)
                    /\ q.limit # 0 => "limit" \in Offers(list)
                    /\ q.offset # 0 => "offset" \in Offers(list)

Init == \E list \in Lists, q \in Questions :
          /\ Allowed(list, q)
          /\ table \in Tables(q)
          /\ asked = [list |-> list, q |-> q, shown |-> {}, open |-> TRUE]

Next == /\ asked.open
        /\ asked' = [asked EXCEPT !.shown = Answer(asked.list, asked.q), !.open = FALSE]
        /\ UNCHANGED table

------------------------------------------------------------------------------

Matches == {i \in Numbers : /\ asked.q.wants \subseteq table[i]
                            /\ Since(asked.q, i) /\ Until(asked.q, i)}

(* What the limit of a list counts: on the pages of the changes the rows    *)
(* the store lets through, elsewhere the rows that are shown.               *)
LimitOf == CASE asked.list \in {"changes", "changes api"} -> PageLimit
             [] asked.list = "feed" /\ asked.q.limit = 0 -> PageLimit
             [] OTHER -> asked.q.limit
Counted == IF asked.list \in {"changes", "changes api"}
             THEN {i \in Numbers : Since(asked.q, i) /\ Has(asked.q, i, {"kind"})}
             ELSE Matches

(* A list shows no row that was not asked for, where a question without a   *)
(* beginning asks the lists of the changes for their own period, and a row  *)
(* that was asked for is kept back only before the offset or behind as many *)
(* newer ones after it as the limit counts.  The search of events is left   *)
(* out when only one end of the period is given: the store then looks at    *)
(* neither.                                                                *)
AnswersTheQuestion ==
  ~asked.open /\ ~(asked.list = "events" /\ (asked.q.from = 0) # (asked.q.to = 0)) =>
    /\ asked.shown \subseteq Matches
    /\ \A i \in Matches \ asked.shown :
         LimitOf > 0 /\ (\/ Before(Counted, i) < asked.q.offset
                        \/ Before(Counted, i) >= asked.q.offset + LimitOf)

==============================================================================
