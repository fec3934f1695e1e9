--------------------------------- MODULE Cards --------------------------------
(***************************************************************************)
(* How the collectors find entries in a page.  A page is its nodes in the  *)
(* order in which a walk meets them, each with its depth; the model writes *)
(* it node by node, so that every small page is met.  A text is the set of *)
(* the nodes that hold it: different nodes hold different texts.           *)
(***************************************************************************)
EXTENDS Naturals, Sequences, FiniteSets

CONSTANTS Site,        \* the collector: "events", "contests", "regulations", "preferences", "faq", "residents"
          Kinds,         \* kinds of node its pages are made of
          MaxNodes       \* bound: nodes of a page

VARIABLE doc           \* the page

Boxes  == {"card", "item", "article", "list", "li", "table", "tbody", "tr", "faq-item",
           "content", "details", "faq"}
Links  == {"link", "elsewhere", "title", "image"}     \* "elsewhere" leads out, "image" has no text
Texts  == {"heading", "link", "elsewhere", "title", "p", "revoked", "question", "answer", "summary"}
Address(k) == IF k = "elsewhere" THEN {"out"} ELSE {"in"}

Init == doc = <<>>

Append1(depth, kind) ==
  /\ Len(doc) < MaxNodes
  /\ doc = <<>> => depth = 0
  /\ doc # <<>> => depth <= doc[Len(doc)].depth + (IF doc[Len(doc)].kind \in Boxes THEN 1 ELSE 0)
  /\ doc' = Append(doc, [depth |-> depth, kind |-> kind])

Next == \E depth \in 0..MaxNodes, kind \in Kinds : Append1(depth, kind)

------------------------------------------------------------------------------

Nodes == 1..Len(doc)
Under(i) == {j \in i..Len(doc) : \A k \in (i + 1)..j : doc[k].depth > doc[i].depth}
Children(i) == {j \in Under(i) : doc[j].depth = doc[i].depth + 1}
Of(kinds, S) == {i \in S : doc[i].kind \in kinds}
First(S) == CHOOSE i \in S : \A j \in S : i <= j
Last(S)  == CHOOSE i \in S : \A j \in S : i >= j

nodeText(i) == Of(Texts, Under(i))

findLink(i) == LET A == Of(Links, Under(i)) IN IF A = {} THEN {} ELSE Address(doc[First(A)].kind)

(* The title is the first heading or title link, else the whole text; the   *)
(* address is that of the title link, else of the first link.              *)
Card(i) ==
  LET heads == Of({"heading", "title"}, Under(i)) IN
  [key  |-> IF heads # {} /\ doc[First(heads)].kind = "title" THEN {"in"} ELSE findLink(i),
   text |-> IF heads = {} THEN nodeText(i) ELSE nodeText(First(heads)),
   more |-> {}]

extractCard(i) == Card(i)
extractContestCard(i) == Card(i)
extractPreferenceCard(i) == [Card(i) EXCEPT !.more = nodeText(i) \ Card(i).text]

(* A card tells whether the act is revoked anywhere in its text, a row does *)
(* not look.                                                                *)
extractRegulationCard(i) == [Card(i) EXCEPT !.more = Of({"revoked"}, Under(i))]
extractRegulationRow(i) ==
  LET A == Of(Links, Under(i))
      T == Of(Links \ {"image"}, Under(i)) IN
  [key |-> findLink(i), text |-> IF T = {} THEN {} ELSE {First(T)}, more |-> {}]

(* The question is the first of its kind, the answer the last outermost.    *)
findFAQQuestion(i) == LET Q == Of({"question", "heading"}, Under(i)) IN
                      IF Q = {} THEN {} ELSE nodeText(First(Q))
findFAQAnswer(i) ==
  LET Fits(j)  == nodeText(j) \notin {{}, findFAQQuestion(i)}
      A        == {j \in Of({"answer", "content"}, Under(i)) : Fits(j)}
      outer    == {j \in A : ~\E k \in A \ {j} : j \in Under(k)}
  IN IF A # {} THEN nodeText(Last(outer))
     ELSE IF findFAQQuestion(i) # {} /\ First(nodeText(i)) = First(findFAQQuestion(i))
          THEN nodeText(i) \ findFAQQuestion(i) ELSE nodeText(i)

extractFAQEntry(i) == [key |-> findFAQQuestion(i), text |-> findFAQAnswer(i), more |-> {}]

extractFAQFromDetails(i) ==
  LET S == Of({"summary"}, Under(i))
      q == IF S = {} THEN nodeText(i) ELSE nodeText(First(S))
  IN [key |-> q, text |-> nodeText(i) \ (q \cup S), more |-> {}]

------------------------------------------------------------------------------

(* The nodes a strategy looks at, and the entry each yields; the first      *)
(* strategy that yields any is the last one tried.                          *)
Entry(i, e) == [at |-> i, entry |-> e]
Whole(E) == {x \in E : x.entry.key # {} /\ x.entry.text # {}}
FirstThatYields(s1, s2, s3, s4) ==
  IF s1 # {} THEN s1 ELSE IF s2 # {} THEN s2 ELSE IF s3 # {} THEN s3 ELSE s4

Listed == UNION {Of({"li"}, Children(i)) : i \in Of({"list"}, Nodes)}
Linked == {Entry(i, [key |-> {"in"}, text |-> {i}, more |-> {}]) : i \in Of({"link", "title"}, Nodes)}

findEventCards ==
  LET Cards(S) == Whole({Entry(i, extractCard(i)) : i \in S}) IN
  FirstThatYields(Cards(Of({"card"}, Nodes)), Cards(Of({"article"}, Nodes)), Cards(Listed), Linked)

findContestCards ==
  LET Cards(S) == Whole({Entry(i, extractContestCard(i)) : i \in S}) IN
  FirstThatYields(Cards(Of({"card", "item"}, Nodes)), Cards(Of({"article"}, Nodes)),
                  Cards(Listed), Linked)

findPreferenceCards ==
  LET Cards(S) == Whole({Entry(i, extractPreferenceCard(i)) : i \in S}) IN
  FirstThatYields(Cards(Of({"card"}, Nodes)), Cards(Of({"article"}, Nodes)), Cards(Listed), Linked)

findRegulationCards ==
  LET Cards(S) == Whole({Entry(i, extractRegulationCard(i)) : i \in S})
      bodies   == UNION {Of({"tbody"}, Children(i)) : i \in Of({"table"}, Nodes)}
      trs      == UNION {Of({"tr"}, Children(i)) : i \in bodies}
  IN FirstThatYields(Cards(Of({"card"}, Nodes)), Cards(Of({"article"}, Nodes)),
                     Whole({Entry(i, extractRegulationRow(i)) : i \in trs}), Linked)

(* Below the first node of the FAQ each heading is answered by the first    *)
(* paragraph or box with a text before the next heading.                   *)
findFAQSections ==
  LET roots == Of({"faq", "faq-item"}, Nodes)
      H     == Of({"heading"}, Under(First(roots)))
      Blocks(h) == {j \in Of({"p", "content", "faq", "faq-item"}, Under(First(roots))) :
                      j > h /\ nodeText(j) # {} /\ ~\E g \in H : h < g /\ g < j}
  IN IF roots = {} THEN {}
     ELSE {Entry(h, [key |-> {h}, text |-> nodeText(First(Blocks(h))), more |-> {}]) :
             h \in {g \in H : Blocks(g) # {}}}

findFAQItems ==
  FirstThatYields(Whole({Entry(i, extractFAQEntry(i)) : i \in Of({"faq-item"}, Nodes)}),
                  Whole({Entry(i, extractFAQFromDetails(i)) : i \in Of({"details"}, Nodes)}),
                  findFAQSections, {})

(* The first link to each profile, wherever it stands.                     *)
parseResidentsHTML == IF Linked = {} THEN {}
                      ELSE {x \in Linked : \A y \in Linked : x.at <= y.at}

Found == CASE Site = "events" -> findEventCards
           [] Site = "contests" -> findContestCards
           [] Site = "regulations" -> findRegulationCards
           [] Site = "preferences" -> findPreferenceCards
           [] Site = "faq" -> findFAQItems
           [] Site = "residents" -> parseResidentsHTML

(* Entries of a list or a table are found after those of the lists around   *)
(* it, all others as the walk meets them; they are written in this order,   *)
(* so the last entry of a key stays.                                       *)
Home(x) == LET around == {i \in Of({"list", "table"}, Nodes) : x.at \in Under(i) /\ i # x.at} IN
           IF doc[x.at].kind \in {"li", "tr"} THEN Last(around) ELSE x.at
\* Mutant: the first entry of a key stays.
Sooner(x, y) == \/ Home(x) < Home(y)
                \/ Home(x) = Home(y) /\ x.at <= y.at

Later(x, y) == \/ Home(x) > Home(y)
               \/ Home(x) = Home(y) /\ x.at >= y.at

Stays(key) == LET E == {x \in Found : x.entry.key = key} IN
              CHOOSE x \in E : \A y \in E : Later(x, y)

------------------------------------------------------------------------------

(* What a box around several entries yields never stays in the place of an  *)
(* entry of its own: no entry that stays is found around another of its     *)
(* key, nor takes anything from beyond the box it is found in.              *)
InnermostStays ==
  \A x \in Found :
    LET s == Stays(x.entry.key) IN
    /\ ~\E y \in Found : y.entry.key = x.entry.key /\ y.at # s.at /\ y.at \in Under(s.at)
    /\ s.entry.text \cup s.entry.more \subseteq
         (IF doc[s.at].kind = "heading" THEN Nodes ELSE Under(s.at))
==============================================================================
