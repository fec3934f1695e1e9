-------------------------------- MODULE Compare --------------------------------
(***************************************************************************)
(* The comparison of two texts line by line (package diff), for all texts  *)
(* up to a length: a behaviour writes the two, line after line, and at     *)
(* each state the page of their difference is looked at.                   *)
(***************************************************************************)
EXTENDS Naturals, Sequences, FiniteSets

CONSTANTS Lines, MaxLines

VARIABLES older, newer      \* the texts, as strings.Split cuts them

Init == older = <<"">> /\ newer = <<"">>

(* What stands behind the last line break grows, or a break is added. *)
Fill(t) == {[t EXCEPT ![Len(t)] = l] : l \in Lines}
Break(t) == Append(t, "")

Next == \/ older[Len(older)] = "" /\ older' \in Fill(older) /\ UNCHANGED newer
        \/ Len(older) < MaxLines /\ older' = Break(older) /\ UNCHANGED newer
        \/ newer[Len(newer)] = "" /\ newer' \in Fill(newer) /\ UNCHANGED older
        \/ Len(newer) < MaxLines /\ newer' = Break(newer) /\ UNCHANGED older

(* The empty piece behind the last line break is no line. *)
splitLines(t) == IF t[Len(t)] = "" THEN SubSeq(t, 1, Len(t) - 1) ELSE t

\* Mutant: the smaller of the two is taken.
Smaller(m, n) == IF m <= n THEN m ELSE n
Larger(m, n) == IF m >= n THEN m ELSE n

\* So many lines of the one text, so many of the other.
Cells(a, b) == (0..Len(a)) \X (0..Len(b))

computeLCS(a, b) ==
  LET dp[c \in Cells(a, b)] ==
        LET i == c[1]
            j == c[2]
        IN IF i = 0 \/ j = 0 THEN 0
           ELSE IF a[i] = b[j] THEN dp[<<i - 1, j - 1>>] + 1
           ELSE Larger(dp[<<i - 1, j>>], dp[<<i, j - 1>>])
  IN dp

(* Backwards from the end; where the two ways are equal, a line is added   *)
(* last.                                                                   *)
buildDiff(a, b, lcs) ==
  LET walk[c \in Cells(a, b)] ==
        LET i == c[1]
            j == c[2]
        IN IF i = 0 /\ j = 0 THEN <<>>
           ELSE IF i > 0 /\ j > 0 /\ a[i] = b[j] THEN walk[<<i - 1, j - 1>>]
           ELSE IF j > 0 /\ (i = 0 \/ lcs[<<i, j - 1>>] >= lcs[<<i - 1, j>>])
                THEN Append(walk[<<i, j - 1>>], [type |-> "added", line |-> j])
           ELSE Append(walk[<<i - 1, j>>], [type |-> "removed", line |-> i])
  IN walk[<<Len(a), Len(b)>>]

\* The places of the changes of a type.
OfType(changes, type) == {n \in DOMAIN changes : changes[n].type = type}

(* No unchanged line comes between the changes, so all are one section. *)
groupIntoSections(changes) ==
  [added |-> OfType(changes, "added"), removed |-> OfType(changes, "removed"),
   sections |-> IF changes = <<>> THEN <<>> ELSE <<changes>>]

CompareDocuments(a, b) ==
  LET la == splitLines(a)
      lb == splitLines(b)
  IN groupIntoSections(buildDiff(la, lb, computeLCS(la, lb)))

deriveSectionTitle(changes) ==
  IF OfType(changes, "added") = {} THEN "removed"
  ELSE IF OfType(changes, "removed") = {} THEN "added" ELSE "changed"

(* The lines, with the title of their section; where there is no section    *)
(* there are no lines either that could be drawn outside of one; or a word  *)
(* that nothing has changed.                                               *)
ToHTML(diff) ==
  [titles |-> [n \in DOMAIN diff.sections |-> deriveSectionTitle(diff.sections[n])],
   lines |-> IF diff.sections # <<>> THEN Head(diff.sections) ELSE <<>>,
   unchanged |-> diff.sections = <<>> /\ diff.added = {} /\ diff.removed = {}]

(* The page of the last two versions, and what the API answers of any two  *)
(* documents.                                                              *)
handleDiffFull(a, b) == ToHTML(CompareDocuments(a, b))
handleAPIDiff(a, b) == LET diff == CompareDocuments(a, b)
                       IN [added |-> Cardinality(diff.added), removed |-> Cardinality(diff.removed),
                           html |-> ToHTML(diff)]

------------------------------------------------------------------------------

TypeOK == older \in Seq(Lines \cup {""}) /\ newer \in Seq(Lines \cup {""})

(* The lines the changes of a type name. *)
Named(changes, type) == {changes[n].line : n \in OfType(changes, type)}

(* n of m lines in their order; lines p of a that read like lines q of b.   *)
Picks(n, m) == {p \in [1..n -> 1..m] : \A k, l \in 1..n : k < l => p[k] < p[l]}
ReadAlike(a, p, b, q) == \A k \in DOMAIN p : a[p[k]] = b[q[k]]

(* Without the removed lines the older text is the newer without the added *)
(* ones; no shorter list of changes would do, as no more lines than these   *)
(* stand in both texts in one order; every change is named once, in the     *)
(* order of the text, and counted; and the page says that nothing has       *)
(* changed of equal texts and of no others.                                *)
DifferenceIsExact ==
  LET a == splitLines(older)
      b == splitLines(newer)
      api == handleAPIDiff(older, newer)
      page == handleDiffFull(older, newer)
      kept == Len(a) - api.removed
  IN /\ page = api.html
     /\ kept = Len(b) - api.added
     /\ \E p \in Picks(kept, Len(a)), q \in Picks(kept, Len(b)) :
          /\ {p[k] : k \in 1..kept} = DOMAIN a \ Named(page.lines, "removed")
          /\ {q[k] : k \in 1..kept} = DOMAIN b \ Named(page.lines, "added")
          /\ ReadAlike(a, p, b, q)
     /\ \A p \in Picks(kept + 1, Len(a)), q \in Picks(kept + 1, Len(b)) : ~ReadAlike(a, p, b, q)
     /\ Len(page.lines) = api.added + api.removed
     /\ \A m, n \in DOMAIN page.lines :
          m < n /\ page.lines[m].type = page.lines[n].type
            => page.lines[m].line < page.lines[n].line
     /\ page.unchanged <=> a = b

==============================================================================
