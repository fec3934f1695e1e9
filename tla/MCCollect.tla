------------------------------ MODULE MCCollect -------------------------------
(***************************************************************************)
(* Values for the constants of Collect that are no numbers or sets of      *)
(* them.                                                                   *)
(***************************************************************************)
EXTENDS Collect

\* The job and the command overlap; three runs of the job fail in a row, or
\* two and the record of a third is lost.
MCWatches ==
  [p \in {"runs", "long"} |->
     IF p = "runs"
       THEN [runners |-> {"job", "command"}, entries |-> {1}, texts |-> 1..2,
             edits |-> 1, faults |-> 1, crashes |-> 1, stale |-> 0]
       ELSE [runners |-> {"job"}, entries |-> 1..2, texts |-> {1},
             edits |-> 1, faults |-> 5, crashes |-> 0, stale |-> 1]]

Sheet(whose, count, of) == [site |-> whose, nodes |-> count, kinds |-> of]
MCSheets ==
  [events   |-> Sheet("events", 5, {"card", "list", "li", "heading", "link"}),
   contests |-> Sheet("contests", 4, {"item", "article", "title", "link", "p"}),
   acts     |-> Sheet("regulations", 4, {"card", "table", "tbody", "tr", "link", "revoked"}),
   benefits |-> Sheet("preferences", 4, {"card", "title", "elsewhere", "image", "p"}),
   answers  |-> Sheet("faq", 5, {"faq-item", "question", "content", "answer", "p"}),
   folds    |-> Sheet("faq", 4, {"details", "summary", "faq", "heading", "p"}),
   profiles |-> Sheet("residents", 4, {"content", "link", "title", "elsewhere"})]

\* Two links of one title, one of them dead, in another category than a third.
MCListing == << << <<"dead">>, <<"live">> >>, << <<"live", "rules">> >> >>
MCTitleOf == [l \in {"dead", "live", "rules"} |-> IF l = "rules" THEN "Rules" ELSE "Charter"]
MCLoads ==
  [overlap |-> [kinds |-> <<{"panel"}, {"command", "catalog"}>>, limit |-> 0, pages |-> 2,
                faults |-> 1, restarts |-> 0],
   repeat  |-> [kinds |-> <<{"panel", "catalog"}>>, limit |-> 1, pages |-> 2,
                faults |-> 1, restarts |-> 2]]

MCTrees == <<{1, 2}, {2}, {2}>>
MCDims  == <<1, 1, 2>>

==============================================================================
