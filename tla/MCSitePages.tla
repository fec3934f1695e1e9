----------------------------- MODULE MCSitePages -----------------------------
(* Instances of SitePages for TLC.                                           *)
EXTENDS SitePages, TLC

CONSTANTS w1, w2

JobOnly == [w \in Worker |-> {"job"}]
ServerAndPanel ==
    [w \in Worker |-> IF w = w1 THEN {"job"} ELSE {"crawl", "one", "dates"}]
AllButCrawl == [w \in Worker |-> Task \ {"crawl"}]
=============================================================================
