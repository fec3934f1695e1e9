------------------------------- MODULE MCOffice ------------------------------
(***************************************************************************)
(* Values for the constants of Office that are no numbers or sets of them. *)
(***************************************************************************)
EXTENDS Office

MCAsked  == <<"ask", "list">>
MCTalked == <<"ask", "ask", "text">>

MCSeedModels == <<2, 1>>
MCSeedAgents == <<"consultant">>
MCEnsured    == <<"page">>
MCBudgets    == {[edits |-> 1, faults |-> 1, restarts |-> 1], [edits |-> 2, faults |-> 0, restarts |-> 0]}

\* Two clients of the portal share an address.
MCEmailOf == <<"one", "one">>

\* Two names become one name of a file; a template may be broken.
MCNameOf    == <<"a/b", "a:b", "c">>
MCClean     == [n \in {"a/b", "a:b", "c"} |-> IF n = "c" THEN "c" ELSE "a_b"]
MCTemplates == [t \in {"r.go.tpl", "r.html.tpl"} |->
                  [form |-> "r", ext |-> IF t = "r.go.tpl" THEN "go" ELSE "html"]]

==============================================================================
