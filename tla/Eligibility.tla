------------------------------ MODULE Eligibility ------------------------------
(***************************************************************************)
(* The check of a company by its INN: one register of legal entities is    *)
(* asked, which of them depends on whether there is a key, then the        *)
(* register of small businesses, and a verdict is drawn from what they     *)
(* answered.  The command and the tool of the MCP server run the same      *)
(* check.  Each behaviour is one check of one company.                     *)
(***************************************************************************)
EXTENDS Naturals, FiniteSets

CONSTANT Statuses           \* what a register may call the state of a company

VARIABLES company,          \* as it is
          query,            \* the INN as typed, and whether there is a key
          check             \* how far the check is, and its report

eligibilityVars == <<company, query, check>>

Bad == {"liquidated", "liquidating", "bankrupt"}

Companies == [status : Statuses, type : {"company", "sole trader"},
              okved : {"innovative", "other"}, young : BOOLEAN, msp : BOOLEAN]
Queries == [inn : {"ten", "twelve", "short", "letters"}, key : BOOLEAN]

NoReport == [issues |-> {}, warnings |-> {}, advice |-> FALSE, score |-> 0, eligible |-> FALSE]

Init == /\ company \in Companies /\ query \in Queries
        /\ check = [at |-> "typed", info |-> {}, report |-> NoReport]

validateINN(inn) == inn \in {"ten", "twelve"}

Answers(info) == check' = [check EXCEPT !.at = "known", !.info = info]

(* An INN of the wrong form is refused before anyone is asked. *)
CheckByINN == /\ check.at = "typed"
              /\ check' = [check EXCEPT !.at = IF validateINN(query.inn) THEN "asking" ELSE "refused"]
              /\ UNCHANGED <<company, query>>

(* The words a register may use for the state of the company: the one the  *)
(* check looks for, or another.                                            *)
Words == {[of |-> company.status, known |-> k] : k \in BOOLEAN}

(* The form and the name a register tells the company by.  Plain ones hold  *)
(* the mark of a sole trader, the letters ИП or the words in full, exactly  *)
(* when it is one; others mislead: МУНИЦИПАЛЬНОЕ holds the letters, a name  *)
(* that comes without a form holds none.                                   *)
Forms == {[of |-> company.type, plain |-> p] : p \in BOOLEAN}

(* A word it does not know is taken over in lower case: no state at all    *)
(* for what follows.                                                       *)
normalizeStatus(w) == IF w.known THEN w.of ELSE "unknown"

parseDadataResponse(w, form) ==
  {[status |-> normalizeStatus(w), type |-> form,
    okved |-> company.okved, young |-> company.young, msp |-> FALSE]}

(* DaData: no answer, another status than 200, a body that is not read,    *)
(* and an empty list all come to an error.                                 *)
lookupViaDadata == /\ check.at = "asking" /\ query.key
                   /\ \/ \E w \in Words, form \in Forms : Answers(parseDadataResponse(w, form))
                      \/ Answers({})
                   /\ UNCHANGED <<company, query>>

(* The public register does not tell the kind of activity, and a date it   *)
(* writes another way is left out.                                         *)
parseFNSResponse(w, form, young) == {[status |-> normalizeStatus(w), type |-> form,
                                      okved |-> "", young |-> young, msp |-> FALSE]}

lookupViaFNS == /\ check.at = "asking" /\ ~query.key
                /\ \/ \E w \in Words, form \in Forms, young \in {company.young, FALSE} :
                        Answers(parseFNSResponse(w, form, young))
                   \/ Answers({})
                /\ UNCHANGED <<company, query>>

(* Asked only of a company that was found; a failure leaves FALSE. *)
checkMSP == /\ check.at = "known" /\ check.info # {}
            /\ \E msp \in {company.msp, FALSE} :
                 check' = [check EXCEPT !.at = "asked",
                                        !.info = {[c EXCEPT !.msp = msp] : c \in check.info}]
            /\ UNCHANGED <<company, query>>

isInnovativeOKVED(okved) == okved = "innovative"

\* Mutant: the form is not looked at.
isNamedSoleTrader(form) == FALSE
(* Form and name are searched for the mark. *)
isSoleTrader(form) == form.plain <=> form.of = "sole trader"

Minus(n, m) == IF n > m THEN n - m ELSE 0

Verdict(c) ==
  LET gone == IF c.status \in Bad THEN {c.status} ELSE {}
      alone == IF isSoleTrader(c.type) THEN {"sole trader"} ELSE {}
      foreign == c.okved # "" /\ ~isInnovativeOKVED(c.okved)
      score == Minus(100, (IF c.status \in {"liquidated", "bankrupt"} THEN 100 ELSE 0)
                        + (IF c.status = "liquidating" THEN 80 ELSE 0)
                        + (IF isSoleTrader(c.type) THEN 100 ELSE 0)
                        + (IF foreign THEN 20 ELSE 0))
      issues == gone \cup alone
  IN [issues |-> issues,
      warnings |-> (IF c.young THEN {"young"} ELSE {}) \cup (IF foreign THEN {"activity"} ELSE {})
                   \cup (IF c.msp THEN {} ELSE {"msp"}),
      advice |-> c.status = "active",
      score |-> score,
      eligible |-> score >= 50 /\ issues = {}]

Unfound == [issues |-> {"no data"}, warnings |-> {"register down"}, advice |-> FALSE,
            score |-> 0, eligible |-> FALSE]

analyzeEligibility ==
  /\ check.at = IF check.info = {} THEN "known" ELSE "asked"
  /\ check' = [check EXCEPT !.at = "done",
                 !.report = IF check.info = {} THEN Unfound
                            ELSE Verdict(CHOOSE c \in check.info : TRUE)]
  /\ UNCHANGED <<company, query>>

(* What the command prints, and the tool answers.                          *)
cmdEligibility == IF check.at = "refused" THEN "refused" ELSE check.report

Next == \/ CheckByINN \/ lookupViaDadata \/ lookupViaFNS \/ checkMSP \/ analyzeEligibility

------------------------------------------------------------------------------

TypeOK == /\ company \in Companies /\ query \in Queries
          /\ check.at \in {"typed", "refused", "asking", "known", "asked", "done"}
          /\ Cardinality(check.info) <= 1

Told(status) == \E c \in check.info : c.status = status
Misled == \E c \in check.info : ~c.type.plain

(* The verdict does not depend on which register told of the company, nor  *)
(* on whether the register of small businesses answered: it is the         *)
(* company's own, but for a state told in a word the check does not know,  *)
(* which is taken for none, and for a form or a name that misleads, by     *)
(* which a company is refused and a sole trader is not; nothing is         *)
(* promised of a company no register told of; and the score never says     *)
(* otherwise than the list of issues, though the threshold is far below    *)
(* what a company without issues scores.                                   *)
VerdictIsSteady ==
  check.at = "done" =>
    LET report == cmdEligibility IN
    /\ report.eligible <=> /\ check.info # {} /\ (company.type = "company" <=> ~Misled)
                           /\ (company.status \notin Bad \/ Told("unknown"))
    /\ report.eligible <=> report.issues = {}
    /\ report.eligible <=> report.score >= 80
    /\ report.advice => company.status \notin Bad

==============================================================================
