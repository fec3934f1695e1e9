------------------------------ MODULE Residents ------------------------------
(***************************************************************************)
(* The clients of the residency programme: their stage, its history, the   *)
(* personal API key and the reporting deadline.  The panel, its JSON API   *)
(* and the MCP tool share one control: read the row, check the move on the *)
(* copy, write the history, write the whole row back from the copy, then   *)
(* see to the deadline.  Every step is a statement of its own in the       *)
(* database and nothing holds a lock between two of them.                  *)
(***************************************************************************)
EXTENDS Naturals, Sequences, FiniteSets

CONSTANTS Clients,      \* clients that may be registered
          Workers,      \* requests that may be under way at once
          MaxEntries,   \* bound: history entries of a client
          MaxKeys,      \* bound: keys issued altogether
          Faults        \* whether a statement may fail

VARIABLES row,          \* the row of each client
          history,      \* its stage transitions, oldest first
          due,          \* number of its open reporting deadlines
          work,         \* what each request under way has read and does next
          issued        \* keys generated so far

residentVars == <<row, history, due, work, issued>>

Stages == {"application", "examination", "decision", "contract",
           "resident", "reporting", "extension", "exit"}

allowedTransitions ==
  [s \in Stages |->
     CASE s = "application" -> {"examination"}
       [] s = "examination" -> {"decision", "application"}
       [] s = "decision"    -> {"contract", "application"}
       [] s = "contract"    -> {"resident", "application"}
       [] s = "resident"    -> {"reporting", "exit"}
       [] s = "reporting"   -> {"extension", "exit"}
       [] s = "extension"   -> {"resident", "exit"}
       [] s = "exit"        -> {}]

CanTransition(from, to) == to \in allowedTransitions[from]

Moves == {m \in Stages \X Stages : CanTransition(m[1], m[2])}

\* A row carries the number of the client's key, 0 when it has none.
NewRow == [stage |-> "application", key |-> 0]
NoRow  == [stage |-> "none", key |-> 0]
Rows   == [stage : Stages, key : Nat]

Registered(c) == row[c] # NoRow

Idle == [pc |-> "idle"]

StageWork == [pc : {"record", "write", "list", "create"}, client : Clients,
              copy : Rows, to : Stages]
KeyWork   == [pc : {"generate", "revoke"}, client : Clients, copy : Rows]

At(w, pc) == work[w].pc = pc

Become(w, pc) == work' = [work EXCEPT ![w].pc = pc]
Finish(w)     == work' = [work EXCEPT ![w] = Idle]

------------------------------------------------------------------------------

Init == /\ row = [c \in Clients |-> NoRow]
        /\ history = [c \in Clients |-> <<>>]
        /\ due = [c \in Clients |-> 0]
        /\ work = [w \in Workers |-> Idle]
        /\ issued = 0

CreateClient(c) ==
  /\ ~Registered(c)
  /\ row' = [row EXCEPT ![c] = NewRow]
  /\ UNCHANGED <<history, due, work, issued>>

(* GetClient and the check of the move, made on the copy that was read. *)
ReadForStage(w, c, to) ==
  /\ At(w, "idle") /\ Registered(c)
  /\ CanTransition(row[c].stage, to)
  /\ Len(history[c]) + Cardinality({v \in Workers :
        At(v, "record") /\ work[v].client = c}) < MaxEntries
  /\ work' = [work EXCEPT ![w] =
                [pc |-> "record", client |-> c, copy |-> row[c], to |-> to]]
  /\ UNCHANGED <<row, history, due, issued>>

(* AddStageTransition: the history is written before the row. *)
RecordTransition(w) ==
  /\ At(w, "record")
  /\ history' = [history EXCEPT ![work[w].client] =
                   Append(@, <<work[w].copy.stage, work[w].to>>)]
  /\ Become(w, "write")
  /\ UNCHANGED <<row, due, issued>>

(* UpdateClient writes every column from the copy; only a move to          *)
(* reporting has a deadline to see to.                                     *)
WriteStage(w) ==
  /\ At(w, "write")
  /\ row' = [row EXCEPT ![work[w].client] =
               [work[w].copy EXCEPT !.stage = work[w].to]]
  /\ IF work[w].to = "reporting" THEN Become(w, "list") ELSE Finish(w)
  /\ UNCHANGED <<history, due, issued>>

\* Mutant: the open deadlines are not looked at.
ListNoDeadlines(w) == /\ At(w, "list")
                      /\ Become(w, "create")
                      /\ UNCHANGED <<row, history, due, issued>>

(* EnsureReportingDeadline: an open deadline is not doubled. *)
ListDeadlines(w) ==
  /\ At(w, "list")
  /\ IF due[work[w].client] > 0 THEN Finish(w) ELSE Become(w, "create")
  /\ UNCHANGED <<row, history, due, issued>>

CreateDeadline(w) ==
  /\ At(w, "create")
  /\ due' = [due EXCEPT ![work[w].client] = @ + 1]
  /\ Finish(w)
  /\ UNCHANGED <<row, history, issued>>

(* The two key handlers read the row ... *)
ReadForKey(w, c, pc) ==
  /\ At(w, "idle") /\ Registered(c)
  /\ pc = "generate" => issued + Cardinality({v \in Workers : At(v, "generate")}) < MaxKeys
  /\ work' = [work EXCEPT ![w] = [pc |-> pc, client |-> c, copy |-> row[c]]]
  /\ UNCHANGED <<row, history, due, issued>>

(* ... and write all of it back with another key, *)
GenerateKey(w) ==
  /\ At(w, "generate")
  /\ issued' = issued + 1
  /\ row' = [row EXCEPT ![work[w].client] = [work[w].copy EXCEPT !.key = issued + 1]]
  /\ Finish(w)
  /\ UNCHANGED <<history, due>>

(* ... or with none. *)
RevokeKey(w) ==
  /\ At(w, "revoke")
  /\ row' = [row EXCEPT ![work[w].client] = [work[w].copy EXCEPT !.key = 0]]
  /\ Finish(w)
  /\ UNCHANGED <<history, due, issued>>

\* Mutant: a failed AddStageTransition is only logged.
HistoryFailureIsLogged(w) ==
  /\ Faults /\ ~At(w, "idle")
  /\ CASE At(w, "list")   -> Become(w, "create")
       [] At(w, "record") -> Become(w, "write")
       [] OTHER           -> Finish(w)
  /\ UNCHANGED <<row, history, due, issued>>

(* A failing statement ends the request, except that a failed listing of   *)
(* the deadlines is taken for an empty one.                                *)
StatementFails(w) ==
  /\ Faults
  /\ ~At(w, "idle")
  /\ IF At(w, "list") THEN Become(w, "create") ELSE Finish(w)
  /\ UNCHANGED <<row, history, due, issued>>

Next ==
  \/ \E c \in Clients : CreateClient(c)
  \/ \E w \in Workers, c \in Clients, to \in Stages : ReadForStage(w, c, to)
  \/ \E w \in Workers : RecordTransition(w)
  \/ \E w \in Workers : WriteStage(w)
  \/ \E w \in Workers : ListDeadlines(w)
  \/ \E w \in Workers : CreateDeadline(w)
  \/ \E w \in Workers, c \in Clients, pc \in {"generate", "revoke"} : ReadForKey(w, c, pc)
  \/ \E w \in Workers : GenerateKey(w)
  \/ \E w \in Workers : RevokeKey(w)
  \/ \E w \in Workers : StatementFails(w)

Spec == Init /\ [][Next]_residentVars

------------------------------------------------------------------------------

TypeOK == /\ row \in [Clients -> Rows \cup {NoRow}]
          /\ history \in [Clients -> Seq(Moves)]
          /\ due \in [Clients -> Nat]
          /\ work \in [Workers -> {Idle} \cup StageWork \cup KeyWork]
          /\ issued \in Nat

Reached(c) == {history[c][i][2] : i \in DOMAIN history[c]}

(* No client is ever in a stage its history does not lead to, whatever     *)
(* requests overlap and whichever statements fail: the transition is       *)
(* written before the row, and a row written back from an old copy (by a   *)
(* stage request or by a key request) restores a stage recorded earlier.   *)
StageRecorded ==
  \A c \in Clients : row[c].stage \in Reached(c) \cup {"application", "none"}

(* One request at a time and no failing statement: the history is a path   *)
(* from the application to the stage of the row, and a client who has been *)
(* in reporting has exactly one open deadline however often it comes back. *)
Settled(c) == \A w \in Workers : ~At(w, "idle") => work[w].client # c

HistoryLeadsToStage ==
  \A c \in Clients : Registered(c) /\ Settled(c) =>
    LET h == history[c] IN
      /\ \A i \in DOMAIN h : h[i][1] = IF i = 1 THEN "application" ELSE h[i-1][2]
      /\ row[c].stage = IF h = <<>> THEN "application" ELSE h[Len(h)][2]
      /\ due[c] = IF "reporting" \in Reached(c) THEN 1 ELSE 0

==============================================================================
