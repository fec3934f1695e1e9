--------------------------------- MODULE Forms ---------------------------------
(***************************************************************************)
(* The forms filled in for clients: the portal, the command and a tool of  *)
(* the MCP server render a template with the data of a client into a file  *)
(* named after the client, the form and the day, and hand out the file by  *)
(* its name: the portal in a second request.  Orders overlap.              *)
(***************************************************************************)
EXTENDS Naturals, FiniteSets

CONSTANTS Clients, NameOf,  \* clients, and their names
          Clean,            \* of each name, what is left of it in a file name
          Templates,        \* the files: name -> [form, ext]
          Broken,           \* templates whose standard text does not parse
          Orders, MaxChanges  \* a bound of the days that pass and of what is edited

VARIABLES shelf,            \* OutputDir: file -> what is in it
          tpl,              \* the text of each template
          orders,
          edition,          \* of the data of the clients
          day

formVars == <<shelf, tpl, orders, edition, day>>

Files == [name : {Clean[NameOf[c]] : c \in Clients}, form : {Templates[t].form : t \in DOMAIN Templates},
          day : 0..MaxChanges, ext : {"html", "pdf", "docx"}]
NoFile == [client |-> 0]
Open == [at |-> "open"]

Init == /\ shelf = [f \in Files |-> NoFile]
        /\ tpl \in {[t \in DOMAIN Templates |-> x] : x \in {"absent", "standard"}}
        /\ orders = [o \in Orders |-> Open]
        /\ edition = 0
        /\ day = 0

sanitizeFilename(name) == Clean[name]

(* Whoever runs the command without arguments writes the standard texts    *)
(* over what is there.                                                     *)
CreateDefaultTemplates == /\ tpl' = [t \in DOMAIN Templates |-> "standard"]
                          /\ UNCHANGED <<shelf, orders, edition, day>>

CanChange == day + edition + Cardinality({t \in DOMAIN tpl : tpl[t] = "edited"}) < MaxChanges

EditTemplate == /\ CanChange
                /\ \E t \in DOMAIN Templates :
                     tpl[t] # "edited" /\ tpl' = [tpl EXCEPT ![t] = "edited"]
                /\ UNCHANGED <<shelf, orders, edition, day>>

EditClients == /\ CanChange /\ edition' = edition + 1
               /\ UNCHANGED <<shelf, tpl, orders, day>>

NextDay == CanChange /\ day' = day + 1 /\ UNCHANGED <<shelf, tpl, orders, edition>>

ListTemplates == {t \in DOMAIN tpl : tpl[t] # "absent"}
GetTemplate(t) == t \in ListTemplates
Parses(t) == tpl[t] = "edited" \/ t \notin Broken

templateExtension(t) == Templates[t].ext

(* A PDF comes of an HTML file that is written first and stays.            *)
FirstExt(ext) == IF ext = "go" THEN "html" ELSE ext
LastExt(ext) == IF ext = "go" THEN "pdf" ELSE ext

(* An order of the command or the tool carries variables of its own.       *)
buildTemplateData(c, by) == [client |-> c, edition |-> edition, by |-> by]

FileName(c, t) == [name |-> sanitizeFilename(NameOf[c]), form |-> Templates[t].form, day |-> day]
As(name, ext) == [name |-> name.name, form |-> name.form, day |-> name.day, ext |-> ext]

InWork(o) == orders[o].at \in {"rendered", "printing", "sent"}

(* Who has the same file in work is no longer alone with it.               *)
Shares(o, name) == {p \in Orders \ {o} : InWork(p) /\ orders[p].name = name}

RenderTemplate(o, c, t, by) ==
  /\ orders[o] = Open
  /\ IF ~GetTemplate(t) \/ ~Parses(t)
     THEN orders' = [orders EXCEPT ![o] = [at |-> "failed"]]
     ELSE LET name == FileName(c, t)
              others == Shares(o, name)
          IN orders' = [p \in Orders |->
               IF p = o THEN [at |-> "rendered", name |-> name,
                              text |-> buildTemplateData(c, by), ext |-> templateExtension(t),
                              alone |-> others = {}, got |-> NoFile]
               ELSE IF p \in others THEN [orders[p] EXCEPT !.alone = FALSE]
               ELSE orders[p]]
  /\ UNCHANGED <<shelf, tpl, edition, day>>

(* The page of the portal offers the templates there are; the client's     *)
(* choice is rendered with his data alone.                                 *)
handleGenerate == ListTemplates
handleGenerateSubmit(o, c) == \E t \in handleGenerate : RenderTemplate(o, c, t, "portal")

generate_document(o, c) == \E t \in DOMAIN Templates : RenderTemplate(o, c, t, "tool")

cmdGenerate == \/ CreateDefaultTemplates
               \/ \E o \in Orders, c \in Clients, t \in DOMAIN Templates :
                    RenderTemplate(o, c, t, "command")

Writes(o, ext) == shelf' = [shelf EXCEPT ![As(orders[o].name, ext)] = orders[o].text]

\* Mutant: a write that fails is only logged.
WriteFileOrLog(o) ==
  /\ orders[o].at = "rendered"
  /\ \/ Writes(o, FirstExt(orders[o].ext)) \/ UNCHANGED shelf
  /\ orders' = [orders EXCEPT ![o].at = IF orders[o].ext = "go" THEN "printing" ELSE "sent"]
  /\ UNCHANGED <<tpl, edition, day>>

(* The HTML, or the only file: then the answer, with the name of the file. *)
WriteFile(o) ==
  /\ orders[o].at = "rendered"
  /\ \/ /\ Writes(o, FirstExt(orders[o].ext))
        /\ orders' = [orders EXCEPT ![o].at = IF orders[o].ext = "go" THEN "printing" ELSE "sent"]
     \/ orders' = [orders EXCEPT ![o] = [at |-> "failed"]] /\ UNCHANGED shelf
  /\ UNCHANGED <<tpl, edition, day>>

(* The browser may take a minute to print the page; without it, or when it *)
(* fails, the HTML is written under the name of the PDF.                   *)
generatePDFChrome(o) == Writes(o, "pdf")

GeneratePDF(o) ==
  /\ orders[o].at = "printing"
  /\ \/ generatePDFChrome(o) /\ orders' = [orders EXCEPT ![o].at = "sent"]
     \/ orders' = [orders EXCEPT ![o] = [at |-> "failed"]] /\ UNCHANGED shelf
  /\ UNCHANGED <<tpl, edition, day>>

Reads(o) == /\ orders[o].at = "sent"
            /\ orders' = [orders EXCEPT ![o].at = "got",
                            ![o].got = shelf[As(orders[o].name, LastExt(orders[o].ext))]]
            /\ UNCHANGED <<shelf, tpl, edition, day>>

(* The second request of the portal; the tool reads what it returns; the   *)
(* command tells the path and no more.                                     *)
handleDownload(o) == Reads(o) /\ orders[o].text.by = "portal"
ReadInline(o) == Reads(o) /\ orders[o].text.by = "tool"

Next == \/ cmdGenerate \/ EditTemplate \/ EditClients \/ NextDay
        \/ \E o \in Orders :
             \/ \E c \in Clients : handleGenerateSubmit(o, c) \/ generate_document(o, c)
             \/ WriteFile(o) \/ GeneratePDF(o) \/ handleDownload(o) \/ ReadInline(o)

------------------------------------------------------------------------------

TypeOK == /\ \A f \in Files : shelf[f] = NoFile \/ shelf[f].client \in Clients
          /\ edition \in 0..MaxChanges /\ day \in 0..MaxChanges
          /\ \A t \in DOMAIN Templates : tpl[t] \in {"absent", "standard", "edited"}

(* Who is sent for his form finds one, whatever else is generated and      *)
(* whatever fails: the form he asked for, of a client of the name he has;  *)
(* and of himself, as he was when he asked, unless another order for the   *)
(* same file was in work with his.                                         *)
OwnForm ==
  \A o \in Orders : orders[o].at = "got" =>
    LET got == orders[o].got
        text == orders[o].text
    IN /\ got # NoFile
       /\ Clean[NameOf[got.client]] = Clean[NameOf[text.client]]
       /\ orders[o].alone => got = text

==============================================================================
