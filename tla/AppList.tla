-------------------------------- MODULE AppList --------------------------------
(***************************************************************************)
(* Reading the answers of the host: xml_applist and xml_search of          *)
(* src/libgamestream/xml.c, and what gs_applist of client.c and get_app_id *)
(* of src/src/main.c make of them.  The XML parser calls the handlers once *)
(* per start tag and end tag, and any number of times within a text.  Both *)
(* searches are run over the same document here.                           *)
(***************************************************************************)
EXTENDS Integers, Sequences, SequencesExt

CONSTANTS
    Text,           \* what one call of the character handler may bring: digits
    MaxText,        \* bound: calls for one text
    MaxApps,        \* bound: apps in a document
    MaxOther        \* bound: elements in a document that are not of an app

ASSUME TextAssumption ==
    Text \subseteq 1 .. 9 /\ MaxText \in Nat \ {0} /\ MaxApps \in Nat /\ MaxOther \in Nat

VARIABLES
    open,                       \* the document: elements open, outermost first
    said, now,                  \* history: the apps it listed, the one it is at
    inside,                     \* history: all text within an element named Node
    others,                     \* history: elements named Node so far
    memory, start, data,        \* struct xml_query of xml_applist
    search_memory, search_start,    \* struct xml_query of xml_search
    ret, list                   \* of gs_applist

docVars == <<open, said, now, inside, others>>
applistVars == <<memory, start, data>>
searchVars == <<search_memory, search_start>>
vars == <<docVars, applistVars, searchVars, ret, list>>

Node == "Other"                 \* what xml_search is asked for
Names == {"root", "App", "ID", "AppTitle", "Other"}
None == <<>>                    \* NULL, and a text of no characters
AppRecord == [id : Nat, name : Seq(Text)]

TypeOK ==
    /\ open \in Seq(Names) /\ said \in Seq(AppRecord)
    /\ now \in [ID : Seq(Text), AppTitle : Seq(Text)]
    /\ inside \in Seq(Text) /\ others \in 0 .. MaxOther
    /\ memory \in Seq(Text) /\ start \in 0 .. 1 /\ data \in Seq(AppRecord)
    /\ search_memory \in Seq(Text) /\ search_start \in 0 .. Len(open)
    /\ ret \in {"asking", "parsing", "GS_OK", "GS_INVALID", "GS_IO_ERROR"}
    /\ list \in Seq(AppRecord)

Init ==
    /\ open = <<"root">> /\ said = <<>> /\ now = [ID |-> None, AppTitle |-> None]
    /\ inside = None /\ others = 0
    /\ memory = None /\ start = 0 /\ data = <<>>
    /\ search_memory = None /\ search_start = 0
    /\ ret = "asking" /\ list = <<>>

atoi(text) == FoldLeft(LAMBDA n, digit : 10 * n + digit, 0, text)

----------------------------------------------------------------------------
(* External: the documents of the host.  An app has one ID and one         *)
(* AppTitle, neither of them empty, in any order and among other elements. *)
MayOpen(name) ==
    \/ name = "App" /\ Last(open) = "root" /\ Len(said) < MaxApps
    \/ name = "Other" /\ Last(open) \in {"root", "App", "Other"} /\ others < MaxOther
    \/ name \in {"ID", "AppTitle"} /\ Last(open) = "App" /\ now[name] = None

MayClose(name) ==
    CASE name = "App" -> now.ID # None /\ now.AppTitle # None
      [] name \in {"ID", "AppTitle"} -> now[name] # None
      [] OTHER -> TRUE

Opens(name) ==
    /\ open # <<>> /\ MayOpen(name)
    /\ open' = Append(open, name)
    /\ now' = IF name = "App" THEN [ID |-> None, AppTitle |-> None] ELSE now
    /\ others' = IF name = Node THEN others + 1 ELSE others
    /\ UNCHANGED <<said, inside>>

Closes(name) ==
    /\ open # <<>> /\ Last(open) = name /\ MayClose(name)
    /\ open' = Front(open)
    /\ said' = IF name # "App" THEN said
               ELSE Append(said, [id |-> atoi(now.ID), name |-> now.AppTitle])
    /\ UNCHANGED <<now, inside, others>>

Says(text) ==
    /\ open # <<>>
    /\ \/ /\ Last(open) \in {"ID", "AppTitle"} /\ Len(now[Last(open)]) < MaxText
          /\ now' = [now EXCEPT ![Last(open)] = Append(@, text)] /\ UNCHANGED inside
       \/ /\ Last(open) = Node /\ Len(inside) < MaxText
          /\ inside' = Append(inside, text) /\ UNCHANGED now
       \/ Last(open) \notin {"ID", "AppTitle", Node} /\ UNCHANGED <<now, inside>>
    /\ UNCHANGED <<open, said, others>>

----------------------------------------------------------------------------
(* The handlers.                                                           *)

StartApplistElement(name) ==
    IF name \in {"ID", "AppTitle"}
    THEN memory' = None /\ start' = 1 /\ UNCHANGED data
    ELSE /\ data' = IF name = "App" THEN <<[id |-> 0, name |-> None]>> \o data ELSE data
         /\ UNCHANGED <<memory, start>>

(* _xml_end_applist_element: any end tag ends the text that was read.      *)
EndApplistElement(name) ==
    IF start = 0 \/ data = <<>> THEN UNCHANGED applistVars
    ELSE /\ data' = CASE name = "ID" -> [data EXCEPT ![1].id = atoi(memory)]
                      [] name = "AppTitle" -> [data EXCEPT ![1].name = memory]
                      [] OTHER -> data
         /\ start' = 0
         /\ UNCHANGED memory

(* _xml_write_data, of both searches.                                      *)
WriteData(mem, from, text) == IF from > 0 THEN Append(mem, text) ELSE mem

(* Mutant: an element within one of its own name is not counted.           *)
StartElementFlat(name) == IF name = Node THEN 1 ELSE search_start

StartElement(name) == IF name = Node THEN search_start + 1 ELSE search_start

EndElement(name) == IF name = Node THEN search_start - 1 ELSE search_start

----------------------------------------------------------------------------
(* The answer comes, to its root, or there is none.                        *)
HttpRequest ==
    /\ ret = "asking" /\ ret' \in {"parsing", "GS_IO_ERROR"}
    /\ UNCHANGED <<docVars, applistVars, searchVars, list>>

Parses == ret = "parsing" /\ UNCHANGED <<ret, list>>

StartTag(name) ==
    /\ Parses /\ Opens(name)
    /\ StartApplistElement(name)
    /\ search_start' = StartElement(name) /\ UNCHANGED search_memory

EndTag(name) ==
    /\ Parses /\ Closes(name)
    /\ EndApplistElement(name)
    /\ search_start' = EndElement(name) /\ UNCHANGED search_memory

CharacterData(text) ==
    /\ Parses /\ Says(text)
    /\ memory' = WriteData(memory, start, text) /\ UNCHANGED <<start, data>>
    /\ search_memory' = WriteData(search_memory, search_start, text)
    /\ UNCHANGED search_start

(* XML_Parse returns: the document is whole, or it was cut short.          *)
DocumentEnds ==
    /\ ret = "parsing"
    /\ \/ open = <<>> /\ ret' = "GS_OK" /\ list' = data
       \/ open # <<>> /\ ret' = "GS_INVALID" /\ UNCHANGED list
    /\ UNCHANGED <<docVars, applistVars, searchVars>>

Next ==
    \/ \E name \in Names : StartTag(name) \/ EndTag(name)
    \/ \E text \in Text : CharacterData(text)
    \/ HttpRequest \/ DocumentEnds

Spec == Init /\ [][Next]_vars

(* get_app_id: the first of the list that has the name.                    *)
get_app_id(name) ==
    LET at == {i \in DOMAIN list : list[i].name = name}
    IN  IF ret # "GS_OK" \/ at = {} THEN -1
        ELSE list[CHOOSE i \in at : \A j \in at : i <= j].id

----------------------------------------------------------------------------
(* Properties.                                                             *)

(* A list is that of the document, the last app first, however its text    *)
(* was cut into calls and wherever other elements stand; nothing is handed *)
(* out of a document that was cut short; and of apps with one title        *)
(* get_app_id finds the one the document listed last.  xml_search finds    *)
(* all text within the elements of the name, those nested in one another   *)
(* included, and no other.                                                 *)
FindsWhatWasSaid ==
  /\ search_memory = inside
  /\ ret \notin {"asking", "parsing"} =>
      /\ list = IF ret = "GS_OK" THEN Reverse(said) ELSE <<>>
      /\ \A i \in DOMAIN said :
           ret = "GS_OK" /\ (\A j \in DOMAIN said : said[j].name = said[i].name => j <= i)
             => get_app_id(said[i].name) = said[i].id

==============================================================================
