--------------------------- MODULE TemplateCatalog ---------------------------
(***************************************************************************)
(* n0te2/template_catalog.py and template_catalog_shell.py: reusable starts an *)
(* artist saves, and the one chosen for each Song.                            *)
(*                                                                         *)
(* The tables are not there until the first save, which makes them in a        *)
(* transaction of its own; what is saved and chosen is only added to.         *)
(***************************************************************************)
EXTENDS SongLineage

CONSTANTS Meaning  \* what a Template says

VARIABLES
  present,     \* the tables are there
  templates,   \* table template_definitions: the meaning of each
  selections,  \* table template_selections, in order
  starts       \* the forms of pages that were shown and not sent yet

catalogVars == <<present, templates, selections, starts>>

TemplatesOf == IF present THEN DOMAIN templates ELSE {}

\* current_selection: the last one for the Song.
CurrentSelection(s) ==
  LET mine == {i \in DOMAIN selections : selections[i].song = s} IN
  IF mine = {} THEN None ELSE selections[CHOOSE i \in mine : \A j \in mine : j <= i].template

\* save makes the tables first; what comes after may fail.
InitializeSchema ==
  /\ present' = TRUE
  /\ UNCHANGED <<templates, selections>>

\* An identity that is there keeps its meaning: saving the same again changes nothing
\* and saving another is refused.
SaveTemplate(id, meaning) ==
  /\ present' = TRUE
  /\ IF id \in DOMAIN templates THEN UNCHANGED templates
     ELSE templates' = Append(templates, meaning)
  /\ UNCHANGED selections

CreateTemplate(meaning) == SaveTemplate(Len(templates) + 1, meaning)

SelectForSong(s, id) ==
  /\ s \in Known /\ id \in TemplatesOf
  /\ selections' = Append(selections, [song |-> s, template |-> id])
  /\ UNCHANGED <<present, templates>>

\* The card of the Song that is active: a form to save, and one to select each Template.
TemplateCatalogCard(s) ==
  {[kind |-> "save", song |-> s, template |-> None]}
    \cup {[kind |-> "select", song |-> s, template |-> id] : id \in TemplatesOf}

ShowTemplates(f) ==
  /\ active # None /\ f \in TemplateCatalogCard(active)
  /\ starts' = starts \cup {f}
  /\ UNCHANGED <<present, templates, selections>>

\* A form is used up whether or not the Song it was shown for is still the active one.
SendTemplate(f, meaning) ==
  /\ f \in starts /\ starts' = starts \ {f}
  /\ IF active # f.song THEN UNCHANGED <<present, templates, selections>>
     ELSE \/ f.kind = "save" /\ (CreateTemplate(meaning) \/ InitializeSchema)
          \/ f.kind = "select" /\ SelectForSong(f.song, f.template)

CatalogInit == present = FALSE /\ templates = <<>> /\ selections = <<>> /\ starts = {}

\* _validate_or_absent.
CatalogReadable ==
  /\ ~present => templates = <<>> /\ selections = <<>>
  /\ \A i \in DOMAIN selections :
       selections[i].song \in Known /\ selections[i].template \in DOMAIN templates
=============================================================================
