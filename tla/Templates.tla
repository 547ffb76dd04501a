------------------------------- MODULE Templates -------------------------------
(***************************************************************************)
(* The templates, the global default one and the devices' own ones         *)
(* (admin.go), and the background images of templates (backgrounds.go)     *)
(* with the maintenance that removes those no template uses.               *)
(*                                                                         *)
(* A template is its text (regions, colours) and its two backgrounds; an   *)
(* id is a number, so the smallest is the first of the sorted ids.  Each   *)
(* change is one locked update of the state, saved before it is answered.  *)
(***************************************************************************)
EXTENDS Naturals, FiniteSets

CONSTANTS
  Devices, Ids, Texts, Files, None,
  Seeded,           \* id and text of the template made at the first start
  SeededText,
  MaxEdits          \* bound on what operators do

Template == [text : Texts, bg : Files \cup {None}, flipped : Files \cup {None}]

ASSUME TemplatesAssumption ==
  /\ Ids \subseteq Nat /\ Seeded \in Ids /\ SeededText \in Texts
  /\ None \notin Ids \cup Texts \cup Files /\ None \notin Template
  /\ MaxEdits \in Nat

VARIABLES
  templates,        \* st.Templates: id -> template or None
  global,           \* st.Global.TemplateID
  registered,       \* st.Devices
  own,              \* Display.TemplateID, None for the global one
  mirror,           \* Display.Mirror
  backgrounds,      \* the files in data_dir/backgrounds
  fresh,            \* those saved within backgroundGrace
  upload,           \* the upload of a background
  gc,               \* gcBackgrounds
  resaved,          \* files saved again after gc had decided on them
  edits

settings       == <<templates, global, own, mirror>>
backgroundVars == <<backgrounds, fresh, upload, gc, resaved>>

TemplatesTypeOK ==
  /\ templates \in [Ids -> Template \cup {None}]
  /\ global \in Ids
  /\ registered \subseteq Devices
  /\ own \in [Devices -> Ids \cup {None}] /\ mirror \in [Devices -> BOOLEAN]
  /\ backgrounds \subseteq Files /\ fresh \subseteq Files /\ resaved \subseteq Files
  /\ upload \in [at : {"none", "received", "saved"}, id : Ids \cup {None},
                 flipped : BOOLEAN, file : Files \cup {None}]
  /\ gc \in [at : {"idle", "look", "remove"}, used : SUBSET (Files \cup {None}),
             todo : SUBSET Files, file : Files \cup {None}]
  /\ edits \in 0 .. MaxEdits

NoUpload == [at |-> "none", id |-> None, flipped |-> FALSE, file |-> None]
NoGc     == [at |-> "idle", used |-> {}, todo |-> {}, file |-> None]

(* SeedDefaultTemplate and EnsureGlobalTemplate at the first start.        *)
TemplatesInit ==
  /\ templates = [i \in Ids |-> IF i = Seeded
                                THEN [text |-> SeededText, bg |-> None, flipped |-> None]
                                ELSE None]
  /\ global = Seeded
  /\ registered = Devices
  /\ own = [d \in Devices |-> None] /\ mirror = [d \in Devices |-> FALSE]
  /\ backgrounds = {} /\ fresh = {} /\ resaved = {}
  /\ upload = NoUpload /\ gc = NoGc
  /\ edits = 0

Present == {i \in Ids : templates[i] # None}
Edit    == edits < MaxEdits /\ edits' = edits + 1

(* A new template has no background; an edited one keeps the ones it has.  *)
PutTemplate(i, text) ==
  /\ Edit
  /\ templates' = [templates EXCEPT ![i] =
       IF i \in Present THEN [templates[i] EXCEPT !.text = text]
                        ELSE [text |-> text, bg |-> None, flipped |-> None]]
  /\ UNCHANGED <<global, registered, own, mirror, backgroundVars>>

EnsureGlobal(present) ==
  IF global \in present THEN global ELSE CHOOSE i \in present : \A j \in present : i <= j

(* Not the last one, and none a device has as its own.                     *)
DeleteTemplate(i) ==
  /\ Edit
  /\ i \in Present /\ Cardinality(Present) > 1
  /\ \A d \in registered : own[d] # i
  /\ templates' = [templates EXCEPT ![i] = None]
  /\ global' = EnsureGlobal(Present \ {i})
  /\ UNCHANGED <<registered, own, mirror, backgroundVars>>

PutGlobal(i) ==
  /\ Edit
  /\ i \in Present
  /\ global' = i
  /\ UNCHANGED <<templates, registered, own, mirror, backgroundVars>>

PutDisplay(d, i, m) ==
  /\ Edit
  /\ d \in registered /\ i \in Present \cup {None}
  /\ own' = [own EXCEPT ![d] = i] /\ mirror' = [mirror EXCEPT ![d] = m]
  /\ UNCHANGED <<templates, global, registered, backgroundVars>>

--------------------------------------------------------------------------------
\* Backgrounds

(* setBackground: no mirrored one without a regular one.                   *)
WithBackground(t, flipped, b) ==
  CASE ~flipped /\ b # None                -> [t EXCEPT !.bg = b]
    [] ~flipped /\ b = None                -> [t EXCEPT !.bg = None, !.flipped = None]
    [] flipped /\ b # None /\ t.bg = None  -> t                        \* refused
    [] OTHER                               -> [t EXCEPT !.flipped = b]

SetBackground(i, flipped, b) ==
  templates' = IF i \in Present
               THEN [templates EXCEPT ![i] = WithBackground(templates[i], flipped, b)]
               ELSE templates

ReceiveBackground(i, flipped, b) ==
  /\ Edit
  /\ upload.at = "none" /\ i \in Present
  /\ upload' = [at |-> "received", id |-> i, flipped |-> flipped, file |-> b]
  /\ UNCHANGED <<settings, registered, backgrounds, fresh, gc, resaved>>

(* The file is named by its content, and replaces an older one of its name.*)
SaveBackground ==
  /\ upload.at = "received"
  /\ backgrounds' = backgrounds \cup {upload.file}
  /\ fresh' = fresh \cup {upload.file}
  /\ resaved' = IF gc.at = "remove" /\ gc.file = upload.file
                THEN resaved \cup {upload.file} ELSE resaved
  /\ upload' = [upload EXCEPT !.at = "saved"]
  /\ UNCHANGED <<settings, registered, gc, edits>>

SetUploaded ==
  /\ upload.at = "saved"
  /\ SetBackground(upload.id, upload.flipped, upload.file)
  /\ upload' = NoUpload
  /\ UNCHANGED <<global, registered, own, mirror, backgrounds, fresh, gc, resaved, edits>>

DeleteBackground(i, flipped) ==
  /\ Edit
  /\ i \in Present
  /\ SetBackground(i, flipped, None)
  /\ UNCHANGED <<global, registered, own, mirror, backgroundVars>>

(* The grace is far longer than the rest of an upload, or a run of the gc. *)
GraceEnds(b) ==
  /\ b \in fresh /\ ~(upload.at = "saved" /\ upload.file = b) /\ gc.at = "idle"
  /\ fresh' = fresh \ {b}
  /\ UNCHANGED <<settings, registered, backgrounds, upload, gc, resaved, edits>>

Used == UNION {{templates[i].bg, templates[i].flipped} : i \in Present}

GcLook ==
  /\ gc.at = "idle" /\ backgrounds # {}
  /\ gc' = [at |-> "look", used |-> Used, todo |-> backgrounds, file |-> None]
  /\ UNCHANGED <<settings, registered, backgrounds, fresh, upload, resaved, edits>>

(* Mutant: a file saved just now, but not in a template yet, goes as well. *)
Doomed_NoGrace(b) == b \notin gc.used

Doomed(b) == b \notin gc.used /\ b \notin fresh

GcStat(b) ==
  /\ gc.at = "look" /\ b \in gc.todo
  /\ gc' = IF Doomed(b) THEN [gc EXCEPT !.at = "remove", !.file = b, !.todo = @ \ {b}]
           ELSE IF gc.todo = {b} THEN NoGc
           ELSE [gc EXCEPT !.todo = @ \ {b}]
  /\ UNCHANGED <<settings, registered, backgrounds, fresh, upload, resaved, edits>>

GcRemove ==
  /\ gc.at = "remove"
  /\ backgrounds' = backgrounds \ {gc.file}
  /\ fresh' = fresh \ {gc.file}
  /\ gc' = IF gc.todo = {} THEN NoGc ELSE [gc EXCEPT !.at = "look", !.file = None]
  /\ UNCHANGED <<settings, registered, upload, resaved, edits>>

--------------------------------------------------------------------------------
EditTemplates ==
  \/ \E i \in Ids : \/ \E text \in Texts : PutTemplate(i, text)
                    \/ DeleteTemplate(i) \/ PutGlobal(i)
                    \/ \E flipped \in BOOLEAN :
                         DeleteBackground(i, flipped)
                         \/ \E b \in Files : ReceiveBackground(i, flipped, b)
  \/ \E d \in Devices, i \in Ids \cup {None}, m \in BOOLEAN : PutDisplay(d, i, m)

Backgrounds ==
  \/ SaveBackground \/ SetUploaded
  \/ \E b \in Files : GraceEnds(b) \/ GcStat(b)
  \/ GcLook \/ GcRemove

TemplatesRestart ==
  /\ upload' = NoUpload /\ gc' = NoGc
  /\ UNCHANGED <<settings, backgrounds, fresh, resaved>>

--------------------------------------------------------------------------------
\* Properties

(* Every device has a template to show: the global one exists, and so does *)
(* any a device has as its own, whatever is deleted in between.            *)
TemplatesResolve ==
  /\ global \in Present
  /\ \A d \in registered : own[d] # None => own[d] \in Present

(* The background of a template is there to be rendered: maintenance takes *)
(* none that a template uses or is about to use - but for one saved again  *)
(* between its look at the old file and the removal.                       *)
BackgroundsInUseExist ==
  /\ Used \ {None} \subseteq backgrounds \cup resaved
  /\ \A i \in Present : templates[i].flipped # None => templates[i].bg # None
================================================================================
