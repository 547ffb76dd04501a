---------------------------- MODULE ManifestsProofs ----------------------------
(***************************************************************************)
(* What is always true of templates and backgrounds, and of the manifest   *)
(* of a device, and why.                                                   *)
(***************************************************************************)
EXTENDS Manifests, WellFoundedInduction, FiniteSetTheorems, TLAPS

Safe == Init /\ [][Next]_vars

--------------------------------------------------------------------------------
\* The inductive invariant

Resolves ==
  /\ TemplatesResolve
  /\ \A d \in Devices \ registered : own[d] = None

(* A background that was saved is kept by its age until it is set; so is   *)
(* one that came into use after maintenance had looked at the templates.   *)
UploadInv ==
  /\ fresh \subseteq backgrounds
  /\ upload.at # "none" => upload.id \in Ids /\ upload.file \in Files
  /\ upload.at = "saved" => upload.file \in fresh \cup resaved

GcInv ==
  /\ gc.at # "idle" => Used \subseteq gc.used \cup fresh \cup resaved \cup {None}
  /\ gc.at = "remove" => /\ gc.file \in Files \ gc.used
                         /\ gc.file \in fresh => gc.file \in resaved

TemplatesInv == TemplatesTypeOK /\ Resolves /\ UploadInv /\ GcInv /\ BackgroundsInUseExist

(* A content that was read: its template was there.                        *)
WasRead(c) == c.kind = "template" => c.template \in Template

(* A whole picture: of the test card, or of a template that was there.     *)
WholePicture(i) == i \in Image /\ (i.kind # "test" => i.text \in Texts)

(* m was made from c, but for what had gone or changed by then.            *)
Made(c, m, short) ==
  \/ short
  \/ m.image = Picture(c, c.media, Background(c)) /\ m.media = c.media

KeyInv ==
  /\ WasRead(rt.key)
  /\ rt.m # NoManifest => WholePicture(rt.m.image) /\ Made(rt.key, rt.m, rt.short)

(* The files of m that are not to do any more are those of c.              *)
Hashed(c, m, todo, short) == short \/ \A n \in Names \ todo : m.media[n] = c.media[n]

GoodRequest(r) ==
  /\ WasRead(r.content)
  /\ r.at \in {"lookup", "build", "prune", "store"} => r.content.kind # "none"
  /\ r.at \in {"content", "lookup"} => r.m = NoManifest
  /\ r.at = "build" => Hashed(r.content, r.m, r.todo, r.short)
  /\ r.at \in {"prune", "store"} => Made(r.content, r.m, r.short)
  /\ r.at \in {"prune", "store", "reply"} => WholePicture(r.m.image)

RequestsInv == \A s \in Slots : GoodRequest(req[s])

DeviceInv ==
  /\ target # NoManifest => WholePicture(target.image)
  /\ shown # NoManifest => WholePicture(shown.image)

(* As long as requests do not overlap, there is one at most, what it says  *)
(* the device shows is what it shows, and "applied" is true of the device. *)
Busy(s)   == req[s].at # "idle"
Alone     == \A r, s \in Slots : Busy(r) /\ Busy(s) => r = s
Honest    == \A s \in Slots : Busy(s) => target = NoManifest /\ req[s].applied = shown
Forgotten == \A s \in Slots : Busy(s) /\ ~req[s].entry => rt.m = NoManifest
Answered  == \A s \in Slots : req[s].at = "reply" => rt.m \in {req[s].m, NoManifest}
Noted     == rt.m # NoManifest /\ rt.applied = rt.m
             => \/ shown = rt.m /\ target = NoManifest
                \/ \E s \in Slots : req[s].at = "reply"

OneAtATime == disturbed # "overlapped" => Alone /\ Honest /\ Forgotten /\ Answered /\ Noted

IInv == TypeOK /\ TemplatesInv /\ KeyInv /\ RequestsInv /\ DeviceInv /\ OneAtATime

--------------------------------------------------------------------------------
\* Templates and backgrounds

LEMMA UploadTypes ==
  ASSUME TemplatesTypeOK, upload' \in {upload, NoUpload}
  PROVE  upload' \in [at : {"none", "received", "saved"}, id : Ids \cup {None},
                      flipped : BOOLEAN, file : Files \cup {None}]
<1>1. NoUpload \in [at : {"none", "received", "saved"}, id : Ids \cup {None},
                    flipped : BOOLEAN, file : Files \cup {None}]
  BY SMT DEF NoUpload
<1> QED
  BY <1>1 DEF TemplatesTypeOK

(* The first of the sorted ids is one of them.                             *)
LEMMA SmallestId == ASSUME NEW S, S \subseteq Nat, S # {}
                    PROVE  (CHOOSE i \in S : \A j \in S : i <= j) \in S
<1>1. \E x \in S : \A y \in S : <<y, x>> \notin OpToRel(<, Nat)
  BY NatLessThanWellFounded, WFMin, Zenon
<1>2. PICK x \in S : \A y \in S : <<y, x>> \notin OpToRel(<, Nat)
  BY <1>1
<1>3. \A y \in S : x <= y
  <2> TAKE y \in S
  <2>1. <<y, x>> \in Nat \X Nat /\ <<y, x>>[1] = y /\ <<y, x>>[2] = x
    OBVIOUS
  <2>2. y < x => <<y, x>> \in OpToRel(<, Nat)
    BY <2>1 DEF OpToRel
  <2>3. <<y, x>> \notin OpToRel(<, Nat) /\ x \in Nat /\ y \in Nat
    BY <1>2
  <2>4. ~(y < x)
    BY <2>2, <2>3
  <2>5. x \in Nat /\ y \in Nat
    BY <2>3
  <2> QED
    BY <2>4, <2>5
<1> QED
  BY <1>3

LEMMA UsedIs == ASSUME TemplatesTypeOK, NEW b
                PROVE  b \in Used <=> \E i \in Present : b \in {templates[i].bg, templates[i].flipped}
  BY DEF Used

LEMMA TemplateSetTypes ==
  ASSUME TemplatesTypeOK, NEW i \in Ids, NEW t \in Template, templates' = [templates EXCEPT ![i] = t]
  PROVE  /\ templates' \in [Ids -> Template \cup {None}]
         /\ templates'[i] = t /\ \A j \in Ids \ {i} : templates'[j] = templates[j]
         /\ Present' = Present \cup {i}
  BY TemplatesAssumption DEF TemplatesTypeOK, Present

(* A template is put whose backgrounds are in use already or kept.         *)
LEMMA TemplateSet ==
  ASSUME TemplatesInv, NEW i \in Ids, NEW t \in Template, templates' = [templates EXCEPT ![i] = t],
         t.flipped # None => t.bg # None,
         {t.bg, t.flipped} \subseteq Used \cup {None} \cup fresh \cup resaved,
         UNCHANGED <<global, registered, own, mirror, backgrounds, fresh, gc, resaved>>,
         edits' \in 0 .. MaxEdits, upload' \in {upload, NoUpload}
  PROVE  TemplatesInv'
<1>0. TemplatesTypeOK /\ Resolves /\ UploadInv /\ GcInv /\ BackgroundsInUseExist
  BY DEF TemplatesInv
<1>1. /\ templates' \in [Ids -> Template \cup {None}]
      /\ templates'[i] = t /\ \A j \in Ids \ {i} : templates'[j] = templates[j]
      /\ Present' = Present \cup {i}
  BY <1>0, TemplateSetTypes
<1>2. upload' \in [at : {"none", "received", "saved"}, id : Ids \cup {None},
                   flipped : BOOLEAN, file : Files \cup {None}]
  BY <1>0, UploadTypes
<1>3. TemplatesTypeOK'
  BY <1>0, <1>1, <1>2 DEF TemplatesTypeOK
<1>4. Used' \subseteq Used \cup {None} \cup fresh \cup resaved
  <2> SUFFICES ASSUME NEW b \in Used' PROVE b \in Used \cup {None} \cup fresh \cup resaved
    OBVIOUS
  <2>1. PICK j \in Present' : b \in {templates'[j].bg, templates'[j].flipped}
    BY DEF Used
  <2>2. CASE j = i
    BY <2>1, <2>2, <1>1
  <2>3. CASE j # i
    <3>1. j \in Present /\ j \in Ids /\ templates'[j] = templates[j]
      BY <2>3, <1>1 DEF Present
    <3> QED
      BY <2>1, <3>1 DEF Used
  <2> QED
    BY <2>2, <2>3
<1>5. Resolves'
  BY <1>0, <1>1 DEF Resolves, TemplatesResolve
<1>6. UploadInv'
  BY <1>0 DEF UploadInv, NoUpload
<1>7. GcInv'
  BY <1>0, <1>4 DEF GcInv
<1>8. BackgroundsInUseExist'
  <2>1. (Used \ {None} \subseteq backgrounds \cup resaved)'
    BY <1>0, <1>4 DEF BackgroundsInUseExist, UploadInv
  <2>2. \A j \in Present' : templates'[j].flipped # None => templates'[j].bg # None
    BY <1>0, <1>1 DEF BackgroundsInUseExist, Present
  <2> QED
    BY <2>1, <2>2 DEF BackgroundsInUseExist
<1> QED
  BY <1>3, <1>5, <1>6, <1>7, <1>8 DEF TemplatesInv

(* What is in use stays in use; only which template is whose changes.      *)
LEMMA Resettled ==
  ASSUME TemplatesInv, TemplatesTypeOK', Resolves', UNCHANGED <<templates, backgroundVars>>
  PROVE  TemplatesInv'
<1>1. UNCHANGED <<Used, Present>>
  BY DEF Used, Present
<1> QED
  BY <1>1 DEF TemplatesInv, UploadInv, GcInv, BackgroundsInUseExist, backgroundVars

LEMMA OneMoreEdit == TemplatesTypeOK /\ Edit => edits' \in 0 .. MaxEdits
  BY TemplatesAssumption DEF TemplatesTypeOK, Edit

LEMMA UsedBy == ASSUME NEW i \in Present
                PROVE  templates[i].bg \in Used /\ templates[i].flipped \in Used
  BY DEF Used

LEMMA PutTemplateKeeps == ASSUME TemplatesInv, NEW i \in Ids, NEW text \in Texts, PutTemplate(i, text)
                          PROVE  TemplatesInv'
<1>1. TemplatesTypeOK /\ BackgroundsInUseExist
  BY DEF TemplatesInv
<1>2. edits' \in 0 .. MaxEdits
  BY <1>1, OneMoreEdit DEF PutTemplate
<1> DEFINE t == IF i \in Present THEN [templates[i] EXCEPT !.text = text]
                                ELSE [text |-> text, bg |-> None, flipped |-> None]
<1>3. i \in Present => templates[i] \in Template /\ templates[i].bg \in Used /\ templates[i].flipped \in Used
  BY <1>1, UsedBy DEF TemplatesTypeOK, Present
<1>4. t \in Template
  BY <1>3 DEF Template
<1>5. /\ t.flipped # None => t.bg # None
      /\ {t.bg, t.flipped} \subseteq Used \cup {None} \cup fresh \cup resaved
  BY <1>1, <1>3 DEF Template, BackgroundsInUseExist
<1>6. templates' = [templates EXCEPT ![i] = t]
  BY DEF PutTemplate
<1> HIDE DEF t
<1> QED
  BY <1>2, <1>4, <1>5, <1>6, TemplateSet DEF PutTemplate, backgroundVars

(* setBackground keeps the rule of the mirrored background.                *)
LEMMA WithBackgroundIs ==
  ASSUME NEW t \in Template, NEW flipped \in BOOLEAN, NEW b \in Files \cup {None},
         t.flipped # None => t.bg # None
  PROVE  LET n == WithBackground(t, flipped, b)
         IN /\ n \in Template
            /\ n.flipped # None => n.bg # None
            /\ {n.bg, n.flipped} \subseteq {t.bg, t.flipped, b, None}
  BY DEF WithBackground, Template

LEMMA SetBackgroundKeeps ==
  ASSUME TemplatesInv, NEW i \in Ids, NEW flipped \in BOOLEAN, NEW b \in Files \cup {None},
         b \in {None} \cup fresh \cup resaved, SetBackground(i, flipped, b),
         UNCHANGED <<global, registered, own, mirror, backgrounds, fresh, gc, resaved>>,
         edits' \in 0 .. MaxEdits, upload' \in {upload, NoUpload}
  PROVE  TemplatesInv'
<1>1. TemplatesTypeOK /\ BackgroundsInUseExist /\ Resolves
  BY DEF TemplatesInv
<1>2. CASE i \in Present
  <2>1. templates[i] \in Template /\ (templates[i].flipped # None => templates[i].bg # None)
        /\ templates[i].bg \in Used /\ templates[i].flipped \in Used
    BY <1>1, <1>2, UsedBy DEF TemplatesTypeOK, Present, BackgroundsInUseExist
  <2> DEFINE n == WithBackground(templates[i], flipped, b)
  <2>2. /\ n \in Template
        /\ n.flipped # None => n.bg # None
        /\ {n.bg, n.flipped} \subseteq {templates[i].bg, templates[i].flipped, b, None}
    BY <2>1, WithBackgroundIs
  <2>3. templates' = [templates EXCEPT ![i] = n]
    BY <1>2 DEF SetBackground
  <2> HIDE DEF n
  <2> QED
    <3>1. {n.bg, n.flipped} \subseteq Used \cup {None} \cup fresh \cup resaved
      BY <2>1, <2>2
    <3> QED
      BY <2>2, <2>3, <3>1, TemplateSet
<1>3. CASE i \notin Present
  <2>1. UNCHANGED templates /\ UNCHANGED <<Used, Present>>
    BY <1>3 DEF SetBackground, Used, Present
  <2>2. upload' \in [at : {"none", "received", "saved"}, id : Ids \cup {None},
                     flipped : BOOLEAN, file : Files \cup {None}]
    BY <1>1, UploadTypes
  <2>3. TemplatesTypeOK'
    BY <1>1, <2>1, <2>2 DEF TemplatesTypeOK
  <2> QED
    BY <2>1, <2>3 DEF TemplatesInv, UploadInv, GcInv, BackgroundsInUseExist, NoUpload,
                      Resolves, TemplatesResolve
<1> QED
  BY <1>2, <1>3

(* A template is left for all, as the last one cannot be deleted.          *)
LEMMA DeleteTemplateKeeps == ASSUME TemplatesInv, NEW i \in Ids, DeleteTemplate(i)
                             PROVE  TemplatesInv'
<1>1. TemplatesTypeOK /\ Resolves /\ BackgroundsInUseExist /\ UploadInv /\ GcInv
  BY DEF TemplatesInv
<1>2. /\ templates' = [templates EXCEPT ![i] = None] /\ i \in Present /\ Cardinality(Present) > 1
      /\ \A d \in registered : own[d] # i
      /\ global' = EnsureGlobal(Present \ {i})
      /\ UNCHANGED <<registered, own, mirror>> /\ UNCHANGED backgroundVars
  BY DEF DeleteTemplate
<1>3. edits' \in 0 .. MaxEdits
  BY <1>1, OneMoreEdit DEF DeleteTemplate
<1>4. Present' = Present \ {i} /\ templates' \in [Ids -> Template \cup {None}]
      /\ \A j \in Present' : templates'[j] = templates[j]
  BY <1>1, <1>2 DEF TemplatesTypeOK, Present
<1>5. Present \ {i} # {}
  <2>1. Present \ {i} = {} => Present = {i}
    BY <1>2
  <2>2. Cardinality({i}) = 1
    BY FS_Singleton
  <2> QED
    BY <1>2, <2>1, <2>2
<1>6. global' \in Present'
  <2>1. Present \ {i} \subseteq Nat
    BY TemplatesAssumption DEF Present
  <2>2. (CHOOSE k \in Present \ {i} : \A j \in Present \ {i} : k <= j) \in Present \ {i}
    BY <1>5, <2>1, SmallestId
  <2> QED
    BY <1>2, <1>4, <2>2 DEF EnsureGlobal
<1>7. Resolves'
  <2>1. ASSUME NEW d \in registered, own[d] # None PROVE own[d] \in Present \ {i}
    BY <1>1, <1>2, <2>1 DEF Resolves, TemplatesResolve
  <2> QED
    BY <1>1, <1>2, <1>4, <1>6, <2>1 DEF Resolves, TemplatesResolve
<1>8. TemplatesTypeOK'
  <2>1. global' \in Ids
    BY <1>6, <1>4 DEF Present
  <2> QED
    BY <1>1, <1>2, <1>3, <1>4, <2>1 DEF TemplatesTypeOK, backgroundVars
<1>9. Used' \subseteq Used
  <2> SUFFICES ASSUME NEW b \in Used' PROVE b \in Used
    OBVIOUS
  <2>1. PICK j \in Present' : b \in {templates'[j].bg, templates'[j].flipped}
    BY DEF Used
  <2> QED
    BY <2>1, <1>4 DEF Used
<1>10. UploadInv' /\ GcInv'
  BY <1>1, <1>2, <1>9 DEF UploadInv, GcInv, backgroundVars
<1>11. BackgroundsInUseExist'
  BY <1>1, <1>2, <1>4, <1>9 DEF BackgroundsInUseExist, backgroundVars
<1> QED
  BY <1>7, <1>8, <1>10, <1>11 DEF TemplatesInv

LEMMA PutGlobalKeeps == ASSUME TemplatesInv, NEW i \in Ids, PutGlobal(i)
                        PROVE  TemplatesInv'
<1>1. TemplatesTypeOK /\ Resolves
  BY DEF TemplatesInv
<1>2. edits' \in 0 .. MaxEdits
  BY <1>1, OneMoreEdit DEF PutGlobal
<1>3. TemplatesTypeOK' /\ Resolves'
  BY <1>1, <1>2 DEF PutGlobal, TemplatesTypeOK, Resolves, TemplatesResolve, Present, backgroundVars
<1> QED
  BY <1>3, Resettled DEF PutGlobal

LEMMA PutDisplayKeeps ==
  ASSUME TemplatesInv, NEW d \in Devices, NEW i \in Ids \cup {None}, NEW m \in BOOLEAN, PutDisplay(d, i, m)
  PROVE  TemplatesInv'
<1>1. TemplatesTypeOK /\ Resolves
  BY DEF TemplatesInv
<1>2. edits' \in 0 .. MaxEdits
  BY <1>1, OneMoreEdit DEF PutDisplay
<1>3. TemplatesTypeOK'
  BY <1>1, <1>2 DEF PutDisplay, TemplatesTypeOK, backgroundVars
<1>4. Resolves'
  BY <1>1 DEF PutDisplay, TemplatesTypeOK, Resolves, TemplatesResolve, Present
<1> QED
  BY <1>3, <1>4, Resettled DEF PutDisplay

LEMMA ReceiveBackgroundKeeps ==
  ASSUME TemplatesInv, NEW i \in Ids, NEW flipped \in BOOLEAN, NEW b \in Files, ReceiveBackground(i, flipped, b)
  PROVE  TemplatesInv'
<1>1. TemplatesTypeOK /\ Resolves /\ BackgroundsInUseExist /\ UploadInv /\ GcInv
  BY DEF TemplatesInv
<1>2. edits' \in 0 .. MaxEdits
  BY <1>1, OneMoreEdit DEF ReceiveBackground
<1>3. UNCHANGED <<Used, Present>>
  BY DEF ReceiveBackground, settings, Used, Present
<1>4. TemplatesTypeOK'
  BY <1>1, <1>2 DEF ReceiveBackground, TemplatesTypeOK, settings
<1>5. Resolves' /\ BackgroundsInUseExist' /\ GcInv'
  BY <1>1, <1>3 DEF ReceiveBackground, Resolves, TemplatesResolve, BackgroundsInUseExist, GcInv, settings
<1>6. UploadInv'
  BY <1>1 DEF ReceiveBackground, UploadInv
<1> QED
  BY <1>4, <1>5, <1>6 DEF TemplatesInv

LEMMA DeleteBackgroundKeeps ==
  ASSUME TemplatesInv, NEW i \in Ids, NEW flipped \in BOOLEAN, DeleteBackground(i, flipped)
  PROVE  TemplatesInv'
<1>1. edits' \in 0 .. MaxEdits
  BY OneMoreEdit DEF DeleteBackground, TemplatesInv
<1> QED
  BY <1>1, SetBackgroundKeeps DEF DeleteBackground, backgroundVars

LEMMA SetUploadedKeeps == ASSUME TemplatesInv, SetUploaded PROVE TemplatesInv'
<1>1. TemplatesTypeOK /\ UploadInv
  BY DEF TemplatesInv
<1>2. /\ upload.id \in Ids /\ upload.flipped \in BOOLEAN /\ upload.file \in Files
      /\ upload.file \in {None} \cup fresh \cup resaved
  BY <1>1 DEF SetUploaded, UploadInv, TemplatesTypeOK
<1>3. edits' \in 0 .. MaxEdits
  BY <1>1 DEF SetUploaded, TemplatesTypeOK
<1> QED
  BY <1>2, <1>3, SetBackgroundKeeps DEF SetUploaded

--------------------------------------------------------------------------------
\* Steps that leave the templates alone

LEMMA SameTemplates ==
  ASSUME TemplatesInv, UNCHANGED <<settings, registered>>
  PROVE  UNCHANGED <<Used, Present>> /\ Resolves' /\ (BackgroundsInUseExist => 
           (backgrounds \cup resaved \subseteq (backgrounds \cup resaved)' => BackgroundsInUseExist'))
  BY DEF TemplatesInv, settings, Used, Present, Resolves, TemplatesResolve, BackgroundsInUseExist

LEMMA SaveBackgroundKeeps == ASSUME TemplatesInv, SaveBackground PROVE TemplatesInv'
<1>1. TemplatesTypeOK /\ BackgroundsInUseExist /\ UploadInv /\ GcInv
  BY DEF TemplatesInv
<1>2. UNCHANGED <<Used, Present>> /\ Resolves' /\ BackgroundsInUseExist'
  BY <1>1, SameTemplates DEF SaveBackground
<1>3. upload.file \in Files /\ upload.id \in Ids
  BY <1>1 DEF SaveBackground, UploadInv
<1>4. TemplatesTypeOK'
  BY <1>1, <1>3 DEF SaveBackground, TemplatesTypeOK, settings
<1>5. UploadInv'
  BY <1>1, <1>3 DEF SaveBackground, UploadInv, TemplatesTypeOK
<1>6. GcInv'
  BY <1>1, <1>2 DEF SaveBackground, GcInv
<1> QED
  BY <1>2, <1>4, <1>5, <1>6 DEF TemplatesInv

LEMMA GraceEndsKeeps == ASSUME TemplatesInv, NEW b \in Files, GraceEnds(b) PROVE TemplatesInv'
<1>1. TemplatesTypeOK /\ BackgroundsInUseExist /\ UploadInv /\ GcInv
  BY DEF TemplatesInv
<1>2. UNCHANGED <<Used, Present>> /\ Resolves' /\ BackgroundsInUseExist'
  BY <1>1, SameTemplates DEF GraceEnds
<1>3. TemplatesTypeOK'
  BY <1>1 DEF GraceEnds, TemplatesTypeOK, settings
<1>4. UploadInv' /\ GcInv'
  BY <1>1 DEF GraceEnds, UploadInv, GcInv
<1> QED
  BY <1>2, <1>3, <1>4 DEF TemplatesInv

LEMMA GcLookKeeps == ASSUME TemplatesInv, GcLook PROVE TemplatesInv'
<1>1. TemplatesTypeOK /\ BackgroundsInUseExist /\ UploadInv /\ GcInv
  BY DEF TemplatesInv
<1>2. UNCHANGED <<Used, Present>> /\ Resolves' /\ BackgroundsInUseExist'
  BY <1>1, SameTemplates DEF GcLook
<1>3. Used \subseteq Files \cup {None}
  BY <1>1 DEF TemplatesTypeOK, Used, Present, Template
<1>4. TemplatesTypeOK'
  BY <1>1, <1>3 DEF GcLook, TemplatesTypeOK, settings
<1>5. UploadInv' /\ GcInv'
  BY <1>1, <1>2 DEF GcLook, UploadInv, GcInv
<1> QED
  BY <1>2, <1>4, <1>5 DEF TemplatesInv

LEMMA NoGcTypes == NoGc \in [at : {"idle", "look", "remove"}, used : SUBSET (Files \cup {None}),
                             todo : SUBSET Files, file : Files \cup {None}]
  BY SMT DEF NoGc

LEMMA GcStatKeeps == ASSUME TemplatesInv, NEW b \in Files, GcStat(b) PROVE TemplatesInv'
<1>1. TemplatesTypeOK /\ BackgroundsInUseExist /\ UploadInv /\ GcInv
  BY DEF TemplatesInv
<1>2. UNCHANGED <<Used, Present>> /\ Resolves' /\ BackgroundsInUseExist'
  BY <1>1, SameTemplates DEF GcStat
<1>3. TemplatesTypeOK'
  BY <1>1, NoGcTypes DEF GcStat, TemplatesTypeOK, settings
<1>4. UploadInv'
  BY <1>1 DEF GcStat, UploadInv
<1>5. GcInv'
  BY <1>1, <1>2 DEF GcStat, GcInv, Doomed, TemplatesTypeOK, NoGc
<1> QED
  BY <1>2, <1>3, <1>4, <1>5 DEF TemplatesInv

(* What is removed is in no template: none used it when maintenance        *)
(* looked, and one put in use since is young, or was saved again.          *)
LEMMA GcRemoveKeeps == ASSUME TemplatesInv, GcRemove PROVE TemplatesInv'
<1>1. TemplatesTypeOK /\ BackgroundsInUseExist /\ UploadInv /\ GcInv
  BY DEF TemplatesInv
<1>2. UNCHANGED <<Used, Present>> /\ Resolves'
  BY <1>1, SameTemplates DEF GcRemove
<1>3. gc.file \in Files \ gc.used /\ (gc.file \in Used => gc.file \in resaved)
      /\ (gc.file \in fresh => gc.file \in resaved) /\ gc.file # None
      /\ Used \subseteq gc.used \cup fresh \cup resaved \cup {None}
  BY <1>1, TemplatesAssumption DEF GcRemove, GcInv
<1>4. BackgroundsInUseExist'
  BY <1>1, <1>2, <1>3 DEF GcRemove, BackgroundsInUseExist, settings
<1>5. TemplatesTypeOK'
  BY <1>1, NoGcTypes DEF GcRemove, TemplatesTypeOK, settings
<1>6. UploadInv'
  BY <1>1, <1>3 DEF GcRemove, UploadInv
<1>7. GcInv'
  BY <1>1, <1>2, <1>3 DEF GcRemove, GcInv, TemplatesTypeOK, NoGc
<1> QED
  BY <1>2, <1>4, <1>5, <1>6, <1>7 DEF TemplatesInv

LEMMA TemplatesRestartKeeps ==
  ASSUME TemplatesInv, TemplatesRestart, UNCHANGED <<registered, edits>> PROVE TemplatesInv'
<1>1. TemplatesTypeOK /\ BackgroundsInUseExist /\ UploadInv /\ GcInv
  BY DEF TemplatesInv
<1>2. UNCHANGED <<Used, Present>> /\ Resolves' /\ BackgroundsInUseExist'
  BY <1>1, SameTemplates DEF TemplatesRestart
<1>3. upload' \in [at : {"none", "received", "saved"}, id : Ids \cup {None},
                   flipped : BOOLEAN, file : Files \cup {None}]
  BY <1>1, UploadTypes DEF TemplatesRestart
<1>4. TemplatesTypeOK'
  BY <1>1, <1>3, NoGcTypes DEF TemplatesRestart, TemplatesTypeOK, settings
<1>5. UploadInv' /\ GcInv'
  BY <1>1 DEF TemplatesRestart, UploadInv, GcInv, NoUpload, NoGc
<1> QED
  BY <1>2, <1>4, <1>5 DEF TemplatesInv

LEMMA TemplatesStep == ASSUME TemplatesInv, EditTemplates \/ Backgrounds PROVE TemplatesInv'
<1>1. CASE EditTemplates
  BY <1>1, PutTemplateKeeps, DeleteTemplateKeeps, PutGlobalKeeps, DeleteBackgroundKeeps,
     ReceiveBackgroundKeeps, PutDisplayKeeps, Zenon DEF EditTemplates
<1>2. CASE Backgrounds
  BY <1>2, SaveBackgroundKeeps, SetUploadedKeeps, GraceEndsKeeps, GcStatKeeps, GcLookKeeps,
     GcRemoveKeeps, Zenon DEF Backgrounds
<1> QED
  BY <1>1, <1>2

LEMMA TemplatesInitInv == ASSUME TemplatesInit PROVE TemplatesInv
<1>1. Present = {Seeded} /\ Used = {None}
  BY TemplatesAssumption DEF TemplatesInit, Present, Used, Template
<1>2. /\ templates \in [Ids -> Template \cup {None}]
      /\ own \in [Devices -> Ids \cup {None}] /\ mirror \in [Devices -> BOOLEAN]
  BY TemplatesAssumption DEF TemplatesInit, Template
<1>3. upload \in [at : {"none", "received", "saved"}, id : Ids \cup {None},
                  flipped : BOOLEAN, file : Files \cup {None}]
  BY SMT DEF TemplatesInit, NoUpload
<1>4. TemplatesTypeOK
  BY <1>2, <1>3, NoGcTypes, TemplatesAssumption DEF TemplatesInit, TemplatesTypeOK
<1>5. Resolves /\ UploadInv /\ GcInv
  BY <1>1 DEF TemplatesInit, Resolves, TemplatesResolve, UploadInv, GcInv, NoUpload, NoGc
<1>6. BackgroundsInUseExist
  BY <1>1, TemplatesAssumption DEF TemplatesInit, BackgroundsInUseExist
<1> QED
  BY <1>4, <1>5, <1>6 DEF TemplatesInv

--------------------------------------------------------------------------------
\* What a manifest is made from

LEMMA Nothing ==
  /\ NoFiles \in FileSet /\ NoManifest \in Manifest /\ NoManifest.media = NoFiles
  /\ NoContent \in ContentRecord /\ NoContent.kind = "none" /\ WasRead(NoContent)
  /\ NoRuntime \in Runtime /\ NoRuntime.m = NoManifest /\ NoRuntime.key = NoContent
  /\ NoRequest \in Request /\ NoRequest.at = "idle" /\ NoRequest.m = NoManifest
  /\ NoRequest.content = NoContent /\ NoRequest.short = FALSE
<1>1. NoFiles \in FileSet
  BY DEF NoFiles, FileSet
<1>2. NoContent \in ContentRecord /\ NoContent.kind = "none" /\ WasRead(NoContent)
  BY <1>1 DEF NoContent, ContentRecord, WasRead
<1>3. NoManifest \in Manifest /\ NoManifest.media = NoFiles
  BY <1>1 DEF NoManifest, Manifest
<1>4. /\ NoRequest \in Request /\ NoRequest.at = "idle" /\ NoRequest.m = NoManifest
      /\ NoRequest.content = NoContent /\ NoRequest.short = FALSE
  BY <1>2, <1>3 DEF NoRequest, Request
<1>5. NoRuntime \in Runtime /\ NoRuntime.m = NoManifest /\ NoRuntime.key = NoContent
  BY <1>2, <1>3 DEF NoRuntime, Runtime
<1> QED
  BY <1>1, <1>2, <1>3, <1>4, <1>5

LEMMA ContentIs == ASSUME TypeOK, TemplatesInv
                   PROVE  Content \in ContentRecord /\ WasRead(Content) /\ Content.kind # "none"
<1>1. CASE test
  <2>1. Content = [kind |-> "test", source |-> "test", id |-> None, template |-> None,
                   mirror |-> FALSE, media |-> NoFiles]
    BY <1>1 DEF Content, NoContent
  <2>2. Content \in ContentRecord
    BY <2>1, Nothing DEF ContentRecord
  <2> QED
    BY <2>1, <2>2 DEF WasRead
<1>2. CASE ~test
  <2>1. ResolvedId \in Present
    BY DEF TemplatesInv, Resolves, TemplatesResolve, ResolvedId
  <2>2. ResolvedId \in Ids /\ templates[ResolvedId] \in Template
    BY <2>1 DEF Present, TypeOK, TemplatesTypeOK
  <2>3. mirror[Device] \in BOOLEAN /\ media \in FileSet
    BY ManifestsAssumption DEF TypeOK, TemplatesTypeOK
  <2> DEFINE source == IF own[Device] \in Present THEN "override" ELSE "global"
  <2>4. Content = [kind |-> "template", source |-> source, id |-> ResolvedId,
                   template |-> templates[ResolvedId], mirror |-> mirror[Device], media |-> media]
    BY <1>2 DEF Content
  <2>5. source \in {"override", "global"}
    OBVIOUS
  <2> HIDE DEF source
  <2>6. Content \in ContentRecord
    BY <2>2, <2>3, <2>4, <2>5 DEF ContentRecord
  <2> QED
    BY <2>2, <2>4, <2>6 DEF WasRead
<1> QED
  BY <1>1, <1>2

LEMMA PictureIs == ASSUME NEW c \in ContentRecord, WasRead(c), c.kind # "none", NEW files, NEW b \in Files \cup {None}
                   PROVE  WholePicture(Picture(c, files, b))
<1>1. c.kind \in {"test", "template"} /\ c.mirror \in BOOLEAN
  BY DEF ContentRecord
<1>2. CASE c.kind = "test"
  BY <1>2, TemplatesAssumption DEF Picture, TestCard, Image, WholePicture
<1>3. CASE c.kind = "template"
  <2>1. c.template.text \in Texts
    BY <1>3 DEF WasRead, Template
  <2> QED
    BY <1>1, <1>3, <2>1 DEF Picture, Image, WholePicture
<1> QED
  BY <1>1, <1>2, <1>3

(* The picture is made of what is there now.                               *)
LEMMA RenderedIs == ASSUME NEW c \in ContentRecord, WasRead(c), c.kind # "none", NEW files
                    PROVE  /\ WholePicture(Rendered(c, files))
                           /\ CanDraw(c) => Rendered(c, files) = Picture(c, files, Background(c))
<1>1. c.kind \in {"test", "template"}
  BY DEF ContentRecord
<1>2. Background(c) \in Files \cup {None}
  BY <1>1 DEF Background, BackgroundFor, WasRead, Template
<1> QED
  BY <1>2, PictureIs DEF Rendered

--------------------------------------------------------------------------------
\* Operators and time

(* What nothing but the device's requests and the device change.           *)
LEMMA SameRequests == ASSUME OneAtATime, UNCHANGED <<rt, req, target, shown>>,
                             disturbed' # "overlapped" => disturbed # "overlapped"
                      PROVE  OneAtATime'
  BY DEF OneAtATime, Alone, Honest, Forgotten, Answered, Noted, Busy

LEMMA SameAnswers == ASSUME KeyInv, RequestsInv, DeviceInv, UNCHANGED <<rt, req, target, shown>>
                     PROVE  KeyInv' /\ RequestsInv' /\ DeviceInv'
  BY DEF KeyInv, RequestsInv, DeviceInv

LEMMA EditsKeep == ASSUME IInv, Edits PROVE IInv'
<1>1. TemplatesInv'
  BY TemplatesStep DEF IInv, Edits
<1>2. TypeOK'
  BY <1>1 DEF IInv, Edits, TypeOK, TemplatesInv, pictures, inputs, deviceVars
<1>3. KeyInv' /\ RequestsInv' /\ DeviceInv' /\ OneAtATime'
  BY SameAnswers, SameRequests DEF IInv, Edits, deviceVars
<1> QED
  BY <1>1, <1>2, <1>3 DEF IInv

LEMMA SameTemplateVars == ASSUME TemplatesInv, UNCHANGED templateVars PROVE TemplatesInv' /\ TemplatesTypeOK'
<1>1. TemplatesTypeOK' /\ Resolves'
  BY DEF TemplatesInv, TemplatesTypeOK, Resolves, TemplatesResolve, Present,
         templateVars, settings, backgroundVars
<1> QED
  BY <1>1, Resettled DEF templateVars, settings

LEMMA RegisterKeeps == ASSUME IInv, Register PROVE IInv'
<1>1. TemplatesTypeOK' /\ Resolves'
  BY ManifestsAssumption DEF IInv, Register, TemplatesInv, TemplatesTypeOK,
         Resolves, TemplatesResolve, Present, settings, backgroundVars
<1>2. TemplatesInv'
  BY <1>1, Resettled DEF IInv, Register, settings
<1>3. TypeOK'
  BY <1>1 DEF IInv, Register, TypeOK, pictures, inputs, deviceVars
<1>4. KeyInv' /\ RequestsInv' /\ DeviceInv' /\ OneAtATime'
  BY SameAnswers, SameRequests DEF IInv, Register, deviceVars
<1> QED
  BY <1>2, <1>3, <1>4 DEF IInv

LEMMA DeleteDeviceKeeps == ASSUME IInv, DeleteDevice PROVE IInv'
<1>0. edits' \in 0 .. MaxEdits
  BY OneMoreEdit DEF IInv, TemplatesInv, DeleteDevice
<1>1. TemplatesTypeOK'
  BY <1>0 DEF IInv, DeleteDevice, TemplatesInv, TemplatesTypeOK, backgroundVars
<1>2. Resolves'
  BY DEF IInv, DeleteDevice, TemplatesInv, TemplatesTypeOK, Resolves, TemplatesResolve, Present
<1>3. TemplatesInv'
  BY <1>1, <1>2, Resettled DEF IInv, DeleteDevice
<1>4. TypeOK'
  BY <1>1 DEF IInv, DeleteDevice, TypeOK, pictures, deviceVars
<1>5. KeyInv' /\ RequestsInv' /\ DeviceInv' /\ OneAtATime'
  BY SameAnswers, SameRequests DEF IInv, DeleteDevice, deviceVars
<1> QED
  BY <1>3, <1>4, <1>5 DEF IInv

LEMMA SetTestKeeps == ASSUME IInv, SetTest PROVE IInv'
<1>0. edits' \in 0 .. MaxEdits
  BY OneMoreEdit DEF IInv, TemplatesInv, TemplatesTypeOK, SetTest
<1>1. TemplatesTypeOK' /\ Resolves'
  BY <1>0 DEF IInv, SetTest, TemplatesInv, TemplatesTypeOK,
         Resolves, TemplatesResolve, Present, settings, backgroundVars
<1>2. TemplatesInv'
  BY <1>1, Resettled DEF IInv, SetTest, settings
<1>3. TypeOK'
  BY <1>1 DEF IInv, SetTest, TypeOK, pictures, deviceVars
<1>4. KeyInv' /\ RequestsInv' /\ DeviceInv' /\ OneAtATime'
  BY SameAnswers, SameRequests DEF IInv, SetTest, deviceVars
<1> QED
  BY <1>2, <1>3, <1>4 DEF IInv

LEMMA ChangeMediaKeeps == ASSUME IInv, ChangeMedia PROVE IInv'
<1>0. edits' \in 0 .. MaxEdits
  BY OneMoreEdit DEF IInv, TemplatesInv, TemplatesTypeOK, ChangeMedia
<1>1. TemplatesTypeOK' /\ Resolves'
  BY <1>0 DEF IInv, ChangeMedia, TemplatesInv, TemplatesTypeOK,
         Resolves, TemplatesResolve, Present, settings, backgroundVars
<1>2. TemplatesInv'
  BY <1>1, Resettled DEF IInv, ChangeMedia, settings
<1>3. media' \in FileSet
  BY DEF IInv, TypeOK, ChangeMedia, FileSet
<1>4. TypeOK'
  BY <1>1, <1>3 DEF IInv, ChangeMedia, TypeOK, pictures, deviceVars
<1>5. KeyInv' /\ RequestsInv' /\ DeviceInv' /\ OneAtATime'
  BY SameAnswers, SameRequests DEF IInv, ChangeMedia, deviceVars
<1> QED
  BY <1>2, <1>4, <1>5 DEF IInv

LEMMA GiveUpKeeps == ASSUME IInv, GiveUp PROVE IInv'
<1>1. TemplatesInv' /\ TemplatesTypeOK'
  BY SameTemplateVars DEF IInv, GiveUp
<1>2. TypeOK'
  BY <1>1, ManifestsAssumption DEF IInv, GiveUp, TypeOK, pictures, inputs
<1>3. KeyInv' /\ RequestsInv' /\ DeviceInv' /\ OneAtATime'
  BY SameAnswers, SameRequests DEF IInv, GiveUp
<1> QED
  BY <1>1, <1>2, <1>3 DEF IInv

LEMMA DecodedStays == ASSUME TypeOK, NEW b, Decode(b) PROVE decoded' \subseteq Files
<1>1. decoded \subseteq Files /\ backgrounds \subseteq Files
  BY DEF TypeOK, TemplatesTypeOK
<1> QED
  BY <1>1 DEF Decode

LEMMA PreviewKeeps == ASSUME IInv, Preview PROVE IInv'
<1>1. TemplatesInv' /\ TemplatesTypeOK'
  BY SameTemplateVars DEF IInv, Preview
<1>2. decoded' \subseteq Files
  BY DecodedStays DEF IInv, Preview
<1>3. TypeOK'
  BY <1>1, <1>2 DEF IInv, Preview, TypeOK, pictures, inputs, deviceVars
<1>4. KeyInv' /\ RequestsInv' /\ DeviceInv' /\ OneAtATime'
  BY SameAnswers, SameRequests DEF IInv, Preview, deviceVars
<1> QED
  BY <1>1, <1>3, <1>4 DEF IInv

LEMMA ErasedIfIs == ASSUME NEW new, disturbed \in {"no", "erased", "overlapped"}, disturbed' = ErasedIf(new)
                    PROVE  /\ disturbed' \in {"no", "erased", "overlapped"}
                           /\ disturbed' # "overlapped" => disturbed # "overlapped"
  BY DEF ErasedIf

LEMMA EraseDeviceKeeps == ASSUME IInv, EraseDevice PROVE IInv'
<1>1. TemplatesInv' /\ TemplatesTypeOK'
  BY SameTemplateVars DEF IInv, EraseDevice
<1>2. /\ disturbed' \in {"no", "erased", "overlapped"}
      /\ disturbed' # "overlapped" => disturbed # "overlapped"
  BY ErasedIfIs DEF EraseDevice, IInv, TypeOK
<1>3. TypeOK'
  BY <1>1, <1>2, Nothing DEF IInv, EraseDevice, TypeOK, pictures, deviceVars
<1>4. KeyInv' /\ RequestsInv' /\ DeviceInv' /\ OneAtATime'
  BY <1>2, SameAnswers, SameRequests DEF IInv, EraseDevice, deviceVars
<1> QED
  BY <1>1, <1>3, <1>4 DEF IInv

--------------------------------------------------------------------------------
\* Requests

(* One request changes.                                                    *)
LEMMA RequestsStep ==
  ASSUME TypeOK, RequestsInv, NEW s \in Slots, NEW r \in Request, GoodRequest(r),
         req' = [req EXCEPT ![s] = r]
  PROVE  /\ req' \in [Slots -> Request]
         /\ req'[s] = r /\ \A q \in Slots \ {s} : req'[q] = req[q]
         /\ RequestsInv'
<1>1. /\ req' \in [Slots -> Request]
      /\ req'[s] = r /\ \A q \in Slots \ {s} : req'[q] = req[q]
  BY DEF TypeOK
<1>2. ASSUME NEW q \in Slots PROVE GoodRequest(req'[q])
  <2>1. CASE q = s
    BY <2>1, <1>1
  <2>2. CASE q # s
    BY <2>2, <1>1 DEF RequestsInv
  <2> QED
    BY <2>1, <2>2
<1> QED
  BY <1>1, <1>2 DEF RequestsInv

(* A request that is about to be answered.                                 *)
Answering(m, applied) == [NoRequest EXCEPT !.at = "reply", !.m = m, !.applied = applied]

LEMMA NoRequestIsGood == GoodRequest(NoRequest)
  BY Nothing DEF GoodRequest, WasRead

LEMMA AskKeeps == ASSUME IInv, NEW s \in Slots, Ask(s) PROVE IInv'
<1>0. TypeOK /\ RequestsInv /\ shown \in Manifest /\ OneAtATime
  BY DEF IInv, TypeOK
<1>1. TemplatesInv' /\ TemplatesTypeOK'
  BY SameTemplateVars DEF IInv, Ask
<1> DEFINE r == [NoRequest EXCEPT !.at = "content", !.applied = shown]
<1>2. r \in Request /\ r.at = "content" /\ r.applied = shown /\ r.entry = TRUE
      /\ r.content = NoContent /\ r.m = NoManifest
  BY <1>0, Nothing DEF Request, NoRequest
<1>3. req' = [req EXCEPT ![s] = r]
  BY DEF Ask
<1> HIDE DEF r
<1>4. GoodRequest(r)
  BY <1>2, Nothing DEF GoodRequest, WasRead
<1>5. /\ req' \in [Slots -> Request]
      /\ req'[s] = r /\ \A q \in Slots \ {s} : req'[q] = req[q]
      /\ RequestsInv'
  BY <1>0, <1>2, <1>3, <1>4, RequestsStep
<1>6. TypeOK'
  BY <1>0, <1>1, <1>5 DEF Ask, TypeOK, pictures, inputs
<1>7. KeyInv' /\ DeviceInv'
  BY DEF IInv, Ask, KeyInv, DeviceInv
<1>8. OneAtATime'
  <2> SUFFICES ASSUME disturbed' # "overlapped" PROVE (Alone /\ Honest /\ Forgotten /\ Answered /\ Noted)'
    BY DEF OneAtATime
  <2>1. Noted /\ \A q \in Slots : req[q].at = "idle"
    BY <1>0 DEF Ask, OneAtATime, InService
  <2>2. \A q \in Slots : Busy(q)' => q = s
    BY <2>1, <1>5 DEF Busy
  <2>3. Alone'
    BY <2>2 DEF Alone
  <2>4. Honest' /\ Forgotten' /\ Answered'
    BY <2>1, <2>2, <1>2, <1>5 DEF Honest, Forgotten, Answered, Busy, Ask
  <2>5. Noted'
    BY <2>1 DEF Noted, Ask
  <2> QED
    BY <2>3, <2>4, <2>5
<1> QED
  BY <1>1, <1>5, <1>6, <1>7, <1>8 DEF IInv

(* A request that ends, or goes on, while nothing else changes.            *)
LEMMA RequestMoves ==
  ASSUME OneAtATime, NEW s \in Slots, \A q \in Slots \ {s} : req'[q] = req[q],
         Busy(s), req[s].at # "reply", req'[s].at # "reply",
         (req'[s].applied = req[s].applied /\ req'[s].entry = req[s].entry) \/ ~Busy(s)',
         UNCHANGED <<rt, target, shown, disturbed>>
  PROVE  OneAtATime'
<1> SUFFICES ASSUME disturbed' # "overlapped" PROVE (Alone /\ Honest /\ Forgotten /\ Answered /\ Noted)'
  BY DEF OneAtATime
<1>1. Alone /\ Honest /\ Forgotten /\ Answered /\ Noted
  BY DEF OneAtATime
<1>2. \A q \in Slots : Busy(q)' => Busy(q)
  BY DEF Busy
<1>3. Alone'
  BY <1>1, <1>2 DEF Alone
<1>4. Honest'
  BY <1>1, <1>2 DEF Honest, Busy
<1>5. Forgotten'
  BY <1>1, <1>2 DEF Forgotten, Busy
<1>6. Answered'
  BY <1>1 DEF Answered
<1>7. Noted'
  BY <1>1 DEF Noted
<1> QED
  BY <1>3, <1>4, <1>5, <1>6, <1>7

LEMMA ReadContentKeeps == ASSUME IInv, NEW s \in Slots, ReadContent(s) PROVE IInv'
<1>0. TypeOK /\ RequestsInv /\ OneAtATime /\ req[s] \in Request /\ GoodRequest(req[s]) /\ req[s].at = "content"
      /\ asking \in Slots \cup {None}
  BY DEF IInv, TypeOK, RequestsInv, ReadContent
<1>1. TemplatesInv' /\ TemplatesTypeOK'
  BY SameTemplateVars DEF IInv, ReadContent
<1>2. PICK c : c = Content
  OBVIOUS
<1>3. c \in ContentRecord /\ WasRead(c) /\ c.kind # "none"
  BY <1>2, ContentIs DEF IInv
<1>4. PICK r : r = IF Device \in registered THEN [req[s] EXCEPT !.at = "lookup", !.content = c]
                   ELSE NoRequest
  OBVIOUS
<1>5. req' = [req EXCEPT ![s] = r] /\ asking' \in Slots \cup {None}
  BY <1>0, <1>2, <1>4 DEF ReadContent, Fail, Quit
<1>6. CASE r = NoRequest
  <2>1. r \in Request /\ GoodRequest(r) /\ r.at = "idle"
    BY <1>6, Nothing, NoRequestIsGood
  <2>2. /\ req' \in [Slots -> Request]
        /\ req'[s] = r /\ \A q \in Slots \ {s} : req'[q] = req[q]
        /\ RequestsInv'
    BY <1>0, <1>5, <2>1, RequestsStep
  <2>3. TypeOK'
    BY <1>0, <1>1, <1>5, <2>2 DEF ReadContent, TypeOK, pictures, inputs
  <2>4. OneAtATime'
    BY <1>0, <2>1, <2>2, RequestMoves DEF ReadContent, Busy
  <2>5. KeyInv' /\ DeviceInv'
    BY DEF IInv, ReadContent, KeyInv, DeviceInv
  <2> QED
    BY <1>1, <2>2, <2>3, <2>4, <2>5 DEF IInv
<1>7. CASE r = [req[s] EXCEPT !.at = "lookup", !.content = c]
  <2>1. /\ r \in Request /\ r.at = "lookup" /\ r.content = c /\ r.m = req[s].m
        /\ r.applied = req[s].applied /\ r.entry = req[s].entry
    BY <1>0, <1>3, <1>7 DEF Request
  <2>2. GoodRequest(r)
    BY <1>0, <1>3, <2>1 DEF GoodRequest
  <2>3. /\ req' \in [Slots -> Request]
        /\ req'[s] = r /\ \A q \in Slots \ {s} : req'[q] = req[q]
        /\ RequestsInv'
    BY <1>0, <1>5, <2>1, <2>2, RequestsStep
  <2>4. TypeOK'
    BY <1>0, <1>1, <1>5, <2>3 DEF ReadContent, TypeOK, pictures, inputs
  <2>5. OneAtATime'
    BY <1>0, <2>1, <2>3, RequestMoves DEF ReadContent, Busy
  <2>6. KeyInv' /\ DeviceInv'
    BY DEF IInv, ReadContent, KeyInv, DeviceInv
  <2> QED
    BY <1>1, <2>3, <2>4, <2>5, <2>6 DEF IInv
<1> QED
  BY <1>4, <1>6, <1>7

LEMMA LookUpKeeps == ASSUME IInv, NEW s \in Slots, LookUp(s) PROVE IInv'
<1>0. TypeOK /\ RequestsInv /\ OneAtATime /\ req[s] \in Request /\ GoodRequest(req[s]) /\ req[s].at = "lookup"
      /\ rt \in Runtime /\ KeyInv
  BY DEF IInv, TypeOK, RequestsInv, LookUp
<1>1. TemplatesInv' /\ TemplatesTypeOK'
  BY SameTemplateVars DEF IInv, LookUp
<1>2. PICK r : r = IF Hit(req[s].content)
                   THEN Answering(rt.m, req[s].applied)
                   ELSE [req[s] EXCEPT !.at = "build", !.entry = TRUE, !.todo = FilesOf(req[s].content)]
  OBVIOUS
<1>3. req' = [req EXCEPT ![s] = r]
  BY <1>0, <1>2 DEF LookUp, Answer, Answering, TypeOK
<1>4. /\ r \in Request /\ GoodRequest(r) /\ r.entry = TRUE /\ r.applied = req[s].applied
      /\ r.at \in {"build", "reply"}
      /\ r.at = "reply" => r.m = rt.m
  <2>1. CASE Hit(req[s].content)
    <3>1. rt.m \in Manifest /\ WholePicture(rt.m.image) /\ req[s].applied \in Manifest
      BY <2>1, <1>0 DEF Hit, KeyInv, Runtime, Request
    <3>2. r = Answering(rt.m, req[s].applied)
      BY <2>1, <1>2
    <3>3. /\ r \in Request /\ r.at = "reply" /\ r.m = rt.m /\ r.applied = req[s].applied
          /\ r.entry = TRUE /\ r.content = NoContent
      BY <3>1, <3>2, Nothing DEF Request, NoRequest, Answering
    <3>4. GoodRequest(r)
      BY <3>1, <3>3, Nothing DEF GoodRequest, WasRead
    <3> QED
      BY <3>3, <3>4
  <2>2. CASE ~Hit(req[s].content)
    <3>1. FilesOf(req[s].content) \in SUBSET Names
      BY DEF FilesOf
    <3>2. /\ r \in Request /\ r.at = "build" /\ r.entry = TRUE /\ r.applied = req[s].applied
          /\ r.content = req[s].content /\ r.m = req[s].m /\ r.short = req[s].short
          /\ r.todo = FilesOf(req[s].content)
      BY <2>2, <1>0, <1>2, <3>1 DEF Request
    <3>3. r.m.media = NoFiles
      BY <1>0, <3>2, Nothing DEF GoodRequest
    <3>4. Hashed(r.content, r.m, r.todo, r.short)
      BY <3>2, <3>3 DEF Hashed, FilesOf, NoFiles
    <3>5. GoodRequest(r)
      BY <1>0, <3>2, <3>4 DEF GoodRequest
    <3> QED
      BY <3>2, <3>5
  <2> QED
    BY <2>1, <2>2
<1>5. /\ req' \in [Slots -> Request]
      /\ req'[s] = r /\ \A q \in Slots \ {s} : req'[q] = req[q]
      /\ RequestsInv'
  BY <1>0, <1>3, <1>4, RequestsStep
<1>6. TypeOK'
  BY <1>0, <1>1, <1>5 DEF LookUp, TypeOK, pictures, inputs, deviceVars
<1>7. KeyInv' /\ DeviceInv'
  BY DEF IInv, LookUp, KeyInv, DeviceInv, deviceVars
<1>8. OneAtATime'
  <2> SUFFICES ASSUME disturbed' # "overlapped" PROVE (Alone /\ Honest /\ Forgotten /\ Answered /\ Noted)'
    BY DEF OneAtATime
  <2>1. Alone /\ Honest /\ Forgotten /\ Answered /\ Noted /\ Busy(s) /\ UNCHANGED <<rt, target, shown>>
    BY <1>0 DEF OneAtATime, LookUp, deviceVars, Busy
  <2>2. \A q \in Slots : Busy(q)' => Busy(q) /\ (q # s => req'[q] = req[q])
    BY <2>1, <1>5 DEF Busy
  <2>3. Alone'
    BY <2>1, <2>2 DEF Alone
  <2>4. Honest' /\ Forgotten'
    BY <2>1, <2>2, <1>4, <1>5 DEF Honest, Forgotten, Busy
  <2>5. Answered'
    BY <2>1, <1>4, <1>5 DEF Answered
  <2>6. Noted'
    BY <2>1, <1>0, <1>5 DEF Noted
  <2> QED
    BY <2>3, <2>4, <2>5, <2>6
<1> QED
  BY <1>1, <1>5, <1>6, <1>7, <1>8 DEF IInv

LEMMA HashFileKeeps == ASSUME IInv, NEW s \in Slots, NEW n \in Names, HashFile(s, n) PROVE IInv'
<1>0. /\ TypeOK /\ RequestsInv /\ OneAtATime /\ req[s] \in Request /\ GoodRequest(req[s]) /\ req[s].at = "build"
      /\ media[n] \in Clips \cup {None} /\ req[s].m \in Manifest /\ req[s].m.media \in FileSet
  BY DEF IInv, TypeOK, RequestsInv, HashFile, Request, Manifest, FileSet
<1>1. TemplatesInv' /\ TemplatesTypeOK'
  BY SameTemplateVars DEF IInv, HashFile
<1>2. PICK r : r = [req[s] EXCEPT !.todo = req[s].todo \ {n}, !.m.media[n] = media[n],
                                  !.short = req[s].short \/ media[n] # req[s].content.media[n]]
  OBVIOUS
<1>3. req' = [req EXCEPT ![s] = r]
  BY <1>2 DEF HashFile
<1>4. PICK files : files = [req[s].m.media EXCEPT ![n] = media[n]]
  OBVIOUS
<1>5. files \in FileSet /\ files[n] = media[n] /\ \A k \in Names \ {n} : files[k] = req[s].m.media[k]
  BY <1>0, <1>4 DEF FileSet
<1>6. PICK m : m = [req[s].m EXCEPT !.media = files]
  OBVIOUS
<1>7. m \in Manifest /\ m.media = files
  BY <1>0, <1>5, <1>6 DEF Manifest
<1>8. PICK short : short = (req[s].short \/ media[n] # req[s].content.media[n])
  OBVIOUS
<1>9. short \in BOOLEAN /\ (short <=> req[s].short \/ media[n] # req[s].content.media[n])
  BY <1>8, <1>0 DEF Request
<1>10. r = [req[s] EXCEPT !.todo = req[s].todo \ {n}, !.m = m, !.short = short]
  BY <1>0, <1>2, <1>4, <1>6, <1>8 DEF Request, Manifest
<1>11. /\ r \in Request /\ r.at = "build" /\ r.content = req[s].content /\ r.m = m /\ r.short = short
       /\ r.todo = req[s].todo \ {n} /\ r.applied = req[s].applied /\ r.entry = req[s].entry
  BY <1>0, <1>7, <1>9, <1>10 DEF Request
<1>12. GoodRequest(r)
  <2>1. Hashed(r.content, r.m, r.todo, r.short)
    <3> SUFFICES ASSUME ~short, NEW k \in Names \ r.todo PROVE r.m.media[k] = r.content.media[k]
      BY <1>11 DEF Hashed
    <3>1. \A j \in Names \ req[s].todo : req[s].m.media[j] = req[s].content.media[j]
      BY <1>0, <1>9 DEF GoodRequest, Hashed
    <3>2. CASE k = n
      BY <3>2, <1>5, <1>7, <1>9, <1>11
    <3>3. CASE k # n
      BY <3>1, <3>3, <1>5, <1>7, <1>11
    <3> QED
      BY <3>2, <3>3
  <2> QED
    BY <2>1, <1>0, <1>11 DEF GoodRequest
<1>13. /\ req' \in [Slots -> Request]
       /\ req'[s] = r /\ \A q \in Slots \ {s} : req'[q] = req[q]
       /\ RequestsInv'
  BY <1>0, <1>3, <1>11, <1>12, RequestsStep
<1>14. TypeOK'
  BY <1>0, <1>1, <1>13 DEF HashFile, TypeOK, pictures, inputs, deviceVars
<1>15. KeyInv' /\ DeviceInv'
  BY DEF IInv, HashFile, KeyInv, DeviceInv, deviceVars
<1>16. OneAtATime'
  BY <1>0, <1>11, <1>13, RequestMoves DEF HashFile, Busy, deviceVars
<1> QED
  BY <1>1, <1>13, <1>14, <1>15, <1>16 DEF IInv

LEMMA WriteImageKeeps == ASSUME IInv, NEW s \in Slots, WriteImage(s) PROVE IInv'
<1>0. /\ TypeOK /\ RequestsInv /\ OneAtATime /\ req[s] \in Request /\ GoodRequest(req[s])
      /\ req[s].at = "build" /\ req[s].todo = {} /\ req[s].m \in Manifest /\ req[s].m.media \in FileSet
  BY DEF IInv, TypeOK, RequestsInv, WriteImage, Request, Manifest
<1>1. TemplatesInv' /\ TemplatesTypeOK'
  BY SameTemplateVars DEF IInv, WriteImage
<1>2. PICK c : c = req[s].content
  OBVIOUS
<1>3. c \in ContentRecord /\ WasRead(c) /\ c.kind # "none" /\ c.media \in FileSet
  BY <1>0, <1>2 DEF GoodRequest, Request, ContentRecord
<1>4. PICK m : m = [req[s].m EXCEPT !.image = Rendered(c, req[s].m.media)]
  OBVIOUS
<1>5. /\ WholePicture(Rendered(c, req[s].m.media))
      /\ CanDraw(c) => Rendered(c, req[s].m.media) = Picture(c, req[s].m.media, Background(c))
  BY <1>3, RenderedIs
<1>6. m \in Manifest /\ m.image = Rendered(c, req[s].m.media) /\ m.media = req[s].m.media
  BY <1>0, <1>4, <1>5 DEF Manifest, WholePicture
<1>7. PICK short : short = (req[s].short \/ ~CanDraw(c))
  OBVIOUS
<1>8. short \in BOOLEAN /\ (short <=> req[s].short \/ ~CanDraw(c))
  BY <1>0, <1>7 DEF Request
<1>9. PICK r : r = [req[s] EXCEPT !.at = "prune", !.m = m, !.short = short]
  OBVIOUS
<1>10. req' = [req EXCEPT ![s] = r] /\ images' = images \cup {m.image} /\ Decode(Background(c))
  BY <1>2, <1>4, <1>7, <1>9 DEF WriteImage
<1>11. /\ r \in Request /\ r.at = "prune" /\ r.content = c /\ r.m = m /\ r.short = short
       /\ r.applied = req[s].applied /\ r.entry = req[s].entry
  BY <1>0, <1>2, <1>6, <1>8, <1>9 DEF Request
<1>12. Made(c, m, short)
  <2> SUFFICES ASSUME ~short PROVE m.image = Picture(c, c.media, Background(c)) /\ m.media = c.media
    BY DEF Made
  <2>1. CanDraw(c) /\ ~req[s].short
    BY <1>8
  <2>2. \A n \in Names : m.media[n] = c.media[n]
    BY <2>1, <1>0, <1>2, <1>6 DEF GoodRequest, Hashed
  <2>3. m.media = c.media
    BY <2>2, <1>0, <1>3, <1>6 DEF FileSet
  <2> QED
    BY <2>1, <2>3, <1>5, <1>6
<1>13. GoodRequest(r)
  BY <1>3, <1>5, <1>6, <1>11, <1>12 DEF GoodRequest
<1>14. /\ req' \in [Slots -> Request]
       /\ req'[s] = r /\ \A q \in Slots \ {s} : req'[q] = req[q]
       /\ RequestsInv'
  BY <1>0, <1>10, <1>11, <1>13, RequestsStep
<1>15. TypeOK'
  <2>1. decoded' \subseteq Files
    BY <1>0, <1>10, DecodedStays
  <2>2. images' \subseteq Image
    BY <1>0, <1>5, <1>6, <1>10 DEF TypeOK, WholePicture
  <2> QED
    BY <1>0, <1>1, <1>14, <2>1, <2>2 DEF WriteImage, TypeOK, inputs, deviceVars
<1>16. KeyInv' /\ DeviceInv'
  BY DEF IInv, WriteImage, KeyInv, DeviceInv, deviceVars
<1>17. OneAtATime'
  BY <1>0, <1>11, <1>14, RequestMoves DEF WriteImage, Busy, deviceVars
<1> QED
  BY <1>1, <1>14, <1>15, <1>16, <1>17 DEF IInv

LEMMA PruneImagesKeeps == ASSUME IInv, NEW s \in Slots, PruneImages(s) PROVE IInv'
<1>0. /\ TypeOK /\ RequestsInv /\ OneAtATime /\ req[s] \in Request /\ GoodRequest(req[s])
      /\ req[s].at = "prune"
  BY DEF IInv, TypeOK, RequestsInv, PruneImages
<1>1. TemplatesInv' /\ TemplatesTypeOK'
  BY SameTemplateVars DEF IInv, PruneImages
<1>2. PICK r : r = [req[s] EXCEPT !.at = "store"]
  OBVIOUS
<1>3. req' = [req EXCEPT ![s] = r]
  BY <1>2 DEF PruneImages
<1>4. /\ r \in Request /\ r.at = "store" /\ r.content = req[s].content /\ r.m = req[s].m
      /\ r.applied = req[s].applied /\ r.entry = req[s].entry /\ r.short = req[s].short
  BY <1>0, <1>2 DEF Request
<1>5. GoodRequest(r)
  BY <1>0, <1>4 DEF GoodRequest
<1>6. /\ req' \in [Slots -> Request]
      /\ req'[s] = r /\ \A q \in Slots \ {s} : req'[q] = req[q]
      /\ RequestsInv'
  BY <1>0, <1>3, <1>4, <1>5, RequestsStep
<1>7. TypeOK'
  BY <1>0, <1>1, <1>6 DEF PruneImages, TypeOK, pictures, inputs, deviceVars
<1>8. KeyInv' /\ DeviceInv'
  BY DEF IInv, PruneImages, KeyInv, DeviceInv, deviceVars
<1>9. OneAtATime'
  BY <1>0, <1>4, <1>6, RequestMoves DEF PruneImages, Busy, deviceVars
<1> QED
  BY <1>1, <1>6, <1>7, <1>8, <1>9 DEF IInv

LEMMA StoreKeeps == ASSUME IInv, NEW s \in Slots, Store(s) PROVE IInv'
<1>0. /\ TypeOK /\ RequestsInv /\ OneAtATime /\ req[s] \in Request /\ GoodRequest(req[s])
      /\ req[s].at = "store" /\ rt \in Runtime /\ KeyInv
  BY DEF IInv, TypeOK, RequestsInv, Store
<1>1. TemplatesInv' /\ TemplatesTypeOK'
  BY SameTemplateVars DEF IInv, Store
<1>2. PICK r : r = Answering(req[s].m, req[s].applied)
  OBVIOUS
<1>3. req' = [req EXCEPT ![s] = r]
  BY <1>2 DEF Store, Answer, Answering
<1>4. WholePicture(req[s].m.image) /\ Made(req[s].content, req[s].m, req[s].short)
      /\ WasRead(req[s].content)
  BY <1>0 DEF GoodRequest
<1>5. /\ r \in Request /\ GoodRequest(r) /\ r.at = "reply" /\ r.m = req[s].m
      /\ r.applied = req[s].applied /\ r.entry = TRUE
  <2>1. req[s].m \in Manifest /\ req[s].applied \in Manifest
    BY <1>0 DEF Request
  <2>2. /\ r \in Request /\ r.at = "reply" /\ r.m = req[s].m /\ r.applied = req[s].applied
        /\ r.entry = TRUE /\ r.content = NoContent
    BY <1>2, <2>1, Nothing DEF Request, NoRequest, Answering
  <2>3. GoodRequest(r)
    BY <1>4, <2>2, Nothing DEF GoodRequest, WasRead
  <2> QED
    BY <2>2, <2>3
<1>6. /\ req' \in [Slots -> Request]
      /\ req'[s] = r /\ \A q \in Slots \ {s} : req'[q] = req[q]
      /\ RequestsInv'
  BY <1>0, <1>3, <1>5, RequestsStep
<1>7. /\ rt' \in Runtime /\ rt'.applied = rt.applied
      /\ req[s].entry => rt'.key = req[s].content /\ rt'.m = req[s].m /\ rt'.short = req[s].short
      /\ ~req[s].entry => rt' = rt
  BY <1>0 DEF Store, Runtime, Request
<1>8. TypeOK'
  BY <1>0, <1>1, <1>6, <1>7 DEF Store, TypeOK, pictures, inputs, deviceVars
<1>9. KeyInv' /\ DeviceInv'
  <2>1. KeyInv'
    BY <1>0, <1>4, <1>7 DEF KeyInv
  <2> QED
    BY <2>1 DEF IInv, Store, DeviceInv, deviceVars
<1>10. OneAtATime'
  <2> SUFFICES ASSUME disturbed' # "overlapped" PROVE (Alone /\ Honest /\ Forgotten /\ Answered /\ Noted)'
    BY DEF OneAtATime
  <2>1. Alone /\ Honest /\ Forgotten /\ Answered /\ Noted /\ Busy(s) /\ UNCHANGED <<target, shown>>
    BY <1>0 DEF OneAtATime, Store, deviceVars, Busy
  <2>2. \A q \in Slots : (Busy(q) => q = s) /\ (Busy(q)' => q = s)
    BY <2>1, <1>6 DEF Alone, Busy
  <2>3. Alone'
    BY <2>2 DEF Alone
  <2>4. Honest'
    BY <2>1, <2>2, <1>5, <1>6 DEF Honest, Busy
  <2>5. Forgotten'
    BY <2>2, <1>5, <1>6 DEF Forgotten, Busy
  <2>6. Answered'
    <3>1. rt'.m \in {req[s].m, NoManifest}
      BY <2>1, <1>7 DEF Forgotten
    <3> QED
      BY <3>1, <2>2, <1>5, <1>6 DEF Answered, Busy
  <2>7. Noted'
    BY <1>5, <1>6 DEF Noted
  <2> QED
    BY <2>3, <2>4, <2>5, <2>6, <2>7
<1> QED
  BY <1>1, <1>6, <1>8, <1>9, <1>10 DEF IInv

LEMMA ReplyKeeps == ASSUME IInv, NEW s \in Slots, Reply(s) PROVE IInv'
<1>0. /\ TypeOK /\ RequestsInv /\ OneAtATime /\ req[s] \in Request /\ GoodRequest(req[s]) /\ rt \in Runtime
      /\ target \in Manifest /\ req[s].at = "reply" /\ asking \in Slots \cup {None} /\ KeyInv /\ DeviceInv
  BY DEF IInv, TypeOK, RequestsInv, Reply
<1>1. TemplatesInv' /\ TemplatesTypeOK'
  BY SameTemplateVars DEF IInv, Reply
<1>2. /\ req' \in [Slots -> Request]
      /\ req'[s] = NoRequest /\ \A q \in Slots \ {s} : req'[q] = req[q]
      /\ RequestsInv'
  <2>1. req' = [req EXCEPT ![s] = NoRequest] /\ NoRequest \in Request
    BY Nothing DEF Reply, Quit
  <2> QED
    BY <1>0, <2>1, NoRequestIsGood, RequestsStep
<1>3. rt' \in Runtime /\ rt'.applied = req[s].applied /\ rt'.key = rt.key /\ rt'.m = rt.m
      /\ rt'.short = rt.short
  BY <1>0 DEF Reply, Runtime, Request
<1>4. target' \in Manifest /\ asking' \in Slots \cup {None}
  BY <1>0 DEF Reply, Request
<1>5. TypeOK'
  BY <1>0, <1>1, <1>2, <1>3, <1>4 DEF Reply, TypeOK, pictures, inputs
<1>6. KeyInv' /\ DeviceInv'
  <2>1. KeyInv'
    BY <1>0, <1>3 DEF KeyInv
  <2>2. WholePicture(req[s].m.image)
    BY <1>0 DEF GoodRequest
  <2>3. DeviceInv'
    BY <1>0, <2>2 DEF Reply, DeviceInv
  <2> QED
    BY <2>1, <2>3
<1>7. OneAtATime'
  <2> SUFFICES ASSUME disturbed' # "overlapped" PROVE (Alone /\ Honest /\ Forgotten /\ Answered /\ Noted)'
    BY DEF OneAtATime
  <2>1. Alone /\ Honest /\ Answered /\ Busy(s) /\ UNCHANGED shown
    BY <1>0 DEF OneAtATime, Reply, Busy
  <2>2. \A q \in Slots : ~Busy(q)' /\ req'[q].at # "reply"
    BY <2>1, <1>2, Nothing DEF Alone, Busy
  <2>3. Alone' /\ Honest' /\ Forgotten' /\ Answered'
    BY <2>2 DEF Alone, Honest, Forgotten, Answered
  <2>4. Noted'
    <3>1. target = NoManifest /\ req[s].applied = shown /\ rt.m \in {req[s].m, NoManifest}
      BY <2>1, <1>0 DEF Honest, Answered
    <3>2. rt'.m # NoManifest /\ rt'.applied = rt'.m => shown' = rt'.m /\ target' = NoManifest
      BY <3>1, <2>1, <1>3 DEF Reply
    <3> QED
      BY <3>2 DEF Noted
  <2> QED
    BY <2>3, <2>4
<1> QED
  BY <1>1, <1>2, <1>5, <1>6, <1>7 DEF IInv

LEMMA FetchKeeps == ASSUME IInv, Fetch PROVE IInv'
<1>1. TemplatesInv' /\ TemplatesTypeOK'
  BY SameTemplateVars DEF IInv, Fetch
<1>2. target # NoManifest /\ shown' \in {target, shown} /\ target' = NoManifest
      /\ UNCHANGED <<rt, req, disturbed>>
  BY DEF Fetch
<1>3. TypeOK'
  BY <1>1, <1>2, Nothing DEF IInv, Fetch, TypeOK, pictures, inputs
<1>4. KeyInv' /\ RequestsInv' /\ DeviceInv'
  BY <1>2 DEF IInv, KeyInv, RequestsInv, DeviceInv
<1>5. OneAtATime'
  <2> SUFFICES ASSUME disturbed' # "overlapped" PROVE (Alone /\ Honest /\ Forgotten /\ Answered /\ Noted)'
    BY DEF OneAtATime
  <2>1. Alone /\ Honest /\ Forgotten /\ Answered /\ Noted
    BY <1>2 DEF OneAtATime, IInv
  <2>2. \A q \in Slots : ~Busy(q) /\ req[q].at # "reply"
    BY <1>2, <2>1 DEF Honest, Busy
  <2>3. Alone' /\ Honest' /\ Forgotten' /\ Answered'
    BY <1>2, <2>2 DEF Alone, Honest, Forgotten, Answered, Busy
  <2>4. Noted'
    BY <1>2, <2>1, <2>2 DEF Noted
  <2> QED
    BY <2>3, <2>4
<1> QED
  BY <1>1, <1>3, <1>4, <1>5 DEF IInv

LEMMA ForgetDeviceKeeps == ASSUME IInv, ForgetDevice PROVE IInv'
<1>0. TypeOK /\ RequestsInv /\ DeviceInv /\ OneAtATime /\ UNCHANGED <<target, shown>> /\ rt' = NoRuntime
  BY DEF IInv, TypeOK, ForgetDevice, deviceVars
<1>1. TemplatesInv' /\ TemplatesTypeOK'
  BY SameTemplateVars DEF IInv, ForgetDevice
<1>2. ASSUME NEW s \in Slots
      PROVE  /\ req'[s] \in Request /\ req'[s].at = req[s].at /\ req'[s].content = req[s].content
             /\ req'[s].m = req[s].m /\ req'[s].applied = req[s].applied
             /\ req'[s].todo = req[s].todo /\ req'[s].short = req[s].short
  <2>1. req[s] \in Request
    BY <1>0 DEF TypeOK
  <2>2. req'[s] \in {req[s], [req[s] EXCEPT !.entry = FALSE]}
    BY DEF ForgetDevice
  <2> QED
    BY <2>1, <2>2 DEF Request
<1>3. req' \in [Slots -> Request]
  <2>1. req' = [s \in Slots |-> req'[s]]
    BY DEF ForgetDevice
  <2> QED
    BY <1>2, <2>1
<1>4. /\ disturbed' \in {"no", "erased", "overlapped"}
      /\ disturbed' # "overlapped" => disturbed # "overlapped"
  BY <1>0, ErasedIfIs DEF ForgetDevice, TypeOK
<1>5. TypeOK'
  BY <1>0, <1>1, <1>3, <1>4, Nothing DEF ForgetDevice, TypeOK, pictures, inputs, deviceVars
<1>6. KeyInv' /\ DeviceInv'
  BY <1>0, Nothing DEF KeyInv, DeviceInv
<1>7. RequestsInv'
  BY <1>0, <1>2 DEF RequestsInv, GoodRequest
<1>8. OneAtATime'
  <2> SUFFICES ASSUME disturbed' # "overlapped" PROVE (Alone /\ Honest /\ Forgotten /\ Answered /\ Noted)'
    BY DEF OneAtATime
  <2>1. Alone /\ Honest /\ rt'.m = NoManifest
    BY <1>0, <1>4, Nothing DEF OneAtATime
  <2>2. Alone' /\ Honest'
    BY <1>0, <1>2, <2>1 DEF Alone, Honest, Busy
  <2>3. Forgotten' /\ Answered' /\ Noted'
    BY <2>1 DEF Forgotten, Answered, Noted
  <2> QED
    BY <2>2, <2>3
<1> QED
  BY <1>1, <1>5, <1>6, <1>7, <1>8 DEF IInv

LEMMA RestartKeeps == ASSUME IInv, Restart PROVE IInv'
<1>0. TypeOK /\ DeviceInv /\ UNCHANGED <<disturbed, target, shown>> /\ rt' = NoRuntime
      /\ req' = [s \in Slots |-> NoRequest]
  BY DEF IInv, TypeOK, Restart, inputs
<1>1. TemplatesInv' /\ TemplatesTypeOK'
  <2>1. TemplatesInv'
    BY TemplatesRestartKeeps DEF IInv, Restart
  <2> QED
    BY <2>1 DEF TemplatesInv
<1>2. req' \in [Slots -> Request] /\ \A s \in Slots : req'[s] = NoRequest
  BY <1>0, Nothing
<1>3. faults' \in 0 .. MaxFaults
  BY <1>0, ManifestsAssumption DEF Restart, TypeOK
<1>4. TypeOK'
  BY <1>0, <1>1, <1>2, <1>3, Nothing DEF Restart, TypeOK, pictures, inputs
<1>5. KeyInv' /\ DeviceInv'
  BY <1>0, Nothing DEF KeyInv, DeviceInv
<1>6. RequestsInv'
  BY <1>2, NoRequestIsGood DEF RequestsInv
<1>7. OneAtATime'
  <2>1. \A s \in Slots : ~Busy(s)' /\ req'[s].at # "reply"
    BY <1>2, Nothing DEF Busy
  <2>2. rt'.m = NoManifest
    BY <1>0, Nothing
  <2> QED
    BY <2>1, <2>2 DEF OneAtATime, Alone, Honest, Forgotten, Answered, Noted
<1> QED
  BY <1>1, <1>4, <1>5, <1>6, <1>7 DEF IInv

--------------------------------------------------------------------------------
\* The theorems

LEMMA InitIInv == Init => IInv
<1> SUFFICES ASSUME Init PROVE IInv
  OBVIOUS
<1>1. TemplatesInv /\ TemplatesTypeOK
  BY TemplatesInitInv DEF Init, TemplatesInv
<1>2. req \in [Slots -> Request] /\ \A s \in Slots : req[s] = NoRequest
  BY Nothing DEF Init
<1>3. TypeOK
  <2>1. test \in BOOLEAN
    BY Zenon DEF Init
  <2>2. media \in FileSet /\ faults \in 0 .. MaxFaults
    BY ManifestsAssumption DEF Init, FileSet
  <2>3. /\ images \subseteq Image /\ decoded \subseteq Files
        /\ asking \in Slots \cup {None} /\ deletion \in {"none", "forget", "erase"}
        /\ disturbed \in {"no", "erased", "overlapped"}
    BY DEF Init
  <2>4. target \in Manifest /\ shown \in Manifest /\ rt \in Runtime
    BY Nothing DEF Init
  <2> QED
    BY <1>1, <1>2, <2>1, <2>2, <2>3, <2>4 DEF TypeOK
<1>4. KeyInv /\ RequestsInv /\ DeviceInv
  BY <1>2, Nothing, NoRequestIsGood DEF Init, KeyInv, RequestsInv, DeviceInv
<1>5. OneAtATime
  BY <1>2, Nothing DEF Init, OneAtATime, Alone, Honest, Forgotten, Answered, Noted, Busy
<1> QED
  BY <1>1, <1>3, <1>4, <1>5 DEF IInv

LEMMA StepIInv == IInv /\ [Next]_vars => IInv'
<1> SUFFICES ASSUME IInv, [Next]_vars PROVE IInv'
  OBVIOUS
<1>1. CASE Edits
  BY <1>1, EditsKeep
<1>2. CASE Poll
  BY <1>2, AskKeeps DEF Poll
<1>3. ASSUME NEW s \in Slots, Serve(s) PROVE IInv'
  BY <1>3, ReadContentKeeps, LookUpKeeps, HashFileKeeps, WriteImageKeeps, PruneImagesKeeps,
     StoreKeeps, ReplyKeeps DEF Serve
<1>4. CASE Fetch \/ GiveUp \/ Register
  BY <1>4, FetchKeeps, GiveUpKeeps, RegisterKeeps
<1>5. CASE SetTest \/ ChangeMedia \/ Preview
  BY <1>5, SetTestKeeps, ChangeMediaKeeps, PreviewKeeps
<1>6. CASE DeleteDevice \/ ForgetDevice \/ EraseDevice
  BY <1>6, DeleteDeviceKeeps, ForgetDeviceKeeps, EraseDeviceKeeps
<1>7. CASE Restart
  BY <1>7, RestartKeeps
<1>8. CASE UNCHANGED vars
  <2>1. TemplatesInv' /\ TemplatesTypeOK'
    BY <1>8, SameTemplateVars DEF IInv, vars
  <2>2. TypeOK'
    BY <1>8, <2>1 DEF IInv, TypeOK, vars, pictures, inputs, deviceVars
  <2>3. KeyInv' /\ RequestsInv' /\ DeviceInv' /\ OneAtATime'
    BY <1>8, SameAnswers, SameRequests DEF IInv, vars, deviceVars
  <2> QED
    BY <2>1, <2>2, <2>3 DEF IInv
<1> QED
  BY <1>1, <1>2, <1>3, <1>4, <1>5, <1>6, <1>7, <1>8 DEF Next

(* The inductive invariant of devices' manifests (device.go), templates    *)
(* (admin.go) and backgrounds (backgrounds.go), for any number of devices, *)
(* templates, files, requests and faults.                                  *)
THEOREM Invariance == Safe => []IInv
<1> QED
  BY InitIInv, StepIInv, PTL DEF Safe

(* Every variable keeps to its type.                                       *)
THEOREM TypeCorrect == Safe => []TypeOK
<1>1. IInv => TypeOK
  BY DEF IInv
<1> QED
  BY <1>1, Invariance, PTL

(* Whatever is deleted while a manifest is made (content, buildManifest):  *)
(* what is kept in memory, about to be answered, about to be applied or    *)
(* shown has the picture of the test card, or of a template that was there,*)
(* and so do the contents it is kept under.                                *)
AnswersWhole ==
  /\ rt.m # NoManifest => WholePicture(rt.m.image)
  /\ rt.key.kind = "template" => rt.key.template \in Template
  /\ \A s \in Slots : /\ req[s].at \in {"prune", "store", "reply"} => WholePicture(req[s].m.image)
                      /\ req[s].content.kind = "template" => req[s].content.template \in Template
  /\ target # NoManifest => WholePicture(target.image)
  /\ shown # NoManifest => WholePicture(shown.image)

(* No deletion of a template or device leaves a request, the manifest in   *)
(* memory or the device with half a manifest (device.go:290-398).          *)
THEOREM AnswersAreWhole == Safe => []AnswersWhole
<1>1. IInv => AnswersWhole
  BY DEF IInv, AnswersWhole, KeyInv, RequestsInv, GoodRequest, DeviceInv, WasRead
<1> QED
  BY <1>1, Invariance, PTL

(* Whatever operators delete, every device has a template to show          *)
(* (handleTemplateDelete, EnsureGlobalTemplate).                           *)
THEOREM TemplatesResolveAlways == Safe => []TemplatesResolve
<1>1. IInv => TemplatesResolve
  BY DEF IInv, TemplatesInv, Resolves
<1> QED
  BY <1>1, Invariance, PTL

(* Maintenance (gcBackgrounds) takes no background a template uses or is   *)
(* about to use, but one that is saved again between its look and removal. *)
THEOREM BackgroundsKept == Safe => []BackgroundsInUseExist
<1>1. IInv => BackgroundsInUseExist
  BY DEF IInv, TemplatesInv
<1> QED
  BY <1>1, Invariance, PTL

(* A device the administration page calls up to date (syncState) shows     *)
(* what operators set, as long as its requests did not overlap.            *)
LEMMA LatestFollows == IInv => LatestIsShown
<1> SUFFICES ASSUME IInv, Device \in registered, rt.m # NoManifest, rt.key = Content, rt.applied = rt.m,
                    disturbed # "overlapped", \A s \in Slots : req[s].at # "reply"
             PROVE  ShowsContent
  BY DEF LatestIsShown
<1>1. shown = rt.m /\ rt.m \in Manifest
  BY DEF IInv, OneAtATime, Noted, TypeOK, Runtime
<1>2. Made(Content, rt.m, rt.short)
  BY DEF IInv, KeyInv
<1>3. CASE rt.short
  BY <1>1, <1>3 DEF ShowsContent, Hit
<1>4. CASE ~rt.short
  <2>1. rt.m.image = Picture(Content, Content.media, Background(Content)) /\ rt.m.media = Content.media
    BY <1>2, <1>4 DEF Made
  <2>2. rt.m = [image |-> rt.m.image, media |-> rt.m.media]
    BY <1>1 DEF Manifest
  <2> QED
    BY <1>1, <2>1, <2>2 DEF ShowsContent, Intended
<1> QED
  BY <1>3, <1>4

(* syncState (admin.go) calls a device's manifest the latest, and it does  *)
(* show what operators set, as long as its requests did not overlap and    *)
(* but while one is about to note what it has applied; less a background   *)
(* or file that was gone, or not the same, as the manifest was made.       *)
THEOREM LatestShownAlways == Safe => []LatestIsShown
  BY Invariance, LatestFollows, PTL
================================================================================
