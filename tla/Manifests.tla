------------------------------- MODULE Manifests -------------------------------
(***************************************************************************)
(* The manifest of a device (device.go): what it is to show now (content), *)
(* the manifest made from it and kept in memory under the content's key,   *)
(* and the one rendered image of the device on disk.  The polls of one     *)
(* device are followed: it waits for one answer at a time, but a request   *)
(* it has given up on goes on in the server.  Operators change templates   *)
(* (Templates), the test card, the device's files, and delete the device,  *)
(* which registers again.                                                  *)
(*                                                                         *)
(* A key or version is the content or manifest it is the hash of.  A file  *)
(* is what is in it; the same one uploaded again has its size and time, as *)
(* it is a link to the same blob (cache.go).                               *)
(***************************************************************************)
EXTENDS Templates

CONSTANTS
  Device,           \* the device that is followed
  Names, Clips,     \* names of media files, and what may be in them
  Uploaded,         \* the files it has at first
  Slots,            \* its requests in the server, numbered
  MaxFaults         \* bound on timeouts and restarts

ASSUME ManifestsAssumption ==
  /\ Device \in Devices
  /\ None \notin Clips /\ Uploaded \in [Names -> Clips \cup {None}]
  /\ Slots \subseteq Nat /\ MaxFaults \in Nat

VARIABLES
  test,             \* TestUntil lies ahead
  media,            \* the media files of the device: name -> content or None
  images,           \* rendered/<device>
  decoded,          \* the backgrounds the renderer keeps in memory
  rt,               \* deviceRuntime
  req,              \* the requests
  asking,           \* the request the device waits for, or None
  target,           \* the manifest it is about to apply, or None
  shown,            \* the manifest it has applied, or None
  deletion,         \* handleDeleteDevice
  disturbed,        \* a request was made while an earlier one was going on, or
                    \* the directory of images was erased under a new device
  faults

templateVars == <<settings, registered, backgroundVars, edits>>
inputs       == <<test, media>>
pictures     == <<images, decoded>>
deviceVars   == <<asking, target, shown>>
vars == <<templateVars, inputs, pictures, rt, req, deviceVars, deletion, disturbed, faults>>

(* short notes that a background was left out of a manifest, or that a     *)
(* file was not, or not the same, any more when the manifest was made.     *)
FileSet  == [Names -> Clips \cup {None}]
NoFiles  == [n \in Names |-> None]
ContentRecord ==
  [kind : {"none", "test", "template"}, source : {"none", "test", "override", "global"},
   id : Ids \cup {None}, template : Template \cup {None}, mirror : BOOLEAN, media : FileSet]
Image    == [kind : {"test", "tpl", "ovl"}, text : Texts \cup {None}, mirror : BOOLEAN,
             bg : Files \cup {None}]
Manifest == [image : Image \cup {None}, media : FileSet]
Runtime  == [key : ContentRecord, m : Manifest, applied : Manifest, short : BOOLEAN]
Request  == [at : {"idle", "content", "lookup", "build", "prune", "store", "reply"},
             applied : Manifest, content : ContentRecord, m : Manifest, entry : BOOLEAN,
             todo : SUBSET Names, short : BOOLEAN]

NoContent  == [kind |-> "none", source |-> "none", id |-> None, template |-> None,
               mirror |-> FALSE, media |-> NoFiles]
NoManifest == [image |-> None, media |-> NoFiles]
NoRuntime  == [key |-> NoContent, m |-> NoManifest, applied |-> NoManifest,
               short |-> FALSE]
NoRequest  == [at |-> "idle", applied |-> NoManifest, content |-> NoContent,
               m |-> NoManifest, entry |-> TRUE, todo |-> {}, short |-> FALSE]

Init ==
  /\ TemplatesInit
  /\ test = FALSE /\ media = Uploaded
  /\ images = {} /\ decoded = {} /\ rt = NoRuntime
  /\ req = [s \in Slots |-> NoRequest]
  /\ asking = None /\ target = NoManifest /\ shown = NoManifest
  /\ deletion = "none"
  /\ disturbed = "no"
  /\ faults = 0

--------------------------------------------------------------------------------
\* What the device is to show

(* resolveTemplate: its own template, or the global one.                   *)
ResolvedId == IF own[Device] \in Present THEN own[Device] ELSE global

Content ==
  IF test THEN [NoContent EXCEPT !.kind = "test", !.source = "test"]
  ELSE [kind |-> "template",
        source |-> IF own[Device] \in Present THEN "override" ELSE "global",
        id |-> ResolvedId, template |-> templates[ResolvedId],
        mirror |-> mirror[Device], media |-> media]

BackgroundFor(t, m) == IF m /\ t.flipped # None THEN t.flipped ELSE t.bg

(* The test card shows the device's id and attributes and when it ends.    *)
TestCard == [kind |-> "test", text |-> None, mirror |-> FALSE, bg |-> None]

Background(c) == IF c.kind = "test" THEN None ELSE BackgroundFor(c.template, c.mirror)

(* Without files the whole screen is drawn, with files what is around them.*)
Picture(c, files, bg) ==
  IF c.kind = "test" THEN TestCard
  ELSE [kind |-> IF files = NoFiles THEN "tpl" ELSE "ovl", text |-> c.template.text,
        mirror |-> c.mirror, bg |-> bg]

(* A background that is gone, and not in memory, is left out of the picture.*)
Drawable == backgrounds \cup decoded
CanDraw(c)         == Background(c) \in Drawable \cup {None}
Rendered(c, files) == Picture(c, files, IF CanDraw(c) THEN Background(c) ELSE None)

(* A few are kept in memory: for one more, all others may be given up.     *)
Decode(b) == IF b \in backgrounds \ decoded THEN decoded' \in {decoded \cup {b}, {b}}
             ELSE UNCHANGED decoded

--------------------------------------------------------------------------------
\* A request

Quit(s)    == req' = [req EXCEPT ![s] = NoRequest]
Answer(s, m) ==
  req' = [req EXCEPT ![s] = [NoRequest EXCEPT !.at = "reply", !.m = m, !.applied = req[s].applied]]
Fail(s)    == Quit(s) /\ asking' = IF asking = s THEN None ELSE asking

InService == \E s \in Slots : req[s].at # "idle"

(* deviceAuth: the poll of a device that is not registered is refused.     *)
Ask(s) ==
  /\ asking = None /\ target = NoManifest
  /\ req[s].at = "idle" /\ \A r \in Slots : r < s => req[r].at # "idle"
  /\ Device \in registered
  /\ req' = [req EXCEPT ![s] = [NoRequest EXCEPT !.at = "content", !.applied = shown]]
  /\ asking' = s
  /\ disturbed' = IF InService THEN "overlapped" ELSE disturbed
  /\ UNCHANGED <<templateVars, inputs, pictures, rt, target, shown, deletion, faults>>

ReadContent(s) ==
  /\ req[s].at = "content"
  /\ IF Device \in registered
       THEN /\ req' = [req EXCEPT ![s].at = "lookup", ![s].content = Content]
            /\ UNCHANGED asking
       ELSE Fail(s)
  /\ UNCHANGED <<templateVars, inputs, pictures, rt, target, shown, deletion, disturbed, faults>>

Hit(c)     == rt.m # NoManifest /\ rt.key = c
FilesOf(c) == {n \in Names : c.media[n] # None}

LookUp(s) ==
  /\ req[s].at = "lookup"
  /\ IF Hit(req[s].content) THEN Answer(s, rt.m)
     ELSE req' = [req EXCEPT ![s] = [req[s] EXCEPT !.at = "build", !.entry = TRUE,
                                                   !.todo = FilesOf(req[s].content)]]
  /\ UNCHANGED <<templateVars, inputs, pictures, rt, deviceVars, deletion, disturbed, faults>>

(* BuildItems: a file is taken as it is now, and left out if it is gone.   *)
HashFile(s, n) ==
  /\ req[s].at = "build" /\ n \in req[s].todo
  /\ LET r == req[s]
     IN req' = [req EXCEPT ![s] =
                  [r EXCEPT !.todo = r.todo \ {n}, !.m.media[n] = media[n],
                            !.short = r.short \/ media[n] # r.content.media[n]]]
  /\ UNCHANGED <<templateVars, inputs, pictures, rt, deviceVars, deletion, disturbed, faults>>

WriteImage(s) ==
  /\ req[s].at = "build" /\ req[s].todo = {}
  /\ LET r == req[s]
         c == r.content
         m == [r.m EXCEPT !.image = Rendered(c, r.m.media)]
     IN /\ req' = [req EXCEPT ![s] =
                     [r EXCEPT !.at = "prune", !.m = m, !.short = r.short \/ ~CanDraw(c)]]
        /\ images' = images \cup {m.image}
        /\ Decode(Background(c))
  /\ UNCHANGED <<templateVars, inputs, rt, deviceVars, deletion, disturbed, faults>>

PruneImages(s) ==
  /\ req[s].at = "prune"
  /\ images' = images \cap {req[s].m.image}
  /\ req' = [req EXCEPT ![s].at = "store"]
  /\ UNCHANGED <<templateVars, inputs, decoded, rt, deviceVars, deletion, disturbed, faults>>

(* Mutant: the key is taken from what is to be shown now.                  *)
Store_FreshKey(s) ==
  /\ req[s].at = "store"
  /\ rt' = IF req[s].entry /\ Device \in registered
           THEN [rt EXCEPT !.key = Content, !.m = req[s].m, !.short = req[s].short] ELSE rt
  /\ Answer(s, req[s].m)
  /\ UNCHANGED <<templateVars, inputs, pictures, deviceVars, deletion, disturbed, faults>>

(* The entry is the one looked up: of a device deleted since, a stale one. *)
Store(s) ==
  /\ req[s].at = "store"
  /\ rt' = IF req[s].entry
           THEN [rt EXCEPT !.key = req[s].content, !.m = req[s].m, !.short = req[s].short]
           ELSE rt
  /\ Answer(s, req[s].m)
  /\ UNCHANGED <<templateVars, inputs, pictures, deviceVars, deletion, disturbed, faults>>

(* 304 when the device has applied it already.                             *)
Reply(s) ==
  /\ req[s].at = "reply"
  /\ rt' = [rt EXCEPT !.applied = req[s].applied]
  /\ Quit(s)
  /\ asking' = IF asking = s THEN None ELSE asking
  /\ target' = IF asking = s /\ req[s].m # req[s].applied THEN req[s].m ELSE target
  /\ UNCHANGED <<templateVars, inputs, pictures, shown, deletion, disturbed, faults>>

Serve(s) ==
  \/ ReadContent(s) \/ LookUp(s) \/ (\E n \in Names : HashFile(s, n)) \/ WriteImage(s)
  \/ PruneImages(s) \/ Store(s) \/ Reply(s)

--------------------------------------------------------------------------------
\* The device, as far as the server depends on it

(* It applies a manifest when it has the image and the files, those that   *)
(* it does not show already from the server; a file that has changed is    *)
(* refused by its hash.                                                    *)
Fetch ==
  /\ target # NoManifest
  /\ shown' = IF /\ \/ target.image = shown.image
                    \/ Device \in registered /\ target.image \in images
                 /\ \A n \in Names : \/ target.media[n] \in {None} \cup {shown.media[k] : k \in Names}
                                     \/ Device \in registered /\ target.media[n] = media[n]
              THEN target ELSE shown
  /\ target' = NoManifest
  /\ UNCHANGED <<templateVars, inputs, pictures, rt, req, asking, deletion, disturbed, faults>>

GiveUp ==
  /\ asking # None
  /\ faults < MaxFaults /\ faults' = faults + 1
  /\ asking' = None
  /\ UNCHANGED <<templateVars, inputs, pictures, rt, req, target, shown, deletion, disturbed>>

(* handleRegister, of a device that the server does not know.              *)
Register ==
  /\ Device \notin registered
  /\ registered' = registered \cup {Device}
  /\ UNCHANGED <<settings, backgroundVars, edits, inputs, pictures, rt, req, deviceVars,
                 deletion, disturbed, faults>>

--------------------------------------------------------------------------------
\* Operators and time

(* handleTest, and the end of the test's time.                             *)
SetTest ==
  /\ Device \in registered
  /\ \/ Edit /\ test' = TRUE
     \/ test /\ test' = FALSE /\ UNCHANGED edits
  /\ UNCHANGED <<settings, registered, backgroundVars, media, pictures, rt, req,
                 deviceVars, deletion, disturbed, faults>>

(* An upload gets a name no file has; a file is deleted.                   *)
ChangeMedia ==
  /\ Edit
  /\ Device \in registered
  /\ \E n \in Names, c \in Clips \cup {None} :
       /\ (media[n] = None) # (c = None)
       /\ media' = [media EXCEPT ![n] = c]
  /\ UNCHANGED <<settings, registered, backgroundVars, test, pictures, rt, req,
                 deviceVars, deletion, disturbed, faults>>

DeleteDevice ==
  /\ Edit
  /\ deletion = "none" /\ Device \in registered
  /\ registered' = registered \ {Device}
  /\ own' = [own EXCEPT ![Device] = None] /\ mirror' = [mirror EXCEPT ![Device] = FALSE]
  /\ test' = FALSE
  /\ deletion' = "forget"
  /\ UNCHANGED <<templates, global, backgroundVars, media, pictures, rt, req,
                 deviceVars, disturbed, faults>>

(* A request of the device is still being served, or it has registered     *)
(* again: its image may be erased under it.                                *)
ErasedIf(new) == IF new /\ disturbed = "no" THEN "erased" ELSE disturbed

(* Mutant: what is in memory of the device stays.                          *)
ForgetDevice_Kept ==
  /\ deletion = "forget"
  /\ deletion' = "erase"
  /\ disturbed' = ErasedIf(InService)
  /\ UNCHANGED <<templateVars, inputs, pictures, rt, req, deviceVars, faults>>

ForgetDevice ==
  /\ deletion = "forget"
  /\ rt' = NoRuntime
  /\ req' = [s \in Slots |-> IF req[s].at \in {"build", "prune", "store"}
                             THEN [req[s] EXCEPT !.entry = FALSE] ELSE req[s]]
  /\ deletion' = "erase"
  /\ disturbed' = ErasedIf(InService)
  /\ UNCHANGED <<templateVars, inputs, pictures, deviceVars, faults>>

EraseDevice ==
  /\ deletion = "erase"
  /\ images' = {} /\ media' = NoFiles
  /\ deletion' = "none"
  /\ disturbed' = ErasedIf(Device \in registered)
  /\ UNCHANGED <<templateVars, test, decoded, rt, req, deviceVars, faults>>

(* handlePreview, and other devices' pictures: they draw backgrounds, in   *)
(* other sizes too.                                                        *)
Preview ==
  /\ \/ \E b \in backgrounds \ decoded : Decode(b)
     \/ backgrounds # {} /\ decoded # {} /\ decoded' = {}
  /\ UNCHANGED <<templateVars, inputs, images, rt, req, deviceVars, deletion, disturbed, faults>>

(* The server starts again: requests and what is in memory are gone.       *)
Restart ==
  /\ faults < MaxFaults /\ faults' = faults + 1
  /\ TemplatesRestart
  /\ decoded' = {}
  /\ rt' = NoRuntime /\ req' = [s \in Slots |-> NoRequest] /\ asking' = None
  /\ deletion' = "none"
  /\ UNCHANGED <<registered, edits, inputs, images, target, shown, disturbed>>

Edits ==
  /\ EditTemplates \/ Backgrounds
  /\ UNCHANGED <<inputs, pictures, rt, req, deviceVars, deletion, disturbed, faults>>
Poll  == \E s \in Slots : Ask(s)

Next ==
  \/ Edits
  \/ Poll
  \/ \E s \in Slots : Serve(s)
  \/ Fetch \/ GiveUp \/ Register
  \/ SetTest \/ ChangeMedia \/ Preview
  \/ DeleteDevice \/ ForgetDevice \/ EraseDevice
  \/ Restart

(* The device's one loop goes on, and the server goes on with requests.     *)
Fairness ==
  /\ WF_vars(Poll \/ Fetch \/ Register)
  /\ WF_vars(\E s \in Slots : Serve(s))

Spec == Init /\ [][Next]_vars /\ Fairness

--------------------------------------------------------------------------------
\* Properties

TypeOK ==
  /\ TemplatesTypeOK
  /\ test \in BOOLEAN /\ media \in FileSet
  /\ faults \in 0 .. MaxFaults
  /\ asking \in Slots \cup {None} /\ deletion \in {"none", "forget", "erase"}
  /\ images \subseteq Image /\ decoded \subseteq Files /\ target \in Manifest /\ shown \in Manifest
  /\ rt \in Runtime /\ req \in [Slots -> Request]
  /\ disturbed \in {"no", "erased", "overlapped"}

Intended == [image |-> Picture(Content, Content.media, Background(Content)),
             media |-> Content.media]

(* A manifest whose background or files had gone or changed when it was    *)
(* made is kept for as long as the content is the one it was made from:    *)
(* they may be back by then (short).                                       *)
ShowsContent ==
  /\ Device \in registered
  /\ shown = Intended \/ (Hit(Content) /\ rt.short /\ shown = rt.m)

(* The administration page calls a device's content the latest (syncState) *)
(* only if the device does show it - but for a request that is about to    *)
(* note what the device has applied by now, after it has stored the new    *)
(* manifest, and for one the device gave up on, which notes it late.       *)
LatestIsShown ==
  /\ Device \in registered
  /\ rt.m # NoManifest /\ rt.key = Content /\ rt.applied = rt.m
  => ShowsContent \/ disturbed = "overlapped" \/ \E s \in Slots : req[s].at = "reply"

(* The manifest in memory has a file that is another one now: a device     *)
(* that does not have it cannot get it.                                    *)
Unobtainable == Hit(Content) /\ \E n \in Names : rt.m.media[n] \notin {None, media[n]}

(* What operators set is shown in the end, as they stop changing it: every *)
(* poll finds a manifest of it whose image can be fetched.  Not so after   *)
(* requests of one device overlapped, or its directory was erased under    *)
(* it: the image of the manifest in memory may be gone then, and nothing   *)
(* makes it again (device.go:262-283).                                     *)
ContentIsShown == <>[](ShowsContent \/ disturbed # "no" \/ Unobtainable)
--------------------------------------------------------------------------------
\* What comments say, and the code does not do

(* What the comment on content says (device.go:285-286): it is everything a *)
(* manifest depends on, and its key cannot miss any of it.  So the manifest *)
(* kept in memory under the key of what is to be shown is the one that      *)
(* would be made now.  Files are missed: a picture made with a background   *)
(* is kept when it is gone, one made without it when it is back; and so is  *)
(* a manifest made as a media file was gone, when the same is uploaded.     *)
KeyIsAllInput ==
  Hit(Content) => rt.m = [image |-> Rendered(Content, Content.media), media |-> Content.media]
================================================================================
