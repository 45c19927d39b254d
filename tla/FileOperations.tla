--------------------------- MODULE FileOperations ---------------------------
(***************************************************************************)
(* What a user does with the files of one folder: the toolbar, the modals  *)
(* of the operations, the sagas that carry them out and the push-keys      *)
(* modal a job may ask for.                                                *)
(*                                                                         *)
(* Every saga but the preview's is taken by takeLeading: while a call is   *)
(* open a second request of its kind is forgotten.  The four batches race  *)
(* against the closing of a modal, and go on with the result they do not   *)
(* have when it comes first.  A modal is opened and closed by one and the  *)
(* same action, also when a saga ends, and tells that it has closed only   *)
(* after its animation.                                                    *)
(***************************************************************************)
EXTENDS Naturals, FiniteSets

CONSTANTS
    Files,        \* the files of the folder
    Plain,        \* those that are neither folders nor archives
    Archives,     \* the archives among them
    Protected,    \* those that are never renamed, moved or trashed
    Places,       \* the <<api, scheme>> pairs a folder may belong to
    NoFile,       \* the absence of a file
    Sessions,     \* bound on the modals a user opens: the sets of them to try
    MaxOpen       \* bound on the operations under way at once, pushing keys apart

VARIABLES store, calls, ui, alive

vars == <<store, calls, ui, alive>>

Batch == {"move", "copy", "trash", "upload"}   \* on many files at once
Job == {"compress", "extract"}                 \* by a job
Watchers == Batch \cup Job \cup {"rename", "link", "mkdir", "makePublic",
                "download", "preview", "pushKeys", "FETCH_FILES"}
Modals == Batch \cup Job \cup {"downloadMessage", "rename", "link", "mkdir",
                "makePublic", "preview", "showpath"}
Named == {"rename", "link", "makePublic", "preview"}
Statuses == {"none", "RUNNING", "SUCCESS", "ERROR"}
NoCalls == [w \in Watchers |-> {}]

----------------------------------------------------------------------------
(* utils/filePermissions.js                                                *)

getFilePermissions(name, files, api, scheme) ==
    LET isProtected == files \cap Protected # {}
        isPrivate == scheme \in {"projects", "private"}
        one == Cardinality(files) = 1
        isArchive == one /\ files \subseteq Archives
    IN  CASE name \in {"rename", "public"} ->
                ~isProtected /\ one /\ isPrivate /\ api # "googledrive"
          [] name = "download" ->
                one /\ files \subseteq Plain \cup Archives /\ api # "googledrive"
          [] name = "areMultipleFilesOrFolderSelected" ->
                /\ Cardinality(files) > 1 \/ files \ (Plain \cup Archives) # {}
                /\ api # "googledrive"
          [] name = "extract" -> isArchive /\ isPrivate /\ api = "tapis"
          [] name = "compress" ->
                ~isArchive /\ files # {} /\ isPrivate /\ api = "tapis"
          [] name = "copy" -> files # {}
          [] name = "move" ->
                ~isProtected /\ files # {} /\ isPrivate /\ api # "googledrive"
          [] name = "trash" ->
                ~isProtected /\ files # {} /\ isPrivate /\ api = "tapis"

----------------------------------------------------------------------------
(* The reducers. The status of a batch is kept by the ids that its modal   *)
(* gives the selected files each time it opens: what is stored under older *)
(* ids is not seen again.                                                  *)

initialFilesState ==
    [listing |-> {}, err |-> FALSE, selected |-> {}, modals |-> {},
     props |-> [m \in Named |-> NoFile],
     byKey |-> [op \in Batch |-> [f \in Files |-> "none"]],
     status |-> [op \in Job \cup {"rename"} |-> "none"],
     link |-> [loading |-> FALSE, method |-> "none", url |-> NoFile],
     preview |-> [loading |-> TRUE, content |-> NoFile],
     keys |-> [open |-> FALSE, by |-> "none", submitting |-> FALSE]]

TOGGLE_MODAL(st, m, f) ==
    [st EXCEPT !.modals = IF m \in @ THEN @ \ {m} ELSE @ \cup {m},
               !.props = IF m \in Named THEN [@ EXCEPT ![m] = f] ELSE @,
               !.byKey = IF m \in Batch \ (st.modals \cup {"upload"})
                         THEN [@ EXCEPT ![m] = [x \in Files |-> "none"]] ELSE @]
SET_OPERATION_STATUS(st, op, s) == [st EXCEPT !.status[op] = s]
SET_OPERATION_STATUS_BY_KEY(st, op, fs, s) ==
    [st EXCEPT !.byKey[op] = [f \in Files |-> IF f \in fs THEN s ELSE @[f]]]
SET_LINK(st, method, url) ==
    [st EXCEPT !.link = [loading |-> url = NoFile /\ method # "none",
                         method |-> IF method = "get" THEN "none" ELSE method,
                         url |-> url]]
SET_PREVIEW_CONTENT(st, loading, f) ==
    [st EXCEPT !.preview.loading = loading, !.preview.content = f]
SYSTEMS_TOGGLE_MODAL(st, by) ==
    [st EXCEPT !.keys = [open |-> ~@.open, by |-> by, submitting |-> FALSE]]
SYSTEMS_MODAL_UPDATE(st, submitting) == [st EXCEPT !.keys.submitting = submitting]

(* Faulty: the selection outlives the listing. *)
reloadSelected(st) == IF alive THEN [st EXCEPT !.listing = {}, !.err = FALSE] ELSE st
\* history.push on the route of the page: the listing starts anew.
reload(st) == IF alive THEN [st EXCEPT !.listing = {}, !.err = FALSE, !.selected = {}]
              ELSE st
reloading(c) == IF alive THEN [c EXCEPT !["FETCH_FILES"] = {"page"}] ELSE c

\* isOpen flips: the modal goes into its animation, or out of it, and an
\* opened one freezes the selection under new ids. `opened` is of the window
\* of the preview, which asks for it only then; `early` notes that a preview
\* was told when no such window was open.
flipped(u, m) ==
    [u EXCEPT !.closing = IF m \in store.modals THEN @ \cup {m} ELSE @ \ {m},
              !.opened = @ /\ m # "preview",
              !.frozen = IF m \in Batch \ (store.modals \cup {"upload"})
                         THEN [@ EXCEPT ![m] = store.selected] ELSE @]

----------------------------------------------------------------------------
(* The sagas.                                                              *)

\* takeLeading: the request r of the watcher w, or nothing.
take(c, w, r) == IF alive /\ c[w] = {} THEN [c EXCEPT ![w] = {r}] ELSE c
taken(w) == alive /\ calls[w] = {}
InBounds(w) == Cardinality({v \in Watchers \ {"FETCH_FILES", "pushKeys"} :
                               calls[v] # {} \/ v = w}) <= MaxOpen

\* An error that no handler catches ends the root saga and every call.
rootSagaEnds == alive' = FALSE /\ calls' = NoCalls

\* moveFile, copyFile, trashFile, uploadFile answer one by one; the last
\* answer ends the batch.
batchAnswer(op) == \E b \in calls[op] : \E f \in b.open : \E ok \in BOOLEAN :
    LET rest == [b EXCEPT !.open = @ \ {f}, !.err = @ \/ ~ok]
        told == SET_OPERATION_STATUS_BY_KEY(store, op, {f},
                                            IF ok THEN "SUCCESS" ELSE "ERROR")
        toggles == ~rest.err /\ op # "upload"
    IN  /\ IF rest.open # {}
           THEN /\ store' = told /\ UNCHANGED ui
                /\ calls' = [calls EXCEPT ![op] = {rest}]
           ELSE /\ store' = reload(IF toggles THEN TOGGLE_MODAL(told, op, NoFile)
                                   ELSE told)
                /\ ui' = IF toggles THEN flipped(ui, op) ELSE ui
                /\ calls' = reloading([calls EXCEPT ![op] = {}])
        /\ UNCHANGED alive

moveFiles == batchAnswer("move")
copyFiles == batchAnswer("copy")
trashFiles == batchAnswer("trash")
uploadFiles == batchAnswer("upload")

\* The job is accepted, needs the user's keys on its system, or fails; the
\* first answer is the listing of the versions of the application.
jobAnswer(op) ==
    /\ UNCHANGED alive
    /\ \/ /\ calls[op] = {"app"}
          /\ \/ /\ store' = SET_OPERATION_STATUS(store, op, "RUNNING")
                /\ calls' = [calls EXCEPT ![op] = {"job"}]
             \/ /\ store' = SET_OPERATION_STATUS(store, op, "ERROR")
                /\ calls' = [calls EXCEPT ![op] = {}]
          /\ UNCHANGED ui
       \/ /\ calls[op] = {"job"}
          /\ calls' = [calls EXCEPT ![op] = {}]
          /\ \/ /\ store' = SYSTEMS_TOGGLE_MODAL(store, op)
                /\ ui' = [ui EXCEPT !.crossed = @ \/ store.keys.open]
             \/ /\ store' = TOGGLE_MODAL(SET_OPERATION_STATUS(store, op, "SUCCESS"),
                                         op, NoFile)
                /\ ui' = flipped(ui, op)
             \/ /\ store' = SET_OPERATION_STATUS(store, op, "ERROR")
                /\ UNCHANGED ui

extractFiles == jobAnswer("extract")
compressFiles == jobAnswer("compress")

\* Keys were pushed: the modal is toggled and the operation that asked for
\* them tried again. A modal the user has closed meanwhile opens without a
\* system to show, and the page cannot be rendered.
pushSystemKeys == \E by \in calls["pushKeys"] :
    LET ended == [calls EXCEPT !["pushKeys"] = {}] IN
    /\ UNCHANGED alive
    /\ \/ /\ store.keys.open
          /\ store' = reload(SYSTEMS_TOGGLE_MODAL(store, "none"))
          /\ calls' = reloading(IF by \in Job THEN take(ended, by, "app") ELSE ended)
          /\ ui' = [ui EXCEPT !.crossed = @ \/ store.keys.by # by]
       \/ /\ ~store.keys.open
          /\ store' = SYSTEMS_TOGGLE_MODAL(store, "none")
          /\ calls' = ended
          /\ ui' = [ui EXCEPT !.up = FALSE]
       \/ /\ store' = reload(SYSTEMS_MODAL_UPDATE(store, FALSE))
          /\ calls' = reloading(ended)
          /\ UNCHANGED ui

\* Nobody tells the success of a rename from its failure, but the reload.
renameFile ==
    /\ calls["rename"] # {}
    /\ LET st == SET_OPERATION_STATUS(store, "rename", "none")
           c == [calls EXCEPT !["rename"] = {}]
       IN  \/ store' = reload(st) /\ calls' = reloading(c)
           \/ store' = st /\ calls' = c
    /\ UNCHANGED <<ui, alive>>

fileLink == \E r \in calls["link"] :
    /\ \E url \in IF r.method = "delete" THEN {NoFile} ELSE {r.file, NoFile} :
          store' = SET_LINK(store, "none", url)
    /\ calls' = [calls EXCEPT !["link"] = {}]
    /\ UNCHANGED <<ui, alive>>

preview == \E f \in calls["preview"] : \E shown \in {f, NoFile} :
    /\ store' = SET_PREVIEW_CONTENT(store, FALSE, shown)
    /\ calls' = [calls EXCEPT !["preview"] = {}]
    /\ ui' = [ui EXCEPT !.early = /\ shown # NoFile
                                 /\ ~("preview" \in store.modals /\ ui.opened)]
    /\ UNCHANGED alive

\* mkdir takes any answer for a success and toggles its modal.
mkdir ==
    /\ calls["mkdir"] # {}
    /\ \/ /\ store' = TOGGLE_MODAL(reload(store), "mkdir", NoFile)
          /\ calls' = reloading([calls EXCEPT !["mkdir"] = {}])
          /\ ui' = flipped(ui, "mkdir")
          /\ UNCHANGED alive
       \/ rootSagaEnds /\ UNCHANGED <<store, ui>>

\* A request without an answer to show, and without a handler of its errors.
unguarded(w) ==
    /\ calls[w] # {}
    /\ \/ calls' = [calls EXCEPT ![w] = {}] /\ UNCHANGED alive
       \/ rootSagaEnds
    /\ UNCHANGED <<store, ui>>

doMakePublic == unguarded("makePublic")
download == unguarded("download")

\* The listing of the page (how it can fail is in FileListings).
fetchFiles ==
    /\ calls["FETCH_FILES"] # {}
    /\ \/ store' = [store EXCEPT !.listing = Files]
       \/ store' = [store EXCEPT !.err = TRUE]
    /\ calls' = [calls EXCEPT !["FETCH_FILES"] = {}]
    /\ UNCHANGED <<ui, alive>>

----------------------------------------------------------------------------
(* The page: nothing of it is in reach while a modal is open or closing.   *)

\* Bound: a page whose root saga has ended is not followed any further.
Up == ui.up /\ alive
Idle == Up /\ store.modals \cup ui.closing = {} /\ ~store.keys.open
api == ui.place[1]
scheme == ui.place[2]
The(files) == CHOOSE f \in files : TRUE

opens(m, f) ==
    /\ m \in ui.tools
    /\ store' = TOGGLE_MODAL(store, m, f)
    /\ ui' = flipped(ui, m)
    /\ UNCHANGED alive

\* Selecting is DataFilesTable's, and modelled in FileListings.
select ==
    /\ Idle
    /\ \E s \in SUBSET store.listing \ {store.selected} :
          store' = [store EXCEPT !.selected = s]
    /\ UNCHANGED <<calls, ui, alive>>

DataFilesToolbar ==
    LET can(name) == getFilePermissions(name, store.selected, api, scheme)
        mine == api = "tapis" /\ scheme \notin {"public", "community"}
        f == The(store.selected)
    IN  /\ Idle
        /\ \/ \E m \in Batch \ {"upload"} :
                 /\ can(m) /\ (m = "copy" \/ mine)
                 /\ opens(m, NoFile) /\ UNCHANGED calls
           \/ \E m \in Job : can(m) /\ mine /\ opens(m, NoFile) /\ UNCHANGED calls
           \/ can("rename") /\ mine /\ opens("rename", f) /\ UNCHANGED calls
           \/ can("public") /\ mine /\ opens("makePublic", f) /\ UNCHANGED calls
           \/ /\ can("download") /\ "download" \in ui.tools /\ InBounds("download")
              /\ calls' = take(calls, "download", "sent")
              /\ UNCHANGED <<store, ui, alive>>
           \/ /\ can("areMultipleFilesOrFolderSelected") /\ api = "tapis"
              /\ opens("downloadMessage", NoFile) /\ UNCHANGED calls
           \/ /\ can("download") /\ mine /\ "link" \in ui.tools /\ InBounds("link")
              /\ calls' = take(calls, "link", [file |-> f, method |-> "get"])
              /\ store' = LET st == IF taken("link") THEN SET_LINK(store, "get", NoFile)
                                    ELSE store
                          IN  TOGGLE_MODAL(st, "link", f)
              /\ ui' = [flipped(ui, "link") EXCEPT !.forgotten = ~taken("link")]
              /\ UNCHANGED alive

\* "Folder" and "Upload", unless the listing failed or is read-only.
DataFilesSidebar ==
    /\ Idle /\ ~store.err /\ api = "tapis" /\ scheme \in {"private", "projects"}
    /\ \E m \in {"mkdir"} \cup (Batch \cap {"upload"}) : opens(m, NoFile)
    /\ UNCHANGED calls

\* A file's name, or its path.
FileNavCell == \E f \in store.listing : \E m \in {"preview", "showpath"} :
    /\ Idle /\ (m = "preview" => api # "googledrive" /\ f \in Plain \cup Archives)
    /\ opens(m, f)
    /\ UNCHANGED calls

\* The listing failed for want of keys.
DataFilesTablePlaceholder ==
    /\ Idle /\ store.err /\ "pushKeys" \in ui.tools
    /\ store' = SYSTEMS_TOGGLE_MODAL(store, "listing")
    /\ UNCHANGED <<calls, ui, alive>>

----------------------------------------------------------------------------
(* The modals. What can be pressed in one is its own operator; closing any *)
(* of them is toggle, and the end of the animation is onClosed.            *)

Shown(m) == Up /\ m \in store.modals /\ ~store.keys.open

toggle == \E m \in store.modals :
    /\ Shown(m)
    /\ store' = TOGGLE_MODAL(store, m, NoFile)
    /\ ui' = flipped(ui, m)
    /\ UNCHANGED <<calls, alive>>

\* DATA_FILES_MODAL_CLOSE, sent by these modals, wins the race of any batch.
onClosed == \E m \in ui.closing :
    LET closes == m \in Batch \cup Job \cup {"downloadMessage", "showpath"}
        job == IF m = "extract" THEN "extract" ELSE "compress"
        pushes == m \in Job \cup {"downloadMessage"} /\ store.status[job] # "none"
        st == CASE m \in Batch ->
                     SET_OPERATION_STATUS_BY_KEY(store, m, Files, "none")
                [] pushes -> SET_OPERATION_STATUS(store, job, "none")
                [] m = "rename" -> SET_OPERATION_STATUS(store, "rename", "none")
                [] m = "link" -> SET_LINK(store, "none", NoFile)
                [] m = "preview" -> SET_PREVIEW_CONTENT(store, TRUE, NoFile)
                [] OTHER -> store
        u == [ui EXCEPT !.closing = @ \ {m}, !.disabled = @ \ {m},
                 !.early = @ /\ m # "preview",
                 !.frozen = IF m \in Batch THEN [@ EXCEPT ![m] = {}] ELSE @,
                 !.uploaded = IF m = "upload" THEN {} ELSE @,
                 !.rejected = IF m = "upload" THEN {} ELSE @]
    IN  /\ Up
        /\ ui' = u
        /\ IF closes /\ alive /\ \E op \in Batch : calls[op] # {}
           THEN rootSagaEnds /\ store' = st
           ELSE /\ store' = IF pushes THEN reload(st) ELSE st
                /\ calls' = IF pushes THEN reloading(calls) ELSE calls
                /\ UNCHANGED alive

\* Starts a batch on the files src.
startBatch(op, src) ==
    /\ InBounds(op)
    /\ calls' = take(calls, op, [src |-> src, open |-> src, err |-> FALSE])
    /\ store' = IF taken(op) THEN SET_OPERATION_STATUS_BY_KEY(store, op, src, "RUNNING")
                ELSE store
    /\ UNCHANGED alive

\* Move, Copy and Trash: one press per opening.
BatchModal(op) ==
    LET src == {f \in ui.frozen[op] : store.byKey[op][f] # "SUCCESS"} IN
    /\ Shown(op) /\ op \notin ui.disabled /\ src # {}
    /\ startBatch(op, src)
    /\ ui' = [ui EXCEPT !.disabled = @ \cup {op}]

DataFilesMoveModal == BatchModal("move")
DataFilesCopyModal == BatchModal("copy")
DataFilesTrashModal == BatchModal("trash")

dropZoneDisabled == \E f \in Files : store.byKey["upload"][f] = "RUNNING"
Uploaded == {f \in Files : store.byKey["upload"][f] = "SUCCESS"}
uploadButtonDisabled ==
    \/ dropZoneDisabled
    \/ Cardinality(ui.uploaded) = Cardinality(ui.rejected) + Cardinality(Uploaded)

\* Upload: files are dropped in, refused for their size, removed, sent.
DataFilesUploadModal ==
    /\ Shown("upload")
    /\ \/ /\ ~dropZoneDisabled
          /\ \E f \in Files \ ui.uploaded : \E big \in BOOLEAN :
                ui' = [ui EXCEPT !.uploaded = @ \cup {f},
                          !.rejected = IF big THEN @ \cup {f} ELSE @]
          /\ UNCHANGED <<store, calls, alive>>
       \/ /\ \E f \in ui.uploaded \ ui.rejected :
                /\ store.byKey["upload"][f] = "none"
                /\ ui' = [ui EXCEPT !.uploaded = @ \ {f}]
          /\ UNCHANGED <<store, calls, alive>>
       \/ /\ ~uploadButtonDisabled
          /\ startBatch("upload", ui.uploaded \ (Uploaded \cup ui.rejected))
          /\ UNCHANGED ui

\* Compress and Extract; the message on downloads compresses, too.
JobModal(m, op) ==
    /\ Shown(m) /\ store.status[op] \notin {"RUNNING", "SUCCESS"} /\ InBounds(op)
    /\ calls' = take(calls, op, "app")
    /\ UNCHANGED <<store, ui, alive>>

DataFilesCompressModal == JobModal("compress", "compress")
DataFilesDownloadMessageModal == JobModal("downloadMessage", "compress")
DataFilesExtractModal == JobModal("extract", "extract")

DataFilesRenameModal ==
    /\ Shown("rename") /\ InBounds("rename")
    /\ calls' = take(calls, "rename", "sent")
    /\ store' = TOGGLE_MODAL(IF taken("rename")
                             THEN SET_OPERATION_STATUS(store, "rename", "RUNNING")
                             ELSE store, "rename", NoFile)
    /\ ui' = flipped(ui, "rename")
    /\ UNCHANGED alive

DataFilesMakePublicModal ==
    /\ Shown("makePublic") /\ InBounds("makePublic")
    /\ opens("makePublic", NoFile)
    /\ calls' = take(calls, "makePublic", "sent")

DataFilesMkdirModal ==
    /\ Shown("mkdir") /\ InBounds("mkdir")
    /\ calls' = take(calls, "mkdir", "sent")
    /\ UNCHANGED <<store, ui, alive>>

\* Generate; Replace or Delete, once confirmed. The buttons wait for each
\* other, not for the request that looks the link up.
DataFilesLinkModal == \E method \in {"post", "put", "delete"} :
    /\ Shown("link") /\ store.link.method = "none" /\ InBounds("link")
    /\ (method = "post") = (store.link.url = NoFile)
    /\ calls' = take(calls, "link", [file |-> store.props["link"], method |-> method])
    /\ store' = IF taken("link") THEN SET_LINK(store, method, NoFile) ELSE store
    /\ ui' = [ui EXCEPT !.forgotten = ~taken("link")]
    /\ UNCHANGED alive

(* Faulty: every preview is answered. *)
DataFilesPreviewModalEvery ==
    LET f == store.props["preview"] IN
    /\ Shown("preview") /\ ~ui.opened /\ alive
    /\ ui' = [ui EXCEPT !.opened = TRUE, !.early = FALSE]
    /\ calls' = [calls EXCEPT !["preview"] = @ \cup {f}]
    /\ store' = SET_PREVIEW_CONTENT(store, TRUE, NoFile)
    /\ UNCHANGED alive
\* onOpened: takeLatest, so an older preview is given up.
DataFilesPreviewModal ==
    LET f == store.props["preview"] IN
    /\ Shown("preview") /\ ~ui.opened
    /\ ui' = [ui EXCEPT !.opened = TRUE, !.early = FALSE]
    /\ IF alive THEN /\ calls' = [calls EXCEPT !["preview"] = {f}]
                     /\ store' = SET_PREVIEW_CONTENT(store, TRUE, NoFile)
       ELSE UNCHANGED <<store, calls>>
    /\ UNCHANGED alive

\* Authenticate, or close and so cancel what asked for the keys.
SystemsPushKeysModal ==
    /\ Up /\ store.keys.open
    /\ \/ /\ ~store.keys.submitting
          /\ calls' = take(calls, "pushKeys", store.keys.by)
          /\ store' = IF taken("pushKeys") THEN SYSTEMS_MODAL_UPDATE(store, TRUE)
                      ELSE store
       \/ /\ store' = LET st == SYSTEMS_TOGGLE_MODAL(store, "none") IN
                      IF store.keys.by \in Job
                      THEN SET_OPERATION_STATUS(st, store.keys.by, "ERROR") ELSE st
          /\ UNCHANGED calls
    /\ UNCHANGED <<ui, alive>>

----------------------------------------------------------------------------
Init ==
    /\ store = initialFilesState
    /\ calls = [NoCalls EXCEPT !["FETCH_FILES"] = {"page"}]
    /\ ui \in [place : Places, tools : Sessions, up : {TRUE}, opened : {FALSE},
               early : {FALSE}, closing : {{}}, disabled : {{}},
               frozen : {[op \in Batch |-> {}]}, uploaded : {{}}, rejected : {{}},
               forgotten : {FALSE}, crossed : {FALSE}]
    /\ alive = TRUE

Page == \/ select \/ DataFilesToolbar \/ DataFilesSidebar \/ FileNavCell
        \/ DataFilesTablePlaceholder

ModalSteps ==
    \/ toggle \/ onClosed
    \/ DataFilesMoveModal \/ DataFilesCopyModal \/ DataFilesTrashModal
    \/ DataFilesUploadModal \/ DataFilesCompressModal \/ DataFilesExtractModal
    \/ DataFilesDownloadMessageModal \/ DataFilesRenameModal
    \/ DataFilesMakePublicModal \/ DataFilesMkdirModal \/ DataFilesLinkModal
    \/ DataFilesPreviewModal \/ SystemsPushKeysModal

Answers ==
    \/ moveFiles \/ copyFiles \/ trashFiles \/ uploadFiles
    \/ extractFiles \/ compressFiles \/ doMakePublic \/ download
    \/ pushSystemKeys \/ renameFile \/ fileLink \/ preview \/ mkdir \/ fetchFiles

Next == Page \/ ModalSteps \/ Answers

Spec == Init /\ [][Next]_vars

----------------------------------------------------------------------------
(* Properties.                                                             *)

TypeOK ==
    /\ store.selected \subseteq store.listing /\ store.listing \subseteq Files
    /\ store.modals \subseteq Modals /\ ui.closing \subseteq Modals
    /\ store.props \in [Named -> Files \cup {NoFile}]
    /\ store.byKey \in [Batch -> [Files -> Statuses]]
    /\ store.status \in [Job \cup {"rename"} -> Statuses]
    /\ \A op \in Batch : \A b \in calls[op] : b.open \subseteq b.src
    /\ ui.disabled \subseteq Batch /\ ui.rejected \subseteq ui.uploaded
    /\ ui.up \in BOOLEAN /\ alive \in BOOLEAN

\* The preview and the link a window shows are of the file it names, whatever
\* was asked for before and is answered late, with two exceptions: a window
\* of a preview that has not opened yet (`~opened`) shows, under its own name,
\* what an older request answered after its window had closed (`early`); and
\* a link may be another file's when the request for it was forgotten.
WindowIsOfFile ==
    /\ (Shown("preview") /\ store.preview.content # NoFile)
          => \/ store.preview.content = store.props["preview"]
             \/ ui.early /\ ~ui.opened
    /\ (Shown("link") /\ store.link.url # NoFile /\ ~ui.forgotten)
          => store.link.url = store.props["link"]

\* What is shown as under way is: a call is open, the keys of its system are
\* being asked for, or the root saga has ended.
SpinnerIsServed ==
    alive =>
    /\ \A op \in Batch : \A f \in Files : store.byKey[op][f] = "RUNNING" =>
          \E b \in calls[op] : f \in b.open
    /\ \A op \in Job : store.status[op] = "RUNNING" =>
          \/ calls[op] # {} \/ ui.crossed \/ ~ui.up
          \/ store.keys.open /\ store.keys.by = op
    /\ store.status["rename"] = "RUNNING" => calls["rename"] # {}
    /\ store.link.loading => calls["link"] # {}
    /\ (Shown("preview") /\ ui.opened /\ store.preview.loading)
          => calls["preview"] # {}
=============================================================================
