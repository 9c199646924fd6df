----------------------------- MODULE AppUpdates -----------------------------
(***************************************************************************)
(* How an update gets from the administrator's page to a phone: the page   *)
(* UpdatesPage uploads an APK, finalizes, publishes and deletes; the app   *)
(* asks for an update, is given a signed manifest, and downloads the file. *)
(*                                                                         *)
(* The backend is the module Releases.  One tab of the panel uploads, and  *)
(* may do so several times at once: an APK dropped on the page allows a    *)
(* second upload, and the button that resumes one is never disabled.  A    *)
(* flow of the page and the request it waits for have the same name w; the *)
(* request runs on when its answer is lost or the tab is reloaded.  This   *)
(* tab or another publishes and deletes.  The file that is selected and    *)
(* the phase of the page only enable buttons: dropping a file enables the  *)
(* upload at any time, and the upload that is pending, if there is one,    *)
(* can always be resumed.                                                  *)
(*                                                                         *)
(* The content of an object is named by the upload that put it, and so is  *)
(* the SHA-256 of a release: the page puts an object once.                 *)
(***************************************************************************)
EXTENDS Releases

VARIABLES
    deployed,   \* what the environment variables of the deployment configure
    pending,    \* the upload the sessionStorage of the page remembers
    flow,       \* the functions of the page that wait for something
    phone       \* what the app was last told of an update

appVars == <<deployed, pending, flow, phone>>
allVars == <<row, apk, legacy, req, deployed, pending, flow, phone>>

\* The object storage, and whether manifests can be signed.  That the
\* environment changes is not modelled.
Deployments == [storage : {"blob", "s3"}, signs : BOOLEAN]

NoUpload == [up |-> None, file |-> 0]
PendingUploads == [up : Uploads \cup {None}, file : 0 .. MaxVersion]

NoFlow == [pc |-> "idle", up |-> None, file |-> 0]
Flows == [pc : {"idle", "upload", "finalize"}, up : Uploads \cup {None},
          file : 0 .. MaxVersion]

\* The release and the hash of the manifest, and the file the app is linked to.
\* redrafted is history: a late upsert has made the release a draft since.
Unasked == [id |-> None, sha |-> None, link |-> None, redrafted |-> FALSE]
Phones == [id : Ids \cup {None}, sha : Uploads \cup {None},
           link : Uploads \cup {None}, redrafted : BOOLEAN]

AppTypeOK ==
    /\ TypeOK
    /\ deployed \in Deployments
    /\ pending \in PendingUploads
    /\ flow \in [Workers -> Flows]
    /\ phone \in Phones

AppInit ==
    /\ Init
    /\ deployed \in Deployments
    /\ pending = NoUpload
    /\ flow = [w \in Workers |-> NoFlow]
    /\ phone = Unasked

-----------------------------------------------------------------------------
\* The storage.  Direct uploads need the Vercel Blob store, everything else is
\* served by either.
CanUpload == deployed.storage = "blob"
Head(u) == apk[u] # None

\* An upload id is a random UUID, which no flow or object has had.
Unused(u) == /\ apk[u] = None
             /\ pending.up # u
             /\ \A w \in Workers : flow[w].up # u /\ req[w].up # u
                                     /\ req[w].object # u
             /\ \A i \in Ids : row[i].object # u
             /\ phone.sha # u /\ phone.link # u

Waiting(w, what) == flow[w].pc = what
Free(w) == Waiting(w, "idle") /\ At(w, "idle")
Wait(w, what, u, v) ==
    flow' = [flow EXCEPT ![w] = [pc |-> what, up |-> u, file |-> v]]
Ends(w) == flow' = [flow EXCEPT ![w] = NoFlow]

-----------------------------------------------------------------------------
\* The page.  What it shows may be old: it names any release there is, be it the
\* draft it has just made or a line of the history.

\* startUpload of an APK of version v.  The same file again is the upload that
\* is pending.
BeginUpload(w, v) ==
    /\ Free(w)
    /\ CanUpload
    /\ pending.file # v
    /\ Wait(w, "upload", None, v)
    /\ UNCHANGED <<row, apk, legacy, req, deployed, pending, phone>>

\* startUpload for the upload that is pending.
ResumeUpload(w) ==
    /\ Free(w)
    /\ pending # NoUpload
    /\ Wait(w, "finalize", pending.up, 0)
    /\ UNCHANGED <<row, apk, legacy, req, deployed, pending, phone>>

\* The authorization names a new object, the browser puts it and the upload is
\* remembered.
Uploaded(w) ==
    /\ Waiting(w, "upload")
    /\ \E u \in Uploads :
         /\ Unused(u)
         /\ PutApk(u, flow[w].file)
         /\ Wait(w, "finalize", u, 0)
         /\ pending' = [up |-> u, file |-> flow[w].file]
    /\ UNCHANGED <<deployed, phone>>

\* Nothing is left to resume.  An object the store has nevertheless is one that
\* nothing names.
UploadFails(w) ==
    /\ Waiting(w, "upload")
    /\ Ends(w)
    /\ pending' = NoUpload
    /\ UNCHANGED <<row, apk, legacy, req, deployed, phone>>

\* Publishing needs the signing key, whatever the page believes.  The page has
\* no button that archives, the API has the call.
BeginOnRelease(w, i) ==
    /\ Free(w)
    /\ \/ deployed.signs /\ ReadForPublish(w, i)
       \/ ReadForArchive(w, i)
       \/ ReadForDelete(w, i)
       \/ ReadForPurge(w, i)
    /\ UNCHANGED appVars

\* The tab is reloaded: what it waited for goes on without it.
Reload ==
    /\ flow' = [w \in Workers |-> NoFlow]
    /\ UNCHANGED <<row, apk, legacy, req, deployed, pending, phone>>

-----------------------------------------------------------------------------
\* The backend.

BeginFinalize(w) ==
    /\ Waiting(w, "finalize") /\ At(w, "idle")
    /\ \/ ReadApk(w, flow[w].up) /\ UNCHANGED flow
       \/ ~Head(flow[w].up) /\ Ends(w) /\ UNCHANGED <<row, apk, legacy, req>>
    /\ UNCHANGED <<deployed, pending, phone>>

\* A request makes a call that is not its last.
Serve(w) ==
    /\ Continue(w) /\ ~At(w, "idle")'
    /\ UNCHANGED appVars

\* The releases that are made drafts again.
Redrafted == {i \in Ids : Exists(i) /\ row[i].status # "DRAFT"
                                    /\ row'[i].status = "DRAFT"}

\* Mutant: an upload is forgotten when its finalization has ended.
ForgetsWhenEnded(w) == TRUE

\* finalizeExistingUpload forgets the upload when it is told of the draft.  An
\* error, or an answer that is lost, leaves it pending.
Forgets(w) == At(w, "upsert")

\* A request makes its last call.
Answer(w) ==
    /\ Continue(w) /\ At(w, "idle")'
    /\ Ends(w)
    /\ \/ Waiting(w, "finalize") /\ Forgets(w) /\ pending' = NoUpload
       \/ UNCHANGED pending
    /\ phone' = IF phone.id \in Redrafted
                THEN [phone EXCEPT !.redrafted = TRUE] ELSE phone
    /\ UNCHANGED deployed

\* A request stops between two calls.
Break(w) ==
    /\ Crash(w)
    /\ Ends(w)
    /\ UNCHANGED <<deployed, pending, phone>>

-----------------------------------------------------------------------------
\* The app on a phone.

\* GET /app/update: the published release if it is newer than the app, signed.
Manifest(i) == [Unasked EXCEPT !.id = i, !.sha = row[i].object]

CheckUpdate(current) ==
    /\ \E i \in Offered :
         /\ row[i].version > current
         /\ deployed.signs
         /\ phone' = Manifest(i)
    /\ UNCHANGED <<row, apk, legacy, req, deployed, pending, flow>>

\* Mutant: the current release is served, not the one that was asked for.
ServedCurrent(i) == Offered

\* Who asks for release i is served that release.
Served(i) == {i} \cap Offered

\* POST /app/releases/:id/download: a link to the file, if it is there.
AskDownload ==
    /\ phone.id # None /\ phone.link = None
    /\ \E i \in Served(phone.id) :
         /\ Head(row[i].object)
         /\ phone' = [phone EXCEPT !.link = row[i].object]
    /\ UNCHANGED <<row, apk, legacy, req, deployed, pending, flow>>

\* The app downloads and installs, or gives up.
ForgetUpdate ==
    /\ phone.id # None
    /\ phone' = Unasked
    /\ UNCHANGED <<row, apk, legacy, req, deployed, pending, flow>>

-----------------------------------------------------------------------------
PageStep ==
    \/ Reload
    \/ \E w \in Workers :
         \/ \E v \in Versions : BeginUpload(w, v)
         \/ ResumeUpload(w) \/ Uploaded(w) \/ UploadFails(w)
         \/ \E i \in Ids : BeginOnRelease(w, i)

AppNext ==
    \/ PageStep
    \/ \E w \in Workers : BeginFinalize(w) \/ Serve(w) \/ Answer(w) \/ Break(w)
    \/ \E current \in 0 .. MaxVersion : CheckUpdate(current)
    \/ AskDownload \/ ForgetUpdate

AppSpec == AppInit /\ [][AppNext]_allVars

-----------------------------------------------------------------------------
\* Safety.

\* The link a phone is given is to the file whose hash the manifest it was
\* given names, however the releases changed in between, unless a late upsert
\* made the release a draft again while it was published.
ServedIsSigned ==
    phone.link # None => phone.link = phone.sha \/ phone.redrafted

\* The page forgets an upload that waits to be finalized only when its release
\* is there, or because of another upload: an error, a lost answer or a reload
\* leaves it to be resumed.
ForgetsWithReason ==
    pending # NoUpload /\ pending' # pending =>
        \/ \E i \in Ids : row'[i].object = pending.up
        \/ \E w \in Workers : flow'[w] # flow[w] /\ flow[w].up # pending.up
PendingKept == [][ForgetsWithReason]_allVars

\* The file of the published release is deleted only by a finalization that is
\* repeated, or by a request that saw the release before it was published.
LosesFileUnaware ==
    \A i \in Published : Head(row[i].object) /\ apk'[row[i].object] = None =>
        \E w \in Workers :
            \/ At(w, "discard") /\ req[w].up = row[i].object
            \/ /\ req[w].pc \in {"unlink", "erase", "wipe"}
               /\ req[w].seen # "PUBLISHED"
FileStays == [][LosesFileUnaware]_allVars
=============================================================================
