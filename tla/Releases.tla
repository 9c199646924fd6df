------------------------------ MODULE Releases ------------------------------
(***************************************************************************)
(* The life of the Android releases: an APK is uploaded to the object      *)
(* storage, finalized into a draft, published, archived, deleted as a      *)
(* draft, or has its file purged; installed apps are offered the published *)
(* one.                                                                    *)
(*                                                                         *)
(* There is one platform.  Administrators' requests run in separate        *)
(* invocations and take one action per database or storage call they       *)
(* await; only the transaction of publish is atomic, and it holds none of  *)
(* the checks that precede it.                                             *)
(***************************************************************************)
EXTENDS Integers

CONSTANTS
    Ids,        \* bound: the AppRelease rows that may be created
    Uploads,    \* bound: the upload ids, each names one object of the storage
    Workers,    \* bound: the requests in progress at one time
    MaxVersion, \* bound: version codes are 1 .. MaxVersion
    None        \* no object, no value

ASSUME ReleasesAssumption ==
    /\ MaxVersion \in Nat \ {0}
    /\ None \notin Ids \cup Uploads \cup (0 .. MaxVersion)

VARIABLES
    row,        \* AppRelease by id
    apk,        \* the version code of the stored APK by upload id, None if no
                \* object
    legacy,     \* AppVersion.latestVersion, 0 at first
    req         \* the requests in progress

vars == <<row, apk, legacy, req>>

Versions == 1 .. MaxVersion
Kept == {"DRAFT", "PUBLISHED", "ARCHIVED"}
Statuses == Kept \cup {"none", "gone"}
Rows == [status : Statuses, version : 0 .. MaxVersion,
         object : Uploads \cup {None}, purged : BOOLEAN]
NoRow == [status |-> "none", version |-> 0, object |-> None, purged |-> FALSE]

\* Where a request is, and what it has read: a release with its object and its
\* status at that time, the version code it is about, the one published.
Stages == {"idle", "inspect", "lookup", "unlink", "upsert", "discard",
           "version", "head", "commit", "sync", "archive", "erase", "drop",
           "wipe", "mark"}
Requests == [pc : Stages, id : Ids \cup {None}, object : Uploads \cup {None},
             up : Uploads \cup {None}, version : 0 .. MaxVersion,
             seen : Statuses, top : 0 .. MaxVersion]
Idle == [pc |-> "idle", id |-> None, object |-> None, up |-> None,
         version |-> 0, seen |-> "none", top |-> 0]

TypeOK ==
    /\ row \in [Ids -> Rows]
    /\ apk \in [Uploads -> {None} \cup Versions]
    /\ legacy \in 0 .. MaxVersion
    /\ req \in [Workers -> Requests]

Init ==
    /\ row = [i \in Ids |-> NoRow]
    /\ apk = [u \in Uploads |-> None]
    /\ legacy = 0
    /\ req = [w \in Workers |-> Idle]

-----------------------------------------------------------------------------
\* A definition whose comment begins with "Mutant:" is a wrong version of the
\* definition that follows it.  Nothing uses it: it stands for a bug the
\* properties must notice.

Exists(i) == row[i].status \in Kept
Published == {i \in Ids : row[i].status = "PUBLISHED"}

\* v is the highest published version code, 0 if nothing is published.
IsLatest(v) ==
    /\ \A i \in Published : row[i].version <= v
    /\ v = 0 \/ \E i \in Published : row[i].version = v

\* GET /app/update offers a published release whose artifact is not marked as
\* deleted; POST /app/releases/:id/download then needs its object.
Offered == {i \in Published : ~row[i].purged}

At(w, stage) == req[w].pc = stage
Goto(w, stage) == req' = [req EXCEPT ![w].pc = stage]
Finish(w) == req' = [req EXCEPT ![w] = Idle]

\* A request reads row i before it does anything.
Seen(i, stage) == [Idle EXCEPT !.pc = stage, !.id = i, !.seen = row[i].status]
SeenWithFile(i, stage) == [Seen(i, stage) EXCEPT !.object = row[i].object]

\* The storage may fail, and then keeps the object.
Remove(u) == apk' = [apk EXCEPT ![u] = None]

-----------------------------------------------------------------------------
\* Upload and finalize.

\* createUploadAuthorization names a new object and lets the browser put it, over
\* an older file if there is one.  The backend keeps nothing of it; when an
\* authorization ends is not modelled.
PutApk(u, v) ==
    /\ apk' = [apk EXCEPT ![u] = v]
    /\ UNCHANGED <<row, legacy, req>>

\* finalizeUpload reads the object ...
ReadApk(w, u) ==
    /\ At(w, "idle")
    /\ apk[u] # None
    /\ req' = [req EXCEPT ![w] = [Idle EXCEPT !.pc = "inspect", !.up = u,
                                             !.version = apk[u]]]
    /\ UNCHANGED <<row, apk, legacy>>

\* ... which the inspection refuses, for what it holds or for the package and the
\* certificate that are configured by now ...
RefuseApk(w) ==
    /\ At(w, "inspect")
    /\ Goto(w, "discard")
    /\ UNCHANGED <<row, apk, legacy>>

\* ... or which is compared with the published release.
CompareWithLatest(w) ==
    /\ At(w, "inspect")
    /\ \E v \in 0 .. MaxVersion :
         /\ IsLatest(v)
         /\ Goto(w, IF req[w].version <= v THEN "discard" ELSE "lookup")
    /\ UNCHANGED <<row, apk, legacy>>

OfVersion(v) == {i \in Ids : Exists(i) /\ row[i].version = v}

\* A release of the same version code must be a draft; its old file goes.
StageOver(i, u) ==
    CASE row[i].status # "DRAFT" -> "discard"
      [] row[i].status = "DRAFT" /\ row[i].object # u -> "unlink"
      [] OTHER -> "upsert"

LookupVersion(w) ==
    /\ At(w, "lookup")
    /\ \/ /\ OfVersion(req[w].version) = {}
          /\ Goto(w, "upsert")
       \/ \E i \in OfVersion(req[w].version) :
            req' = [req EXCEPT ![w].pc = StageOver(i, req[w].up),
                               ![w].object = row[i].object,
                               ![w].seen = row[i].status]
    /\ UNCHANGED <<row, apk, legacy>>

\* A failure to delete is ignored.
DeleteReplaced(w) ==
    /\ At(w, "unlink")
    /\ Remove(req[w].object) \/ UNCHANGED apk
    /\ req' = [req EXCEPT ![w].pc = "upsert", ![w].object = None]
    /\ UNCHANGED <<row, legacy>>

DiscardUpload(w) ==
    /\ At(w, "discard")
    /\ Remove(req[w].up) \/ UNCHANGED apk
    /\ Finish(w)
    /\ UNCHANGED <<row, legacy>>

\* The row is found by its version code again, whatever its status is by now.
UpsertRelease(w) ==
    /\ At(w, "upsert")
    /\ \/ \E i \in OfVersion(req[w].version) :
            row' = [row EXCEPT ![i].status = "DRAFT", ![i].object = req[w].up]
       \/ /\ OfVersion(req[w].version) = {}
          /\ \E i \in Ids :
               /\ row[i] = NoRow
               /\ row' = [row EXCEPT ![i] =
                            [status |-> "DRAFT", version |-> req[w].version,
                             object |-> req[w].up, purged |-> FALSE]]
    /\ Finish(w)
    /\ UNCHANGED <<apk, legacy>>

-----------------------------------------------------------------------------
\* Publish.

ReadForPublish(w, i) ==
    /\ At(w, "idle")
    /\ row[i].status = "DRAFT" /\ ~row[i].purged
    /\ req' = [req EXCEPT ![w] = [SeenWithFile(i, "version") EXCEPT
                                    !.version = row[i].version]]
    /\ UNCHANGED <<row, apk, legacy>>

CheckVersion(w) ==
    /\ At(w, "version")
    /\ \E v \in 0 .. MaxVersion :
         /\ IsLatest(v)
         /\ IF req[w].version <= v
            THEN Finish(w)
            ELSE req' = [req EXCEPT ![w].pc = "head", ![w].top = v]
    /\ UNCHANGED <<row, apk, legacy>>

CheckFile(w) ==
    /\ At(w, "head")
    /\ IF apk[req[w].object] = None THEN Finish(w) ELSE Goto(w, "commit")
    /\ UNCHANGED <<row, apk, legacy>>

\* All other published releases are archived.  The update is by id alone.
ArchiveOthers(i) ==
    [j \in Ids |-> IF j = i THEN [row[j] EXCEPT !.status = "PUBLISHED"]
                   ELSE IF j \in Published
                        THEN [row[j] EXCEPT !.status = "ARCHIVED"] ELSE row[j]]

\* One transaction.  The count of published releases that ends it finds one.
Publish(w) ==
    /\ At(w, "commit")
    /\ \/ /\ Exists(req[w].id)
          /\ row' = ArchiveOthers(req[w].id)
          /\ req' = [req EXCEPT ![w] = [Idle EXCEPT !.pc = "sync",
                                          !.version = req[w].version]]
       \/ ~Exists(req[w].id) /\ Finish(w) /\ UNCHANGED row
    /\ UNCHANGED <<apk, legacy>>

\* After the commit, in a call of its own.
SyncLegacyAppVersion(w) ==
    /\ At(w, "sync")
    /\ legacy' = req[w].version
    /\ Finish(w)
    /\ UNCHANGED <<row, apk>>

-----------------------------------------------------------------------------
\* Archive, delete a draft, purge the file.  Each writes by id alone, and fails
\* if the row is gone.

Write(w, fields) ==
    /\ \/ Exists(req[w].id) /\ row' = [row EXCEPT ![req[w].id] = fields]
       \/ ~Exists(req[w].id) /\ UNCHANGED row
    /\ Finish(w)
    /\ UNCHANGED <<apk, legacy>>

\* Mutant: the current release may be archived.
ReadAnyForArchive(w, i) ==
    /\ At(w, "idle")
    /\ Exists(i)
    /\ req' = [req EXCEPT ![w] = Seen(i, "archive")]
    /\ UNCHANGED <<row, apk, legacy>>

ReadForArchive(w, i) ==
    /\ At(w, "idle")
    /\ Exists(i) /\ i \notin Published
    /\ req' = [req EXCEPT ![w] = Seen(i, "archive")]
    /\ UNCHANGED <<row, apk, legacy>>

Archive(w) ==
    /\ At(w, "archive")
    /\ Write(w, [row[req[w].id] EXCEPT !.status = "ARCHIVED"])

ReadForDelete(w, i) ==
    /\ At(w, "idle")
    /\ row[i].status = "DRAFT"
    /\ req' = [req EXCEPT ![w] = SeenWithFile(i, "erase")]
    /\ UNCHANGED <<row, apk, legacy>>

\* Mutant: any release may lose its file.
ReadAnyForPurge(w, i) ==
    /\ At(w, "idle")
    /\ Exists(i)
    /\ req' = [req EXCEPT ![w] = SeenWithFile(i, "wipe")]
    /\ UNCHANGED <<row, apk, legacy>>

ReadForPurge(w, i) ==
    /\ At(w, "idle")
    /\ row[i].status = "ARCHIVED" /\ ~row[i].purged
    /\ req' = [req EXCEPT ![w] = SeenWithFile(i, "wipe")]
    /\ UNCHANGED <<row, apk, legacy>>

\* Both delete the file first, and give up if that fails.
DeleteFile(w) ==
    /\ At(w, "erase") \/ At(w, "wipe")
    /\ \/ /\ Remove(req[w].object)
          /\ Goto(w, IF At(w, "erase") THEN "drop" ELSE "mark")
       \/ Finish(w) /\ UNCHANGED apk
    /\ UNCHANGED <<row, legacy>>

DropDraft(w) ==
    /\ At(w, "drop")
    /\ Write(w, [NoRow EXCEPT !.status = "gone"])

\* The row stays in the history of releases.
MarkPurged(w) ==
    /\ At(w, "mark")
    /\ Write(w, [row[req[w].id] EXCEPT !.status = "ARCHIVED", !.purged = TRUE])

\* A request may stop between two calls.
Crash(w) ==
    /\ ~At(w, "idle")
    /\ Finish(w)
    /\ UNCHANGED <<row, apk, legacy>>

-----------------------------------------------------------------------------
Begin(w) ==
    \/ \E u \in Uploads : ReadApk(w, u)
    \/ \E i \in Ids : \/ ReadForPublish(w, i) \/ ReadForArchive(w, i)
                      \/ ReadForDelete(w, i) \/ ReadForPurge(w, i)

Continue(w) ==
    \/ CompareWithLatest(w) \/ RefuseApk(w) \/ LookupVersion(w) \/ DeleteReplaced(w)
    \/ DiscardUpload(w) \/ UpsertRelease(w)
    \/ CheckVersion(w) \/ CheckFile(w) \/ Publish(w) \/ SyncLegacyAppVersion(w)
    \/ Archive(w) \/ DeleteFile(w) \/ DropDraft(w) \/ MarkPurged(w)

Next ==
    \/ \E u \in Uploads, v \in Versions : PutApk(u, v)
    \/ \E w \in Workers : Begin(w) \/ Continue(w) \/ Crash(w)

Spec == Init /\ [][Next]_vars

-----------------------------------------------------------------------------
\* Safety.

\* "At most one PUBLISHED release per platform", whatever requests overlap.
OnePublished == \A i, j \in Published : i = j

\* The request that takes the step has not seen that release i is published.
Unaware(i) ==
    \E w \in Workers :
        /\ req'[w] # req[w]
        /\ \/ At(w, "commit") /\ req[w].top < row[i].version
           \/ ~At(w, "commit") /\ req[w].seen # "PUBLISHED"

\* The published release gives way to a newer one only, or to a request that
\* was checked before it was published: no sequence of calls withdraws it or
\* goes back to an older version.
GivesWayToNewer ==
    \A i \in Published \ Published' :
        (\E j \in Published' : row'[j].version > row[i].version) \/ Unaware(i)
WithdrawnByNewer == [][GivesWayToNewer]_vars

\* A release that was published or archived is not a draft again and is not
\* deleted, except by a request that saw it as a draft or did not see it.
LeavesDraftForGood ==
    \A i \in Ids :
        row[i].status \in {"PUBLISHED", "ARCHIVED"}
          /\ row'[i].status \in {"DRAFT", "gone"} =>
            \E w \in Workers : /\ req[w].pc \in {"upsert", "drop"}
                               /\ req'[w] # req[w]
                               /\ req[w].seen \in {"DRAFT", "none"}
HistoryKept == [][LeavesDraftForGood]_vars
=============================================================================
