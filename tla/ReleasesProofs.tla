--------------------------- MODULE ReleasesProofs ---------------------------
(***************************************************************************)
(* The releases, for every number of rows, uploads, versions and requests: *)
(* types, the single published release, and what may withdraw it.  Then    *)
(* the way of an update from the page to a phone, which is built on them:  *)
(* the file a phone is sent is the one whose hash it was told, an upload   *)
(* that waits is not forgotten, and the file of the current release stays. *)
(***************************************************************************)
EXTENDS AppUpdates, TLAPS

\* What a request has found out by the stage it is at, and what of it still
\* holds: a row keeps its version code, and a deleted one does not come back.
Checked(w) ==
    /\ req[w].pc \in {"version", "head", "commit", "archive", "erase", "drop",
                      "wipe", "mark"}
         => req[w].id \in Ids /\ row[req[w].id].status # "none"
    /\ req[w].pc \in {"version", "head", "commit"} /\ Exists(req[w].id)
         => row[req[w].id].version = req[w].version
    /\ req[w].pc \in {"head", "commit"} => req[w].top < req[w].version
    /\ req[w].pc \in {"inspect", "lookup"} => req[w].seen = "none"
    /\ req[w].pc \in {"unlink", "upsert"} => req[w].seen \in {"none", "DRAFT"}
    /\ req[w].pc \in {"erase", "drop"} => req[w].seen = "DRAFT"
    /\ req[w].pc \in {"archive", "wipe", "mark"} => req[w].seen # "PUBLISHED"

IInv ==
    /\ TypeOK
    /\ OnePublished
    /\ \A w \in Workers : Checked(w)

-----------------------------------------------------------------------------
\* Five steps write the table of releases.
RowStep ==
    \E w \in Workers : \/ UpsertRelease(w) \/ Publish(w) \/ Archive(w)
                       \/ DropDraft(w) \/ MarkPurged(w)

LEMMA RowSteps == [Next]_vars => RowStep \/ UNCHANGED row
  BY DEF Next, Begin, Continue, vars, RowStep, PutApk, ReadApk, RefuseApk,
         CompareWithLatest, LookupVersion, DeleteReplaced, DiscardUpload,
         ReadForPublish, CheckVersion, CheckFile, SyncLegacyAppVersion,
         ReadForArchive, ReadForDelete, ReadForPurge, DeleteFile, Crash

\* What those steps make of a row.
Becomes(i) ==
    \/ row'[i] = row[i]
    \/ row[i] = NoRow /\ row'[i].status = "DRAFT"
    \/ /\ Exists(i)
       /\ \/ Exists(i)' /\ row'[i].version = row[i].version
          \/ row'[i].status = "gone"

LEMMA RowTypes ==
    ASSUME IInv, [Next]_vars
    PROVE  row' \in [Ids -> Rows] /\ \A i \in Ids : Becomes(i)
<1>t. /\ row \in [Ids -> Rows] /\ req \in [Workers -> Requests]
      /\ \A w \in Workers : Checked(w)
  BY DEF IInv, TypeOK
<1>1. ASSUME NEW w \in Workers, UpsertRelease(w)
      PROVE  row' \in [Ids -> Rows] /\ \A i \in Ids : Becomes(i)
  <2>1. req[w].up \in Uploads \cup {None} /\ req[w].version \in 0 .. MaxVersion
    BY <1>t DEF Requests
  <2>2. CASE \E i \in OfVersion(req[w].version) :
               row' = [row EXCEPT ![i].status = "DRAFT", ![i].object = req[w].up]
    <3>1. PICK i \in OfVersion(req[w].version) :
               row' = [row EXCEPT ![i].status = "DRAFT", ![i].object = req[w].up]
      BY <2>2
    <3>2. i \in Ids /\ Exists(i) /\ row[i] \in Rows
      BY <1>t DEF OfVersion
    <3>3. row' = [row EXCEPT ![i] = [row[i] EXCEPT !.status = "DRAFT",
                                                 !.object = req[w].up]]
      BY <3>1, <3>2, <1>t
    <3>4. [row[i] EXCEPT !.status = "DRAFT", !.object = req[w].up] \in Rows
      BY <2>1, <3>2 DEF Rows, Statuses, Kept
    <3>5. row' \in [Ids -> Rows]
      BY <3>2, <3>3, <3>4, <1>t
    <3>6. \A j \in Ids : Becomes(j)
      BY <3>2, <3>3, <1>t DEF Becomes, Exists, Kept, Rows
    <3> QED
      BY <3>5, <3>6
  <2>3. CASE \E i \in Ids :
               /\ row[i] = NoRow
               /\ row' = [row EXCEPT ![i] =
                            [status |-> "DRAFT", version |-> req[w].version,
                             object |-> req[w].up, purged |-> FALSE]]
    <3>1. [status |-> "DRAFT", version |-> req[w].version,
           object |-> req[w].up, purged |-> FALSE] \in Rows
      BY <2>1 DEF Rows, Statuses, Kept
    <3> QED
      BY <1>t, <2>3, <3>1 DEF Becomes
  <2> QED
    BY <1>1, <2>2, <2>3 DEF UpsertRelease
<1>2. ASSUME NEW w \in Workers, Publish(w)
      PROVE  row' \in [Ids -> Rows] /\ \A i \in Ids : Becomes(i)
  <2>1. CASE Exists(req[w].id) /\ row' = ArchiveOthers(req[w].id)
    BY <1>t, <2>1 DEF ArchiveOthers, Published, Becomes, Exists, Kept, Rows,
                      Statuses
  <2>2. CASE UNCHANGED row
    BY <1>t, <2>2 DEF Becomes
  <2> QED
    BY <1>2, <2>1, <2>2 DEF Publish
<1>3. ASSUME NEW w \in Workers, Archive(w) \/ MarkPurged(w)
      PROVE  row' \in [Ids -> Rows] /\ \A i \in Ids : Becomes(i)
  <2>i. req[w].id \in Ids
    BY <1>3, <1>t DEF Checked, Archive, MarkPurged, At
  <2>1. CASE Archive(w)
    BY <1>t, <2>1, <2>i DEF Archive, Write, Becomes, Exists, Kept, Rows, Statuses
  <2>2. CASE MarkPurged(w)
    <3>1. row[req[w].id] \in Rows
      BY <1>t, <2>i
    <3>2. [row[req[w].id] EXCEPT !.status = "ARCHIVED", !.purged = TRUE] \in Rows
      BY <3>1 DEF Rows, Statuses, Kept
    <3>3. row' \in [Ids -> Rows]
      BY <1>t, <2>2, <3>2 DEF MarkPurged, Write
    <3>4. [row[req[w].id] EXCEPT !.status = "ARCHIVED", !.purged = TRUE].status
            = "ARCHIVED"
      BY <3>1 DEF Rows
    <3>5. [row[req[w].id] EXCEPT !.status = "ARCHIVED", !.purged = TRUE].version
            = row[req[w].id].version
      BY <3>1 DEF Rows
    <3>6. \A i \in Ids : Becomes(i)
      BY <1>t, <2>2, <2>i, <3>4, <3>5 DEF MarkPurged, Write, Becomes, Exists, Kept
    <3> QED
      BY <3>3, <3>6
  <2> QED
    BY <1>3, <2>1, <2>2
<1>4. ASSUME NEW w \in Workers, DropDraft(w)
      PROVE  row' \in [Ids -> Rows] /\ \A i \in Ids : Becomes(i)
  <2>1. req[w].id \in Ids
    BY <1>4, <1>t DEF Checked, DropDraft, At
  <2>2. 0 \in 0 .. MaxVersion
    BY ReleasesAssumption
  <2>3. [NoRow EXCEPT !.status = "gone"] \in Rows
    BY <2>2 DEF NoRow, Rows, Statuses
  <2> QED
    BY <1>4, <1>t, <2>1, <2>3 DEF DropDraft, Write, Becomes, NoRow
<1>5. CASE UNCHANGED row
  BY <1>5, <1>t DEF Becomes
<1> QED
  BY <1>1, <1>2, <1>3, <1>4, <1>5, RowSteps DEF RowStep

-----------------------------------------------------------------------------
\* What a request has checked, it has checked for as long as it waits.
LEMMA CheckedWaits ==
    ASSUME IInv, [Next]_vars, NEW w \in Workers, req'[w] = req[w]
    PROVE  Checked(w)'
<1>t. /\ row \in [Ids -> Rows] /\ Checked(w)
      /\ \A i \in Ids : Becomes(i)
  BY RowTypes DEF IInv, TypeOK
<1> QED
  BY <1>t DEF Checked, Becomes, Exists, Kept, NoRow

\* Changes of a request, each keeping its type and what it has checked.
Steps(w) ==
    \/ \E u \in Uploads : ReadApk(w, u)
    \/ \E i \in Ids : \/ ReadForPublish(w, i) \/ ReadForArchive(w, i)
                      \/ ReadForDelete(w, i) \/ ReadForPurge(w, i)
    \/ Continue(w)
    \/ Crash(w)

LEMMA RequestSteps ==
    ASSUME [Next]_vars
    PROVE  UNCHANGED req \/ \E w \in Workers : Steps(w)
  BY DEF Next, Begin, Steps, vars, PutApk

LEMMA IdleChecked ==
    ASSUME NEW w \in Workers, req'[w] = Idle
    PROVE  Checked(w)'
  BY DEF Checked, Idle

LEMMA IdleTyped == Idle \in Requests
<1>1. 0 \in 0 .. MaxVersion
  BY ReleasesAssumption
<1> QED
  BY <1>1 DEF Idle, Requests, Stages, Statuses

LEMMA StageTypes ==
    ASSUME IInv, NEW w \in Workers
    PROVE  /\ Finish(w) => req' \in [Workers -> Requests]
           /\ \A s \in Stages : Goto(w, s) => req' \in [Workers -> Requests]
           /\ \A s \in Stages, i \in Ids :
                Seen(i, s) \in Requests /\ SeenWithFile(i, s) \in Requests
<1>t. row \in [Ids -> Rows] /\ req \in [Workers -> Requests]
  BY DEF IInv, TypeOK
<1>1. Finish(w) => req' \in [Workers -> Requests]
  BY <1>t, IdleTyped DEF Finish
<1>2. ASSUME NEW s \in Stages, Goto(w, s)
      PROVE  req' \in [Workers -> Requests]
  BY <1>2, <1>t DEF Goto, Requests
<1>3. ASSUME NEW s \in Stages, NEW i \in Ids
      PROVE  Seen(i, s) \in Requests /\ SeenWithFile(i, s) \in Requests
  BY <1>t, IdleTyped DEF Seen, SeenWithFile, Rows, Requests, Idle
<1> QED
  BY <1>1, <1>2, <1>3

LEMMA RequestsStep ==
    ASSUME IInv, [Next]_vars
    PROVE  /\ req' \in [Workers -> Requests]
           /\ \A w \in Workers : Checked(w)'
<1>t. /\ row \in [Ids -> Rows] /\ req \in [Workers -> Requests]
      /\ apk \in [Uploads -> {None} \cup Versions]
      /\ \A w \in Workers : Checked(w)
  BY DEF IInv, TypeOK
<1>r. \A i \in Ids : Becomes(i)
  BY RowTypes
<1>w. ASSUME NEW w \in Workers, Steps(w)
      PROVE  /\ req' = [req EXCEPT ![w] = req'[w]]
             /\ req'[w] \in Requests
             /\ Checked(w)'
  <2>1. CASE Finish(w) \/ Crash(w)
    BY <2>1, <1>t, IdleTyped, IdleChecked DEF Finish, Crash
  <2>2. ASSUME NEW u \in Uploads, ReadApk(w, u)
        PROVE  /\ req' = [req EXCEPT ![w] = req'[w]]
               /\ req'[w] \in Requests
               /\ Checked(w)'
    <3>1. apk[u] \in 0 .. MaxVersion
      BY <2>2, <1>t, ReleasesAssumption DEF ReadApk, Versions
    <3>2. [Idle EXCEPT !.pc = "inspect", !.up = u, !.version = apk[u]] \in Requests
      BY <3>1, IdleTyped DEF Idle, Requests, Stages
    <3> QED
      BY <2>2, <3>2, <1>t DEF ReadApk, Checked, Idle
  <2>3. ASSUME NEW i \in Ids, ReadForPublish(w, i)
        PROVE  /\ req' = [req EXCEPT ![w] = req'[w]]
               /\ req'[w] \in Requests
               /\ Checked(w)'
    <3>1. /\ SeenWithFile(i, "version") \in Requests
          /\ row[i].version \in 0 .. MaxVersion
      BY <1>t, StageTypes DEF Stages, Rows
    <3>2. [SeenWithFile(i, "version") EXCEPT !.version = row[i].version] \in Requests
      BY <3>1 DEF Requests
    <3> QED
      BY <2>3, <3>2, <1>t DEF ReadForPublish, Checked, SeenWithFile, Seen, Idle,
                              Exists
  <2>4. ASSUME NEW i \in Ids,
               ReadForArchive(w, i) \/ ReadForDelete(w, i) \/ ReadForPurge(w, i)
        PROVE  /\ req' = [req EXCEPT ![w] = req'[w]]
               /\ req'[w] \in Requests
               /\ Checked(w)'
    <3>1. /\ Seen(i, "archive") \in Requests
          /\ SeenWithFile(i, "erase") \in Requests
          /\ SeenWithFile(i, "wipe") \in Requests
      BY StageTypes DEF Stages
    <3>2. CASE ReadForArchive(w, i)
      BY <3>1, <3>2, <1>t DEF ReadForArchive, Checked, Seen, Idle, Exists, Kept,
                              Published
    <3>3. CASE ReadForDelete(w, i)
      BY <3>1, <3>3, <1>t DEF ReadForDelete, Checked, SeenWithFile, Seen, Idle
    <3>4. CASE ReadForPurge(w, i)
      BY <3>1, <3>4, <1>t DEF ReadForPurge, Checked, SeenWithFile, Seen, Idle
    <3> QED
      BY <2>4, <3>2, <3>3, <3>4
  <2>5. CASE \/ RefuseApk(w) \/ CompareWithLatest(w) \/ CheckFile(w)
    <3>1. \/ Finish(w)
          \/ At(w, "inspect") /\ Goto(w, "discard")
          \/ At(w, "inspect") /\ Goto(w, "lookup")
          \/ At(w, "head") /\ Goto(w, "commit")
      BY <2>5 DEF RefuseApk, CompareWithLatest, CheckFile
    <3>2. CASE ~Finish(w)
      <4>1. UNCHANGED row
        BY <2>5 DEF RefuseApk, CompareWithLatest, CheckFile
      <4> QED
        BY <3>1, <3>2, <4>1, <1>t DEF At, Goto, Checked, Requests, Stages, Exists
    <3> QED
      BY <2>1, <3>2
  <2>6. CASE LookupVersion(w)
    <3>1. CASE Goto(w, "upsert")
      <4>1. req[w].pc = "lookup" /\ req[w].seen = "none"
        BY <2>6, <1>t DEF LookupVersion, At, Checked
      <4> QED
        BY <4>1, <3>1, <1>t DEF Goto, Checked, Requests, Stages
    <3>2. ASSUME NEW i \in OfVersion(req[w].version),
                 req' = [req EXCEPT ![w].pc = StageOver(i, req[w].up),
                                    ![w].object = row[i].object,
                                    ![w].seen = row[i].status]
          PROVE  req'[w] \in Requests /\ Checked(w)'
      <4>1. row[i].object \in Uploads \cup {None} /\ row[i].status \in Statuses
        BY <1>t DEF OfVersion, Rows
      <4>2. /\ StageOver(i, req[w].up) \in {"discard", "unlink", "upsert"}
            /\ StageOver(i, req[w].up) # "discard" => row[i].status = "DRAFT"
        BY DEF StageOver
      <4> QED
        <5>1. req'[w] = [req[w] EXCEPT !.pc = StageOver(i, req[w].up),
                                       !.object = row[i].object,
                                       !.seen = row[i].status]
          BY <3>2, <1>t
        <5>2. req'[w] \in Requests
          BY <5>1, <4>1, <4>2, <1>t DEF Requests, Stages
        <5>3. /\ req'[w].pc \in {"discard", "unlink", "upsert"}
              /\ req'[w].pc # "discard" => req'[w].seen = "DRAFT"
          BY <5>1, <4>2, <1>t DEF Requests
        <5>4. Checked(w)'
          BY <5>3 DEF Checked
        <5> QED
          BY <5>2, <5>4
    <3>3. ASSUME NEW i \in OfVersion(req[w].version),
                 req' = [req EXCEPT ![w].pc = StageOver(i, req[w].up),
                                    ![w].object = row[i].object,
                                    ![w].seen = row[i].status]
          PROVE  req' = [req EXCEPT ![w] = req'[w]]
      BY <3>3, <1>t
    <3> QED
      BY <2>6, <3>1, <3>2, <3>3, <1>t DEF LookupVersion, Goto
  <2>7. CASE DeleteReplaced(w)
    BY <2>7, <1>t DEF DeleteReplaced, At, Checked, Requests, Stages
  <2>8. CASE CheckVersion(w)
    <3>1. CASE ~Finish(w)
      BY <2>8, <3>1, <1>t DEF CheckVersion, At, Checked, Requests, Stages, Exists
    <3> QED
      BY <2>1, <3>1
  <2>9. CASE Publish(w)
    <3>1. CASE ~Finish(w)
      <4>1. req' = [req EXCEPT ![w] = [Idle EXCEPT !.pc = "sync",
                                          !.version = req[w].version]]
        BY <2>9, <3>1 DEF Publish
      <4>2. [Idle EXCEPT !.pc = "sync", !.version = req[w].version] \in Requests
        BY <1>t, IdleTyped DEF Idle, Requests, Stages
      <4> QED
        BY <4>1, <4>2, <1>t DEF Checked, Idle
    <3> QED
      BY <2>1, <3>1
  <2>10. CASE DeleteFile(w)
    <3>1. CASE ~Finish(w)
      BY <2>10, <3>1, <1>t DEF DeleteFile, Goto, At, Checked, Requests, Stages,
                               Exists
    <3> QED
      BY <2>1, <3>1
  <2>11. CASE \/ DiscardUpload(w) \/ UpsertRelease(w) \/ SyncLegacyAppVersion(w)
              \/ Archive(w) \/ DropDraft(w) \/ MarkPurged(w)
    BY <2>1, <2>11 DEF DiscardUpload, UpsertRelease, SyncLegacyAppVersion,
                       Archive, DropDraft, MarkPurged, Write
  <2> QED
    BY <1>w, <2>1, <2>2, <2>3, <2>4, <2>5, <2>6, <2>7, <2>8, <2>9, <2>10, <2>11
       DEF Steps, Continue
<1>1. CASE UNCHANGED req
  BY <1>1, <1>t, CheckedWaits
<1>2. CASE \E w \in Workers : Steps(w)
  <2>1. PICK w \in Workers : /\ req' = [req EXCEPT ![w] = req'[w]]
                             /\ req'[w] \in Requests
                             /\ Checked(w)'
    BY <1>2, <1>w
  <2>2. req' \in [Workers -> Requests]
    BY <2>1, <1>t
  <2>3. ASSUME NEW v \in Workers, v # w
        PROVE  Checked(v)'
    <3>1. req'[v] = req[v]
      BY <2>1, <2>3, <1>t
    <3> QED
      BY <3>1, CheckedWaits
  <2> QED
    BY <2>1, <2>2, <2>3
<1> QED
  BY <1>1, <1>2, RequestSteps

-----------------------------------------------------------------------------
\* The table holds one published release at most.
LEMMA OneStep ==
    ASSUME IInv, [Next]_vars
    PROVE  OnePublished'
<1>t. /\ row \in [Ids -> Rows] /\ OnePublished
      /\ \A w \in Workers : Checked(w)
  BY DEF IInv, TypeOK
<1>1. ASSUME NEW w \in Workers, Publish(w)
      PROVE  OnePublished'
  <2>1. CASE row' = ArchiveOthers(req[w].id)
    <3>1. \A i \in Ids : i # req[w].id => row'[i].status # "PUBLISHED"
      BY <2>1, <1>t DEF ArchiveOthers, Published, Rows
    <3> QED
      BY <3>1 DEF OnePublished, Published
  <2>2. CASE UNCHANGED row
    BY <2>2, <1>t DEF OnePublished, Published
  <2> QED
    BY <1>1, <2>1, <2>2 DEF Publish
<1>2. ASSUME \A i \in Ids : row'[i].status = "PUBLISHED" => i \in Published
      PROVE  OnePublished'
  BY <1>2, <1>t DEF OnePublished, Published
<1>3. ASSUME NEW w \in Workers,
             UpsertRelease(w) \/ Archive(w) \/ DropDraft(w) \/ MarkPurged(w)
      PROVE  OnePublished'
  <2>1. ASSUME NEW i \in Ids, row'[i].status = "PUBLISHED"
        PROVE  i \in Published
    <3>1. CASE UpsertRelease(w)
      <4>1. PICK j \in Ids : /\ \A k \in Ids : k # j => row'[k] = row[k]
                             /\ row'[j].status = "DRAFT"
        <5>1. CASE \E j \in OfVersion(req[w].version) :
                     row' = [row EXCEPT ![j].status = "DRAFT",
                                        ![j].object = req[w].up]
          BY <5>1, <1>t DEF OfVersion, Rows
        <5>2. CASE \E j \in Ids :
                     row' = [row EXCEPT ![j] =
                            [status |-> "DRAFT", version |-> req[w].version,
                             object |-> req[w].up, purged |-> FALSE]]
          BY <5>2, <1>t
        <5> QED
          BY <3>1, <5>1, <5>2 DEF UpsertRelease
      <4> QED
        BY <4>1, <2>1 DEF Published
    <3>2. ASSUME NEW r, Write(w, r), r.status # "PUBLISHED"
          PROVE  i \in Published
      BY <3>2, <1>t, <2>1 DEF Write, Published
    <3>3. CASE Archive(w)
      <4>1. req[w].id \in Ids
        BY <3>3, <1>t DEF Archive, At, Checked
      <4>2. [row[req[w].id] EXCEPT !.status = "ARCHIVED"].status = "ARCHIVED"
        BY <4>1, <1>t DEF Rows
      <4> QED
        BY <3>3, <4>2, <3>2 DEF Archive
    <3>4. CASE MarkPurged(w)
      <4>1. req[w].id \in Ids
        BY <3>4, <1>t DEF MarkPurged, At, Checked
      <4>2. [row[req[w].id] EXCEPT !.status = "ARCHIVED", !.purged = TRUE].status
              = "ARCHIVED"
        BY <4>1, <1>t DEF Rows
      <4> QED
        BY <3>4, <4>2, <3>2 DEF MarkPurged
    <3>5. CASE DropDraft(w)
      <4>1. [NoRow EXCEPT !.status = "gone"].status = "gone"
        BY DEF NoRow
      <4> QED
        BY <3>5, <4>1, <3>2 DEF DropDraft
    <3> QED
      BY <1>3, <3>1, <3>3, <3>4, <3>5
  <2> QED
    BY <2>1, <1>2
<1>4. CASE UNCHANGED row
  BY <1>4, <1>t DEF OnePublished, Published
<1> QED
  BY <1>1, <1>3, <1>4, RowSteps DEF RowStep

LEMMA OtherTypes ==
    ASSUME IInv, [Next]_vars
    PROVE  /\ apk' \in [Uploads -> {None} \cup Versions]
           /\ legacy' \in 0 .. MaxVersion
<1>t. /\ apk \in [Uploads -> {None} \cup Versions]
      /\ legacy \in 0 .. MaxVersion /\ req \in [Workers -> Requests]
  BY DEF IInv, TypeOK
<1>1. /\ \/ \E u \in Uploads, v \in Versions : apk' = [apk EXCEPT ![u] = v]
         \/ \E w \in Workers : Remove(req[w].object) \/ Remove(req[w].up)
         \/ UNCHANGED apk
      /\ UNCHANGED legacy \/ \E w \in Workers : legacy' = req[w].version
  BY DEF Next, Begin, Continue, vars, PutApk, ReadApk, RefuseApk,
         CompareWithLatest, LookupVersion, DeleteReplaced, DiscardUpload,
         UpsertRelease, ReadForPublish, CheckVersion, CheckFile, Publish,
         SyncLegacyAppVersion, ReadForArchive, Archive, ReadForDelete,
         ReadForPurge, DeleteFile, DropDraft, MarkPurged, Write, Crash
<1>2. apk' \in [Uploads -> {None} \cup Versions]
  BY <1>1, <1>t DEF Remove
<1>3. legacy' \in 0 .. MaxVersion
  BY <1>1, <1>t DEF Requests
<1> QED
  BY <1>2, <1>3

LEMMA InitInvariant == Init => IInv
<1> SUFFICES ASSUME Init PROVE IInv
  OBVIOUS
<1>1. 0 \in 0 .. MaxVersion
  BY ReleasesAssumption
<1>2. NoRow \in Rows
  BY <1>1 DEF NoRow, Rows, Statuses
<1>3. TypeOK
  BY <1>1, <1>2, IdleTyped DEF Init, TypeOK
<1>4. OnePublished
  BY DEF Init, OnePublished, Published, NoRow
<1>5. \A w \in Workers : Checked(w)
  BY DEF Init, Checked, Idle
<1> QED
  BY <1>3, <1>4, <1>5 DEF IInv

\* Requests rely on their checks; the invariant says which of them last.
THEOREM Invariance == Spec => []IInv
<1>1. IInv /\ [Next]_vars => IInv'
  BY RowTypes, RequestsStep, OneStep, OtherTypes DEF IInv, TypeOK
<1> QED
  BY InitInvariant, <1>1, PTL DEF Spec

\* Every reachable state is of the types of TypeOK.
THEOREM TypeCorrect == Spec => []TypeOK
<1>1. IInv => TypeOK
  BY DEF IInv
<1> QED
  BY Invariance, <1>1, PTL

\* However requests overlap, one release is published at most.
THEOREM PublishedAlone == Spec => []OnePublished
<1>1. IInv => OnePublished
  BY DEF IInv
<1> QED
  BY Invariance, <1>1, PTL

-----------------------------------------------------------------------------
\* A request that writes is done, so that its record changes.
LEMMA WriterMoves ==
    ASSUME IInv, NEW w \in Workers,
           \/ UpsertRelease(w) \/ Publish(w) \/ Archive(w) \/ DropDraft(w)
           \/ MarkPurged(w)
    PROVE  req'[w] # req[w]
<1>t. req \in [Workers -> Requests]
  BY DEF IInv, TypeOK
<1>1. req[w].pc \in {"upsert", "commit", "archive", "drop", "mark"}
  BY DEF UpsertRelease, Publish, Archive, DropDraft, MarkPurged, At
<1>2. req'[w].pc \in {"idle", "sync"}
  <2>1. \/ Finish(w)
        \/ req' = [req EXCEPT ![w] = [Idle EXCEPT !.pc = "sync",
                                          !.version = req[w].version]]
    <3>1. UpsertRelease(w) \/ Archive(w) \/ DropDraft(w) => Finish(w)
      BY DEF UpsertRelease, Archive, DropDraft, Write
    <3>2. MarkPurged(w) => Finish(w)
      BY Zenon DEF MarkPurged, Write
    <3> QED
      BY <3>1, <3>2 DEF Publish
  <2>2. /\ Idle.pc = "idle"
        /\ [Idle EXCEPT !.pc = "sync", !.version = req[w].version].pc = "sync"
    BY DEF Idle
  <2> QED
    BY <1>t, <2>1, <2>2 DEF Finish
<1> QED
  BY <1>1, <1>2

\* A published release is withdrawn by a newer one, or by a request whose
\* checks it has overtaken.
THEOREM WithdrawnByNewerOnly == Spec => WithdrawnByNewer
<1>1. ASSUME IInv, [Next]_vars, NEW i \in Published, i \notin Published'
      PROVE  (\E j \in Published' : row'[j].version > row[i].version) \/ Unaware(i)
  <2>t. /\ row \in [Ids -> Rows] /\ req \in [Workers -> Requests]
        /\ \A w \in Workers : Checked(w)
    BY <1>1 DEF IInv, TypeOK
  <2>1. ASSUME NEW w \in Workers,
               UpsertRelease(w) \/ Archive(w) \/ DropDraft(w) \/ MarkPurged(w)
        PROVE  Unaware(i)
    <3>1. /\ req'[w] # req[w]
          /\ req[w].pc \in {"upsert", "archive", "drop", "mark"}
      BY <1>1, <2>1, WriterMoves DEF UpsertRelease, Archive, DropDraft, MarkPurged, At
    <3>2. req[w].seen # "PUBLISHED"
      BY <2>t, <3>1 DEF Checked
    <3> QED
      BY <3>1, <3>2 DEF Unaware, At
  <2>2. ASSUME NEW w \in Workers, Publish(w)
        PROVE  (\E j \in Published' : row'[j].version > row[i].version) \/ Unaware(i)
    <3>1. req'[w] # req[w] /\ req[w].pc = "commit"
      BY <1>1, <2>2, WriterMoves DEF Publish, At
    <3>2. /\ req[w].id \in Ids /\ req[w].top < req[w].version
          /\ Exists(req[w].id) => row[req[w].id].version = req[w].version
      BY <2>t, <3>1 DEF Checked
    <3>3. i \in Ids /\ row[i].status = "PUBLISHED" /\ row' # row
      BY <1>1 DEF Published
    <3>4. Exists(req[w].id) /\ row' = ArchiveOthers(req[w].id)
      BY <2>2, <3>3 DEF Publish
    <3>5. /\ req[w].id \in Published'
          /\ row'[req[w].id].version = req[w].version
      BY <2>t, <3>2, <3>4 DEF ArchiveOthers, Published, Rows
    <3>6. /\ row[i].version \in Int /\ req[w].top \in Int
          /\ req[w].version \in Int
      BY <2>t, <3>3 DEF Rows, Requests
    <3>7. CASE req[w].top < row[i].version
      BY <3>1, <3>7 DEF Unaware, At
    <3>8. CASE ~(req[w].top < row[i].version)
      <4>1. req[w].version > row[i].version
        BY <3>2, <3>6, <3>8
      <4> QED
        BY <3>5, <4>1
    <3> QED
      BY <3>7, <3>8
  <2>3. ~UNCHANGED row
    BY <1>1 DEF Published
  <2> QED
    BY <1>1, <2>1, <2>2, <2>3, RowSteps DEF RowStep
<1>2. IInv /\ [Next]_vars => GivesWayToNewer
  BY <1>1 DEF GivesWayToNewer
<1> QED
  BY <1>2, Invariance, PTL DEF Spec, WithdrawnByNewer

\* What was published or archived stays in the history, but for a request that
\* has not seen it there.
THEOREM ReleasesStay == Spec => HistoryKept
<1>1. ASSUME IInv, [Next]_vars, NEW i \in Ids,
             row[i].status \in {"PUBLISHED", "ARCHIVED"},
             row'[i].status \in {"DRAFT", "gone"}
      PROVE  \E w \in Workers : /\ req[w].pc \in {"upsert", "drop"}
                                /\ req'[w] # req[w]
                                /\ req[w].seen \in {"DRAFT", "none"}
  <2>t. /\ row \in [Ids -> Rows] /\ \A w \in Workers : Checked(w)
    BY <1>1 DEF IInv, TypeOK
  <2>1. ASSUME NEW w \in Workers, UpsertRelease(w) \/ DropDraft(w)
        PROVE  /\ req[w].pc \in {"upsert", "drop"}
               /\ req'[w] # req[w]
               /\ req[w].seen \in {"DRAFT", "none"}
    BY <1>1, <2>1, <2>t, WriterMoves DEF UpsertRelease, DropDraft, At, Checked
  <2>2. ASSUME NEW w \in Workers, Publish(w)
        PROVE  FALSE
    <3>1. row' = ArchiveOthers(req[w].id)
      BY <1>1, <2>2 DEF Publish
    <3>2. row'[i].status \in {"PUBLISHED", "ARCHIVED"}
      BY <1>1, <2>t, <3>1 DEF ArchiveOthers, Rows
    <3> QED
      BY <1>1, <3>2
  <2>3. ASSUME NEW w \in Workers, Archive(w) \/ MarkPurged(w)
        PROVE  FALSE
    <3>i. req[w].id \in Ids
      BY <2>3, <2>t DEF Archive, MarkPurged, At, Checked
    <3>1. [row[req[w].id] EXCEPT !.status = "ARCHIVED"].status = "ARCHIVED"
      BY <3>i, <2>t DEF Rows
    <3>2. [row[req[w].id] EXCEPT !.status = "ARCHIVED", !.purged = TRUE].status
            = "ARCHIVED"
      BY <3>i, <2>t DEF Rows
    <3>3. ASSUME NEW r, Write(w, r), r.status = "ARCHIVED"
          PROVE  FALSE
      BY <3>3, <3>i, <2>t, <1>1 DEF Write
    <3> QED
      BY <2>3, <3>1, <3>2, <3>3 DEF Archive, MarkPurged
  <2>4. ~UNCHANGED row
    BY <1>1
  <2> QED
    BY <1>1, <2>1, <2>2, <2>3, <2>4, RowSteps DEF RowStep
<1>2. IInv /\ [Next]_vars => LeavesDraftForGood
  BY <1>1 DEF LeavesDraftForGood
<1> QED
  BY <1>2, Invariance, PTL DEF Spec, HistoryKept

-----------------------------------------------------------------------------
\* The page, the backend and the app together.

\* A finalization names its upload to the end, and a release that is there has
\* the object of one.
Finalizing == {"inspect", "lookup", "unlink", "upsert", "discard"}
ObjectsAreNamed ==
    /\ \A w \in Workers : req[w].pc \in Finalizing => req[w].up \in Uploads
    /\ \A i \in Ids : Exists(i) => row[i].object \in Uploads

\* A flow that uploads has made no request yet, and one that finalizes has made
\* none but the finalization of its upload.
FlowIsServed(w) ==
    /\ flow[w].pc = "upload" => /\ At(w, "idle") /\ flow[w].up = None
                               /\ flow[w].file \in Versions
    /\ flow[w].pc = "finalize" =>
         /\ flow[w].up \in Uploads
         /\ At(w, "idle") \/ (req[w].pc \in Finalizing /\ req[w].up = flow[w].up)

\* The release a phone was told of keeps its file for as long as it is not made
\* a draft again.
OfferIsSigned ==
    phone.id # None /\ ~phone.redrafted =>
        /\ row[phone.id].status \in {"PUBLISHED", "ARCHIVED", "gone"}
        /\ Exists(phone.id) => row[phone.id].object = phone.sha

AppIInv ==
    /\ IInv
    /\ AppTypeOK
    /\ ObjectsAreNamed
    /\ pending = NoUpload \/ pending.up \in Uploads
    /\ \A w \in Workers : FlowIsServed(w)
    /\ OfferIsSigned
    /\ ServedIsSigned

LEMMA Numbers == /\ 0 \in 0 .. MaxVersion /\ None \notin 0 .. MaxVersion
                 /\ None \notin Uploads /\ None \notin Ids
                 /\ \A v \in Versions : v \in 0 .. MaxVersion
BY ReleasesAssumption DEF Versions

\* Whoever finalizes ends or goes on with its upload, and nobody else becomes
\* a finalization half-way.
LEMMA ContinueIs ==
    ASSUME IInv, NEW w \in Workers, Continue(w)
    PROVE  /\ ~At(w, "idle")
           /\ \A v \in Workers \ {w} : req'[v] = req[v]
           /\ req[w].pc \in Finalizing =>
                At(w, "idle")' \/ (req'[w].pc \in Finalizing /\ req'[w].up = req[w].up)
           /\ req[w].pc \notin Finalizing => req'[w].pc \notin Finalizing
<1>t. req \in [Workers -> Requests] /\ req[w] \in Requests
  BY DEF IInv, TypeOK
<1>f. ASSUME Finish(w)
      PROVE  /\ At(w, "idle")' /\ req'[w].pc \notin Finalizing
             /\ \A v \in Workers \ {w} : req'[v] = req[v]
  BY <1>f, <1>t DEF Finish, Idle, At, Finalizing
<1>g. ASSUME NEW s \in Stages, Goto(w, s)
      PROVE  /\ req'[w].pc = s /\ req'[w].up = req[w].up
             /\ \A v \in Workers \ {w} : req'[v] = req[v]
  BY <1>g, <1>t DEF Goto, Requests
<1>1. CASE \/ DiscardUpload(w) \/ UpsertRelease(w) \/ SyncLegacyAppVersion(w) \/ Archive(w)
           \/ DropDraft(w) \/ MarkPurged(w)
  <2>1. Finish(w) /\ ~At(w, "idle")
    BY <1>1 DEF DiscardUpload, UpsertRelease, SyncLegacyAppVersion, Archive, DropDraft,
                MarkPurged, Write, At
  <2> QED
    BY <1>f, <2>1
<1>2. CASE CompareWithLatest(w) \/ RefuseApk(w)
  <2>1. At(w, "inspect") /\ \E s \in {"discard", "lookup"} : Goto(w, s)
    BY <1>2 DEF CompareWithLatest, RefuseApk
  <2> QED
    BY <1>g, <2>1 DEF At, Finalizing, Stages
<1>3. CASE LookupVersion(w)
  <2>1. CASE Goto(w, "upsert")
    BY <1>3, <1>g, <2>1 DEF LookupVersion, At, Finalizing, Stages
  <2>2. ASSUME NEW i \in OfVersion(req[w].version),
               req' = [req EXCEPT ![w].pc = StageOver(i, req[w].up),
                                  ![w].object = row[i].object,
                                  ![w].seen = row[i].status]
        PROVE  /\ req'[w].pc \in Finalizing /\ req'[w].up = req[w].up
               /\ \A v \in Workers \ {w} : req'[v] = req[v]
    <3>1. StageOver(i, req[w].up) \in Finalizing
      BY DEF StageOver, Finalizing
    <3> DEFINE x == [req[w] EXCEPT !.pc = StageOver(i, req[w].up), !.object = row[i].object,
                                   !.seen = row[i].status]
    <3>2. x.pc = StageOver(i, req[w].up) /\ x.up = req[w].up
      BY <1>t DEF Requests
    <3>3. req' = [req EXCEPT ![w] = x]
      BY <2>2, <1>t
    <3> HIDE DEF x
    <3> QED
      BY <3>1, <3>2, <3>3, <1>t
  <2> QED
    BY <1>3, <2>1, <2>2 DEF LookupVersion, At, Finalizing
<1>4. CASE DeleteReplaced(w)
  <2> DEFINE x == [req[w] EXCEPT !.pc = "upsert", !.object = None]
  <2>1. x.pc = "upsert" /\ x.up = req[w].up
    BY <1>t DEF Requests
  <2>2. req' = [req EXCEPT ![w] = x] /\ At(w, "unlink")
    BY <1>4, <1>t DEF DeleteReplaced
  <2> HIDE DEF x
  <2> QED
    BY <2>1, <2>2, <1>t DEF At, Finalizing
<1>5. CASE CheckVersion(w)
  <2>1. At(w, "version")
    BY <1>5 DEF CheckVersion
  <2>2. ASSUME NEW v, req' = [req EXCEPT ![w].pc = "head", ![w].top = v]
        PROVE  /\ req'[w].pc = "head" /\ \A x \in Workers \ {w} : req'[x] = req[x]
    BY <2>2, <1>t DEF Requests
  <2> QED
    BY <1>5, <1>f, <2>1, <2>2 DEF CheckVersion, At, Finalizing
<1>6. CASE CheckFile(w)
  BY <1>6, <1>f, <1>g DEF CheckFile, At, Finalizing, Stages
<1>7. CASE Publish(w)
  <2>1. At(w, "commit")
    BY <1>7 DEF Publish
  <2>2. ASSUME req' = [req EXCEPT ![w] = [Idle EXCEPT !.pc = "sync",
                                            !.version = req[w].version]]
        PROVE  /\ req'[w].pc = "sync" /\ \A x \in Workers \ {w} : req'[x] = req[x]
    BY <2>2, <1>t DEF Idle
  <2> QED
    BY <1>7, <1>f, <2>1, <2>2 DEF Publish, At, Finalizing
<1>8. CASE DeleteFile(w)
  <2>1. /\ At(w, "erase") \/ At(w, "wipe")
        /\ Goto(w, "drop") \/ Goto(w, "mark") \/ Finish(w)
    BY <1>8 DEF DeleteFile
  <2>2. ASSUME Goto(w, "drop") \/ Goto(w, "mark")
        PROVE  /\ req'[w].pc \in {"drop", "mark"}
               /\ \A x \in Workers \ {w} : req'[x] = req[x]
    BY <2>2, <1>g DEF Stages
  <2> QED
    BY <1>f, <2>1, <2>2 DEF At, Finalizing
<1> QED
  BY <1>1, <1>2, <1>3, <1>4, <1>5, <1>6, <1>7, <1>8 DEF Continue

\* What a step makes of the file of a release.
FileMoves(i) ==
    \/ row'[i] = row[i]
    \/ /\ Exists(i) /\ row'[i].status \in {"PUBLISHED", "ARCHIVED"}
       /\ row'[i].object = row[i].object
    \/ row'[i].status = "gone"
    \/ /\ Exists(i) \/ row[i] = NoRow
       /\ row'[i].status = "DRAFT"
       /\ \E w \in Workers : UpsertRelease(w) /\ row'[i].object = req[w].up

LEMMA FilesMove ==
    ASSUME IInv, [Next]_vars
    PROVE  \A i \in Ids : FileMoves(i)
<1>t. /\ row \in [Ids -> Rows] /\ \A w \in Workers : Checked(w)
  BY DEF IInv, TypeOK
<1>1. ASSUME NEW w \in Workers, UpsertRelease(w), NEW i \in Ids
      PROVE  FileMoves(i)
  <2>1. ASSUME NEW j \in OfVersion(req[w].version),
               row' = [row EXCEPT ![j].status = "DRAFT", ![j].object = req[w].up]
        PROVE  FileMoves(i)
    <3>1. j \in Ids /\ Exists(j) /\ row[j] \in Rows
      BY <1>t DEF OfVersion
    <3>2. row' = [row EXCEPT ![j] = [row[j] EXCEPT !.status = "DRAFT",
                                                 !.object = req[w].up]]
      BY <2>1, <3>1, <1>t
    <3>3. i = j => row'[i].status = "DRAFT" /\ row'[i].object = req[w].up
      BY <3>1, <3>2, <1>t DEF Rows
    <3> QED
      BY <1>1, <1>t, <3>1, <3>2, <3>3 DEF FileMoves
  <2>2. ASSUME NEW j \in Ids, row[j] = NoRow,
               row' = [row EXCEPT ![j] = [status |-> "DRAFT", version |-> req[w].version,
                                          object |-> req[w].up, purged |-> FALSE]]
        PROVE  FileMoves(i)
    <3>1. i = j => row'[i].status = "DRAFT" /\ row'[i].object = req[w].up
      BY <2>2, <1>t
    <3> QED
      BY <1>1, <1>t, <2>2, <3>1 DEF FileMoves
  <2> QED
    BY <1>1, <2>1, <2>2 DEF UpsertRelease
<1>2. ASSUME NEW w \in Workers, Publish(w), NEW i \in Ids
      PROVE  FileMoves(i)
  BY <1>2, <1>t DEF Publish, ArchiveOthers, Published, FileMoves, Exists, Kept, Rows
<1>3. ASSUME NEW w \in Workers, Archive(w) \/ MarkPurged(w), NEW i \in Ids
      PROVE  FileMoves(i)
  <2>1. req[w].id \in Ids
    BY <1>3, <1>t DEF Archive, MarkPurged, At, Checked
  <2>2. /\ [row[req[w].id] EXCEPT !.status = "ARCHIVED"].status = "ARCHIVED"
        /\ [row[req[w].id] EXCEPT !.status = "ARCHIVED"].object = row[req[w].id].object
    BY <2>1, <1>t DEF Rows
  <2>3. /\ [row[req[w].id] EXCEPT !.status = "ARCHIVED", !.purged = TRUE].status = "ARCHIVED"
        /\ [row[req[w].id] EXCEPT !.status = "ARCHIVED", !.purged = TRUE].object
             = row[req[w].id].object
    BY <2>1, <1>t DEF Rows
  <2>4. ASSUME NEW r, Write(w, r), r.status = "ARCHIVED", r.object = row[req[w].id].object
        PROVE  FileMoves(i)
    BY <2>1, <2>4, <1>t DEF Write, FileMoves
  <2>5. CASE Archive(w)
    BY <2>2, <2>4, <2>5 DEF Archive
  <2>6. CASE MarkPurged(w)
    BY <2>3, <2>4, <2>6 DEF MarkPurged
  <2> QED
    BY <1>3, <2>5, <2>6
<1>4. ASSUME NEW w \in Workers, DropDraft(w), NEW i \in Ids
      PROVE  FileMoves(i)
  <2>1. [NoRow EXCEPT !.status = "gone"].status = "gone"
    BY DEF NoRow
  <2> QED
    BY <1>4, <1>t, <2>1 DEF DropDraft, Write, FileMoves
<1>5. CASE UNCHANGED row
  BY <1>5 DEF FileMoves
<1> QED
  BY <1>1, <1>2, <1>3, <1>4, <1>5, RowSteps DEF RowStep

LEMMA ObjectsStayNamed ==
    ASSUME IInv, ObjectsAreNamed, [Next]_vars
    PROVE  ObjectsAreNamed'
<1>1. \A i \in Ids : Exists(i)' => row'[i].object \in Uploads
  <2> SUFFICES ASSUME NEW i \in Ids, Exists(i)'
               PROVE  row'[i].object \in Uploads
    OBVIOUS
  <2>1. \A w \in Workers : UpsertRelease(w) => req[w].up \in Uploads
    BY DEF ObjectsAreNamed, UpsertRelease, At, Finalizing
  <2>2. FileMoves(i)
    BY FilesMove
  <2> QED
    BY <2>1, <2>2 DEF ObjectsAreNamed, FileMoves, Exists, Kept
<1>2. \A w \in Workers : req'[w].pc \in Finalizing => req'[w].up \in Uploads
  <2>t. req \in [Workers -> Requests]
    BY DEF IInv, TypeOK
  <2>1. ASSUME NEW w \in Workers, Continue(w)
        PROVE  \A v \in Workers : req'[v].pc \in Finalizing => req'[v].up \in Uploads
    <3>1. \A v \in Workers \ {w} : req'[v].pc \in Finalizing => req'[v].up \in Uploads
      BY <2>1, ContinueIs DEF ObjectsAreNamed
    <3>2. req'[w].pc \in Finalizing => req'[w].up \in Uploads
      BY <2>1, ContinueIs DEF ObjectsAreNamed, At, Finalizing
    <3> QED
      BY <3>1, <3>2
  <2>2. ASSUME NEW w \in Workers, Crash(w)
        PROVE  \A v \in Workers : req'[v].pc \in Finalizing => req'[v].up \in Uploads
    BY <2>2, <2>t DEF Crash, Finish, Idle, ObjectsAreNamed, Finalizing
  <2>3. ASSUME NEW w \in Workers, NEW u \in Uploads, ReadApk(w, u)
        PROVE  \A v \in Workers : req'[v].pc \in Finalizing => req'[v].up \in Uploads
    BY <2>3, <2>t DEF ReadApk, Idle, ObjectsAreNamed
  <2>4. ASSUME NEW w \in Workers, NEW i \in Ids,
               \/ ReadForPublish(w, i) \/ ReadForArchive(w, i)
               \/ ReadForDelete(w, i) \/ ReadForPurge(w, i)
        PROVE  \A v \in Workers : req'[v].pc \in Finalizing => req'[v].up \in Uploads
    <3>1. ASSUME NEW x, req' = [req EXCEPT ![w] = x], x.pc \notin Finalizing
          PROVE  \A v \in Workers : req'[v].pc \in Finalizing => req'[v].up \in Uploads
      BY <3>1, <2>t DEF ObjectsAreNamed
    <3>2. CASE ReadForPublish(w, i)
      <4> DEFINE x == [SeenWithFile(i, "version") EXCEPT !.version = row[i].version]
      <4>1. x.pc = "version"
        BY DEF SeenWithFile, Seen, Idle
      <4>2. req' = [req EXCEPT ![w] = x]
        BY <3>2 DEF ReadForPublish
      <4> HIDE DEF x
      <4> QED
        BY <3>1, <4>1, <4>2 DEF Finalizing
    <3>3. CASE ReadForArchive(w, i)
      <4>1. Seen(i, "archive").pc = "archive"
        BY DEF Seen, Idle
      <4> QED
        BY <3>1, <3>3, <4>1 DEF ReadForArchive, Finalizing
    <3>4. CASE ReadForDelete(w, i)
      <4>1. SeenWithFile(i, "erase").pc = "erase"
        BY DEF SeenWithFile, Seen, Idle
      <4> QED
        BY <3>1, <3>4, <4>1 DEF ReadForDelete, Finalizing
    <3>5. CASE ReadForPurge(w, i)
      <4>1. SeenWithFile(i, "wipe").pc = "wipe"
        BY DEF SeenWithFile, Seen, Idle
      <4> QED
        BY <3>1, <3>5, <4>1 DEF ReadForPurge, Finalizing
    <3> QED
      BY <2>4, <3>2, <3>3, <3>4, <3>5
  <2>5. CASE UNCHANGED req
    BY <2>5 DEF ObjectsAreNamed
  <2> QED
    BY <2>1, <2>2, <2>3, <2>4, <2>5, RequestSteps DEF Steps
<1> QED
  BY <1>1, <1>2 DEF ObjectsAreNamed

\* Whatever happens on the page or on a phone, the backend does what Releases
\* says, or nothing.
LEMMA AppStepIsStep ==
    ASSUME AppIInv, [AppNext]_allVars
    PROVE  [Next]_vars
<1>1. CASE PageStep
  <2>1. ASSUME NEW w \in Workers, Uploaded(w)
        PROVE  Next
    <3>1. flow[w].file \in Versions
      BY <2>1 DEF AppIInv, FlowIsServed, Uploaded, Waiting
    <3> QED
      BY <2>1, <3>1 DEF Uploaded, Next
  <2>2. ASSUME NEW w \in Workers, NEW i \in Ids, BeginOnRelease(w, i)
        PROVE  Next
    BY <2>2 DEF BeginOnRelease, Begin, Next
  <2>3. CASE \/ Reload
             \/ \E w \in Workers : \/ \E v \in Versions : BeginUpload(w, v)
                                   \/ ResumeUpload(w) \/ UploadFails(w)
    BY <2>3 DEF Reload, BeginUpload, ResumeUpload, UploadFails, vars
  <2> QED
    BY <1>1, <2>1, <2>2, <2>3 DEF PageStep
<1>2. ASSUME NEW w \in Workers, BeginFinalize(w)
      PROVE  [Next]_vars
  <2>1. flow[w].up \in Uploads
    BY <1>2 DEF AppIInv, FlowIsServed, BeginFinalize, Waiting
  <2> QED
    BY <1>2, <2>1 DEF BeginFinalize, Begin, Next, vars
<1>3. ASSUME NEW w \in Workers, Serve(w) \/ Answer(w) \/ Break(w)
      PROVE  Next
  BY <1>3 DEF Serve, Answer, Break, Next
<1>4. CASE (\E current \in 0 .. MaxVersion : CheckUpdate(current)) \/ AskDownload \/ ForgetUpdate
  BY <1>4 DEF CheckUpdate, AskDownload, ForgetUpdate, vars
<1>5. CASE UNCHANGED allVars
  BY <1>5 DEF allVars, vars
<1> QED
  BY <1>1, <1>2, <1>3, <1>4, <1>5 DEF AppNext

LEMMA InvariantStep ==
    ASSUME IInv, [Next]_vars
    PROVE  IInv'
BY RowTypes, RequestsStep, OneStep, OtherTypes DEF IInv, TypeOK

\* The flows of the page and the requests they wait for.
LEMMA FlowsStayServed ==
    ASSUME AppIInv, [AppNext]_allVars
    PROVE  /\ flow' \in [Workers -> Flows]
           /\ \A w \in Workers : FlowIsServed(w)'
<1>t. /\ flow \in [Workers -> Flows] /\ IInv
      /\ \A w \in Workers : FlowIsServed(w)
      /\ req \in [Workers -> Requests]
  BY DEF AppIInv, AppTypeOK, IInv, TypeOK
<1>n. NoFlow \in Flows /\ NoFlow.pc = "idle"
  BY Numbers DEF NoFlow, Flows
<1>1. ASSUME NEW w \in Workers, NEW x \in Flows,
             flow' = [flow EXCEPT ![w] = x],
             \A v \in Workers \ {w} : req'[v] = req[v],
             x.pc = "idle" \/ (UNCHANGED req /\ At(w, "idle")),
             x.pc = "upload" => x.up = None /\ x.file \in Versions,
             x.pc = "finalize" => x.up \in Uploads
      PROVE  /\ flow' \in [Workers -> Flows]
             /\ \A v \in Workers : FlowIsServed(v)'
  <2>1. \A v \in Workers \ {w} : FlowIsServed(v)'
    BY <1>1, <1>t DEF FlowIsServed, At
  <2>2. FlowIsServed(w)'
    BY <1>1, <1>t DEF FlowIsServed, At
  <2> QED
    BY <1>1, <1>t, <2>1, <2>2
<1>2. ASSUME NEW w \in Workers, Ends(w), \A v \in Workers \ {w} : req'[v] = req[v]
      PROVE  /\ flow' \in [Workers -> Flows]
             /\ \A v \in Workers : FlowIsServed(v)'
  BY <1>1, <1>2, <1>n DEF Ends
<1>3. CASE Reload
  BY <1>3, <1>n DEF Reload, FlowIsServed
<1>4. ASSUME NEW w \in Workers, NEW v \in Versions, BeginUpload(w, v)
      PROVE  /\ flow' \in [Workers -> Flows]
             /\ \A x \in Workers : FlowIsServed(x)'
  <2> DEFINE x == [pc |-> "upload", up |-> None, file |-> v]
  <2>1. x \in Flows /\ x.pc = "upload" /\ x.up = None /\ x.file = v
    BY Numbers DEF Flows
  <2>2. flow' = [flow EXCEPT ![w] = x] /\ UNCHANGED req /\ At(w, "idle")
    BY <1>4 DEF BeginUpload, Wait, Free
  <2> HIDE DEF x
  <2> QED
    BY <1>1, <2>1, <2>2
<1>5. ASSUME NEW w \in Workers, NEW u \in Uploads, Wait(w, "finalize", u, 0),
             UNCHANGED req, At(w, "idle")
      PROVE  /\ flow' \in [Workers -> Flows]
             /\ \A x \in Workers : FlowIsServed(x)'
  <2> DEFINE x == [pc |-> "finalize", up |-> u, file |-> 0]
  <2>1. x \in Flows /\ x.pc = "finalize" /\ x.up = u
    BY Numbers DEF Flows
  <2>2. flow' = [flow EXCEPT ![w] = x]
    BY <1>5 DEF Wait
  <2> HIDE DEF x
  <2> QED
    BY <1>1, <1>5, <2>1, <2>2
<1>6. ASSUME NEW w \in Workers, ResumeUpload(w)
      PROVE  /\ flow' \in [Workers -> Flows]
             /\ \A x \in Workers : FlowIsServed(x)'
  <2>1. pending.up \in Uploads
    BY <1>6 DEF AppIInv, ResumeUpload
  <2> QED
    BY <1>5, <1>6, <2>1 DEF ResumeUpload, Free
<1>7. ASSUME NEW w \in Workers, Uploaded(w)
      PROVE  /\ flow' \in [Workers -> Flows]
             /\ \A x \in Workers : FlowIsServed(x)'
  <2>1. At(w, "idle") /\ UNCHANGED req
    BY <1>7, <1>t DEF Uploaded, FlowIsServed, Waiting, PutApk
  <2> QED
    BY <1>5, <1>7, <2>1 DEF Uploaded
<1>8. ASSUME NEW w \in Workers, UploadFails(w)
      PROVE  /\ flow' \in [Workers -> Flows]
             /\ \A x \in Workers : FlowIsServed(x)'
  BY <1>2, <1>8 DEF UploadFails
<1>9. ASSUME NEW w \in Workers, NEW i \in Ids, BeginOnRelease(w, i)
      PROVE  /\ flow' \in [Workers -> Flows]
             /\ \A x \in Workers : FlowIsServed(x)'
  <2>1. /\ flow' = flow /\ flow[w].pc = "idle"
        /\ \A v \in Workers \ {w} : req'[v] = req[v]
    BY <1>9, <1>t DEF BeginOnRelease, Free, Waiting, appVars, ReadForPublish, ReadForArchive,
                      ReadForDelete, ReadForPurge
  <2> QED
    BY <2>1, <1>t DEF FlowIsServed, At
<1>10. ASSUME NEW w \in Workers, BeginFinalize(w)
       PROVE  /\ flow' \in [Workers -> Flows]
              /\ \A x \in Workers : FlowIsServed(x)'
  <2>1. CASE ReadApk(w, flow[w].up) /\ UNCHANGED flow
    <3>1. /\ req'[w].pc \in Finalizing /\ req'[w].up = flow[w].up
          /\ \A v \in Workers \ {w} : req'[v] = req[v]
      BY <2>1, <1>t DEF ReadApk, Idle, Finalizing
    <3>2. flow[w].pc = "finalize"
      BY <1>10 DEF BeginFinalize, Waiting
    <3> QED
      BY <2>1, <3>1, <3>2, <1>t DEF FlowIsServed, At
  <2>2. CASE Ends(w) /\ UNCHANGED req
    BY <1>2, <2>2
  <2> QED
    BY <1>10, <2>1, <2>2 DEF BeginFinalize
<1>11. ASSUME NEW w \in Workers, Serve(w)
       PROVE  /\ flow' \in [Workers -> Flows]
              /\ \A x \in Workers : FlowIsServed(x)'
  <2>1. /\ ~At(w, "idle") /\ ~At(w, "idle")' /\ flow' = flow
        /\ \A v \in Workers \ {w} : req'[v] = req[v]
        /\ req[w].pc \in Finalizing =>
             req'[w].pc \in Finalizing /\ req'[w].up = req[w].up
    BY <1>11, <1>t, ContinueIs DEF Serve, appVars
  <2>2. \A v \in Workers \ {w} : FlowIsServed(v)'
    BY <2>1, <1>t DEF FlowIsServed, At
  <2>3. FlowIsServed(w)'
    BY <2>1, <1>t DEF FlowIsServed, At
  <2> QED
    BY <2>1, <2>2, <2>3, <1>t
<1>12. ASSUME NEW w \in Workers, Answer(w)
       PROVE  /\ flow' \in [Workers -> Flows]
              /\ \A x \in Workers : FlowIsServed(x)'
  BY <1>2, <1>12, <1>t, ContinueIs DEF Answer
<1>13. ASSUME NEW w \in Workers, Break(w)
       PROVE  /\ flow' \in [Workers -> Flows]
              /\ \A x \in Workers : FlowIsServed(x)'
  BY <1>2, <1>13, <1>t DEF Break, Crash, Finish
<1>14. CASE UNCHANGED <<flow, req>>
  BY <1>14, <1>t DEF FlowIsServed, At
<1>15. (\E current \in 0 .. MaxVersion : CheckUpdate(current)) \/ AskDownload \/ ForgetUpdate
         \/ UNCHANGED allVars => UNCHANGED <<flow, req>>
  BY DEF CheckUpdate, AskDownload, ForgetUpdate, allVars
<1> QED
  BY <1>3, <1>4, <1>6, <1>7, <1>8, <1>9, <1>10, <1>11, <1>12, <1>13, <1>14, <1>15
     DEF AppNext, PageStep

\* A step of the app leaves alone what a phone was told, or is one of these.
Tells ==
    \/ phone' = Unasked
    \/ \E i \in Offered : phone' = Manifest(i)
    \/ /\ phone.id # None
       /\ \E i \in Served(phone.id) : phone' = [phone EXCEPT !.link = row[i].object]

LEMMA PhoneSteps ==
    ASSUME [AppNext]_allVars
    PROVE  \/ UNCHANGED row /\ Tells
           \/ \E w \in Workers : Answer(w)
           \/ /\ UNCHANGED phone
              /\ (\E w \in Workers : Continue(w) /\ ~At(w, "idle")') \/ UNCHANGED row
<1>1. PageStep => UNCHANGED <<row, phone>>
  BY DEF PageStep, Reload, BeginUpload, ResumeUpload, Uploaded, PutApk, UploadFails,
         BeginOnRelease, ReadForPublish, ReadForArchive, ReadForDelete, ReadForPurge, appVars
<1>2. ASSUME NEW w \in Workers, BeginFinalize(w) \/ Break(w)
      PROVE  UNCHANGED <<row, phone>>
  BY <1>2 DEF BeginFinalize, ReadApk, Break, Crash
<1>3. ASSUME NEW w \in Workers, Serve(w)
      PROVE  Continue(w) /\ ~At(w, "idle")' /\ UNCHANGED phone
  BY <1>3 DEF Serve, appVars
<1>4. (\E current \in 0 .. MaxVersion : CheckUpdate(current)) \/ AskDownload \/ ForgetUpdate
        => UNCHANGED row /\ Tells
  BY DEF CheckUpdate, AskDownload, ForgetUpdate, Tells
<1>5. UNCHANGED allVars => UNCHANGED <<row, phone>>
  BY DEF allVars
<1> QED
  BY <1>1, <1>2, <1>3, <1>4, <1>5 DEF AppNext

\* Only a request that ends makes a release a draft.
LEMMA UpsertEnds ==
    ASSUME IInv, [Next]_vars, NEW w \in Workers, NEW v \in Workers,
           Continue(w), UpsertRelease(v)
    PROVE  v = w /\ At(w, "idle")'
<1>1. v = w
  <2>1. req'[v] # req[v]
    BY WriterMoves
  <2> QED
    BY <2>1, ContinueIs
<1>2. At(v, "idle")'
  BY DEF UpsertRelease, Finish, Idle, At, IInv, TypeOK
<1> QED
  BY <1>1, <1>2

LEMMA OfferStaysSigned ==
    ASSUME AppIInv, [AppNext]_allVars
    PROVE  OfferIsSigned' /\ ServedIsSigned' /\ phone' \in Phones
<1>t. /\ IInv /\ [Next]_vars /\ phone \in Phones /\ row \in [Ids -> Rows]
      /\ OfferIsSigned /\ ServedIsSigned
  BY AppStepIsStep DEF AppIInv, AppTypeOK, IInv, TypeOK
<1>m. \A i \in Ids : FileMoves(i)
  BY <1>t, FilesMove
<1>p. None \notin Ids
  BY Numbers
<1>r. phone.id # None /\ ~phone.redrafted =>
        \/ phone.id \in Redrafted
        \/ /\ row'[phone.id].status \in {"PUBLISHED", "ARCHIVED", "gone"}
           /\ row'[phone.id].status \in Kept => row'[phone.id].object = phone.sha
  <2> SUFFICES ASSUME phone.id # None, ~phone.redrafted
               PROVE  \/ phone.id \in Redrafted
                      \/ /\ row'[phone.id].status \in {"PUBLISHED", "ARCHIVED", "gone"}
                         /\ row'[phone.id].status \in Kept => row'[phone.id].object = phone.sha
    OBVIOUS
  <2>1. phone.id \in Ids
    BY <1>t DEF Phones
  <2>2. /\ row[phone.id].status \in {"PUBLISHED", "ARCHIVED", "gone"}
        /\ Exists(phone.id) => row[phone.id].object = phone.sha
    BY <1>t DEF OfferIsSigned
  <2>3. FileMoves(phone.id)
    BY <1>m, <2>1
  <2>4. \/ row'[phone.id] = row[phone.id]
        \/ Exists(phone.id) /\ row'[phone.id].status \in {"PUBLISHED", "ARCHIVED"}
             /\ row'[phone.id].object = row[phone.id].object
        \/ row'[phone.id].status = "gone"
        \/ Exists(phone.id) /\ row'[phone.id].status = "DRAFT"
    BY <2>2, <2>3 DEF FileMoves, NoRow
  <2> QED
    BY <2>1, <2>2, <2>4 DEF Redrafted, Exists, Kept
<1>1. CASE phone' = Unasked
  <2>1. Unasked \in Phones /\ Unasked.id = None /\ Unasked.link = None
    BY DEF Unasked, Phones
  <2> QED
    BY <1>1, <2>1 DEF OfferIsSigned, ServedIsSigned
<1>2. ASSUME UNCHANGED row, NEW i \in Offered, phone' = Manifest(i)
      PROVE  OfferIsSigned' /\ ServedIsSigned' /\ phone' \in Phones
  <2>1. /\ i \in Ids /\ row[i].status = "PUBLISHED"
        /\ row[i].object \in Uploads \cup {None}
    BY <1>t DEF Offered, Published, Rows
  <2>2. /\ Manifest(i) \in Phones /\ Manifest(i).id = i
        /\ Manifest(i).sha = row[i].object /\ Manifest(i).link = None
    BY <2>1 DEF Manifest, Unasked, Phones
  <2> QED
    BY <1>2, <2>1, <2>2 DEF OfferIsSigned, ServedIsSigned
<1>3. ASSUME UNCHANGED row, phone.id # None, NEW i \in Served(phone.id),
             phone' = [phone EXCEPT !.link = row[i].object]
      PROVE  OfferIsSigned' /\ ServedIsSigned' /\ phone' \in Phones
  <2>1. /\ i = phone.id /\ i \in Ids /\ Exists(i)
        /\ row[i].object \in Uploads \cup {None}
    BY <1>3, <1>t DEF Served, Offered, Published, Rows, Exists, Kept
  <2>2. /\ phone' \in Phones /\ phone'.id = phone.id /\ phone'.sha = phone.sha
        /\ phone'.link = row[i].object /\ phone'.redrafted = phone.redrafted
    BY <1>3, <1>t, <2>1 DEF Phones
  <2>3. phone.redrafted \/ row[i].object = phone.sha
    BY <1>3, <1>t, <2>1 DEF OfferIsSigned
  <2>4. ServedIsSigned'
    BY <2>2, <2>3 DEF ServedIsSigned
  <2>5. OfferIsSigned'
    BY <1>3, <1>t, <2>2 DEF OfferIsSigned, Exists
  <2> QED
    BY <2>2, <2>4, <2>5
<1>4. ASSUME UNCHANGED phone,
             (\E w \in Workers : Continue(w) /\ ~At(w, "idle")') \/ UNCHANGED row
      PROVE  OfferIsSigned' /\ ServedIsSigned' /\ phone' \in Phones
  <2>1. \A w \in Workers : UpsertRelease(w) => UNCHANGED row
    BY <1>4, <1>t, UpsertEnds
  <2>2. Redrafted = {}
    BY <1>m, <2>1 DEF FileMoves, Redrafted
  <2>3. OfferIsSigned'
    BY <1>4, <1>r, <2>2 DEF OfferIsSigned, Exists
  <2> QED
    BY <1>4, <1>t, <2>3 DEF ServedIsSigned
<1>5. ASSUME NEW w \in Workers, Answer(w)
      PROVE  OfferIsSigned' /\ ServedIsSigned' /\ phone' \in Phones
  <2>1. CASE phone.id \in Redrafted
    <3>1. phone' = [phone EXCEPT !.redrafted = TRUE]
      BY <1>5, <2>1 DEF Answer
    <3>2. phone' \in Phones /\ phone'.redrafted
      BY <3>1, <1>t DEF Phones
    <3> QED
      BY <3>2 DEF OfferIsSigned, ServedIsSigned
  <2>2. CASE phone.id \notin Redrafted
    <3>1. UNCHANGED phone
      BY <1>5, <2>2 DEF Answer
    <3>2. OfferIsSigned'
      BY <3>1, <2>2, <1>r DEF OfferIsSigned, Exists
    <3> QED
      BY <3>1, <3>2, <1>t DEF ServedIsSigned
  <2> QED
    BY <2>1, <2>2
<1> QED
  BY <1>1, <1>2, <1>3, <1>4, <1>5, PhoneSteps DEF Tells

\* What the page remembers, and the deployment.
LEMMA PendingStaysNamed ==
    ASSUME AppIInv, [AppNext]_allVars
    PROVE  /\ deployed' = deployed /\ pending' \in PendingUploads
           /\ pending' = NoUpload \/ pending'.up \in Uploads
<1>t. /\ pending \in PendingUploads /\ flow \in [Workers -> Flows]
      /\ pending = NoUpload \/ pending.up \in Uploads
  BY DEF AppIInv, AppTypeOK
<1>n. NoUpload \in PendingUploads
  BY Numbers DEF NoUpload, PendingUploads
<1>1. ASSUME NEW w \in Workers, Uploaded(w)
      PROVE  /\ deployed' = deployed /\ pending' \in PendingUploads
             /\ pending'.up \in Uploads
  <2>1. PICK u \in Uploads : pending' = [up |-> u, file |-> flow[w].file]
    BY <1>1 DEF Uploaded
  <2> QED
    BY <1>1, <1>t, <2>1 DEF Uploaded, PendingUploads, Flows
<1>2. PageStep => \/ UNCHANGED <<deployed, pending>>
                  \/ deployed' = deployed /\ pending' = NoUpload
                  \/ \E w \in Workers : Uploaded(w)
  BY DEF PageStep, Reload, BeginUpload, ResumeUpload, UploadFails, BeginOnRelease, appVars
<1>3. ASSUME NEW w \in Workers, BeginFinalize(w) \/ Serve(w) \/ Answer(w) \/ Break(w)
      PROVE  deployed' = deployed /\ (pending' = pending \/ pending' = NoUpload)
  BY <1>3 DEF BeginFinalize, Serve, Answer, Break, appVars
<1>4. (\E current \in 0 .. MaxVersion : CheckUpdate(current)) \/ AskDownload \/ ForgetUpdate
        \/ UNCHANGED allVars => UNCHANGED <<deployed, pending>>
  BY DEF CheckUpdate, AskDownload, ForgetUpdate, allVars
<1> QED
  BY <1>1, <1>2, <1>3, <1>4, <1>t, <1>n DEF AppNext

\* The updates rely on what a request has checked, on what it names, and on
\* the history of what a phone was told.
THEOREM AppInvariance == AppSpec => []AppIInv
<1>1. AppInit => AppIInv
  <2> SUFFICES ASSUME AppInit PROVE AppIInv
    OBVIOUS
  <2>1. IInv
    BY InitInvariant DEF AppInit
  <2>2. AppTypeOK
    <3>1. NoUpload \in PendingUploads /\ NoFlow \in Flows
      BY Numbers DEF NoUpload, PendingUploads, NoFlow, Flows
    <3>2. Unasked \in Phones
      BY DEF Unasked, Phones
    <3> QED
      BY <2>1, <3>1, <3>2 DEF AppInit, AppTypeOK, IInv
  <2>3. ObjectsAreNamed
    BY DEF AppInit, Init, ObjectsAreNamed, Idle, Finalizing, NoRow, Exists, Kept
  <2>4. \A w \in Workers : FlowIsServed(w)
    BY DEF AppInit, NoFlow, FlowIsServed
  <2>5. OfferIsSigned /\ ServedIsSigned
    BY DEF AppInit, Unasked, OfferIsSigned, ServedIsSigned
  <2> QED
    BY <2>1, <2>2, <2>3, <2>4, <2>5 DEF AppInit, AppIInv
<1>2. AppIInv /\ [AppNext]_allVars => AppIInv'
  <2> SUFFICES ASSUME AppIInv, [AppNext]_allVars PROVE AppIInv'
    OBVIOUS
  <2>1. IInv /\ [Next]_vars
    BY AppStepIsStep DEF AppIInv
  <2>2. IInv' /\ ObjectsAreNamed'
    BY <2>1, InvariantStep, ObjectsStayNamed DEF AppIInv
  <2>3. AppTypeOK'
    BY <2>2, FlowsStayServed, OfferStaysSigned, PendingStaysNamed DEF AppIInv, AppTypeOK, IInv
  <2> QED
    BY <2>2, <2>3, FlowsStayServed, OfferStaysSigned, PendingStaysNamed DEF AppIInv
<1> QED
  BY <1>1, <1>2, PTL DEF AppSpec

\* With its page and its phones, the backend does only what Releases describes:
\* what the theorems above say of Spec holds of the updates.
THEOREM AppImplementsReleases == AppSpec => Spec
<1>1. AppInit => Init
  BY DEF AppInit
<1>2. AppIInv /\ [AppNext]_allVars => [Next]_vars
  BY AppStepIsStep
<1> QED
  BY <1>1, <1>2, AppInvariance, PTL DEF AppSpec, Spec

\* A phone is linked to the file whose hash it was told, but for a release that
\* a late upsert has made a draft again.
THEOREM DownloadsAreSigned == AppSpec => []ServedIsSigned
<1>1. AppIInv => ServedIsSigned
  BY DEF AppIInv
<1> QED
  BY AppInvariance, <1>1, PTL

\* The page forgets an upload when a release has its object, or when it is busy
\* with another upload.
THEOREM UploadsAreRemembered == AppSpec => PendingKept
<1>1. ASSUME AppIInv, [AppNext]_allVars, pending # NoUpload, pending' # pending
      PROVE  \/ \E i \in Ids : row'[i].object = pending.up
             \/ \E w \in Workers : flow'[w] # flow[w] /\ flow[w].up # pending.up
  <2>t. /\ IInv /\ row \in [Ids -> Rows] /\ flow \in [Workers -> Flows]
        /\ pending.up \in Uploads /\ pending.up # None
        /\ \A w \in Workers : FlowIsServed(w)
    BY <1>1, Numbers DEF AppIInv, AppTypeOK, IInv, TypeOK
  <2>1. ASSUME NEW w \in Workers, Uploaded(w) \/ UploadFails(w)
        PROVE  flow'[w] # flow[w] /\ flow[w].up # pending.up
    <3>1. flow[w].pc = "upload" /\ flow[w].up = None
      BY <2>1, <2>t DEF Uploaded, UploadFails, Waiting, FlowIsServed
    <3>2. flow'[w].pc # "upload"
      BY <2>1, <2>t DEF Uploaded, UploadFails, Wait, Ends, NoFlow
    <3> QED
      BY <2>t, <3>1, <3>2
  <2>2. ASSUME NEW w \in Workers, Answer(w)
        PROVE  \/ \E i \in Ids : row'[i].object = pending.up
               \/ flow'[w] # flow[w] /\ flow[w].up # pending.up
    <3>1. flow[w].pc = "finalize" /\ req[w].pc = "upsert" /\ Continue(w)
      BY <1>1, <2>2 DEF Answer, Waiting, Forgets, At
    <3>2. flow[w].up = req[w].up
      BY <2>t, <3>1 DEF FlowIsServed, At
    <3>3. UpsertRelease(w)
      BY <3>1 DEF Continue, At, CompareWithLatest, RefuseApk, LookupVersion, DeleteReplaced,
                  DiscardUpload, CheckVersion, CheckFile, Publish, SyncLegacyAppVersion,
                  Archive, DeleteFile, DropDraft, MarkPurged
    <3>4. \E i \in Ids : row'[i].object = req[w].up
      <4>1. ASSUME NEW i \in OfVersion(req[w].version),
                   row' = [row EXCEPT ![i].status = "DRAFT", ![i].object = req[w].up]
            PROVE  i \in Ids /\ row'[i].object = req[w].up
        BY <4>1, <2>t DEF OfVersion, Rows
      <4>2. ASSUME NEW i \in Ids,
                   row' = [row EXCEPT ![i] = [status |-> "DRAFT", version |-> req[w].version,
                                              object |-> req[w].up, purged |-> FALSE]]
            PROVE  row'[i].object = req[w].up
        BY <4>2, <2>t
      <4> QED
        BY <3>3, <4>1, <4>2 DEF UpsertRelease
    <3>5. flow'[w] # flow[w]
      BY <2>2, <2>t, <3>1 DEF Answer, Ends, NoFlow
    <3> QED
      BY <3>2, <3>4, <3>5
  <2>3. PageStep => UNCHANGED pending \/ \E w \in Workers : Uploaded(w) \/ UploadFails(w)
    BY DEF PageStep, Reload, BeginUpload, ResumeUpload, BeginOnRelease, appVars
  <2>4. \A w \in Workers : BeginFinalize(w) \/ Serve(w) \/ Break(w) => UNCHANGED pending
    BY DEF BeginFinalize, Serve, Break, appVars
  <2>5. (\E current \in 0 .. MaxVersion : CheckUpdate(current)) \/ AskDownload \/ ForgetUpdate
          \/ UNCHANGED allVars => UNCHANGED pending
    BY DEF CheckUpdate, AskDownload, ForgetUpdate, allVars
  <2> QED
    BY <1>1, <2>1, <2>2, <2>3, <2>4, <2>5 DEF AppNext
<1>2. AppIInv /\ [AppNext]_allVars => ForgetsWithReason
  BY <1>1 DEF ForgetsWithReason
<1> QED
  BY <1>2, AppInvariance, PTL DEF AppSpec, PendingKept

\* Three calls remove an object; each names it by what its request has read.
LEMMA Removals ==
    ASSUME IInv, [Next]_vars, NEW u \in Uploads, apk[u] # None, apk'[u] = None
    PROVE  \E w \in Workers : \/ At(w, "discard") /\ req[w].up = u
                             \/ req[w].pc \in {"unlink", "erase", "wipe"}
<1>t. apk \in [Uploads -> {None} \cup Versions] /\ None \notin Versions
  BY Numbers DEF IInv, TypeOK
<1>1. ASSUME NEW x \in Uploads, NEW v \in Versions, PutApk(x, v)
      PROVE  FALSE
  BY <1>1, <1>t DEF PutApk
<1>2. ASSUME NEW w \in Workers, Continue(w), apk' # apk
      PROVE  \/ At(w, "discard") /\ req[w].up = u
             \/ req[w].pc \in {"unlink", "erase", "wipe"}
  <2>1. DeleteReplaced(w) \/ DiscardUpload(w) \/ DeleteFile(w)
    BY <1>2 DEF Continue, CompareWithLatest, RefuseApk, LookupVersion, UpsertRelease,
                CheckVersion, CheckFile, Publish, SyncLegacyAppVersion, Archive, DropDraft,
                MarkPurged, Write
  <2>2. CASE DiscardUpload(w)
    BY <1>t, <2>2 DEF DiscardUpload, Remove
  <2> QED
    BY <2>1, <2>2 DEF DeleteReplaced, DeleteFile, At
<1>3. ASSUME NEW w \in Workers, Begin(w) \/ Crash(w)
      PROVE  FALSE
  BY <1>3 DEF Begin, Crash, ReadApk, ReadForPublish, ReadForArchive, ReadForDelete, ReadForPurge
<1> QED
  BY <1>1, <1>2, <1>3 DEF Next, vars

\* The published release keeps its file, but for a repeated finalization and for
\* requests that read the release before it was published.
THEOREM CurrentFileStays == AppSpec => FileStays
<1>1. ASSUME AppIInv, [AppNext]_allVars, NEW i \in Published,
             Head(row[i].object), apk'[row[i].object] = None
      PROVE  \E w \in Workers :
                 \/ At(w, "discard") /\ req[w].up = row[i].object
                 \/ /\ req[w].pc \in {"unlink", "erase", "wipe"}
                    /\ req[w].seen # "PUBLISHED"
  <2>1. IInv /\ [Next]_vars /\ \A w \in Workers : Checked(w)
    BY <1>1, AppStepIsStep DEF AppIInv, IInv
  <2>2. row[i].object \in Uploads /\ apk[row[i].object] # None
    BY <1>1 DEF AppIInv, ObjectsAreNamed, Published, Exists, Kept, Head
  <2>3. PICK w \in Workers : \/ At(w, "discard") /\ req[w].up = row[i].object
                            \/ req[w].pc \in {"unlink", "erase", "wipe"}
    BY <1>1, <2>1, <2>2, Removals
  <2>4. req[w].pc \in {"unlink", "erase", "wipe"} => req[w].seen # "PUBLISHED"
    BY <2>1 DEF Checked
  <2> QED
    BY <2>3, <2>4
<1>2. AppIInv /\ [AppNext]_allVars => LosesFileUnaware
  BY <1>1 DEF LosesFileUnaware
<1> QED
  BY <1>2, AppInvariance, PTL DEF AppSpec, FileStays
=============================================================================
