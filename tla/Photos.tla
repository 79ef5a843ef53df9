-------------------------------- MODULE Photos --------------------------------
(***************************************************************************)
(* PhotosService for one photo: its database row, its S3 objects (the      *)
(* original and the thumbnail), the presigned URL the phone uploads to,    *)
(* the thumbnail tasks that confirmations leave in the background, and     *)
(* deletion.  The row and the bucket are written by separate calls, any of *)
(* which may fail, and the process may die between them.                   *)
(***************************************************************************)
EXTENDS Integers, FiniteSets

CONSTANTS
  Tasks,          \* thumbnail tasks in the background at once
  Deletes,        \* delete requests in progress at once
  MaxFailures     \* bound on crashes and errors of S3 or the database

VARIABLES
  extension,      \* has the file name a dot? (filename is only required)
  row,            \* "none" before generateUploadUrl, then "there", then "deleted"
  thumbnailUrl,   \* is the row's thumbnailUrl set?
  bucket,         \* what each S3 object holds: nothing, a photo or a thumbnail
  urlValid,       \* may the phone still upload? (15 minutes)
  task,           \* the statement each thumbnail task is at
  delete,         \* the statement each delete request is at
  excused,        \* history: an S3 delete failed, or an upload or a thumbnail
                  \* arrived after a request had begun to delete
  crashes

pvars == <<extension, row, thumbnailUrl, bucket, urlValid, task, delete, excused, crashes>>

Objects == {"original", "thumbnail"}
Deleting == row = "deleted" \/ \E d \in Deletes : delete[d] = "row"

Init ==
  /\ extension \in BOOLEAN
  /\ row = "none" /\ thumbnailUrl = FALSE /\ urlValid = FALSE
  /\ bucket = [o \in Objects |-> "nothing"]
  /\ task = [k \in Tasks |-> "idle"]
  /\ delete = [d \in Deletes |-> "idle"]
  /\ excused = FALSE /\ crashes = 0

-----------------------------------------------------------------------------
\* generateUploadUrl: the row is created with the URL its object will have,
\* and only then the upload is signed, which may fail.
GenerateUploadUrl ==
  /\ row = "none"
  /\ row' = "there" /\ urlValid' \in BOOLEAN
  /\ UNCHANGED <<extension, thumbnailUrl, bucket, task, delete, excused, crashes>>

\* The phone puts the photo, as often and as late as the URL allows.
Upload ==
  /\ urlValid
  /\ bucket' = [bucket EXCEPT !["original"] = "photo"]
  /\ excused' = (excused \/ Deleting)
  /\ UNCHANGED <<extension, row, thumbnailUrl, urlValid, task, delete, crashes>>

UrlExpires ==
  /\ urlValid /\ urlValid' = FALSE
  /\ UNCHANGED <<extension, row, thumbnailUrl, bucket, task, delete, excused, crashes>>

\* confirmUpload believes the caller that the photo is there, and starts
\* generateThumbnail without awaiting it.
ConfirmUpload(k) ==
  /\ row = "there" /\ task[k] = "idle"
  /\ task' = [task EXCEPT ![k] = "find"]
  /\ UNCHANGED <<extension, row, thumbnailUrl, bucket, urlValid, delete, excused, crashes>>

-----------------------------------------------------------------------------
(* generateThumbnail *)

Goto(k, pc) == task' = [task EXCEPT ![k] = pc]

FindPhoto(k) ==
  /\ task[k] = "find"
  /\ Goto(k, IF row = "there" THEN "get" ELSE "idle")
  /\ UNCHANGED <<extension, row, thumbnailUrl, bucket, urlValid, delete, excused, crashes>>

\* An object that is not there is an error, which the task catches.
GetOriginal(k) ==
  /\ task[k] = "get"
  /\ Goto(k, IF bucket["original"] = "nothing" THEN "idle" ELSE "put")
  /\ UNCHANGED <<extension, row, thumbnailUrl, bucket, urlValid, delete, excused, crashes>>

\* Mutant: the row is updated before the thumbnail is put.
PutAfterUpdate(k) ==
  /\ task[k] = "put" /\ row = "there"
  /\ Goto(k, "update") /\ thumbnailUrl' = TRUE
  /\ UNCHANGED <<extension, row, bucket, urlValid, delete, excused, crashes>>

\* The key of the thumbnail: _thumb goes before the extension, so that without
\* an extension it is the key of the original.
ThumbnailKey == IF extension THEN "thumbnail" ELSE "original"

PutThumbnail(k) ==
  /\ task[k] = "put"
  /\ Goto(k, "update")
  /\ bucket' = [bucket EXCEPT ![ThumbnailKey] = "thumbnail"]
  /\ excused' = (excused \/ (~extension /\ Deleting))
  /\ UNCHANGED <<extension, row, thumbnailUrl, urlValid, delete, crashes>>

\* The update of a row deleted meanwhile is an error, caught.
UpdatePhoto(k) ==
  /\ task[k] = "update"
  /\ Goto(k, "idle")
  /\ thumbnailUrl' = (thumbnailUrl \/ row = "there")
  /\ UNCHANGED <<extension, row, bucket, urlValid, delete, excused, crashes>>

TaskFails(k) ==
  /\ task[k] # "idle" /\ crashes < MaxFailures
  /\ Goto(k, "idle") /\ crashes' = crashes + 1
  /\ UNCHANGED <<extension, row, thumbnailUrl, bucket, urlValid, delete, excused>>

-----------------------------------------------------------------------------
(* deletePhoto *)

FindDeleted(d) ==
  /\ delete[d] = "idle" /\ row = "there"
  /\ delete' = [delete EXCEPT ![d] = "object"]
  /\ UNCHANGED <<extension, row, thumbnailUrl, bucket, urlValid, task, excused, crashes>>

\* Mutant: no key is found in the row's URL, and the deletion goes on.
DeleteUnknownObject(d) ==
  /\ delete[d] = "object"
  /\ delete' = [delete EXCEPT ![d] = "row"]
  /\ UNCHANGED <<extension, row, thumbnailUrl, bucket, urlValid, task, excused, crashes>>

\* Only the original is deleted; the thumbnail stays in the bucket.
DeleteObject(d) ==
  /\ delete[d] = "object"
  /\ bucket' = [bucket EXCEPT !["original"] = "nothing"]
  /\ delete' = [delete EXCEPT ![d] = "row"]
  /\ UNCHANGED <<extension, row, thumbnailUrl, urlValid, task, excused, crashes>>

\* An error of S3 is logged, and the row is deleted all the same.
DeleteObjectFails(d) ==
  /\ delete[d] = "object" /\ crashes < MaxFailures
  /\ delete' = [delete EXCEPT ![d] = "row"]
  /\ excused' = TRUE /\ crashes' = crashes + 1
  /\ UNCHANGED <<extension, row, thumbnailUrl, bucket, urlValid, task>>

\* A second deletion finds no row to delete, which is an error.
DeleteRow(d) ==
  /\ delete[d] = "row"
  /\ row' = "deleted" /\ delete' = [delete EXCEPT ![d] = "idle"]
  /\ UNCHANGED <<extension, thumbnailUrl, bucket, urlValid, task, excused, crashes>>

DeleteFails(d) ==
  /\ delete[d] # "idle" /\ crashes < MaxFailures
  /\ delete' = [delete EXCEPT ![d] = "idle"] /\ crashes' = crashes + 1
  /\ UNCHANGED <<extension, row, thumbnailUrl, bucket, urlValid, task, excused>>

Crash ==
  /\ crashes < MaxFailures /\ crashes' = crashes + 1
  /\ task' = [k \in Tasks |-> "idle"] /\ delete' = [d \in Deletes |-> "idle"]
  /\ UNCHANGED <<extension, row, thumbnailUrl, bucket, urlValid, excused>>

-----------------------------------------------------------------------------
Next ==
  \/ GenerateUploadUrl \/ Upload \/ UrlExpires \/ Crash
  \/ \E k \in Tasks : ConfirmUpload(k) \/ FindPhoto(k) \/ GetOriginal(k)
                        \/ PutThumbnail(k) \/ UpdatePhoto(k) \/ TaskFails(k)
  \/ \E d \in Deletes : FindDeleted(d) \/ DeleteObject(d) \/ DeleteObjectFails(d)
                          \/ DeleteRow(d) \/ DeleteFails(d)

Spec == Init /\ [][Next]_pvars

-----------------------------------------------------------------------------
(* The row, the bucket and the tasks have their types. *)
TypeOK ==
  /\ extension \in BOOLEAN /\ row \in {"none", "there", "deleted"}
  /\ thumbnailUrl \in BOOLEAN /\ urlValid \in BOOLEAN /\ excused \in BOOLEAN
  /\ bucket \in [Objects -> {"nothing", "photo", "thumbnail"}]
  /\ task \in [Tasks -> {"idle", "find", "get", "put", "update"}]
  /\ delete \in [Deletes -> {"idle", "object", "row"}]
  /\ crashes \in 0..MaxFailures

(* A row's thumbnailUrl names an object that is there: it is set after the     *)
(* thumbnail is put and no deletion takes the thumbnail away, wherever a task  *)
(* fails and however tasks and deletions overlap.                              *)
ThumbnailIsThere ==
  row = "there" /\ thumbnailUrl /\ extension => bucket["thumbnail"] = "thumbnail"

(* Once the row is gone nobody can delete the object any more: an original     *)
(* without its row is left only where S3 refused to delete it, or where an     *)
(* upload or a thumbnail of a name without extension came after the deletion   *)
(* had begun; never because the process died.                                  *)
NoOrphanByCrash == row = "deleted" /\ bucket["original"] # "nothing" => excused

(* "Don't throw - thumbnail generation is not critical" (photos.service.ts:276):*)
(* making a thumbnail never changes the photo itself.                          *)
OriginalKept ==
  [][bucket["original"] = "photo" => bucket'["original"] # "thumbnail"]_pvars

=============================================================================
