---------------------------- MODULE ServicesProofs ----------------------------
(***************************************************************************)
(* Theorems about Services: its safety properties, for any number of       *)
(* requests, processes, users, uploads and polls, and any bounds.  The     *)
(* invariants of photos, visits, the result pages, the rate limits, audio  *)
(* and the metrics page are shown here, those of loyalty, chat and search  *)
(* in modules of their own, which are instantiated as Services does the    *)
(* models.  PartSteps carries each over to the steps of Services.          *)
(***************************************************************************)
EXTENDS Services, FiniteSetTheorems, SequenceTheorems, TLAPS

\* Whatever part moves, a step of Services is a step or a stutter of each part.
LEMMA PartSteps ==
  [Next]_vars => /\ [Photo!Next]_(Photo!pvars) /\ [Visit!Next]_(Visit!svars)
                 /\ [Points!Next]_(Points!lvars) /\ [Walk!Next]_(Walk!wvars)
                 /\ [Room!Next]_(Room!cvars) /\ [Results!Next]_(Results!fvars)
                 /\ [Limits!Next]_(Limits!rvars) /\ [Speech!Next]_(Speech!avars)
                 /\ [Charts!Next]_(Charts!vars)
<1>1. [Next]_vars => [Photo!Next]_(Photo!pvars)
  BY DEF Next, vars, PhotoVars, Photo!pvars
<1>2. [Next]_vars => [Visit!Next]_(Visit!svars)
  BY DEF Next, vars, VisitVars, Visit!svars
<1>3. [Next]_vars => [Points!Next]_(Points!lvars)
  BY DEF Next, vars, PointsVars, Points!lvars
<1>4. [Next]_vars => [Walk!Next]_(Walk!wvars)
  BY DEF Next, vars, WalkVars, Walk!wvars
<1>5. [Next]_vars => [Room!Next]_(Room!cvars)
  BY DEF Next, vars, RoomVars, Room!cvars
<1>6. [Next]_vars => [Results!Next]_(Results!fvars)
  BY DEF Next, vars, ResultsVars, Results!fvars
<1>7. [Next]_vars => [Limits!Next]_(Limits!rvars)
  BY DEF Next, vars, LimitsVars, Limits!rvars
<1>8. [Next]_vars => [Speech!Next]_(Speech!avars)
  BY DEF Next, vars, SpeechVars, Speech!avars
<1>9. [Next]_vars => [Charts!Next]_(Charts!vars)
  BY DEF Next, vars, ChartsVars, Charts!vars
<1> QED BY <1>1, <1>2, <1>3, <1>4, <1>5, <1>6, <1>7, <1>8, <1>9

LEMMA PartInits ==
  Init => /\ Photo!Init /\ Visit!Init /\ Points!Init /\ Room!Init /\ Results!Init
          /\ Limits!Init /\ Speech!Init /\ Charts!Init
BY DEF Init

-----------------------------------------------------------------------------
(* Photos: types *)

LEMMA PhotoTypesInit == Photo!Init => Photo!TypeOK
<1>1. 0 \in 0..MaxFailures
  BY PhotoAssumption
<1> QED BY <1>1 DEF Photo!Init, Photo!TypeOK, Photo!Objects

LEMMA PhotoTypesNext == Photo!TypeOK /\ [Photo!Next]_(Photo!pvars) => Photo!TypeOK'
<1> SUFFICES ASSUME Photo!TypeOK, [Photo!Next]_(Photo!pvars) PROVE Photo!TypeOK'
  OBVIOUS
<1> USE PhotoAssumption DEF Photo!TypeOK
<1>1. CASE Photo!GenerateUploadUrl
  BY <1>1 DEF Photo!GenerateUploadUrl
<1>2. CASE Photo!Upload
  BY <1>2 DEF Photo!Upload, Photo!Deleting, Photo!Objects
<1>3. CASE Photo!UrlExpires
  BY <1>3 DEF Photo!UrlExpires
<1>4. CASE Photo!Crash
  BY <1>4 DEF Photo!Crash
<1>5. ASSUME NEW k \in Tasks,
             \/ Photo!ConfirmUpload(k) \/ Photo!FindPhoto(k) \/ Photo!GetOriginal(k)
             \/ Photo!PutThumbnail(k) \/ Photo!UpdatePhoto(k) \/ Photo!TaskFails(k)
      PROVE  Photo!TypeOK'
  <2>1. CASE Photo!ConfirmUpload(k)
    BY <2>1 DEF Photo!ConfirmUpload
  <2>2. CASE Photo!FindPhoto(k)
    BY <2>2 DEF Photo!FindPhoto, Photo!Goto
  <2>3. CASE Photo!GetOriginal(k)
    BY <2>3 DEF Photo!GetOriginal, Photo!Goto
  <2>4. CASE Photo!PutThumbnail(k)
    BY <2>4 DEF Photo!PutThumbnail, Photo!Goto, Photo!ThumbnailKey, Photo!Deleting,
                Photo!Objects
  <2>5. CASE Photo!UpdatePhoto(k)
    BY <2>5 DEF Photo!UpdatePhoto, Photo!Goto
  <2>6. CASE Photo!TaskFails(k)
    BY <2>6 DEF Photo!TaskFails, Photo!Goto
  <2> QED BY <1>5, <2>1, <2>2, <2>3, <2>4, <2>5, <2>6
<1>6. ASSUME NEW d \in Deletes,
             \/ Photo!FindDeleted(d) \/ Photo!DeleteObject(d) \/ Photo!DeleteObjectFails(d)
             \/ Photo!DeleteRow(d) \/ Photo!DeleteFails(d)
      PROVE  Photo!TypeOK'
  <2>1. CASE Photo!FindDeleted(d)
    BY <2>1 DEF Photo!FindDeleted
  <2>2. CASE Photo!DeleteObject(d)
    BY <2>2 DEF Photo!DeleteObject, Photo!Objects
  <2>3. CASE Photo!DeleteObjectFails(d)
    BY <2>3 DEF Photo!DeleteObjectFails
  <2>4. CASE Photo!DeleteRow(d)
    BY <2>4 DEF Photo!DeleteRow
  <2>5. CASE Photo!DeleteFails(d)
    BY <2>5 DEF Photo!DeleteFails
  <2> QED BY <1>6, <2>1, <2>2, <2>3, <2>4, <2>5
<1>7. CASE UNCHANGED Photo!pvars
  BY <1>7 DEF Photo!pvars
<1> QED BY <1>1, <1>2, <1>3, <1>4, <1>5, <1>6, <1>7 DEF Photo!Next

-----------------------------------------------------------------------------
(* Photos: the thumbnail *)

\* A task about to update the row has put the thumbnail, and once it is put it
\* stays: nothing but a thumbnail is ever written to its key.
ThumbnailStays ==
  extension /\ (thumbnailUrl \/ \E k \in Tasks : task[k] = "update")
    => bucket["thumbnail"] = "thumbnail"

LEMMA ThumbnailStaysNext ==
  Photo!TypeOK /\ ThumbnailStays /\ [Photo!Next]_(Photo!pvars) => ThumbnailStays'
<1> SUFFICES ASSUME Photo!TypeOK, ThumbnailStays, [Photo!Next]_(Photo!pvars)
             PROVE  ThumbnailStays'
  OBVIOUS
<1> USE DEF Photo!TypeOK, ThumbnailStays, Photo!Objects
<1>1. CASE Photo!GenerateUploadUrl \/ Photo!UrlExpires
  BY <1>1 DEF Photo!GenerateUploadUrl, Photo!UrlExpires
<1>2. CASE Photo!Upload
  <2>1. bucket'["thumbnail"] = bucket["thumbnail"]
    BY <1>2 DEF Photo!Upload
  <2> QED BY <1>2, <2>1 DEF Photo!Upload
<1>3. CASE Photo!Crash
  BY <1>3 DEF Photo!Crash
<1>4. ASSUME NEW k \in Tasks,
             \/ Photo!ConfirmUpload(k) \/ Photo!FindPhoto(k)
             \/ Photo!GetOriginal(k) \/ Photo!TaskFails(k)
      PROVE  ThumbnailStays'
  \* No task comes to its update, and the bucket stays as it is.
  <2>1. /\ UNCHANGED <<extension, thumbnailUrl, bucket>>
        /\ \A j \in Tasks : task'[j] = "update" => task[j] = "update"
    BY <1>4 DEF Photo!ConfirmUpload, Photo!FindPhoto, Photo!GetOriginal, Photo!TaskFails,
                Photo!Goto
  <2> QED BY <2>1
<1>5. ASSUME NEW k \in Tasks, Photo!PutThumbnail(k) PROVE ThumbnailStays'
  <2>1. extension' = extension
    BY <1>5 DEF Photo!PutThumbnail
  <2>2. CASE extension
    BY <1>5, <2>2 DEF Photo!PutThumbnail, Photo!ThumbnailKey
  <2> QED BY <2>1, <2>2
<1>6. ASSUME NEW k \in Tasks, Photo!UpdatePhoto(k) PROVE ThumbnailStays'
  \* The task itself was about to update.
  <2>1. /\ task[k] = "update" /\ UNCHANGED <<extension, bucket>>
    BY <1>6 DEF Photo!UpdatePhoto
  <2> QED BY <2>1
<1>7. ASSUME NEW d \in Deletes,
             \/ Photo!FindDeleted(d) \/ Photo!DeleteObject(d) \/ Photo!DeleteObjectFails(d)
             \/ Photo!DeleteRow(d) \/ Photo!DeleteFails(d)
      PROVE  ThumbnailStays'
  <2>1. /\ UNCHANGED <<extension, thumbnailUrl, task>>
        /\ bucket'["thumbnail"] = bucket["thumbnail"]
    BY <1>7 DEF Photo!FindDeleted, Photo!DeleteObject, Photo!DeleteObjectFails,
                Photo!DeleteRow, Photo!DeleteFails
  <2> QED BY <2>1
<1>8. CASE UNCHANGED Photo!pvars
  BY <1>8 DEF Photo!pvars
<1> QED BY <1>1, <1>2, <1>3, <1>4, <1>5, <1>6, <1>7, <1>8 DEF Photo!Next

\* However tasks and deletions overlap, and wherever they fail, the thumbnail
\* a row names is in the bucket: generateThumbnail puts it before the update,
\* and no deletion takes it away.
THEOREM ThumbnailSafety == Spec => []ThumbnailIsThere
<1>1. Init => Photo!TypeOK /\ ThumbnailStays
  BY PartInits, PhotoTypesInit DEF Photo!Init, ThumbnailStays
<1>2. Photo!TypeOK /\ ThumbnailStays /\ [Next]_vars => Photo!TypeOK' /\ ThumbnailStays'
  BY PartSteps, PhotoTypesNext, ThumbnailStaysNext
<1>3. ThumbnailStays => ThumbnailIsThere
  BY DEF ThumbnailStays, ThumbnailIsThere, Photo!ThumbnailIsThere
<1> QED BY <1>1, <1>2, <1>3, PTL DEF Spec

-----------------------------------------------------------------------------
(* Photos: the original *)

\* From the moment a request has passed the object it deletes, an original in
\* the bucket has an excuse, whether or not that request gets to the row.
ExcusedOnceDeleting == Photo!Deleting /\ bucket["original"] # "nothing" => excused

LEMMA ExcusedNext ==
  Photo!TypeOK /\ ExcusedOnceDeleting /\ [Photo!Next]_(Photo!pvars) => ExcusedOnceDeleting'
<1> SUFFICES ASSUME Photo!TypeOK, ExcusedOnceDeleting, [Photo!Next]_(Photo!pvars)
             PROVE  ExcusedOnceDeleting'
  OBVIOUS
<1> USE DEF Photo!TypeOK, ExcusedOnceDeleting, Photo!Objects
<1>1. CASE Photo!GenerateUploadUrl \/ Photo!UrlExpires
  BY <1>1 DEF Photo!GenerateUploadUrl, Photo!UrlExpires, Photo!Deleting
<1>2. CASE Photo!Upload
  BY <1>2 DEF Photo!Upload, Photo!Deleting
<1>3. CASE Photo!Crash
  BY <1>3 DEF Photo!Crash, Photo!Deleting
<1>4. ASSUME NEW k \in Tasks,
             \/ Photo!ConfirmUpload(k) \/ Photo!FindPhoto(k) \/ Photo!GetOriginal(k)
             \/ Photo!UpdatePhoto(k) \/ Photo!TaskFails(k)
      PROVE  ExcusedOnceDeleting'
  <2>1. UNCHANGED <<photo, bucket, delete, excused>>
    BY <1>4 DEF Photo!ConfirmUpload, Photo!FindPhoto, Photo!GetOriginal, Photo!UpdatePhoto,
                Photo!TaskFails
  <2> QED BY <2>1 DEF Photo!Deleting
<1>5. ASSUME NEW k \in Tasks, Photo!PutThumbnail(k) PROVE ExcusedOnceDeleting'
  <2>1. Photo!Deleting' = Photo!Deleting
    BY <1>5 DEF Photo!PutThumbnail, Photo!Deleting
  <2>2. CASE extension
    \* The key is another one.
    BY <1>5, <2>1, <2>2 DEF Photo!PutThumbnail, Photo!ThumbnailKey
  <2>3. CASE ~extension
    BY <1>5, <2>1, <2>3 DEF Photo!PutThumbnail
  <2> QED BY <2>2, <2>3
<1>6. ASSUME NEW d \in Deletes, Photo!DeleteObject(d) PROVE ExcusedOnceDeleting'
  BY <1>6 DEF Photo!DeleteObject
<1>7. ASSUME NEW d \in Deletes, Photo!DeleteObjectFails(d) PROVE ExcusedOnceDeleting'
  BY <1>7 DEF Photo!DeleteObjectFails
<1>8. ASSUME NEW d \in Deletes,
             Photo!FindDeleted(d) \/ Photo!DeleteRow(d) \/ Photo!DeleteFails(d)
      PROVE  ExcusedOnceDeleting'
  <2>1. UNCHANGED <<bucket, excused>> /\ (Photo!Deleting' => Photo!Deleting)
    BY <1>8 DEF Photo!FindDeleted, Photo!DeleteRow, Photo!DeleteFails, Photo!Deleting
  <2> QED BY <2>1
<1>9. CASE UNCHANGED Photo!pvars
  BY <1>9 DEF Photo!pvars, Photo!Deleting
<1> QED BY <1>1, <1>2, <1>3, <1>4, <1>5, <1>6, <1>7, <1>8, <1>9 DEF Photo!Next

\* A crash of the process between the two deletions of deletePhoto never leaves
\* an original nobody can delete: the object goes before the row.
THEOREM OrphanSafety == Spec => []NoOrphanByCrash
<1>1. Init => Photo!TypeOK /\ ExcusedOnceDeleting
  BY PartInits, PhotoTypesInit DEF Photo!Init, ExcusedOnceDeleting, Photo!Objects
<1>2. Photo!TypeOK /\ ExcusedOnceDeleting /\ [Next]_vars
        => Photo!TypeOK' /\ ExcusedOnceDeleting'
  BY PartSteps, PhotoTypesNext, ExcusedNext
<1>3. ExcusedOnceDeleting => NoOrphanByCrash
  BY DEF ExcusedOnceDeleting, NoOrphanByCrash, Photo!NoOrphanByCrash, Photo!Deleting
<1> QED BY <1>1, <1>2, <1>3, PTL DEF Spec

-----------------------------------------------------------------------------
(* Visits: types *)

VisitRow == [status : {"none", "pending_schedule", "scheduled", "provider_rejected",
                       "completed"},
             provider : Providers, turn : 1..MaxTurns]
VisitRequest == [pc : {"free", "recent", "insert"},
                 kind : {"none", "CHECK_IN", "CHECK_OUT", "LOCATION"},
                 by : Providers, time : 0..Horizon, raced : BOOLEAN]
Checkpoint == [type : {"CHECK_IN", "CHECK_OUT"}, by : Providers]
Location == [created : 0..Horizon, time : 0..Horizon]

\* What is about to be inserted is of one of the three kinds.
VisitTypes ==
  /\ visit \in VisitRow /\ checkpoints \subseteq Checkpoint /\ locations \subseteq Location
  /\ request \in [Requests -> VisitRequest] /\ clock \in 0..Horizon
  /\ \A r \in Requests : request[r].pc # "free" => request[r].kind # "none"

LEMMA FreeRequest ==
  /\ Visit!Free \in VisitRequest /\ Visit!Free.pc = "free"
  /\ \A q \in VisitRequest : /\ [q EXCEPT !.pc = "insert"] \in VisitRequest
                              /\ [q EXCEPT !.pc = "insert"].kind = q.kind
<1>1. (CHOOSE p \in Providers : TRUE) \in Providers
  BY VisitAssumption
<1>2. 0 \in 0..Horizon
  BY VisitAssumption
<1> QED BY <1>1, <1>2 DEF Visit!Free, VisitRequest

LEMMA VisitTypesInit == Visit!Init => VisitTypes
<1> SUFFICES ASSUME Visit!Init PROVE VisitTypes
  OBVIOUS
<1>1. 0 \in 0..Horizon /\ 1 \in 1..MaxTurns
  BY VisitAssumption
<1>2. visit \in VisitRow
  BY <1>1 DEF Visit!Init, VisitRow
<1> QED BY <1>1, <1>2, FreeRequest DEF Visit!Init, VisitTypes

LEMMA VisitTypesNext == VisitTypes /\ [Visit!Next]_(Visit!svars) => VisitTypes'
<1> SUFFICES ASSUME VisitTypes, [Visit!Next]_(Visit!svars) PROVE VisitTypes'
  OBVIOUS
<1> USE VisitAssumption DEF VisitTypes
<1>1. CASE Visit!Schedule \/ Visit!Reject \/ Visit!Unschedule
  <2>1. PICK to \in {"scheduled", "provider_rejected", "completed"} :
          visit' = [visit EXCEPT !.status = to]
    BY <1>1 DEF Visit!Schedule, Visit!Reject, Visit!Unschedule, Visit!SetRow
  <2>2. UNCHANGED <<checkpoints, locations, request, clock>>
    BY <1>1 DEF Visit!Schedule, Visit!Reject, Visit!Unschedule, Visit!SetRow
  <2>3. visit' \in VisitRow
    BY <2>1 DEF VisitRow
  <2> QED BY <2>2, <2>3
<1>2. CASE Visit!Revoke
  BY <1>2 DEF Visit!Revoke, VisitRow
<1>3. CASE Visit!Tick
  BY <1>3 DEF Visit!Tick
<1>4. ASSUME NEW p \in Providers, Visit!Reaccept(p) PROVE VisitTypes'
  <2>1. visit' \in VisitRow
    BY <1>4 DEF Visit!Reaccept, Visit!SetRow, VisitRow
  <2> QED BY <1>4, <2>1 DEF Visit!Reaccept, Visit!SetRow
<1>5. ASSUME NEW r \in Requests, NEW p \in Providers,
             NEW kind \in {"CHECK_IN", "CHECK_OUT", "LOCATION"},
             NEW pc \in {"recent", "insert"}, NEW t \in 0..Horizon,
             Visit!Begin(r, p, kind, pc, t)
      PROVE  VisitTypes'
  <2>1. [pc |-> pc, kind |-> kind, by |-> p, time |-> t, raced |-> FALSE] \in VisitRequest
    BY DEF VisitRequest
  <2> QED BY <1>5, <2>1 DEF Visit!Begin
<1>6. ASSUME NEW r \in Requests, NEW p \in Providers,
             Visit!CheckInRead(r, p) \/ Visit!CheckOutRead(r, p) \/ Visit!LocationRead(r, p)
      PROVE  VisitTypes'
  <2>1. 0 \in 0..Horizon /\ 0..clock \subseteq 0..Horizon
    OBVIOUS
  <2> QED BY <1>5, <1>6, <2>1 DEF Visit!CheckInRead, Visit!CheckOutRead, Visit!LocationRead
<1>7. ASSUME NEW r \in Requests, Visit!LocationCheck(r) PROVE VisitTypes'
  <2>1. CASE Visit!Recent = {}
    <3>1. /\ request' = [request EXCEPT ![r] = [request[r] EXCEPT !.pc = "insert"]]
          /\ request[r].pc # "free" /\ request[r] \in VisitRequest
          /\ UNCHANGED <<visit, checkpoints, locations, clock>>
      BY <1>7, <2>1 DEF Visit!LocationCheck
    <3> QED BY <3>1, FreeRequest
  <2>2. CASE Visit!Recent # {}
    BY <1>7, <2>2, FreeRequest DEF Visit!LocationCheck
  <2> QED BY <2>1, <2>2
<1>8. ASSUME NEW r \in Requests, Visit!LocationInsert(r) PROVE VisitTypes'
  <2>1. [created |-> clock, time |-> request[r].time] \in Location
    BY DEF Location, VisitRequest
  <2>2. \A q \in Requests : [request[q] EXCEPT !.raced = @ \/ request[q].pc = "insert"]
                              \in VisitRequest
    BY DEF VisitRequest
  <2> QED BY <1>8, <2>1, <2>2, FreeRequest DEF Visit!LocationInsert
<1>9. ASSUME NEW r \in Requests, Visit!CheckpointInsert(r) PROVE VisitTypes'
  <2>1. [type |-> request[r].kind, by |-> request[r].by] \in Checkpoint
    BY <1>9 DEF Visit!CheckpointInsert, Checkpoint, VisitRequest
  <2> QED BY <1>9, <2>1, FreeRequest DEF Visit!CheckpointInsert
<1>10. ASSUME NEW r \in Requests, Visit!RequestFails(r) PROVE VisitTypes'
  BY <1>10, FreeRequest DEF Visit!RequestFails
<1>11. CASE UNCHANGED Visit!svars
  BY <1>11 DEF Visit!svars
<1> QED BY <1>1, <1>2, <1>3, <1>4, <1>6, <1>7, <1>8, <1>9, <1>10, <1>11
        DEF Visit!Next, Visit!Step

-----------------------------------------------------------------------------
(* Visits: the locations shown, and how often they are stored *)

\* What the provider's phone sends late or out of order never takes the
\* customer's map back: getLatestLocation chooses by the time it was taken.
THEOREM LocationForward == Spec => LocationNeverGoesBack
<1> DEFINE Forward == \A l \in Visit!Shown(locations), k \in Visit!Shown(locations)' :
                        k.time >= l.time
<1>1. Init => VisitTypes
  BY PartInits, VisitTypesInit
<1>2. VisitTypes /\ [Next]_vars => VisitTypes'
  BY PartSteps, VisitTypesNext
<1>3. VisitTypes /\ VisitTypes' /\ [Next]_vars => [Forward]_(Visit!svars)
  <2> SUFFICES ASSUME VisitTypes, VisitTypes', Visit!Next,
                      NEW l \in Visit!Shown(locations), NEW k \in Visit!Shown(locations)'
               PROVE  k.time >= l.time
    BY PartSteps
  <2> USE VisitAssumption DEF VisitTypes, Location
  <2>1. /\ l \in locations /\ l.time >= clock - FreshFor
        /\ \A m \in locations : m.time >= clock - FreshFor => m.time <= l.time
        /\ k \in locations' /\ k.time >= clock' - FreshFor
        /\ \A m \in locations' : m.time >= clock' - FreshFor => m.time <= k.time
    BY DEF Visit!Shown
  <2>2. CASE locations \subseteq locations' /\ clock' = clock
    BY <2>1, <2>2
  <2>3. CASE Visit!Revoke
    BY <2>1, <2>3 DEF Visit!Revoke
  <2>4. CASE Visit!Tick
    \* A location too old now is older than what is shown.
    <3>1. locations' = locations /\ clock' = clock + 1
      BY <2>4 DEF Visit!Tick
    <3> QED BY <2>1, <3>1
  <2>5. CASE ~ Visit!Revoke /\ ~ Visit!Tick
    <3>1. \A r \in Requests : Visit!Step(r) => locations \subseteq locations' /\ clock' = clock
      BY DEF Visit!Step, Visit!CheckInRead, Visit!CheckOutRead, Visit!LocationRead, Visit!Begin,
             Visit!LocationCheck, Visit!LocationInsert, Visit!CheckpointInsert,
             Visit!RequestFails
    <3>2. locations \subseteq locations' /\ clock' = clock
      BY <2>5, <3>1 DEF Visit!Next, Visit!Schedule, Visit!Reject, Visit!Unschedule,
             Visit!Reaccept, Visit!SetRow
    <3> QED BY <2>2, <3>2
  <2> QED BY <2>3, <2>4, <2>5
<1> QED BY <1>1, <1>2, <1>3, PTL DEF Spec, LocationNeverGoesBack, Visit!LocationNeverGoesBack

\* A request that found no recent location still would, unless another one was
\* inserted since.
SpacedInv ==
  \A r \in Requests :
    request[r].pc = "insert" /\ request[r].kind = "LOCATION" /\ ~request[r].raced
      => \A l \in locations : l.created < clock - Interval

LEMMA SpacedInvNext ==
  VisitTypes /\ SpacedInv /\ [Visit!Next]_(Visit!svars) => SpacedInv'
<1> SUFFICES ASSUME VisitTypes, SpacedInv, [Visit!Next]_(Visit!svars), NEW q \in Requests,
                    request'[q].pc = "insert", request'[q].kind = "LOCATION",
                    ~request'[q].raced, NEW l \in locations'
             PROVE  l.created < clock' - Interval
  BY DEF SpacedInv
<1> USE VisitAssumption DEF VisitTypes, Location
<1>0. ASSUME request'[q] = request[q], locations' \subseteq locations, clock' = clock
      PROVE  l.created < clock' - Interval
  BY <1>0 DEF SpacedInv
<1>1. CASE \/ Visit!Schedule \/ Visit!Reject \/ Visit!Unschedule \/ Visit!Revoke
           \/ \E p \in Providers : Visit!Reaccept(p)
  BY <1>0, <1>1 DEF Visit!Schedule, Visit!Reject, Visit!Unschedule, Visit!Revoke,
                    Visit!Reaccept, Visit!SetRow
<1>2. CASE Visit!Tick
  BY <1>2 DEF Visit!Tick, SpacedInv
<1>3. ASSUME NEW r \in Requests, NEW p \in Providers,
             Visit!CheckInRead(r, p) \/ Visit!CheckOutRead(r, p) \/ Visit!LocationRead(r, p)
      PROVE  l.created < clock' - Interval
  \* A location update begins with a look at the recent ones.
  <2>1. q # r
    BY <1>3 DEF Visit!CheckInRead, Visit!CheckOutRead, Visit!LocationRead, Visit!Begin
  <2>2. request'[q] = request[q] /\ locations' = locations /\ clock' = clock
    BY <1>3, <2>1 DEF Visit!CheckInRead, Visit!CheckOutRead, Visit!LocationRead, Visit!Begin
  <2> QED BY <1>0, <2>2
<1>4. ASSUME NEW r \in Requests, Visit!LocationCheck(r) PROVE l.created < clock' - Interval
  <2>1. CASE q # r
    BY <1>0, <1>4, <2>1 DEF Visit!LocationCheck
  <2>2. CASE q = r
    <3>1. Visit!Recent = {}
      BY <1>4, <2>2, FreeRequest DEF Visit!LocationCheck
    <3>2. l \in locations /\ clock' = clock
      BY <1>4 DEF Visit!LocationCheck
    <3> QED BY <3>1, <3>2 DEF Visit!Recent
  <2> QED BY <2>1, <2>2
<1>5. ASSUME NEW r \in Requests, Visit!LocationInsert(r) PROVE l.created < clock' - Interval
  <2>1. q # r
    BY <1>5, FreeRequest DEF Visit!LocationInsert
  <2>2. request'[q] = [request[q] EXCEPT !.raced = @ \/ request[q].pc = "insert"]
    BY <1>5, <2>1 DEF Visit!LocationInsert
  <2>3. request[q] \in VisitRequest
    OBVIOUS
  <2> QED BY <2>2, <2>3 DEF VisitRequest
<1>6. ASSUME NEW r \in Requests, Visit!CheckpointInsert(r) \/ Visit!RequestFails(r)
      PROVE  l.created < clock' - Interval
  <2>1. q # r
    BY <1>6, FreeRequest DEF Visit!CheckpointInsert, Visit!RequestFails
  <2> QED BY <1>0, <1>6, <2>1 DEF Visit!CheckpointInsert, Visit!RequestFails
<1>7. CASE UNCHANGED Visit!svars
  BY <1>0, <1>7 DEF Visit!svars
<1> QED BY <1>1, <1>2, <1>3, <1>4, <1>5, <1>6, <1>7 DEF Visit!Next, Visit!Step

\* "Location updates are rate limited to once per 30 seconds": two locations
\* that are closer were asked for at once, and by no other sequence of requests.
THEOREM LocationsAreSpaced == Spec => Visit!LocationsSpaced
<1> DEFINE Spaced == \A l \in locations' \ locations, k \in locations :
                       l.created - k.created <= Interval
                         => \E r \in Requests : request[r].pc = "insert" /\ request[r].raced
<1>1. Init => VisitTypes /\ SpacedInv
  BY PartInits, VisitTypesInit, FreeRequest DEF Visit!Init, SpacedInv
<1>2. VisitTypes /\ SpacedInv /\ [Next]_vars => VisitTypes' /\ SpacedInv'
  BY PartSteps, VisitTypesNext, SpacedInvNext
<1>3. VisitTypes /\ SpacedInv /\ [Next]_vars => [Spaced]_(Visit!svars)
  <2> SUFFICES ASSUME VisitTypes, SpacedInv, Visit!Next,
                      NEW l \in locations' \ locations, NEW k \in locations,
                      l.created - k.created <= Interval
               PROVE  \E r \in Requests : request[r].pc = "insert" /\ request[r].raced
    BY PartSteps
  <2> USE VisitAssumption DEF VisitTypes, Location
  <2>1. PICK r \in Requests : Visit!LocationInsert(r)
    <3>1. locations' # locations
      OBVIOUS
    <3>2. \A r \in Requests : Visit!Step(r) => Visit!LocationInsert(r) \/ locations' = locations
      BY DEF Visit!Step, Visit!CheckInRead, Visit!CheckOutRead, Visit!LocationRead, Visit!Begin,
             Visit!LocationCheck, Visit!CheckpointInsert, Visit!RequestFails
    <3>3. ~ Visit!Revoke
      BY DEF Visit!Revoke
    <3> QED BY <3>1, <3>2, <3>3 DEF Visit!Next, Visit!Schedule, Visit!Reject, Visit!Unschedule,
             Visit!Reaccept, Visit!SetRow, Visit!Tick
  <2>2. l.created = clock /\ request[r].pc = "insert" /\ request[r].kind = "LOCATION"
    BY <2>1 DEF Visit!LocationInsert
  <2>3. k.created \in Nat /\ clock \in Nat
    OBVIOUS
  <2> QED BY <2>2, <2>3 DEF SpacedInv
<1> QED BY <1>1, <1>2, <1>3, PTL DEF Spec, Visit!LocationsSpaced

-----------------------------------------------------------------------------
(* The result pages *)

ResultsTypes ==
  /\ near \in BOOLEAN /\ filters \in Results!Filters /\ saved = filters
  /\ sent \in Seq(Results!Filters) /\ Len(sent) <= MaxInFlight
  /\ shown \in Results!Filters \cup {Nothing}
  /\ status \in {"none", "Searching", "OK", "Error"}
  /\ orderly \in BOOLEAN /\ clicked \in BOOLEAN

\* What the search page shows at the end is what was asked for last, or nothing
\* if that was refused.
LastAsked ==
  ~near /\ orderly /\ ~clicked =>
    IF sent = <<>> THEN shown = IF status = "OK" THEN filters ELSE Nothing
                   ELSE sent[Len(sent)] = filters

LEMMA DefaultsIsQuery == Results!Defaults \in Results!Filters
<1>1. 1 \in 1..MaxPage
  BY ResultsAssumption
<1> QED BY <1>1, ResultsAssumption DEF Results!Defaults, Results!Filters

LEMMA KeptSet ==
  \A q \in Results!Filters, v \in Values : /\ [q EXCEPT !.kept = v] \in Results!Filters
                                           /\ [q EXCEPT !.kept = v].kept = v
BY DEF Results!Filters

LEMMA LostSet ==
  \A q \in Results!Filters, v \in Values : /\ [q EXCEPT !.lost = v] \in Results!Filters
                                           /\ [q EXCEPT !.lost = v].lost = v
BY DEF Results!Filters

LEMMA TakeSet ==
  \A q \in Results!Filters, v \in Values : [q EXCEPT !.take = v] \in Results!Filters
BY DEF Results!Filters

LEMMA PageSet ==
  \A q \in Results!Filters, p \in 1..MaxPage : [q EXCEPT !.page = p] \in Results!Filters
BY DEF Results!Filters

LEMMA LastOfConcat ==
  ASSUME NEW S, NEW s \in Seq(S), NEW t \in Seq(S), t # <<>>
  PROVE  s \o t # <<>> /\ (s \o t)[Len(s \o t)] = t[Len(t)]
<1>1. Len(t) \in Nat \ {0} /\ Len(s) \in Nat
  BY EmptySeq, LenProperties
<1>2. /\ Len(s \o t) = Len(s) + Len(t)
      /\ \A i \in 1..(Len(s) + Len(t)) :
           (s \o t)[i] = IF i <= Len(s) THEN s[i] ELSE t[i - Len(s)]
  BY ConcatProperties
<1>3. Len(s) + Len(t) \in 1..(Len(s) + Len(t)) /\ ~(Len(s) + Len(t) <= Len(s))
      /\ (Len(s) + Len(t)) - Len(s) = Len(t) /\ Len(s \o t) # 0
  BY <1>1, <1>2
<1>4. (s \o t)[Len(s) + Len(t)] = t[Len(t)]
  BY ONLY <1>2, <1>3
<1>5. s \o t # <<>>
  BY <1>3, EmptySeq
<1> QED BY <1>2, <1>4, <1>5

LEMMA ResultsInit == Results!Init => ResultsTypes /\ LastAsked
<1> SUFFICES ASSUME Results!Init PROVE ResultsTypes /\ LastAsked
  OBVIOUS
<1> USE ResultsAssumption
<1>1. /\ near \in BOOLEAN /\ filters = Results!Defaults /\ saved = filters
      /\ sent = IF near THEN <<>> ELSE <<filters>>
      /\ shown = Nothing /\ orderly = TRUE /\ clicked = FALSE
      /\ status \in {"none", "Searching", "OK", "Error"}
  BY DEF Results!Init, Results!StatusAfter
<1>2. filters \in Results!Filters
  BY <1>1, DefaultsIsQuery
<1>3. /\ sent \in Seq(Results!Filters) /\ Len(sent) <= 1
      /\ ~near => sent # <<>> /\ sent[Len(sent)] = filters
  BY <1>1, <1>2
<1>4. 1 <= MaxInFlight /\ Len(sent) <= MaxInFlight
  BY <1>3
<1>5. ResultsTypes
  BY ONLY <1>1, <1>2, <1>3, <1>4 DEF ResultsTypes
<1>6. LastAsked
  BY ONLY <1>1, <1>3 DEF LastAsked
<1> QED BY <1>5, <1>6

\* Filters are set and requests sent, of which the last asks for the filters,
\* unless a setTimeout asks for the old ones.
LEMMA ResultsSet ==
  ASSUME ResultsTypes, LastAsked, NEW new \in Results!Filters, NEW before, NEW later,
         Results!Set(new, before, later),
         before \in {<<>>, <<filters>>}, later \in {<<>>, <<filters>>},
         near \/ later # <<>> \/ new # filters \/ before = <<filters>>
  PROVE  ResultsTypes' /\ LastAsked'
<1> DEFINE asks == IF ~near /\ new # filters THEN <<new>> ELSE <<>>
           more == before \o asks \o later
<1>1. /\ filters' = new /\ saved' = new /\ clicked' = (later # <<>>)
      /\ sent' = sent \o more /\ Len(sent) + Len(more) <= MaxInFlight
      /\ orderly' = (orderly \/ sent = <<>>)
      /\ UNCHANGED <<near, shown>>
  BY DEF Results!Set, Results!Send, Results!Changed
<1>10. status' \in {"none", "Searching", "OK", "Error"}
  BY DEF Results!Set, Results!Send, Results!StatusAfter, ResultsTypes
<1>2. /\ before \in Seq(Results!Filters) /\ later \in Seq(Results!Filters)
      /\ asks \in Seq(Results!Filters)
  <2>1. /\ <<>> \in Seq(Results!Filters) /\ <<new>> \in Seq(Results!Filters)
        /\ <<filters>> \in Seq(Results!Filters)
    BY DEF ResultsTypes
  <2> QED BY <2>1
<1>3. before \o asks \in Seq(Results!Filters) /\ more \in Seq(Results!Filters)
  <2> HIDE DEF asks
  <2>1. before \o asks \in Seq(Results!Filters)
    BY ONLY <1>2, ConcatProperties
  <2> QED BY ONLY <1>2, <2>1, ConcatProperties
<1>4. ResultsTypes'
  <2>1. sent' \in Seq(Results!Filters) /\ Len(sent') = Len(sent) + Len(more)
    BY <1>1, <1>3 DEF ResultsTypes
  <2> QED BY <1>1, <1>10, <2>1 DEF ResultsTypes
<1>5. ASSUME ~near, later = <<>> PROVE more # <<>> /\ more[Len(more)] = new
  <2>1. CASE new # filters
    <3>1. more = before \o <<new>> /\ <<new>> \in Seq(Results!Filters) /\ <<new>> # <<>>
          /\ <<new>>[Len(<<new>>)] = new
      BY <1>2, <1>3, <1>5, <2>1, ConcatEmptySeq
    <3> QED BY ONLY <1>2, <3>1, LastOfConcat
  <2>2. CASE new = filters
    <3>1. more = <<new>> /\ <<new>> \in Seq(Results!Filters)
      BY <1>2, <1>3, <1>5, <2>2, ConcatEmptySeq
    <3> HIDE DEF more
    <3> QED BY ONLY <3>1
  <2> QED BY <2>1, <2>2
<1>6. ASSUME more # <<>> PROVE sent' # <<>> /\ sent'[Len(sent')] = more[Len(more)]
  <2> HIDE DEF more
  <2>1. sent \in Seq(Results!Filters)
    BY DEF ResultsTypes
  <2> QED BY ONLY <1>1, <1>3, <1>6, <2>1, LastOfConcat
<1>7. LastAsked'
  <2> HIDE DEF more
  <2> QED BY <1>1, <1>5, <1>6 DEF LastAsked
<1> QED BY <1>4, <1>7

\* A request is over: if every one was answered in order it was the oldest, and
\* the page shows its results or, if it was refused, none.
LEMMA ResultsOver ==
  ASSUME ResultsTypes, LastAsked, NEW i \in DOMAIN sent, NEW ordered \in BOOLEAN,
         Results!Over(i, ordered),
         ordered => i = 1 /\ shown' = IF status' = "OK" THEN sent[i] ELSE Nothing,
         shown' \in Results!Filters \cup {Nothing},
         status' \in {"none", "Searching", "OK", "Error"}
  PROVE  ResultsTypes' /\ LastAsked'
<1>1. /\ sent' = SubSeq(sent, 1, i - 1) \o SubSeq(sent, i + 1, Len(sent))
      /\ orderly' = (orderly /\ ordered)
      /\ UNCHANGED <<near, filters, saved, clicked>>
  BY DEF Results!Over, Results!RemoveAt
<1>2. i \in 1..Len(sent) /\ Len(sent) \in Nat
  BY DEF ResultsTypes
<1>3. /\ SubSeq(sent, 1, i - 1) \in Seq(Results!Filters) /\ Len(SubSeq(sent, 1, i - 1)) = i - 1
      /\ SubSeq(sent, i + 1, Len(sent)) \in Seq(Results!Filters)
      /\ Len(SubSeq(sent, i + 1, Len(sent))) = Len(sent) - i
  BY <1>2 DEF ResultsTypes
<1>4. sent' \in Seq(Results!Filters) /\ Len(sent') = Len(sent) - 1
  <2> DEFINE a == SubSeq(sent, 1, i - 1)
             b == SubSeq(sent, i + 1, Len(sent))
  <2>1. /\ sent' = a \o b /\ a \in Seq(Results!Filters) /\ b \in Seq(Results!Filters)
        /\ Len(a) = i - 1 /\ Len(b) = Len(sent) - i
    BY ONLY <1>1, <1>3
  <2> HIDE DEF a, b
  <2>2. sent' \in Seq(Results!Filters) /\ Len(sent') = Len(a) + Len(b)
    BY ONLY <2>1, ConcatProperties
  <2> QED BY ONLY <1>2, <2>1, <2>2
<1>5. ResultsTypes'
  <2>1. Len(sent') <= MaxInFlight
    BY <1>2, <1>4, ResultsAssumption DEF ResultsTypes
  <2>2. orderly' \in BOOLEAN
    BY <1>1 DEF ResultsTypes
  <2> QED BY <1>1, <1>4, <2>1, <2>2 DEF ResultsTypes
<1>6. ASSUME i = 1, Len(sent) > 1 PROVE sent' # <<>> /\ sent'[Len(sent')] = sent[Len(sent)]
  <2>1. SubSeq(sent, 2, Len(sent))[Len(sent) - 1] = sent[Len(sent)]
    BY <1>2, <1>6 DEF ResultsTypes
  <2>2. sent' = SubSeq(sent, 2, Len(sent))
    <3>1. SubSeq(sent, 1, i - 1) = <<>>
      BY <1>6, SubSeqEmpty
    <3> QED BY <1>1, <1>3, <1>6, <3>1, ConcatEmptySeq
  <2>3. sent' # <<>> /\ Len(sent') = Len(sent) - 1
    BY ONLY <1>2, <1>4, <1>6, EmptySeq
  <2> QED BY ONLY <2>1, <2>2, <2>3
<1>7. ASSUME Len(sent) = 1 PROVE sent' = <<>> /\ i = 1
  BY <1>2, <1>4, <1>7, EmptySeq
<1>8. ASSUME ~near', orderly', ~clicked'
      PROVE  IF sent' = <<>> THEN shown' = IF status' = "OK" THEN filters' ELSE Nothing
                             ELSE sent'[Len(sent')] = filters'
  <2>0. sent # <<>>
    BY <1>2, EmptySeq
  <2>1. /\ i = 1 /\ sent[Len(sent)] = filters
        /\ shown' = IF status' = "OK" THEN sent[i] ELSE Nothing
    BY <1>1, <1>8, <2>0 DEF LastAsked
  <2>2. CASE Len(sent) = 1
    BY ONLY <1>1, <1>7, <2>1, <2>2
  <2>3. CASE Len(sent) > 1
    BY ONLY <1>1, <1>6, <2>1, <2>3
  <2>4. Len(sent) = 1 \/ Len(sent) > 1
    <3>1. \A n \in Nat : \A k \in 1..n : n = 1 \/ n > 1
      OBVIOUS
    <3> QED BY ONLY <1>2, <3>1
  <2> QED BY ONLY <2>2, <2>3, <2>4
<1> QED BY <1>5, <1>8 DEF LastAsked

LEMMA ResultsAnswered ==
  ASSUME ResultsTypes, LastAsked, NEW i \in DOMAIN sent,
         Results!Answered(i) \/ Results!Refused(i) \/ Results!Rejected(i)
  PROVE  ResultsTypes' /\ LastAsked'
<1>1. sent[i] \in Results!Filters /\ (i = 1) \in BOOLEAN
  <2>1. sent \in Seq(Results!Filters)
    BY DEF ResultsTypes
  <2> QED BY ONLY <2>1, i \in DOMAIN sent
<1>2. CASE Results!Answered(i)
  <2>1. Results!Over(i, i = 1) /\ shown' = sent[i] /\ status' = "OK"
    BY <1>2 DEF Results!Answered
  <2> QED BY <1>1, <2>1, ResultsOver
<1>3. CASE Results!Refused(i)
  <2>1. Results!Over(i, i = 1) /\ shown' = Nothing /\ status' = "Error"
    BY <1>3 DEF Results!Refused
  <2> QED BY <1>1, <2>1, ResultsOver
<1>4. CASE Results!Rejected(i)
  <2>1. Results!Over(i, FALSE) /\ shown' = shown /\ status' = status
    BY <1>4 DEF Results!Rejected
  <2>2. /\ shown' \in Results!Filters \cup {Nothing}
        /\ status' \in {"none", "Searching", "OK", "Error"}
    BY <2>1 DEF ResultsTypes
  <2> QED BY <2>1, <2>2, ResultsOver
<1> QED BY <1>2, <1>3, <1>4

LEMMA ResultsNext ==
  ResultsTypes /\ LastAsked /\ [Results!Next]_(Results!fvars) => ResultsTypes' /\ LastAsked'
<1> SUFFICES ASSUME ResultsTypes, LastAsked, [Results!Next]_(Results!fvars)
             PROVE  ResultsTypes' /\ LastAsked'
  OBVIOUS
<1> DEFINE Goal == ResultsTypes' /\ LastAsked'
<1>0. filters \in Results!Filters /\ <<>> \in {<<>>, <<filters>>} /\ <<filters>> # <<>>
  BY DEF ResultsTypes
<1>1. ASSUME NEW v \in Values, filters.kept # v,
             Results!Set([filters EXCEPT !.kept = v], <<>>, <<>>)
      PROVE  Goal
  <2>1. /\ [filters EXCEPT !.kept = v] \in Results!Filters
        /\ [filters EXCEPT !.kept = v].kept = v
    BY <1>0, KeptSet
  <2>2. [filters EXCEPT !.kept = v] # filters /\ [filters EXCEPT !.kept = v] \in Results!Filters
    BY ONLY <1>1, <2>1
  <2> QED BY <1>0, <1>1, <2>2, ResultsSet
<1>2. ASSUME NEW v \in Values, filters.lost # v,
             Results!Set([filters EXCEPT !.lost = v], <<>>, <<>>)
      PROVE  Goal
  <2>1. /\ [filters EXCEPT !.lost = v] \in Results!Filters
        /\ [filters EXCEPT !.lost = v].lost = v
    BY <1>0, LostSet
  <2>2. [filters EXCEPT !.lost = v] # filters /\ [filters EXCEPT !.lost = v] \in Results!Filters
    BY ONLY <1>2, <2>1
  <2> QED BY <1>0, <1>2, <2>2, ResultsSet
<1>3. ASSUME NEW new \in Results!Filters, Results!Set(new, <<>>, <<filters>>) PROVE Goal
  BY <1>0, <1>3, ResultsSet
<1>4. ASSUME NEW new \in Results!Filters, Results!Set(new, <<filters>>, <<>>) PROVE Goal
  BY <1>0, <1>4, ResultsSet
<1>5. ASSUME NEW v \in Values
      PROVE  /\ [filters EXCEPT !.kept = v, !.page = 1] \in Results!Filters
             /\ [filters EXCEPT !.lost = v, !.page = 1] \in Results!Filters
             /\ [filters EXCEPT !.take = v, !.page = 1] \in Results!Filters
             /\ [filters EXCEPT !.take = v] \in Results!Filters
             /\ \A p \in 1..MaxPage : [filters EXCEPT !.page = p] \in Results!Filters
             /\ [filters EXCEPT !.page = 1] \in Results!Filters
             /\ [Results!Defaults EXCEPT !.take = filters.take] \in Results!Filters
  <2>1. 1 \in 1..MaxPage
    BY ResultsAssumption
  <2>2. [filters EXCEPT !.kept = v] \in Results!Filters
    BY <1>0, KeptSet
  <2>3. [filters EXCEPT !.lost = v] \in Results!Filters
    BY <1>0, LostSet
  <2>5. [filters EXCEPT !.take = v] \in Results!Filters
    BY <1>0, TakeSet
  <2>4. /\ [filters EXCEPT !.kept = v, !.page = 1] \in Results!Filters
        /\ [filters EXCEPT !.lost = v, !.page = 1] \in Results!Filters
        /\ [filters EXCEPT !.take = v, !.page = 1] \in Results!Filters
    BY ONLY <2>1, <2>2, <2>3, <2>5, PageSet
  <2>6. filters.take \in Values
    BY <1>0 DEF Results!Filters
  <2> QED BY <1>0, <2>1, <2>4, <2>5, <2>6, PageSet, TakeSet, DefaultsIsQuery
<1>6. CASE Results!Edit
  BY <1>1, <1>6 DEF Results!Edit
<1>7. CASE Results!EditLost
  BY <1>2, <1>7 DEF Results!EditLost
<1>8. CASE Results!ChipClicked \/ Results!NearChipClicked
  BY <1>3, <1>5, <1>8 DEF Results!ChipClicked, Results!NearChipClicked
<1>16. CASE Results!TakeChanged
  <2>1. PICK v \in Values :
          \/ near /\ Results!Set([filters EXCEPT !.take = v], <<>>, <<>>)
          \/ Results!Set([filters EXCEPT !.take = v, !.page = 1], <<>>, <<filters>>)
    BY <1>16 DEF Results!TakeChanged
  <2>2. CASE near /\ Results!Set([filters EXCEPT !.take = v], <<>>, <<>>)
    BY <1>0, <1>5, <2>2, ResultsSet
  <2>3. CASE Results!Set([filters EXCEPT !.take = v, !.page = 1], <<>>, <<filters>>)
    BY <1>3, <1>5, <2>3
  <2> QED BY <2>1, <2>2, <2>3
<1>9. CASE Results!Clear
  BY <1>3, <1>5, <1>9, ResultsAssumption DEF Results!Clear
<1>10. CASE Results!Located
  BY <1>3, <1>4, <1>5, <1>10 DEF Results!Located
<1>11. CASE Results!SearchClicked
  BY <1>0, <1>4, <1>5, <1>11, ResultsAssumption DEF Results!SearchClicked
<1>12. CASE Results!Load
  <2>1. /\ filters' = [filters EXCEPT !.lost = Default] /\ saved' = filters'
        /\ sent' = IF near THEN <<>>
                   ELSE IF filters' = Results!Defaults THEN <<Results!Defaults>>
                        ELSE <<Results!Defaults, filters'>>
        /\ shown' = Nothing /\ orderly' = TRUE /\ clicked' = FALSE /\ near' = near
        /\ status' \in {"none", "Searching", "OK", "Error"}
    BY <1>12 DEF Results!Load, Results!Restored, Results!StatusAfter, ResultsTypes
  <2>2. filters' \in Results!Filters /\ Results!Defaults \in Results!Filters
    BY <1>0, <2>1, LostSet, DefaultsIsQuery, ResultsAssumption
  <2>3. /\ sent' \in Seq(Results!Filters) /\ Len(sent') <= 2
        /\ ~near => sent' # <<>> /\ sent'[Len(sent')] = filters'
    BY <2>1, <2>2
  <2>4. near' \in BOOLEAN /\ 2 <= MaxInFlight
    BY <2>1, ResultsAssumption DEF ResultsTypes
  <2>5. Len(sent') <= MaxInFlight
    BY <2>3, <2>4, ResultsAssumption
  <2> QED BY <2>1, <2>2, <2>3, <2>4, <2>5 DEF ResultsTypes, LastAsked
<1>13. ASSUME NEW p \in 1..MaxPage, Results!Turn(p) PROVE Goal
  BY <1>3, <1>5, <1>13, ResultsAssumption DEF Results!Turn
<1>14. ASSUME NEW i \in DOMAIN sent,
              Results!Answered(i) \/ Results!Refused(i) \/ Results!Rejected(i)
       PROVE  Goal
  BY <1>14, ResultsAnswered
<1>15. CASE UNCHANGED Results!fvars
  BY <1>15 DEF Results!fvars, ResultsTypes, LastAsked
<1> QED BY <1>6, <1>7, <1>8, <1>9, <1>10, <1>11, <1>12, <1>13, <1>14, <1>15, <1>16
        DEF Results!Next

\* When every request was answered, if only with an error, and no answer overtook
\* another, the search page that says OK shows the results of the filters it
\* displays, and the one that says Error shows none.
THEOREM ResultsSafety == Spec => []SettledShowsFilters
<1>1. Init => ResultsTypes /\ LastAsked
  BY PartInits, ResultsInit
<1>2. ResultsTypes /\ LastAsked /\ [Next]_vars => ResultsTypes' /\ LastAsked'
  BY PartSteps, ResultsNext
<1>3. LastAsked => SettledShowsFilters
  BY DEF LastAsked, SettledShowsFilters, Results!SettledShowsFilters
<1> QED BY <1>1, <1>2, <1>3, PTL DEF Spec

-----------------------------------------------------------------------------
(* The rate limits *)

Places == Instances \X Limits!Keys
Counts == Instances \X Limits!Keys \X Limits!Fields

LimitsTypes ==
  /\ limiter \in Limits!Limiters /\ env \in Environments
  /\ hits \in [Places -> [0..MaxTtl -> 0..MaxHits]]
  /\ allowed \in [Counts -> [0..MaxTtl -> Nat]]

\* Fewer requests still count after more ticks, and more were let through in
\* more of the last ticks.
Ordered ==
  /\ \A x \in Places, s, t \in 0..MaxTtl : s <= t => hits[x][t] <= hits[x][s]
  /\ \A x \in Counts, s, t \in 0..MaxTtl : s <= t => allowed[x][s] <= allowed[x][t]

\* What was let through counts until its ttl is over: of the last ttl - t ticks,
\* still after t ticks.
Counted ==
  \A i \in Instances, k \in Limits!Keys, f \in Limits!Fields :
    \A t \in 0..Limits!TtlOf(f) : allowed[<<i, k, f>>][Limits!TtlOf(f) - t] <= hits[<<i, k>>][t]

LimitsInv == LimitsTypes /\ Ordered /\ Counted /\ AllowedWithinLimit

LEMMA SettingsTypes ==
  ASSUME env \in Environments, NEW f \in Limits!Fields
  PROVE  Limits!TtlOf(f) \in 0..MaxTtl /\ Limits!LimitOf(f) \in Nat
BY LimitsAssumption
   DEF Limits!TtlOf, Limits!LimitOf, Limits!Setting, Limits!Unset, Limits!Fields

LEMMA UserKeys ==
  ASSUME limiter \in Limits!Limiters, NEW u \in People
  PROVE  Limits!Key(u) \in Limits!Keys /\ Limits!Field(u) \in Limits!Fields
<1>1. Limits!Key(u) \in Limits!Keys
  BY DEF Limits!Key, Limits!Keys
<1>2. Limits!Field(u) \in Limits!Fields
  <2>1. CASE limiter \in {"quotes", "jobs"}
    BY <2>1 DEF Limits!Field, Limits!JobsField, Limits!Fields
  <2>2. CASE limiter = "providers"
    BY <2>2 DEF Limits!Field, Limits!ProvidersField, Limits!Fields
  <2>3. CASE limiter = "search"
    BY <2>3 DEF Limits!Field, Limits!SearchField, Limits!Fields
  <2>4. CASE limiter \in {"signup", "login"}
    BY <2>4 DEF Limits!Field, Limits!AuthField, Limits!Fields
  <2> QED BY <2>1, <2>2, <2>3, <2>4 DEF Limits!Limiters
<1> QED BY <1>1, <1>2

LEMMA LimitsInit == Limits!Init => LimitsInv
<1> SUFFICES ASSUME Limits!Init PROVE LimitsInv
  OBVIOUS
<1> USE LimitsAssumption
<1>1. /\ limiter \in Limits!Limiters /\ env \in Environments
      /\ hits = [x \in Places |-> [t \in 0..MaxTtl |-> 0]]
      /\ allowed = [x \in Counts |-> [t \in 0..MaxTtl |-> 0]]
  BY DEF Limits!Init, Places, Counts
<1>2. LimitsTypes
  BY <1>1 DEF LimitsTypes
<1>3. Ordered
  BY <1>1 DEF Ordered
<1>4. /\ \A x \in Places, t \in 0..MaxTtl : hits[x][t] = 0
      /\ \A x \in Counts, t \in 0..MaxTtl : allowed[x][t] = 0
  BY <1>1
<1>5. ASSUME NEW i \in Instances, NEW k \in Limits!Keys, NEW f \in Limits!Fields
      PROVE  /\ \A t \in 0..Limits!TtlOf(f) :
                  allowed[<<i, k, f>>][Limits!TtlOf(f) - t] <= hits[<<i, k>>][t]
             /\ allowed[<<i, k, f>>][Limits!TtlOf(f)] <= Limits!LimitOf(f)
  <2> DEFINE T == Limits!TtlOf(f)
  <2>1. T \in 0..MaxTtl /\ Limits!LimitOf(f) \in Nat
    BY <1>1, SettingsTypes
  <2>2. <<i, k>> \in Places /\ <<i, k, f>> \in Counts
    BY DEF Places, Counts
  <2> HIDE DEF T
  <2>3. \A t \in 0..T : t \in 0..MaxTtl /\ T - t \in 0..MaxTtl
    BY <2>1
  <2>4. \A t \in 0..T : allowed[<<i, k, f>>][T - t] = 0 /\ hits[<<i, k>>][t] = 0
    BY ONLY <1>4, <2>2, <2>3
  <2>5. allowed[<<i, k, f>>][T] = 0
    BY ONLY <1>4, <2>1, <2>2
  <2>6. allowed[<<i, k, f>>][T] <= Limits!LimitOf(f)
    BY <2>1, <2>5
  <2>7. \A t \in 0..T : allowed[<<i, k, f>>][T - t] <= hits[<<i, k>>][t]
    BY <2>4
  <2> QED BY ONLY <2>6, <2>7 DEF T
<1>6. Counted /\ AllowedWithinLimit
  BY <1>5 DEF Counted, AllowedWithinLimit, Limits!AllowedWithinLimit
<1> QED BY <1>2, <1>3, <1>6 DEF LimitsInv

\* One key of one process, and the requests of one override let through there.
Fits(h, a, T, L) ==
  /\ \A t \in 0..T : a[T - t] <= h[t]
  /\ a[T] <= L

LEMMA LimitsFit ==
  Counted /\ AllowedWithinLimit <=>
    \A i \in Instances, k \in Limits!Keys, f \in Limits!Fields :
      Fits(hits[<<i, k>>], allowed[<<i, k, f>>], Limits!TtlOf(f), Limits!LimitOf(f))
BY DEF Counted, AllowedWithinLimit, Limits!AllowedWithinLimit, Fits

Antitone(h) == \A s, t \in 0..MaxTtl : s <= t => h[t] <= h[s]
Monotone(a) == \A s, t \in 0..MaxTtl : s <= t => a[s] <= a[t]

\* The counts after a tick, and after a request that counts for ttl ticks.
Older(h) == [t \in 0..MaxTtl |-> IF t = MaxTtl THEN 0 ELSE h[t + 1]]
Later(a) == [t \in 0..MaxTtl |-> IF t = 0 THEN 0 ELSE a[t - 1]]
OneMoreHit(h, ttl) == [t \in 0..MaxTtl |-> IF t < ttl THEN h[t] + 1 ELSE h[t]]
OneMoreAllowed(a) == [t \in 0..MaxTtl |-> IF t = 0 THEN 0 ELSE a[t] + 1]

LEMMA TickHits ==
  ASSUME NEW h \in [0..MaxTtl -> 0..MaxHits], Antitone(h)
  PROVE  Older(h) \in [0..MaxTtl -> 0..MaxHits] /\ Antitone(Older(h))
BY LimitsAssumption DEF Older, Antitone

LEMMA TickAllowed ==
  ASSUME NEW a \in [0..MaxTtl -> Nat], Monotone(a)
  PROVE  Later(a) \in [0..MaxTtl -> Nat] /\ Monotone(Later(a))
BY LimitsAssumption DEF Later, Monotone

LEMMA TickFits ==
  ASSUME NEW h \in [0..MaxTtl -> 0..MaxHits], NEW a \in [0..MaxTtl -> Nat], Monotone(a),
         NEW T \in 0..MaxTtl, NEW L \in Nat, Fits(h, a, T, L)
  PROVE  Fits(Older(h), Later(a), T, L)
<1> USE LimitsAssumption
<1>1. ASSUME NEW t \in 0..T PROVE Later(a)[T - t] <= Older(h)[t]
  <2>1. CASE t = T
    BY <2>1 DEF Later, Older
  <2>2. CASE t < T
    <3>1. /\ T - t \in 0..MaxTtl /\ T - t # 0 /\ t + 1 \in 0..T /\ t # MaxTtl /\ t \in 0..MaxTtl
          /\ (T - t) - 1 = T - (t + 1)
      BY <2>2
    <3>2. Later(a)[T - t] = a[T - (t + 1)] /\ Older(h)[t] = h[t + 1]
      BY <3>1 DEF Later, Older
    <3> QED BY <3>1, <3>2 DEF Fits
  <2> QED BY <2>1, <2>2
<1>2. Later(a)[T] <= L
  <2>1. CASE T = 0
    BY <2>1 DEF Later
  <2>2. CASE T > 0
    <3>1. T - 1 \in 0..MaxTtl /\ T - 1 <= T /\ Later(a)[T] = a[T - 1]
      BY <2>2 DEF Later
    <3>2. a[T - 1] <= a[T] /\ a[T] <= L /\ a[T] \in Nat /\ a[T - 1] \in Nat
      BY <3>1 DEF Monotone, Fits
    <3> QED BY <3>1, <3>2
  <2> QED BY <2>1, <2>2
<1> QED BY <1>1, <1>2 DEF Fits

LEMMA HitMore ==
  ASSUME NEW h \in [0..MaxTtl -> 0..MaxHits], Antitone(h), NEW ttl \in 0..MaxTtl,
         h[0] < MaxHits
  PROVE  OneMoreHit(h, ttl) \in [0..MaxTtl -> 0..MaxHits] /\ Antitone(OneMoreHit(h, ttl))
<1> USE LimitsAssumption
<1>1. \A t \in 0..MaxTtl : h[t] \in 0..MaxHits /\ h[t] + 1 \in 0..MaxHits
  BY DEF Antitone
<1>2. OneMoreHit(h, ttl) \in [0..MaxTtl -> 0..MaxHits]
  BY <1>1 DEF OneMoreHit
<1>3. ASSUME NEW s \in 0..MaxTtl, NEW t \in 0..MaxTtl, s <= t
      PROVE  OneMoreHit(h, ttl)[t] <= OneMoreHit(h, ttl)[s]
  <2>1. h[t] <= h[s] /\ h[t] \in Nat /\ h[s] \in Nat
    BY <1>1, <1>3 DEF Antitone
  <2>2. /\ OneMoreHit(h, ttl)[t] = IF t < ttl THEN h[t] + 1 ELSE h[t]
        /\ OneMoreHit(h, ttl)[s] = IF s < ttl THEN h[s] + 1 ELSE h[s]
    BY DEF OneMoreHit
  <2> QED BY <1>3, <2>1, <2>2
<1> QED BY <1>2, <1>3 DEF Antitone

LEMMA AllowMore ==
  ASSUME NEW a \in [0..MaxTtl -> Nat], Monotone(a)
  PROVE  OneMoreAllowed(a) \in [0..MaxTtl -> Nat] /\ Monotone(OneMoreAllowed(a))
BY LimitsAssumption DEF OneMoreAllowed, Monotone

\* A request of another override, or a refused one.
LEMMA HitFits ==
  ASSUME NEW h \in [0..MaxTtl -> 0..MaxHits], NEW a \in [0..MaxTtl -> Nat],
         NEW T \in 0..MaxTtl, NEW L \in Nat, NEW ttl \in 0..MaxTtl, Fits(h, a, T, L)
  PROVE  Fits(OneMoreHit(h, ttl), a, T, L)
<1>1. ASSUME NEW t \in 0..T PROVE a[T - t] <= OneMoreHit(h, ttl)[t]
  <2>1. t \in 0..MaxTtl /\ T - t \in 0..MaxTtl
    BY LimitsAssumption
  <2>2. a[T - t] <= h[t] /\ a[T - t] \in Nat /\ h[t] \in Nat
    BY <2>1, LimitsAssumption DEF Fits
  <2>3. OneMoreHit(h, ttl)[t] = h[t] \/ OneMoreHit(h, ttl)[t] = h[t] + 1
    BY <2>1 DEF OneMoreHit
  <2> QED BY <2>2, <2>3
<1> QED BY <1>1 DEF Fits

\* A request that is let through.
LEMMA AllowFits ==
  ASSUME NEW h \in [0..MaxTtl -> 0..MaxHits], NEW a \in [0..MaxTtl -> Nat],
         NEW T \in 0..MaxTtl, NEW L \in Nat, Fits(h, a, T, L), h[0] + 1 <= L
  PROVE  Fits(OneMoreHit(h, T), OneMoreAllowed(a), T, L)
<1> USE LimitsAssumption
<1>1. ASSUME NEW t \in 0..T PROVE OneMoreAllowed(a)[T - t] <= OneMoreHit(h, T)[t]
  <2>1. t \in 0..MaxTtl /\ T - t \in 0..MaxTtl
    OBVIOUS
  <2>2. a[T - t] <= h[t] /\ a[T - t] \in Nat /\ h[t] \in Nat
    BY <2>1 DEF Fits
  <2>3. CASE t = T
    BY <2>1, <2>2, <2>3 DEF OneMoreHit, OneMoreAllowed
  <2>4. CASE t < T
    <3>1. OneMoreHit(h, T)[t] = h[t] + 1 /\ OneMoreAllowed(a)[T - t] = a[T - t] + 1
      BY <2>1, <2>4 DEF OneMoreHit, OneMoreAllowed
    <3>2. \A m, n \in Nat : m <= n => m + 1 <= n + 1
      OBVIOUS
    <3> QED BY ONLY <2>2, <3>1, <3>2
  <2> QED BY <2>3, <2>4
<1>2. OneMoreAllowed(a)[T] <= L
  <2>1. 0 \in 0..T /\ T - 0 = T /\ 0 \in 0..MaxTtl
    OBVIOUS
  <2>2. a[T] <= h[0] /\ a[T] \in Nat /\ h[0] \in Nat
    BY <2>1 DEF Fits
  <2>3. OneMoreAllowed(a)[T] = 0 \/ OneMoreAllowed(a)[T] = a[T] + 1
    BY DEF OneMoreAllowed
  <2> QED BY <2>2, <2>3
<1> QED BY <1>1, <1>2 DEF Fits

LEMMA LimitsTick == LimitsInv /\ Limits!Tick => LimitsInv'
<1> SUFFICES ASSUME LimitsInv, Limits!Tick PROVE LimitsInv'
  OBVIOUS
<1> USE LimitsAssumption DEF LimitsInv
<1>1. /\ hits' = [x \in Places |-> Older(hits[x])]
      /\ allowed' = [x \in Counts |-> Later(allowed[x])]
      /\ UNCHANGED <<limiter, env>>
  BY DEF Limits!Tick, Places, Counts, Older, Later
<1>2. /\ \A x \in Places : hits[x] \in [0..MaxTtl -> 0..MaxHits] /\ Antitone(hits[x])
      /\ \A x \in Counts : allowed[x] \in [0..MaxTtl -> Nat] /\ Monotone(allowed[x])
  BY DEF LimitsTypes, Ordered, Antitone, Monotone
<1>3. /\ \A x \in Places : hits'[x] = Older(hits[x])
      /\ \A x \in Counts : allowed'[x] = Later(allowed[x])
  BY <1>1
<1>4. \A x \in Places : hits'[x] \in [0..MaxTtl -> 0..MaxHits] /\ Antitone(hits'[x])
  BY ONLY <1>2, <1>3, TickHits
<1>5. \A x \in Counts : allowed'[x] \in [0..MaxTtl -> Nat] /\ Monotone(allowed'[x])
  BY ONLY <1>2, <1>3, TickAllowed
<1>6. LimitsTypes'
  BY <1>1, <1>4, <1>5 DEF LimitsTypes
<1>7. Ordered'
  BY ONLY <1>4, <1>5 DEF Ordered, Antitone, Monotone
<1>8. ASSUME NEW i \in Instances, NEW k \in Limits!Keys, NEW f \in Limits!Fields
      PROVE  Fits(hits[<<i, k>>], allowed[<<i, k, f>>], Limits!TtlOf(f), Limits!LimitOf(f))'
  <2>1. <<i, k>> \in Places /\ <<i, k, f>> \in Counts
    BY DEF Places, Counts
  <2>2. /\ Limits!TtlOf(f) \in 0..MaxTtl /\ Limits!LimitOf(f) \in Nat
        /\ Limits!TtlOf(f)' = Limits!TtlOf(f) /\ Limits!LimitOf(f)' = Limits!LimitOf(f)
    <3>1. env \in Environments
      BY DEF LimitsTypes
    <3> QED BY <1>1, <3>1, SettingsTypes DEF Limits!TtlOf, Limits!LimitOf
  <2>3. Fits(hits[<<i, k>>], allowed[<<i, k, f>>], Limits!TtlOf(f), Limits!LimitOf(f))
    BY LimitsFit
  <2>4. Fits(Older(hits[<<i, k>>]), Later(allowed[<<i, k, f>>]), Limits!TtlOf(f),
             Limits!LimitOf(f))
    BY ONLY <1>2, <2>1, <2>2, <2>3, TickFits
  <2>5. /\ hits'[<<i, k>>] = Older(hits[<<i, k>>])
        /\ allowed'[<<i, k, f>>] = Later(allowed[<<i, k, f>>])
    BY ONLY <1>3, <2>1
  <2> QED BY ONLY <2>2, <2>4, <2>5
<1>9. Counted' /\ AllowedWithinLimit'
  BY <1>8 DEF Counted, AllowedWithinLimit, Limits!AllowedWithinLimit, Fits
<1> QED BY <1>6, <1>7, <1>9

LEMMA LimitsRequest ==
  ASSUME LimitsInv, NEW i \in Instances, NEW u \in People, Limits!Request(i, u)
  PROVE  LimitsInv'
<1> USE LimitsAssumption DEF LimitsInv
<1> DEFINE k == Limits!Key(u)
           f == Limits!Field(u)
           x == <<i, k>>
           y == <<i, k, f>>
           ttl == Limits!TtlOf(f)
<1>0. k \in Limits!Keys /\ f \in Limits!Fields
  BY UserKeys DEF LimitsTypes
<1>1. /\ ttl \in 0..MaxTtl /\ Limits!LimitOf(f) \in Nat
      /\ \A g \in Limits!Fields : /\ Limits!TtlOf(g)' = Limits!TtlOf(g)
                                  /\ Limits!LimitOf(g)' = Limits!LimitOf(g)
                                  /\ Limits!TtlOf(g) \in 0..MaxTtl /\ Limits!LimitOf(g) \in Nat
  <2>1. env \in Environments /\ env' = env
    BY DEF LimitsTypes, Limits!Request
  <2> QED BY <1>0, <2>1, SettingsTypes DEF Limits!TtlOf, Limits!LimitOf
<1>2. /\ hits[x][0] < MaxHits
      /\ hits' = [hits EXCEPT ![x] = OneMoreHit(hits[x], ttl)]
      /\ UNCHANGED <<limiter, env>>
  BY DEF Limits!Request, Limits!TotalHits, OneMoreHit
<1>3. \/ allowed' = allowed
      \/ /\ allowed' = [allowed EXCEPT ![y] = OneMoreAllowed(allowed[y])]
         /\ ~(hits[x][0] + 1 > Limits!LimitOf(f))
  BY DEF Limits!Request, Limits!TotalHits, Limits!Over, OneMoreAllowed
<1> HIDE DEF k, f, ttl
<1>4. x \in Places /\ y \in Counts
  BY <1>0 DEF Places, Counts
<1>5. /\ \A z \in Places : hits[z] \in [0..MaxTtl -> 0..MaxHits] /\ Antitone(hits[z])
      /\ \A z \in Counts : allowed[z] \in [0..MaxTtl -> Nat] /\ Monotone(allowed[z])
  BY DEF LimitsTypes, Ordered, Antitone, Monotone
<1>6. /\ OneMoreHit(hits[x], ttl) \in [0..MaxTtl -> 0..MaxHits]
      /\ Antitone(OneMoreHit(hits[x], ttl))
  BY ONLY <1>1, <1>2, <1>4, <1>5, HitMore
<1>7. OneMoreAllowed(allowed[y]) \in [0..MaxTtl -> Nat] /\ Monotone(OneMoreAllowed(allowed[y]))
  BY ONLY <1>4, <1>5, AllowMore
<1>8. /\ \A z \in Places : hits'[z] = IF z = x THEN OneMoreHit(hits[x], ttl) ELSE hits[z]
      /\ hits' \in [Places -> [0..MaxTtl -> 0..MaxHits]]
  BY <1>2, <1>6 DEF LimitsTypes
<1>9. /\ \A z \in Counts : \/ allowed'[z] = allowed[z]
                           \/ z = y /\ allowed'[y] = OneMoreAllowed(allowed[y])
      /\ allowed' \in [Counts -> [0..MaxTtl -> Nat]]
  <2>1. allowed \in [Counts -> [0..MaxTtl -> Nat]]
    BY DEF LimitsTypes
  <2>2. CASE allowed' = allowed
    BY ONLY <2>1, <2>2
  <2>3. CASE allowed' = [allowed EXCEPT ![y] = OneMoreAllowed(allowed[y])]
    BY ONLY <1>4, <1>7, <2>1, <2>3
  <2> QED BY ONLY <1>3, <2>2, <2>3
<1>10. LimitsTypes'
  BY <1>2, <1>8, <1>9 DEF LimitsTypes
<1>11. /\ \A z \in Places : Antitone(hits'[z])
       /\ \A z \in Counts : Monotone(allowed'[z])
  BY ONLY <1>4, <1>5, <1>6, <1>7, <1>8, <1>9
<1>12. Ordered'
  BY ONLY <1>11 DEF Ordered, Antitone, Monotone
<1>13. ASSUME NEW j \in Instances, NEW m \in Limits!Keys, NEW g \in Limits!Fields
       PROVE  Fits(hits[<<j, m>>], allowed[<<j, m, g>>], Limits!TtlOf(g), Limits!LimitOf(g))'
  <2>1. <<j, m>> \in Places /\ <<j, m, g>> \in Counts
    BY DEF Places, Counts
  <2>2. Fits(hits[<<j, m>>], allowed[<<j, m, g>>], Limits!TtlOf(g), Limits!LimitOf(g))
    BY LimitsFit
  <2>3. CASE <<j, m>> # x
    <3>1. hits'[<<j, m>>] = hits[<<j, m>>]
      BY ONLY <1>8, <2>1, <2>3
    <3>2. <<j, m, g>> # y
      BY <2>3
    <3>3. allowed'[<<j, m, g>>] = allowed[<<j, m, g>>]
      BY ONLY <1>9, <2>1, <3>2
    <3> QED BY ONLY <1>1, <1>13, <2>2, <3>1, <3>3
  <2>4. CASE <<j, m>> = x
    <3>1. hits'[<<j, m>>] = OneMoreHit(hits[<<j, m>>], ttl)
      BY ONLY <1>8, <2>1, <2>4
    <3>2. CASE allowed'[<<j, m, g>>] = allowed[<<j, m, g>>]
      <4>1. Fits(OneMoreHit(hits[<<j, m>>], ttl), allowed[<<j, m, g>>], Limits!TtlOf(g),
                 Limits!LimitOf(g))
        BY ONLY <1>1, <1>5, <1>13, <2>1, <2>2, HitFits
      <4> QED BY ONLY <1>1, <1>13, <3>1, <3>2, <4>1
    <3>3. CASE allowed'[<<j, m, g>>] # allowed[<<j, m, g>>]
      <4>1. <<j, m, g>> = y /\ allowed'[y] = OneMoreAllowed(allowed[y])
        BY ONLY <1>9, <2>1, <3>3
      <4>2. g = f
        BY <4>1
      <4>3. hits[x][0] + 1 <= Limits!LimitOf(f)
        <5>1. allowed' # allowed
          BY <3>3
        <5>2. ~(hits[x][0] + 1 > Limits!LimitOf(f))
          BY ONLY <1>3, <5>1
        <5>3. hits[x][0] \in Nat /\ Limits!LimitOf(f) \in Nat
          BY <1>1, <1>4, <1>5
        <5> QED BY <5>2, <5>3
      <4>4. Fits(hits[x], allowed[y], ttl, Limits!LimitOf(f))
        BY ONLY <2>2, <2>4, <4>1, <4>2 DEF ttl
      <4>5. Fits(OneMoreHit(hits[x], ttl), OneMoreAllowed(allowed[y]), ttl, Limits!LimitOf(f))
        BY ONLY <1>1, <1>4, <1>5, <4>3, <4>4, AllowFits
      <4> QED BY ONLY <1>0, <1>1, <2>4, <3>1, <4>1, <4>2, <4>5 DEF ttl
    <3> QED BY ONLY <3>2, <3>3
  <2> QED BY ONLY <2>3, <2>4
<1>14. Counted' /\ AllowedWithinLimit'
  BY ONLY <1>13 DEF Counted, AllowedWithinLimit, Limits!AllowedWithinLimit, Fits
<1> QED BY <1>10, <1>12, <1>14

LEMMA LimitsNext == LimitsInv /\ [Limits!Next]_(Limits!rvars) => LimitsInv'
<1> SUFFICES ASSUME LimitsInv, [Limits!Next]_(Limits!rvars) PROVE LimitsInv'
  OBVIOUS
<1>1. CASE UNCHANGED Limits!rvars
  BY <1>1 DEF Limits!rvars, LimitsInv, LimitsTypes, Ordered, Counted, AllowedWithinLimit,
              Limits!AllowedWithinLimit, Limits!TtlOf, Limits!LimitOf
<1> QED BY <1>1, LimitsTick, LimitsRequest DEF Limits!Next

\* In no stretch of time as long as the ttl does a process let more requests
\* of a key through than the limit of their role.
THEOREM LimitSafety == Spec => []AllowedWithinLimit
<1>1. Init => LimitsInv
  BY PartInits, LimitsInit
<1>2. LimitsInv /\ [Next]_vars => LimitsInv'
  BY PartSteps, LimitsNext
<1>3. LimitsInv => AllowedWithinLimit
  BY DEF LimitsInv
<1> QED BY <1>1, <1>2, <1>3, PTL DEF Spec

-----------------------------------------------------------------------------
(* Audio *)

AudioAnswer == {"none", "201", "400"}
AudioRequest == [pc : Speech!Phases, op : Speech!Ops, text : Speech!Texts,
                 answer : AudioAnswer]

AudioTypes ==
  /\ configured \in BOOLEAN /\ files \subseteq Uploads /\ left \subseteq Uploads
  /\ upload \in [Uploads -> AudioRequest] /\ restarted \in 0..MaxRestarts

\* A file that was left is of a request that is over, so that no later step of
\* the request takes it away.
AudioInv ==
  /\ files = Speech!InProgress \cup left
  /\ \A u \in left : upload[u].pc = "done"

LEMMA AudioFresh ==
  /\ Speech!Fresh \in AudioRequest /\ Speech!Fresh.pc = "none"
  /\ \A o \in Speech!Ops : /\ [Speech!Fresh EXCEPT !.pc = "stored", !.op = o] \in AudioRequest
                           /\ [Speech!Fresh EXCEPT !.pc = "stored", !.op = o].pc = "stored"
BY DEF Speech!Fresh, AudioRequest, AudioAnswer, Speech!Phases, Speech!Ops, Speech!Texts

\* A request that streams, has its answer from Whisper, or is over.
LEMMA AudioStreams ==
  \A q \in AudioRequest : /\ [q EXCEPT !.pc = "streaming"] \in AudioRequest
                          /\ [q EXCEPT !.pc = "streaming"].pc = "streaming"
BY DEF AudioRequest, Speech!Phases

LEMMA AudioReturns ==
  \A q \in AudioRequest, text \in Speech!Texts :
    /\ [q EXCEPT !.pc = "returned", !.text = text] \in AudioRequest
    /\ [q EXCEPT !.pc = "returned", !.text = text].pc = "returned"
BY DEF AudioRequest, Speech!Phases

LEMMA AudioEnds ==
  \A q \in AudioRequest : /\ [q EXCEPT !.pc = "done"] \in AudioRequest
                          /\ [q EXCEPT !.pc = "done"].pc = "done"
BY DEF AudioRequest, Speech!Phases

LEMMA AudioAnswers ==
  \A q \in AudioRequest, answer \in AudioAnswer :
    /\ [q EXCEPT !.pc = "done", !.answer = answer] \in AudioRequest
    /\ [q EXCEPT !.pc = "done", !.answer = answer].pc = "done"
BY DEF AudioRequest, Speech!Phases

\* A step of one request, from a phase to another.
LEMMA AudioStep ==
  ASSUME AudioTypes, AudioInv, NEW u \in Uploads, NEW q \in AudioRequest,
         upload' = [upload EXCEPT ![u] = q],
         UNCHANGED <<left, restarted>>, configured' \in BOOLEAN,
         u \notin left, files' = IF q.pc \in {"stored", "streaming", "returned"}
                                 THEN files \cup {u} ELSE files \ {u}
  PROVE  AudioTypes' /\ AudioInv'
<1>1. AudioTypes'
  BY DEF AudioTypes
<1>2. \A v \in Uploads : upload'[v] = IF v = u THEN q ELSE upload[v]
  BY DEF AudioTypes
<1>3. \A v \in left' : upload'[v].pc = "done"
  BY <1>2 DEF AudioTypes, AudioInv
<1>4. files' = Speech!InProgress' \cup left'
  BY <1>2 DEF AudioTypes, AudioInv, Speech!InProgress
<1> QED BY <1>1, <1>3, <1>4 DEF AudioInv

LEMMA AudioInit == Speech!Init => AudioTypes /\ AudioInv
<1> SUFFICES ASSUME Speech!Init PROVE AudioTypes /\ AudioInv
  OBVIOUS
<1>1. 0 \in 0..MaxRestarts
  BY SpeechAssumption
<1>2. Speech!InProgress = {}
  BY AudioFresh DEF Speech!Init, Speech!InProgress
<1> QED BY <1>1, <1>2, AudioFresh DEF Speech!Init, AudioTypes, AudioInv

LEMMA AudioNext ==
  AudioTypes /\ AudioInv /\ [Speech!Next]_(Speech!avars) => AudioTypes' /\ AudioInv'
<1> SUFFICES ASSUME AudioTypes, AudioInv, [Speech!Next]_(Speech!avars)
             PROVE  AudioTypes' /\ AudioInv'
  OBVIOUS
<1> DEFINE Goal == AudioTypes' /\ AudioInv'
<1>b. \A u \in Uploads : upload[u] \in AudioRequest
  BY DEF AudioTypes
<1>c. \A u \in Uploads : u \in files <=> \/ upload[u].pc \in {"stored", "streaming", "returned"}
                                         \/ u \in left
  BY DEF AudioInv, Speech!InProgress
<1>d. \A u \in left : upload[u].pc = "done"
  BY DEF AudioInv
<1>0. \A u \in Uploads :
        /\ u \in left => upload[u].pc = "done"
        /\ upload[u] \in AudioRequest
        /\ u \in files <=> \/ u \in left
                           \/ upload[u].pc \in {"stored", "streaming", "returned"}
  BY ONLY <1>b, <1>c, <1>d
<1>a. /\ configured \in BOOLEAN /\ "transcribe" \in Speech!Ops
      /\ "null" \in Speech!Texts /\ "400" \in AudioAnswer
  BY DEF AudioTypes, AudioAnswer, Speech!Texts, Speech!Ops
<1>1. ASSUME NEW u \in Uploads, NEW o \in Speech!Ops, Speech!Store(u, o) PROVE Goal
  <2> DEFINE q == [Speech!Fresh EXCEPT !.pc = "stored", !.op = o]
  <2>1. q \in AudioRequest /\ q.pc = "stored"
    BY ONLY <1>0, <1>1, <1>a, AudioFresh
  <2>2. /\ upload' = [upload EXCEPT ![u] = q] /\ files' = files \cup {u}
        /\ UNCHANGED <<left, restarted>> /\ configured' \in BOOLEAN /\ u \notin left
    BY <1>0, <1>1, <1>a DEF Speech!Store
  <2> HIDE DEF q
  <2> QED BY <2>1, <2>2, AudioStep
<1>2. ASSUME NEW u \in Uploads, Speech!Refuse(u) PROVE Goal
  <2> DEFINE q == [upload[u] EXCEPT !.pc = "done", !.answer = "400"]
  <2>1. q \in AudioRequest /\ q.pc = "done"
    BY ONLY <1>0, <1>2, <1>a, AudioAnswers
  <2>2. /\ upload' = [upload EXCEPT ![u] = q] /\ files' = files \ {u}
        /\ UNCHANGED <<left, restarted>> /\ configured' \in BOOLEAN /\ u \notin left
    BY <1>0, <1>2, <1>a DEF Speech!Refuse
  <2> HIDE DEF q
  <2> QED BY <2>1, <2>2, AudioStep
<1>3. ASSUME NEW u \in Uploads, Speech!Begin(u) PROVE Goal
  <2>1. u \notin left /\ u \in files
    BY <1>0, <1>3 DEF Speech!Begin
  <2> DEFINE q == IF configured THEN [upload[u] EXCEPT !.pc = "streaming"]
                  ELSE [upload[u] EXCEPT !.pc = "returned", !.text = "null"]
  <2>2. q \in AudioRequest /\ q.pc \in {"streaming", "returned"}
    BY ONLY <1>0, <1>3, <1>a, AudioStreams, AudioReturns
  <2>3. /\ upload' = [upload EXCEPT ![u] = q] /\ files' = files \cup {u}
        /\ UNCHANGED <<left, restarted>> /\ configured' \in BOOLEAN
    BY <1>3, <1>a, <2>1 DEF Speech!Begin
  <2> HIDE DEF q
  <2> QED BY <2>1, <2>2, <2>3, AudioStep
<1>4. ASSUME NEW u \in Uploads, Speech!Whisper(u) PROVE Goal
  <2>1. PICK text \in Speech!Texts :
          upload' = [upload EXCEPT ![u] = [upload[u] EXCEPT !.pc = "returned", !.text = text]]
    BY <1>4 DEF Speech!Whisper, Speech!Texts
  <2> DEFINE q == [upload[u] EXCEPT !.pc = "returned", !.text = text]
  <2>2. q \in AudioRequest /\ q.pc = "returned"
    BY ONLY <1>0, <1>a, <2>1, AudioReturns
  <2>3. /\ files' = files \cup {u} /\ UNCHANGED <<left, restarted>>
        /\ configured' \in BOOLEAN /\ u \notin left
    BY <1>0, <1>4, <1>a DEF Speech!Whisper
  <2>4. upload' = [upload EXCEPT ![u] = q]
    BY ONLY <2>1
  <2> HIDE DEF q
  <2> QED BY <2>2, <2>3, <2>4, AudioStep
<1>5. ASSUME NEW u \in Uploads, Speech!Finish(u) PROVE Goal
  <2>1. upload[u].op \in {"transcribe", "verbose", "translate"}
    BY <1>0 DEF AudioRequest, Speech!Ops
  <2>2. Speech!Answer(upload[u].op, upload[u].text) \in AudioAnswer
    BY <2>1 DEF AudioAnswer, Speech!Answer, Speech!VerboseAnswer,
                Speech!TranslateAnswer
  <2>3. upload' = [upload EXCEPT ![u] = [upload[u] EXCEPT !.pc = "done",
                     !.answer = Speech!Answer(upload[u].op, upload[u].text)]]
    BY <1>0, <1>5 DEF Speech!Finish, AudioTypes, AudioRequest
  <2>4. PICK answer \in AudioAnswer :
          upload' = [upload EXCEPT ![u] = [upload[u] EXCEPT !.pc = "done", !.answer = answer]]
    BY ONLY <2>2, <2>3
  <2> DEFINE q == [upload[u] EXCEPT !.pc = "done", !.answer = answer]
  <2>5. q \in AudioRequest /\ q.pc = "done"
    BY ONLY <1>0, <1>5, <2>4, AudioAnswers
  <2>6. upload' = [upload EXCEPT ![u] = q]
    BY ONLY <2>4
  <2>7. /\ files' = files \ {u} /\ UNCHANGED <<left, restarted>> /\ configured' \in BOOLEAN
        /\ u \notin left
    BY <1>0, <1>5, <1>a DEF Speech!Finish, Speech!Unlinked
  <2> HIDE DEF q
  <2> QED BY <2>5, <2>6, <2>7, AudioStep
<1>6. CASE Speech!Restart
  <2> DEFINE q(u) == [upload[u] EXCEPT !.pc = "done"]
  <2>1. \A u \in Uploads : q(u) \in AudioRequest /\ q(u).pc = "done"
    BY ONLY <1>0, AudioEnds
  <2>2. upload' = [u \in Uploads |-> IF u \in Speech!InProgress THEN q(u) ELSE upload[u]]
    BY <1>6 DEF Speech!Restart
  <2> HIDE DEF q
  <2>3. upload' \in [Uploads -> AudioRequest]
    BY <1>0, <2>1, <2>2
  <2>4. AudioTypes'
    <3>1. restarted' \in 0..MaxRestarts
      BY <1>6, SpeechAssumption DEF Speech!Restart, AudioTypes
    <3>2. left' \subseteq Uploads
      BY <1>6 DEF Speech!Restart, AudioTypes, Speech!InProgress
    <3> QED BY <1>6, <2>3, <3>1, <3>2 DEF Speech!Restart, AudioTypes
  <2>5. Speech!InProgress' = {}
    BY <2>1, <2>2 DEF Speech!InProgress
  <2>6. \A u \in left' : u \in Uploads /\ (u \in left \/ u \in Speech!InProgress)
    BY <1>6 DEF Speech!Restart, AudioTypes, Speech!InProgress
  <2>7. \A u \in left' : upload'[u].pc = "done"
    BY <1>0, <2>1, <2>2, <2>6
  <2>8. files' = left'
    BY <1>6 DEF Speech!Restart, AudioInv
  <2> QED BY <2>4, <2>5, <2>7, <2>8 DEF AudioInv
<1>7. CASE UNCHANGED Speech!avars
  BY <1>7 DEF Speech!avars, AudioTypes, AudioInv, Speech!InProgress
<1> QED BY <1>1, <1>2, <1>3, <1>4, <1>5, <1>6, <1>7
        DEF Speech!Next, Speech!Transcribe, Speech!TranscribeVerbose, Speech!Translate

\* An audio file is on the disk exactly as long as its request is in progress,
\* but for the files of requests that died with the process.
THEOREM AudioSafety == Spec => []AudioKeptWhileUsed
<1>1. Init => AudioTypes /\ AudioInv
  BY PartInits, AudioInit
<1>2. AudioTypes /\ AudioInv /\ [Next]_vars => AudioTypes' /\ AudioInv'
  BY PartSteps, AudioNext
<1>3. AudioInv => AudioKeptWhileUsed
  BY DEF AudioInv, AudioKeptWhileUsed, Speech!AudioKeptWhileUsed
<1> QED BY <1>1, <1>2, <1>3, PTL DEF Spec

-----------------------------------------------------------------------------
(* The metrics page *)

Sample == [v : 0..MaxEvents, later : BOOLEAN, ok : BOOLEAN, seen : 0..MaxEvents,
           life : 1..MaxLives]

\* What GET /metrics answered.
Taken(a) ==
  /\ a.window \in Windows /\ a.ok \in BOOLEAN
  /\ a.v \in 0..MaxEvents /\ a.seen \in 0..MaxEvents /\ a.life \in 1..MaxLives

ChartTypes ==
  /\ counter \in 0..happened /\ happened \in 0..MaxEvents /\ lives \in 1..MaxLives
  /\ window \in Windows /\ polled \in 0..MaxPolls /\ summary \in BOOLEAN
  /\ poll = [l \in Polls |-> poll[l]]
  /\ \A l \in Polls : /\ poll[l].pc \in {"idle", "asked", "answered", "summary"}
                      /\ poll[l].pc = "asked" => poll[l].window \in Windows
                      /\ poll[l].pc = "answered" => Taken(poll[l])
  /\ series \in Seq(Sample)

\* The counter at some time, with the history of that time, as the server has
\* it, as an answer holds it that is not drawn yet, or as the chart shows it.
View(a) == [v |-> a.v, seen |-> a.seen, life |-> a.life]
Now == [v |-> counter, seen |-> happened, life |-> lives]
Answers == {View(poll[l]) : l \in {k \in Polls : poll[k].pc = "answered"}}
Samples == {View(series[i]) : i \in {j \in 1..Len(series) : series[j].ok}}

\* Of one process they differ by what happened between them; what an earlier
\* process has seen, a later one does not count.
Agree(a, b) ==
  /\ a.life = b.life => a.v - b.v = a.seen - b.seen
  /\ a.life < b.life => a.seen <= b.seen - b.v

Snapshot == [v : Nat, seen : Nat, life : Nat]

ViewsAgree(views) ==
  /\ views \subseteq Snapshot
  /\ \A a \in views : /\ a.v <= a.seen /\ a.seen <= happened /\ a.life <= lives
                      /\ Agree(a, Now)
                      /\ \A b \in views : Agree(a, b)

ChartInv == ChartTypes /\ ViewsAgree(Answers \cup Samples)

\* The server counts, starts again, or is asked; everything else only copies
\* what is known already.
LEMMA ViewsKept ==
  ASSUME ChartTypes, NEW old, NEW new, ViewsAgree(old), new \subseteq old,
         UNCHANGED <<counter, happened, lives>>
  PROVE  ViewsAgree(new)'
BY DEF ViewsAgree, Now

LEMMA ViewsCount ==
  ASSUME ChartTypes, NEW views, ViewsAgree(views),
         counter' = counter + 1, happened' = happened + 1, lives' = lives
  PROVE  ViewsAgree(views)'
<1>1. counter \in Nat /\ happened \in Nat /\ lives \in Nat
  BY ChartsAssumption DEF ChartTypes
<1>2. ASSUME NEW a \in views
      PROVE  a.v <= a.seen /\ a.seen <= happened' /\ a.life <= lives' /\ Agree(a, Now')
  <2>1. /\ a.v \in Nat /\ a.seen \in Nat /\ a.life \in Nat
        /\ a.v <= a.seen /\ a.seen <= happened /\ a.life <= lives /\ Agree(a, Now)
    BY DEF ViewsAgree, Snapshot
  <2> QED BY ONLY <1>1, <2>1, counter' = counter + 1, happened' = happened + 1, lives' = lives
          DEF Agree, Now
<1> QED BY <1>2 DEF ViewsAgree

LEMMA ViewsRestart ==
  ASSUME ChartTypes, NEW views, ViewsAgree(views),
         counter' = 0, happened' = happened, lives' = lives + 1
  PROVE  ViewsAgree(views)'
<1>1. counter \in Nat /\ happened \in Nat /\ lives \in Nat
  BY ChartsAssumption DEF ChartTypes
<1>2. ASSUME NEW a \in views
      PROVE  a.v <= a.seen /\ a.seen <= happened' /\ a.life <= lives' /\ Agree(a, Now')
  <2>1. /\ a.v \in Nat /\ a.seen \in Nat /\ a.life \in Nat
        /\ a.v <= a.seen /\ a.seen <= happened /\ a.life <= lives
    BY DEF ViewsAgree, Snapshot
  <2> QED BY ONLY <1>1, <2>1, counter' = 0, happened' = happened, lives' = lives + 1
          DEF Agree, Now
<1> QED BY <1>2 DEF ViewsAgree

LEMMA ViewsTaken ==
  ASSUME ChartTypes, NEW old, NEW new, ViewsAgree(old), new \subseteq old \cup {Now},
         UNCHANGED <<counter, happened, lives>>
  PROVE  ViewsAgree(new)'
<1>1. counter \in Nat /\ happened \in Nat /\ lives \in Nat /\ counter <= happened
  BY ChartsAssumption DEF ChartTypes
<1>2. /\ Now \in Snapshot /\ Now.v <= Now.seen /\ Now.seen <= happened /\ Now.life <= lives
      /\ Agree(Now, Now)
  BY <1>1 DEF Now, Snapshot, Agree
<1>3. ASSUME NEW a \in old PROVE Agree(a, Now) /\ Agree(Now, a)
  <2>1. /\ a.v \in Nat /\ a.seen \in Nat /\ a.life \in Nat
        /\ a.life <= lives /\ Agree(a, Now)
    BY DEF ViewsAgree, Snapshot
  <2> QED BY ONLY <1>1, <2>1 DEF Agree, Now
<1>4. ViewsAgree(old \cup {Now})
  BY <1>2, <1>3 DEF ViewsAgree
<1>5. Now' = Now
  BY DEF Now
<1> QED BY <1>4, <1>5 DEF ViewsAgree

LEMMA ChartInit == Charts!Init => ChartInv
<1> SUFFICES ASSUME Charts!Init PROVE ChartInv
  OBVIOUS
<1>1. 0 \in 0..MaxEvents /\ 0 \in 0..0 /\ 0 \in 0..MaxPolls /\ 1 \in 1..MaxLives
  BY ChartsAssumption
<1>2. \A l \in Polls : poll[l].pc = "idle"
  BY DEF Charts!Init, Charts!Idle
<1>3. series = <<>> /\ series \in Seq(Sample) /\ Len(series) = 0
  BY DEF Charts!Init
<1>4. ChartTypes
  BY <1>1, <1>2, <1>3 DEF Charts!Init, ChartTypes
<1>5. Answers = {} /\ Samples = {}
  BY <1>2, <1>3 DEF Answers, Samples
<1> QED BY <1>4, <1>5 DEF ChartInv, ViewsAgree

LEMMA TrimmedSeries ==
  ASSUME NEW w \in Windows, series \in Seq(Sample)
  PROVE  /\ Charts!Trimmed(series, w) \in Seq(Sample)
         /\ \A i \in 1..Len(Charts!Trimmed(series, w)) :
              \E j \in 1..Len(series) : Charts!Trimmed(series, w)[i] = series[j]
<1>1. w \in Nat \ {0} /\ Len(series) \in Nat
  BY ChartsAssumption, LenProperties
<1>2. CASE w = 1 \/ Len(series) < w
  BY <1>2 DEF Charts!Trimmed
<1>3. CASE ~(w = 1 \/ Len(series) < w)
  <2> DEFINE m == Len(series) - w + 2
             n == Len(series)
             t == SubSeq(series, m, n)
  <2>1. Charts!Trimmed(series, w) = t
    BY <1>3 DEF Charts!Trimmed
  <2>2. m \in Int /\ n \in Int /\ m >= 2 /\ m <= n
    BY <1>1, <1>3
  <2>3. \A i \in m..n : i \in 1..Len(series) /\ series[i] \in Sample
    BY <2>2, ElementOfSeq
  <2> HIDE DEF m
  <2>4. /\ t \in Seq(Sample) /\ Len(t) = n - m + 1
        /\ \A i \in 1..(n - m + 1) : t[i] = series[m + i - 1]
    BY <2>2, <2>3, SubSeqProperties
  <2>5. \A i \in 1..(n - m + 1) : m + i - 1 \in 1..Len(series)
    BY <2>2
  <2> HIDE DEF t
  <2> QED BY <2>1, <2>4, <2>5
<1> QED BY <1>2, <1>3

\* What poll of a poll has its type.
PollType(p) ==
  /\ p.pc \in {"idle", "asked", "answered", "summary"}
  /\ p.pc = "asked" => p.window \in Windows
  /\ p.pc = "answered" => Taken(p)

\* A poll moves on, with no answer in it that is not known.
LEMMA PollMoves ==
  ASSUME ChartTypes, NEW l \in Polls, NEW p, PollType(p),
         poll' = [poll EXCEPT ![l] = p],
         p.pc = "answered" => View(p) = Now
  PROVE  /\ poll' = [k \in Polls |-> poll'[k]]
         /\ \A k \in Polls : PollType(poll'[k])
         /\ Answers' \subseteq Answers \cup {Now}
         /\ p.pc # "answered" => Answers' \subseteq Answers
<1>1. \A k \in Polls : poll'[k] = IF k = l THEN p ELSE poll[k]
  BY DEF ChartTypes
<1>2. poll' = [k \in Polls |-> poll'[k]]
  BY DEF ChartTypes
<1>3. \A k \in Polls : PollType(poll'[k])
  BY <1>1 DEF ChartTypes, PollType
<1>4. ASSUME NEW k \in Polls, poll'[k].pc = "answered"
      PROVE  View(poll'[k]) \in Answers \/ (p.pc = "answered" /\ View(poll'[k]) = Now)
  <2>1. CASE k = l
    BY ONLY <1>1, <1>4, <2>1, p.pc = "answered" => View(p) = Now
  <2>2. CASE k # l
    <3>1. poll'[k] = poll[k]
      BY <1>1, <2>2
    <3> QED BY <1>4, <3>1 DEF Answers
  <2> QED BY <2>1, <2>2
<1>5. Answers' = {View(poll'[k]) : k \in {m \in Polls : poll'[m].pc = "answered"}}
  BY DEF Answers, View
<1>6. Answers' \subseteq Answers \cup {Now} /\ (p.pc # "answered" => Answers' \subseteq Answers)
  BY ONLY <1>4, <1>5
<1> QED BY <1>2, <1>3, <1>6

LEMMA ChartNext == ChartInv /\ [Charts!Next]_(Charts!vars) => ChartInv'
<1> SUFFICES ASSUME ChartInv, [Charts!Next]_(Charts!vars) PROVE ChartInv'
  OBVIOUS
<1>0. ChartTypes /\ ViewsAgree(Answers \cup Samples)
  BY DEF ChartInv
<1>1. CASE Charts!Happens
  <2>1. ChartTypes'
    BY <1>0, <1>1, ChartsAssumption DEF Charts!Happens, ChartTypes
  <2>2. Answers' = Answers /\ Samples' = Samples
    BY <1>1 DEF Charts!Happens, Answers, Samples
  <2>3. ViewsAgree(Answers \cup Samples)'
    BY <1>0, <1>1, <2>2, ViewsCount DEF Charts!Happens, ViewsAgree, Now
  <2> QED BY <2>1, <2>3 DEF ChartInv
<1>2. CASE Charts!Restart
  <2>1. ChartTypes'
    BY <1>0, <1>2, ChartsAssumption DEF Charts!Restart, ChartTypes
  <2>2. Answers' = Answers /\ Samples' = Samples
    BY <1>2 DEF Charts!Restart, Answers, Samples
  <2>3. ViewsAgree(Answers \cup Samples)'
    BY <1>0, <1>2, <2>2, ViewsRestart DEF Charts!Restart, ViewsAgree, Now
  <2> QED BY <2>1, <2>3 DEF ChartInv
<1>3. ASSUME NEW l \in Polls, NEW ok \in BOOLEAN, Charts!Answer(l, ok) PROVE ChartInv'
  <2> DEFINE p == [pc |-> "answered", window |-> poll[l].window, ok |-> ok,
                   v |-> counter, seen |-> happened, life |-> lives]
  <2>1. /\ poll' = [poll EXCEPT ![l] = p]
        /\ UNCHANGED <<counter, happened, lives, window, polled, series, summary>>
    BY <1>3 DEF Charts!Answer, Charts!server
  <2>2. poll[l].window \in Windows /\ counter \in 0..MaxEvents
    BY <1>0, <1>3, ChartsAssumption DEF Charts!Answer, ChartTypes
  <2>3. PollType(p) /\ View(p) = Now /\ p.pc = "answered"
    BY <1>0, <2>2 DEF ChartTypes, PollType, Taken, View, Now
  <2> HIDE DEF p
  <2>4. /\ poll' = [k \in Polls |-> poll'[k]] /\ \A k \in Polls : PollType(poll'[k])
        /\ Answers' \subseteq Answers \cup {Now}
    BY ONLY <1>0, <1>3, <2>1, <2>3, PollMoves
  <2>5. ChartTypes'
    BY ONLY <1>0, <2>1, <2>4 DEF ChartTypes, PollType
  <2>6. Samples' = Samples
    BY <2>1 DEF Samples
  <2>7. PICK new : new = (Answers \cup Samples)'
    OBVIOUS
  <2>8. new \subseteq (Answers \cup Samples) \cup {Now}
    BY ONLY <2>4, <2>6, <2>7
  <2>9. ViewsAgree(new)'
    BY ONLY <1>0, <2>1, <2>8, ViewsTaken
  <2>10. ViewsAgree(Answers \cup Samples)'
    BY ONLY <2>7, <2>9 DEF ViewsAgree, Now
  <2> QED BY <2>5, <2>10 DEF ChartInv
<1>4. ASSUME NEW l \in Polls, NEW p, PollType(p), p.pc # "answered",
             poll' = [poll EXCEPT ![l] = p],
             UNCHANGED <<counter, happened, lives>>, window' \in Windows,
             polled' \in 0..MaxPolls, summary' \in BOOLEAN, series' \in Seq(Sample),
             Samples' \subseteq Answers \cup Samples
      PROVE  ChartInv'
  <2>1. /\ poll' = [k \in Polls |-> poll'[k]] /\ \A k \in Polls : PollType(poll'[k])
        /\ Answers' \subseteq Answers
    BY ONLY <1>0, <1>4, PollMoves
  <2>2. ChartTypes'
    BY ONLY <1>0, <1>4, <2>1 DEF ChartTypes, PollType
  <2>3. PICK new : new = (Answers \cup Samples)'
    OBVIOUS
  <2>4. new \subseteq Answers \cup Samples
    BY ONLY <1>4, <2>1, <2>3
  <2>5. ViewsAgree(new)'
    BY ONLY <1>0, <1>4, <2>4, ViewsKept
  <2>6. ViewsAgree(Answers \cup Samples)'
    BY ONLY <2>3, <2>5 DEF ViewsAgree, Now
  <2> QED BY <2>2, <2>6 DEF ChartInv
<1>5. ASSUME NEW l \in Polls, NEW w \in Windows,
             (Charts!Load(l) /\ w = window) \/ Charts!SetWindow(l, w)
      PROVE  ChartInv'
  <2> DEFINE p == [pc |-> "asked", window |-> w]
  <2>1. /\ poll' = [poll EXCEPT ![l] = p] /\ polled < MaxPolls /\ polled' = polled + 1
        /\ UNCHANGED <<counter, happened, lives, series, summary>> /\ window' \in Windows
    BY <1>0, <1>5 DEF Charts!Load, Charts!SetWindow, Charts!Begin, Charts!server, ChartTypes
  <2>2. PollType(p) /\ p.pc # "answered"
    BY DEF PollType
  <2>3. /\ polled' \in 0..MaxPolls /\ summary' \in BOOLEAN /\ series' \in Seq(Sample)
        /\ Samples' = Samples
    BY <1>0, <2>1, ChartsAssumption DEF ChartTypes, Samples
  <2> HIDE DEF p
  <2> QED BY <1>4, <2>1, <2>2, <2>3
<1>6. ASSUME NEW l \in Polls, NEW p, PollType(p), p.pc # "answered",
             poll' = [poll EXCEPT ![l] = p],
             UNCHANGED <<counter, happened, lives, window, polled, series>>,
             summary' \in BOOLEAN
      PROVE  ChartInv'
  <2>1. /\ window' \in Windows /\ polled' \in 0..MaxPolls /\ series' \in Seq(Sample)
        /\ Samples' = Samples
    BY <1>0, <1>6 DEF ChartTypes, Samples
  <2> QED BY <1>4, <1>6, <2>1
<1>7. PollType(Charts!Idle) /\ Charts!Idle.pc = "idle"
  BY DEF PollType, Charts!Idle
<1>8. ASSUME NEW l \in Polls, Charts!Summarise(l) \/ Charts!LoadFails(l) PROVE ChartInv'
  <2>1. /\ poll' = [poll EXCEPT ![l] = Charts!Idle] /\ summary' \in BOOLEAN
        /\ UNCHANGED <<counter, happened, lives, window, polled, series>>
    BY <1>8 DEF Charts!Summarise, Charts!LoadFails, Charts!server
  <2> QED BY ONLY <1>6, <1>7, <1>8, <2>1
<1>9. ASSUME NEW l \in Polls, Charts!Chart(l) PROVE ChartInv'
  <2>1. poll[l].pc = "answered" /\ Taken(poll[l])
    BY <1>0, <1>9 DEF Charts!Chart, ChartTypes
  <2>2. PICK later \in BOOLEAN : series' = Charts!Charted(poll[l], later)
    BY <1>9 DEF Charts!Chart
  <2> DEFINE t == Charts!Trimmed(series, poll[l].window)
             s == [v |-> Charts!Summed(poll[l]), later |-> later, ok |-> poll[l].ok,
                   seen |-> poll[l].seen, life |-> poll[l].life]
  <2>3. series' = Append(t, s)
    BY <2>2 DEF Charts!Charted
  <2>4. Charts!Summed(poll[l]) = IF poll[l].ok THEN poll[l].v ELSE 0
    BY DEF Charts!Summed, Charts!Lines
  <2>5. Charts!Summed(poll[l]) \in 0..MaxEvents
    BY <2>1, <2>4, ChartsAssumption DEF Taken
  <2>6. s \in Sample
    BY <2>1, <2>5 DEF Taken, Sample
  <2>7. s.ok => View(s) = View(poll[l])
    BY <2>4 DEF View
  <2>8. /\ t \in Seq(Sample)
        /\ \A i \in 1..Len(t) : \E j \in 1..Len(series) : t[i] = series[j]
    BY <1>0, <2>1, TrimmedSeries DEF ChartTypes, Taken
  <2> HIDE DEF s, t
  <2>9. /\ series' \in Seq(Sample) /\ Len(series') = Len(t) + 1 /\ Len(t) \in Nat
        /\ \A i \in 1..Len(t) : series'[i] = t[i]
        /\ series'[Len(t) + 1] = s
    BY ONLY <2>3, <2>6, <2>8, AppendProperties, LenProperties
  <2>10. ASSUME NEW i \in 1..Len(series'), series'[i].ok
         PROVE  View(series'[i]) \in Answers \cup Samples
    <3>1. CASE i = Len(t) + 1
      <4>1. View(series'[i]) = View(poll[l])
        BY ONLY <2>7, <2>9, <2>10, <3>1
      <4> QED BY ONLY <1>9, <2>1, <4>1 DEF Answers
    <3>2. CASE i # Len(t) + 1
      <4>1. i \in 1..Len(t)
        BY ONLY <2>9, <2>10, <3>2
      <4>2. PICK j \in 1..Len(series) : series'[i] = series[j]
        BY ONLY <2>8, <2>9, <4>1
      <4> QED BY ONLY <2>10, <4>2 DEF Samples
    <3> QED BY ONLY <3>1, <3>2
  <2>11. Samples' = {View(series'[i]) : i \in {j \in 1..Len(series') : series'[j].ok}}
    BY DEF Samples, View
  <2>12. Samples' \subseteq Answers \cup Samples
    BY ONLY <2>10, <2>11
  <2>13. PICK p : /\ poll' = [poll EXCEPT ![l] = p] /\ p \in {[pc |-> "summary"], Charts!Idle}
    BY <1>9 DEF Charts!Chart
  <2>14. PollType(p) /\ p.pc # "answered"
    BY <1>7, <2>13 DEF PollType
  <2>15. /\ UNCHANGED <<counter, happened, lives>> /\ window' \in Windows
         /\ polled' \in 0..MaxPolls /\ summary' \in BOOLEAN
    BY <1>0, <1>9 DEF Charts!Chart, Charts!server, ChartTypes
  <2> QED BY ONLY <1>4, <1>9, <2>9, <2>12, <2>13, <2>14, <2>15
<1>10. ASSUME NEW l \in Polls, Charts!Open(l) PROVE ChartInv'
  <2> DEFINE p == [pc |-> "asked", window |-> window]
  <2>1. /\ poll' = [k \in Polls |-> IF k = l THEN p ELSE Charts!Idle]
        /\ polled < MaxPolls /\ polled' = polled + 1 /\ series' = <<>> /\ summary' = FALSE
        /\ UNCHANGED <<counter, happened, lives, window>>
    BY <1>10 DEF Charts!Open, Charts!server
  <2>2. PollType(p) /\ p.pc = "asked"
    BY <1>0 DEF PollType, ChartTypes
  <2> HIDE DEF p
  <2>3. \A k \in Polls : PollType(poll'[k]) /\ poll'[k].pc # "answered"
    BY <1>7, <2>1, <2>2
  <2>4. poll' = [k \in Polls |-> poll'[k]]
    BY ONLY <2>1
  <2>5. series' \in Seq(Sample) /\ Len(series') = 0 /\ polled' \in 0..MaxPolls
    BY <1>0, <2>1, ChartsAssumption DEF ChartTypes
  <2>6. ChartTypes'
    BY ONLY <1>0, <2>1, <2>3, <2>4, <2>5 DEF ChartTypes, PollType
  <2>7. Answers' = {} /\ Samples' = {}
    BY <2>3, <2>5 DEF Answers, Samples
  <2> QED BY <2>6, <2>7 DEF ChartInv, ViewsAgree
<1>11. CASE UNCHANGED Charts!vars
  BY <1>11 DEF Charts!vars, ChartInv, ChartTypes, ViewsAgree, Answers, Samples, View, Now, Taken
<1>12. ASSUME NEW l \in Polls, Charts!Load(l) PROVE ChartInv'
  BY <1>0, <1>5, <1>12 DEF ChartTypes
<1> QED BY <1>1, <1>2, <1>3, <1>5, <1>8, <1>9, <1>10, <1>11, <1>12 DEF Charts!Next

\* No rate drawn stands for more events than happened between its two samples,
\* across restarts of the API, other windows and polls that overlap.
THEOREM RatesSafety == Spec => []RatesAreReal
<1>1. Init => ChartInv
  BY PartInits, ChartInit
<1>2. ChartInv /\ [Next]_vars => ChartInv'
  BY PartSteps, ChartNext
<1>3. ChartInv => RatesAreReal
  <2> SUFFICES ASSUME ChartInv, NEW i \in 2..Len(series), Charts!Sound(i)
               PROVE  Charts!Rise(i) <= series[i].seen - series[i - 1].seen
    BY DEF RatesAreReal, Charts!RatesAreReal
  <2> DEFINE a == series[i - 1]
             b == series[i]
  <2>1. i \in 1..Len(series) /\ i - 1 \in 1..Len(series)
    BY LenProperties DEF ChartInv, ChartTypes
  <2>2. a.ok /\ b.ok /\ a.seen <= b.seen /\ a.life <= b.life
    BY DEF Charts!Sound
  <2>3. a \in Sample /\ b \in Sample
    BY <2>1, ElementOfSeq DEF ChartInv, ChartTypes
  <2>4. View(a) \in Samples /\ View(b) \in Samples
    BY <2>1, <2>2 DEF Samples
  <2>5. Agree(View(a), View(b)) /\ View(a).v <= View(a).seen
    BY <2>4 DEF ChartInv, ViewsAgree
  <2>6. /\ a.life = b.life => a.v - b.v = a.seen - b.seen
        /\ a.life < b.life => a.seen <= b.seen - b.v
    BY <2>5 DEF Agree, View
  <2>7. /\ a.v \in Nat /\ a.seen \in Nat /\ a.life \in Nat
        /\ b.v \in Nat /\ b.seen \in Nat /\ b.life \in Nat
    BY <2>3, ChartsAssumption DEF Sample
  <2>8. Charts!Rise(i) = b.v - a.v \/ Charts!Rise(i) = 0
    BY DEF Charts!Rise
  <2> HIDE DEF a, b
  <2>9. b.v - a.v <= b.seen - a.seen
    BY ONLY <2>2, <2>6, <2>7
  <2>10. 0 <= b.seen - a.seen
    BY ONLY <2>2, <2>7
  <2>11. Charts!Rise(i) <= b.seen - a.seen
    BY ONLY <2>8, <2>9, <2>10
  <2> QED BY <2>11 DEF a, b
<1> QED BY <1>1, <1>2, <1>3, PTL DEF Spec

-----------------------------------------------------------------------------
(* Loyalty, chat and search *)

\* Loyalty with what is shown of it.
PointsT == INSTANCE LoyaltyProofs WITH account <- loyalty

LEMMA PointsInit == Points!Init => PointsT!Init
BY DEF Points!Init, Points!NoAccount, Points!Idle, Points!RewardIds, Points!Unfinished,
       PointsT!Init, PointsT!NoAccount, PointsT!Idle, PointsT!RewardIds, PointsT!Unfinished

LEMMA PointsNext == [Points!Next]_(Points!lvars) => [PointsT!Next]_(PointsT!lvars)
<1>1. \A r \in Requests, amount \in Amounts :
      Points!AwardRead(r, amount) => PointsT!AwardRead(r, amount)
  BY DEF Points!AwardRead, Points!Begin, Points!Points, Points!getTierBonus, Points!Idle,
         Points!NoAccount, PointsT!AwardRead, PointsT!Begin, PointsT!Points,
         PointsT!getTierBonus, PointsT!Idle, PointsT!NoAccount
<1>2. \A r \in Requests, cost \in Costs :
      Points!RedeemRead(r, cost) => PointsT!RedeemRead(r, cost)
  BY DEF Points!RedeemRead, Points!Begin, Points!Idle, Points!NoAccount, PointsT!RedeemRead,
         PointsT!Begin, PointsT!Idle, PointsT!NoAccount
<1>3. \A r \in Requests, i \in 1..MaxRewards : Points!ApplyRead(r, i) => PointsT!ApplyRead(r, i)
  BY DEF Points!ApplyRead, Points!Begin, Points!Idle, Points!NoAccount, PointsT!ApplyRead,
         PointsT!Begin, PointsT!Idle, PointsT!NoAccount
<1>4. \A r \in Requests, j \in Jobs : Points!ApplyWrite(r, j) => PointsT!ApplyWrite(r, j)
  BY DEF Points!ApplyWrite, Points!Idle, Points!NoAccount, PointsT!ApplyWrite, PointsT!Idle,
         PointsT!NoAccount
<1>5. \A r \in Requests :
      /\ Points!AwardLog(r) => PointsT!AwardLog(r)
      /\ Points!AwardCredit(r) => PointsT!AwardCredit(r)
  BY DEF Points!AwardLog, Points!AwardCredit, Points!calculateTier, Points!Idle,
         Points!NoAccount, PointsT!AwardLog, PointsT!AwardCredit, PointsT!calculateTier,
         PointsT!Idle, PointsT!NoAccount
<1>6. \A r \in Requests :
      /\ Points!RedeemLog(r) => PointsT!RedeemLog(r)
      /\ Points!RedeemReward(r) => PointsT!RedeemReward(r)
      /\ Points!RedeemDebit(r) => PointsT!RedeemDebit(r)
  BY DEF Points!RedeemLog, Points!RedeemReward, Points!RedeemDebit, Points!Debit,
         Points!Slots, Points!RewardIds, Points!Idle, Points!NoAccount, PointsT!RedeemLog,
         PointsT!RedeemReward, PointsT!RedeemDebit, PointsT!Debit, PointsT!Slots,
         PointsT!RewardIds, PointsT!Idle, PointsT!NoAccount
<1>7. \A r \in Requests : Points!Die(r) => PointsT!Die(r)
  BY DEF Points!Die, Points!Idle, Points!NoAccount, Points!Unfinished, PointsT!Die,
         PointsT!Idle, PointsT!NoAccount, PointsT!Unfinished
<1>8. \A i \in 1..MaxRewards : Points!Expire(i) => PointsT!Expire(i)
  BY DEF Points!Expire, PointsT!Expire
<1> QED BY <1>1, <1>2, <1>3, <1>4, <1>5, <1>6, <1>7, <1>8
       DEF Points!Next, Points!RewardIds, Points!lvars,
           PointsT!Next, PointsT!RewardIds, PointsT!lvars

LEMMA PointsSpec == Spec => PointsT!Spec
<1>1. [Next]_vars => [PointsT!Next]_(PointsT!lvars)
  BY PartSteps, PointsNext
<1>2. Init => PointsT!Init
  BY PartInits, PointsInit
<1> QED BY <1>1, <1>2, PTL DEF Spec, PointsT!Spec

LEMMA PointsNumbers == PointsT!Numbers
BY PointsAssumption DEF PointsT!Numbers

\* redeemReward takes from the account what every reward cost, however many
\* redemptions overlap, but for rewards whose redemption died before the debit.
THEOREM RewardsPaid == Spec => []RewardsArePaid
<1>1. PointsT!Spec => []PointsT!RewardsArePaid
  BY PointsT!RewardSafety, PointsNumbers
<1>2. PointsT!RewardsArePaid => RewardsArePaid
  BY DEF RewardsArePaid, Points!RewardsArePaid, Points!OneByOne, Points!Credited,
         PointsT!RewardsArePaid, PointsT!OneByOne, PointsT!Credited
<1> QED BY <1>1, <1>2, PointsSpec, PTL

\* As long as no two of awardPointsForJob, redeemReward and applyReward overlap,
\* the account is what its transactions add up to, but for those logged by an
\* operation that died before it wrote the account.
THEOREM BalanceKept == Spec => []BalanceIsLedger
<1>1. PointsT!Spec => []PointsT!BalanceIsLedger
  BY PointsT!BalanceSafety, PointsNumbers
<1>2. PointsT!BalanceIsLedger => BalanceIsLedger
  BY DEF BalanceIsLedger, Points!BalanceIsLedger, Points!calculateTier, Points!OneByOne,
         Points!Credited, PointsT!BalanceIsLedger, PointsT!calculateTier, PointsT!OneByOne,
         PointsT!Credited
<1> QED BY <1>1, <1>2, PointsSpec, PTL

LEMMA PointsTyped == Spec => []Points!TypeOK
<1>1. PointsT!Spec => []PointsT!TypeOK
  BY PointsT!LoyaltyTypes, PointsNumbers
<1>2. PointsT!TypeOK => Points!TypeOK
  BY DEF Points!TypeOK, Points!Tiers, Points!RewardIds, Points!Unfinished,
         PointsT!TypeOK, PointsT!Tiers, PointsT!RewardIds, PointsT!Unfinished
<1> QED BY <1>1, <1>2, PointsSpec, PTL

-----------------------------------------------------------------------------
\* Chat with what is shown of it.
RoomT == INSTANCE ChatProofs WITH Take <- PageSize

LEMMA RoomInit == Room!Init => RoomT!Init
BY DEF Room!Init, Room!NoFetch, RoomT!Init, RoomT!NoFetch

LEMMA RoomNext == [Room!Next]_(Room!cvars) => [RoomT!Next]_(RoomT!cvars)
<1>1. \A u \in {Customer} \cup Providers :
      /\ Room!JoinLook(u) => RoomT!JoinLook(u)
      /\ Room!JoinDone(u) => RoomT!JoinDone(u)
      /\ Room!Leave(u) => RoomT!Leave(u)
  BY DEF Room!JoinLook, Room!JoinDone, Room!Leave, Room!Authorized, RoomT!JoinLook,
         RoomT!JoinDone, RoomT!Leave, RoomT!Authorized
<1>2. \A m \in Messages, u \in {Customer} \cup Providers :
      /\ Room!Send(m, u) => RoomT!Send(m, u)
      /\ Room!SendRefused(m, u) => RoomT!SendRefused(m, u)
  BY DEF Room!Send, Room!SendRefused, Room!SendTo, Room!wsAllowed, Room!Recent,
         Room!Cardinality, RoomT!Send, RoomT!SendRefused, RoomT!SendTo, RoomT!wsAllowed,
         RoomT!Recent, RoomT!Cardinality
<1>3. \A m \in Messages :
      /\ Room!Save(m) => RoomT!Save(m)
      /\ Room!Emit(m) => RoomT!Emit(m)
  BY DEF Room!Save, Room!Emit, Room!SendTo, Room!Shown, RoomT!Save, RoomT!Emit,
         RoomT!SendTo, RoomT!Shown
<1>4. \A f \in Fetches :
      /\ Room!Fetch(f) => RoomT!Fetch(f)
      /\ Room!Answer(f) => RoomT!Answer(f)
      /\ Room!Receive(f) => RoomT!Receive(f)
  BY DEF Room!Fetch, Room!Answer, Room!Receive, Room!NewestOf, Room!Position, Room!NoFetch,
         Room!Elements, RoomT!Fetch, RoomT!Answer, RoomT!Receive, RoomT!NewestOf,
         RoomT!Position, RoomT!NoFetch, RoomT!Elements
<1>5. Room!Restart => RoomT!Restart
  BY DEF Room!Restart, Room!NoFetch, RoomT!Restart, RoomT!NoFetch
<1> QED BY <1>1, <1>2, <1>3, <1>4, <1>5
       DEF Room!Next, Room!Users, Room!cvars, RoomT!Next, RoomT!Users, RoomT!cvars

LEMMA RoomSpec == Spec => RoomT!Spec
<1>1. [Next]_vars => [RoomT!Next]_(RoomT!cvars)
  BY PartSteps, RoomNext
<1>2. Init => RoomT!Init
  BY PartInits, RoomInit
<1> QED BY <1>1, <1>2, PTL DEF Spec, RoomT!Spec

LEMMA RoomSizes == RoomT!Sizes /\ MaxCrashes \in Nat
BY RoomAssumption DEF RoomT!Sizes

\* What a page of the room shows, broadcast by chat:send or fetched from
\* listMessages, is stored, wherever the process dies.
THEOREM RoomShown == Spec => []ShownIsStored
<1>1. RoomT!Spec => []RoomT!ShownIsStored
  BY RoomT!ShownSafety, RoomSizes
<1>2. RoomT!ShownIsStored => ShownIsStored
  BY DEF ShownIsStored, Room!ShownIsStored, Room!Elements, RoomT!ShownIsStored, RoomT!Elements
<1> QED BY <1>1, <1>2, RoomSpec, PTL

\* An older page of listMessages is older than all of the page its cursor came
\* with, whatever chat:send stores between the two requests.
THEOREM RoomPaging == Spec => []PagesGoBack
<1>1. RoomT!Spec => []RoomT!PagesGoBack
  BY RoomT!PagingSafety, RoomSizes
<1>2. RoomT!PagesGoBack => PagesGoBack
  BY DEF PagesGoBack, Room!PagesGoBack, Room!Position, RoomT!PagesGoBack, RoomT!Position
<1> QED BY <1>1, <1>2, RoomSpec, PTL

LEMMA RoomTyped == Spec => []Room!TypeOK
<1>1. RoomT!Spec => []RoomT!TypeOK
  BY RoomT!ChatTypes, RoomSizes
<1>2. RoomT!TypeOK => Room!TypeOK
  BY DEF Room!TypeOK, Room!Users, RoomT!TypeOK, RoomT!Users
<1> QED BY <1>1, <1>2, RoomSpec, PTL

-----------------------------------------------------------------------------
\* Search with what is shown of it.
WalkT == INSTANCE SearchProofs

\* The other parts start with some rows and some query.
LEMMA WalkInit == Init => WalkT!Init
<1>1. (CHOOSE r \in Rows : TRUE) \in Rows /\ (CHOOSE q \in Queries : TRUE) \in Queries
  BY SearchAssumption
<1>2. CASE part = "walk"
  BY <1>2 DEF Init, Walk!Init, WalkT!Init
<1>3. CASE part # "walk"
  BY <1>1, <1>3 DEF Init, WalkT!Init
<1> QED BY <1>2, <1>3

LEMMA WalkCalls ==
  /\ Walk!ByDistance = WalkT!ByDistance /\ Walk!Filtered = WalkT!Filtered
  /\ \A S : Walk!Cardinality(S) = WalkT!Cardinality(S)
  /\ \A p : Walk!WithinReach(p) <=> WalkT!WithinReach(p)
  /\ \A p : Walk!SortKey(p) = WalkT!SortKey(p)
BY DEF Walk!Filtered, Walk!Matches, Walk!ByDistance, Walk!Cardinality, Walk!Min,
       Walk!WithinReach, Walk!SortKey, Walk!MinServicePrice,
       WalkT!Filtered, WalkT!Matches, WalkT!ByDistance, WalkT!Cardinality, WalkT!Min,
       WalkT!WithinReach, WalkT!SortKey, WalkT!MinServicePrice

LEMMA WalkResults ==
  /\ Walk!Total = WalkT!Total
  /\ \A p, q : Walk!Before(p, q) <=> WalkT!Before(p, q)
  /\ \A i : Walk!PageItems(i) = WalkT!PageItems(i)
<1>1. Walk!Found = WalkT!Found
  BY WalkCalls DEF Walk!Found, Walk!Fetched, WalkT!Found, WalkT!Fetched
<1>2. Walk!Total = WalkT!Total
  BY <1>1, WalkCalls DEF Walk!Total, WalkT!Total
<1>3. \A p, q : Walk!Before(p, q) <=> WalkT!Before(p, q)
  BY WalkCalls DEF Walk!Before, WalkT!Before
<1>4. \A p : {q \in Walk!Found : Walk!Before(q, p)} = {q \in WalkT!Found : WalkT!Before(q, p)}
  BY <1>1, <1>3
<1>5. Walk!Sorted = WalkT!Sorted
  <2> DEFINE before(p) == {q \in Walk!Found : Walk!Before(q, p)}
             beforeT(p) == {q \in WalkT!Found : WalkT!Before(q, p)}
  <2>1. \A i : (CHOOSE p \in Walk!Found : Walk!Cardinality(before(p)) = i - 1)
               = (CHOOSE p \in WalkT!Found : WalkT!Cardinality(beforeT(p)) = i - 1)
    BY <1>1, <1>4, WalkCalls
  <2> DEFINE at(i) == CHOOSE p \in Walk!Found : Walk!Cardinality(before(p)) = i - 1
             atT(i) == CHOOSE p \in WalkT!Found : WalkT!Cardinality(beforeT(p)) = i - 1
  <2>2. Walk!Sorted = [i \in 1..Walk!Cardinality(Walk!Found) |-> at(i)]
    BY DEF Walk!Sorted
  <2>3. WalkT!Sorted = [i \in 1..WalkT!Cardinality(WalkT!Found) |-> atT(i)]
    BY DEF WalkT!Sorted
  <2>4. \A i : at(i) = atT(i)
    BY <2>1
  <2> HIDE DEF at, atT
  <2>5. Walk!Cardinality(Walk!Found) = WalkT!Cardinality(WalkT!Found)
    BY <1>1, WalkCalls
  <2> QED BY <2>2, <2>3, <2>4, <2>5
<1>6. \A i : Walk!PageItems(i) = WalkT!PageItems(i)
  BY <1>5 DEF Walk!PageItems, Walk!Smaller, Walk!Start,
              WalkT!PageItems, WalkT!Smaller, WalkT!Start
<1> QED BY <1>2, <1>3, <1>6

LEMMA WalkNext == [Walk!Next]_(Walk!wvars) => [WalkT!Next]_(WalkT!wvars)
<1>1. Walk!Ask => WalkT!Ask
  BY DEF Walk!Ask, WalkT!Ask
<1>2. Walk!Show => WalkT!Show
  BY WalkResults DEF Walk!Show, Walk!Start, WalkT!Show, WalkT!Start
<1>3. \A p \in 1..N : Walk!SetLocation(p) => WalkT!SetLocation(p)
  BY DEF Walk!SetLocation, WalkT!SetLocation
<1> QED BY <1>1, <1>2, <1>3 DEF Walk!Next, Walk!wvars, WalkT!Next, WalkT!wvars

LEMMA WalkSpec == Spec => WalkT!Spec
<1>1. [Next]_vars => [WalkT!Next]_(WalkT!wvars)
  BY PartSteps, WalkNext
<1> QED BY <1>1, WalkInit, PTL DEF Spec, WalkT!Spec

LEMMA WalkFigures == WalkT!Figures
BY SearchAssumption DEF WalkT!Figures, WalkT!Row

\* A visitor who walks through all pages of search or near, while no provider
\* moves, has seen every provider he asked for exactly once and in order,
\* although every request filters, sorts and cuts again.
THEOREM WalkCompleted == Spec => []WalkIsComplete
<1>1. WalkT!Spec => []WalkT!WalkIsComplete
  BY WalkT!WalkSafety, WalkFigures
<1>2. \A p : Walk!Wanted(p) <=> WalkT!Wanted(p)
  BY WalkCalls DEF Walk!Wanted, WalkT!Wanted
<1>3. WalkT!WalkIsComplete => WalkIsComplete
  BY <1>2, WalkCalls, WalkResults DEF WalkIsComplete, Walk!WalkIsComplete,
                                      WalkT!WalkIsComplete
<1> QED BY <1>1, <1>3, WalkSpec, PTL

LEMMA WalkTyped == Spec => []Walk!TypeOK
<1>1. WalkT!Spec => []WalkT!TypeOK
  BY WalkT!SearchTypes, WalkFigures
<1>2. WalkT!TypeOK => Walk!TypeOK
  BY DEF Walk!TypeOK, WalkT!TypeOK
<1> QED BY <1>1, <1>2, WalkSpec, PTL

-----------------------------------------------------------------------------
(* Types *)

\* The rows, files, counts and pages of all parts keep their types and bounds,
\* whatever overlaps, fails or dies: in particular points are never negative.
THEOREM ServicesTypes == Spec => []TypeOK
<1> DEFINE Own == /\ Photo!TypeOK /\ VisitTypes /\ ResultsTypes /\ LastAsked
                  /\ LimitsInv /\ AudioTypes /\ AudioInv /\ ChartInv
<1>1. Init => Own
  BY PartInits, PhotoTypesInit, VisitTypesInit, ResultsInit, LimitsInit, AudioInit, ChartInit
<1>2. Own /\ [Next]_vars => Own'
  <2> SUFFICES ASSUME Own, [Next]_vars PROVE Own'
    OBVIOUS
  <2>1. Photo!TypeOK' /\ VisitTypes'
    BY PartSteps, PhotoTypesNext, VisitTypesNext
  <2>2. ResultsTypes' /\ LastAsked' /\ LimitsInv'
    BY PartSteps, ResultsNext, LimitsNext
  <2>3. AudioTypes' /\ AudioInv' /\ ChartInv'
    BY PartSteps, AudioNext, ChartNext
  <2> QED BY <2>1, <2>2, <2>3
<1>3. Own /\ Points!TypeOK /\ Walk!TypeOK /\ Room!TypeOK => TypeOK
  <2>1. VisitTypes => Visit!TypeOK
    BY DEF VisitTypes, VisitRow, VisitRequest, Checkpoint, Location, Visit!TypeOK
  <2>2. ResultsTypes => Results!TypeOK
    BY DEF ResultsTypes, Results!TypeOK
  <2>3. LimitsInv => Limits!TypeOK
    BY DEF LimitsInv, LimitsTypes, Places, Counts, Limits!TypeOK
  <2>4. AudioTypes => Speech!TypeOK
    BY DEF AudioTypes, AudioRequest, AudioAnswer, Speech!TypeOK
  <2>5. ChartInv => Charts!TypeOK
    BY DEF ChartInv, ChartTypes, Sample, Charts!TypeOK
  <2> QED BY <2>1, <2>2, <2>3, <2>4, <2>5 DEF TypeOK
<1> QED BY <1>1, <1>2, <1>3, PointsTyped, WalkTyped, RoomTyped, PTL DEF Spec

=============================================================================
