---------------------------- MODULE AudioUpload ----------------------------
(***************************************************************************)
(* The audio of one call: upload_audio and source_url (api/v1/audio.py)    *)
(* writing it through the blob store (storage/seaweed.py), and playback    *)
(* reading ranges of it.                                                   *)
(*                                                                         *)
(* upload_audio is a coroutine that calls blocking code, so it holds the   *)
(* API's event loop from its first statement to its last; source_url runs  *)
(* on a thread.  Either way the session commits or rolls back when the     *)
(* loop gets to close the request, after the handler has returned, and the *)
(* row lock that the flush of UPLOADING took is held until then.           *)
(*                                                                         *)
(* Audio is the request it came from and the range of that request's bytes *)
(* that is stored: [of, first, size].                                      *)
(***************************************************************************)
EXTENDS Integers, FiniteSets, CallState

CONSTANTS
  Requests,        \* uploads of this call
  Names,           \* file names, as safe_filename leaves them
  MaxAudioBytes,   \* max_audio_bytes
  FetchedBytes,    \* what the storage client reads before it talks to the store
  MaxRestarts      \* bound: times the API process dies

ASSUME UploadAssumption ==
  /\ MaxAudioBytes \in Nat \ {0}
  /\ FetchedBytes \in 1..MaxAudioBytes
  /\ MaxRestarts \in Nat
  /\ "none" \notin Requests

VARIABLES
  status,    \* the call's committed status
  assets,    \* committed audio_assets
  lock,      \* the request whose open transaction has updated the call's row
  loop,      \* the request that holds the API's event loop
  bucket,    \* the audio bucket exists
  objects,   \* what is stored under each name
  req,       \* the requests
  restarts   \* how often the API process died

dbVars == <<status, assets, lock>>
vars   == <<dbVars, loop, bucket, objects, req, restarts>>

\* One byte more than is allowed stands for every size above the limit.
Sizes == 0..MaxAudioBytes + 1
Audio == [of : Requests, first : 0..MaxAudioBytes, size : 0..MaxAudioBytes]
Whole(r) == [of |-> r, first |-> 0, size |-> req[r].size]

\* size_bytes of the row: upload_audio prefers what its reader counted to what
\* upload_stream returned, source_url has only the latter.
Booked(r) == IF req[r].isUpload /\ req[r].counted > 0 THEN req[r].counted ELSE req[r].confirmed

\* A row of audio_assets: the digest is of the bytes the reader handed out.
Asset(r) ==
  [by |-> r, name |-> req[r].name, size |-> Booked(r),
   digest |-> [of |-> r, first |-> 0, size |-> req[r].counted]]

Init ==
  /\ status = "CREATED"
  /\ assets = {}
  /\ lock = None
  /\ loop = None
  /\ bucket \in BOOLEAN
  /\ objects = [n \in Names |-> {}]
  /\ req = [r \in Requests |->
              [pc |-> "new", isUpload |-> FALSE, name |-> None, size |-> 0, counted |-> 0, lost |-> 0,
               confirmed |-> 0]]
  /\ restarts = 0

-----------------------------------------------------------------------------
(* The handlers.                                                           *)

At(r, pc) == req[r].pc = pc
Goto(r, pc) == req' = [req EXCEPT ![r].pc = pc]

\* The handler returns, or raises: the loop is free again, and has to close
\* the request.
Return(r, pc) ==
  /\ loop' = IF loop = r THEN None ELSE loop
  /\ Goto(r, pc)

\* Read the call, check the name and the type, and move the copy to UPLOADING.
\* source_url has the whole body by then and refuses an empty or a long one.
Accepts(isUpload, size, typeOk) ==
  /\ typeOk
  /\ isUpload \/ size \in 1..MaxAudioBytes
  /\ Legal(status, "UPLOADING")

Arrive(r, isUpload, name, size, typeOk) ==
  /\ At(r, "new")
  /\ loop = None
  /\ LET ok == Accepts(isUpload, size, typeOk) IN
     /\ req' = [req EXCEPT ![r] = [@ EXCEPT !.pc = IF ok THEN "flush" ELSE "rollback",
                                            !.isUpload = isUpload, !.name = name, !.size = size]]
     /\ loop' = IF isUpload /\ ok THEN r ELSE None
  /\ UNCHANGED <<dbVars, bucket, objects, restarts>>

\* Mutant of Flush: without the flush, the row is updated and locked at the end.
FlushIsLeftOut(r) ==
  /\ At(r, "flush")
  /\ Goto(r, "put")
  /\ UNCHANGED <<dbVars, loop, bucket, objects, restarts>>

\* session.flush() updates the row, once no other transaction has it.
Flush(r) ==
  /\ At(r, "flush")
  /\ lock = None
  /\ lock' = r
  /\ Goto(r, "put")
  /\ UNCHANGED <<status, assets, loop, bucket, objects, restarts>>

\* SizeLimitReader raises AudioTooLarge.
TooLarge(size) == size > MaxAudioBytes

\* upload_fileobj sends what the stream still holds.  The stream cannot be
\* rewound: SizeLimitReader has no seek, and the attempt to is swallowed.
Send(r) ==
  IF TooLarge(req[r].size)
    THEN /\ Return(r, "rollback")
         /\ UNCHANGED <<dbVars, bucket, objects, restarts>>
    ELSE /\ objects' = [objects EXCEPT ![req[r].name] =
                          {[of |-> r, first |-> req[r].counted, size |-> req[r].size - req[r].counted]}]
         /\ req' = [req EXCEPT ![r].pc = "head", ![r].counted = req[r].size]
         /\ UNCHANGED <<dbVars, loop, bucket, restarts>>

\* The store refused: nothing is stored.
StoreFails(r, pc) ==
  /\ At(r, pc)
  /\ Return(r, "rollback")
  /\ UNCHANGED <<dbVars, bucket, objects, restarts>>

Put(r) ==
  /\ At(r, "put")
  /\ bucket
  /\ Send(r)

\* NoSuchBucket is learnt after the first bytes were read from the stream.
Fetched(r) == IF req[r].size < FetchedBytes THEN req[r].size ELSE FetchedBytes

PutFindsNoBucket(r) ==
  /\ At(r, "put")
  /\ ~bucket
  /\ req' = [req EXCEPT ![r].pc = "ensure", ![r].counted = Fetched(r), ![r].lost = Fetched(r)]
  /\ UNCHANGED <<dbVars, loop, bucket, objects, restarts>>

EnsureBuckets(r) ==
  /\ At(r, "ensure")
  /\ bucket' = TRUE
  /\ Goto(r, "again")
  /\ UNCHANGED <<dbVars, loop, objects, restarts>>

PutAgain(r) ==
  /\ At(r, "again")
  /\ Send(r)

\* upload_stream returns the length that head_object reports of the object, or
\* for 0 the length it was given, which is source_url's.
Confirmed(r, object) == IF object.size = 0 /\ ~req[r].isUpload THEN req[r].size ELSE object.size

\* An upload without a byte, read or stored, is refused.
Refuses(r, confirmed) == req[r].isUpload /\ confirmed = 0 /\ req[r].counted = 0

Head(r) ==
  /\ At(r, "head")
  /\ \E object \in objects[req[r].name] :
       LET confirmed == Confirmed(r, object) IN
       req' = [req EXCEPT ![r] = [@ EXCEPT !.pc = IF Refuses(r, confirmed) THEN "rollback" ELSE "commit",
                                           !.confirmed = confirmed]]
  /\ loop' = IF loop = r THEN None ELSE loop
  /\ UNCHANGED <<dbVars, bucket, objects, restarts>>

-----------------------------------------------------------------------------
(* get_sync_session, closed by the event loop.                             *)

Unlocked(r) == IF lock = r THEN None ELSE lock

Commit(r) ==
  /\ At(r, "commit")
  /\ loop = None
  /\ status' = "QUEUED"
  /\ assets' = assets \cup {Asset(r)}
  /\ lock' = Unlocked(r)
  /\ Goto(r, "ok")
  /\ UNCHANGED <<loop, bucket, objects, restarts>>

\* Mutant of Rollback: the session is closed without giving the lock back.
RollbackKeepsLock(r) ==
  /\ At(r, "rollback")
  /\ loop = None
  /\ Goto(r, "failed")
  /\ UNCHANGED <<dbVars, loop, bucket, objects, restarts>>

Rollback(r) ==
  /\ At(r, "rollback")
  /\ loop = None
  /\ lock' = Unlocked(r)
  /\ Goto(r, "failed")
  /\ UNCHANGED <<status, assets, loop, bucket, objects, restarts>>

Open(r) == req[r].pc \notin {"new", "ok", "failed"}

\* The API process dies and comes back: open transactions are gone, and the
\* buckets are made on the way up if the store answers.
Restart ==
  /\ restarts < MaxRestarts
  /\ restarts' = restarts + 1
  /\ \E made \in {bucket, TRUE} : bucket' = made
  /\ req' = [r \in Requests |-> IF Open(r) THEN [req[r] EXCEPT !.pc = "failed"] ELSE req[r]]
  /\ loop' = None
  /\ lock' = None
  /\ UNCHANGED <<status, assets, objects>>

-----------------------------------------------------------------------------
(* Playback.                                                               *)

\* A Range header: none, a suffix length, or a first byte and maybe a last.
Ranges ==
  {[kind |-> "all"]}
  \cup {[kind |-> "suffix", n |-> n] : n \in 0..MaxAudioBytes + 1}
  \cup {[kind |-> "from", first |-> f] : f \in 0..MaxAudioBytes + 1}
  \cup {[kind |-> "span", first |-> f, last |-> l] : f, l \in 0..MaxAudioBytes + 1}

LeastOf(a, b) == IF a < b THEN a ELSE b

\* Mutant of RangeTuple: the last byte is not clamped.
RangeTupleUnclamped(range, size) ==
  CASE range.kind = "all"    -> <<0, size - 1, 200>>
    [] range.kind = "suffix" -> <<size - range.n, size - 1, 206>>
    [] OTHER ->
         IF range.first >= size
           THEN <<0, size - 1, 416>>
           ELSE <<range.first, IF range.kind = "from" THEN size - 1 ELSE range.last, 206>>

\* _range_tuple: <<first, last, status>>
RangeTuple(range, size) ==
  CASE range.kind = "all"    -> <<0, size - 1, 200>>
    [] range.kind = "suffix" -> <<IF size > range.n THEN size - range.n ELSE 0, size - 1, 206>>
    [] OTHER ->
         IF range.first >= size
           THEN <<0, size - 1, 416>>
           ELSE <<range.first,
                  IF range.kind = "from" THEN size - 1 ELSE LeastOf(range.last, size - 1), 206>>

\* What the store sends of an object for a first and a last byte: a reversed
\* range is no range and gets everything, one past the end gets nothing.
Sent(object, first, last) ==
  IF first > last THEN 0..object.size - 1
                  ELSE {b \in 0..object.size - 1 : first <= b /\ b <= last}

\* _stream_asset: the length comes from the row, the bytes from the store.
Playback(asset, object, range) ==
  LET t == RangeTuple(range, asset.size) IN
  IF t[3] = 416
    THEN [code |-> 416, length |-> 0, bytes |-> {}]
    ELSE [code |-> t[3], length |-> t[2] - t[1] + 1, bytes |-> Sent(object, t[1], t[2])]

-----------------------------------------------------------------------------
Handler(r) ==
  \/ Flush(r) \/ Put(r) \/ PutFindsNoBucket(r) \/ EnsureBuckets(r) \/ PutAgain(r) \/ Head(r)
  \/ Commit(r) \/ Rollback(r)
  \/ \E pc \in {"put", "ensure", "again", "head"} : StoreFails(r, pc)

Next ==
  \/ \E r \in Requests, isUpload, typeOk \in BOOLEAN, name \in Names, size \in Sizes :
       Arrive(r, isUpload, name, size, typeOk)
  \/ \E r \in Requests : Handler(r)
  \/ Restart

\* A handler that can go on does, and the loop closes requests when it is free.
Fairness == \A r \in Requests : WF_vars(Handler(r))

Spec == Init /\ [][Next]_vars /\ Fairness

-----------------------------------------------------------------------------
(* Properties.                                                             *)

Request == [ pc : {"new", "flush", "put", "ensure", "again", "head", "commit", "rollback", "ok", "failed"},
             isUpload : BOOLEAN, name : Names \cup {None}, size : Sizes,
             counted : 0..MaxAudioBytes, lost : 0..MaxAudioBytes, confirmed : 0..MaxAudioBytes ]

AudioAsset == [ by : Requests, name : Names, size : 0..MaxAudioBytes, digest : Audio ]

\* The shape of the state; with it, that no request reads more of a file than
\* may be stored (validate.py:48-59).
TypeOK ==
  /\ status \in {"CREATED", "QUEUED"}
  /\ assets \subseteq AudioAsset
  /\ lock \in Requests \cup {None}
  /\ loop \in Requests \cup {None}
  /\ bucket \in BOOLEAN
  /\ objects \in [Names -> SUBSET Audio]
  /\ req \in [Requests -> Request]
  /\ restarts \in 0..MaxRestarts

\* What is left of a file once the bytes a failed first attempt had read are gone.
Left(r) == req[r].size - req[r].lost

\* Every asset of the call came from a file that was accepted whole, which its
\* digest is of; its object holds what a failed first attempt left of that file,
\* unless a later request has since written the same name.  The size an upload
\* books is that of the file, and the size source_url books is that of the
\* object, but for an empty one.  A call is queued exactly when it has an asset
\* (audio.py:41-66, 85-103, seaweed.py:98-124).
AudioIsWhatWasAccepted ==
  /\ status = "QUEUED" <=> assets # {}
  /\ \A a \in assets :
       /\ req[a.by].size > 0
       /\ a.digest = Whole(a.by)
       /\ a.size = IF req[a.by].isUpload \/ Left(a.by) = 0 THEN req[a.by].size ELSE Left(a.by)
       /\ \/ objects[a.name] = {[of |-> a.by, first |-> req[a.by].lost, size |-> Left(a.by)]}
          \/ \E o \in objects[a.name] : o.of # a.by

\* The bytes a Range header asks for, by RFC 9110.
AskedBytes(range, size) ==
  {b \in 0..size - 1 :
     CASE range.kind = "all"    -> TRUE
       [] range.kind = "suffix" -> b >= size - range.n
       [] range.kind = "from"   -> b >= range.first
       [] range.kind = "span"   -> b >= range.first /\ b <= range.last}

\* Playback of audio that is stored whole sends the bytes that were asked for,
\* under a Content-Length that counts them, or 416 when there are none.  Left
\* out are a reversed range and an empty suffix, which _range_tuple lets through
\* (audio.py:110-123, 182-207).
PlaysWhatWasAsked ==
  \A a \in assets, range \in Ranges :
    LET asked == AskedBytes(range, a.size)
        played == Playback(a, a.digest, range)
    IN \/ objects[a.name] # {a.digest}
       \/ range.kind = "span" /\ range.last < range.first
       \/ range.kind = "suffix" /\ range.n = 0
       \/ /\ played.bytes = asked
          /\ played.length = Cardinality(asked)
          /\ played.code = 416 <=> asked = {}

\* The loop waits for a row whose holder waits for the loop.
LoopIsStuck ==
  \E r, s \in Requests : loop = r /\ At(r, "flush") /\ lock = s /\ req[s].pc \in {"commit", "rollback"}

\* Every request that is taken up ends, unless an upload blocks the event loop
\* on the lock of another request whose end only the loop can bring
\* (audio.py:30-42, deps.py:get_sync_session).
UploadEnds == \A r \in Requests : Open(r) ~> (~Open(r) \/ LoopIsStuck)

\* "Validation: MIME type, extension, configurable max bytes, non-empty"
\* (docs/ARCHITECTURE.md:353): audio that is queued is not empty.
NoEmptyAudioIsQueued == \A a \in assets : \A o \in objects[a.name] : o.size > 0
=============================================================================
