-------------------------- MODULE AudioUploadProofs --------------------------
(***************************************************************************)
(* For any number of uploads, of any size, with restarts and a store that  *)
(* fails anywhere: the rows of a call's audio describe files that were     *)
(* accepted whole, and what is stored of them.                             *)
(***************************************************************************)
EXTENDS AudioUpload, FiniteSetTheorems, TLAPS

\* Between the flush and the end of the request, the row is locked.
Writing == {"put", "ensure", "again", "head", "commit"}
OneWriter == \A r \in Requests : req[r].pc \in Writing => lock = r

\* What a request has read of its file, and stored, where it is.
Progress(r) ==
  /\ req[r].pc \in {"new", "flush", "put"} => req[r].counted = 0 /\ req[r].lost = 0
  /\ req[r].pc \in {"ensure", "again"} => req[r].counted = req[r].lost
  /\ req[r].pc \in Writing => req[r].lost <= req[r].size
  /\ req[r].pc \in Writing \cup {"flush"} => req[r].isUpload \/ req[r].size > 0
  /\ req[r].pc \in {"head", "commit", "ok"} => req[r].counted = req[r].size
  /\ req[r].pc \in {"head", "commit"} =>
       objects[req[r].name] = {[of |-> r, first |-> req[r].lost, size |-> Left(r)]}
  /\ req[r].pc = "commit" =>
       /\ req[r].size > 0
       /\ ~req[r].isUpload => req[r].confirmed = IF Left(r) = 0 THEN req[r].size ELSE Left(r)
  /\ req[r].pc \in Writing \cup {"flush", "ok"} => req[r].name \in Names

UploadInv ==
  /\ TypeOK
  /\ OneWriter
  /\ \A r \in Requests : Progress(r)
  /\ \A a \in assets : req[a.by].pc = "ok"
  /\ AudioIsWhatWasAccepted

USE DEF None

LEMMA InitUpload == Init => UploadInv
<1> SUFFICES ASSUME Init PROVE UploadInv
  OBVIOUS
<1> USE UploadAssumption DEF Init
<1>1. TypeOK
  BY DEF TypeOK, Request, Sizes
<1>2. OneWriter /\ \A r \in Requests : Progress(r)
  BY DEF OneWriter, Progress, Writing, Left
<1>3. (\A a \in assets : req[a.by].pc = "ok") /\ AudioIsWhatWasAccepted
  BY DEF AudioIsWhatWasAccepted
<1> QED BY <1>1, <1>2, <1>3 DEF UploadInv

\* A step of one request that writes neither rows of audio nor objects.
LEMMA OtherStep ==
  ASSUME UploadInv, NEW r \in Requests, req' \in [Requests -> Request],
         req[r].pc \notin {"ok"},
         \A s \in Requests \ {r} : req'[s] = req[s],
         UNCHANGED <<status, assets, objects>>,
         lock' \in Requests \cup {None}, loop' \in Requests \cup {None},
         bucket' \in BOOLEAN, UNCHANGED restarts,
         \A s \in Requests \ {r} : lock = s => lock' = s,
         req'[r].pc \in Writing => lock' = r,
         Progress(r)'
  PROVE  UploadInv'
<1> USE UploadAssumption
<1>1. TypeOK'
  BY DEF UploadInv, TypeOK
<1>2. OneWriter'
  BY DEF UploadInv, OneWriter
<1>3. \A s \in Requests : Progress(s)'
  BY DEF UploadInv, Progress, Left
<1>4. \A a \in assets : a.by \in Requests \ {r}
  BY DEF UploadInv, TypeOK, AudioAsset
<1>5. \A a \in assets' : req'[a.by].pc = "ok"
  BY <1>4 DEF UploadInv
<1>6. AudioIsWhatWasAccepted'
  BY <1>4 DEF UploadInv, AudioIsWhatWasAccepted, Whole, Left
<1> QED BY <1>1, <1>2, <1>3, <1>5, <1>6 DEF UploadInv

LEMMA ArriveStep ==
  ASSUME UploadInv, NEW r \in Requests, NEW isUpload \in BOOLEAN, NEW name \in Names,
         NEW size \in Sizes, NEW typeOk \in BOOLEAN, Arrive(r, isUpload, name, size, typeOk)
  PROVE  UploadInv'
<1> USE UploadAssumption
<1> DEFINE pc == IF Accepts(isUpload, size, typeOk) THEN "flush" ELSE "rollback"
<1>0. req \in [Requests -> Request] /\ req[r] \in Request
  BY DEF UploadInv, TypeOK
<1>a. [req[r] EXCEPT !.pc = pc, !.isUpload = isUpload, !.name = name, !.size = size] \in Request
  BY <1>0 DEF Request
<1>b. req' = [req EXCEPT ![r] = [req[r] EXCEPT !.pc = pc, !.isUpload = isUpload, !.name = name, !.size = size]]
  BY <1>0 DEF Arrive
<1>1. req' \in [Requests -> Request] /\ \A s \in Requests \ {r} : req'[s] = req[s]
  BY <1>0, <1>a, <1>b
<1>2. /\ req[r].pc = "new" /\ req'[r].pc \in {"flush", "rollback"} /\ req'[r].name \in Names
      /\ req'[r].counted = req[r].counted /\ req'[r].lost = req[r].lost
      /\ req'[r].pc = "flush" => req'[r].isUpload \/ req'[r].size > 0
  BY DEF UploadInv, TypeOK, Arrive, Request, At, Accepts
<1>3. Progress(r)'
  BY <1>1, <1>2 DEF UploadInv, Progress, Writing
<1> QED BY <1>1, <1>2, <1>3, OtherStep DEF Arrive, UploadInv, TypeOK, dbVars, Writing

LEMMA FlushStep ==
  ASSUME UploadInv, NEW r \in Requests, Flush(r)
  PROVE  UploadInv'
<1> USE UploadAssumption
<1>1. req' \in [Requests -> Request] /\ \A s \in Requests \ {r} : req'[s] = req[s]
  BY DEF UploadInv, TypeOK, Flush, Goto, Request, At
<1>2. /\ req[r] \in Request /\ Progress(r) /\ req[r].pc = "flush"
      /\ req' = [req EXCEPT ![r].pc = "put"] /\ req \in [Requests -> Request]
  BY DEF UploadInv, TypeOK, Flush, Goto, At
<1>3. /\ req'[r].pc = "put" /\ req'[r].counted = req[r].counted /\ req'[r].lost = req[r].lost
      /\ req'[r].size = req[r].size /\ req'[r].name = req[r].name /\ req'[r].isUpload = req[r].isUpload
  BY <1>2 DEF Request
<1>4. req[r].size \in Nat
  BY <1>2, UploadAssumption DEF Request, Sizes
<1>5. Progress(r)'
  BY <1>2, <1>3, <1>4 DEF Progress, Writing
<1> QED BY <1>1, <1>5, OtherStep DEF Flush, Goto, At, UploadInv, TypeOK, Writing

\* A handler that returns towards a rollback, or a rollback: nothing is stored.
LEMMA GiveUpStep ==
  ASSUME UploadInv, NEW r \in Requests, req[r].pc \notin {"new", "ok"},
         NEW pc \in {"rollback", "failed"}, req' = [req EXCEPT ![r].pc = pc],
         UNCHANGED <<status, assets, objects, bucket, restarts>>,
         lock' = lock \/ lock' = Unlocked(r),
         loop' \in {loop, None}
  PROVE  UploadInv'
<1> USE UploadAssumption
<1>0. req \in [Requests -> Request] /\ req[r] \in Request
  BY DEF UploadInv, TypeOK
<1>1. req' \in [Requests -> Request] /\ \A s \in Requests \ {r} : req'[s] = req[s]
  BY <1>0 DEF Request
<1>2. req'[r].pc = pc
  BY <1>0 DEF Request
<1>3. Progress(r)'
  BY <1>2 DEF Progress, Writing
<1> QED BY <1>1, <1>2, <1>3, OtherStep DEF Unlocked, UploadInv, TypeOK, Writing

LEMMA SendStep ==
  ASSUME UploadInv, NEW r \in Requests, req[r].pc \in {"put", "again"}, Send(r)
  PROVE  UploadInv'
<1> USE UploadAssumption
<1>0. /\ req \in [Requests -> Request] /\ req[r] \in Request
      /\ objects \in [Names -> SUBSET Audio]
      /\ Progress(r) /\ lock = r
  BY DEF UploadInv, TypeOK, OneWriter, Writing
<1>1. CASE TooLarge(req[r].size)
  <2>1. /\ req' = [req EXCEPT ![r].pc = "rollback"]
        /\ UNCHANGED <<status, assets, objects, bucket, restarts, lock>>
        /\ loop' \in {loop, None}
    BY <1>1 DEF Send, Return, Goto, dbVars
  <2> QED BY <2>1, GiveUpStep
<1>2. CASE ~TooLarge(req[r].size)
  <2> DEFINE object == [of |-> r, first |-> req[r].lost, size |-> Left(r)]
  <2>1. /\ req[r].counted = req[r].lost /\ req[r].lost <= req[r].size /\ req[r].name \in Names
        /\ req[r].size \in 0..MaxAudioBytes /\ req[r].lost \in 0..MaxAudioBytes
    BY <1>0, <1>2 DEF Progress, TooLarge, Request, Sizes, Writing
  <2>2. /\ objects' = [objects EXCEPT ![req[r].name] = {object}]
        /\ req' = [req EXCEPT ![r].pc = "head", ![r].counted = req[r].size]
        /\ UNCHANGED <<status, assets, lock, loop, bucket, restarts>>
    BY <1>2, <2>1 DEF Send, dbVars, Left
  <2>3. object \in Audio
    BY <2>1 DEF Audio, Left
  <2>4. /\ req' \in [Requests -> Request] /\ objects' \in [Names -> SUBSET Audio]
        /\ \A s \in Requests \ {r} : req'[s] = req[s]
        /\ req'[r] = [req[r] EXCEPT !.pc = "head", !.counted = req[r].size]
    BY <1>0, <2>1, <2>2, <2>3 DEF Request
  <2>5. req'[r].pc = "head" /\ req'[r].counted = req[r].size /\ req'[r].size = req[r].size
        /\ req'[r].lost = req[r].lost /\ req'[r].name = req[r].name
        /\ req'[r].isUpload = req[r].isUpload /\ Left(r)' = Left(r)
    BY <1>0, <2>4 DEF Request, Left
  <2>6. TypeOK'
    BY <2>2, <2>4 DEF UploadInv, TypeOK
  <2>7. OneWriter'
    BY <1>0, <2>2, <2>4 DEF UploadInv, OneWriter
  <2>8. Progress(r)'
    BY <1>0, <2>1, <2>2, <2>5 DEF Progress, Writing
  <2>9. ASSUME NEW s \in Requests \ {r} PROVE Progress(s)'
    <3>1. req[s].pc \notin Writing
      BY <1>0 DEF UploadInv, OneWriter
    <3>2. Progress(s) /\ req'[s] = req[s]
      BY <2>4 DEF UploadInv
    <3> QED BY <3>1, <3>2 DEF Progress, Writing, Left
  <2>10. \A a \in assets : a.by \in Requests \ {r} /\ a.name \in Names
    BY DEF UploadInv, TypeOK, AudioAsset
  <2>11. \A a \in assets' : req'[a.by].pc = "ok"
    BY <2>2, <2>4, <2>10 DEF UploadInv
  <2>12. AudioIsWhatWasAccepted'
    <3>1. /\ status' = "QUEUED" <=> assets' # {}
      BY <2>2 DEF UploadInv, AudioIsWhatWasAccepted
    <3>2. ASSUME NEW a \in assets
          PROVE  /\ req'[a.by].size > 0
                 /\ a.digest = Whole(a.by)'
                 /\ a.size = IF req'[a.by].isUpload \/ Left(a.by)' = 0 THEN req'[a.by].size ELSE Left(a.by)'
                 /\ \/ objects'[a.name] = {[of |-> a.by, first |-> req'[a.by].lost, size |-> Left(a.by)']}
                    \/ \E o \in objects'[a.name] : o.of # a.by
      <4>1. req'[a.by] = req[a.by] /\ Left(a.by)' = Left(a.by)
        BY <2>4, <2>10 DEF Left
      <4>2. CASE a.name = req[r].name
        <5>1. objects'[a.name] = {object}
          BY <1>0, <2>2, <2>10, <4>2
        <5> QED BY <4>1, <5>1, <2>10 DEF UploadInv, AudioIsWhatWasAccepted, Whole
      <4>3. CASE a.name # req[r].name
        <5>1. objects'[a.name] = objects[a.name]
          BY <1>0, <2>2, <2>10, <4>3
        <5> QED BY <4>1, <5>1 DEF UploadInv, AudioIsWhatWasAccepted, Whole
      <4> QED BY <4>2, <4>3
    <3> QED BY <3>1, <3>2, <2>2 DEF AudioIsWhatWasAccepted
  <2> QED BY <2>6, <2>7, <2>8, <2>9, <2>11, <2>12 DEF UploadInv
<1> QED BY <1>1, <1>2

LEMMA NoBucketStep ==
  ASSUME UploadInv, NEW r \in Requests, PutFindsNoBucket(r)
  PROVE  UploadInv'
<1> USE UploadAssumption
<1>0. req \in [Requests -> Request] /\ req[r] \in Request /\ lock = r /\ Progress(r)
  BY DEF UploadInv, TypeOK, OneWriter, Writing, PutFindsNoBucket, At
<1>1. Fetched(r) \in 0..MaxAudioBytes /\ Fetched(r) <= req[r].size
  BY <1>0 DEF Fetched, Request, Sizes
<1>2. req' \in [Requests -> Request] /\ \A s \in Requests \ {r} : req'[s] = req[s]
  BY <1>0, <1>1 DEF PutFindsNoBucket, Request
<1>3. /\ req'[r].pc = "ensure" /\ req'[r].counted = Fetched(r) /\ req'[r].lost = Fetched(r)
      /\ req'[r].size = req[r].size /\ req'[r].name = req[r].name /\ req'[r].isUpload = req[r].isUpload
  BY <1>0 DEF PutFindsNoBucket, Request
<1>4. Progress(r)'
  BY <1>0, <1>1, <1>3 DEF Progress, Writing, PutFindsNoBucket, At
<1> QED BY <1>0, <1>2, <1>3, <1>4, OtherStep DEF PutFindsNoBucket, At, UploadInv, TypeOK, dbVars, Writing

LEMMA EnsureStep ==
  ASSUME UploadInv, NEW r \in Requests, EnsureBuckets(r)
  PROVE  UploadInv'
<1> USE UploadAssumption
<1>0. req \in [Requests -> Request] /\ req[r] \in Request /\ lock = r /\ Progress(r)
  BY DEF UploadInv, TypeOK, OneWriter, Writing, EnsureBuckets, At
<1>1. req' \in [Requests -> Request] /\ \A s \in Requests \ {r} : req'[s] = req[s]
  BY <1>0 DEF EnsureBuckets, Goto, Request
<1>2. Progress(r)' /\ req'[r].pc = "again"
  BY <1>0 DEF EnsureBuckets, At, Goto, Request, Progress, Writing
<1> QED BY <1>0, <1>1, <1>2, OtherStep DEF EnsureBuckets, At, UploadInv, TypeOK, dbVars, Writing

LEMMA HeadStep ==
  ASSUME UploadInv, NEW r \in Requests, Head(r)
  PROVE  UploadInv'
<1> USE UploadAssumption
<1>0. /\ req \in [Requests -> Request] /\ req[r] \in Request /\ lock = r /\ Progress(r) /\ req[r].pc = "head"
      /\ UNCHANGED <<status, assets, lock, bucket, objects, restarts>> /\ loop' \in {loop, None}
  BY DEF UploadInv, TypeOK, OneWriter, Writing, Head, At, dbVars
<1>1. PICK object \in objects[req[r].name] :
        LET confirmed == Confirmed(r, object) IN
        req' = [req EXCEPT ![r] = [@ EXCEPT !.pc = IF Refuses(r, confirmed) THEN "rollback" ELSE "commit",
                                            !.confirmed = confirmed]]
  BY DEF Head
<1> DEFINE confirmed == Confirmed(r, object)
           pc == IF Refuses(r, confirmed) THEN "rollback" ELSE "commit"
           q == [req[r] EXCEPT !.pc = pc, !.confirmed = confirmed]
<1>2. /\ object = [of |-> r, first |-> req[r].lost, size |-> Left(r)]
      /\ req[r].counted = req[r].size /\ req[r].lost <= req[r].size
      /\ req[r].size \in Nat /\ req[r].lost \in Nat /\ req[r].size <= MaxAudioBytes
      /\ (req[r].isUpload \/ req[r].size > 0) /\ req[r].isUpload \in BOOLEAN
      /\ req[r].name \in Names
  BY <1>0, <1>1 DEF Progress, Writing, Request
<1>3. object.size = Left(r) /\ Left(r) \in 0..req[r].size
  BY <1>2 DEF Left
<1>4. /\ confirmed \in 0..MaxAudioBytes
      /\ ~req[r].isUpload => confirmed = IF Left(r) = 0 THEN req[r].size ELSE Left(r)
      /\ req[r].isUpload => confirmed = Left(r)
  BY <1>2, <1>3 DEF Confirmed
<1>5. pc = "commit" => req[r].size > 0
  BY <1>2, <1>3, <1>4 DEF Refuses
<1>6. pc \in {"rollback", "commit"}
  OBVIOUS
<1>7. req' = [req EXCEPT ![r] = q]
  BY <1>0, <1>1
<1> HIDE DEF confirmed, pc
<1>8. /\ q \in Request /\ q.pc = pc /\ q.confirmed = confirmed /\ q.isUpload = req[r].isUpload
      /\ q.name = req[r].name /\ q.size = req[r].size /\ q.counted = req[r].counted /\ q.lost = req[r].lost
  BY <1>0, <1>4, <1>6 DEF Request
<1> HIDE DEF q
<1>9. req' \in [Requests -> Request] /\ req'[r] = q /\ \A s \in Requests \ {r} : req'[s] = req[s]
  BY <1>0, <1>7, <1>8
<1>10. Left(r)' = Left(r)
  BY <1>8, <1>9 DEF Left
<1>11. Progress(r)'
  BY <1>0, <1>2, <1>4, <1>5, <1>6, <1>8, <1>9, <1>10 DEF Progress, Writing
<1>12. loop' \in Requests \cup {None} /\ lock' \in Requests \cup {None} /\ bucket' \in BOOLEAN
  BY <1>0 DEF UploadInv, TypeOK
<1> QED BY <1>0, <1>9, <1>11, <1>12, OtherStep

\* The row that commits describes the file the request accepted.
LEMMA CommitStep ==
  ASSUME UploadInv, NEW r \in Requests, Commit(r)
  PROVE  UploadInv'
<1> USE UploadAssumption
<1>0. /\ req \in [Requests -> Request] /\ req[r] \in Request /\ req[r].pc = "commit"
      /\ Progress(r) /\ lock = r
  BY DEF UploadInv, TypeOK, OneWriter, Writing, Commit, At
<1>1. /\ req' \in [Requests -> Request] /\ \A s \in Requests \ {r} : req'[s] = req[s]
      /\ req'[r] = [req[r] EXCEPT !.pc = "ok"]
  BY <1>0 DEF Commit, Goto, Request
<1>2. /\ req'[r].pc = "ok" /\ req'[r].counted = req[r].counted /\ req'[r].lost = req[r].lost
      /\ req'[r].size = req[r].size /\ req'[r].name = req[r].name
      /\ req'[r].isUpload = req[r].isUpload /\ req'[r].confirmed = req[r].confirmed /\ Left(r)' = Left(r)
  BY <1>0, <1>1 DEF Request, Left
<1>3. /\ req[r].counted = req[r].size /\ req[r].size > 0 /\ req[r].size \in 0..MaxAudioBytes
      /\ req[r].name \in Names
      /\ objects[req[r].name] = {[of |-> r, first |-> req[r].lost, size |-> Left(r)]}
      /\ ~req[r].isUpload => req[r].confirmed = IF Left(r) = 0 THEN req[r].size ELSE Left(r)
      /\ req[r].isUpload \in BOOLEAN /\ req[r].confirmed \in 0..MaxAudioBytes
  BY <1>0 DEF Progress, Writing, Request
<1>4. /\ status' = "QUEUED" /\ assets' = assets \cup {Asset(r)}
      /\ lock' = None /\ UNCHANGED <<loop, bucket, objects, restarts>>
  BY <1>0 DEF Commit, Unlocked
<1>5. /\ Asset(r) = [by |-> r, name |-> req[r].name, size |-> Booked(r), digest |-> Whole(r)]
      /\ Booked(r) = IF req[r].isUpload \/ Left(r) = 0 THEN req[r].size ELSE Left(r)
      /\ Booked(r) \in 0..MaxAudioBytes
  BY <1>3 DEF Asset, Whole, Booked
<1>6. Asset(r) \in AudioAsset
  BY <1>3, <1>5 DEF AudioAsset, Audio, Whole
<1>7. TypeOK'
  BY <1>1, <1>4, <1>6 DEF UploadInv, TypeOK
<1>8. OneWriter'
  BY <1>0, <1>1, <1>2 DEF UploadInv, OneWriter, Writing
<1>9. ASSUME NEW s \in Requests PROVE Progress(s)'
  <2>1. CASE s = r
    BY <1>2, <1>3, <1>4, <2>1 DEF Progress, Writing
  <2>2. CASE s # r
    <3>1. Progress(s) /\ req'[s] = req[s]
      BY <1>1, <2>2 DEF UploadInv
    <3> QED BY <1>4, <3>1 DEF Progress, Left
  <2> QED BY <2>1, <2>2
<1>10. \A a \in assets : a.by \in Requests /\ req[a.by].pc = "ok"
  BY DEF UploadInv, TypeOK, AudioAsset
<1>11. \A a \in assets : a.by # r /\ req'[a.by] = req[a.by]
  BY <1>0, <1>1, <1>10
<1>12. \A a \in assets' : req'[a.by].pc = "ok"
  BY <1>2, <1>4, <1>5, <1>10, <1>11
<1>13. AudioIsWhatWasAccepted'
  <2>1. ASSUME NEW a \in assets'
        PROVE  /\ req'[a.by].size > 0
               /\ a.digest = Whole(a.by)'
               /\ a.size = IF req'[a.by].isUpload \/ Left(a.by)' = 0 THEN req'[a.by].size ELSE Left(a.by)'
               /\ \/ objects'[a.name] = {[of |-> a.by, first |-> req'[a.by].lost, size |-> Left(a.by)']}
                  \/ \E o \in objects'[a.name] : o.of # a.by
    <3>1. CASE a \in assets
      BY <1>4, <1>11, <3>1 DEF UploadInv, AudioIsWhatWasAccepted, Whole, Left
    <3>2. CASE a = Asset(r)
      <4>1. a.by = r /\ a.name = req[r].name /\ a.size = Booked(r) /\ a.digest = Whole(r)
        BY <1>5, <3>2
      <4> QED BY <4>1, <1>2, <1>3, <1>4, <1>5 DEF Whole
    <3> QED BY <1>4, <3>1, <3>2
  <2> QED BY <1>4, <2>1 DEF AudioIsWhatWasAccepted
<1> QED BY <1>7, <1>8, <1>9, <1>12, <1>13 DEF UploadInv

LEMMA RestartStep ==
  ASSUME UploadInv, Restart
  PROVE  UploadInv'
<1> USE UploadAssumption
<1>0. req \in [Requests -> Request]
  BY DEF UploadInv, TypeOK
<1>1. ASSUME NEW r \in Requests
      PROVE  /\ req'[r] \in Request
             /\ req[r].pc \in {"new", "ok", "failed"} => req'[r] = req[r]
             /\ req'[r].pc \in {"new", "ok", "failed"}
             /\ req'[r] = req[r] \/ req'[r].pc = "failed"
             /\ req'[r].counted = req[r].counted /\ req'[r].lost = req[r].lost
             /\ req'[r].size = req[r].size /\ req'[r].name = req[r].name
             /\ req'[r].isUpload = req[r].isUpload /\ req'[r].confirmed = req[r].confirmed
  <2>1. req[r] \in Request
    BY <1>0
  <2> QED BY <2>1 DEF Restart, Open, Request
<1>2. req' \in [Requests -> Request]
  <2>1. req' = [r \in Requests |-> IF Open(r) THEN [req[r] EXCEPT !.pc = "failed"] ELSE req[r]]
    BY DEF Restart
  <2>2. \A r \in Requests : (IF Open(r) THEN [req[r] EXCEPT !.pc = "failed"] ELSE req[r]) \in Request
    BY <1>1, <2>1
  <2> QED BY <2>1, <2>2
<1>3. TypeOK'
  <2>1. bucket' \in BOOLEAN
    <3>1. PICK made \in {bucket, TRUE} : bucket' = made
      BY DEF Restart
    <3> QED BY <3>1, Zenon DEF UploadInv, TypeOK
  <2>2. restarts' \in 0..MaxRestarts
    BY DEF Restart, UploadInv, TypeOK
  <2> QED BY <1>2, <2>1, <2>2 DEF Restart, UploadInv, TypeOK
<1>4. OneWriter'
  BY <1>1 DEF OneWriter, Writing
<1>5. ASSUME NEW r \in Requests PROVE Progress(r)'
  <2>1. Progress(r) /\ UNCHANGED objects
    BY DEF UploadInv, Restart
  <2>2. CASE req'[r] = req[r]
    BY <2>1, <2>2 DEF Progress, Left
  <2>3. CASE req'[r].pc = "failed"
    BY <2>3 DEF Progress, Writing
  <2> QED BY <1>1, <2>2, <2>3
<1>6. \A a \in assets : a.by \in Requests /\ req[a.by].pc = "ok"
  BY DEF UploadInv, TypeOK, AudioAsset
<1>7. \A a \in assets' : req'[a.by] = req[a.by] /\ req'[a.by].pc = "ok"
  BY <1>1, <1>6 DEF Restart
<1>8. AudioIsWhatWasAccepted'
  BY <1>6, <1>7 DEF Restart, UploadInv, AudioIsWhatWasAccepted, Whole, Left
<1> QED BY <1>3, <1>4, <1>5, <1>7, <1>8 DEF UploadInv

LEMMA RollbackStep ==
  ASSUME UploadInv, NEW r \in Requests, Rollback(r)
  PROVE  UploadInv'
BY GiveUpStep DEF Rollback, At, Goto

LEMMA StoreFailsStep ==
  ASSUME UploadInv, NEW r \in Requests, NEW pc \in {"put", "ensure", "again", "head"}, StoreFails(r, pc)
  PROVE  UploadInv'
<1>1. /\ req' = [req EXCEPT ![r].pc = "rollback"]
      /\ UNCHANGED <<status, assets, objects, bucket, restarts, lock>>
      /\ loop' \in {loop, None} /\ req[r].pc = pc
  BY DEF StoreFails, At, Return, Goto, dbVars
<1> QED BY <1>1, GiveUpStep

LEMMA NextUpload == UploadInv /\ [Next]_vars => UploadInv'
<1> SUFFICES ASSUME UploadInv, [Next]_vars PROVE UploadInv'
  OBVIOUS
<1>1. CASE UNCHANGED vars
  <2>1. UNCHANGED <<status, assets, lock, loop, bucket, objects, req, restarts>>
    BY <1>1 DEF vars, dbVars
  <2>2. TypeOK' /\ OneWriter'
    BY <2>1 DEF UploadInv, TypeOK, OneWriter
  <2>3. \A r \in Requests : Progress(r)'
    BY <2>1 DEF UploadInv, Progress, Left
  <2>4. AudioIsWhatWasAccepted' /\ \A a \in assets' : req'[a.by].pc = "ok"
    BY <2>1 DEF UploadInv, AudioIsWhatWasAccepted, Whole, Left
  <2> QED BY <2>2, <2>3, <2>4 DEF UploadInv
<1>2. ASSUME NEW r \in Requests, Put(r) \/ PutAgain(r) PROVE UploadInv'
  BY <1>2, SendStep DEF Put, PutAgain, At
<1>3. ASSUME NEW r \in Requests, Handler(r) PROVE UploadInv'
  BY <1>2, <1>3, FlushStep, NoBucketStep, EnsureStep, HeadStep, CommitStep, RollbackStep, StoreFailsStep DEF Handler
<1> QED BY <1>1, <1>3, ArriveStep, RestartStep DEF Next

\* The audio of a call is typed: among the rest, nothing longer than is allowed
\* is ever read or stored.
THEOREM UploadTypes == Spec => []TypeOK
<1>1. Init => UploadInv
  BY InitUpload
<1>2. UploadInv /\ [Next]_vars => UploadInv'
  BY NextUpload
<1>3. UploadInv => TypeOK
  BY DEF UploadInv
<1> QED BY <1>1, <1>2, <1>3, PTL DEF Spec

\* Whatever uploads, restarts and failures there were, a call is queued exactly
\* when it has audio, and each row describes a file that was accepted whole.
THEOREM UploadsAreAccepted == Spec => []AudioIsWhatWasAccepted
<1>1. Init => UploadInv
  BY InitUpload
<1>2. UploadInv /\ [Next]_vars => UploadInv'
  BY NextUpload
<1>3. UploadInv => AudioIsWhatWasAccepted
  BY DEF UploadInv
<1> QED BY <1>1, <1>2, <1>3, PTL DEF Spec

\* How many bytes there are from one to another.
LEMMA SpanLength ==
  ASSUME NEW first \in Nat, NEW last \in Nat, first <= last
  PROVE  Cardinality(first..last) = last - first + 1
BY FS_Interval

\* What is sent are the bytes asked for, under their number, or 416 for none.
Exact(played, asked) ==
  /\ played.bytes = asked
  /\ played.length = Cardinality(asked)
  /\ played.code = 416 <=> asked = {}

\* What is played of a stored file, once the range to send is a span of it.
LEMMA SpanIsPlayed ==
  ASSUME NEW size \in Nat \ {0}, NEW object, object.size = size, NEW range, NEW asset, asset.size = size,
         NEW first \in Nat, NEW last \in Nat, first <= last, last < size,
         NEW code \in {200, 206},
         RangeTuple(range, size) = <<first, last, code>>,
         AskedBytes(range, size) = first..last
  PROVE  Exact(Playback(asset, object, range), AskedBytes(range, size))
<1>1. Playback(asset, object, range) = [code |-> code, length |-> last - first + 1, bytes |-> Sent(object, first, last)]
  BY DEF Playback
<1>2. Sent(object, first, last) = first..last
  <2>1. Sent(object, first, last) = {b \in 0..size - 1 : first <= b /\ b <= last}
    BY DEF Sent
  <2> QED BY <2>1
<1>3. first \in first..last
  OBVIOUS
<1>4. Cardinality(first..last) = last - first + 1
  BY SpanLength
<1> QED BY <1>1, <1>2, <1>3, <1>4 DEF Exact

\* Whatever its size and the range that is asked for, audio that is stored whole
\* is played as asked.
LEMMA RangeIsPlayed ==
  ASSUME NEW size \in 1..MaxAudioBytes, NEW object, object.size = size, NEW asset, asset.size = size,
         NEW range \in Ranges,
         ~(range.kind = "span" /\ range.last < range.first),
         ~(range.kind = "suffix" /\ range.n = 0)
  PROVE  Exact(Playback(asset, object, range), AskedBytes(range, size))
<1> USE UploadAssumption
<1>1. CASE range = [kind |-> "all"]
  <2>1. RangeTuple(range, size) = <<0, size - 1, 200>>
    BY <1>1 DEF RangeTuple
  <2>2. AskedBytes(range, size) = 0..size - 1
    BY <1>1 DEF AskedBytes
  <2> QED BY <2>1, <2>2, SpanIsPlayed
<1>2. ASSUME NEW n \in 0..MaxAudioBytes + 1, range = [kind |-> "suffix", n |-> n]
      PROVE  Exact(Playback(asset, object, range), AskedBytes(range, size))
  <2> DEFINE first == IF size > n THEN size - n ELSE 0
  <2>1. RangeTuple(range, size) = <<first, size - 1, 206>>
    BY <1>2 DEF RangeTuple
  <2>2. first \in Nat /\ first <= size - 1
    BY <1>2
  <2>3. AskedBytes(range, size) = {b \in 0..size - 1 : b >= size - n}
    BY <1>2 DEF AskedBytes
  <2>4. AskedBytes(range, size) = first..size - 1
    BY <2>3
  <2> HIDE DEF first
  <2> QED BY <2>1, <2>2, <2>4, SpanIsPlayed
<1>3. ASSUME NEW f \in 0..MaxAudioBytes + 1, NEW l \in 0..MaxAudioBytes + 1,
             \/ range = [kind |-> "from", first |-> f] /\ l = size - 1
             \/ range = [kind |-> "span", first |-> f, last |-> l]
      PROVE  Exact(Playback(asset, object, range), AskedBytes(range, size))
  <2> DEFINE last == IF l < size - 1 THEN l ELSE size - 1
  <2>1. AskedBytes(range, size) = {b \in 0..size - 1 : b >= f /\ b <= l}
    <3>1. CASE range = [kind |-> "from", first |-> f] /\ l = size - 1
      BY <3>1 DEF AskedBytes
    <3>2. CASE range = [kind |-> "span", first |-> f, last |-> l]
      BY <3>2 DEF AskedBytes
    <3> QED BY <1>3, <3>1, <3>2
  <2>2. CASE f >= size
    <3>1. RangeTuple(range, size) = <<0, size - 1, 416>>
      <4>1. CASE range = [kind |-> "from", first |-> f] /\ l = size - 1
        BY <4>1, <2>2 DEF RangeTuple
      <4>2. CASE range = [kind |-> "span", first |-> f, last |-> l]
        BY <4>2, <2>2 DEF RangeTuple
      <4> QED BY <1>3, <4>1, <4>2
    <3>2. AskedBytes(range, size) = {}
      BY <2>1, <2>2
    <3>3. Playback(asset, object, range) = [code |-> 416, length |-> 0, bytes |-> {}]
      BY <3>1 DEF Playback
    <3>4. Cardinality({}) = 0
      BY FS_EmptySet
    <3> QED BY <3>2, <3>3, <3>4 DEF Exact
  <2>3. CASE f < size
    <3>1. RangeTuple(range, size) = <<f, last, 206>>
      <4>1. CASE range = [kind |-> "from", first |-> f] /\ l = size - 1
        BY <4>1, <2>3 DEF RangeTuple
      <4>2. CASE range = [kind |-> "span", first |-> f, last |-> l]
        BY <4>2, <2>3 DEF RangeTuple, LeastOf
      <4> QED BY <1>3, <4>1, <4>2
    <3>2. f <= l
      BY <1>3, <2>3
    <3>3. AskedBytes(range, size) = f..last
      BY <2>1, <2>3
    <3>4. f \in Nat /\ last \in Nat /\ f <= last /\ last < size
      BY <2>3, <3>2
    <3> HIDE DEF last
    <3> QED BY <3>1, <3>3, <3>4, SpanIsPlayed
  <2> QED BY <2>2, <2>3
<1>4. \/ range = [kind |-> "all"]
      \/ \E n \in 0..MaxAudioBytes + 1 : range = [kind |-> "suffix", n |-> n]
      \/ \E f, l \in 0..MaxAudioBytes + 1 :
           \/ range = [kind |-> "from", first |-> f] /\ l = size - 1
           \/ range = [kind |-> "span", first |-> f, last |-> l]
  <2>1. size - 1 \in 0..MaxAudioBytes + 1
    OBVIOUS
  <2> QED BY <2>1 DEF Ranges
<1> QED BY <1>1, <1>2, <1>3, <1>4

\* Audio that is stored whole is played as asked, whatever its size: Content-Length
\* and bytes are those of the range, and 416 is for a range with no byte in it.
THEOREM PlaybackIsExact == Spec => []PlaysWhatWasAsked
<1>1. Init => UploadInv
  BY InitUpload
<1>2. UploadInv /\ [Next]_vars => UploadInv'
  BY NextUpload
<1>3. UploadInv => PlaysWhatWasAsked
  <2> SUFFICES ASSUME UploadInv, NEW a \in assets, NEW range \in Ranges,
                      objects[a.name] = {a.digest},
                      ~(range.kind = "span" /\ range.last < range.first),
                      ~(range.kind = "suffix" /\ range.n = 0)
               PROVE  Exact(Playback(a, a.digest, range), AskedBytes(range, a.size))
    BY DEF PlaysWhatWasAsked, Exact
  <2> DEFINE whole == [of |-> a.by, first |-> 0, size |-> req[a.by].size]
             stored == [of |-> a.by, first |-> req[a.by].lost, size |-> Left(a.by)]
  <2>1. /\ req[a.by].size > 0 /\ a.digest = whole
        /\ a.size = IF req[a.by].isUpload \/ Left(a.by) = 0 THEN req[a.by].size ELSE Left(a.by)
        /\ objects[a.name] = {stored} \/ \E o \in objects[a.name] : o.of # a.by
    BY DEF UploadInv, AudioIsWhatWasAccepted, Whole
  <2>2. whole.of = a.by /\ whole.size = req[a.by].size /\ stored.size = Left(a.by)
    OBVIOUS
  <2>3. ~\E o \in objects[a.name] : o.of # a.by
    BY <2>1, <2>2
  <2>4. whole = stored
    BY <2>1, <2>3
  <2>5. Left(a.by) = req[a.by].size
    BY <2>2, <2>4
  <2>6. a.size \in 1..MaxAudioBytes /\ a.digest.size = a.size
    <3>1. a.size \in 0..MaxAudioBytes
      BY DEF UploadInv, TypeOK, AudioAsset
    <3> QED BY <2>1, <2>2, <2>5, <3>1, UploadAssumption
  <2> QED BY <2>6, RangeIsPlayed
<1> QED BY <1>1, <1>2, <1>3, PTL DEF Spec
=============================================================================
