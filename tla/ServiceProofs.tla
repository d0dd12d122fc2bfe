--------------------------- MODULE ServiceProofs ----------------------------
(***************************************************************************)
(* What the service keeps for its users, for any users, images, quotas,    *)
(* windows and versions: avatars and their files, feedback and preferences *)
(* through the merge of accounts, the quotas of requests, the lists they   *)
(* page through, and the database under all of it; then the server that    *)
(* MCServer puts together from all of its parts.                           *)
(***************************************************************************)
EXTENDS MCServer, SearchAiProofs

-----------------------------------------------------------------------------
(* Avatars                                                                 *)

AvatarRows == [version : 0..MaxVersion, image : MaybeImage]

(* The first part of AvatarTypeOK that the argument needs.                 *)
AvatarTypes ==
    /\ active \in BOOLEAN /\ overlapped \in BOOLEAN /\ dropped \in BOOLEAN
    /\ avatar \in AvatarRows /\ block \in MaybeImage
    /\ upload \in [Uploads -> Requests]

(* What the request r still has to do: it is the only one, so the row is   *)
(* as it found it, and the file it will remove is not the one shown.       *)
RequestKnows(r) ==
    /\ r.stage = "idle" => r = Idle
    /\ r.stage \in {"encode", "write", "store"} =>
          active /\ r.image # NoImage /\ r.old = avatar.image
    /\ r.stage = "store" => r.image \in files
    /\ r.stage = "remove" => r.old # NoImage /\ r.old # avatar.image

(* A file without a row is one that a request will still use or remove.    *)
Expected(r) ==
    ({avatar.image} \cup (IF r.stage = "store" THEN {r.image} ELSE {})
       \cup (IF r.stage = "remove" THEN {r.old} ELSE {})) \ {NoImage}

AllIdle == \A p \in Uploads : upload[p].stage = "idle"

Alone ==
    /\ \A p \in Uploads : RequestKnows(upload[p])
    /\ \A p \in Uploads : upload[p].stage # "idle" => ~Overlaps(p)
    /\ avatar.image # NoImage => avatar.image \in files
    /\ ~active => avatar.image = NoImage /\ block = NoImage
    /\ ~dropped => /\ \A p \in Uploads : upload[p].stage # "idle" => files = Expected(upload[p])
                   /\ AllIdle => files = Expected(Idle)

AvatarInv == AvatarTypes /\ (~overlapped => Alone)

LEMMA IdleIsRequest == Idle \in Requests /\ Idle.stage = "idle"
BY DEF Idle, Requests, MaybeImage

LEMMA RemovingIsRequest ==
    ASSUME NEW old \in MaybeImage
    PROVE  /\ Removing(old) \in Requests
           /\ old = NoImage => Removing(old) = Idle
           /\ old # NoImage => Removing(old).stage = "remove" /\ Removing(old).old = old
<1>1. CASE old = NoImage
  BY <1>1, IdleIsRequest DEF Removing
<1>2. CASE old # NoImage
  <2>1. Removing(old) = [stage |-> "remove", image |-> NoImage, old |-> old]
    BY <1>2 DEF Removing, Idle
  <2> QED
    BY <2>1, <1>2 DEF Requests, MaybeImage
<1> QED
  BY <1>1, <1>2

(* A step of the request p that no other one overlaps: the invariant holds *)
(* when it holds of what p becomes, and of the row, block and files.       *)
LEMMA StepAlone ==
    ASSUME AvatarInv, NEW p \in Uploads, NEW req \in Requests, Advance(p, req),
           active' \in BOOLEAN, dropped' \in BOOLEAN, avatar' \in AvatarRows, block' \in MaybeImage,
           ~overlapped /\ ~Overlaps(p) =>
               /\ RequestKnows(req)'
               /\ avatar'.image # NoImage => avatar'.image \in files'
               /\ ~active' => avatar'.image = NoImage /\ block' = NoImage
               /\ ~dropped' => files' = Expected(req)'
    PROVE  AvatarInv'
<1>1. upload' = [upload EXCEPT ![p] = req] /\ overlapped' = (overlapped \/ Overlaps(p))
  BY DEF Advance
<1>2. upload' \in [Uploads -> Requests] /\ upload'[p] = req
        /\ \A q \in Uploads \ {p} : upload'[q] = upload[q]
  BY <1>1 DEF AvatarInv, AvatarTypes
<1>3. AvatarTypes'
  BY <1>1, <1>2 DEF AvatarInv, AvatarTypes, Overlaps
<1>4. ASSUME ~overlapped'
      PROVE  Alone'
  <2>1. ~overlapped /\ ~Overlaps(p) /\ Alone
    BY <1>1, <1>4 DEF AvatarInv
  <2>2. \A q \in Uploads \ {p} : upload'[q].stage = "idle" /\ upload'[q] = Idle
    BY <2>1, <1>2 DEF Overlaps, Alone, RequestKnows
  <2>3. \A q \in Uploads : RequestKnows(upload[q])'
    <3> SUFFICES ASSUME NEW q \in Uploads PROVE RequestKnows(upload[q])'
      OBVIOUS
    <3>1. CASE q = p
      BY <3>1, <2>1, <1>2 DEF RequestKnows
    <3>2. CASE q # p
      BY <3>2, <2>2 DEF RequestKnows
    <3> QED BY <3>1, <3>2
  <2>4. \A q \in Uploads : upload'[q].stage # "idle" => q = p
    BY <2>2
  <2>5. \A q \in Uploads : upload'[q].stage # "idle" => ~Overlaps(q)'
    BY <2>2, <2>4 DEF Overlaps
  <2>6. ASSUME ~dropped'
        PROVE  /\ \A q \in Uploads : upload'[q].stage # "idle" => files' = Expected(upload[q])'
               /\ AllIdle' => files' = Expected(Idle)'
    <3>1. files' = Expected(req)'
      BY <2>1, <2>6
    <3>2. \A q \in Uploads : upload'[q].stage # "idle" => files' = Expected(upload[q])'
      BY <3>1, <2>4, <1>2 DEF Expected
    <3>3. ASSUME AllIdle'
          PROVE  files' = Expected(Idle)'
      <4>1. req.stage = "idle"
        BY <3>3, <1>2 DEF AllIdle
      <4> QED
        BY <3>1, <4>1, IdleIsRequest DEF Expected
    <3> QED BY <3>2, <3>3
  <2> QED
    BY <2>1, <2>3, <2>5, <2>6 DEF Alone
<1> QED
  BY <1>3, <1>4 DEF AvatarInv

-----------------------------------------------------------------------------
(* The steps                                                               *)

LEMMA AvatarInitInv == AvatarInit => AvatarInv
<1> SUFFICES ASSUME AvatarInit PROVE AvatarInv
  OBVIOUS
<1>1. avatar \in AvatarRows /\ avatar.image = NoImage
  BY AvatarAssumption DEF AvatarInit, NoRow, AvatarRows, MaybeImage
<1>2. AvatarTypes
  BY <1>1, IdleIsRequest DEF AvatarInit, AvatarTypes, MaybeImage
<1>3. \A p \in Uploads : upload[p] = Idle /\ upload[p].stage = "idle"
  BY IdleIsRequest DEF AvatarInit
<1>4. files = Expected(Idle)
  BY <1>1, IdleIsRequest DEF AvatarInit, Expected
<1>5. Alone
  BY <1>1, <1>3, <1>4 DEF Alone, RequestKnows, AvatarInit
<1> QED
  BY <1>2, <1>5 DEF AvatarInv

(* What a request p can rely on while nobody overlaps it.                  *)
LEMMA AloneFacts ==
    ASSUME AvatarInv, NEW p \in Uploads
    PROVE  /\ upload[p] \in Requests /\ avatar \in AvatarRows /\ avatar.image \in MaybeImage
           /\ active \in BOOLEAN /\ dropped \in BOOLEAN /\ block \in MaybeImage
           /\ ~overlapped /\ ~Overlaps(p) =>
                 /\ RequestKnows(upload[p])
                 /\ avatar.image # NoImage => avatar.image \in files
                 /\ ~active => avatar.image = NoImage /\ block = NoImage
                 /\ ~dropped => files = Expected(upload[p])
<1>1. /\ upload[p] \in Requests /\ avatar \in AvatarRows /\ avatar.image \in MaybeImage
      /\ active \in BOOLEAN /\ dropped \in BOOLEAN /\ block \in MaybeImage
  BY DEF AvatarInv, AvatarTypes, AvatarRows
<1>2. ASSUME ~overlapped, ~Overlaps(p), ~dropped
      PROVE  files = Expected(upload[p])
  <2>1. CASE upload[p].stage # "idle"
    BY <1>2, <2>1 DEF AvatarInv, Alone
  <2>2. CASE upload[p].stage = "idle"
    <3>1. AllIdle
      BY <1>2, <2>2 DEF AllIdle, Overlaps
    <3>2. files = Expected(Idle)
      BY <1>2, <3>1 DEF AvatarInv, Alone
    <3> QED
      BY <2>2, <3>2, IdleIsRequest DEF Expected
  <2> QED BY <2>1, <2>2
<1> QED
  BY <1>1, <1>2 DEF AvatarInv, Alone

LEMMA BeginPutKeeps ==
    ASSUME AvatarInv, NEW p \in Uploads, NEW image \in Images, BeginPut(p, image)
    PROVE  AvatarInv'
<1>0. [stage |-> "encode", image |-> image, old |-> avatar.image] \in Requests
        /\ image # NoImage
  BY AloneFacts, AvatarAssumption DEF Requests, MaybeImage
<1>1. PICK req \in Requests :
         req = [stage |-> "encode", image |-> image, old |-> avatar.image]
  BY <1>0
<1>2. /\ active = TRUE /\ upload[p].stage = "idle" /\ Advance(p, req)
      /\ UNCHANGED <<active, avatar, block, files, dropped>>
  BY <1>1, AloneFacts DEF BeginPut
<1>3. /\ req.stage = "encode" /\ req.image = image /\ req.old = avatar.image
  BY <1>1
<1>4. ~overlapped /\ ~Overlaps(p) =>
         RequestKnows(req)' /\ (~dropped' => files' = Expected(req)')
  BY <1>0, <1>2, <1>3, AloneFacts DEF RequestKnows, Expected
<1> QED
  BY <1>2, <1>4, AloneFacts, StepAlone

(* A request ends in a step that changes no row, block or file.            *)
LEMMA EndsKeeps ==
    ASSUME AvatarInv, NEW p \in Uploads, Advance(p, Idle),
           UNCHANGED <<active, avatar, block, files>>,
           \/ dropped' = TRUE
           \/ dropped' = dropped /\ upload[p].stage \in {"encode", "write"}
    PROVE  AvatarInv'
<1>1. RequestKnows(Idle)'
  BY IdleIsRequest DEF RequestKnows
<1>2. ~overlapped /\ ~Overlaps(p) => (~dropped' => files' = Expected(Idle)')
  BY AloneFacts, IdleIsRequest DEF Expected
<1>3. dropped' \in BOOLEAN
  BY AloneFacts
<1> QED
  BY <1>1, <1>2, <1>3, AloneFacts, IdleIsRequest, StepAlone

LEMMA EncodeKeeps ==
    ASSUME AvatarInv, NEW p \in Uploads, NEW accepted \in BOOLEAN, Encode(p, accepted)
    PROVE  AvatarInv'
<1>1. upload[p].stage = "encode" /\ UNCHANGED <<active, avatar, block, files, dropped>>
  BY DEF Encode
<1>2. CASE accepted
  <2>0. [upload[p] EXCEPT !.stage = "write"] \in Requests
    BY AloneFacts DEF Requests
  <2>p. PICK req \in Requests : req = [upload[p] EXCEPT !.stage = "write"]
    BY <2>0
  <2>1. req.stage = "write" /\ req.image = upload[p].image
          /\ req.old = upload[p].old
    BY <2>p, AloneFacts DEF Requests
  <2>2. Advance(p, req)
    BY <2>p, <1>2 DEF Encode
  <2>3. ~overlapped /\ ~Overlaps(p) =>
           RequestKnows(req)' /\ (~dropped' => files' = Expected(req)')
    BY <2>1, <1>1, AloneFacts DEF RequestKnows, Expected
  <2> QED
    BY <2>1, <2>2, <2>3, <1>1, AloneFacts, StepAlone
<1>3. CASE ~accepted
  BY <1>1, <1>3, EndsKeeps DEF Encode
<1> QED
  BY <1>2, <1>3

LEMMA WriteFileKeeps ==
    ASSUME AvatarInv, NEW p \in Uploads, NEW written \in BOOLEAN, WriteFile(p, written)
    PROVE  AvatarInv'
<1>1. upload[p].stage = "write" /\ UNCHANGED <<active, avatar, block, dropped>>
  BY DEF WriteFile
<1>2. CASE written
  <2>0. [upload[p] EXCEPT !.stage = "store"] \in Requests
    BY AloneFacts DEF Requests
  <2>p. PICK req \in Requests : req = [upload[p] EXCEPT !.stage = "store"]
    BY <2>0
  <2>1. req.stage = "store" /\ req.image = upload[p].image
          /\ req.old = upload[p].old
    BY <2>p, AloneFacts DEF Requests
  <2>2. Advance(p, req) /\ files' = files \cup {upload[p].image}
    BY <2>p, <1>2 DEF WriteFile
  <2>3. ~overlapped /\ ~Overlaps(p) =>
           RequestKnows(req)' /\ (~dropped' => files' = Expected(req)')
    <3> SUFFICES ASSUME ~overlapped, ~Overlaps(p)
                 PROVE  RequestKnows(req)' /\ (~dropped' => files' = Expected(req)')
      OBVIOUS
    <3>1. upload[p].image # NoImage /\ active /\ upload[p].old = avatar.image
      BY <1>1, AloneFacts DEF RequestKnows
    <3>2. RequestKnows(req)'
      BY <3>1, <2>1, <2>2, <1>1 DEF RequestKnows
    <3>3. ~dropped => files = {avatar.image} \ {NoImage}
      BY <1>1, AloneFacts DEF Expected
    <3> QED
      BY <3>1, <3>2, <3>3, <2>1, <2>2, <1>1 DEF Expected
  <2> QED
    BY <2>1, <2>2, <2>3, <1>1, AloneFacts, StepAlone
<1>3. CASE ~written
  BY <1>1, <1>3, EndsKeeps DEF WriteFile
<1> QED
  BY <1>2, <1>3

LEMMA StoreRowKeeps ==
    ASSUME AvatarInv, NEW p \in Uploads, StoreRow(p)
    PROVE  AvatarInv'
<1>n. PICK new \in MaybeImage, old \in MaybeImage : new = upload[p].image /\ old = upload[p].old
  BY AloneFacts DEF Requests
<1>l. PICK left \in MaybeImage : left = Leftover(new, old)
  BY DEF Leftover, MaybeImage
<1>r. PICK req \in Requests : req = Removing(left)
  BY RemovingIsRequest
<1>1. /\ upload[p].stage = "store" /\ avatar.version < MaxVersion
      /\ avatar' = (IF active THEN StoredRow(new) ELSE avatar)
      /\ block' = (IF active THEN BlockAfter(new) ELSE block)
      /\ Advance(p, req) /\ UNCHANGED <<active, files, dropped>>
  BY <1>n, <1>l, <1>r DEF StoreRow
<1>3. /\ left = NoImage => req = Idle
      /\ left # NoImage => req.stage = "remove" /\ req.old = left
  BY <1>r, RemovingIsRequest
<1>4. avatar' \in AvatarRows /\ block' \in MaybeImage
  <2>1. avatar.version + 1 \in 0..MaxVersion
    BY <1>1, AloneFacts, AvatarAssumption DEF AvatarRows
  <2> QED
    BY <2>1, <1>1, AloneFacts DEF AvatarRows, StoredRow, BlockAfter, MaybeImage
<1>5. ASSUME ~overlapped, ~Overlaps(p)
      PROVE  /\ RequestKnows(req)'
             /\ avatar'.image # NoImage => avatar'.image \in files'
             /\ ~active' => avatar'.image = NoImage /\ block' = NoImage
             /\ ~dropped' => files' = Expected(req)'
  <2>1. active /\ new # NoImage /\ old = avatar.image /\ new \in files
    BY <1>n, <1>1, <1>5, AloneFacts DEF RequestKnows
  <2>2. avatar'.image = new /\ left = (IF old = new THEN NoImage ELSE old)
    BY <2>1, <1>l, <1>1 DEF StoredRow, Leftover
  <2>3. ~dropped => files = ({old} \cup {new}) \ {NoImage}
    BY <2>1, <1>n, <1>1, <1>5, AloneFacts DEF Expected
  <2>4. CASE left = NoImage
    <3>1. req = Idle /\ req.stage = "idle"
      BY <2>4, <1>3, IdleIsRequest
    <3>2. Expected(req)' = {new} \ {NoImage}
      BY <3>1, <2>2 DEF Expected
    <3>3. old = new \/ old = NoImage
      BY <2>2, <2>4
    <3> QED
      BY <3>1, <3>2, <3>3, <2>1, <2>2, <2>3, <1>1 DEF RequestKnows
  <2>5. CASE left # NoImage
    <3>1. req.stage = "remove" /\ req.old = old /\ old # new /\ old # NoImage
      BY <2>2, <2>5, <1>3
    <3>2. Expected(req)' = ({new} \cup {old}) \ {NoImage}
      BY <3>1, <2>2 DEF Expected
    <3> QED
      BY <3>1, <3>2, <2>1, <2>2, <2>3, <1>1 DEF RequestKnows
  <2> QED BY <2>4, <2>5
<1> QED
  BY <1>1, <1>4, <1>5, AloneFacts, StepAlone

LEMMA RemoveFileKeeps ==
    ASSUME AvatarInv, NEW p \in Uploads, RemoveFile(p)
    PROVE  AvatarInv'
<1>1. /\ upload[p].stage = "remove" /\ files' = files \ {upload[p].old} /\ Advance(p, Idle)
      /\ UNCHANGED <<active, avatar, block, dropped>>
  BY DEF RemoveFile
<1>2. ASSUME ~overlapped, ~Overlaps(p)
      PROVE  /\ RequestKnows(Idle)'
             /\ avatar'.image # NoImage => avatar'.image \in files'
             /\ ~active' => avatar'.image = NoImage /\ block' = NoImage
             /\ ~dropped' => files' = Expected(Idle)'
  <2>1. upload[p].old # avatar.image
    BY <1>1, <1>2, AloneFacts DEF RequestKnows
  <2>2. ~dropped => files = ({avatar.image} \cup {upload[p].old}) \ {NoImage}
    BY <1>1, <1>2, AloneFacts DEF Expected
  <2> QED
    BY <2>1, <2>2, <1>1, <1>2, AloneFacts, IdleIsRequest DEF RequestKnows, Expected
<1> QED
  BY <1>1, <1>2, AloneFacts, IdleIsRequest, StepAlone

(* delete_avatar and delete_me.                                            *)
LEMMA DeletionKeeps ==
    ASSUME AvatarInv, NEW p \in Uploads, upload[p].stage = "idle", RowGoes,
           Advance(p, Removing(avatar.image)), active' \in BOOLEAN,
           UNCHANGED <<files, dropped>>
    PROVE  AvatarInv'
<1>0. PICK old \in MaybeImage : old = avatar.image
  BY AloneFacts
<1>r. PICK req \in Requests : req = Removing(old)
  BY RemovingIsRequest
<1>1. /\ old = NoImage => req = Idle
      /\ old # NoImage => req.stage = "remove" /\ req.old = old
  BY <1>r, RemovingIsRequest
<1>2. avatar' \in AvatarRows /\ avatar'.image = NoImage /\ block' = NoImage /\ block' \in MaybeImage
  BY AvatarAssumption DEF RowGoes, NoRow, AvatarRows, MaybeImage
<1>3. ASSUME ~overlapped, ~Overlaps(p)
      PROVE  RequestKnows(req)' /\ (~dropped' => files' = Expected(req)')
  <2>1. ~dropped => files = {old} \ {NoImage}
    BY <1>0, <1>3, AloneFacts DEF Expected
  <2>2. CASE old = NoImage
    BY <2>1, <2>2, <1>1, <1>2, IdleIsRequest DEF RequestKnows, Expected
  <2>3. CASE old # NoImage
    BY <2>1, <2>3, <1>1, <1>2 DEF RequestKnows, Expected
  <2> QED BY <2>2, <2>3
<1>4. Advance(p, req) /\ dropped' \in BOOLEAN
  BY <1>0, <1>r, AloneFacts
<1> QED
  BY <1>2, <1>3, <1>4, StepAlone

LEMMA ModerateKeeps ==
    ASSUME AvatarInv, NEW blocked \in BOOLEAN, Moderate(blocked)
    PROVE  AvatarInv'
<1>1. /\ avatar.image # NoImage /\ avatar.version < MaxVersion
      /\ block' = (IF blocked THEN avatar.image ELSE NoImage)
      /\ avatar' = (IF blocked \/ block = avatar.image
                    THEN [avatar EXCEPT !.version = @ + 1] ELSE avatar)
      /\ UNCHANGED <<active, files, upload, overlapped, dropped>>
  BY DEF Moderate
<1>2. avatar \in AvatarRows /\ avatar.image \in MaybeImage
  BY DEF AvatarInv, AvatarTypes, AvatarRows
<1>3. avatar' \in AvatarRows /\ avatar'.image = avatar.image
  BY <1>1, <1>2, AvatarAssumption DEF AvatarRows
<1>4. AvatarTypes'
  BY <1>1, <1>2, <1>3 DEF AvatarInv, AvatarTypes, MaybeImage
<1>5. ASSUME ~overlapped PROVE Alone'
  <2>1. Alone /\ active
    BY <1>1, <1>5 DEF AvatarInv, Alone
  <2> QED
    BY <2>1, <1>1, <1>3 DEF Alone, RequestKnows, Overlaps, Expected, AllIdle
<1> QED
  BY <1>1, <1>4, <1>5 DEF AvatarInv

-----------------------------------------------------------------------------
(* The specification                                                       *)

LEMMA AvatarStep == AvatarInv /\ [AvatarNext]_avatarVars => AvatarInv'
<1> SUFFICES ASSUME AvatarInv, [AvatarNext]_avatarVars PROVE AvatarInv'
  OBVIOUS
<1>1. CASE UNCHANGED avatarVars
  BY <1>1 DEF avatarVars, AvatarInv, AvatarTypes, Alone, RequestKnows, Overlaps, Expected,
              AllIdle
<1>2. ASSUME NEW p \in Uploads, NEW image \in Images, BeginPut(p, image)
      PROVE  AvatarInv'
  BY <1>2, BeginPutKeeps
<1>3. ASSUME NEW p \in Uploads, NEW b \in BOOLEAN, Encode(p, b) \/ WriteFile(p, b)
      PROVE  AvatarInv'
  BY <1>3, EncodeKeeps, WriteFileKeeps
<1>4. ASSUME NEW p \in Uploads, StoreRow(p) \/ RemoveFile(p)
      PROVE  AvatarInv'
  BY <1>4, StoreRowKeeps, RemoveFileKeeps
<1>5. ASSUME NEW p \in Uploads, DeleteAvatar(p) \/ DeleteAccount(p)
      PROVE  AvatarInv'
  <2>1. active' \in BOOLEAN
    BY <1>5, AloneFacts DEF DeleteAvatar, DeleteAccount
  <2> QED
    BY <2>1, <1>5, DeletionKeeps DEF DeleteAvatar, DeleteAccount
<1>6. ASSUME NEW p \in Uploads, Drop(p)
      PROVE  AvatarInv'
  BY <1>6, EndsKeeps DEF Drop
<1>7. ASSUME NEW blocked \in BOOLEAN, Moderate(blocked)
      PROVE  AvatarInv'
  BY <1>7, ModerateKeeps
<1> QED
  BY <1>1, <1>2, <1>3, <1>4, <1>5, <1>6, <1>7 DEF AvatarNext

LEMMA InvImpliesFilesMatch == AvatarInv => FilesMatchRow
<1> SUFFICES ASSUME AvatarInv, ~overlapped PROVE FilesMatchRow
  BY DEF FilesMatchRow
<1>1. Alone
  BY DEF AvatarInv
<1>2. Shown = Visible
  BY <1>1 DEF Alone, Shown, Visible
<1>3. (block # NoImage /\ block = avatar.image) => block \in files
  BY <1>1 DEF Alone
<1>4. ASSUME ~dropped, \A p \in Uploads : upload[p] = Idle
      PROVE  files = {avatar.image} \ {NoImage}
  <2>1. AllIdle
    BY <1>4, IdleIsRequest DEF AllIdle
  <2> QED
    BY <2>1, <1>1, <1>4, IdleIsRequest DEF Alone, Expected
<1> QED
  BY <1>2, <1>3, <1>4 DEF FilesMatchRow

(* As long as the requests of an account do not overlap, the file of the   *)
(* picture it should show exists, wherever a request fails or its client   *)
(* goes away; and without such a loss no file outlives its row             *)
(* (put_avatar, delete_avatar and delete_me in api.rs).                    *)
THEOREM AvatarFilesMatch == AvatarSpec => []FilesMatchRow
<1>1. AvatarSpec => []AvatarInv
  BY AvatarInitInv, AvatarStep, PTL DEF AvatarSpec
<1> QED
  BY <1>1, InvImpliesFilesMatch, PTL

(* The files are images, a request has one to write, and decisions are     *)
(* logged about images.                                                    *)
FilesTyped ==
    /\ files \subseteq Images
    /\ \A p \in Uploads : upload[p].stage \in {"encode", "write", "store"}
                             => upload[p].image # NoImage
    /\ audit \in Seq([image : Images, blocked : BOOLEAN]) /\ Len(audit) <= MaxDecisions

LEMMA FilesTypedKept == AvatarInv /\ FilesTyped /\ [AvatarNext]_avatarVars => FilesTyped'
<1> SUFFICES ASSUME AvatarInv, FilesTyped, [AvatarNext]_avatarVars PROVE FilesTyped'
  OBVIOUS
<1>1. upload \in [Uploads -> Requests] /\ avatar.image \in MaybeImage
  BY DEF AvatarInv, AvatarTypes, AvatarRows
<1>2. ASSUME NEW p \in Uploads, NEW next, upload' = [upload EXCEPT ![p] = next],
             next.stage \in {"encode", "write", "store"} => next.image # NoImage,
             files' \subseteq Images, audit' = audit
      PROVE  FilesTyped'
  <2>1. \A q \in Uploads : upload'[q] = IF q = p THEN next ELSE upload[q]
    BY <1>1, <1>2
  <2> QED
    BY <1>2, <2>1 DEF FilesTyped
<1>3. \A old \in MaybeImage : Removing(old).stage \in {"idle", "remove"}
  BY DEF Removing, Idle
<1>4. files \subseteq Images /\ Idle.stage = "idle"
  BY DEF FilesTyped, Idle
<1>5. ASSUME NEW p \in Uploads, NEW image \in Images, BeginPut(p, image) PROVE FilesTyped'
  <2>1. PICK next : next = [stage |-> "encode", image |-> image, old |-> avatar.image]
    OBVIOUS
  <2>2. next.image # NoImage
    BY <2>1, AvatarAssumption
  <2> QED
    BY <1>2, <1>4, <1>5, <2>1, <2>2 DEF BeginPut, Advance
<1>6. ASSUME NEW p \in Uploads, NEW b \in BOOLEAN, Encode(p, b) \/ WriteFile(p, b)
      PROVE  FilesTyped'
  <2>1. upload[p].stage \in {"encode", "write"} /\ upload[p].image # NoImage
        /\ upload[p].image \in Images
    BY <1>1, <1>6 DEF Encode, WriteFile, FilesTyped, Requests, MaybeImage
  <2>2. PICK next : /\ upload' = [upload EXCEPT ![p] = next]
                    /\ next.stage = "idle" \/ next.image = upload[p].image
    BY <1>1, <1>4, <1>6 DEF Encode, WriteFile, Advance, Requests
  <2>3. files' \subseteq Images /\ audit' = audit
    BY <1>4, <1>6, <2>1 DEF Encode, WriteFile
  <2> QED
    BY <1>2, <2>1, <2>2, <2>3
<1>7. ASSUME NEW p \in Uploads, StoreRow(p) PROVE FilesTyped'
  <2>1. PICK old : old = Leftover(upload[p].image, upload[p].old)
    OBVIOUS
  <2>2. old \in MaybeImage
    BY <1>1, <2>1 DEF Leftover, Requests, MaybeImage
  <2>3. upload' = [upload EXCEPT ![p] = Removing(old)] /\ UNCHANGED <<files, audit>>
    BY <1>7, <2>1 DEF StoreRow, Advance
  <2> QED
    BY <1>2, <1>3, <1>4, <2>2, <2>3
<1>8. ASSUME NEW p \in Uploads, RemoveFile(p) \/ Drop(p) PROVE FilesTyped'
  <2>1. upload' = [upload EXCEPT ![p] = Idle] /\ files' \subseteq Images /\ audit' = audit
    BY <1>4, <1>8 DEF RemoveFile, Drop, Advance
  <2> QED
    BY <1>2, <1>4, <2>1
<1>9. ASSUME NEW p \in Uploads, DeleteAvatar(p) \/ DeleteAccount(p) PROVE FilesTyped'
  <2>1. upload' = [upload EXCEPT ![p] = Removing(avatar.image)] /\ UNCHANGED <<files, audit>>
    BY <1>9 DEF DeleteAvatar, DeleteAccount, Advance
  <2> QED
    BY <1>1, <1>2, <1>3, <1>4, <2>1
<1>10. ASSUME NEW blocked \in BOOLEAN, Moderate(blocked) PROVE FilesTyped'
  <2>1. PICK decision : decision = [image |-> avatar.image, blocked |-> blocked]
    OBVIOUS
  <2>2. decision \in [image : Images, blocked : BOOLEAN]
    BY <1>1, <1>10, <2>1 DEF Moderate, MaybeImage
  <2>3. audit' = Append(audit, decision) /\ Len(audit) < MaxDecisions /\ UNCHANGED <<files, upload>>
    BY <1>10, <2>1 DEF Moderate
  <2>4. audit' \in Seq([image : Images, blocked : BOOLEAN]) /\ Len(audit') <= MaxDecisions
    <3> DEFINE S == [image : Images, blocked : BOOLEAN]
    <3>1. audit \in Seq(S) /\ decision \in S
      BY <2>2 DEF FilesTyped
    <3> HIDE DEF S
    <3>2. audit' \in Seq(S) /\ Len(audit') = Len(audit) + 1
      BY <2>3, <3>1
    <3>3. Len(audit') <= MaxDecisions
      BY <2>3, <3>1, <3>2, AvatarAssumption
    <3> QED
      BY <3>2, <3>3 DEF S
  <2> QED
    BY <2>3, <2>4 DEF FilesTyped
<1>11. CASE UNCHANGED avatarVars
  BY <1>11 DEF avatarVars, FilesTyped
<1> QED
  BY <1>5, <1>6, <1>7, <1>8, <1>9, <1>10, <1>11 DEF AvatarNext

(* AvatarRows, blocks, files, requests and the log of decisions have their       *)
(* types, also while requests overlap.                                     *)
THEOREM AvatarTypesHold == AvatarSpec => []AvatarTypeOK
<1>1. AvatarInit => FilesTyped
  BY AvatarAssumption DEF AvatarInit, FilesTyped, Idle
<1>2. AvatarInv /\ FilesTyped => AvatarTypeOK
  BY DEF AvatarInv, AvatarTypes, FilesTyped, AvatarTypeOK, AvatarRows
<1> QED
  BY <1>1, <1>2, AvatarInitInv, AvatarStep, FilesTypedKept, PTL DEF AvatarSpec

-----------------------------------------------------------------------------
(* Feedback, preferences and the merge of accounts                         *)

AllKeys == Keys \cup {UndoKey(i) : i \in Nat}
EventType == [id : Nat \ {0}, user : Subjects, key : AllKeys, sort : {"like", "undo"},
              undoneBy : Nat]
KindType == {"none", "anonymous", "active", "deleted"}
PrefsType == [version : 0..MaxPrefVersion, value : Values]
CopyType == [user : Subjects \cup {Nobody}, row : PrefsType]
Acts == Subjects \X Subjects \X Keys
Feedback(e) == e.sort # "undo"
Grown(u) == kind[u] \in {"active", "deleted"}

MemberTypes ==
    /\ kind \in [Subjects -> KindType] /\ prefs \in [Subjects -> PrefsType]
    /\ intents \in [Subjects -> SUBSET Titles] /\ nextId \in 1..(MaxEvents + 1)
    /\ copy \in [Clients -> CopyType]

(* Rows have an id of their own, a key of their own among their user's,    *)
(* and the key of an undo names a row that was there.                      *)
RowsOK ==
    /\ IsFiniteSet(events) /\ events \subseteq EventType
    /\ \A e \in events : e.id < nextId /\ e.undoneBy < nextId
    /\ \A e, f \in events : e.id = f.id => e = f
    /\ \A e, f \in events : e.user = f.user /\ e.key = f.key => e = f
    /\ \A e \in events : Feedback(e) <=> e.key \in Keys
    /\ \A e \in events : \A i \in Nat : e.key = UndoKey(i) => i < nextId
    /\ \A e, f \in events : f.key = UndoKey(e.id) => e.undoneBy # NoUndo
    /\ \A e, f \in events :
          e.undoneBy = f.id => f.sort = "undo" /\ f.key = UndoKey(e.id) /\ f.user = e.user

Mine(x, e) == x[2] = e.user /\ x[3] = e.key

(* A row that was taken back was so by somebody, and one that counts was   *)
(* given by somebody who did not take it back.                             *)
HistoryOK ==
    /\ given \subseteq Acts /\ undone \subseteq Acts
    /\ \A x \in given \cup undone : \E e \in events : Mine(x, e)
    /\ \A e \in events : Feedback(e) /\ e.undoneBy # NoUndo => \E x \in undone : Mine(x, e)
    /\ \A e \in events : Feedback(e) /\ e.undoneBy = NoUndo =>
          \E x \in given : Mine(x, e) /\ x \notin undone

(* Nobody owns what another did before having an account, and what a       *)
(* subject without one did is all in one place.                            *)
OwnersOK ==
    /\ \A x \in given \cup undone : Grown(x[2]) \/ x[1] = x[2]
    /\ \A x, y \in given \cup undone :
          x[1] = y[1] /\ ~Grown(x[1]) /\ x[2] = x[1] => y[2] = x[1]

MemberInv == MemberTypes /\ RowsOK /\ HistoryOK /\ OwnersOK

LEMMA KeyFacts ==
    /\ \A i \in Nat : UndoKey(i) \in AllKeys /\ UndoKey(i) \notin Keys
    /\ \A i, j : UndoKey(i) = UndoKey(j) => i = j
    /\ \A k \in Keys : k \in AllKeys
    /\ NoUndo \in Nat
<1>1. \A i \in Nat : UndoKey(i) \in {"undo"} \X Nat
  BY DEF UndoKey
<1>2. \A i \in Nat : UndoKey(i) \notin Keys
  BY <1>1, MembershipAssumption
<1> QED
  BY <1>2 DEF AllKeys, UndoKey, NoUndo

LEMMA MemberKept == MemberInv => MemberTypeOK /\ FeedbackFollows
<1> SUFFICES ASSUME MemberInv PROVE MemberTypeOK /\ FeedbackFollows
  OBVIOUS
<1>1. MemberTypeOK
  BY DEF MemberInv, MemberTypes, RowsOK, MemberTypeOK, KindType, PrefsType
<1>2. ASSUME NEW g \in given, NEW rows, rows = {e \in EventsOf(g[2]) : e.key = g[3]}
      PROVE  /\ Cardinality(rows) = 1
             /\ {x \in undone : <<x[2], x[3]>> = <<g[2], g[3]>>} = {} => rows \subseteq Live(g[2])
             /\ {x \in given : <<x[2], x[3]>> = <<g[2], g[3]>>} \subseteq undone =>
                   rows \cap Live(g[2]) = {}
  <2>1. g \in Acts /\ g[3] \in Keys
    BY DEF MemberInv, HistoryOK, Acts
  <2>2. PICK e \in events : Mine(g, e)
    BY DEF MemberInv, HistoryOK
  <2>3. e.user = g[2] /\ e.key = g[3] /\ Feedback(e)
    BY <2>1, <2>2 DEF Mine, MemberInv, RowsOK
  <2>4. rows = {e}
    BY <1>2, <2>3 DEF EventsOf, MemberInv, RowsOK
  <2>5. Cardinality(rows) = 1
    BY <2>4, FS_Singleton
  <2>6. e \in Live(g[2]) <=> e.undoneBy = NoUndo
    BY <2>3 DEF Live, EventsOf, Feedback
  <2>7. ASSUME {x \in undone : <<x[2], x[3]>> = <<g[2], g[3]>>} = {} PROVE e.undoneBy = NoUndo
    BY <2>3, <2>7 DEF MemberInv, HistoryOK, Mine
  <2>8. ASSUME {x \in given : <<x[2], x[3]>> = <<g[2], g[3]>>} \subseteq undone
        PROVE  e.undoneBy # NoUndo
    <3> SUFFICES ASSUME e.undoneBy = NoUndo PROVE FALSE
      OBVIOUS
    <3>1. PICK x \in given : Mine(x, e) /\ x \notin undone
      BY <2>3 DEF MemberInv, HistoryOK
    <3> QED
      BY <2>3, <2>8, <3>1 DEF Mine
  <2> QED
    BY <2>4, <2>5, <2>6, <2>7, <2>8
<1>3. \A e, f \in events :
         e.undoneBy = f.id => f.sort = "undo" /\ f.key = UndoKey(e.id) /\ f.user = e.user
  BY DEF MemberInv, RowsOK
<1>4. FeedbackFollows
  BY <1>2, <1>3 DEF FeedbackFollows
<1> QED
  BY <1>1, <1>4

LEMMA PrefsFacts ==
    NoPrefs \in PrefsType /\ Defaults \in PrefsType /\ \A v \in Values : [version |-> 2, value |-> v] \in PrefsType
<1>1. MaxPrefVersion \in Nat /\ 0 \in 0..MaxPrefVersion /\ 1 \in 0..MaxPrefVersion /\ 2 \in 0..MaxPrefVersion
  BY MembershipAssumption
<1> QED
  BY <1>1, MembershipAssumption DEF NoPrefs, Defaults, PrefsType

LEMMA TwoFinite == \A a, b : IsFiniteSet({a, b})
<1> SUFFICES ASSUME NEW a, NEW b PROVE IsFiniteSet({a, b})
  OBVIOUS
<1>1. IsFiniteSet({a} \cup {b})
  BY FS_Singleton, FS_AddElement
<1>2. {a, b} = {a} \cup {b}
  OBVIOUS
<1> QED
  BY <1>1, <1>2

LEMMA MemberStarts == MemberInit => MemberInv
<1> SUFFICES ASSUME MemberInit PROVE MemberInv
  OBVIOUS
<1>1. PICK row \in {Defaults} \cup [version : {2}, value : Values] :
         prefs = [u \in Subjects |-> IF u \in Legacy THEN row ELSE NoPrefs]
  BY DEF MemberInit
<1>2. row \in PrefsType
  BY PrefsFacts
<1>3. PICK s \in SUBSET Titles : intents = [u \in Subjects |-> IF u \in Legacy THEN s ELSE {}]
  BY DEF MemberInit
<1>4. nextId = 3 /\ MaxEvents \in Nat /\ MaxEvents >= 2
  BY MembershipAssumption DEF MemberInit
<1>5. MemberTypes
  <2>1. kind \in [Subjects -> KindType] /\ prefs \in [Subjects -> PrefsType]
    BY <1>1, <1>2, PrefsFacts DEF MemberInit, KindType
  <2>2. intents \in [Subjects -> SUBSET Titles] /\ nextId \in 1..(MaxEvents + 1)
    BY <1>3, <1>4
  <2>3. copy \in [Clients -> CopyType]
    BY PrefsFacts DEF MemberInit, NoCopy, CopyType
  <2> QED
    BY <2>1, <2>2, <2>3 DEF MemberTypes
<1>6. PICK u \in Legacy, k \in Keys : events \in LegacyEvents(u, k)
  BY DEF MemberInit
<1>7. /\ given = {<<e.user, e.user, e.key>> : e \in {e \in events : Feedback(e)}}
      /\ undone = {<<e.user, e.user, e.key>> : e \in {e \in events : e.undoneBy # NoUndo}}
  BY DEF MemberInit, Feedback
<1>8. u \in Subjects /\ k \in AllKeys /\ kind[u] = "anonymous"
  BY KeyFacts, MembershipAssumption DEF MemberInit
<1>9. PICK a : a = Event(1, u, k, "like", NoUndo)
  OBVIOUS
<1>10. PICK b : b = Event(1, u, k, "like", 2)
  OBVIOUS
<1>11. PICK c : c = Event(2, u, UndoKey(1), "undo", NoUndo)
  OBVIOUS
<1>12. /\ a.id = 1 /\ a.user = u /\ a.key = k /\ a.sort = "like" /\ a.undoneBy = 0
       /\ b.id = 1 /\ b.user = u /\ b.key = k /\ b.sort = "like" /\ b.undoneBy = 2
       /\ c.id = 2 /\ c.user = u /\ c.key = UndoKey(1) /\ c.sort = "undo" /\ c.undoneBy = 0
       /\ a \in EventType /\ b \in EventType /\ c \in EventType
  <2>1. /\ a \in EventType /\ a.id = 1 /\ a.user = u /\ a.key = k /\ a.sort = "like" /\ a.undoneBy = 0
    BY <1>8, <1>9 DEF Event, EventType, NoUndo
  <2>2. /\ b \in EventType /\ b.id = 1 /\ b.user = u /\ b.key = k /\ b.sort = "like" /\ b.undoneBy = 2
    BY <1>8, <1>10 DEF Event, EventType
  <2>3. UndoKey(1) \in AllKeys
    BY KeyFacts
  <2>4. /\ c \in EventType /\ c.id = 2 /\ c.user = u /\ c.key = UndoKey(1) /\ c.sort = "undo"
        /\ c.undoneBy = 0
    BY <1>8, <1>11, <2>3 DEF Event, EventType, NoUndo
  <2> QED
    BY <2>1, <2>2, <2>4
<1>13. events = {} \/ events = {a} \/ events = {b, c}
  BY <1>6, <1>9, <1>10, <1>11 DEF LegacyEvents
<1>14. UndoKey(1) \notin Keys /\ UndoKey(1) # UndoKey(2)
  BY KeyFacts
<1>15. ASSUME NEW e \in events
       PROVE  /\ e \in EventType /\ e.user = u /\ e.id \in {1, 2} /\ e.undoneBy \in {0, 2}
              /\ \/ /\ e.id = 1 /\ e.sort = "like" /\ e.key = k
                    /\ (e.undoneBy = 0 /\ events = {a}) \/ (e.undoneBy = 2 /\ events = {b, c})
                 \/ e.id = 2 /\ e.sort = "undo" /\ e.key = UndoKey(1) /\ e.undoneBy = 0
  BY <1>12, <1>13
<1>16. RowsOK
  <2>1. IsFiniteSet(events)
    <3>1. IsFiniteSet({}) /\ IsFiniteSet({a}) /\ IsFiniteSet({b, c})
      BY FS_EmptySet, FS_Singleton, TwoFinite
    <3> QED
      BY <1>13, <3>1
  <2>2. /\ \A e, f \in events : e.id = f.id => e = f
        /\ \A e, f \in events : e.user = f.user /\ e.key = f.key => e = f
    BY <1>12, <1>13, <1>14
  <2>3. \A e \in events : e.id < nextId /\ e.undoneBy < nextId
    BY <1>4, <1>15
  <2>4. \A e \in events : Feedback(e) <=> e.key \in Keys
    BY <1>14, <1>15 DEF Feedback
  <2>5. \A e \in events : \A i \in Nat : e.key = UndoKey(i) => i < nextId
    BY <1>4, <1>14, <1>15, KeyFacts
  <2>6. \A e, f \in events : f.key = UndoKey(e.id) => e.undoneBy # NoUndo
    BY <1>12, <1>13, <1>14, KeyFacts DEF NoUndo
  <2>7. \A e, f \in events :
          e.undoneBy = f.id => f.sort = "undo" /\ f.key = UndoKey(e.id) /\ f.user = e.user
    BY <1>12, <1>13
  <2> QED
    BY <1>15, <2>1, <2>2, <2>3, <2>4, <2>5, <2>6, <2>7 DEF RowsOK
<1>17. \A e \in events : e.undoneBy # NoUndo => Feedback(e) /\ e.key \in Keys
  BY <1>15 DEF NoUndo, Feedback
<1>18. HistoryOK
  <2>1. \A e \in events : Feedback(e) => e.key \in Keys
    BY <1>16 DEF RowsOK
  <2>2. given \subseteq Acts /\ undone \subseteq Acts
    BY <1>7, <1>8, <1>15, <1>17, <2>1 DEF Acts
  <2>3. \A x \in given \cup undone : \E e \in events : Mine(x, e)
    BY <1>7 DEF Mine
  <2>4. ASSUME NEW e \in events, e.undoneBy # NoUndo PROVE \E x \in undone : Mine(x, e)
    <3>1. <<e.user, e.user, e.key>> \in undone
      BY <1>7, <2>4
    <3> QED
      BY <3>1 DEF Mine
  <2>5. ASSUME NEW e \in events, Feedback(e), e.undoneBy = NoUndo
        PROVE  \E x \in given : Mine(x, e) /\ x \notin undone
    <3>1. events = {a} /\ e = a
      BY <1>12, <1>13, <2>5 DEF Feedback, NoUndo
    <3>2. undone = {} /\ <<e.user, e.user, e.key>> \in given
      BY <1>7, <1>12, <2>5, <3>1 DEF NoUndo
    <3> QED
      BY <3>2 DEF Mine
  <2> QED
    BY <2>2, <2>3, <2>4, <2>5 DEF HistoryOK
<1>19. OwnersOK
  BY <1>7 DEF OwnersOK
<1> QED
  BY <1>5, <1>16, <1>18, <1>19 DEF MemberInv

(***************************************************************************)
(* Steps that leave feedback alone                                         *)
(***************************************************************************)

LEMMA QuietMembers ==
    ASSUME MemberInv, MemberTypes', UNCHANGED <<events, nextId, given, undone>>,
           \A u \in Subjects : Grown(u) => Grown(u)'
    PROVE  MemberInv'
<1>1. RowsOK' /\ HistoryOK'
  BY DEF MemberInv, RowsOK, HistoryOK
<1>2. \A x \in given \cup undone : x[1] \in Subjects /\ x[2] \in Subjects
  BY DEF MemberInv, HistoryOK, Acts
<1>3. OwnersOK'
  BY <1>2 DEF MemberInv, OwnersOK
<1> QED
  BY <1>1, <1>3 DEF MemberInv

LEMMA AccountInv ==
    ASSUME MemberInv, NEW u \in Subjects, CreateSession(u) \/ Register(u) \/ DeleteMember(u)
    PROVE  MemberInv'
<1>1. /\ UNCHANGED <<events, nextId, given, undone, copy>>
      /\ \E k \in KindType : kind' = [kind EXCEPT ![u] = k]
      /\ \A v \in Subjects : Grown(v) => Grown(v)'
  <2>1. CASE CreateSession(u)
    BY <2>1 DEF CreateSession, KindType, Grown, MemberInv, MemberTypes
  <2>2. CASE Register(u)
    BY <2>2 DEF Register, KindType, Grown, MemberInv, MemberTypes
  <2>3. CASE DeleteMember(u)
    BY <2>3 DEF DeleteMember, KindType, Grown, MemberInv, MemberTypes
  <2> QED
    BY <2>1, <2>2, <2>3
<1>2. kind' \in [Subjects -> KindType]
  BY <1>1 DEF MemberInv, MemberTypes
<1>3. prefs' \in [Subjects -> PrefsType]
  BY PrefsFacts DEF MemberInv, MemberTypes, CreateSession, Register, RegisteredPrefs, DeleteMember
<1>4. intents' \in [Subjects -> SUBSET Titles]
  BY DEF MemberInv, MemberTypes, CreateSession, Register, DeleteMember
<1>5. MemberTypes'
  BY <1>1, <1>2, <1>3, <1>4 DEF MemberInv, MemberTypes
<1> QED
  BY <1>1, <1>5, QuietMembers

LEMMA PrefsInv ==
    ASSUME MemberInv,
           \/ \E c \in Clients, u \in Subjects : ReadPrefs(c, u)
           \/ \E c \in Clients, value \in Values : PutPrefs(c, value)
    PROVE  MemberInv'
<1>1. UNCHANGED <<kind, intents, events, nextId, given, undone>>
  BY DEF ReadPrefs, PutPrefs
<1>2. CASE \E c \in Clients, u \in Subjects : ReadPrefs(c, u)
  <2>1. PICK c \in Clients, u \in Subjects : ReadPrefs(c, u)
    BY <1>2
  <2>2. prefs' = prefs /\ copy' = [copy EXCEPT ![c] = [user |-> u, row |-> prefs[u]]]
    BY <2>1 DEF ReadPrefs
  <2>4. copy' \in [Clients -> CopyType]
    BY <2>2 DEF MemberInv, MemberTypes, CopyType
  <2>5. MemberTypes'
    BY <1>1, <2>2, <2>4 DEF MemberInv, MemberTypes
  <2> QED
    BY <1>1, <2>5, QuietMembers DEF Grown
<1>3. CASE \E c \in Clients, value \in Values : PutPrefs(c, value)
  <2>1. PICK c \in Clients, value \in Values : PutPrefs(c, value)
    BY <1>3
  <2>2. PICK u : u = copy[c].user
    OBVIOUS
  <2>3. PICK next : next = Saved(u, value)
    OBVIOUS
  <2>4. /\ u # Nobody /\ prefs[u].version < MaxPrefVersion
        /\ prefs' = [prefs EXCEPT ![u] = next] /\ copy' = [copy EXCEPT ![c].row = next]
    BY <2>1, <2>2, <2>3 DEF PutPrefs
  <2>5. u \in Subjects /\ prefs[u] \in PrefsType
    BY <2>2, <2>4 DEF MemberInv, MemberTypes, CopyType
  <2>6. prefs[u].version + 1 \in 0..MaxPrefVersion
    BY <2>4, <2>5, MembershipAssumption DEF PrefsType
  <2>7. next \in PrefsType
    BY <2>3, <2>6 DEF Saved, PrefsType
  <2>8. prefs' \in [Subjects -> PrefsType]
    BY <2>4, <2>7 DEF MemberInv, MemberTypes
  <2>9. [copy[c] EXCEPT !.row = next] \in CopyType
    BY <2>7 DEF MemberInv, MemberTypes, CopyType
  <2>10. copy' \in [Clients -> CopyType]
    BY <2>4, <2>9 DEF MemberInv, MemberTypes
  <2>13. MemberTypes'
    BY <1>1, <2>8, <2>10 DEF MemberInv, MemberTypes
  <2> QED
    BY <1>1, <2>13, QuietMembers DEF Grown
<1> QED
  BY <1>2, <1>3

(***************************************************************************)
(* Feedback                                                                *)
(***************************************************************************)

LEMMA GiveFeedbackInv ==
    ASSUME MemberInv, NEW u \in Subjects, NEW k \in Keys, GiveFeedback(u, k)
    PROVE  MemberInv'
<1>1. /\ kind[u] = "active" /\ nextId <= MaxEvents /\ CreateFeedback(u, k)
      /\ given' = given \cup {<<u, u, k>>} /\ UNCHANGED <<kind, prefs, intents, copy, undone>>
  BY DEF GiveFeedback, SignedIn
<1>2. PICK x : x = <<u, u, k>>
  OBVIOUS
<1>3. x \in Acts /\ x[1] = u /\ x[2] = u /\ x[3] = k /\ given' = given \cup {x}
  BY <1>1, <1>2 DEF Acts
<1>4. OwnersOK'
  <2>1. Grown(u) /\ \A v : Grown(v)' <=> Grown(v)
    BY <1>1 DEF Grown
  <2>2. \A y \in given' \cup undone' : y = x \/ y \in given \cup undone
    BY <1>1, <1>3
  <2> QED
    BY <1>3, <2>1, <2>2 DEF MemberInv, OwnersOK
<1>5. nextId \in Nat /\ nextId # 0 /\ MaxEvents \in Nat
  BY MembershipAssumption DEF MemberInv, MemberTypes
<1>6. CASE k \in KeysOf(u)
  <2>1. UNCHANGED <<events, nextId>>
    BY <1>1, <1>6 DEF CreateFeedback
  <2>2. PICK e \in events : Mine(x, e)
    BY <1>3, <1>6 DEF KeysOf, EventsOf, Mine
  <2>3. MemberTypes' /\ RowsOK'
    BY <1>1, <2>1 DEF MemberInv, MemberTypes, RowsOK
  <2>4. HistoryOK'
    BY <1>1, <1>3, <2>1, <2>2 DEF MemberInv, HistoryOK
  <2> QED
    BY <1>4, <2>3, <2>4 DEF MemberInv
<1>7. CASE k \notin KeysOf(u)
  <2>1. PICK e : e = Event(nextId, u, k, "like", NoUndo)
    OBVIOUS
  <2>2. events' = events \cup {e} /\ nextId' = nextId + 1
    BY <1>1, <1>7, <2>1 DEF CreateFeedback
  <2>3. /\ e.id = nextId /\ e.user = u /\ e.key = k /\ e.sort = "like" /\ e.undoneBy = 0
        /\ e \in EventType
    BY <1>5, <2>1, KeyFacts DEF Event, EventType, NoUndo
  <2>4. MemberTypes'
    BY <1>1, <1>5, <2>2 DEF MemberInv, MemberTypes
  <2>5. RowsOK
    BY DEF MemberInv
  <2>6. \A f \in events : /\ f.id \in Nat /\ f.id < nextId /\ f.id # 0
                          /\ f.undoneBy \in Nat /\ f.undoneBy < nextId
    BY <2>5 DEF RowsOK, EventType
  <2>7. \A f \in events : ~(f.user = u /\ f.key = k)
    BY <1>7 DEF KeysOf, EventsOf
  <2>8. RowsOK'
    <3>1. IsFiniteSet(events') /\ events' \subseteq EventType
      BY <2>2, <2>3, <2>5, FS_AddElement DEF RowsOK
    <3>2. \A f \in events' : f.id < nextId' /\ f.undoneBy < nextId'
      BY <1>5, <2>2, <2>3, <2>6
    <3>3. \A f, g \in events' : f.id = g.id => f = g
      BY <1>5, <2>2, <2>3, <2>5, <2>6 DEF RowsOK
    <3>4. \A f, g \in events' : f.user = g.user /\ f.key = g.key => f = g
      BY <2>2, <2>3, <2>5, <2>7 DEF RowsOK
    <3>5. \A f \in events' : Feedback(f) <=> f.key \in Keys
      BY <2>2, <2>3, <2>5 DEF RowsOK, Feedback
    <3>6. \A f \in events' : \A i \in Nat : f.key = UndoKey(i) => i < nextId'
      <4>1. \A f \in events : \A i \in Nat : f.key = UndoKey(i) => i < nextId
        BY <2>5 DEF RowsOK
      <4> QED
        BY <1>5, <2>2, <2>3, <4>1, KeyFacts
    <3>7. \A f, g \in events' : g.key = UndoKey(f.id) => f.undoneBy # NoUndo
      <4>1. ASSUME NEW g \in events' PROVE g.key # UndoKey(nextId)
        <5>1. CASE g = e
          BY <1>5, <2>3, <5>1, KeyFacts
        <5>2. CASE g \in events
          BY <1>5, <2>5, <5>2 DEF RowsOK
        <5> QED
          BY <2>2, <5>1, <5>2
      <4>2. ASSUME NEW f \in events PROVE e.key # UndoKey(f.id)
        BY <2>3, <2>6, KeyFacts
      <4> QED
        BY <2>2, <2>3, <2>5, <4>1, <4>2 DEF RowsOK
    <3>8. \A f, g \in events' :
            f.undoneBy = g.id => g.sort = "undo" /\ g.key = UndoKey(f.id) /\ g.user = f.user
      BY <1>5, <2>2, <2>3, <2>5, <2>6 DEF RowsOK
    <3> QED
      BY <3>1, <3>2, <3>3, <3>4, <3>5, <3>6, <3>7, <3>8 DEF RowsOK
  <2>9. HistoryOK'
    <3>1. Mine(x, e) /\ e \in events'
      BY <1>3, <2>2, <2>3 DEF Mine
    <3>2. \A y \in given' \cup undone' : \E f \in events' : Mine(y, f)
      BY <1>1, <1>3, <2>2, <3>1 DEF MemberInv, HistoryOK
    <3>3. x \notin undone
      BY <1>3, <2>7 DEF MemberInv, HistoryOK, Mine
    <3>4. \A f \in events' : Feedback(f) /\ f.undoneBy # NoUndo => \E y \in undone' : Mine(y, f)
      BY <1>1, <2>2, <2>3 DEF MemberInv, HistoryOK, NoUndo
    <3>5. \A f \in events' : Feedback(f) /\ f.undoneBy = NoUndo =>
            \E y \in given' : Mine(y, f) /\ y \notin undone'
      BY <1>1, <1>3, <2>2, <3>1, <3>3 DEF MemberInv, HistoryOK
    <3> QED
      BY <1>1, <1>3, <3>2, <3>4, <3>5 DEF MemberInv, HistoryOK
  <2> QED
    BY <1>4, <2>4, <2>8, <2>9 DEF MemberInv
<1> QED
  BY <1>6, <1>7

LEMMA TakeBackInv ==
    ASSUME MemberInv, NEW u \in Subjects, NEW e \in events, TakeBack(u, e)
    PROVE  MemberInv'
<1>1. PICK x : x = <<u, u, e.key>>
  OBVIOUS
<1>2. PICK d : d = [e EXCEPT !.undoneBy = nextId]
  OBVIOUS
<1>3. PICK n : n = Event(nextId, u, UndoKey(e.id), "undo", NoUndo)
  OBVIOUS
<1>4. /\ kind[u] = "active" /\ e \in Live(u) /\ nextId <= MaxEvents
      /\ events' = (events \ {e}) \cup {d, n} /\ nextId' = nextId + 1
      /\ undone' = undone \cup {x}
      /\ UNCHANGED <<kind, prefs, intents, copy, given>>
  BY <1>1, <1>2, <1>3 DEF TakeBack, SignedIn, UndoFeedback, UndoLink
<1>5. nextId \in Nat /\ nextId # 0 /\ MaxEvents \in Nat
  BY MembershipAssumption DEF MemberInv, MemberTypes
<1>6. RowsOK
  BY DEF MemberInv
<1>7. /\ e \in EventType /\ Feedback(e) /\ e.undoneBy = 0 /\ e.user = u
      /\ e.id \in Nat /\ e.id # 0 /\ e.id < nextId /\ e.key \in Keys
  BY <1>4, <1>6 DEF Live, EventsOf, Feedback, RowsOK, EventType, NoUndo
<1>8. /\ d \in EventType /\ d.id = e.id /\ d.user = u /\ d.key = e.key /\ d.sort = e.sort
      /\ d.undoneBy = nextId /\ d.key \in Keys
  BY <1>2, <1>5, <1>7 DEF EventType
<1>9. UndoKey(e.id) \in AllKeys /\ UndoKey(e.id) \notin Keys
  BY <1>7, KeyFacts
<1>10. /\ n \in EventType /\ n.id = nextId /\ n.user = u /\ n.key = UndoKey(e.id)
       /\ n.sort = "undo" /\ n.undoneBy = 0 /\ n.key \notin Keys
  BY <1>3, <1>5, <1>9 DEF Event, EventType, NoUndo
<1>11. \A f \in events : /\ f.id \in Nat /\ f.id < nextId /\ f.id # 0
                         /\ f.undoneBy \in Nat /\ f.undoneBy < nextId
  BY <1>6 DEF RowsOK, EventType
<1>12. \A f \in events : f # e => f.id # e.id /\ ~(f.user = u /\ f.key = e.key)
  BY <1>6, <1>7 DEF RowsOK
<1>13. \A f \in events : f.key # UndoKey(e.id)
  BY <1>6, <1>7 DEF RowsOK, NoUndo
<1>14. \A f : f \in events' <=> (f \in events /\ f # e) \/ f = d \/ f = n
  BY <1>4
<1>15. MemberTypes'
  BY <1>4, <1>5 DEF MemberInv, MemberTypes
<1>16. RowsOK'
  <2>1. IsFiniteSet(events') /\ events' \subseteq EventType
    <3>1. IsFiniteSet(events \ {e})
      BY <1>6, FS_Subset DEF RowsOK
    <3>2. IsFiniteSet((events \ {e}) \cup {d, n})
      BY <3>1, TwoFinite, FS_Union
    <3> QED
      BY <1>4, <1>6, <1>8, <1>10, <3>2 DEF RowsOK
  <2>2. \A f \in events' : f.id < nextId' /\ f.undoneBy < nextId'
    BY <1>4, <1>5, <1>7, <1>8, <1>10, <1>11, <1>14
  <2>3. \A f, g \in events' : f.id = g.id => f = g
    <3>1. \A f \in events : f.id # nextId
      BY <1>5, <1>11
    <3>2. d.id # n.id
      BY <1>5, <1>7, <1>8, <1>10
    <3> QED
      BY <1>6, <1>8, <1>10, <1>12, <1>14, <3>1, <3>2 DEF RowsOK
  <2>4. \A f, g \in events' : f.user = g.user /\ f.key = g.key => f = g
    BY <1>6, <1>8, <1>10, <1>12, <1>13, <1>14 DEF RowsOK
  <2>5. \A f \in events' : Feedback(f) <=> f.key \in Keys
    BY <1>6, <1>7, <1>8, <1>10, <1>14 DEF RowsOK, Feedback
  <2>6. \A f \in events' : \A i \in Nat : f.key = UndoKey(i) => i < nextId'
    <3>1. \A f \in events : \A i \in Nat : f.key = UndoKey(i) => i < nextId
      BY <1>6 DEF RowsOK
    <3>2. \A i \in Nat : d.key # UndoKey(i) /\ (n.key = UndoKey(i) => i = e.id)
      BY <1>8, <1>10, KeyFacts
    <3> QED
      BY <1>4, <1>5, <1>7, <1>14, <3>1, <3>2
  <2>7. \A f, g \in events' : g.key = UndoKey(f.id) => f.undoneBy # NoUndo
    <3>1. ASSUME NEW g \in events' PROVE g.key # UndoKey(nextId)
      <4>1. CASE g = d
        BY <1>5, <1>8, <4>1, KeyFacts
      <4>2. CASE g = n
        BY <1>5, <1>7, <1>10, <4>2, KeyFacts
      <4>3. CASE g \in events
        BY <1>5, <1>6, <4>3 DEF RowsOK
      <4> QED
        BY <1>14, <4>1, <4>2, <4>3
    <3>2. d.undoneBy # NoUndo
      BY <1>5, <1>8 DEF NoUndo
    <3>3. ASSUME NEW f \in events, f # e, NEW g \in events', g.key = UndoKey(f.id)
          PROVE  f.undoneBy # NoUndo
      <4>1. f.id \in Nat /\ f.id # e.id
        BY <1>11, <1>12, <3>3
      <4>2. g # d
        BY <1>8, <3>3, <4>1, KeyFacts
      <4>3. g # n
        BY <1>10, <3>3, <4>1, KeyFacts
      <4> QED
        BY <1>6, <1>14, <3>3, <4>2, <4>3 DEF RowsOK
    <3> QED
      BY <1>10, <1>14, <3>1, <3>2, <3>3
  <2>8. \A f, g \in events' :
          f.undoneBy = g.id => g.sort = "undo" /\ g.key = UndoKey(f.id) /\ g.user = f.user
    <3>1. ASSUME NEW f \in events', NEW g \in events', f.undoneBy = g.id
          PROVE  g.sort = "undo" /\ g.key = UndoKey(f.id) /\ g.user = f.user
      <4>1. CASE f = d
        <5>1. g = n
          BY <1>5, <1>7, <1>8, <1>11, <1>14, <3>1, <4>1
        <5> QED
          BY <1>8, <1>10, <4>1, <5>1
      <4>2. CASE f = n
        BY <1>5, <1>7, <1>8, <1>10, <1>11, <1>14, <3>1, <4>2
      <4>3. CASE f \in events /\ f # e
        <5>1. g # n
          BY <1>5, <1>10, <1>11, <3>1, <4>3
        <5>2. f.undoneBy # e.id
          BY <1>6, <1>7, <4>3 DEF RowsOK, Feedback
        <5>3. g \in events /\ g # e
          BY <1>8, <1>14, <3>1, <5>1, <5>2
        <5> QED
          BY <1>6, <3>1, <4>3, <5>3 DEF RowsOK
      <4> QED
        BY <1>14, <4>1, <4>2, <4>3
    <3> QED
      BY <3>1
  <2> QED
    BY <2>1, <2>2, <2>3, <2>4, <2>5, <2>6, <2>7, <2>8 DEF RowsOK
<1>17. x \in Acts /\ x[1] = u /\ x[2] = u /\ Mine(x, d)
  BY <1>1, <1>7, <1>8 DEF Acts, Mine
<1>18. HistoryOK'
  <2>1. ASSUME NEW y \in given' \cup undone' PROVE \E f \in events' : Mine(y, f)
    <3>1. CASE y = x
      BY <1>14, <1>17, <3>1
    <3>2. CASE y \in given \cup undone
      <4>1. PICK f \in events : Mine(y, f)
        BY <3>2 DEF MemberInv, HistoryOK
      <4>2. CASE f = e
        BY <1>7, <1>8, <1>14, <4>1, <4>2 DEF Mine
      <4>3. CASE f # e
        BY <1>14, <4>1, <4>3
      <4> QED
        BY <4>2, <4>3
    <3> QED
      BY <1>4, <2>1, <3>1, <3>2
  <2>2. \A f \in events' : Feedback(f) /\ f.undoneBy # NoUndo => \E y \in undone' : Mine(y, f)
    BY <1>4, <1>10, <1>14, <1>17 DEF MemberInv, HistoryOK, Feedback
  <2>3. ASSUME NEW f \in events', Feedback(f), f.undoneBy = NoUndo
        PROVE  \E y \in given' : Mine(y, f) /\ y \notin undone'
    <3>1. f \in events /\ f # e
      BY <1>5, <1>8, <1>10, <1>14, <2>3 DEF Feedback, NoUndo
    <3>2. PICK y \in given : Mine(y, f) /\ y \notin undone
      BY <2>3, <3>1 DEF MemberInv, HistoryOK
    <3>3. y # x
      BY <1>1, <1>12, <3>1, <3>2 DEF Mine
    <3> QED
      BY <1>4, <3>2, <3>3
  <2> QED
    BY <1>4, <1>17, <2>1, <2>2, <2>3 DEF MemberInv, HistoryOK
<1>19. OwnersOK'
  <2>1. Grown(u) /\ \A v : Grown(v)' <=> Grown(v)
    BY <1>4 DEF Grown
  <2>2. \A y \in given' \cup undone' : y = x \/ y \in given \cup undone
    BY <1>4
  <2> QED
    BY <1>17, <2>1, <2>2 DEF MemberInv, OwnersOK
<1> QED
  BY <1>15, <1>16, <1>18, <1>19 DEF MemberInv

(***************************************************************************)
(* Signing in                                                              *)
(***************************************************************************)

(* The rows that move and what each becomes.                               *)
Moved(s, a) == {e \in EventsOf(s) : e.key \notin KeysOf(a)}
Copied(e, a, i) == [e EXCEPT !.user = a, !.id = i]

LEMMA Numbering ==
    ASSUME MemberInv, NEW s \in Subjects
    PROVE  /\ IsFiniteSet(EventsOf(s)) /\ Cardinality(EventsOf(s)) \in Nat
           /\ \A e \in EventsOf(s) : /\ NewIds(s)[e] \in Nat /\ NewIds(s)[e] >= nextId
                                     /\ NewIds(s)[e] < nextId + Cardinality(EventsOf(s))
           /\ \A e, f \in EventsOf(s) : NewIds(s)[e] = NewIds(s)[f] => e = f
<1> DEFINE S == EventsOf(s)
           Below(e) == {f \in S : f.id < e.id}
<1>1. IsFiniteSet(S) /\ S \subseteq events
  BY FS_Subset DEF MemberInv, RowsOK, EventsOf
<1>2. Cardinality(S) \in Nat
  BY <1>1, FS_CardinalityType
<1>3. nextId \in Nat
  BY MembershipAssumption DEF MemberInv, MemberTypes
<1>4. \A e \in S : e.id \in Nat
  BY <1>1 DEF MemberInv, RowsOK, EventType
<1>5. ASSUME NEW e \in S
      PROVE  /\ IsFiniteSet(Below(e)) /\ Cardinality(Below(e)) \in Nat
             /\ Cardinality(Below(e)) < Cardinality(S)
  <2>1. Below(e) \in SUBSET S /\ e \notin Below(e)
    BY <1>4
  <2>2. IsFiniteSet(Below(e)) /\ Cardinality(Below(e)) <= Cardinality(S)
    BY <1>1, <2>1, FS_Subset
  <2>3. Cardinality(Below(e)) # Cardinality(S)
    <3> SUFFICES ASSUME Cardinality(S) = Cardinality(Below(e)) PROVE FALSE
      OBVIOUS
    <3>1. S = Below(e)
      BY <1>1, <2>1, FS_Subset
    <3> QED
      BY <2>1, <3>1
  <2>4. Cardinality(Below(e)) \in Nat
    BY <2>2, FS_CardinalityType
  <2> QED
    BY <1>2, <2>2, <2>3, <2>4
<1>6. \A e \in S : NewIds(s)[e] = nextId + Cardinality(Below(e))
  BY DEF NewIds
<1>7. ASSUME NEW e \in S, NEW f \in S, e.id < f.id
      PROVE  NewIds(s)[e] # NewIds(s)[f]
  <2>1. Below(e) \in SUBSET Below(f) /\ e \in Below(f) /\ e \notin Below(e)
    BY <1>4, <1>7
  <2>2. Cardinality(Below(e)) # Cardinality(Below(f))
    <3> SUFFICES ASSUME Cardinality(Below(f)) = Cardinality(Below(e)) PROVE FALSE
      OBVIOUS
    <3>1. IsFiniteSet(Below(f))
      BY <1>5
    <3>2. Below(f) = Below(e)
      BY <2>1, <3>1, FS_Subset
    <3> QED
      BY <2>1, <3>2
  <2>3. Cardinality(Below(e)) \in Nat /\ Cardinality(Below(f)) \in Nat
    BY <1>5
  <2>4. \A m, n, p \in Nat : m # n => p + m # p + n
    OBVIOUS
  <2> HIDE DEF Below
  <2> QED
    BY <1>3, <1>6, <2>2, <2>3, <2>4
<1>8. ASSUME NEW e \in S
      PROVE  /\ NewIds(s)[e] \in Nat /\ NewIds(s)[e] >= nextId
             /\ NewIds(s)[e] < nextId + Cardinality(S)
  <2>1. PICK n : n = Cardinality(Below(e))
    OBVIOUS
  <2>2. n \in Nat /\ n < Cardinality(S) /\ NewIds(s)[e] = nextId + n
    BY <1>5, <1>6, <2>1
  <2> QED
    BY <1>2, <1>3, <2>2
<1>9. ASSUME NEW e \in S, NEW f \in S, NewIds(s)[e] = NewIds(s)[f] PROVE e = f
  <2>1. e.id = f.id
    BY <1>4, <1>7, <1>9
  <2> QED
    BY <1>1, <2>1 DEF MemberInv, RowsOK
<1> QED
  BY <1>1, <1>2, <1>8, <1>9

(* What a sign-in does to the rows, row by row.                            *)
LEMMA LoginRows ==
    ASSUME MemberInv, NEW a \in Subjects, NEW s \in Subjects, a # s, 
           nextId + Cardinality(EventsOf(s)) <= MaxEvents + 1,
           events' = MergedEvents(s, a, NewIds(s)),
           nextId' = nextId + Cardinality(EventsOf(s))
    PROVE  /\ IsFiniteSet(events') /\ events' \subseteq EventType
           /\ nextId' \in 1..(MaxEvents + 1) /\ nextId <= nextId'
           /\ \A e \in events : e.user # s => e \in events'
           /\ \A e \in Moved(s, a) : Copied(e, a, NewIds(s)[e]) \in events'
           /\ \A e \in events' :
                 \/ e \in events /\ e.user # s
                 \/ \E o \in Moved(s, a) : e = Copied(o, a, NewIds(s)[o])
           /\ \A o \in Moved(s, a), i \in Nat :
                 /\ Copied(o, a, i).user = a /\ Copied(o, a, i).id = i
                 /\ Copied(o, a, i).key = o.key /\ Copied(o, a, i).sort = o.sort
                 /\ Copied(o, a, i).undoneBy = o.undoneBy
<1> DEFINE ids == NewIds(s)
           M == Moved(s, a)
           C == {Copied(e, a, ids[e]) : e \in M}
<1>1. M \subseteq EventsOf(s) /\ M \subseteq events
  BY DEF Moved, EventsOf
<1>2. events' = (events \ EventsOf(s)) \cup C
  BY DEF MergedEvents, Moved, Copied
<1>3. \A o \in M : o \in EventType
  BY <1>1 DEF MemberInv, RowsOK
<1>4. \A e \in M : ids[e] \in Nat /\ ids[e] >= nextId
  BY <1>1, Numbering
<1>5. nextId \in Nat /\ nextId # 0 /\ Cardinality(EventsOf(s)) \in Nat /\ MaxEvents \in Nat
  BY MembershipAssumption, Numbering DEF MemberInv, MemberTypes
<1>6. ASSUME NEW o \in M, NEW i \in Nat
      PROVE  /\ Copied(o, a, i).user = a /\ Copied(o, a, i).id = i
             /\ Copied(o, a, i).key = o.key /\ Copied(o, a, i).sort = o.sort
             /\ Copied(o, a, i).undoneBy = o.undoneBy
             /\ i # 0 => Copied(o, a, i) \in EventType
  BY <1>3 DEF Copied, EventType
<1>7. C \subseteq EventType
  <2>1. \A e \in M : ids[e] \in Nat /\ ids[e] # 0
    BY <1>4, <1>5
  <2> QED
    BY <1>6, <2>1
<1>8. IsFiniteSet(C)
  <2>1. IsFiniteSet(M)
    <3>1. M \in SUBSET events
      BY <1>1
    <3> QED
      BY <3>1, FS_Subset DEF MemberInv, RowsOK
  <2>2. PICK g : g = [e \in M |-> Copied(e, a, ids[e])]
    OBVIOUS
  <2>3. g \in Surjection(M, C)
    BY <2>2 DEF Surjection
  <2> QED
    BY <2>1, <2>3, FS_Surjection
<1>9. IsFiniteSet(events')
  <2>1. IsFiniteSet(events \ EventsOf(s))
    BY FS_Subset DEF MemberInv, RowsOK
  <2> QED
    BY <1>2, <1>8, <2>1, FS_Union
<1>10. events' \subseteq EventType
  BY <1>2, <1>7 DEF MemberInv, RowsOK
<1>11. nextId' \in 1..(MaxEvents + 1) /\ nextId <= nextId'
  BY <1>5
<1>12. \A e : e \in events' <=> (e \in events /\ e.user # s) \/ \E o \in M : e = Copied(o, a, ids[o])
  BY <1>2 DEF EventsOf
<1> QED
  BY <1>6, <1>9, <1>10, <1>11, <1>12

LEMMA LoginRowsOK ==
    ASSUME MemberInv, NEW a \in Subjects, NEW s \in Subjects, a # s,
           nextId + Cardinality(EventsOf(s)) <= MaxEvents + 1,
           events' = MergedEvents(s, a, NewIds(s)),
           nextId' = nextId + Cardinality(EventsOf(s))
    PROVE  RowsOK'
<1>1. PICK ids : ids = NewIds(s)
  OBVIOUS
<1>2. PICK M : M = Moved(s, a)
  OBVIOUS
<1>3. PICK E : E = events'
  OBVIOUS
<1>4. RowsOK
  BY DEF MemberInv
<1>5. \A o \in M : /\ o \in events /\ o.user = s /\ o \in EventsOf(s)
                   /\ \A e \in events : e.user = a => e.key # o.key
  BY <1>2 DEF Moved, EventsOf, KeysOf
<1>6. nextId \in Nat /\ nextId' \in Nat /\ nextId <= nextId'
  <2>1. Cardinality(EventsOf(s)) \in Nat
    BY Numbering
  <2> QED
    BY <2>1, MembershipAssumption DEF MemberInv, MemberTypes
<1>7. \A o \in M : ids[o] \in Nat /\ ids[o] >= nextId /\ ids[o] < nextId'
  BY <1>1, <1>5, Numbering
<1>8. \A o, p \in M : ids[o] = ids[p] => o = p
  BY <1>1, <1>5, Numbering
<1>9. \A e \in events : /\ e.id \in Nat /\ e.id < nextId /\ e.id # 0
                        /\ e.undoneBy \in Nat /\ e.undoneBy < nextId
  BY <1>4 DEF RowsOK, EventType
<1>10. IsFiniteSet(E) /\ E \subseteq EventType
  BY <1>3, LoginRows
<1>11. \A o \in M : LET e == Copied(o, a, ids[o]) IN
          /\ e.user = a /\ e.id = ids[o] /\ e.key = o.key /\ e.sort = o.sort
          /\ e.undoneBy = o.undoneBy
  BY <1>1, <1>2, <1>7, LoginRows
<1>12. \A e \in E :
          \/ e \in events /\ e.user # s
          \/ \E o \in M : /\ e = Copied(o, a, ids[o]) /\ e.user = a /\ e.id = ids[o]
                          /\ e.key = o.key /\ e.sort = o.sort /\ e.undoneBy = o.undoneBy
  BY <1>1, <1>2, <1>3, <1>11, LoginRows
<1>13. \A e \in E : e.id < nextId' /\ e.undoneBy < nextId
  BY <1>5, <1>6, <1>7, <1>9, <1>12
<1>14. \A e \in E : e.id < nextId => e \in events /\ e.user # s
  BY <1>6, <1>7, <1>12
<1>15. \A e \in E : e.undoneBy \in Nat /\ e.undoneBy < nextId'
  BY <1>6, <1>10, <1>13 DEF EventType
<1>16. \A e, f \in E : e.id = f.id => e = f
  <2>1. ASSUME NEW e \in E, NEW f \in E, e.id = f.id PROVE e = f
    <3>1. CASE e.id < nextId
      BY <1>4, <1>14, <2>1, <3>1 DEF RowsOK
    <3>2. CASE ~(e.id < nextId)
      <4>1. e \notin events /\ f \notin events
        BY <1>9, <2>1, <3>2
      <4>2. PICK o \in M : e = Copied(o, a, ids[o]) /\ e.id = ids[o]
        BY <1>12, <4>1
      <4>3. PICK p \in M : f = Copied(p, a, ids[p]) /\ f.id = ids[p]
        BY <1>12, <4>1
      <4>4. o = p
        BY <1>8, <2>1, <4>2, <4>3
      <4> QED
        BY <4>2, <4>3, <4>4
    <3> QED
      BY <3>1, <3>2
  <2> QED
    BY <2>1
<1>17. \A e, f \in E : e.user = f.user /\ e.key = f.key => e = f
  <2>1. ASSUME NEW e \in E, NEW f \in E, e.user = f.user, e.key = f.key PROVE e = f
    <3>1. CASE e \in events /\ e.user # s
      <4>1. f \in events
        BY <1>5, <1>12, <2>1, <3>1
      <4> QED
        BY <1>4, <2>1, <3>1, <4>1 DEF RowsOK
    <3>2. CASE \E o \in M : e = Copied(o, a, ids[o]) /\ e.user = a /\ e.key = o.key
      <4>1. PICK o \in M : e = Copied(o, a, ids[o]) /\ e.user = a /\ e.key = o.key
        BY <3>2
      <4>2. ~(f \in events /\ f.user # s)
        BY <1>5, <2>1, <4>1
      <4>3. PICK p \in M : f = Copied(p, a, ids[p]) /\ f.key = p.key
        BY <1>12, <4>2
      <4>4. o = p
        BY <1>4, <1>5, <2>1, <4>1, <4>3 DEF RowsOK
      <4> QED
        BY <4>1, <4>3, <4>4
    <3> QED
      BY <1>12, <3>1, <3>2
  <2> QED
    BY <2>1
<1>18. \A e \in E : Feedback(e) <=> e.key \in Keys
  <2>1. \A e \in events : Feedback(e) <=> e.key \in Keys
    BY <1>4 DEF RowsOK
  <2> QED
    BY <1>5, <1>12, <2>1 DEF Feedback
<1>19. \A e \in E : \A i \in Nat : e.key = UndoKey(i) => i < nextId
  <2>1. \A e \in events : \A i \in Nat : e.key = UndoKey(i) => i < nextId
    BY <1>4 DEF RowsOK
  <2> QED
    BY <1>5, <1>12, <2>1
<1>20. \A e, f \in E : f.key = UndoKey(e.id) => e.undoneBy # NoUndo
  <2>1. ASSUME NEW e \in E, NEW f \in E, f.key = UndoKey(e.id) PROVE e.undoneBy # NoUndo
    <3>1. e.id \in Nat
      BY <1>10 DEF EventType
    <3>2. e \in events
      BY <1>14, <1>19, <2>1, <3>1
    <3>3. \E g \in events : g.key = UndoKey(e.id)
      BY <1>5, <1>12, <2>1
    <3> QED
      BY <1>4, <3>2, <3>3 DEF RowsOK
  <2> QED
    BY <2>1
<1>21. \A e, f \in E :
          e.undoneBy = f.id => f.sort = "undo" /\ f.key = UndoKey(e.id) /\ f.user = e.user
  <2>1. ASSUME NEW e \in E, NEW f \in E, e.undoneBy = f.id
        PROVE  f.sort = "undo" /\ f.key = UndoKey(e.id) /\ f.user = e.user
    <3>1. f \in events /\ f.user # s
      BY <1>13, <1>14, <2>1
    <3>2. e \in events
      BY <1>4, <1>5, <1>12, <2>1, <3>1 DEF RowsOK
    <3> QED
      BY <1>4, <2>1, <3>1, <3>2 DEF RowsOK
  <2> QED
    BY <2>1
<1>22. \A e \in E : \A i \in Nat : e.key = UndoKey(i) => i < nextId'
  BY <1>6, <1>19
<1> QED
  BY <1>3, <1>10, <1>13, <1>15, <1>16, <1>17, <1>18, <1>20, <1>21, <1>22 DEF RowsOK

(* Where the merge leaves an acknowledgement.                              *)
Heir(x, s, a) == IF x[2] = s THEN <<x[1], a, x[3]>> ELSE x

HandedOver(history, after, s, a) ==
    /\ after \subseteq Acts
    /\ \A x \in history : Heir(x, s, a) \in after
    /\ \A y \in after : \E x \in history : y = Heir(x, s, a)

LEMMA HandedFacts ==
    ASSUME NEW history, history \subseteq Acts, NEW a \in Subjects, NEW s \in Subjects
    PROVE  HandedOver(history, Handed(history, s, a), s, a)
<1>1. ASSUME NEW x \in history
      PROVE  /\ Heir(x, s, a) = IF x[2] = s THEN [x EXCEPT ![2] = a] ELSE x
             /\ Heir(x, s, a) \in Acts
  <2>1. x \in Acts
    OBVIOUS
  <2>2. PICK p \in Subjects, o \in Subjects, k \in Keys : x = <<p, o, k>>
    BY <2>1 DEF Acts
  <2>3. [x EXCEPT ![2] = a] = <<p, a, k>> /\ x[2] = o
    BY <2>2
  <2> QED
    BY <2>2, <2>3 DEF Heir, Acts
<1>2. Handed(history, s, a) = {Heir(x, s, a) : x \in history}
  BY <1>1 DEF Handed
<1> QED
  BY <1>1, <1>2 DEF HandedOver

LEMMA LoginInv ==
    ASSUME MemberInv, NEW a \in Subjects, NEW s \in Subjects,
           NEW choice \in {"none", "anonymous", "account"}, Login(a, s, choice)
    PROVE  MemberInv'
<1>1. /\ kind[a] = "active" /\ kind[s] = "anonymous" /\ a # s
      /\ nextId + Cardinality(EventsOf(s)) <= MaxEvents + 1
      /\ events' = MergedEvents(s, a, NewIds(s))
      /\ nextId' = nextId + Cardinality(EventsOf(s))
      /\ given' = Handed(given, s, a) /\ undone' = Handed(undone, s, a)
      /\ intents' = [intents EXCEPT ![a] = @ \cup intents[s], ![s] = {}]
      /\ UNCHANGED <<kind, copy>>
  BY DEF Login
<1>2. MemberTypes'
  <2>1. nextId' \in 1..(MaxEvents + 1)
    BY <1>1, LoginRows
  <2>2. prefs' \in [Subjects -> PrefsType]
    <3>1. PICK row : row = IF KeepsSource(s, a, choice) THEN prefs[s] ELSE prefs[a]
      OBVIOUS
    <3>2. prefs' = [prefs EXCEPT ![s] = NoPrefs, ![a] = row]
      BY <1>1, <3>1 DEF Login, MemberInv, MemberTypes
    <3>3. row \in PrefsType
      BY <3>1 DEF MemberInv, MemberTypes
    <3> QED
      BY <3>2, <3>3, PrefsFacts DEF MemberInv, MemberTypes
  <2>3. intents' \in [Subjects -> SUBSET Titles]
    BY <1>1 DEF MemberInv, MemberTypes
  <2> QED
    BY <1>1, <2>1, <2>2, <2>3 DEF MemberInv, MemberTypes
<1>3. RowsOK'
  BY <1>1, LoginRowsOK
<1>4. HistoryOK /\ OwnersOK
  BY DEF MemberInv
<1>5. PICK H : H = [x \in Acts |-> Heir(x, s, a)]
  OBVIOUS
<1>6. given \subseteq Acts /\ undone \subseteq Acts
  BY <1>4 DEF HistoryOK
<1>7. \A x \in Acts : /\ H[x][1] = x[1] /\ H[x][3] = x[3]
                      /\ H[x][2] = IF x[2] = s THEN a ELSE x[2]
                      /\ x[2] # s => H[x] = x
  BY <1>5 DEF Heir
<1>8. /\ given' \subseteq Acts
      /\ \A x \in given : H[x] \in given'
      /\ \A y \in given' : \E x \in given : y = H[x]
  <2>1. \A x \in given : H[x] = Heir(x, s, a)
    BY <1>5, <1>6
  <2>2. /\ given' \subseteq Acts
        /\ \A x \in given : Heir(x, s, a) \in given'
        /\ \A y \in given' : \E x \in given : y = Heir(x, s, a)
    <3>1. HandedOver(given, Handed(given, s, a), s, a)
      BY <1>6, HandedFacts
    <3> QED
      BY <1>1, <3>1 DEF HandedOver
  <2> QED
    BY <2>1, <2>2
<1>9. /\ undone' \subseteq Acts
      /\ \A x \in undone : H[x] \in undone'
      /\ \A y \in undone' : \E x \in undone : y = H[x]
  <2>1. \A x \in undone : H[x] = Heir(x, s, a)
    BY <1>5, <1>6
  <2>2. /\ undone' \subseteq Acts
        /\ \A x \in undone : Heir(x, s, a) \in undone'
        /\ \A y \in undone' : \E x \in undone : y = Heir(x, s, a)
    <3>1. HandedOver(undone, Handed(undone, s, a), s, a)
      BY <1>6, HandedFacts
    <3> QED
      BY <1>1, <3>1 DEF HandedOver
  <2> QED
    BY <2>1, <2>2
<1>10. ~Grown(s) /\ Grown(a) /\ \A v : Grown(v)' <=> Grown(v)
  BY <1>1 DEF Grown
<1>11. OwnersOK'
  <2>1. \A y \in given' \cup undone' : \E x \in given \cup undone : y = H[x] /\ x \in Acts
    BY <1>6, <1>8, <1>9
  <2>2. ASSUME NEW y \in given' \cup undone' PROVE Grown(y[2])' \/ y[1] = y[2]
    BY <1>4, <1>7, <1>10, <2>1 DEF OwnersOK
  <2>3. ASSUME NEW y \in given' \cup undone', NEW z \in given' \cup undone',
               y[1] = z[1], ~Grown(y[1]), y[2] = y[1]
        PROVE  z[2] = y[1]
    <3>1. PICK x \in given \cup undone : y = H[x] /\ x \in Acts
      BY <2>1
    <3>2. PICK w \in given \cup undone : z = H[w] /\ w \in Acts
      BY <2>1
    <3>3. x[2] # s /\ y = x
      BY <1>7, <1>10, <2>3, <3>1
    <3>4. w[2] = y[1]
      BY <1>4, <1>7, <2>3, <3>2, <3>3 DEF OwnersOK
    <3> QED
      BY <1>7, <2>3, <3>2, <3>3, <3>4
  <2> QED
    BY <1>10, <2>2, <2>3 DEF OwnersOK
<1>12. PICK ids : ids = NewIds(s)
  OBVIOUS
<1>13. PICK M : M = Moved(s, a)
  OBVIOUS
<1>14. \A e \in events : /\ e.user # s => e \in events'
                         /\ e.user = s => e \in M \/ \E f \in events : f.user = a /\ f.key = e.key
  BY <1>1, <1>13, LoginRows DEF Moved, EventsOf, KeysOf
<1>15. \A o \in M : /\ o \in events /\ o.user = s /\ o \in EventsOf(s)
                    /\ \A e \in events : e.user = a => e.key # o.key
  BY <1>13 DEF Moved, EventsOf, KeysOf
<1>16. \A o \in M : ids[o] \in Nat
  BY <1>12, <1>15, Numbering
<1>17. \A o \in M : LET e == Copied(o, a, ids[o]) IN
          /\ e \in events' /\ e.user = a /\ e.key = o.key /\ e.sort = o.sort
          /\ e.undoneBy = o.undoneBy
  BY <1>1, <1>12, <1>13, <1>16, LoginRows
<1>18. \A e \in events' :
          \/ e \in events /\ e.user # s
          \/ \E o \in M : e.user = a /\ e.key = o.key /\ e.sort = o.sort /\ e.undoneBy = o.undoneBy
  BY <1>1, <1>12, <1>13, <1>17, LoginRows
<1>19. \A x \in given \cup undone : \E e \in events : Mine(x, e)
  BY <1>4 DEF HistoryOK
<1>20. ASSUME NEW x \in given \cup undone PROVE \E e \in events' : Mine(H[x], e)
  <2>1. PICK e \in events : Mine(x, e)
    BY <1>19
  <2>2. x \in Acts
    BY <1>6
  <2>3. CASE e.user # s
    BY <1>7, <1>14, <2>1, <2>2, <2>3 DEF Mine
  <2>4. CASE e \in M
    <3>1. H[x][2] = a /\ H[x][3] = e.key
      BY <1>7, <1>15, <2>1, <2>2, <2>4 DEF Mine
    <3> QED
      BY <1>17, <2>4, <3>1 DEF Mine
  <2>5. CASE e.user = s /\ \E f \in events : f.user = a /\ f.key = e.key
    <3>1. PICK f \in events : f.user = a /\ f.key = e.key
      BY <2>5
    <3>2. f \in events' /\ H[x][2] = a /\ H[x][3] = f.key
      BY <1>1, <1>7, <1>14, <2>1, <2>2, <2>5, <3>1 DEF Mine
    <3> QED
      BY <3>1, <3>2 DEF Mine
  <2> QED
    BY <1>14, <2>3, <2>4, <2>5
<1>21. HistoryOK'
  <2>1. \A y \in given' \cup undone' : \E e \in events' : Mine(y, e)
    BY <1>8, <1>9, <1>20
  <2>2. ASSUME NEW e \in events', Feedback(e), e.undoneBy # NoUndo
        PROVE  \E y \in undone' : Mine(y, e)
    <3>1. CASE e \in events /\ e.user # s
      <4>1. PICK x \in undone : Mine(x, e)
        BY <1>4, <2>2, <3>1 DEF HistoryOK
      <4>2. H[x] = x
        BY <1>6, <1>7, <3>1, <4>1 DEF Mine
      <4> QED
        BY <1>9, <4>1, <4>2
    <3>2. CASE \E o \in M : /\ e.user = a /\ e.key = o.key /\ e.sort = o.sort
                            /\ e.undoneBy = o.undoneBy
      <4>1. PICK o \in M : /\ e.user = a /\ e.key = o.key /\ e.sort = o.sort
                           /\ e.undoneBy = o.undoneBy
        BY <3>2
      <4>2. PICK x \in undone : Mine(x, o)
        BY <1>4, <1>15, <2>2, <4>1 DEF HistoryOK, Feedback
      <4>3. H[x][2] = a /\ H[x][3] = o.key
        BY <1>6, <1>7, <1>15, <4>2 DEF Mine
      <4> QED
        BY <1>9, <4>1, <4>2, <4>3 DEF Mine
    <3> QED
      BY <1>18, <3>1, <3>2
  <2>3. ASSUME NEW e \in events', Feedback(e), e.undoneBy = NoUndo
        PROVE  \E y \in given' : Mine(y, e) /\ y \notin undone'
    <3>1. CASE e \in events /\ e.user # s
      <4>1. PICK x \in given : Mine(x, e) /\ x \notin undone
        BY <1>4, <2>3, <3>1 DEF HistoryOK
      <4>2. H[x] = x /\ x[2] # s
        BY <1>6, <1>7, <3>1, <4>1 DEF Mine
      <4>3. ASSUME x \in undone' PROVE FALSE
        <5>1. PICK y \in undone : x = H[y]
          BY <1>9, <4>3
        <5>2. y[2] = s /\ x[1] = y[1] /\ x[2] = a
          BY <1>6, <1>7, <4>1, <5>1
        <5>3. y[1] = s
          BY <1>4, <1>10, <5>2 DEF OwnersOK
        <5>4. x[2] = s
          BY <1>4, <1>10, <5>2, <5>3 DEF OwnersOK
        <5> QED
          BY <4>2, <5>4
      <4> QED
        BY <1>8, <4>1, <4>2, <4>3
    <3>2. CASE \E o \in M : /\ e.user = a /\ e.key = o.key /\ e.sort = o.sort
                            /\ e.undoneBy = o.undoneBy
      <4>1. PICK o \in M : /\ e.user = a /\ e.key = o.key /\ e.sort = o.sort
                           /\ e.undoneBy = o.undoneBy
        BY <3>2
      <4>2. PICK x \in given : Mine(x, o) /\ x \notin undone
        BY <1>4, <1>15, <2>3, <4>1 DEF HistoryOK, Feedback
      <4>3. x \in Acts /\ x[2] = s /\ x[3] = o.key
        BY <1>6, <1>15, <4>2 DEF Mine
      <4>4. H[x][2] = a /\ H[x][3] = o.key /\ H[x][1] = x[1]
        BY <1>7, <4>3
      <4>5. ASSUME H[x] \in undone' PROVE FALSE
        <5>1. PICK y \in undone : H[x] = H[y]
          BY <1>9, <4>5
        <5>2. y \in Acts /\ y[1] = x[1] /\ y[3] = o.key
          BY <1>6, <1>7, <4>3, <4>4, <5>1
        <5>3. CASE y[2] = s
          <6>1. y = x
            BY <4>3, <5>2, <5>3 DEF Acts
          <6> QED
            BY <4>2, <6>1
        <5>4. CASE y[2] # s
          <6>1. y[2] = a
            BY <1>7, <4>4, <5>1, <5>2, <5>4
          <6>2. PICK f \in events : Mine(y, f)
            BY <1>19
          <6> QED
            BY <1>15, <5>2, <6>1, <6>2 DEF Mine
        <5> QED
          BY <5>3, <5>4
      <4> QED
        BY <1>8, <4>1, <4>2, <4>4, <4>5 DEF Mine
    <3> QED
      BY <1>18, <3>1, <3>2
  <2> QED
    BY <1>8, <1>9, <2>1, <2>2, <2>3 DEF HistoryOK
<1> QED
  BY <1>2, <1>3, <1>11, <1>21 DEF MemberInv

LEMMA MemberNextInv == MemberInv /\ [MemberNext]_memberVars => MemberInv'
<1> SUFFICES ASSUME MemberInv, [MemberNext]_memberVars PROVE MemberInv'
  OBVIOUS
<1>1. ASSUME NEW u \in Subjects, CreateSession(u) \/ Register(u) \/ DeleteMember(u)
      PROVE  MemberInv'
  BY <1>1, AccountInv
<1>2. ASSUME NEW a \in Subjects, NEW s \in Subjects,
             NEW choice \in {"none", "anonymous", "account"}, Login(a, s, choice)
      PROVE  MemberInv'
  BY <1>2, LoginInv
<1>3. CASE \/ \E c \in Clients, u \in Subjects : ReadPrefs(c, u)
           \/ \E c \in Clients, value \in Values : PutPrefs(c, value)
  BY <1>3, PrefsInv
<1>4. ASSUME NEW u \in Subjects, NEW k \in Keys, GiveFeedback(u, k) PROVE MemberInv'
  BY <1>4, GiveFeedbackInv
<1>5. ASSUME NEW u \in Subjects, NEW e \in events, TakeBack(u, e) PROVE MemberInv'
  BY <1>5, TakeBackInv
<1>6. CASE UNCHANGED memberVars
  BY <1>6 DEF memberVars, MemberInv, MemberTypes, RowsOK, HistoryOK, OwnersOK, Grown
<1> QED
  BY <1>1, <1>2, <1>3, <1>4, <1>5, <1>6 DEF MemberNext

(* Acknowledged feedback follows its author through every merge, and an    *)
(* undo link never comes to mean another row (merge_anonymous_subject,     *)
(* create_feedback, undo_feedback).                                        *)
THEOREM FeedbackIsKept == MemberSpec => []FeedbackFollows
<1>1. MemberSpec => []MemberInv
  BY MemberStarts, MemberNextInv, PTL DEF MemberSpec
<1> QED
  BY <1>1, MemberKept, PTL

(* Versions and ids stay within their bounds, and no two rows of feedback  *)
(* share an id.                                                            *)
THEOREM MemberTypesHold == MemberSpec => []MemberTypeOK
<1>1. MemberSpec => []MemberInv
  BY MemberStarts, MemberNextInv, PTL DEF MemberSpec
<1> QED
  BY <1>1, MemberKept, PTL

-----------------------------------------------------------------------------
(* Request quotas                                                          *)

(* What was counted since t.                                               *)
Since(h, t) == Cardinality({i \in DOMAIN h : h[i] >= t})

LEMMA SinceFacts ==
    ASSUME NEW h \in Seq(Nat), NEW t \in Int
    PROVE  /\ Since(h, t) \in Nat
           /\ \A u \in Int : t <= u => Since(h, u) <= Since(h, t)
           /\ (\A i \in DOMAIN h : h[i] < t) => Since(h, t) = 0
<1>1. Len(h) \in Nat /\ DOMAIN h = 1..Len(h) /\ \A i \in DOMAIN h : h[i] \in Nat
  OBVIOUS
<1>2. IsFiniteSet(DOMAIN h)
  BY <1>1, FS_Interval
<1>3. ASSUME NEW u \in Int
      PROVE  IsFiniteSet({i \in DOMAIN h : h[i] >= u}) /\ Since(h, u) \in Nat
  <2>1. {i \in DOMAIN h : h[i] >= u} \subseteq DOMAIN h
    OBVIOUS
  <2> QED
    BY <1>2, <2>1, FS_Subset, FS_CardinalityType DEF Since
<1>4. ASSUME NEW u \in Int, t <= u PROVE Since(h, u) <= Since(h, t)
  <2>1. {i \in DOMAIN h : h[i] >= u} \subseteq {i \in DOMAIN h : h[i] >= t}
    BY <1>1, <1>4
  <2> QED
    BY <1>3, <2>1, FS_Subset DEF Since
<1>5. ASSUME \A i \in DOMAIN h : h[i] < t PROVE Since(h, t) = 0
  <2>1. {i \in DOMAIN h : h[i] >= t} = {}
    BY <1>1, <1>5
  <2> QED
    BY <2>1, FS_EmptySet DEF Since
<1> QED
  BY <1>3, <1>4, <1>5

LEMMA SinceAppend ==
    ASSUME NEW h \in Seq(Nat), NEW t \in Int, NEW x \in Nat, NEW g, g = Append(h, x)
    PROVE  /\ g \in Seq(Nat)
           /\ Since(g, t) = IF x >= t THEN Since(h, t) + 1 ELSE Since(h, t)
           /\ \A i \in DOMAIN g : g[i] = x \/ (i \in DOMAIN h /\ g[i] = h[i])
<1>1. /\ g \in Seq(Nat) /\ Len(h) \in Nat /\ Len(g) = Len(h) + 1
      /\ DOMAIN h = 1..Len(h) /\ DOMAIN g = 1..(Len(h) + 1)
      /\ g[Len(h) + 1] = x /\ \A i \in 1..Len(h) : g[i] = h[i]
  OBVIOUS
<1>2. PICK A : A = {i \in DOMAIN h : h[i] >= t}
  OBVIOUS
<1>3. PICK n : n = Len(h) + 1
  OBVIOUS
<1>4. n \notin A /\ IsFiniteSet(A)
  <2>1. IsFiniteSet(DOMAIN h) /\ A \subseteq DOMAIN h
    BY <1>1, <1>2, FS_Interval
  <2> QED
    BY <1>1, <1>3, <2>1, FS_Subset
<1>5. {i \in DOMAIN g : g[i] >= t} = IF x >= t THEN A \cup {n} ELSE A
  BY <1>1, <1>2, <1>3
<1>6. Since(g, t) = IF x >= t THEN Since(h, t) + 1 ELSE Since(h, t)
  <2>1. Since(h, t) = Cardinality(A)
    BY <1>2 DEF Since
  <2>2. Cardinality(A \cup {n}) = Cardinality(A) + 1
    BY <1>4, FS_AddElement
  <2> QED
    BY <1>5, <2>1, <2>2 DEF Since
<1> QED
  BY <1>1, <1>6

(***************************************************************************)
(* One key                                                                 *)
(***************************************************************************)

(* s is the start of the last window of a key whose history is h: the      *)
(* table counts it, unless it is over and was swept.                       *)
Window(tab, h, t, k, s) ==
    /\ k \in DOMAIN tab => tab[k] = [start |-> s, count |-> Since(h, s)]
    /\ t - s < WindowTicks => k \in DOMAIN tab
    /\ \A i \in DOMAIN h : h[i] < s + WindowTicks
    /\ Since(h, s) <= LimitOf(k)
    /\ Since(h, s - WindowTicks + 1) <= LimitOf(k) + Since(h, s)

KeyOK(tab, h, t, k) == \E s \in 0..t : Window(tab, h, t, k, s)

LEMMA KeyKept ==
    ASSUME NEW tab, NEW h \in Seq(Nat), NEW t \in Nat, NEW k, LimitOf(k) \in Nat,
           KeyOK(tab, h, t, k)
    PROVE  /\ Since(h, t - WindowTicks + 1) <= 2 * LimitOf(k)
           /\ k \in DOMAIN tab =>
                /\ tab[k].start \in 0..t /\ tab[k].count \in Nat
                /\ tab[k].count = Since(h, tab[k].start) /\ tab[k].count <= LimitOf(k)
<1>1. PICK s \in 0..t : Window(tab, h, t, k, s)
  BY DEF KeyOK
<1>2. WindowTicks \in Nat /\ s \in Nat
  BY LimitAssumption
<1>3. /\ Since(h, s) <= LimitOf(k)
      /\ Since(h, s - WindowTicks + 1) <= LimitOf(k) + Since(h, s)
  BY <1>1 DEF Window
<1>4. t - WindowTicks + 1 \in Int /\ s - WindowTicks + 1 \in Int /\ s \in Int
  BY <1>2
<1>5. /\ Since(h, s) \in Nat /\ Since(h, s - WindowTicks + 1) \in Nat
      /\ Since(h, t - WindowTicks + 1) \in Nat
  BY <1>4, SinceFacts
<1>6. Since(h, t - WindowTicks + 1) <= Since(h, s - WindowTicks + 1)
  <2>1. s - WindowTicks + 1 <= t - WindowTicks + 1
    BY <1>2
  <2> QED
    BY <1>4, <2>1, SinceFacts
<1>7. Since(h, t - WindowTicks + 1) <= 2 * LimitOf(k)
  BY <1>3, <1>5, <1>6
<1>8. ASSUME k \in DOMAIN tab
      PROVE  /\ tab[k].start \in 0..t /\ tab[k].count \in Nat
             /\ tab[k].count = Since(h, tab[k].start) /\ tab[k].count <= LimitOf(k)
  <2>1. tab[k].start = s /\ tab[k].count = Since(h, s)
    BY <1>1, <1>8 DEF Window
  <2> QED
    BY <1>3, <1>5, <2>1
<1> QED
  BY <1>7, <1>8

(* Time passes, and windows that are over may be swept.                    *)
LEMMA KeySwept ==
    ASSUME NEW tab, NEW new, NEW h \in Seq(Nat), NEW t \in Nat, NEW u \in Nat, t <= u, NEW k,
           KeyOK(tab, h, t, k),
           k \in DOMAIN new => k \in DOMAIN tab /\ new[k] = tab[k],
           k \in DOMAIN tab /\ u - tab[k].start < WindowTicks => k \in DOMAIN new
    PROVE  KeyOK(new, h, u, k)
<1>1. PICK s \in 0..t : Window(tab, h, t, k, s)
  BY DEF KeyOK
<1>2. WindowTicks \in Nat /\ s \in Nat /\ s \in 0..u
  BY LimitAssumption
<1>3. ASSUME u - s < WindowTicks PROVE k \in DOMAIN new
  <2>1. t - s < WindowTicks
    BY <1>2, <1>3
  <2>2. k \in DOMAIN tab /\ tab[k].start = s
    BY <1>1, <2>1 DEF Window
  <2> QED
    BY <1>3, <2>2
<1>4. Window(new, h, u, k, s)
  BY <1>1, <1>3 DEF Window
<1> QED
  BY <1>2, <1>4 DEF KeyOK

(* A key that is not spent is counted.                                     *)
LEMMA KeyCounted ==
    ASSUME NEW tab, NEW new, NEW h \in Seq(Nat), NEW g, NEW t \in Nat, NEW k,
           LimitOf(k) \in Nat \ {0}, g = Append(h, t), k \in DOMAIN new,
           KeyOK(tab, h, t, k),
           k \in DOMAIN tab /\ t - tab[k].start < WindowTicks =>
              /\ tab[k].count < LimitOf(k)
              /\ new[k] = [start |-> tab[k].start, count |-> tab[k].count + 1],
           ~(k \in DOMAIN tab /\ t - tab[k].start < WindowTicks) =>
              new[k] = [start |-> t, count |-> 1]
    PROVE  KeyOK(new, g, t, k)
<1>1. PICK s \in 0..t : Window(tab, h, t, k, s)
  BY DEF KeyOK
<1>2. WindowTicks \in Nat /\ WindowTicks # 0 /\ s \in Nat /\ s <= t
  BY LimitAssumption
<1>3. \A i \in DOMAIN h : h[i] < s + WindowTicks /\ h[i] \in Nat
  BY <1>1 DEF Window
<1>4. PICK d : d = s - WindowTicks + 1
  OBVIOUS
<1>5. PICK e : e = t - WindowTicks + 1
  OBVIOUS
<1>6. d \in Int /\ e \in Int /\ s \in Int /\ t \in Int
  BY <1>2, <1>4, <1>5
<1>7. /\ Since(h, s) \in Nat /\ Since(h, d) \in Nat /\ Since(h, e) \in Nat /\ Since(h, t) \in Nat
  BY <1>6, SinceFacts
<1>8. \A x \in Int : Since(g, x) = IF t >= x THEN Since(h, x) + 1 ELSE Since(h, x)
  BY SinceAppend
<1>9. \A i \in DOMAIN g : g[i] = t \/ (i \in DOMAIN h /\ g[i] = h[i])
  BY <1>6, SinceAppend
<1>10. Since(h, s) <= LimitOf(k) /\ Since(h, d) <= LimitOf(k) + Since(h, s)
  BY <1>1, <1>4 DEF Window
<1>11. CASE k \in DOMAIN tab /\ t - tab[k].start < WindowTicks
  <2>1. tab[k].start = s /\ tab[k].count = Since(h, s)
    BY <1>1, <1>11 DEF Window
  <2>2. Since(h, s) < LimitOf(k) /\ new[k] = [start |-> s, count |-> Since(h, s) + 1]
    BY <1>11, <2>1
  <2>3. d <= t
    BY <1>2, <1>4
  <2>4. Since(g, s) = Since(h, s) + 1 /\ Since(g, d) = Since(h, d) + 1
    BY <1>2, <1>6, <1>8, <2>3
  <2>5. \A i \in DOMAIN g : g[i] < s + WindowTicks
    BY <1>2, <1>3, <1>9, <1>11, <2>1
  <2>6. Since(g, s) <= LimitOf(k) /\ Since(g, d) <= LimitOf(k) + Since(g, s)
    BY <1>7, <1>10, <2>2, <2>4
  <2>7. Window(new, g, t, k, s)
    BY <1>4, <2>2, <2>4, <2>5, <2>6 DEF Window
  <2> QED
    BY <2>7 DEF KeyOK
<1>12. CASE ~(k \in DOMAIN tab /\ t - tab[k].start < WindowTicks)
  <2>1. t - s >= WindowTicks
    BY <1>1, <1>2, <1>12 DEF Window
  <2>2. \A i \in DOMAIN h : h[i] < t
    BY <1>2, <1>3, <2>1
  <2>3. Since(h, t) = 0
    BY <1>6, <2>2, SinceFacts
  <2>4. s <= e /\ e <= t
    BY <1>2, <1>5, <2>1
  <2>5. Since(h, e) <= Since(h, s)
    BY <1>6, <2>4, SinceFacts
  <2>6. Since(g, t) = 1 /\ Since(g, e) = Since(h, e) + 1
    BY <1>6, <1>8, <2>3, <2>4
  <2>7. Since(g, t) <= LimitOf(k) /\ Since(g, e) <= LimitOf(k) + Since(g, t)
    BY <1>7, <1>10, <2>5, <2>6
  <2>8. \A i \in DOMAIN g : g[i] < t + WindowTicks
    BY <1>2, <1>9, <2>2
  <2>9. t - t < WindowTicks => k \in DOMAIN new
    OBVIOUS
  <2>10. Window(new, g, t, k, t)
    BY <1>5, <1>12, <2>6, <2>7, <2>8, <2>9 DEF Window
  <2> QED
    BY <2>10 DEF KeyOK
<1> QED
  BY <1>11, <1>12

(* A key is counted for the first time.                                    *)
LEMMA KeyFirst ==
    ASSUME NEW new, NEW t \in Nat, NEW k, LimitOf(k) \in Nat \ {0}, k \in DOMAIN new,
           new[k] = [start |-> t, count |-> 1]
    PROVE  KeyOK(new, Append(<<>>, t), t, k)
<1>1. PICK h : h = <<>>
  OBVIOUS
<1>2. h \in Seq(Nat) /\ DOMAIN h = {}
  BY <1>1
<1>3. PICK g : g = Append(h, t)
  OBVIOUS
<1>4. PICK e : e = t - WindowTicks + 1
  OBVIOUS
<1>5. WindowTicks \in Nat /\ WindowTicks # 0 /\ e \in Int /\ t \in Int /\ e <= t
  BY <1>4, LimitAssumption
<1>6. Since(h, t) = 0 /\ Since(h, e) = 0
  BY <1>2, <1>5, SinceFacts
<1>7. \A x \in Int : Since(g, x) = IF t >= x THEN Since(h, x) + 1 ELSE Since(h, x)
  BY <1>2, <1>3, SinceAppend
<1>8. \A i \in DOMAIN g : g[i] = t
  BY <1>2, <1>3, <1>5, SinceAppend
<1>9. Since(g, t) = 1 /\ Since(g, e) = 1
  BY <1>5, <1>6, <1>7
<1>10. Window(new, g, t, k, t)
  BY <1>4, <1>5, <1>8, <1>9 DEF Window
<1> QED
  BY <1>1, <1>3, <1>10 DEF KeyOK

(***************************************************************************)
(* A request                                                               *)
(***************************************************************************)

SweptOrNot(tab, mid) == mid = tab \/ mid = OnlyActive(tab)

LEMMA SweptFacts ==
    ASSUME NEW tab, NEW mid, SweptOrNot(tab, mid), NEW k
    PROVE  /\ k \in DOMAIN mid => k \in DOMAIN tab /\ mid[k] = tab[k]
           /\ k \in DOMAIN tab /\ tick - tab[k].start < WindowTicks => k \in DOMAIN mid
<1>1. CASE mid = tab
  BY <1>1
<1>2. CASE mid = OnlyActive(tab)
  BY <1>2 DEF OnlyActive, InWindow
<1> QED
  BY <1>1, <1>2 DEF SweptOrNot

(* A table of which some windows were swept, and in which keys are counted *)
(* of which none is spent, if any.                                         *)
LEMMA TableStep ==
    ASSUME tick \in Nat, NEW tab, NEW mid, SweptOrNot(tab, mid),
           NEW keys, NEW new, new = CountOnce(mid, keys) \/ (keys = {} /\ new = mid), NEW k,
           k \in keys => ~Spent(mid, k) /\ LimitOf(k) \in Nat \ {0}
    PROVE  /\ \A h \in Seq(Nat) : KeyOK(tab, h, tick, k) /\ k \notin keys => KeyOK(new, h, tick, k)
           /\ \A h \in Seq(Nat) : KeyOK(tab, h, tick, k) /\ k \in keys =>
                 KeyOK(new, Append(h, tick), tick, k)
           /\ k \in keys /\ k \notin DOMAIN tab => KeyOK(new, Append(<<>>, tick), tick, k)
           /\ k \in DOMAIN new <=> k \in DOMAIN mid \/ k \in keys
<1>1. k \in DOMAIN new <=> k \in DOMAIN mid \/ k \in keys
  BY DEF CountOnce
<1>2. /\ k \in DOMAIN mid => k \in DOMAIN tab /\ mid[k] = tab[k]
      /\ k \in DOMAIN tab /\ tick - tab[k].start < WindowTicks => k \in DOMAIN mid
  BY SweptFacts
<1>3. ASSUME NEW h \in Seq(Nat), KeyOK(tab, h, tick, k) PROVE KeyOK(mid, h, tick, k)
  <2>1. PICK t : t = tick
    OBVIOUS
  <2>2. KeyOK(tab, h, t, k) /\ t \in Nat /\ t <= t
    BY <1>3, <2>1
  <2>3. k \in DOMAIN tab /\ t - tab[k].start < WindowTicks => k \in DOMAIN mid
    BY <1>2, <2>1
  <2>4. KeyOK(mid, h, t, k)
    BY <1>2, <2>2, <2>3, KeySwept
  <2> QED
    BY <2>1, <2>4
<1>4. ASSUME NEW h \in Seq(Nat), KeyOK(tab, h, tick, k), k \notin keys
      PROVE  KeyOK(new, h, tick, k)
  <2>1. k \in DOMAIN mid => new[k] = mid[k]
    BY <1>4 DEF CountOnce
  <2>2. KeyOK(mid, h, tick, k)
    BY <1>3, <1>4
  <2>3. \A s : Window(mid, h, tick, k, s) => Window(new, h, tick, k, s)
    BY <1>1, <1>4, <2>1 DEF Window
  <2> QED
    BY <2>2, <2>3 DEF KeyOK
<1>5. ASSUME NEW h \in Seq(Nat), KeyOK(tab, h, tick, k), k \in keys
      PROVE  KeyOK(new, Append(h, tick), tick, k)
  <2>1. PICK t : t = tick
    OBVIOUS
  <2>2. KeyOK(mid, h, t, k) /\ t \in Nat /\ LimitOf(k) \in Nat \ {0} /\ k \in DOMAIN new
    BY <1>1, <1>3, <1>5, <2>1
  <2>3. PICK g : g = Append(h, t)
    OBVIOUS
  <2>4. ASSUME k \in DOMAIN mid, t - mid[k].start < WindowTicks
        PROVE  /\ mid[k].count < LimitOf(k)
               /\ new[k] = [start |-> mid[k].start, count |-> mid[k].count + 1]
    <3>1. PICK s \in 0..t : Window(mid, h, t, k, s)
      BY <2>2 DEF KeyOK
    <3>2. mid[k] = [start |-> s, count |-> Since(h, s)]
      BY <2>4, <3>1 DEF Window
    <3>3. Since(h, s) \in Nat
      BY SinceFacts
    <3>4. mid[k].count \in Nat /\ ~(mid[k].count >= LimitOf(k))
      BY <1>5, <2>1, <2>4, <3>2, <3>3 DEF Spent, InWindow
    <3>5. mid[k].count < LimitOf(k)
      BY <2>2, <3>4
    <3>6. new[k] = [mid[k] EXCEPT !.count = @ + 1]
      BY <1>5, <2>1, <2>4 DEF CountOnce, InWindow
    <3> QED
      BY <3>2, <3>5, <3>6
  <2>5. ASSUME ~(k \in DOMAIN mid /\ t - mid[k].start < WindowTicks)
        PROVE  new[k] = [start |-> t, count |-> 1]
    BY <1>5, <2>1, <2>5 DEF CountOnce, InWindow
  <2>6. KeyOK(new, g, t, k)
    BY <2>2, <2>3, <2>4, <2>5, KeyCounted
  <2> QED
    BY <2>1, <2>3, <2>6
<1>6. ASSUME k \in keys, k \notin DOMAIN tab
      PROVE  KeyOK(new, Append(<<>>, tick), tick, k)
  <2>1. PICK t : t = tick
    OBVIOUS
  <2>2. new[k] = [start |-> t, count |-> 1] /\ k \in DOMAIN new
    BY <1>1, <1>2, <1>6, <2>1 DEF CountOnce
  <2>3. KeyOK(new, Append(<<>>, t), t, k)
    BY <1>6, <2>1, <2>2, KeyFirst
  <2> QED
    BY <2>1, <2>3
<1> QED
  BY <1>1, <1>4, <1>5, <1>6

(***************************************************************************)
(* The invariant                                                           *)
(***************************************************************************)

TableOf(k) == IF k[1] = "login" THEN logins ELSE counters

LimitInv ==
    /\ tick \in 0..MaxTick /\ asked \in 0..(SweepEvery - 1)
    /\ \A k \in DOMAIN entries :
          k[1] \in DOMAIN Quota /\ entries[k] \in Seq(Nat) /\ KeyOK(TableOf(k), entries[k], tick, k)
    /\ \A k \in DOMAIN counters : k \in DOMAIN entries /\ k[1] # "login"
    /\ \A k \in DOMAIN logins : k \in DOMAIN entries /\ k[1] = "login"
    /\ IsFiniteSet(DOMAIN counters) /\ Cardinality(DOMAIN counters) <= MaxCounters + 2

LEMMA LimitNumbers ==
    /\ {WindowTicks, SweepEvery, MaxCounters, MaxTick} \subseteq Nat
    /\ WindowTicks # 0 /\ SweepEvery # 0
    /\ \A k : k[1] \in DOMAIN Quota => LimitOf(k) \in Nat \ {0}
  BY LimitAssumption DEF LimitOf

LEMMA LimitKept == LimitInv => LimitTypeOK /\ QuotasHold
<1> SUFFICES ASSUME LimitInv PROVE LimitTypeOK /\ QuotasHold
  OBVIOUS
<1>1. tick \in Nat
  BY LimitNumbers DEF LimitInv
<1>2. ASSUME NEW k \in DOMAIN entries
      PROVE  /\ Since(entries[k], tick - WindowTicks + 1) <= 2 * LimitOf(k)
             /\ k \in DOMAIN TableOf(k) =>
                  /\ TableOf(k)[k].start \in 0..tick /\ TableOf(k)[k].count \in Nat
                  /\ TableOf(k)[k].count = Since(entries[k], TableOf(k)[k].start)
                  /\ TableOf(k)[k].count <= LimitOf(k)
  <2>1. PICK tab : tab = TableOf(k)
    OBVIOUS
  <2>2. PICK h : h = entries[k]
    OBVIOUS
  <2>3. PICK t : t = tick
    OBVIOUS
  <2>4. h \in Seq(Nat) /\ t \in Nat /\ LimitOf(k) \in Nat
    BY <1>1, <2>2, <2>3, LimitNumbers DEF LimitInv
  <2>5. KeyOK(tab, h, t, k)
    BY <2>1, <2>2, <2>3 DEF LimitInv
  <2> QED
    BY <2>1, <2>2, <2>3, <2>4, <2>5, KeyKept
<1>3. \A k \in DOMAIN counters : k \in DOMAIN entries /\ TableOf(k) = counters
  BY DEF LimitInv, TableOf
<1>4. \A k \in DOMAIN logins : k \in DOMAIN entries /\ TableOf(k) = logins
  BY DEF LimitInv, TableOf
<1>5. LimitTypeOK
  BY <1>2, <1>3, <1>4 DEF LimitInv, LimitTypeOK
<1>6. QuotasHold
  BY <1>2, <1>3, <1>4 DEF LimitInv, QuotasHold, Since, TableOf
<1> QED
  BY <1>5, <1>6

LEMMA LimitStarts == LimitInit => LimitInv
<1> SUFFICES ASSUME LimitInit PROVE LimitInv
  OBVIOUS
<1>1. DOMAIN counters = {} /\ DOMAIN logins = {} /\ DOMAIN entries = {}
  BY DEF LimitInit, NoCounters
<1>2. tick \in 0..MaxTick /\ asked \in 0..(SweepEvery - 1)
  BY LimitNumbers DEF LimitInit
<1> QED
  BY <1>1, <1>2, LimitNumbers, FS_EmptySet DEF LimitInv

LEMMA LimitTickInv ==
    ASSUME LimitInv, LimitTick
    PROVE  LimitInv'
<1>1. /\ tick \in Nat /\ tick' = tick + 1 /\ tick' \in 0..MaxTick
      /\ UNCHANGED <<counters, logins, asked, entries>>
  BY LimitNumbers DEF LimitInv, LimitTick
<1>2. ASSUME NEW k \in DOMAIN entries PROVE KeyOK(TableOf(k), entries[k], tick, k)'
  <2>1. PICK tab : tab = TableOf(k)
    OBVIOUS
  <2>2. PICK h : h = entries[k]
    OBVIOUS
  <2>3. PICK t : t = tick
    OBVIOUS
  <2>4. PICK u : u = tick'
    OBVIOUS
  <2>5. h \in Seq(Nat) /\ t \in Nat /\ u \in Nat /\ t <= u
    BY <1>1, <2>2, <2>3, <2>4 DEF LimitInv
  <2>6. KeyOK(tab, h, t, k)
    BY <2>1, <2>2, <2>3 DEF LimitInv
  <2>7. KeyOK(tab, h, u, k)
    BY <2>5, <2>6, KeySwept
  <2> QED
    BY <1>1, <2>1, <2>2, <2>4, <2>7 DEF TableOf
<1> QED
  BY <1>1, <1>2 DEF LimitInv

LEMMA RestartLimitsInv ==
    ASSUME LimitInv, RestartLimits
    PROVE  LimitInv'
<1>1. DOMAIN counters' = {} /\ DOMAIN logins' = {} /\ DOMAIN entries' = {}
  BY DEF RestartLimits, NoCounters
<1>2. tick' \in 0..MaxTick /\ asked' \in 0..(SweepEvery - 1)
  BY LimitNumbers DEF RestartLimits, LimitInv
<1> QED
  BY <1>1, <1>2, LimitNumbers, FS_EmptySet DEF LimitInv

(* A request counts three keys at most.                                    *)
LEMMA KeysFacts ==
    ASSUME NEW r \in HttpRequests
    PROVE  /\ IsFiniteSet(CountedKeys(r)) /\ Cardinality(CountedKeys(r)) <= 3
           /\ \A k \in CountedKeys(r) : k[1] # "login" /\ k[1] \in DOMAIN Quota
           /\ Cardinality(CountedKeys(r)) \in Nat
           /\ "login" \in DOMAIN Quota
<1>1. PICK ids : ids = r.identities
  OBVIOUS
<1>2. IsFiniteSet(ids) /\ Cardinality(ids) <= 2 /\ Cardinality(ids) \in Nat
  BY <1>1, LimitAssumption, FS_CardinalityType
<1>3. PICK T : T = {<<r.bucket, i>> : i \in ids}
  OBVIOUS
<1>4. PICK f : f = [i \in ids |-> <<r.bucket, i>>]
  OBVIOUS
<1>5. f \in Surjection(ids, T)
  BY <1>3, <1>4 DEF Surjection
<1>6. IsFiniteSet(T) /\ Cardinality(T) <= Cardinality(ids) /\ Cardinality(T) \in Nat
  BY <1>2, <1>5, FS_Surjection, FS_CardinalityType
<1>7. CountedKeys(r) = T \cup {<<"global", "all">>}
  BY <1>1, <1>3 DEF CountedKeys
<1>8. /\ IsFiniteSet(CountedKeys(r)) /\ Cardinality(CountedKeys(r)) <= 3
      /\ Cardinality(CountedKeys(r)) \in Nat
  <2>1. PICK x : x = <<"global", "all">>
    OBVIOUS
  <2>2. /\ IsFiniteSet(T \cup {x}) /\ Cardinality(T) \in Nat /\ Cardinality(T) <= 2
        /\ Cardinality(T \cup {x}) = IF x \in T THEN Cardinality(T) ELSE Cardinality(T) + 1
    BY <1>2, <1>6, FS_AddElement
  <2>3. CountedKeys(r) = T \cup {x}
    BY <1>7, <2>1
  <2> QED
    BY <2>2, <2>3
<1>9. r.bucket # "login" /\ r.bucket \in DOMAIN Quota /\ "global" \in DOMAIN Quota
      /\ "login" \in DOMAIN Quota
  BY LimitAssumption
<1> QED
  BY <1>3, <1>7, <1>8, <1>9

LEMMA RecordedFacts ==
    ASSUME NEW keys, entries' = Recorded(entries, keys), NEW k
    PROVE  /\ k \in DOMAIN entries' <=> k \in DOMAIN entries \/ k \in keys
           /\ k \in DOMAIN entries /\ k \notin keys => entries'[k] = entries[k]
           /\ k \in keys /\ k \in DOMAIN entries => entries'[k] = Append(entries[k], tick)
           /\ k \in keys /\ k \notin DOMAIN entries => entries'[k] = Append(<<>>, tick)
  BY DEF Recorded

(* What a request does to a table and to the history of one of its keys.   *)
LEMMA HistoryStep ==
    ASSUME LimitInv, NEW tab, NEW mid, SweptOrNot(tab, mid),
           NEW keys, NEW new, new = CountOnce(mid, keys) \/ (keys = {} /\ new = mid),
           NEW all, entries' = Recorded(entries, all), NEW k,
           k \in keys => ~Spent(mid, k) /\ k[1] \in DOMAIN Quota,
           k \in keys <=> k \in all, k \in DOMAIN entries \/ k \in all,
           k \in DOMAIN entries => TableOf(k) = tab,
           k \in DOMAIN tab => k \in DOMAIN entries
    PROVE  /\ k[1] \in DOMAIN Quota /\ entries'[k] \in Seq(Nat)
           /\ KeyOK(new, entries'[k], tick, k)
<1>1. tick \in Nat
  BY LimitNumbers DEF LimitInv
<1>2. k[1] \in DOMAIN Quota
  BY DEF LimitInv
<1>3. k \in keys => ~Spent(mid, k) /\ LimitOf(k) \in Nat \ {0}
  BY LimitNumbers
<1>4. /\ \A h \in Seq(Nat) : KeyOK(tab, h, tick, k) /\ k \notin keys => KeyOK(new, h, tick, k)
      /\ \A h \in Seq(Nat) : KeyOK(tab, h, tick, k) /\ k \in keys =>
            KeyOK(new, Append(h, tick), tick, k)
      /\ k \in keys /\ k \notin DOMAIN tab => KeyOK(new, Append(<<>>, tick), tick, k)
  BY <1>1, <1>3, TableStep
<1>5. CASE k \in DOMAIN entries
  <2>1. entries[k] \in Seq(Nat) /\ KeyOK(tab, entries[k], tick, k)
    BY <1>5 DEF LimitInv
  <2>2. Append(entries[k], tick) \in Seq(Nat)
    BY <1>1, <2>1
  <2>3. entries'[k] = IF k \in keys THEN Append(entries[k], tick) ELSE entries[k]
    BY <1>5, RecordedFacts
  <2> QED
    BY <1>2, <1>4, <2>1, <2>2, <2>3
<1>6. CASE k \notin DOMAIN entries
  <2>1. k \in keys /\ k \in all
    BY <1>6
  <2>2. entries'[k] = Append(<<>>, tick)
    BY <1>6, <2>1, RecordedFacts
  <2>3. Append(<<>>, tick) \in Seq(Nat)
    BY <1>1
  <2> QED
    BY <1>2, <1>4, <1>6, <2>1, <2>2, <2>3
<1> QED
  BY <1>5, <1>6

LEMMA RequestInv ==
    ASSUME LimitInv, NEW r \in HttpRequests, Request(r)
    PROVE  LimitInv'
<1>1. PICK key : key = <<"login", r.name>>
  OBVIOUS
<1>2. PICK named \in BOOLEAN : named <=> Admits(r) /\ r.name # NoName
  OBVIOUS
<1>3. PICK keys : keys = IF Admits(r) THEN CountedKeys(r) ELSE {}
  OBVIOUS
<1>4. PICK names : names = IF named /\ AllowsName(key) THEN {key} ELSE {}
  OBVIOUS
<1>5. PICK all : all = keys \cup names
  OBVIOUS
<1>6. /\ counters' = IF IsFull(Swept) THEN Swept ELSE Counted(Swept, CountedKeys(r))
      /\ logins' = IF ~named THEN logins
                   ELSE IF IsFull(LoginsSwept) THEN LoginsSwept ELSE Counted(LoginsSwept, {key})
      /\ asked' = Numbered /\ entries' = Recorded(entries, all) /\ tick' = tick
  BY <1>1, <1>2, <1>3, <1>4, <1>5 DEF Request
<1>7. SweptOrNot(counters, Swept) /\ SweptOrNot(logins, LoginsSwept) /\ SweptOrNot(logins, logins)
  BY DEF SweptOrNot, Swept, LoginsSwept
<1>8. /\ counters' = CountOnce(Swept, keys) \/ (keys = {} /\ counters' = Swept)
      /\ \A k \in keys : ~Spent(Swept, k)
      /\ keys # {} => ~IsFull(Swept)
  <2>1. CASE Admits(r)
    BY <1>3, <1>6, <2>1 DEF Admits, Counted
  <2>2. CASE ~Admits(r)
    BY <1>3, <1>6, <2>2 DEF Admits, Counted
  <2> QED
    BY <2>1, <2>2
<1>9. PICK mid : mid = IF named THEN LoginsSwept ELSE logins
  OBVIOUS
<1>10. /\ logins' = CountOnce(mid, names) \/ (names = {} /\ logins' = mid)
       /\ \A k \in names : ~Spent(mid, k)
  <2>1. CASE named /\ AllowsName(key)
    BY <1>4, <1>6, <1>9, <2>1 DEF AllowsName, Counted
  <2>2. CASE named /\ ~AllowsName(key)
    BY <1>4, <1>6, <1>9, <2>2 DEF AllowsName, Counted
  <2>3. CASE ~named
    BY <1>4, <1>6, <1>9, <2>3
  <2> QED
    BY <2>1, <2>2, <2>3
<1>11. SweptOrNot(logins, mid)
  BY <1>7, <1>9
<1>12. /\ \A k \in keys : k[1] # "login" /\ k[1] \in DOMAIN Quota
       /\ \A k \in names : k[1] = "login" /\ k[1] \in DOMAIN Quota
       /\ IsFiniteSet(keys) /\ Cardinality(keys) <= 3 /\ Cardinality(keys) \in Nat
  BY <1>1, <1>3, <1>4, KeysFacts, FS_EmptySet
<1>13. ASSUME NEW k, k \in DOMAIN entries \/ k \in all
       PROVE  k[1] \in DOMAIN Quota /\ entries'[k] \in Seq(Nat) /\ KeyOK(TableOf(k), entries[k], tick, k)'
  <2>1. CASE k[1] = "login"
    <3>1. PICK tab : tab = logins
      OBVIOUS
    <3>2. PICK new : new = logins'
      OBVIOUS
    <3>3. /\ k \in names <=> k \in all
          /\ k \in DOMAIN entries => TableOf(k) = tab
          /\ k \in DOMAIN tab => k \in DOMAIN entries
          /\ TableOf(k)' = new
      BY <1>5, <1>12, <2>1, <3>1, <3>2 DEF TableOf, LimitInv
    <3>4. /\ SweptOrNot(tab, mid)
          /\ new = CountOnce(mid, names) \/ (names = {} /\ new = mid)
      BY <1>10, <1>11, <3>1, <3>2
    <3>5. k \in names => ~Spent(mid, k) /\ k[1] \in DOMAIN Quota
      BY <1>10, <1>12
    <3>6. k[1] \in DOMAIN Quota /\ entries'[k] \in Seq(Nat) /\ KeyOK(new, entries'[k], tick, k)
      BY <1>6, <1>13, <3>3, <3>4, <3>5, HistoryStep
    <3> QED
      BY <1>6, <3>3, <3>6
  <2>2. CASE k[1] # "login"
    <3>1. PICK tab : tab = counters
      OBVIOUS
    <3>2. PICK new : new = counters'
      OBVIOUS
    <3>0. PICK half : half = Swept
      OBVIOUS
    <3>3. /\ k \in keys <=> k \in all
          /\ k \in DOMAIN entries => TableOf(k) = tab
          /\ k \in DOMAIN tab => k \in DOMAIN entries
          /\ TableOf(k)' = new
      BY <1>5, <1>12, <2>2, <3>1, <3>2 DEF TableOf, LimitInv
    <3>4. /\ SweptOrNot(tab, half)
          /\ new = CountOnce(half, keys) \/ (keys = {} /\ new = half)
      BY <1>7, <1>8, <3>0, <3>1, <3>2
    <3>5. k \in keys => ~Spent(half, k) /\ k[1] \in DOMAIN Quota
      BY <1>8, <1>12, <3>0
    <3>6. k[1] \in DOMAIN Quota /\ entries'[k] \in Seq(Nat) /\ KeyOK(new, entries'[k], tick, k)
      BY <1>6, <1>13, <3>3, <3>4, <3>5, HistoryStep
    <3> QED
      BY <1>6, <3>3, <3>6
  <2> QED
    BY <2>1, <2>2
<1>14. \A k : k \in DOMAIN entries' <=> k \in DOMAIN entries \/ k \in all
  BY <1>6, RecordedFacts
<1>15. \A k : /\ k \in DOMAIN counters' => k \in DOMAIN Swept \/ k \in keys
              /\ k \in DOMAIN logins' => k \in DOMAIN mid \/ k \in names
  BY <1>8, <1>10 DEF CountOnce
<1>16. /\ \A k \in DOMAIN Swept : k \in DOMAIN counters
       /\ \A k \in DOMAIN mid : k \in DOMAIN logins
  BY <1>7, <1>11, SweptFacts
<1>17. /\ \A k \in DOMAIN counters' : k \in DOMAIN entries' /\ k[1] # "login"
       /\ \A k \in DOMAIN logins' : k \in DOMAIN entries' /\ k[1] = "login"
  BY <1>5, <1>12, <1>14, <1>15, <1>16 DEF LimitInv
<1>18. IsFiniteSet(DOMAIN counters') /\ Cardinality(DOMAIN counters') <= MaxCounters + 2
  <2>1. PICK D : D = DOMAIN Swept
    OBVIOUS
  <2>2. PICK E : E = DOMAIN counters'
    OBVIOUS
  <2>3. PICK C : C = DOMAIN counters
    OBVIOUS
  <2>4. IsFiniteSet(C) /\ Cardinality(C) <= MaxCounters + 2 /\ Cardinality(C) \in Nat
    BY <2>3, FS_CardinalityType DEF LimitInv
  <2>5. IsFiniteSet(D) /\ Cardinality(D) \in Nat /\ Cardinality(D) <= Cardinality(C)
    <3>1. D \subseteq C
      BY <1>16, <2>1, <2>3
    <3> QED
      BY <2>4, <3>1, FS_Subset, FS_CardinalityType
  <2>6. MaxCounters \in Nat
    BY LimitNumbers
  <2>7. CASE keys = {}
    <3>1. E \subseteq D
      BY <1>15, <2>1, <2>2, <2>7
    <3>2. IsFiniteSet(E) /\ Cardinality(E) <= Cardinality(D) /\ Cardinality(E) \in Nat
      BY <2>5, <3>1, FS_Subset, FS_CardinalityType
    <3> QED
      BY <2>2, <2>4, <2>5, <2>6, <3>2
  <2>8. CASE keys # {}
    <3>1. ~(Cardinality(D) >= MaxCounters)
      BY <1>8, <2>1, <2>8 DEF IsFull
    <3>2. E \subseteq D \cup keys
      BY <1>15, <2>1, <2>2
    <3>3. IsFiniteSet(D \cup keys) /\ IsFiniteSet(D \cap keys) /\ Cardinality(D \cap keys) \in Nat
      BY <1>12, <2>5, FS_Union, FS_Intersection, FS_CardinalityType
    <3>4. Cardinality(D \cup keys) = Cardinality(D) + Cardinality(keys) - Cardinality(D \cap keys)
      BY <1>12, <2>5, FS_Union
    <3>5. IsFiniteSet(E) /\ Cardinality(E) <= Cardinality(D \cup keys) /\ Cardinality(E) \in Nat
      BY <3>2, <3>3, FS_Subset, FS_CardinalityType
    <3>6. Cardinality(E) <= MaxCounters + 2
      BY <1>12, <2>5, <2>6, <3>1, <3>3, <3>4, <3>5
    <3> QED
      BY <2>2, <3>5, <3>6
  <2> QED
    BY <2>7, <2>8
<1>19. asked' \in 0..(SweepEvery - 1)
  <2>1. asked \in 0..(SweepEvery - 1) /\ SweepEvery \in Nat /\ SweepEvery # 0
    BY LimitNumbers DEF LimitInv
  <2>2. (asked + 1) % SweepEvery \in 0..(SweepEvery - 1)
    BY <2>1
  <2> QED
    BY <1>6, <2>1, <2>2 DEF Numbered
<1> QED
  BY <1>6, <1>13, <1>14, <1>17, <1>18, <1>19 DEF LimitInv

LEMMA LimitNextInv ==
    ASSUME LimitInv, [LimitNext]_limitVars
    PROVE  LimitInv'
<1>1. CASE UNCHANGED limitVars
  BY <1>1 DEF limitVars, LimitInv, TableOf
<1> QED
  BY <1>1, RequestInv, LimitTickInv, RestartLimitsInv DEF LimitNext

(* What QuotasHold says holds for every quota, window and capacity.        *)
THEOREM QuotasAreKept == LimitSpec => []QuotasHold
<1>1. LimitInit => LimitInv
  BY LimitStarts
<1>2. LimitInv /\ [LimitNext]_limitVars => LimitInv'
  BY LimitNextInv
<1>3. LimitInv => QuotasHold
  BY LimitKept
<1> QED
  BY <1>1, <1>2, <1>3, PTL DEF LimitSpec

(* The windows of both tables have their types.                            *)
THEOREM LimitTypesHold == LimitSpec => []LimitTypeOK
<1>1. LimitInit => LimitInv
  BY LimitStarts
<1>2. LimitInv /\ [LimitNext]_limitVars => LimitInv'
  BY LimitNextInv
<1>3. LimitInv => LimitTypeOK
  BY LimitKept
<1> QED
  BY <1>1, <1>2, <1>3, PTL DEF LimitSpec

-----------------------------------------------------------------------------
(* Migrations and backup: the scripts of a file and its schema_migrations  *)
(* rows always count up from 1 together; no process believes in a version  *)
(* its file has not reached, so the row a late one wants to write is there *)
(* already and its script rolls back.                                      *)

CopyStages == {"closed", "migrating", "migrated", "serving"}
Files == [ran : Seq(Nat), listed : SUBSET Nat, state : {"absent", "torn", "whole"}]
Handles == [stage : CopyStages, version : Nat]
Tools == [does : {"nothing", "backup", "copy", "migrate"}, latest : Nat]

(* The file has exactly the first n scripts, and lists them.               *)
HasFirst(file, n) == file.listed = 1..n /\ file.ran = [i \in 1..n |-> i]
Ordered(file) == \E n \in Nat : HasFirst(file, n)

(* What a process that opened the database may rely on.                    *)
OpenerKnows(p) ==
    /\ opener[p].stage # "closed" => opener[p].version <= VersionOf(disk["live"])
    /\ opener[p].stage = "serving" => VersionOf(disk["live"]) >= LatestOf[p]

(* The restored copy has one writer at a time, who knows its version.      *)
RestorerKnows ==
    /\ restorer.stage # "closed" => /\ disk["restored"].state # "absent"
                                    /\ restorer.version = VersionOf(disk["restored"])
    /\ copier.does = "copy" => disk["backup"].state # "absent"

MigrationInv ==
    /\ MigrationTypeOK
    /\ \A f \in FileNames : Ordered(disk[f])
    /\ \A p \in Openers : OpenerKnows(p)
    /\ RestorerKnows

(* The version of a file with the first n scripts is n.                    *)
LEMMA VersionOfFirst ==
    ASSUME NEW file, NEW n \in Nat, HasFirst(file, n)
    PROVE  VersionOf(file) = n
<1>1. \A x \in {0} \cup 1..n : n >= x
  OBVIOUS
<1>2. n \in {0} \cup 1..n
  OBVIOUS
<1>3. \A m \in {0} \cup 1..n : (\A x \in {0} \cup 1..n : m >= x) => m = n
  BY <1>1, <1>2
<1>4. Max({0} \cup 1..n) = n
  BY <1>1, <1>2, <1>3 DEF Max
<1> QED
  BY <1>4 DEF VersionOf, HasFirst

LEMMA VersionOfOrdered ==
    ASSUME NEW file, Ordered(file)
    PROVE  VersionOf(file) \in Nat /\ HasFirst(file, VersionOf(file))
BY VersionOfFirst DEF Ordered

(* The next script keeps the scripts in order, and raises the version.     *)
LEMMA ScriptKeepsOrder ==
    ASSUME NEW file \in Files, NEW n \in Nat, HasFirst(file, n)
    PROVE  /\ WithScript(file, n + 1) \in Files
           /\ HasFirst(WithScript(file, n + 1), n + 1)
           /\ WithScript(file, n + 1).state = file.state
<1>1. file.ran \in Seq(Nat) /\ Len(file.ran) = n /\ \A i \in 1..n : file.ran[i] = i
  BY DEF Files, HasFirst
<1>2. Append(file.ran, n + 1) = [i \in 1..(n + 1) |-> i]
  BY <1>1
<1>3. file.listed \cup {n + 1} = 1..(n + 1)
  BY DEF HasFirst
<1>4. WithScript(file, n + 1).ran = Append(file.ran, n + 1)
  BY DEF WithScript, Files
<1>5. WithScript(file, n + 1).listed = file.listed \cup {n + 1}
  BY DEF WithScript, Files
<1>6. WithScript(file, n + 1).state = file.state
  BY DEF WithScript, Files
<1>7. Append(file.ran, n + 1) \in Seq(Nat) /\ file.listed \cup {n + 1} \in SUBSET Nat
  BY <1>1 DEF Files
<1>8. WithScript(file, n + 1) \in Files
  BY <1>7 DEF WithScript, Files
<1> QED
  BY <1>2, <1>3, <1>4, <1>5, <1>6, <1>8 DEF HasFirst

(* A script commits exactly for the process that knows the version.        *)
LEMMA CommitsNext ==
    ASSUME NEW file, NEW n \in Nat, HasFirst(file, n), NEW v \in Nat, v <= n
    PROVE  Commits(file, v + 1) <=> v = n
BY DEF Commits, HasFirst

LEMMA EmptyIsOrdered ==
    /\ EmptyFile \in Files /\ NoFile \in Files /\ Torn \in Files
    /\ HasFirst(EmptyFile, 0) /\ HasFirst(NoFile, 0) /\ HasFirst(Torn, 0)
    /\ NoFile.state = "absent" /\ EmptyFile.state = "whole" /\ Torn.state = "torn"
<1>1. <<>> = [i \in 1..0 |-> i] /\ <<>> \in Seq(Nat)
  OBVIOUS
<1>2. 1..0 = {}
  OBVIOUS
<1>3. EmptyFile \in Files /\ EmptyFile.ran = <<>> /\ EmptyFile.listed = {}
  BY <1>1 DEF EmptyFile, Files
<1>4. /\ NoFile \in Files /\ NoFile.ran = <<>> /\ NoFile.listed = {}
      /\ NoFile.state = "absent"
  BY <1>3 DEF NoFile, Files
<1>5. /\ Torn \in Files /\ Torn.ran = <<>> /\ Torn.listed = {} /\ Torn.state = "torn"
  BY <1>3 DEF Torn, Files
<1>6. HasFirst(EmptyFile, 0) /\ HasFirst(NoFile, 0) /\ HasFirst(Torn, 0)
  BY <1>1, <1>2, <1>3, <1>4, <1>5 DEF HasFirst
<1> QED
  BY <1>3, <1>4, <1>5, <1>6 DEF EmptyFile

LEMMA TypeParts ==
    MigrationTypeOK <=> /\ disk \in [FileNames -> Files]
                        /\ opener \in [Openers -> Handles]
                        /\ copier \in Tools /\ restorer \in Handles
BY DEF MigrationTypeOK, Files, Handles, Tools, CopyStages

LEMMA MigrationInitInv == MigrationInit => MigrationInv
<1> SUFFICES ASSUME MigrationInit PROVE MigrationInv
  OBVIOUS
<1>1. disk \in [FileNames -> Files] /\ \A f \in FileNames : Ordered(disk[f])
  BY EmptyIsOrdered DEF MigrationInit, Ordered
<1>2. opener \in [Openers -> Handles] /\ copier \in Tools /\ restorer \in Handles
  BY DEF MigrationInit, Handles, Tools, Closed, NoTool, CopyStages
<1>3. \A p \in Openers : OpenerKnows(p)
  BY DEF MigrationInit, OpenerKnows, Closed
<1>4. RestorerKnows
  BY DEF MigrationInit, RestorerKnows, Closed, NoTool
<1> QED
  BY <1>1, <1>2, <1>3, <1>4, TypeParts DEF MigrationInv

-----------------------------------------------------------------------------
(* Processes of the server's kind                                          *)

(* A file that was just read: what Begun hands out knows its version.      *)
LEMMA BegunKnows ==
    ASSUME NEW file, Ordered(file), NEW latest \in Nat
    PROVE  /\ Begun(file, latest) \in Handles
           /\ Begun(file, latest).stage # "serving"
           /\ Begun(file, latest).stage # "closed" =>
                  Begun(file, latest).version = VersionOf(file)
BY VersionOfOrdered DEF Begun, Closed, Handles, CopyStages

LEMMA SteppedKnows ==
    ASSUME NEW file \in Files, NEW latest \in Nat, NEW handle \in Handles,
           Ordered(file), handle.version <= VersionOf(file)
    PROVE  /\ Stepped(handle, file, latest) \in Handles
           /\ Stepped(handle, file, latest).stage # "serving"
           /\ Stepped(handle, file, latest).stage # "closed" =>
                 /\ Commits(file, handle.version + 1)
                 /\ Stepped(handle, file, latest).version = handle.version + 1
BY DEF Stepped, Closed, Handles, CopyStages

(* The file after a script that may or may not commit.                     *)
LEMMA ScriptEffect ==
    ASSUME NEW file \in Files, Ordered(file), NEW v \in Nat, v <= VersionOf(file),
           Commits(file, v + 1)
    PROVE  /\ v = VersionOf(file)
           /\ WithScript(file, v + 1) \in Files
           /\ Ordered(WithScript(file, v + 1))
           /\ VersionOf(WithScript(file, v + 1)) = v + 1
           /\ WithScript(file, v + 1).state = file.state
<1> DEFINE n == VersionOf(file)
           g == WithScript(file, v + 1)
<1>1. n \in Nat /\ HasFirst(file, n)
  BY VersionOfOrdered
<1>2. v = n
  BY <1>1, CommitsNext
<1>3. g \in Files /\ HasFirst(g, v + 1) /\ g.state = file.state
  BY <1>1, <1>2, ScriptKeepsOrder
<1>4. VersionOf(g) = v + 1 /\ Ordered(g)
  BY <1>3, VersionOfFirst DEF Ordered
<1> QED
  BY <1>2, <1>3, <1>4

(* One file of the three is written.                                       *)
LEMMA FileWritten ==
    ASSUME MigrationInv, NEW f \in FileNames, NEW file \in Files, Ordered(file),
           disk' = [disk EXCEPT ![f] = file]
    PROVE  /\ disk' \in [FileNames -> Files] /\ disk'[f] = file
           /\ \A g \in FileNames \ {f} : disk'[g] = disk[g]
           /\ \A g \in FileNames : Ordered(disk[g])'
<1>1. disk \in [FileNames -> Files]
  BY TypeParts DEF MigrationInv
<1>2. disk'[f] = file /\ \A g \in FileNames \ {f} : disk'[g] = disk[g]
  BY <1>1
<1>3. \A g \in FileNames : Ordered(disk[g])'
  <2> SUFFICES ASSUME NEW g \in FileNames PROVE Ordered(disk'[g])
    BY DEF Ordered, HasFirst
  <2>1. CASE g = f
    BY <2>1, <1>2
  <2>2. CASE g # f
    BY <2>2, <1>2 DEF MigrationInv
  <2> QED BY <2>1, <2>2
<1> QED
  BY <1>1, <1>2, <1>3

LEMMA LatestIsNat == \A p \in Openers : LatestOf[p] \in Nat
BY MigrationAssumption

LEMMA ToolReleaseIsNat == \A latest \in ToolReleases : latest \in Nat
BY MigrationAssumption

LEMMA OpenKeeps ==
    ASSUME MigrationInv, NEW p \in Openers, Open(p)
    PROVE  MigrationInv'
<1> DEFINE begun == Begun(disk["live"], LatestOf[p])
<1>0. Ordered(disk["live"]) /\ disk \in [FileNames -> Files] /\ opener \in [Openers -> Handles]
  BY TypeParts DEF MigrationInv, FileNames
<1>1. begun \in Handles /\ begun.stage # "serving"
        /\ (begun.stage # "closed" => begun.version = VersionOf(disk["live"]))
  BY <1>0, BegunKnows, LatestIsNat
<1>2. VersionOf(disk["live"]) \in Nat
  BY <1>0, VersionOfOrdered
<1>3. opener' = [opener EXCEPT ![p] = begun] /\ UNCHANGED <<disk, copier, restorer>>
  BY DEF Open
<1> HIDE DEF begun
<1>4. opener' \in [Openers -> Handles]
  BY <1>0, <1>1, <1>3
<1>5. MigrationTypeOK'
  BY <1>3, <1>4 DEF MigrationInv, MigrationTypeOK, Handles, CopyStages
<1>6. \A q \in Openers : OpenerKnows(q)'
  <2> SUFFICES ASSUME NEW q \in Openers PROVE OpenerKnows(q)'
    OBVIOUS
  <2>1. CASE q = p
    BY <2>1, <1>0, <1>1, <1>2, <1>3 DEF OpenerKnows, VersionOf
  <2>2. CASE q # p
    BY <2>2, <1>0, <1>3 DEF MigrationInv, OpenerKnows, VersionOf
  <2> QED BY <2>1, <2>2
<1> QED
  BY <1>3, <1>5, <1>6 DEF MigrationInv, RestorerKnows, Ordered, HasFirst, VersionOf

LEMMA RunScriptKeeps ==
    ASSUME MigrationInv, NEW p \in Openers, RunScript(p)
    PROVE  MigrationInv'
<1> DEFINE live == disk["live"]
           v == opener[p].version
           next == Stepped(opener[p], live, LatestOf[p])
           after == IF Commits(live, v + 1) THEN WithScript(live, v + 1) ELSE live
<1>0. /\ disk \in [FileNames -> Files] /\ opener \in [Openers -> Handles]
      /\ live \in Files /\ Ordered(live) /\ opener[p] \in Handles /\ v \in Nat
      /\ v <= VersionOf(live)
  BY TypeParts DEF MigrationInv, FileNames, RunScript, OpenerKnows, Handles
<1>1. next \in Handles /\ next.stage # "serving"
        /\ (next.stage # "closed" => Commits(live, v + 1) /\ next.version = v + 1)
  BY <1>0, SteppedKnows, LatestIsNat
<1>2. after \in Files /\ Ordered(after) /\ after.state = live.state
        /\ VersionOf(after) >= VersionOf(live) /\ VersionOf(after) \in Nat
        /\ (Commits(live, v + 1) => VersionOf(after) = v + 1)
  BY <1>0, ScriptEffect, VersionOfOrdered
<1>3. disk' = [disk EXCEPT !["live"] = after]
  BY <1>0 DEF RunScript
<1>4. opener' = [opener EXCEPT ![p] = next] /\ UNCHANGED <<copier, restorer>>
  BY DEF RunScript
<1>5. VersionOf(live) \in Nat
  BY <1>0, VersionOfOrdered
<1> HIDE DEF next, after
<1>6. /\ disk' \in [FileNames -> Files] /\ disk'["live"] = after
      /\ \A f \in FileNames \ {"live"} : disk'[f] = disk[f]
      /\ \A f \in FileNames : Ordered(disk[f])'
  BY <1>2, <1>3, FileWritten DEF FileNames
<1>7. MigrationTypeOK'
  <2>1. opener' \in [Openers -> Handles]
    BY <1>0, <1>1, <1>4
  <2> QED
    BY <2>1, <1>4, <1>6 DEF MigrationInv, MigrationTypeOK, Handles, Files, CopyStages
<1>8. \A q \in Openers : OpenerKnows(q)'
  <2> SUFFICES ASSUME NEW q \in Openers PROVE OpenerKnows(q)'
    OBVIOUS
  <2>0. VersionOf(disk["live"])' = VersionOf(after)
    BY <1>6 DEF VersionOf
  <2>1. CASE q = p
    BY <2>0, <2>1, <1>0, <1>1, <1>2, <1>4 DEF OpenerKnows
  <2>2. CASE q # p
    BY <2>0, <2>2, <1>0, <1>2, <1>4, <1>5, LatestIsNat DEF MigrationInv, OpenerKnows, Handles
  <2> QED BY <2>1, <2>2
<1>9. RestorerKnows'
  BY <1>4, <1>6 DEF MigrationInv, RestorerKnows, VersionOf, FileNames
<1> QED
  BY <1>6, <1>7, <1>8, <1>9 DEF MigrationInv

LEMMA AssertReadyKeeps ==
    ASSUME MigrationInv, NEW p \in Openers, AssertReady(p)
    PROVE  MigrationInv'
<1> DEFINE next == IF VersionOf(disk["live"]) = LatestOf[p]
                   THEN [opener[p] EXCEPT !.stage = "serving"] ELSE Closed
<1>0. opener \in [Openers -> Handles] /\ opener[p] \in Handles /\ Ordered(disk["live"])
  BY TypeParts DEF MigrationInv, FileNames
<1>1. VersionOf(disk["live"]) \in Nat
  BY <1>0, VersionOfOrdered
<1>2. next \in Handles
        /\ (next.stage # "closed" => /\ next.version = opener[p].version
                                     /\ VersionOf(disk["live"]) = LatestOf[p])
  BY <1>0 DEF Handles, Closed, CopyStages
<1>3. opener' = [opener EXCEPT ![p] = next] /\ UNCHANGED <<disk, copier, restorer>>
  BY DEF AssertReady
<1> HIDE DEF next
<1>4. MigrationTypeOK'
  <2>1. opener' \in [Openers -> Handles]
    BY <1>0, <1>2, <1>3
  <2> QED
    BY <2>1, <1>3 DEF MigrationInv, MigrationTypeOK, Handles, CopyStages
<1>5. \A q \in Openers : OpenerKnows(q)'
  <2> SUFFICES ASSUME NEW q \in Openers PROVE OpenerKnows(q)'
    OBVIOUS
  <2>1. CASE q = p
    <3>1. opener[p].version <= VersionOf(disk["live"])
      BY DEF MigrationInv, OpenerKnows, AssertReady
    <3> QED
      BY <3>1, <2>1, <1>0, <1>1, <1>2, <1>3 DEF OpenerKnows, VersionOf
  <2>2. CASE q # p
    BY <2>2, <1>0, <1>3 DEF MigrationInv, OpenerKnows, VersionOf
  <2> QED BY <2>1, <2>2
<1> QED
  BY <1>3, <1>4, <1>5 DEF MigrationInv, RestorerKnows, Ordered, HasFirst, VersionOf

LEMMA CloseKeeps ==
    ASSUME MigrationInv, NEW p \in Openers, Close(p)
    PROVE  MigrationInv'
<1>0. opener \in [Openers -> Handles] /\ Closed \in Handles /\ Closed.stage = "closed"
  BY TypeParts DEF MigrationInv, Closed, Handles, CopyStages
<1>1. opener' = [opener EXCEPT ![p] = Closed] /\ UNCHANGED <<disk, copier, restorer>>
  BY DEF Close
<1>2. MigrationTypeOK'
  <2>1. opener' \in [Openers -> Handles]
    BY <1>0, <1>1
  <2> QED
    BY <2>1, <1>1 DEF MigrationInv, MigrationTypeOK, Handles, CopyStages
<1>3. \A q \in Openers : OpenerKnows(q)'
  BY <1>0, <1>1 DEF MigrationInv, OpenerKnows, VersionOf
<1> QED
  BY <1>1, <1>2, <1>3 DEF MigrationInv, RestorerKnows, Ordered, HasFirst, VersionOf

-----------------------------------------------------------------------------
(* The tools                                                               *)

(* A step that leaves the live file and its processes alone.               *)
LEMMA ToolStep ==
    ASSUME MigrationInv, opener' = opener, disk' \in [FileNames -> Files],
           disk'["live"] = disk["live"], \A f \in FileNames : Ordered(disk[f])',
           copier' \in Tools, restorer' \in Handles, RestorerKnows'
    PROVE  MigrationInv'
<1>1. MigrationTypeOK'
  BY DEF MigrationInv, MigrationTypeOK, Files, Handles, Tools, CopyStages
<1>2. \A q \in Openers : OpenerKnows(q)'
  BY DEF MigrationInv, OpenerKnows, VersionOf
<1> QED
  BY <1>1, <1>2 DEF MigrationInv

LEMMA ToolFacts ==
    ASSUME MigrationInv
    PROVE  /\ disk \in [FileNames -> Files] /\ copier \in Tools /\ restorer \in Handles
           /\ \A f \in FileNames : disk[f] \in Files /\ Ordered(disk[f])
           /\ NoTool \in Tools /\ NoTool.does = "nothing"
           /\ Closed \in Handles /\ Closed.stage = "closed"
           /\ {"live", "backup", "restored"} = FileNames
BY TypeParts DEF MigrationInv, NoTool, Closed, Tools, Handles, CopyStages, FileNames

LEMMA BeginBackupKeeps ==
    ASSUME MigrationInv, NEW latest \in ToolReleases, BeginBackup(latest)
    PROVE  MigrationInv'
<1>1. EmptyFile \in Files /\ Ordered(EmptyFile)
  BY EmptyIsOrdered DEF Ordered
<1>2. /\ disk' \in [FileNames -> Files]
      /\ disk'["live"] = disk["live"] /\ disk'["restored"] = disk["restored"]
      /\ \A f \in FileNames : Ordered(disk[f])'
  BY <1>1, FileWritten, ToolFacts DEF BeginBackup
<1>3. copier' \in Tools /\ copier'.does = "backup" /\ restorer' = restorer
  BY ToolReleaseIsNat DEF BeginBackup, Tools
<1>4. RestorerKnows'
  BY <1>2, <1>3 DEF MigrationInv, RestorerKnows, VersionOf
<1> QED
  BY <1>2, <1>3, <1>4, ToolStep, ToolFacts DEF BeginBackup

LEMMA EndBackupKeeps ==
    ASSUME MigrationInv, EndBackup
    PROVE  MigrationInv'
<1>2. /\ disk' \in [FileNames -> Files]
      /\ disk'["live"] = disk["live"] /\ disk'["restored"] = disk["restored"]
      /\ \A f \in FileNames : Ordered(disk[f])'
  BY FileWritten, ToolFacts DEF EndBackup
<1>3. copier' \in Tools /\ copier'.does = "nothing" /\ restorer' = restorer
  BY ToolFacts DEF EndBackup
<1>4. RestorerKnows'
  BY <1>2, <1>3 DEF MigrationInv, RestorerKnows, VersionOf
<1> QED
  BY <1>2, <1>3, <1>4, ToolStep, ToolFacts DEF EndBackup

LEMMA BeginRestoreKeeps ==
    ASSUME MigrationInv, NEW latest \in ToolReleases, BeginRestore(latest)
    PROVE  MigrationInv'
<1>1. Torn \in Files /\ Ordered(Torn)
  BY EmptyIsOrdered DEF Ordered
<1>2. /\ disk' \in [FileNames -> Files]
      /\ disk'["live"] = disk["live"] /\ disk'["backup"] = disk["backup"]
      /\ \A f \in FileNames : Ordered(disk[f])'
  BY <1>1, FileWritten, ToolFacts DEF BeginRestore
<1>3. copier' \in Tools /\ restorer' = restorer
  BY ToolReleaseIsNat DEF BeginRestore, Tools
<1>4. restorer.stage = "closed" /\ disk["backup"].state = "whole"
  BY DEF MigrationInv, RestorerKnows, BeginRestore
<1>5. RestorerKnows'
  BY <1>2, <1>3, <1>4 DEF RestorerKnows
<1> QED
  BY <1>2, <1>3, <1>5, ToolStep, ToolFacts DEF BeginRestore

LEMMA EndCopyKeeps ==
    ASSUME MigrationInv, EndCopy
    PROVE  MigrationInv'
<1> DEFINE backup == disk["backup"]
           begun == Begun(backup, copier.latest)
<1>0. backup \in Files /\ Ordered(backup) /\ copier.latest \in Nat /\ backup.state # "absent"
  BY ToolFacts DEF MigrationInv, RestorerKnows, EndCopy, Tools
<1>1. begun \in Handles /\ (begun.stage # "closed" => begun.version = VersionOf(backup))
  BY <1>0, BegunKnows
<1>2. /\ disk' \in [FileNames -> Files]
      /\ disk'["live"] = disk["live"] /\ disk'["restored"] = backup
      /\ \A f \in FileNames : Ordered(disk[f])'
  BY <1>0, FileWritten, ToolFacts DEF EndCopy
<1>3. copier' \in Tools /\ copier'.does # "copy"
  BY ToolFacts DEF EndCopy, Tools
<1>4. restorer' = begun /\ opener' = opener
  BY DEF EndCopy
<1> HIDE DEF begun
<1>5. RestorerKnows'
  BY <1>0, <1>1, <1>2, <1>3, <1>4 DEF RestorerKnows, VersionOf
<1> QED
  BY <1>1, <1>2, <1>3, <1>4, <1>5, ToolStep

LEMMA RestoreScriptKeeps ==
    ASSUME MigrationInv, RestoreScript
    PROVE  MigrationInv'
<1> DEFINE file == disk["restored"]
           v == restorer.version
           next == Stepped(restorer, file, copier.latest)
           after == IF Commits(file, v + 1) THEN WithScript(file, v + 1) ELSE file
<1>0. /\ file \in Files /\ Ordered(file) /\ copier.latest \in Nat /\ restorer \in Handles
      /\ v \in Nat /\ v = VersionOf(file) /\ file.state # "absent"
  BY ToolFacts DEF MigrationInv, RestorerKnows, RestoreScript, Tools, Handles
<1>1. next \in Handles
        /\ (next.stage # "closed" => Commits(file, v + 1) /\ next.version = v + 1)
  BY <1>0, SteppedKnows
<1>2. after \in Files /\ Ordered(after) /\ after.state = file.state
        /\ (Commits(file, v + 1) => VersionOf(after) = v + 1)
  BY <1>0, ScriptEffect
<1>3. disk' = [disk EXCEPT !["restored"] = after]
  BY <1>0, ToolFacts DEF RestoreScript
<1>4. restorer' = next /\ opener' = opener /\ copier' \in Tools /\ copier'.does # "copy"
  BY ToolFacts DEF RestoreScript
<1> HIDE DEF next, after
<1>5. /\ disk' \in [FileNames -> Files]
      /\ disk'["live"] = disk["live"] /\ disk'["restored"] = after
      /\ \A f \in FileNames : Ordered(disk[f])'
  BY <1>2, <1>3, FileWritten, ToolFacts
<1>6. RestorerKnows'
  BY <1>0, <1>1, <1>2, <1>4, <1>5 DEF RestorerKnows, VersionOf
<1> QED
  BY <1>1, <1>4, <1>5, <1>6, ToolStep

LEMMA EndRestoreKeeps ==
    ASSUME MigrationInv, EndRestore
    PROVE  MigrationInv'
<1>1. UNCHANGED <<disk, opener>> /\ copier' = NoTool
        /\ restorer' = [restorer EXCEPT !.stage = "serving"]
  BY DEF EndRestore
<1>2. restorer' \in Handles /\ restorer'.version = restorer.version
  BY <1>1, ToolFacts DEF Handles, CopyStages
<1>3. RestorerKnows'
  BY <1>1, <1>2, ToolFacts DEF MigrationInv, RestorerKnows, VersionOf, EndRestore
<1> QED
  BY <1>1, <1>2, <1>3, ToolStep, ToolFacts DEF Ordered, HasFirst

LEMMA ToolDiesKeeps ==
    ASSUME MigrationInv, ToolDies
    PROVE  MigrationInv'
<1>1. Torn \in Files /\ Ordered(Torn)
  BY EmptyIsOrdered DEF Ordered
<1>2. opener' = opener /\ copier' = NoTool /\ restorer' = Closed
  BY DEF ToolDies
<1>3. RestorerKnows'
  BY <1>2, ToolFacts DEF RestorerKnows
<1>4. /\ disk' \in [FileNames -> Files] /\ disk'["live"] = disk["live"]
      /\ \A f \in FileNames : Ordered(disk[f])'
  <2>1. CASE disk' = disk
    BY <2>1, ToolFacts DEF Ordered, HasFirst
  <2>2. CASE disk' = [disk EXCEPT !["backup"] = Torn]
    BY <2>2, <1>1, FileWritten, ToolFacts
  <2> QED
    BY <2>1, <2>2 DEF ToolDies
<1> QED
  BY <1>2, <1>3, <1>4, ToolStep, ToolFacts

LEMMA DiscardKeeps ==
    ASSUME MigrationInv, NEW f \in FileNames, Discard(f)
    PROVE  MigrationInv'
<1>1. NoFile \in Files /\ Ordered(NoFile)
  BY EmptyIsOrdered DEF Ordered
<1>2. disk' = [disk EXCEPT ![f] = NoFile] /\ f # "live" /\ UNCHANGED <<opener, copier>>
        /\ copier = NoTool /\ restorer' = (IF f = "restored" THEN Closed ELSE restorer)
  BY DEF Discard
<1>3. /\ disk' \in [FileNames -> Files] /\ disk'["live"] = disk["live"]
      /\ \A g \in FileNames : Ordered(disk[g])'
      /\ f # "restored" => disk'["restored"] = disk["restored"]
  BY <1>1, <1>2, FileWritten, ToolFacts
<1>4. RestorerKnows'
  BY <1>2, <1>3, ToolFacts DEF MigrationInv, RestorerKnows, VersionOf
<1> QED
  BY <1>2, <1>3, <1>4, ToolStep, ToolFacts

-----------------------------------------------------------------------------
(* The specification                                                       *)

LEMMA MigrationStep == MigrationInv /\ [MigrationNext]_migrationVars => MigrationInv'
<1> SUFFICES ASSUME MigrationInv, [MigrationNext]_migrationVars PROVE MigrationInv'
  OBVIOUS
<1>1. CASE UNCHANGED migrationVars
  BY <1>1 DEF migrationVars, MigrationInv, MigrationTypeOK, OpenerKnows, RestorerKnows,
              Ordered, HasFirst, VersionOf
<1>2. CASE \E p \in Openers : Open(p) \/ RunScript(p) \/ AssertReady(p) \/ Close(p)
  BY <1>2, OpenKeeps, RunScriptKeeps, AssertReadyKeeps, CloseKeeps
<1>3. CASE \E latest \in ToolReleases : BeginBackup(latest) \/ BeginRestore(latest)
  BY <1>3, BeginBackupKeeps, BeginRestoreKeeps
<1>4. CASE EndBackup \/ EndCopy \/ RestoreScript \/ EndRestore
  BY <1>4, EndBackupKeeps, EndCopyKeeps, RestoreScriptKeeps, EndRestoreKeeps
<1>5. CASE ToolDies \/ \E f \in FileNames : Discard(f)
  BY <1>5, ToolDiesKeeps, DiscardKeeps
<1> QED
  BY <1>1, <1>2, <1>3, <1>4, <1>5 DEF MigrationNext

LEMMA InvImpliesRunsOnce == MigrationInv => ScriptsRunOnce
<1> SUFFICES ASSUME MigrationInv PROVE ScriptsRunOnce
  OBVIOUS
<1>1. \A f \in FileNames : disk[f].ran = [i \in 1..VersionOf(disk[f]) |-> i]
  BY VersionOfOrdered DEF MigrationInv, HasFirst
<1>2. \A p \in Openers : opener[p].stage = "serving" => VersionOf(disk["live"]) >= LatestOf[p]
  BY DEF MigrationInv, OpenerKnows
<1>3. restorer.stage = "serving" => VersionOf(disk["restored"]) = restorer.version
  BY DEF MigrationInv, RestorerKnows
<1> QED
  BY <1>1, <1>2, <1>3 DEF ScriptsRunOnce

(* Whatever processes of whatever releases migrate, back up and restore at *)
(* once, and die, every script ran once and in order on every file, and    *)
(* who serves found his schema (migrate.rs, backup.rs).                    *)
THEOREM EveryScriptRunsOnce == MigrationSpec => []ScriptsRunOnce
<1>1. MigrationSpec => []MigrationInv
  BY MigrationInitInv, MigrationStep, PTL DEF MigrationSpec
<1> QED
  BY <1>1, InvImpliesRunsOnce, PTL

(* Files, processes and tools keep their types.                            *)
THEOREM MigrationTypesHold == MigrationSpec => []MigrationTypeOK
<1>1. MigrationSpec => []MigrationInv
  BY MigrationInitInv, MigrationStep, PTL DEF MigrationSpec
<1>2. MigrationInv => MigrationTypeOK
  BY DEF MigrationInv
<1> QED
  BY <1>1, <1>2, PTL

-----------------------------------------------------------------------------
(* Lists                                                                   *)

ItemType == [app : Apps, count : Nat]
ItemLists == Seq(ItemType)
PageLists == Seq(ItemLists)
VoteSets == {v \in SUBSET (Voters \X Apps) : IsFiniteSet(v)}
TagType == [offset : Offsets, dataAt : Int, revision : Int]
RequestStages == {"idle", "ask", "read"}

(* The list of the shelf s with the votes v, as it is sent.                *)
Sent(s, v) ==
    LET whole == Listed(s, v)
    IN  [i \in DOMAIN whole |-> [app |-> whole[i], count |-> Count(v, whole[i])]]

(* The walk has shown the list up to the cursor.                           *)
ShownSoFar(v) ==
    /\ cursor.offset < Len(Listed(shelf, v))
    /\ FlattenSeq(pages) = SubSeq(Sent(shelf, v), 1, cursor.offset)

ListTypes ==
    /\ dataAt \in Nat /\ stamp \in Int /\ now \in Nat
    /\ shelf \in SUBSET Apps /\ voters \in SUBSET Voters /\ votes \in VoteSets
    /\ revision \in Nat /\ list \in Lists
    /\ request \in [stage : RequestStages, tag : TagType, votes : VoteSets]
    /\ pages \in PageLists /\ cursor \in TagType
    /\ cache \in [Offsets -> [items : ItemLists, tag : TagType]]

(* A tag names versions that were.                                         *)
Past(t) == t.revision <= revision /\ t.dataAt <= IF list = "feed" THEN dataAt ELSE 0

(* A cursor continues the walk.                                            *)
CursorOK ==
    /\ Past(cursor)
    /\ cursor = NoCursor \/ (pages # <<>> /\ cursor.offset = Len(pages) * PageSize)

(* A handler at work on a request has the votes of the revision it names,  *)
(* which is the cursor's.                                                  *)
RequestOK ==
    /\ request.stage # "read" => request = [Idle0 EXCEPT !.stage = request.stage]
    /\ request.stage = "read" =>
          /\ Past(request.tag) /\ request.tag.offset = cursor.offset
          /\ request.tag.dataAt >= 0
          /\ request.tag.revision = revision => request.votes = votes
          /\ cursor # NoCursor => cursor.revision = request.tag.revision

(* A page kept under the present tag is what the server would send.        *)
CacheOK ==
    \A o \in Offsets :
        /\ Past(cache[o].tag)
        /\ ~unseen /\ cache[o].tag = Tag(o, dataAt, revision)
              => cache[o].items = PageAt(shelf, votes, o)

(* Unless the catalog changed, the pages so far are those of the list.     *)
WalkOK ==
    ~shifted /\ ~unseen /\ cursor # NoCursor =>
        /\ cursor.revision = revision => ShownSoFar(votes)
        /\ request.stage = "read" => ShownSoFar(request.votes)

ListInv == ListTypes /\ CursorOK /\ RequestOK /\ CacheOK /\ WalkOK

-----------------------------------------------------------------------------
(* What a list holds                                                       *)

LEMMA CountFacts ==
    ASSUME NEW v \in VoteSets, NEW a
    PROVE  Count(v, a) \in Nat
<1>1. IsFiniteSet({x \in v : x[2] = a})
  BY FS_Subset DEF VoteSets
<1> QED
  BY <1>1, FS_CardinalityType DEF Count

LEMMA RankedFacts ==
    ASSUME NEW s \in SUBSET Apps, NEW v \in VoteSets
    PROVE  /\ Ranked(s, v) \in Seq(Apps) /\ Len(Ranked(s, v)) \in Nat
           /\ Len(Ranked(s, v)) <= Cardinality(Apps) /\ Cardinality(Apps) \in Nat
<1> DEFINE R == {p \in s \X s : \/ Count(v, p[1]) > Count(v, p[2])
                                \/ Count(v, p[1]) = Count(v, p[2]) /\ p[1] < p[2]}
<1>1. \A a \in s : a \in Nat /\ Count(v, a) \in Nat
  BY CountFacts, ListingAssumption
<1>2. \A a, b \in s : <<a, b>> \in R <=> \/ Count(v, a) > Count(v, b)
                                         \/ Count(v, a) = Count(v, b) /\ a < b
  OBVIOUS
<1> HIDE DEF R
<1>3. StrictOrder(s, R)
  BY <1>1, <1>2 DEF StrictOrder
<1>4. /\ IsFiniteSet(s) /\ Cardinality(s) <= Cardinality(Apps) /\ Cardinality(s) \in Nat
      /\ Cardinality(Apps) \in Nat
  BY ListingAssumption, FS_Subset, FS_CardinalityType
<1>5. InOrder(s, R) \in Seq(s) /\ Len(InOrder(s, R)) = Cardinality(s)
  BY <1>3, <1>4, OrderFacts
<1>6. Ranked(s, v) = InOrder(s, R)
  BY DEF Ranked, R
<1>7. InOrder(s, R) \in Seq(Apps)
  BY <1>5
<1> QED
  BY <1>4, <1>5, <1>6, <1>7

LEMMA ListedFacts ==
    ASSUME NEW s \in SUBSET Apps, NEW v \in VoteSets
    PROVE  /\ Listed(s, v) \in Seq(Apps) /\ Len(Listed(s, v)) \in Nat
           /\ Len(Listed(s, v)) <= Cardinality(Apps) /\ Cardinality(Apps) \in Nat
<1> DEFINE chosen == IF list = "feed" THEN s ELSE {a \in s : Count(v, a) > 0}
<1>1. chosen \in SUBSET Apps /\ Listed(s, v) = Ranked(chosen, v)
  BY DEF Listed
<1> QED
  BY <1>1, RankedFacts

LEMMA SentFacts ==
    ASSUME NEW s \in SUBSET Apps, NEW v \in VoteSets
    PROVE  /\ Sent(s, v) \in ItemLists /\ Len(Sent(s, v)) = Len(Listed(s, v))
           /\ \A i \in 1..Len(Listed(s, v)) :
                 Sent(s, v)[i] = [app |-> Listed(s, v)[i], count |-> Count(v, Listed(s, v)[i])]
<1> DEFINE whole == Listed(s, v)
           item(i) == [app |-> whole[i], count |-> Count(v, whole[i])]
<1>1. whole \in Seq(Apps) /\ DOMAIN whole = 1..Len(whole) /\ Len(whole) \in Nat
  BY ListedFacts
<1> HIDE DEF whole
<1>2. \A i \in 1..Len(whole) : item(i) \in ItemType
  <2> SUFFICES ASSUME NEW i \in 1..Len(whole) PROVE item(i) \in ItemType
    OBVIOUS
  <2>1. whole[i] \in Apps
    BY <1>1
  <2>2. Count(v, whole[i]) \in Nat
    BY CountFacts
  <2> QED
    BY <2>1, <2>2 DEF ItemType
<1>3. Sent(s, v) = [i \in 1..Len(whole) |-> item(i)]
  BY <1>1 DEF Sent, whole
<1> HIDE DEF item
<1>4. Sent(s, v) \in ItemLists /\ Len(Sent(s, v)) = Len(whole)
  BY <1>1, <1>2, <1>3 DEF ItemLists
<1> QED
  BY <1>3, <1>4 DEF whole, item

LEMMA LeastOfTwo ==
    ASSUME NEW a \in Nat, NEW b \in Nat
    PROVE  Min({a, b}) = IF a <= b THEN a ELSE b
<1>1. Min({a, b}) \in {a, b} /\ \A x \in {a, b} : Min({a, b}) <= x
  <2>1. {a, b} \in SUBSET Nat /\ {a, b} # {}
    OBVIOUS
  <2> QED
    BY <2>1, MinOf
<1> QED
  BY <1>1

(* A list is its beginning followed by the rest.                           *)
LEMMA Halves ==
    ASSUME NEW S, NEW all \in Seq(S), NEW x \in Seq(S), NEW y \in Seq(S),
           NEW o \in Nat, NEW end \in Nat, o <= end, end <= Len(all),
           Len(x) = o, \A i \in 1..o : x[i] = all[i],
           Len(y) = end - o, \A i \in 1..(end - o) : y[i] = all[o + i]
    PROVE  x \o y = SubSeq(all, 1, end)
<1>1. PICK w : w = x \o y
  OBVIOUS
<1>2. w \in Seq(S) /\ Len(w) = end
  <2>1. x \o y \in Seq(S) /\ Len(x \o y) = Len(x) + Len(y)
    BY ConcatProperties, ZenonT(60)
  <2>2. o + (end - o) = end
    OBVIOUS
  <2> QED
    BY <1>1, <2>1, <2>2
<1>3. PICK z : z = SubSeq(all, 1, end)
  OBVIOUS
<1>4. z \in Seq(S) /\ Len(z) = end /\ \A i \in 1..end : z[i] = all[i]
  BY <1>3
<1>5. ASSUME NEW i \in 1..end PROVE w[i] = all[i]
  <2>0. w[i] = IF i <= o THEN x[i] ELSE y[i - o]
    BY <1>1, <1>2, ConcatProperties
  <2>1. CASE i <= o
    BY <2>0, <2>1
  <2>2. CASE ~(i <= o)
    <3>1. i - o \in 1..(end - o) /\ o + (i - o) = i
      BY <2>2
    <3>2. w[i] = y[i - o]
      BY <2>0, <2>2
    <3> QED
      BY <3>1, <3>2
  <2> QED
    BY <2>1, <2>2
<1>6. w = z
  <2>1. \A i \in 1..Len(w) : w[i] = z[i]
    BY <1>2, <1>4, <1>5
  <2> QED
    BY <1>2, <1>4, <2>1, SeqEqual
<1> QED
  BY <1>1, <1>3, <1>6

(* A page is the part of the list at its offset, and continues what was    *)
(* sent before it.                                                         *)
LEMMA PageFacts ==
    ASSUME NEW s \in SUBSET Apps, NEW v \in VoteSets, NEW o \in Nat,
           o <= Len(Listed(s, v))
    PROVE  /\ PageAt(s, v, o) \in ItemLists
           /\ SubSeq(Sent(s, v), 1, o) \in ItemLists
           /\ o + PageSize < Len(Listed(s, v)) =>
                 SubSeq(Sent(s, v), 1, o) \o PageAt(s, v, o)
                    = SubSeq(Sent(s, v), 1, o + PageSize)
           /\ ~(o + PageSize < Len(Listed(s, v))) =>
                 SubSeq(Sent(s, v), 1, o) \o PageAt(s, v, o) = Sent(s, v)
<1> DEFINE N == Len(Listed(s, v))
           all == Sent(s, v)
           end == Min({o + PageSize, N})
<1>1. N \in Nat /\ PageSize \in Nat \ {0} /\ Listed(s, v) \in Seq(Apps)
  BY ListedFacts, ListingAssumption
<1>2. end = IF o + PageSize <= N THEN o + PageSize ELSE N
  BY <1>1, LeastOfTwo
<1>3. end \in Nat /\ o <= end /\ end <= N
  BY <1>1, <1>2
<1>4. /\ all \in ItemLists /\ Len(all) = N
      /\ \A i \in 1..N : all[i] = [app |-> Listed(s, v)[i], count |-> Count(v, Listed(s, v)[i])]
  BY SentFacts
<1>5. PICK page : page = SubSeq(Listed(s, v), o + 1, end)
  OBVIOUS
<1>6. PageAt(s, v, o) = [i \in DOMAIN page |-> [app |-> page[i], count |-> Count(v, page[i])]]
  BY <1>5 DEF PageAt
<1> DEFINE list0 == Listed(s, v)
<1>7. DOMAIN page = 1..(end - o) /\ \A i \in 1..(end - o) : page[i] = list0[o + i]
  <2> HIDE DEF N, end, list0
  <2>1. list0 \in Seq(Apps) /\ Len(list0) = N
    BY <1>1 DEF list0, N
  <2>2. page = SubSeq(list0, o + 1, end)
    BY <1>5 DEF list0, end, N
  <2> QED
    BY <1>1, <1>3, <2>1, <2>2
<1> HIDE DEF N, end, all
<1>8. \A i \in 1..(end - o) : o + i \in 1..N
  BY <1>1, <1>3
<1>9. PageAt(s, v, o) = [i \in 1..(end - o) |-> all[o + i]]
  BY <1>4, <1>6, <1>7, <1>8
<1> HIDE DEF list0
<1>10. PICK x : x = SubSeq(all, 1, o)
  OBVIOUS
<1>11. PICK y : y = PageAt(s, v, o)
  OBVIOUS
<1>12. all \in Seq(ItemType)
  BY <1>4 DEF ItemLists
<1>13. x \in Seq(ItemType) /\ Len(x) = o /\ \A i \in 1..o : x[i] = all[i]
  BY <1>1, <1>3, <1>4, <1>10, <1>12
<1>14. y \in Seq(ItemType) /\ Len(y) = end - o /\ \A i \in 1..(end - o) : y[i] = all[o + i]
  <2>1. \A i \in 1..(end - o) : all[o + i] \in ItemType
    BY <1>4, <1>8, <1>12
  <2> QED
    BY <1>1, <1>3, <1>9, <1>11, <2>1
<1>15. x \o y = SubSeq(all, 1, end)
  <2>1. /\ all \in Seq(ItemType) /\ x \in Seq(ItemType) /\ y \in Seq(ItemType)
        /\ end \in Nat /\ o <= end /\ end <= Len(all) /\ Len(x) = o /\ Len(y) = end - o
    BY <1>3, <1>4, <1>12, <1>13, <1>14
  <2>2. /\ \A i \in 1..o : x[i] = all[i]
        /\ \A i \in 1..(end - o) : y[i] = all[o + i]
    BY <1>13, <1>14
  <2> QED
    BY <2>1, <2>2, Halves, ZenonT(60)
<1>16. ~(o + PageSize < N) => SubSeq(all, 1, end) = all
  BY <1>1, <1>2, <1>4, <1>12
<1> QED
  BY <1>1, <1>2, <1>10, <1>11, <1>13, <1>14, <1>15, <1>16 DEF N, all, ItemLists

(* What is sent of a page beyond the end is empty.                         *)
LEMMA PageType ==
    ASSUME NEW s \in SUBSET Apps, NEW v \in VoteSets, NEW o \in Nat
    PROVE  PageAt(s, v, o) \in ItemLists
<1>1. CASE o <= Len(Listed(s, v))
  BY <1>1, PageFacts
<1>2. CASE ~(o <= Len(Listed(s, v)))
  <2> DEFINE N == Len(Listed(s, v))
             end == Min({o + PageSize, N})
  <2>1. N \in Nat /\ PageSize \in Nat \ {0} /\ Listed(s, v) \in Seq(Apps)
    BY ListedFacts, ListingAssumption
  <2>2. end = IF o + PageSize <= N THEN o + PageSize ELSE N
    BY <2>1, LeastOfTwo
  <2>3. end = N /\ N < o + 1
    BY <1>2, <2>1, <2>2
  <2>4. PICK page : page = SubSeq(Listed(s, v), o + 1, end)
    OBVIOUS
  <2>5. PageAt(s, v, o) = [i \in DOMAIN page |-> [app |-> page[i], count |-> Count(v, page[i])]]
    BY <2>4 DEF PageAt
  <2> HIDE DEF N, end
  <2>6. DOMAIN page = {}
    BY <2>1, <2>3, <2>4
  <2>7. PageAt(s, v, o) = <<>>
    BY <2>5, <2>6
  <2> QED
    BY <2>7 DEF ItemLists
<1> QED
  BY <1>1, <1>2

(* The next page of the list, after the pages up to it.                    *)
LEMMA Continues ==
    ASSUME NEW s \in SUBSET Apps, NEW v \in VoteSets, NEW o \in Nat,
           o <= Len(Listed(s, v)), NEW before \in PageLists,
           FlattenSeq(before) = SubSeq(Sent(s, v), 1, o)
    PROVE  LET all == FlattenSeq(Append(before, PageAt(s, v, o)))
           IN  IF o + PageSize < Len(Listed(s, v))
               THEN all = SubSeq(Sent(s, v), 1, o + PageSize)
               ELSE all = Sent(s, v)
<1>1. PageAt(s, v, o) \in ItemLists
  BY PageType
<1>2. FlattenSeq(Append(before, PageAt(s, v, o))) = FlattenSeq(before) \o PageAt(s, v, o)
  BY <1>1, FlattenAppend DEF ItemLists, PageLists
<1> QED
  BY <1>2, PageFacts

(* Multiples of the page size                                              *)
LEMMA NextPage ==
    ASSUME NEW n \in Nat
    PROVE  /\ n * PageSize \in Nat /\ n <= n * PageSize
           /\ (n + 1) * PageSize = n * PageSize + PageSize
<1>1. PageSize \in Nat /\ 1 <= PageSize
  BY ListingAssumption
<1>2. PICK p \in Nat : p = PageSize - 1
  BY <1>1
<1>3. n * PageSize = n * p + n /\ n * p \in Nat
  BY <1>1, <1>2
<1>4. (n + 1) * PageSize = n * PageSize + PageSize
  BY <1>1
<1> QED
  BY <1>1, <1>3, <1>4

LEMMA OffsetFacts ==
    ASSUME NEW o \in Offsets
    PROVE  /\ o \in Nat /\ 0 \in Offsets
           /\ o + PageSize <= Cardinality(Apps) => o + PageSize \in Offsets
<1>1. PICK n \in 0..Cardinality(Apps) : o = n * PageSize
  BY DEF Offsets
<1>2. Cardinality(Apps) \in Nat /\ PageSize \in Nat \ {0}
  BY ListingAssumption, FS_CardinalityType
<1>3. o \in Nat
  BY <1>1, <1>2, NextPage
<1>4. 0 \in Offsets
  <2>1. 0 * PageSize = 0 /\ 0 \in 0..Cardinality(Apps)
    BY <1>2
  <2> QED
    BY <2>1 DEF Offsets
<1>5. ASSUME o + PageSize <= Cardinality(Apps) PROVE o + PageSize \in Offsets
  <2>1. /\ (n + 1) * PageSize = o + PageSize /\ n + 1 \in Nat
        /\ n + 1 <= (n + 1) * PageSize
    BY <1>1, <1>2, NextPage
  <2>2. n + 1 \in 0..Cardinality(Apps)
    BY <1>2, <1>3, <1>5, <2>1
  <2> QED
    BY <2>1, <2>2 DEF Offsets
<1> QED
  BY <1>3, <1>4, <1>5

-----------------------------------------------------------------------------
(* What an answer leaves                                                   *)

(* The votes that a page was ranked with.                                  *)
AnswerFrom(how, items, tag, more, v) ==
    /\ Answer(how, items, tag, more)
    /\ items \in ItemLists /\ tag \in TagType
    /\ Past(tag) /\ tag.dataAt >= 0 /\ tag.offset = cursor.offset
    /\ more = More(shelf, v, tag.offset)
    /\ tag.revision = revision => v = votes
    /\ ~unseen /\ tag = Tag(tag.offset, dataAt, revision)
          => items = PageAt(shelf, votes, tag.offset)
    /\ ~shifted /\ ~unseen => items = PageAt(shelf, v, tag.offset)
    /\ ~shifted /\ ~unseen /\ cursor # NoCursor => ShownSoFar(v)

(* The pages after it: one more, which ends where the cursor says.         *)
LEMMA AnswerPages ==
    ASSUME ListInv, NEW how, NEW items, NEW tag, NEW more, NEW v \in VoteSets,
           AnswerFrom(how, items, tag, more, v)
    PROVE  /\ pages' \in PageLists /\ pages' # <<>> /\ Last(pages') = items
           /\ Len(pages') \in Nat /\ tag.offset + PageSize = Len(pages') * PageSize
           /\ tag.offset = (Len(pages') - 1) * PageSize
           /\ ~shifted /\ ~unseen /\ more =>
                 FlattenSeq(pages') = SubSeq(Sent(shelf, v), 1, tag.offset + PageSize)
           /\ ~shifted /\ ~unseen /\ ~more => FlattenSeq(pages') = Sent(shelf, v)
<1> DEFINE o == tag.offset
           before == IF o = 0 THEN <<>> ELSE pages
<1>1. o \in Offsets /\ o \in Nat /\ items \in ItemLists /\ pages \in PageLists
  <2>1. o \in Offsets
    BY DEF AnswerFrom, TagType
  <2> QED
    BY <2>1, OffsetFacts DEF AnswerFrom, ListInv, ListTypes
<1>2. before \in PageLists
  BY <1>1 DEF PageLists
<1>3. pages' = Append(before, items)
  <2>1. Append(<<>>, items) = <<items>>
    OBVIOUS
  <2> QED
    BY <2>1 DEF AnswerFrom, Answer
<1>4. o # 0 => cursor # NoCursor /\ pages # <<>> /\ o = Len(pages) * PageSize
  BY DEF AnswerFrom, ListInv, CursorOK, NoCursor
<1>5. cursor # NoCursor => o # 0
  <2> SUFFICES ASSUME cursor # NoCursor PROVE o # 0
    OBVIOUS
  <2>1. o = Len(pages) * PageSize /\ Len(pages) \in Nat /\ Len(pages) # 0
    BY <1>1 DEF AnswerFrom, ListInv, CursorOK, PageLists
  <2>2. Len(pages) <= o
    BY <2>1, NextPage
  <2> QED
    BY <1>1, <2>1, <2>2
<1>6. o = Len(before) * PageSize /\ Len(before) \in Nat
  <2>1. CASE o = 0
    <3>1. Len(before) = 0 /\ 0 * PageSize = 0
      BY <2>1, ListingAssumption
    <3> QED
      BY <2>1, <3>1
  <2>2. CASE o # 0
    BY <1>1, <1>4, <2>2 DEF PageLists
  <2> QED
    BY <2>1, <2>2
<1> HIDE DEF before
<1>7. /\ pages' \in PageLists /\ pages' # <<>> /\ Last(pages') = items
      /\ Len(pages') = Len(before) + 1
  <2>1. PICK b \in Seq(ItemLists) : b = before
    BY <1>2 DEF PageLists
  <2>2. /\ Append(b, items) \in Seq(ItemLists) /\ Len(Append(b, items)) = Len(b) + 1
        /\ Append(b, items)[Len(b) + 1] = items
    BY <1>1, <2>1
  <2> QED
    BY <1>3, <1>6, <2>1, <2>2 DEF Last, PageLists
<1>8. o + PageSize = Len(pages') * PageSize /\ Len(pages') \in Nat /\ Len(pages') - 1 = Len(before)
  BY <1>6, <1>7, NextPage
<1>9. ASSUME ~shifted, ~unseen
      PROVE  IF o + PageSize < Len(Listed(shelf, v))
             THEN FlattenSeq(pages') = SubSeq(Sent(shelf, v), 1, o + PageSize)
             ELSE FlattenSeq(pages') = Sent(shelf, v)
  <2>0. shelf \in SUBSET Apps /\ v \in VoteSets
    BY DEF ListInv, ListTypes
  <2>1. o <= Len(Listed(shelf, v)) /\ FlattenSeq(before) = SubSeq(Sent(shelf, v), 1, o)
    <3>1. CASE o = 0
      <4>1. FlattenSeq(<<>>) = <<>>
        <5>1. PICK f \in [0..Len(<<>>) -> Seq(ItemType)] : Joins(f, <<>>)
          <6>1. <<>> \in Seq(Seq(ItemType))
            OBVIOUS
          <6> QED
            BY <6>1, FlattenSteps
        <5> QED
          BY <5>1 DEF Joins
      <4>2. SubSeq(Sent(shelf, v), 1, 0) = <<>>
        BY <2>0, SentFacts DEF ItemLists
      <4>3. Len(Listed(shelf, v)) \in Nat
        BY <2>0, ListedFacts
      <4> QED
        <5>1. before = <<>>
          BY <3>1 DEF before
        <5>2. o <= Len(Listed(shelf, v))
          BY <3>1, <4>3
        <5> QED
          BY <3>1, <4>1, <4>2, <5>1, <5>2, Zenon
    <3>2. CASE o # 0
      <4>1. ShownSoFar(v) /\ o = cursor.offset
        BY <1>4, <1>9, <3>2 DEF AnswerFrom
      <4>2. Len(Listed(shelf, v)) \in Nat
        BY <2>0, ListedFacts
      <4> QED
        <5>1. before = pages
          BY <3>2 DEF before
        <5>2. o < Len(Listed(shelf, v)) /\ FlattenSeq(pages) = SubSeq(Sent(shelf, v), 1, o)
          BY <4>1 DEF ShownSoFar
        <5>3. o <= Len(Listed(shelf, v))
          BY <1>1, <4>2, <5>2
        <5> QED
          BY <5>1, <5>2, <5>3
    <3> QED
      BY <3>1, <3>2
  <2>2. items = PageAt(shelf, v, o)
    BY <1>9 DEF AnswerFrom
  <2> QED
    BY <1>1, <1>2, <1>3, <2>0, <2>1, <2>2, Continues
<1>10. more <=> o + PageSize < Len(Listed(shelf, v))
  BY DEF AnswerFrom, More
<1> QED
  BY <1>6, <1>7, <1>8, <1>9, <1>10

LEMMA TagFacts ==
    ASSUME NEW o \in Offsets, NEW d \in Nat, NEW r \in Nat
    PROVE  /\ Tag(o, d, r) \in TagType /\ Tag(o, d, r).offset = o /\ Tag(o, d, r).revision = r
           /\ Tag(o, d, r).dataAt = IF list = "feed" THEN d ELSE 0
<1> HIDE DEF Offsets
<1> QED
  BY DEF Tag, TagType

LEMMA NoneTypes ==
    NoCursor \in TagType /\ Idle0 \in [stage : RequestStages, tag : TagType, votes : VoteSets]
<1>1. 0 \in Offsets
  <2>1. 0 * PageSize = 0 /\ 0 \in 0..Cardinality(Apps)
    BY ListingAssumption, FS_CardinalityType
  <2> QED
    BY <2>1 DEF Offsets
<1>2. {} \in VoteSets
  BY FS_EmptySet DEF VoteSets
<1>3. NoCursor \in TagType
  BY <1>1 DEF NoCursor, TagType
<1> QED
  BY <1>2, <1>3 DEF Idle0, RequestStages

LEMMA AnswerKeeps ==
    ASSUME ListInv, NEW how, NEW items, NEW tag, NEW more, NEW v \in VoteSets,
           AnswerFrom(how, items, tag, more, v), UNCHANGED <<serverVars, shifted>>
    PROVE  ListInv'
<1> DEFINE o == tag.offset
           next == [tag EXCEPT !.offset = @ + PageSize]
<1>1. /\ UNCHANGED <<now, shelf, dataAt, stamp, voters, votes, revision, unseen, shifted, list>>
      /\ request' = Idle0 /\ cursor' = IF more THEN next ELSE NoCursor
      /\ cache' = [cache EXCEPT ![o] = [items |-> items, tag |-> tag]]
  BY DEF AnswerFrom, Answer, serverVars
<1>2. tag \in TagType /\ Past(tag) /\ items \in ItemLists /\ o \in Offsets /\ o \in Nat
  <2>1. tag \in TagType /\ Past(tag) /\ items \in ItemLists
    BY DEF AnswerFrom
  <2>2. o \in Offsets
    BY <2>1 DEF TagType
  <2> QED
    BY <2>1, <2>2, OffsetFacts
<1>3. ListTypes
  BY DEF ListInv
<1>4. /\ pages' \in PageLists /\ pages' # <<>> /\ o + PageSize = Len(pages') * PageSize
      /\ ~shifted /\ ~unseen /\ more =>
            FlattenSeq(pages') = SubSeq(Sent(shelf, v), 1, o + PageSize)
  BY AnswerPages
<1>5. more => o + PageSize < Len(Listed(shelf, v)) /\ o + PageSize \in Offsets
  <2> SUFFICES ASSUME more
               PROVE  o + PageSize < Len(Listed(shelf, v)) /\ o + PageSize \in Offsets
    OBVIOUS
  <2>1. o + PageSize < Len(Listed(shelf, v))
    BY DEF AnswerFrom, More
  <2>2. /\ Len(Listed(shelf, v)) \in Nat /\ Cardinality(Apps) \in Nat
        /\ Len(Listed(shelf, v)) <= Cardinality(Apps)
    BY <1>3, ListedFacts DEF ListTypes
  <2>3. o + PageSize <= Cardinality(Apps)
    BY <1>2, <2>1, <2>2, ListingAssumption
  <2> QED
    BY <1>2, <2>1, <2>3, OffsetFacts
<1>6. NoCursor \in TagType /\ Idle0 \in [stage : RequestStages, tag : TagType, votes : VoteSets]
  BY NoneTypes
<1>7. more => /\ next \in TagType /\ next.offset = o + PageSize /\ next.revision = tag.revision
              /\ next.dataAt = tag.dataAt
  BY <1>2, <1>5 DEF TagType
<1> HIDE DEF next
<1>8. cursor' \in TagType /\ Past(cursor')
  <2>1. Past(NoCursor)
    BY <1>3 DEF Past, NoCursor, ListTypes
  <2>2. more => Past(next)
    BY <1>2, <1>7 DEF Past
  <2> QED
    BY <1>1, <1>6, <1>7, <2>1, <2>2
<1>9. ListTypes'
  <2>1. cache' \in [Offsets -> [items : ItemLists, tag : TagType]]
    BY <1>1, <1>2, <1>3 DEF ListTypes
  <2> QED
    BY <1>1, <1>3, <1>4, <1>6, <1>8, <2>1 DEF ListTypes
<1>10. CursorOK'
  <2>1. Past(cursor)'
    BY <1>1, <1>8 DEF Past
  <2>2. more => cursor'.offset = Len(pages') * PageSize
    BY <1>1, <1>4, <1>7
  <2> QED
    BY <1>1, <1>4, <2>1, <2>2 DEF CursorOK, NoCursor
<1>11. RequestOK'
  BY <1>1 DEF RequestOK, Idle0
<1>12. CacheOK'
  <2> SUFFICES ASSUME NEW p \in Offsets
               PROVE  /\ Past(cache[p].tag)'
                      /\ ~unseen /\ cache'[p].tag = Tag(p, dataAt, revision)
                            => cache'[p].items = PageAt(shelf, votes, p)
    <3>1. \A q \in Offsets : Tag(q, dataAt, revision)' = Tag(q, dataAt, revision)
      BY <1>1 DEF Tag
    <3>2. \A q \in Offsets : PageAt(shelf, votes, q)' = PageAt(shelf, votes, q)
      BY <1>1 DEF PageAt, Listed
    <3> QED
      BY <1>1, <3>1, <3>2 DEF CacheOK
  <2>1. CASE p = o
    <3>1. cache'[p].tag = tag /\ cache'[p].items = items
      BY <1>1, <1>3, <2>1 DEF ListTypes
    <3>2. Past(cache[p].tag)'
      BY <1>1, <1>2, <3>1 DEF Past
    <3> QED
      BY <2>1, <3>1, <3>2 DEF AnswerFrom
  <2>2. CASE p # o
    <3>1. cache'[p] = cache[p]
      BY <1>1, <1>3, <2>2 DEF ListTypes
    <3>2. Past(cache[p].tag)
      BY DEF ListInv, CacheOK
    <3>3. Past(cache[p].tag)'
      BY <1>1, <3>1, <3>2 DEF Past
    <3> QED
      BY <3>1, <3>3 DEF ListInv, CacheOK
  <2> QED
    BY <2>1, <2>2
<1>13. WalkOK'
  <2> SUFFICES ASSUME ~shifted, ~unseen, cursor' # NoCursor, cursor'.revision = revision
               PROVE  ShownSoFar(votes)'
    BY <1>1 DEF WalkOK, Idle0
  <2>1. more /\ cursor' = next
    BY <1>1
  <2>2. v = votes
    BY <1>7, <2>1 DEF AnswerFrom
  <2>3. /\ Listed(shelf, votes)' = Listed(shelf, votes)
        /\ Sent(shelf, votes)' = Sent(shelf, votes)
    BY <1>1 DEF Listed, Sent
  <2>4. cursor'.offset = o + PageSize
    BY <1>7, <2>1
  <2>5. FlattenSeq(pages)' = FlattenSeq(pages')
    OBVIOUS
  <2> QED
    BY <1>4, <1>5, <2>1, <2>2, <2>3, <2>4 DEF ShownSoFar
<1> QED
  BY <1>9, <1>10, <1>11, <1>12, <1>13 DEF ListInv

LEMMA RestartKeeps ==
    ASSUME ListInv, Restart, UNCHANGED <<serverVars, shifted>>
    PROVE  ListInv'
<1>1. /\ UNCHANGED <<now, shelf, dataAt, stamp, voters, votes, revision, unseen, shifted>>
      /\ list' = list /\ cache' = cache
      /\ pages' = <<>> /\ cursor' = NoCursor /\ request' = Idle0
  BY DEF Restart, serverVars
<1>2. NoCursor \in TagType /\ Idle0 \in [stage : RequestStages, tag : TagType, votes : VoteSets]
  BY NoneTypes
<1>3. ListTypes'
  BY <1>1, <1>2 DEF ListInv, ListTypes, PageLists
<1>4. CursorOK' /\ RequestOK' /\ WalkOK'
  BY <1>1 DEF ListInv, ListTypes, CursorOK, RequestOK, WalkOK, Past, Idle0, NoCursor
<1>5. CacheOK'
  <2>1. \A o \in Offsets : /\ Tag(o, dataAt, revision)' = Tag(o, dataAt, revision)
                           /\ PageAt(shelf, votes, o)' = PageAt(shelf, votes, o)
    BY <1>1 DEF Tag, PageAt, Listed
  <2>2. \A o \in Offsets : Past(cache[o].tag)' = Past(cache[o].tag)
    BY <1>1 DEF Past
  <2> QED
    BY <1>1, <2>1, <2>2 DEF ListInv, CacheOK
<1> QED
  BY <1>3, <1>4, <1>5 DEF ListInv

-----------------------------------------------------------------------------
(* The steps                                                               *)

(* What the reader does not see at once: time, votes and accounts.         *)
LEMMA FrameKeeps ==
    ASSUME ListInv, UNCHANGED <<shelf, dataAt, unseen, shifted, readerVars>>,
           now' \in Nat, stamp' \in Int, voters' \in SUBSET Voters, votes' \in VoteSets,
           revision' \in Nat, revision <= revision', revision' = revision => votes' = votes
    PROVE  ListInv'
<1>1. /\ UNCHANGED <<shelf, dataAt, unseen, shifted, list, request, pages, cursor, cache>>
      /\ revision \in Nat /\ dataAt \in Nat /\ ListTypes
  BY DEF readerVars, ListInv, ListTypes
<1>2. ASSUME NEW CONSTANT t \in TagType, Past(t) PROVE Past(t)'
  BY <1>1, <1>2 DEF Past, TagType
<1>3. ListTypes'
  BY <1>1 DEF ListTypes
<1>4. CursorOK'
  <2>1. Past(cursor)'
    BY <1>1 DEF ListInv, CursorOK, Past, ListTypes, TagType
  <2> QED
    BY <1>1, <2>1 DEF ListInv, CursorOK
<1>5. RequestOK'
  <2>1. request.stage = "read" => Past(request.tag)'
    BY <1>1 DEF ListInv, RequestOK, Past, ListTypes, TagType
  <2>2. request.stage = "read" /\ request.tag.revision = revision' =>
            request.tag.revision = revision /\ revision' = revision
    BY <1>1 DEF ListInv, RequestOK, Past, ListTypes, TagType
  <2> QED
    BY <1>1, <2>1, <2>2 DEF ListInv, RequestOK
<1>6. CacheOK'
  <2> SUFFICES ASSUME NEW CONSTANT o \in Offsets
               PROVE  (/\ Past(cache[o].tag)
                       /\ ~unseen /\ cache[o].tag = Tag(o, dataAt, revision)
                             => cache[o].items = PageAt(shelf, votes, o))'
    BY DEF CacheOK
  <2>1. cache[o].tag \in TagType /\ Past(cache[o].tag)
    BY <1>1 DEF ListInv, CacheOK, ListTypes
  <2>2. Past(cache[o].tag)'
    BY <1>1, <2>1 DEF Past, TagType
  <2>3. ASSUME ~unseen, cache[o].tag = Tag(o, dataAt', revision')
        PROVE  cache[o].items = PageAt(shelf, votes', o)
    <3>1. cache[o].tag.revision = revision'
      BY <2>3 DEF Tag
    <3>2. revision' = revision
      BY <1>1, <2>1, <3>1 DEF Past, TagType
    <3>3. Tag(o, dataAt', revision') = Tag(o, dataAt, revision) /\ votes' = votes
      BY <1>1, <3>2
    <3> QED
      BY <2>3, <3>3 DEF ListInv, CacheOK
  <2>4. /\ Tag(o, dataAt, revision)' = Tag(o, dataAt', revision')
        /\ PageAt(shelf, votes, o)' = PageAt(shelf, votes', o)
    BY <1>1 DEF Tag, PageAt, Listed
  <2> QED
    BY <1>1, <2>2, <2>3, <2>4
<1>7. WalkOK'
  <2> SUFFICES ASSUME ~shifted, ~unseen, cursor # NoCursor
               PROVE  /\ cursor.revision = revision' => ShownSoFar(votes)'
                      /\ request.stage = "read" => ShownSoFar(request.votes)'
    BY <1>1 DEF WalkOK
  <2>1. \A w : Listed(shelf, w)' = Listed(shelf, w) /\ Sent(shelf, w)' = Sent(shelf, w)
    BY <1>1 DEF Listed, Sent
  <2>2. request.stage = "read" => ShownSoFar(request.votes)'
    BY <1>1, <2>1 DEF ListInv, WalkOK, ShownSoFar, Listed, Sent
  <2>3. ASSUME cursor.revision = revision' PROVE ShownSoFar(votes)'
    <3>1. revision' = revision /\ votes' = votes
      BY <1>1, <2>3 DEF ListInv, CursorOK, Past, ListTypes, TagType
    <3>2. ShownSoFar(votes)
      BY <2>3, <3>1 DEF ListInv, WalkOK
    <3> QED
      BY <1>1, <3>1, <3>2 DEF ShownSoFar, Listed, Sent
  <2> QED
    BY <2>2, <2>3
<1> QED
  BY <1>3, <1>4, <1>5, <1>6, <1>7 DEF ListInv

LEMMA CommitKeeps ==
    ASSUME ListInv, NEW s \in SUBSET Apps, NEW at \in 0..MaxNow, CommitWrite(s, at)
    PROVE  ListInv'
<1>1. /\ UNCHANGED <<now, voters, votes, revision, list, request, pages, cursor, cache>>
      /\ shelf' = s /\ stamp' \in {stamp, NoStamp} /\ dataAt' = Max({dataAt, at})
      /\ unseen' = (unseen \/ at <= dataAt \/ list = "community") /\ shifted' = TRUE
      /\ dataAt \in Nat /\ at \in Nat /\ ListTypes
  BY ListingAssumption DEF CommitWrite, readerVars, ListInv, ListTypes
<1>2. dataAt' \in Nat /\ dataAt <= dataAt' /\ at <= dataAt'
  <2>1. {dataAt, at} \in SUBSET (0..(dataAt + at)) /\ dataAt + at \in Nat
    BY <1>1
  <2>2. Max({dataAt, at}) \in {dataAt, at} /\ \A x \in {dataAt, at} : x <= Max({dataAt, at})
    BY <2>1, MaxOf
  <2> QED
    BY <1>1, <2>2
<1>3. ListTypes'
  BY <1>1, <1>2 DEF ListTypes, NoStamp
<1>4. CursorOK'
  BY <1>1, <1>2 DEF ListInv, CursorOK, Past, ListTypes, TagType
<1>5. RequestOK'
  BY <1>1, <1>2 DEF ListInv, RequestOK, Past, ListTypes, TagType
<1>6. CacheOK'
  <2> SUFFICES ASSUME NEW CONSTANT o \in Offsets
               PROVE  (/\ Past(cache[o].tag)
                       /\ ~unseen /\ cache[o].tag = Tag(o, dataAt, revision)
                             => cache[o].items = PageAt(shelf, votes, o))'
    BY DEF CacheOK
  <2>1. cache[o].tag \in TagType /\ Past(cache[o].tag)
    BY <1>1 DEF ListInv, CacheOK, ListTypes
  <2>2. Past(cache[o].tag)'
    BY <1>1, <1>2, <2>1 DEF Past, TagType
  <2>3. ASSUME ~unseen', (cache[o].tag = Tag(o, dataAt, revision))' PROVE FALSE
    <3>1. list = "feed" /\ dataAt < dataAt'
      <4>1. ~(at <= dataAt) /\ list # "community" /\ list \in Lists
        BY <1>1, <2>3 DEF ListTypes
      <4>2. list = "feed"
        BY <4>1, ListingAssumption
      <4> QED
        BY <1>1, <1>2, <4>1, <4>2
    <3>2. cache[o].tag.dataAt = dataAt'
      BY <1>1, <2>3, <3>1 DEF Tag
    <3> QED
      BY <1>1, <1>2, <2>1, <3>1, <3>2 DEF Past, TagType
  <2> QED
    BY <2>2, <2>3
<1>7. WalkOK'
  BY <1>1 DEF WalkOK
<1> QED
  BY <1>3, <1>4, <1>5, <1>6, <1>7 DEF ListInv

LEMMA AskKeeps ==
    ASSUME ListInv, Ask
    PROVE  ListInv'
<1>1. /\ UNCHANGED <<now, shelf, dataAt, stamp, voters, votes, revision, unseen>>
      /\ UNCHANGED <<list, pages, cursor, cache>>
      /\ request = Idle0 /\ request' = [Idle0 EXCEPT !.stage = "ask"]
      /\ shifted' = (shifted /\ cursor # NoCursor)
  BY DEF Ask, serverVars
<1>2. request'.stage = "ask" /\ request' \in [stage : RequestStages, tag : TagType, votes : VoteSets]
  BY <1>1, NoneTypes DEF Idle0, RequestStages
<1>3. ListTypes'
  BY <1>1, <1>2 DEF ListInv, ListTypes
<1>4. CursorOK'
  BY <1>1 DEF ListInv, CursorOK, Past
<1>5. RequestOK'
  BY <1>1, <1>2 DEF RequestOK
<1>6. CacheOK'
  <2>1. \A o \in Offsets : /\ Tag(o, dataAt, revision)' = Tag(o, dataAt, revision)
                           /\ PageAt(shelf, votes, o)' = PageAt(shelf, votes, o)
    BY <1>1 DEF Tag, PageAt, Listed
  <2>2. \A o \in Offsets : Past(cache[o].tag)' = Past(cache[o].tag)
    BY <1>1 DEF Past
  <2> QED
    BY <1>1, <2>1, <2>2 DEF ListInv, CacheOK
<1>7. WalkOK'
  BY <1>1, <1>2 DEF ListInv, WalkOK, ShownSoFar, Listed, Sent
<1> QED
  BY <1>3, <1>4, <1>5, <1>6, <1>7 DEF ListInv

(* A request that begins is refused, answered from the client's own page   *)
(* (a feed's), or goes on to read.                                         *)
LEMMA BeginCases ==
    ASSUME ListInv, BeginRequest
    PROVE  LET tag == Tag(cursor.offset, dataAt, revision)
           IN  /\ request.stage = "ask" /\ UNCHANGED <<serverVars, shifted>>
               /\ \/ Restart
                  \/ /\ list = "feed"
                     /\ AnswerFrom("not modified", cache[tag.offset].items, tag,
                                   More(shelf, votes, tag.offset), votes)
                  \/ /\ request' = [stage |-> "read", tag |-> tag, votes |-> votes]
                     /\ ~Stale(cursor) /\ tag \in TagType /\ tag.dataAt \in Nat
                     /\ tag.offset = cursor.offset /\ tag.revision = revision /\ Past(tag)
                     /\ UNCHANGED <<list, pages, cursor, cache, verdict>>
<1> DEFINE tag == Tag(cursor.offset, dataAt, revision)
           items == cache[tag.offset].items
           more == More(shelf, votes, tag.offset)
<1>1. /\ ListTypes /\ cursor.offset \in Offsets /\ dataAt \in Nat /\ revision \in Nat
      /\ votes \in VoteSets /\ shelf \in SUBSET Apps
  BY DEF ListInv, ListTypes, TagType
<1>2. /\ tag \in TagType /\ tag.offset = cursor.offset /\ tag.revision = revision
      /\ tag.dataAt = (IF list = "feed" THEN dataAt ELSE 0)
  BY <1>1, TagFacts
<1>3. request.stage = "ask" /\ UNCHANGED <<serverVars, shifted>>
  BY DEF BeginRequest
<1>4. tag.dataAt \in Nat /\ Past(tag)
  BY <1>1, <1>2 DEF Past
<1>5. ASSUME ~Stale(cursor), list = "feed", cache[tag.offset].tag = tag,
             Answer("not modified", items, tag, more)
      PROVE  AnswerFrom("not modified", items, tag, more, votes)
  <2>1. items \in ItemLists
    BY <1>1, <1>2 DEF ListTypes
  <2>2. ~unseen => items = PageAt(shelf, votes, tag.offset)
    BY <1>1, <1>2, <1>5 DEF ListInv, CacheOK
  <2>3. ~shifted /\ ~unseen /\ cursor # NoCursor => ShownSoFar(votes)
    BY <1>5 DEF Stale, ListInv, WalkOK
  <2> HIDE DEF tag, items, more
  <2>4. more = More(shelf, votes, tag.offset)
    BY DEF more
  <2> QED
    <3>1. tag.dataAt >= 0
      BY <1>4
    <3>2. Past(tag)
      BY <1>4
    <3> QED
      BY <1>2, <1>5, <2>1, <2>2, <2>3, <2>4, <3>1, <3>2, Zenon DEF AnswerFrom
<1> QED
  BY <1>2, <1>3, <1>4, <1>5 DEF BeginRequest

LEMMA BeginKeeps ==
    ASSUME ListInv, BeginRequest
    PROVE  ListInv'
<1> DEFINE tag == Tag(cursor.offset, dataAt, revision)
<1>1. CASE Restart
  BY <1>1, BeginCases, RestartKeeps
<1>2. CASE AnswerFrom("not modified", cache[tag.offset].items, tag,
                      More(shelf, votes, tag.offset), votes)
  <2>1. votes \in VoteSets /\ UNCHANGED <<serverVars, shifted>>
    BY BeginCases DEF ListInv, ListTypes
  <2> QED
    BY <1>2, <2>1, AnswerKeeps
<1>3. CASE /\ request' = [stage |-> "read", tag |-> tag, votes |-> votes]
           /\ ~Stale(cursor) /\ tag \in TagType /\ tag.dataAt \in Nat
           /\ tag.offset = cursor.offset /\ tag.revision = revision /\ Past(tag)
           /\ UNCHANGED <<list, pages, cursor, cache, verdict>>
  <2> HIDE DEF tag
  <2>1. /\ UNCHANGED <<now, shelf, dataAt, stamp, voters, votes, revision, unseen, shifted>>
        /\ UNCHANGED <<list, pages, cursor, cache>>
    BY <1>3, BeginCases DEF serverVars
  <2>2. /\ request'.stage = "read" /\ request'.tag = tag /\ request'.votes = votes
        /\ request' \in [stage : RequestStages, tag : TagType, votes : VoteSets]
    BY <1>3 DEF RequestStages, ListInv, ListTypes
  <2>3. ListTypes'
    BY <2>1, <2>2 DEF ListInv, ListTypes
  <2>4. CursorOK'
    BY <2>1 DEF ListInv, CursorOK, Past
  <2>5. cursor # NoCursor => cursor.revision = revision
    BY <1>3 DEF Stale
  <2>6. RequestOK'
    <3>1. Past(request.tag)'
      BY <1>3, <2>1, <2>2 DEF Past
    <3> QED
      BY <1>3, <2>1, <2>2, <2>5, <3>1 DEF RequestOK
  <2>7. CacheOK'
    <3>1. \A o \in Offsets : /\ Tag(o, dataAt, revision)' = Tag(o, dataAt, revision)
                             /\ PageAt(shelf, votes, o)' = PageAt(shelf, votes, o)
      BY <2>1 DEF Tag, PageAt, Listed
    <3>2. \A o \in Offsets : Past(cache[o].tag)' = Past(cache[o].tag)
      BY <2>1 DEF Past
    <3> QED
      BY <2>1, <3>1, <3>2 DEF ListInv, CacheOK
  <2>8. WalkOK'
    <3> SUFFICES ASSUME ~shifted, ~unseen, cursor # NoCursor PROVE ShownSoFar(votes)'
      BY <2>1, <2>2 DEF WalkOK, ShownSoFar, Listed, Sent
    <3>1. ShownSoFar(votes)
      BY <2>5 DEF ListInv, WalkOK
    <3> QED
      BY <2>1, <3>1 DEF ShownSoFar, Listed, Sent
  <2> QED
    BY <2>3, <2>4, <2>6, <2>7, <2>8 DEF ListInv
<1> QED
  BY <1>1, <1>2, <1>3, BeginCases

LEMMA ReadFeedAnswers ==
    ASSUME ListInv, ReadFeed
    PROVE  /\ list = "feed" /\ request.stage = "read" /\ request.votes \in VoteSets
           /\ UNCHANGED <<serverVars, shifted>>
           /\ AnswerFrom("page", PageAt(shelf, request.votes, request.tag.offset), request.tag,
                         More(shelf, request.votes, request.tag.offset), request.votes)
<1> DEFINE tag == request.tag
           v == request.votes
           items == PageAt(shelf, v, tag.offset)
           more == More(shelf, v, tag.offset)
<1>1. /\ ListTypes /\ request.stage = "read" /\ list = "feed" /\ UNCHANGED <<serverVars, shifted>>
      /\ Answer("page", items, tag, more)
  BY DEF ListInv, ReadFeed
<1>2. /\ tag \in TagType /\ v \in VoteSets /\ tag.offset \in Offsets /\ shelf \in SUBSET Apps
  BY <1>1 DEF ListTypes, TagType
<1>3. items \in ItemLists
  BY <1>2, OffsetFacts, PageType
<1>4. /\ Past(tag) /\ tag.offset = cursor.offset /\ tag.dataAt >= 0
      /\ tag.revision = revision => v = votes
  BY <1>1 DEF ListInv, RequestOK
<1>5. tag = Tag(tag.offset, dataAt, revision) => tag.revision = revision
  BY DEF Tag
<1>6. ~unseen /\ tag = Tag(tag.offset, dataAt, revision) => items = PageAt(shelf, votes, tag.offset)
  BY <1>4, <1>5
<1>7. ~shifted /\ ~unseen /\ cursor # NoCursor => ShownSoFar(v)
  BY <1>1 DEF ListInv, WalkOK
<1>8. AnswerFrom("page", items, tag, more, v)
  <2>1. ~shifted /\ ~unseen => items = PageAt(shelf, v, tag.offset)
    OBVIOUS
  <2>2. more = More(shelf, v, tag.offset)
    OBVIOUS
  <2> HIDE DEF items, more, tag, v
  <2> QED
    BY <1>1, <1>2, <1>3, <1>4, <1>6, <1>7, <2>1, <2>2, Zenon DEF AnswerFrom
<1> QED
  BY <1>1, <1>2, <1>8

LEMMA ReadCommunityAnswers ==
    ASSUME ListInv, ReadCommunity
    PROVE  /\ list = "community" /\ request.stage = "read"
           /\ UNCHANGED <<serverVars, shifted>> /\ votes \in VoteSets
           /\ \/ Restart
              \/ /\ request.votes = votes
                 /\ \E how \in {"page", "not modified"}, items \in ItemLists :
                        /\ AnswerFrom(how, items, request.tag,
                                      More(shelf, votes, request.tag.offset), votes)
                        /\ ~unseen => items = PageAt(shelf, votes, request.tag.offset)
<1> DEFINE tag == request.tag
           entry == cache[tag.offset]
           page == PageAt(shelf, votes, tag.offset)
           more == More(shelf, votes, tag.offset)
<1>1. /\ ListTypes /\ request.stage = "read" /\ list = "community"
      /\ UNCHANGED <<serverVars, shifted>>
      /\ \/ Restart
         \/ /\ tag.revision = revision
            /\ \/ entry.tag = tag /\ Answer("not modified", entry.items, tag, more)
               \/ Answer("page", page, tag, more)
  BY DEF ListInv, ReadCommunity
<1>2. /\ tag \in TagType /\ votes \in VoteSets /\ tag.offset \in Offsets /\ shelf \in SUBSET Apps
      /\ dataAt \in Nat /\ revision \in Nat
  BY <1>1 DEF ListTypes, TagType
<1>3. page \in ItemLists /\ entry.items \in ItemLists
  BY <1>1, <1>2, OffsetFacts, PageType DEF ListTypes
<1>4. /\ Past(tag) /\ tag.offset = cursor.offset /\ tag.dataAt >= 0
      /\ tag.revision = revision => request.votes = votes
  BY <1>1 DEF ListInv, RequestOK
<1>5. ASSUME tag.revision = revision, NEW how \in {"page", "not modified"}, NEW items \in ItemLists,
             Answer(how, items, tag, more), ~unseen => items = page
      PROVE  AnswerFrom(how, items, tag, more, votes)
  <2>1. ~shifted /\ ~unseen /\ cursor # NoCursor => ShownSoFar(votes)
    BY <1>1, <1>4, <1>5 DEF ListInv, WalkOK
  <2>2. more = More(shelf, votes, tag.offset) /\ page = PageAt(shelf, votes, tag.offset)
    OBVIOUS
  <2> HIDE DEF more, tag, page
  <2> QED
    BY <1>2, <1>4, <1>5, <2>1, <2>2, Zenon DEF AnswerFrom
<1>6. ASSUME tag.revision = revision, entry.tag = tag, ~unseen PROVE entry.items = page
  <2>1. tag.dataAt = 0
    <3>1. tag.dataAt \in Int
      BY <1>2 DEF TagType
    <3>2. tag.dataAt <= IF list = "feed" THEN dataAt ELSE 0
      BY <1>4 DEF Past
    <3>3. tag.dataAt <= 0
      BY <1>1, <3>2
    <3> QED
      BY <1>4, <3>1, <3>3
  <2>2. tag = Tag(tag.offset, dataAt, revision)
    <3>1. tag = [offset |-> tag.offset, dataAt |-> tag.dataAt, revision |-> tag.revision]
      BY <1>2 DEF TagType
    <3>2. Tag(tag.offset, dataAt, revision) = [offset |-> tag.offset, dataAt |-> 0, revision |-> revision]
      BY <1>1 DEF Tag
    <3> QED
      BY <1>6, <2>1, <3>1, <3>2
  <2> QED
    BY <1>2, <1>6, <2>2 DEF ListInv, CacheOK
<1>7. CASE Restart
  BY <1>1, <1>2, <1>7
<1>8. CASE tag.revision = revision /\ entry.tag = tag /\ Answer("not modified", entry.items, tag, more)
  <2>1. AnswerFrom("not modified", entry.items, tag, more, votes)
    BY <1>3, <1>5, <1>6, <1>8
  <2>2. ~unseen => entry.items = page
    BY <1>6, <1>8
  <2>3. \E how \in {"page", "not modified"}, items \in ItemLists :
           AnswerFrom(how, items, tag, more, votes) /\ (~unseen => items = page)
    <3> HIDE DEF more, tag, page
    <3> QED
      BY <1>3, <2>1, <2>2, Zenon
  <2> QED
    BY <1>1, <1>2, <1>4, <1>8, <2>3
<1>9. CASE tag.revision = revision /\ Answer("page", page, tag, more)
  <2>1. AnswerFrom("page", page, tag, more, votes)
    BY <1>3, <1>5, <1>9
  <2>3. \E how \in {"page", "not modified"}, items \in ItemLists :
           AnswerFrom(how, items, tag, more, votes) /\ (~unseen => items = page)
    <3> HIDE DEF more, tag, page
    <3> QED
      BY <1>3, <2>1, Zenon
  <2> QED
    BY <1>1, <1>2, <1>4, <1>9, <2>3
<1> QED
  BY <1>1, <1>7, <1>8, <1>9

LEMMA WriteKeeps ==
    ASSUME ListInv,
           \/ Pass \/ StartWrite
           \/ \E u \in Voters : DeleteVoter(u)
           \/ \E u \in Voters, a \in Apps, intent \in BOOLEAN : SetPlayIntent(u, a, intent)
    PROVE  ListInv'
<1>1. /\ now \in Nat /\ stamp \in Int /\ voters \in SUBSET Voters /\ votes \in VoteSets
      /\ revision \in Nat
  BY DEF ListInv, ListTypes
<1>2. CASE Pass
  BY <1>1, <1>2, FrameKeeps DEF Pass
<1>3. CASE StartWrite
  BY <1>1, <1>3, FrameKeeps DEF StartWrite
<1>4. ASSUME NEW u \in Voters, DeleteVoter(u) PROVE ListInv'
  <2> DEFINE own == {x \in votes : x[1] = u}
  <2>1. /\ voters' = voters \ {u} /\ votes' = votes \ own
        /\ revision' = revision + Cardinality(own) + 1
        /\ UNCHANGED <<now, shelf, dataAt, stamp, readerVars, unseen, shifted>>
    BY <1>4 DEF DeleteVoter
  <2>2. IsFiniteSet(own) /\ IsFiniteSet(votes \ own)
    BY <1>1, FS_Subset DEF VoteSets
  <2>3. Cardinality(own) \in Nat
    BY <2>2, FS_CardinalityType
  <2> HIDE DEF own
  <2>4. votes' \in VoteSets
    BY <1>1, <2>1, <2>2 DEF VoteSets
  <2> QED
    BY <1>1, <2>1, <2>3, <2>4, FrameKeeps
<1>5. ASSUME NEW u \in Voters, NEW a \in Apps, NEW intent \in BOOLEAN,
             SetPlayIntent(u, a, intent)
      PROVE  ListInv'
  <2>1. /\ votes' = Voted(u, a, intent)
        /\ revision' = IF votes' # votes THEN revision + 1 ELSE revision
        /\ UNCHANGED <<now, shelf, dataAt, stamp, voters, readerVars, unseen, shifted>>
    BY <1>5 DEF SetPlayIntent
  <2>2. votes' \in VoteSets
    <3>1. IsFiniteSet(votes \cup {<<u, a>>}) /\ IsFiniteSet(votes \ {<<u, a>>})
      BY <1>1, FS_AddElement, FS_Subset DEF VoteSets
    <3> QED
      BY <1>1, <2>1, <3>1 DEF VoteSets, Voted
  <2> QED
    BY <1>1, <2>1, <2>2, FrameKeeps
<1> QED
  BY <1>2, <1>3, <1>4, <1>5

LEMMA ListInvKept ==
    ASSUME ListInv, [ListNext]_listVars
    PROVE  ListInv'
<1>1. CASE \/ Pass \/ StartWrite
           \/ \E u \in Voters : DeleteVoter(u)
           \/ \E u \in Voters, a \in Apps, intent \in BOOLEAN : SetPlayIntent(u, a, intent)
  BY <1>1, WriteKeeps
<1>2. CASE \E s \in SUBSET Apps, at \in 0..MaxNow : CommitWrite(s, at)
  BY <1>2, CommitKeeps
<1>3. CASE Ask
  BY <1>3, AskKeeps
<1>4. CASE BeginRequest
  BY <1>4, BeginKeeps
<1>5. CASE ReadFeed
  BY <1>5, ReadFeedAnswers, AnswerKeeps
<1>6. CASE ReadCommunity
  BY <1>6, ReadCommunityAnswers, RestartKeeps, AnswerKeeps
<1>7. CASE UNCHANGED listVars
  BY <1>7, FrameKeeps DEF listVars, readerVars, ListInv, ListTypes
<1> QED
  BY <1>1, <1>2, <1>3, <1>4, <1>5, <1>6, <1>7 DEF ListNext

LEMMA ListInvStarts ==
    ASSUME ListInit
    PROVE  ListInv
<1>1. /\ now = 0 /\ dataAt = 0 /\ stamp = NoStamp /\ shelf = Apps
      /\ voters = Voters /\ votes = {} /\ revision = 0
      /\ list \in Lists /\ request = Idle0
      /\ pages = <<>> /\ cursor = NoCursor
      /\ cache = [o \in Offsets |-> NoPage]
  BY DEF ListInit
<1>2. {} \in VoteSets
  BY FS_EmptySet DEF VoteSets
<1>3. NoPage \in [items : ItemLists, tag : TagType] /\ NoPage.tag = NoCursor
  BY NoneTypes DEF NoPage, ItemLists
<1>4. ListTypes
  BY <1>1, <1>2, <1>3, NoneTypes DEF ListTypes, NoStamp, PageLists
<1>5. Past(NoCursor)
  BY <1>1 DEF Past, NoCursor
<1>6. CursorOK /\ RequestOK /\ WalkOK
  BY <1>1, <1>5 DEF CursorOK, RequestOK, WalkOK, Idle0
<1>7. CacheOK
  <2> SUFFICES ASSUME NEW o \in Offsets, cache[o].tag = Tag(o, dataAt, revision) PROVE FALSE
    BY <1>1, <1>3, <1>5 DEF CacheOK
  <2>1. cache[o].tag.revision = -1
    BY <1>1, <1>3 DEF NoCursor
  <2>2. Tag(o, dataAt, revision).revision = 0
    BY <1>1 DEF Tag
  <2> QED
    BY <2>1, <2>2
<1> QED
  BY <1>4, <1>6, <1>7 DEF ListInv

(* Every state of a list and its reader satisfies the invariant.           *)
THEOREM ListStates ==
    ListSpec => []ListInv
<1>1. ListInit => ListInv
  BY ListInvStarts
<1>2. ListInv /\ [ListNext]_listVars => ListInv'
  BY ListInvKept
<1> QED
  BY <1>1, <1>2, PTL DEF ListSpec

-----------------------------------------------------------------------------
(* What a step that answers sends                                          *)

(* The votes that the request is answered with.                            *)
Used == IF request.stage = "read" THEN request.votes ELSE votes

LEMMA AnswerOfStep ==
    ASSUME ListInv, [ListNext]_listVars, Answered({"page", "not modified"})
    PROVE  /\ Used \in VoteSets
           /\ list # "feed" => Used = votes
           /\ \E how, items, tag, more :
                 /\ AnswerFrom(how, items, tag, more, Used)
                 /\ how = "not modified" /\ ~unseen => items = PageAt(shelf, votes, tag.offset)
<1>1. request # Idle0 /\ request' = Idle0 /\ verdict' \in {"page", "not modified"}
  BY DEF Answered
<1>2. ASSUME \/ Pass \/ StartWrite
             \/ \E u \in Voters : DeleteVoter(u)
             \/ \E u \in Voters, a \in Apps, intent \in BOOLEAN : SetPlayIntent(u, a, intent)
             \/ \E s \in SUBSET Apps, at \in 0..MaxNow : CommitWrite(s, at)
             \/ UNCHANGED listVars
      PROVE  FALSE
  <2>1. request' = request
    BY <1>2 DEF Pass, StartWrite, DeleteVoter, SetPlayIntent, CommitWrite, listVars, readerVars
  <2> QED
    BY <1>1, <2>1
<1>3. ~Ask
  BY <1>1 DEF Ask
<1>4. ~Restart
  BY <1>1 DEF Restart
<1>5. CASE BeginRequest
  <2> DEFINE tag == Tag(cursor.offset, dataAt, revision)
             items == cache[tag.offset].items
             more == More(shelf, votes, tag.offset)
  <2>1. request' # [stage |-> "read", tag |-> tag, votes |-> votes]
    <3>1. [stage |-> "read", tag |-> tag, votes |-> votes].stage # Idle0.stage
      BY DEF Idle0
    <3> QED
      BY <1>1, <3>1
  <2>2. list = "feed" /\ AnswerFrom("not modified", items, tag, more, votes)
    BY <1>4, <1>5, <2>1, BeginCases
  <2>3. Used = votes /\ votes \in VoteSets
    BY <1>5, BeginCases DEF Used, ListInv, ListTypes
  <2>4. tag = Tag(tag.offset, dataAt, revision)
    <3>1. cursor.offset \in Offsets /\ dataAt \in Nat /\ revision \in Nat
      BY DEF ListInv, ListTypes, TagType
    <3> QED
      BY <3>1, TagFacts, ZenonT(60)
  <2>5. ~unseen => items = PageAt(shelf, votes, tag.offset)
    BY <2>2, <2>4 DEF AnswerFrom
  <2> HIDE DEF tag, items, more
  <2> QED
    BY <2>2, <2>3, <2>5
<1>6. CASE ReadFeed
  <2> DEFINE items == PageAt(shelf, request.votes, request.tag.offset)
             more == More(shelf, request.votes, request.tag.offset)
  <2>1. /\ list = "feed" /\ Used = request.votes /\ Used \in VoteSets
        /\ AnswerFrom("page", items, request.tag, more, request.votes)
    BY <1>6, ReadFeedAnswers DEF Used
  <2>2. "page" = "not modified" /\ ~unseen => items = PageAt(shelf, votes, request.tag.offset)
    OBVIOUS
  <2> HIDE DEF items, more
  <2> QED
    BY <2>1, <2>2, Zenon
<1>7. CASE ReadCommunity
  <2> DEFINE more == More(shelf, votes, request.tag.offset)
  <2>1. /\ Used = votes /\ Used \in VoteSets
        /\ \E how \in {"page", "not modified"}, items \in ItemLists :
               /\ AnswerFrom(how, items, request.tag, more, votes)
               /\ ~unseen => items = PageAt(shelf, votes, request.tag.offset)
    BY <1>4, <1>7, ReadCommunityAnswers DEF Used
  <2> HIDE DEF more
  <2> QED
    BY <2>1
<1> QED
  BY <1>2, <1>3, <1>5, <1>6, <1>7 DEF ListNext

(* The cache is honest: a 304 of get_feed or get_community_play_intents    *)
(* stands for the very page the server would send.                         *)
THEOREM NotModifiedStandsForThePage ==
    ListSpec => NotModifiedIsTrue
<1>1. ASSUME ListInv, [ListNext]_listVars, Answered({"not modified"}), ~unseen
      PROVE  Last(pages') = PageAt(shelf, votes, (Len(pages') - 1) * PageSize)
  <2>1. Answered({"page", "not modified"}) /\ verdict' = "not modified"
    BY <1>1 DEF Answered
  <2>2. PICK how, items, tag, more :
               /\ AnswerFrom(how, items, tag, more, Used)
               /\ how = "not modified" /\ ~unseen => items = PageAt(shelf, votes, tag.offset)
    BY <1>1, <2>1, AnswerOfStep
  <2>3. how = "not modified"
    BY <2>1, <2>2 DEF AnswerFrom, Answer
  <2>4. Last(pages') = items /\ tag.offset = (Len(pages') - 1) * PageSize
    <3>1. Used \in VoteSets
      BY <1>1, <2>1, AnswerOfStep
    <3> QED
      BY <1>1, <2>2, <3>1, AnswerPages
  <2> QED
    BY <1>1, <2>2, <2>3, <2>4
<1>2. ListInv /\ [ListNext]_listVars =>
          [(Answered({"not modified"}) /\ ~unseen)
             => Last(pages') = PageAt(shelf, votes, (Len(pages') - 1) * PageSize)]_listVars
  BY <1>1
<1> QED
  BY <1>2, ListStates, PTL DEF ListSpec, NotModifiedIsTrue

(* Paging is exact: a walk answered from one catalog shows the whole list  *)
(* of get_feed or get_community_play_intents, in order and once, whatever  *)
(* votes and accounts come and go between its pages.                       *)
THEOREM WalksShowTheList ==
    ListSpec => WalkIsExact
<1> DEFINE seen == IF request.stage = "read" THEN request.votes ELSE votes
           whole == Listed(shelf, IF list = "feed" THEN seen ELSE votes)
           sent == [i \in DOMAIN whole |-> [app |-> whole[i], count |-> Count(seen, whole[i])]]
<1>1. ASSUME ListInv, [ListNext]_listVars, Answered({"page", "not modified"}),
             cursor' = NoCursor, ~shifted, ~unseen
      PROVE  FlattenSeq(pages') = sent
  <2>1. list # "feed" => Used = votes
    BY <1>1, AnswerOfStep
  <2>2. PICK how, items, tag, more : AnswerFrom(how, items, tag, more, Used)
    BY <1>1, AnswerOfStep
  <2>3. seen = Used /\ (IF list = "feed" THEN seen ELSE votes) = Used
    BY <2>1 DEF Used
  <2>4. sent = Sent(shelf, Used)
    BY <2>3 DEF Sent
  <2>5. ~more
    <3> SUFFICES ASSUME more PROVE FALSE
      OBVIOUS
    <3>1. tag \in TagType /\ cursor' = [tag EXCEPT !.offset = @ + PageSize]
      BY <2>2 DEF AnswerFrom, Answer
    <3>2. tag.offset \in Nat /\ PageSize \in Nat \ {0}
      BY <3>1, OffsetFacts, ListingAssumption DEF TagType
    <3>3. cursor'.offset = tag.offset + PageSize
      BY <3>1 DEF TagType
    <3>4. cursor'.offset = 0
      BY <1>1 DEF NoCursor
    <3> QED
      BY <3>2, <3>3, <3>4
  <2>6. Used \in VoteSets
    BY <1>1, AnswerOfStep
  <2>7. FlattenSeq(pages') = Sent(shelf, Used)
    <3>1. ListInv /\ ~shifted /\ ~unseen
      BY <1>1
    <3> QED
      BY <2>2, <2>5, <2>6, <3>1, AnswerPages
  <2> QED
    BY <2>4, <2>7
<1>2. ListInv /\ [ListNext]_listVars =>
          [(Answered({"page", "not modified"}) /\ cursor' = NoCursor /\ ~shifted /\ ~unseen)
             => FlattenSeq(pages') = sent]_listVars
  BY <1>1
<1> QED
  BY <1>2, ListStates, PTL DEF ListSpec, WalkIsExact

(* The bounds that the actions' guards keep: the clock's, and of a stamp   *)
(* or the catalog's time, which are readings of it.                        *)
ListBounds ==
    /\ now \in 0..MaxNow /\ dataAt \in 0..MaxNow /\ stamp \in {NoStamp} \cup 0..MaxNow
    /\ verdict \in {"none", "page", "not modified", "stale"}

LEMMA BoundsKept ==
    ASSUME ListInv, ListBounds, [ListNext]_listVars
    PROVE  ListBounds'
<1>1. MaxNow \in Nat /\ now \in 0..MaxNow /\ dataAt \in 0..MaxNow
  BY ListingAssumption DEF ListBounds
<1>2. CASE Pass
  <2>1. now' = now + 1 /\ now < MaxNow /\ UNCHANGED <<dataAt, stamp, verdict>>
    BY <1>2 DEF Pass, readerVars
  <2>2. now' \in 0..MaxNow
    BY <1>1, <2>1
  <2> QED
    BY <2>1, <2>2 DEF ListBounds
<1>3. CASE StartWrite
  BY <1>1, <1>3 DEF StartWrite, ListBounds, readerVars
<1>4. ASSUME NEW s \in SUBSET Apps, NEW at \in 0..MaxNow, CommitWrite(s, at)
      PROVE  ListBounds'
  <2>1. Max({dataAt, at}) \in {dataAt, at}
    <3>1. {dataAt, at} \in SUBSET (0..MaxNow) /\ {dataAt, at} # {}
      BY <1>1
    <3> QED
      BY <1>1, <3>1, MaxOf
  <2>2. /\ now' = now /\ stamp' \in {stamp, NoStamp} /\ verdict' = verdict
        /\ dataAt' = Max({dataAt, at})
    BY <1>4 DEF CommitWrite, readerVars
  <2> QED
    BY <1>1, <2>1, <2>2 DEF ListBounds
<1>5. ASSUME UNCHANGED <<now, stamp, dataAt>>,
             verdict' \in {verdict, "none", "page", "not modified", "stale"}
      PROVE  ListBounds'
  BY <1>5 DEF ListBounds
<1>6. CASE \/ \E u \in Voters : DeleteVoter(u)
           \/ \E u \in Voters, a \in Apps, intent \in BOOLEAN : SetPlayIntent(u, a, intent)
           \/ UNCHANGED listVars
  BY <1>5, <1>6 DEF DeleteVoter, SetPlayIntent, listVars, readerVars
<1>7. CASE Ask
  BY <1>5, <1>7 DEF Ask, serverVars
<1>8. CASE BeginRequest
  BY <1>5, <1>8 DEF BeginRequest, serverVars, Restart, Answer
<1>9. CASE ReadFeed
  BY <1>5, <1>9 DEF ReadFeed, serverVars, Answer
<1>10. CASE ReadCommunity
  BY <1>5, <1>10 DEF ReadCommunity, serverVars, Restart, Answer
<1> QED
  BY <1>2, <1>3, <1>4, <1>6, <1>7, <1>8, <1>9, <1>10 DEF ListNext

(* The variables have their types.                                         *)
THEOREM ListTypesHold ==
    ListSpec => []ListTypeOK
<1>1. ListInit => ListBounds
  BY ListingAssumption DEF ListInit, ListBounds
<1>2. ListInv /\ ListBounds /\ [ListNext]_listVars => ListBounds'
  BY BoundsKept
<1>3. ListInv /\ ListBounds => ListTypeOK
  BY DEF ListInv, ListTypes, ListBounds, ListTypeOK, VoteSets, RequestStages, TagType
<1> QED
  BY <1>1, <1>2, <1>3, ListStates, PTL DEF ListSpec

-----------------------------------------------------------------------------
(* The parts together: each moves by its own steps, or not at all.         *)

OneMoves == focus \in Parts

LEMMA PartsStart ==
    ServerInit => /\ AvatarInit /\ ListInit /\ MemberInit /\ BudgetInit /\ RouterInit /\ RankInit
                  /\ CurationInit /\ ReleaseInit /\ EnrichInit /\ LimitInit /\ SearchInit
                  /\ RetrievalInit /\ MigrationInit /\ OneMoves
  BY DEF ServerInit, OneMoves

(* In every step of the server the part that has the focus takes a step of *)
(* its own, and the others keep their state.                               *)
LEMMA AvatarMoves == [ServerNext]_serverVariables => [AvatarNext]_avatarVars
  BY DEF ServerNext, OthersRest, Rest, serverVariables

LEMMA ListMoves == [ServerNext]_serverVariables => [ListNext]_listVars
  BY DEF ServerNext, OthersRest, Rest, serverVariables

LEMMA MemberMoves == [ServerNext]_serverVariables => [MemberNext]_memberVars
  BY DEF ServerNext, OthersRest, Rest, serverVariables

LEMMA BudgetMoves == [ServerNext]_serverVariables => [BudgetNext]_budgetVars
  BY DEF ServerNext, OthersRest, Rest, serverVariables

LEMMA RouterMoves == [ServerNext]_serverVariables => [RouterNext]_routerVars
  BY DEF ServerNext, OthersRest, Rest, serverVariables

LEMMA RankMoves == [ServerNext]_serverVariables => [RankNext]_rankVars
  BY DEF ServerNext, OthersRest, Rest, serverVariables

LEMMA CurationMoves == [ServerNext]_serverVariables => [CurationNext]_curationVars
  BY DEF ServerNext, OthersRest, Rest, serverVariables

LEMMA ReleaseMoves == [ServerNext]_serverVariables => [ReleaseNext]_releaseVars
  BY DEF ServerNext, OthersRest, Rest, serverVariables

LEMMA EnrichMoves == [ServerNext]_serverVariables => [EnrichNext]_enrichVars
  BY DEF ServerNext, OthersRest, Rest, serverVariables

LEMMA LimitMoves == [ServerNext]_serverVariables => [LimitNext]_limitVars
  BY DEF ServerNext, OthersRest, Rest, serverVariables

LEMMA SearchMoves == [ServerNext]_serverVariables => [SearchNext]_searchVars
  BY DEF ServerNext, OthersRest, Rest, serverVariables

LEMMA RetrievalMoves == [ServerNext]_serverVariables => [RetrievalNext]_retrievalVars
  BY DEF ServerNext, OthersRest, Rest, serverVariables

LEMMA MigrationMoves == [ServerNext]_serverVariables => [MigrationNext]_migrationVars
  BY DEF ServerNext, OthersRest, Rest, serverVariables

LEMMA FocusStays == OneMoves /\ [ServerNext]_serverVariables => OneMoves'
  BY DEF OneMoves, ServerNext, OthersRest, serverVariables

(* A behaviour of the server is a behaviour of each of its parts, so that  *)
(* every theorem about a part holds in the server that is run.             *)
THEOREM ServerIsItsParts ==
    ServerSpec => /\ AvatarSpec /\ ListSpec /\ MemberSpec /\ BudgetSpec /\ RouterSpec /\ RankSpec
                  /\ CurationSpec /\ ReleaseSpec /\ EnrichSpec /\ LimitSpec /\ SearchSpec
                  /\ RetrievalSpec /\ MigrationSpec
<1>1. ServerSpec => AvatarSpec
  BY PartsStart, AvatarMoves, PTL DEF ServerSpec, AvatarSpec
<1>2. ServerSpec => ListSpec
  BY PartsStart, ListMoves, PTL DEF ServerSpec, ListSpec
<1>3. ServerSpec => MemberSpec
  BY PartsStart, MemberMoves, PTL DEF ServerSpec, MemberSpec
<1>4. ServerSpec => BudgetSpec
  BY PartsStart, BudgetMoves, PTL DEF ServerSpec, BudgetSpec
<1>5. ServerSpec => RouterSpec
  BY PartsStart, RouterMoves, PTL DEF ServerSpec, RouterSpec
<1>6. ServerSpec => RankSpec
  BY PartsStart, RankMoves, PTL DEF ServerSpec, RankSpec
<1>7. ServerSpec => CurationSpec
  BY PartsStart, CurationMoves, PTL DEF ServerSpec, CurationSpec
<1>8. ServerSpec => ReleaseSpec
  BY PartsStart, ReleaseMoves, PTL DEF ServerSpec, ReleaseSpec
<1>9. ServerSpec => EnrichSpec
  BY PartsStart, EnrichMoves, PTL DEF ServerSpec, EnrichSpec
<1>10. ServerSpec => LimitSpec
  BY PartsStart, LimitMoves, PTL DEF ServerSpec, LimitSpec
<1>11. ServerSpec => SearchSpec
  BY PartsStart, SearchMoves, PTL DEF ServerSpec, SearchSpec
<1>12. ServerSpec => RetrievalSpec
  BY PartsStart, RetrievalMoves, PTL DEF ServerSpec, RetrievalSpec
<1>13. ServerSpec => MigrationSpec
  BY PartsStart, MigrationMoves, PTL DEF ServerSpec, MigrationSpec
<1> QED
  BY <1>1, <1>2, <1>3, <1>4, <1>5, <1>6, <1>7, <1>8, <1>9, <1>10, <1>11, <1>12, <1>13

(* Whatever part of the server moves, it is well typed and what it writes  *)
(* stays in range, for any users, games, providers, quotas and versions.   *)
THEOREM PartsTyped == ServerSpec => []TypesOK
<1>1. ServerSpec => []OneMoves
  BY PartsStart, FocusStays, PTL DEF ServerSpec
<1>2. /\ OneMoves /\ AvatarTypeOK /\ ListTypeOK /\ MemberTypeOK /\ BudgetTypeOK /\ RouterTypeOK
      /\ RankTypeOK /\ CurationTypeOK /\ ReleaseTypeOK /\ EnrichTypeOK /\ LimitTypeOK
      /\ SearchTypeOK /\ RetrievalTypeOK /\ MigrationTypeOK
      => TypesOK
  BY DEF TypesOK, OneMoves, Parts
<1> QED
  BY <1>1, <1>2, ServerIsItsParts, AvatarTypesHold, ListTypesHold, MemberTypesHold,
     BudgetTypesHold, RouterTypesHold, RankTypesHold, CurationTypesHold, ReleaseTypesHold,
     EnrichTypesHold, LimitTypesHold, SearchTypesHold, IndexTypesHold, MigrationTypesHold, PTL

=============================================================================
