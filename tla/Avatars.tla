------------------------------ MODULE Avatars ------------------------------
(***************************************************************************)
(* The avatar of one account: its row in user_avatars, the moderator's     *)
(* block, the image files and the handlers of apps/server/src/api.rs that  *)
(* work on all three. A file is named after its account and its content,   *)
(* so accounts share nothing and one of them is the general case.          *)
(*                                                                         *)
(* Each await of a handler ends a step: between two of them any other      *)
(* handler may run, and the client may go away, which drops the rest.      *)
(***************************************************************************)
EXTENDS Integers, Sequences, SequencesExt

CONSTANTS Images,          \* contents after processing, by hash
          Uploads,         \* requests that may be under way at once
          NoImage,         \* no row, no block, nothing to remove
          MaxVersion,      \* bound on row versions
          MaxDecisions     \* bound on moderation decisions that took effect

ASSUME AvatarAssumption ==
    /\ NoImage \notin Images
    /\ MaxVersion \in Nat \ {0} /\ MaxDecisions \in Nat

VARIABLES active,       \* is the account active?
          avatar,       \* the row: [version, image], image = NoImage: no row
          block,        \* content_hash in avatar_moderation
          files,        \* images in the avatar directory
          upload,       \* what each request has still to do
          audit,        \* audit_events, oldest first
          overlapped,   \* history: two requests were under way at once
          dropped       \* history: a request was dropped or failed half-way

avatarVars == <<active, avatar, block, files, upload, audit, overlapped, dropped>>

MaybeImage == Images \cup {NoImage}
NoRow == [version |-> 0, image |-> NoImage]

(* A request: stage, the image it stores, the image it removes at the end. *)
Requests == [stage : {"idle", "encode", "write", "store", "remove"},
             image : MaybeImage, old : MaybeImage]
Idle == [stage |-> "idle", image |-> NoImage, old |-> NoImage]

AvatarInit ==
    /\ active = TRUE /\ avatar = NoRow /\ block = NoImage /\ files = {}
    /\ upload = [p \in Uploads |-> Idle]
    /\ audit = <<>> /\ overlapped = FALSE /\ dropped = FALSE

(* avatar_by_public_id: the picture of an active account, unless the block *)
(* names it.                                                               *)
Visible == IF active /\ block # avatar.image THEN avatar.image ELSE NoImage

(* get_avatar: the default picture stands in for a file that is missing.   *)
Shown == IF Visible \in files THEN Visible ELSE NoImage

Overlaps(p) == \E q \in Uploads \ {p} : upload[q].stage # "idle"

Advance(p, request) ==
    /\ upload' = [upload EXCEPT ![p] = request]
    /\ overlapped' = (overlapped \/ Overlaps(p))

(* The end of a request removes the file it names, if it names one.        *)
Removing(old) == IF old = NoImage THEN Idle ELSE [Idle EXCEPT !.stage = "remove", !.old = old]

(***************************************************************************)
(* put_avatar                                                              *)
(***************************************************************************)

(* require_account and account_profile: the key of the current file is     *)
(* read before anything is written.                                        *)
BeginPut(p, image) ==
    /\ upload[p].stage = "idle" /\ active
    /\ Advance(p, [stage |-> "encode", image |-> image, old |-> avatar.image])
    /\ UNCHANGED <<active, avatar, block, files, audit, dropped>>

(* process_avatar_image accepts the picture or refuses it with a 400.      *)
Encode(p, accepted) ==
    /\ upload[p].stage = "encode"
    /\ Advance(p, IF accepted THEN [upload[p] EXCEPT !.stage = "write"] ELSE Idle)
    /\ UNCHANGED <<active, avatar, block, files, audit, dropped>>

(* write_avatar_file, or a 503 when the directory cannot be written.       *)
WriteFile(p, written) ==
    /\ upload[p].stage = "write"
    /\ IF written THEN files' = files \cup {upload[p].image} ELSE UNCHANGED files
    /\ Advance(p, IF written THEN [upload[p] EXCEPT !.stage = "store"] ELSE Idle)
    /\ UNCHANGED <<active, avatar, block, audit, dropped>>

(* set_avatar_metadata: one transaction that puts the row and lifts a      *)
(* block on other content.                                                 *)
StoredRow(image) == [version |-> avatar.version + 1, image |-> image]

BlockAfter(image) == IF block = image THEN block ELSE NoImage

(* What is left to remove: the picture replaced, or, for an account that   *)
(* was deleted meanwhile, the file just written; never the one that is     *)
(* in both places.                                                         *)
\* Mutant: the old file is removed even when it is the new one.
LeftoverAlways(new, old) == IF active THEN old ELSE new
Leftover(new, old) == IF old = new THEN NoImage ELSE IF active THEN old ELSE new

StoreRow(p) ==
    LET new == upload[p].image
        old == upload[p].old
    IN  /\ upload[p].stage = "store" /\ avatar.version < MaxVersion
        /\ avatar' = IF active THEN StoredRow(new) ELSE avatar
        /\ block' = IF active THEN BlockAfter(new) ELSE block
        /\ Advance(p, Removing(Leftover(new, old)))
        /\ UNCHANGED <<active, files, audit, dropped>>

(* remove_avatar_file; a file already gone is no error.                    *)
RemoveFile(p) ==
    /\ upload[p].stage = "remove"
    /\ files' = files \ {upload[p].old}
    /\ Advance(p, Idle)
    /\ UNCHANGED <<active, avatar, block, audit, dropped>>

(***************************************************************************)
(* delete_avatar, delete_me, moderation                                    *)
(***************************************************************************)

(* delete_avatar_metadata: the row and any block go together.              *)
RowGoes == avatar' = NoRow /\ block' = NoImage

DeleteAvatar(p) ==
    /\ upload[p].stage = "idle" /\ active /\ RowGoes
    /\ Advance(p, Removing(avatar.image))
    /\ UNCHANGED <<active, files, audit, dropped>>

(* delete_account, as far as the avatar is concerned.                      *)
DeleteAccount(p) ==
    /\ upload[p].stage = "idle" /\ active
    /\ active' = FALSE /\ RowGoes
    /\ Advance(p, Removing(avatar.image))
    /\ UNCHANGED <<files, audit, dropped>>

(* set_avatar_moderation: the decision falls on the image the row has now. *)
(* A decision that changes nothing leaves no trace; one that lifts a stale *)
(* block leaves the version alone.                                         *)
Changes(blocked) == IF blocked THEN block # avatar.image ELSE block # NoImage

Moderate(blocked) ==
    LET visible == blocked \/ block = avatar.image
    IN  /\ avatar.image # NoImage /\ Changes(blocked)
        /\ Len(audit) < MaxDecisions /\ avatar.version < MaxVersion
        /\ block' = IF blocked THEN avatar.image ELSE NoImage
        /\ avatar' = IF visible THEN [avatar EXCEPT !.version = @ + 1] ELSE avatar
        /\ audit' = Append(audit, [image |-> avatar.image, blocked |-> blocked])
        /\ UNCHANGED <<active, files, upload, overlapped, dropped>>

(* The client goes away, or a step fails: the rest of the request is lost. *)
Drop(p) ==
    /\ upload[p].stage # "idle"
    /\ Advance(p, Idle)
    /\ dropped' = TRUE
    /\ UNCHANGED <<active, avatar, block, files, audit>>

AvatarNext ==
    \/ \E p \in Uploads :
         \/ \E image \in Images : BeginPut(p, image)
         \/ \E accepted \in BOOLEAN : Encode(p, accepted)
         \/ \E written \in BOOLEAN : WriteFile(p, written)
         \/ StoreRow(p) \/ RemoveFile(p)
         \/ DeleteAvatar(p) \/ DeleteAccount(p) \/ Drop(p)
    \/ \E blocked \in BOOLEAN : Moderate(blocked)

AvatarSpec == AvatarInit /\ [][AvatarNext]_avatarVars

(***************************************************************************)
(* Properties                                                              *)
(***************************************************************************)

AvatarTypeOK ==
    /\ active \in BOOLEAN /\ overlapped \in BOOLEAN /\ dropped \in BOOLEAN
    /\ avatar \in [version : 0..MaxVersion, image : MaybeImage]
    /\ block \in MaybeImage /\ files \subseteq Images
    /\ upload \in [Uploads -> Requests]
    /\ audit \in Seq([image : Images, blocked : BOOLEAN]) /\ Len(audit) <= MaxDecisions

(* As long as no two requests of an account were under way at once, the    *)
(* picture an account should show is shown, a blocked one is still there   *)
(* to be unblocked, whatever failed or was dropped; and when nothing was,  *)
(* no file outlives its row.                                               *)
FilesMatchRow ==
    ~overlapped =>
        /\ Shown = Visible
        /\ (block # NoImage /\ block = avatar.image) => block \in files
        /\ (~dropped /\ \A p \in Uploads : upload[p] = Idle)
             => files = {avatar.image} \ {NoImage}
=============================================================================
