------------------------------- MODULE Avatars -------------------------------
(***************************************************************************)
(* services/avatar.go: the picture of one account, a file and the column   *)
(* that names it, while uploads and deletions overlap, fail half-way or    *)
(* die with the process.  Accounts share nothing: a file's name begins     *)
(* with the account's id, and its random part is never drawn twice.        *)
(***************************************************************************)
CONSTANTS Editor,     \* requests
          Picture,    \* file names
          NoPicture   \* the empty string

ASSUME PictureAssumption == NoPicture \notin Picture

VARIABLES
  avatar,   \* users.avatar_filename
  files,    \* what is in AvatarDir
  edits,    \* the requests in progress
  untidy    \* history: something may have left a file behind, see NothingLeftBehind

avatarVars == <<avatar, files, edits, untidy>>

Edit == {"none",
         "copying",     \* SaveAvatar: next CopyPicture
         "copied",      \* next LookUpOld
         "naming",      \* next NamePicture
         "found",       \* DeleteAvatar: next ClearColumn
         "replaced"}    \* either, next RemoveOld

\* The request's new file is not named yet.
Unnamed(e) == edits[e].pc \in {"copying", "copied", "naming"}

NoEdit == [pc |-> "none", new |-> NoPicture, old |-> NoPicture]

AvatarTypeOK ==
  /\ avatar \in Picture \cup {NoPicture}
  /\ files \in [Picture -> {"unused", "part", "whole", "gone"}]
  /\ edits \in [Editor -> [pc : Edit, new : Picture \cup {NoPicture},
                           old : Picture \cup {NoPicture}]]
  /\ untidy \in BOOLEAN

AvatarInit ==
  /\ avatar = NoPicture
  /\ files = [p \in Picture |-> "unused"]
  /\ edits = [e \in Editor |-> NoEdit]
  /\ untidy = FALSE

\* os.Remove, whose error nobody looks at
Delete(p) ==
  \/ /\ files' = [files EXCEPT ![p] = "gone"]
     /\ UNCHANGED untidy
  \/ UNCHANGED files /\ untidy' = TRUE

EditEnds(e) == edits' = [edits EXCEPT ![e] = NoEdit]

-----------------------------------------------------------------------------
(* SaveAvatar *)

CreatePicture(e, p) ==
  /\ edits[e].pc = "none"
  /\ files[p] = "unused"
  /\ files' = [files EXCEPT ![p] = "part"]
  /\ edits' = [edits EXCEPT ![e] = [NoEdit EXCEPT !.pc = "copying", !.new = p]]
  /\ UNCHANGED <<avatar, untidy>>

CopyPicture(e) ==
  /\ edits[e].pc = "copying"
  /\ files' = [files EXCEPT ![edits[e].new] = "whole"]
  /\ edits' = [edits EXCEPT ![e].pc = "copied"]
  /\ UNCHANGED <<avatar, untidy>>

\* The upload breaks off, is too large, or the disk is full; or the row cannot
\* be read, or not be written: the new file goes.
SaveFails(e) ==
  /\ Unnamed(e)
  /\ Delete(edits[e].new)
  /\ EditEnds(e)
  /\ UNCHANGED avatar

\* Mutant of LookUpOld: the old file goes first, then the column changes.
LookUpOldRemoving(e) ==
  /\ edits[e].pc = "copied"
  /\ edits' = [edits EXCEPT ![e].pc = "naming", ![e].old = avatar]
  /\ files' = [p \in Picture |-> IF p = avatar THEN "gone" ELSE files[p]]
  /\ UNCHANGED <<avatar, untidy>>

LookUpOld(e) ==
  /\ edits[e].pc = "copied"
  /\ edits' = [edits EXCEPT ![e].pc = "naming", ![e].old = avatar]
  /\ UNCHANGED <<avatar, files, untidy>>

\* The column is overwritten whatever it holds by now.
Overwrite(e, p) ==
  /\ avatar' = p
  /\ untidy' = (untidy \/ avatar \notin {edits[e].old, NoPicture})
  /\ IF edits[e].old = NoPicture THEN EditEnds(e)
     ELSE edits' = [edits EXCEPT ![e].pc = "replaced"]
  /\ UNCHANGED files

NamePicture(e) == edits[e].pc = "naming" /\ Overwrite(e, edits[e].new)

RemoveOld(e) ==
  /\ edits[e].pc = "replaced"
  /\ Delete(edits[e].old)
  /\ EditEnds(e)
  /\ UNCHANGED avatar

-----------------------------------------------------------------------------
(* DeleteAvatar *)

FindPicture(e) ==
  /\ edits[e].pc = "none"
  /\ avatar # NoPicture
  /\ edits' = [edits EXCEPT ![e] = [NoEdit EXCEPT !.pc = "found", !.old = avatar]]
  /\ UNCHANGED <<avatar, files, untidy>>

ClearColumn(e) == edits[e].pc = "found" /\ Overwrite(e, NoPicture)

ClearFails(e) ==
  /\ edits[e].pc = "found"
  /\ EditEnds(e)
  /\ UNCHANGED <<avatar, files, untidy>>

\* The process dies: nobody looks for files it leaves behind.
EditsDie ==
  /\ \E e \in Editor : edits[e] # NoEdit
  /\ edits' = [e \in Editor |-> NoEdit]
  /\ untidy' = TRUE
  /\ UNCHANGED <<avatar, files>>

AvatarNext ==
  \/ \E e \in Editor :
       \/ \E p \in Picture : CreatePicture(e, p)
       \/ CopyPicture(e) \/ SaveFails(e) \/ LookUpOld(e) \/ NamePicture(e) \/ RemoveOld(e)
       \/ FindPicture(e) \/ ClearColumn(e) \/ ClearFails(e)
  \/ EditsDie

AvatarSpec == AvatarInit /\ [][AvatarNext]_avatarVars

-----------------------------------------------------------------------------
\* The picture an account names is there, and whole.
NamedIsWhole == avatar # NoPicture => files[avatar] = "whole"

\* A file nobody names is one that a request in progress is about to name or to
\* remove.
NothingLeftBehind ==
  \A p \in Picture :
    files[p] \in {"part", "whole"} =>
      \/ p = avatar
      \/ \E e \in Editor : \/ Unnamed(e) /\ p = edits[e].new
                           \/ edits[e].pc = "replaced" /\ p = edits[e].old

\* File and column agree: the column never names a missing or unfinished file,
\* whatever overlaps, fails or dies; and no file is left behind, unless a request
\* overwrote a name that it had not read, a removal failed, or the process died.
AvatarsAgree == NamedIsWhole /\ (untidy \/ NothingLeftBehind)
=============================================================================
