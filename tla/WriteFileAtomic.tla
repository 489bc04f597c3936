--------------------------- MODULE WriteFileAtomic ---------------------------
(***************************************************************************)
(* Concurrent calls of utils.WriteFileAtomic for one path: ops.json,       *)
(* whitelist.json and usercache.json are rewritten by request handlers     *)
(* that take no lock, while the Minecraft server and other handlers read   *)
(* them.  The API process may die at any moment.                           *)
(***************************************************************************)
EXTENDS TmpRename

VARIABLES pc,     \* where each writer is in its call
          buf,    \* fileContent of the call in progress, Absent when there is none
          mixed   \* history: two calls have been in progress at once

vars == <<tmp, file, fd, pc, buf, mixed>>

Label == {"idle",      \* next: BeginWrite
          "opened",    \* next: FillTmp, FillTmpFails
          "filled",    \* next: Publish, PublishFails
          "cleaning"}  \* next: CleanUp

TypeOK ==
  /\ FilesTypeOK
  /\ pc \in [Writer -> Label]
  /\ buf \in [Writer -> Content]
  /\ mixed \in BOOLEAN

Init ==
  /\ tmp = Absent
  /\ file \in Value \cup {Absent}
  /\ fd = [w \in Writer |-> "none"]
  /\ pc = [w \in Writer |-> "idle"]
  /\ buf = [w \in Writer |-> Absent]
  /\ mixed = FALSE

Busy == {w \in Writer : pc[w] # "idle"}

BeginWrite(w, v) ==
  /\ pc[w] = "idle"
  /\ Open(w)
  /\ pc' = [pc EXCEPT ![w] = "opened"]
  /\ buf' = [buf EXCEPT ![w] = v]
  /\ mixed' = (mixed \/ Busy # {})

FillTmp(w) ==
  /\ pc[w] = "opened"
  /\ Write(w, buf[w])
  /\ pc' = [pc EXCEPT ![w] = "filled"]
  /\ UNCHANGED <<buf, mixed>>

\* The temporary file is left behind, as far as it got.
FillTmpFails(w) ==
  /\ pc[w] = "opened"
  /\ WriteFails(w)
  /\ pc' = [pc EXCEPT ![w] = "idle"]
  /\ buf' = [buf EXCEPT ![w] = Absent]
  /\ UNCHANGED mixed

Publish(w) ==
  /\ pc[w] = "filled"
  /\ Rename
  /\ pc' = [pc EXCEPT ![w] = "idle"]
  /\ buf' = [buf EXCEPT ![w] = Absent]
  /\ UNCHANGED mixed

PublishFails(w) ==
  /\ pc[w] = "filled"
  /\ RenameFails
  /\ pc' = [pc EXCEPT ![w] = "cleaning"]
  /\ UNCHANGED <<buf, mixed>>

CleanUp(w) ==
  /\ pc[w] = "cleaning"
  /\ Remove
  /\ pc' = [pc EXCEPT ![w] = "idle"]
  /\ buf' = [buf EXCEPT ![w] = Absent]
  /\ UNCHANGED mixed

\* The Minecraft server writes the file itself, at once as far as readers here
\* can tell.
OtherWrite(v) ==
  /\ file' = v
  /\ UNCHANGED <<tmp, fd, pc, buf, mixed>>

Crash ==
  /\ CloseAll
  /\ pc' = [w \in Writer |-> "idle"]
  /\ buf' = [w \in Writer |-> Absent]
  /\ UNCHANGED mixed

Next ==
  \/ \E w \in Writer : \/ \E v \in Value : BeginWrite(w, v)
                       \/ FillTmp(w) \/ FillTmpFails(w)
                       \/ Publish(w)
                       \/ PublishFails(w)
                       \/ CleanUp(w)
  \/ \E v \in Value : OtherWrite(v)
  \/ Crash

Spec == Init /\ [][Next]_vars

-----------------------------------------------------------------------------
Whole == file \in Value \cup {Absent}

\* Why: the only call in progress owns the temporary file, which is empty
\* until it is filled, and nobody holds a descriptor of the target.
LoneWriter ==
  /\ \A u, w \in Busy : u = w
  /\ \A w \in Writer :
       CASE pc[w] = "opened" -> fd[w] = "tmp" /\ tmp = Empty /\ buf[w] \in Value
         [] pc[w] = "filled" -> fd[w] = "none" /\ tmp = buf[w] /\ buf[w] \in Value
         [] OTHER -> fd[w] = "none"

LoneUnlessMixed == ~mixed => LoneWriter

\* The comment over WriteFileAtomic: "a reader (or a crash mid-write) never
\* observes a partially-written file".  It is so as long as calls do not
\* overlap, whatever step a crash or a failure falls on: a temporary file left
\* behind is truncated before it is ever published.
WholeUnlessMixed == ~mixed => Whole
=============================================================================
