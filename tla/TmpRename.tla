------------------------------ MODULE TmpRename ------------------------------
(***************************************************************************)
(* "Write a temporary file beside the target, then rename it over the      *)
(* target": the steps shared by writeStatus in the supervisor and by       *)
(* WriteFileAtomic in the API.  All writers of a target share one          *)
(* temporary path, so what matters is which file an open descriptor still  *)
(* points at when other writers truncate, rename or remove that path.      *)
(*                                                                         *)
(* A descriptor follows the file and not its name: a writer that opened    *)
(* the temporary file writes into the target once somebody else has        *)
(* renamed it, and into an unlinked file once the target is replaced.      *)
(***************************************************************************)
CONSTANTS Writer,   \* the threads that may be writing at the same time
          Value,    \* the contents a writer may be asked to write
          Absent,   \* there is no such file
          Empty,    \* the file exists and has no contents
          Garbled   \* contents that no writer asked for

ASSUME ContentsAssumption ==
  /\ Absent # Empty /\ Absent # Garbled /\ Empty # Garbled
  /\ {Absent, Empty, Garbled} \cap Value = {}

VARIABLES tmp,    \* contents of the temporary file
          file,   \* contents of the target, as a reader sees it
          fd      \* what the open descriptor of each writer points at

Content == Value \cup {Absent, Empty, Garbled}

FilesTypeOK ==
  /\ tmp \in Content
  /\ file \in Content
  /\ fd \in [Writer -> {"none", "tmp", "file", "gone"}]

\* Mutant of Open: a leftover temporary file is opened without truncation.
OpenKeeping(w) ==
  /\ tmp' = IF tmp = Absent THEN Empty ELSE tmp
  /\ fd' = [fd EXCEPT ![w] = "tmp"]
  /\ UNCHANGED file

\* os.WriteFile opens with O_CREATE | O_TRUNC ...
Open(w) ==
  /\ tmp' = Empty
  /\ fd' = [fd EXCEPT ![w] = "tmp"]
  /\ UNCHANGED file

\* Writing v at offset 0 of contents that are not empty leaves the tail of
\* the longer one behind (the encodings differ in length).
Overwrite(old, v) == IF old = Empty THEN {v} ELSE {v, Garbled}

\* ... then writes its one buffer and closes the descriptor.
Write(w, v) ==
  /\ fd' = [fd EXCEPT ![w] = "none"]
  /\ \/ fd[w] = "tmp"  /\ tmp' \in Overwrite(tmp, v) /\ UNCHANGED file
     \/ fd[w] = "file" /\ file' \in Overwrite(file, v) /\ UNCHANGED tmp
     \/ fd[w] = "gone" /\ UNCHANGED <<tmp, file>>

\* A write that fails has written nothing or only a part.
WriteFails(w) ==
  /\ fd' = [fd EXCEPT ![w] = "none"]
  /\ \/ fd[w] = "tmp"  /\ tmp' \in {tmp, Garbled} /\ UNCHANGED file
     \/ fd[w] = "file" /\ file' \in {file, Garbled} /\ UNCHANGED tmp
     \/ fd[w] = "gone" /\ UNCHANGED <<tmp, file>>

\* os.Rename: every descriptor of the temporary file is now one of the
\* target, and the descriptors of the former target are of an unlinked file.
Renamed(d) == CASE d = "tmp" -> "file" [] d = "file" -> "gone" [] OTHER -> d

Rename ==
  /\ tmp # Absent
  /\ file' = tmp
  /\ tmp' = Absent
  /\ fd' = [w \in Writer |-> Renamed(fd[w])]

\* An open or a rename that fails changes nothing; a rename of a temporary
\* file that somebody else has renamed or removed always fails.
OpenFails == UNCHANGED <<tmp, file, fd>>
RenameFails == UNCHANGED <<tmp, file, fd>>

\* os.Remove of the temporary path
Unlinked(d) == IF d = "tmp" THEN "gone" ELSE d

Remove ==
  /\ tmp' = Absent
  /\ fd' = [w \in Writer |-> Unlinked(fd[w])]
  /\ UNCHANGED file

\* The writing process dies: descriptors close, the files stay as they are.
CloseAll ==
  /\ fd' = [w \in Writer |-> "none"]
  /\ UNCHANGED <<tmp, file>>
=============================================================================
