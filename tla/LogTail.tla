------------------------------- MODULE LogTail -------------------------------
(***************************************************************************)
(* services/logtail.go: the goroutine that follows one server's            *)
(* logs/latest.log and broadcasts each complete line to the log hub, while *)
(* the JVM writes the file piece by piece, replaces it at every start, and *)
(* the API process restarts.                                               *)
(*                                                                         *)
(* A file is a sequence of pieces <<n, k>>: the k-th of the Pieces pieces  *)
(* the JVM's line n reaches the file in; the last one ends in a newline.   *)
(* Lines are numbered in the order they are written, over all files.       *)
(***************************************************************************)
EXTENDS Integers, Sequences, FiniteSetsExt

CONSTANTS Pieces,       \* pieces of a line
          BacklogMax,   \* backlogMaxLines
          Window,       \* backlogWindowBytes, in pieces
          MaxWritten, MaxFiles, MaxRestarts   \* bounds

\* A line longer than the window is "degenerate" (logtail.go:162): none is.
ASSUME TailAssumption ==
  /\ Pieces \in Nat \ {0} /\ BacklogMax \in Nat
  /\ Window \in Nat /\ Pieces <= Window
  /\ MaxWritten \in Nat /\ MaxFiles \in Nat /\ MaxRestarts \in Nat

VARIABLES
  files,     \* the contents of every file created so far
  path,      \* which of them logs/latest.log names, 0 when there is none
  lines,     \* lines the JVM has begun
  tail,      \* the tailer goroutine
  sent,      \* what this API process's hub was given, in order
  restarts,  \* of the API process
  cut,       \* history: the file being followed was truncated ...
  regrown,   \* ... and grew past the read offset before the tailer looked
  from       \* history: the offset from which the open file is followed

log == <<files, path, lines>>
tailHistory == <<cut, regrown, from>>
tailVars == <<log, tail, sent, restarts, tailHistory>>

Piece == (1 .. MaxWritten) \X (1 .. Pieces)

Fresh == [pc |-> "begin", file |-> 0, offset |-> 0, seed |-> FALSE, partial |-> <<>>]

TailTypeOK ==
  /\ files \in Seq(Seq(Piece)) /\ Len(files) <= MaxFiles
  /\ path \in 0 .. Len(files)
  /\ lines \in 0 .. MaxWritten
  /\ tail \in [pc : {"begin", "open", "read", "check"}, file : 0 .. Len(files),
               offset : Nat, seed : BOOLEAN, partial : Seq(Piece)]
  /\ sent \in Seq(Seq(Piece))
  /\ restarts \in 0 .. MaxRestarts
  /\ cut \in BOOLEAN /\ regrown \in BOOLEAN /\ from \in Nat

TailInit ==
  /\ files = <<>> /\ path = 0 /\ lines = 0
  /\ tail = Fresh
  /\ sent = <<>>
  /\ restarts = 0
  /\ cut = FALSE /\ regrown = FALSE /\ from = 0

-----------------------------------------------------------------------------
(* The JVM and its log file *)

Ends(p) == p[2] = Pieces
MidLine == path # 0 /\ files[path] # <<>> /\ ~Ends(files[path][Len(files[path])])

\* The next piece: of the line under way, or of a new one
NextPiece ==
  IF MidLine THEN LET p == files[path][Len(files[path])] IN <<p[1], p[2] + 1>>
             ELSE <<lines + 1, 1>>

WritePiece ==
  /\ path # 0
  /\ NextPiece[1] <= MaxWritten
  /\ files' = [files EXCEPT ![path] = Append(@, NextPiece)]
  /\ lines' = NextPiece[1]
  /\ regrown' = (regrown \/ (cut /\ tail.file = path
                                 /\ Len(files[path]) + 1 >= tail.offset))
  /\ UNCHANGED <<path, tail, sent, restarts, cut, from>>

\* A starting JVM compresses the old file away ...
RotateAway ==
  /\ path # 0
  /\ path' = 0
  /\ UNCHANGED <<files, lines, tail, sent, restarts, tailHistory>>

\* ... and creates a new one.
NewFile ==
  /\ path = 0
  /\ Len(files) < MaxFiles
  /\ files' = Append(files, <<>>)
  /\ path' = Len(files) + 1
  /\ UNCHANGED <<lines, tail, sent, restarts, tailHistory>>

\* Something truncates the file in place, between two lines.
Truncate ==
  /\ path # 0 /\ files[path] # <<>> /\ ~MidLine
  /\ files' = [files EXCEPT ![path] = <<>>]
  /\ cut' = (cut \/ (tail.file = path /\ tail.offset > 0))
  /\ UNCHANGED <<path, lines, tail, sent, restarts, regrown, from>>

-----------------------------------------------------------------------------
(* tailLoopFor *)

\* seedBacklogOnOpen: is there already a file?
Begin ==
  /\ tail.pc = "begin"
  /\ tail' = [tail EXCEPT !.pc = "open", !.seed = (path # 0)]
  /\ UNCHANGED <<log, sent, restarts, tailHistory>>

\* The places where lines of s end
Newlines(s) == {i \in 1 .. Len(s) : Ends(s[i])}

Nth(k, S) == CHOOSE i \in S : Cardinality({j \in S : j <= i}) = k

\* readBacklog: the last complete lines of a window at the end of the file;
\* a window that does not begin with the file loses its first line.
Start(s) == IF Len(s) > Window THEN Len(s) - Window ELSE 0

Backlog(s) ==
  LET data == SubSeq(s, Start(s) + 1, Len(s))
      ends == Newlines(data)
      begin(k) == IF k = 1 THEN 1 ELSE Nth(k - 1, ends) + 1
      skip == Max({IF Start(s) > 0 THEN 1 ELSE 0, Cardinality(ends) - BacklogMax})
  IN [k \in 1 .. (Cardinality(ends) - skip) |->
        SubSeq(data, begin(k + skip), Nth(k + skip, ends))]

\* Mutant of ResumeAt: the incomplete last line counts as seen.
ResumeAtEnd(s) == Len(s)

\* Tailing resumes at the first incomplete line; a window without any newline
\* that is not the whole file is skipped.
ResumeAt(s) ==
  LET end == Max(Newlines(s) \cup {0})
  IN IF Start(s) > 0 /\ end <= Start(s) THEN Len(s) ELSE end

\* openCurrent, from the top or, on the first open, after the backlog. (With
\* no file it fails and is tried again a second later.)
Open ==
  /\ tail.pc = "open"
  /\ path # 0
  /\ LET s == files[path]
         at == IF tail.seed THEN ResumeAt(s) ELSE 0
     IN /\ sent' = IF tail.seed THEN sent \o Backlog(s) ELSE sent
        /\ tail' = [pc |-> "read", file |-> path, offset |-> at,
                    seed |-> FALSE, partial |-> <<>>]
        /\ from' = at
  /\ cut' = FALSE
  /\ UNCHANGED <<log, restarts, regrown>>

Unread == SubSeq(files[tail.file], tail.offset + 1, Len(files[tail.file]))

\* ReadBytes finds a newline: the line is broadcast.
ReadLine ==
  /\ tail.pc = "read"
  /\ Newlines(Unread) # {}
  /\ LET i == Min(Newlines(Unread))
     IN /\ sent' = Append(sent, tail.partial \o SubSeq(Unread, 1, i))
        /\ tail' = [tail EXCEPT !.offset = @ + i, !.partial = <<>>]
  /\ UNCHANGED <<log, restarts, tailHistory>>

\* ReadBytes meets the end of the file, perhaps in the middle of a line.
ReachEnd ==
  /\ tail.pc = "read"
  /\ Newlines(Unread) = {}
  /\ tail' = [tail EXCEPT !.pc = "check", !.offset = @ + Len(Unread),
                          !.partial = @ \o Unread]
  /\ UNCHANGED <<log, sent, restarts, tailHistory>>

\* Mutant of Rotated: only the size is compared, not which file it is.
RotatedBySize == path # 0 /\ Len(files[path]) < tail.offset

Rotated ==
  /\ path # 0
  /\ path # tail.file \/ Len(files[path]) < tail.offset

\* rotated, then close the file, or sleep and read on
CheckRotated ==
  /\ tail.pc = "check"
  /\ tail' = IF Rotated THEN [tail EXCEPT !.pc = "open", !.file = 0]
                        ELSE [tail EXCEPT !.pc = "read"]
  /\ UNCHANGED <<log, sent, restarts, tailHistory>>

\* The API process dies and comes back with a new hub.
Restart ==
  /\ restarts < MaxRestarts
  /\ restarts' = restarts + 1
  /\ tail' = Fresh
  /\ sent' = <<>>
  /\ cut' = FALSE /\ from' = 0
  /\ UNCHANGED <<log, regrown>>

Tailer == Begin \/ Open \/ ReadLine \/ ReachEnd \/ CheckRotated
Jvm == WritePiece \/ RotateAway \/ NewFile \/ Truncate

TailNext == Tailer \/ Jvm \/ Restart

TailSpec == TailInit /\ [][TailNext]_tailVars

\* The goroutine is a loop with bounded sleeps; nothing the JVM does has to
\* happen.
FairTailSpec == TailSpec /\ WF_tailVars(Tailer)

-----------------------------------------------------------------------------
Whole(n) == [k \in 1 .. Pieces |-> <<n, k>>]

WholeLinesInOrder ==
  /\ \A i \in 1 .. Len(sent) : \E n \in 1 .. lines : sent[i] = Whole(n)
  /\ \A i, j \in 1 .. Len(sent) : i < j => sent[i][1][1] < sent[j][1][1]

\* Of the open file, from the place where following it began
NothingSkipped ==
  \A i \in (from + 1) .. tail.offset :
    Ends(files[tail.file][i]) =>
      \E m \in 1 .. Len(sent) : sent[m] = Whole(files[tail.file][i][1])

\* What a console is shown are whole lines, each shown once and in the order
\* written, and none that the read offset has passed is left out (the "Done"
\* line of a session cannot be jumped over): although the reader meets
\* half-written lines, starts in the middle of a session, and changes files.
\* Only a truncation that the file outgrows between two polls escapes it.
ShownAsWritten ==
  /\ ~regrown => WholeLinesInOrder
  /\ tail.file # 0 /\ ~cut => NothingSkipped

\* A line that is complete in logs/latest.log is broadcast in the end, unless
\* the file is rotated away or truncated first. Of the lines that were there
\* when a restarted API opened the file, the last one is.
InFile(n) == path # 0 /\ \E i \in 1 .. Len(files[path]) : files[path][i] = <<n, Pieces>>
Shown(n) == \E i \in 1 .. Len(sent) : sent[i] = Whole(n)
Older(n) == tail.file = path /\ \E i \in 1 .. from - 1 : files[path][i] = <<n, Pieces>>
EveryLineIsShown ==
  \A n \in 1 .. MaxWritten :
    InFile(n) ~> (Shown(n) \/ ~InFile(n) \/ regrown \/ (~cut /\ path # 0 /\ Older(n)))
=============================================================================
