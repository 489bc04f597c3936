------------------------------- MODULE LogHub -------------------------------
(***************************************************************************)
(* types.LogHub: the fan-out of console lines.  One tailer broadcasts;     *)
(* request goroutines subscribe, receive from their channel and            *)
(* unsubscribe.  A ring of the last Ring lines is replayed to a new        *)
(* subscriber while the lock is held, so a replay that had to wait for     *)
(* room in the channel would stop every other user of the hub for good.    *)
(*                                                                         *)
(* A line is its broadcast number, so order and gaps can be seen.          *)
(***************************************************************************)
EXTENDS Integers, Sequences

CONSTANTS Sub,       \* request goroutines, one channel each at a time
          None,      \* nobody
          Ring,      \* replayBufferSize, 200
          Cap,       \* capacity of a subscriber's channel, 256
          MaxLines   \* bound: lines ever broadcast

ASSUME SizeAssumption ==
  /\ Ring \in Nat \ {0} /\ Cap \in Nat /\ MaxLines \in Nat
  /\ Ring <= Cap
ASSUME SubAssumption == None \notin Sub

VARIABLES
  buffer,       \* the ring
  head,         \* where the next line goes
  count,        \* how many lines of the ring are valid
  total,        \* lines broadcast so far
  lockedBy,     \* the goroutine replaying under lh.mu, or None
  replayed,     \* lines it has replayed
  subscribers,  \* channels registered with the hub
  queue,        \* contents of each channel
  seen,         \* history: number of the line before the next expected one
  missed        \* history: a line was dropped because the channel was full

vars == <<buffer, head, count, total, lockedBy, replayed, subscribers, queue,
          seen, missed>>

Line == 0 .. MaxLines

TypeOK ==
  /\ buffer \in [0 .. Ring - 1 -> Line]
  /\ head \in 0 .. Ring - 1
  /\ count \in 0 .. Ring
  /\ total \in Line
  /\ lockedBy \in Sub \cup {None}
  /\ replayed \in 0 .. Ring
  /\ subscribers \subseteq Sub
  /\ queue \in [Sub -> Seq(Line)]
  /\ seen \in [Sub -> Int]
  /\ missed \subseteq Sub

Init ==
  /\ buffer = [i \in 0 .. Ring - 1 |-> 0]
  /\ head = 0
  /\ count = 0
  /\ total = 0
  /\ lockedBy = None
  /\ replayed = 0
  /\ subscribers = {}
  /\ queue = [s \in Sub |-> <<>>]
  /\ seen = [s \in Sub |-> 0]
  /\ missed = {}

Full(s) == Len(queue[s]) >= Cap

\* Subscribe takes the lock ...
Subscribe(s) ==
  /\ lockedBy = None
  /\ s \notin subscribers
  /\ lockedBy' = s
  /\ replayed' = 0
  /\ queue' = [queue EXCEPT ![s] = <<>>]
  /\ seen' = [seen EXCEPT ![s] = total - count]
  /\ missed' = missed \ {s}
  /\ UNCHANGED <<buffer, head, count, total, subscribers>>

\* Mutant of ReplayOne: it begins at the next slot to be written, which is the
\* oldest line only once the ring is full.
ReplayFromHead(s) ==
  /\ lockedBy = s
  /\ replayed < count
  /\ ~Full(s)
  /\ queue' = [queue EXCEPT ![s] = Append(@, buffer[(head + replayed) % Ring])]
  /\ replayed' = replayed + 1
  /\ UNCHANGED <<buffer, head, count, total, lockedBy, subscribers, seen, missed>>

\* ... sends the lines of the ring, oldest first, waiting for room ...
ReplayOne(s) ==
  /\ lockedBy = s
  /\ replayed < count
  /\ ~Full(s)
  /\ LET start == (head - count + Ring) % Ring
     IN  queue' = [queue EXCEPT ![s] = Append(@, buffer[(start + replayed) % Ring])]
  /\ replayed' = replayed + 1
  /\ UNCHANGED <<buffer, head, count, total, lockedBy, subscribers, seen, missed>>

\* ... and registers the channel before it unlocks.
Register(s) ==
  /\ lockedBy = s
  /\ replayed = count
  /\ subscribers' = subscribers \cup {s}
  /\ lockedBy' = None
  /\ replayed' = 0
  /\ UNCHANGED <<buffer, head, count, total, queue, seen, missed>>

Unsubscribe(s) ==
  /\ lockedBy = None
  /\ s \in subscribers
  /\ subscribers' = subscribers \ {s}
  /\ queue' = [queue EXCEPT ![s] = <<>>]
  /\ seen' = [seen EXCEPT ![s] = 0]
  /\ missed' = missed \ {s}
  /\ UNCHANGED <<buffer, head, count, total, lockedBy, replayed>>

\* Mutant of Broadcast: the number of valid lines goes on growing.
BroadcastUncounted ==
  /\ lockedBy = None
  /\ total < MaxLines
  /\ total' = total + 1
  /\ buffer' = [buffer EXCEPT ![head] = total + 1]
  /\ head' = (head + 1) % Ring
  /\ count' = count + 1
  /\ UNCHANGED <<lockedBy, replayed, subscribers, queue, seen, missed>>

\* Broadcast never waits: a full channel misses the line.
Broadcast ==
  /\ lockedBy = None
  /\ total < MaxLines
  /\ total' = total + 1
  /\ buffer' = [buffer EXCEPT ![head] = total + 1]
  /\ head' = (head + 1) % Ring
  /\ count' = IF count < Ring THEN count + 1 ELSE count
  /\ queue' = [s \in Sub |-> IF s \in subscribers /\ ~Full(s)
                             THEN Append(queue[s], total + 1) ELSE queue[s]]
  /\ missed' = missed \cup {s \in subscribers : Full(s)}
  /\ UNCHANGED <<lockedBy, replayed, subscribers, seen>>

\* A subscriber receives from its channel; it needs no lock.
Receive(s) ==
  /\ s \in subscribers
  /\ queue[s] # <<>>
  /\ queue' = [queue EXCEPT ![s] = Tail(@)]
  /\ seen' = [seen EXCEPT ![s] = Head(queue[s])]
  /\ UNCHANGED <<buffer, head, count, total, lockedBy, replayed, subscribers, missed>>

Next ==
  \/ Broadcast
  \/ \E s \in Sub : \/ Subscribe(s) \/ ReplayOne(s) \/ Register(s)
                    \/ Unsubscribe(s) \/ Receive(s)

Spec == Init /\ [][Next]_vars

-----------------------------------------------------------------------------
\* The replay under the lock always finds room in the new channel, which is
\* why replayBufferSize may not exceed the channel's capacity.
ReplayFits ==
  \A s \in Sub : (lockedBy = s /\ replayed < count) => ~Full(s)

(* What a subscriber holds *)

\* While the replay goes on
ReplayInOrder ==
  \A s \in Sub : lockedBy = s => queue[s] = [i \in 1 .. replayed |-> seen[s] + i]

NoGap == \A s \in subscribers \ missed :
           queue[s] = [i \in 1 .. total - seen[s] |-> seen[s] + i]

Increasing ==
  \A s \in subscribers : \A i \in 1 .. Len(queue[s]) :
    queue[s][i] > (IF i = 1 THEN seen[s] ELSE queue[s][i - 1])

\* A subscriber that was never too slow holds exactly the lines from where
\* its replay began up to the newest one: the replay and the broadcasts that
\* follow it leave no gap and repeat nothing. However slow, it gets its lines
\* in the order of the log.
Seamless == ReplayInOrder /\ NoGap /\ Increasing

\* The hub implements a list of lines that is read from its end on: where its
\* readers have got to is what they have received since they were registered.
Feed == INSTANCE LineFeed WITH
          Reader <- Sub, Back <- Ring, Room <- Cap,
          reading <- subscribers, late <- missed,
          at <- [s \in Sub |-> IF s \in subscribers THEN seen[s] ELSE 0]
=============================================================================
