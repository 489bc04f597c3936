----------------------------- MODULE LogProofs -----------------------------
(***************************************************************************)
(* The way of a line from the log file to the console.                     *)
(*                                                                         *)
(* LogHub, Console: the hub is safe to subscribe to, for any number of     *)
(* subscribers and any ring no larger than a channel: the replay under the *)
(* lock always finds room, and the replay and the broadcasts that follow   *)
(* it leave no gap. The handlers of Console use the hub by its own steps   *)
(* only, and leave no subscription and no lock behind.                     *)
(*                                                                         *)
(* LogTail: what the tailer broadcasts are whole lines, each once and in   *)
(* the order written, for every length of a line no longer than the window *)
(* that a restarted API reads back, and whatever the JVM does to the file. *)
(***************************************************************************)
EXTENDS Console, LogTail, SequenceTheorems, FiniteSetTheorems, WellFoundedInduction, TLAPS

USE SizeAssumption, SubAssumption

LEMMA ModRange == \A a \in Nat : a % Ring \in 0 .. Ring - 1
OBVIOUS

\* The goroutine that holds the lock has put exactly the lines it replayed
\* into its channel, they are lines of the ring, and nobody receives from a
\* channel that is not registered yet.
Replaying ==
  \A s \in Sub :
    lockedBy = s => s \notin subscribers /\ replayed <= count /\ Len(queue[s]) = replayed

Inv == TypeOK /\ Replaying

LEMMA InitInv == Init => Inv
BY DEF Init, Inv, TypeOK, Replaying, Line

LEMMA NextInv == Inv /\ [Next]_vars => Inv'
<1> SUFFICES ASSUME Inv, [Next]_vars PROVE Inv'
  OBVIOUS
<1> USE DEF Inv
<1>0. Ring \in Nat /\ Ring > 0 /\ Cap \in Nat /\ Ring <= Cap
  OBVIOUS
<1>1. ASSUME NEW s \in Sub, Subscribe(s) PROVE Inv'
  <2>1. TypeOK'
    BY <1>1 DEF Subscribe, TypeOK, Line
  <2>2. Replaying'
    BY <1>1 DEF Subscribe, TypeOK, Replaying
  <2> QED BY <2>1, <2>2
<1>2. ASSUME NEW s \in Sub, ReplayOne(s) PROVE Inv'
  <2> DEFINE i == (((head - count + Ring) % Ring) + replayed) % Ring
  <2>1. head - count + Ring \in Nat
    BY DEF TypeOK
  <2>2. (head - count + Ring) % Ring \in 0 .. Ring - 1
    BY <2>1, ModRange
  <2>3. (((head - count + Ring) % Ring) + replayed) \in Nat
    BY <2>2 DEF TypeOK
  <2>4. i \in 0 .. Ring - 1
    BY <2>3, ModRange
  <2>5. buffer[i] \in Line
    BY <2>4 DEF TypeOK
  <2>6. queue' = [queue EXCEPT ![s] = Append(@, buffer[i])]
    BY <1>2 DEF ReplayOne
  <2>7. queue' \in [Sub -> Seq(Line)] /\ Len(queue'[s]) = Len(queue[s]) + 1
    BY <2>5, <2>6 DEF TypeOK
  <2>8. replayed' = replayed + 1 /\ replayed' <= count /\ replayed' \in 0 .. Ring
    BY <1>2 DEF ReplayOne, TypeOK
  <2>9. TypeOK'
    BY <1>2, <2>7, <2>8 DEF ReplayOne, TypeOK
  <2>10. Replaying'
    BY <1>2, <2>7, <2>8 DEF ReplayOne, Replaying, TypeOK
  <2> QED BY <2>9, <2>10
<1>3. ASSUME NEW s \in Sub, Register(s) PROVE Inv'
  BY <1>3 DEF Register, TypeOK, Replaying
<1>4. ASSUME NEW s \in Sub, Unsubscribe(s) PROVE Inv'
  BY <1>4 DEF Unsubscribe, TypeOK, Replaying, Line
<1>5. CASE Broadcast
  <2>1. head + 1 \in Nat
    BY DEF TypeOK
  <2>2. head' \in 0 .. Ring - 1
    BY <1>5, <2>1, ModRange DEF Broadcast
  <2>3. total' \in Line /\ count' \in 0 .. Ring
    BY <1>5 DEF Broadcast, TypeOK, Line
  <2>4. buffer' \in [0 .. Ring - 1 -> Line]
    BY <1>5, <2>3 DEF Broadcast, TypeOK
  <2>5. queue' \in [Sub -> Seq(Line)]
    BY <1>5, <2>3 DEF Broadcast, TypeOK
  <2>6. TypeOK'
    BY <1>5, <2>2, <2>3, <2>4, <2>5 DEF Broadcast, TypeOK
  <2>7. Replaying'
    BY <1>5 DEF Broadcast, Replaying
  <2> QED BY <2>6, <2>7
<1>6. ASSUME NEW s \in Sub, Receive(s) PROVE Inv'
  <2>1. Tail(queue[s]) \in Seq(Line) /\ Head(queue[s]) \in Line
    BY <1>6 DEF Receive, TypeOK
  <2>2. queue' \in [Sub -> Seq(Line)] /\ seen' \in [Sub -> Int]
    BY <1>6, <2>1 DEF Receive, TypeOK, Line
  <2>3. TypeOK'
    BY <1>6, <2>2 DEF Receive, TypeOK
  <2>4. \A q \in Sub : lockedBy = q => queue'[q] = queue[q]
    BY <1>6 DEF Receive, TypeOK, Replaying
  <2>5. Replaying'
    BY <1>6, <2>4 DEF Receive, Replaying
  <2> QED BY <2>3, <2>5
<1>7. CASE UNCHANGED vars
  BY <1>7 DEF vars, TypeOK, Replaying
<1> QED BY <1>1, <1>2, <1>3, <1>4, <1>5, <1>6, <1>7 DEF Next

\* The indices stay inside the ring and its counters inside their bounds.
THEOREM TypeCorrect == Spec => []TypeOK
BY InitInv, NextInv, PTL DEF Spec, Inv

\* Subscribe never waits for room in its channel while it holds the lock:
\* the capacity of the channel is at least that of the ring.
THEOREM ReplayNeverBlocks == Spec => []ReplayFits
<1>1. Inv => ReplayFits
  BY DEF Inv, Replaying, ReplayFits, Full, TypeOK
<1> QED BY InitInv, NextInv, <1>1, PTL DEF Spec

-----------------------------------------------------------------------------
(* What the ring holds *)

LEMMA ModFacts ==
  /\ \A a \in 0 .. Ring - 1 : a % Ring = a /\ (a + Ring) % Ring = a
  /\ Ring % Ring = 0
<1>1. Ring \in Nat /\ Ring > 0 OBVIOUS
<1>2. ASSUME NEW a \in 0 .. Ring - 1 PROVE a % Ring = a /\ (a + Ring) % Ring = a
  BY <1>1
<1> QED BY <1>1, <1>2

\* Until it is full the ring is filled from its first slot on. Then its newest
\* line is in the slot before head, and the oldest at head.
RingInv ==
  IF total < Ring
  THEN /\ head = total /\ count = total
       /\ \A i \in 0 .. total - 1 : buffer[i] = i + 1
  ELSE /\ count = Ring
       /\ \A i \in 0 .. Ring - 1 :
            buffer[i] = IF i < head THEN total - head + 1 + i ELSE total - head + 1 + i - Ring

\* The line in the slot a replay has come to
LEMMA ReplayedLine ==
  ASSUME TypeOK, RingInv, replayed < count
  PROVE  buffer[(((head - count + Ring) % Ring) + replayed) % Ring] = total - count + replayed + 1
<1> DEFINE start == (head - count + Ring) % Ring
           slot == (start + replayed) % Ring
<1> USE DEF TypeOK, Line
<1>1. CASE total < Ring
  <2>1. head - count + Ring = Ring BY <1>1 DEF RingInv
  <2>2. start = 0 BY <2>1, ModFacts
  <2>3. replayed \in 0 .. Ring - 1 /\ replayed \in 0 .. total - 1 /\ total = count
    BY <1>1 DEF RingInv
  <2> HIDE DEF start
  <2>4. start + replayed = replayed BY <2>2, <2>3
  <2>5. slot = replayed BY <2>3, <2>4, ModFacts
  <2> HIDE DEF slot
  <2>6. buffer[slot] = replayed + 1 BY <1>1, <2>3, <2>5 DEF RingInv
  <2> QED BY <2>3, <2>6 DEF start, slot
<1>2. CASE ~(total < Ring)
  <2>0. count = Ring /\ \A i \in 0 .. Ring - 1 :
          buffer[i] = IF i < head THEN total - head + 1 + i ELSE total - head + 1 + i - Ring
    BY <1>2 DEF RingInv
  <2>1. head - count + Ring = head BY <2>0
  <2>2. start = head BY <2>1, ModFacts
  <2> HIDE DEF start
  <2>3. CASE head + replayed < Ring
    <3>1. start + replayed \in 0 .. Ring - 1 BY <2>2, <2>3
    <3>2. slot = head + replayed BY <2>2, <3>1, ModFacts
    <3> HIDE DEF slot
    <3>3. buffer[slot] = total - count + replayed + 1 BY <2>0, <2>3, <3>2
    <3> QED BY <3>3 DEF start, slot
  <2>4. CASE ~(head + replayed < Ring)
    <3> DEFINE i == head + replayed - Ring
    <3>1. i \in 0 .. Ring - 1 /\ i < head BY <2>0, <2>4
    <3>2. start + replayed = i + Ring BY <2>2
    <3>3. slot = i BY <3>1, <3>2, ModFacts
    <3> HIDE DEF slot
    <3>4. buffer[slot] = total - count + replayed + 1 BY <2>0, <3>1, <3>3
    <3> QED BY <3>4 DEF start, slot
  <2> QED BY <2>3, <2>4
<1> QED BY <1>1, <1>2

LEMMA RingStep == TypeOK /\ RingInv /\ [Next]_vars => RingInv'
<1> SUFFICES ASSUME TypeOK, RingInv, [Next]_vars PROVE RingInv'
  OBVIOUS
<1> USE DEF TypeOK, Line
<1>1. CASE UNCHANGED <<buffer, head, count, total>> BY <1>1 DEF RingInv
<1>2. CASE Broadcast
  <2>0. /\ total' = total + 1 /\ buffer' = [buffer EXCEPT ![head] = total + 1]
        /\ head' = (head + 1) % Ring
        /\ count' = IF count < Ring THEN count + 1 ELSE count
    BY <1>2 DEF Broadcast
  <2>1. head' = IF head = Ring - 1 THEN 0 ELSE head + 1
    <3>1. CASE head = Ring - 1 BY <2>0, <3>1, ModFacts
    <3>2. CASE head # Ring - 1
      <4>1. head + 1 \in 0 .. Ring - 1 BY <3>2
      <4> QED BY <2>0, <3>2, <4>1, ModFacts
    <3> QED BY <3>1, <3>2
  <2>5. total' = total + 1 BY <2>0
  <2>2. CASE total < Ring - 1
    BY <2>0, <2>1, <2>2 DEF RingInv
  <2>3. CASE total = Ring - 1
    <3>1. head' = 0 /\ count' = Ring /\ head = Ring - 1 BY <2>0, <2>1, <2>3 DEF RingInv
    <3>2. \A i \in 0 .. Ring - 1 : buffer'[i] = i + 1 BY <2>0, <2>3, <3>1 DEF RingInv
    <3> QED BY <2>0, <2>3, <3>1, <3>2 DEF RingInv
  <2>4. CASE total >= Ring
    <3>1. count' = Ring BY <2>0, <2>4 DEF RingInv
    <3>2. ASSUME NEW i \in 0 .. Ring - 1
          PROVE  buffer'[i] = IF i < head' THEN total' - head' + 1 + i
                              ELSE total' - head' + 1 + i - Ring
      <4>1. CASE i = head BY <2>0, <2>1, <4>1
      <4>2. CASE i # head
        <5>1. buffer'[i] = IF i < head THEN total - head + 1 + i
                           ELSE total - head + 1 + i - Ring
          BY <2>0, <2>4, <4>2 DEF RingInv
        <5>2. CASE head = Ring - 1 BY <2>1, <2>5, <4>2, <5>1, <5>2
        <5>3. CASE head # Ring - 1 BY <2>1, <2>5, <4>2, <5>1, <5>3
        <5> QED BY <5>2, <5>3
      <4> QED BY <4>1, <4>2
    <3> QED BY <2>0, <2>4, <3>1, <3>2 DEF RingInv
  <2> QED BY <2>2, <2>3, <2>4
<1> QED
  BY <1>1, <1>2
  DEF Next, vars, Subscribe, ReplayOne, Register, Unsubscribe, Receive

-----------------------------------------------------------------------------
(* What a subscriber holds *)

\* q holds the n lines that follow line a.
Follow(q, a, n) == Len(q) = n /\ \A i \in 1 .. n : q[i] = a + i

\* The lines of q come in order, after line a, and there are none after line m.
Ordered(q, a, m) ==
  \A i \in 1 .. Len(q) : q[i] > (IF i = 1 THEN a ELSE q[i - 1]) /\ q[i] <= m

HeldInv ==
  /\ \A s \in Sub : lockedBy = s => /\ seen[s] = total - count
                                    /\ Follow(queue[s], seen[s], replayed)
  /\ \A s \in subscribers :
       /\ seen[s] <= total /\ Ordered(queue[s], seen[s], total)
       /\ s \notin missed => Follow(queue[s], seen[s], total - seen[s])

LEMMA FollowFacts ==
  ASSUME NEW q \in Seq(Line), NEW a \in Int, NEW n \in Nat, Follow(q, a, n)
  PROVE  q = [i \in 1 .. n |-> a + i]
<1>1. q \in [1 .. n -> Line] BY LenProperties DEF Follow
<1> QED BY <1>1 DEF Follow

\* One more line at the end
LEMMA AppendFacts ==
  ASSUME NEW q \in Seq(Line), NEW l \in Line
  PROVE  /\ Append(q, l) \in Seq(Line) /\ Len(q) \in Nat
         /\ Len(Append(q, l)) = Len(q) + 1
         /\ \A i \in 1 .. Len(q) : Append(q, l)[i] = q[i]
         /\ Append(q, l)[Len(q) + 1] = l
OBVIOUS

\* One line received
LEMMA ReceiveFacts ==
  ASSUME NEW q \in Seq(Line), q # <<>>
  PROVE  /\ Head(q) = q[1] /\ Head(q) \in Line /\ Len(q) \in Nat \ {0}
         /\ Len(Tail(q)) = Len(q) - 1 /\ \A i \in 1 .. Len(q) - 1 : Tail(q)[i] = q[i + 1]
BY EmptySeq, HeadTailProperties

LEMMA FollowAppend ==
  ASSUME NEW q \in Seq(Line), NEW a \in Int, NEW n \in Nat, Follow(q, a, n), a + n + 1 \in Line
  PROVE  Follow(Append(q, a + n + 1), a, n + 1)
BY AppendFacts DEF Follow

LEMMA FollowTail ==
  ASSUME NEW q \in Seq(Line), q # <<>>, NEW a \in Int, NEW n \in Nat, Follow(q, a, n)
  PROVE  n >= 1 /\ Head(q) = a + 1 /\ Follow(Tail(q), a + 1, n - 1)
<1>1. n \in Nat \ {0} /\ Head(q) = a + 1 BY ReceiveFacts DEF Follow
<1>2. ASSUME NEW i \in 1 .. n - 1 PROVE Tail(q)[i] = a + 1 + i
  <2>1. Tail(q)[i] = q[i + 1] /\ i + 1 \in 1 .. n BY <1>1, ReceiveFacts DEF Follow
  <2> QED BY <2>1 DEF Follow
<1> QED BY <1>1, <1>2, ReceiveFacts DEF Follow

LEMMA OrderedAppend ==
  ASSUME NEW q \in Seq(Line), NEW a \in Int, NEW m \in Nat, m + 1 \in Line,
         a <= m, Ordered(q, a, m)
  PROVE  Ordered(Append(q, m + 1), a, m + 1)
<1> DEFINE p == Append(q, m + 1)
           n == Len(q)
<1>1. /\ Len(p) = n + 1 /\ n \in Nat /\ p[n + 1] = m + 1
      /\ \A i \in 1 .. n : p[i] = q[i]
  BY AppendFacts
<1>2. \A i \in 1 .. n : q[i] > (IF i = 1 THEN a ELSE q[i - 1]) /\ q[i] <= m /\ q[i] \in Nat
  BY ElementOfSeq DEF Ordered, Line
<1> HIDE DEF p, n
<1>3. ASSUME NEW i \in 1 .. n + 1
      PROVE  p[i] > (IF i = 1 THEN a ELSE p[i - 1]) /\ p[i] <= m + 1
  <2>1. CASE i = n + 1
    <3>1. CASE i = 1 BY <1>1, <2>1, <3>1
    <3>2. CASE i # 1
      <4>1. i - 1 \in 1 .. n /\ i - 1 = n BY <1>1, <2>1, <3>2
      <4>2. p[i - 1] = q[n] /\ q[n] <= m /\ q[n] \in Nat BY <1>1, <1>2, <4>1
      <4> QED BY <1>1, <2>1, <3>2, <4>2
    <3> QED BY <3>1, <3>2
  <2>2. CASE i # n + 1
    <3>1. i \in 1 .. n BY <1>1, <2>2
    <3>2. i # 1 => i - 1 \in 1 .. n BY <1>1, <3>1
    <3> QED BY <1>1, <1>2, <3>1, <3>2
  <2> QED BY <2>1, <2>2
<1> QED BY <1>1, <1>3 DEF Ordered, p

LEMMA OrderedTail ==
  ASSUME NEW q \in Seq(Line), q # <<>>, NEW a \in Int, NEW m \in Nat, Ordered(q, a, m)
  PROVE  Head(q) <= m /\ Ordered(Tail(q), Head(q), m)
<1> DEFINE p == Tail(q)
           n == Len(q)
           h == Head(q)
<1>1. /\ h = q[1] /\ n \in Nat \ {0} /\ Len(p) = n - 1
      /\ \A i \in 1 .. n - 1 : p[i] = q[i + 1]
  BY ReceiveFacts
<1>2. \A i \in 1 .. n : q[i] > (IF i = 1 THEN a ELSE q[i - 1]) /\ q[i] <= m
  BY DEF Ordered
<1> HIDE DEF p, n, h
<1>3. ASSUME NEW i \in 1 .. n - 1 PROVE p[i] > (IF i = 1 THEN h ELSE p[i - 1]) /\ p[i] <= m
  <2>1. p[i] = q[i + 1] /\ i + 1 \in 1 .. n /\ i + 1 # 1 /\ (i + 1) - 1 = i BY <1>1, <1>3
  <2>2. q[i + 1] > q[i] /\ q[i + 1] <= m BY <1>2, <2>1
  <2>3. CASE i = 1 BY <1>1, <2>1, <2>2, <2>3
  <2>4. CASE i # 1
    <3>1. i - 1 \in 1 .. n - 1 /\ (i - 1) + 1 = i BY <1>1, <2>4
    <3>2. p[i - 1] = q[i] BY <1>1, <3>1
    <3> QED BY <2>1, <2>2, <2>4, <3>2
  <2> QED BY <2>3, <2>4
<1>4. h <= m BY <1>1, <1>2
<1> QED BY <1>1, <1>3, <1>4 DEF Ordered, p, h

LEMMA FollowOrdered ==
  ASSUME NEW q \in Seq(Line), NEW a \in Int, NEW n \in Nat, Follow(q, a, n)
  PROVE  Ordered(q, a, a + n)
BY DEF Follow, Ordered

LEMMA HeldStep ==
  Inv /\ Inv' /\ RingInv /\ HeldInv /\ [Next]_vars => HeldInv'
<1> SUFFICES ASSUME Inv, Inv', RingInv, HeldInv, [Next]_vars PROVE HeldInv'
  OBVIOUS
<1>0. /\ total \in Nat /\ count \in Nat /\ replayed \in Nat /\ total \in Line
      /\ seen \in [Sub -> Int] /\ queue \in [Sub -> Seq(Line)] /\ subscribers \subseteq Sub
      /\ \A s \in Sub : lockedBy = s => s \notin subscribers /\ replayed <= count
  BY DEF Inv, TypeOK, Replaying, Line
<1>1. ASSUME NEW s \in Sub, Subscribe(s) PROVE HeldInv'
  <2>1. Follow(<<>>, total - count, 0) BY EmptySeq DEF Follow
  <2> QED BY <1>0, <1>1, <2>1 DEF Subscribe, HeldInv
<1>2. ASSUME NEW s \in Sub, ReplayOne(s) PROVE HeldInv'
  <2> DEFINE l == buffer[(((head - count + Ring) % Ring) + replayed) % Ring]
  <2>1. l = total - count + replayed + 1 BY <1>2, ReplayedLine DEF ReplayOne, Inv
  <2>2. /\ queue' = [queue EXCEPT ![s] = Append(@, l)] /\ replayed' = replayed + 1
        /\ lockedBy = s /\ replayed < count
        /\ UNCHANGED <<head, count, total, lockedBy, subscribers, seen, missed>>
    BY <1>2 DEF ReplayOne
  <2> HIDE DEF l
  <2>3. seen[s] = total - count /\ Follow(queue[s], seen[s], replayed)
    BY <2>2 DEF HeldInv
  <2>4. seen[s] + replayed + 1 = l BY <1>0, <2>1, <2>3
  <2>5. l \in Line
    <3>1. count <= total BY <1>0 DEF RingInv
    <3> QED BY <1>0, <2>1, <2>2, <3>1 DEF Line
  <2>6. Follow(queue'[s], seen[s], replayed + 1)
    BY <1>0, <2>2, <2>3, <2>4, <2>5, FollowAppend
  <2>7. \A q \in subscribers : queue'[q] = queue[q] BY <1>0, <2>2
  <2> QED BY <1>0, <2>2, <2>3, <2>6, <2>7 DEF HeldInv
<1>3. ASSUME NEW s \in Sub, Register(s) PROVE HeldInv'
  <2>1. /\ lockedBy = s /\ replayed = count /\ subscribers' = subscribers \cup {s}
        /\ lockedBy' = None /\ UNCHANGED <<count, total, queue, seen, missed>>
    BY <1>3 DEF Register
  <2>2. seen[s] = total - count /\ Follow(queue[s], seen[s], count)
    BY <2>1 DEF HeldInv
  <2>3. seen[s] <= total /\ total - seen[s] = count /\ seen[s] + count = total BY <1>0, <2>2
  <2>4. Ordered(queue[s], seen[s], total) BY <1>0, <2>2, <2>3, FollowOrdered
  <2> QED BY <2>1, <2>2, <2>3, <2>4 DEF HeldInv
<1>4. ASSUME NEW s \in Sub, Unsubscribe(s) PROVE HeldInv'
  BY <1>0, <1>4 DEF Unsubscribe, HeldInv
<1>5. CASE Broadcast
  <2>1. /\ lockedBy' = None /\ total' = total + 1 /\ total + 1 \in Line
        /\ UNCHANGED <<subscribers, seen>>
        /\ missed' = missed \cup {s \in subscribers : Full(s)}
    BY <1>0, <1>5 DEF Broadcast, Line
  <2>2. ASSUME NEW s \in subscribers
        PROVE  /\ seen[s] <= total + 1 /\ Ordered(queue'[s], seen[s], total + 1)
               /\ s \notin missed' => Follow(queue'[s], seen[s], total + 1 - seen[s])
    <3>0. /\ queue[s] \in Seq(Line) /\ seen[s] \in Int /\ seen[s] <= total
          /\ Ordered(queue[s], seen[s], total)
      BY <1>0 DEF HeldInv
    <3>1. CASE Full(s)
      <4>1. queue'[s] = queue[s] /\ s \in missed' BY <1>0, <1>5, <2>1, <3>1 DEF Broadcast
      <4>2. \A i \in 1 .. Len(queue[s]) : queue[s][i] \in Nat BY <3>0, ElementOfSeq DEF Line
      <4>3. Ordered(queue[s], seen[s], total + 1) BY <1>0, <3>0, <4>2 DEF Ordered
      <4> QED BY <1>0, <3>0, <4>1, <4>3
    <3>2. CASE ~Full(s)
      <4>1. queue'[s] = Append(queue[s], total + 1) BY <1>0, <1>5, <3>2 DEF Broadcast
      <4>2. Ordered(queue'[s], seen[s], total + 1) BY <1>0, <2>1, <3>0, <4>1, OrderedAppend
      <4>3. ASSUME s \notin missed'
            PROVE  Follow(queue'[s], seen[s], total + 1 - seen[s])
        <5>1. Follow(queue[s], seen[s], total - seen[s]) BY <2>1, <4>3 DEF HeldInv
        <5>2. total - seen[s] \in Nat /\ seen[s] + (total - seen[s]) + 1 = total + 1
              /\ (total - seen[s]) + 1 = total + 1 - seen[s]
          BY <1>0, <3>0
        <5>3. Follow(Append(queue[s], seen[s] + (total - seen[s]) + 1), seen[s], (total - seen[s]) + 1)
          BY <2>1, <3>0, <5>1, <5>2, FollowAppend
        <5> QED BY <4>1, <5>2, <5>3
      <4> QED BY <1>0, <3>0, <4>2, <4>3
    <3> QED BY <3>1, <3>2
  <2>3. \A s \in Sub : lockedBy' # s BY <2>1
  <2>4. ASSUME NEW s \in subscribers'
        PROVE  /\ seen'[s] <= total' /\ Ordered(queue'[s], seen'[s], total')
               /\ s \notin missed' => Follow(queue'[s], seen'[s], total' - seen'[s])
    <3>1. s \in subscribers /\ seen'[s] = seen[s] /\ total' = total + 1 BY <2>1
    <3>2. total + 1 - seen[s] = total' - seen'[s] BY <1>0, <3>1
    <3>3. s \notin missed' => Follow(queue'[s], seen[s], total + 1 - seen[s])
      BY <2>2, <3>1
    <3>4. seen[s] <= total + 1 /\ Ordered(queue'[s], seen[s], total + 1)
      BY <2>2, <3>1
    <3> QED BY <3>1, <3>2, <3>3, <3>4 DEF Follow, Ordered
  <2> QED BY <2>3, <2>4 DEF HeldInv
<1>6. ASSUME NEW s \in Sub, Receive(s) PROVE HeldInv'
  <2>1. /\ s \in subscribers /\ queue[s] # <<>> /\ queue[s] \in Seq(Line)
        /\ queue' = [queue EXCEPT ![s] = Tail(queue[s])]
        /\ seen' = [seen EXCEPT ![s] = Head(queue[s])]
        /\ UNCHANGED <<count, total, lockedBy, replayed, subscribers, missed>>
    BY <1>0, <1>6 DEF Receive
  <2>2. seen[s] \in Int /\ seen[s] <= total /\ Ordered(queue[s], seen[s], total)
    BY <1>0, <2>1 DEF HeldInv
  <2>3. seen'[s] = Head(queue[s]) /\ queue'[s] = Tail(queue[s]) BY <1>0, <2>1
  <2>4. seen'[s] <= total /\ Ordered(queue'[s], seen'[s], total)
    BY <1>0, <2>1, <2>2, <2>3, OrderedTail
  <2>5. ASSUME s \notin missed PROVE Follow(queue'[s], seen'[s], total - seen'[s])
    <3>1. Follow(queue[s], seen[s], total - seen[s]) BY <2>1, <2>5 DEF HeldInv
    <3>2. total - seen[s] \in Nat BY <1>0, <2>2
    <3>3. Head(queue[s]) = seen[s] + 1
          /\ Follow(Tail(queue[s]), seen[s] + 1, (total - seen[s]) - 1)
      BY <2>1, <2>2, <3>1, <3>2, FollowTail
    <3>4. (total - seen[s]) - 1 = total - (seen[s] + 1) BY <1>0, <2>2
    <3> QED BY <2>3, <3>3, <3>4
  <2>6. \A q \in Sub \ {s} : queue'[q] = queue[q] /\ seen'[q] = seen[q] BY <1>0, <2>1
  <2>7. lockedBy # s BY <1>0, <2>1
  <2> QED BY <1>0, <2>1, <2>4, <2>5, <2>6, <2>7 DEF HeldInv
<1>7. CASE UNCHANGED vars BY <1>7 DEF vars, HeldInv
<1> QED BY <1>1, <1>2, <1>3, <1>4, <1>5, <1>6, <1>7 DEF Next

\* The replay and the broadcasts that follow it give a subscriber every line
\* once and in order, and one that is too slow still gets its lines in order,
\* for any ring no larger than a channel.
THEOREM NoLineLostOrRepeated == Spec => []Seamless
<1>1. Init => RingInv /\ HeldInv
  <2> SUFFICES ASSUME Init PROVE RingInv /\ HeldInv
    OBVIOUS
  <2>1. RingInv BY DEF Init, RingInv
  <2>2. HeldInv BY DEF Init, HeldInv
  <2> QED BY <2>1, <2>2
<1>2. Inv /\ HeldInv => Seamless
  <2> SUFFICES ASSUME Inv, HeldInv PROVE Seamless
    OBVIOUS
  <2> USE DEF Inv, TypeOK, HeldInv, Line
  <2>1. ReplayInOrder
    BY FollowFacts DEF ReplayInOrder
  <2>2. NoGap
    <3> SUFFICES ASSUME NEW s \in subscribers \ missed
                 PROVE  queue[s] = [i \in 1 .. total - seen[s] |-> seen[s] + i]
      BY DEF NoGap
    <3>1. total - seen[s] \in Nat /\ Follow(queue[s], seen[s], total - seen[s]) OBVIOUS
    <3> QED BY <3>1, FollowFacts
  <2>3. Increasing BY DEF Increasing, Ordered
  <2> QED BY <2>1, <2>2, <2>3 DEF Seamless
<1> QED BY <1>1, <1>2, InitInv, NextInv, RingStep, HeldStep, PTL DEF Spec, Inv

\* A line is only missed by who is registered.
MissedInv == missed \subseteq subscribers

FeedInv == Inv /\ RingInv /\ HeldInv /\ MissedInv

\* Where the readers of LineFeed are
Place == [s \in Sub |-> IF s \in subscribers THEN seen[s] ELSE 0]

LEMMA FeedStep == FeedInv /\ [Next]_vars => [Feed!Next]_(Feed!vars)
<1> SUFFICES ASSUME FeedInv, [Next]_vars
             PROVE  Feed!Next \/ UNCHANGED <<total, subscribers, Place, missed>>
  BY DEF Feed!vars, Place
<1>0. /\ total \in Nat /\ count \in Nat /\ Ring \in Nat /\ Cap \in Nat
      /\ seen \in [Sub -> Int] /\ queue \in [Sub -> Seq(Line)]
      /\ subscribers \subseteq Sub /\ missed \subseteq subscribers
  BY DEF FeedInv, Inv, TypeOK, MissedInv, Line
<1>1. ASSUME NEW s \in Sub, Subscribe(s)
      PROVE  UNCHANGED <<total, subscribers, Place, missed>>
  <2>1. Place' = Place
    BY <1>0, <1>1 DEF Subscribe, Place
  <2> QED BY <1>0, <1>1, <2>1 DEF Subscribe
<1>2. ASSUME NEW s \in Sub, ReplayOne(s)
      PROVE  UNCHANGED <<total, subscribers, Place, missed>>
  BY <1>2 DEF ReplayOne, Place
<1>3. ASSUME NEW s \in Sub, Register(s) PROVE Feed!Join(s)
  <2>1. /\ s \notin subscribers /\ subscribers' = subscribers \cup {s}
        /\ UNCHANGED <<total, seen, missed>>
    BY <1>3 DEF Register, FeedInv, Inv, Replaying
  <2>2. seen[s] = total - count
    BY <1>3 DEF Register, FeedInv, HeldInv
  <2>3. count = IF total < Ring THEN total ELSE Ring
    BY DEF FeedInv, RingInv
  <2>4. seen[s] = IF total < Ring THEN 0 ELSE total - Ring
    BY <1>0, <2>2, <2>3
  <2>5. Place' = [Place EXCEPT ![s] = seen[s]]
    BY <2>1 DEF Place
  <2> QED BY <2>1, <2>4, <2>5 DEF Feed!Join, Place
<1>4. ASSUME NEW s \in Sub, Unsubscribe(s) PROVE Feed!Leave(s)
  <2>1. Place' = [Place EXCEPT ![s] = 0]
    BY <1>0, <1>4 DEF Unsubscribe, Place
  <2> QED BY <1>4, <2>1 DEF Unsubscribe, Feed!Leave, Place
\* A channel that is full, of a reader who has missed nothing, holds what the
\* reader is behind.
<1>5. CASE Broadcast
  <2>1. /\ total' = total + 1 /\ UNCHANGED <<subscribers, seen>>
        /\ missed' = missed \cup {s \in subscribers : Full(s)}
    BY <1>5 DEF Broadcast
  <2>2. ASSUME NEW s \in subscribers, s \notin missed
        PROVE  Full(s) <=> total >= Place[s] + Cap
    <3>1. Len(queue[s]) = total - seen[s]
      BY <2>2 DEF FeedInv, HeldInv, Follow
    <3>2. Place[s] = seen[s] /\ seen[s] \in Int
      BY <1>0 DEF Place
    <3> QED BY <1>0, <3>1, <3>2 DEF Full
  <2>3. missed' = missed \cup {s \in subscribers : total >= Place[s] + Cap}
    BY <2>1, <2>2, Zenon
  <2>4. Place' = Place
    BY <2>1 DEF Place
  <2>5. Feed!Emit
    BY <2>1, <2>3, <2>4 DEF Feed!Emit, Place
  <2> QED BY <2>5 DEF Feed!Next
<1>6. ASSUME NEW s \in Sub, Receive(s) PROVE Feed!Take(s)
  <2> DEFINE n == Head(queue[s])
  <2>1. /\ s \in subscribers /\ queue[s] # <<>> /\ queue[s] \in Seq(Line)
        /\ seen' = [seen EXCEPT ![s] = n]
        /\ UNCHANGED <<total, subscribers, missed>>
    BY <1>0, <1>6 DEF Receive
  <2>2. Place[s] = seen[s] /\ seen[s] \in Int /\ seen[s] <= total
    BY <1>0, <2>1 DEF Place, FeedInv, HeldInv
  <2>3. n \in Nat /\ n <= total /\ n > seen[s]
    <3>1. Ordered(queue[s], seen[s], total)
      BY <2>1 DEF FeedInv, HeldInv
    <3>2. n = queue[s][1] /\ n \in Line /\ 1 \in 1 .. Len(queue[s])
      BY <2>1, ReceiveFacts
    <3> QED BY <3>1, <3>2 DEF Ordered, Line
  <2>4. s \in missed \/ n = seen[s] + 1
    <3>1. ASSUME s \notin missed PROVE Follow(queue[s], seen[s], total - seen[s])
      BY <2>1, <3>1 DEF FeedInv, HeldInv
    <3>2. total - seen[s] \in Nat
      BY <1>0, <2>2
    <3> QED BY <2>1, <2>2, <3>1, <3>2, FollowTail
  <2> HIDE DEF n
  <2>5. Place' = [Place EXCEPT ![s] = n]
    BY <1>0, <2>1 DEF Place
  <2>6. n \in Place[s] + 1 .. total
    BY <1>0, <2>2, <2>3
  <2> QED BY <2>1, <2>2, <2>4, <2>5, <2>6 DEF Feed!Take, Place
<1>7. CASE UNCHANGED vars
  BY <1>7 DEF vars, Place
<1> QED BY <1>1, <1>2, <1>3, <1>4, <1>5, <1>6, <1>7 DEF Next, Feed!Next

\* For its readers the hub is one list of lines, of which each gets the newest
\* ones first and then one after another: where the ring wraps around, what the
\* channels hold and who has the lock does not show.
THEOREM FeedImplemented == Spec => Feed!Spec
<1>1. Init => RingInv /\ HeldInv /\ MissedInv
  BY DEF Init, RingInv, HeldInv, MissedInv
<1>2. MissedInv /\ [Next]_vars => MissedInv'
  BY DEF MissedInv, Next, vars, Broadcast, Subscribe, ReplayOne, Register, Unsubscribe, Receive
<1>3. Init => Feed!Init
  BY DEF Init, Feed!Init
<1>4. Spec => []FeedInv
  BY <1>1, <1>2, InitInv, NextInv, RingStep, HeldStep, PTL DEF Spec, Inv, FeedInv
<1> QED BY <1>3, <1>4, FeedStep, PTL DEF Spec, Feed!Spec

-----------------------------------------------------------------------------
\* Whatever the handlers of the console do to the hub, they do as the hub's own
\* steps: what is proved of LogHub holds underneath Console.
THEOREM ConsoleUsesHub == ConSpec => Spec
<1>1. ConInit => Init BY DEF ConInit
<1>2. [ConNext]_conVars => [Next]_vars
  BY DEF ConNext, conVars, console, Next, Upgrade, Listen, Replay, Serve, SendLine, SendError,
         Ping, CheckStatus, ReaderDone, Leave, CloseConn, ReadCommand, Offer, ReadFails,
         ClientGoes, Forget, ServerStops, ServerStarts
<1> QED BY <1>1, <1>2, PTL DEF ConSpec, Spec

\* So it is for the clients of the console, whenever they come, go or hang.
THEOREM ConsoleIsFed == ConSpec => Feed!Spec
BY ConsoleUsesHub, FeedImplemented

-----------------------------------------------------------------------------
(* Console                                                                  *)

\* Every subscription has a handler that is going to end it, the hub's lock is
\* held for a handler that is still subscribing, and a reader that has outlived
\* its handler will find the connection closed (console.go:94, 98).
Attended ==
  \A s \in Sub :
    /\ s \in subscribers <=> con[s].pc \in {"streaming", "leaving"}
    /\ lockedBy = s => At(s, "upgraded")
    /\ At(s, "none") /\ con[s].reader # "none" => con[s].client = "closed"

ConInv == ConTypeOK /\ Attended

\* What a step of connection s, that changes nobody else's, has to keep
LEMMA OneConnection ==
  ASSUME ConInv, NEW s \in Sub,
         running' \in BOOLEAN,
         con' \in [Sub -> [pc : Handler, reader : Reader, client : Client, err : BOOLEAN]],
         \A o \in Sub \ {s} : /\ con'[o] = con[o]
                              /\ o \in subscribers' <=> o \in subscribers
                              /\ lockedBy' = o => lockedBy = o,
         s \in subscribers' <=> con'[s].pc \in {"streaming", "leaving"},
         lockedBy' = s => con'[s].pc = "upgraded",
         con'[s].pc = "none" /\ con'[s].reader # "none" => con'[s].client = "closed"
  PROVE  ConInv'
<1>1. ASSUME NEW o \in Sub
      PROVE  /\ o \in subscribers' <=> con'[o].pc \in {"streaming", "leaving"}
             /\ lockedBy' = o => con'[o].pc = "upgraded"
             /\ con'[o].pc = "none" /\ con'[o].reader # "none" => con'[o].client = "closed"
  <2>1. CASE o = s BY <2>1
  <2>2. CASE o # s BY <2>2 DEF ConInv, Attended, At
  <2> QED BY <2>1, <2>2
<1> QED BY <1>1 DEF ConInv, ConTypeOK, Attended, At

LEMMA ConStep ==
  ASSUME ConInv, [ConNext]_conVars
  PROVE  ConInv'
<1> DEFINE C == [pc : Handler, reader : Reader, client : Client, err : BOOLEAN]
<1>0. running \in BOOLEAN /\ con \in [Sub -> C] BY DEF ConInv, ConTypeOK
<1>1. ASSUME NEW s \in Sub,
             \/ Upgrade(s) \/ Ping(s) \/ SendError(s) \/ CheckStatus(s) \/ ReaderDone(s)
             \/ CloseConn(s) \/ ReadCommand(s) \/ Offer(s) \/ ReadFails(s)
             \/ ClientGoes(s) \/ Forget(s)
      PROVE  ConInv'
  <2>1. /\ running' = running /\ subscribers' = subscribers /\ lockedBy' = lockedBy
    BY <1>1 DEF vars, Upgrade, Ping, SendError, CheckStatus, ReaderDone, CloseConn, ReadCommand,
                Offer, ReadFails, ClientGoes, Forget
  <2>2. /\ s \in subscribers <=> con[s].pc \in {"streaming", "leaving"}
        /\ lockedBy = s => con[s].pc = "upgraded"
        /\ con[s].pc = "none" /\ con[s].reader # "none" => con[s].client = "closed"
    BY DEF ConInv, Attended, At
  <2> DEFINE Kept == /\ con' \in [Sub -> C]
                     /\ \A o \in Sub \ {s} : con'[o] = con[o]
                     /\ con'[s].pc \in {"streaming", "leaving"} <=> con[s].pc \in {"streaming", "leaving"}
                     /\ con[s].pc = "upgraded" => con'[s].pc = "upgraded"
                     /\ con'[s].pc = "none" /\ con'[s].reader # "none" => con'[s].client = "closed"
  <2> USE DEF Handler, Reader, Client, At, Goto
  <2>3. CASE Upgrade(s)
    <3>1. con[s].pc = "none" /\ con[s].reader = "none" /\ lockedBy # s
      BY <2>2, <2>3 DEF Upgrade, NoConnection
    <3>2. con' = [con EXCEPT ![s] = [@ EXCEPT !.pc = "upgraded", !.client = "alive"]]
      BY <1>0, <2>3 DEF Upgrade
    <3>3. Kept BY <1>0, <3>1, <3>2
    <3> QED BY <1>0, <2>1, <2>2, <3>3, OneConnection
  <2>4. CASE Ping(s)
    <3>1. con' = con \/ con' = [con EXCEPT ![s].pc = "leaving"] BY <2>4 DEF Ping, Written
    <3>2. con[s].pc = "streaming" BY <2>4 DEF Ping
    <3>3. Kept BY <1>0, <2>2, <3>1, <3>2
    <3> QED BY <1>0, <2>1, <2>2, <3>3, OneConnection
  <2>5. CASE SendError(s)
    <3>1. con[s].pc = "streaming" BY <2>5 DEF SendError
    <3>2. \/ con' = [con EXCEPT ![s] = [@ EXCEPT !.err = FALSE]]
          \/ con' = [con EXCEPT ![s] = [@ EXCEPT !.err = FALSE, !.pc = "leaving"]]
      BY <1>0, <2>5 DEF SendError
    <3>3. PICK c \in {[con[s] EXCEPT !.err = FALSE], [con[s] EXCEPT !.err = FALSE, !.pc = "leaving"]} :
            con' = [con EXCEPT ![s] = c]
      BY <3>2
    <3>4. c \in C /\ c.pc \in {"streaming", "leaving"} BY <1>0, <3>1
    <3>5. Kept BY <1>0, <3>1, <3>3, <3>4
    <3> QED BY <1>0, <2>1, <2>2, <3>5, OneConnection
  <2>6. CASE CheckStatus(s)
    <3>1. Kept BY <1>0, <2>2, <2>6 DEF CheckStatus
    <3> QED BY <1>0, <2>1, <2>2, <3>1, OneConnection
  <2>7. CASE ReaderDone(s)
    <3>1. Kept BY <1>0, <2>2, <2>7 DEF ReaderDone
    <3> QED BY <1>0, <2>1, <2>2, <3>1, OneConnection
  <2>8. CASE CloseConn(s)
    <3> DEFINE c == [con[s] EXCEPT !.pc = "none", !.client = "closed"]
    <3>1. con[s].pc = "closing" /\ con' = [con EXCEPT ![s] = c] BY <1>0, <2>8 DEF CloseConn
    <3>2. c \in C /\ c.pc = "none" /\ c.client = "closed" BY <1>0
    <3> HIDE DEF c
    <3>3. Kept BY <1>0, <3>1, <3>2
    <3> QED BY <1>0, <2>1, <2>2, <3>3, OneConnection
  <2>9. CASE ReadCommand(s)
    <3>1. Kept BY <1>0, <2>2, <2>9 DEF ReadCommand
    <3> QED BY <1>0, <2>1, <2>2, <3>1, OneConnection
  <2>10. CASE Offer(s)
    <3> DEFINE c == [con[s] EXCEPT !.reader = "reading", !.err = TRUE]
    <3>1. con[s].reader = "offering" /\ con' = [con EXCEPT ![s] = c] BY <1>0, <2>10 DEF Offer
    <3>2. c \in C /\ c.pc = con[s].pc /\ c.client = con[s].client BY <1>0
    <3> HIDE DEF c
    <3>3. Kept BY <1>0, <2>2, <3>1, <3>2
    <3> QED BY <1>0, <2>1, <2>2, <3>3, OneConnection
  <2>11. CASE ReadFails(s)
    <3>1. Kept BY <1>0, <2>2, <2>11 DEF ReadFails
    <3> QED BY <1>0, <2>1, <2>2, <3>1, OneConnection
  <2>12. CASE ClientGoes(s)
    <3>1. Kept BY <1>0, <2>2, <2>12 DEF ClientGoes
    <3> QED BY <1>0, <2>1, <2>2, <3>1, OneConnection
  <2>13. CASE Forget(s)
    <3>1. Kept BY <1>0, <2>2, <2>13 DEF Forget, NoConnection
    <3> QED BY <1>0, <2>1, <2>2, <3>1, OneConnection
  <2> QED BY <1>1, <2>3, <2>4, <2>5, <2>6, <2>7, <2>8, <2>9, <2>10, <2>11, <2>12, <2>13
<1>2. ASSUME NEW s \in Sub, Listen(s) \/ Replay(s) PROVE ConInv'
  <2>1. /\ con' = con /\ running' = running /\ con[s].pc = "upgraded"
        /\ subscribers' = subscribers /\ lockedBy' = s
    BY <1>2 DEF Listen, Replay, console, Subscribe, ReplayOne, At
  <2> QED BY <1>0, <2>1, OneConnection DEF ConInv, Attended, At
<1>3. ASSUME NEW s \in Sub, Serve(s) PROVE ConInv'
  <2>1. /\ subscribers' = subscribers \cup {s} /\ lockedBy' = None /\ running' = running
        /\ con' = [con EXCEPT ![s] = [@ EXCEPT !.pc = "streaming", !.reader = "reading"]]
    BY <1>0, <1>3 DEF Serve, Register
  <2>2. con' \in [Sub -> C] /\ con'[s].pc = "streaming" BY <1>0, <2>1 DEF Handler, Reader
  <2> QED BY <1>0, <2>1, <2>2, OneConnection, SubAssumption
<1>4. ASSUME NEW s \in Sub, SendLine(s) PROVE ConInv'
  <2>1. /\ subscribers' = subscribers /\ lockedBy' = lockedBy /\ running' = running
        /\ con[s].pc = "streaming"
        /\ con' = con \/ con' = [con EXCEPT ![s].pc = "leaving"]
    BY <1>4 DEF SendLine, Receive, Written, At, Goto
  <2>2. /\ con' \in [Sub -> C] /\ con'[s].pc \in {"streaming", "leaving"}
        /\ \A o \in Sub \ {s} : con'[o] = con[o]
    BY <1>0, <2>1 DEF Handler
  <2>3. s \in subscribers /\ lockedBy # s BY <2>1 DEF ConInv, Attended, At
  <2>4. con'[s].pc # "none" BY <2>2
  <2> QED BY <1>0, <2>1, <2>2, <2>3, <2>4, OneConnection
<1>5. ASSUME NEW s \in Sub, Leave(s) PROVE ConInv'
  <2>1. /\ subscribers' = subscribers \ {s} /\ lockedBy' = None /\ lockedBy = None
        /\ running' = running /\ con' = [con EXCEPT ![s].pc = "closing"]
    BY <1>5 DEF Leave, Unsubscribe, Goto
  <2>2. con' \in [Sub -> C] /\ con'[s].pc = "closing" BY <1>0, <2>1 DEF Handler
  <2> QED BY <1>0, <2>1, <2>2, OneConnection, SubAssumption
<1>6. ASSUME con' = con, subscribers' = subscribers, lockedBy' = lockedBy, running' \in BOOLEAN
      PROVE  ConInv'
  BY <1>6 DEF ConInv, ConTypeOK, Attended, At
<1>7. CASE Broadcast /\ UNCHANGED console BY <1>0, <1>6, <1>7 DEF Broadcast, console
<1>8. CASE ServerStops \/ ServerStarts BY <1>6, <1>8 DEF ServerStops, ServerStarts, vars
<1>9. CASE UNCHANGED conVars BY <1>0, <1>6, <1>9 DEF conVars, vars, console
<1> QED BY <1>1, <1>2, <1>3, <1>4, <1>5, <1>7, <1>8, <1>9 DEF ConNext

LEMMA ConInvHolds == ConSpec => []ConInv
<1>1. ConInit => ConInv
  BY SubAssumption
  DEF ConInit, Init, ConInv, ConTypeOK, Attended, At, NoConnection, Handler, Reader, Client
<1>2. ConInv /\ [ConNext]_conVars => ConInv' BY ConStep
<1> QED BY <1>1, <1>2, PTL DEF ConSpec

\* The types of Console's variables (handlers/console.go, ConsoleHandler)
THEOREM ConTypeCorrect == ConSpec => []ConTypeOK
<1>1. ConInv => ConTypeOK BY DEF ConInv
<1> QED BY <1>1, ConInvHolds, PTL

\* No subscription and no lock is left without a handler, no reader that has
\* outlived its handler with an open connection (handlers/console.go,
\* ConsoleHandler).
THEOREM NobodyIsForgotten == ConSpec => []Attended
<1>1. ConInv => Attended BY DEF ConInv
<1> QED BY <1>1, ConInvHolds, PTL

-----------------------------------------------------------------------------
(* LogTail                                                                  *)

USE TailAssumption

-----------------------------------------------------------------------------
(* The places in a set of numbers, counted from below                       *)

UpToNow(S, i) == {j \in S : j <= i}

LEMMA FiniteBelow ==
  ASSUME NEW n \in Nat, NEW S \in SUBSET (1 .. n), NEW i \in Nat
  PROVE  IsFiniteSet(UpToNow(S, i)) /\ Cardinality(UpToNow(S, i)) \in Nat
<1>1. IsFiniteSet(1 .. n) BY FS_Interval
<1>2. UpToNow(S, i) \in SUBSET (1 .. n) BY DEF UpToNow
<1>3. IsFiniteSet(UpToNow(S, i)) BY <1>1, <1>2, FS_Subset
<1> QED BY <1>3, FS_CardinalityType

\* One number more
LEMMA CountNext ==
  ASSUME NEW n \in Nat, NEW S \in SUBSET (1 .. n), NEW i \in Nat
  PROVE  Cardinality(UpToNow(S, i + 1)) =
           IF i + 1 \in S THEN Cardinality(UpToNow(S, i)) + 1 ELSE Cardinality(UpToNow(S, i))
<1>0. \A j \in S : j \in Nat /\ (j <= i + 1 <=> (j <= i \/ j = i + 1)) OBVIOUS
<1>4. ~(i + 1 <= i) OBVIOUS
<1>1. IsFiniteSet(UpToNow(S, i)) BY FiniteBelow
<1>2. CASE i + 1 \in S
  <2>1. UpToNow(S, i + 1) = UpToNow(S, i) \cup {i + 1} /\ i + 1 \notin UpToNow(S, i)
    BY <1>0, <1>2, <1>4 DEF UpToNow
  <2> QED BY <1>1, <1>2, <2>1, FS_AddElement
<1>3. CASE i + 1 \notin S
  <2>1. UpToNow(S, i + 1) = UpToNow(S, i) BY <1>0, <1>3 DEF UpToNow
  <2> QED BY <1>3, <2>1
<1> QED BY <1>2, <1>3

\* A member counts more than what is below it.
LEMMA CountLess ==
  ASSUME NEW n \in Nat, NEW S \in SUBSET (1 .. n), NEW i \in Nat, NEW j \in S, i < j
  PROVE  Cardinality(UpToNow(S, i)) < Cardinality(UpToNow(S, j))
<1> DEFINE A == UpToNow(S, i)
           B == UpToNow(S, j)
<1>1. IsFiniteSet(A) /\ IsFiniteSet(B) /\ Cardinality(A) \in Nat /\ Cardinality(B) \in Nat
  <2>1. j \in Nat OBVIOUS
  <2> QED BY <2>1, FiniteBelow
<1>2. A \in SUBSET B /\ A # B
  <2>1. j \in B /\ j \notin A BY DEF UpToNow
  <2>2. \A l \in S : l <= i => l <= j OBVIOUS
  <2>3. A \subseteq B BY <2>2 DEF UpToNow
  <2> QED BY <2>1, <2>3
<1> HIDE DEF A, B
<1>3. Cardinality(A) <= Cardinality(B) /\ Cardinality(B) # Cardinality(A)
  BY <1>1, <1>2, FS_Subset
<1> QED BY <1>1, <1>3 DEF A, B

\* A set of natural numbers has a least member, a bounded one a greatest.
LEMMA LeastOf ==
  ASSUME NEW T \in SUBSET Nat, T # {}
  PROVE  \E m \in T : \A t \in T : m <= t
<1>1. PICK m \in T : \A t \in T : <<t, m>> \notin OpToRel(<, Nat)
  BY WFMin, NatLessThanWellFounded
<1>2. \A t \in T : ~(t < m) BY <1>1 DEF OpToRel
<1> QED BY <1>2

LEMMA GreatestOf ==
  ASSUME NEW n \in Nat, NEW S \in SUBSET (0 .. n), S # {}
  PROVE  \E m \in S : \A t \in S : m >= t
<1> DEFINE T == {n - s : s \in S}
<1>1. T \in SUBSET Nat /\ T # {}
  <2>1. \A s \in S : n - s \in Nat OBVIOUS
  <2> QED BY <2>1
<1>2. PICK x \in T : \A t \in T : x <= t
  <2> HIDE DEF T
  <2> QED BY <1>1, LeastOf
<1>3. PICK m \in S : x = n - m OBVIOUS
<1>4. ASSUME NEW t \in S PROVE m >= t
  <2>1. n - t \in T OBVIOUS
  <2>2. n - m <= n - t BY <1>2, <1>3, <2>1
  <2> QED BY <2>2
<1> QED BY <1>4

\* Nth is what it says.
LEMMA NthIs ==
  ASSUME NEW n \in Nat, NEW S \in SUBSET (1 .. n), NEW k \in 1 .. Cardinality(S)
  PROVE  Nth(k, S) \in S /\ Cardinality(UpToNow(S, Nth(k, S))) = k
<1>0. Cardinality(S) \in Nat /\ UpToNow(S, n) = S /\ UpToNow(S, 0) = {}
  <2>1. IsFiniteSet(1 .. n) BY FS_Interval
  <2>2. IsFiniteSet(S) BY <2>1, FS_Subset
  <2>3. \A j \in S : j <= n /\ ~(j <= 0) OBVIOUS
  <2>4. UpToNow(S, n) = S /\ UpToNow(S, 0) = {} BY <2>3 DEF UpToNow
  <2> QED BY <2>2, <2>4, FS_CardinalityType
<1> DEFINE T == {i \in Nat : Cardinality(UpToNow(S, i)) >= k}
<1>1. n \in T BY <1>0
<1>2. PICK i \in T : \A t \in T : i <= t
  <2> HIDE DEF T
  <2>1. T \in SUBSET Nat BY DEF T
  <2> QED BY <1>1, <2>1, LeastOf
<1>3. i # 0 BY <1>0, FS_EmptySet
<1>4. i - 1 \in Nat /\ i - 1 \notin T /\ (i - 1) + 1 = i BY <1>2, <1>3
<1>5. Cardinality(UpToNow(S, i - 1)) \in Nat /\ Cardinality(UpToNow(S, i - 1)) < k
  <2>1. Cardinality(UpToNow(S, i - 1)) \in Nat BY <1>4, FiniteBelow
  <2> QED BY <1>4, <2>1
<1>6. i \in S /\ Cardinality(UpToNow(S, i)) = k
  <2>1. Cardinality(UpToNow(S, i)) = IF i \in S THEN Cardinality(UpToNow(S, i - 1)) + 1
                                     ELSE Cardinality(UpToNow(S, i - 1))
    BY <1>4, CountNext
  <2> QED BY <1>5, <2>1
<1>7. \E j \in S : Cardinality({l \in S : l <= j}) = k BY <1>6 DEF UpToNow
<1> QED BY <1>7 DEF Nth, UpToNow

-----------------------------------------------------------------------------
(* A log file: lines follow each other, piece by piece                      *)

\* The pieces of a line that are in a file are there in order and next to one
\* another, and the lines are in order too.
InPlace(s, i) ==
  /\ s[i][2] <= i
  /\ \A k \in 1 .. s[i][2] : s[i - s[i][2] + k] = <<s[i][1], k>>
  /\ s[i][2] = 1 /\ i > 1 => Ends(s[i - 1])
  /\ \A j \in 1 .. i :
       s[j][1] < s[i][1] \/ (s[j][1] = s[i][1] /\ i - j = s[i][2] - s[j][2])

Regular(s) == \A i \in 1 .. Len(s) : InPlace(s, i)

LEMMA PieceOf ==
  ASSUME NEW s \in Seq(Piece), NEW i \in 1 .. Len(s)
  PROVE  /\ s[i] \in Piece /\ s[i] = <<s[i][1], s[i][2]>>
         /\ s[i][1] \in 1 .. MaxWritten /\ s[i][2] \in 1 .. Pieces
         /\ (~Ends(s[i]) => s[i][2] < Pieces)
<1>1. s[i] \in Piece OBVIOUS
<1> QED BY <1>1 DEF Piece, Ends

\* Where a line ends, the pieces before are the rest of it.
LEMMA LineEnding ==
  ASSUME NEW s \in Seq(Piece), Regular(s), NEW e \in 1 .. Len(s), Ends(s[e])
  PROVE  /\ Pieces <= e
         /\ \A k \in 1 .. Pieces : s[e - Pieces + k] = <<s[e][1], k>>
         /\ \A j \in e - Pieces + 1 .. e - 1 : ~Ends(s[j])
         /\ e > Pieces => Ends(s[e - Pieces])
         /\ \A j \in 1 .. e - 1 : Ends(s[j]) => s[j][1] < s[e][1]
         /\ \A j \in e + 1 .. Len(s) : s[e][1] < s[j][1]
<1>1. s[e][2] = Pieces BY DEF Ends
<1>2. Pieces <= e /\ \A k \in 1 .. Pieces : s[e - Pieces + k] = <<s[e][1], k>>
  BY <1>1 DEF Regular, InPlace
<1>3. ASSUME NEW j \in e - Pieces + 1 .. e - 1 PROVE ~Ends(s[j])
  <2>1. j - e + Pieces \in 1 .. Pieces /\ j = e - Pieces + (j - e + Pieces)
        /\ j - e + Pieces # Pieces
    BY <1>2
  <2>2. s[j] = <<s[e][1], j - e + Pieces>> BY <1>2, <2>1
  <2> QED BY <2>1, <2>2 DEF Ends
<1>4. ASSUME e > Pieces PROVE Ends(s[e - Pieces])
  <2>1. s[e - Pieces + 1] = <<s[e][1], 1>> BY <1>2
  <2>2. e - Pieces + 1 \in 1 .. Len(s) /\ e - Pieces + 1 > 1
        /\ (e - Pieces + 1) - 1 = e - Pieces
    BY <1>4
  <2>3. s[e - Pieces + 1][2] = 1 BY <2>1
  <2> QED BY <2>2, <2>3 DEF Regular, InPlace
<1>5. ASSUME NEW j \in 1 .. e - 1, Ends(s[j]) PROVE s[j][1] < s[e][1]
  <2>1. j \in 1 .. e /\ e - j # Pieces - Pieces OBVIOUS
  <2>2. s[j][2] = Pieces BY <1>5 DEF Ends
  <2> QED BY <1>1, <2>1, <2>2 DEF Regular, InPlace
<1>6. ASSUME NEW j \in e + 1 .. Len(s) PROVE s[e][1] < s[j][1]
  <2>1. j \in 1 .. Len(s) /\ e \in 1 .. j OBVIOUS
  <2>2. s[j][2] \in 1 .. Pieces BY <2>1, PieceOf
  <2>3. j - e # s[j][2] - Pieces BY <2>2
  <2> QED BY <1>1, <2>1, <2>3 DEF Regular, InPlace
<1> QED BY <1>2, <1>3, <1>4, <1>5, <1>6

\* So they are the whole line.
LEMMA LineWhole ==
  ASSUME NEW s \in Seq(Piece), Regular(s), NEW e \in 1 .. Len(s), Ends(s[e])
  PROVE  SubSeq(s, e - Pieces + 1, e) = Whole(s[e][1])
<1>1. Pieces <= e /\ \A k \in 1 .. Pieces : s[e - Pieces + k] = <<s[e][1], k>>
  BY LineEnding
<1> DEFINE w == SubSeq(s, e - Pieces + 1, e)
<1>2. /\ w \in Seq(Piece) /\ Len(w) = Pieces
      /\ \A k \in 1 .. Pieces : w[k] = s[e - Pieces + k]
  <2>1. \A i \in e - Pieces + 1 .. e : s[i] \in Piece BY <1>1
  <2>2. e - Pieces + 1 \in Int /\ e \in Int /\ e - Pieces + 1 <= e
        /\ e - (e - Pieces + 1) + 1 = Pieces
        /\ \A k \in 1 .. Pieces : (e - Pieces + 1) + k - 1 = e - Pieces + k
    OBVIOUS
  <2> QED BY <2>1, <2>2, SubSeqProperties
<1> HIDE DEF w
<1>3. \A k \in 1 .. Pieces : w[k] = <<s[e][1], k>> BY <1>1, <1>2
<1>4. w \in [1 .. Pieces -> Piece] BY <1>2, LenProperties
<1>5. w = [k \in 1 .. Pieces |-> <<s[e][1], k>>] BY <1>3, <1>4
<1> QED BY <1>5 DEF Whole, w

\* The line that a newline ends begins after the newline before it.
LEMMA LineBegins ==
  ASSUME NEW s \in Seq(Piece), Regular(s), NEW e \in 1 .. Len(s), Ends(s[e]),
         NEW b \in 0 .. e - 1, b = 0 \/ Ends(s[b]),
         \A j \in b + 1 .. e - 1 : ~Ends(s[j])
  PROVE  b = e - Pieces
<1>1. /\ Pieces <= e /\ \A j \in e - Pieces + 1 .. e - 1 : ~Ends(s[j])
      /\ e > Pieces => Ends(s[e - Pieces])
  BY LineEnding
<1>2. b <= e - Pieces
  <2>1. CASE b = 0 BY <1>1, <2>1
  <2>2. CASE b # 0
    <3>1. b \notin e - Pieces + 1 .. e - 1 BY <1>1, <2>2
    <3> QED BY <3>1
  <2> QED BY <2>1, <2>2
<1>3. ~(b < e - Pieces)
  <2>1. SUFFICES ASSUME b < e - Pieces PROVE FALSE OBVIOUS
  <2>2. e > Pieces /\ e - Pieces \in b + 1 .. e - 1 BY <2>1
  <2> QED BY <1>1, <2>2
<1> QED BY <1>2, <1>3

\* The JVM's next piece continues a regular file.
LEMMA RegularAppended ==
  ASSUME NEW s \in Seq(Piece), Regular(s), NEW n \in Nat,
         \A i \in 1 .. Len(s) : s[i][1] <= n,
         NEW p \in Piece,
         p = IF s # <<>> /\ ~Ends(s[Len(s)]) THEN <<s[Len(s)][1], s[Len(s)][2] + 1>>
             ELSE <<n + 1, 1>>
  PROVE  Regular(Append(s, p))
<1> DEFINE t == Append(s, p)
           m == Len(s)
<1>1. /\ m \in Nat /\ Len(t) = m + 1 /\ t[m + 1] = p
      /\ \A i \in 1 .. m : t[i] = s[i] /\ t[i] \in Piece
  OBVIOUS
<1> HIDE DEF t
<1>2. \A i \in 1 .. m : s[i][1] \in Nat /\ s[i][2] \in 1 .. Pieces BY PieceOf
<1>3. ASSUME NEW i \in 1 .. m PROVE InPlace(t, i)
  <2>1. t[i] = s[i] /\ \A j \in 1 .. i : t[j] = s[j] BY <1>1
  <2>2. s[i][2] <= i /\ s[i][2] \in 1 .. Pieces BY <1>2 DEF Regular, InPlace
  <2>3. ASSUME NEW k \in 1 .. t[i][2] PROVE t[i - t[i][2] + k] = <<t[i][1], k>>
    <3>1. i - s[i][2] + k \in 1 .. i /\ k \in 1 .. s[i][2] BY <2>1, <2>2
    <3>2. s[i - s[i][2] + k] = <<s[i][1], k>> BY <3>1 DEF Regular, InPlace
    <3> QED BY <2>1, <3>1, <3>2
  <2>4. ASSUME t[i][2] = 1, i > 1 PROVE Ends(t[i - 1])
    <3>1. i - 1 \in 1 .. i BY <2>4
    <3>2. Ends(s[i - 1]) BY <2>1, <2>4 DEF Regular, InPlace
    <3> QED BY <2>1, <3>1, <3>2
  <2>5. ASSUME NEW j \in 1 .. i
        PROVE  t[j][1] < t[i][1] \/ (t[j][1] = t[i][1] /\ i - j = t[i][2] - t[j][2])
    <3>1. s[j][1] < s[i][1] \/ (s[j][1] = s[i][1] /\ i - j = s[i][2] - s[j][2])
      BY DEF Regular, InPlace
    <3> QED BY <2>1, <3>1
  <2>6. t[i][2] <= i BY <2>1, <2>2
  <2> QED BY <2>3, <2>4, <2>5, <2>6 DEF InPlace
<1>4. CASE s # <<>> /\ ~Ends(s[m])
  <2>1. m \in 1 .. m /\ p[1] = s[m][1] /\ p[2] = s[m][2] + 1 BY <1>1, <1>4
  <2>2. s[m][2] <= m /\ s[m][2] \in 1 .. Pieces /\ s[m][1] \in Nat BY <1>2, <2>1 DEF Regular, InPlace
  <2>3. ASSUME NEW k \in 1 .. p[2] PROVE t[(m + 1) - p[2] + k] = <<p[1], k>>
    <3>1. CASE k = p[2]
      <4>1. (m + 1) - p[2] + k = m + 1 BY <2>1, <2>2, <3>1
      <4>2. p = <<p[1], p[2]>> BY DEF Piece
      <4> QED BY <1>1, <3>1, <4>1, <4>2
    <3>2. CASE k # p[2]
      <4>1. k \in 1 .. s[m][2] /\ (m + 1) - p[2] + k = m - s[m][2] + k
            /\ m - s[m][2] + k \in 1 .. m
        <5> DEFINE q == s[m][2]
        <5>1. m \in Nat /\ q \in Nat /\ q <= m /\ p[2] = q + 1 BY <1>1, <2>1, <2>2
        <5> HIDE DEF q, m
        <5>2. k \in 1 .. q + 1 /\ k # q + 1 BY <3>2, <5>1
        <5>3. k \in 1 .. q /\ (m + 1) - (q + 1) + k = m - q + k /\ m - q + k \in 1 .. m
          BY <5>1, <5>2
        <5> QED BY <5>1, <5>3 DEF q
      <4>2. s[m - s[m][2] + k] = <<s[m][1], k>> BY <2>1, <4>1 DEF Regular, InPlace
      <4> QED BY <1>1, <2>1, <4>1, <4>2
    <3> QED BY <3>1, <3>2
  <2>4. ASSUME NEW j \in 1 .. m + 1
        PROVE  t[j][1] < p[1] \/ (t[j][1] = p[1] /\ (m + 1) - j = p[2] - t[j][2])
    <3>1. CASE j = m + 1 BY <1>1, <2>1, <2>2, <3>1
    <3>2. CASE j \in 1 .. m
      <4>1. s[j][1] < s[m][1] \/ (s[j][1] = s[m][1] /\ m - j = s[m][2] - s[j][2])
        BY <2>1, <3>2 DEF Regular, InPlace
      <4>2. t[j] = s[j] /\ s[j][2] \in Nat /\ s[j][1] \in Nat BY <1>1, <1>2, <3>2
      <4> DEFINE q == s[m][2]
                 r == s[j][2]
      <4>3. m \in Nat /\ q \in Nat /\ r \in Nat /\ p[2] = q + 1 BY <1>1, <2>1, <2>2, <4>2
      <4>4. m - j = q - r => (m + 1) - j = p[2] - r
        <5> HIDE DEF m, q, r
        <5> QED BY <3>2, <4>3
      <4> QED BY <2>1, <4>1, <4>2, <4>4
    <3> QED BY <1>1, <3>1, <3>2
  <2>5. p[2] <= m + 1 /\ p[2] # 1 BY <2>1, <2>2
  <2>6. ASSUME NEW i \in 1 .. m + 1, i \notin 1 .. m PROVE i = m + 1 BY <1>1, <2>6
  <2>7. InPlace(t, m + 1) BY <1>1, <2>3, <2>4, <2>5 DEF InPlace
  <2> QED BY <1>1, <1>3, <2>6, <2>7 DEF Regular, t
<1>5. CASE ~(s # <<>> /\ ~Ends(s[m]))
  <2>1. p[1] = n + 1 /\ p[2] = 1 /\ p = <<p[1], 1>> BY <1>5
  <2>2. ASSUME NEW k \in 1 .. p[2] PROVE t[(m + 1) - p[2] + k] = <<p[1], k>>
    <3>1. k = 1 /\ (m + 1) - p[2] + k = m + 1 BY <1>1, <2>1
    <3> QED BY <1>1, <2>1, <3>1
  <2>3. m + 1 > 1 => Ends(t[(m + 1) - 1])
    <3>1. ASSUME m + 1 > 1 PROVE Ends(t[(m + 1) - 1])
      <4>1. s # <<>> /\ m \in 1 .. m /\ (m + 1) - 1 = m BY <1>1, <3>1
      <4> QED BY <1>1, <1>5, <4>1
    <3> QED BY <3>1
  <2>4. ASSUME NEW j \in 1 .. m + 1
        PROVE  t[j][1] < p[1] \/ (t[j][1] = p[1] /\ (m + 1) - j = p[2] - t[j][2])
    <3>1. CASE j = m + 1 BY <1>1, <2>1, <3>1
    <3>2. CASE j \in 1 .. m
      <4>1. t[j] = s[j] /\ s[j][1] \in Nat /\ s[j][1] <= n BY <1>1, <1>2, <3>2
      <4> QED BY <2>1, <4>1
    <3> QED BY <1>1, <3>1, <3>2
  <2>5. p[2] <= m + 1 BY <1>1, <2>1
  <2>6. ASSUME NEW i \in 1 .. m + 1, i \notin 1 .. m PROVE i = m + 1 BY <1>1, <2>6
  <2>7. InPlace(t, m + 1) BY <1>1, <2>2, <2>3, <2>4, <2>5 DEF InPlace
  <2> QED BY <1>1, <1>3, <2>6, <2>7 DEF Regular, t
<1> QED BY <1>4, <1>5

-----------------------------------------------------------------------------
(* Opening the file: what is replayed of it, and where following begins     *)

LEMMA MaxIs ==
  ASSUME NEW S, NEW m \in S, \A y \in S : m >= y
  PROVE  Max(S) \in S /\ \A y \in S : Max(S) >= y
BY DEF Max

LEMMA ResumeIs ==
  ASSUME NEW s \in Seq(Piece), Regular(s)
  PROVE  /\ ResumeAt(s) \in 0 .. Len(s)
         /\ ResumeAt(s) = 0 \/ Ends(s[ResumeAt(s)])
         /\ \A j \in ResumeAt(s) + 1 .. Len(s) : ~Ends(s[j])
<1> DEFINE N == Newlines(s) \cup {0}
           end == Max(N)
           m == Len(s)
<1>0. m \in Nat OBVIOUS
<1>1. end \in N /\ \A y \in N : end >= y
  <2>1. N \in SUBSET (0 .. m) /\ N # {} BY <1>0 DEF Newlines
  <2>2. \E x \in N : \A y \in N : x >= y
    <3> HIDE DEF N, m
    <3> QED BY <1>0, <2>1, GreatestOf
  <2> HIDE DEF N
  <2> QED BY <2>2, MaxIs
<1>2. end \in 0 .. m /\ (end = 0 \/ Ends(s[end])) BY <1>0, <1>1 DEF Newlines
<1>3. \A j \in 1 .. m : Ends(s[j]) => j <= end
  <2>1. \A j \in 1 .. m : Ends(s[j]) => j \in N BY DEF Newlines
  <2>2. \A j \in 1 .. m : j \in N => end >= j BY <1>1
  <2> HIDE DEF N, end
  <2> QED BY <1>2, <2>1, <2>2
<1>4. ~(Start(s) > 0 /\ end <= Start(s))
  <2>1. SUFFICES ASSUME Start(s) > 0, end <= Start(s) PROVE FALSE OBVIOUS
  <2>2. m > Window /\ Start(s) = m - Window BY <1>0, <2>1 DEF Start
  <2>3. m \in 1 .. m /\ m > Pieces BY <1>0, <2>2
  <2> DEFINE k == s[m][2]
  <2>4. k \in 1 .. Pieces /\ (~Ends(s[m]) => k < Pieces) BY <2>3, PieceOf
  <2>5. end < m /\ ~Ends(s[m])
    <3>1. end < m BY <1>0, <1>2, <2>1, <2>2, <2>3
    <3>2. Ends(s[m]) => m <= end BY <1>3, <2>3
    <3> HIDE DEF end
    <3> QED BY <1>0, <1>2, <3>1, <3>2
  <2>6. k < Pieces BY <2>4, <2>5
  <2>7. s[m - k + 1][2] = 1 /\ m - k + 1 \in 1 .. m /\ m - k + 1 > 1
    <3>1. s[m - k + 1] = <<s[m][1], 1>> BY <2>3, <2>4 DEF Regular, InPlace
    <3> HIDE DEF k
    <3> QED BY <1>0, <2>3, <2>4, <2>6, <3>1
  <2>8. Ends(s[m - k]) /\ m - k \in 1 .. m
    <3>1. (m - k + 1) - 1 = m - k /\ m - k \in 1 .. m
      <4> HIDE DEF k
      <4> QED BY <1>0, <2>4, <2>7
    <3> QED BY <2>7, <3>1 DEF Regular, InPlace
  <2>9. m - k <= end BY <1>3, <2>8
  <2> HIDE DEF k, end
  <2> QED BY <1>0, <1>2, <2>1, <2>2, <2>4, <2>6, <2>9
<1>5. ResumeAt(s) = end BY <1>4 DEF ResumeAt
<1> HIDE DEF end
<1> QED BY <1>2, <1>3, <1>5

\* Between two newlines that follow each other in the window lies one line, and
\* so it does before the first if the window begins with the file.
LEMMA WindowLine ==
  ASSUME NEW s \in Seq(Piece), Regular(s), NEW st \in 0 .. Len(s),
         NEW S, S = {i \in 1 .. Len(s) - st : Ends(s[st + i])},
         NEW m \in 1 .. Cardinality(S), m = 1 => st = 0
  PROVE  /\ Nth(m, S) \in S
         /\ (IF m = 1 THEN 1 ELSE Nth(m - 1, S) + 1) = Nth(m, S) - Pieces + 1
         /\ Nth(m, S) >= Pieces
<1> DEFINE e == Nth(m, S)
           n == Len(s) - st
           c(i) == Cardinality(UpToNow(S, i))
<1>0. n \in Nat /\ S \in SUBSET (1 .. n) /\ Cardinality(S) \in Nat
  <2>1. Len(s) \in Nat /\ n \in Nat OBVIOUS
  <2>2. S \in SUBSET (1 .. n) OBVIOUS
  <2>3. IsFiniteSet(1 .. n) BY <2>1, FS_Interval
  <2>4. IsFiniteSet(S) BY <2>2, <2>3, FS_Subset
  <2> QED BY <2>1, <2>2, <2>4, FS_CardinalityType
<1>1. e \in S /\ c(e) = m BY <1>0, NthIs
<1>2. e \in 1 .. n /\ st + e \in 1 .. Len(s) /\ Ends(s[st + e])
  BY <1>1
<1>3. /\ Pieces <= st + e
      /\ \A j \in (st + e) - Pieces + 1 .. (st + e) - 1 : ~Ends(s[j])
      /\ st + e > Pieces => Ends(s[(st + e) - Pieces])
  BY <1>2, LineEnding
<1>4. (e > Pieces) => (e - Pieces \in S /\ c(e - Pieces) < m /\ 0 < c(e - Pieces))
  <2>1. SUFFICES ASSUME e > Pieces PROVE e - Pieces \in S /\ c(e - Pieces) < m /\ 0 < c(e - Pieces)
    OBVIOUS
  <2>2. e - Pieces \in 1 .. n /\ (st + e) - Pieces = st + (e - Pieces) /\ e - Pieces \in Nat
        /\ e - Pieces < e /\ st + e > Pieces /\ 0 < e - Pieces
    <3>1. n \in Nat /\ st \in Nat /\ e \in 1 .. n /\ e > Pieces BY <1>0, <1>2, <2>1
    <3> HIDE DEF n, e
    <3> QED BY <3>1
  <2>3. e - Pieces \in S BY <1>3, <2>2
  <2>4. c(e - Pieces) < c(e) BY <1>0, <1>1, <2>2, CountLess
  <2>5. c(0) < c(e - Pieces) BY <1>0, <2>2, <2>3, CountLess
  <2>6. c(0) = 0
    <3>1. UpToNow(S, 0) = {} BY <1>0 DEF UpToNow
    <3> QED BY <3>1, FS_EmptySet
  <2> QED BY <1>1, <2>3, <2>4, <2>5, <2>6
<1>5. CASE m = 1
  <2>1. st = 0 /\ e >= Pieces BY <1>2, <1>3, <1>5
  <2>2. ~(e > Pieces)
    <3>1. SUFFICES ASSUME e > Pieces PROVE FALSE OBVIOUS
    <3>2. e - Pieces \in Nat BY <1>0, <1>2, <3>1
    <3>3. c(e - Pieces) \in Nat BY <1>0, <3>2, FiniteBelow
    <3> HIDE DEF c, e
    <3> QED BY <1>4, <1>5, <3>1, <3>3
  <2>3. e = Pieces BY <1>0, <1>2, <2>1, <2>2
  <2> QED BY <1>1, <1>5, <2>3
<1>6. CASE m # 1
  <2> DEFINE d == Nth(m - 1, S)
  <2>1. m - 1 \in 1 .. Cardinality(S) /\ m \in Nat BY <1>0, <1>6
  <2>2. d \in S /\ c(d) = m - 1 BY <1>0, <2>1, NthIs
  <2>3. d \in 1 .. n /\ Ends(s[st + d]) BY <2>2
  <2>4. d < e
    <3>1. ~(e < d)
      <4>1. SUFFICES ASSUME e < d PROVE FALSE OBVIOUS
      <4>2. e \in Nat BY <1>2
      <4>3. c(e) < c(d) BY <1>0, <2>2, <4>1, <4>2, CountLess
      <4> QED BY <1>1, <2>1, <2>2, <4>3
    <3>2. e # d BY <1>1, <2>1, <2>2
    <3> QED BY <1>0, <1>2, <2>3, <3>1, <3>2
  <2>5. d <= e - Pieces
    <3>1. st + d \notin (st + e) - Pieces + 1 .. (st + e) - 1 BY <1>3, <2>3
    <3> HIDE DEF d, e
    <3> QED BY <1>0, <1>2, <2>3, <2>4, <3>1
  <2>6. ~(d < e - Pieces)
    <3>1. SUFFICES ASSUME d < e - Pieces PROVE FALSE OBVIOUS
    <3>2. e > Pieces /\ e - Pieces \in Nat /\ d \in Nat BY <1>0, <1>2, <2>3, <3>1, SMTT(30)
    <3>3. e - Pieces \in S /\ c(e - Pieces) < m BY <1>4, <3>2
    <3>4. c(d) < c(e - Pieces) BY <1>0, <3>1, <3>2, <3>3, CountLess
    <3>5. c(e - Pieces) \in Nat BY <1>0, <3>2, FiniteBelow
    <3> HIDE DEF c, e, d
    <3> QED BY <2>1, <2>2, <3>3, <3>4, <3>5
  <2>7. d = e - Pieces
    <3> HIDE DEF d, e
    <3> QED BY <1>0, <1>2, <2>3, <2>5, <2>6
  <2> QED
    <3> HIDE DEF d
    <3>1. d = Nth(m - 1, S) BY DEF d
    <3> QED BY <1>0, <1>1, <1>2, <1>6, <2>3, <2>7, <3>1
<1> QED BY <1>5, <1>6

\* Nth grows.
LEMMA NthGrows ==
  ASSUME NEW n \in Nat, NEW S \in SUBSET (1 .. n),
         NEW i \in 1 .. Cardinality(S), NEW j \in 1 .. Cardinality(S), i < j
  PROVE  Nth(i, S) < Nth(j, S)
<1> DEFINE d == Nth(i, S)
           e == Nth(j, S)
<1>0. Cardinality(S) \in Nat
  <2>1. IsFiniteSet(1 .. n) BY FS_Interval
  <2>2. IsFiniteSet(S) BY <2>1, FS_Subset
  <2> QED BY <2>2, FS_CardinalityType
<1>1. /\ d \in S /\ Cardinality(UpToNow(S, d)) = i
      /\ e \in S /\ Cardinality(UpToNow(S, e)) = j
  BY NthIs
<1> HIDE DEF d, e
<1>2. d \in Nat /\ e \in Nat BY <1>1
<1>3. d # e BY <1>1, <1>0
<1>4. ~(e < d)
  <2>1. SUFFICES ASSUME e < d PROVE FALSE OBVIOUS
  <2>2. Cardinality(UpToNow(S, e)) < Cardinality(UpToNow(S, d))
    BY <1>1, <1>2, <2>1, CountLess
  <2> QED BY <1>0, <1>1, <2>2
<1>5. d < e BY <1>2, <1>3, <1>4
<1> QED BY <1>5 DEF d, e

\* The backlog consists of whole lines of the file, in order.
LEMMA BacklogIs ==
  ASSUME NEW s \in Seq(Piece), Regular(s)
  PROVE  /\ Backlog(s) \in Seq(Seq(Piece))
         /\ \E f \in [1 .. Len(Backlog(s)) -> 1 .. Len(s)] :
              \A k \in 1 .. Len(Backlog(s)) :
                /\ Ends(s[f[k]]) /\ Backlog(s)[k] = Whole(s[f[k]][1])
                /\ \A l \in 1 .. k - 1 : f[l] < f[k]
<1> DEFINE st == Start(s)
           m == Len(s)
           data == SubSeq(s, st + 1, m)
           S == Newlines(data)
           c == Cardinality(S)
           a == IF st > 0 THEN 1 ELSE 0
           skip == Max({a, c - BacklogMax})
           begin(k) == IF k = 1 THEN 1 ELSE Nth(k - 1, S) + 1
           line(k) == SubSeq(data, begin(k), Nth(k, S))
<1>1. Backlog(s) = [k \in 1 .. c - skip |-> line(k + skip)] BY DEF Backlog
<1>2. m \in Nat /\ st \in 0 .. m BY DEF Start
<1>3. /\ data \in Seq(Piece) /\ Len(data) = m - st
      /\ \A i \in 1 .. m - st : data[i] = s[st + i]
  <2>1. \A i \in st + 1 .. m : s[i] \in Piece BY <1>2
  <2> HIDE DEF st, m
  <2>2. st + 1 \in Int /\ m \in Int /\ m - (st + 1) + 1 = m - st
        /\ (IF st + 1 <= m THEN m - (st + 1) + 1 ELSE 0) = m - st
        /\ \A i \in 1 .. m - st : (st + 1) + i - 1 = st + i
    BY <1>2
  <2> QED BY <2>1, <2>2, SubSeqProperties
<1> HIDE DEF data
<1>4. S = {i \in 1 .. m - st : Ends(s[st + i])} BY <1>3 DEF Newlines
<1>5. m - st \in Nat /\ S \in SUBSET (1 .. m - st) /\ c \in Nat
  <2>1. m - st \in Nat BY <1>2
  <2>2. S \in SUBSET (1 .. m - st) BY <1>4
  <2>3. IsFiniteSet(1 .. m - st) BY <2>1, FS_Interval
  <2>4. IsFiniteSet(S) BY <2>2, <2>3, FS_Subset
  <2> QED BY <2>1, <2>2, <2>4, FS_CardinalityType
<1>15. \A x \in S : x \in Nat BY <1>5
<1> HIDE DEF S
<1>6. a \in {0, 1} /\ (a = 0 => st = 0) BY <1>2
<1>7. skip \in Int /\ skip >= a
  <2>1. a \in Int /\ c - BacklogMax \in Int BY <1>5, <1>6
  <2> DEFINE b == c - BacklogMax
  <2>2. skip = Max({a, b}) OBVIOUS
  <2> HIDE DEF a, b, skip
  <2>3. \E x \in {a, b} : \A y \in {a, b} : x >= y
    <3>1. CASE a >= b BY <2>1, <3>1 DEF b
    <3>2. CASE ~(a >= b)
      <4>1. b >= a /\ b >= b BY <2>1, <3>2 DEF b
      <4> QED BY <4>1
    <3> QED BY <3>1, <3>2
  <2>4. skip \in {a, b} /\ \A y \in {a, b} : skip >= y BY <2>2, <2>3, MaxIs
  <2>5. b \in Int BY <2>1 DEF b
  <2> QED BY <2>1, <2>4, <2>5
<1> HIDE DEF skip, a
<1>8. ASSUME NEW k \in 1 .. c - skip
      PROVE  /\ k + skip \in 1 .. c
             /\ Nth(k + skip, S) \in S
             /\ line(k + skip) = Whole(s[st + Nth(k + skip, S)][1])
             /\ line(k + skip) \in Seq(Piece)
  <2> DEFINE i == k + skip
             e == Nth(i, S)
  <2>1. i \in 1 .. c /\ (i = 1 => st = 0) BY <1>5, <1>6, <1>7
  <2>2. e \in S /\ begin(i) = e - Pieces + 1 /\ e >= Pieces
    <3> HIDE DEF i, st, m
    <3>1. st \in 0 .. Len(s) BY <1>2 DEF m
    <3>2. S = {j \in 1 .. Len(s) - st : Ends(s[st + j])} BY <1>4 DEF m
    <3> QED BY <2>1, <3>1, <3>2, WindowLine
  <2>3. e \in 1 .. m - st /\ Ends(s[st + e]) BY <1>4, <2>2
  <2> HIDE DEF begin, e
  <2>4. SubSeq(data, e - Pieces + 1, e) = SubSeq(s, st + e - Pieces + 1, st + e)
    <3> DEFINE x == st + 1
               y == e - Pieces + 1
    <3>1. Len(s) = m /\ data = SubSeq(s, x, m) BY DEF data
    <3>2. m \in Nat /\ st \in Nat /\ st <= m /\ e \in Nat /\ e <= m - st /\ e >= Pieces
      BY <1>2, <2>2, <2>3
    <3> HIDE DEF m, st
    <3>3. /\ x \in 1 .. m /\ m \in 1 .. m
          /\ y \in 1 .. m - x + 1 /\ e \in 1 .. m - x + 1
          /\ x + y - 1 = st + e - Pieces + 1 /\ x + e - 1 = st + e
      BY <3>2
    <3> HIDE DEF x, y
    <3>4. SubSeq(SubSeq(s, x, m), y, e) = SubSeq(s, x + y - 1, x + e - 1)
      BY <3>1, <3>3, SubSeqOfSubSeq
    <3> QED BY <3>1, <3>3, <3>4 DEF y
  <2>5. SubSeq(s, st + e - Pieces + 1, st + e) = Whole(s[st + e][1])
    <3> DEFINE x == st + e
    <3>1. x \in 1 .. Len(s) /\ Ends(s[x]) BY <1>2, <2>3
    <3>3. x - Pieces + 1 = st + e - Pieces + 1 BY <1>2, <2>3
    <3> HIDE DEF x
    <3>2. SubSeq(s, x - Pieces + 1, x) = Whole(s[x][1]) BY <3>1, LineWhole
    <3> QED BY <3>2, <3>3 DEF x
  <2>6. line(i) = SubSeq(data, e - Pieces + 1, e) BY <2>2 DEF e
  <2>7. SubSeq(data, e - Pieces + 1, e) \in Seq(Piece)
    <3>1. \A j \in e - Pieces + 1 .. e : data[j] \in Piece BY <1>2, <1>3, <2>2, <2>3
    <3>2. e \in Int /\ e - Pieces + 1 \in Int BY <1>2, <2>3
    <3> QED BY <3>1, <3>2, SubSeqProperties
  <2> QED BY <2>1, <2>2, <2>4, <2>5, <2>6, <2>7 DEF e
<1> HIDE DEF line
<1>9. c - skip \in Int BY <1>5, <1>7
<1> DEFINE n == IF c - skip >= 0 THEN c - skip ELSE 0
<1>10. /\ n \in Nat /\ 1 .. c - skip = 1 .. n
       /\ \A k \in 1 .. n : k \in 1 .. c - skip
  BY <1>9
<1> HIDE DEF n, c
<1>11. Backlog(s) = [k \in 1 .. n |-> line(k + skip)] BY <1>1, <1>10
<1>12. Backlog(s) \in Seq(Seq(Piece)) /\ Len(Backlog(s)) = n
  BY <1>8, <1>10, <1>11
<1> DEFINE f == [k \in 1 .. n |-> st + Nth(k + skip, S)]
<1>13. f \in [1 .. n -> 1 .. m]
  <2>1. ASSUME NEW k \in 1 .. n PROVE st + Nth(k + skip, S) \in 1 .. m
    <3>1. Nth(k + skip, S) \in 1 .. m - st BY <1>5, <1>8, <1>10
    <3> QED BY <1>2, <3>1
  <2> QED BY <2>1
<1>14. ASSUME NEW k \in 1 .. n
       PROVE  /\ Ends(s[f[k]]) /\ Backlog(s)[k] = Whole(s[f[k]][1])
              /\ \A l \in 1 .. k - 1 : f[l] < f[k]
  <2>1. k \in 1 .. c - skip /\ f[k] = st + Nth(k + skip, S) BY <1>10
  <2>2. Ends(s[f[k]]) BY <1>4, <1>8, <2>1
  <2>3. Backlog(s)[k] = Whole(s[f[k]][1]) BY <1>8, <1>11, <2>1
  <2>4. ASSUME NEW l \in 1 .. k - 1 PROVE f[l] < f[k]
    <3>1. l \in 1 .. n /\ l \in 1 .. c - skip /\ l + skip < k + skip
      BY <1>5, <1>7, <1>10
    <3>2. l + skip \in 1 .. c /\ k + skip \in 1 .. c BY <1>8, <2>1, <3>1
    <3>3. Nth(l + skip, S) < Nth(k + skip, S)
      BY <1>5, <3>1, <3>2, NthGrows DEF c
    <3>4. Nth(l + skip, S) \in Nat /\ Nth(k + skip, S) \in Nat
      BY <1>8, <1>15, <2>1, <3>1
    <3>5. f[l] = st + Nth(l + skip, S) BY <3>1
    <3> HIDE DEF st, f
    <3> QED BY <1>2, <2>1, <3>3, <3>4, <3>5
  <2> QED BY <2>2, <2>3, <2>4
<1> HIDE DEF f
<1> QED BY <1>12, <1>13, <1>14

-----------------------------------------------------------------------------
(* Types, and the files the JVM leaves                                      *)

\* Lines are numbered on through all files; only the last of these is written.
FilesInv ==
  /\ path # 0 => path = Len(files)
  /\ \A f \in 1 .. Len(files) :
       /\ Regular(files[f])
       /\ \A i \in 1 .. Len(files[f]) : files[f][i][1] <= lines
  /\ \A f \in 1 .. Len(files) : \A g \in f + 1 .. Len(files) :
       \A i \in 1 .. Len(files[f]), j \in 1 .. Len(files[g]) : files[f][i][1] < files[g][j][1]
  /\ (path # 0 /\ files[path] # <<>>) => files[path][Len(files[path])][1] = lines

LEMMA FileTyped ==
  ASSUME TailTypeOK
  PROVE  /\ lines \in Nat /\ Len(files) \in Nat /\ path \in 0 .. Len(files)
         /\ \A f \in 1 .. Len(files) : files[f] \in Seq(Piece)
         /\ tail.file \in 0 .. Len(files) /\ tail.offset \in Nat
         /\ tail.partial \in Seq(Piece) /\ tail.seed \in BOOLEAN
         /\ sent \in Seq(Seq(Piece)) /\ from \in Nat
BY DEF TailTypeOK

\* What the JVM writes next is a piece, of the line under way or of a new one.
LEMMA NextPieceIs ==
  ASSUME TailTypeOK, FilesInv, path # 0, NextPiece[1] <= MaxWritten
  PROVE  /\ NextPiece \in Piece
         /\ NextPiece = IF files[path] # <<>> /\ ~Ends(files[path][Len(files[path])])
                        THEN <<files[path][Len(files[path])][1],
                               files[path][Len(files[path])][2] + 1>>
                        ELSE <<lines + 1, 1>>
         /\ NextPiece[1] \in lines .. lines + 1
<1> DEFINE s == files[path]
           q == s[Len(s)]
<1>1. s \in Seq(Piece) /\ lines \in Nat BY FileTyped
<1>2. s # <<>> => Len(s) \in 1 .. Len(s) /\ q[1] = lines BY <1>1 DEF FilesInv
<1>3. s # <<>> => /\ q[1] \in 1 .. MaxWritten /\ q[2] \in 1 .. Pieces
                  /\ (~Ends(q) => q[2] < Pieces)
  BY <1>1, <1>2, PieceOf
<1>4. NextPiece = IF s # <<>> /\ ~Ends(q) THEN <<q[1], q[2] + 1>> ELSE <<lines + 1, 1>>
  BY DEF NextPiece, MidLine
<1> HIDE DEF q, s
<1>5. CASE s # <<>> /\ ~Ends(q)
  <2>1. q[2] + 1 \in 1 .. Pieces /\ q[1] \in 1 .. MaxWritten BY <1>3, <1>5
  <2>2. NextPiece = <<q[1], q[2] + 1>> BY <1>4, <1>5
  <2> QED BY <1>1, <1>2, <1>4, <1>5, <2>1, <2>2 DEF Piece, q, s
<1>6. CASE ~(s # <<>> /\ ~Ends(q))
  <2>1. NextPiece = <<lines + 1, 1>> BY <1>4, <1>6
  <2>2. lines + 1 \in 1 .. MaxWritten /\ 1 \in 1 .. Pieces BY <1>1, <2>1
  <2>3. <<lines + 1, 1>> \in Piece BY <2>2 DEF Piece
  <2>4. NextPiece[1] \in lines .. lines + 1 BY <1>1, <2>1
  <2> QED BY <1>4, <2>1, <2>3, <2>4 DEF q, s
<1> QED BY <1>5, <1>6

LEMMA UnreadIs ==
  ASSUME TailTypeOK, tail.file # 0
  PROVE  LET s == files[tail.file] IN
         /\ s \in Seq(Piece) /\ Unread \in Seq(Piece)
         /\ Len(Unread) = IF tail.offset <= Len(s) THEN Len(s) - tail.offset ELSE 0
         /\ \A i \in 1 .. Len(Unread) : Unread[i] = s[tail.offset + i]
<1> DEFINE s == files[tail.file]
           o == tail.offset
<1>1. s \in Seq(Piece) /\ o \in Nat /\ Len(s) \in Nat BY FileTyped
<1>2. Unread = SubSeq(s, o + 1, Len(s)) BY DEF Unread
<1> HIDE DEF s, o
<1>3. \A i \in o + 1 .. Len(s) : s[i] \in Piece BY <1>1
<1>4. /\ o + 1 \in Int /\ Len(s) \in Int
      /\ (IF o + 1 <= Len(s) THEN Len(s) - (o + 1) + 1 ELSE 0)
           = (IF o <= Len(s) THEN Len(s) - o ELSE 0)
      /\ \A i \in 1 .. (IF o <= Len(s) THEN Len(s) - o ELSE 0) :
           i \in 1 .. Len(s) - (o + 1) + 1 /\ (o + 1) + i - 1 = o + i
  BY <1>1
<1>5. /\ Unread \in Seq(Piece)
      /\ Len(Unread) = IF o + 1 <= Len(s) THEN Len(s) - (o + 1) + 1 ELSE 0
      /\ \A i \in 1 .. Len(s) - (o + 1) + 1 : Unread[i] = s[(o + 1) + i - 1]
  BY <1>2, <1>3, <1>4, SubSeqProperties
<1>6. \A i \in 1 .. Len(Unread) : Unread[i] = s[o + i] BY <1>4, <1>5
<1> QED BY <1>1, <1>4, <1>5, <1>6 DEF s, o

\* The first newline of what is unread
LEMMA FirstNewline ==
  ASSUME TailTypeOK, tail.file # 0, Newlines(Unread) # {}
  PROVE  /\ Min(Newlines(Unread)) \in 1 .. Len(Unread)
         /\ Ends(Unread[Min(Newlines(Unread))])
         /\ \A j \in 1 .. Min(Newlines(Unread)) - 1 : ~Ends(Unread[j])
<1> DEFINE N == Newlines(Unread)
           i == Min(N)
<1>1. Len(Unread) \in Nat /\ N \in SUBSET (1 .. Len(Unread)) /\ N \in SUBSET Nat
  <2>1. Len(Unread) \in Nat BY UnreadIs
  <2> QED BY <2>1 DEF Newlines
<1>2. i \in N /\ \A y \in N : i <= y
  <2>1. \E x \in N : \A y \in N : x <= y
    <3> HIDE DEF N
    <3> QED BY <1>1, LeastOf DEF N
  <2> QED BY <2>1 DEF Min
<1>3. \A j \in 1 .. Len(Unread) : Ends(Unread[j]) => j \in N BY DEF Newlines
<1>4. i \in 1 .. Len(Unread) /\ Ends(Unread[i]) BY <1>2 DEF Newlines
<1> HIDE DEF N, i
<1>5. ASSUME NEW j \in 1 .. i - 1 PROVE ~Ends(Unread[j])
  <2>1. j \in 1 .. Len(Unread) /\ ~(i <= j) BY <1>1, <1>4
  <2> QED BY <1>2, <1>3, <2>1
<1> QED BY <1>4, <1>5 DEF N, i


-----------------------------------------------------------------------------
(* What follows the reader                                                  *)

\* Where the line that reader t is reading begins
Boundary(t) == t.offset - Len(t.partial)

\* The reader holds the part of s from there to the offset, no whole line.
Follows(t, s) ==
  /\ t.offset <= Len(s) /\ Len(t.partial) <= t.offset
  /\ t.partial = SubSeq(s, Boundary(t) + 1, t.offset)
  /\ Boundary(t) = 0 \/ Ends(s[Boundary(t)])
  /\ \A i \in Boundary(t) + 1 .. t.offset : ~Ends(s[i])

\* All the lines of ls are older than what s has beyond a.
Below(ls, s, a) == \A m \in 1 .. Len(ls), i \in a + 1 .. Len(s) : ls[m][1][1] < s[i][1]

FollowInv ==
  /\ tail.file = 0 <=> tail.pc \in {"begin", "open"}
  /\ tail.pc = "begin" \/ tail.seed => sent = <<>> /\ tail.file = 0
  /\ (tail.file # 0 /\ ~cut) => Follows(tail, files[tail.file]) /\ NothingSkipped

OrderInv ==
  /\ WholeLinesInOrder
  /\ tail.file = 0 => (path # 0 => Below(sent, files[path], 0))
  /\ tail.file # 0 =>
       /\ IF cut THEN Len(files[tail.file]) < tail.offset /\ Below(sent, files[tail.file], 0)
                 ELSE Below(sent, files[tail.file], Boundary(tail))
       /\ \A g \in tail.file + 1 .. Len(files) : Below(sent, files[g], 0)

TailInv == TailTypeOK /\ FilesInv /\ FollowInv /\ (~regrown => OrderInv)

LEMMA TypesStep ==
  ASSUME TailTypeOK, FilesInv, FollowInv, [TailNext]_tailVars
  PROVE  TailTypeOK'
<1> USE DEF TailTypeOK
<1>1. CASE WritePiece
  <2>1. NextPiece \in Piece /\ lines' = NextPiece[1] BY <1>1, NextPieceIs DEF WritePiece
  <2>2. lines' \in 0 .. MaxWritten BY <2>1 DEF Piece
  <2>3. /\ files' \in Seq(Seq(Piece)) /\ Len(files') = Len(files)
    <3>1. path \in 1 .. Len(files) /\ files' = [files EXCEPT ![path] = Append(@, NextPiece)]
      BY <1>1 DEF WritePiece
    <3>2. Append(files[path], NextPiece) \in Seq(Piece) BY <2>1, <3>1
    <3> QED BY <3>1, <3>2, ExceptSeq
  <2>4. regrown' \in BOOLEAN BY <1>1 DEF WritePiece
  <2> QED BY <1>1, <2>2, <2>3, <2>4 DEF WritePiece
<1>2. CASE RotateAway BY <1>2 DEF RotateAway, tailHistory
<1>3. CASE NewFile
  <2>1. /\ files' \in Seq(Seq(Piece)) /\ Len(files') = Len(files) + 1
        /\ Len(files) + 1 <= MaxFiles /\ path' = Len(files')
    <3>1. <<>> \in Seq(Piece) /\ files' = Append(files, <<>>) /\ Len(files) < MaxFiles
      BY <1>3 DEF NewFile
    <3>2. path' = Len(files) + 1 BY <1>3 DEF NewFile
    <3> QED BY <3>1, <3>2
  <2> QED BY <1>3, <2>1 DEF NewFile, tailHistory
<1>4. CASE Truncate
  <2>1. files' \in Seq(Seq(Piece)) /\ Len(files') = Len(files)
    <3>1. <<>> \in Seq(Piece) /\ path \in 1 .. Len(files) /\ files' = [files EXCEPT ![path] = <<>>]
      BY <1>4 DEF Truncate
    <3> QED BY <3>1, ExceptSeq
  <2>2. cut' \in BOOLEAN BY <1>4 DEF Truncate
  <2> QED BY <1>4, <2>1, <2>2 DEF Truncate
<1>5. CASE Begin BY <1>5 DEF Begin, log, tailHistory
<1>6. CASE Open
  <2>1. path \in 1 .. Len(files) /\ files[path] \in Seq(Piece) /\ Regular(files[path])
    BY <1>6 DEF Open, FilesInv
  <2>2. ResumeAt(files[path]) \in Nat /\ Backlog(files[path]) \in Seq(Seq(Piece))
    BY <2>1, ResumeIs, BacklogIs
  <2>3. sent' \in Seq(Seq(Piece))
    <3>1. sent \o Backlog(files[path]) \in Seq(Seq(Piece)) BY <2>2
    <3> QED BY <1>6, <3>1 DEF Open
  <2>4. tail' \in [pc : {"begin", "open", "read", "check"}, file : 0 .. Len(files),
                   offset : Nat, seed : BOOLEAN, partial : Seq(Piece)] /\ from' \in Nat
    <3>1. <<>> \in Seq(Piece) OBVIOUS
    <3> QED BY <1>6, <2>1, <2>2, <3>1 DEF Open
  <2> QED BY <1>6, <2>3, <2>4 DEF Open, log
<1>7. CASE ReadLine
  <2>0. tail.file # 0 /\ Newlines(Unread) # {} BY <1>7 DEF ReadLine, FollowInv
  <2> DEFINE i == Min(Newlines(Unread))
  <2>1. i \in 1 .. Len(Unread) /\ Unread \in Seq(Piece) BY <2>0, FirstNewline, UnreadIs
  <2>2. /\ sent' = Append(sent, tail.partial \o SubSeq(Unread, 1, i))
        /\ tail' = [tail EXCEPT !.offset = @ + i, !.partial = <<>>]
    BY <1>7 DEF ReadLine
  <2> HIDE DEF i
  <2>3. SubSeq(Unread, 1, i) \in Seq(Piece)
    <3>1. i \in Int /\ \A j \in 1 .. i : Unread[j] \in Piece BY <2>1
    <3>2. 1 \in Int OBVIOUS
    <3> QED BY <3>1, <3>2, SubSeqProperties, SMTT(30)
  <2>4. tail.partial \o SubSeq(Unread, 1, i) \in Seq(Piece) BY <2>3
  <2>5. sent' \in Seq(Seq(Piece)) BY <2>2, <2>4
  <2>6. tail.offset + i \in Nat /\ <<>> \in Seq(Piece) BY <2>1
  <2> QED BY <1>7, <2>2, <2>5, <2>6 DEF ReadLine, log, tailHistory
<1>8. CASE ReachEnd
  <2>1. tail.file # 0 BY <1>8 DEF ReachEnd, FollowInv
  <2>2. Unread \in Seq(Piece) /\ Len(Unread) \in Nat BY <2>1, UnreadIs
  <2>3. tail.partial \o Unread \in Seq(Piece) /\ tail.offset + Len(Unread) \in Nat
    BY <2>2
  <2> QED BY <1>8, <2>3 DEF ReachEnd, log, tailHistory
<1>9. CASE CheckRotated
  <2>1. tail' = [tail EXCEPT !.pc = "open", !.file = 0] \/ tail' = [tail EXCEPT !.pc = "read"]
    BY <1>9 DEF CheckRotated
  <2>2. tail' \in [pc : {"begin", "open", "read", "check"}, file : 0 .. Len(files),
                   offset : Nat, seed : BOOLEAN, partial : Seq(Piece)]
    <3>1. 0 \in 0 .. Len(files) OBVIOUS
    <3> QED BY <2>1, <3>1
  <2> QED BY <1>9, <2>2 DEF CheckRotated, log, tailHistory
<1>10. CASE Restart
  <2>1. <<>> \in Seq(Seq(Piece)) /\ <<>> \in Seq(Piece) /\ 0 \in 0 .. Len(files) OBVIOUS
  <2>2. Fresh \in [pc : {"begin", "open", "read", "check"}, file : 0 .. Len(files),
                   offset : Nat, seed : BOOLEAN, partial : Seq(Piece)]
    BY <2>1 DEF Fresh
  <2>3. restarts' \in 0 .. MaxRestarts BY <1>10 DEF Restart
  <2>4. /\ tail' = Fresh /\ sent' = <<>> /\ cut' = FALSE /\ from' = 0
        /\ UNCHANGED <<files, path, lines, regrown>>
    BY <1>10 DEF Restart, log
  <2> QED BY <2>1, <2>2, <2>3, <2>4
<1>11. CASE UNCHANGED tailVars BY <1>11 DEF tailVars, log, tailHistory
<1> QED BY <1>1, <1>2, <1>3, <1>4, <1>5, <1>6, <1>7, <1>8, <1>9, <1>10, <1>11
  DEF TailNext, Tailer, Jvm

\* What the JVM writes is younger than every other file, and than all that was
\* sent, provided the line under way was younger.
LEMMA PieceYounger ==
  ASSUME TailTypeOK, FilesInv, path # 0, NextPiece[1] <= MaxWritten
  PROVE  /\ \A f \in 1 .. path - 1 : \A i \in 1 .. Len(files[f]) : files[f][i][1] < NextPiece[1]
         /\ \A a \in Nat :
              WholeLinesInOrder /\ Below(sent, files[path], a) /\ (MidLine => a < Len(files[path]))
              => \A m \in 1 .. Len(sent) : sent[m][1][1] < NextPiece[1]
<1> DEFINE s == files[path]
           q == s[Len(s)]
<1>1. path = Len(files) /\ path \in 1 .. Len(files) /\ lines \in Nat /\ Len(s) \in Nat
  BY FileTyped DEF FilesInv
<1>2. IF MidLine THEN NextPiece[1] = q[1] /\ Len(s) \in 1 .. Len(s)
                 ELSE NextPiece[1] = lines + 1
  <2>1. MidLine => s # <<>> /\ s \in Seq(Piece) BY <1>1, FileTyped DEF MidLine
  <2>2. MidLine => NextPiece[1] = q[1] BY DEF NextPiece
  <2>3. ~MidLine => NextPiece[1] = lines + 1 BY DEF NextPiece
  <2>4. MidLine => Len(s) \in 1 .. Len(s) BY <2>1
  <2> QED BY <2>2, <2>3, <2>4
<1>3. ASSUME NEW f \in 1 .. path - 1, NEW i \in 1 .. Len(files[f])
      PROVE  files[f][i][1] < NextPiece[1]
  <2>1. f \in 1 .. Len(files) /\ path \in f + 1 .. Len(files) BY <1>1
  <2>2. files[f][i][1] <= lines /\ files[f][i][1] \in Nat
    <3>1. files[f] \in Seq(Piece) BY <2>1, FileTyped
    <3>2. files[f][i][1] \in 1 .. MaxWritten BY <3>1, PieceOf
    <3> QED BY <2>1, <3>2 DEF FilesInv
  <2>3. CASE MidLine
    <3>1. files[f][i][1] < q[1] BY <1>2, <2>1, <2>3 DEF FilesInv
    <3> QED BY <1>2, <2>3, <3>1
  <2>4. CASE ~MidLine BY <1>1, <1>2, <2>2, <2>4
  <2> QED BY <2>3, <2>4
<1>4. ASSUME WholeLinesInOrder, NEW a \in Nat, Below(sent, s, a), MidLine => a < Len(s),
             NEW m \in 1 .. Len(sent)
      PROVE  sent[m][1][1] < NextPiece[1]
  <2>1. CASE MidLine
    <3>1. Len(s) \in a + 1 .. Len(s) BY <1>1, <1>2, <1>4, <2>1
    <3>2. sent[m][1][1] < q[1] BY <1>4, <3>1 DEF Below
    <3> QED BY <1>2, <2>1, <3>2
  <2>2. CASE ~MidLine
    <3>1. PICK n \in 1 .. lines : sent[m] = Whole(n) BY <1>4 DEF WholeLinesInOrder
    <3>2. sent[m][1] = <<n, 1>> BY <3>1 DEF Whole
    <3> QED BY <1>1, <1>2, <2>2, <3>2
  <2> QED BY <2>1, <2>2
<1> QED BY <1>3, <1>4

\* The JVM's actions on the files
LEMMA WriteIs ==
  ASSUME TailTypeOK, FilesInv, WritePiece
  PROVE  /\ path \in 1 .. Len(files) /\ path = Len(files) /\ files[path] \in Seq(Piece)
         /\ NextPiece \in Piece /\ NextPiece[1] \in lines .. lines + 1
         /\ path' = path /\ lines' = NextPiece[1] /\ Len(files') = Len(files)
         /\ files'[path] = Append(files[path], NextPiece)
         /\ \A f \in 1 .. Len(files) : f # path => files'[f] = files[f]
<1>1. /\ path # 0 /\ path \in 0 .. Len(files) /\ NextPiece[1] <= MaxWritten
      /\ path' = path /\ lines' = NextPiece[1]
      /\ files' = [files EXCEPT ![path] = Append(@, NextPiece)]
  BY FileTyped DEF WritePiece
<1>2. path \in 1 .. Len(files) /\ path = Len(files) /\ files[path] \in Seq(Piece)
  BY <1>1, FileTyped DEF FilesInv
<1>3. files \in Seq(Seq(Piece)) BY DEF TailTypeOK
<1>4. NextPiece \in Piece /\ NextPiece[1] \in lines .. lines + 1 BY <1>1, NextPieceIs
<1> QED BY <1>1, <1>2, <1>3, <1>4

LEMMA NewFileIs ==
  ASSUME TailTypeOK, NewFile
  PROVE  /\ path = 0 /\ path' = Len(files) + 1 /\ Len(files') = Len(files) + 1
         /\ lines' = lines /\ files'[Len(files) + 1] = <<>>
         /\ \A f \in 1 .. Len(files) : files'[f] = files[f]
<1>1. files \in Seq(Seq(Piece)) /\ <<>> \in Seq(Piece) BY DEF TailTypeOK
<1> QED BY <1>1, AppendProperties DEF NewFile

LEMMA TruncateIs ==
  ASSUME TailTypeOK, Truncate
  PROVE  /\ path \in 1 .. Len(files) /\ path' = path /\ Len(files') = Len(files)
         /\ lines' = lines /\ files'[path] = <<>>
         /\ \A f \in 1 .. Len(files) : f # path => files'[f] = files[f]
<1>1. files \in Seq(Seq(Piece)) /\ path \in 1 .. Len(files) BY FileTyped DEF TailTypeOK, Truncate
<1> QED BY <1>1 DEF Truncate

LEMMA FilesStep ==
  ASSUME TailTypeOK, FilesInv, [TailNext]_tailVars
  PROVE  FilesInv'
<1>0. /\ lines \in Nat /\ Len(files) \in Nat /\ path \in 0 .. Len(files)
      /\ \A f \in 1 .. Len(files) : files[f] \in Seq(Piece)
  BY FileTyped
<1>1. CASE WritePiece
  <2> DEFINE s == files[path]
             p == NextPiece
             t == Append(s, p)
  <2>1. path \in 1 .. Len(files) /\ path = Len(files) /\ s \in Seq(Piece) /\ path # 0
    BY <1>1, WriteIs
  <2>2. p \in Piece /\ p[1] \in lines .. lines + 1 /\ p[1] <= MaxWritten
    BY <1>1, WriteIs DEF WritePiece
  <2>3. path' = path /\ lines' = p[1] BY <1>1 DEF WritePiece
  <2>4. /\ Len(files') = Len(files) /\ files'[path] = t
        /\ \A f \in 1 .. Len(files) : f # path => files'[f] = files[f]
    BY <1>1, WriteIs
  <2>5. /\ Len(t) = Len(s) + 1 /\ Len(s) \in Nat /\ t[Len(s) + 1] = p /\ t # <<>>
        /\ \A i \in 1 .. Len(s) : t[i] = s[i]
    BY <2>1, <2>2, AppendProperties
  <2>6. Regular(t)
    <3>1. Regular(s) /\ \A i \in 1 .. Len(s) : s[i][1] <= lines BY <2>1 DEF FilesInv
    <3>2. p = IF s # <<>> /\ ~Ends(s[Len(s)]) THEN <<s[Len(s)][1], s[Len(s)][2] + 1>>
              ELSE <<lines + 1, 1>>
      BY <2>1, <2>2, NextPieceIs
    <3> HIDE DEF p, s
    <3> QED BY <1>0, <2>1, <2>2, <3>1, <3>2, RegularAppended
  <2>7. \A f \in 1 .. path - 1 : \A i \in 1 .. Len(files[f]) : files[f][i][1] < p[1]
    BY <2>1, <2>2, PieceYounger
  <2> HIDE DEF p, s, t
  <2>8. ASSUME NEW f \in 1 .. Len(files), NEW i \in 1 .. Len(files'[f]) PROVE files'[f][i][1] <= p[1]
    <3>1. CASE f # path
      <4>1. files[f][i][1] <= lines /\ files[f][i][1] \in Nat /\ p[1] >= lines
        <5>1. files'[f] = files[f] /\ i \in 1 .. Len(files[f]) BY <2>4, <3>1
        <5>2. files[f][i][1] \in 1 .. MaxWritten BY <1>0, <5>1, PieceOf
        <5>3. files[f][i][1] <= lines BY <5>1 DEF FilesInv
        <5> QED BY <1>0, <2>2, <5>2, <5>3
      <4>2. files'[f] = files[f] /\ p[1] \in Nat BY <1>0, <2>2, <2>4, <3>1
      <4> QED BY <1>0, <4>1, <4>2
    <3>2. CASE f = path
      <4>1. CASE i = Len(s) + 1 BY <1>0, <2>2, <2>4, <2>5, <3>2, <4>1
      <4>2. CASE i # Len(s) + 1
        <5>1. i \in 1 .. Len(s) BY <2>4, <2>5, <3>2, <4>2
        <5>2. s[i][1] <= lines /\ s[i][1] \in 1 .. MaxWritten
          BY <2>1, <5>1, PieceOf DEF FilesInv, s
        <5>3. files'[f][i] = s[i] BY <2>4, <2>5, <3>2, <5>1
        <5>4. s[i][1] <= p[1] BY <1>0, <2>2, <5>2
        <5> QED BY <5>3, <5>4
      <4> QED BY <4>1, <4>2
    <3> QED BY <3>1, <3>2
  <2>9. ASSUME NEW f \in 1 .. Len(files), NEW g \in f + 1 .. Len(files),
               NEW i \in 1 .. Len(files'[f]), NEW j \in 1 .. Len(files'[g])
        PROVE  files'[f][i][1] < files'[g][j][1]
    <3>1. f # path /\ f \in 1 .. path - 1 /\ files'[f] = files[f] BY <1>0, <2>1, <2>4
    <3>2. CASE g # path \/ j \in 1 .. Len(s)
      <4>1. g \in 1 .. Len(files) BY <1>0
      <4>2. j \in 1 .. Len(files[g]) /\ files'[g][j] = files[g][j]
        BY <2>4, <2>5, <3>2, <4>1 DEF s
      <4> QED BY <3>1, <4>2 DEF FilesInv
    <3>3. CASE ~(g # path \/ j \in 1 .. Len(s))
      <4>1. files'[g][j] = p BY <2>4, <2>5, <3>3
      <4> QED BY <2>7, <3>1, <4>1
    <3> QED BY <3>2, <3>3
  <2>10. ASSUME NEW f \in 1 .. Len(files) PROVE Regular(files'[f])
    BY <2>4, <2>6 DEF FilesInv
  <2> QED BY <2>1, <2>3, <2>4, <2>5, <2>8, <2>9, <2>10 DEF FilesInv
<1>2. CASE RotateAway BY <1>2 DEF RotateAway, FilesInv
<1>3. CASE NewFile
  <2>1. path' = Len(files) + 1 /\ lines' = lines BY <1>3, NewFileIs
  <2>2. /\ Len(files') = Len(files) + 1 /\ files'[Len(files) + 1] = <<>>
        /\ \A f \in 1 .. Len(files) : files'[f] = files[f]
    BY <1>3, NewFileIs
  <2>3. \A f \in 1 .. Len(files) + 1 : f \notin 1 .. Len(files) => f = Len(files) + 1 BY <1>0
  <2>4. ASSUME NEW f \in 1 .. Len(files')
        PROVE  Regular(files'[f]) /\ \A i \in 1 .. Len(files'[f]) : files'[f][i][1] <= lines
    BY <2>2, <2>3 DEF FilesInv, Regular
  <2>5. ASSUME NEW f \in 1 .. Len(files'), NEW g \in f + 1 .. Len(files'),
               NEW i \in 1 .. Len(files'[f]), NEW j \in 1 .. Len(files'[g])
        PROVE  files'[f][i][1] < files'[g][j][1]
    <3>1. f # Len(files) + 1 BY <1>0, <2>2
    <3>2. f \in 1 .. Len(files) BY <2>2, <2>3, <3>1
    <3>3. g # Len(files) + 1 BY <2>2
    <3>4. g \in f + 1 .. Len(files) /\ g \in 1 .. Len(files)
      <4> DEFINE n == Len(files)
      <4>1. n \in Nat /\ f \in 1 .. n /\ g \in f + 1 .. n + 1 /\ g # n + 1
        BY <1>0, <2>2, <3>2, <3>3
      <4> HIDE DEF n
      <4>2. g \in f + 1 .. n /\ g \in 1 .. n BY <4>1
      <4> QED BY <4>2 DEF n
    <3> QED BY <2>2, <3>2, <3>4 DEF FilesInv
  <2> QED BY <2>1, <2>2, <2>4, <2>5 DEF FilesInv
<1>4. CASE Truncate
  <2>1. path' = path /\ lines' = lines /\ path \in 1 .. Len(files) BY <1>4, TruncateIs
  <2>2. /\ Len(files') = Len(files) /\ files'[path] = <<>>
        /\ \A f \in 1 .. Len(files) : f # path => files'[f] = files[f]
    BY <1>4, TruncateIs
  <2>3. ASSUME NEW f \in 1 .. Len(files)
        PROVE  Regular(files'[f]) /\ \A i \in 1 .. Len(files'[f]) : files'[f][i][1] <= lines
    BY <2>2 DEF FilesInv, Regular
  <2>4. ASSUME NEW f \in 1 .. Len(files), NEW g \in f + 1 .. Len(files),
               NEW i \in 1 .. Len(files'[f]), NEW j \in 1 .. Len(files'[g])
        PROVE  files'[f][i][1] < files'[g][j][1]
    <3>1. f # path /\ g # path /\ g \in 1 .. Len(files) BY <1>0, <2>2
    <3> QED BY <2>2, <3>1 DEF FilesInv
  <2> QED BY <2>1, <2>2, <2>3, <2>4 DEF FilesInv
<1>5. CASE UNCHANGED log BY <1>5 DEF log, FilesInv
<1>6. (Tailer \/ Restart \/ UNCHANGED tailVars) => UNCHANGED log
  BY DEF Tailer, Begin, Open, ReadLine, ReachEnd, CheckRotated, Restart, tailVars
<1> QED BY <1>1, <1>2, <1>3, <1>4, <1>5, <1>6 DEF TailNext, Jvm

-----------------------------------------------------------------------------
(* The JVM's actions keep the reader's place                                *)

LEMMA SubSeqSame ==
  ASSUME NEW s \in Seq(Piece), NEW t \in Seq(Piece), NEW i \in Nat \ {0}, NEW j \in Nat,
         j <= Len(s), j <= Len(t), \A k \in i .. j : s[k] = t[k]
  PROVE  SubSeq(s, i, j) = SubSeq(t, i, j)
<1> DEFINE u == SubSeq(s, i, j)
           v == SubSeq(t, i, j)
<1>1. \A k \in i .. j : s[k] \in Piece /\ t[k] \in Piece OBVIOUS
<1>2. /\ u \in Seq(Piece) /\ v \in Seq(Piece) /\ Len(u) = Len(v)
      /\ Len(u) = (IF i <= j THEN j - i + 1 ELSE 0)
      /\ \A k \in 1 .. j - i + 1 : u[k] = s[i + k - 1] /\ v[k] = t[i + k - 1]
  BY <1>1, SubSeqProperties
<1>3. \A k \in 1 .. Len(u) : k \in 1 .. j - i + 1 /\ i + k - 1 \in i .. j BY <1>2
<1> HIDE DEF u, v
<1>4. \A k \in 1 .. Len(u) : u[k] = v[k] BY <1>2, <1>3
<1>5. u = v BY <1>2, <1>4, SeqEqual
<1> QED BY <1>5 DEF u, v

LEMMA WholeIs ==
  ASSUME NEW n
  PROVE  Whole(n)[1] = <<n, 1>>
BY DEF Whole

\* What is in order stays in order while the JVM writes.
LEMMA OrderStays ==
  ASSUME WholeLinesInOrder, lines \in Nat, lines' \in Nat, lines <= lines', sent' = sent
  PROVE  WholeLinesInOrder'
<1>1. \A n \in 1 .. lines : n \in 1 .. lines' OBVIOUS
<1> QED BY <1>1 DEF WholeLinesInOrder

\* A reader keeps its place in a file that grows.
LEMMA FollowsMore ==
  ASSUME NEW s \in Seq(Piece), NEW u \in Seq(Piece), Len(s) <= Len(u),
         \A i \in 1 .. Len(s) : u[i] = s[i],
         NEW t, t.offset \in Nat, t.partial \in Seq(Piece), Follows(t, s)
  PROVE  Follows(t, u)
<1> DEFINE o == t.offset
           b == Boundary(t)
<1>1. o \in Nat /\ b \in Nat /\ b <= o /\ o <= Len(s) /\ Len(s) \in Nat /\ Len(u) \in Nat
      /\ o <= Len(u)
  <2>1. Len(t.partial) \in Nat /\ Len(s) \in Nat /\ Len(u) \in Nat OBVIOUS
  <2>2. o <= Len(s) /\ Len(t.partial) <= o BY DEF Follows
  <2>3. b = o - Len(t.partial) BY DEF Boundary
  <2> HIDE DEF o, b
  <2>4. o \in Nat BY DEF o
  <2> QED BY <2>1, <2>2, <2>3, <2>4
<1>2. /\ t.partial = SubSeq(s, b + 1, o)
      /\ b = 0 \/ Ends(s[b])
      /\ \A i \in b + 1 .. o : ~Ends(s[i])
  BY DEF Follows
<1>3. Follows(t, u) <=> /\ o <= Len(u) /\ Len(t.partial) <= o
                        /\ t.partial = SubSeq(u, b + 1, o)
                        /\ b = 0 \/ Ends(u[b])
                        /\ \A i \in b + 1 .. o : ~Ends(u[i])
  BY DEF Follows
<1>4. Len(t.partial) <= o BY DEF Follows
<1> HIDE DEF o, b
<1>5. \A i \in b + 1 .. o : i \in 1 .. Len(s) BY <1>1
<1>6. \A i \in b + 1 .. o : u[i] = s[i] BY <1>5
<1>7. b # 0 => u[b] = s[b] BY <1>1
<1>8. SubSeq(s, b + 1, o) = SubSeq(u, b + 1, o) BY <1>1, <1>6, SubSeqSame
<1> QED BY <1>1, <1>2, <1>3, <1>4, <1>6, <1>7, <1>8

LEMMA WriteKeeps ==
  ASSUME TailInv, WritePiece
  PROVE  FollowInv' /\ (~regrown' => OrderInv')
<1> DEFINE s == files[path]
           p == NextPiece
           t == Append(s, p)
           o == tail.offset
           b == Boundary(tail)
<1>0. TailTypeOK /\ FilesInv /\ FollowInv /\ (~regrown => OrderInv) BY DEF TailInv
<1>1. /\ path \in 1 .. Len(files) /\ path = Len(files) /\ s \in Seq(Piece)
      /\ p \in Piece /\ p[1] \in lines .. lines + 1 /\ p[1] <= MaxWritten /\ path # 0
      /\ path' = path /\ lines' = p[1] /\ Len(files') = Len(files)
      /\ files'[path] = t
      /\ \A f \in 1 .. Len(files) : f # path => files'[f] = files[f]
  BY <1>0, WriteIs DEF WritePiece
<1>2. /\ tail' = tail /\ sent' = sent /\ cut' = cut /\ from' = from
      /\ regrown' = (regrown \/ (cut /\ tail.file = path /\ Len(s) + 1 >= o))
  BY DEF WritePiece
<1>3. /\ lines \in Nat /\ o \in Nat /\ tail.partial \in Seq(Piece) /\ Len(tail.partial) \in Nat
      /\ tail.file \in 0 .. Len(files) /\ from \in Nat /\ Len(files) \in Nat
  BY <1>0, FileTyped
<1>4. /\ Len(t) = Len(s) + 1 /\ Len(s) \in Nat /\ t[Len(s) + 1] = p /\ t \in Seq(Piece)
      /\ \A i \in 1 .. Len(s) : t[i] = s[i]
  BY <1>1, AppendProperties
<1>5. b = o - Len(tail.partial) BY DEF Boundary
<1> HIDE DEF s, p, t, b
<1>6. ASSUME tail.file # 0 PROVE files'[tail'.file] = IF tail.file = path THEN t ELSE files[tail.file]
  BY <1>1, <1>2, <1>3, <1>6
<1>7. FollowInv'
  <2>1. ASSUME tail.file # 0, ~cut
        PROVE  Follows(tail', files'[tail'.file]) /\ NothingSkipped'
    <3>1. Follows(tail, files[tail.file]) /\ NothingSkipped BY <1>0, <2>1 DEF FollowInv
    <3>2. Follows(tail, files'[tail'.file])
      <4>1. CASE tail.file # path BY <1>6, <2>1, <3>1, <4>1
      <4>2. CASE tail.file = path
        <5>1. Follows(tail, s) BY <3>1, <4>2 DEF s
        <5>2. tail.offset \in Nat /\ Len(s) <= Len(t) BY <1>3, <1>4
        <5>3. Follows(tail, t) BY <1>1, <1>3, <1>4, <5>1, <5>2, FollowsMore
        <5> QED BY <1>6, <2>1, <4>2, <5>3
      <4> QED BY <4>1, <4>2
    <3>3. NothingSkipped'
      <4>1. o <= Len(files[tail.file]) BY <3>1 DEF Follows
      <4>2. ASSUME NEW i \in from + 1 .. o PROVE files'[tail'.file][i] = files[tail.file][i]
        <5>1. CASE tail.file # path BY <1>6, <2>1, <5>1
        <5>2. CASE tail.file = path
          <6>1. i \in 1 .. Len(s) BY <1>3, <1>4, <4>1, <5>2 DEF s
          <6> QED BY <1>4, <1>6, <2>1, <5>2, <6>1 DEF s
        <5> QED BY <5>1, <5>2
      <4> QED BY <1>2, <3>1, <4>2 DEF NothingSkipped
    <3> QED BY <1>2, <3>2, <3>3
  <2> QED BY <1>0, <1>2, <2>1 DEF FollowInv
<1>8. ASSUME ~regrown' PROVE OrderInv'
  <2>1. OrderInv /\ ~(cut /\ tail.file = path /\ Len(s) + 1 >= o) BY <1>0, <1>2, <1>8
  <2>2. WholeLinesInOrder' BY <1>1, <1>2, <1>3, <2>1, OrderStays DEF OrderInv
  <2>3. ASSUME NEW a \in Nat, Below(sent, s, a), MidLine => a < Len(s) PROVE Below(sent, t, a)
    <3>1. \A m \in 1 .. Len(sent) : sent[m][1][1] < p[1]
      BY <1>0, <1>1, <2>1, <2>3, PieceYounger DEF OrderInv, s, p
    <3>2. ASSUME NEW m \in 1 .. Len(sent), NEW i \in a + 1 .. Len(t) PROVE sent[m][1][1] < t[i][1]
      <4>1. CASE i = Len(s) + 1 BY <1>4, <3>1, <4>1
      <4>2. CASE i # Len(s) + 1
        <5>1. i \in a + 1 .. Len(s) /\ i \in 1 .. Len(s) BY <1>4, <4>2
        <5> QED BY <1>4, <2>3, <5>1 DEF Below
      <4> QED BY <4>1, <4>2
    <3> QED BY <3>2 DEF Below
  <2>4. MidLine => 0 < Len(s) /\ Len(s) \in 1 .. Len(s) /\ ~Ends(s[Len(s)])
    BY <1>1, <1>4 DEF MidLine, s
  <2>5. CASE tail.file = 0
    <3>1. Below(sent, s, 0) BY <1>1, <2>1, <2>5 DEF OrderInv, s
    <3>2. Below(sent, t, 0) BY <2>3, <2>4, <3>1
    <3> QED BY <1>1, <1>2, <2>2, <2>5, <3>2 DEF OrderInv
  <2>6. CASE tail.file # 0 /\ tail.file # path
    <3>1. path \in tail.file + 1 .. Len(files) BY <1>1, <1>3, <2>6
    <3>2. Below(sent, s, 0) BY <2>1, <2>6, <3>1 DEF OrderInv, s
    <3>3. Below(sent, t, 0) BY <2>3, <2>4, <3>2
    <3>4. \A g \in tail.file + 1 .. Len(files) : Below(sent, files'[g], 0)
      <4>1. ASSUME NEW g \in tail.file + 1 .. Len(files) PROVE Below(sent, files'[g], 0)
        <5>1. CASE g = path BY <1>1, <3>3, <5>1
        <5>2. CASE g # path
          <6>1. g \in 1 .. Len(files) BY <1>3
          <6> QED BY <1>1, <2>1, <2>6, <5>2, <6>1 DEF OrderInv
        <5> QED BY <5>1, <5>2
      <4> QED BY <4>1
    <3>5. files'[tail'.file] = files[tail.file] BY <1>6, <2>6
    <3> QED BY <1>1, <1>2, <2>1, <2>2, <2>6, <3>4, <3>5 DEF OrderInv
  <2>7. CASE tail.file # 0 /\ tail.file = path
    <3>1. \A g \in tail.file + 1 .. Len(files) : FALSE BY <1>1, <1>3, <2>7
    <3>2. CASE cut
      <4>1. Len(s) + 1 < o BY <1>3, <1>4, <2>1, <2>7, <3>2
      <4>2. Below(sent, s, 0) BY <2>1, <2>7, <3>2 DEF OrderInv, s
      <4>3. Below(sent, t, 0) /\ Len(t) < o BY <1>4, <2>3, <2>4, <4>1, <4>2
      <4>4. files'[tail'.file] = t /\ tail'.offset = o BY <1>2, <1>6, <2>7
      <4> QED BY <1>1, <1>2, <2>2, <2>7, <3>1, <3>2, <4>3, <4>4 DEF OrderInv
    <3>3. CASE ~cut
      <4>1. Follows(tail, s) BY <1>0, <2>7, <3>3 DEF FollowInv, s
      <4>2. b \in Nat /\ b <= Len(s) /\ (b = 0 \/ Ends(s[b]))
        <5>1. o <= Len(s) /\ Len(tail.partial) <= o /\ (b = 0 \/ Ends(s[b]))
          BY <4>1 DEF Follows, b
        <5> HIDE DEF o
        <5> QED BY <1>3, <1>4, <1>5, <5>1
      <4>3. MidLine => b < Len(s) BY <1>4, <2>4, <4>2
      <4>4. Below(sent, s, b) BY <2>1, <2>7, <3>3 DEF OrderInv, s, b
      <4>5. Below(sent, t, b) BY <2>3, <4>2, <4>3, <4>4
      <4>6. files'[tail'.file] = t /\ Boundary(tail') = b BY <1>2, <1>6, <2>7 DEF b
      <4> QED BY <1>1, <1>2, <2>2, <2>7, <3>1, <3>3, <4>5, <4>6 DEF OrderInv
    <3> QED BY <3>2, <3>3
  <2> QED BY <2>5, <2>6, <2>7
<1> QED BY <1>7, <1>8

LEMMA PlaceIs ==
  ASSUME TailTypeOK, NEW s, Follows(tail, s)
  PROVE  Boundary(tail) \in Nat /\ Boundary(tail) <= tail.offset /\ tail.offset <= Len(s)
<1> DEFINE n == Len(tail.partial)
           o == tail.offset
<1>1. n \in Nat /\ o \in Nat BY FileTyped
<1>2. n <= o /\ o <= Len(s) /\ Boundary(tail) = o - n BY DEF Follows, Boundary
<1> HIDE DEF n, o
<1>3. Boundary(tail) \in Nat /\ Boundary(tail) <= o BY <1>1, <1>2
<1> QED BY <1>2, <1>3 DEF o

LEMMA RotateKeeps ==
  ASSUME TailInv, RotateAway
  PROVE  FollowInv' /\ (~regrown' => OrderInv')
<1>0. TailTypeOK /\ FollowInv /\ (~regrown => OrderInv) BY DEF TailInv
<1>1. /\ path' = 0 /\ files' = files /\ lines' = lines /\ tail' = tail /\ sent' = sent
      /\ cut' = cut /\ regrown' = regrown /\ from' = from
  BY DEF RotateAway, tailHistory
<1>2. WholeLinesInOrder' <=> WholeLinesInOrder BY <1>1 DEF WholeLinesInOrder
<1>3. NothingSkipped' <=> NothingSkipped BY <1>1 DEF NothingSkipped
<1> QED BY <1>0, <1>1, <1>2, <1>3 DEF FollowInv, OrderInv

LEMMA NewFileKeeps ==
  ASSUME TailInv, NewFile
  PROVE  FollowInv' /\ (~regrown' => OrderInv')
<1>0. TailTypeOK /\ FollowInv /\ (~regrown => OrderInv) BY DEF TailInv
<1>1. /\ path = 0 /\ path' = Len(files) + 1 /\ Len(files') = Len(files) + 1
      /\ lines' = lines /\ files'[Len(files) + 1] = <<>>
      /\ \A f \in 1 .. Len(files) : files'[f] = files[f]
  BY <1>0, NewFileIs
<1>2. /\ tail' = tail /\ sent' = sent /\ cut' = cut /\ regrown' = regrown /\ from' = from
  BY DEF NewFile, tailHistory
<1>3. Len(files) \in Nat /\ tail.file \in 0 .. Len(files) BY <1>0, FileTyped
<1>4. tail.file # 0 => files'[tail'.file] = files[tail.file] BY <1>1, <1>2, <1>3
<1>5. Below(sent, <<>>, 0) BY DEF Below
<1>6. WholeLinesInOrder' <=> WholeLinesInOrder BY <1>1, <1>2 DEF WholeLinesInOrder
<1>7. tail.file # 0 => (NothingSkipped' <=> NothingSkipped)
  BY <1>2, <1>4 DEF NothingSkipped
<1>8. FollowInv' BY <1>0, <1>2, <1>4, <1>7 DEF FollowInv
<1>9. ASSUME ~regrown' PROVE OrderInv'
  <2>1. OrderInv BY <1>0, <1>2, <1>9
  <2>2. ASSUME tail.file # 0, NEW g \in tail.file + 1 .. Len(files') PROVE Below(sent, files'[g], 0)
    <3>1. CASE g = Len(files) + 1 BY <1>1, <1>5, <3>1
    <3>2. CASE g # Len(files) + 1
      <4>1. g \in tail.file + 1 .. Len(files) /\ g \in 1 .. Len(files)
        <5> DEFINE n == Len(files)
                   f == tail.file
        <5>1. n \in Nat /\ f \in 0 .. n /\ g \in f + 1 .. n + 1 /\ g # n + 1
          BY <1>1, <1>3, <2>2, <3>2
        <5> HIDE DEF n, f
        <5>2. g \in f + 1 .. n /\ g \in 1 .. n BY <5>1
        <5> QED BY <5>2 DEF n, f
      <4> QED BY <1>1, <2>1, <2>2, <4>1 DEF OrderInv
    <3> QED BY <3>1, <3>2
  <2>3. Below(sent, files'[path'], 0) BY <1>1, <1>5
  <2> QED BY <1>2, <1>4, <1>6, <2>1, <2>2, <2>3 DEF OrderInv
<1> QED BY <1>8, <1>9

\* A file that is emptied under the reader leaves nothing to keep a place in.
LEMMA TruncateKeeps ==
  ASSUME TailInv, Truncate
  PROVE  FollowInv' /\ (~regrown' => OrderInv')
<1>0. TailTypeOK /\ FilesInv /\ FollowInv /\ (~regrown => OrderInv) BY DEF TailInv
<1>1. /\ path \in 1 .. Len(files) /\ path' = path /\ Len(files') = Len(files)
      /\ lines' = lines /\ files'[path] = <<>>
      /\ \A f \in 1 .. Len(files) : f # path => files'[f] = files[f]
  BY <1>0, TruncateIs
<1>2. /\ tail' = tail /\ sent' = sent /\ regrown' = regrown /\ from' = from
      /\ cut' = (cut \/ (tail.file = path /\ tail.offset > 0))
  BY DEF Truncate
<1>3. /\ Len(files) \in Nat /\ tail.file \in 0 .. Len(files) /\ tail.offset \in Nat /\ from \in Nat
      /\ tail.partial \in Seq(Piece) /\ cut \in BOOLEAN
  BY <1>0, FileTyped DEF TailTypeOK
<1>4. tail.file # 0 => files'[tail'.file] = IF tail.file = path THEN <<>> ELSE files[tail.file]
  BY <1>1, <1>2, <1>3
<1>5. \A a \in Nat : Below(sent, <<>>, a) BY DEF Below
<1>6. WholeLinesInOrder' <=> WholeLinesInOrder BY <1>1, <1>2 DEF WholeLinesInOrder
<1>7. FollowInv'
  <2>1. ASSUME tail.file # 0, ~cut' PROVE Follows(tail', files'[tail'.file]) /\ NothingSkipped'
    <3>1. Follows(tail, files[tail.file]) /\ NothingSkipped BY <1>0, <1>2, <2>1 DEF FollowInv
    <3>2. CASE tail.file # path
      <4>1. files'[tail'.file] = files[tail.file] BY <1>4, <2>1, <3>2
      <4>2. NothingSkipped' BY <1>2, <3>1, <4>1 DEF NothingSkipped
      <4> QED BY <1>2, <3>1, <4>1, <4>2
    <3>3. CASE tail.file = path
      <4>0. ~(tail.offset > 0) BY <1>2, <2>1, <3>3
      <4>1. tail.offset = 0 BY <1>3, <4>0
      <4>2. Len(tail.partial) = 0 /\ tail.partial = <<>>
        <5>1. Len(tail.partial) <= tail.offset BY <3>1 DEF Follows
        <5>2. Len(tail.partial) \in Nat BY <1>3
        <5>3. Len(tail.partial) = 0 BY <4>1, <5>1, <5>2
        <5> QED BY <1>3, <5>3
      <4>3. Boundary(tail) = 0 BY <4>1, <4>2 DEF Boundary
      <4>4. SubSeq(<<>>, 1, 0) = <<>> BY SubSeqEmpty
      <4>5. Follows(tail, <<>>) BY <4>1, <4>2, <4>3, <4>4 DEF Follows
      <4>6. NothingSkipped' BY <1>2, <1>3, <4>1 DEF NothingSkipped
      <4> QED BY <1>2, <1>4, <2>1, <3>3, <4>5, <4>6
    <3> QED BY <3>2, <3>3
  <2> QED BY <1>0, <1>2, <2>1 DEF FollowInv
<1>8. ASSUME ~regrown' PROVE OrderInv'
  <2>1. OrderInv BY <1>0, <1>2, <1>8
  <2>2. ASSUME tail.file # 0, NEW g \in tail.file + 1 .. Len(files') PROVE Below(sent, files'[g], 0)
    <3>1. CASE g = path BY <1>1, <1>5, <3>1
    <3>2. CASE g # path
      <4>1. g \in 1 .. Len(files) /\ g \in tail.file + 1 .. Len(files) BY <1>1, <1>3, <2>2
      <4> QED BY <1>1, <2>1, <2>2, <3>2, <4>1 DEF OrderInv
    <3> QED BY <3>1, <3>2
  <2>3. Below(sent, files'[path'], 0) BY <1>1, <1>5
  <2>4. ASSUME tail.file # 0
        PROVE  IF cut' THEN Len(files'[tail'.file]) < tail.offset /\ Below(sent, files'[tail'.file], 0)
                       ELSE Below(sent, files'[tail'.file], Boundary(tail))
    <3>1. CASE tail.file # path
      <4>1. cut' = cut /\ files'[tail'.file] = files[tail.file] BY <1>2, <1>3, <1>4, <2>4, <3>1
      <4> QED BY <2>1, <2>4, <4>1 DEF OrderInv
    <3>2. CASE tail.file = path
      <4>1. files'[tail'.file] = <<>> BY <1>4, <2>4, <3>2
      <4>2. cut' => 0 < tail.offset
        <5>1. cut => Len(files[path]) < tail.offset BY <2>1, <2>4, <3>2 DEF OrderInv
        <5>2. Len(files[path]) \in Nat BY <1>0, <1>1, FileTyped
        <5> QED BY <1>2, <1>3, <5>1, <5>2
      <4>3. Below(sent, <<>>, 0) BY <1>5
      <4>4. ~cut' => Below(sent, <<>>, Boundary(tail))
        <5>1. ~cut' => Follows(tail, files[tail.file]) BY <1>0, <1>2, <2>4 DEF FollowInv
        <5>2. ~cut' => Boundary(tail) \in Nat BY <1>0, <5>1, PlaceIs
        <5> QED BY <1>5, <5>2
      <4>5. Len(<<>>) = 0 OBVIOUS
      <4> QED BY <4>1, <4>2, <4>3, <4>4, <4>5
    <3> QED BY <3>1, <3>2
  <2> QED BY <1>2, <1>6, <2>1, <2>2, <2>3, <2>4 DEF OrderInv
<1> QED BY <1>7, <1>8

-----------------------------------------------------------------------------
(* The tailer's own steps                                                   *)

LEMMA BeginKeeps ==
  ASSUME TailInv, Begin
  PROVE  FollowInv' /\ (~regrown' => OrderInv')
<1>0. TailTypeOK /\ FollowInv /\ (~regrown => OrderInv) BY DEF TailInv
<1>1. /\ tail.pc = "begin" /\ tail' = [tail EXCEPT !.pc = "open", !.seed = (path # 0)]
      /\ path' = path /\ files' = files /\ lines' = lines /\ sent' = sent
      /\ cut' = cut /\ regrown' = regrown /\ from' = from
  BY DEF Begin, log, tailHistory
<1>2. tail'.file = tail.file /\ tail'.pc = "open" BY <1>0, <1>1 DEF TailTypeOK
<1>3. tail.file = 0 /\ sent = <<>> BY <1>0, <1>1 DEF FollowInv
<1>4. WholeLinesInOrder' <=> WholeLinesInOrder BY <1>1 DEF WholeLinesInOrder
<1> QED BY <1>0, <1>1, <1>2, <1>3, <1>4 DEF FollowInv, OrderInv

LEMMA RestartKeeps ==
  ASSUME TailInv, Restart
  PROVE  FollowInv' /\ (~regrown' => OrderInv')
<1>1. tail' = Fresh /\ sent' = <<>> BY DEF Restart
<1>2. tail'.file = 0 /\ tail'.pc = "begin" BY <1>1 DEF Fresh
<1>3. WholeLinesInOrder' BY <1>1 DEF WholeLinesInOrder
<1>4. \A s : Below(<<>>, s, 0) BY DEF Below
<1> QED BY <1>1, <1>2, <1>3, <1>4 DEF FollowInv, OrderInv

\* A reader whose file was rotated away has shown nothing of the new one.
LEMMA CheckKeeps ==
  ASSUME TailInv, CheckRotated
  PROVE  FollowInv' /\ (~regrown' => OrderInv')
<1>0. TailTypeOK /\ FilesInv /\ FollowInv /\ (~regrown => OrderInv) BY DEF TailInv
<1>1. /\ tail.pc = "check" /\ path' = path /\ files' = files /\ lines' = lines /\ sent' = sent
      /\ cut' = cut /\ regrown' = regrown /\ from' = from
      /\ tail' = IF Rotated THEN [tail EXCEPT !.pc = "open", !.file = 0]
                            ELSE [tail EXCEPT !.pc = "read"]
  BY DEF CheckRotated, log, tailHistory
<1>2. tail.file # 0 /\ ~tail.seed BY <1>0, <1>1 DEF FollowInv
<1>3. WholeLinesInOrder' <=> WholeLinesInOrder BY <1>1 DEF WholeLinesInOrder
<1>4. CASE ~Rotated
  <2>1. /\ tail'.file = tail.file /\ tail'.pc = "read" /\ tail'.seed = tail.seed
        /\ tail'.offset = tail.offset /\ tail'.partial = tail.partial
    BY <1>0, <1>1, <1>4 DEF TailTypeOK
  <2>2. NothingSkipped' <=> NothingSkipped BY <1>1, <2>1 DEF NothingSkipped
  <2>3. \A s : Follows(tail', s) <=> Follows(tail, s) BY <2>1 DEF Follows, Boundary
  <2>4. Boundary(tail') = Boundary(tail) BY <2>1 DEF Boundary
  <2> QED BY <1>0, <1>1, <1>2, <1>3, <2>1, <2>2, <2>3, <2>4 DEF FollowInv, OrderInv
<1>5. CASE Rotated
  <2>1. tail'.file = 0 /\ tail'.pc = "open" /\ tail'.seed = tail.seed
    BY <1>0, <1>1, <1>5 DEF TailTypeOK
  <2>2. FollowInv' BY <1>2, <2>1 DEF FollowInv
  <2>3. ASSUME ~regrown' PROVE OrderInv'
    <3>1. OrderInv BY <1>0, <1>1, <2>3
    <3>2. path # 0 /\ path = Len(files) /\ Len(files) \in Nat /\ tail.file \in 0 .. Len(files)
          /\ tail.offset \in Nat
      BY <1>0, <1>5, FileTyped DEF Rotated, FilesInv
    <3>3. Below(sent, files[path], 0)
      <4>1. CASE path # tail.file
        <5>1. path \in tail.file + 1 .. Len(files) BY <3>2, <4>1
        <5> QED BY <1>2, <3>1, <5>1 DEF OrderInv
      <4>2. CASE path = tail.file
        <5>1. Len(files[path]) < tail.offset BY <1>5, <4>2 DEF Rotated
        <5>2. cut
          <6>1. ~cut => tail.offset <= Len(files[path]) BY <1>0, <1>2, <4>2 DEF FollowInv, Follows
          <6>2. Len(files[path]) \in Nat BY <1>0, <3>2, FileTyped
          <6> QED BY <3>2, <5>1, <6>1, <6>2
        <5> QED BY <1>2, <3>1, <4>2, <5>2 DEF OrderInv
      <4> QED BY <4>1, <4>2
    <3> QED BY <1>1, <1>3, <2>1, <3>1, <3>3 DEF OrderInv
  <2> QED BY <2>2, <2>3
<1> QED BY <1>4, <1>5

LEMMA SameKeeps ==
  ASSUME TailInv, UNCHANGED tailVars
  PROVE  FollowInv' /\ (~regrown' => OrderInv')
<1>1. FollowInv /\ (~regrown => OrderInv) BY DEF TailInv
<1>2. UNCHANGED <<files, path, lines, tail, sent, cut, regrown, from>>
  BY DEF tailVars, log, tailHistory
<1>3. WholeLinesInOrder' <=> WholeLinesInOrder BY <1>2 DEF WholeLinesInOrder
<1>4. NothingSkipped' <=> NothingSkipped BY <1>2 DEF NothingSkipped
<1> QED BY <1>1, <1>2, <1>3, <1>4 DEF FollowInv, OrderInv

\* What is unread is the rest of the file.
LEMMA UnreadPart ==
  ASSUME TailTypeOK, tail.file # 0, tail.offset <= Len(files[tail.file]), NEW i \in 1 .. Len(Unread)
  PROVE  /\ SubSeq(Unread, 1, i) = SubSeq(files[tail.file], tail.offset + 1, tail.offset + i)
         /\ tail.offset + i <= Len(files[tail.file])
<1> DEFINE s == files[tail.file]
           o == tail.offset
           n == Len(s)
<1>1. /\ s \in Seq(Piece) /\ o \in Nat /\ n \in Nat /\ o <= n
      /\ Len(Unread) = n - o
  <2>1. s \in Seq(Piece) /\ o \in Nat /\ n \in Nat BY FileTyped
  <2> QED BY <2>1, UnreadIs
<1>2. Unread = SubSeq(s, o + 1, n) BY DEF Unread
<1>3. n = Len(s) OBVIOUS
<1> HIDE DEF s, o, n
<1>4. /\ o + 1 \in 1 .. n /\ n \in 1 .. n /\ 1 \in 1 .. n - (o + 1) + 1
      /\ i \in 1 .. n - (o + 1) + 1
      /\ (o + 1) + 1 - 1 = o + 1 /\ (o + 1) + i - 1 = o + i /\ o + i <= n
  BY <1>1
<1>5. SubSeq(SubSeq(s, o + 1, n), 1, i) = SubSeq(s, (o + 1) + 1 - 1, (o + 1) + i - 1)
  BY <1>1, <1>3, <1>4, SubSeqOfSubSeq
<1> QED BY <1>2, <1>4, <1>5 DEF s, o, n

LEMMA EndKeeps ==
  ASSUME TailInv, ReachEnd
  PROVE  FollowInv' /\ (~regrown' => OrderInv')
<1> DEFINE s == files[tail.file]
           o == tail.offset
           n == Len(s)
           b == Boundary(tail)
<1>0. TailTypeOK /\ FollowInv /\ (~regrown => OrderInv) BY DEF TailInv
<1>1. /\ tail.pc = "read" /\ Newlines(Unread) = {}
      /\ tail' = [tail EXCEPT !.pc = "check", !.offset = @ + Len(Unread), !.partial = @ \o Unread]
      /\ path' = path /\ files' = files /\ lines' = lines /\ sent' = sent
      /\ cut' = cut /\ regrown' = regrown /\ from' = from
  BY DEF ReachEnd, log, tailHistory
<1>2. tail.file # 0 /\ ~tail.seed BY <1>0, <1>1 DEF FollowInv
<1>3. /\ tail'.file = tail.file /\ tail'.pc = "check" /\ tail'.seed = tail.seed
      /\ tail'.offset = o + Len(Unread) /\ tail'.partial = tail.partial \o Unread
  BY <1>0, <1>1 DEF TailTypeOK
<1>4. /\ s \in Seq(Piece) /\ Unread \in Seq(Piece) /\ Len(Unread) \in Nat
      /\ Len(Unread) = IF o <= n THEN n - o ELSE 0
      /\ \A i \in 1 .. Len(Unread) : Unread[i] = s[o + i]
      /\ o \in Nat /\ n \in Nat /\ tail.partial \in Seq(Piece) /\ Len(tail.partial) \in Nat
  <2>1. o \in Nat /\ n \in Nat /\ tail.partial \in Seq(Piece) BY <1>0, <1>2, FileTyped
  <2> QED BY <1>0, <1>2, <2>1, UnreadIs
<1>5. WholeLinesInOrder' <=> WholeLinesInOrder BY <1>1 DEF WholeLinesInOrder
<1>6. tail'.partial \in Seq(Piece) /\ Len(tail'.partial) = Len(tail.partial) + Len(Unread)
  BY <1>3, <1>4, ConcatProperties
<1>7. Boundary(tail') = b
  <2>1. Boundary(tail') = tail'.offset - Len(tail'.partial) /\ b = o - Len(tail.partial)
    BY DEF Boundary
  <2> DEFINE u == Len(Unread)
             l == Len(tail.partial)
  <2>2. o \in Nat /\ u \in Nat /\ l \in Nat /\ tail'.offset = o + u /\ Len(tail'.partial) = l + u
    BY <1>3, <1>4, <1>6
  <2>3. b = o - l BY <2>1
  <2>4. Boundary(tail') = (o + u) - (l + u) BY <2>1, <2>2
  <2> HIDE DEF o, b, u, l
  <2>5. (o + u) - (l + u) = o - l BY <2>2
  <2> QED BY <2>3, <2>4, <2>5
<1>8. \A i \in 1 .. Len(Unread) : ~Ends(Unread[i]) BY <1>1 DEF Newlines
<1>9. ASSUME ~cut PROVE Follows(tail', s) /\ NothingSkipped'
  <2>1. Follows(tail, s) /\ NothingSkipped BY <1>0, <1>2, <1>9 DEF FollowInv
  <2>2. /\ b \in Nat /\ b <= o /\ o <= n /\ b = o - Len(tail.partial)
        /\ tail.partial = SubSeq(s, b + 1, o)
        /\ b = 0 \/ Ends(s[b])
        /\ \A i \in b + 1 .. o : ~Ends(s[i])
    BY <1>0, <2>1, PlaceIs DEF Follows, Boundary
  <2> HIDE DEF o, b, n
  <2>3. tail'.offset = n BY <1>3, <1>4, <2>2
  <2>4. tail'.partial = SubSeq(s, b + 1, n)
    <3>1. Unread = SubSeq(s, o + 1, n) BY DEF Unread, s, o, n
    <3>2. n = Len(s) BY DEF n
    <3>5. b \in Nat /\ o \in Nat /\ n \in Nat /\ b <= o /\ o <= n BY <1>4, <2>2
    <3>3. b + 1 \in 1 .. n + 1 /\ o \in (b + 1) - 1 .. n /\ n \in o .. n BY <3>5
    <3>4. SubSeq(s, b + 1, o) \o SubSeq(s, o + 1, n) = SubSeq(s, b + 1, n)
      BY <1>4, <3>2, <3>3, ConcatAdjacentSubSeq
    <3> QED BY <1>3, <2>2, <3>1, <3>4
  <2>5. ASSUME NEW i \in o + 1 .. n PROVE ~Ends(s[i])
    <3>1. i - o \in 1 .. Len(Unread) /\ o + (i - o) = i BY <1>4, <2>2
    <3> QED BY <1>4, <1>8, <3>1
  <2>6. \A i \in b + 1 .. n : ~Ends(s[i])
    <3>1. \A i \in b + 1 .. n : i \in b + 1 .. o \/ i \in o + 1 .. n BY <1>4, <2>2
    <3> QED BY <2>2, <2>5, <3>1
  <2>7. Len(tail'.partial) <= tail'.offset BY <1>3, <1>4, <1>6, <2>2
  <2>8. Follows(tail', s)
    <3>1. n <= Len(s) /\ tail'.offset = n BY <1>4, <2>3 DEF n
    <3> QED BY <1>7, <2>2, <2>4, <2>6, <2>7, <3>1 DEF Follows
  <2>9. NothingSkipped'
    <3>1. \A i \in from + 1 .. n : i \in from + 1 .. o \/ i \in o + 1 .. n
      BY <1>0, <1>4, <2>2, FileTyped
    <3>2. \A i \in from + 1 .. o : Ends(s[i]) => \E m \in 1 .. Len(sent) : sent[m] = Whole(s[i][1])
      BY <2>1 DEF NothingSkipped, s, o
    <3>3. \A i \in from + 1 .. n : Ends(s[i]) => \E m \in 1 .. Len(sent) : sent[m] = Whole(s[i][1])
      BY <2>5, <3>1, <3>2
    <3>4. files'[tail'.file] = s BY <1>1, <1>3 DEF s
    <3> QED BY <1>1, <2>3, <3>3, <3>4 DEF NothingSkipped
  <2> QED BY <2>8, <2>9
<1>10. FollowInv' BY <1>1, <1>2, <1>3, <1>9 DEF FollowInv
<1>11. ASSUME ~regrown' PROVE OrderInv'
  <2>1. OrderInv BY <1>0, <1>1, <1>11
  <2>2. cut => tail'.offset = o
    <3>1. cut => n < o BY <1>2, <2>1 DEF OrderInv
    <3> HIDE DEF n, o
    <3>2. cut => Len(Unread) = 0 BY <1>4, <3>1
    <3> QED BY <1>3, <1>4, <3>2
  <2> QED BY <1>1, <1>2, <1>3, <1>5, <1>7, <2>1, <2>2 DEF OrderInv
<1> QED BY <1>10, <1>11

\* A file that is opened is new to those who watch.
LEMMA OpenKeeps ==
  ASSUME TailInv, Open
  PROVE  FollowInv' /\ (~regrown' => OrderInv')
<1> DEFINE s == files[path]
           at == IF tail.seed THEN ResumeAt(s) ELSE 0
           shown == IF tail.seed THEN sent \o Backlog(s) ELSE sent
<1>0. TailTypeOK /\ FilesInv /\ FollowInv /\ (~regrown => OrderInv) BY DEF TailInv
<1>1. /\ tail.pc = "open" /\ path # 0
      /\ tail' = [pc |-> "read", file |-> path, offset |-> at, seed |-> FALSE, partial |-> <<>>]
      /\ sent' = shown /\ from' = at /\ cut' = FALSE
      /\ path' = path /\ files' = files /\ lines' = lines /\ regrown' = regrown
  BY DEF Open, log
<1>2. /\ path = Len(files) /\ path \in 1 .. Len(files) /\ s \in Seq(Piece) /\ Regular(s)
      /\ Len(s) \in Nat /\ lines \in Nat /\ \A i \in 1 .. Len(s) : s[i][1] <= lines
  BY <1>0, <1>1, FileTyped DEF FilesInv
<1>3. /\ tail'.pc = "read" /\ tail'.file = path /\ tail'.offset = at /\ ~tail'.seed
      /\ tail'.partial = <<>> /\ files'[tail'.file] = s
  BY <1>1
<1>4. /\ at \in 0 .. Len(s) /\ (at = 0 \/ Ends(s[at]))
      /\ tail.seed => \A j \in at + 1 .. Len(s) : ~Ends(s[j])
  <2>1. 0 \in 0 .. Len(s) BY <1>2
  <2> QED BY <1>2, <2>1, ResumeIs
<1> HIDE DEF s, at, shown
<1>5. Boundary(tail') = at
  <2>1. Len(<<>>) = 0 OBVIOUS
  <2>2. Boundary(tail') = at - 0 BY <1>3, <2>1 DEF Boundary
  <2> QED BY <1>4, <2>2
<1>6. Follows(tail', s)
  <2>1. SubSeq(s, at + 1, at) = <<>>
    <3>1. at + 1 \in Int /\ at \in Int /\ at < at + 1 BY <1>4
    <3> QED BY <3>1, SubSeqEmpty
  <2>2. Len(<<>>) = 0 /\ 0 <= at /\ at <= Len(s) BY <1>2, <1>4
  <2>3. \A i \in at + 1 .. at : FALSE BY <1>4
  <2> QED BY <1>3, <1>4, <1>5, <2>1, <2>2, <2>3 DEF Follows
<1>7. NothingSkipped'
  <2>1. \A i \in at + 1 .. at : FALSE BY <1>4
  <2> QED BY <1>1, <1>3, <2>1 DEF NothingSkipped
<1>8. FollowInv' BY <1>1, <1>2, <1>3, <1>6, <1>7 DEF FollowInv
<1>9. ASSUME ~regrown' PROVE OrderInv'
  <2>1. OrderInv /\ tail.file = 0 BY <1>0, <1>1, <1>9 DEF FollowInv
  <2>2. \A g \in path + 1 .. Len(files) : FALSE BY <1>2
  <2>3. CASE ~tail.seed
    <3>1. sent' = sent /\ at = 0 BY <1>1, <2>3 DEF shown, at
    <3>2. Below(sent, s, 0) BY <1>1, <2>1 DEF OrderInv, s
    <3>3. WholeLinesInOrder' <=> WholeLinesInOrder BY <1>1, <3>1 DEF WholeLinesInOrder
    <3> QED BY <1>1, <1>2, <1>3, <1>5, <2>1, <2>2, <3>1, <3>2, <3>3 DEF OrderInv
  <2>4. CASE tail.seed
    <3> DEFINE B == Backlog(s)
    <3>1. B \in Seq(Seq(Piece)) BY <1>2, BacklogIs
    <3>2. PICK f \in [1 .. Len(B) -> 1 .. Len(s)] :
            \A k \in 1 .. Len(B) :
              /\ Ends(s[f[k]]) /\ B[k] = Whole(s[f[k]][1])
              /\ \A l \in 1 .. k - 1 : f[l] < f[k]
      BY <1>2, BacklogIs
    <3>3. sent' = B
      <4>1. sent = <<>> BY <1>0, <2>4 DEF FollowInv
      <4>2. <<>> \o B = B BY <3>1, ConcatEmptySeq
      <4> QED BY <1>1, <2>4, <4>1, <4>2 DEF shown
    <3> HIDE DEF B
    <3>4. ASSUME NEW k \in 1 .. Len(B)
          PROVE  f[k] \in 1 .. Len(s) /\ f[k] <= at /\ s[f[k]][1] \in 1 .. lines
                 /\ B[k] = Whole(s[f[k]][1]) /\ B[k][1][1] = s[f[k]][1]
      <4>1. f[k] \in 1 .. Len(s) /\ Ends(s[f[k]]) /\ B[k] = Whole(s[f[k]][1]) BY <3>2
      <4>2. f[k] <= at
        <5>1. f[k] \notin at + 1 .. Len(s) BY <1>4, <2>4, <4>1
        <5> QED BY <1>2, <1>4, <4>1, <5>1
      <4>3. s[f[k]][1] \in 1 .. MaxWritten /\ s[f[k]][1] <= lines BY <1>2, <4>1, PieceOf
      <4>4. B[k][1] = <<s[f[k]][1], 1>> BY <4>1, WholeIs
      <4> QED BY <1>2, <4>1, <4>2, <4>3, <4>4
    <3>5. ASSUME NEW i \in 1 .. Len(B), NEW j \in 1 .. Len(B), i < j
          PROVE  B[i][1][1] < B[j][1][1]
      <4>1. i \in 1 .. j - 1 BY <3>5
      <4>2. f[i] < f[j] /\ Ends(s[f[i]]) BY <3>2, <4>1
      <4>3. f[i] \in 1 .. Len(s) /\ f[j] \in f[i] + 1 .. Len(s) BY <1>2, <3>4, <4>2
      <4>4. s[f[i]][1] < s[f[j]][1] BY <1>2, <4>2, <4>3, LineEnding
      <4> QED BY <3>4, <4>4
    <3>6. WholeLinesInOrder' BY <1>1, <3>3, <3>4, <3>5 DEF WholeLinesInOrder
    <3>7. ASSUME NEW m \in 1 .. Len(B), NEW i \in at + 1 .. Len(s) PROVE B[m][1][1] < s[i][1]
      <4>1. f[m] \in 1 .. Len(s) /\ Ends(s[f[m]]) /\ i \in f[m] + 1 .. Len(s)
        BY <1>2, <1>4, <3>2, <3>4
      <4>2. s[f[m]][1] < s[i][1] BY <1>2, <4>1, LineEnding
      <4> QED BY <3>4, <4>2
    <3>8. Below(sent', s, at) BY <3>3, <3>7 DEF Below
    <3> QED BY <1>1, <1>2, <1>3, <1>5, <2>2, <3>6, <3>8 DEF OrderInv
  <2> QED BY <2>3, <2>4
<1> QED BY <1>8, <1>9

\* The next line that is shown is the one that begins at the reader's place.
LEMMA LineKeeps ==
  ASSUME TailInv, ReadLine
  PROVE  FollowInv' /\ (~regrown' => OrderInv')
<1> DEFINE s == files[tail.file]
           o == tail.offset
           n == Len(s)
           b == Boundary(tail)
           i == Min(Newlines(Unread))
           e == o + i
           line == tail.partial \o SubSeq(Unread, 1, i)
<1>0. TailTypeOK /\ FilesInv /\ FollowInv /\ (~regrown => OrderInv) BY DEF TailInv
<1>1. /\ tail.pc = "read" /\ Newlines(Unread) # {}
      /\ sent' = Append(sent, line)
      /\ tail' = [tail EXCEPT !.offset = @ + i, !.partial = <<>>]
      /\ path' = path /\ files' = files /\ lines' = lines
      /\ cut' = cut /\ regrown' = regrown /\ from' = from
  BY DEF ReadLine, log, tailHistory
<1>2. tail.file # 0 /\ ~tail.seed BY <1>0, <1>1 DEF FollowInv
<1>3. /\ tail'.file = tail.file /\ tail'.pc = "read" /\ tail'.seed = tail.seed
      /\ tail'.offset = e /\ tail'.partial = <<>>
  BY <1>0, <1>1 DEF TailTypeOK
<1>4. /\ s \in Seq(Piece) /\ o \in Nat /\ n \in Nat /\ Unread \in Seq(Piece)
      /\ tail.partial \in Seq(Piece) /\ from \in Nat /\ lines \in Nat /\ sent \in Seq(Seq(Piece))
      /\ tail.file \in 1 .. Len(files) /\ Len(files) \in Nat
  <2>1. /\ o \in Nat /\ tail.partial \in Seq(Piece) /\ from \in Nat /\ lines \in Nat
        /\ sent \in Seq(Seq(Piece)) /\ tail.file \in 1 .. Len(files) /\ Len(files) \in Nat
    BY <1>0, <1>2, FileTyped
  <2>2. s \in Seq(Piece) /\ Unread \in Seq(Piece) BY <1>0, <1>2, UnreadIs
  <2> HIDE DEF s, o
  <2> QED BY <2>1, <2>2
<1>5. /\ Len(Unread) = IF o <= n THEN n - o ELSE 0
      /\ \A j \in 1 .. Len(Unread) : Unread[j] = s[o + j]
  BY <1>0, <1>2, UnreadIs
<1>6. /\ i \in 1 .. Len(Unread) /\ Ends(Unread[i])
      /\ \A j \in 1 .. i - 1 : ~Ends(Unread[j])
  BY <1>0, <1>1, <1>2, FirstNewline
<1>7. o < n /\ i \in 1 .. n - o BY <1>4, <1>5, <1>6
<1>8. line \in Seq(Piece)
  <2>1. \A j \in 1 .. i : Unread[j] \in Piece BY <1>4, <1>6
  <2>2. SubSeq(Unread, 1, i) \in Seq(Piece) BY <1>6, <2>1, SubSeqProperties
  <2> QED BY <1>4, <2>2
<1> HIDE DEF line
<1>9. /\ Len(sent') = Len(sent) + 1 /\ Len(sent) \in Nat /\ sent'[Len(sent) + 1] = line
      /\ \A m \in 1 .. Len(sent) : sent'[m] = sent[m]
  <2>1. sent \in Seq(Seq(Piece)) /\ line \in Seq(Piece) BY <1>4, <1>8
  <2>2. /\ Len(Append(sent, line)) = Len(sent) + 1 /\ Append(sent, line)[Len(sent) + 1] = line
        /\ \A m \in 1 .. Len(sent) : Append(sent, line)[m] = sent[m]
    BY <2>1, AppendProperties
  <2>3. Len(sent) \in Nat BY <2>1
  <2> QED BY <1>1, <2>2, <2>3
<1>10. Boundary(tail') = e
  <2>1. Len(<<>>) = 0 OBVIOUS
  <2>2. Boundary(tail') = e - 0 BY <1>3, <2>1 DEF Boundary
  <2> QED BY <1>4, <1>7, <2>2
<1> HIDE DEF o, n, b, i, e
<1>11. e \in Nat /\ e \in o + 1 .. n /\ e \in 1 .. n BY <1>4, <1>7 DEF e
<1>12. ASSUME ~cut
       PROVE  /\ line = Whole(s[e][1]) /\ Ends(s[e]) /\ s[e][1] \in 1 .. lines
              /\ \A j \in o + 1 .. e - 1 : ~Ends(s[j])
              /\ b \in Nat /\ b < e
  <2>1. Follows(tail, s) BY <1>0, <1>2, <1>12 DEF FollowInv
  <2>2. /\ b \in Nat /\ b <= o /\ o <= n
        /\ tail.partial = SubSeq(s, b + 1, o)
        /\ b = 0 \/ Ends(s[b])
        /\ \A j \in b + 1 .. o : ~Ends(s[j])
    BY <1>0, <2>1, PlaceIs DEF Follows, b, o, n
  <2>3. Ends(s[e]) BY <1>5, <1>6 DEF e
  <2>4. ASSUME NEW j \in o + 1 .. e - 1 PROVE ~Ends(s[j])
    <3>1. j - o \in 1 .. i - 1 /\ o + (j - o) = j BY <1>4, <1>7 DEF e
    <3>2. j - o \in 1 .. Len(Unread) BY <1>4, <1>5, <1>7, <3>1
    <3> QED BY <1>5, <1>6, <3>1, <3>2
  <2>5. ASSUME NEW j \in b + 1 .. e - 1 PROVE ~Ends(s[j])
    <3>1. j \in b + 1 .. o \/ j \in o + 1 .. e - 1 BY <1>4, <1>11, <2>2
    <3> QED BY <2>2, <2>4, <3>1
  <2>6. Regular(s) BY <1>0, <1>4 DEF FilesInv, s
  <2>7. b = e - Pieces
    <3>1. b \in 0 .. e - 1 /\ e \in 1 .. Len(s) BY <1>4, <1>11, <2>2 DEF n
    <3> HIDE DEF s
    <3> QED BY <1>4, <2>2, <2>3, <2>5, <2>6, <3>1, LineBegins
  <2>8. line = SubSeq(s, b + 1, e)
    <3>1. SubSeq(Unread, 1, i) = SubSeq(s, o + 1, e)
      BY <1>0, <1>2, <1>6, <2>2, UnreadPart DEF s, o, n, e
    <3>2. b + 1 \in 1 .. n + 1 /\ o \in (b + 1) - 1 .. n /\ e \in o .. n
      BY <1>4, <1>11, <2>2
    <3>3. n = Len(s) BY DEF n
    <3>4. SubSeq(s, b + 1, o) \o SubSeq(s, o + 1, e) = SubSeq(s, b + 1, e)
      BY <1>4, <3>2, <3>3, ConcatAdjacentSubSeq
    <3> QED BY <2>2, <3>1, <3>4 DEF line
  <2>9. e \in 1 .. Len(s) BY <1>11 DEF n
  <2>10. line = Whole(s[e][1]) BY <1>4, <2>3, <2>6, <2>7, <2>8, <2>9, LineWhole
  <2>11. s[e][1] \in 1 .. lines
    <3>1. s[e][1] \in 1 .. MaxWritten BY <1>4, <2>9, PieceOf
    <3>2. s[e][1] <= lines BY <1>0, <1>4, <2>9 DEF FilesInv, s
    <3> QED BY <1>4, <3>1, <3>2
  <2>12. b < e BY <1>4, <1>11, <2>2
  <2> QED BY <2>2, <2>3, <2>4, <2>10, <2>11, <2>12
<1>13. ASSUME ~cut PROVE Follows(tail', s) /\ NothingSkipped'
  <2>1. /\ line = Whole(s[e][1]) /\ Ends(s[e])
        /\ \A j \in o + 1 .. e - 1 : ~Ends(s[j])
    BY <1>12, <1>13
  <2>2. Follows(tail', s)
    <3>1. SubSeq(s, e + 1, e) = <<>>
      <4>1. e + 1 \in Int /\ e \in Int /\ e < e + 1 BY <1>11
      <4> QED BY <4>1, SubSeqEmpty
    <3>2. Len(<<>>) = 0 /\ 0 <= e /\ e <= Len(s) BY <1>4, <1>11 DEF n
    <3>3. \A j \in e + 1 .. e : FALSE BY <1>11
    <3> QED BY <1>3, <1>10, <2>1, <3>1, <3>2, <3>3 DEF Follows
  <2>3. NothingSkipped'
    <3>1. \A j \in from + 1 .. o : Ends(s[j]) => \E m \in 1 .. Len(sent) : sent[m] = Whole(s[j][1])
      BY <1>0, <1>2, <1>13 DEF FollowInv, NothingSkipped, s, o
    <3>2. ASSUME NEW j \in from + 1 .. e, Ends(s[j])
          PROVE  \E m \in 1 .. Len(sent') : sent'[m] = Whole(s[j][1])
      <4>1. j \in from + 1 .. o \/ j \in o + 1 .. e - 1 \/ j = e BY <1>4, <1>11
      <4>2. CASE j \in from + 1 .. o
        <5>1. PICK m \in 1 .. Len(sent) : sent[m] = Whole(s[j][1]) BY <3>1, <3>2, <4>2
        <5>2. m \in 1 .. Len(sent') BY <1>9
        <5> QED BY <1>9, <5>1, <5>2
      <4>3. CASE j = e
        <5>1. Len(sent) + 1 \in 1 .. Len(sent') BY <1>9
        <5> QED BY <1>9, <2>1, <4>3, <5>1
      <4> QED BY <2>1, <3>2, <4>1, <4>2, <4>3
    <3>3. files'[tail'.file] = s BY <1>1, <1>3 DEF s
    <3> QED BY <1>1, <1>3, <3>2, <3>3 DEF NothingSkipped
  <2> QED BY <2>2, <2>3
<1>14. FollowInv' BY <1>1, <1>2, <1>3, <1>13 DEF FollowInv
<1>15. ASSUME ~regrown' PROVE OrderInv'
  <2>1. OrderInv BY <1>0, <1>1, <1>15
  <2>2. ~cut
    <3>1. cut => n < o BY <1>2, <2>1 DEF OrderInv, n, o
    <3> QED BY <1>4, <1>7, <3>1
  <2>3. line = Whole(s[e][1]) /\ Ends(s[e]) /\ s[e][1] \in 1 .. lines /\ b \in Nat /\ b < e
    BY <1>12, <2>2
  <2>4. line[1][1] = s[e][1]
    <3>1. line[1] = <<s[e][1], 1>> BY <2>3, WholeIs
    <3> QED BY <3>1
  <2>5. \A m \in 1 .. Len(sent) : sent[m][1][1] < s[e][1]
    <3>1. Below(sent, s, b) BY <1>2, <2>1, <2>2 DEF OrderInv, b
    <3>2. e \in b + 1 .. Len(s) BY <1>4, <1>11, <2>3 DEF n
    <3> QED BY <3>1, <3>2 DEF Below
  <2>6. \A m \in 1 .. Len(sent') : m \in 1 .. Len(sent) \/ m = Len(sent) + 1 BY <1>9
  <2>7. WholeLinesInOrder'
    <3>1. ASSUME NEW m \in 1 .. Len(sent') PROVE \E k \in 1 .. lines' : sent'[m] = Whole(k)
      <4>1. CASE m \in 1 .. Len(sent) BY <1>1, <1>9, <2>1, <4>1 DEF OrderInv, WholeLinesInOrder
      <4>2. CASE m = Len(sent) + 1 BY <1>1, <1>9, <2>3, <4>2
      <4> QED BY <2>6, <4>1, <4>2
    <3>2. ASSUME NEW l \in 1 .. Len(sent'), NEW m \in 1 .. Len(sent'), l < m
          PROVE  sent'[l][1][1] < sent'[m][1][1]
      <4>1. l \in 1 .. Len(sent) BY <1>9, <3>2
      <4>2. CASE m \in 1 .. Len(sent) BY <1>9, <2>1, <3>2, <4>1, <4>2 DEF OrderInv, WholeLinesInOrder
      <4>3. CASE m = Len(sent) + 1 BY <1>9, <2>4, <2>5, <4>1, <4>3
      <4> QED BY <2>6, <4>2, <4>3
    <3> QED BY <3>1, <3>2 DEF WholeLinesInOrder
  <2>8. \A u, a : Below(sent, u, a) /\ (\A j \in a + 1 .. Len(u) : s[e][1] < u[j][1])
                  => Below(sent', u, a)
    <3>1. ASSUME NEW u, NEW a, Below(sent, u, a), \A j \in a + 1 .. Len(u) : s[e][1] < u[j][1],
                 NEW m \in 1 .. Len(sent'), NEW j \in a + 1 .. Len(u)
          PROVE  sent'[m][1][1] < u[j][1]
      <4>1. CASE m \in 1 .. Len(sent) BY <1>9, <3>1, <4>1 DEF Below
      <4>2. CASE m = Len(sent) + 1 BY <1>9, <2>4, <3>1, <4>2
      <4> QED BY <2>6, <4>1, <4>2
    <3> QED BY <3>1 DEF Below
  <2>9. Below(sent', s, e)
    <3>1. Below(sent, s, e)
      <4>1. Below(sent, s, b) BY <1>2, <2>1, <2>2 DEF OrderInv, b
      <4>2. \A j \in e + 1 .. Len(s) : j \in b + 1 .. Len(s) BY <1>11, <2>3
      <4> QED BY <4>1, <4>2 DEF Below
    <3>2. \A j \in e + 1 .. Len(s) : s[e][1] < s[j][1]
      <4>1. Regular(s) /\ e \in 1 .. Len(s) BY <1>0, <1>4, <1>11 DEF FilesInv, s, n
      <4> HIDE DEF s
      <4> QED BY <1>4, <2>3, <4>1, LineEnding
    <3> QED BY <2>8, <3>1, <3>2
  <2>10. ASSUME NEW g \in tail.file + 1 .. Len(files) PROVE Below(sent', files[g], 0)
    <3>1. Below(sent, files[g], 0) BY <1>2, <2>1 DEF OrderInv
    <3>2. \A j \in 0 + 1 .. Len(files[g]) : s[e][1] < files[g][j][1]
      <4>1. e \in 1 .. Len(s) BY <1>11 DEF n
      <4>2. \A j \in 1 .. Len(files[g]) : files[tail.file][e][1] < files[g][j][1]
        BY <1>0, <1>4, <4>1 DEF FilesInv, s
      <4>3. 0 + 1 = 1 OBVIOUS
      <4> QED BY <4>2, <4>3 DEF s
    <3> QED BY <2>8, <3>1, <3>2
  <2> QED BY <1>1, <1>2, <1>3, <1>10, <2>2, <2>7, <2>9, <2>10 DEF OrderInv, s
<1> QED BY <1>14, <1>15

-----------------------------------------------------------------------------

LEMMA TailInvHolds == TailSpec => []TailInv
<1>1. TailInit => TailInv
  <2> SUFFICES ASSUME TailInit PROVE TailInv OBVIOUS
  <2>1. /\ files = <<>> /\ path = 0 /\ lines = 0 /\ sent = <<>> /\ tail = Fresh /\ restarts = 0
        /\ cut = FALSE /\ regrown = FALSE /\ from = 0
    BY DEF TailInit
  <2>2. TailTypeOK
    <3>1. /\ <<>> \in Seq(Seq(Seq(Piece))) /\ <<>> \in Seq(Seq(Piece)) /\ <<>> \in Seq(Piece)
      OBVIOUS
    <3>2. Len(files) = 0 /\ 0 \in 0 .. Len(files) BY <2>1
    <3>3. tail \in [pc : {"begin", "open", "read", "check"}, file : 0 .. Len(files),
                    offset : Nat, seed : BOOLEAN, partial : Seq(Piece)]
      BY <2>1, <3>1, <3>2 DEF Fresh
    <3>4. files \in Seq(Seq(Piece)) /\ sent \in Seq(Seq(Piece)) BY <2>1, <3>1
    <3>5. 0 <= MaxFiles /\ 0 \in 0 .. MaxWritten /\ 0 \in 0 .. MaxRestarts OBVIOUS
    <3> QED BY <2>1, <3>2, <3>3, <3>4, <3>5 DEF TailTypeOK
  <2>3. FilesInv BY <2>1 DEF FilesInv
  <2>4. FollowInv BY <2>1 DEF FollowInv, Fresh
  <2>5. OrderInv BY <2>1 DEF OrderInv, WholeLinesInOrder, Fresh
  <2> QED BY <2>2, <2>3, <2>4, <2>5 DEF TailInv
<1>2. TailInv /\ [TailNext]_tailVars => TailInv'
  <2> SUFFICES ASSUME TailInv, [TailNext]_tailVars PROVE TailInv' OBVIOUS
  <2>1. TailTypeOK' /\ FilesInv' BY TypesStep, FilesStep DEF TailInv
  <2>2. FollowInv' /\ (~regrown' => OrderInv')
    BY WriteKeeps, RotateKeeps, NewFileKeeps, TruncateKeeps, BeginKeeps, OpenKeeps, LineKeeps,
       EndKeeps, CheckKeeps, RestartKeeps, SameKeeps
    DEF TailNext, Tailer, Jvm
  <2> QED BY <2>1, <2>2 DEF TailInv
<1> QED BY <1>1, <1>2, PTL DEF TailSpec

\* The types of LogTail's variables (services/logtail.go, tailLoopFor)
THEOREM TailTypeCorrect == TailSpec => []TailTypeOK
<1>1. TailInv => TailTypeOK BY DEF TailInv
<1> QED BY <1>1, TailInvHolds, PTL

\* What a console is shown are whole lines, each once and in the order
\* written, and none that the read offset has passed is left out
\* (services/logtail.go, readBacklog, tailLoopFor).
THEOREM LinesShownAsWritten == TailSpec => []ShownAsWritten
<1>1. TailInv => ShownAsWritten BY DEF TailInv, FollowInv, OrderInv, ShownAsWritten
<1> QED BY <1>1, TailInvHolds, PTL

=============================================================================
