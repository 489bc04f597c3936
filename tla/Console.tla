------------------------------- MODULE Console -------------------------------
(***************************************************************************)
(* handlers/console.go, ConsoleHandler, on top of the log hub: for each    *)
(* connection a handler goroutine, which alone writes to the socket, and a *)
(* reader goroutine, which takes the client's commands.  Both must end     *)
(* when the client is gone or the server stops, or the subscription and    *)
(* the connection leak.                                                    *)
(***************************************************************************)
EXTENDS LogHub

VARIABLES
  running,  \* IsServerRunning
  con       \* the connections, by subscriber

console == <<running, con>>

\* pc is the handler's, in its order; "leaving" and "closing" are its deferred
\* calls, hub.Unsubscribe and then conn.Close. A "silent" client is gone
\* without a FIN. An error in errCh is one bit.
Handler == {"none", "upgraded", "streaming", "leaving", "closing"}
Reader == {"none", "reading", "offering"}
Client == {"none", "alive", "silent", "closed"}

NoConnection == [pc |-> "none", reader |-> "none", client |-> "none", err |-> FALSE]

ConTypeOK ==
  /\ running \in BOOLEAN
  /\ con \in [Sub -> [pc : Handler, reader : Reader, client : Client, err : BOOLEAN]]

ConInit == Init /\ running = TRUE /\ con = [s \in Sub |-> NoConnection]

At(s, label) == con[s].pc = label
Goto(s, label) == con' = [con EXCEPT ![s].pc = label]

-----------------------------------------------------------------------------
(* The handler *)

Upgrade(s) ==
  /\ running
  /\ con[s] = NoConnection
  /\ con' = [con EXCEPT ![s].pc = "upgraded", ![s].client = "alive"]
  /\ UNCHANGED <<vars, running>>

Listen(s) ==
  /\ At(s, "upgraded")
  /\ Subscribe(s)
  /\ UNCHANGED console

Replay(s) ==
  /\ At(s, "upgraded")
  /\ ReplayOne(s)
  /\ UNCHANGED console

\* Subscribed; the reader goroutine starts, and the loop.
Serve(s) ==
  /\ At(s, "upgraded")
  /\ Register(s)
  /\ con' = [con EXCEPT ![s].pc = "streaming", ![s].reader = "reading"]
  /\ UNCHANGED running

\* A write succeeds as long as the connection takes it, which that of a silent
\* client may do for a while; a failing one ends the loop.
Written(s) ==
  \/ con[s].client # "closed" /\ UNCHANGED con
  \/ con[s].client # "alive" /\ Goto(s, "leaving")

SendLine(s) ==
  /\ At(s, "streaming")
  /\ Receive(s)
  /\ Written(s)
  /\ UNCHANGED running

SendError(s) ==
  /\ At(s, "streaming") /\ con[s].err
  /\ \/ con[s].client # "closed" /\ con' = [con EXCEPT ![s].err = FALSE]
     \/ con[s].client # "alive" /\ con' = [con EXCEPT ![s].err = FALSE, ![s].pc = "leaving"]
  /\ UNCHANGED <<vars, running>>

Ping(s) ==
  /\ At(s, "streaming")
  /\ Written(s)
  /\ UNCHANGED <<vars, running>>

CheckStatus(s) ==
  /\ At(s, "streaming")
  /\ ~running
  /\ Goto(s, "leaving")
  /\ UNCHANGED <<vars, running>>

\* The reader has closed done.
ReaderDone(s) ==
  /\ At(s, "streaming")
  /\ con[s].reader = "none"
  /\ Goto(s, "leaving")
  /\ UNCHANGED <<vars, running>>

Leave(s) ==
  /\ At(s, "leaving")
  /\ Unsubscribe(s)
  /\ Goto(s, "closing")
  /\ UNCHANGED running

CloseConn(s) ==
  /\ At(s, "closing")
  /\ con' = [con EXCEPT ![s].pc = "none", ![s].client = "closed"]
  /\ UNCHANGED <<vars, running>>

-----------------------------------------------------------------------------
(* The reader *)

\* A command; one that is not permitted, or cannot be sent, is answered with an
\* error by way of the handler.
ReadCommand(s) ==
  /\ con[s].reader = "reading" /\ con[s].client = "alive"
  /\ con' = [con EXCEPT ![s].reader = "offering"]
  /\ UNCHANGED <<vars, running>>

\* Mutant of Offer: it waits for room in errCh.
OfferWaiting(s) ==
  /\ con[s].reader = "offering"
  /\ ~con[s].err
  /\ con' = [con EXCEPT ![s].reader = "reading", ![s].err = TRUE]
  /\ UNCHANGED <<vars, running>>

\* With an error in errCh already this one is dropped.
Offer(s) ==
  /\ con[s].reader = "offering"
  /\ con' = [con EXCEPT ![s].reader = "reading", ![s].err = TRUE]
  /\ UNCHANGED <<vars, running>>

\* ReadMessage returns an error: the connection is closed, by either side, or
\* no pong has come within consolePongTimeout.
ReadFails(s) ==
  /\ con[s].reader = "reading" /\ con[s].client # "alive"
  /\ con' = [con EXCEPT ![s].reader = "none"]
  /\ UNCHANGED <<vars, running>>

-----------------------------------------------------------------------------
(* The client and the server *)

ClientGoes(s) ==
  /\ con[s].client = "alive"
  /\ \E c \in {"silent", "closed"} : con' = [con EXCEPT ![s].client = c]
  /\ UNCHANGED <<vars, running>>

\* Both goroutines have ended: the slot stands for another connection.
Forget(s) ==
  /\ con[s].client = "closed" /\ At(s, "none") /\ con[s].reader = "none"
  /\ con' = [con EXCEPT ![s] = NoConnection]
  /\ UNCHANGED <<vars, running>>

ServerStops == running /\ running' = FALSE /\ UNCHANGED <<vars, con>>
ServerStarts == ~running /\ running' = TRUE /\ UNCHANGED <<vars, con>>

ConNext ==
  \/ Broadcast /\ UNCHANGED console
  \/ \E s \in Sub :
       \/ Upgrade(s) \/ Listen(s) \/ Replay(s) \/ Serve(s)
       \/ SendLine(s) \/ SendError(s) \/ Ping(s) \/ CheckStatus(s) \/ ReaderDone(s)
       \/ Leave(s) \/ CloseConn(s)
       \/ ReadCommand(s) \/ Offer(s) \/ ReadFails(s)
       \/ ClientGoes(s) \/ Forget(s)
  \/ ServerStops \/ ServerStarts

conVars == <<vars, console>>

\* The two goroutines are scheduled; select takes a random one of the ready
\* cases, so none that stays ready is passed over for ever; the tickers tick.
\* sync.Mutex hands the lock to who has waited for a millisecond.
Fairness ==
  \A s \in Sub :
    /\ SF_conVars(Listen(s)) /\ WF_conVars(Replay(s)) /\ WF_conVars(Serve(s))
    /\ WF_conVars(ReaderDone(s)) /\ WF_conVars(CheckStatus(s))
    /\ SF_conVars(Leave(s)) /\ WF_conVars(CloseConn(s))
    /\ WF_conVars(Offer(s)) /\ WF_conVars(ReadFails(s))

ConSpec == ConInit /\ [][ConNext]_conVars /\ Fairness

-----------------------------------------------------------------------------
Ended(s) == At(s, "none") /\ con[s].reader = "none" /\ s \notin subscribers

\* console.go:107: a client that is gone, with or without a FIN, leaves neither
\* a handler nor a reader nor a subscription behind, and so does every
\* client once the server stays down.
NothingLeaks ==
  \A s \in Sub : /\ con[s].client \in {"silent", "closed"} ~> Ended(s)
                 /\ []<>(running \/ Ended(s))
=============================================================================
