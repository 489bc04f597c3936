------------------------------ MODULE Runtimes ------------------------------
(***************************************************************************)
(* services/runtime.go and services/servers.go: the registry of servers    *)
(* and the map of their runtimes, each with the mutexes, the log hub and   *)
(* the tailer of one server.  Two runtimes of one server would let two     *)
(* backups run at once and show every line twice.                          *)
(*                                                                         *)
(* runtimes grows only; a runtime is the number it was made as.            *)
(***************************************************************************)
EXTENDS Naturals, FiniteSets

CONSTANTS Caller,      \* goroutines that serve requests, main among them
          ServerID,
          DefaultID,   \* the registry's first row
          MaxMade      \* bound: runtimes ever made

ASSUME RuntimesAssumption == DefaultID \in ServerID /\ MaxMade \in Nat

VARIABLES
  registry,  \* the rows of the table servers
  runtimes,  \* the map, 0 without a runtime
  made,      \* runtimes made so far
  hub,       \* the runtimes whose hub is set
  tailers,   \* tailers started for each runtime
  calls      \* what each goroutine is doing

runtimesVars == <<registry, runtimes, made, hub, tailers, calls>>

\* loading: it goes on with startRuntimeTailer; got is the runtime it came by.
NoCall == [pc |-> "none", id |-> DefaultID, loading |-> FALSE, got |-> 0]

Call == {"none",
         "wanted",    \* getOrCreateRuntime: next ReadMap
         "missed",    \* next TakeOrMake, which needs the lock for writing
         "got",       \* next StartTailer, or the end
         "created"}   \* inside tailOnce.Do; next FollowLog

RuntimesTypeOK ==
  /\ registry \subseteq ServerID
  /\ runtimes \in [ServerID -> 0 .. MaxMade]
  /\ made \in 0 .. MaxMade
  /\ hub \subseteq 1 .. MaxMade
  /\ tailers \in [1 .. MaxMade -> Nat]
  /\ calls \in [Caller -> [pc : Call, id : ServerID, loading : BOOLEAN, got : 0 .. MaxMade]]

RuntimesInit ==
  /\ registry \in {{}, {DefaultID}, ServerID}
  /\ runtimes = [i \in ServerID |-> 0]
  /\ made = 0
  /\ hub = {}
  /\ tailers = [n \in 1 .. MaxMade |-> 0]
  /\ calls = [c \in Caller |-> NoCall]

Wants(c, id, loading) ==
  calls' = [calls EXCEPT ![c] = [pc |-> "wanted", id |-> id, loading |-> loading, got |-> 0]]

Gets(c, n) == calls' = [calls EXCEPT ![c].pc = "got", ![c].got = n]

-----------------------------------------------------------------------------
\* Only an empty table gets the row.
EnsureDefaultServer ==
  /\ registry = {}
  /\ registry' = {DefaultID}
  /\ UNCHANGED <<runtimes, made, hub, tailers, calls>>

\* RuntimeForID, or one turn of LoadRuntimes' loop: of a row only
Resolve(c, id) ==
  /\ calls[c].pc = "none"
  /\ id \in registry
  /\ \E loading \in BOOLEAN : Wants(c, id, loading)
  /\ UNCHANGED <<registry, runtimes, made, hub, tailers>>

\* DefaultRuntime, of the flat routes: without a look at the registry
ResolveDefault(c) ==
  /\ calls[c].pc = "none"
  /\ Wants(c, DefaultID, FALSE)
  /\ UNCHANGED <<registry, runtimes, made, hub, tailers>>

\* Under the read lock
ReadMap(c) ==
  /\ calls[c].pc = "wanted"
  /\ IF runtimes[calls[c].id] # 0
     THEN Gets(c, runtimes[calls[c].id])
     ELSE calls' = [calls EXCEPT ![c].pc = "missed"]
  /\ UNCHANGED <<registry, runtimes, made, hub, tailers>>

\* Mutant of TakeOrMake: it does not look again under the write lock.
MakeAnyway(c) ==
  /\ calls[c].pc = "missed"
  /\ made < MaxMade
  /\ made' = made + 1
  /\ runtimes' = [runtimes EXCEPT ![calls[c].id] = made']
  /\ Gets(c, made')
  /\ UNCHANGED <<registry, hub, tailers>>

\* Under the write lock, where another caller may have been first
TakeOrMake(c) ==
  /\ calls[c].pc = "missed"
  /\ IF runtimes[calls[c].id] # 0
     THEN Gets(c, runtimes[calls[c].id]) /\ UNCHANGED <<runtimes, made>>
     ELSE /\ made < MaxMade
          /\ made' = made + 1
          /\ runtimes' = [runtimes EXCEPT ![calls[c].id] = made']
          /\ Gets(c, made')
  /\ UNCHANGED <<registry, hub, tailers>>

\* tailOnce.Do: the first sets the hub; who comes while it is at it waits.
Once(n) == \A d \in Caller : ~(calls[d].pc = "created" /\ calls[d].got = n)

StartTailer(c) ==
  /\ calls[c].pc = "got" /\ calls[c].loading
  /\ Once(calls[c].got)
  /\ IF calls[c].got \in hub
     THEN calls' = [calls EXCEPT ![c] = NoCall] /\ UNCHANGED hub
     ELSE calls' = [calls EXCEPT ![c].pc = "created"] /\ hub' = hub \cup {calls[c].got}
  /\ UNCHANGED <<registry, runtimes, made, tailers>>

FollowLog(c) ==
  /\ calls[c].pc = "created"
  /\ tailers' = [tailers EXCEPT ![calls[c].got] = @ + 1]
  /\ calls' = [calls EXCEPT ![c] = NoCall]
  /\ UNCHANGED <<registry, runtimes, made, hub>>

\* A request has done with its runtime.
CallEnds(c) ==
  /\ calls[c].pc = "got" /\ ~calls[c].loading
  /\ calls' = [calls EXCEPT ![c] = NoCall]
  /\ UNCHANGED <<registry, runtimes, made, hub, tailers>>

RuntimesNext ==
  \/ EnsureDefaultServer
  \/ \E c \in Caller :
       \/ \E id \in ServerID : Resolve(c, id)
       \/ ResolveDefault(c)
       \/ ReadMap(c) \/ TakeOrMake(c) \/ StartTailer(c) \/ FollowLog(c) \/ CallEnds(c)

RuntimesSpec == RuntimesInit /\ [][RuntimesNext]_runtimesVars

-----------------------------------------------------------------------------
\* Whoever works on a server works on the runtime everybody else has for it, with
\* its mutexes, and each log is followed by one tailer at most, though requests
\* and LoadRuntimes may ask for it for the first time at once (runtime.go:112:
\* "an already-known id's tailer is never started twice").
OneRuntimePerServer ==
  /\ \A c \in Caller : calls[c].got # 0 => calls[c].got = runtimes[calls[c].id]
  /\ \A n \in 1 .. MaxMade : tailers[n] <= 1
  /\ made = Cardinality({i \in ServerID : runtimes[i] # 0})
=============================================================================
