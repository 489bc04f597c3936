----------------------------- MODULE Properties -----------------------------
(***************************************************************************)
(* UpdateServerProperties: server.properties is read, merged with the      *)
(* settings of the request and written over the old file, by handlers that *)
(* take no lock.  A file is the set of the keys it holds: what is at stake *)
(* is that a key is lost, not the value of one.                            *)
(***************************************************************************)
CONSTANTS Updater,   \* requests that update server.properties
          Key

VARIABLES
  props,    \* the keys server.properties holds, as a reader finds it
  update,   \* what each updater is doing
  torn      \* history: an update read the file while another one had emptied it,
            \* or died or failed having emptied it

propsVars == <<props, update, torn>>

\* pc: idle; read, next Truncate; truncated, next Fill or FillFails
NoUpdate == [pc |-> "idle", merged |-> {}]

PropsTypeOK ==
  /\ props \subseteq Key
  /\ update \in [Updater -> [pc : {"idle", "read", "truncated"}, merged : SUBSET Key]]
  /\ torn \in BOOLEAN

PropsInit ==
  /\ props = Key
  /\ update = [u \in Updater |-> NoUpdate]
  /\ torn = FALSE

Begin(u, merged) ==
  /\ update[u].pc = "idle"
  /\ update' = [update EXCEPT ![u] = [pc |-> "read", merged |-> merged]]
  /\ torn' = (torn \/ \E v \in Updater : update[v].pc = "truncated")
  /\ UNCHANGED props

\* Mutant of BeginUpdate: the file is written from the request alone.
BeginUpdateAfresh(u, keys) == Begin(u, keys)

BeginUpdate(u, keys) == Begin(u, props \cup keys)

\* utils.WriteFile opens with O_TRUNC ...
Truncate(u) ==
  /\ update[u].pc = "read"
  /\ update' = [update EXCEPT ![u].pc = "truncated"]
  /\ props' = {}
  /\ UNCHANGED torn

\* ... and writes. Over what another call has written meanwhile, the tail of
\* the longer text stays.
Fill(u) ==
  /\ update[u].pc = "truncated"
  /\ update' = [update EXCEPT ![u] = NoUpdate]
  /\ props' \in {update[u].merged, update[u].merged \cup props}
  /\ UNCHANGED torn

\* Nothing or a part is written; the error is returned.
FillFails(u) ==
  /\ update[u].pc = "truncated"
  /\ update' = [update EXCEPT ![u] = NoUpdate]
  /\ props' \in SUBSET (update[u].merged \cup props)
  /\ torn' = TRUE

\* The file cannot be opened for writing.
TruncateFails(u) ==
  /\ update[u].pc = "read"
  /\ update' = [update EXCEPT ![u] = NoUpdate]
  /\ UNCHANGED <<props, torn>>

PropsCrash ==
  /\ update' = [u \in Updater |-> NoUpdate]
  /\ torn' = (torn \/ \E u \in Updater : update[u].pc = "truncated")
  /\ UNCHANGED props

-----------------------------------------------------------------------------
\* UpdateServerProperties is to preserve "any existing key not present in
\* properties". It does, also when updates overlap, unless one reads the file
\* while another one has emptied it, or dies or fails having emptied it itself:
\* then the keys are lost, with an error to the caller at best.
KeysAreKept ==
  ~torn /\ (\A u \in Updater : update[u].pc # "truncated") => props = Key
=============================================================================
