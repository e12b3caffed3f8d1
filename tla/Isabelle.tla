------------------------------ MODULE Isabelle ------------------------------
(***************************************************************************)
(* The start-up of AsyncIsabelleClient and the checks that wait for it     *)
(* (src/treethink/clients/isabelle/client.py).  One client object is       *)
(* shared by the tasks of an event loop; a task waits at every await, and  *)
(* between two awaits it runs alone.                                       *)
(*                                                                         *)
(* The server is started under a name.  Another `isabelle server' with     *)
(* that name prints the address of the running one and exits, so the       *)
(* handle kept of a later start is not the server's.                       *)
(***************************************************************************)
EXTENDS Integers, FiniteSets

CONSTANTS
  Task,        \* tasks that check proofs
  MaxWorkers   \* max_workers, the size of the client's semaphore

ASSUME TaskAssumption == IsFiniteSet(Task) /\ MaxWorkers \in Nat \ {0}

VARIABLES
  phase,     \* where in check() a task is
  connected, \* _client is set
  session,   \* _session_id is set
  process,   \* _server_process: "none", "server" or "exited"
  server,    \* the named server runs
  broken     \* what has gone wrong in starts: "line", "session"

isaVars == <<phase, connected, session, process, server, broken>>

Phase == {"idle", "starting", "session", "queued", "running", "blind"}

IsaInit ==
  /\ phase = [t \in Task |-> "idle"]
  /\ connected = FALSE /\ session = FALSE
  /\ process = "none" /\ server = FALSE
  /\ broken = {}

(* The synchronous client starts server and session in its constructor;    *)
(* the other one starts them when a proof is first checked.                *)
Constructed ==
  /\ connected' = TRUE /\ session' = TRUE /\ server' = TRUE
  /\ process' = IF server THEN "exited" ELSE "server"
  /\ UNCHANGED <<phase, broken>>

(* The constructor raises, before the server runs or after it.             *)
NotConstructed ==
  /\ server' \in {server, TRUE}
  /\ UNCHANGED <<phase, connected, session, process, broken>>

Move(t, p) == phase' = [phase EXCEPT ![t] = p]

-----------------------------------------------------------------------------
(* check -> _ensure_connected.                                             *)
Call(t) ==
  /\ phase[t] = "idle"
  /\ Move(t, IF connected THEN "queued" ELSE "starting")
  /\ UNCHANGED <<connected, session, process, server, broken>>

(* Faulty variant: the session is left for somebody else to start.         *)
ServerUp_NoSession(t) ==
  /\ phase[t] = "starting"
  /\ connected' = TRUE /\ server' = TRUE
  /\ process' = IF server THEN "exited" ELSE "server"
  /\ Move(t, "queued")
  /\ UNCHANGED <<session, broken>>

(* The server's line has been read; the session is started in a thread.    *)
ServerUp(t) ==
  /\ phase[t] = "starting"
  /\ connected' = TRUE /\ server' = TRUE
  /\ process' = IF server THEN "exited" ELSE "server"
  /\ Move(t, "session")
  /\ UNCHANGED <<session, broken>>

(* start() raises without a client.  There was no process, or one that     *)
(* exited without a line, or a line that is not understood; what came of   *)
(* the start is remembered by then, and the server it started stays.       *)
ServerFails(t) ==
  /\ phase[t] = "starting"
  /\ Move(t, "idle")
  /\ \/ process' \in {process, "exited"} /\ UNCHANGED <<server, broken>>
     \/ /\ process' = IF server THEN "exited" ELSE "server"
        /\ server' = TRUE
        /\ broken' = broken \union {"line"}
  /\ UNCHANGED <<connected, session>>

SessionUp(t) ==
  /\ phase[t] = "session"
  /\ session' = TRUE
  /\ Move(t, "queued")
  /\ UNCHANGED <<connected, process, server, broken>>

(* start() raises after _client was set: it will not be tried again.       *)
SessionFails(t) ==
  /\ phase[t] = "session"
  /\ broken' = broken \union {"session"}
  /\ Move(t, "idle")
  /\ UNCHANGED <<connected, session, process, server>>

Running == {t \in Task : phase[t] \in {"running", "blind"}}

(* _run_batch gets its place in the semaphore and reads _session_id.       *)
Submit(t) ==
  /\ phase[t] = "queued"
  /\ Cardinality(Running) < MaxWorkers
  /\ Move(t, IF session THEN "running" ELSE "blind")
  /\ UNCHANGED <<connected, session, process, server, broken>>

(* Without a session the server refuses, which is a result like any other. *)
Answer(t) ==
  /\ phase[t] \in {"running", "blind"}
  /\ Move(t, "idle")
  /\ UNCHANGED <<connected, session, process, server, broken>>

(* Steps after which the task still waits for the client.                  *)
Starting(t) == ServerUp(t) \/ SessionUp(t) \/ Submit(t)
CheckRaises(t) == ServerFails(t) \/ SessionFails(t)

-----------------------------------------------------------------------------
IsaTypeOK ==
  /\ phase \in [Task -> Phase]
  /\ connected \in BOOLEAN /\ session \in BOOLEAN
  /\ process \in {"none", "server", "exited"}
  /\ server \in BOOLEAN /\ broken \subseteq {"line", "session"}
  /\ Cardinality(Running) <= MaxWorkers

(* A client without a session is one whose session is being started or     *)
(* could not be started.                                                   *)
NoHalfStart ==
  connected /\ ~session =>
    "session" \in broken \/ \E t \in Task : phase[t] = "session"

(* Where one task at a time checks, a proof is sent without a session only *)
(* when no session could be started, and a client keeps hold of the        *)
(* server it has started, unless it did not understand a server's line:    *)
(* the server that it starts next is then not its own.                     *)
SerialStart ==
  /\ \A t \in Task : phase[t] = "blind" => "session" \in broken
  /\ connected /\ "line" \notin broken => process = "server"
=============================================================================
