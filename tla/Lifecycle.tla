------------------------------- MODULE Lifecycle -------------------------------
(***************************************************************************)
(* The life of the process: main, Server.Run (internal/server/server.go),   *)
(* the goroutine that listens, and the requests being served.               *)
(*                                                                          *)
(* A handler answers at once, except that of /api/events, which ends when   *)
(* its client leaves: nothing derives its context from the one that a       *)
(* signal cancels.  http.Server (external) is modelled by what Run relies   *)
(* on: Shutdown closes the listener, then waits until no connection is      *)
(* active or its context expires.                                           *)
(***************************************************************************)
CONSTANTS
  Clients       \* connections that browsers may have at once

VARIABLES
  interrupted,  \* ctx of main is done: SIGINT or SIGTERM
  listener,     \* "starting", "open", "closed" or "failed"
  errCh,        \* what the listening goroutine sent: "empty", "nil" or "failed"
  conn,         \* each connection: "idle", or active with a "request" or a "stream"
  run,          \* Run: in its "select", in "shutdown" or "returned"
  result,       \* what it returned
  process       \* "up", its exit code, or "killed"

vars == <<interrupted, listener, errCh, conn, run, result, process>>

\* main: flags, store, hub and manager, then srv.Run(ctx)
Init ==
  /\ interrupted = FALSE
  /\ listener = "starting" /\ errCh = "empty"
  /\ conn = [c \in Clients |-> "idle"]
  /\ run = "select" /\ result = "none"
  /\ process = "up"

Up == process = "up"

\* A second signal finds the context done and has no effect.
Signal ==
  /\ Up /\ ~interrupted
  /\ interrupted' = TRUE
  /\ UNCHANGED <<listener, errCh, conn, run, result, process>>

-----------------------------------------------------------------------------
(* The goroutine that calls ListenAndServe.                                 *)

Listen ==
  /\ Up /\ listener = "starting" /\ run = "select"
  /\ listener' = "open"
  /\ UNCHANGED <<interrupted, errCh, conn, run, result, process>>

\* The address is in use, or Accept fails for good: errCh <- err
ListenFails ==
  /\ Up /\ listener \in {"starting", "open"} /\ run = "select"
  /\ listener' = "failed" /\ errCh' = "failed"
  /\ UNCHANGED <<interrupted, conn, run, result, process>>

\* ListenAndServe returns ErrServerClosed: errCh <- nil, which has room
Closed ==
  /\ Up /\ listener = "closed" /\ errCh = "empty"
  /\ errCh' = "nil"
  /\ UNCHANGED <<interrupted, listener, conn, run, result, process>>

Accept(c) ==
  /\ Up /\ listener = "open" /\ conn[c] = "idle"
  /\ \E kind \in {"request", "stream"} : conn' = [conn EXCEPT ![c] = kind]
  /\ UNCHANGED <<interrupted, listener, errCh, run, result, process>>

\* Every handler but handleEvents: the answer is written.
Answer(c) ==
  /\ Up /\ conn[c] = "request"
  /\ conn' = [conn EXCEPT ![c] = "idle"]
  /\ UNCHANGED <<interrupted, listener, errCh, run, result, process>>

\* handleEvents: case <-r.Context().Done()
ClientLeaves(c) ==
  /\ Up /\ conn[c] = "stream"
  /\ conn' = [conn EXCEPT ![c] = "idle"]
  /\ UNCHANGED <<interrupted, listener, errCh, run, result, process>>

-----------------------------------------------------------------------------
(* Run and main.                                                            *)

\* case <-ctx.Done(): httpSrv.Shutdown closes the listener first
Shutdown ==
  /\ Up /\ run = "select" /\ interrupted
  /\ run' = "shutdown"
  /\ listener' = IF listener = "failed" THEN "failed" ELSE "closed"
  /\ UNCHANGED <<interrupted, errCh, conn, result, process>>

Return(r) ==
  /\ run' = "returned"
  /\ result' = r
  /\ UNCHANGED <<interrupted, listener, errCh, conn, process>>

Quiet == \A c \in Clients : conn[c] = "idle"

\* Mutant: Close instead of Shutdown.
CloseDone == Up /\ run = "shutdown" /\ Return("context canceled")

\* Shutdown found no active connection: return ctx.Err()
ShutdownDone == Up /\ run = "shutdown" /\ Quiet /\ Return("context canceled")

\* Mutant: Shutdown is given a context that does not expire.
NoDeadline == FALSE

Deadline == ~Quiet

\* shutdownCtx expired: return err
ShutdownExpires == Up /\ run = "shutdown" /\ Deadline /\ Return("deadline exceeded")

\* Mutant: Run still listens to errCh while it shuts down.
EndedMeanwhile == Up /\ run # "returned" /\ errCh # "empty" /\ Return(errCh)

\* case err := <-errCh: return err
ServerEnded == Up /\ run = "select" /\ errCh # "empty" /\ Return(errCh)

\* main: os.Exit(1) on any other error
Exit ==
  /\ Up /\ run = "returned"
  /\ process' = IF result \in {"context canceled", "nil"} THEN "exit 0" ELSE "exit 1"
  /\ UNCHANGED <<interrupted, listener, errCh, conn, run, result>>

\* The machine stops, or a signal that cannot be caught.
Kill ==
  /\ Up
  /\ process' = "killed"
  /\ UNCHANGED <<interrupted, listener, errCh, conn, run, result>>

Serving == \E c \in Clients : Accept(c) \/ Answer(c) \/ ClientLeaves(c)

Ending == Shutdown \/ ShutdownDone \/ ShutdownExpires \/ ServerEnded \/ Exit

Next == Signal \/ Listen \/ ListenFails \/ Closed \/ Serving \/ Ending \/ Kill

Spec == Init /\ [][Next]_vars

(***************************************************************************)
(* Run and main go on when they can, and a context with a timeout expires.  *)
(* Nothing makes a signal come or a client leave.                           *)
(***************************************************************************)
FairSpec == Spec /\ WF_vars(Ending) /\ WF_vars(Closed)

-----------------------------------------------------------------------------
(* Properties.                                                              *)

TypeOK ==
  /\ interrupted \in BOOLEAN
  /\ listener \in {"starting", "open", "closed", "failed"}
  /\ errCh \in {"empty", "nil", "failed"}
  /\ conn \in [Clients -> {"idle", "request", "stream"}]
  /\ run \in {"select", "shutdown", "returned"}
  /\ result \in {"none", "context canceled", "deadline exceeded", "failed"}
  /\ process \in {"up", "exit 0", "exit 1", "killed"}

(***************************************************************************)
(* The process reports success only if it was told to stop, and then every  *)
(* request it accepted has been answered: none is cut off by the exit.      *)
(***************************************************************************)
SuccessCutsNobody ==
  process = "exit 0" => interrupted /\ \A c \in Clients : conn[c] = "idle"

(***************************************************************************)
(* A signal ends the process, whatever its clients do, and so does a        *)
(* listener that fails: it does not stay up without serving.                *)
(***************************************************************************)
ExitsWhenTold == (interrupted \/ listener = "failed") ~> ~Up
=============================================================================
