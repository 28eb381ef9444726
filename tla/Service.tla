-------------------------------- MODULE Service --------------------------------
(***************************************************************************)
(* The server from one start to the next: the process and its connections   *)
(* (Lifecycle), the requests that change the manager's target (handleConnect*)
(* in internal/server/server.go with the rules of Targets) and the form     *)
(* they save (Prefs), which is what survives the process.                   *)
(*                                                                          *)
(* A request holds the manager's mutex only while it changes the target,    *)
(* which is one step here; module Ingest has its parts.  The form is saved  *)
(* after that, without the mutex.                                           *)
(***************************************************************************)
EXTENDS Lifecycle, Targets, Sequences

CONSTANTS
  Ports,      \* ports a browser may send
  URIs,       \* URIs a browser may send
  Texts,      \* hosts it may send
  Pieces,     \* see Prefs
  NoForm, NoFile,
  None,       \* no target
  FlagPort,   \* the port of -port
  MaxStarts   \* bound on the starts of the process

VARIABLES
  fixed,      \* -port or -demo was given
  allowLocal, \* -allow-local-hosts was given
  port,       \* the manager's port: a target, FlagPort or None
  todo,       \* what the handler of each request has still to do
  file, saving, opened,   \* see Prefs
  starts,     \* starts of the process so far
  asked,      \* history: the target each request asked for, before any policy,
              \* until it begins to save
  last,       \* history: that of the request which began last to write the file
  disturbed   \* history: that write overlapped another, failed, or was cut short
              \* by the end of the process

-----------------------------------------------------------------------------
(* What a request saves.                                                    *)

\* saveHost and savePort
Form(host, p) == IF IsEmpty(host) \/ p <= 0 THEN NoForm ELSE [host |-> host, port |-> p]

FormOfURI(u) ==
  LET target == Reparsed(NormalizeTCPURI(u))
  IN IF target = Refused THEN NoForm ELSE Form(Hostname(target.host), target.port)

Forms ==
  ({Form(TrimSpace(t), p) : t \in Texts, p \in Ports} \cup {FormOfURI(u) : u \in URIs})
    \ {NoForm}

ASSUME ServiceAssumption ==
  /\ Ports \subseteq Int /\ URIs \subseteq URI /\ Texts \subseteq Text
  /\ Pieces \in [Forms -> Nat \ {0}]
  /\ NoForm \notin [host : Text, port : Int]
  /\ NoFile \notin Seq(Forms)
  /\ {None, FlagPort, Refused, Panic} \cap Target = {}
  /\ None \notin {FlagPort, Refused, Panic} /\ Panic # Refused
  /\ MaxStarts \in Nat \ {0}

Saved == INSTANCE Prefs
prefs == <<file, saving, opened>>

flags == <<fixed, allowLocal>>
history == <<asked, last, disturbed>>
serviceVars == <<vars, flags, port, todo, prefs, starts, history>>

ServiceInit ==
  /\ Init
  /\ fixed \in BOOLEAN /\ allowLocal \in BOOLEAN
  /\ port \in {FlagPort, None} /\ (port = FlagPort => fixed)
  /\ todo = [c \in Clients |-> "nothing"]
  /\ Saved!PrefsInit
  /\ starts = 1
  /\ asked = [c \in Clients |-> None]
  /\ last = None /\ disturbed = FALSE

-----------------------------------------------------------------------------
(* handleConnect.                                                           *)

\* connectURI accepts the target or not; the form is saved whether it does or not.
\* A handler that panics does neither: net/http recovers, and closes the connection.
Decide(c, wanted, target, form) ==
  /\ Up /\ todo[c] = "connect"
  /\ port' = IF target \in {Refused, Panic} \/ fixed THEN port ELSE target
  /\ LET saved == IF target = Panic THEN NoForm ELSE form
     IN /\ saving' = [saving EXCEPT ![c] = saved]
        /\ asked' = [asked EXCEPT ![c] = IF saved = NoForm THEN None ELSE wanted]
  /\ todo' = [todo EXCEPT ![c] = "nothing"]
  /\ UNCHANGED <<vars, flags, file, opened, starts, last, disturbed>>

Connect(c) ==
  \E host \in Texts, p \in Ports :
    /\ ~(IsEmpty(host) /\ p = 0)
    /\ Decide(c, BuildTCPURI(host, p), ConnectBrowser(host, p, allowLocal),
              Form(TrimSpace(host), p))

ConnectURI(c) ==
  \E u \in URIs :
    Decide(c, Reparsed(NormalizeTCPURI(u)), ConnectBrowserURI(u, allowLocal),
           FormOfURI(u))

\* An invalid body, or one without host, port and URI
BadRequest(c) ==
  /\ Up /\ todo[c] = "connect"
  /\ todo' = [todo EXCEPT ![c] = "nothing"]
  /\ UNCHANGED <<vars, flags, port, prefs, starts, history>>

\* handleDisconnect, handleDemo
Stop(c) ==
  /\ Up /\ todo[c] = "stop"
  /\ port' = IF fixed THEN port ELSE None
  /\ todo' = [todo EXCEPT ![c] = "nothing"]
  /\ UNCHANGED <<vars, flags, prefs, starts, history>>

-----------------------------------------------------------------------------
(* Saving, the life of the process, and the next start.                     *)

Keep == UNCHANGED <<vars, flags, port, todo, starts>>

\* A save that begins alone repairs the file.
Truncate(c) ==
  /\ Up /\ Saved!Truncate(c)
  /\ last' = asked[c]
  /\ asked' = [asked EXCEPT ![c] = None]
  /\ disturbed' = \E d \in Clients : opened[d]
  /\ Keep

Write(c) ==
  /\ Up /\ Saved!Write(c)
  /\ UNCHANGED history /\ Keep

SaveFails(c) ==
  /\ Up
  /\ \/ Saved!SaveFails(c) /\ UNCHANGED disturbed
     \/ Saved!WriteFails(c) /\ disturbed' = TRUE
  /\ asked' = [asked EXCEPT ![c] = None]
  /\ UNCHANGED last /\ Keep

\* The connection is accepted, and if it is a request, for one of the handlers
Arrive(c) ==
  /\ Accept(c)
  /\ \E t \in {"nothing", "connect", "stop"} :
       /\ conn'[c] = "stream" => t = "nothing"
       /\ todo' = [todo EXCEPT ![c] = t]
  /\ UNCHANGED <<flags, port, prefs, starts, history>>

\* The handler has nothing left to do.
Respond(c) ==
  /\ Answer(c)
  /\ todo[c] = "nothing" /\ saving[c] = NoForm
  /\ UNCHANGED <<flags, port, todo, prefs, starts, history>>

\* The other steps of main, Run and the listener, and clients that leave
Life == Signal \/ Listen \/ ListenFails \/ Closed \/ Ending \/ Kill
          \/ \E c \in Clients : ClientLeaves(c)

\* What the process had in memory ends with it; unless it ends with success,
\* that cuts off what it was writing.
Live ==
  /\ Life
  /\ IF process' = "up"
     THEN UNCHANGED <<port, todo, saving, opened, asked, disturbed>>
     ELSE /\ port' = None
          /\ todo' = [c \in Clients |-> "nothing"]
          /\ saving' = [c \in Clients |-> NoForm]
          /\ opened' = [c \in Clients |-> FALSE]
          /\ asked' = [c \in Clients |-> None]
          /\ disturbed' = \/ disturbed
                          \/ process' # "exit 0" /\ \E c \in Clients : opened[c]
  /\ UNCHANGED <<flags, file, starts, last>>

\* The next process, with flags of its own; only the file is left.
Restart ==
  /\ ~Up /\ starts < MaxStarts
  /\ starts' = starts + 1
  /\ interrupted' = FALSE
  /\ listener' = "starting" /\ errCh' = "empty"
  /\ conn' = [c \in Clients |-> "idle"]
  /\ run' = "select" /\ result' = "none" /\ process' = "up"
  /\ fixed' \in BOOLEAN /\ allowLocal' \in BOOLEAN
  /\ port' \in {FlagPort, None} /\ (port' = FlagPort => fixed')
  /\ UNCHANGED <<todo, prefs, history>>

Handle(c) ==
  \/ Arrive(c) \/ Connect(c) \/ ConnectURI(c) \/ BadRequest(c) \/ Stop(c)
  \/ Truncate(c) \/ Write(c) \/ SaveFails(c) \/ Respond(c)

ServiceNext == (\E c \in Clients : Handle(c)) \/ Live \/ Restart

ServiceSpec == ServiceInit /\ [][ServiceNext]_serviceVars

\* As in Lifecycle: Run and main go on, and a context with a timeout expires.
ServiceFairSpec ==
  ServiceSpec /\ WF_serviceVars(Live /\ Ending) /\ WF_serviceVars(Live /\ Closed)

-----------------------------------------------------------------------------
(* Properties.                                                              *)

\* Types; only a request has something to do or to save.
ServiceTypeOK ==
  /\ TypeOK /\ Saved!PrefsTypeOK
  /\ fixed \in BOOLEAN /\ allowLocal \in BOOLEAN
  /\ port \in Target \cup {FlagPort, None}
  /\ todo \in [Clients -> {"nothing", "connect", "stop"}]
  /\ asked \in [Clients -> Target \cup {Refused, None}]
  /\ last \in Target \cup {Refused, None}
  /\ disturbed \in BOOLEAN /\ starts \in 1 .. MaxStarts
  /\ \A c \in Clients :
       todo[c] # "nothing" \/ saving[c] # NoForm => conn[c] = "request"

(***************************************************************************)
(* "SaveConnection persists host/port for the next server run"              *)
(* (connection.go:47).  Whenever nobody is writing the file, and so after   *)
(* an exit that reports success, the form that the page will be offered     *)
(* holds the host and the port that the last saving request asked for,      *)
(* however it wrote them: as a host with or without brackets and a port, or *)
(* as a URI.  (Unless that save was disturbed: by another at the same time, *)
(* a write that failed or the end of the process.  The next save that is    *)
(* alone repairs the file.)                                                 *)
(***************************************************************************)
SavedForNextRun ==
  (\A c \in Clients : ~opened[c]) /\ ~disturbed
  => IF last = None THEN file = NoFile
     ELSE LET f == Saved!LoadConnection
          IN f # NoForm /\ BuildTCPURI(f.host, f.port) = last

\* The kinds of the addresses that a dial of the name may reach
Addresses(name) ==
  IF name \in DOMAIN IP THEN {IP[name]}
  ELSE IF name \in Localhost THEN {"loopback"} ELSE Resolver[name]

(***************************************************************************)
(* "user connects from the browser (public hosts only by default)"          *)
(* (README.md:12).  The check looks at a URI that has been taken apart and  *)
(* put together, and what is dialled is that URI, parsed once more.         *)
(* Whatever requests came in whatever form, a target that was taken without *)
(* -allow-local-hosts is dialled as a name that has addresses, as the check *)
(* saw them, and none of them is a loopback, private, link-local or unique  *)
(* local one.  An unspecified address is neither public nor refused.  With  *)
(* a fixed connection no target is taken, whatever was asked or panicked.   *)
(***************************************************************************)
TargetAllowed ==
  port \in Target =>
    /\ ~fixed /\ port.host # Empty
    /\ ~allowLocal =>
         /\ Reparsed(port) \in Target
         /\ Addresses(Reparsed(port).host) # {}
         /\ Addresses(Reparsed(port).host) \subseteq {"public", "unspecified"}
=============================================================================
