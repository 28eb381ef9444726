----------------------------- MODULE ServiceProofs -----------------------------
(***************************************************************************)
(* Proofs about module Service, for every set of clients, names, addresses  *)
(* and requests and any number of starts.                                   *)
(*                                                                          *)
(* The invariant has three parts: what Lifecycle's state looks like when    *)
(* Run returns (LifeInv), which does not depend on the requests; that the   *)
(* target was checked (TargetAllowed with its type); and what a request     *)
(* that is about to save, or has the file open, will leave in it (SaveInv). *)
(***************************************************************************)
EXTENDS Service, SequenceTheorems, TLAPS

USE DEF Up, Quiet

-----------------------------------------------------------------------------
(* The life of the process.                                                 *)

\* Run returned "context canceled" with nobody served, and nobody is accepted
\* after that because the listener is closed.
LifeInv ==
  /\ TypeOK
  /\ process = "exit 0" => result = "context canceled"
  /\ run # "returned" => result = "none"
  /\ run = "shutdown" \/ result = "context canceled"
       => interrupted /\ listener \in {"closed", "failed"}
  /\ result = "context canceled" => Quiet
  /\ listener = "closed" => run # "select"
  /\ errCh = "nil" => listener = "closed"

LEMMA LifeInit == Init => LifeInv
  BY DEF Init, LifeInv, TypeOK

LEMMA LifeStep == LifeInv /\ (Next \/ UNCHANGED vars) => LifeInv'
<1> SUFFICES ASSUME LifeInv, Next \/ UNCHANGED vars
             PROVE  LifeInv'
  OBVIOUS
<1> USE DEF LifeInv, TypeOK
<1>1. CASE Signal
  BY <1>1 DEF Signal
<1>2. CASE Listen
  BY <1>2 DEF Listen
<1>3. CASE ListenFails
  BY <1>3 DEF ListenFails
<1>4. CASE Closed
  BY <1>4 DEF Closed
<1>5. ASSUME NEW c \in Clients, Accept(c) \/ Answer(c) \/ ClientLeaves(c)
      PROVE  LifeInv'
  BY <1>5 DEF Accept, Answer, ClientLeaves
<1>6. CASE Shutdown
  BY <1>6 DEF Shutdown
<1>7. CASE ShutdownDone
  BY <1>7 DEF ShutdownDone, Return
<1>8. CASE ShutdownExpires
  BY <1>8 DEF ShutdownExpires, Return
<1>9. CASE ServerEnded
  BY <1>9 DEF ServerEnded, Return
<1>10. CASE Exit
  BY <1>10 DEF Exit
<1>11. CASE Kill
  BY <1>11 DEF Kill
<1>12. CASE UNCHANGED vars
  BY <1>12 DEF vars
<1> QED
  BY <1>1, <1>2, <1>3, <1>4, <1>5, <1>6, <1>7, <1>8, <1>9, <1>10, <1>11, <1>12
  DEF Next, Serving, Ending

LEMMA LifeRestart == Restart => LifeInv'
  BY DEF Restart, LifeInv, TypeOK

\* What the requests do beside it leaves Lifecycle alone.
LEMMA StepOfLife == [ServiceNext]_serviceVars => Next \/ Restart \/ UNCHANGED vars
  BY DEF ServiceNext, serviceVars, Handle, Arrive, Connect, ConnectURI, Decide, BadRequest,
         Stop, Truncate, Write, SaveFails, Keep, Respond, Live, Life, Next, Serving

LEMMA LifeAlways == ServiceSpec => []LifeInv
<1>1. ServiceInit => LifeInv
  BY LifeInit DEF ServiceInit
<1>2. LifeInv /\ [ServiceNext]_serviceVars => LifeInv'
  BY LifeStep, LifeRestart, StepOfLife
<1> QED
  BY <1>1, <1>2, PTL DEF ServiceSpec

(***************************************************************************)
(* In every run of the process, success is reported only after a signal,    *)
(* with every accepted request answered (main, Server.Run).                 *)
(***************************************************************************)
THEOREM SuccessIsClean == ServiceSpec => []SuccessCutsNobody
<1>1. LifeInv => SuccessCutsNobody
  BY DEF LifeInv, SuccessCutsNobody
<1> QED
  BY <1>1, LifeAlways, PTL

-----------------------------------------------------------------------------
(* What a browser may connect to.                                           *)

\* A target that connvalidate may return.
Checked(target, local) ==
  /\ target \in Target
  /\ target.host # Empty
  /\ ~local =>
       /\ Reparsed(target) \in Target
       /\ Addresses(Reparsed(target).host) # {}
       /\ Addresses(Reparsed(target).host) \subseteq {"public", "unspecified"}

LEMMA PortsAreIntegers == PortNumber \subseteq Int
  BY DEF PortNumber

LEMMA BuildTyped ==
  ASSUME NEW t \in Text, NEW p, BuildTCPURI(t, p) # Refused
  PROVE  /\ BuildTCPURI(t, p) = [host |-> t.name, port |-> p]
         /\ BuildTCPURI(t, p) \in Target
<1>1. p \in PortNumber /\ BuildTCPURI(t, p) = [host |-> t.name, port |-> p]
  BY DEF BuildTCPURI
<1>2. t.name \in Names
  BY DEF Text
<1>3. [host |-> t.name, port |-> p] \in Target
  BY <1>1, <1>2 DEF Target
<1> QED
  BY <1>1, <1>3

LEMMA HostnameTyped == \A name \in Names : Hostname(name) \in Text /\ Hostname(name).name = name
  BY DEF Hostname, Text

LEMMA NormalizeTyped ==
  ASSUME NEW u \in URI, NormalizeTCPURI(u) # Refused
  PROVE  /\ NormalizeTCPURI(u) \in Target
         /\ NormalizeTCPURI(u).host = Parsed[u.host.name]
         /\ NormalizeTCPURI(u).host # Empty
<1> DEFINE name == Parsed[u.host.name]
<1>1. u.host \in Text /\ u.host.name \in Names
  BY DEF URI, Text
<1>2. /\ NormalizeTCPURI(u) = BuildTCPURI(Hostname(name), u.port)
      /\ name \notin {Malformed, Empty}
  BY DEF NormalizeTCPURI
<1>3. name \in Names
  BY <1>1, <1>2, TargetsAssumption
<1>4. Hostname(name) \in Text /\ Hostname(name).name = name
  BY <1>3, HostnameTyped
<1>5. /\ NormalizeTCPURI(u) = [host |-> name, port |-> u.port]
      /\ NormalizeTCPURI(u) \in Target
  BY <1>2, <1>4, BuildTyped
<1> QED
  BY <1>2, <1>5

\* A target that parses again is one that can be dialled, by a name of its own.
LEMMA ReparsedTyped ==
  ASSUME NEW target \in Target \cup {Refused}, Reparsed(target) # Refused
  PROVE  /\ Reparsed(target) \in Target
         /\ target \in Target
         /\ Reparsed(target).host = Parsed[target.host]
<1>1. /\ target \in Target /\ Parsed[target.host] # Malformed
      /\ Reparsed(target) = [target EXCEPT !.host = Parsed[target.host]]
  BY DEF Reparsed
<1>2. target.host \in Names
  BY <1>1 DEF Target
<1>3. Parsed[target.host] \in Names
  BY <1>1, <1>2, TargetsAssumption
<1> QED
  BY <1>1, <1>3 DEF Target

\* The check looks at every address of a name that it lets through.
LEMMA PublicOnly ==
  ASSUME NEW name \in Names, ~Unresolved(name), ~HostIsNonPublic(name)
  PROVE  /\ Addresses(name) # {}
         /\ Addresses(name) \subseteq {"public", "unspecified"}
<1>1. CASE name \in DOMAIN IP
  <2>1. Addresses(name) = {IP[name]} /\ IP[name] \in Kind \ NonPublic
    BY <1>1, TargetsAssumption DEF HostIsNonPublic, isNonPublicIP, Addresses
  <2> QED
    BY <2>1 DEF Kind
<1>2. CASE name \notin DOMAIN IP
  <2>1. name \notin Localhost /\ \A kind \in Resolver[name] : kind \notin NonPublic
    BY <1>2 DEF HostIsNonPublic, isNonPublicIP
  <2>2. Resolver[name] \subseteq Kind /\ Resolver[name] # {}
    BY <1>2, <2>1, TargetsAssumption DEF Unresolved
  <2>3. Addresses(name) = Resolver[name]
    BY <1>2, <2>1 DEF Addresses
  <2> QED
    BY <2>1, <2>2, <2>3 DEF Kind
<1> QED
  BY <1>1, <1>2

LEMMA ValidateChecks ==
  ASSUME NEW u \in URI, NEW local, ValidateBrowserTCP(u, local) \notin {Refused, Panic}
  PROVE  Checked(ValidateBrowserTCP(u, local), local)
<1> DEFINE norm == NormalizeTCPURI(u)
<1>1. norm # Refused /\ ValidateBrowserTCP(u, local) = norm
  BY DEF ValidateBrowserTCP
<1>2. norm \in Target /\ norm.host # Empty
  BY <1>1, NormalizeTyped
<1>3. ~local => /\ Reparsed(norm) # Refused
                /\ ~Unresolved(Reparsed(norm).host) /\ ~HostIsNonPublic(Reparsed(norm).host)
  BY <1>1 DEF ValidateBrowserTCP
<1> HIDE DEF norm
<1>4. ~local => Reparsed(norm) \in Target /\ Reparsed(norm).host \in Names
  BY <1>2, <1>3, ReparsedTyped DEF Target
<1> QED
  BY <1>1, <1>2, <1>3, <1>4, PublicOnly DEF Checked

LEMMA BrowserTarget ==
  ASSUME NEW t \in Text, NEW p \in Int, NEW local, ConnectBrowser(t, p, local) \notin {Refused, Panic}
  PROVE  Checked(ConnectBrowser(t, p, local), local)
<1> DEFINE target == BuildTCPURI(t, p)
<1>1. target # Refused /\ ConnectBrowser(t, p, local) = ValidateBrowserTCP(TCP(target), local)
  BY DEF ConnectBrowser
<1>2. target = [host |-> t.name, port |-> p] /\ target \in Target
  BY <1>1, BuildTyped
<1>3. TCP(target) \in URI
  BY <1>2, HostnameTyped DEF TCP, URI, Target
<1> HIDE DEF target
<1> QED
  BY <1>1, <1>3, ValidateChecks

\* The invariant: the target's type with TargetAllowed.
PortInv == port \in Target \cup {FlagPort, None} /\ TargetAllowed

LEMMA DecidedChecked ==
  ASSUME PortInv, NEW c \in Clients, NEW wanted, NEW target, NEW form,
         target \notin {Refused, Panic} => Checked(target, allowLocal),
         Decide(c, wanted, target, form)
  PROVE  PortInv'
<1>1. fixed' = fixed /\ allowLocal' = allowLocal
  BY DEF Decide, flags
<1>2. CASE target \in {Refused, Panic} \/ fixed
  BY <1>1, <1>2 DEF Decide, PortInv, TargetAllowed
<1>3. CASE target \notin {Refused, Panic} /\ ~fixed
  <2>1. port' = target /\ Checked(target, allowLocal)
    BY <1>3 DEF Decide
  <2> QED
    BY <1>1, <1>3, <2>1 DEF PortInv, TargetAllowed, Checked
<1> QED
  BY <1>2, <1>3

LEMMA PortStep == PortInv /\ [ServiceNext]_serviceVars => PortInv'
<1> SUFFICES ASSUME PortInv, [ServiceNext]_serviceVars
             PROVE  PortInv'
  OBVIOUS
<1>1. ASSUME NEW c \in Clients, Connect(c)
      PROVE  PortInv'
  <2>1. PICK host \in Texts, p \in Ports :
          Decide(c, BuildTCPURI(host, p), ConnectBrowser(host, p, allowLocal),
                 Form(TrimSpace(host), p))
    BY <1>1 DEF Connect
  <2>2. host \in Text /\ p \in Int
    BY ServiceAssumption
  <2> QED
    BY <2>1, <2>2, BrowserTarget, DecidedChecked
<1>2. ASSUME NEW c \in Clients, ConnectURI(c)
      PROVE  PortInv'
  <2>1. PICK u \in URIs :
          Decide(c, Reparsed(NormalizeTCPURI(u)), ConnectBrowserURI(u, allowLocal),
                 FormOfURI(u))
    BY <1>2 DEF ConnectURI
  <2>2. u \in URI
    BY ServiceAssumption
  <2>3. ConnectBrowserURI(u, allowLocal) \notin {Refused, Panic}
          => Checked(ConnectBrowserURI(u, allowLocal), allowLocal)
    BY <2>2, ValidateChecks DEF ConnectBrowserURI
  <2> QED
    BY <2>1, <2>3, DecidedChecked
<1>3. ASSUME NEW c \in Clients, Stop(c)
      PROVE  PortInv'
  BY <1>3, ServiceAssumption DEF Stop, flags, PortInv, TargetAllowed
<1>4. CASE Live \/ Restart
  <2>1. \/ port' = port /\ UNCHANGED flags
        \/ port' \in {FlagPort, None}
    BY <1>4 DEF Live, Restart
  <2> QED
    BY <2>1, ServiceAssumption DEF flags, PortInv, TargetAllowed
<1>5. ASSUME NEW c \in Clients,
             \/ Arrive(c) \/ BadRequest(c)
             \/ Truncate(c) \/ Write(c) \/ SaveFails(c) \/ Respond(c)
      PROVE  PortInv'
  <2>1. port' = port /\ UNCHANGED flags
    BY <1>5 DEF Arrive, BadRequest, Truncate, Write, SaveFails, Keep, Respond
  <2> QED
    BY <2>1 DEF flags, PortInv, TargetAllowed
<1>6. CASE UNCHANGED serviceVars
  BY <1>6 DEF serviceVars, flags, PortInv, TargetAllowed
<1> QED
  BY <1>1, <1>2, <1>3, <1>4, <1>5, <1>6 DEF ServiceNext, Handle

(***************************************************************************)
(* Whatever the requests say, what is dialled for a target taken from a     *)
(* browser without -allow-local-hosts is a name that has addresses, none of *)
(* them loopback, private, link-local or unique local, as the check found   *)
(* them; with a fixed connection no target is taken (Manager.connectURI,    *)
(* ValidateBrowserTCP).                                                     *)
(***************************************************************************)
THEOREM OnlyAllowedTargets == ServiceSpec => []TargetAllowed
<1>1. ServiceInit => PortInv
  BY ServiceAssumption DEF ServiceInit, PortInv, TargetAllowed
<1>2. PortInv => TargetAllowed
  BY DEF PortInv
<1> QED
  BY <1>1, <1>2, PortStep, PTL DEF ServiceSpec

-----------------------------------------------------------------------------
(* What is in the file.                                                     *)

\* What a URI asks for is a target or an error.
LEMMA WantedTyped ==
  \A u \in URI : Reparsed(NormalizeTCPURI(u)) \in Target \cup {Refused}
  BY NormalizeTyped, ReparsedTyped

LEMMA FormsTyped ==
  /\ Forms \subseteq [host : Text, port : Int]
  /\ NoForm \notin Forms
  /\ Pieces \in [Forms -> Nat \ {0}]
<1>1. NoForm \notin Forms /\ Pieces \in [Forms -> Nat \ {0}]
  BY ServiceAssumption DEF Forms
<1>2. \A t \in Text, p \in Int : Form(t, p) \in [host : Text, port : Int] \cup {NoForm}
  BY DEF Form
<1>3. ASSUME NEW t \in Texts, NEW p \in Ports
      PROVE  Form(TrimSpace(t), p) \in [host : Text, port : Int] \cup {NoForm}
  <2>1. TrimSpace(t) \in Text /\ p \in Int
    BY ServiceAssumption DEF TrimSpace, Text
  <2> QED
    BY <1>2, <2>1
<1>4. ASSUME NEW u \in URIs
      PROVE  FormOfURI(u) \in [host : Text, port : Int] \cup {NoForm}
  <2> DEFINE target == Reparsed(NormalizeTCPURI(u))
  <2>1. CASE target = Refused
    BY <2>1 DEF FormOfURI
  <2>2. CASE target # Refused
    <3>1. Hostname(target.host) \in Text /\ target.port \in Int
      <4>1. target \in Target
        BY <2>2, WantedTyped, ServiceAssumption
      <4>2. \A x \in Target : x.host \in Names /\ x.port \in Int
        BY PortsAreIntegers DEF Target
      <4> QED
        BY <4>1, <4>2, HostnameTyped
    <3>2. FormOfURI(u) = Form(Hostname(target.host), target.port)
      BY <2>2 DEF FormOfURI
    <3> QED
      BY <1>2, <3>1, <3>2
  <2> QED
    BY <2>1, <2>2
<1> QED
  BY <1>1, <1>3, <1>4 DEF Forms

\* The target that the page will dial when it is offered a form
Leads(form) == BuildTCPURI(form.host, form.port)

\* The form that a request saves leads to what it asked for.
LEMMA FormLeads ==
  ASSUME NEW t \in Text, NEW p \in Int, Form(TrimSpace(t), p) # NoForm
  PROVE  Leads(Form(TrimSpace(t), p)) = BuildTCPURI(t, p)
<1>1. TrimSpace(TrimSpace(t)) = TrimSpace(t) /\ TrimSpace(t).name = t.name
  BY DEF TrimSpace, Text
<1>2. Form(TrimSpace(t), p) = [host |-> TrimSpace(t), port |-> p]
  BY DEF Form
<1>3. Leads([host |-> TrimSpace(t), port |-> p]) = BuildTCPURI(TrimSpace(t), p)
  BY DEF Leads
<1>4. BuildTCPURI(TrimSpace(t), p) = BuildTCPURI(t, p)
  BY <1>1 DEF BuildTCPURI
<1> QED
  BY <1>2, <1>3, <1>4

LEMMA FormOfURILeads ==
  ASSUME NEW u \in URI, FormOfURI(u) # NoForm
  PROVE  Leads(FormOfURI(u)) = Reparsed(NormalizeTCPURI(u))
<1> DEFINE target == Reparsed(NormalizeTCPURI(u))
<1>1. target # Refused /\ FormOfURI(u) = Form(Hostname(target.host), target.port)
  BY DEF FormOfURI
<1>2. target \in Target
  BY <1>1, WantedTyped
<1>3. FormOfURI(u) = [host |-> Hostname(target.host), port |-> target.port]
  BY <1>1 DEF Form
<1>4. target.host # Empty
  BY <1>1 DEF Form, IsEmpty, Hostname
<1>5. Leads(FormOfURI(u)) = BuildTCPURI(Hostname(target.host), target.port)
  BY <1>3 DEF Leads
<1>6. BuildTCPURI(Hostname(target.host), target.port)
        = [host |-> target.host, port |-> target.port]
  BY <1>2, <1>4 DEF BuildTCPURI, Hostname, TrimSpace, IsEmpty, Target
<1>7. \A x \in Target : [host |-> x.host, port |-> x.port] = x
  BY DEF Target
<1> QED
  BY <1>2, <1>5, <1>6, <1>7

LEMMA LeadsSomewhere == \A f \in Forms : Leads(f) # None
<1> SUFFICES ASSUME NEW f \in Forms
             PROVE  Leads(f) # None
  OBVIOUS
<1>1. f.host \in Text
  BY FormsTyped
<1>2. Leads(f) = Refused \/ Leads(f) \in Target
  BY <1>1, BuildTyped DEF Leads
<1> QED
  BY <1>2, ServiceAssumption

\* A text that was written whole over an empty file is read as its form.
LEMMA WrittenIsRead ==
  ASSUME NEW f \in Forms, file' = Saved!Overwrite(<<>>, Saved!Marshal(f))
  PROVE  Saved!LoadConnection' = f
<1>1. \A g \in Forms : /\ Saved!Marshal(g) \in Seq(Forms)
                       /\ Len(Saved!Marshal(g)) = Pieces[g]
                       /\ Saved!Marshal(g)[1] = g
  BY FormsTyped, SeqDef DEF Saved!Marshal
<1>2. file' = Saved!Marshal(f)
  BY <1>1 DEF Saved!Overwrite
<1>3. \A g \in Forms : file' = Saved!Marshal(g) => g = f
  BY <1>1, <1>2
<1> QED
  BY <1>2, <1>3 DEF Saved!LoadConnection

\* With nobody writing the file, it holds what the last request saved.
SavedLast ==
  IF last = None THEN file = NoFile
  ELSE Saved!LoadConnection \in Forms /\ Leads(Saved!LoadConnection) = last

\* A request has one thing to do at a time, and has the file open to write what
\* it asked for; one that is alone with it has truncated it.
SaveInv ==
  /\ todo \in [Clients -> {"nothing", "connect", "stop"}]
  /\ saving \in [Clients -> Forms \cup {NoForm}]
  /\ opened \in [Clients -> BOOLEAN]
  /\ DOMAIN asked = Clients
  /\ \A c \in Clients :
       /\ opened[c] => saving[c] # NoForm
       /\ todo[c] # "nothing" => saving[c] = NoForm
       /\ todo[c] # "nothing" \/ saving[c] # NoForm => Up /\ conn[c] = "request"
       /\ saving[c] # NoForm /\ ~opened[c] => asked[c] = Leads(saving[c])
       /\ opened[c] /\ ~disturbed =>
            /\ file = <<>> /\ last = Leads(saving[c])
            /\ \A d \in Clients : opened[d] => d = c
  /\ (\A c \in Clients : ~opened[c]) /\ ~disturbed => SavedLast

LEMMA SaveInit == ServiceInit => SaveInv
<1> SUFFICES ASSUME ServiceInit
             PROVE  SaveInv
  OBVIOUS
<1>1. last = None /\ file = NoFile
  BY DEF ServiceInit, Saved!PrefsInit
<1> QED
  BY <1>1 DEF ServiceInit, Saved!PrefsInit, SaveInv, SavedLast

LEMMA DecidedSaves ==
  ASSUME LifeInv, SaveInv, NEW c \in Clients, NEW wanted, NEW target, NEW form,
         form \in Forms \cup {NoForm}, form # NoForm => wanted = Leads(form),
         Decide(c, wanted, target, form)
  PROVE  SaveInv'
<1> USE DEF SaveInv
<1>1. saving[c] = NoForm /\ conn[c] = "request" /\ Up
  BY DEF Decide
<1>2. /\ UNCHANGED <<file, opened, last, disturbed, conn, process>>
      /\ todo' = [todo EXCEPT ![c] = "nothing"]
  BY DEF Decide, vars
<1>5. PICK saved \in Forms \cup {NoForm} :
        /\ saved # NoForm => wanted = Leads(saved)
        /\ saving' = [saving EXCEPT ![c] = saved]
        /\ asked' = [asked EXCEPT ![c] = IF saved = NoForm THEN None ELSE wanted]
  BY DEF Decide
<1>3. (\A d \in Clients : ~opened'[d]) /\ ~disturbed' => SavedLast'
  BY <1>2 DEF SavedLast, Saved!LoadConnection
<1>4. Forms' = Forms
  OBVIOUS
<1> HIDE DEF SavedLast
<1> QED
  BY <1>1, <1>2, <1>5, <1>3

\* A request that has not the file open, and leaves it and the form alone
LEMMA IdleSaves ==
  ASSUME SaveInv, UNCHANGED <<prefs, last, disturbed, asked>>,
         \A c \in Clients : saving[c] # NoForm \/ todo'[c] # "nothing"
                            => process' = "up" /\ conn'[c] = "request",
         todo' \in [Clients -> {"nothing", "connect", "stop"}],
         \A c \in Clients : todo'[c] # "nothing" => saving[c] = NoForm
  PROVE  SaveInv'
<1>1. (\A d \in Clients : ~opened'[d]) /\ ~disturbed' => SavedLast'
  BY DEF SaveInv, SavedLast, Saved!LoadConnection, prefs
<1> QED
  BY <1>1 DEF SaveInv, prefs

LEMMA SaveStep == LifeInv /\ LifeInv' /\ SaveInv /\ [ServiceNext]_serviceVars => SaveInv'
<1> SUFFICES ASSUME LifeInv, LifeInv', SaveInv, [ServiceNext]_serviceVars
             PROVE  SaveInv'
  OBVIOUS
<1>1. ASSUME NEW c \in Clients, Connect(c)
      PROVE  SaveInv'
  <2>1. PICK host \in Texts, p \in Ports :
          Decide(c, BuildTCPURI(host, p), ConnectBrowser(host, p, allowLocal),
                 Form(TrimSpace(host), p))
    BY <1>1 DEF Connect
  <2>2. host \in Text /\ p \in Int
    BY ServiceAssumption
  <2>3. Form(TrimSpace(host), p) \in Forms \cup {NoForm}
    BY DEF Forms
  <2>4. Form(TrimSpace(host), p) # NoForm
          => BuildTCPURI(host, p) = Leads(Form(TrimSpace(host), p))
    BY <2>2, FormLeads
  <2> QED
    BY <2>1, <2>3, <2>4, DecidedSaves
<1>2. ASSUME NEW c \in Clients, ConnectURI(c)
      PROVE  SaveInv'
  <2>1. PICK u \in URIs :
          Decide(c, Reparsed(NormalizeTCPURI(u)), ConnectBrowserURI(u, allowLocal),
                 FormOfURI(u))
    BY <1>2 DEF ConnectURI
  <2>2. u \in URI /\ FormOfURI(u) \in Forms \cup {NoForm}
    BY ServiceAssumption DEF Forms
  <2>3. FormOfURI(u) # NoForm => Reparsed(NormalizeTCPURI(u)) = Leads(FormOfURI(u))
    BY <2>2, FormOfURILeads
  <2> QED
    BY <2>1, <2>2, <2>3, DecidedSaves
<1>3. ASSUME NEW c \in Clients, BadRequest(c) \/ Stop(c)
      PROVE  SaveInv'
  <2>1. UNCHANGED <<vars, prefs, history>> /\ todo' = [todo EXCEPT ![c] = "nothing"]
    BY <1>3 DEF BadRequest, Stop
  <2> QED
    BY <2>1, IdleSaves DEF SaveInv, vars, history
<1>4. ASSUME NEW c \in Clients, Arrive(c)
      PROVE  SaveInv'
  <2>1. /\ UNCHANGED <<prefs, history, process>> /\ Up /\ conn[c] = "idle"
        /\ \E kind \in {"request", "stream"} : conn' = [conn EXCEPT ![c] = kind]
        /\ \E t \in {"nothing", "connect", "stop"} :
             /\ conn'[c] = "stream" => t = "nothing"
             /\ todo' = [todo EXCEPT ![c] = t]
    BY <1>4 DEF Arrive, Accept
  <2>2. conn \in [Clients -> {"idle", "request", "stream"}]
    BY DEF LifeInv, TypeOK
  <2> QED
    BY <2>1, <2>2, IdleSaves DEF SaveInv, history
<1>5. ASSUME NEW c \in Clients, Respond(c)
      PROVE  SaveInv'
  <2>1. /\ UNCHANGED <<prefs, history, todo, process>>
        /\ todo[c] = "nothing" /\ saving[c] = NoForm
        /\ conn' = [conn EXCEPT ![c] = "idle"]
    BY <1>5 DEF Respond, Answer
  <2>2. conn \in [Clients -> {"idle", "request", "stream"}]
    BY DEF LifeInv, TypeOK
  <2> QED
    BY <2>1, <2>2, IdleSaves DEF SaveInv, history
<1>6. CASE UNCHANGED serviceVars
  BY <1>6, IdleSaves DEF SaveInv, serviceVars, vars, history
<1>7. CASE Restart
  BY <1>7, IdleSaves DEF SaveInv, Restart, history
<1>8. ASSUME NEW c \in Clients, Truncate(c)
      PROVE  SaveInv'
  <2>1. /\ saving[c] # NoForm /\ ~opened[c] /\ UNCHANGED <<saving, todo, conn, process>>
        /\ file' = <<>> /\ opened' = [opened EXCEPT ![c] = TRUE]
        /\ last' = asked[c] /\ asked' = [asked EXCEPT ![c] = None]
        /\ disturbed' = \E d \in Clients : opened[d]
    BY <1>8 DEF Truncate, Saved!Truncate, Saved!Waiting, Saved!Truncated, Keep, vars
  <2>2. opened'[c]
    BY <2>1 DEF SaveInv
  <2> QED
    BY <2>1, <2>2 DEF SaveInv
<1>9. ASSUME NEW c \in Clients, Write(c)
      PROVE  SaveInv'
  <2>1. /\ opened[c] /\ UNCHANGED <<todo, conn, process, asked, last, disturbed>>
        /\ file' = Saved!Overwrite(file, Saved!Marshal(saving[c]))
        /\ saving' = [saving EXCEPT ![c] = NoForm]
        /\ opened' = [opened EXCEPT ![c] = FALSE]
    BY <1>9 DEF Write, Saved!Write, Saved!Close, Keep, vars, history
  <2>2. saving[c] \in Forms
    BY <2>1 DEF SaveInv
  <2>3. ASSUME ~disturbed'
        PROVE  SavedLast'
    <3>1. file = <<>> /\ last = Leads(saving[c])
      BY <2>1, <2>3 DEF SaveInv
    <3>2. Saved!LoadConnection' = saving[c]
      BY <2>1, <2>2, <3>1, WrittenIsRead
    <3> QED
      BY <2>1, <2>2, <3>1, <3>2, LeadsSomewhere DEF SavedLast
  <2> QED
    BY <2>1, <2>3 DEF SaveInv
<1>10. ASSUME NEW c \in Clients, SaveFails(c)
       PROVE  SaveInv'
  <2>1. /\ UNCHANGED <<file, todo, conn, process, last>>
        /\ saving' = [saving EXCEPT ![c] = NoForm]
        /\ asked' = [asked EXCEPT ![c] = None]
        /\ \/ opened' = opened /\ ~opened[c] /\ disturbed' = disturbed
           \/ opened' = [opened EXCEPT ![c] = FALSE] /\ disturbed' = TRUE
    BY <1>10 DEF SaveFails, Saved!SaveFails, Saved!WriteFails, Saved!Waiting, Saved!Close,
                 Keep, vars
  <2>2. (\A d \in Clients : ~opened'[d]) /\ ~disturbed' => SavedLast'
    BY <2>1 DEF SaveInv, SavedLast, Saved!LoadConnection
  <2>3. /\ saving' \in [Clients -> Forms \cup {NoForm}]
        /\ opened' \in [Clients -> BOOLEAN]
        /\ DOMAIN asked' = Clients
    BY <2>1 DEF SaveInv
  <2>4. ~opened'[c] /\ saving'[c] = NoForm
    BY <2>1 DEF SaveInv
  <2>5. \A d \in Clients \ {c} :
          saving'[d] = saving[d] /\ opened'[d] = opened[d] /\ asked'[d] = asked[d]
    BY <2>1 DEF SaveInv
  <2>6. ~disturbed' => opened' = opened /\ ~disturbed
    BY <2>1
  <2>7. ASSUME NEW d \in Clients
        PROVE  /\ opened'[d] => saving'[d] # NoForm
               /\ todo'[d] # "nothing" => saving'[d] = NoForm
               /\ todo'[d] # "nothing" \/ saving'[d] # NoForm => Up' /\ conn'[d] = "request"
               /\ saving'[d] # NoForm /\ ~opened'[d] => asked'[d] = Leads(saving'[d])
               /\ opened'[d] /\ ~disturbed' =>
                    /\ file' = <<>> /\ last' = Leads(saving'[d])
                    /\ \A e \in Clients : opened'[e] => e = d
    <3>1. CASE d = c
      BY <2>1, <2>4, <3>1 DEF SaveInv
    <3>2. CASE d # c
      BY <2>1, <2>5, <2>6, <3>2 DEF SaveInv
    <3> QED
      BY <3>1, <3>2
  <2>8. todo' \in [Clients -> {"nothing", "connect", "stop"}]
    BY <2>1 DEF SaveInv
  <2> HIDE DEF SavedLast, Leads
  <2> QED
    BY <2>2, <2>3, <2>7, <2>8 DEF SaveInv
<1>11. CASE Live
  <2>1. UNCHANGED <<file, last>>
    BY <1>11 DEF Live
  <2>2. CASE process' = "up"
    <3>1. UNCHANGED <<prefs, last, disturbed, asked, todo>>
      BY <1>11, <2>1, <2>2 DEF Live, prefs
    <3>2. \A c \in Clients : conn[c] = "request" => conn'[c] = "request"
      BY <1>11 DEF Live, Life, Signal, Listen, ListenFails, Closed, Ending, Kill, ClientLeaves,
                   Shutdown, ShutdownDone, ShutdownExpires, ServerEnded, Exit, Return,
                   LifeInv, TypeOK
    <3> QED
      BY <2>2, <3>1, <3>2, IdleSaves DEF SaveInv
  <2>3. CASE process' # "up"
    <3>1. /\ todo' = [c \in Clients |-> "nothing"]
          /\ saving' = [c \in Clients |-> NoForm]
          /\ opened' = [c \in Clients |-> FALSE]
          /\ asked' = [c \in Clients |-> None]
          /\ disturbed' = \/ disturbed
                          \/ process' # "exit 0" /\ \E c \in Clients : opened[c]
      BY <1>11, <2>3 DEF Live
    <3>2. process' = "exit 0" => \A c \in Clients : ~opened[c]
      <4>1. process' = "exit 0" => Quiet' /\ conn' = conn
        BY <1>11 DEF LifeInv, Live, Life, Signal, Listen, ListenFails, Closed, Ending, Kill,
                     ClientLeaves, Shutdown, ShutdownDone, ShutdownExpires, ServerEnded, Exit,
                     Return
      <4> QED
        BY <4>1 DEF SaveInv
    <3>3. ~disturbed' => SavedLast'
      BY <2>1, <3>1, <3>2 DEF SaveInv, SavedLast, Saved!LoadConnection
    <3> QED
      BY <3>1, <3>3 DEF SaveInv
  <2> QED
    BY <2>2, <2>3
<1> QED
  BY <1>1, <1>2, <1>3, <1>4, <1>5, <1>6, <1>7, <1>8, <1>9, <1>10, <1>11
  DEF ServiceNext, Handle

(***************************************************************************)
(* Whenever nobody writes the file, the form it holds leads to the target   *)
(* that the last saving request asked for, unless that save was disturbed   *)
(* (handleConnect, SaveConnection, LoadConnection).                         *)
(***************************************************************************)
THEOREM FormSurvives == ServiceSpec => []SavedForNextRun
<1>1. SaveInv => SavedForNextRun
  <2>1. SavedLast => IF last = None THEN file = NoFile
                     ELSE LET f == Saved!LoadConnection
                          IN f # NoForm /\ BuildTCPURI(f.host, f.port) = last
    BY FormsTyped DEF SavedLast, Leads
  <2> HIDE DEF SavedLast
  <2> QED
    BY <2>1 DEF SaveInv, SavedForNextRun
<1> QED
  BY <1>1, SaveInit, SaveStep, LifeAlways, PTL DEF ServiceSpec
-----------------------------------------------------------------------------
(* Types.                                                                   *)

\* What the parts above do not say of the types.
RestInv ==
  /\ fixed \in BOOLEAN /\ allowLocal \in BOOLEAN
  /\ file \in Seq(Forms) \cup {NoFile}
  /\ \A c \in Clients : opened[c] => file # NoFile
  /\ asked \in [Clients -> Target \cup {Refused, None}]
  /\ last \in Target \cup {Refused, None}
  /\ disturbed \in BOOLEAN
  /\ starts \in 1 .. MaxStarts

\* A file that was overwritten holds pieces of forms.
LEMMA OverwriteTyped ==
  ASSUME NEW old \in Seq(Forms), NEW new \in Seq(Forms)
  PROVE  Saved!Overwrite(old, new) \in Seq(Forms)
<1>1. SubSeq(old, Len(new) + 1, Len(old)) \in Seq(Forms)
  OBVIOUS
<1> QED
  BY <1>1 DEF Saved!Overwrite

LEMMA MarshalTyped == \A f \in Forms : Saved!Marshal(f) \in Seq(Forms)
  BY FormsTyped, SeqDef DEF Saved!Marshal

LEMMA RestInit == ServiceInit => RestInv
<1> SUFFICES ASSUME ServiceInit
             PROVE  RestInv
  OBVIOUS
<1>1. starts \in 1 .. MaxStarts
  BY ServiceAssumption DEF ServiceInit
<1> QED
  BY <1>1 DEF ServiceInit, RestInv, Saved!PrefsInit

\* What a request asked for is a target or an error.
LEMMA DecidedTyped ==
  ASSUME RestInv, NEW c \in Clients, NEW wanted \in Target \cup {Refused}, NEW target, NEW form,
         Decide(c, wanted, target, form)
  PROVE  RestInv'
<1>1. /\ UNCHANGED <<flags, file, opened, starts, last, disturbed>>
      /\ \E a \in Target \cup {Refused, None} : asked' = [asked EXCEPT ![c] = a]
  BY DEF Decide
<1>2. asked' \in [Clients -> Target \cup {Refused, None}]
  BY <1>1 DEF RestInv
<1> QED
  BY <1>1, <1>2 DEF RestInv, flags

LEMMA RestStep ==
  ASSUME SaveInv, RestInv, [ServiceNext]_serviceVars
  PROVE  RestInv'
<1>1. ASSUME NEW c \in Clients, Connect(c)
      PROVE  RestInv'
  <2>1. PICK host \in Texts, p \in Ports :
          Decide(c, BuildTCPURI(host, p), ConnectBrowser(host, p, allowLocal),
                 Form(TrimSpace(host), p))
    BY <1>1 DEF Connect
  <2>2. host \in Text
    BY ServiceAssumption
  <2>3. BuildTCPURI(host, p) \in Target \cup {Refused}
    BY <2>2, BuildTyped
  <2> QED
    BY <2>1, <2>3, DecidedTyped
<1>2. ASSUME NEW c \in Clients, ConnectURI(c)
      PROVE  RestInv'
  <2>1. PICK u \in URIs :
          Decide(c, Reparsed(NormalizeTCPURI(u)), ConnectBrowserURI(u, allowLocal),
                 FormOfURI(u))
    BY <1>2 DEF ConnectURI
  <2>2. Reparsed(NormalizeTCPURI(u)) \in Target \cup {Refused}
    BY ServiceAssumption, WantedTyped
  <2> QED
    BY <2>1, <2>2, DecidedTyped
<1>3. ASSUME NEW c \in Clients, Arrive(c) \/ BadRequest(c) \/ Stop(c) \/ Respond(c)
      PROVE  RestInv'
  <2>1. UNCHANGED <<flags, prefs, starts, history>>
    BY <1>3 DEF Arrive, BadRequest, Stop, Respond
  <2> QED
    BY <2>1 DEF RestInv, flags, prefs, history
<1>4. ASSUME NEW c \in Clients, Truncate(c)
      PROVE  RestInv'
  <2>1. /\ UNCHANGED <<flags, starts>>
        /\ file' = <<>> /\ opened' = [opened EXCEPT ![c] = TRUE]
        /\ last' = asked[c] /\ asked' = [asked EXCEPT ![c] = None]
        /\ disturbed' \in BOOLEAN
    BY <1>4 DEF Truncate, Saved!Truncate, Saved!Truncated, Keep
  <2>2. <<>> \in Seq(Forms) /\ <<>> # NoFile
    <3>1. <<>> \in Seq(Forms)
      OBVIOUS
    <3>2. NoFile \notin Seq(Forms)
      BY ServiceAssumption
    <3> QED
      BY <3>1, <3>2, Zenon
  <2>3. /\ last' \in Target \cup {Refused, None}
        /\ asked' \in [Clients -> Target \cup {Refused, None}]
    BY <2>1 DEF RestInv
  <2> QED
    BY <2>1, <2>2, <2>3 DEF RestInv, flags
<1>5. ASSUME NEW c \in Clients, Write(c)
      PROVE  RestInv'
  <2>1. /\ opened[c] /\ UNCHANGED <<flags, starts, history>>
        /\ file' = Saved!Overwrite(file, Saved!Marshal(saving[c]))
    BY <1>5 DEF Write, Saved!Write, Keep
  <2>2. saving[c] \in Forms /\ file \in Seq(Forms)
    BY <2>1 DEF SaveInv, RestInv
  <2>3. file' \in Seq(Forms)
    BY <2>1, <2>2, MarshalTyped, OverwriteTyped
  <2>4. file' # NoFile
    BY <2>3, ServiceAssumption
  <2> QED
    BY <2>1, <2>3, <2>4 DEF RestInv, flags, history
<1>6. ASSUME NEW c \in Clients, SaveFails(c)
      PROVE  RestInv'
  <2>1. /\ UNCHANGED <<flags, starts, file, last>>
        /\ asked' = [asked EXCEPT ![c] = None]
        /\ disturbed' = disturbed \/ disturbed' = TRUE
        /\ opened' = opened \/ opened' = [opened EXCEPT ![c] = FALSE]
    BY <1>6 DEF SaveFails, Saved!SaveFails, Saved!WriteFails, Saved!Close, Keep
  <2>2. asked' \in [Clients -> Target \cup {Refused, None}]
    BY <2>1 DEF RestInv
  <2>3. \A d \in Clients : opened'[d] => opened[d]
    BY <2>1 DEF SaveInv
  <2> QED
    BY <2>1, <2>2, <2>3 DEF RestInv, flags
<1>7. CASE Live
  <2>1. UNCHANGED <<flags, file, starts, last>>
    BY <1>7 DEF Live
  <2>2. /\ \A d \in Clients : opened'[d] => opened[d]
        /\ asked' \in [Clients -> Target \cup {Refused, None}]
        /\ disturbed' \in BOOLEAN
    BY <1>7 DEF Live, RestInv
  <2> QED
    BY <2>1, <2>2 DEF RestInv, flags
<1>8. CASE Restart
  <2>1. /\ UNCHANGED <<prefs, history>> /\ fixed' \in BOOLEAN /\ allowLocal' \in BOOLEAN
        /\ starts < MaxStarts /\ starts' = starts + 1
    BY <1>8 DEF Restart
  <2>2. starts' \in 1 .. MaxStarts
    BY <2>1, ServiceAssumption DEF RestInv
  <2> QED
    BY <2>1, <2>2 DEF RestInv, prefs, history
<1>9. CASE UNCHANGED serviceVars
  BY <1>9 DEF RestInv, serviceVars, flags, prefs, history
<1> QED
  BY <1>1, <1>2, <1>3, <1>4, <1>5, <1>6, <1>7, <1>8, <1>9 DEF ServiceNext, Handle

(***************************************************************************)
(* Every variable has its type in every reachable state, and only a request *)
(* in progress has something to do or to save.                              *)
(***************************************************************************)
THEOREM ServiceTypes == ServiceSpec => []ServiceTypeOK
<1>1. LifeInv /\ PortInv /\ SaveInv /\ RestInv => ServiceTypeOK
  BY DEF LifeInv, PortInv, SaveInv, RestInv, ServiceTypeOK, Saved!PrefsTypeOK
<1>2. ServiceInit => PortInv
  BY ServiceAssumption DEF ServiceInit, PortInv, TargetAllowed
<1>3. SaveInv /\ RestInv /\ [ServiceNext]_serviceVars => RestInv'
  BY RestStep
<1> QED
  BY <1>1, <1>2, <1>3, PortStep, SaveInit, SaveStep, RestInit, LifeAlways, PTL DEF ServiceSpec
=============================================================================
