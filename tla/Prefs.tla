--------------------------------- MODULE Prefs ---------------------------------
(***************************************************************************)
(* The file that keeps the connect form for the next run of the server      *)
(* (internal/prefs/connection.go).  os.WriteFile truncates the file and     *)
(* then writes it; nothing keeps two requests from doing so at once, and a  *)
(* process that ends in between leaves the file as it is.                   *)
(*                                                                          *)
(* The JSON text of a form is abstracted to as many pieces as tell a long   *)
(* one from a short one, each marked with its form: a piece of another form *)
(* behind the closing brace makes the whole text invalid.                   *)
(***************************************************************************)
EXTENDS Naturals, Sequences

CONSTANTS
  Clients,    \* requests that may be saving
  Forms,      \* contents of the form
  Pieces,     \* the length of the text of each, at least 1
  NoForm,     \* nothing to save, or nothing to show
  NoFile

VARIABLES
  file,       \* the pieces in the file, or NoFile
  saving,     \* the form each request is saving
  opened      \* it has the file open

PrefsInit ==
  /\ file = NoFile
  /\ saving = [c \in Clients |-> NoForm]
  /\ opened = [c \in Clients |-> FALSE]

Marshal(f) == [i \in 1 .. Pieces[f] |-> f]

\* LoadConnection: a missing file and one that does not parse show nothing.
LoadConnection ==
  IF \E f \in Forms : file = Marshal(f)
  THEN CHOOSE f \in Forms : file = Marshal(f)
  ELSE NoForm

\* What a write at offset 0 leaves in a file that holds old.
Overwrite(old, new) == new \o SubSeq(old, Len(new) + 1, Len(old))

Waiting(c) == saving[c] # NoForm /\ ~opened[c]

\* os.MkdirAll or os.OpenFile fails: the request only logs it.
SaveFails(c) ==
  /\ Waiting(c)
  /\ saving' = [saving EXCEPT ![c] = NoForm]
  /\ UNCHANGED <<file, opened>>

\* Mutant: without O_TRUNC.
OpenOnly == IF file = NoFile THEN <<>> ELSE file

Truncated == <<>>

\* os.WriteFile: OpenFile(O_WRONLY|O_CREATE|O_TRUNC)
Truncate(c) ==
  /\ Waiting(c)
  /\ file' = Truncated
  /\ opened' = [opened EXCEPT ![c] = TRUE]
  /\ UNCHANGED saving

Close(c) ==
  /\ saving' = [saving EXCEPT ![c] = NoForm]
  /\ opened' = [opened EXCEPT ![c] = FALSE]

\* f.Write(data)
Write(c) ==
  /\ opened[c]
  /\ file' = Overwrite(file, Marshal(saving[c]))
  /\ Close(c)

\* The disk is full: nothing, or not all, is written.
WriteFails(c) ==
  /\ opened[c]
  /\ UNCHANGED file
  /\ Close(c)

PrefsTypeOK ==
  /\ file \in Seq(Forms) \cup {NoFile}
  /\ saving \in [Clients -> Forms \cup {NoForm}]
  /\ opened \in [Clients -> BOOLEAN]
  /\ \A c \in Clients : opened[c] => saving[c] # NoForm /\ file # NoFile
=============================================================================
