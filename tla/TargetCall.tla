----------------------------- MODULE TargetCall -----------------------------
(***************************************************************************)
(* A call of Push, ReadDir, Remove or Pull on a target, step by step: what *)
(* it opens on the way (connections, sessions, files), the steps that      *)
(* fail, and the deferred calls that close things when it returns.  The    *)
(* call's work on the server is the action of that name of the module      *)
(* Storage, which this module extends.                                     *)
(*                                                                         *)
(* The libraries of the protocols are not under src/: of the scp client it *)
(* is a constant whether its Close closes the ssh connection it was given. *)
(***************************************************************************)
EXTENDS Storage

CONSTANTS
  UrlPort,          \* the port in the URL of the target, or ""
  SshPort,          \* the Port of the user's ssh configuration for the host, or ""
  ClientClosesSsh   \* Close of the scp client closes the ssh connection

VARIABLES
  call,        \* the call under way, or "none"
  opened,      \* how many of the things it opens it has opened
  held,        \* what is open: of this call and of those before
  deferred,    \* what the deferred calls will close
  returning,   \* the call has its answer
  dialed       \* the port that was dialed last, or "none"

callVars == <<call, opened, held, deferred, returning, dialed>>

Calls == {"Push", "ReadDir", "Remove", "Pull"}
Copies == {"Push", "Pull"}

\* What a call opens, in this order.
Opens(c) ==
  CASE protocol = "file" -> IF c \in Copies THEN <<"source", "destination">> ELSE <<>>
    [] protocol = "smb" ->
         <<"connection", "session", "share">>
           \o (CASE c = "Push" -> <<"source", "destination">>
                 [] c = "Pull" -> <<"destination", "source">>
                 [] OTHER -> <<>>)
    [] protocol = "s3" -> IF c \in Copies THEN <<"file">> ELSE <<>>
    [] protocol = "scp" ->
         <<"agent", "ssh">> \o (IF c \in Copies THEN <<"file">> ELSE <<"sftp">>)

\* mutant: the share is unmounted by the call that uses it
DefersShareLate(r) ==
  CASE r \in {"agent", "ssh", "share"} -> {}
    [] r = "file" /\ protocol = "scp" /\ ClientClosesSsh -> {"file", "ssh"}
    [] r \in {"source", "destination"} /\ protocol = "smb" -> {r, "share"}
    [] OTHER -> {r}

\* What is deferred when r has been opened.  Nothing of scp closes the connection to the
\* agent, and that of ssh is left to the scp client.
Defers(r) ==
  CASE r = "agent" -> {}
    [] r = "ssh" -> {}
    [] r = "file" /\ protocol = "scp" /\ ClientClosesSsh -> {"file", "ssh"}
    [] OTHER -> {r}

\* The port that is dialed: scp has no default, and the configuration comes first.
Port ==
  CASE protocol = "smb" -> IF UrlPort = "" THEN "445" ELSE UrlPort
    [] protocol = "scp" -> IF SshPort # "" THEN SshPort ELSE UrlPort
    [] OTHER -> "none"

CallInit ==
  /\ StorageInit
  /\ call = "none"
  /\ opened = 0
  /\ held = {}
  /\ deferred = {}
  /\ returning = FALSE
  /\ dialed = "none"

---------------------------------------------------------------------------
Begin ==
  /\ call = "none"
  /\ call' \in Calls
  /\ opened' = 0
  /\ UNCHANGED <<held, deferred, returning, dialed>> /\ UNCHANGED storageVars

\* The next thing is opened, or it is an agent that is not there: no SSH_AUTH_SOCK, or nobody
\* answers on it.
Open ==
  /\ call # "none" /\ ~returning
  /\ opened < Len(Opens(call))
  /\ LET r == Opens(call)[opened + 1] IN
     /\ dialed' = IF r \in {"connection", "ssh"} THEN Port ELSE dialed
     /\ \/ held' = held \cup {r} /\ deferred' = deferred \cup Defers(r)
        \/ r = "agent" /\ UNCHANGED <<held, deferred>>
  /\ opened' = opened + 1
  /\ UNCHANGED <<call, returning>> /\ UNCHANGED storageVars

\* It cannot be opened: a server that does not answer or accept, a file that is not there, keys
\* or a configuration that cannot be read.
OpenFails ==
  /\ call # "none" /\ ~returning
  /\ opened < Len(Opens(call))
  /\ returning' = TRUE
  /\ UNCHANGED <<call, opened, held, deferred, dialed>> /\ UNCHANGED storageVars

\* The work itself.
Work ==
  /\ call # "none" /\ ~returning
  /\ opened = Len(Opens(call))
  /\ \/ call = "Push" /\ Push
     \/ call = "ReadDir" /\ ReadDir
     \/ call = "Remove" /\ RemoveListed
     \/ call = "Pull" /\ Pull
  /\ returning' = TRUE
  /\ UNCHANGED <<call, opened, held, deferred, dialed>>

\* It fails and leaves the server as it was.  The half-written file that a Push may leave is
\* the business of BackupRun.
WorkFails ==
  /\ call # "none" /\ ~returning
  /\ opened = Len(Opens(call))
  /\ returning' = TRUE
  /\ UNCHANGED <<call, opened, held, deferred, dialed>> /\ UNCHANGED storageVars

\* The deferred calls are made, and the call returns.
Return ==
  /\ returning
  /\ held' = held \ deferred
  /\ deferred' = {}
  /\ call' = "none"
  /\ returning' = FALSE
  /\ UNCHANGED <<opened, dialed>> /\ UNCHANGED storageVars

CallNext == Begin \/ Open \/ OpenFails \/ Work \/ WorkFails \/ Return

CallSpec == CallInit /\ [][CallNext]_<<storageVars, callVars>>

---------------------------------------------------------------------------
(* Properties. *)

\* Each variable holds a value of its type; what is deferred is open.
CallTypeOK ==
  /\ StorageTypeOK
  /\ call \in Calls \cup {"none"}
  /\ opened \in Nat
  /\ deferred \subseteq held
  /\ returning \in BOOLEAN

\* A call that has returned, at whatever step it failed, holds nothing open on a file, smb or
\* s3 target (file.go:66-82, smb.go:134-176, s3.go:70-128): a daemon makes such calls for ever.
HoldsNothing == call = "none" /\ protocol # "scp" => held = {}

\* "Close client connection after the file has been copied" (scp.go:67, 95): the same of scp.
HoldsNothingOfScp == call = "none" => held = {}

\* "The default port is 22; you can override it" in the URL (docs/backup.md:212).
DialsAsDocumented ==
  protocol = "scp" /\ dialed # "none" => dialed = (IF UrlPort # "" THEN UrlPort ELSE "22")
============================================================================
