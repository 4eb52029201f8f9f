------------------------------ MODULE Startup ------------------------------
(***************************************************************************)
(* What dump, prune and restore make of their command line, environment    *)
(* and configuration file before they do any work (cmd/root.go, dump.go,   *)
(* prune.go, restore.go), on top of ConfigFile.                            *)
(*                                                                         *)
(* A setting is an option given by a source; of its value only whether it  *)
(* is the zero value ("", 0, false, an empty list) and which source it     *)
(* came from is kept.  Env variables have the prefix of the command that   *)
(* reads them, except those of the root command.                           *)
(***************************************************************************)
EXTENDS ConfigFile

CONSTANT
  Settings   \* for each command, the settings it may be started with

Commands == {"dump", "prune", "restore"}

\* The options of the root command, and of the connection to the database among them.
Connection == {"server", "port", "user", "pass"}
ForTargets == {"aws-access-key-id", "aws-path-style", "smb-user"}
RootOptions == Connection \cup ForTargets \cup {"pass-file"}

\* Options of dump that the file sets unless the command line or the environment does,
\* those it sets unless they set more than the zero value, and those it cannot set.
UnlessSet == {"safechars", "parallelism", "no-database-name", "skip-extended-insert", "compact",
              "triggers", "routines", "max-allowed-packet", "filename-pattern"}
UnlessNonzero == {"include", "exclude", "pre-backup-scripts", "post-backup-scripts", "retention"}
FlagOnly == {"ignore-tables"}
Schedule == {"once", "cron", "begin", "frequency"}
Encrypting == {"encryption", "encryption-key", "encryption-key-path"}

Options ==
  RootOptions \cup UnlessSet \cup UnlessNonzero \cup FlagOnly \cup Schedule \cup Encrypting
    \cup {"target", "compression", "database"}

\* Flags with a default that is not the zero value.
Defaulted == {"port", "parallelism", "routines", "max-allowed-packet", "filename-pattern",
              "begin", "frequency", "compression"}

\* Those the file has no key for.
NotInFile == {"pass-file", "ignore-tables", "database"}

Sources == {"cli", "db", "db_dump", "db_restore", "file"}

\* A value: where it comes from and whether it is the zero value.
Value == [from : Sources \cup {"default", "pass-file"}, zero : BOOLEAN]

ASSUME SettingsAssumption ==
  \A c \in Commands : \A g \in Settings[c] : \A s \in DOMAIN g :
    /\ s[1] \in Sources /\ s[2] \in Options /\ g[s] \in BOOLEAN
    /\ s[1] = "file" => s[2] \notin NotInFile

VARIABLES
  command,   \* the subcommand
  given,     \* the settings: <<source, option>> -> is it the zero value
  sections,  \* the sections that are there in a local configuration
  stage,     \* how far the command has come
  resolved   \* the values worked out so far: option -> Value

vars == <<configVars, command, given, sections, stage, resolved>>
startVars == <<command, given, sections>>

---------------------------------------------------------------------------
(* Flags, viper and the file. *)

Has(source, option) == <<source, option>> \in DOMAIN given
Of(source, option) == [from |-> source, zero |-> given[<<source, option>>]]

\* SetEnvPrefix: prune reads the variables of restore
Prefix(option) ==
  IF option \in RootOptions THEN "db" ELSE IF command = "dump" THEN "db_dump" ELSE "db_restore"

\* bindFlags, v.IsSet: a flag is set on the command line, or from the environment
IsSet(option) == Has("cli", option) \/ Has(Prefix(option), option)

\* v.GetString, GetBool, GetInt, GetStringSlice
Flag(option) ==
  IF Has("cli", option) THEN Of("cli", option)
  ELSE IF Has(Prefix(option), option) THEN Of(Prefix(option), option)
  ELSE [from |-> "default", zero |-> option \notin Defaulted]

\* the section is there, and in it the key
InFile(option) == FileCounts /\ Has("file", option)
FromFile(option) == Of("file", option)

\* mutant: the file is asked first
FileBeforeFlag(option) == IF InFile(option) THEN FromFile(option) ELSE Flag(option)

\* v.GetX(option), and if !v.IsSet(option) the file's
FlagUnlessUnset(option) ==
  IF ~IsSet(option) /\ InFile(option) THEN FromFile(option) ELSE Flag(option)

\* mutant: the zero value of a flag is taken for a setting
FlagAlways(option) == Flag(option)

\* v.GetX(option), and if it is the zero value the file's
FlagUnlessZero(option) ==
  IF Flag(option).zero /\ InFile(option) THEN FromFile(option) ELSE Flag(option)

\* The file's, and then, over it, that of a flag that is set to more than the zero value.
FlagOver(option) ==
  IF (IsSet(option) /\ ~Flag(option).zero) \/ ~InFile(option) \/ FromFile(option).zero
    THEN Flag(option) ELSE FromFile(option)

\* One option of the dump: a packet size of 0 in the file does not count, and an empty
\* pattern is the default one.
DumpOption(option) ==
  IF option = "max-allowed-packet" /\ InFile(option) /\ FromFile(option).zero THEN Flag(option)
  ELSE IF option = "filename-pattern" /\ FlagUnlessUnset(option).zero
    THEN [from |-> "default", zero |-> FALSE]
  ELSE IF option \in UnlessSet THEN FlagUnlessUnset(option)
  ELSE IF option \in UnlessNonzero THEN FlagUnlessZero(option)
  ELSE Flag(option)

\* where the file keeps an option
SectionOf(option) ==
  CASE option \in Connection -> "database"
    [] option \in ForTargets -> "targets"
    [] option = "retention" -> "prune"
    [] OTHER -> "dump"

---------------------------------------------------------------------------
Init ==
  /\ command \in Commands
  /\ given \in Settings[command]
  /\ ConfigInit
  /\ sections \in SUBSET {"dump", "prune"}
  /\ \A s \in DOMAIN given : s[1] = "file" => SectionOf(s[2]) \in sections \cup {"database", "targets"}
  /\ stage = "config"
  /\ resolved = <<>>

Goto(s) == stage' = s /\ UNCHANGED <<configVars, startVars>>
Fail == Goto("failed") /\ UNCHANGED resolved
Resolve(values, next) ==
  /\ resolved' = [o \in DOMAIN values \cup DOMAIN resolved |->
                    IF o \in DOMAIN values THEN values[o] ELSE resolved[o]]
  /\ Goto(next)

\* --config-file
ReadConfig ==
  /\ stage = "config"
  /\ Process
  /\ stage' = IF reading' = "refused" THEN "failed" ELSE IF reading' = "read" THEN "connect" ELSE stage
  /\ UNCHANGED <<startVars, resolved>>

NoConfig == stage = "config" /\ chain = <<>> /\ Goto("connect") /\ UNCHANGED resolved

\* PersistentPreRunE: the connection; the file of the password is read only if there is none
Connect ==
  /\ stage = "connect"
  /\ LET FromPassFile == FlagOver("pass").zero /\ ~Flag("pass-file").zero
     IN \E empty \in BOOLEAN :
          Resolve([o \in Connection |->
                     IF o = "pass" /\ FromPassFile THEN [from |-> "pass-file", zero |-> empty]
                     ELSE FlagOver(o)], "flags")

\* the telemetry of the file cannot be set up, or the file of the password not be read
ConnectFails ==
  /\ stage = "connect"
  /\ chain # <<>> \/ ~Flag("pass-file").zero
  /\ Fail

\* cobra: ValidateRequiredFlags and ValidateFlagGroups, after bindFlags has set the flags
\* that the environment gives
Exclusive == {{"once", "cron"}, {"once", "begin"}, {"once", "frequency"}, {"cron", "begin"}, {"cron", "frequency"}}
FlagsAgree ==
  CASE command = "dump" -> \A pair \in Exclusive : \E o \in pair : ~IsSet(o)
    [] command = "restore" -> IsSet("target")
    [] OTHER -> TRUE
Validate ==
  /\ stage = "flags"
  /\ FlagsAgree
  /\ Goto(IF command = "restore" THEN "compression" ELSE "targets")
  /\ UNCHANGED resolved
ValidateFails == stage = "flags" /\ ~FlagsAgree /\ Fail

\* parseTargets, and storage.ParseURL and FromTarget with the credentials each of them uses
TargetOption(option, byUrl) ==
  IF byUrl THEN Flag(option)
  ELSE IF InFile(option) /\ option # "aws-path-style" THEN FromFile(option)
  ELSE [from |-> "default", zero |-> TRUE]
ResolveTargets ==
  /\ stage = "targets"
  /\ ~FlagUnlessZero("target").zero
  /\ LET byUrl == FlagUnlessZero("target").from # "file"
     IN Resolve([o \in ForTargets \cup {"target"} |->
                   IF o = "target" THEN FlagUnlessZero(o) ELSE TargetOption(o, byUrl)],
                IF command = "dump" THEN "options" ELSE "retention")
\* no target, a URL or a type that is not known, or a name that is not among the targets
TargetsFail == stage = "targets" /\ Fail

ResolveOptions ==
  /\ stage = "options"
  /\ Resolve([o \in UnlessSet \cup UnlessNonzero \cup FlagOnly |-> DumpOption(o)], "compression")

\* The prune command follows the pointer of the section without asking whether it is there.
RetentionCrashes == Flag("retention").zero /\ FileCounts /\ "prune" \notin sections
ResolveRetention ==
  /\ stage = "retention"
  /\ IF RetentionCrashes THEN Goto("crashed") /\ UNCHANGED resolved
     ELSE Resolve([o \in {"retention"} |-> FlagUnlessZero(o)], "schedule")

\* The restore command does so with the dump section.
ResolveCompression ==
  /\ stage = "compression"
  /\ IF command = "restore" /\ FileCounts /\ "dump" \notin sections
       THEN Goto("crashed") /\ UNCHANGED resolved
       ELSE Resolve([o \in {"compression"} |-> FlagUnlessZero(o)],
                    IF command = "dump" THEN "encryption" ELSE "one target")
CompressionFails == stage = "compression" /\ Fail

\* the encryption section of the file
FileEncrypts == \E o \in Encrypting : InFile(o)
FileEncryptionOk ==
  FileEncrypts =>
    /\ InFile("encryption")
    /\ ~(InFile("encryption-key") /\ InFile("encryption-key-path")
           /\ FromFile("encryption-key").zero = FromFile("encryption-key-path").zero)
KeyFlags == {o \in {"encryption-key", "encryption-key-path"} : ~Flag(o).zero}

Encryptor(algorithm, key) == [x \in {"encryptor", "key"} |-> IF x = "key" THEN Flag(key) ELSE algorithm]

\* mutant: without a key there is no encryption
EncryptOnlyWithKey ==
  /\ stage = "encryption"
  /\ FileEncryptionOk
  /\ IF FlagUnlessZero("encryption").zero \/ KeyFlags = {} THEN Resolve(<<>>, "schedule")
     ELSE Resolve(Encryptor(FlagUnlessZero("encryption"), CHOOSE o \in KeyFlags : TRUE), "schedule")

\* Whoever names the algorithm, the key is that of the flags.
ResolveEncryption ==
  /\ stage = "encryption"
  /\ FileEncryptionOk
  /\ IF FlagUnlessZero("encryption").zero THEN Resolve(<<>>, "schedule")
     ELSE \E key \in KeyFlags :
            KeyFlags = {key} /\ Resolve(Encryptor(FlagUnlessZero("encryption"), key), "schedule")
\* and a key that cannot be decoded or read, an algorithm that is not known
EncryptionFails ==
  /\ stage = "encryption"
  /\ FileEncrypts \/ ~Flag("encryption").zero
  /\ Fail

\* parseTimerOptions
ResolveSchedule ==
  /\ stage = "schedule"
  /\ Resolve([o \in Schedule |-> IF o = "once" THEN FlagUnlessUnset(o) ELSE FlagUnlessZero(o)], "running")

\* restore: a URL, or the name of a target of the file
ResolveTarget ==
  /\ stage = "one target"
  /\ Resolve([o \in {"target", "database"} |-> Flag(o)], "running")
TargetFails == stage = "one target" /\ Fail

Over == stage \in {"running", "failed", "crashed"}
Ended == Over /\ UNCHANGED vars

Step ==
  \/ ReadConfig \/ NoConfig \/ Connect \/ ConnectFails \/ Validate \/ ValidateFails
  \/ ResolveTargets \/ TargetsFail \/ ResolveOptions \/ ResolveRetention
  \/ ResolveCompression \/ CompressionFails \/ ResolveEncryption \/ EncryptionFails
  \/ ResolveSchedule \/ ResolveTarget \/ TargetFails

Next == Step \/ Ended
Spec == Init /\ [][Next]_vars
\* the process goes on
FairSpec == Spec /\ WF_vars(Step)

---------------------------------------------------------------------------
(* Properties. *)

\* Each variable holds a value of its type.
TypeOK ==
  /\ command \in Commands
  /\ given \in Settings[command]
  /\ sections \subseteq {"dump", "prune"}
  /\ stage \in {"config", "connect", "flags", "targets", "options", "retention", "compression",
                "encryption", "schedule", "one target", "running", "failed", "crashed"}
  /\ DOMAIN resolved \subseteq Options \cup {"encryptor", "key"}
  /\ \A o \in DOMAIN resolved : resolved[o] \in Value

\* Has this source said something of the option that counts?  The zero value does only where
\* an unset flag alone gives way to the file.
Says(source, o) ==
  /\ Has(source, o)
  /\ ~Of(source, o).zero \/ o \in UnlessSet \ {"filename-pattern"} \/ o = "once"

Respected(o, value) ==
  /\ Says("cli", o) => value.from = "cli"
  /\ Says(Prefix(o), o) /\ ~Has("cli", o) => value.from = Prefix(o)

\* "the command line flag option takes precedence over the environment variable which takes
\* precedence over the config file option" (docs/configuration.md:9), by whichever of the
\* rules of its command an option is worked out.
Precedence == \A o \in (DOMAIN resolved \cap Options) \ ForTargets : Respected(o, resolved[o])

Filled(o, value) == InFile(o) /\ ~FromFile(o).zero /\ ~IsSet(o) => value.from = "file"

\* What the file says, and neither a flag nor the environment, is used: but for the options
\* with a default that hides the file's value, and those of the targets, which come from
\* where the targets come from.
Hidden == {"frequency", "begin", "compression"}
FileFillsIn ==
  \A o \in (DOMAIN resolved \cap Options) \ (Hidden \cup ForTargets) : Filled(o, resolved[o])

\* Who asks for encryption, on the command line, in the environment or in the file, gets no
\* backup that is not encrypted: the dump runs with an encryptor and a key, or not at all.
EncryptedIfAsked ==
  stage = "running" /\ command = "dump" /\ ~FlagUnlessZero("encryption").zero =>
    /\ {"encryptor", "key"} \subseteq DOMAIN resolved
    /\ ~resolved["key"].zero

\* Starting comes to an end, unless a remote configuration leads to another one.
StartEnds == (Len(chain) > 1 /\ chain[1] = "remote" /\ chain[2] = "remote") \/ <>Over

---------------------------------------------------------------------------
(* What is written of the program, and is not so. *)

\* A flag, variable or key that docs/configuration.md lists for an option sets it.
FileSetsAll == \A o \in (DOMAIN resolved \cap Options) \ ForTargets : Filled(o, resolved[o])

\* So does the one of S3's path style, for a target of the file (docs/configuration.md:90),
\* and the flags of the credentials count "if a target does not have one".
TargetsAsDocumented ==
  \A o \in DOMAIN resolved \cap ForTargets :
    resolved["target"].from = "file" =>
      IF InFile(o) /\ ~FromFile(o).zero THEN resolved[o].from = "file"
      ELSE ~Flag(o).zero => resolved[o] = Flag(o)

\* The variables of dump are those of prune as well (docs/configuration.md:77).
EnvOfPrune ==
  command = "prune" =>
    \A o \in DOMAIN resolved \ RootOptions :
      Has("db_dump", o) /\ ~Of("db_dump", o).zero /\ ~Has("cli", o) => resolved[o].from = "db_dump"

\* "individual CLI flags override config file" (cmd/root.go:242): the flags of a schedule
\* are not overruled by another kind of schedule from the file.
ScheduleOfFlags ==
  stage = "running" /\ command = "dump" =>
    /\ Has("cli", "cron") /\ ~Of("cli", "cron").zero => resolved["once"].zero
    /\ Has("cli", "frequency") /\ ~Of("cli", "frequency").zero => resolved["once"].zero /\ resolved["cron"].zero

\* A key in the file is enough to encrypt as the file says (cmd/dump.go:178-195).
FileKeySuffices ==
  stage = "encryption" /\ FileEncryptionOk /\ InFile("encryption") /\ InFile("encryption-key") =>
    FromFile("encryption").zero \/ FromFile("encryption-key").zero \/ ENABLED ResolveEncryption

\* No section of the file has to be there.
NoCrash == stage # "crashed"
============================================================================
