--------------------------- MODULE ProcessProofs ----------------------------
(***************************************************************************)
(* Proofs about the process: Startup, for any settings a command may be    *)
(* started with and any chain of configurations, and Scheduler, for any    *)
(* options, any length of the day and any Period that divides it.          *)
(*                                                                         *)
(* The options are worked out by several rules, stage after stage.  Each   *)
(* rule gives a value that respects what the flags and variables say and   *)
(* fills in what only the file says; what a rule is given to work on does  *)
(* not change once the configuration is read; so that what holds of a      *)
(* value when it is worked out holds of it ever after.                     *)
(*                                                                         *)
(* Why runs start when they should is in the sleep that is under way: what *)
(* is left of it leads to a match of the cron expression, if the clock was *)
(* not set since, and with what has passed since the last start it makes   *)
(* up a whole frequency, whatever was done to the clock.                   *)
(***************************************************************************)
EXTENDS Startup, Scheduler, TLAPS

\* What Precedence and FileFillsIn say of one value.
Right(o, value) ==
  /\ o \in Options \ ForTargets => Respected(o, value)
  /\ o \in Options \ (Hidden \cup ForTargets) => Filled(o, value)

Settled == \A o \in DOMAIN resolved : Right(o, resolved[o])

---------------------------------------------------------------------------
(* The rules. *)

\* What viper answers respects the flags and the variables.
LEMMA FlagRespects ==
  ASSUME NEW o PROVE Respected(o, Flag(o))
BY DEF Respected, Says, Flag, Has, Of, Prefix

\* A rule that gives way to the file only where nothing is set is right for every option.
LEMMA UnlessUnsetRight ==
  ASSUME NEW o PROVE Right(o, FlagUnlessUnset(o))
<1>1. CASE ~IsSet(o) /\ InFile(o)
  <2>1. ~Has("cli", o) /\ ~Has(Prefix(o), o)
    BY <1>1 DEF IsSet
  <2>2. Respected(o, FlagUnlessUnset(o))
    BY <2>1 DEF Respected, Says
  <2>3. FlagUnlessUnset(o).from = "file"
    BY <1>1 DEF FlagUnlessUnset, FromFile, Of
  <2> QED BY <2>2, <2>3 DEF Right, Filled
<1>2. CASE ~(~IsSet(o) /\ InFile(o))
  <2>1. FlagUnlessUnset(o) = Flag(o)
    BY <1>2 DEF FlagUnlessUnset
  <2> QED BY <2>1, <1>2, FlagRespects DEF Right, Filled
<1> QED BY <1>1, <1>2

\* A rule that gives way where the flag is zero is right for the options of which a zero does
\* not count, and fills in those whose default is zero.
LEMMA UnlessZeroRight ==
  ASSUME NEW o, o \notin UnlessSet, o # "once", o \notin Defaulted \/ o \in Hidden
  PROVE  Right(o, FlagUnlessZero(o))
<1>1. CASE Flag(o).zero /\ InFile(o)
  <2>1. FlagUnlessZero(o) = FromFile(o)
    BY <1>1 DEF FlagUnlessZero
  <2>2. ~Says("cli", o) /\ (Says(Prefix(o), o) => Has("cli", o))
    BY <1>1 DEF Says, Flag
  <2> QED BY <2>1, <2>2 DEF Right, Respected, Filled, FromFile, Of
<1>2. CASE ~(Flag(o).zero /\ InFile(o))
  <2>1. FlagUnlessZero(o) = Flag(o)
    BY <1>2 DEF FlagUnlessZero
  <2>2. o \notin Hidden => Filled(o, Flag(o))
    BY <1>2 DEF Filled, Flag, IsSet
  <2> QED BY <2>1, <2>2, FlagRespects DEF Right
<1> QED BY <1>1, <1>2

\* The connection: the file's, and a flag of more than zero over it.
LEMMA OverRight ==
  ASSUME NEW o \in Connection PROVE Right(o, FlagOver(o))
<1>0. o \notin UnlessSet /\ o # "once"
  BY DEF Connection, UnlessSet
<1>1. CASE (IsSet(o) /\ ~Flag(o).zero) \/ ~InFile(o) \/ FromFile(o).zero
  <2>1. FlagOver(o) = Flag(o)
    BY <1>1 DEF FlagOver
  <2> QED BY <2>1, <1>1, FlagRespects DEF Right, Filled
<1>2. CASE ~((IsSet(o) /\ ~Flag(o).zero) \/ ~InFile(o) \/ FromFile(o).zero)
  <2>1. FlagOver(o) = FromFile(o)
    BY <1>2 DEF FlagOver
  <2>2. ~Says("cli", o) /\ (Says(Prefix(o), o) => Has("cli", o))
    BY <1>0, <1>2 DEF Says, Flag, IsSet
  <2> QED BY <2>1, <2>2 DEF Right, Respected, Filled, FromFile, Of
<1> QED BY <1>1, <1>2

\* A flag alone is right for what is set on the command line or in the environment, and for
\* what the file has no key for.
LEMMA FlagRight ==
  ASSUME NEW o, o \in Options => ~InFile(o) \/ IsSet(o)
  PROVE  Right(o, Flag(o))
BY FlagRespects DEF Right, Filled

\* The file has no key for some options.
LEMMA NotThere ==
  ASSUME command \in Commands, given \in Settings[command], NEW o \in NotInFile
  PROVE  ~InFile(o)
BY SettingsAssumption DEF InFile, Has

\* The options of a dump.
LEMMA DumpOptionRight ==
  ASSUME command \in Commands, given \in Settings[command],
         NEW o \in UnlessSet \cup UnlessNonzero \cup FlagOnly
  PROVE  Right(o, DumpOption(o))
<1>1. CASE o = "max-allowed-packet" /\ InFile(o) /\ FromFile(o).zero
  <2>1. DumpOption(o) = Flag(o)
    BY <1>1 DEF DumpOption
  <2> QED BY <2>1, <1>1, FlagRespects DEF Right, Filled
<1>2. CASE /\ ~(o = "max-allowed-packet" /\ InFile(o) /\ FromFile(o).zero)
           /\ o = "filename-pattern" /\ FlagUnlessUnset(o).zero
  <2>1. DumpOption(o) = [from |-> "default", zero |-> FALSE]
    BY <1>2 DEF DumpOption
  <2>2. Flag(o).zero \/ ~IsSet(o)
    BY <1>2 DEF FlagUnlessUnset
  <2>3. ~Says("cli", o) /\ (Says(Prefix(o), o) => Has("cli", o))
    BY <1>2, <2>2 DEF Says, Flag, IsSet
  <2>4. InFile(o) /\ ~IsSet(o) => FromFile(o).zero
    BY <1>2 DEF FlagUnlessUnset
  <2> QED BY <2>1, <2>3, <2>4 DEF Right, Respected, Filled
<1>3. CASE /\ ~(o = "max-allowed-packet" /\ InFile(o) /\ FromFile(o).zero)
           /\ ~(o = "filename-pattern" /\ FlagUnlessUnset(o).zero)
  <2>1. CASE o \in UnlessSet
    BY <1>3, <2>1, UnlessUnsetRight DEF DumpOption
  <2>2. CASE o \in UnlessNonzero
    <3>1. DumpOption(o) = FlagUnlessZero(o)
      BY <1>3, <2>2 DEF DumpOption, UnlessSet, UnlessNonzero
    <3>2. o \notin UnlessSet /\ o # "once" /\ o \notin Defaulted
      BY <2>2 DEF UnlessSet, UnlessNonzero, Defaulted
    <3> QED BY <3>1, <3>2, UnlessZeroRight
  <2>3. CASE o \in FlagOnly
    <3>1. DumpOption(o) = Flag(o)
      BY <1>3, <2>3 DEF DumpOption, UnlessSet, UnlessNonzero, FlagOnly
    <3>2. o \in NotInFile
      BY <2>3 DEF FlagOnly, NotInFile
    <3> QED BY <3>1, <3>2, NotThere, FlagRight
  <2> QED BY <2>1, <2>2, <2>3
<1> QED BY <1>1, <1>2, <1>3

---------------------------------------------------------------------------
(* The stages. *)

\* Which command is at which stage, and that nothing is worked out before the file is read.
OnItsWay ==
  /\ command \in Commands
  /\ given \in Settings[command]
  /\ stage \in {"config", "connect"} => resolved = <<>>
  /\ stage \in {"options", "encryption"} => command = "dump"
  /\ stage = "retention" => command = "prune"
  /\ stage = "one target" => command = "restore"
  /\ stage = "compression" => command # "prune"
  /\ stage \in {"targets", "schedule"} => command # "restore"
  /\ stage \in {"compression", "one target"} /\ command = "restore" => IsSet("target")

\* What is true of values that are added, and was of those there, is true of all.
LEMMA ResolveSettles ==
  ASSUME Settled, NEW values, NEW next, Resolve(values, next),
         \A o \in DOMAIN values : Right(o, values[o])
  PROVE  Settled'
<1>1. UNCHANGED <<command, given, chain, effective>>
  BY DEF Resolve, Goto, configVars, startVars
<1>2. ASSUME NEW o \in DOMAIN resolved' PROVE Right(o, resolved'[o])
  BY <1>2 DEF Settled, Resolve
<1> QED
  BY <1>1, <1>2 DEF Settled, Right, Respected, Says, Filled, InFile, FromFile, FileCounts, IsSet,
                    Has, Of, Prefix

LEMMA InitOnItsWay == Init => OnItsWay
BY DEF Init, OnItsWay

LEMMA StepOnItsWay == OnItsWay /\ [Next]_vars => OnItsWay'
<1> SUFFICES ASSUME OnItsWay, [Next]_vars PROVE OnItsWay'
  OBVIOUS
<1> USE DEF OnItsWay, Goto, Fail, Resolve, IsSet, Has, Prefix, startVars
<1>1. CASE ReadConfig
  BY <1>1 DEF ReadConfig
<1>2. CASE NoConfig
  BY <1>2 DEF NoConfig
<1>3. CASE Connect
  BY <1>3 DEF Connect
<1>4. CASE ConnectFails
  BY <1>4 DEF ConnectFails
<1>5. CASE Validate
  BY <1>5 DEF Validate, FlagsAgree, Commands
<1>6. CASE ValidateFails
  BY <1>6 DEF ValidateFails
<1>7. CASE ResolveTargets
  BY <1>7 DEF ResolveTargets, Commands
<1>8. CASE TargetsFail
  BY <1>8 DEF TargetsFail
<1>9. CASE ResolveOptions
  BY <1>9 DEF ResolveOptions
<1>10. CASE ResolveRetention
  BY <1>10 DEF ResolveRetention
<1>11. CASE ResolveCompression
  <2>1. CASE command = "restore" /\ FileCounts /\ "dump" \notin sections
    BY <1>11, <2>1 DEF ResolveCompression
  <2>2. CASE ~(command = "restore" /\ FileCounts /\ "dump" \notin sections)
    <3>1. stage' = (IF command = "dump" THEN "encryption" ELSE "one target")
          /\ UNCHANGED <<command, given>>
      BY <1>11, <2>2 DEF ResolveCompression
    <3>2. CASE command = "dump"
      BY <3>1, <3>2
    <3>3. CASE command # "dump"
      BY <1>11, <3>1, <3>3 DEF ResolveCompression, Commands
    <3> QED BY <3>2, <3>3
  <2> QED BY <2>1, <2>2
<1>12. CASE CompressionFails
  BY <1>12 DEF CompressionFails
<1>13. CASE ResolveEncryption
  BY <1>13 DEF ResolveEncryption
<1>14. CASE EncryptionFails
  BY <1>14 DEF EncryptionFails
<1>15. CASE ResolveSchedule
  BY <1>15 DEF ResolveSchedule
<1>16. CASE ResolveTarget
  BY <1>16 DEF ResolveTarget
<1>17. CASE TargetFails
  BY <1>17 DEF TargetFails
<1>18. CASE UNCHANGED vars
  BY <1>18 DEF vars
<1> QED BY <1>1, <1>2, <1>3, <1>4, <1>5, <1>6, <1>7, <1>8, <1>9, <1>10, <1>11, <1>12, <1>13,
           <1>14, <1>15, <1>16, <1>17, <1>18 DEF Next, Step, Ended

\* Steps that work nothing out: what was right stays right.
LEMMA RestSettles ==
  ASSUME Settled, UNCHANGED <<command, given, chain, effective, resolved>>
  PROVE  Settled'
BY DEF Settled, Right, Respected, Says, Filled, InFile, FromFile, FileCounts, IsSet, Has, Of, Prefix

LEMMA StepSettles == OnItsWay /\ Settled /\ [Next]_vars => Settled'
<1> SUFFICES ASSUME OnItsWay, Settled, [Next]_vars PROVE Settled'
  OBVIOUS
<1>1. CASE ReadConfig
  <2>1. resolved' = <<>>
    BY <1>1 DEF ReadConfig, OnItsWay
  <2> QED BY <2>1 DEF Settled
<1>2. CASE NoConfig \/ ConnectFails \/ Validate \/ ValidateFails \/ TargetsFail
           \/ CompressionFails \/ EncryptionFails \/ TargetFails \/ UNCHANGED vars
  BY <1>2, RestSettles DEF NoConfig, ConnectFails, Validate, ValidateFails, TargetsFail,
       CompressionFails, EncryptionFails, TargetFails, Goto, Fail, configVars, startVars, vars
<1>3. CASE Connect
  <2> DEFINE FromPassFile == FlagOver("pass").zero /\ ~Flag("pass-file").zero
             conn(empty) == [o \in Connection |->
                               IF o = "pass" /\ FromPassFile THEN [from |-> "pass-file", zero |-> empty]
                               ELSE FlagOver(o)]
  <2>1. PICK empty \in BOOLEAN : Resolve(conn(empty), "flags")
    BY <1>3 DEF Connect
  <2>2. ASSUME NEW o \in Connection PROVE Right(o, conn(empty)[o])
    <3>1. CASE o = "pass" /\ FromPassFile
      <4>1. "pass" \notin UnlessSet /\ "pass" # "once"
        BY DEF UnlessSet
      <4>2. FlagOver("pass").zero
        BY <3>1
      <4>3. ~Says("cli", o) /\ (Says(Prefix(o), o) => Has("cli", o))
        BY <3>1, <4>1, <4>2 DEF Says, FlagOver, Flag, IsSet
      <4>4. InFile(o) => FromFile(o).zero \/ IsSet(o)
        BY <3>1, <4>2 DEF FlagOver
      <4> QED BY <4>3, <4>4 DEF Right, Respected, Filled
    <3>2. CASE ~(o = "pass" /\ FromPassFile)
      BY <3>2, OverRight
    <3> QED BY <3>1, <3>2
  <2> QED BY <2>1, <2>2, ResolveSettles
<1>4. CASE ResolveTargets
  <2> DEFINE byUrl == FlagUnlessZero("target").from # "file"
             values == [o \in ForTargets \cup {"target"} |->
                          IF o = "target" THEN FlagUnlessZero(o) ELSE TargetOption(o, byUrl)]
  <2>1. PICK next : Resolve(values, next)
    BY <1>4 DEF ResolveTargets
  <2>2. "target" \notin UnlessSet /\ "target" # "once" /\ "target" \notin Defaulted \cup ForTargets
    BY DEF UnlessSet, Defaulted, ForTargets
  <2>3. \A o \in DOMAIN values : Right(o, values[o])
    BY <2>2, UnlessZeroRight DEF Right
  <2> HIDE DEF values
  <2> QED BY <2>1, <2>3, ResolveSettles
<1>5. CASE ResolveOptions
  <2> DEFINE values == [o \in UnlessSet \cup UnlessNonzero \cup FlagOnly |-> DumpOption(o)]
  <2>1. Resolve(values, "compression")
    BY <1>5 DEF ResolveOptions
  <2>2. \A o \in DOMAIN values : Right(o, values[o])
    BY DumpOptionRight DEF OnItsWay
  <2> HIDE DEF values
  <2> QED BY <2>1, <2>2, ResolveSettles
<1>6. CASE ResolveRetention
  <2>1. Right("retention", FlagUnlessZero("retention"))
    BY UnlessZeroRight DEF UnlessSet, Defaulted
  <2>2. CASE RetentionCrashes
    BY <1>6, <2>2, RestSettles DEF ResolveRetention, Goto, configVars, startVars
  <2>3. CASE ~RetentionCrashes
    BY <1>6, <2>1, <2>3, ResolveSettles DEF ResolveRetention
  <2> QED BY <2>2, <2>3
<1>7. CASE ResolveCompression
  <2>1. Right("compression", FlagUnlessZero("compression"))
    BY UnlessZeroRight DEF UnlessSet, Hidden
  <2>2. CASE command = "restore" /\ FileCounts /\ "dump" \notin sections
    BY <1>7, <2>2, RestSettles DEF ResolveCompression, Goto, configVars, startVars
  <2>3. CASE ~(command = "restore" /\ FileCounts /\ "dump" \notin sections)
    <3>1. PICK next : Resolve([o \in {"compression"} |-> FlagUnlessZero(o)], next)
      BY <1>7, <2>3 DEF ResolveCompression
    <3> QED BY <2>1, <3>1, ResolveSettles
  <2> QED BY <2>2, <2>3
<1>8. CASE ResolveEncryption
  <2>1. \A o \in {"encryptor", "key"} : \A value : Right(o, value)
    BY DEF Right, Options, RootOptions, Connection, ForTargets, UnlessSet, UnlessNonzero, FlagOnly,
           Schedule, Encrypting
  <2>2. CASE FlagUnlessZero("encryption").zero
    BY <1>8, <2>2, ResolveSettles DEF ResolveEncryption
  <2>3. CASE ~FlagUnlessZero("encryption").zero
    <3>1. PICK key \in KeyFlags : Resolve(Encryptor(FlagUnlessZero("encryption"), key), "schedule")
      BY <1>8, <2>3 DEF ResolveEncryption
    <3>2. DOMAIN Encryptor(FlagUnlessZero("encryption"), key) = {"encryptor", "key"}
      BY DEF Encryptor
    <3> QED BY <2>1, <3>1, <3>2, ResolveSettles
  <2> QED BY <2>2, <2>3
<1>9. CASE ResolveSchedule
  <2> DEFINE values == [o \in Schedule |-> IF o = "once" THEN FlagUnlessUnset(o) ELSE FlagUnlessZero(o)]
  <2>1. Resolve(values, "running")
    BY <1>9 DEF ResolveSchedule
  <2>2. ASSUME NEW o \in Schedule, o # "once"
        PROVE  o \notin UnlessSet /\ (o \notin Defaulted \/ o \in Hidden)
    BY <2>2 DEF Schedule, UnlessSet, Defaulted, Hidden
  <2>3. \A o \in DOMAIN values : Right(o, values[o])
    BY <2>2, UnlessUnsetRight, UnlessZeroRight
  <2> HIDE DEF values
  <2> QED BY <2>1, <2>3, ResolveSettles
<1>10. CASE ResolveTarget
  <2> DEFINE values == [o \in {"target", "database"} |-> Flag(o)]
  <2>1. Resolve(values, "running")
    BY <1>10 DEF ResolveTarget
  <2>2. IsSet("target")
    BY <1>10 DEF ResolveTarget, OnItsWay
  <2>3. ~InFile("database")
    BY NotThere DEF OnItsWay, NotInFile
  <2>4. \A o \in DOMAIN values : Right(o, values[o])
    BY <2>2, <2>3, FlagRight
  <2> HIDE DEF values
  <2> QED BY <2>1, <2>4, ResolveSettles
<1> QED BY <1>1, <1>2, <1>3, <1>4, <1>5, <1>6, <1>7, <1>8, <1>9, <1>10 DEF Next, Step, Ended

---------------------------------------------------------------------------
(* Encryption. *)

\* A dump that is past the stage of encryption, and was asked to encrypt, has what it needs.
Equipped ==
  stage \in {"schedule", "running"} /\ command = "dump" /\ ~FlagUnlessZero("encryption").zero =>
    /\ {"encryptor", "key"} \subseteq DOMAIN resolved
    /\ ~resolved["key"].zero

\* Nothing the algorithm is read from changes while the command goes on.
LEMMA AskedStays ==
  ASSUME UNCHANGED <<command, given, chain, effective>>
  PROVE  FlagUnlessZero("encryption")' = FlagUnlessZero("encryption")
BY DEF FlagUnlessZero, Flag, InFile, FromFile, FileCounts, Has, Of, Prefix

LEMMA StepEquipped == OnItsWay /\ Equipped /\ [Next]_vars => Equipped'
<1> SUFFICES ASSUME OnItsWay, Equipped, [Next]_vars PROVE Equipped'
  OBVIOUS
<1> USE DEF Goto, Fail, Resolve, startVars, configVars
<1>1. CASE ResolveEncryption
  <2>1. UNCHANGED <<command, given, chain, effective>>
    BY <1>1 DEF ResolveEncryption
  <2>2. CASE FlagUnlessZero("encryption").zero
    BY <2>1, <2>2, AskedStays DEF Equipped
  <2>3. CASE ~FlagUnlessZero("encryption").zero
    <3>1. PICK key \in KeyFlags : Resolve(Encryptor(FlagUnlessZero("encryption"), key), "schedule")
      BY <1>1, <2>3 DEF ResolveEncryption
    <3>2. ~Flag(key).zero
      BY <3>1 DEF KeyFlags
    <3>3. {"encryptor", "key"} \subseteq DOMAIN resolved' /\ resolved'["key"] = Flag(key)
      BY <3>1 DEF Encryptor
    <3> QED BY <3>2, <3>3 DEF Equipped
  <2> QED BY <2>2, <2>3
<1>2. CASE ResolveSchedule
  <2>1. UNCHANGED <<command, given, chain, effective>>
    BY <1>2 DEF ResolveSchedule
  <2>2. CASE command = "dump" /\ ~FlagUnlessZero("encryption").zero
    <3>1. {"encryptor", "key"} \subseteq DOMAIN resolved /\ ~resolved["key"].zero
      BY <1>2, <2>2 DEF ResolveSchedule, Equipped
    <3>2. DOMAIN resolved \subseteq DOMAIN resolved' /\ resolved'["key"] = resolved["key"]
      BY <1>2, <3>1 DEF ResolveSchedule, Schedule
    <3> QED BY <3>1, <3>2 DEF Equipped
  <2>3. CASE ~(command = "dump" /\ ~FlagUnlessZero("encryption").zero)
    BY <2>1, <2>3, AskedStays DEF Equipped
  <2> QED BY <2>2, <2>3
<1>3. CASE ResolveTarget \/ ResolveRetention
  BY <1>3 DEF ResolveTarget, ResolveRetention, OnItsWay, Equipped
<1>4. CASE ReadConfig \/ NoConfig \/ Connect \/ ConnectFails \/ Validate \/ ValidateFails \/ TargetsFail
           \/ CompressionFails \/ EncryptionFails \/ TargetFails
  BY <1>4 DEF ReadConfig, NoConfig, Connect, ConnectFails, Validate, ValidateFails, TargetsFail,
       CompressionFails, EncryptionFails, TargetFails, Equipped
<1>5. CASE ResolveTargets \/ ResolveOptions \/ ResolveCompression
  BY <1>5 DEF ResolveTargets, ResolveOptions, ResolveCompression, Equipped
<1>6. CASE UNCHANGED vars
  BY <1>6, AskedStays DEF vars, Equipped
<1> QED BY <1>1, <1>2, <1>3, <1>4, <1>5, <1>6 DEF Next, Step, Ended

---------------------------------------------------------------------------
(* The theorems. *)

LEMMA InitSettled == Init => Settled /\ Equipped
BY DEF Init, Settled, Equipped

Inv == OnItsWay /\ Settled /\ Equipped

\* The invariant of the start: which command is where, and that what is worked out is right.
THEOREM Invariance == Spec => []Inv
<1>1. Init => Inv
  BY InitOnItsWay, InitSettled DEF Inv
<1>2. Inv /\ [Next]_vars => Inv'
  BY StepOnItsWay, StepSettles, StepEquipped DEF Inv
<1> QED BY <1>1, <1>2, PTL DEF Spec

\* What a flag says goes before the environment, and this before the file, by every rule of
\* every command (cmd/root.go, dump.go, prune.go, restore.go).
THEOREM FlagsPrecede == Spec => []Precedence
<1>1. Inv => Precedence
  BY DEF Inv, Settled, Right, Precedence
<1> QED BY <1>1, Invariance, PTL

\* What only the file says is used, but for the options whose default hides it.
THEOREM FileIsUsed == Spec => []FileFillsIn
<1>1. Inv => FileFillsIn
  BY DEF Inv, Settled, Right, FileFillsIn
<1> QED BY <1>1, Invariance, PTL

\* A dump that was asked to encrypt runs with an encryptor and a key, or not at all.
THEOREM AskedIsEncrypted == Spec => []EncryptedIfAsked
<1>1. Inv => EncryptedIfAsked
  BY DEF Inv, Equipped, EncryptedIfAsked
<1> QED BY <1>1, Invariance, PTL

---------------------------------------------------------------------------
(* Scheduler. *)

\* The time since the last start is followed up to a frequency at least.
FollowedFarEnough == \A o \in TimerOptions : o.frequency <= MaxSince

Types ==
  /\ opts \in TimerOptions
  /\ phase \in 0..(Day - 1)
  /\ wait \in Nat
  /\ since \in Nat
  /\ runs \in 0..2
  /\ main \in {"start", "sleeping"} => timer = "none"
  /\ timer = "none" => runs = 0

\* The wait leads to a match, unless the clock was set since it was worked out.
OnTheWay ==
  opts.cron = "ok" /\ ~stepped =>
    /\ main = "sleeping" \/ timer = "sleeping" => (phase + wait) % Period = 0
    /\ timer = "offering" => phase % Period = 0

\* What has passed and what is left make up a frequency.
Apart ==
  ~opts.once /\ opts.cron = "none" /\ runs > 0 =>
    /\ timer = "sleeping" => since + wait >= opts.frequency
    /\ timer = "offering" => since >= opts.frequency

---------------------------------------------------------------------------
(* Multiples of Period. *)

LEMMA Parameters ==
  /\ Day \in Nat \ {0} /\ Period \in Nat \ {0} /\ Day % Period = 0 /\ MaxSince \in Nat
BY SchedulerAssumption

LEMMA MultipleMeans ==
  ASSUME NEW x \in Int
  PROVE  (x % Period = 0) <=> (\E k \in Int : x = k * Period)
<1>0. Period \in Int /\ Period > 0
  BY Parameters
<1>1. ASSUME x % Period = 0 PROVE \E k \in Int : x = k * Period
  <2>1. x = Period * (x \div Period) + (x % Period) /\ x \div Period \in Int
    BY <1>0
  <2> QED BY <1>0, <1>1, <2>1
<1>2. ASSUME NEW k \in Int, x = k * Period PROVE x % Period = 0
  BY <1>0, <1>2
<1> QED BY <1>1, <1>2

LEMMA MultiplesAddUp ==
  ASSUME NEW x \in Int, NEW y \in Int, x % Period = 0, y % Period = 0
  PROVE  (x - y) % Period = 0
<1>1. PICK k \in Int : x = k * Period
  BY MultipleMeans
<1>2. PICK m \in Int : y = m * Period
  BY MultipleMeans
<1>3. x - y = (k - m) * Period /\ k - m \in Int
  BY <1>1, <1>2, Parameters
<1> QED BY <1>3, MultipleMeans, Parameters

\* The wait for cron ends at a match.
LEMMA CronWaits ==
  ASSUME Types PROVE (phase + WaitForCron) % Period = 0 /\ WaitForCron \in Nat
<1>1. phase \in Int /\ Period \in Int /\ Period > 0
  BY Parameters DEF Types
<1>2. phase = Period * (phase \div Period) + (phase % Period) /\ phase % Period \in 0..(Period - 1)
      /\ phase \div Period \in Int
  BY <1>1
<1>3. phase + WaitForCron = ((phase \div Period) + 1) * Period
  BY <1>1, <1>2 DEF WaitForCron
<1>4. WaitForCron \in Nat
  BY <1>1, <1>2 DEF WaitForCron
<1>5. phase + WaitForCron \in Int /\ (phase \div Period) + 1 \in Int
  BY <1>1, <1>2, <1>4
<1> QED BY <1>3, <1>4, <1>5, MultipleMeans

\* A tick takes from the wait what it gives to the clock, also at midnight.
LEMMA TickLeadsOn ==
  ASSUME Types, wait > 0, (phase + wait) % Period = 0
  PROVE  (((phase + 1) % Day) + (wait - 1)) % Period = 0
<1>1. phase \in Int /\ wait \in Int /\ Day \in Int /\ Day > 0 /\ 0 <= phase /\ phase < Day
  BY Parameters DEF Types
<1>2. CASE phase + 1 < Day
  <2>1. (phase + 1) % Day = phase + 1
    BY <1>1, <1>2
  <2>2. ((phase + 1) % Day) + (wait - 1) = phase + wait
    BY <1>1, <2>1
  <2> QED BY <2>2
<1>3. CASE phase + 1 = Day
  <2>1. (phase + 1) % Day = 0
    BY <1>1, <1>3
  <2>2. ((phase + 1) % Day) + (wait - 1) = (phase + wait) - Day
    BY <1>1, <1>3, <2>1
  <2>3. ((phase + wait) - Day) % Period = 0
    <3>1. phase + wait \in Int
      BY <1>1
    <3> QED BY <1>1, <3>1, Parameters, MultiplesAddUp
  <2> QED BY <2>2, <2>3
<1> QED BY <1>1, <1>2, <1>3

---------------------------------------------------------------------------
(* The invariant. *)

TimerInv == Types /\ OnTheWay /\ Apart

LEMMA OptionTypes ==
  ASSUME NEW o \in TimerOptions
  PROVE  o.frequency \in Nat /\ o.begin \in Begins /\ o.cron \in {"none", "ok", "bad"}
BY SchedulerAssumption

LEMMA BeginWaits ==
  ASSUME Types, opts.begin.kind \in {"rel", "abs"} PROVE WaitForBegin \in Nat
<1>1. phase \in Int /\ Day \in Int /\ 0 <= phase /\ phase < Day
  BY Parameters DEF Types
<1>2. opts.begin \in Begins
  BY OptionTypes DEF Types
<1>3. CASE opts.begin.kind = "rel"
  <2>1. opts.begin.ticks \in Nat
    BY <1>2, <1>3 DEF Begins
  <2> QED BY <1>3, <2>1 DEF WaitForBegin
<1>4. CASE opts.begin.kind = "abs"
  <2>1. opts.begin.at \in 0..(Day - 1)
    BY <1>2, <1>4 DEF Begins
  <2> QED BY <1>1, <1>4, <2>1 DEF WaitForBegin
<1> QED BY <1>3, <1>4

LEMMA InitInv == TimerInit => TimerInv
BY Parameters DEF TimerInit, TimerInv, Types, OnTheWay, Apart

LEMMA FirstDelayKeeps == ASSUME TimerInv, FirstDelay PROVE TimerInv'
<1> USE DEF TimerInv
<1>1. /\ main = "start" /\ timer = "none" /\ runs = 0
      /\ UNCHANGED <<opts, phase, timer, last, runs, since>>
  BY DEF FirstDelay, Types
<1>2. CASE main' = "exit" /\ UNCHANGED wait
  BY <1>1, <1>2 DEF Types, OnTheWay, Apart
<1>3. CASE main' = "sleeping" /\ opts.cron = "ok" /\ wait' = WaitForCron
  BY <1>1, <1>3, CronWaits DEF Types, OnTheWay, Apart
<1>4. CASE /\ main' = "sleeping" /\ opts.cron # "ok"
           /\ wait' = IF opts.begin.kind = "none" THEN 0 ELSE WaitForBegin
           /\ opts.begin.kind # "bad"
  <2>1. opts.begin.kind \in {"none", "bad", "rel", "abs"}
    <3>1. opts.begin \in Begins
      BY OptionTypes DEF Types
    <3> QED BY <3>1 DEF Begins
  <2>2. wait' \in Nat
    BY <1>4, <2>1, BeginWaits
  <2> QED BY <1>1, <1>4, <2>2 DEF Types, OnTheWay, Apart
<1>5. opts.cron \in {"none", "ok", "bad"}
  BY OptionTypes DEF Types
<1> QED BY <1>2, <1>3, <1>4, <1>5 DEF FirstDelay

\* An update that is taken starts the count of the ticks again.
LEMMA SendTimerMeans ==
  ASSUME Types, NEW isLast, SendTimer(isLast)
  PROVE  /\ runs' \in 0..2
         /\ (since' = 0 /\ main' = "running") \/ UNCHANGED <<main, runs, since>>
BY DEF SendTimer, Types

LEMMA OfferKeeps == ASSUME TimerInv, Offer \/ OfferOnce PROVE TimerInv'
<1> USE DEF TimerInv
<1>1. /\ timer = "offering" /\ UNCHANGED <<opts, phase>>
      /\ main \notin {"start", "sleeping"}
  BY DEF Offer, OfferOnce, Types
<1>2. /\ runs' \in 0..2
      /\ (since' = 0 /\ main' = "running") \/ UNCHANGED <<main, runs, since>>
  BY SendTimerMeans DEF Offer, OfferOnce
<1>3. opts.frequency \in Nat
  BY OptionTypes DEF Types
<1>4. CASE OfferOnce
  BY <1>1, <1>2, <1>4 DEF OfferOnce, Types, OnTheWay, Apart
<1>5. CASE Offer
  <2>1. /\ timer' = "sleeping"
        /\ wait' = IF opts.cron = "ok" THEN WaitForCron ELSE opts.frequency
    BY <1>5 DEF Offer
  <2>2. wait' \in Nat /\ (opts.cron = "ok" => (phase + wait') % Period = 0)
    BY <1>3, <2>1, CronWaits
  <2>3. Types'
    BY <1>1, <1>2, <2>1, <2>2 DEF Types
  <2>4. OnTheWay'
    BY <1>1, <2>1, <2>2 DEF OnTheWay
  <2>5. Apart'
    BY <1>1, <1>2, <1>3, <2>1 DEF Apart, Types
  <2> QED BY <2>3, <2>4, <2>5
<1> QED BY <1>4, <1>5

LEMMA TickKeeps == ASSUME FollowedFarEnough, TimerInv, Tick PROVE TimerInv'
<1> USE DEF TimerInv
<1>1. /\ timer # "offering" /\ UNCHANGED <<opts, main, timer, runs, stepped>>
      /\ (main = "sleeping" \/ timer = "sleeping" => wait > 0)
      /\ phase' = (phase + 1) % Day
      /\ wait' = IF wait > 0 THEN wait - 1 ELSE 0
      /\ since' = IF since < MaxSince THEN since + 1 ELSE since
  BY DEF Tick, Idle
<1>2. opts.frequency \in Nat /\ opts.frequency <= MaxSince /\ MaxSince \in Nat
  BY OptionTypes, Parameters DEF FollowedFarEnough, Types
<1>3. Types'
  <2>1. phase' \in 0..(Day - 1)
    BY <1>1, Parameters DEF Types
  <2> QED BY <1>1, <2>1 DEF Types
<1>4. OnTheWay'
  <2>1. CASE opts.cron = "ok" /\ ~stepped /\ (main = "sleeping" \/ timer = "sleeping")
    <3>1. wait' = wait - 1 /\ (phase + wait) % Period = 0
      BY <1>1, <2>1 DEF OnTheWay
    <3>2. (phase' + wait') % Period = 0
      BY <1>1, <2>1, <3>1, TickLeadsOn
    <3> QED BY <1>1, <3>2 DEF OnTheWay
  <2>2. CASE ~(opts.cron = "ok" /\ ~stepped /\ (main = "sleeping" \/ timer = "sleeping"))
    BY <1>1, <2>2 DEF OnTheWay
  <2> QED BY <2>1, <2>2
<1>5. Apart'
  BY <1>1, <1>2 DEF Apart, Types
<1> QED BY <1>3, <1>4, <1>5

LEMMA StepInv == ASSUME FollowedFarEnough, TimerInv, [TimerNext]_timerVars PROVE TimerInv'
<1> USE DEF TimerInv
<1>1. CASE StartTimer
  <2>1. opts.cron = "ok" /\ ~stepped => phase % Period = 0
    <3>1. opts.cron = "ok" /\ ~stepped => (phase + 0) % Period = 0
      BY <1>1 DEF StartTimer, OnTheWay
    <3> QED BY <3>1 DEF Types
  <2> QED BY <1>1, <2>1 DEF StartTimer, Types, OnTheWay, Apart
<1>2. CASE Wake
  <2>1. opts.cron = "ok" /\ ~stepped => phase % Period = 0
    <3>1. opts.cron = "ok" /\ ~stepped => (phase + 0) % Period = 0
      BY <1>2 DEF Wake, OnTheWay
    <3> QED BY <3>1 DEF Types
  <2>2. opts.frequency \in Nat
    BY OptionTypes DEF Types
  <2> QED BY <1>2, <2>1, <2>2 DEF Wake, Types, OnTheWay, Apart
<1>3. CASE Panic \/ Receive \/ Closed \/ CommandOk \/ CommandFails
  BY <1>3 DEF Panic, Receive, Closed, CommandOk, CommandFails, Types, OnTheWay, Apart
<1>4. CASE SetClock
  <2>1. phase' \in 0..(Day - 1) /\ stepped'
    BY <1>4 DEF SetClock
  <2> QED BY <1>4, <2>1 DEF SetClock, Types, OnTheWay, Apart
<1>5. CASE UNCHANGED timerVars
  BY <1>5 DEF timerVars, Types, OnTheWay, Apart
<1> QED
  BY <1>1, <1>2, <1>3, <1>4, <1>5, FirstDelayKeeps, OfferKeeps, TickKeeps
  DEF TimerNext, Starting, Timing, Command, TimerEnded

---------------------------------------------------------------------------
(* The theorems. *)

\* The invariant of the two goroutines.
THEOREM TimerInvariance == ASSUME FollowedFarEnough PROVE TimerSpec => []TimerInv
BY InitInv, StepInv, PTL DEF TimerSpec

\* The command is started only when the timer goroutine offers.
LEMMA StartsWhenOffered ==
  ASSUME [TimerNext]_timerVars, StartsRun PROVE timer = "offering" /\ (OfferOnce \/ Offer)
BY DEF StartsRun, TimerNext, Starting, Timing, Command, FirstDelay, StartTimer, Receive, Closed, OfferOnce,
       Offer, Panic, Wake, CommandOk, CommandFails, Tick, SetClock, TimerEnded, timerVars

\* "it runs according to the cron schedule" and what falls into a run "will be skipped"
\* (docs/scheduling.md:18,63): every run starts at a match, but for one that ends a sleep
\* during which the clock was set.  However often that happens, the next sleep is right again.
THEOREM RunsAtMatches ==
  ASSUME FollowedFarEnough PROVE TimerSpec => CronOnSlot
<1> DEFINE OnSlot == ~opts.once /\ opts.cron = "ok" /\ StartsRun => stepped \/ phase % Period = 0
<1>1. TimerInv /\ [TimerNext]_timerVars => [OnSlot]_timerVars
  BY StartsWhenOffered DEF TimerInv, OnTheWay
<1> QED BY <1>1, TimerInvariance, PTL DEF TimerSpec, CronOnSlot

\* "make sure we at least wait one full frequency" (timer.go:89), however long the runs take
\* and whatever happens to the wall clock.
THEOREM RunsAreApart ==
  ASSUME FollowedFarEnough PROVE TimerSpec => FrequencyApart
<1> DEFINE FullFrequency ==
      ~opts.once /\ opts.cron = "none" /\ StartsRun /\ runs > 0 => since >= opts.frequency
<1>1. TimerInv /\ [TimerNext]_timerVars => [FullFrequency]_timerVars
  BY StartsWhenOffered DEF TimerInv, Apart
<1> QED BY <1>1, TimerInvariance, PTL DEF TimerSpec, FrequencyApart

=============================================================================
