--------------------------- MODULE ArchiveWriter ---------------------------
(***************************************************************************)
(* The archive of a dump (pkg/core/dump.go from 144, pkg/archive Tar,      *)
(* pkg/encrypt, pkg/compression): tar writes into the encryptor, that into *)
(* the compressor, that into the file, and each layer may hold back what   *)
(* it was given until it is closed.  A write to the file may fail, the     *)
(* disk being full, and a later one succeed.                               *)
(*                                                                         *)
(* What flows is a sequence of pieces: the pieces of the dumped files are  *)
(* the numbers 1..Pieces, and each layer adds one at its end.  Pieces stay *)
(* recognisable in the layers below: encryption and compression matter     *)
(* here only by when they let go of what they hold.                        *)
(***************************************************************************)
EXTENDS Integers, Sequences

CONSTANTS
  Setups,     \* the layers there may be, and how many writes to the file may fail (a bound)
  Pieces      \* how many writes tar needs for the files: headers and contents

\* "block" is aes256-cbc, with or without pbkdf2; "sealed" is chacha20-poly1305 and smime;
\* "age" is the stream writer of the age library.
ASSUME ArchiveWriterAssumption ==
  /\ Pieces \in Nat
  /\ Setups \subseteq [encryption : {"none", "block", "sealed", "age"},
                       compression : {"none", "gzip"}, faults : Nat]

VARIABLES
  setup,     \* one of Setups
  pipe,      \* the layers: see Empty
  step,        \* "setup", "walk", "tarClose", "writerClose", "archiveClose", "compressorClose"
             \* or "done"
  walked,    \* the pieces written by the walk
  err,       \* the walk's error, which Tar answers
  result     \* "none", "ok" or "error"

encryption == setup.encryption
compression == setup.compression

archiveVars == <<setup, pipe, step, walked, err, result>>

Empty == [enc |-> <<>>, encClosed |-> FALSE,      \* the encryptor's buffer and flag
          comp |-> <<>>, compClosed |-> FALSE,    \* the compressor's
          latched |-> FALSE,                      \* the compressor's z.err
          file |-> <<>>, faults |-> 0,
          ok |-> TRUE]                            \* the last call's answer

Start == 0                 \* the IV or nonce
TarEnd == Pieces + 1
Seal == Pieces + 2         \* the padding or tag
GzipEnd == Pieces + 3

\* What a reader needs to have.
Plain == [i \in 1..Pieces |-> i] \o <<TarEnd>>
Encrypted == IF encryption = "none" THEN Plain ELSE <<Start>> \o Plain \o <<Seal>>
Whole == IF compression = "none" THEN Encrypted ELSE Encrypted \o <<GzipEnd>>

---------------------------------------------------------------------------
(* What a call on each layer can do: the set of the pipes it may leave.    *)

\* A write to the file writes everything, or a part and fails.
ToFile(p, w) ==
  {[p EXCEPT !.file = @ \o SubSeq(w, 1, k),
             !.ok = (k = Len(w)),
             !.faults = IF k = Len(w) THEN @ ELSE @ + 1] :
     k \in IF p.faults < setup.faults THEN 0..Len(w) ELSE {Len(w)}}

\* mutant: the compressor forgets that a write of its own failed
FlushForgets(p, w) == {[q EXCEPT !.comp = <<>>] : q \in ToFile(p, p.comp \o w)}

\* The compressor lets go of all it holds and remembers an error.
Flush(p, w) ==
  {[q EXCEPT !.latched = ~q.ok, !.comp = <<>>] : q \in ToFile(p, p.comp \o w)}

\* nopWriteCloser, gzip.Writer
Compress(p, w) ==
  IF compression = "none" THEN ToFile(p, w)
  ELSE IF p.latched THEN {[p EXCEPT !.ok = FALSE]}
  ELSE {[p EXCEPT !.comp = @ \o w, !.ok = TRUE]} \cup Flush(p, w)

CloseCompressor(p) ==
  IF compression = "none" \/ (p.compClosed /\ ~p.latched) THEN {[p EXCEPT !.ok = TRUE]}
  ELSE IF p.latched THEN {[p EXCEPT !.ok = FALSE]}
  ELSE Flush([p EXCEPT !.compClosed = TRUE], <<GzipEnd>>)

\* A block cipher holds back less than a block, and a block that it could not write; age holds
\* back a chunk, of which there is always some, and is closed by an error; the others hold
\* everything.
Encrypt(p, w) ==
  CASE encryption = "none" -> Compress(p, w)
    [] encryption = "sealed" -> {[p EXCEPT !.enc = @ \o w, !.ok = TRUE]}
    [] encryption = "block" ->
         LET all == p.enc \o w
             Rest(k) == SubSeq(all, k + 1, Len(all))
         IN UNION {{IF q.ok THEN [q EXCEPT !.enc = Rest(k)] ELSE [q EXCEPT !.enc = all] :
                      q \in Compress(p, SubSeq(all, 1, k))} :
                   k \in {Len(all) - 1, Len(all)}}
    [] encryption = "age" /\ p.encClosed -> {[p EXCEPT !.ok = FALSE]}
    [] encryption = "age" /\ ~p.encClosed ->
         {[p EXCEPT !.enc = @ \o w, !.ok = TRUE]}
           \cup {[q EXCEPT !.enc = w, !.encClosed = ~q.ok] : q \in Compress(p, p.enc)}

\* mutant: the second close of an encryptor is an error
CloseEncryptorOnce(p) ==
  IF encryption = "none" THEN CloseCompressor(p)
  ELSE IF p.encClosed THEN {[p EXCEPT !.ok = FALSE]}
  ELSE Compress([p EXCEPT !.encClosed = TRUE, !.enc = <<>>], p.enc \o <<Seal>>)

\* Close of archiveWriter, which is the compressor if nothing is encrypted.  An encryptor
\* notes that it is closed before it writes what it holds; closed again, that of age answers
\* an error.
CloseEncryptor(p) ==
  IF encryption = "none" THEN CloseCompressor(p)
  ELSE IF p.encClosed THEN {[p EXCEPT !.ok = (encryption # "age")]}
  ELSE Compress([p EXCEPT !.encClosed = TRUE, !.enc = <<>>], p.enc \o <<Seal>>)

---------------------------------------------------------------------------
ArchiveInit ==
  /\ setup \in Setups
  /\ pipe = Empty
  /\ step = "setup"
  /\ walked = 0
  /\ err = FALSE
  /\ result = "none"

\* The run returns the error.
Fail ==
  /\ step' = "done"
  /\ result' = "error"

\* Open the file and set up the layers; both encryptors but smime write an IV or nonce.
Setup ==
  /\ step = "setup"
  /\ \/ Fail /\ UNCHANGED pipe          \* the file cannot be created
     \/ \E p \in IF encryption = "none" THEN {pipe} ELSE Compress(pipe, <<Start>>) :
          /\ pipe' = p
          /\ IF p.ok THEN step' = "walk" /\ UNCHANGED result ELSE Fail
  /\ UNCHANGED <<setup, walked, err>>

\* Tar writes the header or the contents of the next file.
WriteFile ==
  /\ step = "walk" /\ walked < Pieces
  /\ \E p \in Encrypt(pipe, <<walked + 1>>) :
       /\ pipe' = p
       /\ err' = ~p.ok
       /\ step' = IF p.ok THEN "walk" ELSE "tarClose"
  /\ walked' = walked + 1
  /\ UNCHANGED <<setup, result>>

\* ... or cannot read one, or is through.
EndWalk ==
  /\ step = "walk"
  /\ \/ walked < Pieces /\ err' = TRUE
     \/ walked = Pieces /\ err' = FALSE
  /\ step' = "tarClose"
  /\ UNCHANGED <<setup, pipe, walked, result>>

\* The deferred tw.Close: writes nothing after an error, and its own error is dropped.
CloseTar ==
  /\ step = "tarClose"
  /\ \E p \in IF err THEN {pipe} ELSE Encrypt(pipe, <<TarEnd>>) : pipe' = p
  /\ step' = "writerClose"
  /\ UNCHANGED <<setup, walked, err, result>>

\* The deferred writer.Close, whose error is dropped too; then Tar returns the walk's error.
CloseWriter ==
  /\ step = "writerClose"
  /\ \E p \in CloseEncryptor(pipe) : pipe' = p
  /\ IF err THEN Fail ELSE step' = "archiveClose" /\ UNCHANGED result
  /\ UNCHANGED <<setup, walked, err>>

\* archiveWriter.Close, for the second time
CloseArchive ==
  /\ step = "archiveClose"
  /\ \E p \in CloseEncryptor(pipe) :
       /\ pipe' = p
       /\ CASE ~p.ok -> Fail
            [] p.ok /\ encryption # "none" -> step' = "compressorClose" /\ UNCHANGED result
            [] p.ok /\ encryption = "none" -> step' = "done" /\ result' = "ok"
  /\ UNCHANGED <<setup, walked, err>>

\* compressedWriter.Close
CloseCompressed ==
  /\ step = "compressorClose"
  /\ \E p \in CloseCompressor(pipe) :
       /\ pipe' = p
       /\ IF p.ok THEN step' = "done" /\ result' = "ok" ELSE Fail
  /\ UNCHANGED <<setup, walked, err>>

ArchiveNext ==
  \/ Setup \/ WriteFile \/ EndWalk
  \/ CloseTar \/ CloseWriter \/ CloseArchive \/ CloseCompressed

ArchiveSpec == ArchiveInit /\ [][ArchiveNext]_archiveVars

---------------------------------------------------------------------------
(* Properties. *)

\* Each variable holds a value of its type.
ArchiveTypeOK ==
  /\ setup \in Setups
  /\ step \in {"setup", "walk", "tarClose", "writerClose", "archiveClose", "compressorClose",
             "done"}
  /\ walked \in 0..Pieces
  /\ step = "done" <=> result \in {"ok", "error"}
  /\ pipe.faults \in 0..setup.faults

\* "failed to close archive writer" and "failed to close compressor" (core/dump.go:178,184)
\* are errors: a run that goes on to upload the archive has all of it in the file, the
\* layers' ends in their order.
OkMeansWhole == result = "ok" => pipe.file = Whole

\* A run fails for a reason: closing every layer twice does no harm (archive/tar.go:22
\* against core/dump.go:175-186).
FailsForCause ==
  [][result' = "error" => err \/ step = "setup" \/ pipe'.faults > 0]_archiveVars

=============================================================================
