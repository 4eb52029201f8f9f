-------------------------- MODULE RestoreRunProofs --------------------------
(***************************************************************************)
(* Proofs about RestoreRun, for one restore at a time and any backups: of  *)
(* whatever length they are, and whatever an earlier run that was killed   *)
(* has left in the temporary file.                                         *)
(*                                                                         *)
(* What is behind the archive in the file does no harm, since unpacking    *)
(* ends at the archive's end; so the invariant says of the file only that  *)
(* it begins with what has been copied.                                    *)
(***************************************************************************)
EXTENDS RestoreRun, TLAPS

OneRestorer == \A p, q \in Restorers : p = q

\* Every extracted file can be opened.
EnoughFiles == \A b \in Backups : Schemas[b] <= MaxOpen

Contents == (Backups \X Nat) \cup {End, Nothing}
Stages == {"idle", "pull", "copy", "pre", "open", "untar", "restore", "post", "done"}

Types ==
  /\ pc \in [Restorers -> Stages]
  /\ setup \in [Restorers -> Setups]
  /\ wanted \in [Restorers -> Backups]
  /\ content \in Seq([Places -> Contents])
  /\ inode \in 0..Len(content)
  /\ fd \in [Restorers -> Nat]
  /\ count \in [Restorers -> Nat]
  /\ extracted \in [Restorers -> Seq(Contents)]
  /\ run \in [Restorers -> Nat] /\ tmpdirs \subseteq Nat
  /\ applied \in [Restorers -> SUBSET Contents]
  /\ result \in [Restorers -> {"none", "ok", "error"}]
  /\ runs \in Nat /\ crashes \in Nat

\* The file of inode i begins with the first n pieces of backup b.
BeginsWith(i, n, b) ==
  /\ i \in 1..Len(content)
  /\ n <= Schemas[b] + 1
  /\ \A k \in 1..n : content[i][k] = Archive(b)[k]

\* The temporary directory of p has the first n files of backup b.
HasExtracted(p, n, b) ==
  /\ Len(extracted[p]) = n
  /\ n <= Schemas[b]
  /\ \A k \in 1..n : extracted[p][k] = <<b, k>>

\* Where the wanted backup is, as the run goes on.
OnItsWay ==
  \A p \in Restorers :
    /\ pc[p] = "copy" => fd[p] = inode /\ BeginsWith(inode, count[p], wanted[p])
    /\ pc[p] \in {"pre", "open"} => BeginsWith(inode, Schemas[wanted[p]] + 1, wanted[p])
    /\ pc[p] \in {"pull", "copy", "pre", "open"} => extracted[p] = <<>>
    /\ pc[p] = "untar" =>
         /\ fd[p] = inode /\ BeginsWith(inode, Schemas[wanted[p]] + 1, wanted[p])
         /\ HasExtracted(p, count[p], wanted[p])
    /\ pc[p] \in {"restore", "post"} => HasExtracted(p, Schemas[wanted[p]], wanted[p])
    /\ pc[p] = "post" => applied[p] = Pieces(wanted[p])

\* What a run that has ended says, and what it leaves behind.
Finished ==
  /\ \A d \in tmpdirs : d <= runs
  /\ \A p \in Restorers :
       /\ run[p] <= runs
       /\ pc[p] = "done" <=> result[p] # "none"
       /\ pc[p] \in {"pull", "copy", "pre", "done"} => run[p] \notin tmpdirs
       /\ result[p] = "ok" => applied[p] = Pieces(wanted[p]) /\ inode = 0

Inv == Types /\ OnItsWay /\ Finished

---------------------------------------------------------------------------
(* Archives and what is unpacked from them. *)

LEMMA Lengths ==
  /\ MostSchemas \in Nat
  /\ \A b \in Backups : Schemas[b] \in Nat /\ Schemas[b] <= MostSchemas
BY RestoreRunAssumption

LEMMA ArchiveMeans ==
  ASSUME NEW b \in Backups
  PROVE  /\ Archive(b) \in [Places -> Contents]
         /\ \A k \in 1..Schemas[b] : Archive(b)[k] = <<b, k>>
         /\ Archive(b)[Schemas[b] + 1] = End
         /\ Schemas[b] + 1 \in Places
<1>1. Schemas[b] \in Nat /\ Schemas[b] <= MostSchemas /\ MostSchemas \in Nat
  BY Lengths
<1>2. \A i \in Places : i \in Nat /\ (i <= Schemas[b] => <<b, i>> \in Contents)
  BY <1>1 DEF Places, Contents
<1>3. Archive(b) \in [Places -> Contents]
  BY <1>1, <1>2 DEF Archive, Contents
<1> QED BY <1>1, <1>3 DEF Archive, Places

LEMMA Updated ==
  ASSUME NEW S, NEW s \in Seq(S), NEW i \in 1..Len(s), NEW x \in S
  PROVE  /\ [s EXCEPT ![i] = x] \in Seq(S) /\ Len([s EXCEPT ![i] = x]) = Len(s)
         /\ [s EXCEPT ![i] = x][i] = x
OBVIOUS

LEMMA BlankMeans == Blank \in [Places -> Contents]
BY DEF Blank, Contents

\* A piece of a backup is not the end of an archive, nor nothing.
LEMMA PiecesDiffer == \A b \in Backups, k \in Nat \ {0} : <<b, k>> \notin {End, Nothing}
BY DEF End, Nothing

LEMMA ExtractedAre ==
  ASSUME NEW p \in Restorers, NEW b \in Backups, HasExtracted(p, Schemas[b], b)
  PROVE  /\ {extracted[p][i] : i \in 1..Len(extracted[p])} = Pieces(b)
         /\ EnoughFiles => Opened(p) = Pieces(b)
<1>1. Schemas[b] \in Nat
  BY Lengths
<1>2. {extracted[p][i] : i \in 1..Len(extracted[p])} = Pieces(b)
  BY <1>1 DEF HasExtracted, Pieces
<1>3. ASSUME EnoughFiles PROVE Opened(p) = Pieces(b)
  <2>1. MaxOpen \in Nat /\ Schemas[b] <= MaxOpen
    BY <1>3, RestoreRunAssumption DEF EnoughFiles
  <2>2. (IF Len(extracted[p]) < MaxOpen THEN Len(extracted[p]) ELSE MaxOpen) = Schemas[b]
    BY <1>1, <2>1 DEF HasExtracted
  <2> QED BY <1>1, <2>2 DEF Opened, HasExtracted, Pieces
<1> QED BY <1>2, <1>3

---------------------------------------------------------------------------
(* Steps.  With one restorer a step of p changes nothing of another one. *)

LEMMA InitInv == Init => Inv
<1> SUFFICES ASSUME Init PROVE Inv
  OBVIOUS
<1>1. Types
  BY DEF Init, Types, Stages
<1>2. OnItsWay
  BY DEF Init, OnItsWay
<1>3. Finished
  BY DEF Init, Finished
<1> QED BY <1>1, <1>2, <1>3 DEF Inv

LEMMA BeginInv ==
  ASSUME Inv, OneRestorer, NEW p \in Restorers, Begin(p) PROVE Inv'
<1>1. Types'
  BY DEF Begin, Inv, Types, Goto, files, Stages
<1>2. OnItsWay'
  BY DEF Begin, Inv, Types, OnItsWay, OneRestorer, Goto, files
<1>3. Finished'
  BY DEF Begin, Inv, Types, Finished, OneRestorer, Goto, files
<1> QED BY <1>1, <1>2, <1>3 DEF Inv

LEMMA PullOpensInv ==
  ASSUME Inv, OneRestorer, NEW p \in Restorers, PullOpens(p) PROVE Inv'
<1>0. Len(content) \in Nat /\ inode \in Nat
  BY DEF Inv, Types
<1>1. /\ content' \in Seq([Places -> Contents])
      /\ inode' \in 1..Len(content')
  <2>1. CASE inode = 0
    <3>1. content' = Append(content, Blank) /\ inode' = Len(content) + 1
      BY <2>1 DEF PullOpens
    <3>2. content \in Seq([Places -> Contents])
      BY DEF Inv, Types
    <3>3. Append(content, Blank) \in Seq([Places -> Contents])
          /\ Len(Append(content, Blank)) = Len(content) + 1
      BY <3>2, BlankMeans
    <3> QED BY <1>0, <3>1, <3>3
  <2>2. CASE inode # 0
    <3>1. content' = IF setup[p].truncates THEN [content EXCEPT ![inode] = Blank] ELSE content
      BY <2>2 DEF PullOpens
    <3>2. content \in Seq([Places -> Contents]) /\ inode \in 1..Len(content) /\ inode' = inode
      BY <1>0, <2>2 DEF PullOpens, Inv, Types
    <3>3. [content EXCEPT ![inode] = Blank] \in Seq([Places -> Contents])
          /\ Len([content EXCEPT ![inode] = Blank]) = Len(content)
      BY <3>2, BlankMeans, Updated
    <3> QED BY <3>1, <3>2, <3>3
  <2> QED BY <2>1, <2>2
<1>2. Types'
  <2>1. inode' \in 0..Len(content') /\ inode' \in Nat
    BY <1>1
  <2>2. pc' \in [Restorers -> Stages] /\ fd' \in [Restorers -> Nat] /\ count' \in [Restorers -> Nat]
    BY <2>1 DEF PullOpens, Inv, Types, Goto, Stages
  <2>3. UNCHANGED <<setup, wanted, extracted, tmpdirs, applied, result, run, runs, crashes>>
    BY DEF PullOpens
  <2> QED BY <1>1, <2>1, <2>2, <2>3 DEF Inv, Types
<1>3. OnItsWay'
  <2> SUFFICES ASSUME NEW q \in Restorers
               PROVE  /\ pc'[q] = "copy" /\ extracted'[q] = <<>>
                      /\ fd'[q] = inode' /\ BeginsWith(inode, count[q], wanted[q])'
    BY DEF OnItsWay
  <2>1. q = p
    BY DEF OneRestorer
  <2>2. pc'[p] = "copy" /\ extracted'[p] = <<>> /\ fd'[p] = inode' /\ count'[p] = 0
    BY DEF PullOpens, Goto, Inv, Types, OnItsWay
  <2>3. Schemas[wanted'[p]] \in Nat
    BY <1>2, Lengths DEF Types
  <2> QED BY <1>1, <2>1, <2>2, <2>3 DEF BeginsWith
<1>4. Finished'
  BY DEF PullOpens, Inv, Types, Finished, OneRestorer, Goto
<1> QED BY <1>2, <1>3, <1>4 DEF Inv

LEMMA PullCopiesInv ==
  ASSUME Inv, OneRestorer, NEW p \in Restorers, PullCopies(p) PROVE Inv'
<1> DEFINE b == wanted[p]
<1> DEFINE n == count[p]
<1> DEFINE piece == Archive(b)[n + 1]
<1>0. b \in Backups /\ Schemas[b] \in Nat /\ MostSchemas \in Nat /\ Schemas[b] <= MostSchemas
  BY Lengths DEF Inv, Types
<1>1. /\ n \in Nat /\ n <= Schemas[b] /\ n + 1 \in Places
      /\ fd[p] = inode /\ inode \in 1..Len(content)
      /\ \A k \in 1..n : content[inode][k] = Archive(b)[k]
  <2>1. /\ n \in Nat /\ n <= Schemas[b] /\ fd[p] = inode /\ BeginsWith(inode, n, b)
    BY DEF PullCopies, Inv, Types, OnItsWay
  <2>2. n + 1 \in Places
    BY <1>0, <2>1 DEF Places
  <2> QED BY <2>1, <2>2 DEF BeginsWith
<1>2. piece \in Contents
  BY <1>0, <1>1, ArchiveMeans
<1>3. content[inode] \in [Places -> Contents]
  BY <1>1 DEF Inv, Types
<1>4. content' = [content EXCEPT ![inode] = [content[inode] EXCEPT ![n + 1] = piece]]
  BY <1>1 DEF PullCopies
<1>5. [content[inode] EXCEPT ![n + 1] = piece] \in [Places -> Contents]
  BY <1>2, <1>3
<1>6. /\ content' \in Seq([Places -> Contents]) /\ Len(content') = Len(content)
      /\ content'[inode] = [content[inode] EXCEPT ![n + 1] = piece]
  <2>1. content \in Seq([Places -> Contents]) /\ inode \in 1..Len(content)
    BY <1>1 DEF Inv, Types
  <2> QED BY <1>4, <1>5, <2>1, Updated
<1>7. Types'
  <2>1. inode' \in 0..Len(content') /\ count' \in [Restorers -> Nat]
    BY <1>6 DEF PullCopies, Inv, Types
  <2>2. UNCHANGED <<pc, setup, wanted, fd, extracted, tmpdirs, applied, result, run, runs, crashes>>
    BY DEF PullCopies
  <2> QED BY <1>6, <2>1, <2>2 DEF Inv, Types
<1>8. \A k \in 1..n + 1 : content'[inode][k] = Archive(b)[k]
  <2> TAKE k \in 1..n + 1
  <2>1. CASE k = n + 1
    BY <1>1, <1>3, <1>6, <2>1
  <2>2. CASE k \in 1..n
    BY <1>1, <1>3, <1>6, <2>2 DEF Places
  <2> QED BY <1>1, <2>1, <2>2
<1>9. OnItsWay'
  <2> SUFFICES ASSUME NEW q \in Restorers
               PROVE  /\ pc'[q] = "copy" /\ extracted'[q] = <<>>
                      /\ fd'[q] = inode' /\ BeginsWith(inode, count[q], wanted[q])'
    BY DEF OnItsWay
  <2>1. q = p
    BY DEF OneRestorer
  <2>2. /\ pc'[p] = "copy" /\ extracted'[p] = <<>> /\ fd'[p] = inode /\ inode' = inode
        /\ count'[p] = n + 1 /\ wanted'[p] = b
    BY <1>1 DEF PullCopies, Inv, Types, OnItsWay
  <2>3. n + 1 <= Schemas[b] + 1
    BY <1>0, <1>1
  <2>4. BeginsWith(inode, count[p], wanted[p])'
    <3>1. inode' \in 1..Len(content')
      BY <1>1, <1>6, <2>2
    <3>2. count'[p] <= Schemas[wanted'[p]] + 1
      BY <2>2, <2>3
    <3>3. \A k \in 1..count'[p] : content'[inode'][k] = Archive(wanted'[p])[k]
      BY <1>8, <2>2
    <3> QED BY <3>1, <3>2, <3>3 DEF BeginsWith
  <2> QED BY <2>1, <2>2, <2>4
<1>10. Finished'
  BY DEF PullCopies, Inv, Types, Finished
<1> QED BY <1>7, <1>9, <1>10 DEF Inv

LEMMA PullEndsInv ==
  ASSUME Inv, OneRestorer, NEW p \in Restorers, PullEnds(p) PROVE Inv'
<1>0. Schemas[wanted[p]] \in Nat /\ count[p] \in Nat
  BY Lengths DEF Inv, Types
<1>1. Types'
  BY DEF PullEnds, Inv, Types, Goto, files, Stages
<1>2. BeginsWith(inode, Schemas[wanted[p]] + 1, wanted[p]) /\ extracted[p] = <<>>
  <2>1. count[p] = Schemas[wanted[p]] + 1
    <3>1. BeginsWith(inode, count[p], wanted[p]) /\ count[p] > Schemas[wanted[p]]
      BY DEF PullEnds, Inv, OnItsWay
    <3> QED BY <1>0, <3>1 DEF BeginsWith
  <2> QED BY <2>1 DEF PullEnds, Inv, OnItsWay
<1>3. OnItsWay'
  <2> SUFFICES ASSUME NEW q \in Restorers
               PROVE  /\ pc'[q] = "pre" /\ extracted'[q] = <<>>
                      /\ BeginsWith(inode, Schemas[wanted[q]] + 1, wanted[q])'
    BY DEF OnItsWay
  <2>1. q = p
    BY DEF OneRestorer
  <2> QED BY <1>2, <2>1 DEF PullEnds, Goto, files, Inv, Types, BeginsWith, Archive
<1>4. Finished'
  BY DEF PullEnds, Inv, Types, Finished, OneRestorer, Goto, files
<1> QED BY <1>1, <1>3, <1>4 DEF Inv

LEMMA FailsEarlyInv ==
  ASSUME Inv, OneRestorer, NEW p \in Restorers, FailsEarly(p) PROVE Inv'
<1>1. Types'
  BY DEF FailsEarly, Answer, Inv, Types, Goto, files, Stages
<1>2. OnItsWay'
  BY DEF FailsEarly, Answer, Inv, Types, OnItsWay, OneRestorer, Goto, files
<1>3. Finished'
  BY DEF FailsEarly, Answer, Inv, Types, Finished, OneRestorer, Goto, files
<1> QED BY <1>1, <1>2, <1>3 DEF Inv

LEMMA PreScriptsInv ==
  ASSUME Inv, OneRestorer, NEW p \in Restorers, PreScripts(p) PROVE Inv'
<1>1. Types'
  BY DEF PreScripts, Inv, Types, Goto, files, Stages
<1>2. OnItsWay'
  <2> SUFFICES ASSUME NEW q \in Restorers
               PROVE  /\ pc'[q] = "open" /\ extracted'[q] = <<>>
                      /\ BeginsWith(inode, Schemas[wanted[q]] + 1, wanted[q])'
    BY DEF OnItsWay
  <2>1. q = p
    BY DEF OneRestorer
  <2>2. BeginsWith(inode, Schemas[wanted[p]] + 1, wanted[p]) /\ extracted[p] = <<>>
    BY DEF PreScripts, Inv, OnItsWay
  <2> QED BY <2>1, <2>2 DEF PreScripts, Goto, files, Inv, Types, BeginsWith, Archive
<1>3. Finished'
  <2>1. tmpdirs' = tmpdirs \cup {run[p]} /\ UNCHANGED <<run, runs>>
    BY DEF PreScripts
  <2>2. \A d \in tmpdirs' : d <= runs'
    BY <2>1 DEF Inv, Finished
  <2>3. ASSUME NEW q \in Restorers
        PROVE  run'[q] <= runs' /\ pc'[q] = "open" /\ result'[q] = "none"
    <3>1. q = p
      BY DEF OneRestorer
    <3>2. pc[p] = "pre" /\ pc' = [pc EXCEPT ![p] = "open"] /\ result' = result
      BY DEF PreScripts, Goto
    <3>3. pc \in [Restorers -> Stages] /\ (pc[p] # "done" => result[p] = "none")
      BY DEF Inv, Types, Finished
    <3> QED BY <2>1, <3>1, <3>2, <3>3 DEF Inv, Finished
  <2> QED BY <2>2, <2>3 DEF Finished
<1> QED BY <1>1, <1>2, <1>3 DEF Inv

\* A run that fails leaves no directory of its own.
LEMMA FailureReturns ==
  ASSUME Inv, OneRestorer, NEW p \in Restorers, Return(p, "error"),
         UNCHANGED <<setup, wanted, content, fd, count, extracted, run, runs, crashes>>,
         applied' \in [Restorers -> SUBSET Contents]
  PROVE  Inv'
<1>1. Types'
  <2>1. /\ pc' \in [Restorers -> Stages] /\ result' \in [Restorers -> {"none", "ok", "error"}]
        /\ tmpdirs' \subseteq Nat /\ inode' \in {inode, 0}
    BY DEF Return, Answer, Inv, Types, Goto, Stages
  <2>2. inode' \in 0..Len(content')
    BY <2>1 DEF Inv, Types
  <2> QED BY <2>1, <2>2 DEF Inv, Types
<1>2. OnItsWay'
  BY DEF Return, Answer, Inv, Types, OnItsWay, OneRestorer, Goto
<1>3. Finished'
  BY DEF Return, Answer, Inv, Types, Finished, OneRestorer, Goto
<1> QED BY <1>1, <1>2, <1>3 DEF Inv

LEMMA OpenInv ==
  ASSUME Inv, OneRestorer, NEW p \in Restorers, Open(p) PROVE Inv'
<1>1. BeginsWith(inode, Schemas[wanted[p]] + 1, wanted[p]) /\ extracted[p] = <<>>
  BY DEF Open, Inv, OnItsWay
<1>2. /\ inode # 0 /\ inode \in Nat /\ pc[p] = "open"
      /\ fd' = [fd EXCEPT ![p] = inode] /\ count' = [count EXCEPT ![p] = 0]
      /\ pc' = [pc EXCEPT ![p] = "untar"]
      /\ UNCHANGED <<inode, tmpdirs, result, setup, wanted, content, extracted, applied, run,
                     runs, crashes>>
  BY <1>1 DEF Open, Goto, BeginsWith, Inv, Types
<1>3. Types'
  BY <1>2 DEF Inv, Types, Stages
<1>4. OnItsWay'
  <2> SUFFICES ASSUME NEW q \in Restorers
               PROVE  /\ pc'[q] = "untar" /\ fd'[q] = inode'
                      /\ BeginsWith(inode, Schemas[wanted[q]] + 1, wanted[q])'
                      /\ HasExtracted(q, count[q], wanted[q])'
    BY DEF OnItsWay
  <2>1. q = p
    BY DEF OneRestorer
  <2>2. pc'[p] = "untar" /\ fd'[p] = inode' /\ count'[p] = 0 /\ extracted'[p] = <<>>
    BY <1>1, <1>2 DEF Inv, Types
  <2>3. BeginsWith(inode, Schemas[wanted[p]] + 1, wanted[p])'
    BY <1>1, <1>2 DEF BeginsWith, Archive
  <2>4. Schemas[wanted'[p]] \in Nat
    BY <1>3, Lengths DEF Types
  <2> QED BY <2>1, <2>2, <2>3, <2>4 DEF HasExtracted
<1>5. Finished'
  BY <1>2 DEF Inv, Types, Finished, OneRestorer
<1> QED BY <1>3, <1>4, <1>5 DEF Inv

\* What is read next while the archive is unpacked.
LEMMA NextPiece ==
  ASSUME Inv, NEW p \in Restorers, pc[p] = "untar"
  PROVE  /\ wanted[p] \in Backups /\ Schemas[wanted[p]] \in Nat
         /\ count[p] \in Nat /\ count[p] <= Schemas[wanted[p]]
         /\ count[p] < Schemas[wanted[p]] => Piece(p) = <<wanted[p], count[p] + 1>>
         /\ count[p] = Schemas[wanted[p]] => Piece(p) = End
<1> DEFINE b == wanted[p]
<1> DEFINE n == count[p]
<1>1. /\ b \in Backups /\ n \in Nat /\ Schemas[b] \in Nat
      /\ MostSchemas \in Nat /\ Schemas[b] <= MostSchemas
  BY Lengths DEF Inv, Types
<1>2. /\ n <= Schemas[b] /\ fd[p] = inode
      /\ \A k \in 1..Schemas[b] + 1 : content[inode][k] = Archive(b)[k]
  BY DEF Inv, OnItsWay, BeginsWith, HasExtracted
<1>3. Piece(p) = Archive(b)[n + 1]
  BY <1>1, <1>2 DEF Piece
<1> QED BY <1>1, <1>2, <1>3, ArchiveMeans

LEMMA UntarInv ==
  ASSUME Inv, OneRestorer, NEW p \in Restorers, Untar(p) PROVE Inv'
<1> DEFINE b == wanted[p]
<1> DEFINE n == count[p]
<1>1. /\ b \in Backups /\ Schemas[b] \in Nat /\ n \in Nat /\ n < Schemas[b]
      /\ Piece(p) = <<b, n + 1>>
  BY NextPiece DEF Untar
<1>2. Piece(p) \in Contents
  BY <1>1 DEF Contents
<1>3. /\ extracted[p] \in Seq(Contents) /\ Len(extracted[p]) = n
      /\ \A k \in 1..n : extracted[p][k] = <<b, k>>
  BY DEF Untar, Inv, Types, OnItsWay, HasExtracted
<1>4. /\ extracted'[p] = Append(extracted[p], Piece(p)) /\ count'[p] = n + 1
      /\ extracted' \in [Restorers -> Seq(Contents)] /\ count' \in [Restorers -> Nat]
  BY <1>2, <1>3 DEF Untar, Inv, Types
<1>5. Types'
  BY <1>4 DEF Untar, Inv, Types
<1>6. OnItsWay'
  <2> SUFFICES ASSUME NEW q \in Restorers
               PROVE  /\ pc'[q] = "untar" /\ fd'[q] = inode'
                      /\ BeginsWith(inode, Schemas[wanted[q]] + 1, wanted[q])'
                      /\ HasExtracted(q, count[q], wanted[q])'
    BY DEF OnItsWay
  <2>1. q = p
    BY DEF OneRestorer
  <2>2. BeginsWith(inode, Schemas[b] + 1, b) /\ fd[p] = inode /\ pc[p] = "untar"
    BY DEF Untar, Inv, OnItsWay
  <2>3. BeginsWith(inode, Schemas[wanted[p]] + 1, wanted[p])'
    BY <2>2 DEF Untar, BeginsWith, Archive
  <2>4. \A k \in 1..n + 1 : Append(extracted[p], Piece(p))[k] = <<b, k>>
    BY <1>1, <1>3
  <2>5. Len(Append(extracted[p], Piece(p))) = n + 1
    BY <1>2, <1>3
  <2>6. HasExtracted(p, count[p], wanted[p])'
    BY <1>1, <1>4, <2>4, <2>5 DEF HasExtracted, Untar
  <2> QED BY <2>1, <2>2, <2>3, <2>6 DEF Untar
<1>7. Finished'
  BY DEF Untar, Inv, Types, Finished
<1> QED BY <1>5, <1>6, <1>7 DEF Inv

LEMMA UntarEndsInv ==
  ASSUME Inv, OneRestorer, NEW p \in Restorers, UntarEnds(p) PROVE Inv'
<1>1. Types'
  BY DEF UntarEnds, Inv, Types, Goto, files, Stages
<1>2. count[p] = Schemas[wanted[p]]
  <2>1. Piece(p) \in {End, Nothing} /\ pc[p] = "untar"
    BY DEF UntarEnds
  <2>2. CASE count[p] < Schemas[wanted[p]]
    BY <2>1, <2>2, NextPiece, PiecesDiffer
  <2> QED BY <2>1, <2>2, NextPiece
<1>3. HasExtracted(p, Schemas[wanted[p]], wanted[p])
  BY <1>2 DEF UntarEnds, Inv, OnItsWay
<1>4. OnItsWay'
  <2> SUFFICES ASSUME NEW q \in Restorers
               PROVE  pc'[q] = "restore" /\ HasExtracted(q, Schemas[wanted[q]], wanted[q])'
    BY DEF OnItsWay
  <2>1. q = p
    BY DEF OneRestorer
  <2> QED BY <1>3, <2>1 DEF UntarEnds, Goto, Inv, Types, HasExtracted
<1>5. Finished'
  BY DEF UntarEnds, Inv, Types, Finished, OneRestorer, Goto, files
<1> QED BY <1>1, <1>4, <1>5 DEF Inv

LEMMA UntarFailsInv ==
  ASSUME Inv, OneRestorer, NEW p \in Restorers, UntarFails(p) PROVE Inv'
BY FailureReturns DEF UntarFails, Inv, Types

LEMMA OpenedAreContents ==
  ASSUME Inv, NEW p \in Restorers PROVE Opened(p) \subseteq Contents
BY RestoreRunAssumption DEF Opened, Inv, Types

LEMMA RestoreInv ==
  ASSUME Inv, OneRestorer, EnoughFiles, NEW p \in Restorers, Restore(p) PROVE Inv'
<1>1. CASE \E some \in SUBSET Opened(p) :
             applied' = [applied EXCEPT ![p] = some] /\ Return(p, "error")
  <2>1. applied' \in [Restorers -> SUBSET Contents]
    BY <1>1, OpenedAreContents DEF Inv, Types
  <2> QED BY <1>1, <2>1, FailureReturns DEF Restore
<1>2. CASE applied' = [applied EXCEPT ![p] = Opened(p)] /\ Goto(p, "post")
             /\ UNCHANGED <<inode, tmpdirs, result>>
  <2>1. HasExtracted(p, Schemas[wanted[p]], wanted[p]) /\ wanted[p] \in Backups
    BY DEF Restore, Inv, Types, OnItsWay
  <2>2. Opened(p) = Pieces(wanted[p])
    BY <2>1, ExtractedAre
  <2>3. Types'
    BY <1>2, OpenedAreContents DEF Restore, Inv, Types, Goto, Stages
  <2>4. OnItsWay'
    <3> SUFFICES ASSUME NEW q \in Restorers
                 PROVE  /\ pc'[q] = "post" /\ applied'[q] = Pieces(wanted'[q])
                        /\ HasExtracted(q, Schemas[wanted[q]], wanted[q])'
      BY DEF OnItsWay
    <3>1. q = p
      BY DEF OneRestorer
    <3> QED BY <1>2, <2>1, <2>2, <3>1 DEF Restore, Goto, Inv, Types, HasExtracted
  <2>5. Finished'
    BY <1>2 DEF Restore, Inv, Types, Finished, OneRestorer, Goto
  <2> QED BY <2>3, <2>4, <2>5 DEF Inv
<1> QED BY <1>1, <1>2 DEF Restore

LEMMA PostScriptsInv ==
  ASSUME Inv, OneRestorer, NEW p \in Restorers, PostScripts(p) PROVE Inv'
<1>1. CASE Return(p, "error")
  BY <1>1, FailureReturns DEF PostScripts, Inv, Types
<1>2. CASE Return(p, "ok")
  <2>1. Types'
    <3>1. /\ pc' \in [Restorers -> Stages] /\ result' \in [Restorers -> {"none", "ok", "error"}]
          /\ tmpdirs' \subseteq Nat /\ inode' \in {inode, 0}
      BY <1>2 DEF Return, Answer, Inv, Types, Goto, Stages
    <3>2. inode' \in 0..Len(content)
      BY <3>1 DEF Inv, Types
    <3> QED BY <3>1, <3>2 DEF PostScripts, Inv, Types
  <2>2. OnItsWay'
    BY <1>2 DEF PostScripts, Return, Answer, Inv, Types, OnItsWay, OneRestorer, Goto
  <2>3. Finished'
    <3>1. applied[p] = Pieces(wanted[p]) /\ pc[p] = "post"
      BY DEF PostScripts, Inv, OnItsWay
    <3> QED BY <1>2, <3>1 DEF PostScripts, Return, Answer, Inv, Types, Finished, OneRestorer, Goto,
               Pieces
  <2> QED BY <2>1, <2>2, <2>3 DEF Inv
<1> QED BY <1>1, <1>2 DEF PostScripts

\* A killed run leaves everything where it is.
LEMMA CrashInv ==
  ASSUME Inv, OneRestorer, NEW p \in Restorers, Crash(p) PROVE Inv'
<1>1. Types'
  <2>1. pc' \in [Restorers -> Stages] /\ crashes' \in Nat
        /\ result' \in [Restorers -> {"none", "ok", "error"}]
    BY DEF Crash, Inv, Types, Goto, Answer, Stages
  <2>2. UNCHANGED <<setup, wanted, content, inode, fd, count, extracted, tmpdirs, applied, run, runs>>
    BY DEF Crash, files
  <2> QED BY <2>1, <2>2 DEF Inv, Types
<1>2. OnItsWay'
  BY DEF Crash, Inv, Types, OnItsWay, OneRestorer, Goto, files
<1>3. Finished'
  BY DEF Crash, Inv, Types, Finished, OneRestorer, Goto, files
<1> QED BY <1>1, <1>2, <1>3 DEF Inv

LEMMA StepInv ==
  ASSUME Inv, OneRestorer, EnoughFiles, [Next]_vars PROVE Inv'
<1>1. CASE UNCHANGED vars
  <2>1. Types' /\ Finished'
    BY <1>1 DEF vars, Inv, Types, Finished
  <2>2. OnItsWay'
    BY <1>1 DEF vars, Inv, OnItsWay, BeginsWith, HasExtracted
  <2> QED BY <2>1, <2>2 DEF Inv
<1>2. CASE Next
  <2>1. PICK p \in Restorers : Begin(p) \/ Step(p) \/ Crash(p)
    BY <1>2 DEF Next
  <2> QED BY <2>1, BeginInv, PullOpensInv, PullCopiesInv, PullEndsInv, FailsEarlyInv,
             PreScriptsInv, OpenInv, UntarInv, UntarEndsInv, UntarFailsInv, RestoreInv,
             PostScriptsInv, CrashInv DEF Step
<1> QED BY <1>1, <1>2

---------------------------------------------------------------------------
(* The theorems. *)

\* The invariant of a restore, alone on its host: what has been copied, unpacked and applied is
\* a part of the wanted backup, from its beginning.
THEOREM Invariance == ASSUME OneRestorer, EnoughFiles PROVE Spec => []Inv
BY InitInv, StepInv, PTL DEF Spec

\* "select a backup file, and it will restore the database from that file"
\* (docs/restore.md:5-6): whatever earlier runs have left, kills and failures included.
THEOREM OkRestoresWanted == ASSUME OneRestorer, EnoughFiles PROVE Spec => []RestoresWanted
<1>1. Inv => RestoresWanted
  BY DEF Inv, Finished, RestoresWanted
<1> QED BY <1>1, Invariance, PTL

\* Nothing reaches the database before the archive is unpacked whole (core/restore.go:80-118).
THEOREM NothingHalfApplied == ASSUME OneRestorer, EnoughFiles PROVE Spec => []WholeOrNothing
<1>1. Inv => WholeOrNothing
  BY ExtractedAre DEF Inv, Types, OnItsWay, WholeOrNothing
<1> QED BY <1>1, Invariance, PTL

\* A run that ends leaves no directory of its own, and no file if it is ok
\* (core/restore.go:64-78).
THEOREM OkIsTidy == ASSUME OneRestorer, EnoughFiles PROVE Spec => []OkLeavesNothing
<1>1. Inv => OkLeavesNothing
  BY DEF Inv, Finished, OkLeavesNothing
<1> QED BY <1>1, Invariance, PTL
============================================================================
