---------------------------- MODULE LogPathProofs ----------------------------
(***************************************************************************)
(* Machine-checked facts about the path of a log line: the tailer of one   *)
(* file, for any number of writes, rotations and errors and whatever lines *)
(* are too long, and the checker of the entries that the tailers hand on,  *)
(* for any chains, actors, time stamps and length of the reorder buffer.   *)
(***************************************************************************)
EXTENDS Tailer, Checker, SequenceTheorems, FiniteSetTheorems, WellFoundedInduction, TLAPS

(***************************************************************************)
(* The inductive invariant                                                 *)
(***************************************************************************)

\* The inode at the path, or the one that will be the next.
FirstFile == IF path = 0 THEN rotations + 1 ELSE path

\* The piece k of file i is one that the tailer has still to come to.
Ahead(i, k) == IF handle = 0 THEN i >= FirstFile ELSE i > handle \/ (i = handle /\ k > pos)

\* Every variable that the argument is about has its type.
TypeOK ==
  /\ files \in [Inodes -> Seq(Piece)] /\ processed \in Seq(Piece)
  /\ path \in Inodes \cup {0} /\ handle \in Inodes \cup {0} /\ out \in Inodes
  /\ written \in 0 .. MaxPieces /\ rotations \in 0 .. MaxRotations /\ pos \in Nat
  /\ reread \in BOOLEAN

\* The tailer has a file open when it reads, one that is or was at the path; the server
\* writes none that was not yet there.
PlacesOK ==
  /\ pc \in {"read", "check"} => handle # 0
  /\ pc = "open" => handle = 0
  /\ out <= FirstFile /\ path <= rotations + 1
  /\ handle # 0 => handle = path \/ handle < FirstFile

\* The numbers of the pieces grow within a file and from one file to the next.
FilesOK ==
  /\ \A i \in Inodes : \A k \in 1 .. Len(files[i]) : files[i][k].n <= written
  /\ \A k \in 1 .. Len(processed) : processed[k].n <= written
  /\ \A i \in Inodes : i > out => files[i] = <<>>
  /\ \A i, j \in Inodes : \A k \in 1 .. Len(files[i]), l \in 1 .. Len(files[j]) :
       i < j \/ (i = j /\ k < l) => files[i][k].n < files[j][l].n

\* What was processed is older than everything the tailer has still to come to.
FreshOK ==
  ~reread => \A i \in Inodes : \A k \in 1 .. Len(files[i]), p \in 1 .. Len(processed) :
               Ahead(i, k) => processed[p].n < files[i][k].n

Settled(m) == m \in Numbers(processed) \cup excused \cup blind
ToCome(m) == \E i \in Inodes : \E k \in 1 .. Len(files[i]) : Ahead(i, k) /\ files[i][k].n = m

\* Every piece was processed, is excused or blind, or is still to come.
CoverOK == ~reread => \A m \in 1 .. written : Settled(m) \/ ToCome(m)

\* What is left of a file that has been found at its end, and what is in the files between
\* the open one and the path, is excused.
LeftOK ==
  /\ pc = "check" => \A k \in 1 .. Len(files[handle]) : k > pos => files[handle][k].n \in excused
  /\ handle # 0 => \A i \in Inodes : handle < i /\ i < FirstFile =>
                     \A k \in 1 .. Len(files[i]) : files[i][k].n \in excused

\* The inductive invariant.
TailerInv == TypeOK /\ PlacesOK /\ FilesOK /\ FreshOK /\ CoverOK /\ LeftOK /\ InOrderOnce


(***************************************************************************)
(* The beginning, the server and logrotate                                 *)
(***************************************************************************)

\* What the types say of the numbers and lengths.
LEMMA Sizes ==
  ASSUME TypeOK
  PROVE  /\ Inodes \subseteq Nat \ {0} /\ out \in Inodes /\ pos \in Nat
         /\ path \in Inodes \cup {0} /\ handle \in Inodes \cup {0} /\ FirstFile \in Nat \ {0}
         /\ rotations \in Nat /\ written \in Nat /\ rotations + 1 \in Inodes
         /\ \A i \in Inodes : files[i] \in Seq(Piece) /\ Len(files[i]) \in Nat
         /\ \A i \in Inodes : \A k \in 1 .. Len(files[i]) : files[i][k].n \in Nat
         /\ Len(processed) \in Nat /\ \A k \in 1 .. Len(processed) : processed[k].n \in Nat
<1>1. processed \in Seq(Piece) /\ \A i \in Inodes : files[i] \in Seq(Piece)
  BY DEF TypeOK
<1>2. \A q \in Piece : q.n \in Nat
  BY TailerAssumption DEF Piece
<1>3. \A s \in Seq(Piece) : Len(s) \in Nat /\ \A k \in 1 .. Len(s) : s[k].n \in Nat
  BY <1>2, ElementOfSeq, LenProperties
<1>4. Inodes \subseteq Nat \ {0} /\ rotations \in Nat /\ rotations + 1 \in Inodes
  BY TailerAssumption DEF TypeOK, Inodes
<1>5. FirstFile \in Nat \ {0} /\ written \in Nat
  BY <1>4, TailerAssumption DEF TypeOK, FirstFile
<1> QED
  BY <1>1, <1>3, <1>4, <1>5 DEF TypeOK

\* The initial states satisfy the invariant.
LEMMA InitInv == TailerInit => TailerInv
<1> SUFFICES ASSUME TailerInit PROVE TailerInv
  OBVIOUS
<1>1. TypeOK
  <2>1. <<>> \in Seq(Piece)
    BY EmptySeq
  <2>2. files \in [Inodes -> Seq(Piece)] /\ processed \in Seq(Piece)
    BY <2>1 DEF TailerInit
  <2>3. 1 \in Inodes /\ 0 \in 0 .. MaxPieces /\ 0 \in 0 .. MaxRotations
    BY TailerAssumption DEF Inodes
  <2> QED
    BY <2>2, <2>3 DEF TailerInit, TypeOK
<1>2. \A i \in Inodes : files[i] = <<>> /\ Len(files[i]) = 0
  BY DEF TailerInit
<1>3. PlacesOK
  BY DEF TailerInit, PlacesOK, FirstFile
<1>4. FilesOK
  BY <1>2 DEF TailerInit, FilesOK
<1>5. FreshOK /\ CoverOK /\ InOrderOnce
  BY <1>2 DEF TailerInit, FreshOK, CoverOK, InOrderOnce
<1>6. LeftOK
  BY DEF TailerInit, LeftOK
<1> QED
  BY <1>1, <1>3, <1>4, <1>5, <1>6 DEF TailerInv

\* What one write of the server does to the files.
LEMMA WriteFacts ==
  ASSUME TypeOK, NEW eol \in BOOLEAN, Write(eol)
  PROVE  /\ written' = written + 1 /\ written \in Nat /\ written' \in 0 .. MaxPieces
         /\ files' \in [Inodes -> Seq(Piece)]
         /\ \A i \in Inodes \ {out} : files'[i] = files[i]
         /\ Len(files'[out]) = Len(files[out]) + 1
         /\ \A k \in 1 .. Len(files[out]) : files'[out][k] = files[out][k]
         /\ files'[out][Len(files[out]) + 1].n = written'
         /\ \A i \in Inodes : Len(files[i]) \in Nat
<1> DEFINE p == [n |-> written + 1, eol |-> eol]
<1>1. written \in 0 .. MaxPieces /\ written < MaxPieces /\ written' = written + 1
  BY DEF TypeOK, Write
<1>2. p \in Piece /\ p.n = written + 1
  BY <1>1, TailerAssumption DEF Piece
<1>3. files' = [files EXCEPT ![out] = Append(@, p)]
  BY DEF Write
<1>4. files \in [Inodes -> Seq(Piece)] /\ out \in Inodes
  BY DEF TypeOK
<1> HIDE DEF p
<1>5. /\ Append(files[out], p) \in Seq(Piece)
      /\ Len(Append(files[out], p)) = Len(files[out]) + 1
      /\ \A k \in 1 .. Len(files[out]) : Append(files[out], p)[k] = files[out][k]
      /\ Append(files[out], p)[Len(files[out]) + 1] = p
  BY <1>2, <1>4, AppendProperties
<1>6. \A i \in Inodes : Len(files[i]) \in Nat
  BY <1>4, LenProperties
<1>7. files'[out] = Append(files[out], p)
  BY <1>3, <1>4
<1>8. files' \in [Inodes -> Seq(Piece)] /\ \A i \in Inodes \ {out} : files'[i] = files[i]
  BY <1>3, <1>4, <1>5
<1> QED
  BY <1>1, <1>2, <1>5, <1>6, <1>7, <1>8, TailerAssumption

\* The server writes: the piece is still to come, or it is excused or blind.
LEMMA WriteInv ==
  ASSUME TailerInv, NEW eol \in BOOLEAN, Write(eol)
  PROVE  TailerInv'
<1> DEFINE last == Len(files[out]) + 1
<1>0. TypeOK /\ PlacesOK /\ FilesOK /\ FreshOK /\ CoverOK /\ LeftOK /\ InOrderOnce
  BY DEF TailerInv
<1>1. /\ written' = written + 1 /\ written \in Nat /\ written' \in 0 .. MaxPieces
      /\ files' \in [Inodes -> Seq(Piece)]
      /\ \A i \in Inodes \ {out} : files'[i] = files[i]
      /\ Len(files'[out]) = last
      /\ \A k \in 1 .. Len(files[out]) : files'[out][k] = files[out][k]
      /\ files'[out][last].n = written'
      /\ \A i \in Inodes : Len(files[i]) \in Nat
  BY <1>0, WriteFacts
<1>2. UNCHANGED <<path, out, rotations, pc, handle, pos, processed, reread>>
  BY DEF Write, tailVars
<1>3. /\ excused \subseteq excused' /\ blind \subseteq blind'
      /\ out # path \/ pc = "check" => written' \in excused'
      /\ handle = out /\ pos > Len(files[out]) => written' \in blind'
  BY <1>1 DEF Write
<1>4. /\ out \in Inodes /\ pos \in Nat /\ reread \in BOOLEAN /\ Inodes \subseteq Nat \ {0}
      /\ processed \in Seq(Piece) /\ Len(processed) \in Nat
      /\ \A i \in Inodes : \A k \in 1 .. Len(files[i]) : files[i][k].n \in Nat
      /\ \A k \in 1 .. Len(processed) : processed[k].n \in Nat
  BY <1>0, Sizes DEF TypeOK
<1> HIDE DEF last
<1>5. /\ last \in Nat /\ last = Len(files[out]) + 1
      /\ \A i \in Inodes : \A k \in 1 .. Len(files'[i]) :
           \/ k \in 1 .. Len(files[i]) /\ files'[i][k] = files[i][k]
           \/ i = out /\ k = last /\ files'[i][k].n = written'
      /\ \A i \in Inodes : \A k \in 1 .. Len(files[i]) :
           k \in 1 .. Len(files'[i]) /\ files'[i][k] = files[i][k]
  <2>1. last \in Nat /\ last = Len(files[out]) + 1
    BY <1>1, <1>4 DEF last
  <2>2. \A i \in Inodes : i # out => files'[i] = files[i]
    BY <1>1
  <2>3. \A k \in 1 .. last : k \in 1 .. Len(files[out]) \/ k = last
    BY <1>1, <1>4, <2>1
  <2>4. \A k \in 1 .. Len(files[out]) : k \in 1 .. last
    BY <1>1, <1>4, <2>1
  <2>5. ASSUME NEW i \in Inodes, NEW k \in 1 .. Len(files'[i])
        PROVE  \/ k \in 1 .. Len(files[i]) /\ files'[i][k] = files[i][k]
               \/ i = out /\ k = last /\ files'[i][k].n = written'
    BY <1>1, <2>2, <2>3
  <2>6. ASSUME NEW i \in Inodes, NEW k \in 1 .. Len(files[i])
        PROVE  k \in 1 .. Len(files'[i]) /\ files'[i][k] = files[i][k]
    BY <1>1, <2>2, <2>4
  <2> QED
    BY <2>1, <2>5, <2>6
<1>6. TypeOK'
  BY <1>0, <1>1, <1>2 DEF TypeOK
<1>7. PlacesOK'
  BY <1>0, <1>2 DEF PlacesOK, FirstFile
<1>8. FilesOK'
  <2>1. \A i \in Inodes : \A k \in 1 .. Len(files[i]) : files[i][k].n <= written
    BY <1>0 DEF FilesOK
  <2>2. ASSUME NEW i \in Inodes, NEW k \in 1 .. Len(files'[i])
        PROVE  files'[i][k].n <= written'
    <3>1. CASE k \in 1 .. Len(files[i]) /\ files'[i][k] = files[i][k]
      <4>1. files[i][k].n \in Nat /\ files[i][k].n <= written
        BY <1>4, <2>1, <3>1
      <4> QED
        BY <1>1, <3>1, <4>1
    <3>2. CASE files'[i][k].n = written'
      BY <1>1, <3>2
    <3> QED
      BY <1>5, <3>1, <3>2
  <2>3. \A k \in 1 .. Len(processed') : processed'[k].n <= written'
    <3>1. \A k \in 1 .. Len(processed) : processed[k].n <= written
      BY <1>0 DEF FilesOK
    <3> QED
      BY <1>1, <1>2, <1>4, <3>1
  <2>4. ASSUME NEW i \in Inodes, i > out'
        PROVE  files'[i] = <<>>
    <3>1. i > out /\ i # out
      BY <1>2, <1>4, <2>4
    <3>2. files[i] = <<>>
      BY <1>0, <3>1 DEF FilesOK
    <3> QED
      BY <1>1, <3>1, <3>2
  <2>5. ASSUME NEW i \in Inodes, NEW j \in Inodes,
               NEW k \in 1 .. Len(files'[i]), NEW l \in 1 .. Len(files'[j]),
               i < j \/ (i = j /\ k < l)
        PROVE  files'[i][k].n < files'[j][l].n
    <3>1. CASE k \in 1 .. Len(files[i]) /\ l \in 1 .. Len(files[j])
      <4>1. files'[i][k] = files[i][k] /\ files'[j][l] = files[j][l]
        BY <1>5, <3>1
      <4>2. files[i][k].n < files[j][l].n
        BY <1>0, <2>5, <3>1 DEF FilesOK
      <4> QED
        BY <4>1, <4>2
    <3>2. CASE k \in 1 .. Len(files[i]) /\ j = out /\ l = last /\ files'[j][l].n = written'
      <4>1. files'[i][k] = files[i][k]
        BY <1>5, <3>2
      <4>2. files[i][k].n \in Nat /\ files[i][k].n <= written
        BY <1>4, <2>1, <3>2
      <4> QED
        BY <1>1, <3>2, <4>1, <4>2
    <3>3. CASE i = out /\ k = last /\ k \notin 1 .. Len(files[i])
      <4>1. i = j => k < l /\ l <= last
        BY <1>1, <1>4, <2>5, <3>3
      <4>2. i # j => files'[j] = <<>>
        BY <1>4, <2>4, <1>2, <2>5, <3>3
      <4> QED
        BY <1>5, <2>5, <3>3, <4>1, <4>2
    <3> QED
      BY <1>5, <3>1, <3>2, <3>3
  <2> QED
    BY <2>2, <2>3, <2>4, <2>5 DEF FilesOK
<1>9. FreshOK'
  <2> SUFFICES ASSUME ~reread, NEW i \in Inodes, NEW k \in 1 .. Len(files'[i]),
                      NEW p \in 1 .. Len(processed), Ahead(i, k)
               PROVE  processed[p].n < files'[i][k].n
    BY <1>2 DEF FreshOK, Ahead, FirstFile
  <2>1. CASE k \in 1 .. Len(files[i])
    BY <1>0, <1>5, <2>1 DEF FreshOK
  <2>2. CASE files'[i][k].n = written'
    BY <1>0, <1>1, <1>4, <2>2 DEF FilesOK
  <2> QED
    BY <1>5, <2>1, <2>2
<1>10. CoverOK'
  <2> SUFFICES ASSUME ~reread, NEW m \in 1 .. written' PROVE Settled(m)' \/ ToCome(m)'
    BY <1>2 DEF CoverOK
  <2>1. CASE m \in 1 .. written
    <3>1. Settled(m) \/ ToCome(m)
      BY <1>0, <2>1 DEF CoverOK
    <3>2. Settled(m) => Settled(m)'
      BY <1>2, <1>3 DEF Settled, Numbers
    <3>3. ToCome(m) => ToCome(m)'
      BY <1>2, <1>5 DEF ToCome, Ahead, FirstFile
    <3> QED
      BY <3>1, <3>2, <3>3
  <2>2. CASE m = written'
    <3>1. last \in 1 .. Len(files'[out]) /\ files'[out][last].n = m
      BY <1>1, <1>4, <1>5, <2>2
    <3>2. CASE Ahead(out, last)
      BY <1>2, <1>4, <3>1, <3>2 DEF ToCome, Ahead, FirstFile
    <3>3. CASE ~Ahead(out, last)
      <4>1. CASE handle = 0
        BY <1>0, <1>3, <1>4, <2>2, <3>3, <4>1 DEF Ahead, FirstFile, PlacesOK, TypeOK, Settled
      <4>2. CASE handle # 0 /\ handle = out
        BY <1>0, <1>1, <1>3, <1>4, <1>5, <2>2, <3>3, <4>2 DEF Ahead, Settled
      <4>3. CASE handle # 0 /\ handle # out
        <5>1. out < handle
          BY <1>0, <1>4, <3>3, <4>3 DEF Ahead, TypeOK
        <5>2. out # path
          BY <1>0, <1>4, <4>3, <5>1 DEF PlacesOK, TypeOK, FirstFile
        <5> QED
          BY <1>3, <2>2, <5>2 DEF Settled
      <4> QED
        BY <4>1, <4>2, <4>3
    <3> QED
      BY <3>2, <3>3
  <2> QED
    BY <1>1, <2>1, <2>2
<1>11. LeftOK'
  <2>1. ASSUME pc = "check", NEW k \in 1 .. Len(files'[handle]), k > pos
        PROVE  files'[handle][k].n \in excused'
    <3>1. handle \in Inodes
      BY <1>0, <2>1 DEF PlacesOK, TypeOK
    <3> QED
      BY <1>0, <1>3, <1>5, <2>1, <3>1 DEF LeftOK
  <2>2. ASSUME handle # 0, NEW i \in Inodes, handle < i /\ i < FirstFile,
               NEW k \in 1 .. Len(files'[i])
        PROVE  files'[i][k].n \in excused'
    <3>1. CASE k \in 1 .. Len(files[i])
      BY <1>0, <1>3, <1>5, <2>2, <3>1 DEF LeftOK
    <3>2. CASE i = out /\ files'[i][k].n = written'
      BY <1>0, <1>3, <2>2, <3>2, <1>4 DEF FirstFile, TypeOK
    <3> QED
      BY <1>5, <3>1, <3>2
  <2> QED
    BY <1>2, <2>1, <2>2 DEF LeftOK, FirstFile
<1>12. InOrderOnce'
  BY <1>0, <1>2 DEF InOrderOnce
<1> QED
  BY <1>6, <1>7, <1>8, <1>9, <1>10, <1>11, <1>12 DEF TailerInv

\* A step that neither touches the files nor reads.
LEMMA KeptInv ==
  ASSUME TailerInv, PlacesOK', LeftOK',
         UNCHANGED <<files, path, out, written, rotations, handle, pos, processed, reread,
                     excused, blind>>
  PROVE  TailerInv'
<1>1. TypeOK' /\ FilesOK' /\ InOrderOnce'
  BY DEF TailerInv, TypeOK, FilesOK, InOrderOnce
<1>2. FreshOK'
  BY DEF TailerInv, FreshOK, Ahead, FirstFile
<1>3. CoverOK'
  BY DEF TailerInv, CoverOK, Settled, ToCome, Ahead, FirstFile
<1> QED
  BY <1>1, <1>2, <1>3 DEF TailerInv

\* The file is renamed: what the tailer has not opened is excused.
LEMMA RenameInv ==
  ASSUME TailerInv, Rename
  PROVE  TailerInv'
<1>0. TypeOK /\ PlacesOK /\ FilesOK /\ FreshOK /\ CoverOK /\ LeftOK /\ InOrderOnce
  BY DEF TailerInv
<1>1. /\ UNCHANGED <<files, out, written, pc, handle, pos, processed, reread, blind>>
      /\ path # 0 /\ path' = 0 /\ rotations < MaxRotations /\ rotations' = rotations + 1
      /\ excused \subseteq excused'
      /\ handle # path => \A k \in 1 .. Len(files[path]) : files[path][k].n \in excused'
  BY DEF Rename, tailVars, Numbers
<1>2. /\ Inodes \subseteq Nat \ {0} /\ out \in Inodes /\ path \in Inodes
      /\ handle \in Inodes \cup {0} /\ rotations \in Nat
      /\ FirstFile = path /\ FirstFile' = rotations + 2 /\ path <= rotations + 1 /\ out <= path
  BY <1>0, <1>1, Sizes DEF PlacesOK, FirstFile
<1>3. \A i \in Inodes : i > path => files[i] = <<>>
  BY <1>0, <1>2 DEF FilesOK
<1>4. TypeOK'
  BY <1>0, <1>1, TailerAssumption DEF TypeOK
<1>5. PlacesOK'
  BY <1>0, <1>1, <1>2 DEF PlacesOK
<1>6. FilesOK' /\ InOrderOnce'
  BY <1>0, <1>1 DEF FilesOK, InOrderOnce
<1>7. \A i \in Inodes, k \in Nat : Ahead(i, k)' => Ahead(i, k)
  BY <1>1, <1>2 DEF Ahead
<1>8. FreshOK'
  <2> SUFFICES ASSUME ~reread, NEW i \in Inodes, NEW k \in 1 .. Len(files[i]),
                      NEW p \in 1 .. Len(processed), Ahead(i, k)'
               PROVE  processed[p].n < files[i][k].n
    BY <1>1 DEF FreshOK
  <2>1. Ahead(i, k)
    BY <1>7
  <2> QED
    BY <1>0, <2>1 DEF FreshOK
<1>9. CoverOK'
  <2> SUFFICES ASSUME ~reread, NEW m \in 1 .. written PROVE Settled(m)' \/ ToCome(m)'
    BY <1>1 DEF CoverOK
  <2>1. CASE Settled(m)
    BY <1>1, <2>1 DEF Settled, Numbers
  <2>2. CASE ToCome(m)
    <3>0. PICK i \in Inodes : \E k \in 1 .. Len(files[i]) : Ahead(i, k) /\ files[i][k].n = m
      BY <2>2 DEF ToCome
    <3>1. PICK k \in 1 .. Len(files[i]) : Ahead(i, k) /\ files[i][k].n = m
      BY <3>0
    <3>2. CASE handle # 0
      BY <1>1, <3>1, <3>2 DEF ToCome, Ahead
    <3>3. CASE handle = 0
      <4>1. i = path
        BY <1>2, <1>3, <3>1, <3>3 DEF Ahead
      <4> QED
        BY <1>1, <1>2, <3>1, <3>3, <4>1 DEF Settled
    <3> QED
      BY <3>2, <3>3
  <2> QED
    BY <1>0, <2>1, <2>2 DEF CoverOK
<1>10. LeftOK'
  <2>1. pc = "check" =>
          \A k \in 1 .. Len(files[handle]) : k > pos => files[handle][k].n \in excused'
    BY <1>0, <1>1 DEF LeftOK
  <2>2. ASSUME handle # 0, NEW i \in Inodes, handle < i, NEW k \in 1 .. Len(files[i])
        PROVE  files[i][k].n \in excused'
    <3>1. CASE i < path
      BY <1>0, <1>1, <1>2, <2>2, <3>1 DEF LeftOK
    <3>2. CASE i = path
      BY <1>1, <1>2, <2>2, <3>2
    <3>3. CASE i > path
      BY <1>3, <2>2, <3>3
    <3> QED
      BY <1>2, <3>1, <3>2, <3>3
  <2> QED
    BY <1>1, <2>1, <2>2 DEF LeftOK
<1> QED
  BY <1>4, <1>5, <1>6, <1>8, <1>9, <1>10 DEF TailerInv

\* The new file appears at the path, or the server opens it.
LEMMA CreateInv ==
  ASSUME TailerInv, Create \/ Reopen
  PROVE  TailerInv'
<1>0. TypeOK /\ PlacesOK /\ FilesOK /\ FreshOK /\ CoverOK /\ LeftOK /\ InOrderOnce
  BY DEF TailerInv
<1>1. /\ UNCHANGED <<files, written, rotations, pc, handle, pos, processed, reread,
                     excused, blind>>
      /\ \/ path = 0 /\ path' = rotations + 1 /\ out' = out
         \/ path # 0 /\ path' = path /\ out' = path
  BY DEF Create, Reopen, tailVars
<1>2. FirstFile' = FirstFile /\ FirstFile \in Nat /\ path' \in Inodes /\ out' \in Inodes /\ out <= out'
  BY <1>0, <1>1, Sizes DEF PlacesOK, FirstFile
<1>3. TypeOK'
  BY <1>0, <1>1, <1>2 DEF TypeOK
<1>4. PlacesOK'
  BY <1>0, <1>1, <1>2, Sizes DEF PlacesOK, FirstFile
<1>5. FilesOK'
  BY <1>0, <1>1, <1>2, Sizes DEF FilesOK
<1>6. \A i, k : Ahead(i, k)' <=> Ahead(i, k)
  BY <1>1, <1>2 DEF Ahead
<1>7. FreshOK' /\ InOrderOnce'
  BY <1>0, <1>1, <1>6 DEF FreshOK, InOrderOnce
<1>8. CoverOK'
  BY <1>0, <1>1, <1>6 DEF CoverOK, Settled, ToCome
<1>9. LeftOK'
  BY <1>0, <1>1, <1>2 DEF LeftOK
<1> QED
  BY <1>3, <1>4, <1>5, <1>7, <1>8, <1>9 DEF TailerInv

\* The file is emptied: all that was in it is excused.
LEMMA TruncateInv ==
  ASSUME TailerInv, Truncate
  PROVE  TailerInv'
<1>0. TypeOK /\ PlacesOK /\ FilesOK /\ FreshOK /\ CoverOK /\ LeftOK /\ InOrderOnce
  BY DEF TailerInv
<1>1. /\ UNCHANGED <<path, out, written, pc, handle, pos, processed, reread, blind>>
      /\ path # 0 /\ rotations < MaxRotations /\ rotations' = rotations + 1
      /\ excused \subseteq excused'
      /\ files' = [files EXCEPT ![path] = <<>>]
      /\ \A k \in 1 .. Len(files[path]) : files[path][k].n \in excused'
  BY DEF Truncate, tailVars, Numbers
<1>2. /\ FirstFile' = FirstFile /\ path \in Inodes /\ out \in Inodes
      /\ files'[path] = <<>> /\ \A i \in Inodes : i # path => files'[i] = files[i]
      /\ files' \in [Inodes -> Seq(Piece)]
  BY <1>0, <1>1, Sizes, EmptySeq DEF TypeOK, FirstFile
<1>3. \A i \in Inodes : \A k \in 1 .. Len(files'[i]) : i # path /\ files'[i] = files[i]
  BY <1>2
<1>4. TypeOK'
  BY <1>0, <1>1, <1>2, TailerAssumption DEF TypeOK
<1>5. PlacesOK'
  <2>1. path <= rotations + 1 + 1
    <3>1. path \in Nat /\ rotations \in Nat /\ path <= rotations + 1
      BY <1>0, Sizes DEF PlacesOK
    <3> QED
      BY <3>1
  <2> QED
    BY <1>0, <1>1, <1>2, <2>1 DEF PlacesOK
<1>6. FilesOK'
  <2>1. /\ \A i \in Inodes : \A k \in 1 .. Len(files'[i]) : files'[i][k].n <= written
        /\ \A k \in 1 .. Len(processed) : processed[k].n <= written
        /\ \A i \in Inodes : i > out => files'[i] = <<>>
    BY <1>0, <1>2, <1>3 DEF FilesOK
  <2>2. ASSUME NEW i \in Inodes, NEW j \in Inodes,
               NEW k \in 1 .. Len(files'[i]), NEW l \in 1 .. Len(files'[j]),
               i < j \/ (i = j /\ k < l)
        PROVE  files'[i][k].n < files'[j][l].n
    BY <1>0, <1>3, <2>2 DEF FilesOK
  <2> QED
    BY <1>1, <2>1, <2>2 DEF FilesOK
<1>7. \A i, k : Ahead(i, k)' <=> Ahead(i, k)
  BY <1>1, <1>2 DEF Ahead
<1>8. FreshOK' /\ InOrderOnce'
  BY <1>0, <1>1, <1>3, <1>7 DEF FreshOK, InOrderOnce
<1>9. CoverOK'
  <2> SUFFICES ASSUME ~reread, NEW m \in 1 .. written PROVE Settled(m)' \/ ToCome(m)'
    BY <1>1 DEF CoverOK
  <2>1. CASE Settled(m)
    BY <1>1, <2>1 DEF Settled, Numbers
  <2>2. CASE ToCome(m)
    <3>0. PICK i \in Inodes : \E k \in 1 .. Len(files[i]) : Ahead(i, k) /\ files[i][k].n = m
      BY <2>2 DEF ToCome
    <3>1. PICK k \in 1 .. Len(files[i]) : Ahead(i, k) /\ files[i][k].n = m
      BY <3>0
    <3>2. CASE i = path
      BY <1>1, <3>1, <3>2 DEF Settled
    <3>3. CASE i # path
      BY <1>2, <1>7, <3>1, <3>3 DEF ToCome
    <3> QED
      BY <3>2, <3>3
  <2> QED
    BY <1>0, <2>1, <2>2 DEF CoverOK
<1>10. LeftOK'
  <2>1. pc = "check" => handle \in Inodes
    BY <1>0 DEF PlacesOK, TypeOK
  <2> QED
    BY <1>0, <1>1, <1>2, <1>3, <2>1 DEF LeftOK
<1> QED
  BY <1>4, <1>5, <1>6, <1>8, <1>9, <1>10 DEF TailerInv

(***************************************************************************)
(* The tailer                                                              *)
(***************************************************************************)

\* What is left to read is the end of the file that is open.
LEMMA RestFacts ==
  ASSUME TypeOK, handle # 0
  PROVE  /\ Len(Rest) = IF pos < Len(files[handle]) THEN Len(files[handle]) - pos ELSE 0
         /\ Rest \in Seq(Piece)
         /\ \A k \in 1 .. Len(Rest) :
              pos + k \in 1 .. Len(files[handle]) /\ Rest[k] = files[handle][pos + k]
<1> DEFINE f == files[handle]
<1>1. f \in Seq(Piece) /\ Len(f) \in Nat /\ pos \in Nat
  BY Sizes
<1> HIDE DEF f
<1>2. \A i \in pos + 1 .. Len(f) : f[i] \in Piece
  <2> TAKE i \in pos + 1 .. Len(f)
  <2>1. i \in 1 .. Len(f)
    BY <1>1
  <2> QED
    BY <1>1, <2>1, ElementOfSeq
<1>3. /\ SubSeq(f, pos + 1, Len(f)) \in Seq(Piece)
      /\ Len(SubSeq(f, pos + 1, Len(f))) = IF pos + 1 <= Len(f) THEN Len(f) - (pos + 1) + 1 ELSE 0
      /\ \A i \in 1 .. Len(f) - (pos + 1) + 1 :
           SubSeq(f, pos + 1, Len(f))[i] = f[(pos + 1) + i - 1]
  <2>1. pos + 1 \in Int /\ Len(f) \in Int
    BY <1>1
  <2> QED
    BY <1>2, <2>1, SubSeqProperties
<1>4. Rest = SubSeq(f, pos + 1, Len(f))
  BY DEF Rest, f
<1> DEFINE r == Rest
<1>5. r = SubSeq(f, pos + 1, Len(f))
  BY <1>4
<1> HIDE DEF r
<1>6. Len(r) = IF pos < Len(f) THEN Len(f) - pos ELSE 0
  BY <1>1, <1>3, <1>5
<1>7. ASSUME NEW k \in 1 .. Len(r) PROVE pos + k \in 1 .. Len(f) /\ r[k] = f[pos + k]
  <2>1. pos < Len(f) /\ k \in 1 .. Len(f) - (pos + 1) + 1 /\ (pos + 1) + k - 1 = pos + k
    BY <1>1, <1>6, <1>7
  <2> QED
    BY <1>1, <1>3, <1>5, <2>1
<1> QED
  BY <1>3, <1>5, <1>6, <1>7 DEF f, r

\* The file at the path is opened: what it skips is excused.
LEMMA OpenInv ==
  ASSUME TailerInv, Open
  PROVE  TailerInv'
<1>0. TypeOK /\ PlacesOK /\ FilesOK /\ FreshOK /\ CoverOK /\ LeftOK /\ InOrderOnce
  BY DEF TailerInv
<1>1. /\ UNCHANGED <<files, path, out, written, rotations, processed, reread, blind>>
      /\ pc = "open" /\ path # 0 /\ handle' = path /\ pc' = "read"
      /\ excused \subseteq excused'
      /\ \/ pos' = 0
         \/ /\ pos' = Len(files[path])
            /\ \A k \in 1 .. Len(files[path]) : files[path][k].n \in excused'
  BY DEF Open, fileVars, Numbers
<1>2. /\ path \in Inodes /\ path # 0 /\ handle = 0 /\ FirstFile = path /\ FirstFile' = path
      /\ pos' \in Nat /\ Inodes \subseteq Nat
      /\ \A i \in Inodes : Len(files[i]) \in Nat
  BY <1>0, <1>1, Sizes DEF PlacesOK, FirstFile
<1>3. TypeOK' /\ PlacesOK'
  BY <1>0, <1>1, <1>2 DEF TypeOK, PlacesOK, FirstFile
<1>4. FilesOK' /\ InOrderOnce'
  BY <1>0, <1>1 DEF FilesOK, InOrderOnce
<1>5. \A i \in Inodes, k \in Nat : Ahead(i, k)' => Ahead(i, k)
  BY <1>1, <1>2 DEF Ahead
<1>6. FreshOK'
  BY <1>0, <1>1, <1>2, <1>5 DEF FreshOK
<1>7. CoverOK'
  <2> SUFFICES ASSUME ~reread, NEW m \in 1 .. written PROVE Settled(m)' \/ ToCome(m)'
    BY <1>1 DEF CoverOK
  <2>1. CASE Settled(m)
    BY <1>1, <2>1 DEF Settled, Numbers
  <2>2. CASE ToCome(m)
    <3>0. PICK i \in Inodes : \E k \in 1 .. Len(files[i]) : Ahead(i, k) /\ files[i][k].n = m
      BY <2>2 DEF ToCome
    <3>1. PICK k \in 1 .. Len(files[i]) : Ahead(i, k) /\ files[i][k].n = m
      BY <3>0
    <3>2. CASE Ahead(i, k)'
      BY <1>1, <3>1, <3>2 DEF ToCome
    <3>3. CASE ~Ahead(i, k)'
      <4>0. k \in Nat /\ i \in Nat
        BY <1>2
      <4>1. i = path /\ k <= pos'
        BY <1>1, <1>2, <3>1, <3>3, <4>0 DEF Ahead
      <4>2. pos' # 0
        BY <4>1
      <4> QED
        BY <1>1, <3>1, <4>1, <4>2 DEF Settled
    <3> QED
      BY <3>2, <3>3
  <2> QED
    BY <1>0, <2>1, <2>2 DEF CoverOK
<1>8. LeftOK'
  BY <1>1, <1>2 DEF LeftOK
<1> QED
  BY <1>3, <1>4, <1>6, <1>7, <1>8 DEF TailerInv

\* A line is read, and processed or dropped.
LEMMA ReadLineInv ==
  ASSUME TailerInv, ReadLine
  PROVE  TailerInv'
<1> DEFINE f == files[handle]
<1>0. TypeOK /\ PlacesOK /\ FilesOK /\ FreshOK /\ CoverOK /\ LeftOK /\ InOrderOnce
  BY DEF TailerInv
<1>1. /\ UNCHANGED <<files, path, out, written, rotations, pc, handle, reread, blind>>
      /\ pc = "read"
  BY DEF ReadLine, fileVars
<1>2. handle # 0 /\ handle \in Inodes /\ f \in Seq(Piece) /\ Len(f) \in Nat /\ pos \in Nat
  BY <1>0, <1>1, Sizes DEF PlacesOK
<1>3. PICK m \in 1 .. Len(Rest) :
        /\ pos' = pos + m
        /\ \/ processed' = processed \o SubSeq(Rest, 1, m) /\ UNCHANGED excused
           \/ excused' = excused \cup Numbers(SubSeq(Rest, 1, m)) /\ UNCHANGED processed
  BY DEF ReadLine
<1> DEFINE line == SubSeq(Rest, 1, m)
<1>4. /\ Len(Rest) \in Nat /\ Rest \in Seq(Piece)
      /\ \A k \in 1 .. Len(Rest) : pos + k \in 1 .. Len(f) /\ Rest[k] = f[pos + k]
  BY <1>0, <1>2, RestFacts, LenProperties
<1>5. /\ line \in Seq(Piece) /\ Len(line) = m
      /\ \A k \in 1 .. m : pos + k \in 1 .. Len(f) /\ line[k] = f[pos + k]
  <2> DEFINE r == Rest
  <2>1. r \in Seq(Piece) /\ Len(r) \in Nat /\ m \in 1 .. Len(r)
    BY <1>4
  <2> HIDE DEF r
  <2>2. \A i \in 1 .. m : i \in 1 .. Len(r) /\ r[i] \in Piece
    BY <2>1, ElementOfSeq
  <2>3. /\ SubSeq(r, 1, m) \in Seq(Piece)
        /\ Len(SubSeq(r, 1, m)) = IF 1 <= m THEN m - 1 + 1 ELSE 0
        /\ \A i \in 1 .. m - 1 + 1 : SubSeq(r, 1, m)[i] = r[1 + i - 1]
    <3>1. m \in Int /\ 1 \in Int
      BY <2>1
    <3> QED
      BY <2>2, <3>1, SubSeqProperties
  <2>4. Len(SubSeq(r, 1, m)) = m /\ \A i \in 1 .. m : SubSeq(r, 1, m)[i] = r[i]
    BY <2>1, <2>3
  <2> QED
    BY <1>4, <2>2, <2>3, <2>4 DEF r
<1>6. \/ processed' = processed \o line /\ excused' = excused
      \/ processed' = processed /\ excused' = excused \cup Numbers(line)
  BY <1>3
<1> HIDE DEF f, line
<1>7. m \in Nat \ {0} /\ pos' = pos + m /\ pos' \in Nat
  BY <1>2, <1>3, <1>4
<1>8. /\ processed' \in Seq(Piece) /\ Len(processed') \in Nat
      /\ \A p \in 1 .. Len(processed') :
           \/ p \in 1 .. Len(processed) /\ processed'[p] = processed[p]
           \/ \E k \in 1 .. m : p = Len(processed) + k /\ processed'[p] = f[pos + k]
      /\ \A p \in 1 .. Len(processed) : p \in 1 .. Len(processed') /\ processed'[p] = processed[p]
      /\ \/ \A k \in 1 .. m : Len(processed) + k \in 1 .. Len(processed')
                              /\ processed'[Len(processed) + k] = f[pos + k]
         \/ \A k \in 1 .. m : f[pos + k].n \in excused'
      /\ excused \subseteq excused'
  <2>1. processed \in Seq(Piece) /\ Len(processed) \in Nat
    BY <1>0, Sizes DEF TypeOK
  <2>2. CASE processed' = processed \o line /\ excused' = excused
    <3>1. /\ processed' \in Seq(Piece) /\ Len(processed') = Len(processed) + m
          /\ \A p \in 1 .. Len(processed) + m : processed'[p] =
               IF p <= Len(processed) THEN processed[p] ELSE line[p - Len(processed)]
      BY <1>5, <2>1, <2>2, ConcatProperties
    <3>2. \A p \in 1 .. Len(processed) : p \in 1 .. Len(processed') /\ processed'[p] = processed[p]
      BY <1>7, <2>1, <3>1
    <3>3. ASSUME NEW k \in 1 .. m
          PROVE  /\ Len(processed) + k \in 1 .. Len(processed')
                 /\ processed'[Len(processed) + k] = f[pos + k]
      <4>1. /\ Len(processed) + k \in 1 .. Len(processed) + m
            /\ ~(Len(processed) + k <= Len(processed))
            /\ (Len(processed) + k) - Len(processed) = k
        BY <1>7, <2>1
      <4> QED
        BY <1>5, <3>1, <4>1
    <3>4. ASSUME NEW p \in 1 .. Len(processed')
          PROVE  \/ p \in 1 .. Len(processed)
                 \/ \E k \in 1 .. m : p = Len(processed) + k
      <4>1. CASE p > Len(processed)
        <5>1. p - Len(processed) \in 1 .. m /\ p = Len(processed) + (p - Len(processed))
          BY <1>7, <2>1, <3>1, <4>1
        <5> QED
          BY <5>1
      <4> QED
        BY <1>7, <2>1, <3>1, <4>1
    <3>5. ASSUME NEW p \in 1 .. Len(processed')
          PROVE  \/ p \in 1 .. Len(processed) /\ processed'[p] = processed[p]
                 \/ \E k \in 1 .. m : p = Len(processed) + k /\ processed'[p] = f[pos + k]
      BY <3>2, <3>3, <3>4
    <3>6. Len(processed') \in Nat
      BY <1>7, <2>1, <3>1
    <3> QED
      BY <2>2, <3>1, <3>2, <3>3, <3>5, <3>6
  <2>3. CASE processed' = processed /\ excused' = excused \cup Numbers(line)
    <3>1. \A k \in 1 .. m : f[pos + k].n \in Numbers(line)
      BY <1>5 DEF Numbers
    <3> QED
      BY <2>1, <2>3, <3>1
  <2> QED
    BY <1>6, <2>2, <2>3
<1>9. /\ Inodes \subseteq Nat /\ \A i \in Inodes : Len(files[i]) \in Nat
      /\ \A i \in Inodes : \A k \in 1 .. Len(files[i]) : files[i][k].n \in Nat
      /\ Len(processed) \in Nat /\ written \in Nat
      /\ \A k \in 1 .. Len(processed) : processed[k].n \in Nat
      /\ f = files[handle]
      /\ \A k \in 1 .. m : k \in Nat \ {0} /\ k <= m /\ pos + k \in 1 .. Len(f) /\ pos + k > pos
      /\ \A p \in 1 .. Len(processed') : processed'[p].n \in Nat
  <2>1. \A k \in 1 .. m : k \in Nat \ {0} /\ k <= m /\ pos + k \in 1 .. Len(f) /\ pos + k > pos
    BY <1>2, <1>5, <1>7
  <2>2. \A q \in Piece : q.n \in Nat
    BY TailerAssumption DEF Piece
  <2>3. \A p \in 1 .. Len(processed') : processed'[p].n \in Nat
    BY <1>8, <2>2, ElementOfSeq
  <2> QED
    BY <1>0, <2>1, <2>3, Sizes DEF f
<1>10. TypeOK' /\ PlacesOK'
  BY <1>0, <1>1, <1>7, <1>8 DEF TypeOK, PlacesOK, FirstFile
<1>11. \A i \in Inodes, k \in Nat :
         /\ Ahead(i, k)' => Ahead(i, k)
         /\ Ahead(i, k) => Ahead(i, k)' \/ (i = handle /\ k - pos \in 1 .. m)
         /\ Ahead(i, k)' => i > handle \/ (i = handle /\ k > pos + m)
  BY <1>1, <1>2, <1>7, <1>9 DEF Ahead
<1>12. FilesOK'
  BY <1>0, <1>1, <1>2, <1>8, <1>9 DEF FilesOK
<1>13. FreshOK'
  <2> SUFFICES ASSUME ~reread, NEW i \in Inodes, NEW k \in 1 .. Len(files[i]),
                      NEW p \in 1 .. Len(processed'), Ahead(i, k)'
               PROVE  processed'[p].n < files[i][k].n
    BY <1>1 DEF FreshOK
  <2>0. k \in Nat
    BY <1>9
  <2>1. CASE p \in 1 .. Len(processed) /\ processed'[p] = processed[p]
    BY <1>0, <1>11, <2>0, <2>1 DEF FreshOK
  <2>2. ASSUME NEW h \in 1 .. m, processed'[p] = f[pos + h]
        PROVE  processed'[p].n < files[i][k].n
    <3>1. handle < i \/ (handle = i /\ pos + h < k)
      BY <1>2, <1>7, <1>9, <1>11, <2>0
    <3> QED
      BY <1>0, <1>2, <1>9, <2>2, <3>1 DEF FilesOK
  <2> QED
    BY <1>8, <2>1, <2>2
<1>14. CoverOK'
  <2> SUFFICES ASSUME ~reread, NEW n \in 1 .. written PROVE Settled(n)' \/ ToCome(n)'
    BY <1>1 DEF CoverOK
  <2>1. CASE Settled(n)
    <3>1. n \in Numbers(processed) => n \in Numbers(processed')
      BY <1>8 DEF Numbers
    <3> QED
      BY <1>1, <1>8, <2>1, <3>1 DEF Settled
  <2>2. CASE ToCome(n)
    <3>0. PICK i \in Inodes : \E k \in 1 .. Len(files[i]) : Ahead(i, k) /\ files[i][k].n = n
      BY <2>2 DEF ToCome
    <3>1. PICK k \in 1 .. Len(files[i]) : Ahead(i, k) /\ files[i][k].n = n
      BY <3>0
    <3>2. CASE Ahead(i, k)'
      BY <1>1, <3>1, <3>2 DEF ToCome
    <3>3. CASE i = handle /\ k - pos \in 1 .. m
      <4> DEFINE h == k - pos
      <4>0. pos + h = k
        BY <1>2, <1>9
      <4>1. h \in 1 .. m /\ f[pos + h].n = n
        BY <1>9, <3>1, <3>3, <4>0
      <4> HIDE DEF h
      <4>2. \/ Len(processed) + h \in 1 .. Len(processed') /\ processed'[Len(processed) + h].n = n
            \/ n \in excused'
        BY <1>8, <4>1
      <4> QED
        BY <4>2 DEF Settled, Numbers
    <3>4. k \in Nat
      BY <1>9
    <3> QED
      BY <1>11, <3>1, <3>2, <3>3, <3>4
  <2> QED
    BY <1>0, <2>1, <2>2 DEF CoverOK
<1>15. LeftOK'
  BY <1>0, <1>1, <1>2, <1>8 DEF LeftOK, FirstFile
<1>16. InOrderOnce'
  <2> SUFFICES ASSUME ~reread, NEW i \in 1 .. Len(processed'), NEW j \in 1 .. Len(processed'),
                      i < j
               PROVE  processed'[i].n < processed'[j].n
    BY <1>1 DEF InOrderOnce
  <2>1. CASE j \in 1 .. Len(processed) /\ processed'[j] = processed[j]
    <3>1. i \in 1 .. Len(processed) /\ processed'[i] = processed[i]
      BY <1>8, <1>9, <2>1
    <3> QED
      BY <1>0, <2>1, <3>1 DEF InOrderOnce
  <2>2. ASSUME NEW h \in 1 .. m, j = Len(processed) + h /\ processed'[j] = f[pos + h]
        PROVE  processed'[i].n < processed'[j].n
    <3>0. pos + h \in 1 .. Len(files[handle]) /\ files[handle][pos + h] = f[pos + h]
      BY <1>9
    <3>1. CASE i \in 1 .. Len(processed) /\ processed'[i] = processed[i]
      <4>1. Ahead(handle, pos + h)
        BY <1>2, <1>9 DEF Ahead
      <4> QED
        BY <1>0, <1>2, <2>2, <3>0, <3>1, <4>1 DEF FreshOK
    <3>2. ASSUME NEW g \in 1 .. m, i = Len(processed) + g /\ processed'[i] = f[pos + g]
          PROVE  processed'[i].n < processed'[j].n
      <4>1. pos + g < pos + h
        BY <1>2, <1>9, <2>2, <3>2
      <4>2. pos + g \in 1 .. Len(files[handle]) /\ files[handle][pos + g] = f[pos + g]
        BY <1>9
      <4> QED
        BY <1>0, <1>2, <2>2, <3>0, <3>2, <4>1, <4>2 DEF FilesOK
    <3> QED
      BY <1>8, <3>1, <3>2
  <2> QED
    BY <1>8, <2>1, <2>2
<1> QED
  BY <1>10, <1>12, <1>13, <1>14, <1>15, <1>16 DEF TailerInv

\* The end of the file: nothing is left of it.
LEMMA EndOfFileInv ==
  ASSUME TailerInv, EndOfFile
  PROVE  TailerInv'
<1>1. /\ UNCHANGED <<files, path, out, written, rotations, handle, pos, processed, reread,
                     excused, blind>>
      /\ pc = "read" /\ pc' = "check" /\ Rest = <<>>
  BY DEF EndOfFile, fileVars
<1>2. TypeOK /\ PlacesOK /\ LeftOK /\ handle # 0
  BY <1>1 DEF TailerInv, PlacesOK
<1>3. handle \in Inodes /\ pos \in Nat /\ Len(files[handle]) \in Nat
  BY <1>2, Sizes
<1>4. ~(pos < Len(files[handle]))
  <2>1. Len(Rest) = 0
    BY <1>1
  <2> QED
    BY <1>2, <1>3, <2>1, RestFacts
<1>5. LeftOK'
  BY <1>1, <1>2, <1>3, <1>4 DEF LeftOK, FirstFile
<1>6. PlacesOK'
  BY <1>1, <1>2 DEF PlacesOK, FirstFile
<1> QED
  BY <1>1, <1>5, <1>6, KeptInv

\* The file was rotated: what is left of it and of the files after it is excused.  It was
\* not: the tailer reads on or stops.
LEMMA CheckInv ==
  ASSUME TailerInv, Check
  PROVE  TailerInv'
<1>0. TypeOK /\ PlacesOK /\ FilesOK /\ FreshOK /\ CoverOK /\ LeftOK /\ InOrderOnce
  BY DEF TailerInv
<1>1. /\ UNCHANGED <<files, path, out, written, rotations, processed, reread, excused, blind>>
      /\ pc = "check"
      /\ \/ path # handle /\ pc' = "open" /\ handle' = 0 /\ pos' = 0
         \/ pc' \in {"stopped", "read"} /\ UNCHANGED <<handle, pos>>
  BY DEF Check, CheckForRotation, fileVars
<1>2. handle # 0 /\ handle \in Inodes /\ Inodes \subseteq Nat \ {0} /\ pos \in Nat
  BY <1>0, <1>1, Sizes DEF PlacesOK
<1>3. CASE pc' \in {"stopped", "read"} /\ UNCHANGED <<handle, pos>>
  <2>1. PlacesOK' /\ LeftOK'
    BY <1>0, <1>1, <1>2, <1>3 DEF PlacesOK, LeftOK, FirstFile
  <2> QED
    BY <1>1, <1>3, <2>1, KeptInv
<1>4. CASE path # handle /\ pc' = "open" /\ handle' = 0 /\ pos' = 0
  <2>1. handle < FirstFile /\ FirstFile' = FirstFile /\ FirstFile \in Nat
    BY <1>0, <1>1, <1>2, <1>4, Sizes DEF PlacesOK, FirstFile
  <2>2. TypeOK' /\ PlacesOK'
    BY <1>0, <1>1, <1>4, <2>1 DEF TypeOK, PlacesOK
  <2>3. FilesOK' /\ InOrderOnce'
    BY <1>0, <1>1 DEF FilesOK, InOrderOnce
  <2>4. LeftOK'
    BY <1>4 DEF LeftOK
  <2>5. \A i \in Inodes : \A k \in 1 .. Len(files[i]) :
          /\ Ahead(i, k)' => Ahead(i, k)
          /\ Ahead(i, k) => Ahead(i, k)' \/ files[i][k].n \in excused
    <3> TAKE i \in Inodes
    <3> TAKE k \in 1 .. Len(files[i])
    <3>1. Ahead(i, k)' <=> i >= FirstFile
      BY <1>4, <2>1 DEF Ahead
    <3>2. Ahead(i, k) <=> i > handle \/ (i = handle /\ k > pos)
      BY <1>2 DEF Ahead
    <3>3. i = handle /\ k > pos => files[i][k].n \in excused
      BY <1>0, <1>1 DEF LeftOK
    <3>4. handle < i /\ i < FirstFile => files[i][k].n \in excused
      BY <1>0, <1>2 DEF LeftOK
    <3> QED
      BY <1>2, <2>1, <3>1, <3>2, <3>3, <3>4
  <2>6. FreshOK'
    BY <1>0, <1>1, <2>5 DEF FreshOK
  <2>7. CoverOK'
    <3> SUFFICES ASSUME ~reread, NEW m \in 1 .. written PROVE Settled(m)' \/ ToCome(m)'
      BY <1>1 DEF CoverOK
    <3>1. Settled(m) => Settled(m)'
      BY <1>1 DEF Settled, Numbers
    <3>2. ToCome(m) => Settled(m)' \/ ToCome(m)'
      BY <1>1, <2>5 DEF ToCome, Settled
    <3> QED
      BY <1>0, <3>1, <3>2 DEF CoverOK
  <2> QED
    BY <2>2, <2>3, <2>4, <2>6, <2>7 DEF TailerInv
<1> QED
  BY <1>1, <1>3, <1>4

\* A failed read, or a failed look at the path, gives the promises up.
LEMMA ReadFailsInv ==
  ASSUME TailerInv, ReadFails \/ CheckFails
  PROVE  TailerInv'
<1>0. TypeOK /\ PlacesOK /\ FilesOK
  BY DEF TailerInv
<1>1. /\ UNCHANGED <<files, path, out, written, rotations, processed>>
      /\ pc' = "open" /\ handle' = 0 /\ pos' = 0 /\ reread' = TRUE
  BY DEF ReadFails, CheckFails, fileVars
<1>2. TypeOK' /\ PlacesOK'
  BY <1>0, <1>1 DEF TypeOK, PlacesOK, FirstFile
<1>3. FilesOK'
  BY <1>0, <1>1 DEF FilesOK
<1>4. FreshOK' /\ CoverOK' /\ InOrderOnce'
  BY <1>1 DEF FreshOK, CoverOK, InOrderOnce
<1>5. LeftOK'
  BY <1>1 DEF LeftOK
<1> QED
  BY <1>2, <1>3, <1>4, <1>5 DEF TailerInv

\* A failed attempt to open, a signal, or no step at all.
LEMMA IdleInv ==
  ASSUME TailerInv, OpenFails \/ Shutdown \/ UNCHANGED vars
  PROVE  TailerInv'
<1>1. /\ UNCHANGED <<files, path, out, written, rotations, handle, pos, processed, reread,
                     excused, blind>>
      /\ pc' = pc \/ pc' = "stopped"
  BY DEF OpenFails, Shutdown, vars, fileVars, tailVars
<1>2. PlacesOK' /\ LeftOK'
  BY <1>1 DEF TailerInv, PlacesOK, LeftOK, FirstFile
<1> QED
  BY <1>1, <1>2, KeptInv

(***************************************************************************)
(* Theorems                                                                *)
(***************************************************************************)

\* Every step of the server, of logrotate and of the tailer keeps the invariant: whatever
\* happens to the file, a piece is processed, counted as an exception, or still to come.
THEOREM Invariance == TailerSpec => []TailerInv
<1>1. TailerInv /\ [TailerNext]_vars => TailerInv'
  <2> SUFFICES ASSUME TailerInv, [TailerNext]_vars PROVE TailerInv'
    OBVIOUS
  <2>1. CASE \E eol \in BOOLEAN : Write(eol)
    BY <2>1, WriteInv
  <2>2. CASE Rename
    BY <2>2, RenameInv
  <2>3. CASE Create \/ Reopen
    BY <2>3, CreateInv
  <2>4. CASE Truncate
    BY <2>4, TruncateInv
  <2>5. CASE Open
    BY <2>5, OpenInv
  <2>6. CASE ReadLine
    BY <2>6, ReadLineInv
  <2>7. CASE EndOfFile
    BY <2>7, EndOfFileInv
  <2>8. CASE Check
    BY <2>8, CheckInv
  <2>9. CASE ReadFails \/ CheckFails
    BY <2>9, ReadFailsInv
  <2>10. CASE OpenFails \/ Shutdown \/ UNCHANGED vars
    BY <2>10, IdleInv
  <2> QED
    BY <2>1, <2>2, <2>3, <2>4, <2>5, <2>6, <2>7, <2>8, <2>9, <2>10 DEF TailerNext, Poll
<1> QED
  BY <1>1, InitInv, PTL DEF TailerSpec

\* LiveLogTailer processes no line twice and none before an older one, however the file is
\* renamed, truncated and written meanwhile, unless an error made it start the file again.
THEOREM LinesComeInOrder == TailerSpec => []InOrderOnce
<1>1. TailerInv => InOrderOnce
  BY DEF TailerInv
<1> QED
  BY <1>1, Invariance, PTL

\* When LiveLogTailer has processed a line, it has processed every older one or the line is
\* among those it cannot be expected to see, across any number of rotations.
THEOREM NoLineIsSkipped == TailerSpec => []NoGaps
<1>1. TailerInv => NoGaps
  <2> SUFFICES ASSUME TailerInv, ~reread, NEW p \in Numbers(processed), NEW m \in 1 .. p
               PROVE  m \in Numbers(processed) \cup excused \cup blind
    BY DEF NoGaps
  <2>1. TypeOK /\ FilesOK /\ FreshOK /\ CoverOK
    BY DEF TailerInv
  <2>2. PICK q \in 1 .. Len(processed) : processed[q].n = p
    BY DEF Numbers
  <2>3. p \in Nat /\ p <= written /\ written \in Nat
    BY <2>1, <2>2, Sizes DEF FilesOK
  <2>4. Settled(m) \/ ToCome(m)
    BY <2>1, <2>3 DEF CoverOK
  <2>5. ~ToCome(m)
    <3> SUFFICES ASSUME NEW i \in Inodes, NEW k \in 1 .. Len(files[i]),
                        Ahead(i, k), files[i][k].n = m
                 PROVE  FALSE
      BY DEF ToCome
    <3>1. p < m
      BY <2>1, <2>2 DEF FreshOK
    <3> QED
      BY <2>3, <3>1
  <2> QED
    BY <2>4, <2>5 DEF Settled
<1> QED
  BY <1>1, Invariance, PTL

(***************************************************************************)
(* Checker: types                                                          *)
(***************************************************************************)

StepStates == [step : Nat, at : 0 .. MaxTs]
Activities == [last : 0 .. MaxTs, blocked : BOOLEAN, until : Nat,
               skip : {"none", "good", "blocked"}, progress : [ChainIds -> StepStates]]
Blocks == [actor : Actors, n : Nat, from : Nat, until : Int]
Completions == [chain : ChainIds, actor : Actors, n : Nat]
Works == [store : [Actors -> Activities], bad : SUBSET IPs, scores : [IPs -> Nat],
          completed : SUBSET Completions, blocks : SUBSET Blocks, n : Nat,
          touched : SUBSET Actors, stop : BOOLEAN]

InOrder(b) == \A i \in 1 .. Len(b) - 1 : b[i].ts <= b[i + 1].ts

TypesOK ==
  /\ store \in [Actors -> Activities] /\ bad \in SUBSET IPs /\ scores \in [IPs -> Nat]
  /\ completed \in SUBSET Completions /\ blocks \in SUBSET Blocks
  /\ now \in Nat \ {0} /\ arrived \in Nat
  /\ buffer \in Seq(Entries) /\ hand \in Seq(Entries) /\ checked \in Seq(Entries)
  /\ InOrder(buffer)

(***************************************************************************)
(* Checker: the inductive invariant                                        *)
(***************************************************************************)

\* A completed chain leaves no progress.
StepsOK(s) == \A a \in Actors, c \in ChainIds : s[a].progress[c].step < Len(Chains[c].steps)

\* The entries of log up to position m have led an actor to where it is in chain c.
Led(log, c, a, p, m) ==
  \E f \in [1 .. p.step -> 1 .. m] :
    Witness(log, c, a, p.step, f) /\ log[f[p.step]].ts = p.at

ProgressOK(s, log) ==
  \A a \in Actors, c \in ChainIds :
    s[a].progress[c].step > 0 => Led(log, c, a, s[a].progress[c], Len(log))

\* The last entry of log has moved nobody yet in a chain that was not tried on it.
UntriedOK(s, log, tried) ==
  \A a \in Actors, c \in ChainIds \ tried :
    ListedOnce(c) /\ s[a].progress[c].step > 0 =>
      Led(log, c, a, s[a].progress[c], Len(log) - 1)

Justified(log, x) ==
  \E f \in [1 .. Len(Chains[x.chain].steps) -> 1 .. x.n] :
    /\ f[Len(Chains[x.chain].steps)] = x.n
    /\ Witness(log, x.chain, x.actor, Len(Chains[x.chain].steps), f)

CompletedOK(done, log) == \A x \in done : x.n <= Len(log) /\ Justified(log, x)

\* Another block of the IP, issued since, has marked the actor of x.
Overtaken(bs, x, z) ==
  /\ BareIP(x.actor)
  /\ z \in bs /\ z.actor # x.actor /\ z.actor.ip = x.actor.ip /\ x.n <= z.n

\* A block is known to the activity of its actor as long as it lasts, unless another
\* one has overtaken it; then that one is, or is over.
Held(s, bs, t, x) ==
  \/ s[x.actor].blocked /\ s[x.actor].until >= x.until
  \/ \E z \in bs :
       /\ Overtaken(bs, x, z)
       /\ z.until < t \/ (s[x.actor].blocked /\ s[x.actor].until >= z.until)

BlocksOK(s, bs, t, n) ==
  \A x \in bs : x.n <= n /\ x.from <= t /\ (x.until >= t => Held(s, bs, t, x))

TwiceOK(bs) ==
  \A x, y \in bs :
    x.actor = y.actor /\ x.n < y.n /\ y.from <= x.until =>
      \E z \in bs : Overtaken(bs, x, z) /\ z.n <= y.n /\ z.until < y.from

StateOK(s, done, bs, log, t) ==
  /\ StepsOK(s) /\ ProgressOK(s, log) /\ CompletedOK(done, log)
  /\ BlocksOK(s, bs, t, Len(log)) /\ TwiceOK(bs)

CheckerInv == TypesOK /\ EveryEntryOnce /\ StateOK(store, completed, blocks, checked, now)

\* The same while checkChainsInternal is at work.
EntryInv(w, log) ==
  /\ w \in Works /\ StepsOK(w.store) /\ w.n = Len(log)
  /\ ProgressOK(w.store, log)
  /\ CompletedOK(w.completed, log)
  /\ BlocksOK(w.store, w.blocks, now, w.n)
  /\ TwiceOK(w.blocks)

(***************************************************************************)
(* Checker: loops and the buffer                                           *)
(***************************************************************************)

\* A set of naturals has a least member.
LEMMA FirstOf ==
  ASSUME NEW S, S \subseteq Nat, S # {}
  PROVE  \E x \in S : \A y \in S : x <= y
<1>1. PICK x \in S : \A y \in S : ~(<<y, x>> \in OpToRel(<, Nat))
  BY NatLessThanWellFounded, WFMin
<1>2. ASSUME NEW y \in S PROVE x <= y
  <2>1. x \in Nat /\ y \in Nat
    OBVIOUS
  <2>2. ASSUME y < x PROVE FALSE
    <3> <<y, x>> \in {ss \in Nat \X Nat : ss[1] < ss[2]}
      BY <2>1, <2>2
    <3> QED
      BY <1>1 DEF OpToRel
  <2> QED
    BY <2>1, <2>2
<1> QED
  BY <1>2

\* Min of such a set is that member.
LEMMA MinOf ==
  ASSUME NEW S, S \subseteq Nat, S # {}
  PROVE  Min(S) \in S /\ \A y \in S : Min(S) <= y
<1>1. \E x \in S : \A y \in S : x <= y
  BY FirstOf
<1>2. Min(S) = CHOOSE x \in S : \A y \in S : x <= y
  BY DEF Min
<1> QED
  BY <1>1, <1>2, Zenon

\* What holds before a loop, and after each turn if it held before it, holds after all.
LEMMA EveryTurn ==
  ASSUME NEW n \in Nat, NEW S, 0 \in S, \A i \in 1 .. n : i - 1 \in S => i \in S
  PROVE  0 .. n \subseteq S
<1> SUFFICES ASSUME (0 .. n) \ S # {} PROVE FALSE
  OBVIOUS
<1>1. (0 .. n) \ S \subseteq Nat
  OBVIOUS
<1>2. PICK x \in (0 .. n) \ S : \A y \in (0 .. n) \ S : x <= y
  BY <1>1, FirstOf
<1>3. x \in 1 .. n /\ x - 1 \in 0 .. n /\ ~(x <= x - 1)
  BY <1>2
<1> QED
  BY <1>2, <1>3

\* Where sort.Search finds the place of t in a buffer that is in order.
LEMMA SearchFacts ==
  ASSUME NEW b \in Seq(Entries), NEW t \in Int, InOrder(b)
  PROVE  /\ Search(b, t) \in 1 .. Len(b) + 1
         /\ \A i \in 1 .. Search(b, t) - 1 : b[i].ts <= t
         /\ \A i \in Search(b, t) .. Len(b) : b[i].ts > t
<1> DEFINE S == {i \in 1 .. Len(b) + 1 : i <= Len(b) => b[i].ts > t}
           k == Search(b, t)
<1>0. Len(b) \in Nat /\ \A i \in 1 .. Len(b) : b[i].ts \in Int
  <2> \A i \in 1 .. Len(b) : b[i] \in Entries
    OBVIOUS
  <2> QED
    BY DEF Entries
<1>1. S \subseteq Nat /\ Len(b) + 1 \in S
  BY <1>0
<1>2. k \in S /\ \A y \in S : k <= y
  <2> HIDE DEF S
  <2>1. Min(S) \in S /\ \A y \in S : Min(S) <= y
    BY <1>1, MinOf
  <2> QED
    BY <2>1 DEF Search, S
<1> HIDE DEF k
<1>3. k \in 1 .. Len(b) + 1 /\ \A i \in 1 .. k - 1 : b[i].ts <= t
  BY <1>0, <1>2
<1>4. \A i \in k .. Len(b) : b[i].ts > t
  <2> DEFINE T == {j \in Nat : k + j <= Len(b) => b[k + j].ts > t}
  <2>1. 0 \in T
    BY <1>2, <1>3
  <2>2. ASSUME NEW j \in 1 .. Len(b), j - 1 \in T PROVE j \in T
    <3> SUFFICES ASSUME k + j <= Len(b) PROVE b[k + j].ts > t
      BY <1>3
    <3>1. k + (j - 1) \in 1 .. Len(b) - 1 /\ k + (j - 1) + 1 = k + j
      BY <1>0, <1>3
    <3>2. b[k + (j - 1)].ts > t
      BY <2>2, <3>1
    <3>3. b[k + (j - 1)].ts <= b[k + j].ts
      BY <3>1 DEF InOrder
    <3>4. k + j \in 1 .. Len(b)
      BY <3>1, <1>3
    <3> QED
      BY <1>0, <3>1, <3>2, <3>3, <3>4
  <2>3. 0 .. Len(b) \subseteq T
    <3> HIDE DEF T
    <3> QED
      BY <1>0, <2>1, <2>2, EveryTurn
  <2> TAKE i \in k .. Len(b)
  <2>4. i - k \in 0 .. Len(b) /\ k + (i - k) = i
    BY <1>0, <1>3
  <2> QED
    BY <2>3, <2>4
<1> QED
  BY <1>3, <1>4 DEF k

\* Two logs end to end.
LEMMA JoinFacts ==
  ASSUME NEW p \in Seq(Entries), NEW q \in Seq(Entries)
  PROVE  /\ p \o q \in Seq(Entries) /\ Len(p \o q) = Len(p) + Len(q)
         /\ Ids(p \o q) = Ids(p) \cup Ids(q)
         /\ \A i \in 1 .. Len(p) : (p \o q)[i] = p[i]
         /\ \A i \in Len(p) + 1 .. Len(p) + Len(q) : (p \o q)[i] = q[i - Len(p)]
<1>1. /\ p \o q \in Seq(Entries) /\ Len(p \o q) = Len(p) + Len(q)
      /\ \A i \in 1 .. Len(p) + Len(q) : (p \o q)[i] = IF i <= Len(p) THEN p[i] ELSE q[i - Len(p)]
  OBVIOUS
<1>2. ASSUME NEW i \in 1 .. Len(q) PROVE q[i].id \in Ids(p \o q)
  <2> Len(p) + i \in 1 .. Len(p) + Len(q) /\ (Len(p) + i) - Len(p) = i /\ ~(Len(p) + i <= Len(p))
    OBVIOUS
  <2> QED
    BY <1>1 DEF Ids
<1>3. ASSUME NEW i \in 1 .. Len(p) PROVE p[i].id \in Ids(p \o q)
  <2> i \in 1 .. Len(p) + Len(q)
    OBVIOUS
  <2> QED
    BY <1>1 DEF Ids
<1>4. ASSUME NEW i \in 1 .. Len(p) + Len(q) PROVE (p \o q)[i].id \in Ids(p) \cup Ids(q)
  <2>1. CASE i <= Len(p)
    BY <1>1, <2>1 DEF Ids
  <2>2. CASE i > Len(p)
    <3> i - Len(p) \in 1 .. Len(q)
      BY <2>2
    <3> QED
      BY <1>1, <2>2 DEF Ids
  <2> QED
    BY <2>1, <2>2
<1>5. Ids(p \o q) = Ids(p) \cup Ids(q)
  <2> DEFINE r == p \o q
  <2>1. Len(r) = Len(p) + Len(q)
    BY <1>1
  <2> HIDE DEF r
  <2>2. Ids(r) \subseteq Ids(p) \cup Ids(q)
    BY <1>4, <2>1 DEF Ids, r
  <2>3. Ids(p) \subseteq Ids(r) /\ Ids(q) \subseteq Ids(r)
    BY <1>2, <1>3 DEF Ids, r
  <2> QED
    BY <2>2, <2>3 DEF r
<1>6. /\ \A i \in 1 .. Len(p) : (p \o q)[i] = p[i]
      /\ \A i \in Len(p) + 1 .. Len(p) + Len(q) : (p \o q)[i] = q[i - Len(p)]
  BY <1>1
<1> QED
  BY <1>1, <1>5, <1>6

\* A late entry joins the buffer, which stays in order.
LEMMA BufferFacts ==
  ASSUME NEW b \in Seq(Entries), NEW e \in Entries, InOrder(b)
  PROVE  /\ AddToOooBuffer(b, e) \in Seq(Entries)
         /\ Len(AddToOooBuffer(b, e)) = Len(b) + 1
         /\ Ids(AddToOooBuffer(b, e)) = Ids(b) \cup {e.id}
         /\ InOrder(AddToOooBuffer(b, e))
<1> DEFINE k == Search(b, e.ts)
           c == AddToOooBuffer(b, e)
<1>0. /\ Len(b) \in Nat /\ \A i \in 1 .. Len(b) : b[i] \in Entries /\ b[i].ts \in Int
      /\ e.ts \in Int
  <2> \A i \in 1 .. Len(b) : b[i] \in Entries
    OBVIOUS
  <2> QED
    BY DEF Entries
<1>1. /\ k \in 1 .. Len(b) + 1
      /\ \A i \in 1 .. k - 1 : b[i].ts <= e.ts
      /\ \A i \in k .. Len(b) : b[i].ts > e.ts
  <2> e.ts \in Int
    BY <1>0
  <2> QED
    BY SearchFacts
<1>2. c = SubSeq(b, 1, k - 1) \o <<e>> \o SubSeq(b, k, Len(b))
  BY DEF AddToOooBuffer
<1> HIDE DEF k, c
<1>a. Len(b) \in Nat /\ k \in 1 .. Len(b) + 1
  BY <1>0, <1>1
<1>3. /\ c \in Seq(Entries) /\ Len(c) = Len(b) + 1
      /\ \A i \in 1 .. k - 1 : c[i] = b[i]
      /\ c[k] = e
      /\ \A i \in k + 1 .. Len(b) + 1 : c[i] = b[i - 1]
  <2> DEFINE s == SubSeq(b, 1, k - 1)
             r == SubSeq(b, k, Len(b))
  <2>1. s \in Seq(Entries) /\ Len(s) = k - 1 /\ \A i \in 1 .. k - 1 : s[i] = b[i]
    BY <1>0, <1>1, SubSeqProperties
  <2>2. r \in Seq(Entries) /\ Len(r) = Len(b) - k + 1 /\ \A i \in 1 .. Len(b) - k + 1 : r[i] = b[k + i - 1]
    BY <1>0, <1>1, SubSeqProperties
  <2> HIDE DEF s, r
  <2>3. c = (s \o <<e>>) \o r
    BY <1>2 DEF s, r
  <2> DEFINE q == s \o <<e>>
  <2>4. q \in Seq(Entries) /\ Len(q) = k /\ q[k] = e /\ \A i \in 1 .. k - 1 : q[i] = b[i]
    <3>1. <<e>> \in Seq(Entries) /\ Len(<<e>>) = 1 /\ <<e>>[1] = e
      OBVIOUS
    <3> DEFINE one == <<e>>
    <3> HIDE DEF one
    <3>2. /\ s \o one \in Seq(Entries) /\ Len(s \o one) = Len(s) + Len(one)
          /\ \A i \in 1 .. Len(s) : (s \o one)[i] = s[i]
          /\ \A i \in Len(s) + 1 .. Len(s) + Len(one) : (s \o one)[i] = one[i - Len(s)]
      BY <2>1, <3>1, JoinFacts DEF one
    <3>3. Len(s) = k - 1 /\ Len(one) = 1 /\ one[1] = e /\ k \in Nat
      BY <1>a, <2>1, <3>1 DEF one
    <3> HIDE DEF q
    <3>4. q = s \o one
      BY DEF q, one
    <3>5. Len(q) = k /\ q[k] = e
      <4> k \in Len(s) + 1 .. Len(s) + Len(one) /\ k - Len(s) = 1
        BY <3>3
      <4> QED
        BY <3>2, <3>3, <3>4
    <3> QED
      BY <2>1, <3>2, <3>3, <3>4, <3>5
  <2> HIDE DEF q
  <2>5. c = q \o r
    BY <2>3 DEF q
  <2>6. /\ c \in Seq(Entries) /\ Len(c) = Len(q) + Len(r)
        /\ \A i \in 1 .. Len(q) : c[i] = q[i]
        /\ \A i \in Len(q) + 1 .. Len(q) + Len(r) : c[i] = r[i - Len(q)]
    BY <2>2, <2>4, <2>5, JoinFacts
  <2>7. /\ Len(c) = Len(b) + 1
        /\ \A i \in 1 .. k : c[i] = q[i]
        /\ \A i \in k + 1 .. Len(b) + 1 : c[i] = r[i - k]
    BY <1>0, <1>1, <2>2, <2>4, <2>6
  <2>8. ASSUME NEW i \in k + 1 .. Len(b) + 1 PROVE c[i] = b[i - 1]
    <3>1. i - k \in 1 .. Len(b) - k + 1 /\ k + (i - k) - 1 = i - 1
      BY <1>0, <1>1
    <3> QED
      BY <2>2, <2>7, <3>1
  <2> QED
    BY <1>1, <2>4, <2>6, <2>7, <2>8
<1>4. Ids(c) = Ids(b) \cup {e.id}
  <2>1. ASSUME NEW x \in Ids(c) PROVE x \in Ids(b) \cup {e.id}
    <3>1. PICK i \in 1 .. Len(b) + 1 : x = c[i].id
      BY <1>3, <2>1 DEF Ids
    <3>2. CASE i < k
      BY <1>0, <1>1, <1>3, <3>1, <3>2 DEF Ids
    <3>3. CASE i = k
      BY <1>3, <3>1, <3>3
    <3>4. CASE i > k
      <4> i - 1 \in 1 .. Len(b) /\ i \in k + 1 .. Len(b) + 1
        BY <1>0, <1>1, <3>1, <3>4
      <4> QED
        BY <1>3, <3>1 DEF Ids
    <3> QED
      BY <1>1, <3>1, <3>2, <3>3, <3>4
  <2>2. ASSUME NEW i \in 1 .. Len(b) PROVE b[i].id \in Ids(c)
    <3>1. CASE i < k
      <4> i \in 1 .. k - 1 /\ i \in 1 .. Len(c)
        BY <1>0, <1>1, <1>3, <3>1
      <4> QED
        BY <1>3 DEF Ids
    <3>2. CASE i >= k
      <4> i + 1 \in k + 1 .. Len(b) + 1 /\ (i + 1) - 1 = i /\ i + 1 \in 1 .. Len(c)
        BY <1>0, <1>1, <1>3, <3>2
      <4> c[i + 1] = b[i]
        BY <1>3
      <4> QED
        BY DEF Ids
    <3> QED
      BY <1>0, <1>1, <3>1, <3>2
  <2>3. e.id \in Ids(c)
    <3> k \in 1 .. Len(c)
      BY <1>0, <1>1, <1>3
    <3> QED
      BY <1>3 DEF Ids
  <2> QED
    BY <2>1, <2>2, <2>3 DEF Ids
<1>5. InOrder(c)
  <2> SUFFICES ASSUME NEW i \in 1 .. Len(b) PROVE c[i].ts <= c[i + 1].ts
    <3> Len(c) - 1 = Len(b)
      BY <1>a, <1>3
    <3> QED
      BY DEF InOrder
  <2>1. CASE i + 1 < k
    <3> i \in 1 .. k - 1 /\ i + 1 \in 1 .. k - 1 /\ i \in 1 .. Len(b) - 1
      BY <1>a, <2>1
    <3> QED
      BY <1>3 DEF InOrder
  <2>2. CASE i + 1 = k
    <3> i \in 1 .. k - 1
      BY <1>a, <2>2
    <3> QED
      BY <1>1, <1>3, <2>2
  <2>3. CASE i = k
    <3> i + 1 \in k + 1 .. Len(b) + 1 /\ (i + 1) - 1 = i /\ i \in k .. Len(b)
      BY <1>a, <2>3
    <3>1. c[i] = e /\ c[i + 1] = b[i]
      BY <1>3, <2>3
    <3>2. b[i].ts > e.ts
      BY <1>1
    <3> QED
      BY <1>0, <3>1, <3>2
  <2>4. CASE i > k
    <3> /\ i \in k + 1 .. Len(b) + 1 /\ i + 1 \in k + 1 .. Len(b) + 1 /\ (i + 1) - 1 = i
        /\ i - 1 \in 1 .. Len(b) - 1 /\ (i - 1) + 1 = i
      BY <1>a, <2>4
    <3>1. c[i] = b[i - 1] /\ c[i + 1] = b[i] /\ b[i - 1].ts <= b[(i - 1) + 1].ts
      BY <1>3 DEF InOrder
    <3> QED
      BY <3>1
  <2> QED
    BY <1>a, <2>1, <2>2, <2>3, <2>4
<1> QED
  BY <1>3, <1>4, <1>5 DEF c

\* The two pieces of a buffer that is cut keep every entry, and its order.
LEMMA CutFacts ==
  ASSUME NEW b \in Seq(Entries), NEW k \in 0 .. Len(b), InOrder(b)
  PROVE  /\ SubSeq(b, 1, k) \in Seq(Entries) /\ Len(SubSeq(b, 1, k)) = k
         /\ SubSeq(b, k + 1, Len(b)) \in Seq(Entries)
         /\ Len(SubSeq(b, k + 1, Len(b))) = Len(b) - k
         /\ Ids(b) = Ids(SubSeq(b, 1, k)) \cup Ids(SubSeq(b, k + 1, Len(b)))
         /\ InOrder(SubSeq(b, k + 1, Len(b)))
<1> DEFINE s == SubSeq(b, 1, k)
           r == SubSeq(b, k + 1, Len(b))
<1>0. Len(b) \in Nat
  OBVIOUS
<1>1. s \in Seq(Entries) /\ Len(s) = k /\ \A i \in 1 .. k : s[i] = b[i]
  BY <1>0, SubSeqProperties
<1>2. r \in Seq(Entries) /\ Len(r) = Len(b) - k /\ \A i \in 1 .. Len(b) - k : r[i] = b[k + i]
  BY <1>0, SubSeqProperties
<1> HIDE DEF s, r
<1>3. Ids(s) \cup Ids(r) \subseteq Ids(b)
  <2>1. ASSUME NEW i \in 1 .. k PROVE s[i].id \in Ids(b)
    BY <1>0, <1>1 DEF Ids
  <2>2. ASSUME NEW i \in 1 .. Len(b) - k PROVE r[i].id \in Ids(b)
    <3> k + i \in 1 .. Len(b)
      BY <1>0
    <3> QED
      BY <1>2 DEF Ids
  <2> QED
    BY <1>1, <1>2, <2>1, <2>2 DEF Ids
<1>4. ASSUME NEW i \in 1 .. Len(b) PROVE b[i].id \in Ids(s) \cup Ids(r)
  <2>1. CASE i <= k
    <3> i \in 1 .. Len(s)
      BY <1>0, <1>1, <2>1
    <3> QED
      BY <1>1 DEF Ids
  <2>2. CASE i > k
    <3> i - k \in 1 .. Len(r) /\ k + (i - k) = i
      BY <1>0, <1>2, <2>2
    <3> QED
      BY <1>2 DEF Ids
  <2> QED
    BY <2>1, <2>2
<1>5. InOrder(r)
  <2> SUFFICES ASSUME NEW i \in 1 .. Len(r) - 1 PROVE r[i].ts <= r[i + 1].ts
    BY DEF InOrder
  <2> /\ i \in 1 .. Len(b) - k /\ i + 1 \in 1 .. Len(b) - k /\ k + i \in 1 .. Len(b) - 1
      /\ k + (i + 1) = (k + i) + 1
    BY <1>0, <1>2
  <2> QED
    BY <1>2 DEF InOrder
<1> QED
  BY <1>1, <1>2, <1>3, <1>4, <1>5 DEF s, r, Ids

(***************************************************************************)
(* Checker: one entry against one chain                                    *)
(***************************************************************************)

\* The configured chains are there to look at.
LEMMA ChainFacts ==
  /\ ChainIds \subseteq Nat \ {0}
  /\ \A c \in ChainIds :
       /\ Chains[c] \in BehavioralChain /\ Chains[c].dur \in Nat /\ Chains[c].stop \in BOOLEAN
       /\ Chains[c].steps \in Seq(Steps) /\ Len(Chains[c].steps) \in Nat \ {0}
       /\ \A k \in 1 .. Len(Chains[c].steps) : Chains[c].steps[k] \in Steps
<1>1. Chains \in Seq(BehavioralChain)
  BY CheckerAssumption
<1>2. ASSUME NEW c \in ChainIds PROVE Chains[c] \in BehavioralChain
  BY <1>1 DEF ChainIds
<1>3. ASSUME NEW c \in ChainIds
      PROVE  /\ Chains[c].dur \in Nat /\ Chains[c].stop \in BOOLEAN /\ Chains[c].steps \in Seq(Steps)
  BY <1>2 DEF BehavioralChain
<1>4. ASSUME NEW c \in ChainIds
      PROVE  /\ Len(Chains[c].steps) \in Nat \ {0}
             /\ \A k \in 1 .. Len(Chains[c].steps) : Chains[c].steps[k] \in Steps
  <2> DEFINE q == Chains[c].steps
  <2>1. q \in Seq(Steps) /\ q # <<>>
    BY <1>3, CheckerAssumption
  <2> HIDE DEF q
  <2>2. Len(q) \in Nat \ {0} /\ \A k \in 1 .. Len(q) : q[k] \in Steps
    BY <2>1
  <2> QED
    BY <2>2 DEF q
<1>5. ChainIds \subseteq Nat \ {0}
  BY DEF ChainIds
<1> QED
  BY <1>2, <1>3, <1>4, <1>5

\* The actors that an entry belongs to are actors of its IP.
LEMMA EntryFacts ==
  ASSUME NEW e \in Entries
  PROVE  /\ e.ts \in 1 .. MaxTs /\ e.ip \in IPs /\ e.vhost \in VHosts /\ e.id \in Nat
         /\ BaseActor(e) \in Actors /\ BaseActor(e).ip = e.ip
         /\ IPActor(e) \in Actors /\ IPActor(e).ip = e.ip /\ BareIP(IPActor(e))
         /\ \A c : GetActor(c, e) \in Actors /\ GetActor(c, e).ip = e.ip
<1>1. e.ts \in 1 .. MaxTs /\ e.ip \in IPs /\ e.vhost \in VHosts /\ e.ua \in UAs /\ e.id \in Nat
  BY DEF Entries
<1>2. NoVHost \in VHosts
  BY CheckerAssumption
<1> DEFINE b == [ip |-> e.ip, ua |-> NoUA, vhost |-> e.vhost]
<1>3. b \in Actors /\ b.ip = e.ip
  BY <1>1 DEF Actors
<1>4. /\ [ip |-> e.ip, ua |-> NoUA, vhost |-> NoVHost] \in Actors
      /\ BareIP(IPActor(e)) /\ IPActor(e).ip = e.ip
  BY <1>1, <1>2 DEF Actors, BareIP, IPActor
<1> HIDE DEF b
<1>5. ASSUME NEW u \in UAs \cup {NoUA}
      PROVE  [b EXCEPT !.ua = u] \in Actors /\ [b EXCEPT !.ua = u].ip = e.ip
  BY <1>3 DEF Actors
<1>6. ASSUME NEW c
      PROVE  GetActor(c, e) \in Actors /\ GetActor(c, e).ip = e.ip
  <2>1. CASE Chains[c].key = "ip_ua"
    BY <1>1, <1>5, <2>1 DEF GetActor, BaseActor, b
  <2>2. CASE Chains[c].key # "ip_ua"
    BY <1>5, <2>2 DEF GetActor, BaseActor, b
  <2> QED
    BY <2>1, <2>2
<1> QED
  BY <1>1, <1>3, <1>4, <1>6 DEF BaseActor, IPActor, b

\* What a pre-check leaves alone, and when it lets the actor through.
LEMMA PreCheckFacts ==
  ASSUME NEW act \in Activities, NEW e \in Entries, now \in Nat
  PROVE  LET check == PreCheckActivity(act, e) IN
         /\ check.activity \in Activities /\ check.skip \in BOOLEAN
         /\ check.activity.progress = act.progress
         /\ check.skip => /\ check.activity.blocked = act.blocked
                          /\ check.activity.until = act.until
         /\ ~check.skip => ~act.blocked \/ now > act.until
         /\ ~check.activity.blocked \/ (check.activity.until = act.until /\ act.blocked)
<1> DEFINE open == [act EXCEPT !.blocked = FALSE, !.skip = "none", !.until = 0]
           seen == [act EXCEPT !.last = IF e.ts > @ THEN e.ts ELSE @]
<1>1. e.ts \in 0 .. MaxTs
  BY EntryFacts, CheckerAssumption
<1>2. open \in Activities /\ open.progress = act.progress /\ ~open.blocked
  BY DEF Activities
<1>3. seen \in Activities /\ seen.progress = act.progress /\ seen.blocked = act.blocked /\ seen.until = act.until
  BY <1>1 DEF Activities
<1> HIDE DEF open, seen
<1>4. act.blocked \in BOOLEAN
  BY DEF Activities
<1> DEFINE check == PreCheckActivity(act, e)
<1>5. check =
        IF act.skip = "good" THEN [skip |-> TRUE, activity |-> act]
        ELSE IF ~act.blocked THEN [skip |-> FALSE, activity |-> act]
        ELSE IF now > act.until THEN [skip |-> FALSE, activity |-> open]
        ELSE [skip |-> TRUE, activity |-> seen]
  BY DEF PreCheckActivity, open, seen
<1> HIDE DEF check
<1>6. CASE act.skip = "good"
  <2> check = [skip |-> TRUE, activity |-> act]
    BY <1>5, <1>6
  <2> check.skip = TRUE /\ check.activity = act
    OBVIOUS
  <2> QED
    BY <1>4 DEF check
<1>7. CASE act.skip # "good" /\ ~act.blocked
  <2> check = [skip |-> FALSE, activity |-> act]
    BY <1>5, <1>7
  <2> check.skip = FALSE /\ check.activity = act
    OBVIOUS
  <2> QED
    BY <1>4, <1>7 DEF check
<1>8. CASE act.skip # "good" /\ act.blocked /\ now > act.until
  <2> check = [skip |-> FALSE, activity |-> open]
    BY <1>5, <1>8
  <2> check.skip = FALSE /\ check.activity = open
    OBVIOUS
  <2> QED
    BY <1>2, <1>8 DEF check
<1>9. CASE act.skip # "good" /\ act.blocked /\ ~(now > act.until)
  <2> check = [skip |-> TRUE, activity |-> seen]
    BY <1>5, <1>9
  <2> check.skip = TRUE /\ check.activity = seen
    OBVIOUS
  <2> QED
    BY <1>3, <1>9 DEF check
<1> QED
  BY <1>4, <1>6, <1>7, <1>8, <1>9

\* How the place q of an actor in chain c follows from its place p.
Advanced(c, e, p, q) ==
  \/ q.step = 0
  \/ q = p
  \/ /\ q.step = 1 /\ q.at = e.ts
     /\ MatchStepFields(Chains[c].steps[1], e)
  \/ /\ p.step > 0 /\ q.step = p.step + 1 /\ q.at = e.ts
     /\ MatchStepFields(Chains[c].steps[q.step], e)
     /\ ~TimeRuleFails(Chains[c].steps[q.step], e.ts - p.at)

\* A step of a chain: nowhere, where the actor was, or on by this entry.
LEMMA StepAfterFacts ==
  ASSUME NEW c \in ChainIds, NEW e \in Entries, NEW act \in Activities,
         act.progress[c].step < Len(Chains[c].steps)
  PROVE  LET q == StepAfter(c, e, act) IN
         /\ q \in StepStates /\ q.step <= Len(Chains[c].steps)
         /\ Advanced(c, e, act.progress[c], q)
         /\ q.step = Len(Chains[c].steps) => q # act.progress[c]
<1> DEFINE p == act.progress[c]
           steps == Chains[c].steps
           q == StepAfter(c, e, act)
           n == Len(steps)
<1>1. p \in StepStates /\ p.step \in Nat /\ p.at \in 0 .. MaxTs
  BY DEF Activities, StepStates
<1>2. n \in Nat \ {0} /\ p.step < n
  BY ChainFacts
<1>3. e.ts \in 0 .. MaxTs
  BY EntryFacts, CheckerAssumption
<1> DEFINE from == IF p.step > 0 /\ TimeRuleFails(steps[p.step + 1], e.ts - p.at) THEN 0 ELSE p.step
           match == /\ from = 0 => FirstStepPasses(steps[1], act.last, e)
                    /\ MatchStepFields(steps[from + 1], e)
<1>4. q = [step |-> IF match THEN from + 1 ELSE from,
           at |-> IF match THEN e.ts ELSE IF from = 0 THEN 0 ELSE p.at]
  BY DEF StepAfter
<1>5. \/ from = 0
      \/ from = p.step /\ p.step > 0 /\ ~TimeRuleFails(steps[p.step + 1], e.ts - p.at)
  BY <1>1
<1>6. match => MatchStepFields(steps[from + 1], e)
  OBVIOUS
<1>7. p = [step |-> p.step, at |-> p.at]
  BY <1>1 DEF StepStates
<1> HIDE DEF p, q, n, match, steps, from
<1>8. 0 \in 0 .. MaxTs
  BY CheckerAssumption
<1>9. CASE match /\ from = 0
  <2>1. q = [step |-> 1, at |-> e.ts]
    BY <1>4, <1>9
  <2>2. Advanced(c, e, p, q)
    BY <1>6, <1>9, <2>1 DEF Advanced, steps
  <2>3. q \in StepStates /\ q.step = 1 /\ q.step <= n
    BY <1>2, <1>3, <2>1 DEF StepStates
  <2>4. q.step = n => q # p
    BY <1>2, <2>3
  <2> QED
    BY <2>2, <2>3, <2>4 DEF p, q, n, steps
<1>10. CASE match /\ from # 0
  <2>1. q = [step |-> p.step + 1, at |-> e.ts]
    BY <1>4, <1>5, <1>10
  <2>2. MatchStepFields(steps[p.step + 1], e) /\ p.step > 0 /\ ~TimeRuleFails(steps[p.step + 1], e.ts - p.at)
    BY <1>5, <1>6, <1>10
  <2>3. Advanced(c, e, p, q)
    BY <2>1, <2>2 DEF Advanced, steps
  <2>4. q \in StepStates /\ q.step <= n /\ q # p
    BY <1>1, <1>2, <1>3, <2>1 DEF StepStates
  <2> QED
    BY <2>3, <2>4 DEF p, q, n, steps
<1>11. CASE ~match /\ from = 0
  <2>1. q = [step |-> 0, at |-> 0]
    BY <1>4, <1>11
  <2> QED
    BY <1>2, <1>8, <2>1 DEF Advanced, StepStates, steps, p, q, n
<1>12. CASE ~match /\ from # 0
  <2>1. q = p
    BY <1>4, <1>5, <1>7, <1>12
  <2> QED
    BY <1>1, <1>2, <2>1 DEF Advanced, steps, p, q, n
<1> QED
  BY <1>9, <1>10, <1>11, <1>12 DEF p, q, n, steps

(***************************************************************************)
(* Checker: what led to a place in a chain                                 *)
(***************************************************************************)

\* A longer log and a later bound leave it so.
LEMMA WitnessKept ==
  ASSUME NEW log, NEW log2, NEW c, NEW a, NEW k \in Nat, NEW m \in Nat, NEW f \in [1 .. k -> 1 .. m],
         \A i \in 1 .. m : log2[i] = log[i], Witness(log, c, a, k, f)
  PROVE  Witness(log2, c, a, k, f)
<1>1. \A i \in 1 .. k : f[i] \in 1 .. m /\ log2[f[i]] = log[f[i]]
  OBVIOUS
<1>2. \A i \in 1 .. k - 1 : i \in 1 .. k /\ i + 1 \in 1 .. k
  OBVIOUS
<1> QED
  BY <1>1, <1>2 DEF Witness

LEMMA LedKept ==
  ASSUME NEW log, NEW log2, NEW c, NEW a, NEW p, p.step \in Nat \ {0},
         NEW m \in Nat, NEW m2 \in Nat, m <= m2,
         \A i \in 1 .. m : log2[i] = log[i], Led(log, c, a, p, m)
  PROVE  Led(log2, c, a, p, m2)
<1> DEFINE k == p.step
<1>1. PICK f \in [1 .. k -> 1 .. m] : Witness(log, c, a, k, f) /\ log[f[k]].ts = p.at
  BY DEF Led
<1>2. k \in Nat /\ k \in 1 .. k
  OBVIOUS
<1> HIDE DEF k
<1>3. Witness(log2, c, a, k, f)
  BY <1>1, <1>2, WitnessKept
<1>4. log2[f[k]] = log[f[k]]
  BY <1>1, <1>2
<1>5. f \in [1 .. k -> 1 .. m2]
  BY <1>1
<1> QED
  BY <1>1, <1>3, <1>4, <1>5 DEF Led, k

\* One more entry, at the end of log, moves an actor to a place that log has led it to.
LEMMA LedOn ==
  ASSUME NEW log, NEW n \in Nat \ {0}, NEW e \in Entries, log[n] = e,
         NEW c \in ChainIds, NEW a, GetActor(c, e) = a,
         NEW p \in StepStates, NEW q \in StepStates, q.step > 0, q # p, Advanced(c, e, p, q),
         p.step > 0 => Led(log, c, a, p, n),
         ListedOnce(c) /\ p.step > 0 => Led(log, c, a, p, n - 1)
  PROVE  \E f \in [1 .. q.step -> 1 .. n] : f[q.step] = n /\ Witness(log, c, a, q.step, f) /\ q.at = e.ts
<1>0. p.step \in Nat /\ q.step \in Nat
  BY DEF StepStates
<1>1. CASE q.step = 1 /\ q.at = e.ts /\ MatchStepFields(Chains[c].steps[1], e)
  <2> DEFINE f == [i \in 1 .. 1 |-> n]
  <2>1. f \in [1 .. 1 -> 1 .. n] /\ f[1] = n
    OBVIOUS
  <2> HIDE DEF f
  <2>2. Witness(log, c, a, 1, f)
    BY <1>1, <2>1 DEF Witness
  <2> QED
    BY <1>1, <2>1, <2>2
<1>2. CASE /\ p.step > 0 /\ q.step = p.step + 1 /\ q.at = e.ts
           /\ MatchStepFields(Chains[c].steps[q.step], e)
           /\ ~TimeRuleFails(Chains[c].steps[q.step], e.ts - p.at)
  <2> DEFINE k == p.step
  <2>0. k \in Nat \ {0} /\ q.step = k + 1
    BY <1>0, <1>2
  <2> DEFINE m == IF ListedOnce(c) THEN n - 1 ELSE n
  <2>1. m \in Nat /\ m <= n /\ (ListedOnce(c) => m < n)
    OBVIOUS
  <2>2. PICK g \in [1 .. k -> 1 .. m] : Witness(log, c, a, k, g) /\ log[g[k]].ts = p.at
    BY <1>2 DEF Led
  <2> HIDE DEF k, m
  <2> DEFINE f == [i \in 1 .. k + 1 |-> IF i = k + 1 THEN n ELSE g[i]]
  <2>3. /\ f \in [1 .. k + 1 -> 1 .. n] /\ f[k + 1] = n
        /\ \A i \in 1 .. k : f[i] = g[i] /\ g[i] \in 1 .. m /\ i \in 1 .. k + 1
    BY <2>0, <2>1, <2>2
  <2> HIDE DEF f
  <2>4. ASSUME NEW i \in 1 .. k + 1
        PROVE  GetActor(c, log[f[i]]) = a /\ MatchStepFields(Chains[c].steps[i], log[f[i]])
    <3>1. CASE i = k + 1
      BY <1>2, <2>0, <2>3, <3>1
    <3>2. CASE i # k + 1
      <4> i \in 1 .. k
        BY <2>0, <3>2
      <4> QED
        BY <2>2, <2>3 DEF Witness
    <3> QED
      BY <3>1, <3>2
  <2>5. ASSUME NEW i \in 1 .. k
        PROVE  /\ f[i] <= f[i + 1]
               /\ ListedOnce(c) => f[i] # f[i + 1]
               /\ ~TimeRuleFails(Chains[c].steps[i + 1], log[f[i + 1]].ts - log[f[i]].ts)
    <3>1. CASE i = k
      <4>1. f[i] = g[k] /\ f[i + 1] = n /\ g[k] \in 1 .. m
        BY <2>0, <2>3, <3>1
      <4>2. log[f[i + 1]].ts = e.ts /\ log[f[i]].ts = p.at
        BY <2>2, <4>1
      <4>3. f[i] <= f[i + 1] /\ (ListedOnce(c) => f[i] # f[i + 1])
        BY <2>1, <4>1
      <4> QED
        BY <1>2, <2>0, <3>1, <4>2, <4>3
    <3>2. CASE i # k
      <4> i \in 1 .. k - 1 /\ i + 1 \in 1 .. k
        BY <2>0, <3>2
      <4>1. f[i] = g[i] /\ f[i + 1] = g[i + 1]
        BY <2>3
      <4> QED
        BY <2>2, <4>1 DEF Witness
    <3> QED
      BY <3>1, <3>2
  <2>6. Witness(log, c, a, k + 1, f)
    <3> (k + 1) - 1 = k
      BY <2>0
    <3> QED
      BY <2>4, <2>5 DEF Witness
  <2> QED
    BY <1>2, <2>0, <2>3, <2>6
<1> QED
  BY <1>0, <1>1, <1>2 DEF Advanced

(***************************************************************************)
(* Checker: what an entry leaves of the work                               *)
(***************************************************************************)

SameMark(x, y) == x.blocked = y.blocked /\ x.until = y.until

NewCompletion(w, c, e) == [chain |-> c, actor |-> GetActor(c, e), n |-> w.n]
NewBlock(w, c, e) ==
  [actor |-> GetActor(c, e), n |-> w.n, from |-> now, until |-> now + Chains[c].dur]

\* The actor of entry e has gone from act to place q of chain c.
Left(w, w2, c, e, act, q) ==
  /\ w2 \in Works /\ w2.n = w.n
  /\ w2.store[GetActor(c, e)].progress = [act.progress EXCEPT ![c] = q]
  /\ \A b \in Actors \ {GetActor(c, e)} : w2.store[b].progress = w.store[b].progress

\* It has not been blocked ...
NotMarked(w, w2, c, e, act) ==
  /\ w2.blocks = w.blocks
  /\ SameMark(w2.store[GetActor(c, e)], act)
  /\ \A b \in Actors \ {GetActor(c, e)} : SameMark(w2.store[b], w.store[b])

\* ... or it and the bare IP have.
Marked(w, w2, c, e) ==
  /\ w2.blocks = w.blocks \cup {NewBlock(w, c, e)}
  /\ \A b \in {GetActor(c, e), IPActor(e)} :
       w2.store[b].blocked = TRUE /\ w2.store[b].until = now + Chains[c].dur
  /\ \A b \in Actors \ {GetActor(c, e), IPActor(e)} : SameMark(w2.store[b], w.store[b])

LEMMA BlockingFacts ==
  ASSUME NEW act \in Activities, NEW u \in Nat
  PROVE  /\ Blocking(act, u) \in Activities
         /\ Blocking(act, u).blocked = TRUE /\ Blocking(act, u).until = u
         /\ Blocking(act, u).progress = act.progress
BY DEF Blocking, Activities

\* ProcessChainForEntry moves one actor in one chain; a completed chain is noted, and
\* may block.
LEMMA ProcessFacts ==
  ASSUME NEW w \in Works, NEW c \in ChainIds, NEW e \in Entries, NEW act \in Activities,
         act.progress[c].step < Len(Chains[c].steps), now \in Nat
  PROVE  LET w2 == ProcessChainForEntry(w, c, e, act)
             q == StepAfter(c, e, act) IN
         \/ /\ q.step < Len(Chains[c].steps)
            /\ Left(w, w2, c, e, act, q)
            /\ NotMarked(w, w2, c, e, act) /\ w2.completed = w.completed
         \/ /\ q.step = Len(Chains[c].steps)
            /\ Left(w, w2, c, e, act, [step |-> 0, at |-> 0])
            /\ NotMarked(w, w2, c, e, act) \/ Marked(w, w2, c, e)
            /\ w2.completed = w.completed \cup {NewCompletion(w, c, e)}
<1> DEFINE a == GetActor(c, e)
           q == StepAfter(c, e, act)
           done == q.step = Len(Chains[c].steps)
           r == IF done THEN [step |-> 0, at |-> 0] ELSE q
           left == [act EXCEPT !.progress[c] = r]
           s == [w.store EXCEPT ![a] = left]
           stop == done /\ Chains[c].stop /\ Chains[c].action # "log"
           fin == IF done THEN w.completed \cup {[chain |-> c, actor |-> a, n |-> w.n]} ELSE w.completed
           until == now + Chains[c].dur
           moved == [w EXCEPT !.store = s, !.touched = @ \cup {a}, !.stop = stop, !.completed = fin]
           blocking == done /\ Chains[c].action = "block"
           score == w.scores[e.ip] + 1
           s2 == [b \in Actors |-> IF b \in {a, IPActor(e)} THEN Blocking(s[b], until) ELSE s[b]]
           bs == w.blocks \cup {[actor |-> a, n |-> w.n, from |-> now, until |-> until]}
           sc == [w.scores EXCEPT ![e.ip] = score]
           bd == IF score >= Threshold THEN w.bad \cup {e.ip} ELSE w.bad
           marked == [moved EXCEPT !.store = s2, !.scores[e.ip] = score, !.bad = bd, !.blocks = bs]
           w2 == ProcessChainForEntry(w, c, e, act)
           i == IPActor(e)
<1>1. w2 = IF ~blocking THEN moved ELSE marked
  BY DEF ProcessChainForEntry
<1>2. /\ w.store \in [Actors -> Activities] /\ w.bad \in SUBSET IPs /\ w.scores \in [IPs -> Nat]
      /\ w.completed \in SUBSET Completions /\ w.blocks \in SUBSET Blocks /\ w.n \in Nat
      /\ w.touched \in SUBSET Actors /\ w.stop \in BOOLEAN
  BY DEF Works
<1>3. /\ a \in Actors /\ i \in Actors /\ e.ip \in IPs
      /\ Chains[c].dur \in Nat /\ Chains[c].stop \in BOOLEAN
  BY EntryFacts, ChainFacts
<1>4. q \in StepStates /\ q.step <= Len(Chains[c].steps) /\ Len(Chains[c].steps) \in Nat
  BY StepAfterFacts, ChainFacts
<1>5. until \in Nat /\ fin \in SUBSET Completions /\ bs \in SUBSET Blocks /\ stop \in BOOLEAN
  <2>1. until \in Nat
    BY <1>3
  <2>2. [chain |-> c, actor |-> a, n |-> w.n] \in Completions
    BY <1>2, <1>3 DEF Completions
  <2>3. [actor |-> a, n |-> w.n, from |-> now, until |-> until] \in Blocks
    BY <1>2, <1>3, <2>1 DEF Blocks
  <2> QED
    BY <1>2, <1>3, <2>1, <2>2, <2>3
<1>6. r \in StepStates
  <2> [step |-> 0, at |-> 0] \in StepStates
    BY CheckerAssumption DEF StepStates
  <2> QED
    BY <1>4
<1>7. fin = IF done THEN w.completed \cup {NewCompletion(w, c, e)} ELSE w.completed
  BY DEF NewCompletion
<1>8. bs = w.blocks \cup {NewBlock(w, c, e)}
  BY DEF NewBlock
<1> HIDE DEF r, fin, until, stop, a, i, s, s2, left, bs, score, sc, bd
<1>9. left \in Activities /\ left.progress = [act.progress EXCEPT ![c] = r] /\ SameMark(left, act)
  BY <1>6 DEF left, Activities, SameMark
<1>10. /\ s \in [Actors -> Activities] /\ s[a] = left
       /\ \A b \in Actors \ {a} : s[b] = w.store[b]
  BY <1>2, <1>3, <1>9 DEF s
<1>11. /\ s2 \in [Actors -> Activities]
       /\ \A b \in Actors \ {a, i} : s2[b] = s[b]
       /\ \A b \in Actors : s2[b].progress = s[b].progress
       /\ \A b \in {a, i} : s2[b].blocked = TRUE /\ s2[b].until = until
  <2> DEFINE B(x) == Blocking(x, until)
  <2>1. \A x \in Activities : B(x) \in Activities /\ B(x).blocked = TRUE /\ B(x).until = until
                                /\ B(x).progress = x.progress
    BY <1>5, BlockingFacts
  <2>2. s2 = [b \in Actors |-> IF b \in {a, i} THEN B(s[b]) ELSE s[b]]
    BY DEF s2, i
  <2> HIDE DEF B
  <2> QED
    BY <1>3, <1>10, <2>1, <2>2
<1>12. sc \in [IPs -> Nat] /\ bd \in SUBSET IPs
  BY <1>2, <1>3 DEF sc, bd, score
<1>13. /\ moved \in Works /\ moved.n = w.n /\ moved.store = s /\ moved.completed = fin
       /\ moved.blocks = w.blocks /\ moved.scores = w.scores /\ moved.bad = w.bad
  BY <1>2, <1>3, <1>5, <1>10 DEF Works
<1> HIDE DEF moved
<1>14. marked = [moved EXCEPT !.store = s2, !.scores = sc, !.bad = bd, !.blocks = bs]
  BY <1>13 DEF Works, sc
<1> HIDE DEF marked
<1>15. /\ marked \in Works /\ marked.n = w.n /\ marked.store = s2 /\ marked.completed = fin
       /\ marked.blocks = bs
  BY <1>5, <1>11, <1>12, <1>13, <1>14 DEF Works
<1> HIDE DEF w2
<1>16. CASE ~blocking
  <2>0. w2 = moved
    BY <1>1, <1>16
  <2>1. Left(w, w2, c, e, act, r)
    BY <1>9, <1>10, <1>13, <2>0 DEF Left, a
  <2>2. NotMarked(w, w2, c, e, act)
    BY <1>9, <1>10, <1>13, <2>0 DEF NotMarked, SameMark, a
  <2>3. w2.completed = fin
    BY <1>13, <2>0
  <2>4. CASE done
    BY <1>7, <2>1, <2>2, <2>3, <2>4 DEF r, w2
  <2>5. CASE ~done
    <3> q.step < Len(Chains[c].steps)
      BY <1>4, <2>5 DEF StepStates
    <3> QED
      BY <1>7, <2>1, <2>2, <2>3, <2>5 DEF r, w2
  <2> QED
    BY <2>4, <2>5
<1>17. CASE blocking
  <2>0. w2 = marked
    BY <1>1, <1>17
  <2>1. Left(w, w2, c, e, act, r)
    BY <1>3, <1>9, <1>10, <1>11, <1>15, <2>0 DEF Left, a
  <2>2. Marked(w, w2, c, e)
    BY <1>8, <1>10, <1>11, <1>15, <2>0 DEF Marked, SameMark, a, i, until
  <2>3. w2.completed = fin
    BY <1>15, <2>0
  <2> QED
    BY <1>4, <1>7, <1>17, <2>1, <2>2, <2>3 DEF r, w2
<1> QED
  BY <1>16, <1>17

(***************************************************************************)
(* Checker: blocks in force                                                *)
(***************************************************************************)

\* Nothing keeps the actor from being blocked.
Loose(act, t) == ~act.blocked \/ t > act.until

\* What becomes of the marks of loose actors is no matter.
LEMMA HeldKept ==
  ASSUME NEW s \in [Actors -> Activities], NEW s2 \in [Actors -> Activities],
         NEW bs \in SUBSET Blocks, NEW bs2, bs \subseteq bs2, NEW t \in Nat, NEW x \in bs,
         SameMark(s2[x.actor], s[x.actor]) \/ Loose(s[x.actor], t),
         x.until >= t, Held(s, bs, t, x)
  PROVE  Held(s2, bs2, t, x)
<1> DEFINE a == x.actor
<1>1. a \in Actors /\ x.until \in Int /\ s[a] \in Activities /\ s[a].until \in Nat
  BY DEF Blocks, Activities
<1>2. CASE SameMark(s2[a], s[a])
  BY <1>2 DEF Held, Overtaken, SameMark
<1>3. CASE Loose(s[a], t)
  <2>1. ~(s[a].blocked /\ s[a].until >= x.until)
    BY <1>1, <1>3 DEF Loose
  <2>2. PICK z \in bs : /\ Overtaken(bs, x, z)
                        /\ z.until < t \/ (s[a].blocked /\ s[a].until >= z.until)
    BY <2>1 DEF Held
  <2>3. z.until \in Int
    BY DEF Blocks
  <2>4. z.until < t
    BY <1>1, <1>3, <2>2, <2>3 DEF Loose
  <2>5. Overtaken(bs2, x, z)
    BY <2>2 DEF Overtaken
  <2> QED
    BY <2>4, <2>5 DEF Held
<1> QED
  BY <1>2, <1>3

LEMMA BlocksKept ==
  ASSUME NEW s \in [Actors -> Activities], NEW s2 \in [Actors -> Activities],
         NEW bs \in SUBSET Blocks, NEW t \in Nat, NEW n,
         \A a \in Actors : SameMark(s2[a], s[a]) \/ Loose(s[a], t),
         BlocksOK(s, bs, t, n)
  PROVE  BlocksOK(s2, bs, t, n)
<1> SUFFICES ASSUME NEW x \in bs, x.until >= t PROVE Held(s2, bs, t, x)
  BY DEF BlocksOK
<1>1. x.actor \in Actors
  BY DEF Blocks
<1>2. Held(s, bs, t, x)
  BY DEF BlocksOK
<1> QED
  BY <1>1, <1>2, HeldKept

\* A block of a loose actor, which marks the bare IP too.
LEMMA BlockAdded ==
  ASSUME NEW s \in [Actors -> Activities], NEW s2 \in [Actors -> Activities],
         NEW bs \in SUBSET Blocks, NEW y \in Blocks, NEW i \in Actors,
         BareIP(i), i.ip = y.actor.ip, y.from \in Nat, y.until >= y.from,
         Loose(s[y.actor], y.from),
         \A b \in {y.actor, i} : s2[b].blocked = TRUE /\ s2[b].until = y.until,
         \A b \in Actors \ {y.actor, i} : SameMark(s2[b], s[b]),
         BlocksOK(s, bs, y.from, y.n), TwiceOK(bs)
  PROVE  BlocksOK(s2, bs \cup {y}, y.from, y.n) /\ TwiceOK(bs \cup {y})
<1> DEFINE t == y.from
           bs2 == bs \cup {y}
<1>0. y.actor \in Actors /\ y.n \in Nat /\ y.until \in Int
  BY DEF Blocks
<1>1. ASSUME NEW x \in bs
      PROVE  x \in Blocks /\ x.actor \in Actors /\ x.n \in Nat /\ x.until \in Int /\ x.n <= y.n /\ x.from <= t
             /\ (x.until >= t => Held(s, bs, t, x))
  BY DEF Blocks, BlocksOK
<1>2. ASSUME NEW x \in bs, x.until >= t PROVE Held(s2, bs2, t, x)
  <2>1. CASE x.actor = i /\ x.actor # y.actor
    <3>1. Overtaken(bs2, x, y)
      BY <1>1, <2>1 DEF Overtaken
    <3>2. s2[x.actor].blocked /\ s2[x.actor].until >= y.until
      BY <1>0, <2>1
    <3> QED
      BY <3>1, <3>2 DEF Held
  <2>2. CASE x.actor = y.actor
    BY <1>1, <1>2, <2>2, HeldKept
  <2>3. CASE x.actor \notin {i, y.actor}
    BY <1>1, <1>2, <2>3, HeldKept
  <2> QED
    BY <2>1, <2>2, <2>3
<1>3. Held(s2, bs2, t, y)
  <2>1. s2[y.actor].blocked
    OBVIOUS
  <2>2. s2[y.actor].until >= y.until
    BY <1>0
  <2> QED
    BY <2>1, <2>2 DEF Held
<1>4. BlocksOK(s2, bs2, t, y.n)
  <2>1. ASSUME NEW x \in bs2
        PROVE  x.n <= y.n /\ x.from <= t /\ (x.until >= t => Held(s2, bs2, t, x))
    <3>1. CASE x \in bs
      BY <1>1, <1>2, <3>1
    <3>2. CASE x = y
      BY <1>0, <1>3, <3>2
    <3> QED
      BY <3>1, <3>2
  <2> QED
    BY <2>1 DEF BlocksOK
<1>5. TwiceOK(bs2)
  <2> SUFFICES ASSUME NEW x \in bs2, NEW v \in bs2, x.actor = v.actor, x.n < v.n, v.from <= x.until
               PROVE  \E z \in bs2 : Overtaken(bs2, x, z) /\ z.n <= v.n /\ z.until < v.from
    BY DEF TwiceOK
  <2>1. CASE x \in bs /\ v \in bs
    <3>1. PICK z \in bs : Overtaken(bs, x, z) /\ z.n <= v.n /\ z.until < v.from
      BY <2>1 DEF TwiceOK
    <3> QED
      BY <3>1 DEF Overtaken
  <2>2. CASE x \in bs /\ v = y
    <3>1. Held(s, bs, t, x)
      BY <1>1, <2>2
    <3>2. s[y.actor].until \in Nat
      BY <1>0 DEF Activities
    <3>3. ~(s[x.actor].blocked /\ s[x.actor].until >= x.until)
      BY <1>1, <2>2, <3>2 DEF Loose
    <3>4. PICK z \in bs : /\ Overtaken(bs, x, z)
                          /\ z.until < t \/ (s[x.actor].blocked /\ s[x.actor].until >= z.until)
      BY <3>1, <3>3 DEF Held
    <3>5. z.until < t /\ z.n <= y.n
      BY <1>1, <2>2, <3>2, <3>4 DEF Loose
    <3> QED
      BY <2>2, <3>4, <3>5 DEF Overtaken
  <2>3. CASE x = y
    BY <1>0, <1>1, <2>3
  <2> QED
    BY <2>1, <2>2, <2>3
<1> QED
  BY <1>4, <1>5

(***************************************************************************)
(* Checker: one turn of the loop over the chains                           *)
(***************************************************************************)

TurnInv(w, log, tried) == EntryInv(w, log) /\ UntriedOK(w.store, log, tried)

\* The place of one actor in one chain changes, by an entry that was not tried on it.
LEMMA ProgressTurn ==
  ASSUME NEW w \in Works, NEW w2 \in Works, NEW log \in Seq(Entries), NEW e \in Entries,
         Len(log) \in Nat \ {0}, log[Len(log)] = e,
         NEW c \in ChainIds, NEW act \in Activities, NEW q \in StepStates, NEW tried,
         act.progress = w.store[GetActor(c, e)].progress,
         q.step < Len(Chains[c].steps), q.step > 0 => Led(log, c, GetActor(c, e), q, Len(log)),
         Left(w, w2, c, e, act, q),
         StepsOK(w.store), ProgressOK(w.store, log), UntriedOK(w.store, log, tried)
  PROVE  /\ StepsOK(w2.store) /\ ProgressOK(w2.store, log)
         /\ UntriedOK(w2.store, log, tried \cup {c})
<1> DEFINE a == GetActor(c, e)
           s == w.store
           s2 == w2.store
<1>1. a \in Actors /\ s \in [Actors -> Activities] /\ s2 \in [Actors -> Activities]
  BY EntryFacts DEF Works
<1>2. \A b \in Actors : s[b].progress \in [ChainIds -> StepStates]
  BY <1>1 DEF Activities
<1> HIDE DEF a, s, s2
<1>3. /\ s2[a].progress = [s[a].progress EXCEPT ![c] = q]
      /\ \A b \in Actors \ {a} : s2[b].progress = s[b].progress
  BY DEF Left, a, s, s2
<1>4. /\ s2[a].progress[c] = q
      /\ \A b \in Actors, d \in ChainIds : b # a \/ d # c => s2[b].progress[d] = s[b].progress[d]
  BY <1>1, <1>2, <1>3
<1>5. StepsOK(s2)
  BY <1>4 DEF StepsOK, s
<1>6. ProgressOK(s2, log)
  BY <1>4 DEF ProgressOK, s, a
<1>7. UntriedOK(s2, log, tried \cup {c})
  BY <1>4 DEF UntriedOK, s
<1> QED
  BY <1>5, <1>6, <1>7 DEF s2

LEMMA ProcessKeeps ==
  ASSUME NEW w, NEW log \in Seq(Entries), NEW e \in Entries,
         Len(log) \in Nat \ {0}, log[Len(log)] = e,
         NEW c \in ChainIds, NEW act \in Activities, NEW tried, ListedOnce(c) => c \notin tried,
         act.progress = w.store[GetActor(c, e)].progress,
         SameMark(act, w.store[GetActor(c, e)]) \/ ~act.blocked,
         Loose(w.store[GetActor(c, e)], now),
         now \in Nat, TurnInv(w, log, tried)
  PROVE  TurnInv(ProcessChainForEntry(w, c, e, act), log, tried \cup {c})
<1> DEFINE a == GetActor(c, e)
           w2 == ProcessChainForEntry(w, c, e, act)
           p == act.progress[c]
           q == StepAfter(c, e, act)
           n == Len(log)
           m == Len(Chains[c].steps)
<1>1. /\ w \in Works /\ w.store \in [Actors -> Activities] /\ w.completed \in SUBSET Completions
      /\ w.blocks \in SUBSET Blocks /\ w.n = n
      /\ StepsOK(w.store) /\ ProgressOK(w.store, log) /\ UntriedOK(w.store, log, tried)
      /\ CompletedOK(w.completed, log) /\ BlocksOK(w.store, w.blocks, now, w.n) /\ TwiceOK(w.blocks)
  BY DEF TurnInv, EntryInv, Works
<1>2. a \in Actors /\ p \in StepStates /\ p.step \in Nat /\ m \in Nat \ {0} /\ p.step < m
  BY <1>1, EntryFacts, ChainFacts DEF Activities, StepStates, StepsOK
<1>3. q \in StepStates /\ Advanced(c, e, p, q) /\ (q.step = m => q # p) /\ q.step \in Nat
  BY <1>2, StepAfterFacts DEF StepStates
<1>4. p.step > 0 => Led(log, c, a, p, n) /\ (ListedOnce(c) => Led(log, c, a, p, n - 1))
  BY <1>1, <1>2 DEF ProgressOK, UntriedOK
<1> HIDE DEF w2, q, m, a, p
<1>5. q.step > 0 /\ q # p =>
        \E f \in [1 .. q.step -> 1 .. n] : f[q.step] = n /\ Witness(log, c, a, q.step, f) /\ q.at = e.ts
  BY <1>2, <1>3, <1>4, LedOn DEF a
<1>6. q.step > 0 => Led(log, c, a, q, n)
  <2>1. CASE q # p
    BY <1>5, <2>1 DEF Led
  <2>2. CASE q = p
    BY <1>4, <2>2
  <2> QED
    BY <2>1, <2>2
<1>7. \/ /\ q.step < m
         /\ Left(w, w2, c, e, act, q)
         /\ NotMarked(w, w2, c, e, act) /\ w2.completed = w.completed
      \/ /\ q.step = m
         /\ Left(w, w2, c, e, act, [step |-> 0, at |-> 0])
         /\ NotMarked(w, w2, c, e, act) \/ Marked(w, w2, c, e)
         /\ w2.completed = w.completed \cup {NewCompletion(w, c, e)}
  BY <1>1, <1>2, ProcessFacts DEF w2, q, m, p
<1>8. w2 \in Works /\ w2.n = w.n /\ w2.store \in [Actors -> Activities]
  BY <1>7 DEF Left, Works
<1>9. StepsOK(w2.store) /\ ProgressOK(w2.store, log) /\ UntriedOK(w2.store, log, tried \cup {c})
  <2>1. CASE q.step < m /\ Left(w, w2, c, e, act, q)
    BY <1>1, <1>3, <1>6, <1>8, <2>1, ProgressTurn DEF m, a
  <2>2. CASE Left(w, w2, c, e, act, [step |-> 0, at |-> 0])
    <3> DEFINE z == [step |-> 0, at |-> 0]
    <3>1. z \in StepStates /\ z.step = 0
      BY CheckerAssumption DEF StepStates
    <3> HIDE DEF z
    <3>2. Left(w, w2, c, e, act, z)
      BY <2>2 DEF z
    <3>3. z.step < Len(Chains[c].steps) /\ ~(z.step > 0)
      BY <1>2, <3>1 DEF m
    <3> QED
      BY <1>1, <1>8, <3>1, <3>2, <3>3, ProgressTurn
  <2> QED
    BY <1>7, <2>1, <2>2
<1>10. CompletedOK(w2.completed, log)
  <2>1. ASSUME q.step = m PROVE NewCompletion(w, c, e).n <= n /\ Justified(log, NewCompletion(w, c, e))
    <3>1. PICK f \in [1 .. m -> 1 .. n] : f[m] = n /\ Witness(log, c, a, m, f)
      BY <1>2, <1>3, <1>5, <2>1
    <3> DEFINE x == NewCompletion(w, c, e)
    <3>2. x.chain = c /\ x.actor = a /\ x.n = n
      BY <1>1 DEF NewCompletion, a
    <3> HIDE DEF x
    <3> QED
      BY <3>1, <3>2 DEF Justified, m, x
  <2> QED
    BY <1>1, <1>7, <2>1 DEF CompletedOK
<1>11. BlocksOK(w2.store, w2.blocks, now, w2.n) /\ TwiceOK(w2.blocks)
  <2>1. CASE NotMarked(w, w2, c, e, act)
    <3>1. \A b \in Actors : SameMark(w2.store[b], w.store[b]) \/ Loose(w.store[b], now)
      BY <1>2, <2>1 DEF NotMarked, a
    <3>2. w2.blocks = w.blocks
      BY <2>1 DEF NotMarked
    <3> QED
      BY <1>1, <1>8, <3>1, <3>2, BlocksKept
  <2>2. CASE Marked(w, w2, c, e)
    <3> DEFINE y == NewBlock(w, c, e)
               i == IPActor(e)
    <3>1. y = [actor |-> a, n |-> n, from |-> now, until |-> now + Chains[c].dur] /\ Chains[c].dur \in Nat
      BY <1>1, ChainFacts DEF NewBlock, a
    <3>2. /\ y \in Blocks /\ y.actor = a /\ y.n = n /\ y.from = now /\ y.until = now + Chains[c].dur
          /\ y.until >= y.from
      <4> HIDE DEF y
      <4> QED
        BY <1>2, <3>1 DEF Blocks
    <3>3. i \in Actors /\ BareIP(i) /\ i.ip = a.ip
      BY EntryFacts DEF a
    <3>4. w2.blocks = w.blocks \cup {y}
      BY <2>2 DEF Marked
    <3> HIDE DEF y, i
    <3>5. /\ \A b \in {y.actor, i} : w2.store[b].blocked = TRUE /\ w2.store[b].until = y.until
          /\ \A b \in Actors \ {y.actor, i} : SameMark(w2.store[b], w.store[b])
      BY <2>2, <3>2 DEF Marked, a, i
    <3>6. /\ BlocksOK(w.store, w.blocks, y.from, y.n) /\ Loose(w.store[y.actor], y.from)
          /\ i.ip = y.actor.ip /\ y.from \in Nat
      BY <1>1, <3>2, <3>3 DEF a
    <3>7. BlocksOK(w2.store, w.blocks \cup {y}, y.from, y.n) /\ TwiceOK(w.blocks \cup {y})
      BY <1>1, <1>8, <3>2, <3>3, <3>5, <3>6, BlockAdded
    <3> QED
      BY <1>1, <1>8, <3>2, <3>4, <3>7
  <2> QED
    BY <1>7, <2>1, <2>2
<1> QED
  BY <1>1, <1>8, <1>9, <1>10, <1>11 DEF TurnInv, EntryInv, w2

\* The store changes in nothing that the invariant speaks of.
LEMMA SameStore ==
  ASSUME NEW w, NEW w2 \in Works, NEW log, NEW tried,
         TurnInv(w, log, tried), now \in Nat,
         w2.n = w.n, w2.completed = w.completed, w2.blocks = w.blocks,
         \A b \in Actors : w2.store[b].progress = w.store[b].progress /\ SameMark(w2.store[b], w.store[b])
  PROVE  TurnInv(w2, log, tried)
<1>1. /\ w.store \in [Actors -> Activities] /\ w2.store \in [Actors -> Activities]
      /\ w.blocks \in SUBSET Blocks
  BY DEF TurnInv, EntryInv, Works
<1>2. BlocksOK(w2.store, w2.blocks, now, w2.n)
  BY <1>1, BlocksKept DEF TurnInv, EntryInv
<1>3. StepsOK(w2.store) /\ ProgressOK(w2.store, log) /\ UntriedOK(w2.store, log, tried)
  BY DEF TurnInv, EntryInv, StepsOK, ProgressOK, UntriedOK
<1> QED
  BY <1>2, <1>3 DEF TurnInv, EntryInv

LEMMA TryChainKeeps ==
  ASSUME NEW w, NEW log \in Seq(Entries), NEW e \in Entries,
         Len(log) \in Nat \ {0}, log[Len(log)] = e,
         NEW c \in ChainIds, NEW tried, ListedOnce(c) => c \notin tried,
         now \in Nat, TurnInv(w, log, tried)
  PROVE  TurnInv(TryChain(w, c, e), log, tried \cup {c})
<1> DEFINE a == GetActor(c, e)
           check == PreCheckActivity(w.store[a], e)
           w2 == [w EXCEPT !.store[a] = check.activity]
<1>1. w \in Works /\ w.store \in [Actors -> Activities] /\ a \in Actors /\ w.store[a] \in Activities
  BY EntryFacts DEF TurnInv, EntryInv, Works
<1>2. /\ check.activity \in Activities /\ check.skip \in BOOLEAN
      /\ check.activity.progress = w.store[a].progress
      /\ check.skip => SameMark(check.activity, w.store[a])
      /\ ~check.skip => Loose(w.store[a], now)
      /\ ~check.activity.blocked \/ (check.activity.until = w.store[a].until /\ w.store[a].blocked)
  BY <1>1, PreCheckFacts DEF SameMark, Loose
<1>3. TryChain(w, c, e) =
        IF w.stop THEN w
        ELSE IF check.skip THEN w2
        ELSE ProcessChainForEntry(w, c, e, check.activity)
  BY DEF TryChain
<1>4. TurnInv(w, log, tried \cup {c})
  BY DEF TurnInv, UntriedOK
<1>5. CASE check.skip
  <2> HIDE DEF check
  <2>1. /\ w2 \in Works /\ w2.n = w.n /\ w2.completed = w.completed /\ w2.blocks = w.blocks
        /\ w2.store = [w.store EXCEPT ![a] = check.activity]
    BY <1>1, <1>2 DEF Works
  <2> HIDE DEF w2, a
  <2>2. \A b \in Actors : w2.store[b].progress = w.store[b].progress /\ SameMark(w2.store[b], w.store[b])
    <3> SUFFICES ASSUME NEW b \in Actors
                 PROVE  w2.store[b].progress = w.store[b].progress
                        /\ SameMark(w2.store[b], w.store[b])
      OBVIOUS
    <3>1. CASE b = a
      BY <1>1, <1>2, <1>5, <2>1, <3>1
    <3>2. CASE b # a
      <4> w2.store[b] = w.store[b]
        BY <1>1, <2>1, <3>2
      <4> QED
        BY DEF SameMark
    <3> QED
      BY <3>1, <3>2
  <2> QED
    <3>1. TurnInv(w2, log, tried \cup {c})
      BY <1>4, <2>1, <2>2, SameStore
    <3> QED
      BY <1>3, <1>4, <1>5, <3>1
<1>6. CASE ~check.skip
  <2>1. SameMark(check.activity, w.store[a]) \/ ~check.activity.blocked
    BY <1>1, <1>2 DEF SameMark, Activities
  <2>2. TurnInv(ProcessChainForEntry(w, c, e, check.activity), log, tried \cup {c})
    <3> HIDE DEF check
    <3> QED
      BY <1>2, <1>6, <2>1, ProcessKeeps
  <2> QED
    BY <1>3, <1>4, <1>6, <2>2
<1> QED
  BY <1>2, <1>5, <1>6

(***************************************************************************)
(* Checker: the loops over chains and entries                              *)
(***************************************************************************)

\* The recursive function of TryChains, as far as it goes.
ChainRun(w, e, n, g) ==
  g = [i \in 0 .. n |-> IF i = 0 THEN w ELSE TryChain(g[i - 1], ChainsOf[e.vhost][i], e)]

LEMMA ChainRunExists ==
  ASSUME NEW w, NEW e, NEW n \in Nat
  PROVE  \E g : ChainRun(w, e, n, g)
<1> DEFINE S == {k \in Nat : \E g : ChainRun(w, e, k, g)}
           T(x, i) == TryChain(x, ChainsOf[e.vhost][i], e)
<1>0. \A k, g : ChainRun(w, e, k, g) <=> g = [i \in 0 .. k |-> IF i = 0 THEN w ELSE T(g[i - 1], i)]
  BY DEF ChainRun
<1> HIDE DEF T
<1>1. 0 \in S
  <2> DEFINE g == [i \in 0 .. 0 |-> w]
  <2> g = [i \in 0 .. 0 |-> IF i = 0 THEN w ELSE T(g[i - 1], i)]
    OBVIOUS
  <2> HIDE DEF g
  <2> QED
    BY <1>0
<1>2. ASSUME NEW k \in 1 .. n, k - 1 \in S PROVE k \in S
  <2>1. PICK g : g = [i \in 0 .. k - 1 |-> IF i = 0 THEN w ELSE T(g[i - 1], i)]
    BY <1>0, <1>2
  <2> DEFINE h == [i \in 0 .. k |-> IF i = k THEN T(g[k - 1], k) ELSE g[i]]
  <2>2. /\ h[k] = T(g[k - 1], k)
        /\ \A i \in 0 .. k - 1 : h[i] = g[i] /\ g[i] = IF i = 0 THEN w ELSE T(g[i - 1], i)
    BY <2>1
  <2>3. ASSUME NEW i \in 0 .. k PROVE h[i] = IF i = 0 THEN w ELSE T(h[i - 1], i)
    <3>1. CASE i = k
      <4> k - 1 \in 0 .. k - 1 /\ i # 0
        BY <3>1
      <4> h[k - 1] = g[k - 1]
        BY <2>2
      <4> QED
        BY <2>2, <3>1
    <3>2. CASE i = 0
      <4> i \in 0 .. k - 1
        BY <3>2
      <4> QED
        BY <2>2, <3>2
    <3>3. CASE i # 0 /\ i # k
      <4> i \in 0 .. k - 1 /\ i - 1 \in 0 .. k - 1
        BY <3>3
      <4> h[i] = g[i] /\ h[i - 1] = g[i - 1] /\ g[i] = T(g[i - 1], i)
        BY <2>2, <3>3
      <4> QED
        BY <3>3
    <3> QED
      BY <3>1, <3>2, <3>3
  <2>4. h = [i \in 0 .. k |-> h[i]]
    OBVIOUS
  <2> HIDE DEF h
  <2>5. h = [i \in 0 .. k |-> IF i = 0 THEN w ELSE T(h[i - 1], i)]
    BY <2>3, <2>4
  <2>6. ChainRun(w, e, k, h)
    BY <1>0, <2>5
  <2> k \in Nat
    OBVIOUS
  <2> QED
    BY <2>6
<1>3. 0 .. n \subseteq S
  <2> HIDE DEF S
  <2> QED
    BY <1>1, <1>2, EveryTurn
<1> QED
  BY <1>3

LEMMA TryChainsKeeps ==
  ASSUME NEW w, NEW log \in Seq(Entries), NEW e \in Entries,
         Len(log) \in Nat \ {0}, log[Len(log)] = e,
         now \in Nat, TurnInv(w, log, {})
  PROVE  EntryInv(TryChains(w, e), log)
<1> DEFINE chains == ChainsOf[e.vhost]
           n == Len(chains)
           run == CHOOSE g : ChainRun(w, e, n, g)
           tried(i) == {chains[j] : j \in 1 .. i}
<1>1. chains \in Seq(ChainIds) /\ n \in Nat
  BY EntryFacts, CheckerAssumption
<1>2. ChainRun(w, e, n, run)
  BY <1>1, ChainRunExists
<1>3. TryChains(w, e) = run[n]
  BY DEF TryChains, ChainRun
<1> HIDE DEF run
<1>4. run[0] = w /\ \A i \in 1 .. n : run[i] = TryChain(run[i - 1], chains[i], e)
  <2>1. \A i \in 0 .. n : run[i] = IF i = 0 THEN w ELSE TryChain(run[i - 1], chains[i], e)
    BY <1>2 DEF ChainRun
  <2> QED
    BY <1>1, <2>1
<1> DEFINE S == {i \in 0 .. n : TurnInv(run[i], log, tried(i))}
<1>5. 0 \in S
  <2> tried(0) = {}
    OBVIOUS
  <2> HIDE DEF tried
  <2>1. TurnInv(run[0], log, tried(0))
    BY <1>4
  <2>2. 0 \in 0 .. n
    BY <1>1
  <2> QED
    BY <2>1, <2>2
<1>6. ASSUME NEW i \in 1 .. n, i - 1 \in S PROVE i \in S
  <2> DEFINE c == chains[i]
  <2>1. c \in ChainIds
    BY <1>1
  <2>2. ListedOnce(c) => c \notin tried(i - 1)
    <3> SUFFICES ASSUME ListedOnce(c), NEW j \in 1 .. i - 1, c = chains[j] PROVE FALSE
      OBVIOUS
    <3>1. j \in 1 .. n /\ j # i
      BY <1>1
    <3> QED
      BY <3>1, EntryFacts DEF ListedOnce
  <2>3. TurnInv(run[i - 1], log, tried(i - 1))
    BY <1>6
  <2>4. tried(i) = tried(i - 1) \cup {c}
    <3>1. 1 .. i = (1 .. i - 1) \cup {i}
      OBVIOUS
    <3> QED
      BY <3>1
  <2>5. run[i] = TryChain(run[i - 1], c, e)
    BY <1>4
  <2> HIDE DEF c, tried
  <2>6. TurnInv(TryChain(run[i - 1], c, e), log, tried(i - 1) \cup {c})
    BY <2>1, <2>2, <2>3, TryChainKeeps
  <2>7. TurnInv(run[i], log, tried(i))
    BY <2>4, <2>5, <2>6
  <2>8. i \in 0 .. n
    BY <1>1
  <2> QED
    BY <2>7, <2>8
<1>7. n \in S
  <2> HIDE DEF S, n
  <2>1. 0 .. n \subseteq S
    BY <1>1, <1>5, <1>6, EveryTurn
  <2> QED
    BY <1>1, <2>1
<1> QED
  BY <1>3, <1>7 DEF TurnInv

\* A log goes on as another one.
Continues(log, log2) ==
  /\ log \in Seq(Entries) /\ log2 \in Seq(Entries) /\ Len(log) <= Len(log2)
  /\ \A i \in 1 .. Len(log) : log2[i] = log[i]

LEMMA JustifiedKept ==
  ASSUME NEW log, NEW log2, NEW x \in Completions, NEW m \in Nat, x.n <= m,
         \A i \in 1 .. m : log2[i] = log[i], Justified(log, x)
  PROVE  Justified(log2, x)
<1> DEFINE k == Len(Chains[x.chain].steps)
<1>1. k \in Nat /\ x.n \in Nat /\ \A i \in 1 .. x.n : log2[i] = log[i]
  <2> x.chain \in ChainIds /\ x.n \in Nat
    BY DEF Completions
  <2> QED
    BY ChainFacts
<1>2. PICK f \in [1 .. k -> 1 .. x.n] : f[k] = x.n /\ Witness(log, x.chain, x.actor, k, f)
  BY DEF Justified
<1> HIDE DEF k
<1>3. Witness(log2, x.chain, x.actor, k, f)
  BY <1>1, <1>2, WitnessKept
<1> QED
  BY <1>2, <1>3 DEF Justified, k

\* The work before the chains are tried on one more entry.
LEMMA EntryBegins ==
  ASSUME NEW w, NEW w2 \in Works, NEW log, NEW log2, Continues(log, log2),
         Len(log2) = Len(log) + 1, EntryInv(w, log), now \in Nat,
         w2.n = w.n + 1, w2.store = w.store, w2.completed = w.completed, w2.blocks = w.blocks
  PROVE  TurnInv(w2, log2, {})
<1> DEFINE m == Len(log)
<1>1. m \in Nat /\ Len(log2) = m + 1 /\ \A i \in 1 .. m : log2[i] = log[i]
  BY DEF Continues
<1>2. /\ w.store \in [Actors -> Activities] /\ w.completed \in SUBSET Completions
      /\ w.blocks \in SUBSET Blocks /\ w.n = m
  BY DEF EntryInv, Works
<1> HIDE DEF m
<1>3. ASSUME NEW a \in Actors, NEW c \in ChainIds, w.store[a].progress[c].step > 0
      PROVE  /\ Led(log2, c, a, w.store[a].progress[c], m)
             /\ Led(log2, c, a, w.store[a].progress[c], m + 1)
  <2> DEFINE p == w.store[a].progress[c]
  <2>1. p.step \in Nat \ {0}
    BY <1>2, <1>3 DEF Activities, StepStates
  <2>2. Led(log, c, a, p, m)
    BY <1>3 DEF EntryInv, ProgressOK, m
  <2> HIDE DEF p
  <2>3. m <= m /\ m <= m + 1 /\ m + 1 \in Nat
    BY <1>1
  <2>4. Led(log2, c, a, p, m)
    BY <1>1, <2>1, <2>2, <2>3, LedKept
  <2>5. Led(log2, c, a, p, m + 1)
    BY <1>1, <2>1, <2>2, <2>3, LedKept
  <2> QED
    BY <2>4, <2>5 DEF p
<1>4. ProgressOK(w2.store, log2) /\ UntriedOK(w2.store, log2, {}) /\ StepsOK(w2.store)
  <2> Len(log2) - 1 = m
    BY <1>1
  <2> QED
    BY <1>1, <1>3 DEF ProgressOK, UntriedOK, EntryInv
<1>5. CompletedOK(w2.completed, log2)
  <2> SUFFICES ASSUME NEW x \in w.completed PROVE x.n <= Len(log2) /\ Justified(log2, x)
    BY DEF CompletedOK
  <2>1. x \in Completions /\ x.n \in Nat
    BY <1>2 DEF Completions
  <2>2. x.n <= m /\ Justified(log, x)
    BY DEF EntryInv, CompletedOK, m
  <2>3. Justified(log2, x)
    BY <1>1, <2>1, <2>2, JustifiedKept
  <2> QED
    BY <1>1, <2>1, <2>2, <2>3
<1>6. BlocksOK(w2.store, w2.blocks, now, w2.n)
  <2>1. \A x \in w.blocks : x.n \in Nat
    BY <1>2 DEF Blocks
  <2>2. BlocksOK(w.store, w.blocks, now, w.n)
    BY DEF EntryInv
  <2>3. \A x \in w.blocks : x.n <= w2.n
    BY <1>1, <1>2, <2>1, <2>2 DEF BlocksOK
  <2> QED
    BY <2>2, <2>3 DEF BlocksOK
<1>7. w2.n = Len(log2) /\ TwiceOK(w2.blocks)
  BY <1>1, <1>2 DEF EntryInv
<1> QED
  BY <1>4, <1>5, <1>6, <1>7 DEF TurnInv, EntryInv

LEMMA CheckChainKeeps ==
  ASSUME NEW w, NEW log, NEW log2, NEW e, Continues(log, log2),
         Len(log2) = Len(log) + 1, log2[Len(log2)] = e, EntryInv(w, log), now \in Nat
  PROVE  EntryInv(CheckChain(w, e), log2)
<1> DEFINE w0 == [w EXCEPT !.n = @ + 1, !.touched = {}, !.stop = FALSE]
           done == TryChains(w0, e)
           s == [a \in Actors |-> IF a \in done.touched THEN [done.store[a] EXCEPT !.last = e.ts]
                                  ELSE done.store[a]]
           w2 == [done EXCEPT !.store = s]
<1>0. log2 \in Seq(Entries) /\ Len(log2) \in Nat \ {0} /\ e \in Entries
  <2>1. log2 \in Seq(Entries) /\ Len(log) \in Nat
    BY DEF Continues
  <2>2. Len(log2) \in 1 .. Len(log2)
    BY <2>1
  <2> QED
    BY <2>1, <2>2
<1>1. /\ w0 \in Works /\ w0.n = w.n + 1 /\ w0.store = w.store /\ w0.completed = w.completed
      /\ w0.blocks = w.blocks
  <2>1. w \in Works
    BY DEF EntryInv
  <2>2. w.n + 1 \in Nat
    BY <2>1 DEF Works
  <2> DEFINE k == w.n + 1
  <2>3. w0 = [w EXCEPT !.n = k, !.touched = {}, !.stop = FALSE]
    BY DEF Works
  <2> HIDE DEF k
  <2>4. k \in Nat /\ {} \in SUBSET Actors /\ FALSE \in BOOLEAN
    BY <2>2 DEF k
  <2>5. /\ w0 \in Works /\ w0.n = k /\ w0.store = w.store /\ w0.completed = w.completed
        /\ w0.blocks = w.blocks
    BY <2>1, <2>3, <2>4 DEF Works
  <2> QED
    BY <2>5 DEF k
<1> HIDE DEF w0
<1>2. TurnInv(w0, log2, {})
  BY <1>1, EntryBegins
<1>3. EntryInv(done, log2)
  BY <1>0, <1>2, TryChainsKeeps
<1>4. CheckChain(w, e) = w2
  BY DEF CheckChain, w0
<1> HIDE DEF done
<1>5. done \in Works /\ done.store \in [Actors -> Activities]
  BY <1>3 DEF EntryInv, Works
<1>6. e.ts \in 0 .. MaxTs
  BY <1>0, EntryFacts, CheckerAssumption
<1>7. \A x \in Activities : /\ [x EXCEPT !.last = e.ts] \in Activities
                            /\ [x EXCEPT !.last = e.ts].progress = x.progress
                            /\ SameMark([x EXCEPT !.last = e.ts], x)
  BY <1>6 DEF Activities, SameMark
<1>8. /\ s \in [Actors -> Activities]
      /\ \A b \in Actors : s[b].progress = done.store[b].progress /\ SameMark(s[b], done.store[b])
  <2>1. ASSUME NEW b \in Actors
        PROVE  /\ s[b] \in Activities /\ s[b].progress = done.store[b].progress
               /\ SameMark(s[b], done.store[b])
    <3>1. CASE b \in done.touched
      <4> s[b] = [done.store[b] EXCEPT !.last = e.ts]
        BY <3>1
      <4> QED
        BY <1>5, <1>7
    <3>2. CASE b \notin done.touched
      <4> s[b] = done.store[b]
        BY <3>2
      <4> HIDE DEF s
      <4> QED
        BY <1>5 DEF SameMark
    <3> QED
      BY <3>1, <3>2
  <2> QED
    BY <2>1
<1> HIDE DEF s
<1>9. /\ w2 \in Works /\ w2.n = done.n /\ w2.completed = done.completed /\ w2.blocks = done.blocks
      /\ w2.store = s
  BY <1>5, <1>8 DEF Works
<1> HIDE DEF w2
<1>10. TurnInv(done, log2, ChainIds)
  BY <1>3 DEF TurnInv, UntriedOK
<1>11. TurnInv(w2, log2, ChainIds)
  BY <1>8, <1>9, <1>10, SameStore
<1> QED
  BY <1>4, <1>11 DEF TurnInv

\* The recursive function of CheckEntries, as far as it goes.
EntryRun(w, entries, n, g) ==
  g = [i \in 0 .. n |-> IF i = 0 THEN w ELSE CheckChain(g[i - 1], entries[i])]

LEMMA EntryRunExists ==
  ASSUME NEW w, NEW entries, NEW n \in Nat
  PROVE  \E g : EntryRun(w, entries, n, g)
<1> DEFINE S == {k \in Nat : \E g : EntryRun(w, entries, k, g)}
           T(x, i) == CheckChain(x, entries[i])
<1>0. \A k, g : EntryRun(w, entries, k, g) <=> g = [i \in 0 .. k |-> IF i = 0 THEN w ELSE T(g[i - 1], i)]
  BY DEF EntryRun
<1> HIDE DEF T
<1>1. 0 \in S
  <2> DEFINE g == [i \in 0 .. 0 |-> w]
  <2> g = [i \in 0 .. 0 |-> IF i = 0 THEN w ELSE T(g[i - 1], i)]
    OBVIOUS
  <2> HIDE DEF g
  <2> QED
    BY <1>0
<1>2. ASSUME NEW k \in 1 .. n, k - 1 \in S PROVE k \in S
  <2>1. PICK g : g = [i \in 0 .. k - 1 |-> IF i = 0 THEN w ELSE T(g[i - 1], i)]
    BY <1>0, <1>2
  <2> DEFINE h == [i \in 0 .. k |-> IF i = k THEN T(g[k - 1], k) ELSE g[i]]
  <2>2. /\ h[k] = T(g[k - 1], k)
        /\ \A i \in 0 .. k - 1 : h[i] = g[i] /\ g[i] = IF i = 0 THEN w ELSE T(g[i - 1], i)
    BY <2>1
  <2>3. ASSUME NEW i \in 0 .. k PROVE h[i] = IF i = 0 THEN w ELSE T(h[i - 1], i)
    <3>1. CASE i = k
      <4> k - 1 \in 0 .. k - 1 /\ i # 0
        BY <3>1
      <4> h[k - 1] = g[k - 1]
        BY <2>2
      <4> QED
        BY <2>2, <3>1
    <3>2. CASE i = 0
      <4> i \in 0 .. k - 1
        BY <3>2
      <4> QED
        BY <2>2, <3>2
    <3>3. CASE i # 0 /\ i # k
      <4> i \in 0 .. k - 1 /\ i - 1 \in 0 .. k - 1
        BY <3>3
      <4> h[i] = g[i] /\ h[i - 1] = g[i - 1] /\ g[i] = T(g[i - 1], i)
        BY <2>2, <3>3
      <4> QED
        BY <3>3
    <3> QED
      BY <3>1, <3>2, <3>3
  <2>4. h = [i \in 0 .. k |-> h[i]]
    OBVIOUS
  <2> HIDE DEF h
  <2>5. h = [i \in 0 .. k |-> IF i = 0 THEN w ELSE T(h[i - 1], i)]
    BY <2>3, <2>4
  <2>6. EntryRun(w, entries, k, h)
    BY <1>0, <2>5
  <2> k \in Nat
    OBVIOUS
  <2> QED
    BY <2>6
<1>3. 0 .. n \subseteq S
  <2> HIDE DEF S
  <2> QED
    BY <1>1, <1>2, EveryTurn
<1> QED
  BY <1>3

LEMMA CheckEntriesKeeps ==
  ASSUME NEW w, NEW log \in Seq(Entries), NEW entries \in Seq(Entries),
         EntryInv(w, log), now \in Nat
  PROVE  EntryInv(CheckEntries(w, entries), log \o entries)
<1> DEFINE n == Len(entries)
           m == Len(log)
           all == log \o entries
           run == CHOOSE g : EntryRun(w, entries, n, g)
           upto(i) == SubSeq(all, 1, m + i)
<1>1. n \in Nat /\ m \in Nat
  OBVIOUS
<1>2. EntryRun(w, entries, n, run)
  BY <1>1, EntryRunExists
<1>3. CheckEntries(w, entries) = run[n]
  BY DEF CheckEntries, EntryRun
<1> HIDE DEF run
<1>4. run[0] = w /\ \A i \in 1 .. n : run[i] = CheckChain(run[i - 1], entries[i])
  <2>1. \A i \in 0 .. n : run[i] = IF i = 0 THEN w ELSE CheckChain(run[i - 1], entries[i])
    BY <1>2 DEF EntryRun
  <2> QED
    BY <1>1, <2>1
<1>5. /\ all \in Seq(Entries) /\ Len(all) = m + n
      /\ \A i \in 1 .. m : all[i] = log[i]
      /\ \A i \in 1 .. n : all[m + i] = entries[i]
  <2>1. /\ all \in Seq(Entries) /\ Len(all) = m + n
        /\ \A i \in 1 .. m : all[i] = log[i]
        /\ \A i \in m + 1 .. m + n : all[i] = entries[i - m]
    BY JoinFacts
  <2>2. \A i \in 1 .. n : m + i \in m + 1 .. m + n /\ (m + i) - m = i
    BY <1>1
  <2> HIDE DEF all
  <2> QED
    BY <2>1, <2>2
<1> HIDE DEF all, n, m
<1>6. ASSUME NEW i \in 0 .. n
      PROVE  upto(i) \in Seq(Entries) /\ Len(upto(i)) = m + i /\ \A j \in 1 .. m + i : upto(i)[j] = all[j]
  BY <1>1, <1>5, SubSeqProperties
<1> DEFINE S == {i \in 0 .. n : EntryInv(run[i], upto(i))}
<1>7. 0 \in S
  <2>1. 0 \in 0 .. n
    BY <1>1
  <2>2. upto(0) = log
    <3>1. upto(0) \in Seq(Entries) /\ Len(upto(0)) = m /\ \A j \in 1 .. m : upto(0)[j] = log[j]
      BY <1>1, <1>5, <1>6, <2>1
    <3> HIDE DEF upto
    <3> QED
      BY <3>1, SeqEqual DEF m
  <2> HIDE DEF upto
  <2>3. EntryInv(run[0], upto(0))
    BY <1>4, <2>2
  <2> QED
    BY <2>1, <2>3
<1>8. ASSUME NEW i \in 1 .. n, i - 1 \in S PROVE i \in S
  <2>1. i \in 0 .. n /\ i - 1 \in 0 .. n /\ m + i = (m + (i - 1)) + 1 /\ m + i \in 1 .. m + i
    BY <1>1
  <2>2. EntryInv(run[i - 1], upto(i - 1))
    BY <1>8
  <2>3. Continues(upto(i - 1), upto(i)) /\ Len(upto(i)) = Len(upto(i - 1)) + 1
    <3>1. \A j \in 1 .. m + (i - 1) : j \in 1 .. m + i
      BY <1>1, <2>1
    <3>2. /\ upto(i) \in Seq(Entries) /\ Len(upto(i)) = m + i
          /\ \A j \in 1 .. m + i : upto(i)[j] = all[j]
      BY <1>6, <2>1
    <3>3. /\ upto(i - 1) \in Seq(Entries) /\ Len(upto(i - 1)) = m + (i - 1)
          /\ \A j \in 1 .. m + (i - 1) : upto(i - 1)[j] = all[j]
      BY <1>6, <2>1
    <3> HIDE DEF upto
    <3> QED
      BY <1>1, <2>1, <3>1, <3>2, <3>3 DEF Continues
  <2>4. upto(i)[Len(upto(i))] = entries[i]
    <3>1. Len(upto(i)) = m + i /\ upto(i)[m + i] = all[m + i]
      BY <1>6, <2>1
    <3> HIDE DEF upto
    <3> QED
      BY <1>5, <3>1
  <2> HIDE DEF upto
  <2>5. EntryInv(CheckChain(run[i - 1], entries[i]), upto(i))
    BY <2>2, <2>3, <2>4, CheckChainKeeps
  <2>6. EntryInv(run[i], upto(i))
    BY <1>4, <2>5
  <2> QED
    BY <2>1, <2>6
<1>9. EntryInv(run[n], upto(n))
  <2> HIDE DEF S
  <2>1. 0 .. n \subseteq S
    BY <1>1, <1>7, <1>8, EveryTurn
  <2> QED
    BY <1>1, <2>1 DEF S
<1>10. upto(n) = all
  <2>1. n \in 0 .. n
    BY <1>1
  <2>2. upto(n) \in Seq(Entries) /\ Len(upto(n)) = m + n /\ \A j \in 1 .. m + n : upto(n)[j] = all[j]
    BY <1>6, <2>1
  <2> HIDE DEF upto
  <2> QED
    BY <1>5, <2>2, SeqEqual
<1> QED
  BY <1>3, <1>9, <1>10 DEF all, n

(***************************************************************************)
(* Checker: the critical sections                                          *)
(***************************************************************************)

LEMMA ZeroFacts ==
  /\ ZeroActivity \in Activities /\ ~ZeroActivity.blocked
  /\ \A c \in ChainIds : ZeroActivity.progress[c].step = 0
<1> DEFINE z == [step |-> 0, at |-> 0]
           p == [c \in ChainIds |-> z]
<1>1. z \in StepStates /\ z.step = 0 /\ 0 \in 0 .. MaxTs
  BY CheckerAssumption DEF StepStates
<1> HIDE DEF z
<1>2. p \in [ChainIds -> StepStates] /\ \A c \in ChainIds : p[c].step = 0
  BY <1>1
<1>3. ZeroActivity = [last |-> 0, blocked |-> FALSE, until |-> 0, skip |-> "none", progress |-> p]
  BY DEF ZeroActivity, z
<1> HIDE DEF p
<1>4. ZeroActivity.blocked = FALSE /\ ZeroActivity.progress = p
  BY <1>3
<1>5. ZeroActivity \in Activities
  BY <1>1, <1>2, <1>3 DEF Activities
<1> QED
  BY <1>2, <1>4, <1>5

LEMMA WorkFacts ==
  ASSUME NEW s \in [Actors -> Activities], TypesOK, StateOK(s, completed, blocks, checked, now)
  PROVE  EntryInv(Work(s), checked)
<1> DEFINE w == Work(s)
<1>1. w = [store |-> s, bad |-> bad, scores |-> scores, completed |-> completed,
           blocks |-> blocks, n |-> Len(checked), touched |-> {}, stop |-> FALSE]
  BY DEF Work
<1>2. Len(checked) \in Nat
  BY DEF TypesOK
<1> HIDE DEF w
<1>3. w \in Works
  BY <1>1, <1>2 DEF Works, TypesOK
<1>4. w.store = s /\ w.completed = completed /\ w.blocks = blocks /\ w.n = Len(checked)
  BY <1>1
<1> QED
  BY <1>3, <1>4 DEF EntryInv, StateOK, w

\* Entries that go through the chains, from a store that keeps the invariant.
LEMMA CheckAllKeeps ==
  ASSUME NEW s \in [Actors -> Activities], NEW entries \in Seq(Entries), TypesOK,
         StateOK(s, completed, blocks, checked, now), CheckAll(s, entries), now' = now
  PROVE  /\ store' \in [Actors -> Activities] /\ bad' \in SUBSET IPs /\ scores' \in [IPs -> Nat]
         /\ completed' \in SUBSET Completions /\ blocks' \in SUBSET Blocks
         /\ checked' = checked \o entries
         /\ StateOK(store', completed', blocks', checked', now')
<1> DEFINE w == CheckEntries(Work(s), entries)
<1>1. /\ store' = w.store /\ completed' = w.completed /\ blocks' = w.blocks /\ scores' = w.scores
      /\ bad' = w.bad /\ checked' = checked \o entries
  BY DEF CheckAll
<1>2. EntryInv(w, checked \o entries)
  BY WorkFacts, CheckEntriesKeeps DEF TypesOK
<1> HIDE DEF w
<1> QED
  BY <1>1, <1>2 DEF EntryInv, StateOK, Works

\* Activities that are forgotten were not blocked.
LEMMA Forgotten ==
  ASSUME NEW s \in [Actors -> Activities], NEW s2 \in [Actors -> Activities],
         NEW done, NEW bs \in SUBSET Blocks, NEW log, NEW t \in Nat,
         \A a \in Actors : \/ s2[a].progress = s[a].progress /\ SameMark(s2[a], s[a])
                           \/ s2[a].progress = s[a].progress /\ Loose(s[a], t)
                           \/ s2[a] = ZeroActivity /\ ~s[a].blocked,
         StateOK(s, done, bs, log, t)
  PROVE  StateOK(s2, done, bs, log, t)
<1>1. \A a \in Actors : SameMark(s2[a], s[a]) \/ Loose(s[a], t)
  BY DEF Loose
<1>2. BlocksOK(s2, bs, t, Len(log))
  BY <1>1, BlocksKept DEF StateOK
<1>3. \A a \in Actors : s2[a].progress = s[a].progress \/ \A c \in ChainIds : s2[a].progress[c].step = 0
  BY ZeroFacts
<1>4. StepsOK(s2) /\ ProgressOK(s2, log)
  <2>1. \A c \in ChainIds : 0 < Len(Chains[c].steps) /\ ~(0 > 0)
    BY ChainFacts
  <2>2. StepsOK(s2)
    BY <1>3, <2>1 DEF StateOK, StepsOK
  <2>3. ProgressOK(s2, log)
    BY <1>3, <2>1 DEF StateOK, ProgressOK
  <2> QED
    BY <2>2, <2>3
<1> QED
  BY <1>2, <1>4 DEF StateOK

LEMMA ForgivenFacts ==
  ASSUME NEW b \in Blocks, NEW e, now \in Nat, IsGoodActor(e)
  PROVE  /\ Forgiven(b, e) \in Blocks /\ Forgiven(b, e).actor = b.actor
         /\ Forgiven(b, e).n = b.n /\ Forgiven(b, e).from = b.from
         /\ Forgiven(b, e).until <= b.until
         /\ Forgiven(b, e).until >= now => Forgiven(b, e) = b /\ b.actor # BaseActor(e)
<1> DEFINE f == [b EXCEPT !.until = now - 1]
<1>1. b.until \in Int /\ now - 1 \in Int /\ ~(now - 1 >= now)
  BY DEF Blocks
<1>2. f \in Blocks /\ f.actor = b.actor /\ f.n = b.n /\ f.from = b.from /\ f.until = now - 1
  BY <1>1 DEF Blocks
<1> HIDE DEF f
<1>3. CASE b.actor = BaseActor(e) /\ b.until >= now
  <2> Forgiven(b, e) = f
    BY <1>3 DEF Forgiven, f
  <2> QED
    BY <1>1, <1>2, <1>3
<1>4. CASE ~(b.actor = BaseActor(e) /\ b.until >= now)
  <2> Forgiven(b, e) = b
    BY <1>4 DEF Forgiven
  <2> QED
    BY <1>1, <1>4
<1> QED
  BY <1>3, <1>4

\* A good actor's request: the blocks of its base actor end, whatever the activity says.
LEMMA GoodActorKeeps ==
  ASSUME NEW s \in [Actors -> Activities], NEW s2 \in [Actors -> Activities],
         NEW done, NEW bs \in SUBSET Blocks, NEW log, NEW e \in Entries, now \in Nat,
         IsGoodActor(e), StateOK(s, done, bs, log, now),
         \A a \in Actors : s2[a].progress = s[a].progress,
         \A a \in Actors \ {BaseActor(e)} : s2[a] = s[a],
         NEW bs2, \A x : x \in bs2 <=> \E b \in bs : x = Forgiven(b, e)
  PROVE  bs2 \in SUBSET Blocks /\ StateOK(s2, done, bs2, log, now)
<1> DEFINE F(b) == Forgiven(b, e)
<1>0. \A x : x \in bs2 <=> \E b \in bs : x = F(b)
  OBVIOUS
<1>1. \A b \in bs : /\ b \in Blocks /\ b.until \in Int /\ b.from \in Nat /\ b.actor \in Actors
                    /\ F(b) \in Blocks /\ F(b).actor = b.actor /\ F(b).n = b.n /\ F(b).from = b.from
                    /\ F(b).until <= b.until /\ F(b).until \in Int
                    /\ F(b).until >= now => F(b) = b /\ b.actor # BaseActor(e)
  BY ForgivenFacts DEF Blocks
<1> HIDE DEF F
<1>2. ASSUME NEW x \in bs, NEW z \in bs, Overtaken(bs, x, z) PROVE Overtaken(bs2, F(x), F(z))
  BY <1>0, <1>1, <1>2 DEF Overtaken
<1>3. TwiceOK(bs2)
  <2> SUFFICES ASSUME NEW x \in bs, NEW y \in bs,
                      F(x).actor = F(y).actor, F(x).n < F(y).n, F(y).from <= F(x).until
               PROVE  \E z \in bs2 : Overtaken(bs2, F(x), z) /\ z.n <= F(y).n /\ z.until < F(y).from
    BY <1>0 DEF TwiceOK
  <2>1. x.actor = y.actor /\ x.n < y.n /\ y.from <= x.until
    BY <1>1
  <2>2. PICK z \in bs : Overtaken(bs, x, z) /\ z.n <= y.n /\ z.until < y.from
    BY <2>1 DEF StateOK, TwiceOK
  <2>3. F(z) \in bs2 /\ F(z).n <= F(y).n /\ F(z).until < F(y).from
    BY <1>0, <1>1, <2>2
  <2> QED
    BY <1>2, <2>2, <2>3
<1>4. BlocksOK(s2, bs2, now, Len(log))
  <2>1. ASSUME NEW x \in bs PROVE F(x).n <= Len(log) /\ F(x).from <= now
    BY <1>1 DEF StateOK, BlocksOK
  <2>2. ASSUME NEW x \in bs, F(x).until >= now PROVE Held(s2, bs2, now, F(x))
    <3>1. F(x) = x /\ x.actor # BaseActor(e) /\ x.until >= now /\ s2[x.actor] = s[x.actor]
      BY <1>0, <1>1, <2>2
    <3>2. Held(s, bs, now, x)
      BY <3>1 DEF StateOK, BlocksOK
    <3>3. CASE s[x.actor].blocked /\ s[x.actor].until >= x.until
      BY <3>1, <3>3 DEF Held
    <3>4. ASSUME NEW z \in bs, Overtaken(bs, x, z),
                 z.until < now \/ (s[x.actor].blocked /\ s[x.actor].until >= z.until)
          PROVE  Held(s2, bs2, now, F(x))
      <4>1. s[x.actor].until \in Nat
        BY <1>1 DEF Activities
      <4>2. F(z).until < now \/ (s[x.actor].blocked /\ s[x.actor].until >= F(z).until)
        BY <1>1, <3>4, <4>1
      <4>3. Overtaken(bs2, F(x), F(z)) /\ F(z) \in bs2
        BY <1>0, <1>2, <3>4
      <4> QED
        BY <3>1, <4>2, <4>3 DEF Held
    <3> QED
      BY <3>2, <3>3, <3>4 DEF Held
  <2> QED
    BY <1>0, <2>1, <2>2 DEF BlocksOK
<1>5. StepsOK(s2) /\ ProgressOK(s2, log)
  BY DEF StateOK, StepsOK, ProgressOK
<1>6. bs2 \in SUBSET Blocks
  BY <1>0, <1>1
<1> QED
  BY <1>3, <1>4, <1>5, <1>6 DEF StateOK, F

LEMMA GreetedFacts ==
  ASSUME NEW e \in Entries, TypesOK
  PROVE  LET g == Greeted(e)
             act == store[BaseActor(e)] IN
         /\ g \in Activities /\ g.progress = act.progress
         /\ IsGoodActor(e) => g.skip = "good"
         /\ ~IsGoodActor(e) => SameMark(g, act) \/ ~act.blocked
         /\ ~IsGoodActor(e) /\ e.ip \notin bad => g = act
<1> DEFINE act == store[BaseActor(e)]
           g == Greeted(e)
           free == [act EXCEPT !.skip = "good", !.blocked = FALSE, !.until = 0]
           again == Blocking(act, now + BadActorDuration)
<1>1. act \in Activities /\ now + BadActorDuration \in Nat
  BY EntryFacts, CheckerAssumption DEF TypesOK
<1>2. again \in Activities /\ again.progress = act.progress
  BY <1>1, BlockingFacts
<1>3. g = IF IsGoodActor(e) THEN IF act.skip = "good" THEN act ELSE free
          ELSE IF e.ip \in bad /\ ~act.blocked THEN again ELSE act
  BY DEF Greeted
<1> HIDE DEF act, again, g
<1>4. free \in Activities /\ free.progress = act.progress /\ free.skip = "good"
  BY <1>1 DEF Activities
<1> HIDE DEF free
<1>5. SameMark(act, act)
  BY DEF SameMark
<1> QED
  BY <1>1, <1>2, <1>3, <1>4, <1>5 DEF act, g

(***************************************************************************)
(* Checker: no entry is lost                                               *)
(***************************************************************************)

\* EveryEntryOnce of what was skipped, waits in the buffer or the hand, or was checked.
Once(sk, b, h, ch, n) ==
  /\ sk \cup Ids(b) \cup Ids(h) \cup Ids(ch) = 1 .. n
  /\ Cardinality(sk) + Len(b) + Len(h) + Len(ch) = n

LEMMA OneSkipped ==
  ASSUME NEW sk, NEW b, NEW h, NEW ch, NEW n \in Nat, Once(sk, b, h, ch, n),
         Len(b) \in Nat, Len(h) \in Nat, Len(ch) \in Nat
  PROVE  Once(sk \cup {n + 1}, b, h, ch, n + 1)
<1>1. sk \subseteq 1 .. n
  BY DEF Once
<1>2. IsFiniteSet(sk)
  <2> IsFiniteSet(1 .. n)
    BY FS_Interval
  <2> QED
    BY <1>1, FS_Subset
<1>3. n + 1 \notin sk
  BY <1>1
<1>4. Cardinality(sk \cup {n + 1}) = Cardinality(sk) + 1 /\ Cardinality(sk) \in Nat
  BY <1>2, <1>3, FS_AddElement, FS_CardinalityType
<1>5. 1 .. n + 1 = (1 .. n) \cup {n + 1}
  OBVIOUS
<1> QED
  BY <1>4, <1>5 DEF Once

LEMMA IdsOfOne ==
  ASSUME NEW e
  PROVE  Ids(<<e>>) = {e.id} /\ Ids(<<>>) = {}
BY DEF Ids

LEMMA SkippedFacts ==
  ASSUME NEW sk, NEW b, NEW h, NEW ch, NEW n \in Nat, Once(sk, b, h, ch, n)
  PROVE  Cardinality(sk) \in Nat
<1>1. sk \subseteq 1 .. n /\ IsFiniteSet(1 .. n)
  BY FS_Interval DEF Once
<1> QED
  BY <1>1, FS_Subset, FS_CardinalityType

LEMMA OneMore ==
  ASSUME NEW n \in Nat
  PROVE  1 .. n + 1 = (1 .. n) \cup {n + 1}
OBVIOUS

\* An entry that arrives may join the buffer or the log of checked ones instead.
LEMMA OneKept ==
  ASSUME NEW sk, NEW b \in Seq(Entries), NEW h \in Seq(Entries), NEW ch \in Seq(Entries),
         NEW n \in Nat, Once(sk, b, h, ch, n),
         NEW b2 \in Seq(Entries), NEW ch2 \in Seq(Entries),
         Len(b2) + Len(ch2) = Len(b) + Len(ch) + 1,
         Ids(b2) \cup Ids(ch2) = Ids(b) \cup Ids(ch) \cup {n + 1}
  PROVE  Once(sk, b2, h, ch2, n + 1)
<1>1. Cardinality(sk) \in Nat
  BY SkippedFacts
<1>2. 1 .. n + 1 = (1 .. n) \cup {n + 1}
  BY OneMore
<1>3. sk \cup Ids(b2) \cup Ids(h) \cup Ids(ch2) = 1 .. n + 1
  BY <1>2 DEF Once
<1>4. Cardinality(sk) + Len(b2) + Len(h) + Len(ch2) = n + 1
  <2>1. Cardinality(sk) + Len(b) + Len(h) + Len(ch) = n
    BY DEF Once
  <2>2. /\ Len(b) \in Nat /\ Len(b2) \in Nat /\ Len(h) \in Nat
        /\ Len(ch) \in Nat /\ Len(ch2) \in Nat
    OBVIOUS
  <2> QED
    <3> DEFINE u == Cardinality(sk)
               x == Len(b)
               y == Len(h)
               z == Len(ch)
               x2 == Len(b2)
               z2 == Len(ch2)
    <3>1. u + x + y + z = n /\ x2 + z2 = x + z + 1
      BY <2>1
    <3>2. u \in Nat /\ x \in Nat /\ y \in Nat /\ z \in Nat /\ x2 \in Nat /\ z2 \in Nat
      BY <1>1, <2>2
    <3> HIDE DEF u, x, y, z, x2, z2
    <3>3. u + x2 + y + z2 = n + 1
      BY <3>1, <3>2
    <3> QED
      BY <3>3 DEF u, x2, y, z2
<1> QED
  BY <1>3, <1>4 DEF Once

\* Entries only move from one place to another.
LEMMA OnlyMoved ==
  ASSUME NEW sk, NEW b \in Seq(Entries), NEW h \in Seq(Entries), NEW ch \in Seq(Entries),
         NEW n \in Nat, Once(sk, b, h, ch, n),
         NEW b2 \in Seq(Entries), NEW h2 \in Seq(Entries), NEW ch2 \in Seq(Entries),
         Len(b2) + Len(h2) + Len(ch2) = Len(b) + Len(h) + Len(ch),
         Ids(b2) \cup Ids(h2) \cup Ids(ch2) = Ids(b) \cup Ids(h) \cup Ids(ch)
  PROVE  Once(sk, b2, h2, ch2, n)
<1>1. Cardinality(sk) \in Nat
  BY SkippedFacts
<1>2. sk \cup Ids(b2) \cup Ids(h2) \cup Ids(ch2) = 1 .. n
  BY DEF Once
<1>3. Cardinality(sk) + Len(b2) + Len(h2) + Len(ch2) = n
  <2>1. Cardinality(sk) + Len(b) + Len(h) + Len(ch) = n
    BY DEF Once
  <2>2. /\ Len(b) \in Nat /\ Len(b2) \in Nat /\ Len(h) \in Nat /\ Len(h2) \in Nat
        /\ Len(ch) \in Nat /\ Len(ch2) \in Nat
    OBVIOUS
  <2> QED
    <3> DEFINE u == Cardinality(sk)
               x == Len(b)
               y == Len(h)
               z == Len(ch)
               x2 == Len(b2)
               y2 == Len(h2)
               z2 == Len(ch2)
    <3>1. u + x + y + z = n /\ x2 + y2 + z2 = x + y + z
      BY <2>1
    <3>2. /\ u \in Nat /\ x \in Nat /\ y \in Nat /\ z \in Nat
          /\ x2 \in Nat /\ y2 \in Nat /\ z2 \in Nat
      BY <1>1, <2>2
    <3> HIDE DEF u, x, y, z, x2, y2, z2
    <3>3. u + x2 + y2 + z2 = n
      BY <3>1, <3>2
    <3> QED
      BY <3>3 DEF u, x2, y2, z2
<1> QED
  BY <1>2, <1>3 DEF Once

(***************************************************************************)
(* Checker: the invariant is inductive                                     *)
(***************************************************************************)

LEMMA CheckerInitHolds == CheckerInit => CheckerInv
<1> SUFFICES ASSUME CheckerInit PROVE CheckerInv
  OBVIOUS
<1> USE DEF CheckerInit
<1>1. store \in [Actors -> Activities] /\ \A a \in Actors : store[a] = ZeroActivity
  BY ZeroFacts
<1>2. TypesOK
  BY <1>1 DEF TypesOK, InOrder
<1>3. EveryEntryOnce
  <2>1. Ids(<<>>) = {} /\ Len(<<>>) = 0
    BY IdsOfOne
  <2>2. Cardinality({}) = 0
    BY FS_EmptySet
  <2>3. 1 .. 0 = {}
    OBVIOUS
  <2> QED
    BY <2>1, <2>2, <2>3 DEF EveryEntryOnce
<1>4. StepsOK(store) /\ ProgressOK(store, checked)
  <2>1. \A c \in ChainIds : 0 < Len(Chains[c].steps) /\ ~(0 > 0)
    BY ChainFacts
  <2>2. \A a \in Actors, c \in ChainIds : store[a].progress[c].step = 0
    BY <1>1, ZeroFacts
  <2> QED
    BY <2>1, <2>2 DEF StepsOK, ProgressOK
<1>5. CompletedOK(completed, checked) /\ BlocksOK(store, blocks, now, Len(checked)) /\ TwiceOK(blocks)
  BY DEF CompletedOK, BlocksOK, TwiceOK
<1> QED
  BY <1>2, <1>3, <1>4, <1>5 DEF CheckerInv, StateOK

\* The request is skipped and h is what the activity of its base actor becomes.
LEMMA SkipStep ==
  ASSUME CheckerInv, NEW e \in Entries, NEW h \in Activities, Skip(e, h),
         h.progress = store[BaseActor(e)].progress,
         ~IsGoodActor(e) => SameMark(h, store[BaseActor(e)]) \/ ~store[BaseActor(e)].blocked,
         e.id = arrived + 1, arrived' = arrived + 1, now' = now
  PROVE  CheckerInv'
<1> DEFINE base == BaseActor(e)
<1>1. TypesOK /\ Once(skipped, buffer, hand, checked, arrived)
      /\ StateOK(store, completed, blocks, checked, now)
  BY DEF CheckerInv, EveryEntryOnce, Once
<1>2. base \in Actors
  BY EntryFacts
<1> HIDE DEF base
<1>3. /\ store' = [store EXCEPT ![base] = h]
      /\ skipped' = skipped \cup {arrived + 1}
      /\ blocks' = {Forgiven(b, e) : b \in blocks}
      /\ buffer' = buffer /\ hand' = hand /\ bad' = bad /\ scores' = scores
      /\ checked' = checked /\ completed' = completed
  BY DEF Skip, base
<1>4. /\ store \in [Actors -> Activities] /\ store' \in [Actors -> Activities]
      /\ store'[base] = h /\ \A a \in Actors \ {base} : store'[a] = store[a]
  BY <1>1, <1>2, <1>3 DEF TypesOK
<1>5. \A a \in Actors : store'[a].progress = store[a].progress
  BY <1>4 DEF base
<1>6. blocks \in SUBSET Blocks /\ now \in Nat
  BY <1>1 DEF TypesOK
<1>7. blocks' \in SUBSET Blocks /\ StateOK(store', completed, blocks', checked, now)
  <2>1. CASE IsGoodActor(e)
    <3>1. \A a \in Actors \ {BaseActor(e)} : store'[a] = store[a]
      BY <1>4 DEF base
    <3>2. \A x : x \in blocks' <=> \E b \in blocks : x = Forgiven(b, e)
      BY <1>3
    <3> QED
      BY <1>1, <1>4, <1>5, <1>6, <2>1, <3>1, <3>2, GoodActorKeeps
  <2>2. CASE ~IsGoodActor(e)
    <3>1. blocks' = blocks
      BY <1>3, <2>2 DEF Forgiven
    <3>2. \A a \in Actors : SameMark(store'[a], store[a]) \/ Loose(store[a], now)
      BY <1>4, <2>2 DEF base, SameMark, Loose
    <3>3. StateOK(store', completed, blocks, checked, now)
      BY <1>1, <1>4, <1>5, <1>6, <3>2, Forgotten
    <3> QED
      BY <1>6, <3>1, <3>3
  <2> QED
    BY <2>1, <2>2
<1>8. Once(skipped', buffer', hand', checked', arrived')
  <2>1. arrived \in Nat /\ Len(buffer) \in Nat /\ Len(hand) \in Nat /\ Len(checked) \in Nat
    BY <1>1 DEF TypesOK
  <2>2. Once(skipped \cup {arrived + 1}, buffer, hand, checked, arrived + 1)
    BY <1>1, <2>1, OneSkipped
  <2> QED
    BY <1>3, <2>2
<1>9. TypesOK'
  BY <1>1, <1>3, <1>4, <1>7 DEF TypesOK
<1> QED
  BY <1>3, <1>7, <1>8, <1>9 DEF CheckerInv, EveryEntryOnce, Once

\* The request goes on, to the buffer or through the chains; s is the store by then.
LEMMA GoOnStep ==
  ASSUME CheckerInv, NEW e \in Entries, NEW s \in [Actors -> Activities],
         StateOK(s, completed, blocks, checked, now),
         \/ /\ buffer' = AddToOooBuffer(buffer, e)
            /\ store' = s
            /\ UNCHANGED <<bad, scores, checked, completed, blocks>>
         \/ CheckAll(s, <<e>>) /\ UNCHANGED buffer,
         e.id = arrived + 1, arrived' = arrived + 1, now' = now, UNCHANGED <<hand, skipped>>
  PROVE  CheckerInv'
<1>1. TypesOK /\ Once(skipped, buffer, hand, checked, arrived)
  BY DEF CheckerInv, EveryEntryOnce, Once
<1>2. /\ buffer \in Seq(Entries) /\ hand \in Seq(Entries) /\ checked \in Seq(Entries)
      /\ arrived \in Nat /\ InOrder(buffer)
  BY <1>1 DEF TypesOK
<1>3. CASE /\ buffer' = AddToOooBuffer(buffer, e)
           /\ store' = s
           /\ UNCHANGED <<bad, scores, checked, completed, blocks>>
  <2>1. /\ buffer' \in Seq(Entries) /\ Len(buffer') = Len(buffer) + 1
        /\ Ids(buffer') = Ids(buffer) \cup {arrived + 1} /\ InOrder(buffer')
    BY <1>2, <1>3, BufferFacts
  <2> DEFINE b2 == buffer'
  <2>2. Once(skipped, b2, hand, checked, arrived + 1)
    <3>1. /\ b2 \in Seq(Entries) /\ Len(b2) + Len(checked) = Len(buffer) + Len(checked) + 1
          /\ Ids(b2) \cup Ids(checked) = Ids(buffer) \cup Ids(checked) \cup {arrived + 1}
      BY <1>2, <2>1
    <3> HIDE DEF b2
    <3> QED
      BY <1>1, <1>2, <3>1, OneKept
  <2>3. TypesOK'
    BY <1>1, <1>3, <2>1 DEF TypesOK
  <2> QED
    BY <1>3, <2>2, <2>3 DEF CheckerInv, EveryEntryOnce, Once
<1>4. CASE CheckAll(s, <<e>>) /\ UNCHANGED buffer
  <2>0. <<e>> \in Seq(Entries) /\ Len(<<e>>) = 1 /\ Ids(<<e>>) = {arrived + 1}
    BY IdsOfOne
  <2>1. /\ store' \in [Actors -> Activities] /\ bad' \in SUBSET IPs /\ scores' \in [IPs -> Nat]
        /\ completed' \in SUBSET Completions /\ blocks' \in SUBSET Blocks
        /\ checked' = checked \o <<e>>
        /\ StateOK(store', completed', blocks', checked', now')
    BY <1>1, <1>4, <2>0, CheckAllKeeps
  <2>2. /\ checked' \in Seq(Entries) /\ Len(checked') = Len(checked) + 1
        /\ Ids(checked') = Ids(checked) \cup {arrived + 1}
    <3> DEFINE one == <<e>>
    <3>1. one \in Seq(Entries) /\ Len(one) = 1 /\ Ids(one) = {arrived + 1} /\ checked' = checked \o one
      BY <2>0, <2>1
    <3> HIDE DEF one
    <3>2. /\ checked \o one \in Seq(Entries) /\ Len(checked \o one) = Len(checked) + Len(one)
          /\ Ids(checked \o one) = Ids(checked) \cup Ids(one)
      BY <1>2, <3>1, JoinFacts
    <3> QED
      BY <3>1, <3>2
  <2> DEFINE log2 == checked'
  <2>3. Once(skipped, buffer, hand, log2, arrived + 1)
    <3>1. /\ log2 \in Seq(Entries) /\ Len(buffer) + Len(log2) = Len(buffer) + Len(checked) + 1
          /\ Ids(buffer) \cup Ids(log2) = Ids(buffer) \cup Ids(checked) \cup {arrived + 1}
      BY <1>2, <2>2
    <3> HIDE DEF log2
    <3> QED
      BY <1>1, <1>2, <3>1, OneKept
  <2>4. TypesOK'
    BY <1>1, <1>4, <2>1, <2>2 DEF TypesOK
  <2> QED
    BY <1>4, <2>1, <2>3, <2>4 DEF CheckerInv, EveryEntryOnce, Once
<1> QED
  BY <1>3, <1>4

LEMMA CheckChainsStep ==
  ASSUME CheckerInv, NEW e \in Entries, CheckChains(e)
  PROVE  CheckerInv'
<1> DEFINE base == BaseActor(e)
           act == store[base]
           g == Greeted(e)
           check == PreCheckActivity(g, e)
           s == [store EXCEPT ![base] = check.activity]
<1>1. TypesOK /\ StateOK(store, completed, blocks, checked, now)
  BY DEF CheckerInv
<1>2. store \in [Actors -> Activities] /\ base \in Actors /\ act \in Activities /\ now \in Nat
      /\ blocks \in SUBSET Blocks
  BY <1>1, EntryFacts DEF TypesOK
<1>3. e.id = arrived + 1 /\ arrived' = arrived + 1 /\ now' = now
  BY DEF CheckChains
<1>4. /\ g \in Activities /\ g.progress = act.progress
      /\ IsGoodActor(e) => g.skip = "good"
      /\ ~IsGoodActor(e) => SameMark(g, act) \/ ~act.blocked
      /\ ~IsGoodActor(e) /\ e.ip \notin bad => g = act
  BY <1>1, GreetedFacts
<1>5. g.skip = "good" => check.skip
  <2> SUFFICES ASSUME g.skip = "good" PROVE check.skip
    OBVIOUS
  <2> HIDE DEF g
  <2> check = [skip |-> TRUE, activity |-> g]
    BY DEF PreCheckActivity
  <2> QED
    OBVIOUS
<1>6. /\ check.activity \in Activities /\ check.activity.progress = g.progress
      /\ check.skip => SameMark(check.activity, g)
      /\ ~check.skip => Loose(g, now)
  <2> HIDE DEF g
  <2> QED
    BY <1>2, <1>4, PreCheckFacts DEF SameMark, Loose
<1>7. \/ ~IsGoodActor(e) /\ e.ip \in bad /\ Skip(e, g)
      \/ check.skip /\ Skip(e, check.activity)
      \/ /\ ~(~IsGoodActor(e) /\ e.ip \in bad) /\ ~check.skip
         /\ UNCHANGED <<hand, skipped>>
         /\ \/ /\ buffer' = AddToOooBuffer(buffer, e)
               /\ store' = s
               /\ UNCHANGED <<bad, scores, checked, completed, blocks>>
            \/ CheckAll(s, <<e>>) /\ UNCHANGED buffer
  BY DEF CheckChains
<1> HIDE DEF g, check
<1>8. CASE ~IsGoodActor(e) /\ e.ip \in bad /\ Skip(e, g)
  BY <1>3, <1>4, <1>8, SkipStep
<1>9. CASE check.skip /\ Skip(e, check.activity)
  <2>1. ~IsGoodActor(e) => SameMark(check.activity, act) \/ ~act.blocked
    BY <1>4, <1>6, <1>9 DEF SameMark
  <2> QED
    BY <1>3, <1>4, <1>6, <1>9, <2>1, SkipStep
<1>10. CASE /\ ~(~IsGoodActor(e) /\ e.ip \in bad) /\ ~check.skip
            /\ UNCHANGED <<hand, skipped>>
            /\ \/ /\ buffer' = AddToOooBuffer(buffer, e)
                  /\ store' = s
                  /\ UNCHANGED <<bad, scores, checked, completed, blocks>>
               \/ CheckAll(s, <<e>>) /\ UNCHANGED buffer
  <2>1. g = act
    BY <1>4, <1>5, <1>10
  <2>2. /\ s \in [Actors -> Activities] /\ s[base] = check.activity
        /\ \A a \in Actors \ {base} : s[a] = store[a]
    BY <1>2, <1>6
  <2> HIDE DEF s
  <2>3. \A a \in Actors : s[a].progress = store[a].progress
                          /\ (SameMark(s[a], store[a]) \/ Loose(store[a], now))
    BY <1>6, <1>10, <2>1, <2>2 DEF SameMark
  <2>4. StateOK(s, completed, blocks, checked, now)
    BY <1>1, <1>2, <2>2, <2>3, Forgotten
  <2> QED
    BY <1>3, <1>10, <2>2, <2>4, GoOnStep
<1> QED
  BY <1>7, <1>8, <1>9, <1>10

LEMMA WorkerDequeueStep == CheckerInv /\ WorkerDequeue => CheckerInv'
<1> SUFFICES ASSUME CheckerInv, WorkerDequeue PROVE CheckerInv'
  OBVIOUS
<1> DEFINE k == Search(buffer, now - Tolerance - 1) - 1
<1>1. TypesOK /\ Once(skipped, buffer, hand, checked, arrived)
      /\ StateOK(store, completed, blocks, checked, now)
  BY DEF CheckerInv, EveryEntryOnce, Once
<1>2. /\ buffer \in Seq(Entries) /\ hand \in Seq(Entries) /\ checked \in Seq(Entries)
      /\ arrived \in Nat /\ InOrder(buffer) /\ now - Tolerance - 1 \in Int
  BY <1>1, CheckerAssumption DEF TypesOK
<1>3. k \in 0 .. Len(buffer)
  <2>1. Search(buffer, now - Tolerance - 1) \in 1 .. Len(buffer) + 1
    BY <1>2, SearchFacts
  <2> QED
    BY <1>2, <2>1
<1>4. Ready = SubSeq(buffer, 1, k)
  BY DEF Ready
<1> HIDE DEF k
<1>5. /\ Ready \in Seq(Entries) /\ Len(Ready) = k
      /\ SubSeq(buffer, k + 1, Len(buffer)) \in Seq(Entries)
      /\ Len(SubSeq(buffer, k + 1, Len(buffer))) = Len(buffer) - k
      /\ Ids(buffer) = Ids(Ready) \cup Ids(SubSeq(buffer, k + 1, Len(buffer)))
      /\ InOrder(SubSeq(buffer, k + 1, Len(buffer)))
  BY <1>2, <1>3, <1>4, CutFacts
<1>6. /\ hand = <<>> /\ hand' = Ready /\ buffer' = SubSeq(buffer, k + 1, Len(buffer))
      /\ UNCHANGED <<store, bad, scores, now, arrived, skipped, checked, completed, blocks>>
  BY <1>5 DEF WorkerDequeue
<1>7. Ids(hand) = {} /\ Len(hand) = 0
  BY <1>6, IdsOfOne
<1>8. /\ buffer' \in Seq(Entries) /\ hand' \in Seq(Entries) /\ InOrder(buffer')
      /\ Len(buffer') + Len(hand') + Len(checked) = Len(buffer) + Len(hand) + Len(checked)
      /\ Ids(buffer') \cup Ids(hand') \cup Ids(checked) = Ids(buffer) \cup Ids(hand) \cup Ids(checked)
  <2> DEFINE r == SubSeq(buffer, k + 1, Len(buffer))
  <2>1. buffer' = r /\ hand' = Ready
    BY <1>6
  <2>2. /\ r \in Seq(Entries) /\ Ready \in Seq(Entries) /\ InOrder(r) /\ Len(Ready) = k
        /\ Len(r) = Len(buffer) - k /\ Ids(buffer) = Ids(Ready) \cup Ids(r)
    BY <1>5
  <2> HIDE DEF r
  <2>3. Len(r) + Len(Ready) + Len(checked) = Len(buffer) + Len(hand) + Len(checked)
    <3> Len(buffer) \in Nat /\ Len(checked) \in Nat /\ k \in Nat
      BY <1>2, <1>3
    <3> QED
      BY <1>7, <2>2
  <2>4. Ids(r) \cup Ids(Ready) \cup Ids(checked) = Ids(buffer) \cup Ids(hand) \cup Ids(checked)
    BY <1>7, <2>2
  <2> QED
    BY <2>1, <2>2, <2>3, <2>4
<1>9. Once(skipped, buffer', hand', checked, arrived)
  BY <1>1, <1>2, <1>8, OnlyMoved
<1>10. TypesOK'
  BY <1>1, <1>6, <1>8 DEF TypesOK
<1> QED
  BY <1>1, <1>6, <1>9, <1>10 DEF CheckerInv, EveryEntryOnce, Once

\* The worker's hand or the whole buffer goes through the chains.
LEMMA FlushStep ==
  ASSUME CheckerInv, NEW entries \in Seq(Entries), CheckAll(store, entries),
         UNCHANGED <<now, arrived, skipped>>,
         \/ entries = hand /\ hand' = <<>> /\ buffer' = buffer
         \/ entries = buffer /\ buffer' = <<>> /\ hand' = hand
  PROVE  CheckerInv'
<1>1. TypesOK /\ Once(skipped, buffer, hand, checked, arrived)
      /\ StateOK(store, completed, blocks, checked, now)
  BY DEF CheckerInv, EveryEntryOnce, Once
<1>2. /\ buffer \in Seq(Entries) /\ hand \in Seq(Entries) /\ checked \in Seq(Entries)
      /\ arrived \in Nat /\ store \in [Actors -> Activities] /\ InOrder(buffer)
  BY <1>1 DEF TypesOK
<1>3. /\ store' \in [Actors -> Activities] /\ bad' \in SUBSET IPs /\ scores' \in [IPs -> Nat]
      /\ completed' \in SUBSET Completions /\ blocks' \in SUBSET Blocks
      /\ checked' = checked \o entries
      /\ StateOK(store', completed', blocks', checked', now')
  BY <1>1, <1>2, CheckAllKeeps
<1>4. /\ checked' \in Seq(Entries) /\ Len(checked') = Len(checked) + Len(entries)
      /\ Ids(checked') = Ids(checked) \cup Ids(entries)
  <2>1. /\ checked \o entries \in Seq(Entries)
        /\ Len(checked \o entries) = Len(checked) + Len(entries)
        /\ Ids(checked \o entries) = Ids(checked) \cup Ids(entries)
    BY <1>2, JoinFacts
  <2> QED
    BY <1>3, <2>1
<1>5. Ids(<<>>) = {} /\ Len(<<>>) = 0 /\ <<>> \in Seq(Entries) /\ InOrder(<<>>)
  <2>1. Ids(<<>>) = {}
    BY IdsOfOne
  <2>2. Len(<<>>) = 0 /\ <<>> \in Seq(Entries) /\ InOrder(<<>>)
    BY DEF InOrder
  <2> QED
    BY <2>1, <2>2
<1>6. /\ buffer' \in Seq(Entries) /\ hand' \in Seq(Entries) /\ InOrder(buffer')
      /\ Len(buffer') + Len(hand') + Len(checked') = Len(buffer) + Len(hand) + Len(checked)
      /\ Ids(buffer') \cup Ids(hand') \cup Ids(checked') = Ids(buffer) \cup Ids(hand) \cup Ids(checked)
  <2>1. CASE entries = hand /\ hand' = <<>> /\ buffer' = buffer
    BY <1>2, <1>4, <1>5, <2>1
  <2>2. CASE entries = buffer /\ buffer' = <<>> /\ hand' = hand
    BY <1>2, <1>4, <1>5, <2>2
  <2> QED
    BY <2>1, <2>2
<1>7. Once(skipped, buffer', hand', checked', arrived)
  BY <1>1, <1>2, <1>4, <1>6, OnlyMoved
<1>8. TypesOK'
  BY <1>1, <1>3, <1>4, <1>6 DEF TypesOK
<1> QED
  BY <1>3, <1>7, <1>8 DEF CheckerInv, EveryEntryOnce, Once

LEMMA CleanUpStep == CheckerInv /\ CleanUpIdleActors => CheckerInv'
<1> SUFFICES ASSUME CheckerInv, CleanUpIdleActors PROVE CheckerInv'
  OBVIOUS
<1>1. TypesOK /\ StateOK(store, completed, blocks, checked, now)
  BY DEF CheckerInv
<1>2. store' = [a \in Actors |-> IF Idle(store[a]) THEN ZeroActivity ELSE store[a]]
  BY DEF CleanUpIdleActors
<1>3. UNCHANGED <<buffer, hand, bad, scores, now, arrived, skipped, checked, completed, blocks>>
  BY DEF CleanUpIdleActors
<1>4. /\ store \in [Actors -> Activities] /\ store' \in [Actors -> Activities]
      /\ blocks \in SUBSET Blocks /\ now \in Nat
  BY <1>1, <1>2, ZeroFacts DEF TypesOK
<1>5. \A a \in Actors : \/ store'[a].progress = store[a].progress /\ SameMark(store'[a], store[a])
                        \/ store'[a] = ZeroActivity /\ ~store[a].blocked
  BY <1>2 DEF SameMark, Idle
<1>6. StateOK(store', completed, blocks, checked, now)
  BY <1>1, <1>4, <1>5, Forgotten
<1>7. TypesOK'
  BY <1>1, <1>3, <1>4 DEF TypesOK
<1> QED
  BY <1>3, <1>6, <1>7 DEF CheckerInv, EveryEntryOnce

LEMMA ClearIPStep ==
  ASSUME CheckerInv, NEW ip \in IPs, ClearIP(ip)
  PROVE  CheckerInv'
<1>1. TypesOK /\ StateOK(store, completed, blocks, checked, now)
  BY DEF CheckerInv
<1>2. /\ bad' = bad \ {ip} /\ scores' = [scores EXCEPT ![ip] = 0]
      /\ store' = [a \in Actors |-> IF a.ip = ip THEN ZeroActivity ELSE store[a]]
      /\ blocks' = {b \in blocks : b.actor.ip # ip}
      /\ UNCHANGED <<buffer, hand, now, arrived, skipped, checked, completed>>
  BY DEF ClearIP
<1>3. /\ store \in [Actors -> Activities] /\ store' \in [Actors -> Activities]
      /\ \A a \in Actors : a.ip # ip => store'[a] = store[a]
      /\ \A a \in Actors : store'[a] = store[a] \/ \A c \in ChainIds : store'[a].progress[c].step = 0
  BY <1>1, <1>2, ZeroFacts DEF TypesOK
<1>4. \A x \in blocks' : x \in blocks /\ x.actor.ip # ip /\ x.actor \in Actors
  BY <1>1, <1>2 DEF TypesOK, Blocks
<1>5. \A x \in blocks', z \in blocks : Overtaken(blocks, x, z) => Overtaken(blocks', x, z)
  BY <1>2, <1>4 DEF Overtaken
<1>6. TypesOK'
  <2>1. scores' \in [IPs -> Nat] /\ bad' \in SUBSET IPs /\ blocks' \in SUBSET Blocks
    BY <1>1, <1>2 DEF TypesOK
  <2> QED
    BY <1>1, <1>2, <1>3, <2>1 DEF TypesOK
<1>7. BlocksOK(store', blocks', now, Len(checked))
  <2> SUFFICES ASSUME NEW x \in blocks'
               PROVE  x.n <= Len(checked) /\ x.from <= now
                      /\ (x.until >= now => Held(store', blocks', now, x))
    BY DEF BlocksOK
  <2>1. /\ x \in blocks /\ store'[x.actor] = store[x.actor]
        /\ x.n <= Len(checked) /\ x.from <= now
    BY <1>1, <1>3, <1>4 DEF StateOK, BlocksOK
  <2>2. ASSUME x.until >= now PROVE Held(store', blocks', now, x)
    <3>1. Held(store, blocks, now, x)
      BY <1>1, <2>1, <2>2 DEF StateOK, BlocksOK
    <3>2. CASE store[x.actor].blocked /\ store[x.actor].until >= x.until
      BY <2>1, <3>2 DEF Held
    <3>3. ASSUME NEW z \in blocks, Overtaken(blocks, x, z),
                 z.until < now \/ (store[x.actor].blocked /\ store[x.actor].until >= z.until)
          PROVE  Held(store', blocks', now, x)
      <4> Overtaken(blocks', x, z) /\ z \in blocks'
        BY <1>5, <3>3 DEF Overtaken
      <4> QED
        BY <2>1, <3>3 DEF Held
    <3> QED
      BY <3>1, <3>2, <3>3 DEF Held
  <2> QED
    BY <2>1, <2>2
<1>8. TwiceOK(blocks')
  <2> SUFFICES ASSUME NEW x \in blocks', NEW y \in blocks',
                      x.actor = y.actor, x.n < y.n, y.from <= x.until
               PROVE  \E z \in blocks' : Overtaken(blocks', x, z) /\ z.n <= y.n /\ z.until < y.from
    BY DEF TwiceOK
  <2>1. PICK z \in blocks : Overtaken(blocks, x, z) /\ z.n <= y.n /\ z.until < y.from
    BY <1>1, <1>4 DEF StateOK, TwiceOK
  <2>2. Overtaken(blocks', x, z) /\ z \in blocks'
    BY <1>5, <2>1 DEF Overtaken
  <2> QED
    BY <2>1, <2>2
<1>9. StepsOK(store') /\ ProgressOK(store', checked)
  <2>1. \A c \in ChainIds : 0 < Len(Chains[c].steps) /\ ~(0 > 0)
    BY ChainFacts
  <2>2. StepsOK(store')
    BY <1>1, <1>3, <2>1 DEF StateOK, StepsOK
  <2>3. ProgressOK(store', checked)
    BY <1>1, <1>3, <2>1 DEF StateOK, ProgressOK
  <2> QED
    BY <2>2, <2>3
<1>10. StateOK(store', completed, blocks', checked, now)
  BY <1>1, <1>7, <1>8, <1>9 DEF StateOK
<1> QED
  BY <1>2, <1>6, <1>10 DEF CheckerInv, EveryEntryOnce

LEMMA TickStep == CheckerInv /\ Tick => CheckerInv'
<1> SUFFICES ASSUME CheckerInv, Tick PROVE CheckerInv'
  OBVIOUS
<1>1. TypesOK /\ StateOK(store, completed, blocks, checked, now)
  BY DEF CheckerInv
<1>2. now' = now + 1 /\ now \in Nat
      /\ UNCHANGED <<store, buffer, hand, bad, scores, arrived, skipped, checked, completed, blocks>>
  BY <1>1 DEF Tick, TypesOK
<1>3. TypesOK'
  BY <1>1, <1>2 DEF TypesOK
<1>4. BlocksOK(store, blocks, now + 1, Len(checked))
  <2> SUFFICES ASSUME NEW x \in blocks
               PROVE  x.n <= Len(checked) /\ x.from <= now + 1
                      /\ (x.until >= now + 1 => Held(store, blocks, now + 1, x))
    BY DEF BlocksOK
  <2>1. x.until \in Int /\ x.from \in Nat /\ \A z \in blocks : z.until \in Int
    BY <1>1 DEF TypesOK, Blocks
  <2>2. x.n <= Len(checked) /\ x.from <= now /\ (x.until >= now => Held(store, blocks, now, x))
    BY <1>1 DEF StateOK, BlocksOK
  <2>3. ASSUME x.until >= now + 1 PROVE Held(store, blocks, now + 1, x)
    <3>1. Held(store, blocks, now, x)
      BY <1>2, <2>1, <2>2, <2>3
    <3>2. \A z \in blocks : z.until < now => z.until < now + 1
      BY <1>2, <2>1
    <3> QED
      BY <3>1, <3>2 DEF Held
  <2> QED
    BY <1>2, <2>1, <2>2, <2>3
<1>5. StateOK(store', completed', blocks', checked', now')
  BY <1>1, <1>2, <1>4 DEF StateOK
<1> QED
  BY <1>2, <1>3, <1>5 DEF CheckerInv, EveryEntryOnce

LEMMA CheckerStep == CheckerInv /\ [CheckerNext]_checkerVars => CheckerInv'
<1> SUFFICES ASSUME CheckerInv, [CheckerNext]_checkerVars PROVE CheckerInv'
  OBVIOUS
<1>0. buffer \in Seq(Entries) /\ hand \in Seq(Entries)
  BY DEF CheckerInv, TypesOK
<1>1. ASSUME NEW e \in Entries, CheckChains(e) PROVE CheckerInv'
  BY <1>1, CheckChainsStep
<1>2. CASE WorkerDequeue
  BY <1>2, WorkerDequeueStep
<1>3. CASE WorkerFlush
  BY <1>0, <1>3, FlushStep DEF WorkerFlush
<1>4. CASE FlushEntryBuffer
  BY <1>0, <1>4, FlushStep DEF FlushEntryBuffer
<1>5. CASE CleanUpIdleActors
  BY <1>5, CleanUpStep
<1>6. ASSUME NEW ip \in IPs, ClearIP(ip) PROVE CheckerInv'
  BY <1>6, ClearIPStep
<1>7. CASE Tick
  BY <1>7, TickStep
<1>8. CASE UNCHANGED checkerVars
  BY <1>8 DEF checkerVars, CheckerInv, TypesOK, EveryEntryOnce, InOrder, StateOK, StepsOK,
              ProgressOK, CompletedOK, BlocksOK, TwiceOK, Held, Led
<1> QED
  BY <1>1, <1>2, <1>3, <1>4, <1>5, <1>6, <1>7, <1>8 DEF CheckerNext

(***************************************************************************)
(* Checker: the theorems                                                   *)
(***************************************************************************)

\* In every state of the checker the invariant holds: every place of an actor in a chain
\* and every completion is earned by entries of the log of checked ones, every block in
\* force is known to the activity store or overtaken, and no entry is lost.
THEOREM CheckerInvariance == CheckerSpec => []CheckerInv
<1>1. CheckerInit => CheckerInv
  BY CheckerInitHolds
<1>2. CheckerInv /\ [CheckerNext]_checkerVars => CheckerInv'
  BY CheckerStep
<1> QED
  BY <1>1, <1>2, PTL DEF CheckerSpec

\* CheckerTypeOK: activities and histories keep their types, no actor stays at the last
\* step of a chain, and AddToOooBuffer keeps the buffer in the order of the timestamps.
THEOREM ActivitiesAreTyped == CheckerSpec => []CheckerTypeOK
<1>1. CheckerInv => CheckerTypeOK
  <2> SUFFICES ASSUME CheckerInv PROVE CheckerTypeOK
    OBVIOUS
  <2>1. TypesOK /\ StepsOK(store)
    BY DEF CheckerInv, StateOK
  <2>2. ASSUME NEW a \in Actors
        PROVE  /\ store[a].last \in 0 .. MaxTs
               /\ store[a].skip \in {"none", "good", "blocked"}
               /\ store[a].progress \in [ChainIds -> StepStates]
    BY <2>1 DEF TypesOK, Activities
  <2>3. ASSUME NEW a \in Actors, NEW c \in ChainIds
        PROVE  store[a].progress[c].step \in 0 .. Len(Chains[c].steps) - 1
    <3>1. store[a].progress[c].step \in Nat /\ store[a].progress[c].step < Len(Chains[c].steps)
      BY <2>1, <2>2 DEF StepsOK, StepStates
    <3> QED
      BY <3>1, ChainFacts
  <2> QED
    BY <2>1, <2>2, <2>3 DEF CheckerTypeOK, TypesOK, InOrder
<1> QED
  BY <1>1, CheckerInvariance, PTL

\* EveryEntryOnce: whatever CheckChains, the worker's two critical sections and the
\* tailers' flushes do to the buffer in between, no entry is lost or processed twice.
THEOREM EntriesAreChecked == CheckerSpec => []EveryEntryOnce
<1>1. CheckerInv => EveryEntryOnce
  BY DEF CheckerInv
<1> QED
  BY <1>1, CheckerInvariance, PTL

\* CompletionsJustified: handleChainCompletion is reached only for an actor whose own
\* requests, in the order they were processed, match the steps and keep the delays.
THEOREM CompletionsAreEarned == CheckerSpec => []CompletionsJustified
<1>1. CheckerInv => CompletionsJustified
  <2> SUFFICES ASSUME CheckerInv PROVE CompletionsJustified
    OBVIOUS
  <2>1. \A x \in completed : Justified(checked, x)
    BY DEF CheckerInv, StateOK, CompletedOK
  <2> QED
    BY <2>1 DEF CompletionsJustified, Justified
<1> QED
  BY <1>1, CheckerInvariance, PTL

\* NotBlockedTwice: executeBlock does not come to an actor again while its block lasts,
\* but for the actor of a bare IP that a later and shorter block of the IP has marked.
THEOREM BlocksAreNotRepeated == CheckerSpec => []NotBlockedTwice
<1>1. CheckerInv => NotBlockedTwice
  <2> SUFFICES ASSUME CheckerInv PROVE NotBlockedTwice
    OBVIOUS
  <2>1. TwiceOK(blocks)
    BY DEF CheckerInv, StateOK
  <2> QED
    BY <2>1 DEF NotBlockedTwice, TwiceOK, Overtaken
<1> QED
  BY <1>1, CheckerInvariance, PTL
=============================================================================
