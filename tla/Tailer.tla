------------------------------- MODULE Tailer -------------------------------
(***************************************************************************)
(* LiveLogTailer and Tailer (internal/processor/modes.go) following one    *)
(* log file, while the web server writes it and logrotate renames or       *)
(* truncates it.                                                           *)
(*                                                                         *)
(* A file is an inode with a sequence of pieces; a piece is what one write *)
(* of the server appends, a whole line or one half of a line, and only a   *)
(* piece that ends a line has a line ending.  Pieces are numbered in the   *)
(* order they are written, and count as equally long.                      *)
(***************************************************************************)
EXTENDS Naturals, Sequences, FiniteSets

CONSTANTS
  Rotations,     \* what logrotate does: "rename", "truncate"
  TooLong,       \* pieces that exceed MaxLogLineSize
  MaxPieces,     \* bound of the model: writes of the server
  MaxRotations,  \* bound of the model: rotations
  MaxErrors      \* bound of the model: failed opens, reads and looks at the path

ASSUME TailerAssumption ==
  /\ Rotations \subseteq {"rename", "truncate"}
  /\ MaxPieces \in Nat /\ MaxRotations \in Nat /\ MaxErrors \in Nat

VARIABLES
  files,      \* external: content of every inode
  path,       \* external: the inode at the log path, 0 when there is none
  out,        \* external: the inode the server has open
  partial,    \* external: the server is in the middle of a line
  written,    \* pieces written so far
  rotations,  \* rotations so far, for the bound
  errors,     \* failed opens, reads and looks at the path so far, for the bound
  exitOnEOF,  \* --exit-on-eof
  pc,         \* where LiveLogTailer is
  handle,     \* the inode the tailer has open
  pos,        \* pieces of it that were read
  firstRun,   \* firstRun
  processed,  \* history: the pieces of the lines passed to processLogLine
  excused,    \* history: pieces that the tailer cannot be expected to see
  blind,      \* history: pieces written where the offset of the tailer is past the end
  reread      \* history: an error made the tailer start the file again

fileVars == <<files, path, out, partial, written, rotations, exitOnEOF>>
tailVars == <<pc, handle, pos, firstRun, errors, processed, reread>>
vars == <<fileVars, tailVars, excused, blind>>

Inodes == 1 .. MaxRotations + 1
Piece == [n : 1 .. MaxPieces, eol : BOOLEAN]
Numbers(s) == {s[i].n : i \in 1 .. Len(s)}

TailerInit ==
  /\ files = [i \in Inodes |-> <<>>]
  /\ path \in {0, 1}
  /\ out = 1
  /\ partial = FALSE
  /\ written = 0
  /\ rotations = 0
  /\ errors = 0
  /\ exitOnEOF \in BOOLEAN
  /\ pc = "open"
  /\ handle = 0
  /\ pos = 0
  /\ firstRun = TRUE
  /\ processed = <<>>
  /\ excused = {}
  /\ blind = {}
  /\ reread = FALSE

(***************************************************************************)
(* The server and logrotate (external)                                     *)
(***************************************************************************)

\* A piece that is written to a file no longer at the path, or between the end of
\* file that ReadLine saw and its look at the path, is excused.
Write(eol) ==
  /\ written < MaxPieces
  /\ path = 0 => rotations > 0
  /\ written' = written + 1
  /\ partial' = ~eol
  /\ files' = [files EXCEPT ![out] = Append(@, [n |-> written + 1, eol |-> eol])]
  /\ excused' = IF out # path \/ pc = "check" THEN excused \cup {written + 1} ELSE excused
  /\ blind' = IF handle = out /\ pos > Len(files[out]) THEN blind \cup {written + 1} ELSE blind
  /\ UNCHANGED <<path, out, rotations, exitOnEOF, tailVars>>

\* A file that the tailer has not opened by the time it is renamed is out of reach.
Rename ==
  /\ "rename" \in Rotations
  /\ rotations < MaxRotations
  /\ path # 0
  /\ path' = 0
  /\ rotations' = rotations + 1
  /\ excused' = IF handle # path THEN excused \cup Numbers(files[path]) ELSE excused
  /\ UNCHANGED <<files, out, partial, written, exitOnEOF, tailVars, blind>>

Create ==
  /\ path = 0
  /\ path' = rotations + 1
  /\ UNCHANGED <<files, out, partial, written, rotations, exitOnEOF, tailVars, excused, blind>>

\* The server opens the new file between two lines.
Reopen ==
  /\ path # 0
  /\ out # path
  /\ ~partial
  /\ out' = path
  /\ UNCHANGED <<files, path, partial, written, rotations, exitOnEOF, tailVars, excused, blind>>

\* copytruncate; what the tailer has not read is lost to it.
Truncate ==
  /\ "truncate" \in Rotations
  /\ rotations < MaxRotations
  /\ path # 0
  /\ files' = [files EXCEPT ![path] = <<>>]
  /\ rotations' = rotations + 1
  /\ excused' = excused \cup Numbers(files[path])
  /\ UNCHANGED <<path, out, partial, written, exitOnEOF, tailVars, blind>>

(***************************************************************************)
(* The tailer                                                              *)
(***************************************************************************)

\* Faulty variant: the old content is skipped whenever the file is opened.
OpenAtEnd ==
  /\ pc = "open"
  /\ path # 0
  /\ handle' = path
  /\ pos' = Len(files[path])
  /\ excused' = IF firstRun /\ ~exitOnEOF THEN excused \cup Numbers(files[path]) ELSE excused
  /\ firstRun' = FALSE
  /\ pc' = "read"
  /\ UNCHANGED <<fileVars, errors, processed, reread, blind>>

\* NewTailer: only the first attempt to open the file skips its old content, and
\* none does with --exit-on-eof.
Open ==
  /\ pc = "open"
  /\ path # 0
  /\ handle' = path
  /\ LET seekToEnd == firstRun /\ ~exitOnEOF
     IN  IF seekToEnd
         THEN pos' = Len(files[path]) /\ excused' = excused \cup Numbers(files[path])
         ELSE pos' = 0 /\ UNCHANGED excused
  /\ firstRun' = FALSE
  /\ pc' = "read"
  /\ UNCHANGED <<fileVars, errors, processed, reread, blind>>

\* The attempt fails, for want of a file or by another error, and is repeated after
\* ErrorRetryDelay.
OpenFails ==
  /\ pc = "open"
  /\ \/ path = 0 /\ UNCHANGED errors
     \/ path # 0 /\ errors < MaxErrors /\ errors' = errors + 1
  /\ firstRun' = FALSE
  /\ UNCHANGED <<fileVars, pc, handle, pos, processed, reread, excused, blind>>

\* What there is left to read.
Rest == SubSeq(files[handle], pos + 1, Len(files[handle]))

\* The next m pieces go up to the next line ending, or to the end of the file.
NextLine(m) ==
  /\ Rest[m].eol \/ m = Len(Rest)
  /\ \A k \in 1 .. m - 1 : ~Rest[k].eol

\* ReadLine has something: a line, or what there is of it at the end of the file.
\* A line that is too long is dropped.
ReadLine ==
  /\ pc = "read"
  /\ \E m \in 1 .. Len(Rest) :
       LET line == SubSeq(Rest, 1, m) IN
       /\ NextLine(m)
       /\ pos' = pos + m
       /\ IF Numbers(line) \cap TooLong = {}
          THEN processed' = processed \o line /\ UNCHANGED excused
          ELSE excused' = excused \cup Numbers(line) /\ UNCHANGED processed
  /\ UNCHANGED <<fileVars, pc, handle, firstRun, errors, reread, blind>>

\* ReadLine is at the end of the file ...
EndOfFile ==
  /\ pc = "read"
  /\ Rest = <<>>
  /\ pc' = "check"
  /\ UNCHANGED <<fileVars, handle, pos, firstRun, errors, processed, reread, excused, blind>>

\* Faulty variants: only the sizes are compared; every end of file is a rotation.
RotatedBySize == FALSE
RotatedAlways == TRUE

\* checkForRotation: no file at the path or another inode there.  The comparison of
\* sizes that follows is one of the same inode with itself.
CheckForRotation == path # handle

\* ... and looks for a rotation: ErrFileRotated reopens, ErrEOF exits or sleeps and
\* reads on.
Check ==
  /\ pc = "check"
  /\ IF CheckForRotation
     THEN pc' = "open" /\ handle' = 0 /\ pos' = 0
     ELSE pc' = (IF exitOnEOF THEN "stopped" ELSE "read") /\ UNCHANGED <<handle, pos>>
  /\ UNCHANGED <<fileVars, firstRun, errors, processed, reread, excused, blind>>

\* The look at the handle or at the path fails although the file is still there: a
\* rotation is assumed, and the file is read again from its beginning.
CheckFails ==
  /\ pc = "check"
  /\ ~CheckForRotation
  /\ errors < MaxErrors
  /\ errors' = errors + 1
  /\ pc' = "open"
  /\ handle' = 0
  /\ pos' = 0
  /\ reread' = TRUE
  /\ UNCHANGED <<fileVars, firstRun, processed, excused, blind>>

\* Any other error of a read closes the file and opens it again, at its beginning.
ReadFails ==
  /\ pc = "read"
  /\ errors < MaxErrors
  /\ errors' = errors + 1
  /\ pc' = "open"
  /\ handle' = 0
  /\ pos' = 0
  /\ reread' = TRUE
  /\ excused' = IF handle # path
                THEN excused \cup Numbers(Rest) ELSE excused
  /\ UNCHANGED <<fileVars, firstRun, processed, blind>>

\* A signal is noticed between two lines and while waiting to reopen.
Shutdown ==
  /\ pc \in {"read", "open"}
  /\ pc' = "stopped"
  /\ UNCHANGED <<fileVars, handle, pos, firstRun, errors, processed, reread, excused, blind>>

Poll == Open \/ ReadLine \/ EndOfFile \/ Check

TailerNext ==
  \/ \E eol \in BOOLEAN : Write(eol)
  \/ Rename \/ Create \/ Reopen \/ Truncate
  \/ Poll
  \/ OpenFails \/ CheckFails \/ ReadFails
  \/ Shutdown

TailerSpec == TailerInit /\ [][TailerNext]_vars

\* The tailer's goroutine runs, and its sleeps end.
TailerFairSpec == TailerSpec /\ WF_vars(Poll)

(***************************************************************************)
(* Properties                                                              *)
(***************************************************************************)

\* Every variable holds a value of its type; the tailer has a file open when it reads,
\* and has read no more than was written.
TailerTypeOK ==
  /\ \A i \in Inodes : files[i] \in Seq(Piece)
  /\ path \in Inodes \cup {0} /\ out \in Inodes /\ handle \in Inodes \cup {0}
  /\ pc \in {"open", "read", "check", "stopped"}
  /\ handle = 0 => pc \in {"open", "stopped"}
  /\ pos \in 0 .. written

\* LiveLogTailer: across rotations no line is processed twice or before an older one,
\* unless an error made the tailer start the file again.
InOrderOnce ==
  ~reread => \A i, j \in 1 .. Len(processed) : i < j => processed[i].n < processed[j].n

\* LiveLogTailer: when a line is processed, every older one was, except those that were
\* in the file before the first open, were too long, were written where the tailer no
\* longer looks (see Write and Rename), or fell below its offset after a truncation.
NoGaps ==
  ~reread => \A p \in Numbers(processed) :
               1 .. p \subseteq Numbers(processed) \cup excused \cup blind

\* LiveLogTailer: with the same exceptions every line that is written is processed,
\* whatever rotations follow, until the tailer stops.
LinesArrive ==
  \A p \in 1 .. MaxPieces :
    p <= written ~> p \in Numbers(processed) \cup excused \cup blind \/ pc = "stopped"
=============================================================================
