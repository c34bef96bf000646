---------------------------- MODULE BridgeStream ----------------------------
(***************************************************************************)
(* The JSONL file the MQL5 bridge appends to and the collector follows.    *)
(* A file is a sequence of cells: line n is Width cells n and a newline    *)
(* cell.  The bridge writes line after line; what a flush makes visible    *)
(* may end in the middle of one.  The file may be replaced, or removed and *)
(* created again, in which case it starts empty and the torn line is lost. *)
(* A failed write or the end of the terminal breaks the stream off: lines  *)
(* are lost, and what was visible of a torn line stays where it is.        *)
(***************************************************************************)
EXTENDS Naturals, Sequences

CONSTANTS Width,        \* cells of a line before its newline
          MaxLines,     \* bound on the lines ever written
          TornFlushes,  \* may a flush end inside a line?
          Breaks,       \* may lines be lost before they are visible?
          Rotations,    \* which rotations happen: "replace", "remove"
          MaxRotations  \* bound on rotations

ASSUME StreamAssumption ==
  /\ Width \in Nat \ {0} /\ MaxLines \in Nat /\ MaxRotations \in Nat
  /\ TornFlushes \in BOOLEAN /\ Breaks \in BOOLEAN
  /\ Rotations \subseteq {"replace", "remove"}

VARIABLES file,     \* the cells visible at the path
          present,  \* is there a file at the path?
          inode,    \* its identity
          next,     \* the line the bridge writes next
          torn,     \* how many cells of it are visible
          rotations \* rotations so far

streamVars == <<file, present, inode, next, torn, rotations>>

NL == 0
Lines == 1..MaxLines
Cells(n) == [i \in 1..(Width + 1) |-> IF i <= Width THEN n ELSE NL]

StreamTypeOK ==
  /\ file \in Seq(Lines \cup {NL})
  /\ present \in BOOLEAN
  /\ inode \in Nat
  /\ next \in 1..(MaxLines + 1)
  /\ torn \in 0..Width
  /\ rotations \in 0..MaxRotations

StreamInit ==
  /\ file = <<>> /\ present \in BOOLEAN /\ inode = 0
  /\ next = 1 /\ torn = 0 /\ rotations = 0

\* A flush shows the rest of the line being written.
FlushLine ==
  /\ present /\ next <= MaxLines
  /\ file' = file \o SubSeq(Cells(next), torn + 1, Width + 1)
  /\ next' = next + 1 /\ torn' = 0
  /\ UNCHANGED <<present, inode, rotations>>

\* A flush shows one more cell of it, short of the newline.
FlushPart ==
  /\ TornFlushes /\ present /\ next <= MaxLines /\ torn < Width
  /\ file' = Append(file, next)
  /\ torn' = torn + 1
  /\ UNCHANGED <<present, inode, next, rotations>>

\* The rest of the line being written is lost, with any lines after it.  The last
\* cell of it that comes may come in this step.
BreakOff ==
  /\ Breaks /\ next <= MaxLines
  /\ \/ file' = file
     \/ TornFlushes /\ present /\ torn < Width /\ file' = Append(file, next)
  /\ next' \in (next + 1)..(MaxLines + 1) /\ torn' = 0
  /\ UNCHANGED <<present, inode, rotations>>

\* The bridge starts over in an empty file; a torn line is gone with the old one.
StartOver ==
  /\ file' = <<>> /\ torn' = 0
  /\ next' = IF torn = 0 THEN next ELSE next + 1
  /\ rotations' = rotations + 1

\* The file is renamed away and a new one is at the path at once.
Replace ==
  /\ "replace" \in Rotations /\ rotations < MaxRotations /\ present
  /\ StartOver
  /\ inode' = inode + 1
  /\ UNCHANGED present

Unlink ==
  /\ "remove" \in Rotations /\ rotations < MaxRotations /\ present
  /\ StartOver
  /\ present' = FALSE
  /\ UNCHANGED inode

\* A new file at the path; the file system may reuse the old inode number.
Recreate ==
  /\ ~present
  /\ present' = TRUE
  /\ inode' \in {inode, inode + 1}
  /\ UNCHANGED <<file, next, torn, rotations>>

StreamNext ==
  FlushLine \/ FlushPart \/ BreakOff \/ Replace \/ Unlink \/ Recreate

StreamSpec == StreamInit /\ [][StreamNext]_streamVars
=============================================================================
