---------------------------- MODULE BridgeProofs -----------------------------
(***************************************************************************)
(* What the bridge writes, for every width of a line, every period and     *)
(* every number of faults: the variables keep their types, an outage is    *)
(* reported in time and once, what is not flushed is bounded, what was     *)
(* counted as written can be read, and what a reader sees of the file is   *)
(* the stream of BridgeStream.tla.                                         *)
(***************************************************************************)
EXTENDS BridgeProperties, FiniteSetTheorems, TLAPS

Steps == {"line", "again", "flush", "close"}

\* What a handler may have left to do, with an error or without: a step "again" is the
\* first, has its line after it and follows an error; "close" is the last.
Fits(p, error) ==
  /\ p \in Seq(Steps)
  /\ \A i \in 1..Len(p) :
       /\ p[i] = "again" => i = 1 /\ Len(p) >= 2 /\ p[2] = "line" /\ error
       /\ p[i] = "close" => i = Len(p)

\* A line is counted as written once it has reached the file.
TypeInv ==
  /\ TypeOK
  /\ Fits(pending, lastError) /\ (~up => pending = <<>>)
  /\ writes + first <= emitted + 1

-----------------------------------------------------------------------------
(* Outages *)

\* As long as an outage is not reported, no heartbeat has come since it began.
EpisodeInv ==
  /\ EpisodesAreReported
  /\ ~reported => outage <= timer % HeartbeatSec

-----------------------------------------------------------------------------
(* What is not flushed *)

Newlines(file, from) == {i \in (from + 1)..Len(file) : file[i] = NL}

HasFlush(p) == \E i \in 1..Len(p) : p[i] = "flush"

UnflushedInv ==
  ~lastError => HasFlush(pending) \/ Cardinality(Newlines(disk, shown)) <= sinceFlush

-----------------------------------------------------------------------------
(* What is readable *)

\* The file ends inside a line.
Torn == IF Len(disk) > 0 /\ disk[Len(disk)] # NL THEN 1 ELSE 0

WrittenInv ==
  /\ \A i \in 1..Len(disk) : disk[i] <= emitted
  /\ rotations = 0 =>
       writes + Torn <= Cardinality(Readable \cap first..emitted) + Cardinality(Unfinished)

-----------------------------------------------------------------------------
(* What is left to do *)

LEMMA DoneSteps ==
  ASSUME NEW p \in Seq(Steps), p # <<>>
  PROVE  /\ Tail(p) \in Seq(Steps) /\ Len(Tail(p)) = Len(p) - 1
         /\ Len(p) \in Nat \ {0} /\ Head(p) = p[1] /\ Head(p) \in Steps
         /\ \A i \in 1..Len(Tail(p)) : Tail(p)[i] = p[i + 1]
OBVIOUS

LEMMA StepsBefore ==
  ASSUME NEW p \in Seq(Steps), NEW x \in Steps
  PROVE  /\ <<x>> \o p \in Seq(Steps) /\ Len(<<x>> \o p) = Len(p) + 1 /\ Len(p) \in Nat
         /\ (<<x>> \o p)[1] = x
         /\ \A i \in 2..(Len(p) + 1) : (<<x>> \o p)[i] = p[i - 1]
OBVIOUS

\* The first step is done.
LEMMA FitsAfter ==
  ASSUME NEW p, NEW error, Fits(p, error), p # <<>>
  PROVE  /\ \A e : Fits(Tail(p), e)
         /\ HasFlush(p) /\ Head(p) # "flush" => HasFlush(Tail(p))
         /\ Head(p) = "close" => Tail(p) = <<>>
<1> DEFINE t == Tail(p)
           n == Len(p)
<1>1. /\ t \in Seq(Steps) /\ Len(t) = n - 1 /\ n \in Nat \ {0} /\ Head(p) = p[1]
      /\ \A i \in 1..Len(t) : t[i] = p[i + 1]
      /\ Len(t) = 0 => t = <<>>
  BY DoneSteps DEF Fits
<1>2. \A i \in 1..n : (p[i] = "again" => i = 1) /\ (p[i] = "close" => i = n)
  BY DEF Fits
<1> HIDE DEF t, n
<1>3. ASSUME NEW i \in 1..Len(t)
      PROVE  t[i] # "again" /\ (t[i] = "close" => i = Len(t))
  <2>1. i + 1 \in 1..n /\ i + 1 # 1 /\ t[i] = p[i + 1]
    BY <1>1
  <2>2. i + 1 = n => i = Len(t)
    BY <1>1
  <2> QED BY <1>2, <2>1, <2>2
<1>4. ASSUME NEW j \in 1..n, p[j] = "flush", Head(p) # "flush"
      PROVE  HasFlush(t)
  <2>1. j # 1
    BY <1>1, <1>4
  <2>2. j - 1 \in 1..Len(t) /\ j - 1 + 1 = j
    BY <1>1, <2>1
  <2>3. t[j - 1] = p[j]
    BY <1>1, <2>2
  <2> QED BY <1>4, <2>2, <2>3 DEF HasFlush
<1>5. ASSUME Head(p) = "close"
      PROVE  t = <<>>
  <2>1. n = 1
    BY <1>1, <1>2, <1>5
  <2> QED BY <1>1, <2>1
<1>6. \A e : Fits(t, e)
  BY <1>1, <1>3 DEF Fits
<1> QED BY <1>4, <1>5, <1>6 DEF t, n, HasFlush

\* The first step is replaced by a flush.
LEMMA FitsFlush ==
  ASSUME NEW p, NEW error, Fits(p, error), p # <<>>
  PROVE  /\ \A e : Fits(<<"flush">> \o Tail(p), e)
         /\ HasFlush(<<"flush">> \o Tail(p))
<1> DEFINE t == Tail(p)
           q == <<"flush">> \o t
<1>1. t \in Seq(Steps) /\ \A i \in 1..Len(t) : t[i] # "again" /\ (t[i] = "close" => i = Len(t))
  <2>1. Fits(t, FALSE)
    BY FitsAfter
  <2> QED BY <2>1 DEF Fits
<1>2. /\ q \in Seq(Steps) /\ Len(q) = Len(t) + 1 /\ Len(t) \in Nat /\ q[1] = "flush"
      /\ \A i \in 2..(Len(t) + 1) : q[i] = t[i - 1]
  <2> HIDE DEF t
  <2> QED BY <1>1, StepsBefore DEF Steps
<1> HIDE DEF t, q
<1>3. ASSUME NEW i \in 1..Len(q)
      PROVE  q[i] # "again" /\ (q[i] = "close" => i = Len(q))
  <2>1. CASE i = 1
    BY <1>2, <2>1
  <2>2. CASE i # 1
    <3>1. i - 1 \in 1..Len(t) /\ q[i] = t[i - 1]
      BY <1>2, <2>2
    <3> QED BY <1>1, <1>2, <3>1
  <2> QED BY <2>1, <2>2
<1>4. HasFlush(q)
  BY <1>2 DEF HasFlush
<1>5. \A e : Fits(q, e)
  BY <1>2, <1>3 DEF Fits
<1> QED BY <1>4, <1>5 DEF q, t

\* The first step, a line, has to wait for a second attempt.
LEMMA FitsAgain ==
  ASSUME NEW p, NEW error, Fits(p, error), p # <<>>, Head(p) = "line"
  PROVE  Fits(<<"again">> \o p, TRUE)
<1> DEFINE q == <<"again">> \o p
<1>1. /\ p \in Seq(Steps) /\ Len(p) \in Nat \ {0} /\ p[1] = "line"
      /\ \A i \in 1..Len(p) : (p[i] = "again" => i = 1) /\ (p[i] = "close" => i = Len(p))
  BY DoneSteps DEF Fits
<1>2. /\ q \in Seq(Steps) /\ Len(q) = Len(p) + 1 /\ q[1] = "again"
      /\ \A i \in 2..(Len(p) + 1) : q[i] = p[i - 1]
  BY <1>1, StepsBefore DEF Steps
<1> HIDE DEF q
<1>3. q[2] = "line" /\ Len(q) >= 2
  BY <1>1, <1>2
<1>4. ASSUME NEW i \in 1..Len(q)
      PROVE  (q[i] = "again" => i = 1) /\ (q[i] = "close" => i = Len(q))
  <2>1. CASE i = 1
    BY <1>2, <2>1
  <2>2. CASE i # 1
    <3>1. i - 1 \in 1..Len(p) /\ q[i] = p[i - 1]
      BY <1>1, <1>2, <2>2
    <3> QED BY <1>1, <1>2, <3>1
  <2> QED BY <2>1, <2>2
<1>5. Fits(q, TRUE)
  BY <1>2, <1>3, <1>4 DEF Fits
<1> QED BY <1>5 DEF q

\* The second attempt fails too, and the line is given up with it.
LEMMA FitsGivenUp ==
  ASSUME NEW p, NEW error, Fits(p, error), p # <<>>, Head(p) = "again"
  PROVE  Tail(p) # <<>> /\ Head(Tail(p)) = "line" /\ \A e : Fits(Tail(Tail(p)), e)
<1>1. /\ Tail(p) \in Seq(Steps) /\ Len(Tail(p)) = Len(p) - 1 /\ Len(p) \in Nat
      /\ Len(p) >= 2 /\ Tail(p)[1] = "line"
  BY DoneSteps DEF Fits
<1>2. Tail(p) # <<>> /\ Head(Tail(p)) = "line"
  <2>1. \A t \in Seq(Steps) : Len(t) >= 1 => t # <<>> /\ Head(t) = t[1]
    OBVIOUS
  <2>2. Len(Tail(p)) >= 1
    BY <1>1
  <2> QED BY <1>1, <2>1, <2>2
<1>3. Fits(Tail(p), FALSE)
  BY FitsAfter
<1> QED BY <1>2, <1>3, FitsAfter

\* A handler starts with so many lines, and a flush or not.
LEMMA Repeats ==
  ASSUME NEW n \in Nat
  PROVE  /\ \A e : Fits(Repeat("line", n), e) /\ Fits(Repeat("line", n) \o <<"flush">>, e)
<1> DEFINE p == Repeat("line", n)
           q == p \o <<"flush">>
<1>1. p \in Seq(Steps) /\ Len(p) = n /\ \A i \in 1..n : p[i] = "line"
  BY DEF Repeat, Steps
<1> HIDE DEF p
<1>2. /\ q \in Seq(Steps) /\ Len(q) = n + 1
      /\ \A i \in 1..(n + 1) : q[i] \in {"line", "flush"}
  BY <1>1 DEF Steps
<1> HIDE DEF q
<1>3. \A e : Fits(p, e) /\ Fits(q, e)
  BY <1>1, <1>2 DEF Fits
<1> QED BY <1>3 DEF p, q

-----------------------------------------------------------------------------
(* The cells of a line *)

LEMMA CellsOfLine ==
  ASSUME NEW n \in Nat, NEW cells \in 0..(Width + 1)
  PROVE  LET part == SubSeq(Cells(n), 1, cells) IN
         /\ part \in Seq({n, NL}) /\ Len(part) = cells
         /\ \A i \in 1..cells : part[i] = IF i <= Width THEN n ELSE NL
<1>1. Width \in Nat
  BY ExporterAssumption
<1> QED BY <1>1 DEF Cells, NL

\* The file after a line, or a part of it, is appended.
LEMMA AppendedFile ==
  ASSUME disk \in Seq(0..MaxLines), NEW n \in 1..MaxLines, NEW cells \in 0..(Width + 1),
         disk' = disk \o SubSeq(Cells(n), 1, cells)
  PROVE  /\ disk' \in Seq(0..MaxLines) /\ Len(disk') = Len(disk) + cells
         /\ Len(disk) \in Nat /\ Width \in Nat \ {0} /\ cells \in Nat
         /\ \A i \in 1..Len(disk) : disk'[i] = disk[i]
         /\ \A i \in 1..cells : disk'[Len(disk) + i] = IF i <= Width THEN n ELSE NL
<1>1. /\ SubSeq(Cells(n), 1, cells) \in Seq({n, NL})
      /\ Len(SubSeq(Cells(n), 1, cells)) = cells
      /\ \A i \in 1..cells : SubSeq(Cells(n), 1, cells)[i] = IF i <= Width THEN n ELSE NL
  BY CellsOfLine
<1>2. Width \in Nat \ {0} /\ MaxLines \in Nat
  BY ExporterAssumption
<1>3. SubSeq(Cells(n), 1, cells) \in Seq(0..MaxLines)
  <2> DEFINE part == SubSeq(Cells(n), 1, cells)
  <2>1. \A i \in 1..cells : part[i] \in 0..MaxLines
    <3> HIDE DEF part
    <3>1. n \in 0..MaxLines /\ NL \in 0..MaxLines
      BY <1>2 DEF NL
    <3> QED BY <1>1, <3>1 DEF part
  <2>2. \A s \in Seq({n, NL}) : s = [i \in 1..Len(s) |-> s[i]]
    OBVIOUS
  <2> HIDE DEF part
  <2>3. part = [i \in 1..cells |-> part[i]]
    BY <1>1, <2>2 DEF part
  <2>4. [i \in 1..cells |-> part[i]] \in Seq(0..MaxLines)
    BY <2>1
  <2> QED BY <2>3, <2>4 DEF part
<1> HIDE DEF Cells
<1>4. \A part \in Seq(0..MaxLines) :
        /\ disk \o part \in Seq(0..MaxLines) /\ Len(disk \o part) = Len(disk) + Len(part)
        /\ \A i \in 1..Len(disk) : (disk \o part)[i] = disk[i]
        /\ \A i \in 1..Len(part) : (disk \o part)[Len(disk) + i] = part[i]
  OBVIOUS
<1> DEFINE part == SubSeq(Cells(n), 1, cells)
<1>5. /\ part \in Seq(0..MaxLines) /\ Len(part) = cells
      /\ \A i \in 1..cells : part[i] = IF i <= Width THEN n ELSE NL
      /\ disk' = disk \o part
  BY <1>1, <1>3
<1> HIDE DEF part
<1>6. Len(disk) \in Nat /\ cells \in Nat
  BY <1>2
<1>7. /\ disk' \in Seq(0..MaxLines) /\ Len(disk') = Len(disk) + cells
      /\ \A i \in 1..Len(disk) : disk'[i] = disk[i]
      /\ \A i \in 1..cells : disk'[Len(disk) + i] = part[i]
  <2>1. /\ disk \o part \in Seq(0..MaxLines) /\ Len(disk \o part) = Len(disk) + Len(part)
        /\ \A i \in 1..Len(disk) : (disk \o part)[i] = disk[i]
        /\ \A i \in 1..Len(part) : (disk \o part)[Len(disk) + i] = part[i]
    BY <1>4, <1>5
  <2>2. disk' = disk \o part /\ Len(part) = cells
    BY <1>5
  <2> QED BY <2>1, <2>2, Zenon
<1>8. \A i \in 1..cells : disk'[Len(disk) + i] = IF i <= Width THEN n ELSE NL
  BY <1>5, <1>7
<1>9. Width \in Nat \ {0} /\ Len(disk) \in Nat /\ cells \in Nat
  BY <1>2, <1>6
<1> QED BY <1>7, <1>8, <1>9, Zenon

-----------------------------------------------------------------------------
(* Types *)

LEMMA ConstantsAreTyped ==
  /\ Width \in Nat \ {0} /\ MaxLines \in Nat /\ HeartbeatSec \in Nat \ {0}
  /\ PositionUpdateSec \in Nat \ {0} /\ SnapshotSec \in Nat \ {0} /\ FlushLines \in Nat \ {0}
  /\ MaxReopenAttempts \in Nat /\ MaxFaults \in Nat /\ MaxRotations \in Nat
  /\ Cycle \in Nat \ {0}
<1>1. /\ Width \in Nat \ {0} /\ MaxLines \in Nat /\ HeartbeatSec \in Nat \ {0}
      /\ PositionUpdateSec \in Nat \ {0} /\ SnapshotSec \in Nat \ {0} /\ FlushLines \in Nat \ {0}
      /\ MaxReopenAttempts \in Nat /\ MaxFaults \in Nat /\ MaxRotations \in Nat
  BY ExporterAssumption
<1>2. \A a, b \in Nat \ {0} : a * b \in Nat \ {0}
  OBVIOUS
<1>3. Cycle \in Nat \ {0}
  <2>1. HeartbeatSec * PositionUpdateSec \in Nat \ {0}
    BY <1>1, <1>2
  <2> QED BY <1>1, <1>2, <2>1 DEF Cycle
<1> QED BY <1>1, <1>3

LEMMA TypesAtStart == Init => TypeInv
<1> SUFFICES ASSUME Init PROVE TypeInv
  OBVIOUS
<1>1. disk = <<>> /\ Len(disk) = 0 /\ pending = <<>> /\ Len(pending) = 0
  BY DEF Init
<1>2. TypeOK
  <2>1. disk \in Seq(0..MaxLines) /\ pending \in Seq(Steps) /\ first \in 1..(MaxLines + 1)
    BY <1>1, ConstantsAreTyped DEF Init
  <2>2. /\ shown \in 0..Len(disk) /\ emitted \in 0..MaxLines /\ inode \in Nat
        /\ attempts \in 0..MaxReopenAttempts /\ sinceFlush \in 0..(FlushLines - 1)
        /\ writes \in 0..MaxLines /\ timer \in 0..(Cycle - 1) /\ outage \in 0..HeartbeatSec
        /\ faults \in 0..MaxFaults /\ rotations \in 0..MaxRotations
    BY <1>1, ConstantsAreTyped DEF Init
  <2> QED BY <2>1, <2>2 DEF Init, TypeOK, Steps
<1> QED BY <1>1, <1>2, ConstantsAreTyped DEF Init, TypeInv, Fits

\* A file operation fails at most so often, and the file goes away at most so often.
LEMMA FaultsAreTyped ==
  ASSUME TypeInv
  PROVE  /\ Fault => faults' \in 0..MaxFaults
         /\ \A error : OpenAppendFails(error) => faults' \in 0..MaxFaults
         /\ MoveAway => /\ disk' \in Seq(0..MaxLines) /\ shown' \in 0..Len(disk')
                        /\ present' \in BOOLEAN /\ inode' \in Nat /\ emitted' = emitted
                        /\ rotations' \in 0..MaxRotations
         /\ OpenAppend => /\ open' = TRUE /\ present' = TRUE /\ inode' \in Nat
                          /\ UNCHANGED <<disk, shown, emitted, rotations, faults>>
<1>0. faults \in 0..MaxFaults /\ rotations \in 0..MaxRotations /\ inode \in Nat
  BY DEF TypeInv, TypeOK
<1>1. Fault => faults' \in 0..MaxFaults
  BY <1>0, ConstantsAreTyped DEF Fault
<1>2. MoveAway => /\ disk' \in Seq(0..MaxLines) /\ shown' \in 0..Len(disk')
                  /\ present' \in BOOLEAN /\ inode' \in Nat /\ emitted' = emitted
                  /\ rotations' \in 0..MaxRotations
  <2> SUFFICES ASSUME MoveAway
               PROVE  /\ disk' \in Seq(0..MaxLines) /\ shown' \in 0..Len(disk')
                      /\ present' \in BOOLEAN /\ inode' \in Nat /\ emitted' = emitted
                      /\ rotations' \in 0..MaxRotations
    OBVIOUS
  <2>1. /\ disk' = <<>> /\ Len(disk') = 0 /\ shown' = 0 /\ present' = FALSE
        /\ inode' = inode /\ emitted' = emitted
    BY DEF MoveAway
  <2>2. rotations' \in 0..MaxRotations
    BY <1>0, ConstantsAreTyped DEF MoveAway
  <2>3. disk' \in Seq(0..MaxLines) /\ shown' \in 0..Len(disk')
    BY <2>1
  <2> QED BY <1>0, <2>1, <2>2, <2>3
<1>3. OpenAppend => inode' \in Nat
  BY <1>0 DEF OpenAppend
<1> QED BY <1>0, <1>1, <1>2, <1>3 DEF OpenAppendFails, OpenAppend

LEMMA ReopenKeepsTypes ==
  ASSUME TypeInv, Reopen
  PROVE  TypeInv'
<1>0. /\ TypeOK /\ Fits(pending, lastError) /\ up /\ pending # <<>> /\ Head(pending) = "line"
      /\ writes + first <= emitted + 1 /\ attempts \in 0..MaxReopenAttempts
      /\ UNCHANGED <<up, sinceFlush, writes, timer, reported, outage, first>>
  BY DEF TypeInv, TypeOK, Reopen, Doing, healthVars, outageVars
<1>1. attempts < MaxReopenAttempts => attempts + 1 \in 0..MaxReopenAttempts
  BY <1>0, ConstantsAreTyped
<1>2. \A e : Fits(Tail(pending), e)
  BY <1>0, FitsAfter
<1>3. CASE attempts >= MaxReopenAttempts /\ Done
           /\ UNCHANGED <<fileVars, exporterVars, lastError, faults>>
  BY <1>0, <1>2, <1>3 DEF TypeInv, TypeOK, Fits, Done, Steps, fileVars, exporterVars
<1>4. CASE attempts < MaxReopenAttempts /\ OpenAppend
           /\ attempts' = attempts + 1 /\ UNCHANGED <<pending, renamed, lastError>>
  BY <1>0, <1>1, <1>4, FaultsAreTyped DEF TypeInv, TypeOK
<1>5. CASE /\ attempts < MaxReopenAttempts /\ OpenAppendFails(lastError)
           /\ lastError' = TRUE /\ UNCHANGED open
           /\ ~renamed /\ MoveAway
           /\ renamed' = TRUE /\ attempts' = 0 /\ Before("again")
  <2>1. Fits(pending', TRUE)
    BY <1>0, <1>5, FitsAgain DEF Before
  <2>2. attempts' \in 0..MaxReopenAttempts /\ renamed' \in BOOLEAN /\ lastError' \in BOOLEAN
    BY <1>5, ConstantsAreTyped
  <2> QED BY <1>0, <1>5, <2>1, <2>2, FaultsAreTyped DEF TypeInv, TypeOK, Fits, Steps
<1>6. CASE /\ attempts < MaxReopenAttempts /\ OpenAppendFails(lastError)
           /\ lastError' = TRUE /\ UNCHANGED open
           /\ attempts' = attempts + 1 /\ Done /\ UNCHANGED <<fileVars, renamed>>
  BY <1>0, <1>1, <1>2, <1>6, FaultsAreTyped
  DEF TypeInv, TypeOK, Fits, Done, Steps, fileVars
<1> QED BY <1>3, <1>4, <1>5, <1>6 DEF Reopen

LEMMA ReopenAgainKeepsTypes ==
  ASSUME TypeInv, ReopenAgain
  PROVE  TypeInv' /\ lastError
<1>0. /\ TypeOK /\ Fits(pending, lastError) /\ up /\ pending # <<>> /\ Head(pending) = "again"
      /\ writes + first <= emitted + 1
      /\ UNCHANGED <<attempts, renamed, lastError, up, sinceFlush, writes, timer, reported,
                     outage, first>>
  BY DEF TypeInv, ReopenAgain, Doing, healthVars, outageVars
<1>1. \A e : Fits(Tail(pending), e) /\ Fits(Tail(Tail(pending)), e)
  BY <1>0, FitsAfter, FitsGivenUp
<1>2. ASSUME OpenAppend, Done
      PROVE  TypeInv'
  BY <1>0, <1>1, <1>2, FaultsAreTyped DEF TypeInv, TypeOK, Fits, Done, Steps
<1>3. ASSUME OpenAppendFails(lastError), UNCHANGED <<fileVars, open>>,
             pending' = Tail(Tail(pending))
      PROVE  TypeInv'
  BY <1>0, <1>1, <1>3, FaultsAreTyped DEF TypeInv, TypeOK, Fits, Steps, fileVars
<1>4. lastError
  <2>1. pending[1] = "again" /\ 1 \in 1..Len(pending)
    BY <1>0, DoneSteps DEF Fits
  <2> QED BY <1>0, <2>1 DEF Fits
<1> QED BY <1>2, <1>3, <1>4 DEF ReopenAgain

\* The two ways a line is accounted for.
LEMMA CountsAreTyped ==
  ASSUME TypeInv, pending # <<>>
  PROVE  /\ CountError => \A e : Fits(pending', e)
         /\ CountError => writes' = writes /\ sinceFlush' \in 0..(FlushLines - 1)
         /\ CountWrite => \A e : Fits(pending', e)
         /\ CountWrite => writes' = writes + 1 /\ sinceFlush' \in 0..(FlushLines - 1)
<1>1. sinceFlush \in 0..(FlushLines - 1) /\ FlushLines \in Nat \ {0}
  BY ConstantsAreTyped DEF TypeInv, TypeOK
<1>2. \A e : Fits(Tail(pending), e) /\ Fits(<<"flush">> \o Tail(pending), e)
  BY FitsAfter, FitsFlush DEF TypeInv
<1>3. CountError => \A e : Fits(pending', e)
  BY <1>2 DEF CountError, Done
<1>4. CountWrite => \A e : Fits(pending', e)
  BY <1>2 DEF CountWrite, Done
<1>5. CountError => writes' = writes /\ sinceFlush' \in 0..(FlushLines - 1)
  BY <1>1 DEF CountError, healthVars
<1>6. CountWrite => writes' = writes + 1 /\ sinceFlush' \in 0..(FlushLines - 1)
  BY <1>1 DEF CountWrite, FlushIsDue
<1> QED BY <1>3, <1>4, <1>5, <1>6

LEMMA AppendKeepsTypes ==
  ASSUME TypeInv, AppendLine
  PROVE  TypeInv'
<1>0. /\ TypeOK /\ up /\ pending # <<>> /\ open /\ emitted < MaxLines
      /\ attempts' = 0 /\ writes + first <= emitted + 1
      /\ UNCHANGED <<shown, present, inode, rotations, open, renamed, up, timer, reported,
                     outage, first>>
  BY DEF TypeInv, AppendLine, Doing, outageVars
<1>1. PICK cells \in 0..(Width + 1) :
       /\ disk' = disk \o SubSeq(Cells(emitted + 1), 1, cells)
       /\ emitted' = IF cells = 0 THEN emitted ELSE emitted + 1
       /\ IF cells = Width + 1 THEN AppendSucceeds ELSE AppendFails(cells)
  BY DEF AppendLine
<1>2. /\ emitted \in 0..MaxLines /\ writes \in 0..MaxLines /\ first \in 1..(MaxLines + 1)
      /\ shown \in 0..Len(disk) /\ disk \in Seq(0..MaxLines) /\ MaxLines \in Nat
      /\ Width \in Nat \ {0}
  BY <1>0, ConstantsAreTyped DEF TypeOK
<1>3. emitted + 1 \in 1..MaxLines /\ emitted' \in 0..MaxLines /\ emitted' >= emitted
  BY <1>0, <1>1, <1>2
<1>4. disk' \in Seq(0..MaxLines) /\ shown' \in 0..Len(disk')
  <2>1. /\ disk' \in Seq(0..MaxLines) /\ Len(disk') = Len(disk) + cells /\ Len(disk) \in Nat
        /\ cells \in Nat
    BY <1>1, <1>2, <1>3, AppendedFile
  <2> QED BY <1>0, <1>2, <2>1
<1>5. attempts' \in 0..MaxReopenAttempts
  BY <1>0, ConstantsAreTyped
<1>6. CASE AppendFails(cells)
  <2>1. Fits(pending', lastError') /\ writes' = writes /\ sinceFlush' \in 0..(FlushLines - 1)
    BY <1>0, <1>6, CountsAreTyped DEF AppendFails
  <2>2. faults' \in 0..MaxFaults /\ lastError' = TRUE
    BY <1>6, FaultsAreTyped DEF AppendFails
  <2>3. writes' + first' <= emitted' + 1
    <3>1. /\ writes' = writes /\ first' = first /\ emitted' >= emitted /\ emitted' \in Int
          /\ writes \in Int /\ first \in Int /\ emitted \in Int
      BY <1>0, <1>2, <1>3, <2>1
    <3>2. writes + first <= emitted + 1
      BY <1>0
    <3>3. \A a, b, c, d \in Int : a + b <= c + 1 /\ d >= c => a + b <= d + 1
      OBVIOUS
    <3>4. writes + first <= emitted' + 1
      BY <3>1, <3>2, <3>3
    <3> QED BY <3>1, <3>4
  <2> QED BY <1>0, <1>3, <1>4, <1>5, <2>1, <2>2, <2>3 DEF TypeInv, TypeOK, Fits, Steps
<1>7. CASE AppendSucceeds /\ cells = Width + 1
  <2>1. /\ Fits(pending', lastError') /\ sinceFlush' \in 0..(FlushLines - 1)
        /\ writes' = writes \/ writes' = writes + 1
    BY <1>0, <1>7, CountsAreTyped DEF AppendSucceeds
  <2>2. emitted' = emitted + 1
    BY <1>1, <1>2, <1>7
  <2>3. writes' + first' <= emitted' + 1 /\ writes' \in 0..MaxLines
    BY <1>0, <1>2, <2>1, <2>2
  <2> QED BY <1>0, <1>3, <1>4, <1>5, <1>7, <2>1, <2>3
      DEF TypeInv, TypeOK, Fits, Steps, AppendSucceeds
<1> QED BY <1>1, <1>6, <1>7

\* The handlers leave the file and the exporter alone.
LEMMA HandlerKeepsTypes ==
  ASSUME TypeInv, up, Fits(pending', lastError'), lastError' \in BOOLEAN,
         timer' \in 0..(Cycle - 1), reported' \in BOOLEAN, outage' \in 0..HeartbeatSec,
         UNCHANGED <<fileVars, exporterVars, up, healthVars, first, faults>>
  PROVE  TypeInv'
BY DEF TypeInv, TypeOK, Fits, Steps, fileVars, exporterVars, healthVars

LEMMA TimerIsTyped ==
  ASSUME TypeInv, OnTimer
  PROVE  /\ \A e : Fits(pending', e)
         /\ timer' \in 0..(Cycle - 1) /\ reported' \in BOOLEAN /\ outage' \in 0..HeartbeatSec
<1>1. PICK connected \in BOOLEAN, positions \in 0..1, orders \in 0..1 :
       LET now       == timer + 1
           outages   == IF reported' # reported THEN 1 ELSE 0
           updates   == IF now % PositionUpdateSec = 0 THEN positions ELSE 0
           snapshots == IF now % SnapshotSec = 0 THEN positions + orders ELSE 0
           beats     == now % HeartbeatSec = 0
           lines     == outages + updates + snapshots + IF beats THEN 1 ELSE 0
       IN  /\ timer' = now % Cycle
           /\ reported' = Reports(connected, now)
           /\ outage' = CASE connected -> 0
                          [] ~connected /\ outage < HeartbeatSec -> outage + 1
                          [] OTHER -> outage
           /\ Room(lines)
           /\ pending' = Repeat("line", lines) \o IF beats THEN <<"flush">> ELSE <<>>
  BY DEF OnTimer
<1>2. timer \in 0..(Cycle - 1) /\ outage \in 0..HeartbeatSec
  BY DEF TypeInv, TypeOK
<1> DEFINE now       == timer + 1
           outages   == IF reported' # reported THEN 1 ELSE 0
           updates   == IF now % PositionUpdateSec = 0 THEN positions ELSE 0
           snapshots == IF now % SnapshotSec = 0 THEN positions + orders ELSE 0
           beats     == now % HeartbeatSec = 0
           lines     == outages + updates + snapshots + IF beats THEN 1 ELSE 0
<1>3. timer' \in 0..(Cycle - 1)
  BY <1>1, <1>2, ConstantsAreTyped
<1>4. reported' \in BOOLEAN
  BY <1>1 DEF Reports
<1>5. outage' \in 0..HeartbeatSec
  <2>1. outage' \in {0, outage} \/ (outage < HeartbeatSec /\ outage' = outage + 1)
    <3>1. outage' = CASE connected -> 0
                      [] ~connected /\ outage < HeartbeatSec -> outage + 1
                      [] OTHER -> outage
      BY ONLY <1>1, Zenon
    <3> QED BY ONLY <3>1
  <2>2. HeartbeatSec \in Nat /\ outage \in Nat /\ outage <= HeartbeatSec
    BY <1>2, ConstantsAreTyped
  <2> QED BY <2>1, <2>2
<1>6. lines \in Nat
  <2>1. outages \in Nat /\ updates \in Nat /\ snapshots \in Nat
    OBVIOUS
  <2> HIDE DEF outages, updates, snapshots, beats
  <2> QED BY <2>1
<1>7. pending' = Repeat("line", lines) \o IF beats THEN <<"flush">> ELSE <<>>
  BY <1>1
<1> HIDE DEF lines, beats
<1>8. \A e : Fits(Repeat("line", lines), e) /\ Fits(Repeat("line", lines) \o <<"flush">>, e)
  BY <1>6, Repeats
<1>9. Repeat("line", lines) \in Seq(Steps)
  BY <1>8 DEF Fits
<1>10. Repeat("line", lines) \o <<>> = Repeat("line", lines)
  BY <1>9
<1>11. \A e : Fits(pending', e)
  BY <1>7, <1>8, <1>10
<1> QED BY <1>3, <1>4, <1>5, <1>11

\* The fixed chores of a handler.
LEMMA ChoresFit ==
  /\ \A e : Fits(<<"line">>, e) /\ Fits(<<"line", "flush">>, e)
            /\ Fits(<<"flush", "line", "flush", "close">>, e) /\ Fits(<<>>, e)
  /\ HasFlush(<<"line", "flush">>) /\ HasFlush(<<"flush", "line", "flush", "close">>)
<1>1. \A e : Fits(<<"line">>, e)
  <2>1. <<"line">> \in Seq(Steps) /\ Len(<<"line">>) = 1 /\ <<"line">>[1] = "line"
    BY DEF Steps
  <2> QED BY <2>1 DEF Fits
<1>4. \A e : Fits(<<"line", "flush">>, e)
  <2> DEFINE p == <<"line", "flush">>
  <2>1. p \in Seq(Steps) /\ Len(p) = 2 /\ p[1] = "line" /\ p[2] = "flush"
    BY DEF Steps
  <2> HIDE DEF p
  <2>2. \A i \in 1..Len(p) : p[i] \in {"line", "flush"}
    <3>1. \A i \in 1..2 : i = 1 \/ i = 2
      OBVIOUS
    <3> QED BY <2>1, <3>1
  <2>3. \A e : Fits(p, e)
    BY <2>1, <2>2 DEF Fits
  <2> QED BY <2>3 DEF p
<1>5. \A e : Fits(<<"flush", "line", "flush", "close">>, e)
  <2> DEFINE p == <<"flush", "line", "flush", "close">>
  <2>1. /\ p \in Seq(Steps) /\ Len(p) = 4
        /\ p[1] = "flush" /\ p[2] = "line" /\ p[3] = "flush" /\ p[4] = "close"
    BY DEF Steps
  <2> HIDE DEF p
  <2>2. \A i \in 1..Len(p) : p[i] # "again" /\ (p[i] = "close" => i = Len(p))
    <3>1. \A i \in 1..4 : i = 1 \/ i = 2 \/ i = 3 \/ i = 4
      OBVIOUS
    <3> QED BY <2>1, <3>1
  <2>3. \A e : Fits(p, e)
    BY <2>1, <2>2 DEF Fits
  <2> QED BY <2>3 DEF p
<1>6. \A e : Fits(<<>>, e)
  BY DEF Fits, Steps
<1>2. HasFlush(<<"line", "flush">>)
  <2>1. <<"line", "flush">>[2] = "flush" /\ 2 \in 1..Len(<<"line", "flush">>)
    OBVIOUS
  <2> QED BY <2>1, Zenon DEF HasFlush
<1>3. HasFlush(<<"flush", "line", "flush", "close">>)
  <2>1. /\ <<"flush", "line", "flush", "close">>[1] = "flush"
        /\ 1 \in 1..Len(<<"flush", "line", "flush", "close">>)
    OBVIOUS
  <2> QED BY <2>1, Zenon DEF HasFlush
<1> QED BY <1>1, <1>2, <1>3, <1>4, <1>5, <1>6

LEMMA HandlersKeepTypes ==
  ASSUME TypeInv, CallFails \/ OnTick \/ OnTradeTransaction \/ OnTimer \/ OnDeinit
  PROVE  TypeInv' /\ up
<1>0. /\ Fits(pending, lastError) /\ lastError \in BOOLEAN /\ timer \in 0..(Cycle - 1)
      /\ reported \in BOOLEAN /\ outage \in 0..HeartbeatSec
  BY DEF TypeInv, TypeOK
<1>1. CASE CallFails
  <2>1. Fits(pending', TRUE)
    BY <1>0, <1>1 DEF CallFails, Fits
  <2> QED BY <1>0, <1>1, <2>1, HandlerKeepsTypes DEF CallFails, outageVars
<1>2. CASE OnTick
  BY <1>0, <1>2, ChoresFit, HandlerKeepsTypes DEF OnTick, Ready, outageVars
<1>3. CASE OnTradeTransaction
  <2>1. \A e : Fits(pending', e)
    BY <1>3, Repeats DEF OnTradeTransaction
  <2> QED BY <1>0, <1>3, <2>1, HandlerKeepsTypes DEF OnTradeTransaction, Ready, outageVars
<1>4. CASE OnTimer
  <2>1. /\ up /\ lastError' = lastError
        /\ UNCHANGED <<fileVars, exporterVars, up, healthVars, first, faults>>
    BY <1>4 DEF OnTimer, Ready
  <2> QED BY <1>0, <1>4, <2>1, TimerIsTyped, HandlerKeepsTypes
<1>5. CASE OnDeinit
  BY <1>0, <1>5, ChoresFit, HandlerKeepsTypes DEF OnDeinit, Ready, outageVars
<1> QED BY <1>1, <1>2, <1>3, <1>4, <1>5

LEMMA InitKeepsTypes ==
  ASSUME TypeInv, OnInit
  PROVE  TypeInv'
<1>1. /\ up' = TRUE /\ pending' = <<"line", "flush">>
      /\ UNCHANGED <<attempts, renamed, sinceFlush, writes, timer, reported, outage, first>>
  BY DEF OnInit, healthVars, outageVars
<1>2. PICK error \in BOOLEAN :
       \/ OpenAppend /\ lastError' = error
       \/ OpenAppendFails(error) /\ lastError' = TRUE /\ UNCHANGED <<fileVars, open>>
  BY DEF OnInit
<1>3. Fits(pending', lastError')
  BY <1>1, ChoresFit
<1>4. CASE OpenAppend /\ lastError' = error
  BY <1>1, <1>3, <1>4, FaultsAreTyped DEF TypeInv, TypeOK, Fits, Steps
<1>5. CASE OpenAppendFails(error) /\ lastError' = TRUE /\ UNCHANGED <<fileVars, open>>
  BY <1>1, <1>3, <1>5, FaultsAreTyped DEF TypeInv, TypeOK, Fits, Steps, fileVars
<1> QED BY <1>2, <1>4, <1>5

\* The program is loaded anew.
LEMMA LoadIsTyped ==
  ASSUME TypeInv, Load, emitted' = emitted
  PROVE  /\ attempts' \in 0..MaxReopenAttempts /\ renamed' \in BOOLEAN
         /\ sinceFlush' \in 0..(FlushLines - 1) /\ writes' \in 0..MaxLines
         /\ timer' \in 0..(Cycle - 1) /\ reported' \in BOOLEAN /\ outage' \in 0..HeartbeatSec
         /\ first' \in 1..(MaxLines + 1) /\ writes' + first' <= emitted' + 1
<1>1. emitted \in 0..MaxLines /\ emitted' = emitted
  BY DEF TypeInv, TypeOK
<1>2. /\ attempts' = 0 /\ renamed' = FALSE /\ sinceFlush' = 0 /\ writes' = 0 /\ timer' = 0
      /\ reported' = FALSE /\ outage' = 0 /\ first' = emitted + 1
  BY DEF Load
<1>3. /\ 0 \in 0..MaxReopenAttempts /\ 0 \in 0..(FlushLines - 1) /\ 0 \in 0..MaxLines
      /\ 0 \in 0..(Cycle - 1) /\ 0 \in 0..HeartbeatSec
  BY ConstantsAreTyped
<1>4. first' \in 1..(MaxLines + 1) /\ 0 + first' <= emitted' + 1
  BY <1>1, <1>2, ConstantsAreTyped
<1> QED BY <1>2, <1>3, <1>4

LEMMA CloseKeepsTypes ==
  ASSUME TypeInv, Close
  PROVE  TypeInv' /\ pending' = <<>>
<1>1. /\ pending # <<>> /\ Head(pending) = "close" /\ pending' = Tail(pending)
      /\ open' = FALSE /\ up' = FALSE
      /\ UNCHANGED <<disk, shown, present, inode, emitted, rotations, lastError, faults>>
  BY DEF Close, Doing, Done, fileVars
<1>2. pending' = <<>> /\ Fits(pending', lastError')
  BY <1>1, FitsAfter DEF TypeInv
<1>3. CASE Load
  BY <1>1, <1>2, <1>3, LoadIsTyped DEF TypeInv, TypeOK, Fits, Steps
<1>4. CASE UNCHANGED <<attempts, renamed, healthVars, outageVars, first>>
  BY <1>1, <1>2, <1>4 DEF TypeInv, TypeOK, Fits, Steps, healthVars, outageVars
<1> QED BY <1>2, <1>3, <1>4 DEF Close

\* What is left of a sequence that is cut off.
LEMMA Prefixes ==
  ASSUME NEW S, NEW s \in Seq(S), NEW k \in Nat, k <= Len(s)
  PROVE  /\ SubSeq(s, 1, k) \in Seq(S) /\ Len(SubSeq(s, 1, k)) = k
         /\ \A i \in 1..k : SubSeq(s, 1, k)[i] = s[i]
<1>1. Len(s) \in Nat /\ \A i \in 1..Len(s) : s[i] \in S
  OBVIOUS
<1>2. \A i \in 1..k : s[i] \in S
  BY <1>1
<1>3. SubSeq(s, 1, k) = [i \in 1..k |-> s[i]]
  OBVIOUS
<1>4. /\ [i \in 1..k |-> s[i]] \in Seq(S) /\ Len([i \in 1..k |-> s[i]]) = k
      /\ \A j \in 1..k : [i \in 1..k |-> s[i]][j] = s[j]
  BY <1>2
<1> QED BY <1>3, <1>4

LEMMA KillKeepsTypes ==
  ASSUME TypeInv, Kill
  PROVE  TypeInv' /\ Len(disk') = shown
<1>1. /\ disk' = SubSeq(disk, 1, shown) /\ open' = FALSE /\ up' = FALSE /\ pending' = <<>>
      /\ lastError' = FALSE /\ Load
      /\ UNCHANGED <<shown, present, inode, emitted, rotations, faults>>
  BY DEF Kill
<1>2. disk' \in Seq(0..MaxLines) /\ Len(disk') = shown /\ shown' \in 0..Len(disk')
  <2>1. disk \in Seq(0..MaxLines) /\ shown \in 0..Len(disk)
    BY DEF TypeInv, TypeOK
  <2>2. \A s \in Seq(0..MaxLines), k \in Nat :
          k <= Len(s) => SubSeq(s, 1, k) \in Seq(0..MaxLines) /\ Len(SubSeq(s, 1, k)) = k
    BY Prefixes
  <2>3. disk' \in Seq(0..MaxLines) /\ Len(disk') = shown
    BY <1>1, <2>1, <2>2
  <2>4. shown \in 0..shown
    BY <2>1
  <2> QED BY <1>1, <2>3, <2>4
<1>3. Fits(pending', lastError')
  BY <1>1, ChoresFit
<1> QED BY <1>1, <1>2, <1>3, LoadIsTyped DEF TypeInv, TypeOK, Fits, Steps

LEMMA NextKeepsTypes ==
  ASSUME TypeInv, [Next]_vars
  PROVE  TypeInv'
<1>1. CASE Flush
  <2>1. /\ pending # <<>> /\ pending' = Tail(pending)
        /\ UNCHANGED <<fileVars, exporterVars, up, healthVars, outageVars, first>>
        /\ \/ UNCHANGED <<lastError, faults>>
           \/ Fault /\ lastError' = TRUE
    BY <1>1 DEF Flush, Doing, Done
  <2>2. \A e : Fits(pending', e)
    BY <2>1, FitsAfter DEF TypeInv
  <2>3. lastError' \in BOOLEAN /\ faults' \in 0..MaxFaults
    BY <2>1, FaultsAreTyped DEF TypeInv, TypeOK
  <2> QED BY <2>1, <2>2, <2>3
      DEF TypeInv, TypeOK, Fits, Steps, fileVars, exporterVars, healthVars, outageVars
<1>2. CASE Spill
  <2>1. shown' \in 0..Len(disk')
    BY <1>2 DEF Spill, TypeInv, TypeOK
  <2> QED BY <1>2, <2>1 DEF Spill, TypeInv, TypeOK, exporterVars, healthVars, outageVars
<1>3. CASE Remove
  BY <1>3, FaultsAreTyped
  DEF Remove, TypeInv, TypeOK, exporterVars, healthVars, outageVars
<1>4. CASE UNCHANGED vars
  BY <1>4 DEF vars, TypeInv, TypeOK, fileVars, exporterVars, healthVars, outageVars
<1> QED BY <1>1, <1>2, <1>3, <1>4, ReopenKeepsTypes, ReopenAgainKeepsTypes, AppendKeepsTypes,
           CloseKeepsTypes, HandlersKeepTypes, InitKeepsTypes, KillKeepsTypes DEF Next

LEMMA TypesAreInvariant == Spec => []TypeInv
<1>1. TypeInv /\ [Next]_vars => TypeInv'
  BY NextKeepsTypes
<1> QED BY <1>1, TypesAtStart, PTL DEF Spec

\* The exporter, its counters and what a handler has left to do keep their types: the
\* attempts to reopen the file stay within their limit, the lines since the last flush
\* below theirs, and no more lines are counted than reached the file
\* (JsonExporter.mqh, Bridge.mq5).
THEOREM TypeOKHolds == Spec => []TypeOK
<1>1. TypeInv => TypeOK
  BY DEF TypeInv
<1> QED BY <1>1, TypesAreInvariant, PTL

-----------------------------------------------------------------------------
(* Outages are reported *)

\* The timer event after this one, in the period of the heartbeat.
LEMMA NextBeat ==
  ASSUME NEW t \in Nat, NEW h \in Nat \ {0}
  PROVE  /\ t % h \in 0..(h - 1)
         /\ (t + 1) % h # 0 => (t + 1) % h = (t % h) + 1
<1>1. /\ t = h * (t \div h) + (t % h) /\ (t % h) \in 0..(h - 1) /\ (t \div h) \in Int
  OBVIOUS
<1>2. CASE t % h = h - 1
  <2>1. t + 1 = h * (t \div h) + h
    BY <1>1, <1>2
  <2>2. \A q \in Int : h * q + h = h * (q + 1) /\ (h * (q + 1)) % h = 0
    OBVIOUS
  <2> QED BY <1>1, <2>1, <2>2
<1>3. CASE t % h < h - 1
  <2>1. t + 1 = h * (t \div h) + ((t % h) + 1) /\ (t % h) + 1 \in 0..(h - 1)
    BY <1>1, <1>3
  <2>2. \A q \in Int, r \in 0..(h - 1) : (h * q + r) % h = r
    OBVIOUS
  <2> QED BY <1>1, <2>1, <2>2
<1> QED BY <1>1, <1>2, <1>3

\* A cycle of the timer is so many heartbeats.
LEMMA CycleIsBeats == Cycle % HeartbeatSec = 0
<1>1. PositionUpdateSec * SnapshotSec \in Int /\ HeartbeatSec \in Nat \ {0}
  <2>1. \A a, b \in Nat : a * b \in Int
    OBVIOUS
  <2> QED BY <2>1, ConstantsAreTyped
<1>2. Cycle = HeartbeatSec * (PositionUpdateSec * SnapshotSec)
  <2>1. \A a, b, c \in Nat : a * b * c = a * (b * c)
    OBVIOUS
  <2> QED BY <2>1, ConstantsAreTyped DEF Cycle
<1>3. \A k \in Int, h \in Nat \ {0} : (h * k) % h = 0
  OBVIOUS
<1> QED BY <1>1, <1>2, <1>3

LEMMA TimerKeepsEpisodes ==
  ASSUME TypeInv, EpisodeInv, OnTimer
  PROVE  EpisodeInv'
<1>1. PICK connected \in BOOLEAN :
       /\ timer' = (timer + 1) % Cycle
       /\ reported' = (~connected /\ (reported \/ (timer + 1) % HeartbeatSec = 0))
       /\ outage' = CASE connected -> 0
                      [] ~connected /\ outage < HeartbeatSec -> outage + 1
                      [] OTHER -> outage
  BY DEF OnTimer, Reports
<1>2. /\ timer \in 0..(Cycle - 1) /\ outage \in 0..HeartbeatSec /\ HeartbeatSec \in Nat \ {0}
      /\ reported \in BOOLEAN /\ Cycle \in Nat \ {0}
  BY ConstantsAreTyped DEF TypeInv, TypeOK
<1>3. /\ timer % HeartbeatSec \in 0..(HeartbeatSec - 1)
      /\ (timer + 1) % HeartbeatSec # 0 =>
           (timer + 1) % HeartbeatSec = (timer % HeartbeatSec) + 1
  <2>1. timer \in Nat
    BY <1>2
  <2> QED BY <1>2, <2>1, NextBeat, Zenon
<1>4. timer' \in Nat /\ timer' % HeartbeatSec \in 0..(HeartbeatSec - 1)
  <2>1. timer' \in Nat
    BY <1>1, <1>2
  <2> QED BY <1>2, <2>1, NextBeat
<1>5. CASE connected
  <2>1. outage' = 0 /\ ~reported'
    BY <1>1, <1>5
  <2>2. 0 <= timer' % HeartbeatSec /\ ~(0 >= HeartbeatSec)
    <3>1. ~(0 >= HeartbeatSec)
      BY <1>2
    <3>2. \A r \in 0..(HeartbeatSec - 1) : 0 <= r
      BY <1>2
    <3> QED BY <1>4, <3>1, <3>2, Zenon
  <2> QED BY <2>1, <2>2 DEF EpisodeInv, EpisodesAreReported
<1>6. CASE ~connected /\ reported'
  BY <1>1, <1>2, <1>6 DEF EpisodeInv, EpisodesAreReported
<1>7. CASE ~connected /\ ~reported'
  <2>1. ~reported /\ (timer + 1) % HeartbeatSec # 0 /\ outage <= timer % HeartbeatSec
    BY <1>1, <1>7 DEF EpisodeInv
  <2>2. timer' = timer + 1
    <3>1. timer + 1 # Cycle
      BY <2>1, CycleIsBeats
    <3>2. timer + 1 \in 0..(Cycle - 1)
      BY <1>2, <3>1
    <3>3. \A n \in 0..(Cycle - 1) : n % Cycle = n
      BY <1>2
    <3> QED BY <1>1, <3>2, <3>3
  <2>3. outage' = outage + 1 /\ timer' % HeartbeatSec = (timer % HeartbeatSec) + 1
    BY <1>1, <1>2, <1>3, <1>7, <2>1, <2>2
  <2>4. outage' <= timer' % HeartbeatSec /\ ~(outage' >= HeartbeatSec)
    BY <1>2, <1>3, <1>4, <2>1, <2>3
  <2> QED BY <1>7, <2>4 DEF EpisodeInv, EpisodesAreReported
<1> QED BY <1>1, <1>5, <1>6, <1>7

\* The terminal has to be disconnected from one heartbeat to the next to go through
\* InpHeartbeatSec timer events: there is a heartbeat among them, which reports it,
\* and the first event that finds it connected clears the report
\* (Bridge.mq5, OnTimer: g_disconnectedReported).
THEOREM EpisodesAreReportedHolds == Spec => []EpisodesAreReported
<1>1. Init => EpisodeInv
  <2> SUFFICES ASSUME Init PROVE EpisodeInv
    OBVIOUS
  <2>1. outage = 0 /\ timer = 0 /\ reported = FALSE /\ HeartbeatSec \in Nat \ {0}
    BY ConstantsAreTyped DEF Init
  <2>2. 0 % HeartbeatSec \in 0..(HeartbeatSec - 1)
    BY <2>1, NextBeat
  <2> QED BY <2>1, <2>2 DEF EpisodeInv, EpisodesAreReported
<1>2. TypeInv /\ EpisodeInv /\ [Next]_vars => EpisodeInv'
  <2> SUFFICES ASSUME TypeInv, EpisodeInv, [Next]_vars
               PROVE  EpisodeInv'
    OBVIOUS
  <2>1. CASE UNCHANGED <<timer, reported, outage>>
    BY <2>1 DEF EpisodeInv, EpisodesAreReported
  <2>2. CASE OnTimer
    BY <2>2, TimerKeepsEpisodes
  <2>3. ASSUME Load
        PROVE  EpisodeInv'
    <3>1. outage' = 0 /\ timer' = 0 /\ reported' = FALSE /\ HeartbeatSec \in Nat \ {0}
      BY <2>3, ConstantsAreTyped DEF Load
    <3>2. 0 % HeartbeatSec \in 0..(HeartbeatSec - 1)
      BY <3>1, NextBeat
    <3> QED BY <3>1, <3>2 DEF EpisodeInv, EpisodesAreReported
  <2>4. \/ UNCHANGED <<timer, reported, outage>> \/ OnTimer \/ Load
    BY DEF Next, vars, outageVars, Reopen, ReopenAgain, AppendLine, Flush, Spill, Close, CallFails,
           OnTick, OnTradeTransaction, OnInit, OnDeinit, Kill, Remove
  <2> QED BY <2>1, <2>2, <2>3, <2>4
<1>3. EpisodeInv => EpisodesAreReported
  BY DEF EpisodeInv
<1> QED BY <1>1, <1>2, <1>3, TypesAreInvariant, PTL DEF Spec

-----------------------------------------------------------------------------
(* What is not flushed is bounded *)

LEMMA NewlinesAreFinite ==
  ASSUME NEW file \in Seq(0..MaxLines), NEW from \in 0..Len(file)
  PROVE  /\ IsFiniteSet(Newlines(file, from)) /\ Cardinality(Newlines(file, from)) \in Nat
         /\ from = Len(file) => Cardinality(Newlines(file, from)) = 0
<1>1. Len(file) \in Nat /\ from \in Nat
  OBVIOUS
<1>2. IsFiniteSet((from + 1)..Len(file))
  BY <1>1, FS_Interval
<1>3. IsFiniteSet(Newlines(file, from)) /\ Cardinality(Newlines(file, from)) \in Nat
  <2>1. Newlines(file, from) \subseteq (from + 1)..Len(file)
    BY DEF Newlines
  <2> QED BY <1>2, <2>1, FS_Subset, FS_CardinalityType
<1>4. from = Len(file) => Newlines(file, from) = {}
  BY <1>1 DEF Newlines
<1> QED BY <1>3, <1>4, FS_EmptySet

\* Nothing is left to flush, and the count of lines since the last flush is a number.
LEMMA NothingUnflushed ==
  ASSUME TypeInv', shown' = Len(disk')
  PROVE  UnflushedInv'
<1>1. disk' \in Seq(0..MaxLines) /\ shown' \in 0..Len(disk') /\ sinceFlush' \in 0..(FlushLines - 1)
  BY DEF TypeInv, TypeOK
<1>2. Cardinality(Newlines(disk', shown')) = 0
  BY <1>1, NewlinesAreFinite
<1>3. 0 <= sinceFlush'
  BY <1>1, ConstantsAreTyped
<1> QED BY <1>2, <1>3 DEF UnflushedInv

\* A whole line adds one.
LEMMA LineAddsNewline ==
  ASSUME TypeInv, emitted < MaxLines,
         disk' = disk \o SubSeq(Cells(emitted + 1), 1, Width + 1)
  PROVE  Cardinality(Newlines(disk', shown)) <= Cardinality(Newlines(disk, shown)) + 1
<1> DEFINE last == Len(disk) + Width + 1
<1>1. /\ disk \in Seq(0..MaxLines) /\ shown \in 0..Len(disk) /\ emitted + 1 \in 1..MaxLines
      /\ Width + 1 \in 0..(Width + 1) /\ Len(disk) \in Nat /\ Width \in Nat \ {0}
  BY ConstantsAreTyped DEF TypeInv, TypeOK
<1>2. /\ Len(disk') = last
      /\ \A i \in 1..Len(disk) : disk'[i] = disk[i]
      /\ \A i \in 1..(Width + 1) : disk'[Len(disk) + i] = IF i <= Width THEN emitted + 1 ELSE NL
  <2>1. /\ Len(disk') = Len(disk) + (Width + 1)
        /\ \A i \in 1..Len(disk) : disk'[i] = disk[i]
        /\ \A i \in 1..(Width + 1) : disk'[Len(disk) + i] = IF i <= Width THEN emitted + 1 ELSE NL
    BY <1>1, AppendedFile
  <2> QED BY <1>1, <2>1
<1>3. Newlines(disk', shown) \subseteq Newlines(disk, shown) \cup {last}
  <2> SUFFICES ASSUME NEW i \in Newlines(disk', shown), i # last
               PROVE  i \in Newlines(disk, shown)
    OBVIOUS
  <2>1. i \in (shown + 1)..last /\ disk'[i] = NL
    BY <1>2 DEF Newlines
  <2>2. CASE i <= Len(disk)
    <3>1. i \in (shown + 1)..Len(disk) /\ i \in 1..Len(disk)
      BY <1>1, <2>1, <2>2
    <3> QED BY <1>2, <2>1, <3>1 DEF Newlines
  <2>3. CASE i > Len(disk)
    <3> DEFINE j == i - Len(disk)
    <3>0. \A n, w \in Nat, m \in Int :
            (m <= n + w + 1 /\ m # n + w + 1 /\ m > n) =>
              m - n \in 1..(w + 1) /\ m - n <= w /\ m = n + (m - n)
      OBVIOUS
    <3>1. j \in 1..(Width + 1) /\ j <= Width /\ i = Len(disk) + j
      <4>1. i \in Int /\ i <= Len(disk) + Width + 1 /\ i # Len(disk) + Width + 1 /\ i > Len(disk)
        BY <1>1, <2>1, <2>3
      <4> QED BY <1>1, <3>0, <4>1, Zenon
    <3>2. disk'[i] = emitted + 1
      BY <1>2, <3>1
    <3> QED BY <1>1, <2>1, <3>2 DEF NL
  <2> QED BY <1>1, <2>1, <2>2, <2>3
<1>4. /\ IsFiniteSet(Newlines(disk, shown)) /\ Cardinality(Newlines(disk, shown)) \in Nat
  BY <1>1, NewlinesAreFinite
<1> HIDE DEF last
<1> DEFINE old == Newlines(disk, shown)
<1> HIDE DEF old
<1>5. /\ IsFiniteSet(Newlines(disk, shown) \cup {last})
      /\ Cardinality(Newlines(disk, shown) \cup {last}) <= Cardinality(Newlines(disk, shown)) + 1
      /\ Cardinality(Newlines(disk, shown) \cup {last}) \in Nat
  <2>1. /\ IsFiniteSet(old \cup {last})
        /\ \/ Cardinality(old \cup {last}) = Cardinality(old)
           \/ Cardinality(old \cup {last}) = Cardinality(old) + 1
    BY <1>4, FS_AddElement, Zenon DEF old
  <2>2. Cardinality(old) \in Nat
    BY <1>4 DEF old
  <2>3. IsFiniteSet(old \cup {last}) /\ Cardinality(old \cup {last}) <= Cardinality(old) + 1
        /\ Cardinality(old \cup {last}) \in Nat
    BY <2>1, <2>2
  <2> QED BY <2>3 DEF old
<1>6. /\ Cardinality(Newlines(disk', shown)) <= Cardinality(Newlines(disk, shown) \cup {last})
      /\ Cardinality(Newlines(disk', shown)) \in Nat
  BY <1>3, <1>5, FS_Subset, FS_CardinalityType
<1> QED BY <1>4, <1>5, <1>6

LEMMA AppendKeepsUnflushed ==
  ASSUME TypeInv, TypeInv', UnflushedInv, AppendLine
  PROVE  UnflushedInv'
<1>0. Fits(pending, lastError) /\ pending # <<>> /\ Head(pending) = "line" /\ shown' = shown
  BY DEF TypeInv, AppendLine, Doing
<1> SUFFICES ASSUME ~lastError'
             PROVE  HasFlush(pending') \/ Cardinality(Newlines(disk', shown')) <= sinceFlush'
  BY DEF UnflushedInv
<1>1. PICK cells \in 0..(Width + 1) :
       /\ disk' = disk \o SubSeq(Cells(emitted + 1), 1, cells)
       /\ IF cells = Width + 1 THEN AppendSucceeds ELSE AppendFails(cells)
  BY DEF AppendLine
<1>2. cells = Width + 1 /\ ~lastError /\ CountWrite
  BY <1>1 DEF AppendFails, AppendSucceeds
<1>3. CASE FlushIsDue(sinceFlush + 1)
  BY <1>0, <1>2, <1>3, FitsFlush DEF CountWrite
<1>4. CASE ~FlushIsDue(sinceFlush + 1)
  <2>1. sinceFlush' = sinceFlush + 1 /\ pending' = Tail(pending)
    BY <1>2, <1>4 DEF CountWrite, Done
  <2>2. HasFlush(pending) => HasFlush(pending')
    BY <1>0, <2>1, FitsAfter
  <2>3. Cardinality(Newlines(disk', shown')) <= Cardinality(Newlines(disk, shown)) + 1
    BY <1>0, <1>1, <1>2, LineAddsNewline DEF AppendLine
  <2>4. /\ Cardinality(Newlines(disk, shown)) \in Nat /\ Cardinality(Newlines(disk', shown')) \in Nat
        /\ sinceFlush \in Int
    <3>1. /\ disk \in Seq(0..MaxLines) /\ shown \in 0..Len(disk)
          /\ disk' \in Seq(0..MaxLines) /\ shown' \in 0..Len(disk')
      BY DEF TypeInv, TypeOK
    <3>2. sinceFlush \in Int
      BY ConstantsAreTyped DEF TypeInv, TypeOK
    <3> QED BY <3>1, <3>2, NewlinesAreFinite
  <2>5. HasFlush(pending) \/ Cardinality(Newlines(disk, shown)) <= sinceFlush
    BY <1>2 DEF UnflushedInv
  <2> QED BY <2>1, <2>2, <2>3, <2>4, <2>5
<1> QED BY <1>3, <1>4

LEMMA SpillKeepsUnflushed ==
  ASSUME TypeInv, TypeInv', UnflushedInv, Spill
  PROVE  UnflushedInv'
<1>1. /\ shown' = shown + 1 /\ disk' = disk /\ pending' = pending /\ lastError' = lastError
      /\ sinceFlush' = sinceFlush /\ disk \in Seq(0..MaxLines) /\ shown \in 0..Len(disk)
      /\ shown' \in 0..Len(disk) /\ Len(disk) \in Nat /\ sinceFlush \in Int
  BY ConstantsAreTyped DEF Spill, healthVars, TypeInv, TypeOK
<1>2. Newlines(disk', shown') \subseteq Newlines(disk, shown)
  <2>1. (shown' + 1)..Len(disk') \subseteq (shown + 1)..Len(disk)
    BY <1>1
  <2> QED BY <1>1, <2>1 DEF Newlines
<1>3. /\ IsFiniteSet(Newlines(disk, shown)) /\ Cardinality(Newlines(disk, shown)) \in Nat
      /\ Cardinality(Newlines(disk', shown')) \in Nat
  BY <1>1, NewlinesAreFinite
<1>4. Cardinality(Newlines(disk', shown')) <= Cardinality(Newlines(disk, shown))
  BY <1>2, <1>3, FS_Subset
<1> QED BY <1>1, <1>3, <1>4 DEF UnflushedInv

LEMMA NextKeepsUnflushed ==
  ASSUME TypeInv, TypeInv', UnflushedInv, [Next]_vars
  PROVE  UnflushedInv'
<1>1. CASE Reopen
  <2>1. CASE lastError'
    BY <2>1 DEF UnflushedInv
  <2>2. CASE ~lastError'
    <3>1. /\ UNCHANGED <<disk, shown, lastError, sinceFlush>>
          /\ pending' = pending \/ pending' = Tail(pending)
      BY <1>1, <2>2 DEF Reopen, OpenAppend, Done, fileVars, healthVars
    <3>2. HasFlush(pending) => HasFlush(pending')
      BY <1>1, <3>1, FitsAfter DEF TypeInv, Reopen, Doing
    <3> QED BY <3>1, <3>2 DEF UnflushedInv
  <2> QED BY <2>1, <2>2
<1>2. CASE ReopenAgain
  <2>1. lastError'
    BY <1>2, ReopenAgainKeepsTypes DEF ReopenAgain
  <2> QED BY <2>1 DEF UnflushedInv
<1>3. CASE Flush
  <2>1. \/ lastError' \/ (shown' = Len(disk'))
    BY <1>3 DEF Flush, fileVars
  <2> QED BY <2>1, NothingUnflushed DEF UnflushedInv
<1>4. CASE CallFails
  BY <1>4 DEF CallFails, UnflushedInv
<1>5. CASE OnTick \/ OnTradeTransaction \/ OnTimer \/ OnDeinit
  <2>1. ~HasFlush(pending) /\ UNCHANGED <<disk, shown, lastError, sinceFlush>>
    <3>1. Ready /\ UNCHANGED <<fileVars, healthVars, lastError>>
      BY <1>5 DEF OnTick, OnTradeTransaction, OnTimer, OnDeinit
    <3>2. ~HasFlush(pending)
      BY <3>1 DEF Ready, HasFlush
    <3> QED BY <3>1, <3>2 DEF fileVars, healthVars
  <2> QED BY <2>1 DEF UnflushedInv
<1>6. CASE OnInit
  BY <1>6, ChoresFit DEF OnInit, UnflushedInv
<1>7. CASE Close
  BY <1>7, NothingUnflushed DEF Close, fileVars
<1>8. CASE Kill
  BY <1>8, KillKeepsTypes, NothingUnflushed DEF Kill
<1>9. CASE Remove
  BY <1>9, NothingUnflushed DEF Remove, MoveAway
<1>10. CASE UNCHANGED vars
  BY <1>10 DEF vars, fileVars, healthVars, UnflushedInv
<1> QED BY <1>1, <1>2, <1>3, <1>4, <1>5, <1>6, <1>7, <1>8, <1>9, <1>10,
           AppendKeepsUnflushed, SpillKeepsUnflushed DEF Next

\* As long as no call left an error, a killed terminal loses less than InpFlushLines
\* lines: the line that reaches the limit puts the flush before everything else the
\* handler has to do, and nothing but a failure keeps the flush from emptying what is
\* buffered (Bridge.mq5, EmitLine; JsonExporter.mqh, Flush).
THEOREM UnflushedIsBoundedHolds == Spec => []UnflushedIsBounded
<1>1. Init => UnflushedInv
  <2> SUFFICES ASSUME Init PROVE UnflushedInv
    OBVIOUS
  <2>1. disk \in Seq(0..MaxLines) /\ shown = 0 /\ Len(disk) = 0 /\ sinceFlush = 0
    BY DEF Init
  <2>3. shown \in 0..Len(disk) /\ shown = Len(disk)
    BY <2>1
  <2>2. Cardinality(Newlines(disk, shown)) = 0
    BY <2>1, <2>3, NewlinesAreFinite
  <2> QED BY <2>1, <2>2 DEF UnflushedInv
<1>2. TypeInv /\ TypeInv' /\ UnflushedInv /\ [Next]_vars => UnflushedInv'
  BY NextKeepsUnflushed
<1>3. TypeInv /\ UnflushedInv => UnflushedIsBounded
  <2> SUFFICES ASSUME TypeInv, UnflushedInv, pending = <<>>, ~lastError
               PROVE  Cardinality(Newlines(disk, shown)) < FlushLines
    BY DEF UnflushedIsBounded, Newlines
  <2>1. Cardinality(Newlines(disk, shown)) <= sinceFlush
    BY DEF UnflushedInv, HasFlush
  <2>2. Cardinality(Newlines(disk, shown)) \in Nat /\ sinceFlush \in 0..(FlushLines - 1)
    BY NewlinesAreFinite DEF TypeInv, TypeOK
  <2> QED BY <2>1, <2>2, ConstantsAreTyped
<1> QED BY <1>1, <1>2, <1>3, TypesAreInvariant, PTL DEF Spec

-----------------------------------------------------------------------------
(* What is written can be read *)

LEMMA OneMore ==
  ASSUME NEW T, IsFiniteSet(T), NEW S \in SUBSET T, NEW x \in T, x \notin S
  PROVE  Cardinality(S) + 1 <= Cardinality(T)
<1>1. IsFiniteSet(S) /\ S \cup {x} \in SUBSET T
  BY FS_Subset
<1>2. Cardinality(S \cup {x}) = Cardinality(S) + 1
  BY <1>1, FS_AddElement
<1>3. Cardinality(S \cup {x}) <= Cardinality(T)
  BY <1>1, FS_Subset
<1> QED BY <1>2, <1>3

\* The readable lines of this run of the program.
ReadableNow == Readable \cap first..emitted

LEMMA LinesAreFinite ==
  ASSUME TypeInv
  PROVE  /\ IsFiniteSet(ReadableNow) /\ Cardinality(ReadableNow) \in Nat
         /\ IsFiniteSet(Unfinished) /\ Cardinality(Unfinished) \in Nat
<1>1. IsFiniteSet(1..emitted)
  <2>1. emitted \in Int /\ 1 \in Int
    BY ConstantsAreTyped DEF TypeInv, TypeOK
  <2> QED BY <2>1, FS_Interval
<1>2. ReadableNow \in SUBSET (1..emitted) /\ Unfinished \in SUBSET (1..emitted)
  BY DEF ReadableNow, Readable, Unfinished
<1> QED BY <1>1, <1>2, FS_Subset, FS_CardinalityType

\* A file that ends inside a line ends with a line that is not finished.
LEMMA TornIsUnfinished ==
  ASSUME TypeInv, \A i \in 1..Len(disk) : disk[i] <= emitted
  PROVE  Torn \in 0..1 /\ Torn <= Cardinality(Unfinished)
<1>1. Torn \in 0..1
  BY DEF Torn
<1>2. CASE Torn = 0
  BY <1>2, LinesAreFinite
<1>3. CASE Torn # 0
  <2> DEFINE last == Len(disk)
  <2>1. /\ last > 0 /\ disk[last] # NL /\ disk \in Seq(0..MaxLines) /\ emitted \in 0..MaxLines
        /\ MaxLines \in Nat
    BY <1>3, ConstantsAreTyped DEF Torn, TypeInv, TypeOK
  <2>2. last \in 1..Len(disk) /\ last \in DOMAIN disk /\ disk[last] \in 0..MaxLines
    BY <2>1
  <2>3. disk[last] \in 1..emitted
    <3>1. disk[last] <= emitted
      BY <2>2
    <3> QED BY <2>1, <2>2, <3>1 DEF NL
  <2>4. disk[last] \in Unfinished
    BY <2>2, <2>3 DEF Unfinished
  <2> HIDE DEF last
  <2>5. Cardinality({}) + 1 <= Cardinality(Unfinished)
    BY <2>4, LinesAreFinite, OneMore
  <2>6. Cardinality({}) = 0
    BY FS_EmptySet
  <2> QED BY <1>1, <2>5, <2>6, LinesAreFinite
<1> QED BY <1>2, <1>3

\* A line that reaches the file, whole or in part, takes nothing away: what could be
\* read can be read, and what was unfinished stays so.
LEMMA LineTakesNothingAway ==
  ASSUME TypeInv, emitted < MaxLines, NEW cells \in 1..(Width + 1),
         disk' = disk \o SubSeq(Cells(emitted + 1), 1, cells), emitted' = emitted + 1
  PROVE  Readable \subseteq Readable' /\ Unfinished \subseteq Unfinished'
<1>1. /\ disk \in Seq(0..MaxLines) /\ emitted + 1 \in 1..MaxLines /\ emitted \in Nat
      /\ cells \in 0..(Width + 1) /\ Len(disk) \in Nat /\ Width \in Nat \ {0}
  BY ConstantsAreTyped DEF TypeInv, TypeOK
<1>2. /\ disk' \in Seq(0..MaxLines) /\ Len(disk') = Len(disk) + cells
      /\ \A i \in 1..Len(disk) : disk'[i] = disk[i]
      /\ \A i \in 1..cells : disk'[Len(disk) + i] = IF i <= Width THEN emitted + 1 ELSE NL
  BY <1>1, AppendedFile
<1>3. 1..emitted \subseteq 1..emitted'
  BY <1>1
<1>4. ASSUME NEW n \in Readable
      PROVE  n \in Readable'
  <2>1. PICK i \in 0..(Len(disk) - Width - 1) :
          /\ SubSeq(disk, i + 1, i + Width + 1) = Cells(n)
          /\ i = 0 \/ disk[i] = NL
    BY <1>4 DEF Readable
  <2>2. i \in 0..(Len(disk') - Width - 1) /\ (i = 0 \/ i \in 1..Len(disk))
    BY <1>1, <1>2, <2>1
  <2>3. SubSeq(disk', i + 1, i + Width + 1) = SubSeq(disk, i + 1, i + Width + 1)
    <3>1. \A k \in (i + 1)..(i + Width + 1) : k \in 1..Len(disk)
      BY <1>1, <2>1
    <3>2. \A k \in (i + 1)..(i + Width + 1) : disk'[k] = disk[k]
      BY <1>2, <3>1
    <3>3. \A k \in 1..(Width + 1) : disk'[k + i] = disk[k + i]
      <4>1. \A k \in 1..(Width + 1) : k + i \in (i + 1)..(i + Width + 1)
        BY <1>1
      <4> QED BY <3>2, <4>1
    <3>4. \A s \in Seq(0..MaxLines) :
            SubSeq(s, i + 1, i + Width + 1) = [k \in 1..(Width + 1) |-> s[k + i]]
      BY <1>1
    <3> QED BY <1>1, <1>2, <3>3, <3>4
  <2>4. i = 0 \/ disk'[i] = NL
    BY <1>2, <2>1, <2>2
  <2>5. n \in 1..emitted'
    BY <1>3, <1>4 DEF Readable
  <2> QED BY <2>1, <2>2, <2>3, <2>4, <2>5, Zenon DEF Readable, Cells
<1>5. ASSUME NEW n \in Unfinished
      PROVE  n \in Unfinished'
  <2>1. n \in 1..emitted
    BY DEF Unfinished
  <2>2. PICK i \in 1..Len(disk) : disk[i] = n /\ (i = Len(disk) \/ disk[i + 1] \notin {n, NL})
    BY <1>1 DEF Unfinished
  <2>3. i \in DOMAIN disk' /\ disk'[i] = n
    BY <1>1, <1>2, <2>2
  <2>4. CASE i = Len(disk)
    <3>1. disk'[i + 1] = emitted + 1
      BY <1>1, <1>2, <2>4
    <3>2. emitted + 1 \notin {n, NL}
      BY <1>1, <2>1 DEF NL
    <3> QED BY <1>3, <2>1, <2>3, <3>1, <3>2 DEF Unfinished
  <2>5. CASE i # Len(disk)
    <3>1. i + 1 \in 1..Len(disk)
      BY <1>1, <2>2, <2>5
    <3>2. disk'[i + 1] = disk[i + 1]
      BY <1>2, <3>1
    <3> QED BY <1>3, <2>1, <2>2, <2>3, <2>5, <3>2 DEF Unfinished
  <2> QED BY <2>4, <2>5
<1> QED BY <1>4, <1>5

\* A line that is cut short is one more unfinished line.
LEMMA CutLine ==
  ASSUME TypeInv, emitted < MaxLines, NEW cells \in 1..Width,
         disk' = disk \o SubSeq(Cells(emitted + 1), 1, cells), emitted' = emitted + 1
  PROVE  emitted + 1 \in Unfinished'
<1>1. /\ disk \in Seq(0..MaxLines) /\ emitted + 1 \in 1..MaxLines /\ emitted \in Nat
      /\ cells \in 0..(Width + 1) /\ Len(disk) \in Nat /\ Width \in Nat \ {0}
      /\ cells \in Nat \ {0}
  BY ConstantsAreTyped DEF TypeInv, TypeOK
<1>2. /\ disk' \in Seq(0..MaxLines) /\ Len(disk') = Len(disk) + cells
      /\ \A i \in 1..cells : disk'[Len(disk) + i] = IF i <= Width THEN emitted + 1 ELSE NL
  BY <1>1, AppendedFile
<1>3. disk'[Len(disk')] = emitted + 1
  BY <1>1, <1>2
<1>4. Len(disk') \in DOMAIN disk'
  BY <1>1, <1>2
<1>5. emitted + 1 \in 1..emitted'
  BY <1>1
<1> QED BY <1>3, <1>4, <1>5 DEF Unfinished

\* A whole line that begins a line of the file can be read.
LEMMA WholeLine ==
  ASSUME TypeInv, emitted < MaxLines, Torn = 0,
         disk' = disk \o SubSeq(Cells(emitted + 1), 1, Width + 1), emitted' = emitted + 1
  PROVE  emitted + 1 \in Readable'
<1>1. /\ disk \in Seq(0..MaxLines) /\ emitted + 1 \in 1..MaxLines /\ emitted \in Nat
      /\ Width + 1 \in 0..(Width + 1) /\ Len(disk) \in Nat /\ Width \in Nat \ {0}
  BY ConstantsAreTyped DEF TypeInv, TypeOK
<1>2. /\ disk' \in Seq(0..MaxLines) /\ Len(disk') = Len(disk) + (Width + 1)
      /\ \A i \in 1..Len(disk) : disk'[i] = disk[i]
      /\ \A i \in 1..(Width + 1) : disk'[Len(disk) + i] = IF i <= Width THEN emitted + 1 ELSE NL
  BY <1>1, AppendedFile
<1> DEFINE i == Len(disk)
<1>3. SubSeq(disk', i + 1, i + Width + 1) = Cells(emitted + 1)
  <2>1. \A s \in Seq(0..MaxLines) :
          SubSeq(s, i + 1, i + Width + 1) = [k \in 1..(Width + 1) |-> s[i + k]]
    BY <1>1
  <2>2. \A k \in 1..(Width + 1) : disk'[i + k] = IF k <= Width THEN emitted + 1 ELSE NL
    BY <1>2
  <2> HIDE DEF i
  <2> QED BY <1>2, <2>1, <2>2 DEF Cells
<1>4. i \in 0..(Len(disk') - Width - 1)
  BY <1>1, <1>2
<1>5. i = 0 \/ disk'[i] = NL
  <2>1. CASE i = 0
    BY <2>1
  <2>2. CASE i # 0
    <3>1. i \in 1..Len(disk) /\ i > 0
      BY <1>1, <2>2
    <3>2. disk[i] = NL
      BY <3>1 DEF Torn
    <3> QED BY <1>2, <3>1, <3>2
  <2> QED BY <2>1, <2>2
<1>6. emitted + 1 \in 1..emitted'
  BY <1>1
<1> HIDE DEF i
<1> QED BY <1>3, <1>4, <1>5, <1>6, Zenon DEF Readable, Cells

LEMMA ElementsOf ==
  ASSUME NEW S, NEW s \in Seq(S), NEW i \in 1..Len(s)
  PROVE  s[i] \in S
OBVIOUS

LEMMA AppendKeepsBound ==
  ASSUME TypeInv, AppendLine, \A i \in 1..Len(disk) : disk[i] <= emitted
  PROVE  \A i \in 1..Len(disk') : disk'[i] <= emitted'
<1>1. PICK cells \in 0..(Width + 1) :
       /\ disk' = disk \o SubSeq(Cells(emitted + 1), 1, cells)
       /\ emitted' = IF cells = 0 THEN emitted ELSE emitted + 1
  BY DEF AppendLine
<1>2. /\ disk \in Seq(0..MaxLines) /\ emitted + 1 \in 1..MaxLines /\ emitted \in Nat
      /\ Len(disk) \in Nat /\ Width \in Nat \ {0} /\ cells \in Nat
  BY ConstantsAreTyped DEF TypeInv, TypeOK, AppendLine
<1>3. /\ Len(disk') = Len(disk) + cells
      /\ \A i \in 1..Len(disk) : disk'[i] = disk[i]
      /\ \A i \in 1..cells : disk'[Len(disk) + i] = IF i <= Width THEN emitted + 1 ELSE NL
  BY <1>1, <1>2, AppendedFile
<1>4. ASSUME NEW i \in 1..Len(disk')
      PROVE  disk'[i] <= emitted'
  <2>1. CASE i <= Len(disk)
    <3>1. i \in 1..Len(disk)
      BY <1>2, <2>1
    <3>2. disk'[i] = disk[i] /\ disk[i] <= emitted
      BY <1>3, <3>1
    <3>3. disk[i] \in 0..MaxLines
      BY <1>2, <3>1, ElementsOf, Zenon
    <3>4. disk'[i] <= emitted /\ disk'[i] \in Nat
      BY <3>2, <3>3, ConstantsAreTyped
    <3> QED BY <1>1, <1>2, <3>4
  <2>2. CASE i > Len(disk)
    <3> DEFINE j == i - Len(disk)
    <3>1. j \in 1..cells /\ i = Len(disk) + j /\ cells # 0
      BY <1>2, <1>3, <2>2
    <3>2. disk'[i] \in {emitted + 1, 0} /\ emitted' = emitted + 1
      BY <1>1, <1>3, <3>1 DEF NL
    <3> QED BY <1>2, <3>2
  <2> QED BY <1>2, <1>3, <2>1, <2>2
<1> QED BY <1>4

LEMMA AppendKeepsWritten ==
  ASSUME TypeInv, TypeInv', WrittenInv, AppendLine, rotations = 0
  PROVE  writes' + Torn' <= Cardinality(ReadableNow') + Cardinality(Unfinished')
<1>1. PICK cells \in 0..(Width + 1) :
       /\ disk' = disk \o SubSeq(Cells(emitted + 1), 1, cells)
       /\ emitted' = IF cells = 0 THEN emitted ELSE emitted + 1
       /\ IF cells = Width + 1 THEN AppendSucceeds ELSE AppendFails(cells)
  BY DEF AppendLine
<1>2. /\ writes + Torn <= Cardinality(ReadableNow) + Cardinality(Unfinished)
      /\ Torn \in 0..1 /\ writes \in Nat /\ Torn' \in 0..1
      /\ Cardinality(ReadableNow) \in Nat /\ Cardinality(Unfinished) \in Nat
  BY LinesAreFinite, TornIsUnfinished, ConstantsAreTyped
  DEF WrittenInv, ReadableNow, TypeInv, TypeOK, Torn
<1>3. (/\ IsFiniteSet(ReadableNow) /\ Cardinality(ReadableNow) \in Nat
       /\ IsFiniteSet(Unfinished) /\ Cardinality(Unfinished) \in Nat)'
  BY LinesAreFinite, PTL
<1>4. /\ disk \in Seq(0..MaxLines) /\ emitted + 1 \in 1..MaxLines /\ emitted \in Nat
      /\ Len(disk) \in Nat /\ Width \in Nat \ {0} /\ emitted < MaxLines
      /\ first' = first /\ first \in Nat /\ first <= emitted + 1
  BY ConstantsAreTyped DEF TypeInv, TypeOK, AppendLine
<1>5. /\ writes' = writes \/ writes' = writes + 1
      /\ cells # Width + 1 => writes' = writes
  BY <1>1 DEF AppendFails, AppendSucceeds, CountError, CountWrite, healthVars
<1>6. CASE cells = 0
  <2>1. disk' = disk /\ emitted' = emitted
    <3>1. Len(disk') = Len(disk) /\ disk' \in Seq(0..MaxLines)
          /\ \A i \in 1..Len(disk) : disk'[i] = disk[i]
      BY <1>1, <1>4, <1>6, AppendedFile
    <3> QED BY <1>1, <1>4, <1>6, <3>1
  <2>2. ReadableNow' = ReadableNow /\ Unfinished' = Unfinished /\ Torn' = Torn
    BY <1>4, <2>1 DEF ReadableNow, Readable, Unfinished, Torn
  <2>3. writes' = writes
    BY <1>4, <1>5, <1>6
  <2> QED BY <1>2, <2>2, <2>3
<1>7. CASE cells # 0
  <2>1. /\ emitted' = emitted + 1 /\ cells \in 1..(Width + 1)
        /\ disk' = disk \o SubSeq(Cells(emitted + 1), 1, cells)
    BY <1>1, <1>4, <1>7
  <2>2. Readable \subseteq Readable' /\ Unfinished \subseteq Unfinished'
    BY <1>4, <2>1, LineTakesNothingAway
  <2>3. ReadableNow \in SUBSET (ReadableNow')
    <3>1. first..emitted \subseteq first'..emitted'
      BY <1>4, <2>1
    <3> QED BY <2>2, <3>1 DEF ReadableNow
  <2>4. /\ Cardinality(ReadableNow) <= Cardinality(ReadableNow')
        /\ Cardinality(Unfinished) <= Cardinality(Unfinished')
    BY <1>3, <2>2, <2>3, FS_Subset
  <2>5. CASE cells # Width + 1
    <3>1. cells \in 1..Width
      BY <1>4, <2>1, <2>5
    <3>2. emitted + 1 \in Unfinished'
      BY <1>4, <2>1, <3>1, CutLine
    <3>3. emitted + 1 \notin Unfinished
      BY <1>4 DEF Unfinished
    <3>4. Cardinality(Unfinished) + 1 <= Cardinality(Unfinished')
      BY <1>3, <2>2, <3>2, <3>3, OneMore
    <3> QED BY <1>2, <1>3, <1>5, <2>4, <2>5, <3>4
  <2>6. CASE cells = Width + 1
    <3>1. Torn' = 0
      <4>1. /\ Len(disk') = Len(disk) + (Width + 1)
            /\ disk'[Len(disk) + (Width + 1)] = NL
        <5>1. /\ Len(disk') = Len(disk) + cells
              /\ \A i \in 1..cells :
                   disk'[Len(disk) + i] = IF i <= Width THEN emitted + 1 ELSE NL
          BY <1>1, <1>4, AppendedFile
        <5>2. Width + 1 \in 1..cells /\ ~(Width + 1 <= Width)
          BY <1>4, <2>6
        <5> QED BY <2>6, <5>1, <5>2
      <4> QED BY <4>1 DEF Torn
    <3>2. CASE Torn = 1
      BY <1>2, <1>3, <1>5, <2>4, <3>1, <3>2
    <3>3. CASE Torn = 0
      <4>1. emitted + 1 \in Readable'
        BY <1>4, <2>1, <2>6, <3>3, WholeLine
      <4>2. emitted + 1 \in ReadableNow' /\ emitted + 1 \notin ReadableNow
        BY <1>4, <2>1, <4>1 DEF ReadableNow
      <4>3. Cardinality(ReadableNow) + 1 <= Cardinality(ReadableNow')
        BY <1>3, <2>3, <4>2, OneMore
      <4> QED BY <1>2, <1>3, <1>5, <2>4, <3>1, <3>3, <4>3
    <3> QED BY <1>2, <3>2, <3>3
  <2> QED BY <2>5, <2>6
<1> QED BY <1>6, <1>7

\* A program that is loaded anew has counted nothing yet.
LEMMA LoadStartsOver ==
  ASSUME TypeInv, WrittenInv, Close \/ Kill
  PROVE  \/ UNCHANGED <<disk, emitted, writes, first, rotations>>
         \/ writes' = 0 /\ \A i \in 1..Len(disk') : disk'[i] <= emitted'
<1>1. CASE Close
  BY <1>1 DEF Close, Load, fileVars, healthVars, WrittenInv
<1>2. CASE Kill
  <2>1. /\ disk' = SubSeq(disk, 1, shown) /\ writes' = 0 /\ emitted' = emitted
        /\ disk \in Seq(0..MaxLines) /\ shown \in 0..Len(disk)
    BY <1>2 DEF Kill, Load, TypeInv, TypeOK
  <2>2. shown \in Nat /\ shown <= Len(disk) /\ \A i \in 1..shown : i \in 1..Len(disk)
    BY <2>1
  <2>3. Len(disk') = shown /\ \A i \in 1..shown : disk'[i] = disk[i]
    BY <2>1, <2>2, Prefixes
  <2> QED BY <2>1, <2>2, <2>3 DEF WrittenInv
<1> QED BY <1>1, <1>2

LEMMA NextKeepsWritten ==
  ASSUME TypeInv, TypeInv', WrittenInv, [Next]_vars
  PROVE  WrittenInv'
<1>1. CASE UNCHANGED <<disk, emitted, writes, first, rotations>>
  BY <1>1 DEF WrittenInv, Readable, Unfinished, Torn
<1>2. CASE MoveAway
  <2>1. rotations' # 0 /\ Len(disk') = 0
    BY <1>2, ConstantsAreTyped DEF MoveAway, TypeInv, TypeOK
  <2> QED BY <2>1 DEF WrittenInv
<1>3. CASE AppendLine
  <2>1. rotations' = rotations
    BY <1>3 DEF AppendLine
  <2> QED BY <1>3, <2>1, AppendKeepsBound, AppendKeepsWritten DEF WrittenInv, ReadableNow
<1>4. ASSUME writes' = 0, \A i \in 1..Len(disk') : disk'[i] <= emitted'
      PROVE  WrittenInv'
  <2>1. (Torn \in 0..1 /\ Torn <= Cardinality(Unfinished))'
    <3>1. (\A i \in 1..Len(disk) : disk[i] <= emitted)'
      BY <1>4
    <3> QED BY <3>1, TornIsUnfinished, PTL
  <2>2. (/\ IsFiniteSet(ReadableNow) /\ Cardinality(ReadableNow) \in Nat
         /\ IsFiniteSet(Unfinished) /\ Cardinality(Unfinished) \in Nat)'
    BY LinesAreFinite, PTL
  <2>3. writes' + Torn' <= Cardinality(ReadableNow') + Cardinality(Unfinished')
    BY <1>4, <2>1, <2>2
  <2> QED BY <1>4, <2>3 DEF WrittenInv, ReadableNow
<1>5. \/ UNCHANGED <<disk, emitted, writes, first, rotations>>
      \/ MoveAway \/ AppendLine \/ Close \/ Kill
  BY DEF Next, vars, fileVars, healthVars, OpenAppend, Reopen, ReopenAgain, Flush, Spill,
         CallFails, OnTick, OnTradeTransaction, OnTimer, OnInit, OnDeinit, Remove
<1> QED BY <1>1, <1>2, <1>3, <1>4, <1>5, LoadStartsOver

\* As long as the file has not gone away, every line this run of the program counted as
\* written is readable, but for one after each line that a failed write or a killed
\* terminal left without its newline: such a line costs the next one, and no more
\* (JsonExporter.mqh, AppendLine; HealthMonitor.mqh, OnWrite).
THEOREM WrittenIsReadableHolds == Spec => []WrittenIsReadable
<1>1. Init => WrittenInv
  <2> SUFFICES ASSUME Init PROVE WrittenInv
    OBVIOUS
  <2>1. disk = <<>> /\ Len(disk) = 0 /\ writes = 0 /\ Torn = 0 /\ TypeInv
    BY TypesAtStart DEF Init, Torn
  <2>2. Cardinality(ReadableNow) \in Nat /\ Cardinality(Unfinished) \in Nat
    BY <2>1, LinesAreFinite
  <2> QED BY <2>1, <2>2 DEF WrittenInv, ReadableNow
<1>2. TypeInv /\ TypeInv' /\ WrittenInv /\ [Next]_vars => WrittenInv'
  BY NextKeepsWritten
<1>3. TypeInv /\ WrittenInv => WrittenIsReadable
  <2> SUFFICES ASSUME TypeInv, WrittenInv, rotations = 0
               PROVE  writes <= Cardinality(ReadableNow) + Cardinality(Unfinished)
    BY DEF WrittenIsReadable, ReadableNow
  <2>1. /\ writes + Torn <= Cardinality(ReadableNow) + Cardinality(Unfinished)
        /\ Torn \in 0..1 /\ writes \in Nat
        /\ Cardinality(ReadableNow) \in Nat /\ Cardinality(Unfinished) \in Nat
    BY LinesAreFinite, ConstantsAreTyped DEF WrittenInv, ReadableNow, Torn, TypeInv, TypeOK
  <2> QED BY <2>1
<1> QED BY <1>1, <1>2, <1>3, TypesAreInvariant, PTL DEF Spec

-----------------------------------------------------------------------------
(* What a reader sees *)

\* The lines follow one another in the file in the order of their numbers, each in one
\* piece, and a newline comes only after a whole line.
Pieces ==
  /\ \A i \in 1..Len(disk) : disk[i] <= emitted
  /\ \A i, j \in 1..Len(disk) : i < j /\ disk[j] # NL => disk[i] <= disk[j]
  /\ \A i, j \in 1..Len(disk) : i < j /\ disk[i] = disk[j] /\ disk[j] # NL => j < i + Width
  /\ \A i \in 1..Len(disk) : disk[i] = NL =>
       /\ Width < i /\ disk[i - 1] # NL
       /\ \A c \in 1..Width : disk[i - c] = disk[i - 1]

\* Nothing is unseen of a file that is closed; the numbers skip none after a newline that
\* is not yet seen, since only what is not seen is lost.
StreamInv ==
  /\ Pieces
  /\ open => present
  /\ ~present => disk = <<>>
  /\ ~open => shown = Len(disk)
  /\ \A i \in 1..Len(disk) : shown < i /\ disk[i] = NL =>
       IF i = Len(disk) THEN disk[i - 1] = emitted ELSE disk[i + 1] = disk[i - 1] + 1

LEMMA Places ==
  ASSUME TypeInv
  PROVE  /\ disk \in Seq(0..MaxLines) /\ Len(disk) \in Nat /\ shown \in Nat /\ shown <= Len(disk)
         /\ emitted \in Nat /\ emitted <= MaxLines /\ MaxLines \in Nat /\ rotations \in Nat
         /\ Width \in Nat \ {0}
         /\ \A i \in 1..Len(disk) : disk[i] \in Nat /\ (disk[i] # NL => disk[i] \in Nat \ {0})
<1>1. /\ disk \in Seq(0..MaxLines) /\ shown \in 0..Len(disk) /\ emitted \in 0..MaxLines
      /\ rotations \in 0..MaxRotations
  BY DEF TypeInv, TypeOK
<1>2. \A i \in 1..Len(disk) : disk[i] \in 0..MaxLines
  BY <1>1, ElementsOf
<1>3. Len(disk) \in Nat
  BY <1>1
<1>4. \A i \in 1..Len(disk) : disk[i] \in Nat /\ (disk[i] # NL => disk[i] \in Nat \ {0})
  BY <1>2, ConstantsAreTyped DEF NL
<1> QED BY <1>1, <1>3, <1>4, ConstantsAreTyped

\* A line, or a part of it, is appended.
LEMMA AppendKeepsStream ==
  ASSUME TypeInv, StreamInv, AppendLine
  PROVE  StreamInv'
<1>0. /\ open /\ UNCHANGED <<shown, present, open>>
  BY DEF AppendLine
<1>1. PICK cells \in 0..(Width + 1) :
       /\ disk' = disk \o SubSeq(Cells(emitted + 1), 1, cells)
       /\ emitted' = IF cells = 0 THEN emitted ELSE emitted + 1
  BY DEF AppendLine
<1> DEFINE n == Len(disk)
           m == Len(disk')
<1>2. /\ disk \in Seq(0..MaxLines) /\ n \in Nat /\ shown \in Nat /\ shown <= n /\ emitted \in Nat
      /\ Width \in Nat \ {0} /\ emitted + 1 \in 1..MaxLines
      /\ \A i \in 1..n : disk[i] \in Nat
  BY Places DEF AppendLine
<1>3. /\ disk' \in Seq(0..MaxLines) /\ m = n + cells /\ cells \in Nat /\ cells <= Width + 1
      /\ \A i \in 1..n : disk'[i] = disk[i]
      /\ \A i \in 1..cells : disk'[n + i] = IF i <= Width THEN emitted + 1 ELSE NL
  <2>1. cells \in Nat /\ cells <= Width + 1
    BY <1>2
  <2>2. disk \in Seq(0..MaxLines) /\ emitted + 1 \in 1..MaxLines /\ cells \in 0..(Width + 1)
        /\ disk' = disk \o SubSeq(Cells(emitted + 1), 1, cells)
    BY <1>1, <1>2
  <2> QED BY ONLY <2>1, <2>2, AppendedFile
<1>4. Pieces
  BY DEF StreamInv
<1>5. CASE cells = 0
  <2>1. disk' = disk /\ emitted' = emitted
    <3>1. m = n
      BY <1>2, <1>3, <1>5
    <3> QED BY <1>1, <1>2, <1>3, <1>5, <3>1
  <2> QED BY <1>0, <2>1 DEF StreamInv, Pieces
<1>6. CASE cells # 0
  <2>0. emitted' = emitted + 1
    BY <1>1, <1>6
  <2> HIDE DEF n, m
  <2>1. \A i \in 1..m : i \notin 1..n =>
          /\ i - n \in 1..cells /\ n + (i - n) = i
          /\ disk'[i] = IF i <= n + Width THEN emitted + 1 ELSE NL
          /\ i > n + Width => i = m /\ i = n + Width + 1
    <3> SUFFICES ASSUME NEW i \in 1..m, i \notin 1..n
                 PROVE  /\ i - n \in 1..cells /\ n + (i - n) = i
                        /\ disk'[i] = IF i <= n + Width THEN emitted + 1 ELSE NL
                        /\ i > n + Width => i = m /\ i = n + Width + 1
      OBVIOUS
    <3>1. /\ i - n \in 1..cells /\ n + (i - n) = i /\ (i - n <= Width <=> i <= n + Width)
          /\ i > n + Width => i = m /\ i = n + Width + 1
      BY <1>2, <1>3
    <3> QED BY <1>3, <3>1
  <2>2. \A i \in 1..m : disk'[i] \in Nat /\ disk'[i] <= emitted + 1
    <3> SUFFICES ASSUME NEW i \in 1..m
                 PROVE  disk'[i] \in Nat /\ disk'[i] <= emitted + 1
      OBVIOUS
    <3>1. CASE i \in 1..n
      <4>1. disk'[i] = disk[i] /\ disk[i] \in Nat /\ disk[i] <= emitted
        BY <1>2, <1>3, <1>4, <3>1 DEF Pieces, n
      <4> QED BY <1>2, <4>1
    <3>2. CASE i \notin 1..n
      <4>1. disk'[i] = emitted + 1 \/ disk'[i] = NL
        BY <2>1, <3>2
      <4> QED BY <1>2, <4>1 DEF NL
    <3> QED BY <3>1, <3>2
  <2>3. \A i, j \in 1..m : i < j /\ j \in 1..n => i \in 1..n
    BY <1>2, <1>3
  <2>4. ASSUME NEW i \in 1..m, NEW j \in 1..m, i < j, disk'[j] # NL
        PROVE  disk'[i] <= disk'[j]
    <3>1. CASE j \in 1..n
      BY <1>3, <1>4, <2>3, <2>4, <3>1 DEF Pieces, n
    <3>2. CASE j \notin 1..n
      BY <2>1, <2>2, <2>4, <3>2
    <3> QED BY <3>1, <3>2
  <2>5. ASSUME NEW i \in 1..m, NEW j \in 1..m, i < j, disk'[i] = disk'[j], disk'[j] # NL
        PROVE  j < i + Width
    <3>1. CASE j \in 1..n
      BY <1>3, <1>4, <2>3, <2>5, <3>1 DEF Pieces, n
    <3>2. CASE j \notin 1..n
      <4>1. disk'[j] = emitted + 1 /\ j <= n + Width
        BY <2>1, <2>5, <3>2
      <4>2. i \notin 1..n
        <5>1. i \in 1..n => disk'[i] = disk[i] /\ disk[i] \in Nat /\ disk[i] <= emitted
          BY <1>2, <1>3, <1>4 DEF Pieces, n
        <5> QED BY <1>2, <2>5, <4>1, <5>1
      <4> QED BY <1>2, <1>3, <4>1, <4>2
    <3> QED BY <3>1, <3>2
  <2>6. ASSUME NEW i \in 1..m, disk'[i] = NL
        PROVE  /\ Width < i /\ disk'[i - 1] # NL
               /\ \A c \in 1..Width : disk'[i - c] = disk'[i - 1]
    <3>1. CASE i \in 1..n
      <4>1. /\ Width < i /\ disk[i - 1] # NL
            /\ \A c \in 1..Width : disk[i - c] = disk[i - 1]
        BY <1>3, <1>4, <2>6, <3>1 DEF Pieces, n
      <4>2. i - 1 \in 1..n /\ \A c \in 1..Width : i - c \in 1..n
        BY <1>2, <3>1, <4>1
      <4> QED BY <1>3, <4>1, <4>2
    <3>2. CASE i \notin 1..n
      <4>1. i = n + Width + 1
        <5>1. ~(i <= n + Width)
          BY <1>2, <2>1, <2>6, <3>2 DEF NL
        <5> QED BY <1>2, <1>3, <2>1, <3>2, <5>1
      <4>2. \A c \in 1..Width : /\ i - c \in 1..m /\ i - c \notin 1..n /\ i - c <= n + Width
        BY <1>2, <1>3, <4>1
      <4>3. \A c \in 1..Width : disk'[i - c] = emitted + 1
        BY <2>1, <4>2
      <4>4. 1 \in 1..Width /\ emitted + 1 # NL /\ Width < i
        BY <1>2, <4>1 DEF NL
      <4> QED BY <4>3, <4>4
    <3> QED BY <3>1, <3>2
  <2>7. ASSUME NEW i \in 1..m, shown < i, disk'[i] = NL
        PROVE  IF i = m THEN disk'[i - 1] = emitted + 1 ELSE disk'[i + 1] = disk'[i - 1] + 1
    <3>1. CASE i \in 1..n
      <4>1. disk[i] = NL /\ disk'[i - 1] = disk[i - 1] /\ i # m
        <5>1. Width < i /\ disk[i] = NL
          BY <1>3, <2>6, <2>7, <3>1
        <5>2. i - 1 \in 1..n /\ i # m
          BY <1>2, <1>3, <1>6, <3>1, <5>1
        <5> QED BY <1>3, <5>1, <5>2
      <4>2. CASE i = n
        <5>1. disk[i - 1] = emitted
          BY <2>7, <3>1, <4>1, <4>2 DEF StreamInv, n
        <5>2. i + 1 \in 1..m /\ i + 1 \notin 1..n /\ i + 1 <= n + Width
          BY <1>2, <1>3, <1>6, <4>2
        <5>3. disk'[i + 1] = emitted + 1
          BY <2>1, <5>2
        <5> QED BY <4>1, <5>1, <5>3
      <4>3. CASE i # n
        <5>1. disk[i + 1] = disk[i - 1] + 1
          BY <2>7, <3>1, <4>1, <4>3 DEF StreamInv, n
        <5>2. i + 1 \in 1..n
          BY <1>2, <3>1, <4>3
        <5> QED BY <1>3, <4>1, <5>1, <5>2
      <4> QED BY <4>2, <4>3
    <3>2. CASE i \notin 1..n
      <4>1. i = n + Width + 1 /\ i = m
        <5>1. ~(i <= n + Width)
          BY <1>2, <2>1, <2>7, <3>2 DEF NL
        <5> QED BY <1>2, <1>3, <2>1, <3>2, <5>1
      <4>2. i - 1 \in 1..m /\ i - 1 \notin 1..n /\ i - 1 <= n + Width
        BY <1>2, <1>3, <4>1
      <4> QED BY <2>1, <4>1, <4>2
    <3> QED BY <3>1, <3>2
  <2>8. Pieces'
    BY <2>0, <2>2, <2>4, <2>5, <2>6 DEF Pieces, m
  <2>9. present
    BY <1>0 DEF StreamInv
  <2> QED BY <1>0, <2>0, <2>7, <2>8, <2>9 DEF StreamInv, m
<1> QED BY <1>5, <1>6

\* A killed terminal loses what was not yet visible.
LEMMA KillKeepsStream ==
  ASSUME TypeInv, StreamInv, Kill
  PROVE  StreamInv'
<1>1. /\ disk' = SubSeq(disk, 1, shown) /\ open' = FALSE
      /\ UNCHANGED <<shown, present, emitted>>
  BY DEF Kill
<1>2. /\ disk \in Seq(0..MaxLines) /\ Len(disk) \in Nat /\ shown \in Nat /\ shown <= Len(disk)
      /\ Width \in Nat \ {0}
  BY Places
<1>3. Len(disk') = shown /\ \A i \in 1..shown : disk'[i] = disk[i] /\ i \in 1..Len(disk)
  BY <1>1, <1>2, Prefixes
<1>4. ASSUME NEW i \in 1..shown, disk'[i] = NL
      PROVE  /\ Width < i /\ disk'[i - 1] # NL
             /\ \A c \in 1..Width : disk'[i - c] = disk'[i - 1]
  <2>1. /\ Width < i /\ disk[i - 1] # NL
        /\ \A c \in 1..Width : disk[i - c] = disk[i - 1]
    BY <1>3, <1>4 DEF StreamInv, Pieces
  <2>2. i - 1 \in 1..shown /\ \A c \in 1..Width : i - c \in 1..shown
    BY <1>2, <2>1
  <2>3. disk'[i - 1] = disk[i - 1] /\ \A c \in 1..Width : disk'[i - c] = disk[i - c]
    BY <1>3, <2>2
  <2> QED BY <2>1, <2>3
<1>5. Pieces'
  <2>1. Pieces /\ emitted' = emitted
    BY <1>1 DEF StreamInv
  <2>2. Len(disk') = shown /\ \A i \in 1..shown : disk'[i] = disk[i] /\ i \in 1..Len(disk)
    BY <1>3
  <2>3. /\ \A i \in 1..shown : disk'[i] <= emitted
        /\ \A i, j \in 1..shown : i < j /\ disk'[j] # NL => disk'[i] <= disk'[j]
        /\ \A i, j \in 1..shown :
             i < j /\ disk'[i] = disk'[j] /\ disk'[j] # NL => j < i + Width
    BY ONLY <2>1, <2>2 DEF Pieces
  <2> QED BY ONLY <1>4, <2>1, <2>2, <2>3 DEF Pieces
<1>6. ~present => disk' = <<>>
  <2> SUFFICES ASSUME ~present PROVE disk' = <<>>
    OBVIOUS
  <2>1. disk = <<>>
    BY DEF StreamInv
  <2>2. shown = 0 /\ disk' \in Seq(0..MaxLines)
    <3>1. Len(disk) = 0
      BY <2>1
    <3> QED BY <1>1, <1>2, <3>1, Prefixes
  <2> QED BY <1>3, <2>2
<1>7. \A i \in 1..shown : ~(shown < i)
  BY <1>2
<1> QED BY <1>1, <1>3, <1>5, <1>6, <1>7 DEF StreamInv

\* The other steps leave the file as it is, show more of it, or start a new one.
LEMMA FileKeepsStream ==
  ASSUME TypeInv, StreamInv, UNCHANGED <<disk, emitted>>, shown' = shown \/ shown' = shown + 1,
         open' => present', present => present', ~open' => shown' = Len(disk)
  PROVE  StreamInv'
<1>1. Pieces'
  BY DEF StreamInv, Pieces
<1>2. \A i \in 1..Len(disk) : shown' < i => shown < i
  BY Places
<1>3. \A i \in 1..Len(disk) : shown' < i /\ disk[i] = NL =>
        IF i = Len(disk) THEN disk[i - 1] = emitted ELSE disk[i + 1] = disk[i - 1] + 1
  BY <1>2 DEF StreamInv
<1> QED BY <1>1, <1>3 DEF StreamInv

LEMMA MoveKeepsStream ==
  ASSUME TypeInv, MoveAway, ~open'
  PROVE  StreamInv'
<1>1. disk' = <<>> /\ shown' = 0 /\ Len(disk') = 0 /\ \A i \in 1..0 : FALSE
  BY DEF MoveAway
<1> QED BY <1>1 DEF StreamInv, Pieces

LEMMA NextKeepsStream ==
  ASSUME TypeInv, StreamInv, [Next]_vars
  PROVE  StreamInv'
<1>0. StreamInv => (open => present) /\ (~open => shown = Len(disk))
  BY DEF StreamInv
<1>1. ASSUME UNCHANGED <<disk, emitted, shown, present, open>>
      PROVE  StreamInv'
  BY <1>0, <1>1, FileKeepsStream
<1>2. ASSUME OpenAppend
      PROVE  StreamInv'
  BY <1>0, <1>2, FileKeepsStream DEF OpenAppend
<1>3. CASE Reopen
  <2>1. ~open
    BY <1>3 DEF Reopen
  <2>2. \/ UNCHANGED <<disk, emitted, shown, present, open>>
        \/ OpenAppend
        \/ MoveAway /\ ~open'
    BY <1>3, <2>1 DEF Reopen, fileVars, exporterVars
  <2> QED BY <1>1, <1>2, <2>2, MoveKeepsStream
<1>4. CASE ReopenAgain \/ OnInit
  <2>1. UNCHANGED <<disk, emitted, shown, present, open>> \/ OpenAppend
    BY <1>4 DEF ReopenAgain, OnInit, fileVars
  <2> QED BY <1>1, <1>2, <2>1
<1>5. CASE Spill
  <2>1. UNCHANGED <<disk, emitted, present, open>> /\ shown' = shown + 1 /\ shown < Len(disk)
    BY <1>5 DEF Spill, exporterVars
  <2>2. open
    BY <1>0, <2>1, Places
  <2> QED BY <1>0, <2>1, <2>2, FileKeepsStream
<1>6. CASE Close
  <2>1. UNCHANGED <<disk, emitted, shown, present>> /\ open' = FALSE /\ shown = Len(disk)
    BY <1>6 DEF Close, fileVars
  <2> QED BY <2>1, FileKeepsStream
<1>7. CASE Remove
  BY <1>7, MoveKeepsStream DEF Remove, exporterVars
<1>8. CASE Flush \/ CallFails \/ OnTick \/ OnTradeTransaction \/ OnTimer \/ OnDeinit
           \/ UNCHANGED vars
  BY <1>1, <1>8 DEF Flush, CallFails, OnTick, OnTradeTransaction, OnTimer, OnDeinit, vars,
                    fileVars, exporterVars
<1> QED BY <1>3, <1>4, <1>5, <1>6, <1>7, <1>8, AppendKeepsStream, KillKeepsStream DEF Next

\* Two files that begin alike look alike, and one more cell is one more at the end.
LEMMA SamePrefix ==
  ASSUME NEW S, NEW s \in Seq(S), NEW r \in Seq(S), NEW k \in Nat, k <= Len(s), k <= Len(r),
         \A i \in 1..k : r[i] = s[i]
  PROVE  SubSeq(r, 1, k) = SubSeq(s, 1, k)
<1>1. SubSeq(s, 1, k) = [i \in 1..k |-> s[i]] /\ SubSeq(r, 1, k) = [i \in 1..k |-> r[i]]
  OBVIOUS
<1>2. [i \in 1..k |-> s[i]] = [i \in 1..k |-> r[i]]
  OBVIOUS
<1> QED BY <1>1, <1>2

LEMMA LongerPrefix ==
  ASSUME NEW S, NEW s \in Seq(S), NEW k \in Nat, k < Len(s)
  PROVE  SubSeq(s, 1, k + 1) = Append(SubSeq(s, 1, k), s[k + 1])
OBVIOUS

\* How many of the first k cells belong to line n.
Count(s, k, n) == Cardinality({i \in 1..k : s[i] = n})

\* No cell of a line is seen.
LEMMA NoneSeen ==
  ASSUME NEW s, NEW k \in Nat, NEW n, \A i \in 1..k : s[i] # n
  PROVE  Count(s, k, n) = 0
<1>1. {i \in 1..k : s[i] = n} = {}
  OBVIOUS
<1> QED BY <1>1, FS_EmptySet DEF Count

\* One more cell is one more cell of its line.
LEMMA OneMoreSeen ==
  ASSUME NEW s, NEW k \in Nat, NEW n, s[k + 1] = n
  PROVE  Count(s, k, n) \in Nat /\ Count(s, k + 1, n) = Count(s, k, n) + 1
<1> DEFINE T == {i \in 1..k : s[i] = n}
<1>1. IsFiniteSet(1..k)
  BY FS_Interval
<1>2. IsFiniteSet(T) /\ Cardinality(T) \in Nat
  BY <1>1, FS_Subset, FS_CardinalityType
<1>3. {i \in 1..(k + 1) : s[i] = n} = T \cup {k + 1} /\ k + 1 \notin T
  OBVIOUS
<1> HIDE DEF T
<1>4. Cardinality(T \cup {k + 1}) = Cardinality(T) + 1
  BY <1>2, <1>3, FS_AddElement
<1>5. Count(s, k, n) = Cardinality(T) /\ Count(s, k + 1, n) = Cardinality(T \cup {k + 1})
  BY <1>3 DEF Count, T
<1> QED BY <1>2, <1>4, <1>5

\* Cells that lie in a stretch of the file are no more than it is long.
LEMMA SeenWithin ==
  ASSUME NEW s, NEW k \in Nat, NEW n, NEW w \in Nat,
         \A i \in 1..k : s[i] = n => k < i + w
  PROVE  /\ Count(s, k, n) <= w
         /\ (w <= k /\ \A i \in 1..k : k < i + w => s[i] = n) => Count(s, k, n) = w
<1> DEFINE T == {i \in 1..k : s[i] = n}
           R == (k - w + 1)..k
<1>1. IsFiniteSet(R) /\ Cardinality(R) = w
  BY FS_Interval
<1>2. T \in SUBSET R
  OBVIOUS
<1>3. (w <= k /\ \A i \in 1..k : k < i + w => s[i] = n) => T = R
  OBVIOUS
<1>4. Cardinality(T) <= Cardinality(R)
  <2> HIDE DEF T, R
  <2> QED BY <1>1, <1>2, FS_Subset
<1>5. Count(s, k, n) = Cardinality(T)
  BY DEF Count
<1> QED BY <1>1, <1>3, <1>4, <1>5

LEMMA CellsAreCounted ==
  /\ ShownCells = Count(disk, shown, ShownNext)
  /\ ShownCells' = Count(disk', shown', ShownNext')
BY DEF ShownCells, Count

\* The line the next cell belongs to, and what is seen of it: nothing of a line that is
\* not begun, and nothing at the end of the file.
LEMMA NextToShow ==
  ASSUME TypeInv, StreamInv
  PROVE  /\ ShownNext \in 1..(MaxLines + 1)
         /\ shown = Len(disk) => ShownNext = emitted + 1 /\ ShownCells = 0
         /\ shown < Len(disk) => ShownNext <= emitted
<1>1. /\ disk \in Seq(0..MaxLines) /\ Len(disk) \in Nat /\ shown \in Nat /\ shown <= Len(disk)
      /\ emitted \in Nat /\ emitted <= MaxLines /\ MaxLines \in Nat /\ Width \in Nat \ {0}
      /\ \A i \in 1..Len(disk) : disk[i] \in Nat /\ (disk[i] # NL => disk[i] \in Nat \ {0})
  BY Places
<1>2. /\ \A i \in 1..Len(disk) : disk[i] <= emitted
      /\ \A i \in 1..Len(disk) : disk[i] = NL => Width < i /\ disk[i - 1] # NL
  BY DEF StreamInv, Pieces
<1>3. CASE shown = Len(disk)
  <2>1. ShownNext = emitted + 1
    BY <1>3 DEF ShownNext
  <2>2. \A i \in 1..shown : disk[i] # emitted + 1
    BY <1>1, <1>2, <1>3
  <2>3. ShownCells = 0
    BY <1>1, <2>1, <2>2, NoneSeen, CellsAreCounted
  <2> QED BY <1>1, <1>3, <2>1, <2>3
<1>4. CASE shown < Len(disk)
  <2>1. shown + 1 \in 1..Len(disk) /\ shown # Len(disk)
    BY <1>1, <1>4
  <2>2. PICK i \in 1..Len(disk) : disk[i] # NL /\ ShownNext = disk[i]
    <3>1. CASE disk[shown + 1] # NL
      BY <2>1, <3>1 DEF ShownNext
    <3>2. CASE disk[shown + 1] = NL
      <4>1. Width < shown + 1 /\ disk[(shown + 1) - 1] # NL
        BY <1>2, <2>1, <3>2
      <4>2. shown \in 1..Len(disk) /\ (shown + 1) - 1 = shown
        BY <1>1, <1>4, <4>1
      <4> QED BY <2>1, <3>2, <4>1, <4>2 DEF ShownNext
    <3> QED BY <3>1, <3>2
  <2>3. disk[i] \in Nat \ {0} /\ disk[i] <= emitted
    BY <1>1, <1>2, <2>2
  <2> QED BY <1>1, <1>4, <2>2, <2>3
<1> QED BY <1>1, <1>3, <1>4

LEMMA StreamAtStart == Init => StreamInv /\ Stream!StreamInit
<1> SUFFICES ASSUME Init PROVE StreamInv /\ Stream!StreamInit
  OBVIOUS
<1>1. disk = <<>> /\ shown = 0 /\ emitted = 0 /\ open = FALSE /\ Len(disk) = 0
  BY DEF Init
<1>2. StreamInv
  <2>1. \A i \in 1..0 : FALSE
    OBVIOUS
  <2> QED BY <1>1, <2>1 DEF StreamInv, Pieces
<1>3. ShownNext = 1 /\ ShownCells = 0
  BY <1>1, <1>2, TypesAtStart, NextToShow
<1>4. Visible = <<>>
  BY <1>1 DEF Visible
<1> QED BY <1>2, <1>3, <1>4 DEF Stream!StreamInit, Init

\* What a reader sees of the file.
Seen == <<Visible, present, inode, ShownNext, ShownCells, rotations>>

\* A line appended is not seen yet.
LEMMA AppendIsUnseen ==
  ASSUME TypeInv, StreamInv, AppendLine
  PROVE  UNCHANGED Seen
<1>1. PICK cells \in 0..(Width + 1) :
       /\ disk' = disk \o SubSeq(Cells(emitted + 1), 1, cells)
       /\ emitted' = IF cells = 0 THEN emitted ELSE emitted + 1
  BY DEF AppendLine
<1>2. UNCHANGED <<shown, present, inode, rotations>>
  BY DEF AppendLine
<1>3. /\ disk \in Seq(0..MaxLines) /\ Len(disk) \in Nat /\ shown \in Nat /\ shown <= Len(disk)
      /\ emitted \in Nat /\ Width \in Nat \ {0} /\ emitted + 1 \in 1..MaxLines
  BY Places DEF AppendLine
<1>4. /\ disk' \in Seq(0..MaxLines) /\ Len(disk') = Len(disk) + cells /\ cells \in Nat
      /\ \A i \in 1..Len(disk) : disk'[i] = disk[i]
      /\ \A i \in 1..cells : disk'[Len(disk) + i] = IF i <= Width THEN emitted + 1 ELSE NL
  BY <1>1, <1>3, AppendedFile
<1>5. \A i \in 1..shown : i \in 1..Len(disk) /\ disk'[i] = disk[i]
  BY <1>3, <1>4
<1>6. UNCHANGED Visible
  <2>1. shown <= Len(disk')
    BY <1>3, <1>4
  <2> QED BY <1>2, <1>3, <1>4, <1>5, <2>1, SamePrefix DEF Visible
<1>7. UNCHANGED ShownNext
  <2>1. CASE cells = 0
    <3>1. Len(disk') = Len(disk)
      BY <1>3, <1>4, <2>1
    <3>2. disk' = disk
      BY <1>3, <1>4, <3>1
    <3> QED BY <1>1, <1>2, <2>1, <3>2 DEF ShownNext
  <2>2. CASE cells # 0 /\ shown = Len(disk)
    <3>1. shown # Len(disk') /\ 1 \in 1..cells /\ 1 <= Width
      BY <1>3, <1>4, <2>2
    <3>2. disk'[shown + 1] = emitted + 1 /\ emitted + 1 # NL
      BY <1>3, <1>4, <2>2, <3>1 DEF NL
    <3> QED BY <1>2, <2>2, <3>1, <3>2 DEF ShownNext
  <2>3. CASE shown # Len(disk)
    <3>1. shown # Len(disk') /\ shown + 1 \in 1..Len(disk)
      BY <1>3, <1>4, <2>3
    <3>2. disk[shown + 1] = NL => shown \in 1..Len(disk)
      <4>1. disk[shown + 1] = NL => Width < shown + 1
        BY <3>1 DEF StreamInv, Pieces
      <4> QED BY <1>3, <4>1
    <3> QED BY <1>2, <1>4, <2>3, <3>1, <3>2 DEF ShownNext
  <2> QED BY <2>1, <2>2, <2>3
<1>8. UNCHANGED ShownCells
  BY <1>2, <1>5, <1>7 DEF ShownCells
<1> QED BY <1>2, <1>6, <1>7, <1>8 DEF Seen

\* A new file starts empty; what the bridge writes next is whole.
LEMMA MoveIsUnlink ==
  ASSUME TypeInv, StreamInv, MoveAway, ~open
  PROVE  Stream!Unlink
<1>1. /\ present /\ rotations < MaxRotations /\ present' = FALSE /\ disk' = <<>> /\ shown' = 0
      /\ rotations' = rotations + 1 /\ UNCHANGED <<inode, emitted>>
  BY DEF MoveAway
<1>2. ShownNext = emitted + 1 /\ ShownCells = 0
  BY NextToShow DEF StreamInv
<1>3. Len(disk') = 0 /\ Visible' = <<>>
  BY <1>1 DEF Visible
<1>4. ShownNext' = emitted + 1
  BY <1>1, <1>3 DEF ShownNext
<1>5. ShownCells' = 0
  <2>1. \A i \in 1..0 : disk'[i] # ShownNext'
    OBVIOUS
  <2> QED BY <1>1, <2>1, NoneSeen, CellsAreCounted
<1> QED BY <1>1, <1>2, <1>3, <1>4, <1>5 DEF Stream!Unlink, Stream!StartOver

LEMMA OpenIsRecreate ==
  ASSUME TypeInv, StreamInv, OpenAppend
  PROVE  Stream!Recreate \/ UNCHANGED Seen
<1>1. UNCHANGED <<Visible, ShownNext, ShownCells, rotations>>
  BY DEF OpenAppend, Visible, ShownNext, ShownCells
<1>2. CASE present
  <2>1. UNCHANGED <<present, inode>>
    BY <1>2 DEF OpenAppend, TypeInv, TypeOK
  <2> QED BY <1>1, <2>1 DEF Seen
<1>3. CASE ~present
  BY <1>1, <1>3 DEF OpenAppend, Stream!Recreate
<1> QED BY <1>2, <1>3

\* What is lost with the terminal had not been seen.
LEMMA KillIsBreakOff ==
  ASSUME TypeInv, StreamInv, Kill
  PROVE  Stream!BreakOff \/ UNCHANGED Seen
<1>1. /\ disk' = SubSeq(disk, 1, shown) /\ UNCHANGED <<shown, present, inode, emitted, rotations>>
  BY DEF Kill
<1>2. /\ disk \in Seq(0..MaxLines) /\ Len(disk) \in Nat /\ shown \in Nat /\ shown <= Len(disk)
      /\ emitted \in Nat /\ emitted <= MaxLines /\ MaxLines \in Nat
  BY Places
<1>3. /\ disk' \in Seq(0..MaxLines) /\ Len(disk') = shown /\ \A i \in 1..shown : disk'[i] = disk[i]
  BY <1>1, <1>2, Prefixes
<1>4. UNCHANGED Visible
  BY <1>1, <1>2, <1>3, SamePrefix DEF Visible
<1>5. ShownNext' = emitted + 1
  BY <1>1, <1>3 DEF ShownNext
<1>6. ShownCells' = 0
  <2>1. \A i \in 1..shown : disk'[i] # emitted + 1
    <3>1. \A i \in 1..shown : i \in 1..Len(disk)
      BY <1>2
    <3>2. \A i \in 1..Len(disk) : disk[i] \in Nat /\ disk[i] <= emitted
      BY Places DEF StreamInv, Pieces
    <3>3. \A x : x \in Nat /\ x <= emitted => x # emitted + 1
      BY <1>2
    <3> QED BY <1>3, <3>1, <3>2, <3>3
  <2> QED BY <1>1, <1>2, <1>5, <2>1, NoneSeen, CellsAreCounted
<1>7. CASE shown = Len(disk)
  <2>1. ShownNext = emitted + 1 /\ ShownCells = 0
    BY <1>7, NextToShow
  <2> QED BY <1>1, <1>4, <1>5, <1>6, <2>1 DEF Seen
<1>8. CASE shown # Len(disk)
  <2>1. ShownNext \in 1..(MaxLines + 1) /\ ShownNext <= emitted
    BY <1>2, <1>8, NextToShow
  <2>2. ShownNext <= MaxLines /\ emitted + 1 \in (ShownNext + 1)..(MaxLines + 1)
    BY <1>2, <2>1
  <2> QED BY <1>1, <1>4, <1>5, <1>6, <2>2 DEF Stream!BreakOff
<1> QED BY <1>7, <1>8

\* A cell of a line that is not its newline: the line is shown further, and broken off if
\* nothing more of it was written.
LEMMA CellIsPart ==
  ASSUME TypeInv, StreamInv, Spill, disk[shown + 1] # NL
  PROVE  Stream!FlushPart \/ Stream!BreakOff
<1> DEFINE n == disk[shown + 1]
<1>1. shown < Len(disk) /\ shown' = shown + 1 /\ UNCHANGED <<disk, present, inode, emitted, rotations>>
  BY DEF Spill
<1>2. /\ disk \in Seq(0..MaxLines) /\ Len(disk) \in Nat /\ shown \in Nat
      /\ emitted \in Nat /\ emitted <= MaxLines /\ MaxLines \in Nat /\ Width \in Nat \ {0}
      /\ \A i \in 1..Len(disk) : disk[i] \in Nat /\ (disk[i] # NL => disk[i] \in Nat \ {0})
  BY Places
<1>3. /\ \A i \in 1..Len(disk) : disk[i] <= emitted
      /\ \A i, j \in 1..Len(disk) : i < j /\ disk[j] # NL => disk[i] <= disk[j]
      /\ \A i, j \in 1..Len(disk) : i < j /\ disk[i] = disk[j] /\ disk[j] # NL => j < i + Width
  BY DEF StreamInv, Pieces
<1>4. shown + 1 \in 1..Len(disk) /\ \A i \in 1..shown : i \in 1..Len(disk) /\ i < shown + 1
  BY <1>1, <1>2
<1>5. n \in Nat \ {0} /\ n <= emitted /\ n <= MaxLines
  BY <1>2, <1>3, <1>4
<1>6. ShownNext = n
  BY <1>1 DEF ShownNext
<1>7. Visible' = Append(Visible, n)
  BY <1>1, <1>2, LongerPrefix DEF Visible
<1>8. present
  <2>1. disk # <<>>
    BY <1>1, <1>2
  <2> QED BY <2>1 DEF StreamInv
<1>9. ShownCells \in Nat /\ ShownCells < Width
  <2>1. \A i \in 1..shown : disk[i] = n => shown + 1 < i + Width
    BY <1>3, <1>4
  <2>2. Width - 1 \in Nat /\ \A i \in 1..shown : disk[i] = n => shown < i + (Width - 1)
    BY <1>2, <2>1
  <2>3. Count(disk, shown, n) <= Width - 1
    <3> DEFINE w == Width - 1
    <3> HIDE DEF w, n
    <3>1. w \in Nat /\ \A i \in 1..shown : disk[i] = n => shown < i + w
      BY <2>2 DEF w
    <3>2. Count(disk, shown, n) <= w
      BY <1>2, <3>1, SeenWithin
    <3> QED BY <3>2 DEF w
  <2>4. Count(disk, shown, n) \in Nat
    BY <1>2, OneMoreSeen
  <2>5. ShownCells = Count(disk, shown, n)
    BY <1>6, CellsAreCounted
  <2> HIDE DEF n
  <2> QED BY <1>2, <2>3, <2>4, <2>5
<1>10. CASE ShownNext' = n
  <2>1. ShownCells' = ShownCells + 1
    <3>1. ShownCells = Count(disk, shown, n) /\ ShownCells' = Count(disk, shown + 1, n)
      BY <1>1, <1>6, <1>10, CellsAreCounted
    <3> QED BY <1>2, <3>1, OneMoreSeen
  <2> QED BY <1>1, <1>5, <1>6, <1>7, <1>8, <1>9, <1>10, <2>1 DEF Stream!FlushPart
<1>11. CASE ShownNext' # n
  <2>1. ShownNext' \in (n + 1)..(MaxLines + 1) /\ \A i \in 1..(shown + 1) : disk[i] # ShownNext'
    <3>1. CASE shown + 1 = Len(disk)
      <4>1. ShownNext' = emitted + 1
        BY <1>1, <3>1 DEF ShownNext
      <4>2. \A i \in 1..(shown + 1) : disk[i] # emitted + 1
        <5>1. \A i \in 1..Len(disk) : disk[i] \in Nat /\ disk[i] <= emitted
          BY <1>2, <1>3
        <5>2. \A i \in 1..(shown + 1) : i \in 1..Len(disk)
          BY <3>1
        <5>3. \A x : x \in Nat /\ x <= emitted => x # emitted + 1
          BY <1>2
        <5> QED BY <5>1, <5>2, <5>3
      <4> QED BY <1>2, <1>5, <4>1, <4>2
    <3>2. CASE shown + 1 # Len(disk)
      <4> DEFINE m == disk[shown + 2]
      <4>1. shown + 2 \in 1..Len(disk) /\ shown + 1 < shown + 2 /\ (shown + 1) + 1 = shown + 2
        BY <1>1, <1>2, <3>2
      <4>2. m # NL /\ ShownNext' = m
        <5>1. ShownNext' = IF m # NL THEN m ELSE n
          BY <1>1, <3>2, <4>1 DEF ShownNext
        <5> QED BY <1>11, <5>1
      <4>3. n <= m /\ n # m /\ m <= emitted /\ m \in Nat
        BY <1>2, <1>3, <1>4, <1>11, <4>1, <4>2
      <4>4. \A i \in 1..(shown + 1) : disk[i] # m
        <5>1. \A i \in 1..shown : disk[i] <= n /\ disk[i] \in Nat
          BY <1>2, <1>3, <1>4
        <5>2. \A i \in 1..(shown + 1) : i \in 1..shown \/ i = shown + 1
          BY <1>2
        <5> HIDE DEF m
        <5> QED BY <1>5, <4>3, <5>1, <5>2
      <4> HIDE DEF m, n
      <4> QED BY <1>2, <1>5, <4>2, <4>3, <4>4
    <3> QED BY <3>1, <3>2
  <2>2. ShownCells' = 0
    <3> DEFINE m == ShownNext'
    <3>1. ShownCells' = Count(disk, shown + 1, m)
      BY <1>1, CellsAreCounted
    <3>2. shown + 1 \in Nat /\ \A i \in 1..(shown + 1) : disk[i] # m
      BY <1>2, <2>1
    <3> HIDE DEF m
    <3> QED BY <3>1, <3>2, NoneSeen
  <2> QED BY <1>1, <1>5, <1>6, <1>7, <1>8, <1>9, <2>1, <2>2 DEF Stream!BreakOff
<1> QED BY <1>10, <1>11

\* The newline comes after the whole line, and before the next one.
LEMMA NewlineIsLine ==
  ASSUME TypeInv, StreamInv, Spill, disk[shown + 1] = NL
  PROVE  Stream!FlushLine
<1> DEFINE n == disk[shown]
<1>1. shown < Len(disk) /\ shown' = shown + 1 /\ UNCHANGED <<disk, present, inode, emitted, rotations>>
  BY DEF Spill
<1>2. /\ disk \in Seq(0..MaxLines) /\ Len(disk) \in Nat /\ shown \in Nat
      /\ emitted \in Nat /\ emitted <= MaxLines /\ MaxLines \in Nat /\ Width \in Nat \ {0}
      /\ \A i \in 1..Len(disk) : disk[i] \in Nat /\ (disk[i] # NL => disk[i] \in Nat \ {0})
  BY Places
<1>3. /\ \A i \in 1..Len(disk) : disk[i] <= emitted
      /\ \A i, j \in 1..Len(disk) : i < j /\ disk[j] # NL => disk[i] <= disk[j]
      /\ \A i, j \in 1..Len(disk) : i < j /\ disk[i] = disk[j] /\ disk[j] # NL => j < i + Width
  BY DEF StreamInv, Pieces
<1>4. shown + 1 \in 1..Len(disk) /\ (shown + 1) - 1 = shown
  BY <1>1, <1>2
<1>5. Width < shown + 1 /\ n # NL /\ \A c \in 1..Width : disk[(shown + 1) - c] = n
  BY <1>4 DEF StreamInv, Pieces
<1>6. shown \in 1..Len(disk) /\ n \in Nat \ {0} /\ n <= emitted /\ n <= MaxLines
  <2>1. shown \in 1..Len(disk)
    BY <1>1, <1>2, <1>5
  <2> HIDE DEF n
  <2>2. n \in Nat \ {0} /\ n <= emitted
    BY <1>2, <1>3, <1>5, <2>1 DEF n
  <2> QED BY <1>2, <2>1, <2>2
<1>7. ShownNext = n
  BY <1>1, <1>2 DEF ShownNext
<1>8. ShownCells = Width
  <2>1. ShownCells = Count(disk, shown, n)
    BY <1>7, CellsAreCounted
  <2>2. \A i \in 1..shown : i \in 1..Len(disk) /\ (i < shown \/ i = shown)
    BY <1>2, <1>6
  <2>3. \A i \in 1..shown : disk[i] = n => shown < i + Width
    <3> SUFFICES ASSUME NEW i \in 1..shown, disk[i] = n PROVE shown < i + Width
      OBVIOUS
    <3>1. i < shown => shown < i + Width
      BY <1>3, <1>5, <1>6, <2>2
    <3> QED BY <1>2, <2>2, <3>1
  <2>4. Width <= shown /\ \A i \in 1..shown : shown < i + Width => disk[i] = n
    <3>1. Width <= shown
      BY <1>2, <1>5
    <3>2. ASSUME NEW i \in 1..shown, shown < i + Width PROVE disk[i] = n
      <4>1. (shown + 1) - i \in 1..Width /\ (shown + 1) - ((shown + 1) - i) = i
        BY <1>2, <3>2
      <4> QED BY <1>5, <4>1
    <3> QED BY <3>1, <3>2
  <2> HIDE DEF n
  <2> QED BY <1>2, <2>1, <2>3, <2>4, SeenWithin
<1>9. Visible' = Visible \o SubSeq(Cells(n), Width + 1, Width + 1)
  <2>1. Visible' = Append(Visible, NL)
    BY <1>1, <1>2, LongerPrefix DEF Visible
  <2>2. SubSeq(Cells(n), Width + 1, Width + 1) = <<NL>>
    <3>1. /\ Cells(n) \in [1..(Width + 1) -> Nat] /\ Cells(n)[Width + 1] = NL
          /\ Width + 1 \in 1..(Width + 1)
      BY <1>2, <1>6 DEF Cells, NL
    <3> HIDE DEF n
    <3>2. SubSeq(Cells(n), Width + 1, Width + 1) = [i \in 1..1 |-> Cells(n)[Width + 1]]
      BY <1>2
    <3>3. \A e : [i \in 1..1 |-> e] = <<e>>
      OBVIOUS
    <3> QED BY <3>1, <3>2, <3>3
  <2>3. Visible \in Seq(0..MaxLines)
    BY <1>1, <1>2, Prefixes DEF Visible
  <2>4. NL \in 0..MaxLines
    BY <1>2 DEF NL
  <2>5. Visible \o <<NL>> = Append(Visible, NL)
    BY <2>3, <2>4
  <2> QED BY <2>1, <2>2, <2>5
<1>10. ShownNext' = n + 1
  <2>1. IF shown + 1 = Len(disk) THEN disk[shown] = emitted ELSE disk[(shown + 1) + 1] = disk[shown] + 1
    <3>1. shown < shown + 1
      BY <1>2
    <3> QED BY <1>4, <3>1 DEF StreamInv
  <2>2. n + 1 # NL
    BY <1>6 DEF NL
  <2> QED BY <1>1, <2>1, <2>2 DEF ShownNext
<1>11. ShownCells' = 0
  <2>1. \A i \in 1..(shown + 1) : disk[i] # n + 1
    <3>1. \A i \in 1..(shown + 1) : i \in 1..Len(disk) /\ (i < shown \/ i = shown \/ i = shown + 1)
      BY <1>2, <1>4
    <3>2. \A i \in 1..Len(disk) : i < shown => disk[i] <= n
      BY <1>3, <1>5, <1>6
    <3>3. disk[shown + 1] = 0
      BY DEF NL
    <3> HIDE DEF n
    <3>4. disk[shown] = n
      BY DEF n
    <3> QED BY <1>2, <1>6, <3>1, <3>2, <3>3, <3>4
  <2>2. ShownCells' = Count(disk, shown + 1, n + 1)
    BY <1>1, <1>10, CellsAreCounted
  <2>3. shown + 1 \in Nat
    BY <1>2
  <2> HIDE DEF n
  <2> QED BY <2>1, <2>2, <2>3, NoneSeen
<1>12. present
  <2>1. disk # <<>>
    BY <1>1, <1>2
  <2> QED BY <2>1 DEF StreamInv
<1>13. Stream!Cells(n) = Cells(n)
  BY DEF Stream!Cells, Cells, Stream!NL, NL
<1> HIDE DEF n
<1> QED BY <1>1, <1>6, <1>7, <1>8, <1>9, <1>10, <1>11, <1>12, <1>13 DEF Stream!FlushLine

\* Every step of the bridge is, for a reader of the file, a step of the stream or none.
LEMMA NextRefinesStream ==
  ASSUME TypeInv, StreamInv, [Next]_vars
  PROVE  [Stream!StreamNext]_Seen
<1>1. ASSUME UNCHANGED fileVars
      PROVE  UNCHANGED Seen
  BY <1>1 DEF fileVars, Seen, Visible, ShownNext, ShownCells
<1>2. CASE Reopen
  <2>1. ~open
    BY <1>2 DEF Reopen
  <2>2. UNCHANGED fileVars \/ OpenAppend \/ MoveAway
    BY <1>2 DEF Reopen
  <2> QED BY <1>1, <2>1, <2>2, OpenIsRecreate, MoveIsUnlink DEF Stream!StreamNext
<1>3. CASE ReopenAgain \/ OnInit
  <2>1. UNCHANGED fileVars \/ OpenAppend
    BY <1>3 DEF ReopenAgain, OnInit
  <2> QED BY <1>1, <2>1, OpenIsRecreate DEF Stream!StreamNext
<1>4. CASE Spill
  BY <1>4, CellIsPart, NewlineIsLine DEF Stream!StreamNext
<1>5. CASE Kill
  BY <1>5, KillIsBreakOff DEF Stream!StreamNext
<1>6. CASE Remove
  <2>1. MoveAway /\ ~open
    BY <1>6 DEF Remove
  <2> QED BY <2>1, MoveIsUnlink DEF Stream!StreamNext
<1>7. CASE Flush \/ CallFails \/ OnTick \/ OnTradeTransaction \/ OnTimer \/ OnDeinit
           \/ Close \/ UNCHANGED vars
  BY <1>1, <1>7 DEF Flush, CallFails, OnTick, OnTradeTransaction, OnTimer, OnDeinit, Close, vars
<1> QED BY <1>2, <1>3, <1>4, <1>5, <1>6, <1>7, AppendIsUnseen DEF Next

\* What a reader of the bridge's file sees is, whatever fails and whenever the terminal is
\* killed, a stream as BridgeStream.tla describes it, the one the ingestion is checked
\* with: whole lines in the order they were written, torn only where a write failed or
\* the terminal stopped (JsonExporter.mqh: append-only).
THEOREM ImplementsStreamHolds == Spec => ImplementsStream
<1>1. Init => StreamInv /\ Stream!StreamInit
  BY StreamAtStart
<1>2. TypeInv /\ StreamInv /\ [Next]_vars => StreamInv'
  BY NextKeepsStream
<1>3. TypeInv /\ StreamInv /\ [Next]_vars => [Stream!StreamNext]_(Stream!streamVars)
  BY NextRefinesStream DEF Seen, Stream!streamVars
<1> QED BY <1>1, <1>2, <1>3, TypesAreInvariant, PTL DEF Spec, ImplementsStream, Stream!StreamSpec
=============================================================================
