-------------------------- MODULE IngestionProofs ---------------------------
(***************************************************************************)
(* What the ingestion does with the bridge's file, for every width of a    *)
(* line and every number of lines, rotations, failures and crashes: the    *)
(* held partial line is what the file holds, the cursor keeps pace with    *)
(* the reader, and events are inserted in order, once, and none skipped.   *)
(***************************************************************************)
EXTENDS IngestionProperties, FiniteSetTheorems, WellFoundedInduction, TLAPS

Cell == Lines \cup {NL}

\* There is a line to go on with when some of it is visible.
TypeInv == TypeOK /\ (torn # 0 => next <= MaxLines)

-----------------------------------------------------------------------------
(* Sets of positions *)

LEMMA LeastOf ==
  ASSUME NEW T \in SUBSET Nat, T # {}
  PROVE  \E x \in T : \A y \in T : x <= y
<1>1. PICK x \in T : \A y \in T : ~(<<y, x>> \in OpToRel(<, Nat))
  BY WFMin, NatLessThanWellFounded, Zenon
<1>2. \A y \in T : ~(y < x)
  BY <1>1 DEF OpToRel
<1>3. \A y \in T : x <= y
  BY <1>2
<1> QED BY <1>3

LEMMA LargestOf ==
  ASSUME NEW n \in Nat, NEW T \in SUBSET (0..n), T # {}
  PROVE  Max(T) \in T /\ \A y \in T : y <= Max(T)
<1> DEFINE U == {u \in Nat : \A y \in T : y <= u}
<1>1. n \in U /\ U \in SUBSET Nat
  OBVIOUS
<1>2. PICK u \in U : \A v \in U : u <= v
  <2> HIDE DEF U
  <2> QED BY <1>1, LeastOf
<1>3. u \in Nat /\ \A y \in T : y <= u /\ y \in Nat
  OBVIOUS
<1>4. u \in T
  <2> SUFFICES ASSUME u \notin T PROVE FALSE
    OBVIOUS
  <2>1. \A y \in T : y < u
    BY <1>3
  <2>2. u - 1 \in U
    <3>1. PICK y \in T : TRUE
      OBVIOUS
    <3>2. u - 1 \in Nat
      BY <1>3, <2>1, <3>1
    <3>3. \A z \in T : z <= u - 1
      BY <1>3, <2>1
    <3> QED BY <3>2, <3>3
  <2> QED BY <1>2, <1>3, <2>2
<1>5. \E x \in T : \A y \in T : x >= y
  BY <1>3, <1>4
<1>6. Max(T) \in T /\ \A y \in T : Max(T) >= y
  BY <1>5, Zenon DEF Max
<1>7. \A y \in T : y <= Max(T)
  BY <1>3, <1>6
<1> QED BY <1>6, <1>7

LEMMA UpTo ==
  ASSUME NEW n \in Nat, NEW T \in SUBSET (1..n)
  PROVE  /\ IsFiniteSet(T) /\ Cardinality(T) \in Nat
         /\ \A e : /\ IsFiniteSet({i \in T : i <= e})
                   /\ Cardinality({i \in T : i <= e}) \in 0..Cardinality(T)
<1>1. IsFiniteSet(T) /\ Cardinality(T) \in Nat
  <2>1. IsFiniteSet(1..n)
    BY FS_Interval
  <2> QED BY <2>1, FS_Subset, FS_CardinalityType
<1>2. ASSUME NEW e
      PROVE  /\ IsFiniteSet({i \in T : i <= e})
             /\ Cardinality({i \in T : i <= e}) \in 0..Cardinality(T)
  <2>1. {i \in T : i <= e} \in SUBSET T
    OBVIOUS
  <2>2. /\ IsFiniteSet({i \in T : i <= e})
        /\ Cardinality({i \in T : i <= e}) <= Cardinality(T)
        /\ Cardinality({i \in T : i <= e}) \in Nat
    BY <1>1, <2>1, FS_Subset, FS_CardinalityType
  <2> QED BY <1>1, <2>2
<1> QED BY <1>1, <1>2

\* A larger position has more of the set up to it.
LEMMA RanksGrow ==
  ASSUME NEW n \in Nat, NEW T \in SUBSET (1..n), NEW e \in T, NEW f \in T, e < f
  PROVE  Cardinality({i \in T : i <= e}) < Cardinality({i \in T : i <= f})
<1> DEFINE A == {i \in T : i <= e}
           B == {i \in T : i <= f}
<1>0. /\ e \in Int /\ f \in Int /\ ~(f <= e) /\ f <= f
      /\ \A i \in T : i \in Int
  OBVIOUS
<1>1. A \in SUBSET B /\ f \in B /\ f \notin A
  <2>1. \A i \in T : i <= e => i <= f
    BY <1>0
  <2> QED BY <1>0, <2>1
<1>2. IsFiniteSet(A) /\ IsFiniteSet(B) /\ Cardinality(A) \in Nat /\ Cardinality(B) \in Nat
  <2>1. Cardinality(T) \in Nat
    BY UpTo
  <2>2. /\ IsFiniteSet(A) /\ Cardinality(A) \in 0..Cardinality(T)
        /\ IsFiniteSet(B) /\ Cardinality(B) \in 0..Cardinality(T)
    BY UpTo
  <2> HIDE DEF A, B
  <2> QED BY <2>1, <2>2
<1> HIDE DEF A, B
<1>3. A # B /\ Cardinality(A) <= Cardinality(B)
  BY <1>1, <1>2, FS_Subset
<1>4. Cardinality(A) # Cardinality(B)
  BY <1>1, <1>2, <1>3, FS_Subset
<1>5. Cardinality(A) < Cardinality(B)
  BY <1>2, <1>3, <1>4
<1> QED BY <1>5 DEF A, B

\* Every rank up to the size of the set is that of a position.
LEMMA RanksAreTaken ==
  ASSUME NEW n \in Nat, NEW T \in SUBSET (1..n), NEW k \in 1..Cardinality(T)
  PROVE  \E e \in T : Cardinality({i \in T : i <= e}) = k
<1> DEFINE Rank(e) == Cardinality({i \in T : i <= e})
           H == {e \in T : Rank(e) >= k}
<1>0. /\ IsFiniteSet(T) /\ Cardinality(T) \in Nat /\ k \in Nat \ {0}
      /\ \A e : IsFiniteSet({i \in T : i <= e}) /\ Rank(e) \in Nat
  <2>1. IsFiniteSet(T) /\ Cardinality(T) \in Nat
    BY UpTo
  <2>2. \A e : IsFiniteSet({i \in T : i <= e}) /\ Rank(e) \in 0..Cardinality(T)
    BY UpTo
  <2> HIDE DEF Rank
  <2> QED BY <2>1, <2>2
<1>9. \A i \in T : i \in Nat
  OBVIOUS
<1>1. T # {} /\ T \in SUBSET (0..n)
  <2>1. T # {}
    <3>1. Cardinality(T) # 0
      BY <1>0
    <3> QED BY <3>1, FS_EmptySet
  <2> QED BY <2>1
<1>2. Max(T) \in T /\ \A y \in T : y <= Max(T)
  BY <1>1, LargestOf
<1>3. Max(T) \in H
  <2>1. {i \in T : i <= Max(T)} = T
    BY <1>2
  <2>2. Rank(Max(T)) >= k
    BY <1>0, <2>1
  <2> QED BY <1>2, <2>2
<1>4. PICK e \in H : \A f \in H : e <= f
  <2>1. H \in SUBSET Nat
    BY <1>9
  <2> HIDE DEF H
  <2> QED BY <1>3, <2>1, LeastOf
<1> DEFINE L == {i \in T : i < e}
<1>5. e \in T /\ e \in Nat /\ Rank(e) >= k
  BY <1>4
<1>6. IsFiniteSet(L) /\ Cardinality(L) \in Nat /\ Rank(e) = Cardinality(L) + 1
  <2>1. L \in SUBSET T /\ e \notin L /\ {i \in T : i <= e} = L \cup {e}
    <3>1. \A i \in T : i <= e <=> (i < e \/ i = e)
      BY <1>5, <1>9
    <3>2. ~(e < e)
      BY <1>5
    <3> QED BY <1>5, <3>1, <3>2
  <2>2. IsFiniteSet(L)
    BY <1>0, <2>1, FS_Subset
  <2>3. Cardinality(L \cup {e}) = Cardinality(L) + 1 /\ Cardinality(L) \in Nat
    <3> HIDE DEF L
    <3> QED BY <2>1, <2>2, FS_AddElement, FS_CardinalityType
  <2> QED BY <2>1, <2>2, <2>3
<1>7. Cardinality(L) < k
  <2>1. CASE L = {}
    <3>1. Cardinality(L) = 0
      BY <2>1, FS_EmptySet
    <3> QED BY <1>0, <3>1
  <2>2. CASE L # {}
    <3>1. L \in SUBSET (0..n)
      BY <1>1
    <3>2. Max(L) \in L /\ \A y \in L : y <= Max(L)
      <4> HIDE DEF L
      <4> QED BY <2>2, <3>1, LargestOf
    <3> DEFINE m == Max(L)
    <3>3. m \in T /\ m < e
      BY <3>2
    <3>7. m \in Nat
      BY <1>9, <3>3
    <3>4. m \notin H
      <4>1. ~(e <= m)
        BY <1>5, <3>3, <3>7
      <4> QED BY <1>4, <4>1
    <3>5. {i \in T : i <= m} = L
      <4>1. \A i \in T : i <= m => i < e
        BY <1>5, <1>9, <3>3, <3>7
      <4>2. \A i \in T : i < e => i <= m
        BY <3>2
      <4> HIDE DEF m
      <4> QED BY <4>1, <4>2
    <3>6. ~(Rank(m) >= k)
      BY <3>3, <3>4
    <3> QED BY <1>0, <1>6, <3>5, <3>6
  <2> QED BY <2>1, <2>2
<1>8. Rank(e) = k
  <2> HIDE DEF Rank, L
  <2> QED BY <1>0, <1>5, <1>6, <1>7
<1> QED BY <1>5, <1>8

-----------------------------------------------------------------------------
(* The newlines of a buffer *)

LEMMA NewlinesOf ==
  ASSUME NEW buffer \in Seq(Cell)
  PROVE  /\ Len(buffer) \in Nat /\ Newlines(buffer) \in SUBSET (1..Len(buffer))
         /\ IsFiniteSet(Newlines(buffer)) /\ Cardinality(Newlines(buffer)) \in Nat
         /\ \A i \in Newlines(buffer) : i \in Nat \ {0} /\ i <= Len(buffer)
<1>1. Len(buffer) \in Nat /\ DOMAIN buffer = 1..Len(buffer)
  OBVIOUS
<1>2. Newlines(buffer) \in SUBSET (1..Len(buffer))
  BY <1>1 DEF Newlines
<1>3. \A i \in Newlines(buffer) : i \in Nat \ {0} /\ i <= Len(buffer)
  BY <1>1, <1>2
<1> QED BY <1>1, <1>2, <1>3, UpTo

LEMMA NewlineBeforeIs ==
  ASSUME NEW buffer \in Seq(Cell), NEW cell \in Nat \ {0}
  PROVE  /\ NewlineBefore(buffer, cell) \in 0..Len(buffer)
         /\ NewlineBefore(buffer, cell) \in Nat /\ NewlineBefore(buffer, cell) < cell
         /\ NewlineBefore(buffer, cell) = 0 \/ NewlineBefore(buffer, cell) \in Newlines(buffer)
         /\ \A i \in Newlines(buffer) : i < cell => i <= NewlineBefore(buffer, cell)
<1> DEFINE T == {i \in Newlines(buffer) : i < cell} \cup {0}
<1>1. Len(buffer) \in Nat /\ \A i \in Newlines(buffer) : i \in Nat \ {0} /\ i <= Len(buffer)
  BY NewlinesOf
<1>2. T \in SUBSET (0..Len(buffer)) /\ T # {}
  BY <1>1
<1>3. Max(T) \in T /\ \A y \in T : y <= Max(T)
  <2> HIDE DEF T
  <2> QED BY <1>1, <1>2, LargestOf
<1>4. NewlineBefore(buffer, cell) = Max(T)
  BY DEF NewlineBefore
<1> DEFINE m == Max(T)
<1> HIDE DEF m
<1>5. m \in T /\ \A y \in T : y <= m
  BY <1>3 DEF m
<1>6. m \in 0..Len(buffer) /\ m \in Nat /\ m < cell /\ (m = 0 \/ m \in Newlines(buffer))
  BY <1>1, <1>5
<1>7. \A i \in Newlines(buffer) : i < cell => i <= m
  BY <1>5
<1> QED BY <1>4, <1>6, <1>7 DEF m

LEMMA LastNewlineIs ==
  ASSUME NEW buffer \in Seq(Cell)
  PROVE  /\ LastNewline(buffer) \in 0..Len(buffer) /\ LastNewline(buffer) \in Nat
         /\ LastNewline(buffer) = 0 \/ LastNewline(buffer) \in Newlines(buffer)
         /\ \A i \in Newlines(buffer) : i <= LastNewline(buffer)
         /\ Newlines(buffer) = {} <=> LastNewline(buffer) = 0
<1>1. Len(buffer) \in Nat /\ Len(buffer) + 1 \in Nat \ {0}
      /\ \A i \in Newlines(buffer) : i \in Nat \ {0} /\ i < Len(buffer) + 1
  <2>1. Len(buffer) \in Nat /\ \A i \in Newlines(buffer) : i \in Nat \ {0} /\ i <= Len(buffer)
    BY NewlinesOf
  <2> QED BY <2>1
<1>2. /\ LastNewline(buffer) \in 0..Len(buffer) /\ LastNewline(buffer) \in Nat
      /\ LastNewline(buffer) = 0 \/ LastNewline(buffer) \in Newlines(buffer)
      /\ \A i \in Newlines(buffer) : i < Len(buffer) + 1 => i <= LastNewline(buffer)
  BY <1>1, NewlineBeforeIs, Zenon DEF LastNewline
<1>3. \A i \in Newlines(buffer) : i <= LastNewline(buffer)
  BY <1>1, <1>2
<1>4. Newlines(buffer) = {} <=> LastNewline(buffer) = 0
  <2>1. ASSUME NEW i \in Newlines(buffer), LastNewline(buffer) = 0
        PROVE  FALSE
    BY <1>1, <1>3, <2>1
  <2> QED BY <1>2, <2>1
<1> QED BY <1>2, <1>3, <1>4

LEMMA NthNewlineIs ==
  ASSUME NEW buffer \in Seq(Cell), NEW k \in 1..Cardinality(Newlines(buffer))
  PROVE  /\ NthNewline(buffer, k) \in Newlines(buffer)
         /\ Cardinality({i \in Newlines(buffer) : i <= NthNewline(buffer, k)}) = k
<1>1. \E e \in Newlines(buffer) : Cardinality({i \in Newlines(buffer) : i <= e}) = k
  <2>1. Len(buffer) \in Nat /\ Newlines(buffer) \in SUBSET (1..Len(buffer))
    BY NewlinesOf
  <2> QED BY <2>1, RanksAreTaken
<1> QED BY <1>1, Zenon DEF NthNewline

LEMMA EveryNewlineIsNth ==
  ASSUME NEW buffer \in Seq(Cell), NEW e \in Newlines(buffer)
  PROVE  \E k \in 1..Cardinality(Newlines(buffer)) : NthNewline(buffer, k) = e
<1> DEFINE T == Newlines(buffer)
           k == Cardinality({i \in T : i <= e})
<1>1. /\ Len(buffer) \in Nat /\ T \in SUBSET (1..Len(buffer)) /\ Cardinality(T) \in Nat
      /\ \A i \in T : i \in Nat \ {0}
  BY NewlinesOf
<1>2. k \in 1..Cardinality(T)
  <2>1. IsFiniteSet({i \in T : i <= e}) /\ k \in 0..Cardinality(T)
    BY <1>1, UpTo
  <2>2. {i \in T : i <= e} # {}
    <3>1. e <= e
      BY <1>1
    <3> QED BY <3>1
  <2>3. k # 0
    BY <2>1, <2>2, FS_EmptySet
  <2> HIDE DEF k
  <2> QED BY <1>1, <2>1, <2>3
<1> HIDE DEF k
<1> DEFINE f == NthNewline(buffer, k)
<1>3. f \in T /\ Cardinality({i \in T : i <= f}) = k
  BY <1>2, NthNewlineIs
<1> HIDE DEF f, T
<1>4. ~(e < f)
  <2>1. e < f => k < k
    BY <1>1, <1>3, RanksGrow DEF k, T
  <2> QED BY <1>1, <1>2, <2>1
<1>5. ~(f < e)
  <2>1. f < e => k < k
    BY <1>1, <1>3, RanksGrow DEF k, T
  <2> QED BY <1>1, <1>2, <2>1
<1>6. f = e
  <2>1. e \in Nat /\ f \in Nat
    BY <1>1, <1>3 DEF T
  <2> QED BY <1>4, <1>5, <2>1
<1> QED BY <1>2, <1>6 DEF f, T

LEMMA NewlinesInOrder ==
  ASSUME NEW buffer \in Seq(Cell), NEW j \in 1..Cardinality(Newlines(buffer)),
         NEW k \in 1..Cardinality(Newlines(buffer))
  PROVE  j < k <=> NthNewline(buffer, j) < NthNewline(buffer, k)
<1> DEFINE T == Newlines(buffer)
           e == NthNewline(buffer, j)
           f == NthNewline(buffer, k)
<1>1. /\ Len(buffer) \in Nat /\ T \in SUBSET (1..Len(buffer)) /\ \A i \in T : i \in Nat \ {0}
  BY NewlinesOf
<1>2. /\ e \in T /\ Cardinality({i \in T : i <= e}) = j
      /\ f \in T /\ Cardinality({i \in T : i <= f}) = k
  BY NthNewlineIs
<1> HIDE DEF T, e, f
<1>3. e < f => j < k
  BY <1>1, <1>2, RanksGrow
<1>4. f < e => k < j
  BY <1>1, <1>2, RanksGrow
<1>5. e = f => j = k
  BY <1>2
<1>6. e \in Nat /\ f \in Nat /\ j \in Int /\ k \in Int
  <2>1. j \in Int /\ k \in Int
    BY NewlinesOf
  <2> QED BY <1>1, <1>2, <2>1
<1>7. j < k <=> e < f
  BY <1>3, <1>4, <1>5, <1>6
<1> QED BY <1>7 DEF e, f

\* The neighbours of a newline.
LEMMA NextNewline ==
  ASSUME NEW buffer \in Seq(Cell), Newlines(buffer) # {}
  PROVE  LET N == Cardinality(Newlines(buffer)) IN
         /\ N \in Nat \ {0}
         /\ NewlineBefore(buffer, NthNewline(buffer, 1)) = 0
         /\ NthNewline(buffer, N) = LastNewline(buffer)
         /\ \A k \in 1..(N - 1) :
              NewlineBefore(buffer, NthNewline(buffer, k + 1)) = NthNewline(buffer, k)
<1> DEFINE T == Newlines(buffer)
           N == Cardinality(T)
           Nth(k) == NthNewline(buffer, k)
<1>1. /\ IsFiniteSet(T) /\ N \in Nat /\ \A i \in T : i \in Nat \ {0}
  BY NewlinesOf
<1>2. N \in Nat \ {0}
  BY <1>1, FS_EmptySet
<1>3. \A k \in 1..N : Nth(k) \in T /\ Nth(k) \in Nat \ {0}
  BY <1>1, NthNewlineIs
<1>4. \A i \in T : \E k \in 1..N : Nth(k) = i
  BY EveryNewlineIsNth
<1>5. \A j, k \in 1..N : j < k <=> Nth(j) < Nth(k)
  BY NewlinesInOrder
<1>6. 1 \in 1..N /\ N \in 1..N /\ \A k \in 1..(N - 1) : k \in 1..N /\ k + 1 \in 1..N /\ k \in Nat
  BY <1>2
<1>7. NewlineBefore(buffer, Nth(1)) = 0
  <2> SUFFICES ASSUME NewlineBefore(buffer, Nth(1)) # 0 PROVE FALSE
    OBVIOUS
  <2>1. NewlineBefore(buffer, Nth(1)) \in T /\ NewlineBefore(buffer, Nth(1)) < Nth(1)
    BY <1>3, <1>6, NewlineBeforeIs
  <2>2. PICK k \in 1..N : Nth(k) = NewlineBefore(buffer, Nth(1))
    BY <1>4, <2>1
  <2>3. k < 1
    BY <1>5, <1>6, <2>1, <2>2
  <2> QED BY <1>2, <2>3
<1>8. Nth(N) = LastNewline(buffer)
  <2>1. LastNewline(buffer) \in T /\ Nth(N) <= LastNewline(buffer)
    BY <1>3, <1>6, LastNewlineIs
  <2>2. PICK k \in 1..N : Nth(k) = LastNewline(buffer)
    BY <1>4, <2>1
  <2>3. ~(Nth(N) < Nth(k))
    <3>1. ~(N < k)
      BY <1>2
    <3> QED BY <1>5, <1>6, <3>1
  <2>4. Nth(N) \in Nat /\ Nth(k) \in Nat
    BY <1>3, <1>6
  <2> HIDE DEF Nth
  <2> QED BY <2>1, <2>2, <2>3, <2>4
<1>9. ASSUME NEW k \in 1..(N - 1)
      PROVE  NewlineBefore(buffer, Nth(k + 1)) = Nth(k)
  <2> DEFINE b == NewlineBefore(buffer, Nth(k + 1))
  <2>0. Nth(k) \in T /\ Nth(k) \in Nat \ {0} /\ Nth(k + 1) \in Nat \ {0}
    BY <1>3, <1>6
  <2>1. Nth(k) < Nth(k + 1)
    <3>1. k < k + 1
      BY <1>6
    <3> QED BY <1>5, <1>6, <3>1
  <2>2. /\ b \in Nat /\ b < Nth(k + 1) /\ (b = 0 \/ b \in T) /\ Nth(k) <= b
    <3>1. /\ b \in Nat /\ b < Nth(k + 1) /\ (b = 0 \/ b \in T)
          /\ \A i \in T : i < Nth(k + 1) => i <= b
      BY <2>0, NewlineBeforeIs
    <3> QED BY <2>0, <2>1, <3>1
  <2> HIDE DEF b, Nth, T
  <2>3. b \in T
    BY <2>0, <2>2
  <2>4. PICK j \in 1..N : Nth(j) = b
    BY <1>4, <2>3
  <2>5. j < k + 1
    BY <1>5, <1>6, <2>2, <2>4
  <2>6. ~(k < j)
    BY <1>1, <1>6, <2>5
  <2>7. ~(Nth(k) < Nth(j))
    BY <1>5, <1>6, <2>6
  <2>8. b = Nth(k)
    BY <2>0, <2>2, <2>4, <2>7
  <2> QED BY <2>8 DEF b
<1> HIDE DEF Nth
<1> QED BY <1>2, <1>7, <1>8, <1>9 DEF Nth

-----------------------------------------------------------------------------
(* The lines of a buffer *)

\* Each line begins where the cursor stands after the one before it, or later.
Ordered(ls) ==
  \A j, k \in 1..Len(ls) : j < k => CursorFor(ls[j]) <= ls[k].start

\* The lines lie between these two offsets.
Within(from, ls, to) ==
  \A k \in 1..Len(ls) :
    from <= ls[k].start /\ ls[k].start < CursorFor(ls[k]) /\ CursorFor(ls[k]) <= to

\* They lie without a gap from the one to the other.
Joined(from, ls, to) ==
  /\ ls = <<>> => from = to
  /\ ls # <<>> => /\ ls[1].start = from /\ CursorFor(ls[Len(ls)]) = to
                  /\ \A k \in 1..(Len(ls) - 1) : CursorFor(ls[k]) = ls[k + 1].start

\* The line that ends at newline e of the buffer is one of the lines, or its cells are in
\* one that has a newline inside.
Covered(buffer, e, ls) ==
  \E k \in 1..Len(ls) :
    \/ ls[k] = RawLine(buffer, NewlineBefore(buffer, e), e)
    \/ /\ NL \in Range(ls[k].data)
       /\ \A i \in 1..(e - 1) : NewlineBefore(buffer, e) < i => buffer[i] \in Range(ls[k].data)

LEMMA Cut ==
  ASSUME NEW S, NEW s \in Seq(S), NEW from \in Nat, NEW to \in Nat
  PROVE  SubSeq(s, from, to) = [i \in 1..(to + 1 - from) |-> s[from + i - 1]]
OBVIOUS

LEMMA PartOf ==
  ASSUME NEW buffer \in Seq(Cell), NEW from \in Nat, NEW to \in Nat,
         from >= 1, to <= Len(buffer)
  PROVE  /\ SubSeq(buffer, from, to) \in Seq(Cell)
         /\ from <= to + 1 => Len(SubSeq(buffer, from, to)) = to + 1 - from
         /\ from > to => SubSeq(buffer, from, to) = <<>>
         /\ \A i \in 1..(to + 1 - from) : SubSeq(buffer, from, to)[i] = buffer[from + i - 1]
<1>1. Len(buffer) \in Nat /\ \A i \in 1..Len(buffer) : buffer[i] \in Cell
  OBVIOUS
<1>2. SubSeq(buffer, from, to) = [i \in 1..(to + 1 - from) |-> buffer[from + i - 1]]
  BY Cut
<1>3. \A i \in 1..(to + 1 - from) : from + i - 1 \in 1..Len(buffer)
  BY <1>1
<1>4. \A i \in 1..(to + 1 - from) : buffer[from + i - 1] \in Cell
  BY <1>1, <1>3
<1> DEFINE part == [i \in 1..(to + 1 - from) |-> buffer[from + i - 1]]
<1>5. CASE from <= to + 1
  <2>1. to + 1 - from \in Nat
    BY <1>5
  <2>2. part \in Seq(Cell) /\ Len(part) = to + 1 - from
    BY <1>4, <2>1
  <2>3. from > to => part = <<>>
    <3>1. from > to => to + 1 - from = 0
      BY <1>5
    <3>2. from > to => Len(part) = 0
      BY <2>2, <3>1
    <3> HIDE DEF part
    <3> QED BY <2>2, <3>2
  <2> QED BY <1>2, <2>2, <2>3
<1>6. CASE ~(from <= to + 1)
  <2>1. 1..(to + 1 - from) = {}
    BY <1>6
  <2>2. part = <<>>
    BY <2>1
  <2> QED BY <1>2, <1>6, <2>1, <2>2
<1> QED BY <1>5, <1>6

LEMMA RawLineIs ==
  ASSUME NEW buffer \in Seq(Cell), NEW e \in 1..Len(buffer), NEW b \in 0..(e - 1), offset \in Nat
  PROVE  /\ RawLine(buffer, b, e) \in RawLines
         /\ RawLine(buffer, b, e).start = offset + b
         /\ Len(RawLine(buffer, b, e).data) = e - 1 - b
         /\ RawLine(buffer, b, e).data \in Seq(Cell)
         /\ \A i \in 1..(e - 1 - b) : RawLine(buffer, b, e).data[i] = buffer[b + i]
         /\ CursorFor(RawLine(buffer, b, e)) = offset + e
<1>1. Len(buffer) \in Nat /\ e \in Nat \ {0} /\ b \in Nat /\ b < e /\ e <= Len(buffer)
  OBVIOUS
<1> DEFINE data == SubSeq(buffer, b + 1, e - 1)
<1>2. /\ data \in Seq(Cell) /\ Len(data) = e - 1 - b
      /\ \A i \in 1..(e - 1 - b) : data[i] = buffer[b + i]
  <2>1. b + 1 \in Nat /\ e - 1 \in Nat /\ b + 1 >= 1 /\ e - 1 <= Len(buffer)
    BY <1>1
  <2>2. /\ data \in Seq(Cell)
        /\ b + 1 <= (e - 1) + 1 => Len(data) = (e - 1) + 1 - (b + 1)
        /\ \A i \in 1..((e - 1) + 1 - (b + 1)) : data[i] = buffer[(b + 1) + i - 1]
    BY <2>1, PartOf
  <2>3. b + 1 <= (e - 1) + 1 /\ (e - 1) + 1 - (b + 1) = e - 1 - b
    BY <1>1
  <2>4. \A i \in 1..(e - 1 - b) : (b + 1) + i - 1 = b + i
    BY <1>1
  <2> HIDE DEF data
  <2> QED BY <2>2, <2>3, <2>4
<1> HIDE DEF data
<1>3. RawLine(buffer, b, e) = [data |-> data, start |-> offset + b]
  BY DEF RawLine, data
<1>4. offset + b \in Nat /\ offset + b + (e - 1 - b) + 1 = offset + e
  BY <1>1
<1>5. RawLine(buffer, b, e) \in RawLines
  BY <1>2, <1>3, <1>4 DEF RawLines, Cell
<1>6. CursorFor(RawLine(buffer, b, e)) = offset + e
  <2>1. /\ RawLine(buffer, b, e).start = offset + b
        /\ Len(RawLine(buffer, b, e).data) = e - 1 - b
    BY <1>2, <1>3
  <2>2. CursorFor(RawLine(buffer, b, e)) = (offset + b) + (e - 1 - b) + 1
    BY <2>1, Zenon DEF CursorFor
  <2>3. (offset + b) + (e - 1 - b) + 1 = offset + e
    BY <1>1
  <2> QED BY <2>2, <2>3
<1> QED BY <1>2, <1>3, <1>5, <1>6

\* A buffer that ends in a newline.
LEMMA EveryLineFits ==
  ASSUME NEW buffer \in Seq(Cell), Newlines(buffer) # {}, offset \in Nat
  PROVE  LET ls == EveryLine(buffer) IN
         /\ ls \in Seq(RawLines) /\ Ordered(ls)
         /\ Within(offset, ls, offset + LastNewline(buffer))
         /\ Joined(offset, ls, offset + LastNewline(buffer))
         /\ \A k \in 1..Len(ls) : \E e \in Newlines(buffer) :
              ls[k] = RawLine(buffer, NewlineBefore(buffer, e), e)
         /\ \A e \in Newlines(buffer) : Covered(buffer, e, ls)
<1> DEFINE T == Newlines(buffer)
           N == Cardinality(T)
           Nth(k) == NthNewline(buffer, k)
           Begin(k) == NewlineBefore(buffer, Nth(k))
           ls == EveryLine(buffer)
           last == LastNewline(buffer)
<1>1. /\ N \in Nat \ {0} /\ Begin(1) = 0 /\ Nth(N) = last
      /\ \A k \in 1..(N - 1) : Begin(k + 1) = Nth(k)
  BY NextNewline
<1>2. \A i \in T : i \in Nat \ {0} /\ i \in 1..Len(buffer) /\ i <= last
  BY NewlinesOf, LastNewlineIs
<1>3. \A k \in 1..N : Nth(k) \in T /\ Begin(k) \in 0..(Nth(k) - 1)
  <2>1. \A k \in 1..N : Nth(k) \in T
    BY NthNewlineIs
  <2>2. ASSUME NEW k \in 1..N
        PROVE  Begin(k) \in 0..(Nth(k) - 1)
    <3>1. Nth(k) \in Nat \ {0}
      BY <1>2, <2>1
    <3>2. Begin(k) \in Nat /\ Begin(k) < Nth(k)
      BY <3>1, NewlineBeforeIs
    <3> HIDE DEF Begin, Nth
    <3> QED BY <3>1, <3>2
  <2> QED BY <2>1, <2>2
<1>4. \A j, k \in 1..N : j < k => Nth(j) <= Begin(k)
  <2> SUFFICES ASSUME NEW j \in 1..N, NEW k \in 1..N, j < k
               PROVE  Nth(j) <= Begin(k)
    OBVIOUS
  <2>1. Nth(j) < Nth(k)
    BY NewlinesInOrder
  <2>2. Nth(j) \in T /\ Nth(k) \in Nat \ {0}
    BY <1>2, <1>3
  <2> QED BY <2>1, <2>2, NewlineBeforeIs
<1>5. ls = [k \in 1..N |-> RawLine(buffer, Begin(k), Nth(k))]
  BY DEF EveryLine, NthLine
<1> HIDE DEF ls, Begin, Nth
<1>6. \A k \in 1..N :
        /\ RawLine(buffer, Begin(k), Nth(k)) \in RawLines
        /\ RawLine(buffer, Begin(k), Nth(k)).start = offset + Begin(k)
        /\ CursorFor(RawLine(buffer, Begin(k), Nth(k))) = offset + Nth(k)
  BY <1>2, <1>3, RawLineIs
<1>7. /\ ls \in Seq(RawLines) /\ Len(ls) = N /\ ls # <<>>
      /\ \A k \in 1..N : ls[k] = RawLine(buffer, Begin(k), Nth(k))
  <2>1. ls \in Seq(RawLines) /\ Len(ls) = N /\ \A k \in 1..N : ls[k] = RawLine(buffer, Begin(k), Nth(k))
    <3> HIDE DEF N
    <3> QED BY <1>1, <1>5, <1>6
  <2> QED BY <1>1, <2>1
<1>8. \A k \in 1..N : ls[k].start = offset + Begin(k) /\ CursorFor(ls[k]) = offset + Nth(k)
  BY <1>6, <1>7
<1>9. \A k \in 1..N : /\ Begin(k) \in Nat /\ Nth(k) \in Nat /\ Begin(k) < Nth(k)
                      /\ Nth(k) <= last
  BY <1>2, <1>3
<1>10. last \in Nat
  BY LastNewlineIs
<1> HIDE DEF T, N, last
<1>11. Ordered(ls)
  <2> SUFFICES ASSUME NEW j \in 1..N, NEW k \in 1..N, j < k
               PROVE  CursorFor(ls[j]) <= ls[k].start
    BY <1>7 DEF Ordered
  <2>1. offset + Nth(j) <= offset + Begin(k)
    BY <1>4, <1>9
  <2> QED BY <1>8, <2>1
<1>12. Within(offset, ls, offset + last)
  <2> SUFFICES ASSUME NEW k \in 1..N
               PROVE  /\ offset <= ls[k].start /\ ls[k].start < CursorFor(ls[k])
                      /\ CursorFor(ls[k]) <= offset + last
    BY <1>7 DEF Within
  <2>1. /\ offset <= offset + Begin(k) /\ offset + Begin(k) < offset + Nth(k)
        /\ offset + Nth(k) <= offset + last
    BY <1>9, <1>10
  <2> QED BY <1>8, <2>1
<1>13. Joined(offset, ls, offset + last)
  <2>1. 1 \in 1..N /\ N \in 1..N /\ \A k \in 1..(N - 1) : k \in 1..N /\ k + 1 \in 1..N
    BY <1>1
  <2>2. ls[1].start = offset
    BY <1>1, <1>8, <2>1
  <2>3. CursorFor(ls[Len(ls)]) = offset + last
    BY <1>1, <1>7, <1>8, <2>1
  <2>4. \A k \in 1..(Len(ls) - 1) : CursorFor(ls[k]) = ls[k + 1].start
    BY <1>1, <1>7, <1>8, <2>1
  <2> QED BY <1>7, <2>2, <2>3, <2>4 DEF Joined
<1>14. \A k \in 1..Len(ls) : \E e \in Newlines(buffer) :
         ls[k] = RawLine(buffer, NewlineBefore(buffer, e), e)
  BY <1>3, <1>7 DEF Begin, T
<1>15. ASSUME NEW e \in Newlines(buffer)
       PROVE  Covered(buffer, e, ls)
  <2>1. PICK k \in 1..N : Nth(k) = e
    BY EveryNewlineIsNth DEF N, T, Nth
  <2> QED BY <1>7, <2>1 DEF Covered, Begin
<1> QED BY <1>7, <1>11, <1>12, <1>13, <1>14, <1>15 DEF ls, last

\* A buffer that is split at its last newline only.
LEMMA OneLineFits ==
  ASSUME NEW buffer \in Seq(Cell), Newlines(buffer) # {}, offset \in Nat
  PROVE  LET ls == <<RawLine(buffer, 0, LastNewline(buffer))>> IN
         /\ ls \in Seq(RawLines) /\ Ordered(ls)
         /\ Within(offset, ls, offset + LastNewline(buffer))
         /\ Joined(offset, ls, offset + LastNewline(buffer))
         /\ \A e \in Newlines(buffer) : Covered(buffer, e, ls)
<1> DEFINE last == LastNewline(buffer)
           raw == RawLine(buffer, 0, last)
           ls == <<raw>>
<1>1. /\ last \in Nat \ {0} /\ last \in 1..Len(buffer) /\ last \in Newlines(buffer)
      /\ \A i \in Newlines(buffer) : i \in Nat \ {0} /\ i <= last /\ i \in 1..Len(buffer)
      /\ 0 \in 0..(last - 1)
  <2>1. /\ last \in Newlines(buffer) /\ \A i \in Newlines(buffer) : i <= last
    BY LastNewlineIs
  <2>2. \A i \in Newlines(buffer) : i \in Nat \ {0} /\ i \in 1..Len(buffer)
    BY NewlinesOf
  <2> HIDE DEF last
  <2> QED BY <2>1, <2>2
<1>2. /\ raw \in RawLines /\ raw.start = offset + 0 /\ CursorFor(raw) = offset + last
      /\ Len(raw.data) = last - 1 - 0 /\ raw.data \in Seq(Cell)
      /\ \A i \in 1..(last - 1 - 0) : raw.data[i] = buffer[0 + i]
  <2> HIDE DEF last
  <2> QED BY <1>1, RawLineIs
<1>3. raw.start = offset /\ Len(raw.data) = last - 1 /\ \A i \in 1..(last - 1) : raw.data[i] = buffer[i]
  <2> HIDE DEF last, raw
  <2>1. offset + 0 = offset /\ last - 1 - 0 = last - 1 /\ \A i \in 1..(last - 1) : 0 + i = i
    BY <1>1
  <2> QED BY <1>2, <2>1
<1>4. ls \in Seq(RawLines) /\ Len(ls) = 1 /\ ls[1] = raw /\ ls # <<>>
  <2> HIDE DEF raw
  <2> QED BY <1>2
<1>5. ASSUME NEW e \in Newlines(buffer)
      PROVE  Covered(buffer, e, ls)
  <2> DEFINE b == NewlineBefore(buffer, e)
  <2>0. /\ e \in Nat \ {0} /\ e <= last /\ b \in Nat /\ b < e /\ (b = 0 \/ b \in Newlines(buffer))
        /\ \A i \in Newlines(buffer) : i < e => i <= b
    BY <1>1, NewlineBeforeIs
  <2>1. \A i \in 1..(last - 1) : buffer[i] \in Range(raw.data)
    <3>1. DOMAIN raw.data = 1..(last - 1)
      <4> HIDE DEF raw, last
      <4> QED BY <1>2, <1>3
    <3> HIDE DEF raw, last
    <3> QED BY <1>3, <3>1 DEF Range
  <2>2. CASE e = last /\ b = 0
    <3>1. RawLine(buffer, b, e) = raw
      BY <2>2
    <3> HIDE DEF ls, raw
    <3> QED BY <1>4, <3>1 DEF Covered
  <2>3. CASE ~(e = last /\ b = 0)
    <3> DEFINE c == IF e = last THEN b ELSE e
    <3>1. c \in Newlines(buffer) /\ c \in 1..(last - 1)
      <4> HIDE DEF last, b
      <4> QED BY <1>1, <2>0, <2>3
    <3>2. buffer[c] = NL
      BY <3>1 DEF Newlines
    <3>3. NL \in Range(raw.data)
      BY <2>1, <3>1, <3>2
    <3>4. \A i \in 1..(e - 1) : i \in 1..(last - 1)
      <4> HIDE DEF last
      <4> QED BY <1>1, <2>0
    <3>5. \A i \in 1..(e - 1) : buffer[i] \in Range(raw.data)
      BY <2>1, <3>4
    <3> HIDE DEF ls, raw, c, last, b
    <3> QED BY <1>4, <3>3, <3>5 DEF Covered
  <2> QED BY <2>2, <2>3
<1> HIDE DEF raw, ls, last
<1>6. \A k \in 1..1 : k = 1
  OBVIOUS
<1>7. Ordered(ls)
  <2> SUFFICES ASSUME NEW j \in 1..1, NEW k \in 1..1, j < k
               PROVE  FALSE
    BY <1>4 DEF Ordered
  <2> QED BY <1>6
<1>8. Within(offset, ls, offset + last)
  <2>1. offset <= offset /\ offset < offset + last /\ offset + last <= offset + last
    BY <1>1
  <2> QED BY <1>2, <1>3, <1>4, <1>6, <2>1 DEF Within
<1>9. Joined(offset, ls, offset + last)
  <2>1. \A k \in 1..(1 - 1) : FALSE
    OBVIOUS
  <2> QED BY <1>2, <1>3, <1>4, <2>1 DEF Joined
<1> QED BY <1>4, <1>5, <1>7, <1>8, <1>9 DEF ls, raw, last

\* What is published of a buffer lies without a gap from the offset to its last newline,
\* in order, and covers every line that ends in it.
LEMMA FramesFit ==
  ASSUME NEW buffer \in Seq(Cell), offset \in Nat
  PROVE  LET ls == Frames(buffer) IN
         /\ ls \in Seq(RawLines) /\ Ordered(ls)
         /\ Within(offset, ls, offset + LastNewline(buffer))
         /\ Joined(offset, ls, offset + LastNewline(buffer))
         /\ \A k \in 1..Len(ls) : \E e \in Newlines(buffer), b \in Nat :
              b < e /\ ls[k] = RawLine(buffer, b, e)
         /\ \A e \in Newlines(buffer) : Covered(buffer, e, ls)
<1>1. CASE Newlines(buffer) = {}
  <2>1. Frames(buffer) = <<>> /\ LastNewline(buffer) = 0 /\ offset = offset + 0
    BY <1>1, LastNewlineIs DEF Frames
  <2>2. /\ <<>> \in Seq(RawLines) /\ Len(<<>>) = 0 /\ \A k \in 1..0 : FALSE
    OBVIOUS
  <2>3. Ordered(<<>>) /\ Within(offset, <<>>, offset + 0) /\ Joined(offset, <<>>, offset + 0)
    BY <2>1, <2>2 DEF Ordered, Within, Joined
  <2> QED BY <1>1, <2>1, <2>2, <2>3
<1>2. CASE Newlines(buffer) # {} /\ buffer[Len(buffer)] = NL
  <2> DEFINE ls == EveryLine(buffer)
  <2>1. Frames(buffer) = ls
    BY <1>2 DEF Frames
  <2>2. /\ ls \in Seq(RawLines) /\ Ordered(ls)
        /\ Within(offset, ls, offset + LastNewline(buffer))
        /\ Joined(offset, ls, offset + LastNewline(buffer))
        /\ \A k \in 1..Len(ls) : \E e \in Newlines(buffer) :
             ls[k] = RawLine(buffer, NewlineBefore(buffer, e), e)
        /\ \A e \in Newlines(buffer) : Covered(buffer, e, ls)
    BY <1>2, EveryLineFits
  <2> HIDE DEF ls
  <2>3. \A e \in Newlines(buffer) : NewlineBefore(buffer, e) \in Nat /\ NewlineBefore(buffer, e) < e
    BY NewlinesOf, NewlineBeforeIs
  <2>4. \A k \in 1..Len(ls) : \E e \in Newlines(buffer), b \in Nat :
          b < e /\ ls[k] = RawLine(buffer, b, e)
    BY <2>2, <2>3
  <2> QED BY <2>1, <2>2, <2>4
<1>3. CASE Newlines(buffer) # {} /\ buffer[Len(buffer)] # NL
  <2> DEFINE raw == RawLine(buffer, 0, LastNewline(buffer))
             ls == <<raw>>
  <2>1. Frames(buffer) = ls
    BY <1>3 DEF Frames
  <2>2. /\ ls \in Seq(RawLines) /\ Ordered(ls)
        /\ Within(offset, ls, offset + LastNewline(buffer))
        /\ Joined(offset, ls, offset + LastNewline(buffer))
        /\ \A e \in Newlines(buffer) : Covered(buffer, e, ls)
    BY <1>3, OneLineFits
  <2>3. LastNewline(buffer) \in Newlines(buffer) /\ 0 < LastNewline(buffer)
    BY <1>3, LastNewlineIs, NewlinesOf
  <2>4. \A k \in 1..Len(ls) : ls[k] = raw
    <3>1. Len(ls) = 1 /\ ls[1] = raw
      <4> HIDE DEF raw
      <4> QED OBVIOUS
    <3>2. \A k \in 1..1 : k = 1
      OBVIOUS
    <3> HIDE DEF ls
    <3> QED BY <3>1, <3>2
  <2> HIDE DEF ls
  <2>5. \A k \in 1..Len(ls) : \E e \in Newlines(buffer), b \in Nat :
          b < e /\ ls[k] = RawLine(buffer, b, e)
    BY <2>3, <2>4
  <2> QED BY <2>1, <2>2, <2>5
<1> QED BY <1>1, <1>2, <1>3

-----------------------------------------------------------------------------
(* Types *)

LEMMA ConstantsAreTyped ==
  /\ Width \in Nat \ {0} /\ MaxLines \in Nat /\ MaxRotations \in Nat
  /\ MaxFailures \in Nat /\ MaxCrashes \in Nat /\ EventLines \subseteq Lines
BY StreamAssumption, IngestionAssumption

LEMMA CellsOfRest ==
  ASSUME NEW n \in Lines, NEW k \in 0..Width
  PROVE  /\ SubSeq(Cells(n), k + 1, Width + 1) \in Seq({n, NL})
         /\ Len(SubSeq(Cells(n), k + 1, Width + 1)) = Width + 1 - k
         /\ \A i \in 1..(Width + 1 - k) :
              SubSeq(Cells(n), k + 1, Width + 1)[i] = IF k + i <= Width THEN n ELSE NL
<1>1. Width \in Nat \ {0} /\ k \in Nat /\ k <= Width
  BY ConstantsAreTyped
<1>2. Cells(n) \in Seq({n, NL}) /\ Len(Cells(n)) = Width + 1
      /\ \A i \in 1..(Width + 1) : Cells(n)[i] = IF i <= Width THEN n ELSE NL
  BY <1>1 DEF Cells
<1> DEFINE part == [i \in 1..(Width + 1 - k) |-> IF k + i <= Width THEN n ELSE NL]
<1>3. SubSeq(Cells(n), k + 1, Width + 1) = part
  <2>1. SubSeq(Cells(n), k + 1, Width + 1)
          = [i \in 1..((Width + 1) + 1 - (k + 1)) |-> Cells(n)[(k + 1) + i - 1]]
    <3>1. k + 1 \in Nat /\ Width + 1 \in Nat
      BY <1>1
    <3> HIDE DEF Cells
    <3> QED BY <1>2, <3>1, Cut
  <2>2. /\ (Width + 1) + 1 - (k + 1) = Width + 1 - k
        /\ \A i \in 1..(Width + 1 - k) : (k + 1) + i - 1 = k + i /\ k + i \in 1..(Width + 1)
    BY <1>1
  <2>3. \A i \in 1..(Width + 1 - k) : Cells(n)[(k + 1) + i - 1] = IF k + i <= Width THEN n ELSE NL
    BY <1>2, <2>2
  <2> HIDE DEF Cells
  <2>4. SubSeq(Cells(n), k + 1, Width + 1)
          = [i \in 1..(Width + 1 - k) |-> Cells(n)[(k + 1) + i - 1]]
    BY <2>1, <2>2
  <2> QED BY <2>3, <2>4
<1>4. part \in Seq({n, NL}) /\ Len(part) = Width + 1 - k
  BY <1>1
<1> QED BY <1>3, <1>4

\* What a file becomes when cells are added to it.
Grown(part) ==
  /\ file' \in Seq(Cell) /\ Len(file') = Len(file) + Len(part) /\ Len(part) \in Nat
  /\ \A i \in 1..Len(file) : file'[i] = file[i]
  /\ \A i \in 1..Len(part) : file'[Len(file) + i] = part[i]

LEMMA FileGrows ==
  ASSUME file \in Seq(Cell), NEW part \in Seq(Cell), file' = file \o part
  PROVE  Grown(part)
<1>1. \A s \in Seq(Cell), t \in Seq(Cell) :
        /\ s \o t \in Seq(Cell) /\ Len(s \o t) = Len(s) + Len(t) /\ Len(t) \in Nat
        /\ \A i \in 1..Len(s) : (s \o t)[i] = s[i]
        /\ \A i \in 1..Len(t) : (s \o t)[Len(s) + i] = t[i]
  OBVIOUS
<1>2. /\ file \o part \in Seq(Cell) /\ Len(file \o part) = Len(file) + Len(part)
      /\ Len(part) \in Nat
      /\ \A i \in 1..Len(file) : (file \o part)[i] = file[i]
      /\ \A i \in 1..Len(part) : (file \o part)[Len(file) + i] = part[i]
  BY <1>1
<1> QED BY <1>2, Zenon DEF Grown

\* The bridge adds cells of the line it writes, and its newline when it goes on to the
\* next one: the steps that leave the file in place.
Writes(part) ==
  /\ Grown(part) /\ part \in Seq({next, NL}) /\ next \in Lines
  /\ \/ /\ next' = next + 1 /\ torn' = 0 /\ torn \in 0..Width
        /\ Len(part) = Width + 1 - torn
        /\ \A i \in 1..Len(part) : part[i] = IF torn + i <= Width THEN next ELSE NL
     \/ /\ next' = next /\ torn' \in 1..Width /\ part = <<next>>
     \/ /\ next' \in (next + 1)..(MaxLines + 1) /\ torn' = 0
        /\ part = <<>> \/ part = <<next>>

LEMMA BridgeWrites ==
  ASSUME StreamTypeOK, FlushLine \/ FlushPart \/ BreakOff
  PROVE  \E part \in Seq(Cell) : Writes(part)
<1>1. /\ file \in Seq(Cell) /\ next \in 1..(MaxLines + 1) /\ torn \in 0..Width
      /\ next <= MaxLines /\ MaxLines \in Nat /\ Width \in Nat \ {0}
  BY ConstantsAreTyped DEF StreamTypeOK, Cell, FlushLine, FlushPart, BreakOff
<1>2. next \in Lines /\ {next, NL} \subseteq Cell /\ Seq({next, NL}) \subseteq Seq(Cell)
  <2>1. next \in Lines /\ {next, NL} \subseteq Cell
    BY <1>1 DEF Lines, Cell
  <2> QED BY <2>1
<1>3. /\ <<next>> \in Seq({next, NL}) /\ Len(<<next>>) = 1
      /\ <<>> \in Seq({next, NL}) /\ Len(<<>>) = 0
  OBVIOUS
<1>4. ASSUME file' = Append(file, next)
      PROVE  Grown(<<next>>)
  <2>1. Append(file, next) = file \o <<next>>
    BY <1>1, <1>2 DEF Cell
  <2> QED BY <1>1, <1>2, <1>3, <1>4, <2>1, FileGrows
<1>5. ASSUME file' = file
      PROVE  Grown(<<>>)
  <2>1. file \o <<>> = file
    BY <1>1
  <2> QED BY <1>1, <1>2, <1>3, <1>5, <2>1, FileGrows
<1>6. CASE FlushLine
  <2> DEFINE part == SubSeq(Cells(next), torn + 1, Width + 1)
  <2>1. /\ part \in Seq({next, NL}) /\ Len(part) = Width + 1 - torn
        /\ \A i \in 1..Len(part) : part[i] = IF torn + i <= Width THEN next ELSE NL
    BY <1>1, <1>2, CellsOfRest
  <2>2. file' = file \o part /\ next' = next + 1 /\ torn' = 0
    BY <1>6 DEF FlushLine
  <2> HIDE DEF part
  <2>3. Grown(part)
    BY <1>1, <1>2, <2>1, <2>2, FileGrows
  <2> QED BY <1>1, <1>2, <2>1, <2>2, <2>3 DEF Writes
<1>7. CASE FlushPart
  <2>1. next' = next /\ torn' \in 1..Width /\ Grown(<<next>>)
    BY <1>1, <1>4, <1>7 DEF FlushPart
  <2> QED BY <1>2, <1>3, <2>1 DEF Writes
<1>8. CASE BreakOff
  <2>1. next' \in (next + 1)..(MaxLines + 1) /\ torn' = 0 /\ (file' = file \/ file' = Append(file, next))
    BY <1>8 DEF BreakOff
  <2>2. CASE file' = file
    BY <1>2, <1>3, <1>5, <2>1, <2>2 DEF Writes
  <2>3. CASE file' = Append(file, next)
    BY <1>2, <1>3, <1>4, <2>1, <2>3 DEF Writes
  <2> QED BY <2>1, <2>2, <2>3
<1> QED BY <1>6, <1>7, <1>8

LEMMA TypesAtStart == Init => TypeInv
<1> SUFFICES ASSUME Init PROVE TypeInv
  OBVIOUS
<1>1. StreamTypeOK /\ torn = 0
  <2>1. file \in Seq(Lines \cup {NL})
    BY DEF Init, StreamInit
  <2>2. next \in 1..(MaxLines + 1) /\ torn \in 0..Width /\ rotations \in 0..MaxRotations
    BY ConstantsAreTyped DEF Init, StreamInit
  <2> QED BY <2>1, <2>2 DEF Init, StreamInit, StreamTypeOK
<1>2. ReaderTypeOK
  <2>1. \A S : <<>> \in Seq(S)
    OBVIOUS
  <2> QED BY <2>1 DEF Init, ReaderTypeOK
<1>3. events \in Seq(EventLines) /\ lines \in Seq(RawLines)
  BY DEF Init
<1>4. failures \in 0..MaxFailures /\ crashes \in 0..MaxCrashes
  BY ConstantsAreTyped DEF Init
<1> QED BY <1>1, <1>2, <1>3, <1>4 DEF Init, TypeInv, TypeOK

LEMMA BufferIsTyped ==
  ASSUME TypeOK
  PROVE  Buffer \in Seq(Cell)
<1>1. /\ file \in Seq(Cell) /\ partial \in Seq(Cell) /\ offset \in Nat /\ Len(file) \in Nat
      /\ offset + Len(partial) + 1 \in Nat /\ offset + Len(partial) + 1 >= 1
      /\ Len(file) <= Len(file)
  <2>1. file \in Seq(Cell) /\ partial \in Seq(Cell) /\ offset \in Nat
    BY DEF TypeOK, StreamTypeOK, ReaderTypeOK, Cell
  <2>2. Len(file) \in Nat /\ Len(partial) \in Nat
    BY <2>1
  <2> QED BY <2>1, <2>2
<1>2. SubSeq(file, offset + Len(partial) + 1, Len(file)) \in Seq(Cell)
  BY <1>1, PartOf
<1>3. \A s, t \in Seq(Cell) : s \o t \in Seq(Cell)
  OBVIOUS
<1> QED BY <1>1, <1>2, <1>3 DEF Buffer

\* The steps of the bridge.
LEMMA BridgeKeepsTypes ==
  ASSUME TypeInv, BridgeStep
  PROVE  TypeInv'
<1>0. /\ StreamTypeOK /\ (torn # 0 => next <= MaxLines)
      /\ next \in 1..(MaxLines + 1) /\ torn \in 0..Width /\ rotations \in 0..MaxRotations
      /\ inode \in Nat /\ present \in BOOLEAN /\ file \in Seq(Lines \cup {NL})
  BY DEF TypeInv, TypeOK, StreamTypeOK
<1>1. StreamTypeOK' /\ (torn' # 0 => next' <= MaxLines)
  <2>1. CASE FlushLine \/ FlushPart \/ BreakOff
    <3>1. PICK part \in Seq(Cell) : Writes(part)
      <4>1. StreamTypeOK
        BY <1>0
      <4> QED BY <2>1, <4>1, BridgeWrites, Zenon
    <3>2. file' \in Seq(Lines \cup {NL}) /\ next \in 1..MaxLines
      BY <3>1 DEF Writes, Grown, Cell, Lines
    <3>3. next' \in 1..(MaxLines + 1) /\ torn' \in 0..Width /\ (torn' # 0 => next' <= MaxLines)
      BY <1>0, <3>1, <3>2, ConstantsAreTyped DEF Writes
    <3>4. UNCHANGED <<present, inode, rotations>>
      BY <2>1 DEF FlushLine, FlushPart, BreakOff
    <3> QED BY <1>0, <3>2, <3>3, <3>4 DEF StreamTypeOK
  <2>2. CASE Replace \/ Unlink
    <3>1. /\ file' \in Seq(Lines \cup {NL}) /\ torn' = 0 /\ rotations < MaxRotations
          /\ rotations' = rotations + 1 /\ next' = IF torn = 0 THEN next ELSE next + 1
          /\ present' \in BOOLEAN /\ inode' \in Nat
      <4>1. \A S : <<>> \in Seq(S)
        OBVIOUS
      <4>2. inode + 1 \in Nat
        BY <1>0
      <4> QED BY <1>0, <2>2, <4>1, <4>2 DEF Replace, Unlink, StartOver
    <3>2. next' \in 1..(MaxLines + 1) /\ torn' \in 0..Width /\ rotations' \in 0..MaxRotations
      <4>1. CASE torn = 0
        BY <1>0, <3>1, <4>1, ConstantsAreTyped
      <4>2. CASE torn # 0
        <5>1. next' = next + 1 /\ next <= MaxLines
          BY <1>0, <3>1, <4>2
        <5>2. next' \in 1..(MaxLines + 1)
          BY <1>0, <5>1, ConstantsAreTyped
        <5>3. torn' \in 0..Width /\ rotations' \in 0..MaxRotations
          BY <1>0, <3>1, ConstantsAreTyped
        <5> QED BY <5>2, <5>3
      <4> QED BY <4>1, <4>2
    <3> QED BY <3>1, <3>2 DEF StreamTypeOK
  <2>3. CASE Recreate
    BY <1>0, <2>3 DEF Recreate, StreamTypeOK
  <2> QED BY <2>1, <2>2, <2>3 DEF BridgeStep
<1>2. /\ UNCHANGED <<offset, partial, identity, gap, events, cursor, pc, lines, failures, crashes,
                     forgotten>>
      /\ unseen' \in BOOLEAN
  BY DEF BridgeStep, readerVars
<1> QED BY <1>1, <1>2 DEF TypeInv, TypeOK, ReaderTypeOK

LEMMA FailIsTyped ==
  ASSUME TypeInv, Fail
  PROVE  /\ ReaderTypeOK' /\ failures' \in 0..MaxFailures /\ lines' = <<>>
         /\ lines' \in Seq(RawLines) /\ forgotten' \subseteq Lines /\ forgotten \subseteq forgotten'
         /\ LinesIn(Range(lines)) \subseteq forgotten'
         /\ pc' \in {"idle", "down"} /\ events' = events /\ cursor' = cursor
<1>1. ReaderTypeOK /\ failures \in 0..MaxFailures /\ forgotten \subseteq Lines
  BY DEF TypeInv, TypeOK
<1>2. failures' \in 0..MaxFailures
  BY <1>1, ConstantsAreTyped DEF Fail
<1>3. ReaderTypeOK'
  <2>1. CASE UNCHANGED readerVars
    BY <1>1, <2>1 DEF ReaderTypeOK, readerVars
  <2>2. CASE FreshReader(0)
    <3>1. <<>> \in Seq(Lines \cup {NL})
      OBVIOUS
    <3> QED BY <2>2, <3>1 DEF ReaderTypeOK, FreshReader
  <2> QED BY <2>1, <2>2 DEF Fail
<1>4. /\ lines' = <<>> /\ lines' \in Seq(RawLines) /\ forgotten' = forgotten \cup LinesIn(Range(lines))
      /\ pc' \in {"idle", "down"} /\ events' = events /\ cursor' = cursor
  BY DEF Fail
<1>5. LinesIn(Range(lines)) \subseteq Lines
  BY DEF LinesIn
<1> QED BY <1>1, <1>2, <1>3, <1>4, <1>5

LEMMA FirstLine ==
  ASSUME TypeInv, lines # <<>>
  PROVE  /\ Len(lines) \in Nat \ {0} /\ Head(lines) = lines[1] /\ lines[1] \in RawLines
         /\ Tail(lines) \in Seq(RawLines) /\ Len(Tail(lines)) = Len(lines) - 1
         /\ \A i \in 1..(Len(lines) - 1) : Tail(lines)[i] = lines[i + 1]
         /\ CursorFor(lines[1]) \in Nat /\ lines[1].start \in Nat
         /\ Len(lines[1].data) \in Nat /\ CursorFor(lines[1]) = lines[1].start + Len(lines[1].data) + 1
<1>1. lines \in Seq(RawLines)
  BY DEF TypeInv, TypeOK
<1>2. \A s \in Seq(RawLines) : s # <<>> =>
        /\ Len(s) \in Nat \ {0} /\ Head(s) = s[1] /\ s[1] \in RawLines
        /\ Tail(s) \in Seq(RawLines) /\ Len(Tail(s)) = Len(s) - 1
        /\ \A i \in 1..(Len(s) - 1) : Tail(s)[i] = s[i + 1]
  OBVIOUS
<1>3. \A raw \in RawLines : raw.start \in Nat /\ Len(raw.data) \in Nat
  BY DEF RawLines
<1>4. \A raw \in RawLines : CursorFor(raw) \in Nat /\ CursorFor(raw) = raw.start + Len(raw.data) + 1
  BY <1>3 DEF CursorFor
<1> QED BY <1>1, <1>2, <1>3, <1>4

\* An event is the number of its line.
LEMMA EventIsItsLine ==
  ASSUME TypeInv, NEW raw, CarriesEvent(raw)
  PROVE  /\ raw.data[1] \in EventLines /\ raw.data = [i \in 1..Width |-> raw.data[1]]
         /\ Len(raw.data) = Width /\ raw.data[1] # NL
<1>1. PICK n \in EventLines : raw.data = [i \in 1..Width |-> n]
  BY DEF CarriesEvent
<1>2. Width \in Nat \ {0} /\ n \in Lines
  BY ConstantsAreTyped
<1>3. raw.data[1] = n /\ n # NL
  BY <1>1, <1>2 DEF Lines, NL
<1>4. Len(raw.data) = Width
  BY <1>1, <1>2
<1> QED BY <1>1, <1>3, <1>4

\* The cells after the last newline are held, the lines before it handed over.
LEMMA ReadIsTyped ==
  ASSUME TypeInv
  PROVE  /\ Buffer \in Seq(Cell) /\ Len(Buffer) \in Nat /\ offset \in Nat
         /\ LastNewline(Buffer) \in 0..Len(Buffer) /\ LastNewline(Buffer) \in Nat
         /\ SubSeq(Buffer, LastNewline(Buffer) + 1, Len(Buffer)) \in Seq(Cell)
         /\ Len(SubSeq(Buffer, LastNewline(Buffer) + 1, Len(Buffer))) = Len(Buffer) - LastNewline(Buffer)
         /\ \A i \in 1..(Len(Buffer) - LastNewline(Buffer)) :
              SubSeq(Buffer, LastNewline(Buffer) + 1, Len(Buffer))[i] = Buffer[LastNewline(Buffer) + i]
<1> DEFINE last == LastNewline(Buffer)
           n == Len(Buffer)
           rest == SubSeq(Buffer, last + 1, n)
<1>1. Buffer \in Seq(Cell) /\ offset \in Nat
  BY BufferIsTyped DEF TypeInv, TypeOK, ReaderTypeOK
<1>2. n \in Nat /\ last \in 0..n /\ last \in Nat
  BY <1>1, LastNewlineIs
<1>3. /\ rest \in Seq(Cell) /\ Len(rest) = n + 1 - (last + 1)
      /\ \A i \in 1..(n + 1 - (last + 1)) : rest[i] = Buffer[(last + 1) + i - 1]
  <2>1. last + 1 \in Nat /\ last + 1 >= 1 /\ n <= Len(Buffer) /\ last + 1 <= n + 1 /\ n \in Nat
    BY <1>2
  <2> HIDE DEF last
  <2> QED BY <1>1, <2>1, PartOf
<1>4. n + 1 - (last + 1) = n - last /\ \A i \in 1..(n - last) : (last + 1) + i - 1 = last + i
  <2> HIDE DEF last, n
  <2> QED BY <1>2
<1>5. Len(rest) = n - last /\ \A i \in 1..(n - last) : rest[i] = Buffer[last + i]
  <2> HIDE DEF last, n, rest
  <2> QED BY <1>3, <1>4
<1> QED BY <1>1, <1>2, <1>3, <1>5

LEMMA CollectorKeepsTypes ==
  ASSUME TypeInv, CollectorStep \/ Crash
  PROVE  TypeInv'
<1>0. TypeOK /\ StreamTypeOK /\ ReaderTypeOK
  BY DEF TypeInv, TypeOK
<1>1. StreamTypeOK' /\ (torn' # 0 => next' <= MaxLines)
  <2>1. UNCHANGED streamVars
    BY DEF CollectorStep, Start, PollStat, PollRead, ResetCursor, HandleLine, EndPoll, Crash
  <2> QED BY <2>1 DEF TypeInv, TypeOK, StreamTypeOK, streamVars
<1>2. ASSUME NEW start \in Nat, FreshReader(start)
      PROVE  ReaderTypeOK'
  <2>1. \A S : <<>> \in Seq(S)
    OBVIOUS
  <2> QED BY <1>2, <2>1 DEF FreshReader, ReaderTypeOK
<1>3. UNCHANGED readerVars => ReaderTypeOK'
  BY <1>0 DEF ReaderTypeOK, readerVars
<1>4. CASE Start
  BY <1>0, <1>1, <1>2, <1>4 DEF Start, TypeInv, TypeOK, history
<1>5. CASE PollStat
  <2>1. ReaderTypeOK'
    <3>1. \A S : <<>> \in Seq(S)
      OBVIOUS
    <3>2. inode \in Nat
      BY <1>0 DEF StreamTypeOK
    <3>3. /\ offset \in Nat /\ partial \in Seq(Lines \cup {NL}) /\ identity \in Nat \cup {NoInode}
          /\ gap \in BOOLEAN /\ 0 \in Nat
      BY <1>0 DEF ReaderTypeOK
    <3>4. /\ offset' \in {0, offset} /\ partial' \in {<<>>, partial}
          /\ identity' \in {inode, identity} /\ gap' \in {TRUE, FALSE}
      BY <1>5 DEF PollStat, Stat
    <3> QED BY <3>1, <3>2, <3>3, <3>4 DEF ReaderTypeOK
  <2>2. pc' \in {"down", "idle", "read", "rotated read", "rotated", "lines"}
    BY <1>5 DEF PollStat
  <2> QED BY <1>0, <1>1, <1>5, <2>1, <2>2 DEF PollStat, TypeInv, TypeOK, history
<1>6. CASE PollRead
  <2>1. ReaderTypeOK' /\ lines' \in Seq(RawLines) /\ forgotten' \subseteq Lines
    <3>1. CASE present
      <4>1. offset' \in Nat /\ partial' \in Seq(Cell) /\ UNCHANGED <<identity, gap>>
        <5>1. /\ offset' = offset + LastNewline(Buffer)
              /\ partial' = SubSeq(Buffer, LastNewline(Buffer) + 1, Len(Buffer))
              /\ UNCHANGED <<identity, gap>>
          BY <1>6, <3>1 DEF PollRead, Read
        <5>2. /\ offset \in Nat /\ LastNewline(Buffer) \in Nat
              /\ SubSeq(Buffer, LastNewline(Buffer) + 1, Len(Buffer)) \in Seq(Cell)
          BY ReadIsTyped
        <5> HIDE DEF Buffer, LastNewline
        <5> QED BY <5>1, <5>2
      <4>2. lines' \in Seq(RawLines)
        BY <1>6, <3>1, ReadIsTyped, FramesFit DEF PollRead
      <4>3. forgotten' \subseteq Lines
        BY <1>0, <1>6, <3>1 DEF PollRead, LinesIn, TypeOK
      <4> QED BY <1>0, <4>1, <4>2, <4>3 DEF ReaderTypeOK, Cell
    <3>2. CASE ~present
      BY <1>0, <1>3, <1>6, <3>2 DEF PollRead, TypeOK
    <3> QED BY <3>1, <3>2
  <2>2. /\ pc' \in {"rotated", "lines"}
        /\ UNCHANGED <<events, cursor, failures, crashes, unseen>>
    BY <1>6 DEF PollRead
  <2> QED BY <1>0, <1>1, <2>1, <2>2 DEF TypeInv, TypeOK
<1>7. CASE ResetCursor
  <2>1. CASE Fail
    <3>1. UNCHANGED <<crashes, unseen>>
      BY <1>7 DEF ResetCursor
    <3> QED BY <1>0, <1>1, <2>1, <3>1, FailIsTyped DEF TypeInv, TypeOK
  <2>2. CASE ~Fail
    <3>1. /\ cursor' = 0 /\ pc' = "lines"
          /\ UNCHANGED <<readerVars, events, lines, failures, forgotten, crashes, unseen>>
      BY <1>7, <2>2 DEF ResetCursor
    <3> QED BY <1>0, <1>1, <1>3, <3>1 DEF TypeInv, TypeOK
  <2> QED BY <2>1, <2>2
<1>8. CASE HandleLine
  <2>1. CASE Fail
    <3>1. UNCHANGED <<crashes, unseen>>
      BY <1>8 DEF HandleLine
    <3> QED BY <1>0, <1>1, <2>1, <3>1, FailIsTyped DEF TypeInv, TypeOK
  <2>2. CASE ~Fail
    <3>1. /\ lines # <<>> /\ Persist(Head(lines)) /\ lines' = Tail(lines)
          /\ UNCHANGED <<readerVars, pc, failures, forgotten, crashes, unseen>>
      BY <1>8, <2>2 DEF HandleLine
    <3>2. cursor' \in Nat /\ lines' \in Seq(RawLines)
      BY <3>1, FirstLine DEF Persist
    <3>3. events' \in Seq(EventLines)
      <4>1. CASE CarriesEvent(Head(lines))
        <5>1. Head(lines).data[1] \in EventLines
          BY <4>1, EventIsItsLine
        <5>2. events' = Append(events, Head(lines).data[1]) /\ events \in Seq(EventLines)
          BY <1>0, <3>1, <4>1 DEF Persist, TypeOK
        <5> QED BY <5>1, <5>2
      <4>2. CASE ~CarriesEvent(Head(lines))
        BY <1>0, <3>1, <4>2 DEF Persist, TypeOK
      <4> QED BY <4>1, <4>2
    <3> QED BY <1>0, <1>1, <1>3, <3>1, <3>2, <3>3 DEF TypeInv, TypeOK
  <2> QED BY <2>1, <2>2
<1>9. CASE EndPoll
  BY <1>0, <1>1, <1>3, <1>9 DEF EndPoll, TypeInv, TypeOK, history
<1>10. CASE Crash
  <2>1. crashes' \in 0..MaxCrashes
    <3>1. crashes \in 0..MaxCrashes /\ crashes < MaxCrashes /\ crashes' = crashes + 1
      BY <1>0, <1>10 DEF Crash, TypeOK
    <3> QED BY <3>1, ConstantsAreTyped
  <2>2. lines' \in Seq(RawLines) /\ pc' = "down" /\ UNCHANGED <<events, cursor, failures, history>>
        /\ FreshReader(0)
    <3>1. \A S : <<>> \in Seq(S)
      OBVIOUS
    <3> QED BY <1>10, <3>1 DEF Crash
  <2>3. ReaderTypeOK'
    BY <1>2, <2>2
  <2> QED BY <1>0, <1>1, <2>1, <2>2, <2>3 DEF TypeInv, TypeOK, history
<1> QED BY <1>4, <1>5, <1>6, <1>7, <1>8, <1>9, <1>10 DEF CollectorStep

LEMMA NextKeepsTypes ==
  ASSUME TypeInv, [Next]_vars
  PROVE  TypeInv'
<1>1. CASE UNCHANGED vars
  BY <1>1 DEF vars, streamVars, readerVars, history, TypeInv, TypeOK, StreamTypeOK, ReaderTypeOK
<1> QED BY <1>1, BridgeKeepsTypes, CollectorKeepsTypes DEF Next

LEMMA TypesAreInvariant == Spec => []TypeInv
<1>1. TypeInv /\ [Next]_vars => TypeInv'
  BY NextKeepsTypes
<1> QED BY <1>1, TypesAtStart, PTL DEF Spec

\* The reader holds cells of the file, hands over lines that have a place in it, and only
\* lines with an event reach the event table, under their own number
\* (collector/adapters/reader.py, pipeline.py).
THEOREM TypeOKHolds == Spec => []TypeOK
<1>1. TypeInv => TypeOK
  BY DEF TypeInv
<1> QED BY <1>1, TypesAreInvariant, PTL

-----------------------------------------------------------------------------
(* What is held is what the file holds *)

\* As long as the file is the same, the reader has not seen another one, and the cursor,
\* the lines handed over, the offset and the held cells lie in it one after the other.
SameFile ==
  /\ pc \notin {"rotated", "rotated read"} /\ cursor <= Len(file)
  /\ identity # NoInode => present /\ identity = inode /\ ~gap
  /\ pc # "down" => /\ offset + Len(partial) <= Len(file)
                    /\ partial = SubSeq(file, offset + 1, offset + Len(partial))
                    /\ cursor <= offset
  /\ Within(cursor, lines, offset)

HeldInv ==
  /\ Ordered(lines)
  /\ pc \notin {"lines", "rotated"} => lines = <<>>
  /\ rotations = 0 => SameFile

LEMMA NoLines ==
  ASSUME NEW from, NEW to
  PROVE  Ordered(<<>>) /\ Within(from, <<>>, to)
<1>1. Len(<<>>) = 0 /\ \A k \in 1..0 : FALSE
  OBVIOUS
<1> QED BY <1>1 DEF Ordered, Within

\* The types of what follows.
LEMMA Places ==
  ASSUME TypeInv
  PROVE  /\ file \in Seq(Cell) /\ Len(file) \in Nat /\ partial \in Seq(Cell) /\ Len(partial) \in Nat
         /\ offset \in Nat /\ cursor \in Nat /\ lines \in Seq(RawLines) /\ Len(lines) \in Nat
         /\ rotations \in Nat /\ failures \in Nat /\ next \in Nat /\ torn \in Nat
         /\ events \in Seq(EventLines) /\ Len(events) \in Nat
         /\ \A k \in 1..Len(lines) : /\ lines[k] \in RawLines /\ lines[k].start \in Nat
                                     /\ CursorFor(lines[k]) \in Nat
                                     /\ lines[k].start < CursorFor(lines[k])
<1>1. /\ file \in Seq(Cell) /\ partial \in Seq(Cell) /\ offset \in Nat /\ cursor \in Nat
      /\ lines \in Seq(RawLines) /\ events \in Seq(EventLines)
  BY DEF TypeInv, TypeOK, StreamTypeOK, ReaderTypeOK, Cell
<1>2. Len(file) \in Nat /\ Len(partial) \in Nat /\ Len(lines) \in Nat /\ Len(events) \in Nat
  BY <1>1
<1>3. rotations \in Nat /\ failures \in Nat /\ next \in Nat /\ torn \in Nat
  <2>1. /\ rotations \in 0..MaxRotations /\ failures \in 0..MaxFailures
        /\ next \in 1..(MaxLines + 1) /\ torn \in 0..Width
    BY DEF TypeInv, TypeOK, StreamTypeOK
  <2> QED BY <2>1, ConstantsAreTyped
<1>4. \A k \in 1..Len(lines) : lines[k] \in RawLines
  <2>1. \A S : \A ls \in Seq(S) : \A k \in 1..Len(ls) : ls[k] \in S
    OBVIOUS
  <2> QED BY <1>1, <2>1
<1>5. \A raw \in RawLines : raw.start \in Nat /\ Len(raw.data) \in Nat
  BY DEF RawLines
<1>6. \A raw \in RawLines : CursorFor(raw) \in Nat /\ raw.start < CursorFor(raw)
  BY <1>5 DEF CursorFor
<1> QED BY <1>1, <1>2, <1>3, <1>4, <1>5, <1>6

\* The steps of the bridge that leave the file in place.
LEMMA SameFileGrows ==
  ASSUME TypeInv, BridgeStep, rotations' = 0
  PROVE  /\ rotations = 0
         /\ \/ /\ \E part \in Seq(Cell) : Writes(part)
               /\ UNCHANGED <<present, inode>>
            \/ /\ ~present /\ UNCHANGED <<file, next, torn>>
<1>0. rotations \in Nat /\ StreamTypeOK
  BY Places DEF TypeInv, TypeOK
<1>1. CASE FlushLine \/ FlushPart \/ BreakOff
  <2>1. \E part \in Seq(Cell) : Writes(part)
    BY <1>0, <1>1, BridgeWrites, Zenon
  <2> QED BY <1>1, <2>1 DEF FlushLine, FlushPart, BreakOff
<1>2. CASE Replace \/ Unlink
  <2>1. rotations' = rotations + 1
    BY <1>2 DEF Replace, Unlink, StartOver
  <2> QED BY <1>0, <2>1
<1>3. CASE Recreate
  BY <1>3 DEF Recreate
<1> QED BY <1>1, <1>2, <1>3 DEF BridgeStep

\* What was read of a file that grows is still there.
LEMMA PartsStay ==
  ASSUME file \in Seq(Cell), NEW part, Grown(part), NEW from \in Nat, NEW to \in Nat,
         from >= 1, to <= Len(file)
  PROVE  SubSeq(file', from, to) = SubSeq(file, from, to)
<1>1. /\ SubSeq(file', from, to) = [i \in 1..(to + 1 - from) |-> file'[from + i - 1]]
      /\ SubSeq(file, from, to) = [i \in 1..(to + 1 - from) |-> file[from + i - 1]]
  BY Cut DEF Grown
<1>2. \A i \in 1..(to + 1 - from) : from + i - 1 \in 1..Len(file)
  <2>1. Len(file) \in Nat
    OBVIOUS
  <2> QED BY <2>1
<1>3. \A i \in 1..(to + 1 - from) : file'[from + i - 1] = file[from + i - 1]
  BY <1>2 DEF Grown
<1> QED BY <1>1, <1>3

LEMMA BridgeKeepsHeld ==
  ASSUME TypeInv, HeldInv, BridgeStep
  PROVE  HeldInv'
<1>1. UNCHANGED <<offset, partial, identity, gap, cursor, pc, lines>>
  BY DEF BridgeStep, readerVars
<1>2. ASSUME rotations' = 0
      PROVE  SameFile'
  <2>0. rotations = 0 /\ SameFile
    BY <1>2, SameFileGrows DEF HeldInv
  <2>1. CASE UNCHANGED <<present, inode>> /\ \E part \in Seq(Cell) : Writes(part)
    <3>1. PICK part \in Seq(Cell) : Grown(part)
      BY <2>1 DEF Writes
    <3>2. Len(file') = Len(file) + Len(part) /\ Len(part) \in Nat /\ Len(file) \in Nat
      BY <3>1, Places DEF Grown
    <3>3. cursor <= Len(file')
      <4>1. cursor <= Len(file) /\ cursor \in Nat
        BY <2>0, Places DEF SameFile
      <4> QED BY <3>2, <4>1
    <3>4. pc # "down" => /\ offset + Len(partial) <= Len(file')
                        /\ SubSeq(file', offset + 1, offset + Len(partial))
                             = SubSeq(file, offset + 1, offset + Len(partial))
      <4>1. offset + 1 \in Nat /\ offset + 1 >= 1 /\ offset + Len(partial) \in Nat
        BY Places
      <4> SUFFICES ASSUME pc # "down"
                   PROVE  /\ offset + Len(partial) <= Len(file')
                          /\ SubSeq(file', offset + 1, offset + Len(partial))
                               = SubSeq(file, offset + 1, offset + Len(partial))
        OBVIOUS
      <4>2. offset + Len(partial) <= Len(file)
        BY <2>0 DEF SameFile
      <4>3. offset + Len(partial) <= Len(file')
        BY <3>2, <4>1, <4>2
      <4> QED BY <3>1, <4>1, <4>2, <4>3, PartsStay, Places
    <3> QED BY <1>1, <2>0, <2>1, <3>3, <3>4 DEF SameFile
  <2>2. CASE ~present /\ UNCHANGED file
    BY <1>1, <2>0, <2>2 DEF SameFile
  <2> QED BY <1>2, <2>1, <2>2, SameFileGrows
<1> QED BY <1>1, <1>2 DEF HeldInv

\* While the file is the same, a poll does not take it for another one.
LEMMA SameFileIsNotRotated ==
  ASSUME TypeInv, SameFile, pc # "down"
  PROVE  present => ~Rotated
<1>1. ~(Len(file) < offset)
  <2>1. offset + Len(partial) <= Len(file)
    BY DEF SameFile
  <2>2. offset \in Nat /\ Len(partial) \in Nat /\ Len(file) \in Nat
    BY Places
  <2> QED BY <2>1, <2>2
<1> QED BY <1>1 DEF SameFile, Rotated

\* The buffer of a poll is what the file holds from the offset on.
LEMMA BufferIsFile ==
  ASSUME TypeInv, SameFile, pc # "down"
  PROVE  /\ Len(Buffer) = Len(file) - offset
         /\ \A i \in 1..Len(Buffer) : Buffer[i] = file[offset + i]
<1> DEFINE held == Len(partial)
           rest == SubSeq(file, offset + held + 1, Len(file))
<1>1. /\ offset \in Nat /\ held \in Nat /\ Len(file) \in Nat /\ offset + held <= Len(file)
      /\ file \in Seq(Cell) /\ partial \in Seq(Cell)
      /\ partial = SubSeq(file, offset + 1, offset + held)
  BY Places DEF SameFile
<1>2. \A i \in 1..held : partial[i] = file[offset + i]
  <2>1. /\ offset + 1 \in Nat /\ offset + held \in Nat /\ offset + 1 >= 1
        /\ (offset + held) + 1 - (offset + 1) = held
    BY <1>1
  <2>2. \A i \in 1..((offset + held) + 1 - (offset + 1)) :
          SubSeq(file, offset + 1, offset + held)[i] = file[(offset + 1) + i - 1]
    <3> HIDE DEF held
    <3> QED BY <1>1, <2>1, PartOf
  <2>3. \A i \in 1..held : (offset + 1) + i - 1 = offset + i
    BY <1>1
  <2> HIDE DEF held
  <2> QED BY <1>1, <2>1, <2>2, <2>3
<1>3. /\ rest \in Seq(Cell) /\ Len(rest) = Len(file) - offset - held
      /\ \A i \in 1..Len(rest) : rest[i] = file[offset + held + i]
  <2> DEFINE from == offset + held + 1
  <2>1. /\ from \in Nat /\ from >= 1 /\ from <= Len(file) + 1 /\ Len(file) <= Len(file)
        /\ Len(file) + 1 - from = Len(file) - offset - held
    BY <1>1
  <2>2. /\ SubSeq(file, from, Len(file)) \in Seq(Cell)
        /\ Len(SubSeq(file, from, Len(file))) = Len(file) + 1 - from
        /\ \A i \in 1..(Len(file) + 1 - from) : SubSeq(file, from, Len(file))[i] = file[from + i - 1]
    <3> HIDE DEF from
    <3> QED BY <1>1, <2>1, PartOf
  <2>3. \A i \in 1..(Len(file) - offset - held) : from + i - 1 = offset + held + i
    BY <1>1
  <2> HIDE DEF held
  <2> QED BY <2>1, <2>2, <2>3
<1>4. Buffer = partial \o rest
  BY DEF Buffer
<1> HIDE DEF rest
<1>5. /\ Len(Buffer) = held + Len(rest)
      /\ \A i \in 1..held : Buffer[i] = partial[i]
      /\ \A i \in 1..Len(rest) : Buffer[held + i] = rest[i]
  <2>1. \A s, t \in Seq(Cell) :
          /\ Len(s \o t) = Len(s) + Len(t)
          /\ \A i \in 1..Len(s) : (s \o t)[i] = s[i]
          /\ \A i \in 1..Len(t) : (s \o t)[Len(s) + i] = t[i]
    OBVIOUS
  <2> HIDE DEF Buffer
  <2> QED BY <1>1, <1>3, <1>4, <2>1, Zenon
<1> HIDE DEF held
<1>6. Len(Buffer) = Len(file) - offset
  BY <1>1, <1>3, <1>5
<1>7. ASSUME NEW i \in 1..Len(Buffer)
      PROVE  Buffer[i] = file[offset + i]
  <2>1. CASE i <= held
    <3>1. i \in 1..held
      BY <1>1, <1>6, <2>1
    <3> QED BY <1>2, <1>5, <3>1
  <2>2. CASE ~(i <= held)
    <3> DEFINE j == i - held
    <3>1. j \in 1..Len(rest) /\ held + j = i /\ offset + held + j = offset + i
      BY <1>1, <1>3, <1>6, <2>2
    <3>2. Buffer[held + j] = rest[j] /\ rest[j] = file[offset + held + j]
      BY <1>3, <1>5, <3>1
    <3> HIDE DEF j
    <3> QED BY <3>1, <3>2
  <2> QED BY <2>1, <2>2
<1> QED BY <1>6, <1>7

LEMMA SameCells ==
  ASSUME NEW s \in Seq(Cell), NEW t \in Seq(Cell), NEW at \in Nat,
         \A i \in 1..Len(t) : t[i] = s[at + i]
  PROVE  t = SubSeq(s, at + 1, at + Len(t))
<1>1. Len(t) \in Nat /\ t = [i \in 1..Len(t) |-> t[i]]
  OBVIOUS
<1> DEFINE n == Len(t)
<1> HIDE DEF n
<1>2. /\ at + 1 \in Nat /\ at + n \in Nat /\ (at + n) + 1 - (at + 1) = n
      /\ \A i \in 1..n : (at + 1) + i - 1 = at + i
  BY <1>1 DEF n
<1>3. SubSeq(s, at + 1, at + n) = [i \in 1..((at + n) + 1 - (at + 1)) |-> s[(at + 1) + i - 1]]
  BY <1>2, Cut
<1>4. SubSeq(s, at + 1, at + n) = [i \in 1..n |-> s[at + i]]
  BY <1>2, <1>3
<1>5. t = [i \in 1..n |-> s[at + i]]
  BY <1>1 DEF n
<1> QED BY <1>4, <1>5 DEF n

LEMMA CollectorKeepsHeld ==
  ASSUME TypeInv, HeldInv, CollectorStep \/ Crash
  PROVE  HeldInv'
<1>0. UNCHANGED <<file, present, inode, rotations>>
  BY DEF streamVars, CollectorStep, Start, PollStat, PollRead, ResetCursor, HandleLine, EndPoll,
         Crash
<1>1. ASSUME lines' = <<>>, cursor' = cursor, pc' \notin {"rotated", "rotated read"},
             rotations = 0 => \/ UNCHANGED readerVars /\ pc # "down"
                              \/ identity' = NoInode /\ pc' = "down"
      PROVE  HeldInv'
  <2>1. Ordered(lines') /\ Within(cursor', lines', offset')
    BY <1>1, NoLines
  <2>2. ASSUME rotations = 0
        PROVE  SameFile'
    <3>1. SameFile
      BY <2>2 DEF HeldInv
    <3>2. CASE UNCHANGED readerVars /\ pc # "down"
      BY <1>0, <1>1, <2>1, <3>1, <3>2 DEF SameFile, readerVars
    <3>3. CASE identity' = NoInode /\ pc' = "down"
      BY <1>0, <1>1, <2>1, <3>1, <3>3 DEF SameFile
    <3> QED BY <1>1, <2>2, <3>2, <3>3
  <2> QED BY <1>0, <1>1, <2>1, <2>2 DEF HeldInv
<1>2. CASE Start
  <2>1. /\ lines' = <<>> /\ cursor' = cursor /\ pc' = "idle" /\ offset' = cursor
        /\ partial' = <<>> /\ identity' = NoInode
    BY <1>2 DEF Start, HeldInv, FreshReader
  <2>2. Ordered(lines') /\ Within(cursor', lines', offset')
    BY <2>1, NoLines
  <2>3. ASSUME rotations = 0
        PROVE  SameFile'
    <3>1. cursor \in Nat /\ cursor <= Len(file) /\ file \in Seq(Cell) /\ Len(file) \in Nat
      BY <2>3, Places DEF HeldInv, SameFile
    <3>2. Len(<<>>) = 0 /\ cursor + 0 = cursor /\ cursor <= cursor
      BY <3>1
    <3>3. SubSeq(file, cursor + 1, cursor) = <<>>
      <4>1. cursor + 1 \in Nat /\ cursor + 1 >= 1 /\ cursor + 1 > cursor
        BY <3>1
      <4> QED BY <3>1, <4>1, PartOf
    <3> QED BY <1>0, <2>1, <2>2, <3>1, <3>2, <3>3 DEF SameFile
  <2> QED BY <1>0, <2>1, <2>2, <2>3 DEF HeldInv
<1>3. CASE PollStat
  <2>1. /\ UNCHANGED <<lines, cursor>> /\ lines = <<>> /\ pc = "idle" /\ Ordered(lines)
    BY <1>3 DEF PollStat, HeldInv
  <2>2. pc' \notin {"lines", "rotated"} => lines' = <<>>
    BY <2>1
  <2>3. ASSUME rotations = 0
        PROVE  SameFile'
    <3>1. SameFile /\ (present => ~Rotated)
      BY <2>1, <2>3, SameFileIsNotRotated DEF HeldInv
    <3>2. CASE present
      <4>1. /\ UNCHANGED <<offset, partial>> /\ identity' = inode /\ gap' = FALSE
            /\ pc' \in {"idle", "read"}
        BY <1>3, <3>1, <3>2 DEF PollStat, Stat
      <4> QED BY <1>0, <2>1, <3>1, <3>2, <4>1 DEF SameFile
    <3>3. CASE ~present
      <4>1. UNCHANGED <<offset, partial, identity>> /\ pc' = "idle"
        BY <1>3, <3>3 DEF PollStat, Stat
      <4> QED BY <1>0, <2>1, <3>1, <3>3, <4>1 DEF SameFile
    <3> QED BY <3>2, <3>3
  <2> QED BY <1>0, <2>1, <2>2, <2>3 DEF HeldInv
<1>4. CASE PollRead
  <2>0. /\ lines = <<>> /\ pc' \in {"rotated", "lines"} /\ cursor' = cursor
        /\ pc \in {"read", "rotated read"} /\ (pc = "read" => pc' = "lines")
    BY <1>4 DEF PollRead, HeldInv
  <2>1. CASE ~present
    <3>1. UNCHANGED <<readerVars, lines>>
      BY <1>4, <2>1 DEF PollRead
    <3>2. Ordered(lines') /\ Within(cursor', lines', offset')
      BY <2>0, <3>1, NoLines
    <3>3. rotations = 0 => SameFile'
      BY <1>0, <2>0, <3>1, <3>2 DEF HeldInv, SameFile, readerVars
    <3> QED BY <1>0, <2>0, <3>2, <3>3 DEF HeldInv
  <2>2. CASE present
    <3> DEFINE n == Len(Buffer)
               last == LastNewline(Buffer)
               rest == SubSeq(Buffer, last + 1, n)
               ls == Frames(Buffer)
    <3>1. /\ offset' = offset + last /\ partial' = rest /\ lines' = ls
          /\ UNCHANGED <<identity, gap>>
      BY <1>4, <2>2 DEF PollRead, Read
    <3>2. /\ n \in Nat /\ last \in Nat /\ last <= n /\ offset \in Nat
          /\ rest \in Seq(Cell) /\ Len(rest) = n - last
          /\ \A i \in 1..(n - last) : rest[i] = Buffer[last + i]
      <4>1. /\ n \in Nat /\ last \in Nat /\ last \in 0..n /\ offset \in Nat
            /\ rest \in Seq(Cell) /\ Len(rest) = n - last
            /\ \A i \in 1..(n - last) : rest[i] = Buffer[last + i]
        BY ReadIsTyped
      <4> HIDE DEF n, last, rest
      <4> QED BY <4>1
    <3>3. /\ ls \in Seq(RawLines) /\ Ordered(ls) /\ Within(offset, ls, offset + last)
      <4>1. Buffer \in Seq(Cell) /\ offset \in Nat
        BY ReadIsTyped
      <4> QED BY <4>1, FramesFit
    <3> HIDE DEF n, last, rest, ls
    <3>4. ASSUME rotations = 0
          PROVE  SameFile'
      <4>1. SameFile /\ pc = "read" /\ cursor <= offset /\ cursor <= Len(file)
        BY <2>0, <3>4 DEF HeldInv, SameFile
      <4>2. /\ n = Len(file) - offset /\ \A i \in 1..n : Buffer[i] = file[offset + i]
        BY <4>1, BufferIsFile DEF n
      <4>3. Len(file) \in Nat /\ cursor \in Nat /\ file \in Seq(Cell)
        BY Places
      <4>4. /\ (offset + last) + Len(rest) <= Len(file) /\ cursor <= offset + last
            /\ offset + last \in Nat
        BY <3>2, <4>1, <4>2, <4>3
      <4>5. \A i \in 1..Len(rest) : rest[i] = file[(offset + last) + i]
        <5>1. \A i \in 1..(n - last) : last + i \in 1..n /\ offset + (last + i) = (offset + last) + i
          BY <3>2
        <5> QED BY <3>2, <4>2, <5>1
      <4>6. rest = SubSeq(file, (offset + last) + 1, (offset + last) + Len(rest))
        BY <3>2, <4>3, <4>4, <4>5, SameCells
      <4>7. Within(cursor, ls, offset + last)
        <5>1. \A k \in 1..Len(ls) : ls[k] \in RawLines
          BY <3>3
        <5>2. \A raw \in RawLines : raw.start \in Nat
          BY DEF RawLines
        <5>3. \A k \in 1..Len(ls) : offset <= ls[k].start => cursor <= ls[k].start
          <6>1. \A a \in Nat : offset <= a => cursor <= a
            BY <3>2, <4>1, <4>3
          <6> QED BY <5>1, <5>2, <6>1
        <5> QED BY <3>3, <5>3 DEF Within
      <4> QED BY <1>0, <2>0, <2>2, <3>1, <4>1, <4>4, <4>6, <4>7 DEF SameFile
    <3> QED BY <1>0, <2>0, <3>1, <3>3, <3>4 DEF HeldInv
  <2> QED BY <2>1, <2>2
<1>5. CASE ResetCursor
  <2>1. pc = "rotated" /\ rotations # 0 /\ Ordered(lines)
    BY <1>5 DEF ResetCursor, HeldInv, SameFile
  <2>2. CASE Fail
    <3>1. Ordered(lines') /\ lines' = <<>>
      BY <2>2, NoLines DEF Fail
    <3> QED BY <1>0, <2>1, <3>1 DEF HeldInv
  <2>3. CASE ~Fail
    <3>1. UNCHANGED lines /\ pc' = "lines"
      BY <1>5, <2>3 DEF ResetCursor
    <3> QED BY <1>0, <2>1, <3>1 DEF HeldInv
  <2> QED BY <2>2, <2>3
<1>6. CASE HandleLine
  <2>1. pc = "lines" /\ lines # <<>> /\ Ordered(lines)
    BY <1>6 DEF HandleLine, HeldInv
  <2>2. CASE Fail
    <3>1. /\ lines' = <<>> /\ cursor' = cursor /\ pc' \notin {"rotated", "rotated read"}
          /\ (UNCHANGED readerVars \/ (identity' = NoInode /\ pc' = "down"))
      BY <2>2 DEF Fail, FreshReader
    <3> QED BY <1>1, <2>1, <3>1
  <2>3. CASE ~Fail
    <3>1. /\ cursor' = CursorFor(lines[1]) /\ lines' = Tail(lines)
          /\ UNCHANGED <<readerVars, pc>>
      BY <1>6, <2>1, <2>3, FirstLine DEF HandleLine, Persist
    <3>2. /\ Len(lines) \in Nat \ {0} /\ Len(lines') = Len(lines) - 1
          /\ \A k \in 1..Len(lines') : /\ k \in 1..Len(lines) /\ k + 1 \in 1..Len(lines) /\ 1 < k + 1
                                       /\ lines'[k] = lines[k + 1]
      <4>1. /\ Len(lines) \in Nat \ {0} /\ Len(lines') = Len(lines) - 1
            /\ \A k \in 1..(Len(lines) - 1) : lines'[k] = lines[k + 1]
        BY <2>1, <3>1, FirstLine
      <4>2. \A k \in 1..(Len(lines) - 1) :
              k \in 1..Len(lines) /\ k + 1 \in 1..Len(lines) /\ 1 < k + 1
        BY <4>1
      <4> QED BY <4>1, <4>2
    <3>3. Ordered(lines')
      <4> SUFFICES ASSUME NEW j \in 1..Len(lines'), NEW k \in 1..Len(lines'), j < k
                   PROVE  CursorFor(lines'[j]) <= lines'[k].start
        BY Zenon DEF Ordered
      <4>1. j + 1 < k + 1
        BY <3>2
      <4> QED BY <2>1, <3>2, <4>1 DEF Ordered
    <3>4. ASSUME rotations = 0
          PROVE  SameFile'
      <4>1. SameFile
        BY <3>4 DEF HeldInv
      <4>2. 1 \in 1..Len(lines)
        BY <3>2
      <4>3. CursorFor(lines[1]) <= offset /\ CursorFor(lines[1]) <= Len(file)
        <5>1. CursorFor(lines[1]) <= offset /\ offset + Len(partial) <= Len(file)
          BY <2>1, <4>1, <4>2 DEF SameFile, Within
        <5>2. CursorFor(lines[1]) \in Nat /\ offset \in Nat /\ Len(partial) \in Nat /\ Len(file) \in Nat
          BY <4>2, Places
        <5> QED BY <5>1, <5>2
      <4>4. Within(cursor', lines', offset)
        <5> SUFFICES ASSUME NEW k \in 1..Len(lines')
                     PROVE  /\ cursor' <= lines'[k].start /\ lines'[k].start < CursorFor(lines'[k])
                            /\ CursorFor(lines'[k]) <= offset
          BY Zenon DEF Within
        <5>1. CursorFor(lines[1]) <= lines[k + 1].start
          BY <2>1, <3>2, <4>2 DEF Ordered
        <5>2. lines[k + 1].start < CursorFor(lines[k + 1]) /\ CursorFor(lines[k + 1]) <= offset
          BY <3>2, <4>1 DEF SameFile, Within
        <5> QED BY <3>1, <3>2, <5>1, <5>2
      <4> QED BY <1>0, <2>1, <3>1, <4>1, <4>3, <4>4 DEF SameFile, readerVars
    <3> QED BY <1>0, <2>1, <3>1, <3>3, <3>4 DEF HeldInv
  <2> QED BY <2>2, <2>3
<1>7. CASE EndPoll
  <2>1. lines' = <<>> /\ cursor' = cursor /\ pc = "lines" /\ pc' = "idle" /\ UNCHANGED readerVars
    BY <1>7 DEF EndPoll
  <2> QED BY <1>1, <2>1
<1>8. CASE Crash
  <2>1. lines' = <<>> /\ cursor' = cursor /\ pc' = "down" /\ identity' = NoInode
    BY <1>8 DEF Crash, FreshReader
  <2> QED BY <1>1, <2>1
<1> QED BY <1>2, <1>3, <1>4, <1>5, <1>6, <1>7, <1>8 DEF CollectorStep

LEMMA HeldAtStart == Init => HeldInv
<1> SUFFICES ASSUME Init PROVE HeldInv
  OBVIOUS
<1>1. /\ lines = <<>> /\ pc = "down" /\ identity = NoInode /\ cursor = 0 /\ file = <<>>
  BY DEF Init, StreamInit
<1>2. Len(<<>>) = 0 /\ 0 <= 0
  OBVIOUS
<1> QED BY <1>1, <1>2, NoLines DEF HeldInv, SameFile

LEMMA HeldIsInvariant == Spec => [](TypeInv /\ HeldInv)
<1>1. TypeInv /\ HeldInv /\ [Next]_vars => HeldInv'
  <2> SUFFICES ASSUME TypeInv, HeldInv, [Next]_vars PROVE HeldInv'
    OBVIOUS
  <2>1. CASE UNCHANGED vars
    BY <2>1 DEF vars, streamVars, readerVars, HeldInv, SameFile
  <2> QED BY <2>1, BridgeKeepsHeld, CollectorKeepsHeld DEF Next
<1> QED BY <1>1, HeldAtStart, TypesAreInvariant, PTL DEF Spec

\* As long as the file is the same, the held partial line is what it holds at the reader's
\* offset (collector/adapters/reader.py): the next poll completes the line that is there.
THEOREM HeldIsFileHolds == Spec => []HeldIsFile
<1>1. HeldInv => HeldIsFile
  BY DEF HeldInv, SameFile, HeldIsFile
<1> QED BY <1>1, HeldIsInvariant, PTL

-----------------------------------------------------------------------------
(* The cursor keeps pace with the reader *)

\* Unless a transaction failed, the lines still to be handled lead without a gap from the
\* cursor (from the start of the file, while the cursor is yet to be reset) to the offset.
PaceInv ==
  failures = 0 =>
    /\ pc \in {"idle", "read"} => cursor = offset
    /\ pc = "rotated read" => offset = 0
    /\ pc = "rotated" => Joined(0, lines, offset)
    /\ pc = "lines" => Joined(cursor, lines, offset)

LEMMA NextKeepsPace ==
  ASSUME TypeInv, HeldInv, PaceInv, [Next]_vars
  PROVE  PaceInv'
<1>1. CASE BridgeStep \/ UNCHANGED vars
  <2>1. UNCHANGED <<offset, cursor, pc, lines, failures>>
    BY <1>1 DEF BridgeStep, vars, readerVars
  <2> QED BY <2>1 DEF PaceInv
<1>2. CASE Fail
  <2>1. failures' # 0
    <3>1. failures' = failures + 1
      BY <1>2 DEF Fail
    <3> QED BY <3>1, Places
  <2> QED BY <2>1 DEF PaceInv
<1>3. CASE Start
  <2>1. pc' = "idle" /\ cursor' = cursor /\ offset' = cursor
    BY <1>3 DEF Start, FreshReader
  <2> QED BY <2>1 DEF PaceInv
<1>4. CASE PollStat
  <2>1. UNCHANGED <<cursor, lines, failures>> /\ lines = <<>> /\ pc = "idle"
    BY <1>4 DEF PollStat, HeldInv
  <2>2. CASE present /\ Rotated
    <3>1. offset' = 0 /\ pc' \in {"rotated", "rotated read"}
      BY <1>4, <2>2 DEF PollStat, Stat
    <3> QED BY <2>1, <3>1 DEF PaceInv, Joined
  <2>3. CASE ~(present /\ Rotated)
    <3>1. offset' = offset /\ pc' \in {"idle", "read"}
      BY <1>4, <2>3 DEF PollStat, Stat
    <3> QED BY <2>1, <3>1 DEF PaceInv
  <2> QED BY <2>2, <2>3
<1>5. CASE PollRead
  <2>1. /\ UNCHANGED <<cursor, failures>> /\ lines = <<>> /\ offset \in Nat
        /\ \/ pc = "read" /\ pc' = "lines"
           \/ pc = "rotated read" /\ pc' = "rotated"
    BY <1>5, Places DEF PollRead, HeldInv
  <2>2. Joined(offset, lines', offset')
    <3>1. CASE present
      <4>1. lines' = Frames(Buffer) /\ offset' = offset + LastNewline(Buffer)
        BY <1>5, <3>1 DEF PollRead, Read
      <4>2. Buffer \in Seq(Cell)
        BY ReadIsTyped
      <4>3. Joined(offset, Frames(Buffer), offset + LastNewline(Buffer))
        BY <2>1, <4>2, FramesFit
      <4> QED BY <4>1, <4>3
    <3>2. CASE ~present
      BY <1>5, <2>1, <3>2 DEF PollRead, readerVars, Joined
    <3> QED BY <3>1, <3>2
  <2> QED BY <2>1, <2>2 DEF PaceInv
<1>6. CASE ResetCursor /\ ~Fail
  <2>1. pc = "rotated" /\ pc' = "lines" /\ cursor' = 0 /\ UNCHANGED <<offset, lines, failures>>
    BY <1>6 DEF ResetCursor, readerVars
  <2> QED BY <2>1 DEF PaceInv
<1>7. CASE HandleLine /\ ~Fail
  <2>1. /\ pc = "lines" /\ pc' = "lines" /\ lines # <<>> /\ UNCHANGED <<offset, failures>>
        /\ cursor' = CursorFor(lines[1]) /\ lines' = Tail(lines)
    BY <1>7, FirstLine DEF HandleLine, Persist, readerVars
  <2>2. /\ Len(lines) \in Nat \ {0} /\ Len(lines') = Len(lines) - 1 /\ lines' \in Seq(RawLines)
        /\ \A i \in 1..(Len(lines) - 1) : lines'[i] = lines[i + 1]
    BY <2>1, FirstLine
  <2>3. ASSUME Joined(cursor, lines, offset)
        PROVE  Joined(cursor', lines', offset)
    <3>0. /\ CursorFor(lines[Len(lines)]) = offset
          /\ \A k \in 1..(Len(lines) - 1) : CursorFor(lines[k]) = lines[k + 1].start
      BY <2>1, <2>3 DEF Joined
    <3>1. CASE Len(lines) = 1
      <4>1. lines' = <<>>
        BY <2>2, <3>1
      <4> QED BY <2>1, <3>0, <3>1, <4>1 DEF Joined
    <3>2. CASE Len(lines) # 1
      <4> DEFINE n == Len(lines) - 1
      <4>1. /\ n \in Nat \ {0} /\ 1 \in 1..n /\ n \in 1..n /\ n + 1 = Len(lines)
            /\ \A k \in 1..(n - 1) : k \in 1..n /\ k + 1 \in 1..n
        BY <2>2, <3>2
      <4>2. Len(lines') = n /\ lines' # <<>> /\ \A i \in 1..n : lines'[i] = lines[i + 1]
        BY <2>2, <4>1
      <4> HIDE DEF n
      <4>3. lines'[1].start = cursor'
        <5>1. CursorFor(lines[1]) = lines[1 + 1].start
          BY <3>0, <4>1 DEF n
        <5> QED BY <2>1, <4>1, <4>2, <5>1
      <4>4. CursorFor(lines'[n]) = offset
        BY <3>0, <4>1, <4>2
      <4>5. \A k \in 1..(n - 1) : CursorFor(lines'[k]) = lines'[k + 1].start
        BY <3>0, <4>1, <4>2 DEF n
      <4> QED BY <4>2, <4>3, <4>4, <4>5 DEF Joined
    <3> QED BY <3>1, <3>2
  <2> QED BY <2>1, <2>3 DEF PaceInv
<1>8. CASE EndPoll
  <2>1. pc = "lines" /\ lines = <<>> /\ pc' = "idle" /\ UNCHANGED <<offset, cursor, failures>>
    BY <1>8 DEF EndPoll, readerVars
  <2> QED BY <2>1 DEF PaceInv, Joined
<1>9. CASE Crash
  <2>1. pc' = "down"
    BY <1>9 DEF Crash
  <2> QED BY <2>1 DEF PaceInv
<1> QED BY <1>1, <1>2, <1>3, <1>4, <1>5, <1>6, <1>7, <1>8, <1>9 DEF Next, CollectorStep

LEMMA PaceImpliesCursorKeepsPace ==
  ASSUME TypeInv, HeldInv, PaceInv
  PROVE  CursorKeepsPace
<1> SUFFICES ASSUME failures = 0, pc = "lines", NEW i \in DOMAIN lines
             PROVE  cursor <= lines[i].start
  BY DEF CursorKeepsPace, PaceInv
<1>1. /\ Len(lines) \in Nat /\ i \in 1..Len(lines) /\ 1 \in 1..Len(lines) /\ lines # <<>>
  <2>1. lines \in Seq(RawLines)
    BY Places
  <2>2. Len(lines) \in Nat /\ i \in 1..Len(lines) /\ lines # <<>>
    BY <2>1
  <2> QED BY <2>2
<1>2. lines[1].start = cursor /\ cursor \in Nat /\ lines[i].start \in Nat
  BY <1>1, Places DEF PaceInv, Joined
<1>3. CASE i = 1
  BY <1>2, <1>3
<1>4. CASE i # 1
  <2>1. 1 < i
    BY <1>1, <1>4
  <2>2. CursorFor(lines[1]) <= lines[i].start /\ lines[1].start < CursorFor(lines[1])
        /\ CursorFor(lines[1]) \in Nat
    BY <1>1, <2>1, Places DEF HeldInv, Ordered
  <2> QED BY <1>2, <2>2
<1> QED BY <1>3, <1>4

\* Unless a transaction failed, no line the process still holds lies before the persisted
\* cursor, and between polls the cursor is where the reader goes on (pipeline.py,
\* insert_event_with_cursor): a crash loses no line and a restart reads what the running
\* reader would have read.
THEOREM CursorKeepsPaceHolds == Spec => []CursorKeepsPace
<1>1. Init => PaceInv
  BY DEF Init, PaceInv
<1>2. TypeInv /\ HeldInv /\ PaceInv /\ [Next]_vars => PaceInv'
  BY NextKeepsPace
<1>3. TypeInv /\ HeldInv /\ PaceInv => CursorKeepsPace
  BY PaceImpliesCursorKeepsPace
<1> QED BY <1>1, <1>2, <1>3, HeldIsInvariant, PTL DEF Spec

-----------------------------------------------------------------------------
(* Events are inserted in order and once *)

\* The lines of a file come in the order of their numbers, and a number does not come
\* again after a newline that follows it.
FileInOrder ==
  /\ \A i \in 1..Len(file) : file[i] <= next
  /\ torn = 0 => \A i \in 1..Len(file) : file[i] < next
  /\ \A i, k \in 1..Len(file) : i < k /\ file[k] = NL => file[i] < next
  /\ \A i, j \in 1..Len(file) : i < j => file[j] = NL \/ file[i] <= file[j]
  /\ \A i, k, j \in 1..Len(file) :
       i < k /\ k < j /\ file[k] = NL /\ file[j] # NL => file[i] < file[j]

\* The lines handed over are cells of the file that end before a newline.
LinesOfFile ==
  \A k \in 1..Len(lines) :
    /\ file[CursorFor(lines[k])] = NL
    /\ \A i \in 1..Len(lines[k].data) : lines[k].data[i] = file[lines[k].start + i]

\* The events come from lines that end before the cursor.
OrderInv ==
  rotations = 0 =>
    /\ FileInOrder /\ LinesOfFile
    /\ \A i, j \in 1..Len(events) : i < j => events[i] < events[j]
    /\ \A j \in 1..Len(events) : \E p, q \in 1..cursor :
         p < q /\ file[p] = events[j] /\ file[q] = NL

LEMMA WritesKeepOrder ==
  ASSUME TypeInv, FileInOrder, NEW part \in Seq(Cell), Writes(part)
  PROVE  FileInOrder'
<1> DEFINE n == Len(file)
           m == Len(file')
<1>1. /\ n \in Nat /\ m = n + Len(part) /\ Len(part) \in Nat /\ next \in Nat \ {0}
      /\ \A i \in 1..n : file'[i] = file[i]
      /\ \A i \in 1..Len(part) : file'[n + i] = part[i]
  BY Places DEF Writes, Grown, Lines
<1>2. next' \in Nat /\ next <= next' /\ (torn' = 0 => next < next')
  BY <1>1, ConstantsAreTyped DEF Writes
<1>3. \A i \in 1..Len(part) : /\ part[i] \in {next, NL}
                              /\ part[i] = NL => i = Len(part) /\ next < next'
  <2>1. \A i \in 1..Len(part) : part[i] \in {next, NL}
    <3>1. \A S : \A s \in Seq(S) : \A i \in 1..Len(s) : s[i] \in S
      OBVIOUS
    <3> QED BY <3>1 DEF Writes
  <2>2. next # NL /\ Width \in Nat \ {0}
    BY <1>1, ConstantsAreTyped DEF NL
  <2>3. CASE part = <<>> \/ part = <<next>>
    BY <2>1, <2>2, <2>3
  <2>4. CASE /\ next' = next + 1 /\ torn \in 0..Width /\ Len(part) = Width + 1 - torn
             /\ \A i \in 1..Len(part) : part[i] = IF torn + i <= Width THEN next ELSE NL
    <3>1. next < next'
      BY <1>1, <2>4
    <3>2. ASSUME NEW i \in 1..Len(part), part[i] = NL
          PROVE  i = Len(part)
      <4>1. ~(torn + i <= Width)
        BY <2>2, <2>4, <3>2
      <4> QED BY <2>2, <2>4, <4>1
    <3> QED BY <2>1, <3>1, <3>2
  <2> QED BY <2>3, <2>4 DEF Writes
<1> HIDE DEF n, m
<1>4. \A i \in 1..m : i \notin 1..n =>
        file'[i] \in {next, NL} /\ (file'[i] = NL => i = m /\ next < next')
  <2> SUFFICES ASSUME NEW i \in 1..m, i \notin 1..n
               PROVE  file'[i] \in {next, NL} /\ (file'[i] = NL => i = m /\ next < next')
    OBVIOUS
  <2>1. i - n \in 1..Len(part) /\ n + (i - n) = i /\ (i - n = Len(part) => i = m)
    BY <1>1
  <2> QED BY <1>1, <1>3, <2>1
<1>5. \A i \in 1..n : file[i] \in Nat
  <2>1. \A i \in 1..Len(file) : file[i] \in Cell
    <3>1. \A S : \A s \in Seq(S) : \A i \in 1..Len(s) : s[i] \in S
      OBVIOUS
    <3> QED BY <3>1, Places
  <2>2. Cell \subseteq Nat
    BY ConstantsAreTyped DEF Cell, Lines, NL
  <2> QED BY <2>1, <2>2 DEF n
<1>6. /\ \A i \in 1..n : file[i] <= next
      /\ \A i, k \in 1..n : i < k /\ file[k] = NL => file[i] < next
      /\ \A i, j \in 1..n : i < j => file[j] = NL \/ file[i] <= file[j]
      /\ \A i, k, j \in 1..n :
           i < k /\ k < j /\ file[k] = NL /\ file[j] # NL => file[i] < file[j]
  BY DEF FileInOrder, n
<1>7. \A i \in 1..m : file'[i] \in Nat /\ file'[i] <= next
  <2> SUFFICES ASSUME NEW i \in 1..m
               PROVE  file'[i] \in Nat /\ file'[i] <= next
    OBVIOUS
  <2>1. CASE i \in 1..n
    BY <1>1, <1>5, <1>6, <2>1
  <2>2. CASE i \notin 1..n
    <3>1. next \in Nat /\ next <= next /\ NL \in Nat /\ NL <= next
      BY <1>1 DEF NL
    <3> QED BY <1>4, <2>2, <3>1
  <2> QED BY <2>1, <2>2
<1>8. \A i, j \in 1..m : i < j /\ j \in 1..n => i \in 1..n
  BY <1>1
<1>9. \A i \in 1..m : file'[i] <= next'
  <2>1. \A a \in Nat : a <= next => a <= next'
    BY <1>1, <1>2
  <2> QED BY <1>7, <2>1
<1>10. next < next' => \A i \in 1..m : file'[i] < next'
  <2>1. next < next' => \A a \in Nat : a <= next => a < next'
    BY <1>1, <1>2
  <2> QED BY <1>7, <2>1
<1>11. ASSUME NEW i \in 1..m, NEW k \in 1..m, i < k, file'[k] = NL
       PROVE  file'[i] < next'
  <2>1. CASE k \in 1..n
    <3>1. i \in 1..n /\ file'[i] = file[i] /\ file'[k] = file[k]
      BY <1>1, <1>8, <1>11, <2>1
    <3>2. file[i] < next /\ file[i] \in Nat
      BY <1>5, <1>6, <1>11, <2>1, <3>1
    <3> QED BY <1>1, <1>2, <3>1, <3>2
  <2>2. CASE k \notin 1..n
    BY <1>4, <1>10, <1>11, <2>2
  <2> QED BY <2>1, <2>2
<1>12. ASSUME NEW i \in 1..m, NEW j \in 1..m, i < j
       PROVE  file'[j] = NL \/ file'[i] <= file'[j]
  <2>1. CASE j \in 1..n
    BY <1>1, <1>6, <1>8, <1>12, <2>1
  <2>2. CASE j \notin 1..n
    BY <1>4, <1>7, <2>2
  <2> QED BY <2>1, <2>2
<1>13. ASSUME NEW i \in 1..m, NEW k \in 1..m, NEW j \in 1..m,
              i < k, k < j, file'[k] = NL, file'[j] # NL
       PROVE  file'[i] < file'[j]
  <2>1. k \in 1..n
    <3>1. k # m
      BY <1>1, <1>13
    <3> QED BY <1>4, <1>13, <3>1
  <2>2. i \in 1..n /\ file'[i] = file[i] /\ file'[k] = file[k]
    BY <1>1, <1>8, <1>13, <2>1
  <2>3. CASE j \in 1..n
    BY <1>1, <1>6, <1>13, <2>1, <2>2, <2>3
  <2>4. CASE j \notin 1..n
    <3>1. file'[j] = next
      BY <1>4, <1>13, <2>4
    <3> QED BY <1>6, <1>13, <2>1, <2>2, <3>1
  <2> QED BY <2>3, <2>4
<1>14. torn' = 0 => \A i \in 1..m : file'[i] < next'
  BY <1>2, <1>10
<1> QED BY <1>9, <1>11, <1>12, <1>13, <1>14 DEF FileInOrder, m

\* What the cursor and the lines rely on stays when the file grows.
LEMMA BridgeKeepsOrder ==
  ASSUME TypeInv, HeldInv, OrderInv, BridgeStep
  PROVE  OrderInv'
<1>0. UNCHANGED <<events, cursor, lines>>
  BY DEF BridgeStep
<1> SUFFICES ASSUME rotations' = 0
             PROVE  /\ FileInOrder' /\ LinesOfFile'
                    /\ \A j \in 1..Len(events) : \E p, q \in 1..cursor :
                         p < q /\ file'[p] = events[j] /\ file'[q] = NL
                    /\ \A i, j \in 1..Len(events) : i < j => events[i] < events[j]
  BY <1>0 DEF OrderInv
<1>1. /\ rotations = 0 /\ SameFile /\ FileInOrder /\ LinesOfFile
      /\ \A j \in 1..Len(events) : \E p, q \in 1..cursor :
           p < q /\ file[p] = events[j] /\ file[q] = NL
      /\ \A i, j \in 1..Len(events) : i < j => events[i] < events[j]
  BY SameFileGrows DEF HeldInv, OrderInv
<1>2. CASE ~present /\ UNCHANGED <<file, next, torn>>
  BY <1>0, <1>1, <1>2 DEF FileInOrder, LinesOfFile
<1>3. CASE \E part \in Seq(Cell) : Writes(part)
  <2>1. PICK part \in Seq(Cell) : Writes(part)
    BY <1>3
  <2>2. FileInOrder'
    BY <1>1, <2>1, WritesKeepOrder
  <2>3. \A i \in 1..Len(file) : file'[i] = file[i]
    BY <2>1 DEF Writes, Grown
  <2>4. cursor \in Nat /\ cursor <= Len(file) /\ Len(file) \in Nat
    BY <1>1, Places DEF SameFile
  <2>5. \A p \in 1..cursor : p \in 1..Len(file)
    BY <2>4
  <2>6. LinesOfFile'
    <3>1. ASSUME NEW k \in 1..Len(lines)
          PROVE  /\ CursorFor(lines[k]) \in 1..Len(file)
                 /\ \A i \in 1..Len(lines[k].data) : lines[k].start + i \in 1..Len(file)
      <4>1. CursorFor(lines[k]) <= Len(file) /\ CursorFor(lines[k]) \in Nat \ {0}
        <5>1. CASE pc = "down"
          BY <5>1 DEF HeldInv
        <5>2. CASE pc # "down"
          <6>1. CursorFor(lines[k]) <= offset /\ offset + Len(partial) <= Len(file)
            BY <1>1, <5>2 DEF SameFile, Within
          <6>2. /\ CursorFor(lines[k]) \in Nat /\ lines[k].start \in Nat /\ offset \in Nat
                /\ lines[k].start < CursorFor(lines[k]) /\ Len(partial) \in Nat
            BY Places
          <6> QED BY <2>4, <6>1, <6>2
        <5> QED BY <5>1, <5>2
      <4>2. lines[k].start \in Nat /\ Len(lines[k].data) \in Nat
        <5>1. \A raw \in RawLines : raw.start \in Nat /\ Len(raw.data) \in Nat
          BY DEF RawLines
        <5> QED BY <5>1, Places
      <4>3. CursorFor(lines[k]) = lines[k].start + Len(lines[k].data) + 1
        BY DEF CursorFor
      <4> QED BY <2>4, <4>1, <4>2, <4>3
    <3> QED BY <1>0, <1>1, <2>3, <3>1 DEF LinesOfFile, CursorFor
  <2>7. \A j \in 1..Len(events) : \E p, q \in 1..cursor :
          p < q /\ file'[p] = events[j] /\ file'[q] = NL
    <3> SUFFICES ASSUME NEW j \in 1..Len(events)
                 PROVE  \E p, q \in 1..cursor : p < q /\ file'[p] = events[j] /\ file'[q] = NL
      OBVIOUS
    <3>1. PICK p \in 1..cursor, q \in 1..cursor : p < q /\ file[p] = events[j] /\ file[q] = NL
      BY <1>1
    <3>2. file'[p] = file[p] /\ file'[q] = file[q]
      BY <2>3, <2>5
    <3> QED BY <3>1, <3>2
  <2> QED BY <1>1, <2>2, <2>6, <2>7
<1> QED BY <1>2, <1>3, SameFileGrows

\* The lines that a poll publishes are cells of the file.
LEMMA FramesOfFile ==
  ASSUME TypeInv, SameFile, pc # "down"
  PROVE  LET ls == Frames(Buffer) IN
         \A k \in 1..Len(ls) :
           /\ file[CursorFor(ls[k])] = NL
           /\ \A i \in 1..Len(ls[k].data) : ls[k].data[i] = file[ls[k].start + i]
<1> DEFINE ls == Frames(Buffer)
<1>1. Buffer \in Seq(Cell) /\ offset \in Nat
  BY ReadIsTyped
<1>2. \A k \in 1..Len(ls) : \E e \in Newlines(Buffer), b \in Nat :
        b < e /\ ls[k] = RawLine(Buffer, b, e)
  BY <1>1, FramesFit
<1>3. /\ Len(Buffer) = Len(file) - offset
      /\ \A i \in 1..Len(Buffer) : Buffer[i] = file[offset + i]
  BY BufferIsFile
<1>4. /\ \A e \in Newlines(Buffer) : e \in Nat \ {0} /\ e \in 1..Len(Buffer)
      /\ Len(Buffer) \in Nat
  BY <1>1, NewlinesOf
<1>8. \A e \in Newlines(Buffer) : Buffer[e] = NL
  BY DEF Newlines
<1> HIDE DEF ls, Buffer
<1>5. ASSUME NEW k \in 1..Len(ls)
      PROVE  /\ file[CursorFor(ls[k])] = NL
             /\ \A i \in 1..Len(ls[k].data) : ls[k].data[i] = file[ls[k].start + i]
  <2>1. PICK e \in Newlines(Buffer), b \in Nat : b < e /\ ls[k] = RawLine(Buffer, b, e)
    BY <1>2
  <2>2. e \in 1..Len(Buffer) /\ b \in 0..(e - 1) /\ e \in Nat \ {0}
    BY <1>4, <2>1
  <2>3. /\ ls[k].start = offset + b /\ Len(ls[k].data) = e - 1 - b
        /\ \A i \in 1..(e - 1 - b) : ls[k].data[i] = Buffer[b + i]
        /\ CursorFor(ls[k]) = offset + e
    <3>1. /\ RawLine(Buffer, b, e).start = offset + b
          /\ Len(RawLine(Buffer, b, e).data) = e - 1 - b
          /\ \A i \in 1..(e - 1 - b) : RawLine(Buffer, b, e).data[i] = Buffer[b + i]
          /\ CursorFor(RawLine(Buffer, b, e)) = offset + e
      BY <1>1, <2>2, RawLineIs, Zenon
    <3> QED BY <2>1, <3>1, Zenon
  <2>4. file[offset + e] = NL
    BY <1>3, <1>8, <2>1, <2>2
  <2>5. \A i \in 1..(e - 1 - b) : b + i \in 1..Len(Buffer) /\ offset + (b + i) = (offset + b) + i
    BY <1>1, <1>4, <2>1, <2>2
  <2> QED BY <1>3, <2>3, <2>4, <2>5
<1> QED BY <1>5 DEF ls

\* The step that inserts: what was inserted before comes from lines before this one.
LEMMA HandleKeepsOrder ==
  ASSUME TypeInv, HeldInv, OrderInv, rotations = 0, pc = "lines", lines # <<>>,
         Persist(Head(lines)), lines' = Tail(lines), UNCHANGED <<file, next, torn>>
  PROVE  OrderInv'
<1> DEFINE raw == lines[1]
           n == Len(events)
<1>1. /\ SameFile /\ FileInOrder /\ LinesOfFile
      /\ \A i, j \in 1..n : i < j => events[i] < events[j]
      /\ \A j \in 1..n : \E p, q \in 1..cursor :
           p < q /\ file[p] = events[j] /\ file[q] = NL
  BY DEF HeldInv, OrderInv
<1>2. /\ Len(lines) \in Nat \ {0} /\ Len(lines') = Len(lines) - 1
      /\ \A i \in 1..(Len(lines) - 1) : lines'[i] = lines[i + 1]
      /\ Head(lines) = raw /\ CursorFor(raw) \in Nat /\ raw.start \in Nat
      /\ Len(raw.data) \in Nat /\ CursorFor(raw) = raw.start + Len(raw.data) + 1
  BY FirstLine
<1>3. /\ cursor' = CursorFor(raw)
      /\ events' = IF CarriesEvent(raw) THEN Append(events, raw.data[1]) ELSE events
  BY <1>2 DEF Persist
<1>4. /\ cursor <= raw.start /\ cursor \in Nat /\ CursorFor(raw) <= Len(file) /\ Len(file) \in Nat
  <2>1. 1 \in 1..Len(lines)
    BY <1>2
  <2>2. cursor <= raw.start /\ CursorFor(raw) <= offset /\ offset + Len(partial) <= Len(file)
    BY <1>1, <2>1 DEF SameFile, Within
  <2>3. cursor \in Nat /\ Len(file) \in Nat /\ offset \in Nat /\ Len(partial) \in Nat
    BY Places
  <2> HIDE DEF raw
  <2> QED BY <1>2, <2>2, <2>3
<1>5. /\ file[CursorFor(raw)] = NL
      /\ \A i \in 1..Len(raw.data) : raw.data[i] = file[raw.start + i]
  <2>1. 1 \in 1..Len(lines)
    BY <1>2
  <2> QED BY <1>1, <2>1 DEF LinesOfFile
<1>6. FileInOrder' /\ LinesOfFile'
  <2>1. \A k \in 1..Len(lines') : k \in 1..(Len(lines) - 1) /\ k + 1 \in 1..Len(lines)
    BY <1>2
  <2>2. LinesOfFile'
    <3> SUFFICES ASSUME NEW k \in 1..Len(lines')
                 PROVE  /\ file'[CursorFor(lines'[k])] = NL
                        /\ \A i \in 1..Len(lines'[k].data) :
                             lines'[k].data[i] = file'[lines'[k].start + i]
      BY DEF LinesOfFile, CursorFor
    <3>1. lines'[k] = lines[k + 1] /\ k + 1 \in 1..Len(lines)
      BY <1>2, <2>1
    <3> QED BY <1>1, <3>1 DEF LinesOfFile
  <2>3. UNCHANGED <<file, next, torn>>
    OBVIOUS
  <2>4. FileInOrder' <=> FileInOrder
    BY ONLY <2>3 DEF FileInOrder
  <2> QED BY <1>1, <2>2, <2>4
<1> HIDE DEF raw, n
<1>7. ASSUME NEW p \in 1..cursor
      PROVE  p \in 1..cursor' /\ p \in 1..Len(file) /\ p <= raw.start
  <2>1. cursor' \in Nat /\ raw.start < cursor' /\ cursor' <= Len(file) /\ raw.start \in Nat
    BY <1>2, <1>3, <1>4
  <2>2. p \in Nat /\ 1 <= p /\ p <= raw.start
    BY <1>2, <1>4
  <2> QED BY <1>4, <2>1, <2>2
<1>8. CASE ~CarriesEvent(raw)
  <2>1. events' = events
    BY <1>3, <1>8
  <2>2. ASSUME NEW j \in 1..n
        PROVE  \E p, q \in 1..cursor' : p < q /\ file[p] = events[j] /\ file[q] = NL
    <3>1. PICK p \in 1..cursor, q \in 1..cursor : p < q /\ file[p] = events[j] /\ file[q] = NL
      BY <1>1
    <3> QED BY <1>7, <3>1
  <2> QED BY <1>1, <1>6, <2>1, <2>2 DEF OrderInv, n
<1>9. CASE CarriesEvent(raw)
  <2> DEFINE ev == raw.data[1]
             at == raw.start + 1
  <2>1. /\ ev \in EventLines /\ Len(raw.data) = Width /\ ev # NL /\ Width \in Nat \ {0}
    BY <1>9, EventIsItsLine, ConstantsAreTyped
  <2>2. /\ at \in 1..Len(file) /\ at \in 1..cursor' /\ cursor' \in 1..cursor'
        /\ cursor' \in 1..Len(file) /\ at < cursor'
        /\ \A p \in 1..cursor : p < at
    BY <1>2, <1>3, <1>4, <2>1
  <2>3. file[at] = ev
    <3>1. 1 \in 1..Len(raw.data)
      BY <2>1
    <3> QED BY <1>5, <3>1
  <2>4. /\ n \in Nat /\ Len(events') = n + 1 /\ events'[n + 1] = ev
        /\ \A j \in 1..n : events'[j] = events[j]
    <3>1. \A s \in Seq(EventLines), x \in EventLines :
            /\ Len(s) \in Nat /\ Len(Append(s, x)) = Len(s) + 1 /\ Append(s, x)[Len(s) + 1] = x
            /\ \A j \in 1..Len(s) : Append(s, x)[j] = s[j]
      OBVIOUS
    <3>2. events \in Seq(EventLines) /\ events' = Append(events, ev)
      BY <1>3, <1>9, Places
    <3> QED BY <2>1, <3>1, <3>2, Zenon DEF n
  <2> HIDE DEF ev, at
  <2>5. ASSUME NEW j \in 1..n
        PROVE  events[j] < ev
    <3>1. PICK p \in 1..cursor, q \in 1..cursor : p < q /\ file[p] = events[j] /\ file[q] = NL
      BY <1>1
    <3>2. p \in 1..Len(file) /\ q \in 1..Len(file) /\ q < at
      BY <1>7, <2>2
    <3>3. file[p] < file[at]
      BY <1>1, <2>1, <2>2, <2>3, <3>1, <3>2 DEF FileInOrder
    <3> QED BY <2>3, <3>1, <3>3
  <2>6. \A i, j \in 1..(n + 1) : i < j => events'[i] < events'[j]
    <3> SUFFICES ASSUME NEW i \in 1..(n + 1), NEW j \in 1..(n + 1), i < j
                 PROVE  events'[i] < events'[j]
      OBVIOUS
    <3>1. i \in 1..n
      BY <2>4
    <3>2. CASE j \in 1..n
      BY <1>1, <2>4, <3>1, <3>2
    <3>3. CASE j \notin 1..n
      <4>1. j = n + 1
        BY <2>4, <3>3
      <4> QED BY <2>4, <2>5, <3>1, <4>1
    <3> QED BY <3>2, <3>3
  <2>7. ASSUME NEW j \in 1..(n + 1)
        PROVE  \E p, q \in 1..cursor' : p < q /\ file[p] = events'[j] /\ file[q] = NL
    <3>1. CASE j \in 1..n
      <4>1. PICK p \in 1..cursor, q \in 1..cursor : p < q /\ file[p] = events[j] /\ file[q] = NL
        BY <1>1, <3>1
      <4> QED BY <1>7, <2>4, <3>1, <4>1
    <3>2. CASE j \notin 1..n
      <4>1. j = n + 1
        BY <2>4, <3>2
      <4>2. file[at] = events'[j] /\ file[cursor'] = NL
        BY <1>3, <1>5, <2>3, <2>4, <4>1
      <4> QED BY <2>2, <4>2
    <3> QED BY <3>1, <3>2
  <2> QED BY <1>6, <2>4, <2>6, <2>7 DEF OrderInv
<1> QED BY <1>8, <1>9

LEMMA CollectorKeepsOrder ==
  ASSUME TypeInv, HeldInv, OrderInv, CollectorStep \/ Crash
  PROVE  OrderInv'
<1>0. UNCHANGED <<file, next, torn, rotations>>
  BY DEF streamVars, CollectorStep, Start, PollStat, PollRead, ResetCursor, HandleLine, EndPoll,
         Crash
<1>1. ASSUME events' = events, cursor' = cursor, rotations = 0 => LinesOfFile'
      PROVE  OrderInv'
  BY <1>0, <1>1 DEF OrderInv, FileInOrder
<1>2. ASSUME events' = events, cursor' = cursor, lines' = lines
      PROVE  OrderInv'
  BY <1>0, <1>1, <1>2 DEF OrderInv, LinesOfFile, CursorFor
<1>3. ASSUME events' = events, cursor' = cursor, lines' = <<>>
      PROVE  OrderInv'
  <2>1. LinesOfFile'
    <3>1. \A k \in 1..Len(<<>>) : FALSE
      OBVIOUS
    <3> QED BY <1>3, <3>1 DEF LinesOfFile
  <2> QED BY <1>1, <1>3, <2>1
<1>4. CASE Fail
  BY <1>3, <1>4 DEF Fail
<1>5. CASE Start \/ PollStat \/ EndPoll
  BY <1>2, <1>5 DEF Start, PollStat, EndPoll
<1>6. CASE PollRead
  <2>1. events' = events /\ cursor' = cursor /\ pc \in {"read", "rotated read"}
    BY <1>6 DEF PollRead
  <2>2. CASE present
    <3>1. lines' = Frames(Buffer)
      BY <1>6, <2>2 DEF PollRead
    <3>2. ASSUME rotations = 0
          PROVE  LinesOfFile'
      <4>1. SameFile /\ pc # "down"
        BY <2>1, <3>2 DEF HeldInv
      <4>2. \A k \in 1..Len(lines') :
              /\ file[CursorFor(lines'[k])] = NL
              /\ \A i \in 1..Len(lines'[k].data) : lines'[k].data[i] = file[lines'[k].start + i]
        BY <3>1, <4>1, FramesOfFile
      <4> QED BY <1>0, <4>2 DEF LinesOfFile, CursorFor
    <3> QED BY <1>1, <2>1, <3>2
  <2>3. CASE ~present
    BY <1>2, <1>6, <2>1, <2>3 DEF PollRead
  <2> QED BY <2>2, <2>3
<1>7. CASE ResetCursor /\ ~Fail
  <2>1. rotations # 0
    BY <1>7 DEF ResetCursor, HeldInv, SameFile
  <2> QED BY <1>0, <2>1 DEF OrderInv
<1>8. CASE HandleLine /\ ~Fail
  <2>1. pc = "lines" /\ lines # <<>> /\ Persist(Head(lines)) /\ lines' = Tail(lines)
    BY <1>8 DEF HandleLine
  <2>2. rotations = 0 => OrderInv'
    BY <1>0, <2>1, HandleKeepsOrder
  <2> QED BY <1>0, <2>2 DEF OrderInv
<1>9. CASE Crash
  BY <1>3, <1>9 DEF Crash
<1> QED BY <1>4, <1>5, <1>6, <1>7, <1>8, <1>9 DEF CollectorStep

LEMMA OrderAtStart == Init => OrderInv
<1> SUFFICES ASSUME Init PROVE OrderInv
  OBVIOUS
<1>1. file = <<>> /\ lines = <<>> /\ events = <<>>
  BY DEF Init, StreamInit
<1>2. \A k \in 1..Len(<<>>) : FALSE
  OBVIOUS
<1> QED BY <1>1, <1>2 DEF OrderInv, FileInOrder, LinesOfFile

LEMMA NextKeepsOrder ==
  ASSUME TypeInv, HeldInv, OrderInv, [Next]_vars
  PROVE  OrderInv'
<1>1. CASE UNCHANGED vars
  BY <1>1 DEF vars, streamVars, OrderInv, FileInOrder, LinesOfFile, CursorFor
<1> QED BY <1>1, BridgeKeepsOrder, CollectorKeepsOrder DEF Next

\* As long as the file is the same, events are inserted in the order of the stream and
\* never twice (pipeline.py, repository.py insert_event_with_cursor), although polls fail,
\* lines arrive in pieces and the process restarts.
THEOREM InOrderOnceHolds == Spec => []InOrderOnce
<1>1. TypeInv /\ HeldInv /\ OrderInv /\ [Next]_vars => OrderInv'
  BY NextKeepsOrder
<1>2. TypeInv /\ OrderInv => InOrderOnce
  <2>1. TypeInv => DOMAIN events = 1..Len(events)
    BY Places
  <2> QED BY <2>1 DEF OrderInv, InOrderOnce
<1> QED BY <1>1, <1>2, OrderAtStart, HeldIsInvariant, PTL DEF Spec

-----------------------------------------------------------------------------
(* Nothing else is skipped *)

\* Line n is whole in the file after cell i, delimited on both sides.
LineAt(n, i) == SubSeq(file, i + 1, i + Width + 1) = Cells(n) /\ (i = 0 \/ file[i] = NL)

\* It is one of the lines still to be handled.
Waiting(n, i) ==
  \E k \in 1..Len(lines) : lines[k].start = i /\ lines[k].data = [c \in 1..Width |-> n]

BeforeCursor ==
  \A n \in EventLines \ forgotten, i \in 0..Len(file) :
    i + Width + 1 <= cursor /\ LineAt(n, i) => Ingested(n)

BeforeOffset ==
  \A n \in EventLines \ forgotten, i \in 0..Len(file) :
    i + Width + 1 <= offset /\ LineAt(n, i) => Ingested(n) \/ Waiting(n, i)

\* The cursor and the offset lie where lines end; an event before the cursor is inserted,
\* one before the offset is inserted or still to be handled.
SkipInv ==
  rotations = 0 =>
    /\ cursor = 0 \/ file[cursor] = NL
    /\ BeforeCursor
    /\ pc # "down" => (offset = 0 \/ file[offset] = NL) /\ BeforeOffset

LEMMA LineAtIs ==
  ASSUME TypeInv, NEW n \in EventLines, NEW i \in Nat, i + Width + 1 <= Len(file)
  PROVE  LineAt(n, i) <=> /\ \A c \in 1..Width : file[i + c] = n
                          /\ file[i + Width + 1] = NL
                          /\ i = 0 \/ file[i] = NL
<1>1. file \in Seq(Cell) /\ Len(file) \in Nat /\ Width \in Nat \ {0}
  BY Places, ConstantsAreTyped
<1> DEFINE part == [c \in 1..(Width + 1) |-> file[i + c]]
<1>2. SubSeq(file, i + 1, i + Width + 1) = part
  <2>1. SubSeq(file, i + 1, i + Width + 1)
          = [c \in 1..((i + Width + 1) + 1 - (i + 1)) |-> file[(i + 1) + c - 1]]
    <3> DEFINE from == i + 1
               to == i + Width + 1
    <3>1. from \in Nat /\ to \in Nat
      BY <1>1
    <3> HIDE DEF from, to
    <3>2. SubSeq(file, from, to) = [c \in 1..(to + 1 - from) |-> file[from + c - 1]]
      BY <1>1, <3>1, Cut
    <3> QED BY <3>2 DEF from, to
  <2>2. (i + Width + 1) + 1 - (i + 1) = Width + 1 /\ \A c \in 1..(Width + 1) : (i + 1) + c - 1 = i + c
    BY <1>1
  <2> QED BY <2>1, <2>2
<1>3. part = Cells(n) <=> \A c \in 1..(Width + 1) : file[i + c] = IF c <= Width THEN n ELSE NL
  BY DEF Cells
<1>4. (\A c \in 1..(Width + 1) : file[i + c] = IF c <= Width THEN n ELSE NL)
        <=> (\A c \in 1..Width : file[i + c] = n) /\ file[i + Width + 1] = NL
  <2>1. /\ \A c \in 1..Width : c \in 1..(Width + 1) /\ c <= Width
        /\ \A c \in 1..(Width + 1) : c \notin 1..Width => c = Width + 1
        /\ Width + 1 \in 1..(Width + 1) /\ ~(Width + 1 <= Width)
        /\ i + (Width + 1) = i + Width + 1
    BY <1>1
  <2> QED BY <2>1
<1> QED BY <1>2, <1>3, <1>4 DEF LineAt

LEMMA BridgeKeepsSkip ==
  ASSUME TypeInv, TypeInv', HeldInv, SkipInv, BridgeStep
  PROVE  SkipInv'
<1>0. UNCHANGED <<events, cursor, lines, offset, pc, forgotten>>
  BY DEF BridgeStep, readerVars
<1>1. SUFFICES ASSUME rotations' = 0 PROVE SkipInv'
  BY DEF SkipInv
<1>2. /\ rotations = 0 /\ SameFile /\ (cursor = 0 \/ file[cursor] = NL) /\ BeforeCursor
      /\ pc # "down" => (offset = 0 \/ file[offset] = NL) /\ BeforeOffset
  BY <1>1, SameFileGrows DEF HeldInv, SkipInv
<1>3. CASE ~present /\ UNCHANGED <<file, next, torn>>
  <2>1. \A n, i : /\ LineAt(n, i)' <=> LineAt(n, i)
                  /\ Ingested(n)' <=> Ingested(n)
                  /\ Waiting(n, i)' <=> Waiting(n, i)
    BY <1>0, <1>3 DEF LineAt, Waiting, Ingested
  <2>2. BeforeCursor' /\ (pc # "down" => BeforeOffset')
    BY <1>0, <1>2, <1>3, <2>1 DEF BeforeCursor, BeforeOffset
  <2> QED BY <1>0, <1>2, <1>3, <2>2 DEF SkipInv
<1>4. CASE \E part \in Seq(Cell) : Writes(part)
  <2>1. /\ \A i \in 1..Len(file) : file'[i] = file[i]
        /\ Len(file) \in Nat /\ Len(file') \in Nat /\ Len(file) <= Len(file')
        /\ cursor \in Nat /\ cursor <= Len(file) /\ offset \in Nat /\ Width \in Nat \ {0}
    <3>1. PICK part \in Seq(Cell) : Writes(part)
      BY <1>4
    <3>2. /\ Len(file') = Len(file) + Len(part) /\ Len(part) \in Nat
          /\ \A i \in 1..Len(file) : file'[i] = file[i]
      BY <3>1 DEF Writes, Grown
    <3>3. Len(file) \in Nat /\ cursor \in Nat /\ cursor <= Len(file) /\ offset \in Nat
      BY <1>2, Places DEF SameFile
    <3> QED BY <3>2, <3>3, ConstantsAreTyped
  <2>2. pc # "down" => offset <= Len(file)
    <3>1. pc # "down" => offset + Len(partial) <= Len(file)
      BY <1>2 DEF SameFile
    <3> QED BY <2>1, <3>1, Places
  <2>3. ASSUME NEW n \in EventLines, NEW i \in Nat, i + Width + 1 <= Len(file)
        PROVE  i \in 0..Len(file) /\ (LineAt(n, i)' => LineAt(n, i))
    <3>1. /\ i \in 0..Len(file) /\ i + Width + 1 <= Len(file') /\ i + Width + 1 \in 1..Len(file)
          /\ \A c \in 1..Width : i + c \in 1..Len(file)
          /\ i # 0 => i \in 1..Len(file)
      BY <2>1, <2>3
    <3>2. (i + Width + 1 <= Len(file))'
      BY <3>1
    <3>3. LineAt(n, i)' => /\ \A c \in 1..Width : file'[i + c] = n
                           /\ file'[i + Width + 1] = NL
                           /\ i = 0 \/ file'[i] = NL
      <4>1. (/\ TypeInv /\ n \in EventLines /\ i \in Nat /\ i + Width + 1 <= Len(file)
             => (LineAt(n, i) => /\ \A c \in 1..Width : file[i + c] = n
                                 /\ file[i + Width + 1] = NL
                                 /\ i = 0 \/ file[i] = NL))'
        BY LineAtIs, PTL
      <4> QED BY <3>2, <4>1
    <3> QED BY <2>1, <2>3, <3>1, <3>3, LineAtIs
  <2>4. cursor = 0 \/ file'[cursor] = NL
    BY <1>2, <2>1
  <2>5. BeforeCursor'
    <3> SUFFICES ASSUME NEW n \in EventLines \ forgotten, NEW i \in 0..Len(file'),
                        i + Width + 1 <= cursor, LineAt(n, i)'
                 PROVE  Ingested(n)'
      BY <1>0 DEF BeforeCursor
    <3>1. i \in Nat /\ i + Width + 1 <= Len(file)
      BY <2>1
    <3>2. Ingested(n)
      BY <1>2, <2>3, <3>1 DEF BeforeCursor
    <3> QED BY <1>0, <3>2 DEF Ingested
  <2>6. ASSUME pc # "down"
        PROVE  (offset = 0 \/ file'[offset] = NL) /\ BeforeOffset'
    <3>1. offset = 0 \/ file'[offset] = NL
      BY <1>2, <2>1, <2>2, <2>6
    <3>2. BeforeOffset'
      <4> SUFFICES ASSUME NEW n \in EventLines \ forgotten, NEW i \in 0..Len(file'),
                          i + Width + 1 <= offset, LineAt(n, i)'
                   PROVE  Ingested(n)' \/ Waiting(n, i)'
        BY <1>0 DEF BeforeOffset
      <4>1. i \in Nat /\ i + Width + 1 <= Len(file)
        BY <2>1, <2>2, <2>6
      <4>2. Ingested(n) \/ Waiting(n, i)
        BY <1>2, <2>3, <2>6, <4>1 DEF BeforeOffset
      <4> QED BY <1>0, <4>2 DEF Ingested, Waiting
    <3> QED BY <3>1, <3>2
  <2> QED BY <1>0, <2>4, <2>5, <2>6 DEF SkipInv
<1> QED BY <1>1, <1>3, <1>4, SameFileGrows

\* A line that ends in the buffer of a poll is published, on its own or with others.
LEMMA ReadLinesAreCovered ==
  ASSUME TypeInv, SameFile, pc # "down", offset = 0 \/ file[offset] = NL,
         NEW n \in EventLines, NEW i \in Nat, LineAt(n, i),
         offset < i + Width + 1, i + Width + 1 <= offset + LastNewline(Buffer)
  PROVE  LET ls == Frames(Buffer) IN
         \/ n \in LinesIn(Merged(Range(ls)))
         \/ \E k \in 1..Len(ls) : ls[k].start = i /\ ls[k].data = [c \in 1..Width |-> n]
<1> DEFINE ls == Frames(Buffer)
           e == (i + Width + 1) - offset
           b == i - offset
<1>0. /\ Width \in Nat \ {0} /\ n \in Lines /\ n # NL /\ offset \in Nat /\ Len(file) \in Nat
      /\ Buffer \in Seq(Cell) /\ Len(Buffer) \in Nat
      /\ LastNewline(Buffer) \in 0..Len(Buffer)
      /\ Len(Buffer) = Len(file) - offset
      /\ \A j \in 1..Len(Buffer) : Buffer[j] = file[offset + j]
  <2>1. Width \in Nat \ {0} /\ n \in Lines /\ n # NL
    BY ConstantsAreTyped DEF Lines, NL
  <2>2. offset \in Nat /\ Len(file) \in Nat
    BY Places
  <2>3. /\ Buffer \in Seq(Cell) /\ Len(Buffer) \in Nat /\ LastNewline(Buffer) \in 0..Len(Buffer)
    BY ReadIsTyped
  <2>4. /\ Len(Buffer) = Len(file) - offset
        /\ \A j \in 1..Len(Buffer) : Buffer[j] = file[offset + j]
    BY BufferIsFile
  <2> QED BY <2>1, <2>2, <2>3, <2>4
<1>1. /\ \A c \in 1..Width : file[i + c] = n
      /\ file[i + Width + 1] = NL /\ (i = 0 \/ file[i] = NL)
  <2>1. i + Width + 1 <= Len(file)
    <3> HIDE DEF Buffer
    <3> QED BY <1>0
  <2> QED BY <2>1, LineAtIs
<1> HIDE DEF Buffer, ls
<1>2. offset <= i
  <2> SUFFICES ASSUME ~(offset <= i) PROVE FALSE
    OBVIOUS
  <2>1. offset # 0 /\ offset - i \in 1..Width /\ i + (offset - i) = offset
    BY <1>0
  <2> QED BY <1>0, <1>1, <2>1
<1>3. /\ b \in Nat /\ e \in Nat \ {0} /\ e \in 1..Len(Buffer) /\ e = b + Width + 1 /\ b \in 0..(e - 1)
      /\ offset + b = i /\ offset + e = i + Width + 1 /\ e - 1 - b = Width
      /\ b # 0 => b \in 1..Len(Buffer) /\ i # 0
      /\ \A c \in 1..Width : b + c \in 1..Len(Buffer) /\ offset + (b + c) = i + c
  BY <1>0, <1>2
<1> HIDE DEF e, b
<1>4. /\ Buffer[e] = NL /\ (b # 0 => Buffer[b] = NL)
      /\ \A c \in 1..Width : Buffer[b + c] = n
  <2>1. \A j \in 1..Len(Buffer) : Buffer[j] = file[offset + j]
    BY <1>0
  <2>2. Buffer[e] = NL
    BY <1>1, <1>3, <2>1
  <2>3. b # 0 => Buffer[b] = NL
    BY <1>1, <1>3, <2>1
  <2>4. ASSUME NEW c \in 1..Width PROVE Buffer[b + c] = n
    <3>1. b + c \in 1..Len(Buffer) /\ offset + (b + c) = i + c
      BY <1>3
    <3>2. file[i + c] = n
      BY <1>1
    <3> QED BY <2>1, <3>1, <3>2
  <2> QED BY <2>2, <2>3, <2>4
<1>5. e \in Newlines(Buffer) /\ (b # 0 => b \in Newlines(Buffer))
  <2>1. DOMAIN Buffer = 1..Len(Buffer)
    BY <1>0
  <2> QED BY <1>3, <1>4, <2>1 DEF Newlines
<1>6. NewlineBefore(Buffer, e) = b
  <2> DEFINE m == NewlineBefore(Buffer, e)
  <2>1. /\ m \in Nat /\ m < e /\ (m = 0 \/ m \in Newlines(Buffer))
        /\ \A j \in Newlines(Buffer) : j < e => j <= m
    BY <1>0, <1>3, NewlineBeforeIs
  <2> HIDE DEF m
  <2>2. b <= m
    <3>1. b < e /\ 0 <= m
      BY <1>0, <1>3, <2>1
    <3>2. CASE b = 0
      BY <3>1, <3>2
    <3>3. CASE b # 0
      BY <1>5, <2>1, <3>1, <3>3
    <3> QED BY <3>2, <3>3
  <2>3. ~(b < m)
    <3> SUFFICES ASSUME b < m PROVE FALSE
      OBVIOUS
    <3>1. m - b \in 1..Width /\ b + (m - b) = m /\ m # 0
      <4>1. b \in Nat /\ m \in Nat /\ Width \in Nat /\ m < b + Width + 1
        BY <1>0, <1>3, <2>1
      <4> QED BY <4>1
    <3>2. Buffer[m] = NL
      BY <2>1, <3>1 DEF Newlines
    <3> QED BY <1>0, <1>4, <3>1, <3>2
  <2>4. m = b
    BY <1>3, <2>1, <2>2, <2>3
  <2> QED BY <2>4 DEF m
<1>7. Covered(Buffer, e, ls) /\ ls \in Seq(RawLines)
  BY <1>0, <1>5, FramesFit DEF ls
<1>8. PICK k \in 1..Len(ls) :
        \/ ls[k] = RawLine(Buffer, b, e)
        \/ /\ NL \in Range(ls[k].data)
           /\ \A j \in 1..(e - 1) : b < j => Buffer[j] \in Range(ls[k].data)
  BY <1>6, <1>7 DEF Covered
<1>9. CASE ls[k] = RawLine(Buffer, b, e)
  <2>1. /\ RawLine(Buffer, b, e).start = offset + b
        /\ Len(RawLine(Buffer, b, e).data) = e - 1 - b
        /\ RawLine(Buffer, b, e).data \in Seq(Cell)
        /\ \A j \in 1..(e - 1 - b) : RawLine(Buffer, b, e).data[j] = Buffer[b + j]
    <3>1. Buffer \in Seq(Cell) /\ offset \in Nat /\ e \in 1..Len(Buffer) /\ b \in 0..(e - 1)
      BY <1>0, <1>3
    <3> QED BY ONLY <3>1, RawLineIs
  <2>2. \A s \in Seq(Cell) : s = [j \in 1..Len(s) |-> s[j]]
    OBVIOUS
  <2>3. RawLine(Buffer, b, e).data = [j \in 1..Width |-> n]
    <3> DEFINE s == RawLine(Buffer, b, e).data
    <3>1. s \in Seq(Cell) /\ Len(s) = Width /\ \A j \in 1..Width : s[j] = n
      BY <1>3, <1>4, <2>1
    <3> HIDE DEF s
    <3>2. s = [j \in 1..Width |-> n]
      BY <2>2, <3>1
    <3> QED BY <3>2 DEF s
  <2>4. ls[k].start = i
    BY <1>3, <1>9, <2>1
  <2> QED BY <1>9, <2>3, <2>4 DEF ls
<1>10. CASE /\ NL \in Range(ls[k].data)
            /\ \A j \in 1..(e - 1) : b < j => Buffer[j] \in Range(ls[k].data)
  <2>1. n \in Range(ls[k].data)
    <3>1. b + 1 \in 1..(e - 1) /\ b < b + 1 /\ 1 \in 1..Width
      BY <1>0, <1>3
    <3> QED BY <1>4, <1>10, <3>1
  <2>2. ls[k] \in Range(ls)
    <3>1. DOMAIN ls = 1..Len(ls)
      BY <1>7
    <3> QED BY <3>1 DEF Range
  <2> QED BY <1>0, <1>10, <2>1, <2>2 DEF LinesIn, Merged, ls
<1> QED BY <1>8, <1>9, <1>10

LEMMA ReadKeepsSkip ==
  ASSUME TypeInv, HeldInv, SkipInv, PollRead
  PROVE  SkipInv'
<1>0. /\ UNCHANGED <<file, rotations, events, cursor>> /\ pc # "down" /\ lines = <<>>
      /\ pc \in {"read", "rotated read"}
  BY DEF PollRead, streamVars, HeldInv
<1> SUFFICES ASSUME rotations = 0
             PROVE  SkipInv'
  BY <1>0 DEF SkipInv
<1>1. /\ SameFile /\ (cursor = 0 \/ file[cursor] = NL) /\ BeforeCursor
      /\ (offset = 0 \/ file[offset] = NL) /\ BeforeOffset
  BY <1>0 DEF HeldInv, SkipInv
<1>2. CASE ~present
  <2>1. UNCHANGED <<offset, lines, forgotten>>
    BY <1>2 DEF PollRead, readerVars
  <2>2. BeforeCursor' /\ BeforeOffset'
    <3>1. \A n, i : /\ LineAt(n, i)' <=> LineAt(n, i)
                    /\ Ingested(n)' <=> Ingested(n)
                    /\ Waiting(n, i)' <=> Waiting(n, i)
      BY <1>0, <2>1 DEF LineAt, Waiting, Ingested
    <3> QED BY <1>0, <1>1, <2>1, <3>1 DEF BeforeCursor, BeforeOffset
  <2> QED BY <1>0, <1>1, <2>1, <2>2 DEF SkipInv
<1>3. CASE present
  <2> DEFINE last == LastNewline(Buffer)
             ls == Frames(Buffer)
  <2>1. /\ offset' = offset + last /\ lines' = ls
        /\ forgotten' = forgotten \cup LinesIn(Merged(Range(ls)))
    BY <1>3 DEF PollRead, Read
  <2>2. /\ offset \in Nat /\ last \in Nat /\ last \in 0..Len(Buffer) /\ Width \in Nat \ {0}
        /\ (last = 0 \/ last \in Newlines(Buffer)) /\ Len(Buffer) \in Nat
        /\ \A j \in 1..Len(Buffer) : Buffer[j] = file[offset + j]
        /\ \A j \in Newlines(Buffer) : Buffer[j] = NL
    BY <1>0, <1>1, ReadIsTyped, LastNewlineIs, BufferIsFile, ConstantsAreTyped DEF Newlines
  <2>3. offset' = 0 \/ file[offset'] = NL
    <3> HIDE DEF Buffer, last
    <3>1. CASE last = 0
      BY <1>1, <2>1, <2>2, <3>1
    <3>2. CASE last # 0
      <4>1. last \in 1..Len(Buffer) /\ Buffer[last] = NL
        BY <2>2, <3>2
      <4> QED BY <2>1, <2>2, <4>1
    <3> QED BY <3>1, <3>2
  <2>4. BeforeCursor'
    BY <1>0, <1>1, <2>1 DEF BeforeCursor, LineAt, Ingested
  <2>5. BeforeOffset'
    <3> SUFFICES ASSUME NEW n \in EventLines \ forgotten', NEW i \in 0..Len(file),
                        i + Width + 1 <= offset', LineAt(n, i)
                 PROVE  Ingested(n)' \/ Waiting(n, i)'
      BY <1>0 DEF BeforeOffset, LineAt
    <3>1. CASE i + Width + 1 <= offset
      <4>1. Ingested(n) \/ Waiting(n, i)
        BY <1>1, <2>1, <3>1 DEF BeforeOffset
      <4>2. ~Waiting(n, i)
        <5>1. \A k \in 1..Len(<<>>) : FALSE
          OBVIOUS
        <5> QED BY <1>0, <5>1 DEF Waiting
      <4> QED BY <1>0, <4>1, <4>2 DEF Ingested
    <3>2. CASE ~(i + Width + 1 <= offset)
      <4>1. offset < i + Width + 1 /\ i \in Nat
        <5>1. Len(file) \in Nat
          BY Places
        <5> QED BY <2>2, <3>2, <5>1
      <4>2. i + Width + 1 <= offset + LastNewline(Buffer)
        BY <2>1
      <4>3. \/ n \in LinesIn(Merged(Range(ls)))
            \/ \E k \in 1..Len(ls) : ls[k].start = i /\ ls[k].data = [c \in 1..Width |-> n]
        BY <1>0, <1>1, <4>1, <4>2, ReadLinesAreCovered
      <4> HIDE DEF ls
      <4> QED BY <2>1, <4>3 DEF Waiting
    <3> QED BY <3>1, <3>2
  <2> QED BY <1>0, <1>1, <2>3, <2>4, <2>5 DEF SkipInv
<1> QED BY <1>2, <1>3

\* A line that is handled is inserted when it carries an event; the others wait on.
LEMMA HandleKeepsSkip ==
  ASSUME TypeInv, HeldInv, OrderInv, SkipInv, rotations = 0, pc = "lines", lines # <<>>,
         Persist(Head(lines)), lines' = Tail(lines),
         UNCHANGED <<file, rotations, offset, forgotten, pc>>
  PROVE  SkipInv'
<1> DEFINE raw == lines[1]
<1>1. /\ SameFile /\ Ordered(lines) /\ LinesOfFile /\ BeforeCursor /\ BeforeOffset
      /\ (offset = 0 \/ file[offset] = NL)
  BY DEF HeldInv, OrderInv, SkipInv
<1>2. /\ Len(lines) \in Nat \ {0} /\ Len(lines') = Len(lines) - 1 /\ 1 \in 1..Len(lines)
      /\ \A i \in 1..(Len(lines) - 1) : lines'[i] = lines[i + 1]
      /\ Head(lines) = raw /\ CursorFor(raw) \in Nat
  <2>1. /\ Len(lines) \in Nat \ {0} /\ Len(lines') = Len(lines) - 1
        /\ \A i \in 1..(Len(lines) - 1) : lines'[i] = lines[i + 1]
        /\ Head(lines) = raw /\ CursorFor(raw) \in Nat
    BY FirstLine
  <2> QED BY <2>1
<1>3. /\ cursor' = CursorFor(raw)
      /\ events' = IF CarriesEvent(raw) THEN Append(events, raw.data[1]) ELSE events
  BY <1>2 DEF Persist
<1>4. CursorFor(raw) <= offset /\ offset \in Nat
  BY <1>1, <1>2, Places DEF SameFile, Within
<1>5. file[cursor'] = NL
  BY <1>1, <1>2, <1>3 DEF LinesOfFile
<1>6. \A n : Ingested(n) => Ingested(n)'
  <2>1. \A s \in Seq(EventLines), x \in EventLines :
          \A j \in DOMAIN s : j \in DOMAIN Append(s, x) /\ Append(s, x)[j] = s[j]
    OBVIOUS
  <2>2. events \in Seq(EventLines) /\ (CarriesEvent(raw) => raw.data[1] \in EventLines)
    BY Places, EventIsItsLine
  <2>3. \A j \in DOMAIN events : j \in DOMAIN events' /\ events'[j] = events[j]
    <3> HIDE DEF raw
    <3> QED BY <1>3, <2>1, <2>2
  <2> QED BY <2>3 DEF Ingested
<1>7. ASSUME NEW n \in EventLines, raw.data = [c \in 1..Width |-> n]
      PROVE  Ingested(n)'
  <2>1. CarriesEvent(raw) /\ raw.data[1] = n
    <3>1. 1 \in 1..Width
      BY ConstantsAreTyped
    <3> QED BY <1>7, <3>1 DEF CarriesEvent
  <2>2. events' = Append(events, n) /\ events \in Seq(EventLines)
    BY <1>3, <2>1, Places
  <2>3. \A s \in Seq(EventLines), x \in EventLines :
          Len(s) + 1 \in DOMAIN Append(s, x) /\ Append(s, x)[Len(s) + 1] = x
    OBVIOUS
  <2> QED BY <2>2, <2>3 DEF Ingested
<1>8. ASSUME NEW n \in EventLines \ forgotten, NEW i \in 0..Len(file),
             i + Width + 1 <= offset, LineAt(n, i)
      PROVE  \/ Ingested(n)'
             \/ \E k \in 2..Len(lines) :
                  lines[k].start = i /\ lines[k].data = [c \in 1..Width |-> n]
  <2>1. Ingested(n) \/ Waiting(n, i)
    BY <1>1, <1>8 DEF BeforeOffset
  <2>2. \A k \in 1..Len(lines) : k = 1 \/ k \in 2..Len(lines)
    BY <1>2
  <2> QED BY <1>6, <1>7, <2>1, <2>2 DEF Waiting
<1> HIDE DEF raw
<1>9. BeforeCursor'
  <2> SUFFICES ASSUME NEW n \in EventLines \ forgotten, NEW i \in 0..Len(file),
                      i + Width + 1 <= cursor', LineAt(n, i)
               PROVE  Ingested(n)'
    BY DEF BeforeCursor, LineAt
  <2>0. Width \in Nat \ {0} /\ Len(file) \in Nat /\ i \in Nat /\ cursor' \in Nat
    BY <1>2, <1>3, Places, ConstantsAreTyped
  <2>1. i + Width + 1 <= offset
    BY <1>3, <1>4, <2>0
  <2>2. ASSUME NEW k \in 2..Len(lines), lines[k].start = i
        PROVE  FALSE
    <3>1. k \in 1..Len(lines) /\ 1 < k
      BY <1>2
    <3>2. cursor' <= i
      BY <1>1, <1>2, <1>3, <2>2, <3>1 DEF Ordered, raw
    <3> QED BY <2>0, <3>2
  <2> QED BY <1>8, <2>1, <2>2
<1>10. BeforeOffset'
  <2> SUFFICES ASSUME NEW n \in EventLines \ forgotten, NEW i \in 0..Len(file),
                      i + Width + 1 <= offset, LineAt(n, i)
               PROVE  Ingested(n)' \/ Waiting(n, i)'
    BY DEF BeforeOffset, LineAt
  <2>1. CASE Ingested(n)'
    BY <2>1
  <2>2. CASE \E k \in 2..Len(lines) :
               lines[k].start = i /\ lines[k].data = [c \in 1..Width |-> n]
    <3>1. PICK k \in 2..Len(lines) :
            lines[k].start = i /\ lines[k].data = [c \in 1..Width |-> n]
      BY <2>2
    <3>2. k - 1 \in 1..(Len(lines) - 1) /\ (k - 1) + 1 = k /\ k - 1 \in 1..Len(lines')
      BY <1>2
    <3>3. lines'[k - 1] = lines[k]
      BY <1>2, <3>2
    <3> QED BY <3>1, <3>2, <3>3 DEF Waiting
  <2> QED BY <1>8, <2>1, <2>2
<1> QED BY <1>1, <1>5, <1>9, <1>10 DEF SkipInv

LEMMA CollectorKeepsSkip ==
  ASSUME TypeInv, HeldInv, OrderInv, SkipInv, CollectorStep \/ Crash
  PROVE  SkipInv'
<1>0. UNCHANGED <<file, rotations>>
  BY DEF streamVars, CollectorStep, Start, PollStat, PollRead, ResetCursor, HandleLine, EndPoll,
         Crash
<1>1. ASSUME UNCHANGED <<events, cursor>>, forgotten \subseteq forgotten'
      PROVE  /\ rotations = 0 => (cursor = 0 \/ file[cursor] = NL) /\ BeforeCursor'
             /\ \A n, i : LineAt(n, i)' <=> LineAt(n, i)
             /\ \A n : Ingested(n)' <=> Ingested(n)
  BY <1>0, <1>1 DEF SkipInv, BeforeCursor, LineAt, Ingested
<1>2. ASSUME UNCHANGED <<events, cursor>>, forgotten \subseteq forgotten', pc' = "down"
      PROVE  SkipInv'
  BY <1>0, <1>1, <1>2 DEF SkipInv
<1>3. ASSUME UNCHANGED <<events, cursor, lines, offset, forgotten>>, pc # "down"
      PROVE  SkipInv'
  <2>1. \A n, i : Waiting(n, i)' <=> Waiting(n, i)
    BY <1>3 DEF Waiting
  <2>2. rotations = 0 => (offset = 0 \/ file[offset] = NL) /\ BeforeOffset'
    BY <1>0, <1>1, <1>3, <2>1 DEF SkipInv, BeforeOffset
  <2> QED BY <1>0, <1>1, <1>3, <2>2 DEF SkipInv
<1>4. \A n, i : Waiting(n, i) /\ n \in EventLines => n \in LinesIn(Range(lines))
  <2> SUFFICES ASSUME NEW n \in EventLines, NEW i, Waiting(n, i)
               PROVE  n \in LinesIn(Range(lines))
    OBVIOUS
  <2>1. PICK k \in 1..Len(lines) : lines[k].data = [c \in 1..Width |-> n]
    BY DEF Waiting
  <2>2. 1 \in 1..Width /\ n \in Lines
    BY ConstantsAreTyped
  <2>3. n \in Range(lines[k].data)
    BY <2>1, <2>2 DEF Range
  <2>4. lines[k] \in Range(lines)
    <3>1. DOMAIN lines = 1..Len(lines)
      BY Places
    <3> QED BY <3>1 DEF Range
  <2> QED BY <2>2, <2>3, <2>4 DEF LinesIn
<1>5. CASE Fail /\ pc # "down"
  <2>1. /\ UNCHANGED <<events, cursor>> /\ forgotten' = forgotten \cup LinesIn(Range(lines))
        /\ lines' = <<>>
    BY <1>5 DEF Fail
  <2>2. CASE pc' = "down"
    BY <1>2, <2>1, <2>2
  <2>3. CASE pc' # "down"
    <3>1. UNCHANGED offset /\ pc # "down"
      BY <1>5, <2>3 DEF Fail, readerVars
    <3>2. rotations = 0 => BeforeOffset'
      BY <1>0, <1>1, <1>4, <2>1, <3>1 DEF SkipInv, BeforeOffset
    <3> QED BY <1>0, <1>1, <2>1, <3>1, <3>2 DEF SkipInv
  <2> QED BY <2>2, <2>3
<1>6. CASE Start
  <2>1. /\ UNCHANGED <<events, cursor, lines, forgotten>> /\ offset' = cursor
    BY <1>6 DEF Start, FreshReader, history
  <2>2. rotations = 0 => BeforeOffset'
    BY <1>0, <1>1, <2>1 DEF BeforeCursor, BeforeOffset
  <2> QED BY <1>0, <1>1, <2>1, <2>2 DEF SkipInv
<1>7. CASE PollStat
  <2>1. UNCHANGED <<events, cursor, lines, forgotten>> /\ pc = "idle"
    BY <1>7 DEF PollStat, history
  <2>2. CASE rotations = 0
    <3>1. present => ~Rotated
      BY <2>1, <2>2, SameFileIsNotRotated DEF HeldInv
    <3>2. UNCHANGED offset
      BY <1>7, <3>1 DEF PollStat, Stat
    <3> QED BY <1>3, <2>1, <3>2
  <2>3. CASE rotations # 0
    BY <1>0, <2>3 DEF SkipInv
  <2> QED BY <2>2, <2>3
<1>8. CASE PollRead
  BY <1>8, ReadKeepsSkip
<1>9. CASE ResetCursor /\ ~Fail
  <2>1. rotations # 0
    BY <1>9 DEF ResetCursor, HeldInv, SameFile
  <2> QED BY <1>0, <2>1 DEF SkipInv
<1>10. CASE HandleLine /\ ~Fail
  <2>1. /\ pc = "lines" /\ lines # <<>> /\ Persist(Head(lines)) /\ lines' = Tail(lines)
        /\ UNCHANGED <<offset, forgotten, pc>>
    BY <1>10 DEF HandleLine, readerVars
  <2>2. rotations = 0 => SkipInv'
    BY <1>0, <2>1, HandleKeepsSkip
  <2> QED BY <1>0, <2>2 DEF SkipInv
<1>11. CASE EndPoll
  BY <1>3, <1>11 DEF EndPoll, readerVars, history
<1>12. CASE Crash
  BY <1>2, <1>12 DEF Crash, history
<1>13. ResetCursor \/ HandleLine => pc # "down"
  BY DEF ResetCursor, HandleLine
<1> QED BY <1>5, <1>6, <1>7, <1>8, <1>9, <1>10, <1>11, <1>12, <1>13 DEF CollectorStep

LEMMA SkipAtStart == Init => SkipInv
<1> SUFFICES ASSUME Init PROVE SkipInv
  OBVIOUS
<1>1. cursor = 0 /\ pc = "down" /\ file = <<>>
  BY DEF Init, StreamInit
<1>2. BeforeCursor
  <2>1. \A i \in 0..Len(<<>>) : ~(i + Width + 1 <= 0)
    BY ConstantsAreTyped
  <2> QED BY <1>1, <2>1 DEF BeforeCursor
<1> QED BY <1>1, <1>2 DEF SkipInv

LEMMA SkipImpliesNothingElseSkipped ==
  ASSUME TypeInv, HeldInv, SkipInv
  PROVE  NothingElseSkipped
<1> SUFFICES ASSUME rotations = 0, NEW n \in EventLines \ forgotten, ReadPast(n)
             PROVE  Ingested(n)
  BY DEF NothingElseSkipped
<1>1. PICK i \in 0..(cursor - Width - 1) :
        SubSeq(file, i + 1, i + Width + 1) = Cells(n) /\ (i = 0 \/ file[i] = NL)
  BY DEF ReadPast, WholeBefore
<1>2. i \in 0..Len(file) /\ i + Width + 1 <= cursor
  <2>1. cursor \in Nat /\ cursor <= Len(file) /\ Len(file) \in Nat /\ Width \in Nat
    BY Places, ConstantsAreTyped DEF ReadPast
  <2> QED BY <2>1
<1> QED BY <1>1, <1>2 DEF SkipInv, BeforeCursor, LineAt

LEMMA SkipIsInvariant == Spec => [](TypeInv /\ HeldInv /\ SkipInv)
<1>1. TypeInv /\ HeldInv /\ OrderInv /\ [Next]_vars => OrderInv'
  BY NextKeepsOrder
<1>2. TypeInv /\ TypeInv' /\ HeldInv /\ OrderInv /\ SkipInv /\ [Next]_vars => SkipInv'
  <2> SUFFICES ASSUME TypeInv, TypeInv', HeldInv, OrderInv, SkipInv, [Next]_vars PROVE SkipInv'
    OBVIOUS
  <2>1. CASE UNCHANGED vars
    <3>1. UNCHANGED <<file, rotations, offset, cursor, events, lines, pc, forgotten>>
      BY <2>1 DEF vars, streamVars, readerVars, history
    <3>2. \A n, i : /\ LineAt(n, i)' <=> LineAt(n, i)
                    /\ Ingested(n)' <=> Ingested(n)
                    /\ Waiting(n, i)' <=> Waiting(n, i)
      BY <3>1 DEF LineAt, Waiting, Ingested
    <3>3. (BeforeCursor => BeforeCursor') /\ (BeforeOffset => BeforeOffset')
      BY <3>1, <3>2 DEF BeforeCursor, BeforeOffset
    <3> QED BY <3>1, <3>3 DEF SkipInv
  <2> QED BY <2>1, BridgeKeepsSkip, CollectorKeepsSkip DEF Next
<1> QED BY <1>1, <1>2, OrderAtStart, SkipAtStart, HeldIsInvariant, PTL DEF Spec

\* As long as the file is the same, the cursor moves past no other event than those framed
\* with another line as one (reader.py, rsplit) and those a failed transaction dropped
\* (runner.py): a restart at the cursor misses nothing else.
THEOREM NothingElseSkippedHolds == Spec => []NothingElseSkipped
<1>1. TypeInv /\ HeldInv /\ SkipInv => NothingElseSkipped
  BY SkipImpliesNothingElseSkipped
<1> QED BY <1>1, SkipIsInvariant, PTL

-----------------------------------------------------------------------------
(* Every event that is not inserted is still to come *)

\* The line after cell i is one of those to be handled, or the next poll reads it; when
\* the process is down, the next start does.
StillToCome(n, i) ==
  IF pc = "down" THEN cursor <= i ELSE offset <= i \/ Waiting(n, i)

\* What StreamIsIngested needs of every single step: an event line that is whole in the
\* file is inserted, still to come, or one of those the findings are about.
NoneOutOfReach ==
  rotations = 0 =>
    \A n \in EventLines \ forgotten, i \in 0..(Len(file) - Width - 1) :
      LineAt(n, i) => Ingested(n) \/ StillToCome(n, i)

\* Where lines end there is none that has begun and is not over.
LEMMA NotInsideALine ==
  ASSUME TypeInv, NEW n \in EventLines, NEW i \in 0..(Len(file) - Width - 1), LineAt(n, i),
         NEW p \in Nat, p = 0 \/ file[p] = NL
  PROVE  p <= i \/ i + Width + 1 <= p
<1>1. n # NL
  BY IngestionAssumption DEF Lines, NL
<1>2. i \in Nat /\ i + Width + 1 <= Len(file) /\ Width \in Nat \ {0} /\ Len(file) \in Nat
  BY Places, ConstantsAreTyped
<1>3. \A c \in 1..Width : file[i + c] = n
  BY <1>2, LineAtIs
<1> SUFFICES ASSUME i < p, p < i + Width + 1 PROVE FALSE
  BY <1>2
<1>4. p - i \in 1..Width /\ i + (p - i) = p /\ p # 0
  BY <1>2
<1>5. file[i + (p - i)] = n
  BY <1>3, <1>4
<1> QED BY <1>1, <1>4, <1>5

\* As long as the file is the same, no step of the collector, no failure and no crash makes
\* an event unreachable that is whole in the file and not inserted: it is in memory, or at
\* or after the place where the reader or the restarted process goes on (poll(), start()).
THEOREM NoneIsOutOfReach == Spec => []NoneOutOfReach
<1>1. TypeInv /\ SkipInv => NoneOutOfReach
  <2> SUFFICES ASSUME TypeInv, SkipInv, rotations = 0, NEW n \in EventLines \ forgotten,
                      NEW i \in 0..(Len(file) - Width - 1), LineAt(n, i), ~Ingested(n)
               PROVE  StillToCome(n, i)
    BY DEF NoneOutOfReach
  <2>1. cursor \in Nat /\ offset \in Nat /\ Len(file) \in Nat /\ Width \in Nat /\ n \in EventLines
    BY Places, ConstantsAreTyped
  <2>2. i \in Nat /\ i \in 0..Len(file) /\ i + Width + 1 \in Nat
    BY <2>1
  <2>3. \A p \in Nat : p = 0 \/ file[p] = NL => p <= i \/ i + Width + 1 <= p
    BY <2>1, NotInsideALine
  <2>4. CASE pc = "down"
    <3>1. cursor = 0 \/ file[cursor] = NL
      BY DEF SkipInv
    <3>2. cursor <= i \/ i + Width + 1 <= cursor
      BY <2>1, <2>3, <3>1
    <3>3. ~(i + Width + 1 <= cursor)
      BY <2>2 DEF SkipInv, BeforeCursor
    <3> QED BY <2>4, <3>2, <3>3 DEF StillToCome
  <2>5. CASE pc # "down"
    <3>1. offset = 0 \/ file[offset] = NL
      BY <2>5 DEF SkipInv
    <3>2. offset <= i \/ i + Width + 1 <= offset
      BY <2>1, <2>3, <3>1
    <3>3. i + Width + 1 <= offset => Waiting(n, i)
      BY <2>2, <2>5 DEF SkipInv, BeforeOffset
    <3> QED BY <2>5, <3>2, <3>3 DEF StillToCome
  <2> QED BY <2>4, <2>5
<1> QED BY <1>1, SkipIsInvariant, PTL

-----------------------------------------------------------------------------
(* When nothing at all is skipped *)

\* Every flush ends with a line and every transaction commits: the file ends with a
\* line, the reader holds none back, and none was framed with another.
WholeLines ==
  /\ torn = 0 /\ partial = <<>> /\ forgotten = {}
  /\ file = <<>> \/ file[Len(file)] = NL

\* Such a file leaves a buffer that is split at each of its newlines, the last of them
\* at its end.
LEMMA WholeLinesAreFramed ==
  ASSUME TypeInv, WholeLines
  PROVE  LastNewline(Buffer) = Len(Buffer) /\ Merged(Range(Frames(Buffer))) = {}
<1> DEFINE buffer == Buffer
<1>1. buffer \in Seq(Cell) /\ Len(buffer) \in Nat /\ DOMAIN buffer = 1..Len(buffer)
  <2>1. Buffer \in Seq(Cell)
    BY BufferIsTyped DEF TypeInv
  <2> HIDE DEF Buffer
  <2> QED BY <2>1
<1>2. Len(buffer) = 0 \/ (Len(buffer) # 0 /\ buffer[Len(buffer)] = NL)
  <2> DEFINE rest == SubSeq(file, offset + 1, Len(file))
             new == Len(file) + 1 - (offset + 1)
  <2>1. file \in Seq(Cell) /\ Len(file) \in Nat /\ offset \in Nat /\ offset + 1 \in Nat
    BY Places
  <2>2. buffer = rest
    <3>1. Len(partial) = 0 /\ offset + Len(partial) + 1 = offset + 1
      BY <2>1 DEF WholeLines
    <3>2. rest \in Seq(Cell)
      BY <2>1, PartOf
    <3> HIDE DEF rest
    <3>3. <<>> \o rest = rest
      BY <3>2
    <3> QED BY <3>1, <3>3 DEF WholeLines, Buffer, rest
  <2>3. /\ offset + 1 > Len(file) => rest = <<>>
        /\ offset + 1 <= Len(file) + 1 => Len(rest) = new
        /\ \A i \in 1..new : rest[i] = file[(offset + 1) + i - 1]
    BY <2>1, PartOf
  <2> HIDE DEF buffer, rest
  <2>4. CASE offset + 1 > Len(file)
    BY <2>2, <2>3, <2>4
  <2>5. CASE offset + 1 <= Len(file)
    <3>1. new \in 1..new /\ (offset + 1) + new - 1 = Len(file) /\ offset + 1 <= Len(file) + 1
      BY <2>1, <2>5
    <3>2. rest[new] = file[Len(file)] /\ Len(rest) = new
      BY <2>3, <3>1
    <3>3. file # <<>>
      BY <2>1, <2>5
    <3>4. file[Len(file)] = NL
      BY <3>3 DEF WholeLines
    <3>5. new # 0
      BY <3>1
    <3> QED BY <2>2, <3>2, <3>4, <3>5
  <2> QED BY <2>1, <2>4, <2>5
<1> HIDE DEF buffer
<1>3. CASE Len(buffer) = 0
  <2>1. Newlines(buffer) = {}
    BY <1>1, <1>3 DEF Newlines
  <2>2. LastNewline(buffer) = 0
    BY <1>1, <2>1, LastNewlineIs
  <2>3. Frames(buffer) = <<>>
    BY <2>1 DEF Frames
  <2>4. Range(<<>>) = {}
    BY DEF Range
  <2> QED BY <1>3, <2>2, <2>3, <2>4 DEF Merged, buffer
<1>4. CASE Len(buffer) # 0 /\ buffer[Len(buffer)] = NL
  <2> DEFINE ls == Frames(buffer)
  <2>1. Len(buffer) \in Newlines(buffer)
    BY <1>1, <1>4 DEF Newlines
  <2>2. LastNewline(buffer) = Len(buffer)
    <3>1. LastNewline(buffer) \in 0..Len(buffer) /\ Len(buffer) <= LastNewline(buffer)
      BY <1>1, <2>1, LastNewlineIs
    <3> QED BY <1>1, <3>1
  <2>3. ls = EveryLine(buffer)
    BY <1>4, <2>1 DEF Frames
  <2>4. /\ ls \in Seq(RawLines)
        /\ \A k \in 1..Len(ls) : \E e \in Newlines(buffer) :
             ls[k] = RawLine(buffer, NewlineBefore(buffer, e), e)
    <3>1. offset \in Nat
      BY Places
    <3> HIDE DEF ls
    <3> QED BY <1>1, <2>1, <2>3, <3>1, EveryLineFits
  <2> HIDE DEF ls
  <2>5. ASSUME NEW k \in 1..Len(ls), NL \in Range(ls[k].data)
        PROVE  FALSE
    <3>1. PICK e \in Newlines(buffer) : ls[k] = RawLine(buffer, NewlineBefore(buffer, e), e)
      BY <2>4
    <3> DEFINE b == NewlineBefore(buffer, e)
               data == RawLine(buffer, b, e).data
    <3>2. e \in Nat \ {0} /\ e \in 1..Len(buffer) /\ b \in 0..(e - 1)
      <4>1. e \in Nat \ {0} /\ e \in 1..Len(buffer)
        BY <1>1, NewlinesOf
      <4>2. NewlineBefore(buffer, e) \in Nat /\ NewlineBefore(buffer, e) < e
        BY <1>1, <4>1, NewlineBeforeIs
      <4> QED BY <4>1, <4>2
    <3>3. \A i \in Newlines(buffer) : i < e => i <= b
      BY <1>1, <3>2, NewlineBeforeIs
    <3> HIDE DEF b
    <3>4. /\ data \in Seq(Cell) /\ Len(data) = e - 1 - b
          /\ \A i \in 1..(e - 1 - b) : data[i] = buffer[b + i]
      <4>1. offset \in Nat
        BY Places
      <4> QED BY <1>1, <3>2, <4>1, RawLineIs
    <3>5. ls[k].data = data
      BY <3>1 DEF b
    <3> HIDE DEF data
    <3>6. DOMAIN data = 1..(e - 1 - b)
      BY <3>4
    <3>7. PICK i \in 1..(e - 1 - b) : data[i] = NL
      BY <2>5, <3>5, <3>6 DEF Range
    <3>8. b + i \in 1..Len(buffer) /\ b + i < e /\ ~(b + i <= b)
      BY <1>1, <3>2
    <3>9. b + i \in Newlines(buffer)
      BY <1>1, <3>4, <3>7, <3>8 DEF Newlines
    <3> QED BY <3>3, <3>8, <3>9
  <2>6. Merged(Range(ls)) = {}
    <3>1. DOMAIN ls = 1..Len(ls)
      BY <2>4
    <3> QED BY <2>5, <3>1 DEF Merged, Range
  <2> QED BY <2>2, <2>6 DEF ls, buffer
<1> QED BY <1>2, <1>3, <1>4

LEMMA BridgeKeepsWholeLines ==
  ASSUME TypeInv, WholeLines, BridgeStep, TornFlushes = FALSE
  PROVE  WholeLines'
<1>1. UNCHANGED <<partial, forgotten>> /\ torn = 0
  BY DEF BridgeStep, readerVars, WholeLines
<1>2. torn' = 0 /\ (file' = <<>> \/ file'[Len(file')] = NL)
  <2>1. CASE FlushLine
    <3> DEFINE part == SubSeq(Cells(next), 0 + 1, Width + 1)
    <3>1. /\ file \in Seq(Cell) /\ next \in Lines /\ Width \in Nat \ {0} /\ 0 \in 0..Width
          /\ Width + 1 - 0 = Width + 1 /\ NL \in Cell /\ Lines \subseteq Cell
      <4>1. file \in Seq(Cell)
        BY Places
      <4>2. next \in 1..(MaxLines + 1) /\ next <= MaxLines
        BY <2>1 DEF FlushLine, TypeInv, TypeOK, StreamTypeOK
      <4> QED BY <4>1, <4>2, ConstantsAreTyped DEF Lines, Cell
    <3>2. /\ part \in Seq({next, NL}) /\ Len(part) = Width + 1
          /\ part[Width + 1] = NL
      <4>1. /\ part \in Seq({next, NL}) /\ Len(part) = Width + 1 - 0
            /\ \A i \in 1..(Width + 1 - 0) : part[i] = IF 0 + i <= Width THEN next ELSE NL
        BY <3>1, CellsOfRest
      <4>2. Width + 1 \in 1..(Width + 1 - 0) /\ ~(0 + (Width + 1) <= Width)
        BY <3>1
      <4> HIDE DEF part
      <4> QED BY <3>1, <4>1, <4>2
    <3>3. file' = file \o part /\ torn' = 0
      BY <1>1, <2>1 DEF FlushLine
    <3> HIDE DEF part
    <3>4. part \in Seq(Cell)
      BY <3>1, <3>2
    <3>5. Grown(part)
      BY <3>1, <3>3, <3>4, FileGrows
    <3>6. Len(file') = Len(file) + (Width + 1) /\ Width + 1 \in 1..Len(part)
      BY <3>1, <3>2, <3>5 DEF Grown
    <3>7. file'[Len(file')] = part[Width + 1]
      BY <3>5, <3>6 DEF Grown
    <3> QED BY <3>2, <3>3, <3>7
  <2>2. CASE FlushPart \/ BreakOff
    BY <2>2 DEF FlushPart, BreakOff, WholeLines
  <2>3. CASE Replace \/ Unlink \/ Recreate
    BY <2>3 DEF Replace, Unlink, Recreate, StartOver, WholeLines
  <2> QED BY <2>1, <2>2, <2>3 DEF BridgeStep
<1> QED BY <1>1, <1>2 DEF WholeLines

LEMMA CollectorKeepsWholeLines ==
  ASSUME TypeInv, WholeLines, CollectorStep \/ Crash, MaxFailures = 0
  PROVE  WholeLines'
<1>1. UNCHANGED <<torn, file>>
  <2>1. UNCHANGED streamVars
    BY DEF CollectorStep, Start, PollStat, PollRead, ResetCursor, HandleLine, EndPoll, Crash
  <2> QED BY <2>1 DEF streamVars
<1>2. ~Fail
  <2>1. failures \in Nat
    BY Places
  <2> QED BY <2>1 DEF Fail
<1>3. partial' = <<>> /\ forgotten' = {}
  <2>1. CASE Start \/ Crash
    BY <2>1 DEF Start, Crash, FreshReader, history, WholeLines
  <2>2. CASE PollStat
    <3>1. Stat /\ UNCHANGED history
      BY <2>2 DEF PollStat
    <3>2. partial' = <<>> \/ partial' = partial
      BY <3>1 DEF Stat
    <3> QED BY <3>1, <3>2 DEF history, WholeLines
  <2>3. CASE PollRead /\ present
    <3>1. /\ partial' = SubSeq(Buffer, LastNewline(Buffer) + 1, Len(Buffer))
          /\ forgotten' = forgotten \cup LinesIn(Merged(Range(Frames(Buffer))))
      <4>1. /\ Read /\ lines' = Frames(Buffer)
            /\ forgotten' = forgotten \cup LinesIn(Merged(Range(lines')))
        BY <2>3 DEF PollRead
      <4> QED BY <4>1 DEF Read
    <3>2. Merged(Range(Frames(Buffer))) = {} /\ LastNewline(Buffer) = Len(Buffer)
      BY WholeLinesAreFramed
    <3>3. LinesIn({}) = {}
      BY DEF LinesIn
    <3>4. /\ SubSeq(Buffer, LastNewline(Buffer) + 1, Len(Buffer)) \in Seq(Cell)
          /\ Len(SubSeq(Buffer, LastNewline(Buffer) + 1, Len(Buffer))) = Len(Buffer) - LastNewline(Buffer)
          /\ Len(Buffer) \in Nat
      BY ReadIsTyped
    <3> DEFINE rest == SubSeq(Buffer, LastNewline(Buffer) + 1, Len(Buffer))
    <3>5. rest \in Seq(Cell) /\ Len(rest) = 0
      <4> HIDE DEF Buffer, LastNewline
      <4> QED BY <3>2, <3>4
    <3>6. rest = <<>>
      <4> HIDE DEF rest
      <4> QED BY <3>5
    <3> QED BY <3>1, <3>2, <3>3, <3>6 DEF WholeLines
  <2>4. CASE PollRead /\ ~present
    BY <2>4 DEF PollRead, readerVars, WholeLines
  <2>5. CASE ResetCursor \/ HandleLine \/ EndPoll
    <3>1. UNCHANGED <<readerVars, forgotten>>
      BY <1>2, <2>5 DEF ResetCursor, HandleLine, EndPoll, history
    <3> QED BY <3>1 DEF readerVars, WholeLines
  <2> QED BY <2>1, <2>2, <2>3, <2>4, <2>5 DEF CollectorStep
<1> QED BY <1>1, <1>3 DEF WholeLines

\* Where every flush of the bridge ends with a line and every transaction commits, the
\* cursor moves past no event at all that was not inserted, through rotations, lines that
\* are lost before they are visible, and crashes: what insert_event_with_cursor()
\* says of it holds exactly there.  The run MergedLines shows what happens without the first
\* hypothesis; without the second the lines of a failed transaction are passed.
THEOREM NothingSkippedHolds ==
  ASSUME TornFlushes = FALSE, MaxFailures = 0
  PROVE  Spec => []NothingSkipped
<1>1. Init => WholeLines
  BY DEF Init, StreamInit, WholeLines
<1>2. TypeInv /\ WholeLines /\ [Next]_vars => WholeLines'
  <2> SUFFICES ASSUME TypeInv, WholeLines, [Next]_vars PROVE WholeLines'
    OBVIOUS
  <2>1. CASE UNCHANGED vars
    BY <2>1 DEF vars, streamVars, readerVars, history, WholeLines
  <2> QED BY <2>1, BridgeKeepsWholeLines, CollectorKeepsWholeLines DEF Next
<1>3. WholeLines /\ NothingElseSkipped => NothingSkipped
  BY DEF WholeLines, NothingElseSkipped, NothingSkipped
<1> QED BY <1>1, <1>2, <1>3, TypesAreInvariant, NothingElseSkippedHolds, PTL DEF Spec
=============================================================================
