--------------------------- MODULE CdImageProofs ----------------------------
(***************************************************************************)
(* Proofs about CdImage: the open streams are the image's own, the tables  *)
(* are the disc as it was mastered, and a read brings the sector's own     *)
(* frame, in full when the host does all it is asked; for any discs, any   *)
(* numbers of files and tracks, any sectors and lengths.                   *)
(*                                                                         *)
(* The recursive tables (CueOffsets, CueBases, ChdFirsts) are functions of *)
(* a number by smaller ones.  Recursion shows that they exist: there is no *)
(* least index that none of them reaches.                                  *)
(***************************************************************************)
EXTENDS CdImage, SequenceTheorems, WellFoundedInduction, TLAPS

-----------------------------------------------------------------------------
(* Numbers, and functions defined by recursion on them.                    *)

\* A set of naturals has a least element.
LEMMA Least ==
  ASSUME NEW S \in SUBSET Nat, S # {}
  PROVE  \E m \in S : \A j \in S : m <= j
<1>1. PICK m \in S : \A j \in S : ~(<<j, m>> \in OpToRel(<, Nat))
  BY NatLessThanWellFounded, WFMin
<1>2. m \in Nat /\ \A j \in S : j \in Nat
  OBVIOUS
<1>3. \A j \in S : ~(j < m)
  BY <1>1, <1>2 DEF OpToRel
<1>4. QED
  BY <1>2, <1>3

\* A set of numbers up to n has a greatest element, and Max is it.
LEMMA Greatest ==
  ASSUME NEW n \in Nat, NEW S \in SUBSET (1..n), S # {}
  PROVE  Max(S) \in S /\ \A j \in S : Max(S) >= j
<1> DEFINE T == {n - j : j \in S}
<1>1. T \in SUBSET Nat /\ T # {}
  <2>1. \A j \in S : n - j \in Nat
    OBVIOUS
  <2>2. QED
    BY <2>1
<1>2. PICK t \in T : \A j \in T : t <= j
  <2> HIDE DEF T
  <2>1. QED
    BY <1>1, Least
<1>3. n - t \in S /\ \A j \in S : n - t >= j
  BY <1>2
<1>4. QED
  BY <1>3 DEF Max

\* St gives a function its value in X at i from its values at smaller arguments.
FromSmaller(St, lo, hi, X) ==
  /\ X # {} /\ St \in [lo..hi -> [[lo..hi -> X] -> X]]
  /\ \A i \in lo..hi : \A f, g \in [lo..hi -> X] :
       (\A j \in lo..(i - 1) : f[j] = g[j]) => St[i][f] = St[i][g]

\* A function defined from its own values at smaller arguments exists.
LEMMA Recursion ==
  ASSUME NEW lo \in Nat, NEW hi \in Nat, NEW X, NEW St, FromSmaller(St, lo, hi, X)
  PROVE  \E f \in [lo..hi -> X] : \A i \in lo..hi : f[i] = St[i][f]
<1> USE DEF FromSmaller
<1> DEFINE Upto(k) == \E f \in [lo..hi -> X] : \A i \in lo..hi : i < k => f[i] = St[i][f]
           Bad == {k \in Nat : ~Upto(k)}
<1>1. SUFFICES Bad = {}
  <2>1. hi + 1 \in Nat /\ \A i \in lo..hi : i < hi + 1
    OBVIOUS
  <2>2. ASSUME Bad = {} PROVE Upto(hi + 1)
    BY <2>1, <2>2
  <2>3. QED
    BY <2>1, <2>2
<1>2. SUFFICES ASSUME Bad # {} PROVE FALSE
  OBVIOUS
<1>3. PICK k \in Bad : \A j \in Bad : k <= j
  <2>1. Bad \in SUBSET Nat
    OBVIOUS
  <2> HIDE DEF Bad
  <2>2. QED
    BY <1>2, <2>1, Least
<1>4. k \in Nat /\ ~Upto(k)
  BY <1>3
<1>5. k # 0
  <2>1. PICK x : x \in X
    OBVIOUS
  <2>2. [i \in lo..hi |-> x] \in [lo..hi -> X]
    BY <2>1
  <2>3. \A i \in lo..hi : ~(i < 0)
    OBVIOUS
  <2>4. Upto(0)
    BY <2>2, <2>3
  <2>5. QED
    BY <1>4, <2>4
<1>6. k - 1 \in Nat /\ k - 1 \notin Bad
  <2>1. k - 1 \in Nat /\ ~(k <= k - 1)
    BY <1>4, <1>5
  <2> HIDE DEF Bad
  <2>2. QED
    BY <1>3, <2>1
<1>7. PICK f \in [lo..hi -> X] : \A i \in lo..hi : i < k - 1 => f[i] = St[i][f]
  <2>1. Upto(k - 1)
    BY <1>6
  <2>2. QED
    BY <2>1
<1>8. CASE k - 1 \notin lo..hi
  <2>1. \A i \in lo..hi : i < k => i < k - 1
    BY <1>4, <1>8
  <2>2. QED
    BY <1>4, <1>7, <2>1
<1>9. CASE k - 1 \in lo..hi
  <2> DEFINE g == [f EXCEPT ![k - 1] = St[k - 1][f]]
  <2>1. g \in [lo..hi -> X]
    BY <1>7, <1>9
  <2>2. \A i \in lo..hi : i < k - 1 => g[i] = f[i]
    BY <1>7, <1>9
  <2>3. g[k - 1] = St[k - 1][f]
    BY <1>7, <1>9
  <2> HIDE DEF g
  <2>4. \A i \in lo..hi : i < k => St[i][f] = St[i][g]
    <3> SUFFICES ASSUME NEW i \in lo..hi, i < k PROVE St[i][f] = St[i][g]
      OBVIOUS
    <3>1. \A j \in lo..(i - 1) : f[j] = g[j]
      BY <1>4, <2>2
    <3>2. i \in lo..hi /\ f \in [lo..hi -> X] /\ g \in [lo..hi -> X]
      BY <1>7, <2>1
    <3>3. QED
      BY <3>1, <3>2
  <2>5. \A i \in lo..hi : i < k => g[i] = St[i][g]
    <3> SUFFICES ASSUME NEW i \in lo..hi, i < k PROVE g[i] = St[i][g]
      OBVIOUS
    <3>1. St[i][f] = St[i][g]
      BY <2>4
    <3>2. i = k - 1 \/ i < k - 1
      BY <1>4
    <3>3. CASE i = k - 1
      BY <2>3, <3>1, <3>3
    <3>4. CASE i < k - 1
      BY <1>7, <2>2, <3>1, <3>4
    <3>5. QED
      BY <3>2, <3>3, <3>4
  <2>6. QED
    BY <1>4, <2>1, <2>5
<1>10. QED
  BY <1>8, <1>9

\* What is left of a sum.
LEMMA Difference ==
  ASSUME NEW a \in Nat, NEW x \in Nat, NEW y \in Nat, NEW c \in Nat, a + x = (a + y) + c
  PROVE  x - y = c /\ x >= y
OBVIOUS

\* A start that cancels.
LEMMA Cancel ==
  ASSUME NEW a \in Nat, NEW x \in Nat, NEW c \in Nat
  PROVE  (a + x) + c - a = x + c /\ a + (x + c - a) = x + c
OBVIOUS

\* What never falls from one to the next never falls.
LEMMA Ascending ==
  ASSUME NEW n \in Nat, NEW f, \A i \in 1..n : f[i] \in Int,
         \A i \in 1..(n - 1) : f[i] <= f[i + 1]
  PROVE  \A i, j \in 1..n : i <= j => f[i] <= f[j]
<1> SUFFICES ASSUME NEW i \in 1..n PROVE \A j \in 1..n : i <= j => f[i] <= f[j]
  OBVIOUS
<1> DEFINE Bad == {j \in 1..n : i <= j /\ ~(f[i] <= f[j])}
<1>1. SUFFICES ASSUME Bad # {} PROVE FALSE
  OBVIOUS
<1>2. PICK j \in Bad : \A k \in Bad : j <= k
  <2>1. Bad \in SUBSET Nat
    OBVIOUS
  <2> HIDE DEF Bad
  <2>2. QED
    BY <1>1, <2>1, Least
<1>3. j # i
  BY <1>2
<1>4. j - 1 \in 1..n /\ i <= j - 1 /\ j - 1 \in 1..(n - 1) /\ (j - 1) + 1 = j
  BY <1>2, <1>3
<1>5. f[i] <= f[j - 1]
  BY <1>2, <1>4
<1>6. f[j - 1] <= f[j]
  BY <1>4
<1>7. QED
  BY <1>2, <1>4, <1>5, <1>6

-----------------------------------------------------------------------------
(* Cue sheets: what the parser gives has its type, whatever the lines.     *)

CueTrack == [num : Nat, file : Nat, format : Formats, lba : Nat]
CueState(d) ==
  [files : Seq(DOMAIN d.files), tracks : Seq(CueTrack),
   pending : Seq([num : Nat, format : Formats, file : Nat])]

\* The first element of a sequence.
LEMMA NonEmptySeqElements ==
  ASSUME NEW S, NEW s \in Seq(S), s # <<>>
  PROVE  s[1] \in S
<1>1. Len(s) \in Nat /\ s \in [1..Len(s) -> S]
  BY LenProperties
<1>2. Len(s) # 0
  BY EmptySeq
<1>3. QED
  BY <1>1, <1>2

\* A line keeps the parser's state what it is.
LEMMA CueLineType ==
  ASSUME NEW d, NEW l, Line(d, l), NEW cue \in CueState(d)
  PROVE  CueLine(cue, l) \in CueState(d)
<1> DEFINE P == [num : Nat, format : Formats, file : Nat]
<1>0. /\ cue.files \in Seq(DOMAIN d.files) /\ cue.tracks \in Seq(CueTrack) /\ cue.pending \in Seq(P)
      /\ cue = [files |-> cue.files, tracks |-> cue.tracks, pending |-> cue.pending]
  BY DEF CueState
<1>00. \A fs \in Seq(DOMAIN d.files), ts \in Seq(CueTrack), ps \in Seq(P) :
         [files |-> fs, tracks |-> ts, pending |-> ps] \in CueState(d)
  BY DEF CueState
<1> HIDE DEF P
<1>1. CASE l.op = "FILE" /\ l.quoted /\ Len(cue.files) < CUE_MAX_FILES
  <2>1. CueLine(cue, l) = [cue EXCEPT !.files = Append(@, l.file)]
    BY <1>1 DEF CueLine
  <2>2. l.file \in DOMAIN d.files
    BY <1>1 DEF Line
  <2>3. Append(cue.files, l.file) \in Seq(DOMAIN d.files)
    BY <1>0, <2>2, AppendProperties
  <2>4. CueLine(cue, l) = [files |-> Append(cue.files, l.file), tracks |-> cue.tracks,
                           pending |-> cue.pending]
    BY <1>0, <2>1
  <2>5. QED
    BY <1>0, <1>00, <2>3, <2>4
<1>2. CASE l.op = "TRACK" /\ l.num \in 1..CUE_MAX_TRACKS /\ Len(cue.tracks) < CUE_MAX_TRACKS
  <2> DEFINE p == [num |-> l.num, format |-> l.format,
                   file |-> IF cue.files = <<>> THEN 1 ELSE Len(cue.files)]
  <2>1. CueLine(cue, l) = [cue EXCEPT !.pending = <<p>>]
    BY <1>2 DEF CueLine
  <2>2. l.num \in Nat /\ l.format \in Formats
    BY <1>2 DEF Line
  <2>3. Len(cue.files) \in Nat
    BY <1>0, LenProperties
  <2>4. p \in P
    BY <2>2, <2>3 DEF P
  <2> HIDE DEF p
  <2>5. <<p>> \in Seq(P)
    BY <2>4
  <2>6. CueLine(cue, l) = [files |-> cue.files, tracks |-> cue.tracks, pending |-> <<p>>]
    BY <1>0, <2>1
  <2>7. QED
    BY <1>0, <1>00, <2>5, <2>6
<1>3. CASE l.op = "INDEX" /\ cue.pending # <<>>
  <2> DEFINE t == [num |-> cue.pending[1].num, file |-> cue.pending[1].file,
                   format |-> cue.pending[1].format, lba |-> l.lba]
  <2>1. CueLine(cue, l) = [cue EXCEPT !.tracks = Append(@, t), !.pending = <<>>]
    BY <1>3 DEF CueLine
  <2>2. l.lba \in Nat
    BY <1>3 DEF Line
  <2>3. cue.pending[1] \in P
    BY <1>0, <1>3, NonEmptySeqElements
  <2>4. t \in CueTrack
    BY <2>2, <2>3 DEF CueTrack, P
  <2> HIDE DEF t
  <2>5. Append(cue.tracks, t) \in Seq(CueTrack)
    BY <1>0, <2>4, AppendProperties
  <2>6. <<>> \in Seq(P)
    OBVIOUS
  <2>7. CueLine(cue, l) = [files |-> cue.files, tracks |-> Append(cue.tracks, t), pending |-> <<>>]
    BY <1>0, <2>1
  <2>8. QED
    BY <1>0, <1>00, <2>5, <2>6, <2>7
<1>4. CASE /\ ~(l.op = "FILE" /\ l.quoted /\ Len(cue.files) < CUE_MAX_FILES)
           /\ ~(l.op = "TRACK" /\ l.num \in 1..CUE_MAX_TRACKS /\ Len(cue.tracks) < CUE_MAX_TRACKS)
           /\ ~(l.op = "INDEX" /\ cue.pending # <<>>)
  BY <1>4 DEF CueLine
<1>5. QED
  BY <1>1, <1>2, <1>3, <1>4

\* A parsed sheet: its files are the disc's, its tracks have known fields.
LEMMA CueType ==
  ASSUME NEW d \in Discs, d.kind = "cue"
  PROVE  cue_get(d) \in CueState(d)
<1> DEFINE n == Len(d.lines)
           empty == [files |-> <<>>, tracks |-> <<>>, pending |-> <<>>]
           after[i \in 0..n] == IF i = 0 THEN empty ELSE CueLine(after[i - 1], d.lines[i])
           X == CueState(d)
           St == [i \in 0..n |-> [f \in [0..n -> X] |->
                   IF i = 0 THEN empty ELSE CueLine(f[i - 1], d.lines[i])]]
<1>1. cue_get(d) = after[n]
  BY DEF cue_get
<1>2. n \in Nat /\ \A i \in 1..n : Line(d, d.lines[i])
  BY DiscsAssumption
<1>3. empty \in X
  BY DEF CueState
<1>4. ASSUME NEW i \in 0..n, NEW f \in [0..n -> X]
      PROVE  (IF i = 0 THEN empty ELSE CueLine(f[i - 1], d.lines[i])) \in X
  <2>1. CASE i = 0
    BY <1>3, <2>1
  <2>2. CASE i # 0
    <3>1. i \in 1..n /\ i - 1 \in 0..n
      BY <1>2, <2>2
    <3>2. CueLine(f[i - 1], d.lines[i]) \in X
      BY <1>2, <3>1, CueLineType
    <3>3. QED
      BY <2>2, <3>2
  <2>3. QED
    BY <2>1, <2>2
<1> HIDE DEF X, empty, n
<1>5. St \in [0..n -> [[0..n -> X] -> X]]
  BY <1>4
<1>6. \A i \in 0..n : \A f \in [0..n -> X] :
        St[i][f] = IF i = 0 THEN empty ELSE CueLine(f[i - 1], d.lines[i])
  OBVIOUS
<1> HIDE DEF St
<1>7. ASSUME NEW i \in 0..n, NEW f \in [0..n -> X], NEW g \in [0..n -> X],
             \A j \in 0..(i - 1) : f[j] = g[j]
      PROVE  St[i][f] = St[i][g]
  <2>1. i # 0 => i - 1 \in 0..(i - 1)
    BY <1>2
  <2>2. QED
    BY <1>6, <1>7, <2>1
<1>8. PICK f \in [0..n -> X] : \A i \in 0..n : f[i] = St[i][f]
  <2>1. 0 \in Nat /\ n \in Nat
    BY <1>2
  <2>2. FromSmaller(St, 0, n, X)
    BY <1>3, <1>5, <1>7 DEF FromSmaller
  <2>3. QED
    BY <2>1, <2>2, Recursion
<1>9. f = [i \in 0..n |-> IF i = 0 THEN empty ELSE CueLine(f[i - 1], d.lines[i])]
  BY <1>6, <1>8
<1>10. after = [i \in 0..n |-> IF i = 0 THEN empty ELSE CueLine(after[i - 1], d.lines[i])]
  BY <1>9
<1> HIDE DEF after
<1> DEFINE Bad == {i \in 0..n : after[i] \notin X}
<1>11. SUFFICES Bad = {}
  BY <1>1, <1>2 DEF X
<1>12. SUFFICES ASSUME Bad # {} PROVE FALSE
  OBVIOUS
<1>13. PICK k \in Bad : \A j \in Bad : k <= j
  <2>1. Bad \in SUBSET Nat
    BY <1>2
  <2> HIDE DEF Bad
  <2>2. QED
    BY <1>12, <2>1, Least
<1>14. k \in 0..n /\ after[k] \notin X
  BY <1>13
<1>15. k # 0
  BY <1>3, <1>10, <1>14
<1>16. k - 1 \in 0..n /\ ~(k <= k - 1) /\ k \in 1..n
  BY <1>2, <1>14, <1>15
<1>17. after[k - 1] \in X
  BY <1>13, <1>16
<1>18. after[k] = CueLine(after[k - 1], d.lines[k])
  BY <1>10, <1>14, <1>15
<1>19. QED
  BY <1>2, <1>14, <1>16, <1>17, <1>18, CueLineType DEF X

-----------------------------------------------------------------------------
(* The recursive functions of the layout, by their equations.              *)

\* The running sum of c's first n values exists.
LEMMA SumExists ==
  ASSUME NEW n \in Nat, NEW c, \A i \in 1..n : c[i] \in Int
  PROVE  \E f : f = [i \in 1..(n + 1) |-> IF i = 1 THEN 0 ELSE f[i - 1] + c[i - 1]]
<1> DEFINE m == n + 1
           St == [i \in 1..m |-> [f \in [1..m -> Int] |-> IF i = 1 THEN 0 ELSE f[i - 1] + c[i - 1]]]
<1>1. m \in Nat /\ 1 \in Nat
  OBVIOUS
<1>2. \A i \in 1..m : i # 1 => i - 1 \in 1..m /\ i - 1 \in 1..n /\ i - 1 \in 1..(i - 1)
  OBVIOUS
<1> HIDE DEF m
<1> DEFINE At(f, i) == IF i = 1 THEN 0 ELSE f[i - 1] + c[i - 1]
<1>3. \A i \in 1..m : \A f \in [1..m -> Int] : At(f, i) \in Int
  <2>1. ASSUME NEW i \in 1..m, NEW f \in [1..m -> Int], i # 1 PROVE f[i - 1] + c[i - 1] \in Int
    <3>1. f[i - 1] \in Int /\ c[i - 1] \in Int
      BY <1>2, <2>1
    <3>2. QED
      BY <3>1
  <2>2. \A i \in 1..m : \A f \in [1..m -> Int] : At(f, i) = 0 \/ (i # 1 /\ At(f, i) = f[i - 1] + c[i - 1])
    OBVIOUS
  <2> HIDE DEF At
  <2>3. 0 \in Int
    OBVIOUS
  <2>4. QED
    BY <2>1, <2>2, <2>3
<1>a. St = [i \in 1..m |-> [f \in [1..m -> Int] |-> At(f, i)]]
  OBVIOUS
<1> HIDE DEF At, St
<1>4. St \in [1..m -> [[1..m -> Int] -> Int]]
  BY <1>3, <1>a
<1>b. \A i \in 1..m : \A f \in [1..m -> Int] : St[i][f] = At(f, i)
  BY <1>a
<1>5. \A i \in 1..m : \A f \in [1..m -> Int] : St[i][f] = IF i = 1 THEN 0 ELSE f[i - 1] + c[i - 1]
  BY <1>b DEF At
<1>6. FromSmaller(St, 1, m, Int)
  <2>1. ASSUME NEW i \in 1..m, NEW f \in [1..m -> Int], NEW g \in [1..m -> Int],
               \A j \in 1..(i - 1) : f[j] = g[j]
        PROVE  St[i][f] = St[i][g]
    <3>1. i # 1 => f[i - 1] = g[i - 1]
      BY <1>2, <2>1
    <3>2. At(f, i) = At(g, i)
      BY <3>1, Zenon DEF At
    <3>3. QED
      BY <1>b, <3>2
  <2>2. Int # {}
    OBVIOUS
  <2>3. QED
    BY <1>4, <2>1, <2>2 DEF FromSmaller
<1>7. PICK f \in [1..m -> Int] : \A i \in 1..m : f[i] = St[i][f]
  BY <1>1, <1>6, Recursion
<1>8. f = [i \in 1..m |-> IF i = 1 THEN 0 ELSE f[i - 1] + c[i - 1]]
  BY <1>5, <1>7, ZenonT(30)
<1>9. QED
  BY <1>8 DEF m

\* A running sum starts at 0 and grows by each term.
LEMMA SumSteps ==
  ASSUME NEW n \in Nat, NEW c, NEW f, \A i \in 1..n : c[i] \in Int,
         f = [i \in 1..(n + 1) |-> IF i = 1 THEN 0 ELSE f[i - 1] + c[i - 1]]
  PROVE  f[1] = 0 /\ \A i \in 1..n : f[i + 1] = f[i] + c[i]
<1>1. 1 \in 1..(n + 1)
  OBVIOUS
<1>2. \A i \in 1..n : i + 1 \in 1..(n + 1) /\ i + 1 # 1 /\ (i + 1) - 1 = i
  OBVIOUS
<1>3. f[1] = 0
  BY <1>1
<1>4. ASSUME NEW i \in 1..n PROVE f[i + 1] = f[i] + c[i]
  <2>1. f[i + 1] = f[(i + 1) - 1] + c[(i + 1) - 1]
    BY <1>2
  <2>2. QED
    BY <1>2, <2>1
<1>5. QED
  BY <1>3, <1>4

CueFramesOf(d, f) ==
  CueFrames(cue_get(d).tracks, CueOffsets(cue_get(d).tracks), f, d.files[cue_get(d).files[f]].size,
            cdimage_mode_for_cue_format(cue_get(d).tracks[1].format))

\* Each file of a sheet begins after the frames of the files before it.
LEMMA CueBasesAre ==
  ASSUME NEW d, Len(cue_get(d).files) \in Nat,
         \A f \in 1..Len(cue_get(d).files) : CueFramesOf(d, f) \in Int
  PROVE  /\ CueBases(d)[1] = 0
         /\ \A f \in 1..Len(cue_get(d).files) : CueBases(d)[f + 1] = CueBases(d)[f] + CueFramesOf(d, f)
<1> DEFINE n == Len(cue_get(d).files)
           c == [f \in 1..n |-> CueFramesOf(d, f)]
           base[f \in 1..(n + 1)] == IF f = 1 THEN 0 ELSE base[f - 1] + CueFramesOf(d, f - 1)
<1>1. CueBases(d) = base
  BY DEF CueBases, CueFramesOf
<1>2. \A i \in 1..n : c[i] = CueFramesOf(d, i) /\ c[i] \in Int
  OBVIOUS
<1>3. n \in Nat
  OBVIOUS
<1> HIDE DEF c, n
<1>4. PICK f : f = [i \in 1..(n + 1) |-> IF i = 1 THEN 0 ELSE f[i - 1] + c[i - 1]]
  BY <1>2, <1>3, SumExists
<1>5. f = [i \in 1..(n + 1) |-> IF i = 1 THEN 0 ELSE f[i - 1] + CueFramesOf(d, i - 1)]
  <2>1. \A i \in 1..(n + 1) : i # 1 => i - 1 \in 1..n
    BY <1>3
  <2>2. \A i \in 1..(n + 1) : i # 1 => c[i - 1] = CueFramesOf(d, i - 1)
    BY <1>2, <2>1
  <2>3. QED
    BY <1>4, <2>2
<1>6. base = [i \in 1..(n + 1) |-> IF i = 1 THEN 0 ELSE base[i - 1] + CueFramesOf(d, i - 1)]
  BY <1>5
<1> HIDE DEF base
<1>7. base = [i \in 1..(n + 1) |-> IF i = 1 THEN 0 ELSE base[i - 1] + c[i - 1]]
  <2>1. \A i \in 1..(n + 1) : i # 1 => i - 1 \in 1..n
    BY <1>3
  <2>2. \A i \in 1..(n + 1) : i # 1 => c[i - 1] = CueFramesOf(d, i - 1)
    BY <1>2, <2>1
  <2>3. QED
    BY <1>6, <2>2
<1>8. base[1] = 0 /\ \A i \in 1..n : base[i + 1] = base[i] + c[i]
  BY <1>2, <1>3, <1>7, SumSteps
<1>9. QED
  BY <1>1, <1>2, <1>8 DEF n

ChdSpan(t) == t.pregap + ChdFrames(t) + t.postgap

\* Each track of a CHD begins after the spans of those before it.
LEMMA ChdFirstsAre ==
  ASSUME NEW d, Len(d.tracks) \in Nat, \A i \in 1..Len(d.tracks) : ChdSpan(d.tracks[i]) \in Int
  PROVE  /\ ChdFirsts(d)[1] = 0
         /\ \A i \in 1..Len(d.tracks) : ChdFirsts(d)[i + 1] = ChdFirsts(d)[i] + ChdSpan(d.tracks[i])
<1> DEFINE n == Len(d.tracks)
           c == [i \in 1..n |-> ChdSpan(d.tracks[i])]
           first[i \in 1..(n + 1)] == IF i = 1 THEN 0 ELSE first[i - 1] + ChdSpan(d.tracks[i - 1])
<1>1. ChdFirsts(d) = first
  BY DEF ChdFirsts, ChdSpan
<1>2. \A i \in 1..n : c[i] = ChdSpan(d.tracks[i]) /\ c[i] \in Int
  OBVIOUS
<1>3. n \in Nat
  OBVIOUS
<1> HIDE DEF c, n
<1>4. \A i \in 1..(n + 1) : i # 1 => c[i - 1] = ChdSpan(d.tracks[i - 1])
  <2>1. \A i \in 1..(n + 1) : i # 1 => i - 1 \in 1..n
    BY <1>3
  <2>2. QED
    BY <1>2, <2>1
<1>5. PICK f : f = [i \in 1..(n + 1) |-> IF i = 1 THEN 0 ELSE f[i - 1] + c[i - 1]]
  BY <1>2, <1>3, SumExists
<1>6. f = [i \in 1..(n + 1) |-> IF i = 1 THEN 0 ELSE f[i - 1] + ChdSpan(d.tracks[i - 1])]
  BY <1>4, <1>5
<1>7. first = [i \in 1..(n + 1) |-> IF i = 1 THEN 0 ELSE first[i - 1] + ChdSpan(d.tracks[i - 1])]
  BY <1>6
<1> HIDE DEF first
<1>8. first = [i \in 1..(n + 1) |-> IF i = 1 THEN 0 ELSE first[i - 1] + c[i - 1]]
  BY <1>4, <1>7
<1>9. first[1] = 0 /\ \A i \in 1..n : first[i + 1] = first[i] + c[i]
  BY <1>2, <1>3, <1>8, SumSteps
<1>10. QED
  BY <1>1, <1>2, <1>9 DEF n

\* The tracks of a sheet before track i in its file, and the size of a track's frames.
Before(ts, i) == {j \in 1..(i - 1) : ts[j].file = ts[i].file}
Mode(t) == cdimage_mode_for_cue_format(t.format)

Offset(ts, off, i) ==
  IF Before(ts, i) # {} /\ ts[i].lba >= ts[Max(Before(ts, i))].lba
  THEN off[Max(Before(ts, i))] + (ts[i].lba - ts[Max(Before(ts, i))].lba) * Mode(ts[Max(Before(ts, i))])
  ELSE ts[i].lba * Mode(ts[i])

\* A track's offset is the one its predecessor in the file gives.
LEMMA CueOffsetsAre ==
  ASSUME NEW ts \in Seq(CueTrack)
  PROVE  \A i \in 1..Len(ts) : /\ CueOffsets(ts)[i] = Offset(ts, CueOffsets(ts), i)
                               /\ CueOffsets(ts)[i] \in Int
<1> DEFINE n == Len(ts)
           off[i \in DOMAIN ts] == Offset(ts, off, i)
           St == [i \in 1..n |-> [f \in [1..n -> Int] |-> Offset(ts, f, i)]]
<1>1. CueOffsets(ts) = off
  BY DEF CueOffsets, Offset, Before, Mode
<1>2. n \in Nat /\ DOMAIN ts = 1..n /\ \A i \in 1..n : ts[i] \in CueTrack
  BY LenProperties
<1>3. \A i \in 1..n : ts[i].lba \in Int /\ Mode(ts[i]) \in Int
  BY <1>2 DEF CueTrack, Mode, cdimage_mode_for_cue_format
<1>4. \A i \in 1..n : Before(ts, i) # {} => Max(Before(ts, i)) \in 1..n /\ Max(Before(ts, i)) \in 1..(i - 1)
  <2> SUFFICES ASSUME NEW i \in 1..n, Before(ts, i) # {}
               PROVE  Max(Before(ts, i)) \in 1..n /\ Max(Before(ts, i)) \in 1..(i - 1)
    OBVIOUS
  <2>1. i - 1 \in Nat /\ Before(ts, i) \in SUBSET (1..(i - 1)) /\ 1..(i - 1) \subseteq 1..n
    BY <1>2 DEF Before
  <2>2. Max(Before(ts, i)) \in Before(ts, i)
    BY <2>1, Greatest
  <2>3. QED
    BY <2>1, <2>2
<1> HIDE DEF n
<1>5. \A i \in 1..n : \A f \in [1..n -> Int] : Offset(ts, f, i) \in Int
  <2> SUFFICES ASSUME NEW i \in 1..n, NEW f \in [1..n -> Int] PROVE Offset(ts, f, i) \in Int
    OBVIOUS
  <2> DEFINE p == Max(Before(ts, i))
  <2>1. Before(ts, i) # {} => p \in 1..n
    BY <1>4
  <2> HIDE DEF p
  <2>2. Before(ts, i) # {} => f[p] + (ts[i].lba - ts[p].lba) * Mode(ts[p]) \in Int
    BY <1>3, <2>1
  <2>3. ts[i].lba * Mode(ts[i]) \in Int
    BY <1>3
  <2>4. QED
    BY <2>2, <2>3 DEF Offset, p
<1>6. St \in [1..n -> [[1..n -> Int] -> Int]] /\ Int # {}
  BY <1>5
<1>7. \A i \in 1..n : \A f \in [1..n -> Int] : St[i][f] = Offset(ts, f, i)
  OBVIOUS
<1> HIDE DEF St
<1>8. FromSmaller(St, 1, n, Int)
  <2>1. ASSUME NEW i \in 1..n, NEW f \in [1..n -> Int], NEW g \in [1..n -> Int],
               \A j \in 1..(i - 1) : f[j] = g[j]
        PROVE  Offset(ts, f, i) = Offset(ts, g, i)
    <3>1. Before(ts, i) # {} => f[Max(Before(ts, i))] = g[Max(Before(ts, i))]
      BY <1>4, <2>1
    <3>2. QED
      BY <3>1 DEF Offset
  <2>2. \A i \in 1..n : \A f, g \in [1..n -> Int] :
          (\A j \in 1..(i - 1) : f[j] = g[j]) => St[i][f] = St[i][g]
    <3> SUFFICES ASSUME NEW i \in 1..n, NEW f \in [1..n -> Int], NEW g \in [1..n -> Int],
                        \A j \in 1..(i - 1) : f[j] = g[j]
                 PROVE  St[i][f] = St[i][g]
      OBVIOUS
    <3>1. Offset(ts, f, i) = Offset(ts, g, i)
      BY <2>1, Zenon
    <3>2. QED
      BY <1>7, <3>1
  <2>3. QED
    BY <1>6, <2>2 DEF FromSmaller
<1>9. PICK f \in [1..n -> Int] : \A i \in 1..n : f[i] = St[i][f]
  BY <1>2, <1>8, Recursion
<1>10. f = [i \in DOMAIN ts |-> Offset(ts, f, i)]
  BY <1>2, <1>7, <1>9
<1>11. off = [i \in DOMAIN ts |-> Offset(ts, off, i)]
  BY <1>10
<1> HIDE DEF off
<1>12. \A i \in 1..n : off[i] = Offset(ts, off, i)
  BY <1>2, <1>11
<1> DEFINE Bad == {i \in 1..n : off[i] \notin Int}
<1>13. Bad = {}
  <2> SUFFICES ASSUME Bad # {} PROVE FALSE
    OBVIOUS
  <2>1. PICK k \in Bad : \A j \in Bad : k <= j
    <3>1. Bad \in SUBSET Nat
      BY <1>2
    <3> HIDE DEF Bad
    <3>2. QED
      BY <3>1, Least
  <2>2. k \in 1..n /\ off[k] \notin Int
    BY <2>1
  <2> DEFINE p == Max(Before(ts, k))
  <2>3. Before(ts, k) # {} => p \in 1..n /\ ~(k <= p)
    BY <1>4, <2>2
  <2>4. Before(ts, k) # {} => off[p] \in Int
    BY <2>1, <2>3
  <2> HIDE DEF p, Bad
  <2>5. Before(ts, k) # {} => off[p] + (ts[k].lba - ts[p].lba) * Mode(ts[p]) \in Int
    BY <1>3, <2>2, <2>3, <2>4, SMTT(30)
  <2>6. ts[k].lba * Mode(ts[k]) \in Int
    BY <1>3, <2>2
  <2>7. Offset(ts, off, k) \in Int
    BY <2>5, <2>6 DEF Offset, p
  <2>8. QED
    BY <1>12, <2>2, <2>7
<1>14. QED
  BY <1>1, <1>12, <1>13 DEF n

-----------------------------------------------------------------------------
(* Discs as mastered: the runs of frames.                                  *)

Tiled(d) ==
  \A i \in DOMAIN d.segs :
    d.segs[i].first = IF i = 1 THEN 0 ELSE d.segs[i - 1].first + d.segs[i - 1].count

\* The fields of a run.
LEMMA SegType ==
  ASSUME NEW d \in Discs
  PROVE  /\ Len(d.segs) \in Nat /\ DOMAIN d.segs = 1..Len(d.segs)
         /\ \A i \in 1..Len(d.segs) :
              /\ d.segs[i] \in Seg /\ d.segs[i].first \in Nat /\ d.segs[i].count \in Nat
              /\ d.segs[i].file \in Nat /\ d.segs[i].pos \in Nat /\ d.segs[i].step \in Nat
              /\ d.segs[i].size \in Nat /\ d.segs[i].offset \in Nat /\ d.segs[i].track \in Nat
<1>1. d.segs \in Seq(Seg)
  BY DiscsAssumption
<1>2. /\ Len(d.segs) \in Nat /\ DOMAIN d.segs = 1..Len(d.segs)
      /\ \A i \in 1..Len(d.segs) : d.segs[i] \in Seg
  BY <1>1, LenProperties
<1>3. QED
  BY <1>2 DEF Seg

\* No two runs share a sector.
LEMMA Tiles ==
  ASSUME NEW d \in Discs, Tiled(d)
  PROVE  \A i, j \in 1..Len(d.segs) : i < j => d.segs[i].first + d.segs[i].count <= d.segs[j].first
<1> DEFINE n == Len(d.segs)
           f == [i \in 1..n |-> d.segs[i].first]
<1>1. n \in Nat /\ \A i \in 1..n : f[i] = d.segs[i].first /\ f[i] \in Nat /\ d.segs[i].count \in Nat
  BY SegType
<1>2. \A i \in 1..(n - 1) : f[i + 1] = f[i] + d.segs[i].count
  <2> SUFFICES ASSUME NEW i \in 1..(n - 1) PROVE f[i + 1] = f[i] + d.segs[i].count
    OBVIOUS
  <2>1. i + 1 \in 1..n /\ i \in 1..n /\ i + 1 # 1 /\ (i + 1) - 1 = i
    BY <1>1
  <2>2. d.segs[i + 1].first = d.segs[(i + 1) - 1].first + d.segs[(i + 1) - 1].count
    BY <2>1, SegType DEF Tiled
  <2>3. QED
    BY <1>1, <2>1, <2>2
<1> HIDE DEF f, n
<1>3. \A i \in 1..(n - 1) : f[i] <= f[i + 1]
  <2> SUFFICES ASSUME NEW i \in 1..(n - 1) PROVE f[i] <= f[i + 1]
    OBVIOUS
  <2>1. i \in 1..n
    BY <1>1
  <2>2. QED
    BY <1>1, <1>2, <2>1
<1>4. \A i, j \in 1..n : i <= j => f[i] <= f[j]
  <2>1. \A i \in 1..n : f[i] \in Int
    BY <1>1
  <2>2. QED
    BY <1>1, <1>3, <2>1, Ascending
<1>5. ASSUME NEW i \in 1..n, NEW j \in 1..n, i < j PROVE f[i] + d.segs[i].count <= f[j]
  <2>1. i \in 1..(n - 1) /\ i + 1 \in 1..n /\ i + 1 <= j
    BY <1>1, <1>5
  <2>2. f[i + 1] <= f[j] /\ f[i + 1] = f[i] + d.segs[i].count
    BY <1>2, <1>4, <2>1
  <2>3. QED
    BY <2>2
<1>6. QED
  BY <1>1, <1>5 DEF n

Holds(d, i, s) == d.segs[i].first <= s /\ s < d.segs[i].first + d.segs[i].count

\* The run that holds a sector is the one SegOf chooses.
LEMMA SegOfIs ==
  ASSUME NEW d \in Discs, Tiled(d), NEW i \in 1..Len(d.segs), NEW s \in Int, Holds(d, i, s)
  PROVE  OnDisc(d, s) /\ SegOf(d, s) = i
<1>1. \A j \in DOMAIN d.segs :
        j \in 1..Len(d.segs) /\ d.segs[j].first \in Nat /\ d.segs[j].count \in Nat
  BY SegType
<1>2. \A j \in DOMAIN d.segs :
        s \in d.segs[j].first..(d.segs[j].first + d.segs[j].count - 1) <=> Holds(d, j, s)
  BY <1>1, SMTT(30) DEF Holds
<1>3. i \in DOMAIN d.segs /\ i \in Nat
  BY SegType
<1>4. \A j \in DOMAIN d.segs : Holds(d, j, s) => j = i
  <2> SUFFICES ASSUME NEW j \in 1..Len(d.segs), Holds(d, j, s) PROVE j = i
    BY <1>1
  <2>1. Len(d.segs) \in Nat /\ i \in Nat /\ j \in Nat
    BY SegType
  <2>2. j < i => d.segs[j].first + d.segs[j].count <= d.segs[i].first
    BY Tiles
  <2>3. i < j => d.segs[i].first + d.segs[i].count <= d.segs[j].first
    BY Tiles
  <2>4. /\ d.segs[i].first \in Nat /\ d.segs[i].count \in Nat
        /\ d.segs[j].first \in Nat /\ d.segs[j].count \in Nat
    BY SegType
  <2>5. QED
    BY <2>1, <2>2, <2>3, <2>4, SMTT(30) DEF Holds
<1>5. SegOf(d, s) \in DOMAIN d.segs /\ Holds(d, SegOf(d, s), s)
  <2>1. \E j \in DOMAIN d.segs : s \in d.segs[j].first..(d.segs[j].first + d.segs[j].count - 1)
    BY <1>2, <1>3
  <2> DEFINE c == SegOf(d, s)
  <2>2. c \in DOMAIN d.segs /\ s \in d.segs[c].first..(d.segs[c].first + d.segs[c].count - 1)
    BY <2>1 DEF SegOf
  <2>3. QED
    BY <1>2, <2>2
<1>6. SegOf(d, s) = i
  BY <1>4, <1>5
<1>7. OnDisc(d, s)
  BY <1>2, <1>3 DEF OnDisc
<1>8. QED
  BY <1>6, <1>7

\* A sector of the disc is in a run.
LEMMA OnDiscHolds ==
  ASSUME NEW d \in Discs, NEW s \in Int, OnDisc(d, s)
  PROVE  \E i \in 1..Len(d.segs) : Holds(d, i, s)
<1>1. PICK i \in DOMAIN d.segs : s \in d.segs[i].first..(d.segs[i].first + d.segs[i].count - 1)
  BY DEF OnDisc
<1>2. i \in 1..Len(d.segs) /\ d.segs[i].first \in Nat /\ d.segs[i].count \in Nat
  BY SegType
<1>3. QED
  BY <1>1, <1>2, SMTT(30) DEF Holds

\* The frame of a sector in run i.
LEMMA FrameIs ==
  ASSUME NEW d \in Discs, Tiled(d), NEW i \in 1..Len(d.segs), NEW s \in Int, Holds(d, i, s)
  PROVE  /\ FrameOf(d, s).pos = d.segs[i].pos + (s - d.segs[i].first) * d.segs[i].step
         /\ FrameOf(d, s).file = d.segs[i].file /\ FrameOf(d, s).size = d.segs[i].size
         /\ FrameOf(d, s).offset = d.segs[i].offset /\ FrameOf(d, s).use = d.segs[i].use
<1> DEFINE g == d.segs[i]
<1>1. SegOf(d, s) = i /\ g \in Seg
  BY SegOfIs, SegType
<1>2. FrameOf(d, s) = [g EXCEPT !.pos = @ + (s - g.first) * g.step]
  BY <1>1 DEF FrameOf
<1>3. /\ DOMAIN g = {"first", "count", "file", "pos", "step", "size", "offset", "use", "track"}
  BY <1>1 DEF Seg
<1> HIDE DEF g
<1>4. QED
  BY <1>2, <1>3 DEF g

-----------------------------------------------------------------------------
(* A mastered sheet: its runs, its files and its tracks.                   *)

Tr(d)    == cue_get(d).tracks
Files(d) == cue_get(d).files
Sheet(d) ==
  d \in Discs /\ d.kind = "cue" /\ Tiled(d) /\ MasteredCue(d) /\ Tr(d) # <<>> /\ Files(d) # <<>>

\* Sector sizes and header sizes of the formats.
LEMMA ModeType ==
  \A f : /\ cdimage_mode_for_cue_format(f) \in {2048, 2352}
        /\ cdimage_offset_for_cue_format(f) \in Nat
BY DEF cdimage_mode_for_cue_format, cdimage_offset_for_cue_format

\* The sheet of a disc that opened: it has files and tracks, all of known fields.
LEMMA SheetType ==
  ASSUME NEW d, Sheet(d)
  PROVE  /\ Len(Tr(d)) \in Nat /\ Len(Tr(d)) > 0 /\ DOMAIN Tr(d) = 1..Len(Tr(d)) /\ Tr(d) \in Seq(CueTrack)
         /\ \A k \in 1..Len(Tr(d)) : /\ Tr(d)[k] \in CueTrack /\ Tr(d)[k].lba \in Nat
                                     /\ Mode(Tr(d)[k]) \in {2048, 2352}
         /\ Len(Files(d)) \in Nat /\ Len(Files(d)) > 0 /\ DOMAIN Files(d) = 1..Len(Files(d))
         /\ \A f \in 1..Len(Files(d)) : /\ Files(d)[f] = f /\ f \in DOMAIN d.files
                                        /\ d.files[f].size \in Nat
         /\ Len(d.segs) \in Nat /\ Len(d.segs) > 0
<1>1. cue_get(d) \in CueState(d)
  BY CueType DEF Sheet
<1>2. Tr(d) \in Seq(CueTrack) /\ Files(d) \in Seq(DOMAIN d.files)
  BY <1>1 DEF CueState, Tr, Files
<1>3. Tr(d) # <<>> /\ Files(d) # <<>> /\ d \in Discs /\ FilesInOrder(d, Files(d))
  BY DEF Sheet, MasteredCue, Files
<1>4. Len(Tr(d)) \in Nat /\ Len(Tr(d)) > 0
  BY <1>2, <1>3, EmptySeq
<1>5. Len(Files(d)) \in Nat /\ Len(Files(d)) > 0
  BY <1>2, <1>3, EmptySeq
<1>6. DOMAIN Tr(d) = 1..Len(Tr(d)) /\ DOMAIN Files(d) = 1..Len(Files(d))
  BY <1>2, LenProperties
<1>7. \A k \in 1..Len(Tr(d)) : /\ Tr(d)[k] \in CueTrack /\ Tr(d)[k].lba \in Nat
                               /\ Mode(Tr(d)[k]) \in {2048, 2352}
  <2> SUFFICES ASSUME NEW k \in 1..Len(Tr(d))
               PROVE  /\ Tr(d)[k] \in CueTrack /\ Tr(d)[k].lba \in Nat
                      /\ Mode(Tr(d)[k]) \in {2048, 2352}
    OBVIOUS
  <2>1. Tr(d)[k] \in CueTrack
    BY <1>2, LenProperties
  <2>2. QED
    BY <2>1 DEF CueTrack, Mode, cdimage_mode_for_cue_format
<1>8. ASSUME NEW f \in 1..Len(Files(d))
      PROVE  Files(d)[f] = f /\ f \in DOMAIN d.files /\ d.files[f].size \in Nat
  <2>1. Files(d)[f] \in DOMAIN d.files
    BY <1>2, LenProperties
  <2>2. Files(d)[f] = f
    BY <1>3, <1>6 DEF FilesInOrder
  <2>3. d.files \in Seq([size : Nat, ok : BOOLEAN])
    BY <1>3, DiscsAssumption
  <2>4. d.files[f] \in [size : Nat, ok : BOOLEAN]
    <3>1. \A x \in DOMAIN d.files : d.files[x] \in [size : Nat, ok : BOOLEAN]
      <4>1. DOMAIN d.files = 1..Len(d.files) /\ d.files \in [1..Len(d.files) -> [size : Nat, ok : BOOLEAN]]
        BY <2>3, LenProperties
      <4>2. QED
        BY <4>1
    <3>2. QED
      BY <2>1, <2>2, <3>1
  <2>5. QED
    BY <2>1, <2>2, <2>4
<1>9. d.segs # <<>> /\ d.segs \in Seq(Seg)
  BY <1>3, DiscsAssumption DEF FilesInOrder
<1>10. Len(d.segs) \in Nat /\ Len(d.segs) > 0
  BY <1>9, EmptySeq
<1>11. QED
  BY <1>2, <1>4, <1>5, <1>6, <1>7, <1>8, <1>10

\* A run is a track's or the head of a file.
LEMMA SheetKinds ==
  ASSUME NEW d, Sheet(d), NEW i \in DOMAIN d.segs
  PROVE  /\ d.segs[i].track # 0 => TrackRun(d, Tr(d), i)
         /\ d.segs[i].track = 0 => HeadRun(d, Tr(d), Files(d), i)
BY Zenon DEF Sheet, MasteredCue, Tr, Files

\* What a mastered sheet says, part by part.
LEMMA SheetParts ==
  ASSUME NEW d, Sheet(d)
  PROVE  /\ d \in Discs /\ d.kind = "cue" /\ Tiled(d)
         /\ FilesInOrder(d, Files(d)) /\ TracksInOrder(d, Tr(d))
         /\ Len(d.segs) \in Nat /\ Len(d.segs) > 0 /\ DOMAIN d.segs = 1..Len(d.segs)
         /\ \A i \in 1..Len(d.segs) :
              /\ d.segs[i].first \in Nat /\ d.segs[i].count \in Nat /\ d.segs[i].file \in Nat
              /\ d.segs[i].pos \in Nat /\ d.segs[i].size \in Nat /\ d.segs[i].track \in Nat
<1>1. d \in Discs /\ d.kind = "cue" /\ Tiled(d)
  BY DEF Sheet
<1>2. FilesInOrder(d, Files(d)) /\ TracksInOrder(d, Tr(d))
  BY Zenon DEF Sheet, MasteredCue, Tr, Files
<1>3. /\ Len(d.segs) \in Nat /\ DOMAIN d.segs = 1..Len(d.segs)
      /\ \A i \in 1..Len(d.segs) :
           /\ d.segs[i].first \in Nat /\ d.segs[i].count \in Nat /\ d.segs[i].file \in Nat
           /\ d.segs[i].pos \in Nat /\ d.segs[i].size \in Nat /\ d.segs[i].track \in Nat
  BY <1>1, SegType
<1>4. Len(d.segs) > 0
  BY SheetType
<1>5. QED
  BY <1>1, <1>2, <1>3, <1>4

\* What a run of the sheet is, one fact at a time.
LEMMA TrackRunFacts ==
  ASSUME NEW d, Sheet(d), NEW i \in 1..Len(d.segs), d.segs[i].track # 0
  PROVE  /\ d.segs[i].track \in 1..Len(Tr(d)) /\ d.segs[i].file = Tr(d)[d.segs[i].track].file
         /\ d.segs[i].use = "track" /\ d.segs[i].size = Mode(Tr(d)[d.segs[i].track])
         /\ d.segs[i].offset = cdimage_offset_for_cue_format(Tr(d)[d.segs[i].track].format)
         /\ d.starts[Tr(d)[d.segs[i].track].num] = d.segs[i].first
         /\ \A h \in 1..Len(d.segs) :
              d.segs[h].file = d.segs[i].file /\ d.segs[h].pos = 0
                => d.segs[i].first = d.segs[h].first + Tr(d)[d.segs[i].track].lba
<1>1. DOMAIN d.segs = 1..Len(d.segs)
  BY SheetParts
<1>2. TrackRun(d, Tr(d), i)
  BY <1>1, SheetKinds
<1>3. DOMAIN Tr(d) = 1..Len(Tr(d))
  BY SheetType
<1>4. DOMAIN d.segs = 1..Len(d.segs)
  BY <1>1
<1>5. QED
  BY <1>2, <1>3, <1>4, Zenon DEF TrackRun, Mode

\* The run of track k.
LEMMA TrackRunIs ==
  ASSUME NEW d, NEW i, NEW k, Sheet(d), i \in 1..Len(d.segs), d.segs[i].track = k, k # 0
  PROVE  k \in 1..Len(Tr(d)) /\ d.segs[i].file = Tr(d)[k].file /\ d.segs[i].size = Mode(Tr(d)[k])
BY TrackRunFacts

\* A track's run counts from the head of its file by the track's INDEX 01.
LEMMA TrackRunPlace ==
  ASSUME NEW d, NEW i \in 1..Len(d.segs), NEW h \in 1..Len(d.segs), Sheet(d),
         d.segs[i].track # 0, d.segs[h].file = d.segs[i].file, d.segs[h].pos = 0
  PROVE  d.segs[i].first = d.segs[h].first + Tr(d)[d.segs[i].track].lba
<1>1. \A x \in 1..Len(d.segs) :
        d.segs[x].file = d.segs[i].file /\ d.segs[x].pos = 0
          => d.segs[i].first = d.segs[x].first + Tr(d)[d.segs[i].track].lba
  BY TrackRunFacts
<1>2. QED
  BY <1>1

\* The head of a file that is no track.
LEMMA HeadRunFacts ==
  ASSUME NEW d, Sheet(d), NEW i \in 1..Len(d.segs), d.segs[i].track = 0
  PROVE  /\ d.segs[i].pos = 0
         /\ i < Len(d.segs) /\ d.segs[i + 1].file = d.segs[i].file => d.segs[i].size = d.segs[i + 1].size
         /\ ~(i < Len(d.segs) /\ d.segs[i + 1].file = d.segs[i].file) => d.segs[i].size = Mode(Tr(d)[1])
         /\ Len(Files(d)) = 1 =>
              /\ d.segs[i].use = "track"
              /\ d.segs[i].offset = cdimage_offset_for_cue_format(Tr(d)[1].format)
         /\ Len(Files(d)) # 1 => d.segs[i].use = "lost"
<1>1. DOMAIN d.segs = 1..Len(d.segs)
  BY SheetParts
<1>2. HeadRun(d, Tr(d), Files(d), i)
  BY <1>1, SheetKinds
<1>3. d.segs[i].pos = 0
  BY <1>2, Zenon DEF HeadRun
<1>4. d.segs[i].size = IF i < Len(d.segs) /\ d.segs[i + 1].file = d.segs[i].file THEN d.segs[i + 1].size
                      ELSE Mode(Tr(d)[1])
  BY <1>2, Zenon DEF HeadRun, Mode
<1>5. IF Len(Files(d)) = 1
      THEN d.segs[i].use = "track" /\ d.segs[i].offset = cdimage_offset_for_cue_format(Tr(d)[1].format)
      ELSE d.segs[i].use = "lost"
  BY <1>2, Zenon DEF HeadRun
<1>6. QED
  BY <1>3, <1>4, <1>5

\* One run is followed by the next of its file, or by the first of the next file.
Follows(d, i) ==
  LET g == d.segs[i]
      h == d.segs[i + 1]
  IN  \/ h.file = g.file /\ h.pos = EndOf(g) /\ h.pos > 0
      \/ h.file = g.file + 1 /\ h.pos = 0 /\ EndOf(g) = d.files[g.file].size

\* The bytes of a run are its frames, one after the other.
LEMMA SheetSizes ==
  ASSUME NEW d, Sheet(d), NEW i \in 1..Len(d.segs)
  PROVE  /\ d.segs[i].size \in {2048, 2352} /\ d.segs[i].step = d.segs[i].size /\ d.segs[i].count > 0
         /\ EndOf(d.segs[i]) = d.segs[i].pos + d.segs[i].count * d.segs[i].size
         /\ EndOf(d.segs[i]) \in Nat /\ EndOf(d.segs[i]) > d.segs[i].pos
<1>1. d \in Discs /\ FilesInOrder(d, Files(d)) /\ DOMAIN d.segs = 1..Len(d.segs) /\ Len(d.segs) \in Nat
  BY SheetParts
<1>2. \A j \in 1..Len(d.segs) : d.segs[j].count > 0 /\ d.segs[j].step = d.segs[j].size
  BY <1>1 DEF FilesInOrder
<1>3. \A j \in 1..Len(d.segs) : d.segs[j].track # 0 => d.segs[j].size \in {2048, 2352}
  <2> SUFFICES ASSUME NEW j \in 1..Len(d.segs), d.segs[j].track # 0 PROVE d.segs[j].size \in {2048, 2352}
    OBVIOUS
  <2>3. d.segs[j].size = Mode(Tr(d)[d.segs[j].track])
    BY TrackRunFacts
  <2>4. \A t : Mode(t) \in {2048, 2352}
    BY DEF Mode, cdimage_mode_for_cue_format
  <2>5. QED
    BY <2>3, <2>4
<1>4. \A k \in 1..Len(d.segs) : d.segs[k].size \in {2048, 2352}
  <2> DEFINE Bad == {k \in 1..Len(d.segs) : d.segs[k].size \notin {2048, 2352}}
  <2>1. SUFFICES ASSUME Bad # {} PROVE FALSE
    OBVIOUS
  <2>2. Bad \in SUBSET (1..Len(d.segs))
    OBVIOUS
  <2> HIDE DEF Bad
  <2>3. PICK k \in Bad : \A j \in Bad : k >= j
    BY <1>1, <2>1, <2>2, Greatest
  <2> USE DEF Bad
  <2>4. k \in 1..Len(d.segs) /\ d.segs[k].size \notin {2048, 2352}
    BY <2>3
  <2>5. d.segs[k].track = 0
    BY <1>3, <2>4
  <2>6. CASE k < Len(d.segs) /\ d.segs[k + 1].file = d.segs[k].file
    <3>1. k + 1 \in 1..Len(d.segs) /\ ~(k >= k + 1)
      BY <1>1, <2>4, <2>6
    <3>2. d.segs[k + 1].size \in {2048, 2352}
      BY <2>3, <3>1
    <3>3. QED
      BY <2>4, <2>5, <2>6, <3>2, HeadRunFacts
  <2>7. CASE ~(k < Len(d.segs) /\ d.segs[k + 1].file = d.segs[k].file)
    <3>1. Mode(Tr(d)[1]) \in {2048, 2352}
      BY DEF Mode, cdimage_mode_for_cue_format
    <3>2. QED
      BY <2>4, <2>5, <2>7, <3>1, HeadRunFacts
  <2>8. QED
    BY <2>6, <2>7
<1>5. /\ d.segs[i].count \in Nat /\ d.segs[i].pos \in Nat /\ d.segs[i].size \in {2048, 2352}
      /\ d.segs[i].count > 0 /\ d.segs[i].step = d.segs[i].size
  BY <1>1, <1>2, <1>4, SegType
<1>6. EndOf(d.segs[i]) = d.segs[i].pos + d.segs[i].count * d.segs[i].size
  BY <1>5 DEF EndOf
<1>7. CASE d.segs[i].size = 2048
  BY <1>5, <1>6, <1>7
<1>8. CASE d.segs[i].size = 2352
  BY <1>5, <1>6, <1>8
<1>9. QED
  BY <1>5, <1>7, <1>8

\* The runs of the sheet one after another.
LEMMA SheetOrder ==
  ASSUME NEW d, Sheet(d)
  PROVE  /\ d.segs[1].file = 1 /\ d.segs[1].pos = 0 /\ d.segs[1].first = 0
         /\ \A i \in 1..(Len(d.segs) - 1) :
              Follows(d, i) /\ d.segs[i + 1].first = d.segs[i].first + d.segs[i].count
         /\ d.segs[Len(d.segs)].file = Len(Files(d))
         /\ EndOf(d.segs[Len(d.segs)]) = d.files[Len(Files(d))].size
         /\ \A k \in 1..Len(Tr(d)) : \E i \in 1..Len(d.segs) : d.segs[i].track = k
         /\ \A i, j \in 1..Len(d.segs) : i < j /\ d.segs[j].track # 0 => d.segs[i].track < d.segs[j].track
         /\ DOMAIN d.starts = {Tr(d)[k].num : k \in 1..Len(Tr(d))}
<1>1. /\ d \in Discs /\ FilesInOrder(d, Files(d)) /\ Tiled(d) /\ TracksInOrder(d, Tr(d))
      /\ DOMAIN d.segs = 1..Len(d.segs) /\ Len(d.segs) \in Nat /\ Len(d.segs) > 0
  BY SheetParts
<1>0. DOMAIN Tr(d) = 1..Len(Tr(d))
  BY SheetType
<1>2. /\ d.segs[1].file = 1 /\ d.segs[1].pos = 0
      /\ d.segs[Len(d.segs)].file = Len(Files(d))
      /\ EndOf(d.segs[Len(d.segs)]) = d.files[Len(Files(d))].size
  BY <1>1 DEF FilesInOrder
<1>3. d.segs[1].first = 0
  <2>1. 1 \in DOMAIN d.segs
    BY <1>1
  <2>2. QED
    BY <1>1, <2>1 DEF Tiled
<1>4. /\ \A k \in 1..Len(Tr(d)) : \E i \in 1..Len(d.segs) : d.segs[i].track = k
      /\ \A i, j \in 1..Len(d.segs) : i < j /\ d.segs[j].track # 0 => d.segs[i].track < d.segs[j].track
  BY <1>0, <1>1 DEF TracksInOrder
<1>5. ASSUME NEW i \in 1..(Len(d.segs) - 1)
      PROVE  Follows(d, i) /\ d.segs[i + 1].first = d.segs[i].first + d.segs[i].count
  <2>1. i \in 1..Len(d.segs) /\ i + 1 \in 1..Len(d.segs) /\ i + 1 # 1 /\ (i + 1) - 1 = i
    BY <1>1
  <2>2. d.segs[i + 1].first = d.segs[(i + 1) - 1].first + d.segs[(i + 1) - 1].count
    BY <1>1, <2>1 DEF Tiled
  <2>3. EndOf(d.segs[i]) > d.segs[i].pos /\ d.segs[i].pos \in Nat /\ EndOf(d.segs[i]) \in Nat
    <3>1. d.segs[i].pos \in Nat
      BY <2>1, SheetParts
    <3>2. EndOf(d.segs[i]) > d.segs[i].pos /\ EndOf(d.segs[i]) \in Nat
      BY <2>1, SheetSizes
    <3>3. QED
      BY <3>1, <3>2
  <2>4. \/ d.segs[i + 1].file = d.segs[i].file /\ d.segs[i + 1].pos = EndOf(d.segs[i])
        \/ /\ d.segs[i + 1].file = d.segs[i].file + 1 /\ d.segs[i + 1].pos = 0
           /\ EndOf(d.segs[i]) = d.files[d.segs[i].file].size
    BY <1>1 DEF FilesInOrder
  <2>5. QED
    BY <2>1, <2>2, <2>3, <2>4 DEF Follows
<1>6. DOMAIN d.starts = {Tr(d)[k].num : k \in 1..Len(Tr(d))}
  BY <1>0, <1>1 DEF TracksInOrder
<1>7. QED
  BY <1>2, <1>3, <1>4, <1>5, <1>6

\* Later runs belong to later tracks.
LEMMA TracksAscend ==
  ASSUME NEW d, Sheet(d), NEW i \in 1..Len(d.segs), NEW j \in 1..Len(d.segs),
         i < j, d.segs[j].track # 0
  PROVE  d.segs[i].track < d.segs[j].track
BY SheetOrder

\* The fields of a sheet's run.
LEMMA SegNat ==
  ASSUME NEW d, Sheet(d), NEW i \in 1..Len(d.segs)
  PROVE  /\ d.segs[i].first \in Nat /\ d.segs[i].count \in Nat /\ d.segs[i].file \in Nat
         /\ d.segs[i].pos \in Nat /\ d.segs[i].size \in Nat /\ d.segs[i].track \in Nat
         /\ Len(d.segs) \in Nat /\ i \in Nat /\ i <= Len(d.segs) /\ i > 0
BY SheetParts

\* The fields of a sheet's track.
LEMMA TrackNat ==
  ASSUME NEW d, Sheet(d), NEW k \in 1..Len(Tr(d))
  PROVE  Tr(d)[k].lba \in Nat /\ Mode(Tr(d)[k]) \in {2048, 2352} /\ Tr(d)[k] \in CueTrack
BY SheetType

\* The run of a track.
RunOf(d, k) == CHOOSE i \in 1..Len(d.segs) : d.segs[i].track = k

\* Each track has one run.
LEMMA RunOfIs ==
  ASSUME NEW d, Sheet(d), NEW k \in 1..Len(Tr(d))
  PROVE  /\ RunOf(d, k) \in 1..Len(d.segs) /\ d.segs[RunOf(d, k)].track = k
         /\ \A i \in 1..Len(d.segs) : d.segs[i].track = k => i = RunOf(d, k)
<1>1. \E i \in 1..Len(d.segs) : d.segs[i].track = k
  BY SheetOrder
<1>2. RunOf(d, k) \in 1..Len(d.segs) /\ d.segs[RunOf(d, k)].track = k
  BY <1>1 DEF RunOf
<1>3. ASSUME NEW i \in 1..Len(d.segs), d.segs[i].track = k
      PROVE  i = RunOf(d, k)
  <2>1. k # 0 /\ k \in Nat /\ ~(k < k) /\ Len(d.segs) \in Nat
    BY SheetType
  <2>2. i < RunOf(d, k) => d.segs[i].track < d.segs[RunOf(d, k)].track
    BY <1>2, <2>1, SheetOrder
  <2>3. RunOf(d, k) < i => d.segs[RunOf(d, k)].track < d.segs[i].track
    BY <1>2, <1>3, <2>1, SheetOrder
  <2>4. QED
    BY <1>2, <1>3, <2>1, <2>2, <2>3
<1>4. QED
  BY <1>2, <1>3

\* Tracks and their runs come in the same order.
LEMMA RunsInOrder ==
  ASSUME NEW d, Sheet(d), NEW k \in 1..Len(Tr(d)), NEW l \in 1..Len(Tr(d))
  PROVE  k < l <=> RunOf(d, k) < RunOf(d, l)
<1>1. /\ RunOf(d, k) \in 1..Len(d.segs) /\ d.segs[RunOf(d, k)].track = k
      /\ RunOf(d, l) \in 1..Len(d.segs) /\ d.segs[RunOf(d, l)].track = l
  BY RunOfIs
<1>2. k \in Nat /\ l \in Nat /\ k # 0 /\ l # 0 /\ Len(d.segs) \in Nat
  BY SheetType
<1>3. RunOf(d, k) < RunOf(d, l) => k < l
  BY <1>1, <1>2, TracksAscend
<1>4. RunOf(d, l) < RunOf(d, k) => l < k
  BY <1>1, <1>2, TracksAscend
<1>5. RunOf(d, k) \in Nat /\ RunOf(d, l) \in Nat
  BY <1>1, <1>2
<1>6. RunOf(d, k) = RunOf(d, l) => k = l
  BY <1>1
<1>7. QED
  BY <1>2, <1>3, <1>4, <1>5, <1>6

\* Runs come in the order of their files.
LEMMA FilesAscend ==
  ASSUME NEW d, Sheet(d)
  PROVE  /\ \A i, j \in 1..Len(d.segs) : i <= j => d.segs[i].file <= d.segs[j].file
         /\ \A i \in 1..Len(d.segs) : d.segs[i].file \in 1..Len(Files(d))
<1> DEFINE n == Len(d.segs)
           f == [i \in 1..n |-> d.segs[i].file]
<1>1. n \in Nat /\ n > 0 /\ \A i \in 1..n : f[i] = d.segs[i].file /\ f[i] \in Nat
  BY SheetParts
<1>2. \A i \in 1..(n - 1) : f[i] <= f[i + 1]
  <2> SUFFICES ASSUME NEW i \in 1..(n - 1) PROVE f[i] <= f[i + 1]
    OBVIOUS
  <2>1. i \in 1..n /\ i + 1 \in 1..n
    BY <1>1
  <2>2. Follows(d, i)
    BY SheetOrder
  <2>3. d.segs[i + 1].file = d.segs[i].file \/ d.segs[i + 1].file = d.segs[i].file + 1
    BY <2>2 DEF Follows
  <2> HIDE DEF f, n
  <2>4. QED
    BY <1>1, <2>1, <2>3
<1> HIDE DEF f
<1>3. \A i, j \in 1..n : i <= j => f[i] <= f[j]
  <2>1. \A i \in 1..n : f[i] \in Int
    BY <1>1
  <2>2. QED
    BY <1>1, <1>2, <2>1, Ascending
<1>4. f[1] = 1 /\ f[n] = Len(Files(d))
  BY <1>1, SheetOrder
<1>5. \A i \in 1..n : f[1] <= f[i] /\ f[i] <= f[n]
  <2>1. \A i \in 1..n : 1 \in 1..n /\ n \in 1..n /\ 1 <= i /\ i <= n
    BY <1>1
  <2>2. QED
    BY <1>3, <2>1
<1>6. Len(Files(d)) \in Nat
  BY SheetType
<1>7. QED
  BY <1>1, <1>3, <1>4, <1>5, <1>6

\* What comes before the head of a file belongs to an earlier file, so a file has one head.
LEMMA BeforeHead ==
  ASSUME NEW d, Sheet(d), NEW h \in 1..Len(d.segs), d.segs[h].pos = 0,
         NEW j \in 1..Len(d.segs), j < h
  PROVE  d.segs[j].file < d.segs[h].file
<1>1. Len(d.segs) \in Nat
  BY SheetParts
<1>2. h - 1 \in 1..(Len(d.segs) - 1) /\ h - 1 \in 1..Len(d.segs) /\ (h - 1) + 1 = h /\ j <= h - 1
  BY <1>1
<1>3. Follows(d, h - 1)
  BY <1>2, SheetOrder
<1>4. d.segs[h].file = d.segs[h - 1].file + 1
  BY <1>2, <1>3 DEF Follows
<1>5. d.segs[j].file <= d.segs[h - 1].file
  BY <1>2, FilesAscend
<1>6. d.segs[j].file \in Nat /\ d.segs[h - 1].file \in Nat
  BY <1>2, SheetParts
<1>7. QED
  BY <1>4, <1>5, <1>6

\* Every run has the head of its file at or before it.
LEMMA HeadExists ==
  ASSUME NEW d, Sheet(d), NEW i \in 1..Len(d.segs)
  PROVE  \E h \in 1..Len(d.segs) : h <= i /\ d.segs[h].file = d.segs[i].file /\ d.segs[h].pos = 0
<1> DEFINE Has(x) == \E h \in 1..Len(d.segs) :
                       h <= x /\ d.segs[h].file = d.segs[x].file /\ d.segs[h].pos = 0
           Bad == {x \in 1..Len(d.segs) : ~Has(x)}
<1>1. SUFFICES ASSUME Bad # {} PROVE FALSE
  OBVIOUS
<1>2. PICK x \in Bad : \A y \in Bad : x <= y
  <2>1. Bad \in SUBSET Nat
    OBVIOUS
  <2> HIDE DEF Bad
  <2>2. QED
    BY <1>1, <2>1, Least
<1>3. x \in 1..Len(d.segs) /\ ~Has(x) /\ Len(d.segs) \in Nat
  BY <1>2, SheetParts
<1>4. d.segs[x].pos # 0
  BY <1>3
<1>5. x # 1
  BY <1>4, SheetOrder
<1>6. /\ x - 1 \in 1..(Len(d.segs) - 1) /\ x - 1 \in 1..Len(d.segs) /\ (x - 1) + 1 = x
      /\ ~(x <= x - 1)
  BY <1>3, <1>5
<1>7. Follows(d, x - 1)
  BY <1>6, SheetOrder
<1>8. d.segs[x].file = d.segs[x - 1].file
  BY <1>4, <1>6, <1>7 DEF Follows
<1>9. Has(x - 1)
  BY <1>2, <1>6
<1>10. PICK h \in 1..Len(d.segs) : h <= x - 1 /\ d.segs[h].file = d.segs[x - 1].file /\ d.segs[h].pos = 0
  BY <1>9
<1>11. h <= x
  BY <1>3, <1>10
<1>12. QED
  BY <1>3, <1>8, <1>10, <1>11

\* Where a run lies, from the head of its file and from the run before it.
LEMMA RunPlaces ==
  ASSUME NEW d, Sheet(d), NEW i \in 1..Len(d.segs), NEW h \in 1..Len(d.segs),
         h <= i, d.segs[h].file = d.segs[i].file, d.segs[h].pos = 0
  PROVE  /\ d.segs[i].track # 0 => d.segs[i].first = d.segs[h].first + Tr(d)[d.segs[i].track].lba
         /\ d.segs[i].track = 0 => i = h
         /\ h < i => /\ i - 1 \in 1..Len(d.segs) /\ d.segs[i].track # 0
                     /\ d.segs[i - 1].file = d.segs[i].file
                     /\ d.segs[i].pos = EndOf(d.segs[i - 1])
                     /\ d.segs[i].first = d.segs[i - 1].first + d.segs[i - 1].count
                     /\ d.segs[i - 1].track = 0 => i - 1 = h /\ d.segs[h].size = d.segs[i].size
<1>1. Len(d.segs) \in Nat /\ d.segs[i].file \in Nat /\ d.segs[h].file \in Nat
  BY SheetParts
<1>2. d.segs[i].track # 0 => d.segs[i].first = d.segs[h].first + Tr(d)[d.segs[i].track].lba
  BY TrackRunFacts
<1>3. ASSUME h < i PROVE d.segs[i].pos # 0
  <2>1. d.segs[i].pos = 0 => d.segs[h].file < d.segs[i].file
    BY <1>3, BeforeHead
  <2>2. QED
    BY <1>1, <2>1
<1>4. d.segs[i].track = 0 => d.segs[i].pos = 0
  BY HeadRunFacts
<1>5. d.segs[i].track = 0 => i = h
  BY <1>1, <1>3, <1>4
<1>6. ASSUME h < i
      PROVE  /\ i - 1 \in 1..Len(d.segs) /\ d.segs[i].track # 0
             /\ d.segs[i - 1].file = d.segs[i].file
             /\ d.segs[i].pos = EndOf(d.segs[i - 1])
             /\ d.segs[i].first = d.segs[i - 1].first + d.segs[i - 1].count
             /\ d.segs[i - 1].track = 0 => i - 1 = h /\ d.segs[h].size = d.segs[i].size
  <2>1. /\ i - 1 \in 1..Len(d.segs) /\ i - 1 \in 1..(Len(d.segs) - 1) /\ (i - 1) + 1 = i
        /\ i - 1 < Len(d.segs) /\ h <= i - 1
    BY <1>1, <1>6
  <2>2. Follows(d, i - 1) /\ d.segs[i].first = d.segs[i - 1].first + d.segs[i - 1].count
    <3>1. Follows(d, i - 1) /\ d.segs[(i - 1) + 1].first = d.segs[i - 1].first + d.segs[i - 1].count
      BY <2>1, SheetOrder
    <3>2. QED
      BY <2>1, <3>1
  <2>3. d.segs[i - 1].file = d.segs[i].file /\ d.segs[i].pos = EndOf(d.segs[i - 1])
    BY <1>3, <1>6, <2>1, <2>2 DEF Follows
  <2>4. ASSUME d.segs[i - 1].track = 0 PROVE i - 1 = h /\ d.segs[h].size = d.segs[i].size
    <3>1. d.segs[i - 1].pos = 0
      BY <2>1, <2>4, HeadRunFacts
    <3>2. h < i - 1 => d.segs[h].file < d.segs[i - 1].file
      BY <2>1, <3>1, BeforeHead
    <3>3. i - 1 = h
      BY <1>1, <2>1, <2>3, <3>2
    <3>4. d.segs[i - 1].size = d.segs[(i - 1) + 1].size
      BY <2>1, <2>3, <2>4, HeadRunFacts
    <3>5. QED
      BY <2>1, <3>3, <3>4
  <2>5. d.segs[i].track # 0
    BY <1>1, <1>5, <1>6
  <2>6. QED
    BY <2>1, <2>2, <2>3, <2>4, <2>5
<1>7. QED
  BY <1>2, <1>5, <1>6

\* The offset the program computes for a track is where its run begins in the file.
LEMMA OffsetsTrue ==
  ASSUME NEW d, Sheet(d)
  PROVE  \A k \in 1..Len(Tr(d)) : CueOffsets(Tr(d))[k] = d.segs[RunOf(d, k)].pos
<1> DEFINE off == CueOffsets(Tr(d))
           Bad == {k \in 1..Len(Tr(d)) : off[k] # d.segs[RunOf(d, k)].pos}
<1>1. SUFFICES ASSUME Bad # {} PROVE FALSE
  OBVIOUS
<1>2. PICK k \in Bad : \A l \in Bad : k <= l
  <2>1. Bad \in SUBSET Nat
    OBVIOUS
  <2> HIDE DEF Bad
  <2>2. QED
    BY <1>1, <2>1, Least
<1>3. k \in 1..Len(Tr(d)) /\ off[k] # d.segs[RunOf(d, k)].pos
  BY <1>2
<1>4. \A l \in 1..Len(Tr(d)) : l < k => off[l] = d.segs[RunOf(d, l)].pos
  <2>1. \A l \in 1..Len(Tr(d)) : l < k => ~(k <= l)
    BY <1>3, SheetType
  <2>2. QED
    BY <1>2, <2>1
<1> HIDE DEF Bad
<1> DEFINE i == RunOf(d, k)
<1>5. i \in 1..Len(d.segs) /\ d.segs[i].track = k /\ k # 0 /\ k \in Nat
  BY <1>3, RunOfIs, SheetType
<1>6. off[k] = Offset(Tr(d), off, k)
  BY <1>3, CueOffsetsAre, SheetType
<1>7. PICK h \in 1..Len(d.segs) : h <= i /\ d.segs[h].file = d.segs[i].file /\ d.segs[h].pos = 0
  BY <1>5, HeadExists
<1> HIDE DEF off
<1>8. /\ d.segs[i].file = Tr(d)[k].file /\ d.segs[i].size = Mode(Tr(d)[k])
      /\ d.segs[i].first = d.segs[h].first + Tr(d)[k].lba
  <2> HIDE DEF i
  <2>1. d.segs[i].file = Tr(d)[k].file /\ d.segs[i].size = Mode(Tr(d)[k])
    BY <1>5, TrackRunIs
  <2>2. d.segs[i].first = d.segs[h].first + Tr(d)[k].lba
    <3>1. d.segs[i].track # 0 /\ d.segs[h].file = d.segs[i].file /\ d.segs[h].pos = 0
      BY <1>5, <1>7
    <3>2. d.segs[i].first = d.segs[h].first + Tr(d)[d.segs[i].track].lba
      BY <1>5, <3>1, TrackRunPlace
    <3>3. QED
      BY <1>5, <3>2
  <2>3. QED
    BY <2>1, <2>2
<1>9. /\ d.segs[i].first \in Nat /\ d.segs[h].first \in Nat /\ d.segs[h].count \in Nat
      /\ Tr(d)[k].lba \in Nat /\ Mode(Tr(d)[k]) \in Nat /\ Len(d.segs) \in Nat
      /\ i \in Nat /\ h \in Nat
  <2>1. Tr(d)[k].lba \in Nat /\ Mode(Tr(d)[k]) \in {2048, 2352}
    BY <1>3, TrackNat
  <2>2. d.segs[i].first \in Nat /\ Len(d.segs) \in Nat /\ i \in Nat
    BY <1>5, SegNat
  <2>3. d.segs[h].first \in Nat /\ d.segs[h].count \in Nat /\ h \in Nat
    BY SegNat
  <2>4. QED
    BY <2>1, <2>2, <2>3
\* The runs of the tracks before k in its file lie between the head and run i.
<1>10. ASSUME NEW p \in Before(Tr(d), k)
       PROVE  /\ p \in 1..Len(Tr(d)) /\ p < k /\ RunOf(d, p) < i /\ h <= RunOf(d, p)
              /\ RunOf(d, p) \in 1..Len(d.segs) /\ d.segs[RunOf(d, p)].track = p /\ p # 0
  <2>1. p \in 1..Len(Tr(d)) /\ p < k /\ Tr(d)[p].file = Tr(d)[k].file /\ p # 0
    BY <1>3, SheetType DEF Before
  <2>2. RunOf(d, p) \in 1..Len(d.segs) /\ d.segs[RunOf(d, p)].track = p /\ RunOf(d, p) < i
    BY <1>3, <2>1, RunOfIs, RunsInOrder
  <2>3. d.segs[RunOf(d, p)].file = d.segs[h].file
    <3>1. d.segs[RunOf(d, p)].file = Tr(d)[p].file
      BY <2>1, <2>2, TrackRunIs
    <3>2. QED
      BY <1>7, <1>8, <2>1, <3>1
  <2>4. RunOf(d, p) < h => d.segs[RunOf(d, p)].file < d.segs[h].file
    BY <1>7, <2>2, BeforeHead
  <2>5. d.segs[h].file \in Nat
    BY SheetParts
  <2>6. QED
    BY <1>9, <2>1, <2>2, <2>3, <2>4, <2>5
<1>11. CASE h = i
  <2>1. Before(Tr(d), k) = {}
    BY <1>9, <1>10, <1>11
  <2>2. Tr(d)[k].lba = 0
    BY <1>8, <1>9, <1>11
  <2>3. off[k] = Tr(d)[k].lba * Mode(Tr(d)[k])
    BY <1>6, <2>1 DEF Offset
  <2>4. QED
    BY <1>3, <1>7, <1>9, <1>11, <2>2, <2>3
<1>12. CASE h < i
  <2>1. /\ i - 1 \in 1..Len(d.segs) /\ d.segs[i - 1].file = d.segs[i].file
        /\ d.segs[i].pos = EndOf(d.segs[i - 1])
        /\ d.segs[i].first = d.segs[i - 1].first + d.segs[i - 1].count
        /\ d.segs[i - 1].track = 0 => i - 1 = h /\ d.segs[h].size = d.segs[i].size
    BY <1>5, <1>7, <1>12, RunPlaces
  <2>2. EndOf(d.segs[i - 1]) = d.segs[i - 1].pos + d.segs[i - 1].count * d.segs[i - 1].size
    BY <2>1, SheetSizes
  <2>3. CASE d.segs[i - 1].track = 0
    <3>1. i - 1 = h /\ d.segs[h].size = Mode(Tr(d)[k])
      BY <1>8, <2>1, <2>3
    <3>2. Before(Tr(d), k) = {}
      <4> SUFFICES ASSUME NEW p \in Before(Tr(d), k) PROVE FALSE
        OBVIOUS
      <4>1. RunOf(d, p) = h
        BY <1>5, <1>9, <1>10, <3>1
      <4>2. QED
        BY <1>10, <2>3, <3>1, <4>1
    <3>3. off[k] = Tr(d)[k].lba * Mode(Tr(d)[k])
      BY <1>6, <3>2 DEF Offset
    <3>4. d.segs[h].count = Tr(d)[k].lba
      BY <1>8, <1>9, <2>1, <3>1
    <3>5. d.segs[i].pos = d.segs[h].count * Mode(Tr(d)[k])
      BY <1>7, <1>9, <2>1, <2>2, <3>1
    <3>6. QED
      BY <1>3, <3>3, <3>4, <3>5
  <2>4. CASE d.segs[i - 1].track # 0
    <3> DEFINE q == d.segs[i - 1].track
    <3>1. q \in 1..Len(Tr(d)) /\ d.segs[i - 1].size = Mode(Tr(d)[q]) /\ d.segs[i - 1].file = Tr(d)[q].file
          /\ d.segs[i - 1].first = d.segs[h].first + Tr(d)[q].lba
      <4>1. i - 1 \in 1..Len(d.segs) /\ d.segs[i - 1].track = q /\ q # 0
        BY <2>1, <2>4
      <4>2. d.segs[h].file = d.segs[i - 1].file /\ d.segs[h].pos = 0
        BY <1>7, <2>1
      <4> HIDE DEF q
      <4>3. q \in 1..Len(Tr(d)) /\ d.segs[i - 1].size = Mode(Tr(d)[q])
            /\ d.segs[i - 1].file = Tr(d)[q].file
        BY <4>1, TrackRunIs
      <4>4. d.segs[i - 1].first = d.segs[h].first + Tr(d)[q].lba
        <5>1. d.segs[i - 1].first = d.segs[h].first + Tr(d)[d.segs[i - 1].track].lba
          <6> DEFINE r == i - 1
          <6>1. r \in 1..Len(d.segs) /\ d.segs[r].track # 0 /\ d.segs[h].file = d.segs[r].file
            BY <4>1, <4>2
          <6> HIDE DEF r
          <6>2. d.segs[r].first = d.segs[h].first + Tr(d)[d.segs[r].track].lba
            BY <4>2, <6>1, TrackRunPlace
          <6>3. QED
            BY <6>2 DEF r
        <5>2. QED
          BY <4>1, <5>1
      <4>5. QED
        BY <4>3, <4>4
    <3>2. RunOf(d, q) = i - 1
      BY <2>1, <3>1, RunOfIs
    <3> HIDE DEF q
    <3>3. q < k
      <4>1. RunOf(d, q) < RunOf(d, k)
        BY <1>5, <1>9, <3>2
      <4>2. QED
        BY <1>3, <3>1, <4>1, RunsInOrder
    <3>4. q \in Before(Tr(d), k)
      BY <1>5, <1>8, <2>1, <3>1, <3>3 DEF Before
    <3>5. \A p \in Before(Tr(d), k) : p <= q
      <4> SUFFICES ASSUME NEW p \in Before(Tr(d), k) PROVE p <= q
        OBVIOUS
      <4>1. p \in 1..Len(Tr(d)) /\ ~(RunOf(d, q) < RunOf(d, p))
        BY <1>5, <1>9, <1>10, <3>2
      <4>2. ~(q < p)
        BY <3>1, <4>1, RunsInOrder
      <4>3. QED
        BY <3>1, <4>1, <4>2, SheetType
    <3>6. Max(Before(Tr(d), k)) = q
      <4>1. k - 1 \in Nat /\ Before(Tr(d), k) \in SUBSET (1..(k - 1)) /\ Before(Tr(d), k) # {}
        BY <1>3, <1>5, <3>4 DEF Before
      <4>2. Max(Before(Tr(d), k)) \in Before(Tr(d), k) /\ Max(Before(Tr(d), k)) >= q
        BY <3>4, <4>1, Greatest
      <4>3. Max(Before(Tr(d), k)) <= q
        BY <3>5, <4>2
      <4>4. Max(Before(Tr(d), k)) \in Nat /\ q \in Nat
        BY <3>1, <4>1, <4>2
      <4>5. QED
        BY <4>2, <4>3, <4>4
    <3>7. d.segs[i - 1].first \in Nat /\ d.segs[i - 1].count \in Nat /\ d.segs[i - 1].pos \in Nat
          /\ Tr(d)[q].lba \in Nat
      <4>1. Tr(d)[q].lba \in Nat
        BY <3>1, TrackNat
      <4>2. QED
        BY <2>1, <4>1, SegNat
    <3>8. Tr(d)[k].lba - Tr(d)[q].lba = d.segs[i - 1].count /\ Tr(d)[k].lba >= Tr(d)[q].lba
      <4>1. d.segs[h].first + Tr(d)[k].lba = (d.segs[h].first + Tr(d)[q].lba) + d.segs[i - 1].count
        BY <1>8, <2>1, <3>1, Zenon
      <4>2. /\ d.segs[h].first \in Nat /\ Tr(d)[k].lba \in Nat /\ Tr(d)[q].lba \in Nat
            /\ d.segs[i - 1].count \in Nat
        BY <1>9, <3>7
      <4>3. QED
        BY <4>1, <4>2, Difference, SMTT(30)
    <3>9. off[k] = off[q] + (Tr(d)[k].lba - Tr(d)[q].lba) * Mode(Tr(d)[q])
      BY <1>6, <3>4, <3>6, <3>8 DEF Offset
    <3>10. off[q] = d.segs[i - 1].pos
      BY <1>4, <3>1, <3>2, <3>3
    <3>11. off[k] = d.segs[i].pos
      BY <2>1, <2>2, <3>1, <3>8, <3>9, <3>10
    <3>12. QED
      BY <1>3, <3>11
  <2>5. QED
    BY <2>3, <2>4
<1>13. QED
  BY <1>5, <1>7, <1>9, <1>11, <1>12

\* A count of frames of 2048 bytes.
LEMMA Frames2048 ==
  ASSUME NEW c \in Nat PROVE (c * 2048) \div 2048 = c
OBVIOUS

\* A count of frames of 2352 bytes.
LEMMA Frames2352 ==
  ASSUME NEW c \in Nat PROVE (c * 2352) \div 2352 = c
OBVIOUS

\* A count of frames, from their bytes.
LEMMA FramesOf ==
  ASSUME NEW c \in Nat, NEW m \in {2048, 2352}, NEW p \in Nat
  PROVE  ((p + c * m) - p) \div m = c
<1>1. (p + c * m) - p = c * m
  BY m \in {2048, 2352}
<1>2. CASE m = 2048
  BY <1>1, <1>2, Frames2048
<1>3. CASE m = 2352
  BY <1>1, <1>3, Frames2352
<1>4. QED
  BY <1>2, <1>3

\* The tracks of file f.
OwnTracks(d, f) == {k \in DOMAIN Tr(d) : Tr(d)[k].file = f}

\* The frames of a file, in terms of the last track in it.
LEMMA CueFramesIs ==
  ASSUME NEW d, Sheet(d), NEW f \in 1..Len(Files(d))
  PROVE  CueFramesOf(d, f) =
           IF OwnTracks(d, f) = {} THEN d.files[f].size \div Mode(Tr(d)[1])
           ELSE LET t == Max(OwnTracks(d, f))
                IN  IF d.files[f].size > CueOffsets(Tr(d))[t]
                    THEN Tr(d)[t].lba + (d.files[f].size - CueOffsets(Tr(d))[t]) \div Mode(Tr(d)[t])
                    ELSE 0
<1>1. Files(d)[f] = f
  BY SheetType
<1>2. QED
  BY <1>1, Zenon DEF CueFramesOf, CueFrames, OwnTracks, Mode, Tr, Files

\* The last track of a file.
LEMMA OwnMax ==
  ASSUME NEW d, Sheet(d), NEW f, OwnTracks(d, f) # {}
  PROVE  /\ Max(OwnTracks(d, f)) \in 1..Len(Tr(d)) /\ Tr(d)[Max(OwnTracks(d, f))].file = f
         /\ \A k \in 1..Len(Tr(d)) : Tr(d)[k].file = f => k <= Max(OwnTracks(d, f))
<1>1. Len(Tr(d)) \in Nat /\ DOMAIN Tr(d) = 1..Len(Tr(d))
  BY SheetType
<1>2. OwnTracks(d, f) \in SUBSET (1..Len(Tr(d)))
  BY <1>1 DEF OwnTracks
<1>3. Max(OwnTracks(d, f)) \in OwnTracks(d, f) /\ \A k \in OwnTracks(d, f) : Max(OwnTracks(d, f)) >= k
  BY <1>1, <1>2, Greatest
<1>4. \A k \in OwnTracks(d, f) : k \in 1..Len(Tr(d)) /\ k \in Nat
  BY <1>2
<1>5. QED
  BY <1>1, <1>3, <1>4 DEF OwnTracks

\* The frames of a file are a number.
LEMMA CueFramesInt ==
  ASSUME NEW d, Sheet(d), NEW f \in 1..Len(Files(d))
  PROVE  CueFramesOf(d, f) \in Int
<1> DEFINE t == Max(OwnTracks(d, f))
<1>1. d.files[f].size \in Nat
  BY SheetType
<1>2. \A k : Mode(Tr(d)[k]) \in {2048, 2352}
  BY DEF Mode, cdimage_mode_for_cue_format
<1>3. \A x \in Int, m \in {2048, 2352} : x \div m \in Int
  OBVIOUS
<1>4. CASE OwnTracks(d, f) = {}
  <2>1. CueFramesOf(d, f) = d.files[f].size \div Mode(Tr(d)[1])
    BY <1>4, CueFramesIs
  <2>2. d.files[f].size \in Int
    BY <1>1
  <2>3. QED
    BY <1>2, <1>3, <2>1, <2>2
<1>5. CASE OwnTracks(d, f) # {}
  <2>1. t \in 1..Len(Tr(d))
    BY <1>5, OwnMax
  <2>2. CueOffsets(Tr(d))[t] \in Int
    <3>1. Tr(d) \in Seq(CueTrack)
      BY SheetType
    <3>2. QED
      BY <2>1, <3>1, CueOffsetsAre
  <2>3. Tr(d)[t].lba \in Nat
    BY <2>1, TrackNat
  <2>4. d.files[f].size - CueOffsets(Tr(d))[t] \in Int
    BY <1>1, <2>2
  <2>5. (d.files[f].size - CueOffsets(Tr(d))[t]) \div Mode(Tr(d)[t]) \in Int
    BY <1>2, <1>3, <2>4
  <2>6. Tr(d)[t].lba + (d.files[f].size - CueOffsets(Tr(d))[t]) \div Mode(Tr(d)[t]) \in Int
    BY <2>3, <2>5
  <2>7. CueFramesOf(d, f) = IF d.files[f].size > CueOffsets(Tr(d))[t]
          THEN Tr(d)[t].lba + (d.files[f].size - CueOffsets(Tr(d))[t]) \div Mode(Tr(d)[t])
          ELSE 0
    BY <1>5, CueFramesIs
  <2> HIDE DEF t
  <2>8. QED
    BY <2>6, <2>7
<1>6. QED
  BY <1>4, <1>5

\* h is the first run of file f and j its last.
FileRuns(d, f, h, j) ==
  /\ h \in 1..Len(d.segs) /\ j \in 1..Len(d.segs) /\ h <= j
  /\ d.segs[h].file = f /\ d.segs[h].pos = 0 /\ d.segs[j].file = f
  /\ EndOf(d.segs[j]) = d.files[f].size
  /\ j < Len(d.segs) => d.segs[j + 1].file = f + 1 /\ d.segs[j + 1].pos = 0

\* The frames the program counts in a file are those from its first run to its last.
LEMMA FramesTrue ==
  ASSUME NEW d, Sheet(d), NEW f \in 1..Len(Files(d)), NEW h, NEW j, FileRuns(d, f, h, j)
  PROVE  CueFramesOf(d, f) = d.segs[j].first + d.segs[j].count - d.segs[h].first
<1> DEFINE own == OwnTracks(d, f)
           t == Max(own)
<1>1. /\ h \in 1..Len(d.segs) /\ j \in 1..Len(d.segs) /\ h <= j
      /\ d.segs[h].file = f /\ d.segs[h].pos = 0 /\ d.segs[j].file = f
      /\ EndOf(d.segs[j]) = d.files[f].size
      /\ j < Len(d.segs) => d.segs[j + 1].file = f + 1 /\ d.segs[j + 1].pos = 0
  BY DEF FileRuns
<1>2. /\ d.segs[j].first \in Nat /\ d.segs[j].count \in Nat /\ d.segs[j].pos \in Nat /\ d.segs[j].file \in Nat
      /\ Len(d.segs) \in Nat /\ j \in Nat
  BY <1>1, SegNat
<1>3. d.segs[h].first \in Nat /\ h \in Nat
  BY <1>1, SegNat
<1>4. /\ EndOf(d.segs[j]) = d.segs[j].pos + d.segs[j].count * d.segs[j].size
      /\ d.segs[j].size \in {2048, 2352} /\ EndOf(d.segs[j]) > d.segs[j].pos
  BY <1>1, SheetSizes
<1>5. d.segs[j].track = 0 => j = h
  BY <1>1, RunPlaces
<1>6. CASE own = {}
  <2>1. d.segs[j].track = 0
    <3> SUFFICES ASSUME d.segs[j].track # 0 PROVE FALSE
      OBVIOUS
    <3>1. d.segs[j].track \in 1..Len(Tr(d)) /\ Tr(d)[d.segs[j].track].file = f
      BY <1>1, TrackRunFacts
    <3>2. DOMAIN Tr(d) = 1..Len(Tr(d))
      BY SheetType
    <3>3. d.segs[j].track \in OwnTracks(d, f)
      BY <3>1, <3>2, Zenon DEF OwnTracks
    <3>4. QED
      BY <1>6, <3>3, Zenon
  <2>2. ~(j < Len(d.segs) /\ d.segs[j + 1].file = d.segs[j].file)
    BY <1>1, <1>2
  <2>3. d.segs[j].size = Mode(Tr(d)[1])
    BY <1>1, <2>1, <2>2, HeadRunFacts
  <2>4. d.segs[j].pos = 0
    BY <1>1, <1>5, <2>1
  <2>5. CueFramesOf(d, f) = d.files[f].size \div Mode(Tr(d)[1])
    BY <1>6, CueFramesIs
  <2>6. CueFramesOf(d, f) = (0 + d.segs[j].count * d.segs[j].size) \div d.segs[j].size
    <3>1. d.files[f].size = 0 + d.segs[j].count * d.segs[j].size
      BY <1>1, <1>4, <2>4
    <3>2. QED
      BY <2>3, <2>5, <3>1
  <2>7. ((0 + d.segs[j].count * d.segs[j].size) - 0) \div d.segs[j].size = d.segs[j].count
    <3>1. d.segs[j].count \in Nat /\ d.segs[j].size \in {2048, 2352}
      BY <1>2, <1>4
    <3> DEFINE c == d.segs[j].count
               m == d.segs[j].size
    <3> HIDE DEF c, m
    <3>2. c \in Nat /\ m \in {2048, 2352}
      BY <3>1 DEF c, m
    <3>3. ((0 + c * m) - 0) \div m = c
      BY <3>2, FramesOf
    <3>4. QED
      BY <3>3 DEF c, m
  <2>8. d.segs[j].count * d.segs[j].size \in Int
    <3>1. \A c \in Nat, m \in {2048, 2352} : c * m \in Int
      OBVIOUS
    <3>2. d.segs[j].count \in Nat /\ d.segs[j].size \in {2048, 2352}
      BY <1>2, <1>4
    <3>3. QED
      BY <3>1, <3>2
  <2>9. CueFramesOf(d, f) = d.segs[j].count
    BY <2>6, <2>7, <2>8
  <2>10. d.segs[j].first = d.segs[h].first
    BY <1>5, <2>1
  <2>11. QED
    BY <1>2, <1>3, <2>9, <2>10
<1>7. CASE own # {}
  <2>1. t \in 1..Len(Tr(d)) /\ Tr(d)[t].file = f /\ \A k \in 1..Len(Tr(d)) : Tr(d)[k].file = f => k <= t
    BY <1>7, OwnMax
  <2>2. /\ RunOf(d, t) \in 1..Len(d.segs) /\ d.segs[RunOf(d, t)].track = t /\ t # 0 /\ t \in Nat
    BY <2>1, RunOfIs, SheetType
  <2>3. d.segs[RunOf(d, t)].file = f
    BY <2>1, <2>2, TrackRunFacts
  <2> HIDE DEF own, t
\* The run of the last track is neither before the head nor after the last run.
  <2>4. RunOf(d, t) <= j
    <3> SUFFICES ASSUME j < RunOf(d, t) PROVE FALSE
      BY <1>2, <2>2
    <3>1. j < Len(d.segs) /\ j + 1 \in 1..Len(d.segs) /\ j + 1 <= RunOf(d, t)
      BY <1>2, <2>2
    <3>2. d.segs[j + 1].file <= d.segs[RunOf(d, t)].file
      BY <2>2, <3>1, FilesAscend
    <3>3. QED
      BY <1>1, <1>2, <2>3, <3>1, <3>2
  <2>5. h <= RunOf(d, t)
    <3>1. RunOf(d, t) < h => d.segs[RunOf(d, t)].file < d.segs[h].file
      BY <1>1, <2>2, BeforeHead
    <3>2. RunOf(d, t) \in Nat
      BY <2>2
    <3>3. QED
      BY <1>1, <1>2, <1>3, <2>3, <3>1, <3>2
  <2>6. d.segs[j].track # 0
    <3> SUFFICES ASSUME d.segs[j].track = 0 PROVE FALSE
      OBVIOUS
    <3>1. RunOf(d, t) = j
      BY <1>2, <1>3, <1>5, <2>2, <2>4, <2>5
    <3>2. QED
      BY <2>2, <3>1
  <2>7. d.segs[j].track = t
    <3> DEFINE q == d.segs[j].track
    <3>1. q \in 1..Len(Tr(d)) /\ Tr(d)[q].file = f
      BY <1>1, <2>6, TrackRunFacts
    <3>2. q <= t
      BY <2>1, <3>1
    <3>3. RunOf(d, q) = j
      BY <1>1, <3>1, RunOfIs
    <3> HIDE DEF q
    <3>4. ~(RunOf(d, q) < RunOf(d, t))
      BY <1>2, <2>2, <2>4, <3>3
    <3>5. ~(q < t)
      BY <2>1, <3>1, <3>4, RunsInOrder
    <3>6. q = t
      BY <2>2, <3>1, <3>2, <3>5
    <3>7. QED
      BY <3>6 DEF q
  <2>8. RunOf(d, t) = j
    BY <1>1, <2>1, <2>7, RunOfIs
  <2>9. CueOffsets(Tr(d))[t] = d.segs[j].pos
    BY <2>1, <2>8, OffsetsTrue
  <2>10. d.segs[j].size = Mode(Tr(d)[t])
    BY <1>1, <2>6, <2>7, TrackRunFacts
  <2>11. d.segs[j].first = d.segs[h].first + Tr(d)[t].lba
    BY <1>1, <2>6, <2>7, RunPlaces
  <2>12. CueFramesOf(d, f) = IF d.files[f].size > CueOffsets(Tr(d))[t]
           THEN Tr(d)[t].lba + (d.files[f].size - CueOffsets(Tr(d))[t]) \div Mode(Tr(d)[t])
           ELSE 0
    BY <1>7, CueFramesIs DEF own, t
  <2>13. CueFramesOf(d, f) = Tr(d)[t].lba
           + ((d.segs[j].pos + d.segs[j].count * d.segs[j].size) - d.segs[j].pos) \div d.segs[j].size
    <3>1. d.files[f].size = d.segs[j].pos + d.segs[j].count * d.segs[j].size
      BY <1>1, <1>4
    <3>2. d.files[f].size > CueOffsets(Tr(d))[t]
      BY <1>1, <1>4, <2>9
    <3>3. CueFramesOf(d, f)
            = Tr(d)[t].lba + (d.files[f].size - CueOffsets(Tr(d))[t]) \div Mode(Tr(d)[t])
      BY <2>12, <3>2
    <3>4. d.files[f].size - CueOffsets(Tr(d))[t]
            = (d.segs[j].pos + d.segs[j].count * d.segs[j].size) - d.segs[j].pos
      BY <2>9, <3>1, Zenon
    <3>5. QED
      BY <2>10, <3>3, <3>4
  <2>14. CueFramesOf(d, f) = Tr(d)[t].lba + d.segs[j].count
    <3>1. ((d.segs[j].pos + d.segs[j].count * d.segs[j].size) - d.segs[j].pos) \div d.segs[j].size
            = d.segs[j].count
      <4>1. d.segs[j].count \in Nat /\ d.segs[j].size \in {2048, 2352} /\ d.segs[j].pos \in Nat
        BY <1>2, <1>4
      <4> DEFINE c == d.segs[j].count
                 m == d.segs[j].size
                 p == d.segs[j].pos
      <4> HIDE DEF c, m, p
      <4>2. c \in Nat /\ m \in {2048, 2352} /\ p \in Nat
        BY <4>1 DEF c, m, p
      <4>3. ((p + c * m) - p) \div m = c
        BY <4>2, FramesOf
      <4>4. QED
        BY <4>3 DEF c, m, p
    <3>2. QED
      BY <2>13, <3>1, Zenon
  <2>15. Tr(d)[t].lba \in Nat
    BY <2>1, TrackNat
  <2>16. QED
    <3>1. (d.segs[h].first + Tr(d)[t].lba) + d.segs[j].count - d.segs[h].first
            = Tr(d)[t].lba + d.segs[j].count
      <4>1. d.segs[h].first \in Nat /\ d.segs[j].count \in Nat
        BY <1>2, <1>3
      <4> DEFINE a == d.segs[h].first
                 x == Tr(d)[t].lba
                 c == d.segs[j].count
      <4> HIDE DEF a, x, c
      <4>2. a \in Nat /\ x \in Nat /\ c \in Nat
        BY <2>15, <4>1 DEF a, x, c
      <4>3. (a + x) + c - a = x + c
        BY <4>2, Cancel
      <4>4. QED
        BY <4>3 DEF a, x, c
    <3>2. QED
      BY <2>11, <2>14, <3>1
<1>8. QED
  BY <1>6, <1>7

\* Every head of a file has that file's last run.
LEMMA LastExists ==
  ASSUME NEW d, Sheet(d), NEW f \in 1..Len(Files(d)), NEW h \in 1..Len(d.segs),
         d.segs[h].file = f, d.segs[h].pos = 0
  PROVE  \E j : FileRuns(d, f, h, j)
<1> DEFINE S == {i \in 1..Len(d.segs) : d.segs[i].file = f}
           j == Max(S)
<1>1. Len(d.segs) \in Nat /\ h \in S /\ S \in SUBSET (1..Len(d.segs))
  BY SheetParts
<1>2. j \in S /\ \A i \in S : j >= i
  <2> HIDE DEF S
  <2>1. QED
    BY <1>1, Greatest
<1>3. j \in 1..Len(d.segs) /\ d.segs[j].file = f /\ h <= j
  BY <1>1, <1>2
<1>4. \A i \in 1..Len(d.segs) : d.segs[i].file = f => i <= j
  BY <1>2
<1> HIDE DEF j, S
<1>5. CASE j < Len(d.segs)
  <2>1. j \in 1..(Len(d.segs) - 1) /\ j + 1 \in 1..Len(d.segs) /\ ~(j + 1 <= j)
    BY <1>1, <1>3, <1>5
  <2>2. Follows(d, j)
    BY <2>1, SheetOrder
  <2>3. d.segs[j + 1].file # f
    BY <1>4, <2>1
  <2>4. d.segs[j + 1].file = f + 1 /\ d.segs[j + 1].pos = 0 /\ EndOf(d.segs[j]) = d.files[f].size
    BY <1>3, <2>2, <2>3 DEF Follows
  <2>5. QED
    BY <1>3, <2>4 DEF FileRuns
<1>6. CASE ~(j < Len(d.segs))
  <2>1. j = Len(d.segs)
    BY <1>1, <1>3, <1>6
  <2>2. EndOf(d.segs[j]) = d.files[Len(Files(d))].size /\ d.segs[j].file = Len(Files(d))
    BY <2>1, SheetOrder
  <2>3. QED
    BY <1>3, <1>6, <2>2 DEF FileRuns
<1>7. QED
  BY <1>5, <1>6

\* Each file begins where the program says, and the disc ends there.
LEMMA BasesTrue ==
  ASSUME NEW d, Sheet(d)
  PROVE  /\ \A f \in 1..Len(Files(d)) : \E h \in 1..Len(d.segs) :
              d.segs[h].file = f /\ d.segs[h].pos = 0 /\ d.segs[h].first = CueBases(d)[f]
         /\ CueBases(d)[Len(Files(d)) + 1] = d.segs[Len(d.segs)].first + d.segs[Len(d.segs)].count
<1> DEFINE n == Len(Files(d))
           Is(f, h) == d.segs[h].file = f /\ d.segs[h].pos = 0 /\ d.segs[h].first = CueBases(d)[f]
           Good(f) == \E h \in 1..Len(d.segs) : Is(f, h)
           Bad == {f \in 1..n : ~Good(f)}
<1>1. n \in Nat /\ n > 0 /\ Len(d.segs) \in Nat /\ Len(d.segs) > 0
  BY SheetType
<1>2. CueBases(d)[1] = 0 /\ \A f \in 1..n : CueBases(d)[f + 1] = CueBases(d)[f] + CueFramesOf(d, f)
  <2>1. \A f \in 1..Len(cue_get(d).files) : CueFramesOf(d, f) \in Int
    BY CueFramesInt DEF Files
  <2>2. Len(cue_get(d).files) \in Nat
    BY <1>1 DEF Files
  <2>3. QED
    BY <2>1, <2>2, CueBasesAre DEF Files
<1> HIDE DEF n
\* The end of a file, once its beginning is right.
<1>3. ASSUME NEW f \in 1..n, NEW h \in 1..Len(d.segs), Is(f, h), NEW j, FileRuns(d, f, h, j)
      PROVE  CueBases(d)[f + 1] = d.segs[j].first + d.segs[j].count
  <2>1. CueFramesOf(d, f) = d.segs[j].first + d.segs[j].count - d.segs[h].first
    BY <1>3, FramesTrue DEF n
  <2>2. CueBases(d)[f + 1] = d.segs[h].first + CueFramesOf(d, f)
    BY <1>2, <1>3
  <2>3. d.segs[h].first \in Nat
    BY <1>3, SegNat
  <2>4. d.segs[j].first \in Nat /\ d.segs[j].count \in Nat
    BY <1>3, SegNat DEF FileRuns
  <2>5. d.segs[h].first + (d.segs[j].first + d.segs[j].count - d.segs[h].first)
          = d.segs[j].first + d.segs[j].count
    BY <2>3, <2>4, Cancel
  <2>6. QED
    BY <2>1, <2>2, <2>5, Zenon
<1>4. Bad = {}
  <2> SUFFICES ASSUME Bad # {} PROVE FALSE
    OBVIOUS
  <2>1. PICK f \in Bad : \A e \in Bad : f <= e
    <3>1. Bad \in SUBSET Nat
      BY <1>1
    <3> HIDE DEF Bad
    <3>2. QED
      BY <3>1, Least
  <2>2. f \in 1..n /\ ~Good(f)
    BY <2>1
  <2>3. f # 1
    <3>1. Is(1, 1)
      BY <1>2, SheetOrder
    <3>2. QED
      BY <1>1, <2>2, <3>1
  <2>4. f - 1 \in 1..n /\ ~(f <= f - 1) /\ (f - 1) + 1 = f /\ f - 1 < n
    BY <1>1, <2>2, <2>3
  <2>5. Good(f - 1)
    BY <2>1, <2>4
  <2> HIDE DEF Bad
  <2>6. PICK h \in 1..Len(d.segs) : Is(f - 1, h)
    BY <2>5
  <2>7. PICK j : FileRuns(d, f - 1, h, j)
    BY <2>4, <2>6, LastExists DEF n
  <2>8. CueBases(d)[f] = d.segs[j].first + d.segs[j].count
    BY <1>3, <2>4, <2>6, <2>7
  <2>9. j \in 1..Len(d.segs) /\ d.segs[j].file = f - 1
    BY <2>7 DEF FileRuns
  <2>10. j # Len(d.segs)
    BY <2>2, <2>4, <2>9, SheetOrder DEF n
  <2>11. j < Len(d.segs) /\ j \in 1..(Len(d.segs) - 1) /\ j + 1 \in 1..Len(d.segs)
    BY <1>1, <2>9, <2>10
  <2>12. d.segs[j + 1].file = (f - 1) + 1 /\ d.segs[j + 1].pos = 0
    BY <2>7, <2>11 DEF FileRuns
  <2>13. d.segs[j + 1].first = d.segs[j].first + d.segs[j].count
    BY <2>11, SheetOrder
  <2>14. Is(f, j + 1)
    BY <2>4, <2>8, <2>12, <2>13
  <2>15. QED
    BY <2>2, <2>11, <2>14
<1>5. CueBases(d)[n + 1] = d.segs[Len(d.segs)].first + d.segs[Len(d.segs)].count
  <2>1. n \in 1..n
    BY <1>1
  <2>2. PICK h \in 1..Len(d.segs) : Is(n, h)
    BY <1>4, <2>1
  <2>3. PICK j : FileRuns(d, n, h, j)
    BY <2>1, <2>2, LastExists DEF n
  <2>4. j \in 1..Len(d.segs) /\ (j < Len(d.segs) => d.segs[j + 1].file = n + 1)
    BY <2>3 DEF FileRuns
  <2>5. j = Len(d.segs)
    <3> SUFFICES ASSUME j < Len(d.segs) PROVE FALSE
      BY <1>1, <2>4
    <3>1. j + 1 \in 1..Len(d.segs)
      BY <1>1, <2>4
    <3>2. d.segs[j + 1].file \in 1..n
      BY <3>1, FilesAscend DEF n
    <3>3. QED
      BY <1>1, <2>4, <3>2
  <2>6. QED
    BY <1>3, <2>1, <2>2, <2>3, <2>5
<1>6. QED
  BY <1>4, <1>5 DEF n

\* Each track starts where the program says.
LEMMA StartsTrue ==
  ASSUME NEW d, Sheet(d), NEW k \in 1..Len(Tr(d))
  PROVE  CueStart(d, k) = d.segs[RunOf(d, k)].first
<1> DEFINE i == RunOf(d, k)
<1>1. i \in 1..Len(d.segs) /\ d.segs[i].track = k /\ k # 0
  BY RunOfIs, SheetType
<1>2. d.segs[i].file = Tr(d)[k].file /\ d.segs[i].file \in 1..Len(Files(d))
  BY <1>1, TrackRunFacts, FilesAscend
<1>3. PICK h \in 1..Len(d.segs) : d.segs[h].file = Tr(d)[k].file /\ d.segs[h].pos = 0
                               /\ d.segs[h].first = CueBases(d)[Tr(d)[k].file]
  <2>1. \A f \in 1..Len(Files(d)) : \E h \in 1..Len(d.segs) :
          d.segs[h].file = f /\ d.segs[h].pos = 0 /\ d.segs[h].first = CueBases(d)[f]
    BY BasesTrue
  <2>2. Tr(d)[k].file \in 1..Len(Files(d))
    BY <1>2
  <2> HIDE DEF i
  <2>3. QED
    BY <2>1, <2>2
<1> HIDE DEF i
<1>31. d.segs[h].file = d.segs[i].file /\ d.segs[h].pos = 0 /\ d.segs[i].track # 0
  BY <1>1, <1>2, <1>3
<1>32. \A x \in 1..Len(d.segs) : d.segs[x].file = d.segs[i].file /\ d.segs[x].pos = 0
         => d.segs[i].first = d.segs[x].first + Tr(d)[d.segs[i].track].lba
  BY <1>1, <1>31, TrackRunFacts
<1>33. d.segs[i].first = d.segs[h].first + Tr(d)[d.segs[i].track].lba
  BY <1>31, <1>32
<1>4. d.segs[i].first = d.segs[h].first + Tr(d)[k].lba
  BY <1>1, <1>33
<1>5. CueStart(d, k) = CueBases(d)[Tr(d)[k].file] + Tr(d)[k].lba
  BY DEF CueStart, Tr
<1>6. QED
  BY <1>3, <1>4, <1>5 DEF i

-----------------------------------------------------------------------------
(* Opening.                                                                *)

\* The image of disc d with handles of generation g, and the file behind a handle.
\* A CHD's handle 0 is its decoder, which has no cached position.
Opened(d, g) == retro_cdimage_open(d, g, TRUE)
FileAt(d, f) == IF d.kind = "cue" THEN Files(d)[f] ELSE 1
HandleNames(d) ==
  IF d.kind = "cue" THEN DOMAIN Files(d) ELSE IF d.kind = "chd" THEN {0, 1} ELSE {1}
Handles(d, g)    == {<<g, f>> : f \in HandleNames(d)}
Positioned(d, f) == d.kind = "chd" => f = 1

Names ==
  {"fp", "fp_pos", "chd", "chd_pos", "decoder", "map", "sector_size", "sector_offset",
   "logical_blocks", "files", "tracks"}
Shape(img) == img = [x \in Names |-> img[x]]

IsoRaw(d)    == d.files[1].size % 2048 # 0 /\ d.files[1].size % 2352 = 0
IsoMode(d)   == IF IsoRaw(d) THEN 2352 ELSE 2048
IsoAudio(d)  == IsoRaw(d) /\ d.bin /\ ~d.scan
IsoOffset(d) == IF IsoRaw(d) /\ ~IsoAudio(d) THEN 16 ELSE 0

IsoTrack(d) ==
  [num |-> 1, file |-> 1, audio |-> IsoAudio(d), start_lba |-> 0,
   frames |-> d.files[1].size \div IsoMode(d), file_offset |-> 0, mode |-> IsoMode(d),
   offset |-> IsoOffset(d)]

\* The fields of an open image that never change.
IsoImage(img, d, g) ==
  /\ img.fp = <<g, 1>> /\ img.chd = None /\ img.decoder = None /\ img.files = <<>>
  /\ img.logical_blocks = d.files[1].size \div IsoMode(d) /\ img.tracks = <<IsoTrack(d)>>

CueImage(img, d, g) ==
  /\ img.fp = <<g, 1>> /\ img.chd = None /\ img.decoder = None
  /\ img.files = [f \in DOMAIN Files(d) |-> [fp |-> <<g, f>>, pos |-> img.files[f].pos]]
  /\ img.sector_size = cdimage_mode_for_cue_format(Tr(d)[1].format)
  /\ img.sector_offset = cdimage_offset_for_cue_format(Tr(d)[1].format)
  /\ img.logical_blocks = CueBases(d)[Len(Files(d)) + 1] /\ img.tracks = CueTracks(d)

ChdImage(img, d, g) ==
  /\ img.fp = None /\ img.chd = <<g, 1>> /\ img.decoder = <<g, 0>> /\ img.files = <<>>
  /\ img.map = ChdMap(d)
  /\ img.logical_blocks = ChdFirsts(d)[Len(d.tracks) + 1] /\ img.tracks = ChdTable(d)

Image(img, d, g) ==
  /\ Shape(img)
  /\ d.kind = "iso" => IsoImage(img, d, g)
  /\ d.kind = "cue" => CueImage(img, d, g)
  /\ d.kind = "chd" => ChdImage(img, d, g)

\* Image img is an opened d, whose streams are F.  A cached position is the stream's or -1.
Cached(img, d, f) ==
  CASE d.kind = "iso" -> img.fp_pos [] d.kind = "cue" -> img.files[f].pos [] d.kind = "chd" -> img.chd_pos

StreamOk(img, d, h, s) ==
  /\ s = [disc |-> d.name, file |-> FileAt(d, h[2]), at |-> s.at, size |-> d.files[FileAt(d, h[2])].size]
  /\ s.at \in Nat /\ (Positioned(d, h[2]) => Cached(img, d, h[2]) \in {-1, s.at})

Streams(d, g, img, F) == DOMAIN F = Handles(d, g) /\ \A h \in DOMAIN F : StreamOk(img, d, h, F[h])

Held(d, g, img, F) == Opened(d, g).img # Closed /\ Image(img, d, g) /\ Streams(d, g, img, F)

\* A closed image.
LEMMA ClosedIs ==
  /\ Shape(Closed) /\ DOMAIN Closed = Names /\ Closed.fp = None /\ Closed.fp_pos = -1 /\ Closed.chd = None
  /\ Closed.chd_pos = -1 /\ Closed.decoder = None /\ Closed.files = <<>>
BY DEF Closed, Names, Shape

\* An opening that leaves nothing behind.
Nothing(r) == r.img = Closed /\ DOMAIN r.fds = {}

\* Without the streams it closes, an image leaves none.
LEMMA WithoutOwn ==
  ASSUME NEW F, NEW S, S = DOMAIN F
  PROVE  DOMAIN Without(F, S) = {}
BY DEF Without

\* An ISO or BIN that opens is held by its disc, or nothing is open.
LEMMA IsoOpens ==
  ASSUME NEW d, d.kind = "iso", NEW g
  PROVE  LET o == Opened(d, g)
         IN  Nothing(o) \/ (Image(o.img, d, g) /\ o.img # Closed /\ Streams(d, g, o.img, o.fds))
<1> DEFINE o == Opened(d, g)
<1>1. o = retro_cdimage_open_iso(d, g)
  BY DEF retro_cdimage_open, Opened
<1>2. CASE ~d.files[1].ok
  <2>1. o = [img |-> Closed, fds |-> <<>>]
    BY <1>1, <1>2 DEF retro_cdimage_open_iso
  <2> HIDE DEF o
  <2>2. Nothing(o)
    BY <2>1 DEF Nothing
  <2>3. QED
    BY <2>2 DEF o
<1>3. CASE d.files[1].ok
  <2>1. /\ o.img = [Closed EXCEPT
                !.fp = <<g, 1>>, !.sector_size = IsoMode(d), !.sector_offset = IsoOffset(d),
                !.logical_blocks = d.files[1].size \div IsoMode(d), !.tracks = <<IsoTrack(d)>>]
        /\ o.fds = [h \in {<<g, 1>>} |-> Stream(d, 1, 0)]
    BY <1>1, <1>3 DEF retro_cdimage_open_iso, IsoTrack, IsoRaw, IsoMode, IsoAudio, IsoOffset
  <2> HIDE DEF o
  <2>2. Shape(o.img)
    BY <2>1, ClosedIs DEF Shape, Names
  <2>3. IsoImage(o.img, d, g) /\ o.img.fp_pos = -1
    BY <2>1, ClosedIs DEF Shape, Names, IsoImage
  <2>4. DOMAIN o.fds = Handles(d, g)
    BY <2>1 DEF Handles, HandleNames
  <2>5. \A h \in DOMAIN o.fds : StreamOk(o.img, d, h, o.fds[h])
    BY <2>1, <2>3 DEF StreamOk, Cached, Stream, FileAt
  <2>6. o.img # Closed
    <3>1. o.img.fp = <<g, 1>> /\ <<g, 1>> # None
      BY <2>3 DEF IsoImage, None
    <3>2. QED
      BY <3>1, ClosedIs
  <2>7. QED
    BY <2>2, <2>3, <2>4, <2>5, <2>6 DEF Image, Streams, o
<1>4. QED
  BY <1>2, <1>3

\* What an opening of a sheet's files leaves: their streams, up to the first file
\* that does not open.
FilesHeld(d, g, o) ==
  LET fs == o.img.files
  IN  /\ o.img = [Closed EXCEPT !.fp = o.img.fp, !.files = fs]
      /\ o.img.fp = IF 1 \in DOMAIN fs THEN <<g, 1>> ELSE None
      /\ DOMAIN fs \subseteq DOMAIN Files(d) /\ fs = [f \in DOMAIN fs |-> [fp |-> <<g, f>>, pos |-> -1]]
      /\ DOMAIN o.fds = {<<g, f>> : f \in DOMAIN fs}
      /\ \A f \in DOMAIN fs : o.fds[<<g, f>>] = Stream(d, Files(d)[f], 0)

\* The image of a sheet has the streams its opening has left.
LEMMA CueFilesAre ==
  ASSUME NEW d \in Discs, d.kind = "cue", NEW g
  PROVE  FilesHeld(d, g, CueFiles(d, g))
<1> DEFINE o == CueFiles(d, g)
           D == DOMAIN Files(d)
           file == [f \in D |-> cdimage_open_cue_file(d, <<g, f>>, Files(d)[f])]
           tried  == {f \in D : \A e \in 1..(f - 1) : file[e].rv # -1}
           opened == {f \in tried : file[f].rv # -1}
           open == [h \in UNION {DOMAIN file[f].fds : f \in tried} |-> file[h[2]].fds[h]]
           fs == [f \in opened |-> [fp |-> <<g, f>>, pos |-> -1]]
           fp == IF 1 \in opened THEN <<g, 1>> ELSE None
<1>1. o = [img |-> [Closed EXCEPT !.fp = fp, !.files = fs], fds |-> open]
  BY DEF CueFiles, Files
<1>2. \A f \in D : d.files[Files(d)[f]].size \in Nat
  <2>1. cue_get(d) \in CueState(d)
    BY CueType
  <2>2. Files(d) \in Seq(DOMAIN d.files)
    BY <2>1 DEF CueState, Files
  <2>3. \A f \in D : Files(d)[f] \in DOMAIN d.files
    BY <2>2, LenProperties
  <2>4. d.files \in Seq([size : Nat, ok : BOOLEAN])
    BY DiscsAssumption
  <2>5. \A i \in DOMAIN d.files : d.files[i] \in [size : Nat, ok : BOOLEAN]
    BY <2>4, LenProperties
  <2>6. QED
    BY <2>3, <2>5
<1>3. ASSUME NEW f \in D
      PROVE  /\ file[f].rv # -1 => /\ DOMAIN file[f].fds = {<<g, f>>}
                                   /\ file[f].fds[<<g, f>>] = Stream(d, Files(d)[f], 0)
             /\ file[f].rv = -1 => DOMAIN file[f].fds = {}
  <2> DEFINE i == Files(d)[f]
             h == <<g, f>>
             c == cdimage_open_cue_file(d, h, i)
  <2>1. file[f] = c /\ d.files[i].size \in Nat
    BY <1>2
  <2> HIDE DEF file, i, h
  <2>2. CASE d.files[i].ok /\ d.files[i].size > 0
    <3>1. c = [rv |-> d.files[i].size, fds |-> [x \in {h} |-> Stream(d, i, 0)]]
      BY <2>2 DEF cdimage_open_cue_file
    <3> HIDE DEF c
    <3>2. c.rv # -1 /\ DOMAIN c.fds = {h} /\ c.fds[h] = Stream(d, i, 0)
      BY <2>1, <3>1
    <3>3. QED
      BY <2>1, <3>2 DEF h, i
  <2>3. CASE ~(d.files[i].ok /\ d.files[i].size > 0)
    <3> DEFINE w == IF d.files[i].ok THEN [x \in {h} |-> Stream(d, i, 0)] ELSE <<>>
    <3>1. c = [rv |-> -1, fds |-> Without(w, {h})]
      BY <2>3 DEF cdimage_open_cue_file
    <3>2. DOMAIN w \subseteq {h}
      OBVIOUS
    <3> HIDE DEF c, w
    <3>3. DOMAIN Without(w, {h}) = {}
      BY <3>2 DEF Without
    <3>4. QED
      BY <2>1, <3>1, <3>3
  <2>4. QED
    BY <2>2, <2>3
<1> HIDE DEF file
<1>4. opened \subseteq tried /\ tried \subseteq D
  OBVIOUS
<1>5. \A f \in tried : file[f].rv # -1 <=> f \in opened
  OBVIOUS
<1>6. DOMAIN open = {<<g, f>> : f \in opened}
  <2>1. DOMAIN open = UNION {DOMAIN file[f].fds : f \in tried}
    OBVIOUS
  <2> HIDE DEF open, opened, tried
  <2>2. \A f \in tried : DOMAIN file[f].fds = IF f \in opened THEN {<<g, f>>} ELSE {}
    BY <1>3, <1>4, <1>5
  <2>3. UNION {DOMAIN file[f].fds : f \in tried} \subseteq {<<g, f>> : f \in opened}
    <3> SUFFICES ASSUME NEW f \in tried, NEW x \in DOMAIN file[f].fds
                 PROVE  x \in {<<g, e>> : e \in opened}
      OBVIOUS
    <3>1. f \in opened /\ x = <<g, f>>
      BY <2>2
    <3>2. QED
      BY <3>1
  <2>4. {<<g, f>> : f \in opened} \subseteq UNION {DOMAIN file[f].fds : f \in tried}
    <3> SUFFICES ASSUME NEW f \in opened
                 PROVE  \E e \in tried : <<g, f>> \in DOMAIN file[e].fds
      OBVIOUS
    <3>1. f \in tried /\ <<g, f>> \in DOMAIN file[f].fds
      BY <1>4, <2>2
    <3>2. QED
      BY <3>1
  <2>5. QED
    BY <2>1, <2>3, <2>4
<1>7. \A f \in opened : open[<<g, f>>] = Stream(d, Files(d)[f], 0)
  <2> SUFFICES ASSUME NEW f \in opened PROVE open[<<g, f>>] = Stream(d, Files(d)[f], 0)
    OBVIOUS
  <2>1. <<g, f>> \in DOMAIN open
    BY <1>6
  <2>2. open[<<g, f>>] = file[f].fds[<<g, f>>]
    BY <2>1
  <2>3. QED
    BY <1>3, <1>4, <1>5, <2>2
<1> HIDE DEF open, opened, tried
<1>8. o.fds = open /\ o.img.fp = fp /\ o.img.files = fs /\ o.img = [Closed EXCEPT !.fp = fp, !.files = fs]
  <2> DEFINE img == [Closed EXCEPT !.fp = fp, !.files = fs]
  <2>1. o.img = img /\ o.fds = open
    BY <1>1
  <2> HIDE DEF o, fs, fp
  <2>2. img.fp = fp /\ img.files = fs
    BY ClosedIs DEF Names
  <2>3. QED
    BY <2>1, <2>2
<1>9. DOMAIN fs = opened
  OBVIOUS
<1> HIDE DEF o, fs
<1>10. DOMAIN o.img.files = opened
  BY <1>8, <1>9
<1>11. o.img.files = [f \in opened |-> [fp |-> <<g, f>>, pos |-> -1]]
  BY <1>8 DEF fs
<1>12. QED
  <2>1. FilesHeld(d, g, o)
    BY <1>4, <1>6, <1>7, <1>8, <1>10, <1>11 DEF FilesHeld
  <2>2. QED
    BY <2>1 DEF o

\* A sheet that fails closes the files it has opened.
LEMMA CueFails ==
  ASSUME NEW d \in Discs, d.kind = "cue", NEW g
  PROVE  Nothing(cue_error(CueFiles(d, g)))
<1> DEFINE o == CueFiles(d, g)
           fs == o.img.files
<1>0. FilesHeld(d, g, o)
  BY CueFilesAre
<1> HIDE DEF o
<1>1. /\ o.img = [Closed EXCEPT !.fp = o.img.fp, !.files = fs]
      /\ o.img.fp = IF 1 \in DOMAIN fs THEN <<g, 1>> ELSE None
      /\ fs = [f \in DOMAIN fs |-> [fp |-> <<g, f>>, pos |-> -1]]
      /\ DOMAIN o.fds = {<<g, f>> : f \in DOMAIN fs}
  BY <1>0 DEF FilesHeld
<1>2. o.img.chd = None /\ o.img.decoder = None
  BY <1>1, ClosedIs DEF Names
<1>3. retro_cdimage_close(o.img) = DOMAIN o.fds
  <2>1. cdimage_chd_state_free([source |-> o.img.chd, decoder |-> o.img.decoder]) = {}
    BY <1>2 DEF cdimage_chd_state_free
  <2>2. CASE fs # <<>>
    <3>1. \A f \in DOMAIN fs : fs[f].fp = <<g, f>> /\ <<g, f>> # None
      BY <1>1 DEF None
    <3>2. {fs[f].fp : f \in DOMAIN fs} \ {None} = {<<g, f>> : f \in DOMAIN fs}
      BY <3>1
    <3>3. QED
      BY <1>1, <2>1, <2>2, <3>2 DEF retro_cdimage_close
  <2>3. CASE fs = <<>>
    <3>1. DOMAIN fs = {}
      BY <2>3
    <3>2. o.img.fp = None /\ DOMAIN o.fds = {}
      BY <1>1, <3>1
    <3>3. QED
      BY <2>1, <2>3, <3>2 DEF retro_cdimage_close
  <2>4. QED
    BY <2>2, <2>3
<1>4. cue_error(o) = [img |-> Closed, fds |-> Without(o.fds, retro_cdimage_close(o.img))]
  BY DEF cue_error
<1>5. Nothing(cue_error(o))
  BY <1>3, <1>4, WithoutOwn DEF Nothing
<1>6. QED
  BY <1>5 DEF o

\* A sheet that opens is held by its disc: the file streams are the image's.  One
\* that does not leaves nothing open.
LEMMA CueOpens ==
  ASSUME NEW d \in Discs, d.kind = "cue", NEW g
  PROVE  LET o == Opened(d, g)
         IN  \/ Nothing(o)
             \/ /\ Image(o.img, d, g) /\ o.img # Closed /\ Streams(d, g, o.img, o.fds)
                /\ Tr(d) # <<>> /\ Files(d) # <<>>
<1> DEFINE o == Opened(d, g)
           c == CueFiles(d, g)
           known == \A i \in DOMAIN Tr(d) : Tr(d)[i].file \in DOMAIN Files(d) /\ Tr(d)[i].format # "UNKNOWN"
<1>1. o = retro_cdimage_open_cue(d, g)
  BY DEF retro_cdimage_open, Opened
<1>2. CASE Tr(d) = <<>> \/ Files(d) = <<>>
  <2>1. o = [img |-> Closed, fds |-> <<>>]
    BY <1>1, <1>2 DEF retro_cdimage_open_cue, Tr, Files
  <2> HIDE DEF o
  <2>2. Nothing(o)
    BY <2>1 DEF Nothing
  <2>3. QED
    BY <2>2 DEF o
<1>3. CASE ~(Tr(d) = <<>> \/ Files(d) = <<>>) /\ (DOMAIN c.img.files # DOMAIN Files(d) \/ ~known)
  <2>1. o = cue_error(c)
    BY <1>1, <1>3 DEF retro_cdimage_open_cue, Tr, Files
  <2> HIDE DEF o
  <2>2. Nothing(o)
    BY <2>1, CueFails
  <2>3. QED
    BY <2>2 DEF o
<1>4. CASE ~(Tr(d) = <<>> \/ Files(d) = <<>>) /\ ~(DOMAIN c.img.files # DOMAIN Files(d) \/ ~known)
  <2>1. o = [c EXCEPT !.img.sector_size = cdimage_mode_for_cue_format(Tr(d)[1].format),
                      !.img.sector_offset = cdimage_offset_for_cue_format(Tr(d)[1].format),
                      !.img.logical_blocks = CueBases(d)[Len(Files(d)) + 1], !.img.tracks = CueTracks(d)]
    BY <1>1, <1>4 DEF retro_cdimage_open_cue, Tr, Files
  <2>0. FilesHeld(d, g, c)
    BY CueFilesAre
  <2>2. /\ c.img = [Closed EXCEPT !.fp = c.img.fp, !.files = c.img.files]
        /\ c.img.fp = IF 1 \in DOMAIN Files(d) THEN <<g, 1>> ELSE None
        /\ c.img.files = [f \in DOMAIN Files(d) |-> [fp |-> <<g, f>>, pos |-> -1]]
        /\ DOMAIN c.fds = {<<g, f>> : f \in DOMAIN Files(d)}
        /\ \A f \in DOMAIN Files(d) : c.fds[<<g, f>>] = Stream(d, Files(d)[f], 0)
    BY <1>4, <2>0 DEF FilesHeld
  <2>3. DOMAIN c = {"img", "fds"}
    BY DEF CueFiles
  <2>4. 1 \in DOMAIN Files(d)
    <3>1. cue_get(d) \in CueState(d)
      BY CueType
    <3>2. Files(d) \in Seq(DOMAIN d.files) /\ Files(d) # <<>>
      BY <1>4, <3>1 DEF CueState, Files
    <3>3. Len(Files(d)) \in Nat /\ Len(Files(d)) # 0 /\ DOMAIN Files(d) = 1..Len(Files(d))
      BY <3>2, LenProperties, EmptySeq
    <3>4. QED
      BY <3>3
  <2> DEFINE ss == cdimage_mode_for_cue_format(Tr(d)[1].format)
             so == cdimage_offset_for_cue_format(Tr(d)[1].format)
             lb == CueBases(d)[Len(Files(d)) + 1]
             ts == CueTracks(d)
  <2>5. /\ o.img = [c.img EXCEPT !.sector_size = ss, !.sector_offset = so, !.logical_blocks = lb, !.tracks = ts]
        /\ o.fds = c.fds
    <3> HIDE DEF o, c, ss, so, lb, ts
    <3>1. o = [c EXCEPT !.img.sector_size = ss, !.img.sector_offset = so, !.img.logical_blocks = lb,
                        !.img.tracks = ts]
      BY <2>1 DEF ss, so, lb, ts
    <3>2. QED
      BY <2>3, <3>1
  <2> HIDE DEF o, c, ss, so, lb, ts
  <2>6. DOMAIN c.img = Names /\ c.img = [x \in Names |-> c.img[x]] /\ c.img.chd = None /\ c.img.decoder = None
    BY <2>2, ClosedIs DEF Shape, Names
  <2>7. Shape(o.img) /\ o.img.fp = c.img.fp /\ o.img.chd = None /\ o.img.decoder = None
        /\ o.img.files = c.img.files /\ o.img.sector_size = ss /\ o.img.sector_offset = so
        /\ o.img.logical_blocks = lb /\ o.img.tracks = ts
    BY <2>5, <2>6 DEF Shape, Names
  <2>8. /\ o.img.files = [f \in DOMAIN Files(d) |-> [fp |-> <<g, f>>, pos |-> -1]]
        /\ CueImage(o.img, d, g)
    BY <2>2, <2>4, <2>7 DEF CueImage, ss, so, lb, ts
  <2>9. DOMAIN o.fds = Handles(d, g)
    BY <2>2, <2>5 DEF Handles, HandleNames
  <2>10. \A h \in DOMAIN o.fds : StreamOk(o.img, d, h, o.fds[h])
    <3> SUFFICES ASSUME NEW h \in DOMAIN o.fds PROVE StreamOk(o.img, d, h, o.fds[h])
      OBVIOUS
    <3>0. PICK f \in DOMAIN Files(d) : h = <<g, f>>
      BY <2>2, <2>5
    <3>1. h[2] = f /\ o.fds[h] = Stream(d, Files(d)[f], 0)
      BY <2>2, <2>5, <3>0
    <3>2. Cached(o.img, d, f) = -1
      BY <2>8 DEF Cached
    <3>3. QED
      BY <3>1, <3>2 DEF StreamOk, Stream, FileAt
  <2>11. o.img # Closed
    BY <2>2, <2>4, <2>7, ClosedIs DEF None
  <2>12. QED
    BY <1>4, <2>7, <2>8, <2>9, <2>10, <2>11 DEF Image, Streams, o
<1>5. QED
  BY <1>2, <1>3, <1>4

ChdFits(d) ==
  \A i \in 1..Len(d.tracks) :
    ChdSource(d, d.tracks[i]) + ChdFrames(d.tracks[i]) * d.unit_bytes <= d.files[1].size

\* A CHD that opens is held by its disc, with its decoder, and its tracks lie within
\* the file.  One that does not leaves neither: freeing its state frees what it has.
LEMMA ChdOpens ==
  ASSUME NEW d, d.kind = "chd", NEW g, NEW probe \in BOOLEAN
  PROVE  LET o == retro_cdimage_open_chd(d, g, probe)
         IN  \/ Nothing(o)
             \/ /\ probe /\ Image(o.img, d, g) /\ o.img # Closed /\ Streams(d, g, o.img, o.fds)
                /\ ChdFits(d) /\ Len(d.tracks) # 0
<1> DEFINE o == retro_cdimage_open_chd(d, g, probe)
           n == Len(d.tracks)
           file == d.files[1]
           state == [source  |-> IF file.ok THEN <<g, 1>> ELSE None,
                     decoder |-> IF file.ok /\ file.size > 0 THEN <<g, 0>> ELSE None]
           open == [h \in {state.source, state.decoder} \ {None} |-> Stream(d, 1, 0)]
           sized == \A i \in 1..n : d.tracks[i].data_size # 0
           fails == state.decoder = None \/ n = 0 \/ n > CUE_MAX_TRACKS \/ ~sized \/ ~ChdFits(d) \/ ~probe
           image == [Closed EXCEPT
                       !.chd = <<g, 1>>, !.decoder = <<g, 0>>, !.chd_pos = 0,
                       !.logical_blocks = ChdFirsts(d)[n + 1], !.map = ChdMap(d), !.tracks = ChdTable(d)]
<1>1. o = IF fails THEN chd_error(open, state) ELSE [img |-> image, fds |-> open]
  BY DEF retro_cdimage_open_chd, ChdFits
<1>2. CASE fails
  <2>1. o = [img |-> Closed, fds |-> Without(open, cdimage_chd_state_free(state))]
    BY <1>1, <1>2 DEF chd_error
  <2>2. cdimage_chd_state_free(state) = DOMAIN open
    BY DEF cdimage_chd_state_free
  <2> HIDE DEF o, open, state
  <2>3. Nothing(o)
    BY <2>1, <2>2, WithoutOwn DEF Nothing
  <2>4. QED
    BY <2>3 DEF o
<1>3. CASE ~fails
  <2>1. o.img = image /\ o.fds = open
    BY <1>1, <1>3
  <2>2. file.ok /\ file.size > 0
    BY <1>3
  <2>3. state.source = <<g, 1>> /\ state.decoder = <<g, 0>>
    BY <2>2
  <2>4. DOMAIN open = {<<g, 0>>, <<g, 1>>} /\ \A h \in DOMAIN open : open[h] = Stream(d, 1, 0)
    BY <2>3 DEF None
  <2> HIDE DEF o, open, state
  <2>5. Shape(o.img)
    BY <2>1, ClosedIs DEF Shape, Names
  <2>6. ChdImage(o.img, d, g) /\ o.img.chd_pos = 0
    BY <2>1, ClosedIs DEF Shape, Names, ChdImage
  <2>7. DOMAIN o.fds = Handles(d, g)
    BY <2>1, <2>4 DEF Handles, HandleNames
  <2>8. \A h \in DOMAIN o.fds : StreamOk(o.img, d, h, o.fds[h])
    BY <2>1, <2>4, <2>6 DEF StreamOk, Cached, Stream, FileAt
  <2>9. o.img # Closed
    BY <2>6, ClosedIs DEF ChdImage, None
  <2>10. QED
    BY <1>3, <2>5, <2>6, <2>7, <2>8, <2>9 DEF Image, Streams, o
<1>4. QED
  BY <1>2, <1>3

\* An opening gives an image and its streams, or nothing.
LEMMA OpenFacts ==
  ASSUME NEW d \in Discs, NEW g, NEW probe \in BOOLEAN
  PROVE  LET r == retro_cdimage_open(d, g, probe)
         IN  Nothing(r) \/ (r.img # Closed /\ Held(d, g, r.img, r.fds))
<1> DEFINE r == retro_cdimage_open(d, g, probe)
<1>1. d.kind \in {"iso", "cue", "chd"}
  BY DiscsAssumption
<1>2. CASE d.kind \in {"iso", "cue"}
  <2>1. r = Opened(d, g)
    BY <1>2 DEF retro_cdimage_open, Opened
  <2> HIDE DEF r
  <2>2. Nothing(r) \/ (Image(r.img, d, g) /\ r.img # Closed /\ Streams(d, g, r.img, r.fds))
    BY <1>2, <2>1, IsoOpens, CueOpens
  <2>3. QED
    BY <2>1, <2>2 DEF Held, r
<1>3. CASE d.kind = "chd"
  <2>1. r = retro_cdimage_open_chd(d, g, probe) /\ Opened(d, g) = retro_cdimage_open_chd(d, g, TRUE)
    BY <1>3 DEF retro_cdimage_open, Opened
  <2> HIDE DEF r
  <2>2. Nothing(r) \/ (probe /\ Image(r.img, d, g) /\ r.img # Closed /\ Streams(d, g, r.img, r.fds))
    BY <1>3, <2>1, ChdOpens
  <2>3. probe => r = Opened(d, g)
    BY <2>1
  <2>4. QED
    BY <2>2, <2>3 DEF Held, r
<1>4. QED
  BY <1>1, <1>2, <1>3

-----------------------------------------------------------------------------
(* The streams of the image in use.                                        *)

\* An image that is open is of one kind, and was mastered as it says; a CHD with
\* pregaps may hold anything.
LEMMA HeldKind ==
  ASSUME NEW d \in Discs, NEW g \in {0, 1}, NEW img, NEW F, Held(d, g, img, F)
  PROVE  /\ d.kind \in {"iso", "cue", "chd"} /\ <<g, 1>> \in Handles(d, g)
         /\ NoPregaps(d) => Tiled(d)
         /\ d.kind = "iso" => IsoImage(img, d, g) /\ MasteredIso(d) /\ Tiled(d)
         /\ d.kind = "cue" => CueImage(img, d, g) /\ Sheet(d) /\ Tiled(d)
         /\ d.kind = "chd" => /\ ChdImage(img, d, g) /\ ChdFits(d) /\ Len(d.tracks) # 0
                              /\ NoPregaps(d) => MasteredChd(d)
<1>1. d.kind \in {"iso", "cue", "chd"} /\ (d.kind # "chd" => NoPregaps(d))
  BY DiscsAssumption DEF NoPregaps
<1>2. Opened(d, g).img # Closed /\ Image(img, d, g)
  BY DEF Held
<1>3. NoPregaps(d) => Mastered(d)
  BY <1>2, MasteredAssumption DEF Opened
<1>4. NoPregaps(d) => Tiled(d)
  BY <1>3 DEF Mastered, Tiled
<1>5. CASE d.kind = "iso"
  BY <1>1, <1>2, <1>3, <1>4, <1>5 DEF Mastered, Image, Handles, HandleNames
<1>6. CASE d.kind = "cue"
  <2>1. Tr(d) # <<>> /\ Files(d) # <<>>
    BY <1>2, <1>6, CueOpens DEF Nothing
  <2>2. Sheet(d)
    BY <1>1, <1>3, <1>4, <1>6, <2>1 DEF Mastered, Sheet
  <2>3. <<g, 1>> \in Handles(d, g)
    <3>1. 1 \in DOMAIN Files(d)
      BY <2>2, SheetType
    <3>2. QED
      BY <3>1, <1>6 DEF Handles, HandleNames
  <2>4. QED
    BY <1>1, <1>2, <1>4, <1>6, <2>2, <2>3 DEF Image
<1>7. CASE d.kind = "chd"
  <2>1. ChdFits(d) /\ Len(d.tracks) # 0
    <3>1. Opened(d, g) = retro_cdimage_open_chd(d, g, TRUE)
      BY <1>7 DEF retro_cdimage_open, Opened
    <3>2. QED
      BY <1>2, <1>7, <3>1, ChdOpens DEF Nothing
  <2>2. NoPregaps(d) => MasteredChd(d)
    BY <1>3, <1>7 DEF Mastered
  <2>3. <<g, 1>> \in Handles(d, g)
    BY <1>7 DEF Handles, HandleNames
  <2>4. QED
    BY <1>1, <1>2, <1>4, <1>7, <2>1, <2>2, <2>3 DEF Image
<1>8. QED
  BY <1>1, <1>5, <1>6, <1>7

Owned(img) == ({img.fp, img.chd, img.decoder} \cup {img.files[i].fp : i \in DOMAIN img.files}) \ {None}

\* What the image names, what closing it closes and what is open are the same.
LEMMA HeldOwns ==
  ASSUME NEW d \in Discs, NEW g \in {0, 1}, NEW img, NEW F, Held(d, g, img, F)
  PROVE  retro_cdimage_close(img) = DOMAIN F /\ Owned(img) = DOMAIN F
<1> DEFINE freed == cdimage_chd_state_free([source |-> img.chd, decoder |-> img.decoder])
<1>1. DOMAIN F = Handles(d, g)
  BY DEF Held, Streams
<1>2. \A f : <<g, f>> # None
  BY DEF None
<1>3. freed = {img.chd, img.decoder} \ {None}
  BY DEF cdimage_chd_state_free
<1>4. retro_cdimage_close(img) =
        freed \cup ((IF img.files # <<>> THEN {img.files[i].fp : i \in DOMAIN img.files} ELSE {img.fp}) \ {None})
  BY DEF retro_cdimage_close
<1> HIDE DEF freed
<1>5. CASE d.kind = "iso"
  <2>1. img.fp = <<g, 1>> /\ img.chd = None /\ img.decoder = None /\ img.files = <<>>
    BY <1>5, HeldKind DEF IsoImage
  <2>2. Handles(d, g) = {<<g, 1>>}
    BY <1>5 DEF Handles, HandleNames
  <2>3. {img.files[i].fp : i \in DOMAIN img.files} = {}
    BY <2>1
  <2>4. retro_cdimage_close(img) = {<<g, 1>>}
    BY <1>2, <1>3, <1>4, <2>1
  <2>5. Owned(img) = {<<g, 1>>}
    BY <1>2, <2>1, <2>3 DEF Owned
  <2>6. QED
    BY <1>1, <2>2, <2>4, <2>5
<1>6. CASE d.kind = "cue"
  <2>1. /\ img.fp = <<g, 1>> /\ img.chd = None /\ img.decoder = None /\ DOMAIN img.files = DOMAIN Files(d)
        /\ \A f \in DOMAIN Files(d) : img.files[f].fp = <<g, f>>
        /\ 1 \in DOMAIN Files(d)
    <3>1. CueImage(img, d, g) /\ Sheet(d)
      BY <1>6, HeldKind
    <3>2. 1 \in DOMAIN Files(d)
      BY <3>1, SheetType
    <3>3. QED
      BY <3>1, <3>2 DEF CueImage
  <2>2. Handles(d, g) = {<<g, f>> : f \in DOMAIN Files(d)}
    BY <1>6 DEF Handles, HandleNames
  <2>3. img.files # <<>>
    BY <2>1
  <2>4. {img.files[i].fp : i \in DOMAIN img.files} = Handles(d, g)
    BY <2>1, <2>2
  <2>5. <<g, 1>> \in Handles(d, g) /\ None \notin Handles(d, g)
    BY <1>2, <2>1, <2>2
  <2>6. retro_cdimage_close(img) = Handles(d, g)
    BY <1>3, <1>4, <2>1, <2>3, <2>4, <2>5
  <2>7. Owned(img) = Handles(d, g)
    BY <2>1, <2>4, <2>5 DEF Owned
  <2>8. QED
    BY <1>1, <2>6, <2>7
<1>7. CASE d.kind = "chd"
  <2>1. img.fp = None /\ img.chd = <<g, 1>> /\ img.decoder = <<g, 0>> /\ img.files = <<>>
    BY <1>7, HeldKind DEF ChdImage
  <2>2. Handles(d, g) = {<<g, 0>>, <<g, 1>>}
    BY <1>7 DEF Handles, HandleNames
  <2>3. {img.files[i].fp : i \in DOMAIN img.files} = {}
    BY <2>1
  <2>4. retro_cdimage_close(img) = {<<g, 0>>, <<g, 1>>}
    BY <1>2, <1>3, <1>4, <2>1
  <2>5. Owned(img) = {<<g, 0>>, <<g, 1>>}
    BY <1>2, <2>1, <2>3 DEF Owned
  <2>6. QED
    BY <1>1, <2>2, <2>4, <2>5
<1>8. QED
  BY <1>5, <1>6, <1>7, HeldKind

\* Nothing is open, or an image and its streams are.
Idle == CDIMAGE = Closed /\ DOMAIN fds = {}
InUse == \E d \in Discs, g \in {0, 1} : Held(d, g, CDIMAGE, fds)

IInv == (Idle \/ InUse) /\ ReadsItsFrame /\ ReadsInFull

\* Before the first read there is nothing to say of it.
LEMMA NoReadHolds ==
  ASSUME buf' = NoRead
  PROVE  ReadsItsFrame' /\ ReadsInFull'
<1>1. buf'.rv = -1 /\ buf'.disc = "none"
  BY DEF NoRead
<1>2. QED
  BY <1>1 DEF ReadsItsFrame, ReadsInFull

\* Nothing is loaded at the start.
LEMMA InitIInv == Init => IInv
<1> SUFFICES ASSUME Init PROVE IInv
  OBVIOUS
<1>1. Idle
  BY DEF Init, Idle
<1>2. buf.rv = -1 /\ buf.disc = "none"
  BY DEF Init, NoRead
<1>3. ReadsItsFrame /\ ReadsInFull
  BY <1>2 DEF ReadsItsFrame, ReadsInFull
<1>4. QED
  BY <1>1, <1>3 DEF IInv

\* A closed image has no streams.
LEMMA ClosedCloses == Owned(Closed) = {}
<1>1. DOMAIN Closed.files = {}
  BY ClosedIs
<1>2. QED
  BY <1>1, ClosedIs DEF Owned

\* What is open beside nothing is what the opening left.
LEMMA JoinNothing ==
  ASSUME NEW F, NEW G
  PROVE  /\ DOMAIN F = {} => DOMAIN Join(F, G) = DOMAIN G /\ \A h \in DOMAIN G : Join(F, G)[h] = G[h]
         /\ DOMAIN G = {} => DOMAIN Join(F, G) = DOMAIN F /\ \A h \in DOMAIN F : Join(F, G)[h] = F[h]
BY DEF Join

\* An image is held by whatever has the same handles with the same streams.
LEMMA HeldSame ==
  ASSUME NEW d, NEW g, NEW img, NEW F, NEW G, Held(d, g, img, F),
         DOMAIN G = DOMAIN F, \A h \in DOMAIN F : G[h] = F[h]
  PROVE  Held(d, g, img, G)
BY DEF Held, Streams

\* Loading: the image that opened, or nothing when it or the core failed.
LEMMA LoadIInv ==
  ASSUME IInv, NEW d \in Discs, retro_load_game(d)
  PROVE  IInv'
<1>1. PICK probe \in BOOLEAN, ok \in BOOLEAN :
        LET r == retro_cdimage_open(d, Fresh, probe)
            now == Join(fds, r.fds)
        IN  IF ok \/ r.img = Closed THEN CDIMAGE' = r.img /\ fds' = now
            ELSE CDIMAGE' = Closed /\ fds' = Without(now, retro_cdimage_close(r.img))
  BY DEF retro_load_game
<1> DEFINE r == retro_cdimage_open(d, Fresh, probe)
           now == Join(fds, r.fds)
<1>2. Fresh \in {0, 1}
  BY DEF Fresh
<1>3. Nothing(r) \/ (r.img # Closed /\ Held(d, Fresh, r.img, r.fds))
  BY OpenFacts
<1>4. IF ok \/ r.img = Closed THEN CDIMAGE' = r.img /\ fds' = now
      ELSE CDIMAGE' = Closed /\ fds' = Without(now, retro_cdimage_close(r.img))
  BY <1>1
<1> HIDE DEF r
<1>5. DOMAIN fds = {}
  <2>1. CDIMAGE = Closed
    BY DEF retro_load_game
  <2>2. ~InUse
    <3> SUFFICES ASSUME NEW e \in Discs, NEW g \in {0, 1}, Held(e, g, CDIMAGE, fds) PROVE FALSE
      BY DEF InUse
    <3>1. Owned(CDIMAGE) = DOMAIN fds /\ <<g, 1>> \in Handles(e, g)
      BY HeldOwns, HeldKind
    <3>2. DOMAIN fds = Handles(e, g)
      BY DEF Held, Streams
    <3>3. QED
      BY <2>1, <3>1, <3>2, ClosedCloses
  <2>3. QED
    BY <2>2 DEF IInv, Idle
<1>6. DOMAIN now = DOMAIN r.fds /\ \A h \in DOMAIN r.fds : now[h] = r.fds[h]
  BY <1>5, JoinNothing
<1> HIDE DEF now
<1>7. Idle' \/ InUse'
  <2>1. CASE Nothing(r)
    BY <1>4, <1>6, <2>1 DEF Idle, Nothing
  <2>2. CASE ~Nothing(r) /\ ok
    <3>1. Held(d, Fresh, r.img, now)
      BY <1>3, <1>6, <2>2, HeldSame
    <3>2. Held(d, Fresh, CDIMAGE', fds')
      BY <1>4, <2>2, <3>1
    <3>3. QED
      BY <1>2, <3>2 DEF InUse
  <2>3. CASE ~Nothing(r) /\ ~ok
    <3>1. CDIMAGE' = Closed /\ fds' = Without(now, retro_cdimage_close(r.img))
      BY <1>3, <1>4, <2>3
    <3>2. retro_cdimage_close(r.img) = DOMAIN now
      BY <1>2, <1>3, <1>6, <2>3, HeldOwns
    <3>3. QED
      BY <3>1, <3>2, WithoutOwn DEF Idle
  <2>4. QED
    BY <2>1, <2>2, <2>3
<1>8. QED
  BY <1>7, NoReadHolds DEF IInv, retro_load_game

\* Unloading closes every stream.
LEMMA UnloadIInv ==
  ASSUME IInv, retro_unload_game
  PROVE  IInv'
<1>1. PICK d \in Discs, g \in {0, 1} : Held(d, g, CDIMAGE, fds)
  BY DEF IInv, Idle, InUse, retro_unload_game
<1>2. retro_cdimage_close(CDIMAGE) = DOMAIN fds
  BY <1>1, HeldOwns
<1>3. Idle'
  BY <1>2, WithoutOwn DEF Idle, retro_unload_game
<1>4. QED
  BY <1>3, NoReadHolds DEF IInv, retro_unload_game

\* Launching: the new image replaces the old one, or the old one stays.
LEMMA LaunchIInv ==
  ASSUME IInv, NEW d \in Discs, cdimage_ode_launch(d)
  PROVE  IInv'
<1>1. PICK probe \in BOOLEAN :
        LET r == retro_cdimage_open(d, Fresh, probe)
        IN  IF r.img = Closed THEN CDIMAGE' = CDIMAGE /\ fds' = Join(fds, r.fds)
            ELSE /\ CDIMAGE' = r.img
                 /\ fds' = Join(Without(fds, retro_cdimage_close(CDIMAGE)), r.fds)
  BY DEF cdimage_ode_launch
<1> DEFINE r == retro_cdimage_open(d, Fresh, probe)
           old == Without(fds, retro_cdimage_close(CDIMAGE))
<1>2. Fresh \in {0, 1}
  BY DEF Fresh
<1>3. Nothing(r) \/ (r.img # Closed /\ Held(d, Fresh, r.img, r.fds))
  BY OpenFacts
<1>4. IF r.img = Closed THEN CDIMAGE' = CDIMAGE /\ fds' = Join(fds, r.fds)
      ELSE CDIMAGE' = r.img /\ fds' = Join(old, r.fds)
  BY <1>1
<1>5. PICK e \in Discs, g \in {0, 1} : Held(e, g, CDIMAGE, fds)
  BY DEF IInv, Idle, InUse, cdimage_ode_launch
<1>6. DOMAIN old = {}
  <2>1. retro_cdimage_close(CDIMAGE) = DOMAIN fds
    BY <1>5, HeldOwns
  <2>2. QED
    BY <2>1, WithoutOwn
<1> HIDE DEF r, old
<1>7. InUse'
  <2>1. CASE Nothing(r)
    <3>1. DOMAIN Join(fds, r.fds) = DOMAIN fds /\ \A h \in DOMAIN fds : Join(fds, r.fds)[h] = fds[h]
      BY <2>1, JoinNothing DEF Nothing
    <3>2. Held(e, g, CDIMAGE, Join(fds, r.fds))
      BY <1>5, <3>1, HeldSame
    <3>3. Held(e, g, CDIMAGE', fds')
      BY <1>4, <2>1, <3>2 DEF Nothing
    <3>4. QED
      BY <3>3 DEF InUse
  <2>2. CASE r.img # Closed /\ Held(d, Fresh, r.img, r.fds)
    <3>1. DOMAIN Join(old, r.fds) = DOMAIN r.fds /\ \A h \in DOMAIN r.fds : Join(old, r.fds)[h] = r.fds[h]
      BY <1>6, JoinNothing
    <3>2. Held(d, Fresh, r.img, Join(old, r.fds))
      BY <2>2, <3>1, HeldSame
    <3>3. Held(d, Fresh, CDIMAGE', fds')
      BY <1>4, <2>2, <3>2
    <3>4. QED
      BY <1>2, <3>3 DEF InUse
  <2>3. QED
    BY <1>3, <2>1, <2>2
<1>8. QED
  BY <1>7, NoReadHolds DEF IInv, cdimage_ode_launch

-----------------------------------------------------------------------------
(* Reading a stream.                                                       *)

\* The cached position of a handle, and the image with another.
PosOf(img, h) ==
  LET i == {j \in DOMAIN img.files : img.files[j].fp = h}
  IN  IF i = {} THEN img.fp_pos ELSE img.files[Max(i)].pos
SetPos(img, h, p) ==
  LET i == {j \in DOMAIN img.files : img.files[j].fp = h}
  IN  IF i = {} THEN [img EXCEPT !.fp_pos = p] ELSE [img EXCEPT !.files[Max(i)].pos = p]

\* The greatest of one.
LEMMA MaxOne ==
  ASSUME NEW n \in Nat, NEW f \in 1..n
  PROVE  Max({f}) = f
<1>1. {f} \in SUBSET (1..n) /\ {f} # {}
  OBVIOUS
<1>2. Max({f}) \in {f}
  BY <1>1, Greatest
<1>3. QED
  BY <1>2

\* Setting the cached position of a stream changes that and nothing else.
LEMMA IsoPos ==
  ASSUME NEW d \in Discs, NEW g \in {0, 1}, NEW img, d.kind = "iso", Image(img, d, g), NEW p
  PROVE  /\ PosOf(img, <<g, 1>>) = Cached(img, d, 1)
         /\ Image(SetPos(img, <<g, 1>>, p), d, g) /\ Cached(SetPos(img, <<g, 1>>, p), d, 1) = p
<1>1. Shape(img) /\ IsoImage(img, d, g)
  BY DEF Image
<1>2. {j \in DOMAIN img.files : img.files[j].fp = <<g, 1>>} = {}
  BY <1>1 DEF IsoImage
<1>3. PosOf(img, <<g, 1>>) = img.fp_pos /\ SetPos(img, <<g, 1>>, p) = [img EXCEPT !.fp_pos = p]
  BY <1>2 DEF PosOf, SetPos
<1> DEFINE q == [img EXCEPT !.fp_pos = p]
<1>4. DOMAIN img = Names
  BY <1>1 DEF Shape
<1>5. Shape(q)
  BY <1>1, <1>4 DEF Shape, Names
<1>6. IsoImage(q, d, g) /\ q.fp_pos = p
  BY <1>1, <1>4 DEF Names, IsoImage
<1> HIDE DEF q
<1>7. Image(q, d, g) /\ Cached(q, d, 1) = p /\ Cached(img, d, 1) = img.fp_pos
  BY <1>5, <1>6 DEF Image, Cached
<1>8. QED
  BY <1>3, <1>7 DEF q

\* A sheet's files have a cached position each, and setting one keeps the others.
LEMMA CuePos ==
  ASSUME NEW d \in Discs, NEW g \in {0, 1}, NEW img, d.kind = "cue", Image(img, d, g), Sheet(d),
         NEW f \in DOMAIN Files(d), NEW p
  PROVE  /\ PosOf(img, <<g, f>>) = Cached(img, d, f)
         /\ Image(SetPos(img, <<g, f>>, p), d, g) /\ Cached(SetPos(img, <<g, f>>, p), d, f) = p
         /\ \A e \in DOMAIN Files(d) : e # f => Cached(SetPos(img, <<g, f>>, p), d, e) = Cached(img, d, e)
<1>1. Shape(img) /\ CueImage(img, d, g)
  BY DEF Image
<1>2. DOMAIN img = Names /\ DOMAIN img.files = DOMAIN Files(d) /\ Len(Files(d)) \in Nat
      /\ DOMAIN Files(d) = 1..Len(Files(d))
  BY <1>1, SheetType DEF Shape, CueImage
<1>3. \A e \in DOMAIN Files(d) : img.files[e] = [fp |-> <<g, e>>, pos |-> img.files[e].pos]
  BY <1>1 DEF CueImage
<1>4. {j \in DOMAIN img.files : img.files[j].fp = <<g, f>>} = {f}
  <2>1. \A e \in DOMAIN Files(d) : img.files[e].fp = <<g, e>>
    BY <1>1 DEF CueImage
  <2>2. \A e : <<g, e>> = <<g, f>> => e = f
    OBVIOUS
  <2>3. QED
    BY <1>2, <2>1, <2>2
<1>5. Max({f}) = f
  BY <1>2, MaxOne
<1>6. /\ PosOf(img, <<g, f>>) = img.files[f].pos
      /\ SetPos(img, <<g, f>>, p) = [img EXCEPT !.files[f].pos = p]
  BY <1>4, <1>5 DEF PosOf, SetPos
<1> DEFINE q == [img EXCEPT !.files[f].pos = p]
<1>7. Shape(q)
  BY <1>1, <1>2 DEF Shape, Names
<1>8. /\ q.files = [img.files EXCEPT ![f].pos = p] /\ q.fp = img.fp /\ q.chd = img.chd /\ q.decoder = img.decoder
      /\ q.sector_size = img.sector_size /\ q.sector_offset = img.sector_offset
      /\ q.logical_blocks = img.logical_blocks /\ q.tracks = img.tracks
  BY <1>2 DEF Names
<1> HIDE DEF q
<1>9. /\ q.files[f].pos = p /\ DOMAIN q.files = DOMAIN Files(d)
      /\ \A e \in DOMAIN Files(d) : e # f => q.files[e].pos = img.files[e].pos
      /\ \A e \in DOMAIN Files(d) : q.files[e] = [fp |-> <<g, e>>, pos |-> q.files[e].pos]
  <2>1. DOMAIN q.files = DOMAIN Files(d) /\ \A e \in DOMAIN Files(d) : e # f => q.files[e] = img.files[e]
    BY <1>2, <1>8
  <2>2. q.files[f] = [img.files[f] EXCEPT !.pos = p]
    BY <1>2, <1>8
  <2>3. img.files[f] = [fp |-> <<g, f>>, pos |-> img.files[f].pos]
    BY <1>3
  <2>4. q.files[f] = [fp |-> <<g, f>>, pos |-> p]
    BY <2>2, <2>3
  <2>5. ASSUME NEW e \in DOMAIN Files(d) PROVE q.files[e] = [fp |-> <<g, e>>, pos |-> q.files[e].pos]
    <3>1. CASE e = f
      BY <2>4, <3>1
    <3>2. CASE e # f
      BY <1>3, <2>1, <3>2
    <3>3. QED
      BY <3>1, <3>2
  <2>6. q.files[f].pos = p
    BY <2>4
  <2>7. QED
    BY <2>1, <2>5, <2>6
<1>10. q.files = [e \in DOMAIN Files(d) |-> [fp |-> <<g, e>>, pos |-> q.files[e].pos]]
  <2>1. q.files = [e \in DOMAIN Files(d) |-> q.files[e]]
    BY <1>2, <1>8
  <2>2. QED
    BY <1>9, <2>1
<1>11. CueImage(q, d, g)
  BY <1>1, <1>8, <1>10 DEF CueImage
<1>12. Image(q, d, g) /\ \A e : Cached(q, d, e) = q.files[e].pos /\ Cached(img, d, e) = img.files[e].pos
  BY <1>7, <1>11 DEF Image, Cached
<1>13. QED
  BY <1>6, <1>9, <1>12 DEF q

\* A read of len bytes at pos through handle h.
ReadOk(d, f, pos, len, io, r) ==
  LET size == d.files[FileAt(d, f)].size
  IN  /\ r.rv \in Int /\ r.rv <= len
      /\ r.rv > 0 => pos < size /\ r.src = [disc |-> d.name, file |-> FileAt(d, f), at |-> pos]
      /\ io.seek /\ io.read = "all" => r.rv = MinOf(len, IF size > pos THEN size - pos ELSE 0)

\* An image keeps its streams when one of them moves and its cached position says where, or -1.
LEMMA HeldMoves ==
  ASSUME NEW d \in Discs, NEW g \in {0, 1}, NEW img, Held(d, g, img, fds), NEW q, NEW s,
         NEW f, <<g, f>> \in Handles(d, g),
         Image(q, d, g), StreamOk(q, d, <<g, f>>, s),
         \A e : <<g, e>> \in Handles(d, g) /\ e # f /\ Positioned(d, e) => Cached(q, d, e) = Cached(img, d, e)
  PROVE  Held(d, g, q, [fds EXCEPT ![<<g, f>>] = s])
<1> DEFINE G == [fds EXCEPT ![<<g, f>>] = s]
<1>1. /\ DOMAIN fds = Handles(d, g) /\ DOMAIN G = Handles(d, g) /\ G[<<g, f>>] = s
      /\ \A h \in Handles(d, g) : h # <<g, f>> => G[h] = fds[h]
      /\ \A h \in Handles(d, g) : StreamOk(img, d, h, fds[h])
  BY DEF Held, Streams
<1> HIDE DEF G
<1>2. ASSUME NEW h \in Handles(d, g) PROVE StreamOk(q, d, h, G[h])
  <2>1. CASE h = <<g, f>>
    BY <1>1, <2>1
  <2>2. CASE h # <<g, f>>
    <3>1. h = <<g, h[2]>>
      BY DEF Handles
    <3>2. Positioned(d, h[2]) => Cached(q, d, h[2]) = Cached(img, d, h[2])
      BY <2>2, <3>1
    <3>3. StreamOk(img, d, h, fds[h]) /\ G[h] = fds[h]
      BY <1>1, <2>2
    <3>4. QED
      BY <3>2, <3>3 DEF StreamOk
  <2>3. QED
    BY <2>1, <2>2
<1>3. QED
  BY <1>1, <1>2 DEF Held, Streams, G

\* Both kinds: how the cached position of a handle is found and set.
LEMMA PosFacts ==
  ASSUME NEW d \in Discs, NEW g \in {0, 1}, NEW img, NEW f, NEW p,
         d.kind # "chd", Held(d, g, img, fds), <<g, f>> \in Handles(d, g)
  PROVE  /\ PosOf(img, <<g, f>>) = Cached(img, d, f)
         /\ Image(SetPos(img, <<g, f>>, p), d, g) /\ Cached(SetPos(img, <<g, f>>, p), d, f) = p
         /\ \A e : <<g, e>> \in Handles(d, g) /\ e # f
                  => Cached(SetPos(img, <<g, f>>, p), d, e) = Cached(img, d, e)
<1>1. Image(img, d, g)
  BY DEF Held
<1>2. \A a, b : <<g, a>> = <<g, b>> => a = b
  OBVIOUS
<1>3. CASE d.kind = "iso"
  <2>1. \A e : <<g, e>> \in Handles(d, g) => e = 1
    BY <1>2, <1>3 DEF Handles, HandleNames
  <2>2. QED
    BY <1>1, <1>3, <2>1, IsoPos
<1>4. CASE d.kind = "cue"
  <2>1. \A e : <<g, e>> \in Handles(d, g) => e \in DOMAIN Files(d)
    BY <1>2, <1>4 DEF Handles, HandleNames
  <2>2. Sheet(d)
    BY <1>4, HeldKind
  <2>3. QED
    BY <1>1, <1>4, <2>1, <2>2, CuePos
<1>5. QED
  BY <1>3, <1>4, HeldKind

\* What the host brings of a stream.
LEMMA GotIs ==
  ASSUME NEW s, s.size \in Nat, s.at \in Nat, NEW len \in Nat, NEW io \in Io
  PROVE  LET n == Got(s, len, io)
         IN  /\ n \in Nat /\ n <= len /\ (n > 0 => s.at < s.size)
             /\ io.read = "all" => n = MinOf(len, IF s.size > s.at THEN s.size - s.at ELSE 0)
<1> DEFINE n == MinOf(len, IF s.size > s.at THEN s.size - s.at ELSE 0)
<1>1. n \in Nat /\ n <= len /\ (n > 0 => s.at < s.size)
  BY DEF MinOf
<1>2. Got(s, len, io) = CASE io.read = "all" -> n [] io.read = "some" -> (n + 1) \div 2 [] OTHER -> 0
  BY DEF Got
<1>3. io.read \in {"all", "some", "none"}
  BY DEF Io
<1> HIDE DEF n
<1>4. (n + 1) \div 2 \in Nat /\ (n + 1) \div 2 <= n
  BY <1>1
<1>5. Got(s, len, io) \in Nat /\ Got(s, len, io) <= n /\ (io.read = "all" => Got(s, len, io) = n)
  BY <1>1, <1>2, <1>3, <1>4
<1>6. QED
  BY <1>1, <1>5 DEF n

\* cdimage_read_at keeps the image, and brings the bytes at the position it is given.
LEMMA ReadAt ==
  ASSUME NEW d \in Discs, NEW g \in {0, 1}, NEW img, d.kind # "chd", Held(d, g, img, fds),
         NEW f, <<g, f>> \in Handles(d, g), NEW pos \in Nat, NEW len \in Nat, NEW io \in Io,
         d.files[FileAt(d, f)].size \in Nat
  PROVE  LET r == cdimage_read_at(img, <<g, f>>, pos, len, io)
         IN  Held(d, g, r.img, r.fds) /\ ReadOk(d, f, pos, len, io, r)
<1> DEFINE h == <<g, f>>
           r == cdimage_read_at(img, h, pos, len, io)
           cached == PosOf(img, h)
           s == IF cached = pos THEN fds[h] ELSE [fds[h] EXCEPT !.at = pos]
           n == Got(s, len, io)
           size == d.files[FileAt(d, f)].size
           St(a) == [disc |-> d.name, file |-> FileAt(d, f), at |-> a, size |-> size]
<1>1. r = IF cached # pos /\ ~io.seek
          THEN [img |-> SetPos(img, h, -1), rv |-> -1, src |-> NoSrc, fds |-> [fds EXCEPT ![h].at = 0]]
          ELSE [img |-> SetPos(img, h, IF n > 0 THEN pos + n ELSE -1), rv |-> n,
                src |-> [disc |-> s.disc, file |-> s.file, at |-> s.at],
                fds |-> [fds EXCEPT ![h] = [s EXCEPT !.at = IF n > 0 THEN @ + n ELSE 0]]]
  BY DEF cdimage_read_at, PosOf, SetPos
<1>2. /\ cached = Cached(img, d, f)
      /\ \A p : /\ Image(SetPos(img, h, p), d, g) /\ Cached(SetPos(img, h, p), d, f) = p
               /\ \A e : <<g, e>> \in Handles(d, g) /\ e # f
                        => Cached(SetPos(img, h, p), d, e) = Cached(img, d, e)
  <2> HIDE DEF r, s, n, size, St
  <2>1. cached = Cached(img, d, f)
    BY PosFacts
  <2>2. ASSUME NEW p
        PROVE  /\ PosOf(img, <<g, f>>) = Cached(img, d, f)
               /\ Image(SetPos(img, h, p), d, g) /\ Cached(SetPos(img, h, p), d, f) = p
               /\ \A e : <<g, e>> \in Handles(d, g) /\ e # f
                        => Cached(SetPos(img, h, p), d, e) = Cached(img, d, e)
    BY PosFacts
  <2> HIDE DEF cached
  <2>3. QED
    BY <2>1, <2>2
<1>3. h[2] = f /\ h \in DOMAIN fds
  BY DEF Held, Streams
<1>4. StreamOk(img, d, h, fds[h])
  BY <1>3 DEF Held, Streams
<1>5. fds[h] = St(fds[h].at) /\ fds[h].at \in Nat /\ cached \in {-1, fds[h].at}
  BY <1>2, <1>3, <1>4 DEF StreamOk, Positioned
<1>6. s = St(pos)
  <2>1. CASE cached = pos
    <3>1. fds[h].at = pos
      BY <1>5, <2>1
    <3>2. QED
      BY <1>5, <2>1, <3>1
  <2>2. CASE cached # pos
    <3> DEFINE u == fds[h]
               a == u.at
    <3>1. u = St(a)
      BY <1>5
    <3>2. s = [u EXCEPT !.at = pos]
      BY <2>2
    <3> HIDE DEF a, u, s
    <3>3. [St(a) EXCEPT !.at = pos] = St(pos)
      OBVIOUS
    <3>4. QED
      BY <3>1, <3>2, <3>3
  <2>3. QED
    BY <2>1, <2>2
<1> HIDE DEF r, cached
<1>7. ASSUME NEW a \in Nat, NEW p \in {-1, a}
      PROVE  Held(d, g, SetPos(img, h, p), [fds EXCEPT ![h] = St(a)])
  <2>1. StreamOk(SetPos(img, h, p), d, h, St(a))
    BY <1>2, <1>3 DEF StreamOk
  <2>2. QED
    BY <1>2, <2>1, HeldMoves
<1>8. [fds[h] EXCEPT !.at = 0] = St(0)
  <2> DEFINE u == fds[h]
             a == u.at
  <2>1. u = St(a)
    BY <1>5
  <2> HIDE DEF a, u
  <2>2. [St(a) EXCEPT !.at = 0] = St(0)
    OBVIOUS
  <2>3. QED
    BY <2>1, <2>2 DEF u
<1>9. CASE cached # pos /\ ~io.seek
  <2>1. /\ r.img = SetPos(img, h, -1) /\ r.rv = -1 /\ r.fds = [fds EXCEPT ![h] = St(0)]
    BY <1>1, <1>8, <1>9
  <2>2. Held(d, g, r.img, r.fds)
    BY <1>7, <2>1
  <2>3. QED
    BY <1>9, <2>1, <2>2 DEF ReadOk, r
<1>10. CASE ~(cached # pos /\ ~io.seek)
  <2> HIDE DEF s, n, St
  <2>1. /\ r.img = SetPos(img, h, IF n > 0 THEN pos + n ELSE -1) /\ r.rv = n
        /\ r.src = [disc |-> s.disc, file |-> s.file, at |-> s.at]
        /\ r.fds = [fds EXCEPT ![h] = [s EXCEPT !.at = IF n > 0 THEN s.at + n ELSE 0]]
    BY <1>1, <1>10
  <2>2. s.disc = d.name /\ s.file = FileAt(d, f) /\ s.at = pos /\ s.size = size
    BY <1>6 DEF St
  <2>3. /\ n \in Nat /\ n <= len /\ (n > 0 => pos < size)
        /\ io.read = "all" => n = MinOf(len, IF size > pos THEN size - pos ELSE 0)
    BY <2>2, GotIs DEF n
  <2>4. \A a : [s EXCEPT !.at = a] = St(a)
    BY <1>6 DEF St
  <2>5. Held(d, g, r.img, r.fds)
    <3>1. CASE n > 0
      <4>1. r.img = SetPos(img, h, pos + n) /\ r.fds = [fds EXCEPT ![h] = St(pos + n)]
        BY <2>1, <2>2, <2>4, <3>1
      <4>2. QED
        BY <1>7, <2>3, <4>1
    <3>2. CASE ~(n > 0)
      <4>1. r.img = SetPos(img, h, -1) /\ r.fds = [fds EXCEPT ![h] = St(0)]
        BY <2>1, <2>4, <3>2
      <4>2. QED
        BY <1>7, <4>1
    <3>3. QED
      BY <3>1, <3>2
  <2>6. ReadOk(d, f, pos, len, io, r)
    BY <2>1, <2>2, <2>3 DEF ReadOk
  <2>7. QED
    BY <2>5, <2>6 DEF r
<1>11. QED
  BY <1>9, <1>10

ChdAt(img, p) == [img EXCEPT !.chd_pos = p]

\* A CHD has one cached position.
LEMMA ChdPos ==
  ASSUME NEW d \in Discs, NEW g \in {0, 1}, NEW img, d.kind = "chd", Image(img, d, g), NEW p
  PROVE  Image(ChdAt(img, p), d, g) /\ \A f : Cached(ChdAt(img, p), d, f) = p
<1>1. Shape(img) /\ ChdImage(img, d, g)
  BY DEF Image
<1> DEFINE q == [img EXCEPT !.chd_pos = p]
<1>2. DOMAIN img = Names
  BY <1>1 DEF Shape
<1>3. Shape(q)
  BY <1>1, <1>2 DEF Shape, Names
<1>4. ChdImage(q, d, g) /\ q.chd_pos = p
  BY <1>1, <1>2 DEF Names, ChdImage
<1> HIDE DEF q
<1>5. Image(q, d, g) /\ \A f : Cached(q, d, f) = p
  BY <1>3, <1>4 DEF Image, Cached
<1>6. QED
  BY <1>5 DEF q, ChdAt

\* All or nothing, for the decoder.
ExactOk(d, pos, len, io, r) ==
  /\ r.rv = -1 \/ (r.rv = len /\ r.src = [disc |-> d.name, file |-> 1, at |-> pos])
  /\ io.seek /\ io.read = "all" /\ pos + len <= d.files[1].size => r.rv = len

\* cdimage_chd_read_exact keeps the image, and brings all it is asked for or nothing.
LEMMA ReadExact ==
  ASSUME NEW d \in Discs, NEW g \in {0, 1}, NEW img, d.kind = "chd", Held(d, g, img, fds),
         NEW pos \in Nat, NEW len \in Nat, NEW io \in Io, d.files[1].size \in Nat
  PROVE  LET r == cdimage_chd_read_exact(img, pos, len, io)
         IN  Held(d, g, r.img, r.fds) /\ ExactOk(d, pos, len, io, r)
<1> DEFINE h == <<g, 1>>
           r == cdimage_chd_read_exact(img, pos, len, io)
           s == IF img.chd_pos = pos THEN fds[h] ELSE [fds[h] EXCEPT !.at = pos]
           size == d.files[1].size
           St(a) == [disc |-> d.name, file |-> 1, at |-> a, size |-> size]
           no == (img.chd_pos # pos /\ ~io.seek) \/ io.read = "none" \/ s.at + len > s.size
<1>1. img.chd = h /\ h \in DOMAIN fds /\ h[2] = 1 /\ Image(img, d, g) /\ h \in Handles(d, g)
  <2>1. ChdImage(img, d, g) /\ h \in Handles(d, g)
    BY HeldKind
  <2>2. QED
    BY <2>1 DEF Held, Streams, ChdImage
<1>2. r = IF no
          THEN [img |-> [img EXCEPT !.chd_pos = -1], rv |-> -1, src |-> NoSrc,
                fds |-> [fds EXCEPT ![h].at = 0]]
          ELSE [img |-> [img EXCEPT !.chd_pos = pos + len], rv |-> len,
                src |-> [disc |-> s.disc, file |-> s.file, at |-> s.at],
                fds |-> [fds EXCEPT ![h] = [s EXCEPT !.at = @ + len]]]
  BY <1>1 DEF cdimage_chd_read_exact
<1>3. StreamOk(img, d, h, fds[h])
  BY <1>1 DEF Held, Streams
<1>4. fds[h] = St(fds[h].at) /\ fds[h].at \in Nat /\ img.chd_pos \in {-1, fds[h].at}
  BY <1>1, <1>3 DEF StreamOk, Cached, FileAt, Positioned
<1>5. \A a, b : [St(a) EXCEPT !.at = b] = St(b)
  OBVIOUS
<1>6. s = St(pos) /\ [fds[h] EXCEPT !.at = 0] = St(0)
  <2> DEFINE u == fds[h]
             a == u.at
  <2>1. u = St(a) /\ (img.chd_pos = pos => a = pos)
    BY <1>4
  <2>2. s = IF img.chd_pos = pos THEN u ELSE [u EXCEPT !.at = pos]
    OBVIOUS
  <2> HIDE DEF a, u, s, St
  <2>3. [u EXCEPT !.at = 0] = St(0) /\ [u EXCEPT !.at = pos] = St(pos)
    BY <1>5, <2>1
  <2>4. s = St(pos)
    BY <2>1, <2>2, <2>3
  <2>5. QED
    BY <2>3, <2>4 DEF u
<1> HIDE DEF r
<1>7. ASSUME NEW a \in Nat, NEW p \in {-1, a}
      PROVE  Held(d, g, [img EXCEPT !.chd_pos = p], [fds EXCEPT ![h] = St(a)])
  <2> DEFINE q == ChdAt(img, p)
  <2>1. Image(q, d, g) /\ \A f : Cached(q, d, f) = p
    BY <1>1, ChdPos
  <2> HIDE DEF q
  <2>2. StreamOk(q, d, h, St(a))
    <3>1. FileAt(d, h[2]) = 1
      BY DEF FileAt
    <3>2. Cached(q, d, h[2]) = p
      BY <2>1
    <3>3. QED
      BY <3>1, <3>2 DEF StreamOk
  <2>3. \A e : Positioned(d, e) => e = 1
    BY DEF Positioned
  <2>4. Held(d, g, q, [fds EXCEPT ![h] = St(a)])
    BY <1>1, <2>1, <2>2, <2>3, HeldMoves
  <2>5. QED
    BY <2>4 DEF q, ChdAt
<1> HIDE DEF s
<1>8. s.disc = d.name /\ s.file = 1 /\ s.at = pos /\ s.size = size
  BY <1>6
<1>9. CASE no
  <2>1. r.img = [img EXCEPT !.chd_pos = -1] /\ r.rv = -1 /\ r.fds = [fds EXCEPT ![h] = St(0)]
    BY <1>2, <1>6, <1>9
  <2>2. Held(d, g, r.img, r.fds)
    BY <1>7, <2>1
  <2>3. ExactOk(d, pos, len, io, r)
    BY <1>8, <1>9, <2>1 DEF ExactOk
  <2>4. QED
    BY <2>2, <2>3 DEF r
<1>10. CASE ~no
  <2>1. [s EXCEPT !.at = s.at + len] = St(pos + len)
    BY <1>5, <1>6, <1>8
  <2>2. /\ r.img = [img EXCEPT !.chd_pos = pos + len] /\ r.rv = len
        /\ r.src = [disc |-> d.name, file |-> 1, at |-> pos] /\ r.fds = [fds EXCEPT ![h] = St(pos + len)]
    BY <1>2, <1>8, <1>10, <2>1
  <2>3. pos + len \in Nat
    OBVIOUS
  <2>4. Held(d, g, r.img, r.fds)
    BY <1>7, <2>2, <2>3
  <2>5. ExactOk(d, pos, len, io, r)
    BY <2>2 DEF ExactOk
  <2>6. QED
    BY <2>4, <2>5 DEF r
<1>11. QED
  BY <1>9, <1>10

-----------------------------------------------------------------------------
(* What a read of a sector should bring, and when a read at an address     *)
(* brings it.                                                              *)

Good(d, sector, len, io, rv, src) ==
  LET f == FrameOf(d, sector)
  IN  /\ rv > 0 =>
           /\ OnDisc(d, sector) /\ rv <= MinOf(len, f.size)
           /\ IF f.use = "gap" THEN src = Zeros
              ELSE /\ src = [disc |-> d.name, file |-> f.file,
                             at |-> f.pos + (IF len < f.size THEN f.offset ELSE 0)]
                   /\ Fits(f, len) => (IF len < f.size THEN f.offset ELSE 0) + rv <= f.size
      /\ io.seek /\ io.read = "all" =>
           IF OnDisc(d, sector) /\ f.use # "lost" THEN Fits(f, len) => rv = MinOf(len, f.size)
           ELSE rv <= 0

\* The byte at which sector s begins in run i.
Place(d, i, s) == d.segs[i].pos + (s - d.segs[i].first) * d.segs[i].step

\* A read that fits its frame ends in the file.
LEMMA InFull ==
  ASSUME NEW len \in Nat, NEW size \in Nat, NEW off \in Nat, NEW at \in Int, NEW total \in Nat,
         NEW pos \in Int, at + size <= total, pos = at + (IF len < size THEN off ELSE 0),
         len >= size \/ len + off <= size
  PROVE  MinOf(MinOf(len, size), IF total > pos THEN total - pos ELSE 0) = MinOf(len, size)
BY DEF MinOf

\* No more than what was asked for of a frame, by a length that fits it.
LEMMA Within ==
  ASSUME NEW fr, NEW len \in Nat, NEW rv \in Int, fr.size \in Nat, fr.offset \in Nat,
         rv <= MinOf(len, fr.size), Fits(fr, len)
  PROVE  (IF len < fr.size THEN fr.offset ELSE 0) + rv <= fr.size
BY DEF MinOf, Fits

\* A read at the place of the sector's frame, whole or behind its header.
LEMMA GoodAt ==
  ASSUME NEW d \in Discs, NEW i \in 1..Len(d.segs), NEW s \in Nat, NEW len \in Nat, NEW io \in Io,
         NEW f, NEW pos, NEW n, NEW r, Tiled(d), Holds(d, i, s),
         d.segs[i].use = "track", d.segs[i].file = FileAt(d, f), d.files[FileAt(d, f)].size \in Nat,
         Place(d, i, s) + d.segs[i].size <= d.files[FileAt(d, f)].size,
         pos = Place(d, i, s) + (IF len < d.segs[i].size THEN d.segs[i].offset ELSE 0),
         n = MinOf(len, d.segs[i].size), ReadOk(d, f, pos, n, io, r)
  PROVE  Good(d, s, len, io, r.rv, r.src)
<1> DEFINE fr == FrameOf(d, s)
           size == d.files[FileAt(d, f)].size
           at == Place(d, i, s)
<1>1. /\ fr.pos = at /\ fr.file = FileAt(d, f) /\ fr.size = d.segs[i].size
      /\ fr.offset = d.segs[i].offset /\ fr.use = "track" /\ OnDisc(d, s)
  BY FrameIs, SegOfIs DEF Place
<1>2. d.segs[i].size \in Nat /\ d.segs[i].offset \in Nat
  BY SegType
<1>3. at \in Int
  <2>1. d.segs[i].pos \in Int /\ s - d.segs[i].first \in Int /\ d.segs[i].step \in Int
    BY SegType, SMTT(30)
  <2>2. \A a, b, c \in Int : a + b * c \in Int
    OBVIOUS
  <2>3. QED
    BY <2>1, <2>2 DEF Place
<1>4. at + d.segs[i].size <= size /\ pos = at + (IF len < d.segs[i].size THEN d.segs[i].offset ELSE 0)
      /\ size \in Nat
  OBVIOUS
<1> HIDE DEF fr, at, size
<1>5. /\ r.rv \in Int /\ r.rv <= MinOf(len, fr.size)
      /\ r.rv > 0 => r.src = [disc |-> d.name, file |-> fr.file, at |-> pos]
      /\ io.seek /\ io.read = "all" =>
           r.rv = MinOf(MinOf(len, fr.size), IF size > pos THEN size - pos ELSE 0)
  BY <1>1 DEF ReadOk, size
<1>6. pos = fr.pos + (IF len < fr.size THEN fr.offset ELSE 0)
  BY <1>1, <1>4
<1>7. Fits(fr, len) /\ io.seek /\ io.read = "all" => r.rv = MinOf(len, fr.size)
  <2>1. (fr.offset \in Nat /\ fr.size \in Nat /\ fr.pos \in Int /\ fr.pos + fr.size <= size)
    BY <1>1, <1>2, <1>3, <1>4
  <2>2. Fits(fr, len) =>
          MinOf(MinOf(len, fr.size), IF size > pos THEN size - pos ELSE 0) = MinOf(len, fr.size)
    <3>1. size \in Nat
      BY <1>4
    <3>2. Fits(fr, len) => len >= fr.size \/ len + fr.offset <= fr.size
      BY DEF Fits
    <3>3. pos \in Int
      BY <1>6, <2>1
    <3> DEFINE z == fr.size
               o == fr.offset
               a == fr.pos
    <3>4. /\ o \in Nat /\ z \in Nat /\ a \in Int /\ a + z <= size /\ pos = a + (IF len < z THEN o ELSE 0)
          /\ Fits(fr, len) => len >= z \/ len + o <= z
      BY <1>6, <2>1, <3>2
    <3> HIDE DEF z, o, a
    <3>5. Fits(fr, len) => MinOf(MinOf(len, z), IF size > pos THEN size - pos ELSE 0) = MinOf(len, z)
      BY <3>1, <3>3, <3>4, InFull
    <3>6. QED
      BY <3>5 DEF z
  <2>3. QED
    BY <1>5, <2>2
<1>8. Fits(fr, len) => (IF len < fr.size THEN fr.offset ELSE 0) + r.rv <= fr.size
  BY <1>1, <1>2, <1>5, Within
<1>9. QED
  BY <1>1, <1>5, <1>6, <1>7, <1>8 DEF Good, fr

\* A read past the end of a stream, for a sector that is not there.
LEMMA GoodPast ==
  ASSUME NEW d, NEW s, NEW len \in Nat, NEW n \in Nat, NEW io \in Io, NEW f, NEW pos \in Nat, NEW r,
         OnDisc(d, s) => FrameOf(d, s).use = "lost",
         d.files[FileAt(d, f)].size \in Nat, d.files[FileAt(d, f)].size <= pos,
         ReadOk(d, f, pos, n, io, r)
  PROVE  Good(d, s, len, io, r.rv, r.src)
<1>1. r.rv \in Int /\ ~(r.rv > 0)
  BY DEF ReadOk
<1>2. r.rv <= 0
  BY <1>1
<1>3. QED
  BY <1>1, <1>2 DEF Good

\* Refusing a sector that no run, or a lost one, holds.
LEMMA GoodRefused ==
  ASSUME NEW d, NEW s, NEW len \in Nat, NEW io, NEW src, OnDisc(d, s) => FrameOf(d, s).use = "lost"
  PROVE  Good(d, s, len, io, -1, src)
BY DEF Good

\* Products grow with their factors.
LEMMA MulMono ==
  ASSUME NEW a \in Nat, NEW b \in Nat, NEW m \in Nat, a <= b
  PROVE  a * m <= b * m /\ a * m \in Nat /\ b * m \in Nat
<1>1. PICK c \in Nat : b = a + c
  <2>1. b - a \in Nat /\ b = a + (b - a)
    OBVIOUS
  <2>2. QED
    BY <2>1
<1>2. b * m = a * m + c * m
  BY <1>1
<1>3. a * m \in Nat /\ c * m \in Nat
  OBVIOUS
<1>4. QED
  BY <1>2, <1>3

\* A step of one factor adds the other.
LEMMA MulStep ==
  ASSUME NEW a \in Nat, NEW b \in Nat, NEW m \in Nat, a < b
  PROVE  a * m + m <= b * m /\ a * m \in Nat /\ b * m \in Nat
<1>1. (a + 1) * m <= b * m /\ a * m \in Nat /\ b * m \in Nat
  BY MulMono
<1>2. (a + 1) * m = a * m + m
  OBVIOUS
<1>3. QED
  BY <1>1, <1>2

\* Min is the least element.
LEMMA Lowest ==
  ASSUME NEW n \in Nat, NEW S \in SUBSET (1..n), S # {}
  PROVE  Min(S) \in S
<1>1. S \in SUBSET Nat
  OBVIOUS
<1>2. \E m \in S : \A j \in S : m <= j
  BY <1>1, Least
<1>3. QED
  BY <1>2 DEF Min

\* The tracks whose INDEX 01 is the last at or before a sector.
Found(img, s) ==
  {i \in DOMAIN img.tracks : /\ s >= img.tracks[i].start_lba
                             /\ i < Len(img.tracks) => s < img.tracks[i + 1].start_lba}

\* retro_cdimage_get_track_for_sector finds a track that holds the sector, if any does.
LEMMA TrackFor ==
  ASSUME NEW img, NEW n \in Nat, img.chd = None, DOMAIN img.tracks = 1..n, NEW s
  PROVE  LET k == retro_cdimage_get_track_for_sector(img, s)
         IN  /\ Found(img, s) = {} => k = -1
             /\ Found(img, s) # {} => k \in Found(img, s) /\ k # -1 /\ k \in 1..n
<1> DEFINE k == retro_cdimage_get_track_for_sector(img, s)
<1>1. k = IF Found(img, s) = {} THEN -1 ELSE Min(Found(img, s))
  BY DEF retro_cdimage_get_track_for_sector, Found
<1>2. Found(img, s) \in SUBSET (1..n)
  BY DEF Found
<1> HIDE DEF k
<1>3. Found(img, s) # {} => k \in Found(img, s)
  BY <1>1, <1>2, Lowest
<1>4. QED
  BY <1>1, <1>2, <1>3 DEF k

\* The read that follows a track's table entry.
LEMMA ByTrack ==
  ASSUME NEW img, NEW s, NEW len, NEW io, NEW k, NEW t, NEW h,
         img.chd = None, img.fp # None, retro_cdimage_get_track_for_sector(img, s) = k, k # -1,
         t = img.tracks[k], h = IF img.files = <<>> THEN img.fp ELSE img.files[t.file].fp
  PROVE  retro_cdimage_read_sector(img, s, len, io) =
           cdimage_read_at(img, h, t.file_offset + (s - t.start_lba) * t.mode
                                     + (IF len >= t.mode THEN 0 ELSE t.offset), MinOf(len, t.mode), io)
BY DEF retro_cdimage_read_sector

\* A sector before the first track is read as the image's own.
LEMMA ByImage ==
  ASSUME NEW img, NEW s, NEW len, NEW io,
         img.chd = None, img.fp # None, retro_cdimage_get_track_for_sector(img, s) = -1
  PROVE  retro_cdimage_read_sector(img, s, len, io) =
           IF Len(img.files) > 1 THEN Refused(img) ELSE retro_cdimage_read(img, s, len, io)
BY DEF retro_cdimage_read_sector

-----------------------------------------------------------------------------
(* An image without a sheet.                                               *)

\* The sector size and header guessed from the length are those of the disc.
LEMMA IsoGeometry ==
  ASSUME NEW d \in Discs, d.kind = "iso", MasteredIso(d)
  PROVE  /\ Len(d.segs) = 1 /\ d.files[1].size \in Nat /\ d.segs[1].count \in Nat
         /\ d.segs[1].size = IsoMode(d) /\ d.segs[1].offset = IsoOffset(d) /\ IsoMode(d) \in {2048, 2352}
         /\ IsoOffset(d) \in {0, 16}
         /\ d.segs[1].step = IsoMode(d) /\ d.segs[1].pos = 0 /\ d.segs[1].file = 1
         /\ d.segs[1].use = "track" /\ d.segs[1].count * IsoMode(d) = d.files[1].size
         /\ d.files[1].size \div IsoMode(d) = d.segs[1].count
<1> DEFINE size == d.files[1].size
           c == d.segs[1].count
<1>1. size \in Nat
  <2>1. d.files \in Seq([size : Nat, ok : BOOLEAN]) /\ d.files # <<>>
    BY DiscsAssumption
  <2>2. d.files[1] \in [size : Nat, ok : BOOLEAN]
    BY <2>1, NonEmptySeqElements
  <2>3. QED
    BY <2>2
<1>2. /\ Len(d.segs) = 1 /\ d.segs[1].file = 1 /\ d.segs[1].pos = 0 /\ d.segs[1].step = d.segs[1].size
      /\ d.segs[1].use = "track"
      /\ d.segs[1].size = (IF size % 2048 = 0 THEN 2048 ELSE 2352) /\ c * d.segs[1].size = size
      /\ d.segs[1].offset = IF d.segs[1].size = 2048 \/ (d.bin /\ ~d.scan) THEN 0 ELSE 16
  BY DEF MasteredIso
<1>3. c \in Nat
  BY <1>2, SegType
<1>4. d.bin \in BOOLEAN /\ d.scan \in BOOLEAN
  BY DiscsAssumption
<1> HIDE DEF size, c
<1>5. d.segs[1].size = IsoMode(d)
  <2>1. CASE size % 2048 = 0
    BY <1>2, <2>1 DEF IsoMode, IsoRaw, size
  <2>2. CASE size % 2048 # 0
    <3>1. c * 2352 = size
      BY <1>2, <2>2
    <3>2. (c * 2352) % 2352 = 0
      BY <1>3
    <3>3. QED
      BY <1>2, <2>2, <3>1, <3>2 DEF IsoMode, IsoRaw, size
  <2>3. QED
    BY <2>1, <2>2
<1>6. IsoMode(d) \in {2048, 2352} /\ IsoOffset(d) \in {0, 16} /\ (IsoMode(d) = 2352 <=> IsoRaw(d))
  BY DEF IsoMode, IsoOffset
<1>7. d.segs[1].offset = IsoOffset(d)
  BY <1>2, <1>4, <1>5, <1>6 DEF IsoOffset, IsoAudio
<1>8. size \div IsoMode(d) = c
  <2>1. c * IsoMode(d) = size
    BY <1>2, <1>5
  <2>2. CASE IsoMode(d) = 2048
    BY <1>3, <2>1, <2>2, Frames2048
  <2>3. CASE IsoMode(d) = 2352
    BY <1>3, <2>1, <2>3, Frames2352
  <2>4. QED
    BY <1>6, <2>2, <2>3
<1>9. QED
  BY <1>1, <1>2, <1>3, <1>5, <1>6, <1>7, <1>8 DEF size, c

\* Reads of an ISO or a BIN.
LEMMA IsoReads ==
  ASSUME NEW d \in Discs, NEW g \in {0, 1}, NEW img, NEW s \in Nat, NEW len \in Nat, NEW io \in Io,
         d.kind = "iso", Held(d, g, img, fds)
  PROVE  LET r == retro_cdimage_read_sector(img, s, len, io)
         IN  /\ Held(d, g, r.img, r.fds)
             /\ Good(d, s, len, io, r.rv, r.src)
<1> DEFINE r == retro_cdimage_read_sector(img, s, len, io)
           m == IsoMode(d)
           o == IsoOffset(d)
           c == d.segs[1].count
           pos == s * m + (IF len >= m THEN 0 ELSE o)
           n == MinOf(len, m)
<1>1. IsoImage(img, d, g) /\ MasteredIso(d) /\ Tiled(d) /\ <<g, 1>> \in Handles(d, g)
  BY HeldKind
<1>2. /\ Len(d.segs) = 1 /\ d.files[1].size \in Nat /\ c \in Nat
      /\ d.segs[1].size = m /\ d.segs[1].offset = o /\ m \in {2048, 2352} /\ o \in {0, 16}
      /\ d.segs[1].step = m /\ d.segs[1].pos = 0 /\ d.segs[1].file = 1
      /\ d.segs[1].use = "track" /\ c * m = d.files[1].size
  BY <1>1, IsoGeometry
<1>3. d.segs[1].first = 0 /\ DOMAIN d.segs = 1..1
  <2>1. DOMAIN d.segs = 1..Len(d.segs)
    BY SegType
  <2>2. 1 \in DOMAIN d.segs
    BY <1>2, <2>1
  <2>3. QED
    BY <1>1, <1>2, <2>1, <2>2 DEF Tiled
<1>4. img.chd = None /\ img.fp = <<g, 1>> /\ img.fp # None /\ img.files = <<>> /\ img.tracks = <<IsoTrack(d)>>
  BY <1>1 DEF IsoImage, None
<1>5. retro_cdimage_get_track_for_sector(img, s) = 1
  <2>1. DOMAIN img.tracks = 1..1 /\ img.tracks[1] = IsoTrack(d) /\ Len(img.tracks) = 1
    BY <1>4
  <2>2. img.tracks[1].start_lba = 0
    BY <2>1 DEF IsoTrack
  <2>3. Found(img, s) = {1}
    BY <2>1, <2>2 DEF Found
  <2>4. QED
    BY <1>4, <2>1, <2>3, TrackFor
<1>6. r = cdimage_read_at(img, <<g, 1>>, pos, n, io)
  <2> DEFINE t == IsoTrack(d)
  <2>1. t = img.tracks[1] /\ <<g, 1>> = IF img.files = <<>> THEN img.fp ELSE img.files[t.file].fp
    BY <1>4
  <2>2. t.file_offset = 0 /\ t.start_lba = 0 /\ t.mode = m /\ t.offset = o
    BY DEF IsoTrack
  <2> HIDE DEF t
  <2>3. r = cdimage_read_at(img, <<g, 1>>, t.file_offset + (s - t.start_lba) * t.mode
                                  + (IF len >= t.mode THEN 0 ELSE t.offset), MinOf(len, t.mode), io)
    BY <1>4, <1>5, <2>1, ByTrack
  <2> HIDE DEF m, o
  <2>4. 0 + (s - 0) * m = s * m
    BY <1>2
  <2>5. QED
    BY <2>2, <2>3, <2>4
<1>7. s * m \in Nat /\ pos \in Nat /\ n \in Nat /\ FileAt(d, 1) = 1
  <2> HIDE DEF m, o
  <2>1. s * m \in Nat
    BY <1>2
  <2>2. QED
    BY <1>2, <2>1 DEF MinOf, FileAt
<1> HIDE DEF r, m, o, c, pos, n
<1>8. Held(d, g, r.img, r.fds) /\ ReadOk(d, 1, pos, n, io, r)
  BY <1>1, <1>2, <1>6, <1>7, ReadAt
<1>9. CASE s < c
  <2>1. Holds(d, 1, s)
    BY <1>2, <1>3, <1>9 DEF Holds, c
  <2>2. s * m + m <= c * m
    BY <1>2, <1>9, MulStep
  <2>3. Place(d, 1, s) = s * m
    BY <1>2, <1>3 DEF Place
  <2>4. /\ Place(d, 1, s) + d.segs[1].size <= d.files[FileAt(d, 1)].size
        /\ pos = Place(d, 1, s) + (IF len < d.segs[1].size THEN d.segs[1].offset ELSE 0)
    BY <1>2, <1>7, <2>2, <2>3 DEF pos
  <2>5. n = MinOf(len, d.segs[1].size)
    BY <1>2 DEF n
  <2>6. Good(d, s, len, io, r.rv, r.src)
    <3>1. /\ 1 \in 1..Len(d.segs) /\ d.segs[1].use = "track" /\ d.segs[1].file = FileAt(d, 1)
          /\ d.files[FileAt(d, 1)].size \in Nat
      BY <1>2, <1>7
    <3>2. ReadOk(d, 1, pos, n, io, r) /\ Tiled(d)
      BY <1>1, <1>8
    <3>3. QED
      BY <2>1, <2>4, <2>5, <3>1, <3>2, GoodAt
  <2>7. QED
    BY <1>8, <2>6 DEF r
<1>10. CASE ~(s < c)
  <2>1. ~OnDisc(d, s)
    <3> SUFFICES ASSUME OnDisc(d, s) PROVE FALSE
      OBVIOUS
    <3>1. PICK i \in 1..Len(d.segs) : Holds(d, i, s)
      BY OnDiscHolds
    <3>2. QED
      BY <1>2, <1>3, <1>10, <3>1 DEF Holds, c
  <2>2. c * m <= s * m
    BY <1>2, <1>10, MulMono
  <2>3. d.files[FileAt(d, 1)].size <= pos
    BY <1>2, <1>7, <2>2 DEF pos
  <2>4. Good(d, s, len, io, r.rv, r.src)
    <3>1. d.files[FileAt(d, 1)].size \in Nat /\ pos \in Nat /\ n \in Nat
      BY <1>2, <1>7
    <3>2. ReadOk(d, 1, pos, n, io, r)
      BY <1>8
    <3>3. QED
      BY <2>1, <2>3, <3>1, <3>2, GoodPast
  <2>5. QED
    BY <1>8, <2>4 DEF r
<1>11. QED
  BY <1>9, <1>10

-----------------------------------------------------------------------------
(* A cue sheet.                                                            *)

\* A run ends in its file.
LEMMA RunInFile ==
  ASSUME NEW d, Sheet(d), NEW i \in 1..Len(d.segs)
  PROVE  /\ d.segs[i].file \in 1..Len(Files(d)) /\ d.files[d.segs[i].file].size \in Nat
         /\ EndOf(d.segs[i]) <= d.files[d.segs[i].file].size
<1> DEFINE n == Len(d.segs)
           size(j) == d.files[d.segs[j].file].size
           Bad == {j \in 1..n : ~(EndOf(d.segs[j]) <= size(j))}
<1>1. n \in Nat /\ \A j \in 1..n : EndOf(d.segs[j]) \in Nat /\ EndOf(d.segs[j]) > d.segs[j].pos
                                /\ d.segs[j].pos \in Nat
  <2>1. n \in Nat
    BY SheetType
  <2>2. QED
    BY <2>1, SheetSizes, SegNat
<1>2. \A j \in 1..n : d.segs[j].file \in 1..Len(Files(d)) /\ size(j) \in Nat
  BY FilesAscend, SheetType
<1>3. ASSUME Bad # {} PROVE FALSE
  <2>1. Bad \in SUBSET (1..n)
    OBVIOUS
  <2> DEFINE j == Max(Bad)
  <2>2. j \in Bad /\ \A k \in Bad : j >= k
    <3> HIDE DEF Bad
    <3>1. QED
      BY <1>1, <1>3, <2>1, Greatest
  <2>3. j \in 1..n /\ ~(EndOf(d.segs[j]) <= size(j))
    BY <2>2
  <2>4. j + 1 \in 1..n => EndOf(d.segs[j + 1]) <= size(j + 1)
    <3> SUFFICES ASSUME j + 1 \in 1..n, ~(EndOf(d.segs[j + 1]) <= size(j + 1)) PROVE FALSE
      OBVIOUS
    <3>1. j + 1 \in Bad
      OBVIOUS
    <3> HIDE DEF Bad, j
    <3>3. j \in Int
      BY <1>1, <2>3
    <3>2. j >= j + 1
      BY <2>2, <3>1
    <3>4. QED
      BY <3>2, <3>3
  <2> HIDE DEF j, Bad
  <2>5. CASE j = n
    <3>1. EndOf(d.segs[n]) = size(n)
      BY SheetOrder
    <3>2. QED
      BY <1>1, <1>2, <2>3, <2>5, <3>1
  <2>6. CASE j # n
    <3>1. j \in 1..(n - 1) /\ j + 1 \in 1..n
      BY <1>1, <2>3, <2>6
    <3>2. Follows(d, j)
      BY <3>1, SheetOrder
    <3>3. \/ d.segs[j + 1].file = d.segs[j].file /\ d.segs[j + 1].pos = EndOf(d.segs[j])
          \/ EndOf(d.segs[j]) = size(j)
      BY <3>2 DEF Follows
    <3> DEFINE a == EndOf(d.segs[j])
               b == EndOf(d.segs[j + 1])
               z == size(j)
    <3>4. a \in Nat /\ b \in Nat /\ z \in Nat /\ b > d.segs[j + 1].pos /\ d.segs[j + 1].pos \in Nat
      BY <1>1, <1>2, <2>3, <3>1
    <3>5. ~(a <= z) /\ b <= size(j + 1)
      BY <2>3, <2>4, <3>1
    <3>6. d.segs[j + 1].file = d.segs[j].file => size(j + 1) = z
      OBVIOUS
    <3> HIDE DEF a, b, z, size
    <3>7. (d.segs[j + 1].file = d.segs[j].file /\ d.segs[j + 1].pos = a) \/ a = z
      BY <3>3 DEF a, z, size
    <3>8. QED
      BY <3>4, <3>5, <3>6, <3>7
  <2>7. QED
    BY <2>5, <2>6
<1>4. QED
  BY <1>2, <1>3

\* The table of a sheet's tracks is the table of its runs.
LEMMA CueTable ==
  ASSUME NEW d, Sheet(d)
  PROVE  /\ DOMAIN CueTracks(d) = 1..Len(Tr(d)) /\ Len(CueTracks(d)) = Len(Tr(d))
         /\ \A k \in 1..Len(Tr(d)) :
              LET t == CueTracks(d)[k]
                  g == d.segs[RunOf(d, k)]
              IN  /\ t.num = Tr(d)[k].num /\ t.file = g.file /\ t.start_lba = g.first
                  /\ t.file_offset = g.pos /\ t.mode = g.size /\ t.offset = g.offset
<1> DEFINE n == Len(Tr(d))
<1>1. n \in Nat /\ DOMAIN Tr(d) = 1..n
  BY SheetType
<1>2. /\ DOMAIN CueTracks(d) = 1..n /\ Len(CueTracks(d)) = n
      /\ \A k \in 1..n :
           LET t == CueTracks(d)[k]
           IN  /\ t.num = Tr(d)[k].num /\ t.file = Tr(d)[k].file /\ t.start_lba = CueStart(d, k)
               /\ t.file_offset = CueOffsets(Tr(d))[k] /\ t.mode = Mode(Tr(d)[k])
               /\ t.offset = cdimage_offset_for_cue_format(Tr(d)[k].format)
  <2> DEFINE ts == cue_get(d).tracks
             next == [k \in DOMAIN ts |->
                       IF k = Len(ts) THEN CueBases(d)[Len(cue_get(d).files) + 1] ELSE CueStart(d, k + 1)]
             Entry(k) ==
               [num |-> ts[k].num, file |-> ts[k].file, audio |-> ts[k].format = "AUDIO",
                start_lba |-> CueStart(d, k),
                frames |-> IF next[k] > CueStart(d, k) THEN next[k] - CueStart(d, k) ELSE 0,
                file_offset |-> CueOffsets(ts)[k], mode |-> cdimage_mode_for_cue_format(ts[k].format),
                offset |-> cdimage_offset_for_cue_format(ts[k].format)]
  <2>1. CueTracks(d) = [k \in DOMAIN ts |-> Entry(k)]
    BY DEF CueTracks
  <2>2. DOMAIN ts = 1..n /\ ts = Tr(d)
    BY <1>1 DEF Tr
  <2>3. \A k : /\ Entry(k).num = Tr(d)[k].num /\ Entry(k).file = Tr(d)[k].file
               /\ Entry(k).start_lba = CueStart(d, k) /\ Entry(k).file_offset = CueOffsets(Tr(d))[k]
               /\ Entry(k).mode = Mode(Tr(d)[k])
               /\ Entry(k).offset = cdimage_offset_for_cue_format(Tr(d)[k].format)
    BY <2>2 DEF Mode
  <2> HIDE DEF Entry, ts, n
  <2>4. CueTracks(d) = [k \in 1..n |-> Entry(k)]
    BY <2>1, <2>2
  <2>5. DOMAIN CueTracks(d) = 1..n /\ Len(CueTracks(d)) = n
    BY <1>1, <2>4
  <2>6. \A k \in 1..n : CueTracks(d)[k] = Entry(k)
    BY <2>4
  <2>7. QED
    BY <2>3, <2>5, <2>6
<1>3. ASSUME NEW k \in 1..n
      PROVE  LET g == d.segs[RunOf(d, k)]
             IN  /\ g.file = Tr(d)[k].file /\ g.first = CueStart(d, k) /\ g.pos = CueOffsets(Tr(d))[k]
                 /\ g.size = Mode(Tr(d)[k]) /\ g.offset = cdimage_offset_for_cue_format(Tr(d)[k].format)
  <2>1. RunOf(d, k) \in 1..Len(d.segs) /\ d.segs[RunOf(d, k)].track = k /\ k # 0
    BY <1>1, RunOfIs
  <2>2. QED
    BY <2>1, TrackRunFacts, StartsTrue, OffsetsTrue
<1> HIDE DEF n
<1>4. QED
  BY <1>2, <1>3 DEF n

\* Later tracks start later.
LEMMA StartsAscend ==
  ASSUME NEW d, Sheet(d), NEW k \in 1..Len(Tr(d)), NEW l \in 1..Len(Tr(d)), k < l
  PROVE  d.segs[RunOf(d, k)].first < d.segs[RunOf(d, l)].first
<1> DEFINE i == RunOf(d, k)
           j == RunOf(d, l)
<1>1. i \in 1..Len(d.segs) /\ j \in 1..Len(d.segs) /\ i < j
  BY RunOfIs, RunsInOrder
<1> HIDE DEF i, j
<1>2. d \in Discs /\ Tiled(d)
  BY DEF Sheet
<1>3. d.segs[i].first + d.segs[i].count <= d.segs[j].first
  BY <1>1, <1>2, Tiles
<1>4. d.segs[i].first \in Nat /\ d.segs[i].count \in Nat /\ d.segs[j].first \in Nat /\ d.segs[i].count > 0
  BY <1>1, SegNat, SheetSizes
<1>5. QED
  BY <1>3, <1>4 DEF i, j

\* Of the tracks, the one found for a sector is the last that starts at or before it.
LEMMA CueFound ==
  ASSUME NEW d, Sheet(d), NEW img, img.tracks = CueTracks(d), NEW s \in Nat
  PROVE  /\ \A k \in Found(img, s) :
              /\ k \in 1..Len(Tr(d)) /\ d.segs[RunOf(d, k)].first <= s
              /\ \A l \in 1..Len(Tr(d)) : k < l => s < d.segs[RunOf(d, l)].first
         /\ Found(img, s) = {} => \A k \in 1..Len(Tr(d)) : s < d.segs[RunOf(d, k)].first
<1> DEFINE n == Len(Tr(d))
           first(k) == d.segs[RunOf(d, k)].first
<1>1. n \in Nat /\ n > 0
  BY SheetType
<1>2. DOMAIN img.tracks = 1..n /\ Len(img.tracks) = n /\ \A k \in 1..n : img.tracks[k].start_lba = first(k)
  BY CueTable
<1>3. \A k \in 1..n : first(k) \in Nat
  BY RunOfIs, SegNat
<1>4. \A k, l \in 1..n : k < l => first(k) < first(l)
  BY StartsAscend
<1> HIDE DEF n, first
<1>5. \A k : k \in Found(img, s) <=> k \in 1..n /\ first(k) <= s /\ (k < n => s < first(k + 1))
  <2>1. ASSUME NEW k PROVE k \in Found(img, s) <=> k \in 1..n /\ first(k) <= s /\ (k < n => s < first(k + 1))
    <3>1. CASE k \in 1..n
      <4>1. k < n => k + 1 \in 1..n
        BY <1>1, <3>1
      <4>2. QED
        BY <1>2, <1>3, <3>1, <4>1 DEF Found
    <3>2. CASE k \notin 1..n
      BY <1>2, <3>2 DEF Found
    <3>3. QED
      BY <3>1, <3>2
  <2>2. QED
    BY <2>1
<1>6. ASSUME NEW k \in Found(img, s)
      PROVE  k \in 1..n /\ first(k) <= s /\ \A l \in 1..n : k < l => s < first(l)
  <2>1. k \in 1..n /\ first(k) <= s /\ (k < n => s < first(k + 1))
    BY <1>5
  <2>2. ASSUME NEW l \in 1..n, k < l PROVE s < first(l)
    <3>1. k < n /\ k + 1 \in 1..n
      BY <1>1, <2>1, <2>2
    <3>2. CASE l = k + 1
      BY <2>1, <3>1, <3>2
    <3>3. CASE l # k + 1
      <4>1. k + 1 < l
        BY <2>1, <2>2, <3>1, <3>3
      <4>2. first(k + 1) < first(l)
        BY <1>4, <3>1, <4>1
      <4>3. QED
        BY <1>3, <2>1, <3>1, <4>2
    <3>4. QED
      BY <3>2, <3>3
  <2>3. QED
    BY <2>1, <2>2
<1>7. ASSUME Found(img, s) = {}, NEW k \in 1..n PROVE s < first(k)
  <2> DEFINE S == {l \in 1..n : first(l) <= s}
  <2> SUFFICES ASSUME ~(s < first(k)) PROVE FALSE
    OBVIOUS
  <2>1. k \in S
    BY <1>3
  <2>2. S \in SUBSET (1..n) /\ S # {}
    BY <2>1
  <2> DEFINE m == Max(S)
  <2>3. m \in S /\ \A l \in S : m >= l
    <3> HIDE DEF S
    <3>1. QED
      BY <1>1, <2>2, Greatest
  <2>4. m \in 1..n /\ first(m) <= s
    BY <2>3
  <2>5. m < n => s < first(m + 1)
    <3> SUFFICES ASSUME m < n, ~(s < first(m + 1)) PROVE FALSE
      OBVIOUS
    <3>1. m + 1 \in 1..n
      BY <1>1, <2>4
    <3>2. m + 1 \in S
      BY <1>3, <3>1
    <3>3. m >= m + 1
      BY <2>3, <3>2
    <3>4. QED
      BY <2>4, <3>3
  <2> HIDE DEF m, S
  <2>6. m \in Found(img, s)
    BY <1>5, <2>4, <2>5
  <2>7. QED
    BY <1>7, <2>6
<1>8. QED
  BY <1>6, <1>7 DEF n, first

\* Sectors past the last frame of the last track that starts before them: the
\* rest of its file is nothing, and no track holds them.
LEMMA LostAfter ==
  ASSUME NEW d, NEW k \in 1..Len(Tr(d)), NEW s \in Nat, Sheet(d),
         d.segs[RunOf(d, k)].first + d.segs[RunOf(d, k)].count <= s,
         \A l \in 1..Len(Tr(d)) : k < l => s < d.segs[RunOf(d, l)].first
  PROVE  /\ EndOf(d.segs[RunOf(d, k)]) = d.files[d.segs[RunOf(d, k)].file].size
         /\ OnDisc(d, s) => FrameOf(d, s).use = "lost"
<1> DEFINE i == RunOf(d, k)
           n == Len(d.segs)
<1>1. i \in 1..n /\ d.segs[i].track = k /\ d \in Discs /\ Tiled(d) /\ n \in Nat /\ k \in Nat /\ k > 0
  BY RunOfIs, SheetType DEF Sheet
<1>2. \A j \in 1..n : d.segs[j].first \in Nat /\ d.segs[j].count \in Nat /\ d.segs[j].track \in Nat
  BY SegNat
<1> HIDE DEF i
\* A track run after run i starts after sector s.
<1>3. ASSUME NEW j \in 1..n, i < j, d.segs[j].track # 0 PROVE s < d.segs[j].first
  <2> DEFINE l == d.segs[j].track
  <2>1. l \in 1..Len(Tr(d))
    BY <1>3, TrackRunFacts
  <2>2. k < l
    BY <1>1, <1>3, TracksAscend
  <2>3. RunOf(d, l) = j
    BY <2>1, RunOfIs
  <2>4. QED
    BY <2>1, <2>2, <2>3
<1>4. d.segs[i].first + d.segs[i].count <= s
  BY DEF i
\* So a run that holds s is the head of a later file.
<1>5. ASSUME NEW j \in 1..n, Holds(d, j, s) PROVE i < j /\ d.segs[j].track = 0
  <2>1. i < j
    <3> SUFFICES ASSUME ~(i < j) PROVE FALSE
      OBVIOUS
    <3>1. CASE j = i
      BY <1>1, <1>2, <1>4, <1>5, <3>1 DEF Holds
    <3>2. CASE j # i
      <4>1. j < i
        BY <1>1, <3>2
      <4>2. d.segs[j].first + d.segs[j].count <= d.segs[i].first
        BY <1>1, <4>1, Tiles
      <4>3. /\ d.segs[i].first \in Nat /\ d.segs[i].count \in Nat /\ d.segs[j].first \in Nat
            /\ d.segs[j].count \in Nat /\ s < d.segs[j].first + d.segs[j].count
        BY <1>1, <1>2, <1>5 DEF Holds
      <4> DEFINE a == d.segs[i].first
                 b == d.segs[j].first + d.segs[j].count
                 c == d.segs[i].count
      <4>31. a \in Nat /\ c \in Nat /\ b \in Nat
        <5> DEFINE u == d.segs[j].first
                   v == d.segs[j].count
        <5>1. u \in Nat /\ v \in Nat /\ a \in Nat /\ c \in Nat
          BY <4>3
        <5>2. u + v \in Nat
          <6> HIDE DEF u, v
          <6>1. QED
            BY <5>1
        <5>3. QED
          BY <5>1, <5>2
      <4>32. a + c <= s /\ b <= a /\ s < b
        BY <1>4, <4>2, <4>3
      <4>4. a \in Nat /\ c \in Nat /\ b \in Nat /\ a + c <= s /\ b <= a /\ s < b
        BY <4>31, <4>32
      <4> HIDE DEF a, b, c
      <4>5. QED
        BY <4>4
    <3>3. QED
      BY <3>1, <3>2
  <2>2. d.segs[j].track = 0
    <3> SUFFICES ASSUME d.segs[j].track # 0 PROVE FALSE
      OBVIOUS
    <3>1. s < d.segs[j].first
      BY <1>3, <2>1
    <3>2. QED
      BY <1>2, <1>5, <3>1 DEF Holds
  <2>3. QED
    BY <2>1, <2>2
<1>6. CASE i = n
  <2>1. EndOf(d.segs[n]) = d.files[d.segs[n].file].size
    BY SheetOrder
  <2>2. ~OnDisc(d, s)
    <3> SUFFICES ASSUME OnDisc(d, s) PROVE FALSE
      OBVIOUS
    <3>1. PICK j \in 1..n : Holds(d, j, s)
      BY <1>1, OnDiscHolds
    <3>2. i < j
      BY <1>5, <3>1
    <3>3. QED
      BY <1>1, <1>6, <3>2
  <2>3. QED
    BY <1>6, <2>1, <2>2 DEF i
<1>7. CASE i # n
  <2>1. i \in 1..(n - 1) /\ i + 1 \in 1..n /\ i < i + 1
    BY <1>1, <1>7
  <2>2. Follows(d, i) /\ d.segs[i + 1].first = d.segs[i].first + d.segs[i].count
    BY <2>1, SheetOrder
  <2>3. d.segs[i + 1].track = 0
    <3> SUFFICES ASSUME d.segs[i + 1].track # 0 PROVE FALSE
      OBVIOUS
    <3>1. s < d.segs[i + 1].first
      BY <1>3, <2>1
    <3>2. QED
      BY <1>1, <1>2, <1>4, <2>1, <2>2, <3>1
  <2>4. d.segs[i + 1].pos = 0
    BY <2>1, <2>3, HeadRunFacts
  <2>5. d.segs[i + 1].file = d.segs[i].file + 1 /\ EndOf(d.segs[i]) = d.files[d.segs[i].file].size
    BY <2>2, <2>4 DEF Follows
  <2>6. Len(Files(d)) # 1
    <3>1. d.segs[i].file \in 1..Len(Files(d)) /\ d.segs[i + 1].file \in 1..Len(Files(d))
      BY <1>1, <2>1, FilesAscend
    <3> SUFFICES ASSUME Len(Files(d)) = 1 PROVE FALSE
      OBVIOUS
    <3>2. d.segs[i].file = 1 /\ d.segs[i + 1].file = 1
      BY <3>1
    <3>3. QED
      BY <2>5, <3>2
  <2>7. ASSUME OnDisc(d, s) PROVE FrameOf(d, s).use = "lost"
    <3>1. PICK j \in 1..n : Holds(d, j, s)
      BY <1>1, <2>7, OnDiscHolds
    <3>2. d.segs[j].track = 0
      BY <1>5, <3>1
    <3>3. d.segs[j].use = "lost"
      BY <2>6, <3>2, HeadRunFacts
    <3>4. QED
      BY <1>1, <3>1, <3>3, FrameIs
  <2>8. QED
    BY <2>5, <2>7 DEF i
<1>8. QED
  BY <1>6, <1>7

\* Sectors before the first track are the head of the first file, or lost.
LEMMA BeforeTracks ==
  ASSUME NEW d, NEW s \in Nat, Sheet(d), \A k \in 1..Len(Tr(d)) : s < d.segs[RunOf(d, k)].first
  PROVE  /\ Len(Files(d)) # 1 /\ OnDisc(d, s) => FrameOf(d, s).use = "lost"
         /\ Len(Files(d)) = 1 =>
              /\ Holds(d, 1, s) /\ d.segs[1].track = 0 /\ d.segs[1].use = "track"
              /\ d.segs[1].size = Mode(Tr(d)[1])
              /\ d.segs[1].offset = cdimage_offset_for_cue_format(Tr(d)[1].format)
<1> DEFINE i == RunOf(d, 1)
           n == Len(d.segs)
<1>1. 1 \in 1..Len(Tr(d)) /\ d \in Discs /\ Tiled(d) /\ n \in Nat /\ n > 0 /\ 1 \in 1..n
  BY SheetType DEF Sheet
<1>2. i \in 1..n /\ d.segs[i].track = 1
  BY <1>1, RunOfIs
<1>3. \A j \in 1..n : /\ d.segs[j].first \in Nat /\ d.segs[j].count \in Nat /\ d.segs[j].track \in Nat
                      /\ d.segs[j].file \in Nat
  BY SegNat
<1>4. s < d.segs[i].first
  BY <1>1
<1> HIDE DEF i
\* The runs before run i are heads of files.
<1>5. \A j \in 1..n : j < i => d.segs[j].track = 0
  <2> SUFFICES ASSUME NEW j \in 1..n, j < i PROVE d.segs[j].track = 0
    OBVIOUS
  <2>1. d.segs[j].track < d.segs[i].track
    BY <1>2, TracksAscend
  <2>2. QED
    BY <1>2, <1>3, <2>1
<1>6. ASSUME NEW j \in 1..n, Holds(d, j, s) PROVE j < i
  <2> SUFFICES ASSUME ~(j < i) PROVE FALSE
    OBVIOUS
  <2>1. CASE j = i
    BY <1>2, <1>3, <1>4, <1>6, <2>1 DEF Holds
  <2>2. CASE j # i
    <3>1. i < j
      BY <1>2, <2>2
    <3>2. d.segs[i].first + d.segs[i].count <= d.segs[j].first
      BY <1>1, <1>2, <3>1, Tiles
    <3>3. QED
      BY <1>2, <1>3, <1>4, <1>6, <3>2, SMTT(30) DEF Holds
  <2>3. QED
    BY <2>1, <2>2
<1>7. ASSUME Len(Files(d)) # 1, OnDisc(d, s) PROVE FrameOf(d, s).use = "lost"
  <2>1. PICK j \in 1..n : Holds(d, j, s)
    BY <1>1, <1>7, OnDiscHolds
  <2>2. d.segs[j].track = 0
    BY <1>5, <1>6, <2>1
  <2>3. d.segs[j].use = "lost"
    BY <1>7, <2>2, HeadRunFacts
  <2>4. QED
    BY <1>1, <2>1, <2>3, FrameIs
<1>8. ASSUME Len(Files(d)) = 1
      PROVE  /\ Holds(d, 1, s) /\ d.segs[1].track = 0 /\ d.segs[1].use = "track"
             /\ d.segs[1].size = Mode(Tr(d)[1])
             /\ d.segs[1].offset = cdimage_offset_for_cue_format(Tr(d)[1].format)
  <2>1. \A j \in 1..n : d.segs[j].file = 1
    <3>1. \A j \in 1..n : d.segs[j].file \in 1..Len(Files(d))
      BY FilesAscend
    <3>2. \A j \in 1..n : d.segs[j].file \in 1..1
      BY <1>8, <3>1
    <3>3. QED
      BY <3>2
  <2>2. d.segs[1].first = 0
    BY SheetOrder
  <2>3. i # 1
    BY <1>2, <1>4, <2>2
  <2>4. 1 < i
    BY <1>2, <2>3
  <2>5. d.segs[1].track = 0
    BY <1>1, <1>5, <2>4
  <2>6. i = 2
    <3> SUFFICES ASSUME i # 2 PROVE FALSE
      OBVIOUS
    <3>1. 2 \in 1..n /\ 2 < i /\ 1 < 2
      BY <1>2, <2>4
    <3>2. d.segs[2].track = 0
      BY <1>5, <3>1
    <3>3. d.segs[2].pos = 0
      BY <3>1, <3>2, HeadRunFacts
    <3>4. d.segs[1].file < d.segs[2].file
      BY <1>1, <3>1, <3>3, BeforeHead
    <3>5. QED
      BY <1>1, <2>1, <3>1, <3>4
  <2>7. d.segs[2].size = Mode(Tr(d)[1]) /\ 2 \in 1..n
    <3>1. 2 \in 1..n /\ d.segs[2].track = 1
      BY <1>2, <2>6
    <3>2. d.segs[2].size = Mode(Tr(d)[d.segs[2].track])
      BY <3>1, TrackRunFacts
    <3>3. QED
      BY <3>1, <3>2
  <2>8. d.segs[1].size = d.segs[2].size
    <3>1. 1 < n /\ 1 + 1 = 2 /\ d.segs[2].file = d.segs[1].file
      BY <1>1, <2>1, <2>7
    <3>2. QED
      BY <1>1, <2>5, <3>1, HeadRunFacts
  <2>9. d.segs[1].use = "track" /\ d.segs[1].offset = cdimage_offset_for_cue_format(Tr(d)[1].format)
    BY <1>1, <1>8, <2>5, HeadRunFacts
  <2>10. d.segs[2].first = d.segs[1].first + d.segs[1].count
    <3>1. 1 \in 1..(n - 1) /\ 1 + 1 = 2
      BY <1>1, <2>7
    <3>2. QED
      BY <3>1, SheetOrder
  <2>11. Holds(d, 1, s)
    BY <1>1, <1>3, <1>4, <2>2, <2>6, <2>10 DEF Holds
  <2>12. QED
    BY <2>5, <2>7, <2>8, <2>9, <2>11
<1>9. QED
  BY <1>7, <1>8

\* What the program reads when track k is found for sector s.
LEMMA CueByTrack ==
  ASSUME NEW d \in Discs, NEW g \in {0, 1}, NEW img, NEW s \in Nat, NEW len \in Nat, NEW io \in Io, NEW k,
         NEW i, d.kind = "cue", Held(d, g, img, fds), k = retro_cdimage_get_track_for_sector(img, s),
         k \in Found(img, s), i = RunOf(d, k)
  PROVE  LET r   == retro_cdimage_read_sector(img, s, len, io)
             n   == MinOf(len, d.segs[i].size)
             pos == Place(d, i, s) + (IF len < d.segs[i].size THEN d.segs[i].offset ELSE 0)
         IN  /\ pos \in Nat /\ n \in Nat /\ FileAt(d, d.segs[i].file) = d.segs[i].file
             /\ Held(d, g, r.img, r.fds) /\ ReadOk(d, d.segs[i].file, pos, n, io, r)
             /\ Place(d, i, s) = d.segs[i].pos + (s - d.segs[i].first) * d.segs[i].size
             /\ s - d.segs[i].first \in Nat /\ Place(d, i, s) \in Nat
<1> DEFINE r   == retro_cdimage_read_sector(img, s, len, io)
           f   == d.segs[i].file
           m   == d.segs[i].size
           o   == d.segs[i].offset
           n   == MinOf(len, m)
           at  == d.segs[i].pos + (s - d.segs[i].first) * m
           pos == at + (IF len < m THEN o ELSE 0)
           t   == CueTracks(d)[k]
<1>1. Sheet(d) /\ CueImage(img, d, g)
  BY HeldKind
<1>2. img.tracks = CueTracks(d) /\ img.chd = None /\ img.fp = <<g, 1>> /\ img.fp # None
  BY <1>1 DEF CueImage, None
<1>3. k \in 1..Len(Tr(d)) /\ d.segs[i].first <= s
  BY <1>1, <1>2, CueFound
<1>4. i \in 1..Len(d.segs) /\ d.segs[i].step = m
  BY <1>1, <1>3, RunOfIs, SheetSizes
<1>5. /\ t.file = f /\ t.start_lba = d.segs[i].first /\ t.file_offset = d.segs[i].pos
      /\ t.mode = m /\ t.offset = o
  BY <1>1, <1>3, CueTable
<1>6. f \in DOMAIN Files(d) /\ FileAt(d, f) = f /\ d.files[f].size \in Nat
  <2>1. f \in 1..Len(Files(d)) /\ d.files[f].size \in Nat
    BY <1>1, <1>4, RunInFile
  <2>2. f \in DOMAIN Files(d) /\ Files(d)[f] = f
    BY <1>1, <2>1, SheetType
  <2>3. QED
    BY <2>1, <2>2 DEF FileAt
<1>7. img.files # <<>> /\ img.files[t.file].fp = <<g, f>> /\ <<g, f>> \in Handles(d, g)
  <2>1. DOMAIN img.files = DOMAIN Files(d) /\ \A e \in DOMAIN Files(d) : img.files[e].fp = <<g, e>>
    BY <1>1 DEF CueImage
  <2>2. img.files # <<>> /\ img.files[f].fp = <<g, f>>
    BY <1>6, <2>1, SMTT(30)
  <2>3. <<g, f>> \in Handles(d, g)
    BY <1>6 DEF Handles, HandleNames
  <2>4. QED
    BY <1>5, <2>2, <2>3
<1>8. m \in Nat /\ o \in Nat /\ d.segs[i].pos \in Nat /\ s - d.segs[i].first \in Nat
  BY <1>1, <1>3, <1>4, SegType, SMTT(30)
<1>9. at \in Nat /\ pos \in Nat /\ n \in Nat /\ Place(d, i, s) = at
  <2> DEFINE a == s - d.segs[i].first
             b == d.segs[i].pos
  <2>1. at = b + a * m /\ a \in Nat /\ b \in Nat
    BY <1>8
  <2> HIDE DEF a, b, m, o
  <2>2. b + a * m \in Nat
    BY <1>8, <2>1
  <2>3. at \in Nat
    BY <2>1, <2>2
  <2>4. Place(d, i, s) = at
    BY <1>4 DEF Place, m
  <2> HIDE DEF at
  <2>5. QED
    BY <1>8, <2>3, <2>4 DEF MinOf
<1> HIDE DEF t, m, o, f, r
<1>10. k # -1
  BY <1>1, <1>3, SheetType
<1>11. r = cdimage_read_at(img, <<g, f>>, t.file_offset + (s - t.start_lba) * t.mode
                                   + (IF len >= t.mode THEN 0 ELSE t.offset), MinOf(len, t.mode), io)
  <2>1. t = img.tracks[k] /\ <<g, f>> = IF img.files = <<>> THEN img.fp ELSE img.files[t.file].fp
    BY <1>2, <1>7 DEF t
  <2> DEFINE h == <<g, f>>
  <2>2. /\ img.chd = None /\ img.fp # None /\ retro_cdimage_get_track_for_sector(img, s) = k /\ k # -1
        /\ t = img.tracks[k] /\ h = IF img.files = <<>> THEN img.fp ELSE img.files[t.file].fp
    BY <1>2, <1>10, <2>1
  <2> HIDE DEF h
  <2>3. retro_cdimage_read_sector(img, s, len, io) =
          cdimage_read_at(img, h, t.file_offset + (s - t.start_lba) * t.mode
                                    + (IF len >= t.mode THEN 0 ELSE t.offset), MinOf(len, t.mode), io)
    BY <2>2, ByTrack
  <2>4. QED
    BY <2>3 DEF r, h
<1>12. r = cdimage_read_at(img, <<g, f>>, pos, n, io)
  <2>1. (IF len >= t.mode THEN 0 ELSE t.offset) = (IF len < m THEN o ELSE 0)
    BY <1>5, <1>8
  <2>2. t.file_offset + (s - t.start_lba) * t.mode = at
    BY <1>5
  <2> HIDE DEF at
  <2>3. QED
    BY <1>5, <1>11, <2>1, <2>2
<1> HIDE DEF at, pos, n
<1>13. Held(d, g, r.img, r.fds) /\ ReadOk(d, f, pos, n, io, r)
  <2>1. d.files[FileAt(d, f)].size \in Nat
    BY <1>6
  <2>2. QED
    BY <1>7, <1>9, <1>12, <2>1, ReadAt
<1>14. QED
  BY <1>6, <1>8, <1>9, <1>13 DEF r, pos, n, m, o, f, at

\* Reads of a sheet's image.
LEMMA CueReads ==
  ASSUME NEW d \in Discs, NEW g \in {0, 1}, NEW img, NEW s \in Nat, NEW len \in Nat, NEW io \in Io,
         d.kind = "cue", Held(d, g, img, fds)
  PROVE  LET r == retro_cdimage_read_sector(img, s, len, io)
         IN  Held(d, g, r.img, r.fds) /\ Good(d, s, len, io, r.rv, r.src)
<1> DEFINE r == retro_cdimage_read_sector(img, s, len, io)
           k == retro_cdimage_get_track_for_sector(img, s)
<1>1. Sheet(d) /\ CueImage(img, d, g) /\ Tiled(d) /\ <<g, 1>> \in Handles(d, g)
  BY HeldKind
<1>2. img.tracks = CueTracks(d) /\ img.chd = None /\ img.fp = <<g, 1>> /\ img.fp # None
  BY <1>1 DEF CueImage, None
<1>3. /\ Found(img, s) = {} => k = -1
      /\ Found(img, s) # {} => k \in Found(img, s)
  <2>1. DOMAIN img.tracks = 1..Len(Tr(d)) /\ Len(Tr(d)) \in Nat
    BY <1>1, <1>2, CueTable, SheetType
  <2>2. QED
    BY <1>2, <2>1, TrackFor
<1> HIDE DEF r, k
<1>4. CASE Found(img, s) # {}
  <2> DEFINE i   == RunOf(d, k)
             f   == d.segs[i].file
             n   == MinOf(len, d.segs[i].size)
             pos == Place(d, i, s) + (IF len < d.segs[i].size THEN d.segs[i].offset ELSE 0)
  <2>1. k \in Found(img, s)
    BY <1>3, <1>4
  <2>2. /\ k \in 1..Len(Tr(d)) /\ d.segs[i].first <= s
        /\ \A l \in 1..Len(Tr(d)) : k < l => s < d.segs[RunOf(d, l)].first
    BY <1>1, <1>2, <2>1, CueFound
  <2>3. i \in 1..Len(d.segs) /\ d.segs[i].track # 0
    BY <1>1, <2>2, RunOfIs, SheetType
  <2>4. /\ pos \in Nat /\ n \in Nat /\ FileAt(d, f) = f
        /\ Held(d, g, r.img, r.fds) /\ ReadOk(d, f, pos, n, io, r)
        /\ Place(d, i, s) = d.segs[i].pos + (s - d.segs[i].first) * d.segs[i].size
        /\ s - d.segs[i].first \in Nat /\ Place(d, i, s) \in Nat
    BY <2>1, CueByTrack DEF r, k
  <2>5. EndOf(d.segs[i]) <= d.files[f].size /\ d.files[f].size \in Nat
    BY <1>1, <2>3, RunInFile
  <2>6. /\ EndOf(d.segs[i]) = d.segs[i].pos + d.segs[i].count * d.segs[i].size
        /\ d.segs[i].count \in Nat /\ d.segs[i].size \in Nat /\ d.segs[i].pos \in Nat
        /\ d.segs[i].first \in Nat /\ d.segs[i].offset \in Nat
    BY <1>1, <2>3, SheetSizes, SegType, SMTT(30)
  <2> DEFINE a == s - d.segs[i].first
             c == d.segs[i].count
             m == d.segs[i].size
             p == d.segs[i].pos
             z == d.files[f].size
             end == EndOf(d.segs[i])
             at == Place(d, i, s)
             o == d.segs[i].offset
  <2>7. /\ a \in Nat /\ c \in Nat /\ m \in Nat /\ p \in Nat /\ z \in Nat /\ o \in Nat /\ at \in Nat
        /\ end = p + c * m /\ at = p + a * m /\ end <= z /\ pos = at + (IF len < m THEN o ELSE 0)
    BY <2>4, <2>5, <2>6
  <2>8. CASE a < c
    <3>1. Holds(d, i, s)
      BY <2>2, <2>6, <2>8, SMTT(30) DEF Holds
    <3>2. d.segs[i].use = "track"
      BY <1>1, <2>3, TrackRunFacts
    <3>3. Place(d, i, s) + d.segs[i].size <= d.files[FileAt(d, f)].size
      <4> HIDE DEF a, c, m, p, z, end, at, o, pos
      <4>1. a * m + m <= c * m /\ a * m \in Nat /\ c * m \in Nat
        BY <2>7, <2>8, MulStep
      <4>2. at + m <= z
        BY <2>7, <4>1
      <4>3. QED
        BY <2>4, <4>2 DEF at, m, z
    <3>4. d.segs[i].file = FileAt(d, f) /\ d.files[FileAt(d, f)].size \in Nat
      BY <2>4, <2>5
    <3>5. ReadOk(d, f, pos, n, io, r) /\ i \in 1..Len(d.segs)
          /\ pos = Place(d, i, s) + (IF len < d.segs[i].size THEN d.segs[i].offset ELSE 0)
          /\ n = MinOf(len, d.segs[i].size)
      BY <2>3, <2>4
    <3> HIDE DEF i, f, n, pos
    <3>6. Good(d, s, len, io, r.rv, r.src)
      BY <1>1, <3>1, <3>2, <3>3, <3>4, <3>5, GoodAt
    <3>7. QED
      BY <2>4, <3>6 DEF r
  <2>9. CASE ~(a < c)
    <3>1. d.segs[i].first + d.segs[i].count <= s
      BY <2>2, <2>6, <2>9, SMTT(30)
    <3>2. EndOf(d.segs[i]) = d.files[f].size /\ (OnDisc(d, s) => FrameOf(d, s).use = "lost")
      BY <1>1, <2>2, <3>1, LostAfter
    <3>3. d.files[FileAt(d, f)].size <= pos
      <4>0. end = z
        BY <3>2
      <4> HIDE DEF a, c, m, p, z, end, at, o, pos
      <4>1. c * m <= a * m /\ a * m \in Nat /\ c * m \in Nat
        BY <2>7, <2>9, MulMono
      <4>2. z <= pos
        BY <2>7, <4>0, <4>1
      <4>3. QED
        BY <2>4, <4>2 DEF z
    <3>4. d.files[FileAt(d, f)].size \in Nat
      BY <2>4, <2>5
    <3> HIDE DEF i, f, n, pos
    <3>5. Good(d, s, len, io, r.rv, r.src)
      BY <2>4, <3>2, <3>3, <3>4, GoodPast
    <3>6. QED
      BY <2>4, <3>5 DEF r
  <2>10. QED
    BY <2>8, <2>9
<1>5. CASE Found(img, s) = {}
  <2>1. \A l \in 1..Len(Tr(d)) : s < d.segs[RunOf(d, l)].first
    BY <1>1, <1>2, <1>5, CueFound
  <2>2. /\ Len(Files(d)) # 1 /\ OnDisc(d, s) => FrameOf(d, s).use = "lost"
        /\ Len(Files(d)) = 1 =>
             /\ Holds(d, 1, s) /\ d.segs[1].track = 0 /\ d.segs[1].use = "track"
             /\ d.segs[1].size = Mode(Tr(d)[1])
             /\ d.segs[1].offset = cdimage_offset_for_cue_format(Tr(d)[1].format)
    BY <1>1, <2>1, BeforeTracks
  <2>3. r = IF Len(img.files) > 1 THEN Refused(img) ELSE retro_cdimage_read(img, s, len, io)
    BY <1>2, <1>3, <1>5, ByImage DEF r, k
  <2>4. Len(img.files) = Len(Files(d)) /\ Len(Files(d)) \in Nat /\ Len(Files(d)) > 0
    <3>1. Len(Files(d)) \in Nat /\ Len(Files(d)) > 0 /\ DOMAIN Files(d) = 1..Len(Files(d))
      BY <1>1, SheetType
    <3> DEFINE P == [f \in 1..Len(Files(d)) |-> img.files[f].pos]
    <3>2. img.files = [f \in 1..Len(Files(d)) |-> [fp |-> <<g, f>>, pos |-> P[f]]]
      BY <1>1, <3>1 DEF CueImage
    <3> HIDE DEF P
    <3>3. QED
      BY <3>1, <3>2
  <2>5. CASE Len(Files(d)) # 1
    <3>1. r = Refused(img)
      <4>1. Len(img.files) > 1
        <5> DEFINE a == Len(img.files)
                   b == Len(Files(d))
        <5>1. a = b /\ b \in Nat /\ b > 0 /\ b # 1
          BY <2>4, <2>5
        <5> HIDE DEF a, b
        <5>2. a > 1
          BY <5>1
        <5>3. QED
          BY <5>2 DEF a
      <4>2. QED
        BY <2>3, <4>1
    <3>2. r.rv = -1 /\ r.img = img /\ r.fds = fds
      BY <3>1 DEF Refused
    <3>3. Good(d, s, len, io, r.rv, r.src)
      BY <2>2, <2>5, <3>2, GoodRefused
    <3>4. QED
      BY <3>2, <3>3 DEF r
  <2>6. CASE Len(Files(d)) = 1
    <3> DEFINE m   == d.segs[1].size
               o   == d.segs[1].offset
               n   == MinOf(len, m)
               pos == s * m + (IF len >= m THEN 0 ELSE o)
    <3>1. img.sector_size = m /\ img.sector_offset = o
      BY <1>1, <2>2, <2>6 DEF CueImage, Mode
    <3>2. r = cdimage_read_at(img, <<g, 1>>, pos, n, io)
      BY <1>2, <2>3, <2>4, <2>6, <3>1 DEF retro_cdimage_read
    <3>3. 1 \in 1..Len(d.segs) /\ d.segs[1].first = 0 /\ d.segs[1].pos = 0 /\ d.segs[1].file = 1
      BY <1>1, SheetType, SheetOrder
    <3>4. /\ m \in Nat /\ o \in Nat /\ d.segs[1].count \in Nat /\ d.segs[1].step = m
          /\ EndOf(d.segs[1]) = 0 + d.segs[1].count * m /\ EndOf(d.segs[1]) <= d.files[1].size
          /\ d.files[1].size \in Nat
      BY <1>1, <3>3, SegType, SheetSizes, RunInFile, SMTT(30)
    <3>5. FileAt(d, 1) = 1
      <4>1. Files(d)[1] = 1
        BY <1>1, <2>6, SheetType
      <4>2. QED
        BY <4>1 DEF FileAt
    <3>6. Place(d, 1, s) = s * m
      BY <3>3, <3>4 DEF Place
    <3> DEFINE c == d.segs[1].count
               z == d.files[1].size
               end == EndOf(d.segs[1])
    <3>7. m \in Nat /\ o \in Nat /\ c \in Nat /\ z \in Nat /\ end = 0 + c * m /\ end <= z
      BY <3>4
    <3>8. s < c
      BY <2>2, <2>6, <3>3, <3>4 DEF Holds
    <3>9. Place(d, 1, s) + d.segs[1].size <= d.files[FileAt(d, 1)].size
      <4> DEFINE at == Place(d, 1, s)
      <4>1. at = s * m
        BY <3>6
      <4> HIDE DEF m, o, c, z, end, at
      <4>2. s * m + m <= c * m /\ c * m \in Nat
        BY <3>7, <3>8, MulStep
      <4>3. at + m <= z
        BY <3>7, <4>1, <4>2
      <4>4. QED
        BY <3>5, <4>3 DEF at, m, z
    <3>10. pos \in Nat /\ n \in Nat
      <4> HIDE DEF m, o, c, z, end
      <4>1. s * m \in Nat
        BY <3>7
      <4>2. QED
        BY <3>7, <4>1 DEF MinOf
    <3>11. pos = Place(d, 1, s) + (IF len < d.segs[1].size THEN d.segs[1].offset ELSE 0)
      <4> DEFINE at == Place(d, 1, s)
      <4>1. at = s * m
        BY <3>6
      <4> HIDE DEF at, m, o, c, z, end
      <4>2. pos = at + (IF len < m THEN o ELSE 0)
        BY <3>7, <4>1
      <4>3. QED
        BY <4>2 DEF at, m, o
    <3>12. /\ d.files[FileAt(d, 1)].size \in Nat /\ d.segs[1].file = FileAt(d, 1)
           /\ n = MinOf(len, d.segs[1].size)
      BY <3>3, <3>4, <3>5
    <3> HIDE DEF m, o, n, pos
    <3>13. Held(d, g, r.img, r.fds) /\ ReadOk(d, 1, pos, n, io, r)
      BY <1>1, <3>2, <3>10, <3>12, ReadAt
    <3>14. Holds(d, 1, s) /\ d.segs[1].use = "track"
      BY <2>2, <2>6
    <3>15. Good(d, s, len, io, r.rv, r.src)
      BY <1>1, <3>3, <3>9, <3>11, <3>12, <3>13, <3>14, GoodAt
    <3>16. QED
      BY <3>13, <3>15 DEF r
  <2>7. QED
    BY <2>5, <2>6
<1>6. QED
  BY <1>4, <1>5

-----------------------------------------------------------------------------
(* A CHD.                                                                  *)

\* The fields of a CHD's tracks.
LEMMA ChdTrackType ==
  ASSUME NEW d \in Discs, d.kind = "chd"
  PROVE  /\ Len(d.tracks) \in Nat /\ DOMAIN d.tracks = 1..Len(d.tracks) /\ d.unit_bytes \in Nat
         /\ \A k \in 1..Len(d.tracks) :
              /\ d.tracks[k].data_size \in Nat /\ d.tracks[k].logical_offset \in Nat
              /\ d.tracks[k].frames \in Nat /\ d.tracks[k].pregap \in Nat
              /\ d.tracks[k].pregap_stored \in BOOLEAN /\ d.tracks[k].postgap \in Nat
              /\ ChdFrames(d.tracks[k]) \in Nat /\ ChdSource(d, d.tracks[k]) \in Nat
              /\ ChdSpan(d.tracks[k]) \in Nat
<1>1. d.tracks \in Seq(ChdTracks) /\ d.unit_bytes \in Nat
  BY DiscsAssumption
<1>2. Len(d.tracks) \in Nat /\ DOMAIN d.tracks = 1..Len(d.tracks)
      /\ \A k \in 1..Len(d.tracks) : d.tracks[k] \in ChdTracks
  BY <1>1
<1>3. ASSUME NEW k \in 1..Len(d.tracks)
      PROVE  /\ ChdFrames(d.tracks[k]) \in Nat /\ ChdSource(d, d.tracks[k]) \in Nat
             /\ ChdSpan(d.tracks[k]) \in Nat
  <2> DEFINE t == d.tracks[k]
  <2>1. /\ t.logical_offset \in Nat /\ t.frames \in Nat /\ t.pregap \in Nat /\ t.postgap \in Nat
        /\ t.pregap_stored \in BOOLEAN
    BY <1>2 DEF ChdTracks
  <2> HIDE DEF t
  <2>2. ChdSkipped(t) \in Nat
    BY <2>1 DEF ChdSkipped
  <2>3. ChdFrames(t) \in Nat
    BY <2>1, <2>2 DEF ChdFrames
  <2>4. \A a, b \in Nat : a * b \in Nat
    OBVIOUS
  <2>5. ChdSource(d, t) \in Nat
    BY <1>1, <2>1, <2>2, <2>4 DEF ChdSource
  <2>6. ChdSpan(t) \in Nat
    BY <2>1, <2>3 DEF ChdSpan
  <2>7. QED
    BY <2>3, <2>5, <2>6 DEF t
<1>4. QED
  BY <1>1, <1>2, <1>3 DEF ChdTracks

\* Frames and postgap of track k are runs 2k - 1 and 2k.
LEMMA ChdRuns ==
  ASSUME NEW d \in Discs, d.kind = "chd", NoPregaps(d), MasteredChd(d), Tiled(d),
         NEW k \in 1..Len(d.tracks)
  PROVE  LET t    == d.tracks[k]
             size == IF t.format \in {"MODE1_2352", "MODE2_2352"} THEN 2352 ELSE t.data_size
             data == d.segs[2 * k - 1]
             post == d.segs[2 * k]
         IN  /\ Len(d.segs) = 2 * Len(d.tracks)
             /\ 2 * k - 1 \in 1..Len(d.segs) /\ 2 * k \in 1..Len(d.segs)
             /\ post.use = "gap" /\ post.count = t.postgap /\ post.size = size
             /\ data.use = "track" /\ data.file = 1 /\ data.size = size /\ size <= d.unit_bytes
             /\ data.offset = cdimage_offset_for_cue_format(t.format)
             /\ data.count = ChdFrames(t) /\ ChdSource(d, t) = data.pos /\ data.step = d.unit_bytes
             /\ d.starts[t.num] = data.first /\ t.pregap = 0
             /\ post.first = data.first + data.count
             /\ ChdSpan(t) = data.count + post.count
<1> DEFINE t    == d.tracks[k]
           size == IF t.format \in {"MODE1_2352", "MODE2_2352"} THEN 2352 ELSE t.data_size
           data == d.segs[2 * k - 1]
           post == d.segs[2 * k]
<1>1. Len(d.segs) = 2 * Len(d.tracks) /\ k \in DOMAIN d.tracks
  BY ChdTrackType DEF MasteredChd
<1>2. /\ post.use = "gap" /\ post.count = t.postgap /\ post.size = size
      /\ data.use = "track" /\ data.file = 1 /\ data.size = size /\ size <= d.unit_bytes
      /\ data.offset = cdimage_offset_for_cue_format(t.format)
      /\ data.count = t.frames /\ data.pos = t.logical_offset /\ data.step = d.unit_bytes
      /\ d.starts[t.num] = data.first
  BY <1>1, ZenonT(60) DEF MasteredChd
<1>3. /\ t.logical_offset \in Nat /\ t.frames \in Nat /\ t.postgap \in Nat /\ t.pregap = 0
      /\ d.unit_bytes \in Nat
  BY <1>1, ChdTrackType DEF NoPregaps
<1>4. 2 * k - 1 \in 1..Len(d.segs) /\ 2 * k \in 1..Len(d.segs) /\ 2 * k # 1
  <2> DEFINE n == Len(d.tracks)
  <2>1. k \in 1..n /\ n \in Nat /\ Len(d.segs) = 2 * n
    BY <1>1, ChdTrackType
  <2> HIDE DEF n
  <2>2. QED
    BY <2>1
<1>5. post.first = data.first + data.count
  <2>1. DOMAIN d.segs = 1..Len(d.segs)
    BY SegType
  <2>2. d.segs[2 * k].first = d.segs[(2 * k) - 1].first + d.segs[(2 * k) - 1].count
    BY <1>4, <2>1 DEF Tiled
  <2>3. QED
    BY <2>2
<1> HIDE DEF t, size, data, post
<1>6. ChdSkipped(t) = 0
  BY <1>3 DEF ChdSkipped
<1>7. ChdFrames(t) = t.frames
  BY <1>3, <1>6 DEF ChdFrames
<1>8. ChdSource(d, t) = t.logical_offset
  BY <1>3, <1>6 DEF ChdSource
<1>9. ChdSpan(t) = t.frames + t.postgap
  BY <1>3, <1>7 DEF ChdSpan
<1>10. QED
  BY <1>1, <1>2, <1>3, <1>4, <1>5, <1>7, <1>8, <1>9 DEF t, size, data, post

\* A track's span begins where its frames do and ends where its postgap does.
LEMMA ChdFirstsTrue ==
  ASSUME NEW d \in Discs, d.kind = "chd", NoPregaps(d), MasteredChd(d), Tiled(d), Len(d.tracks) # 0
  PROVE  /\ \A k \in 1..Len(d.tracks) :
              /\ ChdFirsts(d)[k] = d.segs[2 * k - 1].first
              /\ ChdFirsts(d)[k + 1] = d.segs[2 * k].first + d.segs[2 * k].count
         /\ ChdFirsts(d)[Len(d.tracks) + 1] = d.segs[Len(d.segs)].first + d.segs[Len(d.segs)].count
<1> DEFINE n == Len(d.tracks)
           F(k) == ChdFirsts(d)[k]
           Data(k) == d.segs[2 * k - 1]
           Post(k) == d.segs[2 * k]
           Bad == {k \in 1..n : F(k) # Data(k).first}
<1>1. n \in Nat /\ n > 0
  BY ChdTrackType
<1>2. \A k \in 1..n : /\ Data(k).count \in Nat /\ Post(k).count \in Nat
                      /\ Data(k).first \in Nat /\ Post(k).first \in Nat
                      /\ Post(k).first = Data(k).first + Data(k).count
                      /\ ChdSpan(d.tracks[k]) = Data(k).count + Post(k).count
  <2> SUFFICES ASSUME NEW k \in 1..n
        PROVE  /\ Data(k).count \in Nat /\ Post(k).count \in Nat
               /\ Data(k).first \in Nat /\ Post(k).first \in Nat
               /\ Post(k).first = Data(k).first + Data(k).count
               /\ ChdSpan(d.tracks[k]) = Data(k).count + Post(k).count
    OBVIOUS
  <2>1. /\ 2 * k - 1 \in 1..Len(d.segs) /\ 2 * k \in 1..Len(d.segs)
        /\ Post(k).first = Data(k).first + Data(k).count
        /\ ChdSpan(d.tracks[k]) = Data(k).count + Post(k).count
    BY ChdRuns
  <2>2. \A i \in 1..Len(d.segs) : d.segs[i].first \in Nat /\ d.segs[i].count \in Nat
    BY SegType
  <2>3. QED
    BY <2>1, <2>2
<1>3. F(1) = 0 /\ \A k \in 1..n : F(k + 1) = F(k) + ChdSpan(d.tracks[k])
  <2>1. \A k \in 1..n : ChdSpan(d.tracks[k]) \in Int
    BY ChdTrackType
  <2>2. QED
    BY <1>1, <2>1, ChdFirstsAre
<1>4. \A k \in 2..n : Data(k).first = Post(k - 1).first + Post(k - 1).count
  <2> SUFFICES ASSUME NEW k \in 2..n PROVE Data(k).first = Post(k - 1).first + Post(k - 1).count
    OBVIOUS
  <2>1. 2 * k - 1 \in 1..Len(d.segs)
    BY ChdRuns
  <2>2. 2 * k - 1 \in DOMAIN d.segs /\ 2 * k - 1 # 1 /\ (2 * k - 1) - 1 = 2 * (k - 1)
    BY <2>1, SegType
  <2>3. QED
    BY <2>2 DEF Tiled
<1>5. Data(1).first = 0
  <2>1. 1 \in 1..n /\ 2 * 1 - 1 = 1
    BY <1>1
  <2>2. 1 \in 1..Len(d.segs)
    BY <2>1, ChdRuns
  <2>3. 1 \in DOMAIN d.segs
    BY <2>2, SegType
  <2>4. QED
    BY <2>1, <2>3 DEF Tiled
<1> HIDE DEF Data, Post, F, n
<1>6. \A k \in 1..n : F(k) = Data(k).first => F(k + 1) = Post(k).first + Post(k).count
  BY <1>2, <1>3, SMTT(30)
<1>7. Bad = {}
  <2> SUFFICES ASSUME Bad # {} PROVE FALSE
    OBVIOUS
  <2>1. PICK k \in Bad : \A j \in Bad : k <= j
    <3>1. Bad \in SUBSET Nat
      BY <1>1
    <3> HIDE DEF Bad
    <3>2. QED
      BY <3>1, Least
  <2>2. k \in 1..n /\ F(k) # Data(k).first
    BY <2>1
  <2>3. k # 1
    BY <1>3, <1>5, <2>2
  <2>4. k - 1 \in 1..n /\ k \in 2..n /\ ~(k <= k - 1) /\ (k - 1) + 1 = k
    BY <1>1, <2>2, <2>3
  <2>5. F(k - 1) = Data(k - 1).first
    BY <2>1, <2>4
  <2>6. F(k) = Post(k - 1).first + Post(k - 1).count
    BY <1>6, <2>4, <2>5
  <2>7. QED
    BY <1>4, <2>2, <2>4, <2>6
<1>8. \A k \in 1..n : F(k) = Data(k).first /\ F(k + 1) = Post(k).first + Post(k).count
  BY <1>6, <1>7
<1>9. F(n + 1) = d.segs[Len(d.segs)].first + d.segs[Len(d.segs)].count
  <2>1. n \in 1..n
    BY <1>1
  <2>2. Len(d.segs) = 2 * n
    BY DEF MasteredChd, n
  <2>3. F(n + 1) = Post(n).first + Post(n).count
    BY <1>8, <2>1
  <2>4. QED
    BY <2>2, <2>3 DEF Post
<1>10. QED
  BY <1>8, <1>9 DEF F, Data, Post, n

\* The table and the map of any CHD, from what its tracks say.
LEMMA ChdTableOf ==
  ASSUME NEW d \in Discs, d.kind = "chd", NEW k \in 1..Len(d.tracks)
  PROVE  LET t == d.tracks[k]
         IN  /\ DOMAIN ChdTable(d) = 1..Len(d.tracks) /\ DOMAIN ChdMap(d) = 1..Len(d.tracks)
             /\ ChdMap(d)[k].source_offset = ChdSource(d, t)
             /\ ChdMap(d)[k].span_start_lba = ChdFirsts(d)[k]
             /\ ChdMap(d)[k].span_end_lba = ChdFirsts(d)[k + 1]
             /\ ChdTable(d)[k].num = t.num /\ ChdTable(d)[k].start_lba = ChdFirsts(d)[k] + t.pregap
             /\ ChdTable(d)[k].frames = ChdFrames(t)
             /\ ChdTable(d)[k].mode = IF t.format \in {"MODE1_2352", "MODE2_2352"} THEN 2352
                                      ELSE t.data_size
             /\ ChdTable(d)[k].offset = cdimage_offset_for_cue_format(t.format)
<1>1. DOMAIN d.tracks = 1..Len(d.tracks)
  BY ChdTrackType
<1>2. DOMAIN ChdTable(d) = 1..Len(d.tracks) /\ DOMAIN ChdMap(d) = 1..Len(d.tracks)
  BY <1>1 DEF ChdTable, ChdMap
<1>3. /\ ChdMap(d)[k].source_offset = ChdSource(d, d.tracks[k])
      /\ ChdMap(d)[k].span_start_lba = ChdFirsts(d)[k] /\ ChdMap(d)[k].span_end_lba = ChdFirsts(d)[k + 1]
  BY <1>1 DEF ChdMap
<1>4. QED
  BY <1>1, <1>2, <1>3 DEF ChdTable

\* The numbers of any CHD's table.
LEMMA ChdNumbers ==
  ASSUME NEW d \in Discs, d.kind = "chd"
  PROVE  \A k \in 1..Len(d.tracks) :
           /\ ChdFirsts(d)[k] \in Nat /\ ChdTable(d)[k].start_lba \in Nat
           /\ ChdTable(d)[k].frames \in Nat /\ ChdTable(d)[k].mode \in Nat
           /\ ChdTable(d)[k].offset \in Nat /\ ChdMap(d)[k].source_offset \in Nat
<1> DEFINE n == Len(d.tracks)
           F(k) == ChdFirsts(d)[k]
           Bad == {k \in 1..n : F(k) \notin Nat}
<1>1. n \in Nat /\ \A k \in 1..n : ChdSpan(d.tracks[k]) \in Nat
  BY ChdTrackType
<1>2. F(1) = 0 /\ \A k \in 1..n : F(k + 1) = F(k) + ChdSpan(d.tracks[k])
  BY <1>1, ChdFirstsAre
<1> HIDE DEF F, n
<1>3. Bad = {}
  <2> SUFFICES ASSUME Bad # {} PROVE FALSE
    OBVIOUS
  <2>1. PICK k \in Bad : \A j \in Bad : k <= j
    <3>1. Bad \in SUBSET Nat
      BY <1>1
    <3> HIDE DEF Bad
    <3>2. QED
      BY <3>1, Least
  <2>2. k \in 1..n /\ F(k) \notin Nat /\ k # 1
    BY <1>2, <2>1
  <2>3. k - 1 \in 1..n /\ ~(k <= k - 1) /\ (k - 1) + 1 = k
    BY <1>1, <2>2
  <2>4. F(k - 1) \in Nat /\ ChdSpan(d.tracks[k - 1]) \in Nat
    BY <1>1, <2>1, <2>3
  <2>5. F(k) = F(k - 1) + ChdSpan(d.tracks[k - 1])
    BY <1>2, <2>3
  <2>6. QED
    BY <2>2, <2>4, <2>5
<1>4. ASSUME NEW k \in 1..n
      PROVE  /\ F(k) \in Nat /\ ChdTable(d)[k].start_lba \in Nat
             /\ ChdTable(d)[k].frames \in Nat /\ ChdTable(d)[k].mode \in Nat
             /\ ChdTable(d)[k].offset \in Nat /\ ChdMap(d)[k].source_offset \in Nat
  <2> DEFINE t == d.tracks[k]
  <2>1. F(k) \in Nat
    BY <1>3
  <2>2. /\ t.data_size \in Nat /\ t.pregap \in Nat /\ ChdFrames(t) \in Nat /\ ChdSource(d, t) \in Nat
    BY ChdTrackType DEF n
  <2>3. /\ ChdMap(d)[k].source_offset = ChdSource(d, t) /\ ChdTable(d)[k].start_lba = F(k) + t.pregap
        /\ ChdTable(d)[k].frames = ChdFrames(t)
        /\ ChdTable(d)[k].mode = IF t.format \in {"MODE1_2352", "MODE2_2352"} THEN 2352 ELSE t.data_size
        /\ ChdTable(d)[k].offset = cdimage_offset_for_cue_format(t.format)
    BY ChdTableOf DEF n, F
  <2> HIDE DEF t
  <2>4. cdimage_offset_for_cue_format(t.format) \in Nat
    BY DEF cdimage_offset_for_cue_format
  <2>5. QED
    BY <2>1, <2>2, <2>3, <2>4
<1>5. QED
  BY <1>4 DEF n, F

\* The table and the map of a CHD without pregaps are its runs.
LEMMA ChdTableIs ==
  ASSUME NEW d \in Discs, d.kind = "chd", NoPregaps(d), MasteredChd(d), Tiled(d),
         NEW k \in 1..Len(d.tracks)
  PROVE  /\ DOMAIN ChdTable(d) = 1..Len(d.tracks) /\ DOMAIN ChdMap(d) = 1..Len(d.tracks)
         /\ ChdTable(d)[k].num = d.tracks[k].num
         /\ ChdTable(d)[k].start_lba = d.segs[2 * k - 1].first
         /\ ChdTable(d)[k].frames = d.segs[2 * k - 1].count
         /\ ChdTable(d)[k].mode = d.segs[2 * k - 1].size
         /\ ChdTable(d)[k].offset = d.segs[2 * k - 1].offset
         /\ ChdMap(d)[k].source_offset = d.segs[2 * k - 1].pos
         /\ ChdMap(d)[k].span_start_lba = d.segs[2 * k - 1].first
         /\ ChdMap(d)[k].span_end_lba = d.segs[2 * k].first + d.segs[2 * k].count
<1> DEFINE t == d.tracks[k]
           data == d.segs[2 * k - 1]
           post == d.segs[2 * k]
           z == IF t.format \in {"MODE1_2352", "MODE2_2352"} THEN 2352 ELSE t.data_size
           T == ChdTable(d)[k]
           M == ChdMap(d)[k]
           a == ChdFirsts(d)[k]
<1>1. Len(d.tracks) # 0
  BY ChdTrackType
<1>2. a = data.first /\ ChdFirsts(d)[k + 1] = post.first + post.count
  BY <1>1, ChdFirstsTrue
<1>3. data.count = ChdFrames(t) /\ ChdSource(d, t) = data.pos /\ t.pregap = 0
      /\ data.offset = cdimage_offset_for_cue_format(t.format)
  BY ChdRuns
<1>4. data.size = z
  BY ChdRuns
<1>5. /\ DOMAIN ChdTable(d) = 1..Len(d.tracks) /\ DOMAIN ChdMap(d) = 1..Len(d.tracks)
      /\ M.source_offset = ChdSource(d, t) /\ M.span_start_lba = a
      /\ M.span_end_lba = ChdFirsts(d)[k + 1]
      /\ T.num = t.num /\ T.start_lba = a + t.pregap /\ T.frames = ChdFrames(t)
      /\ T.offset = cdimage_offset_for_cue_format(t.format)
  BY ChdTableOf
<1>6. T.mode = z
  BY ChdTableOf
<1>7. a \in Nat
  BY ChdNumbers
<1> HIDE DEF z, T, M, a, data, post
<1>8. T.start_lba = data.first /\ T.mode = data.size /\ M.span_end_lba = post.first + post.count
  BY <1>2, <1>3, <1>4, <1>5, <1>6, <1>7
<1>9. QED
  BY <1>2, <1>3, <1>5, <1>8 DEF T, M, data, post, t

\* Two runs to a track.
LEMMA RunTrack ==
  ASSUME NEW n \in Nat, NEW j \in 1..(2 * n)
  PROVE  \E k \in 1..n : j = 2 * k - 1 \/ j = 2 * k
<1> DEFINE k == (j + 1) \div 2
<1>1. k \in 1..n /\ (j = 2 * k - 1 \/ j = 2 * k)
  OBVIOUS
<1>2. QED
  BY <1>1

\* The numbers of a CHD's runs.
LEMMA ChdNat ==
  ASSUME NEW d \in Discs, d.kind = "chd", NoPregaps(d), MasteredChd(d), Tiled(d),
         NEW k \in 1..Len(d.tracks)
  PROVE  LET data == d.segs[2 * k - 1]
             post == d.segs[2 * k]
         IN  /\ 2 * k - 1 \in 1..Len(d.segs) /\ 2 * k \in 1..Len(d.segs)
             /\ data.first \in Nat /\ data.count \in Nat
             /\ post.first \in Nat /\ post.count \in Nat /\ data.pos \in Nat /\ data.step \in Nat
             /\ data.size \in Nat /\ data.offset \in Nat /\ post.first = data.first + data.count
<1>1. /\ 2 * k - 1 \in 1..Len(d.segs) /\ 2 * k \in 1..Len(d.segs)
      /\ d.segs[2 * k].first = d.segs[2 * k - 1].first + d.segs[2 * k - 1].count
  BY ChdRuns
<1>2. \A i \in 1..Len(d.segs) :
        /\ d.segs[i].first \in Nat /\ d.segs[i].count \in Nat /\ d.segs[i].pos \in Nat
        /\ d.segs[i].step \in Nat /\ d.segs[i].size \in Nat /\ d.segs[i].offset \in Nat
  BY SegType
<1>3. QED
  BY <1>1, <1>2

InSpan(d, k, s) == d.segs[2 * k - 1].first <= s /\ s < d.segs[2 * k].first + d.segs[2 * k].count

\* A sector on the disc is in the span of a track, and before the end.
LEMMA ChdSpanOf ==
  ASSUME NEW d \in Discs, NEW s \in Nat, d.kind = "chd", NoPregaps(d), MasteredChd(d), Tiled(d),
         OnDisc(d, s)
  PROVE  /\ \E k \in 1..Len(d.tracks) : InSpan(d, k, s)
         /\ s < d.segs[Len(d.segs)].first + d.segs[Len(d.segs)].count
<1>1. PICK j \in 1..Len(d.segs) : Holds(d, j, s)
  BY OnDiscHolds
<1>2. Len(d.segs) = 2 * Len(d.tracks) /\ Len(d.tracks) \in Nat
  BY ChdTrackType DEF MasteredChd
<1>3. PICK k \in 1..Len(d.tracks) : j = 2 * k - 1 \/ j = 2 * k
  BY <1>1, <1>2, RunTrack
<1>4. InSpan(d, k, s)
  <2> DEFINE a == d.segs[2 * k - 1].first
             e == d.segs[2 * k - 1].count
             p == d.segs[2 * k].first
             q == d.segs[2 * k].count
  <2>1. a \in Nat /\ e \in Nat /\ p \in Nat /\ q \in Nat /\ p = a + e
    BY ChdNat
  <2>2. (a <= s /\ s < a + e) \/ (p <= s /\ s < p + q)
    BY <1>1, <1>3 DEF Holds
  <2> HIDE DEF a, e, p, q
  <2>3. a <= s /\ s < p + q
    BY <2>1, <2>2
  <2>4. QED
    BY <2>3 DEF InSpan, a, p, q
<1>5. s < d.segs[Len(d.segs)].first + d.segs[Len(d.segs)].count
  <2> DEFINE l == Len(d.segs)
  <2>1. l \in 1..l /\ j \in 1..l /\ l \in Nat
    BY <1>1, SegType
  <2> HIDE DEF l
  <2>2. d.segs[j].first \in Nat /\ d.segs[j].count \in Nat /\ s < d.segs[j].first + d.segs[j].count
    BY <1>1, SegType DEF Holds
  <2>3. d.segs[l].first \in Nat /\ d.segs[l].count \in Nat
    BY <2>1, SegType DEF l
  <2>4. CASE j = l
    BY <2>2, <2>4 DEF l
  <2>5. CASE j # l
    <3>1. j < l
      BY <2>1, <2>5
    <3>2. d.segs[j].first + d.segs[j].count <= d.segs[l].first
      BY <2>1, <3>1, Tiles DEF l
    <3>3. QED
      BY <2>2, <2>3, <3>2, SMTT(30) DEF l
  <2>6. QED
    BY <2>4, <2>5
<1>6. QED
  BY <1>3, <1>4, <1>5

Spans(img, s) ==
  {i \in DOMAIN img.map : s \in img.map[i].span_start_lba..(img.map[i].span_end_lba - 1)}

\* A silent read of a gap.
LEMMA GoodGap ==
  ASSUME NEW d \in Discs, NEW i \in 1..Len(d.segs), NEW s \in Nat, NEW len \in Nat, NEW io,
         Tiled(d), Holds(d, i, s), d.segs[i].use = "gap"
  PROVE  Good(d, s, len, io, MinOf(len, d.segs[i].size), Zeros)
<1>1. FrameOf(d, s).use = "gap" /\ FrameOf(d, s).size = d.segs[i].size /\ OnDisc(d, s)
  BY FrameIs, SegOfIs
<1>2. d.segs[i].size \in Nat
  BY SegType
<1>3. MinOf(len, d.segs[i].size) \in Int
  BY <1>2 DEF MinOf
<1>4. QED
  BY <1>1, <1>3 DEF Good

\* A read of the decoder.
LEMMA GoodExact ==
  ASSUME NEW d \in Discs, NEW i \in 1..Len(d.segs), NEW s \in Nat, NEW len \in Nat, NEW io \in Io,
         NEW pos, NEW n, NEW r, Tiled(d), Holds(d, i, s), d.segs[i].use = "track", d.segs[i].file = 1,
         d.files[1].size \in Nat, Place(d, i, s) \in Nat, Place(d, i, s) + d.segs[i].size <= d.files[1].size,
         pos = Place(d, i, s) + (IF len < d.segs[i].size THEN d.segs[i].offset ELSE 0),
         n = MinOf(len, d.segs[i].size), ExactOk(d, pos, n, io, r)
  PROVE  Good(d, s, len, io, r.rv, r.src)
<1> DEFINE fr == FrameOf(d, s)
           at == Place(d, i, s)
           z  == d.segs[i].size
           o  == d.segs[i].offset
           size == d.files[1].size
<1>1. /\ fr.pos = at /\ fr.file = 1 /\ fr.size = z /\ fr.offset = o /\ fr.use = "track" /\ OnDisc(d, s)
  BY FrameIs, SegOfIs, SMTT(30) DEF Place
<1>2. z \in Nat /\ o \in Nat
  BY SegType
<1>3. /\ at \in Nat /\ size \in Nat /\ at + z <= size
      /\ pos = at + (IF len < z THEN o ELSE 0) /\ n = MinOf(len, z)
  OBVIOUS
<1>4. /\ r.rv = -1 \/ (r.rv = n /\ r.src = [disc |-> d.name, file |-> 1, at |-> pos])
      /\ io.seek /\ io.read = "all" /\ pos + n <= size => r.rv = n
  BY DEF ExactOk
<1> HIDE DEF fr, at, z, o, size
<1>5. Fits(fr, len) => pos + n <= size
  BY <1>1, <1>2, <1>3, SMTT(30) DEF Fits, MinOf
<1>6. n \in Int /\ (r.rv > 0 => r.rv = n /\ r.src = [disc |-> d.name, file |-> 1, at |-> pos])
  BY <1>2, <1>3, <1>4 DEF MinOf
<1>7. r.rv > 0 => /\ OnDisc(d, s) /\ r.rv <= MinOf(len, fr.size)
                  /\ fr.use # "gap"
                  /\ r.src = [disc |-> d.name, file |-> fr.file,
                              at |-> fr.pos + (IF len < fr.size THEN fr.offset ELSE 0)]
  BY <1>1, <1>3, <1>6
<1>8. io.seek /\ io.read = "all" /\ Fits(fr, len) => r.rv = MinOf(len, fr.size)
  BY <1>1, <1>3, <1>4, <1>5
<1>9. fr.use # "lost"
  BY <1>1
<1>10. r.rv > 0 /\ Fits(fr, len) => (IF len < fr.size THEN fr.offset ELSE 0) + r.rv <= fr.size
  <2>1. fr.size \in Nat /\ fr.offset \in Nat
    BY <1>1, <1>2
  <2>2. r.rv > 0 => r.rv \in Int /\ r.rv <= MinOf(len, fr.size)
    BY <1>6, <1>7
  <2>3. QED
    BY <2>1, <2>2, Within
<1>11. QED
  BY <1>1, <1>7, <1>8, <1>9, <1>10 DEF Good, fr

\* The unit of the CHD in use is its own.
Unit(img) == (CHOOSE d \in Discs : d.name = fds[img.chd].disc).unit_bytes

\* The unit the decoder steps by is the disc's.
LEMMA UnitIs ==
  ASSUME NEW d \in Discs, NEW g \in {0, 1}, NEW img, d.kind = "chd", Held(d, g, img, fds)
  PROVE  Unit(img) = d.unit_bytes
<1>1. img.chd = <<g, 1>> /\ <<g, 1>> \in DOMAIN fds
  <2>1. ChdImage(img, d, g) /\ <<g, 1>> \in Handles(d, g)
    BY HeldKind
  <2>2. QED
    BY <2>1 DEF Held, Streams, ChdImage
<1>2. StreamOk(img, d, <<g, 1>>, fds[<<g, 1>>])
  BY <1>1 DEF Held, Streams
<1>3. fds[img.chd].disc = d.name
  BY <1>1, <1>2 DEF StreamOk
<1>4. (CHOOSE e \in Discs : e.name = fds[img.chd].disc) = d
  BY <1>3, NamesAssumption
<1>5. QED
  BY <1>4 DEF Unit

\* What a read of a CHD is: a refusal, silence, or a read of the decoder.
LEMMA ChdReadIs ==
  ASSUME NEW d \in Discs, NEW g \in {0, 1}, NEW img, NEW s \in Nat, NEW len \in Nat, NEW io \in Io,
         d.kind = "chd", Held(d, g, img, fds)
  PROVE  LET i == Min(Spans(img, s))
             t == ChdTable(d)[i]
             n == MinOf(len, t.mode)
             pos == ChdMap(d)[i].source_offset + (s - t.start_lba) * d.unit_bytes
                      + (IF len < t.mode THEN t.offset ELSE 0)
         IN  /\ retro_cdimage_read_sector(img, s, len, io) =
                  IF s >= img.logical_blocks \/ Spans(img, s) = {} THEN Refused(img)
                  ELSE IF s < t.start_lba \/ s - t.start_lba >= t.frames
                  THEN [img |-> img, rv |-> n, src |-> Zeros, fds |-> fds]
                  ELSE cdimage_chd_read_exact(img, pos, n, io)
             /\ img.map = ChdMap(d) /\ DOMAIN img.map = 1..Len(d.tracks)
             /\ img.logical_blocks = ChdFirsts(d)[Len(d.tracks) + 1]
             /\ Spans(img, s) # {} => i \in Spans(img, s) /\ i \in 1..Len(d.tracks)
<1>1. ChdImage(img, d, g) /\ Len(d.tracks) # 0
  BY HeldKind
<1>2. /\ img.chd # None /\ img.map = ChdMap(d) /\ img.tracks = ChdTable(d)
      /\ img.logical_blocks = ChdFirsts(d)[Len(d.tracks) + 1]
  BY <1>1 DEF ChdImage, None
<1>3. Unit(img) = d.unit_bytes
  BY UnitIs
<1>4. retro_cdimage_read_sector(img, s, len, io) = cdimage_chd_read_sector(img, s, len, io)
  BY <1>2 DEF retro_cdimage_read_sector
<1>5. DOMAIN img.map = 1..Len(d.tracks) /\ Len(d.tracks) \in Nat
  BY <1>2, ChdTrackType DEF ChdMap
<1>6. Spans(img, s) # {} => /\ Min(Spans(img, s)) \in Spans(img, s)
                            /\ Min(Spans(img, s)) \in 1..Len(d.tracks)
  <2>1. Spans(img, s) \in SUBSET (1..Len(d.tracks))
    BY <1>5 DEF Spans
  <2>2. QED
    BY <1>5, <2>1, Lowest
<1>7. QED
  BY <1>2, <1>3, <1>4, <1>5, <1>6 DEF cdimage_chd_read_sector, Spans, Unit

\* Reads of a CHD keep it, whatever its tracks say of pregaps.
LEMMA ChdKeeps ==
  ASSUME NEW d \in Discs, NEW g \in {0, 1}, NEW img, NEW s \in Nat, NEW len \in Nat, NEW io \in Io,
         d.kind = "chd", Held(d, g, img, fds)
  PROVE  LET r == retro_cdimage_read_sector(img, s, len, io) IN Held(d, g, r.img, r.fds)
<1> DEFINE r == retro_cdimage_read_sector(img, s, len, io)
           i == Min(Spans(img, s))
           t == ChdTable(d)[i]
           n == MinOf(len, t.mode)
           src == ChdMap(d)[i].source_offset
           pos == src + (s - t.start_lba) * d.unit_bytes + (IF len < t.mode THEN t.offset ELSE 0)
<1>1. /\ r = IF s >= img.logical_blocks \/ Spans(img, s) = {} THEN Refused(img)
             ELSE IF s < t.start_lba \/ s - t.start_lba >= t.frames
             THEN [img |-> img, rv |-> n, src |-> Zeros, fds |-> fds]
             ELSE cdimage_chd_read_exact(img, pos, n, io)
      /\ Spans(img, s) # {} => i \in 1..Len(d.tracks)
  BY ChdReadIs
<1>2. d.files[1].size \in Nat /\ d.unit_bytes \in Nat
  <2>1. d.files \in Seq([size : Nat, ok : BOOLEAN]) /\ d.files # <<>>
    BY DiscsAssumption
  <2>2. d.files[1] \in [size : Nat, ok : BOOLEAN]
    BY <2>1, NonEmptySeqElements
  <2>3. QED
    BY <2>2, ChdTrackType
<1> HIDE DEF r, i
<1>3. CASE s >= img.logical_blocks \/ Spans(img, s) = {}
  BY <1>1, <1>3 DEF Refused, r
<1>4. CASE ~(s >= img.logical_blocks \/ Spans(img, s) = {})
  <2>1. /\ t.start_lba \in Nat /\ t.frames \in Nat /\ t.mode \in Nat /\ t.offset \in Nat /\ src \in Nat
    BY <1>1, <1>4, ChdNumbers
  <2> HIDE DEF t, src
  <2>2. CASE s < t.start_lba \/ s - t.start_lba >= t.frames
    <3>1. r.img = img /\ r.fds = fds
      BY <1>1, <1>4, <2>2
    <3>2. QED
      BY <3>1 DEF r
  <2>3. CASE ~(s < t.start_lba \/ s - t.start_lba >= t.frames)
    <3>1. r = cdimage_chd_read_exact(img, pos, n, io)
      BY <1>1, <1>4, <2>3
    <3>2. s - t.start_lba \in Nat
      BY <2>1, <2>3
    <3>3. \A a, b \in Nat : a * b \in Nat
      OBVIOUS
    <3>4. (s - t.start_lba) * d.unit_bytes \in Nat
      BY <1>2, <3>2, <3>3
    <3>5. pos \in Nat /\ n \in Nat
      BY <2>1, <3>4 DEF MinOf
    <3>6. Held(d, g, r.img, r.fds)
      BY <1>2, <3>1, <3>5, ReadExact
    <3>7. QED
      BY <3>6 DEF r
  <2>4. QED
    BY <2>2, <2>3
<1>5. QED
  BY <1>3, <1>4

\* Reads of a CHD without pregaps bring what they should.
LEMMA ChdReads ==
  ASSUME NEW d \in Discs, NEW g \in {0, 1}, NEW img, NEW s \in Nat, NEW len \in Nat, NEW io \in Io,
         d.kind = "chd", NoPregaps(d), Held(d, g, img, fds)
  PROVE  LET r == retro_cdimage_read_sector(img, s, len, io)
         IN  Good(d, s, len, io, r.rv, r.src)
<1> DEFINE r == retro_cdimage_read_sector(img, s, len, io)
           i == Min(Spans(img, s))
           t == ChdTable(d)[i]
           n == MinOf(len, t.mode)
           last == d.segs[Len(d.segs)]
           data == d.segs[2 * i - 1]
           pos == ChdMap(d)[i].source_offset + (s - t.start_lba) * d.unit_bytes
                    + (IF len < t.mode THEN t.offset ELSE 0)
<1>1. MasteredChd(d) /\ ChdFits(d) /\ Len(d.tracks) # 0 /\ Tiled(d)
  BY HeldKind
<1>2. img.map = ChdMap(d) /\ img.logical_blocks = last.first + last.count
      /\ DOMAIN img.map = 1..Len(d.tracks)
  BY <1>1, ChdFirstsTrue, ChdReadIs
<1>3. r = IF s >= img.logical_blocks \/ Spans(img, s) = {} THEN Refused(img)
          ELSE IF s < t.start_lba \/ s - t.start_lba >= t.frames
          THEN [img |-> img, rv |-> n, src |-> Zeros, fds |-> fds]
          ELSE cdimage_chd_read_exact(img, pos, n, io)
  BY ChdReadIs
<1>4. last.first \in Nat /\ last.count \in Nat /\ Len(d.tracks) \in Nat
  <2>1. Len(d.segs) \in 1..Len(d.segs)
    <3>1. Len(d.segs) = 2 * Len(d.tracks) /\ Len(d.tracks) \in Nat
      BY <1>1, ChdTrackType DEF MasteredChd
    <3>2. QED
      BY <1>1, <3>1
  <2>2. QED
    BY <2>1, SegType, ChdTrackType
<1>5. \A k : k \in Spans(img, s) <=> k \in 1..Len(d.tracks) /\ InSpan(d, k, s)
  <2> SUFFICES ASSUME NEW k PROVE k \in Spans(img, s) <=> k \in 1..Len(d.tracks) /\ InSpan(d, k, s)
    OBVIOUS
  <2>1. CASE k \in 1..Len(d.tracks)
    <3> DEFINE a == d.segs[2 * k - 1].first
               b == d.segs[2 * k].first + d.segs[2 * k].count
    <3>1. img.map[k].span_start_lba = a /\ img.map[k].span_end_lba = b
      BY <1>1, <1>2, <2>1, ChdTableIs
    <3>2. a \in Nat /\ b \in Nat
      BY <1>1, <2>1, ChdNat, SMTT(30)
    <3>3. InSpan(d, k, s) <=> a <= s /\ s < b
      BY DEF InSpan
    <3> HIDE DEF a, b
    <3>4. s \in a..(b - 1) <=> a <= s /\ s < b
      BY <3>2
    <3>5. k \in Spans(img, s) <=> s \in a..(b - 1)
      BY <1>2, <2>1, <3>1 DEF Spans
    <3>6. QED
      BY <2>1, <3>3, <3>4, <3>5
  <2>2. CASE k \notin 1..Len(d.tracks)
    BY <1>2, <2>2 DEF Spans
  <2>3. QED
    BY <2>1, <2>2
<1> HIDE DEF r, i, t, n, last, data, pos
<1>6. CASE s >= img.logical_blocks \/ Spans(img, s) = {}
  <2>1. ~OnDisc(d, s)
    <3> SUFFICES ASSUME OnDisc(d, s) PROVE FALSE
      OBVIOUS
    <3>1. PICK k \in 1..Len(d.tracks) : InSpan(d, k, s)
      BY <1>1, ChdSpanOf
    <3>2. s < last.first + last.count
      BY <1>1, ChdSpanOf DEF last
    <3>3. Spans(img, s) # {}
      BY <1>5, <3>1
    <3>4. QED
      BY <1>2, <1>4, <1>6, <3>2, <3>3
  <2>2. r.rv = -1
    <3>1. r = Refused(img)
      BY <1>3, <1>6
    <3>2. QED
      BY <3>1 DEF Refused
  <2>3. Good(d, s, len, io, r.rv, r.src)
    BY <2>1, <2>2, GoodRefused
  <2>4. QED
    BY <2>3 DEF r
<1>7. CASE ~(s >= img.logical_blocks \/ Spans(img, s) = {})
  <2>1. i \in 1..Len(d.tracks) /\ InSpan(d, i, s)
    BY <1>5, <1>7, ChdReadIs DEF i
  <2> DEFINE post == d.segs[2 * i]
  <2>2. /\ 2 * i - 1 \in 1..Len(d.segs) /\ 2 * i \in 1..Len(d.segs)
        /\ data.first \in Nat /\ data.count \in Nat
        /\ post.first \in Nat /\ post.count \in Nat /\ data.pos \in Nat /\ data.step \in Nat
        /\ data.size \in Nat /\ data.offset \in Nat /\ post.first = data.first + data.count
    BY <1>1, <2>1, ChdNat DEF data
  <2>3. /\ t.start_lba = data.first /\ t.frames = data.count /\ t.mode = data.size /\ t.offset = data.offset
        /\ ChdMap(d)[i].source_offset = data.pos
    BY <1>1, <2>1, ChdTableIs DEF t, data
  <2>4. data.first <= s /\ s < post.first + post.count
    BY <2>1 DEF InSpan, data
  <2>5. post.use = "gap" /\ post.size = data.size
        /\ data.use = "track" /\ data.file = 1 /\ data.step = d.unit_bytes /\ data.size <= d.unit_bytes
        /\ data.count = ChdFrames(d.tracks[i]) /\ data.pos = ChdSource(d, d.tracks[i])
    <3>1. /\ post.use = "gap" /\ data.use = "track" /\ data.file = 1
          /\ data.step = d.unit_bytes
          /\ data.count = ChdFrames(d.tracks[i]) /\ data.pos = ChdSource(d, d.tracks[i])
      BY <1>1, <2>1, ChdRuns DEF data
    <3> DEFINE z == IF d.tracks[i].format \in {"MODE1_2352", "MODE2_2352"} THEN 2352
                    ELSE d.tracks[i].data_size
    <3>2. post.size = z /\ data.size = z /\ z <= d.unit_bytes
      BY <1>1, <2>1, ChdRuns DEF data
    <3> HIDE DEF z
    <3>3. QED
      BY <3>1, <3>2
  <2>6. CASE s - data.first >= data.count
    <3>1. r.rv = n /\ r.src = Zeros
      BY <1>3, <1>7, <2>3, <2>6
    <3>2. Holds(d, 2 * i, s)
      <4> DEFINE a == data.first
                 c == data.count
                 p == post.first
                 q == post.count
      <4>1. a \in Nat /\ c \in Nat /\ p \in Nat /\ q \in Nat /\ p = a + c /\ s < p + q /\ s - a >= c
        BY <2>2, <2>4, <2>6
      <4> HIDE DEF a, c, p, q
      <4>2. p <= s /\ s < p + q
        BY <4>1
      <4>3. QED
        BY <4>2 DEF Holds, p, q
    <3>3. n = MinOf(len, d.segs[2 * i].size)
      BY <2>3, <2>5 DEF n
    <3>4. Good(d, s, len, io, r.rv, r.src)
      BY <1>1, <2>2, <2>5, <3>1, <3>2, <3>3, GoodGap
    <3>5. QED
      BY <3>4 DEF r
  <2>7. CASE ~(s - data.first >= data.count)
    <3> DEFINE a == s - data.first
               u == d.unit_bytes
               at == Place(d, 2 * i - 1, s)
               p == data.pos
               c == data.count
               z == data.size
    <3>0. /\ data.first <= s /\ s < data.first + data.count
          /\ s - data.first \in Nat /\ s - data.first < data.count /\ ~(s < data.first)
      <4> DEFINE b == data.first
      <4>1. b \in Nat /\ c \in Nat /\ b <= s /\ ~(s - b >= c)
        BY <2>2, <2>4, <2>7
      <4> HIDE DEF b, c
      <4>2. b <= s /\ s < b + c /\ s - b \in Nat /\ s - b < c /\ ~(s < b)
        BY <4>1
      <4>3. QED
        BY <4>2 DEF b, c
    <3>1. r = cdimage_chd_read_exact(img, pos, n, io)
      BY <1>3, <1>7, <2>3, <2>7, <3>0
    <3>2. Holds(d, 2 * i - 1, s)
      BY <3>0 DEF Holds, data
    <3>3. a \in Nat /\ u \in Nat /\ p \in Nat /\ c \in Nat /\ z \in Nat /\ a < c /\ z <= u
      <4>1. d.unit_bytes \in Nat
        BY ChdTrackType
      <4>2. QED
        BY <2>2, <2>5, <3>0, <4>1
    <3>4. at = p + a * u
      BY <2>5 DEF Place, data
    <3>5. p + c * u <= d.files[1].size
      BY <1>1, <2>1, <2>5 DEF ChdFits
    <3>6. d.files[1].size \in Nat
      <4>1. d.files \in Seq([size : Nat, ok : BOOLEAN]) /\ d.files # <<>>
        BY DiscsAssumption
      <4>2. d.files[1] \in [size : Nat, ok : BOOLEAN]
        BY <4>1, NonEmptySeqElements
      <4>3. QED
        BY <4>2
    <3>7. pos = at + (IF len < z THEN data.offset ELSE 0)
      BY <2>3, <3>4 DEF pos
    <3>8. n = MinOf(len, z)
      BY <2>3 DEF n
    <3> DEFINE size == d.files[1].size
    <3>9. size \in Nat /\ p + c * u <= size
      BY <3>5, <3>6
    <3>10. at \in Nat /\ at + z <= size
      <4> HIDE DEF a, u, at, p, c, z, size
      <4>1. a * u + u <= c * u /\ a * u \in Nat /\ c * u \in Nat
        BY <3>3, MulStep
      <4>2. QED
        BY <3>3, <3>4, <3>9, <4>1
    <3>11. pos \in Nat /\ n \in Nat
      <4> DEFINE o == data.offset
      <4>1. o \in Nat
        BY <2>2
      <4>2. pos = at + (IF len < z THEN o ELSE 0) /\ at \in Nat /\ z \in Nat /\ n = MinOf(len, z)
        BY <3>3, <3>7, <3>8, <3>10
      <4> HIDE DEF at, z, o
      <4>3. QED
        BY <4>1, <4>2 DEF MinOf
    <3>12. ExactOk(d, pos, n, io, r)
      BY <3>1, <3>6, <3>11, ReadExact
    <3> DEFINE j == 2 * i - 1
    <3>13. /\ j \in 1..Len(d.segs) /\ Holds(d, j, s) /\ d.segs[j].use = "track" /\ d.segs[j].file = 1
           /\ Place(d, j, s) \in Nat /\ Place(d, j, s) + d.segs[j].size <= d.files[1].size
           /\ pos = Place(d, j, s) + (IF len < d.segs[j].size THEN d.segs[j].offset ELSE 0)
           /\ n = MinOf(len, d.segs[j].size)
      BY <2>2, <2>5, <3>2, <3>7, <3>8, <3>10 DEF data
    <3> HIDE DEF j
    <3>14. Good(d, s, len, io, r.rv, r.src)
      BY <1>1, <3>6, <3>12, <3>13, GoodExact
    <3>15. QED
      BY <3>14 DEF r
  <2>8. QED
    BY <2>6, <2>7
<1>8. QED
  BY <1>6, <1>7

-----------------------------------------------------------------------------
(* The invariant.                                                          *)

\* Reads of any image.
LEMMA ReadSector ==
  ASSUME NEW d \in Discs, NEW g \in {0, 1}, NEW img, NEW s \in Nat, NEW len \in Nat, NEW io \in Io,
         Held(d, g, img, fds)
  PROVE  LET r == retro_cdimage_read_sector(img, s, len, io)
         IN  Held(d, g, r.img, r.fds) /\ (NoPregaps(d) => Good(d, s, len, io, r.rv, r.src))
<1>1. d.kind \in {"iso", "cue", "chd"}
  BY HeldKind
<1>2. QED
  BY <1>1, IsoReads, CueReads, ChdKeeps, ChdReads

\* The disc in use is the one the streams are of.
LEMMA RunningIs ==
  ASSUME NEW d \in Discs, NEW g \in {0, 1}, NEW img, Held(d, g, img, fds)
  PROVE  Running = d
<1>1. <<g, 1>> \in DOMAIN fds /\ \A h \in DOMAIN fds : fds[h].disc = d.name
  <2>1. <<g, 1>> \in Handles(d, g)
    BY HeldKind
  <2>2. DOMAIN fds = Handles(d, g) /\ \A h \in DOMAIN fds : StreamOk(img, d, h, fds[h])
    BY DEF Held, Streams
  <2>3. QED
    BY <2>1, <2>2 DEF StreamOk
<1>2. \A e \in Discs : (\E h \in DOMAIN fds : fds[h].disc = e.name) <=> e = d
  BY <1>1, NamesAssumption
<1>3. QED
  BY <1>2 DEF Running

\* A read keeps the invariant, whatever the host answers.
LEMMA ReadIInv ==
  ASSUME IInv, cdimage_read_sector
  PROVE  IInv'
<1>1. PICK d \in Discs, g \in {0, 1} : Held(d, g, CDIMAGE, fds)
  BY DEF IInv, Idle, InUse, cdimage_read_sector
<1>2. Running = d
  BY <1>1, RunningIs
<1>3. PICK s \in Sectors(d), len \in Lengths, io \in Io :
        LET r == retro_cdimage_read_sector(CDIMAGE, s, len, io)
        IN  /\ CDIMAGE' = r.img /\ fds' = r.fds
            /\ buf' = [disc |-> d.name, sector |-> s, len |-> len, rv |-> r.rv,
                       src |-> r.src, quiet |-> io.seek /\ io.read = "all"]
  BY <1>2 DEF cdimage_read_sector
<1>4. s \in Nat /\ len \in Nat
  BY ReadsAssumption
<1> DEFINE r == retro_cdimage_read_sector(CDIMAGE, s, len, io)
<1>5. Held(d, g, r.img, r.fds) /\ (NoPregaps(d) => Good(d, s, len, io, r.rv, r.src))
  BY <1>1, <1>4, ReadSector
<1>6. /\ CDIMAGE' = r.img /\ fds' = r.fds
      /\ buf' = [disc |-> d.name, sector |-> s, len |-> len, rv |-> r.rv,
                 src |-> r.src, quiet |-> io.seek /\ io.read = "all"]
  BY <1>3
<1> HIDE DEF r
<1>7. InUse'
  <2>1. Held(d, g, CDIMAGE', fds')
    BY <1>5, <1>6
  <2>2. QED
    BY <2>1 DEF InUse
<1>8. /\ buf'.disc = d.name /\ buf'.sector = s /\ buf'.len = len /\ buf'.rv = r.rv /\ buf'.src = r.src
      /\ buf'.quiet <=> (io.seek /\ io.read = "all")
  BY <1>6
<1>9. ReadDisc' = d
  BY <1>8, NamesAssumption DEF ReadDisc
<1>10. ReadsItsFrame'
  BY <1>5, <1>8, <1>9 DEF ReadsItsFrame, Good
<1>11. ReadsInFull'
  BY <1>5, <1>8, <1>9 DEF ReadsInFull, Good
<1>12. QED
  BY <1>7, <1>10, <1>11 DEF IInv

\* Every step keeps the invariant.
LEMMA NextIInv == IInv /\ [Next]_vars => IInv'
<1> SUFFICES ASSUME IInv, [Next]_vars PROVE IInv'
  OBVIOUS
<1>1. CASE \E d \in Discs : retro_load_game(d) \/ cdimage_ode_launch(d)
  BY <1>1, LoadIInv, LaunchIInv
<1>2. CASE retro_unload_game
  BY <1>2, UnloadIInv
<1>3. CASE cdimage_read_sector
  BY <1>3, ReadIInv
<1>4. CASE UNCHANGED vars
  BY <1>4 DEF vars, IInv, Idle, InUse, Held, Streams, ReadDisc, ReadsItsFrame, ReadsInFull
<1>5. QED
  BY <1>1, <1>2, <1>3, <1>4 DEF Next

\* The invariant holds in every state of every behaviour.
LEMMA Invariance == Spec => []IInv
BY InitIInv, NextIInv, PTL DEF Spec

-----------------------------------------------------------------------------
(* The table of tracks.                                                    *)

\* Table T of disc d's tracks, as the TOC needs it.
TableTrue(d, T, n) ==
  /\ DOMAIN T = 1..n /\ DOMAIN d.starts = {T[k].num : k \in 1..n}
  /\ \A k \in 1..n : T[k].start_lba \in Nat /\ d.starts[T[k].num] = T[k].start_lba

\* An image in use has the table and the length of its disc.
LEMMA HeldTable ==
  ASSUME NEW d \in Discs, NEW g \in {0, 1}, NEW img, NEW F, Held(d, g, img, F), NoPregaps(d)
  PROVE  /\ \E n \in Nat : TableTrue(d, img.tracks, n)
         /\ img.logical_blocks = d.segs[Len(d.segs)].first + d.segs[Len(d.segs)].count
<1>1. d.kind \in {"iso", "cue", "chd"} /\ Tiled(d)
  BY HeldKind
<1>2. CASE d.kind = "iso"
  <2>1. IsoImage(img, d, g) /\ MasteredIso(d)
    BY <1>2, HeldKind
  <2>2. /\ Len(d.segs) = 1 /\ d.files[1].size \div IsoMode(d) = d.segs[1].count
        /\ d.segs[1].count \in Nat
    BY <1>2, <2>1, IsoGeometry
  <2>3. d.segs[1].first = 0
    <3>1. 1 \in DOMAIN d.segs
      BY <2>2, SegType
    <3>2. QED
      BY <1>1, <3>1 DEF Tiled
  <2>4. img.logical_blocks = d.segs[1].count /\ img.tracks = <<IsoTrack(d)>>
    BY <2>1, <2>2 DEF IsoImage
  <2>5. DOMAIN img.tracks = 1..1 /\ img.tracks[1].num = 1 /\ img.tracks[1].start_lba = 0
    BY <2>4 DEF IsoTrack
  <2>6. d.starts = <<0>>
    BY <2>1 DEF MasteredIso
  <2>7. TableTrue(d, img.tracks, 1)
    BY <2>5, <2>6 DEF TableTrue
  <2>8. QED
    BY <2>2, <2>3, <2>4, <2>7
<1>3. CASE d.kind = "cue"
  <2>1. CueImage(img, d, g) /\ Sheet(d)
    BY <1>3, HeldKind
  <2>2. img.tracks = CueTracks(d)
        /\ img.logical_blocks = d.segs[Len(d.segs)].first + d.segs[Len(d.segs)].count
    BY <2>1, BasesTrue DEF CueImage
  <2>3. Len(Tr(d)) \in Nat /\ DOMAIN CueTracks(d) = 1..Len(Tr(d))
        /\ DOMAIN d.starts = {Tr(d)[k].num : k \in 1..Len(Tr(d))}
    BY <2>1, SheetType, CueTable, SheetOrder
  <2>4. ASSUME NEW k \in 1..Len(Tr(d))
        PROVE  /\ CueTracks(d)[k].num = Tr(d)[k].num /\ CueTracks(d)[k].start_lba \in Nat
               /\ d.starts[CueTracks(d)[k].num] = CueTracks(d)[k].start_lba
    <3> DEFINE i == RunOf(d, k)
    <3>1. CueTracks(d)[k].num = Tr(d)[k].num /\ CueTracks(d)[k].start_lba = d.segs[i].first
      BY <2>1, CueTable
    <3>2. i \in 1..Len(d.segs) /\ d.segs[i].track = k /\ k # 0
      BY <2>1, RunOfIs
    <3>3. d.segs[i].first \in Nat /\ d.starts[Tr(d)[k].num] = d.segs[i].first
      BY <2>1, <3>2, SegNat, TrackRunFacts
    <3>4. QED
      BY <3>1, <3>3
  <2>5. TableTrue(d, img.tracks, Len(Tr(d)))
    <3>1. {CueTracks(d)[k].num : k \in 1..Len(Tr(d))} = {Tr(d)[k].num : k \in 1..Len(Tr(d))}
      BY <2>4
    <3>2. DOMAIN d.starts = {CueTracks(d)[k].num : k \in 1..Len(Tr(d))}
      BY <2>3, <3>1
    <3>3. TableTrue(d, CueTracks(d), Len(Tr(d)))
      BY <2>3, <2>4, <3>2 DEF TableTrue
    <3>4. QED
      BY <2>2, <3>3
  <2>6. QED
    BY <2>2, <2>3, <2>5
<1>4. CASE d.kind = "chd"
  <2> DEFINE n == Len(d.tracks)
  <2>1. ChdImage(img, d, g) /\ MasteredChd(d) /\ n # 0 /\ n \in Nat /\ DOMAIN d.tracks = 1..n
    BY <1>4, HeldKind, ChdTrackType
  <2>2. img.tracks = ChdTable(d)
        /\ img.logical_blocks = d.segs[Len(d.segs)].first + d.segs[Len(d.segs)].count
    BY <1>1, <1>4, <2>1, ChdFirstsTrue DEF ChdImage
  <2>3. DOMAIN d.starts = {d.tracks[k].num : k \in 1..n}
    BY <2>1 DEF MasteredChd
  <2>4. ASSUME NEW k \in 1..n
        PROVE  /\ ChdTable(d)[k].num = d.tracks[k].num /\ ChdTable(d)[k].start_lba \in Nat
               /\ d.starts[ChdTable(d)[k].num] = ChdTable(d)[k].start_lba
    <3>1. ChdTable(d)[k].num = d.tracks[k].num
          /\ ChdTable(d)[k].start_lba = d.segs[2 * k - 1].first
      BY <1>1, <1>4, <2>1, ChdTableIs
    <3>2. d.segs[2 * k - 1].first \in Nat
      BY <1>1, <1>4, <2>1, ChdNat
    <3>3. d.starts[d.tracks[k].num] = d.segs[2 * k - 1].first
      BY <1>1, <1>4, <2>1, ChdRuns
    <3>4. QED
      BY <3>1, <3>2, <3>3
  <2>5. DOMAIN ChdTable(d) = 1..n
    <3>1. 1 \in 1..n
      BY <2>1
    <3>2. QED
      BY <1>1, <1>4, <2>1, <3>1, ChdTableIs
  <2>6. TableTrue(d, img.tracks, n)
    <3>1. {ChdTable(d)[k].num : k \in 1..n} = {d.tracks[k].num : k \in 1..n}
      BY <2>4
    <3>2. DOMAIN d.starts = {ChdTable(d)[k].num : k \in 1..n}
      BY <2>3, <3>1
    <3>3. \A k \in 1..n : /\ ChdTable(d)[k].start_lba \in Nat
                          /\ d.starts[ChdTable(d)[k].num] = ChdTable(d)[k].start_lba
      BY <2>4
    <3>4. TableTrue(d, ChdTable(d), n)
      BY <2>5, <3>2, <3>3 DEF TableTrue
    <3>5. QED
      BY <2>2, <3>4
  <2>7. QED
    BY <2>1, <2>2, <2>6
<1>5. QED
  BY <1>1, <1>2, <1>3, <1>4

\* Minutes, seconds and frames say the sector.
LEMMA MsfTrue ==
  ASSUME NEW lba \in Nat
  PROVE  ((((lba + 150) \div 4500) * 60 + (((lba + 150) % 4500) \div 75)) * 75
            + (((lba + 150) % 4500) % 75)) - 150 = lba
<1> DEFINE a == lba + 150
           m == a \div 4500
           x == a % 4500
<1>1. a \in Nat /\ m \in Nat /\ x \in 0..4499 /\ a = 4500 * m + x
  OBVIOUS
<1> HIDE DEF x, m
<1>2. x = 75 * (x \div 75) + (x % 75) /\ x \div 75 \in Nat /\ x % 75 \in Nat
  BY <1>1
<1>3. (m * 60 + (x \div 75)) * 75 + (x % 75) = a
  BY <1>1, <1>2
<1>4. QED
  BY <1>3 DEF m, x

\* The TOC of a true table gives back the starts, through minutes, seconds and frames.
LEMMA TocTrue ==
  ASSUME NEW d, NEW img, NEW n \in Nat, TableTrue(d, img.tracks, n)
  PROVE  LET toc == retro_cdimage_get_toc(img)
         IN  /\ DOMAIN toc = DOMAIN d.starts
             /\ \A x \in DOMAIN toc :
                  (toc[x].msf.m * 60 + toc[x].msf.s) * 75 + toc[x].msf.f - 150 = d.starts[x]
<1> DEFINE toc == retro_cdimage_get_toc(img)
           T == img.tracks
           Nums == {T[i].num : i \in DOMAIN T}
           Own(x) == {i \in DOMAIN T : T[i].num = x}
           at == [x \in Nums |-> Max(Own(x))]
           Msf(lba) == [m |-> (lba + 150) \div 4500, s |-> ((lba + 150) % 4500) \div 75,
                        f |-> ((lba + 150) % 4500) % 75]
<1>1. toc = [x \in DOMAIN at |-> [audio |-> T[at[x]].audio, msf |-> Msf(T[at[x]].start_lba)]]
  BY DEF retro_cdimage_get_toc
<1>2. /\ DOMAIN T = 1..n /\ DOMAIN d.starts = {T[k].num : k \in 1..n}
      /\ \A k \in 1..n : T[k].start_lba \in Nat /\ d.starts[T[k].num] = T[k].start_lba
  BY DEF TableTrue
<1>3. DOMAIN toc = Nums /\ DOMAIN d.starts = Nums
  <2>1. DOMAIN at = Nums
    OBVIOUS
  <2>2. DOMAIN toc = DOMAIN at
    <3> HIDE DEF toc, at
    <3>1. QED
      BY <1>1
  <2>3. DOMAIN d.starts = Nums
    BY <1>2
  <2>4. QED
    <3> HIDE DEF toc, at, Nums
    <3>1. QED
      BY <2>1, <2>2, <2>3
<1>4. ASSUME NEW x \in Nums
      PROVE  (toc[x].msf.m * 60 + toc[x].msf.s) * 75 + toc[x].msf.f - 150 = d.starts[x]
  <2>1. Own(x) \in SUBSET (1..n) /\ Own(x) # {}
    BY <1>2
  <2> HIDE DEF Own
  <2>2. Max(Own(x)) \in Own(x)
    BY <2>1, Greatest
  <2> DEFINE k == Max(Own(x))
             lba == T[k].start_lba
  <2>3. k \in 1..n /\ T[k].num = x
    BY <1>2, <2>2 DEF Own
  <2>31. at[x] = k /\ x \in DOMAIN at
    OBVIOUS
  <2>4. toc[x].msf = Msf(lba)
    <3>1. DOMAIN toc = Nums
      BY <1>3
    <3> DEFINE Entry(y) == [audio |-> T[at[y]].audio, msf |-> Msf(T[at[y]].start_lba)]
    <3>2. toc[x] = Entry(x)
      <4> HIDE DEF at, Entry, toc
      <4>1. toc = [y \in DOMAIN at |-> Entry(y)]
        BY <1>1 DEF Entry
      <4>2. QED
        BY <4>1, <2>31
    <3> HIDE DEF at, toc, k, Msf, T
    <3>3. toc[x].msf = Msf(T[at[x]].start_lba)
      BY <3>2
    <3>4. QED
      BY <3>3, <2>31 DEF lba
  <2>5. lba \in Nat /\ d.starts[x] = lba
    BY <1>2, <2>3
  <2> HIDE DEF lba, k, toc, T
  <2>6. /\ toc[x].msf.m = (lba + 150) \div 4500 /\ toc[x].msf.s = ((lba + 150) % 4500) \div 75
        /\ toc[x].msf.f = ((lba + 150) % 4500) % 75
    BY <2>4
  <2>7. ((((lba + 150) \div 4500) * 60 + (((lba + 150) % 4500) \div 75)) * 75
            + (((lba + 150) % 4500) % 75)) - 150 = lba
    BY <2>5, MsfTrue
  <2>8. QED
    BY <2>5, <2>6, <2>7
<1>5. QED
  BY <1>3, <1>4

-----------------------------------------------------------------------------
(* The theorems.                                                           *)

\* The streams the image names are the open ones.
LEMMA OwnedInv == IInv => StreamsOwned
<1> SUFFICES (Idle \/ InUse) => DOMAIN fds = Owned(CDIMAGE)
  BY DEF IInv, StreamsOwned, Owned
<1>1. CASE Idle
  BY <1>1, ClosedCloses DEF Idle
<1>2. CASE InUse
  <2>1. PICK d \in Discs, g \in {0, 1} : Held(d, g, CDIMAGE, fds)
    BY <1>2 DEF InUse
  <2>2. Owned(CDIMAGE) = DOMAIN fds
    BY <2>1, HeldOwns
  <2>3. QED
    BY <2>2
<1>3. QED
  BY <1>1, <1>2

\* The table is the disc's.
LEMMA LayoutInv == IInv => LayoutTrue
<1> SUFFICES ASSUME IInv, CDIMAGE # Closed, NoPregaps(Running) PROVE LayoutTrue
  BY DEF LayoutTrue
<1>1. PICK d \in Discs, g \in {0, 1} : Held(d, g, CDIMAGE, fds)
  BY DEF IInv, Idle, InUse
<1>2. Running = d
  BY <1>1, RunningIs
<1>3. /\ \E n \in Nat : TableTrue(d, CDIMAGE.tracks, n)
      /\ CDIMAGE.logical_blocks = d.segs[Len(d.segs)].first + d.segs[Len(d.segs)].count
  BY <1>1, <1>2, HeldTable
<1>4. LET toc == retro_cdimage_get_toc(CDIMAGE)
      IN  /\ DOMAIN toc = DOMAIN d.starts
          /\ \A x \in DOMAIN toc :
               (toc[x].msf.m * 60 + toc[x].msf.s) * 75 + toc[x].msf.f - 150 = d.starts[x]
  BY <1>3, TocTrue
<1>5. QED
  BY <1>2, <1>3, <1>4 DEF LayoutTrue

\* Exactly the image's own streams and decoder are open, for any discs: the
\* cleanup of a sheet that fails halfway (retro_cdimage_close in
\* retro_cdimage_open_cue), of a CHD that is empty, too short or not readable
\* (cdimage_chd_state_free), of a core that fails to start and of a launch over a
\* running image leaks none and closes none in use.
THEOREM StreamsAreOwned == Spec => []StreamsOwned
BY Invariance, OwnedInv, PTL

\* The tables retro_cdimage_open_iso, _cue and _chd compute are the disc as it was
\* mastered, for any number of files and tracks of any sizes, CHDs with pregaps
\* excepted: the disc's length, and each track's start through the TOC's minutes,
\* seconds and frames.
THEOREM LayoutIsTrue == Spec => []LayoutTrue
BY Invariance, LayoutInv, PTL

\* What a read delivers begins at the sector's own frame or at its user data, and by
\* a length that fits it does not pass its end, for any disc but a CHD with
\* pregaps, any sector and length, whatever seeks and reads failed or fell short
\* before: a cached position is the stream's own or -1 (cdimage_read_at,
\* cdimage_chd_read_exact, retro_cdimage_read_sector).
THEOREM ReadsTheirFrames == Spec => []ReadsItsFrame
<1>1. IInv => ReadsItsFrame
  BY DEF IInv
<1>2. QED
  BY <1>1, Invariance, PTL

\* When the host does all it is asked, every sector of a disc but a CHD with
\* pregaps is read in full by a length that fits its frame, and one that no run
\* holds reads as nothing (retro_cdimage_get_track_for_sector,
\* cdimage_chd_find_span).
THEOREM ReadsAreFull == Spec => []ReadsInFull
<1>1. IInv => ReadsInFull
  BY DEF IInv
<1>2. QED
  BY <1>1, Invariance, PTL

=============================================================================
