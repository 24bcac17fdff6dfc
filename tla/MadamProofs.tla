---------------------------- MODULE MadamProofs -----------------------------
(***************************************************************************)
(* Proofs about Madam and Pbus: the pending flag says what the engine owes *)
(* the guest, the engine is never busy for longer than its whole memory of *)
(* control blocks takes, and a control port DMA brings the whole chain.    *)
(* They hold for every memory whose lists end, every set of devices and    *)
(* every DMA length.                                                       *)
(***************************************************************************)
EXTENDS Madam, SequenceTheorems, WellFoundedInduction, TLAPS

-----------------------------------------------------------------------------
(* Numbers.                                                                *)

\* A set of naturals has a least element.
LEMMA Least ==
  ASSUME NEW S \in SUBSET Nat, S # {}
  PROVE  \E m \in S : \A j \in S : m <= j
<1>1. PICK m \in S : \A j \in S : ~(<<j, m>> \in OpToRel(<, Nat))
  BY NatLessThanWellFounded, WFMin
<1>2. m \in Nat /\ \A j \in S : j \in Nat
  OBVIOUS
<1>3. \A j \in S : ~(j < m)
  BY <1>1, <1>2 DEF OpToRel
<1>4. QED
  BY <1>2, <1>3

\* f is the running sum, from one, of the costs c of the first n blocks.
Sums(f, c, n) == f = [k \in 0..n |-> IF k = 0 THEN 1 ELSE f[k - 1] + c[k - 1]]

LEMMA SumsStep ==
  ASSUME NEW f, NEW c, NEW n \in Nat, Sums(f, c, n)
  PROVE  f[0] = 1 /\ \A k \in 0..(n - 1) : f[k + 1] = f[k] + c[k]
<1>1. f = [k \in 0..n |-> IF k = 0 THEN 1 ELSE f[k - 1] + c[k - 1]]
  BY DEF Sums
<1>2. 0 \in 0..n
  OBVIOUS
<1>3. f[0] = 1
  BY <1>1, <1>2
<1>4. ASSUME NEW k \in 0..(n - 1)
      PROVE  f[k + 1] = f[k] + c[k]
  <2>1. k + 1 \in 0..n /\ k + 1 # 0 /\ (k + 1) - 1 = k
    OBVIOUS
  <2>2. f[k + 1] = f[(k + 1) - 1] + c[(k + 1) - 1]
    BY <1>1, <2>1
  <2>3. QED
    BY <2>1, <2>2
<1>5. QED
  BY <1>3, <1>4

\* The running sum exists.
LEMMA SumsExist ==
  ASSUME NEW n \in Nat, NEW c
  PROVE  \E f : Sums(f, c, n)
<1> DEFINE Bad == {m \in Nat : ~ \E f : Sums(f, c, m)}
<1>1. SUFFICES ASSUME Bad # {} PROVE FALSE
  OBVIOUS
<1>2. PICK m \in Bad : \A j \in Bad : m <= j
  BY <1>1, Least
<1>3. m # 0
  <2> SUFFICES ASSUME m = 0 PROVE FALSE
    OBVIOUS
  <2> DEFINE f == [k \in 0..0 |-> 1]
  <2>1. f = [k \in 0..0 |-> IF k = 0 THEN 1 ELSE f[k - 1] + c[k - 1]]
    <3>1. \A k \in 0..0 : k = 0
      OBVIOUS
    <3>2. QED
      BY <3>1
  <2>2. Sums(f, c, 0)
    BY <2>1 DEF Sums
  <2>3. QED
    BY <2>2
<1>4. m - 1 \in Nat /\ m - 1 \notin Bad /\ m \in Nat
  BY <1>2, <1>3
<1>5. PICK g : Sums(g, c, m - 1)
  BY <1>4
<1> DEFINE f == [k \in 0..m |-> IF k = m THEN g[m - 1] + c[m - 1] ELSE g[k]]
<1>6. g = [k \in 0..(m - 1) |-> IF k = 0 THEN 1 ELSE g[k - 1] + c[k - 1]]
  BY <1>5 DEF Sums
<1>7. ASSUME NEW k \in 0..m
      PROVE  f[k] = IF k = 0 THEN 1 ELSE f[k - 1] + c[k - 1]
  <2>1. CASE k = 0
    <3>1. 0 \in 0..(m - 1) /\ k # m
      BY <1>3, <1>4, <2>1
    <3>2. f[k] = g[0]
      BY <2>1, <3>1
    <3>3. g[0] = 1
      BY <1>6, <3>1
    <3>4. QED
      BY <2>1, <3>2, <3>3
  <2>2. CASE k = m
    <3>1. k - 1 \in 0..m /\ k - 1 # m
      BY <1>4, <2>2
    <3>2. f[k - 1] = g[k - 1]
      BY <3>1
    <3>3. QED
      BY <1>3, <2>2, <3>2
  <2>3. CASE k # 0 /\ k # m
    <3>1. k - 1 \in 0..m /\ k - 1 # m /\ k \in 0..(m - 1)
      BY <1>4, <2>3
    <3>2. f[k - 1] = g[k - 1] /\ f[k] = g[k]
      BY <2>3, <3>1
    <3>3. g[k] = g[k - 1] + c[k - 1]
      BY <1>6, <2>3, <3>1
    <3>4. QED
      BY <2>3, <3>2, <3>3
  <2>4. QED
    BY <2>1, <2>2, <2>3
<1>8. f = [k \in 0..m |-> IF k = 0 THEN 1 ELSE f[k - 1] + c[k - 1]]
  BY <1>7
<1>9. Sums(f, c, m)
  BY <1>8 DEF Sums
<1>10. QED
  BY <1>2, <1>9

\* The running sum is a function to the naturals.
LEMMA SumsType ==
  ASSUME NEW n \in Nat, NEW c \in [0..(n - 1) -> Nat], NEW f, Sums(f, c, n)
  PROVE  \A k \in 0..n : f[k] \in Nat
<1> DEFINE Bad == {m \in 0..n : f[m] \notin Nat}
<1>1. SUFFICES ASSUME Bad # {} PROVE FALSE
  OBVIOUS
<1>2. Bad \in SUBSET Nat
  OBVIOUS
<1>3. PICK m \in Bad : \A j \in Bad : m <= j
  BY <1>1, <1>2, Least
<1>4. f[0] = 1 /\ \A k \in 0..(n - 1) : f[k + 1] = f[k] + c[k]
  BY SumsStep
<1>5. m # 0 /\ m - 1 \in 0..(n - 1) /\ m - 1 \notin Bad /\ m - 1 \in 0..n
  BY <1>3, <1>4
<1>6. f[m - 1] \in Nat /\ c[m - 1] \in Nat
  BY <1>5
<1>7. (m - 1) + 1 = m
  BY <1>3
<1>8. f[m] = f[m - 1] + c[m - 1]
  BY <1>4, <1>5, <1>7
<1>9. QED
  BY <1>3, <1>6, <1>8

\* Costs that are larger one by one have the larger sum.
LEMMA SumsMonotone ==
  ASSUME NEW n \in Nat, NEW c \in [0..(n - 1) -> Nat], NEW d \in [0..(n - 1) -> Nat],
         NEW f, NEW g, Sums(f, c, n), Sums(g, d, n), \A a \in 0..(n - 1) : c[a] <= d[a]
  PROVE  f[n] <= g[n]
<1> DEFINE Bad == {m \in 0..n : ~(f[m] <= g[m])}
<1>1. SUFFICES ASSUME Bad # {} PROVE FALSE
  OBVIOUS
<1>2. Bad \in SUBSET Nat
  OBVIOUS
<1>3. PICK m \in Bad : \A j \in Bad : m <= j
  BY <1>1, <1>2, Least
<1>4. /\ f[0] = 1 /\ \A k \in 0..(n - 1) : f[k + 1] = f[k] + c[k]
      /\ g[0] = 1 /\ \A k \in 0..(n - 1) : g[k + 1] = g[k] + d[k]
  BY SumsStep
<1>5. m # 0 /\ m - 1 \in 0..(n - 1) /\ m - 1 \notin Bad /\ m - 1 \in 0..n
  BY <1>3, <1>4
<1>6. /\ f[m - 1] \in Nat /\ g[m - 1] \in Nat /\ c[m - 1] \in Nat /\ d[m - 1] \in Nat
      /\ f[m - 1] <= g[m - 1] /\ c[m - 1] <= d[m - 1]
  BY <1>5, SumsType
<1>7. (m - 1) + 1 = m
  BY <1>3
<1>8. f[m] = f[m - 1] + c[m - 1] /\ g[m] = g[m - 1] + d[m - 1]
  BY <1>4, <1>5, <1>7
<1>9. QED
  BY <1>3, <1>6, <1>8

\* The costs d are the costs c with x more for block a.
Raised(c, d, a, x, n) ==
  /\ c \in [0..(n - 1) -> Nat] /\ d \in [0..(n - 1) -> Nat] /\ a \in 0..(n - 1) /\ x \in Nat
  /\ d[a] = c[a] + x /\ \A k \in 0..(n - 1) : k # a => d[k] = c[k]

\* One cost more is its amount more.
LEMMA SumsOneMore ==
  ASSUME NEW n \in Nat, NEW c, NEW d, NEW a, NEW x, Raised(c, d, a, x, n),
         NEW f, NEW g, Sums(f, c, n), Sums(g, d, n)
  PROVE  g[n] = f[n] + x
<1>r. /\ c \in [0..(n - 1) -> Nat] /\ d \in [0..(n - 1) -> Nat] /\ a \in 0..(n - 1) /\ x \in Nat
      /\ d[a] = c[a] + x /\ \A k \in 0..(n - 1) : k # a => d[k] = c[k]
  BY DEF Raised
<1> DEFINE Off(m) == IF a < m THEN x ELSE 0
           Bad == {m \in 0..n : g[m] # f[m] + Off(m)}
<1>1. CASE Bad = {}
  <2>1. n \in 0..n /\ a < n
    BY <1>r
  <2>2. g[n] = f[n] + Off(n)
    BY <1>1, <2>1
  <2>3. QED
    BY <1>r, <2>1, <2>2
<1>2. CASE Bad # {}
  <2>1. Bad \in SUBSET Nat
    OBVIOUS
  <2>2. PICK m \in Bad : \A j \in Bad : m <= j
    BY <1>2, <2>1, Least
  <2>3. /\ f[0] = 1 /\ \A k \in 0..(n - 1) : f[k + 1] = f[k] + c[k]
    BY SumsStep
  <2>4. /\ g[0] = 1 /\ \A k \in 0..(n - 1) : g[k + 1] = g[k] + d[k]
    BY SumsStep
  <2>5. m # 0
    <3> SUFFICES ASSUME m = 0 PROVE FALSE
      OBVIOUS
    <3>1. Off(0) = 0
      BY <1>r
    <3>2. QED
      BY <1>r, <2>2, <2>3, <2>4, <3>1
  <2>6. m - 1 \in 0..(n - 1) /\ m - 1 \notin Bad /\ m - 1 \in 0..n /\ m \in Nat
    BY <1>r, <2>2, <2>5
  <2>7. /\ f[m - 1] \in Nat /\ c[m - 1] \in Nat
        /\ g[m - 1] = f[m - 1] + Off(m - 1)
    BY <1>r, <2>6, SumsType
  <2>8. (m - 1) + 1 = m
    BY <2>6
  <2>9. f[m] = f[m - 1] + c[m - 1] /\ g[m] = g[m - 1] + d[m - 1]
    BY <2>3, <2>4, <2>6, <2>8
  <2>10. CASE m - 1 = a
    BY <1>r, <2>2, <2>6, <2>7, <2>9, <2>10
  <2>11. CASE m - 1 # a
    <3>1. d[m - 1] = c[m - 1]
      BY <1>r, <2>6, <2>11
    <3>2. Off(m) = Off(m - 1)
      BY <1>r, <2>6, <2>11
    <3>3. Off(m - 1) \in Nat
      BY <1>r
    <3>4. QED
      BY <1>r, <2>2, <2>7, <2>9, <3>1, <3>2, <3>3
  <2>12. QED
    BY <2>10, <2>11
<1>3. QED
  BY <1>1, <1>2

-----------------------------------------------------------------------------
(* The engine.                                                             *)

Addresses == 0..(RAM_SIZE - 1)
Cel == [FSM : {"IDLE", "INPROCESS", "SUSPENDED"}, pending : BOOLEAN, busy_until : Nat, NEXTCCB : Nat]
Walk == [last : BOOLEAN, cels : Nat, pixels : Nat, texels : Nat]

\* What a block costs; the costs of the blocks in S; what all blocks cost.
CostOf(u, a) == 1 + IF u[a].skip THEN 0 ELSE Larger(u[a].pixels, u[a].texels)
CostsIn(u, S) == [a \in Addresses |-> IF a \in S THEN CostOf(u, a) ELSE 0]
TotalCost(u) ==
  LET total[n \in 0..RAM_SIZE] == IF n = 0 THEN 1 ELSE total[n - 1] + CostOf(u, n - 1)
  IN  total[RAM_SIZE]

\* A rank that falls along every list.
Ranks(u, r) ==
  \A a \in Addresses :
    LET b == Successor(u, a) IN u[a].last \/ b = 0 \/ b \notin Addresses \/ r[b] < r[a]

TypeInv ==
  /\ cel \in Cel /\ walk \in Walk /\ now \in Nat /\ ram \in Rams /\ owed \in BOOLEAN
  /\ slot.cel \in Cel /\ slot.now \in Nat /\ slot.ram \in Rams /\ slot.owed \in BOOLEAN

Owes(c, o) == IF c.FSM = "IDLE" THEN ~o ELSE c.pending = o

BusyFor(c, t, u) == c.FSM # "IDLE" /\ ~c.pending => c.busy_until <= t + TotalCost(u)

\* The cels walked so far are the blocks of a set S, each of them once: the next
\* block has a lower rank than all of them.
Walked(S, r, f) ==
  /\ Ranks(ram, r) /\ Sums(f, CostsIn(ram, S), RAM_SIZE)
  /\ walk.cels + walk.pixels + 1 <= f[RAM_SIZE]
  /\ walk.cels + walk.texels + 1 <= f[RAM_SIZE]
  /\ More /\ cel.NEXTCCB < RAM_SIZE => \A s \in S : r[cel.NEXTCCB] < r[s]
WalkInv ==
  at = "walk" => \E S \in SUBSET Addresses, r \in [Addresses -> Addresses] : \E f : Walked(S, r, f)

IInv ==
  /\ TypeInv /\ WalkInv
  /\ Owes(cel, owed) /\ Owes(slot.cel, slot.owed)
  /\ BusyFor(cel, now, ram) /\ BusyFor(slot.cel, slot.now, slot.ram)

\* A memory of control blocks.
LEMMA RamFacts ==
  ASSUME NEW u \in Rams
  PROVE  /\ RAM_SIZE \in Nat /\ u \in [Addresses -> Ccb]
         /\ \E r \in [Addresses -> Addresses] : Ranks(u, r)
<1>1. RAM_SIZE \in Nat /\ u \in [Addresses -> Ccb] /\ Terminates(u)
  BY RamsAssumption DEF Addresses
<1>2. DOMAIN u = Addresses
  BY <1>1
<1>3. QED
  BY <1>1, <1>2 DEF Terminates, Ranks

LEMMA CostType ==
  ASSUME NEW u \in Rams, NEW a \in Addresses
  PROVE  CostOf(u, a) \in Nat /\ CostOf(u, a) > 0 /\ Successor(u, a) \in Nat
<1>1. u[a] \in Ccb
  BY RamFacts
<1>2. u[a].pixels \in Nat /\ u[a].texels \in Nat /\ u[a].next \in Nat /\ a \in Nat
  BY <1>1 DEF Ccb, Addresses
<1>3. QED
  BY <1>2 DEF CostOf, Larger, Successor

LEMMA CostsType ==
  ASSUME NEW u \in Rams, NEW S
  PROVE  CostsIn(u, S) \in [0..(RAM_SIZE - 1) -> Nat]
BY CostType DEF CostsIn, Addresses

\* The cost of all blocks is the sum over all addresses, and no set costs more.
LEMMA TotalIsSum ==
  ASSUME NEW u \in Rams, NEW S \in SUBSET Addresses, NEW f, Sums(f, CostsIn(u, S), RAM_SIZE)
  PROVE  TotalCost(u) \in Nat /\ f[RAM_SIZE] \in Nat /\ f[RAM_SIZE] <= TotalCost(u)
<1> DEFINE n == RAM_SIZE
           c == CostsIn(u, Addresses)
           total[k \in 0..n] == IF k = 0 THEN 1 ELSE total[k - 1] + CostOf(u, k - 1)
<1>1. n \in Nat
  BY RamFacts
<1>2. \A k \in 0..n : k # 0 => k - 1 \in Addresses /\ c[k - 1] = CostOf(u, k - 1)
  BY <1>1 DEF CostsIn, Addresses
<1>3. PICK h : Sums(h, c, n)
  BY <1>1, SumsExist
<1>4. h = [k \in 0..n |-> IF k = 0 THEN 1 ELSE h[k - 1] + CostOf(u, k - 1)]
  BY <1>2, <1>3 DEF Sums
<1>5. total = [k \in 0..n |-> IF k = 0 THEN 1 ELSE total[k - 1] + CostOf(u, k - 1)]
  BY <1>4
<1>6. TotalCost(u) = total[n]
  BY DEF TotalCost
<1> HIDE DEF total
<1>7. Sums(total, c, n)
  BY <1>2, <1>5 DEF Sums
<1>8. c \in [0..(n - 1) -> Nat] /\ CostsIn(u, S) \in [0..(n - 1) -> Nat]
  BY CostsType
<1>9. \A a \in 0..(n - 1) : CostsIn(u, S)[a] <= c[a]
  BY CostType DEF CostsIn, Addresses
<1> HIDE DEF c
<1>10. f[n] <= total[n]
  BY <1>1, <1>7, <1>8, <1>9, SumsMonotone
<1>11. n \in 0..n
  BY <1>1
<1>12. f[n] \in Nat /\ total[n] \in Nat
  BY <1>1, <1>7, <1>8, <1>11, SumsType
<1>13. QED
  BY <1>6, <1>10, <1>12

LEMMA TotalType ==
  ASSUME NEW u \in Rams
  PROVE  TotalCost(u) \in Nat
<1>1. PICK f : Sums(f, CostsIn(u, {}), RAM_SIZE)
  BY RamFacts, SumsExist
<1>2. QED
  BY <1>1, TotalIsSum

\* A walk begins with no block.
LEMMA WalkBegins ==
  ASSUME ram \in Rams, ram' = ram, walk' = Start
  PROVE  WalkInv'
<1>1. PICK r \in [Addresses -> Addresses] : Ranks(ram, r)
  BY RamFacts
<1>2. PICK f : Sums(f, CostsIn(ram, {}), RAM_SIZE)
  BY RamFacts, SumsExist
<1>3. RAM_SIZE \in Nat /\ RAM_SIZE \in 0..RAM_SIZE
  BY RamFacts
<1>4. f[RAM_SIZE] \in Nat /\ f[RAM_SIZE] >= 1
  <2> DEFINE z == [a \in 0..(RAM_SIZE - 1) |-> 0]
             c == CostsIn(ram, {})
  <2>1. c = z /\ c \in [0..(RAM_SIZE - 1) -> Nat]
    BY DEF CostsIn, Addresses
  <2> DEFINE Bad == {m \in 0..RAM_SIZE : ~(f[m] >= 1)}
  <2>2. \A k \in 0..RAM_SIZE : f[k] \in Nat
    BY <1>2, <1>3, <2>1, SumsType
  <2>3. f[0] = 1 /\ \A k \in 0..(RAM_SIZE - 1) : f[k + 1] = f[k] + c[k]
    BY <1>2, <1>3, SumsStep
  <2> HIDE DEF c
  <2>4. ASSUME Bad # {} PROVE FALSE
    <3>1. Bad \in SUBSET Nat
      OBVIOUS
    <3>2. PICK m \in Bad : \A j \in Bad : m <= j
      BY <2>4, <3>1, Least
    <3>3. m # 0 /\ m - 1 \in 0..(RAM_SIZE - 1) /\ m - 1 \notin Bad /\ m - 1 \in 0..RAM_SIZE
          /\ (m - 1) + 1 = m
      BY <1>3, <2>3, <3>2
    <3>4. f[m] = f[m - 1] + c[m - 1] /\ f[m - 1] \in Nat /\ f[m - 1] >= 1 /\ c[m - 1] \in Nat
      BY <2>1, <2>2, <2>3, <3>3
    <3>5. QED
      BY <3>2, <3>4
  <2>5. QED
    BY <1>3, <2>2, <2>4
<1>5. Walked({}, r, f)'
  BY <1>1, <1>2, <1>4 DEF Walked, Start
<1>6. QED
  BY <1>5 DEF WalkInv

\* One more cel.
LEMMA WalkGoesOn ==
  ASSUME TypeInv, WalkInv, opera_madam_cel_handle
  PROVE  WalkInv'
<1>0. PICK a : a = cel.NEXTCCB
  OBVIOUS
<1> DEFINE ccb == ram[a]
<1>1. /\ at = "walk" /\ More /\ a < RAM_SIZE /\ ram' = ram
      /\ walk' = [last |-> ccb.last, cels |-> walk.cels + 1,
                  pixels |-> walk.pixels + IF ccb.skip THEN 0 ELSE ccb.pixels,
                  texels |-> walk.texels + IF ccb.skip THEN 0 ELSE ccb.texels]
      /\ cel' = [cel EXCEPT !.NEXTCCB = Successor(ram, a)]
  BY <1>0 DEF opera_madam_cel_handle
<1>2. PICK S \in SUBSET Addresses, r \in [Addresses -> Addresses] : \E f : Walked(S, r, f)
  BY <1>1 DEF WalkInv
<1>3. PICK f : Walked(S, r, f)
  BY <1>2
<1>4. RAM_SIZE \in Nat /\ a \in Addresses /\ a \in Nat /\ ccb \in Ccb
  BY <1>0, <1>1, RamFacts DEF TypeInv, Cel, Addresses
<1>5. a \notin S
  <2>1. \A s \in S : r[a] < r[s]
    BY <1>0, <1>1, <1>3 DEF Walked
  <2>2. r[a] \in Int
    BY <1>4 DEF Addresses
  <2>3. QED
    BY <2>1, <2>2
<1> DEFINE T == S \cup {a}
           c == CostsIn(ram, S)
           x == CostOf(ram, a)
           d == CostsIn(ram, T)
<1>6. x \in Nat /\ d[a] = c[a] + x /\ \A k \in Addresses : k # a => d[k] = c[k]
  <2>1. x \in Nat /\ c[a] = 0 /\ d[a] = x
    BY <1>4, <1>5, CostType DEF TypeInv, CostsIn
  <2>2. \A k \in Addresses : k # a => d[k] = c[k]
    BY <1>4 DEF CostsIn
  <2> HIDE DEF x, c, d
  <2>3. d[a] = c[a] + x
    BY <2>1
  <2>4. QED
    BY <2>1, <2>2, <2>3
<1>7. PICK g : Sums(g, d, RAM_SIZE)
  BY <1>4, SumsExist
<1>8. c \in [0..(RAM_SIZE - 1) -> Nat] /\ d \in [0..(RAM_SIZE - 1) -> Nat] /\ Sums(f, c, RAM_SIZE) /\ f[RAM_SIZE] \in Nat
  <2>1. c \in [0..(RAM_SIZE - 1) -> Nat] /\ d \in [0..(RAM_SIZE - 1) -> Nat] /\ Sums(f, c, RAM_SIZE)
    BY <1>3, CostsType DEF TypeInv, Walked
  <2>2. QED
    BY <2>1, TotalIsSum DEF TypeInv
<1>9. g[RAM_SIZE] = f[RAM_SIZE] + x
  <2> HIDE DEF x, c, d
  <2>1. a \in 0..(RAM_SIZE - 1) /\ \A k \in 0..(RAM_SIZE - 1) : k # a => d[k] = c[k]
    BY <1>4, <1>6 DEF Addresses
  <2>2. Raised(c, d, a, x, RAM_SIZE)
    BY <1>6, <1>8, <2>1 DEF Raised
  <2>3. QED
    BY <1>4, <1>7, <1>8, <2>2, SumsOneMore
<1>10. ccb.pixels \in Nat /\ ccb.texels \in Nat /\ walk.cels \in Nat /\ walk.pixels \in Nat
       /\ walk.texels \in Nat
  BY <1>4 DEF Ccb, TypeInv, Walk
<1>11. /\ walk'.cels + walk'.pixels + 1 <= g[RAM_SIZE]
       /\ walk'.cels + walk'.texels + 1 <= g[RAM_SIZE]
  <2>1. /\ walk.cels + walk.pixels + 1 <= f[RAM_SIZE] /\ walk.cels + walk.texels + 1 <= f[RAM_SIZE]
    BY <1>3 DEF Walked
  <2>2. /\ x >= 1 + IF ccb.skip THEN 0 ELSE ccb.pixels
        /\ x >= 1 + IF ccb.skip THEN 0 ELSE ccb.texels
    BY <1>10 DEF CostOf, Larger
  <2>3. /\ walk'.cels = walk.cels + 1
        /\ walk'.pixels = walk.pixels + IF ccb.skip THEN 0 ELSE ccb.pixels
        /\ walk'.texels = walk.texels + IF ccb.skip THEN 0 ELSE ccb.texels
    BY <1>1
  <2> DEFINE y == IF ccb.skip THEN 0 ELSE ccb.pixels
             z == IF ccb.skip THEN 0 ELSE ccb.texels
  <2>4. y \in Nat /\ z \in Nat
    BY <1>10
  <2> HIDE DEF x, y, z
  <2>5. x \in Nat /\ x >= 1 + y /\ x >= 1 + z /\ walk'.pixels = walk.pixels + y
        /\ walk'.texels = walk.texels + z
    BY <1>6, <2>2, <2>3 DEF y, z
  <2> DEFINE F == f[RAM_SIZE]
             G == g[RAM_SIZE]
  <2>6. F \in Nat /\ G = F + x /\ walk.cels + walk.pixels + 1 <= F /\ walk.cels + walk.texels + 1 <= F
    BY <1>8, <1>9, <2>1
  <2> HIDE DEF F, G
  <2>7. /\ (walk.cels + 1) + (walk.pixels + y) + 1 <= G
        /\ (walk.cels + 1) + (walk.texels + z) + 1 <= G
    BY <1>10, <2>4, <2>5, <2>6
  <2>8. QED
    BY <2>3, <2>5, <2>7 DEF G
<1>12. More' /\ cel'.NEXTCCB < RAM_SIZE => \A s \in T : r[cel'.NEXTCCB] < r[s]
  <2> SUFFICES ASSUME More', cel'.NEXTCCB < RAM_SIZE, NEW s \in T
               PROVE  r[cel'.NEXTCCB] < r[s]
    OBVIOUS
  <2> DEFINE b == Successor(ram, a)
  <2>1. cel'.NEXTCCB = b /\ b \in Nat
    BY <1>1, <1>4, CostType DEF TypeInv, Cel
  <2>2. b # 0 /\ ~ccb.last /\ b \in Addresses
    BY <1>1, <1>4, <2>1 DEF More, Addresses
  <2>3. r[b] < r[a]
    BY <1>3, <1>4, <2>2 DEF Walked, Ranks
  <2>4. s = a \/ r[a] < r[s]
    BY <1>0, <1>1, <1>3 DEF Walked
  <2>5. r[a] \in Int /\ r[b] \in Int /\ r[s] \in Int
    BY <1>4, <2>2 DEF Addresses
  <2>6. QED
    BY <2>1, <2>3, <2>4, <2>5
<1>13. T \in SUBSET Addresses
  BY <1>4
<1>14. Walked(T, r, g)'
  BY <1>1, <1>3, <1>7, <1>11, <1>12 DEF Walked
<1>15. QED
  BY <1>13, <1>14 DEF WalkInv

\* The list is drawn: the engine's time.
LEMMA WalkEnds ==
  ASSUME TypeInv, WalkInv, EndOfList
  PROVE  /\ cel' \in Cel /\ ~cel'.pending /\ cel'.FSM = cel.FSM
         /\ cel'.busy_until <= now + TotalCost(ram)
<1> DEFINE k == walk.cels + IF More THEN 1 ELSE 0
           m == Larger(walk.texels, walk.pixels)
<1>1. at = "walk" /\ cel' = [cel EXCEPT !.busy_until = now + m + k, !.pending = FALSE]
  BY DEF EndOfList, madam_cel_busy_start
<1>2. PICK S \in SUBSET Addresses, r \in [Addresses -> Addresses] : \E f : Walked(S, r, f)
  BY <1>1 DEF WalkInv
<1>3. PICK f : Walked(S, r, f)
  BY <1>2
<1>4. TotalCost(ram) \in Nat /\ f[RAM_SIZE] \in Nat /\ f[RAM_SIZE] <= TotalCost(ram)
  BY <1>3, TotalIsSum DEF Walked, TypeInv
<1>5. walk.cels \in Nat /\ walk.pixels \in Nat /\ walk.texels \in Nat /\ now \in Nat
  BY DEF TypeInv, Walk
<1>6. m + k <= f[RAM_SIZE] /\ m \in Nat /\ k \in Nat
  BY <1>3, <1>4, <1>5 DEF Walked, Larger
<1> HIDE DEF m, k
<1>7. now + m + k \in Nat /\ now + m + k <= now + TotalCost(ram)
  BY <1>4, <1>5, <1>6
<1>8. QED
  BY <1>1, <1>7 DEF TypeInv, Cel

LEMMA InitIInv == Init => IInv
<1> SUFFICES ASSUME Init PROVE IInv
  OBVIOUS
<1>1. /\ cel = opera_madam_reset /\ walk = Start /\ at = "tick" /\ now = 0 /\ owed = FALSE
      /\ ram \in Rams /\ slot.cel = opera_madam_reset /\ slot.ram = ram /\ slot.now = 0
      /\ slot.owed = FALSE
  BY DEF Init
<1>2. opera_madam_reset \in Cel /\ opera_madam_reset.FSM = "IDLE" /\ Start \in Walk
  BY DEF opera_madam_reset, Start, Cel, Walk
<1>3. TypeInv
  <2>1. cel \in Cel /\ walk \in Walk /\ now \in Nat /\ slot.cel \in Cel /\ slot.now \in Nat
    BY <1>1, <1>2
  <2>2. owed \in BOOLEAN /\ slot.owed \in BOOLEAN /\ ram \in Rams /\ slot.ram \in Rams
    BY <1>1, Zenon
  <2>3. QED
    BY <2>1, <2>2 DEF TypeInv
<1>4. QED
  BY <1>1, <1>2, <1>3 DEF IInv, WalkInv, Owes, BusyFor

\* A step outside a walk that leaves memory and the saved state alone.
LEMMA Plain ==
  ASSUME IInv, at' # "walk", ram' = ram, slot' = slot, walk' \in Walk, cel' \in Cel, now' \in Nat,
         owed' \in BOOLEAN, Owes(cel, owed)', BusyFor(cel, now, ram)'
  PROVE  IInv'
<1>1. TypeInv'
  BY DEF IInv, TypeInv
<1>2. WalkInv'
  BY DEF WalkInv
<1>3. QED
  BY <1>1, <1>2 DEF IInv

\* The engine's time is not longer after a step of the clock.
LEMMA Later ==
  ASSUME IInv, Execute
  PROVE  now' \in Nat /\ now <= now' /\ at' = "tick" /\ (ram' = ram => BusyFor(cel, now', ram'))
<1>1. now \in Nat /\ cel.busy_until \in Nat /\ TotalCost(ram) \in Nat
  BY TotalType DEF IInv, TypeInv, Cel
<1>2. now' \in Nat /\ now <= now' /\ at' = "tick"
  BY <1>1 DEF Execute
<1>3. ASSUME ram' = ram PROVE BusyFor(cel, now', ram')
  <2>1. now + TotalCost(ram) <= now' + TotalCost(ram)
    BY <1>1, <1>2
  <2> DEFINE x == now + TotalCost(ram)
             y == now' + TotalCost(ram)
  <2>2. BusyFor(cel, now, ram) /\ x \in Nat /\ y \in Nat
    BY <1>1, <1>2 DEF IInv
  <2>3. QED
    BY <1>1, <1>3, <2>1, <2>2 DEF BusyFor
<1>4. QED
  BY <1>2, <1>3

\* A register access that does to the engine what the hypotheses say.
LEMMA Accessed ==
  ASSUME IInv, Access, cel' \in Cel, owed' \in BOOLEAN, Owes(cel, owed)',
         cel'.FSM # "IDLE" /\ ~cel'.pending =>
           cel.FSM # "IDLE" /\ ~cel.pending /\ cel'.busy_until = cel.busy_until
  PROVE  IInv'
<1>1. Execute /\ ram' = ram /\ slot' = slot /\ walk' = walk
  BY DEF Access
<1>2. now' \in Nat /\ at' = "tick" /\ BusyFor(cel, now', ram')
  BY <1>1, Later
<1>3. BusyFor(cel, now, ram)'
  BY <1>2 DEF BusyFor
<1>4. QED
  BY <1>1, <1>2, <1>3, Plain DEF IInv, TypeInv

LEMMA NextIInv == IInv /\ [Next]_vars => IInv'
<1> SUFFICES ASSUME IInv, [Next]_vars
             PROVE  IInv'
  OBVIOUS
<1>0. /\ TypeInv /\ WalkInv /\ cel \in Cel /\ walk \in Walk /\ now \in Nat /\ owed \in BOOLEAN
      /\ Owes(cel, owed) /\ BusyFor(cel, now, ram)
  BY DEF IInv, TypeInv
<1>1. CASE opera_madam_cel_tick
  <2>1. at = "tick" /\ UNCHANGED <<now, ram, slot>>
    BY <1>1 DEF opera_madam_cel_tick
  <2>2. CASE at' = "exec" /\ UNCHANGED <<cel, walk, owed>>
    BY <1>0, <2>1, <2>2, Plain
  <2>3. CASE at' = "walk" /\ walk' = Start /\ UNCHANGED <<cel, owed>>
    <3>1. WalkInv'
      BY <1>0, <2>1, <2>3, WalkBegins DEF TypeInv
    <3>2. Start \in Walk
      BY DEF Start, Walk
    <3>3. QED
      BY <1>0, <2>1, <2>3, <3>1, <3>2 DEF IInv, TypeInv
  <2>4. CASE /\ cel.FSM = "INPROCESS" /\ ~cel.pending
             /\ cel' = [cel EXCEPT !.FSM = IF now >= cel.busy_until THEN "IDLE" ELSE @]
             /\ at' = "exec" /\ UNCHANGED <<walk, owed>>
    <3>1. cel' \in Cel /\ cel'.pending = cel.pending /\ cel'.busy_until = cel.busy_until
          /\ cel'.FSM \in {"IDLE", "INPROCESS"}
      BY <1>0, <2>4 DEF Cel
    <3>2. ~owed
      BY <1>0, <2>4 DEF Owes
    <3>3. Owes(cel, owed)'
      BY <1>0, <2>4, <3>1, <3>2 DEF Owes
    <3>4. BusyFor(cel, now, ram)'
      BY <1>0, <2>1, <2>4, <3>1 DEF BusyFor
    <3>5. QED
      BY <1>0, <2>1, <2>4, <3>1, <3>3, <3>4, Plain
  <2>5. QED
    BY <1>1, <2>2, <2>3, <2>4 DEF opera_madam_cel_tick, engine
<1>2. CASE opera_madam_cel_handle
  <2>1. WalkInv'
    BY <1>0, <1>2, WalkGoesOn
  <2> DEFINE ccb == ram[cel.NEXTCCB]
  <2>2. /\ cel.NEXTCCB < RAM_SIZE /\ UNCHANGED <<now, ram, slot, owed>>
        /\ walk' = [last |-> ccb.last, cels |-> walk.cels + 1,
                    pixels |-> walk.pixels + IF ccb.skip THEN 0 ELSE ccb.pixels,
                    texels |-> walk.texels + IF ccb.skip THEN 0 ELSE ccb.texels]
        /\ cel' = [cel EXCEPT !.NEXTCCB = Successor(ram, cel.NEXTCCB)]
    BY <1>2 DEF opera_madam_cel_handle
  <2>3. cel.NEXTCCB \in Addresses /\ ccb \in Ccb
    BY <1>0, <2>2, RamFacts DEF TypeInv, Cel, Addresses
  <2>4. Successor(ram, cel.NEXTCCB) \in Nat
    BY <1>0, <2>3, CostType DEF TypeInv
  <2>5. walk' \in Walk
    BY <1>0, <2>2, <2>3 DEF Walk, Ccb
  <2>6. cel' \in Cel /\ cel'.FSM = cel.FSM /\ cel'.pending = cel.pending
        /\ cel'.busy_until = cel.busy_until
    BY <1>0, <2>2, <2>4 DEF Cel
  <2>7. Owes(cel, owed)' /\ BusyFor(cel, now, ram)'
    BY <1>0, <2>2, <2>6 DEF Owes, BusyFor
  <2>8. QED
    BY <1>0, <2>1, <2>2, <2>5, <2>6, <2>7 DEF IInv, TypeInv
<1>3. CASE EndOfList
  <2>1. at' = "exec" /\ owed' = FALSE /\ UNCHANGED <<walk, now, ram, slot>>
    BY <1>3 DEF EndOfList
  <2>2. cel' \in Cel /\ ~cel'.pending /\ cel'.busy_until <= now + TotalCost(ram)
    BY <1>0, <1>3, WalkEnds
  <2>3. Owes(cel, owed)' /\ BusyFor(cel, now, ram)'
    <3>1. cel'.pending = FALSE
      BY <2>2 DEF Cel
    <3>2. QED
      BY <2>1, <2>2, <3>1 DEF Owes, BusyFor
  <2>4. QED
    BY <1>0, <2>1, <2>2, <2>3, Plain
<1>4. CASE NoAccess
  <2>1. Execute /\ UNCHANGED <<ram, slot, cel, walk, owed>>
    BY <1>4 DEF NoAccess, engine
  <2>2. now' \in Nat /\ at' = "tick" /\ BusyFor(cel, now', ram')
    BY <2>1, Later
  <2>3. BusyFor(cel, now, ram)' /\ Owes(cel, owed)'
    BY <1>0, <2>1, <2>2 DEF BusyFor, Owes
  <2>4. QED
    BY <1>0, <2>1, <2>2, <2>3, Plain
<1>5. CASE PokeNextCcb
  <2>1. PICK a \in DOMAIN ram : cel' = [cel EXCEPT !.NEXTCCB = a]
    BY <1>5 DEF PokeNextCcb
  <2>2. Access /\ owed' = owed
    BY <1>5 DEF PokeNextCcb
  <2>3. a \in Nat
    BY <1>0, RamFacts DEF TypeInv, Addresses
  <2>4. cel' \in Cel /\ cel'.FSM = cel.FSM /\ cel'.pending = cel.pending
        /\ cel'.busy_until = cel.busy_until
    BY <1>0, <2>1, <2>3 DEF Cel
  <2>5. Owes(cel, owed)'
    BY <1>0, <2>2, <2>4 DEF Owes
  <2>6. QED
    BY <1>0, <2>2, <2>4, <2>5, Accessed
<1>6. CASE PokeSprStrt
  <2>1. /\ Access /\ owed' = TRUE
        /\ cel' = [cel EXCEPT !.FSM = IF @ = "IDLE" THEN "INPROCESS" ELSE @, !.pending = TRUE]
    BY <1>6 DEF PokeSprStrt
  <2>2. cel' \in Cel /\ cel'.pending = TRUE /\ cel'.FSM # "IDLE"
    BY <1>0, <2>1 DEF Cel
  <2>3. Owes(cel, owed)'
    BY <2>1, <2>2 DEF Owes
  <2>4. QED
    BY <2>1, <2>2, <2>3, Accessed
<1>7. CASE PokeSprStop
  <2>1. /\ Access /\ owed' = FALSE
        /\ cel' = [cel EXCEPT !.FSM = "IDLE", !.NEXTCCB = 0, !.pending = FALSE]
    BY <1>7 DEF PokeSprStop
  <2>2. cel' \in Cel /\ cel'.FSM = "IDLE"
    BY <1>0, <2>1 DEF Cel
  <2>3. Owes(cel, owed)'
    BY <2>1, <2>2 DEF Owes
  <2>4. QED
    BY <2>1, <2>2, <2>3, Accessed
<1>8. CASE PokeSprCntu
  <2>1. /\ Access /\ owed' = owed
        /\ cel' = [cel EXCEPT !.FSM = IF @ = "SUSPENDED" THEN "INPROCESS" ELSE @]
    BY <1>8 DEF PokeSprCntu
  <2>2. /\ cel' \in Cel /\ (cel'.FSM = "IDLE" <=> cel.FSM = "IDLE") /\ cel'.pending = cel.pending
        /\ cel'.busy_until = cel.busy_until
    BY <1>0, <2>1 DEF Cel
  <2>3. Owes(cel, owed)'
    BY <1>0, <2>1, <2>2 DEF Owes
  <2>4. QED
    BY <1>0, <2>1, <2>2, <2>3, Accessed
<1>9. CASE PokeSprPaus
  <2>1. /\ Access /\ owed' = owed
        /\ cel' = [cel EXCEPT !.FSM = IF @ = "INPROCESS" THEN "SUSPENDED" ELSE @]
    BY <1>9 DEF PokeSprPaus
  <2>2. /\ cel' \in Cel /\ (cel'.FSM = "IDLE" <=> cel.FSM = "IDLE") /\ cel'.pending = cel.pending
        /\ cel'.busy_until = cel.busy_until
    BY <1>0, <2>1 DEF Cel
  <2>3. Owes(cel, owed)'
    BY <1>0, <2>1, <2>2 DEF Owes
  <2>4. QED
    BY <1>0, <2>1, <2>2, <2>3, Accessed
<1>10. CASE opera_madam_soft_reset
  <2>1. Access /\ owed' = FALSE /\ cel' = [cel EXCEPT !.FSM = "IDLE"]
    BY <1>10 DEF opera_madam_soft_reset
  <2>2. cel' \in Cel /\ cel'.FSM = "IDLE"
    BY <1>0, <2>1 DEF Cel
  <2>3. Owes(cel, owed)'
    BY <2>1, <2>2 DEF Owes
  <2>4. QED
    BY <2>1, <2>2, <2>3, Accessed
<1>11. CASE PokeDma8Len \/ DMAPBus
  <2>1. Access /\ cel' = cel /\ owed' = owed
    BY <1>11 DEF PokeDma8Len, DMAPBus
  <2>2. Owes(cel, owed)'
    BY <1>0, <2>1 DEF Owes
  <2>3. QED
    BY <1>0, <2>1, <2>2, Accessed
<1>12. CASE NextFrame
  <2>1. at' = "tick" /\ UNCHANGED <<now, ram, slot, cel, walk, owed>>
    BY <1>12 DEF NextFrame, Call, engine
  <2>2. QED
    BY <1>0, <2>1, Plain
<1>13. CASE opera_madam_init
  <2>1. at' = "tick" /\ cel' = opera_madam_reset /\ owed' = FALSE /\ now' = 0
        /\ UNCHANGED <<walk, ram, slot>>
    BY <1>13 DEF opera_madam_init, Call
  <2>2. cel' \in Cel /\ cel'.FSM = "IDLE"
    BY <2>1 DEF opera_madam_reset, Cel
  <2>3. Owes(cel, owed)' /\ BusyFor(cel, now, ram)'
    BY <2>1, <2>2 DEF Owes, BusyFor
  <2>4. QED
    BY <1>0, <2>1, <2>2, <2>3, Plain
<1>14. CASE opera_madam_state_save
  <2>1. at' = "tick" /\ UNCHANGED <<now, ram, cel, walk, owed>>
    BY <1>14 DEF opera_madam_state_save, Call, engine
  <2>2. slot'.cel = cel /\ slot'.ram = ram /\ slot'.now = now /\ slot'.owed = owed
    BY <1>14 DEF opera_madam_state_save
  <2>3. TypeInv'
    BY <1>0, <2>1, <2>2 DEF TypeInv
  <2>4. QED
    BY <1>0, <2>1, <2>2, <2>3 DEF IInv, WalkInv
<1>15. CASE opera_madam_state_load
  <2>1. at' = "tick" /\ UNCHANGED <<walk, slot>> /\ ram' = slot.ram
    BY <1>15 DEF opera_madam_state_load, Call
  <2>2. /\ slot.cel \in Cel /\ slot.now \in Nat /\ slot.ram \in Rams /\ slot.owed \in BOOLEAN
        /\ Owes(slot.cel, slot.owed) /\ BusyFor(slot.cel, slot.now, slot.ram)
    BY DEF IInv, TypeInv
  <2>3. CASE cel' = slot.cel /\ now' = slot.now /\ owed' = slot.owed
    <3>1. TypeInv'
      BY <1>0, <2>1, <2>2, <2>3 DEF TypeInv
    <3>2. QED
      BY <2>1, <2>2, <2>3, <3>1 DEF IInv, WalkInv
  <2>4. CASE cel' = Legacy(slot.cel) /\ now' \in {now, slot.now} /\ owed' = (slot.cel.FSM # "IDLE")
    <3>1. /\ cel' \in Cel /\ cel'.FSM = slot.cel.FSM /\ cel'.busy_until = 0
          /\ cel'.pending = (slot.cel.FSM # "IDLE")
      BY <2>2, <2>4 DEF Legacy, Cel
    <3>2. TypeInv'
      BY <1>0, <2>1, <2>2, <2>4, <3>1 DEF TypeInv
    <3>3. Owes(cel, owed)'
      BY <2>4, <3>1 DEF Owes
    <3>4. BusyFor(cel, now, ram)'
      BY <3>1 DEF BusyFor
    <3>5. QED
      BY <2>1, <2>2, <3>2, <3>3, <3>4 DEF IInv, WalkInv
  <2>5. QED
    BY <1>15, <2>3, <2>4 DEF opera_madam_state_load
<1>16. CASE UNCHANGED vars
  BY <1>0, <1>16 DEF vars, IInv, TypeInv, WalkInv, Walked, More, Owes, BusyFor
<1>17. QED
  BY <1>1, <1>2, <1>3, <1>4, <1>5, <1>6, <1>7, <1>8, <1>9, <1>10, <1>11, <1>12, <1>13, <1>14,
     <1>15, <1>16 DEF Next, Emulate

\* The inductive invariant of the engine.
THEOREM Invariance == Spec => []IInv
BY InitIInv, NextIInv, PTL DEF Spec

\* The pending flag, wherever the engine can act on it, says what is owed to the
\* guest, and an idle engine owes nothing.
THEOREM PendingOwed == Spec => []PendingIsOwed
<1>1. IInv => PendingIsOwed
  BY DEF IInv, Owes, PendingIsOwed
<1>2. QED
  BY <1>1, Invariance, PTL

\* The engine is never busy for longer than all control blocks of its memory
\* would take, through resets and loads of every kind of state.
THEOREM BusyBounded == Spec => []BusyIsBounded
<1>1. IInv => BusyIsBounded
  BY DEF IInv, BusyFor, TotalCost, CostOf, BusyIsBounded
<1>2. QED
  BY <1>1, Invariance, PTL

-----------------------------------------------------------------------------
(* The control port.                                                       *)

\* A function on 1..n is a sequence.
LEMMA FunctionIsSeq ==
  ASSUME NEW n \in Nat, NEW T, NEW f \in [1..n -> T]
  PROVE  f \in Seq(T) /\ Len(f) = n
<1>1. f \in Seq(T)
  BY SeqDef
<1>2. DOMAIN f = 1..Len(f) /\ Len(f) \in Nat
  BY <1>1, LenProperties
<1>3. QED
  BY <1>1, <1>2

Byte == Nat \X Nat
SizeOf(d, p) == IF d[p] = "none" THEN 0 ELSE RecordLength[d[p]]
PollOf(d, p, n) == IF d[n] = "none" THEN p ELSE opera_pbus_add(p, n, d[n])

\* Where the records begin, and the chain after every port.
Starts(d) ==
  LET Before[pt \in 1..(Len(d) + 1)] ==
        IF pt = 1 THEN 0 ELSE Before[pt - 1] + SizeOf(d, pt - 1)
  IN  Before
ChainAfter(d) ==
  LET polled[n \in 0..Len(d)] == IF n = 0 THEN opera_pbus_reset ELSE PollOf(d, polled[n - 1], n)
  IN  polled

\* What can be connected.
Connected(d) == d \in Seq(Device) /\ Len(d) <= LR_INPUT_MAX_DEVICES

LEMMA PbusConstants ==
  /\ LR_INPUT_MAX_DEVICES \in Nat /\ PBUS_BUF_SIZE \in Nat
  /\ PBUS_BUF_SIZE > 9 * LR_INPUT_MAX_DEVICES + 3
BY PbusAssumption

\* A record has two to nine bytes.
LEMMA RecordFacts ==
  ASSUME NEW x \in DOMAIN RecordLength, NEW n \in Nat
  PROVE  /\ RecordLength[x] \in 2..9
         /\ Record(n, x) \in Seq(Byte) /\ Len(Record(n, x)) = RecordLength[x]
         /\ \A k \in 1..RecordLength[x] : Record(n, x)[k] = <<n, k>>
<1>1. RecordLength[x] \in 2..9
  BY DEF RecordLength
<1> DEFINE r == RecordLength[x]
           f == [k \in 1..r |-> <<n, k>>]
<1>2. Record(n, x) = f
  BY DEF Record
<1>3. r \in Nat
  BY <1>1
<1> HIDE DEF r
<1>4. f \in [1..r -> Byte] /\ \A k \in 1..r : f[k] = <<n, k>>
  BY <1>3 DEF Byte
<1> HIDE DEF f
<1>5. f \in Seq(Byte) /\ Len(f) = r
  BY <1>3, <1>4, FunctionIsSeq
<1>6. QED
  BY <1>1, <1>2, <1>4, <1>5 DEF r

LEMMA SizeFacts ==
  ASSUME NEW d, Connected(d), NEW p \in 1..Len(d)
  PROVE  /\ SizeOf(d, p) \in 0..9 /\ (d[p] = "none" => SizeOf(d, p) = 0)
         /\ d[p] # "none" => d[p] \in DOMAIN RecordLength /\ SizeOf(d, p) = RecordLength[d[p]]
<1>1. d[p] \in Device
  BY DEF Connected
<1>2. d[p] # "none" => d[p] \in DOMAIN RecordLength
  BY <1>1 DEF Device
<1>3. CASE d[p] = "none"
  BY <1>3 DEF SizeOf
<1>4. CASE d[p] # "none"
  <2>1. RecordLength[d[p]] \in 2..9
    BY <1>2, <1>4 DEF RecordLength
  <2>2. QED
    BY <1>2, <1>4, <2>1 DEF SizeOf
<1>5. QED
  BY <1>3, <1>4

\* The starts are the running sum of the sizes.
LEMMA StartsFacts ==
  ASSUME NEW d, Connected(d)
  PROVE  /\ Starts(d)[1] = 0 /\ \A p \in 1..(Len(d) + 1) : Starts(d)[p] \in Nat
         /\ \A p \in 1..Len(d) : Starts(d)[p + 1] = Starts(d)[p] + SizeOf(d, p)
<1> DEFINE l == Len(d)
           c == [k \in 0..(l - 1) |-> SizeOf(d, k + 1)]
           Before[pt \in 1..(l + 1)] ==
             IF pt = 1 THEN 0 ELSE Before[pt - 1] + SizeOf(d, pt - 1)
<1>1. l \in Nat
  BY DEF Connected
<1>2. \A p \in 1..l : SizeOf(d, p) \in Nat
  BY SizeFacts
<1> HIDE DEF l
<1>3. c \in [0..(l - 1) -> Nat] /\ \A k \in 0..(l - 1) : c[k] = SizeOf(d, k + 1)
  BY <1>1, <1>2
<1> HIDE DEF c
<1>4. PICK f : Sums(f, c, l)
  BY <1>1, SumsExist
<1>5. f[0] = 1 /\ (\A k \in 0..(l - 1) : f[k + 1] = f[k] + c[k]) /\ \A k \in 0..l : f[k] \in Nat
  BY <1>1, <1>3, <1>4, SumsStep, SumsType
<1> DEFINE h == [p \in 1..(l + 1) |-> f[p - 1] - 1]
<1>6. ASSUME NEW p \in 1..(l + 1)
      PROVE  h[p] = IF p = 1 THEN 0 ELSE h[p - 1] + SizeOf(d, p - 1)
  <2>1. CASE p = 1
    BY <1>1, <1>5, <2>1
  <2>2. CASE p # 1
    <3>1. p - 1 \in 1..(l + 1) /\ p - 2 \in 0..(l - 1) /\ p - 2 \in 0..l /\ (p - 2) + 1 = p - 1
          /\ (p - 1) - 1 = p - 2
      BY <1>1, <2>2
    <3>2. f[p - 1] = f[p - 2] + c[p - 2] /\ c[p - 2] = SizeOf(d, p - 1) /\ c[p - 2] \in Nat
          /\ f[p - 2] \in Nat
      <4> DEFINE q == p - 2
      <4>1. q \in 0..(l - 1) /\ q \in 0..l /\ q + 1 = p - 1
        BY <3>1
      <4> HIDE DEF q
      <4>2. f[q + 1] = f[q] + c[q] /\ c[q] = SizeOf(d, q + 1) /\ c[q] \in Nat /\ f[q] \in Nat
        BY <1>3, <1>5, <4>1
      <4>3. QED
        BY <4>1, <4>2 DEF q
    <3>3. h[p] = f[p - 1] - 1 /\ h[p - 1] = f[p - 2] - 1
      BY <3>1
    <3>4. QED
      BY <2>2, <3>2, <3>3
  <2>3. QED
    BY <2>1, <2>2
<1>7. h = [p \in 1..(l + 1) |-> IF p = 1 THEN 0 ELSE h[p - 1] + SizeOf(d, p - 1)]
  BY <1>6
<1> HIDE DEF h
<1>8. Before = [p \in 1..(l + 1) |-> IF p = 1 THEN 0 ELSE Before[p - 1] + SizeOf(d, p - 1)]
  BY <1>7
<1>9. Starts(d) = Before
  BY DEF Starts, l
<1> HIDE DEF Before
<1>10. Before[1] = 0
  BY <1>1, <1>8
<1>11. \A p \in 1..l : Before[p + 1] = Before[p] + SizeOf(d, p)
  <2> SUFFICES ASSUME NEW p \in 1..l PROVE Before[p + 1] = Before[p] + SizeOf(d, p)
    OBVIOUS
  <2> DEFINE q == p + 1
  <2>1. q \in 1..(l + 1) /\ q # 1 /\ q - 1 = p
    BY <1>1
  <2> HIDE DEF q
  <2>2. Before[q] = Before[q - 1] + SizeOf(d, q - 1)
    BY <1>8, <2>1
  <2>3. QED
    BY <2>1, <2>2 DEF q
<1>12. \A p \in 1..(l + 1) : Before[p] \in Nat
  <2> DEFINE Bad == {p \in 1..(l + 1) : Before[p] \notin Nat}
  <2> SUFFICES ASSUME Bad # {} PROVE FALSE
    OBVIOUS
  <2>1. Bad \in SUBSET Nat
    BY <1>1
  <2>2. PICK m \in Bad : \A j \in Bad : m <= j
    BY <2>1, Least
  <2>3. m # 1 /\ m - 1 \in 1..l /\ m - 1 \in 1..(l + 1) /\ m - 1 \notin Bad /\ (m - 1) + 1 = m
    BY <1>1, <1>10, <2>2
  <2>4. Before[m - 1] \in Nat /\ SizeOf(d, m - 1) \in Nat
    BY <1>2, <2>3
  <2>5. Before[m] = Before[m - 1] + SizeOf(d, m - 1)
    BY <1>8, <2>2, <2>3
  <2>6. QED
    BY <2>2, <2>4, <2>5
<1>13. QED
  BY <1>9, <1>10, <1>11, <1>12 DEF l

\* The recursion of the poll is well defined.
LEMMA ChainExists ==
  ASSUME NEW d, NEW n \in Nat
  PROVE  \E f : f = [k \in 0..n |-> IF k = 0 THEN opera_pbus_reset ELSE PollOf(d, f[k - 1], k)]
<1> DEFINE Is(f, m) == f = [k \in 0..m |-> IF k = 0 THEN opera_pbus_reset ELSE PollOf(d, f[k - 1], k)]
           Bad == {m \in Nat : ~ \E f : Is(f, m)}
<1>1. SUFFICES ASSUME Bad # {} PROVE FALSE
  OBVIOUS
<1>2. PICK m \in Bad : \A j \in Bad : m <= j
  BY <1>1, Least
<1>3. m # 0
  <2> SUFFICES ASSUME m = 0 PROVE FALSE
    OBVIOUS
  <2> DEFINE f == [k \in 0..0 |-> opera_pbus_reset]
  <2>1. \A k \in 0..0 : k = 0
    OBVIOUS
  <2>2. Is(f, 0)
    BY <2>1
  <2>3. QED
    BY <2>2
<1>4. m - 1 \in Nat /\ m - 1 \notin Bad /\ m \in Nat
  BY <1>2, <1>3
<1>5. PICK g : Is(g, m - 1)
  BY <1>4
<1> DEFINE f == [k \in 0..m |-> IF k = m THEN PollOf(d, g[m - 1], m) ELSE g[k]]
<1>6. ASSUME NEW k \in 0..m
      PROVE  f[k] = IF k = 0 THEN opera_pbus_reset ELSE PollOf(d, f[k - 1], k)
  <2>1. CASE k = 0
    <3>1. 0 \in 0..(m - 1) /\ k # m
      BY <1>3, <1>4, <2>1
    <3>2. f[k] = g[0] /\ g[0] = opera_pbus_reset
      BY <1>5, <2>1, <3>1
    <3>3. QED
      BY <2>1, <3>2
  <2>2. CASE k = m
    <3>1. k - 1 \in 0..m /\ k - 1 # m
      BY <1>4, <2>2
    <3>2. f[k - 1] = g[k - 1]
      BY <3>1
    <3>3. QED
      BY <1>3, <2>2, <3>2
  <2>3. CASE k # 0 /\ k # m
    <3>1. k - 1 \in 0..m /\ k - 1 # m /\ k \in 0..(m - 1)
      BY <1>4, <2>3
    <3>2. f[k - 1] = g[k - 1] /\ f[k] = g[k]
      BY <2>3, <3>1
    <3>3. g[k] = PollOf(d, g[k - 1], k)
      BY <1>5, <2>3, <3>1
    <3>4. QED
      BY <2>3, <3>2, <3>3
  <2>4. QED
    BY <2>1, <2>2, <2>3
<1>7. Is(f, m)
  BY <1>6
<1>8. QED
  BY <1>2, <1>7

LEMMA ChainSteps ==
  ASSUME NEW d, Connected(d)
  PROVE  /\ ChainAfter(d)[0] = opera_pbus_reset
         /\ \A n \in 1..Len(d) : ChainAfter(d)[n] = PollOf(d, ChainAfter(d)[n - 1], n)
<1> DEFINE polled[n \in 0..Len(d)] == IF n = 0 THEN opera_pbus_reset ELSE PollOf(d, polled[n - 1], n)
<1>1. Len(d) \in Nat
  BY DEF Connected
<1>2. polled = [n \in 0..Len(d) |-> IF n = 0 THEN opera_pbus_reset ELSE PollOf(d, polled[n - 1], n)]
  BY <1>1, ChainExists
<1>3. ChainAfter(d) = polled
  BY DEF ChainAfter
<1> HIDE DEF polled
<1>4. polled[0] = opera_pbus_reset
  BY <1>1, <1>2
<1>5. \A n \in 1..Len(d) : polled[n] = PollOf(d, polled[n - 1], n)
  <2> SUFFICES ASSUME NEW n \in 1..Len(d) PROVE polled[n] = PollOf(d, polled[n - 1], n)
    OBVIOUS
  <2>1. n \in 0..Len(d) /\ n # 0
    BY <1>1
  <2>2. QED
    BY <1>2, <2>1
<1>6. QED
  BY <1>3, <1>4, <1>5

\* The chain p is open and holds the whole records of the first n ports.
Holds(d, p, n) ==
  /\ p \in [buf : Seq(Byte), finalized : BOOLEAN] /\ ~p.finalized
  /\ Len(p.buf) = Starts(d)[n + 1] /\ Len(p.buf) <= 9 * n
  /\ \A q \in 1..n, k \in Nat :
       k > 0 /\ k <= SizeOf(d, q) =>
         Starts(d)[q] + k <= Len(p.buf) /\ p.buf[Starts(d)[q] + k] = <<q, k>>

\* The chain e is the chain p and m bytes of port n.
Added(p, e, n, m) ==
  /\ e \in [buf : Seq(Byte), finalized : BOOLEAN] /\ ~e.finalized
  /\ Len(e.buf) = Len(p.buf) + m
  /\ \A i \in 1..Len(p.buf) : e.buf[i] = p.buf[i]
  /\ \A k \in 1..m : e.buf[Len(p.buf) + k] = <<n, k>>

\* A record is added to a chain with room for it.
LEMMA AddRecord ==
  ASSUME NEW p \in [buf : Seq(Byte), finalized : BOOLEAN], ~p.finalized, NEW n \in Nat,
         NEW x \in DOMAIN RecordLength, Len(p.buf) + RecordLength[x] <= PBUS_BUF_SIZE
  PROVE  Added(p, opera_pbus_add(p, n, x), n, RecordLength[x])
<1> DEFINE r == Record(n, x)
           b == p.buf \o r
           e == [p EXCEPT !.buf = b]
           m == RecordLength[x]
<1>1. opera_pbus_add(p, n, x) = e
  BY DEF opera_pbus_add, pbus_reserve
<1>2. m \in 2..9 /\ r \in Seq(Byte) /\ Len(r) = m /\ \A k \in 1..m : r[k] = <<n, k>>
  BY RecordFacts
<1>3. p.buf \in Seq(Byte) /\ Len(p.buf) \in Nat
  OBVIOUS
<1> HIDE DEF r, m
<1>4. /\ b \in Seq(Byte) /\ Len(b) = Len(p.buf) + m
      /\ \A i \in 1..(Len(p.buf) + m) : b[i] = IF i <= Len(p.buf) THEN p.buf[i] ELSE r[i - Len(p.buf)]
  BY <1>2, <1>3, ConcatProperties
<1> HIDE DEF b
<1>5. \A i \in 1..Len(p.buf) : b[i] = p.buf[i]
  BY <1>2, <1>3, <1>4
<1>6. \A k \in 1..m : b[Len(p.buf) + k] = <<n, k>>
  <2> SUFFICES ASSUME NEW k \in 1..m PROVE b[Len(p.buf) + k] = <<n, k>>
    OBVIOUS
  <2> DEFINE i == Len(p.buf) + k
  <2>1. i \in 1..(Len(p.buf) + m) /\ ~(i <= Len(p.buf)) /\ i - Len(p.buf) = k
    BY <1>2, <1>3
  <2> HIDE DEF i
  <2>2. b[i] = r[i - Len(p.buf)]
    BY <1>4, <2>1
  <2>3. QED
    BY <1>2, <2>1, <2>2 DEF i
<1>7. e \in [buf : Seq(Byte), finalized : BOOLEAN] /\ ~e.finalized /\ e.buf = b
  BY <1>4
<1> HIDE DEF e
<1>8. QED
  BY <1>1, <1>4, <1>5, <1>6, <1>7 DEF m, Added

\* One port more.
LEMMA PollPort ==
  ASSUME NEW d, Connected(d), NEW n \in 1..Len(d), NEW p, Holds(d, p, n - 1)
  PROVE  Holds(d, PollOf(d, p, n), n)
<1> DEFINE e == PollOf(d, p, n)
           z == SizeOf(d, n)
           st == Starts(d)
<1>1. /\ Len(d) \in Nat /\ n \in Nat /\ Len(d) <= LR_INPUT_MAX_DEVICES /\ n - 1 \in Nat
      /\ (n - 1) + 1 = n
  BY DEF Connected
<1>2. /\ st[n] \in Nat /\ st[n + 1] = st[n] + z /\ \A q \in 1..(n - 1) : st[q] \in Nat
  BY <1>1, StartsFacts
<1>3. z \in 0..9
  BY SizeFacts
<1>4. /\ p \in [buf : Seq(Byte), finalized : BOOLEAN] /\ ~p.finalized
      /\ Len(p.buf) = st[n] /\ Len(p.buf) <= 9 * (n - 1)
      /\ \A q \in 1..(n - 1), k \in Nat : k > 0 /\ k <= SizeOf(d, q) =>
           st[q] + k <= Len(p.buf) /\ p.buf[st[q] + k] = <<q, k>>
  BY <1>1 DEF Holds
<1>5. CASE d[n] = "none"
  <2>1. e = p /\ z = 0
    BY <1>5, SizeFacts DEF PollOf
  <2>2. ASSUME NEW q \in 1..n, NEW k \in Nat, k > 0, k <= SizeOf(d, q)
        PROVE  st[q] + k <= Len(p.buf) /\ p.buf[st[q] + k] = <<q, k>>
    <3>1. q # n
      BY <2>1, <2>2
    <3>2. q \in 1..(n - 1)
      BY <1>1, <3>1
    <3>3. QED
      BY <1>4, <2>2, <3>2
  <2> HIDE DEF e, z, st
  <2>3. Len(p.buf) = st[n + 1] /\ Len(p.buf) <= 9 * n
    BY <1>1, <1>2, <1>4, <2>1
  <2>4. QED
    BY <1>4, <2>1, <2>2, <2>3 DEF Holds, e, st
<1>6. CASE d[n] # "none"
  <2>1. d[n] \in DOMAIN RecordLength /\ z = RecordLength[d[n]] /\ e = opera_pbus_add(p, n, d[n])
    BY <1>6, SizeFacts DEF PollOf
  <2>2. Len(p.buf) + z <= PBUS_BUF_SIZE /\ Len(p.buf) \in Nat
    BY <1>1, <1>3, <1>4, PbusConstants
  <2>3. /\ e \in [buf : Seq(Byte), finalized : BOOLEAN] /\ ~e.finalized
        /\ Len(e.buf) = Len(p.buf) + z
        /\ \A i \in 1..Len(p.buf) : e.buf[i] = p.buf[i]
        /\ \A k \in 1..z : e.buf[Len(p.buf) + k] = <<n, k>>
    <3>1. Added(p, e, n, z)
      BY <1>1, <1>4, <2>1, <2>2, AddRecord
    <3>2. QED
      BY <3>1 DEF Added
  <2> HIDE DEF e, st, z
  <2>4. ASSUME NEW q \in 1..n, NEW k \in Nat, k > 0, k <= SizeOf(d, q)
        PROVE  st[q] + k <= Len(e.buf) /\ e.buf[st[q] + k] = <<q, k>>
    <3>1. CASE q = n
      <4>1. k \in 1..z
        BY <1>3, <2>4, <3>1 DEF z
      <4>2. st[q] = Len(p.buf) /\ e.buf[Len(p.buf) + k] = <<n, k>>
        BY <1>4, <2>3, <3>1, <4>1
      <4>3. Len(p.buf) + k <= Len(p.buf) + z
        BY <1>3, <2>2, <4>1
      <4>4. QED
        BY <2>3, <3>1, <4>2, <4>3
    <3>2. CASE q # n
      <4>1. q \in 1..(n - 1)
        BY <1>1, <3>2
      <4>2. st[q] + k <= Len(p.buf) /\ p.buf[st[q] + k] = <<q, k>> /\ st[q] \in Nat
        BY <1>2, <1>4, <2>4, <4>1
      <4>3. st[q] + k \in 1..Len(p.buf)
        BY <2>2, <2>4, <4>2
      <4> DEFINE i == st[q] + k
      <4> HIDE DEF i
      <4>4. e.buf[i] = p.buf[i] /\ i <= Len(e.buf)
        <5>1. i \in 1..Len(p.buf)
          BY <4>3 DEF i
        <5>2. i <= Len(p.buf) + z
          BY <1>3, <2>2, <5>1
        <5>3. QED
          BY <2>3, <5>1, <5>2
      <4>5. QED
        BY <4>2, <4>4 DEF i
    <3>3. QED
      BY <3>1, <3>2
  <2>5. Len(e.buf) = st[n + 1] /\ Len(e.buf) <= 9 * n
    BY <1>1, <1>2, <1>3, <1>4, <2>2, <2>3
  <2>6. QED
    BY <2>3, <2>4, <2>5 DEF Holds, e, st
<1>7. QED
  BY <1>5, <1>6

\* The chain of all ports.
LEMMA WholeChain ==
  ASSUME NEW d, Connected(d)
  PROVE  Holds(d, ChainAfter(d)[Len(d)], Len(d))
<1> DEFINE ch == ChainAfter(d)
           l == Len(d)
           Bad == {n \in 0..l : ~Holds(d, ch[n], n)}
<1>1. l \in Nat /\ l \in 0..l
  BY DEF Connected
<1>2. ch[0] = opera_pbus_reset /\ \A n \in 1..l : ch[n] = PollOf(d, ch[n - 1], n)
  BY ChainSteps
<1> HIDE DEF ch
<1>3. SUFFICES ASSUME Bad # {} PROVE FALSE
  BY <1>1 DEF ch
<1>4. Bad \in SUBSET Nat
  BY <1>1
<1>5. PICK m \in Bad : \A j \in Bad : m <= j
  BY <1>3, <1>4, Least
<1>6. CASE m = 0
  <2>1. opera_pbus_reset \in [buf : Seq(Byte), finalized : BOOLEAN] /\ ~opera_pbus_reset.finalized
        /\ Len(opera_pbus_reset.buf) = 0
    BY DEF opera_pbus_reset
  <2>2. Starts(d)[0 + 1] = 0
    BY StartsFacts
  <2>3. Holds(d, opera_pbus_reset, 0)
    BY <2>1, <2>2 DEF Holds
  <2>4. QED
    BY <1>2, <1>5, <1>6, <2>3
<1>7. CASE m # 0
  <2>1. m \in 1..l /\ m - 1 \in 0..l /\ m - 1 \notin Bad
    BY <1>1, <1>5, <1>7
  <2>2. Holds(d, ch[m - 1], m - 1)
    BY <2>1
  <2>3. Holds(d, PollOf(d, ch[m - 1], m), m)
    BY <2>1, <2>2, PollPort DEF l
  <2>4. QED
    BY <1>2, <1>5, <2>1, <2>3
<1>8. QED
  BY <1>6, <1>7

\* Every byte of the records has a port.
LEMMA PortOfByte ==
  ASSUME NEW d, Connected(d), NEW i \in Nat, i > 0, i <= Starts(d)[Len(d) + 1]
  PROVE  \E q \in 1..Len(d) : Starts(d)[q] < i /\ i <= Starts(d)[q + 1]
<1> DEFINE l == Len(d)
           b == Starts(d)
           S == {q \in 1..(l + 1) : i <= b[q]}
<1>1. l \in Nat
  BY DEF Connected
<1>2. b[1] = 0 /\ \A p \in 1..(l + 1) : b[p] \in Nat
  BY StartsFacts
<1> HIDE DEF l, b
<1>3. l + 1 \in S
  BY <1>1 DEF l, b
<1>4. PICK m \in S : \A j \in S : m <= j
  <2>1. S \in SUBSET Nat
    BY <1>1
  <2>2. QED
    BY <1>3, <2>1, Least
<1>5. m # 1 /\ m - 1 \in 1..l /\ m - 1 \in 1..(l + 1) /\ m - 1 \notin S /\ i <= b[m]
  BY <1>1, <1>2, <1>4
<1> DEFINE q == m - 1
<1>6. q \in 1..l /\ q \in 1..(l + 1) /\ q \notin S /\ i <= b[q + 1]
  BY <1>1, <1>4, <1>5
<1> HIDE DEF q
<1>7. b[q] < i
  BY <1>2, <1>6
<1>8. QED
  BY <1>6, <1>7 DEF l, b

\* What is expected, in terms of Starts.
LEMMA ExpectedIs ==
  ASSUME NEW d, NEW i
  PROVE  Expected(d, i) =
           IF i <= Starts(d)[Len(d) + 1]
           THEN LET pt == CHOOSE q \in 1..Len(d) : Starts(d)[q] < i /\ i <= Starts(d)[q + 1]
                IN  <<pt, i - Starts(d)[pt]>>
           ELSE IF i <= Starts(d)[Len(d) + 1] + 3 /\ \E q \in 1..Len(d) : d[q] = "orbatak_trackball"
           THEN <<LR_INPUT_MAX_DEVICES + 1, i - Starts(d)[Len(d) + 1]>>
           ELSE PBUS_END_CHAIN_ID
BY DEF Expected, Starts, SizeOf

LEMMA UpdateIs ==
  ASSUME NEW d
  PROVE  lr_input_update(d) =
           IF \E q \in 1..Len(d) : d[q] = "orbatak_trackball"
           THEN opera_pbus_add(ChainAfter(d)[Len(d)], LR_INPUT_MAX_DEVICES + 1, "orbatak_buttons")
           ELSE ChainAfter(d)[Len(d)]
<1>1. ("orbatak_trackball" \in {d[pt] : pt \in 1..Len(d)})
        <=> \E q \in 1..Len(d) : d[q] = "orbatak_trackball"
  OBVIOUS
<1>2. lr_input_update(d) =
        IF "orbatak_trackball" \in {d[pt] : pt \in 1..Len(d)}
        THEN opera_pbus_add(ChainAfter(d)[Len(d)], LR_INPUT_MAX_DEVICES + 1, "orbatak_buttons")
        ELSE ChainAfter(d)[Len(d)]
  BY DEF lr_input_update, ChainAfter, PollOf
<1>3. QED
  BY <1>1, <1>2

\* The chain p is what is expected, and nothing but terminators is expected
\* behind it.
Whole(d, p) ==
  /\ p \in [buf : Seq(Byte), finalized : BOOLEAN]
  /\ \A i \in Nat : i > 0 =>
       /\ i <= Len(p.buf) => p.buf[i] = Expected(d, i)
       /\ i > Len(p.buf) => Expected(d, i) = PBUS_END_CHAIN_ID

\* The records are the expected bytes.
LEMMA RecordsExpected ==
  ASSUME NEW d, Connected(d), NEW p, Holds(d, p, Len(d)),
         NEW i \in Nat, i > 0, i <= Len(p.buf)
  PROVE  p.buf[i] = Expected(d, i)
<1> DEFINE l == Len(d)
           b == Starts(d)
           Of(q) == b[q] < i /\ i <= b[q + 1]
           pt == CHOOSE q \in 1..l : Of(q)
           k == i - b[pt]
<1>1. l \in Nat /\ Len(p.buf) = b[l + 1]
  BY DEF Connected, Holds
<1>2. \E q \in 1..l : Of(q)
  BY <1>1, PortOfByte
<1>3. pt \in 1..l /\ Of(pt)
  BY <1>2
<1>4. Expected(d, i) = <<pt, k>>
  BY <1>1, ExpectedIs
<1> HIDE DEF pt
<1>5. b[pt] \in Nat /\ b[pt + 1] = b[pt] + SizeOf(d, pt) /\ SizeOf(d, pt) \in Nat
  BY <1>1, <1>3, StartsFacts, SizeFacts
<1>6. k \in Nat /\ k > 0 /\ k <= SizeOf(d, pt) /\ b[pt] + k = i
  BY <1>3, <1>5
<1> HIDE DEF k
<1>7. p.buf[b[pt] + k] = <<pt, k>>
  BY <1>3, <1>6 DEF Holds
<1>8. QED
  BY <1>4, <1>6, <1>7

\* A poll of the devices writes what is expected of them.
LEMMA Polled ==
  ASSUME NEW d, Connected(d)
  PROVE  Whole(d, lr_input_update(d))
<1> DEFINE ch == ChainAfter(d)[Len(d)]
           l == Len(d)
           all == Starts(d)[l + 1]
           Ball == \E q \in 1..l : d[q] = "orbatak_trackball"
           x == LR_INPUT_MAX_DEVICES + 1
           e == opera_pbus_add(ch, x, "orbatak_buttons")
<1>1. /\ Holds(d, ch, l) /\ ch \in [buf : Seq(Byte), finalized : BOOLEAN] /\ ~ch.finalized
      /\ Len(ch.buf) = all /\ Len(ch.buf) <= 9 * l
  BY WholeChain DEF Holds
<1>2. l \in Nat /\ l <= LR_INPUT_MAX_DEVICES /\ all \in Nat /\ x \in Nat
  BY <1>1, PbusConstants DEF Connected
<1>3. lr_input_update(d) = IF Ball THEN e ELSE ch
  BY UpdateIs
<1>4. \A i \in Nat : i > 0 /\ i <= all => ch.buf[i] = Expected(d, i)
  BY <1>1, RecordsExpected
<1>5. \A i \in Nat : i > all =>
        Expected(d, i) = IF i <= all + 3 /\ Ball THEN <<x, i - all>> ELSE PBUS_END_CHAIN_ID
  BY <1>2, ExpectedIs
<1>6. CASE ~Ball
  <2> HIDE DEF ch, all, Ball, e
  <2>1. \A i \in Nat : i > all => Expected(d, i) = PBUS_END_CHAIN_ID
    BY <1>5, <1>6
  <2>2. Whole(d, ch)
    BY <1>1, <1>4, <2>1 DEF Whole
  <2>3. QED
    BY <1>3, <1>6, <2>2
<1>7. CASE Ball
  <2>1. "orbatak_buttons" \in DOMAIN RecordLength /\ RecordLength["orbatak_buttons"] = 3
    BY DEF RecordLength
  <2>2. Len(ch.buf) + 3 <= PBUS_BUF_SIZE
    BY <1>1, <1>2, PbusConstants
  <2>3. Added(ch, e, x, 3)
    BY <1>1, <1>2, <2>1, <2>2, AddRecord
  <2> HIDE DEF ch, all, Ball, e, x
  <2>4. /\ e \in [buf : Seq(Byte), finalized : BOOLEAN] /\ Len(e.buf) = all + 3
        /\ \A i \in 1..all : e.buf[i] = ch.buf[i]
        /\ \A k \in 1..3 : e.buf[all + k] = <<x, k>>
    BY <1>1, <2>3 DEF Added
  <2>5. ASSUME NEW i \in Nat, i > 0, i <= all + 3 PROVE e.buf[i] = Expected(d, i)
    <3>1. CASE i <= all
      BY <1>2, <1>4, <2>4, <2>5, <3>1
    <3>2. CASE i > all
      <4> DEFINE k == i - all
      <4>1. k \in 1..3 /\ all + k = i
        BY <1>2, <2>5, <3>2
      <4>2. Expected(d, i) = <<x, k>>
        BY <1>5, <1>7, <2>5, <3>2
      <4> HIDE DEF k
      <4>3. e.buf[all + k] = <<x, k>>
        BY <2>4, <4>1
      <4>4. QED
        BY <4>1, <4>2, <4>3
    <3>3. QED
      BY <1>2, <3>1, <3>2
  <2>6. \A i \in Nat : i > all + 3 => Expected(d, i) = PBUS_END_CHAIN_ID
    BY <1>2, <1>5
  <2>7. Whole(d, e)
    BY <2>4, <2>5, <2>6 DEF Whole
  <2>8. QED
    BY <1>3, <1>7, <2>7
<1>8. QED
  BY <1>6, <1>7

\* Terminating a chain adds what is expected behind it.
LEMMA Padded ==
  ASSUME NEW d, NEW p, Whole(d, p)
  PROVE  Whole(d, opera_pbus_pad(p))
<1>1. CASE p.finalized
  BY <1>1 DEF opera_pbus_pad
<1>2. CASE ~p.finalized
  <2> DEFINE n == Len(p.buf)
             k == IF n >= PBUS_BUF_SIZE THEN 0 ELSE 4 - (n % 4)
             f == [i \in 1..k |-> PBUS_END_CHAIN_ID]
             b == p.buf \o f
  <2>1. opera_pbus_pad(p) = [buf |-> b, finalized |-> TRUE]
    BY <1>2 DEF opera_pbus_pad
  <2>2. /\ p.buf \in Seq(Byte) /\ n \in Nat
        /\ \A i \in Nat : i > 0 =>
             (i <= n => p.buf[i] = Expected(d, i)) /\ (i > n => Expected(d, i) = PBUS_END_CHAIN_ID)
    BY DEF Whole
  <2> HIDE DEF n
  <2>3. k \in Nat
    BY <2>2, PbusConstants
  <2> HIDE DEF k
  <2>4. f \in [1..k -> Byte] /\ \A i \in 1..k : f[i] = PBUS_END_CHAIN_ID
    BY DEF Byte, PBUS_END_CHAIN_ID
  <2> HIDE DEF f
  <2>5. f \in Seq(Byte) /\ Len(f) = k
    BY <2>3, <2>4, FunctionIsSeq
  <2>6. /\ b \in Seq(Byte) /\ Len(b) = n + k
        /\ \A i \in 1..(n + k) : b[i] = IF i <= n THEN p.buf[i] ELSE f[i - n]
    BY <2>2, <2>5, ConcatProperties DEF n
  <2> HIDE DEF b
  <2>7. ASSUME NEW i \in Nat, i > 0, i <= n + k PROVE b[i] = Expected(d, i)
    <3>1. i \in 1..(n + k)
      BY <2>2, <2>3, <2>7
    <3>2. CASE i <= n
      BY <2>2, <2>6, <2>7, <3>1, <3>2
    <3>3. CASE i > n
      <4>1. i - n \in 1..k
        BY <2>2, <2>3, <2>7, <3>3
      <4>2. b[i] = f[i - n]
        BY <2>2, <2>6, <3>1, <3>3
      <4>3. QED
        BY <2>2, <2>4, <2>7, <3>3, <4>1, <4>2
    <3>4. QED
      BY <2>2, <3>2, <3>3
  <2>8. \A i \in Nat : i > n + k => Expected(d, i) = PBUS_END_CHAIN_ID
    BY <2>2, <2>3
  <2> DEFINE r == [buf |-> b, finalized |-> TRUE]
  <2>9. r \in [buf : Seq(Byte), finalized : BOOLEAN] /\ r.buf = b
    BY <2>6
  <2> HIDE DEF r
  <2>10. Whole(d, r)
    BY <2>6, <2>7, <2>8, <2>9 DEF Whole
  <2>11. QED
    BY <2>1, <2>10 DEF r
<1>3. QED
  BY <1>1, <1>2

\* What a DMA of a whole chain writes is expected, at every length.
LEMMA TransferWhole ==
  ASSUME NEW d, NEW p, Whole(d, p), NEW words \in Nat
  PROVE  \A i \in 1..Len(Transferred(p.buf, words)) : Transferred(p.buf, words)[i] = Expected(d, i)
<1> DEFINE n == 4 * words
           f == [i \in 1..n |-> IF i <= Len(p.buf) THEN p.buf[i] ELSE PBUS_END_CHAIN_ID]
<1>1. Transferred(p.buf, words) = f
  BY DEF Transferred
<1>2. p.buf \in Seq(Byte) /\ Len(p.buf) \in Nat /\ n \in Nat
  BY DEF Whole
<1> HIDE DEF n
<1>3. \A i \in 1..n : f[i] = Expected(d, i)
  BY <1>2 DEF Whole
<1>4. f \in [1..n -> Byte]
  BY <1>2 DEF Byte, PBUS_END_CHAIN_ID
<1> HIDE DEF f
<1>5. Len(f) = n
  BY <1>2, <1>4, FunctionIsSeq
<1>6. QED
  BY <1>1, <1>3, <1>5

\* The inductive invariant of the port: the chain is whole for the devices that
\* are connected, before and after it is terminated.
PortInv ==
  /\ Connected(devices) /\ Whole(devices, pbus) /\ PortImage
  /\ dma8 \in Int /\ slot.dma8 \in Int

LEMMA EmptyPort == Connected(<<>>) /\ Whole(<<>>, opera_pbus_reset)
<1> DEFINE d == <<>>
<1>1. Connected(d) /\ Len(d) = 0
  BY PbusConstants DEF Connected
<1>2. ChainAfter(d)[0] = opera_pbus_reset
  BY <1>1, ChainSteps
<1> HIDE DEF d
<1>3. lr_input_update(d) = ChainAfter(d)[0]
  BY <1>1, UpdateIs
<1>4. Whole(d, opera_pbus_reset)
  BY <1>1, <1>2, <1>3, Polled
<1>5. QED
  BY <1>1, <1>4 DEF d

LEMMA InitPort == Init => PortInv
<1> SUFFICES ASSUME Init PROVE PortInv
  OBVIOUS
<1>1. Connected(devices)
  BY PortsAssumption DEF Init, Connected
<1>2. Whole(devices, pbus)
  BY <1>1, Polled DEF Init
<1>3. PortImage
  BY DEF Init, PortImage
<1>4. QED
  BY <1>1, <1>2, <1>3 DEF Init, PortInv, MADAM_DMA8_IDLE_LEN

LEMMA NextPort == PortInv /\ [Next]_vars => PortInv'
<1> SUFFICES ASSUME PortInv, [Next]_vars PROVE PortInv'
  OBVIOUS
<1>0. /\ Connected(devices) /\ Whole(devices, pbus) /\ PortImage
      /\ dma8 \in Int /\ slot.dma8 \in Int
  BY DEF PortInv
<1>1. ASSUME UNCHANGED <<pbus, devices, image>>, dma8' \in Int, slot'.dma8 \in Int PROVE PortInv'
  BY <1>0, <1>1 DEF PortInv, PortImage
<1>2. CASE UNCHANGED <<slot, port>>
  BY <1>0, <1>1, <1>2 DEF port
<1>3. CASE Emulate
  BY <1>2, <1>3 DEF Emulate, opera_madam_cel_tick, opera_madam_cel_handle, EndOfList, NoAccess
<1>4. CASE PokeNextCcb \/ PokeSprStrt \/ PokeSprStop \/ PokeSprCntu \/ PokeSprPaus
           \/ opera_madam_soft_reset
  BY <1>2, <1>4 DEF PokeNextCcb, PokeSprStrt, PokeSprStop, PokeSprCntu, PokeSprPaus,
                    opera_madam_soft_reset, Access
<1>5. CASE PokeDma8Len
  <2>1. dma8' \in Int
    BY <1>5, MadamBounds DEF PokeDma8Len
  <2>2. QED
    BY <1>0, <1>1, <1>5, <2>1 DEF PokeDma8Len, Access
<1>6. CASE DMAPBus
  <2>0. slot' = slot /\ devices' = devices
    BY <1>6 DEF DMAPBus, Access
  <2>1. CASE dma8 < 0
    BY <1>0, <1>1, <1>6, <2>0, <2>1 DEF DMAPBus
  <2>2. CASE ~(dma8 < 0)
    <3>1. /\ pbus' = opera_pbus_pad(pbus) /\ image' = Transferred(pbus'.buf, (dma8 + 3) \div 4)
          /\ dma8' = MADAM_DMA8_IDLE_LEN
      BY <1>6, <2>2 DEF DMAPBus
    <3>2. Whole(devices, pbus')
      BY <1>0, <3>1, Padded
    <3>3. PICK words : words = (dma8 + 3) \div 4
      OBVIOUS
    <3>4. words \in Nat
      BY <1>0, <2>2, <3>3
    <3>5. \A i \in 1..Len(image') : image'[i] = Expected(devices, i)
      BY <3>1, <3>2, <3>3, <3>4, TransferWhole
    <3>6. PortImage'
      BY <2>0, <3>5 DEF PortImage
    <3>7. Connected(devices)' /\ Whole(devices, pbus)'
      BY <1>0, <2>0, <3>2
    <3>8. QED
      BY <1>0, <2>0, <3>1, <3>6, <3>7 DEF PortInv, MADAM_DMA8_IDLE_LEN
  <2>3. QED
    BY <2>1, <2>2
<1>7. CASE NextFrame
  <2>1. /\ devices' \in Ports /\ pbus' = lr_input_update(devices') /\ image' = <<>>
        /\ slot' = slot /\ dma8' = dma8
    BY <1>7 DEF NextFrame
  <2>2. Connected(devices')
    BY <2>1, PortsAssumption DEF Connected
  <2>3. Whole(devices', pbus')
    BY <2>1, <2>2, Polled
  <2>4. PortImage'
    BY <2>1 DEF PortImage
  <2>5. QED
    BY <1>0, <2>1, <2>2, <2>3, <2>4 DEF PortInv
<1>8. CASE opera_madam_init
  <2>1. /\ devices' = <<>> /\ pbus' = opera_pbus_reset /\ image' = <<>>
        /\ slot' = slot /\ dma8' = MADAM_DMA8_IDLE_LEN
    BY <1>8 DEF opera_madam_init
  <2>2. Connected(devices') /\ Whole(devices', pbus')
    BY <2>1, EmptyPort
  <2>3. PortImage'
    BY <2>1 DEF PortImage
  <2>4. QED
    BY <1>0, <2>1, <2>2, <2>3 DEF PortInv, MADAM_DMA8_IDLE_LEN
<1>9. CASE opera_madam_state_save
  BY <1>0, <1>1, <1>9 DEF opera_madam_state_save, port
<1>10. CASE opera_madam_state_load
  BY <1>0, <1>1, <1>10 DEF opera_madam_state_load
<1>11. CASE UNCHANGED vars
  BY <1>2, <1>11 DEF vars, port
<1>12. QED
  BY <1>3, <1>4, <1>5, <1>6, <1>7, <1>8, <1>9, <1>10, <1>11 DEF Next

\* Every control port DMA brings the whole records of the devices polled for the
\* frame in the order of their ports, then terminators, at every length, for any
\* number of ports up to LR_INPUT_MAX_DEVICES.
THEOREM PortImageWhole == Spec => []PortImage
<1>1. PortInv => PortImage
  BY DEF PortInv
<1>2. QED
  BY <1>1, InitPort, NextPort, PTL DEF Spec
=============================================================================
