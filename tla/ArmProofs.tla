----------------------------- MODULE ArmProofs ------------------------------
(***************************************************************************)
(* Proofs about Arm: the types, the memory map and the confinement of user *)
(* mode are invariant, and the banked registers implement the flat file of *)
(* ArmRegisters.                                                           *)
(***************************************************************************)
EXTENDS Arm, WellFoundedInduction, TLAPS

\* A core built by EXCEPT has its fields; the provers take records apart best
\* when the fields are named once.
LEMMA CoreFields ==
  ASSUME NEW c \in Core
  PROVE  /\ c.USER \in [Reg -> Word] /\ c.bank \in [Mode -> [High -> Word]]
         /\ c.SPSR \in [Mode -> Psr] /\ c.CPSR \in Psr /\ c.CPSR.mode \in Mode
         /\ c.CPSR.F \in BOOLEAN
         /\ c.MAS_Access_Exept \in BOOLEAN /\ c.pending \in BOOLEAN /\ c.bus \in Word
         /\ c.overlay \in BOOLEAN /\ c.direct \in Nat /\ c.low \in BOOLEAN /\ c.clear \in Nat
BY DEF Core, Psr

\* Two cores alike but for the registers and the banks.
Alike(c, d) ==
  /\ d.SPSR = c.SPSR /\ d.CPSR = c.CPSR /\ d.MAS_Access_Exept = c.MAS_Access_Exept
  /\ d.pending = c.pending /\ d.bus = c.bus /\ d.overlay = c.overlay
  /\ d.direct = c.direct /\ d.low = c.low /\ d.clear = c.clear

\* What Save and Fetch do, register by register.
LEMMA SaveFacts ==
  ASSUME NEW c \in Core, NEW m \in Mode, NEW rs
  PROVE  /\ Save(c, m, rs) \in Core /\ Alike(c, Save(c, m, rs))
         /\ Save(c, m, rs).USER = c.USER
         /\ \A n \in Mode, r \in High :
              Save(c, m, rs).bank[n][r] = IF n = m /\ r \in rs THEN c.USER[r] ELSE c.bank[n][r]
<1> DEFINE row == [r \in High |-> IF r \in rs THEN c.USER[r] ELSE c.bank[m][r]]
<1>1. row \in [High -> Word]
  BY CoreFields DEF High, Reg
<1>2. Save(c, m, rs) = [c EXCEPT !.bank = [c.bank EXCEPT ![m] = row]]
  BY DEF Save, Core
<1>3. [c.bank EXCEPT ![m] = row] \in [Mode -> [High -> Word]]
  BY <1>1, CoreFields
<1> DEFINE d == [c EXCEPT !.bank = [c.bank EXCEPT ![m] = row]]
<1>4. d \in Core /\ Alike(c, d) /\ d.USER = c.USER /\ d.bank = [c.bank EXCEPT ![m] = row]
  BY <1>3 DEF Core, Alike
<1>5. ASSUME NEW n \in Mode, NEW r \in High
      PROVE  [c.bank EXCEPT ![m] = row][n][r]
               = IF n = m /\ r \in rs THEN c.USER[r] ELSE c.bank[n][r]
  BY CoreFields
<1>6. QED
  BY <1>2, <1>4, <1>5

\* Fetch reads a bank into USER[] and changes nothing else.
LEMMA FetchFacts ==
  ASSUME NEW c \in Core, NEW m \in Mode, NEW rs \in SUBSET High
  PROVE  /\ Fetch(c, m, rs) \in Core /\ Alike(c, Fetch(c, m, rs))
         /\ Fetch(c, m, rs).bank = c.bank
         /\ \A r \in Reg : Fetch(c, m, rs).USER[r] = IF r \in rs THEN c.bank[m][r] ELSE c.USER[r]
<1> DEFINE regs == [r \in Reg |-> IF r \in rs THEN c.bank[m][r] ELSE c.USER[r]]
<1>1. regs \in [Reg -> Word]
  BY CoreFields DEF High, Reg
<1>2. Fetch(c, m, rs) = [c EXCEPT !.USER = regs]
  BY DEF Fetch, Core
<1>3. QED
  BY <1>1, <1>2 DEF Core, Alike

-----------------------------------------------------------------------------
(* Banks.                                                                  *)

\* Register r of mode n, were the core c in mode m.
View(c, m, n, r) == IF Owner(m, r) = n THEN c.USER[r]
                    ELSE IF r \in High THEN c.bank[n][r] ELSE 0

\* Which registers are banked, for any choice of Regs.
LEMMA Subsets == /\ High \subseteq Reg /\ Pair \in SUBSET High /\ High \ Pair \in SUBSET High
                 /\ High \in SUBSET High /\ 15 \in Reg /\ 15 \notin High /\ 14 \in High
                 /\ \A r \in High : r \in Pair \/ r \in 8..12
                 /\ \A r \in Reg : r \in Pair => r \in High
                 /\ \A r \in Reg : r \in 8..12 => r \in High
                 /\ \A r \in Reg \ High : r \notin Pair /\ r \notin 8..12
BY RegsAssumption DEF High, Pair, Reg

\* The owner of a register, by kind of register.
LEMMA OwnerFacts ==
  ASSUME NEW m \in Mode, NEW r \in Reg
  PROVE  /\ Owner(m, r) \in Mode
         /\ r \in Pair => Owner(m, r) = m
         /\ r \in High \ Pair => Owner(m, r) = IF m = "fiq" THEN "fiq" ELSE "user"
         /\ r \notin High => Owner(m, r) = "user"
BY Subsets DEF Owner, Mode, Pair

\* A mode change loses and moves no register: seen from the new mode after it,
\* the file is what it was, seen from the old mode, before.
LEMMA ChangeKeepsFile ==
  ASSUME NEW c \in Core, NEW m \in Mode
  PROVE  /\ ARM_Change_ModeSafe(c, m) \in Core /\ Alike(c, ARM_Change_ModeSafe(c, m))
         /\ \A n \in Mode, r \in Reg :
              View(ARM_Change_ModeSafe(c, m), m, n, r) = View(c, c.CPSR.mode, n, r)
<1> DEFINE o == c.CPSR.mode
<1>0. o \in Mode
  BY CoreFields
<1>1. CASE m = o
  <2>1. ARM_Change_ModeSafe(c, m) = c
    BY <1>1 DEF ARM_Change_ModeSafe
  <2>2. QED
    BY <1>1, <2>1 DEF Alike
<1>2. CASE m = "user" /\ o = "fiq"
  <2> DEFINE s == Save(c, "fiq", High)
             d == Fetch(s, "user", High)
  <2>1. ARM_Change_ModeSafe(c, m) = d
    BY <1>2 DEF ARM_Change_ModeSafe, ARM_RestUserRONS
  <2>2. s \in Core /\ Alike(c, s) /\ s.USER = c.USER
        /\ \A n \in Mode, r \in High :
             s.bank[n][r] = IF n = "fiq" /\ r \in High THEN c.USER[r] ELSE c.bank[n][r]
    BY <1>0, <1>2, SaveFacts
  <2>3. d \in Core /\ Alike(s, d) /\ d.bank = s.bank
        /\ \A r \in Reg : d.USER[r] = IF r \in High THEN s.bank["user"][r] ELSE s.USER[r]
    BY <1>0, <1>2, <2>2, Subsets, FetchFacts
  <2> HIDE DEF s, d
  <2>4. ASSUME NEW n \in Mode, NEW r \in Reg PROVE View(d, m, n, r) = View(c, o, n, r)
    <3>1. CASE r \in Pair
      BY <3>1, <1>0, <1>2, <2>2, <2>3, OwnerFacts, Subsets DEF View
    <3>2. CASE r \in High \ Pair
      BY <3>2, <1>0, <1>2, <2>2, <2>3, OwnerFacts, Subsets DEF View
    <3>3. CASE r \notin High
      BY <3>3, <1>0, <1>2, <2>2, <2>3, OwnerFacts, Subsets DEF View
    <3>4. QED
      BY <3>1, <3>2, <3>3
  <2>5. QED
    BY <2>1, <2>2, <2>3, <2>4 DEF Alike
<1>3. CASE m = "user" /\ o # "user" /\ o # "fiq"
  <2> DEFINE s == Save(c, o, Pair)
             d == Fetch(s, "user", Pair)
  <2>1. ARM_Change_ModeSafe(c, m) = d
    BY <1>3 DEF ARM_Change_ModeSafe, ARM_RestUserRONS
  <2>2. s \in Core /\ Alike(c, s) /\ s.USER = c.USER
        /\ \A n \in Mode, r \in High :
             s.bank[n][r] = IF n = o /\ r \in Pair THEN c.USER[r] ELSE c.bank[n][r]
    BY <1>0, SaveFacts
  <2>3. d \in Core /\ Alike(s, d) /\ d.bank = s.bank
        /\ \A r \in Reg : d.USER[r] = IF r \in Pair THEN s.bank["user"][r] ELSE s.USER[r]
    BY <1>0, <1>3, <2>2, Subsets, FetchFacts
  <2> HIDE DEF s, d
  <2>4. ASSUME NEW n \in Mode, NEW r \in Reg PROVE View(d, m, n, r) = View(c, o, n, r)
    <3>1. CASE r \in Pair
      <4>1. Owner(m, r) = m /\ Owner(o, r) = o /\ r \in High
        BY <3>1, <1>0, OwnerFacts, Subsets
      <4>2. QED
        BY <3>1, <4>1, <1>0, <1>3, <2>2, <2>3 DEF View
    <3>2. CASE r \in High \ Pair
      <4>1. Owner(m, r) = "user" /\ Owner(o, r) = "user" /\ r \in High /\ r \notin Pair
        BY <3>2, <1>0, <1>3, OwnerFacts
      <4>2. QED
        BY <4>1, <1>0, <1>3, <2>2, <2>3 DEF View
    <3>3. CASE r \notin High
      <4>1. Owner(m, r) = "user" /\ Owner(o, r) = "user" /\ r \notin Pair
        BY <3>3, <1>0, OwnerFacts, Subsets
      <4>2. QED
        BY <3>3, <4>1, <1>3, <2>2, <2>3 DEF View
    <3>4. QED
      BY <3>1, <3>2, <3>3
  <2>5. QED
    BY <2>1, <2>2, <2>3, <2>4 DEF Alike
<1>4. CASE m = "fiq" /\ o = "user"
  <2> DEFINE s == Save(c, "user", High)
             d == Fetch(s, "fiq", High)
  <2>1. ARM_Change_ModeSafe(c, m) = d
    BY <1>4 DEF ARM_Change_ModeSafe, ARM_RestFiqRONS
  <2>2. s \in Core /\ Alike(c, s) /\ s.USER = c.USER
        /\ \A n \in Mode, r \in High :
             s.bank[n][r] = IF n = "user" /\ r \in High THEN c.USER[r] ELSE c.bank[n][r]
    BY <1>0, <1>4, SaveFacts
  <2>3. d \in Core /\ Alike(s, d) /\ d.bank = s.bank
        /\ \A r \in Reg : d.USER[r] = IF r \in High THEN s.bank["fiq"][r] ELSE s.USER[r]
    BY <1>0, <1>4, <2>2, Subsets, FetchFacts
  <2> HIDE DEF s, d
  <2>4. ASSUME NEW n \in Mode, NEW r \in Reg PROVE View(d, m, n, r) = View(c, o, n, r)
    <3>1. CASE r \in Pair
      BY <3>1, <1>0, <1>4, <2>2, <2>3, OwnerFacts, Subsets DEF View
    <3>2. CASE r \in High \ Pair
      BY <3>2, <1>0, <1>4, <2>2, <2>3, OwnerFacts, Subsets DEF View
    <3>3. CASE r \notin High
      BY <3>3, <1>0, <1>4, <2>2, <2>3, OwnerFacts, Subsets DEF View
    <3>4. QED
      BY <3>1, <3>2, <3>3
  <2>5. QED
    BY <2>1, <2>2, <2>3, <2>4 DEF Alike
<1>5. CASE m = "fiq" /\ o # "user" /\ o # "fiq"
  <2> DEFINE u == Save(c, "user", High \ Pair)
             s == Save(u, o, Pair)
             d == Fetch(s, "fiq", High)
  <2>1. ARM_Change_ModeSafe(c, m) = d
    BY <1>5 DEF ARM_Change_ModeSafe, ARM_RestFiqRONS
  <2>2. u \in Core /\ Alike(c, u) /\ u.USER = c.USER
        /\ \A n \in Mode, r \in High :
             u.bank[n][r] = IF n = "user" /\ r \in High \ Pair THEN c.USER[r] ELSE c.bank[n][r]
    BY <1>0, SaveFacts DEF Mode
  <2> HIDE DEF u
  <2>3. s \in Core /\ Alike(u, s) /\ s.USER = u.USER
        /\ \A n \in Mode, r \in High :
             s.bank[n][r] = IF n = o /\ r \in Pair THEN u.USER[r] ELSE u.bank[n][r]
    BY <1>0, <2>2, SaveFacts
  <2> HIDE DEF s
  <2>4. d \in Core /\ Alike(s, d) /\ d.bank = s.bank
        /\ \A r \in Reg : d.USER[r] = IF r \in High THEN s.bank["fiq"][r] ELSE s.USER[r]
    BY <1>0, <1>5, <2>3, Subsets, FetchFacts
  <2> HIDE DEF d
  <2>5. ASSUME NEW n \in Mode, NEW r \in Reg PROVE View(d, m, n, r) = View(c, o, n, r)
    <3>1. CASE r \in Pair
      <4>1. Owner(m, r) = m /\ Owner(o, r) = o /\ r \in High
        BY <3>1, <1>0, OwnerFacts, Subsets
      <4>2. QED
        BY <3>1, <4>1, <1>0, <1>5, <2>2, <2>3, <2>4 DEF View
    <3>2. CASE r \in High \ Pair
      <4>1. Owner(m, r) = "fiq" /\ Owner(o, r) = "user" /\ r \in High /\ r \notin Pair
        BY <3>2, <1>0, <1>5, OwnerFacts
      <4>2. QED
        BY <4>1, <1>0, <1>5, <2>2, <2>3, <2>4 DEF View
    <3>3. CASE r \notin High
      <4>1. Owner(m, r) = "user" /\ Owner(o, r) = "user" /\ r \notin Pair
        BY <3>3, <1>0, OwnerFacts, Subsets
      <4>2. QED
        BY <3>3, <4>1, <1>5, <2>2, <2>3, <2>4 DEF View
    <3>4. QED
      BY <3>1, <3>2, <3>3
  <2>6. QED
    BY <2>1, <2>2, <2>3, <2>4, <2>5 DEF Alike
<1>6. CASE m \notin {"user", "fiq"} /\ o = "fiq"
  <2> DEFINE s == Save(c, "fiq", High)
             u == Fetch(s, "user", High \ Pair)
             d == Fetch(u, m, Pair)
  <2>1. ARM_Change_ModeSafe(c, m) = d
    BY <1>6 DEF ARM_Change_ModeSafe, ARM_RestPairRONS
  <2>2. s \in Core /\ Alike(c, s) /\ s.USER = c.USER
        /\ \A n \in Mode, r \in High :
             s.bank[n][r] = IF n = "fiq" /\ r \in High THEN c.USER[r] ELSE c.bank[n][r]
    BY <1>0, <1>6, SaveFacts
  <2> HIDE DEF s
  <2>3. u \in Core /\ Alike(s, u) /\ u.bank = s.bank
        /\ \A r \in Reg : u.USER[r] = IF r \in High \ Pair THEN s.bank["user"][r] ELSE s.USER[r]
    BY <2>2, Subsets, FetchFacts DEF Mode
  <2> HIDE DEF u
  <2>4. d \in Core /\ Alike(u, d) /\ d.bank = u.bank
        /\ \A r \in Reg : d.USER[r] = IF r \in Pair THEN u.bank[m][r] ELSE u.USER[r]
    BY <2>3, Subsets, FetchFacts
  <2> HIDE DEF d
  <2>5. ASSUME NEW n \in Mode, NEW r \in Reg PROVE View(d, m, n, r) = View(c, o, n, r)
    <3>1. CASE r \in Pair
      BY <3>1, <1>0, <1>6, <2>2, <2>3, <2>4, OwnerFacts, Subsets DEF View
    <3>2. CASE r \in High \ Pair
      BY <3>2, <1>0, <1>6, <2>2, <2>3, <2>4, OwnerFacts, Subsets DEF View
    <3>3. CASE r \notin High
      BY <3>3, <1>0, <1>6, <2>2, <2>3, <2>4, OwnerFacts, Subsets DEF View
    <3>4. QED
      BY <3>1, <3>2, <3>3
  <2>6. QED
    BY <2>1, <2>2, <2>3, <2>4, <2>5 DEF Alike
<1>7. CASE m \notin {"user", "fiq"} /\ o # "fiq" /\ m # o
  <2> DEFINE s == Save(c, o, Pair)
             d == Fetch(s, m, Pair)
  <2>1. ARM_Change_ModeSafe(c, m) = d
    BY <1>7 DEF ARM_Change_ModeSafe, ARM_RestPairRONS
  <2>2. s \in Core /\ Alike(c, s) /\ s.USER = c.USER
        /\ \A n \in Mode, r \in High :
             s.bank[n][r] = IF n = o /\ r \in Pair THEN c.USER[r] ELSE c.bank[n][r]
    BY <1>0, SaveFacts
  <2>3. d \in Core /\ Alike(s, d) /\ d.bank = s.bank
        /\ \A r \in Reg : d.USER[r] = IF r \in Pair THEN s.bank[m][r] ELSE s.USER[r]
    BY <2>2, Subsets, FetchFacts
  <2> HIDE DEF s, d
  <2>4. ASSUME NEW n \in Mode, NEW r \in Reg PROVE View(d, m, n, r) = View(c, o, n, r)
    <3>1. CASE r \in Pair
      BY <3>1, <1>0, <1>7, <2>2, <2>3, OwnerFacts, Subsets DEF View
    <3>2. CASE r \in High \ Pair
      BY <3>2, <1>0, <1>7, <2>2, <2>3, OwnerFacts, Subsets DEF View
    <3>3. CASE r \notin High
      BY <3>3, <1>0, <1>7, <2>2, <2>3, OwnerFacts, Subsets DEF View
    <3>4. QED
      BY <3>1, <3>2, <3>3
  <2>5. QED
    BY <2>1, <2>2, <2>3, <2>4 DEF Alike
<1>8. QED
  BY <1>1, <1>2, <1>3, <1>4, <1>5, <1>6, <1>7 DEF Mode

-----------------------------------------------------------------------------
(* The file seen through the operations on the core.                       *)

\* A register of the flat file is what the current mode's view shows.
LEMMA FileIsView ==
  ASSUME NEW c \in Core, NEW n \in Mode, NEW r \in Reg
  PROVE  FileOf(c)[<<n, r>>] = View(c, c.CPSR.mode, n, r)
BY DEF FileOf, View

\* The flat file holds words.
LEMMA FileType ==
  ASSUME NEW c \in Core
  PROVE  FileOf(c) \in [Mode \X Reg -> Word]
<1>1. ASSUME NEW n \in Mode, NEW r \in Reg PROVE View(c, c.CPSR.mode, n, r) \in Word
  BY CoreFields, WordsAssumption DEF View, Word
<1>2. QED
  BY <1>1 DEF FileOf, View

\* Files are equal when they agree register by register.
LEMMA FileEqual ==
  ASSUME NEW c \in Core, NEW f \in [Mode \X Reg -> Word],
         \A n \in Mode, r \in Reg : FileOf(c)[<<n, r>>] = f[<<n, r>>]
  PROVE  FileOf(c) = f
BY FileType

\* A file with v in register q of mode n.
Put(f, n, q, v) == [f EXCEPT ![<<n, q>>] = v]

\* Put writes its register.
LEMMA PutFacts ==
  ASSUME NEW f \in [Mode \X Reg -> Word], NEW n \in Mode, NEW q \in Reg, NEW v \in Word
  PROVE  /\ Put(f, n, q, v) \in [Mode \X Reg -> Word]
         /\ Put(f, n, q, v)[<<n, q>>] = v
BY DEF Put

\* Put leaves every other register alone.
LEMMA PutOther ==
  ASSUME NEW f \in [Mode \X Reg -> Word], NEW n \in Mode, NEW q \in Reg, NEW v \in Word,
         NEW m \in Mode, NEW r \in Reg, ~(m = n /\ r = q)
  PROVE  Put(f, n, q, v)[<<m, r>>] = f[<<m, r>>]
BY DEF Put

\* Everything but the registers, the banks and CPSR.
Frame(c, d) ==
  /\ d.MAS_Access_Exept = c.MAS_Access_Exept /\ d.pending = c.pending /\ d.bus = c.bus
  /\ d.overlay = c.overlay /\ d.direct = c.direct /\ d.low = c.low /\ d.clear = c.clear

\* arm_cpsr_set changes the mode and no register (ARM_Change_ModeSafe).
LEMMA CpsrSetFacts ==
  ASSUME NEW c \in Core, NEW p \in Psr
  PROVE  /\ arm_cpsr_set(c, p) \in Core /\ Frame(c, arm_cpsr_set(c, p))
         /\ arm_cpsr_set(c, p).CPSR = p /\ arm_cpsr_set(c, p).SPSR = c.SPSR
         /\ FileOf(arm_cpsr_set(c, p)) = FileOf(c)
<1> DEFINE a == ARM_Change_ModeSafe(c, p.mode)
           d == [a EXCEPT !.CPSR = p]
<1>1. a \in Core /\ Alike(c, a)
      /\ \A n \in Mode, r \in Reg : View(a, p.mode, n, r) = View(c, c.CPSR.mode, n, r)
  BY ChangeKeepsFile DEF Psr
<1> HIDE DEF a
<1>2. d \in Core /\ d.CPSR = p /\ d.SPSR = c.SPSR /\ Frame(c, d)
      /\ d.USER = a.USER /\ d.bank = a.bank
  BY <1>1 DEF Core, Alike, Frame
<1>4. arm_cpsr_set(c, p) = d
  BY DEF arm_cpsr_set, a
<1> HIDE DEF d
<1>3. ASSUME NEW n \in Mode, NEW r \in Reg PROVE FileOf(d)[<<n, r>>] = FileOf(c)[<<n, r>>]
  <2>1. FileOf(d)[<<n, r>>] = View(d, p.mode, n, r)
    BY <1>2, FileIsView
  <2>2. View(d, p.mode, n, r) = View(a, p.mode, n, r)
    BY <1>2 DEF View
  <2>3. QED
    BY <1>1, <2>1, <2>2, FileIsView
<1>5. FileOf(d) = FileOf(c)
  BY <1>2, <1>3, FileEqual, FileType
<1>6. QED
  BY <1>2, <1>4, <1>5

\* An instruction's write goes to the register its mode sees.
LEMMA WriteFacts ==
  ASSUME NEW c \in Core, NEW q \in Reg, NEW v \in Word
  PROVE  /\ Write(c, q, v) \in Core /\ Frame(c, Write(c, q, v))
         /\ Write(c, q, v).CPSR = c.CPSR /\ Write(c, q, v).SPSR = c.SPSR
         /\ \A r \in Reg : Write(c, q, v).USER[r] = IF r = q THEN v ELSE c.USER[r]
         /\ FileOf(Write(c, q, v)) = Put(FileOf(c), Owner(c.CPSR.mode, q), q, v)
<1> DEFINE d == [c EXCEPT !.USER = [c.USER EXCEPT ![q] = v]]
<1>1. [c.USER EXCEPT ![q] = v] \in [Reg -> Word]
  BY CoreFields
<1>2. d \in Core /\ Frame(c, d) /\ d.CPSR = c.CPSR /\ d.SPSR = c.SPSR
      /\ d.USER = [c.USER EXCEPT ![q] = v] /\ d.bank = c.bank
  BY <1>1 DEF Core, Frame
<1>3. Write(c, q, v) = d
  BY DEF Write
<1> HIDE DEF d
<1>4. ASSUME NEW n \in Mode, NEW r \in Reg
      PROVE  FileOf(d)[<<n, r>>]
               = IF n = Owner(c.CPSR.mode, q) /\ r = q THEN v ELSE FileOf(c)[<<n, r>>]
  <2>1. FileOf(d)[<<n, r>>] = View(d, c.CPSR.mode, n, r)
    BY <1>2, FileIsView
  <2>2. FileOf(c)[<<n, r>>] = View(c, c.CPSR.mode, n, r)
    BY FileIsView
  <2>3. CASE r = q
    BY <1>2, <2>1, <2>2, <2>3, CoreFields DEF View
  <2>4. CASE r # q
    <3>1. d.USER[r] = c.USER[r]
      BY <1>2, <2>4, CoreFields
    <3>2. QED
      BY <1>2, <2>1, <2>2, <2>4, <3>1 DEF View
  <2>5. QED
    BY <2>3, <2>4
<1>5. FileOf(d) = Put(FileOf(c), Owner(c.CPSR.mode, q), q, v)
  BY <1>2, <1>4, FileEqual, FileType, CoreFields, OwnerFacts DEF Put
<1>6. QED
  BY <1>2, <1>3, <1>5, CoreFields

\* USER[] holds the user's register exactly where the current mode has no own.
LEMMA InUserFacts ==
  ASSUME NEW c \in Core, NEW q \in Reg
  PROVE  /\ InUser(c, q) => Owner(c.CPSR.mode, q) = "user"
         /\ ~InUser(c, q) => q \in High /\ Owner(c.CPSR.mode, q) # "user"
<1> DEFINE m == c.CPSR.mode
<1>0. m \in Mode
  BY CoreFields
<1>1. CASE q = 15
  BY <1>0, <1>1, OwnerFacts, Subsets DEF InUser
<1>2. CASE m = "user"
  BY <1>2 DEF Owner, InUser
<1>3. CASE q # 15 /\ m # "user"
  <2>1. q \in Regs /\ q \in 0..14
    BY <1>3, RegsAssumption DEF Reg
  <2>2. CASE InUser(c, q)
    <3>1. q <= (IF m = "fiq" THEN 7 ELSE 12)
      BY <1>3, <2>2 DEF InUser
    <3>2. q \notin Pair /\ (q \in 8..12 => m # "fiq")
      BY <2>1, <3>1 DEF Pair
    <3>3. QED
      BY <2>2, <3>2 DEF Owner, Pair
  <2>3. CASE ~InUser(c, q)
    <3>1. q > (IF m = "fiq" THEN 7 ELSE 12)
      BY <1>3, <2>1, <2>3 DEF InUser
    <3>2. q \in Pair \/ (q \in 8..12 /\ q \notin Pair /\ m = "fiq")
      BY <2>1, <3>1 DEF Pair
    <3>3. QED
      BY <1>3, <2>1, <2>3, <3>2 DEF Owner, High, Pair
  <2>4. QED
    BY <2>2, <2>3
<1>4. QED
  BY <1>1, <1>2, <1>3

\* A user-bank transfer reads and writes the user's register.
LEMMA ReadusrIs ==
  ASSUME NEW c \in Core, NEW q \in Reg
  PROVE  readusr(c, q) = FileOf(c)[<<"user", q>>] /\ readusr(c, q) \in Word
<1>1. FileOf(c)[<<"user", q>>] = View(c, c.CPSR.mode, "user", q) /\ "user" \in Mode
  BY FileIsView DEF Mode
<1>2. FileOf(c)[<<"user", q>>] \in Word
  BY <1>1, FileType
<1>3. QED
  BY <1>1, <1>2, InUserFacts DEF readusr, View

\* loadusr writes the user's register, wherever it is kept.
LEMMA LoadusrFacts ==
  ASSUME NEW c \in Core, NEW q \in Reg, NEW v \in Word
  PROVE  /\ loadusr(c, q, v) \in Core /\ Frame(c, loadusr(c, q, v))
         /\ loadusr(c, q, v).CPSR = c.CPSR /\ loadusr(c, q, v).SPSR = c.SPSR
         /\ FileOf(loadusr(c, q, v)) = Put(FileOf(c), "user", q, v)
<1> DEFINE m == c.CPSR.mode
<1>1. CASE InUser(c, q)
  <2>1. Owner(m, q) = "user"
    BY <1>1, InUserFacts
  <2>2. loadusr(c, q, v) = Write(c, q, v)
    BY <1>1 DEF loadusr
  <2> DEFINE d == Write(c, q, v)
  <2>3. d \in Core /\ Frame(c, d) /\ d.CPSR = c.CPSR /\ d.SPSR = c.SPSR
        /\ FileOf(d) = Put(FileOf(c), Owner(m, q), q, v)
    BY WriteFacts
  <2> HIDE DEF d
  <2>4. QED
    BY <2>1, <2>2, <2>3 DEF d
<1>2. CASE ~InUser(c, q)
  <2>1. q \in High /\ Owner(m, q) # "user"
    BY <1>2, InUserFacts
  <2> DEFINE row == [c.bank["user"] EXCEPT ![q] = v]
             d == [c EXCEPT !.bank = [c.bank EXCEPT !["user"] = row]]
  <2>2. row \in [High -> Word] /\ [c.bank EXCEPT !["user"] = row] \in [Mode -> [High -> Word]]
    BY <2>1, CoreFields DEF Mode
  <2>3. loadusr(c, q, v) = d
    BY <1>2 DEF loadusr
  <2>4. d \in Core /\ Frame(c, d) /\ d.CPSR = c.CPSR /\ d.SPSR = c.SPSR /\ d.USER = c.USER
        /\ d.bank = [c.bank EXCEPT !["user"] = row]
    BY <2>2 DEF Core, Frame
  <2> HIDE DEF d
  <2>5. ASSUME NEW n \in Mode, NEW r \in Reg
        PROVE  FileOf(d)[<<n, r>>] = IF n = "user" /\ r = q THEN v ELSE FileOf(c)[<<n, r>>]
    <3>1. FileOf(d)[<<n, r>>] = View(d, m, n, r)
      BY <2>4, FileIsView
    <3>2. FileOf(c)[<<n, r>>] = View(c, m, n, r)
      BY FileIsView
    <3>3. CASE n = "user" /\ r = q
      BY <2>1, <2>4, <3>1, <3>3, CoreFields DEF View
    <3>4. CASE ~(n = "user" /\ r = q)
      BY <2>1, <2>4, <3>1, <3>2, <3>4, CoreFields DEF View
    <3>5. QED
      BY <3>3, <3>4
  <2>6. FileOf(d) = Put(FileOf(c), "user", q, v)
    BY <2>4, <2>5, FileEqual, FileType DEF Put, Mode
  <2>7. QED
    BY <2>3, <2>4, <2>6
<1>3. QED
  BY <1>1, <1>2

\* The flags, the bus and the memory map are not part of the file.
LEMMA FileSame ==
  ASSUME NEW c \in Core, NEW d \in Core,
         d.USER = c.USER, d.bank = c.bank, d.CPSR = c.CPSR
  PROVE  FileOf(d) = FileOf(c)
BY DEF FileOf

SpsrPut(f, m, p) == [f EXCEPT ![m] = p]

\* An exception writes the new mode's SPSR and R14 and the PC.
LEMMA ExceptionFacts ==
  ASSUME NEW c \in Core, NEW m \in Mode, NEW F \in BOOLEAN, NEW lr \in Word, NEW vec \in Word
  PROVE  /\ Exception(c, m, F, lr, vec) \in Core /\ Frame(c, Exception(c, m, F, lr, vec))
         /\ Exception(c, m, F, lr, vec).CPSR = [mode |-> m, F |-> F]
         /\ Exception(c, m, F, lr, vec).SPSR = SpsrPut(c.SPSR, m, c.CPSR)
         /\ FileOf(Exception(c, m, F, lr, vec)) = Put(Put(FileOf(c), m, 14, lr), "user", 15, vec)
         /\ Exception(c, m, F, lr, vec).USER[14] = lr /\ Exception(c, m, F, lr, vec).USER[15] = vec
<1> DEFINE p == [mode |-> m, F |-> F]
           a == arm_cpsr_set(c, p)
           e == [a EXCEPT !.SPSR[m] = c.CPSR]
           w == Write(e, 14, lr)
           d == Write(w, 15, vec)
<1>1. p \in Psr
  BY DEF Psr
<1>2. a \in Core /\ Frame(c, a) /\ a.CPSR = p /\ a.SPSR = c.SPSR /\ FileOf(a) = FileOf(c)
  BY <1>1, CpsrSetFacts
<1>3. Exception(c, m, F, lr, vec) = [e EXCEPT !.USER = [@ EXCEPT ![14] = lr, ![15] = vec]]
  BY DEF Exception
<1> HIDE DEF a
<1>4. SpsrPut(c.SPSR, m, c.CPSR) \in [Mode -> Psr]
  BY CoreFields DEF SpsrPut
<1>5. e = [a EXCEPT !.SPSR = SpsrPut(c.SPSR, m, c.CPSR)]
  BY <1>2 DEF SpsrPut, Core
<1>6. e \in Core /\ Frame(c, e) /\ e.CPSR = p /\ e.SPSR = SpsrPut(c.SPSR, m, c.CPSR)
      /\ e.USER = a.USER /\ e.bank = a.bank
  BY <1>2, <1>4, <1>5 DEF Core, Frame
<1>7. FileOf(e) = FileOf(c)
  BY <1>2, <1>6, FileSame
<1> HIDE DEF e
<1>8. w \in Core /\ Frame(e, w) /\ w.CPSR = p /\ w.SPSR = e.SPSR
      /\ FileOf(w) = Put(FileOf(c), m, 14, lr)
      /\ \A r \in Reg : w.USER[r] = IF r = 14 THEN lr ELSE e.USER[r]
  <2>1. 14 \in Reg /\ Owner(m, 14) = m
    BY Subsets DEF Owner
  <2>2. p.mode = m
    OBVIOUS
  <2> HIDE DEF p
  <2>3. QED
    BY <1>6, <1>7, <2>1, <2>2, WriteFacts
<1>9. w = [e EXCEPT !.USER = [e.USER EXCEPT ![14] = lr]]
  BY DEF Write
<1>10. d = [e EXCEPT !.USER = [[e.USER EXCEPT ![14] = lr] EXCEPT ![15] = vec]]
  BY <1>6, <1>9 DEF Write, Core
<1>11. Exception(c, m, F, lr, vec) = d
  BY <1>3, <1>10
<1> HIDE DEF w
<1>12. d \in Core /\ Frame(w, d) /\ d.CPSR = p /\ d.SPSR = w.SPSR
       /\ FileOf(d) = Put(FileOf(w), "user", 15, vec)
       /\ \A r \in Reg : d.USER[r] = IF r = 15 THEN vec ELSE w.USER[r]
  <2>1. 15 \in Reg /\ Owner(m, 15) = "user"
    BY Subsets, OwnerFacts
  <2>2. p.mode = m
    OBVIOUS
  <2> HIDE DEF p
  <2>3. QED
    BY <1>8, <2>1, <2>2, WriteFacts
<1> HIDE DEF d
<1>13. d.USER[14] = lr /\ d.USER[15] = vec
  BY <1>8, <1>12, Subsets DEF High
<1>14. QED
  BY <1>6, <1>8, <1>11, <1>12, <1>13 DEF Frame

\* The overlay and its limits change together.
LEMMA OverlayFacts ==
  ASSUME NEW c \in Core, NEW g \in Configs, NEW on \in BOOLEAN
  PROVE  /\ set_rom_overlay(c, g, on) \in Core /\ MapOf(set_rom_overlay(c, g, on), g)
         /\ set_rom_overlay(c, g, on).overlay = on
         /\ FileOf(set_rom_overlay(c, g, on)) = FileOf(c)
         /\ LET d == set_rom_overlay(c, g, on)
            IN  /\ d.USER = c.USER /\ d.CPSR = c.CPSR /\ d.SPSR = c.SPSR /\ d.bus = c.bus
                /\ d.MAS_Access_Exept = c.MAS_Access_Exept /\ d.pending = c.pending
<1> DEFINE d == [c EXCEPT !.overlay = on, !.direct = IF on THEN 0 ELSE g.RAM_SIZE, !.low = on,
                          !.clear = IF on THEN g.DRAM_SIZE ELSE 0]
<1>1. d = set_rom_overlay(c, g, on)
  BY DEF set_rom_overlay
<1>2. g.RAM_SIZE \in Nat /\ g.DRAM_SIZE \in Nat
  BY ConfigAssumption
<1>3. d \in Core /\ MapOf(d, g) /\ d.overlay = on /\ d.USER = c.USER /\ d.bank = c.bank
      /\ d.CPSR = c.CPSR /\ d.SPSR = c.SPSR /\ d.bus = c.bus
      /\ d.MAS_Access_Exept = c.MAS_Access_Exept /\ d.pending = c.pending
  BY <1>2 DEF Core, MapOf
<1>4. FileOf(d) = FileOf(c)
  BY <1>3, FileSame
<1>5. QED
  BY <1>1, <1>3, <1>4

\* Between instructions: the inductive invariant of the core, and what an
\* instruction's result keeps of it.
Sound(c, g) == c \in Core /\ MapOf(c, g) /\ c.SPSR["user"].mode = "user"
Ready(c, g) == Sound(c, g) /\ ~c.MAS_Access_Exept /\ ~c.pending

\* Words, vectors and data are words.
LEMMA WordFacts == /\ \A w \in Word : /\ Plus(w) \in Word /\ (w + 1) % Words \in Word
                                      /\ (w + 2) % Words \in Word
                   /\ 0 \in Word /\ 1 \in Word /\ 2 \in Word /\ 4 \in Word /\ 7 \in Word
                   /\ Data \subseteq Word
BY WordsAssumption DEF Word, Plus

\* d is c but for the flags, the bus, and registers of ps.
Touch(c, d, ps) ==
  /\ d.CPSR = c.CPSR /\ d.SPSR = c.SPSR
  /\ \A m \in Mode, r \in Reg : <<m, r>> \notin ps => FileOf(d)[<<m, r>>] = FileOf(c)[<<m, r>>]

SeenBy(m) == {<<Owner(m, r), r>> : r \in Reg}

\* The PC is one register for all modes.
LEMMA PcOfFile ==
  ASSUME NEW c \in Core
  PROVE  FileOf(c)[<<"user", 15>>] = c.USER[15] /\ <<"user", 15>> \in Mode \X Reg
         /\ \A m \in Mode : <<"user", 15>> \in SeenBy(m)
<1>1. \A m \in Mode : Owner(m, 15) = "user"
  BY Subsets, OwnerFacts
<1>2. QED
  BY <1>1, FileIsView, Subsets, CoreFields DEF View, SeenBy, Mode

\* A store that resets: what is handed to the code at the reset vector.
Handed(c, d) ==
  /\ d.SPSR["svc"] = c.CPSR /\ d.CPSR = [mode |-> "svc", F |-> TRUE]
  /\ d.USER[14] = Plus(c.USER[15]) /\ d.USER[15] = 0
  /\ d.overlay

\* What opera_arm_soft_reset leaves, from any mode.
LEMMA SoftResetFacts ==
  ASSUME NEW c \in Core, NEW g \in Configs, c.SPSR["user"].mode = "user"
  PROVE  LET d == opera_arm_soft_reset(c, g)
         IN  /\ Ready(d, g) /\ d.overlay /\ d.bus = c.bus
             /\ d.CPSR = [mode |-> "svc", F |-> TRUE] /\ d.SPSR = SpsrPut(c.SPSR, "svc", c.CPSR)
             /\ FileOf(d) = Put(Put(FileOf(c), "svc", 14, c.USER[15]), "user", 15, 0)
             /\ d.USER[14] = c.USER[15] /\ d.USER[15] = 0
<1> DEFINE e == Exception(c, "svc", TRUE, c.USER[15], 0)
           o == set_rom_overlay(e, g, TRUE)
           d == [o EXCEPT !.pending = FALSE, !.MAS_Access_Exept = FALSE]
<1>0. c.USER[15] \in Word /\ 0 \in Word /\ "svc" \in Mode /\ TRUE \in BOOLEAN
  BY CoreFields, Subsets, WordFacts DEF Mode
<1>1. e \in Core /\ Frame(c, e) /\ e.CPSR = [mode |-> "svc", F |-> TRUE]
      /\ e.SPSR = SpsrPut(c.SPSR, "svc", c.CPSR)
      /\ FileOf(e) = Put(Put(FileOf(c), "svc", 14, c.USER[15]), "user", 15, 0)
      /\ e.USER[14] = c.USER[15] /\ e.USER[15] = 0
  <2>1. ASSUME NEW m \in Mode, NEW F \in BOOLEAN, NEW x, x = Exception(c, m, F, c.USER[15], 0)
        PROVE  x \in Core /\ Frame(c, x) /\ x.CPSR = [mode |-> m, F |-> F]
               /\ x.SPSR = SpsrPut(c.SPSR, m, c.CPSR)
               /\ FileOf(x) = Put(Put(FileOf(c), m, 14, c.USER[15]), "user", 15, 0)
               /\ x.USER[14] = c.USER[15] /\ x.USER[15] = 0
    BY <1>0, <2>1, ExceptionFacts
  <2>2. QED
    BY <1>0, <2>1
<1> HIDE DEF e
<1>2. o \in Core /\ MapOf(o, g) /\ o.overlay = TRUE /\ FileOf(o) = FileOf(e)
      /\ o.USER = e.USER /\ o.CPSR = e.CPSR /\ o.SPSR = e.SPSR /\ o.bus = e.bus
  BY <1>1, OverlayFacts
<1>3. opera_arm_soft_reset(c, g) = d
  BY DEF opera_arm_soft_reset, e
<1> HIDE DEF o
<1>4. d \in Core /\ d.USER = o.USER /\ d.bank = o.bank /\ d.CPSR = o.CPSR /\ d.SPSR = o.SPSR
      /\ d.bus = o.bus /\ d.overlay = o.overlay /\ MapOf(d, g)
      /\ d.pending = FALSE /\ d.MAS_Access_Exept = FALSE
  BY <1>2 DEF Core, MapOf
<1> HIDE DEF d
<1>5. FileOf(d) = FileOf(o)
  BY <1>2, <1>4, FileSame
<1>6. d.SPSR["user"].mode = "user"
  BY <1>1, <1>2, <1>4, CoreFields DEF SpsrPut, Mode
<1>7. QED
  BY <1>1, <1>2, <1>3, <1>4, <1>5, <1>6 DEF Ready, Sound, Frame

\* A word stored: without a device it raises the abort flag, the reset register
\* resets the core, RAM may clear the overlay.
LEMMA MwritewFacts ==
  ASSUME NEW c, NEW g \in Configs, Sound(c, g), NEW t \in Target, NEW v \in Word
  PROVE  LET d == mwritew(c, g, t, v)
         IN  /\ Sound(d, g)
             /\ t.dev # "reset" => /\ d.CPSR = c.CPSR /\ d.SPSR = c.SPSR /\ d.USER = c.USER
                                   /\ FileOf(d) = FileOf(c) /\ d.pending = c.pending
                                   /\ d.bus \in {c.bus, v}
                                   /\ d.MAS_Access_Exept = (c.MAS_Access_Exept \/ t.dev = "absent")
             /\ t.dev = "reset" =>
                  /\ d.pending /\ ~d.MAS_Access_Exept /\ d.overlay /\ d.bus = v
                  /\ d.CPSR = [mode |-> "svc", F |-> TRUE]
                  /\ d.SPSR = SpsrPut(c.SPSR, "svc", c.CPSR)
                  /\ FileOf(d) = Put(Put(FileOf(c), "svc", 14, c.USER[15]), "user", 15, 0)
                  /\ d.USER[14] = c.USER[15] /\ d.USER[15] = 0
<1> DEFINE b == [c EXCEPT !.bus = v]
<1>1. c \in Core /\ MapOf(c, g) /\ c.SPSR["user"].mode = "user"
  BY DEF Sound
<1>2. b \in Core /\ MapOf(b, g) /\ b.USER = c.USER /\ b.bank = c.bank /\ b.CPSR = c.CPSR
      /\ b.SPSR = c.SPSR /\ b.bus = v /\ b.pending = c.pending
      /\ b.MAS_Access_Exept = c.MAS_Access_Exept
  BY <1>1 DEF Core, MapOf
<1>3. FileOf(b) = FileOf(c)
  BY <1>1, <1>2, FileSame
<1>4. CASE t.dev = "absent"
  <2> DEFINE d == [c EXCEPT !.MAS_Access_Exept = TRUE]
  <2>1. mwritew(c, g, t, v) = d
    BY <1>4 DEF mwritew
  <2>2. d \in Core /\ MapOf(d, g) /\ d.USER = c.USER /\ d.bank = c.bank /\ d.CPSR = c.CPSR
        /\ d.SPSR = c.SPSR /\ d.bus = c.bus /\ d.pending = c.pending
        /\ d.MAS_Access_Exept = TRUE
    BY <1>1 DEF Core, MapOf
  <2> HIDE DEF d
  <2>3. FileOf(d) = FileOf(c)
    BY <1>1, <2>2, FileSame
  <2>4. QED
    BY <1>1, <1>4, <2>1, <2>2, <2>3 DEF Sound
<1>5. CASE t.dev = "reset"
  <2> DEFINE r == opera_arm_soft_reset(b, g)
             d == [r EXCEPT !.pending = TRUE]
  <2>1. mwritew(c, g, t, v) = d
    BY <1>5 DEF mwritew
  <2> HIDE DEF b
  <2>2. Ready(r, g) /\ r.overlay /\ r.bus = b.bus
        /\ r.CPSR = [mode |-> "svc", F |-> TRUE] /\ r.SPSR = SpsrPut(b.SPSR, "svc", b.CPSR)
        /\ FileOf(r) = Put(Put(FileOf(b), "svc", 14, b.USER[15]), "user", 15, 0)
        /\ r.USER[14] = b.USER[15] /\ r.USER[15] = 0
    BY <1>1, <1>2, SoftResetFacts
  <2> HIDE DEF r
  <2>3. d \in Core /\ MapOf(d, g) /\ d.USER = r.USER /\ d.bank = r.bank /\ d.CPSR = r.CPSR
        /\ d.SPSR = r.SPSR /\ d.bus = r.bus /\ d.pending = TRUE /\ d.overlay = r.overlay
        /\ d.MAS_Access_Exept = FALSE
    BY <2>2 DEF Core, MapOf, Ready, Sound
  <2> HIDE DEF d
  <2>4. FileOf(d) = FileOf(r) /\ d.SPSR["user"].mode = "user"
    BY <2>2, <2>3, FileSame DEF Ready, Sound
  <2>5. QED
    BY <1>2, <1>3, <1>5, <2>1, <2>2, <2>3, <2>4 DEF Sound
<1>6. CASE t.dev = "ram"
  <2>1. CASE t.addr < c.clear
    <3> DEFINE d == set_rom_overlay(b, g, FALSE)
    <3>1. mwritew(c, g, t, v) = d
      BY <1>6, <2>1 DEF mwritew
    <3> HIDE DEF b
    <3>2. d \in Core /\ MapOf(d, g) /\ FileOf(d) = FileOf(b) /\ d.USER = b.USER /\ d.CPSR = b.CPSR
          /\ d.SPSR = b.SPSR /\ d.bus = b.bus /\ d.MAS_Access_Exept = b.MAS_Access_Exept
          /\ d.pending = b.pending
      BY <1>2, OverlayFacts
    <3> HIDE DEF d
    <3>3. QED
      BY <1>1, <1>2, <1>3, <1>6, <3>1, <3>2, CoreFields DEF Sound
  <2>2. CASE ~(t.addr < c.clear)
    <3>1. mwritew(c, g, t, v) = b
      BY <1>6, <2>2 DEF mwritew
    <3> HIDE DEF b
    <3>2. QED
      BY <1>1, <1>2, <1>3, <1>6, <3>1, CoreFields DEF Sound
  <2>3. QED
    BY <2>1, <2>2
<1>7. QED
  BY <1>4, <1>5, <1>6 DEF Target

-----------------------------------------------------------------------------
(* Steps of the flat file.                                                 *)

\* The instance's constants are this module's.
LEMMA Names ==
  /\ Registers!Mode = Mode /\ Registers!Phys = Mode \X Reg /\ Registers!Psr = Psr
  /\ Registers!Word = Word /\ Registers!PC = <<"user", 15>>
  /\ \A m : Registers!Seen(m) = SeenBy(m)
BY DEF Registers!Mode, Mode, Registers!Phys, Registers!Reg, Reg, Registers!Psr, Psr,
       Registers!Word, Word, Registers!PC, Registers!Seen, SeenBy, Registers!Owner, Owner, Pair

\* The fields of the mapped state.
LEMMA StateFields ==
  ASSUME NEW c
  PROVE  /\ StateOf(c).file = FileOf(c) /\ StateOf(c).psr = c.CPSR
         /\ StateOf(c).spsr = c.SPSR /\ StateOf(c).bus = c.bus
BY DEF StateOf

\* An operation on registers of ps alone.
Op(c, d, g, ps) ==
  /\ Sound(d, g) /\ Touch(c, d, ps)
  /\ d.bus = c.bus /\ d.MAS_Access_Exept = c.MAS_Access_Exept /\ d.pending = c.pending

\* Operations compose.
LEMMA OpTrans ==
  ASSUME NEW c, NEW d, NEW e, NEW g, NEW ps, NEW qs, Op(c, d, g, ps), Op(d, e, g, qs)
  PROVE  Op(c, e, g, ps \cup qs)
BY DEF Op, Touch

\* An operation on few registers is one on more.
LEMMA OpMono ==
  ASSUME NEW c, NEW d, NEW g, NEW ps, NEW qs, Op(c, d, g, ps), ps \subseteq qs
  PROVE  Op(c, d, g, qs)
BY DEF Op, Touch

\* Doing nothing is an operation.
LEMMA OpRefl ==
  ASSUME NEW c, NEW g, NEW ps, Sound(c, g)
  PROVE  Op(c, c, g, ps)
BY DEF Op, Touch

\* A write to a register of the mode, as an operation.
LEMMA WriteOp ==
  ASSUME NEW c, NEW g, Sound(c, g), NEW q \in Reg, NEW v \in Word
  PROVE  /\ Op(c, Write(c, q, v), g, {<<Owner(c.CPSR.mode, q), q>>})
         /\ {<<Owner(c.CPSR.mode, q), q>>} \subseteq SeenBy(c.CPSR.mode)
         /\ Write(c, q, v).USER[15] = IF q = 15 THEN v ELSE c.USER[15]
<1> DEFINE d == Write(c, q, v)
<1>1. c \in Core /\ c.CPSR.mode \in Mode
  BY CoreFields DEF Sound
<1>2. d \in Core /\ Frame(c, d) /\ d.CPSR = c.CPSR /\ d.SPSR = c.SPSR
      /\ d.USER[15] = (IF q = 15 THEN v ELSE c.USER[15])
      /\ FileOf(d) = Put(FileOf(c), Owner(c.CPSR.mode, q), q, v)
  BY <1>1, WriteFacts, Subsets
<1> HIDE DEF d
<1>3. Owner(c.CPSR.mode, q) \in Mode
  BY <1>1, OwnerFacts
<1>4. \A m \in Mode, r \in Reg : <<m, r>> \notin {<<Owner(c.CPSR.mode, q), q>>}
         => FileOf(d)[<<m, r>>] = FileOf(c)[<<m, r>>]
  <2>1. FileOf(c) \in [Mode \X Reg -> Word]
    BY <1>1, FileType
  <2>2. \A m \in Mode, r \in Reg : ~(m = Owner(c.CPSR.mode, q) /\ r = q)
          => Put(FileOf(c), Owner(c.CPSR.mode, q), q, v)[<<m, r>>] = FileOf(c)[<<m, r>>]
    BY <1>3, <2>1, PutOther
  <2>3. QED
    BY <1>2, <2>2
<1>5. Op(c, d, g, {<<Owner(c.CPSR.mode, q), q>>})
  BY <1>1, <1>2, <1>4 DEF Op, Sound, Touch, Frame, MapOf
<1>6. QED
  BY <1>2, <1>5 DEF SeenBy, d

\* User mode owns all it sees.
LEMMA UserOwner == \A q \in Reg : Owner("user", q) = "user"
BY DEF Owner

\* loadusr as an operation on a register of the user.
LEMMA LoadusrOp ==
  ASSUME NEW c, NEW g, Sound(c, g), NEW q \in Reg, NEW v \in Word
  PROVE  Op(c, loadusr(c, q, v), g, {<<"user", q>>}) /\ {<<"user", q>>} \subseteq SeenBy("user")
<1> DEFINE d == loadusr(c, q, v)
<1>1. c \in Core
  BY DEF Sound
<1>2. d \in Core /\ Frame(c, d) /\ d.CPSR = c.CPSR /\ d.SPSR = c.SPSR
      /\ FileOf(d) = Put(FileOf(c), "user", q, v)
  BY <1>1, LoadusrFacts
<1> HIDE DEF d
<1>3. \A m \in Mode, r \in Reg : <<m, r>> \notin {<<"user", q>>}
         => FileOf(d)[<<m, r>>] = FileOf(c)[<<m, r>>]
  <2>1. FileOf(c) \in [Mode \X Reg -> Word] /\ "user" \in Mode
    BY <1>1, FileType DEF Mode
  <2>2. \A m \in Mode, r \in Reg : ~(m = "user" /\ r = q)
          => Put(FileOf(c), "user", q, v)[<<m, r>>] = FileOf(c)[<<m, r>>]
    BY <2>1, PutOther
  <2>3. QED
    BY <1>2, <2>2
<1>4. Op(c, d, g, {<<"user", q>>})
  BY <1>1, <1>2, <1>3 DEF Op, Sound, Touch, Frame, MapOf
<1>5. QED
  BY <1>4, UserOwner DEF SeenBy, d

\* The PC is the user's copy in every mode, so an operation elsewhere keeps it.
LEMMA PcKept ==
  ASSUME NEW c, NEW d, NEW g, NEW ps, c \in Core, Op(c, d, g, ps), <<"user", 15>> \notin ps
  PROVE  d.USER[15] = c.USER[15]
<1>1. d \in Core
  BY DEF Op, Sound
<1>2. QED
  BY <1>1, PcOfFile DEF Op, Touch

\* The instruction is fetched: only the PC moves.
Advanced(c) == Write(c, 15, Plus(c.USER[15]))

\* The fetch moves the PC and nothing else.
LEMMA FetchedFacts ==
  ASSUME NEW c, NEW g, Ready(c, g)
  PROVE  /\ Op(c, Advanced(c), g, {<<"user", 15>>}) /\ Ready(Advanced(c), g)
         /\ Advanced(c).USER[15] = Plus(c.USER[15])
         /\ Advanced(c).CPSR = c.CPSR /\ Advanced(c).SPSR = c.SPSR
<1>1. Sound(c, g) /\ c \in Core /\ Plus(c.USER[15]) \in Word /\ 15 \in Reg
  BY CoreFields, WordFacts, Subsets DEF Ready, Sound
<1>2. Owner(c.CPSR.mode, 15) = "user"
  BY <1>1, OwnerFacts, Subsets, CoreFields
<1> DEFINE d == Write(c, 15, Plus(c.USER[15]))
<1>3. Op(c, d, g, {<<Owner(c.CPSR.mode, 15), 15>>}) /\ d.USER[15] = Plus(c.USER[15])
  BY <1>1, WriteOp
<1>4. Op(c, d, g, {<<"user", 15>>})
  BY <1>2, <1>3
<1> HIDE DEF d
<1>5. Sound(d, g) /\ d.CPSR = c.CPSR /\ d.SPSR = c.SPSR
      /\ d.MAS_Access_Exept = c.MAS_Access_Exept /\ d.pending = c.pending
  BY <1>4 DEF Op, Touch
<1>6. Ready(d, g)
  BY <1>5 DEF Ready
<1>7. QED
  BY <1>3, <1>4, <1>5, <1>6 DEF Advanced, d

\* What an instruction makes of a core that was Ready: d keeps the invariant but
\* for a pending reset, and the flat file takes a step.
Result(c, d, g) ==
  /\ Sound(d, g) /\ ~d.MAS_Access_Exept
  /\ d.pending => Handed(c, d)
  /\ Registers!Step(StateOf(c), StateOf(d))

\* Only of the flat file, register by register.
LEMMA OnlyOf ==
  ASSUME NEW c \in Core, NEW d \in Core, NEW ps,
         \A m \in Mode, r \in Reg : <<m, r>> \notin ps => FileOf(d)[<<m, r>>] = FileOf(c)[<<m, r>>]
  PROVE  Registers!Only(StateOf(c), StateOf(d), ps)
<1>1. ASSUME NEW p \in (Mode \X Reg) \ ps PROVE FileOf(d)[p] = FileOf(c)[p]
  <2>1. PICK m \in Mode, r \in Reg : p = <<m, r>>
    OBVIOUS
  <2>2. QED
    BY <2>1
<1>2. QED
  BY <1>1, Names, StateFields DEF Registers!Only

Both(c) == SeenBy(c.CPSR.mode) \cup SeenBy("user")

\* An instruction that ends in its own mode.
LEMMA EndCompute ==
  ASSUME NEW c, NEW d, NEW g, Ready(c, g), Op(c, d, g, SeenBy(c.CPSR.mode))
  PROVE  Result(c, d, g)
<1>1. c \in Core /\ d \in Core /\ Sound(d, g) /\ ~d.MAS_Access_Exept /\ ~d.pending
      /\ d.CPSR = c.CPSR /\ d.SPSR = c.SPSR /\ d.bus = c.bus
  BY DEF Ready, Op, Sound, Touch
<1>2. Registers!Only(StateOf(c), StateOf(d), SeenBy(c.CPSR.mode))
  BY <1>1, OnlyOf DEF Op, Touch
<1>3. Registers!Compute(StateOf(c), StateOf(d))
  BY <1>1, <1>2, Names, StateFields DEF Registers!Compute, Registers!Stored
<1>4. QED
  BY <1>1, <1>3 DEF Result, Registers!Step

\* The same for one that stores: v is what a register of the mode holds.
LEMMA EndStore ==
  ASSUME NEW c, NEW d, NEW g, Ready(c, g), Sound(d, g), Touch(c, d, SeenBy(c.CPSR.mode)),
         ~d.MAS_Access_Exept, ~d.pending,
         \/ d.bus = c.bus \/ \E k \in {1, 2} : d.bus = (Plus(c.USER[15]) + k) % Words
         \/ \E n \in Mode, r \in Reg : /\ <<n, r>> \in SeenBy(c.CPSR.mode)
                                       /\ d.bus \in {FileOf(c)[<<n, r>>], FileOf(d)[<<n, r>>]}
  PROVE  Result(c, d, g)
<1>1. c \in Core /\ d \in Core /\ d.CPSR = c.CPSR /\ d.SPSR = c.SPSR
  BY DEF Ready, Sound, Touch
<1>2. Registers!Only(StateOf(c), StateOf(d), SeenBy(c.CPSR.mode))
  BY <1>1, OnlyOf DEF Touch
<1>3. Registers!Stored(StateOf(c), StateOf(d), SeenBy(c.CPSR.mode))
  BY <1>1, Names, StateFields, PcOfFile DEF Registers!Stored, Plus
<1>4. Registers!Compute(StateOf(c), StateOf(d))
  BY <1>1, <1>2, <1>3, Names, StateFields DEF Registers!Compute
<1>5. QED
  BY <1>4 DEF Result, Registers!Step

\* A user-bank transfer.
LEMMA EndUser ==
  ASSUME NEW c, NEW d, NEW g, Ready(c, g), Sound(d, g), Touch(c, d, Both(c)),
         ~d.MAS_Access_Exept, ~d.pending,
         \/ d.bus = c.bus \/ \E k \in {1, 2} : d.bus = (Plus(c.USER[15]) + k) % Words
         \/ \E r \in Reg : d.bus \in {FileOf(c)[<<"user", r>>], FileOf(d)[<<"user", r>>]}
  PROVE  Result(c, d, g)
<1>1. c \in Core /\ d \in Core /\ d.CPSR = c.CPSR /\ d.SPSR = c.SPSR
  BY DEF Ready, Sound, Touch
<1>2. Registers!Only(StateOf(c), StateOf(d), SeenBy(c.CPSR.mode) \cup SeenBy("user"))
  BY <1>1, OnlyOf DEF Touch, Both
<1>3. \A r \in Reg : <<"user", r>> \in SeenBy("user")
  BY UserOwner DEF SeenBy
<1>4. Registers!Stored(StateOf(c), StateOf(d), SeenBy("user"))
  BY <1>1, <1>3, Names, StateFields, PcOfFile DEF Registers!Stored, Plus
<1>5. Registers!UserTransfer(StateOf(c), StateOf(d))
  BY <1>1, <1>2, <1>4, Names, StateFields DEF Registers!UserTransfer
<1>6. QED
  BY <1>5 DEF Result, Registers!Step

\* What an exception leaves of the file: its R14, the PC, and the rest untouched.
Entered(f, h, m, lr, vec) ==
  /\ h[<<m, 14>>] = lr /\ h[<<"user", 15>>] = vec
  /\ \A n \in Mode, r \in Reg : ~(n = m /\ r = 14) /\ ~(n = "user" /\ r = 15)
                                  => h[<<n, r>>] = f[<<n, r>>]

\* The two writes of an exception leave the file Entered.
LEMMA TwoPuts ==
  ASSUME NEW f \in [Mode \X Reg -> Word], NEW m \in Mode, NEW lr \in Word, NEW vec \in Word
  PROVE  Entered(f, Put(Put(f, m, 14, lr), "user", 15, vec), m, lr, vec)
<1>1. ASSUME NEW n \in Mode, NEW q \in Reg, NEW r \in Reg, n = "user", q = 14, r = 15
      PROVE  Entered(f, Put(Put(f, m, q, lr), n, r, vec), m, lr, vec)
  BY <1>1 DEF Entered, Put
<1>2. 14 \in Reg /\ 15 \in Reg /\ "user" \in Mode
  BY Subsets DEF Mode
<1>3. QED
  BY <1>1, <1>2

\* SWI, an undefined instruction, FIQ: only the PC has moved before it is taken.
LEMMA EndException ==
  ASSUME NEW c, NEW a, NEW g, Ready(c, g), Op(c, a, g, {<<"user", 15>>}), NEW lr \in Word,
         NEW m \in {"svc", "und", "fiq"}, NEW F \in BOOLEAN, F = (IF m = "fiq" THEN TRUE ELSE c.CPSR.F),
         NEW vec \in Word, vec = Registers!Vector[m]
  PROVE  Result(c, Exception(a, m, F, lr, vec), g) /\ ~Exception(a, m, F, lr, vec).pending
<1> DEFINE d == Exception(a, m, F, lr, vec)
<1>1. c \in Core /\ a \in Core /\ a.CPSR = c.CPSR /\ a.SPSR = c.SPSR /\ Sound(a, g)
      /\ a.bus = c.bus /\ ~a.MAS_Access_Exept /\ ~a.pending
  BY DEF Ready, Sound, Op, Touch
<1>2. m \in Mode /\ F \in BOOLEAN /\ FileOf(a) \in [Mode \X Reg -> Word]
  BY <1>1, CoreFields, FileType DEF Mode
<1>3. d \in Core /\ Frame(a, d) /\ d.CPSR = [mode |-> m, F |-> F]
      /\ d.SPSR = SpsrPut(c.SPSR, m, c.CPSR)
      /\ FileOf(d) = Put(Put(FileOf(a), m, 14, lr), "user", 15, vec)
  <2>1. ASSUME NEW n \in Mode, NEW G \in BOOLEAN, NEW y, y = Exception(a, n, G, lr, vec)
        PROVE  /\ y \in Core /\ Frame(a, y) /\ y.CPSR = [mode |-> n, F |-> G]
               /\ y.SPSR = SpsrPut(a.SPSR, n, a.CPSR)
               /\ FileOf(y) = Put(Put(FileOf(a), n, 14, lr), "user", 15, vec)
    BY <1>1, <2>1, ExceptionFacts
  <2>2. d = Exception(a, m, F, lr, vec)
    OBVIOUS
  <2> HIDE DEF d
  <2>3. QED
    BY <1>1, <1>2, <2>1, <2>2
<1> HIDE DEF d
<1>4. Entered(FileOf(a), FileOf(d), m, lr, vec)
  BY <1>2, <1>3, TwoPuts
<1>5. Sound(d, g) /\ ~d.MAS_Access_Exept /\ ~d.pending /\ d.bus = c.bus
  BY <1>1, <1>3, CoreFields DEF Sound, Frame, MapOf, SpsrPut
<1>6. \A n \in Mode, r \in Reg : <<n, r>> \notin {<<"user", 15>>, <<m, 14>>}
         => FileOf(d)[<<n, r>>] = FileOf(c)[<<n, r>>]
  BY <1>4 DEF Entered, Op, Touch
<1>7. Registers!Only(StateOf(c), StateOf(d), {Registers!PC, <<m, 14>>})
  BY <1>1, <1>3, <1>6, OnlyOf, Names
<1>8. FileOf(d)[<<"user", 15>>] = Registers!Vector[m]
  BY <1>4 DEF Entered
<1>9. Registers!Enter(StateOf(c), StateOf(d), m, c.CPSR)
  BY <1>3, <1>8, Names, StateFields DEF Registers!Enter, SpsrPut
<1>10. Registers!Exception(StateOf(c), StateOf(d))
  BY <1>5, <1>7, <1>9, StateFields DEF Registers!Exception
<1>11. QED
  BY <1>5, <1>10 DEF Result, Registers!Step, d

\* What a transfer has made of the core when it aborts: registers of the mode and
\* of the user, and perhaps a return to the saved mode.
Aborting(c, e, g) ==
  /\ Sound(e, g) /\ ~e.pending
  /\ e.SPSR = c.SPSR
  /\ e.CPSR = c.CPSR \/ (c.CPSR.mode # "user" /\ e.CPSR = c.SPSR[c.CPSR.mode])
  /\ \A m \in Mode, r \in Reg : <<m, r>> \notin Both(c) => FileOf(e)[<<m, r>>] = FileOf(c)[<<m, r>>]

\* arm_data_abort after such a transfer is an abort of the flat file.
LEMMA EndAbort ==
  ASSUME NEW c, NEW e, NEW g, Ready(c, g), Aborting(c, e, g)
  PROVE  Result(c, arm_data_abort(e), g)
<1> DEFINE x == Exception(e, "abt", e.CPSR.F, Plus(e.USER[15]), 4)
           d == [x EXCEPT !.MAS_Access_Exept = FALSE]
<1>1. c \in Core /\ e \in Core /\ ~e.pending /\ e.SPSR = c.SPSR /\ MapOf(e, g)
      /\ e.SPSR["user"].mode = "user"
  BY DEF Ready, Sound, Aborting
<1>2. Plus(e.USER[15]) \in Word /\ e.CPSR.F \in BOOLEAN /\ 4 \in Word /\ "abt" \in Mode
      /\ FileOf(e) \in [Mode \X Reg -> Word]
  BY <1>1, CoreFields, Subsets, WordFacts, FileType DEF Mode
<1>3. /\ x \in Core /\ Frame(e, x) /\ x.CPSR = [mode |-> "abt", F |-> e.CPSR.F]
      /\ x.SPSR = SpsrPut(c.SPSR, "abt", e.CPSR)
      /\ Entered(FileOf(e), FileOf(x), "abt", Plus(e.USER[15]), 4)
  <2>1. ASSUME NEW m \in Mode, NEW vec \in Word, NEW y,
               y = Exception(e, m, e.CPSR.F, Plus(e.USER[15]), vec)
        PROVE  /\ y \in Core /\ Frame(e, y) /\ y.CPSR = [mode |-> m, F |-> e.CPSR.F]
               /\ y.SPSR = SpsrPut(c.SPSR, m, e.CPSR)
               /\ FileOf(y) = Put(Put(FileOf(e), m, 14, Plus(e.USER[15])), "user", 15, vec)
    BY <1>1, <1>2, <2>1, ExceptionFacts
  <2>2. ASSUME NEW m \in Mode, NEW vec \in Word, NEW y,
               y = Exception(e, m, e.CPSR.F, Plus(e.USER[15]), vec)
        PROVE  Entered(FileOf(e), FileOf(y), m, Plus(e.USER[15]), vec)
    <3>1. FileOf(y) = Put(Put(FileOf(e), m, 14, Plus(e.USER[15])), "user", 15, vec)
      BY <2>1, <2>2
    <3>2. Entered(FileOf(e), Put(Put(FileOf(e), m, 14, Plus(e.USER[15])), "user", 15, vec),
                  m, Plus(e.USER[15]), vec)
      BY <1>2, TwoPuts
    <3>3. QED
      BY <3>1, <3>2
  <2>3. QED
    BY <1>2, <2>1, <2>2
<1>4. arm_data_abort(e) = d
  BY DEF arm_data_abort
<1> HIDE DEF x
<1>5. d \in Core /\ d.USER = x.USER /\ d.bank = x.bank /\ d.CPSR = x.CPSR /\ d.SPSR = x.SPSR
      /\ d.bus = e.bus /\ MapOf(d, g) /\ ~d.pending /\ ~d.MAS_Access_Exept
  BY <1>1, <1>3 DEF Core, MapOf, Frame
<1> HIDE DEF d
<1>6. FileOf(d) = FileOf(x)
  BY <1>3, <1>5, FileSame
<1>7. d.SPSR["user"].mode = "user" /\ d.bus \in Word
  BY <1>1, <1>3, <1>5, CoreFields DEF SpsrPut, Mode
<1>8. \A n \in Mode, r \in Reg :
         <<n, r>> \notin SeenBy(c.CPSR.mode) \cup SeenBy("user") \cup {<<"abt", 14>>}
         => FileOf(d)[<<n, r>>] = FileOf(c)[<<n, r>>]
  <2>1. <<"user", 15>> \in SeenBy("user")
    BY <1>1, PcOfFile DEF Mode
  <2>2. QED
    BY <1>3, <1>6, <2>1 DEF Entered, Aborting, Both
<1>9. Registers!Only(StateOf(c), StateOf(d),
                     SeenBy(c.CPSR.mode) \cup SeenBy("user") \cup {<<"abt", 14>>})
  BY <1>1, <1>5, <1>8, OnlyOf
<1>10. FileOf(d)[<<"user", 15>>] = 4
  BY <1>3, <1>6 DEF Entered
<1>11. Registers!Enter(StateOf(c), StateOf(d), "abt", e.CPSR)
  BY <1>3, <1>5, <1>10, Names, StateFields DEF Registers!Enter, Registers!Vector, SpsrPut
<1>12. Registers!Abort(StateOf(c), StateOf(d))
  BY <1>7, <1>9, <1>11, Names, StateFields DEF Registers!Abort, Aborting
<1>13. QED
  BY <1>4, <1>5, <1>7, <1>12 DEF Result, Registers!Step, Sound

\* A store that resets, after registers of the mode and of the user were written
\* but not the PC.
LEMMA EndReset ==
  ASSUME NEW c, NEW e, NEW g \in Configs, Ready(c, g), Sound(e, g), Touch(c, e, Both(c)),
         e.USER[15] = Plus(c.USER[15]), NEW t \in Target, t.dev = "reset", NEW v \in Word
  PROVE  Result(c, mwritew(e, g, t, v), g) /\ mwritew(e, g, t, v).pending
<1> DEFINE d == mwritew(e, g, t, v)
<1>1. c \in Core /\ e \in Core /\ e.SPSR = c.SPSR /\ e.CPSR = c.CPSR
      /\ e.USER[15] \in Word /\ 0 \in Word
  BY CoreFields, Subsets, WordFacts DEF Ready, Sound, Touch
<1>2. /\ Sound(d, g) /\ d.pending /\ ~d.MAS_Access_Exept /\ d.overlay /\ d.bus = v
      /\ d.CPSR = [mode |-> "svc", F |-> TRUE] /\ d.SPSR = SpsrPut(c.SPSR, "svc", c.CPSR)
      /\ FileOf(d) = Put(Put(FileOf(e), "svc", 14, e.USER[15]), "user", 15, 0)
      /\ d.USER[14] = e.USER[15] /\ d.USER[15] = 0
  BY <1>1, MwritewFacts
<1> HIDE DEF d
<1>3. Entered(FileOf(e), FileOf(d), "svc", e.USER[15], 0)
  <2>1. ASSUME NEW m \in Mode PROVE Entered(FileOf(e), Put(Put(FileOf(e), m, 14, e.USER[15]), "user", 15, 0), m, e.USER[15], 0)
    BY <1>1, FileType, TwoPuts
  <2>2. "svc" \in Mode
    BY DEF Mode
  <2>3. QED
    BY <1>2, <2>1, <2>2
<1>4. Handed(c, d)
  BY <1>1, <1>2, CoreFields DEF Handed, SpsrPut, Mode
<1>5. \A n \in Mode, r \in Reg :
         <<n, r>> \notin SeenBy(c.CPSR.mode) \cup SeenBy("user") \cup {<<"svc", 14>>}
         => FileOf(d)[<<n, r>>] = FileOf(c)[<<n, r>>]
  <2>1. <<"user", 15>> \in SeenBy("user")
    BY <1>1, PcOfFile DEF Mode
  <2>2. QED
    BY <1>3, <2>1 DEF Entered, Touch, Both
<1>6. d \in Core
  BY <1>2 DEF Sound
<1>7. Registers!Only(StateOf(c), StateOf(d),
                     SeenBy(c.CPSR.mode) \cup SeenBy("user") \cup {<<"svc", 14>>})
  BY <1>1, <1>5, <1>6, OnlyOf
<1>8. FileOf(d)[<<"user", 15>>] = 0 /\ FileOf(d)[<<"svc", 14>>] = (FileOf(c)[<<"user", 15>>] + 1) % Words
  BY <1>1, <1>3, PcOfFile DEF Entered, Plus
<1>9. Registers!Reset(StateOf(c), StateOf(d))
  BY <1>2, <1>7, <1>8, Names, StateFields DEF Registers!Reset, SpsrPut
<1>10. QED
  BY <1>2, <1>4, <1>9 DEF Result, Registers!Step, d

-----------------------------------------------------------------------------
(* Instructions, one lemma each.  c is the core before the fetch.          *)

\* Operations on registers the mode sees, after the fetch.
LEMMA ThenCompute ==
  ASSUME NEW c, NEW d, NEW g, Ready(c, g), NEW ps, ps \subseteq SeenBy(c.CPSR.mode),
         Op(Advanced(c), d, g, ps)
  PROVE  Op(c, d, g, SeenBy(c.CPSR.mode)) /\ Result(c, d, g)
<1>1. Op(c, Advanced(c), g, {<<"user", 15>>}) /\ c \in Core /\ c.CPSR.mode \in Mode
  BY FetchedFacts, CoreFields DEF Ready, Sound
<1>2. {<<"user", 15>>} \cup ps \subseteq SeenBy(c.CPSR.mode)
  BY <1>1, PcOfFile
<1>3. Op(c, d, g, SeenBy(c.CPSR.mode))
  BY <1>1, <1>2, OpTrans, OpMono
<1>4. QED
  BY <1>3, EndCompute

\* An instruction whose condition fails.
LEMMA NopResult ==
  ASSUME NEW c, NEW g, Ready(c, g)
  PROVE  Result(c, Advanced(c), g)
<1>1. Op(Advanced(c), Advanced(c), g, {})
  BY FetchedFacts, OpRefl DEF Ready
<1>2. QED
  BY <1>1, ThenCompute

\* Data processing, multiplies, MRS and branches.
LEMMA ComputeResult ==
  ASSUME NEW c, NEW g, Ready(c, g), NEW rd \in Reg, NEW v \in Word
  PROVE  Result(c, Compute(Advanced(c), rd, v), g)
<1> DEFINE a == Advanced(c)
           ps == {<<Owner(a.CPSR.mode, rd), rd>>}
<1>1. Sound(a, g) /\ a.CPSR = c.CPSR
  BY FetchedFacts DEF Ready
<1> HIDE DEF a
<1>2. Op(a, Write(a, rd, v), g, ps) /\ ps \subseteq SeenBy(c.CPSR.mode)
  BY <1>1, WriteOp
<1> HIDE DEF ps
<1>3. QED
  BY <1>2, ThenCompute DEF Compute, a

\* BL.
LEMMA BranchResult ==
  ASSUME NEW c, NEW g, Ready(c, g), NEW v \in Word
  PROVE  Result(c, BranchLink(Advanced(c), v), g)
<1> DEFINE a == Advanced(c)
           b == Write(a, 14, a.USER[15])
           d == Write(b, 15, v)
           ps == {<<Owner(a.CPSR.mode, 14), 14>>}
           qs == {<<Owner(b.CPSR.mode, 15), 15>>}
<1>1. Sound(a, g) /\ a.CPSR = c.CPSR /\ a \in Core
  BY FetchedFacts DEF Ready, Sound
<1> HIDE DEF a
<1>2. a.USER[15] \in Word /\ 14 \in Reg /\ 15 \in Reg
  BY <1>1, CoreFields, Subsets
<1>3. Op(a, b, g, ps) /\ ps \subseteq SeenBy(c.CPSR.mode)
  BY <1>1, <1>2, WriteOp
<1> HIDE DEF b, ps
<1>4. Sound(b, g) /\ b.CPSR = c.CPSR
  BY <1>1, <1>3 DEF Op, Touch
<1>5. Op(b, d, g, qs) /\ qs \subseteq SeenBy(c.CPSR.mode)
  BY <1>2, <1>4, WriteOp
<1> HIDE DEF d, qs
<1>6. Op(a, d, g, ps \cup qs) /\ ps \cup qs \subseteq SeenBy(c.CPSR.mode)
  BY <1>3, <1>5, OpTrans
<1>7. Result(c, d, g)
  BY <1>6, ThenCompute DEF a
<1>8. QED
  BY <1>7 DEF BranchLink, a, b, d

\* A return or MSR to the CPSR: the mode changes, no register but the PC does.
LEMMA EndPsr ==
  ASSUME NEW c, NEW a, NEW g, Ready(c, g), Op(c, a, g, {<<"user", 15>>}), NEW p \in Psr,
         c.CPSR.mode = "user" => p.mode = "user"
  PROVE  Result(c, arm_cpsr_set(a, p), g)
<1> DEFINE d == arm_cpsr_set(a, p)
<1>1. c \in Core /\ a \in Core /\ Sound(a, g) /\ ~a.MAS_Access_Exept /\ ~a.pending
      /\ a.CPSR = c.CPSR /\ a.SPSR = c.SPSR /\ a.bus = c.bus
  BY DEF Ready, Op, Sound, Touch
<1>2. d \in Core /\ Frame(a, d) /\ d.CPSR = p /\ d.SPSR = a.SPSR /\ FileOf(d) = FileOf(a)
  BY <1>1, CpsrSetFacts
<1> HIDE DEF d
<1>3. Sound(d, g) /\ ~d.MAS_Access_Exept /\ ~d.pending /\ d.bus = c.bus
  BY <1>1, <1>2 DEF Sound, Frame, MapOf
<1>4. \A m \in Mode, r \in Reg : <<m, r>> \notin {<<"user", 15>>}
         => FileOf(d)[<<m, r>>] = FileOf(c)[<<m, r>>]
  BY <1>2 DEF Op, Touch
<1>5. Registers!Only(StateOf(c), StateOf(d), {Registers!PC})
  BY <1>1, <1>2, <1>4, OnlyOf, Names
<1>6. Registers!WritePsr(StateOf(c), StateOf(d))
  BY <1>1, <1>2, <1>3, <1>5, Names, StateFields DEF Registers!WritePsr
<1>7. QED
  BY <1>3, <1>6 DEF Result, Registers!Step, d

\* Data processing to the PC with the S bit.
LEMMA ReturnResult ==
  ASSUME NEW c, NEW g, Ready(c, g), NEW v \in Word
  PROVE  Result(c, ReturnTo(Advanced(c), v), g)
<1> DEFINE a == Advanced(c)
           d == Write(a, 15, v)
           p == d.SPSR[d.CPSR.mode]
<1>1. Sound(a, g) /\ a \in Core /\ 15 \in Reg /\ Op(c, a, g, {<<"user", 15>>})
  BY FetchedFacts, Subsets DEF Ready, Sound
<1> HIDE DEF a
<1>2. Owner(a.CPSR.mode, 15) = "user"
  BY <1>1, OwnerFacts, Subsets, CoreFields
<1>3. Op(a, d, g, {<<Owner(a.CPSR.mode, 15), 15>>})
  BY <1>1, WriteOp
<1> HIDE DEF d
<1>4. Op(c, d, g, {<<"user", 15>>} \cup {<<"user", 15>>})
  BY <1>1, <1>2, <1>3, OpTrans
<1>5. Op(c, d, g, {<<"user", 15>>})
  BY <1>4
<1>6. d.SPSR = c.SPSR /\ d.CPSR = c.CPSR /\ c \in Core /\ c.SPSR["user"].mode = "user"
  BY <1>5 DEF Op, Touch, Ready, Sound
<1>7. p \in Psr /\ (c.CPSR.mode = "user" => p.mode = "user")
  BY <1>6, CoreFields
<1> HIDE DEF p
<1>8. Result(c, arm_cpsr_set(d, p), g)
  BY <1>5, <1>7, EndPsr
<1>9. QED
  BY <1>8 DEF ReturnTo, a, d, p

\* MSR to the CPSR.
LEMMA MsrCpsrResult ==
  ASSUME NEW c, NEW g, Ready(c, g), NEW p \in Psr
  PROVE  Result(c, MsrCpsr(Advanced(c), p), g)
<1>1. Op(c, Advanced(c), g, {<<"user", 15>>}) /\ Advanced(c).CPSR = c.CPSR
  BY FetchedFacts
<1>2. CASE c.CPSR.mode = "user"
  BY <1>1, <1>2, NopResult DEF MsrCpsr
<1>3. CASE c.CPSR.mode # "user"
  <2>1. Result(c, arm_cpsr_set(Advanced(c), p), g)
    BY <1>1, <1>3, EndPsr
  <2>2. QED
    BY <1>1, <1>3, <2>1 DEF MsrCpsr
<1>4. QED
  BY <1>2, <1>3

\* MSR to the SPSR: a user has none to write.
LEMMA MsrSpsrResult ==
  ASSUME NEW c, NEW g, Ready(c, g), NEW p \in Psr
  PROVE  Result(c, MsrSpsr(Advanced(c), p), g)
<1> DEFINE a == Advanced(c)
           m == c.CPSR.mode
           d == [a EXCEPT !.SPSR[m] = p]
<1>1. Op(c, a, g, {<<"user", 15>>}) /\ a.CPSR = c.CPSR /\ a.SPSR = c.SPSR /\ Ready(a, g)
      /\ a \in Core /\ c \in Core /\ m \in Mode /\ c.SPSR["user"].mode = "user" /\ a.bus = c.bus
  BY FetchedFacts, CoreFields DEF Ready, Sound, Op
<1>2. CASE m = "user"
  BY <1>1, <1>2, NopResult DEF MsrSpsr
<1>3. CASE m # "user"
  <2> HIDE DEF a, m
  <2>1. MsrSpsr(a, p) = d
    BY <1>1, <1>3 DEF MsrSpsr, m
  <2>2. d = [a EXCEPT !.SPSR = SpsrPut(c.SPSR, m, p)] /\ SpsrPut(c.SPSR, m, p) \in [Mode -> Psr]
    BY <1>1, CoreFields DEF SpsrPut, Core
  <2>3. d \in Core /\ Frame(a, d) /\ d.CPSR = a.CPSR /\ d.SPSR = SpsrPut(c.SPSR, m, p)
        /\ d.USER = a.USER /\ d.bank = a.bank
    BY <1>1, <2>2 DEF Core, Frame
  <2> HIDE DEF d
  <2>4. FileOf(d) = FileOf(a)
    BY <1>1, <2>3, FileSame
  <2>5. d.SPSR["user"].mode = "user" /\ \A n \in Mode \ {m} : d.SPSR[n] = c.SPSR[n]
    BY <1>1, <1>3, <2>3, CoreFields DEF SpsrPut, Mode
  <2>6. Sound(d, g) /\ ~d.MAS_Access_Exept /\ ~d.pending /\ d.bus = c.bus
    BY <1>1, <2>3, <2>5 DEF Ready, Sound, Frame, MapOf
  <2>7. \A n \in Mode, r \in Reg : <<n, r>> \notin {<<"user", 15>>}
           => FileOf(d)[<<n, r>>] = FileOf(c)[<<n, r>>]
    BY <1>1, <2>4 DEF Op, Touch
  <2>8. Registers!Only(StateOf(c), StateOf(d), {Registers!PC})
    BY <1>1, <2>3, <2>7, OnlyOf, Names
  <2>9. Registers!WriteSpsr(StateOf(c), StateOf(d))
    <3>1. d.SPSR \in [Mode -> Psr] /\ \A n \in Mode \ ({m} \ {"user"}) : d.SPSR[n] = c.SPSR[n]
      BY <1>3, <2>2, <2>3, <2>5
    <3>2. QED
      BY <1>1, <2>3, <2>6, <2>8, <3>1, Names, StateFields DEF Registers!WriteSpsr, m
  <2>10. QED
    BY <2>1, <2>6, <2>9 DEF Result, Registers!Step, a
<1>4. QED
  BY <1>2, <1>3

\* SWI, undefined and coprocessor instructions.
LEMMA SwiResult ==
  ASSUME NEW c, NEW g, Ready(c, g)
  PROVE  Result(c, decode_swi_lle(Advanced(c)), g) /\ Result(c, Undefine(Advanced(c)), g)
<1> DEFINE a == Advanced(c)
<1>1. Op(c, a, g, {<<"user", 15>>}) /\ a.CPSR = c.CPSR /\ c.CPSR.F \in BOOLEAN
      /\ a.USER[15] \in Word /\ 1 \in Word /\ 2 \in Word
  BY FetchedFacts, CoreFields, WordFacts, Subsets DEF Ready, Sound
<1> HIDE DEF a
<1>2. ASSUME NEW m \in {"svc", "und"}, NEW vec \in Word, vec = Registers!Vector[m]
      PROVE  Result(c, Exception(a, m, a.CPSR.F, a.USER[15], vec), g)
  <2>1. m \in {"svc", "und", "fiq"} /\ m # "fiq"
    OBVIOUS
  <2>2. ASSUME NEW F \in BOOLEAN, F = (IF m = "fiq" THEN TRUE ELSE c.CPSR.F)
        PROVE  Result(c, Exception(a, m, F, a.USER[15], vec), g)
    BY <1>1, <1>2, <2>1, <2>2, EndException
  <2>3. QED
    BY <1>1, <2>1, <2>2
<1>3. Registers!Vector["svc"] = 2 /\ Registers!Vector["und"] = 1
  BY DEF Registers!Vector
<1>4. QED
  BY <1>1, <1>2, <1>3 DEF decode_swi_lle, Undefine, a

\* The fetched core, as the transfers need it.
LEMMA FetchedOp ==
  ASSUME NEW c, NEW g, Ready(c, g)
  PROVE  /\ c \in Core /\ c.CPSR.mode \in Mode /\ Advanced(c) \in Core /\ Ready(Advanced(c), g)
         /\ Sound(Advanced(c), g) /\ Advanced(c).CPSR = c.CPSR /\ Advanced(c).SPSR = c.SPSR
         /\ Advanced(c).bus = c.bus /\ Advanced(c).USER[15] = Plus(c.USER[15])
         /\ Op(c, Advanced(c), g, SeenBy(c.CPSR.mode)) /\ Op(c, Advanced(c), g, Both(c))
         /\ \A m \in Mode, r \in Reg : ~(m = "user" /\ r = 15)
              => FileOf(Advanced(c))[<<m, r>>] = FileOf(c)[<<m, r>>]
<1> DEFINE a == Advanced(c)
<1>1. Op(c, a, g, {<<"user", 15>>}) /\ Ready(a, g) /\ a.USER[15] = Plus(c.USER[15])
      /\ a.CPSR = c.CPSR /\ a.SPSR = c.SPSR
  BY FetchedFacts
<1> HIDE DEF a
<1>2. c \in Core /\ c.CPSR.mode \in Mode /\ a \in Core /\ Sound(a, g) /\ a.bus = c.bus
  BY <1>1, CoreFields DEF Ready, Sound, Op
<1>3. {<<"user", 15>>} \subseteq SeenBy(c.CPSR.mode) /\ {<<"user", 15>>} \subseteq Both(c)
  BY <1>2, PcOfFile DEF Both
<1>4. Op(c, a, g, SeenBy(c.CPSR.mode)) /\ Op(c, a, g, Both(c))
  BY <1>1, <1>3, OpMono
<1>5. \A m \in Mode, r \in Reg : ~(m = "user" /\ r = 15) => FileOf(a)[<<m, r>>] = FileOf(c)[<<m, r>>]
  BY <1>1 DEF Op, Touch
<1>6. QED
  BY <1>1, <1>2, <1>4, <1>5 DEF a

\* The abort flag alone is raised.
LEMMA RaisedFacts ==
  ASSUME NEW c, NEW g, Sound(c, g)
  PROVE  LET d == [c EXCEPT !.MAS_Access_Exept = TRUE]
         IN  /\ Sound(d, g) /\ d.CPSR = c.CPSR /\ d.SPSR = c.SPSR /\ d.pending = c.pending
             /\ FileOf(d) = FileOf(c)
<1> DEFINE d == [c EXCEPT !.MAS_Access_Exept = TRUE]
<1>1. c \in Core /\ MapOf(c, g) /\ c.SPSR["user"].mode = "user"
  BY DEF Sound
<1>2. d \in Core /\ d.USER = c.USER /\ d.bank = c.bank /\ d.CPSR = c.CPSR /\ d.SPSR = c.SPSR
      /\ d.pending = c.pending /\ MapOf(d, g)
  BY <1>1 DEF Core, MapOf
<1> HIDE DEF d
<1>3. FileOf(d) = FileOf(c)
  BY <1>1, <1>2, FileSame
<1>4. QED
  BY <1>1, <1>2, <1>3 DEF Sound, d

\* A load that aborts in the mode it began in.
LEMMA LoadAborts ==
  ASSUME NEW c, NEW e, NEW g, Ready(c, g), Op(c, e, g, Both(c))
  PROVE  Result(c, arm_data_abort([e EXCEPT !.MAS_Access_Exept = TRUE]), g)
<1> DEFINE d == [e EXCEPT !.MAS_Access_Exept = TRUE]
<1>1. Sound(e, g) /\ ~e.pending /\ e.CPSR = c.CPSR /\ e.SPSR = c.SPSR
  BY DEF Op, Touch, Ready
<1>2. Sound(d, g) /\ ~d.pending /\ d.CPSR = c.CPSR /\ d.SPSR = c.SPSR /\ FileOf(d) = FileOf(e)
  BY <1>1, RaisedFacts
<1> HIDE DEF d
<1>3. Aborting(c, d, g)
  BY <1>2 DEF Aborting, Op, Touch
<1>4. Result(c, arm_data_abort(d), g)
  BY <1>3, EndAbort
<1>5. QED
  BY <1>4 DEF d

\* Both banks a user-bank transfer may reach.
LEMMA SeenSubset ==
  ASSUME NEW c
  PROVE  SeenBy(c.CPSR.mode) \subseteq Both(c) /\ SeenBy("user") \subseteq Both(c)
BY DEF Both

\* LDR, with its abort, write-back and user-bank forms.
LEMMA LdrResult ==
  ASSUME NEW c, NEW g, Ready(c, g), NEW rn \in Reg, NEW wb \in BOOLEAN, NEW b \in Word,
         NEW rd \in Reg, NEW usr \in BOOLEAN, NEW v \in Word, NEW absent \in BOOLEAN
  PROVE  Result(c, Ldr(Advanced(c), rn, wb, b, rd, usr, v, absent), g)
<1> DEFINE a == Advanced(c)
           d == IF wb THEN Write(a, rn, b) ELSE a
<1>1. Sound(a, g) /\ a.CPSR = c.CPSR /\ Op(c, a, g, SeenBy(c.CPSR.mode)) /\ Op(c, a, g, Both(c))
  BY FetchedOp
<1> HIDE DEF a
<1>2. Op(c, d, g, SeenBy(c.CPSR.mode))
  <2>1. CASE wb
    <3> DEFINE ps == {<<Owner(a.CPSR.mode, rn), rn>>}
    <3>1. Op(a, Write(a, rn, b), g, ps) /\ ps \subseteq SeenBy(c.CPSR.mode)
      BY <1>1, WriteOp
    <3> HIDE DEF ps
    <3>2. Op(c, Write(a, rn, b), g, SeenBy(c.CPSR.mode) \cup ps)
      BY <1>1, <3>1, OpTrans
    <3>3. Op(c, Write(a, rn, b), g, SeenBy(c.CPSR.mode))
      BY <3>1, <3>2, OpMono
    <3>4. QED
      BY <2>1, <3>3
  <2>2. CASE ~wb
    BY <1>1, <2>2
  <2>3. QED
    BY <2>1, <2>2
<1>3. Ldr(a, rn, wb, b, rd, usr, v, absent)
        = IF absent THEN arm_data_abort([a EXCEPT !.MAS_Access_Exept = TRUE])
          ELSE IF usr THEN loadusr(d, rd, v) ELSE Write(d, rd, v)
  BY DEF Ldr
<1> HIDE DEF d
<1>4. Sound(d, g) /\ d.CPSR = c.CPSR /\ ~d.MAS_Access_Exept /\ ~d.pending /\ d.bus = c.bus
  BY <1>2 DEF Op, Touch, Ready
<1>5. CASE absent
  BY <1>1, <1>3, <1>5, LoadAborts DEF a
<1>6. CASE ~absent /\ usr
  <2> DEFINE e == loadusr(d, rd, v)
             ps == {<<"user", rd>>}
  <2>1. Op(d, e, g, ps) /\ ps \subseteq SeenBy("user")
    BY <1>4, LoadusrOp
  <2> HIDE DEF e, ps
  <2>2. Op(c, e, g, SeenBy(c.CPSR.mode) \cup ps)
    BY <1>2, <2>1, OpTrans
  <2>3. Op(c, e, g, Both(c))
    BY <2>1, <2>2, OpMono, SeenSubset
  <2>4. Sound(e, g) /\ Touch(c, e, Both(c)) /\ ~e.MAS_Access_Exept /\ ~e.pending /\ e.bus = c.bus
    BY <2>3 DEF Op, Ready
  <2>5. Result(c, e, g)
    BY <2>4, EndUser
  <2>6. QED
    BY <1>3, <1>6, <2>5 DEF a, e
<1>7. CASE ~absent /\ ~usr
  <2> DEFINE e == Write(d, rd, v)
             ps == {<<Owner(d.CPSR.mode, rd), rd>>}
  <2>1. Op(d, e, g, ps) /\ ps \subseteq SeenBy(c.CPSR.mode)
    BY <1>4, WriteOp
  <2> HIDE DEF e, ps
  <2>2. Op(c, e, g, SeenBy(c.CPSR.mode) \cup ps)
    BY <1>2, <2>1, OpTrans
  <2>3. Op(c, e, g, SeenBy(c.CPSR.mode))
    BY <2>1, <2>2, OpMono
  <2>4. Result(c, e, g)
    BY <2>3, EndCompute
  <2>5. QED
    BY <1>3, <1>7, <2>4 DEF a, e
<1>8. QED
  BY <1>5, <1>6, <1>7

\* The register r a transfer means: the user's, or the mode's own.
Own(c, usr, r) == IF usr THEN "user" ELSE Owner(c.CPSR.mode, r)
Reach(c, usr)  == IF usr THEN Both(c) ELSE SeenBy(c.CPSR.mode)

\* What a transfer reads is the register it means.
LEMMA OwnFacts ==
  ASSUME NEW c \in Core, NEW usr \in BOOLEAN, NEW r \in Reg
  PROVE  /\ Own(c, usr, r) \in Mode /\ <<Own(c, usr, r), r>> \in Reach(c, usr)
         /\ SeenBy(c.CPSR.mode) \subseteq Reach(c, usr) /\ Reach(c, usr) \subseteq Both(c)
         /\ (IF usr THEN readusr(c, r) ELSE c.USER[r]) = FileOf(c)[<<Own(c, usr, r), r>>]
         /\ (IF usr THEN readusr(c, r) ELSE c.USER[r]) \in Word
<1>1. c.CPSR.mode \in Mode /\ "user" \in Mode /\ Owner(c.CPSR.mode, r) \in Mode
  BY CoreFields, OwnerFacts DEF Mode
<1>2. CASE usr
  <2>1. readusr(c, r) = FileOf(c)[<<"user", r>>] /\ readusr(c, r) \in Word
    BY ReadusrIs
  <2>2. <<"user", r>> \in SeenBy("user")
    BY UserOwner DEF SeenBy
  <2>3. QED
    BY <1>1, <1>2, <2>1, <2>2, SeenSubset DEF Own, Reach
<1>3. CASE ~usr
  <2>1. c.USER[r] \in Word /\ FileOf(c)[<<Owner(c.CPSR.mode, r), r>>] = c.USER[r]
    BY <1>1, CoreFields, FileIsView DEF View
  <2>2. <<Owner(c.CPSR.mode, r), r>> \in SeenBy(c.CPSR.mode)
    BY DEF SeenBy
  <2>3. QED
    BY <1>1, <1>3, <2>1, <2>2, SeenSubset DEF Own, Reach
<1>4. QED
  BY <1>2, <1>3

\* A transfer that ends well: the bus shows the PC or a register it could reach.
LEMMA EndTransfer ==
  ASSUME NEW c, NEW d, NEW g, NEW usr \in BOOLEAN, Ready(c, g), Sound(d, g),
         Touch(c, d, Reach(c, usr)), ~d.MAS_Access_Exept, ~d.pending,
         \/ d.bus = c.bus \/ \E k \in {1, 2} : d.bus = (Plus(c.USER[15]) + k) % Words
         \/ \E r \in Reg : d.bus \in {FileOf(c)[<<Own(c, usr, r), r>>],
                                      FileOf(d)[<<Own(c, usr, r), r>>]}
  PROVE  Result(c, d, g)
<1>1. c \in Core
  BY DEF Ready, Sound
<1>2. CASE usr
  <2>1. \A r \in Reg : Own(c, usr, r) = "user"
    BY <1>2 DEF Own
  <2>2. Touch(c, d, Both(c))
    BY <1>2 DEF Reach
  <2>3. QED
    BY <2>1, <2>2, EndUser
<1>3. CASE ~usr
  <2>1. \A r \in Reg : Own(c, usr, r) \in Mode /\ <<Own(c, usr, r), r>> \in SeenBy(c.CPSR.mode)
    BY <1>1, <1>3, OwnFacts DEF Reach
  <2>2. Touch(c, d, SeenBy(c.CPSR.mode))
    BY <1>3 DEF Reach
  <2>3. QED
    BY <2>1, <2>2, EndStore
<1>4. QED
  BY <1>2, <1>3

\* A word stored by a transfer that has touched registers it may, and not the PC.
LEMMA StoreStep ==
  ASSUME NEW c, NEW e, NEW g \in Configs, NEW usr \in BOOLEAN, Ready(c, g), Sound(e, g),
         Touch(c, e, Reach(c, usr)), ~e.pending, e.USER[15] = Plus(c.USER[15]),
         NEW t \in Target, NEW v \in Word
  PROVE  LET d == mwritew(e, g, t, v)
         IN  /\ t.dev = "reset" => d.pending /\ Result(c, d, g) /\ ~d.MAS_Access_Exept
             /\ t.dev # "reset" => /\ Sound(d, g) /\ ~d.pending /\ Touch(c, d, Reach(c, usr))
                                   /\ d.USER[15] = Plus(c.USER[15]) /\ d.bus \in {e.bus, v}
                                   /\ FileOf(d) = FileOf(e)
<1> DEFINE d == mwritew(e, g, t, v)
<1>1. CASE t.dev = "reset"
  <2>1. Touch(c, e, Both(c))
    BY OwnFacts, Subsets DEF Touch, Ready, Sound
  <2>2. Result(c, d, g) /\ d.pending
    BY <1>1, <2>1, EndReset
  <2>3. QED
    BY <1>1, <2>2 DEF Result
<1>2. CASE t.dev # "reset"
  <2>1. /\ Sound(d, g) /\ d.CPSR = e.CPSR /\ d.SPSR = e.SPSR /\ d.USER = e.USER
        /\ FileOf(d) = FileOf(e) /\ d.pending = e.pending /\ d.bus \in {e.bus, v}
    BY <1>2, MwritewFacts
  <2> HIDE DEF d
  <2>2. Touch(c, d, Reach(c, usr))
    BY <2>1 DEF Touch
  <2>3. QED
    BY <1>2, <2>1, <2>2 DEF d
<1>3. QED
  BY <1>1, <1>2

\* An abort after such a transfer.
LEMMA StoreAborts ==
  ASSUME NEW c, NEW e, NEW g, NEW usr \in BOOLEAN, Ready(c, g), Sound(e, g), ~e.pending,
         Touch(c, e, Reach(c, usr))
  PROVE  Result(c, arm_data_abort(e), g)
<1>1. Touch(c, e, Both(c))
  BY OwnFacts, Subsets DEF Touch, Ready, Sound
<1>2. Aborting(c, e, g)
  BY <1>1 DEF Aborting, Touch
<1>3. QED
  BY <1>2, EndAbort

\* STR: it resets, aborts, or writes back.
LEMMA StrResult ==
  ASSUME NEW c, NEW g \in Configs, Ready(c, g), NEW rn \in Regs, NEW wb \in BOOLEAN,
         NEW b \in Word, NEW rd \in Reg, NEW usr \in BOOLEAN, NEW ahead \in {1, 2},
         NEW t \in Target
  PROVE  Result(c, Str(Advanced(c), g, rn, wb, b, rd, usr, ahead, t), g)
<1> DEFINE a == Advanced(c)
           v == StoreValue(a, rd, usr, ahead)
           e == mwritew(a, g, t, v)
           f == Write(e, rn, b)
<1>1. c \in Core /\ a \in Core /\ Sound(a, g) /\ a.CPSR = c.CPSR /\ a.bus = c.bus /\ ~a.pending
      /\ a.USER[15] = Plus(c.USER[15]) /\ Op(c, a, g, SeenBy(c.CPSR.mode))
      /\ \A m \in Mode, r \in Reg : ~(m = "user" /\ r = 15) => FileOf(a)[<<m, r>>] = FileOf(c)[<<m, r>>]
  BY FetchedOp DEF Ready
<1>2. Str(a, g, rn, wb, b, rd, usr, ahead, t)
        = IF e.pending THEN e ELSE IF e.MAS_Access_Exept THEN arm_data_abort(e)
          ELSE IF wb THEN f ELSE e
  BY DEF Str
<1> HIDE DEF a
<1>3. v \in Word /\ \/ \E k \in {1, 2} : v = (Plus(c.USER[15]) + k) % Words
                    \/ \E r \in Reg : v = FileOf(c)[<<Own(c, usr, r), r>>]
  <2>1. CASE rd = 15
    <3>1. Plus(c.USER[15]) \in Word
      BY <1>1, CoreFields, Subsets, WordFacts
    <3>2. QED
      BY <1>1, <2>1, <3>1, WordFacts DEF StoreValue
  <2>2. CASE rd # 15
    <3>1. v = (IF usr THEN readusr(a, rd) ELSE a.USER[rd])
      BY <2>2 DEF StoreValue
    <3>2. v \in Word /\ v = FileOf(a)[<<Own(a, usr, rd), rd>>] /\ Own(a, usr, rd) \in Mode
      BY <1>1, <3>1, OwnFacts
    <3>3. Own(a, usr, rd) = Own(c, usr, rd)
      BY <1>1 DEF Own
    <3>4. QED
      BY <1>1, <2>2, <3>2, <3>3
  <2>3. QED
    BY <2>1, <2>2
<1>4. Touch(c, a, Reach(c, usr))
  BY <1>1, OwnFacts, Subsets DEF Op, Touch
<1> HIDE DEF v
<1>5. /\ t.dev = "reset" => e.pending /\ Result(c, e, g) /\ ~e.MAS_Access_Exept
      /\ t.dev # "reset" => /\ Sound(e, g) /\ ~e.pending /\ Touch(c, e, Reach(c, usr))
                            /\ e.USER[15] = Plus(c.USER[15]) /\ e.bus \in {a.bus, v}
                            /\ FileOf(e) = FileOf(a)
  BY <1>1, <1>3, <1>4, StoreStep
<1> HIDE DEF e, f
<1>6. CASE t.dev = "reset"
  BY <1>2, <1>5, <1>6 DEF a
<1>7. CASE t.dev # "reset" /\ e.MAS_Access_Exept
  <2>1. Result(c, arm_data_abort(e), g)
    BY <1>5, <1>7, StoreAborts
  <2>2. QED
    BY <1>2, <1>5, <1>7, <2>1 DEF a
<1>8. CASE t.dev # "reset" /\ ~e.MAS_Access_Exept
  <2>1. \/ e.bus = c.bus \/ \E k \in {1, 2} : e.bus = (Plus(c.USER[15]) + k) % Words
        \/ \E r \in Reg : e.bus = FileOf(c)[<<Own(c, usr, r), r>>]
    BY <1>1, <1>3, <1>5, <1>8
  <2>2. CASE wb
    <3> DEFINE ps == {<<Owner(e.CPSR.mode, rn), rn>>}
    <3>1. rn \in Reg
      BY DEF Reg
    <3>2. Op(e, f, g, ps) /\ ps \subseteq SeenBy(e.CPSR.mode)
      BY <1>5, <1>8, <3>1, WriteOp DEF f
    <3> HIDE DEF ps
    <3>3. Touch(c, f, Reach(c, usr)) /\ Sound(f, g) /\ ~f.pending /\ ~f.MAS_Access_Exept
          /\ f.bus = e.bus
      <4>1. e.CPSR = c.CPSR
        BY <1>5, <1>8 DEF Touch
      <4>2. ps \subseteq Reach(c, usr)
        BY <1>1, <3>1, <3>2, <4>1, OwnFacts
      <4>3. QED
        BY <1>5, <1>8, <3>2, <4>2 DEF Op, Touch
    <3>4. Result(c, f, g)
      BY <2>1, <3>3, EndTransfer
    <3>5. QED
      BY <1>2, <1>5, <1>8, <2>2, <3>4 DEF a
  <2>3. CASE ~wb
    <3>1. Result(c, e, g)
      BY <1>5, <1>8, <2>1, EndTransfer
    <3>2. QED
      BY <1>2, <1>5, <1>8, <2>3, <3>1 DEF a
  <2>4. QED
    BY <2>2, <2>3
<1>9. QED
  BY <1>6, <1>7, <1>8

\* SWP: it aborts before anything, resets, or loads.
LEMMA SwapResult ==
  ASSUME NEW c, NEW g \in Configs, Ready(c, g), NEW rd \in Regs, NEW rm \in Regs,
         NEW v \in Word, NEW t \in Target
  PROVE  Result(c, ARM_SWAP(Advanced(c), g, rd, rm, v, t), g)
<1> DEFINE a == Advanced(c)
           w == a.USER[rm]
           e == mwritew(a, g, t, w)
           f == Write(e, rd, v)
<1>1. c \in Core /\ a \in Core /\ Sound(a, g) /\ a.CPSR = c.CPSR /\ a.bus = c.bus /\ ~a.pending
      /\ ~a.MAS_Access_Exept /\ a.USER[15] = Plus(c.USER[15]) /\ Op(c, a, g, SeenBy(c.CPSR.mode))
      /\ Op(c, a, g, Both(c))
      /\ \A m \in Mode, r \in Reg : ~(m = "user" /\ r = 15) => FileOf(a)[<<m, r>>] = FileOf(c)[<<m, r>>]
  BY FetchedOp DEF Ready
<1>2. ARM_SWAP(a, g, rd, rm, v, t)
        = IF t.dev = "absent" THEN arm_data_abort([a EXCEPT !.MAS_Access_Exept = TRUE])
          ELSE IF e.pending THEN e ELSE f
  BY DEF ARM_SWAP
<1> HIDE DEF a
<1>3. rd \in Reg /\ rm \in Reg /\ rm # 15
  BY RegsAssumption DEF Reg
<1>4. \A r \in Reg : Own(c, FALSE, r) = Owner(c.CPSR.mode, r)
  BY DEF Own
<1>5. w \in Word /\ w = FileOf(c)[<<Own(c, FALSE, rm), rm>>]
  <2>1. ASSUME NEW usr \in BOOLEAN, ~usr
        PROVE  w \in Word /\ w = FileOf(a)[<<Own(a, usr, rm), rm>>] /\ Own(a, usr, rm) \in Mode
               /\ Own(a, usr, rm) = Own(c, FALSE, rm)
    BY <1>1, <1>3, <2>1, OwnFacts DEF Own
  <2>2. QED
    BY <1>1, <1>3, <2>1
<1>6. Touch(c, a, Reach(c, FALSE)) /\ Reach(c, FALSE) = SeenBy(c.CPSR.mode)
  BY <1>1 DEF Op, Reach
<1> HIDE DEF w
<1>7. /\ t.dev = "reset" => e.pending /\ Result(c, e, g) /\ ~e.MAS_Access_Exept
      /\ t.dev # "reset" => /\ Sound(e, g) /\ ~e.pending /\ Touch(c, e, Reach(c, FALSE))
                            /\ e.USER[15] = Plus(c.USER[15]) /\ e.bus \in {a.bus, w}
                            /\ FileOf(e) = FileOf(a)
  <2>1. ASSUME NEW usr \in BOOLEAN, ~usr
        PROVE  /\ t.dev = "reset" => e.pending /\ Result(c, e, g) /\ ~e.MAS_Access_Exept
               /\ t.dev # "reset" => /\ Sound(e, g) /\ ~e.pending /\ Touch(c, e, Reach(c, usr))
                                     /\ e.USER[15] = Plus(c.USER[15]) /\ e.bus \in {a.bus, w}
                                     /\ FileOf(e) = FileOf(a)
    <3>1. Touch(c, a, Reach(c, usr))
      BY <1>6, <2>1 DEF Reach
    <3>2. QED
      BY <1>1, <1>5, <3>1, StoreStep
  <2>2. QED
    BY <2>1
<1>8. t.dev # "absent" /\ t.dev # "reset" => ~e.MAS_Access_Exept
  BY <1>1, <1>5, MwritewFacts
<1> HIDE DEF e, f
<1>9. CASE t.dev = "reset"
  BY <1>2, <1>7, <1>9 DEF a
<1>10. CASE t.dev = "absent"
  BY <1>1, <1>2, <1>10, LoadAborts DEF a
<1>11. CASE t.dev # "reset" /\ t.dev # "absent"
  <2> DEFINE ps == {<<Owner(e.CPSR.mode, rd), rd>>}
  <2>1. Op(e, f, g, ps) /\ ps \subseteq SeenBy(e.CPSR.mode)
    BY <1>3, <1>7, <1>11, WriteOp DEF f
  <2> HIDE DEF ps
  <2>2. Touch(c, f, SeenBy(c.CPSR.mode)) /\ Sound(f, g) /\ ~f.pending /\ ~f.MAS_Access_Exept
        /\ f.bus = e.bus
    BY <1>6, <1>7, <1>8, <1>11, <2>1 DEF Op, Touch
  <2>3. \/ f.bus = c.bus
        \/ \E n \in Mode, r \in Reg : /\ <<n, r>> \in SeenBy(c.CPSR.mode)
                                      /\ f.bus \in {FileOf(c)[<<n, r>>], FileOf(f)[<<n, r>>]}
    <3>1. Owner(c.CPSR.mode, rm) \in Mode /\ <<Owner(c.CPSR.mode, rm), rm>> \in SeenBy(c.CPSR.mode)
      BY <1>1, <1>3, OwnerFacts, CoreFields DEF SeenBy
    <3>2. QED
      BY <1>1, <1>3, <1>4, <1>5, <1>7, <1>11, <2>2, <3>1
  <2>4. Result(c, f, g)
    BY <2>2, <2>3, EndStore
  <2>5. QED
    BY <1>2, <1>7, <1>11, <2>4 DEF a
<1>12. QED
  BY <1>9, <1>10, <1>11

-----------------------------------------------------------------------------
(* Block transfers.                                                        *)

\* LDM into registers the mode sees.
LEMMA WriteAllOp ==
  ASSUME NEW c, NEW g, Sound(c, g), NEW list \in SUBSET Reg, NEW v \in [list -> Word]
  PROVE  Op(c, WriteAll(c, list, v), g, SeenBy(c.CPSR.mode))
<1> DEFINE regs == [r \in Reg |-> IF r \in list THEN v[r] ELSE c.USER[r]]
           d == [c EXCEPT !.USER = regs]
           m == c.CPSR.mode
<1>1. c \in Core /\ m \in Mode /\ MapOf(c, g) /\ c.SPSR["user"].mode = "user"
  BY CoreFields DEF Sound
<1>2. regs \in [Reg -> Word]
  BY <1>1, CoreFields
<1>3. WriteAll(c, list, v) = d
  BY <1>1 DEF WriteAll, Core
<1> HIDE DEF regs
<1>4. d \in Core /\ Alike(c, d) /\ d.bank = c.bank /\ d.CPSR.mode = m
  BY <1>1, <1>2 DEF Core, Alike
<1> HIDE DEF d
<1>5. ASSUME NEW n \in Mode, NEW r \in Reg, <<n, r>> \notin SeenBy(m)
      PROVE  FileOf(d)[<<n, r>>] = FileOf(c)[<<n, r>>]
  <2>1. Owner(m, r) # n
    BY <1>5 DEF SeenBy
  <2>2. View(d, m, n, r) = View(c, m, n, r)
    BY <1>4, <2>1 DEF View
  <2>3. QED
    BY <1>1, <1>4, <2>2, FileIsView
<1>6. Sound(d, g) /\ Touch(c, d, SeenBy(m)) /\ d.bus = c.bus
      /\ d.MAS_Access_Exept = c.MAS_Access_Exept /\ d.pending = c.pending
  BY <1>1, <1>4, <1>5 DEF Sound, Touch, MapOf, Alike
<1>7. QED
  BY <1>3, <1>6 DEF Op

\* LDM into the user's registers.
LEMMA LoadAllUserOp ==
  ASSUME NEW c, NEW g, Sound(c, g), NEW list \in SUBSET Reg, NEW v \in [list -> Word]
  PROVE  Op(c, LoadAllUser(c, list, v), g, SeenBy("user"))
<1> DEFINE regs == [r \in Reg |-> IF r \in list /\ InUser(c, r) THEN v[r] ELSE c.USER[r]]
           row == [r \in High |-> IF r \in list /\ ~InUser(c, r) THEN v[r] ELSE c.bank["user"][r]]
           banks == [c.bank EXCEPT !["user"] = row]
           d == [c EXCEPT !.USER = regs, !.bank = banks]
           m == c.CPSR.mode
<1>1. c \in Core /\ m \in Mode /\ MapOf(c, g) /\ c.SPSR["user"].mode = "user" /\ "user" \in Mode
  BY CoreFields DEF Sound, Mode
<1>2. regs \in [Reg -> Word] /\ row \in [High -> Word]
  BY <1>1, CoreFields
<1>3. LoadAllUser(c, list, v) = d
  BY <1>1 DEF LoadAllUser, Core
<1>4. \A r \in Reg : ~InUser(c, r) => regs[r] = c.USER[r]
  OBVIOUS
<1> HIDE DEF regs, row
<1>5. banks \in [Mode -> [High -> Word]] /\ \A n \in Mode : n # "user" => banks[n] = c.bank[n]
  BY <1>1, <1>2, CoreFields
<1> HIDE DEF banks
<1>6. d \in Core /\ Alike(c, d) /\ d.USER = regs /\ d.bank = banks /\ d.CPSR.mode = m
  BY <1>1, <1>2, <1>5 DEF Core, Alike
<1> HIDE DEF d
<1>7. ASSUME NEW n \in Mode, NEW r \in Reg, <<n, r>> \notin SeenBy("user")
      PROVE  FileOf(d)[<<n, r>>] = FileOf(c)[<<n, r>>]
  <2>1. n # "user"
    BY <1>7, UserOwner DEF SeenBy
  <2>2. Owner(m, r) = n => ~InUser(c, r)
    BY <1>1, <2>1, InUserFacts
  <2>3. View(d, m, n, r) = View(c, m, n, r)
    BY <1>4, <1>5, <1>6, <2>1, <2>2 DEF View
  <2>4. QED
    BY <1>1, <1>6, <2>3, FileIsView
<1>8. Sound(d, g) /\ Touch(c, d, SeenBy("user")) /\ d.bus = c.bus
      /\ d.MAS_Access_Exept = c.MAS_Access_Exept /\ d.pending = c.pending
  BY <1>1, <1>6, <1>7 DEF Sound, Touch, MapOf, Alike
<1>9. QED
  BY <1>3, <1>8 DEF Op

\* Write-back of a block transfer: the user's base, or the mode's own.
Back(x, S, rn, b) == IF S THEN loadusr(x, rn, b) ELSE Write(x, rn, b)

\* Write-back touches the base and not the PC.
LEMMA BackFacts ==
  ASSUME NEW x, NEW g, Sound(x, g), NEW S \in BOOLEAN, NEW rn \in Regs, NEW b \in Word
  PROVE  LET y == Back(x, S, rn, b)
         IN  /\ Op(x, y, g, Reach(x, S)) /\ y.USER[15] = x.USER[15]
             /\ FileOf(y) = Put(FileOf(x), Own(x, S, rn), rn, b)
<1> DEFINE y == Back(x, S, rn, b)
<1>1. x \in Core /\ rn \in Reg /\ rn # 15
  BY RegsAssumption DEF Sound, Reg
<1>2. CASE S
  <2>1. y = loadusr(x, rn, b) /\ Own(x, S, rn) = "user" /\ Reach(x, S) = Both(x)
    BY <1>2 DEF Back, Own, Reach
  <2> HIDE DEF y
  <2>2. Op(x, y, g, {<<"user", rn>>}) /\ {<<"user", rn>>} \subseteq SeenBy("user")
    BY <1>1, <2>1, LoadusrOp
  <2>3. Op(x, y, g, Both(x))
    BY <2>2, OpMono, SeenSubset
  <2>4. y.USER[15] = x.USER[15]
    BY <1>1, <2>2, PcKept
  <2>5. FileOf(y) = Put(FileOf(x), "user", rn, b)
    BY <1>1, <2>1, LoadusrFacts
  <2>6. QED
    BY <2>1, <2>3, <2>4, <2>5 DEF y
<1>3. CASE ~S
  <2>1. y = Write(x, rn, b) /\ Own(x, S, rn) = Owner(x.CPSR.mode, rn)
        /\ Reach(x, S) = SeenBy(x.CPSR.mode)
    BY <1>3 DEF Back, Own, Reach
  <2> HIDE DEF y
  <2> DEFINE ps == {<<Owner(x.CPSR.mode, rn), rn>>}
  <2>2. Op(x, y, g, ps) /\ ps \subseteq SeenBy(x.CPSR.mode) /\ y.USER[15] = x.USER[15]
    BY <1>1, <2>1, WriteOp
  <2> HIDE DEF ps
  <2>3. Op(x, y, g, SeenBy(x.CPSR.mode))
    BY <2>2, OpMono
  <2>4. FileOf(y) = Put(FileOf(x), Owner(x.CPSR.mode, rn), rn, b)
    BY <1>1, <2>1, WriteFacts
  <2>5. QED
    BY <2>1, <2>2, <2>3, <2>4 DEF y
<1>4. QED
  BY <1>2, <1>3

\* LDM: plain, user-bank or returning, each with its abort.
LEMMA LdmResult ==
  ASSUME NEW c, NEW g, Ready(c, g), NEW rn \in Regs, NEW wb \in BOOLEAN, NEW b \in Word,
         NEW list \in SUBSET Reg, NEW S \in BOOLEAN, NEW v \in [list -> Word],
         NEW absent \in BOOLEAN
  PROVE  Result(c, ldm_accur(Advanced(c), rn, wb, b, list, S, v, absent), g)
<1> DEFINE a == Advanced(c)
           m == c.CPSR.mode
           usr == S /\ 15 \notin list
           d == IF ~wb THEN a ELSE Back(a, usr, rn, b)
           e == IF usr THEN LoadAllUser(d, list, v) ELSE WriteAll(d, list, v)
           ret == S /\ ~usr /\ m # "user"
           f == IF ret THEN arm_cpsr_set(e, e.SPSR[m]) ELSE e
<1>1. c \in Core /\ Sound(a, g) /\ a.CPSR = c.CPSR /\ m \in Mode
      /\ Op(c, a, g, SeenBy(m)) /\ Op(c, a, g, Both(c))
  BY FetchedOp
<1>2. usr \in BOOLEAN /\ Reach(a, usr) = Reach(c, usr) /\ Own(a, usr, rn) = Own(c, usr, rn)
      /\ SeenBy(m) \subseteq Reach(c, usr) /\ Reach(c, usr) \subseteq Both(c)
  <2>1. usr \in BOOLEAN
    OBVIOUS
  <2>2. QED
    BY <1>1, <2>1, OwnFacts, Subsets DEF Reach, Own, Both
<1>3. Op(c, d, g, Reach(c, usr))
  <2>0. Op(c, a, g, Reach(c, usr))
    BY <1>1, <1>2, OpMono
  <2>1. CASE wb
    <3> DEFINE y == Back(a, usr, rn, b)
    <3> HIDE DEF usr, a
    <3>1. Op(a, y, g, Reach(a, usr))
      BY <1>1, <1>2, BackFacts
    <3> HIDE DEF y
    <3>2. Op(c, y, g, Reach(c, usr) \cup Reach(c, usr))
      BY <1>2, <2>0, <3>1, OpTrans
    <3>3. Reach(c, usr) \cup Reach(c, usr) = Reach(c, usr)
      OBVIOUS
    <3>4. QED
      BY <2>1, <3>2, <3>3 DEF y
  <2>2. CASE ~wb
    BY <2>0, <2>2
  <2>3. QED
    BY <2>1, <2>2
<1>4. ldm_accur(a, rn, wb, b, list, S, v, absent)
        = IF absent THEN arm_data_abort([f EXCEPT !.MAS_Access_Exept = TRUE]) ELSE f
  <2>1. e.CPSR = c.CPSR
    <3> HIDE DEF d
    <3>1. Sound(d, g) /\ d.CPSR = c.CPSR
      BY <1>3 DEF Op, Touch
    <3>2. QED
      BY <3>1, LoadAllUserOp, WriteAllOp DEF Op, Touch
  <2>2. QED
    BY <2>1 DEF ldm_accur, Back
<1> HIDE DEF a, d
<1>5. Sound(d, g) /\ d.CPSR = c.CPSR
  BY <1>3 DEF Op, Touch
<1>6. Op(c, e, g, Reach(c, usr))
  <2>1. CASE usr
    <3>1. Op(d, LoadAllUser(d, list, v), g, SeenBy("user"))
      BY <1>5, LoadAllUserOp
    <3>2. Op(c, LoadAllUser(d, list, v), g, Reach(c, usr) \cup SeenBy("user"))
      BY <1>3, <3>1, OpTrans
    <3>3. Reach(c, usr) \cup SeenBy("user") = Reach(c, usr)
      BY <2>1, SeenSubset DEF Reach
    <3>4. QED
      BY <2>1, <3>2, <3>3
  <2>2. CASE ~usr
    <3>1. Op(d, WriteAll(d, list, v), g, SeenBy(m))
      BY <1>5, WriteAllOp
    <3>2. Op(c, WriteAll(d, list, v), g, Reach(c, usr) \cup SeenBy(m))
      BY <1>3, <3>1, OpTrans
    <3>3. Reach(c, usr) \cup SeenBy(m) = Reach(c, usr)
      BY <1>2
    <3>4. QED
      BY <2>2, <3>2, <3>3
  <2>3. QED
    BY <2>1, <2>2
<1> HIDE DEF e
<1>7. Sound(e, g) /\ e \in Core /\ e.CPSR = c.CPSR /\ e.SPSR = c.SPSR /\ e.bus = c.bus
      /\ ~e.MAS_Access_Exept /\ ~e.pending /\ c.SPSR[m] \in Psr
  BY <1>1, <1>6, CoreFields DEF Op, Touch, Sound, Ready
<1>8. CASE ~ret
  <2>1. f = e
    BY <1>8
  <2>2. CASE absent
    <3>1. Op(c, e, g, Both(c))
      BY <1>2, <1>6, OpMono
    <3>2. QED
      BY <1>4, <2>1, <2>2, <3>1, LoadAborts DEF a
  <2>3. CASE ~absent
    <3>1. Result(c, e, g)
      BY <1>2, <1>6, <1>7, EndTransfer DEF Op
    <3>2. QED
      BY <1>4, <2>1, <2>3, <3>1 DEF a
  <2>4. QED
    BY <2>2, <2>3
<1>9. CASE ret
  <2>1. f = arm_cpsr_set(e, e.SPSR[m]) /\ m # "user" /\ Reach(c, usr) = SeenBy(m)
    BY <1>9 DEF Reach
  <2> HIDE DEF f, usr
  <2>2. f \in Core /\ Frame(e, f) /\ f.CPSR = c.SPSR[m] /\ f.SPSR = c.SPSR /\ FileOf(f) = FileOf(e)
    BY <1>7, <2>1, CpsrSetFacts
  <2>3. Sound(f, g) /\ ~f.MAS_Access_Exept /\ ~f.pending /\ f.bus = c.bus
    BY <1>7, <2>2 DEF Sound, Frame, MapOf
  <2>4. \A n \in Mode, r \in Reg : <<n, r>> \notin SeenBy(m) => FileOf(f)[<<n, r>>] = FileOf(c)[<<n, r>>]
    BY <1>6, <2>1, <2>2 DEF Op, Touch
  <2>5. CASE absent
    <3> DEFINE x == [f EXCEPT !.MAS_Access_Exept = TRUE]
    <3>1. Sound(x, g) /\ x.CPSR = f.CPSR /\ x.SPSR = f.SPSR /\ x.pending = f.pending
          /\ FileOf(x) = FileOf(f)
      BY <2>3, RaisedFacts
    <3> HIDE DEF x
    <3>2. Aborting(c, x, g)
      BY <2>1, <2>2, <2>3, <2>4, <3>1 DEF Aborting, Both
    <3>3. Result(c, arm_data_abort(x), g)
      BY <3>2, EndAbort
    <3>4. QED
      BY <1>4, <2>5, <3>3 DEF a, x
  <2>6. CASE ~absent
    <3>1. Registers!Only(StateOf(c), StateOf(f), SeenBy(m))
      BY <1>1, <2>2, <2>4, OnlyOf
    <3>2. Registers!LoadReturn(StateOf(c), StateOf(f))
      BY <2>1, <2>2, <2>3, <3>1, Names, StateFields DEF Registers!LoadReturn
    <3>3. Result(c, f, g)
      BY <2>3, <3>2 DEF Result, Registers!Step
    <3>4. QED
      BY <1>4, <2>6, <3>3 DEF a
  <2>7. QED
    BY <2>5, <2>6
<1>10. QED
  BY <1>8, <1>9

\* A register list that is not empty has a first and a last register.
LEMMA FirstExists ==
  ASSUME NEW rs \in SUBSET (0..14), rs # {}
  PROVE  \E r \in rs : \A q \in rs : r <= q
<1>1. rs \subseteq Nat
  OBVIOUS
<1>2. PICK r \in rs : \A q \in rs : ~(<<q, r>> \in OpToRel(<, Nat))
  BY <1>1, NatLessThanWellFounded, WFMin
<1>3. \A q \in rs : ~(q < r)
  BY <1>1, <1>2 DEF OpToRel
<1>4. QED
  BY <1>1, <1>3

\* Likewise the last.
LEMMA LastExists ==
  ASSUME NEW rs \in SUBSET (0..14), rs # {}
  PROVE  \E r \in rs : \A q \in rs : q <= r
<1> DEFINE ts == {14 - r : r \in rs}
<1>1. ts \in SUBSET (0..14) /\ ts # {}
  <2>1. \A r \in rs : 14 - r \in 0..14
    OBVIOUS
  <2>2. PICK r \in rs : TRUE
    OBVIOUS
  <2>3. 14 - r \in ts
    OBVIOUS
  <2>4. QED
    BY <2>1, <2>3
<1> HIDE DEF ts
<1>2. PICK t \in ts : \A q \in ts : t <= q
  BY <1>1, FirstExists
<1>3. PICK r \in rs : t = 14 - r
  BY <1>2 DEF ts
<1>4. ASSUME NEW q \in rs PROVE q <= r
  <2>1. 14 - q \in ts
    BY DEF ts
  <2>2. QED
    BY <1>2, <1>3, <2>1
<1>5. QED
  BY <1>4

\* The words of a list: one of them resets, or only the flags, the overlay and
\* the bus change, and the bus shows one of the registers.
LEMMA StoreAllFacts ==
  ASSUME NEW c, NEW g \in Configs, Sound(c, g), NEW list \in SUBSET Regs, NEW S \in BOOLEAN,
         NEW tgt, \A r \in list : tgt[r] \in Target
  PROVE  LET e == StoreAll(c, g, list, S, tgt)
         IN  \/ \E r \in list : /\ tgt[r].dev = "reset"
                                /\ \E v \in Word : e = mwritew(c, g, tgt[r], v)
             \/ /\ Sound(e, g) /\ e.CPSR = c.CPSR /\ e.SPSR = c.SPSR /\ e.USER = c.USER
                /\ FileOf(e) = FileOf(c) /\ e.pending = c.pending
                /\ \/ e.bus = c.bus
                   \/ \E r \in list : e.bus = FileOf(c)[<<Own(c, S, r), r>>]
<1> DEFINE Value(r) == IF S THEN readusr(c, r) ELSE c.USER[r]
           Resets == {r \in list : tgt[r].dev = "reset"}
           Out == {r \in list : tgt[r].dev # "absent"}
           First(rs) == CHOOSE r \in rs : \A q \in rs : r <= q
           Last(rs) == CHOOSE r \in rs : \A q \in rs : q <= r
           d == IF \E r \in list : tgt[r].dev = "ram" /\ tgt[r].addr < c.clear
                THEN set_rom_overlay(c, g, FALSE) ELSE c
           ab == \E r \in list : tgt[r].dev = "absent"
           w == IF Out = {} THEN d.bus ELSE Value(Last(Out))
           e == StoreAll(c, g, list, S, tgt)
<1>1. c \in Core /\ MapOf(c, g) /\ c.SPSR["user"].mode = "user"
  BY DEF Sound
<1>2. \A r \in list : Value(r) \in Word /\ Value(r) = FileOf(c)[<<Own(c, S, r), r>>]
  BY <1>1, OwnFacts DEF Reg
<1>3. e = IF Resets # {} THEN mwritew(c, g, tgt[First(Resets)], Value(First(Resets)))
          ELSE [d EXCEPT !.MAS_Access_Exept = ab, !.bus = w]
  BY DEF StoreAll
<1> HIDE DEF Value, e
<1>4. CASE Resets # {}
  <2>1. Resets \in SUBSET (0..14)
    BY RegsAssumption
  <2>2. First(Resets) \in Resets
    BY <1>4, <2>1, FirstExists
  <2>3. First(Resets) \in list /\ tgt[First(Resets)].dev = "reset"
    BY <2>2
  <2> HIDE DEF First, Resets
  <2>4. QED
    BY <1>2, <1>3, <1>4, <2>3 DEF e
<1>5. CASE Resets = {}
  <2>1. d \in Core /\ MapOf(d, g) /\ FileOf(d) = FileOf(c) /\ d.USER = c.USER /\ d.CPSR = c.CPSR
        /\ d.SPSR = c.SPSR /\ d.bus = c.bus /\ d.pending = c.pending
    <3>1. CASE \E r \in list : tgt[r].dev = "ram" /\ tgt[r].addr < c.clear
      <4>1. d = set_rom_overlay(c, g, FALSE)
        BY <3>1
      <4> HIDE DEF d
      <4>2. QED
        BY <1>1, <4>1, OverlayFacts
    <3>2. CASE ~\E r \in list : tgt[r].dev = "ram" /\ tgt[r].addr < c.clear
      <4>1. d = c
        BY <3>2
      <4>2. QED
        BY <1>1, <4>1
    <3>3. QED
      BY <3>1, <3>2
  <2> HIDE DEF d
  <2>2. w \in Word /\ (w = c.bus \/ \E r \in list : w = FileOf(c)[<<Own(c, S, r), r>>])
    <3>1. CASE Out = {}
      BY <1>1, <2>1, <3>1, CoreFields
    <3>2. CASE Out # {}
      <4>1. Out \in SUBSET (0..14)
        BY RegsAssumption
      <4>2. Last(Out) \in Out
        BY <3>2, <4>1, LastExists
      <4>3. Last(Out) \in list
        BY <4>2
      <4> HIDE DEF Last, Out
      <4>4. QED
        BY <1>2, <3>2, <4>3
    <3>3. QED
      BY <3>1, <3>2
  <2> HIDE DEF w, ab
  <2> DEFINE x == [d EXCEPT !.MAS_Access_Exept = ab, !.bus = w]
  <2>3. x \in Core /\ MapOf(x, g) /\ x.USER = d.USER /\ x.bank = d.bank /\ x.CPSR = d.CPSR
        /\ x.SPSR = d.SPSR /\ x.bus = w /\ x.pending = d.pending
    <3>1. ab \in BOOLEAN
      BY DEF ab
    <3>2. ASSUME NEW y \in BOOLEAN, NEW z, z = [d EXCEPT !.MAS_Access_Exept = y, !.bus = w]
          PROVE  z \in Core /\ MapOf(z, g) /\ z.USER = d.USER /\ z.bank = d.bank /\ z.CPSR = d.CPSR
                 /\ z.SPSR = d.SPSR /\ z.bus = w /\ z.pending = d.pending
      BY <2>1, <2>2, <3>2 DEF Core, MapOf
    <3>3. QED
      BY <3>1, <3>2
  <2>4. e = x
    BY <1>3, <1>5
  <2> HIDE DEF x
  <2>5. FileOf(x) = FileOf(d)
    BY <2>1, <2>3, FileSame
  <2>6. QED
    BY <1>1, <2>1, <2>2, <2>3, <2>4, <2>5 DEF Sound, e
<1>6. QED
  BY <1>4, <1>5

\* STM: write-back, words, write-back, the PC's word.
LEMMA StmResult ==
  ASSUME NEW c, NEW g \in Configs, Ready(c, g), NEW rn \in Regs, NEW wb \in BOOLEAN,
         NEW b \in Word, NEW list \in SUBSET Reg, NEW S \in BOOLEAN,
         NEW tgt \in [list -> Target]
  PROVE  Result(c, stm_accur(Advanced(c), g, rn, wb, b, list, S, tgt), g)
<1> DEFINE a == Advanced(c)
           early == \E r \in list : r < rn
           B(x) == IF wb THEN Back(x, S, rn, b) ELSE x
           d == IF early THEN B(a) ELSE a
           e == StoreAll(d, g, list \ {15}, S, tgt)
           f == B(e)
           pcv == (f.USER[15] + 2) % Words
           h == IF 15 \in list THEN mwritew(f, g, tgt[15], pcv) ELSE f
           k == IF e.pending THEN e ELSE h
<1>1. stm_accur(a, g, rn, wb, b, list, S, tgt) = IF k.MAS_Access_Exept THEN arm_data_abort(k) ELSE k
  BY DEF stm_accur, Back
<1>2. c \in Core /\ Sound(a, g) /\ a.CPSR = c.CPSR /\ a.bus = c.bus /\ ~a.pending
      /\ a.USER[15] = Plus(c.USER[15]) /\ Op(c, a, g, SeenBy(c.CPSR.mode))
      /\ \A m \in Mode, r \in Reg : ~(m = "user" /\ r = 15) => FileOf(a)[<<m, r>>] = FileOf(c)[<<m, r>>]
  BY FetchedOp DEF Ready
<1>3. rn \in Reg /\ rn # 15 /\ 15 \in Reg /\ list \ {15} \in SUBSET Regs
      /\ \A r \in list \ {15} : tgt[r] \in Target /\ r \in Reg /\ r # 15
  BY RegsAssumption DEF Reg
<1>4. /\ \A r \in Reg : Own(c, S, r) \in Mode
      /\ SeenBy(c.CPSR.mode) \subseteq Reach(c, S)
  BY <1>2, <1>3, OwnFacts
<1> HIDE DEF a
\* Write-back keeps what has been reached, and writes b to the base.
<1>5. ASSUME NEW x, Sound(x, g), Touch(c, x, Reach(c, S))
      PROVE  /\ Sound(B(x), g) /\ Touch(c, B(x), Reach(c, S)) /\ B(x).USER[15] = x.USER[15]
             /\ B(x).bus = x.bus /\ B(x).pending = x.pending
             /\ wb => FileOf(B(x)) = Put(FileOf(x), Own(c, S, rn), rn, b)
  <2>1. x.CPSR = c.CPSR /\ Reach(x, S) = Reach(c, S) /\ Own(x, S, rn) = Own(c, S, rn)
    BY <1>5 DEF Touch, Reach, Own, Both
  <2>2. CASE wb
    <3> DEFINE y == Back(x, S, rn, b)
    <3>1. Op(x, y, g, Reach(c, S)) /\ y.USER[15] = x.USER[15]
          /\ FileOf(y) = Put(FileOf(x), Own(c, S, rn), rn, b)
      BY <1>5, <2>1, BackFacts
    <3> HIDE DEF y
    <3>2. Sound(y, g) /\ Touch(c, y, Reach(c, S)) /\ y.bus = x.bus /\ y.pending = x.pending
      BY <1>5, <3>1 DEF Op, Touch
    <3>3. B(x) = y
      BY <2>2 DEF y
    <3> HIDE DEF B
    <3>4. QED
      BY <3>1, <3>2, <3>3
  <2>3. CASE ~wb
    <3>1. B(x) = x
      BY <2>3
    <3> HIDE DEF B
    <3>2. QED
      BY <1>5, <2>3, <3>1
  <2>4. QED
    BY <2>2, <2>3
<1>6. Touch(c, a, Reach(c, S))
  BY <1>2, <1>4 DEF Op, Touch
<1>7. /\ Sound(d, g) /\ Touch(c, d, Reach(c, S)) /\ d.USER[15] = Plus(c.USER[15])
      /\ d.bus = c.bus /\ ~d.pending
  <2> HIDE DEF B
  <2>1. CASE early
    <3>1. d = B(a)
      BY <2>1
    <3> HIDE DEF d, early
    <3>2. QED
      BY <1>2, <1>5, <1>6, <3>1
  <2>2. CASE ~early
    <3>1. d = a
      BY <2>2
    <3> HIDE DEF d, early
    <3>2. QED
      BY <1>2, <1>6, <3>1
  <2>3. QED
    BY <2>1, <2>2
\* A register listed holds in d what it held in c, or what it holds at the end.
<1>8. ASSUME NEW r \in list \ {15}
      PROVE  \/ FileOf(d)[<<Own(c, S, r), r>>] = FileOf(c)[<<Own(c, S, r), r>>]
             \/ /\ wb /\ Own(c, S, r) = Own(c, S, rn) /\ r = rn
                /\ FileOf(d)[<<Own(c, S, r), r>>] = b
  <2>1. FileOf(a)[<<Own(c, S, r), r>>] = FileOf(c)[<<Own(c, S, r), r>>]
    BY <1>2, <1>3, <1>4
  <2>2. CASE early /\ wb
    <3>1. d = B(a)
      BY <2>2
    <3>2. FileOf(d) = Put(FileOf(a), Own(c, S, rn), rn, b)
      <4> HIDE DEF B, d
      <4>1. QED
        BY <1>2, <1>5, <1>6, <2>2, <3>1
    <3>3. FileOf(a) \in [Mode \X Reg -> Word]
      BY <1>2, FileType DEF Sound
    <3> HIDE DEF d, B
    <3>4. CASE r = rn
      <4>1. FileOf(d)[<<Own(c, S, rn), rn>>] = b
        BY <1>3, <1>4, <3>2, <3>3 DEF Put
      <4>2. QED
        BY <2>2, <3>4, <4>1
    <3>5. CASE r # rn
      <4>1. FileOf(d)[<<Own(c, S, r), r>>] = FileOf(a)[<<Own(c, S, r), r>>]
        BY <1>3, <1>4, <3>2, <3>3, <3>5 DEF Put
      <4>2. QED
        BY <2>1, <4>1
    <3>6. QED
      BY <3>4, <3>5
  <2>3. CASE ~(early /\ wb)
    <3>1. d = a
      BY <2>3
    <3>2. QED
      BY <2>1, <3>1
  <2>4. QED
    BY <2>2, <2>3
<1> HIDE DEF d
<1>9. \/ \E r \in list \ {15} : /\ tgt[r].dev = "reset"
                                /\ \E v \in Word : e = mwritew(d, g, tgt[r], v)
      \/ /\ Sound(e, g) /\ e.CPSR = d.CPSR /\ e.SPSR = d.SPSR /\ e.USER = d.USER
         /\ FileOf(e) = FileOf(d) /\ e.pending = d.pending
         /\ \/ e.bus = d.bus
            \/ \E r \in list \ {15} : e.bus = FileOf(d)[<<Own(d, S, r), r>>]
  <2>1. ASSUME NEW ls \in SUBSET Regs, \A r \in ls : tgt[r] \in Target, NEW y,
               y = StoreAll(d, g, ls, S, tgt)
        PROVE  \/ \E r \in ls : /\ tgt[r].dev = "reset"
                                /\ \E v \in Word : y = mwritew(d, g, tgt[r], v)
               \/ /\ Sound(y, g) /\ y.CPSR = d.CPSR /\ y.SPSR = d.SPSR /\ y.USER = d.USER
                  /\ FileOf(y) = FileOf(d) /\ y.pending = d.pending
                  /\ \/ y.bus = d.bus
                     \/ \E r \in ls : y.bus = FileOf(d)[<<Own(d, S, r), r>>]
    BY <1>7, <2>1, StoreAllFacts
  <2>2. QED
    BY <1>3, <2>1
<1> HIDE DEF e
\* A word of R0..R14 resets.
<1>10. CASE \E r \in list \ {15} : /\ tgt[r].dev = "reset"
                                   /\ \E v \in Word : e = mwritew(d, g, tgt[r], v)
  <2>1. PICK r \in list \ {15}, v \in Word : tgt[r].dev = "reset" /\ e = mwritew(d, g, tgt[r], v)
    BY <1>10
  <2>2. e.pending /\ Result(c, e, g) /\ ~e.MAS_Access_Exept
    <3>1. ASSUME NEW t \in Target, t.dev = "reset"
          PROVE  mwritew(d, g, t, v).pending /\ Result(c, mwritew(d, g, t, v), g)
                 /\ ~mwritew(d, g, t, v).MAS_Access_Exept
      BY <1>7, <3>1, StoreStep
    <3>2. QED
      BY <1>3, <2>1, <3>1
  <2>3. k = e
    BY <2>2
  <2>4. QED
    BY <1>1, <2>2, <2>3 DEF a
\* None does: the write-back and the PC's word follow.
<1>11. CASE /\ Sound(e, g) /\ e.CPSR = d.CPSR /\ e.SPSR = d.SPSR /\ e.USER = d.USER
            /\ FileOf(e) = FileOf(d) /\ e.pending = d.pending
            /\ \/ e.bus = d.bus
               \/ \E r \in list \ {15} : e.bus = FileOf(d)[<<Own(d, S, r), r>>]
  <2>1. Touch(c, e, Reach(c, S)) /\ ~e.pending /\ e.USER[15] = Plus(c.USER[15])
        /\ \A r \in Reg : Own(d, S, r) = Own(c, S, r)
    BY <1>7, <1>11 DEF Touch, Own
  <2>2. k = h
    BY <2>1
  <2>3. /\ Sound(f, g) /\ Touch(c, f, Reach(c, S)) /\ f.USER[15] = Plus(c.USER[15])
        /\ f.bus = e.bus /\ ~f.pending
        /\ wb => FileOf(f) = Put(FileOf(e), Own(c, S, rn), rn, b)
    <3> HIDE DEF B
    <3>1. QED
      BY <1>5, <1>11, <2>1
  <2> HIDE DEF f
  <2>4. f.bus = c.bus \/ \E r \in Reg : f.bus \in {FileOf(c)[<<Own(c, S, r), r>>],
                                                   FileOf(f)[<<Own(c, S, r), r>>]}
    <3>1. CASE e.bus = d.bus
      BY <1>7, <2>3, <3>1
    <3>2. CASE \E r \in list \ {15} : e.bus = FileOf(d)[<<Own(d, S, r), r>>]
      <4>1. PICK r \in list \ {15} : e.bus = FileOf(d)[<<Own(c, S, r), r>>]
        BY <1>3, <2>1, <3>2
      <4>2. CASE FileOf(d)[<<Own(c, S, r), r>>] = FileOf(c)[<<Own(c, S, r), r>>]
        BY <1>3, <2>3, <4>1, <4>2
      <4>3. CASE wb /\ Own(c, S, r) = Own(c, S, rn) /\ r = rn /\ FileOf(d)[<<Own(c, S, r), r>>] = b
        <5>1. FileOf(e) \in [Mode \X Reg -> Word]
          BY <1>11, FileType DEF Sound
        <5>2. FileOf(f)[<<Own(c, S, rn), rn>>] = b
          BY <1>3, <1>4, <2>3, <4>3, <5>1 DEF Put
        <5>3. QED
          BY <1>3, <2>3, <4>1, <4>3, <5>2
      <4>4. QED
        BY <1>8, <4>2, <4>3
    <3>3. QED
      BY <1>11, <3>1, <3>2
  <2>5. CASE 15 \notin list
    <3>1. h = f
      BY <2>5
    <3>2. CASE f.MAS_Access_Exept
      <4>1. Result(c, arm_data_abort(f), g)
        BY <2>3, StoreAborts
      <4>2. QED
        BY <1>1, <2>2, <3>1, <3>2, <4>1 DEF a
    <3>3. CASE ~f.MAS_Access_Exept
      <4>1. Result(c, f, g)
        BY <2>3, <2>4, <3>3, EndTransfer
      <4>2. QED
        BY <1>1, <2>2, <3>1, <3>3, <4>1 DEF a
    <3>4. QED
      BY <3>2, <3>3
  <2>6. CASE 15 \in list
    <3>1. h = mwritew(f, g, tgt[15], pcv) /\ tgt[15] \in Target
      BY <2>6
    <3>2. pcv = (Plus(c.USER[15]) + 2) % Words /\ pcv \in Word
      BY <1>2, <1>3, <2>3, CoreFields, WordFacts
    <3> HIDE DEF h, k, pcv
    <3>3. ASSUME NEW t \in Target, NEW x, x = mwritew(f, g, t, pcv)
          PROVE  /\ t.dev = "reset" => x.pending /\ Result(c, x, g) /\ ~x.MAS_Access_Exept
                 /\ t.dev # "reset" => /\ Sound(x, g) /\ ~x.pending /\ Touch(c, x, Reach(c, S))
                                       /\ x.bus \in {f.bus, pcv} /\ FileOf(x) = FileOf(f)
      BY <2>3, <3>2, <3>3, StoreStep
    <3>4. CASE tgt[15].dev = "reset"
      <4>1. Result(c, h, g) /\ ~h.MAS_Access_Exept
        BY <3>1, <3>3, <3>4
      <4>2. QED
        BY <1>1, <2>2, <4>1 DEF a
    <3>5. CASE tgt[15].dev # "reset"
      <4>1. /\ Sound(h, g) /\ ~h.pending /\ Touch(c, h, Reach(c, S))
            /\ h.bus \in {f.bus, pcv} /\ FileOf(h) = FileOf(f)
        BY <3>1, <3>3, <3>5
      <4>2. CASE h.MAS_Access_Exept
        <5>1. Result(c, arm_data_abort(h), g)
          BY <4>1, StoreAborts
        <5>2. QED
          BY <1>1, <2>2, <4>2, <5>1 DEF a
      <4>3. CASE ~h.MAS_Access_Exept
        <5>1. Result(c, h, g)
          BY <2>4, <3>2, <4>1, <4>3, EndTransfer
        <5>2. QED
          BY <1>1, <2>2, <4>3, <5>1 DEF a
      <4>4. QED
        BY <4>2, <4>3
    <3>6. QED
      BY <3>4, <3>5
  <2>7. QED
    BY <2>5, <2>6
<1>12. QED
  BY <1>9, <1>10, <1>11

-----------------------------------------------------------------------------
(* The specification.                                                      *)

\* The inductive invariant: between instructions the core is Ready; after one it
\* is but for a pending reset.  A saved core needs no map: the load makes one.
IInv ==
  /\ cfg \in Configs /\ at \in {"fetch", "done"} /\ insns \in 0..MaxInsns /\ life \in BOOLEAN
  /\ slot \in [cpu : Core, cfg : Configs] /\ Settled(slot.cpu)
  /\ Sound(cpu, cfg) /\ ~cpu.MAS_Access_Exept
  /\ at = "fetch" => ~cpu.pending

\* The invariant gives the two that are checked.
LEMMA IInvImplies ==
  ASSUME IInv
  PROVE  TypeOK /\ MapAgrees
<1> DEFINE x == [cpu EXCEPT !.pending = @ /\ at = "fetch"]
<1>1. cpu \in Core /\ MapOf(cpu, cfg)
  BY DEF IInv, Sound
<1>2. x.MAS_Access_Exept = cpu.MAS_Access_Exept /\ x.SPSR = cpu.SPSR
      /\ x.pending = (cpu.pending /\ at = "fetch")
  BY <1>1 DEF Core
<1>3. Settled(x)
  BY <1>2 DEF Settled, IInv, Sound
<1>4. QED
  BY <1>1, <1>3 DEF IInv, TypeOK, MapAgrees

\* A core at power-on.
LEMMA PowerOnFacts ==
  ASSUME NEW spsr \in [Mode -> Psr], spsr["user"].mode = "user", NEW g \in Configs
  PROVE  Ready(PowerOn(spsr, g), g)
<1> DEFINE c == [USER |-> [r \in Reg |-> 0], bank |-> [m \in Mode |-> [r \in High |-> 0]],
                 SPSR |-> spsr, CPSR |-> [mode |-> "svc", F |-> TRUE],
                 MAS_Access_Exept |-> FALSE, pending |-> FALSE, bus |-> 0,
                 overlay |-> TRUE, direct |-> 0, low |-> TRUE, clear |-> 0]
           d == set_rom_overlay(c, g, TRUE)
<1>1. PowerOn(spsr, g) = d
  BY DEF PowerOn
<1>2. c \in Core /\ c.SPSR = spsr /\ ~c.MAS_Access_Exept /\ ~c.pending
  <2>1. [r \in Reg |-> 0] \in [Reg -> Word] /\ [r \in High |-> 0] \in [High -> Word] /\ 0 \in Word
    BY WordFacts
  <2>2. [m \in Mode |-> [r \in High |-> 0]] \in [Mode -> [High -> Word]]
    BY <2>1
  <2>3. [mode |-> "svc", F |-> TRUE] \in Psr
    BY DEF Psr, Mode
  <2>4. QED
    BY <2>1, <2>2, <2>3 DEF Core
<1> HIDE DEF c
<1>3. d \in Core /\ MapOf(d, g) /\ d.SPSR = c.SPSR /\ d.pending = c.pending
      /\ d.MAS_Access_Exept = c.MAS_Access_Exept
  BY <1>2, OverlayFacts
<1>4. QED
  BY <1>1, <1>2, <1>3 DEF Ready, Sound

\* A core maps to a state of the flat file.
LEMMA StateType ==
  ASSUME NEW c \in Core
  PROVE  StateOf(c) \in Registers!State
<1>1. FileOf(c) \in [Mode \X Reg -> Word] /\ c.CPSR \in Psr /\ c.SPSR \in [Mode -> Psr]
      /\ c.bus \in Word
  BY FileType, CoreFields
<1>2. QED
  BY <1>1, Names DEF StateOf, Registers!State

\* A session starts in the invariant, and the flat file in its own Init.
LEMMA InitIInv ==
  ASSUME Init
  PROVE  IInv /\ Registers!Init
<1>1. ColdSpsr \in [Mode -> Psr] /\ ColdSpsr["user"].mode = "user"
  BY DEF ColdSpsr, Psr, Mode
<1>2. Ready(cpu, cfg) /\ cfg \in Configs
  <2>1. CASE cfg \in Configs /\ cpu = PowerOn(ColdSpsr, cfg)
    BY <1>1, <2>1, PowerOnFacts
  <2>2. CASE \E f \in Files : cfg = f.cfg /\ cpu = f.cpu
    BY <2>2, FilesAssumption DEF Ready, Sound, Settled
  <2>3. QED
    BY <2>1, <2>2 DEF Init
<1>3. PICK g \in Configs : slot = [cpu |-> PowerOn(ColdSpsr, g), cfg |-> g]
  BY DEF Init
<1>4. slot \in [cpu : Core, cfg : Configs] /\ Settled(slot.cpu)
  <2>1. Ready(PowerOn(ColdSpsr, g), g)
    BY <1>1, PowerOnFacts
  <2>2. QED
    BY <1>3, <2>1 DEF Ready, Sound, Settled
<1>5. IInv
  <2>1. at = "fetch" /\ insns = 0 /\ life = FALSE
    BY DEF Init
  <2>2. insns \in 0..MaxInsns
    BY <2>1, MaxInsnsAssumption, SMT
  <2>3. life \in BOOLEAN /\ at \in {"fetch", "done"}
    BY <2>1, Zenon
  <2>4. QED
    BY <1>2, <1>4, <2>2, <2>3 DEF IInv, Ready
<1>6. StateOf(cpu) \in Registers!State /\ life = FALSE
  BY <1>2, StateType DEF Ready, Sound, Init
<1>7. QED
  BY <1>5, <1>6 DEF Registers!Init

\* What every step does to the core: nothing the guest can see, a step of the
\* flat file, or a core replaced as a whole; a reset that becomes pending hands
\* the interrupted state over.
Moves ==
  /\ \/ life' = life /\ (StateOf(cpu') = StateOf(cpu) \/ Registers!Step(StateOf(cpu), StateOf(cpu')))
     \/ life' = ~life /\ cpu' \in Core
  /\ cpu'.pending /\ ~cpu.pending => Handed(cpu, cpu')

\* An instruction whose result is known keeps the invariant.
LEMMA InsnStep ==
  ASSUME IInv, NEW c, Insn(c), Ready(cpu, cfg) => Result(cpu, c, cfg)
  PROVE  IInv' /\ Moves
<1>1. Ready(cpu, cfg) /\ cpu' = c /\ cfg' = cfg /\ slot' = slot /\ life' = life /\ at' = "done"
      /\ insns' \in 0..MaxInsns
  BY MaxInsnsAssumption DEF Insn, IInv, Ready
<1>2. Sound(cpu', cfg') /\ ~cpu'.MAS_Access_Exept
  BY <1>1 DEF Result
<1>3. IInv'
  BY <1>1, <1>2 DEF IInv
<1>4. QED
  BY <1>1, <1>3 DEF Result, Moves

\* The end of an instruction: the reset is acknowledged, or FIQ taken.
LEMMA AfterSwitchStep ==
  ASSUME IInv, AfterSwitch
  PROVE  IInv' /\ Moves
<1>1. at = "done" /\ at' = "fetch" /\ cfg' = cfg /\ slot' = slot /\ insns' = insns /\ life' = life
  BY DEF AfterSwitch
<1>2. cpu \in Core /\ Sound(cpu, cfg) /\ ~cpu.MAS_Access_Exept /\ MapOf(cpu, cfg)
  BY DEF IInv, Sound
<1>3. SUFFICES Sound(cpu', cfg) /\ ~cpu'.MAS_Access_Exept /\ ~cpu'.pending
               /\ (StateOf(cpu') = StateOf(cpu) \/ Registers!Step(StateOf(cpu), StateOf(cpu')))
  BY <1>1 DEF IInv, Moves
<1>4. CASE cpu.pending
  <2> DEFINE d == [cpu EXCEPT !.pending = FALSE]
  <2>1. cpu' = d
    BY <1>4 DEF AfterSwitch
  <2>2. d \in Core /\ MapOf(d, cfg) /\ d.USER = cpu.USER /\ d.bank = cpu.bank /\ d.CPSR = cpu.CPSR
        /\ d.SPSR = cpu.SPSR /\ d.bus = cpu.bus /\ ~d.pending
        /\ d.MAS_Access_Exept = cpu.MAS_Access_Exept
    BY <1>2 DEF Core, MapOf
  <2> HIDE DEF d
  <2>3. FileOf(d) = FileOf(cpu)
    BY <1>2, <2>2, FileSame
  <2>4. StateOf(d) = StateOf(cpu)
    BY <2>2, <2>3 DEF StateOf
  <2>5. QED
    BY <1>2, <2>1, <2>2, <2>4 DEF Sound
<1>5. CASE ~cpu.pending /\ cpu' = cpu
  BY <1>2, <1>5
<1>6. CASE ~cpu.pending /\ cpu' = Exception(cpu, "fiq", TRUE, Plus(cpu.USER[15]), 7)
  <2>1. Ready(cpu, cfg) /\ Op(cpu, cpu, cfg, {<<"user", 15>>}) /\ Plus(cpu.USER[15]) \in Word
        /\ 7 \in Word /\ Registers!Vector["fiq"] = 7
    BY <1>2, <1>6, OpRefl, CoreFields, WordFacts, Subsets DEF Ready, Registers!Vector
  <2>2. ASSUME NEW m \in {"svc", "und", "fiq"}, m = "fiq", NEW F \in BOOLEAN, F,
               NEW vec \in Word, vec = Registers!Vector[m], NEW x,
               x = Exception(cpu, m, F, Plus(cpu.USER[15]), vec)
        PROVE  Result(cpu, x, cfg) /\ ~x.pending
    <3>1. F = (IF m = "fiq" THEN TRUE ELSE cpu.CPSR.F)
      BY <2>2
    <3>2. QED
      BY <2>1, <2>2, <3>1, EndException
  <2>3. Result(cpu, cpu', cfg) /\ ~cpu'.pending
    BY <1>6, <2>1, <2>2
  <2>4. QED
    BY <2>3 DEF Result
<1>7. QED
  BY <1>4, <1>5, <1>6 DEF AfterSwitch

\* Power-on.
LEMMA InitStep ==
  ASSUME IInv, opera_arm_init
  PROVE  IInv' /\ Moves
<1> DEFINE c == PowerOn(cpu.SPSR, cfg)
           d == [c EXCEPT !.bus = cpu.bus]
<1>1. cpu \in Core /\ cpu.SPSR \in [Mode -> Psr] /\ cpu.SPSR["user"].mode = "user"
      /\ cpu.bus \in Word /\ cfg \in Configs
  BY CoreFields DEF IInv, Sound
<1>2. Ready(c, cfg)
  BY <1>1, PowerOnFacts
<1> HIDE DEF c
<1>3. d \in Core /\ MapOf(d, cfg) /\ d.SPSR = c.SPSR /\ d.pending = c.pending
      /\ d.MAS_Access_Exept = c.MAS_Access_Exept
  BY <1>1, <1>2 DEF Ready, Sound, Core, MapOf
<1>4. Sound(d, cfg) /\ ~d.pending /\ ~d.MAS_Access_Exept
  BY <1>2, <1>3 DEF Ready, Sound
<1>5. cpu' = d /\ cfg' = cfg /\ at' = at /\ slot' = slot /\ life' = ~life /\ insns' \in 0..MaxInsns
  BY MaxInsnsAssumption DEF opera_arm_init, IInv, c
<1> HIDE DEF d
<1>6. QED
  BY <1>3, <1>4, <1>5 DEF IInv, Moves

\* Saving.
LEMMA SaveStep ==
  ASSUME IInv, opera_arm_state_save
  PROVE  IInv' /\ Moves
<1>1. cpu \in Core /\ cfg \in Configs /\ Settled(cpu)
  BY DEF IInv, Sound, Settled, opera_arm_state_save
<1>2. slot' \in [cpu : Core, cfg : Configs] /\ Settled(slot'.cpu)
  BY <1>1 DEF opera_arm_state_save
<1>3. cpu' = cpu /\ cfg' = cfg /\ at' = at /\ life' = life /\ insns' \in 0..MaxInsns
  BY MaxInsnsAssumption DEF opera_arm_state_save, IInv
<1>4. QED
  BY <1>2, <1>3 DEF IInv, Moves

\* Loading, across memory configurations.
LEMMA LoadStep ==
  ASSUME IInv, opera_3do_state_load
  PROVE  IInv' /\ Moves
<1>1. PICK old \in BOOLEAN :
        cpu' = opera_arm_sync_memory_map(
                 set_rom_overlay([slot.cpu EXCEPT !.bus = cpu.bus], cfg, ~old /\ slot.cpu.overlay),
                 slot.cfg)
  BY DEF opera_3do_state_load
<1> DEFINE b == [slot.cpu EXCEPT !.bus = cpu.bus]
           on == ~old /\ slot.cpu.overlay
           c == set_rom_overlay(b, cfg, on)
           d == set_rom_overlay(c, slot.cfg, c.overlay)
<1>2. slot.cpu \in Core /\ slot.cfg \in Configs /\ Settled(slot.cpu) /\ cpu.bus \in Word
      /\ cfg \in Configs
  BY CoreFields DEF IInv, Sound
<1>3. b \in Core /\ ~b.MAS_Access_Exept /\ ~b.pending /\ b.SPSR["user"].mode = "user"
  BY <1>2 DEF Settled, Core
<1>4. on \in BOOLEAN
  OBVIOUS
<1>5. cpu' = d
  BY <1>1 DEF opera_arm_sync_memory_map
<1> HIDE DEF b, on
<1>6. c \in Core /\ c.SPSR = b.SPSR /\ c.pending = b.pending
      /\ c.MAS_Access_Exept = b.MAS_Access_Exept
  BY <1>2, <1>3, <1>4, OverlayFacts
<1> HIDE DEF c
<1>7. d \in Core /\ MapOf(d, slot.cfg) /\ d.SPSR = c.SPSR /\ d.pending = c.pending
      /\ d.MAS_Access_Exept = c.MAS_Access_Exept
  <2>1. ASSUME NEW o \in BOOLEAN, NEW g \in Configs, NEW x, x = set_rom_overlay(c, g, o)
        PROVE  /\ x \in Core /\ MapOf(x, g) /\ x.SPSR = c.SPSR /\ x.pending = c.pending
               /\ x.MAS_Access_Exept = c.MAS_Access_Exept
    BY <1>6, <2>1, OverlayFacts
  <2>2. c.overlay \in BOOLEAN
    BY <1>6, CoreFields
  <2>3. QED
    BY <1>2, <2>1, <2>2
<1> HIDE DEF d
<1>8. Sound(cpu', slot.cfg) /\ ~cpu'.MAS_Access_Exept /\ ~cpu'.pending
  BY <1>3, <1>5, <1>6, <1>7 DEF Sound
<1>9. cfg' = slot.cfg /\ at' = at /\ slot' = slot /\ life' = ~life /\ insns' \in 0..MaxInsns
  BY MaxInsnsAssumption DEF opera_3do_state_load, IInv
<1>10. QED
  BY <1>2, <1>8, <1>9 DEF IInv, Moves, Sound

\* Every step, action by action.
LEMMA NextStep ==
  ASSUME IInv, [Next]_vars
  PROVE  IInv' /\ Moves
<1>0. Fetched = Advanced(cpu) /\ cfg \in Configs /\ Data \subseteq Word
  BY WordFacts DEF Fetched, Advanced, IInv
<1>1. CASE Simple
  <2>1. CASE Insn(Fetched)
    BY <1>0, <2>1, NopResult, InsnStep
  <2>2. CASE \E v \in Data, rd \in Reg : Insn(Compute(Fetched, rd, v))
    <3>1. PICK v \in Data, rd \in Reg : Insn(Compute(Fetched, rd, v))
      BY <2>2
    <3>2. Ready(cpu, cfg) => Result(cpu, Compute(Fetched, rd, v), cfg)
      BY <1>0, ComputeResult
    <3>3. QED
      BY <3>1, <3>2, InsnStep
  <2>3. CASE \E v \in Data : Insn(BranchLink(Fetched, v))
    <3>1. PICK v \in Data : Insn(BranchLink(Fetched, v))
      BY <2>3
    <3>2. Ready(cpu, cfg) => Result(cpu, BranchLink(Fetched, v), cfg)
      BY <1>0, BranchResult
    <3>3. QED
      BY <3>1, <3>2, InsnStep
  <2>4. CASE \E v \in Data : Insn(ReturnTo(Fetched, v))
    <3>1. PICK v \in Data : Insn(ReturnTo(Fetched, v))
      BY <2>4
    <3>2. Ready(cpu, cfg) => Result(cpu, ReturnTo(Fetched, v), cfg)
      BY <1>0, ReturnResult
    <3>3. QED
      BY <3>1, <3>2, InsnStep
  <2>5. CASE \E p \in GuestPsr : Insn(MsrCpsr(Fetched, p))
    <3>1. PICK p \in GuestPsr : Insn(MsrCpsr(Fetched, p))
      BY <2>5
    <3>2. Ready(cpu, cfg) => Result(cpu, MsrCpsr(Fetched, p), cfg)
      BY <1>0, GuestAssumption, MsrCpsrResult
    <3>3. QED
      BY <3>1, <3>2, InsnStep
  <2>6. CASE \E p \in GuestPsr : Insn(MsrSpsr(Fetched, p))
    <3>1. PICK p \in GuestPsr : Insn(MsrSpsr(Fetched, p))
      BY <2>6
    <3>2. Ready(cpu, cfg) => Result(cpu, MsrSpsr(Fetched, p), cfg)
      BY <1>0, GuestAssumption, MsrSpsrResult
    <3>3. QED
      BY <3>1, <3>2, InsnStep
  <2>7. CASE Insn(decode_swi_lle(Fetched)) \/ Insn(Undefine(Fetched))
    BY <1>0, <2>7, SwiResult, InsnStep
  <2>8. QED
    BY <1>1, <2>1, <2>2, <2>3, <2>4, <2>5, <2>6, <2>7 DEF Simple
<1>2. CASE Single
  <2>1. PICK rn \in Bases, rd \in Reg, wb \in BOOLEAN, b \in Data, usr \in BOOLEAN :
          \/ \E v \in Data, absent \in BOOLEAN : Insn(Ldr(Fetched, rn, wb, b, rd, usr, v, absent))
          \/ \E ahead \in {1, 2}, t \in Target : Insn(Str(Fetched, cfg, rn, wb, b, rd, usr, ahead, t))
    BY <1>2 DEF Single
  <2>2. rn \in Regs /\ rn \in Reg /\ b \in Word
    BY <1>0, GuestAssumption DEF Reg
  <2>3. CASE \E v \in Data, absent \in BOOLEAN : Insn(Ldr(Fetched, rn, wb, b, rd, usr, v, absent))
    <3>1. PICK v \in Data, absent \in BOOLEAN : Insn(Ldr(Fetched, rn, wb, b, rd, usr, v, absent))
      BY <2>3
    <3>2. Ready(cpu, cfg) => Result(cpu, Ldr(Fetched, rn, wb, b, rd, usr, v, absent), cfg)
      BY <1>0, <2>2, LdrResult
    <3>3. QED
      BY <3>1, <3>2, InsnStep
  <2>4. CASE \E ahead \in {1, 2}, t \in Target :
               Insn(Str(Fetched, cfg, rn, wb, b, rd, usr, ahead, t))
    <3>1. PICK ahead \in {1, 2}, t \in Target : Insn(Str(Fetched, cfg, rn, wb, b, rd, usr, ahead, t))
      BY <2>4
    <3>2. Ready(cpu, cfg) => Result(cpu, Str(Fetched, cfg, rn, wb, b, rd, usr, ahead, t), cfg)
      BY <1>0, <2>2, StrResult
    <3>3. QED
      BY <3>1, <3>2, InsnStep
  <2>5. QED
    BY <2>1, <2>3, <2>4
<1>3. CASE Swap
  <2>1. PICK rd \in Regs, rm \in Regs, v \in Data, t \in Target :
          Insn(ARM_SWAP(Fetched, cfg, rd, rm, v, t))
    BY <1>3 DEF Swap
  <2>2. Ready(cpu, cfg) => Result(cpu, ARM_SWAP(Fetched, cfg, rd, rm, v, t), cfg)
    BY <1>0, SwapResult
  <2>3. QED
    BY <2>1, <2>2, InsnStep
<1>4. CASE bdt_core
  <2>1. PICK rn \in Bases, wb \in BOOLEAN, b \in Data, S \in BOOLEAN, list \in Lists :
          \/ \E v \in [list -> Data], absent \in BOOLEAN :
               Insn(ldm_accur(Fetched, rn, wb, b, list, S, v, absent))
          \/ \E tgt \in [list -> Target] : Insn(stm_accur(Fetched, cfg, rn, wb, b, list, S, tgt))
    BY <1>4 DEF bdt_core
  <2>2. rn \in Regs /\ b \in Word /\ list \in SUBSET Reg
    BY <1>0, GuestAssumption, ListsAssumption DEF Reg
  <2>3. CASE \E v \in [list -> Data], absent \in BOOLEAN :
               Insn(ldm_accur(Fetched, rn, wb, b, list, S, v, absent))
    <3>1. PICK v \in [list -> Data], absent \in BOOLEAN :
            Insn(ldm_accur(Fetched, rn, wb, b, list, S, v, absent))
      BY <2>3
    <3>2. v \in [list -> Word]
      BY <1>0
    <3>3. Ready(cpu, cfg) => Result(cpu, ldm_accur(Fetched, rn, wb, b, list, S, v, absent), cfg)
      BY <1>0, <2>2, <3>2, LdmResult
    <3>4. QED
      BY <3>1, <3>3, InsnStep
  <2>4. CASE \E tgt \in [list -> Target] : Insn(stm_accur(Fetched, cfg, rn, wb, b, list, S, tgt))
    <3>1. PICK tgt \in [list -> Target] : Insn(stm_accur(Fetched, cfg, rn, wb, b, list, S, tgt))
      BY <2>4
    <3>2. Ready(cpu, cfg) => Result(cpu, stm_accur(Fetched, cfg, rn, wb, b, list, S, tgt), cfg)
      BY <1>0, <2>2, StmResult
    <3>3. QED
      BY <3>1, <3>2, InsnStep
  <2>5. QED
    BY <2>1, <2>3, <2>4
<1>5. CASE Bounded \/ UNCHANGED vars
  <2>1. UNCHANGED vars
    BY <1>5 DEF Bounded
  <2>2. QED
    BY <2>1 DEF vars, IInv, Moves
<1>6. QED
  BY <1>1, <1>2, <1>3, <1>4, <1>5, AfterSwitchStep, InitStep, SaveStep, LoadStep DEF Next

\* The invariant holds in every state.
LEMMA Inductive == Spec => []IInv
<1>1. Init => IInv
  BY InitIInv
<1>2. IInv /\ [Next]_vars => IInv'
  BY NextStep
<1>3. QED
  BY <1>1, <1>2, PTL DEF Spec

\* Every value of the core stays in its type; between instructions no abort and
\* no reset is left over, and no instruction has made the user's SPSR name
\* another mode (arm_data_abort, opera_arm_execute, ARM_ALU_Exec).
THEOREM TypeCorrect == Spec => []TypeOK
<1>1. IInv => TypeOK
  BY IInvImplies
<1>2. QED
  BY <1>1, Inductive, PTL

\* The cached limits of the memory paths agree with the overlay flag and the
\* memory configuration, for every pair of configurations a load may cross
\* (set_rom_overlay, opera_arm_sync_memory_map).
THEOREM MapIsTrue == Spec => []MapAgrees
<1>1. IInv => MapAgrees
  BY IInvImplies
<1>2. QED
  BY <1>1, Inductive, PTL

\* A store that resets, single, multiple or swap, in any mode and with any list
\* and base, hands the interrupted CPSR and PC to the reset vector
\* (opera_arm_soft_reset, stm_accur, ARM_SWAP).
THEOREM ResetKeepsItsWord == Spec => ResetHandsOver
<1>1. IInv /\ [Next]_vars =>
        [cpu'.pending /\ ~cpu.pending =>
           /\ cpu'.SPSR["svc"] = cpu.CPSR /\ cpu'.CPSR = [mode |-> "svc", F |-> TRUE]
           /\ cpu'.USER[14] = Plus(cpu.USER[15]) /\ cpu'.USER[15] = 0
           /\ cpu'.overlay]_vars
  BY NextStep DEF Moves, Handed
<1>2. QED
  BY <1>1, Inductive, PTL DEF Spec, ResetHandsOver

\* What the flat file allows a user: only an exception leaves user mode.
LEMMA Confined ==
  ASSUME NEW c, NEW d, NEW g, Sound(c, g), d \in Core, Registers!Step(StateOf(c), StateOf(d)),
         c.CPSR.mode = "user", d.CPSR.mode # "user"
  PROVE  d.USER[15] \in {0, 1, 2, 4, 7} /\ d.SPSR[d.CPSR.mode] = c.CPSR
<1> DEFINE s == StateOf(c)
           t == StateOf(d)
<1>1. s.psr = c.CPSR /\ s.spsr = c.SPSR /\ t.psr = d.CPSR /\ t.spsr = d.SPSR
      /\ t.file[Registers!PC] = d.USER[15]
  BY StateFields, Names, PcOfFile
<1>2. c.SPSR \in [Mode -> Psr] /\ c.SPSR["user"].mode = "user"
  BY CoreFields DEF Sound
<1> HIDE DEF s, t
<1>3. Registers!Exception(s, t) \/ Registers!Abort(s, t) \/ Registers!Reset(s, t)
  <2>1. ~Registers!Compute(s, t) /\ ~Registers!UserTransfer(s, t) /\ ~Registers!WriteSpsr(s, t)
    BY <1>1 DEF Registers!Compute, Registers!UserTransfer, Registers!WriteSpsr
  <2>2. ~Registers!WritePsr(s, t) /\ ~Registers!LoadReturn(s, t)
    BY <1>1, <1>2 DEF Registers!WritePsr, Registers!LoadReturn
  <2>3. QED
    BY <2>1, <2>2 DEF Registers!Step, s, t
<1>4. CASE Registers!Exception(s, t)
  <2>1. PICK m \in {"svc", "und", "fiq"} : Registers!Enter(s, t, m, s.psr)
    BY <1>4 DEF Registers!Exception
  <2>2. m \in Mode /\ Registers!Vector[m] \in {1, 2, 7}
    BY DEF Mode, Registers!Vector
  <2>3. d.CPSR.mode = m /\ d.SPSR = [c.SPSR EXCEPT ![m] = c.CPSR]
        /\ d.USER[15] = Registers!Vector[m]
    BY <1>1, <2>1 DEF Registers!Enter
  <2>4. QED
    BY <1>2, <2>2, <2>3
<1>5. CASE Registers!Abort(s, t)
  <2>1. Registers!Enter(s, t, "abt", s.psr)
    BY <1>1, <1>5 DEF Registers!Abort
  <2>2. "abt" \in Mode /\ Registers!Vector["abt"] = 4
    BY DEF Mode, Registers!Vector
  <2>3. d.CPSR.mode = "abt" /\ d.SPSR = [c.SPSR EXCEPT !["abt"] = c.CPSR] /\ d.USER[15] = 4
    BY <1>1, <2>1, <2>2 DEF Registers!Enter
  <2>4. QED
    BY <1>2, <2>2, <2>3
<1>6. CASE Registers!Reset(s, t)
  <2>1. d.CPSR.mode = "svc" /\ d.SPSR = [c.SPSR EXCEPT !["svc"] = c.CPSR] /\ d.USER[15] = 0
    BY <1>1, <1>6 DEF Registers!Reset
  <2>2. "svc" \in Mode
    BY DEF Mode
  <2>3. QED
    BY <1>2, <2>1, <2>2
<1>7. QED
  BY <1>3, <1>4, <1>5, <1>6

\* A user reaches a privileged mode only at an exception vector, with its CPSR
\* saved, for every register set and every value MSR may write (ARM_ALU_Exec).
THEOREM UserStaysConfined == Spec => UserConfined
<1>1. ASSUME IInv, [Next]_vars, cpu.CPSR.mode = "user", cpu'.CPSR.mode # "user", life' = life
      PROVE  /\ cpu'.USER[15] \in {0, 1, 2, 4, 7}
             /\ cpu'.SPSR[cpu'.CPSR.mode] = cpu.CPSR
  <2>1. IInv' /\ Moves
    BY <1>1, NextStep
  <2>2. Sound(cpu, cfg) /\ cpu' \in Core /\ life \in BOOLEAN
    BY <1>1, <2>1 DEF IInv, Sound
  <2>3. StateOf(cpu') # StateOf(cpu)
    BY <1>1, StateFields
  <2>4. Registers!Step(StateOf(cpu), StateOf(cpu'))
    BY <1>1, <2>1, <2>2, <2>3 DEF Moves
  <2>5. QED
    BY <1>1, <2>2, <2>4, Confined
<1>2. IInv /\ [Next]_vars =>
        [cpu.CPSR.mode = "user" /\ cpu'.CPSR.mode # "user" /\ life' = life =>
           /\ cpu'.USER[15] \in {0, 1, 2, 4, 7}
           /\ cpu'.SPSR[cpu'.CPSR.mode] = cpu.CPSR]_vars
  BY <1>1
<1>3. QED
  BY <1>2, Inductive, PTL DEF Spec, UserConfined

\* The banked core implements the flat register file: for every set of registers,
\* word size, list, base and memory configuration (ARM_Change_ModeSafe, loadusr,
\* readusr, ldm_accur, stm_accur and the exceptions).
THEOREM BanksImplementFile == Spec => ImplementsRegisters
<1>1. Init => Registers!Init
  BY InitIInv
<1>2. ASSUME IInv, [Next]_vars
      PROVE  [Registers!Next]_<<StateOf(cpu), life>>
  <2>1. IInv' /\ Moves
    BY <1>2, NextStep
  <2>2. life' = ~life /\ cpu' \in Core => StateOf(cpu)' \in Registers!State
    BY StateType
  <2>3. QED
    BY <2>1, <2>2 DEF Moves, Registers!Next
<1>3. IInv /\ [Next]_vars => [Registers!Next]_<<StateOf(cpu), life>>
  BY <1>2
<1>4. QED
  BY <1>1, <1>3, Inductive, PTL DEF Spec, ImplementsRegisters, Registers!Spec
=============================================================================
