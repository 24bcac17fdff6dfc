----------------------------- MODULE VdlpProofs -----------------------------
(***************************************************************************)
(* Proofs about Vdlp: an entry stays for the lines it asks for and shows   *)
(* them in order, the traversal goes on where it was, only the forced      *)
(* transfer cuts an entry short, and the frame is laid out as the frontend *)
(* looks for it.  They hold for every list, every size of the list memory, *)
(* every table of widths and every region.                                 *)
(***************************************************************************)
EXTENDS Vdlp, TLAPS

-----------------------------------------------------------------------------
(* Numbers.                                                                *)

\* Division with remainder.
LEMMA Quotient ==
  ASSUME NEW x \in Nat, NEW m \in Nat, m > 0
  PROVE  x = m * (x \div m) + (x % m)
OBVIOUS

LEMMA QuotientType ==
  ASSUME NEW x \in Nat, NEW m \in Nat, m > 0
  PROVE  x \div m \in Int /\ x % m \in 0..(m - 1)
OBVIOUS

LEMMA Remainder ==
  ASSUME NEW q \in Int, NEW r \in Nat, NEW m \in Nat, m > 0, r < m
  PROVE  (m * q + r) % m = r
OBVIOUS

\* A sum may be reduced before or after.
LEMMA ModAdd ==
  ASSUME NEW x \in Nat, NEW d \in Nat, NEW m \in Nat, m > 0
  PROVE  ((x % m) + d) % m = (x + d) % m
<1> DEFINE q == x \div m
          r == x % m
          p == (r + d) \div m
          s == (r + d) % m
<1>1. x = m * q + r /\ q \in Int /\ r \in Nat
  BY Quotient, QuotientType
<1> HIDE DEF q, r
<1>2. r + d = m * p + s /\ s \in Nat /\ s < m /\ p \in Int
  BY <1>1, Quotient, QuotientType
<1> HIDE DEF p, s
<1>3. x + d = m * (q + p) + s
  BY <1>1, <1>2
<1>4. (x + d) % m = s
  <2>1. q + p \in Int
    BY <1>1, <1>2
  <2>2. (m * (q + p) + s) % m = s
    BY <1>2, <2>1, Remainder
  <2>3. QED
    BY <1>3, <2>2
<1>5. QED
  BY <1>4 DEF s, r

\* Reducing by a multiple of four keeps the remainder by four.
LEMMA Mod4 ==
  ASSUME NEW x \in Nat, NEW m \in Nat, m > 0, m % 4 = 0
  PROVE  (x % m) % 4 = x % 4
<1> DEFINE q == x \div m
          r == x % m
          h == m \div 4
<1>1. x = m * q + r /\ q \in Int /\ r \in Nat
  BY Quotient, QuotientType
<1>2. m = 4 * h /\ h \in Int
  OBVIOUS
<1> HIDE DEF q, r, h
<1>3. x = 4 * (h * q) + r /\ h * q \in Int
  BY <1>1, <1>2
<1> DEFINE z == h * q
<1> HIDE DEF z
<1>4. x = 4 * z + r /\ z \in Int
  BY <1>3 DEF z
<1>5. x % 4 = r % 4
  BY <1>1, <1>4
<1>6. QED
  BY <1>5 DEF r

\* The bit that tells the halves of a pair apart.
LEMMA Half ==
  ASSUME NEW x \in Nat
  PROVE  (x \div 2) % 2 = IF x % 4 \in {2, 3} THEN 1 ELSE 0
OBVIOUS

\* Line k of a bitmap at b with rows of two lines of l words.
Place(b, k, l) == (b + (k \div 2) * 4 * l + 2 * (k % 2)) % Bitmaps

\* A tick moves from line k of a bitmap to line k + 1.
LEMMA NextPlace ==
  ASSUME NEW b \in Bitmap, NEW k \in Nat, NEW v, LineWidth(v) \in Nat, LineWidth(v) > 0,
         (b \div 2) % 2 = 0
  PROVE  tick_fba(v, Place(b, k, LineWidth(v))) = Place(b, k + 1, LineWidth(v))
<1> DEFINE l == LineWidth(v)
           h == k \div 2
           o == k % 2
           z == h * l
           x == b + 4 * z + 2 * o
           f == Place(b, k, l)
<1>1. Bitmaps \in Nat /\ Bitmaps > 0 /\ Bitmaps % 4 = 0 /\ b \in Nat
  BY BitmapsAssumption DEF Bitmap
<1>2. h \in Nat /\ o \in {0, 1} /\ k = 2 * h + o
  OBVIOUS
<1>3. \/ o = 0 /\ (k + 1) \div 2 = h /\ (k + 1) % 2 = 1
      \/ o = 1 /\ (k + 1) \div 2 = h + 1 /\ (k + 1) % 2 = 0
  OBVIOUS
<1>4. l \in Nat /\ l > 0
  OBVIOUS
<1> HIDE DEF h, o, l
<1>5. z \in Nat /\ h * 4 * l = 4 * z /\ (h + 1) * 4 * l = 4 * z + 4 * l
  BY <1>2, <1>4
<1> HIDE DEF z
<1>6. f = x % Bitmaps
  BY <1>5 DEF Place, h, o
<1>7. x \in Nat /\ x % 4 = (b % 4) + 2 * o
  <2>1. b % 4 \in {0, 1}
    BY <1>1, Half
  <2>2. QED
    BY <1>1, <1>2, <1>5, <2>1
<1> HIDE DEF x
<1>8. f \in Nat /\ f % 4 = x % 4
  BY <1>1, <1>6, <1>7, Mod4, QuotientType
<1> HIDE DEF f
<1>9. (f \div 2) % 2 = o
  <2>1. b % 4 \in {0, 1}
    BY <1>1, Half
  <2>2. (f \div 2) % 2 = IF f % 4 \in {2, 3} THEN 1 ELSE 0
    BY <1>8, Half
  <2>3. f % 4 = (b % 4) + 2 * o
    BY <1>7, <1>8
  <2> DEFINE c == f % 4
             g == b % 4
  <2> HIDE DEF c, g
  <2>4. c = g + 2 * o /\ g \in {0, 1}
    BY <2>1, <2>3 DEF c, g
  <2>5. (IF c \in {2, 3} THEN 1 ELSE 0) = o
    BY <1>2, <2>4
  <2>6. QED
    BY <2>2, <2>5 DEF c
<1>10. CASE o = 0
  <2>1. tick_fba(v, f) = (f + 2) % Bitmaps
    BY <1>9, <1>10 DEF tick_fba
  <2>2. (f + 2) % Bitmaps = (x + 2) % Bitmaps
    BY <1>1, <1>6, <1>7, ModAdd
  <2>3. Place(b, k + 1, l) = (b + h * 4 * l + 2) % Bitmaps
    BY <1>3, <1>10 DEF Place
  <2>4. x + 2 = b + h * 4 * l + 2
    BY <1>1, <1>5, <1>10 DEF x
  <2>5. tick_fba(v, f) = Place(b, k + 1, l)
    BY <2>1, <2>2, <2>3, <2>4
  <2>6. QED
    BY <2>5 DEF f, l
<1>11. CASE o = 1
  <2>1. tick_fba(v, f) = (f + (4 * l - 2)) % Bitmaps
    BY <1>9, <1>11 DEF tick_fba, l
  <2> DEFINE d == 4 * l - 2
  <2>d. d \in Nat
    BY <1>4
  <2> HIDE DEF d
  <2>s. (f + d) % Bitmaps = (x + d) % Bitmaps
    BY <2>d, <1>1, <1>6, <1>7, ModAdd
  <2>2. (f + (4 * l - 2)) % Bitmaps = (x + (4 * l - 2)) % Bitmaps
    BY <2>s DEF d
  <2>3. Place(b, k + 1, l) = (b + (h + 1) * 4 * l + 0) % Bitmaps
    BY <1>3, <1>11 DEF Place
  <2>4. x + (4 * l - 2) = b + (h + 1) * 4 * l + 0
    BY <1>1, <1>4, <1>5, <1>11 DEF x
  <2>5. tick_fba(v, f) = Place(b, k + 1, l)
    BY <2>1, <2>2, <2>3, <2>4
  <2>6. QED
    BY <2>5 DEF f, l
<1>12. QED
  BY <1>2, <1>10, <1>11

-----------------------------------------------------------------------------
(* The list.                                                               *)

\* g_VDLP's fields are of their types.
Regs(v) ==
  /\ DOMAIN v = DOMAIN Cleared
  /\ v.force_line \in Nat /\ v.next_vdl \in Nat /\ v.curr_vdl \in Nat
  /\ v.prev_bmp \in Bitmap /\ v.curr_bmp \in Bitmap /\ v.line_cnt \in Nat
  /\ v.clut_ctrl \in ClutCtrl

Switches == [clut : BOOLEAN, video : BOOLEAN]
Memory == [0..(Blocks - 1) -> Entries]

\* The registers v belong to an entry fetched a lines ago that began at bitmap
\* address b, f says whether the list could run since, and d is its successor.
\* Before the first fetch the cleared registers are such an entry, of no lines.
Belongs(v, a, b, f, d) ==
  /\ Regs(v) /\ a \in Nat /\ b \in Bitmap /\ f \in BOOLEAN
  /\ v.next_vdl = d
  /\ v.line_cnt = IF a < v.clut_ctrl.persist_len THEN v.clut_ctrl.persist_len - a ELSE 0
  /\ f /\ v.clut_ctrl.persist_len # 0 => a <= v.clut_ctrl.persist_len
  /\ (b \div 2) % 2 = 0 => v.curr_bmp = Place(b, a, LineWidth(v))

\* The table of widths.
LEMMA WidthType ==
  ASSUME NEW v, Regs(v)
  PROVE  LineWidth(v) \in Nat /\ LineWidth(v) > 0
<1>1. v.clut_ctrl.fba_incr_modulo \in Modulo
  BY DEF Regs, ClutCtrl
<1>2. QED
  BY <1>1, BitmapsAssumption DEF LineWidth

LEMMA TickType ==
  ASSUME NEW v, Regs(v), NEW a \in Bitmap
  PROVE  tick_fba(v, a) \in Bitmap
<1> DEFINE x == a + IF (a \div 2) % 2 = 1 THEN 4 * LineWidth(v) - 2 ELSE 2
<1>1. Bitmaps \in Nat /\ Bitmaps > 0
  BY BitmapsAssumption
<1>2. x \in Nat
  BY WidthType DEF Bitmap
<1>3. tick_fba(v, a) = x % Bitmaps
  BY DEF tick_fba
<1> HIDE DEF x
<1>4. QED
  BY <1>1, <1>2, <1>3, QuotientType DEF Bitmap

\* A block of VRAM holds an entry.
LEMMA ReadEntry ==
  ASSUME vram \in Memory, NEW a \in Nat
  PROVE  vram_read(a) \in Entry
<1>1. Blocks \in Nat /\ Blocks > 0 /\ Entries \subseteq Entry
  BY ListAssumption
<1>2. a % Blocks \in 0..(Blocks - 1)
  BY <1>1, QuotientType
<1>3. QED
  BY <1>1, <1>2 DEF vram_read, Memory

\* What a fetch does.
LEMMA Fetch ==
  ASSUME NEW v, Regs(v), v.next_vdl # 0, vram \in Memory
  PROVE  LET e == vram_read(v.next_vdl)
             w == vdlp_process_vdl_entry(v)
         IN  /\ e \in Entry /\ Regs(w) /\ w.clut_ctrl = e.ctrl /\ w.line_cnt = e.ctrl.persist_len
             /\ w.next_vdl = e.next + IF e.next_vdl_addr_rel THEN v.next_vdl + 1 ELSE 0
             /\ w.force_line = v.force_line
<1> DEFINE e == vram_read(v.next_vdl)
           u == [v EXCEPT !.clut_ctrl = e.ctrl,
                          !.curr_bmp = IF e.curr_fba_override THEN e.curr ELSE @,
                          !.prev_bmp = IF e.prev_fba_override THEN e.prev ELSE @,
                          !.curr_vdl = v.next_vdl + 1]
           t == vdlp_process_optional_cmds(u, e.words)
           n == e.next + (IF e.next_vdl_addr_rel THEN v.next_vdl + 1 ELSE 0)
           w == [t EXCEPT !.next_vdl = n, !.line_cnt = e.ctrl.persist_len]
<1>1. vdlp_process_vdl_entry(v) = w
  BY DEF vdlp_process_vdl_entry
<1>2. e \in Entry
  BY ReadEntry DEF Regs
<1>3. /\ e.ctrl \in ClutCtrl /\ e.curr \in Bitmap /\ e.prev \in Bitmap /\ e.next \in Nat
      /\ e.next_vdl_addr_rel \in BOOLEAN /\ e.ctrl.persist_len \in Nat
  BY <1>2 DEF Entry, ClutCtrl
<1> HIDE DEF e
<1>4. n \in Nat
  BY <1>3 DEF Regs
<1> HIDE DEF n
<1>5. Regs(u) /\ u.clut_ctrl = e.ctrl /\ u.force_line = v.force_line
  BY <1>3 DEF Regs, Cleared
<1> HIDE DEF u
<1>6. PICK p : t = [u EXCEPT !.pal_ntsc = p]
  BY DEF vdlp_process_optional_cmds
<1> HIDE DEF t
<1>7. Regs(t) /\ t.clut_ctrl = e.ctrl /\ t.force_line = v.force_line
  BY <1>5, <1>6 DEF Regs, Cleared
<1>8. Regs(w) /\ w.clut_ctrl = e.ctrl /\ w.force_line = v.force_line /\ w.next_vdl = n
      /\ w.line_cnt = e.ctrl.persist_len
  BY <1>3, <1>4, <1>7 DEF Regs, Cleared
<1> HIDE DEF w
<1>9. QED
  BY <1>1, <1>2, <1>8 DEF e, n

\* What follows the rendering.
LEMMA TickFacts ==
  ASSUME NEW w, Regs(w)
  PROVE  LET t == Ticked(w)
         IN  /\ Regs(t) /\ t.clut_ctrl = w.clut_ctrl /\ t.next_vdl = w.next_vdl
             /\ t.force_line = w.force_line /\ t.curr_bmp = tick_fba(w, w.curr_bmp)
             /\ t.line_cnt = IF w.line_cnt > 0 THEN w.line_cnt - 1 ELSE w.line_cnt
<1> DEFINE x == IF w.clut_ctrl.prev_fba_tick THEN tick_fba(w, w.prev_bmp) ELSE w.curr_bmp
           y == tick_fba(w, w.curr_bmp)
           z == IF w.line_cnt > 0 THEN w.line_cnt - 1 ELSE w.line_cnt
           t == [w EXCEPT !.prev_bmp = x, !.curr_bmp = y, !.line_cnt = z]
<1>1. Ticked(w) = t
  BY DEF Ticked
<1>2. x \in Bitmap /\ y \in Bitmap /\ z \in Nat
  BY TickType DEF Regs
<1> HIDE DEF x, y, z
<1>3. /\ Regs(t) /\ t.clut_ctrl = w.clut_ctrl /\ t.next_vdl = w.next_vdl
      /\ t.force_line = w.force_line /\ t.curr_bmp = y /\ t.line_cnt = z
  BY <1>2 DEF Regs, Cleared
<1> HIDE DEF t
<1>4. QED
  BY <1>1, <1>3 DEF y, z

\* Width depends on the entry only.
LEMMA SameWidth ==
  ASSUME NEW v, NEW w, v.clut_ctrl = w.clut_ctrl
  PROVE  LineWidth(v) = LineWidth(w)
BY DEF LineWidth

\* A fetched entry has stayed one line and shown its first line.
LEMMA FetchedLine ==
  ASSUME NEW v, Belongs(v, age, base, fed, due), vram \in Memory, mctl \in Switches,
         mctl.clut, v.next_vdl # 0, NEW w, w = vdlp_process_vdl_entry(v), Observe(v, w, TRUE)
  PROVE  Belongs(Ticked(w), age', base', fed', due')
<1> DEFINE e == vram_read(v.next_vdl)
           t == Ticked(w)
<1>1. Regs(v) /\ v.next_vdl = due
  BY DEF Belongs
<1>2. /\ e \in Entry /\ Regs(w) /\ w.clut_ctrl = e.ctrl /\ w.line_cnt = e.ctrl.persist_len
      /\ w.next_vdl = e.next + IF e.next_vdl_addr_rel THEN v.next_vdl + 1 ELSE 0
  BY <1>1, Fetch
<1>3. /\ Regs(t) /\ t.clut_ctrl = w.clut_ctrl /\ t.next_vdl = w.next_vdl
      /\ t.curr_bmp = tick_fba(w, w.curr_bmp)
      /\ t.line_cnt = IF w.line_cnt > 0 THEN w.line_cnt - 1 ELSE w.line_cnt
  BY <1>2, TickFacts
<1>4. age' = 1 /\ base' = w.curr_bmp /\ fed' = TRUE
  BY DEF Observe
<1>5. due' = IF e.next_vdl_addr_rel THEN due + 1 + e.next ELSE e.next
  BY <1>1 DEF Observe
<1> HIDE DEF e, t
<1>6. t.next_vdl = due'
  <2>1. e.next \in Nat /\ due \in Nat
    BY <1>1, <1>2 DEF Entry, Regs
  <2>2. QED
    BY <1>1, <1>2, <1>3, <1>5, <2>1
<1>7. w.clut_ctrl.persist_len \in Nat /\ w.curr_bmp \in Bitmap
  BY <1>2 DEF Regs, ClutCtrl
<1>8. t.line_cnt = IF 1 < w.clut_ctrl.persist_len THEN w.clut_ctrl.persist_len - 1 ELSE 0
  BY <1>2, <1>3, <1>7
<1>9. w.clut_ctrl.persist_len # 0 => 1 <= w.clut_ctrl.persist_len
  BY <1>7
<1>10. (base' \div 2) % 2 = 0 => t.curr_bmp = Place(base', age', LineWidth(t))
  <2> SUFFICES ASSUME (w.curr_bmp \div 2) % 2 = 0
               PROVE  t.curr_bmp = Place(w.curr_bmp, 1, LineWidth(t))
    BY <1>4
  <2>1. LineWidth(t) = LineWidth(w) /\ LineWidth(w) \in Nat /\ LineWidth(w) > 0
    BY <1>2, <1>3, SameWidth, WidthType
  <2>2. Place(w.curr_bmp, 0, LineWidth(w)) = w.curr_bmp
    <3> DEFINE l == LineWidth(w)
               b == w.curr_bmp
    <3>1. b \in Nat /\ b < Bitmaps /\ l \in Nat /\ Bitmaps \in Nat
      BY <1>7, <2>1, BitmapsAssumption DEF Bitmap
    <3> HIDE DEF l, b
    <3>2. Place(b, 0, l) = b % Bitmaps
      BY <3>1 DEF Place
    <3>3. b % Bitmaps = b
      BY <3>1
    <3>4. QED
      BY <3>2, <3>3 DEF l, b
  <2>3. tick_fba(w, Place(w.curr_bmp, 0, LineWidth(w))) = Place(w.curr_bmp, 0 + 1, LineWidth(w))
    BY <1>7, <2>1, NextPlace
  <2>4. QED
    BY <1>3, <2>1, <2>2, <2>3
<1>11. QED
  BY <1>3, <1>4, <1>6, <1>7, <1>8, <1>9, <1>10 DEF Belongs, t

\* Without a fetch the entry has stayed one line longer, and not too long if it
\* was not due.
LEMMA KeptLine ==
  ASSUME NEW v, Belongs(v, age, base, fed, due), mctl \in Switches,
         ~(mctl.clut /\ Due(v, line) /\ v.next_vdl # 0), Observe(v, v, FALSE)
  PROVE  Belongs(Ticked(v), age', base', fed', due')
<1> DEFINE t == Ticked(v)
           p == v.clut_ctrl.persist_len
<1>1. Regs(v) /\ v.next_vdl = due /\ age \in Nat /\ base \in Bitmap /\ fed \in BOOLEAN
  BY DEF Belongs
<1>2. /\ Regs(t) /\ t.clut_ctrl = v.clut_ctrl /\ t.next_vdl = v.next_vdl
      /\ t.curr_bmp = tick_fba(v, v.curr_bmp)
      /\ t.line_cnt = IF v.line_cnt > 0 THEN v.line_cnt - 1 ELSE v.line_cnt
  BY <1>1, TickFacts
<1>3. age' = age + 1 /\ base' = base /\ due' = due /\ fed' = (fed /\ mctl.clut /\ v.next_vdl # 0)
  BY DEF Observe
<1> HIDE DEF t
<1>4. p \in Nat /\ v.line_cnt \in Nat
  BY <1>1 DEF Regs, ClutCtrl
<1>5. v.line_cnt = IF age < p THEN p - age ELSE 0
  BY DEF Belongs
<1>6. t.line_cnt = IF age + 1 < p THEN p - (age + 1) ELSE 0
  BY <1>1, <1>2, <1>4, <1>5
<1>7. fed' /\ p # 0 => age + 1 <= p
  <2> SUFFICES ASSUME fed', p # 0 PROVE age + 1 <= p
    OBVIOUS
  <2>1. mctl.clut /\ v.next_vdl # 0
    BY <1>3
  <2>2. ~Due(v, line)
    BY <2>1
  <2>3. ~(v.line_cnt <= 0)
    BY <2>2 DEF Due
  <2>4. QED
    BY <1>1, <1>4, <1>5, <2>3
<1>8. (base' \div 2) % 2 = 0 => t.curr_bmp = Place(base', age', LineWidth(t))
  <2> SUFFICES ASSUME (base \div 2) % 2 = 0
               PROVE  t.curr_bmp = Place(base, age + 1, LineWidth(t))
    BY <1>3
  <2>1. LineWidth(t) = LineWidth(v) /\ LineWidth(v) \in Nat /\ LineWidth(v) > 0
    BY <1>1, <1>2, SameWidth, WidthType
  <2>2. v.curr_bmp = Place(base, age, LineWidth(v))
    BY DEF Belongs
  <2>3. tick_fba(v, Place(base, age, LineWidth(v))) = Place(base, age + 1, LineWidth(v))
    BY <1>1, <2>1, NextPlace
  <2>4. QED
    BY <1>2, <2>1, <2>2, <2>3
<1>9. QED
  BY <1>1, <1>2, <1>3, <1>6, <1>7, <1>8 DEF Belongs, t

-----------------------------------------------------------------------------
(* The field.                                                              *)

\* The line PALSEL chooses.
ForceLine(p) == VDLP_FORCE_LINE + IF p THEN VDLP_PAL_FORCE_DELAY ELSE 0

\* A saved state, loaded, belongs to the entry it was saved with.
SlotInv ==
  /\ slot.vram \in Memory /\ slot.mctl \in Switches
  /\ _migrate_vdlp_state(slot.vdlp).force_line # 0
  /\ Belongs(_migrate_vdlp_state(slot.vdlp), slot.age, slot.base, slot.fed, slot.due)

\* In a field the forced line is the one PALSEL chose at its start, and an
\* entry that was cut short was so before.
CutInv ==
  /\ line \in Nat /\ cuts \in Nat
  /\ line > 0 => vdlp.force_line = ForceLine(pal)
  /\ line > 0 /\ cuts > 0 => line > vdlp.force_line

IInv ==
  /\ vram \in Memory /\ mctl \in Switches
  /\ vdlp.force_line # 0
  /\ Belongs(vdlp, age, base, fed, due)
  /\ SlotInv
  /\ CutInv

\* An entry is cut short by the forced transfer only.
CutOnce == cuts' > cuts => cuts = 0 /\ line = ForceLine(pal)

\* The cleared registers.
LEMMA ClearedBelongs ==
  ASSUME NEW v, Regs(v), v.clut_ctrl = Cleared.clut_ctrl, v.curr_bmp = 0, v.line_cnt = 0,
         NEW d, v.next_vdl = d
  PROVE  Belongs(v, 0, 0, FALSE, d)
<1>1. v.clut_ctrl.persist_len = 0
  BY DEF Cleared
<1>2. 0 \in Bitmap /\ Bitmaps \in Nat /\ Bitmaps > 0
  BY BitmapsAssumption DEF Bitmap
<1>3. Place(0, 0, LineWidth(v)) = 0
  <2> DEFINE l == LineWidth(v)
  <2>1. l \in Nat
    BY WidthType
  <2> HIDE DEF l
  <2>2. Place(0, 0, l) = 0 % Bitmaps
    BY <2>1 DEF Place
  <2>3. QED
    BY <1>2, <2>2 DEF l
<1>4. QED
  BY <1>1, <1>2, <1>3 DEF Belongs

LEMMA ClearedRegs ==
  /\ Regs(Cleared) /\ Cleared.force_line = VDLP_FORCE_LINE /\ VDLP_FORCE_LINE \in Nat \ {0}
  /\ Cleared.curr_bmp = 0 /\ Cleared.line_cnt = 0 /\ Cleared.next_vdl = 0
<1>1. 0 \in Bitmap
  BY BitmapsAssumption DEF Bitmap
<1>2. 0 \in Modulo
  BY BitmapsAssumption
<1>3. Cleared.clut_ctrl \in ClutCtrl
  BY <1>2 DEF Cleared, ClutCtrl
<1>4. QED
  BY <1>1, <1>3 DEF Regs, Cleared, VDLP_FORCE_LINE

\* A file of an older version resumes at the head it recorded.
LEMMA OldFileBelongs ==
  ASSUME NEW h \in Heads, NEW n \in Heads, NEW u \in Vrams, slot = OldFile(h, n, u)
  PROVE  SlotInv
<1> DEFINE v == [Cleared EXCEPT !.force_line = 0, !.curr_vdl = h, !.next_vdl = n]
           f == _forced_transfer_line(v)
           m == [v EXCEPT !.next_vdl = v.curr_vdl, !.force_line = f]
<1>1. /\ slot.vdlp = v /\ slot.mctl \in Switches /\ slot.vram = u /\ slot.age = 0
      /\ slot.base = 0 /\ slot.fed = FALSE /\ slot.due = h
  BY DEF OldFile, Switches
<1>2. u \in Memory /\ h \in Nat /\ n \in Nat
  BY ListAssumption DEF Memory
<1>3. f \in Nat /\ f # 0
  BY DEF _forced_transfer_line, VDLP_FORCE_LINE, VDLP_PAL_FORCE_DELAY
<1> HIDE DEF f
<1>4. v.force_line = 0
  BY DEF Cleared
<1>5. _migrate_vdlp_state(v) = m
  BY <1>4 DEF _migrate_vdlp_state, f
<1>6. Regs(m) /\ m.clut_ctrl = Cleared.clut_ctrl /\ m.curr_bmp = 0 /\ m.line_cnt = 0
      /\ m.next_vdl = h /\ m.force_line = f
  BY <1>2, <1>3, ClearedRegs DEF Regs, Cleared
<1> HIDE DEF m
<1>7. Belongs(m, 0, 0, FALSE, h)
  BY <1>6, ClearedBelongs
<1>8. QED
  BY <1>1, <1>2, <1>3, <1>5, <1>6, <1>7 DEF SlotInv

LEMMA InitIInv == Init => IInv
<1> SUFFICES ASSUME Init PROVE IInv
  OBVIOUS
<1>1. vram \in Memory /\ mctl \in Switches
  BY ListAssumption DEF Init, Memory, Switches
<1>2. vdlp.force_line # 0 /\ Belongs(vdlp, age, base, fed, due)
  BY ClearedRegs, ClearedBelongs DEF Init
<1>3. SlotInv
  BY OldFileBelongs DEF Init
<1>4. CutInv
  BY DEF Init, CutInv
<1>5. QED
  BY <1>1, <1>2, <1>3, <1>4 DEF IInv

\* The latch of PALSEL changes the forced line only.
LEMMA LatchFacts ==
  ASSUME NEW a, NEW b, NEW f, NEW d, Belongs(vdlp, a, b, f, d), line = 0
  PROVE  LET v == Latched(vdlp, line)
         IN  Belongs(v, a, b, f, d) /\ v.force_line = ForceLine(vdlp.pal_ntsc) /\ v.force_line # 0
<1> DEFINE n == ForceLine(vdlp.pal_ntsc)
           v == [vdlp EXCEPT !.force_line = n]
<1>1. n \in Nat /\ n # 0
  BY DEF ForceLine, VDLP_FORCE_LINE, VDLP_PAL_FORCE_DELAY
<1>2. Latched(vdlp, line) = v
  BY DEF Latched, _forced_transfer_line, ForceLine
<1> HIDE DEF n
<1>3. /\ Regs(v) /\ v.force_line = n /\ v.next_vdl = vdlp.next_vdl
      /\ v.line_cnt = vdlp.line_cnt /\ v.clut_ctrl = vdlp.clut_ctrl /\ v.curr_bmp = vdlp.curr_bmp
  BY <1>1 DEF Belongs, Regs, Cleared
<1> HIDE DEF v
<1>4. LineWidth(v) = LineWidth(vdlp)
  BY <1>3, SameWidth
<1>5. Belongs(v, a, b, f, d)
  BY <1>3, <1>4 DEF Belongs
<1>6. QED
  BY <1>1, <1>2, <1>3, <1>5 DEF n

\* A line of the field.
LEMMA LineIInv ==
  ASSUME IInv, opera_vdlp_process_line
  PROVE  IInv' /\ CutOnce
<1> DEFINE v == Latched(vdlp, line)
           fetches == mctl.clut /\ Due(v, line)
           w == IF fetches THEN vdlp_process_vdl_entry(v) ELSE v
<1>0. line \in Nat /\ cuts \in Nat /\ VDLP_FORCE_LINE = 5 /\ mctl \in Switches /\ vram \in Memory
  BY DEF IInv, CutInv, VDLP_FORCE_LINE
<1>1. line' = line + 1 /\ UNCHANGED <<mctl, vram, slot>>
  BY DEF opera_vdlp_process_line
<1>2. vram' \in Memory /\ mctl' \in Switches /\ SlotInv'
  BY <1>1 DEF IInv, SlotInv
<1>3. CASE line < VDLP_FORCE_LINE
  <2>1. /\ vdlp' = v /\ age' = age /\ base' = base /\ fed' = fed /\ due' = due
        /\ IF line = 0 THEN cuts' = 0 /\ pal' = vdlp.pal_ntsc ELSE cuts' = cuts /\ pal' = pal
    BY <1>3 DEF opera_vdlp_process_line
  <2>2. CASE line = 0
    <3>1. Belongs(v, age, base, fed, due) /\ v.force_line = ForceLine(vdlp.pal_ntsc)
          /\ v.force_line # 0
      BY <2>2, LatchFacts DEF IInv
    <3> HIDE DEF v
    <3>2. Belongs(vdlp, age, base, fed, due)'
      BY <2>1, <3>1
    <3>3. CutInv'
      BY <1>1, <2>1, <2>2, <3>1 DEF CutInv
    <3>4. QED
      BY <1>0, <1>2, <2>1, <2>2, <3>1, <3>2, <3>3 DEF IInv, CutOnce
  <2>3. CASE line # 0
    <3>1. v = vdlp
      BY <2>3 DEF Latched
    <3> HIDE DEF v
    <3>2. Belongs(vdlp, age, base, fed, due)' /\ vdlp'.force_line # 0
      BY <2>1, <3>1 DEF IInv
    <3>3. CutInv'
      <4>1. vdlp.force_line \in Nat
        BY DEF IInv, Belongs, Regs
      <4>2. QED
        BY <1>0, <1>1, <2>1, <2>3, <3>1, <4>1 DEF IInv, CutInv
    <3>4. QED
      BY <1>0, <1>2, <2>1, <2>3, <3>2, <3>3 DEF IInv, CutOnce
  <2>4. QED
    BY <2>2, <2>3
<1>4. CASE ~(line < VDLP_FORCE_LINE)
  <2>1. v = vdlp /\ line > 0
    BY <1>0, <1>4 DEF Latched
  <2>2. vdlp' = Ticked(w) /\ Observe(v, w, fetches /\ v.next_vdl # 0)
    BY <1>4 DEF opera_vdlp_process_line
  <2>3. Belongs(v, age, base, fed, due) /\ v.force_line = ForceLine(pal) /\ v.force_line # 0
        /\ Regs(v) /\ age \in Nat
    BY <2>1 DEF IInv, CutInv, Belongs
  <2> HIDE DEF v
  <2>4. CASE fetches /\ v.next_vdl # 0
    <3>1. w = vdlp_process_vdl_entry(v)
      BY <2>4
    <3>2. Observe(v, w, TRUE)
      BY <2>2, <2>4 DEF Observe
    <3>3. w.force_line = v.force_line /\ Regs(w)
      BY <1>0, <2>3, <2>4, <3>1, Fetch
    <3>4. Belongs(vdlp, age, base, fed, due)'
      BY <1>0, <2>2, <2>3, <2>4, <3>1, <3>2, FetchedLine
    <3>5. vdlp'.force_line = v.force_line
      BY <2>2, <3>3, TickFacts
    <3>6. pal' = pal /\ cuts' = IF age < v.clut_ctrl.persist_len \/ v.clut_ctrl.persist_len = 0
                                 THEN cuts + 1 ELSE cuts
      BY <3>2 DEF Observe
    <3>7. cuts' # cuts => line = v.force_line
      <4> SUFFICES ASSUME cuts' # cuts, line # v.force_line PROVE FALSE
        OBVIOUS
      <4>1. v.line_cnt <= 0 /\ v.clut_ctrl.persist_len # 0
        BY <2>4 DEF Due
      <4>2. v.line_cnt = IF age < v.clut_ctrl.persist_len THEN v.clut_ctrl.persist_len - age ELSE 0
        BY <2>3 DEF Belongs
      <4>3. v.clut_ctrl.persist_len \in Nat
        BY <2>3 DEF Regs, ClutCtrl
      <4>4. QED
        BY <2>3, <3>6, <4>1, <4>2, <4>3
    <3>8. cuts > 0 => line > v.force_line
      BY <2>1 DEF IInv, CutInv
    <3>9. v.force_line \in Nat
      BY <2>3 DEF Regs
    <3>10. CutInv'
      BY <1>0, <1>1, <2>1, <2>3, <3>5, <3>6, <3>7, <3>8, <3>9 DEF CutInv
    <3>11. CutOnce
      BY <1>0, <2>3, <3>6, <3>7, <3>8, <3>9 DEF CutOnce
    <3>12. QED
      BY <1>2, <2>3, <3>4, <3>5, <3>10, <3>11 DEF IInv
  <2>5. CASE ~(fetches /\ v.next_vdl # 0)
    <3>1. w = v
      BY <2>5 DEF vdlp_process_vdl_entry
    <3>2. Observe(v, v, FALSE)
      BY <2>2, <2>5, <3>1 DEF Observe
    <3>3. Belongs(vdlp, age, base, fed, due)'
      BY <1>0, <2>2, <2>3, <2>5, <3>1, <3>2, KeptLine
    <3>4. vdlp'.force_line = v.force_line
      BY <2>2, <2>3, <3>1, TickFacts
    <3>5. pal' = pal /\ cuts' = cuts
      BY <3>2 DEF Observe
    <3>6. cuts > 0 => line > v.force_line
      BY <2>1 DEF IInv, CutInv
    <3>7. v.force_line \in Nat
      BY <2>3 DEF Regs
    <3>8. CutInv'
      BY <1>0, <1>1, <2>3, <3>4, <3>5, <3>6, <3>7 DEF CutInv
    <3>9. QED
      BY <1>0, <1>2, <2>3, <3>3, <3>4, <3>5, <3>8 DEF IInv, CutOnce
  <2>6. QED
    BY <2>4, <2>5
<1>5. QED
  BY <1>3, <1>4

\* A step that leaves the list, its histories and the saved state alone.
LEMMA Aside ==
  ASSUME IInv, UNCHANGED <<vdlp, slot, age, base, fed, due>>, vram' \in Memory, mctl' \in Switches,
         CutInv'
  PROVE  IInv'
BY DEF IInv, SlotInv

LEMMA NextIInv == IInv /\ [Next]_vars => IInv' /\ [CutOnce]_vars
<1> SUFFICES ASSUME IInv, [Next]_vars
             PROVE  IInv' /\ [CutOnce]_vars
  OBVIOUS
<1>0. /\ vram \in Memory /\ mctl \in Switches /\ SlotInv /\ CutInv /\ cuts \in Nat /\ line \in Nat
      /\ Belongs(vdlp, age, base, fed, due) /\ vdlp.force_line # 0
  BY DEF IInv, CutInv
<1>a. CutOnce \/ cuts' = cuts \/ cuts' = 0 => [CutOnce]_vars
  BY <1>0 DEF CutOnce
<1>1. CASE opera_vdlp_process_line
  BY <1>1, LineIInv
<1>2. CASE EndField
  <2>1. line' = 0 /\ UNCHANGED <<vdlp, mctl, vram, slot, age, base, fed, due, cuts, pal>>
    BY <1>2 DEF EndField, history
  <2>2. CutInv'
    BY <1>0, <2>1 DEF CutInv
  <2>3. QED
    BY <1>0, <1>a, <2>1, <2>2, Aside
<1>3. CASE opera_vdlp_set_vdl_head
  <2>1. PICK h \in Heads : vdlp' = [vdlp EXCEPT !.next_vdl = h] /\ due' = h
    BY <1>3 DEF opera_vdlp_set_vdl_head
  <2>2. UNCHANGED <<mctl, vram, line, slot, age, base, fed, cuts, pal>>
    BY <1>3 DEF opera_vdlp_set_vdl_head
  <2>3. h \in Nat
    BY ListAssumption
  <2> DEFINE v == [vdlp EXCEPT !.next_vdl = h]
  <2>4. /\ Regs(v) /\ v.next_vdl = h /\ v.force_line = vdlp.force_line
        /\ v.line_cnt = vdlp.line_cnt /\ v.clut_ctrl = vdlp.clut_ctrl /\ v.curr_bmp = vdlp.curr_bmp
    BY <1>0, <2>3 DEF Belongs, Regs, Cleared
  <2> HIDE DEF v
  <2>5. LineWidth(v) = LineWidth(vdlp)
    BY <2>4, SameWidth
  <2>6. Belongs(v, age, base, fed, h)
    BY <1>0, <2>4, <2>5 DEF Belongs
  <2>7. vdlp' = v
    BY <2>1 DEF v
  <2>8. Belongs(vdlp, age, base, fed, due)' /\ vdlp'.force_line = vdlp.force_line
    BY <2>1, <2>2, <2>4, <2>6, <2>7
  <2>9. CutInv'
    BY <1>0, <2>2, <2>8 DEF CutInv
  <2>10. SlotInv'
    BY <1>0, <2>2 DEF SlotInv
  <2>11. QED
    BY <1>0, <1>a, <2>2, <2>8, <2>9, <2>10 DEF IInv
<1>4. CASE PokeMctl
  <2>1. mctl' \in Switches /\ UNCHANGED <<vdlp, vram, line, slot, age, base, fed, due, cuts, pal>>
    BY <1>4 DEF PokeMctl, Switches, history
  <2>2. CutInv'
    BY <1>0, <2>1 DEF CutInv
  <2>3. QED
    BY <1>0, <1>a, <2>1, <2>2, Aside
<1>5. CASE WriteVram
  <2>1. PICK a \in 0..(Blocks - 1), e \in Entries : vram' = [vram EXCEPT ![a] = e]
    BY <1>5 DEF WriteVram
  <2>2. UNCHANGED <<vdlp, mctl, line, slot, age, base, fed, due, cuts, pal>>
    BY <1>5 DEF WriteVram, history
  <2>3. vram' \in Memory
    BY <1>0, <2>1 DEF Memory
  <2>4. CutInv'
    BY <1>0, <2>2 DEF CutInv
  <2>5. QED
    BY <1>0, <1>a, <2>2, <2>3, <2>4, Aside
<1>6. CASE opera_vdlp_init
  <2>1. /\ vdlp' = Cleared /\ line' = 0 /\ mctl' = [clut |-> FALSE, video |-> FALSE]
        /\ vram' \in Vrams /\ age' = 0 /\ base' = 0 /\ fed' = FALSE /\ due' = 0 /\ cuts' = 0
        /\ slot' = slot
    BY <1>6 DEF opera_vdlp_init
  <2>2. vram' \in Memory /\ mctl' \in Switches
    BY <2>1, ListAssumption DEF Memory, Switches
  <2>3. vdlp'.force_line # 0 /\ Belongs(vdlp, age, base, fed, due)'
    BY <2>1, ClearedRegs, ClearedBelongs
  <2>4. SlotInv'
    BY <1>0, <2>1 DEF SlotInv
  <2>5. CutInv'
    BY <2>1 DEF CutInv
  <2>6. QED
    BY <1>a, <2>1, <2>2, <2>3, <2>4, <2>5 DEF IInv
<1>7. CASE opera_vdlp_set_hires
  <2>1. UNCHANGED <<vdlp, mctl, vram, line, slot, age, base, fed, due, cuts, pal>>
    BY <1>7 DEF opera_vdlp_set_hires, history
  <2>2. CutInv'
    BY <1>0, <2>1 DEF CutInv
  <2>3. QED
    BY <1>0, <1>a, <2>1, <2>2, Aside
<1>8. CASE opera_vdlp_state_save
  <2>1. UNCHANGED <<vdlp, mctl, vram, line, age, base, fed, due, cuts, pal>>
    BY <1>8 DEF opera_vdlp_state_save, history
  <2>2. /\ slot'.vdlp = vdlp /\ slot'.mctl = mctl /\ slot'.vram = vram /\ slot'.age = age
        /\ slot'.base = base /\ slot'.fed = fed /\ slot'.due = due
    BY <1>8 DEF opera_vdlp_state_save
  <2>3. _migrate_vdlp_state(vdlp) = vdlp
    BY <1>0 DEF _migrate_vdlp_state
  <2>4. SlotInv'
    BY <1>0, <2>2, <2>3 DEF SlotInv
  <2>5. CutInv'
    BY <1>0, <2>1 DEF CutInv
  <2>6. QED
    BY <1>0, <1>a, <2>1, <2>4, <2>5 DEF IInv
<1>9. CASE opera_vdlp_state_load
  <2>1. /\ line = 0 /\ vdlp' = _migrate_vdlp_state(slot.vdlp) /\ mctl' = slot.mctl
        /\ vram' = slot.vram /\ age' = slot.age /\ base' = slot.base /\ fed' = slot.fed
        /\ due' = slot.due /\ UNCHANGED <<line, slot, cuts, pal>>
    BY <1>9 DEF opera_vdlp_state_load
  <2>2. CutInv'
    BY <1>0, <2>1 DEF CutInv
  <2>3. QED
    BY <1>0, <1>a, <2>1, <2>2 DEF IInv, SlotInv
<1>10. CASE UNCHANGED vars
  <2>1. UNCHANGED <<vdlp, mctl, vram, line, slot, age, base, fed, due, cuts, pal>>
    BY <1>10 DEF vars, history
  <2>2. CutInv'
    BY <1>0, <2>1 DEF CutInv
  <2>3. QED
    BY <1>0, <1>a, <2>1, <2>2, Aside
<1>11. QED
  BY <1>1, <1>2, <1>3, <1>4, <1>5, <1>6, <1>7, <1>8, <1>9, <1>10 DEF Next, Bounded

\* The inductive invariant of the display list.
THEOREM Invariance == Spec => []IInv
BY InitIInv, NextIInv, PTL DEF Spec

\* An entry stays for exactly the lines it asks for, over field ends, DMA
\* switched off and on, saves and loads.
THEOREM EntriesPersist == Spec => []Persists
<1>1. IInv => Persists
  BY DEF IInv, Belongs, Persists
<1>2. QED
  BY <1>1, Invariance, PTL

\* The k-th line after a fetch shows line k of the entry's bitmap, for every
\* table of widths, through the wrap of the address.
THEOREM BitmapInOrder == Spec => []ShowsBitmapInOrder
<1>1. IInv => ShowsBitmapInOrder
  BY DEF IInv, Belongs, ShowsBitmapInOrder, Place
<1>2. QED
  BY <1>1, Invariance, PTL

\* The traversal resumes at the successor of the last fetched entry, or at the
\* head programmed since, after a load too.
THEOREM TraversalResumes == Spec => []ResumesTraversal
<1>1. IInv => ResumesTraversal
  BY DEF IInv, Belongs, ResumesTraversal
<1>2. QED
  BY <1>1, Invariance, PTL

\* An entry is cut short at most once in a field, on the line PALSEL chose when
\* the field began.
THEOREM ForcedOnce == Spec => ForcedTransfer
<1>1. IInv /\ [Next]_vars
        => [cuts' > cuts =>
              cuts = 0 /\ line = VDLP_FORCE_LINE + IF pal THEN VDLP_PAL_FORCE_DELAY ELSE 0]_vars
  BY NextIInv DEF CutOnce, ForceLine
<1>2. QED
  BY <1>1, Invariance, PTL DEF Spec, ForcedTransfer

-----------------------------------------------------------------------------
(* The frame.                                                              *)

FrameInv ==
  /\ format \in Formats /\ hires \in BOOLEAN /\ plain \in BOOLEAN /\ line \in Nat
  /\ FrameLaidOut

\* A line moves the output by its width, times four in hires mode, black or
\* drawn: in every format but the one whose hires renderers draw a black line
\* of the plain size.
LEMMA RenderedWidth ==
  ASSUME NEW w, format # "0RGB1555", hires \in BOOLEAN
  PROVE  Rendered(w) = IF hires THEN 4 * LineWidth(w) ELSE LineWidth(w)
BY DEF Rendered

LEMMA LineFrame ==
  ASSUME "0RGB1555" \notin Formats, IInv, FrameInv, opera_vdlp_process_line
  PROVE  FrameInv'
<1> DEFINE v == Latched(vdlp, line)
           fetches == mctl.clut /\ Due(v, line)
           w == IF fetches THEN vdlp_process_vdl_entry(v) ELSE v
<1>0. /\ line \in Nat /\ VDLP_FORCE_LINE = 5 /\ First \in Nat /\ End \in Nat /\ 8 < First
      /\ First < End /\ Width \in Nat /\ format # "0RGB1555" /\ hires \in BOOLEAN
  BY RegionAssumption DEF FrameInv, VDLP_FORCE_LINE, VDLP_PAL_FORCE_DELAY
<1>1. line' = line + 1 /\ UNCHANGED <<hires, format>>
  BY DEF opera_vdlp_process_line
<1>2. CASE line < VDLP_FORCE_LINE
  <2>1. plain' = plain
    BY <1>2 DEF opera_vdlp_process_line
  <2>2. QED
    BY <1>0, <1>1, <1>2, <2>1 DEF FrameInv, FrameLaidOut
<1>3. CASE ~(line < VDLP_FORCE_LINE)
  <2>1. v = vdlp /\ Regs(v)
    BY <1>0, <1>3 DEF Latched, IInv, Belongs
  <2>2. /\ curbuf' = (IF line = VDLP_FORCE_LINE THEN 0 ELSE curbuf)
                     + IF visible_scanline(line) THEN Rendered(w) ELSE 0
        /\ Observe(v, w, fetches /\ v.next_vdl # 0)
    BY <1>3 DEF opera_vdlp_process_line
  <2> HIDE DEF v, fetches
  <2>3. Regs(w)
    <3>1. CASE fetches /\ v.next_vdl # 0
      BY <2>1, <3>1, Fetch DEF IInv
    <3>2. CASE ~(fetches /\ v.next_vdl # 0)
      BY <2>1, <3>2 DEF vdlp_process_vdl_entry
    <3>3. QED
      BY <3>1, <3>2
  <2> HIDE DEF w
  <2>4. LineWidth(w) \in Nat
    BY <2>3, WidthType
  <2>5. /\ rows' = (IF line = VDLP_FORCE_LINE THEN 0 ELSE rows) + IF visible_scanline(line) THEN 1 ELSE 0
        /\ plain' = ((line = VDLP_FORCE_LINE \/ plain)
                     /\ (visible_scanline(line) => LineWidth(w) = Width))
    BY <2>2 DEF Observe
  <2>6. Rendered(w) = IF hires THEN 4 * LineWidth(w) ELSE LineWidth(w)
    BY <1>0, RenderedWidth
  <2>7. visible_scanline(line) <=> First <= line /\ line < End
    BY DEF visible_scanline
  <2>8. rows' = IF line + 1 <= First THEN 0 ELSE IF line + 1 < End THEN line + 1 - First ELSE End - First
    <3>1. CASE line = 5
      BY <1>0, <2>5, <2>7, <3>1
    <3>2. CASE line > 5
      <4>1. rows = IF line <= First THEN 0 ELSE IF line < End THEN line - First ELSE End - First
        BY <1>0, <3>2 DEF FrameInv, FrameLaidOut
      <4>2. line # VDLP_FORCE_LINE
        BY <1>0, <3>2
      <4>3. rows' = rows + IF visible_scanline(line) THEN 1 ELSE 0
        BY <2>5, <4>2
      <4>4. CASE First <= line /\ line < End
        BY <1>0, <2>7, <4>1, <4>3, <4>4
      <4>5. CASE ~(First <= line /\ line < End)
        BY <1>0, <2>7, <4>1, <4>3, <4>5
      <4>6. QED
        BY <4>4, <4>5
    <3>3. QED
      BY <1>0, <1>3, <3>1, <3>2
  <2>9. plain' => curbuf' = rows' * Width * IF hires THEN 4 ELSE 1
    <3> SUFFICES ASSUME plain'
                 PROVE  curbuf' = rows' * Width * IF hires THEN 4 ELSE 1
      OBVIOUS
    <3> DEFINE start == IF line = VDLP_FORCE_LINE THEN 0 ELSE curbuf
               n == IF line = VDLP_FORCE_LINE THEN 0 ELSE rows
               k == IF hires THEN 4 ELSE 1
    <3>1. n \in Nat /\ k \in {1, 4} /\ (hires <=> k = 4)
      <4>1. rows \in Nat \/ line = VDLP_FORCE_LINE
        BY <1>0, <1>3 DEF FrameInv, FrameLaidOut
      <4>2. QED
        BY <1>0, <4>1
    <3>2. start = n * Width * k
      <4>1. CASE line = VDLP_FORCE_LINE
        BY <1>0, <4>1
      <4>2. CASE line # VDLP_FORCE_LINE
        <5>1. line > VDLP_FORCE_LINE /\ plain
          <6>1. line > VDLP_FORCE_LINE
            BY <1>0, <1>3, <4>2
          <6>2. (line = VDLP_FORCE_LINE \/ plain) /\ (visible_scanline(line) => LineWidth(w) = Width)
            BY <2>5, Zenon
          <6>3. QED
            BY <4>2, <6>1, <6>2, Zenon
        <5>2. QED
          BY <5>1, <4>2 DEF FrameInv, FrameLaidOut
      <4>3. QED
        BY <4>1, <4>2
    <3>3. curbuf' = start + IF visible_scanline(line) THEN Rendered(w) ELSE 0
      BY <2>2
    <3>4. rows' = n + IF visible_scanline(line) THEN 1 ELSE 0
      BY <2>5
    <3>5. visible_scanline(line) => LineWidth(w) = Width
      BY <2>5
    <3> HIDE DEF start, n
    <3> DEFINE z == n * Width
    <3>6. z \in Nat /\ (n + 1) * Width = z + Width /\ n * Width * k = z * k
      BY <1>0, <3>1
    <3> HIDE DEF z, k
    <3>7. CASE visible_scanline(line)
      <4>1. Rendered(w) = Width * k
        BY <1>0, <2>6, <3>1, <3>5, <3>7
      <4>2. z * k + Width * k = (z + Width) * k
        BY <1>0, <3>1, <3>6
      <4>3. curbuf' = (z + Width) * k
        BY <3>2, <3>3, <3>6, <3>7, <4>1, <4>2
      <4>4. rows' * Width = z + Width
        BY <3>4, <3>6, <3>7
      <4>5. QED
        BY <4>3, <4>4 DEF k
    <3>8. CASE ~visible_scanline(line)
      <4>1. curbuf' = start + 0 /\ rows' = n
        BY <3>1, <3>3, <3>4, <3>8
      <4>2. start \in Int
        BY <1>0, <3>1, <3>2, <3>6
      <4>3. QED
        BY <3>2, <4>1, <4>2 DEF k
    <3>9. QED
      BY <3>7, <3>8
  <2>10. plain' \in BOOLEAN
    BY <2>5
  <2>11. QED
    BY <1>0, <1>1, <2>8, <2>9, <2>10 DEF FrameInv, FrameLaidOut
<1>4. QED
  BY <1>2, <1>3

LEMMA NextFrame ==
  ASSUME "0RGB1555" \notin Formats, IInv, FrameInv, [Next]_vars
  PROVE  FrameInv'
<1>0. line \in Nat /\ VDLP_FORCE_LINE = 5 /\ FrameInv
  BY DEF FrameInv, VDLP_FORCE_LINE
<1>1. CASE opera_vdlp_process_line
  BY <1>1, LineFrame
<1>2. CASE EndField
  BY <1>0, <1>2 DEF EndField, history, FrameInv, FrameLaidOut
<1>3. CASE opera_vdlp_set_vdl_head
  BY <1>0, <1>3 DEF opera_vdlp_set_vdl_head, FrameInv, FrameLaidOut
<1>4. CASE PokeMctl
  BY <1>0, <1>4 DEF PokeMctl, history, FrameInv, FrameLaidOut
<1>5. CASE WriteVram
  BY <1>0, <1>5 DEF WriteVram, history, FrameInv, FrameLaidOut
<1>6. CASE opera_vdlp_init
  BY <1>0, <1>6 DEF opera_vdlp_init, FrameInv, FrameLaidOut
<1>7. CASE opera_vdlp_set_hires
  BY <1>0, <1>7 DEF opera_vdlp_set_hires, history, FrameInv, FrameLaidOut
<1>8. CASE opera_vdlp_state_save
  BY <1>0, <1>8 DEF opera_vdlp_state_save, history, FrameInv, FrameLaidOut
<1>9. CASE opera_vdlp_state_load
  BY <1>0, <1>9 DEF opera_vdlp_state_load, FrameInv, FrameLaidOut
<1>10. CASE UNCHANGED vars
  BY <1>0, <1>10 DEF vars, history, FrameInv, FrameLaidOut
<1>11. QED
  BY <1>1, <1>2, <1>3, <1>4, <1>5, <1>6, <1>7, <1>8, <1>9, <1>10 DEF Next, Bounded

\* Every visible line is output once and where the frontend looks for it, in
\* lores and hires, in each pixel format but 0RGB1555.
THEOREM FrameIsLaidOut == "0RGB1555" \notin Formats => (Spec => []FrameLaidOut)
<1> SUFFICES ASSUME "0RGB1555" \notin Formats PROVE Spec => []FrameLaidOut
  OBVIOUS
<1>1. Init => FrameInv
  BY DEF Init, FrameInv, FrameLaidOut, VDLP_FORCE_LINE
<1>2. IInv /\ FrameInv /\ [Next]_vars => FrameInv'
  BY NextFrame
<1>3. FrameInv => FrameLaidOut
  BY DEF FrameInv
<1>4. QED
  BY <1>1, <1>2, <1>3, Invariance, PTL DEF Spec
=============================================================================
