----------------------------- MODULE XbusProofs -----------------------------
(***************************************************************************)
(* Proofs about XbusCdrom and the drive of Cdrom: every byte of a read is  *)
(* accounted for, its completion follows the last byte, the drive never    *)
(* runs ahead of the disc, and the DIPIR latches neither lock a launching  *)
(* unit out nor miss a media change.  They hold for every disc, sector     *)
(* size and speed, command length, DMA length and set of guest commands.   *)
(***************************************************************************)
EXTENDS XbusCdrom, WellFoundedInduction, TLAPS

Reads == [start : Nat, n : Nat, taken : Nat, elapsed : Nat]

\* The device's fields are of their types.
Dev(d) ==
  /\ DOMAIN d = DOMAIN PowerOn
  /\ d.POLST \in BOOLEAN /\ d.POLDT \in BOOLEAN /\ d.POLRE \in BOOLEAN
  /\ d.POLREMASK \in BOOLEAN /\ d.POLSTMASK \in BOOLEAN /\ d.POLDTMASK \in BOOLEAN
  /\ d.disc_in \in BOOLEAN /\ d.spin_up \in BOOLEAN
  /\ d.status_len \in Nat /\ d.cmd_idx \in Nat /\ d.cmd \in Commands \cup {NoCommand}
  /\ d.data_len \in Nat /\ d.blocks_requested \in Nat
  /\ d.current_sector \in Nat /\ d.due \in Int
  /\ d.read_status_pending \in BOOLEAN /\ d.read_have_expected_lba \in BOOLEAN
  /\ d.audio_clock_active \in BOOLEAN /\ d.playlist \in BOOLEAN
  /\ d.restart_armed \in BOOLEAN /\ d.restart_requested \in BOOLEAN
  /\ d.pending_launch \in BOOLEAN /\ d.rd \in Reads

\* A read in progress: the bytes, the position, the completion and the pace.
\* The schedule is what keeps the pace: time so far and time to wait together
\* reach the sector that is due, until the history of time is full.
Bytes(d) ==
  /\ d.rd.taken + d.data_len + d.blocks_requested * SectorBytes = d.rd.n * SectorBytes
  /\ d.current_sector + d.blocks_requested = d.rd.start + d.rd.n
  /\ d.rd.start + d.rd.n <= DiscBlocks
Completion(d) ==
  /\ d.POLST => d.rd.taken = d.rd.n * SectorBytes
  /\ d.rd.taken = d.rd.n * SectorBytes /\ d.status_len > 0 => d.POLST
  /\ d.rd.taken = d.rd.n * SectorBytes \/ d.read_status_pending
Pace(d) ==
  /\ d.rd.n <= MaxBlocks /\ d.blocks_requested <= d.rd.n
  /\ (d.rd.n - d.blocks_requested) * SectorCycles <= d.rd.elapsed
  /\ d.blocks_requested > 0 =>
       \/ d.rd.elapsed >= MaxBlocks * SectorCycles
       \/ d.rd.elapsed + d.due >= (d.rd.n - d.blocks_requested) * SectorCycles + SectorCycles
ReadInv(d) == d.rd # NoRead => Bytes(d) /\ Completion(d) /\ Pace(d)

\* A command under way is one; an armed launch waits for its response to be
\* read, with no command under way and the drive not held in reset.
DevInv(d) ==
  /\ Dev(d) /\ ReadInv(d)
  /\ d.cmd_idx # 0 => d.cmd \in Commands
  /\ d.restart_armed => d.cmd_idx = 0 /\ ~d.POLREMASK

\* What loading and taking data leave alone.
Keeps(d, e) ==
  /\ e.POLRE = d.POLRE /\ e.POLREMASK = d.POLREMASK /\ e.restart_armed = d.restart_armed
  /\ e.cmd_idx = d.cmd_idx /\ e.cmd = d.cmd

-----------------------------------------------------------------------------
(* Numbers.                                                                *)

\* A set of naturals has a least element.
LEMMA Least ==
  ASSUME NEW S \in SUBSET Nat, S # {}
  PROVE  \E m \in S : \A j \in S : m <= j
<1>1. PICK m \in S : \A j \in S : ~(<<j, m>> \in OpToRel(<, Nat))
  BY NatLessThanWellFounded, WFMin
<1>2. \A j \in S : ~(j < m)
  BY <1>1 DEF OpToRel
<1>3. m \in Nat /\ \A j \in S : j \in Nat
  OBVIOUS
<1>4. \A j \in S : m <= j
  BY <1>2, <1>3
<1>5. QED
  BY <1>4

\* Products: one more, one less, and monotone.
LEMMA Product ==
  ASSUME NEW a \in Int, NEW c \in Nat
  PROVE  a * c \in Int /\ (a + 1) * c = a * c + c /\ (a - 1) * c = a * c - c
OBVIOUS

LEMMA ProductLe ==
  ASSUME NEW a \in Int, NEW b \in Int, NEW c \in Nat, a <= b
  PROVE  a * c <= b * c
OBVIOUS

\* The constants.
LEMMA ConstantFacts ==
  /\ SectorBytes \in Nat /\ SectorBytes > 0 /\ SectorCycles \in Nat
  /\ DiscBlocks \in Nat /\ MaxBlocks \in Nat /\ CommandBytes \in Nat /\ CommandBytes > 1
BY SectorBytesAssumption, SectorCyclesAssumption, DiscBlocksAssumption, MaxBlocksAssumption,
   CommandBytesAssumption

-----------------------------------------------------------------------------
(* The transfer.                                                           *)

\* Loading the next sector keeps the account, the completion and the pace.
LEMMA LoadNextRead ==
  ASSUME NEW d, Dev(d), ReadInv(d)
  PROVE  /\ Dev(cdrom_data_load_next_if_ready(d)) /\ ReadInv(cdrom_data_load_next_if_ready(d))
         /\ Keeps(d, cdrom_data_load_next_if_ready(d))
<1> DEFINE e == cdrom_data_load_next_if_ready(d)
<1>1. Dev(d) /\ ReadInv(d)
  OBVIOUS
<1>2. CASE d.POLREMASK \/ d.data_len > 0 \/ d.blocks_requested = 0
  <2>1. e = d
    BY <1>2 DEF cdrom_data_load_next_if_ready
  <2>2. QED
    BY <2>1 DEF Keeps
<1>3. CASE ~(d.POLREMASK \/ d.data_len > 0 \/ d.blocks_requested = 0) /\ d.due > 0
  <2>1. e = [d EXCEPT !.POLDT = FALSE]
    BY <1>3 DEF cdrom_data_load_next_if_ready
  <2>2. Dev(e) /\ Keeps(d, e)
    BY <1>1, <2>1 DEF Dev, PowerOn, Keeps
  <2>3. /\ e.rd = d.rd /\ e.data_len = d.data_len /\ e.blocks_requested = d.blocks_requested
        /\ e.current_sector = d.current_sector /\ e.POLST = d.POLST /\ e.due = d.due
        /\ e.status_len = d.status_len /\ e.read_status_pending = d.read_status_pending
    BY <1>1, <2>1 DEF Dev, PowerOn
  <2> HIDE DEF e
  <2>4. ReadInv(e)
    BY <1>1, <2>3 DEF ReadInv, Bytes, Completion, Pace
  <2>5. QED
    BY <2>2, <2>4 DEF e
<1>4. CASE ~(d.POLREMASK \/ d.data_len > 0 \/ d.blocks_requested = 0) /\ ~(d.due > 0)
  <2>1. d.data_len = 0 /\ d.blocks_requested \in Nat /\ d.blocks_requested > 0
        /\ d.due <= 0 /\ d.due \in Int
    BY <1>1, <1>4 DEF Dev
  <2> DEFINE f == [d EXCEPT !.current_sector = @ + 1, !.data_len = SectorBytes,
                            !.blocks_requested = @ - 1, !.POLDT = TRUE]
             t == IF d.due + SectorCycles < -SectorCycles THEN 0 ELSE d.due + SectorCycles
  <2>2. e = cdrom_data_schedule_next(f)
    BY <1>4 DEF cdrom_data_load_next_if_ready
  <2>3. f.due = d.due
    BY <1>1 DEF Dev, PowerOn
  <2>4. e = [f EXCEPT !.due = t]
    BY <2>2, <2>3 DEF cdrom_data_schedule_next
  <2>5. t \in Int /\ t >= d.due + SectorCycles
    BY <2>1, ConstantFacts
  <2> HIDE DEF t
  <2>6. Dev(e) /\ Keeps(d, e)
    BY <1>1, <2>1, <2>4, <2>5, ConstantFacts DEF Dev, PowerOn, Keeps
  <2>7. /\ e.rd = d.rd /\ e.data_len = SectorBytes /\ e.blocks_requested = d.blocks_requested - 1
        /\ e.current_sector = d.current_sector + 1 /\ e.POLST = d.POLST /\ e.due = t
        /\ e.status_len = d.status_len /\ e.read_status_pending = d.read_status_pending
    BY <1>1, <2>4 DEF Dev, PowerOn
  <2> HIDE DEF e, f
  <2>8. ReadInv(e)
    <3> SUFFICES ASSUME d.rd # NoRead PROVE Bytes(e) /\ Completion(e) /\ Pace(e)
      BY <2>7 DEF ReadInv
    <3> DEFINE n == d.rd.n
               br == d.blocks_requested
    <3>1. Bytes(d) /\ Completion(d) /\ Pace(d)
      BY <1>1 DEF ReadInv
    <3>2. n \in Nat /\ br \in Nat /\ d.rd.taken \in Nat /\ d.rd.elapsed \in Nat /\ d.rd.start \in Nat
          /\ d.current_sector \in Nat
      BY <1>1 DEF Dev, Reads
    <3> HIDE DEF n, br
    <3>3. (br - 1) * SectorBytes = br * SectorBytes - SectorBytes
          /\ br * SectorBytes \in Int /\ n * SectorBytes \in Int
      BY <3>2, ConstantFacts, Product
    <3>4. Bytes(e)
      <4>1. d.rd.taken + 0 + br * SectorBytes = n * SectorBytes
            /\ d.current_sector + br = d.rd.start + n /\ d.rd.start + n <= DiscBlocks
        BY <2>1, <3>1 DEF Bytes, n, br
      <4>2. d.rd.taken + SectorBytes + (br - 1) * SectorBytes = n * SectorBytes
            /\ d.current_sector + 1 + (br - 1) = d.rd.start + n
        BY <3>2, <3>3, <4>1, ConstantFacts
      <4>3. QED
        BY <2>7, <4>1, <4>2 DEF Bytes, n, br
    <3>5. Completion(e)
      BY <2>7, <3>1 DEF Completion
    <3>6. Pace(e)
      <4>1. (n - (br - 1)) * SectorCycles = (n - br) * SectorCycles + SectorCycles
            /\ (n - br) * SectorCycles \in Int /\ MaxBlocks * SectorCycles \in Int
        <5> DEFINE k == n - br
        <5>1. n - (br - 1) = k + 1 /\ k \in Int
          BY <3>2
        <5> HIDE DEF k
        <5>2. (k + 1) * SectorCycles = k * SectorCycles + SectorCycles
              /\ k * SectorCycles \in Int /\ MaxBlocks * SectorCycles \in Int
          BY <5>1, ConstantFacts, Product
        <5>3. QED
          BY <5>1, <5>2 DEF k
      <4>2. n <= MaxBlocks /\ br <= n
        BY <3>1 DEF Pace, n, br
      <4>3. (n - (br - 1)) * SectorCycles <= MaxBlocks * SectorCycles
        <5>1. n - (br - 1) \in Int /\ n - (br - 1) <= MaxBlocks
          BY <2>1, <3>2, <4>2, ConstantFacts DEF br
        <5>2. QED
          BY <5>1, ConstantFacts, ProductLe
      <4>4. d.rd.elapsed >= MaxBlocks * SectorCycles
            \/ d.rd.elapsed + d.due >= (n - br) * SectorCycles + SectorCycles
        BY <2>1, <3>1 DEF Pace, n, br
      <4>5. (n - (br - 1)) * SectorCycles <= d.rd.elapsed
        BY <2>1, <3>2, <4>1, <4>3, <4>4, ConstantFacts
      <4>6. br - 1 > 0 => d.rd.elapsed >= MaxBlocks * SectorCycles
                  \/ d.rd.elapsed + t >= (n - (br - 1)) * SectorCycles + SectorCycles
        BY <2>1, <2>5, <3>2, <4>1, <4>4, ConstantFacts
      <4>7. QED
        BY <2>1, <2>7, <3>2, <4>2, <4>5, <4>6 DEF Pace, n, br
    <3>7. QED
      BY <3>4, <3>5, <3>6
  <2>9. QED
    BY <2>6, <2>8 DEF e
<1>5. QED
  BY <1>2, <1>3, <1>4

\* It is no concern of a command or a launch under way.
LEMMA LoadNext ==
  ASSUME NEW d, DevInv(d)
  PROVE  DevInv(cdrom_data_load_next_if_ready(d)) /\ Keeps(d, cdrom_data_load_next_if_ready(d))
<1> DEFINE e == cdrom_data_load_next_if_ready(d)
<1>1. Dev(d) /\ ReadInv(d)
  BY DEF DevInv
<1>2. Dev(e) /\ ReadInv(e) /\ Keeps(d, e)
  BY <1>1, LoadNextRead
<1> HIDE DEF e
<1>3. DevInv(e) /\ Keeps(d, e)
  BY <1>2 DEF DevInv, Keeps
<1>4. QED
  BY <1>3 DEF e

\* d with one byte taken, and what that leaves.
TakenRd(d) == [d.rd EXCEPT !.taken = IF d.rd = NoRead THEN 0 ELSE @ + 1]
Taken(d) == [d EXCEPT !.data_len = @ - 1, !.rd = TakenRd(d)]
Took(d, e) ==
  /\ Dev(e) /\ Keeps(d, e) /\ e.data_len = d.data_len - 1
  /\ e.rd # NoRead =>
       /\ Bytes(e) /\ Pace(e) /\ ~e.POLST /\ e.read_status_pending
       /\ e.rd.taken = e.rd.n * SectorBytes <=> e.data_len = 0 /\ e.blocks_requested = 0

\* A byte is taken: the account stays balanced, the completion is still to come,
\* and the account is closed exactly when nothing is left.
LEMMA TakeOne ==
  ASSUME NEW d, DevInv(d), d.data_len > 0
  PROVE  Took(d, Taken(d))
<1> DEFINE r == TakenRd(d)
           e == Taken(d)
<1>1. Dev(d) /\ ReadInv(d) /\ d.rd \in Reads /\ d.data_len \in Nat
  BY DEF DevInv, Dev
<1>2. r \in Reads /\ (d.rd = NoRead => r = NoRead)
      /\ (d.rd # NoRead => r.taken = d.rd.taken + 1 /\ r.n = d.rd.n /\ r.start = d.rd.start
                           /\ r.elapsed = d.rd.elapsed)
  BY <1>1 DEF Reads, NoRead, TakenRd
<1> HIDE DEF r
<1>3. d.data_len - 1 \in Nat
  BY <1>1
<1>4. e = [d EXCEPT !.data_len = @ - 1, !.rd = r]
  BY DEF Taken, r
<1> HIDE DEF e
<1>5. Dev(e) /\ Keeps(d, e) /\ e.data_len = d.data_len - 1
  BY <1>1, <1>2, <1>3, <1>4 DEF Dev, PowerOn, Keeps
<1>6. /\ e.rd = r /\ e.blocks_requested = d.blocks_requested /\ e.current_sector = d.current_sector
      /\ e.POLST = d.POLST /\ e.due = d.due /\ e.read_status_pending = d.read_status_pending
  BY <1>1, <1>4 DEF Dev, PowerOn
<1>7. ASSUME e.rd # NoRead
      PROVE  /\ Bytes(e) /\ Pace(e) /\ ~e.POLST /\ e.read_status_pending
             /\ e.rd.taken = e.rd.n * SectorBytes <=> e.data_len = 0 /\ e.blocks_requested = 0
  <2> DEFINE n == d.rd.n
             br == d.blocks_requested
             tk == d.rd.taken
             ln == d.data_len
  <2>1. d.rd # NoRead /\ Bytes(d) /\ Completion(d) /\ Pace(d)
    BY <1>1, <1>2, <1>6, <1>7 DEF ReadInv
  <2>2. n \in Nat /\ br \in Nat /\ tk \in Nat /\ ln \in Nat /\ ln > 0
    BY <1>1 DEF Dev, Reads
  <2>3. tk + ln + br * SectorBytes = n * SectorBytes
    BY <2>1 DEF Bytes
  <2>4. e.rd.taken = tk + 1 /\ e.rd.n = n /\ e.blocks_requested = br /\ e.data_len = ln - 1
        /\ e.rd.start = d.rd.start /\ e.rd.elapsed = d.rd.elapsed
    BY <1>2, <1>5, <1>6, <2>1
  <2>5. Pace(e)
    BY <1>6, <2>1, <2>4 DEF Pace
  <2> HIDE DEF n, br, tk, ln
  <2>6. br * SectorBytes \in Int /\ n * SectorBytes \in Int
        /\ (br = 0 => br * SectorBytes = 0)
        /\ (br > 0 => br * SectorBytes > 0)
    <3>1. br * SectorBytes \in Int /\ n * SectorBytes \in Int
      BY <2>2, ConstantFacts, Product
    <3>2. br = 0 => br * SectorBytes = 0
      BY ConstantFacts
    <3>3. ASSUME br > 0 PROVE br * SectorBytes > 0
      <4>1. 1 * SectorBytes <= br * SectorBytes
        BY <2>2, <3>3, ConstantFacts, ProductLe
      <4>2. 1 * SectorBytes = SectorBytes
        BY ConstantFacts
      <4>3. QED
        BY <3>1, <4>1, <4>2, ConstantFacts
    <3>4. QED
      BY <3>1, <3>2, <3>3
  <2>7. tk + 1 + (ln - 1) + br * SectorBytes = n * SectorBytes
    BY <2>2, <2>3, <2>6
  <2>8. Bytes(e)
    BY <1>6, <2>1, <2>4, <2>7 DEF Bytes, n, br
  <2>9. tk # n * SectorBytes /\ (tk + 1 = n * SectorBytes <=> ln - 1 = 0 /\ br = 0)
    BY <2>2, <2>3, <2>6
  <2>10. ~e.POLST /\ e.read_status_pending
    BY <1>6, <2>1, <2>9 DEF Completion, n, tk
  <2>11. QED
    BY <2>4, <2>5, <2>8, <2>9, <2>10
<1>8. QED
  BY <1>5, <1>7 DEF Took, e

\* XBP_GET_DATA.
LEMMA GetData ==
  ASSUME NEW d0, DevInv(d0)
  PROVE  DevInv(opera_cdrom_fifo_get_data(d0)) /\ Keeps(d0, opera_cdrom_fifo_get_data(d0))
<1> DEFINE d == cdrom_data_load_next_if_ready(d0)
           e == [d EXCEPT !.data_len = @ - 1,
                          !.rd.taken = IF d.rd = NoRead THEN 0 ELSE @ + 1]
           r == opera_cdrom_fifo_get_data(d0)
<1>1. DevInv(d) /\ Keeps(d0, d)
  BY LoadNext
<1>2. r = IF d0.POLREMASK THEN d0
          ELSE IF d.data_len = 0 THEN d
          ELSE IF e.data_len > 0 THEN e
          ELSE IF e.blocks_requested > 0 THEN cdrom_data_load_next_if_ready(e)
          ELSE cdrom_data_publish_read_status_if_ready([e EXCEPT !.POLDT = FALSE])
  BY DEF opera_cdrom_fifo_get_data
<1> HIDE DEF d
<1>3. CASE d0.POLREMASK \/ d.data_len = 0
  <2>1. r = d0 \/ r = d
    BY <1>2, <1>3
  <2>2. QED
    BY <1>1, <2>1 DEF Keeps
<1>4. CASE ~(d0.POLREMASK \/ d.data_len = 0)
  <2>1. d.data_len > 0
    BY <1>1, <1>4 DEF DevInv, Dev
  <2> HIDE DEF r
  <2>2. /\ Dev(e) /\ Keeps(d, e) /\ e.data_len = d.data_len - 1
        /\ e.rd # NoRead =>
              /\ Bytes(e) /\ Pace(e) /\ ~e.POLST /\ e.read_status_pending
              /\ e.rd.taken = e.rd.n * SectorBytes <=> e.data_len = 0 /\ e.blocks_requested = 0
    <3>1. e = Taken(d)
      BY <1>1 DEF DevInv, Dev, PowerOn, Taken, TakenRd
    <3>2. Took(d, Taken(d))
      BY <1>1, <2>1, TakeOne
    <3>3. QED
      BY <3>1, <3>2 DEF Took
  <2> HIDE DEF e
  <2>3. Keeps(d0, e)
    BY <1>1, <2>2 DEF Keeps
  <2>4. e.data_len > 0 \/ e.blocks_requested > 0 => DevInv(e)
    BY <1>1, <2>2 DEF DevInv, ReadInv, Completion, Keeps
  <2>5. CASE e.data_len > 0
    <3>1. r = e
      BY <1>2, <1>4, <2>5
    <3>2. QED
      BY <2>3, <2>4, <2>5, <3>1 DEF r
  <2>6. CASE ~(e.data_len > 0) /\ e.blocks_requested > 0
    <3>1. r = cdrom_data_load_next_if_ready(e)
      BY <1>2, <1>4, <2>6
    <3>2. DevInv(r) /\ Keeps(e, r)
      BY <2>4, <2>6, <3>1, LoadNext
    <3>3. QED
      BY <2>3, <3>2 DEF Keeps, r
  <2>7. CASE ~(e.data_len > 0) /\ ~(e.blocks_requested > 0)
    <3> DEFINE f == [e EXCEPT !.POLDT = FALSE]
    <3>0. r = cdrom_data_publish_read_status_if_ready(f)
      BY <1>2, <1>4, <2>7
    <3>1. r = cdrom_data_publish_read_status_if_ready(f) /\ e.data_len = 0 /\ e.blocks_requested = 0
      <4>1. e.data_len \in Nat /\ e.blocks_requested \in Nat
        BY <2>2 DEF Dev
      <4>2. QED
        BY <2>7, <3>0, <4>1
    <3>2. Dev(f) /\ Keeps(e, f)
      BY <2>2 DEF Dev, PowerOn, Keeps
    <3>3. /\ f.rd = e.rd /\ f.data_len = 0 /\ f.blocks_requested = 0 /\ f.POLST = e.POLST
          /\ f.current_sector = e.current_sector /\ f.due = e.due
          /\ f.read_status_pending = e.read_status_pending
      BY <2>2, <3>1 DEF Dev, PowerOn
    <3> HIDE DEF f
    <3>4. r = IF ~f.read_status_pending THEN f
              ELSE [f EXCEPT !.read_status_pending = FALSE, !.POLST = TRUE]
      BY <3>1, <3>3 DEF cdrom_data_publish_read_status_if_ready
    <3>5. Dev(r) /\ Keeps(f, r)
      <4>1. CASE ~f.read_status_pending
        <5>1. r = f
          BY <3>4, <4>1
        <5>2. QED
          BY <3>2, <5>1 DEF Keeps
      <4>2. CASE f.read_status_pending
        <5>1. r = [f EXCEPT !.read_status_pending = FALSE, !.POLST = TRUE]
          BY <3>4, <4>2
        <5>2. QED
          BY <3>2, <5>1 DEF Dev, PowerOn, Keeps
      <4>3. QED
        BY <4>1, <4>2
    <3>6. ReadInv(r)
      <4> SUFFICES ASSUME r.rd # NoRead PROVE Bytes(r) /\ Completion(r) /\ Pace(r)
        BY DEF ReadInv
      <4>1. r.rd = e.rd
        BY <3>2, <3>3, <3>4 DEF Dev, PowerOn
      <4>2. f.read_status_pending /\ r = [f EXCEPT !.read_status_pending = FALSE, !.POLST = TRUE]
        BY <2>2, <3>3, <3>4, <4>1
      <4>3. /\ r.data_len = e.data_len /\ r.blocks_requested = e.blocks_requested /\ r.POLST
            /\ r.current_sector = e.current_sector /\ r.due = e.due
        BY <3>1, <3>2, <3>3, <4>2 DEF Dev, PowerOn
      <4>4. Bytes(r) /\ Pace(r)
        BY <2>2, <4>1, <4>3 DEF Bytes, Pace
      <4>5. r.rd.taken = r.rd.n * SectorBytes
        BY <2>2, <3>1, <4>1
      <4>6. QED
        BY <4>3, <4>4, <4>5 DEF Completion
    <3>7. QED
      BY <2>3, <3>2, <3>5, <3>6, <1>1 DEF DevInv, Keeps, r
  <2>8. QED
    BY <2>5, <2>6, <2>7
<1>5. QED
  BY <1>3, <1>4

\* The recursive definition of TakeBytes has its solution: by the least length
\* for which it would have none.
LEMMA TakeExists ==
  ASSUME NEW d, NEW n \in Nat
  PROVE  \E g : g = [k \in 0..n |-> IF k = 0 THEN d ELSE opera_cdrom_fifo_get_data(g[k - 1])]
<1> DEFINE Is(g, m) == g = [k \in 0..m |-> IF k = 0 THEN d ELSE opera_cdrom_fifo_get_data(g[k - 1])]
           Bad == {m \in Nat : ~ \E g : Is(g, m)}
<1> SUFFICES ASSUME n \in Bad PROVE FALSE
  OBVIOUS
<1>1. PICK m \in Bad : \A j \in Bad : m <= j
  <2>1. Bad # {} /\ Bad \in SUBSET Nat
    OBVIOUS
  <2> HIDE DEF Bad
  <2>2. QED
    BY <2>1, Least
<1>2. CASE m = 0
  <2> DEFINE g == [k \in 0..0 |-> d]
  <2>1. Is(g, 0)
    OBVIOUS
  <2>2. QED
    BY <1>2, <2>1
<1>3. CASE m > 0
  <2>1. m - 1 \in Nat /\ ~(m <= m - 1)
    BY <1>3
  <2>2. PICK g : Is(g, m - 1)
    BY <1>1, <2>1
  <2> DEFINE h == [k \in 0..m |-> IF k = m THEN opera_cdrom_fifo_get_data(g[m - 1]) ELSE g[k]]
  <2>3. Is(h, m)
    <3>1. ASSUME NEW k \in 0..m
          PROVE  h[k] = IF k = 0 THEN d ELSE opera_cdrom_fifo_get_data(h[k - 1])
      <4>1. CASE k = m
        BY <1>3, <2>1, <2>2, <4>1
      <4>2. CASE k < m
        <5>1. h[k] = g[k] /\ k \in 0..(m - 1)
          BY <4>2
        <5>2. g[k] = IF k = 0 THEN d ELSE opera_cdrom_fifo_get_data(g[k - 1])
          BY <2>2, <5>1
        <5>3. k # 0 => h[k - 1] = g[k - 1]
          BY <4>2
        <5>4. QED
          BY <5>1, <5>2, <5>3
      <4>3. QED
        BY <4>1, <4>2
    <3>2. QED
      BY <3>1
  <2>4. QED
    BY <2>3
<1>4. QED
  BY <1>2, <1>3

\* A DMA of any length, byte by byte.
LEMMA TakeAll ==
  ASSUME NEW d, DevInv(d), NEW n \in Nat
  PROVE  DevInv(TakeBytes(d, n)) /\ Keeps(d, TakeBytes(d, n))
<1> DEFINE got[k \in 0..n] == IF k = 0 THEN d ELSE opera_cdrom_fifo_get_data(got[k - 1])
<1>1. TakeBytes(d, n) = got[n]
  BY DEF TakeBytes
<1>2. got = [k \in 0..n |-> IF k = 0 THEN d ELSE opera_cdrom_fifo_get_data(got[k - 1])]
  BY TakeExists
<1> HIDE DEF got
<1> DEFINE Bad == {k \in 0..n : ~(DevInv(got[k]) /\ Keeps(d, got[k]))}
<1> SUFFICES ASSUME n \in Bad PROVE FALSE
  BY <1>1
<1>3. PICK m \in Bad : \A j \in Bad : m <= j
  <2>1. Bad # {} /\ Bad \in SUBSET Nat
    OBVIOUS
  <2> HIDE DEF Bad
  <2>2. QED
    BY <2>1, Least
<1>4. CASE m = 0
  <2>1. got[0] = d
    BY <1>2
  <2>2. QED
    BY <1>4, <2>1 DEF Keeps
<1>5. CASE m > 0
  <2>1. m - 1 \in 0..n /\ ~(m <= m - 1) /\ m \in 0..n
    BY <1>5
  <2>2. DevInv(got[m - 1]) /\ Keeps(d, got[m - 1])
    BY <1>3, <2>1
  <2>3. got[m] = opera_cdrom_fifo_get_data(got[m - 1])
    BY <1>2, <1>5, <2>1
  <2>4. DevInv(got[m]) /\ Keeps(got[m - 1], got[m])
    BY <2>2, <2>3, GetData
  <2>5. QED
    BY <2>2, <2>4 DEF Keeps
<1>6. QED
  BY <1>4, <1>5

-----------------------------------------------------------------------------
(* Responses.                                                              *)

\* An armed launch completes: Media Access goes up.
LEMMA CompleteRestart ==
  ASSUME NEW d, DevInv(d)
  PROVE  LET e == ode_complete_restart_if_armed(d)
         IN  /\ DevInv(e) /\ ~e.restart_armed /\ (d.POLRE => e.POLRE)
             /\ (~d.restart_armed => e = d)
             /\ e.POLREMASK = d.POLREMASK /\ e.cmd_idx = d.cmd_idx /\ e.cmd = d.cmd
<1> DEFINE e == ode_complete_restart_if_armed(d)
<1>1. Dev(d) /\ ReadInv(d)
  BY DEF DevInv
<1>2. CASE ~d.restart_armed
  BY <1>2 DEF ode_complete_restart_if_armed
<1>3. CASE d.restart_armed
  <2>1. e = [[d EXCEPT !.restart_armed = FALSE, !.disc_in = TRUE, !.spin_up = TRUE,
                       !.restart_requested = TRUE] EXCEPT !.POLRE = TRUE]
    BY <1>3 DEF ode_complete_restart_if_armed, cdrom_media_access_latch
  <2>2. Dev(e) /\ ~e.restart_armed /\ e.POLRE /\ e.cmd_idx = d.cmd_idx /\ e.cmd = d.cmd
        /\ e.POLREMASK = d.POLREMASK
    BY <1>1, <2>1 DEF Dev, PowerOn
  <2>3. /\ e.rd = d.rd /\ e.data_len = d.data_len /\ e.blocks_requested = d.blocks_requested
        /\ e.current_sector = d.current_sector /\ e.POLST = d.POLST /\ e.due = d.due
        /\ e.status_len = d.status_len /\ e.read_status_pending = d.read_status_pending
    BY <1>1, <2>1 DEF Dev, PowerOn
  <2> HIDE DEF e
  <2>4. ReadInv(e)
    BY <1>1, <2>3 DEF ReadInv, Bytes, Completion, Pace
  <2>5. QED
    BY <1>3, <2>2, <2>4 DEF DevInv, e
<1>4. QED
  BY <1>2, <1>3

\* XBP_GET_STATUS: a byte of the response; the last one completes a launch.
LEMMA GetStatus ==
  ASSUME NEW d0, DevInv(d0)
  PROVE  LET e == opera_cdrom_fifo_get_status(d0)
         IN  /\ DevInv(e) /\ (d0.POLRE => e.POLRE)
             /\ (e.restart_armed => d0.restart_armed /\ e.POLRE = d0.POLRE)
<1> DEFINE d == cdrom_data_load_next_if_ready(d0)
           e == opera_cdrom_fifo_get_status(d0)
<1>1. DevInv(d) /\ Keeps(d0, d)
  BY LoadNext
<1>2. e = IF d0.POLREMASK THEN d0
          ELSE IF d.status_len > 1 THEN [d EXCEPT !.status_len = @ - 1]
          ELSE IF d.status_len = 1
            THEN ode_complete_restart_if_armed([d EXCEPT !.status_len = 0, !.POLST = FALSE])
          ELSE d
  BY DEF opera_cdrom_fifo_get_status
<1> HIDE DEF d
<1>3. Dev(d) /\ ReadInv(d) /\ d.status_len \in Nat
  BY <1>1 DEF DevInv, Dev
<1>4. CASE d0.POLREMASK \/ d.status_len = 0
  <2>1. e = d0 \/ e = d
    BY <1>2, <1>4
  <2>2. QED
    BY <1>1, <2>1 DEF Keeps
<1>5. CASE ~d0.POLREMASK /\ d.status_len > 1
  <2>1. e = [d EXCEPT !.status_len = @ - 1]
    BY <1>2, <1>5
  <2>2. d.status_len - 1 \in Nat /\ d.status_len > 0
    BY <1>3, <1>5
  <2>3. Dev(e) /\ Keeps(d, e)
    BY <1>3, <2>1, <2>2 DEF Dev, PowerOn, Keeps
  <2>4. /\ e.rd = d.rd /\ e.data_len = d.data_len /\ e.blocks_requested = d.blocks_requested
        /\ e.current_sector = d.current_sector /\ e.POLST = d.POLST /\ e.due = d.due
        /\ e.read_status_pending = d.read_status_pending
    BY <1>3, <2>1 DEF Dev, PowerOn
  <2> HIDE DEF e
  <2>5. ReadInv(e)
    BY <1>3, <2>2, <2>4 DEF ReadInv, Bytes, Completion, Pace
  <2>6. QED
    BY <1>1, <2>3, <2>5 DEF DevInv, Keeps, e
<1>6. CASE ~d0.POLREMASK /\ d.status_len = 1
  <2> DEFINE f == [d EXCEPT !.status_len = 0, !.POLST = FALSE]
  <2>1. e = ode_complete_restart_if_armed(f)
    BY <1>2, <1>6
  <2>2. Dev(f) /\ Keeps(d, f) /\ f.status_len = 0 /\ ~f.POLST
    BY <1>3 DEF Dev, PowerOn, Keeps
  <2>3. /\ f.rd = d.rd /\ f.data_len = d.data_len /\ f.blocks_requested = d.blocks_requested
        /\ f.current_sector = d.current_sector /\ f.due = d.due
        /\ f.read_status_pending = d.read_status_pending
    BY <1>3 DEF Dev, PowerOn
  <2> HIDE DEF f, e
  <2>4. ReadInv(f)
    BY <1>3, <2>2, <2>3 DEF ReadInv, Bytes, Completion, Pace
  <2>5. DevInv(f)
    BY <1>1, <2>2, <2>4 DEF DevInv, Keeps
  <2>6. DevInv(e) /\ ~e.restart_armed /\ (f.POLRE => e.POLRE)
    BY <2>1, <2>5, CompleteRestart
  <2>7. QED
    BY <1>1, <2>2, <2>6 DEF Keeps, e
<1>7. QED
  BY <1>3, <1>4, <1>5, <1>6

-----------------------------------------------------------------------------
(* Commands.                                                               *)

\* What a command may do to a drive d that is neither armed nor held in reset:
\* keep Media Access or raise it, and arm a launch only without raising it.
Ran(d, e) ==
  /\ Dev(e) /\ ReadInv(e)
  /\ (d.POLRE => e.POLRE) /\ (e.restart_armed => e.POLRE = d.POLRE) /\ ~e.POLREMASK

\* The response to a command.
LEMMA StatusTagged ==
  ASSUME NEW d, Dev(d), d.rd = NoRead
  PROVE  LET e == cdrom_status_tagged(d)
         IN  /\ Dev(e) /\ e.rd = NoRead /\ e.POLRE = d.POLRE /\ e.POLREMASK = d.POLREMASK
             /\ e.restart_armed = d.restart_armed
BY DEF cdrom_status_tagged, Dev, PowerOn, ResponseBytes

\* The transfer is given up.
LEMMA ClearTransfer ==
  ASSUME NEW d, Dev(d), d.rd = NoRead
  PROVE  LET e == cdrom_data_clear_transfer(d)
         IN  /\ Dev(e) /\ e.rd = NoRead /\ e.POLRE = d.POLRE /\ e.POLREMASK = d.POLREMASK
             /\ e.restart_armed = d.restart_armed /\ e.disc_in = d.disc_in /\ e.spin_up = d.spin_up
             /\ e.playlist = d.playlist
BY DEF cdrom_data_clear_transfer, cdrom_data_reset_readahead_state, Dev, PowerOn

\* READ_DATA: an error, a read of no blocks, or a read that begins balanced.
LEMMA ReadData ==
  ASSUME NEW d, Dev(d), d.rd = NoRead, ~d.POLST, ~d.restart_armed, ~d.POLREMASK,
         NEW lba \in 0..DiscBlocks, NEW n \in 0..MaxBlocks
  PROVE  Ran(d, cdrom_cmd_read_data(d, lba, n)) /\ ~cdrom_cmd_read_data(d, lba, n).restart_armed
<1> DEFINE e   == cdrom_cmd_read_data(d, lba, n)
           clr == [cdrom_data_clear_transfer(d) EXCEPT !.current_sector = lba]
           pre == [d EXCEPT !.status_len = ResponseBytes, !.current_sector = lba]
           rst == IF d.read_have_expected_lba \/ d.audio_clock_active \/ d.data_len > 0
                    THEN cdrom_data_abort_readahead(pre) ELSE pre
           new == [rst EXCEPT !.blocks_requested = n, !.data_len = 0,
                              !.audio_clock_active = FALSE,
                              !.read_have_expected_lba = (n # 0)]
           end == [new EXCEPT !.POLST = TRUE]
           rd  == [start |-> lba, n |-> n, taken |-> 0, elapsed |-> 0]
           run == [new EXCEPT !.read_status_pending = TRUE, !.due = SectorCycles, !.rd = rd]
<1>1. \/ e = cdrom_status_tagged(d)
      \/ e = cdrom_status_tagged(clr)
      \/ e = end
      \/ e = cdrom_data_load_next_if_ready(run) /\ n # 0 /\ lba + n <= DiscBlocks
  <2>1. n \in Nat /\ lba \in Nat /\ DiscBlocks \in Nat
    BY ConstantFacts
  <2> HIDE DEF clr, end, run
  <2>2. e = CASE ~(d.disc_in /\ d.spin_up) -> cdrom_status_tagged(d)
              [] d.disc_in /\ d.spin_up /\ n # 0 /\ (lba >= DiscBlocks \/ n > DiscBlocks - lba)
                   -> cdrom_status_tagged(clr)
              [] d.disc_in /\ d.spin_up /\ n = 0 -> end
              [] OTHER -> cdrom_data_load_next_if_ready(run)
    BY DEF cdrom_cmd_read_data, clr, end, run
  <2> HIDE DEF e
  <2>3. CASE ~(d.disc_in /\ d.spin_up)
    BY <2>2, <2>3
  <2>4. CASE d.disc_in /\ d.spin_up /\ n # 0 /\ (lba >= DiscBlocks \/ n > DiscBlocks - lba)
    BY <2>2, <2>4
  <2>5. CASE d.disc_in /\ d.spin_up /\ n = 0
    BY <2>2, <2>5
  <2>6. CASE d.disc_in /\ d.spin_up /\ n # 0 /\ ~(lba >= DiscBlocks \/ n > DiscBlocks - lba)
    <3>1. e = cdrom_data_load_next_if_ready(run)
      BY <2>2, <2>6
    <3>2. lba + n <= DiscBlocks
      BY <2>1, <2>6
    <3>3. QED
      BY <2>6, <3>1, <3>2
  <2>7. QED
    BY <2>3, <2>4, <2>5, <2>6
<1>2. Dev(clr) /\ clr.rd = NoRead /\ clr.POLRE = d.POLRE /\ ~clr.POLREMASK /\ ~clr.restart_armed
  <2> DEFINE c == cdrom_data_clear_transfer(d)
  <2>1. Dev(c) /\ c.rd = NoRead /\ c.POLRE = d.POLRE /\ ~c.POLREMASK /\ ~c.restart_armed
    BY ClearTransfer
  <2>2. clr = [c EXCEPT !.current_sector = lba] /\ lba \in Nat
    BY ConstantFacts
  <2> HIDE DEF c, clr
  <2>3. QED
    BY <2>1, <2>2 DEF Dev, PowerOn
<1>3. Dev(pre) /\ pre.rd = NoRead /\ pre.POLRE = d.POLRE /\ ~pre.POLREMASK /\ ~pre.POLST
      /\ pre.current_sector = lba /\ pre.restart_armed = d.restart_armed
  <2>1. lba \in Nat /\ ResponseBytes \in Nat
    BY ConstantFacts DEF ResponseBytes
  <2>2. QED
    BY <2>1 DEF Dev, PowerOn
<1>4. Dev(rst) /\ rst.rd = NoRead /\ rst.POLRE = d.POLRE /\ ~rst.POLREMASK /\ ~rst.POLST
      /\ rst.current_sector = lba /\ ~rst.restart_armed
  <2> DEFINE ab == cdrom_data_abort_readahead(pre)
  <2> HIDE DEF pre
  <2>1. Dev(ab) /\ ab.rd = NoRead /\ ab.POLRE = d.POLRE /\ ~ab.POLREMASK /\ ~ab.POLST
        /\ ab.current_sector = lba /\ ab.restart_armed = d.restart_armed
    BY <1>3 DEF cdrom_data_abort_readahead, cdrom_data_reset_readahead_state, Dev, PowerOn
  <2> HIDE DEF ab
  <2>2. rst = ab \/ rst = pre
    BY DEF ab
  <2> HIDE DEF rst
  <2>3. QED
    BY <1>3, <2>1, <2>2
<1>5. Dev(new) /\ new.rd = NoRead /\ new.POLRE = d.POLRE /\ ~new.POLREMASK /\ ~new.POLST
      /\ new.current_sector = lba /\ ~new.restart_armed /\ new.blocks_requested = n
      /\ new.data_len = 0
  <2>1. n \in Nat /\ (n # 0) \in BOOLEAN
    BY ConstantFacts
  <2> HIDE DEF rst
  <2>2. QED
    BY <1>4, <2>1 DEF Dev, PowerOn
<1>6. Dev(end) /\ end.rd = NoRead /\ end.POLRE = d.POLRE /\ ~end.POLREMASK /\ ~end.restart_armed
  <2> HIDE DEF new
  <2>1. QED
    BY <1>5 DEF Dev, PowerOn
<1>7. ASSUME n # 0, lba + n <= DiscBlocks
      PROVE  Dev(run) /\ ReadInv(run) /\ run.POLRE = d.POLRE /\ ~run.POLREMASK /\ ~run.restart_armed
  <2>1. n \in Nat /\ lba \in Nat /\ rd \in Reads /\ SectorCycles \in Int
    BY ConstantFacts DEF Reads
  <2>2. rd.start = lba /\ rd.n = n /\ rd.taken = 0 /\ rd.elapsed = 0
    OBVIOUS
  <2> HIDE DEF new, rd
  <2>3. Dev(run) /\ run.POLRE = d.POLRE /\ ~run.POLREMASK /\ ~run.restart_armed
    BY <1>5, <2>1 DEF Dev, PowerOn
  <2>4. /\ run.rd = rd /\ run.data_len = 0 /\ run.blocks_requested = n
        /\ run.current_sector = lba /\ ~run.POLST /\ run.due = SectorCycles
        /\ run.read_status_pending
    BY <1>5 DEF Dev, PowerOn
  <2> HIDE DEF run
  <2>5. n * SectorBytes \in Int /\ (n - n) * SectorCycles = 0 /\ n * SectorBytes > 0
    <3>1. n - n = 0 /\ 0 * SectorCycles = 0
      BY <2>1, ConstantFacts
    <3>2. n * SectorBytes \in Int
      BY <2>1, ConstantFacts, Product
    <3>3. 1 * SectorBytes <= n * SectorBytes /\ 1 * SectorBytes = SectorBytes
      BY <1>7, <2>1, ConstantFacts, ProductLe
    <3>4. QED
      BY <3>1, <3>2, <3>3, ConstantFacts
  <2>6. Bytes(run)
    BY <1>7, <2>1, <2>2, <2>4, <2>5 DEF Bytes
  <2>7. Completion(run)
    BY <2>2, <2>4, <2>5 DEF Completion
  <2>8. Pace(run)
    BY <2>1, <2>2, <2>4, <2>5, ConstantFacts DEF Pace
  <2>9. QED
    BY <2>3, <2>6, <2>7, <2>8 DEF ReadInv, run
<1> HIDE DEF clr, new, end, run, e
<1>8. CASE e = cdrom_status_tagged(d)
  BY <1>8, StatusTagged DEF Ran, ReadInv, e
<1>9. CASE e = cdrom_status_tagged(clr)
  <2>1. Dev(e) /\ e.rd = NoRead /\ e.POLRE = d.POLRE /\ ~e.POLREMASK /\ ~e.restart_armed
    BY <1>2, <1>9, StatusTagged
  <2>2. QED
    BY <2>1 DEF Ran, ReadInv, e
<1>10. CASE e = end
  BY <1>6, <1>10 DEF Ran, ReadInv, e
<1>11. CASE e = cdrom_data_load_next_if_ready(run) /\ n # 0 /\ lba + n <= DiscBlocks
  <2>1. Dev(run) /\ ReadInv(run) /\ run.POLRE = d.POLRE /\ ~run.POLREMASK /\ ~run.restart_armed
    BY <1>7, <1>11
  <2>2. Dev(e) /\ ReadInv(e) /\ Keeps(run, e)
    BY <1>11, <2>1, LoadNextRead
  <2>3. QED
    BY <2>1, <2>2 DEF Ran, Keeps, e
<1>12. QED
  BY <1>1, <1>8, <1>9, <1>10, <1>11

\* A command, whichever it is.
LEMMA DoCmd ==
  ASSUME NEW d0, Dev(d0), ~d0.restart_armed, ~d0.POLREMASK, NEW c \in Commands
  PROVE  /\ Ran(d0, opera_cdrom_do_cmd(d0, c))
         /\ c.op = "ABORT" => ~opera_cdrom_do_cmd(d0, c).restart_armed
<1> DEFINE d == [d0 EXCEPT !.status_len = 0, !.POLST = FALSE, !.POLDT = FALSE, !.rd = NoRead]
           e == opera_cdrom_do_cmd(d0, c)
           Plain(f) == /\ Dev(f) /\ f.rd = NoRead /\ (d.POLRE => f.POLRE)
                       /\ (f.restart_armed => f.POLRE = d.POLRE) /\ ~f.POLREMASK
<1>1. Dev(d) /\ d.rd = NoRead /\ ~d.POLST /\ ~d.restart_armed /\ ~d.POLREMASK /\ d.POLRE = d0.POLRE
  <2>1. NoRead \in Reads
    BY DEF NoRead, Reads
  <2>2. QED
    BY <2>1 DEF Dev, PowerOn
<1>2. e = CASE c.op = "READ_DATA"           -> cdrom_cmd_read_data(d, c.lba, c.n)
            [] c.op \in {"ABORT", "RESET"}  -> cdrom_status_tagged(cdrom_data_clear_transfer(d))
            [] c.op = "READ_ID"             -> cdrom_status_tagged(d)
            [] c.op \in {"SPIN_UP", "SPIN_DOWN"} -> cdrom_cmd_spin(d, c.op)
            [] c.op = "EJECT_DISC"          -> cdrom_cmd_eject_disc(d)
            [] c.op = "INJECT_DISC"         -> cdrom_cmd_inject_disc(d)
            [] c.op = "PLAY_AUDIO_MSF"      -> cdrom_cmd_play_audio(d)
            [] c.op = "ODE_ADD_PLAYLIST"    -> cdrom_status_tagged([d EXCEPT !.playlist = TRUE])
            [] c.op = "ODE_CLEAR_PLAYLIST"  -> cdrom_status_tagged([d EXCEPT !.playlist = FALSE])
            [] c.op = "ODE_LAUNCH_PLAYLIST" -> ode_launch_playlist(d)
            [] c.op = "ODE_READ_TOC_LIST"   -> ode_data_response(d)
  BY DEF opera_cdrom_do_cmd
<1>3. c.op = "READ_DATA" => c.lba \in 0..DiscBlocks /\ c.n \in 0..MaxBlocks
  BY DEF Commands, ReadCommands, PlainCommands
<1>4. c.op \in {"READ_DATA", "ABORT", "RESET", "READ_ID", "SPIN_UP", "SPIN_DOWN", "EJECT_DISC",
                "INJECT_DISC", "PLAY_AUDIO_MSF", "ODE_ADD_PLAYLIST", "ODE_CLEAR_PLAYLIST",
                "ODE_LAUNCH_PLAYLIST", "ODE_READ_TOC_LIST"}
  BY DEF Commands, ReadCommands, PlainCommands
<1> DEFINE k == cdrom_data_clear_transfer(d)
<1>5. Dev(k) /\ k.rd = NoRead /\ k.POLRE = d.POLRE /\ ~k.POLREMASK /\ ~k.restart_armed
  BY <1>1, ClearTransfer
<1> HIDE DEF d, e, k
<1>6. CASE c.op = "READ_DATA"
  <2>1. e = cdrom_cmd_read_data(d, c.lba, c.n)
    BY <1>2, <1>6
  <2>2. Ran(d, e)
    BY <1>1, <1>3, <1>6, <2>1, ReadData
  <2>3. QED
    BY <1>1, <1>6, <2>2 DEF Ran, e
<1>7. CASE c.op \in {"ABORT", "RESET"}
  <2>1. e = cdrom_status_tagged(k)
    BY <1>2, <1>7 DEF k
  <2>2. Plain(e) /\ ~e.restart_armed
    BY <1>5, <2>1, StatusTagged
  <2>3. QED
    BY <1>1, <2>2 DEF Ran, ReadInv, e
<1>8. CASE c.op = "READ_ID"
  <2>1. e = cdrom_status_tagged(d)
    BY <1>2, <1>8
  <2>2. Plain(e)
    BY <1>1, <2>1, StatusTagged
  <2>3. QED
    BY <1>1, <1>8, <2>2 DEF Ran, ReadInv, e
<1>9. CASE c.op \in {"SPIN_UP", "SPIN_DOWN"}
  <2> DEFINE v == IF d.disc_in THEN c.op = "SPIN_UP" ELSE d.spin_up
             f == [d EXCEPT !.spin_up = v]
  <2>1. e = cdrom_status_tagged(f)
    BY <1>2, <1>9 DEF cdrom_cmd_spin
  <2>2. v \in BOOLEAN
    BY <1>1 DEF Dev
  <2> HIDE DEF v
  <2>3. Dev(f) /\ f.rd = NoRead /\ f.POLRE = d.POLRE /\ ~f.POLREMASK /\ ~f.restart_armed
    BY <1>1, <2>2 DEF Dev, PowerOn
  <2> HIDE DEF f
  <2>4. Plain(e)
    BY <2>1, <2>3, StatusTagged
  <2>5. QED
    BY <1>1, <1>9, <2>4 DEF Ran, ReadInv, e
<1>10. CASE c.op = "EJECT_DISC"
  <2> DEFINE f == [k EXCEPT !.disc_in = FALSE, !.spin_up = FALSE]
  <2>1. e = cdrom_status_tagged(f)
    BY <1>2, <1>10 DEF cdrom_cmd_eject_disc, k
  <2>2. Dev(f) /\ f.rd = NoRead /\ f.POLRE = d.POLRE /\ ~f.POLREMASK /\ ~f.restart_armed
    BY <1>5 DEF Dev, PowerOn
  <2> HIDE DEF f
  <2>3. Plain(e)
    BY <2>1, <2>2, StatusTagged
  <2>4. QED
    BY <1>1, <1>10, <2>3 DEF Ran, ReadInv, e
<1>11. CASE c.op = "INJECT_DISC"
  <2> DEFINE f == [k EXCEPT !.disc_in = TRUE, !.spin_up = TRUE]
             h == cdrom_status_tagged(f)
  <2>1. e = [h EXCEPT !.POLRE = TRUE]
    BY <1>2, <1>11 DEF cdrom_cmd_inject_disc, cdrom_media_access_latch, k
  <2>2. Dev(f) /\ f.rd = NoRead /\ ~f.POLREMASK /\ ~f.restart_armed
    BY <1>5 DEF Dev, PowerOn
  <2> HIDE DEF f
  <2>3. Dev(h) /\ h.rd = NoRead /\ ~h.POLREMASK /\ ~h.restart_armed
    BY <2>2, StatusTagged
  <2> HIDE DEF h
  <2>4. Plain(e)
    BY <2>1, <2>3 DEF Dev, PowerOn
  <2>5. QED
    BY <1>1, <1>11, <2>4 DEF Ran, ReadInv, e
<1>12. CASE c.op = "PLAY_AUDIO_MSF"
  <2> DEFINE g == [d EXCEPT !.current_sector = DiscBlocks, !.audio_clock_active = TRUE]
             f == IF d.disc_in /\ d.spin_up THEN g ELSE d
  <2>1. e = cdrom_status_tagged(f)
    BY <1>2, <1>12 DEF cdrom_cmd_play_audio
  <2>2. Dev(g) /\ g.rd = NoRead /\ g.POLRE = d.POLRE /\ ~g.POLREMASK /\ ~g.restart_armed
    BY <1>1, ConstantFacts DEF Dev, PowerOn
  <2> HIDE DEF g
  <2>3. Dev(f) /\ f.rd = NoRead /\ f.POLRE = d.POLRE /\ ~f.POLREMASK /\ ~f.restart_armed
    BY <1>1, <2>2
  <2> HIDE DEF f
  <2>4. Plain(e)
    BY <2>1, <2>3, StatusTagged
  <2>5. QED
    BY <1>1, <1>12, <2>4 DEF Ran, ReadInv, e
<1>13. CASE c.op \in {"ODE_ADD_PLAYLIST", "ODE_CLEAR_PLAYLIST"}
  <2> DEFINE f == [d EXCEPT !.playlist = TRUE]
             g == [d EXCEPT !.playlist = FALSE]
  <2>1. e = cdrom_status_tagged(f) \/ e = cdrom_status_tagged(g)
    BY <1>2, <1>13
  <2>2. Dev(f) /\ f.rd = NoRead /\ f.POLRE = d.POLRE /\ ~f.POLREMASK /\ ~f.restart_armed
    BY <1>1 DEF Dev, PowerOn
  <2>3. Dev(g) /\ g.rd = NoRead /\ g.POLRE = d.POLRE /\ ~g.POLREMASK /\ ~g.restart_armed
    BY <1>1 DEF Dev, PowerOn
  <2> HIDE DEF f, g
  <2>4. Plain(e)
    BY <2>1, <2>2, <2>3, StatusTagged
  <2>5. QED
    BY <1>1, <1>13, <2>4 DEF Ran, ReadInv, e
<1>14. CASE c.op = "ODE_LAUNCH_PLAYLIST"
  <2> DEFINE clr == [k EXCEPT !.restart_armed = FALSE, !.pending_launch = FALSE]
             arm == [clr EXCEPT !.disc_in = FALSE, !.spin_up = FALSE,
                                !.pending_launch = TRUE, !.restart_armed = TRUE]
             f == IF d.playlist THEN arm ELSE clr
  <2>1. e = cdrom_status_tagged(f)
    BY <1>2, <1>14 DEF ode_launch_playlist, k
  <2>2. Dev(clr) /\ clr.rd = NoRead /\ clr.POLRE = d.POLRE /\ ~clr.POLREMASK
    BY <1>5 DEF Dev, PowerOn
  <2> HIDE DEF clr
  <2>3. Dev(arm) /\ arm.rd = NoRead /\ arm.POLRE = d.POLRE /\ ~arm.POLREMASK
    BY <2>2 DEF Dev, PowerOn
  <2> HIDE DEF arm
  <2>4. Dev(f) /\ f.rd = NoRead /\ f.POLRE = d.POLRE /\ ~f.POLREMASK
    BY <2>2, <2>3
  <2> HIDE DEF f
  <2>5. Plain(e)
    BY <2>1, <2>4, StatusTagged
  <2>6. QED
    BY <1>1, <1>14, <2>5 DEF Ran, ReadInv, e
<1>15. CASE c.op = "ODE_READ_TOC_LIST"
  <2> DEFINE f == [d EXCEPT !.data_len = SectorBytes, !.blocks_requested = 0]
             h == cdrom_status_tagged(f)
  <2>1. e = [h EXCEPT !.POLDT = TRUE]
    BY <1>2, <1>15 DEF ode_data_response
  <2>2. Dev(f) /\ f.rd = NoRead /\ f.POLRE = d.POLRE /\ ~f.POLREMASK /\ ~f.restart_armed
    BY <1>1, ConstantFacts DEF Dev, PowerOn
  <2> HIDE DEF f
  <2>3. Dev(h) /\ h.rd = NoRead /\ h.POLRE = d.POLRE /\ ~h.POLREMASK /\ ~h.restart_armed
    BY <2>2, StatusTagged
  <2> HIDE DEF h
  <2>4. Plain(e)
    BY <2>1, <2>3 DEF Dev, PowerOn
  <2>5. QED
    BY <1>1, <1>15, <2>4 DEF Ran, ReadInv, e
<1>16. QED
  BY <1>4, <1>6, <1>7, <1>8, <1>9, <1>10, <1>11, <1>12, <1>13, <1>14, <1>15

\* A byte of a command.  Media Access stays up; a launch is armed only by the
\* last byte, with Media Access as it was, and never next to one that is armed.
LEMMA SendCmd ==
  ASSUME NEW d0, DevInv(d0), NEW c \in Commands, d0.cmd_idx # 0 => c = d0.cmd
  PROVE  LET e == opera_cdrom_send_cmd(d0, c)
         IN  /\ DevInv(e) /\ (d0.POLRE => e.POLRE)
             /\ (e.restart_armed => ~d0.restart_armed /\ e.POLRE = d0.POLRE)
<1> DEFINE e == opera_cdrom_send_cmd(d0, c)
           x == ode_complete_restart_if_armed(d0)
           w == [x EXCEPT !.status_len = 0, !.POLST = FALSE]
           f == [w EXCEPT !.cmd = c, !.rd = NoRead]
           d == IF d0.cmd_idx = 0 THEN f ELSE d0
           a == [d EXCEPT !.cmd_idx = @ + 1]
           r == opera_cdrom_do_cmd(a, a.cmd)
           q == [r EXCEPT !.cmd_idx = 0, !.cmd = NoCommand]
<1>1. e = IF d0.POLREMASK THEN d0
          ELSE IF a.cmd_idx >= CommandBytes \/ a.cmd.op = "ABORT" THEN q
          ELSE a
  BY DEF opera_cdrom_send_cmd, cdrom_drain_pending_status
<1>2. CASE d0.POLREMASK
  <2>1. e = d0
    BY <1>1, <1>2
  <2>2. QED
    BY <1>2, <2>1 DEF DevInv
<1>3. CASE ~d0.POLREMASK
  <2>1. /\ DevInv(x) /\ ~x.restart_armed /\ (d0.POLRE => x.POLRE)
        /\ (~d0.restart_armed => x.POLRE = d0.POLRE)
        /\ x.POLREMASK = d0.POLREMASK /\ x.cmd_idx = d0.cmd_idx
    BY CompleteRestart
  <2> HIDE DEF x
  <2>2. NoRead \in Reads
    BY DEF NoRead, Reads
  <2>3. Dev(w) /\ w.POLRE = x.POLRE /\ w.POLREMASK = x.POLREMASK /\ ~w.restart_armed
        /\ w.cmd_idx = x.cmd_idx
    BY <2>1 DEF DevInv, Dev, PowerOn
  <2> HIDE DEF w
  <2>4. Dev(f) /\ f.rd = NoRead /\ f.POLRE = x.POLRE /\ ~f.POLREMASK /\ ~f.restart_armed
        /\ f.cmd = c /\ f.cmd_idx = d0.cmd_idx
    BY <1>3, <2>1, <2>2, <2>3 DEF Dev, PowerOn
  <2> HIDE DEF f
  <2>5. /\ Dev(d) /\ ReadInv(d) /\ ~d.POLREMASK /\ ~d.restart_armed /\ d.cmd \in Commands
        /\ d.cmd_idx = d0.cmd_idx /\ d.cmd_idx \in Nat
        /\ (d0.POLRE => d.POLRE) /\ (~d0.restart_armed => d.POLRE = d0.POLRE)
        /\ (d0.restart_armed => d.cmd_idx = 0)
    <3>1. CASE d0.cmd_idx = 0
      <4>1. d = f
        BY <3>1
      <4> HIDE DEF d
      <4>2. QED
        BY <2>1, <2>4, <3>1, <4>1 DEF ReadInv
    <3>2. CASE d0.cmd_idx # 0
      <4>1. d = d0
        BY <3>2
      <4> HIDE DEF d
      <4>2. QED
        BY <1>3, <3>2, <4>1 DEF DevInv, Dev
    <3>3. QED
      BY <3>1, <3>2
  <2> HIDE DEF d
  <2>6. d.cmd_idx + 1 \in Nat
    BY <2>5
  <2>7. Dev(a) /\ ~a.POLREMASK /\ ~a.restart_armed /\ a.cmd = d.cmd /\ a.POLRE = d.POLRE
        /\ a.cmd_idx = d.cmd_idx + 1
    BY <2>5, <2>6 DEF Dev, PowerOn
  <2>8. /\ a.rd = d.rd /\ a.data_len = d.data_len /\ a.blocks_requested = d.blocks_requested
        /\ a.current_sector = d.current_sector /\ a.POLST = d.POLST /\ a.due = d.due
        /\ a.status_len = d.status_len /\ a.read_status_pending = d.read_status_pending
    BY <2>5 DEF Dev, PowerOn
  <2> HIDE DEF a
  <2>9. ReadInv(a)
    BY <2>5, <2>8 DEF ReadInv, Bytes, Completion, Pace
  <2>10. CASE a.cmd_idx >= CommandBytes \/ a.cmd.op = "ABORT"
    <3>1. e = q
      BY <1>1, <1>3, <2>10
    <3>2. Ran(a, r) /\ (a.cmd.op = "ABORT" => ~r.restart_armed)
      BY <2>5, <2>7, DoCmd
    <3> HIDE DEF r
    <3>3. NoCommand \in Commands \cup {NoCommand}
      OBVIOUS
    <3>4. Dev(q) /\ q.POLRE = r.POLRE /\ q.POLREMASK = r.POLREMASK /\ q.cmd_idx = 0
          /\ q.restart_armed = r.restart_armed
      BY <3>2, <3>3 DEF Ran, Dev, PowerOn
    <3>5. /\ q.rd = r.rd /\ q.data_len = r.data_len /\ q.blocks_requested = r.blocks_requested
          /\ q.current_sector = r.current_sector /\ q.POLST = r.POLST /\ q.due = r.due
          /\ q.status_len = r.status_len /\ q.read_status_pending = r.read_status_pending
      BY <3>2 DEF Ran, Dev, PowerOn
    <3> HIDE DEF q, e
    <3>6. ReadInv(q)
      BY <3>2, <3>5 DEF Ran, ReadInv, Bytes, Completion, Pace
    <3>7. DevInv(q)
      BY <3>2, <3>4, <3>6 DEF DevInv, Ran
    <3>8. d0.restart_armed => ~r.restart_armed
      <4> SUFFICES ASSUME d0.restart_armed PROVE ~r.restart_armed
        OBVIOUS
      <4>1. a.cmd_idx = 1
        BY <2>5, <2>7
      <4>2. a.cmd.op = "ABORT"
        BY <2>10, <4>1, ConstantFacts
      <4>3. QED
        BY <3>2, <4>2
    <3>9. d0.POLRE => q.POLRE
      BY <2>5, <2>7, <3>2, <3>4 DEF Ran
    <3>10. q.restart_armed => ~d0.restart_armed /\ q.POLRE = d0.POLRE
      BY <2>5, <2>7, <3>2, <3>4, <3>8 DEF Ran
    <3>11. QED
      BY <3>1, <3>7, <3>9, <3>10 DEF e
  <2>11. CASE ~(a.cmd_idx >= CommandBytes \/ a.cmd.op = "ABORT")
    <3>1. e = a
      BY <1>1, <1>3, <2>11
    <3> HIDE DEF e
    <3>2. DevInv(a)
      BY <2>5, <2>7, <2>9 DEF DevInv
    <3>3. QED
      BY <2>5, <2>7, <3>1, <3>2 DEF e
  <2>12. QED
    BY <2>10, <2>11
<1>4. QED
  BY <1>2, <1>3

\* A write of the poll register: Media Access goes down only where the write asks
\* for it, and comes up only on a drive that was held in reset.
LEMMA SetPoll ==
  ASSUME NEW d, DevInv(d), NEW st \in BOOLEAN, NEW dt \in BOOLEAN, NEW rst \in BOOLEAN,
         NEW re \in BOOLEAN
  PROVE  LET e == opera_cdrom_set_poll(d, st, dt, rst, re)
         IN  /\ DevInv(e)
             /\ (e.restart_armed => d.restart_armed /\ (e.POLRE => d.POLRE))
<1> DEFINE e == opera_cdrom_set_poll(d, st, dt, rst, re)
           l == cdrom_device_local_reset(d)
           a == IF ~d.POLREMASK /\ rst THEN l ELSE d
           v == a.POLRE /\ ~re
           b == [a EXCEPT !.POLRE = v, !.POLSTMASK = st, !.POLDTMASK = dt, !.POLREMASK = rst]
<1>1. Dev(d) /\ ReadInv(d) /\ (d.restart_armed => ~d.POLREMASK)
  BY DEF DevInv
<1>2. Dev(l) /\ l.rd = NoRead /\ ~l.restart_armed /\ l.cmd_idx = 0
  <2>1. NoRead \in Reads /\ NoCommand \in Commands \cup {NoCommand}
    BY DEF NoRead, Reads
  <2> DEFINE t == cdrom_data_clear_transfer(d)
             g == cdrom_fifo_reset(d)
             u == g.pending_launch /\ d.restart_requested
  <2>2. Dev(t)
    BY <1>1 DEF cdrom_data_clear_transfer, cdrom_data_reset_readahead_state, Dev, PowerOn
  <2>3. g = [t EXCEPT !.status_len = 0, !.cmd_idx = 0, !.cmd = NoCommand, !.POLST = FALSE]
    BY DEF cdrom_fifo_reset
  <2> HIDE DEF t, g
  <2>4. Dev(g) /\ g.cmd_idx = 0
    BY <2>1, <2>2, <2>3 DEF Dev, PowerOn
  <2>5. l = [g EXCEPT !.current_sector = 0, !.restart_armed = FALSE, !.rd = NoRead,
                      !.pending_launch = u]
    BY <2>4 DEF cdrom_device_local_reset, g, Dev, PowerOn
  <2>6. u \in BOOLEAN
    OBVIOUS
  <2> HIDE DEF u, l
  <2>7. QED
    BY <2>1, <2>4, <2>5, <2>6 DEF Dev, PowerOn
<1> HIDE DEF l
<1>3. Dev(a) /\ ReadInv(a) /\ (a.cmd_idx # 0 => a.cmd \in Commands)
      /\ (a.restart_armed => a.cmd_idx = 0 /\ a.POLRE = d.POLRE /\ d.restart_armed /\ ~d.POLREMASK /\ ~rst)
  <2>1. CASE ~d.POLREMASK /\ rst
    BY <1>2, <2>1 DEF ReadInv
  <2>2. CASE ~(~d.POLREMASK /\ rst)
    BY <1>1, <2>2 DEF DevInv
  <2>3. QED
    BY <2>1, <2>2
<1>4. e = IF d.POLREMASK /\ ~rst THEN [b EXCEPT !.POLRE = TRUE] ELSE b
  <2>1. DOMAIN a = DOMAIN PowerOn
    BY <1>3 DEF Dev
  <2>2. b = [a EXCEPT !.POLRE = @ /\ ~re, !.POLSTMASK = st, !.POLDTMASK = dt, !.POLREMASK = rst]
    BY <2>1 DEF PowerOn
  <2>3. QED
    BY <2>2 DEF opera_cdrom_set_poll, cdrom_media_access_latch, l
<1>5. v \in BOOLEAN /\ (v => a.POLRE)
  OBVIOUS
<1> HIDE DEF a, v
<1>6. Dev(b) /\ b.POLREMASK = rst /\ b.restart_armed = a.restart_armed /\ b.POLRE = v
      /\ b.cmd_idx = a.cmd_idx /\ b.cmd = a.cmd
  BY <1>3, <1>5 DEF Dev, PowerOn
<1>7. /\ b.rd = a.rd /\ b.data_len = a.data_len /\ b.blocks_requested = a.blocks_requested
      /\ b.current_sector = a.current_sector /\ b.POLST = a.POLST /\ b.due = a.due
      /\ b.status_len = a.status_len /\ b.read_status_pending = a.read_status_pending
  BY <1>3 DEF Dev, PowerOn
<1> HIDE DEF b, e
<1>8. ReadInv(b)
  BY <1>3, <1>7 DEF ReadInv, Bytes, Completion, Pace
<1>9. DevInv(b) /\ (b.restart_armed => d.restart_armed /\ (b.POLRE => d.POLRE) /\ ~d.POLREMASK)
  BY <1>3, <1>5, <1>6, <1>8 DEF DevInv
<1>10. CASE d.POLREMASK /\ ~rst
  <2>1. e = [b EXCEPT !.POLRE = TRUE]
    BY <1>4, <1>10
  <2>2. Dev(e) /\ e.restart_armed = b.restart_armed /\ e.cmd_idx = b.cmd_idx /\ e.cmd = b.cmd
        /\ e.POLREMASK = b.POLREMASK
    BY <1>6, <2>1 DEF Dev, PowerOn
  <2>3. /\ e.rd = b.rd /\ e.data_len = b.data_len /\ e.blocks_requested = b.blocks_requested
        /\ e.current_sector = b.current_sector /\ e.POLST = b.POLST /\ e.due = b.due
        /\ e.status_len = b.status_len /\ e.read_status_pending = b.read_status_pending
    BY <1>6, <2>1 DEF Dev, PowerOn
  <2>4. ReadInv(e)
    BY <1>8, <2>3 DEF ReadInv, Bytes, Completion, Pace
  <2>5. QED
    BY <1>9, <1>10, <2>2, <2>4 DEF DevInv, e
<1>11. CASE ~(d.POLREMASK /\ ~rst)
  <2>1. e = b
    BY <1>4, <1>11
  <2>2. QED
    BY <1>9, <2>1 DEF e
<1>12. QED
  BY <1>10, <1>11

-----------------------------------------------------------------------------
(* Time and resets.                                                        *)

\* A clock step: what is waited for less is time gone by.
LEMMA ElapseFacts ==
  ASSUME NEW d, DevInv(d)
  PROVE  DevInv(Elapse(d)) /\ Keeps(d, Elapse(d))
<1> DEFINE e == Elapse(d)
           t == IF d.blocks_requested = 0 THEN 0
                ELSE IF d.due > -2 * SectorCycles - 1 THEN d.due - 1 ELSE d.due
           r == [d.rd EXCEPT !.elapsed = IF d.rd # NoRead /\ @ < MaxBlocks * SectorCycles
                                           THEN @ + 1 ELSE @]
<1>1. Dev(d) /\ ReadInv(d) /\ d.rd \in Reads /\ d.due \in Int /\ d.blocks_requested \in Nat
  BY DEF DevInv, Dev
<1>2. e = [d EXCEPT !.due = t, !.rd = r]
  BY <1>1 DEF Elapse, Dev, PowerOn
<1>3. t \in Int /\ (d.blocks_requested # 0 => t >= d.due - 1 /\ (t = d.due - 1 \/ t = d.due))
  BY <1>1, ConstantFacts
<1>4. r \in Reads /\ (d.rd = NoRead => r = NoRead)
      /\ r.n = d.rd.n /\ r.start = d.rd.start /\ r.taken = d.rd.taken
      /\ (d.rd # NoRead => r.elapsed = IF d.rd.elapsed < MaxBlocks * SectorCycles
                                         THEN d.rd.elapsed + 1 ELSE d.rd.elapsed)
  BY <1>1 DEF Reads, NoRead
<1> HIDE DEF t, r
<1>5. Dev(e) /\ Keeps(d, e)
  BY <1>1, <1>2, <1>3, <1>4 DEF Dev, PowerOn, Keeps
<1>6. /\ e.rd = r /\ e.data_len = d.data_len /\ e.blocks_requested = d.blocks_requested
      /\ e.current_sector = d.current_sector /\ e.POLST = d.POLST /\ e.due = t
      /\ e.status_len = d.status_len /\ e.read_status_pending = d.read_status_pending
  BY <1>1, <1>2 DEF Dev, PowerOn
<1> HIDE DEF e
<1>7. ReadInv(e)
  <2> SUFFICES ASSUME e.rd # NoRead PROVE Bytes(e) /\ Completion(e) /\ Pace(e)
    BY DEF ReadInv
  <2>1. d.rd # NoRead /\ Bytes(d) /\ Completion(d) /\ Pace(d)
    BY <1>1, <1>4, <1>6 DEF ReadInv
  <2>2. Bytes(e) /\ Completion(e)
    BY <1>4, <1>6, <2>1 DEF Bytes, Completion
  <2> DEFINE cap == MaxBlocks * SectorCycles
             old == (d.rd.n - d.blocks_requested) * SectorCycles
             el  == d.rd.elapsed
  <2>3. cap \in Int /\ old \in Int /\ el \in Nat
    <3>1. d.rd.n \in Nat /\ el \in Nat
      BY <1>1 DEF Reads
    <3>2. d.rd.n - d.blocks_requested \in Int
      BY <1>1, <3>1
    <3>3. QED
      BY <3>1, <3>2, ConstantFacts, Product
  <2>4. old <= el /\ (d.blocks_requested > 0 => el >= cap \/ el + d.due >= old + SectorCycles)
    BY <2>1 DEF Pace
  <2>5. r.elapsed = IF el < cap THEN el + 1 ELSE el
    BY <1>4, <2>1
  <2> HIDE DEF cap, old, el
  <2>6. old <= r.elapsed
    BY <2>3, <2>4, <2>5
  <2>7. d.blocks_requested > 0 => r.elapsed >= cap \/ r.elapsed + t >= old + SectorCycles
    <3> SUFFICES ASSUME d.blocks_requested > 0, ~(r.elapsed >= cap)
                 PROVE  r.elapsed + t >= old + SectorCycles
      OBVIOUS
    <3>1. r.elapsed = el + 1 /\ ~(el >= cap)
      BY <2>3, <2>5
    <3>2. el + d.due >= old + SectorCycles
      BY <2>4, <3>1
    <3>3. t >= d.due - 1
      BY <1>1, <1>3
    <3>4. QED
      BY <1>1, <1>3, <2>3, <3>1, <3>2, <3>3, ConstantFacts
  <2>8. Pace(e)
    BY <1>4, <1>6, <2>1, <2>6, <2>7 DEF Pace, cap, old
  <2>9. QED
    BY <2>2, <2>8
<1>8. QED
  BY <1>5, <1>7 DEF DevInv, Keeps, e

\* A drive as it is initialized, with a launch that survives or without.
LEMMA InitDevice ==
  ASSUME NEW d
  PROVE  LET e == opera_cdrom_init(d)
         IN  DevInv(e) /\ e.POLRE /\ ~e.restart_armed
<1> DEFINE v == (d.restart_armed \/ d.restart_requested) /\ d.pending_launch
           e == [PowerOn EXCEPT !.pending_launch = v, !.restart_requested = v]
<1>1. opera_cdrom_init(d) = e /\ v \in BOOLEAN
  BY DEF opera_cdrom_init
<1>2. NoRead \in Reads /\ NoCommand \in Commands \cup {NoCommand}
  BY DEF NoRead, Reads
<1> HIDE DEF v
<1>3. Dev(e) /\ e.rd = NoRead /\ e.cmd_idx = 0 /\ e.POLRE /\ ~e.restart_armed
  BY <1>1, <1>2 DEF Dev, PowerOn
<1> HIDE DEF e
<1>4. DevInv(e)
  BY <1>3 DEF DevInv, ReadInv
<1>5. QED
  BY <1>1, <1>3, <1>4

\* The drive at power on.
LEMMA PowerOnDevice == DevInv(PowerOn) /\ PowerOn.POLRE /\ ~PowerOn.restart_armed
<1>1. NoRead \in Reads /\ NoCommand \in Commands \cup {NoCommand}
  BY DEF NoRead, Reads
<1>2. Dev(PowerOn) /\ PowerOn.rd = NoRead /\ PowerOn.cmd_idx = 0 /\ PowerOn.POLRE
      /\ ~PowerOn.restart_armed
  BY <1>1 DEF Dev, PowerOn
<1>3. QED
  BY <1>2 DEF DevInv, ReadInv

-----------------------------------------------------------------------------
(* The bus.                                                                *)

Latches == Units \cup {NoUnit}

TypeInv ==
  /\ Dev(cd) /\ sel \in Units /\ dipir \in Latches \X Latches /\ dma \in Nat
  /\ fiq \in BOOLEAN /\ launcher \in Latches

IInv == TypeInv /\ DevInv(cd) /\ LaunchResponseReadable

\* What every step but a poll write does to Media Access, and what no step does
\* to a launch that is armed.
Step ==
  /\ DevInv(cd')
  /\ cd'.restart_armed => cd.restart_armed /\ (cd'.POLRE => cd.POLRE)

\* A latch of Media Access: latches, among them the unit unless both were taken.
LEMMA MediaAccess ==
  ASSUME NEW l \in Latches \X Latches, NEW u \in Units
  PROVE  LET k == opera_clio_xbus_media_access(l, u)
         IN  k \in Latches \X Latches /\ (u \in {k[1], k[2]} \/ NoUnit \notin {k[1], k[2]})
<1> DEFINE k == opera_clio_xbus_media_access(l, u)
<1>1. l[1] \in Latches /\ l[2] \in Latches /\ u \in Latches /\ l = <<l[1], l[2]>>
  BY DEF Latches
<1>2. CASE u \in {l[1], l[2]}
  BY <1>2 DEF opera_clio_xbus_media_access
<1>3. CASE u \notin {l[1], l[2]} /\ l[1] = NoUnit
  <2>1. k = <<u, l[2]>>
    BY <1>3 DEF opera_clio_xbus_media_access
  <2>2. QED
    BY <1>1, <2>1
<1>4. CASE u \notin {l[1], l[2]} /\ l[1] # NoUnit /\ l[2] = NoUnit
  <2>1. k = <<l[1], u>>
    BY <1>4 DEF opera_clio_xbus_media_access
  <2>2. QED
    BY <1>1, <2>1
<1>5. CASE u \notin {l[1], l[2]} /\ l[1] # NoUnit /\ l[2] # NoUnit
  <2>1. k = l
    BY <1>5 DEF opera_clio_xbus_media_access
  <2>2. QED
    BY <1>5, <2>1
<1>6. QED
  BY <1>2, <1>3, <1>4, <1>5

\* Media Access is latched as it was before the access.
LEMMA Latched ==
  ASSUME TypeInv, LatchMediaAccess
  PROVE  /\ dipir' \in Latches \X Latches
         /\ ~cd.POLRE => dipir' = dipir
         /\ cd.POLRE => sel \in {dipir'[1], dipir'[2]} \/ NoUnit \notin {dipir'[1], dipir'[2]}
<1>1. dipir' = IF cd.POLRE THEN opera_clio_xbus_media_access(dipir, sel) ELSE dipir
  BY DEF LatchMediaAccess
<1>2. dipir \in Latches \X Latches /\ sel \in Units
  BY DEF TypeInv
<1>3. CASE cd.POLRE
  BY <1>1, <1>2, <1>3, MediaAccess
<1>4. CASE ~cd.POLRE
  BY <1>1, <1>2, <1>4
<1>5. QED
  BY <1>3, <1>4

\* An armed launch stays readable through a step that leaves the latches, or a
\* poll write, which latches only what Media Access announces.
LEMMA LaunchKept ==
  ASSUME IInv, Step, launcher' = launcher,
         dipir' = dipir \/ (~cd.POLRE => dipir' = dipir)
  PROVE  LaunchResponseReadable'
<1> SUFFICES ASSUME cd'.restart_armed, launcher' # NoUnit
             PROVE  ~cd'.POLRE /\ ~opera_clio_xbus_access_aborts(launcher, FALSE)'
  BY DEF LaunchResponseReadable
<1>1. cd.restart_armed /\ (cd'.POLRE => cd.POLRE)
  BY DEF Step
<1>2. ~cd.POLRE /\ ~opera_clio_xbus_access_aborts(launcher, FALSE)
  BY <1>1 DEF IInv, LaunchResponseReadable
<1>3. dipir' = dipir
  BY <1>2
<1>4. QED
  BY <1>1, <1>2, <1>3 DEF opera_clio_xbus_access_aborts

\* A DMA, now or stalled.
LEMMA HandleDma ==
  ASSUME NEW d, DevInv(d), NEW n \in Nat, clio_handle_dma(d, n)
  PROVE  DevInv(cd') /\ Keeps(d, cd') /\ dma' \in Nat
<1>1. CASE n = 0 \/ opera_clio_xbus_access_aborts(sel, FALSE)
  <2>1. cd' = d /\ dma' = n
    BY <1>1 DEF clio_handle_dma
  <2>2. QED
    BY <2>1 DEF Keeps
<1>2. CASE ~(n = 0 \/ opera_clio_xbus_access_aborts(sel, FALSE))
  <2>1. (cd' = TakeBytes(d, n) \/ cd' = d) /\ dma' = 0
    BY <1>2 DEF clio_handle_dma
  <2>2. CASE cd' = TakeBytes(d, n)
    BY <2>1, <2>2, TakeAll
  <2>3. CASE cd' = d
    BY <2>1, <2>3 DEF Keeps
  <2>4. QED
    BY <2>1, <2>2, <2>3
<1>3. QED
  BY <1>1, <1>2

\* The interrupt bit is a Boolean.
LEMMA FiqType ==
  ASSUME NEW d, Dev(d), fiq \in BOOLEAN
  PROVE  (fiq \/ opera_cdrom_fiq(d)) \in BOOLEAN
BY DEF opera_cdrom_fiq, Dev

\* The DIPIR step: who may take Media Access down.
LatchedFirst ==
  cd.POLRE /\ ~cd'.POLRE => sel \in {dipir'[1], dipir'[2]} \/ NoUnit \notin {dipir'[1], dipir'[2]}

\* A step that only loads or drains data, or leaves the drive alone.
LEMMA Quiet ==
  ASSUME IInv, DevInv(cd'), Keeps(cd, cd'), UNCHANGED <<dipir, launcher>>,
         sel' \in Units, dma' \in Nat, fiq' \in BOOLEAN
  PROVE  IInv' /\ LatchedFirst
<1>1. Step
  BY DEF Step, Keeps
<1>2. LaunchResponseReadable'
  BY <1>1, LaunchKept
<1>3. TypeInv'
  BY DEF IInv, TypeInv, DevInv
<1>4. cd'.POLRE = cd.POLRE
  BY DEF Keeps
<1>5. QED
  BY <1>2, <1>3, <1>4 DEF IInv, LatchedFirst

\* A reset of the core.
LEMMA CoreResetKeeps ==
  ASSUME IInv, NEW d, CoreReset(d)
  PROVE  IInv' /\ LatchedFirst
<1>1. cd' = opera_cdrom_init(d) /\ sel' = "0x00" /\ dipir' = <<NoUnit, NoUnit>> /\ dma' = 0
      /\ fiq' = FALSE /\ launcher' = launcher
  BY DEF CoreReset
<1>2. DevInv(cd') /\ cd'.POLRE /\ ~cd'.restart_armed
  BY <1>1, InitDevice
<1>3. TypeInv'
  BY <1>1, <1>2 DEF IInv, TypeInv, DevInv, Latches, Units, CdUnits
<1>4. LaunchResponseReadable'
  BY <1>2 DEF LaunchResponseReadable
<1>5. QED
  BY <1>2, <1>3, <1>4 DEF IInv, LatchedFirst

\* A command byte.  A launch it arms has the launching unit's FIFOs open: this
\* very access went through, and with Media Access down it latched nothing.
LEMMA CommandKeeps ==
  ASSUME IInv, NEW c \in GuestCommands, opera_xbus_fifo_set_cmd(c)
  PROVE  IInv' /\ LatchedFirst
<1> DEFINE e == opera_cdrom_send_cmd(cd, c)
<1>1. /\ GuestAccess(FALSE) /\ (cd.cmd_idx # 0 => c = cd.cmd) /\ LatchMediaAccess
      /\ cd' = opera_cdrom_update_fiq(e)
      /\ fiq' = (fiq \/ opera_cdrom_fiq(cd'))
      /\ launcher' = IF ~cd'.restart_armed \/ cd.restart_armed THEN launcher
                     ELSE IF cd.POLRE THEN NoUnit ELSE sel
      /\ sel' = sel /\ dma' = dma
  BY DEF opera_xbus_fifo_set_cmd
<1>2. TypeInv /\ DevInv(cd) /\ c \in Commands
  BY GuestCommandsAssumption DEF IInv
<1>3. /\ DevInv(e) /\ (cd.POLRE => e.POLRE)
      /\ (e.restart_armed => ~cd.restart_armed /\ e.POLRE = cd.POLRE)
  BY <1>1, <1>2, SendCmd
<1> HIDE DEF e
<1>4. DevInv(cd') /\ Keeps(e, cd')
  BY <1>1, <1>3, LoadNext DEF opera_cdrom_update_fiq
<1>5. (cd.POLRE => cd'.POLRE) /\ (cd'.restart_armed => ~cd.restart_armed /\ cd'.POLRE = cd.POLRE)
  BY <1>3, <1>4 DEF Keeps
<1>6. /\ dipir' \in Latches \X Latches /\ (~cd.POLRE => dipir' = dipir)
  BY <1>1, <1>2, Latched
<1>7. fiq' \in BOOLEAN
  BY <1>1, <1>2, <1>4, FiqType DEF TypeInv, DevInv
<1>8. launcher' \in Latches
  BY <1>1, <1>2 DEF TypeInv, Latches
<1>9. TypeInv'
  BY <1>1, <1>2, <1>4, <1>6, <1>7, <1>8 DEF TypeInv, DevInv
<1>10. LaunchResponseReadable'
  <2> SUFFICES ASSUME cd'.restart_armed, launcher' # NoUnit
               PROVE  ~cd'.POLRE /\ ~opera_clio_xbus_access_aborts(launcher, FALSE)'
    BY DEF LaunchResponseReadable
  <2>1. ~cd.restart_armed /\ cd'.POLRE = cd.POLRE
    BY <1>5
  <2>2. ~cd.POLRE /\ launcher' = sel
    BY <1>1, <2>1
  <2>3. dipir' = dipir
    BY <1>6, <2>2
  <2>4. ~opera_clio_xbus_access_aborts(sel, FALSE)
    BY <1>1 DEF GuestAccess, clio_xbus_access_aborts
  <2>5. QED
    BY <2>1, <2>2, <2>3, <2>4 DEF opera_clio_xbus_access_aborts
<1>11. QED
  BY <1>4, <1>5, <1>9, <1>10 DEF IInv, LatchedFirst

\* A write to the poll register, the only step that takes Media Access down.
LEMMA PollKeeps ==
  ASSUME IInv, NEW w \in PollWrites, opera_xbus_set_poll(w)
  PROVE  IInv' /\ LatchedFirst
<1> DEFINE e == opera_cdrom_set_poll(cd, w.st, w.dt, w.rst, w.re)
<1>1. /\ LatchMediaAccess /\ cd' = opera_cdrom_update_fiq(e)
      /\ fiq' = (fiq \/ opera_cdrom_fiq(cd'))
      /\ sel' = sel /\ dma' = dma /\ launcher' = launcher
  BY DEF opera_xbus_set_poll
<1>2. TypeInv /\ DevInv(cd)
  BY DEF IInv
<1>3. w \in Controls
  BY PollWritesAssumption
<1>4. w.st \in BOOLEAN /\ w.dt \in BOOLEAN /\ w.rst \in BOOLEAN /\ w.re \in BOOLEAN
  BY <1>3 DEF Controls
<1>5. DevInv(e) /\ (e.restart_armed => cd.restart_armed /\ (e.POLRE => cd.POLRE))
  BY <1>2, <1>4, SetPoll
<1> HIDE DEF e
<1>6. DevInv(cd') /\ Keeps(e, cd')
  BY <1>1, <1>5, LoadNext DEF opera_cdrom_update_fiq
<1>7. Step
  BY <1>5, <1>6 DEF Step, Keeps
<1>8. /\ dipir' \in Latches \X Latches /\ (~cd.POLRE => dipir' = dipir)
      /\ cd.POLRE => sel \in {dipir'[1], dipir'[2]} \/ NoUnit \notin {dipir'[1], dipir'[2]}
  BY <1>1, <1>2, Latched
<1>9. fiq' \in BOOLEAN
  BY <1>1, <1>2, <1>6, FiqType DEF TypeInv, DevInv
<1>10. LaunchResponseReadable'
  BY <1>1, <1>7, <1>8, LaunchKept
<1>11. TypeInv'
  BY <1>1, <1>2, <1>6, <1>8, <1>9 DEF TypeInv, DevInv
<1>12. QED
  BY <1>6, <1>8, <1>10, <1>11 DEF IInv, LatchedFirst

\* A read of the status FIFO: the last byte of a launch's response completes it.
LEMMA StatusKeeps ==
  ASSUME IInv, opera_xbus_fifo_get_status
  PROVE  IInv' /\ LatchedFirst
<1>1. /\ cd' = opera_cdrom_fifo_get_status(cd)
      /\ sel' = sel /\ dipir' = dipir /\ dma' = dma /\ fiq' = fiq /\ launcher' = launcher
  BY DEF opera_xbus_fifo_get_status
<1>2. TypeInv /\ DevInv(cd)
  BY DEF IInv
<1>3. DevInv(cd') /\ (cd.POLRE => cd'.POLRE)
      /\ (cd'.restart_armed => cd.restart_armed /\ cd'.POLRE = cd.POLRE)
  BY <1>1, <1>2, GetStatus
<1>4. Step
  BY <1>3 DEF Step
<1>5. LaunchResponseReadable'
  BY <1>1, <1>4, LaunchKept
<1>6. TypeInv'
  BY <1>1, <1>2, <1>3 DEF TypeInv, DevInv
<1>7. QED
  BY <1>3, <1>5, <1>6 DEF IInv, LatchedFirst

\* The frontend takes the launch request.
LEMMA RestartKeeps ==
  ASSUME IInv, NEW opened \in BOOLEAN, ode_reset_if_requested(opened)
  PROVE  IInv' /\ LatchedFirst
<1> DEFINE d == [cd EXCEPT !.restart_requested = FALSE, !.pending_launch = FALSE]
<1>1. CASE cd.pending_launch /\ opened
  <2>1. CoreReset(d)
    BY <1>1 DEF ode_reset_if_requested
  <2>2. QED
    BY <2>1, CoreResetKeeps
<1>2. CASE ~(cd.pending_launch /\ opened)
  <2>1. cd' = d /\ UNCHANGED <<sel, dipir, dma, fiq, launcher>>
    BY <1>2 DEF ode_reset_if_requested
  <2>2. DevInv(cd) /\ Dev(cd) /\ ReadInv(cd) /\ TypeInv
    BY DEF IInv, DevInv
  <2>3. Dev(d) /\ Keeps(cd, d)
    BY <2>2 DEF Dev, Keeps, PowerOn
  <2>4. /\ d.rd = cd.rd /\ d.data_len = cd.data_len /\ d.blocks_requested = cd.blocks_requested
        /\ d.current_sector = cd.current_sector /\ d.POLST = cd.POLST
        /\ d.status_len = cd.status_len /\ d.read_status_pending = cd.read_status_pending
        /\ d.due = cd.due
    BY <2>2 DEF Dev, PowerOn
  <2> HIDE DEF d
  <2>5. ReadInv(d)
    BY <2>2, <2>4 DEF ReadInv, Bytes, Completion, Pace
  <2>6. DevInv(cd') /\ Keeps(cd, cd')
    BY <2>1, <2>2, <2>3, <2>5 DEF DevInv, Keeps
  <2>7. QED
    BY <2>1, <2>2, <2>6, Quiet DEF TypeInv
<1>3. QED
  BY <1>1, <1>2

LEMMA InitIInv == Init => IInv
<1> SUFFICES ASSUME Init PROVE IInv
  OBVIOUS
<1>1. DevInv(cd) /\ ~cd.restart_armed
  BY PowerOnDevice DEF Init
<1>2. QED
  BY <1>1 DEF Init, IInv, TypeInv, DevInv, LaunchResponseReadable, Latches, Units, CdUnits

LEMMA NextIInv == IInv /\ [Next]_vars => IInv' /\ (LatchedFirst \/ UNCHANGED vars)
<1> SUFFICES ASSUME IInv, [Next]_vars
             PROVE  IInv' /\ (LatchedFirst \/ UNCHANGED vars)
  OBVIOUS
<1>0. TypeInv /\ DevInv(cd) /\ sel \in Units /\ dma \in Nat /\ fiq \in BOOLEAN /\ Keeps(cd, cd)
  BY DEF IInv, TypeInv, Keeps
<1>1. CASE \E c \in GuestCommands : opera_xbus_fifo_set_cmd(c)
  BY <1>1, CommandKeeps
<1>2. CASE \E w \in PollWrites : opera_xbus_set_poll(w)
  BY <1>2, PollKeeps
<1>3. CASE opera_xbus_get_poll
  <2>1. cd' = cdrom_data_load_next_if_ready(cd) /\ UNCHANGED <<sel, dipir, dma, fiq, launcher>>
    BY <1>3 DEF opera_xbus_get_poll, opera_cdrom_update_fiq
  <2>2. DevInv(cd') /\ Keeps(cd, cd')
    BY <1>0, <2>1, LoadNext
  <2>3. QED
    BY <1>0, <2>1, <2>2, Quiet
<1>4. CASE opera_xbus_fifo_get_status
  BY <1>4, StatusKeeps
<1>5. CASE opera_xbus_fifo_get_data
  <2>1. cd' = opera_cdrom_fifo_get_data(cd) /\ UNCHANGED <<sel, dipir, dma, fiq, launcher>>
    BY <1>5 DEF opera_xbus_fifo_get_data
  <2>2. DevInv(cd') /\ Keeps(cd, cd')
    BY <1>0, <2>1, GetData
  <2>3. QED
    BY <1>0, <2>1, <2>2, Quiet
<1>6. CASE \E unit \in GuestUnits : opera_xbus_set_sel(unit)
  <2>1. PICK unit \in GuestUnits : opera_xbus_set_sel(unit)
    BY <1>6
  <2>2. sel' = unit /\ unit \in Units /\ UNCHANGED <<cd, dipir, dma, fiq, launcher>>
    BY <2>1, GuestUnitsAssumption DEF opera_xbus_set_sel
  <2>3. QED
    BY <1>0, <2>2, Quiet
<1>7. CASE \E n \in 1..MaxDma : EnableDma(n)
  <2>1. PICK n \in 1..MaxDma : EnableDma(n)
    BY <1>7
  <2>2. n \in Nat /\ clio_handle_dma(cd, n) /\ UNCHANGED <<sel, dipir, fiq, launcher>>
    BY <2>1, MaxDmaAssumption DEF EnableDma
  <2>3. DevInv(cd') /\ Keeps(cd, cd') /\ dma' \in Nat
    BY <1>0, <2>2, HandleDma
  <2>4. QED
    BY <1>0, <2>2, <2>3, Quiet
<1>8. CASE DisableDma
  <2>1. dma' = 0 /\ UNCHANGED <<cd, sel, dipir, fiq, launcher>>
    BY <1>8 DEF DisableDma
  <2>2. QED
    BY <1>0, <2>1, Quiet
<1>9. CASE ClearFiq
  <2>1. fiq' = FALSE /\ UNCHANGED <<cd, sel, dipir, dma, launcher>>
    BY <1>9 DEF ClearFiq
  <2>2. QED
    BY <1>0, <2>1, Quiet
<1>10. CASE opera_3do_dipir_reset
  <2>1. sel' = "0x00" /\ dipir' = <<NoUnit, NoUnit>> /\ UNCHANGED <<cd, dma, fiq, launcher>>
    BY <1>10 DEF opera_3do_dipir_reset
  <2>2. TypeInv'
    BY <1>0, <2>1 DEF TypeInv, Latches, Units, CdUnits
  <2>3. LaunchResponseReadable'
    BY <2>1 DEF IInv, LaunchResponseReadable, opera_clio_xbus_access_aborts
  <2>4. QED
    BY <1>0, <2>1, <2>2, <2>3 DEF IInv, LatchedFirst
<1>11. CASE opera_xbus_tick
  <2> DEFINE a == Elapse(cd)
             d == opera_cdrom_update_fiq(a)
  <2>1. /\ fiq' = (fiq \/ opera_cdrom_fiq(d)) /\ clio_handle_dma(d, dma)
        /\ UNCHANGED <<sel, dipir, launcher>>
    BY <1>11 DEF opera_xbus_tick
  <2>2. DevInv(a) /\ Keeps(cd, a)
    BY <1>0, ElapseFacts
  <2> HIDE DEF a
  <2>3. DevInv(d) /\ Keeps(a, d)
    BY <2>2, LoadNext DEF opera_cdrom_update_fiq
  <2> HIDE DEF d
  <2>4. DevInv(cd') /\ Keeps(d, cd') /\ dma' \in Nat
    BY <1>0, <2>1, <2>3, HandleDma
  <2>5. Keeps(cd, cd')
    BY <2>2, <2>3, <2>4 DEF Keeps
  <2>6. fiq' \in BOOLEAN
    BY <1>0, <2>1, <2>3, FiqType DEF DevInv
  <2>7. QED
    BY <1>0, <2>1, <2>4, <2>5, <2>6, Quiet
<1>12. CASE retro_reset
  BY <1>12, CoreResetKeeps DEF retro_reset
<1>13. CASE \E opened \in BOOLEAN : ode_reset_if_requested(opened)
  BY <1>13, RestartKeeps
<1>14. CASE UNCHANGED vars
  BY <1>14 DEF vars, IInv, TypeInv, LaunchResponseReadable, opera_clio_xbus_access_aborts
<1>15. QED
  BY <1>1, <1>2, <1>3, <1>4, <1>5, <1>6, <1>7, <1>8, <1>9, <1>10, <1>11, <1>12, <1>13, <1>14
     DEF Next

\* The inductive invariant of the bus and the drive.
THEOREM Invariance == Spec => []IInv
BY InitIInv, NextIInv, PTL DEF Spec

\* Whatever mix of polls, FIFO reads, DMAs and clock steps loads and drains a
\* READ_DATA, each of its bytes is taken once, in the FIFO or still to load.
THEOREM BytesAccounted == Spec => []ReadAccounting
<1>1. IInv => ReadAccounting
  <2> SUFFICES ASSUME IInv, cd.rd # NoRead PROVE ReadAccounting
    BY DEF ReadAccounting, Reading
  <2>1. Bytes(cd) /\ cd.current_sector \in Nat /\ cd.blocks_requested \in Nat
        /\ cd.rd.start \in Nat /\ cd.rd.n \in Nat
    BY DEF IInv, DevInv, ReadInv, Dev, Reads
  <2>2. cd.current_sector =< DiscBlocks
    BY <2>1, ConstantFacts DEF Bytes
  <2>3. QED
    BY <2>1, <2>2 DEF ReadAccounting, Bytes
<1>2. QED
  BY <1>1, Invariance, PTL

\* The completion of a READ_DATA is announced after its last byte was taken,
\* and is announced then.
THEOREM StatusFollowsData == Spec => []StatusAfterTransfer
<1>1. IInv => StatusAfterTransfer
  BY DEF IInv, DevInv, ReadInv, Completion, StatusAfterTransfer, Reading
<1>2. QED
  BY <1>1, Invariance, PTL

\* The k-th sector of a read is loaded no earlier than k sector times after the
\* command, however late the host drains the ones before.
THEOREM NeverAheadOfDisc == Spec => []Paced
<1>1. IInv => Paced
  BY DEF IInv, DevInv, ReadInv, Pace, Paced, Reading
<1>2. QED
  BY <1>1, Invariance, PTL

\* A launch accepted with Media Access down can read its response: nothing
\* raises Media Access, and no latch closes the unit's FIFOs, until it has.
THEOREM LaunchReadable == Spec => []LaunchResponseReadable
<1>1. IInv => LaunchResponseReadable
  BY DEF IInv
<1>2. QED
  BY <1>1, Invariance, PTL

\* A media change is taken down only by a poll write, which latched DIPIR first.
THEOREM MediaChangeLatched == Spec => MediaChangeIsLatched
<1>1. IInv /\ [Next]_vars
        => [cd.POLRE /\ ~cd'.POLRE => sel \in {dipir'[1], dipir'[2]}
                                      \/ NoUnit \notin {dipir'[1], dipir'[2]}]_vars
  BY NextIInv DEF LatchedFirst
<1>2. QED
  BY <1>1, Invariance, PTL DEF Spec, MediaChangeIsLatched
=============================================================================
