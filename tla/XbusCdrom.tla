----------------------------- MODULE XbusCdrom -----------------------------
(***************************************************************************)
(* The expansion bus: the controller of opera_xbus.c and CLIO's side of it *)
(* (DIPIR latches, interrupt and DMA bits of opera_clio.c) in front of the *)
(* drive of Cdrom.  The guest selects a unit and reads and writes its      *)
(* registers; every clock step the emulator ticks the bus; between frames  *)
(* the frontend may reset the core or consume a launch request.            *)
(*                                                                         *)
(* The drive decodes the low four bits of the unit number only, so units   *)
(* 0x00 and 0x80 are the same drive to the bus and two different units to  *)
(* the DIPIR latches.  A guest instruction makes one access.               *)
(***************************************************************************)
EXTENDS Cdrom

CONSTANTS GuestCommands,  \* the commands the guest issues
          GuestUnits,     \* the units it selects
          PollWrites,     \* the control bits it writes to the poll register
          MaxDma          \* bound: bytes of one DMA

CdUnits == {"0x00", "0x80"}
Units == CdUnits \cup {"absent"}
NoUnit == "none"

\* Interrupt enables, local reset, and the request to clear Media Access.
Controls == [st : BOOLEAN, dt : BOOLEAN, rst : BOOLEAN, re : BOOLEAN]

ASSUME GuestUnitsAssumption == GuestUnits \subseteq Units
ASSUME PollWritesAssumption == PollWrites \subseteq Controls
ASSUME GuestCommandsAssumption == GuestCommands \subseteq Commands
ASSUME MaxDmaAssumption == MaxDma \in Nat \ {0}

VARIABLES cd,       \* g_CDROM_DEVICE, with g_CDROM_STATE
          sel,      \* XBUS.xb_sel_l and xb_sel_h
          dipir,    \* regs[XBUS_DIPIR1_ADDR] and regs[XBUS_DIPIR2_ADDR]
          dma,      \* MADAM's XBUS length while regs[0x304] enables XBUS DMA
          fiq,      \* the XBUS bit of regs[0x40]
          launcher  \* history: unit of the last launch armed with Media Access down

vars == <<cd, sel, dipir, dma, fiq, launcher>>


-----------------------------------------------------------------------------
opera_clio_xbus_media_access(latches, unit) ==
  CASE unit \in {latches[1], latches[2]} -> latches
    [] unit \notin {latches[1], latches[2]} /\ latches[1] = NoUnit -> <<unit, latches[2]>>
    [] unit \notin {latches[1], latches[2]} /\ latches[1] # NoUnit /\ latches[2] = NoUnit
         -> <<latches[1], unit>>
    [] OTHER -> latches

\* One latch protects its unit's FIFOs; two protect every FIFO, and the poll
\* register of every other unit.
opera_clio_xbus_access_aborts(unit, is_poll) ==
  LET held == {dipir[1], dipir[2]} \ {NoUnit}
      both == NoUnit \notin {dipir[1], dipir[2]}
  IN  IF both THEN ~is_poll \/ unit \notin held
              ELSE ~is_poll /\ unit \in held

\* What the ARM core asks before each access to the bus.
clio_xbus_access_aborts(is_poll) ==
  opera_clio_xbus_access_aborts(sel, is_poll) \/ sel = "absent"

\* The guest runs, and its access goes through.
GuestAccess(is_poll) ==
  /\ ~cd.restart_requested
  /\ ~clio_xbus_access_aborts(is_poll)

\* xbus_latch_media_access_f: the flag as it is before the write.
LatchMediaAccess ==
  dipir' = IF cd.POLRE THEN opera_clio_xbus_media_access(dipir, sel) ELSE dipir

\* n calls of XBP_GET_DATA.
TakeBytes(d, n) ==
  LET got[k \in 0..n] == IF k = 0 THEN d ELSE opera_cdrom_fifo_get_data(got[k - 1])
  IN  got[n]

\* A DMA of n bytes, begun with the drive in state d: all of it at once, or
\* nothing while DIPIR protects the selected unit.
clio_handle_dma(d, n) ==
  IF n = 0 \/ opera_clio_xbus_access_aborts(sel, FALSE)
    THEN cd' = d /\ dma' = n
    ELSE cd' = (IF sel \in CdUnits THEN TakeBytes(d, n) ELSE d) /\ dma' = 0

-----------------------------------------------------------------------------
(***************************************************************************)
(* The guest.                                                              *)
(***************************************************************************)
opera_xbus_fifo_set_cmd(c) ==
  /\ GuestAccess(FALSE)
  /\ cd.cmd_idx # 0 => c = cd.cmd
  /\ LatchMediaAccess
  /\ cd' = opera_cdrom_update_fiq(opera_cdrom_send_cmd(cd, c))
  /\ fiq' = (fiq \/ opera_cdrom_fiq(cd'))
  /\ launcher' = IF ~cd'.restart_armed \/ cd.restart_armed THEN launcher
                 ELSE IF cd.POLRE THEN NoUnit ELSE sel
  /\ UNCHANGED <<sel, dma>>

\* Mutant: the latch looks at Media Access after the write.
set_poll_latches_late(w) ==
  /\ GuestAccess(TRUE)
  /\ cd' = opera_cdrom_update_fiq(opera_cdrom_set_poll(cd, w.st, w.dt, w.rst, w.re))
  /\ dipir' = IF cd'.POLRE THEN opera_clio_xbus_media_access(dipir, sel) ELSE dipir
  /\ fiq' = (fiq \/ opera_cdrom_fiq(cd'))
  /\ UNCHANGED <<sel, dma, launcher>>

opera_xbus_set_poll(w) ==
  /\ GuestAccess(TRUE)
  /\ LatchMediaAccess
  /\ cd' = opera_cdrom_update_fiq(opera_cdrom_set_poll(cd, w.st, w.dt, w.rst, w.re))
  /\ fiq' = (fiq \/ opera_cdrom_fiq(cd'))
  /\ UNCHANGED <<sel, dma, launcher>>

opera_xbus_get_poll ==
  /\ GuestAccess(TRUE)
  /\ cd' = opera_cdrom_update_fiq(cd)
  /\ UNCHANGED <<sel, dipir, dma, fiq, launcher>>

opera_xbus_fifo_get_status ==
  /\ GuestAccess(FALSE)
  /\ cd' = opera_cdrom_fifo_get_status(cd)
  /\ UNCHANGED <<sel, dipir, dma, fiq, launcher>>

opera_xbus_fifo_get_data ==
  /\ GuestAccess(FALSE)
  /\ cd' = opera_cdrom_fifo_get_data(cd)
  /\ UNCHANGED <<sel, dipir, dma, fiq, launcher>>

opera_xbus_set_sel(unit) ==
  /\ ~cd.restart_requested
  /\ sel' = unit
  /\ UNCHANGED <<cd, dipir, dma, fiq, launcher>>

\* The guest writes MADAM's length and sets, or clears, the enable bit.
EnableDma(n) ==
  /\ ~cd.restart_requested
  /\ clio_handle_dma(cd, n)
  /\ UNCHANGED <<sel, dipir, fiq, launcher>>

DisableDma ==
  /\ ~cd.restart_requested
  /\ dma' = 0
  /\ UNCHANGED <<cd, sel, dipir, fiq, launcher>>

ClearFiq ==
  /\ ~cd.restart_requested
  /\ fiq' = FALSE
  /\ UNCHANGED <<cd, sel, dipir, dma, launcher>>

\* The reset a guest asks of CLIO with the DIPIR bit: the controller and the
\* latches, never the drive.
opera_3do_dipir_reset ==
  /\ ~cd.restart_requested
  /\ sel' = "0x00"
  /\ dipir' = <<NoUnit, NoUnit>>
  /\ UNCHANGED <<cd, dma, fiq, launcher>>

-----------------------------------------------------------------------------
(***************************************************************************)
(* The emulator's clock and the frontend.                                  *)
(***************************************************************************)

\* One clock step: the drive may load a sector, a source that is still up
\* raises the interrupt again, a stalled DMA tries again.
opera_xbus_tick ==
  LET d == opera_cdrom_update_fiq(Elapse(cd))
  IN  /\ ~cd.restart_requested
      /\ fiq' = (fiq \/ opera_cdrom_fiq(d))
      /\ clio_handle_dma(d, dma)
      /\ UNCHANGED <<sel, dipir, launcher>>

CoreReset(d) ==
  /\ cd' = opera_cdrom_init(d)
  /\ sel' = "0x00"
  /\ dipir' = <<NoUnit, NoUnit>>
  /\ dma' = 0
  /\ fiq' = FALSE
  /\ UNCHANGED launcher

retro_reset == CoreReset(cd)

\* opened says whether the frontend could open the image to launch.
ode_reset_if_requested(opened) ==
  LET d == [cd EXCEPT !.restart_requested = FALSE, !.pending_launch = FALSE]
  IN  /\ cd.restart_requested
      /\ IF cd.pending_launch /\ opened
           THEN CoreReset(d)
           ELSE cd' = d /\ UNCHANGED <<sel, dipir, dma, fiq, launcher>>

Init ==
  /\ cd = PowerOn
  /\ sel = "0x00"
  /\ dipir = <<NoUnit, NoUnit>>
  /\ dma = 0
  /\ fiq = FALSE
  /\ launcher = NoUnit

Next ==
  \/ \E c \in GuestCommands : opera_xbus_fifo_set_cmd(c)
  \/ \E w \in PollWrites : opera_xbus_set_poll(w)
  \/ opera_xbus_get_poll
  \/ opera_xbus_fifo_get_status
  \/ opera_xbus_fifo_get_data
  \/ \E unit \in GuestUnits : opera_xbus_set_sel(unit)
  \/ \E n \in 1..MaxDma : EnableDma(n)
  \/ DisableDma
  \/ ClearFiq
  \/ opera_3do_dipir_reset
  \/ opera_xbus_tick
  \/ retro_reset
  \/ \E opened \in BOOLEAN : ode_reset_if_requested(opened)

Spec == Init /\ [][Next]_vars

\* The clock runs as long as the guest does, and the frontend calls retro_run
\* again: nothing else is promised.
FairSpec ==
  /\ Spec
  /\ WF_vars(opera_xbus_tick)
  /\ WF_vars(\E opened \in BOOLEAN : ode_reset_if_requested(opened))

-----------------------------------------------------------------------------
(***************************************************************************)
(* Properties.                                                             *)
(***************************************************************************)

Reading == cd.rd # NoRead

\* Until the next command or reset, whatever mix of polls, FIFO reads, DMA and
\* clock steps loads and drains the sectors of a READ_DATA, every byte is
\* taken once, is still in the FIFO or is still to be loaded, and the sector
\* after the FIFO's is the next one to load: cdrom_data_load_next_if_ready has
\* five callers.
ReadAccounting ==
  Reading =>
    /\ cd.rd.taken + cd.data_len + cd.blocks_requested * SectorBytes
         = cd.rd.n * SectorBytes
    /\ cd.current_sector + cd.blocks_requested = cd.rd.start + cd.rd.n
    /\ cd.current_sector =< DiscBlocks

\* The completion of a READ_DATA is announced after its last byte was taken,
\* never with a sector still to come, and is announced then
\* (cdrom_data_publish_read_status_if_ready).
StatusAfterTransfer ==
  Reading =>
    /\ cd.POLST => cd.rd.taken = cd.rd.n * SectorBytes
    /\ cd.rd.taken = cd.rd.n * SectorBytes /\ cd.status_len > 0 => cd.POLST

\* However late the host drains a sector, the drive never runs ahead of the
\* disc: the k-th sector of a read is loaded no earlier than k sector times
\* after the command (cdrom_data_schedule_next's catch-up).
Paced ==
  Reading => (cd.rd.n - cd.blocks_requested) * SectorCycles =< cd.rd.elapsed

\* A launch that was accepted with Media Access down defers it: no DIPIR latch
\* keeps the launching unit from its response (the comment in
\* ode_launch_playlist).
LaunchResponseReadable ==
  cd.restart_armed /\ launcher # NoUnit =>
    ~cd.POLRE /\ ~opera_clio_xbus_access_aborts(launcher, FALSE)

\* Media Access, once up, is taken down only by a poll write that asks for it
\* or a reset of the core, and that write has latched DIPIR first: the guest
\* cannot clear a media change without the latch being set.
MediaChangeIsLatched ==
  [][cd.POLRE /\ ~cd'.POLRE => sel \in {dipir'[1], dipir'[2]}
                               \/ NoUnit \notin {dipir'[1], dipir'[2]}]_vars

\* A block that is outstanding arrives by the clock alone: its data is
\* announced, or a DMA took it and the completion is, or the read was given up.
ReadArrives ==
  Reading /\ cd.blocks_requested > 0 /\ cd.data_len = 0
    ~> cd.POLDT \/ cd.POLST \/ ~Reading

=============================================================================
