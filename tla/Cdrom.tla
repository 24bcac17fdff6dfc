------------------------------- MODULE Cdrom -------------------------------
(***************************************************************************)
(* The CD-ROM drive of opera_cdrom.c as the XBUS sees it: a device record  *)
(* and one operator per entry point of xbus_cdrom_plugin, from the state   *)
(* before the call to the state after it.  A call often runs another one   *)
(* on the way (a command latches Media Access, every access first tries to *)
(* load the next sector), so they are functions to be composed.            *)
(*                                                                         *)
(* Data-mode reads only: a sector is SectorBytes bytes on the wire,        *)
(* and a response is ResponseBytes status bytes.  Commands that differ      *)
(* only in the contents of their response are one command here.  Read-ahead*)
(* of CD-DA sectors is not modelled.                                       *)
(***************************************************************************)
EXTENDS Integers

CONSTANTS DiscBlocks,    \* callbacks.get_size(), of every image
          SectorBytes,   \* bytes of a sector on the wire
          SectorCycles,  \* cdrom_data_sector_cycles, in clock steps
          MaxBlocks,     \* bound: blocks of one READ_DATA
          CommandBytes   \* bytes of a command other than ABORT: 7 in the code

ASSUME DiscBlocksAssumption   == DiscBlocks \in Nat \ {0}
ASSUME SectorBytesAssumption  == SectorBytes \in Nat \ {0}
ASSUME SectorCyclesAssumption == SectorCycles \in Nat
ASSUME MaxBlocksAssumption    == MaxBlocks \in Nat \ {0}
ASSUME CommandBytesAssumption == CommandBytes \in Nat \ {0, 1}

ResponseBytes == 2
NoRead == [start |-> 0, n |-> 0, taken |-> 0, elapsed |-> 0]

\* READ_DATA may name any start (one past the end included) and any count.
ReadCommands == [op : {"READ_DATA"}, lba : 0..DiscBlocks, n : 0..MaxBlocks]

\* RESET stands for RESET, FLUSH and MODE_SET; READ_ID for every command that
\* only answers, with or without an error.
PlainCommands ==
  [op : {"ABORT", "RESET", "READ_ID", "SPIN_UP", "SPIN_DOWN", "EJECT_DISC",
         "INJECT_DISC", "PLAY_AUDIO_MSF", "ODE_ADD_PLAYLIST",
         "ODE_CLEAR_PLAYLIST", "ODE_LAUNCH_PLAYLIST", "ODE_READ_TOC_LIST"}]

Commands == ReadCommands \cup PlainCommands
NoCommand == [op |-> "NONE"]

-----------------------------------------------------------------------------
(***************************************************************************)
(* Helpers of the transfer.                                                *)
(***************************************************************************)

\* memset of g_CDROM_STATE.data
cdrom_data_reset_readahead_state(d) ==
  [d EXCEPT !.due = 0, !.read_status_pending = FALSE,
            !.read_have_expected_lba = FALSE, !.audio_clock_active = FALSE]

cdrom_data_abort_readahead(d) ==
  [cdrom_data_reset_readahead_state(d) EXCEPT !.data_len = 0, !.POLDT = FALSE]

cdrom_data_clear_transfer(d) ==
  [cdrom_data_reset_readahead_state(d) EXCEPT
     !.data_len = 0, !.blocks_requested = 0, !.POLDT = FALSE]

cdrom_fifo_reset(d) ==
  [cdrom_data_clear_transfer(d) EXCEPT
     !.status_len = 0, !.cmd_idx = 0, !.cmd = NoCommand, !.POLST = FALSE]

\* Mutant: the next sector is not scheduled.
schedule_next_dropped(d) == d

\* The schedule keeps its phase unless the host is more than a sector late.
cdrom_data_schedule_next(d) ==
  LET due == d.due + SectorCycles
  IN  [d EXCEPT !.due = IF due < -SectorCycles THEN 0 ELSE due]

\* Mutant: a sector is loaded over the one in the FIFO.
load_over_data(d) ==
  IF d.POLREMASK \/ d.blocks_requested = 0 THEN d
  ELSE IF d.due > 0 THEN [d EXCEPT !.POLDT = FALSE]
  ELSE cdrom_data_schedule_next(
         [d EXCEPT !.current_sector = @ + 1, !.data_len = SectorBytes,
                   !.blocks_requested = @ - 1, !.POLDT = TRUE])

cdrom_data_load_next_if_ready(d) ==
  IF d.POLREMASK \/ d.data_len > 0 \/ d.blocks_requested = 0 THEN d
  ELSE IF d.due > 0 THEN [d EXCEPT !.POLDT = FALSE]
  ELSE cdrom_data_schedule_next(
         [d EXCEPT !.current_sector = @ + 1,
                   !.data_len = SectorBytes,
                   !.blocks_requested = @ - 1,
                   !.POLDT = TRUE])

\* Mutant: the status stays pending.
publish_forgotten(d) == d

cdrom_data_publish_read_status_if_ready(d) ==
  IF ~d.read_status_pending \/ d.blocks_requested # 0 \/ d.data_len # 0 THEN d
  ELSE [d EXCEPT !.read_status_pending = FALSE, !.POLST = TRUE]

\* POLRE is the Media Access flag.
cdrom_media_access_latch(d) == [d EXCEPT !.POLRE = TRUE]

\* cdrom_status_tagged, cdrom_status_tagged_padded and the responses written
\* in place: the whole response at once, and POLST with it.
cdrom_status_tagged(d) == [d EXCEPT !.status_len = ResponseBytes, !.POLST = TRUE]

ode_complete_restart_if_armed(d) ==
  IF ~d.restart_armed THEN d
  ELSE cdrom_media_access_latch(
         [d EXCEPT !.restart_armed = FALSE, !.disc_in = TRUE,
                   !.spin_up = TRUE, !.restart_requested = TRUE])

-----------------------------------------------------------------------------
(***************************************************************************)
(* Commands, after the prologue of opera_cdrom_do_cmd.                     *)
(***************************************************************************)
cdrom_cmd_spin(d, op) ==
  cdrom_status_tagged([d EXCEPT !.spin_up = IF d.disc_in THEN op = "SPIN_UP" ELSE @])

cdrom_cmd_eject_disc(d) ==
  cdrom_status_tagged([cdrom_data_clear_transfer(d) EXCEPT
                         !.disc_in = FALSE, !.spin_up = FALSE])

cdrom_cmd_inject_disc(d) ==
  cdrom_media_access_latch(
    cdrom_status_tagged([cdrom_data_clear_transfer(d) EXCEPT
                           !.disc_in = TRUE, !.spin_up = TRUE]))

\* Play moves the position to the end of the range; a transfer in progress
\* is left alone.  All zeros would stop; the range played here is the disc.
cdrom_cmd_play_audio(d) ==
  cdrom_status_tagged(
    IF d.disc_in /\ d.spin_up
      THEN [d EXCEPT !.current_sector = DiscBlocks, !.audio_clock_active = TRUE]
      ELSE d)

\* A read that moves no data answers at once; any other answers when the last
\* byte has been taken.
cdrom_cmd_read_data(d, lba, n) ==
  LET err == cdrom_status_tagged(
               [cdrom_data_clear_transfer(d) EXCEPT !.current_sector = lba])
      pre == [d EXCEPT !.status_len = ResponseBytes, !.current_sector = lba]
      rst == IF d.read_have_expected_lba \/ d.audio_clock_active \/ d.data_len > 0
               THEN cdrom_data_abort_readahead(pre) ELSE pre
      new == [rst EXCEPT !.blocks_requested = n, !.data_len = 0,
                         !.audio_clock_active = FALSE,
                         !.read_have_expected_lba = (n # 0)]
  IN  CASE ~(d.disc_in /\ d.spin_up) -> cdrom_status_tagged(d)
        [] d.disc_in /\ d.spin_up /\ n # 0 /\ (lba >= DiscBlocks \/ n > DiscBlocks - lba)
             -> err
        [] d.disc_in /\ d.spin_up /\ n = 0 -> [new EXCEPT !.POLST = TRUE]
        [] OTHER -> cdrom_data_load_next_if_ready(
                      [new EXCEPT !.read_status_pending = TRUE,
                                  !.due = SectorCycles,
                                  !.rd = [start |-> lba, n |-> n, taken |-> 0,
                                          elapsed |-> 0]])

\* READ_TOC_LIST and the other ODE commands that answer with a block.
ode_data_response(d) ==
  [cdrom_status_tagged([d EXCEPT !.data_len = SectorBytes,
                                 !.blocks_requested = 0])
   EXCEPT !.POLDT = TRUE]

\* Mutant: Media Access goes up with the response.
launch_latches_at_once(d) ==
  cdrom_status_tagged(
    IF d.playlist
      THEN [cdrom_data_clear_transfer(d) EXCEPT
              !.disc_in = FALSE, !.spin_up = FALSE, !.POLRE = TRUE,
              !.pending_launch = TRUE, !.restart_armed = TRUE]
      ELSE cdrom_data_clear_transfer(d))

\* The eject is reported now; Media Access waits until the response drains.
ode_launch_playlist(d) ==
  LET clr == [cdrom_data_clear_transfer(d) EXCEPT
                !.restart_armed = FALSE, !.pending_launch = FALSE]
  IN  cdrom_status_tagged(
        IF d.playlist
          THEN [clr EXCEPT !.disc_in = FALSE, !.spin_up = FALSE,
                           !.pending_launch = TRUE, !.restart_armed = TRUE]
          ELSE clr)

opera_cdrom_do_cmd(d0, c) ==
  LET d == [d0 EXCEPT !.status_len = 0, !.POLST = FALSE, !.POLDT = FALSE,
                      !.rd = NoRead]
  IN  CASE c.op = "READ_DATA"           -> cdrom_cmd_read_data(d, c.lba, c.n)
        [] c.op \in {"ABORT", "RESET"}  ->
             cdrom_status_tagged(cdrom_data_clear_transfer(d))
        [] c.op = "READ_ID"             -> cdrom_status_tagged(d)
        [] c.op \in {"SPIN_UP", "SPIN_DOWN"} -> cdrom_cmd_spin(d, c.op)
        [] c.op = "EJECT_DISC"          -> cdrom_cmd_eject_disc(d)
        [] c.op = "INJECT_DISC"         -> cdrom_cmd_inject_disc(d)
        [] c.op = "PLAY_AUDIO_MSF"      -> cdrom_cmd_play_audio(d)
        [] c.op = "ODE_ADD_PLAYLIST"    ->
             cdrom_status_tagged([d EXCEPT !.playlist = TRUE])
        [] c.op = "ODE_CLEAR_PLAYLIST"  ->
             cdrom_status_tagged([d EXCEPT !.playlist = FALSE])
        [] c.op = "ODE_LAUNCH_PLAYLIST" -> ode_launch_playlist(d)
        [] c.op = "ODE_READ_TOC_LIST"   -> ode_data_response(d)

-----------------------------------------------------------------------------
(***************************************************************************)
(* The entry points.                                                       *)
(***************************************************************************)

\* An armed launch completes before the pending response is discarded.
cdrom_drain_pending_status(d) ==
  [ode_complete_restart_if_armed(d) EXCEPT !.status_len = 0, !.POLST = FALSE]

\* One byte of command c.  The first discards the response of the command
\* before it; the last, or ABORT's only one, runs the command.
opera_cdrom_send_cmd(d0, c) ==
  LET d == IF d0.cmd_idx = 0
             THEN [cdrom_drain_pending_status(d0) EXCEPT !.cmd = c, !.rd = NoRead]
             ELSE d0
      e == [d EXCEPT !.cmd_idx = @ + 1]
  IN  IF d0.POLREMASK THEN d0
      ELSE IF e.cmd_idx >= CommandBytes \/ e.cmd.op = "ABORT"
        THEN [opera_cdrom_do_cmd(e, e.cmd) EXCEPT !.cmd_idx = 0, !.cmd = NoCommand]
      ELSE e

opera_cdrom_fifo_get_status(d0) ==
  LET d == cdrom_data_load_next_if_ready(d0)
  IN  IF d0.POLREMASK THEN d0
      ELSE IF d.status_len > 1 THEN [d EXCEPT !.status_len = @ - 1]
      ELSE IF d.status_len = 1
        THEN ode_complete_restart_if_armed([d EXCEPT !.status_len = 0, !.POLST = FALSE])
      ELSE d

opera_cdrom_fifo_get_data(d0) ==
  LET d == cdrom_data_load_next_if_ready(d0)
      e == [d EXCEPT !.data_len = @ - 1,
                     !.rd.taken = IF d.rd = NoRead THEN 0 ELSE @ + 1]
  IN  IF d0.POLREMASK THEN d0
      ELSE IF d.data_len = 0 THEN d
      ELSE IF e.data_len > 0 THEN e
      ELSE IF e.blocks_requested > 0 THEN cdrom_data_load_next_if_ready(e)
      ELSE cdrom_data_publish_read_status_if_ready([e EXCEPT !.POLDT = FALSE])

\* Mutant: only a guest access loads a sector.
update_fiq_without_load(d) == d

\* XBP_FIQ and XBP_GET_POLL both try to load the next sector first.
opera_cdrom_update_fiq(d) == cdrom_data_load_next_if_ready(d)

\* The third source, POLMA, is never raised.
opera_cdrom_fiq(d) == (d.POLST /\ d.POLSTMASK) \/ (d.POLDT /\ d.POLDTMASK)

cdrom_device_local_reset(d) ==
  [cdrom_fifo_reset(d) EXCEPT
     !.current_sector = 0, !.restart_armed = FALSE, !.rd = NoRead,
     !.pending_launch = @ /\ d.restart_requested]

\* A write of the poll register: st, dt and rst are its control bits, re asks
\* for Media Access to be cleared.
opera_cdrom_set_poll(d, st, dt, rst, re) ==
  LET a == IF ~d.POLREMASK /\ rst THEN cdrom_device_local_reset(d) ELSE d
      b == [a EXCEPT !.POLRE = @ /\ ~re, !.POLSTMASK = st, !.POLDTMASK = dt,
                     !.POLREMASK = rst]
  IN  IF d.POLREMASK /\ ~rst THEN cdrom_media_access_latch(b) ELSE b

\* Power-on state for an image that is present.
PowerOn ==
  [POLST |-> FALSE, POLDT |-> FALSE, POLRE |-> TRUE, POLREMASK |-> FALSE,
   POLSTMASK |-> FALSE, POLDTMASK |-> FALSE,
   disc_in |-> TRUE, spin_up |-> TRUE,
   status_len |-> 0, cmd_idx |-> 0, cmd |-> NoCommand,
   data_len |-> 0, blocks_requested |-> 0,
   current_sector |-> 0, due |-> 0,
   read_status_pending |-> FALSE, read_have_expected_lba |-> FALSE,
   audio_clock_active |-> FALSE,
   playlist |-> FALSE, restart_armed |-> FALSE, restart_requested |-> FALSE,
   pending_launch |-> FALSE, rd |-> NoRead]

\* A launch that was armed or requested survives the reset of the core.
opera_cdrom_init(d) ==
  LET keep == (d.restart_armed \/ d.restart_requested) /\ d.pending_launch
  IN  [PowerOn EXCEPT !.pending_launch = keep, !.restart_requested = keep]

\* Time passes.  The schedule is read only while blocks are outstanding, and
\* lateness beyond the point where it starts over makes no difference.
\* rd.elapsed is a history, bounded by what a read needs.
Elapse(d) ==
  [d EXCEPT !.due = IF d.blocks_requested = 0 THEN 0
                    ELSE IF @ > -2 * SectorCycles - 1 THEN @ - 1 ELSE @,
            !.rd.elapsed = IF d.rd # NoRead /\ @ < MaxBlocks * SectorCycles
                             THEN @ + 1 ELSE @]

=============================================================================
