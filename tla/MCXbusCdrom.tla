---------------------------- MODULE MCXbusCdrom ----------------------------
EXTENDS XbusCdrom

\* Poll writes that leave the interrupts off.
Unmasked == {w \in Controls : ~w.st /\ ~w.dt}

\* Reads, good and bad, and what may interrupt one.
ReadSide ==
  [op : {"READ_DATA"}, lba : {0, 2}, n : {0, 2}]
    \cup [op : {"ABORT", "SPIN_UP", "SPIN_DOWN", "PLAY_AUDIO_MSF"}]

\* A launch, and what may interrupt one.
LaunchSide ==
  [op : {"READ_DATA"}, lba : {0}, n : {1}]
    \cup [op : {"ABORT", "RESET", "EJECT_DISC", "INJECT_DISC", "ODE_ADD_PLAYLIST",
                "ODE_CLEAR_PLAYLIST", "ODE_LAUNCH_PLAYLIST", "ODE_READ_TOC_LIST"}]
=============================================================================
