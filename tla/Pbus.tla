-------------------------------- MODULE Pbus --------------------------------
(***************************************************************************)
(* The control port: the chain of device records lr_input.c builds in      *)
(* opera_pbus.c for every frame, and its termination when the guest reads  *)
(* it.  A byte of a record is its port and its place in the record; the    *)
(* rest of what the devices report is data and left out.                   *)
(***************************************************************************)
EXTENDS Integers, Sequences

CONSTANTS PBUS_BUF_SIZE, LR_INPUT_MAX_DEVICES

\* Bytes that opera_pbus_add_* reserves.
RecordLength == [joypad |-> 2, flightstick |-> 9, mouse |-> 4, lightgun |-> 5,
                 arcade_lightgun |-> 5, orbatak_trackball |-> 4, orbatak_buttons |-> 3]

Device == (DOMAIN RecordLength \ {"orbatak_buttons"}) \cup {"none"}

\* Room for a full set of the longest records and the buttons of Orbatak.
ASSUME PbusAssumption ==
  /\ LR_INPUT_MAX_DEVICES \in Nat /\ PBUS_BUF_SIZE \in Nat /\ PBUS_BUF_SIZE % 4 = 0
  /\ PBUS_BUF_SIZE > 9 * LR_INPUT_MAX_DEVICES + 3

PBUS_END_CHAIN_ID == <<0, 0>>

opera_pbus_reset == [buf |-> <<>>, finalized |-> FALSE]

pbus_reserve(p, n) == ~p.finalized /\ Len(p.buf) + n <= PBUS_BUF_SIZE

Record(port, device) == [k \in 1..RecordLength[device] |-> <<port, k>>]

\* opera_pbus_add_joypad and its siblings.
opera_pbus_add(p, port, device) ==
  IF pbus_reserve(p, RecordLength[device])
  THEN [p EXCEPT !.buf = @ \o Record(port, device)] ELSE p

\* At least one terminator, and up to a word.
opera_pbus_pad(p) ==
  LET n == Len(p.buf)
      k == IF n >= PBUS_BUF_SIZE THEN 0 ELSE 4 - (n % 4)
  IN  IF p.finalized THEN p
      ELSE [buf |-> p.buf \o [i \in 1..k |-> PBUS_END_CHAIN_ID], finalized |-> TRUE]

\* The ports' records in order; the buttons of all Orbatak trackballs last, as
\* one record, under port LR_INPUT_MAX_DEVICES + 1.
lr_input_update(devices) ==
  LET Poll(p, port) == IF devices[port] = "none" THEN p
                       ELSE opera_pbus_add(p, port, devices[port])
      polled[n \in 0..Len(devices)] == IF n = 0 THEN opera_pbus_reset ELSE Poll(polled[n - 1], n)
      chain == polled[Len(devices)]
  IN  IF "orbatak_trackball" \in {devices[port] : port \in 1..Len(devices)}
      THEN opera_pbus_add(chain, LR_INPUT_MAX_DEVICES + 1, "orbatak_buttons") ELSE chain

-----------------------------------------------------------------------------
\* What the guest should find behind the first word for devices: whole records
\* in the order of the ports, then terminators only.
Expected(devices, i) ==
  LET Size(port) == IF devices[port] = "none" THEN 0 ELSE RecordLength[devices[port]]
      Before[port \in 1..(Len(devices) + 1)] ==
        IF port = 1 THEN 0 ELSE Before[port - 1] + Size(port - 1)
      all == Before[Len(devices) + 1]
  IN  IF i <= all
      THEN LET port == CHOOSE q \in 1..Len(devices) : Before[q] < i /\ i <= Before[q + 1]
           IN  <<port, i - Before[port]>>
      ELSE IF i <= all + 3 /\ \E q \in 1..Len(devices) : devices[q] = "orbatak_trackball"
      THEN <<LR_INPUT_MAX_DEVICES + 1, i - all>>
      ELSE PBUS_END_CHAIN_ID
=============================================================================
