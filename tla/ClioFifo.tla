------------------------------ MODULE ClioFifo ------------------------------
(***************************************************************************)
(* A DMA channel between memory and the DSP (opera_clio.c): the buffer     *)
(* being played, how far it is played, and the buffer that follows.  The   *)
(* operators take a channel and give the channel after the call.           *)
(*                                                                         *)
(* Addresses and lengths are bytes, a sample is two.  Address 0 is "none". *)
(***************************************************************************)
EXTENDS Integers

SampleBytes == 2
NoBuffer == [addr |-> 0, len |-> 0]
EmptyChannel == [idx |-> 0, start |-> NoBuffer, next |-> NoBuffer]

\* What the guest's length register means: the last word is not counted.
InputLen(val)  == IF val # 0 THEN val + 4 ELSE 0
OutputLen(val) == val + 4

-----------------------------------------------------------------------------
\* Mutant: the cursor of the transfer before it is kept.
fifo_write_keeps_idx(f, reg, val) ==
  CASE reg = "CURADR" -> [f EXCEPT !.start.addr = val, !.next.addr = 0]
    [] reg = "CURLEN" -> [f EXCEPT !.start.len = InputLen(val), !.next.len = 0]
    [] reg = "RLDADR" -> [f EXCEPT !.next.addr = val]
    [] reg = "RLDLEN" -> [f EXCEPT !.next.len = InputLen(val)]

\* A write to the current registers drops the buffer that follows.
opera_clio_fifo_write_i(f, reg, val) ==
  CASE reg = "CURADR" -> [f EXCEPT !.start.addr = val, !.idx = 0, !.next.addr = 0]
    [] reg = "CURLEN" -> [f EXCEPT !.start.len = InputLen(val), !.next.len = 0]
    [] reg = "RLDADR" -> [f EXCEPT !.next.addr = val]
    [] reg = "RLDLEN" -> [f EXCEPT !.next.len = InputLen(val)]

\* An output channel keeps both its cursor and the buffer that follows.
opera_clio_fifo_write_o(f, reg, val) ==
  CASE reg = "CURADR" -> [f EXCEPT !.start.addr = val]
    [] reg = "CURLEN" -> [f EXCEPT !.start.len = OutputLen(val)]
    [] reg = "RLDADR" -> [f EXCEPT !.next.addr = val]
    [] reg = "RLDLEN" -> [f EXCEPT !.next.len = OutputLen(val)]

\* The writes of zero and the reset of the cursor when the guest clears a channel.
ClearedInput == EmptyChannel
ClearedOutput ==
  [idx |-> 0, start |-> [addr |-> 0, len |-> OutputLen(0)],
   next |-> [addr |-> 0, len |-> OutputLen(0)]]

-----------------------------------------------------------------------------
AtEnd(f) == f.idx >= f.start.len

\* The end of a buffer: the next one, if there is one and the channel's
\* request bit is set, else none.
clio_fifo_complete(f, enabled) ==
  [f EXCEPT !.idx = 0,
            !.start = IF f.next.addr # 0 /\ enabled THEN f.next
                      ELSE [f.start EXCEPT !.addr = 0]]

\* A restored or zero-length buffer completes before the read.
Stale(f) == f.start.addr # 0 /\ AtEnd(f)
ReadyInput(f, enabled) == IF Stale(f) THEN clio_fifo_complete(f, enabled) ELSE f

\* One read by the DSP: the channel after it, the sample read, and whether a
\* completion interrupt was raised.
opera_clio_fifo_ei(f, enabled) ==
  LET g == ReadyInput(f, enabled)
      h == [g EXCEPT !.idx = @ + SampleBytes]
      e == IF AtEnd(h) THEN clio_fifo_complete(h, enabled) ELSE h
  IN  [f    |-> IF g.start.addr = 0 THEN g ELSE e,
       read |-> g.start.addr # 0, at |-> g.idx, buf |-> g.start,
       irq  |-> Stale(f) \/ (g.start.addr # 0 /\ AtEnd(h))]

\* One write by the DSP.  At the end of the buffer the sample is not written;
\* the channel moves on instead.
opera_clio_fifo_eo(f, enabled) ==
  LET room == f.start.len - f.idx > 0
  IN  [f |-> IF f.start.addr = 0 THEN f
             ELSE IF room THEN [f EXCEPT !.idx = @ + SampleBytes]
             ELSE clio_fifo_complete(f, enabled),
       irq |-> f.start.addr # 0 /\ ~room]
=============================================================================
