----------------------------- MODULE DspStream -----------------------------
(***************************************************************************)
(* What the audio path promises, whatever the mode: ticks are asked for,   *)
(* run once each and in order, and the frontend is given a subsequence of  *)
(* the samples they made, in order.  Samples may be lost (a full buffer);  *)
(* ticks may be abandoned only when the worker is dismissed.               *)
(***************************************************************************)
EXTENDS Integers, Sequences

VARIABLES pending,    \* ticks asked for and not yet run
          executed,   \* ticks run; also the number of the newest sample
          delivered   \* samples given to the frontend

svars == <<pending, executed, delivered>>

SInit == pending = 0 /\ executed = 0 /\ delivered = <<>>

Ask     == pending' = pending + 1 /\ UNCHANGED <<executed, delivered>>
Run     == /\ pending' \in 0..(pending - 1)
           /\ executed' = executed + (pending - pending')
           /\ UNCHANGED delivered
RunNow  == pending = 0 /\ executed' = executed + 1 /\ UNCHANGED <<pending, delivered>>
Dismiss == pending' = 0 /\ UNCHANGED <<executed, delivered>>

\* What was given stays, and every sample added to it has been made and is newer
\* than the one before it.
Deliver ==
  /\ Len(delivered) <= Len(delivered')
  /\ \A i \in 1..Len(delivered) : delivered'[i] = delivered[i]
  /\ \A i \in (Len(delivered) + 1)..Len(delivered') :
       /\ delivered'[i] <= executed
       /\ delivered'[i] > IF i = 1 THEN 0 ELSE delivered'[i - 1]
  /\ UNCHANGED <<pending, executed>>

SNext == Ask \/ Run \/ RunNow \/ Dismiss \/ Deliver
SSpec == SInit /\ [][SNext]_svars
=============================================================================
