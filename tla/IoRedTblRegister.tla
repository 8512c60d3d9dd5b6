-------------------------- MODULE IoRedTblRegister --------------------------
(***************************************************************************)
(* The conversions of redirection entries, for a register that the driver  *)
(* writes and the I/O APIC then changes.                                   *)
(***************************************************************************)
EXTENDS IoRedTbl

CONSTANTS Vectors, Destinations

VARIABLES bits, written

Register ==
  [low : { v + 2^8 * r : v \in Vectors, r \in 0 .. 2^9 - 1 },
   between : BOOLEAN, top : Destinations]

InitWith(b) == bits = b /\ written = <<>>
Init == \E b \in Register : InitWith(b)

\* The driver writes back an entry that it could read and may write.
Write ==
  /\ written = <<>> /\ try_from(bits) # <<>>
  /\ Writable(into(try_from(bits)[1]))
  /\ written' = try_from(bits)
  /\ bits' = into(try_from(bits)[1])

\* The I/O APIC sets the delivery status, and the remote IRR of a level
\* triggered interrupt.
Deliver ==
  /\ written # <<>> /\ (bits.low \div 2^12) % 2 = 0
  /\ \E irr \in {0, written[1].trigger_mode} :
       bits' = [bits EXCEPT !.low = @ + 2^12 + 2^14 * irr]
  /\ UNCHANGED written

Next == Write \/ Deliver
Spec == Init /\ [][Next]_<<bits, written>>

\* What try_from accepts, into gives back bit for bit (ioredtblentry_roundtrip).
RoundTrip == try_from(bits) # <<>> => into(try_from(bits)[1]) = bits

\* While the I/O APIC delivers an interrupt, the entry can still be read, and is
\* the one that was written but for the bits that the I/O APIC sets.
ReadsBack ==
  written # <<>> =>
    LET e == try_from(bits)
    IN  e # <<>> /\ written[1] = [e[1] EXCEPT !.delivery_status = 0, !.remote_irr = 0]
=============================================================================
