------------------------------- MODULE IoRedTbl -------------------------------
(***************************************************************************)
(* The entries of the I/O APIC's redirection table (ioapic.rs) and their   *)
(* conversion to and from the 64 bits of the register.  The bits are the   *)
(* low seventeen, the top byte, and whether any bit between them is set.   *)
(***************************************************************************)
EXTENDS Integers

Edge == 0
Level == 1
Physical == 0
Logical == 1
Fixed == 0
LowestPriority == 1
SMI == 2
DeliveryMode == {Fixed, LowestPriority, SMI, 4, 5, 7}   \* also NMI, INIT, ExtINT

valid_for_level_trigger(mode) == mode \in {Fixed, LowestPriority}

validate(e) ==
  /\ e.trigger_mode = Level => valid_for_level_trigger(e.delivery_mode)
  /\ e.destination_mode = Physical => e.destination <= 15
  /\ e.delivery_mode = SMI => e.vector = 0

\* IoRedTblEntry::new, before it is validated.
NewEntry(vector, delivery, dest_mode, polarity, trigger, mask, destination) ==
  [vector |-> vector, delivery_mode |-> delivery, destination_mode |-> dest_mode,
   delivery_status |-> 0, pin_polarity |-> polarity, remote_irr |-> 0,
   trigger_mode |-> trigger, interrupt_mask |-> mask, destination |-> destination]

\* From<IoRedTblEntry> for u64.
into(e) ==
  [low |-> e.vector + 2^8 * e.delivery_mode + 2^11 * e.destination_mode
             + 2^12 * e.delivery_status + 2^13 * e.pin_polarity + 2^14 * e.remote_irr
             + 2^15 * e.trigger_mode + 2^16 * e.interrupt_mask,
   between |-> FALSE, top |-> e.destination]

\* TryFrom<u64>, as a sequence that is empty for an error.
try_from(bits) ==
  LET Field(shift, width) == (bits.low \div 2^shift) % 2^width
      e == [vector |-> Field(0, 8), delivery_mode |-> Field(8, 3),
            destination_mode |-> Field(11, 1), delivery_status |-> Field(12, 1),
            pin_polarity |-> Field(13, 1), remote_irr |-> Field(14, 1),
            trigger_mode |-> Field(15, 1), interrupt_mask |-> Field(16, 1),
            destination |-> bits.top]
  IN  IF ~bits.between /\ e.delivery_mode \in DeliveryMode /\ validate(e)
      THEN <<e>> ELSE <<>>

\* Mutant: only the unknown bits are refused.
Writable_Known(bits) == ~bits.between

\* No read-only bit is set: IOREDTBL_RW_MASK.
Writable(bits) == ~bits.between /\ (bits.low \div 2^12) % 2 = 0 /\ (bits.low \div 2^14) % 2 = 0

=============================================================================
