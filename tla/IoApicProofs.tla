---------------------------- MODULE IoApicProofs ----------------------------
(***************************************************************************)
(* Proofs about the driver of the I/O APICs, for any number of machines    *)
(* and I/O APICs: the two halves of the UART's redirection entry, which    *)
(* write_ioredtbl_raw writes under separate locks, are never written by    *)
(* two cores at a time, and they lead to the owner of the console.  Also,  *)
(* for any entry and any register, that the conversions are inverse.       *)
(***************************************************************************)
EXTENDS IoApic, TLAPS

-----------------------------------------------------------------------------
(* The conversions of redirection entries.                                 *)

\* The registers and the entries there can be.
RegisterBits == [low : {n \in Nat : n < 131072}, between : BOOLEAN, top : 0 .. 255]
EntryRecord ==
  [vector : 0 .. 255, delivery_mode : DeliveryMode, destination_mode : 0 .. 1,
   delivery_status : 0 .. 1, pin_polarity : 0 .. 1, remote_irr : 0 .. 1,
   trigger_mode : 0 .. 1, interrupt_mask : 0 .. 1, destination : 0 .. 255]

\* A number of seventeen bits is the sum of its fields.
Bit(n, k) == (n \div k) % 2
LEMMA SumOfFields ==
  ASSUME NEW n \in Nat, n < 131072
  PROVE  n = (n % 256) + 256 * ((n \div 256) % 8) + 2048 * Bit(n, 2048) + 4096 * Bit(n, 4096)
               + 8192 * Bit(n, 8192) + 16384 * Bit(n, 16384) + 32768 * Bit(n, 32768)
               + 65536 * Bit(n, 65536)
<1> DEFINE d0 == n % 256
           d1 == (n \div 256) % 8
           d2 == Bit(n, 2048)
           d3 == Bit(n, 4096)
           d4 == Bit(n, 8192)
           d5 == Bit(n, 16384)
           d6 == Bit(n, 32768)
           d7 == Bit(n, 65536)
           q1 == n \div 256
           q2 == n \div 2048
           q3 == n \div 4096
           q4 == n \div 8192
           q5 == n \div 16384
           q6 == n \div 32768
<1>1. n = d0 + 256 * q1 /\ d0 \in Int /\ q1 \in Int
  BY SMT
<1>2. q1 = d1 + 8 * q2 /\ d1 \in Int /\ q2 \in Int
  BY SMT
<1>3. q2 = d2 + 2 * q3 /\ d2 \in Int /\ q3 \in Int
  BY SMT DEF Bit
<1>4. q3 = d3 + 2 * q4 /\ d3 \in Int /\ q4 \in Int
  BY SMT DEF Bit
<1>5. q4 = d4 + 2 * q5 /\ d4 \in Int /\ q5 \in Int
  BY SMT DEF Bit
<1>6. q5 = d5 + 2 * q6 /\ d5 \in Int /\ q6 \in Int
  BY SMT DEF Bit
<1>7. q6 = d6 + 2 * d7 /\ d6 \in Int /\ d7 \in Int
  BY SMT DEF Bit
<1> HIDE DEF d0, d1, d2, d3, d4, d5, d6, d7, q1, q2, q3, q4, q5, q6
<1>8. q4 = d4 + 2 * d5 + 4 * d6 + 8 * d7
  BY SMT, <1>5, <1>6, <1>7
<1>9. n = d0 + 256 * d1 + 2048 * d2 + 4096 * d3 + 8192 * q4
  BY SMT, <1>1, <1>2, <1>3, <1>4
<1>10. n = d0 + 256 * d1 + 2048 * d2 + 4096 * d3 + 8192 * d4 + 16384 * d5 + 32768 * d6
             + 65536 * d7
  BY SMT, <1>1, <1>2, <1>3, <1>4, <1>5, <1>6, <1>7, <1>8, <1>9
<1> QED
  BY <1>10 DEF d0, d1, d2, d3, d4, d5, d6, d7

\* From<IoRedTblEntry> for u64 and TryFrom<u64>: a register that can be read is
\* written back bit for bit.
THEOREM EntryRoundTrip ==
  ASSUME NEW b \in RegisterBits, try_from(b) # <<>>
  PROVE  into(try_from(b)[1]) = b
<1> DEFINE n == b.low
           F(shift, width) == (n \div 2^shift) % 2^width
           e == [vector |-> F(0, 8), delivery_mode |-> F(8, 3),
                 destination_mode |-> F(11, 1), delivery_status |-> F(12, 1),
                 pin_polarity |-> F(13, 1), remote_irr |-> F(14, 1),
                 trigger_mode |-> F(15, 1), interrupt_mask |-> F(16, 1),
                 destination |-> b.top]
<1>1. n \in Nat /\ n < 131072 /\ b.between \in BOOLEAN /\ b.top \in 0 .. 255
  BY DEF RegisterBits
<1>2. try_from(b) = <<e>> /\ ~b.between
  BY DEF try_from
<1>3. /\ F(0, 8) = n % 256 /\ F(8, 3) = (n \div 256) % 8 /\ F(11, 1) = Bit(n, 2048)
      /\ F(12, 1) = Bit(n, 4096) /\ F(13, 1) = Bit(n, 8192) /\ F(14, 1) = Bit(n, 16384)
      /\ F(15, 1) = Bit(n, 32768) /\ F(16, 1) = Bit(n, 65536)
  BY <1>1 DEF Bit
<1>4. into(e).low = F(0, 8) + 2^8 * F(8, 3) + 2^11 * F(11, 1) + 2^12 * F(12, 1)
                      + 2^13 * F(13, 1) + 2^14 * F(14, 1) + 2^15 * F(15, 1) + 2^16 * F(16, 1)
  BY DEF into
<1>5. into(e).low = n
  <2> HIDE DEF n, F, e
  <2>1. into(e).low = F(0, 8) + 256 * F(8, 3) + 2048 * F(11, 1) + 4096 * F(12, 1)
                        + 8192 * F(13, 1) + 16384 * F(14, 1) + 32768 * F(15, 1) + 65536 * F(16, 1)
    BY <1>4
  <2>2. n = (n % 256) + 256 * ((n \div 256) % 8) + 2048 * Bit(n, 2048) + 4096 * Bit(n, 4096)
              + 8192 * Bit(n, 8192) + 16384 * Bit(n, 16384) + 32768 * Bit(n, 32768)
              + 65536 * Bit(n, 65536)
    BY SMTT(20), <1>1, SumOfFields
  <2> HIDE DEF Bit
  <2> QED
    BY <1>3, <2>1, <2>2
<1>6. into(e) = [low |-> n, between |-> FALSE, top |-> b.top]
  BY ZenonT(20), <1>5 DEF into
<1>7. b = [low |-> n, between |-> FALSE, top |-> b.top]
  BY <1>2 DEF RegisterBits
<1>8. try_from(b)[1] = e
  BY <1>2
<1> HIDE DEF e
<1> QED
  BY ZenonT(20), <1>6, <1>7, <1>8

\* An entry that is valid is read back as it was written, also while the I/O APIC
\* has the delivery status or the remote IRR set.
THEOREM EntryReadsBack ==
  ASSUME NEW e \in EntryRecord, validate(e)
  PROVE  try_from(into(e)) = <<e>>
<1> DEFINE n == into(e).low
           F(shift, width) == (n \div 2^shift) % 2^width
           x == [vector |-> F(0, 8), delivery_mode |-> F(8, 3),
                 destination_mode |-> F(11, 1), delivery_status |-> F(12, 1),
                 pin_polarity |-> F(13, 1), remote_irr |-> F(14, 1),
                 trigger_mode |-> F(15, 1), interrupt_mask |-> F(16, 1),
                 destination |-> e.destination]
<1>1. /\ e.vector \in 0 .. 255 /\ e.delivery_mode \in DeliveryMode /\ e.delivery_mode \in 0 .. 7
      /\ e.destination_mode \in 0 .. 1 /\ e.delivery_status \in 0 .. 1
      /\ e.pin_polarity \in 0 .. 1 /\ e.remote_irr \in 0 .. 1 /\ e.trigger_mode \in 0 .. 1
      /\ e.interrupt_mask \in 0 .. 1
  BY DEF EntryRecord, DeliveryMode, Fixed, LowestPriority, SMI
<1>2. n = e.vector + 256 * e.delivery_mode + 2048 * e.destination_mode
            + 4096 * e.delivery_status + 8192 * e.pin_polarity + 16384 * e.remote_irr
            + 32768 * e.trigger_mode + 65536 * e.interrupt_mask
  BY <1>1 DEF into
<1> HIDE DEF n
<1>3. /\ n \in Nat
      /\ n % 256 = e.vector /\ (n \div 256) % 8 = e.delivery_mode
      /\ Bit(n, 2048) = e.destination_mode /\ Bit(n, 4096) = e.delivery_status
      /\ Bit(n, 8192) = e.pin_polarity /\ Bit(n, 16384) = e.remote_irr
      /\ Bit(n, 32768) = e.trigger_mode /\ Bit(n, 65536) = e.interrupt_mask
  <2> DEFINE d0 == e.vector
             d1 == e.delivery_mode
             d2 == e.destination_mode
             d3 == e.delivery_status
             d4 == e.pin_polarity
             d5 == e.remote_irr
             d6 == e.trigger_mode
             d7 == e.interrupt_mask
  <2>1. /\ d0 \in 0 .. 255 /\ d1 \in 0 .. 7 /\ d2 \in 0 .. 1 /\ d3 \in 0 .. 1 /\ d4 \in 0 .. 1
        /\ d5 \in 0 .. 1 /\ d6 \in 0 .. 1 /\ d7 \in 0 .. 1
    BY <1>1
  <2>2. n = d0 + 256 * d1 + 2048 * d2 + 4096 * d3 + 8192 * d4 + 16384 * d5 + 32768 * d6
              + 65536 * d7
    BY <1>2
  <2> HIDE DEF d0, d1, d2, d3, d4, d5, d6, d7
  <2>3. n \in Nat
    BY SMT, <2>1, <2>2
  <2>4. n % 256 = d0
    BY SMT, <2>1, <2>2
  <2>5. (n \div 256) % 8 = d1
    BY SMT, <2>1, <2>2
  <2>6. Bit(n, 2048) = d2
    <3> DEFINE r == d0 + 256 * d1
               q == d3 + 2 * d4 + 4 * d5 + 8 * d6 + 16 * d7
    <3>1. n = r + 2048 * d2 + 4096 * q /\ r \in Nat /\ r < 2048 /\ q \in Nat
      BY SMT, <2>1, <2>2
    <3> HIDE DEF r, q
    <3> QED
      BY SMT, <2>1, <3>1 DEF Bit
  <2>7. Bit(n, 4096) = d3
    <3> DEFINE r == d0 + 256 * d1 + 2048 * d2
               q == d4 + 2 * d5 + 4 * d6 + 8 * d7
    <3>1. n = r + 4096 * d3 + 8192 * q /\ r \in Nat /\ r < 4096 /\ q \in Nat
      BY SMT, <2>1, <2>2
    <3> HIDE DEF r, q
    <3> QED
      BY SMT, <2>1, <3>1 DEF Bit
  <2>8. Bit(n, 8192) = d4
    <3> DEFINE r == d0 + 256 * d1 + 2048 * d2 + 4096 * d3
               q == d5 + 2 * d6 + 4 * d7
    <3>1. n = r + 8192 * d4 + 16384 * q /\ r \in Nat /\ r < 8192 /\ q \in Nat
      BY SMT, <2>1, <2>2
    <3> HIDE DEF r, q
    <3> QED
      BY SMT, <2>1, <3>1 DEF Bit
  <2>9. Bit(n, 16384) = d5
    <3> DEFINE r == d0 + 256 * d1 + 2048 * d2 + 4096 * d3 + 8192 * d4
               q == d6 + 2 * d7
    <3>1. n = r + 16384 * d5 + 32768 * q /\ r \in Nat /\ r < 16384 /\ q \in Nat
      BY SMT, <2>1, <2>2
    <3> HIDE DEF r, q
    <3> QED
      BY SMT, <2>1, <3>1 DEF Bit
  <2>10. Bit(n, 32768) = d6
    <3> DEFINE r == d0 + 256 * d1 + 2048 * d2 + 4096 * d3 + 8192 * d4 + 16384 * d5
               q == d7
    <3>1. n = r + 32768 * d6 + 65536 * q /\ r \in Nat /\ r < 32768 /\ q \in Nat
      BY SMT, <2>1, <2>2
    <3> HIDE DEF r, q
    <3> QED
      BY SMT, <2>1, <3>1 DEF Bit
  <2>11. Bit(n, 65536) = d7
    <3> DEFINE r == d0 + 256 * d1 + 2048 * d2 + 4096 * d3 + 8192 * d4 + 16384 * d5 + 32768 * d6
               q == 0
    <3>1. n = r + 65536 * d7 + 131072 * q /\ r \in Nat /\ r < 65536 /\ q \in Nat
      BY SMT, <2>1, <2>2
    <3> HIDE DEF r, q
    <3> QED
      BY SMT, <2>1, <3>1 DEF Bit
  <2> QED
    BY <2>3, <2>4, <2>5, <2>6, <2>7, <2>8, <2>9, <2>10, <2>11
       DEF d0, d1, d2, d3, d4, d5, d6, d7
<1>4. /\ F(0, 8) = n % 256 /\ F(8, 3) = (n \div 256) % 8 /\ F(11, 1) = Bit(n, 2048)
      /\ F(12, 1) = Bit(n, 4096) /\ F(13, 1) = Bit(n, 8192) /\ F(14, 1) = Bit(n, 16384)
      /\ F(15, 1) = Bit(n, 32768) /\ F(16, 1) = Bit(n, 65536)
  BY <1>3 DEF Bit
<1> HIDE DEF F
<1>5. x = e
  BY <1>3, <1>4 DEF EntryRecord
<1>6. into(e).between = FALSE /\ into(e).top = e.destination
  BY DEF into
<1>7. try_from(into(e)) = IF ~into(e).between /\ x.delivery_mode \in DeliveryMode /\ validate(x)
                          THEN <<x>> ELSE <<>>
  BY <1>6 DEF try_from, n, F
<1> HIDE DEF x
<1> QED
  BY <1>1, <1>5, <1>6, <1>7

-----------------------------------------------------------------------------
(* The types of the state.                                                 *)

Half == [low : Nat, top : Nat]
Op == {"idle", "failed", "version", "range", "low", "high"}
CallRecord == [op : Op, i : Nat, locked : BOOLEAN, dest : Core]

Types ==
  /\ regsel \in [Apic -> Nat]
  /\ table = [a \in Apic |-> table[a]]
  /\ \A a \in Apic : table[a] \in [0 .. Madt[a].max_entry -> Half]
  /\ addr_lock \in [Apic -> Core \cup {Nobody}]
  /\ ioapics \in Seq(Apic)
  /\ call \in [Core -> CallRecord]
  /\ serial \in Core \cup {Nobody} /\ granted \in Core \cup {Nobody}
  /\ key \in BOOLEAN /\ irq \in SUBSET Core

-----------------------------------------------------------------------------
(* The inductive invariant.                                                *)

Owner == IF serial # Nobody THEN serial ELSE granted
Busy(c) == call[c].op # "idle"

\* The console is with one machine, or on its way to one.
OwnerInv == (serial = Nobody) # (granted = Nobody)

\* The UART raises one interrupt for a key, and none before it is read.
KeyInv ==
  /\ irq # {} => key
  /\ \A c, d \in irq : c = d

\* While a core uses the I/O APICs, interrupts of the UART come to that core.
WriterInv ==
  \A c \in Core : Busy(c) =>
    /\ \A d \in Core : Busy(d) => d = c
    /\ UartEntry.top = c
    /\ irq \subseteq {c}

\* How far its call is.
Progress(c) ==
  /\ Calls(c) => call[c].dest = Owner
  /\ call[c].op = "version" => call[c].i \in Apic
  /\ call[c].op \in {"range", "low", "high"} => call[c].i \in 1 .. Len(ioapics)
  /\ call[c].op \in {"low", "high"} => ioapics[call[c].i] = Wired
  /\ call[c].op = "high" => UartEntry.low % 256 = UartVector
  /\ call[c].locked => Calls(c) /\ regsel[ApicOf(call[c])] = RegOf(call[c])

ProgressInv == \A c \in Core : Progress(c)

\* When none does, the entry is the owner's.
EntryInv ==
  (\A c \in Core : ~Busy(c)) =>
    ioapics # <<>> /\ UartEntry.top = Owner /\ UartEntry.low % 256 = UartVector

\* A lock is held only inside of an access to its I/O APIC.
LockInv ==
  \A a \in Apic : addr_lock[a] # Nobody =>
    call[addr_lock[a]].locked /\ ApicOf(call[addr_lock[a]]) = a

Inv ==
  Types /\ OwnerInv /\ KeyInv /\ WriterInv /\ ProgressInv /\ EntryInv /\ LockInv

-----------------------------------------------------------------------------
(* The constants.                                                          *)

LEMMA Constants ==
  ASSUME IoApicAssumption
  PROVE  /\ NumVms \in Nat \ {0} /\ Len(Madt) \in Nat /\ Nobody \notin Core /\ Nobody \in Nat
         /\ Core \subseteq Nat /\ 0 \in Core
         /\ Wired \in Apic /\ HasUart(Wired) /\ 1 \in Apic
         /\ \A a \in Apic : HasUart(a) => a = Wired
         /\ \A a \in Apic : Madt[a].max_entry \in 0 .. 23 /\ Madt[a].gsi_base \in Nat
         /\ UartGsi - Madt[Wired].gsi_base \in 0 .. Madt[Wired].max_entry
<1>1. NumVms \in Nat \ {0} /\ Len(Madt) \in Nat /\ Nobody \notin Core /\ Nobody \in Nat
      /\ Core \subseteq Nat /\ 0 \in Core
  BY DEF IoApicAssumption, Nobody, Core
<1>2. \A a \in Apic : Madt[a].max_entry \in 0 .. 23 /\ Madt[a].gsi_base \in Nat
  <2> DEFINE R == [version : Nat, max_entry : 0 .. 23, gsi_base : Nat]
  <2>1. Madt \in Seq(R)
    BY DEF IoApicAssumption
  <2>2. \A r \in R : r.max_entry \in 0 .. 23 /\ r.gsi_base \in Nat
    OBVIOUS
  <2> HIDE DEF R
  <2> QED
    BY <2>1, <2>2 DEF Apic
<1>3. PICK w \in Apic : \A b \in Apic : HasUart(b) <=> b = w
  BY DEF IoApicAssumption
<1>4. Wired = w
  BY <1>3 DEF Wired
<1>5. 1 \in Apic
  BY <1>1, <1>3 DEF Apic
<1>6. UartGsi - Madt[w].gsi_base \in 0 .. Madt[w].max_entry
  <2>1. UartGsi \in Nat /\ HasUart(w)
    BY <1>3 DEF IoApicAssumption
  <2>2. Madt[w].max_entry \in Nat /\ Madt[w].gsi_base \in Nat
    BY <1>2
  <2> QED
    BY <2>1, <2>2 DEF HasUart
<1> QED
  BY <1>1, <1>2, <1>3, <1>4, <1>5, <1>6

\* The two halves of a new entry.
LEMMA EntryHalves ==
  ASSUME IoApicAssumption, NEW dest \in Core
  PROVE  /\ into(Entry(dest)).low = UartVector
         /\ into(Entry(dest)).top = dest
  BY DEF IoApicAssumption, into, Entry, NewEntry, Fixed, Physical, Edge

-----------------------------------------------------------------------------
(* Lemmas about one step.                                                  *)

\* Where the other cores are when one uses the I/O APICs.
LEMMA Alone ==
  ASSUME Inv, NEW c \in Core, Busy(c), NEW d \in Core, d # c
  PROVE  call[d].op = "idle" /\ ~call[d].locked
  BY DEF Inv, WriterInv, ProgressInv, Progress, Busy, Calls

\* A core that does not use them keeps its part of the invariant.
LEMMA IdleProgress ==
  ASSUME NEW c \in Core, call'[c].op = "idle", ~call'[c].locked
  PROVE  Progress(c)'
  BY DEF Progress, Calls

\* The update of a call.
LEMMA ContinueCall ==
  ASSUME call \in [Core -> CallRecord], NEW c \in Core, NEW op \in Op, NEW i \in Nat,
         Continue(c, op, i)
  PROVE  /\ call' \in [Core -> CallRecord]
         /\ call'[c].op = op /\ call'[c].i = i /\ ~call'[c].locked
         /\ call'[c].dest = call[c].dest
         /\ \A d \in Core : d # c => call'[d] = call[d]
<1>1. call[c] \in CallRecord
  OBVIOUS
<1>2. PICK k : k = [call[c] EXCEPT !.op = op, !.i = i, !.locked = FALSE]
  OBVIOUS
<1>3. k \in CallRecord /\ k.op = op /\ k.i = i /\ ~k.locked /\ k.dest = call[c].dest
  BY <1>1, <1>2 DEF CallRecord
<1>4. call' = [call EXCEPT ![c] = k]
  BY <1>2 DEF Continue
<1> QED
  BY <1>3, <1>4

\* The I/O APIC of a call exists.
LEMMA ApicOfCall ==
  ASSUME IoApicAssumption, Inv, NEW c \in Core, Calls(c)
  PROVE  ApicOf(call[c]) \in Apic
<1>1. ioapics \in Seq(Apic) /\ call[c] \in CallRecord /\ Progress(c)
  BY DEF Inv, Types, ProgressInv
<1>2. call[c].op \in Op
  BY <1>1 DEF CallRecord
<1>3. CASE call[c].op = "version"
  BY <1>1, <1>3 DEF Progress, ApicOf
<1>4. CASE call[c].op \in {"range", "low", "high"}
  BY <1>1, <1>4 DEF Progress, ApicOf
<1> QED
  BY <1>2, <1>3, <1>4 DEF Calls, Op

\* Only the core that uses the I/O APICs has a lock.
LEMMA UnlockStep ==
  ASSUME IoApicAssumption, Inv, NEW c \in Core, Calls(c), Unlock(c)
  PROVE  LockInv'
<1>1. addr_lock \in [Apic -> Core \cup {Nobody}] /\ ApicOf(call[c]) \in Apic
  BY ApicOfCall DEF Inv, Types
<1>2. \A a \in Apic : addr_lock[a] # Nobody => a = ApicOf(call[c])
  <2> SUFFICES ASSUME NEW a \in Apic, addr_lock[a] # Nobody PROVE a = ApicOf(call[c])
    OBVIOUS
  <2>1. addr_lock[a] \in Core /\ call[addr_lock[a]].locked /\ ApicOf(call[addr_lock[a]]) = a
    BY <1>1 DEF Inv, LockInv
  <2>2. Busy(c)
    BY DEF Busy, Calls
  <2> QED
    BY <2>1, <2>2, Alone
<1> QED
  BY <1>1, <1>2 DEF Unlock, LockInv

\* A step within a call: the console and the interrupts are left alone, the
\* destination is still that of before, and the core is not done.
LEMMA InsideCall ==
  ASSUME Inv, NEW c \in Core, Busy(c), Busy(c)',
         UNCHANGED <<serial, granted, key, irq>>,
         UartEntry.top' = UartEntry.top,
         \A d \in Core : d # c => call'[d] = call[d]
  PROVE  /\ OwnerInv' /\ KeyInv' /\ WriterInv' /\ EntryInv'
         /\ Owner' = Owner
         /\ \A d \in Core : d # c => Progress(d)'
<1>1. OwnerInv' /\ KeyInv' /\ Owner' = Owner
  BY DEF Inv, OwnerInv, KeyInv, Owner
<1>2. \A d \in Core : d # c => call'[d].op = "idle" /\ ~call'[d].locked
  BY Alone
<1>3. WriterInv'
  BY <1>2 DEF Inv, WriterInv, Busy
<1>4. EntryInv'
  BY DEF EntryInv
<1>5. \A d \in Core : d # c => Progress(d)'
  BY <1>2, IdleProgress
<1> QED
  BY <1>1, <1>3, <1>4, <1>5

LEMMA SelectStep ==
  ASSUME IoApicAssumption, Inv, NEW c \in Core, SelectRegister(c)
  PROVE  Inv'
<1>0. /\ Types /\ Progress(c) /\ ApicOf(call[c]) \in Apic /\ Calls(c)
      /\ UNCHANGED <<table, ioapics, serial, granted, key, irq>>
  BY ApicOfCall DEF Inv, ProgressInv, SelectRegister
<1>1. /\ call' \in [Core -> CallRecord]
      /\ call'[c] = [call[c] EXCEPT !.locked = TRUE]
      /\ \A d \in Core : d # c => call'[d] = call[d]
  BY <1>0 DEF SelectRegister, Types, CallRecord
<1>2. /\ call'[c].op = call[c].op /\ call'[c].i = call[c].i /\ call'[c].dest = call[c].dest
  BY <1>0, <1>1 DEF Types, CallRecord
<1>3. RegOf(call[c]) \in Nat
  <2>1. EntryOf(call[c]) \in Int
    BY <1>0, Constants DEF EntryOf, IoApicAssumption
  <2> QED
    BY <2>1 DEF RegOf, IOAPICVER, IOREDTBL_OFFSET
<1>4. Types'
  BY <1>0, <1>1, <1>3 DEF Types, SelectRegister
<1>5. Busy(c) /\ Busy(c)' /\ UartEntry' = UartEntry /\ Calls(c)'
  BY <1>0, <1>2 DEF Busy, Calls, UartEntry
<1>6. /\ OwnerInv' /\ KeyInv' /\ WriterInv' /\ EntryInv' /\ Owner' = Owner
      /\ \A d \in Core : d # c => Progress(d)'
  BY <1>0, <1>1, <1>5, InsideCall
<1>7. ApicOf(call[c])' = ApicOf(call[c]) /\ RegOf(call[c])' = RegOf(call[c])
  BY <1>0, <1>2 DEF ApicOf, RegOf, EntryOf
<1>8. regsel'[ApicOf(call[c])] = RegOf(call[c])
  BY <1>0 DEF SelectRegister, Types
<1>9. Progress(c)'
  BY <1>0, <1>2, <1>5, <1>6, <1>7, <1>8 DEF Progress
<1>10. LockInv'
  <2>1. /\ addr_lock \in [Apic -> Core \cup {Nobody}] /\ call'[c].locked
        /\ addr_lock' = [addr_lock EXCEPT ![ApicOf(call[c])] = c]
    BY <1>0, <1>1 DEF SelectRegister, Types, CallRecord
  <2>2. ASSUME NEW a \in Apic, addr_lock'[a] # Nobody
        PROVE  call'[addr_lock'[a]].locked /\ (ApicOf(call[addr_lock[a]]) = a)'
    <3>1. CASE a = ApicOf(call[c])
      <4>1. addr_lock'[a] = c
        BY <2>1, <3>1
      <4>2. (ApicOf(call[c]))' = a
        BY <1>7, <3>1
      <4> QED
        BY <2>1, <4>1, <4>2
    <3>2. CASE a # ApicOf(call[c])
      <4>1. addr_lock[a] \in Core /\ call[addr_lock[a]].locked /\ ApicOf(call[addr_lock[a]]) = a
        BY <2>1, <2>2, <3>2 DEF Inv, LockInv
      <4>2. addr_lock[a] = c
        BY <1>5, <4>1, Alone
      <4> QED
        BY <3>2, <4>1, <4>2
    <3> QED
      BY <3>1, <3>2
  <2> QED
    BY <2>2 DEF LockInv
<1> QED
  BY <1>4, <1>6, <1>9, <1>10 DEF Inv, ProgressInv

\* init_ioapics.
LEMMA VersionStep ==
  ASSUME IoApicAssumption, Inv, NEW c \in Core, ReadVersion(c)
  PROVE  Inv'
<1> DEFINE i == call[c].i
           found == IF Madt[i].version = IOAPIC_VERSION THEN Append(ioapics, i) ELSE ioapics
<1>0. /\ Types /\ Progress(c) /\ Calls(c) /\ call[c].op = "version" /\ i \in Apic
      /\ UNCHANGED <<regsel, table, serial, granted, key, irq>>
  BY DEF Inv, ProgressInv, Progress, ReadVersion, InWindow, Calls
<1>1. /\ found \in Seq(Apic) /\ i \in Nat /\ ApicOf(call[c]) \in Apic
      /\ Len(Madt) \in Nat
  <2>1. found \in Seq(Apic) /\ ApicOf(call[c]) \in Apic
    BY <1>0 DEF Types, ApicOf
  <2>2. Len(Madt) \in Nat
    BY Constants
  <2> QED
    BY <1>0, <2>1, <2>2 DEF Apic
<1>2. \/ ioapics' \in Seq(Apic) /\ Continue(c, "failed", 1)
      \/ ioapics' \in Seq(Apic) /\ i < Len(Madt) /\ Continue(c, "version", i + 1)
      \/ ioapics' \in Seq(Apic) /\ ioapics' # <<>> /\ Continue(c, "range", 1)
  <2>1. \/ UNCHANGED ioapics /\ Continue(c, "failed", 1)
        \/ ioapics' = found /\ i < Len(Madt) /\ Continue(c, "version", i + 1)
        \/ ioapics' = found /\ Continue(c, "failed", 1)
        \/ ioapics' = found /\ found # <<>> /\ Continue(c, "range", 1)
    BY DEF ReadVersion
  <2> HIDE DEF found
  <2> QED
    BY <1>0, <1>1, <2>1 DEF Types
<1>3. addr_lock' \in [Apic -> Core \cup {Nobody}]
  BY <1>0, <1>1 DEF ReadVersion, Unlock, Types
<1>4. ASSUME NEW op \in {"failed", "version", "range"}, NEW n \in Nat, Continue(c, op, n),
             ioapics' \in Seq(Apic),
             op = "version" => n \in Apic, op = "range" => n \in 1 .. Len(ioapics')
      PROVE  Inv'
  <2>1. /\ call' \in [Core -> CallRecord]
        /\ call'[c].op = op /\ call'[c].i = n /\ ~call'[c].locked
        /\ call'[c].dest = call[c].dest
        /\ \A d \in Core : d # c => call'[d] = call[d]
    BY <1>0, <1>4, ContinueCall DEF Types, Op
  <2>2. Types'
    BY <1>0, <1>3, <1>4, <2>1 DEF Types
  <2>3. Busy(c) /\ Busy(c)' /\ UartEntry' = UartEntry
    BY <1>0, <1>4, <2>1 DEF Busy, UartEntry
  <2>4. /\ OwnerInv' /\ KeyInv' /\ WriterInv' /\ EntryInv' /\ Owner' = Owner
        /\ \A d \in Core : d # c => Progress(d)'
    BY <1>0, <2>1, <2>3, InsideCall
  <2>5. Progress(c)'
    BY <1>0, <1>4, <2>1, <2>4 DEF Progress
  <2>6. LockInv'
    BY <1>0, UnlockStep DEF ReadVersion
  <2> QED
    BY <2>2, <2>4, <2>5, <2>6 DEF Inv, ProgressInv
<1>5. i < Len(Madt) => i + 1 \in Apic /\ i + 1 \in Nat
  BY <1>0, <1>1 DEF Apic
<1>6. ioapics' \in Seq(Apic) /\ ioapics' # <<>> => 1 \in 1 .. Len(ioapics')
  OBVIOUS
<1> HIDE DEF i
<1> QED
  BY <1>1, <1>2, <1>4, <1>5, <1>6

\* ioapic_for_gsi: the I/O APIC that is found has the pin of the UART.
LEMMA RangeStep ==
  ASSUME IoApicAssumption, Inv, NEW c \in Core, ReadRange(c)
  PROVE  Inv'
<1> DEFINE i == call[c].i
<1>0. /\ Types /\ Progress(c) /\ Calls(c) /\ call[c].op = "range" /\ i \in 1 .. Len(ioapics)
      /\ UNCHANGED <<regsel, table, ioapics, serial, granted, key, irq>>
  BY DEF Inv, ProgressInv, Progress, ReadRange, InWindow, Calls
<1>1. /\ i \in Nat /\ ApicOf(call[c]) = ioapics[i] /\ ioapics[i] \in Apic
      /\ Len(ioapics) \in Nat
  BY <1>0 DEF Types, ApicOf
<1>2. InRange(UartGsi, Madt[ioapics[i]].gsi_base, Madt[ioapics[i]].max_entry)
        => ioapics[i] = Wired
  <2>0. Madt[ioapics[i]].max_entry \in 0 .. 23 /\ Madt[ioapics[i]].gsi_base \in Nat
    BY <1>1, Constants
  <2>1. Madt[ioapics[i]].max_entry \in Nat /\ Madt[ioapics[i]].gsi_base \in Nat
    BY <2>0
  <2>2. UartGsi \in Nat
    BY DEF IoApicAssumption
  <2>3. InRange(UartGsi, Madt[ioapics[i]].gsi_base, Madt[ioapics[i]].max_entry)
          => HasUart(ioapics[i])
    BY <2>1, <2>2 DEF InRange, HasUart
  <2> QED
    BY <1>1, <2>3, Constants
<1>3. \/ ioapics[i] = Wired /\ Continue(c, "low", i)
      \/ Continue(c, "failed", 1)
      \/ i < Len(ioapics) /\ Continue(c, "range", i + 1)
  BY <1>1, <1>2 DEF ReadRange, First
<1>4. addr_lock' \in [Apic -> Core \cup {Nobody}]
  BY <1>0, <1>1 DEF ReadRange, Unlock, Types
<1>5. ASSUME NEW op \in {"failed", "low", "range"}, NEW n \in Nat, Continue(c, op, n),
             op \in {"low", "range"} => n \in 1 .. Len(ioapics),
             op = "low" => ioapics[n] = Wired
      PROVE  Inv'
  <2>1. /\ call' \in [Core -> CallRecord]
        /\ call'[c].op = op /\ call'[c].i = n /\ ~call'[c].locked
        /\ call'[c].dest = call[c].dest
        /\ \A d \in Core : d # c => call'[d] = call[d]
    BY <1>0, <1>5, ContinueCall DEF Types, Op
  <2>2. Types'
    BY <1>0, <1>4, <2>1 DEF Types
  <2>3. Busy(c) /\ Busy(c)' /\ UartEntry' = UartEntry
    BY <1>0, <1>5, <2>1 DEF Busy, UartEntry
  <2>4. /\ OwnerInv' /\ KeyInv' /\ WriterInv' /\ EntryInv' /\ Owner' = Owner
        /\ \A d \in Core : d # c => Progress(d)'
    BY <1>0, <2>1, <2>3, InsideCall
  <2>5. Progress(c)'
    BY <1>0, <1>5, <2>1, <2>4 DEF Progress
  <2>6. LockInv'
    BY <1>0, UnlockStep DEF ReadRange
  <2> QED
    BY <2>2, <2>4, <2>5, <2>6 DEF Inv, ProgressInv
<1>6. i < Len(ioapics) => i + 1 \in 1 .. Len(ioapics) /\ i + 1 \in Nat
  BY <1>1
<1> HIDE DEF i
<1> QED
  BY <1>0, <1>1, <1>3, <1>5, <1>6

\* What a write changes: the half of the UART's entry.
LEMMA TableStep ==
  ASSUME IoApicAssumption, Inv, NEW c \in Core, NEW half \in {"low", "high"}, WriteHalf(c, half)
  PROVE  /\ table' = [a \in Apic |-> table'[a]]
         /\ \A a \in Apic : table'[a] \in [0 .. Madt[a].max_entry -> Half]
         /\ half = "low" => UartEntry.low' = UartVector /\ UartEntry.top' = UartEntry.top
         /\ half = "high" => UartEntry.top' = call[c].dest /\ UartEntry.low' = UartEntry.low
<1> DEFINE e == UartGsi - Madt[Wired].gsi_base
           old == table[Wired][e]
           new == IF half = "low" THEN [old EXCEPT !.low = into(Entry(call[c].dest)).low]
                                  ELSE [old EXCEPT !.top = into(Entry(call[c].dest)).top]
<1>0. /\ Types /\ Progress(c) /\ Calls(c) /\ call[c].op = half /\ call[c].locked
      /\ call[c].dest \in Core
  BY DEF Inv, Types, CallRecord, ProgressInv, Progress, WriteHalf, InWindow, Calls
<1>1. /\ ApicOf(call[c]) = Wired /\ EntryOf(call[c]) = e /\ regsel[Wired] = RegOf(call[c])
  BY <1>0 DEF Progress, ApicOf, EntryOf
<1>2. e \in 0 .. Madt[Wired].max_entry /\ Madt[Wired].max_entry \in 0 .. 23 /\ Wired \in Apic
  BY Constants
<1>3. (regsel[Wired] - IOREDTBL_OFFSET) \div 2 = e
  <2>1. RegOf(call[c]) = (16 + 2 * e + (IF half = "high" THEN 1 ELSE 0)) % 256
    BY <1>0, <1>1 DEF RegOf, IOREDTBL_OFFSET
  <2> HIDE DEF e
  <2>2. e \in 0 .. 23
    BY <1>2
  <2>3. (16 + 2 * e) % 256 = 16 + 2 * e /\ (16 + 2 * e + 1) % 256 = 16 + 2 * e + 1
    BY <2>2
  <2>4. RegOf(call[c]) = 16 + 2 * e \/ RegOf(call[c]) = 16 + 2 * e + 1
    BY <2>1, <2>2, <2>3
  <2> QED
    BY <1>1, <2>2, <2>4 DEF IOREDTBL_OFFSET
<1>4. into(Entry(call[c].dest)).low = UartVector /\ into(Entry(call[c].dest)).top = call[c].dest
  BY <1>0, EntryHalves
<1>5. table' = [table EXCEPT ![Wired][e] = new]
  BY <1>1, <1>3 DEF WriteHalf
<1>6. old \in Half /\ UartEntry = old
  BY <1>0, <1>2 DEF Types, UartEntry
<1>7. call[c].dest \in Nat /\ UartVector \in Nat
  BY <1>0, Constants DEF IoApicAssumption
<1>8. /\ new \in Half
      /\ half = "low" => new.low = UartVector /\ new.top = old.top
      /\ half = "high" => new.top = call[c].dest /\ new.low = old.low
  BY <1>4, <1>6, <1>7 DEF Half
<1> HIDE DEF new, old, e
<1>9. UartEntry' = new
  BY <1>0, <1>2, <1>5 DEF UartEntry, Types, e
<1> QED
  BY <1>0, <1>2, <1>5, <1>6, <1>8, <1>9 DEF Types

\* write_ioredtbl_raw: after the second half the entry is the owner's.
LEMMA WriteStep ==
  ASSUME IoApicAssumption, Inv, NEW c \in Core, NEW half \in {"low", "high"}, WriteHalf(c, half)
  PROVE  Inv'
<1>0. /\ Types /\ Progress(c) /\ Calls(c) /\ call[c].op = half
      /\ UNCHANGED <<regsel, ioapics, serial, granted, key, irq>>
  BY DEF Inv, ProgressInv, WriteHalf, InWindow, Calls
<1>1. call[c].i \in Nat /\ call[c].i \in 1 .. Len(ioapics) /\ ioapics[call[c].i] = Wired
  BY <1>0 DEF Types, Progress
<1>2. addr_lock' \in [Apic -> Core \cup {Nobody}]
  BY <1>0, ApicOfCall DEF WriteHalf, Unlock, Types
<1>3. UartVector % 256 = UartVector
  BY DEF IoApicAssumption
<1>l. LockInv'
  BY <1>0, UnlockStep DEF WriteHalf
<1>4. CASE half = "low"
  <2>1. /\ call' \in [Core -> CallRecord]
        /\ call'[c].op = "high" /\ call'[c].i = call[c].i /\ ~call'[c].locked
        /\ call'[c].dest = call[c].dest
        /\ \A d \in Core : d # c => call'[d] = call[d]
    <3>1. Continue(c, "high", call[c].i)
      BY <1>4 DEF WriteHalf, First, Second
    <3> QED
      BY <1>0, <1>1, <3>1, ContinueCall DEF Types, Op
  <2>2. Types'
    BY <1>0, <1>2, <2>1, TableStep DEF Types
  <2>3. Busy(c) /\ Busy(c)' /\ UartEntry.top' = UartEntry.top /\ UartEntry.low' = UartVector
    BY <1>0, <1>4, <2>1, TableStep DEF Busy
  <2>4. /\ OwnerInv' /\ KeyInv' /\ WriterInv' /\ EntryInv' /\ Owner' = Owner
        /\ \A d \in Core : d # c => Progress(d)'
    BY <1>0, <2>1, <2>3, InsideCall
  <2>5. Progress(c)'
    BY <1>0, <1>1, <1>3, <2>1, <2>3, <2>4 DEF Progress
  <2> QED
    BY <1>l, <2>2, <2>4, <2>5 DEF Inv, ProgressInv
<1>5. CASE half = "high"
  <2>1. /\ call' \in [Core -> CallRecord]
        /\ call'[c].op = "idle" /\ ~call'[c].locked
        /\ \A d \in Core : d # c => call'[d] = call[d]
    <3>1. Continue(c, "idle", 1)
      BY <1>5 DEF WriteHalf, First
    <3> QED
      BY <1>0, <3>1, ContinueCall DEF Types, Op
  <2>2. Types'
    BY <1>0, <1>2, <2>1, TableStep DEF Types
  <2>3. \A d \in Core : call'[d].op = "idle" /\ ~call'[d].locked
    BY <1>0, <2>1, Alone DEF Busy, Calls
  <2>4. OwnerInv' /\ KeyInv' /\ Owner' = Owner
    BY <1>0 DEF Inv, OwnerInv, KeyInv, Owner
  <2>5. WriterInv' /\ ProgressInv'
    BY <2>3, IdleProgress DEF WriterInv, ProgressInv, Busy
  <2>6. UartEntry.top' = Owner /\ UartEntry.low' % 256 = UartVector
    BY <1>0, <1>5, TableStep DEF Progress
  <2>7. EntryInv'
    BY <1>0, <1>1, <2>4, <2>6 DEF EntryInv
  <2> QED
    BY <1>l, <2>2, <2>4, <2>5, <2>7 DEF Inv
<1> QED
  BY <1>4, <1>5

-----------------------------------------------------------------------------
(* The console.                                                            *)

LEMMA UartEntryType ==
  ASSUME IoApicAssumption, Inv
  PROVE  UartEntry \in Half /\ UartEntry.top \in Core
<1>1. UartEntry \in Half
  BY Constants DEF Inv, Types, UartEntry
<1>2. UartEntry.top \in Core
  <2>1. CASE \E c \in Core : Busy(c)
    BY <2>1 DEF Inv, WriterInv
  <2>2. CASE \A c \in Core : ~Busy(c)
    BY <2>2, Constants DEF Inv, EntryInv, OwnerInv, Owner, Types
  <2> QED
    BY <2>1, <2>2
<1> QED
  BY <1>1, <1>2

\* A step that leaves calls, I/O APICs and owner alone leaves the calls where they are.
LEMMA ProgressFrame ==
  ASSUME ProgressInv, UNCHANGED <<regsel, ioapics, call>>, UartEntry' = UartEntry, Owner' = Owner
  PROVE  ProgressInv'
<1> SUFFICES ASSUME NEW c \in Core PROVE Progress(c)'
  BY DEF ProgressInv
<1>1. ApicOf(call[c])' = ApicOf(call[c])
  BY DEF ApicOf
<1>2. RegOf(call[c])' = RegOf(call[c])
  BY <1>1 DEF RegOf, EntryOf
<1>3. Calls(c)' <=> Calls(c)
  BY DEF Calls
<1>4. Progress(c)
  BY DEF ProgressInv
<1>5. (Calls(c) => call[c].dest = Owner)'
  BY <1>3, <1>4 DEF Progress
<1>6. /\ (call[c].op = "version" => call[c].i \in Apic)'
      /\ (call[c].op \in {"range", "low", "high"} => call[c].i \in 1 .. Len(ioapics))'
      /\ (call[c].op \in {"low", "high"} => ioapics[call[c].i] = Wired)'
  BY <1>4 DEF Progress
<1>7. (call[c].op = "high" => UartEntry.low % 256 = UartVector)'
  BY <1>4 DEF Progress
<1>8. (call[c].locked => Calls(c) /\ regsel[ApicOf(call[c])] = RegOf(call[c]))'
  BY <1>1, <1>2, <1>3, <1>4 DEF Progress
<1> QED
  BY <1>5, <1>6, <1>7, <1>8 DEF Progress

\* A key interrupts the core that uses the I/O APICs, if there is one.
LEMMA KeyStep ==
  ASSUME IoApicAssumption, Inv, Key
  PROVE  Inv'
<1>0. /\ UNCHANGED <<regsel, table, addr_lock, ioapics, call, serial, granted>>
      /\ irq = {} /\ key' = TRUE /\ irq' \subseteq {UartEntry.top}
  BY DEF Inv, KeyInv, Key
<1>1. UartEntry' = UartEntry /\ Owner' = Owner /\ \A c \in Core : Busy(c)' <=> Busy(c)
  BY <1>0 DEF UartEntry, Owner, Busy
<1>2. Types'
  BY <1>0, UartEntryType DEF Inv, Types
<1>3. OwnerInv' /\ KeyInv'
  BY <1>0 DEF Inv, OwnerInv, KeyInv
<1>4. WriterInv'
  BY <1>0, <1>1 DEF Inv, WriterInv
<1>5. EntryInv'
  BY <1>0, <1>1 DEF Inv, EntryInv
<1>6. ProgressInv'
  BY <1>0, <1>1, ProgressFrame DEF Inv
<1>7. LockInv'
  BY <1>0 DEF Inv, LockInv, ApicOf
<1> QED
  BY <1>2, <1>3, <1>4, <1>5, <1>6, <1>7 DEF Inv

\* handle_uart_keypress.
LEMMA InterruptStep ==
  ASSUME IoApicAssumption, Inv, NEW c \in Core, NEW handover \in BOOLEAN,
         UartInterrupt(c, handover)
  PROVE  Inv'
<1>0. /\ UNCHANGED <<regsel, table, addr_lock, ioapics>> /\ UartEntry' = UartEntry
      /\ c \in irq /\ irq' = {} /\ call[c].op = "idle"
  BY DEF Inv, KeyInv, UartInterrupt, UartEntry
<1>1. \A d \in Core : ~Busy(d)
  BY <1>0 DEF Inv, WriterInv, Busy
<1>2. \A d \in Core : call[d].op = "idle" /\ ~call[d].locked
  BY <1>1 DEF Inv, ProgressInv, Progress, Busy, Calls
<1>3. KeyInv' /\ LockInv'
  <2>1. \A a \in Apic : addr_lock[a] = Nobody
    BY <1>2 DEF Inv, Types, LockInv
  <2> QED
    BY <1>0, <2>1 DEF KeyInv, LockInv
<1>4. CASE UNCHANGED <<call, serial, granted>>
  <2>1. Types'
    BY <1>0, <1>4 DEF Inv, Types, UartInterrupt
  <2>2. Owner' = Owner /\ OwnerInv'
    BY <1>4 DEF Inv, Owner, OwnerInv
  <2>3. \A d \in Core : ~Busy(d)' /\ Progress(d)'
    BY <1>2, <1>4, IdleProgress DEF Busy
  <2>4. WriterInv' /\ EntryInv'
    BY <1>0, <1>1, <2>2, <2>3 DEF Inv, WriterInv, EntryInv
  <2> QED
    BY <1>3, <2>1, <2>2, <2>3, <2>4 DEF Inv, ProgressInv
<1>5. CASE /\ serial = c /\ serial' = Nobody /\ granted' = (c + 1) % NumVms /\ key' = FALSE
           /\ call' = [call EXCEPT ![c] =
                        [op |-> "range", i |-> 1, locked |-> FALSE, dest |-> NextVm(c)]]
  <2>0. NextVm(c) \in Core /\ NextVm(c) = (c + 1) % NumVms
    BY Constants DEF NextVm, Core
  <2>1. /\ call' \in [Core -> CallRecord]
        /\ call'[c].op = "range" /\ call'[c].i = 1 /\ ~call'[c].locked
        /\ call'[c].dest = NextVm(c)
        /\ \A d \in Core : d # c => call'[d] = call[d]
    BY <1>5, <2>0 DEF Inv, Types, CallRecord, Op
  <2>2. Types'
    BY <1>0, <1>5, <2>0, <2>1 DEF Inv, Types
  <2>3. OwnerInv' /\ Owner' = NextVm(c)
    BY <1>5, <2>0, Constants DEF OwnerInv, Owner, Nobody
  <2>4. \A d \in Core : d # c => ~Busy(d)' /\ Progress(d)'
    BY <1>2, <2>1, IdleProgress DEF Busy
  <2>5. UartEntry.top = c
    BY <1>1, <1>5, Constants DEF Inv, EntryInv, Owner, Nobody
  <2>6. WriterInv' /\ EntryInv'
    BY <1>0, <2>1, <2>4, <2>5 DEF WriterInv, EntryInv, Busy
  <2>7. 1 \in 1 .. Len(ioapics)
    <3>1. ioapics \in Seq(Apic) /\ ioapics # <<>>
      BY <1>1 DEF Inv, Types, EntryInv
    <3> QED
      BY <3>1
  <2>8. Progress(c)'
    BY <1>0, <2>1, <2>3, <2>7 DEF Progress
  <2> QED
    BY <1>3, <2>2, <2>3, <2>4, <2>6, <2>8 DEF Inv, ProgressInv
<1> QED
  BY <1>4, <1>5 DEF UartInterrupt

\* handle_ipc takes the console.
LEMMA GrantStep ==
  ASSUME IoApicAssumption, Inv, NEW c \in Core, GrantConsole(c)
  PROVE  Inv'
<1>0. /\ UNCHANGED <<regsel, table, addr_lock, ioapics, call, key, irq>>
      /\ granted = c /\ serial' = c /\ granted' = Nobody
  BY DEF GrantConsole
<1>1. c # Nobody /\ serial = Nobody
  BY <1>0, Constants DEF Inv, OwnerInv
<1>2. Owner' = Owner /\ OwnerInv' /\ Types'
  BY <1>0, <1>1 DEF Owner, OwnerInv, Inv, Types
<1>3. UartEntry' = UartEntry /\ \A d \in Core : Busy(d)' <=> Busy(d)
  BY <1>0 DEF UartEntry, Busy
<1>4. KeyInv' /\ WriterInv' /\ EntryInv'
  BY <1>0, <1>2, <1>3 DEF Inv, KeyInv, WriterInv, EntryInv
<1>5. ProgressInv'
  BY <1>0, <1>2, <1>3, ProgressFrame DEF Inv
<1>6. LockInv'
  BY <1>0 DEF Inv, LockInv, ApicOf
<1> QED
  BY <1>2, <1>4, <1>5, <1>6 DEF Inv

LEMMA InitInv == IoApicAssumption /\ Init => Inv
<1> SUFFICES ASSUME IoApicAssumption, Init PROVE Inv
  OBVIOUS
<1>1. /\ Idle \in CallRecord /\ [Idle EXCEPT !.op = "version"] \in CallRecord
      /\ [Idle EXCEPT !.op = "version"].op = "version"
      /\ [Idle EXCEPT !.op = "version"].i = 1 /\ ~[Idle EXCEPT !.op = "version"].locked
      /\ [Idle EXCEPT !.op = "version"].dest = 0
      /\ Idle.op = "idle" /\ ~Idle.locked
  BY Constants DEF Idle, CallRecord, Op
<1>2. /\ call[0].op = "version" /\ call[0].i = 1 /\ ~call[0].locked /\ call[0].dest = 0
      /\ \A c \in Core : c # 0 => call[c].op = "idle" /\ ~call[c].locked
      /\ call \in [Core -> CallRecord]
  BY <1>1, Constants DEF Init
<1>3. Masked \in Half /\ Masked.top = 0
  BY DEF Masked, Half
<1>4. UartEntry.top = 0
  BY <1>3, Constants DEF Init, UartEntry
<1>5. Types
  <2>1. /\ table = [a \in Apic |-> table[a]]
        /\ \A a \in Apic : table[a] \in [0 .. Madt[a].max_entry -> Half]
    BY <1>3 DEF Init
  <2>2. regsel \in [Apic -> Nat] /\ addr_lock \in [Apic -> Core \cup {Nobody}]
    BY DEF Init
  <2>3. ioapics \in Seq(Apic)
    BY DEF Init
  <2>4. /\ serial \in Core \cup {Nobody} /\ granted \in Core \cup {Nobody}
        /\ key \in BOOLEAN /\ irq \in SUBSET Core
    BY Constants DEF Init
  <2> QED
    BY <1>2, <2>1, <2>2, <2>3, <2>4 DEF Types
<1>6. Owner = 0 /\ OwnerInv /\ KeyInv
  BY Constants DEF Init, Owner, OwnerInv, KeyInv, Nobody
<1>7. WriterInv /\ EntryInv
  BY <1>2, <1>4, Constants DEF Init, WriterInv, EntryInv, Busy
<1>8. ProgressInv
  BY <1>2, <1>6, Constants DEF ProgressInv, Progress, Calls
<1>9. LockInv
  BY DEF Init, LockInv
<1> QED
  BY <1>5, <1>6, <1>7, <1>8, <1>9 DEF Inv

LEMMA NextInv == IoApicAssumption /\ Inv /\ [Next]_vars => Inv'
<1> SUFFICES ASSUME IoApicAssumption, Inv, [Next]_vars PROVE Inv'
  OBVIOUS
<1>1. CASE UNCHANGED vars
  <2>1. /\ UartEntry' = UartEntry /\ Owner' = Owner
        /\ \A c \in Core : (Busy(c)' <=> Busy(c)) /\ (Calls(c)' <=> Calls(c))
    BY <1>1 DEF vars, UartEntry, Owner, Busy, Calls
  <2>2. Types' /\ OwnerInv' /\ KeyInv'
    BY <1>1 DEF vars, Inv, Types, OwnerInv, KeyInv
  <2>3. WriterInv' /\ EntryInv'
    BY <1>1, <2>1 DEF vars, Inv, WriterInv, EntryInv
  <2>4. ProgressInv'
    BY <1>1, <2>1, ProgressFrame DEF vars, Inv
  <2>5. LockInv'
    BY <1>1 DEF vars, Inv, LockInv, ApicOf
  <2> QED
    BY <2>2, <2>3, <2>4, <2>5 DEF Inv
<1>2. CASE Key
  BY <1>2, KeyStep
<1>3. ASSUME NEW c \in Core, CoreStep(c) PROVE Inv'
  BY <1>3, SelectStep, VersionStep, RangeStep, WriteStep, InterruptStep, GrantStep DEF CoreStep
<1> QED
  BY <1>1, <1>2, <1>3 DEF Next

LEMMA Invariant == ASSUME IoApicAssumption PROVE Spec => []Inv
<1>1. Init => Inv
  BY InitInv
<1>2. Inv /\ [Next]_vars => Inv'
  BY NextInv
<1> QED
  BY <1>1, <1>2, PTL DEF Spec

-----------------------------------------------------------------------------
(* Theorems.                                                               *)

\* read_raw and write_raw: an I/O APIC's lock is held only by a core inside of
\* an access, and selects the version or an entry of the table.
THEOREM IoApicTypeCorrect == ASSUME IoApicAssumption PROVE Spec => []TypeOK
<1>1. Inv => TypeOK
  <2> SUFFICES ASSUME Inv PROVE TypeOK
    OBVIOUS
  <2>1. ASSUME NEW a \in Apic, addr_lock[a] # Nobody
        PROVE  /\ call[addr_lock[a]].locked
               /\ regsel[a] \in {IOAPICVER} \cup IOREDTBL_OFFSET .. IOREDTBL_OFFSET + 47
    <3>1. addr_lock[a] \in Core /\ call[addr_lock[a]].locked /\ ApicOf(call[addr_lock[a]]) = a
      BY <2>1 DEF Inv, Types, LockInv
    <3>2. PICK c \in Core : c = addr_lock[a]
      BY <3>1
    <3>3. Calls(c) /\ regsel[a] = RegOf(call[c]) /\ call[c].op \in Op
      BY <3>1, <3>2 DEF Inv, ProgressInv, Progress, Types, CallRecord
    <3>4. CASE call[c].op \in {"version", "range"}
      BY <3>1, <3>2, <3>3, <3>4 DEF RegOf
    <3>5. CASE call[c].op \in {"low", "high"}
      <4>1. EntryOf(call[c]) = UartGsi - Madt[Wired].gsi_base
        BY <3>1, <3>5 DEF Inv, ProgressInv, Progress, ApicOf, EntryOf
      <4>2. EntryOf(call[c]) \in 0 .. 23
        <5>1. /\ UartGsi - Madt[Wired].gsi_base \in 0 .. Madt[Wired].max_entry
              /\ Madt[Wired].max_entry \in 0 .. 23
          BY Constants
        <5> QED
          BY <4>1, <5>1
      <4>3. RegOf(call[c]) \in 16 .. 63
        BY <3>5, <4>2 DEF RegOf, IOREDTBL_OFFSET
      <4> QED
        BY <3>1, <3>3, <4>3 DEF IOREDTBL_OFFSET
    <3> QED
      BY <3>3, <3>4, <3>5 DEF Calls, Op
  <2>2. \A i \in DOMAIN ioapics : ioapics[i] \in Apic
    BY DEF Inv, Types
  <2> QED
    BY <2>1, <2>2 DEF Inv, Types, TypeOK
<1> QED
  BY <1>1, Invariant, PTL

\* map_gsi_vector: for any number of machines and I/O APICs, the two halves of
\* a redirection entry, written by write_ioredtbl_raw under separate locks, are
\* never written by two cores at a time.
THEOREM OneCoreWrites == ASSUME IoApicAssumption PROVE Spec => []OneWriter
<1>1. Inv => OneWriter
  BY DEF Inv, WriterInv, OneWriter, Calls, Busy
<1> QED
  BY <1>1, Invariant, PTL

\* NextConsole and map_gsi_vector: whenever a machine has the console and no
\* core uses the I/O APICs, the entry that was written half by half has the
\* vector of the UART, and its destination is that machine.
THEOREM EntryIsOwners == ASSUME IoApicAssumption PROVE Spec => []RoutedToOwner
<1>1. Inv => RoutedToOwner
  BY DEF Inv, EntryInv, RoutedToOwner, Owner, Busy
<1> QED
  BY <1>1, Invariant, PTL
=============================================================================
