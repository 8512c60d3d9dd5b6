-------------------------------- MODULE IoApic --------------------------------
(***************************************************************************)
(* The driver of the I/O APICs (ioapic.rs), register access by register    *)
(* access, under the use that the hypervisor makes of it: core 0 finds the *)
(* I/O APICs and routes the UART to itself, and the core that hands the    *)
(* console to the next machine routes it there (vcpu.rs).  Each machine    *)
(* has one core, with the machine's number for its APIC id.                *)
(***************************************************************************)
EXTENDS IoRedTbl, Sequences

CONSTANTS
  NumVms,
  Madt,        \* the I/O APICs of the MADT: version, max_entry and gsi_base
  UartGsi, UartVector,
  MAX_IOAPIC_COUNT

Core == 0 .. NumVms - 1
Apic == 1 .. Len(Madt)
Nobody == NumVms

\* The pin of the UART is one of an I/O APIC.
HasUart(a) == UartGsi \in Madt[a].gsi_base .. Madt[a].gsi_base + Madt[a].max_entry

\* No two I/O APICs have the same pins.
IoApicAssumption ==
  /\ NumVms \in Nat \ {0} /\ MAX_IOAPIC_COUNT \in Nat
  /\ UartGsi \in Nat /\ UartVector \in 0 .. 255
  /\ Madt \in Seq([version : Nat, max_entry : 0 .. 23, gsi_base : Nat])
  /\ \E a \in Apic : \A b \in Apic : HasUart(b) <=> b = a

IOAPICVER == 1
IOREDTBL_OFFSET == 16
IOAPIC_VERSION == 17

VARIABLES
  regsel,    \* the register that each I/O APIC has selected
  table,     \* its redirection entries, a half at a time
  addr_lock, \* the core that has the lock of each I/O APIC
  ioapics,   \* IOAPICS
  call,      \* what each core is doing with the I/O APICs
  serial,    \* the machine with the console, or Nobody
  granted,   \* the machine that has been sent the console, or Nobody
  key,       \* the UART has a key that nobody has read
  irq,       \* the cores with an interrupt from the UART
  early      \* a core was still routing the UART when the last key arrived

vars == <<regsel, table, addr_lock, ioapics, call, serial, granted, key, irq, early>>

Idle == [op |-> "idle", i |-> 1, locked |-> FALSE, dest |-> 0]
Masked == [low |-> 2^16, top |-> 0]

Init ==
  /\ regsel = [a \in Apic |-> 0]
  /\ table = [a \in Apic |-> [e \in 0 .. Madt[a].max_entry |-> Masked]]
  /\ addr_lock = [a \in Apic |-> Nobody]
  /\ ioapics = <<>>
  /\ call = [c \in Core |-> IF c = 0 THEN [Idle EXCEPT !.op = "version"] ELSE Idle]
  /\ serial = 0 /\ granted = Nobody
  /\ key = FALSE /\ irq = {} /\ early = FALSE

-----------------------------------------------------------------------------
(* Calls.                                                                  *)

\* get_ivec_range, whose end is not part of it.
InRange(gsi, base, max_entry) == gsi >= base /\ gsi < base + max_entry


\* Mutant: the entry stays masked.
Entry_Masked(dest) == NewEntry(UartVector, Fixed, Physical, 0, Edge, 1, dest)
Entry(dest) == NewEntry(UartVector, Fixed, Physical, 0, Edge, 0, dest)

\* Mutant: the upper half, with the destination, goes first.
First_High == "high"
First == "low"
Second == IF First = "low" THEN "high" ELSE "low"

\* The I/O APIC and the register of the access that a core makes next.
ApicOf(k) == IF k.op = "version" THEN k.i ELSE ioapics[k.i]
EntryOf(k) == UartGsi - Madt[ApicOf(k)].gsi_base
RegOf(k) == IF k.op \in {"version", "range"} THEN IOAPICVER
            ELSE (IOREDTBL_OFFSET + 2 * EntryOf(k) + (IF k.op = "high" THEN 1 ELSE 0)) % 256

Calls(c) == call[c].op \notin {"idle", "failed"}

\* read_raw and write_raw: the lock, the register, then the window.
SelectRegister(c) ==
  LET a == ApicOf(call[c])
  IN  /\ Calls(c) /\ ~call[c].locked
      /\ addr_lock[a] = Nobody
      /\ addr_lock' = [addr_lock EXCEPT ![a] = c]
      /\ regsel' = [regsel EXCEPT ![a] = RegOf(call[c])]
      /\ call' = [call EXCEPT ![c].locked = TRUE]
      /\ UNCHANGED <<table, ioapics, serial, granted, key, irq, early>>

InWindow(c, op) == call[c].op = op /\ call[c].locked

Unlock(c) == addr_lock' = [addr_lock EXCEPT ![ApicOf(call[c])] = Nobody]
Continue(c, op, i) ==
  call' = [call EXCEPT ![c] = [@ EXCEPT !.op = op, !.i = i, !.locked = FALSE]]

\* init_ioapics: IoApic::new for one I/O APIC of the MADT, which is left out if
\* its version is not the one expected; ArrayVec::push panics when it is full.
\* After the last one, core 0 calls map_gsi_vector.
ReadVersion(c) ==
  LET found == IF Madt[call[c].i].version = IOAPIC_VERSION
               THEN Append(ioapics, call[c].i) ELSE ioapics
  IN  /\ InWindow(c, "version")
      /\ Unlock(c)
      /\ IF Len(found) > MAX_IOAPIC_COUNT
         THEN Continue(c, "failed", 1) /\ UNCHANGED ioapics
         ELSE /\ ioapics' = found
              /\ IF call[c].i < Len(Madt) THEN Continue(c, "version", call[c].i + 1)
                 ELSE IF found = <<>> THEN Continue(c, "failed", 1)
                 ELSE Continue(c, "range", 1)
      /\ UNCHANGED <<regsel, table, serial, granted, key, irq, early>>

\* ioapic_for_gsi for one I/O APIC; when it is the one, IoRedTblEntry::new and
\* the checks of write_ioredtbl.
ReadRange(c) ==
  LET k == call[c]
      apic == Madt[ApicOf(k)]
  IN  /\ InWindow(c, "range")
      /\ Unlock(c)
      /\ IF InRange(UartGsi, apic.gsi_base, apic.max_entry)
         THEN IF validate(Entry(k.dest)) /\ EntryOf(k) <= 23 /\ Writable(into(Entry(k.dest)))
              THEN Continue(c, First, k.i) ELSE Continue(c, "failed", 1)
         ELSE IF k.i < Len(ioapics) THEN Continue(c, "range", k.i + 1)
         ELSE Continue(c, "failed", 1)
      /\ UNCHANGED <<regsel, table, ioapics, serial, granted, key, irq, early>>

\* write_ioredtbl_raw, half by half.
WriteHalf(c, half) ==
  LET k == call[c]
      e == EntryOf(k)
      bits == into(Entry(k.dest))
  IN  /\ InWindow(c, half)
      /\ Unlock(c)
      /\ table' = [table EXCEPT ![ApicOf(k)][(regsel[ApicOf(k)] - IOREDTBL_OFFSET) \div 2] =
           IF half = "low" THEN [@ EXCEPT !.low = bits.low] ELSE [@ EXCEPT !.top = bits.top]]
      /\ IF half = First THEN Continue(c, Second, k.i) ELSE Continue(c, "idle", 1)
      /\ UNCHANGED <<regsel, ioapics, serial, granted, key, irq, early>>

-----------------------------------------------------------------------------
(* The console.                                                            *)

\* The hardware: the pin of the UART and its entry.
Wired == CHOOSE a \in Apic : HasUart(a)
UartEntry == table[Wired][UartGsi - Madt[Wired].gsi_base]

\* A key arrives when the UART has none: its interrupt is edge triggered.
Key ==
  /\ ~key /\ key' = TRUE
  /\ irq' = IF UartEntry.low < 2^16 THEN irq \cup {UartEntry.top} ELSE irq
  /\ early' = (\E c \in Core : Calls(c))
  /\ UNCHANGED <<regsel, table, addr_lock, ioapics, call, serial, granted>>

NextVm(vm) == (vm + 1) % NumVms

\* handle_uart_keypress on the core that was interrupted: without the console
\* it reads nothing; the third Ctrl-a hands the console on, which is sent
\* before the UART is routed.  A core with both interrupts pending takes the one
\* of the message first: its vector (49) is above the UART's (36).
UartInterrupt(c, handover) ==
  /\ c \in irq /\ call[c].op = "idle" /\ granted # c
  /\ irq' = irq \ {c}
  /\ IF serial # c
     THEN UNCHANGED <<call, serial, granted, key>>
     ELSE /\ key' = FALSE
          /\ IF key /\ handover
             THEN /\ serial' = Nobody
                  /\ granted' = (c + 1) % NumVms
                  /\ call' = [call EXCEPT ![c] =
                       [op |-> "range", i |-> 1, locked |-> FALSE, dest |-> NextVm(c)]]
             ELSE UNCHANGED <<serial, granted, call>>
  /\ UNCHANGED <<regsel, table, addr_lock, ioapics, early>>

\* handle_ipc takes the console from a GrantConsole message.
GrantConsole(c) ==
  /\ granted = c /\ call[c].op = "idle"
  /\ serial' = c /\ granted' = Nobody
  /\ UNCHANGED <<regsel, table, addr_lock, ioapics, call, key, irq, early>>

CoreStep(c) ==
  \/ SelectRegister(c) \/ ReadVersion(c) \/ ReadRange(c)
  \/ \E half \in {"low", "high"} : WriteHalf(c, half)
  \/ \E handover \in BOOLEAN : UartInterrupt(c, handover)
  \/ GrantConsole(c)

Next == Key \/ \E c \in Core : CoreStep(c)

Spec == Init /\ [][Next]_vars /\ \A c \in Core : WF_vars(CoreStep(c))

-----------------------------------------------------------------------------
TypeOK ==
  /\ serial \in Core \cup {Nobody} /\ granted \in Core \cup {Nobody}
  /\ irq \subseteq Core
  /\ \A a \in Apic : addr_lock[a] # Nobody =>
       /\ call[addr_lock[a]].locked
       /\ regsel[a] \in {IOAPICVER} \cup IOREDTBL_OFFSET .. IOREDTBL_OFFSET + 47
  /\ \A i \in DOMAIN ioapics : ioapics[i] \in Apic

\* The halves of the entry are written under separate locks, but never by two
\* cores at a time: the next machine is interrupted by the UART, and can hand
\* the console on, only after the last half is written.
OneWriter ==
  \A c, d \in Core : Calls(c) /\ Calls(d) => c = d

\* When no console is under way and nobody is writing, the UART interrupts the
\* machine that has the console.
RoutedToOwner ==
  serial # Nobody /\ ioapics # <<>> /\ (\A c \in Core : call[c].op = "idle") =>
    UartEntry.top = serial /\ UartEntry.low % 256 = UartVector

\* Routing the UART does not fail when its I/O APIC works: ioapic_for_gsi finds
\* the I/O APIC and the entry of the UART's gsi, which is not on the last pin
\* (get_ivec_range leaves that pin out).
FindsTheIoApic ==
  Madt[Wired].version = IOAPIC_VERSION => \A c \in Core : call[c].op # "failed"

\* A key that arrives while no core is routing the UART is read: by the machine
\* with the console, or by the one that the console is on its way to.  A key that
\* arrives while init_ioapics or map_gsi_vector is at work has no such promise:
\* its interrupt goes to the core that has just given the console away, or is
\* masked; handle_uart_keypress reads nothing, and the UART gives no further edge.
KeysAreRead == (key /\ ~early) ~> ~key

=============================================================================
