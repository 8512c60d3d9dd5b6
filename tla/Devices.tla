------------------------------ MODULE Devices -------------------------------
(***************************************************************************)
(* The small emulated devices of a machine: the interrupt controllers, the *)
(* keyboard controller, the CMOS clock, the VGA controller, the PCI root   *)
(* complex, the ACPI timer and the debug port.  Every access of a guest is *)
(* one event, handled under the device's lock.                             *)
(***************************************************************************)
EXTENDS PortRequests, FiniteSets

CONSTANTS
  Guests,     \* the machines: their memory in MiB, what their guests do, and
              \* the time for which they run
  PmTicks,    \* PMTIMER_HZ, in ticks per PmUnit
  PmUnit,     \* the units of time in which a second is counted
  PmWidth     \* 2^32: the PM timer counts modulo this

VARIABLES
  mem,      \* VirtualMachineConfig.memory
  accesses, \* the accesses that this guest makes
  until,    \* how long it runs
  imr,      \* Pic8259.master_state.imr
  vga,      \* VgaController
  rtc,      \* CmosRtc
  pci,      \* PciRootComplex.current_address, as its four bytes
  time,     \* the time since system_start_time
  port_in,  \* the last read: its port, its bytes and the time of it
  halted    \* an event ended in an error, and with it the core

vars == <<mem, accesses, until, imr, vga, rtc, pci, time, port_in, halted>>

-----------------------------------------------------------------------------
(* The interrupt controllers: the slave's mask is the master's.            *)

PIC_MASTER_DATA == \h21
PIC_SLAVE_DATA == \hA1
PicRead(dev, port, len) ==
  Done(dev, IF port \in {PIC_MASTER_DATA, PIC_SLAVE_DATA}
            THEN copy_from_u32(U32(dev), len) ELSE Zeros(len))
PicWrite(dev, port, req) ==
  IF port \notin {PIC_MASTER_DATA, PIC_SLAVE_DATA} THEN Done(dev, <<>>)
  ELSE IF ConvertsTo(req, 1) THEN Done(AsByte(req), <<>>) ELSE Err(dev)

(* The keyboard controller and the debug port.                             *)
KeyboardRead(dev, port, len) == Done(dev, copy_from_u32(U32(\hFF), len))
DebugPortRead(dev, port, len) == Done(dev, copy_from_u32(U32(\hE9), len))

-----------------------------------------------------------------------------
(* The CMOS clock.                                                         *)

CmosRegister ==
  (0 .. \h10) \cup {\h12} \cup (\h14 .. \h1A) \cup (\h2E .. \h35) \cup (\h5B .. \h5D)
Unknown == \hFF
StatusRegisterC == \h0C
StatusRegisterD == \h0D
ShutdownStatus == \h0F
QemuMemAbove16MbLsb == \h34
QemuMemAbove16MbMsb == \h35

\* The subtraction wraps in u64 and the number of blocks is cut to 16 bits.
default_register_values(megs) ==
  LET blocks == (((megs % 4096) - 16) * 16) % 65536
  IN  [r \in Byte |->
         CASE r = StatusRegisterD -> \h80
           [] r = QemuMemAbove16MbLsb -> blocks % 256
           [] r = QemuMemAbove16MbMsb -> blocks \div 256
           [] OTHER -> 0]

RTC_ADDRESS == \h70
RTC_DATA == \h71
RtcRead(dev, port, len) ==
  Done(dev, copy_from_u32(U32(IF port = RTC_ADDRESS THEN dev.addr
                              ELSE dev.data[dev.addr]), len))

\* Mutant: only register C is read-only.
RtcWrite_D(dev, port, req) ==
  LET val == AsByte(req) % 128
  IN  IF ~ConvertsTo(req, 1) THEN Err(dev)
      ELSE IF port = RTC_ADDRESS
      THEN Done([dev EXCEPT !.addr = IF val \in CmosRegister THEN val ELSE Unknown],
                <<>>)
      ELSE IF dev.addr \in {ShutdownStatus, StatusRegisterC} THEN Done(dev, <<>>)
      ELSE Done([dev EXCEPT !.data[dev.addr] = val], <<>>)

\* The bit that masks NMIs is dropped, from a register's number and from data.
RtcWrite(dev, port, req) ==
  LET val == AsByte(req) % 128
  IN  IF ~ConvertsTo(req, 1) THEN Err(dev)
      ELSE IF port = RTC_ADDRESS
      THEN Done([dev EXCEPT !.addr = IF val \in CmosRegister THEN val ELSE Unknown],
                <<>>)
      ELSE IF dev.addr \in {ShutdownStatus, StatusRegisterC, StatusRegisterD}
      THEN Done(dev, <<>>)
      ELSE Done([dev EXCEPT !.data[dev.addr] = val], <<>>)

-----------------------------------------------------------------------------
(* The VGA controller.                                                     *)

VGA_INDEX == \h3D4
VGA_DATA == \h3D5
VgaRegister == 0 .. 15
VgaNew ==
  [index |-> 0,
   registers |-> [r \in VgaRegister |->
     << \h61, \h50, \h52, \h0F, \h19, \h06, \h19, \h19,
        \h02, \h0D, \h0B, \h0C, 0, 0, 0, 0 >>[r + 1]]]

VgaRead(dev, port, len) ==
  IF port = VGA_DATA
  THEN Done(dev, copy_from_u32(U32(dev.registers[dev.index]), len))
  ELSE Err(dev)

\* A word to the index port is an index, in its low byte, and data.
VgaWrite(dev, port, req) ==
  LET index == IF Len(req) = 1 THEN req[1] ELSE req[2]
      moved == [dev EXCEPT !.index = index]
  IN  IF port = VGA_DATA
      THEN IF ConvertsTo(req, 1)
           THEN Done([dev EXCEPT !.registers[dev.index] = AsByte(req)], <<>>)
           ELSE Err(dev)
      ELSE IF Len(req) = 4 \/ index \notin VgaRegister THEN Err(dev)
      ELSE IF Len(req) = 1 THEN Done(moved, <<>>)
      ELSE Done([moved EXCEPT !.registers[index] = req[1]], <<>>)

-----------------------------------------------------------------------------
(* The PCI root complex: two devices of type 0, with an identity only.     *)

PCI_CONFIG_ADDRESS == \hCF8
PCI_CONFIG_TYPE == \hCFB
PCI_CONFIG_DATA == \hCFC
Bus0(devfn) == <<0, devfn>>
ConfigSpace(device_id) ==
  [r \in 0 .. 63 |-> IF r = 0 THEN device_id \o << \h80, \h86 >> ELSE Zeros(4)]
PciDevices ==
  [bdf \in {Bus0(0), Bus0(8)} |->
     ConfigSpace(IF bdf = Bus0(0) THEN << \h29, \hC0 >> ELSE << \h29, \h18 >>)]

\* `current_address & 0xff >> 2' shifts the mask, not the address.
ConfigRegister(addr) == addr[4] % 64

PciRead(dev, port, len) ==
  LET bdf == <<dev[2], dev[3]>>
      offset == port - PCI_CONFIG_DATA
  IN  IF port = PCI_CONFIG_ADDRESS
      THEN Done(dev, copy_from_u32(<<dev[1] + 128, dev[2], dev[3], dev[4]>>, len))
      ELSE IF port = PCI_CONFIG_TYPE THEN Err(dev)
      ELSE IF bdf \in DOMAIN PciDevices
      THEN LET val == PciDevices[bdf][ConfigRegister(dev)]
           IN  Done(dev, copy_from_u32(Zeros(offset) \o SubSeq(val, 1, 4 - offset), len))
      ELSE Done(dev, copy_from_u32(<<255, 255, 255, 255>>, len))

PciWrite(dev, port, req) ==
  IF port # PCI_CONFIG_ADDRESS THEN Done(dev, <<>>)
  ELSE IF ConvertsTo(req, 4) THEN Done([req EXCEPT ![1] = @ % 128], <<>>)
  ELSE Err(dev)

-----------------------------------------------------------------------------
(* The ACPI timer: the time since the start, in ticks.                     *)

PMTIMER == \h608
PmTime(t) == ((t * PmTicks) \div PmUnit) % PmWidth
AcpiRead(dev, port, len) ==
  Done(dev, IF port = PMTIMER THEN copy_from_u32(U32(PmTime(time)), len)
            ELSE Zeros(len))

-----------------------------------------------------------------------------
InitWith(guest) ==
  /\ mem = guest.mem /\ accesses = guest.accesses /\ until = guest.until
  /\ imr = 0
  /\ vga = VgaNew
  /\ rtc = [addr |-> 0, data |-> default_register_values(mem)]
  /\ pci = Zeros(4)
  /\ time = 0
  /\ port_in = [port |-> 0, buff |-> <<>>, time |-> 0]
  /\ halted = FALSE

Init == \E guest \in Guests : InitWith(guest)

\* The end of an exit: a read gives the guest its bytes, an error ends the core.
Finish(a, res) ==
  /\ port_in' = IF a.op = "read" /\ res.ok
                THEN [port |-> a.port, buff |-> res.buff, time |-> time] ELSE port_in
  /\ halted' = ~res.ok
  /\ UNCHANGED <<mem, accesses, until, time>>

PicEvent(a) ==
  LET res == IF a.op = "read" THEN PicRead(imr, a.port, a.len)
             ELSE PicWrite(imr, a.port, a.req)
  IN  /\ a.port \in {\h20, \h21, \hA0, \hA1, \h4D0, \h4D1}
      /\ imr' = res.dev
      /\ Finish(a, res)
      /\ UNCHANGED <<vga, rtc, pci>>

VgaEvent(a) ==
  LET res == IF a.op = "read" THEN VgaRead(vga, a.port, a.len)
             ELSE VgaWrite(vga, a.port, a.req)
  IN  /\ a.port \in {VGA_INDEX, VGA_DATA}
      /\ vga' = res.dev
      /\ Finish(a, res)
      /\ UNCHANGED <<imr, rtc, pci>>

RtcEvent(a) ==
  LET res == IF a.op = "read" THEN RtcRead(rtc, a.port, a.len)
             ELSE RtcWrite(rtc, a.port, a.req)
  IN  /\ a.port \in {RTC_ADDRESS, RTC_DATA}
      /\ rtc' = res.dev
      /\ Finish(a, res)
      /\ UNCHANGED <<imr, vga, pci>>

PciEvent(a) ==
  LET res == IF a.op = "read" THEN PciRead(pci, a.port, a.len)
             ELSE PciWrite(pci, a.port, a.req)
  IN  /\ a.port \in {PCI_CONFIG_ADDRESS} \cup (PCI_CONFIG_TYPE .. PCI_CONFIG_DATA + 3)
      /\ pci' = res.dev
      /\ Finish(a, res)
      /\ UNCHANGED <<imr, vga, rtc>>

\* The devices without a state: writes to them are ignored.
StatelessEvent(a) ==
  LET res == IF a.op = "write" THEN Done({}, <<>>)
             ELSE IF a.port = PMTIMER THEN AcpiRead({}, a.port, a.len)
             ELSE IF a.port = \h402 THEN DebugPortRead({}, a.port, a.len)
             ELSE KeyboardRead({}, a.port, a.len)
  IN  /\ a.port \in {PMTIMER, \h60, \h64, \h402}
      /\ Finish(a, res)
      /\ UNCHANGED <<imr, vga, rtc, pci>>

Tick ==
  /\ time < until
  /\ time' = time + 1
  /\ UNCHANGED <<mem, accesses, until, imr, vga, rtc, pci, port_in, halted>>

Access ==
  /\ ~halted
  /\ \E a \in accesses :
       PicEvent(a) \/ VgaEvent(a) \/ RtcEvent(a) \/ PciEvent(a) \/ StatelessEvent(a)

Next == Access \/ Tick

Spec == Init /\ [][Next]_vars

-----------------------------------------------------------------------------
TypeOK ==
  /\ imr \in Byte
  /\ vga.index \in VgaRegister /\ \A r \in VgaRegister : vga.registers[r] \in Byte
  /\ rtc.addr \in CmosRegister \cup {Unknown}
  /\ pci \in Seq(Byte) /\ Len(pci) = 4 /\ pci[1] < 128
  /\ halted \in BOOLEAN

\* Whatever a guest writes through the address and data ports, register D of
\* the CMOS clock says that its battery works and register C, like the
\* shutdown status, stays zero: RtcWrite ignores data for the three.
ReadOnlyKept ==
  /\ rtc.data[StatusRegisterD] = \h80
  /\ rtc.data[StatusRegisterC] = 0 /\ rtc.data[ShutdownStatus] = 0

\* For every size from 16 MiB to below 4 GiB, the two registers that firmware
\* reads hold the memory above 16 MiB in blocks of 64 KiB, as the comment on
\* CmosRegister says, as long as the guest does not write them itself.
ReportsMemory ==
  mem \in 16 .. 4095 =>
    rtc.data[QemuMemAbove16MbMsb] * 256 + rtc.data[QemuMemAbove16MbLsb]
      = (mem - 16) * 16

\* "The VGA controller allows a register update and data write in one
\* operation": in every state a word written to the index port does what the
\* two bytes written to the index and the data port one after the other do.
VgaWordIsTwoBytes ==
  \A index \in VgaRegister, data \in {0, 1, 255} :
    VgaWrite(vga, VGA_INDEX, <<data, index>>)
      = VgaWrite(VgaWrite(vga, VGA_INDEX, <<index>>).dev, VGA_DATA, <<data>>)

\* A configuration register read in bytes or in words from the four data
\* ports is the register read whole, as test_register_byte_read and
\* test_half_register_read show for one device: whatever the address, and
\* also where there is no device.
PciPartsAgree ==
  LET whole == PciRead(pci, PCI_CONFIG_DATA, 4).buff
      Part(i, len) == PciRead(pci, PCI_CONFIG_DATA + i, len).buff
  IN  /\ \A i \in 0 .. 3 : Part(i, 1) = <<whole[4 - i]>>
      /\ \A i \in {0, 2} : Part(i, 2) = SubSeq(whole, 3 - i, 4 - i)

\* Of two successive reads of the ACPI timer, the second is ahead of the first
\* by the ticks that have passed in between, to within one and modulo the
\* width, also across a wrap of the 32 bits.
PmTimerAdvances ==
  [][ LET old == port_in.buff[Len(port_in.buff)]
          new == port_in'.buff[Len(port_in'.buff)]
          passed == ((port_in'.time - port_in.time) * PmTicks) \div PmUnit
      IN  port_in.port = PMTIMER /\ port_in'.port = PMTIMER =>
            (new - old - passed) % PmWidth \in {0, 1} ]_port_in

=============================================================================
