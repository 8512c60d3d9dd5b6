-------------------------------- MODULE Uart --------------------------------
(***************************************************************************)
(* The emulated UART (virtdev/com.rs) as operators on its registers.  Each *)
(* event gives the registers after it, the bytes left in the buffer of a   *)
(* read and the responses pushed, in order.                                *)
(***************************************************************************)
EXTENDS PortRequests, Bitwise

DATA == 0
IER == 1
IIR == 2
LSR == 5
THR_EMPTY_INTERRUPT == 2
CtrlA == 1

\* DeviceEventResponse; a GSI is always the UART's.
Gsi == [kind |-> "GSI", val |-> 0]
NextConsole == [kind |-> "NextConsole", val |-> 0]
Transmitted(val) == [kind |-> "GuestUartTransmitted", val |-> val]

UartNew ==
  [receive_buffer |-> <<>>,  \* Option<u8>
   iir |-> 1,                \* interrupt_identification_register
   ier |-> 0,                \* interrupt_enable_register
   line_control |-> 0,
   divisor |-> 0,
   ctrl_a_count |-> 0]

divisor_latch_bit_set(dev) == dev.line_control >= 128

\* Uart8250::write: a byte that was not read yet is lost.
Receive(dev, key) == [dev EXCEPT !.receive_buffer = <<key>>, !.iir = 4]

HostUartReceived(dev, key) ==
  LET count == dev.ctrl_a_count + (IF key = CtrlA THEN 1 ELSE 0)
      third == count = 3
  IN  [dev |-> Receive([dev EXCEPT !.ctrl_a_count = IF third THEN 0 ELSE count], key),
       responses |-> << Gsi >> \o (IF third THEN << NextConsole >> ELSE <<>>)]

\* Mutant: a byte that was read stays in the buffer.
UartRead_Keep(dev, offset, len) ==
  LET ready == IF dev.receive_buffer = <<>> THEN 0 ELSE 1
  IN  CASE offset = DATA /\ divisor_latch_bit_set(dev) ->
             Done(dev, copy_from_u32(U32(dev.divisor % 256), len))
        [] offset = DATA /\ ~divisor_latch_bit_set(dev) /\ ready = 1 ->
             Done(dev, copy_from_u32(U32(dev.receive_buffer[1]), len))
        [] offset = IIR -> Done([dev EXCEPT !.iir = 1], copy_from_u32(U32(dev.iir), len))
        [] offset = IER -> Done(dev, copy_from_u32(U32(dev.ier), len))
        [] offset = LSR -> Done(dev, copy_from_u32(U32(\h60 + ready), len))
        [] OTHER -> Done(dev, Zeros(len))

\* An empty receive buffer, and the other registers, leave the guest's buffer
\* as it was: zeros.  DLL has the number of DATA, and its branch is dead.
UartRead(dev, offset, len) ==
  LET ready == IF dev.receive_buffer = <<>> THEN 0 ELSE 1
  IN  CASE offset = DATA /\ divisor_latch_bit_set(dev) ->
             Done(dev, copy_from_u32(U32(dev.divisor % 256), len))
        [] offset = DATA /\ ~divisor_latch_bit_set(dev) /\ ready = 1 ->
             Done([dev EXCEPT !.receive_buffer = <<>>, !.iir = 1],
                  copy_from_u32(U32(dev.receive_buffer[1]), len))
        [] offset = IIR -> Done([dev EXCEPT !.iir = 1], copy_from_u32(U32(dev.iir), len))
        [] offset = IER -> Done(dev, copy_from_u32(U32(dev.ier), len))
        [] offset = LSR -> Done(dev, copy_from_u32(U32(\h60 + ready), len))
        [] OTHER -> Done(dev, Zeros(len))

Transmits(dev, offset) == offset = DATA /\ ~divisor_latch_bit_set(dev)

\* A write of the byte val.  The line control register is not stored, so that
\* the divisor latch is never on.
UartWrite(dev, offset, val) ==
  CASE Transmits(dev, offset) ->
         [dev |-> [dev EXCEPT !.iir = 2],
          responses |-> << Transmitted(val) >>
            \o (IF dev.ier & THR_EMPTY_INTERRUPT # 0 THEN << Gsi >> ELSE <<>>)]
    [] offset = DATA /\ divisor_latch_bit_set(dev) ->
         [dev |-> [dev EXCEPT !.divisor = @ & (\hFF00 + val)], responses |-> <<>>]
    [] offset = IER -> [dev |-> [dev EXCEPT !.ier = val], responses |-> <<>>]
    [] OTHER -> [dev |-> dev, responses |-> <<>>]

=============================================================================
