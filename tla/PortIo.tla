------------------------------- MODULE PortIo -------------------------------
(***************************************************************************)
(* Port I/O of the cores of one machine, from the exit to the effect: the  *)
(* instructions that emulate/portio.rs emulates, the dispatch to the UART  *)
(* and the debug port under their locks, the responses that the exit       *)
(* collects, and what handle_vmexit_impl makes of them.  The keys of the   *)
(* host's UART come in as exits of the boot processor.                     *)
(*                                                                         *)
(* A string instruction is many events, and another core may get at the    *)
(* device between two of them.  A core that panics in on_event keeps the   *)
(* lock of the device; one that returns an error has released it.          *)
(***************************************************************************)
EXTENDS Uart, SequencesExt

CONSTANTS
  NumCores,      \* the cores of the machine; the boot processor is core 1
  Programs,      \* the I/O instructions that the cores execute, by core, and
                 \* the keys pressed meanwhile
  Memory,        \* the bytes of guest memory at the start
  MaxResponses   \* MAX_EVENT_RESPONSES

PortIoAssumption ==
  /\ NumCores \in Nat \ {0}
  /\ MaxResponses \in Nat \ {0}
  /\ \A p \in Programs : DOMAIN p.instrs = 1 .. NumCores

Core == 1 .. NumCores
UartBase == \h3F8
Devs == {"uart", "debug"}

VARIABLES
  pc,        \* of each core: "guest", "chunks", "respond", or "halted"
  instr,     \* the exit being handled
  todo,      \* the events it still has to dispatch
  bytes,     \* the bytes it has read from the port so far
  responses, \* ResponseEventArray
  rax,       \* of each core, most significant byte first
  memory,    \* guest memory
  uart,      \* Uart8250
  lock,      \* who holds the lock of each device; 0: nobody
  console,   \* the bytes written to the host console, each with its core
  switches,  \* how often the console was passed on
  typed,     \* the keys pressed
  got,       \* the bytes that guests took from the receive buffer
  wrote,     \* the bytes that the guest of each core sent to the console
  program    \* what is left of the program

vars == <<pc, instr, todo, bytes, responses, rax, memory, uart, lock,
          console, switches, typed, got, wrote, program>>

Nop == [op |-> "none"]

InitWith(p) ==
  /\ pc = [c \in Core |-> "guest"]
  /\ instr = [c \in Core |-> Nop]
  /\ todo = [c \in Core |-> <<>>]
  /\ bytes = [c \in Core |-> <<>>]
  /\ responses = [c \in Core |-> <<>>]
  /\ rax = [c \in Core |-> Zeros(8)]
  /\ memory = Memory
  /\ uart = UartNew
  /\ lock = [d \in Devs |-> 0]
  /\ console = <<>>
  /\ switches = 0
  /\ typed = <<>>
  /\ got = <<>>
  /\ wrote = [c \in Core |-> <<>>]
  /\ program = p

Init == \E p \in Programs : InitWith(p)

-----------------------------------------------------------------------------
(* The devices, as dispatch_event finds them.                              *)

DeviceOf(port) ==
  CASE port \in UartBase .. UartBase + 7 -> "uart"
    [] port = \h402 -> "debug"
    [] OTHER -> "none"

\* on_event for a write and a read: the UART after it, what a read leaves in
\* the buffer, the responses it pushes and whether it returns Ok.
Outcome(dev, buff, rs, ok) == [dev |-> dev, buff |-> buff, rs |-> rs, ok |-> ok]
OnWrite(port, req) ==
  IF DeviceOf(port) = "none" THEN Outcome(uart, <<>>, <<>>, TRUE)
  ELSE IF ~ConvertsTo(req, 1) THEN Outcome(uart, <<>>, <<>>, FALSE)
  ELSE IF DeviceOf(port) = "debug"
  THEN Outcome(uart, <<>>, << Transmitted(AsByte(req)) >>, TRUE)
  ELSE LET res == UartWrite(uart, port - UartBase, AsByte(req))
       IN  Outcome(res.dev, <<>>, res.responses, TRUE)
OnRead(port, len) ==
  CASE DeviceOf(port) = "none" -> Outcome(uart, Zeros(len), <<>>, TRUE)
    [] DeviceOf(port) = "debug" ->
         Outcome(uart, copy_from_u32(U32(\hE9), len), <<>>, TRUE)
    [] OTHER -> LET res == UartRead(uart, port - UartBase, len)
                IN  Outcome(res.dev, res.buff, <<>>, TRUE)

-----------------------------------------------------------------------------
(* The exit of an I/O instruction.                                         *)

InMemory(addr, len) == addr + len <= Len(memory)
chunks_exact(buff, size) ==
  [i \in 1 .. Len(buff) \div size |-> SubSeq(buff, (i - 1) * size + 1, i * size)]

\* The requests of an instruction.  OUTS has read all its bytes, in the order
\* of memory, before the first event; INS has a buffer of rcx bytes, whatever
\* the size.
Events(i) ==
  CASE i.op = "out" -> << SubSeq(i.rax, 9 - i.size, 8) >>
    [] i.op = "in" -> << Zeros(i.size) >>
    [] i.op = "outs" ->
         chunks_exact(SubSeq(memory, i.addr + 1, i.addr + i.rcx * i.size), i.size)
    [] i.op = "ins" -> chunks_exact(Zeros(i.rcx), i.size)

\* The bytes that an instruction sends to the console, for the properties.
Sends(i) ==
  IF i.size # 1 \/ i.port \notin {UartBase, \h402} THEN <<>>
  ELSE CASE i.op = "out" -> << i.rax[8] >>
         [] i.op = "outs" -> SubSeq(memory, i.addr + 1, i.addr + i.rcx)
         [] OTHER -> <<>>

Exit(c, i) ==
  /\ pc[c] = "guest"
  /\ program' = [program EXCEPT !.instrs[c] = Tail(@)]
  /\ instr' = [instr EXCEPT ![c] = i]
  /\ rax' = [rax EXCEPT ![c] = i.rax]
  /\ bytes' = [bytes EXCEPT ![c] = <<>>]
  /\ IF i.op = "outs" /\ ~InMemory(i.addr, i.rcx * i.size)
     THEN /\ pc' = [pc EXCEPT ![c] = "halted"]
          /\ UNCHANGED <<todo, wrote>>
     ELSE /\ pc' = [pc EXCEPT ![c] = "chunks"]
          /\ todo' = [todo EXCEPT ![c] = Events(i)]
          /\ wrote' = [wrote EXCEPT ![c] = @ \o Sends(i)]
  /\ UNCHANGED <<responses, memory, uart, lock, console, switches, typed, got>>

\* A key of the host: the boot processor exits and reads it from the hardware.
KeyPress(key) ==
  /\ pc[1] = "guest"
  /\ program' = [program EXCEPT !.keys = Tail(@)]
  /\ typed' = Append(typed, key)
  /\ instr' = [instr EXCEPT ![1] = [op |-> "key", port |-> UartBase, key |-> key]]
  /\ todo' = [todo EXCEPT ![1] = << <<key>> >>]
  /\ pc' = [pc EXCEPT ![1] = "chunks"]
  /\ UNCHANGED <<bytes, responses, rax, memory, uart, lock, console, switches,
                 got, wrote>>

OnEvent(i, chunk) ==
  IF i.op = "key"
  THEN LET res == HostUartReceived(uart, i.key)
       IN  Outcome(res.dev, <<>>, res.responses, TRUE)
  ELSE IF i.op \in {"out", "outs"} THEN OnWrite(i.port, chunk)
  ELSE OnRead(i.port, Len(chunk))

\* A full array of responses panics inside of on_event.
KeepsLock(full, ok) == full

\* dispatch_event: on_event runs under the device's lock.  A full array of
\* responses panics in there; an error panics after the lock is released.
Dispatch(c) ==
  LET i == instr[c]
      dev == DeviceOf(i.port)
      res == OnEvent(i, Head(todo[c]))
      full == Len(responses[c]) + Len(res.rs) > MaxResponses
  IN  /\ pc[c] = "chunks"
      /\ todo[c] # <<>>
      /\ dev # "none" => lock[dev] = 0
      /\ IF full \/ ~res.ok
         THEN /\ pc' = [pc EXCEPT ![c] = "halted"]
              /\ lock' = IF KeepsLock(full, res.ok)
                         THEN [lock EXCEPT ![dev] = c] ELSE lock
              /\ UNCHANGED <<todo, bytes, responses, uart, got>>
         ELSE /\ uart' = res.dev
              /\ todo' = [todo EXCEPT ![c] = Tail(@)]
              /\ bytes' = [bytes EXCEPT ![c] = @ \o res.buff]
              /\ responses' = [responses EXCEPT ![c] = @ \o res.rs]
              /\ got' = IF i.op \in {"in", "ins"} /\ i.port = UartBase /\ uart.receive_buffer # <<>>
                        THEN Append(got, uart.receive_buffer[1]) ELSE got
              /\ UNCHANGED <<pc, lock>>
      /\ UNCHANGED <<instr, rax, memory, console, switches, typed, wrote, program>>

-----------------------------------------------------------------------------
(* The end of the instruction.                                             *)

\* `rax &= (!rax) << (size * 8)', then `rax |= value': the bytes above the
\* value are those of rax without the bits of the bytes size places lower.
LoadRax(old, size, data) ==
  LET masked == [j \in 1 .. 8 |->
                   IF j + size > 8 THEN 0 ELSE old[j] & (255 - old[j + size])]
      value == Zeros(8 - size) \o data
  IN  [j \in 1 .. 8 |-> masked[j] | value[j]]

\* INS writes its whole buffer, of which bytes that fill no chunk are zeros.
InsBuffer(c) == bytes[c] \o Zeros(instr[c].rcx - Len(bytes[c]))
StoreBytes(addr, buff) ==
  [j \in 1 .. Len(memory) |->
     IF j - addr \in 1 .. Len(buff) THEN buff[j - addr] ELSE memory[j]]

Complete(c) ==
  LET i == instr[c]
      fails == i.op = "ins" /\ ~InMemory(i.addr, i.rcx)
  IN  /\ pc[c] = "chunks"
      /\ todo[c] = <<>>
      /\ pc' = [pc EXCEPT ![c] = IF fails THEN "halted" ELSE "respond"]
      /\ rax' = IF i.op = "in"
                THEN [rax EXCEPT ![c] = LoadRax(@, i.size, bytes[c])] ELSE rax
      /\ memory' = IF i.op = "ins" /\ ~fails
                   THEN StoreBytes(i.addr, InsBuffer(c)) ELSE memory
      /\ UNCHANGED <<instr, todo, bytes, responses, uart, lock, console, switches,
                     typed, got, wrote, program>>

\* Mutant: an interrupt that was delivered stays among the responses.
Handled_KeepGsi(rs) == IF Head(rs).kind = "GSI" THEN rs ELSE Tail(rs)

Handled(rs) == Tail(rs)

\* The responses, one after the other; the machine holds the console.
Respond(c) ==
  LET r == Head(responses[c])
  IN  /\ pc[c] = "respond"
      /\ responses[c] # <<>>
      /\ responses' = [responses EXCEPT ![c] = Handled(@)]
      /\ console' = IF r.kind = "GuestUartTransmitted"
                    THEN Append(console, <<c, r.val>>) ELSE console
      /\ switches' = switches + (IF r.kind = "NextConsole" THEN 1 ELSE 0)
      /\ UNCHANGED <<pc, instr, todo, bytes, rax, memory, uart, lock, typed, got,
                     wrote, program>>

Resume(c) ==
  /\ pc[c] = "respond"
  /\ responses[c] = <<>>
  /\ pc' = [pc EXCEPT ![c] = "guest"]
  /\ UNCHANGED <<instr, todo, bytes, responses, rax, memory, uart, lock, console,
                 switches, typed, got, wrote, program>>

Handle(c) == Dispatch(c) \/ Complete(c) \/ Respond(c) \/ Resume(c)

Next ==
  \/ \E c \in Core : program.instrs[c] # <<>> /\ Exit(c, Head(program.instrs[c]))
  \/ program.keys # <<>> /\ KeyPress(Head(program.keys))
  \/ \E c \in Core : Handle(c)

\* A core in the hypervisor goes on.
Spec == Init /\ [][Next]_vars /\ \A c \in Core : WF_vars(Handle(c))

-----------------------------------------------------------------------------
BytesOf(c) == [j \in DOMAIN SelectSeq(console, LAMBDA b : b[1] = c) |->
                 SelectSeq(console, LAMBDA b : b[1] = c)[j][2]]

TypeOK ==
  /\ \A c \in Core : /\ pc[c] \in {"guest", "chunks", "respond", "halted"}
                      /\ Len(responses[c]) <= MaxResponses
                      /\ \A j \in 1 .. 8 : rax[c][j] \in Byte
  /\ Len(memory) = Len(Memory)
  /\ uart.iir \in {1, 2, 4} /\ uart.ctrl_a_count \in 0 .. 2
  /\ lock \in [Devs -> 0 .. NumCores]

\* What the guest of a core sends to the console, byte by byte or with string
\* instructions and whatever the other cores send, comes out in its order and
\* without loss or repetition: all of it by the time the guest runs again, and
\* nothing of an instruction whose dispatch ended the core.
OutputInOrder ==
  \A c \in Core :
    /\ IsPrefix(BytesOf(c), wrote[c])
    /\ pc[c] = "guest" => BytesOf(c) = wrote[c]

\* A key reaches a guest at most once, and keys that reach one do so in the
\* order they were pressed: one that is not read before the next is lost.
KeysOnce ==
  LET place == [j \in DOMAIN got |-> {k \in DOMAIN typed : typed[k] = got[j]}]
  IN  \E at \in [DOMAIN got -> DOMAIN typed] :
        /\ \A j \in DOMAIN got : at[j] \in place[j]
        /\ \A j, k \in DOMAIN got : j < k => at[j] < at[k]

\* The console is passed on after every third Ctrl-a, counted over other keys
\* as well.
EveryThirdCtrlA ==
  LET pressed == Len(SelectSeq(typed, LAMBDA k : k = CtrlA))
      under_way == {c \in Core : pc[c] \in {"chunks", "respond"}
                                 /\ instr[c].op = "key"}
  IN  /\ switches <= pressed \div 3
      /\ under_way = {} => switches = pressed \div 3

\* A core that ended keeps the lock of a device, so that every other core of
\* the machine spins on it for ever, only when one string instruction made
\* more responses than ResponseEventArray holds, two for each byte at most.
NoStuckLock ==
  \A d \in Devs :
    lock[d] # 0 =>
      LET i == instr[lock[d]]
      IN  i.op = "outs" /\ 2 * i.rcx > MaxResponses

\* IN gives the guest the device's value in the low bytes of rax, whatever
\* rax was before.
InLoadsValue ==
  \A c \in Core :
    pc[c] = "respond" /\ instr[c].op = "in" =>
      SubSeq(rax[c], 9 - instr[c].size, 8) = bytes[c]

WaitsForHalted(c) ==
  /\ pc[c] = "chunks"
  /\ \E d \in Devs :
       d = DeviceOf(instr[c].port) /\ lock[d] # 0 /\ pc[lock[d]] = "halted"

\* Every exit comes to an end: the guest runs again or the core has halted,
\* unless the core waits for the lock of its device, whose holder has halted.
ExitEnds ==
  \A c \in Core :
    pc[c] = "chunks" ~> \/ pc[c] \in {"guest", "halted"}
                       \/ WaitsForHalted(c)

=============================================================================
