-------------------------------- MODULE FwCfg --------------------------------
(***************************************************************************)
(* The QEMU firmware configuration device (virtdev/qemu_fw_cfg.rs): the    *)
(* builder that gives files their selectors and writes the directory, and  *)
(* the device with its selector, its data port and its DMA interface, used *)
(* by the cores of one machine.                                            *)
(*                                                                         *)
(* on_event runs under the device's lock, so that an access is one step;   *)
(* one that panics keeps the lock.  In guest memory a DMA request is a     *)
(* record at its address, apart from the bytes that transfers write.       *)
(***************************************************************************)
EXTENDS PortRequests, Bitwise, SequencesExt

CONSTANTS
  Core,       \* the cores of the machine, positive numbers
  FILE_FIRST, FILE_LAST, FW_CFG_MAX_FILE_NAME,
  Builds,     \* the calls of the builder, as sequences
  Programs,   \* what the cores do, by core
  MemorySize  \* the bytes of guest memory

FwCfgAssumption ==
  /\ Core \subseteq Nat \ {0}
  /\ FILE_FIRST > 25 /\ FILE_LAST >= FILE_FIRST /\ FW_CFG_MAX_FILE_NAME \in Nat

SIGNATURE == 0
ID == 1
FILE_DIR == 25

VARIABLES
  files,     \* file_info of the builder
  data,      \* the contents by selector
  dev,       \* the selector, the index into its data, and dma_addr
  lock,      \* a core that panicked in on_event; 0: none
  halted,    \* the cores that have ended
  program,   \* what is left of the programs
  slots,     \* the DMA requests in guest memory
  memory,    \* the bytes of guest memory
  asked,     \* where the reads since the last selection should have come to
  failed     \* the builder returned an error

vars == <<files, data, dev, lock, halted, program, slots, memory, asked, failed>>

-----------------------------------------------------------------------------
(* The builder.                                                            *)

Put(d, sel, bytes) == [s \in DOMAIN d \cup {sel} |-> IF s = sel THEN bytes ELSE d[s]]
Signature == <<\h51, \h45, \h4D, \h55>>
NewBuilder == [files |-> <<>>, ok |-> TRUE,
               data |-> Put(Put(<<>>, SIGNATURE, Signature), ID, <<3, 0, 0, 0>>)]

next_file_selector(b) ==
  LET used == {s \in DOMAIN b.data : s >= FILE_FIRST /\ s <= FILE_LAST}
  IN  IF used = {} THEN FILE_FIRST
      ELSE 1 + CHOOSE s \in used : \A t \in used : t <= s

add_file(b, name, bytes) ==
  LET sel == next_file_selector(b)
  IN  IF Len(name) > FW_CFG_MAX_FILE_NAME \/ sel > FILE_LAST
      THEN [b EXCEPT !.ok = FALSE]
      ELSE [b EXCEPT !.files = Append(@, [size |-> Len(bytes), select |-> sel,
                                          name |-> name]),
                     !.data = Put(@, sel, bytes)]

add_bytes(b, sel, bytes) == [b EXCEPT !.data = Put(@, sel, bytes)]

\* build: the directory is the number of files and an entry for each, here one
\* element of the sequence per field.
Directory(fs) ==
  <<Len(fs)>> \o FlattenSeq([i \in 1 .. Len(fs) |-> <<fs[i].size, fs[i].select>>])
build(b) == add_bytes(b, FILE_DIR, Directory(b.files))

\* The calls, up to the first that fails.
Call(b, call) ==
  IF ~b.ok THEN b
  ELSE IF call.fn = "add_file" THEN add_file(b, call.name, call.bytes)
  ELSE add_bytes(b, call.selector, call.bytes)
Built(calls) == build(FoldLeft(Call, NewBuilder, calls))

InitWith(calls, p) ==
  /\ LET b == Built(calls)
     IN  files = b.files /\ data = b.data /\ failed = ~b.ok
  /\ dev = [selector |-> SIGNATURE, data_idx |-> 0, high |-> 0, low |-> 0]
  /\ lock = 0
  /\ halted = {}
  /\ program = p
  /\ slots = <<>>
  /\ memory = Zeros(MemorySize)
  /\ asked = 0

Init == \E calls \in Builds, p \in Programs : InitWith(calls, p)

-----------------------------------------------------------------------------
(* The device.                                                             *)

FW_CFG_PORT_SEL == \h510
FW_CFG_PORT_DATA == \h511
FW_CFG_PORT_DMA_HIGH == \h514
FW_CFG_PORT_DMA_LOW == \h518

Select(d, sel) == [d EXCEPT !.selector = sel, !.data_idx = 0]
Selected(d) == d.selector \in DOMAIN data
PastEnd(d, len) == Selected(d) /\ d.data_idx + len > Len(data[d.selector])

\* read_selector; it panics past the end, and is None without data.
read_selector(d, len) ==
  IF ~Selected(d) THEN <<>> ELSE SubSeq(data[d.selector], d.data_idx + 1, d.data_idx + len)
Consumed(d, len) == IF Selected(d) THEN [d EXCEPT !.data_idx = @ + len] ELSE d

\* What an access makes of the device, of memory and of its core.
Result(d, buff, end) ==
  [dev |-> d, buff |-> buff, memory |-> memory, slots |-> slots, end |-> end]

on_port_read(port, len) ==
  CASE port = FW_CFG_PORT_SEL -> Result(dev, copy_from_u32(U32(dev.selector), len), "ok")
    [] port = FW_CFG_PORT_DATA ->
         IF PastEnd(dev, len) THEN Result(dev, <<>>, "panic")
         ELSE Result(Consumed(dev, len),
                     IF Selected(dev) THEN read_selector(dev, len) ELSE Zeros(len), "ok")
    [] port = FW_CFG_PORT_DMA_LOW ->
         Result(dev, copy_from_u32(<<\h20, \h43, \h46, \h47>>, len), "ok")
    [] port = FW_CFG_PORT_DMA_HIGH ->
         Result(dev, copy_from_u32(<<\h51, \h45, \h4D, \h55>>, len), "ok")
    [] OTHER -> Result(dev, <<>>, "panic")

\* Mutant: SELECT takes effect after READ.
Positioned_Late(d, req) ==
  IF "SKIP" \in req.control THEN [d EXCEPT !.data_idx = req.length] ELSE d

\* SELECT starts at the beginning, and SKIP goes to the length, wherever the index
\* was before.
Positioned(d, req) ==
  LET s == IF "SELECT" \in req.control THEN Select(d, req.select) ELSE d
  IN  IF "SKIP" \in req.control THEN [s EXCEPT !.data_idx = req.length] ELSE s

Mapped(addr, len) == addr + len <= MemorySize
Store(addr, bytes) ==
  [j \in 1 .. MemorySize |->
     IF j - addr \in 1 .. Len(bytes) THEN bytes[j - addr] ELSE memory[j]]

\* Mutant: the flag of a read that was served stays.
Answer_Keep(req, none) ==
  [req EXCEPT !.control =
     IF none \/ "WRITE" \in @ THEN {"ERROR"} ELSE @ \ {"SELECT", "SKIP"}]

\* The control word that the guest finds: nothing, or an error.  The selector
\* in its upper half is gone.
Answer(req, none) ==
  LET served == req.control \ {"SELECT", "SKIP", "READ"}
      left == IF none THEN {"ERROR"} ELSE served
  IN  [req EXCEPT !.control = IF "WRITE" \in left THEN (left \ {"WRITE"}) \cup {"ERROR"}
                                                  ELSE left,
                  !.select = 0]

\* perform_dma_transfer for the request at dma_addr; an address that is not
\* mapped is an error, which leaves what was done before it: the bytes that lie
\* in memory, and dma_addr.
perform_dma_transfer(d) ==
  LET req == slots[d.low]
      p == Positioned(d, req)
      read == "READ" \in req.control
      none == read /\ ~Selected(p)
      bytes == IF read /\ ~none THEN read_selector(p, req.length) ELSE <<>>
      after == IF read THEN Consumed(p, req.length) ELSE p
  IN  IF d.high # 0 \/ d.low \notin DOMAIN slots THEN Result(d, <<>>, "error")
      ELSE IF read /\ PastEnd(p, req.length) THEN Result(p, <<>>, "panic")
      ELSE IF ~Mapped(req.address, Len(bytes))
      THEN [Result(after, <<>>, "error") EXCEPT !.memory = Store(req.address, bytes)]
      ELSE [dev |-> [after EXCEPT !.high = 0, !.low = 0], buff |-> bytes,
            memory |-> Store(req.address, bytes),
            slots |-> [slots EXCEPT ![d.low] = Answer(req, none)], end |-> "ok"]

\* u32::from_be of the request's value: its bytes the other way round.
FromBe(req) == req[1] + 256 * req[2]

\* The low half is or-ed to what a failed transfer left there, if anything.
OrAddress(left, low) == IF left = 0 THEN low ELSE left | low

on_port_write(port, req) ==
  CASE port = FW_CFG_PORT_SEL ->
         IF ConvertsTo(req, 2) THEN Result(Select(dev, AsU16(req)), <<>>, "ok")
         ELSE Result(dev, <<>>, "error")
    [] port = FW_CFG_PORT_DATA -> Result(dev, <<>>, "error")
    [] port = FW_CFG_PORT_DMA_LOW ->
         IF ~ConvertsTo(req, 4) THEN Result(dev, <<>>, "error")
         ELSE perform_dma_transfer([dev EXCEPT !.low = OrAddress(@, FromBe(req))])
    [] port = FW_CFG_PORT_DMA_HIGH ->
         IF ~ConvertsTo(req, 4) THEN Result(dev, <<>>, "error")
         ELSE Result([dev EXCEPT !.high = FromBe(req), !.low = 0], <<>>, "ok")
    [] OTHER -> Result(dev, <<>>, "panic")

-----------------------------------------------------------------------------
(* The guests.                                                             *)

Ready(c) == ~failed /\ program[c] # <<>> /\ c \notin halted
Step(c) == Head(program[c])
Advance(c) == program' = [program EXCEPT ![c] = Tail(@)]

\* The place in the selector's data after the access, as a guest counts it: SKIP
\* goes on from where the guest is.
Transfers(s) == s.kind = "write" /\ s.port = FW_CFG_PORT_DMA_LOW /\ Len(s.req) = 4
Request(s) == slots[FromBe(s.req)]
From(req) == (IF "SELECT" \in req.control THEN 0 ELSE asked)
             + (IF "SKIP" \in req.control THEN req.length ELSE 0)
Asked(s) ==
  IF s.kind = "read" /\ s.port = FW_CFG_PORT_DATA THEN asked + s.size
  ELSE IF s.kind = "write" /\ s.port = FW_CFG_PORT_SEL THEN 0
  ELSE IF Transfers(s) /\ FromBe(s.req) \in DOMAIN slots
  THEN From(Request(s)) + (IF "READ" \in Request(s).control THEN Request(s).length ELSE 0)
  ELSE asked

\* A request is written to memory.
Prepare(c) ==
  /\ Ready(c) /\ Step(c).kind = "prepare"
  /\ Advance(c)
  /\ slots' = [a \in DOMAIN slots \cup {Step(c).addr} |->
                 IF a = Step(c).addr THEN Step(c).req ELSE slots[a]]
  /\ UNCHANGED <<files, data, dev, lock, halted, memory, asked, failed>>

\* The guest waits until the transfer is over.
Poll(c) ==
  /\ Ready(c) /\ Step(c).kind = "poll"
  /\ slots[Step(c).addr].control \subseteq {"ERROR"}
  /\ Advance(c)
  /\ UNCHANGED <<files, data, dev, lock, halted, slots, memory, asked, failed>>

\* Every error of an access ends its core, in handle_vmexit if not before.
EndsCore(end) == end # "ok"

\* dispatch_event: whoever comes first gets the lock, and a panic keeps it.
Access(c) ==
  LET s == Step(c)
      res == IF s.kind = "read" THEN on_port_read(s.port, s.size)
                                ELSE on_port_write(s.port, s.req)
  IN  /\ Ready(c) /\ s.kind \in {"read", "write"}
      /\ lock = 0
      /\ Advance(c)
      /\ dev' = res.dev
      /\ memory' = res.memory
      /\ slots' = res.slots
      /\ halted' = IF EndsCore(res.end) THEN halted \cup {c} ELSE halted
      /\ lock' = IF res.end = "panic" THEN c ELSE 0
      /\ asked' = Asked(s)
      /\ UNCHANGED <<files, data, failed>>

Next == \E c \in Core : Prepare(c) \/ Access(c) \/ Poll(c)

Spec == Init /\ [][Next]_vars /\ \A c \in Core : WF_vars(Prepare(c) \/ Access(c) \/ Poll(c))

-----------------------------------------------------------------------------
TypeOK ==
  /\ dev.selector \in 0 .. 65535 /\ dev.data_idx \in Nat
  /\ Len(memory) = MemorySize
  /\ lock \in {0} \cup Core /\ (lock # 0 => lock \in halted)
  /\ \A f \in DOMAIN data : f \in 0 .. 65535

\* Every file of the directory has a selector of its own in the range for
\* files, under which the guest finds as many bytes as the directory says.
DirectoryMatches ==
  ~failed =>
    /\ data[FILE_DIR] = Directory(files)
    /\ \A i \in DOMAIN files :
         /\ files[i].select \in FILE_FIRST .. FILE_LAST
         /\ files[i].size = Len(data[files[i].select])
         /\ \A j \in DOMAIN files : i # j => files[i].select # files[j].select

\* A transfer that selects and reads leaves in memory the bytes of the selector
\* it names, from the beginning or from where it skips to, whatever other cores
\* have selected or read since the request was prepared.
DmaIsAtomic ==
  [][\A c \in Core :
       program'[c] # program[c] /\ Transfers(Step(c)) /\ c \notin halted' =>
         LET req == Request(Step(c))
         IN  {"SELECT", "READ"} \subseteq req.control /\ req.select \in DOMAIN data =>
               SubSeq(memory', req.address + 1, req.address + req.length)
                 = SubSeq(data[req.select], From(req) + 1, From(req) + req.length)]_vars

\* A transfer sets the error flag of the request exactly for a read of a selector
\* that does not exist and for a write.
AnswersRequest ==
  [][\A c \in Core :
       program'[c] # program[c] /\ Transfers(Step(c)) /\ c \notin halted' =>
         LET before == Request(Step(c)).control
             after == slots'[FromBe(Step(c).req)].control
         IN  "ERROR" \in after <=>
               (\/ before \cap {"WRITE", "ERROR"} # {}
                \/ ("READ" \in before /\ dev'.selector \notin DOMAIN data))]_vars

\* The device is lost to the other cores only by an access within the bytes of
\* the DMA port, or when more has been asked of the selector than it holds: the
\* index is never ahead of what the guest has read and skipped.
LostOnlyPastEnd ==
  [][lock' # lock =>
       \/ Step(lock').port \in FW_CFG_PORT_DMA_HIGH + 1 .. FW_CFG_PORT_DMA_LOW - 1
       \/ asked' > Len(data[dev'.selector])]_vars

\* Every core gets through its accesses and finds each transfer ended, unless an
\* access ends it or the device is lost.
CoresFinish ==
  <>(\A c \in Core : program[c] = <<>> \/ c \in halted \/ lock # 0 \/ failed)

=============================================================================
