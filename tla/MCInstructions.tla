--------------------------- MODULE MCInstructions ---------------------------
(* All pairs of instructions on one core, and cores that start each other. *)
EXTENDS Instructions

None == [kind |-> "none"]
Mem == [kind |-> "mem"]
Rg(r, n) == [kind |-> "reg", reg |-> r, size |-> n]
Imm(bytes) == [kind |-> "imm", val |-> bytes]
Imm32to64 == [kind |-> "imm32to64"]

X(reason, qual, op0, op1, dev) ==
  [op |-> "exit", reason |-> reason, qual |-> qual, len |-> 3,
   executed |-> 3, op0 |-> op0, op1 |-> op1, device |-> dev]
Irq(reason, qual) == [X(reason, qual, None, None, FALSE) EXCEPT !.executed = 0]
Plain(reason) == X(reason, 0, None, None, FALSE)
Cr(qual) == X(28, qual, None, None, FALSE)
Load(offset, op) == X(44, offset, op, Mem, FALSE)
Store(offset, op) == X(44, 4096 + offset, Mem, op, FALSE)
Ept(op0, op1, dev) == X(48, 0, op0, op1, dev)
MovCr0(r) == [op |-> "mov_cr0", reg |-> r, reason |-> 28, qual |-> 0, len |-> 3]
Lc(op, r, val) == [op |-> op, reg |-> r, val |-> val, reason |-> 0]

Ones == <<129, 2, 3, 4, 5, 6, 7, 59>>
Twos == <<2, 3, 4, 5, 6, 7, 8, 27>>
First ==
  {Lc("set", "rax", U) : U \in {Ones, Twos, Wide(<<1>>), Wide(<<11>>)}}
  \cup {Lc("set", "rcx", Wide(<<27>>)), Lc("set", "r9", Ones), Lc("edit", "rax", Ones)}
Then ==
  {Plain(10), Plain(31), Plain(2), Plain(55), Plain(35), Plain(70), MovCr0("rax"),
   Irq(7, 0), Irq(1, 32), Irq(1, 512), Cr(3), Cr(16 + 3), Cr(16 + 3 + 256), Cr(32),
   Cr(48), Cr(16), Cr(4), Cr(8 * 256 + 3), Cr(32 + 3),
   Load(32, Rg("rax", 4)), Load(48, Rg("r9", 4)), Load(32, Rg("rax", 1)),
   Load(36, Rg("rax", 4)), Load(64, Rg("rax", 4)), Load(1024, Rg("rax", 4)),
   Load(32, Rg("rbp", 4)), Load(32, None), Load(40960, Rg("rax", 4)),
   Load(16384, Rg("rax", 4)), Store(208, Rg("r9", 4)), Store(784, Imm(<<1, 0, 0, 0>>)),
   Store(784, Rg("rax", 8)), Store(784, Rg("ah", 1)), Store(784, Imm32to64),
   Ept(Rg("rax", 1), Mem, TRUE), Ept(Rg("r9", 2), Mem, TRUE), Ept(Rg("rax", 8), Mem, TRUE),
   Ept(Mem, Rg("rcx", 2), TRUE), Ept(Mem, Imm32to64, TRUE), Ept(None, None, TRUE),
   Ept(Rg("rsp", 4), Mem, TRUE), Ept(Rg("rax", 4), Mem, FALSE)}

Reads == { << Load(32, Rg("rax", 4)) >>,
           << Lc("set", "rax", Wide(<<11>>)), Plain(10), Lc("shl24", "rdx", Ones) >> }
ReaderReg(p) == IF Len(p) = 1 THEN "rax" ELSE "rdx"
Start(r, vec) == << Lc("fetch", "rbx", Ones), Store(784, Rg("rbx", r)),
                    Store(768, Imm(<<0, 0, 5, 0>>)), Lc("fetch", "rbx", Ones),
                    Store(784, Rg("rbx", r)), Store(768, Imm(<<0, 0, 6, vec>>)),
                    Store(768, Imm(<<0, 0, 6, vec>>)) >>

MCCore == {1, 3}
OnOne(p) == [c \in MCCore |-> IF c = 3 THEN p ELSE <<>>]
MCPrograms ==
  { OnOne(<<a, b, d>>) : a \in First, b \in Then, d \in Then }
  \cup { OnOne(<<Lc("edit", "rax", Ones), a, Cr(3)>>) : a \in First }
  \cup { [c \in MCCore |-> IF c = 3 THEN p \o << Lc("publish", ReaderReg(p), Ones) >>
                                     ELSE q \o << Lc("publish", ReaderReg(q), Ones) >>
                                            \o Start(4, 154)] :
           p \in Reads, q \in Reads }

=============================================================================
