------------------------------ MODULE MCPortIo ------------------------------
(* Two cores that write to and read from the UART, and keys.               *)
EXTENDS PortIo

Old == <<1, 255, 0, 128, 7, 66, 5, 65>>
I(op, port, size, rcx, addr) ==
  [op |-> op, port |-> port, size |-> size, rcx |-> rcx, addr |-> addr, rax |-> Old]

OutData == I("out", UartBase, 1, 0, 0)
OutIer == [I("out", UartBase + IER, 1, 0, 0) EXCEPT !.rax[8] = 2]
OutWord == I("out", \h402, 2, 0, 0)
In(port, size) == I("in", port, size, 0, 0)
Outs(port, n, addr) == I("outs", port, 1, n, addr)
Ins(port, size, n, addr) == I("ins", port, size, n, addr)

\* What the first core does, against what the second does and is typed.
Firsts ==
  << << OutData, Outs(UartBase, 2, 0) >>,
     << OutIer, Outs(UartBase, 3, 0) >>,
     << In(UartBase, 4), In(UartBase, 1) >>,
     << In(UartBase + LSR, 2), Outs(\h402, 3, 1) >>,
     << Ins(UartBase, 1, 2, 1), Outs(\h402, 3, 0) >>,
     << In(UartBase + IIR, 1), Ins(\h80, 1, 2, 2) >> >>
Seconds ==
  << << In(UartBase, 1), OutWord >>,
     << Outs(\h402, 2, 1), OutData >>,
     << Ins(UartBase, 2, 3, 0), Outs(UartBase, 3, 0) >>,
     << In(\h402, 1), OutIer, OutData >>,
     << Outs(UartBase, 1, 1), In(\h80, 2) >> >>
Pairs == { << Firsts[i], Seconds[((i + k) % 5) + 1] >> : i \in 1 .. 6, k \in {0, 2} }
MCPrograms ==
  { [instrs |-> p, keys |-> <<9>>] : p \in Pairs }
  \cup { [instrs |-> << Firsts[i], << In(UartBase, 1) >> >>, keys |-> <<9, 7>>] :
           i \in 1 .. 6 }
  \cup { [instrs |-> << <<In(UartBase, 1)>>, <<In(UartBase, 1)>> >>,
           keys |-> <<1, 9, 1, 1>>] }

=============================================================================
