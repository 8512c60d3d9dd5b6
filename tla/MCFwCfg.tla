------------------------------- MODULE MCFwCfg -------------------------------
(***************************************************************************)
(* Two cores that read the configuration through the ports and by DMA.     *)
(***************************************************************************)
EXTENDS FwCfg

File(name, bytes) == [fn |-> "add_file", name |-> name, bytes |-> bytes]
Item(sel, bytes) == [fn |-> "add_bytes", selector |-> sel, bytes |-> bytes]

MCBuilds ==
  { <<File(<<1>>, <<1, 2, 3>>), Item(5, <<9, 9>>), File(<<2>>, <<4, 5>>)>>,
    <<Item(FILE_FIRST, <<7, 8, 9, 10>>), File(<<1>>, <<1, 2, 3>>)>>,
    <<File(<<1>>, <<1>>), File(<<2>>, <<2>>), File(<<3>>, <<3>>), File(<<4>>, <<4>>)>>,
    <<File(<<1, 2, 3>>, <<1>>)>> }

Sel(s) == [kind |-> "write", port |-> FW_CFG_PORT_SEL, req |-> <<s \div 256, s % 256>>]
Data(size) == [kind |-> "read", port |-> FW_CFG_PORT_DATA, size |-> size]
ReadPort(port, size) == [kind |-> "read", port |-> port, size |-> size]
WritePort(port, req) == [kind |-> "write", port |-> port, req |-> req]
Req(control, sel, len, addr) ==
  [control |-> control, select |-> sel, length |-> len, address |-> addr]
Dma(slot, req) ==
  << [kind |-> "prepare", addr |-> slot, req |-> req],
     WritePort(FW_CFG_PORT_DMA_HIGH, Zeros(4)),
     WritePort(FW_CFG_PORT_DMA_LOW, <<slot, 0, 0, 0>>),
     [kind |-> "poll", addr |-> slot] >>

\* A core by itself makes every kind of request, in every size.
Alone ==
  { <<Sel(0), Data(4), ReadPort(FW_CFG_PORT_SEL, 2)>>,
    <<Sel(32), Data(2), Data(2)>>,
    <<Sel(0), Data(2)>> \o Dma(8, Req({"SKIP", "READ"}, 0, 1, 0)),
    <<Sel(99), Data(1), ReadPort(FW_CFG_PORT_DMA_LOW, 4)>>,
    <<ReadPort(FW_CFG_PORT_DMA_HIGH, 4), ReadPort(FW_CFG_PORT_DMA_HIGH + 1, 1)>>,
    <<WritePort(FW_CFG_PORT_DMA_HIGH + 2, <<0>>)>>,
    <<WritePort(FW_CFG_PORT_SEL, <<1>>)>>,
    <<WritePort(FW_CFG_PORT_DATA, <<1>>)>>,
    <<WritePort(FW_CFG_PORT_DMA_LOW, <<1>>)>>,
    <<WritePort(FW_CFG_PORT_DMA_HIGH, <<1>>)>>,
    <<WritePort(FW_CFG_PORT_DMA_HIGH, <<1, 0, 0, 0>>),
      WritePort(FW_CFG_PORT_DMA_LOW, <<8, 0, 0, 0>>)>> }
  \cup { Dma(8, Req(control, sel, 2, addr)) :
           control \in SUBSET {"SELECT", "SKIP", "READ", "WRITE", "ERROR"},
           sel \in {0, 99}, addr \in {0, 3} }

Two ==
  { <<Sel(32), Data(1), Data(1)>>,
    <<Sel(33), Data(2)>> \o Dma(8, Req({"SELECT", "READ"}, 0, 4, 0)),
    Dma(8, Req({"SELECT", "READ"}, 32, 2, 0)) \o Dma(8, Req({"READ"}, 0, 1, 2)),
    Dma(8, Req({"SELECT", "SKIP"}, 0, 1, 0)) \o Dma(8, Req({"READ"}, 0, 2, 0)),
    Dma(8, Req({"SELECT", "SKIP", "READ"}, 0, 2, 0)) }
\* The second core has memory of its own for its request.
Apart(p) ==
  [i \in DOMAIN p |->
     IF p[i].kind \in {"prepare", "poll"} THEN [p[i] EXCEPT !.addr = 16]
     ELSE IF p[i].kind = "write" /\ p[i].port = FW_CFG_PORT_DMA_LOW
     THEN [p[i] EXCEPT !.req = <<16, 0, 0, 0>>] ELSE p[i]]

MCPrograms ==
  { <<p, <<>> >> : p \in Alone } \cup { <<p, Apart(q)>> : p \in Two, q \in Two }
  \cup { <<p, <<Data(1)>> >> : p \in Alone }
=============================================================================
