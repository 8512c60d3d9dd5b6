----------------------------- MODULE MCDevices ------------------------------
(* Guests that drive one device each, and machines of every size.          *)
EXTENDS Devices

Reads(ports, lens) ==
  { [op |-> "read", port |-> p, len |-> n] : p \in ports, n \in lens }
Writes(ports, reqs) ==
  { [op |-> "write", port |-> p, req |-> r] : p \in ports, r \in reqs }

MCRtc ==
  Reads({RTC_ADDRESS, RTC_DATA}, {1, 4})
    \cup Writes({RTC_ADDRESS},
                { <<r>> : r \in {2, 12, 13, 15, 141, 17, \h60} } \cup {<<0, 2>>})
    \cup Writes({RTC_DATA}, { <<0>>, <<1>>, <<255>> })
MCVga ==
  Reads({VGA_INDEX, VGA_DATA}, {1, 2})
    \cup Writes({VGA_INDEX}, { <<0>>, <<15>>, <<16>>, <<1, 15>>, <<1, 16>>, Zeros(4) })
    \cup Writes({VGA_DATA}, { <<0>>, <<255>>, <<0, 0>> })
MCPci ==
  Reads({PCI_CONFIG_ADDRESS, PCI_CONFIG_DATA, PCI_CONFIG_DATA + 3}, {1, 4})
    \cup Reads({PCI_CONFIG_TYPE}, {1})
    \cup Writes({PCI_CONFIG_ADDRESS},
                { <<128, b, d, r>> : b \in {0, 1}, d \in {0, 8, 16},
                                     r \in {0, 1, 4, 8, 64} } \cup {<<0>>})
    \cup Writes({PCI_CONFIG_DATA}, {<<1>>})
MCPic ==
  Reads({\h20, PIC_MASTER_DATA, PIC_SLAVE_DATA}, {1})
    \cup Writes({\h20, PIC_MASTER_DATA, PIC_SLAVE_DATA}, { <<0>>, <<251>>, <<1, 1>> })
MCTimer ==
  Reads({PMTIMER}, {2, 4}) \cup Reads({\h60, \h402}, {1}) \cup Writes({PMTIMER}, {<<1>>})

MCGuests ==
  { [mem |-> 64, accesses |-> a, until |-> 0] : a \in {MCRtc, MCVga, MCPci, MCPic} }
    \cup { [mem |-> 64, accesses |-> MCTimer, until |-> 24] }
    \cup { [mem |-> m, accesses |-> {}, until |-> 0] : m \in 0 .. 4200 }

=============================================================================
