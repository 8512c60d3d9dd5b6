---------------------------- MODULE MCDeviceMap -----------------------------
(* Small machines for the device map, and the real one.                    *)
EXTENDS DeviceMap

MCPorts == { PortIo(a, b) : a \in 0 .. 3, b \in 0 .. 3 }
MCRanges == { r \in MCPorts : r.first <= r.last }
MCMem == { MemIo(0, 1), MemIo(1, 2), MemIo(2, 3) }

\* Three devices of one region, one device of three regions, a device whose
\* second region may conflict with the next device, and the platform.
MCSetups ==
  { << <<r>>, <<s>>, <<t>> >> : r, s, t \in MCRanges }
    \cup { << <<r, s, t>> >> : r, s, t \in MCRanges }
    \cup { << <<r, m>>, <<n, s>> >> : r, s \in MCRanges, m, n \in MCMem }
    \cup { Platform }

MCAccesses ==
  { [kind |-> "port", addr |-> a, op |-> o] :
      a \in 0 .. 5, o \in {"read", "write", "key"} }
    \cup { [kind |-> "mem", addr |-> a, op |-> o] :
             a \in 0 .. 4, o \in {"read", "write"} }

=============================================================================
