----------------------------- MODULE DeviceMap ------------------------------
(***************************************************************************)
(* How the devices of a machine get their regions and their accesses:      *)
(* VirtualMachineSet::insert registers every device, and from then on each *)
(* exit of a guest dispatches an event to the device found for the port or *)
(* the address.                                                            *)
(***************************************************************************)
EXTENDS Regions

CONSTANTS
  Setups,   \* the devices of a machine: sequences of services
  Accesses  \* the events: records of a kind, an address and whether it is
            \* a read or a write of a guest, or a key of the host's UART

VARIABLES
  devices,  \* the services of the machine's devices
  map,      \* DeviceMap
  next,     \* the next device to register
  stage,    \* "insert", then "running" or "panic"
  outcome   \* what the last event came to

vars == <<devices, map, next, stage, outcome>>

InitWith(setup) ==
  /\ devices = setup
  /\ map = EmptyMap
  /\ next = 1
  /\ stage = "insert"
  /\ outcome = <<>>

Init == \E setup \in Setups : InitWith(setup)

\* One round of the loops of VirtualMachineSet::insert.  The caller expects
\* the result: an error ends the boot.
Insert ==
  /\ stage = "insert"
  /\ next <= Len(devices)
  /\ LET res == register_device(map, next, devices[next])
     IN  /\ map' = res.map
         /\ stage' = IF ~res.ok THEN "panic"
                     ELSE IF next = Len(devices) THEN "running" ELSE "insert"
  /\ next' = next + 1
  /\ UNCHANGED <<devices, outcome>>

\* A port of no device reads as zeros and ignores writes; any other event
\* needs a device.
dispatch_event(access) ==
  LET found == find_device(map, access.kind, access.addr)
  IN  IF found # <<>> THEN [to |-> found[1], res |-> "on_event"]
      ELSE IF access.kind = "port" /\ access.op = "read"
           THEN [to |-> 0, res |-> "zeros"]
      ELSE IF access.kind = "port" /\ access.op = "write"
           THEN [to |-> 0, res |-> "ignored"]
      ELSE [to |-> 0, res |-> "MissingDevice"]

\* An exit of the guest; an error ends the core.
Dispatch(access) ==
  /\ stage = "running"
  /\ outcome' = << access, dispatch_event(access) >>
  /\ stage' = IF outcome'[2].res = "MissingDevice" THEN "panic" ELSE stage
  /\ UNCHANGED <<devices, map, next>>

Next == Insert \/ \E access \in Accesses : Dispatch(access)

Spec == Init /\ [][Next]_vars

-----------------------------------------------------------------------------
Kinds == {"port", "mem"}
Covers(region, kind, addr) ==
  region.kind = kind /\ addr \in region.first .. region.last
Overlap(r, s) ==
  r.kind = s.kind /\ r.first <= s.last /\ s.first <= r.last

\* Every region that the devices of the machine ask for, with its device.
Wanted == UNION { {d} \X DOMAIN devices[d] : d \in DOMAIN devices }
Region(w) == devices[w[1]][w[2]]

TypeOK ==
  /\ \A k \in Kinds : \A i \in 1 .. Len(map[k]) :
       map[k][i].dev \in 1 .. Len(devices)
  /\ next \in 1 .. Len(devices) + 1
  /\ stage \in {"insert", "running", "panic"}

\* Although overlapping ranges compare as equal, which is no order, the keys
\* in each BTreeMap are always disjoint and sorted: register_device never lets
\* in a range on which later searches would go astray.
KeysSorted ==
  \A k \in Kinds : \A i, j \in 1 .. Len(map[k]) :
    i < j => map[k][i].last < map[k][j].first

\* Once insert is done, an event reaches a device exactly when the device
\* asked for the port or the address in services(), and no other device did.
FindsTheAsker ==
  stage = "running" =>
    \A access \in Accesses :
      LET askers == {w[1] : w \in {v \in Wanted :
                                     Covers(Region(v), access.kind, access.addr)}}
          found == find_device(map, access.kind, access.addr)
      IN  IF found = <<>> THEN askers = {} ELSE askers = {found[1]}

\* insert gives up exactly when two regions overlap, of one device or of two,
\* whatever the order in which they come (as the tests of virtdev/mod.rs show
\* for some pairs).
GivesUpOnOverlap ==
  /\ stage = "panic" /\ outcome = <<>> =>
       \E v, w \in Wanted : v # w /\ Overlap(Region(v), Region(w))
  /\ stage = "running" =>
       \A v, w \in Wanted : v # w => ~Overlap(Region(v), Region(w))

\* The devices that build_vm and StaticVirtualDevices give every machine have
\* disjoint regions, so that insert registers all of them.
PlatformFits ==
  devices = Platform =>
    /\ stage = "panic" => outcome # <<>>
    /\ \A p \in {\h3D4, \h3F8, \h402, \h518} :
         stage = "running" => find_device(map, "port", p) # <<>>

\* Accesses to ports never end a core in dispatch_event: only an address, or
\* a key of the host's UART, that no device asked for does.
PortsAreHarmless ==
  stage = "panic" /\ outcome # <<>> =>
    outcome[1].kind = "mem" \/ outcome[1].op = "key"

=============================================================================
