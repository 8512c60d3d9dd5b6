---------------------------- MODULE PortRequests ----------------------------
(***************************************************************************)
(* The values that pass between an I/O instruction and a device            *)
(* (virtdev/mod.rs).  A request is a sequence of one, two or four bytes in *)
(* the order of the buffer, and a u32 the sequence of its four bytes, the  *)
(* most significant first, as to_be_bytes gives them.                      *)
(***************************************************************************)
EXTENDS Integers, Sequences

Byte == 0 .. 255
Sizes == {1, 2, 4}
Zeros(len) == [i \in 1 .. len |-> 0]

\* The bytes of a number below 2^24.
U32(n) == <<0, (n \div 65536) % 256, (n \div 256) % 256, n % 256>>

\* PortReadRequest::copy_from_u32: the low bytes of val, for a buffer of len.
copy_from_u32(val, len) == SubSeq(val, 5 - len, 4)

\* TryFrom<&[u8]>: a buffer of another length is an error.
IsRequest(buff) == Len(buff) \in Sizes

\* TryFrom<PortWriteRequest> for u8, u16 and u32: only the exact size converts.
ConvertsTo(req, size) == Len(req) = size
AsByte(req) == req[1]
AsU16(req) == req[1] * 256 + req[2]

\* What a device makes of an event: its new state, the bytes it left in the
\* buffer of a read, and whether on_event returned Ok.
Done(dev, buff) == [dev |-> dev, buff |-> buff, ok |-> TRUE]
Err(dev) == [dev |-> dev, buff |-> <<>>, ok |-> FALSE]

=============================================================================
