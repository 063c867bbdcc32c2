-------------------------- MODULE PropertyChunking --------------------------
(***************************************************************************)
(* How CIFactory::midiCIPropertyChunks cuts a property message into SysEx  *)
(* packets.  Only lengths matter: h is the length of the header, len that  *)
(* of the body, max the max_property_chunk_size in force for the call.     *)
(* Packets are numbered from 1, as on the wire; the header travels in      *)
(* packet 1 only.  The loop of the code is given in closed form: Offset    *)
(* is the number of body bytes that precede packet k.                      *)
(***************************************************************************)
EXTENDS Integers

\* Bytes of a property packet besides its header and its body.
Overhead == 22

\* available_payload: room for body bytes once `used` bytes are taken.
Capacity(max, used) == IF max <= used THEN 0 ELSE max - used

\* Mutant: the header is forgotten.
FirstCapacityBare(h, max) == Capacity(max, Overhead)

\* Room in packet 1 (header included) and in each of the others.
FirstCapacity(h, max) == Capacity(max, Overhead + h)
RegularCapacity(max) == Capacity(max, Overhead)

\* Body bytes that packet 1 carries.
FirstLen(h, len, max) ==
    IF FirstCapacity(h, max) < len THEN FirstCapacity(h, max) ELSE len

\* FALSE when the code throws "max_property_chunk_size too small".
Sendable(h, len, max) ==
    FirstLen(h, len, max) = len \/ RegularCapacity(max) > 0

\* Mutant: a last packet that is not full is not counted.
NumChunksDown(h, len, max) ==
    LET rest == len - FirstLen(h, len, max) IN
    IF rest = 0 THEN 1 ELSE 1 + rest \div RegularCapacity(max)

\* The value of num_chunks.
NumChunks(h, len, max) ==
    LET rest == len - FirstLen(h, len, max) IN
    IF rest = 0 THEN 1
    ELSE 1 + (rest + RegularCapacity(max) - 1) \div RegularCapacity(max)

\* Body bytes before packet k; Offset(h, len, max, NumChunks + 1) is len.
Offset(h, len, max, k) ==
    LET full == FirstLen(h, len, max) + (k - 2) * RegularCapacity(max) IN
    IF k = 1 THEN 0 ELSE IF full < len THEN full ELSE len

\* The size of packet k on the wire.
PacketSize(h, len, max, k) ==
    Overhead + (IF k = 1 THEN h ELSE 0)
             + Offset(h, len, max, k + 1) - Offset(h, len, max, k)
=============================================================================
