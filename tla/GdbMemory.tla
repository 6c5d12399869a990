----------------------------- MODULE GdbMemory ------------------------------
(***************************************************************************)
(* gdb_write_memory (gdb_protocol.c): memory is copied byte by byte into   *)
(* gdb->packet, characters the protocol reserves being escaped, and sent   *)
(* one packet at a time.                                                   *)
(*                                                                         *)
(* A packet is "$", then the command and the address in Preamble           *)
(* characters, the data, and the trailer gdb_send_buffer adds: "#", two    *)
(* digits and the end of the string.  Only the data are modelled one by    *)
(* one: cell q of the data is character 1 + Preamble + q of gdb->packet.   *)
(***************************************************************************)
EXTENDS Integers, Sequences, FiniteSets, SequencesExt

CONSTANTS Memories,        \* what may have to be written: sequences of Characters
          MAX_PACKET_SIZE

\* "$", "#" and 0x7d are special.
Characters == {"plain", "special"}

ASSUME MemoriesAssumption == \A m \in Memories : m \in Seq(Characters)
ASSUME PacketAssumption == MAX_PACKET_SIZE \in Nat \ {0}

VARIABLES memory,        \* the bytes at src_buffer when the function is called
          sent,          \* how many of them were in the packets sent so far
          bytes_copied,
          data,          \* the data of gdb->packet, buffer_size characters
          received,      \* what the simulator was told to write, in order
          pc             \* "copy", "done", or "undefined" after a write out of bounds

vars == <<memory, sent, bytes_copied, data, received, pc>>

MAX_BUFFER_SIZE == MAX_PACKET_SIZE - 6
Preamble == 19
Trailer  == 4

buffer_size == Len(data)
size == Len(memory) - sent

Init ==
  /\ memory \in Memories
  /\ sent = 0 /\ bytes_copied = 0
  /\ data = <<>> /\ received = <<>>
  /\ pc = "copy"
-----------------------------------------------------------------------------
\* The byte at *src_buffer, by its place in memory.
Place == sent + bytes_copied + 1

\* Mutant of Encoded: the byte is not changed after the escape.
Encoded_AsIs(p) ==
  IF memory[p] = "special" THEN <<<<"escape", 0>>, <<"special", p>>>> ELSE <<<<"plain", p>>>>

\* 0x7d, then the byte with its bit 0x20 changed, which no longer is special.
Encoded(p) ==
  IF memory[p] = "special" THEN <<<<"escape", 0>>, <<"swapped", p>>>> ELSE <<<<"plain", p>>>>

MoreToCopy == pc = "copy" /\ buffer_size < MAX_BUFFER_SIZE - 1 /\ bytes_copied < size

\* Mutant of Fits: the data are copied from one character further.
Fits_Late(d, after) == 2 + Preamble + Len(d) + after <= MAX_PACKET_SIZE

\* The data d and what follows them lie in gdb->packet.
Fits(d, after) == 1 + Preamble + Len(d) + after <= MAX_PACKET_SIZE

\* The body of the inner loop.
Copy ==
  /\ MoreToCopy
  /\ Fits(data \o Encoded(Place), 0)
  /\ data' = data \o Encoded(Place)
  /\ bytes_copied' = bytes_copied + 1
  /\ UNCHANGED <<memory, sent, received, pc>>

\* It writes after the packet: over len, buffer and the other fields.
CopyOverrun ==
  /\ MoreToCopy
  /\ ~Fits(data \o Encoded(Place), 0)
  /\ pc' = "undefined"
  /\ UNCHANGED <<memory, sent, bytes_copied, data, received>>

Full == pc = "copy" /\ ~MoreToCopy /\ size > 0

\* The end of the outer loop: gdb_send_buffer, and gdb_get_answer, whose
\* result is not looked at.
Send ==
  /\ Full
  /\ Fits(data, Trailer)
  /\ received' = Append(received, [address |-> sent, length |-> bytes_copied, data |-> data])
  /\ sent' = sent + bytes_copied
  /\ bytes_copied' = 0 /\ data' = <<>>
  /\ UNCHANGED <<memory, pc>>

\* The data fit and what gdb_send_buffer adds does not.
SendOverrun ==
  /\ Full
  /\ ~Fits(data, Trailer)
  /\ pc' = "undefined"
  /\ UNCHANGED <<memory, sent, bytes_copied, data, received>>

Return ==
  /\ pc = "copy" /\ size = 0
  /\ pc' = "done"
  /\ UNCHANGED <<memory, sent, bytes_copied, data, received>>

Next == Copy \/ CopyOverrun \/ Send \/ SendOverrun \/ Return

Spec == Init /\ [][Next]_vars
-----------------------------------------------------------------------------
(***************************************************************************)
(* Properties.                                                             *)
(***************************************************************************)
Cells == {"plain", "escape", "swapped"} \X Nat

TypeOK ==
  /\ memory \in Memories
  /\ sent \in 0 .. Len(memory)
  /\ bytes_copied \in 0 .. Len(memory) - sent
  /\ data \in Seq(Cells)
  /\ received \in Seq([address : Nat, length : Nat, data : Seq(Cells)])
  /\ pc \in {"copy", "done", "undefined"}

AfterEscape(d, q) == q > 1 /\ d[q - 1][1] = "escape"

\* What character q of the data d says: an escape says nothing, the character
\* after it is changed back, any other is taken as it is.
Says(d, q) ==
  CASE d[q][1] = "escape" -> <<>>
    [] d[q][1] = "swapped" /\ AfterEscape(d, q) -> <<"special">>
    [] d[q][1] = "plain" /\ ~AfterEscape(d, q) -> <<"plain">>
    [] OTHER -> <<"wrong">>

\* What the simulator makes of data.
Decoded(d) == FlattenSeq([q \in 1 .. Len(d) |-> Says(d, q)])

\* The characters memory takes in a packet.
Specials == {p \in DOMAIN memory : memory[p] = "special"}

EncodedSize == Len(memory) + Cardinality(Specials)

\* With what surrounds it.
FitsInPacket == 1 + Preamble + EncodedSize + Trailer <= MAX_PACKET_SIZE

\* What the simulator is told to write is the memory, byte for byte once the
\* escapes are undone, with its length and at its address, and a call that
\* returns has told all of it (gdb_protocol.c:149-180).  It is told in one packet:
\* the chunks of the loop are larger than what a packet has room for, so that a
\* call with more than one packet's memory sends nothing and does not return.
Delivered ==
  /\ received # <<>> =>
       /\ Len(received) = 1 /\ FitsInPacket
       /\ received[1].address = 0 /\ received[1].length = Len(memory)
       /\ Decoded(received[1].data) = memory
  /\ pc = "done" => received # <<>> \/ memory = <<>>

\* A memory that takes no more characters than the packet has room for, its
\* preamble and its trailer deducted, is written without leaving the packet,
\* whatever of it is escaped.
SmallWritesStayInPacket == FitsInPacket => pc # "undefined"

\* MAX_BUFFER_SIZE is the room that gdb->packet has for what a command says
\* (gdb_protocol.c:32-37): the writes stay in the packet.
WritesStayInPacket == pc # "undefined"
=============================================================================
