-------------------------- MODULE GdbMemory_proofs ---------------------------
(***************************************************************************)
(* What gdb_write_memory writes stays in gdb->packet, for every size of    *)
(* the packet, as long as the memory fits in one packet once encoded; what *)
(* it sends is always the whole memory, byte for byte.                     *)
(***************************************************************************)
EXTENDS GdbMemory, FoldLemmas

LEMMA InitTypeOK == Init => TypeOK
<1> SUFFICES ASSUME Init PROVE TypeOK
  OBVIOUS
<1>1. memory \in Memories /\ memory \in Seq(Characters)
  BY MemoriesAssumption DEF Init
<1>2. Len(memory) \in Nat
  BY <1>1
<1> QED
  BY <1>1, <1>2 DEF Init, TypeOK

\* What Encoded puts in the packet is one or two characters.
LEMMA EncodedType ==
  ASSUME NEW p \in Nat
  PROVE  /\ Encoded(p) \in Seq(Cells)
         /\ Len(Encoded(p)) = IF memory[p] = "special" THEN 2 ELSE 1
<1>1. /\ <<"escape", 0>> \in Cells
      /\ <<"swapped", p>> \in Cells
      /\ <<"plain", p>> \in Cells
  BY DEF Cells
<1> QED
  BY <1>1 DEF Encoded

LEMMA NextTypeOK == TypeOK /\ [Next]_vars => TypeOK'
<1> SUFFICES ASSUME TypeOK, [Next]_vars PROVE TypeOK'
  OBVIOUS
<1>1. /\ memory \in Seq(Characters) /\ Len(memory) \in Nat
      /\ sent \in Nat /\ bytes_copied \in Nat /\ Place \in Nat
  BY MemoriesAssumption DEF TypeOK, Place
<1>2. CASE Copy
  <2>1. data' \in Seq(Cells)
    BY <1>1, <1>2, EncodedType DEF Copy, TypeOK
  <2>2. bytes_copied' \in 0 .. Len(memory') - sent'
    BY <1>1, <1>2 DEF Copy, TypeOK, MoreToCopy, size
  <2> QED
    BY <1>2, <2>1, <2>2 DEF Copy, TypeOK
<1>3. CASE Send
  <2>1. sent' \in 0 .. Len(memory') /\ bytes_copied' \in 0 .. Len(memory') - sent'
    BY <1>1, <1>3 DEF Send, TypeOK
  <2>2. received' \in Seq([address : Nat, length : Nat, data : Seq(Cells)])
    BY <1>1, <1>3 DEF Send, TypeOK
  <2> QED
    BY <1>3, <2>1, <2>2 DEF Send, TypeOK
<1>4. CASE CopyOverrun \/ SendOverrun \/ Return
  BY <1>4 DEF CopyOverrun, SendOverrun, Return, TypeOK
<1>5. CASE UNCHANGED vars
  BY <1>5 DEF vars, TypeOK
<1> QED
  BY <1>2, <1>3, <1>4, <1>5 DEF Next

\* The variables keep their types (gdb_protocol.c:144-183).
THEOREM TypeCorrect == Spec => []TypeOK
<1> QED
  BY InitTypeOK, NextTypeOK, PTL DEF Spec
-----------------------------------------------------------------------------
(***************************************************************************)
(* What the memory takes in the packet.  The data hold one character for   *)
(* each byte copied and one for each escape.                               *)
(***************************************************************************)
\* The special bytes of the memory that the data hold.
Escaped == {p \in Specials : sent < p /\ p <= sent + bytes_copied}

DataSize == Len(data) = bytes_copied + Cardinality(Escaped)

IInv == TypeOK /\ DataSize /\ (FitsInPacket => pc # "undefined")

LEMMA SpecialsFinite ==
  ASSUME TypeOK
  PROVE  IsFiniteSet(Specials) /\ Cardinality(Specials) \in Nat
<1>1. Len(memory) \in Nat /\ DOMAIN memory = 1 .. Len(memory)
  BY MemoriesAssumption DEF TypeOK
<1>2. IsFiniteSet(1 .. Len(memory))
  BY <1>1, FS_Interval
<1>3. Specials \in SUBSET (1 .. Len(memory))
  BY <1>1 DEF Specials
<1>4. IsFiniteSet(Specials)
  BY <1>2, <1>3, FS_Subset
<1> QED
  BY <1>4, FS_CardinalityType

\* The escapes of a packet are some of those of the memory.
LEMMA EscapedFinite ==
  ASSUME TypeOK
  PROVE  /\ IsFiniteSet(Escaped) /\ Cardinality(Escaped) \in Nat
         /\ Cardinality(Escaped) <= Cardinality(Specials)
<1>1. Escaped \in SUBSET Specials
  BY DEF Escaped
<1>2. IsFiniteSet(Escaped) /\ Cardinality(Escaped) <= Cardinality(Specials)
  BY <1>1, SpecialsFinite, FS_Subset
<1> QED
  BY <1>2, FS_CardinalityType

\* Any data within DataSize leave room for the trailer.
LEMMA DataFit ==
  ASSUME TypeOK, FitsInPacket, DataSize
  PROVE  Fits(data, Trailer)
<1>1. /\ Len(memory) \in Nat /\ Len(data) \in Nat
      /\ bytes_copied \in Nat /\ bytes_copied <= Len(memory)
  BY MemoriesAssumption DEF TypeOK
<1>2. /\ Cardinality(Escaped) \in Nat /\ Cardinality(Specials) \in Nat
      /\ Cardinality(Escaped) <= Cardinality(Specials)
  BY EscapedFinite, SpecialsFinite
<1>3. Len(data) <= Len(memory) + Cardinality(Specials)
  BY <1>1, <1>2 DEF DataSize
<1> QED
  BY <1>1, <1>2, <1>3, PacketAssumption DEF FitsInPacket, EncodedSize, Fits, Trailer, Preamble

LEMMA LengthOfBoth ==
  ASSUME NEW S, NEW s \in Seq(S), NEW t \in Seq(S)
  PROVE  Len(s \o t) = Len(s) + Len(t) /\ Len(s \o t) \in Nat
OBVIOUS

\* One more byte lengthens the data by what it takes, and they fit if the memory
\* does.
LEMMA CopyKeepsSize ==
  ASSUME IInv, MoreToCopy
  PROVE  /\ Len(data \o Encoded(Place)) =
              bytes_copied + 1 + Cardinality({p \in Specials : sent < p /\ p <= Place})
         /\ FitsInPacket => Fits(data \o Encoded(Place), 0)
<1> DEFINE After == {p \in Specials : sent < p /\ p <= Place}
<1>1. /\ TypeOK /\ DataSize
      /\ Len(memory) \in Nat /\ DOMAIN memory = 1 .. Len(memory)
      /\ sent \in Nat /\ bytes_copied \in Nat /\ bytes_copied < Len(memory) - sent
      /\ data \in Seq(Cells) /\ Len(data) \in Nat
  BY MemoriesAssumption DEF IInv, TypeOK, MoreToCopy, size
<1>2. Place \in DOMAIN memory /\ Place \in Nat /\ Place = sent + bytes_copied + 1
  BY <1>1 DEF Place
<1>3. /\ Encoded(Place) \in Seq(Cells)
      /\ Len(Encoded(Place)) = IF memory[Place] = "special" THEN 2 ELSE 1
  BY <1>2, EncodedType
<1>4. /\ Len(data \o Encoded(Place)) = Len(data) + Len(Encoded(Place))
      /\ Len(data \o Encoded(Place)) \in Nat
  BY <1>1, <1>3, LengthOfBoth
<1>5. /\ IsFiniteSet(Escaped) /\ Cardinality(Escaped) \in Nat
      /\ IsFiniteSet(Specials) /\ Cardinality(Specials) \in Nat
  BY <1>1, EscapedFinite, SpecialsFinite
<1>6. After \in SUBSET Specials /\ Specials \subseteq Nat
  BY <1>1 DEF Specials
<1>7. /\ IsFiniteSet(After) /\ Cardinality(After) \in Nat
      /\ Cardinality(After) <= Cardinality(Specials)
  BY <1>5, <1>6, FS_Subset, FS_CardinalityType
<1>8. Len(data \o Encoded(Place)) = bytes_copied + 1 + Cardinality(After)
  <2>1. CASE memory[Place] = "special"
    <3>1. After = Escaped \cup {Place}
      BY <1>1, <1>2, <1>6, <2>1 DEF Escaped, Specials
    <3>2. Place \notin Escaped
      BY <1>1, <1>2 DEF Escaped
    <3>3. Cardinality(After) = Cardinality(Escaped) + 1
      BY <1>5, <3>1, <3>2, FS_AddElement
    <3>4. Len(data \o Encoded(Place)) = Len(data) + 2
      BY <1>3, <1>4, <2>1
    <3>5. Len(data) = bytes_copied + Cardinality(Escaped)
      BY <1>1 DEF DataSize
    <3> HIDE DEF After
    <3> QED
      BY <1>1, <1>5, <3>3, <3>4, <3>5
  <2>2. CASE memory[Place] # "special"
    <3>1. Place \notin Specials
      BY <2>2 DEF Specials
    <3>2. \A p \in Specials : p <= Place <=> p <= sent + bytes_copied
      BY <1>1, <1>2, <1>6, <3>1
    <3>3. After = Escaped
      BY <3>2 DEF Escaped
    <3>4. Len(data \o Encoded(Place)) = Len(data) + 1
      BY <1>3, <1>4, <2>2
    <3>5. Len(data) = bytes_copied + Cardinality(After)
      BY <1>1, <3>3 DEF DataSize
    <3> HIDE DEF After
    <3> QED
      BY <1>1, <1>7, <3>4, <3>5
  <2> QED
    BY <2>1, <2>2
<1>9. FitsInPacket => Fits(data \o Encoded(Place), 0)
  <2>1. Len(data \o Encoded(Place)) <= Len(memory) + Cardinality(Specials)
    BY <1>1, <1>4, <1>5, <1>7, <1>8
  <2> QED
    BY <1>1, <1>4, <1>5, <2>1, PacketAssumption
       DEF FitsInPacket, EncodedSize, Fits, Trailer, Preamble
<1> QED
  BY <1>8, <1>9

LEMMA InitIInv == Init => IInv
<1> SUFFICES ASSUME Init PROVE IInv
  OBVIOUS
<1>1. TypeOK
  BY InitTypeOK
<1>2. Len(data) = 0 /\ sent = 0 /\ bytes_copied = 0 /\ pc = "copy"
  BY DEF Init
<1>3. Cardinality(Escaped) = 0
  <2>1. \A p \in Specials : p \in Nat
    BY <1>1, MemoriesAssumption DEF TypeOK, Specials
  <2>2. Escaped = {}
    BY <1>2, <2>1 DEF Escaped
  <2> QED
    BY <2>2, FS_EmptySet
<1> QED
  BY <1>1, <1>2, <1>3 DEF IInv, DataSize

LEMMA NextIInv == IInv /\ [Next]_vars => IInv'
<1> SUFFICES ASSUME IInv, [Next]_vars PROVE IInv'
  OBVIOUS
<1>1. TypeOK /\ TypeOK'
  BY NextTypeOK DEF IInv
<1>2. memory' = memory
  BY DEF Next, Copy, CopyOverrun, Send, SendOverrun, Return, vars
<1>3. Specials' = Specials /\ (FitsInPacket' <=> FitsInPacket)
  BY <1>2 DEF Specials, FitsInPacket, EncodedSize
<1>4. SUFFICES DataSize' /\ (FitsInPacket => pc' # "undefined")
  BY <1>1, <1>3 DEF IInv
<1>5. DataSize /\ (FitsInPacket => pc # "undefined")
  BY DEF IInv
<1>6. CASE Copy
  <2>1. sent' = sent /\ bytes_copied' = bytes_copied + 1 /\ data' = data \o Encoded(Place)
    BY <1>6 DEF Copy
  <2>2. sent' + bytes_copied' = Place
    BY <1>1, <2>1, MemoriesAssumption DEF Place, TypeOK
  <2>3. Escaped' = {p \in Specials : sent < p /\ p <= Place}
    BY <1>3, <2>1, <2>2 DEF Escaped
  <2>4. DataSize'
    BY <1>6, <2>1, <2>3, CopyKeepsSize DEF Copy, DataSize
  <2> QED
    BY <1>5, <1>6, <2>4 DEF Copy
<1>7. CASE CopyOverrun
  <2>1. ~FitsInPacket
    BY <1>7, CopyKeepsSize DEF CopyOverrun
  <2>2. UNCHANGED <<sent, bytes_copied, data>>
    BY <1>7 DEF CopyOverrun
  <2>3. Escaped' = Escaped
    BY <1>3, <2>2 DEF Escaped
  <2> QED
    BY <1>5, <2>1, <2>2, <2>3 DEF DataSize
<1>8. CASE Send
  <2>1. Len(data') = 0 /\ bytes_copied' = 0
    BY <1>8 DEF Send
  <2>2. Escaped' = {}
    <3>1. sent' \in Nat /\ \A p \in Specials' : p \in Nat
      BY <1>1, MemoriesAssumption DEF TypeOK, Specials
    <3> QED
      BY <2>1, <3>1 DEF Escaped
  <2>3. DataSize'
    BY <2>1, <2>2, FS_EmptySet DEF DataSize
  <2> QED
    BY <1>5, <1>8, <2>3 DEF Send
<1>9. CASE SendOverrun
  <2>1. ~FitsInPacket
    BY <1>1, <1>5, <1>9, DataFit DEF SendOverrun
  <2>2. UNCHANGED <<sent, bytes_copied, data>>
    BY <1>9 DEF SendOverrun
  <2>3. Escaped' = Escaped
    BY <1>3, <2>2 DEF Escaped
  <2> QED
    BY <1>5, <2>1, <2>2, <2>3 DEF DataSize
<1>10. CASE Return
  <2>1. UNCHANGED <<sent, bytes_copied, data>> /\ pc' = "done"
    BY <1>10 DEF Return
  <2>2. Escaped' = Escaped
    BY <1>3, <2>1 DEF Escaped
  <2> QED
    BY <1>5, <2>1, <2>2 DEF DataSize
<1>11. CASE UNCHANGED vars
  <2>1. UNCHANGED <<sent, bytes_copied, data, pc>>
    BY <1>11 DEF vars
  <2>2. Escaped' = Escaped
    BY <1>3, <2>1 DEF Escaped
  <2> QED
    BY <1>5, <2>1, <2>2 DEF DataSize
<1> QED
  BY <1>6, <1>7, <1>8, <1>9, <1>10, <1>11 DEF Next

\* A memory whose encoding fits in the packet is written without leaving it,
\* whatever the size of the packet and the bytes to escape
\* (gdb_protocol.c:144-183).
THEOREM SmallWritesSafe == Spec => []SmallWritesStayInPacket
<1>1. IInv => SmallWritesStayInPacket
  BY DEF IInv, SmallWritesStayInPacket
<1> QED
  BY <1>1, InitIInv, NextIInv, PTL DEF Spec
-----------------------------------------------------------------------------
(***************************************************************************)
(* What the packets say.                                                   *)
(***************************************************************************)
Bytes == {"plain", "special", "wrong"}

\* No escape waits for its character.
Closed(d) == \A q \in 1 .. Len(d) : q = Len(d) => d[q][1] # "escape"

LEMMA SaysType ==
  ASSUME NEW d, NEW q
  PROVE  Says(d, q) \in Seq(Bytes)
<1>1. <<>> \in Seq(Bytes) /\ <<"special">> \in Seq(Bytes) /\ <<"plain">> \in Seq(Bytes)
      /\ <<"wrong">> \in Seq(Bytes)
  BY DEF Bytes
<1>2. Says(d, q) \in {<<>>, <<"special">>, <<"plain">>, <<"wrong">>}
  BY DEF Says
<1> QED
  BY <1>1, <1>2

\* One character more, after data that decode to the bytes they hold.
LEMMA DecodedAppend ==
  ASSUME NEW d \in Seq(Cells), NEW c \in Cells
  PROVE  Decoded(Append(d, c)) = Decoded(d) \o Says(Append(d, c), Len(d) + 1)
<1> DEFINE n == Len(d)
           e == Append(d, c)
           ss == [q \in 1 .. n |-> Says(d, q)]
           s == Says(e, n + 1)
<1>1. /\ n \in Nat /\ Len(e) = n + 1 /\ e[n + 1] = c
      /\ \A q \in 1 .. n : e[q] = d[q]
  OBVIOUS
<1>2. \A q \in 1 .. n : Says(e, q) = Says(d, q)
  <2> SUFFICES ASSUME NEW q \in 1 .. n PROVE Says(e, q) = Says(d, q)
    OBVIOUS
  <2>1. e[q] = d[q] /\ (q > 1 => e[q - 1] = d[q - 1])
    BY <1>1
  <2>2. AfterEscape(e, q) <=> AfterEscape(d, q)
    BY <2>1 DEF AfterEscape
  <2> HIDE DEF e
  <2> QED
    BY <2>1, <2>2 DEF Says
<1>3. ss \in Seq(Seq(Bytes)) /\ Len(ss) = n /\ s \in Seq(Bytes)
  <2>1. \A q \in 1 .. n : Says(d, q) \in Seq(Bytes)
    BY SaysType
  <2>2. ss \in Seq(Seq(Bytes)) /\ Len(ss) = n
    BY <1>1, <2>1
  <2> QED
    BY <2>2, SaysType
<1>4. [q \in 1 .. Len(e) |-> Says(e, q)] = Append(ss, s)
  <2> HIDE DEF e
  <2>1. \A q \in 1 .. n + 1 : q \in 1 .. n \/ q = n + 1
    BY <1>1
  <2> DEFINE tt == [q \in 1 .. Len(e) |-> Says(e, q)]
  <2>2. /\ \A q \in 1 .. n : tt[q] = ss[q]
        /\ tt[n + 1] = s /\ DOMAIN tt = 1 .. n + 1
    BY <1>1, <1>2
  <2>3. \A q \in 1 .. n + 1 : tt[q] \in Seq(Bytes)
    BY <1>1, SaysType
  <2>4. tt \in Seq(Seq(Bytes)) /\ Len(tt) = n + 1
    BY <1>1, <2>3
  <2>5. /\ Append(ss, s) \in Seq(Seq(Bytes)) /\ Len(Append(ss, s)) = n + 1
        /\ \A q \in 1 .. n : Append(ss, s)[q] = ss[q]
        /\ Append(ss, s)[n + 1] = s
    BY <1>3
  <2> HIDE DEF tt, ss, s
  <2>6. \A q \in 1 .. Len(tt) : tt[q] = Append(ss, s)[q]
    BY <2>1, <2>2, <2>4, <2>5
  <2>7. tt = Append(ss, s)
    BY <2>4, <2>5, <2>6, SeqEqual
  <2> QED
    BY <2>7 DEF tt
<1>5. FlattenSeq(Append(ss, s)) = FlattenSeq(ss) \o s
  <2> HIDE DEF ss, s
  <2> QED
    BY <1>3, FlattenAppend
<1>6. Decoded(e) = FlattenSeq(Append(ss, s)) /\ Decoded(d) = FlattenSeq(ss)
  <2> HIDE DEF e, s
  <2> QED
    BY <1>4, Zenon DEF Decoded, ss
<1> QED
  BY <1>5, <1>6

LEMMA DecodedType ==
  ASSUME NEW d \in Seq(Cells)
  PROVE  Decoded(d) \in Seq(Bytes)
<1> DEFINE ss == [q \in 1 .. Len(d) |-> Says(d, q)]
<1>1. ss \in Seq(Seq(Bytes))
  <2>1. Len(d) \in Nat /\ \A q \in 1 .. Len(d) : Says(d, q) \in Seq(Bytes)
    BY SaysType
  <2> QED
    BY <2>1
<1> HIDE DEF ss
<1>2. FlattenSeq(ss) \in Seq(Bytes)
  BY <1>1, FlattenPieces
<1> QED
  BY <1>2 DEF Decoded, ss

\* What Encoded adds says the byte it was given.
LEMMA EncodedSays ==
  ASSUME NEW d \in Seq(Cells), Closed(d), NEW p \in Nat, memory[p] \in Characters
  PROVE  /\ Decoded(d \o Encoded(p)) = Append(Decoded(d), memory[p])
         /\ Closed(d \o Encoded(p))
<1>0. Decoded(d) \in Seq(Bytes) /\ Len(d) \in Nat
  BY DecodedType
<1>1. CASE memory[p] = "special"
  <2> DEFINE a == Append(d, <<"escape", 0>>)
             b == Append(a, <<"swapped", p>>)
  <2>1. <<"escape", 0>> \in Cells /\ <<"swapped", p>> \in Cells
    BY DEF Cells
  <2>2. /\ a \in Seq(Cells) /\ Len(a) = Len(d) + 1 /\ a[Len(d) + 1] = <<"escape", 0>>
        /\ b \in Seq(Cells) /\ Len(b) = Len(d) + 2 /\ b[Len(d) + 2] = <<"swapped", p>>
        /\ b[Len(d) + 1] = <<"escape", 0>>
    BY <2>1
  <2>3. d \o Encoded(p) = b
    <3>1. d \o <<<<"escape", 0>>, <<"swapped", p>>>> = b
      BY <2>1
    <3> QED
      BY <1>1, <3>1, Zenon DEF Encoded
  <2>4. Says(a, Len(d) + 1) = <<>>
    <3> HIDE DEF a
    <3> QED
      BY <2>2 DEF Says
  <2>5. Says(b, Len(d) + 2) = <<"special">>
    <3>1. Len(d) + 2 > 1 /\ (Len(d) + 2) - 1 = Len(d) + 1
      BY <1>0
    <3> HIDE DEF b
    <3> QED
      BY <2>2, <3>1 DEF Says, AfterEscape
  <2>6. Decoded(a) = Decoded(d) \o <<>>
    BY <2>1, <2>4, DecodedAppend
  <2>7. Decoded(b) = Decoded(a) \o <<"special">>
    <3>1. Len(a) + 1 = Len(d) + 2
      BY <1>0, <2>2
    <3> HIDE DEF a
    <3> QED
      BY <2>1, <2>2, <2>5, <3>1, DecodedAppend DEF b
  <2>8. Closed(b)
    <3> HIDE DEF b
    <3> QED
      BY <2>2 DEF Closed
  <2>9. Decoded(b) = Append(Decoded(d), "special")
    <3> HIDE DEF a, b
    <3>1. Decoded(d) \o <<>> = Decoded(d)
      BY <1>0
    <3>2. Decoded(d) \o <<"special">> = Append(Decoded(d), "special")
      BY <1>0 DEF Bytes
    <3> QED
      BY <2>6, <2>7, <3>1, <3>2
  <2> QED
    BY <1>1, <2>3, <2>8, <2>9
<1>2. CASE memory[p] # "special"
  <2> DEFINE a == Append(d, <<"plain", p>>)
  <2>1. <<"plain", p>> \in Cells /\ memory[p] = "plain"
    BY <1>2 DEF Cells, Characters
  <2>2. /\ a \in Seq(Cells) /\ Len(a) = Len(d) + 1 /\ a[Len(d) + 1] = <<"plain", p>>
        /\ \A q \in 1 .. Len(d) : a[q] = d[q]
    BY <2>1
  <2>3. d \o Encoded(p) = a
    BY <1>2, <2>1 DEF Encoded
  <2>4. ~AfterEscape(a, Len(d) + 1)
    <3>1. Len(d) + 1 > 1 => Len(d) \in 1 .. Len(d) /\ (Len(d) + 1) - 1 = Len(d)
      BY <1>0
    <3> HIDE DEF a
    <3> QED
      BY <2>2, <3>1 DEF AfterEscape, Closed
  <2>5. Says(a, Len(d) + 1) = <<"plain">>
    <3> HIDE DEF a
    <3> QED
      BY <2>2, <2>4 DEF Says
  <2>6. Decoded(a) = Decoded(d) \o <<"plain">>
    BY <2>1, <2>5, DecodedAppend
  <2>7. Closed(a)
    <3> HIDE DEF a
    <3> QED
      BY <2>2 DEF Closed
  <2>8. Decoded(d) \o <<"plain">> = Append(Decoded(d), "plain")
    BY <1>0 DEF Bytes
  <2> HIDE DEF a
  <2> QED
    BY <2>1, <2>3, <2>6, <2>7, <2>8
<1> QED
  BY <1>1, <1>2

\* The bytes of the memory the data tell to write.  They are the first ones of
\* the memory, or all of it was sent.
Packets ==
  /\ Closed(data)
  /\ Decoded(data) = SubSeq(memory, sent + 1, sent + bytes_copied)
  /\ \/ sent = 0 /\ received = <<>>
     \/ /\ sent = Len(memory) /\ Len(received) = 1 /\ FitsInPacket
        /\ received[1].address = 0 /\ received[1].length = Len(memory)
        /\ Decoded(received[1].data) = memory
  /\ pc = "done" => sent = Len(memory)

DInv == IInv /\ Packets

LEMMA MemoryFacts ==
  ASSUME TypeOK
  PROVE  /\ memory \in Seq(Characters) /\ Len(memory) \in Nat
         /\ sent \in Nat /\ bytes_copied \in Nat /\ sent + bytes_copied <= Len(memory)
         /\ data \in Seq(Cells) /\ Len(received) \in Nat
BY MemoriesAssumption DEF TypeOK

LEMMA InitDInv == Init => DInv
<1> SUFFICES ASSUME Init PROVE DInv
  OBVIOUS
<1>1. IInv /\ TypeOK /\ data = <<>> /\ sent = 0 /\ bytes_copied = 0 /\ received = <<>> /\ pc = "copy"
  BY InitIInv DEF IInv, Init
<1>2. Decoded(<<>>) = <<>>
  <2>1. [q \in 1 .. Len(<<>>) |-> Says(<<>>, q)] = <<>>
    OBVIOUS
  <2> QED
    BY <2>1 DEF Decoded, FlattenSeq
<1>3. SubSeq(memory, 0 + 1, 0 + 0) = <<>>
  BY <1>1, MemoryFacts
<1>4. Closed(<<>>)
  BY DEF Closed
<1>5. Decoded(data) = SubSeq(memory, sent + 1, sent + bytes_copied)
  BY <1>1, <1>2, <1>3
<1> QED
  BY <1>1, <1>4, <1>5 DEF DInv, Packets

LEMMA CopyPackets ==
  ASSUME DInv, Copy
  PROVE  Packets'
<1>1. TypeOK /\ Packets
  BY DEF DInv, IInv
<1>2. bytes_copied < Len(memory) - sent
  BY DEF Copy, MoreToCopy, size
<1>3. /\ memory \in Seq(Characters) /\ Place \in 1 .. Len(memory) /\ Place \in Nat
      /\ Place = sent + bytes_copied + 1 /\ memory[Place] \in Characters
      /\ sent + (bytes_copied + 1) = Place
  BY <1>1, <1>2, MemoryFacts DEF Place
<1>4. /\ Decoded(data \o Encoded(Place)) = Append(Decoded(data), memory[Place])
      /\ Closed(data \o Encoded(Place))
  BY <1>1, <1>3, MemoryFacts, EncodedSays DEF Packets
<1>5. Append(SubSeq(memory, sent + 1, sent + bytes_copied), memory[Place])
        = SubSeq(memory, sent + 1, Place)
  <2>1. /\ sent + 1 \in 1 .. Len(memory) /\ Place \in sent + 1 .. Len(memory)
        /\ Place - 1 = sent + bytes_copied
    BY <1>1, <1>3, MemoryFacts
  <2>2. SubSeq(memory, sent + 1, Place) = SubSeq(memory, sent + 1, sent + bytes_copied) \o <<memory[Place]>>
    BY <1>3, <2>1, SubSeqRecursiveSecond
  <2>3. SubSeq(memory, sent + 1, sent + bytes_copied) \in Seq(Characters)
    <3>1. \A i \in sent + 1 .. sent + bytes_copied : memory[i] \in Characters
      BY <1>1, <1>3, MemoryFacts
    <3>2. sent + 1 \in Int /\ sent + bytes_copied \in Int
      BY <1>1, MemoryFacts
    <3> QED
      BY <3>1, <3>2, SubSeqProperties
  <2>4. Append(SubSeq(memory, sent + 1, sent + bytes_copied), memory[Place])
          = SubSeq(memory, sent + 1, sent + bytes_copied) \o <<memory[Place]>>
    BY <1>3, <2>3, AppendIsConcat
  <2> QED
    BY <2>2, <2>4
<1>6. /\ data' = data \o Encoded(Place) /\ bytes_copied' = bytes_copied + 1
      /\ UNCHANGED <<memory, sent, received, pc>>
  BY DEF Copy
<1>7. Decoded(data') = SubSeq(memory', sent' + 1, sent' + bytes_copied') /\ Closed(data')
  BY <1>1, <1>3, <1>4, <1>5, <1>6 DEF Packets
<1>8. FitsInPacket' <=> FitsInPacket
  BY <1>6 DEF FitsInPacket, EncodedSize, Specials
<1> QED
  BY <1>1, <1>6, <1>7, <1>8 DEF Packets

\* What is sent is the whole memory: data that leave room for the trailer are
\* not a full chunk.
LEMMA SendsAll ==
  ASSUME DInv, Send
  PROVE  /\ sent = 0 /\ received = <<>> /\ bytes_copied = Len(memory) /\ FitsInPacket
         /\ Decoded(data) = memory
<1>1. TypeOK /\ Packets /\ DataSize
  BY DEF DInv, IInv
<1>2. /\ memory \in Seq(Characters) /\ Len(memory) \in Nat /\ bytes_copied \in Nat
      /\ bytes_copied <= Len(memory) - sent /\ Len(data) \in Nat
  BY <1>1, MemoryFacts
<1>3. size > 0 /\ ~MoreToCopy /\ pc = "copy" /\ Fits(data, Trailer)
  BY DEF Send, Full
<1>4. sent = 0 /\ received = <<>>
  BY <1>1, <1>2, <1>3 DEF Packets, size
<1>5. buffer_size < MAX_BUFFER_SIZE - 1
  <2>1. Len(data) + 24 <= MAX_PACKET_SIZE
    BY <1>2, <1>3, PacketAssumption DEF Fits, Preamble, Trailer
  <2> QED
    BY <1>2, <2>1, PacketAssumption DEF buffer_size, MAX_BUFFER_SIZE
<1>6. bytes_copied = Len(memory)
  BY <1>2, <1>3, <1>4, <1>5 DEF MoreToCopy, size
<1>7. Escaped = Specials
  <2>1. \A p \in Specials : p \in 1 .. Len(memory)
    BY <1>2 DEF Specials
  <2> QED
    BY <1>2, <1>4, <1>6, <2>1 DEF Escaped
<1>8. FitsInPacket
  <2>1. Len(data) = EncodedSize
    BY <1>1, <1>6, <1>7 DEF DataSize, EncodedSize
  <2> QED
    BY <1>3, <2>1 DEF Fits, FitsInPacket
<1>9. Decoded(data) = memory
  <2>1. Decoded(data) = SubSeq(memory, 1, Len(memory))
    BY <1>1, <1>2, <1>4, <1>6 DEF Packets
  <2> QED
    BY <1>2, <2>1
<1> QED
  BY <1>4, <1>6, <1>8, <1>9

LEMMA SendPackets ==
  ASSUME DInv, Send
  PROVE  Packets'
<1> DEFINE r == [address |-> sent, length |-> bytes_copied, data |-> data]
<1>1. TypeOK
  BY DEF DInv, IInv
<1>2. /\ received' = Append(received, r) /\ sent' = sent + bytes_copied
      /\ bytes_copied' = 0 /\ data' = <<>> /\ UNCHANGED <<memory, pc>> /\ pc = "copy"
  BY DEF Send, Full
<1>3. /\ sent = 0 /\ received = <<>> /\ bytes_copied = Len(memory) /\ FitsInPacket
      /\ Decoded(data) = memory
  BY SendsAll
<1>4. /\ Len(memory) \in Nat /\ memory \in Seq(Characters)
      /\ r.address = 0 /\ r.length = Len(memory) /\ r.data = data
  BY <1>1, <1>3, MemoryFacts
<1> HIDE DEF r
<1>5. Len(received') = 1 /\ received'[1] = r
  BY <1>2, <1>3
<1>6. sent' = Len(memory') /\ (FitsInPacket' <=> FitsInPacket)
  BY <1>2, <1>3, <1>4 DEF FitsInPacket, EncodedSize, Specials
<1>7. Decoded(data') = SubSeq(memory', sent' + 1, sent' + bytes_copied') /\ Closed(data')
  <2>1. Decoded(<<>>) = <<>>
    <3>1. [q \in 1 .. Len(<<>>) |-> Says(<<>>, q)] = <<>>
      OBVIOUS
    <3> QED
      BY <3>1 DEF Decoded, FlattenSeq
  <2>2. SubSeq(memory, Len(memory) + 1, Len(memory) + 0) = <<>>
    BY <1>4
  <2>3. Closed(<<>>)
    BY DEF Closed
  <2> QED
    BY <1>2, <1>6, <2>1, <2>2, <2>3
<1> QED
  BY <1>2, <1>3, <1>4, <1>5, <1>6, <1>7 DEF Packets

LEMMA NextDInv == DInv /\ [Next]_vars => DInv'
<1> SUFFICES ASSUME DInv, [Next]_vars PROVE DInv'
  OBVIOUS
<1>1. TypeOK /\ Packets /\ IInv'
  BY NextIInv DEF DInv, IInv
<1>2. CASE Copy
  BY <1>1, <1>2, CopyPackets DEF DInv
<1>3. CASE Send
  BY <1>1, <1>3, SendPackets DEF DInv
<1>4. CASE CopyOverrun \/ SendOverrun \/ Return \/ UNCHANGED vars
  <2>1. UNCHANGED <<memory, sent, bytes_copied, data, received>>
    BY <1>4 DEF CopyOverrun, SendOverrun, Return, vars
  <2>2. pc' = "done" => sent = Len(memory)
    BY <1>1, <1>4, MemoryFacts DEF CopyOverrun, SendOverrun, Return, vars, Packets, size
  <2>3. FitsInPacket' <=> FitsInPacket
    BY <2>1 DEF FitsInPacket, EncodedSize, Specials
  <2> QED
    BY <1>1, <2>1, <2>2, <2>3 DEF DInv, Packets
<1> QED
  BY <1>2, <1>3, <1>4 DEF Next

\* For every memory and every size of the packet, a call tells the simulator the
\* whole memory in one packet, byte for byte, or nothing, and it returns without
\* having told anything only when there was nothing to write
\* (gdb_protocol.c:149-180).
THEOREM WholeMemoryDelivered == Spec => []Delivered
<1>1. DInv => Delivered
  <2> SUFFICES ASSUME DInv PROVE Delivered
    OBVIOUS
  <2>1. Packets /\ memory \in Seq(Characters) /\ Len(memory) \in Nat
    BY MemoryFacts DEF DInv, IInv
  <2>2. Len(memory) = 0 => memory = <<>>
    BY <2>1
  <2> QED
    BY <2>1, <2>2 DEF Packets, Delivered
<1> QED
  BY <1>1, InitDInv, NextDInv, PTL DEF Spec
=============================================================================
