--------------------------- MODULE Scanner_proofs ---------------------------
(***************************************************************************)
(* The tokens that yylex makes are those of the rules on the whole stream, *)
(* for every stream, every size of the buffer and of what is read into it, *)
(* and every way in which read cuts the stream into pieces.                *)
(*                                                                         *)
(* The automaton is followed by what its states say of the text they have  *)
(* read (Live), the buffer by the piece of the stream it holds (Contents), *)
(* the tokens by the position in the stream where the next one begins      *)
(* (Cut).                                                                  *)
(***************************************************************************)
EXTENDS Scanner, FoldLemmas

\* The class of a character of the text, in a second match too.
Class(c) == IF c = "NUL" THEN 1 ELSE yy_ec[c]

\* No packet of s begins at p.
NoPacket(s, p) == \A q \in p .. Len(s) : ~PacketAt(s, p, q)

Plain(s, a, b) == \A m \in a .. b : s[m] \notin {"$", "#"}

\* After the len characters of s from p on the automaton is in state q, and
\* needs another one to tell which token begins at p.
Live(q, s, p, len) ==
  \/ q = 1 /\ len = 0
  \/ q = 4 /\ len = 1 /\ s[p] = "NUL"
  \/ q = 6 /\ len = 1 /\ s[p] = "$"
  \/ q = 9 /\ len >= 2 /\ s[p] = "$" /\ Plain(s, p + 1, p + len - 1)
  \/ q = 10 /\ len >= 2 /\ s[p] = "$" /\ s[p + len - 1] = "#" /\ Plain(s, p + 1, p + len - 2)
  \/ q = 11 /\ len >= 3 /\ s[p] = "$" /\ s[p + len - 1] = "HEX" /\ s[p + len - 2] = "#"
            /\ Plain(s, p + 1, p + len - 3)

Waits(s, p, len) == \E q \in 1 .. 11 : Live(q, s, p, len)

\* The token at p has len characters, and q is the state that accepts it.
Ends(q, s, p, len) ==
  /\ q \in {4, 5, 6, 7, 8, 12} /\ len >= 1
  /\ TokenAt(s, p) = [rule |-> At(yy_accept, q), end |-> p + len - 1]

\* The tokens of s from each position on.
From(s) ==
  LET from[p \in 1 .. Len(s) + 1] ==
        IF p > Len(s) THEN <<>>
        ELSE LET t == TokenAt(s, p)
             IN <<[rule |-> t.rule, text |-> SubSeq(s, p, t.end)]>> \o from[t.end + 1]
  IN from
-----------------------------------------------------------------------------
(***************************************************************************)
(* The invariant.                                                          *)
(***************************************************************************)
Phases == {"absent", "outside", "token", "match", "find", "action", "refill", "exit", "destroyed"}

Inside == pc \in {"token", "match", "find", "action", "refill", "exit"}

HasBuffer == "yy_ch_buf" \in blocks

Texts(ts) == [k \in DOMAIN ts |-> ts[k].text]

\* The buffer with the character that the end of the last token hides.
Seen == IF pc \in {"outside", "token", "action"}
        THEN Put(yy_ch_buf, yy_c_buf_p, yy_hold_char) ELSE yy_ch_buf

\* Where the next token begins, in the buffer and in the stream.
Start == IF pc \in {"match", "find", "action", "refill", "exit"} THEN yytext ELSE yy_c_buf_p

Cut == taken - yy_n_chars + Start

Numbers ==
  /\ stream \in Streams /\ taken \in 0 .. Len(stream)
  /\ yy_n_chars \in Nat /\ yytext \in Nat /\ yy_c_buf_p \in Nat /\ yy_cp \in Nat
  /\ yy_current_state \in 0 .. 13 /\ yy_act \in 0 .. 6
  /\ last_accepting \in [state : 0 .. 13, cpos : Nat]
  /\ yy_hold_char \in Classes \cup {"unset"}
  /\ pc \in Phases

Life ==
  /\ HasBuffer <=> "yy_buffer_state" \in blocks
  /\ pc = "absent" => blocks = {}
  /\ Inside => HasBuffer /\ eofs <= MaxEofs
  /\ eofs \in 0 .. MaxEofs + 1
  /\ ~HasBuffer /\ pc \in {"absent", "outside"} =>
       taken = 0 /\ yy_n_chars = 0 /\ yy_c_buf_p = 0 /\ eofs = 0

\* What the buffer holds from the beginning of the token on is the stream, up
\* to the end of what was read of it.
Contents ==
  /\ yy_buffer_status \in {"NEW", "NORMAL", "EOF_PENDING"}
  /\ yy_buffer_status = "EOF_PENDING" => taken = Len(stream)
  /\ HasBuffer =>
       /\ yy_buf_size \in Nat \ {0} /\ yy_n_chars <= yy_buf_size
       /\ yy_ch_buf \in [Cells(yy_buf_size) -> Classes \cup {"unset"}]
       /\ yytext <= yy_c_buf_p /\ yy_c_buf_p <= yy_n_chars + 1
       /\ Seen[yy_n_chars] = "NUL" /\ Seen[yy_n_chars + 1] = "NUL"
       /\ \A i \in Start .. yy_n_chars - 1 : Seen[i] = stream[taken - yy_n_chars + i + 1]
       /\ yy_buffer_status = "NEW" => buf_n_chars = yy_n_chars

\* The match has met, at cp - 1, the null character of the end or of the text.
MeetsNul(cp) ==
  /\ cp \in yytext + 1 .. yy_n_chars + 1 /\ Seen[cp - 1] = "NUL"
  /\ Waits(stream, Cut + 1, cp - 1 - yytext)

\* The state s, left at cp, tells the token.
Chosen(s, cp) ==
  \/ s = 3 /\ MeetsNul(cp)
  \/ cp \in yytext + 1 .. yy_n_chars /\ Ends(s, stream, Cut + 1, cp - yytext)

\* In each phase of yylex, what is known of the token that begins at Cut.
Progress ==
  /\ pc \in {"outside", "token"} /\ HasBuffer => yy_c_buf_p <= yy_n_chars
  /\ pc = "match" =>
       \/ /\ yy_cp \in yytext .. yy_n_chars
          /\ Live(yy_current_state, stream, Cut + 1, yy_cp - yytext)
          /\ yy_cp >= yytext + 2 => last_accepting = [state |-> 6, cpos |-> yytext + 1]
       \/ yy_current_state = 3 /\ MeetsNul(yy_cp)
  /\ pc = "find" =>
       IF Accepting(yy_current_state) THEN Chosen(yy_current_state, yy_cp)
       ELSE Chosen(last_accepting.state, last_accepting.cpos)
  /\ pc = "action" => /\ yy_cp = yy_c_buf_p /\ yy_act = At(yy_accept, yy_current_state)
                      /\ Chosen(yy_current_state, yy_cp)
  /\ pc = "refill" => /\ yy_c_buf_p = yy_n_chars + 1 /\ yy_buffer_status # "NEW"
                      /\ Waits(stream, Cut + 1, Matched)

\* The tokens that were made are those before Cut.
Done ==
  /\ Cut \in 0 .. taken
  /\ tokens \in Seq([rule : 0 .. 6, text : Seq(Classes)])
  /\ FlattenSeq(Texts(tokens)) = SubSeq(stream, 1, Cut)
  /\ Tokens(stream) = tokens \o From(stream)[Cut + 1]
  /\ eofs > 0 => Cut = Len(stream)

IInv == Numbers /\ Life /\ Contents /\ Progress /\ Done
-----------------------------------------------------------------------------
(***************************************************************************)
(* The automaton.                                                          *)
(***************************************************************************)
\* The rows of the table that yy_base, yy_chk, yy_nxt, yy_def and yy_meta
\* compress.
Rows == <<
  <<0, 0, 0, 0, 0, 0, 0, 0>>,
  <<3, 4, 5, 4, 6, 7, 8, 4>>,
  <<3, 4, 5, 4, 6, 7, 8, 4>>,
  <<13, 13, 13, 13, 13, 13, 13, 13>>,
  <<3, 13, 13, 13, 13, 13, 13, 13>>,
  <<3, 13, 13, 13, 13, 13, 13, 13>>,
  <<3, 9, 9, 10, 13, 9, 9, 9>>,
  <<3, 13, 13, 13, 13, 13, 13, 13>>,
  <<3, 13, 13, 13, 13, 13, 13, 13>>,
  <<3, 9, 9, 10, 13, 9, 9, 9>>,
  <<3, 13, 13, 13, 13, 13, 13, 11>>,
  <<3, 13, 13, 13, 13, 13, 13, 12>>,
  <<3, 13, 13, 13, 13, 13, 13, 13>>,
  <<3, 13, 13, 13, 13, 13, 13, 13>>,
  <<3, 9, 13, 13, 13, 13, 13, 13>> >>

\* The transition of a state, when h is the table of those of its default.
NextOf(h, s, c) ==
  IF At(yy_chk, At(yy_base, s) + c) = s THEN At(yy_nxt, At(yy_base, s) + c)
  ELSE LET d == At(yy_def, s) IN h[d][IF d >= 14 THEN At(yy_meta, c) ELSE c]

IsNext(h) == h = [s \in States |-> [c \in 0 .. 7 |-> NextOf(h, s, c)]]

HasRow(h, s) == \A c \in 0 .. 7 : h[s][c] = At(At(Rows, s), c)

ComputesRow(h, s) == \A c \in 0 .. 7 : NextOf(h, s, c) = At(At(Rows, s), c)

\* A row follows from that of its default, and the default of 13 is not used.
LEMMA ComputedRows ==
  ASSUME NEW h
  PROVE  /\ ComputesRow(h, 13)
         /\ HasRow(h, 13) => \A s \in {1, 3, 4, 5, 7, 8, 10, 11, 12, 14} : ComputesRow(h, s)
         /\ HasRow(h, 1) /\ HasRow(h, 14) => \A s \in {2, 6, 9} : ComputesRow(h, s)
<1>0. ComputesRow(h, 13)
  BY SMT DEF ComputesRow, NextOf, At, Rows, yy_base, yy_chk, yy_nxt
<1>1. HasRow(h, 13) => ComputesRow(h, 1)
  BY SMT DEF HasRow, ComputesRow, NextOf, At, Rows, yy_base, yy_chk, yy_nxt, yy_def
<1>3. HasRow(h, 13) => ComputesRow(h, 3)
  BY SMT DEF HasRow, ComputesRow, NextOf, At, Rows, yy_base, yy_chk, yy_nxt, yy_def
<1>4. HasRow(h, 13) => ComputesRow(h, 4)
  BY SMT DEF HasRow, ComputesRow, NextOf, At, Rows, yy_base, yy_chk, yy_nxt, yy_def
<1>5. HasRow(h, 13) => ComputesRow(h, 5)
  BY SMT DEF HasRow, ComputesRow, NextOf, At, Rows, yy_base, yy_chk, yy_nxt, yy_def
<1>7. HasRow(h, 13) => ComputesRow(h, 7)
  BY SMT DEF HasRow, ComputesRow, NextOf, At, Rows, yy_base, yy_chk, yy_nxt, yy_def
<1>8. HasRow(h, 13) => ComputesRow(h, 8)
  BY SMT DEF HasRow, ComputesRow, NextOf, At, Rows, yy_base, yy_chk, yy_nxt, yy_def
<1>10. HasRow(h, 13) => ComputesRow(h, 10)
  BY SMT DEF HasRow, ComputesRow, NextOf, At, Rows, yy_base, yy_chk, yy_nxt, yy_def
<1>11. HasRow(h, 13) => ComputesRow(h, 11)
  BY SMT DEF HasRow, ComputesRow, NextOf, At, Rows, yy_base, yy_chk, yy_nxt, yy_def
<1>12. HasRow(h, 13) => ComputesRow(h, 12)
  BY SMT DEF HasRow, ComputesRow, NextOf, At, Rows, yy_base, yy_chk, yy_nxt, yy_def
<1>14. HasRow(h, 13) => ComputesRow(h, 14)
  BY SMT DEF HasRow, ComputesRow, NextOf, At, Rows, yy_base, yy_chk, yy_nxt, yy_def
<1>2. HasRow(h, 1) => ComputesRow(h, 2)
  BY SMT DEF HasRow, ComputesRow, NextOf, At, Rows, yy_base, yy_chk, yy_nxt, yy_def
<1>6. HasRow(h, 14) => ComputesRow(h, 6)
  BY SMT DEF HasRow, ComputesRow, NextOf, At, Rows, yy_base, yy_chk, yy_nxt, yy_def, yy_meta
<1>9. HasRow(h, 14) => ComputesRow(h, 9)
  BY SMT DEF HasRow, ComputesRow, NextOf, At, Rows, yy_base, yy_chk, yy_nxt, yy_def, yy_meta
<1> QED
  BY <1>0, <1>1, <1>2, <1>3, <1>4, <1>5, <1>6, <1>7, <1>8, <1>9, <1>10, <1>11, <1>12, <1>14

\* The table exists, and any has the rows of Rows.
LEMMA RowsOfNext ==
  /\ \E h : IsNext(h)
  /\ \A h : IsNext(h) => \A s \in 1 .. 13 : HasRow(h, s)
<1>1. ASSUME NEW h, IsNext(h) PROVE \A s \in 1 .. 14 : HasRow(h, s)
  <2>1. \A s \in 1 .. 14 : ComputesRow(h, s) => HasRow(h, s)
    BY <1>1, SMTT(30) DEF IsNext, ComputesRow, HasRow, States
  <2>2. HasRow(h, 13)
    BY <2>1, ComputedRows
  <2>3. \A s \in {1, 3, 4, 5, 7, 8, 10, 11, 12, 14} : HasRow(h, s)
    BY <2>1, <2>2, ComputedRows
  <2>4. \A s \in {2, 6, 9} : HasRow(h, s)
    BY <2>1, <2>3, ComputedRows
  <2> QED
    BY <2>2, <2>3, <2>4
<1>2. \E h : IsNext(h)
  <2> DEFINE e == [s \in States |-> [c \in 0 .. 7 |-> At(At(Rows, s), c)]]
  <2>1. \A s \in States : HasRow(e, s)
    BY DEF HasRow
  <2>2. \A s \in 1 .. 14 : ComputesRow(e, s)
    <3>1. HasRow(e, 13) /\ HasRow(e, 1) /\ HasRow(e, 14)
      BY <2>1 DEF States
    <3> HIDE DEF e
    <3>2. ComputesRow(e, 13) /\ \A s \in {1, 3, 4, 5, 7, 8, 10, 11, 12, 14} : ComputesRow(e, s)
      BY <3>1, ComputedRows
    <3>3. \A s \in {2, 6, 9} : ComputesRow(e, s)
      BY <3>1, ComputedRows
    <3> QED
      BY <3>2, <3>3
  <2>3. ComputesRow(e, 0)
    <3>1. \A c \in 0 .. 7 : e[0][c] = 0
      BY SMT DEF States, At, Rows
    <3> HIDE DEF e
    <3> QED
      BY <3>1, SMT DEF ComputesRow, NextOf, At, Rows, yy_base, yy_chk, yy_nxt, yy_def
  <2>4. \A s \in States, c \in 0 .. 7 : NextOf(e, s, c) = At(At(Rows, s), c)
    BY <2>2, <2>3 DEF ComputesRow, States
  <2>5. e = [s \in States |-> [c \in 0 .. 7 |-> At(At(Rows, s), c)]]
    OBVIOUS
  <2> HIDE DEF e
  <2>6. IsNext(e)
    BY <2>4, <2>5 DEF IsNext
  <2> QED
    BY <2>6
<1> QED
  BY <1>1, <1>2

\* What the automaton does: the transitions that its tables give.
LEMMA TransitionTable ==
  /\ Transition \in [1 .. 13 -> [0 .. 7 -> 1 .. 13]]
  /\ \A s \in 1 .. 13, c \in 0 .. 7 : Transition[s][c] = At(At(Rows, s), c)
<1> DEFINE h == CHOOSE h : IsNext(h)
<1>1. IsNext(h)
  BY RowsOfNext
<1>2. Transition = [s \in 1 .. 13 |-> h[s]]
  BY DEF Transition, IsNext, NextOf
<1> HIDE DEF h
<1>3. \A s \in 1 .. 13, c \in 0 .. 7 : Transition[s][c] = At(At(Rows, s), c)
  BY <1>1, <1>2, RowsOfNext DEF HasRow
<1>4. \A s \in 1 .. 13 : h[s] \in [0 .. 7 -> 1 .. 13]
  <2> TAKE s \in 1 .. 13
  <2>1. h[s] = [c \in 0 .. 7 |-> h[s][c]]
    BY <1>1 DEF IsNext, States
  <2>2. \A c \in 0 .. 7 : h[s][c] \in 1 .. 13
    <3>1. \A c \in 0 .. 7 : At(At(Rows, s), c) \in 1 .. 13
      BY SMT DEF At, Rows
    <3> QED
      BY <3>1, <1>2, <1>3
  <2> QED
    BY <2>1, <2>2
<1> QED
  BY <1>2, <1>3, <1>4
-----------------------------------------------------------------------------
(***************************************************************************)
(* The texts.                                                              *)
(***************************************************************************)
LEMMA ClassRange ==
  \A c \in Classes : /\ yy_ec[c] \in 0 .. 7 /\ Class(c) \in 1 .. 7
                     /\ c # "NUL" => yy_ec[c] = Class(c)
BY DEF Classes, yy_ec, Class

LEMMA Letters ==
  \A c \in Classes :
     /\ c \in {"NUL", "LET"} => Class(c) = 1
     /\ c = "EOL" => Class(c) = 2
     /\ c = "#" => Class(c) = 3
     /\ c = "$" => Class(c) = 4
     /\ c = "+" => Class(c) = 5
     /\ c = "-" => Class(c) = 6
     /\ c = "HEX" => Class(c) = 7
     /\ yy_ec["NUL"] = 0
BY DEF Classes, yy_ec, Class

\* Only the first "$" or "#" after p can be the "#" of a packet that begins there.
LEMMA FirstMark ==
  ASSUME NEW s, NEW p \in Int, NEW q \in Int, NEW h \in Int, PacketAt(s, p, q),
         h >= p + 1, s[h] \in {"$", "#"}, Plain(s, p + 1, h - 1)
  PROVE  q = h + 2 /\ s[h] = "#"
<1>1. q - 2 >= p + 1 /\ s[q - 2] = "#" /\ \A m \in p + 1 .. q - 3 : s[m] \notin {"$", "#"}
  BY DEF PacketAt
<1>2. ~ (q - 2 < h)
  BY <1>1 DEF Plain
<1>3. ~ (h < q - 2)
  BY <1>1
<1>4. q - 2 = h
  BY <1>2, <1>3
<1> QED
  BY <1>1, <1>4

\* The token where no packet begins.
LEMMA SingleToken ==
  ASSUME NEW s, NEW p, NoPacket(s, p)
  PROVE  TokenAt(s, p) =
           [rule |-> CASE s[p] = "+" -> 1 [] s[p] = "-" -> 2 [] s[p] = "EOL" -> 5 [] OTHER -> 4,
            end |-> p]
<1>1. {q \in p .. Len(s) : PacketAt(s, p, q)} = {}
  BY DEF NoPacket
<1> QED
  BY <1>1 DEF TokenAt

\* The token where a packet begins, which has one end only.
LEMMA PacketToken ==
  ASSUME NEW s \in Seq(Classes), NEW p \in 1 .. Len(s), NEW q \in p .. Len(s), PacketAt(s, p, q)
  PROVE  TokenAt(s, p) = [rule |-> 3, end |-> q]
<1> DEFINE ends == {r \in p .. Len(s) : PacketAt(s, p, r)}
<1>1. ASSUME NEW r \in ends PROVE r = q
  <2>1. q - 2 \in Int /\ q - 2 >= p + 1 /\ s[q - 2] \in {"$", "#"} /\ Plain(s, p + 1, (q - 2) - 1)
    BY DEF PacketAt, Plain
  <2>2. p \in Int /\ r \in Int /\ PacketAt(s, p, r)
    OBVIOUS
  <2>3. r = (q - 2) + 2
    BY <2>1, <2>2, FirstMark
  <2> QED
    BY <2>3
<1>2. ends = {q}
  BY <1>1
<1>3. Max(ends) = q
  BY <1>2 DEF Max
<1> HIDE DEF ends
<1> QED
  BY <1>2, <1>3 DEF TokenAt, ends

\* A character other than "$" is a token, its class says which.
LEMMA OtherToken ==
  ASSUME NEW s, NEW p, s[p] # "$"
  PROVE  NoPacket(s, p)
BY DEF NoPacket, PacketAt

\* One more character: the automaton still waits, or tells the token, or is
\* stuck, and then no packet begins at p.
LEMMA OneMore ==
  ASSUME NEW s \in Seq(Classes), NEW p \in 1 .. Len(s), NEW len \in Nat, p + len <= Len(s),
         NEW q, Live(q, s, p, len),
         NEW next, next = Transition[q][Class(s[p + len])]
  PROVE  \/ Live(next, s, p, len + 1) /\ next # 1
         \/ Ends(next, s, p, len + 1) /\ next # 6
         \/ next = Jam /\ q # 1 /\ NoPacket(s, p)
<1> DEFINE c == s[p + len]
<1>0. c \in Classes /\ Class(c) \in 1 .. 7 /\ p \in Nat
  BY ElementOfSeq, ClassRange
<1>1. CASE q = 1
  <2>1. len = 0 /\ c = s[p]
    BY <1>1 DEF Live
  <2>2. next = At(<<3, 4, 5, 4, 6, 7, 8, 4>>, Class(c))
    BY <1>0, <1>1, TransitionTable, SMTT(30) DEF At, Rows
  <2>3. CASE c = "$"
    BY <2>1, <2>2, <2>3, Letters, <1>0 DEF At, Live
  <2>4. CASE c = "NUL"
    BY <2>1, <2>2, <2>4, Letters, <1>0 DEF At, Live
  <2>5. CASE c \notin {"$", "NUL"}
    <3>1. TokenAt(s, p) = [rule |-> CASE s[p] = "+" -> 1 [] s[p] = "-" -> 2 [] s[p] = "EOL" -> 5
                                      [] OTHER -> 4, end |-> p]
      BY <2>1, <2>5, OtherToken, SingleToken
    <3>2. next \in {4, 5, 7, 8} /\ At(yy_accept, next) =
            CASE s[p] = "+" -> 1 [] s[p] = "-" -> 2 [] s[p] = "EOL" -> 5 [] OTHER -> 4
      BY <2>1, <2>2, <2>5, Letters, <1>0, SMTT(30) DEF At, yy_accept, Classes
    <3> QED
      BY <2>1, <3>1, <3>2 DEF Ends
  <2> QED
    BY <2>3, <2>4, <2>5
<1>4. CASE q = 4
  <2>1. next = 13
    BY <1>0, <1>4, TransitionTable DEF At, Rows
  <2>2. NoPacket(s, p)
    BY <1>4, OtherToken DEF Live
  <2> QED
    BY <1>4, <2>1, <2>2 DEF Jam
<1>6. CASE q \in {6, 9}
  <2>1. /\ s[p] = "$" /\ len >= 1 /\ Plain(s, p + 1, p + len - 1)
    BY <1>6 DEF Live, Plain
  <2>2. next = At(<<3, 9, 9, 10, 13, 9, 9, 9>>, Class(c))
    <3>1. At(Rows, 6) = <<3, 9, 9, 10, 13, 9, 9, 9>> /\ At(Rows, 9) = <<3, 9, 9, 10, 13, 9, 9, 9>>
      BY DEF At, Rows
    <3>2. q \in 1 .. 13 /\ Class(c) \in 0 .. 7
      BY <1>0, <1>6
    <3>3. next = At(At(Rows, q), Class(c))
      BY <3>2, TransitionTable
    <3> QED
      BY <1>6, <3>1, <3>3
  <2>3. CASE c = "$"
    <3>1. next = 13
      BY <2>2, <2>3, <1>0, Letters DEF At
    <3>2. ASSUME NEW r \in p .. Len(s), PacketAt(s, p, r) PROVE FALSE
      <4>1. p + len \in Int /\ p + len >= p + 1 /\ s[p + len] \in {"$", "#"} /\ r \in Int
        BY <1>0, <2>1, <2>3
      <4>2. s[p + len] = "#"
        BY <1>0, <2>1, <3>2, <4>1, FirstMark
      <4> QED
        BY <2>3, <4>2
    <3> QED
      BY <3>1, <3>2, <1>6 DEF NoPacket, Jam
  <2>4. CASE c = "#"
    <3>1. next = 10
      BY <2>2, <2>4, <1>0, Letters DEF At
    <3> QED
      BY <2>1, <2>4, <3>1, <1>0 DEF Live, Plain
  <2>5. CASE c \notin {"$", "#"}
    <3>1. next = 9
      BY <2>2, <2>5, <1>0, Letters DEF At, Classes
    <3>2. Plain(s, p + 1, p + (len + 1) - 1)
      BY <2>1, <2>5, <1>0 DEF Plain
    <3> QED
      BY <2>1, <3>1, <3>2 DEF Live
  <2> QED
    BY <2>3, <2>4, <2>5
<1>10. CASE q = 10
  <2>1. s[p] = "$" /\ len >= 2 /\ s[p + len - 1] = "#" /\ Plain(s, p + 1, p + len - 2)
    BY <1>10 DEF Live
  <2>2. next = IF c = "HEX" THEN 11 ELSE 13
    BY <1>0, <1>10, TransitionTable, Letters DEF At, Rows, Classes
  <2>3. CASE c = "HEX"
    BY <2>1, <2>2, <2>3, <1>0 DEF Live
  <2>4. CASE c # "HEX"
    <3>1. ASSUME NEW r \in p .. Len(s), PacketAt(s, p, r) PROVE FALSE
      <4> DEFINE h == p + len - 1
      <4>1. h \in Int /\ h >= p + 1 /\ s[h] \in {"$", "#"} /\ r \in Int /\ Plain(s, p + 1, h - 1)
        BY <1>0, <2>1
      <4>2. r = h + 2
        <5>1. p \in Int
          BY <1>0
        <5> HIDE DEF h
        <5> QED
          BY <5>1, <3>1, <4>1, FirstMark, Zenon
      <4>3. r - 1 = p + len
        BY <4>2, <1>0
      <4> QED
        BY <2>4, <4>3, <3>1 DEF PacketAt
    <3> QED
      BY <2>2, <2>4, <3>1, <1>10 DEF NoPacket, Jam
  <2> QED
    BY <2>3, <2>4
<1>11. CASE q = 11
  <2>1. s[p] = "$" /\ len >= 3 /\ s[p + len - 1] = "HEX" /\ s[p + len - 2] = "#" /\ Plain(s, p + 1, p + len - 3)
    BY <1>11 DEF Live
  <2>2. next = IF c = "HEX" THEN 12 ELSE 13
    BY <1>0, <1>11, TransitionTable, Letters DEF At, Rows, Classes
  <2>3. CASE c = "HEX"
    <3>1. PacketAt(s, p, p + len) /\ p + len \in p .. Len(s)
      <4>1. (p + len) - 1 = p + len - 1 /\ (p + len) - 2 = p + len - 2 /\ (p + len) - 3 = p + len - 3
        BY <1>0
      <4>2. \A m \in p + 1 .. (p + len) - 3 : s[m] \notin {"$", "#"}
        BY <2>1, <4>1 DEF Plain
      <4>3. p + len >= p + 3 /\ p + len \in p .. Len(s)
        BY <2>1, <1>0, SMTT(30)
      <4> QED
        BY <2>1, <2>3, <4>1, <4>2, <4>3 DEF PacketAt
    <3>2. TokenAt(s, p) = [rule |-> 3, end |-> p + len]
      BY <3>1, PacketToken
    <3>3. At(yy_accept, 12) = 3
      BY DEF At, yy_accept
    <3> QED
      BY <2>2, <2>3, <3>2, <3>3, <1>0 DEF Ends
  <2>4. CASE c # "HEX"
    <3>1. ASSUME NEW r \in p .. Len(s), PacketAt(s, p, r) PROVE FALSE
      <4> DEFINE h == p + len - 2
      <4>1. h \in Int /\ h >= p + 1 /\ s[h] \in {"$", "#"} /\ r \in Int /\ Plain(s, p + 1, h - 1)
        BY <1>0, <2>1
      <4>2. r = h + 2
        <5>1. p \in Int
          BY <1>0
        <5> HIDE DEF h
        <5> QED
          BY <5>1, <3>1, <4>1, FirstMark, Zenon
      <4>3. r = p + len
        BY <4>2, <1>0
      <4> QED
        BY <2>4, <4>3, <3>1 DEF PacketAt
    <3> QED
      BY <2>2, <2>4, <3>1, <1>11 DEF NoPacket, Jam
  <2> QED
    BY <2>3, <2>4
<1> QED
  BY <1>1, <1>4, <1>6, <1>10, <1>11 DEF Live

\* One character less: the automaton waited, in a state from which the last one
\* brought it.
LEMMA OneLess ==
  ASSUME NEW s \in Seq(Classes), NEW p \in 1 .. Len(s), NEW len \in Nat, p + len <= Len(s),
         NEW q, Live(q, s, p, len + 1)
  PROVE  \E r \in 1 .. 11 : Live(r, s, p, len) /\ Transition[r][Class(s[p + len])] = q
<1> DEFINE c == s[p + len]
<1>0. c \in Classes /\ Class(c) \in 0 .. 7 /\ p \in Nat /\ p + (len + 1) - 1 = p + len
  BY ElementOfSeq, ClassRange
<1>t. \A r \in {1, 6, 9, 10} : Transition[r][Class(c)] = At(At(Rows, r), Class(c))
  BY <1>0, TransitionTable
<1>1. CASE q \in {4, 6}
  <2>1. len = 0 /\ c = s[p] /\ (q = 4 => c = "NUL") /\ (q = 6 => c = "$")
    BY <1>0, <1>1 DEF Live
  <2>2. Live(1, s, p, len)
    BY <2>1 DEF Live
  <2>3. Transition[1][Class(c)] = q
    BY <1>1, <1>t, <2>1, Letters, <1>0 DEF At, Rows
  <2> QED
    BY <2>2, <2>3
<1>2. CASE q \in {9, 10}
  <2>1. /\ len >= 1 /\ s[p] = "$" /\ Plain(s, p + 1, p + len - 1)
        /\ q = 9 => c \notin {"$", "#"}
        /\ q = 10 => c = "#"
    <3>1. CASE q = 9
      <4>1. len >= 1 /\ s[p] = "$" /\ Plain(s, p + 1, p + len)
        BY <1>0, <3>1 DEF Live
      <4> QED
        BY <1>0, <3>1, <4>1 DEF Plain
    <3>2. CASE q = 10
      <4>1. p + (len + 1) - 2 = p + len - 1
        BY <1>0
      <4> QED
        BY <1>0, <3>2, <4>1 DEF Live
    <3> QED
      BY <1>2, <3>1, <3>2
  <2>2. \A r \in {6, 9} : Transition[r][Class(c)] = q
    <3>1. At(Rows, 6) = <<3, 9, 9, 10, 13, 9, 9, 9>> /\ At(Rows, 9) = <<3, 9, 9, 10, 13, 9, 9, 9>>
      BY DEF At, Rows
    <3>2. At(<<3, 9, 9, 10, 13, 9, 9, 9>>, Class(c)) = q
      BY <1>0, <1>2, <2>1, Letters, SMTT(30) DEF At, Classes
    <3> QED
      BY <1>t, <3>1, <3>2
  <2>3. CASE len = 1
    <3>1. Live(6, s, p, len)
      BY <2>1, <2>3 DEF Live
    <3> QED
      BY <2>2, <3>1
  <2>4. CASE len >= 2
    <3>1. Live(9, s, p, len)
      BY <2>1, <2>4 DEF Live
    <3> QED
      BY <2>2, <3>1
  <2> QED
    BY <2>1, <2>3, <2>4
<1>3. CASE q = 11
  <2>1. /\ len >= 2 /\ s[p] = "$" /\ c = "HEX" /\ s[p + len - 1] = "#" /\ Plain(s, p + 1, p + len - 2)
    <3>1. p + (len + 1) - 2 = p + len - 1 /\ p + (len + 1) - 3 = p + len - 2
      BY <1>0
    <3> QED
      BY <1>0, <1>3, <3>1 DEF Live
  <2>2. Live(10, s, p, len)
    BY <2>1 DEF Live
  <2>3. Transition[10][Class(c)] = q
    BY <1>3, <1>t, <2>1, Letters, <1>0, SMTT(30) DEF At, Rows
  <2> QED
    BY <2>2, <2>3
<1> QED
  BY <1>1, <1>2, <1>3 DEF Live

\* What yy_get_previous_state computes when the first len characters of the text
\* have been matched again.
RunStep(h, buf, first, last, p) ==
  IF p = first THEN [state |-> 1, last |-> last]
  ELSE LET r == h[p - 1]
       IN [state |-> Transition[r.state][Class(buf[p - 1])], last |-> Leaving(r.state, p - 1, r.last)]

IsRun(h, buf, first, len, last) ==
  h = [p \in first .. first + len |-> RunStep(h, buf, first, last, p)]

LEMMA RunExists ==
  ASSUME NEW buf, NEW first \in Nat, NEW len \in Nat, NEW last
  PROVE  \E h : IsRun(h, buf, first, len, last)
<1> DEFINE S == {n \in Nat : \E h : IsRun(h, buf, first, n, last)}
<1>1. 0 \in S
  <2> DEFINE h == [p \in first .. first + 0 |-> [state |-> 1, last |-> last]]
  <2>1. \A p \in first .. first + 0 : RunStep(h, buf, first, last, p) = [state |-> 1, last |-> last]
    BY DEF RunStep
  <2>2. h = [p \in first .. first + 0 |-> RunStep(h, buf, first, last, p)]
    BY <2>1
  <2>3. IsRun(h, buf, first, 0, last)
    BY <2>2 DEF IsRun
  <2> QED
    BY <2>3
<1>2. ASSUME NEW n \in S PROVE n + 1 \in S
  <2>1. PICK h : IsRun(h, buf, first, n, last)
    BY <1>2
  <2> DEFINE k == [p \in first .. first + (n + 1) |-> RunStep(h, buf, first, last, p)]
  <2>2. \A p \in first .. first + n : k[p] = h[p]
    BY <2>1 DEF IsRun
  <2>3. ASSUME NEW p \in first .. first + (n + 1)
        PROVE  RunStep(k, buf, first, last, p) = RunStep(h, buf, first, last, p)
    <3>1. p # first => p - 1 \in first .. first + n
      OBVIOUS
    <3>2. p # first => k[p - 1] = h[p - 1]
      BY <2>2, <3>1
    <3> HIDE DEF k
    <3> QED
      BY <3>2 DEF RunStep
  <2>4. k = [p \in first .. first + (n + 1) |-> RunStep(k, buf, first, last, p)]
    <3>1. k = [p \in first .. first + (n + 1) |-> RunStep(h, buf, first, last, p)]
      OBVIOUS
    <3> HIDE DEF k
    <3> QED
      BY <3>1, <2>3
  <2>5. IsRun(k, buf, first, n + 1, last)
    BY <2>4 DEF IsRun
  <2> HIDE DEF k
  <2> QED
    BY <2>5
<1>3. S = Nat
  <2> HIDE DEF S
  <2>1. S \subseteq Nat
    BY DEF S
  <2> QED
    BY <1>1, <1>2, <2>1, SetInduction
<1> QED
  BY <1>3

\* The len characters of s from p on are in the buffer from first on.
Copied(s, p, len, buf, first) == \A i \in 0 .. len - 1 : buf[first + i] = s[p + i]

Found(q, len, first, last) ==
  [state |-> q, last |-> IF len <= 1 THEN last ELSE [state |-> 6, cpos |-> first + 1]]

\* The state in which a text that waits leaves the automaton, and the state it
\* left last that accepts something.
LEMMA RescannedText ==
  ASSUME NEW s, NEW p, NEW len, NEW q, NEW buf, NEW first, NEW last,
         s \in Seq(Classes), p \in Nat, p >= 1, len \in Nat, p + len <= Len(s) + 1,
         Live(q, s, p, len), first \in Nat, Copied(s, p, len, buf, first)
  PROVE  Rescanned(buf, first, first + len, last) = Found(q, len, first, last)
<1> USE DEF Copied, Found
<1> DEFINE h == CHOOSE h : IsRun(h, buf, first, len, last)
<1>1. IsRun(h, buf, first, len, last)
  BY RunExists
<1>2. Rescanned(buf, first, first + len, last) = h[first + len]
  BY DEF Rescanned, IsRun, RunStep, Class
<1> HIDE DEF h
<1>3. \A x \in first .. first + len : h[x] = RunStep(h, buf, first, last, x)
  BY <1>1 DEF IsRun
<1> DEFINE After(i) == IF i <= 1 THEN last ELSE [state |-> 6, cpos |-> first + 1]
           S == {i \in Nat : i <= len =>
                   \A r : Live(r, s, p, i) => h[first + i] = [state |-> r, last |-> After(i)]}
<1>4. 0 \in S
  <2>1. h[first + 0] = [state |-> 1, last |-> last]
    <3>1. first + 0 = first /\ first \in first .. first + len
      OBVIOUS
    <3>2. h[first] = RunStep(h, buf, first, last, first)
      BY <1>3, <3>1
    <3> QED
      BY <3>1, <3>2 DEF RunStep
  <2> QED
    BY <2>1 DEF Live
<1>5. ASSUME NEW i \in S PROVE i + 1 \in S
  <2> SUFFICES ASSUME i + 1 <= len, NEW r, Live(r, s, p, i + 1)
               PROVE  h[first + (i + 1)] = [state |-> r, last |-> After(i + 1)]
    OBVIOUS
  <2>1. p \in 1 .. Len(s) /\ p + i <= Len(s) /\ i \in Nat
    OBVIOUS
  <2>2. PICK r0 \in 1 .. 11 : Live(r0, s, p, i) /\ Transition[r0][Class(s[p + i])] = r
    <3>1. p \in 1 .. Len(s) /\ i \in Nat /\ p + i <= Len(s) /\ Live(r, s, p, i + 1)
      BY <2>1
    <3> HIDE DEF S
    <3>2. \A x \in 1 .. Len(s), n \in Nat : x + n <= Len(s) =>
            \A z : Live(z, s, x, n + 1) =>
              \E r0 \in 1 .. 11 : Live(r0, s, x, n) /\ Transition[r0][Class(s[x + n])] = z
      BY OneLess
    <3> QED
      BY <3>1, <3>2, ZenonT(30)
  <2>3. h[first + i] = [state |-> r0, last |-> After(i)]
    BY <2>2
  <2>4. buf[first + i] = s[p + i]
    BY <2>1
  <2>5. h[first + (i + 1)] = RunStep(h, buf, first, last, first + (i + 1))
    BY <1>3
  <2>6. first + (i + 1) # first /\ (first + (i + 1)) - 1 = first + i
    OBVIOUS
  <2> HIDE DEF After
  <2>7. h[first + (i + 1)] = [state |-> r, last |-> Leaving(r0, first + i, After(i))]
    BY <2>2, <2>3, <2>4, <2>5, <2>6 DEF RunStep
  <2>8. Leaving(r0, first + i, After(i)) = After(i + 1)
    <3>1. i = 0 => r0 = 1
      BY <2>2 DEF Live
    <3>2. i = 1 => r0 \in {4, 6}
      BY <2>2 DEF Live
    <3>3. i >= 2 => r0 \in {9, 10, 11}
      BY <2>2 DEF Live
    <3>4. i = 1 => r0 = 6
      <4> SUFFICES ASSUME i = 1, r0 = 4 PROVE FALSE
        BY <3>2
      <4>1. s[p] = "NUL"
        BY <2>2 DEF Live
      <4>2. i + 1 = 2
        OBVIOUS
      <4>3. s[p] = "$"
        BY <4>2 DEF Live
      <4> QED
        BY <4>1, <4>3
    <3>5. Accepting(6) /\ \A x \in {1, 9, 10, 11} : ~Accepting(x)
      BY DEF Accepting, At, yy_accept
    <3> QED
      BY <3>1, <3>3, <3>4, <3>5 DEF Leaving, After
  <2> QED
    BY <2>7, <2>8
<1>6. S = Nat
  <2> HIDE DEF S
  <2>1. S \subseteq Nat
    BY DEF S
  <2> QED
    BY <1>4, <1>5, <2>1, SetInduction
<1>7. h[first + len] = [state |-> q, last |-> After(len)]
  <2>1. len \in S
    BY <1>6
  <2> HIDE DEF After
  <2> QED
    BY <2>1
<1> QED
  BY <1>2, <1>7

\* What is known of the text by the number of its characters.
LEMMA LiveShape ==
  ASSUME NEW s, NEW p, NEW len \in Nat, NEW q, Live(q, s, p, len)
  PROVE  /\ q \in {1, 4, 6, 9, 10, 11}
         /\ len = 0 <=> q = 1
         /\ len >= 1 => s[p] \in {"$", "NUL"}
         /\ len = 1 => q \in {4, 6}
         /\ len >= 2 => q \in {9, 10, 11} /\ s[p] = "$"
BY DEF Live

LEMMA LiveOfWaits ==
  ASSUME NEW s, NEW p, NEW len \in Nat
  PROVE  (\E q : Live(q, s, p, len)) <=> Waits(s, p, len)
<1>1. ASSUME NEW q, Live(q, s, p, len) PROVE q \in 1 .. 11
  BY <1>1, LiveShape
<1> QED
  BY <1>1 DEF Waits

\* What waits at the end of the stream begins no packet.
LEMMA WaitsAtEnd ==
  ASSUME NEW s \in Seq(Classes), NEW p \in 1 .. Len(s), NEW len \in Nat, p + len - 1 = Len(s),
         NEW q, Live(q, s, p, len)
  PROVE  NoPacket(s, p)
<1> SUFFICES ASSUME NEW r \in p .. Len(s), PacketAt(s, p, r) PROVE FALSE
  BY DEF NoPacket
<1>1. /\ r \in Int /\ p \in Int /\ len \in Int /\ r <= p + len - 1 /\ r >= p + 3
      /\ s[p] = "$" /\ s[r - 2] = "#"
  BY DEF PacketAt
<1>2. CASE q \in {1, 4, 6}
  BY <1>1, <1>2 DEF Live
<1>3. CASE q = 9
  <2>1. Plain(s, p + 1, p + len - 1) /\ r - 2 \in p + 1 .. p + len - 1
    BY <1>1, <1>3 DEF Live
  <2> QED
    BY <1>1, <2>1 DEF Plain
<1>4. CASE q \in {10, 11}
  <2>1. \E h \in {p + len - 1, p + len - 2} :
          h \in Int /\ h >= p + 1 /\ s[h] \in {"$", "#"} /\ Plain(s, p + 1, h - 1)
    <3>1. CASE q = 10
      <4>1. len >= 2 /\ s[p + len - 1] = "#" /\ Plain(s, p + 1, p + len - 2)
        BY <3>1 DEF Live
      <4>2. (p + len - 1) - 1 = p + len - 2
        BY <1>1
      <4> QED
        BY <1>1, <4>1, <4>2
    <3>2. CASE q = 11
      <4>1. len >= 3 /\ s[p + len - 2] = "#" /\ Plain(s, p + 1, p + len - 3)
        BY <3>2 DEF Live
      <4>2. (p + len - 2) - 1 = p + len - 3
        BY <1>1
      <4> QED
        BY <1>1, <4>1, <4>2
    <3> QED
      BY <1>4, <3>1, <3>2
  <2>2. PICK h \in {p + len - 1, p + len - 2} :
          h \in Int /\ h >= p + 1 /\ s[h] \in {"$", "#"} /\ Plain(s, p + 1, h - 1)
    BY <2>1
  <2>3. r = h + 2
    BY <1>1, <2>2, FirstMark
  <2> QED
    BY <1>1, <2>2, <2>3
<1> QED
  BY <1>2, <1>3, <1>4, LiveShape

\* When what waited begins no packet, its first character is the token.
LEMMA FirstAlone ==
  ASSUME NEW s, NEW p, NoPacket(s, p), s[p] \in {"$", "NUL"}, p \in Int, NEW q \in {4, 6}
  PROVE  Ends(q, s, p, 1)
<1>1. TokenAt(s, p) = [rule |-> 4, end |-> p]
  BY SingleToken
<1>2. At(yy_accept, q) = 4
  BY DEF At, yy_accept
<1> QED
  BY <1>1, <1>2 DEF Ends

LEMMA TokenRange ==
  ASSUME NEW s \in Seq(Classes), NEW p \in 1 .. Len(s)
  PROVE  TokenAt(s, p).end \in p .. Len(s) /\ TokenAt(s, p).rule \in 0 .. 6
<1>1. CASE NoPacket(s, p)
  BY <1>1, SingleToken
<1>2. CASE ~NoPacket(s, p)
  <2>1. PICK q \in p .. Len(s) : PacketAt(s, p, q)
    BY <1>2 DEF NoPacket
  <2> QED
    BY <2>1, PacketToken
<1> QED
  BY <1>1, <1>2

TokenText(s, p) == [rule |-> TokenAt(s, p).rule, text |-> SubSeq(s, p, TokenAt(s, p).end)]

FromStep(f, s, p) ==
  IF p > Len(s) THEN <<>> ELSE <<TokenText(s, p)>> \o f[TokenAt(s, p).end + 1]

IsFrom(f, s) == f = [p \in 1 .. Len(s) + 1 |-> FromStep(f, s, p)]

LEMMA FromExists ==
  ASSUME NEW s \in Seq(Classes)
  PROVE  \E f : IsFrom(f, s)
<1> DEFINE L == Len(s)
           D(n) == {p \in 1 .. L + 1 : p + n >= L + 1}
           Sol(f, n) == f = [p \in D(n) |-> FromStep(f, s, p)]
           S == {n \in Nat : \E f : Sol(f, n)}
<1>0. L \in Nat
  OBVIOUS
<1>1. 0 \in S
  <2> DEFINE f == [p \in D(0) |-> <<>>]
  <2>1. \A p \in D(0) : FromStep(f, s, p) = <<>>
    BY DEF FromStep
  <2>2. f = [p \in D(0) |-> FromStep(f, s, p)]
    BY <2>1
  <2>3. Sol(f, 0)
    BY <2>2
  <2> HIDE DEF f, Sol
  <2> QED
    BY <2>3
<1>2. ASSUME NEW n \in S PROVE n + 1 \in S
  <2>1. PICK f : Sol(f, n)
    BY <1>2
  <2> DEFINE k == [p \in D(n + 1) |-> FromStep(f, s, p)]
  <2>2. \A p \in D(n) : p \in D(n + 1) /\ k[p] = f[p]
    <3>1. \A p \in D(n) : p \in D(n + 1)
      OBVIOUS
    <3>2. \A p \in D(n) : f[p] = FromStep(f, s, p)
      BY <2>1
    <3> HIDE DEF D
    <3> QED
      BY <3>1, <3>2
  <2>3. ASSUME NEW p \in D(n + 1) PROVE FromStep(k, s, p) = FromStep(f, s, p)
    <3>1. p \in 1 .. Len(s) => TokenAt(s, p).end + 1 \in D(n)
      BY TokenRange
    <3>2. p \in 1 .. Len(s) \/ p > Len(s)
      OBVIOUS
    <3> HIDE DEF k, D
    <3> QED
      BY <2>2, <3>1, <3>2 DEF FromStep
  <2>4. k = [p \in D(n + 1) |-> FromStep(k, s, p)]
    <3>1. k = [p \in D(n + 1) |-> FromStep(f, s, p)]
      OBVIOUS
    <3> HIDE DEF k, D
    <3> QED
      BY <3>1, <2>3
  <2>5. Sol(k, n + 1)
    BY <2>4
  <2> HIDE DEF k, Sol
  <2> QED
    BY <2>5
<1>3. S = Nat
  <2> HIDE DEF S
  <2>1. S \subseteq Nat
    BY DEF S
  <2> QED
    BY <1>1, <1>2, <2>1, SetInduction
<1>4. PICK f : Sol(f, L)
  BY <1>0, <1>3
<1>5. D(L) = 1 .. Len(s) + 1
  BY <1>0
<1> HIDE DEF D
<1> QED
  BY <1>4, <1>5 DEF IsFrom

\* The tokens from a position on: the one that begins there, then the others.
LEMMA FromUnfolds ==
  ASSUME NEW s \in Seq(Classes)
  PROVE  /\ From(s)[Len(s) + 1] = <<>>
         /\ \A p \in 1 .. Len(s) : From(s)[p] = <<TokenText(s, p)>> \o From(s)[TokenAt(s, p).end + 1]
         /\ Tokens(s) = From(s)[1]
<1> DEFINE f == CHOOSE f : IsFrom(f, s)
<1>1. IsFrom(f, s)
  BY FromExists
<1>2. From(s) = f
  BY DEF From, IsFrom, FromStep, TokenText
<1>3. Tokens(s) = f[1]
  BY DEF Tokens, IsFrom, FromStep, TokenText
<1> HIDE DEF f
<1>4. Len(s) \in Nat
  OBVIOUS
<1>5. \A p \in 1 .. Len(s) + 1 : f[p] = FromStep(f, s, p)
  BY <1>1 DEF IsFrom
<1>6. f[Len(s) + 1] = <<>>
  <2>1. Len(s) + 1 \in 1 .. Len(s) + 1 /\ Len(s) + 1 > Len(s)
    BY <1>4
  <2>2. f[Len(s) + 1] = FromStep(f, s, Len(s) + 1)
    BY <1>5, <2>1, Zenon
  <2> QED
    BY <2>1, <2>2, Zenon DEF FromStep
<1>7. ASSUME NEW p \in 1 .. Len(s)
      PROVE  f[p] = <<TokenText(s, p)>> \o f[TokenAt(s, p).end + 1]
  <2>1. p \in 1 .. Len(s) + 1 /\ ~ (p > Len(s))
    BY <1>4
  <2>2. f[p] = FromStep(f, s, p)
    BY <1>5, <2>1, Zenon
  <2> QED
    BY <2>1, <2>2, Zenon DEF FromStep
<1> QED
  BY <1>2, <1>3, <1>6, <1>7

TokenRecords == [rule : 0 .. 6, text : Seq(Classes)]

LEMMA TokenTextType ==
  ASSUME NEW s \in Seq(Classes), NEW p \in 1 .. Len(s)
  PROVE  TokenText(s, p) \in TokenRecords
<1> DEFINE e == TokenAt(s, p).end
<1>1. e \in p .. Len(s) /\ TokenAt(s, p).rule \in 0 .. 6
  BY TokenRange
<1> HIDE DEF e
<1>2. \A i \in p .. e : s[i] \in Classes
  BY <1>1, ElementOfSeq
<1>3. SubSeq(s, p, e) \in Seq(Classes)
  BY <1>1, <1>2, SubSeqProperties
<1> QED
  BY <1>1, <1>3 DEF TokenText, TokenRecords, e

LEMMA FromType ==
  ASSUME NEW s \in Seq(Classes)
  PROVE  \A p \in 1 .. Len(s) + 1 : From(s)[p] \in Seq(TokenRecords)
<1> DEFINE L == Len(s)
           S == {n \in Nat : \A p \in 1 .. L + 1 : p + n >= L + 1 => From(s)[p] \in Seq(TokenRecords)}
<1>0. L \in Nat
  OBVIOUS
<1>1. 0 \in S
  <2>1. From(s)[L + 1] = <<>> /\ <<>> \in Seq(TokenRecords)
    BY FromUnfolds, EmptySeq
  <2>2. \A p \in 1 .. L + 1 : p + 0 >= L + 1 => p = L + 1
    BY <1>0
  <2> QED
    BY <2>1, <2>2, Zenon
<1>2. ASSUME NEW n \in S PROVE n + 1 \in S
  <2> SUFFICES ASSUME NEW p \in 1 .. L + 1, p + (n + 1) >= L + 1
               PROVE  From(s)[p] \in Seq(TokenRecords)
    OBVIOUS
  <2>1. CASE p = L + 1
    BY <2>1, FromUnfolds, EmptySeq
  <2>2. CASE p \in 1 .. L
    <3> DEFINE e == TokenAt(s, p).end + 1
    <3>1. e \in 1 .. L + 1 /\ e + n >= L + 1
      BY <1>0, <2>2, TokenRange
    <3>2. From(s)[e] \in Seq(TokenRecords)
      BY <3>1
    <3>3. <<TokenText(s, p)>> \in Seq(TokenRecords)
      BY <2>2, TokenTextType
    <3>4. From(s)[p] = <<TokenText(s, p)>> \o From(s)[e]
      BY <2>2, FromUnfolds
    <3> HIDE DEF e
    <3> QED
      BY <3>2, <3>3, <3>4, ConcatProperties
  <2> QED
    BY <1>0, <2>1, <2>2
<1>3. S = Nat
  <2> HIDE DEF S
  <2>1. S \subseteq Nat
    BY DEF S
  <2> QED
    BY <1>1, <1>2, <2>1, SetInduction
<1>4. \A p \in 1 .. L + 1 : p + L >= L + 1
  BY <1>0
<1> QED
  BY <1>0, <1>3, <1>4

\* A token that was made is the next of those that were left.
LEMMA NextToken ==
  ASSUME NEW s \in Seq(Classes), NEW p \in 1 .. Len(s), NEW ts \in Seq(TokenRecords),
         Tokens(s) = ts \o From(s)[p]
  PROVE  /\ Append(ts, TokenText(s, p)) \in Seq(TokenRecords)
         /\ Tokens(s) = Append(ts, TokenText(s, p)) \o From(s)[TokenAt(s, p).end + 1]
<1> DEFINE e == TokenAt(s, p).end + 1
           t == TokenText(s, p)
           rest == From(s)[e]
<1>1. e \in 1 .. Len(s) + 1
  BY TokenRange
<1>2. rest \in Seq(TokenRecords) /\ t \in TokenRecords
  BY <1>1, FromType, TokenTextType
<1>3. From(s)[p] = <<t>> \o rest
  BY FromUnfolds
<1> HIDE DEF t, rest
<1>4. <<t>> \in Seq(TokenRecords) /\ Append(ts, t) \in Seq(TokenRecords)
  BY <1>2
<1>5. ts \o (<<t>> \o rest) = (ts \o <<t>>) \o rest
  BY <1>2, <1>4, ConcatAssociative, SMTT(30)
<1>6. ts \o <<t>> = Append(ts, t)
  BY <1>2, AppendIsConcat
<1> QED
  BY <1>3, <1>4, <1>5, <1>6 DEF t, rest
-----------------------------------------------------------------------------
(***************************************************************************)
(* The buffer.                                                             *)
(***************************************************************************)
IsDoubled(d, m) == d = [size \in Nat |-> IF size - m - 1 > 0 THEN size ELSE d[2 * size]]

LEMMA DoubledExists ==
  ASSUME NEW m \in Nat
  PROVE  \E d : IsDoubled(d, m)
<1> DEFINE D(n) == {z \in Nat : z = 0 \/ z + n >= m + 2}
           Sol(d, n) == d = [z \in D(n) |-> IF z - m - 1 > 0 THEN z ELSE d[2 * z]]
           S == {n \in Nat : \E d : Sol(d, n)}
<1>1. 0 \in S
  <2> DEFINE d == [z \in D(0) |-> z]
  <2>1. \A z \in D(0) : z - m - 1 > 0 \/ (z = 0 /\ 2 * z = 0)
    OBVIOUS
  <2>2. \A z \in D(0) : d[z] = z
    OBVIOUS
  <2>3. \A z \in D(0) : z = (IF z - m - 1 > 0 THEN z ELSE d[2 * z])
    <3> HIDE DEF d, D
    <3> QED
      BY <2>1, <2>2
  <2>4. d = [z \in D(0) |-> IF z - m - 1 > 0 THEN z ELSE d[2 * z]]
    <3>1. d = [z \in D(0) |-> z]
      OBVIOUS
    <3> HIDE DEF d, D
    <3> QED
      BY <2>3, <3>1
  <2>5. Sol(d, 0)
    BY <2>4
  <2> HIDE DEF d, Sol
  <2> QED
    BY <2>5
<1>2. ASSUME NEW n \in S PROVE n + 1 \in S
  <2>1. PICK d : Sol(d, n)
    BY <1>2
  <2> DEFINE e == [z \in D(n + 1) |-> IF z - m - 1 > 0 THEN z ELSE d[2 * z]]
  <2>2. \A z \in D(n) : z \in D(n + 1) /\ e[z] = d[z]
    <3>1. \A z \in D(n) : z \in D(n + 1)
      OBVIOUS
    <3>2. \A z \in D(n) : d[z] = IF z - m - 1 > 0 THEN z ELSE d[2 * z]
      BY <2>1
    <3> HIDE DEF D
    <3> QED
      BY <3>1, <3>2
  <2>3. \A z \in D(n + 1) : z - m - 1 > 0 \/ 2 * z \in D(n)
    OBVIOUS
  <2>4. \A z \in D(n + 1) : (IF z - m - 1 > 0 THEN z ELSE d[2 * z])
                            = (IF z - m - 1 > 0 THEN z ELSE e[2 * z])
    <3> HIDE DEF D, e
    <3> QED
      BY <2>2, <2>3
  <2>5. e = [z \in D(n + 1) |-> IF z - m - 1 > 0 THEN z ELSE e[2 * z]]
    <3>1. e = [z \in D(n + 1) |-> IF z - m - 1 > 0 THEN z ELSE d[2 * z]]
      OBVIOUS
    <3> HIDE DEF e, D
    <3> QED
      BY <3>1, <2>4
  <2>6. Sol(e, n + 1)
    BY <2>5
  <2> HIDE DEF e, Sol
  <2> QED
    BY <2>6
<1>3. S = Nat
  <2> HIDE DEF S
  <2>1. S \subseteq Nat
    BY DEF S
  <2> QED
    BY <1>1, <1>2, <2>1, SetInduction
<1>4. PICK d : Sol(d, m + 2)
  <2>1. m + 2 \in S
    <3> HIDE DEF S
    <3> QED
      BY <1>3
  <2> HIDE DEF Sol
  <2> QED
    BY <2>1
<1>5. D(m + 2) = Nat
  OBVIOUS
<1> HIDE DEF D
<1> QED
  BY <1>4, <1>5 DEF IsDoubled

\* The buffer that doubles has room for a character, and loses nothing.
LEMMA GrownFits ==
  ASSUME Matched \in Nat, yy_buf_size \in Nat \ {0}
  PROVE  Grown \in Nat /\ Grown >= yy_buf_size /\ Grown - Matched - 1 > 0
<1>1. PICK m \in Nat : m = Matched
  OBVIOUS
<1>2. PICK z0 \in Nat \ {0} : z0 = yy_buf_size
  OBVIOUS
<1> DEFINE d == CHOOSE d : IsDoubled(d, m)
<1>3. IsDoubled(d, m)
  BY DoubledExists
<1>4. Grown = d[z0]
  BY <1>1, <1>2 DEF Grown, IsDoubled
<1> HIDE DEF d
<1>5. \A z \in Nat : d[z] = IF z - m - 1 > 0 THEN z ELSE d[2 * z]
  BY <1>3 DEF IsDoubled
<1> DEFINE S == {n \in Nat : \A z \in Nat \ {0} : z + n >= m + 2 =>
                               d[z] \in Nat /\ d[z] >= z /\ d[z] - m - 1 > 0}
<1>6. 0 \in S
  BY <1>5
<1>7. ASSUME NEW n \in S PROVE n + 1 \in S
  <2> SUFFICES ASSUME NEW z \in Nat \ {0}, z + (n + 1) >= m + 2
               PROVE  d[z] \in Nat /\ d[z] >= z /\ d[z] - m - 1 > 0
    OBVIOUS
  <2>1. CASE z - m - 1 > 0
    BY <1>5, <2>1
  <2>2. CASE ~ (z - m - 1 > 0)
    <3>1. 2 * z \in Nat \ {0} /\ 2 * z + n >= m + 2 /\ 2 * z >= z
      OBVIOUS
    <3>2. d[2 * z] \in Nat /\ d[2 * z] >= 2 * z /\ d[2 * z] - m - 1 > 0
      BY <3>1
    <3>3. d[z] = d[2 * z]
      BY <1>5, <2>2
    <3> QED
      BY <3>1, <3>2, <3>3
  <2> QED
    BY <2>1, <2>2
<1>8. S = Nat
  <2> HIDE DEF S
  <2>1. S \subseteq Nat
    BY DEF S
  <2> QED
    BY <1>6, <1>7, <2>1, SetInduction
<1>9. m + 2 \in S /\ z0 + (m + 2) >= m + 2
  BY <1>8
<1>10. d[z0] \in Nat /\ d[z0] >= z0 /\ d[z0] - m - 1 > 0
  BY <1>9
<1> QED
  BY <1>1, <1>2, <1>4, <1>10

LEMMA PutFacts ==
  ASSUME NEW D, NEW X, NEW b \in [D -> X], NEW i \in D, NEW v \in X
  PROVE  /\ Put(b, i, v) \in [D -> X]
         /\ Put(b, i, v)[i] = v
         /\ \A j \in D : j # i => Put(b, i, v)[j] = b[j]
BY DEF Put

LEMMA PutBack ==
  ASSUME NEW D, NEW X, NEW b \in [D -> X], NEW i \in D, NEW v
  PROVE  Put(Put(b, i, v), i, b[i]) = b
BY DEF Put

Chars == Classes \cup {"unset"}

LEMMA EndAtFacts ==
  ASSUME NEW size \in Nat, NEW b \in [Cells(size) -> Chars], NEW n \in Nat, n <= size
  PROVE  /\ EndAt(b, n) \in [Cells(size) -> Chars]
         /\ EndAt(b, n)[n] = "NUL" /\ EndAt(b, n)[n + 1] = "NUL"
         /\ \A i \in 0 .. n - 1 : EndAt(b, n)[i] = b[i]
<1>1. n \in Cells(size) /\ n + 1 \in Cells(size) /\ n # n + 1 /\ "NUL" \in Chars
  BY DEF Cells, Chars, Classes
<1>2. /\ Put(b, n, "NUL") \in [Cells(size) -> Chars]
      /\ Put(b, n, "NUL")[n] = "NUL"
      /\ \A j \in Cells(size) : j # n => Put(b, n, "NUL")[j] = b[j]
  BY <1>1, PutFacts
<1> DEFINE c == Put(b, n, "NUL")
<1> HIDE DEF c
<1>3. c \in [Cells(size) -> Chars]
  BY <1>2 DEF c
<1>4. /\ Put(c, n + 1, "NUL") \in [Cells(size) -> Chars]
      /\ Put(c, n + 1, "NUL")[n + 1] = "NUL"
      /\ \A j \in Cells(size) : j # n + 1 => Put(c, n + 1, "NUL")[j] = c[j]
  <2> PICK k \in Cells(size) : k = n + 1
    BY <1>1
  <2> PICK e \in [Cells(size) -> Chars] : e = c
    BY <1>3
  <2>1. "NUL" \in Chars
    BY <1>1
  <2>2. /\ Put(e, k, "NUL") \in [Cells(size) -> Chars]
        /\ Put(e, k, "NUL")[k] = "NUL"
        /\ \A j \in Cells(size) : j # k => Put(e, k, "NUL")[j] = e[j]
    BY <2>1 DEF Put
  <2> QED
    BY <2>2
<1>5. EndAt(b, n) = Put(c, n + 1, "NUL")
  BY DEF EndAt, YY_END_OF_BUFFER_CHAR, c
<1>6. \A i \in 0 .. n - 1 : i \in Cells(size) /\ i # n /\ i # n + 1
  BY DEF Cells
<1> QED
  BY <1>1, <1>2, <1>4, <1>5, <1>6 DEF c
-----------------------------------------------------------------------------
(***************************************************************************)
(* The invariant: the initial states, and the calls.                       *)
(***************************************************************************)
LEMMA StreamIsSeq ==
  ASSUME Numbers
  PROVE  stream \in Seq(Classes) /\ Len(stream) \in Nat
BY StreamsAssumption DEF Numbers

\* The steps that leave the text of the token where it is.
LEMMA TextStays ==
  ASSUME IInv, HasBuffer,
         UNCHANGED <<stream, taken, yy_buf_size, yy_n_chars, buf_n_chars, blocks, tokens, eofs>>,
         Seen' = Seen, Start' = Start, yy_ch_buf' \in [Cells(yy_buf_size) -> Chars],
         yytext' <= yy_c_buf_p', yy_c_buf_p' <= yy_n_chars + 1,
         yy_buffer_status' \in {yy_buffer_status, "NORMAL"},
         pc' \in Phases \ {"absent"}, Inside' => eofs <= MaxEofs
  PROVE  Cut' = Cut /\ Life' /\ Contents' /\ Done'
<1>1. Cut' = Cut
  BY DEF Cut
<1>2. Life'
  BY DEF IInv, Life, HasBuffer, Inside
<1>3. Contents'
  BY DEF IInv, Contents, HasBuffer, Chars
<1>4. Done'
  BY <1>1 DEF IInv, Done
<1> QED
  BY <1>1, <1>2, <1>3, <1>4

\* A character of the text, in the buffer and in the stream.
LEMMA CharOfText ==
  ASSUME IInv, HasBuffer, NEW i \in Nat, Start <= i, i < yy_n_chars
  PROVE  /\ Seen[i] = stream[(Cut + 1) + (i - Start)] /\ Seen[i] \in Classes
         /\ (Cut + 1) + (i - Start) \in 1 .. Len(stream)
<1>1. /\ taken \in 0 .. Len(stream) /\ yy_n_chars \in Nat /\ Start \in Nat /\ Cut \in 0 .. taken
      /\ Len(stream) \in Nat /\ stream \in Seq(Classes)
  BY StreamIsSeq DEF IInv, Numbers, Start, Done
<1>2. Seen[i] = stream[taken - yy_n_chars + i + 1]
  BY <1>1 DEF IInv, Contents
<1>3. taken - yy_n_chars + i + 1 = (Cut + 1) + (i - Start)
  BY <1>1 DEF Cut
<1>4. (Cut + 1) + (i - Start) \in 1 .. Len(stream)
  BY <1>1 DEF Cut
<1>5. stream[(Cut + 1) + (i - Start)] \in Classes
  BY <1>1, <1>4, ElementOfSeq
<1> QED
  BY <1>2, <1>3, <1>4, <1>5

LEMMA InitInv == Init => IInv
<1> SUFFICES ASSUME Init PROVE IInv
  OBVIOUS
<1>0. stream \in Seq(Classes) /\ Len(stream) \in Nat
  BY StreamsAssumption DEF Init
<1>1. Numbers
  BY <1>0 DEF Init, Numbers, Phases, YY_END_OF_BUFFER_CHAR, Classes
<1>2. Life
  BY EofsAssumption DEF Init, Life, HasBuffer, Inside
<1>3. Contents
  BY DEF Init, Contents, HasBuffer
<1>4. Progress
  BY DEF Init, Progress
<1>5. Done
  <2>1. Cut = 0
    BY DEF Init, Cut, Start
  <2>2. tokens \in Seq([rule : 0 .. 6, text : Seq(Classes)])
    BY EmptySeq DEF Init
  <2>3. FlattenSeq(Texts(tokens)) = <<>>
    <3>1. Texts(tokens) = <<>>
      BY DEF Init, Texts
    <3> QED
      BY <3>1 DEF FlattenSeq
  <2>4. SubSeq(stream, 1, 0) = <<>>
    BY SubSeqEmpty
  <2>5. Tokens(stream) = tokens \o From(stream)[0 + 1]
    <3>1. From(stream)[1] \in Seq(TokenRecords)
      BY <1>0, FromType
    <3>2. Tokens(stream) = From(stream)[1]
      BY <1>0, FromUnfolds
    <3> QED
      BY <3>1, <3>2, ConcatEmptySeq DEF Init
  <2>6. Cut \in 0 .. taken /\ ~ (eofs > 0)
    BY <2>1 DEF Init
  <2>7. FlattenSeq(Texts(tokens)) = SubSeq(stream, 1, Cut)
    BY <2>1, <2>3, <2>4
  <2>8. Tokens(stream) = tokens \o From(stream)[Cut + 1]
    BY <2>1, <2>5
  <2> QED
    BY <2>2, <2>6, <2>7, <2>8, Zenon DEF Done
<1> QED
  BY <1>1, <1>2, <1>3, <1>4, <1>5 DEF IInv

LEMMA InitScannerInv == IInv /\ InitScanner => IInv'
<1> SUFFICES ASSUME IInv, InitScanner PROVE IInv'
  OBVIOUS
<1> USE DEF InitScanner, input, buffer, pointers, match, output
<1>1. Numbers'
  BY DEF IInv, Numbers, Phases
<1>2. Life'
  BY DEF IInv, Life, HasBuffer, Inside
<1>3. Contents'
  BY <1>2 DEF IInv, Life, Contents, HasBuffer
<1>4. Progress'
  BY DEF Progress, HasBuffer
<1>5. Done'
  <2>1. Cut' = Cut
    BY DEF Cut, Start
  <2> QED
    BY <2>1 DEF IInv, Done
<1> QED
  BY <1>1, <1>2, <1>3, <1>4, <1>5 DEF IInv

LEMMA FirstCallInv == IInv /\ FirstCall => IInv'
<1> SUFFICES ASSUME IInv, FirstCall PROVE IInv'
  OBVIOUS
<1> USE DEF FirstCall, CreateBuffer, input, match, output
<1>0. /\ ~HasBuffer /\ taken = 0 /\ yy_n_chars = 0 /\ yy_c_buf_p = 0 /\ eofs = 0
      /\ YY_BUF_SIZE \in Nat \ {0}
  BY BufferAssumption DEF IInv, Life
<1>1. Numbers'
  BY DEF IInv, Numbers, Phases, YY_END_OF_BUFFER_CHAR, Classes
<1>2. Life'
  BY <1>0, EofsAssumption DEF IInv, Life, HasBuffer, Inside
<1>3. Contents'
  <2> DEFINE unset == [p \in Cells(YY_BUF_SIZE) |-> "unset"]
  <2>1. unset \in [Cells(YY_BUF_SIZE) -> Chars]
    BY DEF Chars
  <2> HIDE DEF unset
  <2>2. /\ yy_ch_buf' \in [Cells(YY_BUF_SIZE) -> Chars]
        /\ yy_ch_buf'[0] = "NUL" /\ yy_ch_buf'[0 + 1] = "NUL"
    BY <1>0, <2>1, EndAtFacts DEF unset
  <2>3. 0 \in Cells(YY_BUF_SIZE) /\ 1 \in Cells(YY_BUF_SIZE)
    BY <1>0 DEF Cells
  <2>4. Seen' = Put(yy_ch_buf', 0, "NUL")
    BY DEF Seen, YY_END_OF_BUFFER_CHAR
  <2>5. Seen'[0] = "NUL" /\ Seen'[1] = "NUL"
    BY <2>2, <2>3, <2>4 DEF Put
  <2>6. Start' = 0
    BY DEF Start
  <2> QED
    BY <1>0, <2>2, <2>5, <2>6 DEF Contents, Chars
<1>4. Progress'
  BY DEF Progress
<1>5. Done'
  <2>1. Cut' = Cut
    BY <1>0 DEF Cut, Start
  <2> QED
    BY <2>1 DEF IInv, Done
<1> QED
  BY <1>1, <1>2, <1>3, <1>4, <1>5 DEF IInv

LEMMA CallInv == IInv /\ Call => IInv'
<1> SUFFICES ASSUME IInv, Call PROVE IInv'
  OBVIOUS
<1> USE DEF Call, input, buffer, pointers, match, output
<1>0. HasBuffer /\ Start' = Start /\ Seen' = Seen
  BY DEF IInv, Life, HasBuffer, Start, Seen
<1>1. Numbers'
  BY DEF IInv, Numbers, Phases
<1>2. Cut' = Cut /\ Life' /\ Contents' /\ Done'
  <2>1. Inside' => eofs <= MaxEofs
    BY EofsAssumption DEF IInv, Life
  <2> QED
    BY <1>0, <2>1, TextStays DEF IInv, Contents, Phases, Chars
<1>3. Progress'
  BY <1>0 DEF IInv, Progress, HasBuffer
<1> QED
  BY <1>1, <1>2, <1>3 DEF IInv

LEMMA DestroyInv == IInv /\ Destroy => IInv'
<1> SUFFICES ASSUME IInv, Destroy PROVE IInv'
  OBVIOUS
<1> USE DEF Destroy, input, buffer, pointers, match, output
<1>0. ~HasBuffer'
  BY DEF HasBuffer
<1>1. Numbers'
  BY DEF IInv, Numbers, Phases
<1>2. Life'
  BY <1>0 DEF IInv, Life, HasBuffer, Inside
<1>3. Contents'
  BY <1>0 DEF IInv, Contents
<1>4. Progress'
  BY DEF Progress
<1>5. Done'
  <2>1. Cut' = Cut
    BY DEF Cut, Start
  <2> QED
    BY <2>1 DEF IInv, Done
<1> QED
  BY <1>1, <1>2, <1>3, <1>4, <1>5 DEF IInv

LEMMA ReadErrorInv == IInv /\ ReadError => IInv'
<1> SUFFICES ASSUME IInv, ReadError PROVE IInv'
  OBVIOUS
<1> USE DEF ReadError, input, buffer, pointers, match, output
<1>0. HasBuffer /\ eofs <= MaxEofs /\ Start' = Start /\ Seen' = Seen
  BY DEF IInv, Life, HasBuffer, Inside, Start, Seen
<1>1. Numbers'
  BY DEF IInv, Numbers, Phases
<1>2. Cut' = Cut /\ Life' /\ Contents' /\ Done'
  BY <1>0, TextStays DEF IInv, Contents, Phases, Chars
<1>3. Progress'
  BY DEF Progress
<1> QED
  BY <1>1, <1>2, <1>3 DEF IInv

LEMMA BeginTokenInv == IInv /\ BeginToken => IInv'
<1> SUFFICES ASSUME IInv, BeginToken PROVE IInv'
  OBVIOUS
<1> USE DEF BeginToken, input, output
<1>0. HasBuffer /\ eofs <= MaxEofs /\ Start' = Start /\ Seen' = Seen
  BY DEF IInv, Life, HasBuffer, Inside, Start, Seen
<1>t. yy_c_buf_p \in Nat /\ yy_n_chars \in Nat /\ yy_c_buf_p <= yy_n_chars
  BY <1>0 DEF IInv, Numbers, Progress
<1>1. Numbers'
  BY DEF IInv, Numbers, Phases
<1>2. Cut' = Cut /\ Life' /\ Contents' /\ Done'
  <2>1. yy_ch_buf \in [Cells(yy_buf_size) -> Chars] /\ yy_hold_char \in Chars
    BY <1>0 DEF IInv, Numbers, Contents, Chars
  <2>2. yy_ch_buf' \in [Cells(yy_buf_size) -> Chars]
    BY <2>1 DEF Put
  <2> QED
    BY <1>0, <1>t, <2>2, TextStays DEF IInv, Contents, Phases
<1>3. Progress'
  <2>1. Live(1, stream, Cut + 1, 0)
    BY DEF Live
  <2>2. yy_cp' - yytext' = 0
    BY <1>t
  <2> QED
    BY <1>t, <1>2, <2>1, <2>2 DEF Progress
<1> QED
  BY <1>1, <1>2, <1>3 DEF IInv
-----------------------------------------------------------------------------
(***************************************************************************)
(* The invariant: the match.                                               *)
(***************************************************************************)
\* The states that the next character does not leave without a decision.
LEMMA StateFacts ==
  /\ \A q \in {1, 3, 9, 10, 11, 13} : q # 3 => ~Accepting(q)
  /\ Accepting(3) /\ At(yy_accept, 3) = 6
  /\ \A q \in {4, 5, 6, 7, 8, 12} : Accepting(q) /\ At(yy_accept, q) \in 1 .. 5
  /\ \A q \in {1, 3, 6, 9, 10, 11} : At(yy_base, q) # 14
  /\ \A q \in {4, 5, 7, 8, 12, 13} : At(yy_base, q) = 14
  /\ \A q \in {1, 4, 6, 9, 10, 11} : Transition[q][0] = 3
  /\ \A c \in 0 .. 7 : Transition[3][c] = 13
  /\ \A c \in 1 .. 7 : Transition[4][c] = 13
<1>1. \A q \in {1, 9, 10, 11, 13} : At(yy_accept, q) = 0
  BY DEF At, yy_accept
<1>2. At(yy_accept, 3) = 6 /\ \A q \in {4, 5, 6, 7, 8, 12} : At(yy_accept, q) \in 1 .. 5
  BY DEF At, yy_accept
<1>3. /\ \A q \in {1, 3, 6, 9, 10, 11} : At(yy_base, q) # 14
      /\ \A q \in {4, 5, 7, 8, 12, 13} : At(yy_base, q) = 14
  BY DEF At, yy_base
<1>4. \A q \in {1, 4, 6, 9, 10, 11} : Transition[q][0] = 3
  <2>1. \A q \in {1, 4, 6, 9, 10, 11} : At(At(Rows, q), 0) = 3
    BY DEF At, Rows
  <2> QED
    BY <2>1, TransitionTable
<1>5. \A c \in 0 .. 7 : Transition[3][c] = 13
  <2>1. \A c \in 0 .. 7 : At(At(Rows, 3), c) = 13
    BY DEF At, Rows
  <2> QED
    BY <2>1, TransitionTable
<1>6. \A c \in 1 .. 7 : Transition[4][c] = 13
  <2>1. \A c \in 1 .. 7 : At(At(Rows, 4), c) = 13
    BY DEF At, Rows
  <2> QED
    BY <2>1, TransitionTable
<1> QED
  BY <1>1, <1>2, <1>3, <1>4, <1>5, <1>6 DEF Accepting

\* A null character, or the end of the buffer, is left for later.
LEMMA MatchNul ==
  ASSUME IInv, Match, Cut' = Cut, Seen' = Seen,
         yy_cp \in yytext .. yy_n_chars, Live(yy_current_state, stream, Cut + 1, yy_cp - yytext),
         Seen[yy_cp] = "NUL"
  PROVE  Progress'
<1> DEFINE q == yy_current_state
<1>1. q \in {1, 4, 6, 9, 10, 11} /\ yy_cp - yytext \in Nat /\ yy_cp \in Nat /\ yytext \in Nat
      /\ yy_n_chars \in Nat
  <2>1. yy_cp \in Nat /\ yytext \in Nat /\ yy_n_chars \in Nat
    BY DEF IInv, Numbers
  <2>2. yy_cp - yytext \in Nat
    BY <2>1
  <2> QED
    BY <2>1, <2>2, LiveShape
<1>2. Seen[yy_cp] = yy_ch_buf[yy_cp] /\ yy_ec["NUL"] = 0
  BY Letters DEF Match, Seen, Classes
<1>3. yy_current_state' = 3
  BY <1>1, <1>2, StateFacts DEF Match
<1>4. pc' = "match"
  BY <1>3, StateFacts DEF Match
<1>5. Waits(stream, Cut + 1, yy_cp - yytext)
  BY <1>1 DEF Waits
<1>6. MeetsNul(yy_cp)'
  <2>1. yy_cp' \in yytext' + 1 .. yy_n_chars' + 1 /\ yy_cp' - 1 = yy_cp /\ yytext' = yytext
    BY <1>1 DEF Match, pointers, buffer
  <2>2. stream' = stream
    BY DEF Match, input
  <2>3. yy_cp' - 1 - yytext' = yy_cp - yytext
    BY <2>1
  <2> QED
    BY <1>5, <2>1, <2>2, <2>3 DEF MeetsNul
<1> QED
  BY <1>3, <1>4, <1>6 DEF Progress

\* Another character of the text.
LEMMA MatchChar ==
  ASSUME IInv, HasBuffer, Match, Cut' = Cut, Seen' = Seen,
         yy_cp \in yytext .. yy_n_chars - 1, Live(yy_current_state, stream, Cut + 1, yy_cp - yytext),
         yy_cp >= yytext + 2 => last_accepting = [state |-> 6, cpos |-> yytext + 1],
         Seen[yy_cp] # "NUL"
  PROVE  Progress'
<1> DEFINE q == yy_current_state
           p == Cut + 1
           len == yy_cp - yytext
           c == stream[p + len]
           next == yy_current_state'
<1>1. /\ yy_cp \in Nat /\ yytext \in Nat /\ yy_n_chars \in Nat /\ len \in Nat /\ Cut \in Nat
      /\ stream \in Seq(Classes) /\ Start = yytext
  BY StreamIsSeq, SMTT(30) DEF IInv, Numbers, Done, Match, Start
<1>2. /\ yy_cp' = yy_cp + 1 /\ yytext' = yytext /\ yy_n_chars' = yy_n_chars /\ stream' = stream
      /\ last_accepting' = Leaving(q, yy_cp, last_accepting)
      /\ pc' = IF At(yy_base, next) = 14 THEN "find" ELSE "match"
      /\ next = Transition[q][yy_ec[yy_ch_buf[yy_cp]]] /\ Seen = yy_ch_buf
  BY DEF Match, input, pointers, Seen
<1>3. Seen[yy_cp] = c /\ c \in Classes /\ p + len \in 1 .. Len(stream)
  BY <1>1, CharOfText
<1>4. next = Transition[q][Class(c)] /\ Class(c) \in 1 .. 7
  BY <1>2, <1>3, ClassRange
<1>5. p \in 1 .. Len(stream)
  BY <1>1, <1>3
<1>6. \/ Live(next, stream, p, len + 1) /\ next # 1
      \/ Ends(next, stream, p, len + 1) /\ next # 6
      \/ next = Jam /\ q # 1 /\ NoPacket(stream, p)
  <2>1. p + len <= Len(stream) /\ Live(q, stream, p, len)
    BY <1>3
  <2>2. next = Transition[q][Class(stream[p + len])]
    BY <1>4
  <2> HIDE DEF p, len, next, c, q
  <2> QED
    BY <1>1, <1>5, <2>1, <2>2, OneMore
<1>7. /\ q \in {1, 4, 6, 9, 10, 11} /\ (len = 0 <=> q = 1) /\ (len = 1 => q \in {4, 6})
      /\ (len >= 2 => q \in {9, 10, 11} /\ stream[p] = "$")
      /\ (len >= 1 => stream[p] \in {"$", "NUL"})
  <2> PICK n \in Nat : n = len
    BY <1>1
  <2> PICK x, r : x = p /\ r = q
    OBVIOUS
  <2>1. Live(r, stream, x, n)
    OBVIOUS
  <2>2. /\ r \in {1, 4, 6, 9, 10, 11} /\ (n = 0 <=> r = 1) /\ (n = 1 => r \in {4, 6})
        /\ (n >= 2 => r \in {9, 10, 11} /\ stream[x] = "$")
        /\ (n >= 1 => stream[x] \in {"$", "NUL"})
    BY <2>1 DEF Live
  <2> QED
    BY <2>2
<1>8. CASE Live(next, stream, p, len + 1) /\ next # 1
  <2>1. next \in {4, 6, 9, 10, 11} /\ next # 4
    <3>1. next \in {1, 4, 6, 9, 10, 11}
      <4>1. len + 1 \in Nat /\ Live(next, stream, p, len + 1)
        BY <1>1, <1>8
      <4> HIDE DEF p, len, next
      <4> QED
        BY <4>1, LiveShape
    <3>2. next # 4
      <4> SUFFICES ASSUME next = 4 PROVE FALSE
        OBVIOUS
      <4>1. len + 1 = 1 /\ stream[p] = "NUL"
        BY <1>8 DEF Live
      <4>2. p + len = p
        BY <1>1, <4>1
      <4> QED
        BY <1>3, <4>1, <4>2
    <3> QED
      BY <1>8, <3>1, <3>2
  <2>2. pc' = "match"
    BY <1>2, <2>1, StateFacts
  <2>3. yy_cp' - yytext' = len + 1 /\ yy_cp' \in yytext' .. yy_n_chars'
    BY <1>1, <1>2
  <2>4. ASSUME yy_cp' >= yytext' + 2
        PROVE  last_accepting' = [state |-> 6, cpos |-> yytext + 1]
    <3>1. CASE len = 1
      <4>1. q # 4
        BY <1>4, <2>1, StateFacts
      <4> QED
        BY <1>1, <1>2, <1>7, <3>1, <4>1, StateFacts DEF Leaving
    <3>2. CASE len >= 2
      <4>1. ~Accepting(q) /\ yy_cp >= yytext + 2
        BY <1>1, <1>7, <3>2, StateFacts, SMTT(30)
      <4> QED
        BY <1>2, <4>1 DEF Leaving
    <3> QED
      BY <1>1, <1>2, <2>4, <3>1, <3>2
  <2>5. Live(yy_current_state, stream, Cut + 1, yy_cp - yytext)'
    BY <1>2, <1>8, <2>3
  <2> QED
    BY <1>2, <2>2, <2>3, <2>4, <2>5 DEF Progress
<1>9. CASE Ends(next, stream, p, len + 1) /\ next # 6
  <2>1. next \in {4, 5, 7, 8, 12}
    BY <1>9 DEF Ends
  <2>2. pc' = "find" /\ Accepting(next)
    BY <1>2, <2>1, StateFacts
  <2>3. yy_cp' - yytext' = len + 1 /\ yy_cp' \in yytext' + 1 .. yy_n_chars'
    BY <1>1, <1>2
  <2>4. Chosen(yy_current_state, yy_cp)'
    BY <1>2, <1>9, <2>3 DEF Chosen
  <2> QED
    BY <2>2, <2>4 DEF Progress
<1>10. CASE next = Jam /\ q # 1 /\ NoPacket(stream, p)
  <2>1. next = 13
    BY <1>10 DEF Jam
  <2>2. pc' = "find" /\ ~Accepting(next)
    BY <1>2, <2>1, StateFacts
  <2>3. PICK r \in {4, 6} : last_accepting' = [state |-> r, cpos |-> yytext + 1]
    <3>1. CASE len = 1
      <4>1. q \in {4, 6} /\ yy_cp = yytext + 1
        BY <1>1, <1>7, <3>1
      <4> QED
        BY <1>2, <4>1, StateFacts DEF Leaving
    <3>2. CASE len >= 2
      <4>1. ~Accepting(q) /\ yy_cp >= yytext + 2
        BY <1>1, <1>7, <3>2, StateFacts, SMTT(30)
      <4> QED
        BY <1>2, <4>1 DEF Leaving
    <3> QED
      BY <1>1, <1>7, <1>10, <3>1, <3>2
  <2>4. Ends(r, stream, p, 1)
    <3>1. len >= 1 /\ p \in Int
      BY <1>1, <1>7, <1>10
    <3> HIDE DEF p, len
    <3> QED
      BY <1>7, <1>10, <3>1, FirstAlone
  <2>5. yytext' + 1 \in yytext' + 1 .. yy_n_chars' /\ (yytext' + 1) - yytext' = 1
    BY <1>1, <1>2
  <2>6. Chosen(last_accepting.state, last_accepting.cpos)'
    BY <1>2, <2>3, <2>4, <2>5 DEF Chosen
  <2> QED
    BY <2>2, <2>6 DEF Progress
<1> QED
  BY <1>6, <1>8, <1>9, <1>10

\* The state after a null character leads nowhere: that state is chosen.
LEMMA MatchAfterNul ==
  ASSUME IInv, HasBuffer, Match, Cut' = Cut, Seen' = Seen, yy_current_state = 3, MeetsNul(yy_cp)
  PROVE  Progress'
<1>1. /\ yytext \in Nat /\ yy_n_chars \in Nat /\ Start = yytext /\ Seen = yy_ch_buf
      /\ yy_cp \in yytext + 1 .. yy_n_chars + 1
  BY DEF IInv, Numbers, Match, Start, Seen, MeetsNul
<1>2. Seen[yy_cp] \in Classes
  <2>1. CASE yy_cp \in {yy_n_chars, yy_n_chars + 1}
    BY <2>1 DEF IInv, Contents, Classes
  <2>2. CASE yy_cp < yy_n_chars
    <3>1. yy_cp \in Nat /\ Start <= yy_cp
      BY <1>1
    <3> QED
      BY <2>2, <3>1, CharOfText
  <2> QED
    BY <1>1, <2>1, <2>2
<1>3. yy_current_state' = 13
  BY <1>1, <1>2, ClassRange, StateFacts DEF Match
<1>4. pc' = "find" /\ ~Accepting(yy_current_state')
  BY <1>3, StateFacts DEF Match
<1>5. last_accepting' = [state |-> 3, cpos |-> yy_cp]
  BY StateFacts DEF Match, Leaving
<1>6. Chosen(last_accepting.state, last_accepting.cpos)'
  BY <1>5 DEF Chosen, MeetsNul, Match, pointers, input
<1> QED
  BY <1>4, <1>6 DEF Progress

LEMMA MatchInv == IInv /\ Match => IInv'
<1> SUFFICES ASSUME IInv, Match PROVE IInv'
  OBVIOUS
<1>0. HasBuffer /\ eofs <= MaxEofs /\ pc' \in {"match", "find"} /\ Start' = Start /\ Seen' = Seen
  BY DEF IInv, Life, HasBuffer, Inside, Start, Seen, Match, buffer, pointers
<1>t. /\ yytext \in Nat /\ yy_cp \in Nat /\ yy_n_chars \in Nat /\ yy_c_buf_p \in Nat
      /\ yy_current_state \in 0 .. 13 /\ last_accepting \in [state : 0 .. 13, cpos : Nat]
  BY DEF IInv, Numbers
<1>2. Cut' = Cut /\ Life' /\ Contents' /\ Done'
  BY <1>0, TextStays DEF IInv, Contents, Phases, Chars, Match, input, buffer, pointers, output
<1>3. Progress'
  <2>1. CASE /\ yy_cp \in yytext .. yy_n_chars
             /\ Live(yy_current_state, stream, Cut + 1, yy_cp - yytext)
             /\ yy_cp >= yytext + 2 => last_accepting = [state |-> 6, cpos |-> yytext + 1]
    <3>1. CASE Seen[yy_cp] = "NUL"
      BY <1>0, <1>2, <2>1, <3>1, MatchNul
    <3>2. CASE Seen[yy_cp] # "NUL"
      <4>1. yy_cp # yy_n_chars
        BY <1>0, <3>2 DEF IInv, Contents
      <4>2. yy_cp \in yytext .. yy_n_chars - 1
        BY <1>t, <2>1, <4>1
      <4> QED
        BY <1>0, <1>2, <2>1, <3>2, <4>2, MatchChar
    <3> QED
      BY <3>1, <3>2
  <2>2. CASE yy_current_state = 3 /\ MeetsNul(yy_cp)
    BY <1>0, <1>2, <2>2, MatchAfterNul
  <2> QED
    BY <2>1, <2>2 DEF IInv, Progress, Match
<1>4. Numbers'
  <2>1. yy_current_state \in 1 .. 13 /\ yy_ec[yy_ch_buf[yy_cp]] \in 0 .. 7
    <3>1. yy_current_state \in 1 .. 13 /\ yy_cp \in yytext .. yy_n_chars + 1
      <4>1. CASE /\ yy_cp \in yytext .. yy_n_chars
                 /\ Live(yy_current_state, stream, Cut + 1, yy_cp - yytext)
        <5>1. yy_cp - yytext \in Nat
          BY <1>t, <4>1
        <5>2. yy_current_state \in {1, 4, 6, 9, 10, 11}
          BY <4>1, <5>1, LiveShape
        <5> QED
          BY <1>t, <4>1, <5>2
      <4>2. CASE yy_current_state = 3 /\ MeetsNul(yy_cp)
        BY <1>t, <4>2 DEF MeetsNul
      <4> QED
        BY <4>1, <4>2 DEF IInv, Progress, Match
    <3>2. Seen = yy_ch_buf /\ Start = yytext
      BY DEF Match, Seen, Start
    <3>3. Seen[yy_cp] \in Classes
      <4>1. CASE yy_cp \in {yy_n_chars, yy_n_chars + 1}
        BY <1>0, <4>1 DEF IInv, Contents, Classes
      <4>2. CASE yy_cp < yy_n_chars
        BY <1>0, <1>t, <3>1, <3>2, <4>2, CharOfText
      <4> QED
        BY <1>t, <3>1, <4>1, <4>2
    <3> QED
      BY <3>1, <3>2, <3>3, ClassRange
  <2>2. yy_current_state' \in 0 .. 13
    <3>1. Transition[yy_current_state] \in [0 .. 7 -> 1 .. 13]
      BY <2>1, TransitionTable
    <3> QED
      BY <2>1, <3>1 DEF Match
  <2>3. last_accepting' \in [state : 0 .. 13, cpos : Nat]
    BY <1>t DEF Match, Leaving
  <2>4. yy_cp' \in Nat
    BY <1>t DEF Match
  <2> QED
    BY <1>0, <2>2, <2>3, <2>4 DEF IInv, Numbers, Phases, Match, input, buffer, pointers
<1> QED
  BY <1>2, <1>3, <1>4 DEF IInv
-----------------------------------------------------------------------------
(***************************************************************************)
(* The invariant: the actions of the rules.                                *)
(***************************************************************************)
LEMMA FindActionInv == IInv /\ FindAction => IInv'
<1> SUFFICES ASSUME IInv, FindAction PROVE IInv'
  OBVIOUS
<1> DEFINE cp == IF Accepting(yy_current_state) THEN yy_cp ELSE last_accepting.cpos
           s  == IF Accepting(yy_current_state) THEN yy_current_state ELSE last_accepting.state
<1>1. /\ pc = "find" /\ pc' = "action" /\ yy_act' = At(yy_accept, s) /\ yy_current_state' = s
      /\ yy_cp' = cp /\ yy_c_buf_p' = cp /\ yy_hold_char' = yy_ch_buf[cp]
      /\ yy_ch_buf' = Put(yy_ch_buf, cp, "NUL")
      /\ UNCHANGED <<input, yy_buf_size, yy_buffer_status, buf_n_chars, pointers, last_accepting, blocks, output>>
  BY DEF FindAction
<1>2. Chosen(s, cp)
  BY <1>1 DEF IInv, Progress
<1> HIDE DEF cp, s
<1>3. /\ yytext \in Nat /\ yy_n_chars \in Nat /\ HasBuffer /\ eofs <= MaxEofs
      /\ yy_ch_buf \in [Cells(yy_buf_size) -> Chars]
      /\ yy_buf_size \in Nat /\ yy_n_chars <= yy_buf_size
  BY <1>1 DEF IInv, Numbers, Life, Inside, HasBuffer, Contents, Chars
<1>4. cp \in yytext + 1 .. yy_n_chars + 1 /\ s \in {3, 4, 5, 6, 7, 8, 12}
  BY <1>2, <1>3 DEF Chosen, MeetsNul, Ends
<1>5. cp \in Nat /\ cp \in Cells(yy_buf_size)
  BY <1>3, <1>4 DEF Cells
<1>6. Start' = Start /\ Seen' = Seen
  <2>1. Put(Put(yy_ch_buf, cp, "NUL"), cp, yy_ch_buf[cp]) = yy_ch_buf
    BY <1>3, <1>5, PutBack
  <2> QED
    BY <1>1, <2>1 DEF Start, Seen, pointers
<1>7. Numbers'
  <2>1. yy_ch_buf[cp] \in Chars
    BY <1>3, <1>5
  <2>2. At(yy_accept, s) \in 0 .. 6
    BY <1>4, StateFacts
  <2>3. s \in 0 .. 13
    BY <1>4
  <2> QED
    BY <1>1, <1>5, <2>1, <2>2, <2>3 DEF IInv, Numbers, Phases, Chars, input, pointers
<1>8. Cut' = Cut /\ Life' /\ Contents' /\ Done'
  <2>1. yy_ch_buf' \in [Cells(yy_buf_size) -> Chars]
    BY <1>1, <1>3 DEF Put, Chars, Classes
  <2>2. yytext' <= yy_c_buf_p' /\ yy_c_buf_p' <= yy_n_chars + 1
    BY <1>1, <1>3, <1>4 DEF pointers
  <2> QED
    BY <1>1, <1>3, <1>6, <2>1, <2>2, TextStays DEF Phases, input, pointers, output
<1>9. Progress'
  <2>1. Chosen(yy_current_state, yy_cp)'
    BY <1>1, <1>2, <1>6, <1>8 DEF Chosen, MeetsNul, input, pointers
  <2> QED
    BY <1>1, <2>1 DEF Progress
<1> QED
  BY <1>7, <1>8, <1>9 DEF IInv

LEMMA TextsAppend ==
  ASSUME NEW ts \in Seq(TokenRecords), NEW t \in TokenRecords
  PROVE  /\ Texts(ts) \in Seq(Seq(Classes)) /\ Texts(Append(ts, t)) = Append(Texts(ts), t.text)
         /\ FlattenSeq(Texts(Append(ts, t))) = FlattenSeq(Texts(ts)) \o t.text
<1>1. ASSUME NEW u \in Seq(TokenRecords)
      PROVE  /\ Texts(u) \in Seq(Seq(Classes)) /\ Len(Texts(u)) = Len(u)
             /\ \A k \in 1 .. Len(u) : Texts(u)[k] = u[k].text
  <2>1. Len(u) \in Nat /\ DOMAIN u = 1 .. Len(u) /\ \A k \in 1 .. Len(u) : u[k] \in TokenRecords
    BY LenProperties, ElementOfSeq
  <2>2. \A k \in 1 .. Len(u) : u[k].text \in Seq(Classes)
    BY <2>1 DEF TokenRecords
  <2>3. Texts(u) = [k \in 1 .. Len(u) |-> u[k].text]
    BY <2>1 DEF Texts
  <2> QED
    BY <2>1, <2>2, <2>3
<1> DEFINE u == Append(ts, t)
           v == Append(Texts(ts), t.text)
<1>2. /\ u \in Seq(TokenRecords) /\ Len(u) = Len(ts) + 1 /\ Len(ts) \in Nat
      /\ \A k \in 1 .. Len(ts) : u[k] = ts[k]
      /\ u[Len(ts) + 1] = t /\ t.text \in Seq(Classes)
  BY DEF TokenRecords
<1>3. /\ v \in Seq(Seq(Classes)) /\ Len(v) = Len(ts) + 1
      /\ \A k \in 1 .. Len(ts) : v[k] = ts[k].text
      /\ v[Len(ts) + 1] = t.text
  BY <1>1, <1>2
<1> HIDE DEF u, v
<1>4. Texts(u) \in Seq(Seq(Classes)) /\ Len(Texts(u)) = Len(v) /\ \A k \in 1 .. Len(v) : Texts(u)[k] = v[k]
  <2>1. Texts(u) \in Seq(Seq(Classes)) /\ Len(Texts(u)) = Len(u) /\ \A k \in 1 .. Len(u) : Texts(u)[k] = u[k].text
    BY <1>1, <1>2
  <2>2. ASSUME NEW k \in 1 .. Len(v) PROVE u[k].text = v[k]
    <3>1. k \in 1 .. Len(ts) \/ k = Len(ts) + 1
      BY <1>2, <1>3
    <3> QED
      BY <3>1, <1>2, <1>3
  <2> QED
    BY <1>2, <1>3, <2>1, <2>2
<1>5. Texts(Append(ts, t)) = Append(Texts(ts), t.text)
  <2>1. \A i \in 1 .. Len(Texts(u)) : Texts(u)[i] = v[i]
    BY <1>4
  <2>2. Texts(u) = v
    BY <1>3, <1>4, <2>1, SeqEqual, Zenon
  <2> QED
    BY <2>2 DEF u, v
<1>6. FlattenSeq(Append(Texts(ts), t.text)) = FlattenSeq(Texts(ts)) \o t.text
  BY <1>1, <1>2, FlattenAppend
<1> QED
  BY <1>1, <1>5, <1>6

\* The text that a rule is given is that of the next token of the stream.
LEMMA RuleText ==
  ASSUME IInv, pc = "action", yy_act # YY_END_OF_BUFFER
  PROVE  /\ HasBuffer /\ yy_c_buf_p \in yytext + 1 .. yy_n_chars /\ Cut + 1 \in 1 .. Len(stream)
         /\ TokenAt(stream, Cut + 1).end = Cut + (yy_c_buf_p - yytext)
         /\ [rule |-> yy_act, text |-> Text] = TokenText(stream, Cut + 1)
<1> DEFINE len == yy_c_buf_p - yytext
           p == Cut + 1
<1>1. /\ yytext \in Nat /\ yy_n_chars \in Nat /\ yy_c_buf_p \in Nat /\ HasBuffer /\ Cut \in Nat
      /\ stream \in Seq(Classes) /\ Start = yytext /\ Len(stream) \in Nat
  BY StreamIsSeq DEF IInv, Numbers, Life, Inside, HasBuffer, Done, Start
<1>2. yy_c_buf_p \in yytext + 1 .. yy_n_chars /\ Ends(yy_current_state, stream, p, len)
  <2>1. yy_current_state # 3
    BY StateFacts DEF IInv, Progress, YY_END_OF_BUFFER
  <2> QED
    BY <2>1 DEF IInv, Progress, Chosen
<1>3. TokenAt(stream, p) = [rule |-> yy_act, end |-> p + len - 1] /\ len \in Nat /\ len >= 1
  BY <1>1, <1>2 DEF IInv, Progress, Ends
<1>4. \A i \in 1 .. len : Text[i] = stream[p + i - 1] /\ stream[p + i - 1] \in Classes
                          /\ p + i - 1 \in 1 .. Len(stream)
  <2> TAKE i \in 1 .. len
  <2>1. /\ yytext + i - 1 \in Nat /\ Start <= yytext + i - 1 /\ yytext + i - 1 < yy_n_chars
        /\ yytext + i - 1 # yy_c_buf_p /\ p + ((yytext + i - 1) - Start) = p + i - 1
    BY <1>1, <1>2
  <2>2. /\ Seen[yytext + i - 1] = stream[p + i - 1] /\ Seen[yytext + i - 1] \in Classes
        /\ p + i - 1 \in 1 .. Len(stream)
    <3> PICK j \in Nat : j = yytext + i - 1
      BY <2>1
    <3>1. /\ Seen[j] = stream[(Cut + 1) + (j - Start)] /\ Seen[j] \in Classes
          /\ (Cut + 1) + (j - Start) \in 1 .. Len(stream)
      BY <1>1, <2>1, CharOfText
    <3> QED
      BY <2>1, <3>1
  <2>3. Seen[yytext + i - 1] = yy_ch_buf[yytext + i - 1]
    <3>1. yy_ch_buf \in [Cells(yy_buf_size) -> Chars] /\ yytext + i - 1 \in Cells(yy_buf_size)
      BY <1>1, <2>1 DEF IInv, Contents, Chars, Cells
    <3> QED
      BY <2>1, <3>1 DEF Seen, Put
  <2>4. Text[i] = yy_ch_buf[yytext + i - 1]
    BY DEF Text
  <2> QED
    BY <2>2, <2>3, <2>4
<1>5. p \in 1 .. Len(stream) /\ p + len - 1 \in p .. Len(stream)
  <2>1. p + len - 1 \in 1 .. Len(stream)
    BY <1>3, <1>4
  <2> QED
    BY <1>1, <1>3, <2>1
<1>6. Text = SubSeq(stream, p, p + len - 1)
  <2>1. Text \in Seq(Classes) /\ Len(Text) = len
    <3>1. Text = [i \in 1 .. len |-> yy_ch_buf[yytext + i - 1]]
      BY DEF Text
    <3> QED
      BY <1>3, <1>4, <3>1
  <2>2. \A i \in p .. p + len - 1 : stream[i] \in Classes
    BY <1>1, <1>5, ElementOfSeq
  <2>3. /\ SubSeq(stream, p, p + len - 1) \in Seq(Classes)
        /\ Len(SubSeq(stream, p, p + len - 1)) = IF p <= p + len - 1 THEN (p + len - 1) - p + 1 ELSE 0
        /\ \A i \in 1 .. (p + len - 1) - p + 1 : SubSeq(stream, p, p + len - 1)[i] = stream[p + i - 1]
    BY <1>5, <2>2, SubSeqProperties
  <2>4. p <= p + len - 1 /\ (p + len - 1) - p + 1 = len
    BY <1>1, <1>3
  <2> HIDE DEF len, p
  <2> QED
    BY <1>4, <2>1, <2>3, <2>4, SeqEqual
<1>7. TokenText(stream, p) = [rule |-> yy_act, text |-> SubSeq(stream, p, p + len - 1)]
  <2>1. TokenAt(stream, p).rule = yy_act /\ TokenAt(stream, p).end = p + len - 1
    BY <1>3
  <2> HIDE DEF p, len
  <2> QED
    BY <2>1, Zenon DEF TokenText
<1>8. p + len - 1 = Cut + len
  BY <1>1, <1>3
<1> QED
  BY <1>1, <1>2, <1>3, <1>5, <1>6, <1>7, <1>8

LEMMA TokenInv ==
  ASSUME IInv, pc = "action", yy_act # YY_END_OF_BUFFER,
         tokens' = Append(tokens, [rule |-> yy_act, text |-> Text]),
         pc' \in {"token", "outside"},
         UNCHANGED <<input, buffer, pointers, yy_c_buf_p, yy_hold_char, match, yy_act, blocks, eofs>>
  PROVE  IInv'
<1> USE DEF input, buffer, pointers, match
<1> DEFINE t == TokenText(stream, Cut + 1)
           len == yy_c_buf_p - yytext
<1>1. /\ HasBuffer /\ yy_c_buf_p \in yytext + 1 .. yy_n_chars /\ Cut + 1 \in 1 .. Len(stream)
      /\ TokenAt(stream, Cut + 1).end = Cut + len /\ tokens' = Append(tokens, t)
  BY RuleText
<1>2. /\ stream \in Seq(Classes) /\ Len(stream) \in Nat /\ Cut \in Nat /\ taken \in 0 .. Len(stream)
      /\ yytext \in Nat /\ yy_n_chars \in Nat /\ yy_c_buf_p \in Nat /\ eofs \in Nat /\ eofs <= MaxEofs
  BY StreamIsSeq DEF IInv, Numbers, Life, Inside, Done
<1>3. Start = yytext /\ Start' = yy_c_buf_p /\ Seen' = Seen /\ Cut' = Cut + len
  <2>1. Start = yytext /\ Start' = yy_c_buf_p /\ Seen' = Seen
    BY DEF Start, Seen
  <2> QED
    BY <1>2, <2>1 DEF Cut
<1>4. Cut + len \in 0 .. taken /\ Cut + len > Cut
  BY <1>1, <1>2, <1>3 DEF Cut
<1>5. Numbers'
  BY DEF IInv, Numbers, Phases
<1>6. Life'
  BY <1>1, <1>2 DEF IInv, Life, HasBuffer, Inside
<1>7. Contents'
  <2>1. \A i \in Start' .. yy_n_chars - 1 : i \in Start .. yy_n_chars - 1
    BY <1>1, <1>2, <1>3
  <2> QED
    BY <1>1, <1>3, <2>1 DEF IInv, Contents, HasBuffer
<1>8. Progress'
  BY <1>1, <1>2 DEF Progress
<1>9. Done'
  <2>1. tokens \in Seq(TokenRecords) /\ t \in TokenRecords
    BY <1>1, <1>2, TokenTextType DEF IInv, Done, TokenRecords
  <2>2. /\ tokens' \in Seq(TokenRecords)
        /\ Tokens(stream) = tokens' \o From(stream)[Cut + len + 1]
    <3>1. Tokens(stream) = tokens \o From(stream)[Cut + 1]
      BY DEF IInv, Done
    <3> QED
      BY <1>1, <1>2, <2>1, <3>1, NextToken
  <2>3. FlattenSeq(Texts(tokens')) = SubSeq(stream, 1, Cut + len)
    <3>1. t.text = SubSeq(stream, Cut + 1, Cut + len)
      BY <1>1 DEF TokenText
    <3>2. FlattenSeq(Texts(tokens')) = FlattenSeq(Texts(tokens)) \o t.text
      <4> HIDE DEF t
      <4> QED
        BY <1>1, <2>1, TextsAppend
    <3>3. SubSeq(stream, 1, Cut) \o SubSeq(stream, Cut + 1, Cut + len) = SubSeq(stream, 1, Cut + len)
      <4>1. 1 \in 1 .. Len(stream) + 1 /\ Cut \in 1 - 1 .. Len(stream) /\ Cut + len \in Cut .. Len(stream)
        BY <1>2, <1>4
      <4> QED
        BY <1>2, <4>1, ConcatAdjacentSubSeq
    <3> QED
      BY <3>1, <3>2, <3>3 DEF IInv, Done
  <2>4. ~ (eofs > 0)
    BY <1>2, <1>4 DEF IInv, Done
  <2> QED
    BY <1>3, <1>4, <2>2, <2>3, <2>4 DEF Done, TokenRecords
<1> QED
  BY <1>5, <1>6, <1>7, <1>8, <1>9 DEF IInv

LEMMA RuleInv == IInv /\ Rule => IInv'
BY TokenInv DEF Rule

LEMMA ReturnPacketInv == IInv /\ ReturnPacket => IInv'
<1> SUFFICES ASSUME IInv, ReturnPacket PROVE IInv'
  OBVIOUS
<1>1. yy_act # YY_END_OF_BUFFER /\ tokens' = Append(tokens, [rule |-> yy_act, text |-> Text])
  BY DEF ReturnPacket, YY_END_OF_BUFFER
<1> QED
  BY <1>1, TokenInv DEF ReturnPacket
-----------------------------------------------------------------------------
(***************************************************************************)
(* The invariant: the end of the buffer.                                   *)
(***************************************************************************)
LEMMA EndOfBufferFacts ==
  ASSUME IInv, AtEndOfBuffer
  PROVE  /\ HasBuffer /\ eofs <= MaxEofs /\ Start = yytext /\ MeetsNul(yy_c_buf_p)
         /\ yytext \in Nat /\ yy_n_chars \in Nat /\ yy_c_buf_p \in yytext + 1 .. yy_n_chars + 1
         /\ Matched \in Nat /\ yytext + Matched + 1 = yy_c_buf_p
         /\ yy_n_chars' = yy_n_chars /\ yy_ch_buf' = Seen
         /\ yy_ch_buf' \in [Cells(yy_buf_size) -> Chars]
         /\ yy_buffer_status' \in {yy_buffer_status, "NORMAL"} /\ yy_buffer_status' # "NEW"
<1>1. /\ pc = "action" /\ yy_act = 6 /\ HasBuffer /\ eofs <= MaxEofs /\ Start = yytext
      /\ yytext \in Nat /\ yy_n_chars \in Nat /\ yy_hold_char \in Chars /\ yy_c_buf_p \in Nat
      /\ yy_buf_size \in Nat /\ yy_n_chars <= yy_buf_size
      /\ yy_ch_buf \in [Cells(yy_buf_size) -> Chars]
  BY DEF IInv, Numbers, Life, Inside, HasBuffer, Start, Contents, Chars, AtEndOfBuffer, YY_END_OF_BUFFER
<1>2. yy_cp = yy_c_buf_p /\ MeetsNul(yy_c_buf_p)
  <2>1. ~ Ends(yy_current_state, stream, Cut + 1, yy_cp - yytext)
    <3>1. yy_act = At(yy_accept, yy_current_state)
      BY <1>1 DEF IInv, Progress
    <3> QED
      BY <1>1, <3>1, StateFacts DEF Ends
  <2> QED
    BY <1>1, <2>1 DEF IInv, Progress, Chosen
<1>3. yy_c_buf_p \in yytext + 1 .. yy_n_chars + 1
  BY <1>2 DEF MeetsNul
<1>4. Matched \in Nat /\ yytext + Matched + 1 = yy_c_buf_p
  BY <1>1, <1>3 DEF Matched
<1>5. yy_n_chars' = yy_n_chars /\ yy_ch_buf' = Seen
  BY <1>1, <1>2 DEF IInv, Contents, AtEndOfBuffer, Seen
<1>6. yy_ch_buf' \in [Cells(yy_buf_size) -> Chars]
  BY <1>1 DEF AtEndOfBuffer, Put
<1>7. yy_buffer_status' \in {yy_buffer_status, "NORMAL"} /\ yy_buffer_status' # "NEW"
  BY DEF AtEndOfBuffer
<1> QED
  BY <1>1, <1>2, <1>3, <1>4, <1>5, <1>6, <1>7

LEMMA ReallyEndInv == IInv /\ ReallyEnd => IInv'
<1> SUFFICES ASSUME IInv, ReallyEnd PROVE IInv'
  OBVIOUS
<1>1. AtEndOfBuffer /\ yy_c_buf_p > yy_n_chars' /\ pc' = "refill" /\ UNCHANGED <<yy_c_buf_p, match>>
  BY DEF ReallyEnd
<1>2. /\ HasBuffer /\ eofs <= MaxEofs /\ Start = yytext /\ MeetsNul(yy_c_buf_p)
      /\ yytext \in Nat /\ yy_n_chars \in Nat /\ yy_c_buf_p \in yytext + 1 .. yy_n_chars + 1
      /\ Matched \in Nat /\ yytext + Matched + 1 = yy_c_buf_p
      /\ yy_n_chars' = yy_n_chars /\ yy_ch_buf' = Seen
      /\ yy_ch_buf' \in [Cells(yy_buf_size) -> Chars]
      /\ yy_buffer_status' \in {yy_buffer_status, "NORMAL"} /\ yy_buffer_status' # "NEW"
  BY <1>1, EndOfBufferFacts
<1>3. UNCHANGED <<input, yy_buf_size, buf_n_chars, yytext, yy_hold_char, yy_act, blocks, output>>
  BY <1>1 DEF AtEndOfBuffer
<1>4. Start' = Start /\ Seen' = Seen
  BY <1>1, <1>2, <1>3 DEF Start, Seen
<1>5. Numbers'
  BY <1>1, <1>2, <1>3 DEF IInv, Numbers, Phases, match, input
<1>6. Cut' = Cut /\ Life' /\ Contents' /\ Done'
  <2>1. yytext' <= yy_c_buf_p' /\ yy_c_buf_p' <= yy_n_chars + 1
    BY <1>1, <1>2, <1>3
  <2> QED
    BY <1>1, <1>2, <1>3, <1>4, <2>1, TextStays DEF Phases, input, output
<1>7. Progress'
  <2>1. yy_c_buf_p' = yy_n_chars' + 1
    BY <1>1, <1>2
  <2>2. Matched' = yy_c_buf_p - 1 - yytext
    BY <1>1, <1>2, <1>3 DEF Matched
  <2>3. Waits(stream', Cut' + 1, Matched')
    BY <1>2, <1>3, <1>6, <2>2 DEF MeetsNul, input
  <2> QED
    BY <1>1, <1>2, <2>1, <2>3 DEF Progress
<1> QED
  BY <1>5, <1>6, <1>7 DEF IInv

\* What the automaton does of a null character of the text.
LEMMA NulMoves ==
  ASSUME NEW q \in {1, 4, 6, 9, 10, 11}
  PROVE  Transition[q][1] = IF q = 1 THEN 4 ELSE IF q \in {6, 9} THEN 9 ELSE 13
<1>1. At(At(Rows, q), 1) = IF q = 1 THEN 4 ELSE IF q \in {6, 9} THEN 9 ELSE 13
  BY DEF At, Rows
<1> QED
  BY <1>1, TransitionTable

\* What Progress asks in the two phases of the match, after a step.
LEMMA MatchProgress ==
  ASSUME pc' = "match", yy_cp' \in yytext' .. yy_n_chars',
         Live(yy_current_state, stream, Cut + 1, yy_cp - yytext)',
         yy_cp' >= yytext' + 2 => last_accepting' = [state |-> 6, cpos |-> yytext' + 1]
  PROVE  Progress'
BY DEF Progress

LEMMA FindProgress ==
  ASSUME pc' = "find",
         \/ Accepting(yy_current_state') /\ Chosen(yy_current_state, yy_cp)'
         \/ ~Accepting(yy_current_state') /\ Chosen(last_accepting.state, last_accepting.cpos)'
  PROVE  Progress'
<1>1. CASE Accepting(yy_current_state') /\ Chosen(yy_current_state, yy_cp)'
  BY <1>1 DEF Progress
<1>2. CASE ~Accepting(yy_current_state') /\ Chosen(last_accepting.state, last_accepting.cpos)'
  BY <1>2 DEF Progress
<1> QED
  BY <1>1, <1>2

LEMMA ReallyNulInv == IInv /\ ReallyNul => IInv'
<1> SUFFICES ASSUME IInv, ReallyNul PROVE IInv'
  OBVIOUS
<1>1. AtEndOfBuffer /\ yy_c_buf_p <= yy_n_chars'
  BY DEF ReallyNul
<1>2. /\ HasBuffer /\ eofs <= MaxEofs /\ Start = yytext /\ MeetsNul(yy_c_buf_p)
      /\ yytext \in Nat /\ yy_n_chars \in Nat /\ yy_c_buf_p \in yytext + 1 .. yy_n_chars + 1
      /\ Matched \in Nat /\ yytext + Matched + 1 = yy_c_buf_p
      /\ yy_n_chars' = yy_n_chars /\ yy_ch_buf' = Seen
      /\ yy_ch_buf' \in [Cells(yy_buf_size) -> Chars]
      /\ yy_buffer_status' \in {yy_buffer_status, "NORMAL"} /\ yy_buffer_status' # "NEW"
  BY <1>1, EndOfBufferFacts
<1>3. UNCHANGED <<input, yy_buf_size, buf_n_chars, yytext, yy_hold_char, yy_act, blocks, output>>
  BY <1>1 DEF AtEndOfBuffer
<1> DEFINE p == Cut + 1
<1>4. /\ stream \in Seq(Classes) /\ Len(stream) \in Nat /\ Cut \in Nat
      /\ last_accepting \in [state : 0 .. 13, cpos : Nat]
  BY StreamIsSeq DEF IInv, Numbers, Done
<1> PICK len \in Nat : len = Matched
  BY <1>2
<1>5. PICK q \in 1 .. 11 : Live(q, stream, p, len)
  <2>1. yy_c_buf_p - 1 - yytext = len
    BY <1>2
  <2> QED
    BY <1>2, <2>1 DEF MeetsNul, Waits
<1>6. /\ q \in {1, 4, 6, 9, 10, 11} /\ (len = 0 <=> q = 1) /\ (len = 1 => q \in {4, 6})
      /\ (len >= 1 => stream[p] \in {"$", "NUL"})
      /\ (len >= 2 => q \in {9, 10, 11} /\ stream[p] = "$")
  <2> HIDE DEF p
  <2> QED
    BY <1>5, LiveShape
<1>7. \A i \in 0 .. len - 1 : Seen[yytext + i] = stream[p + i]
  <2> TAKE i \in 0 .. len - 1
  <2> PICK j \in Nat : j = yytext + i
    BY <1>2
  <2>1. Start <= j /\ j < yy_n_chars /\ j - Start = i
    BY <1>1, <1>2
  <2>2. Seen[j] = stream[(Cut + 1) + (j - Start)]
    BY <1>2, <2>1, CharOfText
  <2> QED
    BY <2>1, <2>2
<1>8. stream[p + len] = "NUL" /\ p + len \in 1 .. Len(stream)
  <2> PICK j \in Nat : j = yytext + len
    BY <1>2
  <2>1. Start <= j /\ j < yy_n_chars /\ j - Start = len /\ j = yy_c_buf_p - 1
    BY <1>1, <1>2
  <2>2. Seen[j] = stream[(Cut + 1) + (j - Start)] /\ (Cut + 1) + (j - Start) \in 1 .. Len(stream)
    BY <1>2, <2>1, CharOfText
  <2>3. Seen[j] = "NUL"
    BY <1>2, <2>1 DEF MeetsNul
  <2> QED
    BY <2>1, <2>2, <2>3
<1>9. p \in 1 .. Len(stream) /\ p \in Nat /\ p >= 1
  BY <1>4, <1>8
<1> DEFINE after == IF len <= 1 THEN last_accepting ELSE [state |-> 6, cpos |-> yytext + 1]
           next == Transition[q][1]
<1>10. Rescanned(yy_ch_buf', yytext, yytext + Matched, last_accepting) = [state |-> q, last |-> after]
  <2> PICK b : b = yy_ch_buf'
    OBVIOUS
  <2>1. \A i \in 0 .. len - 1 : b[yytext + i] = stream[p + i]
    BY <1>2, <1>7
  <2>2. p + len <= Len(stream) + 1
    BY <1>4, <1>8, <1>9
  <2>3. Live(q, stream, p, len)
    BY <1>5
  <2>t. p \in Nat /\ p >= 1 /\ yytext \in Nat /\ stream \in Seq(Classes)
    BY <1>2, <1>4, <1>9
  <2> HIDE DEF p
  <2> PICK z \in Nat : z = p
    BY <2>t
  <2> PICK first \in Nat : first = yytext
    BY <2>t
  <2> PICK last : last = last_accepting
    OBVIOUS
  <2> PICK s : s = stream
    OBVIOUS
  <2>4. /\ s \in Seq(Classes) /\ z \in Nat /\ z >= 1 /\ z + len <= Len(s) + 1 /\ Live(q, s, z, len)
        /\ Copied(s, z, len, b, first)
    BY <2>t, <2>1, <2>2, <2>3 DEF Copied
  <2> HIDE DEF after
  <2>5. Rescanned(b, first, first + len, last) = Found(q, len, first, last)
    BY <2>4, RescannedText
  <2> QED
    BY <2>5 DEF after, Found
<1>11. /\ last_accepting' = Leaving(q, yytext + len, after)
       /\ \/ /\ next # Jam
             /\ yy_c_buf_p' = yytext + len + 1 /\ yy_cp' = yytext + len + 1
             /\ yy_current_state' = next /\ pc' = "match"
          \/ /\ next = Jam
             /\ yy_c_buf_p' = yytext + len /\ yy_cp' = yytext + len
             /\ yy_current_state' = q /\ pc' = "find"
  <2> HIDE DEF after
  <2> QED
    BY <1>10 DEF ReallyNul
<1>12. next = IF q = 1 THEN 4 ELSE IF q \in {6, 9} THEN 9 ELSE 13
  BY <1>6, NulMoves
<1> HIDE DEF next
<1>13. Start' = Start /\ Seen' = Seen
  BY <1>2, <1>3, <1>11 DEF Start, Seen
<1>14. Numbers'
  <2>1. last_accepting' \in [state : 0 .. 13, cpos : Nat]
    <3>1. after \in [state : 0 .. 13, cpos : Nat]
      BY <1>2, <1>4
    <3>2. [state |-> q, cpos |-> yytext + len] \in [state : 0 .. 13, cpos : Nat]
      BY <1>2, <1>6
    <3> HIDE DEF after
    <3> QED
      BY <1>11, <3>1, <3>2 DEF Leaving
  <2>2. yy_c_buf_p' \in Nat /\ yy_cp' \in Nat /\ yy_current_state' \in 0 .. 13 /\ pc' \in Phases
    BY <1>2, <1>6, <1>11, <1>12 DEF Phases
  <2> QED
    BY <1>2, <1>3, <2>1, <2>2 DEF IInv, Numbers, input
<1>15. Cut' = Cut /\ Life' /\ Contents' /\ Done'
  <2>1. yytext' <= yy_c_buf_p' /\ yy_c_buf_p' <= yy_n_chars + 1 /\ pc' \in {"match", "find"}
    BY <1>1, <1>2, <1>3, <1>11
  <2> QED
    BY <1>1, <1>2, <1>3, <1>13, <2>1, TextStays DEF Phases, input, output
<1>16. \/ Live(next, stream, p, len + 1) /\ next # 1
       \/ Ends(next, stream, p, len + 1) /\ next # 6
       \/ next = Jam /\ q # 1 /\ NoPacket(stream, p)
  <2>1. Class(stream[p + len]) = 1
    BY <1>8 DEF Class
  <2>2. next = Transition[q][Class(stream[p + len])] /\ p + len <= Len(stream)
        /\ Live(q, stream, p, len)
    BY <1>5, <1>8, <2>1 DEF next
  <2> HIDE DEF p
  <2> QED
    BY <1>4, <1>9, <2>2, OneMore
<1>17. ASSUME next # Jam PROVE Progress'
  <2>1. /\ yy_cp' = yytext' + (len + 1) /\ yy_current_state' = next /\ pc' = "match"
        /\ yy_cp' \in yytext' .. yy_n_chars' /\ yy_cp' - yytext' = len + 1 /\ stream' = stream
    BY <1>1, <1>2, <1>3, <1>11, <1>17 DEF input
  <2>2. q \in {1, 6, 9} /\ next \in {4, 9}
    BY <1>6, <1>12, <1>17 DEF Jam
  <2>3. Live(next, stream, p, len + 1)
    <3>1. CASE q = 1
      <4>1. len = 0 /\ stream[p] = "NUL" /\ next = 4
        BY <1>6, <1>8, <1>9, <1>12, <3>1
      <4> QED
        BY <4>1 DEF Live
    <3>2. CASE q # 1
      <4>1. next = 9
        BY <1>12, <2>2, <3>2
      <4> QED
        BY <1>16, <1>17, <4>1 DEF Ends
    <3> QED
      BY <3>1, <3>2
  <2>4. ASSUME yy_cp' >= yytext' + 2
        PROVE  last_accepting' = [state |-> 6, cpos |-> yytext + 1]
    <3>0. len >= 1
      BY <1>2, <1>3, <2>1, <2>4
    <3>1. CASE len = 1
      <4>1. q = 6
        BY <1>6, <2>2, <3>1
      <4> QED
        BY <1>11, <3>1, <4>1, StateFacts DEF Leaving
    <3>2. CASE len >= 2
      <4>1. ~Accepting(q) /\ after = [state |-> 6, cpos |-> yytext + 1]
        BY <1>6, <3>2, StateFacts
      <4> HIDE DEF after
      <4> QED
        BY <1>11, <4>1 DEF Leaving
    <3> QED
      BY <3>0, <3>1, <3>2
  <2>5. Live(yy_current_state, stream, Cut + 1, yy_cp - yytext)'
    BY <1>15, <2>1, <2>3
  <2>6. pc' = "match" /\ yy_cp' \in yytext' .. yy_n_chars'
    BY <2>1
  <2>7. yy_cp' >= yytext' + 2 => last_accepting' = [state |-> 6, cpos |-> yytext' + 1]
    BY <1>3, <2>4
  <2> QED
    BY <2>5, <2>6, <2>7, MatchProgress
<1>18. ASSUME next = Jam PROVE Progress'
  <2>1. /\ yy_cp' = yytext' + len /\ yy_current_state' = q /\ pc' = "find" /\ yytext' = yytext
        /\ stream' = stream /\ yy_n_chars' = yy_n_chars
    BY <1>2, <1>3, <1>11, <1>18 DEF input
  <2>2. NoPacket(stream, p) /\ q \in {4, 10, 11} /\ len >= 1
    <3>1. q \in {4, 10, 11}
      BY <1>6, <1>12, <1>18 DEF Jam
    <3>2. ~ Live(13, stream, p, len + 1) /\ ~ Ends(13, stream, p, len + 1)
      BY DEF Live, Ends
    <3> QED
      BY <1>6, <1>16, <1>18, <3>1, <3>2 DEF Jam
  <2>3. \A r \in {4, 6} : Ends(r, stream, p, 1)
    <3>1. p \in Int /\ stream[p] \in {"$", "NUL"}
      BY <1>6, <1>9, <2>2
    <3> HIDE DEF p
    <3> QED
      BY <2>2, <3>1, FirstAlone
  <2>4. yytext' + 1 \in yytext' + 1 .. yy_n_chars' /\ (yytext' + 1) - yytext' = 1
    BY <1>1, <1>2, <2>1, <2>2
  <2>5. CASE q = 4
    <3>1. len = 1
      <4>1. Live(4, stream, p, len)
        BY <1>5, <2>5
      <4> QED
        BY <4>1 DEF Live
    <3>2. Chosen(yy_current_state, yy_cp)'
      BY <1>15, <2>1, <2>3, <2>4, <2>5, <3>1 DEF Chosen
    <3>3. pc' = "find" /\ Accepting(yy_current_state')
      BY <2>1, <2>5, StateFacts
    <3> QED
      BY <3>2, <3>3, FindProgress
  <2>6. CASE q \in {10, 11}
    <3>1. ~Accepting(q) /\ len >= 2
      BY <1>6, <2>2, <2>6, StateFacts
    <3>2. last_accepting' = [state |-> 6, cpos |-> yytext + 1]
      <4>1. after = [state |-> 6, cpos |-> yytext + 1]
        BY <3>1
      <4> HIDE DEF after
      <4> QED
        BY <1>11, <3>1, <4>1 DEF Leaving
    <3>3. Chosen(last_accepting.state, last_accepting.cpos)'
      BY <1>15, <2>1, <2>3, <2>4, <3>2 DEF Chosen
    <3>4. pc' = "find" /\ ~Accepting(yy_current_state')
      BY <2>1, <3>1
    <3> QED
      BY <3>3, <3>4, FindProgress
  <2> QED
    BY <2>2, <2>5, <2>6
<1> QED
  BY <1>14, <1>15, <1>17, <1>18 DEF IInv
-----------------------------------------------------------------------------
(***************************************************************************)
(* The invariant: the buffer is filled again.                              *)
(***************************************************************************)
LEMMA RefillFacts ==
  ASSUME IInv, pc = "refill"
  PROVE  /\ HasBuffer /\ eofs <= MaxEofs /\ Start = yytext /\ yy_c_buf_p = yy_n_chars + 1
         /\ yytext \in Nat /\ yy_n_chars \in Nat /\ taken \in Nat /\ yy_buf_size \in Nat \ {0}
         /\ Matched \in Nat /\ Matched = yy_n_chars - yytext /\ Matched <= yy_buf_size
         /\ taken - Matched = Cut /\ Cut \in Nat /\ taken <= Len(stream)
         /\ yy_buffer_status \in {"NORMAL", "EOF_PENDING"}
         /\ yy_buffer_status = "EOF_PENDING" => taken = Len(stream)
         /\ Waits(stream, Cut + 1, Matched)
         /\ Grown \in Nat \ {0} /\ Grown >= yy_buf_size /\ Grown - Matched - 1 > 0
<1>1. /\ HasBuffer /\ eofs <= MaxEofs /\ Start = yytext
      /\ yytext \in Nat /\ yy_n_chars \in Nat /\ taken \in Nat /\ yy_buf_size \in Nat \ {0}
      /\ taken <= Len(stream) /\ Cut \in 0 .. taken
      /\ yy_buffer_status \in {"NEW", "NORMAL", "EOF_PENDING"}
      /\ yy_buffer_status = "EOF_PENDING" => taken = Len(stream)
      /\ yy_n_chars <= yy_buf_size
  <2>1. Len(stream) \in Nat
    BY StreamIsSeq DEF IInv
  <2> QED
    BY <2>1 DEF IInv, Numbers, Life, Inside, HasBuffer, Start, Contents, Done
<1>2. /\ yy_c_buf_p = yy_n_chars + 1 /\ yy_buffer_status # "NEW" /\ Waits(stream, Cut + 1, Matched)
  BY DEF IInv, Progress
<1>3. Matched = yy_n_chars - yytext
  BY <1>1, <1>2 DEF Matched
<1>4. taken - Matched = Cut
  BY <1>1, <1>3 DEF Cut
<1>5. Matched \in Nat /\ Matched <= yy_buf_size
  <2>1. Matched >= 0
    BY <1>1, <1>2, <1>3 DEF Waits, Live
  <2> QED
    BY <1>1, <1>3, <2>1
<1>6. Grown \in Nat /\ Grown >= yy_buf_size /\ Grown - Matched - 1 > 0
  BY <1>1, <1>5, GrownFits
<1> QED
  BY <1>1, <1>2, <1>3, <1>4, <1>5, <1>6

\* What the buffer holds then: the text of the token at its beginning, and the k
\* characters that were read after it.
LEMMA FilledFacts ==
  ASSUME IInv, pc = "refill", NEW size \in Nat \ {0}, NEW k \in Nat,
         taken + k <= Len(stream), Matched + k <= size
  PROVE  /\ Filled(size, k) \in [Cells(size) -> Chars]
         /\ Filled(size, k)[Matched + k] = "NUL" /\ Filled(size, k)[Matched + k + 1] = "NUL"
         /\ \A i \in 0 .. Matched + k - 1 : Filled(size, k)[i] = stream[Cut + i + 1]
<1>1. /\ Matched \in Nat /\ Matched = yy_n_chars - yytext /\ taken - Matched = Cut /\ Cut \in Nat
      /\ taken \in Nat /\ yytext \in Nat /\ yy_n_chars \in Nat /\ HasBuffer /\ Start = yytext
      /\ Matched <= yy_buf_size /\ yy_buf_size \in Nat
  BY RefillFacts
<1>2. /\ yy_ch_buf \in [Cells(yy_buf_size) -> Chars] /\ Seen = yy_ch_buf /\ yy_n_chars <= yy_buf_size
      /\ stream \in Seq(Classes) /\ Len(stream) \in Nat
  BY <1>1, StreamIsSeq DEF IInv, Contents, Chars, Seen
<1> DEFINE Cell(p) == IF p \in DOMAIN yy_ch_buf /\ p < Matched THEN Moved(yy_ch_buf)[p]
                      ELSE IF p - Matched < k THEN stream[taken + p - Matched + 1]
                      ELSE IF p \in DOMAIN yy_ch_buf THEN yy_ch_buf[p] ELSE "unset"
           b == [p \in Cells(size) |-> Cell(p)]
<1>3. ASSUME NEW p \in Nat, p < Matched
      PROVE  Cell(p) = stream[Cut + p + 1]
  <2>1. p \in DOMAIN yy_ch_buf
    BY <1>1, <1>2, <1>3 DEF Cells
  <2>2. Cell(p) = yy_ch_buf[yytext + p]
    BY <1>3, <2>1 DEF Moved
  <2>3. PICK j \in Nat : j = yytext + p
    BY <1>1
  <2>4. Start <= j /\ j < yy_n_chars /\ j - Start = p
    BY <1>1, <1>3, <2>3
  <2>5. Seen[j] = stream[(Cut + 1) + (j - Start)]
    BY <1>1, <2>4, CharOfText
  <2>6. (Cut + 1) + (j - Start) = Cut + p + 1
    BY <1>1, <2>4
  <2> QED
    BY <1>2, <2>2, <2>3, <2>5, <2>6
<1>4. ASSUME NEW p \in Nat, p >= Matched, p - Matched < k
      PROVE  Cell(p) = stream[Cut + p + 1]
  <2>1. taken + p - Matched + 1 = Cut + p + 1
    BY <1>1
  <2> QED
    BY <1>4, <2>1, <1>1
<1>5. ASSUME NEW p \in Nat, p < Matched + k
      PROVE  Cell(p) = stream[Cut + p + 1] /\ Cell(p) \in Chars
  <2>1. Cell(p) = stream[Cut + p + 1]
    <3>1. p < Matched \/ (p >= Matched /\ p - Matched < k)
      BY <1>1, <1>5
    <3> HIDE DEF Cell
    <3> QED
      BY <3>1, <1>3, <1>4
  <2>2. PICK i \in 1 .. Len(stream) : i = Cut + p + 1
    BY <1>1, <1>2, <1>5
  <2>3. stream[i] \in Classes
    BY <1>2, <2>2, ElementOfSeq
  <2> HIDE DEF Cell
  <2> QED
    BY <2>1, <2>2, <2>3 DEF Chars
<1>6. ASSUME NEW p \in Nat, p >= Matched + k
      PROVE  Cell(p) \in Chars
  <2>1. ~ (p < Matched) /\ ~ (p - Matched < k)
    BY <1>1, <1>6
  <2>2. Cell(p) = IF p \in DOMAIN yy_ch_buf THEN yy_ch_buf[p] ELSE "unset"
    BY <2>1
  <2> QED
    BY <1>2, <2>2 DEF Chars
<1>7. b \in [Cells(size) -> Chars]
  <2>1. ASSUME NEW p \in Cells(size) PROVE Cell(p) \in Chars
    <3>1. p \in Nat /\ (p < Matched + k \/ p >= Matched + k)
      BY <1>1 DEF Cells
    <3> HIDE DEF Cell
    <3> QED
      BY <3>1, <1>5, <1>6
  <2> HIDE DEF Cell
  <2> QED
    BY <2>1
<1>8. \A i \in 0 .. Matched + k - 1 : b[i] = stream[Cut + i + 1]
  <2> TAKE i \in 0 .. Matched + k - 1
  <2>1. i \in Cells(size) /\ i \in Nat /\ i < Matched + k
    BY <1>1 DEF Cells
  <2> HIDE DEF Cell
  <2> QED
    BY <1>5, <2>1
<1>9. Filled(size, k) = EndAt(b, Matched + k)
  BY DEF Filled
<1> HIDE DEF b
<1>10. PICK n \in Nat : n = Matched + k
  BY <1>1
<1>11. /\ EndAt(b, n) \in [Cells(size) -> Chars]
       /\ EndAt(b, n)[n] = "NUL" /\ EndAt(b, n)[n + 1] = "NUL"
       /\ \A i \in 0 .. n - 1 : EndAt(b, n)[i] = b[i]
  BY <1>7, <1>10, EndAtFacts
<1>12. PICK f : f = Filled(size, k)
  OBVIOUS
<1>13. f \in [Cells(size) -> Chars] /\ f[n] = "NUL" /\ f[n + 1] = "NUL"
  BY <1>9, <1>10, <1>11, <1>12
<1>14. \A i \in 0 .. n - 1 : f[i] = stream[Cut + i + 1]
  <2>1. \A i \in 0 .. n - 1 : f[i] = b[i]
    BY <1>9, <1>10, <1>11, <1>12
  <2>2. \A i \in 0 .. n - 1 : b[i] = stream[Cut + i + 1]
    BY <1>1, <1>8, <1>10
  <2> QED
    BY <2>1, <2>2
<1>15. Matched + k + 1 = n + 1 /\ Matched + k - 1 = n - 1 /\ Matched + k = n
  BY <1>1, <1>10
<1> QED
  BY <1>12, <1>13, <1>14, <1>15, Zenon

\* The buffer, after a refill.
LEMMA RefillInv ==
  ASSUME IInv, pc = "refill", NEW size \in Nat \ {0}, NEW k \in Nat,
         taken + k <= Len(stream), Matched + k <= size,
         NEW status \in {"NEW", "NORMAL", "EOF_PENDING"}, Refill(size, k, status),
         status = "EOF_PENDING" => taken + k = Len(stream), status = "NEW" => Matched = 0,
         pc' \in {"outside", "match", "find"}, yy_c_buf_p' \in 0 .. Matched + k,
         pc' = "outside" => yy_c_buf_p' = Matched + k /\ yy_hold_char' = "NUL" /\ k = 0,
         tokens' = tokens, eofs' \in Nat,
         IF pc' = "outside" THEN eofs' \in 1 .. MaxEofs + 1 /\ Cut = Len(stream) /\ Matched = 0
         ELSE eofs' = eofs
  PROVE  /\ Cut' = Cut /\ Start' = 0 /\ Life' /\ Contents' /\ Done'
         /\ \A i \in 0 .. Matched + k - 1 : yy_ch_buf'[i] = stream[Cut + i + 1]
<1>1. /\ HasBuffer /\ eofs <= MaxEofs
      /\ taken \in Nat /\ Matched \in Nat /\ taken - Matched = Cut /\ Cut \in Nat
  BY RefillFacts
<1>2. /\ yy_buf_size' = size /\ yy_ch_buf' = Filled(size, k) /\ yy_buffer_status' = status
      /\ buf_n_chars' = k /\ yy_n_chars' = Matched + k /\ yytext' = 0 /\ taken' = taken + k
      /\ stream' = stream /\ blocks' = blocks
  BY DEF Refill
<1>3. /\ Filled(size, k) \in [Cells(size) -> Chars]
      /\ Filled(size, k)[Matched + k] = "NUL" /\ Filled(size, k)[Matched + k + 1] = "NUL"
      /\ \A i \in 0 .. Matched + k - 1 : Filled(size, k)[i] = stream[Cut + i + 1]
  BY FilledFacts
<1>4. Start' = 0
  BY <1>1, <1>2 DEF Start
<1>5. Seen' = yy_ch_buf'
  <2>1. CASE pc' = "outside"
    <3>1. yy_c_buf_p' = Matched + k /\ yy_hold_char' = "NUL"
      BY <2>1
    <3>2. PICK f \in [Cells(size) -> Chars] : f = yy_ch_buf'
      BY <1>2, <1>3
    <3>3. PICK n \in Nat : n = Matched + k
      BY <1>1
    <3>4. f[n] = "NUL"
      BY <1>2, <1>3, <3>2, <3>3
    <3>5. Put(f, n, f[n]) = f
      BY DEF Put
    <3> QED
      BY <2>1, <3>1, <3>2, <3>3, <3>4, <3>5 DEF Seen
  <2> QED
    BY <2>1 DEF Seen
<1>6. Cut' = Cut
  BY <1>1, <1>2, <1>4 DEF Cut
<1>7. Life'
  BY <1>1, <1>2 DEF IInv, Life, HasBuffer, Inside
<1>8. Contents'
  <2>1. yytext' <= yy_c_buf_p' /\ yy_c_buf_p' <= yy_n_chars' + 1 /\ yy_n_chars' <= yy_buf_size'
    BY <1>1, <1>2
  <2>2. Seen'[yy_n_chars'] = "NUL" /\ Seen'[yy_n_chars' + 1] = "NUL"
    BY <1>2, <1>3, <1>5
  <2>3. \A i \in Start' .. yy_n_chars' - 1 : Seen'[i] = stream'[taken' - yy_n_chars' + i + 1]
    <3>1. taken' - yy_n_chars' = Cut
      BY <1>1, <1>2
    <3>2. \A i \in 0 .. Matched + k - 1 : Seen'[i] = stream'[Cut + i + 1]
      BY <1>2, <1>3, <1>5
    <3>3. yy_n_chars' = Matched + k
      BY <1>2
    <3>4. PICK seen, str : seen = Seen' /\ str = stream'
      OBVIOUS
    <3>5. ASSUME NEW i \in Start' .. yy_n_chars' - 1
          PROVE  seen[i] = str[taken' - yy_n_chars' + i + 1]
      <4>1. i \in 0 .. Matched + k - 1
        <5>1. yy_n_chars' - 1 = Matched + k - 1
          BY <1>1, <3>3
        <5> QED
          BY <1>4, <5>1
      <4>2. taken' - yy_n_chars' + i + 1 = Cut + i + 1
        BY <3>1
      <4> QED
        BY <3>2, <3>4, <4>1, <4>2
    <3> QED
      BY <3>4, <3>5
  <2>4. yy_buffer_status' = "NEW" => buf_n_chars' = yy_n_chars'
    BY <1>2
  <2>5. yy_ch_buf' \in [Cells(yy_buf_size') -> Chars]
    BY <1>2, <1>3
  <2>6. yy_buffer_status' = "EOF_PENDING" => taken' = Len(stream')
    BY <1>2
  <2> QED
    BY <1>2, <2>1, <2>2, <2>3, <2>4, <2>5, <2>6 DEF Contents, HasBuffer, Chars
<1>9. Done'
  <2>1. Cut' \in 0 .. taken'
    BY <1>1, <1>2, <1>6
  <2>2. eofs' > 0 => Cut' = Len(stream')
    BY <1>2, <1>6 DEF IInv, Done
  <2> QED
    BY <1>2, <1>6, <2>1, <2>2 DEF IInv, Done
<1>10. \A i \in 0 .. Matched + k - 1 : yy_ch_buf'[i] = stream[Cut + i + 1]
  BY <1>2, <1>3
<1> QED
  BY <1>4, <1>6, <1>7, <1>8, <1>9, <1>10

\* The text of the token is matched again where it has moved.
LEMMA RematchFacts ==
  ASSUME IInv, pc = "refill", NEW goto, Rematch(goto),
         \A i \in 0 .. Matched - 1 : yy_ch_buf'[i] = stream[Cut + i + 1]
  PROVE  \E q \in 1 .. 11 :
            /\ Live(q, stream, Cut + 1, Matched) /\ yy_current_state' = q
            /\ last_accepting' = IF Matched <= 1 THEN last_accepting
                                 ELSE [state |-> 6, cpos |-> 1]
<1>1. /\ Matched \in Nat /\ Cut \in Nat /\ taken \in Nat /\ taken - Matched = Cut
      /\ taken <= Len(stream) /\ Waits(stream, Cut + 1, Matched)
  BY RefillFacts
<1>2. stream \in Seq(Classes) /\ Len(stream) \in Nat
  BY StreamIsSeq DEF IInv
<1>3. PICK len \in Nat : len = Matched
  BY <1>1
<1>4. PICK p \in Nat : p = Cut + 1
  BY <1>1
<1>5. PICK s : s = stream
  OBVIOUS
<1>6. PICK b : b = yy_ch_buf'
  OBVIOUS
<1>7. PICK last : last = last_accepting
  OBVIOUS
<1>8. PICK q \in 1 .. 11 : Live(q, s, p, len)
  BY <1>1, <1>3, <1>4, <1>5 DEF Waits
<1>9. PICK first \in Nat : first = 0
  OBVIOUS
<1>10. p >= 1 /\ p + len <= Len(s) + 1 /\ s \in Seq(Classes)
  BY <1>1, <1>2, <1>3, <1>4, <1>5
<1>11. Copied(s, p, len, b, first)
  BY <1>1, <1>3, <1>4, <1>5, <1>6, <1>9 DEF Copied
<1>12. Rescanned(b, first, first + len, last) = Found(q, len, first, last)
  BY <1>8, <1>10, <1>11, RescannedText
<1>13. first + len = len /\ first + 1 = 1
  BY <1>9
<1>14. Rescanned(b, 0, len, last) = Found(q, len, 0, last)
  BY <1>9, <1>12, <1>13
<1>15. /\ yy_current_state' = Rescanned(b, 0, len, last).state
       /\ last_accepting' = Rescanned(b, 0, len, last).last
  BY <1>3, <1>6, <1>7 DEF Rematch
<1>16. yy_current_state' = q /\ last_accepting' = IF len <= 1 THEN last ELSE [state |-> 6, cpos |-> 1]
  BY <1>14, <1>15 DEF Found
<1> QED
  BY <1>3, <1>4, <1>5, <1>7, <1>8, <1>16

\* What read may be asked for, and what it gives.
LEMMA NumToReadFacts ==
  ASSUME IInv, pc = "refill", NEW k \in 1 .. Min({NumToRead, Len(stream) - taken})
  PROVE  k \in Nat \ {0} /\ taken + k <= Len(stream) /\ Matched + k <= Grown
<1>1. /\ Matched \in Nat /\ taken \in Nat /\ taken <= Len(stream) /\ Grown \in Nat
      /\ Grown - Matched - 1 > 0
  BY RefillFacts
<1>2. Len(stream) \in Nat
  BY StreamIsSeq DEF IInv
<1>3. NumToRead \in {Grown - Matched - 1, YY_READ_BUF_SIZE} /\ NumToRead <= Grown - Matched - 1
  <2> PICK S : S = {Grown - Matched - 1, YY_READ_BUF_SIZE}
    OBVIOUS
  <2>1. S \in SUBSET Nat /\ S # {} /\ Grown - Matched - 1 \in S
    BY <1>1, BufferAssumption
  <2>2. Min(S) \in S /\ \A y \in S : Min(S) <= y
    BY <2>1, MinOfNat
  <2> QED
    BY <2>1, <2>2 DEF NumToRead
<1>4. NumToRead \in Nat
  BY <1>1, <1>3, BufferAssumption
<1>5. k \in Nat \ {0} /\ k <= NumToRead /\ k <= Len(stream) - taken
  <2> PICK S : S = {NumToRead, Len(stream) - taken}
    OBVIOUS
  <2>1. S \in SUBSET Nat /\ S # {} /\ NumToRead \in S /\ Len(stream) - taken \in S
    BY <1>1, <1>2, <1>4
  <2>2. Min(S) \in S /\ \A y \in S : Min(S) <= y
    BY <2>1, MinOfNat
  <2>3. k \in 1 .. Min(S) /\ Min(S) \in Nat
    BY <2>1, <2>2
  <2> QED
    BY <1>1, <1>2, <1>4, <2>1, <2>2, <2>3
<1> QED
  BY <1>1, <1>2, <1>3, <1>4, <1>5

LEMMA ContinueScanInv == IInv /\ ContinueScan => IInv'
<1> SUFFICES ASSUME IInv, ContinueScan PROVE IInv'
  OBVIOUS
<1>1. /\ pc = "refill" /\ yy_buffer_status # "EOF_PENDING" /\ Rematch("match")
      /\ yy_c_buf_p' = Matched /\ yy_cp' = Matched /\ pc' = "match"
      /\ UNCHANGED <<yy_hold_char, output>>
  BY DEF ContinueScan, Rematch
<1>2. PICK k \in 1 .. Min({NumToRead, Len(stream) - taken}) : Refill(Grown, k, yy_buffer_status)
  BY DEF ContinueScan
<1>3. k \in Nat \ {0} /\ taken + k <= Len(stream) /\ Matched + k <= Grown
  BY <1>1, NumToReadFacts
<1>4. /\ HasBuffer /\ eofs <= MaxEofs /\ Matched \in Nat /\ Cut \in Nat /\ taken \in Nat
      /\ yy_buffer_status \in {"NORMAL", "EOF_PENDING"} /\ Grown \in Nat \ {0}
  BY <1>1, RefillFacts
<1>5. /\ Cut' = Cut /\ Start' = 0 /\ Life' /\ Contents' /\ Done'
      /\ \A i \in 0 .. Matched + k - 1 : yy_ch_buf'[i] = stream[Cut + i + 1]
  <2>1. tokens' = tokens /\ eofs' = eofs /\ eofs \in Nat
    BY <1>1, EofsAssumption DEF output, IInv, Life
  <2>2. yy_c_buf_p' \in 0 .. Matched + k
    BY <1>1, <1>3, <1>4
  <2> PICK size \in Nat \ {0} : size = Grown
    BY <1>4
  <2> PICK status \in {"NORMAL"} : status = yy_buffer_status
    BY <1>1, <1>4
  <2>3. Refill(size, k, status) /\ taken + k <= Len(stream) /\ Matched + k <= size /\ k \in Nat
    BY <1>2, <1>3
  <2> QED
    BY <1>1, <2>1, <2>2, <2>3, RefillInv
<1>6. PICK q \in 1 .. 11 :
         /\ Live(q, stream, Cut + 1, Matched) /\ yy_current_state' = q
         /\ last_accepting' = IF Matched <= 1 THEN last_accepting ELSE [state |-> 6, cpos |-> 1]
  <2>1. \A i \in 0 .. Matched - 1 : yy_ch_buf'[i] = stream[Cut + i + 1]
    BY <1>3, <1>4, <1>5
  <2> QED
    BY <1>1, <2>1, RematchFacts
<1>7. /\ yytext' = 0 /\ yy_n_chars' = Matched + k /\ taken' = taken + k /\ stream' = stream
      /\ yy_act' = yy_act
  BY <1>2 DEF Refill
<1>8. Numbers'
  <2>1. last_accepting' \in [state : 0 .. 13, cpos : Nat]
    BY <1>6 DEF IInv, Numbers
  <2>2. Len(stream) \in Nat
    BY StreamIsSeq DEF IInv
  <2> QED
    BY <1>1, <1>3, <1>4, <1>6, <1>7, <2>1, <2>2 DEF IInv, Numbers, Phases
<1>9. Progress'
  <2>1. yy_cp' - yytext' = Matched /\ yy_cp' \in yytext' .. yy_n_chars'
    BY <1>1, <1>3, <1>4, <1>7
  <2>2. Live(yy_current_state, stream, Cut + 1, yy_cp - yytext)'
    BY <1>5, <1>6, <1>7, <2>1
  <2>3. yy_cp' >= yytext' + 2 => last_accepting' = [state |-> 6, cpos |-> yytext' + 1]
    BY <1>1, <1>4, <1>6, <1>7
  <2> QED
    BY <1>1, <2>1, <2>2, <2>3, MatchProgress
<1> QED
  BY <1>5, <1>8, <1>9 DEF IInv

\* The sizes with which the end of the stream leaves the buffer.
LEMMA SizeAtEndFacts ==
  ASSUME IInv, pc = "refill", Ended
  PROVE  SizeAtEnd \in Nat \ {0} /\ Matched <= SizeAtEnd /\ taken = Len(stream)
BY RefillFacts, SMTT(30) DEF SizeAtEnd, Ended

LEMMA LastMatchInv == IInv /\ LastMatch => IInv'
<1> SUFFICES ASSUME IInv, LastMatch PROVE IInv'
  OBVIOUS
<1>1. /\ pc = "refill" /\ Ended /\ Matched > 0 /\ Rematch("find")
      /\ yy_c_buf_p' = Matched /\ yy_cp' = Matched /\ pc' = "find"
      /\ UNCHANGED <<yy_hold_char, output>> /\ Refill(SizeAtEnd, 0, "EOF_PENDING")
  BY DEF LastMatch, Rematch
<1>2. SizeAtEnd \in Nat \ {0} /\ Matched <= SizeAtEnd /\ taken = Len(stream)
  BY <1>1, SizeAtEndFacts
<1>3. /\ HasBuffer /\ eofs <= MaxEofs /\ Matched \in Nat /\ Cut \in Nat /\ taken \in Nat
      /\ taken - Matched = Cut
  BY <1>1, RefillFacts
<1>4. /\ Cut' = Cut /\ Start' = 0 /\ Life' /\ Contents' /\ Done'
      /\ \A i \in 0 .. Matched + 0 - 1 : yy_ch_buf'[i] = stream[Cut + i + 1]
  <2>1. tokens' = tokens /\ eofs' = eofs /\ eofs \in Nat
    BY <1>1, EofsAssumption DEF output, IInv, Life
  <2> PICK size \in Nat \ {0} : size = SizeAtEnd
    BY <1>2
  <2> PICK k \in {0} : k = 0
    OBVIOUS
  <2>2. yy_c_buf_p' \in 0 .. Matched + k
    BY <1>1, <1>3
  <2>3. /\ Refill(size, k, "EOF_PENDING") /\ taken + k <= Len(stream) /\ taken + k = Len(stream)
        /\ Matched + k <= size /\ k \in Nat
    BY <1>1, <1>2, <1>3
  <2> QED
    BY <1>1, <2>1, <2>2, <2>3, RefillInv
<1>5. PICK q \in 1 .. 11 :
         /\ Live(q, stream, Cut + 1, Matched) /\ yy_current_state' = q
         /\ last_accepting' = IF Matched <= 1 THEN last_accepting ELSE [state |-> 6, cpos |-> 1]
  <2>1. \A i \in 0 .. Matched - 1 : yy_ch_buf'[i] = stream[Cut + i + 1]
    BY <1>3, <1>4
  <2> QED
    BY <1>1, <2>1, RematchFacts
<1>6. /\ yytext' = 0 /\ yy_n_chars' = Matched /\ taken' = taken /\ stream' = stream
      /\ yy_act' = yy_act
  BY <1>1, <1>3 DEF Refill
<1>7. Numbers'
  <2>1. last_accepting' \in [state : 0 .. 13, cpos : Nat]
    BY <1>5 DEF IInv, Numbers
  <2> QED
    BY <1>1, <1>3, <1>5, <1>6, <2>1 DEF IInv, Numbers, Phases
<1>8. PICK p \in Nat : p = Cut + 1
  BY <1>3
<1>9. PICK len \in Nat : len = Matched
  BY <1>3
<1>10. stream \in Seq(Classes) /\ Len(stream) \in Nat /\ p \in 1 .. Len(stream)
       /\ p + len - 1 = Len(stream) /\ len >= 1
  BY <1>1, <1>2, <1>3, <1>8, <1>9, StreamIsSeq DEF IInv
<1>11. NoPacket(stream, p)
  <2>1. Live(q, stream, p, len)
    BY <1>5, <1>8, <1>9
  <2> QED
    BY <1>10, <2>1, WaitsAtEnd
<1>12. /\ q \in {1, 4, 6, 9, 10, 11} /\ (len = 0 <=> q = 1) /\ (len = 1 => q \in {4, 6})
       /\ (len >= 1 => stream[p] \in {"$", "NUL"})
       /\ (len >= 2 => q \in {9, 10, 11})
  <2>1. Live(q, stream, p, len)
    BY <1>5, <1>8, <1>9
  <2> QED
    BY <2>1, LiveShape
<1>13. \A r \in {4, 6} : Ends(r, stream, p, 1)
  <2>1. p \in Int /\ stream[p] \in {"$", "NUL"}
    BY <1>10, <1>12
  <2> QED
    BY <1>11, <2>1, FirstAlone
<1>14. yytext' + 1 \in yytext' + 1 .. yy_n_chars' /\ (yytext' + 1) - yytext' = 1 /\ yytext' + 1 = 1
  BY <1>1, <1>3, <1>6
<1>15. Progress'
  <2>1. CASE len = 1
    <3>1. q \in {4, 6} /\ yy_cp' = yytext' + 1
      BY <1>1, <1>9, <1>12, <1>14, <2>1
    <3>2. Accepting(yy_current_state')
      BY <1>5, <3>1, StateFacts
    <3>3. Chosen(yy_current_state, yy_cp)'
      BY <1>4, <1>5, <1>6, <1>8, <1>13, <1>14, <3>1 DEF Chosen
    <3> QED
      BY <1>1, <3>2, <3>3, FindProgress
  <2>2. CASE len >= 2
    <3>1. q \in {9, 10, 11} /\ ~(Matched <= 1)
      BY <1>9, <1>12, <2>2
    <3>2. ~Accepting(yy_current_state')
      BY <1>5, <3>1, StateFacts
    <3>3. last_accepting' = [state |-> 6, cpos |-> yytext' + 1]
      BY <1>5, <1>14, <3>1
    <3>4. Chosen(last_accepting.state, last_accepting.cpos)'
      BY <1>4, <1>6, <1>8, <1>13, <1>14, <3>3 DEF Chosen
    <3> QED
      BY <1>1, <3>2, <3>4, FindProgress
  <2> QED
    BY <1>10, <2>1, <2>2
<1> QED
  BY <1>4, <1>7, <1>15 DEF IInv

LEMMA EndOfFileInv == IInv /\ EndOfFile => IInv'
<1> SUFFICES ASSUME IInv, EndOfFile PROVE IInv'
  OBVIOUS
<1>1. /\ pc = "refill" /\ Ended /\ Matched = 0 /\ Refill(SizeAtEnd, 0, "NEW")
      /\ yy_c_buf_p' = 0 /\ yy_hold_char' = "NUL" /\ eofs' = eofs + 1 /\ pc' = "outside"
      /\ UNCHANGED <<match, tokens>>
  BY DEF EndOfFile, YY_END_OF_BUFFER_CHAR
<1>2. SizeAtEnd \in Nat \ {0} /\ Matched <= SizeAtEnd /\ taken = Len(stream)
  BY <1>1, SizeAtEndFacts
<1>3. /\ HasBuffer /\ eofs <= MaxEofs /\ Matched \in Nat /\ Cut \in Nat /\ taken \in Nat
      /\ taken - Matched = Cut
  BY <1>1, RefillFacts
<1>4. Cut = Len(stream) /\ eofs' \in 1 .. MaxEofs + 1
  BY <1>1, <1>2, <1>3, EofsAssumption DEF IInv, Life
<1>5. Cut' = Cut /\ Start' = 0 /\ Life' /\ Contents' /\ Done'
  <2> PICK size \in Nat \ {0} : size = SizeAtEnd
    BY <1>2
  <2> PICK k \in {0} : k = 0
    OBVIOUS
  <2>1. yy_c_buf_p' \in 0 .. Matched + k /\ yy_c_buf_p' = Matched + k
    BY <1>1, <1>3
  <2>2. /\ Refill(size, k, "NEW") /\ taken + k <= Len(stream)
        /\ Matched + k <= size /\ k \in Nat /\ eofs' \in Nat
    BY <1>1, <1>2, <1>3, <1>4, EofsAssumption
  <2> QED
    BY <1>1, <1>4, <2>1, <2>2, RefillInv
<1>6. /\ yytext' = 0 /\ yy_n_chars' = 0 /\ taken' = taken /\ stream' = stream
      /\ yy_act' = yy_act
  BY <1>1, <1>3 DEF Refill
<1>7. Numbers'
  BY <1>1, <1>6 DEF IInv, Numbers, Phases, match, Classes
<1>8. Progress'
  BY <1>1, <1>6 DEF Progress
<1> QED
  BY <1>5, <1>7, <1>8 DEF IInv
-----------------------------------------------------------------------------
(***************************************************************************)
(* The theorems.                                                           *)
(***************************************************************************)
LEMMA NextInv == IInv /\ [Next]_vars => IInv'
<1> SUFFICES ASSUME IInv, [Next]_vars PROVE IInv'
  OBVIOUS
<1>1. CASE InitScanner
  BY <1>1, InitScannerInv
<1>2. CASE FirstCall
  BY <1>2, FirstCallInv
<1>3. CASE Call
  BY <1>3, CallInv
<1>4. CASE Destroy
  BY <1>4, DestroyInv
<1>5. CASE ReadError
  BY <1>5, ReadErrorInv
<1>6. CASE BeginToken
  BY <1>6, BeginTokenInv
<1>7. CASE Match
  BY <1>7, MatchInv
<1>8. CASE FindAction
  BY <1>8, FindActionInv
<1>9. CASE Rule
  BY <1>9, RuleInv
<1>10. CASE ReturnPacket
  BY <1>10, ReturnPacketInv
<1>11. CASE ReallyNul
  BY <1>11, ReallyNulInv
<1>12. CASE ReallyEnd
  BY <1>12, ReallyEndInv
<1>13. CASE ContinueScan
  BY <1>13, ContinueScanInv
<1>14. CASE LastMatch
  BY <1>14, LastMatchInv
<1>15. CASE EndOfFile
  BY <1>15, EndOfFileInv
<1>16. CASE UNCHANGED vars
  <2> USE <1>16 DEF vars, input, buffer, pointers, match, output
  <2>1. Cut' = Cut /\ Start' = Start /\ Seen' = Seen /\ Matched' = Matched
    BY DEF Cut, Start, Seen, Matched
  <2>2. Numbers'
    BY DEF IInv, Numbers
  <2>3. Life'
    BY DEF IInv, Life, HasBuffer, Inside
  <2>4. Contents'
    BY <2>1 DEF IInv, Contents, HasBuffer
  <2>5. Progress'
    BY <2>1 DEF IInv, Progress, HasBuffer, Chosen, MeetsNul
  <2>6. Done'
    BY <2>1 DEF IInv, Done
  <2> QED
    BY <2>2, <2>3, <2>4, <2>5, <2>6 DEF IInv
<1> QED
  BY <1>1, <1>2, <1>3, <1>4, <1>5, <1>6, <1>7, <1>8, <1>9, <1>10, <1>11, <1>12, <1>13, <1>14,
     <1>15, <1>16 DEF Next, Yylex

LEMMA Invariance == Spec => []IInv
BY InitInv, NextInv, PTL DEF Spec

\* The pointers of the scanner stay within its buffer, its state within the
\* automaton, and the end of the buffer is never missed: of every size of the
\* buffer, of what is read and of the stream (scanner.c:970, 1078).
THEOREM ScannerTypes == Spec => []TypeOK
<1>1. IInv => TypeOK
  <2> SUFFICES ASSUME IInv PROVE TypeOK
    OBVIOUS
  <2>1. yytext \in Nat /\ yy_n_chars \in Nat /\ yy_c_buf_p \in Nat
    BY DEF IInv, Numbers
  <2>2. HasBuffer =>
          /\ yy_ch_buf \in [Cells(yy_buf_size) -> Classes \cup {"unset"}]
          /\ yytext <= yy_c_buf_p /\ yy_c_buf_p <= yy_n_chars + 1 /\ yy_n_chars <= yy_buf_size
          /\ yy_buf_size \in Nat
    BY DEF IInv, Contents
  <2>3. HasBuffer => yy_c_buf_p \in DOMAIN yy_ch_buf /\ yy_n_chars + 1 \in DOMAIN yy_ch_buf
    BY <2>1, <2>2 DEF Cells
  <2>4. EndNotMissed
    BY <2>1, <2>2 DEF IInv, Life, Inside, HasBuffer, EndNotMissed
  <2> QED
    BY <2>2, <2>3, <2>4 DEF IInv, Numbers, Phases, Life, Contents, HasBuffer, TypeOK
<1> QED
  BY <1>1, Invariance, PTL

\* However read cuts the stream into pieces, wherever the buffer ends and
\* whatever it holds, the tokens are those of the rules of scanner.l on the
\* whole stream, with their texts (scanner.l:63-77, scanner.c:735-946).
THEOREM TokensAreOfStream == Spec => []TokensOfStream
<1>1. IInv => TokensOfStream
  <2> SUFFICES ASSUME IInv PROVE TokensOfStream
    OBVIOUS
  <2>1. stream \in Seq(Classes) /\ Len(stream) \in Nat /\ taken \in 0 .. Len(stream)
    BY StreamIsSeq DEF IInv, Numbers
  <2>2. /\ tokens \in Seq(TokenRecords) /\ Cut \in 0 .. taken
        /\ Tokens(stream) = tokens \o From(stream)[Cut + 1]
    BY DEF IInv, Done, TokenRecords
  <2>3. PICK rest \in Seq(TokenRecords) : rest = From(stream)[Cut + 1]
    <3>1. Cut + 1 \in 1 .. Len(stream) + 1
      BY <2>1, <2>2
    <3> QED
      BY <2>1, <3>1, FromType
  <2>4. PICK ts \in Seq(TokenRecords) : ts = tokens
    BY <2>2
  <2>5. /\ Len(ts) <= Len(ts \o rest)
        /\ SubSeq(ts, 1, Len(ts)) = SubSeq(ts \o rest, 1, Len(ts))
    <3>1. Len(ts \o rest) = Len(ts) + Len(rest) /\ Len(ts) \in Nat /\ Len(rest) \in Nat
      BY ConcatProperties, LenProperties
    <3>2. SubSeq(ts \o rest, 1, Len(ts)) = ts
      BY SubSeqOfConcat1
    <3>3. SubSeq(ts, 1, Len(ts)) = ts
      BY SubSeqFull
    <3> QED
      BY <3>1, <3>2, <3>3
  <2> QED
    BY <2>2, <2>3, <2>4, <2>5 DEF TokensOfStream, IsPrefix
<1> QED
  BY <1>1, Invariance, PTL

\* When yylex reports the end of the stream every character has been in a token.
THEOREM NothingIsLost == Spec => []NothingLost
<1>1. IInv => NothingLost
  <2> SUFFICES ASSUME IInv, eofs > 0 PROVE tokens = Tokens(stream)
    BY DEF NothingLost
  <2>1. stream \in Seq(Classes) /\ Cut = Len(stream)
    BY StreamIsSeq DEF IInv, Done
  <2>2. From(stream)[Cut + 1] = <<>>
    BY <2>1, FromUnfolds
  <2>3. tokens \in Seq(TokenRecords) /\ Tokens(stream) = tokens \o <<>>
    BY <2>2 DEF IInv, Done, TokenRecords
  <2> QED
    BY <2>3, ConcatEmptySeq
<1> QED
  BY <1>1, Invariance, PTL

\* What a text that waits looks like.
LEMMA WaitingText ==
  ASSUME NEW t \in Seq(Classes), NEW q, Live(q, t, 1, Len(t))
  PROVE  t = <<>> \/ Incomplete(t) \/ t = <<"NUL">>
<1> DEFINE marks == {m \in 2 .. Len(t) : t[m] \in {"$", "#"}}
<1>0. Len(t) \in Nat
  BY LenProperties
<1>1. CASE q = 1
  <2>1. Len(t) = 0
    BY <1>1 DEF Live
  <2> QED
    BY <2>1, EmptySeq
<1>2. CASE q = 4
  <2>1. Len(t) = 1 /\ t[1] = "NUL"
    BY <1>2 DEF Live
  <2> QED
    BY <2>1
<1>3. CASE q \in {6, 9}
  <2>1. Len(t) >= 1 /\ t[1] = "$" /\ Plain(t, 2, Len(t))
    <3>1. CASE q = 6
      <4>1. Len(t) = 1 /\ t[1] = "$"
        BY <3>1 DEF Live
      <4> QED
        BY <4>1 DEF Plain
    <3>2. CASE q = 9
      <4>1. 1 + Len(t) - 1 = Len(t) /\ 1 + 1 = 2
        BY <1>0
      <4> QED
        BY <3>2, <4>1 DEF Live
    <3> QED
      BY <1>3, <3>1, <3>2
  <2>2. marks = {}
    BY <2>1 DEF Plain
  <2>3. t # <<>>
    BY <2>1
  <2> QED
    BY <2>1, <2>2, <2>3 DEF Incomplete
<1>4. CASE q = 10
  <2>1. Len(t) >= 2 /\ t[1] = "$" /\ t[Len(t)] = "#" /\ Plain(t, 2, Len(t) - 1)
    <3>1. 1 + Len(t) - 1 = Len(t) /\ 1 + Len(t) - 2 = Len(t) - 1 /\ 1 + 1 = 2
      BY <1>0
    <3> QED
      BY <1>4, <3>1 DEF Live
  <2>2. Len(t) \in marks /\ marks = {Len(t)}
    BY <1>0, <2>1 DEF Plain
  <2>3. t # <<>>
    BY <2>1
  <2> HIDE DEF marks
  <2> QED
    BY <2>1, <2>2, <2>3 DEF Incomplete, marks
<1>5. CASE q = 11
  <2>1. /\ Len(t) >= 3 /\ t[1] = "$" /\ t[Len(t)] = "HEX" /\ t[Len(t) - 1] = "#"
        /\ Plain(t, 2, Len(t) - 2)
    <3>1. 1 + Len(t) - 1 = Len(t) /\ 1 + Len(t) - 2 = Len(t) - 1 /\ 1 + 1 = 2
          /\ 1 + Len(t) - 3 = Len(t) - 2
      BY <1>0
    <3> QED
      BY <1>5, <3>1 DEF Live
  <2> PICK m \in Nat : m = Len(t) - 1
    BY <1>0, <2>1
  <2>2. m \in marks /\ marks = {m} /\ t[m] = "#" /\ Len(t) = m + 1 /\ t[m + 1] = "HEX"
    BY <1>0, <2>1 DEF Plain
  <2>3. t # <<>>
    BY <2>1
  <2> HIDE DEF marks
  <2> QED
    BY <2>1, <2>2, <2>3 DEF Incomplete, marks
<1> QED
  BY <1>1, <1>2, <1>3, <1>4, <1>5 DEF Live

Piece(s, p, len) == SubSeq(s, p, p + len - 1)

\* A text that waits in the stream waits by itself.
LEMMA LiveAlone ==
  ASSUME NEW s, NEW p, NEW len, NEW q, s \in Seq(Classes), p \in 1 .. Len(s) + 1,
         len \in Nat, p + len <= Len(s) + 1, Live(q, s, p, len)
  PROVE  /\ Piece(s, p, len) \in Seq(Classes) /\ Len(Piece(s, p, len)) = len
         /\ Live(q, Piece(s, p, len), 1, len)
<1> PICK t : t = SubSeq(s, p, p + len - 1)
  OBVIOUS
<1>0. Len(s) \in Nat
  BY LenProperties
<1>1. t = [i \in 1 .. len |-> s[p + i - 1]]
  BY <1>0
<1>2. \A i \in 1 .. len : s[p + i - 1] \in Classes
  <2> TAKE i \in 1 .. len
  <2>1. PICK j \in 1 .. Len(s) : j = p + i - 1
    BY <1>0
  <2> QED
    BY <2>1, ElementOfSeq
<1>3. t \in Seq(Classes) /\ Len(t) = len
  BY <1>1, <1>2
<1>4. \A i \in 1 .. len : t[i] = s[p + i - 1]
  BY <1>1
<1>5. len >= 1 => t[1] = s[p]
  BY <1>4
<1>6. /\ len >= 1 => t[1 + len - 1] = s[p + len - 1]
      /\ len >= 2 => t[1 + len - 2] = s[p + len - 2]
  BY <1>4
<1>7. ASSUME NEW e \in Int, e < len, Plain(s, p + 1, p + e)
      PROVE  Plain(t, 1 + 1, 1 + e)
  <2> SUFFICES ASSUME NEW i \in 1 + 1 .. 1 + e PROVE t[i] \notin {"$", "#"}
    BY DEF Plain
  <2>1. i \in 1 .. len /\ p + i - 1 \in p + 1 .. p + e
    BY <1>7
  <2> QED
    BY <1>4, <1>7, <2>1 DEF Plain
<1>8. /\ len - 1 \in Int /\ len - 1 < len /\ len - 2 \in Int /\ len - 2 < len
      /\ len - 3 \in Int /\ len - 3 < len
  OBVIOUS
<1>9. /\ Plain(s, p + 1, p + len - 1) => Plain(t, 1 + 1, 1 + len - 1)
      /\ Plain(s, p + 1, p + len - 2) => Plain(t, 1 + 1, 1 + len - 2)
      /\ Plain(s, p + 1, p + len - 3) => Plain(t, 1 + 1, 1 + len - 3)
  BY <1>7, <1>8, Zenon
<1>10. Live(q, t, 1, len)
  BY <1>5, <1>6, <1>9 DEF Live
<1> QED
  BY <1>3, <1>10 DEF Piece

\* The scanner waits for characters only when those it has do not make a token:
\* a packet is answered as soon as its last digit has come, although the
\* simulator sends nothing more before that (scanner.l:59, gdb_protocol.c:75).
THEOREM WaitsForToken == Spec => []WaitsOnlyForToken
<1>1. IInv => WaitsOnlyForToken
  <2> SUFFICES ASSUME IInv, pc = "refill"
               PROVE  Pending = <<>> \/ Incomplete(Pending) \/ Pending = <<"NUL">>
    BY DEF WaitsOnlyForToken
  <2>1. /\ stream \in Seq(Classes) /\ Len(stream) \in Nat /\ taken \in Nat /\ Cut \in Nat
        /\ taken - Matched = Cut /\ Matched \in Nat /\ taken <= Len(stream)
        /\ Waits(stream, Cut + 1, Matched)
    BY RefillFacts, StreamIsSeq DEF IInv
  <2>2. Len(FlattenSeq(Texts(tokens))) = Cut
    <3>1. Len(SubSeq(stream, 1, Cut)) = Cut
      BY <2>1
    <3> QED
      BY <3>1 DEF IInv, Done
  <2>3. Pending = SubSeq(stream, Cut + 1, taken)
    BY <2>2 DEF Pending, Texts
  <2>4. PICK p \in 1 .. Len(stream) + 1 : p = Cut + 1
    BY <2>1
  <2>5. PICK len \in Nat : len = Matched
    BY <2>1
  <2>6. PICK q \in 1 .. 11 : Live(q, stream, p, len)
    BY <2>1, <2>4, <2>5 DEF Waits
  <2>7. Pending = SubSeq(stream, p, p + len - 1) /\ p + len <= Len(stream) + 1
    <3>1. taken = p + len - 1 /\ p + len <= Len(stream) + 1
      BY <2>1, <2>4, <2>5
    <3> QED
      BY <2>3, <2>4, <3>1
  <2>8. PICK t : t = Pending
    OBVIOUS
  <2> PICK s : s = stream
    OBVIOUS
  <2>9. t \in Seq(Classes) /\ Len(t) = len /\ Live(q, t, 1, len)
    <3>1. /\ s \in Seq(Classes) /\ p \in 1 .. Len(s) + 1 /\ p + len <= Len(s) + 1
          /\ Live(q, s, p, len) /\ t = Piece(s, p, len)
      BY <2>1, <2>6, <2>7, <2>8 DEF Piece
    <3> QED
      BY <3>1, LiveAlone
  <2>10. t = <<>> \/ Incomplete(t) \/ t = <<"NUL">>
    BY <2>9, WaitingText
  <2> QED
    BY <2>8, <2>10
<1> QED
  BY <1>1, Invariance, PTL
=============================================================================
