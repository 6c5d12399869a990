------------------------------ MODULE Scanner -------------------------------
(***************************************************************************)
(* The scanner that flex made of scanner.l (scanner.c): how yylex cuts     *)
(* into tokens a stream whose characters read gives it by any pieces, and  *)
(* the buffer in which it keeps the token it has not seen the end of.      *)
(*                                                                         *)
(* A character is abstracted to its class, yy_ec, but for the null         *)
(* character, which is also what marks the end of the buffer.  Tables,     *)
(* buffer and pointers are numbered from 0 as in the code.                 *)
(***************************************************************************)
EXTENDS Integers, Sequences, SequencesExt

CONSTANTS Streams,       \* what the simulator may send, up to the end of the stream
          YY_BUF_SIZE, YY_READ_BUF_SIZE,
          MaxEofs        \* calls that may find the end of the stream

\* HEX is any of the digits, LET any of the characters no rule names.
Classes == {"NUL", "LET", "EOL", "#", "$", "+", "-", "HEX"}

yy_ec == [c \in Classes |->
            CASE c = "NUL" -> 0 [] c = "LET" -> 1 [] c = "EOL" -> 2 [] c = "#" -> 3
              [] c = "$" -> 4 [] c = "+" -> 5 [] c = "-" -> 6 [] c = "HEX" -> 7]

YY_END_OF_BUFFER_CHAR == "NUL"

ASSUME StreamsAssumption == \A s \in Streams : s \in Seq(Classes)
ASSUME BufferAssumption  == YY_BUF_SIZE \in Nat \ {0} /\ YY_READ_BUF_SIZE \in Nat \ {0}
ASSUME EofsAssumption    == MaxEofs \in Nat

VARIABLES
  stream, taken,       \* what is sent, and how much of it read has given
  \* of the buffer (YY_CURRENT_BUFFER)
  yy_ch_buf, yy_buf_size, yy_buffer_status, buf_n_chars,
  \* of the scanner (struct yyguts_t)
  yy_n_chars, yy_c_buf_p, yytext, yy_hold_char, last_accepting,
  \* of yylex
  yy_cp, yy_current_state, yy_act,
  pc,
  blocks,              \* what it has taken of the heap
  tokens, eofs         \* what yylex did: the rules and their texts, the EOFs

input   == <<stream, taken>>
buffer  == <<yy_ch_buf, yy_buf_size, yy_buffer_status, buf_n_chars>>
pointers == <<yytext, yy_n_chars>>
match   == <<yy_cp, yy_current_state, last_accepting>>
output  == <<tokens, eofs>>
vars == <<input, buffer, pointers, yy_c_buf_p, yy_hold_char, match, yy_act, pc, blocks, output>>
-----------------------------------------------------------------------------
(***************************************************************************)
(* The automaton.                                                          *)
(***************************************************************************)
States == 0 .. 14

At(table, n) == table[n + 1]

yy_accept == <<0, 0, 0, 6, 4, 5, 4, 1, 2, 0, 0, 0, 3, 0>>
yy_meta   == <<0, 1, 1, 1, 2, 1, 1, 1>>
yy_base   == <<0, 0, 0, 13, 14, 14, 9, 14, 14, 8, 3, 2, 14, 14, 7>>
yy_def    == <<0, 13, 1, 13, 13, 13, 14, 13, 13, 14, 13, 13, 13, 0, 13>>
yy_nxt    == <<0, 4, 5, 4, 6, 7, 8, 4, 9, 12, 11, 10, 10, 13, 3, 13, 13, 13, 13, 13, 13, 13>>
yy_chk    == <<0, 1, 1, 1, 1, 1, 1, 1, 14, 11, 10, 9, 6, 3, 13, 13, 13, 13, 13, 13, 13, 13>>

Jam == 13
YY_END_OF_BUFFER == 6

\* The transition from a state on a class: the state's own row of yy_nxt where
\* yy_chk says so, that of its default otherwise.
Transition ==
  LET next[s \in States] ==
        [c \in 0 .. 7 |->
          IF At(yy_chk, At(yy_base, s) + c) = s THEN At(yy_nxt, At(yy_base, s) + c)
          ELSE LET d == At(yy_def, s) IN next[d][IF d >= 14 THEN At(yy_meta, c) ELSE c]]
  IN [s \in 1 .. 13 |-> next[s]]

Accepting(s) == At(yy_accept, s) # 0

\* yy_last_accepting_state and yy_last_accepting_cpos, when s is left at cp.
Leaving(s, cp, last) == IF Accepting(s) THEN [state |-> s, cpos |-> cp] ELSE last

\* Mutant of Rescanned: a null character of the text is taken for the end of
\* the buffer.
Rescanned_NulIsEnd(buf, first, end, last) ==
  LET run[p \in first .. end] ==
        IF p = first THEN [state |-> 1, last |-> last]
        ELSE LET r == run[p - 1]
             IN [state |-> Transition[r.state][yy_ec[buf[p - 1]]],
                 last  |-> Leaving(r.state, p - 1, r.last)]
  IN run[end]

\* yy_get_previous_state: the text from first to end is matched again, its null
\* characters being those of the text.
Rescanned(buf, first, end, last) ==
  LET class(c) == IF c = "NUL" THEN 1 ELSE yy_ec[c]
      run[p \in first .. end] ==
        IF p = first THEN [state |-> 1, last |-> last]
        ELSE LET r == run[p - 1]
             IN [state |-> Transition[r.state][class(buf[p - 1])],
                 last  |-> Leaving(r.state, p - 1, r.last)]
  IN run[end]
-----------------------------------------------------------------------------
(***************************************************************************)
(* The buffer.                                                             *)
(***************************************************************************)
Init ==
  /\ stream \in Streams /\ taken = 0
  /\ yy_ch_buf = <<>> /\ yy_buf_size = 0 /\ yy_buffer_status = "NEW" /\ buf_n_chars = 0
  /\ yy_n_chars = 0 /\ yy_c_buf_p = 0 /\ yytext = 0 /\ yy_hold_char = YY_END_OF_BUFFER_CHAR
  /\ last_accepting = [state |-> 0, cpos |-> 0]
  /\ yy_cp = 0 /\ yy_current_state = 0 /\ yy_act = 0
  /\ pc = "absent" /\ blocks = {}
  /\ tokens = <<>> /\ eofs = 0

\* init_gdb_scanner: fdopen, yylex_init_extra, yyset_in.
InitScanner ==
  /\ pc = "absent"
  /\ blocks' = {"FILE", "yyguts"}
  /\ pc' = "outside"
  /\ UNCHANGED <<input, buffer, pointers, yy_c_buf_p, yy_hold_char, match, yy_act, output>>

Put(buf, p, c) == [buf EXCEPT ![p] = c]

EndAt(buf, n) == Put(Put(buf, n, YY_END_OF_BUFFER_CHAR), n + 1, YY_END_OF_BUFFER_CHAR)

\* yy_ch_buf has room for two marks; it is read only where it was written.
Cells(size) == 0 .. size + 1

\* yy_create_buffer, yy_init_buffer, yy_flush_buffer, yy_load_buffer_state.
CreateBuffer ==
  /\ yy_buf_size' = YY_BUF_SIZE
  /\ yy_ch_buf' = EndAt([p \in Cells(YY_BUF_SIZE) |-> "unset"], 0)
  /\ yy_buffer_status' = "NEW" /\ buf_n_chars' = 0
  /\ yy_n_chars' = 0 /\ yytext' = 0 /\ yy_c_buf_p' = 0
  /\ yy_hold_char' = YY_END_OF_BUFFER_CHAR
  /\ blocks' = blocks \cup {"yy_buffer_stack", "yy_buffer_state", "yy_ch_buf"}

\* gdb_get_packet calls yylex: for the first time, and later.
FirstCall ==
  /\ pc = "outside" /\ "yy_buffer_state" \notin blocks
  /\ CreateBuffer
  /\ pc' = "token"
  /\ UNCHANGED <<input, match, yy_act, output>>

Call ==
  /\ pc = "outside" /\ "yy_buffer_state" \in blocks /\ eofs < MaxEofs
  /\ pc' = "token"
  /\ UNCHANGED <<input, buffer, pointers, yy_c_buf_p, yy_hold_char, match, yy_act, blocks, output>>

\* yylex_destroy: yy_delete_buffer for the buffer of the stack, the only one
\* the program has, then the stack and the scanner.
Destroy ==
  /\ pc = "outside"
  /\ blocks' = blocks \ {"yy_buffer_state", "yy_ch_buf", "yy_buffer_stack", "yyguts"}
  /\ pc' = "destroyed"
  /\ UNCHANGED <<input, buffer, pointers, yy_c_buf_p, yy_hold_char, match, yy_act, output>>
-----------------------------------------------------------------------------
(***************************************************************************)
(* yylex.                                                                  *)
(***************************************************************************)
\* yy_bp, the beginning of the token, is what yytext is set to.
BeginToken ==
  /\ pc = "token"
  /\ yy_ch_buf' = Put(yy_ch_buf, yy_c_buf_p, yy_hold_char)
  /\ yy_cp' = yy_c_buf_p /\ yytext' = yy_c_buf_p
  /\ yy_current_state' = 1
  /\ pc' = "match"
  /\ UNCHANGED <<input, yy_buf_size, yy_buffer_status, buf_n_chars, yy_n_chars, yy_c_buf_p, yy_hold_char, last_accepting, yy_act, blocks, output>>

\* Mutant of Match: as in a scanner that is not interactive, the match goes on
\* until the automaton is stuck.
Match_NotInteractive ==
  /\ pc = "match"
  /\ last_accepting' = Leaving(yy_current_state, yy_cp, last_accepting)
  /\ yy_current_state' = Transition[yy_current_state][yy_ec[yy_ch_buf[yy_cp]]]
  /\ yy_cp' = yy_cp + 1
  /\ pc' = IF yy_current_state' = Jam THEN "find" ELSE "match"
  /\ UNCHANGED <<input, buffer, pointers, yy_c_buf_p, yy_hold_char, yy_act, blocks, output>>

\* One turn of the loop after yy_match: it ends in the states that nothing
\* can follow.
Match ==
  /\ pc = "match"
  /\ last_accepting' = Leaving(yy_current_state, yy_cp, last_accepting)
  /\ yy_current_state' = Transition[yy_current_state][yy_ec[yy_ch_buf[yy_cp]]]
  /\ yy_cp' = yy_cp + 1
  /\ pc' = IF At(yy_base, yy_current_state') = 14 THEN "find" ELSE "match"
  /\ UNCHANGED <<input, buffer, pointers, yy_c_buf_p, yy_hold_char, yy_act, blocks, output>>

\* yy_find_action and YY_DO_BEFORE_ACTION.
FindAction ==
  /\ pc = "find"
  /\ LET accepts == Accepting(yy_current_state)
         cp == IF accepts THEN yy_cp ELSE last_accepting.cpos
         s  == IF accepts THEN yy_current_state ELSE last_accepting.state
     IN /\ yy_act' = At(yy_accept, s)
        /\ yy_current_state' = s
        /\ yy_cp' = cp
        /\ yy_hold_char' = yy_ch_buf[cp]
        /\ yy_ch_buf' = Put(yy_ch_buf, cp, "NUL")
        /\ yy_c_buf_p' = cp
  /\ pc' = "action"
  /\ UNCHANGED <<input, yy_buf_size, yy_buffer_status, buf_n_chars, pointers, last_accepting, blocks, output>>

Text == [q \in 1 .. yy_c_buf_p - yytext |-> yy_ch_buf[yytext + q - 1]]

\* Rules 1, 2, 4 and 5, and rule 3 when gdb_packet_check refuses the packet: the
\* next token is looked for.
Rule ==
  /\ pc = "action" /\ yy_act # YY_END_OF_BUFFER
  /\ tokens' = Append(tokens, [rule |-> yy_act, text |-> Text])
  /\ pc' = "token"
  /\ UNCHANGED <<input, buffer, pointers, yy_c_buf_p, yy_hold_char, match, yy_act, blocks, eofs>>

\* Rule 3 when it accepts it: yylex returns PACKET.
ReturnPacket ==
  /\ pc = "action" /\ yy_act = 3
  /\ tokens' = Append(tokens, [rule |-> 3, text |-> Text])
  /\ pc' = "outside"
  /\ UNCHANGED <<input, buffer, pointers, yy_c_buf_p, yy_hold_char, match, yy_act, blocks, eofs>>

\* Characters of the token matched before the null character.
Matched == yy_c_buf_p - yytext - 1

\* The action of YY_END_OF_BUFFER puts the character held back, and takes the
\* number of characters from a buffer that is new.
AtEndOfBuffer ==
  /\ pc = "action" /\ yy_act = YY_END_OF_BUFFER
  /\ yy_ch_buf' = Put(yy_ch_buf, yy_cp, yy_hold_char)
  /\ yy_n_chars' = IF yy_buffer_status = "NEW" THEN buf_n_chars ELSE yy_n_chars
  /\ yy_buffer_status' = IF yy_buffer_status = "NEW" THEN "NORMAL" ELSE yy_buffer_status
  /\ UNCHANGED <<input, yy_buf_size, buf_n_chars, yytext, yy_hold_char, yy_act, blocks, output>>

\* "This was really a NUL": yy_try_NUL_trans from the state before it.
ReallyNul ==
  /\ AtEndOfBuffer
  /\ yy_c_buf_p <= yy_n_chars'
  /\ LET p    == yytext + Matched
         r    == Rescanned(yy_ch_buf', yytext, p, last_accepting)
         next == Transition[r.state][1]
     IN /\ last_accepting' = Leaving(r.state, p, r.last)
        /\ \/ /\ next # Jam
              /\ yy_c_buf_p' = p + 1 /\ yy_cp' = p + 1
              /\ yy_current_state' = next /\ pc' = "match"
           \/ /\ next = Jam
              /\ yy_c_buf_p' = p /\ yy_cp' = p
              /\ yy_current_state' = r.state /\ pc' = "find"

ReallyEnd ==
  /\ AtEndOfBuffer
  /\ yy_c_buf_p > yy_n_chars'
  /\ pc' = "refill"
  /\ UNCHANGED <<yy_c_buf_p, match>>
-----------------------------------------------------------------------------
(***************************************************************************)
(* yy_get_next_buffer, and what yylex does of its answer.                  *)
(***************************************************************************)
\* Mutant of Moved: the text stays where it is.
Moved_Not(buf) == buf

\* The text of the token moves to the beginning of buf.
Moved(buf) == [p \in DOMAIN buf |-> IF p < Matched THEN buf[yytext + p] ELSE buf[p]]

\* The buffer doubles until there is room for one character, and an end.
Grown ==
  LET doubled[size \in Nat] == IF size - Matched - 1 > 0 THEN size ELSE doubled[2 * size]
  IN doubled[yy_buf_size]

\* Mutant of NumToRead: no room is kept for the marks.
NumToRead_NoMarks == Min({Grown - Matched + 1, YY_READ_BUF_SIZE})

NumToRead == Min({Grown - Matched - 1, YY_READ_BUF_SIZE})

\* realloc to size, with the n next characters of the stream after the token.
Filled(size, n) ==
  EndAt([p \in Cells(size) |->
           IF p \in DOMAIN yy_ch_buf /\ p < Matched THEN Moved(yy_ch_buf)[p]
           ELSE IF p - Matched < n THEN stream[taken + p - Matched + 1]
           ELSE IF p \in DOMAIN yy_ch_buf THEN yy_ch_buf[p] ELSE "unset"], Matched + n)

Refill(size, n, status) ==
  /\ yy_buf_size' = size /\ yy_ch_buf' = Filled(size, n)
  /\ yy_buffer_status' = status
  /\ buf_n_chars' = n /\ yy_n_chars' = Matched + n
  /\ yytext' = 0
  /\ taken' = taken + n
  /\ UNCHANGED <<stream, yy_act, blocks>>

\* The token's text is matched again in its new place.
Rematch(goto) ==
  LET r == Rescanned(yy_ch_buf', 0, Matched, last_accepting)
  IN /\ yy_c_buf_p' = Matched /\ yy_cp' = Matched
     /\ yy_current_state' = r.state /\ last_accepting' = r.last
     /\ pc' = goto
     /\ UNCHANGED <<yy_hold_char, output>>

\* YY_INPUT: read gives some of the characters that it is asked for.
ContinueScan ==
  /\ pc = "refill" /\ yy_buffer_status # "EOF_PENDING"
  /\ \E n \in 1 .. Min({NumToRead, Len(stream) - taken}) : Refill(Grown, n, yy_buffer_status)
  /\ Rematch("match")

\* The stream has ended, now or at the last call of read.
Ended == taken = Len(stream) \/ yy_buffer_status = "EOF_PENDING"

SizeAtEnd == IF yy_buffer_status = "EOF_PENDING" THEN yy_buf_size ELSE Grown

\* Mutant of LastMatch: the text that was matched is dropped.
LastMatch_Dropped ==
  /\ pc = "refill" /\ Ended /\ Matched > 0
  /\ Refill(SizeAtEnd, 0, "EOF_PENDING")
  /\ yy_c_buf_p' = 0 /\ yy_hold_char' = YY_END_OF_BUFFER_CHAR
  /\ eofs' = eofs + 1
  /\ pc' = "outside"
  /\ UNCHANGED <<match, tokens>>

LastMatch ==
  /\ pc = "refill" /\ Ended /\ Matched > 0
  /\ Refill(SizeAtEnd, 0, "EOF_PENDING")
  /\ Rematch("find")

\* yyrestart, then the action of <<EOF>>; the buffer is ready for another read.
EndOfFile ==
  /\ pc = "refill" /\ Ended /\ Matched = 0
  /\ Refill(SizeAtEnd, 0, "NEW")
  /\ yy_c_buf_p' = 0 /\ yy_hold_char' = YY_END_OF_BUFFER_CHAR
  /\ eofs' = eofs + 1
  /\ pc' = "outside"
  /\ UNCHANGED <<match, tokens>>

\* YY_FATAL_ERROR: read fails, and not because of a signal.
ReadError ==
  /\ pc = "refill" /\ yy_buffer_status # "EOF_PENDING"
  /\ pc' = "exit"
  /\ UNCHANGED <<input, buffer, pointers, yy_c_buf_p, yy_hold_char, match, yy_act, blocks, output>>

Yylex ==
  \/ BeginToken \/ Match \/ FindAction \/ Rule \/ ReturnPacket
  \/ ReallyNul \/ ReallyEnd \/ ContinueScan \/ LastMatch \/ EndOfFile

Next == InitScanner \/ FirstCall \/ Call \/ Destroy \/ Yylex \/ ReadError

Spec == Init /\ [][Next]_vars

\* yylex is one thread; the simulator answers or ends, so that read returns.
FairSpec == Spec /\ WF_vars(Yylex)
-----------------------------------------------------------------------------
(***************************************************************************)
(* Properties.                                                             *)
(***************************************************************************)
\* The pointers that yy_get_next_buffer moves are within what it keeps: "end of
\* buffer missed" is never reached, nor the second reallocation, for a read that
\* leaves no room (scanner.c:970, 1078).
EndNotMissed ==
  /\ pc = "refill" => yy_c_buf_p <= yy_n_chars + 1
  /\ "yy_ch_buf" \in blocks => yy_n_chars <= yy_buf_size

TypeOK ==
  /\ EndNotMissed
  /\ stream \in Streams /\ taken \in 0 .. Len(stream)
  /\ yy_buffer_status \in {"NEW", "NORMAL", "EOF_PENDING"}
  /\ "yy_ch_buf" \in blocks =>
       /\ yy_ch_buf \in [Cells(yy_buf_size) -> Classes \cup {"unset"}]
       /\ yytext <= yy_c_buf_p /\ yy_c_buf_p \in DOMAIN yy_ch_buf
       /\ yy_n_chars + 1 \in DOMAIN yy_ch_buf
  /\ yy_current_state \in 0 .. 13 /\ yy_act \in 0 .. 6
  /\ pc \in {"absent", "outside", "token", "match", "find", "action", "refill", "exit", "destroyed"}
  /\ eofs \in 0 .. MaxEofs + 1

\* A complete packet of s begins at p and ends at q.
PacketAt(s, p, q) ==
  /\ s[p] = "$" /\ q >= p + 3 /\ s[q] = "HEX" /\ s[q - 1] = "HEX" /\ s[q - 2] = "#"
  /\ \A m \in p + 1 .. q - 3 : s[m] \notin {"$", "#"}

\* The rule for the characters of s from p on, the longest text that matches
\* one, as scanner.l says, and where it ends.
TokenAt(s, p) ==
  LET ends == {q \in p .. Len(s) : PacketAt(s, p, q)}
      single == CASE s[p] = "+" -> 1 [] s[p] = "-" -> 2 [] s[p] = "EOL" -> 5 [] OTHER -> 4
  IN IF ends # {} THEN [rule |-> 3, end |-> Max(ends)] ELSE [rule |-> single, end |-> p]

Tokens(s) ==
  LET from[p \in 1 .. Len(s) + 1] ==
        IF p > Len(s) THEN <<>>
        ELSE LET t == TokenAt(s, p)
             IN <<[rule |-> t.rule, text |-> SubSeq(s, p, t.end)]>> \o from[t.end + 1]
  IN from[1]

\* However read cuts the stream into pieces, wherever the buffer ends and
\* whatever it holds, the tokens are those of the rules of scanner.l on the
\* whole stream, with their texts (scanner.l:63-77, scanner.c:735-946).
TokensOfStream == IsPrefix(tokens, Tokens(stream))

\* When yylex reports the end of the stream, every character was in a token.
NothingLost == eofs > 0 => tokens = Tokens(stream)

\* What was read and is in no token yet.
Pending == SubSeq(stream, Len(FlattenSeq([k \in DOMAIN tokens |-> tokens[k].text])) + 1, taken)

\* A packet that is not complete: a "$", characters other than "$" and "#",
\* then perhaps "#" and one digit.
Incomplete(s) ==
  LET marks == {p \in 2 .. Len(s) : s[p] \in {"$", "#"}}
  IN s # <<>> /\ s[1] = "$"
     /\ \/ marks = {}
        \/ \E p \in marks : /\ marks = {p} /\ s[p] = "#"
                            /\ Len(s) = p \/ (Len(s) = p + 1 /\ s[p + 1] = "HEX")

\* The scanner waits for characters only when those it has do not make a token:
\* a packet is answered as soon as its last digit has come, although the
\* simulator sends nothing more before that (scanner.l:59, gdb_protocol.c:75).
\* A null character outside a packet is the one that makes it wait.
WaitsOnlyForToken ==
  pc = "refill" => Pending = <<>> \/ Incomplete(Pending) \/ Pending = <<"NUL">>

\* Every call returns: a stream of characters that are no packet does not keep
\* yylex, and the end of the stream is found.
CallsReturn == (pc = "token") ~> (pc \in {"outside", "exit"})
=============================================================================
