---------------------------- MODULE MCScanner -----------------------------
EXTENDS Scanner

\* Every stream of up to four characters of those that change what a packet is.
Short == UNION {[1 .. n -> {"$", "#", "HEX", "NUL", "LET"}] : n \in 0 .. 4}

\* Streams longer than the buffer: packets, between signs and characters that
\* belong to none, whole or cut, with null characters and ends of lines.
Long == {
  <<"+", "$", "LET", "LET", "LET", "#", "HEX", "HEX", "-">>,
  <<"$", "HEX", "$", "HEX", "#", "HEX", "HEX", "HEX">>,
  <<"$", "LET", "EOL", "NUL", "LET", "#", "HEX", "LET", "+">>,
  <<"$", "#", "HEX", "HEX", "$", "#", "HEX", "HEX">>,
  <<"LET", "EOL", "$", "NUL", "NUL", "#", "HEX", "HEX">>}

MCStreams == Short \cup Long
=============================================================================
