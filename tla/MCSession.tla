----------------------------- MODULE MCSession -----------------------------
EXTENDS Session, MCGdbClient

\* With one name or both, after an option of no effect; without a name; and
\* what ends the program at once.
MCCommandLines == {<<"host", "service">>, <<"debug", "host">>, <<"debug">>, <<"service", "help">>, <<"raw">>}

Host(addresses, stream) == [addresses |-> addresses, stream |-> stream]

MCHosts == {
  Host(<<"accepts", "accepts">>, TRUE),
  Host(<<"nosocket", "refuses", "accepts">>, TRUE),
  Host(<<"refuses", "accepts">>, FALSE),
  Host(<<"refuses", "nosocket">>, TRUE),
  Host(<<>>, TRUE)}

\* Enough damage for every packet of the programs, a simulator that may end
\* with either kind of fault, and both kinds together.
BothKinds == {Bounds(d, s, TRUE) : d \in 1 .. 2, s \in 1 .. 2}

AllFaults == DamagedOnly \cup DamagedOrStray \cup BothKinds
=============================================================================
