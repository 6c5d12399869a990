---------------------------- MODULE MCGdbClient -----------------------------
EXTENDS GdbClient

\* sample_run, and a program that steps twice before it lets go.
SampleRun == <<"X", "P", "c">>
Stepping  == <<"P", "s", "s", "c">>

\* A program that looks at one step and ends, leaving the simulation there.
Leaving == <<"X", "s">>

MCPrograms == {SampleRun, Stepping, Leaving}

Bounds(damaged, stray, exit) == [damaged |-> damaged, stray |-> stray, exit |-> exit]

\* Enough damage for every packet of the programs.
DamagedOnly == {Bounds(6, 0, FALSE)}

\* The simulator may end, with either kind of fault.
DamagedOrStray == {Bounds(4, 0, TRUE), Bounds(0, 4, TRUE)}

\* One of each.
DamagedAndStray == {Bounds(1, 1, FALSE)}
=============================================================================
