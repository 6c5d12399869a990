---------------------------- MODULE MCARM_runner ----------------------------
EXTENDS ARM_runner, MCElf

MCTextName == 1
MCDataName == 2

\* So small that two corrections go past it.
MCWord == 3

\* Code, data and relocation tables.
RunnerFiles == Tables({"REL", "PROGBITS"}, {2})

Op(o) == [opt |-> o, addr |-> CASE o = "text" -> 1 [] o = "data" -> 2 [] OTHER -> 0]

\* -x, of any section and of none.
Dump(number) == [opt |-> "x", addr |-> number]

Dumps == {Dump(number) : number \in {-1, 1, NbSections}}

Ops == {Op(o) : o \in {"a", "w", "d", "text", "data"}}

\* Every command line of two options, and longer ones that come back to an
\* option, or display, after another has changed what they work on.
CommandLines ==
  {<<o>> : o \in Ops \cup {Op("?")}} \cup {<<o, p>> : o \in Ops, p \in Ops}
    \cup {<<Op("h"), Op("S"), Op("s"), Op("r"), Op("j")>>}
    \cup {<<Op("d"), p>> : p \in Dumps \cup {Op("j")}}
    \cup {<<Op("text"), Op("d"), Op("w")>>, <<Op("text"), Op("data"), Op("text")>>}

\* A small object file: .text, its relocation table, the symbols and the
\* strings, with gap unused cells before .text and what is given of the
\* relocations and of the section of the last symbol.
ObjectFile(gap, rel, ndx) ==
  LET s == Table(<<"PROGBITS", "REL", "SYMTAB", "STRTAB">>, <<1, 2, 3, 4>>,
                 <<2, 2, NbSections, NbSections>>, NoGap)
      off(k) == IF k = 0 THEN 0 ELSE s.sect[k].sh_offset + gap
  IN [s EXCEPT !.sect = [k \in DOMAIN @ |-> [@[k] EXCEPT !.sh_offset = off(k)]],
               !.e_shoff = @ + gap,
               !.rel = rel,
               !.sym[4].st_shndx = ndx]

ShnAbs == 9

\* An entry about the first cell of .text, for symbol l.
Rel(type, l) == [r_type |-> type, r_sym |-> l, place |-> MCEhdrSize]

\* Ordinary, with an absolute symbol, with a relocation of each kind.
OddFiles == {ObjectFile(0, rel, ndx) : rel \in {{}, {Rel("ABS32", 1)}, {Rel("ABS16", 1)}, {Rel("CALL", 4)}},
                                       ndx \in {4, ShnAbs}}

RunFiles == RunnerFiles \cup OddFiles

\* The odd files are written to disks from no room at all to room for
\* everything, the others to one with room for everything.
RunRooms == [s \in RunFiles |-> IF s \in OddFiles THEN {0, 1, 3, 9, 17, 20, 100} ELSE {100}]

PlainFiles == {ObjectFile(0, {}, 4)}

LargeDisk == [s \in PlainFiles |-> {100}]
=============================================================================
