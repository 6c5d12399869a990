--------------------------- MODULE MCImplantation ---------------------------
EXTENDS Implantation, MCElf

\* Relocation tables, code and hash tables, empty or not.
AssembledFiles == Tables({"REL", "PROGBITS", "HASH"}, {0, 1, 2})

\* One relocation table followed by the symbols, one symbol being absolute.
AbsoluteSymbolFile ==
  LET s == Table(<<"PROGBITS", "REL", "SYMTAB", "STRTAB">>, <<1, 2, 3, 4>>,
                 <<2, 2, NbSections, NbSections>>, NoGap)
  IN {[s EXCEPT !.sym[1].st_shndx = 9]}
=============================================================================
