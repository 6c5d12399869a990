------------------------------- MODULE MCElf --------------------------------
(***************************************************************************)
(* The files the runs load: every table of five sections with a symbol     *)
(* table and a table of strings, in every order of the indices and of the  *)
(* positions in the file.                                                  *)
(***************************************************************************)
EXTENDS Integers, FiniteSets, FiniteSetsExt

MCEhdrSize == 2
MCShdrSize == 1
MCSymSize  == 1

Slots == 1 .. 4
NbSections == 5

\* One symbol per section, and one in section 0 (undefined).
Symbols == 0 .. NbSections - 1

\* The types of sections 1 to 4: one symbol table, one string table that also
\* holds the names of the sections, and two others taken from others.
TypeTables(others) ==
  {t \in [Slots -> {"SYMTAB", "STRTAB"} \cup others] :
     /\ Cardinality({k \in Slots : t[k] = "SYMTAB"}) = 1
     /\ Cardinality({k \in Slots : t[k] = "STRTAB"}) = 1}

\* position[k]: the rank of section k in the file.
Orders == {p \in [Slots -> Slots] : \A k, l \in Slots : p[k] = p[l] => k = l}

\* A file with these types, this order, these sizes, and gap unused cells
\* after each section: relocation tables and symbol tables have none.
Table(type, position, size, gap) ==
  LET the(ty) == CHOOSE k \in Slots : type[k] = ty
      extent(k) == size[k] + gap[k]
      offset(k) == MCEhdrSize + MapThenSumSet(extent, {l \in Slots : position[l] < position[k]})
      \* SYMTAB is linked to its strings, HASH and REL to the symbols.
      link(k) == CASE type[k] = "SYMTAB"                  -> the("STRTAB")
                   [] type[k] \in {"HASH", "REL"} -> the("SYMTAB")
                   [] OTHER                               -> 0
      null == [sh_name |-> 0, sh_type |-> "NULL", sh_offset |-> 0,
               sh_size |-> 0, sh_link |-> 0, sh_info |-> 0]
      header(k) == [sh_name |-> k, sh_type |-> type[k], sh_offset |-> offset(k),
                    sh_size |-> size[k], sh_link |-> link(k), sh_info |-> 0]
  IN [e_shnum    |-> NbSections,
      e_shoff    |-> MCEhdrSize + MapThenSumSet(extent, Slots),
      e_shstrndx |-> the("STRTAB"),
      sect       |-> [k \in 0 .. NbSections - 1 |-> IF k = 0 THEN null ELSE header(k)],
      nsym       |-> NbSections,
      sym        |-> [l \in Symbols |->
                        [st_shndx |-> IF l # 0 /\ type[l] = "REL" THEN 0 ELSE l, st_value |-> 0]],
      rel        |-> {}]

\* The symbol table has one cell per symbol, the strings one per name.
Sizes(type, sizes) ==
  {f \in [Slots -> sizes \cup {NbSections}] :
     \A k \in Slots : IF type[k] \in {"SYMTAB", "STRTAB"} THEN f[k] = NbSections
                                                           ELSE f[k] \in sizes}

NoGap == [k \in Slots |-> 0]

\* The orders loadSectionContent accepts (ElfLayout): what is not a relocation
\* table lies before the section of the next index, the last section is last.
Ordered(type, size, position) ==
  /\ \A k \in Slots \ {4} : type[k] # "REL" /\ size[k] # 0 => position[k] < position[k + 1]
  /\ size[4] # 0 => position[4] = 4

Tables(others, sizes) ==
  UNION {UNION {{Table(t, p, f, NoGap) : p \in {p \in Orders : Ordered(t, f, p)}}
                  : f \in Sizes(t, sizes)} : t \in TypeTables(others)}
=============================================================================
