------------------------------- MODULE ElfMain -------------------------------
(***************************************************************************)
(* The data of the program: an ELF file on disk, and the structure         *)
(* Elf32_Main (structure.h) into which the loaders read it.                *)
(*                                                                         *)
(* A file is a row of cells: EhdrSize cells of ELF header, then the bytes  *)
(* of the sections, and, from e_shoff on, ShdrSize cells per section       *)
(* header.  A symbol takes SymSize cells, 16 bytes in the code.  The text  *)
(* of a name is abstracted to its index sh_name in the table of names.     *)
(*                                                                         *)
(* Sections are numbered from 0, as in the code.                           *)
(***************************************************************************)
EXTENDS Integers, FiniteSets, FiniteSetsExt

CONSTANTS EhdrSize,   \* e_ehsize, in cells
          ShdrSize,   \* e_shentsize, in cells
          SymSize     \* size of an entry of the symbol table, in cells

ASSUME SizesAssumption ==
  /\ EhdrSize \in Nat \ {0}
  /\ ShdrSize \in Nat \ {0}
  /\ SymSize  \in Nat \ {0}

\* The other types (SHT_RELA, SHT_GROUP, SHT_ARM_EXIDX) are to the program as
\* PROGBITS is: it does not look at their sh_link, although it is the index of
\* a section.
SectTypes ==
  {"NULL", "PROGBITS", "STRTAB", "NOBITS", "REL", "SYMTAB", "HASH", "DYNAMIC"}

\* The types whose sh_link deleteRel renumbers (linkCondition).
LinkTypes == {"HASH", "DYNAMIC", "SYMTAB"}

Elf32_Shdr == [sh_name : Nat, sh_type : SectTypes, sh_offset : Nat,
               sh_size : Nat, sh_link : Nat, sh_info : Nat]

Elf32_Sym == [st_shndx : Nat, st_value : Nat]

\* An entry of a relocation table, with the place in the file it is about.
RelTypes == {"ABS32", "ABS16", "ABS8", "CALL"}

\* SectionContent: the size of the bytes held, where they were in the source
\* file, and the state of the pointer that holds them.
Pointers == {"uninit", "null", "heap", "freed"}

SectionContent == [size : Nat, from : Nat, ptr : Pointers]
-----------------------------------------------------------------------------
(***************************************************************************)
(* The files.                                                              *)
(***************************************************************************)
Index(s) == 0 .. s.e_shnum - 1

Filled(s, k) == s.sect[k].sh_size # 0

\* Shape of a file: its headers and the entries of its first symbol table.
ElfShape(s) ==
  /\ s.e_shnum \in Nat \ {0}
  /\ s.e_shoff \in Nat
  /\ s.e_shstrndx \in Index(s)
  /\ s.sect \in [Index(s) -> Elf32_Shdr]
  /\ s.nsym \in Nat
  /\ s.sym \in [0 .. s.nsym - 1 -> Elf32_Sym]
  /\ s.rel \subseteq [r_type : RelTypes, r_sym : 0 .. s.nsym - 1, place : Nat]

\* The tables an assembler writes, which nothing in the program checks: section
\* 0 is the null section and has no bytes, a section that holds symbols is no
\* relocation table and has no sh_info, the names tell the sections apart, and
\* neither the table of names nor what a symbol table or a hash table is linked
\* to is a relocation table.
ElfTables(s) ==
  /\ s.sect[0].sh_type = "NULL" /\ s.sect[0].sh_size = 0
  /\ \A l \in 0 .. s.nsym - 1 : s.sym[l].st_shndx \in Index(s) =>
       LET h == s.sect[s.sym[l].st_shndx] IN h.sh_type # "REL" /\ h.sh_info = 0
  /\ \A k, l \in Index(s) : s.sect[k].sh_name = s.sect[l].sh_name => k = l
  /\ s.sect[s.e_shstrndx].sh_type # "REL"
  /\ \A k \in Index(s) : s.sect[k].sh_type \in LinkTypes =>
       s.sect[k].sh_link \in Index(s) /\ s.sect[s.sect[k].sh_link].sh_type # "REL"

\* The part of the layout that loadSectionContent enforces: without it some
\* section has no positive size to be read with, and the program exits.  A
\* section that is neither a relocation table nor the last one is followed, in
\* the file, by the section of the next index, possibly after others; the last
\* one starts before the section headers.
CheckedLayout(s) ==
  LET off(k) == s.sect[k].sh_offset
      last   == s.e_shnum - 1
  IN
  /\ \A k \in Index(s) : Filled(s, k) /\ k # last /\ s.sect[k].sh_type # "REL" => off(k) < off(k + 1)
  /\ Filled(s, last) => off(last) < s.e_shoff

\* The rest of it, which the program supposes of the files that assemblers write
\* and never looks at: the bytes of distinct sections lie apart, between the ELF
\* header and the section headers, and the last section comes last in the file.
SupposedLayout(s) ==
  LET off(k) == s.sect[k].sh_offset
      last   == s.e_shnum - 1
  IN
  /\ \A k \in Index(s) : Filled(s, k) => EhdrSize <= off(k) /\ off(k) < s.e_shoff
  /\ \A k \in Index(s) : off(k) <= s.e_shoff
  /\ \A k, l \in Index(s) :
        /\ Filled(s, k) /\ Filled(s, l) /\ off(k) = off(l) => k = l
        /\ s.sect[k].sh_type = "REL" /\ off(k) < off(l) => off(k) + s.sect[k].sh_size <= off(l)
  /\ \A k \in Index(s) : s.sect[k].sh_type = "REL" => off(k) + s.sect[k].sh_size <= s.e_shoff
  /\ Filled(s, last) =>
        /\ \A k \in Index(s) : off(k) <= off(last)
        /\ s.sect[last].sh_type = "REL" => off(last) + s.sect[last].sh_size = s.e_shoff

ElfLayout(s) == CheckedLayout(s) /\ SupposedLayout(s)

ElfFile(s) == ElfShape(s) /\ ElfTables(s) /\ ElfLayout(s)

\* Every symbol is defined in a section, or undefined (index 0): none has a
\* reserved index such as SHN_ABS.
OrdinarySymbols(s) == \A l \in 0 .. s.nsym - 1 : s.sym[l].st_shndx \in Index(s)
-----------------------------------------------------------------------------
(***************************************************************************)
(* loadSectionContent.  A section that is not a relocation table is read   *)
(* up to the next section of the file, so that the bytes between two       *)
(* sections are kept; the section of the last index is read up to the      *)
(* section headers.  The pointer of an empty section is not written.       *)
(***************************************************************************)
NextOffset(s, k) ==
  Min({s.sect[k + 1].sh_offset} \cup
      {s.sect[j].sh_offset : j \in {j \in Index(s) : s.sect[j].sh_offset > s.sect[k].sh_offset}})

LoadedSize(s, k) ==
  CASE ~Filled(s, k)                                   -> 0
    [] Filled(s, k) /\ k = s.e_shnum - 1               -> s.e_shoff - s.sect[k].sh_offset
    [] Filled(s, k) /\ k # s.e_shnum - 1 /\ s.sect[k].sh_type = "REL" -> s.sect[k].sh_size
    [] OTHER                                           -> NextOffset(s, k) - s.sect[k].sh_offset

LoadedContent(s) ==
  [k \in Index(s) |-> [size |-> LoadedSize(s, k),
                       from |-> s.sect[k].sh_offset,
                       ptr  |-> IF Filled(s, k) THEN "heap" ELSE "uninit"]]
=============================================================================
