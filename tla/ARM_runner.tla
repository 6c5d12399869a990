----------------------------- MODULE ARM_runner -----------------------------
(***************************************************************************)
(* main (ARM_runner.c): the loop on the options, what each of them does to *)
(* Elf32_Main, and what is then written to the destination file.           *)
(*                                                                         *)
(* A file is a sequence of cells <<kind, what, j>>: the j-th cell of the   *)
(* ELF header, of a section header or of a symbol, or a byte, named by its *)
(* position in the source file.  Cell p of a file is element p + 1.        *)
(***************************************************************************)
EXTENDS Implantation, Sequences, SequencesExt

CONSTANTS Argvs,               \* the sequences of options a command line may give
          TextName, DataName,  \* where ".text" and ".data" are in the table of names
          Word,                \* the number of values of a uint32_t
          Rooms                \* the cells the destination's disk may have room for, by source

Displays == {"h", "S", "s", "r", "x", "j", "a"}
\* addr is the address of --text and --data, and the number given to -x.
Options  == [opt : Displays \cup {"w", "d", "text", "data", "?"}, addr : Int]

ASSUME ArgvsAssumption == \A a \in Argvs : a \in Seq(Options)
ASSUME NamesAssumption == TextName \in Nat /\ DataName \in Nat /\ TextName # DataName
ASSUME WordAssumption ==
  Word \in Nat \ {0} /\ \A s \in Sources : \A l \in DOMAIN s.sym : s.sym[l].st_value < Word
ASSUME RoomsAssumption == Rooms \in [Sources -> SUBSET Nat]

VARIABLES argv, optind,   \* the options, and how many getopt_long has returned
          f_dest,         \* TRUE when --dest named a file that could be opened
          dest,           \* the cells of the destination file
          room            \* the cells its disk has room for: no step changes it

runVars == <<argv, optind, f_dest, dest, room>>
allVars == <<vars, runVars>>

RInit ==
  /\ source \in Sources /\ Loaded /\ i = 0
  /\ pc = "options"
  /\ argv \in Argvs /\ optind = 0
  /\ f_dest \in BOOLEAN
  /\ dest = <<>> /\ room \in Rooms[source]
-----------------------------------------------------------------------------
(***************************************************************************)
(* The options.                                                            *)
(***************************************************************************)
Option == argv[optind]

\* getopt_long returns one option more; goto says which code handles it.
Handle(opts, goto) ==
  /\ pc = "options" /\ optind < Len(argv)
  /\ argv[optind + 1].opt \in opts
  /\ optind' = optind + 1
  /\ pc' = goto
  /\ UNCHANGED <<elfVars, argv, f_dest, dest, room>>

\* The options that only display.
Display == Handle(Displays, "options") /\ UNCHANGED i

\* What they read out of the tables of Elf32_Main: printSectionHeader, the header
\* of the names; printSymTable, the header before it, taken for that of the
\* strings.
HeadersOutside == e_shstrndx \notin Live

SymbolsOutside == source.nsym # 0 /\ e_shstrndx - 1 \notin Live

\* printRelocTable, which goes on with the tables that -d has deleted, the header
\* of the section of a symbol that has no value, or that of the strings.
RelocsOutside ==
  \E r \in source.rel : IF symTable[r.r_sym].st_value = 0
                        THEN HeadersOutside \/ symTable[r.r_sym].st_shndx \notin Live
                        ELSE SymbolsOutside

\* printSectionContentOne, sh_size bytes of a block that may hold fewer.
ContentOutside(k) == k < 0 \/ (k \in Live /\ sectHeader[k].sh_size > sectionContent[k].size)

\* printSectionContent.
ContentsOutside == \E k \in Live : ContentOutside(k)

Outside(o) ==
  \/ o.opt \in {"S", "a"} /\ HeadersOutside
  \/ o.opt \in {"s", "a"} /\ SymbolsOutside
  \/ o.opt \in {"r", "a"} /\ RelocsOutside
  \/ o.opt = "x" /\ ContentOutside(o.addr)
  \/ o.opt = "j" /\ ContentsOutside

\* It may lie in no page of the process.
CrashInDisplay ==
  /\ Handle(Displays, "abort") /\ Outside(argv[optind + 1])
  /\ UNCHANGED i

\* -w, --text and --data; -d starts deleteRel at section 0.
Write   == f_dest /\ Handle({"w"}, "write") /\ UNCHANGED i
Correct == f_dest /\ Handle({"text", "data"}, "correct") /\ UNCHANGED i
Delete  == f_dest /\ Handle({"d"}, "deleteRel") /\ i' = 0

\* Without a destination they end the program, as an unknown option does.
NoDestination == ~f_dest /\ Handle({"w", "d", "text", "data"}, "exit") /\ UNCHANGED i
Unrecognized  == Handle({"?"}, "exit") /\ UNCHANGED i

\* deleteRel, as module Implantation has it.
DeleteRel ==
  /\ SkipSection \/ DeleteSection \/ AbortOnUninitialised \/ EndDeleteRel
  /\ UNCHANGED runVars
-----------------------------------------------------------------------------
(***************************************************************************)
(* correctSymTable and correctABSReloc.                                    *)
(***************************************************************************)
\* Mutant of NameRead: the name is looked for in the table of the symbols.
NameRead_NoName(n) == sectHeader[n].sh_offset

\* The name printName reads for section n: f_source at the position that the
\* header in memory gives, as an index in the table of names of the file.
NameRead(n) == sectHeader[e_shstrndx].sh_offset + sectHeader[n].sh_name
                 - source.sect[source.e_shstrndx].sh_offset

Target == IF Option.opt = "text" THEN TextName ELSE DataName

\* The symbols with a reserved index: sectHeader is read out of its bounds, by
\* correctSymTable and again by correctABSReloc.
OutOfTable == {l \in DOMAIN symTable : symTable[l].st_shndx \notin Index(source)}

\* Mutant of Corrected: the address replaces the value.
Corrected_Set(l, moved) ==
  [symTable[l] EXCEPT !.st_value = IF moved THEN Option.addr ELSE @]

Corrected(l, moved) ==
  [symTable[l] EXCEPT !.st_value = IF moved THEN (@ + Option.addr) % Word ELSE @]

\* What is read out of bounds may happen to lead to the name looked for.
CorrectSymTable ==
  /\ pc = "correct"
  /\ \E misread \in SUBSET OutOfTable :
       symTable' = [l \in DOMAIN symTable |->
                      Corrected(l, IF l \in OutOfTable THEN l \in misread
                                   ELSE NameRead(symTable[l].st_shndx) = Target)]
  /\ pc' = "relocate"
  /\ UNCHANGED <<source, header, sectHeader, sectionContent, i, runVars>>

\* It may also lie in no page of the process.
CrashOutOfTable ==
  /\ pc = "correct" /\ OutOfTable # {}
  /\ pc' = "abort"
  /\ UNCHANGED <<elfVars, i, runVars>>

\* The entries correctABSReloc applies: it writes a byte in the section whose
\* number is the sh_info of the symbol's section.
Applied == {r \in source.rel : r.r_type \in {"ABS16", "ABS8"}}

Place(r) == sectionContent[sectHeader[symTable[r.r_sym].st_shndx].sh_info]

\* sh_info is 0 for a section that defines symbols, and section 0 has no bytes:
\* the write goes to an address that was never set, out of Elf32_Main.
CorrectABSReloc ==
  /\ pc = "relocate"
  /\ pc' = "write"
  /\ UNCHANGED <<elfVars, i, runVars>>

\* The place is looked for whatever the type of the entry.
Astray == {r \in source.rel : r.r_sym \in OutOfTable \/ (r \in Applied /\ Place(r).ptr # "heap")}

CrashInReloc ==
  /\ pc = "relocate" /\ Astray # {}
  /\ pc' = "abort"
  /\ UNCHANGED <<elfVars, i, runVars>>
-----------------------------------------------------------------------------
(***************************************************************************)
(* writeFile.c.                                                            *)
(***************************************************************************)
Entry(kind, what, size) == [j \in 1 .. size |-> <<kind, what, j>>]

Bytes(from, size) == [j \in 1 .. size |-> <<"byte", from + j - 1, 1>>]

HeaderCells == Entry("ehdr", <<e_shnum, e_shoff, e_shstrndx>>, EhdrSize)

\* The whole symbol table is written for a section of type SYMTAB.
SymTabCells == FlattenSeq([l \in 1 .. source.nsym |->
                 Entry("sym", <<l - 1, symTable[l - 1].st_shndx, symTable[l - 1].st_value>>, SymSize)])

SectionCells(k) ==
  IF sectHeader[k].sh_type = "SYMTAB" THEN SymTabCells
  ELSE Bytes(sectionContent[k].from, sectionContent[k].size)

\* Mutant of Before: the order of the table.
Before_Index(k, l) == k < l

\* compare; sections at the same offset stay in the order of the table.
Before(k, l) ==
  \/ sectHeader[k].sh_offset < sectHeader[l].sh_offset
  \/ sectHeader[k].sh_offset = sectHeader[l].sh_offset /\ k < l

\* tab after qsort.
WriteOrder == [n \in 1 .. e_shnum |->
                 CHOOSE k \in Live : Cardinality({l \in Live : Before(l, k)}) = n - 1]

ContentCells ==
  LET order == WriteOrder
      cells == [n \in 1 .. e_shnum |-> SectionCells(order[n])]
  IN FlattenSeq(cells)

SectHeaderCells == FlattenSeq([k \in 1 .. e_shnum |-> Entry("shdr", sectHeader[k - 1], ShdrSize)])

\* The part of cells that the disk has room for, from position p on.
Fitting(p, cells) == SubSeq(cells, 1, Min({Len(cells), Max({0, room - p})}))

\* fwrite of cells at position p, over what the file has there.
Overwrite(p, cells) ==
  dest' = IF p > Len(dest) THEN dest
          ELSE SubSeq(dest, 1, p) \o cells \o SubSeq(dest, p + Len(cells) + 1, Len(dest))

Put(p, cells) == Overwrite(p, Fitting(p, cells))

Full(p, cells) == p + Len(cells) > room

\* fwrite reports a full disk, and the program ends.
WriteFails(stage, p, cells) ==
  /\ pc = stage /\ Full(p, cells)
  /\ Put(p, cells)
  /\ pc' = "exit"
  /\ UNCHANGED <<elfVars, i, argv, optind, f_dest, room>>

\* Or it puts the cells in the buffer of the stream, which is emptied when
\* nobody looks at the result any more.
Writes(stage, p, cells, goto) ==
  /\ pc = stage
  /\ Put(p, cells)
  /\ pc' = goto
  /\ UNCHANGED <<elfVars, i, argv, optind, f_dest, room>>

\* Mutant of WriteHeader: no fseek, the file is written after what it has.
WriteHeader_Append == Writes("write", Len(dest), HeaderCells, "content")

WriteHeader         == Writes("write", 0, HeaderCells, "content")
WriteSectionContent == Writes("content", EhdrSize, ContentCells, "headers")
WriteSectionHeader  == Writes("headers", EhdrSize + Len(ContentCells), SectHeaderCells, "options")

HeaderFails  == WriteFails("write", 0, HeaderCells)
ContentFails == WriteFails("content", EhdrSize, ContentCells)

\* The end of main: the options are used up, the two files are closed and the
\* blocks of the heap released.  A pointer that was never written and is given
\* to free is read here as a NULL.
Return ==
  /\ pc = "options" /\ optind = Len(argv)
  /\ pc' = "done"
  /\ UNCHANGED <<elfVars, i, runVars>>

\* It may instead find an arbitrary address there, as in AbortOnUninitialised:
\* the pointer of section 0 is never written.  The files are closed by then.
AbortInFree ==
  /\ pc = "options" /\ optind = Len(argv)
  /\ \E k \in Live : sectionContent[k].ptr = "uninit"
  /\ pc' = "abortInFree"
  /\ UNCHANGED <<elfVars, i, runVars>>

RNext ==
  \/ Display \/ CrashInDisplay \/ Write \/ Correct \/ Delete \/ NoDestination \/ Unrecognized
  \/ DeleteRel
  \/ CorrectSymTable \/ CrashOutOfTable \/ CorrectABSReloc \/ CrashInReloc
  \/ WriteHeader \/ WriteSectionContent \/ WriteSectionHeader \/ HeaderFails \/ ContentFails
  \/ Return \/ AbortInFree

RSpec == RInit /\ [][RNext]_allVars

\* The program is one thread and waits for nothing but the disk.
RFairSpec == RSpec /\ WF_allVars(RNext)
-----------------------------------------------------------------------------
(***************************************************************************)
(* Properties.                                                             *)
(***************************************************************************)
RTypeOK ==
  /\ TypeOK
  /\ argv \in Argvs /\ optind \in 0 .. Len(argv) /\ f_dest \in BOOLEAN
  /\ room \in Rooms[source] /\ Len(dest) <= room
  /\ \A q \in DOMAIN dest : dest[q][1] \in {"ehdr", "shdr", "sym", "byte"}

Handled(o) == \E n \in 1 .. optind : argv[n].opt = o

\* No option that writes came before position n of the command line.
FirstWrite(n) == \A m \in 1 .. n - 1 : argv[m].opt \in Displays

\* The position p of the source file is among what the program holds for
\* section k: the bytes the loader read or, for the symbol table, its entries.
HeldBytes(s, k) == IF s.sect[k].sh_type = "SYMTAB" THEN s.nsym * SymSize ELSE LoadedSize(s, k)

Held(s, k, p) == s.sect[k].sh_offset <= p /\ p < s.sect[k].sh_offset + HeldBytes(s, k)

\* Every byte between the ELF header and the section headers, which come after
\* it, is held: nothing lies before the first section nor after a symbol or a
\* relocation table; and the entries of a symbol table lie in its own bytes.
Packed(s) ==
  /\ EhdrSize <= s.e_shoff
  /\ \A k \in Index(s) : HeldBytes(s, k) <= LoadedSize(s, k)
  /\ \A p \in EhdrSize .. s.e_shoff - 1 : \E k \in Index(s) : Filled(s, k) /\ Held(s, k, p)

FileSize == e_shoff + e_shnum * ShdrSize

\* Cell p of the source file.
SourceCell(p) ==
  LET symtab == {k \in Index(source) : source.sect[k].sh_type = "SYMTAB" /\ Held(source, k, p)}
      part(from, size) == <<(p - from) \div size, ((p - from) % size) + 1>>
  IN CASE p < EhdrSize       -> <<"ehdr", <<source.e_shnum, source.e_shoff, source.e_shstrndx>>, p + 1>>
       [] p >= source.e_shoff -> LET e == part(source.e_shoff, ShdrSize)
                                 IN <<"shdr", source.sect[e[1]], e[2]>>
       [] p >= EhdrSize /\ p < source.e_shoff /\ symtab # {} ->
            LET e == part(source.sect[CHOOSE k \in symtab : TRUE].sh_offset, SymSize)
            IN <<"sym", <<e[1], source.sym[e[1]].st_shndx, source.sym[e[1]].st_value>>, e[2]>>
       [] OTHER -> <<"byte", p, 1>>

SourceCells == [q \in 1 .. source.e_shoff + source.e_shnum * ShdrSize |-> SourceCell(q - 1)]

\* The write is finished and nothing of it was lost.
Settled == pc = "options" /\ Len(dest) > 0 /\ Len(dest) < room

\* -w copies the source file to the destination, cell for cell, although the
\* copy is built again from Elf32_Main, in the order of the offsets
\* (ARM_runner.c:22, writeFile.c:113-153).
OnlyCopies == \A n \in 1 .. optind : argv[n].opt \in Displays \cup {"w"}

IsCopy == Settled /\ OnlyCopies => dest = SourceCells

CopyFaithful == Packed(source) => IsCopy

\* At any moment of it, on a disk that is full or not, after a first copy or
\* not, the destination is the beginning of the source file: no cell is written
\* past one that was lost (writeFile.c:4, 113-165).
CopyIsPrefix ==
  Packed(source) /\ OnlyCopies => IsPrefix(dest, SourceCells)

\* What is written reads back as what Elf32_Main holds: each header designates
\* the place where writeSectionContent, which only follows the order of the
\* offsets, has put the bytes of that section, whatever was deleted before
\* (writeFile.c:126-151, implantation.c:15, 33-35).
ReadsBack ==
  Settled /\ Packed(source) =>
    /\ SubSeq(dest, 1, EhdrSize) = HeaderCells
    /\ SubSeq(dest, e_shoff + 1, FileSize) = SectHeaderCells
    /\ \A k \in Live : sectionContent[k].size # 0 =>
         SubSeq(dest, sectHeader[k].sh_offset + 1, sectHeader[k].sh_offset + Len(SectionCells(k)))
           = SectionCells(k)

\* The destination ends with the section headers (ARM_runner.c:23).
NoStaleTail == Settled => Len(dest) = FileSize

\* It does when the first option that writes is the one that deletes.
NoTailWhenDeletedFirst ==
  Packed(source) /\ (\A n \in 1 .. optind : argv[n].opt = "d" => FirstWrite(n)) => NoStaleTail

\* --text and --data move each symbol by the address given to its section, and
\* no other symbol, over all the options handled, up to the width of an address
\* (ARM_runner.c:24, implantation.c:57-69).
SymbolsRelocated ==
  pc = "options" => \A l \in DOMAIN symTable \ OutOfTable :
    LET name == source.sect[source.sym[l].st_shndx].sh_name
        opt  == CASE name = TextName -> "text" [] name = DataName -> "data" [] OTHER -> "none"
        sum  == MapThenSumSet(LAMBDA n : argv[n].addr, {n \in 1 .. optind : argv[n].opt = opt})
    IN symTable[l].st_value = (source.sym[l].st_value + sum) % Word

\* They do as long as no relocation table was deleted.
SymbolsRelocatedBeforeDelete == ~Handled("d") => SymbolsRelocated

\* While it handles the options, the ones that delete, renumber and move
\* sections included, the program only crashes on a file that has what it cannot
\* take: a symbol with a reserved index, a relocation of 8 or 16 bits, a section
\* without bytes after a relocation table, a section of which the file has not
\* all the bytes, no table of names; or when -x is given a negative number
\* (ARM_runner.c:73-150).  Of the release of the heap, once the files are
\* closed, it says nothing: that may abort on every file (AbortInFree).
OptionsCrashOnOddFiles ==
  pc = "abort" =>
    \/ ~OrdinarySymbols(source)
    \/ Applied # {}
    \/ \E k, l \in Index(source) : k <= l /\ source.sect[k].sh_type = "REL" /\ ~Filled(source, l)
    \/ \E k \in Index(source) : source.sect[k].sh_size > LoadedSize(source, k)
    \/ source.e_shstrndx = 0
    \/ Option.opt = "x" /\ Option.addr < 0

\* The program comes to an end.
Ends == <>(pc \in {"done", "exit", "abort", "abortInFree"})
=============================================================================
