------------------------------- MODULE Loading -------------------------------
(***************************************************************************)
(* The start of main (ARM_runner.c): the scan of the command line, which   *)
(* opens the files, and the five loaders, which read the source file into  *)
(* Elf32_Main or end the program.                                          *)
(*                                                                         *)
(* A file has the shape of ElfMain, and its real number of cells and its   *)
(* magic number, with which none of its headers need agree.                *)
(***************************************************************************)
EXTENDS ElfMain, Sequences

CONSTANTS Launches,    \* the command lines and the files they are given
          MaxRelTables,\* the entries of TabNb: 256 in the code
          RelSize      \* size of an entry of a relocation table, in cells

\* An argument that matters: the option, and what fopen makes of its file.
Arguments == [option : {"dest", "source"}, fopen : {"opened", "denied", "missing"}]

ASSUME LaunchesAssumption ==
  \A x \in Launches : /\ x.args \in Seq(Arguments)
                      /\ ElfShape(x.file) /\ x.file.cells \in Nat /\ x.file.magic \in BOOLEAN
ASSUME RelTablesAssumption == MaxRelTables \in Nat \ {0} /\ RelSize \in Nat \ {0}

VARIABLES args, file,
          i,           \* the loop index of the function at work
          f_source, f_dest,
          nbSections,  \* tabSecRel.nbSections
          content,     \* ELF->sectionContent, as far as it is loaded
          pc

files == <<args, file>>
vars  == <<files, i, f_source, f_dest, nbSections, content, pc>>

Init ==
  /\ \E x \in Launches : args = x.args /\ file = x.file
  /\ i = 1
  /\ f_source = FALSE /\ f_dest = FALSE
  /\ nbSections = 0 /\ content = <<>>
  /\ pc = "scan"
-----------------------------------------------------------------------------
Scanning(option) == pc = "scan" /\ i <= Len(args) /\ args[i].option = option

\* --dest file: fopen creates the file, or empties it.
ScanDest ==
  /\ Scanning("dest")
  /\ f_dest' = (args[i].fopen # "denied")
  /\ i' = i + 1
  /\ UNCHANGED <<files, f_source, nbSections, content, pc>>

\* --source file: a file that does not exist is passed over.
ScanSource ==
  /\ Scanning("source")
  /\ f_source' = (IF args[i].fopen = "missing" THEN f_source ELSE args[i].fopen = "opened")
  /\ i' = i + 1
  /\ UNCHANGED <<files, f_dest, nbSections, content, pc>>

Goto(stage, index) ==
  /\ pc' = stage /\ i' = index
  /\ UNCHANGED <<files, f_source, f_dest>>

EndScan ==
  /\ pc = "scan" /\ i > Len(args)
  /\ Goto(IF f_source THEN "header" ELSE "exit", 0)
  /\ UNCHANGED <<nbSections, content>>

\* The file has size cells from position offset on.
Readable(offset, size) == offset + size <= file.cells

\* A table is read entry by entry: what is left of sh_size after the last whole
\* entry is not read, nor a table that has none.
EntriesReadable(h, entry) ==
  h.sh_size < entry \/ Readable(h.sh_offset, (h.sh_size \div entry) * entry)

\* loadHeader.
LoadHeader ==
  /\ pc = "header"
  /\ Goto(IF Readable(0, EhdrSize) /\ file.magic THEN "sections" ELSE "exit", 0)
  /\ UNCHANGED <<nbSections, content>>

\* Mutant of LoadTabSectionHeader: the end of the file is not seen.
LoadTabSectionHeader_Unread ==
  /\ pc = "sections"
  /\ Goto("symbols", 0)
  /\ UNCHANGED <<nbSections, content>>

\* loadTabSectionHeader returns NULL at the end of the file, and main goes on:
\* loadSymTable reads a section header there.
LoadTabSectionHeader ==
  /\ pc = "sections"
  /\ Goto(IF Readable(file.e_shoff, file.e_shnum * ShdrSize) THEN "symbols" ELSE "crash", 0)
  /\ UNCHANGED <<nbSections, content>>

SymTabs == {k \in Index(file) : file.sect[k].sh_type = "SYMTAB"}

\* loadSymTable: the first symbol table, if there is one.
LoadSymTable ==
  /\ pc = "symbols"
  /\ LET readable == SymTabs = {} \/ EntriesReadable(file.sect[Min(SymTabs)], SymSize)
     IN Goto(IF readable THEN "relocations" ELSE "exit", 0)
  /\ UNCHANGED <<nbSections, content>>

IsRel(k) == file.sect[k].sh_type = "REL"

\* Mutant of SkipNotRel: the index only advances past a relocation table.
SkipNotRel_Stay ==
  /\ pc = "relocations" /\ i < file.e_shnum /\ ~IsRel(i)
  /\ Goto("relocations", i)
  /\ UNCHANGED <<nbSections, content>>

\* loadRelocTable, one section per step.
SkipNotRel ==
  /\ pc = "relocations" /\ i < file.e_shnum /\ ~IsRel(i)
  /\ Goto("relocations", i + 1)
  /\ UNCHANGED <<nbSections, content>>

\* Mutant of LoadRelTable: the limit is one table further.
LoadRelTable_OneMore ==
  /\ pc = "relocations" /\ i < file.e_shnum /\ IsRel(i)
  /\ LET readable == EntriesReadable(file.sect[i], RelSize) IN
       Goto(CASE nbSections > MaxRelTables -> "undefined"
              [] nbSections <= MaxRelTables /\ readable -> "relocations"
              [] OTHER -> "exit", i + 1)
  /\ nbSections' = nbSections + 1
  /\ UNCHANGED content

\* The entry after the last of TabNb is nbSections itself.
LoadRelTable ==
  /\ pc = "relocations" /\ i < file.e_shnum /\ IsRel(i)
  /\ LET readable == EntriesReadable(file.sect[i], RelSize) IN
       Goto(CASE nbSections >= MaxRelTables -> "undefined"
              [] nbSections < MaxRelTables /\ readable -> "relocations"
              [] OTHER -> "exit", i + 1)
  /\ nbSections' = nbSections + 1
  /\ UNCHANGED content

EndRelTables ==
  /\ pc = "relocations" /\ i >= file.e_shnum
  /\ Goto("contents", 0)
  /\ UNCHANGED <<nbSections, content>>

\* Mutants of SizeToRead: the size of the header, as if nothing lay between
\* two sections; the next section is the one of the next index.
SizeToRead_Header(k) == file.sect[k].sh_size

SizeToRead_NextIndex(k) ==
  IF k = file.e_shnum - 1 \/ IsRel(k) THEN LoadedSize(file, k)
  ELSE file.sect[k + 1].sh_offset - file.sect[k].sh_offset

SizeToRead(k) == LoadedSize(file, k)

\* loadSectionContent, one section per step.  fread of no byte, or of a
\* negative number of them, does not read what it was asked.
LoadContent ==
  /\ pc = "contents" /\ i < file.e_shnum
  /\ LET size == SizeToRead(i)
         reads == size > 0 /\ Readable(file.sect[i].sh_offset, size)
     IN /\ Goto(IF ~Filled(file, i) \/ reads THEN "contents" ELSE "exit", i + 1)
        /\ content' = Append(content, size)
  /\ UNCHANGED nbSections

\* The structure is loaded: the loop on the options follows (ARM_runner.tla).
EndContents ==
  /\ pc = "contents" /\ i >= file.e_shnum
  /\ Goto("options", 0)
  /\ UNCHANGED <<nbSections, content>>

Next ==
  \/ ScanDest \/ ScanSource \/ EndScan
  \/ LoadHeader \/ LoadTabSectionHeader \/ LoadSymTable
  \/ SkipNotRel \/ LoadRelTable \/ EndRelTables
  \/ LoadContent \/ EndContents

Spec == Init /\ [][Next]_vars

\* One thread, which only waits for files.
FairSpec == Spec /\ WF_vars(Next)
-----------------------------------------------------------------------------
(***************************************************************************)
(* Properties.                                                             *)
(***************************************************************************)
TypeOK ==
  /\ i \in 0 .. Len(args) + file.e_shnum + 1
  /\ f_source \in BOOLEAN /\ f_dest \in BOOLEAN
  /\ nbSections \in 0 .. (IF pc = "undefined" THEN MaxRelTables + 1 ELSE MaxRelTables)
  /\ content \in Seq(Int) /\ Len(content) <= file.e_shnum
  /\ pc \in {"scan", "header", "sections", "symbols", "relocations", "contents", "options",
             "exit", "crash", "undefined"}

At(k) == file.sect[k].sh_offset
LastSection == file.e_shnum - 1

\* A file whose loading comes to its end has that part of the layout which
\* loadSectionContent enforces, by the sizes it computes and gives to fread, and
\* no other loader (readSectionContent.c:13-38).  The rest of the layout that the
\* other modules suppose, SupposedLayout, is checked by nothing.
AcceptedLayout == pc = "options" => CheckedLayout(file)

\* The sections whose bytes were read, at any moment of the reading.
HasRead(k) == pc \in {"contents", "options"} /\ k < Len(content) /\ Filled(file, k)

\* What is held for a section goes up to the section that starts next in the
\* file and never into it, in whatever order the sections come; only a relocation
\* table and the last section may end elsewhere (readSectionContent.c:16-30).
HeldUpToNext ==
  \A k \in Index(file) \ {LastSection} : HasRead(k) /\ ~IsRel(k) =>
    /\ \A l \in Index(file) : At(l) > At(k) => At(k) + content[k + 1] <= At(l)
    /\ \E l \in Index(file) : At(k) + content[k + 1] = At(l)

\* At each stage, what Elf32_Main says the program holds was in the file: the
\* header after loadHeader, the section headers after loadTabSectionHeader, the
\* bytes of each section that loadSectionContent has passed, all of them when
\* the options are handled.
HoldsWhatFileHas ==
  /\ pc \in {"sections", "symbols", "relocations", "contents", "options"} =>
       f_source /\ file.magic /\ Readable(0, EhdrSize)
  /\ pc \in {"symbols", "relocations", "contents", "options"} =>
       Readable(file.e_shoff, file.e_shnum * ShdrSize)
  /\ \A k \in Index(file) : HasRead(k) => Readable(At(k), content[k + 1])
  /\ pc = "options" => Len(content) = file.e_shnum

\* Loading comes to an end.
Ends == <>(pc \in {"options", "exit", "crash", "undefined"})
=============================================================================
