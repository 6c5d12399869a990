---------------------------- MODULE Implantation ----------------------------
(***************************************************************************)
(* deleteRel (Functions/implantation.c): the while loop that walks the     *)
(* section headers, takes every relocation table out of Elf32_Main and     *)
(* renumbers and moves what follows it.  One action per iteration.         *)
(*                                                                         *)
(* e_shnum, e_shoff and e_shstrndx are fields of ELF->header.  The arrays  *)
(* keep the length they were allocated with: only the entries below        *)
(* e_shnum are live.                                                       *)
(***************************************************************************)
EXTENDS ElfMain

CONSTANT Sources  \* the files --source may name

ASSUME SourcesAssumption == \A s \in Sources : ElfFile(s)

VARIABLES source,          \* the file behind f_source: no step changes it
          e_shnum, e_shoff, e_shstrndx,
          sectHeader,      \* ELF->sectHeader
          sectionContent,  \* ELF->sectionContent
          symTable,        \* ELF->symTable, nb_symboles entries
          i,               \* the loop index of deleteRel
          pc               \* what the program does next

header  == <<e_shnum, e_shoff, e_shstrndx>>
elfVars == <<source, header, sectHeader, sectionContent, symTable>>
vars    == <<elfVars, i, pc>>

Live == 0 .. e_shnum - 1

\* The stages of main; deleteRel itself only has the first three.
Stages == {"deleteRel", "write", "abort",
           "options", "correct", "relocate", "content", "headers", "done", "exit", "abortInFree"}

\* Elf32_Main after the loaders (ARM_runner.c:66-71).
Loaded ==
  /\ e_shnum = source.e_shnum
  /\ e_shoff = source.e_shoff
  /\ e_shstrndx = source.e_shstrndx
  /\ sectHeader = source.sect
  /\ sectionContent = LoadedContent(source)
  /\ symTable = source.sym

Init == source \in Sources /\ Loaded /\ i = 0 /\ pc = "deleteRel"
-----------------------------------------------------------------------------
AtRel == pc = "deleteRel" /\ i < e_shnum /\ sectHeader[i].sh_type = "REL"

\* ELF->sectHeader[j-1] = ELF->sectHeader[j] for j from i+1 on.
ShiftedHeader(k) == IF i <= k /\ k < e_shnum - 1 THEN sectHeader[k + 1] ELSE sectHeader[k]

\* Mutants of Renumbered: a section that starts right after the deleted table
\* stays; the relocation tables that remain are not moved; the link of a hash
\* table is forgotten.
Renumbered_LateOffset(h) ==
  LET rel == sectHeader[i] IN
  [h EXCEPT !.sh_offset = IF @ > rel.sh_offset + rel.sh_size THEN @ - rel.sh_size ELSE @,
            !.sh_link   = IF @ > i /\ h.sh_type \in LinkTypes THEN @ - 1 ELSE @]

Renumbered_NotRel(h) ==
  LET rel == sectHeader[i] IN
  [h EXCEPT !.sh_offset = IF @ > rel.sh_offset /\ h.sh_type # "REL" THEN @ - rel.sh_size ELSE @,
            !.sh_link   = IF @ > i /\ h.sh_type \in LinkTypes THEN @ - 1 ELSE @]

Renumbered_NoHash(h) ==
  LET rel == sectHeader[i] IN
  [h EXCEPT !.sh_offset = IF @ > rel.sh_offset THEN @ - rel.sh_size ELSE @,
            !.sh_link   = IF @ > i /\ h.sh_type \in LinkTypes \ {"HASH"} THEN @ - 1 ELSE @]

\* OFFSET modif and LINK modif.
Renumbered(h) ==
  LET rel == sectHeader[i] IN
  [h EXCEPT !.sh_offset = IF @ > rel.sh_offset THEN @ - rel.sh_size ELSE @,
            !.sh_link   = IF @ > i /\ h.sh_type \in LinkTypes THEN @ - 1 ELSE @]

\* realloc(p, 0) releases p and returns NULL; realloc(NULL, n) allocates.
ReallocPtr(p, size) == IF size = 0 /\ p = "heap" THEN "null" ELSE "heap"

\* Mutants of ShiftedContent: the size is copied and the bytes are not; the
\* slot of the deleted table is freed in place of the last one.
ShiftedContent_SizeOnly(k) ==
  LET c == sectionContent[k] IN
  IF i <= k /\ k < e_shnum - 1
    THEN [c EXCEPT !.size = sectionContent[k + 1].size,
                   !.ptr  = ReallocPtr(@, sectionContent[k + 1].size)]
    ELSE IF k = e_shnum - 1 THEN [c EXCEPT !.ptr = "freed"] ELSE c

ShiftedContent_FreeFirst(k) ==
  LET c == sectionContent[k] IN
  IF i <= k /\ k < e_shnum - 1
    THEN LET d == sectionContent[k + 1] IN
         [size |-> d.size, from |-> d.from,
          ptr  |-> IF k = i THEN "freed" ELSE ReallocPtr(c.ptr, d.size)]
    ELSE c

\* Slot k takes the size and the bytes of slot k + 1; the last one is freed.
ShiftedContent(k) ==
  LET c == sectionContent[k] IN
  IF i <= k /\ k < e_shnum - 1
    THEN LET d == sectionContent[k + 1] IN
         [size |-> d.size, from |-> d.from, ptr |-> ReallocPtr(c.ptr, d.size)]
    ELSE IF k = e_shnum - 1 THEN [c EXCEPT !.ptr = "freed"] ELSE c

\* Mutant of MovedStrndx: the index of the names is not looked at.
MovedStrndx_Kept(ndx) == ndx

\* The index of the table of section names, in the file header.
MovedStrndx(ndx) == IF ndx > i THEN ndx - 1 ELSE ndx

\* Mutant of MovedShndx: every index is lowered.
MovedShndx_Always(ndx) == ndx - 1

\* NDX modif.
MovedShndx(ndx) == IF ndx >= i THEN ndx - 1 ELSE ndx

\* Mutant of SkipSection: the index does not advance.
SkipSection_Stay ==
  /\ pc = "deleteRel" /\ i < e_shnum
  /\ sectHeader[i].sh_type # "REL"
  /\ UNCHANGED vars

\* The else branch of the loop.
SkipSection ==
  /\ pc = "deleteRel" /\ i < e_shnum
  /\ sectHeader[i].sh_type # "REL"
  /\ i' = i + 1
  /\ UNCHANGED <<elfVars, pc>>

\* The whole of the other branch.  A pointer that was never written and is
\* given to realloc or free is read here as a NULL.
DeleteSection ==
  /\ AtRel
  /\ e_shstrndx' = MovedStrndx(e_shstrndx)
  /\ e_shoff' = e_shoff - sectHeader[i].sh_size
  /\ sectHeader' = [k \in DOMAIN sectHeader |->
                      IF k < e_shnum THEN Renumbered(ShiftedHeader(k)) ELSE sectHeader[k]]
  /\ sectionContent' = [k \in DOMAIN sectionContent |-> ShiftedContent(k)]
  /\ symTable' = [l \in DOMAIN symTable |-> [symTable[l] EXCEPT !.st_shndx = MovedShndx(@)]]
  /\ e_shnum' = e_shnum - 1
  /\ UNCHANGED <<source, i, pc>>

\* realloc or free on a pointer that was never written may instead find an
\* arbitrary address there, and the C library aborts the program.
AbortOnUninitialised ==
  /\ AtRel
  /\ \E k \in i .. e_shnum - 1 : sectionContent[k].ptr = "uninit"
  /\ pc' = "abort"
  /\ UNCHANGED <<elfVars, i>>

\* Mutant of EndDeleteRel: the loop stops one section early.
EndDeleteRel_Early ==
  /\ pc = "deleteRel" /\ i >= e_shnum - 1
  /\ pc' = "write"
  /\ UNCHANGED <<elfVars, i>>

\* The loop ends; main goes on with writeHeader.
EndDeleteRel ==
  /\ pc = "deleteRel" /\ i >= e_shnum
  /\ pc' = "write"
  /\ UNCHANGED <<elfVars, i>>

Next == SkipSection \/ DeleteSection \/ AbortOnUninitialised \/ EndDeleteRel

Spec == Init /\ [][Next]_vars

\* A single thread runs the loop and nothing in it waits.
FairSpec == Spec /\ WF_vars(Next)
-----------------------------------------------------------------------------
(***************************************************************************)
(* Properties.                                                             *)
(***************************************************************************)
\* The types, and that the table of names stays a live section although
\* e_shnum and e_shstrndx are two fields that the loop decrements separately.
TypeOK ==
  /\ ElfFile(source)
  /\ e_shnum \in 1 .. source.e_shnum
  /\ e_shoff \in Nat
  /\ e_shstrndx \in Live
  /\ sectHeader \in [Index(source) -> Elf32_Shdr]
  /\ sectionContent \in [Index(source) -> SectionContent]
  /\ symTable \in [0 .. source.nsym - 1 -> Elf32_Sym]
  /\ i \in 0 .. e_shnum
  /\ pc \in Stages

\* The bytes of section k end before position p of the file.
EndsBefore(k, p) == sectHeader[k].sh_offset + sectionContent[k].size <= p

\* Headers and contents are moved by two different loops, yet the layout they
\* describe together stays one that a file can have: what is held for a
\* section lies after the ELF header, before the section that starts next and
\* before the section headers (implantation.c:15, 18-35).
LayoutKept ==
  \A k \in Live : sectionContent[k].size # 0 =>
    /\ EhdrSize <= sectHeader[k].sh_offset
    /\ EndsBefore(k, e_shoff)
    /\ \A l \in Live \ {k} :
         /\ sectHeader[l].sh_offset > sectHeader[k].sh_offset => EndsBefore(k, sectHeader[l].sh_offset)
         /\ sectionContent[l].size # 0 => sectHeader[l].sh_offset # sectHeader[k].sh_offset

\* The section of the source file with the name of live section k.
Origin(k) == CHOOSE m \in Index(source) : source.sect[m].sh_name = sectHeader[k].sh_name

Deleted == {m \in Index(source) : \A k \in Live : Origin(k) # m}

\* Each section, and the section headers, have moved by exactly the bytes of
\* the tables deleted before them in the file, whatever the order of the
\* indices, of the positions and of the deletions (implantation.c:15, 33-35).
OffsetsExact ==
  LET moved(p) == MapThenSumSet(LAMBDA m : source.sect[m].sh_size,
                                {m \in Deleted : source.sect[m].sh_offset < p})
  IN /\ \A k \in Live :
          sectHeader[k].sh_offset = source.sect[Origin(k)].sh_offset
                                      - moved(source.sect[Origin(k)].sh_offset)
     /\ e_shoff = source.e_shoff
                    - MapThenSumSet(LAMBDA m : source.sect[m].sh_size, Deleted)

\* A slot of sectionContent holds the bytes the loader read for the section
\* whose header is in the same slot of sectHeader, the two arrays being
\* shifted by different loops (implantation.c:19-27).
ContentFollowsHeader ==
  \A k \in Live :
    /\ sectionContent[k].size = LoadedContent(source)[Origin(k)].size
    /\ sectionContent[k].from = LoadedContent(source)[Origin(k)].from

\* The blocks of the heap: the bytes of every live section are there to be
\* written, main's loop of free (ARM_runner.c:163-165) meets no block that
\* deleteRel released, and every slot it does not visit was released.
ContentOwned ==
  /\ \A k \in Live : /\ sectionContent[k].ptr # "freed"
                     /\ sectionContent[k].size # 0 => sectionContent[k].ptr = "heap"
  /\ \A k \in Index(source) \ Live : sectionContent[k].ptr = "freed"

\* When the loop ends the sections left are the ones of the source that are
\* not relocation tables, in their order: two tables in a row, and a table in
\* the last place, are not missed (implantation.c:7-9, 49-51).
DeletesExactlyRel ==
  pc = "write" =>
    /\ Deleted = {m \in Index(source) : source.sect[m].sh_type = "REL"}
    /\ \A k, l \in Live : k < l => Origin(k) < Origin(l)

\* What the numbers of Elf32_Main designate, by name.
NamedSection(k) ==
  [name  |-> sectHeader[k].sh_name,
   type  |-> sectHeader[k].sh_type,
   link  |-> IF sectHeader[k].sh_type \in LinkTypes
               THEN sectHeader[sectHeader[k].sh_link].sh_name
               ELSE 0,
   bytes |-> <<sectionContent[k].from, sectionContent[k].size>>]

NamedSections == {NamedSection(k) : k \in Live}

NamedSymbols ==
  [l \in DOMAIN symTable |->
     IF symTable[l].st_shndx \in Live
       THEN <<"section", sectHeader[symTable[l].st_shndx].sh_name>>
       ELSE <<"reserved", symTable[l].st_shndx>>]

Removal == INSTANCE RelRemoval WITH sections <- NamedSections, symbols <- NamedSymbols,
                                    strings <- sectHeader[e_shstrndx].sh_name

\* deleteRel removes relocation tables and changes nothing else, whatever
\* numbers the sections have: a symbol stays in the section of the same name,
\* a table stays linked to the section of the same name, and the section names
\* stay in the same table (implantation.h:9).
ImplementsRemoval == Removal!Spec

\* What the header file promises (implantation.h:9): the values that have to
\* change because of the deletions are corrected, so a symbol that is in no
\* section, SHN_ABS for one, keeps its index.
ReservedSymbolsKept ==
  \A l \in DOMAIN symTable :
    source.sym[l].st_shndx \notin Index(source) =>
      symTable[l].st_shndx = source.sym[l].st_shndx

=============================================================================
