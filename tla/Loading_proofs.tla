--------------------------- MODULE Loading_proofs ----------------------------
(***************************************************************************)
(* Proofs about the loaders: what a file whose loading comes to its end    *)
(* must be, and what is then held of it, for every command line, every     *)
(* file and every size of the headers.                                     *)
(***************************************************************************)
EXTENDS Loading, FoldLemmas

\* What is read of a section, whatever the offsets of the file.
LEMMA LoadedSizeCases ==
  ASSUME NEW s, ElfShape(s), NEW k \in Index(s)
  PROVE  LET off(l) == s.sect[l].sh_offset
             last   == s.e_shnum - 1
             size   == LoadedSize(s, k)
         IN /\ size \in Int
            /\ Filled(s, k) /\ k = last => size = s.e_shoff - off(k)
            /\ Filled(s, k) /\ k # last /\ s.sect[k].sh_type # "REL" =>
                 /\ off(k) + size <= off(k + 1)
                 /\ \A l \in Index(s) : off(l) > off(k) => off(k) + size <= off(l)
                 /\ \E l \in Index(s) : off(k) + size = off(l)
<1> DEFINE off(l) == s.sect[l].sh_offset
           last   == s.e_shnum - 1
           size   == LoadedSize(s, k)
<1>1. /\ s.e_shnum \in Nat \ {0} /\ s.e_shoff \in Nat /\ Index(s) = 0 .. last
      /\ \A l \in Index(s) : off(l) \in Nat /\ s.sect[l].sh_size \in Nat
  BY DEF ElfShape, Elf32_Shdr, Index
<1>2. CASE ~Filled(s, k)
  BY <1>2 DEF LoadedSize
<1>3. CASE Filled(s, k) /\ k = last
  <2>1. size = s.e_shoff - off(k)
    BY <1>3 DEF LoadedSize
  <2> QED
    BY <1>1, <1>3, <2>1
<1>4. CASE Filled(s, k) /\ k # last /\ s.sect[k].sh_type = "REL"
  <2>1. size = s.sect[k].sh_size
    BY <1>4 DEF LoadedSize
  <2> QED
    BY <1>1, <1>4, <2>1
<1>5. CASE Filled(s, k) /\ k # last /\ s.sect[k].sh_type # "REL"
  <2> DEFINE Nexts == {off(k + 1)} \cup {off(j) : j \in {j \in Index(s) : off(j) > off(k)}}
             next == NextOffset(s, k)
  <2>1. k + 1 \in Index(s)
    BY <1>1, <1>5
  <2>2. Nexts \in SUBSET Nat /\ Nexts # {} /\ next = Min(Nexts)
    BY <1>1, <2>1 DEF NextOffset
  <2>3. next \in Nexts /\ \A y \in Nexts : next <= y
    BY <2>2, MinOfNat
  <2>4. size = next - off(k)
    BY <1>5 DEF LoadedSize
  <2>5. /\ next \in Nat /\ next <= off(k + 1)
        /\ \A l \in Index(s) : off(l) > off(k) => next <= off(l)
        /\ \E l \in Index(s) : next = off(l)
    BY <2>1, <2>2, <2>3
  <2>6. off(k) + size = next /\ size \in Int
    BY <1>1, <2>4, <2>5
  <2> QED
    BY <1>5, <2>5, <2>6
<1> QED
  BY <1>2, <1>3, <1>4, <1>5
-----------------------------------------------------------------------------
(***************************************************************************)
(* The inductive invariant: what each stage knows because the loaders      *)
(* before it did not end the program, and the sections read so far.        *)
(***************************************************************************)
Launched ==
  /\ args \in Seq(Arguments)
  /\ ElfShape(file) /\ file.cells \in Nat /\ file.magic \in BOOLEAN

\* The stages, in the order of main; the index belongs to the stage.
Progress ==
  /\ pc = "scan" => i \in 1 .. Len(args) + 1
  /\ pc \in {"header", "sections", "symbols", "options"} => i = 0
  /\ pc \in {"relocations", "contents"} => i \in 0 .. file.e_shnum
  /\ pc \in {"scan", "header", "sections", "symbols", "relocations"} => content = <<>>
  /\ pc = "contents" => Len(content) = i
  /\ pc = "options" => Len(content) = file.e_shnum

\* A stage is reached when the ones before it found what they read.
Checked ==
  /\ pc \in {"header", "sections", "symbols", "relocations", "contents", "options"} => f_source
  /\ pc \in {"sections", "symbols", "relocations", "contents", "options"} =>
       file.magic /\ Readable(0, EhdrSize)
  /\ pc \in {"symbols", "relocations", "contents", "options"} =>
       Readable(file.e_shoff, file.e_shnum * ShdrSize)

\* The sections that were read.
SectionsRead ==
  /\ \A k \in Index(file) : k < Len(content) => content[k + 1] = LoadedSize(file, k)
  /\ pc \in {"contents", "options"} => \A k \in Index(file) : k < Len(content) /\ Filled(file, k) =>
       LoadedSize(file, k) > 0 /\ Readable(file.sect[k].sh_offset, LoadedSize(file, k))

\* Nothing that is said of the file changes.
LEMMA SameFile ==
  ASSUME file' = file
  PROVE  /\ Index(file)' = Index(file) /\ ElfShape(file)' = ElfShape(file)
         /\ \A k : Filled(file, k)' = Filled(file, k) /\ LoadedSize(file, k)' = LoadedSize(file, k)
         /\ \A p, n : Readable(p, n)' = Readable(p, n)
BY DEF Index, ElfShape, Filled, LoadedSize, NextOffset, Readable

LInv == Launched /\ TypeOK /\ Progress /\ Checked /\ SectionsRead

LEMMA InitLInv == Init => LInv
<1> SUFFICES ASSUME Init PROVE LInv
  OBVIOUS
<1>1. /\ i = 1 /\ f_source = FALSE /\ f_dest = FALSE /\ nbSections = 0 /\ content = <<>> /\ pc = "scan"
      /\ Len(content) = 0 /\ content \in Seq(Int)
  BY DEF Init
<1>2. Launched
  BY LaunchesAssumption DEF Init, Launched
<1>3. Len(args) \in Nat /\ file.e_shnum \in Nat \ {0} /\ Index(file) \subseteq Nat
  BY <1>2 DEF Launched, ElfShape, Index
<1>4. TypeOK
  <2>1. i \in 0 .. Len(args) + file.e_shnum + 1 /\ Len(content) <= file.e_shnum
    BY <1>1, <1>3
  <2>2. nbSections \in 0 .. (IF pc = "undefined" THEN MaxRelTables + 1 ELSE MaxRelTables)
    BY <1>1, RelTablesAssumption
  <2> QED
    BY <1>1, <2>1, <2>2 DEF TypeOK
<1>5. Progress /\ Checked
  BY <1>1, <1>3 DEF Progress, Checked
<1>6. SectionsRead
  BY <1>1, <1>3 DEF SectionsRead
<1> QED
  BY <1>2, <1>4, <1>5, <1>6 DEF LInv

\* The scan of the command line.
LEMMA ScanStep == LInv /\ (ScanDest \/ ScanSource \/ EndScan) => LInv'
<1> SUFFICES ASSUME LInv, ScanDest \/ ScanSource \/ EndScan PROVE LInv'
  OBVIOUS
<1>1. Len(args) \in Nat /\ file.e_shnum \in Nat /\ i \in 1 .. Len(args) + 1 /\ pc = "scan"
      /\ content = <<>> /\ f_source \in BOOLEAN /\ f_dest \in BOOLEAN
  BY DEF LInv, Launched, TypeOK, Progress, ElfShape, ScanDest, ScanSource, EndScan, Scanning
<1>2. /\ UNCHANGED <<files, nbSections, content>> /\ f_dest' \in BOOLEAN /\ f_source' \in BOOLEAN
      /\ \/ pc' = "scan" /\ i' \in 1 .. Len(args) + 1
         \/ pc' = "header" /\ i' = 0 /\ f_source'
         \/ pc' = "exit" /\ i' = 0
  <2>1. CASE ScanDest
    BY <1>1, <2>1 DEF ScanDest, Scanning
  <2>2. CASE ScanSource
    <3>1. pc' = "scan" /\ i' \in 1 .. Len(args) + 1
          /\ UNCHANGED <<files, f_dest, nbSections, content>>
      BY <1>1, <2>2 DEF ScanSource, Scanning
    <3>2. \/ f_source' = f_source
          \/ f_source' = (args[i].fopen = "opened")
      BY <2>2, Zenon DEF ScanSource
    <3>3. f_source' \in BOOLEAN
      BY <1>1, <3>2, Zenon
    <3> QED
      BY <1>1, <3>1, <3>3
  <2>3. CASE EndScan
    BY <1>1, <2>3 DEF EndScan, Goto
  <2> QED
    BY <2>1, <2>2, <2>3
<1>3. args' = args /\ file' = file /\ content' = content /\ nbSections' = nbSections
  BY <1>2 DEF files
<1>4. Launched'
  BY <1>3, SameFile DEF LInv, Launched
<1>5. TypeOK'
  BY <1>1, <1>2, <1>3 DEF LInv, TypeOK
<1>6. Progress' /\ Checked'
  BY <1>1, <1>2, <1>3 DEF Progress, Checked
<1>7. SectionsRead'
  BY <1>1, <1>2, <1>3, SameFile DEF LInv, SectionsRead
<1> QED
  BY <1>4, <1>5, <1>6, <1>7 DEF LInv

\* The loaders of the headers, the symbols and the relocations.
LEMMA HeadersStep ==
  LInv /\ (LoadHeader \/ LoadTabSectionHeader \/ LoadSymTable \/ SkipNotRel \/ LoadRelTable \/ EndRelTables)
    => LInv'
<1> SUFFICES ASSUME LInv, \/ LoadHeader \/ LoadTabSectionHeader \/ LoadSymTable
                          \/ SkipNotRel \/ LoadRelTable \/ EndRelTables
             PROVE  LInv'
  OBVIOUS
<1>1. /\ Len(args) \in Nat /\ file.e_shnum \in Nat /\ content = <<>> /\ Len(content) = 0
      /\ pc \in {"header", "sections", "symbols", "relocations"}
      /\ i \in 0 .. file.e_shnum /\ nbSections \in 0 .. MaxRelTables
  BY DEF LInv, Launched, TypeOK, Progress, ElfShape, LoadHeader, LoadTabSectionHeader, LoadSymTable,
         SkipNotRel, LoadRelTable, EndRelTables
<1>2. /\ UNCHANGED <<files, f_source, f_dest, content>>
      /\ i' \in 0 .. file.e_shnum
      /\ nbSections' \in 0 .. (IF pc' = "undefined" THEN MaxRelTables + 1 ELSE MaxRelTables)
      /\ \/ pc = "header" /\ pc' = "sections" /\ file.magic /\ Readable(0, EhdrSize) /\ i' = 0
         \/ pc = "sections" /\ pc' = "symbols" /\ Readable(file.e_shoff, file.e_shnum * ShdrSize) /\ i' = 0
         \/ pc = "symbols" /\ pc' = "relocations"
         \/ pc = "relocations" /\ pc' = "relocations"
         \/ pc = "relocations" /\ pc' = "contents" /\ i' = 0
         \/ pc' \in {"exit", "crash", "undefined"}
  <2>1. CASE LoadHeader
    BY <1>1, <2>1 DEF LoadHeader, Goto
  <2>2. CASE LoadTabSectionHeader
    BY <1>1, <2>2 DEF LoadTabSectionHeader, Goto
  <2>3. CASE LoadSymTable
    BY <1>1, <2>3 DEF LoadSymTable, Goto
  <2>4. CASE SkipNotRel
    BY <1>1, <2>4 DEF SkipNotRel, Goto
  <2>5. CASE LoadRelTable
    BY <1>1, <2>5, RelTablesAssumption DEF LoadRelTable, Goto
  <2>6. CASE EndRelTables
    BY <1>1, <2>6 DEF EndRelTables, Goto
  <2> QED
    BY <2>1, <2>2, <2>3, <2>4, <2>5, <2>6
<1>3. args' = args /\ file' = file /\ content' = content /\ f_source' = f_source /\ f_dest' = f_dest
  BY <1>2 DEF files
<1>4. Launched'
  BY <1>3, SameFile DEF LInv, Launched
<1>5. TypeOK'
  <2>1. pc' \in {"header", "sections", "symbols", "relocations", "contents", "exit", "crash", "undefined"}
    BY <1>1, <1>2
  <2>2. i' \in 0 .. Len(args) + file.e_shnum + 1
    BY <1>1, <1>2
  <2> QED
    BY <1>2, <1>3, <2>1, <2>2 DEF LInv, TypeOK
<1>6. Progress'
  BY <1>1, <1>2, <1>3 DEF Progress
<1>7. Checked'
  BY <1>1, <1>2, <1>3 DEF LInv, Checked, Readable
<1>8. SectionsRead'
  <2>1. Index(file) \subseteq Nat
    BY DEF Index
  <2>2. Index(file)' = Index(file)
    BY <1>3 DEF Index
  <2>3. \A k \in Index(file) : ~(k < Len(content))
    BY <1>1, <2>1
  <2> QED
    BY <1>3, <2>2, <2>3 DEF SectionsRead
<1> QED
  BY <1>4, <1>5, <1>6, <1>7, <1>8 DEF LInv

\* loadSectionContent, and its end.
LEMMA ContentStep == LInv /\ LoadContent => LInv'
<1> SUFFICES ASSUME LInv, LoadContent PROVE LInv'
  OBVIOUS
<1> DEFINE size == LoadedSize(file, i)
<1>1. /\ Len(args) \in Nat /\ file.e_shnum \in Nat /\ i \in Nat /\ i < file.e_shnum
      /\ i \in Index(file) /\ Index(file) = 0 .. file.e_shnum - 1
      /\ content \in Seq(Int) /\ Len(content) = i /\ pc = "contents"
  BY DEF LInv, Launched, TypeOK, Progress, ElfShape, LoadContent, Index
<1>2. size \in Int
  BY <1>1, LoadedSizeCases DEF LInv, Launched
<1>3. /\ args' = args /\ file' = file /\ f_source' = f_source /\ f_dest' = f_dest
      /\ nbSections' = nbSections /\ i' = i + 1 /\ content' = Append(content, size)
      /\ \/ pc' = "contents" /\ (Filled(file, i) => size > 0 /\ Readable(file.sect[i].sh_offset, size))
         \/ pc' = "exit"
  BY DEF LoadContent, Goto, files, SizeToRead
<1>4. /\ content' \in Seq(Int) /\ Len(content') = i + 1
      /\ \A k \in 0 .. i - 1 : content'[k + 1] = content[k + 1]
      /\ content'[i + 1] = size
  <2> HIDE DEF size
  <2>1. content' \in Seq(Int) /\ Len(content') = Len(content) + 1
    BY <1>1, <1>2, <1>3
  <2>2. \A n \in 1 .. Len(content) + 1 : content'[n] = IF n <= Len(content) THEN content[n] ELSE size
    BY <1>1, <1>2, <1>3
  <2> QED
    BY <1>1, <2>1, <2>2
<1>5. Launched'
  BY <1>3, SameFile DEF LInv, Launched
<1>6. TypeOK'
  <2>1. nbSections \in 0 .. MaxRelTables
    BY <1>1 DEF LInv, TypeOK
  <2>2. nbSections' \in 0 .. (IF pc' = "undefined" THEN MaxRelTables + 1 ELSE MaxRelTables)
    BY <1>3, <2>1
  <2>3. i' \in 0 .. Len(args) + file.e_shnum + 1 /\ Len(content') <= file.e_shnum
    BY <1>1, <1>3, <1>4
  <2> QED
    BY <1>3, <1>4, <2>2, <2>3 DEF LInv, TypeOK
<1>7. Progress'
  BY <1>1, <1>3, <1>4 DEF Progress
<1>8. Checked'
  BY <1>1, <1>3 DEF LInv, Checked, Readable
<1>9. SectionsRead'
  <2>1. \A k \in Index(file) : k < i => content[k + 1] = LoadedSize(file, k)
    BY <1>1 DEF LInv, SectionsRead
  <2>2. \A k \in Index(file) : k < i /\ Filled(file, k) =>
          LoadedSize(file, k) > 0 /\ Readable(file.sect[k].sh_offset, LoadedSize(file, k))
    BY <1>1 DEF LInv, SectionsRead
  <2>3. \A k \in Index(file) : k < i + 1 => k \in 0 .. i - 1 \/ k = i
    BY <1>1
  <2>4. \A k \in Index(file) : k < Len(content') => content'[k + 1] = LoadedSize(file, k)
    BY <1>1, <1>4, <2>1, <2>3
  <2>5. pc' = "contents" => \A k \in Index(file) : k < Len(content') /\ Filled(file, k) =>
          LoadedSize(file, k) > 0 /\ Readable(file.sect[k].sh_offset, LoadedSize(file, k))
    BY <1>1, <1>3, <1>4, <2>2, <2>3
  <2>6. Index(file)' = Index(file) /\ \A k : LoadedSize(file, k)' = LoadedSize(file, k)
    BY <1>3 DEF Index, LoadedSize, NextOffset, Filled
  <2> QED
    BY <1>3, <2>4, <2>5, <2>6 DEF SectionsRead, Filled, Readable
<1> QED
  BY <1>5, <1>6, <1>7, <1>8, <1>9 DEF LInv

LEMMA EndContentsStep == LInv /\ EndContents => LInv'
<1> SUFFICES ASSUME LInv, EndContents PROVE LInv'
  OBVIOUS
<1>1. /\ Len(args) \in Nat /\ file.e_shnum \in Nat /\ i = file.e_shnum
      /\ Len(content) = i /\ pc = "contents"
  BY DEF LInv, Launched, TypeOK, Progress, ElfShape, EndContents
<1>2. /\ args' = args /\ file' = file /\ f_source' = f_source /\ f_dest' = f_dest
      /\ nbSections' = nbSections /\ content' = content /\ i' = 0 /\ pc' = "options"
  BY DEF EndContents, Goto, files
<1>3. Launched'
  BY <1>2, SameFile DEF LInv, Launched
<1>4. TypeOK'
  BY <1>1, <1>2 DEF LInv, TypeOK
<1>5. Progress' /\ Checked'
  BY <1>1, <1>2 DEF LInv, Progress, Checked, Readable
<1>6. SectionsRead'
  BY <1>1, <1>2, SameFile DEF LInv, SectionsRead
<1> QED
  BY <1>3, <1>4, <1>5, <1>6 DEF LInv

LEMMA NextLInv == LInv /\ [Next]_vars => LInv'
<1> SUFFICES ASSUME LInv, [Next]_vars PROVE LInv'
  OBVIOUS
<1>1. CASE UNCHANGED vars
  <2>1. UNCHANGED <<args, file, i, f_source, f_dest, nbSections, content, pc>>
    BY <1>1 DEF vars, files
  <2>2. Launched' /\ TypeOK' /\ Progress' /\ Checked'
    BY <2>1, SameFile DEF LInv, Launched, TypeOK, Progress, Checked
  <2>3. SectionsRead'
    BY <2>1, SameFile DEF LInv, SectionsRead
  <2> QED
    BY <2>2, <2>3 DEF LInv
<1> QED
  BY <1>1, ScanStep, HeadersStep, ContentStep, EndContentsStep DEF Next

LEMMA LInvAlways == Spec => []LInv
BY InitLInv, NextLInv, PTL DEF Spec

\* The indices of the loaders stay in the tables they are for, and the counter
\* of relocation tables goes at most one past TabNb, where the program is lost
\* (ARM_runner.c:28-71, readRelocTable.c:3-47).
THEOREM LoadingTypes == Spec => []TypeOK
<1>1. LInv => TypeOK
  BY DEF LInv
<1> QED
  BY <1>1, LInvAlways, PTL

\* What is true of each section that was read.
LEMMA SectionsLoaded ==
  ASSUME LInv, NEW k \in Index(file), HasRead(k)
  PROVE  /\ content[k + 1] = LoadedSize(file, k)
         /\ LoadedSize(file, k) > 0 /\ Readable(At(k), LoadedSize(file, k))
BY DEF LInv, SectionsRead, HasRead, At

\* A file that gets to the options, whatever offsets and sizes its headers give,
\* has the layout that loadSectionContent enforces (readSectionContent.c:13-38).
THEOREM OnlyLayoutAccepted == Spec => []AcceptedLayout
<1>1. LInv => AcceptedLayout
  <2> SUFFICES ASSUME LInv, pc = "options", NEW k \in Index(file), Filled(file, k)
               PROVE  /\ k # LastSection /\ ~IsRel(k) => At(k) < At(k + 1)
                      /\ k = LastSection => At(k) < file.e_shoff
    <3>1. LInv => LastSection \in Index(file)
      BY DEF LInv, Launched, ElfShape, LastSection, Index
    <3> QED
      BY <3>1 DEF AcceptedLayout, CheckedLayout, At, LastSection, IsRel
  <2>1. LoadedSize(file, k) > 0 /\ LoadedSize(file, k) \in Int
    <3>1. Len(content) = file.e_shnum /\ k < file.e_shnum
      BY DEF LInv, Progress, Launched, ElfShape, Index
    <3>2. HasRead(k)
      BY <3>1 DEF HasRead
    <3> QED
      BY <3>2, SectionsLoaded, LoadedSizeCases DEF LInv, Launched
  <2>2. /\ file.e_shoff \in Nat /\ At(k) \in Nat
        /\ k # LastSection => k + 1 \in Index(file) /\ At(k + 1) \in Nat
    <3>1. file.e_shoff \in Nat /\ \A l \in Index(file) : file.sect[l].sh_offset \in Nat
      BY DEF LInv, Launched, ElfShape, Elf32_Shdr
    <3>2. k # LastSection => k + 1 \in Index(file)
      BY DEF LInv, Launched, ElfShape, Index, LastSection
    <3> QED
      BY <3>1, <3>2 DEF At
  <2>3. k = LastSection => LoadedSize(file, k) = file.e_shoff - At(k)
    BY LoadedSizeCases DEF LInv, Launched, At, LastSection
  <2>4. k # LastSection /\ ~IsRel(k) => At(k) + LoadedSize(file, k) <= At(k + 1)
    BY LoadedSizeCases DEF LInv, Launched, At, LastSection, IsRel
  <2> QED
    BY <2>1, <2>2, <2>3, <2>4
<1> QED
  BY <1>1, LInvAlways, PTL

\* From the first section read to the last, what is held goes up to the section
\* that starts next in the file, whatever their order (readSectionContent.c:16-30).
THEOREM LoadedUpToNext == Spec => []HeldUpToNext
<1>1. LInv => HeldUpToNext
  <2> SUFFICES ASSUME LInv, NEW k \in Index(file) \ {LastSection}, HasRead(k), ~IsRel(k)
               PROVE  /\ \A l \in Index(file) : At(l) > At(k) => At(k) + content[k + 1] <= At(l)
                      /\ \E l \in Index(file) : At(k) + content[k + 1] = At(l)
    BY DEF HeldUpToNext
  <2>1. content[k + 1] = LoadedSize(file, k) /\ Filled(file, k)
    BY SectionsLoaded DEF HasRead
  <2> QED
    BY <2>1, LoadedSizeCases DEF LInv, Launched, At, LastSection, IsRel
<1> QED
  BY <1>1, LInvAlways, PTL

\* The program never goes on with headers or bytes that the file does not have
\* (readElfHeader.c, readSectionHeader.c, readSectionContent.c).
THEOREM HeldWasInFile == Spec => []HoldsWhatFileHas
<1>1. LInv => HoldsWhatFileHas
  <2> SUFFICES ASSUME LInv PROVE HoldsWhatFileHas
    OBVIOUS
  <2>1. \A k \in Index(file) : HasRead(k) => Readable(At(k), content[k + 1])
    BY SectionsLoaded
  <2> QED
    BY <2>1 DEF HoldsWhatFileHas, LInv, Checked, Progress
<1> QED
  BY <1>1, LInvAlways, PTL
=============================================================================
