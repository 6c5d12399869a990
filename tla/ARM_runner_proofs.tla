-------------------------- MODULE ARM_runner_proofs --------------------------
(***************************************************************************)
(* What deleteRel keeps is kept by every sequence of options, whatever the *)
(* files, the addresses and the disks, and what the program crashes on.    *)
(***************************************************************************)
EXTENDS ARM_runner, Implantation_proofs

\* A symbol that was in a section is in a live one.
SymbolsLive ==
  \A l \in DOMAIN symTable :
    source.sym[l].st_shndx \in Index(source) => symTable[l].st_shndx \in Live

\* The table of names is section 0 only in a file where it was, that is in one
\* that has none.
NamesFirst == e_shstrndx = 0 => source.e_shstrndx = 0

\* A pointer that the loader did not write is where it was at first: nothing
\* before it has moved, and realloc wrote the others.
Unwritten ==
  \A k \in Live : sectionContent[k].ptr = "uninit" =>
    ~Filled(source, k) /\ \A l \in Live : l <= k => Origin(l) = l

\* Elf32_Main at any moment.
Structure == IInv /\ Traced /\ ContentOwned /\ SymbolsLive /\ NamesFirst /\ Unwritten

\* The options: one is at work when its address is used.
AtWork ==
  /\ argv \in Argvs /\ optind \in 0 .. Len(argv)
  /\ pc = "correct" => optind # 0

LEMMA InitStructure == RInit => Structure /\ AtWork
<1> SUFFICES ASSUME RInit PROVE Structure /\ AtWork
  OBVIOUS
<1>1. source \in Sources /\ Loaded /\ i = 0 /\ pc = "options" /\ argv \in Argvs /\ optind = 0
  BY DEF RInit
<1>2. IInv /\ Traced /\ ContentOwned /\ \A k \in Live : Origin(k) = k
  BY <1>1, LoadedIInv, LoadedTraced, LoadedOwned DEF Stages
<1>3. Live = Index(source) /\ symTable = source.sym /\ e_shstrndx = source.e_shstrndx
      /\ sectionContent = LoadedContent(source)
  BY <1>1 DEF Loaded, Live, Index
<1>4. SymbolsLive /\ NamesFirst /\ Unwritten
  BY <1>2, <1>3 DEF SymbolsLive, NamesFirst, Unwritten, LoadedContent
<1>5. Len(argv) \in Nat
  BY <1>1, ArgvsAssumption
<1> QED
  BY <1>1, <1>2, <1>4, <1>5 DEF Structure, AtWork

\* A step that leaves Elf32_Main alone.
LEMMA QuietStep ==
  ASSUME Structure, UNCHANGED elfVars, i' \in {i, 0}, pc' \in Stages
  PROVE  Structure'
<1>1. i' \in 0 .. e_shnum
  BY DEF Structure, IInv, TypeOK, ElfFile, ElfShape
<1>2. IInv'
  <2>1. TypeOK'
    BY <1>1 DEF elfVars, header, Structure, IInv, TypeOK, Live, Index
  <2>2. LayoutKept'
    BY DEF elfVars, header, Structure, IInv, LayoutKept, Live, EndsBefore
  <2> QED
    BY <2>1, <2>2 DEF elfVars, header, Structure, IInv, Live
<1>3. Traced'
  BY SameOrigins DEF elfVars, header, Structure, Traced, Index
<1>4. ContentOwned' /\ SymbolsLive' /\ NamesFirst'
  BY DEF elfVars, header, Structure, ContentOwned, SymbolsLive, NamesFirst, Live, Index
<1>5. Unwritten'
  BY SameOrigins DEF elfVars, Structure, Unwritten
<1> QED
  BY <1>2, <1>3, <1>4, <1>5 DEF Structure

\* correctSymTable changes only the values of symbols.
LEMMA CorrectionStep ==
  ASSUME Structure, AtWork, CorrectSymTable
  PROVE  Structure'
<1>1. /\ UNCHANGED <<source, header, sectHeader, sectionContent, i, runVars>>
      /\ pc = "correct" /\ pc' = "relocate"
  BY DEF CorrectSymTable
<1>2. Option.addr \in Int
  <2>1. argv \in Seq(Options) /\ optind \in 1 .. Len(argv)
    BY <1>1, ArgvsAssumption DEF AtWork
  <2>2. argv[optind] \in Options
    BY <2>1
  <2> QED
    BY <2>2 DEF Option, Options
<1>3. symTable \in [0 .. source.nsym - 1 -> Elf32_Sym] /\ Word \in Nat \ {0}
  BY WordAssumption DEF Structure, IInv, TypeOK
<1>4. ASSUME NEW l \in 0 .. source.nsym - 1, NEW moved
      PROVE  /\ Corrected(l, moved) \in Elf32_Sym
             /\ Corrected(l, moved).st_shndx = symTable[l].st_shndx
  <2>1. symTable[l] \in Elf32_Sym
    BY <1>3
  <2>2. (symTable[l].st_value + Option.addr) % Word \in Nat
    BY <1>2, <1>3, <2>1 DEF Elf32_Sym
  <2> QED
    BY <2>1, <2>2 DEF Corrected, Elf32_Sym
<1>5. PICK misread \in SUBSET OutOfTable :
        symTable' = [l \in DOMAIN symTable |->
                       Corrected(l, IF l \in OutOfTable THEN l \in misread
                                    ELSE NameRead(symTable[l].st_shndx) = Target)]
  BY DEF CorrectSymTable
<1>6. /\ symTable' \in [0 .. source.nsym - 1 -> Elf32_Sym]
      /\ DOMAIN symTable' = DOMAIN symTable
      /\ \A l \in DOMAIN symTable : symTable'[l].st_shndx = symTable[l].st_shndx
  BY <1>3, <1>4, <1>5
<1>7. IInv'
  <2>1. TypeOK'
    BY <1>1, <1>6 DEF header, Structure, IInv, TypeOK, Live, Index, Stages
  <2>2. LayoutKept'
    BY <1>1 DEF header, Structure, IInv, LayoutKept, Live, EndsBefore
  <2> QED
    BY <1>1, <2>1, <2>2 DEF header, Structure, IInv, Live
<1>8. Traced' /\ Unwritten'
  <2>1. Live' = Live /\ Index(source)' = Index(source) /\ Deleted' = Deleted
        /\ \A k \in Live : Origin(k)' = Origin(k)
    BY <1>1 DEF header, Live, Index, Origin, Deleted
  <2> QED
    BY <1>1, <2>1 DEF Structure, Traced, Unwritten
<1>9. ContentOwned' /\ SymbolsLive' /\ NamesFirst'
  BY <1>1, <1>6 DEF header, Structure, ContentOwned, SymbolsLive, NamesFirst, Live, Index
<1> QED
  BY <1>7, <1>8, <1>9 DEF Structure

\* An iteration of deleteRel that deletes.
LEMMA DeletionStep ==
  ASSUME Structure, DeleteSection
  PROVE  Structure'
<1>1. IInv' /\ Traced' /\ ContentOwned'
  BY NextIInv, NextTraced, NextOwned DEF Structure, Next
<1>2. /\ i \in Live /\ i >= 1 /\ e_shnum \in Nat /\ e_shnum >= 2 /\ e_shstrndx \in Live \ {i}
      /\ Live = 0 .. e_shnum - 1 /\ Live' = 0 .. e_shnum - 2 /\ source' = source
      /\ Index(source)' = Index(source)
  BY DeletedTable, DeletionShifts DEF Structure, IInv, Live, DeleteSection, Index
<1>3. SymbolsLive'
  <2> SUFFICES ASSUME NEW l \in DOMAIN symTable', source.sym[l].st_shndx \in Index(source)
               PROVE  symTable'[l].st_shndx \in Live'
    BY <1>2 DEF SymbolsLive
  <2>1. l \in DOMAIN symTable /\ symTable[l].st_shndx \in Live
        /\ symTable[l] \in Elf32_Sym
    BY DEF DeleteSection, Structure, SymbolsLive, IInv, TypeOK
  <2>2. symTable'[l].st_shndx = MovedShndx(symTable[l].st_shndx)
    BY <2>1 DEF DeleteSection, Elf32_Sym
  <2> QED
    BY <1>2, <2>1, <2>2 DEF MovedShndx
<1>4. NamesFirst'
  BY <1>2 DEF DeleteSection, MovedStrndx, Structure, NamesFirst
<1>5. Unwritten'
  <2> SUFFICES ASSUME NEW k \in Live', sectionContent'[k].ptr = "uninit"
               PROVE  /\ ~Filled(source, k)
                      /\ \A l \in Live' : l <= k => Origin(l)' = l
    BY <1>2 DEF Unwritten, Filled
  <2>1. k \in Index(source) /\ k \in Live /\ k < e_shnum - 1 /\ k \in Nat
    BY <1>2 DEF Structure, IInv, TypeOK, ElfFile, ElfShape, Index
  <2>2. sectionContent'[k] = ShiftedContent(k)
    BY <2>1 DEF DeleteSection, Structure, IInv, TypeOK
  <2>3. ~ (i <= k)
    <3>1. ASSUME i <= k
          PROVE  ShiftedContent(k).ptr = ReallocPtr(sectionContent[k].ptr, sectionContent[k + 1].size)
      BY <2>1, <3>1 DEF ShiftedContent
    <3>2. ReallocPtr(sectionContent[k].ptr, sectionContent[k + 1].size) # "uninit"
      BY DEF ReallocPtr
    <3> QED
      BY <2>2, <3>1, <3>2
  <2>4. ShiftedContent(k) = sectionContent[k]
    BY <1>2, <2>1, <2>3 DEF ShiftedContent
  <2>5. ~Filled(source, k) /\ \A l \in Live : l <= k => Origin(l) = l
    BY <2>1, <2>2, <2>4 DEF Structure, Unwritten
  <2>6. ASSUME NEW l \in Live', l <= k
        PROVE  Origin(l)' = l
    <3>1. From(l) = l /\ l \in Live
      BY <1>2, <2>1, <2>3, <2>6 DEF From
    <3> QED
      BY <2>5, <2>6, <3>1, DeletionOrigins DEF Structure
  <2> QED
    BY <2>5, <2>6
<1> QED
  BY <1>1, <1>3, <1>4, <1>5 DEF Structure

\* The stages of the options that leave Elf32_Main alone.
LEMMA HandleStep ==
  ASSUME NEW opts, NEW goto, Handle(opts, goto), AtWork
  PROVE  /\ UNCHANGED elfVars /\ pc' = goto /\ pc = "options"
         /\ argv' = argv /\ optind' = optind + 1 /\ AtWork'
<1>1. Len(argv) \in Nat
  BY ArgvsAssumption DEF AtWork
<1> QED
  BY <1>1 DEF Handle, AtWork

LEMMA NextStructure ==
  Structure /\ AtWork /\ [RNext]_allVars => Structure' /\ AtWork'
<1> SUFFICES ASSUME Structure, AtWork, [RNext]_allVars PROVE Structure' /\ AtWork'
  OBVIOUS
<1>1. CASE Display \/ CrashInDisplay \/ Write \/ Correct \/ Delete \/ NoDestination \/ Unrecognized
  <2>1. UNCHANGED elfVars /\ i' \in {i, 0} /\ pc' \in Stages /\ AtWork'
    BY <1>1, HandleStep DEF Display, CrashInDisplay, Write, Correct, Delete, NoDestination,
                          Unrecognized, Stages
  <2> QED
    BY <2>1, QuietStep
<1>2. CASE DeleteRel
  <2>1. UNCHANGED runVars /\ pc = "deleteRel" /\ AtWork'
    BY <1>2 DEF DeleteRel, runVars, AtWork, SkipSection, DeleteSection, AbortOnUninitialised,
                EndDeleteRel, AtRel
  <2>2. CASE DeleteSection
    BY <2>1, <2>2, DeletionStep
  <2>3. CASE SkipSection \/ AbortOnUninitialised \/ EndDeleteRel
    <3>1. UNCHANGED elfVars
      BY <2>3 DEF SkipSection, AbortOnUninitialised, EndDeleteRel
    <3>2. IInv' /\ Traced' /\ ContentOwned'
      BY <2>3, NextIInv, NextTraced, NextOwned DEF Structure, Next
    <3>3. SymbolsLive' /\ NamesFirst'
      BY <3>1 DEF elfVars, header, Structure, SymbolsLive, NamesFirst, Live, Index
    <3>4. Unwritten'
      BY <3>1, SameOrigins DEF elfVars, Structure, Unwritten
    <3> QED
      BY <2>1, <3>2, <3>3, <3>4 DEF Structure
  <2> QED
    BY <1>2, <2>2, <2>3 DEF DeleteRel
<1>3. CASE CorrectSymTable
  <2>1. AtWork'
    BY <1>3 DEF CorrectSymTable, runVars, AtWork
  <2> QED
    BY <1>3, <2>1, CorrectionStep
<1>4. CASE CrashOutOfTable \/ CorrectABSReloc \/ CrashInReloc \/ Return \/ AbortInFree
  <2>1. UNCHANGED elfVars /\ i' = i /\ pc' \in Stages \ {"correct"} /\ UNCHANGED runVars
    BY <1>4 DEF CrashOutOfTable, CorrectABSReloc, CrashInReloc, Return, AbortInFree, Stages
  <2>2. AtWork'
    BY <2>1 DEF runVars, AtWork
  <2> QED
    BY <2>1, <2>2, QuietStep
<1>5. CASE WriteHeader \/ WriteSectionContent \/ WriteSectionHeader \/ HeaderFails \/ ContentFails
  <2>1. UNCHANGED elfVars /\ i' = i /\ pc' \in Stages /\ pc' # "correct"
        /\ UNCHANGED <<argv, optind>>
    BY <1>5 DEF WriteHeader, WriteSectionContent, WriteSectionHeader, HeaderFails, ContentFails,
                Writes, WriteFails, Stages
  <2>2. AtWork'
    BY <2>1 DEF AtWork
  <2> QED
    BY <2>1, <2>2, QuietStep
<1>6. CASE UNCHANGED allVars
  <2>1. UNCHANGED elfVars /\ i' = i /\ pc' = pc /\ UNCHANGED runVars
    BY <1>6 DEF allVars, vars
  <2>2. pc' \in Stages
    BY <2>1 DEF Structure, IInv, TypeOK
  <2>3. AtWork'
    BY <2>1 DEF runVars, AtWork
  <2> QED
    BY <2>1, <2>2, <2>3, QuietStep
<1> QED
  BY <1>1, <1>2, <1>3, <1>4, <1>5, <1>6 DEF RNext

LEMMA StructureAlways == RSpec => [](Structure /\ AtWork)
BY InitStructure, NextStructure, PTL DEF RSpec

\* Whatever options come before, what Elf32_Main describes is the layout of a
\* file: it can be written (ARM_runner.c:73-150, implantation.c:15, 18-35).
THEOREM LayoutKeptByOptions == RSpec => []LayoutKept
<1>1. Structure => LayoutKept
  BY DEF Structure, IInv
<1> QED
  BY <1>1, StructureAlways, PTL

\* A number that designates a live section, and what the loops find there.
LEMMA NothingOutside ==
  ASSUME Structure, NEW o, Outside(o)
  PROVE  \/ ~OrdinarySymbols(source)
         \/ \E k \in Index(source) : source.sect[k].sh_size > LoadedSize(source, k)
         \/ source.e_shstrndx = 0
         \/ o.opt = "x" /\ o.addr < 0
<1>1. /\ e_shstrndx \in Live /\ e_shnum \in Nat /\ Live = 0 .. e_shnum - 1
      /\ DOMAIN symTable = 0 .. source.nsym - 1 /\ DOMAIN source.sym = 0 .. source.nsym - 1
  BY DEF Structure, IInv, TypeOK, ElfFile, ElfShape, Live
<1>2. ~HeadersOutside
  BY <1>1 DEF HeadersOutside
<1>3. SymbolsOutside => source.e_shstrndx = 0
  <2>1. SymbolsOutside => e_shstrndx = 0
    BY <1>1 DEF SymbolsOutside
  <2> QED
    BY <2>1 DEF Structure, NamesFirst
<1>4. ASSUME NEW k \in Live, ContentOutside(k)
      PROVE  \E m \in Index(source) : source.sect[m].sh_size > LoadedSize(source, m)
  <2>1. sectHeader[k].sh_size > sectionContent[k].size
    BY <1>1, <1>4 DEF ContentOutside
  <2>2. /\ Origin(k) \in Index(source)
        /\ source.sect[Origin(k)].sh_size = sectHeader[k].sh_size
        /\ sectionContent[k].size = LoadedSize(source, Origin(k))
    BY DEF Structure, Traced, LoadedContent
  <2> QED
    BY <2>1, <2>2
<1>5. CASE RelocsOutside
  <2>1. PICK r \in source.rel : \/ symTable[r.r_sym].st_shndx \notin Live
                                \/ SymbolsOutside
    BY <1>2, <1>5 DEF RelocsOutside
  <2>2. r.r_sym \in DOMAIN symTable
    BY <1>1 DEF Structure, IInv, TypeOK, ElfFile, ElfShape
  <2> QED
    BY <1>1, <1>3, <2>1, <2>2 DEF Structure, SymbolsLive, OrdinarySymbols
<1>6. CASE SymbolsOutside
  BY <1>3, <1>6
<1>7. CASE o.opt = "x" /\ ContentOutside(o.addr)
  BY <1>4, <1>7 DEF ContentOutside
<1>8. CASE ContentsOutside
  BY <1>4, <1>8 DEF ContentsOutside
<1> QED
  BY <1>2, <1>5, <1>6, <1>7, <1>8 DEF Outside

\* An address that was never set is given to the C library only when, in the
\* file, a section without bytes follows a relocation table.
LEMMA UnwrittenFollowsRel ==
  ASSUME Structure, AbortOnUninitialised
  PROVE  \E k, l \in Index(source) :
           k <= l /\ source.sect[k].sh_type = "REL" /\ ~Filled(source, l)
<1>1. i \in Nat /\ i < e_shnum /\ e_shnum \in Nat /\ sectHeader[i].sh_type = "REL"
      /\ Live = 0 .. e_shnum - 1 /\ Live \subseteq Index(source)
  BY DEF AbortOnUninitialised, AtRel, Structure, IInv, TypeOK, ElfFile, ElfShape, Live, Index
<1>2. PICK l \in i .. e_shnum - 1 : sectionContent[l].ptr = "uninit"
  BY DEF AbortOnUninitialised
<1>3. i \in Live /\ l \in Live /\ i <= l
  BY <1>1, <1>2
<1>4. ~Filled(source, l) /\ Origin(i) = i
  BY <1>2, <1>3 DEF Structure, Unwritten
<1>5. source.sect[i].sh_type = "REL"
  BY <1>1, <1>3, <1>4 DEF Structure, Traced
<1> QED
  BY <1>1, <1>3, <1>4, <1>5

\* No sequence of options makes the program crash on an ordinary file while they
\* are handled, unless -x is given a negative number (ARM_runner.c:73-150).
THEOREM OnlyOddFilesCrashOptions == RSpec => []OptionsCrashOnOddFiles
<1>1. RInit => OptionsCrashOnOddFiles
  BY DEF RInit, OptionsCrashOnOddFiles
<1>2. ASSUME Structure, OptionsCrashOnOddFiles, [RNext]_allVars
      PROVE  OptionsCrashOnOddFiles'
  <2>1. CASE Display \/ Write \/ Correct \/ Delete \/ NoDestination \/ Unrecognized
             \/ CorrectSymTable \/ CorrectABSReloc \/ Return \/ AbortInFree
    <3>1. pc' # "abort"
      BY <2>1 DEF Display, Write, Correct, Delete, NoDestination, Unrecognized, Handle,
                  CorrectSymTable, CorrectABSReloc, Return, AbortInFree
    <3> QED
      BY <3>1 DEF OptionsCrashOnOddFiles
  <2>2. CASE WriteHeader \/ WriteSectionContent \/ WriteSectionHeader \/ HeaderFails \/ ContentFails
    <3>1. pc' # "abort"
      BY <2>2 DEF WriteHeader, WriteSectionContent, WriteSectionHeader, HeaderFails,
                  ContentFails, Writes, WriteFails
    <3> QED
      BY <3>1 DEF OptionsCrashOnOddFiles
  <2>3. CASE CrashInDisplay
    <3>1. /\ Outside(argv[optind + 1])
          /\ source' = source /\ argv' = argv /\ optind' = optind + 1
      BY <2>3 DEF CrashInDisplay, Handle, elfVars
    <3>2. Option' = argv[optind + 1]
      BY <3>1 DEF Option
    <3> QED
      BY <1>2, <3>1, <3>2, NothingOutside DEF OptionsCrashOnOddFiles, OrdinarySymbols, Index, LoadedSize, NextOffset, Filled
  <2>4. CASE DeleteRel
    <3>1. CASE AbortOnUninitialised
      <4>1. source' = source
        BY <3>1 DEF AbortOnUninitialised, elfVars
      <4> QED
        BY <1>2, <3>1, <4>1, UnwrittenFollowsRel DEF OptionsCrashOnOddFiles, Index, Filled
    <3>2. CASE SkipSection \/ DeleteSection \/ EndDeleteRel
      <4>1. pc' # "abort"
        BY <3>2 DEF SkipSection, DeleteSection, EndDeleteRel, AtRel
      <4> QED
        BY <4>1 DEF OptionsCrashOnOddFiles
    <3> QED
      BY <2>4, <3>1, <3>2 DEF DeleteRel
  <2>5. OutOfTable # {} => ~OrdinarySymbols(source)
    <3>1. Live \subseteq Index(source) /\ DOMAIN symTable = 0 .. source.nsym - 1
      BY <1>2 DEF Structure, IInv, TypeOK, ElfFile, ElfShape, Live, Index
    <3> QED
      BY <1>2, <3>1 DEF OutOfTable, OrdinarySymbols, Structure, SymbolsLive
  <2>6. CASE CrashOutOfTable \/ CrashInReloc
    <3>1. source' = source /\ (OutOfTable # {} \/ Applied # {})
      BY <2>6 DEF CrashOutOfTable, CrashInReloc, Astray, elfVars
    <3> QED
      BY <2>5, <3>1 DEF OptionsCrashOnOddFiles, OrdinarySymbols, Index, Applied
  <2>7. CASE UNCHANGED allVars
    BY <1>2, <2>7 DEF allVars, vars, elfVars, runVars, OptionsCrashOnOddFiles, OrdinarySymbols, Applied, Option,
                      Index, Filled, LoadedSize, NextOffset
  <2> QED
    BY <1>2, <2>1, <2>2, <2>3, <2>4, <2>5, <2>6, <2>7 DEF RNext
<1> QED
  BY <1>1, <1>2, StructureAlways, PTL DEF RSpec
-----------------------------------------------------------------------------
(***************************************************************************)
(* The values of the symbols.  As long as nothing was deleted the names    *)
(* that correctSymTable reads are those of the source file; the option at  *)
(* work is not counted before it has moved its symbols.                    *)
(***************************************************************************)
Addresses(a, T) == MapThenSumSet(LAMBDA n : a[n].addr, T)

\* The sum of addresses is the sum of FoldLemmas.
LEMMA AddressesSum ==
  ASSUME NEW S, IsFiniteSet(S), NEW a, NEW T \in SUBSET S
  PROVE  Addresses(a, T) = SumOf([n \in S |-> a[n].addr], T)
<1> DEFINE g == [n \in S |-> a[n].addr]
           Adding(h) == h = [s \in SUBSET T |-> IF s = {} THEN 0
                               ELSE a[CHOOSE x \in s : TRUE].addr + h[s \ {CHOOSE x \in s : TRUE}]]
           k == CHOOSE h : Adding(h)
<1>1. ASSUME NEW h PROVE Adding(h) <=> IsSum(g, T, h)
  <2>1. ASSUME NEW s \in SUBSET T, s # {}
        PROVE g[CHOOSE x \in s : TRUE] = a[CHOOSE x \in s : TRUE].addr
    BY <2>1
  <2> HIDE DEF g
  <2> QED
    BY <2>1 DEF IsSum, SumStep
<1>2. IsFiniteSet(T)
  BY FS_Subset
<1>3. Addresses(a, T) = k[T]
  BY Zenon DEF Addresses, MapThenSumSet, MapThenFoldSet
<1>4. IsSum(g, T, k)
  <2> HIDE DEF Adding, g
  <2> QED
    BY <1>1, <1>2, SumExists
<1> HIDE DEF k, g
<1> QED
  BY <1>2, <1>3, <1>4, SumIs DEF g

\* One option more.
LEMMA AddressesAdd ==
  ASSUME NEW a \in Seq(Options), NEW T \in SUBSET DOMAIN a, NEW m \in DOMAIN a \ T
  PROVE  /\ Addresses(a, T) \in Int
         /\ Addresses(a, T \cup {m}) = a[m].addr + Addresses(a, T)
<1> DEFINE S == DOMAIN a
           g == [n \in S |-> a[n].addr]
<1>1. IsFiniteSet(S)
  BY FS_Interval
<1>2. g \in [S -> Int]
  <2>1. \A n \in DOMAIN a : a[n] \in Options
    OBVIOUS
  <2>2. \A n \in DOMAIN a : a[n].addr \in Int
    BY <2>1 DEF Options
  <2> QED
    BY <2>2
<1>3. T \cup {m} \in SUBSET S /\ (T \cup {m}) \ {m} = T /\ g[m] = a[m].addr
  OBVIOUS
<1>4. \A U \in SUBSET S : Addresses(a, U) = SumOf(g, U)
  BY <1>1, AddressesSum
<1>5. T \in SUBSET S /\ m \in T \cup {m}
  OBVIOUS
<1> HIDE DEF g, S
<1>6. \A U \in SUBSET S : /\ SumOf(g, U) \in Int
                         /\ \A y \in U : SumOf(g, U) = g[y] + SumOf(g, U \ {y})
  BY <1>1, <1>2, SumFacts
<1>7. SumOf(g, T \cup {m}) = g[m] + SumOf(g, (T \cup {m}) \ {m})
  BY <1>3, <1>5, <1>6, Zenon
<1> QED
  BY <1>3, <1>4, <1>5, <1>6, <1>7, Zenon

LEMMA AddressesEmpty ==
  ASSUME NEW a
  PROVE  Addresses(a, {}) = 0
<1> DEFINE g == [n \in {} |-> a[n].addr]
<1>1. IsFiniteSet({}) /\ g \in [{} -> Int]
  BY FS_EmptySet
<1>2. Addresses(a, {}) = SumOf(g, {})
  BY <1>1, AddressesSum
<1> HIDE DEF g
<1> QED
  BY <1>1, <1>2, SumFacts

\* The option that moves the symbols of a section of this name.
OptionOf(name) == CASE name = TextName -> "text" [] name = DataName -> "data" [] OTHER -> "none"

NameOf(l) == source.sect[source.sym[l].st_shndx].sh_name

Given(opt, m) == {n \in 1 .. m : argv[n].opt = opt}

\* How many options have moved their symbols.
Done == IF pc = "correct" THEN optind - 1 ELSE optind

SymbolsMoved ==
  ~Handled("d") =>
    /\ pc # "deleteRel"
    /\ sectHeader = source.sect /\ e_shstrndx = source.e_shstrndx
    /\ DOMAIN symTable = DOMAIN source.sym
    /\ \A l \in DOMAIN symTable : symTable[l].st_shndx = source.sym[l].st_shndx
    /\ pc = "correct" => Option.opt \in {"text", "data"}
    /\ pc \notin {"abort", "exit"} => \A l \in DOMAIN symTable \ OutOfTable :
         symTable[l].st_value
           = (source.sym[l].st_value + Addresses(argv, Given(OptionOf(NameOf(l)), Done))) % Word

LEMMA InitSymbolsMoved == RInit => SymbolsMoved
<1> SUFFICES ASSUME RInit PROVE SymbolsMoved
  OBVIOUS
<1>1. /\ sectHeader = source.sect /\ e_shstrndx = source.e_shstrndx /\ symTable = source.sym
      /\ pc = "options" /\ optind = 0 /\ source \in Sources
  BY DEF RInit, Loaded
<1>2. \A opt : Addresses(argv, Given(opt, Done)) = 0
  <2>1. \A opt : Given(opt, Done) = {}
    BY <1>1 DEF Given, Done
  <2> QED
    BY <2>1, AddressesEmpty
<1>3. ASSUME NEW l \in DOMAIN symTable
      PROVE  symTable[l].st_value = (source.sym[l].st_value + 0) % Word
  <2>1. source.sym \in [0 .. source.nsym - 1 -> Elf32_Sym]
    BY <1>1, SourcesAssumption DEF ElfFile, ElfShape
  <2>2. source.sym[l].st_value \in Nat /\ source.sym[l].st_value < Word /\ Word \in Nat \ {0}
    BY <1>1, <2>1, WordAssumption DEF Elf32_Sym
  <2>3. \A x, w \in Nat : x < w => x = (x + 0) % w
    OBVIOUS
  <2> QED
    BY <1>1, <2>2, <2>3
<1> QED
  BY <1>1, <1>2, <1>3 DEF SymbolsMoved

\* A step of the loop on the options.
LEMMA HandleSymbols ==
  ASSUME Structure, AtWork, SymbolsMoved, NEW opts, NEW goto, Handle(opts, goto),
         \/ goto = "correct" /\ opts \subseteq {"text", "data"}
         \/ goto \notin {"correct", "deleteRel"} /\ opts \cap {"text", "data"} = {}
         \/ goto = "exit"
         \/ opts = {"d"}
  PROVE  SymbolsMoved'
<1>1. /\ UNCHANGED elfVars /\ argv' = argv /\ optind' = optind + 1
      /\ pc = "options" /\ pc' = goto /\ argv[optind + 1].opt \in opts
      /\ optind \in Nat /\ optind + 1 \in 1 .. Len(argv)
  BY ArgvsAssumption DEF Handle, AtWork
<1>2. SUFFICES ASSUME ~Handled("d")' PROVE SymbolsMoved'
  BY DEF SymbolsMoved
<1>3. ~Handled("d") /\ argv[optind + 1].opt # "d"
  <2>1. \A n \in 1 .. optind + 1 : argv[n].opt # "d"
    BY <1>1, <1>2 DEF Handled
  <2> QED
    BY <1>1, <2>1 DEF Handled
<1>4. Option' = argv[optind + 1]
  BY <1>1 DEF Option
<1>5. ASSUME NEW name, pc' # "exit" PROVE Given(OptionOf(name), Done)' = Given(OptionOf(name), Done)
  <2>1. CASE goto = "correct"
    BY <1>1, <2>1 DEF Given, Done
  <2>2. CASE goto # "correct"
    <3>1. argv[optind + 1].opt \notin {"text", "data"}
      BY <1>1, <1>3, <1>5, <2>2
    <3>2. argv[optind + 1].opt # "none"
      <4>1. argv[optind + 1] \in Options
        BY <1>1, ArgvsAssumption DEF AtWork
      <4> QED
        BY <4>1 DEF Options, Displays
    <3>3. OptionOf(name) \in {"text", "data", "none"}
      BY DEF OptionOf
    <3>4. Done = optind /\ Done' = optind + 1
      BY <1>1, <2>2 DEF Done
    <3> QED
      BY <1>1, <3>1, <3>2, <3>3, <3>4 DEF Given
  <2> QED
    BY <2>1, <2>2
<1>6. OutOfTable' = OutOfTable /\ \A l : NameOf(l)' = NameOf(l)
  BY <1>1 DEF OutOfTable, NameOf, elfVars, Index
<1>7. pc' = "correct" => Option'.opt \in {"text", "data"}
  BY <1>1, <1>3, <1>4
<1>8. pc' # "deleteRel"
  BY <1>1, <1>3
<1> QED
  BY <1>1, <1>3, <1>5, <1>6, <1>7, <1>8 DEF SymbolsMoved, elfVars, header

\* correctSymTable adds the address to the symbols of the section it is for.
LEMMA CorrectionMoves ==
  ASSUME Structure, AtWork, SymbolsMoved, CorrectSymTable
  PROVE  SymbolsMoved'
<1>1. /\ UNCHANGED <<source, header, sectHeader, sectionContent, i, runVars>>
      /\ pc = "correct" /\ pc' = "relocate"
  BY DEF CorrectSymTable
<1>2. SUFFICES ASSUME ~Handled("d") PROVE SymbolsMoved'
  BY <1>1 DEF Handled, runVars, SymbolsMoved
<1>3. PICK misread \in SUBSET OutOfTable :
        symTable' = [l \in DOMAIN symTable |->
                       Corrected(l, IF l \in OutOfTable THEN l \in misread
                                    ELSE NameRead(symTable[l].st_shndx) = Target)]
  BY DEF CorrectSymTable
<1>4. /\ symTable \in [0 .. source.nsym - 1 -> Elf32_Sym] /\ Word \in Nat \ {0}
      /\ source.sect \in [Index(source) -> Elf32_Shdr] /\ source.e_shstrndx \in Index(source)
      /\ source.sym \in [0 .. source.nsym - 1 -> Elf32_Sym]
  BY WordAssumption DEF Structure, IInv, TypeOK, ElfFile, ElfShape
<1>5. /\ sectHeader = source.sect /\ e_shstrndx = source.e_shstrndx
      /\ \A l \in DOMAIN symTable : symTable[l].st_shndx = source.sym[l].st_shndx
      /\ Option.opt \in {"text", "data"}
  BY <1>1, <1>2 DEF SymbolsMoved
<1>6. argv \in Seq(Options) /\ optind \in DOMAIN argv /\ optind \in Nat \ {0}
  BY <1>1, ArgvsAssumption DEF AtWork
<1>7. Option.addr \in Int
  <2>1. Option \in Options
    BY <1>6 DEF Option
  <2> QED
    BY <2>1 DEF Options
<1>8. ASSUME NEW l \in DOMAIN symTable
      PROVE  symTable'[l].st_shndx = symTable[l].st_shndx
  BY <1>3, <1>4 DEF Corrected, Elf32_Sym
<1>9. OutOfTable' = OutOfTable /\ DOMAIN symTable' = DOMAIN symTable
  BY <1>1, <1>3, <1>8 DEF OutOfTable, Index
<1>10. ASSUME NEW l \in DOMAIN symTable \ OutOfTable
       PROVE  symTable'[l].st_value
                = (source.sym[l].st_value
                     + Addresses(argv, Given(OptionOf(NameOf(l)), optind))) % Word
  <2> DEFINE name == NameOf(l)
             old == Given(OptionOf(name), optind - 1)
             v == source.sym[l].st_value
             sum == Addresses(argv, old)
  <2>1. symTable[l].st_shndx \in Index(source) /\ symTable[l].st_shndx = source.sym[l].st_shndx
        /\ v \in Int
    <3>1. source.sym[l] \in Elf32_Sym
      BY <1>4
    <3> QED
      BY <1>5, <3>1 DEF OutOfTable, Elf32_Sym
  <2>2. NameRead(symTable[l].st_shndx) = name
    <3>1. /\ source.sect[source.e_shstrndx].sh_offset \in Nat
          /\ source.sect[symTable[l].st_shndx].sh_name \in Nat
      BY <1>4, <2>1 DEF Elf32_Shdr
    <3>2. \A x, y \in Nat : x + y - x = y
      OBVIOUS
    <3> QED
      BY <1>5, <2>1, <3>1, <3>2 DEF NameRead, NameOf
  <2>3. symTable[l].st_value = (v + sum) % Word
    BY <1>1, <1>2 DEF SymbolsMoved, Done
  <2>4. symTable'[l].st_value = IF name = Target THEN (symTable[l].st_value + Option.addr) % Word
                                                 ELSE symTable[l].st_value
    BY <1>3, <1>4, <2>2 DEF Corrected, Elf32_Sym
  <2>5. name = Target <=> OptionOf(name) = Option.opt
    BY <1>5, NamesAssumption DEF Target, OptionOf
  <2>6. Given(OptionOf(name), optind)
          = IF OptionOf(name) = Option.opt THEN old \cup {optind} ELSE old
    BY <1>6 DEF Given, Option
  <2>7. old \in SUBSET DOMAIN argv /\ optind \in DOMAIN argv \ old
    BY <1>6 DEF Given
  <2>8. sum \in Int /\ Addresses(argv, old \cup {optind}) = Option.addr + sum
    BY <1>6, <2>7, AddressesAdd DEF Option
  <2> HIDE DEF name, old, v, sum
  <2>9. (((v + sum) % Word) + Option.addr) % Word = (v + (Option.addr + sum)) % Word
    <3>1. (((v + sum) % Word) + Option.addr) % Word = ((v + sum) + Option.addr) % Word
      <4>1. v + sum \in Int /\ Option.addr \in Int /\ Word \in Nat \ {0}
        BY <1>4, <1>7, <2>1, <2>8
      <4> QED
        BY <4>1, ModAdd, Zenon
    <3>2. (v + sum) + Option.addr = v + (Option.addr + sum)
      BY <1>7, <2>1, <2>8
    <3> QED
      BY <3>1, <3>2
  <2>10. CASE name = Target
    <3>1. symTable'[l].st_value = (v + (Option.addr + sum)) % Word
      BY <2>3, <2>4, <2>9, <2>10
    <3>2. Given(OptionOf(name), optind) = old \cup {optind}
      BY <2>5, <2>6, <2>10
    <3> QED
      BY <2>8, <3>1, <3>2 DEF name, v
  <2>11. CASE name # Target
    <3>1. Given(OptionOf(name), optind) = old
      BY <2>5, <2>6, <2>11
    <3> QED
      BY <2>3, <2>4, <2>11, <3>1 DEF name, v, sum
  <2> QED
    BY <2>10, <2>11
<1>11. ASSUME NEW l PROVE NameOf(l)' = NameOf(l)
  BY <1>1 DEF NameOf
<1>12. ASSUME NEW opt PROVE Given(opt, Done)' = Given(opt, optind)
  BY <1>1 DEF Given, Done, runVars
<1>13. argv' = argv
  BY <1>1 DEF runVars
<1> QED
  BY <1>1, <1>4, <1>5, <1>8, <1>9, <1>10, <1>11, <1>12, <1>13 DEF SymbolsMoved, header

LEMMA NextSymbolsMoved ==
  Structure /\ AtWork /\ SymbolsMoved /\ [RNext]_allVars => SymbolsMoved'
<1> SUFFICES ASSUME Structure, AtWork, SymbolsMoved, [RNext]_allVars PROVE SymbolsMoved'
  OBVIOUS
<1>1. CASE Display
  BY <1>1, HandleSymbols DEF Display, Displays
<1>2. CASE CrashInDisplay
  BY <1>2, HandleSymbols DEF CrashInDisplay, Displays
<1>3. CASE Write \/ Correct
  BY <1>3, HandleSymbols DEF Write, Correct
<1>4. CASE Delete
  BY <1>4, HandleSymbols DEF Delete
<1>5. CASE NoDestination
  BY <1>5, HandleSymbols DEF NoDestination
<1>6. CASE Unrecognized
  BY <1>6, HandleSymbols DEF Unrecognized
<1>7. CASE DeleteRel
  <2>1. pc = "deleteRel" /\ argv' = argv /\ optind' = optind
    BY <1>7 DEF DeleteRel, runVars, SkipSection, DeleteSection, AbortOnUninitialised,
                EndDeleteRel, AtRel
  <2>2. Handled("d")'
    BY <2>1 DEF SymbolsMoved, Handled
  <2> QED
    BY <2>2 DEF SymbolsMoved
<1>8. CASE CorrectSymTable
  BY <1>8, CorrectionMoves
<1>9. ASSUME UNCHANGED elfVars, argv' = argv, optind' = optind,
             \/ pc' = pc
             \/ pc' \in {"abort", "exit"}
             \/ pc \notin {"correct", "abort", "exit"} /\ pc' \notin {"correct", "deleteRel"}
      PROVE  SymbolsMoved'
  <2>1. Handled("d")' = Handled("d") /\ Option' = Option /\ OutOfTable' = OutOfTable
        /\ \A l : NameOf(l)' = NameOf(l)
    BY <1>9 DEF Handled, Option, OutOfTable, NameOf, elfVars, Index
  <2>2. pc' \notin {"abort", "exit"} => \A opt : Given(opt, Done)' = Given(opt, Done)
    BY <1>9 DEF Given, Done
  <2> QED
    BY <1>9, <2>1, <2>2 DEF SymbolsMoved, elfVars, header
<1>10. CASE CrashOutOfTable \/ CorrectABSReloc \/ CrashInReloc \/ Return \/ AbortInFree
  BY <1>9, <1>10 DEF CrashOutOfTable, CorrectABSReloc, CrashInReloc, Return, AbortInFree, runVars
<1>11. CASE WriteHeader \/ WriteSectionContent \/ WriteSectionHeader \/ HeaderFails \/ ContentFails
  BY <1>9, <1>11 DEF WriteHeader, WriteSectionContent, WriteSectionHeader, HeaderFails,
                     ContentFails, Writes, WriteFails
<1>12. CASE UNCHANGED allVars
  BY <1>9, <1>12 DEF allVars, vars, runVars
<1> QED
  BY <1>1, <1>2, <1>3, <1>4, <1>5, <1>6, <1>7, <1>8, <1>10, <1>11, <1>12 DEF RNext

\* Whatever addresses are given, how often and in whatever order, each symbol
\* has moved by those of its section, modulo the width of an address
\* (ARM_runner.c:24, implantation.c:57-69).
THEOREM SymbolsMoveBeforeDelete == RSpec => []SymbolsRelocatedBeforeDelete
<1>1. SymbolsMoved => SymbolsRelocatedBeforeDelete
  <2> SUFFICES ASSUME SymbolsMoved, ~Handled("d"), pc = "options",
                      NEW l \in DOMAIN symTable \ OutOfTable
               PROVE  symTable[l].st_value
                        = (source.sym[l].st_value
                             + Addresses(argv, Given(OptionOf(NameOf(l)), optind))) % Word
    BY DEF SymbolsRelocatedBeforeDelete, SymbolsRelocated, Addresses, Given, OptionOf, NameOf
  <2> QED
    BY DEF SymbolsMoved, Done
<1> QED
  BY <1>1, InitSymbolsMoved, NextSymbolsMoved, StructureAlways, PTL DEF RSpec
-----------------------------------------------------------------------------
(***************************************************************************)
(* The cells of a file: their types, and how many each part of it has.     *)
(***************************************************************************)
Cells ==
  ({"ehdr"} \X (Nat \X Nat \X Nat) \X Nat) \cup ({"shdr"} \X Elf32_Shdr \X Nat)
    \cup ({"sym"} \X (Nat \X Nat \X Nat) \X Nat) \cup ({"byte"} \X Nat \X Nat)

LEMMA EntryCells ==
  ASSUME NEW kind, NEW what, NEW size \in Nat, \A j \in Nat : <<kind, what, j>> \in Cells
  PROVE  /\ Entry(kind, what, size) \in Seq(Cells) /\ Len(Entry(kind, what, size)) = size
         /\ \A j \in 1 .. size : Entry(kind, what, size)[j] = <<kind, what, j>>
BY DEF Entry

LEMMA ByteCells ==
  ASSUME NEW from \in Nat, NEW size \in Nat
  PROVE  /\ Bytes(from, size) \in Seq(Cells) /\ Len(Bytes(from, size)) = size
         /\ \A j \in 1 .. size : Bytes(from, size)[j] = <<"byte", from + j - 1, 1>>
<1>1. \A j \in 1 .. size : <<"byte", from + j - 1, 1>> \in Cells
  BY DEF Cells
<1> QED
  BY <1>1 DEF Bytes

LEMMA HeaderFacts ==
  ASSUME TypeOK
  PROVE  /\ HeaderCells \in Seq(Cells) /\ Len(HeaderCells) = EhdrSize
         /\ \A j \in 1 .. EhdrSize : HeaderCells[j] = <<"ehdr", <<e_shnum, e_shoff, e_shstrndx>>, j>>
<1>1. e_shnum \in Nat /\ e_shoff \in Nat /\ e_shstrndx \in Nat /\ EhdrSize \in Nat
  BY SizesAssumption DEF TypeOK, Live, ElfFile, ElfShape
<1>2. \A j \in Nat : <<"ehdr", <<e_shnum, e_shoff, e_shstrndx>>, j>> \in Cells
  BY <1>1 DEF Cells
<1> QED
  BY <1>1, <1>2, EntryCells DEF HeaderCells

LEMMA SymTabFacts ==
  ASSUME TypeOK
  PROVE  /\ SymTabCells \in Seq(Cells) /\ Len(SymTabCells) = source.nsym * SymSize
         /\ \A l \in 0 .. source.nsym - 1 : \A j \in 1 .. SymSize :
              SymTabCells[l * SymSize + j] = <<"sym", <<l, symTable[l].st_shndx, symTable[l].st_value>>, j>>
<1> DEFINE what(l) == <<l - 1, symTable[l - 1].st_shndx, symTable[l - 1].st_value>>
           ss == [l \in 1 .. source.nsym |-> Entry("sym", what(l), SymSize)]
<1>1. source.nsym \in Nat /\ SymSize \in Nat \ {0} /\ symTable \in [0 .. source.nsym - 1 -> Elf32_Sym]
  BY SizesAssumption DEF TypeOK, ElfFile, ElfShape
<1>2. ASSUME NEW l \in 1 .. source.nsym
      PROVE  /\ Entry("sym", what(l), SymSize) \in Seq(Cells)
             /\ Len(Entry("sym", what(l), SymSize)) = SymSize
             /\ \A j \in 1 .. SymSize : Entry("sym", what(l), SymSize)[j] = <<"sym", what(l), j>>
  <2>1. l - 1 \in 0 .. source.nsym - 1 /\ l - 1 \in Nat
    BY <1>1
  <2>2. symTable[l - 1] \in Elf32_Sym
    BY <1>1, <2>1
  <2>3. what(l) \in Nat \X Nat \X Nat
    BY <2>1, <2>2 DEF Elf32_Sym
  <2>4. \A j \in Nat : <<"sym", what(l), j>> \in Cells
    BY <2>3 DEF Cells
  <2> HIDE DEF what
  <2> QED
    BY <1>1, <2>4, EntryCells
<1>3. ss \in Seq(Seq(Cells)) /\ Len(ss) = source.nsym
  <2> HIDE DEF what
  <2> QED
    BY <1>1, <1>2, SMTT(20)
<1>4. \A k \in 1 .. Len(ss) : Len(ss[k]) = SymSize
  <2> HIDE DEF what
  <2> QED
    BY <1>2, <1>3
<1>5. SymTabCells = FlattenSeq(ss)
  BY DEF SymTabCells
<1>6. ASSUME NEW l \in 0 .. source.nsym - 1, NEW j \in 1 .. SymSize
      PROVE  ss[l + 1][j] = <<"sym", <<l, symTable[l].st_shndx, symTable[l].st_value>>, j>>
  <2>1. l + 1 \in 1 .. source.nsym /\ (l + 1) - 1 = l
    BY <1>1
  <2>2. ss[l + 1] = Entry("sym", what(l + 1), SymSize)
    BY <2>1
  <2>3. ss[l + 1][j] = <<"sym", what(l + 1), j>>
    BY <1>2, <2>1, <2>2
  <2> QED
    BY <2>1, <2>3
<1> HIDE DEF ss
<1>7. /\ FlattenSeq(ss) \in Seq(Cells) /\ Len(FlattenSeq(ss)) = Len(ss) * SymSize
      /\ \A k \in 0 .. Len(ss) - 1 : \A j \in 1 .. SymSize :
           FlattenSeq(ss)[k * SymSize + j] = ss[k + 1][j]
  BY <1>1, <1>3, <1>4, FlattenEqual
<1> QED
  BY <1>3, <1>5, <1>6, <1>7

LEMMA SectHeaderFacts ==
  ASSUME TypeOK
  PROVE  /\ SectHeaderCells \in Seq(Cells) /\ Len(SectHeaderCells) = e_shnum * ShdrSize
         /\ \A k \in Live : \A j \in 1 .. ShdrSize :
              SectHeaderCells[k * ShdrSize + j] = <<"shdr", sectHeader[k], j>>
<1> DEFINE ss == [k \in 1 .. e_shnum |-> Entry("shdr", sectHeader[k - 1], ShdrSize)]
<1>1. /\ e_shnum \in Nat /\ ShdrSize \in Nat \ {0} /\ Live = 0 .. e_shnum - 1
      /\ Live \subseteq Index(source) /\ sectHeader \in [Index(source) -> Elf32_Shdr]
  BY SizesAssumption DEF TypeOK, ElfFile, ElfShape, Live, Index
<1>2. ASSUME NEW k \in 1 .. e_shnum
      PROVE  /\ Entry("shdr", sectHeader[k - 1], ShdrSize) \in Seq(Cells)
             /\ Len(Entry("shdr", sectHeader[k - 1], ShdrSize)) = ShdrSize
             /\ \A j \in 1 .. ShdrSize :
                  Entry("shdr", sectHeader[k - 1], ShdrSize)[j] = <<"shdr", sectHeader[k - 1], j>>
  <2>1. k - 1 \in Live
    BY <1>1
  <2>2. sectHeader[k - 1] \in Elf32_Shdr
    BY <1>1, <2>1
  <2>4. \A j \in Nat : <<"shdr", sectHeader[k - 1], j>> \in Cells
    BY <2>2 DEF Cells
  <2> QED
    BY <1>1, <2>4, EntryCells
<1>3. ss \in Seq(Seq(Cells)) /\ Len(ss) = e_shnum
  BY <1>1, <1>2
<1>4. \A k \in 1 .. Len(ss) : Len(ss[k]) = ShdrSize
  BY <1>2, <1>3
<1>5. SectHeaderCells = FlattenSeq(ss)
  BY DEF SectHeaderCells
<1>6. ASSUME NEW k \in Live, NEW j \in 1 .. ShdrSize
      PROVE  ss[k + 1][j] = <<"shdr", sectHeader[k], j>>
  <2>1. k + 1 \in 1 .. e_shnum /\ (k + 1) - 1 = k
    BY <1>1
  <2>2. ss[k + 1] = Entry("shdr", sectHeader[(k + 1) - 1], ShdrSize)
    BY <2>1
  <2> QED
    BY <1>2, <2>1, <2>2
<1> HIDE DEF ss
<1>7. /\ FlattenSeq(ss) \in Seq(Cells) /\ Len(FlattenSeq(ss)) = Len(ss) * ShdrSize
      /\ \A k \in 0 .. Len(ss) - 1 : \A j \in 1 .. ShdrSize :
           FlattenSeq(ss)[k * ShdrSize + j] = ss[k + 1][j]
  BY <1>1, <1>3, <1>4, FlattenEqual
<1>8. ASSUME NEW k \in Live, NEW j \in 1 .. ShdrSize
      PROVE  SectHeaderCells[k * ShdrSize + j] = <<"shdr", sectHeader[k], j>>
  <2>1. k \in 0 .. Len(ss) - 1
    BY <1>1, <1>3
  <2>2. FlattenSeq(ss)[k * ShdrSize + j] = ss[k + 1][j]
    BY <1>7, <2>1
  <2> QED
    BY <1>5, <1>6, <2>2
<1> QED
  BY <1>3, <1>5, <1>7, <1>8, Zenon

\* The number of cells written for section k.
CellCount(k) == IF sectHeader[k].sh_type = "SYMTAB" THEN source.nsym * SymSize ELSE sectionContent[k].size

LEMMA SectionFacts ==
  ASSUME TypeOK, NEW k \in Live
  PROVE  SectionCells(k) \in Seq(Cells) /\ Len(SectionCells(k)) = CellCount(k) /\ CellCount(k) \in Nat
<1>1. sectionContent[k].from \in Nat /\ sectionContent[k].size \in Nat
  <2>1. k \in Index(source)
    BY DEF TypeOK, ElfFile, ElfShape, Live, Index
  <2>2. sectionContent[k] \in SectionContent
    BY <2>1 DEF TypeOK
  <2> QED
    BY <2>2 DEF SectionContent
<1>2. source.nsym * SymSize \in Nat
  BY SizesAssumption, Times DEF TypeOK, ElfFile, ElfShape
<1> QED
  BY <1>1, <1>2, ByteCells, SymTabFacts DEF SectionCells, CellCount
-----------------------------------------------------------------------------
\* The sections that come before k in the order of the offsets.
Preceding(k) == {l \in Live : Before(l, k)}

LEMMA BeforeOrder ==
  ASSUME TypeOK
  PROVE  /\ \A k \in Live : ~Before(k, k)
         /\ \A k, l \in Live : k # l => Before(k, l) \/ Before(l, k)
         /\ \A k, l, m \in Live : Before(k, l) /\ Before(l, m) => Before(k, m)
<1>1. \A k \in Live : k \in Nat /\ sectHeader[k].sh_offset \in Nat
  <2> TAKE k \in Live
  <2>1. k \in Index(source) /\ k \in Nat
    BY DEF TypeOK, ElfFile, ElfShape, Live, Index
  <2>2. sectHeader[k] \in Elf32_Shdr
    BY <2>1 DEF TypeOK
  <2> QED
    BY <2>1, <2>2 DEF Elf32_Shdr
<1> QED
  BY <1>1 DEF Before

\* Sorting the sections gives each of them one place, and puts each after those
\* it does not precede.
LEMMA OrderFacts ==
  ASSUME TypeOK
  PROVE  /\ WriteOrder \in [1 .. e_shnum -> Live]
         /\ \A k \in Live : \E n \in 1 .. e_shnum : WriteOrder[n] = k
         /\ \A m, n \in 1 .. e_shnum : m < n => Before(WriteOrder[m], WriteOrder[n])
<1> DEFINE rank == [k \in Live |-> Cardinality(Preceding(k))]
<1>1. e_shnum \in Nat \ {0} /\ Live = 0 .. e_shnum - 1
  BY DEF TypeOK, ElfFile, ElfShape, Live
<1>2. IsFiniteSet(Live) /\ Cardinality(Live) = e_shnum
  <2>1. 0 \in Int /\ e_shnum - 1 \in Int
    BY <1>1
  <2>2. /\ IsFiniteSet(0 .. e_shnum - 1)
        /\ Cardinality(0 .. e_shnum - 1) = IF 0 > e_shnum - 1 THEN 0 ELSE e_shnum - 1 - 0 + 1
    BY <2>1, FS_Interval
  <2>3. (IF 0 > e_shnum - 1 THEN 0 ELSE e_shnum - 1 - 0 + 1) = e_shnum
    BY <1>1
  <2> QED
    BY <1>1, <2>2, <2>3, Zenon
<1>3. ASSUME NEW k \in Live
      PROVE  /\ IsFiniteSet(Preceding(k)) /\ Cardinality(Preceding(k)) \in Live
             /\ k \notin Preceding(k)
  <2>1. Preceding(k) \in SUBSET (Live \ {k}) /\ k \notin Preceding(k)
    <3>1. ~Before(k, k)
      BY BeforeOrder, Zenon
    <3> QED
      BY <3>1, Zenon DEF Preceding
  <2>2. IsFiniteSet(Live \ {k}) /\ Cardinality(Live \ {k}) = e_shnum - 1
    <3>1. IsFiniteSet(Live \ {k}) /\ Cardinality(Live \ {k}) = Cardinality(Live) - 1
      BY <1>2, FS_RemoveElement, Zenon
    <3> QED
      BY <1>2, <3>1, Zenon
  <2>3. IsFiniteSet(Preceding(k)) /\ Cardinality(Preceding(k)) <= e_shnum - 1
    BY <2>1, <2>2, FS_Subset
  <2>4. Cardinality(Preceding(k)) \in Nat
    BY <2>3, FS_CardinalityType
  <2> QED
    BY <1>1, <2>1, <2>3, <2>4
<1>4. ASSUME NEW k \in Live, NEW l \in Live, Before(k, l)
      PROVE  Cardinality(Preceding(k)) < Cardinality(Preceding(l))
  <2>1. Preceding(k) \in SUBSET (Preceding(l) \ {k}) /\ k \in Preceding(l)
    BY <1>3, <1>4, BeforeOrder DEF Preceding
  <2>2. IsFiniteSet(Preceding(l) \ {k}) /\ Cardinality(Preceding(l) \ {k}) = Cardinality(Preceding(l)) - 1
    BY <1>3, <2>1, FS_RemoveElement
  <2>3. Cardinality(Preceding(k)) <= Cardinality(Preceding(l)) - 1
    BY <2>1, <2>2, FS_Subset
  <2> QED
    BY <1>1, <1>3, <2>3
<1>5. rank \in [Live -> Live]
  BY <1>3
<1>6. rank \in Injection(Live, Live)
  <2>1. ASSUME NEW k \in Live, NEW l \in Live, k # l PROVE rank[k] # rank[l]
    <3>1. Before(k, l) \/ Before(l, k)
      BY <2>1, BeforeOrder
    <3>2. rank[k] \in Int /\ rank[l] \in Int
      BY <1>1, <1>5
    <3> QED
      BY <1>4, <3>1, <3>2
  <2> HIDE DEF rank
  <2> QED
    BY <1>5, <2>1 DEF Injection, IsInjective
<1>7. rank \in Surjection(Live, Live)
  BY <1>2, <1>6, FS_Injection
<1>8. ASSUME NEW n \in 1 .. e_shnum
      PROVE  WriteOrder[n] \in Live /\ rank[WriteOrder[n]] = n - 1
  <2>1. n - 1 \in Live
    BY <1>1
  <2>2. \E k \in Live : rank[k] = n - 1
    <3> HIDE DEF rank
    <3> QED
      BY <1>7, <2>1 DEF Surjection
  <2>3. \E k \in Live : Cardinality({l \in Live : Before(l, k)}) = n - 1
    BY <2>2 DEF Preceding
  <2>4. WriteOrder[n] = CHOOSE k \in Live : Cardinality({l \in Live : Before(l, k)}) = n - 1
    BY DEF WriteOrder
  <2> QED
    BY <2>3, <2>4 DEF Preceding
<1>9. WriteOrder \in [1 .. e_shnum -> Live]
  <2>1. WriteOrder = [n \in 1 .. e_shnum |-> WriteOrder[n]]
    BY DEF WriteOrder
  <2> QED
    BY <1>8, <2>1
<1>10. ASSUME NEW k \in Live
       PROVE  \E n \in 1 .. e_shnum : WriteOrder[n] = k
  <2>1. rank[k] \in Live /\ rank[k] + 1 \in 1 .. e_shnum /\ (rank[k] + 1) - 1 = rank[k]
    BY <1>1, <1>5, SMTT(20)
  <2>2. rank[WriteOrder[rank[k] + 1]] = rank[k] /\ WriteOrder[rank[k] + 1] \in Live
    BY <1>8, <2>1
  <2>3. WriteOrder[rank[k] + 1] = k
    <3> HIDE DEF rank
    <3> QED
      BY <1>6, <2>2 DEF Injection, IsInjective
  <2> QED
    BY <2>1, <2>3
<1>11. ASSUME NEW m \in 1 .. e_shnum, NEW n \in 1 .. e_shnum, m < n
       PROVE  Before(WriteOrder[m], WriteOrder[n])
  <2> DEFINE k == WriteOrder[m]
             l == WriteOrder[n]
  <2>1. k \in Live /\ l \in Live /\ rank[k] = m - 1 /\ rank[l] = n - 1
    BY <1>8
  <2>2. rank[k] < rank[l]
    BY <2>1, <1>11
  <2> HIDE DEF k, l
  <2>3. k # l
    BY <2>1, <2>2
  <2>4. ~Before(l, k)
    <3> SUFFICES ASSUME Before(l, k) PROVE FALSE
      OBVIOUS
    <3>1. rank[l] < rank[k] /\ rank[k] \in Int /\ rank[l] \in Int
      BY <1>1, <1>4, <1>5, <2>1
    <3> QED
      BY <2>2, <3>1
  <2>5. Before(k, l)
    BY <2>1, <2>3, <2>4, BeforeOrder
  <2> QED
    BY <2>5 DEF k, l
<1> QED
  BY <1>9, <1>10, <1>11
-----------------------------------------------------------------------------
(***************************************************************************)
(* The file that Elf32_Main describes.  Nothing is between the sections of *)
(* a packed file, so that writing their bytes one after the other, in the  *)
(* order of the offsets, puts each where its header says; that the order   *)
(* is one is proved by counting the sections that precede each of them.    *)
(* The loaders give such a layout, and no deletion makes a hole in it.     *)
(***************************************************************************)
\* Position p of the file is among the bytes held for section k.
Covers(k, p) ==
  sectHeader[k].sh_offset <= p /\ p < sectHeader[k].sh_offset + sectionContent[k].size

\* Packed, of Elf32_Main.
Tiled ==
  /\ EhdrSize <= e_shoff
  /\ \A k \in Live : CellCount(k) = sectionContent[k].size
  /\ \A p \in EhdrSize .. e_shoff - 1 : \E k \in Live : Covers(k, p)

ContentPieces == [n \in 1 .. e_shnum |-> SectionCells(WriteOrder[n])]

LEMMA ContentTyped ==
  ASSUME TypeOK
  PROVE  /\ ContentPieces \in Seq(Seq(Cells)) /\ Len(ContentPieces) = e_shnum
         /\ ContentCells = FlattenSeq(ContentPieces) /\ ContentCells \in Seq(Cells)
<1>1. e_shnum \in Nat
  BY DEF TypeOK, ElfFile, ElfShape
<1>2. \A n \in 1 .. e_shnum : SectionCells(WriteOrder[n]) \in Seq(Cells)
  BY OrderFacts, SectionFacts
<1>3. ContentPieces \in Seq(Seq(Cells)) /\ Len(ContentPieces) = e_shnum
  BY <1>1, <1>2 DEF ContentPieces
<1>4. ContentCells = FlattenSeq(ContentPieces)
  BY DEF ContentCells, ContentPieces
<1> QED
  BY <1>3, <1>4, FlattenPieces

\* The bytes of the sections, put one after the other in the order of the
\* offsets, fill the file from the end of the ELF header to the section headers,
\* and each section lies where its header says.
LEMMA ContentTiles ==
  ASSUME TypeOK, LayoutKept, Tiled
  PROVE  /\ ContentCells \in Seq(Cells) /\ Len(ContentCells) = e_shoff - EhdrSize
         /\ \A k \in Live : \A j \in 1 .. sectionContent[k].size :
              ContentCells[(sectHeader[k].sh_offset - EhdrSize) + j] = SectionCells(k)[j]
<1> DEFINE off(k) == sectHeader[k].sh_offset
           siz(k) == sectionContent[k].size
           W == WriteOrder
           N == e_shnum
<1>1. /\ N \in Nat \ {0} /\ e_shoff \in Nat /\ EhdrSize \in Nat /\ EhdrSize <= e_shoff
      /\ \A k \in Live : off(k) \in Nat /\ siz(k) \in Nat
  <2>1. \A k \in Live : k \in Index(source)
    BY DEF TypeOK, ElfFile, ElfShape, Live, Index
  <2>2. \A k \in Live : sectHeader[k] \in Elf32_Shdr /\ sectionContent[k] \in SectionContent
    BY <2>1 DEF TypeOK
  <2>3. \A k \in Live : off(k) \in Nat /\ siz(k) \in Nat
    BY <2>2 DEF Elf32_Shdr, SectionContent
  <2>4. N \in Nat \ {0} /\ e_shoff \in Nat
    BY DEF TypeOK, ElfFile, ElfShape
  <2> QED
    BY <2>3, <2>4, SizesAssumption DEF Tiled
<1>2. W \in [1 .. N -> Live] /\ \A k \in Live : \E n \in 1 .. N : W[n] = k
  BY OrderFacts
<1>3. \A m, n \in 1 .. N : m < n => off(W[m]) <= off(W[n]) /\ W[m] # W[n]
  <2>1. \A m, n \in 1 .. N : m < n => Before(W[m], W[n])
    BY OrderFacts
  <2>2. \A k, l \in Live : Before(k, l) => off(k) <= off(l)
    BY <1>1 DEF Before
  <2>3. \A k \in Live : ~Before(k, k)
    BY BeforeOrder
  <2> QED
    BY <1>2, <2>1, <2>2, <2>3
<1>4. \A k \in Live : siz(k) # 0 =>
        /\ EhdrSize <= off(k) /\ off(k) + siz(k) <= e_shoff
        /\ \A l \in Live \ {k} : /\ off(l) > off(k) => off(k) + siz(k) <= off(l)
                                 /\ siz(l) # 0 => off(l) # off(k)
  BY DEF LayoutKept, EndsBefore
<1>5. \A p \in EhdrSize .. e_shoff - 1 : \E n \in 1 .. N : off(W[n]) <= p /\ p < off(W[n]) + siz(W[n])
  <2> TAKE p \in EhdrSize .. e_shoff - 1
  <2>1. PICK k \in Live : Covers(k, p)
    BY DEF Tiled
  <2>2. PICK n \in 1 .. N : W[n] = k
    BY <1>2
  <2> QED
    BY <2>1, <2>2 DEF Covers
<1>6. PICK e : Laid(ContentPieces, e)
  BY ContentTyped, FlattenPieces
<1>7. /\ e[0] = 0 /\ \A n \in 0 .. N : e[n] \in Nat
      /\ \A n \in 1 .. N : e[n] = e[n - 1] + siz(W[n])
      /\ Len(ContentCells) = e[N]
      /\ \A n \in 1 .. N : \A j \in 1 .. siz(W[n]) : ContentCells[e[n - 1] + j] = SectionCells(W[n])[j]
  <2>1. Len(ContentPieces) = N /\ ContentCells = FlattenSeq(ContentPieces)
    BY ContentTyped
  <2>2. \A n \in 1 .. N : ContentPieces[n] = SectionCells(W[n]) /\ Len(ContentPieces[n]) = siz(W[n])
    BY <1>2, SectionFacts DEF ContentPieces, Tiled
  <2>3. /\ e \in [0 .. N -> Nat] /\ e[0] = 0 /\ Len(ContentCells) = e[N]
        /\ \A n \in 1 .. N : /\ e[n] = e[n - 1] + Len(ContentPieces[n])
                             /\ \A j \in 1 .. Len(ContentPieces[n]) :
                                  ContentCells[e[n - 1] + j] = ContentPieces[n][j]
    <3> HIDE DEF N
    <3> QED
      BY <1>6, <2>1, Zenon DEF Laid
  <2> HIDE DEF siz, W, N
  <2>4. ASSUME NEW n \in 1 .. N
        PROVE  /\ e[n] = e[n - 1] + siz(W[n])
               /\ \A j \in 1 .. siz(W[n]) : ContentCells[e[n - 1] + j] = SectionCells(W[n])[j]
    BY <2>2, <2>3, Zenon
  <2> QED
    BY <2>3, <2>4, Zenon
<1> DEFINE Placed(n) ==
             /\ EhdrSize + e[n] <= e_shoff
             /\ \A m \in 1 .. n : /\ EhdrSize + e[m] <= EhdrSize + e[n]
                                  /\ siz(W[m]) # 0 => off(W[m]) = EhdrSize + e[m - 1]
             /\ \A m \in n + 1 .. N : siz(W[m]) # 0 => EhdrSize + e[n] <= off(W[m])
           S == {n \in Nat : n <= N => Placed(n)}
<1>a. \A n \in 1 .. N : W[n] \in Live /\ off(W[n]) \in Nat /\ siz(W[n]) \in Nat
  BY <1>1, <1>2
<1> HIDE DEF off, siz, W, N
<1>8. 0 \in S
  <2>1. Placed(0)
    BY <1>1, <1>a, <1>4, <1>7
  <2> QED
    BY <2>1
<1>9. ASSUME NEW n \in S PROVE n + 1 \in S
  <2>0. n \in Nat /\ (n <= N => Placed(n))
    <3> HIDE DEF Placed
    <3> QED
      OBVIOUS
  <2> SUFFICES ASSUME n + 1 <= N PROVE Placed(n + 1)
    <3> HIDE DEF Placed
    <3> QED
      BY <2>0
  <2>1. n \in Nat /\ Placed(n) /\ n + 1 \in 1 .. N
    <3> HIDE DEF Placed
    <3>1. n <= N /\ n + 1 \in 1 .. N
      BY <1>1, <2>0
    <3> QED
      BY <2>0, <3>1
  <2> DEFINE k == W[n + 1]
             p == EhdrSize + e[n]
  <2>2. k \in Live /\ off(k) \in Nat /\ siz(k) \in Nat /\ e[n] \in Nat /\ e[n + 1] = e[n] + siz(k)
    <3>1. n \in 0 .. N /\ (n + 1) - 1 = n
      BY <1>1, <2>1
    <3> QED
      BY <1>a, <1>7, <2>1, <3>1
  <2>3. ASSUME siz(k) # 0 PROVE off(k) = p
    <3>1. p <= off(k) /\ off(k) < e_shoff /\ p \in Nat
      <4>1. p <= off(k)
        <5>1. n + 1 \in n + 1 .. N
          BY <1>1, <2>1
        <5> QED
          BY <2>1, <2>3, <5>1
      <4>2. off(k) + siz(k) <= e_shoff
        BY <1>4, <2>2, <2>3
      <4> HIDE DEF k
      <4> QED
        BY <1>1, <2>2, <2>3, <4>1, <4>2
    <3>2. SUFFICES ASSUME off(k) > p PROVE FALSE
      BY <2>2, <3>1
    <3>3. PICK m \in 1 .. N : off(W[m]) <= p /\ p < off(W[m]) + siz(W[m])
      <4>1. p \in EhdrSize .. e_shoff - 1
        BY <1>1, <2>2, <3>1
      <4> QED
        BY <1>5, <4>1
    <3>4. siz(W[m]) # 0
      BY <1>a, <3>1, <3>3
    <3>5. CASE m <= n
      <4>1. m \in 1 .. n /\ m - 1 \in 0 .. N /\ m \in 0 .. N
        BY <1>1, <2>1, <3>5
      <4>2. off(W[m]) = EhdrSize + e[m - 1] /\ EhdrSize + e[m] <= p /\ e[m] = e[m - 1] + siz(W[m])
        BY <1>7, <2>1, <3>4, <4>1
      <4>3. e[m] \in Nat /\ e[m - 1] \in Nat /\ siz(W[m]) \in Nat
        BY <1>7, <1>a, <4>1
      <4> QED
        BY <1>1, <3>1, <3>3, <4>2, <4>3
    <3>6. CASE m = n + 1
      BY <3>2, <3>3, <3>6, <2>2, <3>1
    <3>7. CASE n + 1 < m
      <4>1. off(k) <= off(W[m])
        BY <1>3, <2>1, <3>7
      <4> HIDE DEF k, p
      <4> QED
        BY <1>a, <2>2, <3>1, <3>2, <3>3, <4>1
    <3> QED
      BY <2>1, <3>5, <3>6, <3>7
  <2>4. EhdrSize + e[n + 1] <= e_shoff
    <3>1. siz(k) # 0 => off(k) + siz(k) <= e_shoff
      BY <1>4, <2>2
    <3>2. EhdrSize + e[n] <= e_shoff
      BY <2>1
    <3> HIDE DEF k
    <3> QED
      BY <1>1, <2>2, <2>3, <3>1, <3>2
  <2>5. ASSUME NEW m \in 1 .. n + 1
        PROVE  /\ EhdrSize + e[m] <= EhdrSize + e[n + 1]
               /\ siz(W[m]) # 0 => off(W[m]) = EhdrSize + e[m - 1]
    <3>1. CASE m = n + 1
      <4>1. m - 1 = n
        BY <2>1, <3>1
      <4> QED
        BY <1>1, <2>2, <2>3, <3>1, <4>1
    <3>2. CASE m # n + 1
      <4>1. m \in 1 .. n /\ m \in 0 .. N
        BY <1>1, <2>1, <3>2
      <4>2. EhdrSize + e[m] <= EhdrSize + e[n] /\ (siz(W[m]) # 0 => off(W[m]) = EhdrSize + e[m - 1])
        BY <2>1, <4>1
      <4>3. e[m] \in Nat
        BY <1>7, <4>1
      <4> HIDE DEF k
      <4> QED
        BY <1>1, <2>2, <4>2, <4>3
    <3> QED
      BY <3>1, <3>2
  <2>6. ASSUME NEW m \in n + 1 + 1 .. N, siz(W[m]) # 0
        PROVE  EhdrSize + e[n + 1] <= off(W[m])
    <3>1. m \in 1 .. N /\ m \in n + 1 .. N /\ n + 1 < m
      BY <1>1, <2>1
    <3>2. EhdrSize + e[n] <= off(W[m]) /\ W[m] \in Live /\ off(W[m]) \in Nat
      BY <1>a, <2>1, <2>6, <3>1
    <3>3. off(k) <= off(W[m]) /\ k # W[m]
      BY <1>3, <2>1, <3>1
    <3>4. siz(k) # 0 => off(k) # off(W[m]) /\ (off(k) < off(W[m]) => off(k) + siz(k) <= off(W[m]))
      BY <1>4, <2>2, <2>6, <3>2, <3>3
    <3> HIDE DEF k
    <3> QED
      BY <1>1, <2>2, <2>3, <3>2, <3>3, <3>4
  <2> QED
    BY <2>4, <2>5, <2>6
<1>10. S = Nat
  <2>1. S \subseteq Nat
    OBVIOUS
  <2> HIDE DEF S
  <2> QED
    BY <1>8, <1>9, <2>1, SetInduction
<1>11. Placed(N)
  <2>1. N \in S /\ N <= N
    BY <1>1, <1>10
  <2> HIDE DEF Placed
  <2> QED
    BY <2>1
<1>12. EhdrSize + e[N] = e_shoff
  <2>1. e[N] \in Nat
    BY <1>1, <1>7
  <2>2. SUFFICES ASSUME EhdrSize + e[N] < e_shoff PROVE FALSE
    BY <1>1, <1>11, <2>1
  <2>3. PICK m \in 1 .. N : off(W[m]) <= EhdrSize + e[N] /\ EhdrSize + e[N] < off(W[m]) + siz(W[m])
    <3>1. EhdrSize + e[N] \in EhdrSize .. e_shoff - 1
      BY <1>1, <2>1, <2>2
    <3> QED
      BY <1>5, <3>1
  <2>4. off(W[m]) \in Nat /\ siz(W[m]) \in Nat /\ m - 1 \in 0 .. N /\ m \in 0 .. N
    BY <1>a, <1>1
  <2>5. siz(W[m]) # 0
    BY <1>1, <2>1, <2>3, <2>4
  <2>6. off(W[m]) = EhdrSize + e[m - 1] /\ EhdrSize + e[m] <= EhdrSize + e[N]
        /\ e[m] = e[m - 1] + siz(W[m]) /\ e[m] \in Nat /\ e[m - 1] \in Nat
    BY <1>7, <1>11, <2>4, <2>5
  <2> QED
    BY <1>1, <2>1, <2>3, <2>4, <2>6
<1>13. Len(ContentCells) = e_shoff - EhdrSize
  <2>1. e[N] \in Nat
    BY <1>1, <1>7
  <2> QED
    BY <1>1, <1>7, <1>12, <2>1
<1>14. ASSUME NEW k \in Live, NEW j \in 1 .. siz(k)
       PROVE  ContentCells[(off(k) - EhdrSize) + j] = SectionCells(k)[j]
  <2>1. PICK n \in 1 .. N : W[n] = k
    BY <1>2
  <2>2. siz(k) # 0
    BY <1>a, <2>1
  <2>3. off(k) = EhdrSize + e[n - 1]
    BY <1>11, <2>1, <2>2
  <2>4. e[n - 1] \in Nat
    <3>1. n - 1 \in 0 .. N
      BY <1>1
    <3> QED
      BY <1>7, <3>1
  <2>5. off(k) - EhdrSize = e[n - 1]
    BY <1>1, <2>3, <2>4
  <2>6. ContentCells[e[n - 1] + j] = SectionCells(k)[j]
    BY <1>7, <2>1
  <2> QED
    BY <2>5, <2>6
<1> QED
  BY <1>13, <1>14, ContentTyped DEF off, siz

\* What is held for a section whose file is packed is all that is written for it.
LEMMA LoadedTiled ==
  ASSUME source \in Sources, Loaded, i = 0, pc \in Stages, Packed(source)
  PROVE  Tiled
<1> DEFINE off(k) == sectHeader[k].sh_offset
           siz(k) == sectionContent[k].size
           cnt(k) == CellCount(k)
<1>1. IInv
  BY LoadedIInv
<1>2. /\ Live = Index(source) /\ e_shoff = source.e_shoff
      /\ \A k \in Live : off(k) = source.sect[k].sh_offset /\ siz(k) = LoadedSize(source, k)
                         /\ cnt(k) = HeldBytes(source, k)
  <2>1. Live = Index(source) /\ e_shoff = source.e_shoff /\ sectHeader = source.sect
        /\ sectionContent = LoadedContent(source)
    BY DEF Loaded, Live, Index
  <2>2. \A k \in Live : sectionContent[k].size = LoadedSize(source, k)
    BY <2>1 DEF LoadedContent
  <2> QED
    BY <2>1, <2>2 DEF CellCount, HeldBytes
<1>3. \A k \in Live : off(k) \in Nat /\ siz(k) \in Nat /\ cnt(k) \in Nat
  <2>1. \A k \in Live : k \in Index(source)
    BY <1>2
  <2>2. \A k \in Live : sectHeader[k] \in Elf32_Shdr /\ sectionContent[k] \in SectionContent
    BY <1>1, <2>1 DEF IInv, TypeOK
  <2>3. \A k \in Live : cnt(k) \in Nat
    BY <1>1, SectionFacts DEF IInv
  <2> QED
    BY <2>2, <2>3 DEF Elf32_Shdr, SectionContent
<1>4. e_shoff \in Nat /\ EhdrSize \in Nat /\ EhdrSize <= e_shoff
  BY <1>1, <1>2, SizesAssumption DEF IInv, TypeOK, Packed
<1>5. \A k \in Live : siz(k) # 0 =>
        /\ EhdrSize <= off(k) /\ off(k) + siz(k) <= e_shoff
        /\ \A l \in Live \ {k} : /\ off(l) > off(k) => off(k) + siz(k) <= off(l)
                                 /\ siz(l) # 0 => off(l) # off(k)
  BY <1>1 DEF IInv, LayoutKept, EndsBefore
<1>6. \A k \in Live : cnt(k) <= siz(k)
  BY <1>2 DEF Packed
<1>7. \A p \in EhdrSize .. e_shoff - 1 : \E k \in Live : off(k) <= p /\ p < off(k) + cnt(k)
  BY <1>2 DEF Packed, Held
<1> HIDE DEF off, siz, cnt
<1>8. ASSUME NEW k \in Live PROVE cnt(k) = siz(k)
  <2>1. SUFFICES ASSUME cnt(k) < siz(k) PROVE FALSE
    BY <1>3, <1>6
  <2> DEFINE p == off(k) + cnt(k)
  <2>2. /\ siz(k) # 0 /\ off(k) \in Nat /\ cnt(k) \in Nat /\ siz(k) \in Nat
        /\ EhdrSize <= off(k) /\ off(k) + siz(k) <= e_shoff
    BY <1>3, <1>5, <2>1
  <2>3. p \in EhdrSize .. e_shoff - 1 /\ p \in Nat
    BY <1>4, <2>1, <2>2
  <2>4. PICK l \in Live : off(l) <= p /\ p < off(l) + cnt(l)
    BY <1>7, <2>3
  <2>5. off(l) \in Nat /\ cnt(l) \in Nat /\ siz(l) \in Nat /\ cnt(l) <= siz(l) /\ siz(l) # 0
    BY <1>3, <1>6, <2>3, <2>4
  <2>6. l # k
    BY <2>2, <2>4
  <2>7. off(l) # off(k)
    BY <1>5, <2>2, <2>5, <2>6
  <2>8. CASE off(l) > off(k)
    BY <1>5, <2>1, <2>2, <2>4, <2>5, <2>6, <2>8
  <2>9. CASE off(k) > off(l)
    <3>1. off(l) + siz(l) <= off(k)
      BY <1>5, <2>5, <2>6, <2>9
    <3> QED
      BY <2>2, <2>4, <2>5, <3>1
  <2> QED
    BY <2>2, <2>5, <2>7, <2>8, <2>9
<1> QED
  BY <1>4, <1>7, <1>8 DEF Tiled, Covers, off, siz, cnt

\* The table that goes leaves no hole: what followed it is moved by its bytes.
LEMMA DeletionTiled ==
  ASSUME IInv, Tiled, DeleteSection
  PROVE  Tiled'
<1> DEFINE off(k) == sectHeader[k].sh_offset
           siz(k) == sectionContent[k].size
           R == off(i)
           Z == siz(i)
<1>1. /\ i \in Live /\ R \in Nat /\ Z \in Nat /\ source' = source
      /\ e_shoff' = e_shoff - Z /\ e_shoff \in Nat /\ EhdrSize \in Nat /\ EhdrSize <= e_shoff
      /\ \A k \in Live : off(k) > R => off(k) >= R + Z
      /\ Z # 0 => e_shoff >= R + Z
  BY DeletedTable, SizesAssumption DEF DeleteSection, IInv, TypeOK, Tiled
<1>2. \A k \in Live : off(k) \in Nat /\ siz(k) \in Nat /\ sectHeader[k] \in Elf32_Shdr
  <2>1. \A k \in Live : k \in Index(source)
    BY DEF IInv, TypeOK, ElfFile, ElfShape, Live, Index
  <2>2. \A k \in Live : sectHeader[k] \in Elf32_Shdr /\ sectionContent[k] \in SectionContent
    BY <2>1 DEF IInv, TypeOK
  <2> QED
    BY <2>2 DEF Elf32_Shdr, SectionContent
<1>3. ASSUME NEW k \in Live'
      PROVE  /\ From(k) \in Live \ {i}
             /\ sectionContent'[k].size = siz(From(k))
             /\ sectHeader'[k].sh_type = sectHeader[From(k)].sh_type
             /\ sectHeader'[k].sh_offset = IF off(From(k)) > R THEN off(From(k)) - Z ELSE off(From(k))
  <2>1. /\ From(k) \in Live \ {i} /\ sectionContent'[k].size = siz(From(k))
        /\ sectHeader'[k] = Renumbered(sectHeader[From(k)])
    BY DeletionShifts DEF IInv
  <2>2. sectHeader[i].sh_size = Z
    BY DeletedTable
  <2> QED
    BY <1>1, <1>2, <2>1, <2>2, RenumberedFields
<1>4. Z # 0 => /\ EhdrSize <= R
               /\ \A k \in Live \ {i} : siz(k) # 0 =>
                    off(k) # R /\ (off(k) < R => off(k) + siz(k) <= R)
  BY <1>1, <1>2 DEF IInv, LayoutKept, EndsBefore
<1>5. \A n \in Live \ {i} : \E k \in Live' : From(k) = n
  BY LoweredIndex
<1>6. \A p \in EhdrSize .. e_shoff - 1 : \E k \in Live : off(k) <= p /\ p < off(k) + siz(k)
  BY DEF Tiled, Covers
<1>7. ASSUME NEW k \in Live' PROVE CellCount(k)' = sectionContent'[k].size
  <2>1. CellCount(From(k)) = siz(From(k))
    BY <1>3 DEF Tiled
  <2> QED
    BY <1>1, <1>3, <2>1 DEF CellCount
<1> HIDE DEF off, siz
<1>8. EhdrSize <= e_shoff'
  BY <1>1, <1>4
<1>9. ASSUME NEW p \in EhdrSize .. e_shoff' - 1
      PROVE  \E k \in Live' : sectHeader'[k].sh_offset <= p
                              /\ p < sectHeader'[k].sh_offset + sectionContent'[k].size
  <2>1. p \in Nat /\ p < e_shoff - Z /\ EhdrSize <= p
    BY <1>1
  <2>2. SUFFICES \E n \in Live \ {i} :
                   LET o == IF off(n) > R THEN off(n) - Z ELSE off(n)
                   IN  o <= p /\ p < o + siz(n)
    BY <1>3, <1>5
  <2>3. CASE p < R
    <3>1. PICK n \in Live : off(n) <= p /\ p < off(n) + siz(n)
      BY <1>1, <1>6, <2>1
    <3>2. n # i /\ ~ (off(n) > R)
      BY <1>1, <1>2, <2>1, <2>3, <3>1
    <3> QED
      BY <3>1, <3>2
  <2>4. CASE ~ (p < R)
    <3>1. PICK n \in Live : off(n) <= p + Z /\ p + Z < off(n) + siz(n)
      <4>1. p + Z \in EhdrSize .. e_shoff - 1
        BY <1>1, <2>1
      <4> QED
        BY <1>6, <4>1
    <3>2. off(n) \in Nat /\ siz(n) \in Nat /\ siz(n) # 0
      BY <1>1, <1>2, <2>1, <3>1
    <3>3. n # i
      BY <1>1, <2>1, <2>4, <3>1
    <3>4. Z # 0 => off(n) > R
      BY <1>1, <1>4, <2>1, <2>4, <3>1, <3>2, <3>3
    <3> DEFINE o == IF off(n) > R THEN off(n) - Z ELSE off(n)
    <3>5. o = off(n) - Z
      BY <1>1, <3>2, <3>4
    <3>6. o <= p /\ p < o + siz(n)
      BY <1>1, <2>1, <3>1, <3>2, <3>5
    <3> QED
      BY <3>3, <3>6
  <2> QED
    BY <2>3, <2>4
<1> QED
  BY <1>7, <1>8, <1>9 DEF Tiled, Covers

\* A step that changes only the values of symbols.
LEMMA QuietTiled ==
  ASSUME Tiled, UNCHANGED <<source, header, sectHeader, sectionContent>>
  PROVE  Tiled'
BY DEF Tiled, Covers, CellCount, header, Live
-----------------------------------------------------------------------------
(***************************************************************************)
(* The destination.  Each step of a write puts its part of that file at    *)
(* its place, as far as the disk has room; a destination that has not      *)
(* filled the disk begins with what the last write has put so far.         *)
(***************************************************************************)
\* What the disk has room for.
LEMMA FittingFacts ==
  ASSUME room \in Nat, NEW p \in Nat, NEW cells \in Seq(Cells)
  PROVE  LET f == Fitting(p, cells)
         IN  /\ f \in Seq(Cells) /\ Len(f) <= Len(cells) /\ Len(f) \in Nat
             /\ p <= room => p + Len(f) <= room
             /\ p > room => Len(f) = 0
             /\ Len(f) # Len(cells) /\ p <= room => p + Len(f) = room
             /\ \A j \in 1 .. Len(f) : f[j] = cells[j]
<1> DEFINE L == Len(cells)
           g == Max({0, room - p})
           m == Min({L, g})
<1>1. L \in Nat
  OBVIOUS
<1>2. g = IF room >= p THEN room - p ELSE 0
  <2>1. \E x \in {0, room - p} : \A y \in {0, room - p} : x >= y
    <3>1. CASE room >= p
      <4>1. \A y \in {0, room - p} : room - p >= y
        BY <3>1
      <4> QED
        BY <4>1
    <3>2. CASE ~ (room >= p)
      <4>1. \A y \in {0, room - p} : 0 >= y
        BY <3>2
      <4> QED
        BY <4>1
    <3> QED
      BY <3>1, <3>2
  <2>2. g \in {0, room - p} /\ \A y \in {0, room - p} : g >= y
    BY <2>1 DEF Max
  <2> HIDE DEF g
  <2> QED
    BY <2>2
<1>3. g \in Nat
  BY <1>2
<1> HIDE DEF g
<1>4. m = IF L <= g THEN L ELSE g
  <2>1. m \in {L, g} /\ \A y \in {L, g} : m <= y
    <3>1. {L, g} \in SUBSET Nat /\ {L, g} # {}
      BY <1>1, <1>3
    <3> QED
      BY <3>1, MinOfNat
  <2> HIDE DEF m, L
  <2> QED
    BY <1>1, <1>3, <2>1
<1>5. Fitting(p, cells) = SubSeq(cells, 1, m)
  BY DEF Fitting, g
<1>6. m \in Nat /\ m <= L
  BY <1>1, <1>3, <1>4
<1> HIDE DEF m
<1>7. SubSeq(cells, 1, m) \in Seq(Cells) /\ Len(SubSeq(cells, 1, m)) = m
      /\ \A j \in 1 .. m : SubSeq(cells, 1, m)[j] = cells[j]
  BY <1>6
<1>8. /\ p <= room => p + m <= room
      /\ p > room => m = 0
      /\ m # L /\ p <= room => p + m = room
  <2> HIDE DEF L
  <2> QED
    BY <1>1, <1>2, <1>4
<1> QED
  BY <1>5, <1>6, <1>7, <1>8

LEMMA ConcatFacts ==
  ASSUME NEW X, NEW a \in Seq(X), NEW b \in Seq(X)
  PROVE  /\ a \o b \in Seq(X) /\ Len(a) \in Nat /\ Len(b) \in Nat
         /\ Len(a \o b) = Len(a) + Len(b)
         /\ \A q \in 1 .. Len(a) : (a \o b)[q] = a[q]
         /\ \A q \in Len(a) + 1 .. Len(a) + Len(b) : (a \o b)[q] = b[q - Len(a)]
<1>1. Len(a) \in Nat /\ Len(b) \in Nat
  OBVIOUS
<1>2. a \o b \in Seq(X) /\ Len(a \o b) = Len(a) + Len(b)
  OBVIOUS
<1>3. ASSUME NEW q \in 1 .. Len(a) PROVE (a \o b)[q] = a[q]
  OBVIOUS
<1>4. ASSUME NEW q \in Len(a) + 1 .. Len(a) + Len(b) PROVE (a \o b)[q] = b[q - Len(a)]
  <2>1. q \in 1 .. Len(a) + Len(b) /\ ~ (q <= Len(a))
    BY <1>1
  <2> QED
    BY <2>1
<1> QED
  BY <1>1, <1>2, <1>3, <1>4

LEMMA RestFacts ==
  ASSUME NEW X, NEW s \in Seq(X), NEW m \in Nat
  PROVE  LET b == SubSeq(s, m + 1, Len(s))
         IN  /\ b \in Seq(X) /\ Len(b) = IF m < Len(s) THEN Len(s) - m ELSE 0
             /\ \A q \in 1 .. Len(b) : b[q] = s[m + q]
<1> DEFINE b == SubSeq(s, m + 1, Len(s))
<1>0. Len(s) \in Nat
  OBVIOUS
<1>1. CASE m < Len(s)
  <2>1. m + 1 \in 1 .. Len(s)
    BY <1>0, <1>1
  <2>2. b \in Seq(X) /\ Len(b) = Len(s) - m
    BY <1>0, <1>1, <2>1
  <2>3. \A q \in 1 .. Len(b) : b[q] = s[m + q]
    BY <1>0, <1>1, <2>1, <2>2
  <2> QED
    BY <1>1, <2>2, <2>3
<1>2. CASE ~ (m < Len(s))
  <2>1. m + 1 > Len(s)
    BY <1>0, <1>2
  <2>2. b = <<>>
    BY <1>0, <2>1
  <2> QED
    BY <1>2, <2>2
<1> QED
  BY <1>1, <1>2

\* Where the cells of the destination come from after fwrite.
LEMMA PutFacts ==
  ASSUME dest \in Seq(Cells), room \in Nat, Len(dest) <= room,
         NEW p \in Nat, NEW cells \in Seq(Cells), Put(p, cells)
  PROVE  /\ dest' \in Seq(Cells) /\ Len(dest) <= Len(dest') /\ Len(dest') <= room
         /\ Len(dest') <= Len(dest) \/ Len(dest') <= p + Len(cells)
         /\ \A q \in 1 .. Len(dest') : \/ q <= Len(dest) /\ dest'[q] = dest[q]
                                       \/ p < q /\ q <= p + Len(cells) /\ dest'[q] = cells[q - p]
         /\ p <= Len(dest) /\ Len(dest') < room =>
              /\ p + Len(cells) <= Len(dest')
              /\ \A q \in 1 .. p : dest'[q] = dest[q]
              /\ \A q \in p + 1 .. p + Len(cells) : dest'[q] = cells[q - p]
<1> DEFINE f == Fitting(p, cells)
           D == Len(dest)
           F == Len(f)
           a == SubSeq(dest, 1, p)
           b == SubSeq(dest, p + F + 1, D)
           d == a \o f \o b
<1>1. D \in Nat /\ Len(cells) \in Nat
  OBVIOUS
<1>2. /\ f \in Seq(Cells) /\ F <= Len(cells) /\ F \in Nat
      /\ p <= room => p + F <= room
      /\ p > room => F = 0
      /\ F # Len(cells) /\ p <= room => p + F = room
      /\ \A j \in 1 .. F : f[j] = cells[j]
  BY FittingFacts
<1>3. dest' = IF p > D THEN dest ELSE d
  BY DEF Put, Overwrite
<1>4. CASE p > D
  <2>1. dest' = dest
    BY <1>3, <1>4
  <2> QED
    BY <1>1, <1>4, <2>1
<1>5. CASE ~ (p > D)
  <2>1. dest' = d /\ p <= D
    <3> HIDE DEF d
    <3> QED
      BY <1>1, <1>3, <1>5
  <2> HIDE DEF f
  <2>2. a \in Seq(Cells) /\ Len(a) = p /\ \A q \in 1 .. p : a[q] = dest[q]
    BY <1>1, <2>1
  <2>3. /\ b \in Seq(Cells) /\ Len(b) = IF p + F < D THEN D - (p + F) ELSE 0
        /\ \A q \in 1 .. Len(b) : b[q] = dest[p + F + q]
    <3>1. p + F \in Nat
      BY <1>2
    <3> QED
      BY <1>1, <3>1, RestFacts
  <2> HIDE DEF a, b
  <2>4. /\ a \o f \in Seq(Cells) /\ Len(a \o f) = p + F
        /\ \A q \in 1 .. p : (a \o f)[q] = a[q]
        /\ \A q \in p + 1 .. p + F : (a \o f)[q] = f[q - p]
    <3>1. /\ a \o f \in Seq(Cells) /\ Len(a \o f) = Len(a) + Len(f)
          /\ \A q \in 1 .. Len(a) : (a \o f)[q] = a[q]
          /\ \A q \in Len(a) + 1 .. Len(a) + Len(f) : (a \o f)[q] = f[q - Len(a)]
      BY <1>2, <2>2, ConcatFacts, Zenon
    <3> QED
      BY <2>2, <3>1, Zenon
  <2> DEFINE g == a \o f
  <2>5. /\ d \in Seq(Cells) /\ Len(d) = p + F + Len(b) /\ Len(b) \in Nat
        /\ \A q \in 1 .. p + F : d[q] = (a \o f)[q]
        /\ \A q \in p + F + 1 .. p + F + Len(b) : d[q] = b[q - (p + F)]
    <3>1. g \in Seq(Cells) /\ Len(g) = p + F /\ d = g \o b
      BY <2>4
    <3> HIDE DEF g, d
    <3>2. /\ g \o b \in Seq(Cells) /\ Len(b) \in Nat
          /\ Len(g \o b) = Len(g) + Len(b)
          /\ \A q \in 1 .. Len(g) : (g \o b)[q] = g[q]
          /\ \A q \in Len(g) + 1 .. Len(g) + Len(b) : (g \o b)[q] = b[q - Len(g)]
      <4>1. b \in Seq(Cells) /\ g \in Seq(Cells)
        BY <2>3, <3>1
      <4> QED
        BY <4>1, ConcatFacts, Zenon
    <3> QED
      BY <3>1, <3>2, Zenon DEF g
  <2> HIDE DEF d
  <2> DEFINE B == Len(b)
             E == Len(d)
  <2>a. D \in Nat /\ F \in Nat /\ B \in Nat /\ E = p + F + B /\ B = IF p + F < D THEN D - (p + F) ELSE 0
    BY <1>1, <1>2, <2>3, <2>5, Zenon
  <2>b. /\ E = IF p + F < D THEN D ELSE p + F
        /\ \A q \in 1 .. E : p + F < q => q \in p + F + 1 .. p + F + B /\ q - (p + F) \in 1 .. B /\ q <= D
    <3> HIDE DEF B, E, D, F
    <3> QED
      BY <2>a
  <2>6. ASSUME NEW q \in 1 .. Len(d)
        PROVE  \/ q <= D /\ d[q] = dest[q]
               \/ p < q /\ q <= p + F /\ d[q] = cells[q - p]
    <3>1. CASE q <= p
      <4>1. q \in 1 .. p /\ q \in 1 .. p + F /\ q <= D
        BY <1>1, <1>2, <2>1, <3>1
      <4> QED
        BY <4>1, <2>2, <2>4, <2>5
    <3>2. CASE p < q /\ q <= p + F
      <4>1. q \in p + 1 .. p + F /\ q \in 1 .. p + F /\ q - p \in 1 .. F
        BY <1>2, <3>2
      <4>2. d[q] = (a \o f)[q] /\ (a \o f)[q] = f[q - p] /\ f[q - p] = cells[q - p]
        BY <4>1, <1>2, <2>4, <2>5, Zenon
      <4> QED
        BY <3>2, <4>2, Zenon
    <3>3. CASE p + F < q
      <4>1. q \in p + F + 1 .. p + F + Len(b) /\ q - (p + F) \in 1 .. Len(b) /\ q <= D
        BY <2>b, <3>3, Zenon
      <4>2. b[q - (p + F)] = dest[p + F + (q - (p + F))]
        BY <2>3, <4>1, Zenon
      <4>3. p + F + (q - (p + F)) = q
        BY <2>a, <4>1
      <4> QED
        BY <4>1, <4>2, <4>3, <2>5, Zenon
    <3> QED
      BY <1>2, <3>1, <3>2, <3>3
  <2>7. /\ D <= Len(d) /\ Len(d) <= room /\ (Len(d) <= D \/ Len(d) <= p + Len(cells))
        /\ Len(d) < room => F = Len(cells) /\ p + F <= Len(d)
    <3>1. Len(d) = IF p + F < D THEN D ELSE p + F
      BY <2>b, Zenon
    <3> HIDE DEF D, F
    <3> QED
      BY <1>1, <1>2, <2>1, <3>1 DEF D
  <2>8. ASSUME Len(d) < room
        PROVE  /\ p + Len(cells) <= Len(d)
               /\ \A q \in 1 .. p : d[q] = dest[q]
               /\ \A q \in p + 1 .. p + Len(cells) : d[q] = cells[q - p]
    <3>1. F = Len(cells) /\ p + F <= Len(d)
      BY <2>7, <2>8
    <3>2. \A q \in 1 .. p : d[q] = dest[q]
      <4>1. \A q \in 1 .. p : q \in 1 .. p + F
        BY <1>2
      <4> QED
        BY <4>1, <2>2, <2>4, <2>5
    <3>3. ASSUME NEW q \in p + 1 .. p + Len(cells) PROVE d[q] = cells[q - p]
      <4>1. q \in 1 .. p + F /\ q \in p + 1 .. p + F /\ q - p \in 1 .. F
        BY <1>1, <3>1
      <4> QED
        BY <4>1, <1>2, <2>4, <2>5
    <3> QED
      BY <3>1, <3>2, <3>3
  <2>9. \A q \in 1 .. Len(d) : \/ q <= Len(dest) /\ d[q] = dest[q]
                               \/ p < q /\ q <= p + Len(cells) /\ d[q] = cells[q - p]
    BY <1>1, <1>2, <2>6
  <2> HIDE DEF D, F
  <2> QED
    BY <2>1, <2>5, <2>7, <2>8, <2>9 DEF D
<1> QED
  BY <1>4, <1>5

\* The file that Elf32_Main describes.
Image == (HeaderCells \o ContentCells) \o SectHeaderCells

LEMMA ImageFacts ==
  ASSUME TypeOK
  PROVE  /\ HeaderCells \in Seq(Cells) /\ ContentCells \in Seq(Cells) /\ SectHeaderCells \in Seq(Cells)
         /\ HeaderCells \o ContentCells \in Seq(Cells) /\ Image \in Seq(Cells)
         /\ Len(HeaderCells) = EhdrSize /\ EhdrSize \in Nat \ {0}
         /\ Len(ContentCells) \in Nat /\ Len(SectHeaderCells) \in Nat
         /\ Len(HeaderCells \o ContentCells) = EhdrSize + Len(ContentCells)
         /\ Len(Image) = (EhdrSize + Len(ContentCells)) + Len(SectHeaderCells)
         /\ \A q \in 1 .. EhdrSize : Image[q] = HeaderCells[q] /\ (HeaderCells \o ContentCells)[q] = HeaderCells[q]
         /\ \A q \in EhdrSize + 1 .. EhdrSize + Len(ContentCells) :
              /\ Image[q] = ContentCells[q - EhdrSize]
              /\ (HeaderCells \o ContentCells)[q] = ContentCells[q - EhdrSize]
         /\ \A q \in (EhdrSize + Len(ContentCells)) + 1 .. Len(Image) :
              Image[q] = SectHeaderCells[q - (EhdrSize + Len(ContentCells))]
<1> DEFINE H == HeaderCells
           C == ContentCells
           S == SectHeaderCells
           G == H \o C
<1>1. H \in Seq(Cells) /\ C \in Seq(Cells) /\ S \in Seq(Cells) /\ Len(H) = EhdrSize /\ EhdrSize \in Nat \ {0}
  BY HeaderFacts, ContentTyped, SectHeaderFacts, SizesAssumption
<1> HIDE DEF H, C, S
<1>2. /\ G \in Seq(Cells) /\ Len(C) \in Nat /\ Len(G) = EhdrSize + Len(C)
      /\ \A q \in 1 .. EhdrSize : G[q] = H[q]
      /\ \A q \in EhdrSize + 1 .. EhdrSize + Len(C) : G[q] = C[q - EhdrSize]
  <2>1. /\ G \in Seq(Cells) /\ Len(C) \in Nat /\ Len(G) = Len(H) + Len(C)
        /\ \A q \in 1 .. Len(H) : G[q] = H[q]
        /\ \A q \in Len(H) + 1 .. Len(H) + Len(C) : G[q] = C[q - Len(H)]
    BY <1>1, ConcatFacts, Zenon
  <2> QED
    BY <1>1, <2>1, Zenon
<1> HIDE DEF G
<1>3. /\ G \o S \in Seq(Cells) /\ Len(S) \in Nat /\ Len(G \o S) = Len(G) + Len(S)
      /\ \A q \in 1 .. Len(G) : (G \o S)[q] = G[q]
      /\ \A q \in Len(G) + 1 .. Len(G) + Len(S) : (G \o S)[q] = S[q - Len(G)]
  <2>1. G \in Seq(Cells) /\ S \in Seq(Cells)
    BY <1>1, <1>2
  <2> QED
    BY <2>1, ConcatFacts, Zenon
<1>4. Image = G \o S
  BY DEF Image, G, H, C, S
<1>5. Len(Image) = (EhdrSize + Len(C)) + Len(S) /\ Image \in Seq(Cells)
  BY <1>2, <1>3, <1>4, Zenon
<1>6. ASSUME NEW q \in 1 .. EhdrSize PROVE Image[q] = H[q] /\ G[q] = H[q]
  <2>1. q \in 1 .. Len(G)
    BY <1>1, <1>2
  <2> QED
    BY <1>2, <1>3, <1>4, <2>1, Zenon
<1>7. ASSUME NEW q \in EhdrSize + 1 .. EhdrSize + Len(C) PROVE Image[q] = C[q - EhdrSize] /\ G[q] = C[q - EhdrSize]
  <2>1. q \in 1 .. Len(G)
    BY <1>1, <1>2
  <2> QED
    BY <1>2, <1>3, <1>4, <2>1, Zenon
<1>8. ASSUME NEW q \in (EhdrSize + Len(C)) + 1 .. Len(Image) PROVE Image[q] = S[q - (EhdrSize + Len(C))]
  <2>1. q \in Len(G) + 1 .. Len(G) + Len(S)
    BY <1>2, <1>5, Zenon
  <2> QED
    BY <1>2, <1>3, <1>4, <2>1, Zenon
<1>9. Len(C) \in Nat /\ Len(S) \in Nat
  BY <1>2, <1>3
<1> QED
  BY <1>1, <1>2, <1>5, <1>6, <1>7, <1>8, <1>9, Zenon DEF G, H, C, S

\* With nothing between the sections, it is as long as its headers say.
LEMMA ImageSize ==
  ASSUME TypeOK, LayoutKept, Tiled
  PROVE  /\ EhdrSize + Len(ContentCells) = e_shoff
         /\ Len(Image) = FileSize /\ FileSize \in Nat /\ e_shnum * ShdrSize \in Nat
         /\ Len(SectHeaderCells) = e_shnum * ShdrSize
<1>1. Len(ContentCells) = e_shoff - EhdrSize /\ Len(SectHeaderCells) = e_shnum * ShdrSize
  BY ContentTiles, SectHeaderFacts
<1>2. e_shoff \in Nat /\ EhdrSize \in Nat /\ e_shnum \in Nat /\ ShdrSize \in Nat
  BY SizesAssumption DEF TypeOK, ElfFile, ElfShape
<1>3. e_shnum * ShdrSize \in Nat
  BY <1>2, Times
<1>4. EhdrSize + Len(ContentCells) = e_shoff
  BY <1>1, <1>2
<1>5. Len(Image) = (EhdrSize + Len(ContentCells)) + Len(SectHeaderCells)
  BY ImageFacts
<1>6. Len(Image) = FileSize
  BY <1>1, <1>4, <1>5 DEF FileSize
<1>7. FileSize \in Nat
  BY <1>2, <1>3 DEF FileSize
<1> QED
  BY <1>1, <1>3, <1>4, <1>6, <1>7
-----------------------------------------------------------------------------
Begins(cells) == Len(cells) <= Len(dest) /\ \A q \in 1 .. Len(cells) : dest[q] = cells[q]

\* The destination and its disk.
Disk ==
  /\ f_dest \in BOOLEAN /\ source \in Sources /\ room \in Rooms[source]
  /\ dest \in Seq(Cells) /\ Len(dest) <= room

\* A file that has not filled the disk has lost nothing: it begins with what the
\* steps of the last write have put there.
Written ==
  Len(dest) < room =>
    /\ pc = "content" => Begins(HeaderCells)
    /\ pc = "headers" => Begins(HeaderCells \o ContentCells)
    /\ pc = "options" /\ dest # <<>> => Begins(Image)

PackedTiled == Packed(source) => Tiled

Outcome == Disk /\ Written /\ PackedTiled

LEMMA SameElf ==
  ASSUME UNCHANGED elfVars
  PROVE  /\ HeaderCells' = HeaderCells /\ ContentCells' = ContentCells
         /\ SectHeaderCells' = SectHeaderCells /\ Image' = Image
         /\ FileSize' = FileSize
<1>1. /\ source' = source /\ e_shnum' = e_shnum /\ e_shoff' = e_shoff /\ e_shstrndx' = e_shstrndx
      /\ sectHeader' = sectHeader /\ sectionContent' = sectionContent /\ symTable' = symTable
  BY DEF elfVars, header
<1>2. HeaderCells' = HeaderCells
  BY <1>1 DEF HeaderCells
<1>3. SectHeaderCells' = SectHeaderCells
  BY <1>1 DEF SectHeaderCells
<1>4. ContentCells' = ContentCells
  BY <1>1 DEF ContentCells, WriteOrder, SectionCells, SymTabCells, Before, Live
<1> QED
  BY <1>1, <1>2, <1>3, <1>4 DEF Image, FileSize

LEMMA InitOutcome == RInit => Outcome
<1> SUFFICES ASSUME RInit PROVE Outcome
  OBVIOUS
<1>1. source \in Sources /\ Loaded /\ i = 0 /\ pc = "options" /\ dest = <<>> /\ room \in Rooms[source]
      /\ f_dest \in BOOLEAN
  BY DEF RInit
<1>2. room \in Nat
  BY <1>1, RoomsAssumption
<1>3. Disk
  BY <1>1, <1>2 DEF Disk
<1>4. Written
  BY <1>1 DEF Written
<1>5. PackedTiled
  BY <1>1, LoadedTiled DEF PackedTiled, Stages
<1> QED
  BY <1>3, <1>4, <1>5 DEF Outcome

\* A step that writes nothing, and leaves Elf32_Main alone unless it ends in a
\* stage where nothing is said of the destination.
LEMMA IdleOutcome ==
  ASSUME Outcome, source' = source, UNCHANGED <<f_dest, dest, room>>, PackedTiled',
         \/ pc' \notin {"content", "headers", "options"}
         \/ UNCHANGED elfVars /\ (pc' = pc \/ pc' \notin {"content", "headers", "options"})
  PROVE  Outcome'
<1>1. Disk'
  BY DEF Outcome, Disk
<1>2. Written'
  <2>1. CASE pc' \notin {"content", "headers", "options"}
    BY <2>1 DEF Written
  <2>2. CASE UNCHANGED elfVars /\ pc' = pc
    BY <2>2, SameElf DEF Outcome, Written, Begins
  <2> QED
    BY <2>1, <2>2
<1> QED
  BY <1>1, <1>2 DEF Outcome

\* What the three steps of a write do, on any disk.
LEMMA WriteOutcome ==
  ASSUME Structure, Outcome,
         WriteHeader \/ WriteSectionContent \/ WriteSectionHeader \/ HeaderFails \/ ContentFails
  PROVE  Outcome'
<1>1. UNCHANGED elfVars /\ UNCHANGED <<f_dest, room>>
  BY DEF WriteHeader, WriteSectionContent, WriteSectionHeader, HeaderFails, ContentFails, Writes, WriteFails
<1>2. source' = source /\ PackedTiled'
  <2>1. source' = source /\ Packed(source)' = Packed(source)
    BY <1>1 DEF elfVars
  <2>2. Tiled => Tiled'
    BY <1>1, QuietTiled DEF elfVars
  <2> QED
    BY <2>1, <2>2 DEF Outcome, PackedTiled
<1>3. TypeOK /\ dest \in Seq(Cells) /\ room \in Nat /\ Len(dest) <= room /\ Len(dest) \in Nat
  BY RoomsAssumption DEF Structure, IInv, Outcome, Disk
<1>4. ASSUME NEW p \in Nat, NEW cells \in Seq(Cells), Put(p, cells)
      PROVE  /\ Disk' /\ Len(dest) <= Len(dest') /\ Len(dest') \in Nat
             /\ p <= Len(dest) /\ Len(dest') < room =>
                  /\ p + Len(cells) <= Len(dest')
                  /\ \A q \in 1 .. p : dest'[q] = dest[q]
                  /\ \A q \in p + 1 .. p + Len(cells) : dest'[q] = cells[q - p]
  <2>1. /\ dest' \in Seq(Cells) /\ Len(dest) <= Len(dest') /\ Len(dest') <= room
        /\ p <= Len(dest) /\ Len(dest') < room =>
             /\ p + Len(cells) <= Len(dest')
             /\ \A q \in 1 .. p : dest'[q] = dest[q]
             /\ \A q \in p + 1 .. p + Len(cells) : dest'[q] = cells[q - p]
    BY <1>3, <1>4, PutFacts
  <2>2. Disk'
    BY <1>1, <1>2, <2>1 DEF Outcome, Disk
  <2>3. Len(dest') \in Nat
    BY <2>1
  <2> QED
    BY <2>1, <2>2, <2>3
<1> DEFINE H == HeaderCells
           C == ContentCells
           S == SectHeaderCells
           G == H \o C
<1>5. /\ H \in Seq(Cells) /\ C \in Seq(Cells) /\ S \in Seq(Cells) /\ EhdrSize \in Nat
      /\ Len(H) = EhdrSize /\ Len(C) \in Nat /\ Len(S) \in Nat
      /\ Len(G) = EhdrSize + Len(C) /\ Len(Image) = (EhdrSize + Len(C)) + Len(S)
      /\ \A q \in 1 .. EhdrSize : Image[q] = H[q] /\ G[q] = H[q]
      /\ \A q \in EhdrSize + 1 .. EhdrSize + Len(C) : Image[q] = C[q - EhdrSize] /\ G[q] = C[q - EhdrSize]
      /\ \A q \in (EhdrSize + Len(C)) + 1 .. Len(Image) : Image[q] = S[q - (EhdrSize + Len(C))]
  BY <1>3, ImageFacts
<1>6. H' = H /\ G' = G /\ Image' = Image
  BY <1>1, SameElf
<1>7. CASE HeaderFails \/ ContentFails
  <2>1. Disk' /\ pc' = "exit"
    BY <1>4, <1>5, <1>7 DEF HeaderFails, ContentFails, WriteFails
  <2> QED
    BY <1>2, <2>1 DEF Outcome, Written
<1>8. CASE WriteHeader
  <2>1. pc' = "content" /\ Put(0, H)
    BY <1>8 DEF WriteHeader, Writes
  <2>2. /\ Disk'
        /\ 0 <= Len(dest) /\ Len(dest') < room =>
             0 + Len(H) <= Len(dest') /\ \A q \in 0 + 1 .. 0 + Len(H) : dest'[q] = H[q - 0]
    BY <1>4, <1>5, <2>1
  <2> HIDE DEF H
  <2>3. ASSUME Len(dest') < room
        PROVE  Len(H) <= Len(dest') /\ \A q \in 1 .. Len(H) : dest'[q] = H[q]
    <3>1. Len(H) \in Nat /\ \A q \in 1 .. Len(H) : q - 0 = q /\ q \in 0 + 1 .. 0 + Len(H)
      BY <1>5
    <3>2. 0 <= Len(dest) /\ 0 + Len(H) = Len(H)
      BY <1>3, <3>1
    <3> QED
      BY <2>2, <2>3, <3>1, <3>2
  <2> QED
    BY <1>1, <1>2, <1>6, <2>1, <2>2, <2>3 DEF Outcome, Written, Begins, H
<1>9. CASE WriteSectionContent
  <2>1. pc = "content" /\ pc' = "headers" /\ Put(EhdrSize, C)
    BY <1>9 DEF WriteSectionContent, Writes
  <2>2. /\ Disk' /\ Len(dest) <= Len(dest') /\ Len(dest') \in Nat
        /\ EhdrSize <= Len(dest) /\ Len(dest') < room =>
             /\ EhdrSize + Len(C) <= Len(dest')
             /\ \A q \in 1 .. EhdrSize : dest'[q] = dest[q]
             /\ \A q \in EhdrSize + 1 .. EhdrSize + Len(C) : dest'[q] = C[q - EhdrSize]
    BY <1>4, <1>5, <2>1
  <2>3. Len(dest) < room => Len(H) <= Len(dest) /\ \A q \in 1 .. Len(H) : dest[q] = H[q]
    BY <2>1 DEF Outcome, Written, Begins
  <2> HIDE DEF H, C, G
  <2>4. ASSUME Len(dest') < room
        PROVE  Len(G) <= Len(dest') /\ \A q \in 1 .. Len(G) : dest'[q] = G[q]
    <3>1. Len(dest) < room /\ EhdrSize <= Len(dest)
      BY <1>3, <1>5, <2>2, <2>3, <2>4
    <3>2. /\ EhdrSize + Len(C) <= Len(dest')
          /\ \A q \in 1 .. EhdrSize : dest'[q] = H[q]
          /\ \A q \in EhdrSize + 1 .. EhdrSize + Len(C) : dest'[q] = C[q - EhdrSize]
      BY <1>5, <2>2, <2>3, <2>4, <3>1
    <3>3. ASSUME NEW q \in 1 .. Len(G) PROVE dest'[q] = G[q]
      <4>1. q \in 1 .. EhdrSize \/ q \in EhdrSize + 1 .. EhdrSize + Len(C)
        BY <1>5
      <4> QED
        BY <4>1, <1>5, <3>2
    <3> QED
      BY <1>5, <3>2, <3>3
  <2> QED
    BY <1>1, <1>2, <1>6, <2>1, <2>2, <2>4 DEF Outcome, Written, Begins, G, H, C
<1>10. CASE WriteSectionHeader
  <2>1. pc = "headers" /\ pc' = "options" /\ Put(EhdrSize + Len(C), S)
    BY <1>10 DEF WriteSectionHeader, Writes
  <2> DEFINE p == EhdrSize + Len(C)
  <2>2. p \in Nat
    BY <1>5
  <2>3. /\ Disk' /\ Len(dest) <= Len(dest') /\ Len(dest') \in Nat
        /\ p <= Len(dest) /\ Len(dest') < room =>
             /\ p + Len(S) <= Len(dest')
             /\ \A q \in 1 .. p : dest'[q] = dest[q]
             /\ \A q \in p + 1 .. p + Len(S) : dest'[q] = S[q - p]
    BY <1>4, <1>5, <2>1, <2>2
  <2>4. Len(dest) < room => Len(G) <= Len(dest) /\ \A q \in 1 .. Len(G) : dest[q] = G[q]
    BY <2>1 DEF Outcome, Written, Begins
  <2>5. /\ Len(G) = p /\ Len(Image) = p + Len(S)
        /\ \A q \in 1 .. p : Image[q] = G[q]
        /\ \A q \in p + 1 .. Len(Image) : Image[q] = S[q - p]
    <3>1. ASSUME NEW q \in 1 .. p PROVE Image[q] = G[q]
      <4>1. q \in 1 .. EhdrSize \/ q \in EhdrSize + 1 .. EhdrSize + Len(C)
        BY <1>5
      <4> QED
        BY <4>1, <1>5
    <3> QED
      BY <1>5, <3>1
  <2> HIDE DEF H, C, S, G, p
  <2>6. ASSUME Len(dest') < room
        PROVE  Len(Image) <= Len(dest') /\ \A q \in 1 .. Len(Image) : dest'[q] = Image[q]
    <3>1. Len(dest) < room /\ p <= Len(dest)
      BY <1>3, <2>3, <2>4, <2>5, <2>6
    <3>2. /\ p + Len(S) <= Len(dest')
          /\ \A q \in 1 .. p : dest'[q] = G[q]
          /\ \A q \in p + 1 .. p + Len(S) : dest'[q] = S[q - p]
      BY <2>3, <2>4, <2>5, <2>6, <3>1
    <3>3. ASSUME NEW q \in 1 .. Len(Image) PROVE dest'[q] = Image[q]
      <4>1. q \in 1 .. p \/ q \in p + 1 .. p + Len(S)
        BY <1>5, <2>2, <2>5
      <4> QED
        BY <4>1, <2>5, <3>2
    <3> QED
      BY <2>5, <3>2, <3>3
  <2> QED
    BY <1>1, <1>2, <1>6, <2>1, <2>3, <2>6 DEF Outcome, Written, Begins
<1> QED
  BY <1>7, <1>8, <1>9, <1>10

LEMMA NextOutcome ==
  Structure /\ AtWork /\ Outcome /\ [RNext]_allVars => Outcome'
<1> SUFFICES ASSUME Structure, AtWork, Outcome, [RNext]_allVars PROVE Outcome'
  OBVIOUS
<1>1. ASSUME UNCHANGED <<source, header, sectHeader, sectionContent>> PROVE PackedTiled'
  <2>1. Packed(source)' = Packed(source)
    BY <1>1
  <2> QED
    BY <1>1, <2>1, QuietTiled DEF Outcome, PackedTiled
<1>2. CASE Display \/ CrashInDisplay \/ Write \/ Correct \/ Delete \/ NoDestination \/ Unrecognized
  <2>1. /\ UNCHANGED elfVars /\ UNCHANGED <<f_dest, dest, room>>
        /\ pc' = pc \/ pc' \notin {"content", "headers", "options"}
    BY <1>2 DEF Display, CrashInDisplay, Write, Correct, Delete, NoDestination, Unrecognized, Handle
  <2>2. source' = source /\ PackedTiled'
    BY <1>1, <2>1 DEF elfVars
  <2> QED
    BY <2>1, <2>2, IdleOutcome
<1>3. CASE DeleteRel
  <2>1. UNCHANGED <<f_dest, dest, room>> /\ source' = source
        /\ pc' \notin {"content", "headers", "options"}
    BY <1>3 DEF DeleteRel, runVars, SkipSection, DeleteSection, AbortOnUninitialised, EndDeleteRel,
                AtRel, elfVars
  <2>2. PackedTiled'
    <3>1. CASE DeleteSection
      <4>1. Packed(source)' = Packed(source)
        BY <2>1
      <4>2. Tiled => Tiled'
        BY <3>1, DeletionTiled DEF Structure
      <4> QED
        BY <4>1, <4>2 DEF Outcome, PackedTiled
    <3>2. CASE SkipSection \/ AbortOnUninitialised \/ EndDeleteRel
      BY <1>1, <3>2 DEF SkipSection, AbortOnUninitialised, EndDeleteRel, elfVars
    <3> QED
      BY <1>3, <3>1, <3>2 DEF DeleteRel
  <2> QED
    BY <2>1, <2>2, IdleOutcome
<1>4. CASE CorrectSymTable
  <2>1. UNCHANGED <<source, header, sectHeader, sectionContent>> /\ UNCHANGED <<f_dest, dest, room>>
        /\ pc' \notin {"content", "headers", "options"}
    BY <1>4 DEF CorrectSymTable, runVars
  <2> QED
    BY <1>1, <2>1, IdleOutcome
<1>5. CASE CrashOutOfTable \/ CorrectABSReloc \/ CrashInReloc \/ Return \/ AbortInFree
  <2>1. UNCHANGED elfVars /\ UNCHANGED <<f_dest, dest, room>>
        /\ pc' \notin {"content", "headers", "options"}
    BY <1>5 DEF CrashOutOfTable, CorrectABSReloc, CrashInReloc, Return, AbortInFree, runVars
  <2>2. source' = source /\ PackedTiled'
    BY <1>1, <2>1 DEF elfVars
  <2> QED
    BY <2>1, <2>2, IdleOutcome
<1>6. CASE WriteHeader \/ WriteSectionContent \/ WriteSectionHeader \/ HeaderFails \/ ContentFails
  BY <1>6, WriteOutcome
<1>7. CASE UNCHANGED allVars
  <2>1. UNCHANGED elfVars /\ UNCHANGED <<f_dest, dest, room>> /\ pc' = pc
    BY <1>7 DEF allVars, vars, runVars
  <2>2. source' = source /\ PackedTiled'
    BY <1>1, <2>1 DEF elfVars
  <2> QED
    BY <2>1, <2>2, IdleOutcome
<1> QED
  BY <1>2, <1>3, <1>4, <1>5, <1>6, <1>7 DEF RNext

LEMMA OutcomeAlways == RSpec => [](Structure /\ AtWork /\ Outcome)
<1>1. RInit => Structure /\ AtWork /\ Outcome
  BY InitStructure, InitOutcome
<1>2. Structure /\ AtWork /\ Outcome /\ [RNext]_allVars => (Structure /\ AtWork /\ Outcome)'
  BY NextStructure, NextOutcome
<1> QED
  BY <1>1, <1>2, PTL DEF RSpec

\* The types of main's variables, for every set of files, command lines and
\* disks (ARM_runner.c:28-165).
THEOREM RunnerTypes == RSpec => []RTypeOK
<1>1. ASSUME Structure, AtWork, Outcome PROVE RTypeOK
  <2>1. \A q \in DOMAIN dest : dest[q] \in Cells
    BY <1>1 DEF Outcome, Disk
  <2>2. \A c \in Cells : c[1] \in {"ehdr", "shdr", "sym", "byte"}
    BY DEF Cells
  <2>3. \A q \in DOMAIN dest : dest[q][1] \in {"ehdr", "shdr", "sym", "byte"}
    BY <2>1, <2>2
  <2> QED
    BY <1>1, <2>3 DEF RTypeOK, Structure, IInv, AtWork, Outcome, Disk
<1> QED
  BY <1>1, OutcomeAlways, PTL

\* The part of a sequence that holds another.
LEMMA PartIs ==
  ASSUME NEW X, NEW s \in Seq(X), NEW t \in Seq(X), NEW p \in Nat, p + Len(t) <= Len(s),
         \A j \in 1 .. Len(t) : s[p + j] = t[j]
  PROVE  SubSeq(s, p + 1, p + Len(t)) = t
<1> DEFINE u == SubSeq(s, p + 1, p + Len(t))
<1>1. Len(s) \in Nat /\ Len(t) \in Nat
  OBVIOUS
<1>2. CASE Len(t) = 0
  <2>1. t = <<>>
    BY <1>2
  <2>2. p + 1 > p + Len(t)
    BY <1>2
  <2>3. SubSeq(s, p + 1, p + Len(t)) = <<>>
    BY <1>1, <2>2
  <2> QED
    BY <2>1, <2>3
<1>3. CASE Len(t) # 0
  <2>1. p + 1 \in 1 .. Len(s) /\ p + Len(t) \in 1 .. Len(s) /\ p + 1 <= p + Len(t)
    BY <1>1, <1>3
  <2>2. u \in Seq(X) /\ Len(u) = Len(t)
    BY <1>1, <2>1
  <2>3. \A j \in 1 .. Len(t) : u[j] = s[p + j]
    BY <1>1, <2>1, <2>2
  <2> HIDE DEF u
  <2>4. u = t
    BY <2>2, <2>3
  <2> QED
    BY <2>4 DEF u
<1> QED
  BY <1>2, <1>3

\* Whatever options come before and on any disk, a file that a write has left
\* whole reads back as Elf32_Main, each section at the place that its header
\* gives (writeFile.c:126-151, implantation.c:15, 33-35).
THEOREM WrittenReadsBack == RSpec => []ReadsBack
<1>1. ASSUME Structure, Outcome PROVE ReadsBack
  <2> SUFFICES ASSUME Settled, Packed(source) PROVE
        /\ SubSeq(dest, 1, EhdrSize) = HeaderCells
        /\ SubSeq(dest, e_shoff + 1, FileSize) = SectHeaderCells
        /\ \A k \in Live : sectionContent[k].size # 0 =>
             SubSeq(dest, sectHeader[k].sh_offset + 1, sectHeader[k].sh_offset + Len(SectionCells(k)))
               = SectionCells(k)
    BY DEF ReadsBack
  <2>1. TypeOK /\ LayoutKept /\ Tiled /\ dest \in Seq(Cells)
    BY <1>1 DEF Structure, IInv, Outcome, PackedTiled, Disk
  <2>2. Len(Image) <= Len(dest) /\ \A q \in 1 .. Len(Image) : dest[q] = Image[q]
    <3>1. dest # <<>>
      BY DEF Settled
    <3> QED
      BY <1>1, <3>1 DEF Settled, Outcome, Written, Begins
  <2>3. /\ EhdrSize + Len(ContentCells) = e_shoff /\ Len(Image) = FileSize
        /\ FileSize \in Nat /\ Len(SectHeaderCells) = e_shnum * ShdrSize
        /\ e_shnum * ShdrSize \in Nat
    BY <2>1, ImageSize
  <2>4. e_shoff \in Nat /\ EhdrSize \in Nat /\ Len(dest) \in Nat /\ EhdrSize <= e_shoff
    BY <2>1, SizesAssumption DEF TypeOK, Tiled
  <2>5. /\ HeaderCells \in Seq(Cells) /\ SectHeaderCells \in Seq(Cells) /\ Len(HeaderCells) = EhdrSize
        /\ \A q \in 1 .. EhdrSize : Image[q] = HeaderCells[q]
        /\ \A q \in EhdrSize + 1 .. e_shoff : Image[q] = ContentCells[q - EhdrSize]
        /\ \A q \in e_shoff + 1 .. FileSize : Image[q] = SectHeaderCells[q - e_shoff]
    BY <2>1, <2>3, ImageFacts
  <2>6. FileSize = e_shoff + Len(SectHeaderCells)
    BY <2>3 DEF FileSize
  <2>7. SubSeq(dest, 1, EhdrSize) = HeaderCells
    <3>1. \A j \in 1 .. EhdrSize : dest[0 + j] = HeaderCells[j]
      <4> TAKE j \in 1 .. EhdrSize
      <4>1. 0 + j = j /\ j \in 1 .. Len(Image)
        BY <2>3, <2>4, <2>6
      <4> QED
        BY <2>2, <2>5, <4>1
    <3>2. 0 + Len(HeaderCells) <= Len(dest)
      BY <2>2, <2>3, <2>4, <2>5, <2>6
    <3>3. SubSeq(dest, 0 + 1, 0 + Len(HeaderCells)) = HeaderCells
      BY <2>1, <2>5, <3>1, <3>2, PartIs
    <3>4. 0 + 1 = 1 /\ 0 + Len(HeaderCells) = EhdrSize
      BY <2>4, <2>5
    <3> QED
      BY <3>3, <3>4
  <2>8. SubSeq(dest, e_shoff + 1, FileSize) = SectHeaderCells
    <3>1. ASSUME NEW j \in 1 .. Len(SectHeaderCells) PROVE dest[e_shoff + j] = SectHeaderCells[j]
      <4>1. e_shoff + j \in e_shoff + 1 .. FileSize /\ e_shoff + j \in 1 .. Len(Image)
            /\ (e_shoff + j) - e_shoff = j
        BY <2>3, <2>4, <2>6
      <4> QED
        BY <2>2, <2>5, <4>1
    <3>2. e_shoff + Len(SectHeaderCells) <= Len(dest)
      BY <2>2, <2>3, <2>6
    <3> QED
      BY <2>1, <2>4, <2>5, <2>6, <3>1, <3>2, PartIs
  <2>9. ASSUME NEW k \in Live, sectionContent[k].size # 0
        PROVE  SubSeq(dest, sectHeader[k].sh_offset + 1, sectHeader[k].sh_offset + Len(SectionCells(k)))
                 = SectionCells(k)
    <3> DEFINE o == sectHeader[k].sh_offset
               z == sectionContent[k].size
    <3>1. SectionCells(k) \in Seq(Cells) /\ Len(SectionCells(k)) = z
      BY <2>1, SectionFacts DEF Tiled
    <3>2. o \in Nat /\ z \in Nat
      <4>1. k \in Index(source)
        BY <2>1 DEF TypeOK, ElfFile, ElfShape, Live, Index
      <4>2. sectHeader[k] \in Elf32_Shdr /\ sectionContent[k] \in SectionContent
        BY <2>1, <4>1 DEF TypeOK
      <4> QED
        BY <4>2 DEF Elf32_Shdr, SectionContent
    <3>3. EhdrSize <= o /\ o + z <= e_shoff
      BY <2>1, <2>9 DEF LayoutKept, EndsBefore
    <3>4. \A j \in 1 .. z : ContentCells[(o - EhdrSize) + j] = SectionCells(k)[j]
      BY <2>1, ContentTiles
    <3> HIDE DEF o, z
    <3>5. ASSUME NEW j \in 1 .. z PROVE dest[o + j] = SectionCells(k)[j]
      <4>1. o + j \in EhdrSize + 1 .. e_shoff /\ o + j \in 1 .. Len(Image)
            /\ (o + j) - EhdrSize = (o - EhdrSize) + j
        BY <2>3, <2>4, <2>6, <3>2, <3>3
      <4> QED
        BY <2>2, <2>5, <3>4, <4>1
    <3>6. o + Len(SectionCells(k)) <= Len(dest)
      BY <2>2, <2>3, <2>4, <2>6, <3>1, <3>2, <3>3
    <3>7. SubSeq(dest, o + 1, o + Len(SectionCells(k))) = SectionCells(k)
      BY <2>1, <3>1, <3>2, <3>5, <3>6, PartIs
    <3> QED
      BY <3>7 DEF o
  <2> QED
    BY <2>7, <2>8, <2>9
<1> QED
  BY <1>1, OutcomeAlways, PTL
-----------------------------------------------------------------------------
(***************************************************************************)
(* Copies.  After the loaders, the file that Elf32_Main describes is the   *)
(* source file; as long as the options only copy, it stays so, and the     *)
(* destination is a beginning of it.                                       *)
(***************************************************************************)
\* Two sections do not hold the same position.
LEMMA CoveredOnce ==
  ASSUME TypeOK, LayoutKept, NEW k \in Live, NEW l \in Live, NEW p \in Nat, Covers(k, p), Covers(l, p)
  PROVE  k = l
<1> DEFINE off(m) == sectHeader[m].sh_offset
           siz(m) == sectionContent[m].size
<1>1. \A m \in Live : off(m) \in Nat /\ siz(m) \in Nat
  <2>1. \A m \in Live : m \in Index(source)
    BY DEF TypeOK, ElfFile, ElfShape, Live, Index
  <2>2. \A m \in Live : sectHeader[m] \in Elf32_Shdr /\ sectionContent[m] \in SectionContent
    BY <2>1 DEF TypeOK
  <2> QED
    BY <2>2 DEF Elf32_Shdr, SectionContent
<1>2. \A m \in Live : siz(m) # 0 => \A n \in Live \ {m} :
        /\ off(n) > off(m) => off(m) + siz(m) <= off(n)
        /\ siz(n) # 0 => off(n) # off(m)
  BY DEF LayoutKept, EndsBefore
<1>3. off(k) <= p /\ p < off(k) + siz(k) /\ off(l) <= p /\ p < off(l) + siz(l)
  BY DEF Covers
<1> HIDE DEF off, siz
<1>4. siz(k) # 0 /\ siz(l) # 0
  BY <1>1, <1>3
<1> SUFFICES ASSUME k # l PROVE FALSE
  OBVIOUS
<1>5. off(k) # off(l) /\ (off(l) > off(k) => off(k) + siz(k) <= off(l))
      /\ (off(k) > off(l) => off(l) + siz(l) <= off(k))
  BY <1>2, <1>4
<1> QED
  BY <1>1, <1>3, <1>5

\* The file that Elf32_Main describes after the loaders is the source file.
LEMMA LoadedImage ==
  ASSUME TypeOK, LayoutKept, Tiled, Loaded
  PROVE  /\ Len(Image) = source.e_shoff + source.e_shnum * ShdrSize
         /\ \A q \in 1 .. Len(Image) : Image[q] = SourceCell(q - 1)
<1>1. /\ EhdrSize + Len(ContentCells) = e_shoff /\ Len(Image) = FileSize /\ FileSize \in Nat
      /\ Len(SectHeaderCells) = e_shnum * ShdrSize /\ e_shnum * ShdrSize \in Nat
  BY ImageSize
<1>2. /\ e_shnum = source.e_shnum /\ e_shoff = source.e_shoff /\ e_shstrndx = source.e_shstrndx
      /\ sectHeader = source.sect /\ symTable = source.sym /\ Live = Index(source)
      /\ sectionContent = LoadedContent(source)
  BY DEF Loaded, Live, Index
<1>3. /\ e_shoff \in Nat /\ e_shnum \in Nat /\ EhdrSize \in Nat \ {0} /\ EhdrSize <= e_shoff
      /\ ShdrSize \in Nat \ {0} /\ SymSize \in Nat \ {0} /\ source.nsym \in Nat
  BY SizesAssumption DEF TypeOK, ElfFile, ElfShape, Tiled
<1>4. FileSize = e_shoff + e_shnum * ShdrSize
  BY DEF FileSize
<1>5. /\ \A q \in 1 .. EhdrSize : Image[q] = HeaderCells[q]
      /\ \A q \in EhdrSize + 1 .. e_shoff : Image[q] = ContentCells[q - EhdrSize]
      /\ \A q \in e_shoff + 1 .. FileSize : Image[q] = SectHeaderCells[q - e_shoff]
  BY <1>1, ImageFacts
<1>6. ASSUME NEW q \in 1 .. EhdrSize
      PROVE  Image[q] = SourceCell(q - 1)
  <2>1. Image[q] = <<"ehdr", <<e_shnum, e_shoff, e_shstrndx>>, q>>
    BY <1>5, HeaderFacts
  <2>2. q - 1 < EhdrSize /\ ~ (q - 1 >= source.e_shoff) /\ ~ (q - 1 >= EhdrSize) /\ (q - 1) + 1 = q
    BY <1>2, <1>3
  <2>3. SourceCell(q - 1) = <<"ehdr", <<source.e_shnum, source.e_shoff, source.e_shstrndx>>, (q - 1) + 1>>
    BY <2>2 DEF SourceCell
  <2> QED
    BY <1>2, <2>1, <2>2, <2>3
<1>7. ASSUME NEW q \in e_shoff + 1 .. FileSize
      PROVE  Image[q] = SourceCell(q - 1)
  <2> DEFINE x == (q - 1) - e_shoff
             k == x \div ShdrSize
             r == x % ShdrSize
  <2>1. x \in Nat /\ x < e_shnum * ShdrSize
    <3> DEFINE n == e_shnum * ShdrSize
    <3>1. n \in Nat /\ FileSize = e_shoff + n
      BY <1>1, <1>4
    <3> HIDE DEF n
    <3>2. x \in Nat /\ x < n
      BY <1>3, <3>1
    <3> QED
      BY <3>2 DEF n
  <2>2. k \in 0 .. e_shnum - 1 /\ r \in 0 .. ShdrSize - 1 /\ x = k * ShdrSize + r
    <3> HIDE DEF x
    <3> QED
      BY <1>3, <2>1, PieceOf
  <2>3. k * ShdrSize \in Nat
    BY <1>3, <2>2, Times
  <2>4. q - e_shoff = k * ShdrSize + (r + 1) /\ r + 1 \in 1 .. ShdrSize
    <3> DEFINE n == k * ShdrSize
    <3>1. n \in Nat /\ x = n + r /\ r \in 0 .. ShdrSize - 1
      BY <2>2, <2>3
    <3> HIDE DEF n, k, r
    <3>2. q - e_shoff = n + (r + 1) /\ r + 1 \in 1 .. ShdrSize
      BY <1>3, <3>1
    <3> QED
      BY <3>2 DEF n
  <2>5. Image[q] = <<"shdr", sectHeader[k], r + 1>>
    <3>1. k \in Live
      BY <2>2 DEF Live
    <3> HIDE DEF k, r
    <3> QED
      BY <1>5, <2>4, <3>1, SectHeaderFacts
  <2>6. q - 1 >= source.e_shoff /\ ~ (q - 1 < EhdrSize) /\ ~ (q - 1 < source.e_shoff)
    BY <1>2, <1>3
  <2>7. SourceCell(q - 1) = <<"shdr", source.sect[k], r + 1>>
    BY <1>2, <2>6 DEF SourceCell
  <2> QED
    BY <1>2, <2>5, <2>7
<1>8. ASSUME NEW q \in EhdrSize + 1 .. e_shoff
      PROVE  Image[q] = SourceCell(q - 1)
  <2> DEFINE p == q - 1
             symtab == {l \in Index(source) : source.sect[l].sh_type = "SYMTAB" /\ Held(source, l, p)}
  <2>1. p \in EhdrSize .. e_shoff - 1 /\ p \in Nat /\ q \in Nat
    BY <1>3
  <2>2. PICK k \in Live : Covers(k, p)
    BY <2>1 DEF Tiled
  <2> DEFINE o == sectHeader[k].sh_offset
             z == sectionContent[k].size
             x == p - o
  <2>3. \A l \in Live : CellCount(l) = sectionContent[l].size
    BY DEF Tiled
  <2>4. /\ o \in Nat /\ z \in Nat /\ sectionContent[k].from = o
        /\ o <= p /\ p < o + z /\ EhdrSize <= o
    <3>1. sectHeader[k] \in Elf32_Shdr /\ sectionContent[k] \in SectionContent
      BY <1>2 DEF TypeOK
    <3>2. sectionContent[k].from = o
      BY <1>2 DEF LoadedContent
    <3>3. o <= p /\ p < o + z
      BY <2>2 DEF Covers
    <3>4. o \in Nat /\ z \in Nat
      BY <3>1 DEF Elf32_Shdr, SectionContent
    <3>5. z # 0
      BY <2>1, <3>3, <3>4
    <3> QED
      BY <3>2, <3>3, <3>4, <3>5 DEF LayoutKept
  <2>5. x \in Nat /\ x < z /\ x + 1 \in 1 .. z /\ q - EhdrSize = (o - EhdrSize) + (x + 1)
    <3> HIDE DEF o, z
    <3> QED
      BY <1>3, <2>1, <2>4
  <2>6. Image[q] = SectionCells(k)[x + 1]
    <3>1. ContentCells[(o - EhdrSize) + (x + 1)] = SectionCells(k)[x + 1]
      BY <2>5, ContentTiles
    <3> HIDE DEF o, x
    <3> QED
      BY <1>5, <2>5, <3>1
  <2>7. \A l \in symtab : l = k
    <3> TAKE l \in symtab
    <3>1. l \in Live /\ sectHeader[l].sh_type = "SYMTAB" /\ Held(source, l, p)
      BY <1>2
    <3>2. CellCount(l) = HeldBytes(source, l) /\ CellCount(l) = sectionContent[l].size
      BY <1>2, <2>3, <3>1 DEF CellCount, HeldBytes
    <3>3. Covers(l, p)
      BY <1>2, <3>1, <3>2 DEF Held, Covers
    <3> QED
      BY <2>1, <2>2, <3>1, <3>3, CoveredOnce
  <2>8. p >= EhdrSize /\ p < source.e_shoff /\ ~ (p < EhdrSize) /\ ~ (p >= source.e_shoff)
    BY <1>2, <1>3, <2>1
  <2>9. CASE sectHeader[k].sh_type = "SYMTAB"
    <3>1. z = source.nsym * SymSize /\ HeldBytes(source, k) = z
      BY <1>2, <2>3, <2>9 DEF CellCount, HeldBytes
    <3>2. Held(source, k, p)
      BY <1>2, <2>4, <3>1 DEF Held
    <3>3. symtab # {} /\ (CHOOSE l \in symtab : TRUE) = k
      <4>1. k \in symtab
        BY <1>2, <2>9, <3>2
      <4> HIDE DEF symtab
      <4> QED
        BY <2>7, <4>1
    <3> DEFINE l == x \div SymSize
               r == x % SymSize
    <3>4. SourceCell(p) = <<"sym", <<l, source.sym[l].st_shndx, source.sym[l].st_value>>, r + 1>>
      <4> DEFINE y == p - source.sect[CHOOSE c \in symtab : TRUE].sh_offset
                 m == y \div SymSize
                 cell == <<"sym", <<m, source.sym[m].st_shndx, source.sym[m].st_value>>, (y % SymSize) + 1>>
      <4>1. SourceCell(p) = cell
        <5>1. symtab # {}
          BY <3>3
        <5> HIDE DEF p
        <5> QED
          BY <2>8, <5>1 DEF SourceCell
      <4>2. y = x
        <5> HIDE DEF symtab
        <5> QED
          BY <1>2, <3>3
      <4> HIDE DEF y, x, p
      <4> QED
        BY <4>1, <4>2
    <3>5. l \in 0 .. source.nsym - 1 /\ r \in 0 .. SymSize - 1 /\ x = l * SymSize + r
      <4>1. x < source.nsym * SymSize
        BY <2>5, <3>1
      <4> HIDE DEF x
      <4> QED
        BY <1>3, <2>5, <4>1, PieceOf
    <3>6. x + 1 = l * SymSize + (r + 1) /\ r + 1 \in 1 .. SymSize
      <4> DEFINE n == l * SymSize
      <4>1. n \in Nat
        BY <1>3, <3>5, Times
      <4>2. x = n + r /\ r \in 0 .. SymSize - 1
        BY <3>5
      <4> HIDE DEF n, l, r, x
      <4>3. x + 1 = n + (r + 1) /\ r + 1 \in 1 .. SymSize
        BY <1>3, <4>1, <4>2
      <4> QED
        BY <4>3 DEF n
    <3>7. SectionCells(k)[x + 1] = SymTabCells[x + 1]
      BY <2>9 DEF SectionCells
    <3>8. SymTabCells[x + 1] = <<"sym", <<l, symTable[l].st_shndx, symTable[l].st_value>>, r + 1>>
      <4>1. SymTabCells[l * SymSize + (r + 1)]
              = <<"sym", <<l, symTable[l].st_shndx, symTable[l].st_value>>, r + 1>>
        <5> HIDE DEF l, r
        <5> QED
          BY <3>5, <3>6, SymTabFacts
      <4> HIDE DEF l, r, x
      <4> QED
        BY <3>6, <4>1
    <3> HIDE DEF l, r, x
    <3> QED
      BY <1>2, <2>6, <3>4, <3>7, <3>8
  <2>10. CASE sectHeader[k].sh_type # "SYMTAB"
    <3>1. symtab = {}
      <4>1. k \notin symtab
        BY <1>2, <2>10
      <4> HIDE DEF symtab
      <4> QED
        BY <2>7, <4>1
    <3>2. SourceCell(p) = <<"byte", p, 1>>
      <4> HIDE DEF p
      <4> QED
        BY <2>8, <3>1 DEF SourceCell
    <3>3. SectionCells(k)[x + 1] = <<"byte", o + (x + 1) - 1, 1>>
      <4>1. SectionCells(k) = Bytes(o, z)
        BY <2>4, <2>10 DEF SectionCells
      <4>2. Bytes(o, z)[x + 1] = <<"byte", o + (x + 1) - 1, 1>>
        <5> HIDE DEF o, z, x
        <5> QED
          BY <2>4, <2>5, ByteCells
      <4> QED
        BY <4>1, <4>2
    <3>4. o + (x + 1) - 1 = p
      <4> HIDE DEF o, p
      <4> QED
        BY <2>1, <2>4
    <3> QED
      BY <2>6, <3>2, <3>3, <3>4
  <2> QED
    BY <2>9, <2>10
<1>9. \A q \in 1 .. Len(Image) : q \in 1 .. EhdrSize \/ q \in EhdrSize + 1 .. e_shoff \/ q \in e_shoff + 1 .. FileSize
  BY <1>1, <1>3
<1> QED
  BY <1>1, <1>2, <1>4, <1>6, <1>7, <1>8, <1>9

\* What the steps of a write put, and where: each its part of the image.
LEMMA WritesOfImage ==
  ASSUME TypeOK,
         WriteHeader \/ WriteSectionContent \/ WriteSectionHeader \/ HeaderFails \/ ContentFails
  PROVE  \E p \in Nat, cells \in Seq(Cells) :
           /\ Put(p, cells) /\ p + Len(cells) <= Len(Image)
           /\ \A q \in p + 1 .. p + Len(cells) : Image[q] = cells[q - p]
<1> DEFINE H == HeaderCells
           C == ContentCells
           S == SectHeaderCells
           PartOf(p, cells) == /\ p \in Nat /\ cells \in Seq(Cells) /\ p + Len(cells) <= Len(Image)
                               /\ \A q \in p + 1 .. p + Len(cells) : Image[q] = cells[q - p]
<1>1. /\ H \in Seq(Cells) /\ C \in Seq(Cells) /\ S \in Seq(Cells) /\ EhdrSize \in Nat
      /\ Len(H) = EhdrSize /\ Len(C) \in Nat /\ Len(S) \in Nat
      /\ Len(Image) = (EhdrSize + Len(C)) + Len(S)
      /\ \A q \in 1 .. EhdrSize : Image[q] = H[q]
      /\ \A q \in EhdrSize + 1 .. EhdrSize + Len(C) : Image[q] = C[q - EhdrSize]
      /\ \A q \in (EhdrSize + Len(C)) + 1 .. Len(Image) : Image[q] = S[q - (EhdrSize + Len(C))]
  BY ImageFacts
<1> HIDE DEF H, C, S
<1>2. PartOf(0, H)
  <2>1. \A q \in 0 + 1 .. 0 + Len(H) : q \in 1 .. EhdrSize /\ q - 0 = q
    BY <1>1
  <2> QED
    BY <1>1, <2>1
<1>3. PartOf(EhdrSize, C)
  BY <1>1
<1>4. PartOf(EhdrSize + Len(C), S)
  BY <1>1
<1> HIDE DEF PartOf
<1>5. CASE WriteHeader \/ HeaderFails
  <2>1. Put(0, H)
    BY <1>5 DEF WriteHeader, HeaderFails, Writes, WriteFails, H
  <2> QED
    BY <1>2, <2>1 DEF PartOf
<1>6. CASE WriteSectionContent \/ ContentFails
  <2>1. Put(EhdrSize, C)
    BY <1>6 DEF WriteSectionContent, ContentFails, Writes, WriteFails, C
  <2> QED
    BY <1>3, <2>1 DEF PartOf
<1>7. CASE WriteSectionHeader
  <2>1. Put(EhdrSize + Len(C), S)
    BY <1>7 DEF WriteSectionHeader, Writes, C, S
  <2> QED
    BY <1>4, <2>1 DEF PartOf
<1> QED
  BY <1>5, <1>6, <1>7

\* So the destination grows up to the image, and what is new in it is the image.
LEMMA WriteGrows ==
  ASSUME TypeOK, Disk,
         WriteHeader \/ WriteSectionContent \/ WriteSectionHeader \/ HeaderFails \/ ContentFails
  PROVE  /\ Len(dest') <= Len(dest) \/ Len(dest') <= Len(Image)
         /\ \A q \in 1 .. Len(dest') : \/ q <= Len(dest) /\ dest'[q] = dest[q]
                                       \/ q <= Len(Image) /\ dest'[q] = Image[q]
<1>1. dest \in Seq(Cells) /\ room \in Nat /\ Len(dest) <= room /\ Len(Image) \in Nat /\ Len(dest) \in Nat
  <2>1. Image \in Seq(Cells)
    BY ImageFacts
  <2> QED
    BY <2>1, RoomsAssumption DEF Disk
<1>2. PICK p \in Nat, cells \in Seq(Cells) :
        /\ Put(p, cells) /\ p + Len(cells) <= Len(Image)
        /\ \A q \in p + 1 .. p + Len(cells) : Image[q] = cells[q - p]
  BY WritesOfImage
<1>3. /\ dest' \in Seq(Cells)
      /\ Len(dest') <= Len(dest) \/ Len(dest') <= p + Len(cells)
      /\ \A q \in 1 .. Len(dest') : \/ q <= Len(dest) /\ dest'[q] = dest[q]
                                    \/ p < q /\ q <= p + Len(cells) /\ dest'[q] = cells[q - p]
  BY <1>1, <1>2, PutFacts
<1>4. Len(dest') \in Nat /\ Len(cells) \in Nat /\ (Len(dest') <= Len(dest) \/ Len(dest') <= p + Len(cells))
  <2>1. dest' \in Seq(Cells) /\ (Len(dest') <= Len(dest) \/ Len(dest') <= p + Len(cells))
    BY <1>1, <1>2, PutFacts
  <2> QED
    BY <2>1
<1>5. Len(dest') <= Len(dest) \/ Len(dest') <= Len(Image)
  BY <1>1, <1>2, <1>4
<1>6. ASSUME NEW q \in 1 .. Len(dest')
      PROVE  \/ q <= Len(dest) /\ dest'[q] = dest[q]
             \/ q <= Len(Image) /\ dest'[q] = Image[q]
  <2>1. CASE p < q /\ q <= p + Len(cells) /\ dest'[q] = cells[q - p]
    <3>1. q \in p + 1 .. p + Len(cells) /\ q <= Len(Image)
      BY <1>1, <1>2, <1>4, <2>1
    <3> QED
      BY <1>2, <2>1, <3>1
  <2> QED
    BY <1>3, <2>1
<1> QED
  BY <1>5, <1>6
-----------------------------------------------------------------------------
\* As long as the options only copy, Elf32_Main is what the loaders left and the
\* destination is the beginning of what it describes.
Copying ==
  Packed(source) /\ OnlyCopies =>
    /\ Loaded /\ pc \notin {"deleteRel", "correct", "relocate"}
    /\ Len(dest) <= Len(Image) /\ \A q \in 1 .. Len(dest) : dest[q] = Image[q]

LEMMA InitCopying == RInit => Copying
<1> SUFFICES ASSUME RInit PROVE Copying
  OBVIOUS
<1>1. source \in Sources /\ Loaded /\ i = 0 /\ pc = "options" /\ dest = <<>>
  BY DEF RInit
<1>2. TypeOK
  BY <1>1, LoadedIInv DEF IInv, Stages
<1>3. Image \in Seq(Cells)
  BY <1>2, ImageFacts
<1>4. Len(Image) \in Nat /\ Len(dest) = 0
  BY <1>1, <1>3
<1> QED
  BY <1>1, <1>4 DEF Copying

LEMMA NextCopying ==
  Structure /\ AtWork /\ Outcome /\ Copying /\ [RNext]_allVars => Copying'
<1> SUFFICES ASSUME Structure, AtWork, Outcome, Copying, [RNext]_allVars PROVE Copying'
  OBVIOUS
<1>1. optind \in Nat
  <2>1. Len(argv) \in Nat
    BY ArgvsAssumption DEF AtWork
  <2> QED
    BY <2>1 DEF AtWork
\* A step that leaves Elf32_Main alone.
<1>2. ASSUME UNCHANGED elfVars, argv' = argv, optind' \in {optind, optind + 1},
             OnlyCopies' => pc' \notin {"deleteRel", "correct", "relocate"},
             Len(dest) <= Len(Image) /\ (\A q \in 1 .. Len(dest) : dest[q] = Image[q]) =>
               Len(dest') <= Len(Image) /\ \A q \in 1 .. Len(dest') : dest'[q] = Image[q]
      PROVE  Copying'
  <2> SUFFICES ASSUME Packed(source)', OnlyCopies' PROVE
        /\ Loaded' /\ pc' \notin {"deleteRel", "correct", "relocate"}
        /\ Len(dest') <= Len(Image') /\ \A q \in 1 .. Len(dest') : dest'[q] = Image'[q]
    BY DEF Copying
  <2>1. Packed(source) /\ OnlyCopies
    <3>1. \A n \in 1 .. optind : n \in 1 .. optind'
      BY <1>1, <1>2
    <3> QED
      BY <1>2, <3>1 DEF elfVars, OnlyCopies
  <2>2. Loaded'
    BY <1>2, <2>1 DEF Copying, Loaded, elfVars, header
  <2>3. Image' = Image
    BY <1>2, SameElf
  <2> QED
    BY <1>2, <2>1, <2>2, <2>3 DEF Copying
<1>3. CASE Display \/ CrashInDisplay \/ Write \/ Correct \/ Delete \/ NoDestination \/ Unrecognized
  <2>1. /\ UNCHANGED elfVars /\ argv' = argv /\ optind' = optind + 1 /\ dest' = dest
        /\ pc' \in {"deleteRel", "correct", "relocate"} => argv[optind + 1].opt \in {"text", "data", "d"}
    BY <1>3 DEF Display, CrashInDisplay, Write, Correct, Delete, NoDestination, Unrecognized, Handle
  <2>2. OnlyCopies' => argv[optind + 1].opt \in Displays \cup {"w"}
    <3>1. optind + 1 \in 1 .. optind'
      BY <1>1, <2>1
    <3> QED
      BY <2>1, <3>1 DEF OnlyCopies
  <2>3. OnlyCopies' => pc' \notin {"deleteRel", "correct", "relocate"}
    BY <2>1, <2>2 DEF Displays
  <2> QED
    BY <1>2, <2>1, <2>3
<1>4. CASE DeleteRel \/ CorrectSymTable \/ CrashOutOfTable \/ CorrectABSReloc \/ CrashInReloc
  <2>1. pc \in {"deleteRel", "correct", "relocate"} /\ UNCHANGED runVars /\ source' = source
    BY <1>4 DEF DeleteRel, SkipSection, DeleteSection, AbortOnUninitialised, EndDeleteRel, AtRel,
                CorrectSymTable, CrashOutOfTable, CorrectABSReloc, CrashInReloc, elfVars
  <2>2. Packed(source)' = Packed(source) /\ OnlyCopies' = OnlyCopies
    BY <2>1 DEF runVars, OnlyCopies
  <2> QED
    BY <2>1, <2>2 DEF Copying
<1>5. CASE WriteHeader \/ WriteSectionContent \/ WriteSectionHeader \/ HeaderFails \/ ContentFails
  <2>1. /\ UNCHANGED elfVars /\ argv' = argv /\ optind' = optind
        /\ pc' \notin {"deleteRel", "correct", "relocate"}
    BY <1>5 DEF WriteHeader, WriteSectionContent, WriteSectionHeader, HeaderFails, ContentFails, Writes, WriteFails
  <2>2. /\ Len(dest') <= Len(dest) \/ Len(dest') <= Len(Image)
        /\ \A q \in 1 .. Len(dest') : \/ q <= Len(dest) /\ dest'[q] = dest[q]
                                      \/ q <= Len(Image) /\ dest'[q] = Image[q]
    BY <1>5, WriteGrows DEF Structure, IInv, Outcome
  <2>3. Len(dest) \in Nat /\ Len(Image) \in Nat /\ Len(dest') \in Nat
    <3>1. dest \in Seq(Cells) /\ Image \in Seq(Cells)
      BY ImageFacts DEF Outcome, Disk, Structure, IInv
    <3>2. dest' \in Seq(Cells)
      BY NextOutcome DEF Outcome, Disk
    <3> QED
      BY <3>1, <3>2
  <2>4. ASSUME Len(dest) <= Len(Image), \A q \in 1 .. Len(dest) : dest[q] = Image[q]
        PROVE  Len(dest') <= Len(Image) /\ \A q \in 1 .. Len(dest') : dest'[q] = Image[q]
    <3>1. Len(dest') <= Len(Image)
      BY <2>2, <2>3, <2>4
    <3>2. ASSUME NEW q \in 1 .. Len(dest') PROVE dest'[q] = Image[q]
      <4>1. q <= Len(dest) => q \in 1 .. Len(dest)
        BY <2>3
      <4> QED
        BY <2>2, <2>4, <4>1
    <3> QED
      BY <3>1, <3>2
  <2> QED
    BY <1>2, <2>1, <2>4
<1>6. CASE Return \/ AbortInFree \/ UNCHANGED allVars
  <2>1. /\ UNCHANGED elfVars /\ argv' = argv /\ optind' = optind /\ dest' = dest
        /\ pc' \in {"done", "abortInFree"} \/ pc' = pc
    BY <1>6 DEF Return, AbortInFree, allVars, vars, runVars
  <2>2. pc' \in {"deleteRel", "correct", "relocate"} => pc' = pc
    BY <2>1
  <2>3. CASE pc' = pc
    <3>1. UNCHANGED <<elfVars, argv, optind, dest, pc>> /\ Image' = Image
      BY <2>1, <2>3, SameElf
    <3>2. Packed(source)' = Packed(source) /\ OnlyCopies' = OnlyCopies /\ Loaded' = Loaded
      BY <3>1 DEF elfVars, header, OnlyCopies, Loaded
    <3> QED
      BY <3>1, <3>2 DEF Copying
  <2>4. CASE pc' # pc
    BY <1>2, <2>1, <2>2, <2>4
  <2> QED
    BY <2>3, <2>4
<1> QED
  BY <1>3, <1>4, <1>5, <1>6 DEF RNext

LEMMA CopyingAlways == RSpec => [](Structure /\ AtWork /\ Outcome /\ Copying)
<1>1. RInit => Structure /\ AtWork /\ Outcome /\ Copying
  BY InitStructure, InitOutcome, InitCopying
<1>2. Structure /\ AtWork /\ Outcome /\ Copying /\ [RNext]_allVars => (Structure /\ AtWork /\ Outcome /\ Copying)'
  BY NextStructure, NextOutcome, NextCopying
<1> QED
  BY <1>1, <1>2, PTL DEF RSpec

\* The image is then the source file.
LEMMA ImageIsSource ==
  ASSUME Structure, Outcome, Copying, Packed(source), OnlyCopies
  PROVE  SourceCells = Image /\ Image \in Seq(Cells)
<1>1. TypeOK /\ LayoutKept /\ Tiled /\ Loaded
  BY DEF Structure, IInv, Outcome, PackedTiled, Copying
<1>2. Image \in Seq(Cells)
  BY <1>1, ImageFacts
<1>3. /\ Len(Image) = source.e_shoff + source.e_shnum * ShdrSize
      /\ \A q \in 1 .. Len(Image) : Image[q] = SourceCell(q - 1)
  BY <1>1, LoadedImage
<1>4. SourceCells = [q \in 1 .. Len(Image) |-> SourceCell(q - 1)]
  BY <1>3 DEF SourceCells
<1>5. Image = [q \in 1 .. Len(Image) |-> Image[q]]
  BY <1>2
<1> QED
  BY <1>2, <1>3, <1>4, <1>5, Zenon

\* On any disk and after any number of copies, the destination is the beginning
\* of the source file (writeFile.c:4, 113-165).
THEOREM CopiesArePrefixes == RSpec => []CopyIsPrefix
<1>1. ASSUME Structure, Outcome, Copying PROVE CopyIsPrefix
  <2> SUFFICES ASSUME Packed(source), OnlyCopies PROVE IsPrefix(dest, SourceCells)
    BY DEF CopyIsPrefix
  <2>1. SourceCells = Image /\ Image \in Seq(Cells) /\ dest \in Seq(Cells)
    BY <1>1, ImageIsSource DEF Outcome, Disk
  <2>2. Len(dest) <= Len(Image) /\ (\A q \in 1 .. Len(dest) : dest[q] = Image[q])
        /\ Len(dest) \in Nat /\ Len(Image) \in Nat
    BY <1>1, <2>1 DEF Copying
  <2>3. \A j \in 1 .. Len(dest) : Image[0 + j] = dest[j] /\ dest[0 + j] = dest[j]
    <3> TAKE j \in 1 .. Len(dest)
    <3>1. 0 + j = j
      BY <2>2
    <3> QED
      BY <2>2, <3>1
  <2>4. 0 + Len(dest) = Len(dest) /\ 0 + 1 = 1
    BY <2>2
  <2>5. SubSeq(Image, 0 + 1, 0 + Len(dest)) = dest
    BY <2>1, <2>2, <2>3, <2>4, PartIs
  <2>6. SubSeq(dest, 0 + 1, 0 + Len(dest)) = dest
    BY <2>1, <2>2, <2>3, <2>4, PartIs
  <2> QED
    BY <2>1, <2>2, <2>4, <2>5, <2>6 DEF IsPrefix
<1> QED
  BY <1>1, CopyingAlways, PTL

\* And once a write has left it whole, it is the source file
\* (ARM_runner.c:22, writeFile.c:113-153).
THEOREM CopiesAreFaithful == RSpec => []CopyFaithful
<1>1. ASSUME Structure, Outcome, Copying PROVE CopyFaithful
  <2> SUFFICES ASSUME Packed(source), Settled, OnlyCopies PROVE dest = SourceCells
    BY DEF CopyFaithful, IsCopy
  <2>1. SourceCells = Image /\ Image \in Seq(Cells) /\ dest \in Seq(Cells)
    BY <1>1, ImageIsSource DEF Outcome, Disk
  <2>2. Len(dest) <= Len(Image) /\ (\A q \in 1 .. Len(dest) : dest[q] = Image[q])
    BY <1>1 DEF Copying
  <2>3. Len(Image) <= Len(dest)
    <3>1. dest # <<>>
      BY DEF Settled
    <3> QED
      BY <1>1, <3>1 DEF Settled, Outcome, Written, Begins
  <2>4. Len(dest) = Len(Image)
    BY <2>1, <2>2, <2>3
  <2> QED
    BY <2>1, <2>2, <2>4
<1> QED
  BY <1>1, CopyingAlways, PTL
-----------------------------------------------------------------------------
(***************************************************************************)
(* The end of the destination.                                             *)
(***************************************************************************)
\* The stages after an option that writes.
Working == {"deleteRel", "correct", "relocate", "write", "content", "headers"}

\* Every deletion so far came before the first write.
DeletedFirst == \A n \in 1 .. optind : argv[n].opt = "d" => FirstWrite(n)

\* Nothing is in the destination before the first option that writes, so that
\* the deletion that comes first leaves no longer file behind.
NoTail ==
  /\ pc \in Working => optind # 0 /\ argv[optind].opt \notin Displays
  /\ pc = "deleteRel" => argv[optind].opt = "d" /\ (FirstWrite(optind) => dest = <<>>)
  /\ FirstWrite(optind + 1) => dest = <<>>
  /\ Packed(source) /\ DeletedFirst => Len(dest) <= FileSize

LEMMA FileSizeNat == TypeOK => FileSize \in Nat
<1> SUFFICES ASSUME TypeOK PROVE FileSize \in Nat
  OBVIOUS
<1>1. e_shoff \in Nat /\ e_shnum \in Nat /\ ShdrSize \in Nat
  BY SizesAssumption DEF TypeOK, ElfFile, ElfShape
<1>2. e_shnum * ShdrSize \in Nat
  BY <1>1, Times
<1> QED
  BY <1>1, <1>2 DEF FileSize

LEMMA FileSizeNext == TypeOK' => FileSize' \in Nat
<1> SUFFICES ASSUME TypeOK' PROVE FileSize' \in Nat
  OBVIOUS
<1>1. e_shoff' \in Nat /\ e_shnum' \in Nat /\ ShdrSize \in Nat
  BY SizesAssumption DEF TypeOK, ElfFile, ElfShape
<1> DEFINE a == e_shnum'
<1>2. a * ShdrSize \in Nat
  BY <1>1, Times
<1>3. FileSize' = e_shoff' + a * ShdrSize
  BY DEF FileSize
<1> HIDE DEF a
<1>4. \A x, y \in Nat : x + y \in Nat
  OBVIOUS
<1>5. e_shoff' + a * ShdrSize \in Nat
  BY <1>1, <1>2, <1>4, Zenon
<1> QED
  BY <1>3, <1>5, Zenon

LEMMA InitNoTail == RInit => NoTail
<1> SUFFICES ASSUME RInit PROVE NoTail
  OBVIOUS
<1>1. source \in Sources /\ Loaded /\ i = 0 /\ pc = "options" /\ dest = <<>> /\ optind = 0
  BY DEF RInit
<1>2. FileSize \in Nat
  BY <1>1, LoadedIInv, FileSizeNat DEF IInv, Stages
<1>3. Len(dest) <= FileSize
  BY <1>1, <1>2
<1> QED
  BY <1>1, <1>3 DEF NoTail, Working

LEMMA NextNoTail ==
  Structure /\ AtWork /\ Outcome /\ NoTail /\ [RNext]_allVars => NoTail'
<1> SUFFICES ASSUME Structure, AtWork, Outcome, NoTail, [RNext]_allVars PROVE NoTail'
  OBVIOUS
<1>1. optind \in Nat
  <2>1. Len(argv) \in Nat
    BY ArgvsAssumption DEF AtWork
  <2> QED
    BY <2>1 DEF AtWork
\* A step of the stage of an option.
<1>2. ASSUME argv' = argv, optind' = optind, source' = source, pc \in Working \/ pc' = pc,
             dest' = dest \/ pc \in {"write", "content", "headers"},
             pc' = "deleteRel" => pc = "deleteRel", pc' \in Working => pc \in Working,
             Packed(source) /\ DeletedFirst => Len(dest') <= FileSize'
      PROVE  NoTail'
  <2>1. DeletedFirst' = DeletedFirst /\ (\A n : FirstWrite(n)' = FirstWrite(n))
    BY <1>2 DEF DeletedFirst, FirstWrite
  <2>2. pc \in Working => ~FirstWrite(optind + 1)
    <3>1. optind # 0 => optind \in 1 .. (optind + 1) - 1
      BY <1>1
    <3> QED
      BY <3>1 DEF NoTail, FirstWrite
  <2>3. FirstWrite(optind + 1) => dest' = <<>>
    BY <1>2, <2>2 DEF NoTail, Working
  <2>4. pc' = "deleteRel" => argv[optind].opt = "d" /\ (FirstWrite(optind) => dest' = <<>>)
    BY <1>2 DEF NoTail
  <2> QED
    BY <1>2, <2>1, <2>3, <2>4 DEF NoTail
<1>3. CASE Display \/ CrashInDisplay \/ Write \/ Correct \/ Delete \/ NoDestination \/ Unrecognized
  <2>1. /\ UNCHANGED elfVars /\ argv' = argv /\ optind' = optind + 1 /\ dest' = dest
        /\ pc' \in Working => argv[optind + 1].opt \in {"w", "d", "text", "data"}
        /\ pc' = "deleteRel" => argv[optind + 1].opt = "d"
    BY <1>3 DEF Display, CrashInDisplay, Write, Correct, Delete, NoDestination, Unrecognized, Handle, Working
  <2>2. pc' \in Working => optind' # 0 /\ argv'[optind'].opt \notin Displays
    BY <1>1, <2>1 DEF Displays
  <2>3. FirstWrite(optind + 1) => dest = <<>>
    BY DEF NoTail
  <2>4. \A n : FirstWrite(n)' = FirstWrite(n)
    BY <2>1 DEF FirstWrite
  <2>5. FirstWrite(optind' + 1) => FirstWrite(optind + 1)
    <3>1. 1 .. (optind + 1) - 1 \subseteq 1 .. (optind' + 1) - 1
      BY <1>1, <2>1
    <3> QED
      BY <3>1 DEF FirstWrite
  <2>6. DeletedFirst' => DeletedFirst
    <3>1. 1 .. optind \subseteq 1 .. optind'
      BY <1>1, <2>1
    <3> QED
      BY <2>1, <2>4, <3>1 DEF DeletedFirst
  <2>7. Packed(source)' = Packed(source) /\ FileSize' = FileSize
    BY <2>1, SameElf DEF elfVars
  <2>8. FirstWrite(optind + 1)' => dest' = <<>>
    BY <2>1, <2>3, <2>5 DEF FirstWrite
  <2>9. pc' = "deleteRel" => argv'[optind'].opt = "d" /\ (FirstWrite(optind)' => dest' = <<>>)
    BY <2>1, <2>3 DEF FirstWrite
  <2>10. (Packed(source) /\ DeletedFirst)' => Len(dest') <= FileSize'
    BY <2>1, <2>6, <2>7 DEF NoTail
  <2> QED
    BY <2>2, <2>8, <2>9, <2>10 DEF NoTail, Working
<1>4. CASE DeleteRel
  <2>1. UNCHANGED runVars /\ pc = "deleteRel" /\ pc' \in {"deleteRel", "abort", "write"} /\ source' = source
    BY <1>4 DEF DeleteRel, SkipSection, DeleteSection, AbortOnUninitialised, EndDeleteRel, AtRel, elfVars
  <2>2. FileSize' \in Nat
    <3>1. TypeOK'
      BY NextStructure DEF Structure, IInv
    <3> QED
      BY <3>1, FileSizeNext, Zenon
  <2>3. DeletedFirst => dest = <<>>
    <3>1. optind \in 1 .. optind
      BY <1>1, <2>1 DEF NoTail, Working
    <3> QED
      BY <2>1, <3>1 DEF NoTail, DeletedFirst
  <2>4. DeletedFirst => Len(dest') <= FileSize'
    BY <2>1, <2>2, <2>3 DEF runVars
  <2> QED
    BY <1>2, <2>1, <2>4 DEF runVars, Working
<1>5. CASE CorrectSymTable \/ CrashOutOfTable \/ CorrectABSReloc \/ CrashInReloc \/ Return \/ AbortInFree \/ UNCHANGED allVars
  <2>1. /\ UNCHANGED <<source, header>> /\ UNCHANGED runVars
        /\ \/ pc \in {"correct", "relocate"} /\ pc' \in {"relocate", "abort", "write"}
           \/ pc' = pc \/ (pc = "options" /\ pc' \in {"done", "abortInFree"})
    BY <1>5 DEF CorrectSymTable, CrashOutOfTable, CorrectABSReloc, CrashInReloc, Return, AbortInFree, allVars, vars, elfVars
  <2>2. FileSize' = FileSize
    BY <2>1 DEF header, FileSize
  <2>3. Packed(source) /\ DeletedFirst => Len(dest') <= FileSize'
    BY <2>1, <2>2 DEF NoTail, runVars
  <2>4. CASE pc = "options" /\ pc' \in {"done", "abortInFree"}
    <3>1. (\A n : FirstWrite(n)' = FirstWrite(n)) /\ DeletedFirst' = DeletedFirst
      BY <2>1 DEF runVars, FirstWrite, DeletedFirst
    <3> QED
      BY <2>1, <2>3, <2>4, <3>1 DEF NoTail, runVars, Working
  <2>5. CASE ~ (pc = "options" /\ pc' \in {"done", "abortInFree"})
    BY <1>2, <2>1, <2>3, <2>5 DEF runVars, Working
  <2> QED
    BY <2>4, <2>5
<1>6. CASE WriteHeader \/ WriteSectionContent \/ WriteSectionHeader \/ HeaderFails \/ ContentFails
  <2>1. /\ UNCHANGED elfVars /\ argv' = argv /\ optind' = optind
        /\ pc \in {"write", "content", "headers"} /\ pc' \in {"content", "headers", "options", "exit"}
    BY <1>6 DEF WriteHeader, WriteSectionContent, WriteSectionHeader, HeaderFails, ContentFails, Writes, WriteFails
  <2>2. Len(dest') <= Len(dest) \/ Len(dest') <= Len(Image)
    BY <1>6, WriteGrows DEF Structure, IInv, Outcome
  <2>3. ASSUME Packed(source), DeletedFirst PROVE Len(dest') <= FileSize'
    <3>1. Len(Image) = FileSize /\ FileSize \in Nat /\ FileSize' = FileSize
      BY <2>1, <2>3, ImageSize, SameElf DEF Structure, IInv, Outcome, PackedTiled
    <3>2. Len(dest) <= FileSize
      BY <2>3 DEF NoTail
    <3>3. Len(dest) \in Nat /\ Len(dest') \in Nat
      <4>1. dest \in Seq(Cells) /\ dest' \in Seq(Cells)
        BY NextOutcome DEF Outcome, Disk
      <4> QED
        BY <4>1
    <3> QED
      BY <2>2, <3>1, <3>2, <3>3
  <2> QED
    BY <1>2, <2>1, <2>3 DEF elfVars, Working
<1> QED
  BY <1>3, <1>4, <1>5, <1>6 DEF RNext

\* With the deletions before any other write, a destination that a write has
\* left whole ends with the section headers (ARM_runner.c:23, 40).
THEOREM DeletedFirstLeavesNoTail == RSpec => []NoTailWhenDeletedFirst
<1>1. RInit => Structure /\ AtWork /\ Outcome /\ NoTail
  BY InitStructure, InitOutcome, InitNoTail
<1>2. Structure /\ AtWork /\ Outcome /\ NoTail /\ [RNext]_allVars => (Structure /\ AtWork /\ Outcome /\ NoTail)'
  BY NextStructure, NextOutcome, NextNoTail
<1>3. ASSUME Structure, Outcome, NoTail PROVE NoTailWhenDeletedFirst
  <2> SUFFICES ASSUME Packed(source), DeletedFirst, Settled PROVE Len(dest) = FileSize
    BY DEF NoTailWhenDeletedFirst, NoStaleTail, DeletedFirst
  <2>1. Len(dest) <= FileSize
    BY <1>3 DEF NoTail
  <2>2. Len(Image) = FileSize /\ FileSize \in Nat
    BY <1>3, ImageSize DEF Structure, IInv, Outcome, PackedTiled
  <2>3. Len(Image) <= Len(dest)
    <3>1. dest # <<>>
      BY DEF Settled
    <3> QED
      BY <1>3, <3>1 DEF Settled, Outcome, Written, Begins
  <2>4. Len(dest) \in Nat
    BY <1>3 DEF Outcome, Disk
  <2> QED
    BY <2>1, <2>2, <2>3, <2>4
<1> QED
  BY <1>1, <1>2, <1>3, PTL DEF RSpec
==============================================================================
