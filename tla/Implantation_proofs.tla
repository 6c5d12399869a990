------------------------ MODULE Implantation_proofs -------------------------
(***************************************************************************)
(* Proofs about deleteRel, for every set of source files and every size of *)
(* the headers.                                                            *)
(***************************************************************************)
EXTENDS Implantation, FoldLemmas

\* The bytes loadSectionContent reads for a section end before the sections
\* that start further in the file, and before the section headers.
LEMMA LoadedSizeFits ==
  ASSUME NEW s, ElfFile(s), NEW k \in Index(s)
  PROVE  /\ LoadedSize(s, k) \in Nat
         /\ LoadedSize(s, k) # 0 => Filled(s, k)
         /\ s.sect[k].sh_type = "REL" => LoadedSize(s, k) = s.sect[k].sh_size
         /\ Filled(s, k) =>
              /\ s.sect[k].sh_offset + LoadedSize(s, k) <= s.e_shoff
              /\ \A l \in Index(s) : s.sect[l].sh_offset > s.sect[k].sh_offset =>
                   s.sect[k].sh_offset + LoadedSize(s, k) <= s.sect[l].sh_offset
<1> DEFINE off(j) == s.sect[j].sh_offset
<1>1. /\ s.e_shnum \in Nat \ {0} /\ s.e_shoff \in Nat
      /\ \A j \in Index(s) : off(j) \in Nat /\ s.sect[j].sh_size \in Nat
  BY DEF ElfFile, ElfShape, Elf32_Shdr
<1>2. ElfLayout(s)
  BY DEF ElfFile
<1>3. CASE ~Filled(s, k)
  BY <1>3, <1>1 DEF LoadedSize, Filled
<1>4. CASE Filled(s, k) /\ k = s.e_shnum - 1
  BY <1>4, <1>1, <1>2 DEF LoadedSize, ElfLayout, CheckedLayout, SupposedLayout, Index, Filled
<1>5. CASE Filled(s, k) /\ k # s.e_shnum - 1 /\ s.sect[k].sh_type = "REL"
  BY <1>5, <1>1, <1>2 DEF LoadedSize, ElfLayout, CheckedLayout, SupposedLayout, Index, Filled
<1>6. CASE Filled(s, k) /\ k # s.e_shnum - 1 /\ s.sect[k].sh_type # "REL"
  <2> DEFINE After == {s.sect[j].sh_offset : j \in {j \in Index(s) : s.sect[j].sh_offset > s.sect[k].sh_offset}}
             Ends  == {s.sect[k + 1].sh_offset} \cup After
  <2>1. k + 1 \in Index(s) /\ off(k + 1) > off(k)
    BY <1>6, <1>1, <1>2 DEF ElfLayout, CheckedLayout, Index
  <2>2. Ends \in SUBSET Nat /\ Ends # {}
    BY <2>1, <1>1
  <2>3. NextOffset(s, k) = Min(Ends)
    BY DEF NextOffset
  <2>4. NextOffset(s, k) \in Ends /\ \A y \in Ends : NextOffset(s, k) <= y
    BY <2>2, <2>3, MinOfNat
  <2>5. \A y \in Ends : y > off(k) /\ y <= s.e_shoff
    BY <2>1, <1>2 DEF ElfLayout, SupposedLayout
  <2>6. LoadedSize(s, k) = NextOffset(s, k) - off(k)
    BY <1>6 DEF LoadedSize
  <2>7. NextOffset(s, k) \in Nat /\ NextOffset(s, k) > off(k) /\ NextOffset(s, k) <= s.e_shoff
    BY <2>2, <2>4, <2>5
  <2>8. \A l \in Index(s) : off(l) > off(k) => NextOffset(s, k) <= off(l)
    BY <2>4
  <2> QED
    BY <2>6, <2>7, <2>8, <1>1, <1>6
<1> QED
  BY <1>3, <1>4, <1>5, <1>6
-----------------------------------------------------------------------------
(***************************************************************************)
(* The inductive invariant.  LayoutKept is not inductive by itself: the    *)
(* loop moves the sections by the sh_size of the deleted header, so what   *)
(* is held for that table must be sh_size bytes long; section 0 is never   *)
(* deleted, which keeps the numbers that are decremented above zero; and   *)
(* the table of names is not deleted, which keeps e_shstrndx live.         *)
(***************************************************************************)
IInv ==
  /\ TypeOK
  /\ LayoutKept
  /\ sectHeader[0].sh_type = "NULL"
  /\ sectHeader[e_shstrndx].sh_type # "REL"
  /\ \A k \in Live : sectHeader[k].sh_type = "REL" => sectionContent[k].size = sectHeader[k].sh_size

\* The slot whose header and content the shift moves to slot k.
From(k) == IF k < i THEN k ELSE k + 1

\* The loaders establish the invariant.
LEMMA LoadedIInv ==
  ASSUME source \in Sources, Loaded, i = 0, pc \in Stages
  PROVE  IInv
<1>1. ElfFile(source) /\ ElfShape(source) /\ ElfTables(source) /\ ElfLayout(source)
  BY SourcesAssumption DEF ElfFile
<1> USE DEF Loaded
<1>2. \A k \in Index(source) : sectionContent[k].size = LoadedSize(source, k)
  BY DEF LoadedContent
<1>3. TypeOK
  <2>1. sectionContent \in [Index(source) -> SectionContent]
    BY <1>1, LoadedSizeFits DEF LoadedContent, SectionContent, Pointers, ElfShape, Elf32_Shdr
  <2> QED
    BY <2>1, <1>1 DEF TypeOK, ElfShape, Live, Index, Stages
<1>4. Live = Index(source)
  BY DEF Live, Index
<1>5. LayoutKept
  <2> SUFFICES ASSUME NEW k \in Live, sectionContent[k].size # 0
               PROVE  /\ EhdrSize <= sectHeader[k].sh_offset
                      /\ EndsBefore(k, e_shoff)
                      /\ \A l \in Live \ {k} :
                           /\ sectHeader[l].sh_offset > sectHeader[k].sh_offset
                                => EndsBefore(k, sectHeader[l].sh_offset)
                           /\ sectionContent[l].size # 0
                                => sectHeader[l].sh_offset # sectHeader[k].sh_offset
    BY DEF LayoutKept
  <2>1. Filled(source, k)
    BY <1>1, <1>2, <1>4, LoadedSizeFits
  <2>2. EhdrSize <= sectHeader[k].sh_offset
    BY <2>1, <1>1, <1>4 DEF ElfLayout, SupposedLayout
  <2>3. EndsBefore(k, e_shoff)
    BY <2>1, <1>1, <1>2, <1>4, LoadedSizeFits DEF EndsBefore
  <2>4. ASSUME NEW l \in Live \ {k}, sectHeader[l].sh_offset > sectHeader[k].sh_offset
        PROVE  EndsBefore(k, sectHeader[l].sh_offset)
    BY <2>1, <2>4, <1>1, <1>2, <1>4, LoadedSizeFits DEF EndsBefore
  <2>5. ASSUME NEW l \in Live \ {k}, sectionContent[l].size # 0
        PROVE  sectHeader[l].sh_offset # sectHeader[k].sh_offset
    <3>1. Filled(source, l)
      BY <2>5, <1>1, <1>2, <1>4, LoadedSizeFits
    <3> QED
      BY <3>1, <2>1, <1>1, <1>4 DEF ElfLayout, SupposedLayout
  <2> QED
    BY <2>2, <2>3, <2>4, <2>5
<1>6. /\ sectHeader[0].sh_type = "NULL"
      /\ sectHeader[e_shstrndx].sh_type # "REL"
  BY <1>1 DEF ElfTables
<1>7. \A k \in Live : sectHeader[k].sh_type = "REL" => sectionContent[k].size = sectHeader[k].sh_size
  BY <1>1, <1>2, <1>4, LoadedSizeFits
<1> QED
  BY <1>3, <1>5, <1>6, <1>7 DEF IInv

LEMMA InitIInv == Init => IInv
BY LoadedIInv DEF Init, Stages

\* One iteration that deletes: section k is the former section From(k), with
\* its bytes, its offset lowered by the deleted size when it lies further in
\* the file, and its link lowered when it is the index of a later section.
LEMMA DeletionShifts ==
  ASSUME TypeOK, DeleteSection
  PROVE  /\ e_shnum' \in Nat /\ Live' = 0 .. e_shnum - 2
         /\ i \in Live
         /\ \A k \in Live' :
              /\ From(k) \in Live \ {i}
              /\ sectHeader'[k] = Renumbered(sectHeader[From(k)])
              /\ sectionContent'[k].size = sectionContent[From(k)].size
              /\ sectionContent'[k].from = sectionContent[From(k)].from
<1>1. /\ e_shnum \in Nat \ {0} /\ e_shnum' = e_shnum - 1 /\ i \in Nat /\ i < e_shnum
      /\ source.e_shnum \in Nat /\ e_shnum <= source.e_shnum
      /\ Index(source) = 0 .. source.e_shnum - 1
      /\ sectHeader \in [Index(source) -> Elf32_Shdr]
      /\ sectionContent \in [Index(source) -> SectionContent]
  BY DEF TypeOK, DeleteSection, AtRel, ElfFile, ElfShape, Index
<1>2. Live' = 0 .. e_shnum - 2 /\ Live = 0 .. e_shnum - 1
  BY <1>1 DEF Live
<1>3. ASSUME NEW k \in 0 .. e_shnum - 2
      PROVE  /\ From(k) \in Live \ {i}
             /\ sectHeader'[k] = Renumbered(sectHeader[From(k)])
             /\ sectionContent'[k].size = sectionContent[From(k)].size
             /\ sectionContent'[k].from = sectionContent[From(k)].from
  <2>1. From(k) \in Live \ {i} /\ k \in Index(source) /\ From(k) \in Index(source)
    BY <1>1, <1>2 DEF From
  <2>2. ShiftedHeader(k) = sectHeader[From(k)]
    BY <1>1 DEF ShiftedHeader, From
  <2>3. sectHeader'[k] = Renumbered(ShiftedHeader(k))
    BY <1>1, <2>1 DEF DeleteSection
  <2>4. sectionContent'[k] = ShiftedContent(k)
    BY <1>1, <2>1 DEF DeleteSection
  <2>5. ShiftedContent(k).size = sectionContent[From(k)].size
        /\ ShiftedContent(k).from = sectionContent[From(k)].from
    BY <1>1, <2>1 DEF ShiftedContent, From
  <2> QED
    BY <2>1, <2>2, <2>3, <2>4, <2>5
<1> QED
  BY <1>1, <1>2, <1>3

LEMMA RenumberedFields ==
  ASSUME NEW h \in Elf32_Shdr, sectHeader[i] \in Elf32_Shdr
  PROVE  LET r == Renumbered(h)
             rel == sectHeader[i]
         IN /\ r.sh_name = h.sh_name /\ r.sh_type = h.sh_type
            /\ r.sh_size = h.sh_size /\ r.sh_info = h.sh_info
            /\ r.sh_offset = IF h.sh_offset > rel.sh_offset THEN h.sh_offset - rel.sh_size
                                                            ELSE h.sh_offset
            /\ r.sh_link = IF h.sh_link > i /\ h.sh_type \in LinkTypes THEN h.sh_link - 1
                                                                      ELSE h.sh_link
            /\ DOMAIN r = DOMAIN h
BY DEF Renumbered, Elf32_Shdr

\* What the invariant says of the table that is deleted: it is a live section
\* other than section 0 and the table of names, and the sections that lie
\* further in the file, and the section headers, lie after its end.
LEMMA DeletedTable ==
  ASSUME IInv, DeleteSection
  PROVE  /\ i \in Live /\ i >= 1 /\ e_shnum \in Nat /\ e_shnum >= 2
         /\ e_shstrndx \in Live \ {i}
         /\ sectHeader[i].sh_size = sectionContent[i].size
         /\ sectHeader[i].sh_offset \in Nat /\ sectHeader[i].sh_size \in Nat
         /\ sectHeader[i].sh_size <= e_shoff
         /\ \A k \in Live : sectHeader[k].sh_offset > sectHeader[i].sh_offset =>
              sectHeader[k].sh_offset >= sectHeader[i].sh_offset + sectHeader[i].sh_size
         /\ sectHeader[i].sh_size # 0 =>
              e_shoff >= sectHeader[i].sh_offset + sectHeader[i].sh_size
<1> DEFINE R == sectHeader[i].sh_offset
           S == sectHeader[i].sh_size
<1>1. /\ e_shnum \in Nat \ {0} /\ i \in Nat /\ i < e_shnum
      /\ source.e_shnum \in Nat /\ e_shnum <= source.e_shnum
      /\ e_shoff \in Nat /\ e_shstrndx \in Live
  BY DEF IInv, TypeOK, DeleteSection, AtRel, ElfFile, ElfShape
<1>2. \A k \in Live : sectHeader[k].sh_offset \in Nat /\ sectHeader[k].sh_size \in Nat
  <2>1. sectHeader \in [Index(source) -> Elf32_Shdr]
    BY DEF IInv, TypeOK
  <2>2. \A k \in Live : k \in Index(source)
    BY <1>1 DEF Live, Index
  <2>3. \A k \in Live : sectHeader[k] \in Elf32_Shdr
    BY <2>1, <2>2
  <2> QED
    BY <2>3 DEF Elf32_Shdr
<1>3. i # 0 /\ e_shstrndx # i /\ sectHeader[i].sh_type = "REL"
  BY DEF IInv, DeleteSection, AtRel
<1>4. i \in Live /\ i >= 1 /\ e_shnum >= 2
  BY <1>1, <1>3 DEF Live
<1>5. sectionContent[i].size = S /\ R \in Nat /\ S \in Nat
  BY <1>2, <1>3, <1>4 DEF IInv
<1>6. CASE S = 0
  BY <1>1, <1>2, <1>3, <1>4, <1>5, <1>6
<1>7. CASE S # 0
  <2>1. EndsBefore(i, e_shoff)
        /\ \A l \in Live \ {i} : sectHeader[l].sh_offset > R => EndsBefore(i, sectHeader[l].sh_offset)
    BY <1>4, <1>5, <1>7 DEF IInv, LayoutKept
  <2>2. R + S <= e_shoff /\ \A l \in Live \ {i} : sectHeader[l].sh_offset > R => R + S <= sectHeader[l].sh_offset
    BY <2>1, <1>5 DEF EndsBefore
  <2> QED
    BY <2>2, <1>1, <1>2, <1>3, <1>4, <1>5
<1> QED
  BY <1>6, <1>7

\* An iteration that deletes keeps the types.
LEMMA DeletionTypes ==
  ASSUME IInv, DeleteSection
  PROVE  TypeOK'
<1> DEFINE R == sectHeader[i].sh_offset
           S == sectHeader[i].sh_size
<1>1. /\ e_shnum' = e_shnum - 1 /\ source' = source /\ i' = i /\ pc' = pc
      /\ i \in Nat /\ i < e_shnum /\ e_shoff \in Nat
      /\ source.e_shnum \in Nat /\ e_shnum <= source.e_shnum
      /\ Live = 0 .. e_shnum - 1 /\ Index(source) = 0 .. source.e_shnum - 1
  BY DEF IInv, TypeOK, DeleteSection, AtRel, ElfFile, ElfShape, Index, Live
<1>2. /\ i \in Live /\ i >= 1 /\ e_shnum \in Nat /\ e_shnum >= 2
      /\ e_shstrndx \in Live \ {i}
      /\ R \in Nat /\ S \in Nat /\ S <= e_shoff
      /\ \A k \in Live : sectHeader[k].sh_offset > R => sectHeader[k].sh_offset >= R + S
  BY DeletedTable
<1>3. e_shoff' \in Nat
  BY <1>1, <1>2 DEF DeleteSection
<1>4. e_shstrndx' \in Live'
  BY <1>1, <1>2 DEF DeleteSection, MovedStrndx, Live
<1>5. sectHeader' \in [Index(source) -> Elf32_Shdr]
  <2>1. sectHeader \in [Index(source) -> Elf32_Shdr]
    BY DEF IInv, TypeOK
  <2>2. ASSUME NEW h \in Elf32_Shdr, h.sh_offset > R => h.sh_offset >= R + S
        PROVE  Renumbered(h) \in Elf32_Shdr
    <3>1. h.sh_offset \in Nat /\ h.sh_link \in Nat
      BY DEF Elf32_Shdr
    <3>2. h.sh_offset > R => h.sh_offset - S \in Nat
      BY <3>1, <2>2, <1>2
    <3>3. h.sh_link > i => h.sh_link - 1 \in Nat
      BY <3>1, <1>1
    <3> QED
      BY <3>2, <3>3 DEF Renumbered, Elf32_Shdr
  <2>3. ASSUME NEW k \in Index(source), k < e_shnum
        PROVE  Renumbered(ShiftedHeader(k)) \in Elf32_Shdr
    <3>1. PICK l \in Live : ShiftedHeader(k) = sectHeader[l]
      BY <2>3, <1>1, <1>2 DEF ShiftedHeader
    <3>2. l \in Index(source)
      BY <1>1, <1>2
    <3>3. sectHeader[l] \in Elf32_Shdr /\ (sectHeader[l].sh_offset > R => sectHeader[l].sh_offset >= R + S)
      BY <2>1, <3>2, <1>2
    <3> QED
      BY <3>1, <3>3, <2>2
  <2>4. \A k \in Index(source) :
          (IF k < e_shnum THEN Renumbered(ShiftedHeader(k)) ELSE sectHeader[k]) \in Elf32_Shdr
    BY <2>1, <2>3
  <2> QED
    BY <2>1, <2>4 DEF DeleteSection
<1>6. sectionContent' \in [Index(source) -> SectionContent]
  <2>1. sectionContent \in [Index(source) -> SectionContent]
    BY DEF IInv, TypeOK
  <2>2. ASSUME NEW k \in Index(source)
        PROVE  ShiftedContent(k) \in SectionContent
    <3>1. CASE i <= k /\ k < e_shnum - 1
      <4>1. k + 1 \in Index(source)
        BY <3>1, <1>1, <1>2
      <4>2. /\ sectionContent[k + 1].size \in Nat /\ sectionContent[k + 1].from \in Nat
            /\ sectionContent[k].ptr \in Pointers
        BY <2>1, <4>1 DEF SectionContent
      <4>3. ReallocPtr(sectionContent[k].ptr, sectionContent[k + 1].size) \in Pointers
        BY DEF ReallocPtr, Pointers
      <4> QED
        BY <3>1, <4>2, <4>3 DEF ShiftedContent, SectionContent
    <3>2. CASE ~ (i <= k /\ k < e_shnum - 1)
      BY <2>1, <3>2 DEF ShiftedContent, SectionContent, Pointers
    <3> QED
      BY <3>1, <3>2
  <2> QED
    BY <2>1, <2>2 DEF DeleteSection
<1>7. symTable' \in [0 .. source.nsym - 1 -> Elf32_Sym]
  <2>1. symTable \in [0 .. source.nsym - 1 -> Elf32_Sym]
    BY DEF IInv, TypeOK
  <2>2. \A n \in Nat : MovedShndx(n) \in Nat
    BY <1>1, <1>2 DEF MovedShndx
  <2>3. ASSUME NEW l \in 0 .. source.nsym - 1
        PROVE  [symTable[l] EXCEPT !.st_shndx = MovedShndx(@)] \in Elf32_Sym
    BY <2>1, <2>2 DEF Elf32_Sym
  <2> QED
    BY <2>1, <2>3 DEF DeleteSection
<1>8. e_shnum' \in 1 .. source.e_shnum /\ i \in 0 .. e_shnum'
  BY <1>1, <1>2
<1>9. ElfFile(source) /\ pc \in Stages
  BY DEF IInv, TypeOK
<1>10. Index(source)' = Index(source) /\ ElfFile(source)'
  BY <1>1, <1>9 DEF Index
<1> QED
  BY <1>1, <1>3, <1>4, <1>5, <1>6, <1>7, <1>8, <1>9, <1>10 DEF TypeOK

\* An iteration that deletes keeps the layout.  Two sections k and l of the new
\* table are the former From(k) and From(l); what can go wrong is that one of
\* them moves and the other, or the section headers, does not.
LEMMA DeletionLayout ==
  ASSUME IInv, DeleteSection
  PROVE  LayoutKept'
<1> DEFINE R == sectHeader[i].sh_offset
           S == sectHeader[i].sh_size
           off(k) == sectHeader[k].sh_offset
           siz(k) == sectionContent[k].size
           moved(p) == IF p > R THEN p - S ELSE p
<1>1. TypeOK /\ LayoutKept
  BY DEF IInv
<1>2. /\ i \in Live /\ R \in Nat /\ S \in Nat /\ siz(i) = S
      /\ \A k \in Live : off(k) > R => off(k) >= R + S
      /\ S # 0 => e_shoff >= R + S
  BY DeletedTable
<1>3. /\ \A k \in Live : sectHeader[k] \in Elf32_Shdr /\ off(k) \in Nat /\ siz(k) \in Nat
      /\ e_shoff \in Nat /\ e_shoff' = e_shoff - S
  <2>1. Live \subseteq Index(source)
    BY DEF IInv, TypeOK, ElfFile, ElfShape, Live, Index
  <2> QED
    BY <2>1, <1>1 DEF TypeOK, Elf32_Shdr, SectionContent, DeleteSection
<1>4. ASSUME NEW k \in Live'
      PROVE  /\ From(k) \in Live \ {i}
             /\ sectHeader'[k].sh_offset = moved(off(From(k)))
             /\ sectionContent'[k].size = siz(From(k))
  <2>1. /\ From(k) \in Live \ {i}
        /\ sectHeader'[k] = Renumbered(sectHeader[From(k)])
        /\ sectionContent'[k].size = siz(From(k))
    BY <1>1, DeletionShifts
  <2>2. Renumbered(sectHeader[From(k)]).sh_offset = moved(off(From(k)))
    BY <2>1, <1>2, <1>3, RenumberedFields
  <2> QED
    BY <2>1, <2>2
<1>5. \A k, l \in Live' : k # l => From(k) # From(l)
  <2>1. i \in Nat /\ Live' \subseteq Int
    BY <1>1, DeletionShifts DEF TypeOK, ElfFile, ElfShape
  <2> QED
    BY <2>1 DEF From
<1>6. SUFFICES ASSUME NEW k \in Live', sectionContent'[k].size # 0
               PROVE  /\ EhdrSize <= sectHeader'[k].sh_offset
                      /\ sectHeader'[k].sh_offset + sectionContent'[k].size <= e_shoff'
                      /\ \A l \in Live' \ {k} :
                           /\ sectHeader'[l].sh_offset > sectHeader'[k].sh_offset =>
                                sectHeader'[k].sh_offset + sectionContent'[k].size
                                  <= sectHeader'[l].sh_offset
                           /\ sectionContent'[l].size # 0 =>
                                sectHeader'[l].sh_offset # sectHeader'[k].sh_offset
  BY DEF LayoutKept, EndsBefore
<1>7. PICK m \in Live \ {i} : m = From(k)
  BY <1>4
<1>8. /\ siz(m) # 0 /\ off(m) \in Nat /\ siz(m) \in Nat
      /\ sectHeader'[k].sh_offset = moved(off(m)) /\ sectionContent'[k].size = siz(m)
  BY <1>3, <1>4, <1>6, <1>7
<1>9. /\ EhdrSize <= off(m) /\ off(m) + siz(m) <= e_shoff
      /\ \A n \in Live \ {m} : off(n) > off(m) => off(m) + siz(m) <= off(n)
      /\ \A n \in Live \ {m} : siz(n) # 0 => off(n) # off(m)
  BY <1>1, <1>8 DEF LayoutKept, EndsBefore
<1>10. /\ R > off(m) => off(m) + siz(m) <= R
       /\ S # 0 => R # off(m)
       /\ S # 0 => EhdrSize <= R
  <2>1. S # 0 => EhdrSize <= R
    BY <1>1, <1>2 DEF LayoutKept
  <2> QED
    BY <2>1, <1>2, <1>7, <1>9
<1>11. EhdrSize <= moved(off(m))
  <2>1. EhdrSize \in Nat
    BY SizesAssumption
  <2> QED
    BY <2>1, <1>2, <1>7, <1>8, <1>9, <1>10
<1>12. moved(off(m)) + siz(m) <= e_shoff'
  BY <1>2, <1>3, <1>7, <1>8, <1>9, <1>10
<1>13. ASSUME NEW l \in Live' \ {k}
       PROVE  /\ sectHeader'[l].sh_offset > moved(off(m)) =>
                   moved(off(m)) + siz(m) <= sectHeader'[l].sh_offset
              /\ sectionContent'[l].size # 0 => sectHeader'[l].sh_offset # moved(off(m))
  <2>1. PICK n \in Live \ {i} : n = From(l)
    BY <1>4
  <2>2. n # m /\ sectHeader'[l].sh_offset = moved(off(n)) /\ sectionContent'[l].size = siz(n)
    BY <1>4, <1>5, <1>7, <2>1
  <2>3. /\ off(n) \in Nat /\ siz(n) \in Nat
        /\ off(n) > off(m) => off(m) + siz(m) <= off(n)
        /\ siz(n) # 0 => off(n) # off(m)
        /\ siz(n) # 0 /\ off(m) > off(n) => off(n) + siz(n) <= off(m)
        /\ siz(n) # 0 /\ R > off(n) => off(n) + siz(n) <= R
        /\ off(n) > R => off(n) >= R + S
        /\ off(m) > R => off(m) >= R + S
        /\ siz(n) # 0 /\ S # 0 => R # off(n)
    <3>1. siz(n) # 0 => /\ \A j \in Live \ {n} : off(j) > off(n) => off(n) + siz(n) <= off(j)
                        /\ \A j \in Live \ {n} : siz(j) # 0 => off(j) # off(n)
      BY <1>1 DEF LayoutKept, EndsBefore
    <3> QED
      BY <3>1, <2>2, <1>2, <1>3, <1>7, <1>9
  <2>4. moved(off(n)) > moved(off(m)) => moved(off(m)) + siz(m) <= moved(off(n))
    BY <2>3, <1>2, <1>8, <1>10
  <2>5. siz(n) # 0 => moved(off(n)) # moved(off(m))
    BY <2>3, <1>2, <1>8, <1>10
  <2> QED
    BY <2>2, <2>4, <2>5
<1> QED
  BY <1>8, <1>11, <1>12, <1>13

\* An iteration that deletes keeps what makes the layout inductive.
LEMMA DeletionRest ==
  ASSUME IInv, DeleteSection
  PROVE  /\ sectHeader'[0].sh_type = "NULL"
         /\ sectHeader'[e_shstrndx'].sh_type # "REL"
         /\ \A k \in Live' : sectHeader'[k].sh_type = "REL" =>
              sectionContent'[k].size = sectHeader'[k].sh_size
<1>1. TypeOK
  BY DEF IInv
<1>2. /\ i \in Live /\ i >= 1 /\ e_shnum \in Nat /\ e_shnum >= 2
      /\ e_shstrndx \in Live \ {i}
      /\ Live = 0 .. e_shnum - 1 /\ Live' = 0 .. e_shnum - 2
  BY <1>1, DeletedTable, DeletionShifts DEF Live
<1>3. \A k \in Live : sectHeader[k] \in Elf32_Shdr
  <2>1. Live \subseteq Index(source)
    BY DEF IInv, TypeOK, ElfFile, ElfShape, Live, Index
  <2> QED
    BY <2>1, <1>1 DEF TypeOK
<1>4. ASSUME NEW k \in Live'
      PROVE  /\ From(k) \in Live
             /\ sectHeader'[k].sh_type = sectHeader[From(k)].sh_type
             /\ sectHeader'[k].sh_size = sectHeader[From(k)].sh_size
             /\ sectionContent'[k].size = sectionContent[From(k)].size
  BY <1>1, <1>2, <1>3, DeletionShifts, RenumberedFields
<1>5. sectHeader'[0].sh_type = "NULL"
  <2>1. 0 \in Live' /\ From(0) = 0
    BY <1>2 DEF From
  <2> QED
    BY <2>1, <1>4 DEF IInv
<1>6. sectHeader'[e_shstrndx'].sh_type # "REL"
  <2>1. e_shstrndx' \in Live' /\ From(e_shstrndx') = e_shstrndx
    BY <1>2 DEF DeleteSection, MovedStrndx, From
  <2> QED
    BY <2>1, <1>4 DEF IInv
<1>7. \A k \in Live' : sectHeader'[k].sh_type = "REL" =>
        sectionContent'[k].size = sectHeader'[k].sh_size
  BY <1>4 DEF IInv
<1> QED
  BY <1>5, <1>6, <1>7

\* Every step keeps the invariant.
LEMMA NextIInv == IInv /\ [Next]_vars => IInv'
<1> SUFFICES ASSUME IInv, [Next]_vars PROVE IInv'
  OBVIOUS
<1>1. ASSUME i' \in 0 .. e_shnum, UNCHANGED elfVars, pc' \in Stages
      PROVE  IInv'
  BY <1>1 DEF IInv, TypeOK, LayoutKept, EndsBefore, elfVars, header, Live, Index
<1>2. CASE SkipSection
  <2>1. e_shnum \in Nat /\ i \in Nat
    BY DEF IInv, TypeOK, ElfFile, ElfShape
  <2> QED
    BY <1>1, <1>2, <2>1 DEF SkipSection, IInv, TypeOK
<1>3. CASE DeleteSection
  BY <1>3, DeletionTypes, DeletionLayout, DeletionRest DEF IInv
<1>4. CASE AbortOnUninitialised
  BY <1>1, <1>4 DEF AbortOnUninitialised, IInv, TypeOK, Stages
<1>5. CASE EndDeleteRel
  BY <1>1, <1>5 DEF EndDeleteRel, IInv, TypeOK, Stages
<1>6. CASE UNCHANGED vars
  BY <1>1, <1>6 DEF vars, IInv, TypeOK
<1> QED
  BY <1>2, <1>3, <1>4, <1>5, <1>6 DEF Next

\* The program always holds a table of at least one section, with every number
\* in its range: e_shstrndx stays the index of a live section and no offset,
\* link or symbol index goes below zero (implantation.c:7-53).
THEOREM TypeCorrect == Spec => []TypeOK
<1>1. Spec => []IInv
  BY InitIInv, NextIInv, PTL DEF Spec
<1>2. IInv => TypeOK
  BY DEF IInv
<1> QED
  BY <1>1, <1>2, PTL

\* Whatever relocation tables the file has and wherever they lie, the sections
\* of the table deleteRel leaves, at any iteration, lie apart between the ELF
\* header and the section headers (implantation.c:15, 18-35).
THEOREM LayoutAlwaysKept == Spec => []LayoutKept
<1>1. Spec => []IInv
  BY InitIInv, NextIInv, PTL DEF Spec
<1>2. IInv => LayoutKept
  BY DEF IInv
<1> QED
  BY <1>1, <1>2, PTL
-----------------------------------------------------------------------------
(***************************************************************************)
(* deleteRel implements RelRemoval, for files whose symbols are all        *)
(* defined in sections that are kept.  The numbers that designate sections *)
(* must designate live ones that are not about to be deleted, and the      *)
(* names must tell the sections apart.                                     *)
(***************************************************************************)
Designators ==
  /\ \A k, l \in Live : sectHeader[k].sh_name = sectHeader[l].sh_name => k = l
  /\ \A k \in Live : sectHeader[k].sh_type \in LinkTypes =>
       /\ sectHeader[k].sh_link \in Live
       /\ sectHeader[sectHeader[k].sh_link].sh_type # "REL"
  /\ \A l \in DOMAIN symTable :
       /\ symTable[l].st_shndx \in Live
       /\ sectHeader[symTable[l].st_shndx].sh_type # "REL"

LEMMA InitDesignators ==
  ASSUME \A s \in Sources : OrdinarySymbols(s)
  PROVE  Init => Designators
<1> SUFFICES ASSUME Init PROVE Designators
  OBVIOUS
<1>1. ElfTables(source) /\ ElfShape(source) /\ OrdinarySymbols(source)
  BY SourcesAssumption DEF Init, ElfFile
<1>2. Live = Index(source) /\ sectHeader = source.sect /\ symTable = source.sym
      /\ DOMAIN symTable = 0 .. source.nsym - 1
  BY <1>1 DEF Init, Loaded, Live, Index, ElfShape
<1> QED
  BY <1>1, <1>2 DEF Designators, ElfTables, OrdinarySymbols

\* What a number becomes, and the slot it then comes from, when the number
\* designates a section that stays.
LEMMA LoweredIndex ==
  ASSUME IInv, DeleteSection, NEW n \in Live \ {i}
  PROVE  LET m == IF n > i THEN n - 1 ELSE n
         IN m \in Live' /\ From(m) = n /\ MovedShndx(n) = m /\ MovedStrndx(n) = m
<1>1. /\ i \in Live /\ e_shnum \in Nat
      /\ Live = 0 .. e_shnum - 1 /\ Live' = 0 .. e_shnum - 2
  BY DeletedTable, DeletionShifts DEF IInv, Live
<1> QED
  BY <1>1 DEF From, MovedShndx, MovedStrndx

\* The fields of the new headers, and the links of the tables.
LEMMA DeletedFields ==
  ASSUME IInv, DeleteSection, NEW k \in Live'
  PROVE  /\ From(k) \in Live \ {i}
         /\ sectHeader'[k].sh_name = sectHeader[From(k)].sh_name
         /\ sectHeader'[k].sh_type = sectHeader[From(k)].sh_type
         /\ sectHeader'[k].sh_size = sectHeader[From(k)].sh_size
         /\ sectHeader'[k].sh_type \in LinkTypes =>
              sectHeader'[k].sh_link = IF sectHeader[From(k)].sh_link > i
                                         THEN sectHeader[From(k)].sh_link - 1
                                         ELSE sectHeader[From(k)].sh_link
         /\ sectionContent'[k].size = sectionContent[From(k)].size
         /\ sectionContent'[k].from = sectionContent[From(k)].from
<1>1. TypeOK /\ i \in Live
  BY DeletedTable DEF IInv
<1>2. Live \subseteq Index(source)
  BY DEF IInv, TypeOK, ElfFile, ElfShape, Live, Index
<1>3. \A l \in Live : sectHeader[l] \in Elf32_Shdr
  BY <1>1, <1>2 DEF TypeOK
<1>4. From(k) \in Live \ {i} /\ sectHeader'[k] = Renumbered(sectHeader[From(k)])
      /\ sectionContent'[k].size = sectionContent[From(k)].size
      /\ sectionContent'[k].from = sectionContent[From(k)].from
  BY <1>1, DeletionShifts
<1> QED
  BY <1>1, <1>3, <1>4, RenumberedFields

LEMMA DeletionDesignators ==
  ASSUME IInv, Designators, DeleteSection
  PROVE  Designators'
<1>1. sectHeader[i].sh_type = "REL" /\ i \in Live
  BY DeletedTable DEF DeleteSection, AtRel
<1>2. \A k, l \in Live' : sectHeader'[k].sh_name = sectHeader'[l].sh_name => k = l
  <2>1. \A k, l \in Live' : From(k) = From(l) => k = l
    <3>1. i \in Nat /\ Live' \subseteq Int
      BY DeletionShifts DEF IInv, TypeOK, ElfFile, ElfShape
    <3> QED
      BY <3>1 DEF From
  <2> QED
    BY <2>1, DeletedFields DEF Designators
<1>3. ASSUME NEW k \in Live', sectHeader'[k].sh_type \in LinkTypes
      PROVE  /\ sectHeader'[k].sh_link \in Live'
             /\ sectHeader'[sectHeader'[k].sh_link].sh_type # "REL"
  <2> DEFINE n == sectHeader[From(k)].sh_link
  <2>1. n \in Live \ {i} /\ sectHeader[n].sh_type # "REL"
        /\ sectHeader'[k].sh_link = IF n > i THEN n - 1 ELSE n
    BY <1>1, <1>3, DeletedFields DEF Designators
  <2>2. sectHeader'[k].sh_link \in Live' /\ From(sectHeader'[k].sh_link) = n
    BY <2>1, LoweredIndex
  <2> QED
    BY <2>1, <2>2, DeletedFields
<1>4. ASSUME NEW l \in DOMAIN symTable'
      PROVE  /\ symTable'[l].st_shndx \in Live'
             /\ sectHeader'[symTable'[l].st_shndx].sh_type # "REL"
  <2> DEFINE n == symTable[l].st_shndx
  <2>1. l \in DOMAIN symTable /\ n \in Live \ {i} /\ sectHeader[n].sh_type # "REL"
    BY <1>1, <1>4 DEF Designators, DeleteSection
  <2>2. symTable'[l].st_shndx = MovedShndx(n)
    BY <2>1 DEF DeleteSection, IInv, TypeOK, Elf32_Sym
  <2>3. symTable'[l].st_shndx \in Live' /\ From(symTable'[l].st_shndx) = n
    BY <2>1, <2>2, LoweredIndex
  <2> QED
    BY <2>1, <2>3, DeletedFields
<1> QED
  BY <1>2, <1>3, <1>4 DEF Designators

\* An iteration that deletes is a step Remove of the abstract specification.
LEMMA DeletionRemoves ==
  ASSUME IInv, Designators, DeleteSection
  PROVE  Removal!Remove(NamedSection(i))
<1>1. sectHeader[i].sh_type = "REL" /\ i \in Live /\ e_shstrndx \in Live \ {i}
  BY DeletedTable DEF DeleteSection, AtRel
<1>2. ASSUME NEW k \in Live'
      PROVE  NamedSection(k)' = NamedSection(From(k))
  <2>1. /\ sectHeader'[k].sh_name = sectHeader[From(k)].sh_name
        /\ sectHeader'[k].sh_type = sectHeader[From(k)].sh_type
        /\ sectionContent'[k].size = sectionContent[From(k)].size
        /\ sectionContent'[k].from = sectionContent[From(k)].from
    BY DeletedFields
  <2>2. ASSUME sectHeader'[k].sh_type \in LinkTypes
        PROVE  sectHeader'[sectHeader'[k].sh_link].sh_name
                 = sectHeader[sectHeader[From(k)].sh_link].sh_name
    <3> DEFINE n == sectHeader[From(k)].sh_link
    <3>1. n \in Live \ {i} /\ sectHeader'[k].sh_link = IF n > i THEN n - 1 ELSE n
      BY <1>1, <2>2, DeletedFields DEF Designators
    <3>2. sectHeader'[k].sh_link \in Live' /\ From(sectHeader'[k].sh_link) = n
      BY <3>1, LoweredIndex
    <3> QED
      BY <3>2, DeletedFields
  <2> QED
    BY <2>1, <2>2 DEF NamedSection
<1>3. NamedSections' = NamedSections \ {NamedSection(i)}
  <2>1. \A k \in Live' : NamedSection(k)' \in NamedSections \ {NamedSection(i)}
    <3>1. \A m \in Live \ {i} : NamedSection(m) # NamedSection(i)
      BY <1>1 DEF Designators, NamedSection
    <3> QED
      BY <1>2, <3>1, DeletedFields DEF NamedSections
  <2>2. \A m \in Live \ {i} : \E k \in Live' : NamedSection(m) = NamedSection(k)'
    BY <1>2, LoweredIndex
  <2> QED
    BY <2>1, <2>2 DEF NamedSections
<1>4. NamedSymbols' = NamedSymbols
  <2>1. DOMAIN symTable' = DOMAIN symTable
    BY DEF DeleteSection
  <2>2. ASSUME NEW l \in DOMAIN symTable
        PROVE  /\ symTable[l].st_shndx \in Live /\ symTable'[l].st_shndx \in Live'
               /\ sectHeader'[symTable'[l].st_shndx].sh_name = sectHeader[symTable[l].st_shndx].sh_name
    <3> DEFINE n == symTable[l].st_shndx
    <3>1. n \in Live \ {i}
      BY <1>1 DEF Designators
    <3>2. symTable'[l].st_shndx = MovedShndx(n)
      BY DEF DeleteSection, IInv, TypeOK, Elf32_Sym
    <3>3. symTable'[l].st_shndx \in Live' /\ From(symTable'[l].st_shndx) = n
      BY <3>1, <3>2, LoweredIndex
    <3> QED
      BY <3>1, <3>3, DeletedFields
  <2> QED
    BY <2>1, <2>2 DEF NamedSymbols
<1>5. sectHeader'[e_shstrndx'].sh_name = sectHeader[e_shstrndx].sh_name
  <2>1. e_shstrndx' \in Live' /\ From(e_shstrndx') = e_shstrndx
    BY <1>1, LoweredIndex DEF DeleteSection
  <2> QED
    BY <2>1, DeletedFields
<1>6. NamedSection(i) \in NamedSections /\ NamedSection(i).type = "REL"
  BY <1>1 DEF NamedSections, NamedSection
<1> QED
  BY <1>3, <1>4, <1>5, <1>6 DEF Removal!Remove

\* deleteRel, on any file whose symbols are in sections that are kept, takes
\* relocation tables out one by one and changes nothing else: names, links,
\* bytes, symbols and the table of names (implantation.h:9).
THEOREM DeleteRelImplementsRemoval ==
  ASSUME \A s \in Sources : OrdinarySymbols(s)
  PROVE  Spec => ImplementsRemoval
<1>1. Init => IInv /\ Designators
  BY InitIInv, InitDesignators
<1>2. IInv /\ Designators /\ [Next]_vars => IInv' /\ Designators'
  <2> SUFFICES ASSUME IInv, Designators, [Next]_vars PROVE Designators'
    BY NextIInv
  <2>1. CASE DeleteSection
    BY <2>1, DeletionDesignators
  <2>2. CASE UNCHANGED elfVars
    BY <2>2 DEF elfVars, header, Designators, Live
  <2> QED
    BY <2>1, <2>2 DEF Next, SkipSection, AbortOnUninitialised, EndDeleteRel, vars
<1>3. Designators => Removal!Init
  BY DEF Designators, Removal!Init, NamedSections, NamedSection
<1>4. IInv /\ Designators /\ [Next]_vars => [Removal!Next]_(Removal!vars)
  <2> SUFFICES ASSUME IInv, Designators, [Next]_vars
               PROVE  [Removal!Next]_(Removal!vars)
    OBVIOUS
  <2>1. CASE DeleteSection
    <3>1. Removal!Remove(NamedSection(i)) /\ NamedSection(i) \in NamedSections
      BY <2>1, DeletionRemoves DEF Removal!Remove
    <3> QED
      BY <3>1 DEF Removal!Next
  <2>2. CASE UNCHANGED elfVars
    BY <2>2 DEF elfVars, header, Removal!vars, NamedSections, NamedSection, NamedSymbols, Live
  <2> QED
    BY <2>1, <2>2 DEF Next, SkipSection, AbortOnUninitialised, EndDeleteRel, vars
<1> QED
  BY <1>1, <1>2, <1>3, <1>4, PTL DEF Spec, ImplementsRemoval, Removal!Spec
-----------------------------------------------------------------------------
(***************************************************************************)
(* Where the sections come from, and their blocks.  Origin(k) is found by  *)
(* its name, which no step changes: each iteration must keep the rest of   *)
(* what Traced says of it.                                                 *)
(***************************************************************************)
Traced ==
  /\ \A k \in Live :
       /\ Origin(k) \in Index(source)
       /\ source.sect[Origin(k)].sh_type = sectHeader[k].sh_type
       /\ source.sect[Origin(k)].sh_size = sectHeader[k].sh_size
       /\ sectionContent[k].size = LoadedContent(source)[Origin(k)].size
       /\ sectionContent[k].from = LoadedContent(source)[Origin(k)].from
  /\ \A k, l \in Live : k < l => Origin(k) < Origin(l)
  /\ \A m \in Deleted : source.sect[m].sh_type = "REL"

\* The sections the loop has passed are not relocation tables.
Passed ==
  /\ \A k \in Live : k < i => sectHeader[k].sh_type # "REL"
  /\ pc = "write" => i = e_shnum

\* The names of a file tell its sections apart.
LEMMA OriginUnique ==
  ASSUME ElfFile(source), NEW k, NEW m \in Index(source),
         source.sect[m].sh_name = sectHeader[k].sh_name
  PROVE  Origin(k) = m
<1>1. \A n \in Index(source) : source.sect[n].sh_name = sectHeader[k].sh_name => n = m
  BY DEF ElfFile, ElfTables
<1> QED
  BY <1>1 DEF Origin

LEMMA LoadedTraced ==
  ASSUME source \in Sources, Loaded
  PROVE  Traced /\ \A k \in Live : Origin(k) = k
<1>1. ElfFile(source) /\ Live = Index(source) /\ Index(source) \subseteq Nat
  BY SourcesAssumption DEF Loaded, Live, Index
<1>2. sectHeader = source.sect /\ sectionContent = LoadedContent(source)
  BY DEF Loaded
<1>3. \A k \in Live : Origin(k) = k
  BY <1>1, <1>2, OriginUnique
<1>4. Deleted = {}
  BY <1>1, <1>3 DEF Deleted
<1> QED
  BY <1>1, <1>2, <1>3, <1>4 DEF Traced

\* A step that changes no header changes no origin.
LEMMA SameOrigins ==
  ASSUME UNCHANGED elfVars
  PROVE  /\ \A k \in Live : Origin(k)' = Origin(k)
         /\ Deleted' = Deleted /\ Live' = Live
BY DEF elfVars, header, Origin, Deleted, Live

\* An iteration that deletes: the sections keep their origins and their order,
\* and that of the table is the one that is gone.
LEMMA DeletionOrigins ==
  ASSUME IInv, DeleteSection, NEW k \in Live'
  PROVE  Origin(k)' = Origin(From(k))
BY DeletedFields DEF Origin, Index, DeleteSection

LEMMA DeletionTraced ==
  ASSUME IInv, Traced, DeleteSection
  PROVE  Traced'
<1>1. /\ sectHeader[i].sh_type = "REL" /\ i \in Live
      /\ source' = source /\ i \in Nat /\ Live' \subseteq Int
  BY DeletedTable, DeletionShifts
     DEF DeleteSection, AtRel, IInv, TypeOK, ElfFile, ElfShape
<1>2. ASSUME NEW k \in Live'
      PROVE  /\ From(k) \in Live \ {i}
             /\ Origin(k)' = Origin(From(k))
             /\ sectHeader'[k].sh_type = sectHeader[From(k)].sh_type
             /\ sectHeader'[k].sh_size = sectHeader[From(k)].sh_size
             /\ sectionContent'[k].size = sectionContent[From(k)].size
             /\ sectionContent'[k].from = sectionContent[From(k)].from
  BY DeletedFields, DeletionOrigins
<1>3. \A k, l \in Live' : k < l => From(k) < From(l)
  BY <1>1 DEF From
<1>4. ASSUME NEW m \in Deleted'
      PROVE  source.sect[m].sh_type = "REL"
  <2>1. m \in Index(source) /\ \A k \in Live' : Origin(From(k)) # m
    BY <1>1, <1>2, <1>4 DEF Deleted, Index
  <2>2. \A n \in Live \ {i} : Origin(n) # m
    BY <2>1, LoweredIndex
  <2>3. m \in Deleted \/ m = Origin(i)
    BY <2>1, <2>2 DEF Deleted
  <2> QED
    BY <1>1, <2>3 DEF Traced
<1>5. ASSUME NEW k \in Live'
      PROVE  /\ Origin(k)' \in Index(source)
             /\ source.sect[Origin(k)'].sh_type = sectHeader'[k].sh_type
             /\ source.sect[Origin(k)'].sh_size = sectHeader'[k].sh_size
             /\ sectionContent'[k].size = LoadedContent(source)[Origin(k)'].size
             /\ sectionContent'[k].from = LoadedContent(source)[Origin(k)'].from
  BY <1>2 DEF Traced
<1>6. ASSUME NEW k \in Live', NEW l \in Live', k < l
      PROVE  Origin(k)' < Origin(l)'
  BY <1>2, <1>3, <1>6 DEF Traced
<1>7. Index(source)' = Index(source) /\ LoadedContent(source)' = LoadedContent(source)
  BY <1>1 DEF Index, LoadedContent
<1> QED
  BY <1>1, <1>4, <1>5, <1>6, <1>7 DEF Traced

LEMMA NextTraced == IInv /\ Traced /\ [Next]_vars => Traced'
<1> SUFFICES ASSUME IInv, Traced, [Next]_vars PROVE Traced'
  OBVIOUS
<1>1. CASE DeleteSection
  BY <1>1, DeletionTraced
<1>2. CASE UNCHANGED elfVars
  BY <1>2, SameOrigins DEF Traced, elfVars, header, Index
<1> QED
  BY <1>1, <1>2 DEF Next, SkipSection, AbortOnUninitialised, EndDeleteRel, vars

LEMMA NextPassed == IInv /\ Passed /\ [Next]_vars => Passed'
<1> SUFFICES ASSUME IInv, Passed, [Next]_vars PROVE Passed'
  OBVIOUS
<1>1. e_shnum \in Nat /\ i \in 0 .. e_shnum /\ Live = 0 .. e_shnum - 1
  BY DEF IInv, TypeOK, ElfFile, ElfShape, Live
<1>2. CASE SkipSection
  <2>1. UNCHANGED elfVars /\ i' = i + 1 /\ pc' = "deleteRel" /\ sectHeader[i].sh_type # "REL"
    BY <1>2 DEF SkipSection
  <2>2. \A k \in Live : k < i + 1 => k < i \/ k = i
    BY <1>1
  <2> QED
    BY <2>1, <2>2, SameOrigins DEF Passed, elfVars
<1>3. CASE DeleteSection
  <2>1. i' = i /\ pc' = "deleteRel" /\ i \in Nat
    BY <1>1, <1>3 DEF DeleteSection, AtRel
  <2>2. ASSUME NEW k \in Live', k < i
        PROVE  sectHeader'[k].sh_type # "REL"
    <3>1. From(k) = k
      BY <2>2 DEF From
    <3> QED
      BY <1>3, <2>2, <3>1, DeletedFields DEF Passed
  <2> QED
    BY <2>1, <2>2 DEF Passed
<1>4. CASE AbortOnUninitialised
  <2>1. UNCHANGED elfVars /\ i' = i /\ pc' = "abort"
    BY <1>4 DEF AbortOnUninitialised
  <2> QED
    BY <2>1, SameOrigins DEF Passed, elfVars
<1>5. CASE EndDeleteRel
  <2>1. UNCHANGED elfVars /\ i' = i /\ pc' = "write" /\ i >= e_shnum
    BY <1>5 DEF EndDeleteRel
  <2>2. i = e_shnum
    BY <1>1, <2>1
  <2> QED
    BY <2>1, <2>2, SameOrigins DEF Passed, elfVars, header
<1>6. CASE UNCHANGED vars
  <2>1. UNCHANGED elfVars /\ i' = i /\ pc' = pc
    BY <1>6 DEF vars
  <2> QED
    BY <2>1, SameOrigins DEF Passed, elfVars, header
<1> QED
  BY <1>2, <1>3, <1>4, <1>5, <1>6 DEF Next

LEMMA TracedAlways == Spec => [](IInv /\ Traced /\ Passed)
<1>1. Init => IInv /\ Traced /\ Passed
  <2> SUFFICES ASSUME Init PROVE IInv /\ Traced /\ Passed
    OBVIOUS
  <2>1. IInv /\ Traced
    BY InitIInv, LoadedTraced DEF Init
  <2>2. i = 0 /\ pc = "deleteRel" /\ e_shnum \in Nat
    BY <2>1 DEF Init, IInv, TypeOK, ElfFile, ElfShape
  <2> QED
    BY <2>1, <2>2 DEF Passed, Live
<1>2. IInv /\ Traced /\ Passed /\ [Next]_vars => IInv' /\ Traced' /\ Passed'
  BY NextIInv, NextTraced, NextPassed
<1> QED
  BY <1>1, <1>2, PTL DEF Spec

\* The two loops that shift the headers and the contents never part a header
\* from its bytes, whatever the number of sections (implantation.c:19-27).
THEOREM ContentsFollow == Spec => []ContentFollowsHeader
<1>1. Traced => ContentFollowsHeader
  BY DEF Traced, ContentFollowsHeader
<1> QED
  BY <1>1, TracedAlways, PTL

\* When the loop ends no relocation table is left and nothing else is gone,
\* wherever the tables were, and the others have kept their order
\* (implantation.c:7-9, 49-51).
THEOREM RemovesExactlyRel == Spec => []DeletesExactlyRel
<1>1. IInv /\ Traced /\ Passed => DeletesExactlyRel
  <2> SUFFICES ASSUME IInv, Traced, Passed, pc = "write" PROVE DeletesExactlyRel
    BY DEF DeletesExactlyRel
  <2>1. \A k \in Live : sectHeader[k].sh_type # "REL"
    <3>1. i = e_shnum /\ e_shnum \in Nat
      BY DEF Passed, IInv, TypeOK, ElfFile, ElfShape
    <3> QED
      BY <3>1 DEF Passed, Live
  <2>2. \A m \in Index(source) : source.sect[m].sh_type = "REL" => m \in Deleted
    BY <2>1 DEF Traced, Deleted
  <2>3. Deleted \subseteq Index(source)
    BY DEF Deleted
  <2> QED
    BY <2>2, <2>3 DEF Traced, DeletesExactlyRel
<1> QED
  BY <1>1, TracedAlways, PTL

LEMMA LoadedOwned ==
  ASSUME source \in Sources, Loaded
  PROVE  ContentOwned
<1>1. Live = Index(source) /\ sectionContent = LoadedContent(source) /\ ElfFile(source)
  BY SourcesAssumption DEF Loaded, Live, Index
<1>2. \A k \in Live : sectionContent[k].size # 0 => Filled(source, k)
  BY <1>1, LoadedSizeFits DEF LoadedContent
<1> QED
  BY <1>1, <1>2 DEF ContentOwned, LoadedContent

LEMMA DeletionOwned ==
  ASSUME TypeOK, ContentOwned, DeleteSection
  PROVE  ContentOwned'
<1>1. /\ e_shnum \in Nat /\ e_shnum <= source.e_shnum /\ source.e_shnum \in Nat
      /\ i \in Nat /\ i < e_shnum /\ e_shnum' = e_shnum - 1 /\ source' = source
      /\ Index(source)' = Index(source) /\ Index(source) = 0 .. source.e_shnum - 1
      /\ Live = 0 .. e_shnum - 1 /\ Live' = 0 .. e_shnum - 2
      /\ sectionContent \in [Index(source) -> SectionContent]
  BY DeletionShifts DEF TypeOK, DeleteSection, AtRel, ElfFile, ElfShape, Index, Live
<1>2. \A k \in Index(source) : sectionContent'[k] = ShiftedContent(k)
  BY <1>1 DEF DeleteSection
<1>3. ASSUME NEW k \in Live'
      PROVE  /\ sectionContent'[k].ptr # "freed"
             /\ sectionContent'[k].size # 0 => sectionContent'[k].ptr = "heap"
  <2>1. k \in Index(source) /\ k \in Live /\ sectionContent'[k] = ShiftedContent(k)
    BY <1>1, <1>2
  <2>2. CASE i <= k
    <3>1. /\ ShiftedContent(k).size = sectionContent[k + 1].size
          /\ ShiftedContent(k).ptr = ReallocPtr(sectionContent[k].ptr, sectionContent[k + 1].size)
      BY <1>1, <2>2 DEF ShiftedContent
    <3> QED
      BY <2>1, <3>1 DEF ReallocPtr
  <2>3. CASE ~ (i <= k)
    <3>1. ShiftedContent(k) = sectionContent[k]
      BY <1>1, <2>3 DEF ShiftedContent
    <3> QED
      BY <2>1, <3>1 DEF ContentOwned
  <2> QED
    BY <2>2, <2>3
<1>4. ASSUME NEW k \in Index(source) \ Live'
      PROVE  sectionContent'[k].ptr = "freed"
  <2>1. k >= e_shnum - 1 /\ k \in Int /\ sectionContent[k] \in SectionContent
    BY <1>1
  <2>2. CASE k = e_shnum - 1
    <3>1. ShiftedContent(k) = [sectionContent[k] EXCEPT !.ptr = "freed"]
      BY <1>1, <2>1, <2>2 DEF ShiftedContent
    <3>2. sectionContent'[k] = ShiftedContent(k)
      BY <1>2
    <3> QED
      BY <2>1, <3>1, <3>2 DEF SectionContent
  <2>3. CASE k # e_shnum - 1
    <3>1. k \in Index(source) \ Live /\ ShiftedContent(k) = sectionContent[k]
      BY <1>1, <2>1, <2>3 DEF ShiftedContent
    <3> QED
      BY <1>2, <3>1 DEF ContentOwned
  <2> QED
    BY <2>2, <2>3
<1> QED
  BY <1>1, <1>3, <1>4 DEF ContentOwned

LEMMA NextOwned == IInv /\ ContentOwned /\ [Next]_vars => ContentOwned'
<1> SUFFICES ASSUME IInv, ContentOwned, [Next]_vars PROVE ContentOwned'
  OBVIOUS
<1>1. CASE DeleteSection
  BY <1>1, DeletionOwned DEF IInv
<1>2. CASE UNCHANGED elfVars
  BY <1>2 DEF elfVars, header, ContentOwned, Live, Index
<1> QED
  BY <1>1, <1>2 DEF Next, SkipSection, AbortOnUninitialised, EndDeleteRel, vars

\* Where the arrays are shifted no block is lost, none is released twice and
\* none is used after it was, when a pointer that was not written is NULL
\* (implantation.c:22-29, ARM_runner.c:163-165).
THEOREM BlocksOwned == Spec => []ContentOwned
<1>1. Init => IInv /\ ContentOwned
  BY InitIInv, LoadedOwned DEF Init
<1>2. IInv /\ ContentOwned /\ [Next]_vars => IInv' /\ ContentOwned'
  BY NextIInv, NextOwned
<1> QED
  BY <1>1, <1>2, PTL DEF Spec
-----------------------------------------------------------------------------
(***************************************************************************)
(* How far the sections have moved.  A section is lowered when it lies     *)
(* after the deleted table in memory, and OffsetsExact counts the tables   *)
(* that were before it in the file: the two orders must agree about the    *)
(* tables that have bytes.                                                 *)
(***************************************************************************)
Sizes(sect, T) == MapThenSumSet(LAMBDA m : sect[m].sh_size, T)

\* The sum of sizes is the sum of FoldLemmas.
LEMMA SizesSum ==
  ASSUME NEW S, IsFiniteSet(S), NEW sect, NEW T \in SUBSET S
  PROVE  Sizes(sect, T) = SumOf([m \in S |-> sect[m].sh_size], T)
<1> DEFINE g == [m \in S |-> sect[m].sh_size]
           Sizing(h) == h = [s \in SUBSET T |-> IF s = {} THEN 0
                               ELSE sect[CHOOSE x \in s : TRUE].sh_size + h[s \ {CHOOSE x \in s : TRUE}]]
           k == CHOOSE h : Sizing(h)
<1>1. ASSUME NEW h PROVE Sizing(h) <=> IsSum(g, T, h)
  <2>1. ASSUME NEW s \in SUBSET T, s # {}
        PROVE g[CHOOSE x \in s : TRUE] = sect[CHOOSE x \in s : TRUE].sh_size
    BY <2>1
  <2> HIDE DEF g
  <2> QED
    BY <2>1 DEF IsSum, SumStep
<1>2. IsFiniteSet(T)
  BY FS_Subset
<1>3. Sizes(sect, T) = k[T]
  BY Zenon DEF Sizes, MapThenSumSet, MapThenFoldSet
<1>4. IsSum(g, T, k)
  <2> HIDE DEF Sizing, g
  <2> QED
    BY <1>1, <1>2, SumExists
<1> HIDE DEF k, g
<1> QED
  BY <1>2, <1>3, <1>4, SumIs DEF g

\* The bytes of the relocation tables are added one table at a time.
LEMMA SizesAdd ==
  ASSUME NEW s, ElfShape(s), NEW T \in SUBSET Index(s), NEW m \in Index(s) \ T
  PROVE  /\ Sizes(s.sect, {}) = 0
         /\ Sizes(s.sect, T) \in Int
         /\ Sizes(s.sect, T \cup {m}) = s.sect[m].sh_size + Sizes(s.sect, T)
<1> DEFINE g == [n \in Index(s) |-> s.sect[n].sh_size]
<1>1. IsFiniteSet(Index(s))
  <2>1. 0 \in Int /\ s.e_shnum - 1 \in Int
    BY DEF ElfShape
  <2> QED
    BY <2>1, FS_Interval DEF Index
<1>2. g \in [Index(s) -> Int]
  BY DEF ElfShape, Elf32_Shdr
<1>3. T \cup {m} \in SUBSET Index(s) /\ (T \cup {m}) \ {m} = T /\ g[m] = s.sect[m].sh_size
  OBVIOUS
<1>4. \A U \in SUBSET Index(s) : Sizes(s.sect, U) = SumOf(g, U)
  BY <1>1, SizesSum
<1> HIDE DEF g
<1> QED
  BY <1>1, <1>2, <1>3, <1>4, SumFacts

Earlier(D, p) == {m \in D : source.sect[m].sh_offset < p}

Moved ==
  /\ \A k \in Live :
       sectHeader[k].sh_offset = source.sect[Origin(k)].sh_offset
                                   - Sizes(source.sect, Earlier(Deleted, source.sect[Origin(k)].sh_offset))
  /\ e_shoff = source.e_shoff - Sizes(source.sect, Deleted)
  /\ \A k, l \in Live : sectHeader[k].sh_type = "REL" /\ sectHeader[k].sh_size # 0 =>
       (source.sect[Origin(k)].sh_offset < source.sect[Origin(l)].sh_offset
          <=> sectHeader[k].sh_offset < sectHeader[l].sh_offset)

LEMMA LoadedMoved ==
  ASSUME source \in Sources, Loaded
  PROVE  Moved
<1>1. ElfShape(source) /\ Live = Index(source) /\ 0 \in Index(source)
  BY SourcesAssumption DEF Loaded, Live, Index, ElfFile, ElfShape
<1>2. sectHeader = source.sect /\ e_shoff = source.e_shoff /\ \A k \in Live : Origin(k) = k
  BY LoadedTraced DEF Loaded
<1>3. Deleted = {} /\ \A p : Earlier(Deleted, p) = {}
  BY <1>1, <1>2 DEF Deleted, Earlier
<1>4. Sizes(source.sect, {}) = 0
  BY <1>1, SizesAdd
<1>5. source.e_shoff \in Nat /\ \A k \in Live : source.sect[k].sh_offset \in Nat
  BY <1>1 DEF ElfShape, Elf32_Shdr
<1>6. ASSUME NEW k \in Live
      PROVE  sectHeader[k].sh_offset = source.sect[Origin(k)].sh_offset
                                         - Sizes(source.sect, Earlier(Deleted, source.sect[Origin(k)].sh_offset))
  <2>1. Origin(k) = k /\ Earlier(Deleted, source.sect[k].sh_offset) = {}
    BY <1>2, <1>3, Zenon
  <2>2. sectHeader[k].sh_offset = source.sect[k].sh_offset - 0
    BY <1>2, <1>5
  <2> QED
    BY <1>4, <2>1, <2>2, Zenon
<1>7. e_shoff = source.e_shoff - Sizes(source.sect, Deleted)
  <2>1. e_shoff = source.e_shoff - 0
    BY <1>2, <1>5
  <2> QED
    BY <1>3, <1>4, <2>1, Zenon
<1>8. \A k \in Live : source.sect[Origin(k)].sh_offset = sectHeader[k].sh_offset
  BY <1>2, Zenon
<1> QED
  BY <1>6, <1>7, <1>8, Zenon DEF Moved

\* The table that goes is one more of the deleted.
LEMMA DeletionDeleted ==
  ASSUME IInv, Traced, DeleteSection
  PROVE  /\ Origin(i) \in Index(source) \ Deleted
         /\ Deleted' = Deleted \cup {Origin(i)}
<1>1. i \in Live /\ source' = source /\ Index(source)' = Index(source)
  BY DeletedTable DEF DeleteSection, Index
<1>2. \A k \in Live' : From(k) \in Live \ {i} /\ Origin(k)' = Origin(From(k))
  BY DeletedFields, DeletionOrigins
<1>3. \A n \in Live \ {i} : \E k \in Live' : From(k) = n
  BY LoweredIndex
<1>4. ASSUME NEW n \in Live \ {i} PROVE Origin(n) # Origin(i)
  <2>1. n \in Int /\ i \in Int /\ (n < i \/ i < n)
    BY <1>1 DEF Live, IInv, TypeOK, ElfFile, ElfShape
  <2>2. Origin(n) \in Int /\ Origin(i) \in Int
    BY <1>1 DEF Traced, Index
  <2> QED
    BY <2>1, <2>2, <1>1 DEF Traced
<1>5. Origin(i) \in Index(source) \ Deleted
  BY <1>1 DEF Traced, Deleted
<1>6. \A m \in Index(source) : m \in Deleted' <=> \A n \in Live \ {i} : Origin(n) # m
  BY <1>1, <1>2, <1>3 DEF Deleted
<1>7. \A m \in Index(source) : m \in Deleted <=> \A n \in Live : Origin(n) # m
  BY DEF Deleted
<1>8. Deleted \subseteq Index(source) /\ Deleted' \subseteq Index(source)
  BY <1>1 DEF Deleted
<1> QED
  BY <1>1, <1>4, <1>5, <1>6, <1>7, <1>8

\* An iteration that deletes: the bytes of the table are added to the sums of
\* the sections after it in the file, and taken from their offsets.
LEMMA DeletionMoved ==
  ASSUME IInv, Traced, Moved, DeleteSection
  PROVE  Moved'
<1> DEFINE o == Origin(i)
           R == sectHeader[i].sh_offset
           S == sectHeader[i].sh_size
           off(m) == source.sect[m].sh_offset
<1>1. /\ i \in Live /\ source' = source /\ Index(source)' = Index(source)
      /\ e_shoff' = e_shoff - S /\ R \in Nat /\ S \in Nat
      /\ sectHeader[i].sh_type = "REL"
      /\ \A k \in Live : sectHeader[k].sh_offset > R => sectHeader[k].sh_offset >= R + S
  BY DeletedTable DEF DeleteSection, AtRel, Index
<1>2. /\ ElfShape(source) /\ source.e_shoff \in Nat /\ e_shoff \in Nat
      /\ \A m \in Index(source) : off(m) \in Nat /\ source.sect[m].sh_size \in Nat
  BY DEF IInv, TypeOK, ElfFile, ElfShape, Elf32_Shdr
<1>3. o \in Index(source) \ Deleted /\ Deleted' = Deleted \cup {o} /\ Deleted \in SUBSET Index(source)
  BY DeletionDeleted DEF Deleted
<1>4. source.sect[o].sh_size = S
  BY <1>1 DEF Traced
<1>5. ASSUME NEW k \in Live'
      PROVE  /\ From(k) \in Live \ {i}
             /\ Origin(k)' = Origin(From(k))
             /\ Origin(k)' \in Index(source)
             /\ sectHeader'[k].sh_type = sectHeader[From(k)].sh_type
             /\ sectHeader'[k].sh_size = sectHeader[From(k)].sh_size
             /\ sectHeader[From(k)].sh_offset \in Nat
             /\ sectHeader'[k].sh_offset = IF sectHeader[From(k)].sh_offset > R
                                             THEN sectHeader[From(k)].sh_offset - S
                                             ELSE sectHeader[From(k)].sh_offset
  <2>1. Live \subseteq Index(source) /\ TypeOK
    BY DEF IInv, TypeOK, ElfFile, ElfShape, Live, Index
  <2>2. \A l \in Live : sectHeader[l] \in Elf32_Shdr
    BY <2>1 DEF TypeOK
  <2>3. From(k) \in Live \ {i} /\ sectHeader'[k] = Renumbered(sectHeader[From(k)])
    BY <2>1, DeletionShifts
  <2>4. sectHeader[From(k)].sh_offset \in Nat
    BY <2>2, <2>3 DEF Elf32_Shdr
  <2>5. Origin(k)' = Origin(From(k)) /\ Origin(From(k)) \in Index(source)
    BY <2>3, DeletionOrigins DEF Traced
  <2> QED
    BY <1>1, <2>2, <2>3, <2>4, <2>5, RenumberedFields
<1>6. e_shoff' = source.e_shoff - Sizes(source.sect, Deleted')
  <2>1. /\ Sizes(source.sect, Deleted') = S + Sizes(source.sect, Deleted)
        /\ Sizes(source.sect, Deleted) \in Int
    BY <1>2, <1>3, <1>4, SizesAdd
  <2>2. e_shoff = source.e_shoff - Sizes(source.sect, Deleted)
    BY DEF Moved
  <2> HIDE DEF S
  <2> QED
    BY <1>1, <1>2, <2>1, <2>2
<1>7. ASSUME NEW k \in Live'
      PROVE  sectHeader'[k].sh_offset = off(Origin(k)') - Sizes(source.sect, Earlier(Deleted', off(Origin(k)')))
  <2> DEFINE n == From(k)
             p == off(Origin(k)')
             q == sectHeader[n].sh_offset
  <2>1. n \in Live \ {i} /\ p = off(Origin(n)) /\ p \in Nat /\ q \in Nat
    BY <1>2, <1>5, <1>7
  <2>2. q = p - Sizes(source.sect, Earlier(Deleted, p))
    BY <2>1 DEF Moved
  <2>3. sectHeader'[k].sh_offset = IF q > R THEN q - S ELSE q
    BY <1>5, <1>7
  <2>4. Earlier(Deleted', p) = IF off(o) < p THEN Earlier(Deleted, p) \cup {o} ELSE Earlier(Deleted, p)
    BY <1>1, <1>3 DEF Earlier
  <2>5. /\ Earlier(Deleted, p) \in SUBSET Index(source) /\ o \in Index(source) \ Earlier(Deleted, p)
    BY <1>3 DEF Earlier
  <2>6. /\ Sizes(source.sect, Earlier(Deleted, p) \cup {o}) = S + Sizes(source.sect, Earlier(Deleted, p))
        /\ Sizes(source.sect, Earlier(Deleted, p)) \in Int
    BY <1>2, <1>4, <2>5, SizesAdd
  <2>7. S # 0 => (off(o) < p <=> q > R)
    BY <1>1, <2>1 DEF Moved
  <2> HIDE DEF n, p, q, o, R, S, off
  <2>8. q - (IF q > R THEN S ELSE 0) = p - Sizes(source.sect, Earlier(Deleted', p))
    <3>1. CASE S = 0
      BY <2>1, <2>2, <2>4, <2>6, <3>1
    <3>2. CASE S # 0
      BY <2>1, <2>2, <2>4, <2>6, <2>7, <3>2, <1>1
    <3> QED
      BY <3>1, <3>2
  <2>9. sectHeader'[k].sh_offset = p - Sizes(source.sect, Earlier(Deleted', p))
    BY <2>1, <2>3, <2>8
  <2> QED
    BY <2>9 DEF p
<1>8. ASSUME NEW k \in Live', NEW l \in Live', sectHeader'[k].sh_type = "REL", sectHeader'[k].sh_size # 0
      PROVE  off(Origin(k)') < off(Origin(l)') <=> sectHeader'[k].sh_offset < sectHeader'[l].sh_offset
  <2> DEFINE m == From(k)
             n == From(l)
             q == sectHeader[m].sh_offset
             r == sectHeader[n].sh_offset
  <2>1. /\ m \in Live \ {i} /\ n \in Live \ {i} /\ q \in Nat /\ r \in Nat
        /\ sectHeader[m].sh_type = "REL" /\ sectHeader[m].sh_size # 0
        /\ Origin(k)' = Origin(m) /\ Origin(l)' = Origin(n)
        /\ sectHeader'[k].sh_offset = IF q > R THEN q - S ELSE q
        /\ sectHeader'[l].sh_offset = IF r > R THEN r - S ELSE r
    BY <1>5, <1>8
  <2>2. off(Origin(m)) < off(Origin(n)) <=> q < r
    BY <2>1 DEF Moved
  <2>3. S # 0 => q # R
    <3>1. sectionContent[i].size = S /\ sectionContent[m].size = sectHeader[m].sh_size
      BY <1>1, <2>1 DEF IInv
    <3> QED
      BY <1>1, <2>1, <3>1 DEF IInv, LayoutKept
  <2>4. (q > R => q >= R + S) /\ (r > R => r >= R + S)
    BY <1>1, <2>1
  <2> HIDE DEF m, n, q, r, R, S
  <2>5. q < r <=> (IF q > R THEN q - S ELSE q) < (IF r > R THEN r - S ELSE r)
    BY <2>1, <2>3, <2>4, <1>1
  <2> QED
    BY <2>1, <2>2, <2>5
<1>9. \A p : Earlier(Deleted, p)' = Earlier(Deleted', p)
  BY <1>1 DEF Earlier
<1> HIDE DEF o, R, S
<1> QED
  BY <1>1, <1>6, <1>7, <1>8, <1>9 DEF Moved, Earlier

LEMMA NextMoved == IInv /\ Traced /\ Moved /\ [Next]_vars => Moved'
<1> SUFFICES ASSUME IInv, Traced, Moved, [Next]_vars PROVE Moved'
  OBVIOUS
<1>1. CASE DeleteSection
  BY <1>1, DeletionMoved
<1>2. CASE UNCHANGED elfVars
  BY <1>2, SameOrigins DEF Moved, Earlier, elfVars, header
<1> QED
  BY <1>1, <1>2 DEF Next, SkipSection, AbortOnUninitialised, EndDeleteRel, vars

\* Each section has moved by the bytes of the tables that were before it in the
\* file, and by no other, whatever the numbers of the sections and the order of
\* the deletions (implantation.c:15, 33-35).
THEOREM MovedByDeleted == Spec => []OffsetsExact
<1>1. Init => IInv /\ Traced /\ Moved
  BY InitIInv, LoadedTraced, LoadedMoved DEF Init
<1>2. IInv /\ Traced /\ Moved /\ [Next]_vars => IInv' /\ Traced' /\ Moved'
  BY NextIInv, NextTraced, NextMoved
<1>3. Moved => OffsetsExact
  BY DEF Moved, OffsetsExact, Earlier, Sizes
<1> QED
  BY <1>1, <1>2, <1>3, PTL DEF Spec
=============================================================================
