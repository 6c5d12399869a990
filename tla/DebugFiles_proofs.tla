-------------------------- MODULE DebugFiles_proofs --------------------------
(***************************************************************************)
(* The search of DebugFiles is right for every set of names and every size *)
(* of the table.                                                           *)
(***************************************************************************)
EXTENDS DebugFiles, TLAPS

\* Until a write leaves the table, the names in use fit in it.
WithinTable == pc # "undefined" => nb_debugged_files <= MAX_FILES_NUMBER

\* The search never goes past the last name.
SearchBounds == pc = "search" => to < nb_debugged_files

IInv == TypeOK /\ WithinTable /\ SearchBounds /\ Sorted /\ NeverLeftOut

LEMMA InitIInv == Init => IInv
<1> SUFFICES ASSUME Init PROVE IInv
  OBVIOUS
<1>1. debugged_files \in [Slots -> Int]
  BY DEF Init
<1>2. TypeOK
  <2>1. nb_debugged_files \in 0 .. MAX_FILES_NUMBER + 1
    BY MaxAssumption DEF Init
  <2>2. added \subseteq Names /\ pc \in {"idle", "search", "undefined"} /\ name \in Names
    BY DEF Init
  <2>3. result \in BOOLEAN
    BY DEF Init
  <2>4. from \in Nat /\ to \in Int
    BY DEF Init
  <2> QED
    BY <1>1, <2>1, <2>2, <2>3, <2>4 DEF TypeOK
<1>3. WithinTable /\ SearchBounds /\ NeverLeftOut
  BY MaxAssumption DEF Init, WithinTable, SearchBounds, NeverLeftOut
<1>4. Sorted
  BY DEF Init, Sorted, Used
<1> QED
  BY <1>2, <1>3, <1>4 DEF IInv

\* Inserting a name at its place leaves the table sorted.
LEMMA InsertedSorted ==
  ASSUME IInv, pc = "idle", NEW n \in Names, NEW i \in 0 .. nb_debugged_files,
         Place(n, i), nb_debugged_files < MAX_FILES_NUMBER
  PROVE  /\ Inserted(n, i) \in [Slots -> Int]
         /\ \A j, k \in 0 .. nb_debugged_files :
              j <= k => Inserted(n, i)[j] <= Inserted(n, i)[k]
<1> DEFINE T == Inserted(n, i)
<1>0. /\ nb_debugged_files \in Nat /\ MAX_FILES_NUMBER \in Nat
      /\ debugged_files \in [Slots -> Int] /\ n \in Int /\ i \in Int
  BY NamesAssumption, MaxAssumption DEF IInv, TypeOK
<1>1. \A j, k \in 0 .. nb_debugged_files - 1 : j <= k => debugged_files[j] <= debugged_files[k]
  BY DEF IInv, Sorted, Used
<1>2. /\ \A j \in 0 .. i - 1 : debugged_files[j] < n
      /\ i < nb_debugged_files => debugged_files[i] >= n
  BY DEF Place
<1>3. \A j \in i .. nb_debugged_files - 1 : debugged_files[j] >= n
  BY <1>0, <1>1, <1>2 DEF Slots
<1>4. \A k \in 0 .. nb_debugged_files :
        T[k] = IF k = i THEN n ELSE IF i < k THEN debugged_files[k - 1] ELSE debugged_files[k]
  BY <1>0 DEF Inserted, Slots
<1>5. T \in [Slots -> Int]
  BY <1>0 DEF Inserted, Slots
<1>6. ASSUME NEW j \in 0 .. nb_debugged_files, NEW k \in 0 .. nb_debugged_files, j <= k
      PROVE  T[j] <= T[k]
  <2> HIDE DEF T
  <2>0. j \in Int /\ k \in Int
    OBVIOUS
  <2>1. CASE j < i /\ k < i
    BY <1>0, <1>1, <1>4, <1>6, <2>0, <2>1 DEF Slots
  <2>2. CASE j < i /\ k = i
    BY <1>0, <1>2, <1>4, <2>0, <2>2 DEF Slots
  <2>3. CASE j < i /\ k > i
    <3>1. debugged_files[j] < n /\ debugged_files[k - 1] >= n
      BY <1>0, <1>2, <1>3, <2>0, <2>3
    <3> QED
      BY <1>0, <1>4, <2>0, <2>3, <3>1 DEF Slots
  <2>4. CASE j = i /\ k = i
    BY <1>0, <1>4, <2>4
  <2>5. CASE j = i /\ k > i
    <3>1. debugged_files[k - 1] >= n
      BY <1>0, <1>3, <2>0, <2>5
    <3> QED
      BY <1>0, <1>4, <2>0, <2>5, <3>1 DEF Slots
  <2>6. CASE j > i
    <3>1. debugged_files[j - 1] <= debugged_files[k - 1]
      BY <1>0, <1>1, <1>6, <2>0, <2>6
    <3> QED
      BY <1>0, <1>4, <1>6, <2>0, <2>6, <3>1
  <2> QED
    BY <1>0, <1>6, <2>0, <2>1, <2>2, <2>3, <2>4, <2>5, <2>6
<1> QED
  BY <1>5, <1>6

\* A step of the search keeps between from and to the name it looks for.
LEMMA HalvingKeeps ==
  ASSUME IInv, Right \/ Left
  PROVE  from' \in Nat /\ to' \in Int /\ to' < nb_debugged_files /\ NeverLeftOut'
<1>0. /\ from \in Nat /\ to \in Int /\ nb_debugged_files \in Nat /\ name \in Int
      /\ to < nb_debugged_files /\ nb_debugged_files <= MAX_FILES_NUMBER
      /\ debugged_files \in [Slots -> Int] /\ pc = "search" /\ from < to
      /\ UNCHANGED <<debugged_files, nb_debugged_files, pc, name>>
  BY NamesAssumption, MaxAssumption
     DEF IInv, TypeOK, WithinTable, SearchBounds, Right, Left, table
<1>1. middle \in Int /\ from <= middle /\ middle < to
  BY <1>0 DEF middle
<1>2. \A j, k \in Used : j <= k => debugged_files[j] <= debugged_files[k]
  BY <1>0 DEF IInv, Sorted
<1>3. Holds(name) => \E k \in from .. to : debugged_files[k] = name
  BY <1>0 DEF IInv, NeverLeftOut
<1>4. from .. to \subseteq Used /\ Used \subseteq Slots
  BY <1>0, MaxAssumption DEF Used, Slots
<1>5. Holds(name)' = Holds(name)
  BY <1>0 DEF Holds, Used
<1>6. CASE Right
  <2>1. debugged_files[middle] < name /\ from' = middle + 1 /\ to' = to
    BY <1>6 DEF Right
  <2>2. ASSUME NEW k \in from .. to, debugged_files[k] = name
        PROVE  k \in middle + 1 .. to
    BY <1>0, <1>1, <1>2, <1>4, <2>1, <2>2
  <2> QED
    BY <1>0, <1>1, <1>3, <1>5, <2>1, <2>2 DEF NeverLeftOut
<1>7. CASE Left
  <2>1. debugged_files[middle] > name /\ from' = from /\ to' = middle - 1
    BY <1>7 DEF Left
  <2>2. ASSUME NEW k \in from .. to, debugged_files[k] = name
        PROVE  k \in from .. middle - 1
    BY <1>0, <1>1, <1>2, <1>4, <2>1, <2>2
  <2> QED
    BY <1>0, <1>1, <1>3, <1>5, <2>1, <2>2 DEF NeverLeftOut
<1> QED
  BY <1>6, <1>7

LEMMA NextIInv == IInv /\ [Next]_vars => IInv'
<1> SUFFICES ASSUME IInv, [Next]_vars PROVE IInv'
  OBVIOUS
<1>0. nb_debugged_files \in Nat /\ MAX_FILES_NUMBER \in Nat \ {0}
  BY MaxAssumption DEF IInv, TypeOK
<1>1. ASSUME NEW n \in Names, Add(n) PROVE IInv'
  <2>1. PICK i \in 0 .. nb_debugged_files :
          /\ pc = "idle" /\ Place(n, i) /\ nb_debugged_files < MAX_FILES_NUMBER
          /\ debugged_files' = Inserted(n, i)
          /\ nb_debugged_files' = nb_debugged_files + 1
          /\ added' = added \cup {n}
          /\ UNCHANGED <<pc, search>>
    BY <1>1 DEF Add
  <2>2. /\ debugged_files' \in [Slots -> Int]
        /\ \A j, k \in 0 .. nb_debugged_files :
             j <= k => debugged_files'[j] <= debugged_files'[k]
    BY <2>1, InsertedSorted
  <2>3. TypeOK'
    BY <1>0, <2>1, <2>2 DEF IInv, TypeOK, search, Slots
  <2>4. Sorted'
    BY <1>0, <2>1, <2>2 DEF Sorted, Used
  <2> QED
    BY <1>0, <2>1, <2>3, <2>4 DEF IInv, WithinTable, SearchBounds, NeverLeftOut
<1>2. ASSUME NEW n \in Names, AddLeftOut(n) PROVE IInv'
  BY <1>0, <1>2 DEF AddLeftOut, IInv, TypeOK, WithinTable, SearchBounds, Sorted,
                    NeverLeftOut, Slots, Used, search
<1>3. ASSUME NEW n \in Names, AddOverrun(n) PROVE IInv'
  <2>1. PICK i \in 0 .. nb_debugged_files :
          /\ nb_debugged_files = MAX_FILES_NUMBER /\ i < MAX_FILES_NUMBER
          /\ debugged_files' = Inserted(n, i)
          /\ nb_debugged_files' = nb_debugged_files + 1
          /\ added' = added \cup {n} /\ pc' = "undefined"
          /\ UNCHANGED search
    BY <1>3 DEF AddOverrun
  <2>2. debugged_files' \in [Slots -> Int]
    BY <1>0, <2>1, NamesAssumption DEF IInv, TypeOK, Inserted, Slots
  <2>3. TypeOK'
    BY <1>0, <2>1, <2>2 DEF IInv, TypeOK, search, Slots
  <2> QED
    BY <2>1, <2>3 DEF IInv, WithinTable, SearchBounds, Sorted, NeverLeftOut
<1>4. ASSUME NEW n \in Names, Ask(n) PROVE IInv'
  <2>1. /\ pc = "idle" /\ name' = n /\ from' = 0 /\ to' = nb_debugged_files - 1
        /\ pc' = "search" /\ UNCHANGED <<debugged_files, nb_debugged_files, added, result>>
    BY <1>4 DEF Ask, table
  <2>2. TypeOK'
    BY <1>0, <2>1 DEF IInv, TypeOK, Slots
  <2>3. Sorted' /\ WithinTable' /\ SearchBounds'
    BY <1>0, <2>1 DEF IInv, Sorted, WithinTable, SearchBounds, Used
  <2>4. NeverLeftOut'
    BY <1>0, <2>1 DEF NeverLeftOut, Holds, Used
  <2> QED
    BY <2>2, <2>3, <2>4 DEF IInv
<1>5. CASE Right \/ Left
  <2>1. from' \in Nat /\ to' \in Int /\ to' < nb_debugged_files /\ NeverLeftOut'
    BY <1>5, HalvingKeeps
  <2>2. UNCHANGED <<debugged_files, nb_debugged_files, added, pc, name, result>>
    BY <1>5 DEF Right, Left, table
  <2>3. TypeOK'
    BY <2>1, <2>2 DEF IInv, TypeOK, Slots
  <2>4. Sorted' /\ WithinTable' /\ SearchBounds'
    BY <2>1, <2>2 DEF IInv, Sorted, WithinTable, SearchBounds, Used
  <2> QED
    BY <2>1, <2>3, <2>4 DEF IInv
<1>6. CASE Found \/ Last
  <2>0. result' \in BOOLEAN
    BY <1>6 DEF Found, Last
  <2>1. /\ pc' = "idle" /\ pc = "search" /\ result' \in BOOLEAN
        /\ UNCHANGED <<debugged_files, nb_debugged_files, added, name, from, to>>
    BY <1>6, <2>0 DEF Found, Last, table
  <2>2. TypeOK'
    BY <2>1 DEF IInv, TypeOK, Slots
  <2> QED
    BY <2>1, <2>2 DEF IInv, Sorted, WithinTable, SearchBounds, NeverLeftOut, Used
<1>7. CASE UNCHANGED vars
  BY <1>7 DEF vars, table, search, IInv, TypeOK, WithinTable, SearchBounds, Sorted,
              NeverLeftOut, Holds, Used, Slots
<1> QED
  BY <1>1, <1>2, <1>3, <1>4, <1>5, <1>6, <1>7 DEF Next, Search

LEMMA Invariance == Spec => []IInv
BY InitIInv, NextIInv, PTL DEF Spec

\* The table stays sorted, whatever the order in which add_debug_to gets the
\* names and how many slots it has (debug.c:32-45).
THEOREM TableSorted == Spec => []Sorted
BY Invariance, PTL DEF IInv

\* __is_debugged never reads a slot that holds no name (debug.c:47-65).
THEOREM SearchWithinTable == Spec => []ReadsUsedSlots
<1>1. IInv => ReadsUsedSlots
  <2> SUFFICES ASSUME IInv, pc = "search" PROVE ReadsUsedSlots
    BY DEF ReadsUsedSlots
  <2>1. from \in Nat /\ to \in Int /\ to < nb_debugged_files /\ nb_debugged_files \in Nat
    BY MaxAssumption DEF IInv, TypeOK, SearchBounds
  <2>2. from < to => middle \in Int /\ from <= middle /\ middle < to
    BY <2>1 DEF middle
  <2> QED
    BY <2>1, <2>2 DEF ReadsUsedSlots, Used
<1> QED
  BY <1>1, Invariance, PTL

\* The answer of __is_debugged is whether the table holds the name
\* (debug.c:58-64).
THEOREM SearchAnswers == Spec => AnswersMembership
<1>1. ASSUME IInv, [Next]_vars
      PROVE  [pc = "search" /\ pc' = "idle" => result' = Holds(name)]_vars
  <2> SUFFICES ASSUME pc = "search", pc' = "idle", Next
               PROVE  result' = Holds(name)
    BY <1>1 DEF vars
  <2>0. /\ from \in Nat /\ to \in Int /\ to < nb_debugged_files /\ nb_debugged_files \in Nat
        /\ Holds(name) => \E k \in from .. to : debugged_files[k] = name
    BY <1>1, MaxAssumption DEF IInv, TypeOK, SearchBounds, NeverLeftOut
  <2>1. CASE Found
    <3>1. middle \in Used /\ debugged_files[middle] = name /\ result' = TRUE
      BY <2>0, <2>1 DEF Found, Used, middle
    <3>2. Holds(name) = TRUE
      BY <3>1 DEF Holds
    <3> QED
      BY <3>1, <3>2
  <2>2. CASE Last
    <3>1. from >= to /\ result' = (from = to /\ debugged_files[from] = name)
      BY <2>2 DEF Last
    <3>2. (from = to /\ debugged_files[from] = name) => Holds(name)
      BY <2>0 DEF Holds, Used
    <3>3. Holds(name) => (from = to /\ debugged_files[from] = name)
      BY <2>0, <3>1
    <3>4. Holds(name) \in BOOLEAN
      BY DEF Holds
    <3>5. Holds(name) = (from = to /\ debugged_files[from] = name)
      BY <3>2, <3>3, <3>4, Zenon
    <3> QED
      BY <3>1, <3>5, Zenon
  <2> QED
    BY <2>1, <2>2
    DEF Next, Search, Add, AddLeftOut, AddOverrun, Ask, Right, Left
<1> QED
  BY <1>1, Invariance, PTL DEF Spec, AnswersMembership

\* The numbers of the search and of the table stay in their ranges, for every
\* size of the table (debug.c:27-65).
THEOREM TypeCorrect == Spec => []TypeOK
BY Invariance, PTL DEF IInv

\* A name that is inserted joins those the table holds.
LEMMA InsertedHolds ==
  ASSUME IInv, NEW n \in Names, Add(n)
  PROVE  Holds(n)' /\ \A m : Holds(m) => Holds(m)'
<1>1. PICK i \in 0 .. nb_debugged_files :
        /\ nb_debugged_files < MAX_FILES_NUMBER
        /\ debugged_files' = Inserted(n, i)
        /\ nb_debugged_files' = nb_debugged_files + 1
  BY DEF Add
<1>2. nb_debugged_files \in Nat /\ MAX_FILES_NUMBER \in Nat
  BY MaxAssumption DEF IInv, TypeOK
<1>3. \A k \in 0 .. nb_debugged_files :
        debugged_files'[k] = IF k = i THEN n
                             ELSE IF i < k THEN debugged_files[k - 1] ELSE debugged_files[k]
  BY <1>1, <1>2 DEF Inserted, Slots
<1>4. Used' = 0 .. nb_debugged_files
  BY <1>1, <1>2 DEF Used
<1>5. Holds(n)'
  BY <1>3, <1>4 DEF Holds
<1>6. ASSUME NEW m, Holds(m) PROVE Holds(m)'
  <2>1. PICK k \in Used : debugged_files[k] = m
    BY <1>6 DEF Holds
  <2>2. k \in Nat /\ k < nb_debugged_files
    BY <1>2, <2>1 DEF Used
  <2>3. CASE k < i
    BY <1>2, <1>3, <1>4, <2>1, <2>2, <2>3 DEF Holds
  <2>4. CASE k >= i
    <3>1. k + 1 \in 0 .. nb_debugged_files /\ debugged_files'[k + 1] = debugged_files[k]
      BY <1>2, <1>3, <2>2, <2>4
    <3> QED
      BY <1>4, <2>1, <3>1 DEF Holds
  <2> QED
    BY <1>2, <2>2, <2>3, <2>4
<1> QED
  BY <1>5, <1>6

\* As long as there is room no name is left out, in whatever order the names
\* come (debug.c:39-44).
THEOREM RoomForAll == Spec => []LeftOutOnlyWhenFull
<1>1. Init => LeftOutOnlyWhenFull
  BY DEF Init, LeftOutOnlyWhenFull
<1>2. ASSUME IInv, LeftOutOnlyWhenFull, [Next]_vars PROVE LeftOutOnlyWhenFull'
  <2>0. nb_debugged_files \in Nat /\ MAX_FILES_NUMBER \in Nat
    BY <1>2, MaxAssumption DEF IInv, TypeOK
  <2>1. ASSUME NEW n \in Names, Add(n) PROVE LeftOutOnlyWhenFull'
    <3>1. nb_debugged_files < MAX_FILES_NUMBER /\ added' = added \cup {n}
      BY <2>1 DEF Add
    <3> QED
      BY <1>2, <2>1, <3>1, InsertedHolds DEF LeftOutOnlyWhenFull
  <2>2. ASSUME NEW n \in Names, AddLeftOut(n) PROVE LeftOutOnlyWhenFull'
    BY <2>0, <2>2 DEF AddLeftOut, Place, LeftOutOnlyWhenFull
  <2>3. ASSUME NEW n \in Names, AddOverrun(n) PROVE LeftOutOnlyWhenFull'
    BY <2>0, <2>3 DEF AddOverrun, LeftOutOnlyWhenFull
  <2>4. CASE UNCHANGED table
    BY <1>2, <2>4 DEF table, LeftOutOnlyWhenFull, Holds, Used
  <2> QED
    BY <1>2, <2>1, <2>2, <2>3, <2>4 DEF Next, Search, Ask, Right, Left, Found, Last, vars
<1> QED
  BY <1>1, <1>2, Invariance, PTL DEF Spec
=============================================================================
