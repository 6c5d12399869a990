----------------------------- MODULE DebugFiles -----------------------------
(***************************************************************************)
(* The table of the source files whose debug output is shown (debug.c):    *)
(* add_debug_to keeps it sorted, __is_debugged searches it by halving.     *)
(*                                                                         *)
(* A name is its rank in the order of strcmp.                              *)
(***************************************************************************)
EXTENDS Integers

CONSTANTS Names,             \* the names that may be given to --debug or looked for
          MAX_FILES_NUMBER

ASSUME NamesAssumption == Names \subseteq Int
ASSUME MaxAssumption == MAX_FILES_NUMBER \in Nat \ {0}

VARIABLES debugged_files, nb_debugged_files,
          added,   \* the names given to add_debug_to so far
          pc,      \* "idle", "search", or "undefined" after a write out of bounds
          name,    \* the argument of __is_debugged
          from, to, result

table  == <<debugged_files, nb_debugged_files, added>>
search == <<name, from, to, result>>
vars   == <<table, pc, search>>

Slots == 0 .. MAX_FILES_NUMBER - 1
Used  == 0 .. nb_debugged_files - 1

Init ==
  /\ debugged_files = [k \in Slots |-> 0]
  /\ nb_debugged_files = 0 /\ added = {}
  /\ pc = "idle"
  /\ name \in Names /\ from = 0 /\ to = -1 /\ result = FALSE
-----------------------------------------------------------------------------
(***************************************************************************)
(* add_debug_to.                                                           *)
(***************************************************************************)
\* Mutant of Place: the test of the order is reversed.
Place_Reversed(n, i) ==
  /\ i \in 0 .. nb_debugged_files
  /\ \A j \in 0 .. i - 1 : debugged_files[j] > n
  /\ i < nb_debugged_files => debugged_files[i] <= n

\* The value of i after the loop: the first name that does not come before n.
Place(n, i) ==
  /\ i \in 0 .. nb_debugged_files
  /\ \A j \in 0 .. i - 1 : debugged_files[j] < n
  /\ i < nb_debugged_files => debugged_files[i] >= n

\* Mutant of Inserted: the names are moved from the first one on, so that each
\* takes the place of the next before that one has moved.
Inserted_Upwards(n, i) ==
  [k \in Slots |-> IF k = i THEN n
                   ELSE IF i < k /\ k <= nb_debugged_files THEN debugged_files[i]
                   ELSE debugged_files[k]]

\* Mutant of Inserted: the table grows with the names, past its declared size.
Inserted_Grown(n, i) ==
  [k \in 0 .. nb_debugged_files + 1 |-> IF k = i THEN n
                   ELSE IF i < k /\ k <= nb_debugged_files THEN debugged_files[k - 1]
                   ELSE IF k \in Slots THEN debugged_files[k] ELSE 0]

\* The names from place i on move by one slot.
Inserted(n, i) ==
  [k \in Slots |-> IF k = i THEN n
                   ELSE IF i < k /\ k <= nb_debugged_files THEN debugged_files[k - 1]
                   ELSE debugged_files[k]]

Add(n) == \E i \in 0 .. nb_debugged_files :
  /\ pc = "idle"
  /\ Place(n, i)
  /\ nb_debugged_files < MAX_FILES_NUMBER
  /\ debugged_files' = Inserted(n, i)
  /\ nb_debugged_files' = nb_debugged_files + 1
  /\ added' = added \cup {n}
  /\ UNCHANGED <<pc, search>>

\* The table is full and the name comes after all of it: it is left out.
AddLeftOut(n) ==
  /\ pc = "idle"
  /\ Place(n, MAX_FILES_NUMBER)
  /\ added' = added \cup {n}
  /\ UNCHANGED <<debugged_files, nb_debugged_files, pc, search>>

\* The table is full and the name comes before its end: the last name is moved
\* to the slot after the table, over what the program keeps there.
AddOverrun(n) == \E i \in 0 .. nb_debugged_files :
  /\ pc = "idle"
  /\ Place(n, i)
  /\ i < MAX_FILES_NUMBER /\ nb_debugged_files = MAX_FILES_NUMBER
  /\ debugged_files' = Inserted(n, i)
  /\ nb_debugged_files' = nb_debugged_files + 1
  /\ added' = added \cup {n}
  /\ pc' = "undefined"
  /\ UNCHANGED search
-----------------------------------------------------------------------------
(***************************************************************************)
(* __is_debugged.                                                          *)
(***************************************************************************)
\* Mutant of Ask: the search starts with the slot after the last name.
Ask_PastEnd(n) ==
  /\ pc = "idle"
  /\ name' = n /\ from' = 0 /\ to' = nb_debugged_files
  /\ pc' = "search"
  /\ UNCHANGED <<table, result>>

Ask(n) ==
  /\ pc = "idle"
  /\ name' = n /\ from' = 0 /\ to' = nb_debugged_files - 1
  /\ pc' = "search"
  /\ UNCHANGED <<table, result>>

middle == (from + to) \div 2

\* Mutant of Right: the middle is kept.
Right_KeepMiddle ==
  /\ pc = "search" /\ from < to
  /\ debugged_files[middle] < name
  /\ from' = middle
  /\ UNCHANGED <<table, pc, name, to, result>>

Right ==
  /\ pc = "search" /\ from < to
  /\ debugged_files[middle] < name
  /\ from' = middle + 1
  /\ UNCHANGED <<table, pc, name, to, result>>

Left ==
  /\ pc = "search" /\ from < to
  /\ debugged_files[middle] > name
  /\ to' = middle - 1
  /\ UNCHANGED <<table, pc, name, from, result>>

Found ==
  /\ pc = "search" /\ from < to
  /\ debugged_files[middle] = name
  /\ result' = TRUE /\ pc' = "idle"
  /\ UNCHANGED <<table, name, from, to>>

\* Mutant of Last: the name that is left is not compared.
Last_NotCompared ==
  /\ pc = "search" /\ from >= to
  /\ result' = (from = to)
  /\ pc' = "idle"
  /\ UNCHANGED <<table, name, from, to>>

\* The end of the loop: at most one name is left.
Last ==
  /\ pc = "search" /\ from >= to
  /\ result' = (from = to /\ debugged_files[from] = name)
  /\ pc' = "idle"
  /\ UNCHANGED <<table, name, from, to>>

Search == Right \/ Left \/ Found \/ Last

Next == \/ \E n \in Names : Add(n) \/ AddLeftOut(n) \/ AddOverrun(n) \/ Ask(n)
        \/ Search

Spec == Init /\ [][Next]_vars

\* A search is a loop of the thread that asked.
FairSpec == Spec /\ WF_vars(Search)
-----------------------------------------------------------------------------
(***************************************************************************)
(* Properties.                                                             *)
(***************************************************************************)
TypeOK ==
  /\ debugged_files \in [Slots -> Int]
  /\ nb_debugged_files \in 0 .. MAX_FILES_NUMBER + 1
  /\ added \subseteq Names
  /\ pc \in {"idle", "search", "undefined"}
  /\ name \in Names /\ result \in BOOLEAN
  /\ from \in Nat /\ to \in Int

\* The names stay in the order the search relies on, whatever the order in
\* which they were added, and the same name twice (debug.c:35-44).
Sorted ==
  pc # "undefined" =>
    \A j, k \in Used : j <= k => debugged_files[j] <= debugged_files[k]

\* The search only reads slots that hold a name (debug.c:50-62).
ReadsUsedSlots ==
  pc = "search" => /\ from < to => middle \in Used
                   /\ from = to => from \in Used

Holds(n) == \E k \in Used : debugged_files[k] = n

\* Halving never leaves out the name it looks for: it is between from and to
\* as long as it is in the table (debug.c:52-61).
NeverLeftOut ==
  pc = "search" /\ Holds(name) => \E k \in from .. to : debugged_files[k] = name

\* The answer of the search is whether the table holds the name (debug.c:58-64).
AnswersMembership == [][pc = "search" /\ pc' = "idle" => result' = Holds(name)]_vars

\* The search ends.
SearchEnds == pc = "search" ~> pc = "idle"

\* --debug enables the output of the named source file, every name before it
\* that found room included; only a table that is full leaves one out, without
\* a word (debug.c:39-44, ARM_runner_example.c:32).
LeftOutOnlyWhenFull ==
  nb_debugged_files < MAX_FILES_NUMBER => \A n \in added : Holds(n)
=============================================================================
