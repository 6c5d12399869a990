----------------------------- MODULE RelRemoval -----------------------------
(***************************************************************************)
(* What deleting the relocation tables promises (implantation.h:9),       *)
(* stated without any section number: sections are known by their names,   *)
(* what a section is linked to and where a symbol is defined are names.    *)
(* Relocation tables disappear one after the other; nothing else changes.  *)
(***************************************************************************)
EXTENDS Naturals

VARIABLES sections,  \* the sections: name, type, name of the linked section, bytes
          symbols,   \* where each symbol is defined
          strings    \* the name of the table of section names

vars == <<sections, symbols, strings>>

Init == \A a, b \in sections : a.name = b.name => a = b

Remove(r) ==
  /\ r \in sections
  /\ r.type = "REL"
  /\ sections' = sections \ {r}
  /\ UNCHANGED <<symbols, strings>>

Next == \E r \in sections : Remove(r)

Spec == Init /\ [][Next]_vars
=============================================================================
