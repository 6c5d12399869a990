------------------------------ MODULE MCLoading ------------------------------
EXTENDS Loading

MCEhdrSize == 2
MCShdrSize == 1
MCSymSize  == 1

Types == {<<"PROGBITS", "REL", "SYMTAB">>, <<"SYMTAB", "NOBITS", "PROGBITS">>,
          <<"REL", "PROGBITS", "REL">>}

Header(type, offset, size) ==
  [sh_name |-> 0, sh_type |-> type, sh_offset |-> offset, sh_size |-> size,
   sh_link |-> 0, sh_info |-> 0]

\* Three sections after the null one, of any offsets and sizes.
File(type, offset, size, cells, magic) ==
  [e_shnum |-> 4, e_shoff |-> 6, e_shstrndx |-> 0,
   sect    |-> [k \in 0 .. 3 |-> IF k = 0 THEN Header("NULL", 0, 0)
                                 ELSE Header(type[k], offset[k], size[k])],
   nsym |-> 0, sym |-> [l \in 0 .. -1 |-> 0], rel |-> {},
   cells |-> cells, magic |-> magic]

\* Whole files and files cut in the headers, the sections and the file header;
\* the last sections may lie after the headers, and a relocation table may have
\* less than an entry, or more than one and not two.
AnyFiles == {File(t, o, z, c, TRUE) : t \in Types, o \in [1 .. 3 -> {2, 3, 5, 7}],
                                      z \in [1 .. 3 -> {0, 1, 3}], c \in {1, 9, 10, 12}}

Opened(option) == [option |-> option, fopen |-> "opened"]

\* Every file, and for two files, one of them not an ELF file, every command
\* line of one or two arguments.
MCLaunches ==
  {[args |-> <<Opened("dest"), Opened("source")>>, file |-> f] : f \in AnyFiles}
    \cup {[args |-> a, file |-> File(<<"PROGBITS", "REL", "SYMTAB">>, <<2, 3, 5>>, <<2, 2, 0>>, 10, m)] :
            a \in UNION {[1 .. n -> Arguments] : n \in 1 .. 2}, m \in BOOLEAN}
=============================================================================
