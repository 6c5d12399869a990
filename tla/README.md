# TLA+ verification of ARM_runner

This directory models the ARM ELF relocator of this repository and its gdb
client, checks the models with TLC, and proves the main invariants with TLAPS.
Line numbers are those of the files in the repository.

## The system

The repository builds two programs that share a few files.

**ARM_runner** reads one 32-bit ELF object file into a structure, displays it,
and writes modified copies of it.

| part | code | state | operations |
|---|---|---|---|
| command line and loaders | `ARM_runner.c` 42-71, `Functions/read*.c` | `f_source`, `f_dest`, `Elf32_Main` | `loadHeader`, `loadTabSectionHeader`, `loadSymTable`, `loadRelocTable`, `loadSectionContent` |
| relocation table removal | `Functions/implantation.c` 4-54 | section headers, contents, symbols, `e_shnum`, `e_shoff`, `e_shstrndx` | `deleteRel` |
| symbol and relocation correction | `Functions/implantation.c` 57-132 | symbol values, bytes of the contents | `correctSymTable`, `correctABSReloc` |
| file writer | `Functions/writeFile.c` | the destination file | `writeHeader`, `writeSectionContent`, `writeSectionHeader` |
| option loop | `ARM_runner.c` 73-178 | `optind` | `-w`, `-d`, `--text`, `--data`, the displays |
| display | the `print*` functions, `util.c` | none | |

The parts run in one thread and communicate through `Elf32_Main`, which every
option works on after the ones before it.  The source file is read again, by
`printName`, at offsets taken from the structure, which `-d` has changed; the
destination file is written again from its start by each option.  So the hard
behaviours are sequences: several deletions in a table whose bound and indices
move, several options on one structure, and failures (a file the loaders
refuse, a full disk) in the middle of them.

**ARM_runner_example** drives an ARM simulator with the gdb remote protocol.

| part | code | state | operations |
|---|---|---|---|
| interface | `arm_simulator_interface.c` | the connection | `arm_connect`, `arm_write_memory`, `arm_write_register`, `arm_step`, `arm_run` |
| protocol | `gdb_protocol.c` | `gdb->packet`, `gdb->answer` | building, sending and checking packets |
| scanner | `scanner.l` | stray characters read since the last token | one rule per token |
| generated scanner | `scanner.c` | the buffer, its pointers, the state of the automaton | `yylex`, `yy_get_next_buffer` |
| sample program | `ARM_runner_example.c` | its options | `main`, `sample_run` |
| debug table | `debug.c` | the sorted table of file names | `add_debug_to`, `__is_debugged` |
| csapp | `csapp.c` | | `Rio_writen`, `Getaddrinfo` |

The client makes one call at a time: it sends a packet and reads tokens until a
packet answers.  Packets may be damaged, both sides ask for a retransmission
with `-`, nothing is numbered and nothing is timed, and the simulator may end
at any moment.  Below the tokens, `read` cuts the stream anywhere, and the
generated scanner must find the same tokens however it does.

## What makes it correct

* *Removal*: it removes relocation tables and changes nothing else.  Numbers
  (section indices, offsets) change so that what they designate does not.
* *Writer*: what is written reads back as the structure; with no option but
  `-w` it is the source file, cell for cell.
* *Loaders*: what is loaded was in the file, and what is held for a section goes
  up to the next one; a file that loads has the part of the layout that the
  sizes read by `loadSectionContent` enforce.
* *Displays*: they read the structure within its tables, except on files that
  lack what they look for.
* *Connection*: the program talks to the first address that accepts, and closes
  the sockets of the others.
* *Client*: each command is executed once, in order, before its call returns;
  the program ends, or waits for ever in the one case where no timer helps it.
* *Scanner*: its tokens are those of the rules on the whole stream, nothing is
  lost at the end, and it never waits for a character it does not need.
* *Memory writes*: the packet decodes to the memory; no write leaves the packet.
* *Debug table*: it stays sorted, and the search answers membership.

## The modules

| module | models | composes or extends |
|---|---|---|
| `ElfMain` | the data: files, `Elf32_Main`, and the sizes `loadSectionContent` computes | |
| `Loading` | the scan of the command line and the five loaders | `ElfMain` |
| `Loading_proofs` | theorems about them | `Loading`, `FoldLemmas` |
| `RelRemoval` | abstract: relocation tables disappear, by names | |
| `Implantation` | `deleteRel`, one action per iteration of its loop | `ElfMain`; implements `RelRemoval` |
| `Implantation_proofs` | theorems about it | `Implantation`, `FoldLemmas` |
| `ARM_runner` | the option loop, the displays, the corrections and the writer | `Implantation` |
| `ARM_runner_proofs` | theorems about it | `ARM_runner`, `Implantation_proofs` |
| `RemoteCalls` | abstract: calls executed once, in order | |
| `GdbClient` | interface, protocol and rules of the scanner against a simulator and a network | |
| `Session` | `ARM_runner_example`: its options, `arm_connect`, then its calls | `GdbClient`; implements `RemoteCalls` |
| `Session_proofs` | theorems about the client and the session | `Session` |
| `Scanner` | `scanner.c`: the automaton and the buffer, below the tokens of `GdbClient` | |
| `Scanner_proofs` | theorems about it | `Scanner`, `FoldLemmas` |
| `GdbMemory` | `gdb_write_memory`, one action per byte | |
| `GdbMemory_proofs` | theorems about it | `GdbMemory`, `FoldLemmas` |
| `DebugFiles` | `add_debug_to` and `__is_debugged` | |
| `DebugFiles_proofs` | theorems about them | `DebugFiles` |
| `FoldLemmas` | lemmas on minima, sums over sets, remainders and `FlattenSeq` | |
| `MCElf`, `MC*` | the finite instances for TLC | |

### Files (`ElfMain`)

A file is a row of cells: `EhdrSize` cells of header, the bytes of the sections,
and `ShdrSize` cells per section header from `e_shoff` on.  The byte order and
the fields that no step changes are left out.  The text of a name is abstracted
to its index `sh_name`.  `sectionContent[k]` records how many bytes are held,
where they were in the source, and the state of their pointer: `uninit` (the
loader does not write it for a section without bytes), `heap`, `null` after a
`realloc` to size 0, `freed`.

`ElfLayout` has two parts.  `CheckedLayout` is what `loadSectionContent` enforces, by
the sizes it computes: a section that is neither a relocation table nor the last
one starts before the section of the next index, and the last one before the
section headers.  `Loading` shows it of every file that loads rather than assume
it (`AcceptedLayout`, proved for every file).  `SupposedLayout` is the rest, which
assemblers respect and nothing in the program looks at: distinct sections start
apart, between the ELF header and the section headers, relocation tables do not
overlap what follows them, and the last section comes last in the file.
`ElfTables` states what else assemblers write: section 0 is null, names tell
sections apart, the names, and the strings of a symbol table, are in no
relocation table, and a section that holds symbols is no relocation table and
has no `sh_info`.

### deleteRel (`Implantation`)

`SkipSection` is the else branch of the loop, `DeleteSection` the whole of the
other branch, `EndDeleteRel` the end of the loop, and `AbortOnUninitialised` the
case where `realloc` or `free` gets a pointer that was never written: it may be
NULL, and then `DeleteSection` goes on, or make the C library abort.  The arrays
keep the length they were allocated with and only the entries below `e_shnum`
are live.

### The option loop (`ARM_runner`)

`argv` is the list of options, `Option` the one at work.  An option that writes
goes through stages (`correct` and `relocate`, or `deleteRel`, then `write`,
`content`, `headers`) and comes back to `options`.  `dest` is the destination
file, `room` the room on its disk: each of the three writers either puts its
cells, as far as they fit, or reports a full disk and exits; `fwrite` buffers,
so that a write that does not fit may also go unreported.  `NameRead` is what
`printName` reads: the source file at the offset that the structure gives now.
`Word` is the number of values of a `uint32_t`: the sums of `correctSymTable`
wrap.

A display changes nothing.  What is modelled of it is where it leaves the tables
(`Outside`): the header of the names and the one before it, which
`printSymTable` takes for that of the symbols' strings, the headers of the
symbols that relocations designate, and the bytes of a section longer than its
block.  Such a read gives anything or ends the program (`CrashInDisplay`).

`correctABSReloc` never changes what is written: nothing is done for ABS32, and
for ABS16 and ABS8 the byte goes to the section whose number is the `sh_info` of
the symbol's section, which is 0 for a section that defines symbols; section 0
holds no bytes, so that the write goes to an address that was never set.  It may
crash (`CrashInReloc`) or go unnoticed.  The place is looked for before the type of
the relocation is, so that a symbol with a reserved index may crash any of them.

When the options are used up, `Return` closes the files and releases the heap.
`main` gives `free` the pointer of every live section, those that the loader did
not write included; section 0 has one in every file.  Such a pointer may be NULL,
or make the C library abort (`AbortInFree`): so the program may abort on any file,
once its copies are complete.

### The client (`GdbClient`)

One action per rule of the scanner (`ReadAck`, `ReadNak`, `ReadDamaged` and
`ReadAnswer`, `ReadStray`, `ReadEof`), `SendPacket` for the call that starts.
The simulator and the network are not in the repository; they are modelled from
how the code uses them and are marked external: the simulator acknowledges,
executes and answers a good packet, asks for a damaged one again, and repeats
its last answer on `-`; the network keeps order, may damage packets, and may
insert or substitute stray characters.  `Faults` gives the bounds.

A call is one packet and its answer.  `gdb_write_memory` sends a packet per turn of
its loop, but `GdbMemory` shows that it never takes a second turn: a memory that
needs two overruns the first, and an empty one sends none and is no command.

### The program that calls it (`Session`)

`main` says where the program is: `ReadOption` is a turn of its loop on options,
`Resolve` the call of `Getaddrinfo`, `Socket`, `Refused` and `Connected` the
branches of the loop of `arm_connect`, `NoScanner` what follows from `fdopen`
failing in `init_gdb_scanner`, where nothing is returned.  From then on the steps
are those of `GdbClient`.  A host is a sequence of addresses, each of which
gives no socket, refuses, or accepts.

### The generated scanner (`Scanner`)

The tables of the automaton are copied, and characters are abstracted to their
classes (`yy_ec`) but for the null character, which marks the end of the
buffer and may also be sent.  An action is a turn of the matching loop (`Match`)
or a stage of `yylex` (`BeginToken`, `FindAction`, one `Rule`, the branches of
`YY_END_OF_BUFFER`) or of `yy_get_next_buffer` (`ContinueScan`, `LastMatch`,
`EndOfFile`); `read` gives any number of the characters asked for.  `Tokens`
defines the reference: the rules of `scanner.l` on the whole stream.  `GdbClient`
starts from these tokens.

### The memory write (`GdbMemory`)

`Copy` is one iteration of the inner loop, `Send` one of the outer.  Fields are
abstracted to their lengths: 19 characters before the data, 4 after.  A write
past `gdb->packet` ends the model in `undefined`.  `Says` is what a character of
the data means to the simulator, `Decoded` what the data mean.  The inner loop
stops at `MAX_BUFFER_SIZE - 1` characters, more than the packet has room for after
the first 19, whatever `MAX_PACKET_SIZE` is: a chunk that is full always overruns.
`Delivered` says what is left of the promise: at most one packet, which is the
whole memory at its address.

### The debug table (`DebugFiles`)

A name is its rank for `strcmp`.  Each iteration of the search is an action.
A write past the 64 slots ends the model in `undefined`.

## What is checked

| run | shows | bounds |
|---|---|---|
| `loading` | `AcceptedLayout`, `HeldUpToNext`, `HoldsWhatFileHas`, `Ends`, types | three sections of any offset (4 values) and size (0, 1 or 3), whole and cut files; table entries of two cells; one entry in `TabNb` |
| `implantation` | types, layout, exact offsets, contents follow headers, heap blocks, exactly the relocation tables, refinement of `RelRemoval` | every table of five sections: types of two of them among REL, PROGBITS, HASH, sizes 0 to 2, every order of the file the loaders accept |
| `implantation_reserved` | *violation*: absolute symbols are renumbered | one file |
| `runner` | copies, read-back, no stale tail when `-d` comes first, relocation before `-d`, prefixes on full disks, crashes during the options only on odd files, displays included, termination | one and two options of each kind, displays before and after `-d`, two longer lines; seven disk sizes for the odd files; addresses of three values |
| `runner_tail` | *violation*: `-w -d` leaves a tail | one file |
| `runner_names` | *violation*: `-d --text` misses the names | one file |
| `session` | `Paired`, `OnceUnlessBothFaults`, `FirstReachable`, `SEnds`, refinement of `RemoteCalls` | three programs, five hosts, five command lines; six damaged packets; or four damaged packets, four stray characters, or up to two of each, with a simulator that may end |
| `gdb_lost` | *violation*: a command is lost | one damaged packet and one stray character |
| `memory` | the packet is the whole memory; small writes stay in the packet | every memory of up to eight bytes, packets with room for six |
| `memory_full` | *violation*: 1001 bytes leave the packet | the constants of the code |
| `debug` | order, search bounds, membership, only a full table leaves a name out | four slots, five names |
| `scanner` | the tokens of the rules, nothing lost, no wait for a character too many, every call returns | every stream of up to four characters of five classes, five longer ones; a buffer of three characters, two ends of the stream |

Why the bounds are enough.  Five sections let two relocation tables be
neighbours, first, last or separated, before and after the string table, the
symbol table and a linked table, with empty sections between them, in file
orders that differ from the order of the indices: a loop of `deleteRel` looks at
one pair of sections at a time.  Two options reach every ordered pair of
effects on the structure and on the file; the two longer lines come back to an
option after the other.  Retransmissions of one packet do not depend on one
another, so that six damaged packets in programs of two to four calls
already damage a packet, its answer and their repetitions.  One stray character
in the place of the `-` that follows one damaged packet already makes both sides
wait for each other.  `MaxErrorSize` is 2
instead of 1022: what matters is that the buffer fills up.  `YY_BUF_SIZE` and
`YY_READ_BUF_SIZE` are 3 instead of 16384 and 8192: a packet takes at least four
characters, so that every packet is cut by the end of the buffer, which doubles
for the longer ones.  `Word` is 3, so that two corrections go past it.  Two ends
of the stream let `yylex` be called again on the buffer the first one left.

The programs end, hence `CHECK_DEADLOCK FALSE` in every configuration; the
liveness properties say that they end where they should.  `SEnds` has one
exception, `Stuck`: the client waits, the simulator is ready, nothing is under way,
and the scanner holds stray characters it has not complained about.  It takes
both a damaged packet and a stray character; with one kind of fault the program
always ends.  A crash counts as an end only when `fdopen` made no stream.

### Fairness

Weak fairness of the whole next-state relation of `Loading`, `Implantation` and
`ARM_runner`: one thread, which waits for nothing but files.  The search of
`DebugFiles` likewise; nothing makes a caller ask.  In `Scanner`, weak fairness
of `yylex`, which has one thread, `read` returning because the stream goes on or
ends; nothing makes the program call it.  In `Session`, weak fairness of the
program (`yylex` blocks only on an empty stream), of the simulator's
reading, and of the end of a simulation that was started (`Leaves`).  Faults are
not fair: they never have to happen.

## What is proved

For every value of the constants:

* `Loading_proofs`: `LoadingTypes`, `OnlyLayoutAccepted`, `LoadedUpToNext`,
  `HeldWasInFile`.
* `Implantation_proofs`: `TypeCorrect`, `LayoutAlwaysKept`, `MovedByDeleted`,
  `ContentsFollow`, `RemovesExactlyRel`, `BlocksOwned`, and
  `DeleteRelImplementsRemoval` (the last for files whose symbols are all undefined
  or in a section, which `ElfTables` keeps out of the relocation tables).
* `ARM_runner_proofs`: `RunnerTypes`, `LayoutKeptByOptions`, `OnlyOddFilesCrashOptions`,
  `SymbolsMoveBeforeDelete`, and of the destination file `WrittenReadsBack`,
  `CopiesAreFaithful`, `CopiesArePrefixes`, `DeletedFirstLeavesNoTail`.
* `DebugFiles_proofs`: `TypeCorrect`, `TableSorted`, `SearchWithinTable`,
  `SearchAnswers`, `RoomForAll`.
* `GdbMemory_proofs`: `TypeCorrect`, `SmallWritesSafe`, `WholeMemoryDelivered`.
* `Session_proofs`: of the client alone `AnswersPaired` and `CommandsOnce`; of the
  session `SessionTypes`, `TalksToFirstReachable`, `SessionAnswersPaired`,
  `SessionCommandsOnce`, `CallsAreRemote`.
* `Scanner_proofs`: `ScannerTypes`, `TokensAreOfStream`, `NothingIsLost`,
  `WaitsForToken`.

With these, every safety invariant that a passing run checks is proved.
`OnceUnlessBothFaults` is `ExactlyOnce` of the executions where the network damages
packets or inserts characters and does not do both (`OneFault`); the run
`gdb_lost` has one of each and violates `ExactlyOnce`.

*Induction.*  The induction theorems of the library take an operator, which the
provers cannot instantiate, so `FoldLemmas` does induction on sets: a set of
numbers with 0 and the successor of each member is `Nat`, because what it lacks
would have a smallest element (`MinOfNat`, `SetInduction`), and likewise for the
subsets of a finite set (`FiniteSubsets`).  The sums and the concatenations of the
models are recursive functions that the libraries `CHOOSE`: `SumExists` and
`FlattenUnfolds` show that such a function exists, and then `SumFacts`,
`FlattenPieces`, `FlattenEqual` and `FlattenAppend` say what it computes, for
every set and every sequence.

*Loading.*  `LInv` says, stage by stage, what the loaders found before they went on
(`Checked`), and that each section read so far was whole in the file and is held in
the size that was computed for it (`SectionsRead`); `LoadedSizeCases` says what that
size is, whatever the offsets.  The layout follows at the end of the stages, and
where the bytes of a section end as soon as it is read, not from the shape of the
file.

*Removal.*  `TypeOK` and `LayoutKept` are not inductive: moving a section back by
the size of a table keeps the layout only because everything that started after
the table also ended after it.  `IInv` adds the layout of the relocation tables
that remain and the sizes the loaders gave.  `LoadedSizeFits` shows that the
loaders establish it; `DeletionShifts` says what `DeleteSection` does to an entry;
`DeletionTypes`, `DeletionLayout` and `DeletionRest` re-establish the parts.  The
refinement needs one more invariant, that links and symbols designate kept
sections: `LoweredIndex` shows that lowering an index above `i` designates the
same section after the shift, `DeletionRemoves` that a step of the loop is
`Remove` of the abstract specification, and every other step a stutter.

What the sections are after several deletions is said by their `Origin`, the
section of the source with the same name.  `Traced` says that origins stay in
order, with the type, size and content of their headers, and that a section that
is no origin any more was a relocation table; `Passed` that none is left below
`i`.  Both are needed for `RemovesExactlyRel`: the first says that nothing else
went, the second that no table was missed.  `MovedByDeleted` adds that the sizes
of the tables that are gone, and lay before a section in the source, sum up to
the distance the section has moved: a step takes one table from those that are
left, and the sum grows by its size.

*Options.*  `Structure` puts these invariants together with three that only the
options need: a symbol that was in a section is in a live one (`SymbolsLive`), the
table of names does not become section 0 (`NamesFirst`), and a pointer the
loader did not write is still at its first place (`Unwritten`), which is how a
crash in `deleteRel` leads back to a section without bytes after a relocation
table.  `NothingOutside` shows that a display that leaves the tables has an odd
file.  The theorems of `Implantation_proofs` are reused step by step, the other
options leaving the structure as it is (`QuietStep`) or changing symbol values
only (`CorrectionStep`).  `SymbolsMoved` counts, for each symbol, the addresses of
the options that named its section, modulo `Word` (`ModAdd`).

*Destination.*  `writeSectionContent` looks at no offset: it writes the sections in
the order of their offsets, one after the other.  That each of them lands where
its header says rests on the file having no hole, `Tiled`: the sections cover
every position from the ELF header to the section headers, and what is written
for each has the size that is held.  `LoadedTiled` shows it of the structure the
loaders leave for a `Packed` source, `DeletionTiled` that a deletion closes the
hole it makes.  `OrderFacts` gives each section its rank, the number of the sections
before it, and `ContentTiles` shows by induction on that rank that what
precedes a section has as many cells as its offset says.  `Image` is the file that the
structure describes; `Written`, that a file which has not filled its disk begins
with the parts of `Image` the stages so far have written, and `WrittenReadsBack`
cuts those parts again.  For copies, `CoveredOnce` and `LoadedImage` show that
`Image` is the source file cell for cell, and `Copying` that every step of a
write leaves a beginning of it, whichever write did not fit.  `NoTail` says that
nothing is in the destination before the first option that writes, so that it
never is longer than `FileSize` when the deletion comes first.

The proof of `ContentTiles` found a premise missing: `Packed` let the section
headers begin within the ELF header, and a symbol table have more entries than
bytes, in files that the instances do not contain and for which the copy is not
faithful.  `Packed` now excludes them.

*Debug table.*  `NeverLeftOut`, that a name of the table stays between the bounds
of its search, is the invariant of the search; it needs `Sorted` and the bounds
themselves (`HalvingKeeps`), and
`Sorted` is kept by an insertion at the place the first loop finds
(`InsertedSorted`).

*Memory write.*  That a small memory stays in the packet says nothing of the
packet while it is filled: `DataSize` bounds the data by the bytes copied and the
escapes among them.  `CopyKeepsSize` shows that a byte, escaped or not, keeps the
bound, and `DataFit` that the bound leaves room for the trailer, an escape of the
packet being one of the memory (`EscapedFinite`).  `Packets` says that the
data being copied decode to the bytes copied, which goes on because no escape
waits for its character at their end (`Closed`, `EncodedSays`), and that what was
received, if anything, is one packet with the whole memory: data that leave room
for the trailer are shorter than a full chunk, so that the loop stopped because
the memory was used up.

*Client.*  Nothing is numbered, so that `Paired` rests on there never being two
things to answer under way.  `CInv` says so: of the tokens that make the other
side send something (`Active`: packets and `-`) there is at most one in both
directions together while the simulator is there, only while the client waits,
and it is about the current call, executed already or not according to the
direction and the kind.  Damage changes no kind, hence keeps it (`Damaging`); a
stray character would not: the client asks for something again that was not lost,
and gets a second answer after the first.  `Running` adds that a simulator that
only ends what `gdb_cont` started leaves nothing unanswered.  From both, a step of
the session is a step of `RemoteCalls` or a stutter (`ExecutedInTurn`,
`ReturnedInTurn`, `LogsKept`).  The types do without `bounds.stray = 0`: every packet under way, in either
direction, is one of a command of the program (`InProgram`), and a client that
waits has a call to make and a packet to send again; `TypeOK` is inductive with
them.

`ExactlyOnce` holds for another reason where characters are inserted: calls return
too early there, so that several commands may be on their way at once, but the
simulator never says `-`, which is the only thing that makes the client send a
packet twice.  `Ordered` says that what is under way to the simulator is then the
commands that were sent and not executed, each once and in order (`InOrder`);
`InOrderSend` and `InOrderExecute` are the two steps that change which.

*Connection.*  `Connecting` is the invariant of the loop of `arm_connect`: the
addresses before the one tried have failed and left no socket.

*Scanner.*  The properties compare what yylex does, a character at a time in a
buffer that is refilled, with a definition on the whole stream.  Three notions
connect them.  `Live(q, s, p, len)` says what the `len` characters of `s` from `p`
on look like when they leave the automaton in state `q`, without a token being
told; `Ends` that they are the token.  `Contents` says that the buffer, with the
character put back that the end of the last token hides (`Seen`), holds the
stream from the beginning of the token on, up to what was read, then the two
marks.  `Cut` is the position of the stream where the next token begins, the
same before and after a refill, and `Done` that the tokens made, followed by
those that the rules give from `Cut` on (`From`), are all those of the stream.

`TransitionTable` computes the 13 rows of the automaton from the tables of flex.
`OneMore` follows from it: with one more character the text goes on waiting, or
is the token, or no packet begins where it does, and then the token is its first
character alone (`SingleToken`; `PacketToken` shows that a packet has one end
only, so that the longest one is the first).  `OneLess` is the converse, from
which `RescannedText` shows that `yy_get_previous_state` finds the state again in
which the text was left, and the same last accepting state, null characters
included.  `Progress` gives each phase of yylex its part: the text matched so far is
`Live`, what is found is `Chosen`, and a null character is met either in the
text or at the first mark (`MeetsNul`).  `GrownFits` shows that doubling the buffer
ends with room for one character, `FilledFacts` and `RefillInv` that moving,
growing and filling it keeps `Contents`, whatever read gives; hence also "end of
buffer missed" is never reached.  At the end of the stream what waits begins no
packet (`WaitsAtEnd`), and is cut into single characters.

`NothingIsLost` is `Done` where `Cut` has come to the end of the stream.  For
`WaitsForToken`, what was read after `Cut` is `Live`, and `WaitingText` says of each
state that such a text is an incomplete packet or a null character.

Two definitions of `Scanner` are written for these proofs: `Pending` begins after
the concatenation of the texts, which is about the same characters as a sum of
their lengths, and `Transition` is a function of the state that gives a function
of the class.  The recursive functions (`Transition`, the run of `Rescanned`, the
doubling of `Grown`, `Tokens`) are shown to exist by induction on what they
recur on, as the sums above.

Assumptions, beyond the types of the constants (`NamesAssumption`,
`MaxAssumption`, `PacketAssumption`, `ArgvsAssumption`, `RoomsAssumption`,
`ProgramsAssumption`, `FaultsAssumption`, `CommandLinesAssumption`,
`HostsAssumption`, `RelTablesAssumption`, `StreamsAssumption`, `BufferAssumption`,
`EofsAssumption`): the files have the shape, tables and
layout of `ElfMain` (`SizesAssumption`, `SourcesAssumption`), those of `Loading` only
the shape (`LaunchesAssumption`), memories and escapes are those of
`MemoriesAssumption`, and symbol values fit in a word (`WordAssumption`).  TLC
evaluates them on the instances.

Only model-checked: all liveness (`Ends`, `SEnds`, `SearchEnds`, `CallsReturn`, and
the liveness part of `ImplementsCalls`, whose safety part is `CallsAreRemote`):
fairness and ENABLED are out of the prover's reach.

## What the code does not do

The findings of `PROJECT.json` are disagreements between the code and its
comments or usage text, each shown by a run.  Met while modelling and stated here
only, because the models take them as the behaviour of the code:

* `deleteRel` renumbers the links of HASH, DYNAMIC and SYMTAB sections only
  (`implantation.c:37`); SHT_RELA, SHT_GROUP and SHT_ARM_EXIDX keep old numbers.
* `realloc` and `free` get pointers that were never written when a section
  without bytes follows a relocation table (`implantation.c:25`), and `free` gets
  one at the end of every run, that of section 0 at least (`ARM_runner.c:163`).
* `correctSymTable` and `correctABSReloc` read the header of a symbol with a
  reserved index out of the table (`implantation.c:61`, `implantation.c:101`).
* The places of R_ARM_ABS32 relocations are not changed (`implantation.c:104`).
* `-w` loses what lies between the ELF header and the first section, and what
  follows a symbol or relocation table (`writeFile.c:128`): `CopyFaithful` is
  about files without such bytes (`Packed`).
* A disk that fills up may go unreported (`writeFile.c:161`, `ARM_runner.c:160`).
* The destination is emptied before the source is looked at (`ARM_runner.c:46`).
* A file with a `.bss` at the offset of the next section does not load
  (`readSectionContent.c:30`).
* One stray character can make `gdb_cont` return early; one that takes the place
  of the `-` for a damaged packet leaves client and simulator waiting for each
  other (`scanner.l:43`).
* `gdb_write_memory` and `gdb_write_register` do not look at what `gdb_get_answer`
  returns (`gdb_protocol.c:142`, `gdb_protocol.c:177`): the program goes on with its
  calls when the stream has ended.
* The 65th name given to `--debug` is dropped, or written past the table
  (`debug.c:39`).
* `--raw` is among the long options of `ARM_runner_example` and no case handles it
  (`ARM_runner_example.c:70`); the program ends as for an unknown option.
* When `fdopen` fails, `init_gdb_scanner` says nothing, and the first call that
  waits for an answer uses a scanner that was not made (`scanner.l:88`).
* `cleanup` closes neither the stream nor the socket (`arm_simulator_interface.c:88`).
* A null character outside a packet, at the end of what was read, makes the
  scanner read again before it gives that character to its rule.
* `printSectionContentOne` accepts a negative number (`readSectionContent.c:61`).

## Not modelled

* What the displays print: they change no state, and only where they read is
  modelled.
* The arithmetic of the addends (`sign_extend16`, `sign_extend8`): what it
  computes never reaches the structure.
* 64-bit files, program headers, failures of `malloc`.
* In `scanner.c`, the stack of several buffers, scans of strings and the
  accessors, which the program never calls; in `csapp.c`, every wrapper but
  `rio_writen` and `Getaddrinfo`, for the same reason.  Short writes are the loop
  of `rio_writen`, which ends when all is written or with an error.
* The cache of `CACHE_DEBUG_FLAG` (`debug.h`), which no build sets.
* The build files, the assembly examples, the test scripts.

## Plan

Done: every part of the code that keeps state, and a theorem for every safety
invariant that the passing runs check.

Left: the hazards of `PROJECT.json` that no property covers, each with its reason
there.  They are things the code does by construction, or a release of the heap
that may abort on every file: a property that excluded them would not hold.
