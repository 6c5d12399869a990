----------------------------- MODULE GdbClient ------------------------------
(***************************************************************************)
(* The client of the simulator: a program that calls the functions of      *)
(* arm_simulator_interface.c, which send one packet each (gdb_protocol.c)  *)
(* and wait in the scanner (scanner.l) for one packet that answers it.     *)
(*                                                                         *)
(* The simulator and the network are external.  The simulator acknowledges *)
(* a packet whose checksum is right, executes its command and answers;     *)
(* it asks for a packet again with "-" when the checksum is wrong, and     *)
(* sends its last answer again when it gets a "-".  The network keeps the  *)
(* order of what it carries, may damage a packet, and may put characters   *)
(* between two packets that belong to none.                                *)
(*                                                                         *)
(* A command is named by its rank in the program, an answer by the rank of *)
(* the command it answers, 0 standing for the end of the stream.           *)
(***************************************************************************)
EXTENDS Integers, Sequences, SequencesExt

CONSTANTS Programs,        \* the programs: sequences of the commands below
          MaxErrorSize,    \* characters the scanner collects before it complains
          Faults           \* what may go wrong, as FaultBounds says

\* gdb_write_memory, gdb_write_register, gdb_step, gdb_cont.
Commands == {"X", "P", "s", "c"}

ASSUME ProgramsAssumption == \A p \in Programs : p \in Seq(Commands)

\* How many packets the network may damage, how many stray characters it may
\* insert, and whether the simulator may end before the program.
FaultBounds == [damaged : Nat, stray : Nat, exit : BOOLEAN]

ASSUME FaultsAssumption == MaxErrorSize \in Nat \ {0} /\ Faults \subseteq FaultBounds

VARIABLES program,
          bounds,    \* the faults of this execution: no step changes them
          call,      \* rank of the current call
          client,    \* what the client is doing
          packet,    \* gdb->packet: the command it holds, 0 before the first
          junk,      \* data.len of the scanner
          answers,   \* what the calls that returned got
          toSim, toClient,  \* the two directions of the connection
          simulator, \* "ready", "running" a program or "gone"
          executed,  \* the commands executed by the simulator
          last,      \* the answer it sends again when asked, 0 if none
          corrupted, noise

clientVars == <<call, client, packet, junk, answers>>
simVars    == <<simulator, executed, last>>
faultVars  == <<corrupted, noise>>
vars == <<program, bounds, clientVars, toSim, toClient, simVars, faultVars>>

Packet(n) == [kind |-> "packet", n |-> n, ok |-> TRUE]
Sign(k)   == [kind |-> k, n |-> 0, ok |-> TRUE]

Init ==
  /\ program \in Programs /\ bounds \in Faults
  /\ call = 1 /\ client = "calling" /\ packet = 0 /\ junk = 0 /\ answers = <<>>
  /\ toSim = <<>> /\ toClient = <<>>
  /\ simulator = "ready" /\ executed = <<>> /\ last = 0
  /\ corrupted = 0 /\ noise = 0
-----------------------------------------------------------------------------
(***************************************************************************)
(* The client.                                                             *)
(***************************************************************************)
\* Rio_writen.  When the simulator has closed the connection, what is written
\* is lost or the signal that follows kills the client.
Emit(signs, after) ==
  \/ simulator # "gone" /\ toSim' = toSim \o signs /\ client' = after
  \/ simulator = "gone" /\ toSim' = toSim /\ client' = after
  \/ simulator = "gone" /\ toSim' = toSim /\ client' = "killed" /\ signs # <<>>

\* Mutant of SendPacket: the packet is built for the next call.
SendPacket_Ahead ==
  /\ client = "calling" /\ call <= Len(program)
  /\ packet' = call + 1
  /\ Emit(<<Packet(call)>>, "waiting")
  /\ UNCHANGED <<program, bounds, call, junk, answers, toClient, simVars, faultVars>>

\* gdb_send_buffer.  A call is one packet and its answer: gdb_write_memory sends
\* none of an empty memory, which is no command here, and a memory that takes
\* more than one overruns the packet before anything is sent (GdbMemory).
SendPacket ==
  /\ client = "calling" /\ call <= Len(program)
  /\ packet' = call
  /\ Emit(<<Packet(call)>>, "waiting")
  /\ UNCHANGED <<program, bounds, call, junk, answers, toClient, simVars, faultVars>>

\* The program has made its calls and ends.
EndProgram ==
  /\ client = "calling" /\ call > Len(program)
  /\ client' = "ended"
  /\ UNCHANGED <<program, bounds, call, packet, junk, answers, toSim, toClient, simVars, faultVars>>

\* handle_error: stray characters were read since the last token.
HandleError == IF junk > 0 THEN <<Sign("-")>> ELSE <<>>

\* The scanner reads the next token, of one of these kinds.
Token == toClient[1]

Reads(kind) ==
  /\ client = "waiting" /\ toClient # <<>> /\ Token.kind = kind
  /\ UNCHANGED <<program, bounds, simVars, faultVars>>

ReadAck ==
  /\ Reads("+")
  /\ Emit(HandleError, "waiting")
  /\ toClient' = Tail(toClient) /\ junk' = 0
  /\ UNCHANGED <<call, packet, answers>>

\* Mutants of ReadNak: the request is read and not answered; it is answered
\* twice.
ReadNak_Ignored ==
  /\ Reads("-")
  /\ Emit(HandleError, "waiting")
  /\ toClient' = Tail(toClient) /\ junk' = 0
  /\ UNCHANGED <<call, packet, answers>>

ReadNak_Twice ==
  /\ Reads("-")
  /\ Emit(<<Packet(packet), Packet(packet)>>, "waiting")
  /\ toClient' = Tail(toClient) /\ junk' = 0
  /\ UNCHANGED <<call, packet, answers>>

\* gdb_transmit_packet.
ReadNak ==
  /\ Reads("-")
  /\ Emit(HandleError \o <<Packet(packet)>>, "waiting")
  /\ toClient' = Tail(toClient) /\ junk' = 0
  /\ UNCHANGED <<call, packet, answers>>

\* Mutant of ReadDamaged: the packet is dropped and nothing is asked.
ReadDamaged_Silent ==
  /\ Reads("packet") /\ ~Token.ok
  /\ Emit(HandleError, "waiting")
  /\ toClient' = Tail(toClient) /\ junk' = 0
  /\ UNCHANGED <<call, packet, answers>>

\* gdb_packet_check finds another checksum than the packet's.
ReadDamaged ==
  /\ Reads("packet") /\ ~Token.ok
  /\ Emit(HandleError \o <<Sign("-")>>, "waiting")
  /\ toClient' = Tail(toClient) /\ junk' = 0
  /\ UNCHANGED <<call, packet, answers>>

\* The call returns with what it got; gdb_cont and, at the end of the stream,
\* gdb_step are followed by cleanup, after which the program is over.
Returns(n) ==
  /\ answers' = Append(answers, n)
  /\ call' = call + 1 /\ junk' = 0
  /\ UNCHANGED packet

After(n) ==
  IF program[call] = "c" \/ (program[call] = "s" /\ n = 0) THEN "cleaned" ELSE "calling"

\* Mutant of ReadAnswer: no acknowledgement, but a request to send it again.
ReadAnswer_Again ==
  /\ Reads("packet") /\ Token.ok
  /\ Emit(HandleError \o <<Sign("-")>>, After(Token.n))
  /\ toClient' = Tail(toClient)
  /\ Returns(Token.n)

ReadAnswer ==
  /\ Reads("packet") /\ Token.ok
  /\ Emit(HandleError \o <<Sign("+")>>, After(Token.n))
  /\ toClient' = Tail(toClient)
  /\ Returns(Token.n)

\* add_character_to_error.
ReadStray ==
  /\ Reads("stray")
  /\ Emit(IF junk >= MaxErrorSize THEN HandleError ELSE <<>>, "waiting")
  /\ toClient' = Tail(toClient)
  /\ junk' = IF junk >= MaxErrorSize THEN 1 ELSE junk + 1
  /\ UNCHANGED <<call, packet, answers>>

\* The stream has ended: it stays so for the calls that follow.
ReadEof ==
  /\ Reads("eof")
  /\ Emit(HandleError, After(0))
  /\ UNCHANGED toClient
  /\ Returns(0)

Client == \/ SendPacket \/ EndProgram
          \/ ReadAck \/ ReadNak \/ ReadDamaged \/ ReadAnswer \/ ReadStray \/ ReadEof
-----------------------------------------------------------------------------
(***************************************************************************)
(* The simulator.                                                          *)
(***************************************************************************)
Gets(kind) ==
  /\ simulator = "ready" /\ toSim # <<>> /\ toSim[1].kind = kind
  /\ toSim' = Tail(toSim)
  /\ UNCHANGED <<program, bounds, clientVars, faultVars>>

Execute ==
  /\ Gets("packet") /\ toSim[1].ok
  /\ executed' = Append(executed, toSim[1].n)
  /\ \/ /\ program[toSim[1].n] = "c"
        /\ simulator' = "running"
        /\ toClient' = Append(toClient, Sign("+"))
        /\ UNCHANGED last
     \/ /\ program[toSim[1].n] # "c"
        /\ toClient' = toClient \o <<Sign("+"), Packet(toSim[1].n)>>
        /\ last' = toSim[1].n
        /\ UNCHANGED simulator

Refuse ==
  /\ Gets("packet") /\ ~toSim[1].ok
  /\ toClient' = Append(toClient, Sign("-"))
  /\ UNCHANGED simVars

Acknowledged ==
  /\ Gets("+")
  /\ UNCHANGED <<toClient, simVars>>

AnswerAgain ==
  /\ Gets("-")
  /\ toClient' = IF last = 0 THEN toClient ELSE Append(toClient, Packet(last))
  /\ UNCHANGED simVars

\* The simulation ends, or the simulator does.
Exit ==
  /\ simulator = "running" \/ (simulator = "ready" /\ bounds.exit)
  /\ simulator' = "gone"
  /\ toClient' = Append(toClient, Sign("eof"))
  /\ UNCHANGED <<program, bounds, clientVars, toSim, executed, last, faultVars>>

Simulator == Execute \/ Refuse \/ Acknowledged \/ AnswerAgain \/ Exit
-----------------------------------------------------------------------------
(***************************************************************************)
(* The network.                                                            *)
(***************************************************************************)
Damage(channel, p) == [channel EXCEPT ![p].ok = FALSE]

Corrupt ==
  /\ corrupted < bounds.damaged
  /\ corrupted' = corrupted + 1
  /\ \/ /\ \E p \in DOMAIN toSim : toSim[p].kind = "packet" /\ toSim' = Damage(toSim, p)
        /\ UNCHANGED toClient
     \/ /\ \E p \in DOMAIN toClient : toClient[p].kind = "packet" /\ toClient' = Damage(toClient, p)
        /\ UNCHANGED toSim
  /\ UNCHANGED <<program, bounds, clientVars, simVars, noise>>

\* A character nobody sent comes before token p of those under way, or takes
\* the place of a sign.
Noise ==
  /\ noise < bounds.stray
  /\ noise' = noise + 1
  /\ \E p \in 1 .. Len(toClient) :
       \/ toClient' = InsertAt(toClient, p, Sign("stray"))
       \/ toClient[p].kind \in {"+", "-"} /\ toClient' = [toClient EXCEPT ![p] = Sign("stray")]
  /\ UNCHANGED <<program, bounds, clientVars, toSim, simVars, corrupted>>

Next == Client \/ Simulator \/ Corrupt \/ Noise

Spec == Init /\ [][Next]_vars
-----------------------------------------------------------------------------
(***************************************************************************)
(* Properties.                                                             *)
(***************************************************************************)
Tokens == [kind : {"+", "-", "packet", "stray", "eof"}, n : Nat, ok : BOOLEAN]

\* What may be under way: a packet of a command of the program.
InProgram == {t \in Tokens : t.n <= Len(program) /\ (t.kind = "packet" => t.n # 0)}

TypeOK ==
  /\ program \in Programs /\ bounds \in Faults /\ call \in 1 .. Len(program) + 1
  /\ client \in {"calling", "waiting", "ended", "cleaned", "killed"}
  /\ client = "waiting" => call <= Len(program) /\ packet # 0
  /\ packet \in 0 .. Len(program) /\ junk \in 0 .. MaxErrorSize
  /\ answers \in Seq(0 .. Len(program))
  /\ toSim \in Seq(InProgram) /\ toClient \in Seq(InProgram)
  /\ simulator \in {"ready", "running", "gone"}
  /\ executed \in Seq(1 .. Len(program)) /\ last \in 0 .. Len(program)
  /\ corrupted \in 0 .. bounds.damaged /\ noise \in 0 .. bounds.stray

\* Whatever is sent again, the simulator executes each command of the program
\* at most once, in the order of the program, and misses none (scanner.l:64-68,
\* gdb_protocol.c:228-231).
ExactlyOnce == \A n \in DOMAIN executed : executed[n] = n

\* The network does not both damage packets and insert characters.
OneFault == bounds.damaged = 0 \/ bounds.stray = 0

\* Through such a network each command is executed once and in order, whatever
\* is sent again or inserted, and whenever the simulator ends (scanner.l:63-77,
\* gdb_protocol.c:228-231).
OnceUnlessBothFaults == OneFault => ExactlyOnce

\* A call that returned with an answer got the answer to its own command, not
\* one that was under way for an earlier call, and what it got was executed
\* (gdb_protocol.c:72-83).
Paired ==
  bounds.stray = 0 =>
    \A n \in DOMAIN answers : answers[n] = 0 \/ (answers[n] = n /\ n <= Len(executed))
=============================================================================
