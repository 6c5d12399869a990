------------------------------ MODULE Session ------------------------------
(***************************************************************************)
(* A program that uses the simulator from its command line to its end      *)
(* (ARM_runner_example.c, arm_simulator_interface.c): it reads its         *)
(* options, connects to one of the addresses of the host, and makes its    *)
(* calls through the client of module GdbClient.                           *)
(***************************************************************************)
EXTENDS GdbClient, FiniteSets

CONSTANTS CommandLines,  \* the options the program may be given
          Hosts          \* what the system gives to a program that connects

Options == {"host", "service", "debug", "help", "raw"}

\* What socket and connect do with an address.
Addresses == {"nosocket", "refuses", "accepts"}

\* The addresses getaddrinfo finds, none when it fails, and whether fdopen makes
\* a stream of a socket.
HostKinds == [addresses : Seq(Addresses), stream : BOOLEAN]

ASSUME CommandLinesAssumption == \A c \in CommandLines : c \in Seq(Options)
ASSUME HostsAssumption == Hosts \subseteq HostKinds

VARIABLES argv, host,  \* of this execution: no step changes them
          main,        \* where the program is
          optind,      \* options read
          hostname, servicename,  \* they were given
          rp,          \* rank of the address it tries
          sockets,     \* the open sockets, each named by the rank of its address
          scanner      \* the scanner has been made

connectVars == <<argv, host, optind, hostname, servicename, rp, sockets, scanner>>
svars == <<vars, connectVars, main>>

\* At its end the program is in "usage", "unrecognized", "dns_error",
\* "unconnected" or "crashed", or in "calls" with its client ended.
SInit ==
  /\ Init
  /\ argv \in CommandLines /\ host \in Hosts
  /\ main = "options" /\ optind = 0 /\ hostname = FALSE /\ servicename = FALSE
  /\ rp = 0 /\ sockets = {} /\ scanner = FALSE
-----------------------------------------------------------------------------
(***************************************************************************)
(* The options (ARM_runner_example.c).                                     *)
(***************************************************************************)
\* getopt_long: the next option.  --raw is among the long options and has no
\* case of its own.
ReadOption ==
  /\ main = "options" /\ optind < Len(argv)
  /\ optind' = optind + 1
  /\ hostname'    = (hostname    \/ argv[optind'] = "host")
  /\ servicename' = (servicename \/ argv[optind'] = "service")
  /\ main' = CASE argv[optind'] = "help" -> "usage"
               [] argv[optind'] = "raw" -> "unrecognized"
               [] OTHER -> "options"
  /\ UNCHANGED <<vars, argv, host, rp, sockets, scanner>>

\* Getaddrinfo, called by arm_connect: it fails at least when it has neither
\* name, and ends the program.
Resolve ==
  /\ main = "options" /\ optind = Len(argv)
  /\ \/ /\ (hostname \/ servicename) /\ host.addresses # <<>>
        /\ main' = "socket" /\ rp' = 1
     \/ /\ ~(hostname \/ servicename) \/ host.addresses = <<>>
        /\ main' = "dns_error" /\ UNCHANGED rp
  /\ UNCHANGED <<vars, argv, host, optind, hostname, servicename, sockets, scanner>>
-----------------------------------------------------------------------------
(***************************************************************************)
(* arm_connect.                                                            *)
(***************************************************************************)
NextAddress ==
  IF rp = Len(host.addresses) THEN main' = "unconnected" /\ UNCHANGED rp
  ELSE main' = "socket" /\ rp' = rp + 1

Socket ==
  /\ main = "socket"
  /\ \/ host.addresses[rp] = "nosocket" /\ NextAddress /\ UNCHANGED sockets
     \/ /\ host.addresses[rp] # "nosocket"
        /\ sockets' = sockets \cup {rp}
        /\ main' = "connect" /\ UNCHANGED rp
  /\ UNCHANGED <<vars, argv, host, optind, hostname, servicename, scanner>>

\* Mutant of Refused: the socket stays open.
Refused_Open ==
  /\ main = "connect" /\ host.addresses[rp] = "refuses"
  /\ NextAddress
  /\ UNCHANGED <<vars, argv, host, optind, hostname, servicename, sockets, scanner>>

Refused ==
  /\ main = "connect" /\ host.addresses[rp] = "refuses"
  /\ sockets' = sockets \ {rp}
  /\ NextAddress
  /\ UNCHANGED <<vars, argv, host, optind, hostname, servicename, scanner>>

\* gdb_init_data, then init_gdb_scanner, which makes no scanner when fdopen
\* fails; the program makes its calls all the same.
Connected ==
  /\ main = "connect" /\ host.addresses[rp] = "accepts"
  /\ scanner' = host.stream
  /\ main' = "calls"
  /\ UNCHANGED <<vars, argv, host, optind, hostname, servicename, rp, sockets>>

\* yylex is given no scanner when the program waits for its first answer.
NoScanner ==
  /\ main = "calls" /\ client = "waiting" /\ ~scanner
  /\ main' = "crashed"
  /\ UNCHANGED <<vars, connectVars>>

\* The calls.  cleanup closes neither the socket nor its stream.
SClient ==
  /\ main = "calls" /\ Client
  /\ client = "waiting" => scanner
  /\ UNCHANGED <<connectVars, main>>

Main == ReadOption \/ Resolve \/ Socket \/ Refused \/ Connected \/ NoScanner \/ SClient
-----------------------------------------------------------------------------
\* The simulator and the network, as long as there is a connection.
Serves ==
  /\ main = "calls" /\ (Execute \/ Refuse \/ Acknowledged \/ AnswerAgain)
  /\ UNCHANGED <<connectVars, main>>

Leaves(when) ==
  /\ main = "calls" /\ when /\ Exit
  /\ UNCHANGED <<connectVars, main>>

Fault ==
  /\ main = "calls" /\ (Corrupt \/ Noise)
  /\ UNCHANGED <<connectVars, main>>

SNext == Main \/ Serves \/ Leaves(TRUE) \/ Fault

\* The program has one thread, which waits for nothing but the stream; the
\* simulator goes on reading, and ends what it runs.
SSpec == SInit /\ [][SNext]_svars
               /\ WF_svars(Main) /\ WF_svars(Serves) /\ WF_svars(Leaves(simulator = "running"))
-----------------------------------------------------------------------------
(***************************************************************************)
(* Properties.                                                             *)
(***************************************************************************)
STypeOK ==
  /\ TypeOK
  /\ argv \in CommandLines /\ host \in Hosts /\ optind \in 0 .. Len(argv)
  /\ main \in {"options", "usage", "unrecognized", "dns_error", "socket", "connect",
              "unconnected", "calls", "crashed"}
  /\ hostname \in BOOLEAN /\ servicename \in BOOLEAN /\ scanner \in BOOLEAN
  /\ rp \in 0 .. Len(host.addresses) /\ sockets \subseteq DOMAIN host.addresses

Over == \/ main \in {"usage", "unrecognized", "dns_error", "unconnected"}
        \/ main = "crashed" /\ ~host.stream
        \/ main = "calls" /\ client \in {"ended", "cleaned", "killed"}

\* The two sides wait for each other: a packet was damaged, a stray character
\* took the place of the "-" that asked for it again, and the scanner keeps
\* what it read until something else comes (scanner.l:43, 76).
Stuck ==
  /\ main = "calls" /\ client = "waiting" /\ simulator = "ready"
  /\ toSim = <<>> /\ toClient = <<>>
  /\ junk > 0 /\ corrupted > 0 /\ noise > 0

\* "Try each address until we successfully connect(2)": the program talks to
\* the first address that accepts, every other socket it made is closed, and it
\* gives up only when no address accepts (arm_simulator_interface.c:50-67).
FirstReachable ==
  LET accepts == {r \in DOMAIN host.addresses : host.addresses[r] = "accepts"}
  IN /\ main \in {"calls", "crashed"} =>
          rp \in accepts /\ sockets = {rp} /\ \A r \in accepts : rp <= r
     /\ main = "unconnected" => accepts = {} /\ sockets = {}

\* The program talks to a simulator.
Reaches ==
  /\ \A k \in DOMAIN argv : argv[k] \notin {"help", "raw"}
  /\ \E k \in DOMAIN argv : argv[k] \in {"host", "service"}
  /\ \E r \in DOMAIN host.addresses : host.addresses[r] = "accepts"
  /\ host.stream

\* Whatever the addresses and the moment when the simulator ends, the program
\* comes to its end: what was damaged is asked for again, and what was inserted
\* is dropped.  There is no timer, so that one thing stops it for good: damage
\* and stray characters together, as Stuck says.  It crashes only when fdopen
\* made no stream (scanner.l:42-56, 63-77, 88-92, arm_simulator_interface.c:55-67).
SEnds == <>[](Over \/ Stuck)

\* For a program that reaches a simulator that stays, through a network that
\* only damages packets, the calls through the interface are remote calls, each
\* executed once and in order, and all are made.
Promised == Reaches /\ bounds.stray = 0 /\ ~bounds.exit

Calls == INSTANCE RemoteCalls WITH
           calls    <- IF Promised THEN Len(program) ELSE 0,
           executed <- IF Promised THEN Len(executed) ELSE 0,
           returned <- IF Promised THEN Len(answers) ELSE 0

ImplementsCalls == Calls!Spec
=============================================================================
