--------------------------- MODULE Session_proofs ---------------------------
(***************************************************************************)
(* The calls (module GdbClient): for every program and every moment when   *)
(* the simulator ends, answers are those to their own commands through a   *)
(* network that damages packets and inserts nothing, and each command is   *)
(* executed once through one that damages packets or inserts characters    *)
(* and does not do both.                                                   *)
(*                                                                         *)
(* arm_connect talks to the first address that accepts, for every list of  *)
(* addresses and every program; what is proved of the calls is true of a   *)
(* program that connects first (module Session).                           *)
(***************************************************************************)
EXTENDS Session, TLAPS

\* What makes the other side send something: a packet, or a request.
Active(t) == t.kind \in {"packet", "-"}

Calm(s) == \A p \in 1 .. Len(s) : ~Active(s[p])

Single(s) == \A p, q \in 1 .. Len(s) : Active(s[p]) /\ Active(s[q]) => p = q

Shapes ==
  /\ bounds.stray = 0 /\ noise = 0 /\ junk = 0
  /\ call \in Nat \ {0} /\ packet \in Nat /\ last \in Nat
  /\ answers \in Seq(Nat) /\ executed \in Seq(Nat)
  /\ toSim \in Seq(Tokens) /\ toClient \in Seq(Tokens)

\* The calls that returned, and the commands that were executed.
Logs ==
  /\ Len(answers) = call - 1
  /\ \A n \in 1 .. Len(answers) : answers[n] = 0 \/ (answers[n] = n /\ n <= Len(executed))
  /\ \A n \in 1 .. Len(executed) : executed[n] = n

\* On its way to the client there is at most one answer, to the current call.
ToClientOK ==
  /\ Single(toClient)
  /\ \A p \in 1 .. Len(toClient) :
       /\ toClient[p].kind # "stray"
       /\ Active(toClient[p]) => client = "waiting"
       /\ toClient[p].kind = "packet" =>
            toClient[p].n = call /\ Len(executed) = call /\ last = call
       /\ toClient[p].kind = "eof" => p = Len(toClient) /\ simulator = "gone"

\* As long as there is a simulator, one side at a time has something to answer.
ToSimOK ==
  simulator # "gone" =>
    /\ Single(toSim)
    /\ \A p \in 1 .. Len(toSim) :
         /\ Active(toSim[p]) => client = "waiting" /\ Calm(toClient)
         /\ toSim[p].kind = "packet" => toSim[p].n = call /\ Len(executed) = call - 1
         /\ toSim[p].kind = "-" => Len(executed) = call /\ last = call
    /\ \A p \in 1 .. Len(toClient) : toClient[p].kind = "-" => Len(executed) = call - 1
    /\ client # "waiting" => Len(executed) = call - 1

CInv ==
  /\ Shapes /\ Logs /\ ToClientOK /\ ToSimOK
  /\ client = "waiting" => packet = call

-----------------------------------------------------------------------------
(***************************************************************************)
(* Sequences of tokens.                                                    *)
(***************************************************************************)
LEMMA Adding ==
  ASSUME NEW s \in Seq(Tokens), NEW t \in Tokens
  PROVE  /\ s \o <<t>> = Append(s, t) /\ Append(s, t) \in Seq(Tokens)
         /\ Len(Append(s, t)) = Len(s) + 1 /\ Len(s) \in Nat
         /\ \A p \in 1 .. Len(s) : Append(s, t)[p] = s[p]
         /\ Append(s, t)[Len(s) + 1] = t
         /\ ~Active(t) /\ Calm(s) => Calm(Append(s, t))
         /\ ~Active(t) /\ Single(s) => Single(Append(s, t))
         /\ Calm(s) => Single(Append(s, t))
<1>1. /\ s \o <<t>> = Append(s, t) /\ Append(s, t) \in Seq(Tokens)
      /\ Len(Append(s, t)) = Len(s) + 1 /\ Len(s) \in Nat
      /\ \A p \in 1 .. Len(s) : Append(s, t)[p] = s[p]
      /\ Append(s, t)[Len(s) + 1] = t
  OBVIOUS
<1>2. \A p \in 1 .. Len(Append(s, t)) : p \in 1 .. Len(s) \/ p = Len(s) + 1
  BY <1>1
<1> QED
  BY <1>1, <1>2 DEF Calm, Single

LEMMA Taking ==
  ASSUME NEW s \in Seq(Tokens), s # <<>>
  PROVE  /\ Tail(s) \in Seq(Tokens) /\ Len(s) \in Nat \ {0} /\ Len(Tail(s)) = Len(s) - 1
         /\ s[1] \in Tokens
         /\ \A p \in 1 .. Len(Tail(s)) : p + 1 \in 1 .. Len(s) /\ Tail(s)[p] = s[p + 1]
         /\ Calm(s) => Calm(Tail(s))
         /\ Single(s) => Single(Tail(s))
         /\ Single(s) /\ Active(s[1]) => Calm(Tail(s))
<1>1. /\ Tail(s) \in Seq(Tokens) /\ Len(s) \in Nat \ {0} /\ Len(Tail(s)) = Len(s) - 1
      /\ s[1] \in Tokens
      /\ \A p \in 1 .. Len(Tail(s)) : p + 1 \in 1 .. Len(s) /\ Tail(s)[p] = s[p + 1]
  OBVIOUS
<1>2. 1 \in 1 .. Len(s) /\ \A p \in 1 .. Len(Tail(s)) : p + 1 # 1
  BY <1>1
<1>3. Calm(s) => Calm(Tail(s))
  BY <1>1 DEF Calm
<1>4. Single(s) => Single(Tail(s))
  <2> SUFFICES ASSUME Single(s), NEW p \in 1 .. Len(Tail(s)), NEW q \in 1 .. Len(Tail(s)),
                      Active(Tail(s)[p]), Active(Tail(s)[q])
               PROVE  p = q
    BY DEF Single
  <2>1. p + 1 = q + 1
    BY <1>1 DEF Single
  <2> QED
    BY <2>1
<1>5. Single(s) /\ Active(s[1]) => Calm(Tail(s))
  BY <1>1, <1>2 DEF Single, Calm
<1> QED
  BY <1>1, <1>3, <1>4, <1>5

LEMMA Damaging ==
  ASSUME NEW s \in Seq(Tokens), NEW q \in 1 .. Len(s)
  PROVE  /\ Damage(s, q) \in Seq(Tokens) /\ Len(Damage(s, q)) = Len(s)
         /\ \A p \in 1 .. Len(s) : /\ Damage(s, q)[p].kind = s[p].kind
                                   /\ Damage(s, q)[p].n = s[p].n
<1>1. s \in [1 .. Len(s) -> Tokens] /\ Len(s) \in Nat
  OBVIOUS
<1>2. \A p \in 1 .. Len(s) : Damage(s, q)[p] = IF p = q THEN [s[p] EXCEPT !.ok = FALSE] ELSE s[p]
  BY <1>1 DEF Damage
<1>3. \A p \in 1 .. Len(s) : /\ Damage(s, q)[p] \in Tokens
                             /\ Damage(s, q)[p].kind = s[p].kind /\ Damage(s, q)[p].n = s[p].n
  BY <1>1, <1>2 DEF Tokens
<1>4. DOMAIN Damage(s, q) = 1 .. Len(s)
  BY <1>1 DEF Damage
<1>5. Damage(s, q) \in [1 .. Len(s) -> Tokens]
  BY <1>1, <1>3, <1>4 DEF Damage
<1> QED
  BY <1>1, <1>3, <1>5

LEMMA Signs ==
  /\ \A k \in {"+", "-", "eof"} : Sign(k) \in Tokens /\ Sign(k).kind = k
  /\ \A n \in Nat : Packet(n) \in Tokens /\ Packet(n).kind = "packet" /\ Packet(n).n = n
BY DEF Sign, Packet, Tokens
-----------------------------------------------------------------------------
LEMMA InitCInv == Init => (bounds.stray = 0 => CInv)
<1> SUFFICES ASSUME Init, bounds.stray = 0 PROVE CInv
  OBVIOUS
<1>1. /\ call = 1 /\ client = "calling" /\ packet = 0 /\ junk = 0 /\ answers = <<>>
      /\ toSim = <<>> /\ toClient = <<>> /\ simulator = "ready" /\ executed = <<>>
      /\ last = 0 /\ noise = 0
  BY DEF Init
<1> QED
  BY <1>1 DEF CInv, Shapes, Logs, ToClientOK, ToSimOK, Single, Calm

LEMMA SendStep ==
  ASSUME CInv, SendPacket
  PROVE  CInv'
<1>1. /\ client = "calling" /\ packet' = call /\ Emit(<<Packet(call)>>, "waiting")
      /\ UNCHANGED <<bounds, call, junk, answers, toClient, simulator, executed, last, noise>>
  BY DEF SendPacket, simVars, faultVars
<1>2. Packet(call) \in Tokens /\ Packet(call).kind = "packet" /\ Packet(call).n = call
  BY Signs DEF CInv, Shapes
<1>3. Calm(toClient) /\ Single(toClient)
  BY <1>1 DEF CInv, ToClientOK, Calm
<1>4. CASE simulator # "gone" /\ toSim' = toSim \o <<Packet(call)>> /\ client' = "waiting"
  <2>1. Calm(toSim) /\ Len(executed) = call - 1
    BY <1>1, <1>4 DEF CInv, ToSimOK, Calm
  <2>2. toSim' = Append(toSim, Packet(call))
    BY <1>2, <1>4, Adding DEF CInv, Shapes
  <2>3. toSim' \in Seq(Tokens) /\ Single(toSim') /\ Len(toSim') = Len(toSim) + 1
        /\ Len(toSim) \in Nat
        /\ (\A p \in 1 .. Len(toSim) : toSim'[p] = toSim[p])
        /\ toSim'[Len(toSim) + 1] = Packet(call)
    BY <1>2, <2>1, <2>2, Adding DEF CInv, Shapes
  <2>4. \A p \in 1 .. Len(toSim') : ~Active(toSim'[p]) \/ toSim'[p] = Packet(call)
    BY <2>1, <2>3 DEF Calm
  <2>5. ToSimOK'
    BY <1>1, <1>2, <1>3, <1>4, <2>1, <2>3, <2>4 DEF ToSimOK, CInv, Active, Calm
  <2>6. ToClientOK'
    BY <1>1, <1>4 DEF ToClientOK, CInv
  <2> QED
    BY <1>1, <1>4, <2>3, <2>5, <2>6 DEF CInv, Shapes, Logs
<1>5. CASE simulator = "gone" /\ toSim' = toSim /\ client' \in {"waiting", "killed"}
  <2>1. ToClientOK'
    BY <1>1, <1>3, <1>5 DEF ToClientOK, CInv, Calm, Active
  <2> QED
    BY <1>1, <1>5, <2>1 DEF CInv, Shapes, Logs, ToSimOK
<1> QED
  BY <1>1, <1>4, <1>5 DEF Emit

\* The first token of toClient is read.
LEMMA ReadFacts ==
  ASSUME CInv, NEW kind, Reads(kind), toClient' = Tail(toClient)
  PROVE  /\ client = "waiting" /\ packet = call /\ HandleError = <<>>
         /\ 1 \in 1 .. Len(toClient) /\ Token \in Tokens /\ Token.kind = kind
         /\ toClient' \in Seq(Tokens) /\ Single(toClient')
         /\ Active(Token) => Calm(toClient')
         /\ UNCHANGED <<bounds, simulator, executed, last, noise>>
         /\ \A p \in 1 .. Len(toClient') :
              /\ p + 1 \in 1 .. Len(toClient) /\ toClient'[p] = toClient[p + 1]
              /\ toClient'[p].kind # "stray"
              /\ toClient'[p].kind = "packet" =>
                   toClient'[p].n = call /\ Len(executed) = call /\ last = call
              /\ toClient'[p].kind = "eof" => p = Len(toClient') /\ simulator = "gone"
<1>1. /\ client = "waiting" /\ toClient # <<>> /\ toClient \in Seq(Tokens) /\ Single(toClient)
      /\ packet = call /\ junk = 0 /\ Token = toClient[1] /\ Token.kind = kind
      /\ UNCHANGED <<bounds, simulator, executed, last, noise>>
  BY DEF Reads, simVars, faultVars, CInv, Shapes, ToClientOK, Token
<1>2. /\ toClient' \in Seq(Tokens) /\ Len(toClient) \in Nat \ {0}
      /\ Len(toClient') = Len(toClient) - 1 /\ Single(toClient')
      /\ Token \in Tokens
      /\ Active(Token) => Calm(toClient')
      /\ \A p \in 1 .. Len(toClient') : p + 1 \in 1 .. Len(toClient) /\ toClient'[p] = toClient[p + 1]
  BY <1>1, Taking
<1>3. ASSUME NEW p \in 1 .. Len(toClient')
      PROVE  /\ toClient'[p].kind # "stray"
             /\ toClient'[p].kind = "packet" =>
                  toClient'[p].n = call /\ Len(executed) = call /\ last = call
             /\ toClient'[p].kind = "eof" => p = Len(toClient') /\ simulator = "gone"
  <2>1. p + 1 \in 1 .. Len(toClient) /\ toClient'[p] = toClient[p + 1]
    BY <1>2
  <2>2. /\ toClient[p + 1].kind # "stray"
        /\ toClient[p + 1].kind = "packet" =>
             toClient[p + 1].n = call /\ Len(executed) = call /\ last = call
        /\ toClient[p + 1].kind = "eof" => p + 1 = Len(toClient) /\ simulator = "gone"
    BY <2>1 DEF CInv, ToClientOK
  <2>3. p + 1 = Len(toClient) => p = Len(toClient')
    <3>1. \A m, l \in Nat : m = l - 1 => \A i \in 1 .. m : i + 1 = l => i = m
      OBVIOUS
    <3>2. Len(toClient) \in Nat /\ Len(toClient') \in Nat /\ Len(toClient') = Len(toClient) - 1
      BY <1>2
    <3> QED
      BY <3>1, <3>2, Zenon
  <2> QED
    BY <2>1, <2>2, <2>3
<1>4. HandleError = <<>>
  <2>1. ~(junk > 0)
    BY <1>1
  <2> QED
    BY <2>1 DEF HandleError
<1>5. 1 \in 1 .. Len(toClient)
  BY <1>2
<1> QED
  BY <1>1, <1>2, <1>3, <1>4, <1>5

\* What toSim becomes when the client sends one token.
LEMMA Sending ==
  ASSUME CInv, NEW t \in Tokens, NEW after, Emit(<<t>>, after)
  PROVE  \/ /\ simulator # "gone" /\ client' = after /\ toSim' = Append(toSim, t)
            /\ toSim' \in Seq(Tokens) /\ Len(toSim') = Len(toSim) + 1 /\ Len(toSim) \in Nat
            /\ toSim'[Len(toSim) + 1] = t
            /\ \A p \in 1 .. Len(toSim) : toSim'[p] = toSim[p]
         \/ simulator = "gone" /\ toSim' = toSim /\ client' \in {after, "killed"}
<1>1. toSim \in Seq(Tokens)
  BY DEF CInv, Shapes
<1>2. CASE simulator # "gone" /\ toSim' = toSim \o <<t>> /\ client' = after
  BY <1>1, <1>2, Adding
<1>3. CASE simulator = "gone" /\ toSim' = toSim /\ client' \in {after, "killed"}
  BY <1>3
<1> QED
  BY <1>2, <1>3 DEF Emit

LEMMA AckStep ==
  ASSUME CInv, ReadAck
  PROVE  CInv'
<1>1. Reads("+") /\ toClient' = Tail(toClient) /\ junk' = 0 /\ Emit(HandleError, "waiting")
      /\ UNCHANGED <<call, packet, answers>>
  BY DEF ReadAck
<1>2. HandleError = <<>>
  BY <1>1, ReadFacts
<1>3. client' = "waiting" /\ toSim' = toSim
  BY <1>1, <1>2 DEF Emit, CInv, Shapes
<1>4. ToClientOK'
  BY <1>1, <1>3, ReadFacts DEF ToClientOK
<1>5. ToSimOK'
  <2> SUFFICES ASSUME simulator # "gone" PROVE ToSimOK'
    BY <1>1, ReadFacts DEF ToSimOK
  <2>1. Calm(toClient) => Calm(toClient')
    BY <1>1, Taking DEF Reads, CInv, Shapes
  <2>2. \A p \in 1 .. Len(toClient') : toClient'[p].kind = "-" => Len(executed) = call - 1
    BY <1>1, ReadFacts DEF CInv, ToSimOK
  <2> QED
    BY <1>1, <1>3, <2>1, <2>2, ReadFacts DEF CInv, ToSimOK
<1> QED
  BY <1>1, <1>3, <1>4, <1>5, ReadFacts DEF CInv, Shapes, Logs

\* The client answers a token that waited for it with one that the simulator
\* has to answer.
LEMMA ReplyStep ==
  ASSUME CInv, NEW kind, Reads(kind), Active(Token), toClient' = Tail(toClient), junk' = 0,
         UNCHANGED <<call, packet, answers>>,
         NEW t \in Tokens, Emit(<<t>>, "waiting"),
         simulator # "gone" =>
           \/ t.kind = "packet" /\ t.n = call /\ Len(executed) = call - 1
           \/ t.kind = "-" /\ Len(executed) = call /\ last = call
  PROVE  CInv'
<1>1. Calm(toClient')
  BY ReadFacts
<1>2. simulator # "gone" => Calm(toSim) /\ Single(toSim)
  BY ReadFacts DEF CInv, ToSimOK, Calm, Token
<1>3. ToClientOK'
  BY <1>1, ReadFacts DEF ToClientOK, Calm
<1>4. CASE /\ simulator # "gone" /\ client' = "waiting" /\ toSim' = Append(toSim, t)
           /\ toSim' \in Seq(Tokens) /\ Len(toSim') = Len(toSim) + 1 /\ Len(toSim) \in Nat
           /\ toSim'[Len(toSim) + 1] = t
           /\ \A p \in 1 .. Len(toSim) : toSim'[p] = toSim[p]
  <2>1. \A p \in 1 .. Len(toSim') : toSim'[p] = t \/ ~Active(toSim'[p])
    BY <1>2, <1>4 DEF Calm
  <2>2. Single(toSim')
    BY <1>2, <1>4, Adding DEF CInv, Shapes
  <2>3. \A p \in 1 .. Len(toClient') : toClient'[p].kind # "-"
    BY <1>1 DEF Calm, Active
  <2>4. ToSimOK'
    BY <1>1, <1>4, <2>1, <2>2, <2>3, ReadFacts DEF ToSimOK, Active
  <2> QED
    BY <1>3, <1>4, <2>4, ReadFacts DEF CInv, Shapes, Logs
<1>5. CASE simulator = "gone" /\ toSim' = toSim /\ client' \in {"waiting", "killed"}
  BY <1>3, <1>5, ReadFacts DEF CInv, Shapes, Logs, ToSimOK
<1> QED
  BY <1>4, <1>5, Sending

LEMMA NakStep ==
  ASSUME CInv, ReadNak
  PROVE  CInv'
<1>1. Reads("-") /\ toClient' = Tail(toClient) /\ junk' = 0
      /\ Emit(HandleError \o <<Packet(packet)>>, "waiting") /\ UNCHANGED <<call, packet, answers>>
  BY DEF ReadNak
<1>2. HandleError = <<>> /\ packet = call /\ Token.kind = "-" /\ 1 \in 1 .. Len(toClient)
  BY <1>1, ReadFacts
<1>3. Packet(call) \in Tokens /\ Packet(call).kind = "packet" /\ Packet(call).n = call
  BY Signs DEF CInv, Shapes
<1>4. Emit(<<Packet(call)>>, "waiting")
  BY <1>1, <1>2
<1>5. simulator # "gone" => Len(executed) = call - 1
  BY <1>2 DEF CInv, ToSimOK, Token
<1> QED
  BY <1>1, <1>2, <1>3, <1>4, <1>5, ReplyStep DEF Active

LEMMA DamagedStep ==
  ASSUME CInv, ReadDamaged
  PROVE  CInv'
<1>1. Reads("packet") /\ toClient' = Tail(toClient) /\ junk' = 0
      /\ Emit(HandleError \o <<Sign("-")>>, "waiting") /\ UNCHANGED <<call, packet, answers>>
  BY DEF ReadDamaged
<1>2. HandleError = <<>> /\ Token.kind = "packet" /\ 1 \in 1 .. Len(toClient)
  BY <1>1, ReadFacts
<1>3. Sign("-") \in Tokens /\ Sign("-").kind = "-"
  BY Signs
<1>4. Emit(<<Sign("-")>>, "waiting")
  BY <1>1, <1>2
<1>5. Len(executed) = call /\ last = call
  BY <1>2 DEF CInv, ToClientOK, Token
<1> QED
  BY <1>1, <1>2, <1>3, <1>4, <1>5, ReplyStep DEF Active

\* A call returns: nothing it waited for is left.
LEMMA ReturnLogs ==
  ASSUME CInv, NEW n \in Nat, Returns(n), executed' = executed,
         n = 0 \/ (n = call /\ n <= Len(executed))
  PROVE  /\ Logs' /\ answers' \in Seq(Nat) /\ call' \in Nat \ {0}
         /\ call' = call + 1 /\ junk' = 0 /\ packet' = packet
<1>1. /\ answers' = Append(answers, n) /\ call' = call + 1 /\ junk' = 0 /\ packet' = packet
      /\ answers \in Seq(Nat) /\ call \in Nat \ {0} /\ Len(answers) = call - 1
  BY DEF Returns, CInv, Shapes, Logs
<1>2. /\ answers' \in Seq(Nat) /\ Len(answers') = call /\ answers'[call] = n
      /\ \A q \in 1 .. Len(answers) : answers'[q] = answers[q]
  BY <1>1
<1>3. \A q \in 1 .. Len(answers') : q \in 1 .. Len(answers) \/ q = call
  BY <1>1, <1>2
<1> QED
  BY <1>1, <1>2, <1>3 DEF Logs, CInv

LEMMA AnswerStep ==
  ASSUME CInv, ReadAnswer
  PROVE  CInv'
<1>1. /\ Reads("packet") /\ toClient' = Tail(toClient)
      /\ Emit(HandleError \o <<Sign("+")>>, After(Token.n)) /\ Returns(Token.n)
  BY DEF ReadAnswer
<1>2. HandleError = <<>> /\ Token.kind = "packet" /\ 1 \in 1 .. Len(toClient)
      /\ Calm(toClient') /\ UNCHANGED <<bounds, simulator, executed, last, noise>>
  BY <1>1, ReadFacts DEF Active
<1>3. Token.n = call /\ Len(executed) = call /\ call \in Nat \ {0}
  BY <1>2 DEF CInv, ToClientOK, Token, Shapes
<1>4. Sign("+") \in Tokens /\ Sign("+").kind = "+" /\ ~Active(Sign("+"))
  BY Signs DEF Active
<1>5. Emit(<<Sign("+")>>, After(Token.n))
  BY <1>1, <1>2
<1>6. After(Token.n) \in {"cleaned", "calling"}
  BY DEF After
<1>7. /\ Logs' /\ answers' \in Seq(Nat) /\ call' \in Nat \ {0} /\ call' = call + 1
      /\ junk' = 0 /\ packet' = packet
  BY <1>1, <1>2, <1>3, ReturnLogs
<1>8. client' # "waiting"
  BY <1>4, <1>5, <1>6, Sending
<1>9. ToClientOK'
  BY <1>1, <1>2, ReadFacts DEF ToClientOK, Calm, Active
<1>10. toSim' \in Seq(Tokens)
  BY <1>4, <1>5, Sending DEF CInv, Shapes
<1>11. ToSimOK'
  <2> SUFFICES ASSUME simulator # "gone" PROVE ToSimOK'
    BY <1>2 DEF ToSimOK
  <2>1. Calm(toSim)
    BY <1>2 DEF CInv, ToSimOK, Calm, Active, Token
  <2>2. toSim' = Append(toSim, Sign("+"))
    BY <1>4, <1>5, Sending
  <2>3. Calm(toSim') /\ Single(toSim')
    BY <1>4, <2>1, <2>2, Adding DEF CInv, Shapes
  <2> QED
    BY <1>2, <1>3, <1>7, <2>3 DEF ToSimOK, Calm, Active
<1> QED
  BY <1>2, <1>7, <1>8, <1>9, <1>10, <1>11, ReadFacts, <1>1 DEF CInv, Shapes

LEMMA EofStep ==
  ASSUME CInv, ReadEof
  PROVE  CInv'
<1>1. /\ Reads("eof") /\ toClient' = toClient /\ Emit(HandleError, After(0)) /\ Returns(0)
  BY DEF ReadEof
<1>2. /\ toClient # <<>> /\ toClient[1].kind = "eof" /\ junk = 0 /\ toClient \in Seq(Tokens)
      /\ UNCHANGED <<bounds, simulator, executed, last, noise>>
  BY <1>1 DEF Reads, Token, CInv, Shapes, simVars, faultVars
<1>3. Len(toClient) = 1 /\ simulator = "gone"
  <2>1. 1 \in 1 .. Len(toClient)
    BY <1>2
  <2> QED
    BY <1>2, <2>1 DEF CInv, ToClientOK
<1>4. HandleError = <<>>
  BY <1>2 DEF HandleError
<1>5. toSim' = toSim /\ client' = After(0)
  BY <1>1, <1>4 DEF Emit, CInv, Shapes
<1>6. After(0) # "waiting"
  BY DEF After
<1>7. /\ Logs' /\ answers' \in Seq(Nat) /\ call' \in Nat \ {0} /\ call' = call + 1
      /\ junk' = 0 /\ packet' = packet
  BY <1>1, <1>2, ReturnLogs
<1>8. ToClientOK'
  BY <1>1, <1>2, <1>3 DEF CInv, ToClientOK, Active
<1>9. ToSimOK'
  BY <1>2, <1>3 DEF ToSimOK
<1> QED
  BY <1>1, <1>2, <1>5, <1>6, <1>7, <1>8, <1>9 DEF CInv, Shapes
-----------------------------------------------------------------------------
(***************************************************************************)
(* The simulator's steps.                                                  *)
(***************************************************************************)
\* The first token of toSim is read.
LEMMA GetFacts ==
  ASSUME CInv, NEW kind, Gets(kind)
  PROVE  /\ simulator # "gone" /\ Single(toSim') /\ toSim' \in Seq(Tokens)
         /\ toSim[1] \in Tokens /\ toSim[1].kind = kind /\ 1 \in 1 .. Len(toSim)
         /\ Active(toSim[1]) =>
              Calm(toSim') /\ Calm(toClient) /\ client = "waiting" /\ packet = call
         /\ toSim[1].kind = "packet" => toSim[1].n = call /\ Len(executed) = call - 1
         /\ toSim[1].kind = "-" => Len(executed) = call /\ last = call
         /\ \A p \in 1 .. Len(toSim') : p + 1 \in 1 .. Len(toSim) /\ toSim'[p] = toSim[p + 1]
         /\ UNCHANGED <<bounds, call, client, packet, junk, answers, noise>>
<1>1. /\ simulator = "ready" /\ toSim # <<>> /\ toSim[1].kind = kind /\ toSim' = Tail(toSim)
      /\ toSim \in Seq(Tokens) /\ UNCHANGED <<bounds, call, client, packet, junk, answers, noise>>
  BY DEF Gets, clientVars, faultVars, CInv, Shapes
<1>2. /\ toSim' \in Seq(Tokens) /\ Len(toSim) \in Nat \ {0} /\ toSim[1] \in Tokens
      /\ \A p \in 1 .. Len(toSim') : p + 1 \in 1 .. Len(toSim) /\ toSim'[p] = toSim[p + 1]
      /\ Single(toSim) => Single(toSim')
      /\ Single(toSim) /\ Active(toSim[1]) => Calm(toSim')
  BY <1>1, Taking
<1>3. 1 \in 1 .. Len(toSim)
  BY <1>2
<1>4. /\ Single(toSim)
      /\ Active(toSim[1]) => client = "waiting" /\ Calm(toClient) /\ packet = call
      /\ toSim[1].kind = "packet" => toSim[1].n = call /\ Len(executed) = call - 1
      /\ toSim[1].kind = "-" => Len(executed) = call /\ last = call
  BY <1>1, <1>3 DEF CInv, ToSimOK
<1> QED
  BY <1>1, <1>2, <1>3, <1>4

\* The simulator adds a token to a stream that is still open.
LEMMA Telling ==
  ASSUME CInv, simulator # "gone", NEW t \in Tokens, t.kind \in {"+", "-", "packet"},
         Active(t) => Calm(toClient) /\ client = "waiting",
         t.kind = "packet" => t.n = call /\ Len(executed') = call /\ last' = call,
         (\E p \in 1 .. Len(toClient) : toClient[p].kind = "packet") =>
            executed' = executed /\ last' = last,
         call' = call, client' = client, toClient' = Append(toClient, t)
  PROVE  ToClientOK' /\ toClient' \in Seq(Tokens)
<1>1. toClient \in Seq(Tokens) /\ Single(toClient)
  BY DEF CInv, Shapes, ToClientOK
<1>2. /\ toClient' \in Seq(Tokens) /\ Len(toClient') = Len(toClient) + 1 /\ Len(toClient) \in Nat
      /\ \A p \in 1 .. Len(toClient) : toClient'[p] = toClient[p]
      /\ toClient'[Len(toClient) + 1] = t
      /\ Single(toClient')
  BY <1>1, Adding
<1>3. \A p \in 1 .. Len(toClient') : p \in 1 .. Len(toClient) \/ p = Len(toClient')
  BY <1>2
<1>4. ASSUME NEW p \in 1 .. Len(toClient)
      PROVE  /\ toClient'[p].kind # "stray" /\ toClient'[p].kind # "eof"
             /\ Active(toClient'[p]) => client' = "waiting"
             /\ toClient'[p].kind = "packet" =>
                  toClient'[p].n = call' /\ Len(executed') = call' /\ last' = call'
  <2>1. toClient'[p] = toClient[p]
    BY <1>2
  <2> QED
    BY <2>1 DEF CInv, ToClientOK
<1>5. /\ t.kind # "stray" /\ t.kind # "eof" /\ Active(t) => client' = "waiting"
      /\ t.kind = "packet" => t.n = call' /\ Len(executed') = call' /\ last' = call'
  OBVIOUS
<1> QED
  BY <1>2, <1>3, <1>4, <1>5 DEF ToClientOK

LEMMA RefuseStep ==
  ASSUME CInv, Refuse
  PROVE  CInv'
<1>1. /\ Gets("packet") /\ toClient' = Append(toClient, Sign("-"))
      /\ UNCHANGED <<simulator, executed, last>>
  BY DEF Refuse, simVars
<1>2. Sign("-") \in Tokens /\ Sign("-").kind = "-"
  BY Signs
<1>3. /\ simulator # "gone" /\ Calm(toSim') /\ Calm(toClient) /\ client = "waiting"
      /\ Len(executed) = call - 1 /\ Single(toSim') /\ toSim' \in Seq(Tokens)
      /\ UNCHANGED <<bounds, call, client, packet, junk, answers, noise>>
  BY <1>1, GetFacts DEF Active
<1>4. ToClientOK' /\ toClient' \in Seq(Tokens)
  BY <1>1, <1>2, <1>3, Telling
<1>5. ToSimOK'
  BY <1>1, <1>3 DEF ToSimOK, Calm, Active
<1> QED
  BY <1>1, <1>3, <1>4, <1>5 DEF CInv, Shapes, Logs

LEMMA AcknowledgedStep ==
  ASSUME CInv, Acknowledged
  PROVE  CInv'
<1>1. /\ Gets("+") /\ UNCHANGED <<toClient, simulator, executed, last>>
  BY DEF Acknowledged, simVars
<1>2. /\ simulator # "gone" /\ Single(toSim') /\ toSim' \in Seq(Tokens)
      /\ \A p \in 1 .. Len(toSim') : p + 1 \in 1 .. Len(toSim) /\ toSim'[p] = toSim[p + 1]
      /\ UNCHANGED <<bounds, call, client, packet, junk, answers, noise>>
  BY <1>1, GetFacts
<1>3. ToClientOK'
  BY <1>1, <1>2 DEF CInv, ToClientOK
<1>4. ASSUME NEW p \in 1 .. Len(toSim')
      PROVE  /\ Active(toSim'[p]) => client = "waiting" /\ Calm(toClient)
             /\ toSim'[p].kind = "packet" => toSim'[p].n = call /\ Len(executed) = call - 1
             /\ toSim'[p].kind = "-" => Len(executed) = call /\ last = call
  <2>1. p + 1 \in 1 .. Len(toSim) /\ toSim'[p] = toSim[p + 1]
    BY <1>2
  <2> QED
    BY <1>2, <2>1 DEF CInv, ToSimOK
<1>5. ToSimOK'
  <2>1. (\A p \in 1 .. Len(toClient) : toClient[p].kind = "-" => Len(executed) = call - 1)
        /\ (client # "waiting" => Len(executed) = call - 1)
    BY <1>2 DEF CInv, ToSimOK
  <2>2. Calm(toClient') <=> Calm(toClient)
    BY <1>1
  <2> QED
    BY <1>1, <1>2, <1>4, <2>1, <2>2 DEF ToSimOK
<1> QED
  BY <1>1, <1>2, <1>3, <1>5 DEF CInv, Shapes, Logs

LEMMA AnswerAgainStep ==
  ASSUME CInv, AnswerAgain
  PROVE  CInv'
<1>1. /\ Gets("-") /\ UNCHANGED <<simulator, executed, last>>
      /\ toClient' = IF last = 0 THEN toClient ELSE Append(toClient, Packet(last))
  BY DEF AnswerAgain, simVars
<1>2. /\ simulator # "gone" /\ Calm(toSim') /\ Calm(toClient) /\ client = "waiting"
      /\ Len(executed) = call /\ last = call /\ Single(toSim') /\ toSim' \in Seq(Tokens)
      /\ UNCHANGED <<bounds, call, client, packet, junk, answers, noise>>
  BY <1>1, GetFacts DEF Active
<1>3. Packet(call) \in Tokens /\ Packet(call).kind = "packet" /\ Packet(call).n = call /\ call # 0
  BY Signs DEF CInv, Shapes
<1>4. toClient' = Append(toClient, Packet(call))
  BY <1>1, <1>2, <1>3
<1>5. ToClientOK' /\ toClient' \in Seq(Tokens)
  BY <1>1, <1>2, <1>3, <1>4, Telling
<1>6. \A p \in 1 .. Len(toClient') : toClient'[p].kind # "-"
  <2>1. toClient \in Seq(Tokens)
    BY DEF CInv, Shapes
  <2>2. \A p \in 1 .. Len(toClient') :
           \/ p \in 1 .. Len(toClient) /\ toClient'[p] = toClient[p]
           \/ toClient'[p] = Packet(call)
    BY <1>3, <1>4, <2>1
  <2> QED
    BY <1>2, <1>3, <2>2 DEF Calm, Active
<1>7. ToSimOK'
  BY <1>1, <1>2, <1>6 DEF ToSimOK, Calm, Active
<1> QED
  BY <1>1, <1>2, <1>5, <1>7 DEF CInv, Shapes, Logs

\* A command is executed: the log grows by the current call.
LEMMA Executing ==
  ASSUME CInv, Len(executed) = call - 1, executed' = Append(executed, call),
         call' = call, answers' = answers
  PROVE  Logs' /\ executed' \in Seq(Nat) /\ Len(executed') = call
<1>1. executed \in Seq(Nat) /\ call \in Nat \ {0} /\ Len(answers) \in Nat
  BY DEF CInv, Shapes
<1>2. /\ executed' \in Seq(Nat) /\ Len(executed') = call /\ executed'[call] = call
      /\ \A n \in 1 .. Len(executed) : executed'[n] = executed[n]
  BY <1>1
<1>3. \A n \in 1 .. Len(executed') : n \in 1 .. Len(executed) \/ n = call
  BY <1>1, <1>2
<1>4. \A n \in 1 .. Len(executed') : executed'[n] = n
  BY <1>2, <1>3 DEF CInv, Logs
<1>5. \A n \in 1 .. Len(answers) : answers[n] = 0 \/ (answers[n] = n /\ n <= Len(executed'))
  BY <1>1, <1>2 DEF CInv, Logs
<1> QED
  BY <1>2, <1>4, <1>5 DEF CInv, Logs

LEMMA ExecuteStep ==
  ASSUME CInv, Execute
  PROVE  CInv'
<1>1. Gets("packet") /\ executed' = Append(executed, toSim[1].n)
  BY DEF Execute
<1>2. /\ simulator # "gone" /\ Calm(toSim') /\ Calm(toClient) /\ client = "waiting" /\ packet = call
      /\ toSim[1].n = call /\ Len(executed) = call - 1 /\ Single(toSim') /\ toSim' \in Seq(Tokens)
      /\ UNCHANGED <<bounds, call, client, packet, junk, answers, noise>>
  BY <1>1, GetFacts DEF Active
<1>3. Logs' /\ executed' \in Seq(Nat) /\ Len(executed') = call
  BY <1>1, <1>2, Executing
<1>4. /\ Sign("+") \in Tokens /\ Sign("+").kind = "+"
      /\ Packet(call) \in Tokens /\ Packet(call).kind = "packet" /\ Packet(call).n = call
  BY Signs DEF CInv, Shapes
<1>5. toClient \in Seq(Tokens) /\ call \in Nat \ {0} /\ last \in Nat
  BY DEF CInv, Shapes
<1>6. \A p \in 1 .. Len(toClient) : toClient[p].kind \notin {"packet", "-"}
  BY <1>2 DEF Calm, Active
<1>7. CASE /\ simulator' = "running" /\ toClient' = Append(toClient, Sign("+"))
           /\ UNCHANGED last
  <2>1. ToClientOK' /\ toClient' \in Seq(Tokens)
    BY <1>2, <1>4, <1>6, <1>7, Telling DEF Active
  <2>2. Calm(toClient')
    BY <1>2, <1>4, <1>5, <1>7, Adding DEF Active
  <2>3. ToSimOK'
    BY <1>2, <2>2 DEF ToSimOK, Calm, Active
  <2> QED
    BY <1>2, <1>3, <1>5, <1>7, <2>1, <2>3 DEF CInv, Shapes
<1>8. CASE /\ toClient' = toClient \o <<Sign("+"), Packet(call)>> /\ last' = call
           /\ UNCHANGED simulator
  <2> DEFINE two == Append(toClient, Sign("+"))
  <2>1. two \in Seq(Tokens) /\ Calm(two)
    BY <1>2, <1>4, <1>5, Adding DEF Active
  <2>2. toClient' = Append(two, Packet(call))
    BY <1>4, <1>5, <1>8
  <2> HIDE DEF two
  <2>3. /\ toClient' \in Seq(Tokens) /\ Len(toClient') = Len(two) + 1 /\ Len(two) \in Nat
        /\ \A p \in 1 .. Len(two) : toClient'[p] = two[p]
        /\ toClient'[Len(two) + 1] = Packet(call)
        /\ Single(toClient')
    BY <1>4, <2>1, <2>2, Adding
  <2>4. \A p \in 1 .. Len(two) : two[p].kind \notin {"stray", "eof"}
    <3>1. \A p \in 1 .. Len(two) :
             \/ p \in 1 .. Len(toClient) /\ two[p] = toClient[p]
             \/ two[p] = Sign("+")
      BY <1>4, <1>5 DEF two
    <3> QED
      BY <1>2, <1>4, <3>1 DEF CInv, ToClientOK
  <2>5. \A p \in 1 .. Len(toClient') :
           \/ toClient'[p].kind \notin {"stray", "eof", "packet", "-"}
           \/ toClient'[p] = Packet(call)
    <3>1. \A p \in 1 .. Len(toClient') : p \in 1 .. Len(two) \/ p = Len(two) + 1
      BY <2>3
    <3> QED
      BY <2>1, <2>3, <2>4, <3>1 DEF Calm, Active
  <2>6. ToClientOK'
    BY <1>2, <1>3, <1>4, <1>8, <2>3, <2>5 DEF ToClientOK, Active
  <2>7. ToSimOK'
    BY <1>2, <1>4, <2>5 DEF ToSimOK, Calm, Active
  <2> QED
    BY <1>2, <1>3, <1>5, <1>8, <2>3, <2>6, <2>7 DEF CInv, Shapes
<1> QED
  BY <1>2, <1>7, <1>8 DEF Execute

\* The stream ends; what was under way to the simulator is read by nobody.
LEMMA ExitStep ==
  ASSUME CInv, Exit
  PROVE  CInv'
<1>1. /\ simulator # "gone" /\ simulator' = "gone" /\ toClient' = Append(toClient, Sign("eof"))
      /\ UNCHANGED <<bounds, call, client, packet, junk, answers, noise, toSim, executed, last>>
  BY DEF Exit, clientVars, faultVars
<1>2. /\ Sign("eof") \in Tokens /\ Sign("eof").kind = "eof" /\ ~Active(Sign("eof"))
      /\ toClient \in Seq(Tokens) /\ Single(toClient)
  BY Signs DEF Active, CInv, Shapes, ToClientOK
<1>3. /\ toClient' \in Seq(Tokens) /\ Len(toClient') = Len(toClient) + 1 /\ Len(toClient) \in Nat
      /\ \A p \in 1 .. Len(toClient) : toClient'[p] = toClient[p]
      /\ toClient'[Len(toClient) + 1] = Sign("eof") /\ Single(toClient')
  BY <1>1, <1>2, Adding
<1>4. \A p \in 1 .. Len(toClient') : p \in 1 .. Len(toClient) \/ p = Len(toClient')
  BY <1>3
<1>5. ASSUME NEW p \in 1 .. Len(toClient)
      PROVE  /\ toClient'[p].kind # "stray" /\ toClient'[p].kind # "eof"
             /\ Active(toClient'[p]) => client' = "waiting"
             /\ toClient'[p].kind = "packet" =>
                  toClient'[p].n = call' /\ Len(executed') = call' /\ last' = call'
  <2>1. toClient'[p] = toClient[p]
    BY <1>3
  <2> QED
    BY <1>1, <2>1 DEF CInv, ToClientOK
<1>6. ToClientOK'
  BY <1>1, <1>2, <1>3, <1>4, <1>5 DEF ToClientOK, Active
<1> QED
  BY <1>1, <1>3, <1>6 DEF CInv, Shapes, Logs, ToSimOK
-----------------------------------------------------------------------------
(***************************************************************************)
(* The network's steps, and the theorems.                                  *)
(***************************************************************************)
LEMMA CorruptStep ==
  ASSUME CInv, Corrupt
  PROVE  CInv'
<1>1. UNCHANGED <<bounds, call, client, packet, junk, answers, noise, simulator, executed, last>>
  BY DEF Corrupt, clientVars, simVars
<1>2. toSim \in Seq(Tokens) /\ toClient \in Seq(Tokens)
  BY DEF CInv, Shapes
<1>3. ASSUME toClient' = toClient, NEW q \in DOMAIN toSim, toSim' = Damage(toSim, q)
      PROVE  CInv'
  <2>1. q \in 1 .. Len(toSim)
    BY <1>2, <1>3
  <2>2. /\ toSim' \in Seq(Tokens) /\ Len(toSim') = Len(toSim)
        /\ \A p \in 1 .. Len(toSim) : toSim'[p].kind = toSim[p].kind /\ toSim'[p].n = toSim[p].n
    BY <1>2, <1>3, <2>1, Damaging
  <2>3. \A p \in 1 .. Len(toSim) : Active(toSim'[p]) = Active(toSim[p])
    BY <2>2 DEF Active
  <2>4. ToClientOK'
    BY <1>1, <1>3 DEF CInv, ToClientOK
  <2>5. ToSimOK'
    BY <1>1, <1>3, <2>2, <2>3 DEF CInv, ToSimOK, Single, Calm
  <2> QED
    BY <1>1, <1>3, <2>2, <2>4, <2>5 DEF CInv, Shapes, Logs
<1>4. ASSUME toSim' = toSim, NEW q \in DOMAIN toClient, toClient' = Damage(toClient, q)
      PROVE  CInv'
  <2>1. q \in 1 .. Len(toClient)
    BY <1>2, <1>4
  <2>2. /\ toClient' \in Seq(Tokens) /\ Len(toClient') = Len(toClient)
        /\ \A p \in 1 .. Len(toClient) :
             toClient'[p].kind = toClient[p].kind /\ toClient'[p].n = toClient[p].n
    BY <1>2, <1>4, <2>1, Damaging
  <2>3. \A p \in 1 .. Len(toClient) : Active(toClient'[p]) = Active(toClient[p])
    BY <2>2 DEF Active
  <2>4. ToClientOK'
    BY <1>1, <2>2, <2>3 DEF CInv, ToClientOK, Single
  <2>5. Calm(toClient') <=> Calm(toClient)
    BY <2>2, <2>3 DEF Calm
  <2>6. ToSimOK'
    BY <1>1, <1>4, <2>2, <2>5 DEF CInv, ToSimOK
  <2> QED
    BY <1>1, <1>4, <2>2, <2>4, <2>6 DEF CInv, Shapes, Logs
<1> QED
  BY <1>3, <1>4 DEF Corrupt

LEMMA BoundsKept == [Next]_vars => bounds' = bounds
BY DEF Next, Client, Simulator, SendPacket, EndProgram, ReadAck, ReadNak, ReadDamaged, ReadAnswer,
       ReadStray, ReadEof, Reads, Execute, Refuse, Acknowledged, AnswerAgain, Gets, Exit, Corrupt,
       Noise, vars

LEMMA NextCInv ==
  ASSUME bounds.stray = 0 => CInv, [Next]_vars
  PROVE  bounds' = bounds /\ (bounds'.stray = 0 => CInv')
<1>1. bounds' = bounds
  BY BoundsKept
<1> SUFFICES ASSUME CInv, bounds.stray = 0 PROVE CInv'
  BY <1>1
<1>2. CASE EndProgram
  <2>1. /\ client' = "ended" /\ client = "calling"
        /\ UNCHANGED <<bounds, call, packet, junk, answers, toSim, toClient, noise,
                       simulator, executed, last>>
    BY <1>2 DEF EndProgram, simVars, faultVars
  <2>2. Calm(toClient)
    BY <2>1 DEF CInv, ToClientOK, Calm
  <2>3. ToClientOK'
    BY <2>1, <2>2 DEF CInv, ToClientOK, Calm
  <2>4. ToSimOK'
    BY <2>1 DEF CInv, ToSimOK
  <2> QED
    BY <2>1, <2>3, <2>4 DEF CInv, Shapes, Logs
<1>3. CASE ReadStray
  BY <1>3, ReadFacts DEF ReadStray, CInv, ToClientOK, Token
<1>4. CASE Noise
  BY <1>4 DEF Noise, CInv, Shapes
<1>5. CASE UNCHANGED vars
  <2>1. UNCHANGED <<bounds, call, client, packet, junk, answers, toSim, toClient, noise,
                    simulator, executed, last>>
    BY <1>5 DEF vars, clientVars, simVars, faultVars
  <2>2. ToClientOK' /\ ToSimOK'
    BY <2>1 DEF CInv, ToClientOK, ToSimOK
  <2> QED
    BY <2>1, <2>2 DEF CInv, Shapes, Logs
<1> QED
  BY <1>2, <1>3, <1>4, <1>5, SendStep, AckStep, NakStep, DamagedStep, AnswerStep, EofStep,
     ExecuteStep, RefuseStep, AcknowledgedStep, AnswerAgainStep, ExitStep, CorruptStep
     DEF Next, Client, Simulator

LEMMA CInvAlways == Spec => [](bounds.stray = 0 => CInv)
<1>1. Init => (bounds.stray = 0 => CInv)
  BY InitCInv
<1>2. (bounds.stray = 0 => CInv) /\ [Next]_vars => (bounds.stray = 0 => CInv)'
  BY NextCInv
<1> QED
  BY <1>1, <1>2, PTL DEF Spec

\* Whatever is damaged and sent again and whenever the simulator ends, a call
\* that got an answer got the one to its own command, after its execution
\* (gdb_protocol.c:72-83).
THEOREM AnswersPaired == Spec => []Paired
<1>1. (bounds.stray = 0 => CInv) => Paired
  BY DEF CInv, Logs, Shapes, Paired
<1> QED
  BY <1>1, CInvAlways, PTL
-----------------------------------------------------------------------------
(***************************************************************************)
(* The end of the simulation, when only gdb_cont brings it: the client     *)
(* waits for it or has cleaned up.                                         *)
(***************************************************************************)
Released ==
  /\ Calm(toClient)
  /\ client \in {"waiting", "cleaned"}
  /\ client = "waiting" => Len(executed) = call /\ program[call] = "c"

Running ==
  /\ client = "waiting" => call <= Len(program)
  /\ ~bounds.exit /\ simulator # "ready" => Released

LEMMA InitRunning == Init => Running
BY DEF Init, Running

\* A token that waits for an answer is read: the simulator is not released.
LEMMA ReadsActive ==
  ASSUME CInv, Running, NEW kind, kind \in {"packet", "-"}, Reads(kind), toClient' = Tail(toClient)
  PROVE  bounds.exit \/ simulator = "ready"
<1>1. 1 \in 1 .. Len(toClient) /\ Token.kind = kind
  BY ReadFacts
<1>2. ~Calm(toClient)
  BY <1>1 DEF Calm, Active, Token
<1> QED
  BY <1>2 DEF Running, Released

\* A step of the client that reads a token that waits for an answer.
LEMMA ActiveRunning ==
  ASSUME CInv, Running, ReadNak \/ ReadDamaged \/ ReadAnswer
  PROVE  Running'
<1>1. PICK kind \in {"packet", "-"} : Reads(kind) /\ toClient' = Tail(toClient)
  BY DEF ReadNak, ReadDamaged, ReadAnswer
<1>2. bounds.exit \/ simulator = "ready"
  BY <1>1, ReadsActive
<1>3. client = "waiting" /\ UNCHANGED <<program, bounds, simulator>>
  BY <1>1 DEF Reads, simVars
<1>4. CASE ReadAnswer
  <2>1. client' # "waiting"
    BY <1>4 DEF ReadAnswer, Emit, After
  <2> QED
    BY <1>2, <1>3, <2>1 DEF Running
<1>5. CASE ReadNak \/ ReadDamaged
  <2>1. call' = call
    BY <1>5 DEF ReadNak, ReadDamaged
  <2> QED
    BY <1>2, <1>3, <2>1 DEF Running
<1> QED
  BY <1>4, <1>5

LEMMA ClientRunning ==
  ASSUME CInv, Running, Client
  PROVE  Running'
<1>1. CASE SendPacket
  BY <1>1 DEF SendPacket, simVars, Running, Released
<1>2. CASE EndProgram
  BY <1>2 DEF EndProgram, simVars, Running, Released
<1>3. CASE ReadAck
  <2>1. Reads("+") /\ toClient' = Tail(toClient) /\ call' = call /\ Emit(HandleError, "waiting")
    BY <1>3 DEF ReadAck
  <2>2. client = "waiting" /\ HandleError = <<>> /\ UNCHANGED <<simulator, executed>>
    BY <2>1, ReadFacts
  <2>3. toClient # <<>> /\ toClient \in Seq(Tokens) /\ UNCHANGED <<program, bounds>>
    BY <2>1 DEF Reads, CInv, Shapes
  <2>4. Calm(toClient) => Calm(toClient')
    BY <2>1, <2>3, Taking
  <2>5. client' = "waiting"
    BY <2>1, <2>2 DEF Emit
  <2> QED
    BY <2>1, <2>2, <2>3, <2>4, <2>5 DEF Running, Released
<1>4. CASE ReadEof
  <2>1. Reads("eof") /\ toClient' = toClient /\ Emit(HandleError, After(0))
    BY <1>4 DEF ReadEof
  <2>2. /\ client = "waiting" /\ junk = 0 /\ toClient # <<>> /\ toClient[1].kind = "eof"
        /\ toClient \in Seq(Tokens) /\ UNCHANGED <<program, bounds, simulator>>
    BY <2>1 DEF Reads, Token, simVars, CInv, Shapes
  <2>3. simulator = "gone"
    <3>1. 1 \in 1 .. Len(toClient)
      BY <2>2
    <3> QED
      BY <2>2, <3>1 DEF CInv, ToClientOK
  <2>4. HandleError = <<>>
    BY <2>2 DEF HandleError
  <2>5. client' = After(0)
    BY <2>1, <2>4 DEF Emit
  <2>6. client' # "waiting" /\ (program[call] = "c" => client' = "cleaned")
    BY <2>5 DEF After
  <2> QED
    BY <2>1, <2>2, <2>3, <2>6 DEF Running, Released, Calm
<1>5. CASE ReadStray
  BY <1>5, ReadFacts DEF ReadStray, CInv, ToClientOK, Token
<1> QED
  BY <1>1, <1>2, <1>3, <1>4, <1>5, ActiveRunning DEF Client

LEMMA SimulatorRunning ==
  ASSUME CInv, Running, Simulator
  PROVE  Running'
<1>1. CASE Execute
  <2>1. Gets("packet") /\ executed' = Append(executed, toSim[1].n) /\ simulator = "ready"
        /\ UNCHANGED <<program, bounds>>
    BY <1>1 DEF Execute, Gets
  <2>2. /\ Calm(toClient) /\ client = "waiting" /\ toSim[1].n = call /\ Len(executed) = call - 1
        /\ UNCHANGED <<call, client, answers>>
    BY <2>1, GetFacts DEF Active
  <2>3. Len(executed') = call
    BY <2>1, <2>2, Executing
  <2>4. CASE program[call] = "c" /\ toClient' = Append(toClient, Sign("+"))
    <3>1. toClient \in Seq(Tokens) /\ Sign("+") \in Tokens /\ ~Active(Sign("+"))
      BY Signs DEF CInv, Shapes, Active
    <3>2. Calm(toClient')
      BY <2>2, <2>4, <3>1, Adding
    <3> QED
      BY <2>1, <2>2, <2>3, <2>4, <3>2 DEF Running, Released
  <2>5. CASE UNCHANGED simulator
    BY <2>1, <2>2, <2>5 DEF Running
  <2> QED
    BY <1>1, <2>2, <2>4, <2>5 DEF Execute
<1>2. CASE Refuse \/ Acknowledged \/ AnswerAgain
  BY <1>2 DEF Refuse, Acknowledged, AnswerAgain, Gets, clientVars, simVars, Running
<1>3. CASE Exit
  <2>1. /\ simulator = "running" \/ bounds.exit
        /\ toClient' = Append(toClient, Sign("eof"))
        /\ UNCHANGED <<program, bounds, call, client, executed>>
    BY <1>3 DEF Exit, clientVars
  <2>2. toClient \in Seq(Tokens) /\ Sign("eof") \in Tokens /\ ~Active(Sign("eof"))
    BY Signs DEF CInv, Shapes, Active
  <2>3. Calm(toClient) => Calm(toClient')
    BY <2>1, <2>2, Adding
  <2> QED
    BY <2>1, <2>3 DEF Running, Released
<1> QED
  BY <1>1, <1>2, <1>3 DEF Simulator

LEMMA NextRunning ==
  ASSUME bounds.stray = 0 => CInv /\ Running, [Next]_vars
  PROVE  bounds'.stray = 0 => CInv' /\ Running'
<1> SUFFICES ASSUME CInv, Running, bounds'.stray = 0 PROVE Running'
  BY NextCInv
<1>1. CASE Corrupt
  <2>1. UNCHANGED <<program, bounds, call, client, simulator, executed>>
    BY <1>1 DEF Corrupt, clientVars, simVars
  <2>2. toClient \in Seq(Tokens)
    BY DEF CInv, Shapes
  <2>3. Calm(toClient) => Calm(toClient')
    <3>1. ASSUME NEW q \in DOMAIN toClient, toClient' = Damage(toClient, q)
          PROVE  Calm(toClient) => Calm(toClient')
      <4>1. q \in 1 .. Len(toClient)
        BY <2>2
      <4>2. /\ Len(toClient') = Len(toClient)
            /\ \A p \in 1 .. Len(toClient) : toClient'[p].kind = toClient[p].kind
        BY <2>2, <3>1, <4>1, Damaging
      <4> QED
        BY <4>2 DEF Calm, Active
    <3> QED
      BY <1>1, <3>1 DEF Corrupt
  <2> QED
    BY <2>1, <2>3 DEF Running, Released
<1>2. CASE Noise
  BY <1>2 DEF Noise, CInv, Shapes
<1>3. CASE UNCHANGED vars
  BY <1>3 DEF vars, clientVars, simVars, Running, Released, Calm
<1> QED
  BY <1>1, <1>2, <1>3, ClientRunning, SimulatorRunning DEF Next
-----------------------------------------------------------------------------
(***************************************************************************)
(* Types, whatever the network damages and inserts: what is under way      *)
(* names commands of the program.                                          *)
(***************************************************************************)
LEMMA ProgramFacts ==
  ASSUME program \in Programs
  PROVE  program \in Seq(Commands) /\ Len(program) \in Nat
BY ProgramsAssumption

LEMMA InProgramSigns ==
  ASSUME program \in Programs
  PROVE  /\ \A k \in {"+", "-", "stray", "eof"} : Sign(k) \in InProgram
         /\ \A n \in 1 .. Len(program) : Packet(n) \in InProgram
         /\ Seq(InProgram) \subseteq Seq(Tokens)
<1>1. Len(program) \in Nat
  BY ProgramFacts
<1>2. ASSUME NEW k \in {"+", "-", "stray", "eof"} PROVE Sign(k) \in InProgram
  <2>1. Sign(k) \in Tokens /\ Sign(k).n = 0 /\ Sign(k).kind # "packet"
    BY DEF Sign, Tokens
  <2> QED
    BY <1>1, <2>1 DEF InProgram
<1>3. ASSUME NEW n \in 1 .. Len(program) PROVE Packet(n) \in InProgram
  <2>1. Packet(n) \in Tokens /\ Packet(n).n = n
    BY <1>1 DEF Packet, Tokens
  <2> QED
    BY <1>1, <2>1 DEF InProgram
<1>4. \A t \in InProgram : t \in Tokens
  BY DEF InProgram
<1>5. Seq(InProgram) \subseteq Seq(Tokens)
  BY <1>4
<1> QED
  BY <1>2, <1>3, <1>5

LEMMA InitTyped == Init => TypeOK
<1> SUFFICES ASSUME Init PROVE TypeOK
  OBVIOUS
<1>1. Len(program) \in Nat /\ program \in Programs /\ bounds \in Faults
  BY ProgramFacts DEF Init
<1>2. bounds.damaged \in Nat /\ bounds.stray \in Nat /\ MaxErrorSize \in Nat
  BY <1>1, FaultsAssumption DEF FaultBounds
<1> QED
  BY <1>1, <1>2 DEF Init, TypeOK

\* What the client sends.
LEMMA EmitTyped ==
  ASSUME TypeOK, NEW signs \in Seq(InProgram), NEW after, Emit(signs, after)
  PROVE  toSim' \in Seq(InProgram) /\ client' \in {after, "killed"}
<1>1. toSim \in Seq(InProgram)
  BY DEF TypeOK
<1>2. toSim \o signs \in Seq(InProgram)
  BY <1>1
<1> QED
  BY <1>1, <1>2 DEF Emit

\* A step that changes the channels and leaves the rest of what TypeOK says
\* to the client.
LEMMA ClientTyped ==
  ASSUME TypeOK, UNCHANGED <<program, bounds, simVars, faultVars>>,
         toSim' \in Seq(InProgram), toClient' \in Seq(InProgram),
         call' \in 1 .. Len(program) + 1,
         client' \in {"calling", "waiting", "ended", "cleaned", "killed"},
         packet' \in 0 .. Len(program), junk' \in 0 .. MaxErrorSize,
         answers' \in Seq(0 .. Len(program)),
         client' = "waiting" => call' <= Len(program) /\ packet' # 0
  PROVE  TypeOK'
<1>1. program \in Programs /\ UNCHANGED <<program, bounds, simulator, executed, last, corrupted, noise>>
  BY DEF TypeOK, simVars, faultVars
<1>2. InProgram' = InProgram
  BY <1>1 DEF InProgram
<1> QED
  BY <1>1, <1>2 DEF TypeOK

LEMMA TypedFacts ==
  ASSUME TypeOK
  PROVE  /\ program \in Programs /\ Len(program) \in Nat
         /\ call \in 1 .. Len(program) + 1 /\ packet \in 0 .. Len(program)
         /\ junk \in 0 .. MaxErrorSize /\ MaxErrorSize \in Nat \ {0}
         /\ answers \in Seq(0 .. Len(program))
         /\ toSim \in Seq(InProgram) /\ toClient \in Seq(InProgram)
         /\ HandleError \in Seq(InProgram)
<1>1. program \in Programs
  BY DEF TypeOK
<1>2. Sign("-") \in InProgram
  BY <1>1, InProgramSigns
<1>3. HandleError \in Seq(InProgram)
  BY <1>2 DEF HandleError
<1> QED
  BY <1>1, <1>3, ProgramFacts, FaultsAssumption DEF TypeOK

\* A token is read and the call goes on.
LEMMA ReadOnTyped ==
  ASSUME TypeOK, client = "waiting", toClient # <<>>, NEW signs \in Seq(InProgram),
         Emit(signs, "waiting"), toClient' = Tail(toClient), junk' \in 0 .. MaxErrorSize,
         UNCHANGED <<call, packet, answers, program, bounds, simVars, faultVars>>
  PROVE  TypeOK'
<1>1. toSim' \in Seq(InProgram) /\ client' \in {"waiting", "killed"}
  BY EmitTyped
<1>2. toClient' \in Seq(InProgram)
  BY TypedFacts
<1>3. call <= Len(program) /\ packet # 0
  BY DEF TypeOK
<1> QED
  BY <1>1, <1>2, <1>3, TypedFacts, ClientTyped

\* The call returns.
LEMMA ReturnTyped ==
  ASSUME TypeOK, client = "waiting", NEW n \in 0 .. Len(program), NEW signs \in Seq(InProgram),
         Emit(signs, After(n)), Returns(n), toClient' \in Seq(InProgram),
         UNCHANGED <<program, bounds, simVars, faultVars>>
  PROVE  TypeOK'
<1>1. toSim' \in Seq(InProgram) /\ client' \in {After(n), "killed"}
  BY EmitTyped
<1>2. client' \in {"calling", "cleaned", "killed"}
  BY <1>1 DEF After
<1>3. call' \in 1 .. Len(program) + 1
  BY TypedFacts DEF TypeOK, Returns
<1>4. answers' \in Seq(0 .. Len(program)) /\ junk' \in 0 .. MaxErrorSize /\ packet' = packet
  BY TypedFacts DEF Returns
<1> QED
  BY <1>1, <1>2, <1>3, <1>4, TypedFacts, ClientTyped

LEMMA ClientStepTyped == TypeOK /\ Client => TypeOK'
<1> SUFFICES ASSUME TypeOK, Client PROVE TypeOK'
  OBVIOUS
<1>1. /\ \A k \in {"+", "-", "stray", "eof"} : Sign(k) \in InProgram
      /\ \A n \in 1 .. Len(program) : Packet(n) \in InProgram
  BY TypedFacts, InProgramSigns
<1>2. CASE SendPacket
  <2>1. /\ call \in 1 .. Len(program) /\ packet' = call /\ call' = call
        /\ UNCHANGED <<program, bounds, junk, answers, toClient, simVars, faultVars>>
        /\ Emit(<<Packet(call)>>, "waiting")
    BY <1>2, TypedFacts DEF SendPacket
  <2>2. <<Packet(call)>> \in Seq(InProgram)
    BY <1>1, <2>1
  <2>3. toSim' \in Seq(InProgram) /\ client' \in {"waiting", "killed"}
    BY <2>1, <2>2, EmitTyped
  <2> QED
    BY <2>1, <2>3, TypedFacts, ClientTyped
<1>3. CASE EndProgram
  BY <1>3, TypedFacts, ClientTyped DEF EndProgram
<1>4. CASE ReadAck
  <2>1. /\ client = "waiting" /\ toClient # <<>> /\ Emit(HandleError, "waiting")
        /\ toClient' = Tail(toClient) /\ junk' = 0
        /\ UNCHANGED <<call, packet, answers, program, bounds, simVars, faultVars>>
    BY <1>4 DEF ReadAck, Reads
  <2> QED
    BY <2>1, TypedFacts, ReadOnTyped
<1>5. CASE ReadNak
  <2> DEFINE signs == HandleError \o <<Packet(packet)>>
  <2>1. /\ client = "waiting" /\ toClient # <<>>
        /\ Emit(signs, "waiting")
        /\ toClient' = Tail(toClient) /\ junk' = 0
        /\ UNCHANGED <<call, packet, answers, program, bounds, simVars, faultVars>>
    BY <1>5 DEF ReadNak, Reads
  <2>2. packet \in 1 .. Len(program)
    BY <2>1, TypedFacts DEF TypeOK
  <2>3. signs \in Seq(InProgram)
    BY <1>1, <2>2, TypedFacts
  <2>4. junk' \in 0 .. MaxErrorSize
    BY <2>1, TypedFacts
  <2> HIDE DEF signs
  <2> QED
    BY <2>1, <2>3, <2>4, ReadOnTyped
<1>6. CASE ReadDamaged
  <2> DEFINE signs == HandleError \o <<Sign("-")>>
  <2>1. /\ client = "waiting" /\ toClient # <<>>
        /\ Emit(signs, "waiting")
        /\ toClient' = Tail(toClient) /\ junk' = 0
        /\ UNCHANGED <<call, packet, answers, program, bounds, simVars, faultVars>>
    BY <1>6 DEF ReadDamaged, Reads
  <2>2. signs \in Seq(InProgram)
    BY <1>1, TypedFacts
  <2>3. junk' \in 0 .. MaxErrorSize
    BY <2>1, TypedFacts
  <2> HIDE DEF signs
  <2> QED
    BY <2>1, <2>2, <2>3, ReadOnTyped
<1>7. CASE ReadAnswer
  <2>1. /\ client = "waiting" /\ toClient # <<>> /\ Token = toClient[1]
        /\ Emit(HandleError \o <<Sign("+")>>, After(Token.n)) /\ Returns(Token.n)
        /\ toClient' = Tail(toClient)
        /\ UNCHANGED <<program, bounds, simVars, faultVars>>
    BY <1>7 DEF ReadAnswer, Reads, Token
  <2>2. HandleError \o <<Sign("+")>> \in Seq(InProgram)
    BY <1>1, TypedFacts
  <2>3. Token \in InProgram /\ toClient' \in Seq(InProgram)
    BY <2>1, TypedFacts
  <2>4. Token.n \in 0 .. Len(program)
    BY <2>3, TypedFacts DEF InProgram, Tokens
  <2> QED
    BY <2>1, <2>2, <2>3, <2>4, ReturnTyped
<1>8. CASE ReadStray
  <2> DEFINE signs == IF junk >= MaxErrorSize THEN HandleError ELSE <<>>
  <2>1. /\ client = "waiting" /\ toClient # <<>> /\ Emit(signs, "waiting")
        /\ toClient' = Tail(toClient)
        /\ junk' = IF junk >= MaxErrorSize THEN 1 ELSE junk + 1
        /\ UNCHANGED <<call, packet, answers, program, bounds, simVars, faultVars>>
    BY <1>8 DEF ReadStray, Reads
  <2>2. junk' \in 0 .. MaxErrorSize
    BY <2>1, TypedFacts
  <2>3. signs \in Seq(InProgram)
    BY TypedFacts
  <2> HIDE DEF signs
  <2> QED
    BY <2>1, <2>2, <2>3, ReadOnTyped
<1>9. CASE ReadEof
  <2>1. /\ client = "waiting" /\ Emit(HandleError, After(0)) /\ Returns(0)
        /\ toClient' = toClient /\ UNCHANGED <<program, bounds, simVars, faultVars>>
    BY <1>9 DEF ReadEof, Reads
  <2>2. 0 \in 0 .. Len(program)
    BY TypedFacts
  <2> QED
    BY <2>1, <2>2, TypedFacts, ReturnTyped
<1> QED
  BY <1>2, <1>3, <1>4, <1>5, <1>6, <1>7, <1>8, <1>9 DEF Client

\* What the simulator and the network change.
LEMMA OutsideTyped ==
  ASSUME TypeOK, UNCHANGED <<program, bounds, clientVars>>,
         toSim' \in Seq(InProgram), toClient' \in Seq(InProgram),
         simulator' \in {"ready", "running", "gone"},
         executed' \in Seq(1 .. Len(program)), last' \in 0 .. Len(program),
         corrupted' \in 0 .. bounds.damaged, noise' \in 0 .. bounds.stray
  PROVE  TypeOK'
<1>1. program \in Programs /\ UNCHANGED <<program, bounds, call, client, packet, junk, answers>>
  BY DEF TypeOK, clientVars
<1>2. InProgram' = InProgram
  BY <1>1 DEF InProgram
<1> QED
  BY <1>1, <1>2 DEF TypeOK

LEMMA OutsideFacts ==
  ASSUME TypeOK
  PROVE  /\ simulator \in {"ready", "running", "gone"}
         /\ executed \in Seq(1 .. Len(program)) /\ last \in 0 .. Len(program)
         /\ corrupted \in 0 .. bounds.damaged /\ noise \in 0 .. bounds.stray
         /\ bounds.damaged \in Nat /\ bounds.stray \in Nat
BY FaultsAssumption DEF TypeOK, FaultBounds

LEMMA SimulatorStepTyped == TypeOK /\ Simulator => TypeOK'
<1> SUFFICES ASSUME TypeOK, Simulator PROVE TypeOK'
  OBVIOUS
<1>0. Len(program) \in Nat /\ toSim \in Seq(InProgram) /\ toClient \in Seq(InProgram)
  BY TypedFacts
<1>1. /\ \A k \in {"+", "-", "stray", "eof"} : Sign(k) \in InProgram
      /\ \A n \in 1 .. Len(program) : Packet(n) \in InProgram
  BY TypedFacts, InProgramSigns
<1>2. ASSUME NEW k, Gets(k)
      PROVE  /\ toSim' \in Seq(InProgram) /\ toSim[1] \in InProgram /\ toSim[1].kind = k
             /\ UNCHANGED <<program, bounds, clientVars, corrupted, noise>>
  BY <1>0, <1>2 DEF Gets, faultVars
<1>3. CASE Execute
  <2>1. Gets("packet") /\ executed' = Append(executed, toSim[1].n)
    BY <1>3 DEF Execute
  <2>2. toSim[1].n \in 1 .. Len(program)
    BY <1>0, <1>2, <2>1 DEF InProgram, Tokens
  <2>3. executed' \in Seq(1 .. Len(program))
    BY <2>1, <2>2, OutsideFacts
  <2>4. toClient' \in Seq(InProgram) /\ simulator' \in {"ready", "running"}
        /\ last' \in 0 .. Len(program)
    <3>1. CASE program[toSim[1].n] = "c"
      <4>1. simulator' = "running" /\ toClient' = Append(toClient, Sign("+")) /\ last' = last
        BY <1>3, <3>1 DEF Execute
      <4> QED
        BY <1>0, <1>1, <4>1, OutsideFacts
    <3>2. CASE program[toSim[1].n] # "c"
      <4>1. /\ toClient' = toClient \o <<Sign("+"), Packet(toSim[1].n)>>
            /\ last' = toSim[1].n /\ simulator' = simulator /\ simulator = "ready"
        BY <1>3, <3>2, <2>1 DEF Execute, Gets
      <4>2. <<Sign("+"), Packet(toSim[1].n)>> \in Seq(InProgram)
        BY <1>1, <2>2
      <4> QED
        BY <1>0, <2>2, <4>1, <4>2
    <3> QED
      BY <3>1, <3>2
  <2> QED
    BY <1>2, <2>1, <2>3, <2>4, OutsideFacts, OutsideTyped
<1>4. CASE Refuse
  <2>1. Gets("packet") /\ toClient' = Append(toClient, Sign("-")) /\ UNCHANGED <<simulator, executed, last>>
    BY <1>4 DEF Refuse, simVars
  <2>2. toClient' \in Seq(InProgram)
    BY <1>0, <1>1, <2>1
  <2> QED
    BY <1>2, <2>1, <2>2, OutsideFacts, OutsideTyped
<1>5. CASE Acknowledged
  <2>1. Gets("+") /\ UNCHANGED <<toClient, simulator, executed, last>>
    BY <1>5 DEF Acknowledged, simVars
  <2> QED
    BY <1>0, <1>2, <2>1, OutsideFacts, OutsideTyped
<1>6. CASE AnswerAgain
  <2>1. /\ Gets("-") /\ UNCHANGED <<simulator, executed, last>>
        /\ toClient' = IF last = 0 THEN toClient ELSE Append(toClient, Packet(last))
    BY <1>6 DEF AnswerAgain, simVars
  <2>2. last # 0 => Packet(last) \in InProgram
    BY <1>0, <1>1, OutsideFacts
  <2>3. toClient' \in Seq(InProgram)
    BY <1>0, <2>1, <2>2
  <2> QED
    BY <1>2, <2>1, <2>3, OutsideFacts, OutsideTyped
<1>7. CASE Exit
  <2>1. /\ simulator' = "gone" /\ toClient' = Append(toClient, Sign("eof"))
        /\ UNCHANGED <<program, bounds, clientVars, toSim, executed, last, corrupted, noise>>
    BY <1>7 DEF Exit, faultVars
  <2>2. toClient' \in Seq(InProgram)
    BY <1>0, <1>1, <2>1
  <2> QED
    BY <1>0, <2>1, <2>2, OutsideFacts, OutsideTyped
<1> QED
  BY <1>3, <1>4, <1>5, <1>6, <1>7 DEF Simulator

LEMMA NetworkStepTyped == TypeOK /\ (Corrupt \/ Noise) => TypeOK'
<1> SUFFICES ASSUME TypeOK, Corrupt \/ Noise PROVE TypeOK'
  OBVIOUS
<1>0. toSim \in Seq(InProgram) /\ toClient \in Seq(InProgram) /\ Sign("stray") \in InProgram
  BY TypedFacts, InProgramSigns
<1>1. ASSUME NEW s \in Seq(InProgram), NEW p \in DOMAIN s
      PROVE  Damage(s, p) \in Seq(InProgram)
  <2>1. s[p] \in InProgram
    BY <1>1
  <2>2. [s[p] EXCEPT !.ok = FALSE] \in InProgram
    BY <2>1 DEF InProgram, Tokens
  <2> QED
    BY <1>1, <2>2 DEF Damage
<1>2. CASE Corrupt
  <2>1. toSim' \in Seq(InProgram) /\ toClient' \in Seq(InProgram)
    BY <1>0, <1>1, <1>2 DEF Corrupt
  <2>2. corrupted' \in 0 .. bounds.damaged
    BY <1>2, OutsideFacts DEF Corrupt
  <2>3. UNCHANGED <<program, bounds, clientVars, simulator, executed, last, noise>>
    BY <1>2 DEF Corrupt, simVars
  <2> QED
    BY <2>1, <2>2, <2>3, OutsideFacts, OutsideTyped
<1>3. CASE Noise
  <2>1. PICK p \in 1 .. Len(toClient) :
          \/ toClient' = InsertAt(toClient, p, Sign("stray"))
          \/ toClient' = [toClient EXCEPT ![p] = Sign("stray")]
    BY <1>3 DEF Noise
  <2>2. InsertAt(toClient, p, Sign("stray")) \in Seq(InProgram)
    <3>1. SubSeq(toClient, 1, p - 1) \in Seq(InProgram)
      BY <1>0
    <3>2. SubSeq(toClient, p, Len(toClient)) \in Seq(InProgram)
      BY <1>0
    <3>3. <<Sign("stray")>> \in Seq(InProgram)
      BY <1>0
    <3> QED
      BY <3>1, <3>2, <3>3 DEF InsertAt
  <2>3. [toClient EXCEPT ![p] = Sign("stray")] \in Seq(InProgram)
    BY <1>0
  <2>4. noise' \in 0 .. bounds.stray
    BY <1>3, OutsideFacts DEF Noise
  <2>5. UNCHANGED <<program, bounds, clientVars, toSim, simulator, executed, last, corrupted>>
    BY <1>3 DEF Noise, simVars
  <2>6. toClient' \in Seq(InProgram)
    BY <2>1, <2>2, <2>3
  <2> QED
    BY <1>0, <2>4, <2>5, <2>6, OutsideFacts, OutsideTyped
<1> QED
  BY <1>2, <1>3

LEMMA NextTyped == TypeOK /\ [Next]_vars => TypeOK'
<1> SUFFICES ASSUME TypeOK, [Next]_vars PROVE TypeOK'
  OBVIOUS
<1>1. CASE UNCHANGED vars
  <2>1. UNCHANGED <<program, bounds, call, client, packet, junk, answers, toSim, toClient,
                    simulator, executed, last, corrupted, noise>>
    BY <1>1 DEF vars, clientVars, simVars, faultVars
  <2>2. InProgram' = InProgram
    BY <2>1 DEF InProgram
  <2> QED
    BY <2>1, <2>2 DEF TypeOK
<1> QED
  BY <1>1, ClientStepTyped, SimulatorStepTyped, NetworkStepTyped DEF Next

-----------------------------------------------------------------------------
(***************************************************************************)
(* The commands, through a network that inserts characters and damages     *)
(* nothing: no packet is asked for again, and those on their way to the    *)
(* simulator are the ones that were sent and not executed, in order.       *)
(***************************************************************************)
Replies  == {t \in Tokens : t.kind # "-"}
Requests == {t \in Tokens : t.kind = "packet" => t.ok}
Bare     == {t \in Tokens : t.kind # "packet"}

Packets(s) == {p \in 1 .. Len(s) : s[p].kind = "packet"}

InOrder(s, done, sent) ==
  /\ done <= sent
  /\ \A p \in Packets(s) : s[p].n \in done + 1 .. sent
  /\ \A p, q \in Packets(s) : p < q => s[p].n < s[q].n
  /\ \A n \in done + 1 .. sent : \E p \in Packets(s) : s[p].n = n

Ordered ==
  /\ TypeOK
  /\ toClient \in Seq(Replies) /\ toSim \in Seq(Requests)
  /\ client = "calling" => packet = call - 1
  /\ client = "waiting" => packet = call
  /\ \A n \in 1 .. Len(executed) : executed[n] = n
  /\ simulator # "gone" => InOrder(toSim, Len(executed), packet)

LEMMA InOrderSigns ==
  ASSUME NEW s \in Seq(Tokens), NEW u \in Seq(Bare), NEW done \in Nat, NEW sent \in Nat,
         InOrder(s, done, sent)
  PROVE  InOrder(s \o u, done, sent)
<1>1. /\ Len(s) \in Nat /\ Len(u) \in Nat /\ Len(s \o u) = Len(s) + Len(u)
      /\ \A p \in 1 .. Len(s) : (s \o u)[p] = s[p]
      /\ \A p \in Len(s) + 1 .. Len(s) + Len(u) : (s \o u)[p] = u[p - Len(s)]
  OBVIOUS
<1>2. \A p \in Len(s) + 1 .. Len(s) + Len(u) : u[p - Len(s)].kind # "packet"
  <2> SUFFICES ASSUME NEW p \in Len(s) + 1 .. Len(s) + Len(u) PROVE u[p - Len(s)].kind # "packet"
    OBVIOUS
  <2>1. p - Len(s) \in 1 .. Len(u)
    BY <1>1
  <2> QED
    BY <2>1 DEF Bare
<1>3. \A p \in 1 .. Len(s \o u) : p \in 1 .. Len(s) \/ p \in Len(s) + 1 .. Len(s) + Len(u)
  BY <1>1
<1>4. Packets(s \o u) = Packets(s)
  BY <1>1, <1>2, <1>3 DEF Packets
<1>5. \A p \in Packets(s) : (s \o u)[p] = s[p]
  BY <1>1 DEF Packets
<1> QED
  BY <1>4, <1>5 DEF InOrder

LEMMA InOrderSend ==
  ASSUME NEW s \in Seq(Tokens), NEW t \in Tokens, NEW done \in Nat, NEW sent \in Nat,
         InOrder(s, done, sent), t.kind = "packet", t.n = sent + 1
  PROVE  InOrder(Append(s, t), done, sent + 1)
<1>1. /\ Len(Append(s, t)) = Len(s) + 1 /\ Len(s) \in Nat
      /\ \A p \in 1 .. Len(s) : Append(s, t)[p] = s[p]
      /\ Append(s, t)[Len(s) + 1] = t
  OBVIOUS
<1>2. Packets(Append(s, t)) = Packets(s) \cup {Len(s) + 1}
  BY <1>1 DEF Packets
<1>3. \A p \in Packets(s) : Append(s, t)[p] = s[p] /\ p < Len(s) + 1 /\ s[p].n \in done + 1 .. sent
  BY <1>1 DEF Packets, InOrder
<1>0. /\ done <= sent /\ sent + 1 \in done + 1 .. sent + 1
      /\ \A k \in done + 1 .. sent : k \in done + 1 .. sent + 1 /\ k < sent + 1
  BY DEF InOrder
<1>4. \A p \in Packets(Append(s, t)) : Append(s, t)[p].n \in done + 1 .. sent + 1
  BY <1>0, <1>1, <1>2, <1>3
<1>5. ASSUME NEW p \in Packets(Append(s, t)), NEW q \in Packets(Append(s, t)), p < q
      PROVE  Append(s, t)[p].n < Append(s, t)[q].n
  <2>1. p \in Packets(s) /\ p \in Nat
    BY <1>2, <1>1, <1>3, <1>5 DEF Packets
  <2>2. CASE q \in Packets(s)
    BY <1>3, <1>5, <2>1, <2>2 DEF InOrder
  <2>3. CASE q = Len(s) + 1
    <3>1. Append(s, t)[q].n = sent + 1 /\ Append(s, t)[p] = s[p]
      BY <1>1, <1>3, <2>1, <2>3
    <3> QED
      BY <1>0, <1>3, <2>1, <3>1
  <2> QED
    BY <1>2, <2>2, <2>3
<1>6. ASSUME NEW n \in done + 1 .. sent + 1
      PROVE  \E p \in Packets(Append(s, t)) : Append(s, t)[p].n = n
  <2>1. CASE n = sent + 1
    BY <1>1, <1>2, <2>1
  <2>2. CASE n # sent + 1
    <3>1. n \in done + 1 .. sent
      BY <2>2
    <3>2. PICK p \in Packets(s) : s[p].n = n
      BY <3>1 DEF InOrder
    <3> QED
      BY <1>2, <1>3, <3>2
  <2> QED
    BY <2>1, <2>2
<1>7. done <= sent + 1
  BY DEF InOrder
<1> QED
  BY <1>4, <1>5, <1>6, <1>7 DEF InOrder

\* What is left on the way when its first token has been read.
LEMMA PacketsOfTail ==
  ASSUME NEW s \in Seq(Tokens), s # <<>>
  PROVE  /\ 1 \in 1 .. Len(s)
         /\ \A p \in Packets(Tail(s)) : p \in Nat /\ p + 1 \in Packets(s) /\ Tail(s)[p] = s[p + 1]
         /\ \A p \in Packets(s) : p \in Nat \ {0} /\ (p # 1 => p - 1 \in Packets(Tail(s)))
<1>1. /\ Len(s) \in Nat \ {0} /\ Len(Tail(s)) = Len(s) - 1
      /\ \A p \in 1 .. Len(Tail(s)) : p + 1 \in 1 .. Len(s) /\ Tail(s)[p] = s[p + 1]
  OBVIOUS
<1>2. \A p \in Packets(Tail(s)) : p \in Nat /\ p + 1 \in Packets(s) /\ Tail(s)[p] = s[p + 1]
  BY <1>1 DEF Packets
<1>3. ASSUME NEW p \in Packets(s), p # 1 PROVE p - 1 \in Packets(Tail(s))
  <2>1. p \in 1 .. Len(s) /\ s[p].kind = "packet"
    BY DEF Packets
  <2>2. p - 1 \in 1 .. Len(Tail(s)) /\ (p - 1) + 1 = p
    BY <1>1, <1>3, <2>1
  <2> QED
    BY <1>1, <2>1, <2>2 DEF Packets
<1>4. \A p \in Packets(s) : p \in Nat \ {0} /\ (p # 1 => p - 1 \in Packets(Tail(s)))
  BY <1>1, <1>3 DEF Packets
<1>5. 1 \in 1 .. Len(s)
  BY <1>1
<1> QED
  BY <1>2, <1>4, <1>5

LEMMA InOrderRead ==
  ASSUME NEW s \in Seq(Tokens), NEW done \in Nat, NEW sent \in Nat, InOrder(s, done, sent),
         s # <<>>, NEW after \in Nat,
         \A p \in Packets(Tail(s)) : Tail(s)[p].n > after,
         after >= done, after <= sent, 
         1 \in Packets(s) => s[1].n <= after
  PROVE  InOrder(Tail(s), after, sent)
<1>1. /\ \A p \in Packets(Tail(s)) : p \in Nat /\ p + 1 \in Packets(s) /\ Tail(s)[p] = s[p + 1]
      /\ \A p \in Packets(s) : p \in Nat \ {0} /\ (p # 1 => p - 1 \in Packets(Tail(s)))
  BY PacketsOfTail
<1>2. \A p \in Packets(Tail(s)) : Tail(s)[p].n \in after + 1 .. sent
  <2> SUFFICES ASSUME NEW p \in Packets(Tail(s)) PROVE Tail(s)[p].n \in after + 1 .. sent
    OBVIOUS
  <2>1. s[p + 1].n \in done + 1 .. sent /\ Tail(s)[p].n = s[p + 1].n
    BY <1>1 DEF InOrder
  <2>2. \A k \in done + 1 .. sent : k > after => k \in after + 1 .. sent
    OBVIOUS
  <2> QED
    BY <2>1, <2>2
<1>3. ASSUME NEW p \in Packets(Tail(s)), NEW q \in Packets(Tail(s)), p < q
      PROVE  Tail(s)[p].n < Tail(s)[q].n
  <2>1. p + 1 < q + 1
    BY <1>1, <1>3
  <2> QED
    BY <1>1, <2>1 DEF InOrder
<1>4. ASSUME NEW n \in after + 1 .. sent
      PROVE  \E p \in Packets(Tail(s)) : Tail(s)[p].n = n
  <2>1. n \in done + 1 .. sent /\ n > after
    OBVIOUS
  <2>2. PICK p \in Packets(s) : s[p].n = n
    BY <2>1 DEF InOrder
  <2>3. p # 1
    BY <2>1, <2>2
  <2>4. p - 1 \in Packets(Tail(s)) /\ (p - 1) + 1 = p
    BY <1>1, <2>3
  <2>5. Tail(s)[p - 1] = s[p]
    BY <1>1, <2>4
  <2> QED
    BY <2>2, <2>4, <2>5
<1> QED
  BY <1>2, <1>3, <1>4 DEF InOrder

LEMMA InOrderTail ==
  ASSUME NEW s \in Seq(Tokens), NEW done \in Nat, NEW sent \in Nat, InOrder(s, done, sent),
         s # <<>>, s[1].kind # "packet"
  PROVE  InOrder(Tail(s), done, sent)
<1>1. 1 \notin Packets(s)
  BY DEF Packets
<1>2. \A p \in Packets(Tail(s)) : Tail(s)[p].n > done
  <2> SUFFICES ASSUME NEW p \in Packets(Tail(s)) PROVE Tail(s)[p].n > done
    OBVIOUS
  <2>1. Tail(s)[p].n \in done + 1 .. sent
    BY PacketsOfTail DEF InOrder
  <2>2. \A k \in done + 1 .. sent : k > done
    OBVIOUS
  <2> QED
    BY <2>1, <2>2
<1>3. done <= sent /\ done >= done /\ (1 \in Packets(s) => s[1].n <= done)
  BY <1>1 DEF InOrder
<1> QED
  BY <1>2, <1>3, InOrderRead

\* The first packet is the next one.
LEMMA InOrderExecute ==
  ASSUME NEW s \in Seq(Tokens), NEW done \in Nat, NEW sent \in Nat, InOrder(s, done, sent),
         s # <<>>, s[1].kind = "packet"
  PROVE  s[1].n = done + 1 /\ InOrder(Tail(s), done + 1, sent)
<1>1. /\ \A p \in Packets(Tail(s)) : p \in Nat /\ p + 1 \in Packets(s) /\ Tail(s)[p] = s[p + 1]
      /\ \A p \in Packets(s) : p \in Nat \ {0} /\ (p # 1 => p - 1 \in Packets(Tail(s)))
      /\ 1 \in 1 .. Len(s)
  BY PacketsOfTail
<1>2. 1 \in Packets(s)
  BY <1>1 DEF Packets
<1>3. s[1].n \in done + 1 .. sent
  BY <1>2 DEF InOrder
<1>4. \A p \in Packets(s) : s[p].n \in Int /\ (p # 1 => s[1].n < s[p].n)
  <2> SUFFICES ASSUME NEW p \in Packets(s) PROVE s[p].n \in Int /\ (p # 1 => s[1].n < s[p].n)
    OBVIOUS
  <2>1. p # 1 => 1 < p
    BY <1>1
  <2> QED
    BY <1>2, <2>1 DEF InOrder
<1>5. s[1].n = done + 1
  <2>1. done + 1 \in done + 1 .. sent
    BY <1>3
  <2>2. PICK p \in Packets(s) : s[p].n = done + 1
    BY <2>1 DEF InOrder
  <2>3. p = 1
    BY <1>3, <1>4, <2>2
  <2> QED
    BY <2>2, <2>3
<1>6. \A p \in Packets(Tail(s)) : Tail(s)[p].n > done + 1
  <2> SUFFICES ASSUME NEW p \in Packets(Tail(s)) PROVE Tail(s)[p].n > done + 1
    OBVIOUS
  <2>1. p + 1 \in Packets(s) /\ p + 1 # 1 /\ Tail(s)[p] = s[p + 1]
    <3>1. p \in 1 .. Len(Tail(s))
      BY DEF Packets
    <3> QED
      BY <1>1, <3>1
  <2> QED
    BY <1>4, <1>5, <2>1
<1>7. /\ done + 1 <= sent /\ done + 1 \in Nat /\ done + 1 >= done
      /\ 1 \in Packets(s) => s[1].n <= done + 1
  BY <1>3, <1>5
<1> QED
  BY <1>5, <1>6, <1>7, InOrderRead

LEMMA InitOrdered == Init => Ordered
<1> SUFFICES ASSUME Init PROVE Ordered
  OBVIOUS
<1>1. toSim = <<>> /\ toClient = <<>> /\ executed = <<>> /\ packet = 0 /\ call = 1
  BY DEF Init
<1>2. InOrder(toSim, Len(executed), packet)
  BY <1>1 DEF InOrder, Packets
<1> QED
  BY <1>1, <1>2, InitTyped DEF Init, Ordered

LEMMA OrderedFacts ==
  ASSUME Ordered
  PROVE  /\ TypeOK /\ call \in Nat \ {0} /\ packet \in Nat
         /\ executed \in Seq(Nat) /\ Len(executed) \in Nat
         /\ toSim \in Seq(Tokens) /\ toSim \in Seq(Requests)
         /\ toClient \in Seq(Tokens) /\ toClient \in Seq(Replies)
         /\ Sign("+") \in Replies \cap Bare /\ Sign("-") \in Bare
         /\ \A n \in Nat : Packet(n) \in Replies \cap Requests
         /\ Bare \subseteq Requests
<1>1. TypeOK
  BY DEF Ordered
<1>2. program \in Programs /\ Len(program) \in Nat
  BY <1>1, TypedFacts
<1>3. executed \in Seq(1 .. Len(program))
  BY <1>1, OutsideFacts
<1>4. executed \in Seq(Nat) /\ Len(executed) \in Nat
  BY <1>2, <1>3
<1>5. toSim \in Seq(Tokens) /\ toClient \in Seq(Tokens)
  BY <1>1, <1>2, InProgramSigns DEF TypeOK
<1>6. /\ Sign("+") \in Replies \cap Bare /\ Sign("-") \in Bare
      /\ \A n \in Nat : Packet(n) \in Replies \cap Requests
      /\ Bare \subseteq Requests
  BY DEF Sign, Packet, Tokens, Replies, Requests, Bare
<1>7. call \in Nat \ {0} /\ packet \in Nat
  BY <1>1, <1>2, TypedFacts
<1> QED
  BY <1>1, <1>4, <1>5, <1>6, <1>7 DEF Ordered

\* The client sends signs.
LEMMA EmitOrdered ==
  ASSUME Ordered, NEW signs \in Seq(Bare), NEW after, Emit(signs, after),
         UNCHANGED <<packet, executed, simulator>>
  PROVE  /\ toSim' \in Seq(Requests) /\ client' \in {after, "killed"}
         /\ simulator' # "gone" => InOrder(toSim', Len(executed'), packet')
<1>1. /\ packet \in Nat /\ Len(executed) \in Nat
      /\ toSim \in Seq(Tokens) /\ toSim \in Seq(Requests) /\ Bare \subseteq Requests
  BY OrderedFacts
<1>2. toSim \o signs \in Seq(Requests)
  <2>1. signs \in Seq(Requests)
    BY <1>1
  <2> QED
    BY <1>1, <2>1
<1>3. simulator # "gone" => InOrder(toSim \o signs, Len(executed), packet)
  BY <1>1, InOrderSigns DEF Ordered
<1> QED
  BY <1>1, <1>2, <1>3 DEF Emit

\* A token is read: it asks for no packet, and the answer is a sign or nothing.
LEMMA ReadOrdered ==
  ASSUME Ordered, Client, ~SendPacket, ~EndProgram
  PROVE  Ordered'
<1>0. /\ TypeOK' /\ TypeOK /\ toClient \in Seq(Replies) /\ call \in Nat \ {0}
      /\ \A n \in 1 .. Len(executed) : executed[n] = n
      /\ Sign("+") \in Bare /\ Sign("-") \in Bare
  BY ClientStepTyped, OrderedFacts DEF Ordered
<1>1. /\ client = "waiting" /\ toClient # <<>> /\ packet = call
      /\ UNCHANGED <<executed, simulator>>
  BY DEF Client, ReadAck, ReadNak, ReadDamaged, ReadAnswer, ReadStray, ReadEof, Reads, simVars,
         Ordered
<1>2. toClient[1] \in Replies /\ Tail(toClient) \in Seq(Replies)
  BY <1>0, <1>1
<1>3. HandleError \in Seq(Bare)
  BY <1>0 DEF HandleError
<1>4. HandleError \o <<Sign("+")>> \in Seq(Bare) /\ HandleError \o <<Sign("-")>> \in Seq(Bare)
  BY <1>0, <1>3
<1>5. ~ReadNak
  BY <1>2 DEF ReadNak, Reads, Token, Replies
<1>6. /\ packet' = packet /\ toClient' \in Seq(Replies)
      /\ \E signs \in Seq(Bare) :
           \/ call' = call /\ Emit(signs, "waiting")
           \/ call' = call + 1 /\ \E n \in {Token.n, 0} : Emit(signs, After(n))
  <2>1. CASE ReadAck \/ ReadStray \/ ReadDamaged
    <3>1. /\ packet' = packet /\ call' = call /\ toClient' = Tail(toClient)
          /\ \/ Emit(HandleError, "waiting") \/ Emit(<<>>, "waiting")
             \/ Emit(HandleError \o <<Sign("-")>>, "waiting")
      BY <2>1 DEF ReadAck, ReadStray, ReadDamaged
    <3>2. <<>> \in Seq(Bare)
      OBVIOUS
    <3> QED
      BY <1>2, <1>3, <1>4, <3>1, <3>2
  <2>2. CASE ReadAnswer
    BY <1>2, <1>4, <2>2 DEF ReadAnswer, Returns
  <2>3. CASE ReadEof
    BY <1>0, <1>3, <2>3 DEF ReadEof, Returns
  <2> QED
    BY <1>5, <2>1, <2>2, <2>3 DEF Client
<1>7. PICK signs \in Seq(Bare) :
        \/ call' = call /\ Emit(signs, "waiting")
        \/ call' = call + 1 /\ \E n \in {Token.n, 0} : Emit(signs, After(n))
  BY <1>6
<1>8. /\ toSim' \in Seq(Requests)
      /\ simulator' # "gone" => InOrder(toSim', Len(executed'), packet')
  BY <1>1, <1>6, <1>7, EmitOrdered
<1>9. (client' = "calling" => packet' = call' - 1) /\ (client' = "waiting" => packet' = call')
  <2>1. CASE call' = call /\ Emit(signs, "waiting")
    BY <1>1, <1>6, <2>1, EmitOrdered
  <2>2. CASE call' = call + 1 /\ \E n \in {Token.n, 0} : Emit(signs, After(n))
    <3>1. PICK n \in {Token.n, 0} : Emit(signs, After(n))
      BY <2>2
    <3>2. client' \in {After(n), "killed"}
      BY <1>1, <1>6, <3>1, EmitOrdered
    <3>3. client' # "waiting"
      BY <3>2 DEF After
    <3>4. packet' = call' - 1
      BY <1>0, <1>1, <1>6, <2>2
    <3> QED
      BY <3>3, <3>4
  <2> QED
    BY <1>7, <2>1, <2>2
<1>10. \A n \in 1 .. Len(executed') : executed'[n] = n
  BY <1>0, <1>1
<1> QED
  BY <1>0, <1>6, <1>8, <1>9, <1>10 DEF Ordered

LEMMA ClientOrdered ==
  ASSUME Ordered, Client
  PROVE  Ordered'
<1>0. TypeOK' /\ call \in Nat \ {0}
  BY ClientStepTyped, OrderedFacts
<1>1. CASE SendPacket
  <2>1. /\ packet' = call /\ call' = call /\ packet = call - 1
        /\ Emit(<<Packet(call)>>, "waiting")
        /\ UNCHANGED <<toClient, simulator, executed>>
    BY <1>1 DEF SendPacket, simVars, Ordered
  <2>2. /\ toSim \in Seq(Tokens) /\ toSim \in Seq(Requests) /\ packet \in Nat /\ Len(executed) \in Nat
        /\ Packet(call) \in Requests
    BY <1>0, OrderedFacts
  <2>3. Packet(call) \in Tokens /\ Packet(call).kind = "packet" /\ Packet(call).n = packet + 1
    BY <1>0, <2>1, Signs
  <2>4. toSim \o <<Packet(call)>> = Append(toSim, Packet(call)) /\ Append(toSim, Packet(call)) \in Seq(Requests)
    BY <2>2
  <2>5. simulator # "gone" => InOrder(Append(toSim, Packet(call)), Len(executed), packet + 1)
    BY <2>2, <2>3, InOrderSend DEF Ordered
  <2>6. packet + 1 = packet'
    BY <1>0, <2>1
  <2>7. client' \in {"waiting", "killed"} /\ toSim' \in Seq(Requests)
        /\ (simulator' # "gone" => InOrder(toSim', Len(executed'), packet'))
    BY <2>1, <2>2, <2>4, <2>5, <2>6 DEF Emit
  <2> QED
    BY <1>0, <2>1, <2>7 DEF Ordered
<1>2. CASE EndProgram
  BY <1>0, <1>2 DEF EndProgram, simVars, Ordered
<1> QED
  BY <1>1, <1>2, ReadOrdered

LEMMA SimulatorOrdered ==
  ASSUME Ordered, Simulator
  PROVE  Ordered'
<1>0. /\ TypeOK' /\ toSim \in Seq(Tokens) /\ toSim \in Seq(Requests) /\ toClient \in Seq(Replies)
      /\ packet \in Nat /\ executed \in Seq(Nat) /\ Len(executed) \in Nat /\ last \in Nat
      /\ Sign("+") \in Replies /\ \A n \in Nat : Packet(n) \in Replies
      /\ \A n \in 1 .. Len(executed) : executed[n] = n
      /\ client = "calling" => packet = call - 1
      /\ client = "waiting" => packet = call
  BY SimulatorStepTyped, OrderedFacts, OutsideFacts, TypedFacts DEF Ordered
<1>1. ASSUME NEW kind, Gets(kind)
      PROVE  /\ toSim # <<>> /\ toSim[1].kind = kind /\ toSim[1] \in Requests
             /\ toSim' = Tail(toSim) /\ toSim' \in Seq(Requests)
             /\ InOrder(toSim, Len(executed), packet)
             /\ UNCHANGED <<call, client, packet>>
  <2>1. /\ toSim # <<>> /\ toSim[1].kind = kind /\ toSim' = Tail(toSim) /\ simulator = "ready"
        /\ UNCHANGED <<call, client, packet>>
    BY <1>1 DEF Gets, clientVars
  <2>2. toSim[1] \in Requests /\ Tail(toSim) \in Seq(Requests)
    BY <1>0, <2>1
  <2> QED
    BY <2>1, <2>2 DEF Ordered
<1>2. CASE Execute
  <2>1. Gets("packet") /\ executed' = Append(executed, toSim[1].n)
    BY <1>2 DEF Execute
  <2>2. toSim[1].n = Len(executed) + 1 /\ InOrder(toSim', Len(executed) + 1, packet)
    <3>1. /\ toSim # <<>> /\ toSim[1].kind = "packet" /\ toSim' = Tail(toSim)
          /\ InOrder(toSim, Len(executed), packet)
      BY <1>1, <2>1
    <3>2. toSim[1].n = Len(executed) + 1 /\ InOrder(Tail(toSim), Len(executed) + 1, packet)
      BY <1>0, <3>1, InOrderExecute
    <3> QED
      BY <3>1, <3>2
  <2>3. Len(executed') = Len(executed) + 1 /\ \A n \in 1 .. Len(executed') : executed'[n] = n
    BY <1>0, <2>1, <2>2
  <2>4. toClient' \in Seq(Replies)
    <3>1. toSim[1].n \in Nat
      BY <1>0, <2>2
    <3>2. toClient' \in {Append(toClient, Sign("+")), toClient \o <<Sign("+"), Packet(toSim[1].n)>>}
      BY <1>2 DEF Execute
    <3>3. <<Sign("+"), Packet(toSim[1].n)>> \in Seq(Replies)
      BY <1>0, <3>1
    <3>4. /\ Append(toClient, Sign("+")) \in Seq(Replies)
          /\ toClient \o <<Sign("+"), Packet(toSim[1].n)>> \in Seq(Replies)
      BY <1>0, <3>3
    <3> QED
      BY <3>2, <3>4
  <2> QED
    BY <1>0, <1>1, <2>1, <2>2, <2>3, <2>4 DEF Ordered
<1>3. CASE Acknowledged \/ AnswerAgain
  <2>1. PICK kind \in {"+", "-"} : Gets(kind) /\ executed' = executed
    BY <1>3 DEF Acknowledged, AnswerAgain, simVars
  <2>2. InOrder(toSim', Len(executed), packet)
    BY <1>0, <1>1, <2>1, InOrderTail
  <2>3. toClient' \in Seq(Replies)
    <3>1. toClient' \in {toClient, Append(toClient, Packet(last))}
      BY <1>3 DEF Acknowledged, AnswerAgain
    <3>2. Packet(last) \in Replies
      BY <1>0
    <3>3. Append(toClient, Packet(last)) \in Seq(Replies)
      BY <1>0, <3>2
    <3> QED
      BY <1>0, <3>1, <3>3
  <2> QED
    BY <1>0, <1>1, <2>1, <2>2, <2>3 DEF Ordered
<1>4. ~Refuse
  <2> SUFFICES ASSUME Refuse PROVE FALSE
    OBVIOUS
  <2>1. Gets("packet") /\ ~toSim[1].ok
    BY DEF Refuse
  <2> QED
    BY <1>1, <2>1 DEF Requests
<1>5. CASE Exit
  <2>1. /\ simulator' = "gone" /\ toClient' = Append(toClient, Sign("eof"))
        /\ UNCHANGED <<call, client, packet, toSim, executed>>
    BY <1>5 DEF Exit, clientVars
  <2>2. Sign("eof") \in Replies
    BY DEF Sign, Replies, Tokens
  <2>3. toClient' \in Seq(Replies)
    BY <1>0, <2>1, <2>2
  <2> QED
    BY <1>0, <2>1, <2>3 DEF Ordered
<1> QED
  BY <1>2, <1>3, <1>4, <1>5 DEF Simulator

\* A character is inserted.
LEMMA NoiseOrdered ==
  ASSUME Ordered, Noise
  PROVE  Ordered'
<1>0. TypeOK' /\ toClient \in Seq(Replies)
  BY NetworkStepTyped DEF Ordered
<1>1. PICK p \in 1 .. Len(toClient) :
        \/ toClient' = InsertAt(toClient, p, Sign("stray"))
        \/ toClient' = [toClient EXCEPT ![p] = Sign("stray")]
  BY DEF Noise
<1>2. Sign("stray") \in Replies
  BY DEF Sign, Replies, Tokens
<1>3. InsertAt(toClient, p, Sign("stray")) \in Seq(Replies)
  <2>1. SubSeq(toClient, 1, p - 1) \in Seq(Replies) /\ SubSeq(toClient, p, Len(toClient)) \in Seq(Replies)
    BY <1>0
  <2>2. <<Sign("stray")>> \in Seq(Replies)
    BY <1>2
  <2> QED
    BY <2>1, <2>2 DEF InsertAt
<1>4. [toClient EXCEPT ![p] = Sign("stray")] \in Seq(Replies)
  BY <1>0, <1>2
<1>5. UNCHANGED <<call, client, packet, toSim, simulator, executed>>
  BY DEF Noise, clientVars, simVars
<1> QED
  BY <1>0, <1>1, <1>3, <1>4, <1>5 DEF Ordered

LEMMA NextOrdered == (bounds.damaged = 0 => Ordered) /\ [Next]_vars => (bounds.damaged = 0 => Ordered)'
<1> SUFFICES ASSUME bounds.damaged = 0 => Ordered, [Next]_vars, bounds'.damaged = 0
             PROVE  Ordered'
  OBVIOUS
<1>1. bounds' = bounds
  BY BoundsKept
<1>2. Ordered /\ bounds.damaged = 0
  BY <1>1
<1>3. ~Corrupt
  BY <1>2, OutsideFacts DEF Corrupt, Ordered
<1>4. CASE UNCHANGED vars
  <2>1. TypeOK'
    BY <1>2, NextTyped DEF Ordered
  <2> QED
    BY <1>2, <1>4, <2>1 DEF vars, clientVars, simVars, Ordered
<1> QED
  BY <1>2, <1>3, <1>4, ClientOrdered, SimulatorOrdered, NoiseOrdered DEF Next

OnceInv ==
  /\ bounds.stray = 0 => CInv
  /\ bounds.damaged = 0 => Ordered

LEMMA InitOnce == Init => OnceInv
BY InitCInv, InitOrdered DEF OnceInv

LEMMA NextOnce == OnceInv /\ [Next]_vars => OnceInv'
BY NextCInv, NextOrdered DEF OnceInv

LEMMA OnceExact == OnceInv => OnceUnlessBothFaults
<1>1. CInv => ExactlyOnce
  BY DEF CInv, Logs, Shapes, ExactlyOnce
<1>2. Ordered => ExactlyOnce
  <2> SUFFICES ASSUME Ordered PROVE ExactlyOnce
    OBVIOUS
  <2>1. DOMAIN executed = 1 .. Len(executed)
    BY OrderedFacts
  <2> QED
    BY <2>1 DEF Ordered, ExactlyOnce
<1> QED
  BY <1>1, <1>2 DEF OnceInv, OneFault, OnceUnlessBothFaults

\* When the network damages packets, or inserts characters, and does not do
\* both, no command is executed twice, out of order or skipped (scanner.l:64-68,
\* gdb_protocol.c:228-231); the run gdb_lost shows what happens when it does
\* both.
THEOREM CommandsOnce == Spec => []OnceUnlessBothFaults
BY InitOnce, NextOnce, OnceExact, PTL DEF Spec
-----------------------------------------------------------------------------
(***************************************************************************)
(* The connection, and the calls of a program that connects first.         *)
(***************************************************************************)
\* No address before r accepts.
NoneBefore(r) == \A q \in 1 .. r - 1 : host.addresses[q] # "accepts"

\* Between two steps of the loop of arm_connect, the addresses before the one
\* that is tried have failed, and have left no socket.
Connecting ==
  /\ host \in Hosts
  /\ main \in {"options", "socket"} => sockets = {}
  /\ main \in {"socket", "connect", "calls", "crashed"} =>
       rp \in 1 .. Len(host.addresses) /\ NoneBefore(rp)
  /\ main \in {"connect", "calls", "crashed"} => sockets = {rp}
  /\ main = "connect" => host.addresses[rp] # "nosocket"
  /\ main \in {"calls", "crashed"} => host.addresses[rp] = "accepts"
  /\ main = "unconnected" => sockets = {} /\ NoneBefore(Len(host.addresses) + 1)

LEMMA AddressesOfHost ==
  ASSUME host \in Hosts
  PROVE  host.addresses \in Seq(Addresses) /\ Len(host.addresses) \in Nat
BY HostsAssumption DEF HostKinds

LEMMA InitConnecting == SInit => Connecting
BY DEF SInit, Connecting

\* The step to the next address, when the one tried does not accept and its
\* socket is closed.
LEMMA AddressFails ==
  ASSUME Connecting, main \in {"socket", "connect"}, host.addresses[rp] # "accepts",
         NextAddress, sockets' = {}, UNCHANGED host
  PROVE  Connecting'
<1>1. Len(host.addresses) \in Nat /\ rp \in 1 .. Len(host.addresses) /\ NoneBefore(rp)
  BY AddressesOfHost DEF Connecting
<1>2. \A q \in 1 .. rp : host.addresses[q] # "accepts"
  BY <1>1 DEF NoneBefore
<1>3. CASE rp = Len(host.addresses)
  <2>1. main' = "unconnected" /\ rp' = rp
    BY <1>3 DEF NextAddress
  <2>2. \A q \in 1 .. (Len(host.addresses) + 1) - 1 : host.addresses[q] # "accepts"
    BY <1>1, <1>2, <1>3
  <2> QED
    BY <2>1, <2>2 DEF Connecting, NoneBefore
<1>4. CASE rp # Len(host.addresses)
  <2>1. main' = "socket" /\ rp' = rp + 1
    BY <1>4 DEF NextAddress
  <2>2. rp + 1 \in 1 .. Len(host.addresses)
    BY <1>1, <1>4
  <2>3. \A q \in 1 .. (rp + 1) - 1 : host.addresses[q] # "accepts"
    BY <1>1, <1>2
  <2> QED
    BY <2>1, <2>2, <2>3 DEF Connecting, NoneBefore
<1> QED
  BY <1>3, <1>4

LEMMA NextConnecting == Connecting /\ [SNext]_svars => Connecting'
<1> SUFFICES ASSUME Connecting, [SNext]_svars PROVE Connecting'
  OBVIOUS
<1>1. CASE ReadOption
  BY <1>1 DEF ReadOption, Connecting, NoneBefore
<1>2. CASE Resolve
  <2>1. Len(host.addresses) \in Nat
    BY AddressesOfHost DEF Connecting
  <2>2. CASE main' = "socket" /\ rp' = 1 /\ host.addresses # <<>>
    <3>1. 1 \in 1 .. Len(host.addresses)
      BY <2>1, <2>2, AddressesOfHost DEF Connecting
    <3>2. \A q \in 1 .. 1 - 1 : host.addresses[q] # "accepts"
      OBVIOUS
    <3> QED
      BY <1>2, <2>2, <3>1, <3>2 DEF Resolve, Connecting, NoneBefore
  <2>3. CASE main' = "dns_error"
    BY <1>2, <2>3 DEF Resolve, Connecting
  <2> QED
    BY <1>2, <2>2, <2>3 DEF Resolve
<1>3. CASE Socket
  <2>1. CASE host.addresses[rp] = "nosocket"
    <3>1. NextAddress /\ sockets' = {} /\ UNCHANGED host /\ main = "socket"
      BY <1>3, <2>1 DEF Socket, Connecting
    <3> QED
      BY <2>1, <3>1, AddressFails
  <2>2. CASE host.addresses[rp] # "nosocket"
    <3>1. /\ main = "socket" /\ main' = "connect" /\ sockets' = {rp}
          /\ UNCHANGED <<host, rp>>
      BY <1>3, <2>2 DEF Socket, Connecting
    <3> QED
      BY <2>2, <3>1 DEF Connecting, NoneBefore
  <2> QED
    BY <2>1, <2>2
<1>4. CASE Refused
  <2>1. /\ main = "connect" /\ host.addresses[rp] # "accepts"
        /\ NextAddress /\ sockets' = {} /\ UNCHANGED host
    BY <1>4 DEF Refused, Connecting
  <2> QED
    BY <2>1, AddressFails
<1>5. CASE Connected
  BY <1>5 DEF Connected, Connecting, NoneBefore
<1>6. CASE NoScanner
  BY <1>6 DEF NoScanner, connectVars, Connecting, NoneBefore
<1>7. CASE UNCHANGED <<connectVars, main>>
  BY <1>7 DEF connectVars, Connecting, NoneBefore
<1>8. SClient \/ Serves \/ Leaves(TRUE) \/ Fault => UNCHANGED <<connectVars, main>>
  BY DEF SClient, Serves, Leaves, Fault
<1>9. UNCHANGED svars => UNCHANGED <<connectVars, main>>
  BY DEF svars
<1> QED
  BY <1>1, <1>2, <1>3, <1>4, <1>5, <1>6, <1>7, <1>8, <1>9 DEF SNext, Main

\* A program that connects has the first address that accepts and no other
\* socket; one that gives up has tried them all (arm_simulator_interface.c:50-67).
THEOREM TalksToFirstReachable == SSpec => []FirstReachable
<1>1. Connecting => FirstReachable
  <2> SUFFICES ASSUME Connecting PROVE FirstReachable
    OBVIOUS
  <2>1. Len(host.addresses) \in Nat /\ DOMAIN host.addresses = 1 .. Len(host.addresses)
    BY AddressesOfHost DEF Connecting
  <2>2. ASSUME main \in {"calls", "crashed"}
        PROVE  /\ rp \in 1 .. Len(host.addresses) /\ host.addresses[rp] = "accepts"
               /\ sockets = {rp}
               /\ \A r \in 1 .. Len(host.addresses) : host.addresses[r] = "accepts" => rp <= r
    BY <2>1, <2>2 DEF Connecting, NoneBefore
  <2>3. ASSUME main = "unconnected"
        PROVE  sockets = {} /\ \A r \in 1 .. Len(host.addresses) : host.addresses[r] # "accepts"
    BY <2>1, <2>3 DEF Connecting, NoneBefore
  <2> QED
    BY <2>1, <2>2, <2>3 DEF FirstReachable
<1> QED
  BY <1>1, InitConnecting, NextConnecting, PTL DEF SSpec
-----------------------------------------------------------------------------
\* A step of the program, of the simulator or of the network is one of module
\* GdbClient, or leaves its variables as they are.
LEMMA SessionSteps == [SNext]_svars => [Next]_vars
<1>1. ReadOption \/ Resolve \/ Socket \/ Refused \/ Connected \/ NoScanner => UNCHANGED vars
  BY DEF ReadOption, Resolve, Socket, Refused, Connected, NoScanner
<1>2. SClient => Next
  BY DEF SClient, Next
<1>3. Serves \/ Leaves(TRUE) \/ Fault => Next
  BY DEF Serves, Leaves, Fault, Next, Simulator
<1>4. UNCHANGED svars => UNCHANGED vars
  BY DEF svars
<1> QED
  BY <1>1, <1>2, <1>3, <1>4 DEF SNext, Main

\* The program is at its options, or has resolved the name and tries an
\* address.
SessionTyped ==
  /\ argv \in CommandLines /\ optind \in 0 .. Len(argv)
  /\ main \in {"options", "usage", "unrecognized", "dns_error", "socket", "connect",
              "unconnected", "calls", "crashed"}
  /\ hostname \in BOOLEAN /\ servicename \in BOOLEAN /\ scanner \in BOOLEAN
  /\ rp \in 0 .. Len(host.addresses) /\ sockets \subseteq DOMAIN host.addresses

LEMMA HostFacts ==
  ASSUME Connecting, SessionTyped
  PROVE  /\ DOMAIN host.addresses = 1 .. Len(host.addresses) /\ Len(host.addresses) \in Nat
         /\ argv \in Seq(Options) /\ Len(argv) \in Nat
         /\ host.stream \in BOOLEAN
<1>1. host \in Hosts /\ host \in HostKinds
  BY HostsAssumption DEF Connecting
<1> QED
  BY <1>1, AddressesOfHost, CommandLinesAssumption DEF SessionTyped, HostKinds

LEMMA InitSessionTyped == SInit => SessionTyped
<1> SUFFICES ASSUME SInit PROVE SessionTyped
  OBVIOUS
<1>1. argv \in Seq(Options) /\ host \in Hosts
  BY CommandLinesAssumption DEF SInit
<1>2. Len(argv) \in Nat /\ Len(host.addresses) \in Nat
  BY <1>1, AddressesOfHost
<1>3. optind \in 0 .. Len(argv) /\ rp \in 0 .. Len(host.addresses)
  BY <1>2 DEF SInit
<1>4. main = "options" /\ hostname = FALSE /\ servicename = FALSE /\ scanner = FALSE
      /\ sockets = {} /\ argv \in CommandLines
  BY DEF SInit
<1> QED
  BY <1>3, <1>4 DEF SessionTyped

LEMMA NextAddressTyped ==
  ASSUME Connecting, SessionTyped, main \in {"socket", "connect"}, NextAddress
  PROVE  main' \in {"socket", "unconnected"} /\ rp' \in 0 .. Len(host.addresses)
BY HostFacts DEF NextAddress, Connecting

LEMMA NextSessionTyped == Connecting /\ SessionTyped /\ [SNext]_svars => SessionTyped'
<1> SUFFICES ASSUME Connecting, SessionTyped, [SNext]_svars PROVE SessionTyped'
  OBVIOUS
<1>0. /\ DOMAIN host.addresses = 1 .. Len(host.addresses) /\ Len(host.addresses) \in Nat
      /\ argv \in Seq(Options) /\ Len(argv) \in Nat /\ host.stream \in BOOLEAN
  BY HostFacts
<1>1. CASE ReadOption
  <2>1. optind' \in 0 .. Len(argv')
    BY <1>0, <1>1 DEF ReadOption, SessionTyped
  <2>2. main' \in {"usage", "unrecognized", "options"}
    BY <1>1 DEF ReadOption
  <2>3. hostname' \in BOOLEAN /\ servicename' \in BOOLEAN
    BY <1>1 DEF ReadOption, SessionTyped
  <2> QED
    BY <1>1, <2>1, <2>2, <2>3 DEF ReadOption, SessionTyped
<1>2. CASE Resolve
  <2>1. (main' = "socket" /\ rp' = 1 /\ host.addresses # <<>>) \/ (main' = "dns_error" /\ rp' = rp)
    BY <1>2 DEF Resolve
  <2>2. host.addresses # <<>> => 1 \in 0 .. Len(host.addresses)
    BY AddressesOfHost, <1>0 DEF Connecting
  <2> QED
    BY <1>2, <2>1, <2>2 DEF Resolve, SessionTyped
<1>3. CASE Socket
  <2>1. main = "socket" /\ UNCHANGED <<argv, host, optind, hostname, servicename, scanner>>
    BY <1>3 DEF Socket
  <2>2. rp \in DOMAIN host.addresses
    BY <1>0, <2>1 DEF Connecting
  <2>3. CASE NextAddress /\ sockets' = sockets
    BY <2>1, <2>3, NextAddressTyped DEF SessionTyped
  <2>4. CASE sockets' = sockets \cup {rp} /\ main' = "connect" /\ rp' = rp
    BY <2>1, <2>2, <2>4 DEF SessionTyped
  <2> QED
    BY <1>3, <2>3, <2>4 DEF Socket
<1>4. CASE Refused
  BY <1>4, NextAddressTyped DEF Refused, SessionTyped
<1>5. CASE Connected
  BY <1>0, <1>5 DEF Connected, SessionTyped
<1>6. CASE NoScanner
  BY <1>6 DEF NoScanner, connectVars, SessionTyped
<1>7. CASE UNCHANGED <<connectVars, main>>
  BY <1>7 DEF connectVars, SessionTyped
<1>8. SClient \/ Serves \/ Leaves(TRUE) \/ Fault => UNCHANGED <<connectVars, main>>
  BY DEF SClient, Serves, Leaves, Fault
<1>9. UNCHANGED svars => UNCHANGED <<connectVars, main>>
  BY DEF svars
<1> QED
  BY <1>1, <1>2, <1>3, <1>4, <1>5, <1>6, <1>7, <1>8, <1>9 DEF SNext, Main

\* The variables of the program, of the simulator and of the network keep
\* their types, whatever is damaged and inserted: what is under way names
\* commands of the program, and a call is made as long as there is one
\* (ARM_runner_example.c, arm_simulator_interface.c, scanner.l).
THEOREM SessionTypes == SSpec => []STypeOK
<1> DEFINE Inv == TypeOK /\ Connecting /\ SessionTyped
<1>1. SInit => Inv
  BY InitTyped, InitConnecting, InitSessionTyped DEF SInit
<1>2. Inv /\ [SNext]_svars => Inv'
  BY NextTyped, NextConnecting, NextSessionTyped, SessionSteps
<1>3. Inv => STypeOK
  BY DEF TypeOK, Connecting, SessionTyped, STypeOK
<1> QED
  BY <1>1, <1>2, <1>3, PTL DEF SSpec

\* Whatever its options, its host and the damage, a program that connects has
\* from each call the answer to its own command, after its execution
\* (gdb_protocol.c:72-83).
THEOREM SessionAnswersPaired == SSpec => []Paired
<1>1. SInit => (bounds.stray = 0 => CInv)
  BY InitCInv DEF SInit
<1>2. (bounds.stray = 0 => CInv) /\ [SNext]_svars => (bounds.stray = 0 => CInv)'
  BY NextCInv, SessionSteps
<1>3. (bounds.stray = 0 => CInv) => Paired
  BY DEF CInv, Logs, Shapes, Paired
<1> QED
  BY <1>1, <1>2, <1>3, PTL DEF SSpec

\* Whatever its options and its host, the commands of a program that connects
\* are executed once each and in order, when the network does not both damage
\* packets and insert characters (scanner.l:64-68, gdb_protocol.c:228-231).
THEOREM SessionCommandsOnce == SSpec => []OnceUnlessBothFaults
<1>1. SInit => OnceInv
  BY InitOnce DEF SInit
<1>2. OnceInv /\ [SNext]_svars => OnceInv'
  BY NextOnce, SessionSteps
<1> QED
  BY <1>1, <1>2, OnceExact, PTL DEF SSpec
-----------------------------------------------------------------------------
(***************************************************************************)
(* The refinement of RemoteCalls: which call is executed and which one     *)
(* returns.                                                                *)
(***************************************************************************)
\* A call is executed when the one before it has returned, and returns when it
\* has been executed.
LEMMA ExecutedInTurn ==
  ASSUME CInv, Running, Execute
  PROVE  /\ Len(executed) = Len(answers) /\ Len(executed) < Len(program)
         /\ Len(executed') = Len(executed) + 1 /\ UNCHANGED <<answers, program>>
<1>1. Gets("packet") /\ executed' = Append(executed, toSim[1].n) /\ UNCHANGED program
  BY DEF Execute, Gets
<1>2. client = "waiting" /\ Len(executed) = call - 1 /\ UNCHANGED <<call, answers>> /\ toSim[1].n = call
  BY <1>1, GetFacts DEF Active
<1>3. Len(executed') = call
  BY <1>1, <1>2, Executing
<1>4. program \in Seq(Commands) => Len(program) \in Nat
  OBVIOUS
<1> QED
  BY <1>1, <1>2, <1>3 DEF CInv, Logs, Shapes, Running

LEMMA ReturnedInTurn ==
  ASSUME CInv, Running, ~bounds.exit, ReadAnswer \/ ReadEof
  PROVE  /\ Len(answers) < Len(executed) /\ Len(answers') = Len(executed)
         /\ UNCHANGED <<executed, program>>
<1>1. PICK n : Returns(n)
  BY DEF ReadAnswer, ReadEof
<1>2. Len(answers') = Len(answers) + 1 /\ Len(answers) = call - 1 /\ call \in Nat \ {0}
  BY <1>1 DEF Returns, CInv, Shapes, Logs
<1>3. Len(executed) = call
  <2>1. CASE ReadAnswer
    <3>1. Reads("packet") /\ toClient' = Tail(toClient)
      BY <2>1 DEF ReadAnswer
    <3>2. 1 \in 1 .. Len(toClient) /\ Token.kind = "packet"
      BY <3>1, ReadFacts
    <3> QED
      BY <3>2 DEF CInv, ToClientOK, Token
  <2>2. CASE ReadEof
    <3>1. client = "waiting" /\ toClient # <<>> /\ toClient[1].kind = "eof" /\ toClient \in Seq(Tokens)
      BY <2>2 DEF ReadEof, Reads, Token, CInv, Shapes
    <3>2. 1 \in 1 .. Len(toClient)
      BY <3>1
    <3>3. simulator = "gone"
      BY <3>1, <3>2 DEF CInv, ToClientOK
    <3> QED
      BY <3>1, <3>3 DEF Running, Released
  <2> QED
    BY <2>1, <2>2
<1>4. UNCHANGED <<executed, program>>
  BY DEF ReadAnswer, ReadEof, Reads, simVars
<1> QED
  BY <1>2, <1>3, <1>4

\* Every other step leaves both logs as they are.
LEMMA LogsKept ==
  ASSUME [Next]_vars
  PROVE  \/ Execute \/ ReadAnswer \/ ReadEof
         \/ UNCHANGED <<executed, answers, program>>
BY DEF Next, Client, Simulator, SendPacket, EndProgram, ReadAck, ReadNak, ReadDamaged, ReadStray,
       Reads, Refuse, Acknowledged, AnswerAgain, Gets, Exit, Corrupt, Noise, vars, clientVars, simVars

LEMMA PromisedKept == [SNext]_svars => (Promised' <=> Promised)
<1> SUFFICES ASSUME [SNext]_svars PROVE Promised' <=> Promised
  OBVIOUS
<1>1. UNCHANGED <<argv, host>>
  BY DEF SNext, Main, ReadOption, Resolve, Socket, Refused, Connected, NoScanner, SClient, Serves,
         Leaves, Fault, connectVars, svars
<1>2. bounds' = bounds
  <2>1. [Next]_vars
    BY SessionSteps
  <2> QED
    BY <2>1 DEF Next, Client, Simulator, SendPacket, EndProgram, ReadAck, ReadNak, ReadDamaged,
         ReadAnswer, ReadStray, ReadEof, Reads, Execute, Refuse, Acknowledged, AnswerAgain, Gets,
         Exit, Corrupt, Noise, vars
<1> QED
  BY <1>1, <1>2 DEF Promised, Reaches

\* For a program that reaches a simulator that stays, through a network that only
\* damages packets, whatever is sent again: a command is executed when the
\* call before it has returned, once, and its call returns after that
\* (gdb_protocol.c:72-83, 228-231, scanner.l:63-77).
THEOREM CallsAreRemote == SSpec => Calls!SafeSpec
<1> DEFINE Inv == bounds.stray = 0 => CInv /\ Running
<1>1. SInit => Inv /\ Calls!Init
  <2> SUFFICES ASSUME SInit PROVE Inv /\ Calls!Init
    OBVIOUS
  <2>1. Init /\ executed = <<>> /\ answers = <<>> /\ program \in Seq(Commands)
    BY ProgramsAssumption DEF SInit, Init
  <2>2. Inv
    BY <2>1, InitCInv, InitRunning
  <2>3. Len(program) \in Nat /\ Len(executed) = 0 /\ Len(answers) = 0
    BY <2>1
  <2> QED
    BY <2>2, <2>3 DEF Calls!Init
<1>2. Inv /\ [SNext]_svars => Inv'
  BY NextRunning, SessionSteps
<1>3. Inv /\ [SNext]_svars => [Calls!Next]_(Calls!vars)
  <2> SUFFICES ASSUME Inv, [SNext]_svars PROVE [Calls!Next]_(Calls!vars)
    OBVIOUS
  <2>1. [Next]_vars /\ (Promised' <=> Promised)
    BY SessionSteps, PromisedKept
  <2>2. CASE ~Promised
    BY <2>1, <2>2 DEF Calls!vars
  <2>3. CASE Promised
    <3>1. CInv /\ Running /\ ~bounds.exit
      BY <2>3 DEF Promised
    <3>2. CASE Execute
      BY <2>1, <2>3, <3>1, <3>2, ExecutedInTurn DEF Calls!Next, Calls!Execute
    <3>3. CASE ReadAnswer \/ ReadEof
      BY <2>1, <2>3, <3>1, <3>3, ReturnedInTurn DEF Calls!Next, Calls!Return
    <3>4. CASE UNCHANGED <<executed, answers, program>>
      BY <2>1, <2>3, <3>4 DEF Calls!vars
    <3> QED
      BY <2>1, <3>2, <3>3, <3>4, LogsKept
  <2> QED
    BY <2>2, <2>3
<1> QED
  BY <1>1, <1>2, <1>3, PTL DEF SSpec, Calls!SafeSpec
=============================================================================
