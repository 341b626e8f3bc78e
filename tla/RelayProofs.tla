---------------------------- MODULE RelayProofs ----------------------------
(***************************************************************************)
(* Proofs about Relay: two processes on a connection never wait for each   *)
(* other to read, however long their inputs, when a block fits into the    *)
(* connection; a failed u_connect takes nothing from the user; bytes       *)
(* arrive in their order, none being lost while both processes are there;  *)
(* and as long as they are, one can go on or waits for its user.           *)
(***************************************************************************)
EXTENDS Relay, SequenceTheorems, TLAPS

USE SizesAssumption

(* What a program is. *)
LEMMA Programs ==
    ASSUME NEW p \in Pairs, NEW s \in Side
    PROVE  /\ p[s].kind \in {"copyfile", "copy2files", "test"}
           /\ p[s].kind = "copy2files" =>
                /\ DOMAIN p[s].copies = {"comm", "stdin"}
                /\ p[s].copies["comm"] = "stdout"
                /\ p[s].copies["stdin"] = "comm"
           /\ p[s].kind = "copyfile" =>
                \/ DOMAIN p[s].copies = {"stdin"} /\ p[s].copies["stdin"] = "comm"
                \/ DOMAIN p[s].copies = {"comm"} /\ p[s].copies["comm"] \in {"comm", "stdout"}
           /\ p[s].kind = "test" =>
                /\ s = Client
                /\ p[Server].kind = "copyfile"
                /\ DOMAIN p[Server].copies = {"comm"}
                /\ p[Server].copies["comm"] = "comm"
                /\ BUFSIZE <= 2 * K + 1
           /\ Writes(p[s]) => Reads(p[Peer(s)])
<1> USE PairsAssumption DEF Side, Client, Server
<1>1. /\ p[1] \in {client, client2, reflectclient}
      /\ p[2] \in {server, serverp, server2, serverp2, reflectserver}
  OBVIOUS
<1>2. Writes(p[s]) => Reads(p[Peer(s)])
  OBVIOUS
<1>4. ASSUME NEW b
      PROVE  /\ copy2files(b).kind = "copy2files"
             /\ DOMAIN copy2files(b).copies = {"comm", "stdin"}
             /\ copy2files(b).copies["comm"] = "stdout"
             /\ copy2files(b).copies["stdin"] = "comm"
  BY DEF copy2files
<1>5. reflectclient.kind = "test"
  BY DEF reflectclient
<1>6. CASE s = 1
  <2>1. CASE p[1] = client
    <3>1. p[s].kind = "copyfile" /\ DOMAIN p[s].copies = {"stdin"} /\ p[s].copies["stdin"] = "comm"
      BY <1>6, <2>1 DEF client, copyfile
    <3>2. QED
      BY <1>2, <3>1
  <2>2. CASE p[1] = client2
    <3>1. /\ p[s].kind = "copy2files"
          /\ DOMAIN p[s].copies = {"comm", "stdin"}
          /\ p[s].copies["comm"] = "stdout"
          /\ p[s].copies["stdin"] = "comm"
      BY <1>4, <1>6, <2>2 DEF client2
    <3>2. QED
      BY <1>2, <3>1
  <2>3. CASE p[1] = reflectclient
    <3>1. p[2] = reflectserver /\ BUFSIZE <= 2 * K + 1
      BY <2>3
    <3>2. p[s].kind = "test"
      BY <1>5, <1>6, <2>3
    <3>3. p[2].kind = "copyfile" /\ DOMAIN p[2].copies = {"comm"} /\ p[2].copies["comm"] = "comm"
      BY <3>1 DEF reflectserver, copyfile
    <3>4. QED
      BY <1>2, <1>6, <3>1, <3>2, <3>3
  <2>4. QED
    BY <1>1, <2>1, <2>2, <2>3
<1>7. CASE s = 2
  <2>1. CASE p[2] \in {server, serverp}
    <3>1. p[s].kind = "copyfile" /\ DOMAIN p[s].copies = {"comm"} /\ p[s].copies["comm"] = "stdout"
      BY <1>7, <2>1 DEF server, serverp, copyfile
    <3>2. QED
      BY <1>2, <3>1
  <2>2. CASE p[2] = reflectserver
    <3>1. p[s].kind = "copyfile" /\ DOMAIN p[s].copies = {"comm"} /\ p[s].copies["comm"] = "comm"
      BY <1>7, <2>2 DEF reflectserver, copyfile
    <3>2. QED
      BY <1>2, <3>1
  <2>3. CASE p[2] \in {server2, serverp2}
    <3>1. /\ p[s].kind = "copy2files"
          /\ DOMAIN p[s].copies = {"comm", "stdin"}
          /\ p[s].copies["comm"] = "stdout"
          /\ p[s].copies["stdin"] = "comm"
      BY <1>4, <1>7, <2>3 DEF server2, serverp2
    <3>2. QED
      BY <1>2, <3>1
  <2>4. QED
    BY <1>1, <2>1, <2>2, <2>3
<1>8. QED
  BY <1>6, <1>7

(* The parts of a sequence. *)
LEMMA Parts ==
    ASSUME NEW q \in Seq(Nat), NEW n \in 0 .. Len(q)
    PROVE  /\ First(q, n) \in Seq(Nat) /\ Len(First(q, n)) = n
           /\ Rest(q, n) \in Seq(Nat) /\ Len(Rest(q, n)) = Len(q) - n
<1>1. Len(q) \in Nat
  BY LenProperties
<1>2. \A i \in 1 .. n : q[i] \in Nat
  BY <1>1, ElementOfSeq
<1>3. \A i \in n + 1 .. Len(q) : q[i] \in Nat
  BY <1>1, ElementOfSeq
<1>4. First(q, n) \in Seq(Nat) /\ Len(First(q, n)) = n
  BY <1>1, <1>2, SubSeqProperties DEF First
<1>5. Rest(q, n) \in Seq(Nat) /\ Len(Rest(q, n)) = Len(q) - n
  BY <1>1, <1>3, SubSeqProperties DEF Rest
<1>6. QED
  BY <1>4, <1>5

LEMMA Empty == <<>> \in Seq(Nat) /\ Len(<<>>) = 0
BY EmptySeq

LEMMA Lengths ==
    ASSUME NEW q \in Seq(Nat), NEW r \in Seq(Nat)
    PROVE  /\ Len(q) \in Nat
           /\ q = <<>> <=> Len(q) = 0
           /\ q \o r \in Seq(Nat) /\ Len(q \o r) = Len(q) + Len(r)
BY EmptySeq, LenProperties, ConcatProperties

-----------------------------------------------------------------------------
(* Before u_connect has returned nothing has happened; when it has failed,  *)
(* no server takes part.                                                    *)
Fresh(s) == buf[s] = <<>> /\ pending[s] = {} /\ chan[s] = <<>> /\ out[s] = <<>>

Starting ==
    /\ pc[Client] # "accept"
    /\ pc[Server] \notin {"connect", "interrupted"}
    /\ pc[Client] \in {"connect", "interrupted"} => conn = "none"
    /\ conn = "none" =>
         /\ stdin = given
         /\ pc[Client] # "relay"
         /\ \A s \in Side : Fresh(s)
    /\ conn # "up" => pc[Server] = "accept" /\ \A s \in Side : chan[s] = <<>>
    /\ pc[Server] = "accept" => buf[Server] = <<>> /\ pending[Server] = {} /\ out[Server] = <<>>

(* What copy2files and readwrite keep. *)
Shape ==
    \A s \in Side :
        /\ pending[s] # {} => program[s].kind = "copy2files"
        /\ buf[s] # <<>> /\ to[s] = "comm" => pending[s] = {} /\ Writes(program[s])
        /\ program[s].kind # "test" => Len(buf[s]) <= BLKSIZE
        /\ program[Client].kind = "test" => to[s] = "comm"

(* A failed u_connect: the connection is in every readset.                  *)
Refused ==
    conn = "refused" /\ program[Client].kind = "copy2files" =>
        /\ stdin = given
        /\ buf[Client] = <<>>
        /\ pending[Client] # {} => "comm" \in pending[Client]

IInv == TypeOK /\ Starting /\ Shape /\ Refused

(* Leave is a step of each kind of end. *)
LEMMA Leaving ==
    ASSUME TypeOK, NEW s \in Side, NEW how \in Endings, Leave(s, how)
    PROVE  /\ TypeOK'
           /\ pc'[s] = how /\ pc'[Peer(s)] = pc[Peer(s)]
           /\ Ended(s)'
           /\ buf'[s] = <<>> /\ buf'[Peer(s)] = buf[Peer(s)]
           /\ pending'[s] = {} /\ pending'[Peer(s)] = pending[Peer(s)]
           /\ chan'[s] = <<>>
           /\ chan[Peer(s)] = <<>> => chan'[Peer(s)] = <<>>
<1> DEFINE t == Peer(s)
<1>1. t \in Side /\ t # s /\ \A u \in Side : u = s \/ u = t
  BY DEF Side, Client, Server, Peer
<1>2. chan[s] \in Seq(Nat) /\ chan[t] \in Seq(Nat) /\ Len(chan[t]) <= K
  BY <1>1 DEF TypeOK
<1>3. PICK left \in Prefixes(chan[t]) \cup {chan[t]} :
        chan' = [chan EXCEPT ![s] = <<>>, ![t] = left]
  BY DEF Leave
<1>4. left \in Seq(Nat) /\ Len(left) <= K /\ (chan[t] = <<>> => left = <<>>)
  <2>1. CASE left = chan[t]
    BY <1>2, <2>1
  <2>2. CASE left \in Prefixes(chan[t])
    <3>1. PICK n \in 0 .. Len(chan[t]) : left = First(chan[t], n)
      BY <2>2 DEF Prefixes
    <3>2. left \in Seq(Nat) /\ Len(left) = n /\ Len(chan[t]) \in Nat
      BY <1>2, <3>1, Parts, Lengths
    <3>3. QED
      BY <1>2, <3>1, <3>2, Lengths
  <2>3. QED
    BY <1>3, <2>1, <2>2
<1>5. /\ chan' \in [Side -> Seq(Nat)]
      /\ chan'[s] = <<>>
      /\ chan'[t] = left
      /\ \A u \in Side : Len(chan'[u]) <= K
  <2> HIDE DEF t
  <2>1. chan \in [Side -> Seq(Nat)]
    BY DEF TypeOK
  <2>2. chan' \in [Side -> Seq(Nat)] /\ chan'[s] = <<>> /\ chan'[t] = left
    <3>1. chan' = [chan EXCEPT ![s] = <<>>, ![t] = left]
      BY <1>3
    <3>2. QED
      BY <1>1, <1>4, <2>1, <3>1, Empty, Zenon
  <2>3. Len(chan'[s]) <= K /\ Len(chan'[t]) <= K
    BY <1>4, <2>2, Empty, SizesAssumption
  <2>4. QED
    BY <1>1, <2>2, <2>3
<1>6. /\ buf' \in [Side -> Seq(Nat)] /\ buf'[s] = <<>> /\ buf'[t] = buf[t]
      /\ pending' \in [Side -> SUBSET {"comm", "stdin"}] /\ pending'[s] = {} /\ pending'[t] = pending[t]
  BY <1>1, Empty DEF TypeOK, Leave
<1>7. /\ pc' \in [Side -> {"connect", "interrupted", "accept", "relay"} \cup Endings]
      /\ pc'[s] = how /\ pc'[t] = pc[t]
  BY <1>1 DEF TypeOK, Leave
<1>8. TypeOK'
  BY <1>5, <1>6, <1>7 DEF TypeOK, Leave, fixed
<1>9. QED
  BY <1>4, <1>5, <1>6, <1>7, <1>8 DEF Ended

(* The ends of a process. *)
Ends(s) == (pc[s] = "accept" => conn = "up") /\ \E how \in Endings : Leave(s, how)

LEMMA Moves ==
    ASSUME NEW s \in Side, Step(s)
    PROVE  \/ Ends(s)
           \/ s = Client /\ (Connect \/ ConnectInterrupted \/ ConnectGoesOn)
           \/ s = Server /\ Accept
           \/ Select(s) \/ TakeComm(s) \/ TakeStdin(s)
           \/ WriteOut(s) \/ WriteComm(s) \/ WriteLost(s) \/ Receive(s)
BY DEF Step, Ends, Endings, ConnectFails, ForkFails, StdinEnds, CommEnds, WriteFails, ReceivedAll,
       Reading, Writing, Idle

LEMMA TypeCorrect == TypeOK /\ [Next]_vars => TypeOK'
<1> SUFFICES ASSUME TypeOK, [Next]_vars PROVE TypeOK'
  OBVIOUS
<1>1. CASE UNCHANGED vars
  BY <1>1 DEF vars, TypeOK
<1>2. ASSUME NEW s \in Side, Step(s) PROVE TypeOK'
  <2> DEFINE t == Peer(s)
  <2>0. /\ t \in Side /\ t # s /\ Client \in Side /\ Server \in Side
        /\ chan[s] \in Seq(Nat) /\ chan[t] \in Seq(Nat) /\ buf[s] \in Seq(Nat) /\ out[s] \in Seq(Nat)
        /\ Len(chan[s]) \in Nat /\ Len(chan[t]) \in Nat /\ Len(buf[s]) \in Nat /\ Len(out[s]) \in Nat
        /\ Len(chan[s]) <= K /\ Len(chan[t]) <= K
    BY Lengths DEF Side, Client, Server, Peer, TypeOK
  <2>1. CASE Ends(s)
    BY <2>1, Leaving DEF Ends
  <2>2. CASE s = Client /\ (Connect \/ ConnectGoesOn)
    <3>1. bufsend \in Seq(Nat)
      <4>1. bufsend \in [1 .. BUFSIZE -> Nat]
        BY DEF bufsend
      <4>2. QED
        BY <4>1, SeqDef
    <3>2. buf' \in [Side -> Seq(Nat)] /\ pc' = [pc EXCEPT ![Client] = "relay"]
      <4> DEFINE b == IF program[Client].kind = "test" THEN bufsend ELSE <<>>
      <4>1. b \in Seq(Nat)
        BY <3>1, Empty
      <4>2. buf' = [buf EXCEPT ![Client] = b] /\ pc' = [pc EXCEPT ![Client] = "relay"]
        BY <2>2 DEF Connect, ConnectGoesOn, Relay
      <4> HIDE DEF b
      <4>3. QED
        BY <4>1, <4>2 DEF TypeOK
    <3>3. conn' \in {"none", "up", "refused"} /\ UNCHANGED <<fixed, stdin, chan, pending, to, out>>
      BY <2>2 DEF Connect, ConnectGoesOn, Relay
    <3>4. QED
      BY <3>2, <3>3 DEF TypeOK, fixed
  <2>3. CASE s = Client /\ ConnectInterrupted
    BY <2>3 DEF ConnectInterrupted, TypeOK, fixed
  <2>4. CASE s = Server /\ Accept
    BY <2>4 DEF Accept, TypeOK, fixed
  <2>5. CASE Select(s)
    <3>1. PICK ready \in SUBSET {"comm", "stdin"} : pending' = [pending EXCEPT ![s] = ready]
      BY <2>5 DEF Select
    <3>2. QED
      BY <2>5, <3>1 DEF Select, TypeOK, fixed
  <2>6. ASSUME NEW f \in {"comm", "stdin"}, Reading(s, f), program[s].kind # "test",
               NEW block \in Seq(Nat), Take(s, f, block)
        PROVE  /\ buf' \in [Side -> Seq(Nat)]
               /\ to' \in [Side -> {"comm", "stdout"}]
               /\ pending' \in [Side -> SUBSET {"comm", "stdin"}]
    <3>1. program[s].copies[f] \in {"comm", "stdout"}
      <4>1. program \in Pairs /\ program[s].kind \in {"copyfile", "copy2files"}
        BY <2>6, Programs DEF TypeOK
      <4>2. CASE program[s].kind = "copyfile"
        <5>1. f \in DOMAIN program[s].copies
          BY <2>6, <4>2 DEF Reading
        <5>2. QED
          BY <4>1, <4>2, <5>1, Programs
      <4>3. CASE program[s].kind = "copy2files"
        BY <4>1, <4>3, Programs
      <4>4. QED
        BY <4>1, <4>2, <4>3
    <3>2. QED
      BY <2>6, <3>1 DEF Take, TypeOK
  <2>7. CASE TakeComm(s)
    <3> DEFINE n == Min(BLKSIZE, Len(chan[s]))
    <3>1. n \in 0 .. Len(chan[s])
      BY <2>0 DEF Min
    <3> HIDE DEF n
    <3>a. /\ First(chan[s], n) \in Seq(Nat)
          /\ Rest(chan[s], n) \in Seq(Nat) /\ Len(Rest(chan[s], n)) = Len(chan[s]) - n
      BY <2>0, <3>1, Parts
    <3>2. First(chan[s], n) \in Seq(Nat) /\ Rest(chan[s], n) \in Seq(Nat) /\ Len(Rest(chan[s], n)) <= K
      BY <2>0, <3>1, <3>a
    <3>3. Take(s, "comm", First(chan[s], n)) /\ chan' = [chan EXCEPT ![s] = Rest(@, n)]
      BY <2>7 DEF TakeComm, n
    <3>4. /\ buf' \in [Side -> Seq(Nat)] /\ to' \in [Side -> {"comm", "stdout"}]
          /\ pending' \in [Side -> SUBSET {"comm", "stdin"}]
      BY <2>6, <2>7, <3>2, <3>3 DEF TakeComm
    <3>5. chan' \in [Side -> Seq(Nat)] /\ \A u \in Side : Len(chan'[u]) <= K
      BY <3>2, <3>3 DEF TypeOK
    <3>6. QED
      BY <2>7, <3>4, <3>5 DEF TakeComm, Take, TypeOK, fixed
  <2>8. CASE TakeStdin(s)
    <3> DEFINE q == stdin[s].bytes
    <3>1. PICK n \in 1 .. Min(BLKSIZE, Len(q)) :
            /\ Take(s, "stdin", First(q, n))
            /\ stdin' = [stdin EXCEPT ![s].bytes = Rest(@, n)]
      BY <2>8 DEF TakeStdin
    <3>2. q \in Seq(Nat) /\ Len(q) \in Nat
      BY Lengths DEF TypeOK
    <3>3. n \in 0 .. Len(q)
      BY <3>1, <3>2 DEF Min
    <3>4. First(q, n) \in Seq(Nat) /\ Rest(q, n) \in Seq(Nat)
      BY <3>2, <3>3, Parts
    <3>5. stdin' \in [Side -> [bytes : Seq(Nat), ends : BOOLEAN]]
      BY <3>1, <3>4 DEF TypeOK
    <3>6. program[s].kind # "test"
      BY <2>8 DEF TakeStdin, Reading
    <3>7. /\ buf' \in [Side -> Seq(Nat)] /\ to' \in [Side -> {"comm", "stdout"}]
          /\ pending' \in [Side -> SUBSET {"comm", "stdin"}]
      BY <2>6, <2>8, <3>1, <3>4, <3>6 DEF TakeStdin
    <3>8. QED
      BY <2>8, <3>1, <3>5, <3>7 DEF TakeStdin, Take, TypeOK, fixed
  <2>9. CASE WriteOut(s)
    <3>1. PICK n \in 1 .. Len(buf[s]) :
            /\ out' = [out EXCEPT ![s] = @ \o First(buf[s], n)]
            /\ buf' = [buf EXCEPT ![s] = Rest(@, n)]
      BY <2>9 DEF WriteOut
    <3>a. n \in 0 .. Len(buf[s])
      BY <2>0
    <3>2. First(buf[s], n) \in Seq(Nat) /\ Rest(buf[s], n) \in Seq(Nat)
      BY <2>0, <3>a, Parts
    <3>3. out[s] \o First(buf[s], n) \in Seq(Nat)
      BY <2>0, <3>2, Lengths
    <3>4. QED
      BY <2>9, <3>1, <3>2, <3>3 DEF WriteOut, TypeOK, fixed
  <2>10. CASE WriteComm(s)
    <3>1. PICK n \in 1 .. Min(Len(buf[s]), Room(s)) :
            /\ chan' = [chan EXCEPT ![t] = @ \o First(buf[s], n)]
            /\ buf' = [buf EXCEPT ![s] = Rest(@, n)]
      BY <2>10 DEF WriteComm
    <3>2. n \in 0 .. Len(buf[s]) /\ n + Len(chan[t]) <= K
      BY <2>0, <3>1 DEF Min, Room
    <3>3. /\ First(buf[s], n) \in Seq(Nat) /\ Rest(buf[s], n) \in Seq(Nat)
          /\ Len(First(buf[s], n)) = n
      BY <2>0, <3>2, Parts
    <3>a. /\ chan[t] \o First(buf[s], n) \in Seq(Nat)
          /\ Len(chan[t] \o First(buf[s], n)) = Len(chan[t]) + Len(First(buf[s], n))
      BY <2>0, <3>3, Lengths
    <3>4. chan[t] \o First(buf[s], n) \in Seq(Nat) /\ Len(chan[t] \o First(buf[s], n)) <= K
      BY <2>0, <3>2, <3>3, <3>a
    <3>5. chan' \in [Side -> Seq(Nat)] /\ \A u \in Side : Len(chan'[u]) <= K
      BY <2>0, <3>1, <3>4 DEF TypeOK
    <3>6. QED
      BY <2>10, <3>1, <3>3, <3>5 DEF WriteComm, TypeOK, fixed
  <2>11. CASE WriteLost(s)
    <3>1. PICK n \in 0 .. Len(chan[s]) : chan' = [chan EXCEPT ![s] = First(chan[s], n)]
      BY <2>11 DEF WriteLost, Prefixes
    <3>a. First(chan[s], n) \in Seq(Nat) /\ Len(First(chan[s], n)) = n
      BY <2>0, <3>1, Parts
    <3>2. First(chan[s], n) \in Seq(Nat) /\ Len(First(chan[s], n)) <= K
      BY <2>0, <3>1, <3>a
    <3>3. chan' \in [Side -> Seq(Nat)] /\ \A u \in Side : Len(chan'[u]) <= K
      BY <3>1, <3>2 DEF TypeOK
    <3>4. QED
      BY <2>11, <3>3, Empty DEF WriteLost, TypeOK, fixed
  <2>12. CASE Receive(s)
    <3> DEFINE n == Min(BUFSIZE - Len(out[s]), Len(chan[s]))
    <3>1. n \in 0 .. Len(chan[s])
      BY <2>0, <2>12 DEF Min, Receive, Reading
    <3> HIDE DEF n
    <3>a. /\ First(chan[s], n) \in Seq(Nat)
          /\ Rest(chan[s], n) \in Seq(Nat) /\ Len(Rest(chan[s], n)) = Len(chan[s]) - n
      BY <2>0, <3>1, Parts
    <3>2. Len(Rest(chan[s], n)) <= K
      BY <2>0, <3>1, <3>a
    <3>3. out[s] \o First(chan[s], n) \in Seq(Nat)
      BY <2>0, <3>a, Lengths
    <3>4. chan' = [chan EXCEPT ![s] = Rest(@, n)] /\ out' = [out EXCEPT ![s] = @ \o First(chan[s], n)]
      BY <2>12 DEF Receive, n
    <3>5. chan' \in [Side -> Seq(Nat)] /\ \A u \in Side : Len(chan'[u]) <= K
      BY <3>a, <3>2, <3>4 DEF TypeOK
    <3>6. out' \in [Side -> Seq(Nat)]
      BY <3>3, <3>4 DEF TypeOK
    <3>7. UNCHANGED <<program, given, stdin, pc, conn, pending, buf, to>>
      BY <2>12 DEF Receive, fixed
    <3>8. QED
      BY <3>5, <3>6, <3>7 DEF TypeOK
  <2>13. QED
    BY <1>2, <2>1, <2>2, <2>3, <2>4, <2>5, <2>7, <2>8, <2>9, <2>10, <2>11, <2>12, Moves
<1>3. QED
  BY <1>1, <1>2 DEF Next

-----------------------------------------------------------------------------
(* What both have to send: a block that is held, or one that select has     *)
(* promised, when the connection has been read first.                       *)
Midway(s) ==
    pc[s] = "relay" /\ ((buf[s] # <<>> /\ to[s] = "comm") \/ pending[s] = {"stdin"})

ToCome(s) ==
    IF buf[s] # <<>> /\ to[s] = "comm" THEN Len(buf[s])
    ELSE IF pending[s] = {"stdin"} THEN BLKSIZE ELSE 0

(* What the peer has to send fits into the connection. *)
Fits(s) == Len(chan[s]) + ToCome(Peer(s)) <= K

(* The last of two to begin to send has read the connection just before.    *)
Crossing ==
    ~ Ended(Client) /\ ~ Ended(Server) /\ program[Client].kind # "test"
      /\ Midway(Client) /\ Midway(Server) => Fits(Client) \/ Fits(Server)

(* The message of reflectclient, wherever it is, is not lost. *)
Reflecting ==
    program[Client].kind = "test" /\ pc[Client] = "relay" /\ ~ Ended(Server) =>
      Len(buf[Client]) + Len(chan[Server]) + Len(buf[Server]) + Len(chan[Client])
        + Len(out[Client]) = BUFSIZE

FInv == IInv /\ Crossing /\ Reflecting

(* The other conjuncts of IInv, action by action. *)
LEMMA Both == ASSUME NEW s \in Side
              PROVE  /\ Peer(s) \in Side /\ Peer(s) # s /\ Peer(Peer(s)) = s
                     /\ \A u \in Side : u = s \/ u = Peer(s)
                     /\ s = Client \/ s = Server
                     /\ Peer(Client) = Server /\ Peer(Server) = Client
                     /\ Client \in Side /\ Server \in Side /\ Client # Server
BY DEF Side, Client, Server, Peer

LEMMA EndsKeeps ==
    ASSUME IInv, NEW s \in Side, Ends(s)
    PROVE  Starting' /\ Shape' /\ Refused'
<1> DEFINE t == Peer(s)
<1>1. PICK how \in Endings : Leave(s, how)
  BY DEF Ends
<1>2. /\ pc'[s] = how /\ pc'[t] = pc[t]
      /\ buf'[s] = <<>> /\ buf'[t] = buf[t]
      /\ pending'[s] = {} /\ pending'[t] = pending[t]
      /\ chan'[s] = <<>>
      /\ chan[t] = <<>> => chan'[t] = <<>>
  BY <1>1, Leaving DEF IInv
<1>3. UNCHANGED <<program, given, stdin, conn, to, out>>
  BY <1>1 DEF Leave, fixed
<1>4. Starting'
  <2>1. CASE s = Client
    BY <1>2, <1>3, <2>1, Both DEF IInv, Starting, Endings, Fresh
  <2>2. CASE s = Server
    <3>1. conn = "up"
      BY <2>2 DEF IInv, Starting, Ends
    <3>2. QED
      BY <1>2, <1>3, <2>2, <3>1, Both DEF IInv, Starting, Endings, Fresh
  <2>3. QED
    BY <2>1, <2>2, Both
<1>5. Shape'
  BY <1>2, <1>3, Both, Empty DEF IInv, Shape
<1>6. Refused'
  BY <1>2, <1>3, Both DEF IInv, Refused
<1>7. QED
  BY <1>4, <1>5, <1>6

LEMMA ConnectKeeps ==
    ASSUME IInv, Connect \/ ConnectGoesOn \/ ConnectInterrupted
    PROVE  Starting' /\ Shape' /\ Refused'
<1> USE DEF Side, Client, Server
<1>1. CASE ConnectInterrupted
  BY <1>1, Both DEF ConnectInterrupted, IInv, TypeOK, Starting, Shape, Refused, Fresh, fixed
<1>2. CASE Connect \/ ConnectGoesOn
  <2>1. /\ pc[Client] \in {"connect", "interrupted"} /\ conn = "none"
        /\ pc'[Client] = "relay" /\ pc'[Server] = pc[Server] /\ conn' \in {"up", "refused"}
        /\ program' = program /\ given' = given /\ stdin' = stdin /\ chan' = chan
        /\ pending' = pending /\ to' = to /\ out' = out
    <3>1. pc \in [Side -> {"connect", "interrupted", "accept", "relay"} \cup Endings]
      BY DEF IInv, TypeOK
    <3>2. pc[Client] \in {"connect", "interrupted"} /\ conn' \in {"up", "refused"} /\ Relay
      BY <1>2 DEF Connect, ConnectGoesOn
    <3>3. QED
      BY <3>1, <3>2, Both DEF Relay, fixed, IInv, Starting
  <2>2. /\ buf'[Server] = buf[Server]
        /\ program[Client].kind # "test" => buf'[Client] = <<>>
    <3>1. buf \in [Side -> Seq(Nat)] /\ Relay
      BY <1>2 DEF Connect, ConnectGoesOn, IInv, TypeOK
    <3>2. QED
      BY <3>1, Both DEF Relay
  <2>3. stdin = given /\ \A s \in Side : Fresh(s)
    BY <2>1 DEF IInv, Starting
  <2>4. Starting'
    BY <2>1, <2>2, <2>3, Both DEF IInv, Starting, Fresh
  <2>5. Shape'
    BY <2>1, <2>2, <2>3, Both, Empty DEF IInv, Shape, Fresh, Writes
  <2>6. Refused'
    BY <2>1, <2>2, <2>3, Both DEF Refused, Fresh
  <2>7. QED
    BY <2>4, <2>5, <2>6
<1>3. QED
  BY <1>1, <1>2

LEMMA AcceptKeeps ==
    ASSUME IInv, Accept
    PROVE  Starting' /\ Shape' /\ Refused'
BY Both DEF Accept, IInv, TypeOK, Starting, Shape, Refused, Fresh, fixed

LEMMA SelectKeeps ==
    ASSUME IInv, NEW s \in Side, Select(s)
    PROVE  Starting' /\ Shape' /\ Refused'
<1>1. PICK typed \in BOOLEAN :
        pending' = [pending EXCEPT ![s] = {f \in {"comm", "stdin"} :
                        \/ f = "comm" /\ CommReady(s)
                        \/ f = "stdin" /\ StdinReady(s) /\ typed}]
  BY DEF Select
<1>2. /\ pc[s] = "relay" /\ buf[s] = <<>> /\ program[s].kind = "copy2files" /\ pending[s] = {}
      /\ UNCHANGED <<program, given, stdin, pc, conn, chan, buf, to, out>>
  BY DEF Select, Idle, fixed
<1>3. pending'[Peer(s)] = pending[Peer(s)] /\ (conn = "refused" => "comm" \in pending'[s])
  BY <1>1, Both DEF IInv, TypeOK, CommReady
<1>4. conn # "none"
  BY <1>2, Both DEF IInv, Starting
<1>5. Starting'
  BY <1>2, <1>3, <1>4, Both DEF IInv, Starting, Fresh
<1>6. Shape'
  BY <1>2, <1>3, Both DEF IInv, Shape
<1>7. Refused'
  BY <1>2, <1>3, Both DEF IInv, Refused
<1>8. QED
  BY <1>5, <1>6, <1>7

(* What a read and a write leave alone at the two ends. *)
LEMMA TakeCommSteps ==
    ASSUME IInv, NEW s \in Side, TakeComm(s)
    PROVE  /\ pc[s] = "relay" /\ buf[s] = <<>> /\ chan[s] # <<>> /\ program[s].kind # "test"
           /\ program' = program /\ given' = given /\ stdin' = stdin /\ pc' = pc
           /\ conn' = conn /\ out' = out
           /\ pending'[s] = pending[s] \ {"comm"} /\ pending'[Peer(s)] = pending[Peer(s)]
           /\ to'[s] = program[s].copies["comm"] /\ to'[Peer(s)] = to[Peer(s)]
           /\ Len(buf'[s]) <= BLKSIZE /\ buf'[Peer(s)] = buf[Peer(s)]
           /\ Len(buf'[s]) \in Nat /\ Len(chan'[s]) \in Nat
           /\ Len(chan'[s]) + Len(buf'[s]) = Len(chan[s]) /\ chan'[Peer(s)] = chan[Peer(s)]
           /\ chan'[s] = <<>> \/ Len(buf'[s]) = BLKSIZE
           /\ "comm" \in DOMAIN program[s].copies
           /\ pending[s] = {} \/ "comm" \in pending[s]
<1> DEFINE n == Min(BLKSIZE, Len(chan[s]))
<1>1. chan[s] \in Seq(Nat) /\ Len(chan[s]) \in Nat
  BY Lengths DEF IInv, TypeOK
<1>2. n \in 0 .. Len(chan[s]) /\ n <= BLKSIZE /\ (n = BLKSIZE \/ n = Len(chan[s]))
  BY <1>1 DEF Min
<1>3. Take(s, "comm", First(chan[s], n)) /\ chan' = [chan EXCEPT ![s] = Rest(@, n)]
  BY DEF TakeComm
<1> HIDE DEF n
<1>4. /\ First(chan[s], n) \in Seq(Nat) /\ Len(First(chan[s], n)) = n
      /\ Rest(chan[s], n) \in Seq(Nat) /\ Len(Rest(chan[s], n)) = Len(chan[s]) - n
  BY <1>1, <1>2, Parts
<1>5. Len(chan[s]) - n = 0 => Rest(chan[s], n) = <<>>
  BY <1>4, Lengths
<1>6. chan'[s] = Rest(chan[s], n) /\ chan'[Peer(s)] = chan[Peer(s)]
  BY <1>3, Both DEF IInv, TypeOK
<1>7. /\ buf'[s] = First(chan[s], n) /\ buf'[Peer(s)] = buf[Peer(s)]
      /\ pending'[s] = pending[s] \ {"comm"} /\ pending'[Peer(s)] = pending[Peer(s)]
      /\ to'[s] = program[s].copies["comm"] /\ to'[Peer(s)] = to[Peer(s)]
  BY <1>3, Both DEF Take, IInv, TypeOK
<1>8. /\ Len(buf'[s]) = n /\ Len(chan'[s]) = Len(chan[s]) - n
      /\ chan'[s] = <<>> \/ Len(buf'[s]) = BLKSIZE
  BY <1>1, <1>2, <1>4, <1>5, <1>6, <1>7
<1>9. program \in Pairs /\ program[s].kind \in {"copyfile", "copy2files"}
  BY Programs DEF IInv, TypeOK, TakeComm
<1>10. "comm" \in DOMAIN program[s].copies /\ (pending[s] = {} \/ "comm" \in pending[s])
  <2>1. CASE program[s].kind = "copyfile"
    BY <2>1 DEF TakeComm, Reading, IInv, Shape
  <2>2. CASE program[s].kind = "copy2files"
    BY <1>9, <2>2, Programs DEF TakeComm, Reading
  <2>3. QED
    BY <1>9, <2>1, <2>2
<1>11. /\ pc[s] = "relay" /\ buf[s] = <<>> /\ chan[s] # <<>> /\ program[s].kind # "test"
       /\ program' = program /\ given' = given /\ stdin' = stdin /\ pc' = pc
       /\ conn' = conn /\ out' = out
  BY <1>3 DEF TakeComm, Reading, Idle, Take, fixed
<1>12. QED
  BY <1>1, <1>2, <1>6, <1>7, <1>8, <1>10, <1>11

LEMMA TakeStdinSteps ==
    ASSUME IInv, NEW s \in Side, TakeStdin(s)
    PROVE  /\ pc[s] = "relay" /\ buf[s] = <<>> /\ program[s].kind # "test"
           /\ program' = program /\ given' = given /\ pc' = pc /\ conn' = conn /\ out' = out
           /\ chan' = chan
           /\ program[s].kind = "copy2files" => pending[s] = {"stdin"}
           /\ pending'[s] = {} /\ pending'[Peer(s)] = pending[Peer(s)]
           /\ to'[s] = program[s].copies["stdin"] /\ to'[Peer(s)] = to[Peer(s)]
           /\ Len(buf'[s]) \in Nat /\ Len(buf'[s]) <= BLKSIZE /\ buf'[Peer(s)] = buf[Peer(s)]
           /\ "stdin" \in DOMAIN program[s].copies
<1> DEFINE q == stdin[s].bytes
<1>1. PICK n \in 1 .. Min(BLKSIZE, Len(q)) : Take(s, "stdin", First(q, n))
  BY DEF TakeStdin
<1>2. q \in Seq(Nat) /\ Len(q) \in Nat
  BY Lengths DEF IInv, TypeOK
<1>3. n \in 0 .. Len(q) /\ n <= BLKSIZE
  BY <1>1, <1>2 DEF Min
<1>4. Len(First(q, n)) = n
  BY <1>2, <1>3, Parts
<1>5. program \in Pairs /\ program[s].kind \in {"copyfile", "copy2files"}
  BY Programs DEF IInv, TypeOK, TakeStdin, Reading
<1>6. /\ "stdin" \in DOMAIN program[s].copies
      /\ pending[s] \subseteq {"stdin"}
      /\ program[s].kind = "copy2files" => pending[s] = {"stdin"}
  <2>1. CASE program[s].kind = "copyfile"
    BY <2>1 DEF TakeStdin, Reading, IInv, Shape
  <2>2. CASE program[s].kind = "copy2files"
    BY <1>5, <2>2, Programs DEF TakeStdin, Reading, IInv, TypeOK
  <2>3. QED
    BY <1>5, <2>1, <2>2
<1>7. /\ buf'[s] = First(q, n) /\ buf'[Peer(s)] = buf[Peer(s)]
      /\ pending'[s] = {} /\ pending'[Peer(s)] = pending[Peer(s)]
      /\ to'[s] = program[s].copies["stdin"] /\ to'[Peer(s)] = to[Peer(s)]
  <2>1. /\ buf \in [Side -> Seq(Nat)] /\ pending \in [Side -> SUBSET {"comm", "stdin"}]
        /\ to \in [Side -> {"comm", "stdout"}]
        /\ Peer(s) \in Side /\ Peer(s) # s
    BY Both DEF IInv, TypeOK
  <2>2. pending[s] \ {"stdin"} = {}
    BY <1>6
  <2>3. QED
    BY <1>1, <2>1, <2>2 DEF Take
<1>8. QED
  BY <1>1, <1>3, <1>4, <1>5, <1>6, <1>7 DEF TakeStdin, Reading, Idle, Take, fixed

LEMMA WriteOutSteps ==
    ASSUME IInv, NEW s \in Side, WriteOut(s)
    PROVE  /\ pc[s] = "relay" /\ buf[s] # <<>> /\ to[s] = "stdout"
           /\ program' = program /\ given' = given /\ stdin' = stdin /\ pc' = pc /\ conn' = conn
           /\ chan' = chan /\ pending' = pending /\ to' = to
           /\ Len(buf[s]) \in Nat /\ Len(buf'[s]) \in Nat /\ Len(buf'[s]) <= Len(buf[s])
           /\ buf'[Peer(s)] = buf[Peer(s)] /\ out'[Peer(s)] = out[Peer(s)]
<1>1. PICK n \in 1 .. Len(buf[s]) :
        /\ out' = [out EXCEPT ![s] = @ \o First(buf[s], n)]
        /\ buf' = [buf EXCEPT ![s] = Rest(@, n)]
  BY DEF WriteOut
<1>2. buf[s] \in Seq(Nat) /\ Len(buf[s]) \in Nat
  BY Lengths DEF IInv, TypeOK
<1>3. n \in 0 .. Len(buf[s])
  BY <1>2
<1>4. Len(Rest(buf[s], n)) = Len(buf[s]) - n
  BY <1>2, <1>3, Parts
<1>5. /\ buf'[s] = Rest(buf[s], n) /\ buf'[Peer(s)] = buf[Peer(s)]
      /\ out'[Peer(s)] = out[Peer(s)]
  BY <1>1, Both DEF IInv, TypeOK
<1>6. Len(buf[s]) \in Nat /\ Len(buf'[s]) \in Nat /\ Len(buf'[s]) <= Len(buf[s])
  BY <1>2, <1>3, <1>4, <1>5
<1>7. QED
  BY <1>5, <1>6 DEF WriteOut, Writing, fixed

LEMMA WriteCommSteps ==
    ASSUME IInv, NEW s \in Side, WriteComm(s)
    PROVE  /\ pc[s] = "relay" /\ buf[s] # <<>> /\ to[s] = "comm" /\ conn = "up"
           /\ program' = program /\ given' = given /\ stdin' = stdin /\ pc' = pc /\ conn' = conn
           /\ pending' = pending /\ to' = to /\ out' = out
           /\ Len(buf[s]) \in Nat /\ Len(buf'[s]) \in Nat /\ Len(buf'[s]) <= Len(buf[s])
           /\ buf'[Peer(s)] = buf[Peer(s)] /\ chan'[s] = chan[s] /\ Len(chan'[Peer(s)]) \in Nat
           /\ Len(chan'[Peer(s)]) + Len(buf'[s]) = Len(chan[Peer(s)]) + Len(buf[s])
<1> DEFINE t == Peer(s)
<1>1. PICK n \in 1 .. Min(Len(buf[s]), Room(s)) :
        /\ chan' = [chan EXCEPT ![t] = @ \o First(buf[s], n)]
        /\ buf' = [buf EXCEPT ![s] = Rest(@, n)]
  BY DEF WriteComm
<1>2. /\ buf[s] \in Seq(Nat) /\ Len(buf[s]) \in Nat /\ chan[t] \in Seq(Nat)
      /\ Len(chan[t]) \in Nat
  BY Both, Lengths DEF IInv, TypeOK
<1>3. n \in 0 .. Len(buf[s])
  BY <1>1, <1>2 DEF Min, Room
<1>4. /\ First(buf[s], n) \in Seq(Nat) /\ Len(First(buf[s], n)) = n
      /\ Len(Rest(buf[s], n)) = Len(buf[s]) - n
  BY <1>2, <1>3, Parts
<1>5. Len(chan[t] \o First(buf[s], n)) = Len(chan[t]) + Len(First(buf[s], n))
  BY <1>2, <1>4, Lengths
<1>6. /\ buf'[s] = Rest(buf[s], n) /\ buf'[t] = buf[t]
      /\ chan'[t] = chan[t] \o First(buf[s], n) /\ chan'[s] = chan[s]
  BY <1>1, Both DEF IInv, TypeOK
<1>7. /\ Len(buf'[s]) = Len(buf[s]) - n /\ Len(chan'[t]) = Len(chan[t]) + n
  BY <1>4, <1>5, <1>6
<1>8. /\ Len(buf'[s]) \in Nat /\ Len(buf'[s]) <= Len(buf[s]) /\ Len(chan'[t]) \in Nat
      /\ Len(chan'[t]) + Len(buf'[s]) = Len(chan[t]) + Len(buf[s])
  <2> DEFINE a == Len(buf[s])  b == Len(chan[t])  c == Len(buf'[s])  d == Len(chan'[t])
  <2>1. a \in Nat /\ b \in Nat /\ n \in 0 .. a /\ c = a - n /\ d = b + n
    BY <1>2, <1>3, <1>7
  <2> HIDE DEF a, b, c, d
  <2>2. c \in Nat /\ c <= a /\ d \in Nat /\ d + c = b + a
    BY <2>1
  <2>3. QED
    BY <2>2 DEF a, b, c, d
<1>9. /\ pc[s] = "relay" /\ buf[s] # <<>> /\ to[s] = "comm" /\ conn = "up"
      /\ program' = program /\ given' = given /\ stdin' = stdin /\ pc' = pc /\ conn' = conn
      /\ pending' = pending /\ to' = to /\ out' = out
  BY DEF WriteComm, Writing, fixed
<1>10. QED
  BY <1>2, <1>6, <1>8, <1>9

LEMMA ReceiveSteps ==
    ASSUME IInv, NEW s \in Side, Receive(s)
    PROVE  /\ pc[s] = "relay" /\ buf[s] = <<>> /\ chan[s] # <<>> /\ program[s].kind = "test"
           /\ program' = program /\ given' = given /\ stdin' = stdin /\ pc' = pc /\ conn' = conn
           /\ pending' = pending /\ to' = to /\ buf' = buf
           /\ out'[Peer(s)] = out[Peer(s)] /\ chan'[Peer(s)] = chan[Peer(s)]
           /\ Len(out'[s]) \in Nat /\ Len(chan'[s]) \in Nat
           /\ Len(out'[s]) + Len(chan'[s]) = Len(out[s]) + Len(chan[s])
<1> DEFINE n == Min(BUFSIZE - Len(out[s]), Len(chan[s]))
<1>1. /\ chan[s] \in Seq(Nat) /\ Len(chan[s]) \in Nat
      /\ out[s] \in Seq(Nat) /\ Len(out[s]) \in Nat
  BY Lengths DEF IInv, TypeOK
<1>2. n \in 0 .. Len(chan[s])
  BY <1>1 DEF Min, Receive, Reading
<1>3. /\ out' = [out EXCEPT ![s] = @ \o First(chan[s], n)]
      /\ chan' = [chan EXCEPT ![s] = Rest(@, n)]
  BY DEF Receive
<1> HIDE DEF n
<1>4. /\ First(chan[s], n) \in Seq(Nat) /\ Len(First(chan[s], n)) = n
      /\ Len(Rest(chan[s], n)) = Len(chan[s]) - n
  BY <1>1, <1>2, Parts
<1>5. Len(out[s] \o First(chan[s], n)) = Len(out[s]) + Len(First(chan[s], n))
  BY <1>1, <1>4, Lengths
<1>6. /\ chan'[s] = Rest(chan[s], n) /\ chan'[Peer(s)] = chan[Peer(s)]
      /\ out'[s] = out[s] \o First(chan[s], n) /\ out'[Peer(s)] = out[Peer(s)]
  BY <1>3, Both DEF IInv, TypeOK
<1>7. Len(chan'[s]) = Len(chan[s]) - n /\ Len(out'[s]) = Len(out[s]) + n
  BY <1>4, <1>5, <1>6
<1>8. /\ Len(out'[s]) \in Nat /\ Len(chan'[s]) \in Nat
      /\ Len(out'[s]) + Len(chan'[s]) = Len(out[s]) + Len(chan[s])
  <2> DEFINE a == Len(chan[s])  b == Len(out[s])  c == Len(chan'[s])  d == Len(out'[s])
  <2>1. a \in Nat /\ b \in Nat /\ n \in 0 .. a /\ c = a - n /\ d = b + n
    BY <1>1, <1>2, <1>7
  <2> HIDE DEF a, b, c, d
  <2>2. c \in Nat /\ d \in Nat /\ d + c = b + a
    BY <2>1
  <2>3. QED
    BY <2>2 DEF a, b, c, d
<1>9. /\ pc[s] = "relay" /\ buf[s] = <<>> /\ chan[s] # <<>> /\ program[s].kind = "test"
      /\ program' = program /\ given' = given /\ stdin' = stdin /\ pc' = pc /\ conn' = conn
      /\ pending' = pending /\ to' = to /\ buf' = buf
  BY DEF Receive, Reading, Idle, fixed
<1>10. QED
  BY <1>6, <1>8, <1>9

LEMMA TakeCommKeeps ==
    ASSUME IInv, NEW s \in Side, TakeComm(s)
    PROVE  Starting' /\ Shape' /\ Refused'
<1> DEFINE t == Peer(s)
<1>1. /\ pc[s] = "relay" /\ chan[s] # <<>> /\ program[s].kind # "test"
      /\ program' = program /\ given' = given /\ stdin' = stdin /\ pc' = pc
      /\ conn' = conn /\ out' = out
  BY TakeCommSteps
<1>2. /\ pending'[s] \subseteq pending[s] /\ pending'[t] = pending[t]
      /\ to'[s] = program[s].copies["comm"] /\ to'[t] = to[t]
      /\ Len(buf'[s]) <= BLKSIZE /\ buf'[t] = buf[t] /\ chan'[t] = chan[t]
      /\ "comm" \in DOMAIN program[s].copies
  BY TakeCommSteps
<1>3. conn = "up" /\ (s = Server => pc[Server] # "accept") /\ pc[Client] \notin {"connect", "interrupted"}
  BY <1>1, Both DEF IInv, Starting
<1>4. Starting'
  BY <1>1, <1>2, <1>3, Both DEF IInv, Starting
<1>5. program \in Pairs
  BY DEF IInv, TypeOK
<1>6. to'[s] = "comm" => program[s].kind = "copyfile"
  <2>1. program[s].kind \in {"copyfile", "copy2files"}
    BY <1>1, <1>5, Programs
  <2>2. program[s].kind = "copy2files" => program[s].copies["comm"] = "stdout"
    BY <1>5, Programs
  <2>3. QED
    BY <1>2, <2>1, <2>2
<1>7. to'[s] = "comm" => pending'[s] = {} /\ Writes(program[s])
  <2>1. program[s].kind = "copyfile" => pending[s] = {}
    BY DEF IInv, Shape
  <2>2. QED
    BY <1>2, <1>6, <2>1 DEF Writes
<1>8. program[Client].kind = "test" => to'[s] = "comm"
  <2>1. program[Client].kind = "test" => program[Server].copies["comm"] = "comm"
    BY <1>5, Programs DEF Side, Client, Server
  <2>2. QED
    BY <1>1, <1>2, <2>1, Both
<1>9. ASSUME NEW u \in Side
      PROVE  /\ pending'[u] # {} => program[u].kind = "copy2files"
             /\ buf'[u] # <<>> /\ to'[u] = "comm" => pending'[u] = {} /\ Writes(program[u])
             /\ program[u].kind # "test" => Len(buf'[u]) <= BLKSIZE
             /\ program[Client].kind = "test" => to'[u] = "comm"
  <2>1. CASE u = s
    BY <1>2, <1>7, <1>8, <2>1 DEF IInv, Shape
  <2>2. CASE u = t
    BY <1>2, <2>2 DEF IInv, Shape
  <2>3. QED
    BY <2>1, <2>2, Both
<1>10. Shape'
  BY <1>1, <1>9 DEF Shape
<1>11. Refused'
  BY <1>1, <1>3 DEF Refused
<1>12. QED
  BY <1>4, <1>10, <1>11

LEMMA TakeStdinKeeps ==
    ASSUME IInv, NEW s \in Side, TakeStdin(s)
    PROVE  Starting' /\ Shape' /\ Refused'
<1> DEFINE t == Peer(s)
<1>1. /\ pc[s] = "relay" /\ program[s].kind # "test"
      /\ program' = program /\ given' = given /\ pc' = pc /\ conn' = conn /\ out' = out
      /\ chan' = chan
  BY TakeStdinSteps
<1>2. /\ program[s].kind = "copy2files" => pending[s] = {"stdin"}
      /\ pending'[s] = {} /\ pending'[t] = pending[t]
      /\ to'[s] = program[s].copies["stdin"] /\ to'[t] = to[t]
      /\ Len(buf'[s]) <= BLKSIZE /\ buf'[t] = buf[t]
      /\ "stdin" \in DOMAIN program[s].copies
  BY TakeStdinSteps
<1>3. conn # "none" /\ (s = Server => conn = "up" /\ pc[Server] # "accept")
  BY <1>1, Both DEF IInv, Starting
<1>4. Starting'
  BY <1>1, <1>2, <1>3, Both DEF IInv, Starting
<1>5. program \in Pairs
  BY DEF IInv, TypeOK
<1>6. program[Client].kind # "test" /\ Writes(program[s])
  <2>1. program[Client].kind = "test" => DOMAIN program[Server].copies = {"comm"}
    BY <1>5, Programs DEF Side, Client, Server
  <2>2. program[s].kind = "copy2files" => program[s].copies["stdin"] = "comm"
    BY <1>5, Programs
  <2>3. program[s].kind = "copyfile" => program[s].copies["stdin"] = "comm"
    BY <1>2, <1>5, Programs
  <2>4. program[s].kind \in {"copyfile", "copy2files"}
    BY <1>1, <1>5, Programs
  <2>5. QED
    BY <1>1, <1>2, <2>1, <2>2, <2>3, <2>4, Both DEF Writes
<1>7. ASSUME NEW u \in Side
      PROVE  /\ pending'[u] # {} => program[u].kind = "copy2files"
             /\ buf'[u] # <<>> /\ to'[u] = "comm" => pending'[u] = {} /\ Writes(program[u])
             /\ program[u].kind # "test" => Len(buf'[u]) <= BLKSIZE
  <2>1. CASE u = s
    BY <1>2, <1>6, <2>1 DEF IInv, Shape
  <2>2. CASE u = t
    BY <1>2, <2>2 DEF IInv, Shape
  <2>3. QED
    BY <2>1, <2>2, Both
<1>8. Shape'
  <2>1. program' = program
    BY <1>1
  <2>2. QED
    BY <1>6, <1>7, <2>1 DEF Shape
<1>9. ~ (conn = "refused" /\ program[Client].kind = "copy2files")
  <2>1. SUFFICES ASSUME conn = "refused", program[Client].kind = "copy2files" PROVE FALSE
    OBVIOUS
  <2>2. s = Client
    BY <1>3, <2>1, Both
  <2>3. pending[s] = {"stdin"}
    BY <1>2, <2>1, <2>2
  <2>4. "comm" \in pending[s]
    BY <2>1, <2>2, <2>3 DEF IInv, Refused
  <2>5. QED
    BY <2>3, <2>4
<1>10. Refused'
  BY <1>1, <1>9 DEF Refused
<1>11. QED
  BY <1>4, <1>8, <1>10

LEMMA WritesKeep ==
    ASSUME IInv, NEW s \in Side, WriteOut(s) \/ WriteComm(s) \/ WriteLost(s) \/ Receive(s)
    PROVE  Starting' /\ Shape' /\ Refused'
<1> DEFINE t == Peer(s)
<1>1. /\ pc[s] = "relay" /\ program' = program /\ given' = given /\ stdin' = stdin
      /\ pc' = pc /\ conn' = conn /\ pending' = pending /\ to' = to
      /\ out'[t] = out[t] /\ buf'[t] = buf[t] /\ (buf[s] = <<>> => buf'[s] = <<>>)
  <2>1. CASE WriteLost(s)
    BY <2>1, Both DEF WriteLost, Writing, fixed, IInv, TypeOK
  <2>2. QED
    BY <2>1, WriteOutSteps, WriteCommSteps, ReceiveSteps
<1>2. program[s].kind # "test" => Len(buf'[s]) <= BLKSIZE
  <2>1. program[s].kind # "test" => Len(buf[s]) <= BLKSIZE
    BY DEF IInv, Shape
  <2>2. CASE WriteOut(s) \/ WriteComm(s)
    <3>1. Len(buf[s]) \in Nat /\ Len(buf'[s]) \in Nat /\ Len(buf'[s]) <= Len(buf[s])
      BY <2>2, WriteOutSteps, WriteCommSteps
    <3> DEFINE a == Len(buf[s])  b == Len(buf'[s])
    <3>2. a \in Nat /\ b \in Nat /\ b <= a /\ (program[s].kind # "test" => a <= BLKSIZE)
      BY <2>1, <3>1
    <3> HIDE DEF a, b
    <3>3. program[s].kind # "test" => b <= BLKSIZE
      BY <3>2
    <3>4. QED
      BY <3>3 DEF b
  <2>3. CASE WriteLost(s)
    <3>1. buf'[s] = <<>>
      BY <2>3 DEF WriteLost, IInv, TypeOK
    <3>2. QED
      BY <3>1, Empty
  <2>4. CASE Receive(s)
    BY <2>4, ReceiveSteps
  <2>5. QED
    BY <2>2, <2>3, <2>4
<1>3. Starting'
  <2>1. CASE conn = "up"
    BY <1>1, <2>1, Both DEF IInv, Starting
  <2>2. CASE conn # "up"
    <3>1. conn # "none" /\ s = Client /\ chan[s] = <<>>
      BY <1>1, <2>2, Both DEF IInv, Starting
    <3>2. WriteOut(s)
      BY <2>2, <3>1, WriteCommSteps, ReceiveSteps DEF WriteLost
    <3>3. chan' = chan
      BY <3>2, WriteOutSteps
    <3>4. QED
      BY <1>1, <2>2, <3>1, <3>3, Both DEF IInv, Starting
  <2>3. QED
    BY <2>1, <2>2
<1>4. Shape'
  <2>1. ASSUME NEW u \in Side
        PROVE  /\ pending'[u] # {} => program[u].kind = "copy2files"
               /\ buf'[u] # <<>> /\ to'[u] = "comm" => pending'[u] = {} /\ Writes(program[u])
               /\ program[u].kind # "test" => Len(buf'[u]) <= BLKSIZE
               /\ program[Client].kind = "test" => to'[u] = "comm"
    <3>1. CASE u = s
      BY <1>1, <1>2, <3>1 DEF IInv, Shape
    <3>2. CASE u = t
      BY <1>1, <3>2 DEF IInv, Shape
    <3>3. QED
      BY <3>1, <3>2, Both
  <2>2. QED
    BY <1>1, <2>1 DEF Shape
<1>5. Refused'
  BY <1>1, Both DEF IInv, Refused
<1>6. QED
  BY <1>3, <1>4, <1>5

-----------------------------------------------------------------------------
LEMMA Initially == Init => FInv
<1> SUFFICES ASSUME Init PROVE FInv
  OBVIOUS
<1> USE Empty DEF Init, Side, Client, Server
<1>1. TypeOK
  BY StdinsAssumption DEF TypeOK
<1>2. Starting
  BY DEF Starting, Fresh
<1>3. Shape
  BY DEF Shape
<1>4. QED
  BY <1>1, <1>2, <1>3 DEF FInv, IInv, Refused, Crossing, Midway, Reflecting

(* The first part is inductive by itself. *)
LEMMA Keeps == IInv /\ [Next]_vars => IInv'
<1> SUFFICES ASSUME IInv, [Next]_vars PROVE IInv'
  OBVIOUS
<1>1. TypeOK'
  BY TypeCorrect DEF IInv
<1>2. CASE UNCHANGED vars
  BY <1>1, <1>2 DEF vars, IInv, Starting, Shape, Refused, Fresh
<1>3. CASE Next
  BY <1>1, <1>3, Moves, EndsKeeps, ConnectKeeps, AcceptKeeps, SelectKeeps, TakeCommKeeps,
     TakeStdinKeeps, WritesKeep DEF Next, IInv
<1>4. QED
  BY <1>2, <1>3

(* Only a process that writes on the connection is midway, and never with   *)
(* more than a block.                                                       *)
LEMMA Promise ==
    ASSUME IInv, NEW s \in Side, program[Client].kind # "test"
    PROVE  /\ program[s].kind # "test"
           /\ ToCome(s) \in Nat /\ ToCome(s) <= BLKSIZE
           /\ Midway(s) => Writes(program[s])
<1>1. program \in Pairs /\ buf[s] \in Seq(Nat) /\ pending[s] \in SUBSET {"comm", "stdin"}
  BY DEF IInv, TypeOK
<1>2. program[s].kind # "test"
  BY <1>1, Programs
<1>3. Len(buf[s]) \in Nat /\ Len(buf[s]) <= BLKSIZE
  BY <1>1, <1>2, Lengths DEF IInv, Shape
<1>4. pending[s] # {} => Writes(program[s])
  <2>1. pending[s] # {} => program[s].kind = "copy2files"
    BY DEF IInv, Shape
  <2>2. QED
    BY <1>1, <2>1, Programs DEF Writes
<1>5. Midway(s) => Writes(program[s])
  BY <1>4 DEF Midway, IInv, Shape
<1>6. QED
  BY <1>2, <1>3, <1>5 DEF ToCome

(* A side that does not move keeps what it has to send. *)
LEMMA Still ==
    ASSUME NEW u \in Side, pc'[u] = pc[u], buf'[u] = buf[u], to'[u] = to[u], pending'[u] = pending[u]
    PROVE  Midway(u)' = Midway(u) /\ ToCome(u)' = ToCome(u)
BY DEF Midway, ToCome

(* What a step of one side makes of the sum of the two. *)
LEMMA Sum ==
    ASSUME NEW a \in Nat, NEW b \in Nat, a = 0 \/ a <= K - BLKSIZE, b <= BLKSIZE
    PROVE  a + b <= K
OBVIOUS

LEMMA CrossingKeeps ==
    ASSUME IInv, IInv', Crossing, NEW s \in Side, Step(s)
    PROVE  Crossing'
<1> DEFINE t == Peer(s)
<1>1. t \in Side /\ t # s /\ Peer(t) = s /\ Client \in Side
  BY Both
<1>2. SUFFICES ASSUME ~ Ended(s)', ~ Ended(t)', program[Client].kind # "test", program' = program,
                      Midway(s)', Midway(t)'
               PROVE  Fits(s)' \/ Fits(t)'
  <2>1. program' = program
    BY DEF Step, Next, Connect, ConnectFails, ConnectInterrupted, ConnectGoesOn, Relay, Accept,
           ForkFails, Leave, Select, TakeComm, TakeStdin, Take, StdinEnds, CommEnds, WriteOut,
           WriteComm, WriteFails, WriteLost, Receive, ReceivedAll, fixed
  <2>2. QED
    BY <2>1, Both DEF Crossing
<1>3. /\ program[s].kind # "test" /\ program[t].kind # "test"
      /\ ToCome(s) \in Nat /\ ToCome(s) <= BLKSIZE /\ ToCome(t) \in Nat /\ ToCome(t) <= BLKSIZE
      /\ Midway(t) => Writes(program[t])
  BY <1>1, <1>2, Promise
<1>4. ~ Ended(s) /\ ~ Ended(t) /\ Midway(s) /\ Midway(t) => Fits(s) \/ Fits(t)
  BY <1>1, <1>2, Both DEF Crossing
<1>5. CASE Ends(s)
  BY <1>2, <1>5, Leaving DEF Ends, IInv
<1>6. CASE s = Client /\ (Connect \/ ConnectInterrupted \/ ConnectGoesOn)
  <2>1. Fresh(s) /\ pc[s] \in {"connect", "interrupted"}
    BY <1>6 DEF IInv, Starting, Connect, ConnectInterrupted, ConnectGoesOn
  <2>2. pending'[s] = {} /\ (buf'[s] = <<>> \/ pc'[s] = "interrupted")
    BY <1>2, <1>6, <2>1 DEF Connect, ConnectInterrupted, ConnectGoesOn, Relay, Fresh, IInv, TypeOK
  <2>3. QED
    BY <1>2, <2>2 DEF Midway
<1>7. CASE s = Server /\ Accept
  BY <1>2, <1>7 DEF Accept, IInv, Starting, Midway
<1>8. CASE Select(s)
  <2>1. /\ buf[s] = <<>> /\ buf' = buf /\ chan' = chan /\ pc' = pc /\ to' = to
        /\ pending'[t] = pending[t]
    BY <1>1, <1>8 DEF Select, Idle, IInv, TypeOK
  <2>2. pending'[s] = {"stdin"}
    BY <1>2, <2>1 DEF Midway
  <2>3. chan[s] = <<>>
    BY <1>8, <2>2 DEF Select, CommReady, IInv, TypeOK
  <2>4. ToCome(t)' = ToCome(t)
    BY <1>1, <2>1, Still
  <2>5. QED
    BY <1>3, <2>1, <2>3, <2>4, Empty DEF Fits
<1>9. CASE TakeComm(s)
  <2>1. /\ Len(chan'[s]) \in Nat /\ Len(buf'[s]) \in Nat
        /\ Len(chan'[s]) + Len(buf'[s]) = Len(chan[s])
        /\ chan'[s] = <<>> \/ Len(buf'[s]) = BLKSIZE
    BY <1>9, TakeCommSteps
  <2>2. pc' = pc /\ buf'[t] = buf[t] /\ to'[t] = to[t] /\ pending'[t] = pending[t]
    BY <1>9, TakeCommSteps
  <2>3. ToCome(t)' = ToCome(t)
    BY <1>1, <2>2, Still
  <2>4. Len(chan[s]) \in Nat /\ Len(chan[s]) <= K
    BY Lengths DEF IInv, TypeOK
  <2>5. Len(chan'[s]) = 0 \/ Len(chan'[s]) <= K - BLKSIZE
    <3> DEFINE a == Len(chan[s])  b == Len(chan'[s])  c == Len(buf'[s])
    <3>1. a \in Nat /\ b \in Nat /\ c \in Nat /\ b + c = a /\ a <= K /\ (b = 0 \/ c = BLKSIZE)
      BY <2>1, <2>4, Empty
    <3> HIDE DEF a, b, c
    <3>2. b = 0 \/ b <= K - BLKSIZE
      BY <3>1
    <3>3. QED
      BY <3>2 DEF b
  <2>6. Len(chan'[s]) + ToCome(t) <= K
    BY <1>3, <2>1, <2>5, Sum
  <2>7. QED
    BY <2>3, <2>6 DEF Fits
<1>10. CASE TakeStdin(s)
  <2>1. /\ buf[s] = <<>> /\ pc' = pc /\ chan' = chan /\ pending'[s] = {}
        /\ Len(buf'[s]) \in Nat /\ Len(buf'[s]) <= BLKSIZE
        /\ program[s].kind = "copy2files" => pending[s] = {"stdin"} /\ pc[s] = "relay"
        /\ "stdin" \in DOMAIN program[s].copies
    BY <1>10, TakeStdinSteps
  <2>2. buf'[t] = buf[t] /\ to'[t] = to[t] /\ pending'[t] = pending[t]
    BY <1>10, TakeStdinSteps
  <2>3. Midway(t)' = Midway(t) /\ ToCome(t)' = ToCome(t)
    BY <1>1, <2>1, <2>2, Still
  <2>4. program[s].kind = "copy2files"
    <3>1. program \in Pairs
      BY DEF IInv, TypeOK
    <3>2. Writes(program[t]) => Reads(program[s])
      BY <1>1, <3>1, Programs
    <3>3. Reads(program[s])
      BY <1>2, <1>3, <2>3, <3>2
    <3>4. program[s].kind \in {"copyfile", "copy2files"}
      BY <1>3, <3>1, Programs
    <3>5. program[s].kind = "copyfile" =>
            DOMAIN program[s].copies = {"stdin"} \/ DOMAIN program[s].copies = {"comm"}
      BY <3>1, Programs
    <3>6. QED
      BY <2>1, <3>3, <3>4, <3>5 DEF Reads
  <2>5. Fits(s) \/ Fits(t)
    BY <1>2, <1>4, <2>1, <2>3, <2>4 DEF Midway, Ended
  <2>6. ToCome(s) = BLKSIZE
    BY <2>1, <2>4 DEF ToCome
  <2>7. ToCome(s)' \in Nat /\ ToCome(s)' <= BLKSIZE
    BY <2>1 DEF ToCome
  <2>8. Len(chan[t]) \in Nat
    BY <1>1, Lengths DEF IInv, TypeOK
  <2>9. Fits(s) => Fits(s)'
    BY <2>1, <2>3 DEF Fits
  <2>10. Fits(t) => Fits(t)'
    BY <1>1, <2>1, <2>6, <2>7, <2>8 DEF Fits
  <2>11. QED
    BY <2>5, <2>9, <2>10
<1>11. CASE WriteOut(s)
  <2>1. /\ to[s] = "stdout" /\ pc' = pc /\ chan' = chan /\ pending' = pending /\ to' = to
        /\ buf'[t] = buf[t]
    BY <1>11, WriteOutSteps
  <2>2. Midway(t)' = Midway(t) /\ ToCome(t)' = ToCome(t)
    BY <1>1, <2>1, Still
  <2>3. Midway(s)' = Midway(s) /\ ToCome(s)' = ToCome(s)
    BY <2>1 DEF Midway, ToCome
  <2>4. Fits(s) \/ Fits(t)
    BY <1>2, <1>4, <2>1, <2>2, <2>3 DEF Midway, Ended
  <2>5. QED
    BY <1>1, <2>1, <2>2, <2>3, <2>4 DEF Fits
<1>12. CASE WriteComm(s)
  <2>1. /\ pc[s] = "relay" /\ buf[s] # <<>> /\ to[s] = "comm" /\ pc' = pc /\ pending' = pending
        /\ to' = to /\ buf'[t] = buf[t] /\ chan'[s] = chan[s]
        /\ Len(chan'[t]) + Len(buf'[s]) = Len(chan[t]) + Len(buf[s])
    BY <1>12, WriteCommSteps
  <2>2. Midway(t)' = Midway(t) /\ ToCome(t)' = ToCome(t)
    BY <1>1, <2>1, Still
  <2>3. Midway(s) /\ ToCome(s) = Len(buf[s])
    BY <2>1 DEF Midway, ToCome
  <2>4. ToCome(s)' = Len(buf'[s])
    <3>1. pending[s] = {}
      BY <2>1 DEF IInv, Shape
    <3>2. QED
      BY <2>1, <3>1, Empty DEF ToCome
  <2>5. Fits(s) \/ Fits(t)
    BY <1>2, <1>4, <2>1, <2>2, <2>3 DEF Ended
  <2>6. Fits(s) => Fits(s)'
    BY <2>1, <2>2 DEF Fits
  <2>7. Fits(t) => Fits(t)'
    BY <1>1, <2>1, <2>3, <2>4 DEF Fits
  <2>8. QED
    BY <2>5, <2>6, <2>7
<1>13. CASE WriteLost(s)
  BY <1>2, <1>13 DEF WriteLost, Ended
<1>14. CASE Receive(s)
  BY <1>3, <1>14 DEF Receive
<1>15. QED
  BY <1>5, <1>6, <1>7, <1>8, <1>9, <1>10, <1>11, <1>12, <1>13, <1>14, Moves

LEMMA ReflectingKeeps ==
    ASSUME IInv, Reflecting, NEW s \in Side, Step(s)
    PROVE  Reflecting'
<1> USE DEF Side, Client, Server
<1>1. SUFFICES ASSUME program' = program, program[1].kind = "test", pc'[1] = "relay", ~ Ended(2)'
               PROVE  Len(buf'[1]) + Len(chan'[2]) + Len(buf'[2]) + Len(chan'[1]) + Len(out'[1])
                        = BUFSIZE
  <2>1. program' = program
    BY DEF Step, Next, Connect, ConnectFails, ConnectInterrupted, ConnectGoesOn, Relay, Accept,
           ForkFails, Leave, Select, TakeComm, TakeStdin, Take, StdinEnds, CommEnds, WriteOut,
           WriteComm, WriteFails, WriteLost, Receive, ReceivedAll, fixed
  <2>2. QED
    BY <2>1 DEF Reflecting
<1>2. /\ program[2].kind = "copyfile" /\ DOMAIN program[2].copies = {"comm"}
      /\ to[1] = "comm" /\ to[2] = "comm"
  BY <1>1, Programs DEF IInv, TypeOK, Shape
<1>3. \A u \in Side : Len(buf[u]) \in Nat /\ Len(chan[u]) \in Nat /\ Len(out[u]) \in Nat
  BY Lengths DEF IInv, TypeOK
<1>4. pc[1] = "relay" /\ ~ Ended(2) =>
        Len(buf[1]) + Len(chan[2]) + Len(buf[2]) + Len(chan[1]) + Len(out[1]) = BUFSIZE
  BY <1>1 DEF Reflecting
<1>5. CASE Ends(s)
  <2>1. pc'[s] \in Endings
    BY <1>5, Leaving DEF Ends, IInv
  <2>2. QED
    BY <1>1, <2>1 DEF Ended, Endings
<1>6. CASE s = 1 /\ (Connect \/ ConnectInterrupted \/ ConnectGoesOn)
  <2>1. Fresh(1) /\ Fresh(2) /\ pc \in [Side -> {"connect", "interrupted", "accept", "relay"} \cup Endings]
    BY <1>6 DEF IInv, TypeOK, Starting, Connect, ConnectInterrupted, ConnectGoesOn
  <2>2. Connect \/ ConnectGoesOn
    BY <1>1, <1>6, <2>1 DEF ConnectInterrupted
  <2>3. Relay /\ buf \in [Side -> Seq(Nat)]
    BY <2>2 DEF Connect, ConnectGoesOn, IInv, TypeOK
  <2>4. buf'[1] = bufsend /\ buf'[2] = buf[2] /\ chan' = chan /\ out' = out
    BY <1>1, <2>3 DEF Relay
  <2>5. Len(bufsend) = BUFSIZE
    <3>1. bufsend \in [1 .. BUFSIZE -> Nat]
      BY DEF bufsend
    <3>2. QED
      BY <3>1, SeqDef, LenProperties
  <2>6. /\ Len(buf'[1]) = BUFSIZE /\ Len(chan'[2]) = 0 /\ Len(buf'[2]) = 0 /\ Len(chan'[1]) = 0
        /\ Len(out'[1]) = 0
    BY <2>1, <2>4, <2>5, Empty DEF Fresh
  <2>7. QED
    BY <2>6
<1>7. CASE s = 2 /\ Accept
  <2>1. pc[2] = "accept" /\ pc'[1] = pc[1] /\ buf' = buf /\ chan' = chan /\ out' = out
    BY <1>7 DEF Accept, IInv, TypeOK
  <2>2. QED
    BY <1>1, <1>4, <2>1 DEF Ended, Endings
<1>8. CASE Select(s)
  BY <1>1, <1>2, <1>8 DEF Select
<1>9. CASE TakeComm(s)
  <2>1. s = 2 /\ Peer(s) = 1
    BY <1>1, <1>9 DEF TakeComm, Peer
  <2>2. /\ pc' = pc /\ out' = out /\ buf[2] = <<>> /\ buf'[1] = buf[1] /\ chan'[1] = chan[1]
        /\ Len(buf'[2]) \in Nat /\ Len(chan'[2]) \in Nat
        /\ Len(chan'[2]) + Len(buf'[2]) = Len(chan[2])
    BY <1>9, <2>1, TakeCommSteps
  <2>3. Len(buf[1]) + Len(chan[2]) + Len(buf[2]) + Len(chan[1]) + Len(out[1]) = BUFSIZE
    BY <1>1, <1>4, <2>2 DEF Ended
  <2>4. Len(buf[2]) = 0
    BY <2>2, Empty
  <2> DEFINE a == Len(buf[1])  b == Len(chan[2])  c == Len(buf'[2])  d == Len(chan[1])
             e == Len(out[1])  f == Len(chan'[2])
  <2>5. /\ a \in Nat /\ b \in Nat /\ c \in Nat /\ d \in Nat /\ e \in Nat /\ f \in Nat
        /\ f + c = b /\ a + b + 0 + d + e = BUFSIZE
    BY <1>3, <2>2, <2>3, <2>4
  <2>6. buf'[1] = buf[1] /\ chan'[1] = chan[1] /\ out'[1] = out[1]
    BY <2>2
  <2> HIDE DEF a, b, c, d, e, f
  <2>7. a + f + c + d + e = BUFSIZE
    BY <2>5
  <2>8. QED
    BY <2>6, <2>7 DEF a, c, d, e, f
<1>10. CASE TakeStdin(s)
  <2>1. "stdin" \in DOMAIN program[s].copies /\ program[s].kind # "test"
    BY <1>10, TakeStdinSteps
  <2>2. QED
    BY <1>1, <1>2, <2>1
<1>11. CASE WriteOut(s)
  BY <1>2, <1>11 DEF WriteOut, Writing
<1>12. CASE WriteComm(s)
  <2> DEFINE t == Peer(s)
  <2>1. /\ pc' = pc /\ out' = out /\ buf'[t] = buf[t] /\ chan'[s] = chan[s]
        /\ Len(buf'[s]) \in Nat /\ Len(chan'[t]) \in Nat
        /\ Len(chan'[t]) + Len(buf'[s]) = Len(chan[t]) + Len(buf[s])
    BY <1>12, WriteCommSteps
  <2>2. Len(buf[1]) + Len(chan[2]) + Len(buf[2]) + Len(chan[1]) + Len(out[1]) = BUFSIZE
    BY <1>1, <1>4, <2>1 DEF Ended
  <2> DEFINE a == Len(buf[1])  b == Len(chan[2])  c == Len(buf[2])  d == Len(chan[1])
             e == Len(out[1])  f == Len(buf'[s])  g == Len(chan'[t])
  <2>3. CASE s = 1
    <3> t = 2
      BY <2>3 DEF Peer
    <3>1. /\ a \in Nat /\ b \in Nat /\ c \in Nat /\ d \in Nat /\ e \in Nat
          /\ f \in Nat /\ g \in Nat /\ g + f = b + a /\ a + b + c + d + e = BUFSIZE
      <4>1. g + f = b + a
        BY <2>1, <2>3, Zenon
      <4>2. a + b + c + d + e = BUFSIZE
        BY <2>2, Zenon
      <4>3. QED
        BY <1>3, <2>1, <4>1, <4>2, <2>3
    <3>2. /\ f = Len(buf'[1]) /\ g = Len(chan'[2])
          /\ buf'[2] = buf[2] /\ chan'[1] = chan[1] /\ out'[1] = out[1]
      BY <2>1, <2>3 DEF Peer
    <3> HIDE DEF a, b, c, d, e, f, g
    <3>3. f + g + c + d + e = BUFSIZE
      BY <3>1
    <3>4. QED
      BY <3>2, <3>3 DEF c, d, e
  <2>4. CASE s = 2
    <3> t = 1
      BY <2>4 DEF Peer
    <3>1. /\ a \in Nat /\ b \in Nat /\ c \in Nat /\ d \in Nat /\ e \in Nat
          /\ f \in Nat /\ g \in Nat /\ g + f = d + c /\ a + b + c + d + e = BUFSIZE
      <4>1. g + f = d + c
        BY <2>1, <2>4, Zenon
      <4>2. a + b + c + d + e = BUFSIZE
        BY <2>2, Zenon
      <4>3. QED
        BY <1>3, <2>1, <4>1, <4>2, <2>4
    <3>2. /\ f = Len(buf'[2]) /\ g = Len(chan'[1])
          /\ buf'[1] = buf[1] /\ chan'[2] = chan[2] /\ out'[1] = out[1]
      BY <2>1, <2>4 DEF Peer
    <3> HIDE DEF a, b, c, d, e, f, g
    <3>3. a + b + f + g + e = BUFSIZE
      BY <3>1
    <3>4. QED
      BY <3>2, <3>3 DEF a, b, e
  <2>5. QED
    BY <2>3, <2>4
<1>13. CASE WriteLost(s)
  <2>1. pc' = pc /\ pc[Peer(s)] \in Endings
    BY <1>13 DEF WriteLost, Ended
  <2>2. CASE s = 1
    BY <1>1, <2>1, <2>2 DEF Ended, Peer
  <2>3. CASE s = 2
    <3>1. pc'[1] \in Endings
      BY <2>1, <2>3 DEF Peer
    <3>2. QED
      BY <1>1, <3>1 DEF Endings
  <2>4. QED
    BY <2>2, <2>3
<1>14. CASE Receive(s)
  <2>1. s = 1 /\ Peer(s) = 2
    BY <1>2, <1>14 DEF Receive, Peer
  <2>2. /\ pc' = pc /\ buf' = buf /\ chan'[2] = chan[2]
        /\ Len(out'[1]) \in Nat /\ Len(chan'[1]) \in Nat
        /\ Len(out'[1]) + Len(chan'[1]) = Len(out[1]) + Len(chan[1])
    BY <1>14, <2>1, ReceiveSteps
  <2>3. Len(buf[1]) + Len(chan[2]) + Len(buf[2]) + Len(chan[1]) + Len(out[1]) = BUFSIZE
    BY <1>1, <1>4, <2>2 DEF Ended
  <2> DEFINE a == Len(buf[1])  b == Len(chan[2])  c == Len(buf[2])  d == Len(chan[1])
             e == Len(out[1])  f == Len(chan'[1])  g == Len(out'[1])
  <2>4. /\ a \in Nat /\ b \in Nat /\ c \in Nat /\ d \in Nat /\ e \in Nat
        /\ f \in Nat /\ g \in Nat /\ g + f = e + d /\ a + b + c + d + e = BUFSIZE
    <3>1. g + f = e + d
      BY <2>2, Zenon
    <3>2. a + b + c + d + e = BUFSIZE
      BY <2>3, Zenon
    <3>3. QED
      BY <1>3, <2>2, <3>1, <3>2
  <2>5. buf' = buf /\ chan'[2] = chan[2]
    BY <2>2
  <2> HIDE DEF a, b, c, d, e, f, g
  <2>6. a + b + c + f + g = BUFSIZE
    BY <2>4
  <2>7. QED
    BY <2>5, <2>6 DEF a, b, c, f, g
<1>15. QED
  BY <1>5, <1>6, <1>7, <1>8, <1>9, <1>10, <1>11, <1>12, <1>13, <1>14, Moves

LEMMA FKeeps == FInv /\ [Next]_vars => FInv'
<1> SUFFICES ASSUME FInv, [Next]_vars PROVE FInv'
  OBVIOUS
<1>1. IInv'
  BY Keeps DEF FInv
<1>2. CASE UNCHANGED vars
  BY <1>1, <1>2 DEF vars, FInv, Crossing, Midway, Fits, ToCome, Reflecting, Ended
<1>3. CASE Next
  BY <1>1, <1>3, CrossingKeeps, ReflectingKeeps DEF FInv, Next
<1>4. QED
  BY <1>2, <1>3

(* When both waited, more bytes than the two directions hold would be on    *)
(* their way; but the last of two that begin to send has read just before,  *)
(* and the one message of reflectclient fits.                               *)
LEMMA NotBoth == FInv => NotBothWaitToWrite
<1> USE DEF Side, Client, Server
<1> SUFFICES ASSUME FInv, WaitsToWrite(1), WaitsToWrite(2) PROVE FALSE
  BY DEF NotBothWaitToWrite
<1>1. /\ Midway(1) /\ Midway(2) /\ ~ Ended(1) /\ ~ Ended(2) /\ pc[1] = "relay"
      /\ buf[1] # <<>> /\ buf[2] # <<>>
      /\ ToCome(1) = Len(buf[1]) /\ ToCome(2) = Len(buf[2])
  BY DEF WaitsToWrite, Writing, Midway, Ended, Endings, ToCome
<1>2. /\ Len(buf[1]) \in Nat /\ Len(buf[2]) \in Nat /\ Len(out[1]) \in Nat
      /\ Len(chan[1]) \in Nat /\ Len(chan[2]) \in Nat
      /\ Len(buf[1]) # 0 /\ Len(buf[2]) # 0
  BY <1>1, Lengths DEF FInv, IInv, TypeOK
<1>3. Len(chan[1]) = K /\ Len(chan[2]) = K
  BY <1>2 DEF WaitsToWrite, Room, Peer
<1>4. CASE program[1].kind = "test"
  <2>1. BUFSIZE <= 2 * K + 1
    BY <1>4, Programs DEF FInv, IInv, TypeOK
  <2>2. Len(buf[1]) + Len(chan[2]) + Len(buf[2]) + Len(chan[1]) + Len(out[1]) = BUFSIZE
    BY <1>1, <1>4 DEF FInv, Reflecting
  <2> DEFINE a == Len(buf[1])  b == Len(chan[2])  c == Len(buf[2])  d == Len(chan[1])
             e == Len(out[1])
  <2>3. /\ a \in Nat /\ c \in Nat /\ e \in Nat /\ a # 0 /\ c # 0 /\ b = K /\ d = K
        /\ a + b + c + d + e = BUFSIZE
    BY <1>2, <1>3, <2>2
  <2> HIDE DEF a, b, c, d, e
  <2>4. QED
    BY <2>1, <2>3
<1>5. CASE program[1].kind # "test"
  <2>1. Fits(1) \/ Fits(2)
    BY <1>1, <1>5 DEF FInv, Crossing
  <2>2. K + Len(buf[2]) <= K \/ K + Len(buf[1]) <= K
    BY <1>1, <1>3, <2>1 DEF Fits, Peer
  <2>3. QED
    BY <1>2, <2>2
<1>6. QED
  BY <1>4, <1>5

(* The states are typed, and no direction holds more than the connection's  *)
(* buffer (r_write, restart.c:82-99; readwrite, restart.c:183-194).         *)
THEOREM TypesHold == Spec => []TypeOK
<1>1. FInv => TypeOK
  BY DEF FInv, IInv
<1>2. QED
  BY Initially, FKeeps, <1>1, PTL DEF Spec

(* The two processes on a connection never wait for each other to read, for *)
(* every length of what is typed and every size of the buffers in which a   *)
(* block fits (copy2files.c:22-45, reflectclient.c:23-43).                  *)
THEOREM NoMutualWait == Spec => []NotBothWaitToWrite
BY Initially, FKeeps, NotBoth, PTL DEF Spec

(* A descriptor that could not be connected takes nothing from the user of  *)
(* a program that relays both ways (uici.c:140-156, copy2files.c:32-38).    *)
THEOREM NothingTaken == Spec => []UnconnectedTakesNothing
<1>1. FInv => UnconnectedTakesNothing
  BY DEF FInv, IInv, Refused, UnconnectedTakesNothing
<1>2. QED
  BY Initially, FKeeps, <1>1, PTL DEF Spec

-----------------------------------------------------------------------------
(* The order of the bytes.  What a step takes from one place it puts behind *)
(* what is there already in the next.                                       *)

Bytes == Seq(Nat)

Begins(p, q) == \E r \in Bytes : q = p \o r

LEMMA Joins ==
    ASSUME NEW p \in Bytes, NEW q \in Bytes
    PROVE  /\ p \o q \in Bytes
           /\ <<>> \in Bytes /\ p \o <<>> = p /\ <<>> \o p = p
BY ConcatProperties, ConcatEmptySeq, EmptySeq DEF Bytes

LEMMA Regrouped ==
    ASSUME NEW p \in Bytes, NEW q \in Bytes, NEW r \in Bytes
    PROVE  (p \o q) \o r = p \o (q \o r)
<1>1. p \in Seq(Nat) /\ q \in Seq(Nat) /\ r \in Seq(Nat)
  BY DEF Bytes
<1>2. QED
  BY ONLY <1>1, ConcatAssociative, SMTT(30)

(* The same under a name, to be cited where there are many sequences. *)
Grouped(p, q, r) == (p \o q) \o r = p \o (q \o r)

LEMMA Grouping ==
    ASSUME NEW p \in Bytes, NEW q \in Bytes, NEW r \in Bytes
    PROVE  Grouped(p, q, r)
BY Regrouped DEF Grouped

LEMMA CutInTwo ==
    ASSUME NEW q \in Bytes, NEW n \in 0 .. Len(q)
    PROVE  /\ First(q, n) \in Bytes /\ Rest(q, n) \in Bytes
           /\ q = First(q, n) \o Rest(q, n)
<1>1. First(q, n) \in Bytes /\ Rest(q, n) \in Bytes /\ Len(q) \in Nat
  BY Parts, Lengths DEF Bytes
<1>2. SubSeq(q, 1, n) \o SubSeq(q, n + 1, Len(q)) = SubSeq(q, 1, Len(q))
  <2>1. 1 \in 1 .. Len(q) + 1 /\ n \in 1 - 1 .. Len(q) /\ Len(q) \in n .. Len(q) /\ q \in Seq(Nat)
    BY <1>1 DEF Bytes
  <2>2. QED
    BY ONLY <2>1, ConcatAdjacentSubSeq
<1>3. SubSeq(q, 1, Len(q)) = q
  BY SubSeqFull DEF Bytes
<1>4. QED
  BY <1>1, <1>2, <1>3 DEF First, Rest

LEMMA Beginning ==
    ASSUME NEW p \in Bytes, NEW q \in Bytes, Begins(p, q)
    PROVE  First(q, Len(p)) = p
<1>1. PICK r \in Bytes : q = p \o r
  BY DEF Begins
<1>2. /\ Len(q) = Len(p) + Len(r) /\ Len(p) \in Nat /\ Len(r) \in Nat
      /\ \A k \in 1 .. Len(p) + Len(r) : q[k] = IF k <= Len(p) THEN p[k] ELSE r[k - Len(p)]
  BY <1>1, ConcatProperties, Lengths DEF Bytes
<1>3. /\ First(q, Len(p)) \in Bytes /\ Len(First(q, Len(p))) = Len(p)
      /\ \A k \in 1 .. Len(p) : First(q, Len(p))[k] = q[k]
  <2>1. Len(p) \in 0 .. Len(q)
    BY <1>2
  <2>2. First(q, Len(p)) \in Bytes /\ Len(First(q, Len(p))) = Len(p)
    BY <2>1, Parts DEF Bytes
  <2>3. \A k \in 1 .. Len(p) : First(q, Len(p))[k] = q[k]
    BY <1>2 DEF First, Bytes
  <2>4. QED
    BY <2>2, <2>3
<1>4. \A k \in 1 .. Len(p) : First(q, Len(p))[k] = p[k]
  BY <1>2, <1>3
<1>5. QED
  BY <1>3, <1>4, SeqEqual DEF Bytes

LEMMA BeginsOn ==
    ASSUME NEW p \in Bytes, NEW q \in Bytes, NEW r \in Bytes, Begins(p, q), Begins(q, r)
    PROVE  Begins(p, r)
<1>1. PICK a \in Bytes : q = p \o a
  BY DEF Begins
<1>2. PICK b \in Bytes : r = q \o b
  BY DEF Begins
<1>3. (p \o a) \o b = p \o (a \o b)
  BY Regrouped
<1>4. r = p \o (a \o b)
  BY ONLY <1>1, <1>2, <1>3
<1>5. a \o b \in Bytes
  BY Joins
<1>6. QED
  BY <1>4, <1>5 DEF Begins

(* Less at the end of what comes behind. *)
LEMMA BeginsBehind ==
    ASSUME NEW o \in Bytes, NEW p \in Bytes, NEW q \in Bytes, Begins(p, q)
    PROVE  Begins(o \o p, o \o q) /\ Begins(o, o \o p) /\ Begins(o, o)
<1>1. PICK a \in Bytes : q = p \o a
  BY DEF Begins
<1>2. o \o q = (o \o p) \o a
  <2>1. Grouped(o, p, a)
    BY Grouping
  <2>2. (o \o p) \o a = o \o (p \o a)
    BY ONLY <2>1 DEF Grouped
  <2>3. QED
    BY ONLY <1>1, <2>2
<1>3. o = o \o <<>> /\ <<>> \in Bytes
  BY Joins
<1>4. QED
  BY <1>2, <1>3 DEF Begins

-----------------------------------------------------------------------------
(* What has come to the side s, and what its peer has still to send.        *)
Ahead(s) == out[s] \o (Held(s, "stdout") \o chan[s])

Typed(s) == IF program[s].kind = "test" THEN <<>> ELSE stdin[s].bytes

Behind(s) == Held(s, "comm") \o Typed(s)

(* What reflectserver sends back. *)
Loop == Held(Server, "comm") \o chan[Server]

Alive == conn = "up" /\ ~ Ended(Client) /\ ~ Ended(Server)

(* Nothing is lost while both are there; afterwards nothing is put out of   *)
(* its order.                                                               *)
Straight ==
    \A s \in Side : /\ Begins(Ahead(Peer(s)), Source(s))
                    /\ Alive => Source(s) = Ahead(Peer(s)) \o Behind(s)

Around ==
    /\ Begins(Ahead(Client), Source(Client))
    /\ Alive => Source(Client) = Ahead(Client) \o (Loop \o Behind(Client))
    /\ out[Server] = <<>> /\ to[Server] = "comm"

Ordered == IF Reflected THEN Around ELSE Straight

OInv == IInv /\ Ordered

(* Which ways the programs copy. *)
LEMMA Ways ==
    ASSUME TypeOK
    PROVE  /\ Reflected =>
                /\ program[Server].kind = "copyfile"
                /\ DOMAIN program[Server].copies = {"comm"}
                /\ program[Server].copies["comm"] = "comm"
                /\ program[Client].kind \in {"copy2files", "test"}
           /\ ~ Reflected => \A s \in Side :
                /\ program[s].kind # "test"
                /\ "comm" \in DOMAIN program[s].copies => program[s].copies["comm"] = "stdout"
           /\ \A s \in Side : program[s].kind # "test" /\ "stdin" \in DOMAIN program[s].copies =>
                program[s].copies["stdin"] = "comm"
<1> USE DEF Side, Client, Server
<1>1. program \in Pairs
  BY DEF TypeOK
<1>2. /\ program[1] \in {client, client2, reflectclient}
      /\ program[2] \in {server, serverp, server2, serverp2, reflectserver}
      /\ Writes(program[2]) => Reads(program[1])
      /\ program[1] = reflectclient => Reflected
  BY <1>1, PairsAssumption DEF Peer, Reflected
<1>3. reflectserver.kind = "copyfile" /\ DOMAIN reflectserver.copies = {"comm"}
      /\ reflectserver.copies["comm"] = "comm"
  BY DEF reflectserver, copyfile
<1>4. client.kind = "copyfile" /\ DOMAIN client.copies = {"stdin"}
  BY DEF client, copyfile
<1>5. client2.kind = "copy2files" /\ client2.copies["comm"] = "stdout"
  BY DEF client2, copy2files
<1>6. reflectclient.kind = "test"
  BY DEF reflectclient
<1>7. \A p \in {server, serverp} : p.kind = "copyfile" /\ p.copies["comm"] = "stdout"
  BY DEF server, serverp, copyfile
<1>8. \A p \in {server2, serverp2} : p.kind = "copy2files" /\ p.copies["comm"] = "stdout"
  BY DEF server2, serverp2, copy2files
<1>9. ASSUME Reflected
      PROVE  /\ program[2].kind = "copyfile" /\ DOMAIN program[2].copies = {"comm"}
             /\ program[2].copies["comm"] = "comm"
             /\ program[1].kind \in {"copy2files", "test"}
  <2>1. program[2] = reflectserver
    BY <1>9 DEF Reflected
  <2>2. Writes(program[2])
    BY <1>3, <2>1 DEF Writes
  <2>3. program[1] # client
    BY <1>2, <1>4, <2>2 DEF Reads
  <2>4. QED
    BY <1>2, <1>3, <1>5, <1>6, <2>1, <2>3
<1>10. ASSUME ~ Reflected
       PROVE  /\ program[1].kind # "test" /\ program[2].kind # "test"
              /\ "comm" \in DOMAIN program[1].copies => program[1].copies["comm"] = "stdout"
              /\ program[2].copies["comm"] = "stdout"
  <2>1. program[1] \in {client, client2} /\ program[2] \in {server, serverp, server2, serverp2}
    BY <1>2, <1>10 DEF Reflected
  <2>2. QED
    BY <1>4, <1>5, <1>7, <1>8, <2>1
<1>11. \A s \in Side : program[s].kind # "test" /\ "stdin" \in DOMAIN program[s].copies =>
                program[s].copies["stdin"] = "comm"
  BY <1>1, Programs
<1>12. QED
  BY <1>9, <1>10, <1>11

LEMMA Places ==
    ASSUME TypeOK, NEW s \in Side
    PROVE  /\ out[s] \in Bytes /\ chan[s] \in Bytes /\ buf[s] \in Bytes /\ Typed(s) \in Bytes
           /\ Held(s, "stdout") \in Bytes /\ Held(s, "comm") \in Bytes
           /\ Ahead(s) \in Bytes /\ Behind(s) \in Bytes /\ Source(s) \in Bytes
<1>1. /\ out[s] \in Bytes /\ chan[s] \in Bytes /\ buf[s] \in Bytes /\ Typed(s) \in Bytes
      /\ Held(s, "stdout") \in Bytes /\ Held(s, "comm") \in Bytes
  BY Empty DEF TypeOK, Bytes, Typed, Held
<1>2. Held(s, "stdout") \o chan[s] \in Bytes
  BY <1>1, Joins
<1>3. Ahead(s) \in Bytes /\ Behind(s) \in Bytes
  BY <1>1, <1>2, Joins DEF Ahead, Behind
<1>4. bufsend \in Bytes
  <2>1. bufsend \in [1 .. BUFSIZE -> Nat]
    BY DEF bufsend
  <2>2. QED
    BY <2>1, SeqDef DEF Bytes
<1>5. given[s].bytes \in Bytes
  BY StdinsAssumption DEF TypeOK, Bytes
<1>6. QED
  BY <1>1, <1>3, <1>4, <1>5 DEF Source

(* Whoever has nothing in hand holds nothing. *)
LEMMA TakeCommParts ==
    ASSUME IInv, NEW s \in Side, TakeComm(s)
    PROVE  \E f, r \in Bytes : chan[s] = f \o r /\ buf'[s] = f /\ chan'[s] = r
<1> DEFINE n == Min(BLKSIZE, Len(chan[s]))
<1>1. chan[s] \in Bytes /\ Len(chan[s]) \in Nat
  BY Lengths DEF IInv, TypeOK, Bytes
<1>2. n \in 0 .. Len(chan[s])
  BY <1>1 DEF Min
<1>3. Take(s, "comm", First(chan[s], n)) /\ chan' = [chan EXCEPT ![s] = Rest(@, n)]
  BY DEF TakeComm
<1> HIDE DEF n
<1>4. buf'[s] = First(chan[s], n) /\ chan'[s] = Rest(chan[s], n)
  BY <1>3 DEF Take, IInv, TypeOK
<1>5. QED
  BY <1>1, <1>2, <1>4, CutInTwo

LEMMA TakeStdinParts ==
    ASSUME IInv, NEW s \in Side, TakeStdin(s)
    PROVE  /\ \E f, r \in Bytes : stdin[s].bytes = f \o r /\ buf'[s] = f /\ stdin'[s].bytes = r
           /\ stdin'[Peer(s)] = stdin[Peer(s)]
<1> DEFINE q == stdin[s].bytes
<1>1. PICK n \in 1 .. Min(BLKSIZE, Len(q)) :
        Take(s, "stdin", First(q, n)) /\ stdin' = [stdin EXCEPT ![s].bytes = Rest(@, n)]
  BY DEF TakeStdin
<1>2. q \in Bytes /\ Len(q) \in Nat
  BY Lengths DEF IInv, TypeOK, Bytes
<1>3. n \in 0 .. Len(q)
  BY <1>1, <1>2 DEF Min
<1>4. /\ buf'[s] = First(q, n) /\ stdin'[s].bytes = Rest(q, n)
      /\ stdin'[Peer(s)] = stdin[Peer(s)]
  BY <1>1, Both DEF Take, IInv, TypeOK
<1> HIDE DEF q
<1>5. q = First(q, n) \o Rest(q, n) /\ First(q, n) \in Bytes /\ Rest(q, n) \in Bytes
  BY <1>2, <1>3, CutInTwo
<1>6. QED
  BY <1>4, <1>5 DEF q

LEMMA WriteOutParts ==
    ASSUME IInv, NEW s \in Side, WriteOut(s)
    PROVE  \E f, r \in Bytes : buf[s] = f \o r /\ buf'[s] = r /\ out'[s] = out[s] \o f
<1>1. PICK n \in 1 .. Len(buf[s]) :
        /\ out' = [out EXCEPT ![s] = @ \o First(buf[s], n)]
        /\ buf' = [buf EXCEPT ![s] = Rest(@, n)]
  BY DEF WriteOut
<1>2. buf[s] \in Bytes /\ Len(buf[s]) \in Nat
  BY Lengths DEF IInv, TypeOK, Bytes
<1>3. n \in 0 .. Len(buf[s])
  BY <1>2
<1>4. buf'[s] = Rest(buf[s], n) /\ out'[s] = out[s] \o First(buf[s], n)
  BY <1>1 DEF IInv, TypeOK
<1>5. QED
  BY <1>2, <1>3, <1>4, CutInTwo

LEMMA WriteCommParts ==
    ASSUME IInv, NEW s \in Side, WriteComm(s)
    PROVE  \E f, r \in Bytes : /\ buf[s] = f \o r /\ buf'[s] = r
                               /\ chan'[Peer(s)] = chan[Peer(s)] \o f
<1>1. PICK n \in 1 .. Min(Len(buf[s]), Room(s)) :
        /\ chan' = [chan EXCEPT ![Peer(s)] = @ \o First(buf[s], n)]
        /\ buf' = [buf EXCEPT ![s] = Rest(@, n)]
  BY DEF WriteComm
<1>2. /\ buf[s] \in Bytes /\ Len(buf[s]) \in Nat /\ Len(chan[Peer(s)]) \in Nat
  BY Both, Lengths DEF IInv, TypeOK, Bytes
<1>3. n \in 0 .. Len(buf[s])
  BY <1>1, <1>2 DEF Min, Room
<1>4. buf'[s] = Rest(buf[s], n) /\ chan'[Peer(s)] = chan[Peer(s)] \o First(buf[s], n)
  BY <1>1, Both DEF IInv, TypeOK
<1>5. QED
  BY <1>2, <1>3, <1>4, CutInTwo

LEMMA ReceiveParts ==
    ASSUME IInv, NEW s \in Side, Receive(s)
    PROVE  \E f, r \in Bytes : chan[s] = f \o r /\ chan'[s] = r /\ out'[s] = out[s] \o f
<1> DEFINE n == Min(BUFSIZE - Len(out[s]), Len(chan[s]))
<1>1. chan[s] \in Bytes /\ Len(chan[s]) \in Nat /\ Len(out[s]) \in Nat
  BY Lengths DEF IInv, TypeOK, Bytes
<1>2. n \in 0 .. Len(chan[s])
  BY <1>1 DEF Min, Receive, Reading
<1>3. /\ out' = [out EXCEPT ![s] = @ \o First(chan[s], n)]
      /\ chan' = [chan EXCEPT ![s] = Rest(@, n)]
  BY DEF Receive
<1> HIDE DEF n
<1>4. chan'[s] = Rest(chan[s], n) /\ out'[s] = out[s] \o First(chan[s], n)
  BY <1>3 DEF IInv, TypeOK
<1>5. QED
  BY <1>1, <1>2, <1>4, CutInTwo

(* A step that moves bytes on inside what has come, or inside what is to    *)
(* come.                                                                    *)
LEMMA Quiet ==
    ASSUME OInv, program' = program, given' = given, Alive' => Alive,
           \A u \in Side : u = Client \/ ~ Reflected =>
               Ahead(u)' = Ahead(u) /\ Behind(u)' = Behind(u),
           Reflected => Loop' = Loop /\ out'[Server] = out[Server] /\ to'[Server] = "comm"
    PROVE  Ordered'
<1>1. Reflected' = Reflected /\ \A u \in Side : Source(u)' = Source(u)
  BY DEF Reflected, Source
<1>2. CASE Reflected
  <2>1. Around
    BY <1>2 DEF OInv, Ordered
  <2>2. Ahead(Client)' = Ahead(Client) /\ Behind(Client)' = Behind(Client) /\ Loop' = Loop
    BY <1>2 DEF Side, Client
  <2>3. Source(Client)' = Source(Client)
    BY <1>1 DEF Side, Client
  <2>4. Around'
    BY <1>2, <2>1, <2>2, <2>3 DEF Around
  <2>5. QED
    BY <1>1, <1>2, <2>4 DEF Ordered
<1>3. CASE ~ Reflected
  <2>1. Straight
    BY <1>3 DEF OInv, Ordered
  <2>2. \A u \in Side : Ahead(u)' = Ahead(u) /\ Behind(u)' = Behind(u)
    BY <1>3
  <2>3. ASSUME NEW u \in Side
        PROVE  /\ Begins(Ahead(Peer(u))', Source(u)')
               /\ Alive' => Source(u)' = Ahead(Peer(u))' \o Behind(u)'
    <3>1. Peer(u) \in Side
      BY Both
    <3>2. /\ Ahead(Peer(u))' = Ahead(Peer(u)) /\ Behind(u)' = Behind(u)
          /\ Source(u)' = Source(u)
      BY <1>1, <2>2, <3>1
    <3>3. /\ Begins(Ahead(Peer(u)), Source(u))
          /\ Alive => Source(u) = Ahead(Peer(u)) \o Behind(u)
      BY <2>1 DEF Straight
    <3>4. QED
      BY ONLY <3>2, <3>3, Alive' => Alive
  <2>4. Straight'
    BY <2>3 DEF Straight
  <2>5. QED
    BY <1>1, <1>3, <2>4 DEF Ordered
<1>4. QED
  BY <1>2, <1>3

LEMMA PlacesThen == (TypeOK => \A s \in Side : Ahead(s) \in Bytes)'
<1>1. TypeOK => \A s \in Side : Ahead(s) \in Bytes
  BY Places
<1>2. QED
  BY <1>1, PTL

(* A step that loses bytes at the end of what has come, when one has ended.  *)
LEMMA Losing ==
    ASSUME OInv, TypeOK', program' = program, given' = given, out' = out, to' = to, ~ Alive',
           \A u \in Side : Begins(Ahead(u)', Ahead(u))
    PROVE  Ordered'
<1>1. Reflected' = Reflected /\ \A u \in Side : Source(u)' = Source(u)
  BY DEF Reflected, Source
<1>2. \A u \in Side : Ahead(u) \in Bytes /\ Source(u) \in Bytes
  BY Places DEF OInv, IInv
<1>3. \A u \in Side : Ahead(u)' \in Bytes
  BY PlacesThen
<1>4. ASSUME NEW u \in Side, NEW v \in Side, Begins(Ahead(u), Source(v))
      PROVE  Begins(Ahead(u)', Source(v)')
  <2>1. PICK p \in Bytes, q \in Bytes, r \in Bytes :
          p = Ahead(u)' /\ q = Ahead(u) /\ r = Source(v)
    BY <1>2, <1>3
  <2>2. Begins(p, q) /\ Begins(q, r)
    BY <1>4, <2>1
  <2>3. Begins(p, r)
    BY <2>2, BeginsOn
  <2>4. QED
    BY <1>1, <2>1, <2>3
<1>5. CASE Reflected
  <2>1. Around
    BY <1>5 DEF OInv, Ordered
  <2>2. Begins(Ahead(Client)', Source(Client)')
    BY <1>4, <2>1 DEF Around, Side, Client
  <2>3. Around'
    BY <2>1, <2>2 DEF Around
  <2>4. QED
    BY <1>1, <1>5, <2>3 DEF Ordered
<1>6. CASE ~ Reflected
  <2>1. Straight
    BY <1>6 DEF OInv, Ordered
  <2>2. Straight'
    BY <1>4, <2>1, Both DEF Straight
  <2>3. QED
    BY <1>1, <1>6, <2>2 DEF Ordered
<1>7. QED
  BY <1>5, <1>6

LEMMA LessAhead ==
    ASSUME TypeOK, TypeOK', NEW u \in Side, out'[u] = out[u],
           \/ Held(u, "stdout")' = Held(u, "stdout") /\ Begins(chan'[u], chan[u])
           \/ Held(u, "stdout")' = <<>> /\ chan'[u] = <<>>
    PROVE  Begins(Ahead(u)', Ahead(u))
<1>1. PICK o \in Bytes, h \in Bytes, q \in Bytes, r \in Bytes :
        o = out[u] /\ h = Held(u, "stdout") /\ q = chan[u] /\ r = chan'[u]
  <2>1. chan'[u] \in Bytes
    BY DEF TypeOK, Bytes
  <2>2. QED
    BY <2>1, Places
<1>2. Ahead(u) = o \o (h \o q)
  BY <1>1 DEF Ahead
<1>3. CASE Held(u, "stdout")' = Held(u, "stdout") /\ Begins(chan'[u], chan[u])
  <2>1. Begins(r, q)
    BY <1>1, <1>3
  <2>2. PICK a \in Bytes, b \in Bytes : a = h \o r /\ b = h \o q
    BY Joins
  <2>3. Begins(a, b)
    BY <2>1, <2>2, BeginsBehind
  <2>4. Begins(o \o a, o \o b)
    BY <2>3, BeginsBehind
  <2>5. Ahead(u)' = o \o a
    BY <1>1, <1>3, <2>2 DEF Ahead
  <2>6. QED
    BY <1>2, <2>2, <2>4, <2>5
<1>4. CASE Held(u, "stdout")' = <<>> /\ chan'[u] = <<>>
  <2>1. PICK b \in Bytes : b = h \o q
    BY Joins
  <2>2. Ahead(u)' = o
    BY <1>1, <1>4, Joins DEF Ahead
  <2>3. Begins(o, o \o b)
    BY Joins, BeginsBehind DEF Begins
  <2>4. QED
    BY <1>2, <2>1, <2>2, <2>3
<1>5. QED
  BY <1>3, <1>4

LEMMA PrefixBegins ==
    ASSUME NEW q \in Bytes, NEW p \in Prefixes(q) \cup {q}
    PROVE  Begins(p, q)
<1>1. CASE p = q
  BY <1>1, Joins DEF Begins
<1>2. CASE p \in Prefixes(q)
  <2>1. PICK n \in 0 .. Len(q) : p = First(q, n)
    BY <1>2 DEF Prefixes
  <2>2. QED
    BY <2>1, CutInTwo DEF Begins
<1>3. QED
  BY <1>1, <1>2

LEMMA EndsOrdered ==
    ASSUME OInv, TypeOK', NEW s \in Side, NEW how \in Endings, Leave(s, how)
    PROVE  Ordered'
<1> DEFINE t == Peer(s)
<1>1. TypeOK /\ chan \in [Side -> Bytes]
  BY DEF OInv, IInv, TypeOK, Bytes
<1>2. /\ Ended(s)' /\ buf'[s] = <<>> /\ buf'[t] = buf[t] /\ chan'[s] = <<>>
  BY <1>1, Leaving
<1>3. UNCHANGED <<program, given, stdin, conn, to, out>>
  BY DEF Leave, fixed
<1>4. Begins(chan'[t], chan[t])
  <2>1. PICK left \in Prefixes(chan[t]) \cup {chan[t]} :
          chan' = [chan EXCEPT ![s] = <<>>, ![t] = left]
    BY DEF Leave
  <2>2. chan'[t] = left
    BY <1>1, <2>1, Both
  <2>3. chan[t] \in Bytes
    BY <1>1, Both
  <2>4. QED
    BY <2>1, <2>2, <2>3, PrefixBegins
<1>5. Begins(Ahead(s)', Ahead(s))
  <2>1. Held(s, "stdout")' = <<>>
    BY <1>2 DEF Held
  <2>2. QED
    BY <1>1, <1>2, <1>3, <2>1, LessAhead
<1>6. Begins(Ahead(t)', Ahead(t))
  <2>1. Held(t, "stdout")' = Held(t, "stdout") /\ out'[t] = out[t]
    BY <1>2, <1>3 DEF Held
  <2>2. t \in Side
    BY Both
  <2>3. QED
    BY <1>1, <1>4, <2>1, <2>2, LessAhead
<1>7. ~ Alive'
  BY <1>2, Both DEF Alive
<1>8. \A u \in Side : Begins(Ahead(u)', Ahead(u))
  BY <1>5, <1>6, Both
<1>9. QED
  BY <1>3, <1>7, <1>8, Losing

LEMMA WriteLostOrdered ==
    ASSUME OInv, TypeOK', NEW s \in Side, WriteLost(s)
    PROVE  Ordered'
<1> DEFINE t == Peer(s)
<1>1. TypeOK /\ chan \in [Side -> Bytes] /\ buf \in [Side -> Seq(Nat)]
  BY DEF OInv, IInv, TypeOK, Bytes
<1>2. /\ to[s] = "comm" /\ Ended(t) /\ buf' = [buf EXCEPT ![s] = <<>>]
      /\ UNCHANGED <<program, given, stdin, pc, conn, to, out>>
  BY DEF WriteLost, Writing, fixed
<1>3. PICK left \in Prefixes(chan[s]) : chan' = [chan EXCEPT ![s] = left]
  BY DEF WriteLost
<1>4. /\ buf'[t] = buf[t] /\ chan'[t] = chan[t] /\ chan'[s] = left /\ chan[s] \in Bytes
      /\ chan[t] \in Bytes
  BY <1>1, <1>2, <1>3, Both
<1>5. Begins(Ahead(s)', Ahead(s))
  <2>1. Held(s, "stdout") = <<>> /\ Held(s, "stdout")' = <<>>
    BY <1>2 DEF Held
  <2>2. Begins(chan'[s], chan[s])
    BY <1>3, <1>4, PrefixBegins
  <2>3. QED
    BY <1>1, <1>2, <2>1, <2>2, LessAhead
<1>6. Begins(Ahead(t)', Ahead(t))
  <2>1. Held(t, "stdout")' = Held(t, "stdout") /\ out'[t] = out[t]
    BY <1>2, <1>4 DEF Held
  <2>2. t \in Side /\ Begins(chan'[t], chan[t])
    BY <1>4, Both, Joins DEF Begins
  <2>3. QED
    BY <1>1, <2>1, <2>2, LessAhead
<1>7. ~ Alive'
  BY <1>2, Both DEF Alive, Ended
<1>8. \A u \in Side : Begins(Ahead(u)', Ahead(u))
  BY <1>5, <1>6, Both
<1>9. QED
  BY <1>2, <1>7, <1>8, Losing

(* Accept, select and an interrupted connect move no byte. *)
LEMMA StillOrdered ==
    ASSUME OInv, ConnectInterrupted \/ Accept \/ \E s \in Side : Select(s)
    PROVE  Ordered'
<1>1. UNCHANGED <<program, given, stdin, conn, chan, buf, to, out>>
  BY DEF ConnectInterrupted, Accept, Select, fixed
<1>2. Alive' => Alive
  BY <1>1 DEF ConnectInterrupted, Accept, Select, Alive, Ended, Endings, OInv, IInv, TypeOK,
              Side, Client, Server
<1>3. \A u \in Side : Ahead(u)' = Ahead(u) /\ Behind(u)' = Behind(u)
  BY <1>1 DEF Ahead, Behind, Typed, Held
<1>4. Loop' = Loop
  BY <1>1 DEF Loop, Held
<1>5. Reflected => to'[Server] = "comm"
  BY <1>1 DEF OInv, Ordered, Around
<1>6. QED
  BY <1>1, <1>2, <1>3, <1>4, <1>5, Quiet

LEMMA TakeCommOrdered ==
    ASSUME OInv, NEW s \in Side, TakeComm(s)
    PROVE  Ordered'
<1> DEFINE t == Peer(s)
<1>1. TypeOK
  BY DEF OInv, IInv
<1>2. /\ buf[s] = <<>> /\ program' = program /\ given' = given /\ stdin' = stdin /\ pc' = pc
      /\ conn' = conn /\ out' = out
      /\ to'[s] = program[s].copies["comm"] /\ to'[t] = to[t]
      /\ buf'[t] = buf[t] /\ chan'[t] = chan[t] /\ "comm" \in DOMAIN program[s].copies
  BY TakeCommSteps DEF OInv
<1>3. PICK f \in Bytes, r \in Bytes : chan[s] = f \o r /\ buf'[s] = f /\ chan'[s] = r
  BY TakeCommParts DEF OInv
<1>4. Ahead(t)' = Ahead(t) /\ Behind(t)' = Behind(t)
  BY <1>2 DEF Ahead, Behind, Typed, Held
<1>5. Held(s, "stdout") = <<>> /\ Held(s, "comm") = <<>>
  BY <1>2 DEF Held
<1>6. <<>> \o (f \o r) = f \o r /\ <<>> \o r = r
  BY Joins
<1>7. CASE to'[s] = "stdout"
  <2>1. Held(s, "stdout")' = f /\ Held(s, "comm")' = <<>>
    BY <1>3, <1>7 DEF Held
  <2>2. Ahead(s)' = Ahead(s)
    BY <1>2, <1>3, <1>5, <1>6, <2>1 DEF Ahead
  <2>3. Behind(s)' = Behind(s)
    BY <1>2, <1>5, <2>1 DEF Behind, Typed
  <2>4. \A u \in Side : Ahead(u)' = Ahead(u) /\ Behind(u)' = Behind(u)
    BY <1>4, <2>2, <2>3, Both
  <2>5. ASSUME Reflected PROVE Loop' = Loop /\ to'[Server] = "comm"
    <3>1. s # Server
      BY <1>1, <1>2, <1>7, <2>5, Ways
    <3>2. t = Server
      BY <3>1, Both
    <3>3. to[Server] = "comm"
      BY <2>5 DEF OInv, Ordered, Around
    <3>4. QED
      BY <1>2, <3>2, <3>3 DEF Loop, Held
  <2>6. QED
    BY <1>2, <2>4, <2>5, Quiet DEF Alive, Ended
<1>8. CASE to'[s] = "comm"
  <2>1. Reflected /\ s = Server
    <3>1. Reflected
      BY <1>1, <1>2, <1>8, Ways
    <3>2. program[Client].kind = "copy2files" => program[Client].copies["comm"] = "stdout"
      BY <1>1, Programs, Both DEF TypeOK
    <3>3. program[s].kind # "test"
      BY DEF TakeComm
    <3>4. QED
      BY <1>1, <1>2, <1>8, <3>1, <3>2, <3>3, Ways, Both
  <2>2. t = Client
    BY <2>1, Both
  <2>3. Loop' = Loop
    <3>1. Held(s, "comm")' = f
      BY <1>3, <1>8 DEF Held
    <3>2. Held(s, "comm")' \o chan'[s] = Held(s, "comm") \o chan[s]
      BY <1>3, <1>5, <1>6, <3>1
    <3>3. QED
      BY <2>1, <3>2 DEF Loop, Server
  <2>4. \A u \in Side : u = Client \/ ~ Reflected => Ahead(u)' = Ahead(u) /\ Behind(u)' = Behind(u)
    BY <1>4, <2>1, <2>2
  <2>5. QED
    BY <1>2, <1>8, <2>1, <2>3, <2>4, Quiet DEF Alive, Ended
<1>9. to'[s] \in {"comm", "stdout"}
  BY <1>1, <1>2, TypeCorrect DEF Next, Step, TypeOK
<1>10. QED
  BY <1>7, <1>8, <1>9

LEMMA TakeStdinOrdered ==
    ASSUME OInv, NEW s \in Side, TakeStdin(s)
    PROVE  Ordered'
<1> DEFINE t == Peer(s)
<1>1. TypeOK
  BY DEF OInv, IInv
<1>2. /\ buf[s] = <<>> /\ program[s].kind # "test"
      /\ program' = program /\ given' = given /\ pc' = pc
      /\ conn' = conn /\ out' = out /\ chan' = chan
      /\ to'[s] = program[s].copies["stdin"] /\ to'[t] = to[t]
      /\ buf'[t] = buf[t] /\ "stdin" \in DOMAIN program[s].copies
  BY TakeStdinSteps DEF OInv
<1>3. /\ \E f, r \in Bytes : stdin[s].bytes = f \o r /\ buf'[s] = f /\ stdin'[s].bytes = r
      /\ stdin'[t] = stdin[t]
  BY TakeStdinParts DEF OInv
<1>4. PICK f \in Bytes, r \in Bytes : stdin[s].bytes = f \o r /\ buf'[s] = f /\ stdin'[s].bytes = r
  BY <1>3
<1>5. Ahead(t)' = Ahead(t) /\ Behind(t)' = Behind(t)
  BY <1>2, <1>3 DEF Ahead, Behind, Typed, Held
<1>6. to'[s] = "comm"
  BY <1>1, <1>2, Ways
<1>7. Held(s, "stdout") = <<>> /\ Held(s, "comm") = <<>> /\ Held(s, "stdout")' = <<>> /\ Held(s, "comm")' = f
  BY <1>2, <1>4, <1>6 DEF Held
<1>8. Ahead(s)' = Ahead(s)
  BY <1>2, <1>7 DEF Ahead
<1>9. Behind(s)' = Behind(s)
  <2>1. Typed(s) = f \o r /\ Typed(s)' = r /\ <<>> \o (f \o r) = f \o r
    BY <1>2, <1>4, Joins DEF Typed
  <2>2. QED
    BY <1>7, <2>1 DEF Behind
<1>10. \A u \in Side : Ahead(u)' = Ahead(u) /\ Behind(u)' = Behind(u)
  BY <1>5, <1>8, <1>9, Both
<1>11. ASSUME Reflected PROVE Loop' = Loop /\ to'[Server] = "comm"
  <2>1. t = Server
    BY <1>1, <1>2, <1>11, Ways, Both
  <2>2. to[Server] = "comm"
    BY <1>11 DEF OInv, Ordered, Around
  <2>3. QED
    BY <1>2, <2>1, <2>2 DEF Loop, Held
<1>12. QED
  BY <1>2, <1>10, <1>11, Quiet DEF Alive, Ended

LEMMA WriteOutOrdered ==
    ASSUME OInv, NEW s \in Side, WriteOut(s)
    PROVE  Ordered'
<1> DEFINE t == Peer(s)
<1>1. TypeOK
  BY DEF OInv, IInv
<1>2. /\ to[s] = "stdout" /\ to' = to /\ chan' = chan
      /\ program' = program /\ given' = given /\ stdin' = stdin /\ pc' = pc /\ conn' = conn
      /\ buf'[t] = buf[t] /\ out'[t] = out[t]
  BY WriteOutSteps DEF OInv
<1>3. PICK f \in Bytes, r \in Bytes : buf[s] = f \o r /\ buf'[s] = r /\ out'[s] = out[s] \o f
  BY WriteOutParts DEF OInv
<1>4. Ahead(t)' = Ahead(t) /\ Behind(t)' = Behind(t)
  BY <1>2 DEF Ahead, Behind, Typed, Held
<1>5. /\ Held(s, "stdout") = f \o r /\ Held(s, "stdout")' = r
      /\ Held(s, "comm") = <<>> /\ Held(s, "comm")' = <<>>
  BY <1>2, <1>3 DEF Held
<1>6. Ahead(s)' = Ahead(s)
  <2>1. PICK o \in Bytes, c \in Bytes : o = out[s] /\ c = chan[s]
    BY <1>1, Places
  <2>2. o \o ((f \o r) \o c) = (o \o f) \o (r \o c)
    <3>1. PICK y \in Bytes : y = r \o c
      BY Joins
    <3>2. Grouped(f, r, c) /\ Grouped(o, f, y)
      BY Grouping
    <3>3. QED
      BY ONLY <3>1, <3>2 DEF Grouped
  <2>3. Ahead(s) = o \o ((f \o r) \o c)
    BY <1>5, <2>1 DEF Ahead
  <2>4. Ahead(s)' = (o \o f) \o (r \o c)
    BY <1>2, <1>3, <1>5, <2>1 DEF Ahead
  <2>5. QED
    BY ONLY <2>2, <2>3, <2>4
<1>7. Behind(s)' = Behind(s)
  BY <1>2, <1>5 DEF Behind, Typed
<1>8. \A u \in Side : Ahead(u)' = Ahead(u) /\ Behind(u)' = Behind(u)
  BY <1>4, <1>6, <1>7, Both
<1>9. ASSUME Reflected PROVE Loop' = Loop /\ out'[Server] = out[Server] /\ to'[Server] = "comm"
  <2>1. to[Server] = "comm"
    BY <1>9 DEF OInv, Ordered, Around
  <2>2. t = Server
    BY <1>2, <2>1, Both
  <2>3. QED
    BY <1>2, <2>1, <2>2 DEF Loop, Held
<1>10. QED
  BY <1>2, <1>8, <1>9, Quiet DEF Alive, Ended

LEMMA ReceiveOrdered ==
    ASSUME OInv, NEW s \in Side, Receive(s)
    PROVE  Ordered'
<1> DEFINE t == Peer(s)
<1>1. TypeOK
  BY DEF OInv, IInv
<1>2. /\ buf[s] = <<>> /\ program[s].kind = "test" /\ to' = to /\ buf' = buf
      /\ program' = program /\ given' = given /\ stdin' = stdin /\ pc' = pc /\ conn' = conn
      /\ out'[t] = out[t] /\ chan'[t] = chan[t]
  BY ReceiveSteps DEF OInv
<1>3. PICK f \in Bytes, r \in Bytes : chan[s] = f \o r /\ chan'[s] = r /\ out'[s] = out[s] \o f
  BY ReceiveParts DEF OInv
<1>4. s = Client /\ t = Server
  BY <1>1, <1>2, Programs, Both DEF TypeOK
<1>5. Ahead(t)' = Ahead(t) /\ Behind(t)' = Behind(t)
  BY <1>2 DEF Ahead, Behind, Typed, Held
<1>6. Held(s, "stdout") = <<>> /\ Held(s, "stdout")' = <<>> /\ Held(s, "comm")' = Held(s, "comm")
  BY <1>2 DEF Held
<1>7. Ahead(s)' = Ahead(s)
  <2>1. PICK o \in Bytes : o = out[s]
    BY <1>1, Places
  <2>2. (o \o f) \o r = o \o (f \o r) /\ <<>> \o (f \o r) = f \o r /\ <<>> \o r = r
    BY Regrouped, Joins
  <2>3. QED
    BY <1>3, <1>6, <2>1, <2>2 DEF Ahead
<1>8. Behind(s)' = Behind(s)
  BY <1>2, <1>6 DEF Behind, Typed
<1>9. \A u \in Side : Ahead(u)' = Ahead(u) /\ Behind(u)' = Behind(u)
  BY <1>5, <1>7, <1>8, Both
<1>10. ASSUME Reflected PROVE Loop' = Loop /\ out'[Server] = out[Server] /\ to'[Server] = "comm"
  <2>1. to[Server] = "comm"
    BY <1>10 DEF OInv, Ordered, Around
  <2>2. QED
    BY <1>2, <1>4, <2>1 DEF Loop, Held
<1>11. QED
  BY <1>2, <1>9, <1>10, Quiet DEF Alive, Ended

(* What is written goes from the front of what is held to the end of what   *)
(* is in the connection: the bytes stay in their order.  The equations have *)
(* names, so that a lemma of so many sequences can be cited.                *)
FarSame(o, p, f, r, t) == (o \o p) \o ((f \o r) \o t) = (o \o (p \o f)) \o (r \o t)

SentSame(o, h, c, f, r, t) ==
    (o \o (h \o c)) \o ((f \o r) \o t) = (o \o (h \o (c \o f))) \o (r \o t)

BackSame(o, h, c, f, r, x, t) ==
    (o \o (h \o c)) \o (((f \o r) \o x) \o t) = (o \o (h \o (c \o f))) \o ((r \o x) \o t)

LEMMA Far ==
    ASSUME NEW o \in Bytes, NEW p \in Bytes, NEW f \in Bytes, NEW r \in Bytes, NEW t \in Bytes
    PROVE  FarSame(o, p, f, r, t)
<1>1. (o \o p) \o f = o \o (p \o f)
  <2>1. Grouped(o, p, f)
    BY Grouping
  <2>2. QED
    BY ONLY <2>1 DEF Grouped
<1>2. PICK s \in Bytes : s = o \o p
  BY Joins
<1>3. PICK u \in Bytes : u = r \o t
  BY Joins
<1>4. (f \o r) \o t = f \o (r \o t)
  <2>1. Grouped(f, r, t)
    BY Grouping
  <2>2. QED
    BY ONLY <2>1 DEF Grouped
<1>5. s \o (f \o u) = (s \o f) \o u
  <2>1. Grouped(s, f, u)
    BY Grouping
  <2>2. QED
    BY ONLY <2>1 DEF Grouped
<1>6. (o \o p) \o ((f \o r) \o t) = (o \o (p \o f)) \o (r \o t)
  BY ONLY <1>1, <1>2, <1>3, <1>4, <1>5
<1>7. QED
  BY ONLY <1>6 DEF FarSame

LEMMA SentOn ==
    ASSUME NEW o \in Bytes, NEW h \in Bytes, NEW c \in Bytes, NEW f \in Bytes, NEW r \in Bytes,
           NEW t \in Bytes
    PROVE  SentSame(o, h, c, f, r, t)
<1>1. PICK p \in Bytes : p = h \o c
  BY Joins
<1>2. (h \o c) \o f = h \o (c \o f)
  <2>1. Grouped(h, c, f)
    BY Grouping
  <2>2. QED
    BY ONLY <2>1 DEF Grouped
<1>3. FarSame(o, p, f, r, t)
  BY Far
<1>4. (o \o p) \o ((f \o r) \o t) = (o \o (p \o f)) \o (r \o t)
  BY ONLY <1>3 DEF FarSame
<1>5. (o \o (h \o c)) \o ((f \o r) \o t) = (o \o (h \o (c \o f))) \o (r \o t)
  BY ONLY <1>1, <1>2, <1>4
<1>6. QED
  BY ONLY <1>5 DEF SentSame

LEMMA SentBack ==
    ASSUME NEW o \in Bytes, NEW h \in Bytes, NEW c \in Bytes, NEW f \in Bytes, NEW r \in Bytes,
           NEW x \in Bytes, NEW t \in Bytes
    PROVE  BackSame(o, h, c, f, r, x, t)
<1>1. PICK y \in Bytes : y = x \o t
  BY Joins
<1>2. PICK z \in Bytes : z = f \o r
  BY Joins
<1>3. (z \o x) \o t = z \o (x \o t)
  <2>1. Grouped(z, x, t)
    BY Grouping
  <2>2. QED
    BY ONLY <2>1 DEF Grouped
<1>4. (r \o x) \o t = r \o (x \o t)
  <2>1. Grouped(r, x, t)
    BY Grouping
  <2>2. QED
    BY ONLY <2>1 DEF Grouped
<1>5. SentSame(o, h, c, f, r, y)
  BY SentOn
<1>6. (o \o (h \o c)) \o ((f \o r) \o y) = (o \o (h \o (c \o f))) \o (r \o y)
  BY ONLY <1>5 DEF SentSame
<1>7. (o \o (h \o c)) \o (((f \o r) \o x) \o t) = (o \o (h \o (c \o f))) \o ((r \o x) \o t)
  BY ONLY <1>1, <1>2, <1>3, <1>4, <1>6
<1>8. QED
  BY ONLY <1>7 DEF BackSame

LEMMA WriteCommOrdered ==
    ASSUME OInv, TypeOK', NEW s \in Side, WriteComm(s)
    PROVE  Ordered'
<1> DEFINE t == Peer(s)
<1>1. TypeOK /\ t \in Side /\ Peer(t) = s /\ \A u \in Side : u = s \/ u = t
  BY Both DEF OInv, IInv
<1>2. /\ to[s] = "comm" /\ to' = to /\ out' = out /\ stdin' = stdin
      /\ program' = program /\ given' = given /\ pc' = pc /\ conn' = conn
      /\ buf'[t] = buf[t] /\ chan'[s] = chan[s]
  BY WriteCommSteps DEF OInv
<1>3. Alive
  <2>1. pc[s] = "relay" /\ conn = "up" /\ ~ Ended(t)
    BY DEF WriteComm, Writing
  <2>2. ~ Ended(s)
    BY <2>1 DEF Ended, Endings
  <2>3. QED
    BY <2>1, <2>2, Both DEF Alive
<1>4. PICK f \in Bytes, r \in Bytes : buf[s] = f \o r /\ buf'[s] = r /\ chan'[t] = chan[t] \o f
  BY WriteCommParts DEF OInv
<1>5. Reflected' = Reflected /\ \A u \in Side : Source(u)' = Source(u) /\ Typed(u)' = Typed(u)
  BY <1>2 DEF Reflected, Source, Typed
<1>6. /\ Held(s, "comm") = f \o r /\ Held(s, "comm")' = r
      /\ Held(s, "stdout")' = Held(s, "stdout")
      /\ \A d : Held(t, d)' = Held(t, d)
  BY <1>2, <1>4 DEF Held
<1>7. Ahead(s)' = Ahead(s)
  BY <1>2, <1>6 DEF Ahead
<1>8. PICK o \in Bytes, h \in Bytes, c \in Bytes, e \in Bytes :
        o = out[t] /\ h = Held(t, "stdout") /\ c = chan[t] /\ e = Typed(s)
  BY <1>1, Places
<1>9. /\ Ahead(t) = o \o (h \o c) /\ Ahead(t)' = o \o (h \o (c \o f))
      /\ Behind(s) = (f \o r) \o e /\ Behind(s)' = r \o e
      /\ Behind(t)' = Behind(t)
  BY <1>1, <1>2, <1>4, <1>5, <1>6, <1>8 DEF Ahead, Behind
<1>10. CASE ~ Reflected
  <2>1. Straight
    BY <1>10 DEF OInv, Ordered
  <2>2. (o \o (h \o c)) \o ((f \o r) \o e) = (o \o (h \o (c \o f))) \o (r \o e)
    <3>1. SentSame(o, h, c, f, r, e)
      BY SentOn
    <3>2. QED
      BY ONLY <3>1 DEF SentSame
  <2>3. Source(s)' = Ahead(t)' \o Behind(s)'
    BY <1>3, <1>5, <1>9, <2>1, <2>2 DEF Straight
  <2>4. Source(t)' = Ahead(s)' \o Behind(t)'
    BY <1>1, <1>3, <1>5, <1>7, <1>9, <2>1 DEF Straight
  <2>5. Behind(s)' \in Bytes /\ Behind(t)' \in Bytes
    <3>1. Behind(t) \in Bytes
      BY <1>1, Places
    <3>2. QED
      BY <1>9, <3>1, Joins
  <2>6. Begins(Ahead(t)', Source(s)') /\ Begins(Ahead(s)', Source(t)')
    BY <2>3, <2>4, <2>5 DEF Begins
  <2>7. Straight'
    BY <1>1, <2>3, <2>4, <2>6 DEF Straight
  <2>8. QED
    BY <1>5, <1>10, <2>7 DEF Ordered
<1>11. CASE Reflected
  <2>1. Around
    BY <1>11 DEF OInv, Ordered
  <2>2. CASE s = Client
    <3>1. t = Server /\ Server \in Side /\ Client \in Side
      BY <2>2, Both
    <3>2. PICK a \in Bytes, k \in Bytes : a = Ahead(Client) /\ k = Held(Server, "comm")
      BY <1>1, <3>1, Places
    <3>3. Loop = k \o c /\ Loop' = k \o (c \o f)
      BY <1>4, <1>6, <1>8, <3>1, <3>2 DEF Loop, Server
    <3>4. (k \o c) \o ((f \o r) \o e) = (k \o (c \o f)) \o (r \o e)
      <4>1. FarSame(k, c, f, r, e)
        BY Far
      <4>2. QED
        BY ONLY <4>1 DEF FarSame
    <3>5. Ahead(Client)' = a /\ Behind(Client) = (f \o r) \o e /\ Behind(Client)' = r \o e
      BY <1>7, <1>9, <2>2, <3>2 DEF Client
    <3>6. Source(Client) = a \o ((k \o c) \o ((f \o r) \o e))
      BY <1>3, <2>1, <3>2, <3>3, <3>5 DEF Around
    <3>7. Source(Client)' = a \o ((k \o (c \o f)) \o (r \o e))
      BY <1>5, <3>1, <3>4, <3>6 DEF Client
    <3>8. (k \o (c \o f)) \o (r \o e) \in Bytes
      BY Joins
    <3>9. Begins(Ahead(Client)', Source(Client)')
      BY <3>5, <3>7, <3>8 DEF Begins
    <3>10. Around'
      BY <1>2, <2>1, <3>3, <3>5, <3>7, <3>9 DEF Around
    <3>11. QED
      BY <1>5, <1>11, <3>10 DEF Ordered
  <2>3. CASE s = Server
    <3>1. t = Client /\ Server \in Side /\ Client \in Side
      BY <2>3, Both
    <3>2. PICK x \in Bytes, b \in Bytes : x = chan[Server] /\ b = Behind(Client)
      BY <1>1, <3>1, Places
    <3>3. Loop = (f \o r) \o x /\ Loop' = r \o x
      BY <1>2, <1>6, <2>3, <3>2 DEF Loop, Server
    <3>4. (o \o (h \o c)) \o (((f \o r) \o x) \o b) = (o \o (h \o (c \o f))) \o ((r \o x) \o b)
      <4>1. BackSame(o, h, c, f, r, x, b)
        BY SentBack
      <4>2. QED
        BY ONLY <4>1 DEF BackSame
    <3>5. Ahead(Client) = o \o (h \o c) /\ Ahead(Client)' = o \o (h \o (c \o f)) /\ Behind(Client)' = b
      BY <1>9, <3>1, <3>2 DEF Client
    <3>6. Source(Client) = (o \o (h \o c)) \o (((f \o r) \o x) \o b)
      BY <1>3, <2>1, <3>2, <3>3, <3>5 DEF Around
    <3>7. Source(Client)' = (o \o (h \o (c \o f))) \o ((r \o x) \o b)
      BY <1>5, <3>1, <3>4, <3>6 DEF Client
    <3>8. (r \o x) \o b \in Bytes
      BY Joins
    <3>9. Begins(Ahead(Client)', Source(Client)')
      BY <3>5, <3>7, <3>8 DEF Begins
    <3>10. Around'
      BY <1>2, <2>1, <3>3, <3>5, <3>7, <3>9 DEF Around
    <3>11. QED
      BY <1>5, <1>11, <3>10 DEF Ordered
  <2>4. QED
    BY <2>2, <2>3, Both
<1>12. QED
  BY <1>10, <1>11

(* u_connect has returned: everything is still to be taken. *)
LEMMA ConnectOrdered ==
    ASSUME OInv, Connect \/ ConnectGoesOn
    PROVE  Ordered'
<1> USE DEF Side, Client, Server
<1>1. TypeOK /\ buf \in [Side -> Seq(Nat)]
  BY DEF OInv, IInv, TypeOK
<1>2. /\ UNCHANGED <<program, given, stdin, chan, to, out>>
      /\ buf' = [buf EXCEPT ![1] = IF program[1].kind = "test" THEN bufsend ELSE <<>>]
      /\ pc[1] \in {"connect", "interrupted"}
  BY DEF Connect, ConnectGoesOn, Relay, fixed
<1>3. stdin = given /\ \A s \in Side : buf[s] = <<>> /\ chan[s] = <<>> /\ out[s] = <<>>
  BY <1>2 DEF OInv, IInv, Starting, Fresh
<1>4. /\ buf'[1] = (IF program[1].kind = "test" THEN bufsend ELSE <<>>)
      /\ buf'[2] = <<>>
  BY <1>1, <1>2, <1>3
<1>5. program[1].kind = "test" => to[1] = "comm"
  BY DEF OInv, IInv, Shape
<1>6. Reflected' = Reflected /\ \A u \in Side : Source(u)' = Source(u) /\ Source(u) \in Bytes
  BY <1>1, <1>2, Places DEF Reflected, Source
<1>7. program[2].kind # "test"
  BY <1>1, Programs DEF TypeOK
<1>8. <<>> \o <<>> = <<>> /\ \A q \in Bytes : <<>> \o q = q /\ q \o <<>> = q
  BY Joins
<1>9. Held(1, "stdout")' = <<>> /\ Held(2, "stdout")' = <<>> /\ Held(2, "comm")' = <<>>
  BY <1>2, <1>4, <1>5 DEF Held
<1>10. Ahead(1)' = <<>> /\ Ahead(2)' = <<>> /\ Loop' = <<>>
  BY <1>2, <1>3, <1>8, <1>9 DEF Ahead, Loop
<1>11. Behind(1)' = Source(1)
  <2>1. CASE program[1].kind = "test"
    <3>1. Held(1, "comm")' = bufsend /\ Typed(1)' = <<>> /\ Source(1) = bufsend
      BY <1>2, <1>4, <1>5, <2>1 DEF Held, Typed, Source
    <3>2. QED
      BY <1>6, <1>8, <3>1 DEF Behind
  <2>2. CASE program[1].kind # "test"
    <3>1. Held(1, "comm")' = <<>> /\ Typed(1)' = given[1].bytes /\ Source(1) = given[1].bytes
      BY <1>2, <1>3, <1>4, <2>2 DEF Held, Typed, Source
    <3>2. QED
      BY <1>6, <1>8, <3>1 DEF Behind
  <2>3. QED
    BY <2>1, <2>2
<1>12. Behind(2)' = Source(2)
  <2>1. Typed(2)' = given[2].bytes /\ Source(2) = given[2].bytes
    BY <1>2, <1>3, <1>7 DEF Typed, Source
  <2>2. QED
    BY <1>6, <1>8, <1>9, <2>1 DEF Behind
<1>13. \A q \in Bytes : Begins(<<>>, q)
  BY <1>8 DEF Begins
<1>14. CASE ~ Reflected
  <2>1. \A s \in Side : /\ Begins(Ahead(Peer(s))', Source(s)')
                        /\ Source(s)' = Ahead(Peer(s))' \o Behind(s)'
    <3>1. PICK q1 \in Bytes : q1 = Source(1) /\ Source(1)' = q1 /\ Behind(1)' = q1
      BY <1>6, <1>11
    <3>2. PICK q2 \in Bytes : q2 = Source(2) /\ Source(2)' = q2 /\ Behind(2)' = q2
      BY <1>6, <1>12
    <3>3. /\ Begins(<<>>, q1) /\ q1 = <<>> \o q1
          /\ Begins(<<>>, q2) /\ q2 = <<>> \o q2
      BY <1>8, <1>13
    <3>4. Begins(Ahead(1)', Source(2)') /\ Source(2)' = Ahead(1)' \o Behind(2)'
      BY ONLY <1>10, <3>2, <3>3
    <3>5. Begins(Ahead(2)', Source(1)') /\ Source(1)' = Ahead(2)' \o Behind(1)'
      BY ONLY <1>10, <3>1, <3>3
    <3>6. /\ Begins(Ahead(Peer(1))', Source(1)') /\ Source(1)' = Ahead(Peer(1))' \o Behind(1)'
          /\ Begins(Ahead(Peer(2))', Source(2)') /\ Source(2)' = Ahead(Peer(2))' \o Behind(2)'
      BY ONLY <3>4, <3>5 DEF Peer
    <3>7. QED
      BY ONLY <3>6 DEF Side
  <2>2. QED
    BY <1>6, <1>14, <2>1 DEF Ordered, Straight
<1>15. CASE Reflected
  <2>1. out[2] = <<>> /\ to[2] = "comm"
    BY <1>15 DEF OInv, Ordered, Around
  <2>2. Begins(Ahead(1)', Source(1)') /\ Source(1)' = Ahead(1)' \o (Loop' \o Behind(1)')
    BY <1>6, <1>8, <1>10, <1>11, <1>13
  <2>3. QED
    BY <1>2, <1>6, <1>15, <2>1, <2>2 DEF Ordered, Around
<1>16. QED
  BY <1>14, <1>15

LEMMA OInvInitially == Init => OInv
<1> SUFFICES ASSUME Init PROVE Ordered
  BY Initially DEF OInv, FInv
<1> USE DEF Side, Client, Server
<1>1. TypeOK
  BY Initially DEF FInv, IInv
<1>2. /\ \A s \in Side : out[s] = <<>> /\ chan[s] = <<>> /\ buf[s] = <<>> /\ to[s] = "comm"
      /\ ~ Alive
  BY DEF Init, Alive
<1>3. \A s \in Side : Ahead(s) = <<>>
  BY <1>2, Joins DEF Ahead, Held
<1>4. \A s \in Side : Begins(<<>>, Source(s))
  <2>1. ASSUME NEW s \in Side PROVE Begins(<<>>, Source(s))
    <3>1. PICK q \in Bytes : q = Source(s)
      BY <1>1, Places
    <3>2. QED
      BY <3>1, Joins DEF Begins
  <2>2. QED
    BY <2>1
<1>5. QED
  BY <1>2, <1>3, <1>4, Both DEF Ordered, Straight, Around

LEMMA OInvKept == OInv /\ [Next]_vars => OInv'
<1> SUFFICES ASSUME OInv, [Next]_vars PROVE OInv'
  OBVIOUS
<1>1. IInv' /\ TypeOK'
  BY Keeps DEF OInv, IInv
<1>2. CASE UNCHANGED vars
  <2>1. UNCHANGED <<program, given, stdin, pc, conn, chan, buf, to, out>>
    BY <1>2 DEF vars
  <2>2. Ordered'
    BY <2>1 DEF OInv, Ordered, Straight, Around, Ahead, Behind, Typed, Held, Loop, Alive, Ended,
                Source, Reflected
  <2>3. QED
    BY <1>1, <2>2 DEF OInv
<1>3. CASE Next
  <2>1. PICK s \in Side : Step(s)
    BY <1>3 DEF Next
  <2>2. Ordered'
    BY <1>1, <2>1, Moves, EndsOrdered, ConnectOrdered, StillOrdered, TakeCommOrdered,
       TakeStdinOrdered, WriteOutOrdered, WriteCommOrdered, WriteLostOrdered, ReceiveOrdered
       DEF Ends
  <2>3. QED
    BY <1>1, <2>2 DEF OInv
<1>4. QED
  BY <1>2, <1>3

(* The places one after another, as the properties list them. *)
WaySame(o, h, c, k, e) == (o \o (h \o c)) \o (k \o e) = (((o \o h) \o c) \o k) \o e

AroundSame(o, h, c, b, x, k, e) ==
    (o \o (h \o c)) \o ((b \o x) \o (k \o e)) = (((((o \o h) \o c) \o b) \o x) \o k) \o e

LEMMA WayOn ==
    ASSUME NEW o \in Bytes, NEW h \in Bytes, NEW c \in Bytes, NEW k \in Bytes, NEW e \in Bytes
    PROVE  WaySame(o, h, c, k, e)
<1>1. (o \o h) \o c = o \o (h \o c)
  <2>1. Grouped(o, h, c)
    BY Grouping
  <2>2. QED
    BY ONLY <2>1 DEF Grouped
<1>2. PICK p \in Bytes : p = h \o c
  BY Joins
<1>3. PICK a \in Bytes : a = o \o p
  BY Joins
<1>4. (a \o k) \o e = a \o (k \o e)
  <2>1. Grouped(a, k, e)
    BY Grouping
  <2>2. QED
    BY ONLY <2>1 DEF Grouped
<1>5. (o \o (h \o c)) \o (k \o e) = (((o \o h) \o c) \o k) \o e
  BY ONLY <1>1, <1>2, <1>3, <1>4
<1>6. QED
  BY ONLY <1>5 DEF WaySame

LEMMA WayAround ==
    ASSUME NEW o \in Bytes, NEW h \in Bytes, NEW c \in Bytes, NEW b \in Bytes, NEW x \in Bytes,
           NEW k \in Bytes, NEW e \in Bytes
    PROVE  AroundSame(o, h, c, b, x, k, e)
<1>1. (o \o h) \o c = o \o (h \o c)
  <2>1. Grouped(o, h, c)
    BY Grouping
  <2>2. QED
    BY ONLY <2>1 DEF Grouped
<1>2. PICK p \in Bytes : p = h \o c
  BY Joins
<1>3. PICK a \in Bytes : a = o \o p
  BY Joins
<1>4. PICK y \in Bytes : y = b \o x
  BY Joins
<1>5. (a \o b) \o x = a \o (b \o x)
  <2>1. Grouped(a, b, x)
    BY Grouping
  <2>2. QED
    BY ONLY <2>1 DEF Grouped
<1>6. PICK w \in Bytes : w = a \o y
  BY Joins
<1>7. PICK z \in Bytes : z = k \o e
  BY Joins
<1>8. (a \o y) \o z = a \o (y \o z)
  <2>1. Grouped(a, y, z)
    BY Grouping
  <2>2. QED
    BY ONLY <2>1 DEF Grouped
<1>9. (w \o k) \o e = w \o (k \o e)
  <2>1. Grouped(w, k, e)
    BY Grouping
  <2>2. QED
    BY ONLY <2>1 DEF Grouped
<1>10. (o \o (h \o c)) \o ((b \o x) \o (k \o e)) = w \o z
  BY ONLY <1>2, <1>3, <1>4, <1>6, <1>7, <1>8
<1>11. ((((o \o h) \o c) \o b) \o x) = w
  BY ONLY <1>1, <1>2, <1>3, <1>4, <1>5, <1>6
<1>12. (o \o (h \o c)) \o ((b \o x) \o (k \o e))
          = (((((o \o h) \o c) \o b) \o x) \o k) \o e
  BY ONLY <1>7, <1>9, <1>10, <1>11
<1>13. QED
  BY ONLY <1>12 DEF AroundSame

(* Bytes arrive in their order and none is lost while both are there: every *)
(* byte that was taken from the terminal, or is in reflectclient's message, *)
(* is written, on its way or held; and what is written is the beginning of  *)
(* what was to be sent, however it ended (restart.c:82-99, :183-194,        *)
(* copy2files.c:32-45, reflectclient.c:23-43).                              *)
THEOREM KeepsOrder == Spec => []BytesInOrder
<1>1. OInv => BytesInOrder
  <2> SUFFICES ASSUME OInv, NEW s \in Side
               PROVE  LET written == out[IF Reflected THEN s ELSE Peer(s)]
                      IN  /\ written = First(Source(s), Len(written))
                          /\ conn = "up" /\ (~ \E e \in Side : Ended(e)) /\ ~ (Reflected /\ s = Server) =>
                               Source(s) = Way(s) \o IF program[s].kind = "test" THEN <<>> ELSE stdin[s].bytes
    BY DEF BytesInOrder
  <2>1. TypeOK /\ Peer(s) \in Side
    BY Both DEF OInv, IInv
  <2>2. ASSUME NEW u \in Side, NEW v \in Side, Begins(Ahead(u), Source(v))
        PROVE  out[u] = First(Source(v), Len(out[u]))
    <3>1. PICK o \in Bytes, q \in Bytes, p \in Bytes, x \in Bytes :
            /\ o = out[u] /\ q = Source(v) /\ p = Ahead(u) /\ x = Held(u, "stdout") \o chan[u]
      BY <2>1, Places, Joins
    <3>2. Begins(o, o \o x) /\ p = o \o x /\ Begins(p, q)
      BY <2>2, <3>1 DEF Begins, Ahead
    <3>3. Begins(o, q)
      BY <3>2, BeginsOn
    <3>4. QED
      BY <3>1, <3>3, Beginning
  <2>3. (~ \E e \in Side : Ended(e)) /\ conn = "up" => Alive
    BY Both DEF Alive
  <2>4. CASE ~ Reflected
    <3>1. Straight
      BY <2>4 DEF OInv, Ordered
    <3>2. out[Peer(s)] = First(Source(s), Len(out[Peer(s)]))
      BY <2>1, <2>2, <3>1 DEF Straight
    <3>3. ASSUME Alive PROVE Source(s) = Way(s) \o Typed(s)
      <4>1. PICK o \in Bytes, h \in Bytes, c \in Bytes, k \in Bytes, e \in Bytes :
              /\ o = out[Peer(s)] /\ h = Held(Peer(s), "stdout") /\ c = chan[Peer(s)]
              /\ k = Held(s, "comm") /\ e = Typed(s)
        BY <2>1, Places
      <4>2. Source(s) = (o \o (h \o c)) \o (k \o e)
        BY <3>1, <3>3, <4>1 DEF Straight, Ahead, Behind
      <4>3. Way(s) = ((o \o h) \o c) \o k
        BY <2>4, <4>1 DEF Way
      <4>4. WaySame(o, h, c, k, e)
        BY WayOn
      <4>5. (o \o (h \o c)) \o (k \o e) = (((o \o h) \o c) \o k) \o e
        BY ONLY <4>4 DEF WaySame
      <4>6. QED
        BY <4>1, <4>2, <4>3, <4>5
    <3>4. QED
      BY <2>3, <2>4, <3>2, <3>3 DEF Typed
  <2>5. CASE Reflected /\ s = Client
    <3>1. Around /\ Client \in Side /\ Server \in Side
      BY <2>5, Both DEF OInv, Ordered
    <3>2. out[s] = First(Source(s), Len(out[s]))
      BY <2>2, <2>5, <3>1 DEF Around, Client
    <3>3. ASSUME Alive PROVE Source(s) = Way(s) \o Typed(s)
      <4>1. PICK o \in Bytes, h \in Bytes, c \in Bytes, b \in Bytes, x \in Bytes, k \in Bytes,
                 e \in Bytes :
              /\ o = out[Client] /\ h = Held(Client, "stdout") /\ c = chan[Client]
              /\ b = Held(Server, "comm") /\ x = chan[Server]
              /\ k = Held(Client, "comm") /\ e = Typed(Client)
        BY <2>1, <3>1, Places
      <4>2. Source(Client) = (o \o (h \o c)) \o ((b \o x) \o (k \o e))
        BY <3>1, <3>3, <4>1 DEF Around, Ahead, Behind, Loop
      <4>3. buf[Server] = b
        BY <3>1, <4>1 DEF Around, Held
      <4>4. Way(s) = ((((o \o h) \o c) \o b) \o x) \o k
        BY <2>5, <4>1, <4>3 DEF Way
      <4>5. AroundSame(o, h, c, b, x, k, e)
        BY WayAround
      <4>6. (o \o (h \o c)) \o ((b \o x) \o (k \o e))
               = (((((o \o h) \o c) \o b) \o x) \o k) \o e
        BY ONLY <4>5 DEF AroundSame
      <4>7. QED
        BY <2>5, <4>1, <4>2, <4>4, <4>6
    <3>4. QED
      BY <2>3, <2>5, <3>2, <3>3 DEF Typed
  <2>6. CASE Reflected /\ s = Server
    <3>1. out[s] = <<>>
      BY <2>6 DEF OInv, Ordered, Around
    <3>2. First(Source(s), Len(out[s])) = <<>>
      BY <3>1, Empty, SubSeqEmpty DEF First
    <3>3. QED
      BY <2>6, <3>1, <3>2
  <2>7. QED
    BY <2>4, <2>5, <2>6, Both
<1>2. QED
  BY OInvInitially, OInvKept, <1>1, PTL DEF Spec

-----------------------------------------------------------------------------
(* Nobody hangs but for the user. *)

(* Step(s) is possible. *)
CanGoOn(s) ==
    \/ pc[s] \in {"connect", "interrupted"}
    \/ pc[s] = "accept" /\ conn = "up"
    \/ /\ pc[s] = "relay" /\ buf[s] # <<>>
       /\ to[s] = "comm" /\ conn = "up" /\ ~ Ended(Peer(s)) => Room(s) > 0
    \/ Reading(s, "comm") /\ CommReady(s)
    \/ Reading(s, "stdin") /\ StdinReady(s)
    \/ /\ Idle(s) /\ program[s].kind = "copy2files" /\ pending[s] = {}
       /\ CommReady(s) \/ StdinReady(s)
    \/ Idle(s) /\ program[s].kind = "test" /\ Len(out[s]) = BUFSIZE

(* A read or a select whose user has typed nothing yet. *)
WaitsForUser(s) == Idle(s) /\ "stdin" \in DOMAIN program[s].copies /\ ~ StdinReady(s)

GoesOn(s) == CanGoOn(s) \/ WaitsForUser(s)

(* A client ends or goes on; on a connection, so does each of the two, or   *)
(* else the other goes on.                                                  *)
NeverStuck ==
    /\ conn # "up" => Ended(Client) \/ GoesOn(Client)
    /\ conn = "up" =>
         \A s \in Side : Ended(s) \/ GoesOn(s) \/ (~ Ended(Peer(s)) /\ GoesOn(Peer(s)))

(* What select has promised is still there when it is read, and             *)
(* reflectclient never receives more than it has sent.                      *)
Promised(s) ==
    /\ "comm" \in pending[s] => CommReady(s)
    /\ "stdin" \in pending[s] => StdinReady(s)
    /\ program[s].kind = "test" => Len(out[s]) <= BUFSIZE

AllPromised == \A s \in Side : Promised(s)

(* A step of one side takes nothing from what the other was promised. *)
LEMMA OtherPromised ==
    ASSUME NEW t \in Side, Promised(t),
           program' = program, pending'[t] = pending[t], out'[t] = out[t], stdin'[t] = stdin[t],
           CommReady(t) => CommReady(t)'
    PROVE  Promised(t)'
BY DEF Promised, StdinReady

LEMMA StepPromised ==
    ASSUME FInv, AllPromised, NEW s \in Side, Step(s)
    PROVE  AllPromised'
<1> DEFINE t == Peer(s)
<1>1. /\ IInv /\ TypeOK /\ t \in Side /\ t # s /\ Peer(t) = s /\ Peer(s) = t
      /\ Promised(s) /\ Promised(t)
  BY Both DEF FInv, IInv, AllPromised
<1> HIDE DEF t
<1>2. SUFFICES Promised(s)' /\ Promised(t)'
  BY <1>1, Both DEF AllPromised, t
<1>3. CASE Ends(s)
  <2>1. PICK how \in Endings : Leave(s, how)
    BY <1>3 DEF Ends
  <2>2. /\ pending'[s] = {} /\ pending'[t] = pending[t] /\ Ended(s)'
    BY <1>1, <2>1, Leaving
  <2>3. program' = program /\ out' = out /\ stdin' = stdin
    BY <2>1 DEF Leave, fixed
  <2>4. CommReady(t)'
    BY <1>1, <2>2 DEF CommReady
  <2>5. Promised(s)'
    BY <1>1, <2>2, <2>3 DEF Promised
  <2>6. QED
    BY <1>1, <2>2, <2>3, <2>4, <2>5, OtherPromised
<1>4. CASE s = Client /\ (Connect \/ ConnectInterrupted \/ ConnectGoesOn)
  <2>1. conn = "none"
    BY <1>1, <1>4 DEF IInv, Starting, Connect, ConnectInterrupted, ConnectGoesOn
  <2>2. pending[s] = {} /\ pending[t] = {}
    BY <1>1, <2>1 DEF IInv, Starting, Fresh
  <2>3. pending' = pending /\ program' = program /\ out' = out
    BY <1>4 DEF Connect, ConnectInterrupted, ConnectGoesOn, Relay, fixed
  <2>4. QED
    BY <1>1, <2>2, <2>3 DEF Promised
<1>5. CASE s = Server /\ Accept
  <2>1. UNCHANGED <<program, stdin, conn, chan, pending, out>>
    BY <1>5 DEF Accept, fixed
  <2>2. pc[s] = "accept" /\ pc'[t] = pc[t]
    BY <1>1, <1>5 DEF Accept, TypeOK
  <2>3. CommReady(s)' = CommReady(s) /\ (CommReady(t) => CommReady(t)')
    BY <1>1, <2>1, <2>2 DEF CommReady, Ended, Endings
  <2>4. QED
    BY <1>1, <2>1, <2>3 DEF Promised, StdinReady
<1>6. CASE Select(s)
  <2>1. PICK typed \in BOOLEAN :
          pending' = [pending EXCEPT ![s] = {f \in {"comm", "stdin"} :
                          \/ f = "comm" /\ CommReady(s)
                          \/ f = "stdin" /\ StdinReady(s) /\ typed}]
    BY <1>6 DEF Select
  <2>2. UNCHANGED <<program, stdin, pc, conn, chan, out>>
    BY <1>6 DEF Select, fixed
  <2>3. /\ pending'[t] = pending[t]
        /\ "comm" \in pending'[s] => CommReady(s)
        /\ "stdin" \in pending'[s] => StdinReady(s)
    BY <1>1, <2>1 DEF TypeOK
  <2>4. /\ CommReady(s)' = CommReady(s) /\ CommReady(t)' = CommReady(t)
        /\ StdinReady(s)' = StdinReady(s) /\ StdinReady(t)' = StdinReady(t)
    BY <2>2 DEF CommReady, StdinReady, Ended
  <2>5. QED
    BY <1>1, <2>2, <2>3, <2>4 DEF Promised
<1>7. CASE TakeComm(s)
  <2>1. /\ program' = program /\ stdin' = stdin /\ pc' = pc /\ conn' = conn /\ out' = out
        /\ pending'[s] = pending[s] \ {"comm"} /\ pending'[t] = pending[t]
        /\ chan'[t] = chan[t]
    BY <1>1, <1>7, TakeCommSteps
  <2>2. CommReady(t)' = CommReady(t)
    BY <2>1 DEF CommReady, Ended
  <2>3. QED
    BY <1>1, <2>1, <2>2 DEF Promised, StdinReady
<1>8. CASE TakeStdin(s)
  <2>1. /\ program' = program /\ pc' = pc /\ conn' = conn /\ out' = out /\ chan' = chan
        /\ pending'[s] = {} /\ pending'[t] = pending[t]
    BY <1>1, <1>8, TakeStdinSteps
  <2>2. stdin'[t] = stdin[t]
    BY <1>1, <1>8 DEF TakeStdin, TypeOK
  <2>3. CommReady(t)' = CommReady(t)
    BY <2>1 DEF CommReady, Ended
  <2>4. QED
    BY <1>1, <2>1, <2>2, <2>3 DEF Promised, StdinReady
<1>9. CASE WriteOut(s)
  <2>1. /\ to[s] = "stdout" /\ program' = program /\ stdin' = stdin /\ pc' = pc /\ conn' = conn
        /\ chan' = chan /\ pending' = pending /\ out'[t] = out[t]
    BY <1>1, <1>9, WriteOutSteps
  <2>2. program[s].kind # "test"
    <3>1. program[s].kind = "test" => s = Client
      BY <1>1, Programs DEF TypeOK
    <3>2. QED
      BY <1>1, <2>1, <3>1 DEF IInv, Shape
  <2>3. CommReady(s)' = CommReady(s) /\ CommReady(t)' = CommReady(t)
    BY <2>1 DEF CommReady, Ended
  <2>4. QED
    BY <1>1, <2>1, <2>2, <2>3 DEF Promised, StdinReady
<1>10. CASE WriteComm(s)
  <2>1. /\ program' = program /\ stdin' = stdin /\ pc' = pc /\ conn' = conn
        /\ pending' = pending /\ out' = out /\ chan'[s] = chan[s]
        /\ Len(buf[s]) \in Nat /\ Len(buf'[s]) \in Nat /\ Len(buf'[s]) <= Len(buf[s])
        /\ Len(chan'[t]) \in Nat
        /\ Len(chan'[t]) + Len(buf'[s]) = Len(chan[t]) + Len(buf[s])
    BY <1>1, <1>10, WriteCommSteps
  <2>2. chan[t] # <<>> => chan'[t] # <<>>
    <3>1. chan[t] \in Seq(Nat) /\ Len(chan[t]) \in Nat
      BY <1>1, Lengths DEF TypeOK
    <3>2. Len(chan'[t]) >= Len(chan[t])
      <4> DEFINE a == Len(chan[t])  b == Len(buf[s])  c == Len(chan'[t])  d == Len(buf'[s])
      <4>1. a \in Nat /\ b \in Nat /\ c \in Nat /\ d \in Nat /\ d <= b /\ c + d = a + b
        BY <2>1, <3>1
      <4> HIDE DEF a, b, c, d
      <4>2. c >= a
        BY <4>1
      <4>3. QED
        BY <4>2 DEF a, c
    <3>3. chan[t] # <<>> => Len(chan[t]) # 0
      BY <3>1, Lengths
    <3>4. QED
      BY <2>1, <3>1, <3>2, <3>3, Empty
  <2>3. CommReady(s)' = CommReady(s) /\ (CommReady(t) => CommReady(t)')
    BY <2>1, <2>2 DEF CommReady, Ended
  <2>4. QED
    BY <1>1, <2>1, <2>3 DEF Promised, StdinReady
<1>11. CASE WriteLost(s)
  <2>1. /\ program' = program /\ stdin' = stdin /\ pc' = pc /\ conn' = conn
        /\ pending' = pending /\ out' = out /\ Ended(t)
    BY <1>1, <1>11 DEF WriteLost, fixed
  <2>2. chan'[t] = chan[t]
    BY <1>1, <1>11 DEF WriteLost, TypeOK
  <2>3. CommReady(s)' /\ CommReady(t)' = CommReady(t)
    BY <1>1, <2>1, <2>2 DEF CommReady, Ended
  <2>4. QED
    BY <1>1, <2>1, <2>3 DEF Promised, StdinReady
<1>12. CASE Receive(s)
  <2>1. /\ program' = program /\ stdin' = stdin /\ pc' = pc /\ conn' = conn
        /\ pending' = pending /\ out'[t] = out[t] /\ chan'[t] = chan[t]
        /\ program[s].kind = "test"
    BY <1>1, <1>12, ReceiveSteps
  <2>2. pending[s] = {}
    BY <1>1, <2>1 DEF IInv, Shape
  <2>3. Len(out'[s]) <= BUFSIZE
    <3> DEFINE n == Min(BUFSIZE - Len(out[s]), Len(chan[s]))
    <3>1. /\ chan[s] \in Seq(Nat) /\ Len(chan[s]) \in Nat
          /\ out[s] \in Seq(Nat) /\ Len(out[s]) \in Nat
          /\ Len(out[s]) < BUFSIZE
      BY <1>1, <1>12, <2>1, Lengths DEF TypeOK, Receive, Reading
    <3>2. n \in 0 .. Len(chan[s]) /\ n <= BUFSIZE - Len(out[s])
      <4> DEFINE a == Len(chan[s])  b == Len(out[s])
      <4>1. a \in Nat /\ b \in Nat /\ b < BUFSIZE /\ n = Min(BUFSIZE - b, a)
        BY <3>1
      <4> HIDE DEF a, b, n
      <4>2. n \in 0 .. a /\ n <= BUFSIZE - b
        BY <4>1 DEF Min
      <4>3. QED
        BY <4>2 DEF a, b
    <3>3. out' = [out EXCEPT ![s] = @ \o First(chan[s], n)]
      BY <1>12 DEF Receive
    <3> HIDE DEF n
    <3>4. First(chan[s], n) \in Seq(Nat) /\ Len(First(chan[s], n)) = n
      BY <3>1, <3>2, Parts
    <3>5. Len(out[s] \o First(chan[s], n)) = Len(out[s]) + Len(First(chan[s], n))
      BY <3>1, <3>4, Lengths
    <3>6. out'[s] = out[s] \o First(chan[s], n)
      BY <1>1, <3>3 DEF TypeOK
    <3>7. Len(out'[s]) = Len(out[s]) + n
      BY <3>4, <3>5, <3>6
    <3>8. QED
      BY <3>1, <3>2, <3>7
  <2>4. CommReady(t)' = CommReady(t)
    BY <2>1 DEF CommReady, Ended
  <2>5. QED
    BY <1>1, <2>1, <2>2, <2>3, <2>4 DEF Promised, StdinReady
<1>13. QED
  BY <1>3, <1>4, <1>5, <1>6, <1>7, <1>8, <1>9, <1>10, <1>11, <1>12, Moves

LEMMA PromisedKept == FInv /\ AllPromised /\ [Next]_vars => AllPromised'
<1>1. ASSUME AllPromised, UNCHANGED vars PROVE AllPromised'
  BY <1>1 DEF vars, AllPromised, Promised, CommReady, StdinReady, Ended
<1>2. QED
  BY <1>1, StepPromised DEF Next

(* The connection is what a process that does not go on waits for. *)
WaitsToRead(s) ==
    /\ Idle(s)
    /\ program[s].kind # "copy2files"
    /\ "stdin" \notin DOMAIN program[s].copies
    /\ chan[s] = <<>>
    /\ program[s].kind = "test" => Len(out[s]) < BUFSIZE

LEMMA Waits ==
    ASSUME FInv, AllPromised, NEW s \in Side, ~ Ended(s), ~ GoesOn(s)
    PROVE  \/ pc[s] = "accept" /\ conn # "up"
           \/ conn = "up" /\ (WaitsToWrite(s) \/ WaitsToRead(s))
<1>1. /\ IInv /\ TypeOK /\ Promised(s) /\ program \in Pairs
      /\ pc[s] \in {"connect", "interrupted", "accept", "relay"}
      /\ ~ CanGoOn(s) /\ ~ WaitsForUser(s)
  BY DEF FInv, IInv, AllPromised, TypeOK, Ended, GoesOn
<1>2. CASE pc[s] # "relay"
  BY <1>1, <1>2 DEF CanGoOn
<1>3. CASE pc[s] = "relay" /\ buf[s] # <<>>
  <2>1. to[s] = "comm" /\ conn = "up" /\ ~ Ended(Peer(s)) /\ ~ Room(s) > 0
    BY <1>1, <1>3 DEF CanGoOn
  <2>2. Len(chan[Peer(s)]) \in Nat /\ Len(chan[Peer(s)]) <= K
    BY <1>1, Both, Lengths DEF TypeOK
  <2>3. Room(s) = 0
    BY <2>1, <2>2 DEF Room
  <2>4. QED
    BY <1>3, <2>1, <2>3 DEF WaitsToWrite, Writing
<1>4. CASE pc[s] = "relay" /\ buf[s] = <<>>
  <2>1. Idle(s) /\ program[s].kind \in {"copyfile", "copy2files", "test"}
    BY <1>1, <1>4, Programs DEF Idle
  <2>2. program[s].kind # "copy2files"
    <3>1. SUFFICES ASSUME program[s].kind = "copy2files" PROVE FALSE
      OBVIOUS
    <3>2. "stdin" \in DOMAIN program[s].copies /\ pending[s] \in SUBSET {"comm", "stdin"}
      BY <1>1, <3>1, Programs DEF TypeOK
    <3>3. StdinReady(s) /\ pending[s] # {}
      BY <1>1, <2>1, <3>1, <3>2 DEF CanGoOn, WaitsForUser
    <3>4. CASE "comm" \in pending[s]
      BY <1>1, <2>1, <3>1, <3>4 DEF Promised, Reading, CanGoOn
    <3>5. CASE "comm" \notin pending[s]
      BY <1>1, <2>1, <3>1, <3>2, <3>3, <3>5 DEF Reading, CanGoOn
    <3>6. QED
      BY <3>4, <3>5
  <2>3. CASE program[s].kind = "copyfile"
    <3>1. "stdin" \notin DOMAIN program[s].copies
      <4>1. SUFFICES ASSUME "stdin" \in DOMAIN program[s].copies PROVE FALSE
        OBVIOUS
      <4>2. StdinReady(s) /\ Reading(s, "stdin")
        BY <1>1, <2>1, <2>3, <4>1 DEF WaitsForUser, Reading
      <4>3. QED
        BY <1>1, <4>2 DEF CanGoOn
    <3>2. "comm" \in DOMAIN program[s].copies
      BY <1>1, <2>3, <3>1, Programs
    <3>3. Reading(s, "comm")
      BY <2>1, <2>3, <3>2 DEF Reading
    <3>4. ~ CommReady(s)
      BY <1>1, <3>3 DEF CanGoOn
    <3>5. conn = "up" /\ chan[s] = <<>>
      BY <1>1, <1>4, <3>4, Both DEF CommReady, TypeOK, IInv, Starting
    <3>6. QED
      BY <2>1, <2>2, <2>3, <3>1, <3>5 DEF WaitsToRead
  <2>4. CASE program[s].kind = "test"
    <3>1. Len(out[s]) < BUFSIZE
      <4>1. Len(out[s]) \in Nat /\ Len(out[s]) <= BUFSIZE /\ Len(out[s]) # BUFSIZE
        BY <1>1, <2>1, <2>4, Lengths DEF Promised, CanGoOn, TypeOK
      <4>2. QED
        BY <4>1
    <3>2. Reading(s, "comm")
      BY <2>1, <2>4, <3>1 DEF Reading
    <3>3. ~ CommReady(s)
      BY <1>1, <3>2 DEF CanGoOn
    <3>4. conn = "up" /\ chan[s] = <<>>
      BY <1>1, <1>4, <3>3, Both DEF CommReady, TypeOK, IInv, Starting
    <3>5. "stdin" \notin DOMAIN program[s].copies
      <4>1. s = Client /\ program[Client] \in {client, client2, reflectclient}
        BY <1>1, <2>4, Programs, PairsAssumption DEF Client
      <4>2. program[Client] = reflectclient
        BY <2>4, <4>1 DEF client, client2, copyfile, copy2files
      <4>3. QED
        BY <4>1, <4>2 DEF reflectclient
    <3>6. QED
      BY <2>1, <2>2, <3>1, <3>4, <3>5 DEF WaitsToRead
  <2>5. QED
    BY <2>1, <2>2, <2>3, <2>4
<1>5. QED
  BY <1>1, <1>2, <1>3, <1>4

(* The two never both wait for the connection. *)
LEMMA OneReads ==
    ASSUME FInv, NEW s \in Side, WaitsToWrite(s), WaitsToRead(Peer(s))
    PROVE  FALSE
<1>1. Len(chan[Peer(s)]) = 0
  BY Empty DEF WaitsToRead
<1>2. QED
  BY <1>1 DEF WaitsToWrite, Room

LEMMA OneWrites ==
    ASSUME FInv, WaitsToRead(Client), WaitsToRead(Server)
    PROVE  FALSE
<1>1. program \in Pairs /\ program[1] \in {client, client2, reflectclient}
  BY PairsAssumption DEF FInv, IInv, TypeOK
<1>2. program[1] = reflectclient
  BY <1>1 DEF WaitsToRead, Client, client, client2, copyfile, copy2files
<1>3. program[Client].kind = "test" /\ Len(out[Client]) < BUFSIZE
  BY <1>2 DEF reflectclient, WaitsToRead, Client
<1>4. /\ buf[Client] = <<>> /\ buf[Server] = <<>> /\ chan[Client] = <<>> /\ chan[Server] = <<>>
      /\ pc[Client] = "relay" /\ ~ Ended(Server)
  BY DEF WaitsToRead, Idle, Ended, Endings
<1>5. Len(buf[Client]) + Len(chan[Server]) + Len(buf[Server]) + Len(chan[Client])
        + Len(out[Client]) = BUFSIZE
  BY <1>3, <1>4 DEF FInv, Reflecting
<1>6. Len(out[Client]) \in Nat
  BY Both, Lengths DEF FInv, IInv, TypeOK
<1>7. QED
  BY <1>3, <1>4, <1>5, <1>6, Empty

LEMMA SomebodyGoesOn == FInv /\ AllPromised => NeverStuck
<1> SUFFICES ASSUME FInv, AllPromised PROVE NeverStuck
  OBVIOUS
<1>1. conn # "up" => Ended(Client) \/ GoesOn(Client)
  <2>1. pc[Client] # "accept" /\ Client \in Side
    BY Both DEF FInv, IInv, Starting, Side
  <2>2. QED
    BY <2>1, Waits
<1>2. ASSUME conn = "up", NEW s \in Side, ~ Ended(s), ~ GoesOn(s)
      PROVE  ~ Ended(Peer(s)) /\ GoesOn(Peer(s))
  <2> DEFINE t == Peer(s)
  <2>1. t \in Side /\ Peer(t) = s
    BY Both
  <2>2. WaitsToWrite(s) \/ WaitsToRead(s)
    BY <1>2, Waits
  <2>3. ~ Ended(t)
    <3>1. CASE WaitsToWrite(s)
      BY <3>1 DEF WaitsToWrite
    <3>2. CASE WaitsToRead(s)
      <4>1. SUFFICES ASSUME Ended(t) PROVE FALSE
        OBVIOUS
      <4>2. Reading(s, "comm")
        <5>1. program[s].kind \in {"copyfile", "test"}
          BY <3>2, Programs DEF WaitsToRead, FInv, IInv, TypeOK
        <5>2. program[s].kind = "copyfile" => "comm" \in DOMAIN program[s].copies
          BY <3>2, Programs DEF WaitsToRead, FInv, IInv, TypeOK
        <5>3. QED
          BY <3>2, <5>1, <5>2 DEF WaitsToRead, Reading
      <4>3. QED
        BY <1>2, <4>1, <4>2 DEF GoesOn, CanGoOn, CommReady
    <3>3. QED
      BY <2>2, <3>1, <3>2
  <2>4. GoesOn(t)
    <3>1. SUFFICES ASSUME WaitsToWrite(t) \/ WaitsToRead(t) PROVE FALSE
      BY <1>2, <2>1, <2>3, Waits
    <3>2. ~ (WaitsToWrite(s) /\ WaitsToWrite(t))
      BY <2>1, NotBoth, Both DEF NotBothWaitToWrite
    <3>3. ~ (WaitsToRead(s) /\ WaitsToRead(t))
      BY <2>1, OneWrites, Both
    <3>4. QED
      BY <2>1, <2>2, <3>1, <3>2, <3>3, OneReads
  <2>5. QED
    BY <2>3, <2>4
<1>3. QED
  BY <1>1, <1>2 DEF NeverStuck

(* For every pair of programs, every size of a block that fits into the     *)
(* connection and whatever is typed: as long as a process has not ended, it *)
(* can take its next step or waits for its user, or the other does: a read  *)
(* that select has promised never blocks, and two processes never wait for  *)
(* each other, whether to read or to write (copy2files.c:22-45,             *)
(* restart.c:183-194, reflectclient.c:23-43).                               *)
THEOREM NobodyIsStuck == Spec => []NeverStuck
<1>1. Init => AllPromised
  BY Empty DEF Init, AllPromised, Promised
<1>2. QED
  BY <1>1, Initially, FKeeps, PromisedKept, SomebodyGoesOn, PTL DEF Spec
=============================================================================
