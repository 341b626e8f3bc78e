------------------------------- MODULE Relay -------------------------------
(***************************************************************************)
(* The programs of assign5 that pass bytes between a terminal and a UICI   *)
(* connection, or send back what comes: a client and a server that handles *)
(* its connection, on the two ends of a stream.                            *)
(*                                                                         *)
(* A signal that ends a call has no effect of its own: r_read and r_write  *)
(* repeat the call (restart.c:65, :94).                                    *)
(***************************************************************************)
EXTENDS Integers, Sequences

CONSTANTS
    K,                 \* the bytes that the connection holds in each direction
    BLKSIZE,           \* the most that readwrite and copyfile move at a time
    BUFSIZE,           \* the length of reflectclient's message
    Pairs,             \* which client meets which server
    Stdins             \* what may be typed on the two sides: [bytes, ends]

Client == 1
Server == 2
Side == {Client, Server}
Peer(s) == 3 - s

(* A program copies from its descriptors to others; forks holds of a server *)
(* that leaves the connection to a child.                                   *)
copyfile(from, to, forks) ==
    [kind |-> "copyfile", copies |-> [f \in {from} |-> to], forks |-> forks]

copy2files(forks) ==
    [kind |-> "copy2files",
     copies |-> [f \in {"comm", "stdin"} |-> IF f = "comm" THEN "stdout" ELSE "comm"],
     forks |-> forks]

client == copyfile("stdin", "comm", FALSE)
client_audio == copyfile("stdin", "comm", FALSE)
server == copyfile("comm", "stdout", FALSE)
serverp == copyfile("comm", "stdout", TRUE)
client2 == copy2files(FALSE)
compileclient == copy2files(FALSE)
server2 == copy2files(FALSE)
serverp2 == copy2files(TRUE)
reflectserver == copyfile("comm", "comm", FALSE)
reflectclient == [kind |-> "test", copies |-> [f \in {"comm"} |-> "stdout"], forks |-> FALSE]

bufsend == [n \in 1 .. BUFSIZE |-> n]

Reads(p) == "comm" \in DOMAIN p.copies
Writes(p) == p.kind = "test" \/ \E f \in DOMAIN p.copies : p.copies[f] = "comm"

(* A block fits into the connection: PIPE_BUF is 4096, and no socket buffer *)
(* is smaller.                                                              *)
ASSUME SizesAssumption == BLKSIZE \in Nat \ {0} /\ BUFSIZE \in Nat /\ K \in Nat /\ BLKSIZE <= K

(* What one program writes, the other reads; reflectclient, which reads     *)
(* nothing before it has written everything, meets reflectserver only, and  *)
(* its message is no longer than the connection's buffers.                  *)
ASSUME PairsAssumption ==
    /\ Pairs \subseteq {client, client2, reflectclient}
                         \X {server, serverp, server2, serverp2, reflectserver}
    /\ \A p \in Pairs :
        /\ \A s \in Side : Writes(p[s]) => Reads(p[Peer(s)])
        /\ p[Client] = reflectclient => p[Server] = reflectserver /\ BUFSIZE <= 2 * K + 1

ASSUME StdinsAssumption == Stdins \subseteq [Side -> [bytes : Seq(Nat), ends : BOOLEAN]]

VARIABLES
    program,           \* what runs on each side
    given,             \* what is typed there, from the start
    stdin,             \* what is still to be typed
    pc,                \* "connect", "interrupted", "accept", "relay", or how it ended
    conn,              \* "none", "up"; "refused" when u_connect has returned all the same
    chan,              \* the bytes that have been sent to each side
    pending,           \* copy2files: the descriptors of readset still to be read
    buf, to,           \* readwrite: the bytes still to be written, and where to
    out                \* stdout, or reflectclient's bufrecv

vars == <<program, given, stdin, pc, conn, chan, pending, buf, to, out>>

fixed == <<program, given>>

Init ==
    /\ program \in Pairs
    /\ given \in Stdins
    /\ stdin = given
    /\ pc = [s \in Side |-> IF s = Client THEN "connect" ELSE "accept"]
    /\ conn = "none"
    /\ chan = [s \in Side |-> <<>>]
    /\ pending = [s \in Side |-> {}]
    /\ buf = [s \in Side |-> <<>>]
    /\ to = [s \in Side |-> "comm"]
    /\ out = [s \in Side |-> <<>>]

Endings == {"not connected", "not forked", "stdin ended", "comm ended", "write failed", "done"}
Ended(s) == pc[s] \in Endings

Min(a, b) == IF a < b THEN a ELSE b
First(q, n) == SubSeq(q, 1, n)
Rest(q, n) == SubSeq(q, n + 1, Len(q))
Prefixes(q) == {First(q, n) : n \in 0 .. Len(q)}

(* The process ends, or closes the connection.  The peer reads what has     *)
(* been sent; but when bytes are closed unread, the connection is reset and *)
(* the peer may lose what it has not read yet.                              *)
Leave(s, how) ==
    /\ pc' = [pc EXCEPT ![s] = how]
    /\ \E left \in IF chan[s] = <<>> THEN {chan[Peer(s)]} ELSE Prefixes(chan[Peer(s)]) :
          chan' = [chan EXCEPT ![s] = <<>>, ![Peer(s)] = left]
    /\ buf' = [buf EXCEPT ![s] = <<>>]
    /\ pending' = [pending EXCEPT ![s] = {}]
    /\ UNCHANGED <<fixed, stdin, conn, to, out>>

-----------------------------------------------------------------------------
(* u_connect and u_accept. *)

(* u_connect returns a descriptor. *)
Relay ==
    /\ pc' = [pc EXCEPT ![Client] = "relay"]
    /\ buf' = [buf EXCEPT ![Client] = IF program[Client].kind = "test" THEN bufsend ELSE <<>>]
    /\ UNCHANGED <<fixed, stdin, chan, pending, to, out>>

Connect == pc[Client] = "connect" /\ conn' = "up" /\ Relay

ConnectFails == pc[Client] = "connect" /\ Leave(Client, "not connected")

(* A signal ends connect, which goes on by itself. *)
ConnectInterrupted ==
    /\ pc[Client] = "connect"
    /\ pc' = [pc EXCEPT ![Client] = "interrupted"]
    /\ UNCHANGED <<fixed, stdin, conn, chan, pending, buf, to, out>>

(* The socket can be written to when the connection is up, and when it has  *)
(* failed.                                                                  *)
ConnectGoesOn == pc[Client] = "interrupted" /\ conn' \in {"up", "refused"} /\ Relay

Accept ==
    /\ pc[Server] = "accept"
    /\ conn = "up"
    /\ pc' = [pc EXCEPT ![Server] = "relay"]
    /\ UNCHANGED <<fixed, stdin, conn, chan, pending, buf, to, out>>

(* Without a child the server closes the connection. *)
ForkFails ==
    /\ pc[Server] = "accept"
    /\ conn = "up"
    /\ program[Server].forks
    /\ Leave(Server, "not forked")

-----------------------------------------------------------------------------
Idle(s) == pc[s] = "relay" /\ buf[s] = <<>>

CommReady(s) == chan[s] # <<>> \/ Ended(Peer(s)) \/ conn = "refused"
StdinReady(s) == stdin[s].bytes # <<>> \/ stdin[s].ends

(* Mutant: the connection is looked at when there is nothing to type.       *)
Select_StdinFirst(s) ==
    /\ Idle(s)
    /\ program[s].kind = "copy2files"
    /\ pending[s] = {}
    /\ \/ StdinReady(s) /\ pending' = [pending EXCEPT ![s] = {"stdin"}]
       \/ ~ StdinReady(s) /\ CommReady(s) /\ pending' = [pending EXCEPT ![s] = {"comm"}]
    /\ UNCHANGED <<fixed, stdin, pc, conn, chan, buf, to, out>>

(* select: what is to be typed may not have been typed yet.                 *)
Select(s) ==
    /\ Idle(s)
    /\ program[s].kind = "copy2files"
    /\ pending[s] = {}
    /\ \E typed \in BOOLEAN :
        LET ready == {f \in {"comm", "stdin"} :
                        \/ f = "comm" /\ CommReady(s)
                        \/ f = "stdin" /\ StdinReady(s) /\ typed}
        IN  ready # {} /\ pending' = [pending EXCEPT ![s] = ready]
    /\ UNCHANGED <<fixed, stdin, pc, conn, chan, buf, to, out>>

(* The descriptor that is read next; copy2files reads the connection first. *)
Reading(s, f) ==
    /\ Idle(s)
    /\ CASE program[s].kind = "copyfile" -> f \in DOMAIN program[s].copies
         [] program[s].kind = "copy2files" ->
              f \in pending[s] /\ (f = "stdin" => "comm" \notin pending[s])
         [] program[s].kind = "test" -> f = "comm" /\ Len(out[s]) < BUFSIZE

(* r_read of readwrite: block is going to be written. *)
Take(s, f, block) ==
    /\ buf' = [buf EXCEPT ![s] = block]
    /\ to' = [to EXCEPT ![s] = program[s].copies[f]]
    /\ pending' = [pending EXCEPT ![s] = @ \ {f}]
    /\ UNCHANGED <<fixed, pc, conn, out>>

(* r_read of a connection returns what is there. *)
TakeComm(s) ==
    /\ Reading(s, "comm")
    /\ program[s].kind # "test"
    /\ chan[s] # <<>>
    /\ LET n == Min(BLKSIZE, Len(chan[s]))
       IN  /\ Take(s, "comm", First(chan[s], n))
           /\ chan' = [chan EXCEPT ![s] = Rest(@, n)]
    /\ UNCHANGED stdin

TakeStdin(s) ==
    /\ Reading(s, "stdin")
    /\ \E n \in 1 .. Min(BLKSIZE, Len(stdin[s].bytes)) :
        /\ Take(s, "stdin", First(stdin[s].bytes, n))
        /\ stdin' = [stdin EXCEPT ![s].bytes = Rest(@, n)]
    /\ UNCHANGED chan

StdinEnds(s) ==
    /\ Reading(s, "stdin")
    /\ stdin[s].bytes = <<>>
    /\ stdin[s].ends
    /\ Leave(s, "stdin ended")

(* Mutant: a peer that has ended ends the loop, whatever it has sent.       *)
CommEnds_Early(s) ==
    /\ Reading(s, "comm")
    /\ Ended(Peer(s)) \/ conn = "refused"
    /\ Leave(s, "comm ended")

(* Mutant: the loop is left on an error only, not at the end. *)
CommEnds_Error(s) ==
    /\ Reading(s, "comm")
    /\ chan[s] = <<>>
    /\ conn = "refused"
    /\ Leave(s, "comm ended")

CommEnds(s) ==
    /\ Reading(s, "comm")
    /\ chan[s] = <<>>
    /\ Ended(Peer(s)) \/ conn = "refused"
    /\ Leave(s, "comm ended")

Writing(s, d) == pc[s] = "relay" /\ buf[s] # <<>> /\ to[s] = d

WriteOut(s) ==
    /\ Writing(s, "stdout")
    /\ \E n \in 1 .. Len(buf[s]) :
        /\ out' = [out EXCEPT ![s] = @ \o First(buf[s], n)]
        /\ buf' = [buf EXCEPT ![s] = Rest(@, n)]
    /\ UNCHANGED <<fixed, stdin, pc, conn, chan, pending, to>>

Room(s) == K - Len(chan[Peer(s)])

(* Mutant: after a write that took a part, the whole is written again.      *)
WriteComm_Again(s) ==
    /\ Writing(s, "comm")
    /\ conn = "up" /\ ~ Ended(Peer(s))
    /\ \E n \in 1 .. Min(Len(buf[s]), Room(s)) :
        /\ chan' = [chan EXCEPT ![Peer(s)] = @ \o First(buf[s], n)]
        /\ buf' = [buf EXCEPT ![s] = IF n = Len(@) THEN <<>> ELSE First(@, Len(@) - n)]
    /\ UNCHANGED <<fixed, stdin, pc, conn, pending, to, out>>

(* A write takes a part when a signal ends it. *)
WriteComm(s) ==
    /\ Writing(s, "comm")
    /\ conn = "up" /\ ~ Ended(Peer(s))
    /\ \E n \in 1 .. Min(Len(buf[s]), Room(s)) :
        /\ chan' = [chan EXCEPT ![Peer(s)] = @ \o First(buf[s], n)]
        /\ buf' = [buf EXCEPT ![s] = Rest(@, n)]
    /\ UNCHANGED <<fixed, stdin, pc, conn, pending, to, out>>

(* SIGPIPE is ignored. *)
WriteFails(s) ==
    /\ Writing(s, "comm")
    /\ conn = "refused" \/ Ended(Peer(s))
    /\ Leave(s, "write failed")

(* What is sent to a process that has ended is taken and lost, and resets   *)
(* the connection.                                                          *)
WriteLost(s) ==
    /\ Writing(s, "comm")
    /\ conn = "up" /\ Ended(Peer(s))
    /\ buf' = [buf EXCEPT ![s] = <<>>]
    /\ \E left \in Prefixes(chan[s]) : chan' = [chan EXCEPT ![s] = left]
    /\ UNCHANGED <<fixed, stdin, pc, conn, pending, to, out>>

(* reflectclient's r_read. *)
Receive(s) ==
    /\ Reading(s, "comm")
    /\ program[s].kind = "test"
    /\ chan[s] # <<>>
    /\ LET n == Min(BUFSIZE - Len(out[s]), Len(chan[s]))
       IN  /\ out' = [out EXCEPT ![s] = @ \o First(chan[s], n)]
           /\ chan' = [chan EXCEPT ![s] = Rest(@, n)]
    /\ UNCHANGED <<fixed, stdin, pc, conn, pending, buf, to>>

ReceivedAll(s) ==
    /\ Idle(s)
    /\ program[s].kind = "test"
    /\ Len(out[s]) = BUFSIZE
    /\ Leave(s, "done")

Step(s) ==
    \/ s = Client /\ (Connect \/ ConnectFails \/ ConnectInterrupted \/ ConnectGoesOn)
    \/ s = Server /\ (Accept \/ ForkFails)
    \/ Select(s) \/ TakeComm(s) \/ TakeStdin(s) \/ StdinEnds(s) \/ CommEnds(s)
    \/ WriteOut(s) \/ WriteComm(s) \/ WriteFails(s) \/ WriteLost(s)
    \/ Receive(s) \/ ReceivedAll(s)

Next == \E s \in Side : Step(s)

(* Each process is scheduled, and what is to be typed is typed in the end.  *)
Spec == Init /\ [][Next]_vars /\ \A s \in Side : WF_vars(Step(s))

-----------------------------------------------------------------------------
TypeOK ==
    /\ program \in Pairs
    /\ given \in Stdins
    /\ stdin \in [Side -> [bytes : Seq(Nat), ends : BOOLEAN]]
    /\ pc \in [Side -> {"connect", "interrupted", "accept", "relay"} \cup Endings]
    /\ conn \in {"none", "up", "refused"}
    /\ chan \in [Side -> Seq(Nat)] /\ \A s \in Side : Len(chan[s]) <= K
    /\ pending \in [Side -> SUBSET {"comm", "stdin"}]
    /\ buf \in [Side -> Seq(Nat)]
    /\ to \in [Side -> {"comm", "stdout"}]
    /\ out \in [Side -> Seq(Nat)]

(* The two processes never wait for each other: one that cannot write       *)
(* because the connection is full meets one that will read.                 *)
WaitsToWrite(s) ==
    Writing(s, "comm") /\ conn = "up" /\ ~ Ended(Peer(s)) /\ Room(s) = 0

NotBothWaitToWrite == ~ (WaitsToWrite(Client) /\ WaitsToWrite(Server))

(* What is on its way from a descriptor of s to d.                          *)
Held(s, d) == IF to[s] = d THEN buf[s] ELSE <<>>

(* Every byte that has been read is, in its order, still held, on its way   *)
(* or written, as long as nobody has ended; and what is written is the      *)
(* first of what was read, however it ended.                                *)
Source(s) == IF program[s].kind = "test" THEN bufsend ELSE given[s].bytes
Reflected == program[Server] = reflectserver

Way(s) ==
    IF Reflected
    THEN out[Client] \o Held(Client, "stdout") \o chan[Client] \o buf[Server] \o chan[Server]
           \o Held(Client, "comm")
    ELSE out[Peer(s)] \o Held(Peer(s), "stdout") \o chan[Peer(s)] \o Held(s, "comm")

BytesInOrder ==
    \A s \in Side :
      LET written == out[IF Reflected THEN s ELSE Peer(s)]
      IN  /\ written = First(Source(s), Len(written))
          /\ conn = "up" /\ (~ \E e \in Side : Ended(e)) /\ ~ (Reflected /\ s = Server) =>
               Source(s) = Way(s) \o IF program[s].kind = "test" THEN <<>> ELSE stdin[s].bytes

(* A descriptor that u_connect returns although it could not connect ends a *)
(* program that relays both ways before it has taken anything from its user.*)
UnconnectedTakesNothing ==
    conn = "refused" /\ program[Client].kind = "copy2files" => stdin = given

(* When one side has ended the other does, unless it only waits for its     *)
(* user.                                                                    *)
PeersEnd ==
    \A s \in Side :
        (Ended(Peer(s)) /\ conn = "up" /\ Reads(program[s])) ~> Ended(s)

(* A process that ends with its input, while nobody types on the other side *)
(* and the connection is served, has everything delivered.                  *)
Alone(s) == given[Peer(s)].bytes = <<>> /\ ~ given[Peer(s)].ends

InputArrives ==
    \A s \in Side :
        (pc[s] = "stdin ended" /\ conn = "up" /\ Alone(s) /\ ~ Reflected)
            ~> (out[Peer(s)] = given[s].bytes \/ pc[Peer(s)] = "not forked")

(* reflectclient gets its message back. *)
TestSucceeds ==
    (program[Client].kind = "test" /\ conn = "up")
        ~> (pc[Client] = "done" /\ out[Client] = bufsend)

(* A relay whose input has ended, or whose message comes back in parts, has *)
(* everything arrive.                                                       *)
Delivers == InputArrives /\ TestSucceeds
=============================================================================
