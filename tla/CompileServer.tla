--------------------------- MODULE CompileServer ---------------------------
(***************************************************************************)
(* The compile server of CPUSchedulingProject/assign5: compileserver.c and *)
(* compile() in makelib.c.  The parent accepts a connection, forks a child *)
(* for it, closes its own descriptor and collects the children that have   *)
(* ended.  The child reads the name of a file, compiles it (a grandchild   *)
(* execs gcc) and writes one byte, "0" for success and "1" for failure.    *)
(*                                                                         *)
(* Every process keeps the descriptors it inherits, so a client reads the  *)
(* end of its connection only when the parent, the child and the           *)
(* grandchild have all closed theirs or ended.  The client is any program  *)
(* that connects, may send one name and may go.                            *)
(***************************************************************************)
EXTENDS Integers, Sequences

CONSTANTS
    NConn,             \* the number of connections made
    Faults             \* what may fail: "fork", "malloc", "exec", "source"

ASSUME NConnAssumption == NConn \in Nat \ {0}

(* A connection, which is also the name of the child that serves it. *)
Conn == 1 .. NConn

(* The file of thread or client c is c; 0 is no file. *)
File == Conn

VARIABLES
    net,               \* net[c]: "none", "pending" (not accepted yet) or "open"
    request,           \* request[c]: the file named in the bytes the client has sent
    gone,              \* the connections whose client has ended
    reply,             \* reply[c]: all bytes written to the client
    spc,               \* the parent: "accept", "fork", "close", "reap"
    communfd,          \* the connection accepted last
    parentfd,          \* the connections the parent holds open
    cpc,               \* the child of each connection
    gpc,               \* the grandchild of each connection
    gstatus,           \* its exit status
    compiled           \* the connections whose file gcc has compiled

netVars == <<net, request, gone>>
parentVars == <<spc, communfd, parentfd>>
gccVars == <<gpc, gstatus, compiled>>
serverVars == <<net, request, gone, reply, spc, communfd, parentfd, cpc, gpc, gstatus, compiled>>

ServerInit ==
    /\ net = [c \in Conn |-> "none"]
    /\ request = [c \in Conn |-> 0]
    /\ gone = {}
    /\ reply = [c \in Conn |-> <<>>]
    /\ spc = "accept"
    /\ communfd = 0
    /\ parentfd = {}
    /\ cpc = [c \in Conn |-> "none"]
    /\ gpc = [c \in Conn |-> "none"]
    /\ gstatus = [c \in Conn |-> 0]
    /\ compiled = {}

(* The server's end of the connection is closed. *)
Closed(c) ==
    /\ net[c] = "open"
    /\ c \notin parentfd
    /\ cpc[c] \in {"none", "zombie", "reaped"}
    /\ gpc[c] \in {"none", "zombie", "reaped"}

-----------------------------------------------------------------------------
(* The parent. *)

Accept(c) ==
    /\ spc = "accept"
    /\ net[c] = "pending"
    /\ net' = [net EXCEPT ![c] = "open"]
    /\ communfd' = c
    /\ parentfd' = parentfd \cup {c}
    /\ spc' = "fork"
    /\ UNCHANGED <<request, gone, reply, cpc, gccVars>>

Fork ==
    /\ spc = "fork"
    /\ cpc' = [cpc EXCEPT ![communfd] = "read"]
    /\ spc' = "close"
    /\ UNCHANGED <<netVars, reply, communfd, parentfd, gccVars>>

(* The parent goes on as if it had a child. *)
ForkFails ==
    /\ spc = "fork"
    /\ "fork" \in Faults
    /\ spc' = "close"
    /\ UNCHANGED <<netVars, reply, communfd, parentfd, cpc, gccVars>>

(* Mutant: the parent leaves the descriptor to its child. *)
ParentCloses_Not ==
    /\ spc = "close"
    /\ spc' = "reap"
    /\ UNCHANGED <<netVars, reply, communfd, parentfd, cpc, gccVars>>

ParentCloses ==
    /\ spc = "close"
    /\ parentfd' = parentfd \ {communfd}
    /\ spc' = "reap"
    /\ UNCHANGED <<netVars, reply, communfd, cpc, gccVars>>

(* Mutant: waitpid without WNOHANG and until there is no child. *)
NothingToReap_Blocking ==
    \A c \in Conn : cpc[c] \in {"none", "reaped"}

(* waitpid with WNOHANG has nothing to return. *)
NothingToReap == \A c \in Conn : cpc[c] # "zombie"

Reap ==
    /\ spc = "reap"
    /\ \/ /\ \E c \in Conn : cpc[c] = "zombie" /\ cpc' = [cpc EXCEPT ![c] = "reaped"]
          /\ UNCHANGED spc
       \/ /\ NothingToReap
          /\ spc' = "accept"
          /\ UNCHANGED cpc
    /\ UNCHANGED <<netVars, reply, communfd, parentfd, gccVars>>

-----------------------------------------------------------------------------
(* The child of connection c. *)

ChildTo(c, l) == cpc' = [cpc EXCEPT ![c] = l]

(* malloc fails: the child ends without an answer. *)
NoMemory(c) ==
    /\ cpc[c] = "read"
    /\ "malloc" \in Faults
    /\ ChildTo(c, "zombie")
    /\ UNCHANGED <<netVars, reply, parentVars, gccVars>>

(* The child reads the end of the connection, or an error, and ends. *)
ChildReadsEnd(c) ==
    /\ cpc[c] = "read"
    /\ c \in gone /\ request[c] = 0
    /\ ChildTo(c, "zombie")
    /\ UNCHANGED <<netVars, reply, parentVars, gccVars>>

ChildReads(c) ==
    /\ cpc[c] = "read"
    /\ request[c] # 0
    /\ ChildTo(c, "compile")
    /\ UNCHANGED <<netVars, reply, parentVars, gccVars>>

ForkGcc(c) ==
    /\ cpc[c] = "compile"
    /\ gpc' = [gpc EXCEPT ![c] = "exec"]
    /\ ChildTo(c, "wait")
    /\ UNCHANGED <<netVars, reply, parentVars, gstatus, compiled>>

(* compile() returns 0 when it has no memory or cannot fork. *)
CompileFails(c) ==
    /\ cpc[c] = "compile"
    /\ Faults \cap {"malloc", "fork"} # {}
    /\ ChildTo(c, "one")
    /\ UNCHANGED <<netVars, reply, parentVars, gccVars>>

(* Mutant: the answers are the values compile() returns. *)
VerdictOf_Swapped(status) == IF status = 0 THEN "one" ELSE "zero"

VerdictOf(status) == IF status = 0 THEN "zero" ELSE "one"

(* compile() collects the grandchild and returns 1 if its status is 0. *)
ChildWaits(c) ==
    /\ cpc[c] = "wait"
    /\ gpc[c] = "zombie"
    /\ gpc' = [gpc EXCEPT ![c] = "reaped"]
    /\ ChildTo(c, VerdictOf(gstatus[c]))
    /\ UNCHANGED <<netVars, reply, parentVars, gstatus, compiled>>

Bytes(c, b) == reply' = [reply EXCEPT ![c] = Append(@, b)]

(* write: the byte, or an error if the client has gone. *)
ChildWrites(c) ==
    /\ cpc[c] \in {"zero", "one"}
    /\ \/ Bytes(c, IF cpc[c] = "zero" THEN "0" ELSE "1") /\ ChildTo(c, "close")
       \/ c \in gone /\ ChildTo(c, "zombie") /\ UNCHANGED reply
    /\ UNCHANGED <<netVars, parentVars, gccVars>>

ChildCloses(c) ==
    /\ cpc[c] = "close"
    /\ ChildTo(c, "zombie")
    /\ UNCHANGED <<netVars, reply, parentVars, gccVars>>

-----------------------------------------------------------------------------
(* The grandchild of connection c. *)

ExecGcc(c) ==
    /\ gpc[c] = "exec"
    /\ gpc' = [gpc EXCEPT ![c] = "gcc"]
    /\ UNCHANGED <<netVars, reply, parentVars, cpc, gstatus, compiled>>

GccEnds(c) ==
    /\ gpc[c] = "gcc"
    /\ gpc' = [gpc EXCEPT ![c] = "zombie"]
    /\ \/ gstatus' = [gstatus EXCEPT ![c] = 0] /\ compiled' = compiled \cup {c}
       \/ "source" \in Faults /\ gstatus' = [gstatus EXCEPT ![c] = 1] /\ UNCHANGED compiled
    /\ UNCHANGED <<netVars, reply, parentVars, cpc>>

ExecFails(c) ==
    /\ gpc[c] = "exec"
    /\ "exec" \in Faults
    /\ gpc' = [gpc EXCEPT ![c] = "copy"]
    /\ UNCHANGED <<netVars, reply, parentVars, cpc, gstatus, compiled>>

(* Mutant: the copy exits without going through the child's code. *)
CopyWrites_Exits(c) ==
    /\ gpc[c] = "copy"
    /\ gpc' = [gpc EXCEPT ![c] = "zombie"]
    /\ UNCHANGED <<netVars, reply, parentVars, cpc, gstatus, compiled>>

(* compile() has returned 0 in the grandchild, which goes on with the code  *)
(* of the child whose copy it is: it writes "1" and exits with status 0, or *)
(* -1 if it could not write.                                                *)
CopyWrites(c) ==
    /\ gpc[c] = "copy"
    /\ gpc' = [gpc EXCEPT ![c] = "zombie"]
    /\ \/ Bytes(c, "1") /\ gstatus' = [gstatus EXCEPT ![c] = 0]
       \/ c \in gone /\ gstatus' = [gstatus EXCEPT ![c] = 1] /\ UNCHANGED reply
    /\ UNCHANGED <<netVars, parentVars, cpc, compiled>>

ParentStep == (\E c \in Conn : Accept(c)) \/ Fork \/ ForkFails \/ ParentCloses \/ Reap

ChildProgress(c) ==
    \/ ChildReadsEnd(c) \/ ChildReads(c) \/ ForkGcc(c) \/ CompileFails(c)
    \/ ChildWaits(c) \/ ChildWrites(c) \/ ChildCloses(c)

ChildStep(c) == NoMemory(c) \/ ChildProgress(c)

GccStep(c) == ExecGcc(c) \/ GccEnds(c) \/ ExecFails(c) \/ CopyWrites(c)

ServerStep == ParentStep \/ \E c \in Conn : ChildStep(c) \/ GccStep(c)

-----------------------------------------------------------------------------
(* Any clients: what a client program may do to the network. *)

Connect(c) ==
    /\ net[c] = "none"
    /\ c \notin gone
    /\ net' = [net EXCEPT ![c] = "pending"]
    /\ UNCHANGED <<request, gone>>

Send(c, f) ==
    /\ net[c] # "none"
    /\ c \notin gone
    /\ request[c] = 0
    /\ request' = [request EXCEPT ![c] = f]
    /\ UNCHANGED <<net, gone>>

(* The client processes of these connections end. *)
Leave(C) ==
    /\ gone' = gone \cup C
    /\ UNCHANGED <<net, request>>

AnyClient ==
    /\ \/ \E c \in Conn : Connect(c) \/ (\E f \in File : Send(c, f))
       \/ \E C \in SUBSET Conn : Leave(C)
    /\ UNCHANGED <<reply, parentVars, cpc, gccVars>>

ServerNext == ServerStep \/ AnyClient

(* A child that waits for a name is not helped by a malloc that must fail.   *)
ServerFairness ==
    /\ WF_serverVars(ParentStep)
    /\ \A c \in Conn : WF_serverVars(ChildProgress(c)) /\ WF_serverVars(GccStep(c))

ServerSpec == ServerInit /\ [][ServerNext]_serverVars /\ ServerFairness

-----------------------------------------------------------------------------
ServerTypeOK ==
    /\ net \in [Conn -> {"none", "pending", "open"}]
    /\ request \in [Conn -> File \cup {0}]
    /\ gone \subseteq Conn
    /\ reply \in [Conn -> {<<>>, <<"0">>, <<"1">>, <<"1", "0">>}]
    /\ spc \in {"accept", "fork", "close", "reap"}
    /\ communfd \in Conn \cup {0}
    /\ parentfd \subseteq Conn
    /\ cpc \in [Conn -> {"none", "read", "compile", "wait", "zero", "one", "close",
                         "zombie", "reaped"}]
    /\ gpc \in [Conn -> {"none", "exec", "gcc", "copy", "zombie", "reaped"}]
    /\ gstatus \in [Conn -> {0, 1}]
    /\ compiled \subseteq Conn

(* The first byte of a reply is the verdict, although a grandchild that      *)
(* could not execute gcc writes a byte of its own and exits with the status  *)
(* of a success, so that the child writes a "0" after it.                    *)
FirstByteIsVerdict ==
    \A c \in Conn : reply[c] # <<>> => (Head(reply[c]) = "0" <=> c \in compiled)

(* A client that is still there reads an answer before the end of its        *)
(* connection, unless the child had to give up or was never forked: the      *)
(* server does not hang up on a client it has begun to compile for.          *)
NoHangUp ==
    \A c \in Conn \ gone : Closed(c) /\ gpc[c] # "none" => reply[c] # <<>>

(* Who sends a path is answered, and the first byte of the answer is true.  *)
AnswersWithVerdict == FirstByteIsVerdict /\ NoHangUp

(* The parent waits for connections with no connection open of its own, also *)
(* when fork has failed: a finished child is the end of its connection.      *)
ParentHoldsNone == spc = "accept" => parentfd = {}

(* A connection that has been made is accepted, however long the others      *)
(* take, even if a client never sends its request.                           *)
EveryoneIsAccepted == \A c \in Conn : net[c] = "pending" ~> net[c] = "open"

(* The verdict given to each connection. *)
answer == [c \in Conn |-> IF reply[c] = <<>> THEN "none" ELSE Head(reply[c])]

(* The server, with two processes that write to one connection, implements   *)
(* the service.                                                              *)
Service == INSTANCE CompileService

ServesCompiles == Service!Spec
=============================================================================
