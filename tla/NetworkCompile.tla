--------------------------- MODULE NetworkCompile ---------------------------
(***************************************************************************)
(* networkcompile.c of CPUSchedulingProject/assign5 together with the      *)
(* compile server: main starts a thread for each file, each thread sends   *)
(* the name of its file to the server and returns the server's verdict,    *)
(* and main links when no thread has returned 1.                           *)
(*                                                                         *)
(* Thread c makes connection c.  All hosts named are the one server's, and *)
(* a name is sent and read as one message.                                 *)
(***************************************************************************)
EXTENDS CompileServer

Thread == Conn

CONSTANTS
    ClientFaults       \* "create", "connect", "reset", "fork"

VARIABLES
    mpc,               \* main: "slot", "create", "join", "decide", "wait", "ended", "crashed"
    mi,                \* its loop variable
    flag,              \* 1 if a thread has returned 1
    conn_para,         \* the parameters of the threads: one variable for all
    tpc,               \* the threads
    fn,                \* the file name each thread has read from conn_para
    ret,               \* what each thread returns: "zero", "one" or "NULL"
    linker             \* the process that links: "none", "running", "ended"

mainVars == <<mpc, mi, flag, conn_para, linker>>
threadVars == <<tpc, fn, ret>>
clientVars == <<mpc, mi, flag, conn_para, linker, tpc, fn, ret>>
vars == <<net, request, gone, reply, spc, communfd, parentfd, cpc, gpc, gstatus, compiled,
          mpc, mi, flag, conn_para, linker, tpc, fn, ret>>

ClientInit ==
    /\ mpc = "slot"
    /\ mi = 1
    /\ flag = 0
    /\ conn_para = 0
    /\ tpc = [t \in Thread |-> "none"]
    /\ fn = [t \in Thread |-> 0]
    /\ ret = [t \in Thread |-> "none"]
    /\ linker = "none"

Init == ServerInit /\ ClientInit

Last == mi = NConn

-----------------------------------------------------------------------------
(* main *)

(* main ends, with its threads and connections. *)
Ends(l) ==
    /\ mpc' = l
    /\ gone' = Conn
    /\ UNCHANGED <<net, request, mi, conn_para, threadVars>>

(* Mutant: the arguments of the file before. *)
SetSlot_Previous ==
    /\ mpc = "slot"
    /\ conn_para' = IF mi = 1 THEN 1 ELSE mi - 1
    /\ mpc' = "create"
    /\ UNCHANGED <<netVars, mi, flag, linker, threadVars>>

SetSlot ==
    /\ mpc = "slot"
    /\ conn_para' = mi
    /\ mpc' = "create"
    /\ UNCHANGED <<netVars, mi, flag, linker, threadVars>>

CreateThread ==
    /\ mpc = "create"
    /\ tpc' = [tpc EXCEPT ![mi] = "start"]
    /\ mi' = IF Last THEN 1 ELSE mi + 1
    /\ mpc' = IF Last THEN "join" ELSE "slot"
    /\ UNCHANGED <<netVars, flag, conn_para, linker, fn, ret>>

CreateFails ==
    /\ mpc = "create"
    /\ "create" \in ClientFaults
    /\ Ends("ended")
    /\ UNCHANGED <<flag, linker>>

(* Mutant: the last thread joined decides. *)
FlagAfter_Last(r) == IF r = "one" THEN 1 ELSE 0

FlagAfter(r) == IF r = "one" THEN 1 ELSE flag

(* main dereferences the pointer that the thread has returned. *)
Join ==
    /\ mpc = "join"
    /\ tpc[mi] = "returned"
    /\ IF ret[mi] = "NULL"
         THEN Ends("crashed") /\ UNCHANGED <<flag, linker>>
         ELSE /\ flag' = FlagAfter(ret[mi])
              /\ mi' = IF Last THEN mi ELSE mi + 1
              /\ mpc' = IF Last THEN "decide" ELSE "join"
              /\ UNCHANGED <<netVars, conn_para, linker, threadVars>>

GiveUp ==
    /\ mpc = "decide"
    /\ flag = 1
    /\ Ends("ended")
    /\ UNCHANGED <<flag, linker>>

ForkLink ==
    /\ mpc = "decide"
    /\ flag # 1
    /\ \/ mpc' = "wait" /\ linker' = "running" /\ UNCHANGED <<netVars, mi, flag, conn_para, threadVars>>
       \/ "fork" \in ClientFaults /\ Ends("ended") /\ UNCHANGED <<flag, linker>>

LinkEnds ==
    /\ linker = "running"
    /\ linker' = "ended"
    /\ UNCHANGED <<netVars, mpc, mi, flag, conn_para, threadVars>>

WaitLink ==
    /\ mpc = "wait"
    /\ linker = "ended"
    /\ Ends("ended")
    /\ UNCHANGED <<flag, linker>>

-----------------------------------------------------------------------------
(* threadconnect, in thread t; a thread ends with main. *)

Runs(t, l) == tpc[t] = l /\ mpc \notin {"ended", "crashed"}

Returns(t, v) ==
    /\ tpc' = [tpc EXCEPT ![t] = "returned"]
    /\ ret' = [ret EXCEPT ![t] = v]

ReadSlot(t) ==
    /\ Runs(t, "start")
    /\ fn' = [fn EXCEPT ![t] = conn_para]
    /\ tpc' = [tpc EXCEPT ![t] = "connect"]
    /\ UNCHANGED <<netVars, mainVars, ret>>

ThreadConnects(t) ==
    /\ Runs(t, "connect")
    /\ Connect(t)
    /\ tpc' = [tpc EXCEPT ![t] = "write"]
    /\ UNCHANGED <<mainVars, fn, ret>>

ConnectFails(t) ==
    /\ Runs(t, "connect")
    /\ "connect" \in ClientFaults
    /\ Returns(t, "NULL")
    /\ UNCHANGED <<netVars, mainVars, fn>>

(* r_write: the name is sent even if the server has hung up. *)
ThreadWrites(t) ==
    /\ Runs(t, "write")
    /\ Send(t, fn[t])
    /\ tpc' = [tpc EXCEPT ![t] = "read"]
    /\ UNCHANGED <<mainVars, fn, ret>>

WriteFails(t) ==
    /\ Runs(t, "write")
    /\ "reset" \in ClientFaults
    /\ Returns(t, "NULL")
    /\ UNCHANGED <<netVars, mainVars, fn>>

(* The values of atoi(flag): flag is one byte without a terminator, what    *)
(* follows a "0" may be a digit, and nothing is known of a byte not read.   *)
FlagValues(bytes) == IF bytes # <<>> /\ Head(bytes) = "1" THEN {"one"} ELSE {"zero", "one"}

(* r_read returns the first byte, or nothing at the end of the connection. *)
ThreadReads(t) ==
    /\ Runs(t, "read")
    /\ reply[t] # <<>> \/ Closed(t)
    /\ \E v \in FlagValues(reply[t]) : Returns(t, v)
    /\ UNCHANGED <<netVars, mainVars, fn>>

(* The server has closed a connection on which the client had sent data. *)
ReadFails(t) ==
    /\ Runs(t, "read")
    /\ Closed(t)
    /\ "reset" \in ClientFaults
    /\ Returns(t, "NULL")
    /\ UNCHANGED <<netVars, mainVars, fn>>

MainStep ==
    \/ SetSlot \/ CreateThread \/ CreateFails \/ Join \/ GiveUp \/ ForkLink \/ WaitLink

ThreadStep(t) ==
    \/ ReadSlot(t) \/ ThreadConnects(t) \/ ConnectFails(t) \/ ThreadWrites(t)
    \/ WriteFails(t) \/ ThreadReads(t) \/ ReadFails(t)

ClientStep == MainStep \/ LinkEnds \/ \E t \in Thread : ThreadStep(t)

Next ==
    \/ ServerStep /\ UNCHANGED clientVars
    \/ ClientStep /\ UNCHANGED <<reply, parentVars, cpc, gccVars>>

(* The kernels schedule the processes and threads, and gcc terminates. *)
Spec ==
    /\ Init
    /\ [][Next]_vars
    /\ ServerFairness
    /\ WF_vars(MainStep /\ UNCHANGED <<reply, parentVars, cpc, gccVars>>)
    /\ WF_vars(LinkEnds /\ UNCHANGED <<reply, parentVars, cpc, gccVars>>)
    /\ \A t \in Thread : WF_vars(ThreadStep(t) /\ UNCHANGED <<reply, parentVars, cpc, gccVars>>)

-----------------------------------------------------------------------------
TypeOK ==
    /\ mpc \in {"slot", "create", "join", "decide", "wait", "ended", "crashed"}
    /\ mi \in Thread
    /\ flag \in {0, 1}
    /\ conn_para \in File \cup {0}
    /\ tpc \in [Thread -> {"none", "start", "connect", "write", "read", "returned"}]
    /\ fn \in [Thread -> File \cup {0}]
    /\ ret \in [Thread -> {"none", "zero", "one", "NULL"}]
    /\ linker \in {"none", "running", "ended"}

(* main links only if every connection was answered with a verdict that gcc  *)
(* earned, or was cut off before an answer: no failed compile is linked over. *)
LinkNeedsVerdicts ==
    linker # "none" => \A t \in Thread : t \in compiled \/ (Closed(t) /\ reply[t] = <<>>)

(* The last thread reads the parameters set for it, and so does the thread   *)
(* that has read them before main goes on; a thread that has not may read    *)
(* those of a later thread, never those of an earlier one.                   *)
ReadsALaterSlot == \A t \in Thread : fn[t] # 0 => fn[t] >= t

(* The client comes to its end whatever the server does: every connection   *)
(* is answered or closed.                                                   *)
ClientEnds == <>(mpc \in {"ended", "crashed"})

(* The comment above threadconnect: it sends the file it was started for.    *)
SendsNamedFile == \A t \in Thread : request[t] # 0 => request[t] = t

(* The comment: it returns a pointer to a number, 0 if successful.           *)
ReturnsVerdict ==
    \A t \in Thread : ret[t] # "NULL" /\ (ret[t] = "zero" => t \in compiled)
=============================================================================
