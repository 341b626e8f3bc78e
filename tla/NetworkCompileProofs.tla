------------------------ MODULE NetworkCompileProofs ------------------------
(***************************************************************************)
(* Proofs about networkcompile with its server.  The client's steps are    *)
(* steps of the clients that CompileServer allows, so that the server's    *)
(* invariant holds here too; on it rest the invariants of the client, and  *)
(* that client and server neither wait for each other nor go on for ever.  *)
(***************************************************************************)
EXTENDS NetworkCompile, CompileServerProofs

USE NConnAssumption

(* The connections of which nothing more will be heard but a success. *)
Settled == {t \in Conn : t \in compiled \/ (Closed(t) /\ reply[t] = <<>>)}

(* What the threads have read from the one variable conn_para. *)
Slots ==
    /\ mpc \in {"slot", "create"} => \A t \in Thread : t >= mi => tpc[t] = "none"
    /\ mpc = "create" => conn_para = mi
    /\ \A t \in Thread :
         /\ tpc[t] # "none" => conn_para >= t
         /\ fn[t] # 0 => fn[t] >= t
         /\ tpc[t] \in {"connect", "write"} => fn[t] # 0

(* What the threads have returned, and main has made of it. *)
Returned ==
    /\ \A t \in Thread : tpc[t] = "returned" <=> ret[t] # "none"
    /\ \A t \in Thread : ret[t] = "zero" => t \in Settled
    /\ mpc = "join" /\ flag = 0 => \A t \in Thread : t < mi => ret[t] = "zero"
    /\ mpc = "decide" /\ flag = 0 => \A t \in Thread : ret[t] = "zero"
    /\ linker # "none" => mpc \in {"wait", "ended"} /\ \A t \in Thread : ret[t] = "zero"
    /\ mpc = "wait" => linker # "none"

NInv == TypeOK /\ Slots /\ Returned

ServerVarsSame == UNCHANGED <<reply, parentVars, cpc, gccVars>>

(* What a client step does to the network, any client may do. *)
LEMMA ClientIsAClient == SInv /\ NInv /\ [Next]_vars => [ServerNext]_serverVars
<1> SUFFICES ASSUME SInv, NInv, [Next]_vars PROVE [ServerNext]_serverVars
  OBVIOUS
<1> USE DEF netVars, parentVars, gccVars, mainVars, threadVars
<1>1. CASE ServerStep
  BY <1>1 DEF ServerNext
<1>2. ASSUME ServerVarsSame, NEW l, Ends(l) PROVE ServerNext
  <2>1. gone \cup Conn = Conn
    BY DEF SInv, ServerTypeOK
  <2>2. Leave(Conn)
    BY <1>2, <2>1 DEF Ends, Leave
  <2>3. \E C \in SUBSET Conn : Leave(C)
    BY <2>2
  <2>4. QED
    BY <1>2, <2>3 DEF ServerNext, AnyClient, ServerVarsSame
<1>3. ASSUME ServerVarsSame, netVars' = netVars PROVE UNCHANGED serverVars
  BY <1>3 DEF serverVars, ServerVarsSame
<1>4. CASE ServerVarsSame /\ (MainStep \/ LinkEnds)
  <2>1. CASE SetSlot \/ CreateThread \/ LinkEnds
    BY <1>3, <1>4, <2>1 DEF SetSlot, CreateThread, LinkEnds
  <2>2. CASE CreateFails \/ GiveUp \/ WaitLink
    BY <1>2, <1>4, <2>2 DEF CreateFails, GiveUp, WaitLink
  <2>3. CASE Join \/ ForkLink
    BY <1>2, <1>3, <1>4, <2>3 DEF Join, ForkLink
  <2>4. QED
    BY <1>4, <2>1, <2>2, <2>3 DEF MainStep
<1>5. ASSUME ServerVarsSame, NEW t \in Thread, ThreadStep(t)
      PROVE  [ServerNext]_serverVars
  <2>1. CASE ReadSlot(t) \/ ConnectFails(t) \/ WriteFails(t) \/ ThreadReads(t) \/ ReadFails(t)
    BY <1>3, <1>5, <2>1 DEF ReadSlot, ConnectFails, WriteFails, ThreadReads, ReadFails
  <2>2. CASE ThreadConnects(t)
    BY <1>5, <2>2 DEF ThreadConnects, ServerNext, AnyClient, ServerVarsSame, Thread
  <2>3. CASE ThreadWrites(t)
    <3>1. Send(t, fn[t])
      BY <2>3 DEF ThreadWrites
    <3>2. fn[t] \in File
      BY <1>5, <2>3 DEF ThreadWrites, Runs, NInv, Slots, TypeOK
    <3>3. QED
      BY <1>5, <3>1, <3>2 DEF ServerNext, AnyClient, ServerVarsSame, Thread
  <2>4. QED
    BY <1>5, <2>1, <2>2, <2>3 DEF ThreadStep
<1>6. CASE UNCHANGED vars
  BY <1>6 DEF vars, serverVars
<1>7. QED
  BY <1>1, <1>4, <1>5, <1>6 DEF Next, ClientStep, ServerVarsSame

LEMMA InitNInv == Init => NInv
<1> SUFFICES ASSUME Init PROVE NInv
  OBVIOUS
<1> USE DEF Init, ClientInit, Thread, Conn, File
<1>1. TypeOK
  BY DEF TypeOK
<1>2. Slots /\ Returned
  BY DEF Slots, Returned
<1>3. QED
  BY <1>1, <1>2 DEF NInv

(* A settled connection remains settled. *)
LEMMA SettledStays ==
    ASSUME SInv, [ServerNext]_serverVars
    PROVE  Settled \subseteq Settled'
<1> SUFFICES ASSUME NEW t \in Conn, t \in Settled PROVE t \in Settled'
  BY DEF Settled
<1> USE DEF SInv, ServerTypeOK, Settled, Closed, netVars, parentVars, gccVars, ChildTo, Bytes
<1>1. compiled \subseteq compiled'
  BY DEF ServerNext, ServerStep, AnyClient, ParentStep, Accept, Fork, ForkFails, ParentCloses,
         Reap, ChildStep, ChildProgress, NoMemory, ChildReadsEnd, ChildReads, CompileFails, ChildCloses, ForkGcc, ChildWaits,
         ChildWrites, GccStep, ExecGcc, GccEnds, ExecFails, CopyWrites, serverVars
<1>2. CASE t \in compiled
  BY <1>1, <1>2
<1>3. CASE Closed(t) /\ reply[t] = <<>>
  <2>1. ASSUME NEW c \in Conn, Accept(c) PROVE t \in Settled'
    BY <1>3, <2>1 DEF Accept
  <2>2. CASE Fork \/ ForkFails
    BY <1>3, <2>2 DEF Fork, ForkFails, InHand
  <2>3. CASE ParentCloses \/ Reap
    BY <1>3, <2>3 DEF ParentCloses, Reap
  <2>4. ASSUME NEW c \in Conn, ChildStep(c) PROVE t \in Settled'
    BY <1>3, <2>4 DEF ChildStep, ChildProgress, NoMemory, ChildReadsEnd, ChildReads, CompileFails, ChildCloses, ForkGcc,
                      ChildWaits, ChildWrites
  <2>5. ASSUME NEW c \in Conn, GccStep(c) PROVE t \in Settled'
    BY <1>3, <2>5 DEF GccStep, ExecGcc, GccEnds, ExecFails, CopyWrites
  <2>6. CASE AnyClient
    BY <1>3, <2>6 DEF AnyClient, Connect, Send, Leave
  <2>7. CASE UNCHANGED serverVars
    BY <1>3, <2>7 DEF serverVars
  <2>8. QED
    BY <2>1, <2>2, <2>3, <2>4, <2>5, <2>6, <2>7 DEF ServerNext, ServerStep, ParentStep
<1>4. QED
  BY <1>2, <1>3

(* A thread returns 0 on a settled connection only. *)
LEMMA ZeroIsSettled ==
    ASSUME SInv, NEW t \in Thread, reply[t] # <<>> \/ Closed(t), "zero" \in FlagValues(reply[t])
    PROVE  t \in Settled
<1>1. CASE reply[t] # <<>>
  <2>1. Head(reply[t]) # "1"
    BY <1>1 DEF FlagValues
  <2>2. reply[t] = <<"0">>
    BY <1>1, <2>1, Replies DEF SInv, ServerTypeOK, Thread
  <2>3. t \in compiled
    BY <2>2, Replies, SInvFirstByte DEF FirstByteIsVerdict, Thread
  <2>4. QED
    BY <2>3 DEF Settled, Thread
<1>2. CASE reply[t] = <<>>
  BY <1>2 DEF Settled, Thread
<1>3. QED
  BY <1>1, <1>2

(* What a thread returns from a read. *)
LEMMA ReadValue ==
    ASSUME SInv, NEW t \in Thread, ThreadReads(t)
    PROVE  \E v \in {"zero", "one"} : Returns(t, v) /\ (v = "zero" => t \in Settled)
<1>1. PICK v \in FlagValues(reply[t]) : Returns(t, v)
  BY DEF ThreadReads
<1>2. v \in {"zero", "one"}
  BY <1>1 DEF FlagValues
<1>3. v = "zero" => t \in Settled
  BY <1>1, ZeroIsSettled DEF ThreadReads
<1>4. QED
  BY <1>1, <1>2, <1>3

LEMMA NextType == SInv /\ NInv /\ [Next]_vars => TypeOK'
<1> SUFFICES ASSUME SInv, NInv, [Next]_vars PROVE TypeOK'
  OBVIOUS
<1> USE DEF NInv, TypeOK, netVars, mainVars, threadVars, Thread, Conn, File
<1>2. CASE UNCHANGED clientVars
  BY <1>2 DEF clientVars
<1>3. CASE SetSlot
  BY <1>3 DEF SetSlot
<1>4. CASE CreateThread
  BY <1>4 DEF CreateThread, Last
<1>5. CASE CreateFails
  BY <1>5 DEF CreateFails, Ends
<1>6. CASE Join
  BY <1>6 DEF Join, Ends, FlagAfter, Last
<1>7. CASE GiveUp \/ WaitLink
  BY <1>7 DEF GiveUp, WaitLink, Ends
<1>8. CASE ForkLink
  BY <1>8 DEF ForkLink, Ends
<1>9. CASE LinkEnds
  BY <1>9 DEF LinkEnds
<1>10. ASSUME NEW t \in Thread, ReadSlot(t) PROVE TypeOK'
  BY <1>10 DEF ReadSlot, Runs
<1>11. ASSUME NEW t \in Thread, ThreadConnects(t) \/ ThreadWrites(t) PROVE TypeOK'
  BY <1>11 DEF ThreadConnects, ThreadWrites, Runs
<1>12. ASSUME NEW t \in Thread, ConnectFails(t) \/ WriteFails(t) \/ ReadFails(t) PROVE TypeOK'
  BY <1>12 DEF ConnectFails, WriteFails, ReadFails, Runs, Returns
<1>13. ASSUME NEW t \in Thread, ThreadReads(t) PROVE TypeOK'
  <2>1. PICK v \in {"zero", "one"} : Returns(t, v)
    BY <1>13, ReadValue
  <2>2. QED
    BY <1>13, <2>1 DEF ThreadReads, Runs, Returns
<1>14. CASE UNCHANGED vars
  BY <1>2, <1>14 DEF vars, clientVars
<1>15. QED
  BY <1>2, <1>3, <1>4, <1>5, <1>6, <1>7, <1>8, <1>9, <1>10, <1>11, <1>12, <1>13, <1>14
     DEF Next, ClientStep, MainStep, ThreadStep

LEMMA NextSlots == SInv /\ NInv /\ [Next]_vars => Slots'
<1> SUFFICES ASSUME SInv, NInv, [Next]_vars PROVE Slots'
  OBVIOUS
<1> USE DEF NInv, TypeOK, Slots, netVars, mainVars, threadVars, Thread, Conn, File
<1>2. CASE UNCHANGED clientVars
  BY <1>2 DEF clientVars
<1>3. CASE SetSlot
  BY <1>3 DEF SetSlot
<1>4. CASE CreateThread
  BY <1>4 DEF CreateThread, Last
<1>5. CASE CreateFails
  BY <1>5 DEF CreateFails, Ends
<1>6. CASE Join
  BY <1>6 DEF Join, Ends, FlagAfter, Last
<1>7. CASE GiveUp \/ WaitLink
  BY <1>7 DEF GiveUp, WaitLink, Ends
<1>8. CASE ForkLink
  BY <1>8 DEF ForkLink, Ends
<1>9. CASE LinkEnds
  BY <1>9 DEF LinkEnds
<1>10. ASSUME NEW t \in Thread, ReadSlot(t) PROVE Slots'
  BY <1>10 DEF ReadSlot, Runs
<1>11. ASSUME NEW t \in Thread, ThreadConnects(t) \/ ThreadWrites(t) PROVE Slots'
  BY <1>11 DEF ThreadConnects, ThreadWrites, Runs
<1>12. ASSUME NEW t \in Thread, ConnectFails(t) \/ WriteFails(t) \/ ReadFails(t) PROVE Slots'
  BY <1>12 DEF ConnectFails, WriteFails, ReadFails, Runs, Returns
<1>13. ASSUME NEW t \in Thread, ThreadReads(t) PROVE Slots'
  BY <1>13, ReadValue DEF ThreadReads, Runs, Returns
<1>14. CASE UNCHANGED vars
  BY <1>2, <1>14 DEF vars, clientVars
<1>15. QED
  BY <1>2, <1>3, <1>4, <1>5, <1>6, <1>7, <1>8, <1>9, <1>10, <1>11, <1>12, <1>13, <1>14
     DEF Next, ClientStep, MainStep, ThreadStep

LEMMA NextReturned == SInv /\ NInv /\ [Next]_vars => Returned'
<1> SUFFICES ASSUME SInv, NInv, [Next]_vars PROVE Returned'
  OBVIOUS
<1>1. Settled \subseteq Settled'
  BY ClientIsAClient, SettledStays
<1> USE DEF NInv, TypeOK, Slots, Returned, netVars, mainVars, threadVars, Thread, Conn, File
<1>2. CASE UNCHANGED clientVars
  BY <1>1, <1>2 DEF clientVars
<1>3. CASE SetSlot
  BY <1>1, <1>3 DEF SetSlot
<1>4. CASE CreateThread
  BY <1>1, <1>4 DEF CreateThread, Last
<1>5. CASE CreateFails
  BY <1>1, <1>5 DEF CreateFails, Ends
<1>6. CASE Join
  BY <1>1, <1>6 DEF Join, Ends, FlagAfter, Last
<1>7. CASE GiveUp \/ WaitLink
  BY <1>1, <1>7 DEF GiveUp, WaitLink, Ends
<1>8. CASE ForkLink
  BY <1>1, <1>8 DEF ForkLink, Ends
<1>9. CASE LinkEnds
  BY <1>1, <1>9 DEF LinkEnds
<1>10. ASSUME NEW t \in Thread, ReadSlot(t) PROVE Returned'
  BY <1>1, <1>10 DEF ReadSlot, Runs
<1>11. ASSUME NEW t \in Thread, ThreadConnects(t) \/ ThreadWrites(t) PROVE Returned'
  BY <1>1, <1>11 DEF ThreadConnects, ThreadWrites, Runs
<1>12. ASSUME NEW t \in Thread, ConnectFails(t) \/ WriteFails(t) \/ ReadFails(t) PROVE Returned'
  BY <1>1, <1>12 DEF ConnectFails, WriteFails, ReadFails, Runs, Returns
<1>13. ASSUME NEW t \in Thread, ThreadReads(t) PROVE Returned'
  <2>1. PICK v \in {"zero", "one"} : Returns(t, v) /\ (v = "zero" => t \in Settled)
    BY <1>13, ReadValue
  <2>2. tpc[t] = "read" /\ UNCHANGED mainVars
    BY <1>13 DEF ThreadReads, Runs
  <2>3. ret[t] = "none"
    BY <2>2
  <2>4. \A u \in Thread : ret'[u] = "zero" => u \in Settled'
    BY <1>1, <2>1 DEF Returns
  <2>5. \A u \in Thread : tpc'[u] = "returned" <=> ret'[u] # "none"
    BY <2>1 DEF Returns
  <2>6. \A u \in Thread : ret[u] = "zero" => ret'[u] = "zero"
    BY <2>1, <2>3 DEF Returns
  <2>7. QED
    BY <2>2, <2>3, <2>4, <2>5, <2>6
<1>14. CASE UNCHANGED vars
  BY <1>2, <1>14 DEF vars, clientVars
<1>15. QED
  BY <1>2, <1>3, <1>4, <1>5, <1>6, <1>7, <1>8, <1>9, <1>10, <1>11, <1>12, <1>13, <1>14
     DEF Next, ClientStep, MainStep, ThreadStep

LEMMA NetworkInvariant == Spec => [](SInv /\ NInv)
<1>1. Init => SInv /\ NInv
  BY ServerInitInv, InitNInv DEF Init
<1>2. SInv /\ NInv /\ [Next]_vars => (SInv /\ NInv)'
  BY ClientIsAClient, NextServerType, NextInHand, NextAccount, NextType, NextSlots,
     NextReturned DEF SInv, NInv
<1>3. QED
  BY <1>1, <1>2, PTL DEF Spec

(* main and its threads keep their types, for every number of files.        *)
THEOREM TypeCorrect == Spec => []TypeOK
<1>1. NInv => TypeOK
  BY DEF NInv
<1>2. QED
  BY <1>1, NetworkInvariant, PTL

(* main never links over a failed compile. *)
THEOREM LinksOnVerdicts == Spec => []LinkNeedsVerdicts
<1>1. NInv => LinkNeedsVerdicts
  BY DEF NInv, Returned, Settled, LinkNeedsVerdicts, Thread
<1>2. QED
  BY <1>1, NetworkInvariant, PTL

(* A thread reads the parameters set for it or for a later one. *)
THEOREM NeverAnEarlierSlot == Spec => []ReadsALaterSlot
<1>1. NInv => ReadsALaterSlot
  BY DEF NInv, Slots, ReadsALaterSlot
<1>2. QED
  BY <1>1, NetworkInvariant, PTL

(* The composition implements the compile service. *)
THEOREM NetworkImplementsService == Spec => ServesCompiles
<1>1. SInv /\ NInv /\ [Next]_vars => [Service!Next]_<<compiled, answer>>
  BY ClientIsAClient, ServiceStep
<1>2. Init => Service!Init
  BY ServiceInit DEF Init
<1>3. QED
  BY <1>1, <1>2, NetworkInvariant, PTL DEF Spec, ServesCompiles, Service!Spec
-----------------------------------------------------------------------------
(* The client never waits for ever.                                         *)

(* What is still before main, its threads and the process that links. *)
MainLeft ==
    IF mpc = "slot" THEN 2 * (NConn - mi) + NConn + 6
    ELSE IF mpc = "create" THEN 2 * (NConn - mi) + NConn + 5
    ELSE IF mpc = "join" THEN NConn - mi + 4
    ELSE IF mpc = "decide" THEN 3
    ELSE IF mpc = "wait" THEN 2
    ELSE 0

ThreadLeft(t) ==
    IF tpc[t] = "none" THEN 5
    ELSE IF tpc[t] = "start" THEN 4
    ELSE IF tpc[t] = "connect" THEN 3
    ELSE IF tpc[t] = "write" THEN 2
    ELSE IF tpc[t] = "read" THEN 1
    ELSE 0

LinkerLeft == IF linker = "none" THEN 2 ELSE IF linker = "running" THEN 1 ELSE 0

ClientNoneGoesBack ==
    /\ MainLeft' <= MainLeft /\ LinkerLeft' <= LinkerLeft
    /\ \A t \in Thread : ThreadLeft(t)' <= ThreadLeft(t)

ClientOneGoesOn ==
    \/ MainLeft' < MainLeft
    \/ LinkerLeft' < LinkerLeft
    \/ \E t \in Thread : ThreadLeft(t)' < ThreadLeft(t)

(* A step of the client or of its server takes something from what is left. *)
NoneGoesBack == ClientNoneGoesBack /\ ServerNoneGoesBack

OneGoesOn == ClientOneGoesOn \/ ServerOneGoesOn

(* The guards of MainStep and of ThreadStep(t). *)
MainCan ==
    \/ mpc \in {"slot", "create", "decide"}
    \/ mpc = "join" /\ tpc[mi] = "returned"
    \/ mpc = "wait" /\ linker = "ended"

ThreadCan(t) ==
    /\ mpc \notin {"ended", "crashed"}
    /\ \/ tpc[t] = "start"
       \/ tpc[t] = "connect" /\ net[t] = "none" /\ t \notin gone
       \/ tpc[t] = "write" /\ net[t] # "none" /\ t \notin gone /\ request[t] = 0
       \/ tpc[t] = "read" /\ (reply[t] # <<>> \/ Closed(t))

(* main waits in two places only.  For the linker it does not wait in vain, *)
(* and a thread that it may be joining, or the processes of that thread's   *)
(* connection, or the parent, can take a step that the scheduling assures.  *)
NeverStuck ==
    /\ mpc \notin {"wait", "join", "ended", "crashed"} => MainCan
    /\ mpc = "wait" => MainCan \/ linker = "running"
    /\ mpc = "join" =>
         \A t \in Thread :
           tpc[t] = "returned" \/ ThreadCan(t) \/ ChildCan(t) \/ GccCan(t) \/ ParentCan

(* What the steps of a thread have done to its connection. *)
Connected ==
    mpc \notin {"ended", "crashed"} =>
      /\ gone = {}
      /\ \A t \in Thread :
           /\ tpc[t] \in {"none", "start", "connect"} => net[t] = "none"
           /\ tpc[t] \in {"none", "start", "connect", "write"} => request[t] = 0
           /\ tpc[t] \in {"write", "read"} => net[t] # "none"
           /\ tpc[t] = "read" => request[t] # 0
           /\ tpc[t] = "none" => mpc \in {"slot", "create"} /\ t >= mi

LEMMA InitConnected == Init => Connected
<1> SUFFICES ASSUME Init PROVE Connected
  OBVIOUS
<1> USE DEF Init, ServerInit, ClientInit, Thread, Conn
<1>1. gone = {} /\ mpc = "slot" /\ \A t \in Thread : t >= mi
  OBVIOUS
<1>2. QED
  BY <1>1 DEF Connected

(* The server does not take a connection back. *)
LEMMA NextConnected == SInv /\ NInv /\ Connected /\ [Next]_vars => Connected'
<1> SUFFICES ASSUME SInv, NInv, Connected, [Next]_vars, mpc' \notin {"ended", "crashed"}
             PROVE  Connected'
  BY DEF Connected
<1>0. mpc \notin {"ended", "crashed"}
  BY DEF Next, ClientStep, MainStep, SetSlot, CreateThread, CreateFails, Join, GiveUp, ForkLink,
         WaitLink, Ends, LinkEnds, ThreadStep, ReadSlot, ThreadConnects, ConnectFails, ThreadWrites,
         WriteFails, ThreadReads, ReadFails, Runs, mainVars, clientVars, vars
<1> USE DEF NInv, TypeOK, SInv, ServerTypeOK, Connected, netVars, parentVars, gccVars, mainVars,
            threadVars, Thread, Conn, File
<1>1. CASE ServerStep /\ UNCHANGED clientVars
  <2>1. UNCHANGED <<request, gone, mpc, mi, tpc>>
    BY <1>1 DEF clientVars, ServerStep, ParentStep, Accept, Fork, ForkFails, ParentCloses, Reap,
                ChildStep, ChildProgress, NoMemory, ChildReadsEnd, ChildReads, CompileFails,
                ChildCloses, ForkGcc, ChildWaits, ChildWrites, GccStep, ExecGcc, GccEnds,
                ExecFails, CopyWrites
  <2>2. \A t \in Thread : net'[t] = "none" <=> net[t] = "none"
    BY <1>1 DEF ServerStep, ParentStep, Accept, Fork, ForkFails, ParentCloses, Reap,
                ChildStep, ChildProgress, NoMemory, ChildReadsEnd, ChildReads, CompileFails,
                ChildCloses, ForkGcc, ChildWaits, ChildWrites, GccStep, ExecGcc, GccEnds,
                ExecFails, CopyWrites
  <2>3. QED
    BY <1>0, <2>1, <2>2
<1>2. CASE SetSlot \/ LinkEnds
  <2>1. /\ UNCHANGED netVars /\ UNCHANGED <<tpc, mi>>
        /\ mpc' = mpc \/ (mpc = "slot" /\ mpc' = "create")
    BY <1>2 DEF SetSlot, LinkEnds
  <2>2. QED
    BY <1>0, <2>1
<1>3. CASE CreateThread
  <2>1. /\ mpc = "create" /\ UNCHANGED netVars /\ tpc' = [tpc EXCEPT ![mi] = "start"]
        /\ tpc[mi] = "none" /\ mi \in 1 .. NConn
    BY <1>3 DEF CreateThread, Slots
  <2>2. \A t \in Thread : tpc'[t] = "none" => ~ Last /\ t >= mi + 1
    BY <1>0, <2>1 DEF Last
  <2>3. ~ Last => mi' = mi + 1 /\ mpc' = "slot"
    BY <1>3 DEF CreateThread
  <2>4. \A t \in Thread : tpc'[t] = IF t = mi THEN "start" ELSE tpc[t]
    BY <2>1
  <2>5. QED
    BY <1>0, <2>1, <2>2, <2>3, <2>4
<1>4. CASE CreateFails \/ GiveUp \/ WaitLink
  BY <1>4 DEF CreateFails, GiveUp, WaitLink, Ends
<1>5. CASE Join \/ ForkLink
  BY <1>0, <1>5 DEF Join, ForkLink, Ends
<1>6. ASSUME NEW t \in Thread, ReadSlot(t) PROVE Connected'
  BY <1>0, <1>6 DEF ReadSlot, Runs
<1>7. ASSUME NEW t \in Thread, ThreadConnects(t) PROVE Connected'
  BY <1>0, <1>7 DEF ThreadConnects, Connect, Runs
<1>8. ASSUME NEW t \in Thread, ThreadWrites(t) PROVE Connected'
  <2>1. fn[t] \in File /\ fn[t] # 0
    BY <1>8 DEF ThreadWrites, Runs, Slots
  <2>2. QED
    BY <1>0, <1>8, <2>1 DEF ThreadWrites, Send, Runs
<1>9. ASSUME NEW t \in Thread, ConnectFails(t) \/ WriteFails(t) \/ ThreadReads(t) \/ ReadFails(t)
      PROVE  Connected'
  <2>1. UNCHANGED netVars /\ UNCHANGED mainVars /\ \E v : Returns(t, v)
    BY <1>9 DEF ConnectFails, WriteFails, ThreadReads, ReadFails
  <2>2. tpc' = [tpc EXCEPT ![t] = "returned"]
    BY <2>1 DEF Returns
  <2>3. QED
    BY <1>0, <2>1, <2>2
<1>10. CASE UNCHANGED vars
  BY <1>0, <1>10 DEF vars
<1>11. QED
  BY <1>1, <1>2, <1>3, <1>4, <1>5, <1>6, <1>7, <1>8, <1>9, <1>10
     DEF Next, ClientStep, MainStep, ThreadStep

LEMMA SomebodyCan == SInv /\ NInv /\ Connected => NeverStuck
<1> SUFFICES ASSUME SInv, NInv, Connected PROVE NeverStuck
  OBVIOUS
<1>1. mpc \notin {"wait", "join", "ended", "crashed"} => MainCan
  BY DEF MainCan, NInv, TypeOK
<1>2. mpc = "wait" => MainCan \/ linker = "running"
  BY DEF MainCan, NInv, TypeOK, Returned
<1>3. ASSUME mpc = "join", NEW t \in Thread, tpc[t] # "returned"
      PROVE  ThreadCan(t) \/ ChildCan(t) \/ GccCan(t) \/ ParentCan
  <2>1. gone = {} /\ tpc[t] \in {"start", "connect", "write", "read"}
    BY <1>3 DEF Connected, NInv, TypeOK
  <2>2. CASE tpc[t] \in {"start", "connect", "write"}
    BY <1>3, <2>1, <2>2 DEF Connected, ThreadCan
  <2>3. CASE tpc[t] = "read"
    <3>1. request[t] # 0 /\ net[t] \in {"pending", "open"}
      BY <1>3, <2>3 DEF Connected, SInv, ServerTypeOK, Thread
    <3>2. CASE net[t] = "pending"
      BY <3>2 DEF ParentCan, Thread
    <3>3. CASE net[t] = "open"
      BY <1>3, <2>3, <3>1, <3>3, SInvNoneIsForgotten
         DEF NoneIsForgotten, ThreadCan, ParentCan, Thread
    <3>4. QED
      BY <3>1, <3>2, <3>3
  <2>4. QED
    BY <2>1, <2>2, <2>3
<1>4. QED
  BY <1>1, <1>2, <1>3 DEF NeverStuck

(* Wherever main waits, somebody it waits for can go on, and is not waiting *)
(* for another client: the threads of networkcompile and the processes of   *)
(* the server never wait in a circle.                                       *)
THEOREM NobodyIsStuck == Spec => []NeverStuck
<1>1. SInv /\ NInv /\ Connected /\ [Next]_vars => Connected'
  BY NextConnected
<1>2. QED
  BY <1>1, InitConnected, NetworkInvariant, SomebodyCan, PTL DEF Spec

(* A client's step lowers what is left of the client, and raises nothing;   *)
(* main counts its loops.                                                   *)
LEMMA ClientStepCounts == NInv /\ ClientStep => ClientNoneGoesBack /\ ClientOneGoesOn
<1> SUFFICES ASSUME NInv, ClientStep PROVE ClientNoneGoesBack /\ ClientOneGoesOn
  OBVIOUS
<1> DEFINE Goal == ClientNoneGoesBack /\ ClientOneGoesOn
<1>0. /\ MainLeft \in Nat /\ LinkerLeft \in Nat
      /\ \A t \in Thread : ThreadLeft(t) \in Nat /\ ThreadLeft(t)' \in Nat
      /\ LinkerLeft' \in Nat
      /\ mi \in 1 .. NConn /\ NConn \in Nat
  <2>1. mi \in 1 .. NConn /\ NConn \in Nat
    BY DEF NInv, TypeOK, Thread, Conn
  <2>2. MainLeft \in Nat
    BY <2>1 DEF MainLeft
  <2>3. QED
    BY <2>1, <2>2 DEF ThreadLeft, LinkerLeft
<1>1. ASSUME tpc' = tpc PROVE \A t \in Thread : ThreadLeft(t)' = ThreadLeft(t)
  BY <1>1 DEF ThreadLeft
<1>2. ASSUME linker' = linker PROVE LinkerLeft' = LinkerLeft
  BY <1>2 DEF LinkerLeft
<1>3. ASSUME mpc' = mpc, mi' = mi PROVE MainLeft' = MainLeft
  BY <1>3 DEF MainLeft
<1>4. ASSUME MainLeft' \in Nat, MainLeft' < MainLeft, tpc' = tpc, linker' = linker PROVE Goal
  BY <1>0, <1>1, <1>2, <1>4 DEF ClientNoneGoesBack, ClientOneGoesOn
<1> USE DEF netVars, mainVars, threadVars
<1>5. ASSUME NEW e, Ends(e), e \in {"ended", "crashed"}, mpc \notin {"ended", "crashed"}
      PROVE  MainLeft' \in Nat /\ MainLeft' < MainLeft /\ tpc' = tpc
  <2>1. MainLeft' = 0 /\ tpc' = tpc
    BY <1>5 DEF Ends, MainLeft
  <2>2. MainLeft > 0
    BY <1>0, <1>5 DEF MainLeft, NInv, TypeOK
  <2>3. QED
    BY <2>1, <2>2
<1>6. CASE SetSlot
  <2>1. MainLeft' \in Nat /\ MainLeft' < MainLeft
    BY <1>0, <1>6 DEF SetSlot, MainLeft
  <2>2. QED
    BY <1>4, <1>6, <2>1 DEF SetSlot
<1>7. CASE CreateThread
  <2>1. mpc = "create" /\ linker' = linker /\ tpc' = [tpc EXCEPT ![mi] = "start"] /\ tpc[mi] = "none"
    BY <1>0, <1>7 DEF CreateThread, NInv, Slots, Thread, Conn
  <2>2. MainLeft' \in Nat /\ MainLeft' < MainLeft
    <3>1. CASE Last
      <4>1. mi' = 1 /\ mpc' = "join" /\ mi = NConn
        BY <1>7, <3>1 DEF CreateThread, Last
      <4>2. QED
        BY <1>0, <2>1, <4>1 DEF MainLeft
    <3>2. CASE ~ Last
      <4>1. mi' = mi + 1 /\ mpc' = "slot" /\ mi < NConn
        BY <1>0, <1>7, <3>2 DEF CreateThread, Last
      <4>2. QED
        BY <1>0, <2>1, <4>1 DEF MainLeft
    <3>3. QED
      BY <3>1, <3>2
  <2>3. \A t \in Thread : ThreadLeft(t)' <= ThreadLeft(t)
    <3>1. ASSUME NEW t \in Thread PROVE ThreadLeft(t)' <= ThreadLeft(t)
      <4>1. tpc'[t] = tpc[t] \/ (tpc[t] = "none" /\ tpc'[t] = "start")
        BY <2>1 DEF NInv, TypeOK
      <4>2. QED
        BY <1>0, <4>1 DEF ThreadLeft
    <3>2. QED
      BY <3>1
  <2>4. QED
    BY <1>0, <1>2, <2>1, <2>2, <2>3 DEF ClientNoneGoesBack, ClientOneGoesOn
<1>8. CASE CreateFails \/ GiveUp \/ WaitLink
  <2>1. Ends("ended") /\ mpc \notin {"ended", "crashed"} /\ linker' = linker
    BY <1>8 DEF CreateFails, GiveUp, WaitLink
  <2>2. QED
    BY <1>4, <1>5, <2>1
<1>9. CASE Join
  <2>1. CASE Ends("crashed") /\ linker' = linker
    BY <1>4, <1>5, <1>9, <2>1 DEF Join
  <2>2. CASE /\ mi' = (IF Last THEN mi ELSE mi + 1)
             /\ mpc' = (IF Last THEN "decide" ELSE "join")
             /\ UNCHANGED <<linker, tpc>>
    <3>1. mpc = "join"
      BY <1>9 DEF Join
    <3>2. MainLeft' \in Nat /\ MainLeft' < MainLeft
      <4>1. CASE Last
        BY <1>0, <2>2, <3>1, <4>1 DEF MainLeft, Last
      <4>2. CASE ~ Last
        <5>1. mi' = mi + 1 /\ mpc' = "join" /\ mi < NConn
          BY <1>0, <2>2, <4>2 DEF Last
        <5>2. QED
          BY <1>0, <3>1, <5>1 DEF MainLeft
      <4>3. QED
        BY <4>1, <4>2
    <3>3. QED
      BY <1>4, <2>2, <3>2
  <2>3. QED
    BY <1>9, <2>1, <2>2 DEF Join
<1>10. CASE ForkLink
  <2>1. CASE Ends("ended") /\ linker' = linker
    BY <1>4, <1>5, <1>10, <2>1 DEF ForkLink
  <2>2. CASE mpc' = "wait" /\ linker' = "running" /\ tpc' = tpc
    <3>1. mpc = "decide" /\ linker = "none"
      BY <1>10 DEF ForkLink, NInv, Returned
    <3>2. MainLeft' < MainLeft /\ MainLeft' \in Nat
      BY <2>2, <3>1 DEF MainLeft
    <3>3. LinkerLeft' < LinkerLeft
      BY <2>2, <3>1 DEF LinkerLeft
    <3>4. QED
      BY <1>0, <1>1, <2>2, <3>2, <3>3 DEF ClientNoneGoesBack, ClientOneGoesOn
  <2>3. QED
    BY <1>10, <2>1, <2>2 DEF ForkLink
<1>11. CASE LinkEnds
  <2>1. UNCHANGED <<mpc, mi, tpc>>
    BY <1>11 DEF LinkEnds
  <2>2. LinkerLeft' < LinkerLeft
    BY <1>11 DEF LinkEnds, LinkerLeft
  <2>3. QED
    BY <1>0, <1>1, <1>3, <2>1, <2>2 DEF ClientNoneGoesBack, ClientOneGoesOn
<1>12. ASSUME NEW t \in Thread, ThreadStep(t) PROVE Goal
  <2>1. UNCHANGED <<mpc, mi, linker>>
    BY <1>12 DEF ThreadStep, ReadSlot, ThreadConnects, ConnectFails, ThreadWrites,
                 WriteFails, ThreadReads, ReadFails
  <2>2. /\ \A u \in Thread : u # t => tpc'[u] = tpc[u]
        /\ \/ tpc[t] = "start" /\ tpc'[t] = "connect"
           \/ tpc[t] = "connect" /\ tpc'[t] = "write"
           \/ tpc[t] = "write" /\ tpc'[t] = "read"
           \/ tpc[t] \in {"connect", "write", "read"} /\ tpc'[t] = "returned"
    BY <1>12 DEF ThreadStep, ReadSlot, ThreadConnects, ConnectFails, ThreadWrites,
                 WriteFails, ThreadReads, ReadFails, Runs, Returns, NInv, TypeOK
  <2>3. ThreadLeft(t)' < ThreadLeft(t)
    BY <2>2 DEF ThreadLeft
  <2>4. \A u \in Thread : u # t => ThreadLeft(u)' = ThreadLeft(u)
    BY <2>2 DEF ThreadLeft
  <2>5. QED
    BY <1>0, <1>2, <1>3, <2>1, <2>3, <2>4 DEF ClientNoneGoesBack, ClientOneGoesOn
<1>13. QED
  BY <1>6, <1>7, <1>8, <1>9, <1>10, <1>11, <1>12 DEF ClientStep, MainStep

LEMMA ClientRests == NInv /\ UNCHANGED clientVars => ClientNoneGoesBack
<1> SUFFICES ASSUME NInv, UNCHANGED clientVars PROVE ClientNoneGoesBack
  OBVIOUS
<1>1. /\ MainLeft' = MainLeft /\ LinkerLeft' = LinkerLeft
      /\ \A t \in Thread : ThreadLeft(t)' = ThreadLeft(t)
  BY DEF clientVars, MainLeft, LinkerLeft, ThreadLeft
<1>2. /\ MainLeft \in Nat /\ LinkerLeft \in Nat
      /\ \A t \in Thread : ThreadLeft(t) \in Nat
  <2>1. mi \in 1 .. NConn /\ NConn \in Nat
    BY DEF NInv, TypeOK, Thread, Conn
  <2>2. MainLeft \in Nat
    BY <2>1 DEF MainLeft
  <2>3. QED
    BY <2>2 DEF ThreadLeft, LinkerLeft
<1>3. QED
  BY <1>1, <1>2 DEF ClientNoneGoesBack

(* What is left of main, of its threads, of each connection and of each of  *)
(* the server's processes is a number that every step lowers somewhere, and *)
(* raises nowhere except the parent's by a turn for a connection accepted:  *)
(* the client does not go round in a circle with its server.                *)
THEOREM StepsRunOut == Spec => [][NoneGoesBack /\ OneGoesOn]_vars
<1>1. ASSUME SInv, NInv, Next PROVE NoneGoesBack /\ OneGoesOn
  <2>1. CASE ServerStep /\ UNCHANGED clientVars
    BY <1>1, <2>1, ClientRests, ServerStepCounts DEF NoneGoesBack, OneGoesOn
  <2>2. CASE ClientStep
    <3>1. [ServerNext]_serverVars
      BY <1>1, ClientIsAClient
    <3>2. ServerNoneGoesBack
      BY <1>1, <3>1, ServerNextCounts
    <3>3. QED
      BY <1>1, <2>2, <3>2, ClientStepCounts DEF NoneGoesBack, OneGoesOn
  <2>3. QED
    BY <1>1, <2>1, <2>2 DEF Next
<1>2. QED
  BY <1>1, NetworkInvariant, PTL DEF Spec
=============================================================================
