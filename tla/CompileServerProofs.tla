------------------------ MODULE CompileServerProofs ------------------------
(***************************************************************************)
(* Proofs about CompileServer, for any number of connections, any faults   *)
(* and any clients: the verdict of a connection is its first byte, the     *)
(* server implements CompileService, nobody who asks is forgotten, and     *)
(* no connection keeps the server busy for ever.                           *)
(***************************************************************************)
EXTENDS CompileServer, SequenceTheorems, TLAPS

USE NConnAssumption

(* What has been written to c and compiled for c, by where c's child and    *)
(* its grandchild are.                                                      *)
Earned(c) == c \in compiled /\ reply[c] = <<>>
Copied(c) == c \notin compiled /\ reply[c] = <<"1">>
Nothing(c) == c \notin compiled /\ reply[c] = <<>>

Account(c) ==
    /\ cpc[c] \in {"none", "read", "compile"} => gpc[c] = "none" /\ Nothing(c)
    /\ cpc[c] = "wait" => gpc[c] \in {"exec", "gcc", "copy", "zombie"}
    /\ gpc[c] \in {"exec", "gcc", "copy"} => cpc[c] = "wait" /\ Nothing(c)
    /\ gpc[c] = "zombie" =>
         /\ cpc[c] = "wait"
         /\ gstatus[c] = 0 => Earned(c) \/ Copied(c)
         /\ gstatus[c] # 0 => Nothing(c)
    /\ cpc[c] = "zero" => gpc[c] = "reaped" /\ (Earned(c) \/ Copied(c))
    /\ cpc[c] = "one" => gpc[c] \in {"none", "reaped"} /\ Nothing(c)
    /\ cpc[c] \in {"close", "zombie", "reaped"} =>
         /\ gpc[c] \in {"none", "reaped"}
         /\ \/ reply[c] = <<>> /\ (gpc[c] = "none" \/ c \in gone)
            \/ reply[c] = <<"0">> /\ c \in compiled
            \/ reply[c] \in {<<"1">>, <<"1", "0">>} /\ c \notin compiled

(* The parent holds the connection in hand and no other. *)
InHand ==
    /\ spc \in {"accept", "reap"} => parentfd = {}
    /\ spc \in {"fork", "close"} => communfd \in Conn /\ parentfd = {communfd}
    /\ spc = "fork" => cpc[communfd] = "none" /\ net[communfd] = "open"
    /\ \A c \in Conn : net[c] # "open" => cpc[c] = "none"

SInv ==
    /\ ServerTypeOK
    /\ InHand
    /\ \A c \in Conn : Account(c)

LEMMA AppendToOne == ASSUME NEW a, NEW b PROVE Append(<<a>>, b) = <<a, b>>
<1> DEFINE S == {a, b}
           s == Append(<<a>>, b)
           t == <<a, b>>
<1>1. <<a>> \in Seq(S) /\ Len(<<a>>) = 1 /\ <<a>>[1] = a
  OBVIOUS
<1>2. s \in Seq(S) /\ Len(s) = 2 /\ s[1] = a /\ s[2] = b
  BY <1>1
<1>3. t \in Seq(S) /\ Len(t) = 2 /\ t[1] = a /\ t[2] = b
  OBVIOUS
<1> HIDE DEF s, t
<1>4. \A k \in 1 .. Len(s) : s[k] = t[k]
  BY <1>2, <1>3
<1>5. s = t
  BY <1>2, <1>3, <1>4, SeqEqual
<1>6. QED
  BY <1>5 DEF s, t

(* The bytes of a reply. *)
LEMMA Replies ==
    /\ Append(<<>>, "0") = <<"0">> /\ Append(<<>>, "1") = <<"1">>
    /\ Append(<<"1">>, "0") = <<"1", "0">>
    /\ Head(<<"0">>) = "0" /\ Head(<<"1">>) = "1" /\ Head(<<"1", "0">>) = "1"
    /\ <<"0">> # <<>> /\ <<"1">> # <<>> /\ <<"1", "0">> # <<>>
<1>1. Append(<<>>, "0") = <<"0">> /\ Append(<<>>, "1") = <<"1">>
  OBVIOUS
<1>2. Append(<<"1">>, "0") = <<"1", "0">>
  BY AppendToOne
<1>3. Head(<<"0">>) = "0" /\ Head(<<"1">>) = "1" /\ Head(<<"1", "0">>) = "1"
  OBVIOUS
<1>4. <<"0">> # <<>>
  OBVIOUS
<1>5. <<"1">> # <<>>
  OBVIOUS
<1>6. <<"1", "0">> # <<>>
  OBVIOUS
<1>7. QED
  BY <1>1, <1>2, <1>3, <1>4, <1>5, <1>6

LEMMA ServerInitInv == ServerInit => SInv
  BY DEF ServerInit, SInv, ServerTypeOK, InHand, Account, Nothing, Conn, File

(* What the child writes: the byte that its account calls for. *)
LEMMA ChildWritten ==
    ASSUME SInv, NEW c \in Conn, ChildWrites(c)
    PROVE  \/ cpc[c] = "zero" /\ Earned(c) /\ reply' = [reply EXCEPT ![c] = <<"0">>]
           \/ cpc[c] = "zero" /\ Copied(c) /\ reply' = [reply EXCEPT ![c] = <<"1", "0">>]
           \/ cpc[c] = "one" /\ Nothing(c) /\ reply' = [reply EXCEPT ![c] = <<"1">>]
           \/ c \in gone /\ reply' = reply /\ cpc' = [cpc EXCEPT ![c] = "zombie"]
<1>1. /\ cpc[c] = "zero" => Earned(c) \/ Copied(c)
      /\ cpc[c] = "one" => Nothing(c)
      /\ cpc[c] \in {"zero", "one"} /\ reply \in [Conn -> {<<>>, <<"0">>, <<"1">>, <<"1", "0">>}]
  BY DEF SInv, ServerTypeOK, Account, ChildWrites
<1>2. CASE c \in gone /\ ChildTo(c, "zombie") /\ reply' = reply
  BY <1>2 DEF ChildTo
<1>3. CASE reply' = [reply EXCEPT ![c] = Append(reply[c], IF cpc[c] = "zero" THEN "0" ELSE "1")]
  <2>1. CASE cpc[c] = "zero" /\ Earned(c)
    BY <1>3, <2>1, Replies DEF Earned
  <2>2. CASE cpc[c] = "zero" /\ Copied(c)
    BY <1>3, <2>2, Replies DEF Copied
  <2>3. CASE cpc[c] = "one" /\ Nothing(c)
    BY <1>3, <2>3, Replies DEF Nothing
  <2>4. QED
    BY <1>1, <2>1, <2>2, <2>3
<1>4. QED
  BY <1>2, <1>3 DEF ChildWrites, Bytes

LEMMA NextServerType == SInv /\ [ServerNext]_serverVars => ServerTypeOK'
<1> SUFFICES ASSUME SInv, [ServerNext]_serverVars PROVE ServerTypeOK'
  OBVIOUS
<1> USE DEF SInv, ServerTypeOK, netVars, parentVars, gccVars, ChildTo, Bytes
<1>1. ASSUME NEW c \in Conn, Accept(c) PROVE ServerTypeOK'
  BY <1>1 DEF Accept
<1>2. CASE Fork \/ ForkFails
  BY <1>2 DEF Fork, ForkFails
<1>3. CASE ParentCloses \/ Reap
  BY <1>3 DEF ParentCloses, Reap
<1>4. ASSUME NEW c \in Conn, NoMemory(c) \/ ChildReadsEnd(c) \/ ChildReads(c) \/ CompileFails(c) \/ ChildCloses(c)
      PROVE  ServerTypeOK'
  BY <1>4 DEF NoMemory, ChildReadsEnd, ChildReads, CompileFails, ChildCloses
<1>5. ASSUME NEW c \in Conn, ForkGcc(c) \/ ChildWaits(c) PROVE ServerTypeOK'
  BY <1>5 DEF ForkGcc, ChildWaits, VerdictOf
<1>6. ASSUME NEW c \in Conn, ChildWrites(c) PROVE ServerTypeOK'
  <2>1. reply' \in [Conn -> {<<>>, <<"0">>, <<"1">>, <<"1", "0">>}]
    BY <1>6, ChildWritten
  <2>2. QED
    BY <1>6, <2>1 DEF ChildWrites
<1>7. ASSUME NEW c \in Conn, CopyWrites(c) PROVE ServerTypeOK'
  <2>1. reply' \in [Conn -> {<<>>, <<"0">>, <<"1">>, <<"1", "0">>}]
    BY <1>7, Replies DEF CopyWrites, Account, Nothing
  <2>2. QED
    BY <1>7, <2>1 DEF CopyWrites
<1>8. ASSUME NEW c \in Conn, ExecGcc(c) \/ GccEnds(c) \/ ExecFails(c) PROVE ServerTypeOK'
  BY <1>8 DEF ExecGcc, GccEnds, ExecFails
<1>9. CASE AnyClient
  BY <1>9 DEF AnyClient, Connect, Send, Leave
<1>10. CASE UNCHANGED serverVars
  BY <1>10 DEF serverVars
<1>11. QED
  BY <1>1, <1>2, <1>3, <1>4, <1>5, <1>6, <1>7, <1>8, <1>9, <1>10
     DEF ServerNext, ServerStep, ParentStep, ChildStep, ChildProgress, GccStep

LEMMA NextInHand == SInv /\ [ServerNext]_serverVars => InHand'
<1> SUFFICES ASSUME SInv, [ServerNext]_serverVars PROVE InHand'
  OBVIOUS
<1> USE DEF SInv, ServerTypeOK, InHand, netVars, parentVars, gccVars, ChildTo
<1>1. ASSUME NEW c \in Conn, Accept(c) PROVE InHand'
  BY <1>1 DEF Accept
<1>2. CASE Fork \/ ForkFails
  BY <1>2 DEF Fork, ForkFails
<1>3. CASE ParentCloses \/ Reap
  BY <1>3 DEF ParentCloses, Reap
<1>4. ASSUME NEW c \in Conn, ChildStep(c) PROVE InHand'
  BY <1>4 DEF ChildStep, ChildProgress, NoMemory, ChildReadsEnd, ChildReads, CompileFails, ChildCloses, ForkGcc,
              ChildWaits, ChildWrites
<1>5. ASSUME NEW c \in Conn, GccStep(c) PROVE InHand'
  BY <1>5 DEF GccStep, ExecGcc, GccEnds, ExecFails, CopyWrites
<1>6. CASE AnyClient
  BY <1>6 DEF AnyClient, Connect, Send, Leave
<1>7. CASE UNCHANGED serverVars
  BY <1>7 DEF serverVars
<1>8. QED
  BY <1>1, <1>2, <1>3, <1>4, <1>5, <1>6, <1>7 DEF ServerNext, ServerStep, ParentStep

LEMMA NextAccount == SInv /\ [ServerNext]_serverVars => \A c \in Conn : Account(c)'
<1> SUFFICES ASSUME SInv, [ServerNext]_serverVars, NEW d \in Conn PROVE Account(d)'
  OBVIOUS
<1> USE DEF SInv, ServerTypeOK, Account, Earned, Copied, Nothing, netVars, parentVars, gccVars,
            ChildTo
<1>1. ASSUME NEW c \in Conn, Accept(c) PROVE Account(d)'
  BY <1>1 DEF Accept
<1>2. CASE Fork \/ ForkFails
  BY <1>2 DEF Fork, ForkFails, InHand
<1>3. CASE ParentCloses \/ Reap
  BY <1>3 DEF ParentCloses, Reap
<1>4. ASSUME NEW c \in Conn, ChildStep(c) PROVE Account(d)'
  <2>1. CASE NoMemory(c) \/ ChildReadsEnd(c) \/ ChildReads(c)
    BY <2>1 DEF NoMemory, ChildReadsEnd, ChildReads
  <2>2. CASE CompileFails(c) \/ ChildCloses(c)
    BY <2>2 DEF CompileFails, ChildCloses
  <2>3. CASE ForkGcc(c)
    BY <2>3 DEF ForkGcc
  <2>4. CASE ChildWaits(c)
    BY <2>4 DEF ChildWaits, VerdictOf
  <2>5. CASE ChildWrites(c)
    <3>1. CASE d = c
      <4>1. gpc' = gpc /\ gone' = gone /\ compiled' = compiled /\ gstatus' = gstatus
        BY <2>5 DEF ChildWrites
      <4>2. cpc'[c] \in {"close", "zombie"}
        BY <2>5 DEF ChildWrites
      <4>3. gpc[c] \in {"none", "reaped"}
        BY <2>5 DEF ChildWrites
      <4>4. CASE Earned(c) /\ reply' = [reply EXCEPT ![c] = <<"0">>]
        <5>1. reply'[c] = <<"0">> /\ c \in compiled
          BY <4>4
        <5>2. QED
          BY <3>1, <4>1, <4>2, <4>3, <5>1
      <4>5. CASE c \notin compiled /\ reply'[c] \in {<<"1">>, <<"1", "0">>}
        BY <3>1, <4>1, <4>2, <4>3, <4>5
      <4>6. CASE c \in gone /\ reply' = reply /\ cpc' = [cpc EXCEPT ![c] = "zombie"]
        BY <2>5, <3>1, <4>1, <4>2, <4>3, <4>6 DEF ChildWrites
      <4>7. QED
        BY <2>5, <4>4, <4>5, <4>6, ChildWritten
    <3>2. CASE d # c
      BY <2>5, <3>2 DEF ChildWrites, Bytes
    <3>3. QED
      BY <3>1, <3>2
  <2>6. QED
    BY <1>4, <2>1, <2>2, <2>3, <2>4, <2>5 DEF ChildStep, ChildProgress
<1>5. ASSUME NEW c \in Conn, GccStep(c) PROVE Account(d)'
  <2>1. CASE ExecGcc(c) \/ ExecFails(c)
    BY <2>1 DEF ExecGcc, ExecFails
  <2>2. CASE GccEnds(c)
    BY <2>2 DEF GccEnds
  <2>3. CASE CopyWrites(c)
    BY <2>3, Replies DEF CopyWrites, Bytes
  <2>4. QED
    BY <1>5, <2>1, <2>2, <2>3 DEF GccStep
<1>6. CASE AnyClient
  BY <1>6 DEF AnyClient, Connect, Send, Leave
<1>7. CASE UNCHANGED serverVars
  BY <1>7 DEF serverVars
<1>8. QED
  BY <1>1, <1>2, <1>3, <1>4, <1>5, <1>6, <1>7 DEF ServerNext, ServerStep, ParentStep

(* Stated for the steps alone, so that a client of one's own can use it. *)
LEMMA ServerInvariant == ServerInit /\ [][ServerNext]_serverVars => []SInv
<1>1. SInv /\ [ServerNext]_serverVars => SInv'
  BY NextServerType, NextInHand, NextAccount DEF SInv
<1>2. QED
  BY <1>1, ServerInitInv, PTL

LEMMA SInvFirstByte == SInv => FirstByteIsVerdict
  BY Replies DEF SInv, ServerTypeOK, Account, Earned, Copied, Nothing, FirstByteIsVerdict

(* The state of every connection and process stays in its range; no more    *)
(* than two bytes are written to a connection.                              *)
THEOREM ServerTypeCorrect == ServerSpec => []ServerTypeOK
<1>1. SInv => ServerTypeOK
  BY DEF SInv
<1>2. QED
  BY <1>1, ServerInvariant, PTL DEF ServerSpec

(* The first byte of every reply is the verdict. *)
THEOREM FirstByteHolds == ServerSpec => []FirstByteIsVerdict
  BY SInvFirstByte, ServerInvariant, PTL DEF ServerSpec

(* A client for which the server has begun to compile is answered before    *)
(* its connection ends.                                                     *)
THEOREM NeverHangsUp == ServerSpec => []NoHangUp
<1>1. SInv => NoHangUp
  BY DEF SInv, ServerTypeOK, InHand, Account, Nothing, NoHangUp, Closed
<1>2. QED
  BY <1>1, ServerInvariant, PTL DEF ServerSpec

(* A client that has sent its path is answered, and truly.                  *)
THEOREM PathIsAnswered == ServerSpec => []AnswersWithVerdict
<1>1. FirstByteIsVerdict /\ NoHangUp => AnswersWithVerdict
  BY DEF AnswersWithVerdict
<1>2. QED
  BY <1>1, FirstByteHolds, NeverHangsUp, PTL

(* The parent has every connection closed when it waits for the next one. *)
THEOREM HoldsNone == ServerSpec => []ParentHoldsNone
<1>1. SInv => ParentHoldsNone
  BY DEF SInv, InHand, ParentHoldsNone
<1>2. QED
  BY <1>1, ServerInvariant, PTL DEF ServerSpec

-----------------------------------------------------------------------------
(* Refinement. *)

LEMMA ServiceInit == ServerInit => Service!Init
  BY DEF ServerInit, Service!Init, answer

LEMMA SameAnswer == reply' = reply => answer' = answer
  BY DEF answer

LEMMA ServiceStep == SInv /\ [ServerNext]_serverVars => [Service!Next]_<<compiled, answer>>
<1> SUFFICES ASSUME SInv, [ServerNext]_serverVars PROVE [Service!Next]_<<compiled, answer>>
  OBVIOUS
<1> USE DEF netVars, parentVars, gccVars
<1>1. CASE ParentStep
  <2>1. reply' = reply /\ compiled' = compiled
    BY <1>1 DEF ParentStep, Accept, Fork, ForkFails, ParentCloses, Reap
  <2>2. QED
    BY <2>1, SameAnswer
<1>2. ASSUME NEW c \in Conn, ChildStep(c) PROVE [Service!Next]_<<compiled, answer>>
  <2>1. compiled' = compiled
    BY <1>2 DEF ChildStep, ChildProgress, NoMemory, ChildReadsEnd, ChildReads, CompileFails, ChildCloses, ForkGcc,
                ChildWaits, ChildWrites
  <2>2. CASE reply' = reply
    BY <2>1, <2>2, SameAnswer
  <2>3. CASE reply' # reply
    <3>1. ChildWrites(c)
      BY <1>2, <2>3 DEF ChildStep, ChildProgress, NoMemory, ChildReadsEnd, ChildReads, CompileFails, ChildCloses,
                        ForkGcc, ChildWaits
    <3>2. \/ Earned(c) /\ reply' = [reply EXCEPT ![c] = <<"0">>]
          \/ Copied(c) /\ reply' = [reply EXCEPT ![c] = <<"1", "0">>]
          \/ Nothing(c) /\ reply' = [reply EXCEPT ![c] = <<"1">>]
      BY <2>3, <3>1, ChildWritten
    <3>3. CASE Copied(c) /\ reply' = [reply EXCEPT ![c] = <<"1", "0">>]
      <4>1. answer' = answer
        BY <3>3, Replies DEF answer, Copied, SInv, ServerTypeOK
      <4>2. QED
        BY <2>1, <4>1
    <3>4. CASE Earned(c) /\ reply' = [reply EXCEPT ![c] = <<"0">>]
      <4>1. answer[c] = "none" /\ answer' = [answer EXCEPT ![c] = "0"]
        BY <3>4, Replies DEF answer, Earned, SInv, ServerTypeOK
      <4>2. QED
        BY <2>1, <3>4, <4>1 DEF Service!Next, Service!Answer, Earned
    <3>5. CASE Nothing(c) /\ reply' = [reply EXCEPT ![c] = <<"1">>]
      <4>1. answer[c] = "none" /\ answer' = [answer EXCEPT ![c] = "1"]
        BY <3>5, Replies DEF answer, Nothing, SInv, ServerTypeOK
      <4>2. QED
        BY <2>1, <3>5, <4>1 DEF Service!Next, Service!Answer, Nothing
    <3>6. QED
      BY <3>2, <3>3, <3>4, <3>5
  <2>4. QED
    BY <2>2, <2>3
<1>3. ASSUME NEW c \in Conn, CopyWrites(c) PROVE [Service!Next]_<<compiled, answer>>
  <2>1. compiled' = compiled /\ Nothing(c)
    BY <1>3 DEF CopyWrites, SInv, Account
  <2>2. CASE reply' = reply
    BY <2>1, <2>2, SameAnswer
  <2>3. CASE reply' # reply
    <3>1. reply' = [reply EXCEPT ![c] = <<"1">>]
      BY <1>3, <2>1, <2>3, Replies DEF CopyWrites, Bytes, Nothing, SInv, ServerTypeOK
    <3>2. answer[c] = "none" /\ answer' = [answer EXCEPT ![c] = "1"]
      BY <2>1, <3>1, Replies DEF answer, Nothing, SInv, ServerTypeOK
    <3>3. QED
      BY <2>1, <3>2 DEF Service!Next, Service!Answer, Nothing
  <2>4. QED
    BY <2>2, <2>3
<1>4. ASSUME NEW c \in Conn, GccEnds(c) PROVE [Service!Next]_<<compiled, answer>>
  <2>1. answer' = answer
    BY <1>4, SameAnswer DEF GccEnds
  <2>2. answer[c] = "none" /\ c \notin compiled
    BY <1>4 DEF GccEnds, SInv, Account, Nothing, answer
  <2>3. QED
    BY <1>4, <2>1, <2>2 DEF GccEnds, Service!Next, Service!Compile
<1>5. ASSUME NEW c \in Conn, ExecGcc(c) \/ ExecFails(c)
      PROVE  [Service!Next]_<<compiled, answer>>
  BY <1>5, SameAnswer DEF ExecGcc, ExecFails
<1>6. CASE AnyClient
  BY <1>6, SameAnswer DEF AnyClient
<1>7. CASE UNCHANGED serverVars
  BY <1>7, SameAnswer DEF serverVars
<1>8. QED
  BY <1>1, <1>2, <1>3, <1>4, <1>5, <1>6, <1>7 DEF ServerNext, ServerStep, GccStep

(* The server implements the service: one verdict for each connection, the  *)
(* right one, whichever of two processes writes it.                         *)
THEOREM ServerImplementsService == ServerSpec => ServesCompiles
<1>1. ServerInit /\ [][ServerNext]_serverVars => Service!Spec
  BY ServiceInit, ServiceStep, ServerInvariant, PTL DEF Service!Spec
<1>2. QED
  BY <1>1, PTL DEF ServerSpec, ServesCompiles
-----------------------------------------------------------------------------
(* No connection waits for a process that waits for it, and no work is      *)
(* without end.                                                             *)

(* The guards of ChildProgress(c) and of GccStep(c). *)
ChildCan(c) ==
    \/ cpc[c] = "read" /\ (request[c] # 0 \/ c \in gone)
    \/ cpc[c] \in {"compile", "zero", "one", "close"}
    \/ cpc[c] = "wait" /\ gpc[c] = "zombie"

GccCan(c) == gpc[c] \in {"exec", "gcc", "copy"}

(* The guards of the parent's steps: waiting in accept is its only wait. *)
ParentCan == spc # "accept" \/ \E c \in Conn : net[c] = "pending"

(* A client that has sent its path, or has gone, need not wait for any      *)
(* other client: unless the parent is busy, its connection is closed or its *)
(* own child or grandchild can take a step.                                 *)
NoneIsForgotten ==
    \A c \in Conn :
      net[c] = "open" /\ (request[c] # 0 \/ c \in gone) =>
        Closed(c) \/ spc # "accept" \/ ChildCan(c) \/ GccCan(c)

(* What is still before a connection, its client, its processes, and the    *)
(* parent.                                                                  *)
NetLeft(c) == IF net[c] = "none" THEN 2 ELSE IF net[c] = "pending" THEN 1 ELSE 0

RequestLeft(c) == IF request[c] = 0 THEN 1 ELSE 0

ClientLeft(c) == IF c \in gone THEN 0 ELSE 1

ChildLeft(c) ==
    IF cpc[c] = "none" THEN 7
    ELSE IF cpc[c] = "read" THEN 6
    ELSE IF cpc[c] = "compile" THEN 5
    ELSE IF cpc[c] = "wait" THEN 4
    ELSE IF cpc[c] \in {"zero", "one"} THEN 3
    ELSE IF cpc[c] = "close" THEN 2
    ELSE IF cpc[c] = "zombie" THEN 1
    ELSE 0

GccLeft(c) ==
    IF gpc[c] = "none" THEN 4
    ELSE IF gpc[c] = "exec" THEN 3
    ELSE IF gpc[c] \in {"gcc", "copy"} THEN 2
    ELSE IF gpc[c] = "zombie" THEN 1
    ELSE 0

ParentLeft ==
    IF spc = "fork" THEN 3
    ELSE IF spc = "close" THEN 2
    ELSE IF spc = "reap" THEN 1
    ELSE 0

(* Nothing is added, except that a connection accepted gives the parent one *)
(* more turn of its loop.                                                   *)
ServerNoneGoesBack ==
    /\ \A c \in Conn :
         /\ NetLeft(c)' <= NetLeft(c) /\ RequestLeft(c)' <= RequestLeft(c)
         /\ ClientLeft(c)' <= ClientLeft(c)
         /\ ChildLeft(c)' <= ChildLeft(c) /\ GccLeft(c)' <= GccLeft(c)
    /\ ParentLeft' <= ParentLeft \/ \E c \in Conn : NetLeft(c)' < NetLeft(c)

ServerOneGoesOn ==
    \/ ParentLeft' < ParentLeft
    \/ \E c \in Conn :
         \/ NetLeft(c)' < NetLeft(c) \/ RequestLeft(c)' < RequestLeft(c)
         \/ ClientLeft(c)' < ClientLeft(c)
         \/ ChildLeft(c)' < ChildLeft(c) \/ GccLeft(c)' < GccLeft(c)

LEMMA SInvNoneIsForgotten == SInv => NoneIsForgotten
<1> SUFFICES ASSUME SInv, NEW c \in Conn, net[c] = "open", request[c] # 0 \/ c \in gone,
                    spc = "accept", ~ ChildCan(c), ~ GccCan(c)
             PROVE  Closed(c)
  BY DEF NoneIsForgotten
<1>1. c \notin parentfd
  BY DEF SInv, InHand
<1>2. gpc[c] \in {"none", "zombie", "reaped"}
  BY DEF SInv, ServerTypeOK, GccCan
<1>3. cpc[c] \in {"none", "zombie", "reaped"}
  BY DEF SInv, ServerTypeOK, Account, ChildCan, GccCan
<1>4. QED
  BY <1>1, <1>2, <1>3 DEF Closed

(* Who has sent a path or has gone is not left in the middle: the end of    *)
(* its connection, or a step of the processes that serve it, is possible,   *)
(* whatever the other clients do or leave undone.                           *)
THEOREM NobodyIsForgotten == ServerSpec => []NoneIsForgotten
  BY SInvNoneIsForgotten, ServerInvariant, PTL DEF ServerSpec

LEMMA LeftAreNumbers ==
    /\ ParentLeft \in Nat /\ ParentLeft' \in Nat
    /\ \A c \in Conn : /\ NetLeft(c) \in Nat /\ NetLeft(c)' \in Nat
                       /\ RequestLeft(c) \in Nat /\ RequestLeft(c)' \in Nat
                       /\ ClientLeft(c) \in Nat /\ ClientLeft(c)' \in Nat
                       /\ ChildLeft(c) \in Nat /\ ChildLeft(c)' \in Nat
                       /\ GccLeft(c) \in Nat /\ GccLeft(c)' \in Nat
  BY DEF ParentLeft, NetLeft, RequestLeft, ClientLeft, ChildLeft, GccLeft

LEMMA NetRests ==
    ASSUME UNCHANGED netVars
    PROVE  \A c \in Conn : /\ NetLeft(c)' = NetLeft(c) /\ RequestLeft(c)' = RequestLeft(c)
                           /\ ClientLeft(c)' = ClientLeft(c)
  BY DEF netVars, NetLeft, RequestLeft, ClientLeft

LEMMA ParentRests == ASSUME UNCHANGED parentVars PROVE ParentLeft' = ParentLeft
  BY DEF parentVars, ParentLeft

LEMMA ChildrenRest == ASSUME cpc' = cpc PROVE \A c \in Conn : ChildLeft(c)' = ChildLeft(c)
  BY DEF ChildLeft

LEMMA GccsRest == ASSUME gpc' = gpc PROVE \A c \in Conn : GccLeft(c)' = GccLeft(c)
  BY DEF GccLeft

LEMMA ParentStepCounts == SInv /\ ParentStep => ServerNoneGoesBack /\ ServerOneGoesOn
<1> SUFFICES ASSUME SInv, ParentStep PROVE ServerNoneGoesBack /\ ServerOneGoesOn
  OBVIOUS
<1> DEFINE Goal == ServerNoneGoesBack /\ ServerOneGoesOn
<1>1. ASSUME NEW c \in Conn, Accept(c) PROVE Goal
  <2>1. /\ net[c] = "pending" /\ net'[c] = "open"
        /\ \A d \in Conn : d # c => net'[d] = net[d]
        /\ UNCHANGED <<request, gone, cpc, gpc>>
    BY <1>1 DEF Accept, SInv, ServerTypeOK, gccVars
  <2>2. NetLeft(c)' < NetLeft(c) /\ \A d \in Conn : d # c => NetLeft(d)' = NetLeft(d)
    BY <2>1 DEF NetLeft
  <2>3. \A d \in Conn : RequestLeft(d)' = RequestLeft(d) /\ ClientLeft(d)' = ClientLeft(d)
    BY <2>1 DEF RequestLeft, ClientLeft
  <2>4. QED
    BY <2>1, <2>2, <2>3, ChildrenRest, GccsRest, LeftAreNumbers
       DEF ServerNoneGoesBack, ServerOneGoesOn
<1>2. ASSUME ParentLeft' < ParentLeft, UNCHANGED <<netVars, cpc, gpc>> PROVE Goal
  BY <1>2, NetRests, ChildrenRest, GccsRest, LeftAreNumbers
     DEF ServerNoneGoesBack, ServerOneGoesOn
<1>3. ASSUME NEW c \in Conn, ChildLeft(c)' < ChildLeft(c),
             \A d \in Conn : d # c => ChildLeft(d)' = ChildLeft(d),
             ParentLeft' <= ParentLeft, UNCHANGED <<netVars, gpc>>
      PROVE  Goal
  BY <1>3, NetRests, GccsRest, LeftAreNumbers DEF ServerNoneGoesBack, ServerOneGoesOn
<1>4. CASE Fork
  <2>0. PICK c \in Conn : c = communfd
    BY <1>4 DEF Fork, SInv, InHand
  <2>1. /\ cpc[c] = "none" /\ cpc'[c] = "read"
        /\ \A d \in Conn : d # c => cpc'[d] = cpc[d]
    BY <1>4, <2>0 DEF Fork, SInv, InHand, ServerTypeOK
  <2>2. ChildLeft(c)' < ChildLeft(c) /\ \A d \in Conn : d # c => ChildLeft(d)' = ChildLeft(d)
    BY <2>1 DEF ChildLeft
  <2>3. ParentLeft' <= ParentLeft
    BY <1>4 DEF Fork, ParentLeft
  <2>4. UNCHANGED netVars /\ gpc' = gpc
    BY <1>4 DEF Fork, gccVars
  <2>5. QED
    BY <1>3, <2>1, <2>2, <2>3, <2>4
<1>5. CASE ForkFails \/ ParentCloses
  <2>1. ParentLeft' < ParentLeft
    BY <1>5 DEF ForkFails, ParentCloses, ParentLeft
  <2>2. QED
    BY <1>2, <1>5, <2>1 DEF ForkFails, ParentCloses, gccVars
<1>6. CASE Reap
  <2>1. CASE spc' = "accept" /\ cpc' = cpc
    <3>1. ParentLeft' < ParentLeft
      BY <1>6, <2>1 DEF Reap, ParentLeft
    <3>2. QED
      BY <1>2, <1>6, <2>1, <3>1 DEF Reap, gccVars
  <2>2. ASSUME NEW c \in Conn, cpc[c] = "zombie", cpc' = [cpc EXCEPT ![c] = "reaped"], spc' = spc
        PROVE  Goal
    <3>1. cpc'[c] = "reaped" /\ \A d \in Conn : d # c => cpc'[d] = cpc[d]
      BY <2>2 DEF SInv, ServerTypeOK
    <3>2. ChildLeft(c)' < ChildLeft(c) /\ \A d \in Conn : d # c => ChildLeft(d)' = ChildLeft(d)
      BY <2>2, <3>1 DEF ChildLeft
    <3>3. ParentLeft' <= ParentLeft
      BY <2>2 DEF ParentLeft
    <3>4. QED
      BY <1>3, <1>6, <3>2, <3>3 DEF Reap, gccVars
  <2>3. QED
    BY <1>6, <2>1, <2>2 DEF Reap
<1>7. QED
  BY <1>1, <1>4, <1>5, <1>6 DEF ParentStep

LEMMA ServerStepCounts == SInv /\ ServerStep => ServerNoneGoesBack /\ ServerOneGoesOn
<1> SUFFICES ASSUME SInv, ServerStep PROVE ServerNoneGoesBack /\ ServerOneGoesOn
  OBVIOUS
<1> DEFINE Goal == ServerNoneGoesBack /\ ServerOneGoesOn
<1>1. ASSUME NEW c \in Conn, ChildStep(c) PROVE Goal
  <2>1. UNCHANGED netVars /\ UNCHANGED parentVars
    BY <1>1 DEF ChildStep, ChildProgress, NoMemory, ChildReadsEnd, ChildReads, ForkGcc, CompileFails,
                ChildWaits, ChildWrites, ChildCloses
  <2>2. /\ \A d \in Conn : d # c => cpc'[d] = cpc[d]
        /\ \/ cpc[c] = "read" /\ cpc'[c] \in {"compile", "zombie"}
           \/ cpc[c] = "compile" /\ cpc'[c] \in {"wait", "one"}
           \/ cpc[c] = "wait" /\ cpc'[c] \in {"zero", "one"}
           \/ cpc[c] \in {"zero", "one"} /\ cpc'[c] \in {"close", "zombie"}
           \/ cpc[c] = "close" /\ cpc'[c] = "zombie"
    BY <1>1 DEF ChildStep, ChildProgress, NoMemory, ChildReadsEnd, ChildReads, ForkGcc, CompileFails,
                ChildWaits, ChildWrites, ChildCloses, ChildTo, VerdictOf, SInv, ServerTypeOK
  <2>3. /\ \A d \in Conn : d # c => gpc'[d] = gpc[d]
        /\ \/ gpc'[c] = gpc[c]
           \/ gpc[c] = "none" /\ gpc'[c] = "exec"
           \/ gpc[c] = "zombie" /\ gpc'[c] = "reaped"
    BY <1>1 DEF ChildStep, ChildProgress, NoMemory, ChildReadsEnd, ChildReads, ForkGcc, CompileFails,
                ChildWaits, ChildWrites, ChildCloses, SInv, ServerTypeOK, Account, gccVars
  <2>4. ChildLeft(c)' < ChildLeft(c)
    BY <2>2 DEF ChildLeft
  <2>5. GccLeft(c)' <= GccLeft(c)
    BY <2>3 DEF GccLeft
  <2>6. \A d \in Conn : d # c => ChildLeft(d)' = ChildLeft(d) /\ GccLeft(d)' = GccLeft(d)
    BY <2>2, <2>3 DEF ChildLeft, GccLeft
  <2>7. QED
    BY <2>1, <2>4, <2>5, <2>6, NetRests, ParentRests, LeftAreNumbers
       DEF ServerNoneGoesBack, ServerOneGoesOn
<1>2. ASSUME NEW c \in Conn, GccStep(c) PROVE Goal
  <2>1. UNCHANGED netVars /\ UNCHANGED parentVars /\ cpc' = cpc
    BY <1>2 DEF GccStep, ExecGcc, GccEnds, ExecFails, CopyWrites
  <2>2. /\ \A d \in Conn : d # c => gpc'[d] = gpc[d]
        /\ \/ gpc[c] = "exec" /\ gpc'[c] \in {"gcc", "copy"}
           \/ gpc[c] \in {"gcc", "copy"} /\ gpc'[c] = "zombie"
    BY <1>2 DEF GccStep, ExecGcc, GccEnds, ExecFails, CopyWrites, SInv, ServerTypeOK
  <2>3. GccLeft(c)' < GccLeft(c) /\ \A d \in Conn : d # c => GccLeft(d)' = GccLeft(d)
    BY <2>2 DEF GccLeft
  <2>4. QED
    BY <2>1, <2>3, NetRests, ParentRests, ChildrenRest, LeftAreNumbers
       DEF ServerNoneGoesBack, ServerOneGoesOn
<1>3. QED
  BY <1>1, <1>2, ParentStepCounts DEF ServerStep

LEMMA ClientCounts ==
    SInv /\ AnyClient => ServerNoneGoesBack /\ (ServerOneGoesOn \/ UNCHANGED serverVars)
<1> SUFFICES ASSUME SInv, AnyClient
             PROVE  ServerNoneGoesBack /\ (ServerOneGoesOn \/ UNCHANGED serverVars)
  OBVIOUS
<1>1. UNCHANGED parentVars /\ cpc' = cpc /\ gpc' = gpc
  BY DEF AnyClient, gccVars
<1>2. ASSUME NEW c \in Conn, \A d \in Conn : d # c => UNCHANGED <<NetLeft(d), RequestLeft(d), ClientLeft(d)>>,
             \/ NetLeft(c)' < NetLeft(c) /\ UNCHANGED <<RequestLeft(c), ClientLeft(c)>>
             \/ RequestLeft(c)' < RequestLeft(c) /\ UNCHANGED <<NetLeft(c), ClientLeft(c)>>
      PROVE  ServerNoneGoesBack /\ ServerOneGoesOn
  BY <1>1, <1>2, ParentRests, ChildrenRest, GccsRest, LeftAreNumbers
     DEF ServerNoneGoesBack, ServerOneGoesOn
<1>3. ASSUME NEW c \in Conn, Connect(c) PROVE ServerNoneGoesBack /\ ServerOneGoesOn
  <2>1. /\ net[c] = "none" /\ net'[c] = "pending" /\ \A d \in Conn : d # c => net'[d] = net[d]
        /\ UNCHANGED <<request, gone>>
    BY <1>3 DEF Connect, SInv, ServerTypeOK
  <2>2. QED
    BY <1>2, <2>1 DEF NetLeft, RequestLeft, ClientLeft
<1>4. ASSUME NEW c \in Conn, NEW f \in File, Send(c, f) PROVE ServerNoneGoesBack /\ ServerOneGoesOn
  <2>1. /\ request[c] = 0 /\ request'[c] # 0 /\ \A d \in Conn : d # c => request'[d] = request[d]
        /\ UNCHANGED <<net, gone>>
    BY <1>4 DEF Send, SInv, ServerTypeOK, File, Conn
  <2>2. QED
    BY <1>2, <2>1 DEF NetLeft, RequestLeft, ClientLeft
<1>5. ASSUME NEW C \in SUBSET Conn, Leave(C)
      PROVE  ServerNoneGoesBack /\ (ServerOneGoesOn \/ UNCHANGED serverVars)
  <2>1. gone' = gone \cup C /\ UNCHANGED <<net, request>>
    BY <1>5 DEF Leave
  <2>2. \A d \in Conn : /\ UNCHANGED <<NetLeft(d), RequestLeft(d)>>
                        /\ ClientLeft(d)' <= ClientLeft(d)
                        /\ d \in C /\ d \notin gone => ClientLeft(d)' < ClientLeft(d)
    BY <2>1 DEF NetLeft, RequestLeft, ClientLeft
  <2>3. ServerNoneGoesBack
    BY <1>1, <2>2, ParentRests, ChildrenRest, GccsRest, LeftAreNumbers DEF ServerNoneGoesBack
  <2>4. CASE C \subseteq gone
    <3>1. gone' = gone
      BY <2>1, <2>4
    <3>2. QED
      BY <2>1, <2>3, <3>1 DEF AnyClient, serverVars, parentVars, gccVars
  <2>5. CASE \E d \in C : d \notin gone
    BY <2>2, <2>3, <2>5 DEF ServerOneGoesOn
  <2>6. QED
    BY <2>4, <2>5
<1>6. QED
  BY <1>3, <1>4, <1>5 DEF AnyClient

LEMMA ServerNextCounts == SInv /\ [ServerNext]_serverVars => ServerNoneGoesBack
<1> SUFFICES ASSUME SInv, UNCHANGED serverVars PROVE ServerNoneGoesBack
  BY ServerStepCounts, ClientCounts DEF ServerNext
<1>1. UNCHANGED netVars /\ UNCHANGED parentVars /\ cpc' = cpc /\ gpc' = gpc
  BY DEF serverVars, netVars, parentVars
<1>2. QED
  BY <1>1, NetRests, ParentRests, ChildrenRest, GccsRest, LeftAreNumbers DEF ServerNoneGoesBack

(* Every step of the server and of its clients uses up something of a       *)
(* connection, of a process or of the parent's turn of its loop, and only a *)
(* connection accepted gives the parent another turn: the parent comes back *)
(* to accept, and no connection's processes work without end.               *)
THEOREM ServerStepsRunOut ==
    ServerSpec => [][ServerNoneGoesBack /\ ServerOneGoesOn]_serverVars
<1>1. SInv /\ [ServerNext]_serverVars => [ServerNoneGoesBack /\ ServerOneGoesOn]_serverVars
  BY ServerStepCounts, ClientCounts DEF ServerNext
<1>2. QED
  BY <1>1, ServerInvariant, PTL DEF ServerSpec
=============================================================================
