--------------------------- MODULE RestartProofs ---------------------------
(***************************************************************************)
(* Proofs about Restart, for every stream, every size, every number of     *)
(* calls and signals, every time given and every fraction that the clock   *)
(* counts in.  gettimeout's arithmetic on seconds and fractions is the     *)
(* difference of the times, and so a wait ends at its deadline and not     *)
(* before; no read is asked for more than its buffer holds;                *)
(* readwriteblock copies the blocks it returns; the reading functions      *)
(* implement ReadService, whatever parts the bytes come in; and no call    *)
(* is repeated for ever, or waits for anything but a silent other end.     *)
(***************************************************************************)
EXTENDS Restart, SequenceTheorems, TLAPS

USE TimeAssumption

(* A sum of two times has a carry of at most one. *)
LEMMA CarriedTime ==
    ASSUME NEW s \in Nat, NEW u \in 0 .. 2 * MILLION - 1
    PROVE  /\ Carried([sec |-> s, usec |-> u]) \in timeval
           /\ Ticks(Carried([sec |-> s, usec |-> u])) = s * MILLION + u
BY DEF Carried, timeval, Ticks

(* gettimeout is exact, and knows when nothing is left (restart.c:15-34).   *)
LEMMA RemainingTime ==
    ASSUME NEW d \in timeval, now \in timeval
    PROVE  /\ Ticks(Remaining(d)) \in Int
           /\ Ticks(Remaining(d)) = Ticks(d) - Ticks(now)
           /\ Expired(Remaining(d)) <=> Ticks(d) <= Ticks(now)
<1> DEFINE s == d.sec - now.sec
           u == d.usec - now.usec
           r == Remaining(d)
<1>1. /\ d.sec \in Nat /\ now.sec \in Nat /\ s \in Int
      /\ d.usec \in 0 .. MILLION - 1 /\ now.usec \in 0 .. MILLION - 1
      /\ u \in Int /\ u < MILLION /\ u > -MILLION
  BY DEF timeval
<1>2. r = IF u < 0 THEN [sec |-> s - 1, usec |-> u + MILLION] ELSE [sec |-> s, usec |-> u]
  BY <1>1 DEF Remaining, Carried
<1>3. r.sec \in Int /\ r.usec \in 0 .. MILLION - 1 /\ r = [sec |-> r.sec, usec |-> r.usec]
  BY <1>1, <1>2
<1>4. Ticks(r) = s * MILLION + u
  BY <1>1, <1>2 DEF Ticks
<1>5. Ticks(r) = Ticks(d) - Ticks(now) /\ Ticks(r) \in Int
  BY <1>1, <1>4 DEF Ticks
<1>6. Expired(r) <=> Ticks(r) <= 0
  <2>1. CASE r.sec < 0
    <3>1. r.sec * MILLION <= -MILLION
      BY <1>3, <2>1
    <3>2. QED
      BY <1>3, <2>1, <3>1 DEF Expired, Ticks
  <2>2. CASE r.sec = 0
    BY <1>3, <2>2 DEF Expired, Ticks
  <2>3. CASE r.sec > 0
    <3>1. r.sec * MILLION >= MILLION
      BY <1>3, <2>3
    <3>2. QED
      BY <1>3, <2>3, <3>1 DEF Expired, Ticks
  <2>4. QED
    BY <1>3, <2>1, <2>2, <2>3
<1>7. Ticks(d) \in Int /\ Ticks(now) \in Int
  BY <1>1 DEF Ticks
<1>8. QED
  BY <1>5, <1>6, <1>7

(* The times are timevals, a select ends at the deadline, and a call that   *)
(* has run out of time has reached it.                                      *)
TInv == now \in timeval /\ end \in timeval /\ WakesInTime /\ NotEarly

LEMMA TInvInitially == Init => TInv
BY DEF Init, TInv, timeval, WakesInTime, NotEarly

LEMMA TInvKept == TInv /\ [Next]_vars => TInv'
<1> SUFFICES ASSUME TInv, [Next]_vars PROVE TInv'
  OBVIOUS
<1> USE DEF TInv
<1>1. Ticks(now) \in Nat /\ Ticks(end) \in Nat
  BY DEF timeval, Ticks
<1>2. CASE UNCHANGED vars
  BY <1>2 DEF vars, time, result, WakesInTime, NotEarly, Ticks
<1>3. CASE Send \/ Close
  BY <1>3 DEF Send, Close, time, result, WakesInTime, NotEarly, Ticks
<1>4. CASE Tick
  <2>1. now' \in timeval /\ Ticks(now)' = Ticks(now) + 1
    <3>1. now' = Carried([sec |-> now.sec, usec |-> now.usec + 1])
      BY <1>4 DEF Tick, timeval
    <3>2. now.usec + 1 \in 0 .. 2 * MILLION - 1 /\ now.sec \in Nat
      BY DEF timeval
    <3>3. Ticks(now)' = now.sec * MILLION + (now.usec + 1) /\ now' \in timeval
      BY <3>1, <3>2, CarriedTime DEF Ticks
    <3>4. QED
      BY <3>2, <3>3 DEF Ticks, timeval
  <2>2. end' = end /\ until' = until /\ pc' = pc /\ pc \in {"wait", "select"}
        /\ (pc = "select" => Ticks(now) < until)
    BY <1>4 DEF Tick
  <2>3. Ticks(end)' = Ticks(end)
    BY <2>2 DEF Ticks
  <2>4. QED
    BY <1>1, <2>1, <2>2, <2>3 DEF WakesInTime, NotEarly
<1>5. CASE Call
  <2>1. now' = now /\ pc' # "select"
        /\ (pc' = "idle" => errno' = "EINVAL")
    BY <1>5 DEF Call
  <2>2. end' \in timeval
    <3>1. CASE fn \in Timed
      <4>1. PICK s \in Seconds : end' = add2currenttime(s)
        BY <1>5, <3>1 DEF Call
      <4>2. now.sec + s.whole \in Nat /\ now.usec + s.frac \in 0 .. 2 * MILLION - 1
        BY DEF timeval
      <4>3. QED
        BY <4>1, <4>2, CarriedTime DEF add2currenttime
    <3>2. CASE fn \notin Timed
      BY <1>5, <3>2 DEF Call
    <3>3. QED
      BY <3>1, <3>2
  <2>3. QED
    BY <2>1, <2>2 DEF WakesInTime, NotEarly
<1>6. CASE Interrupted
  <2>1. now' = now /\ end' = end /\ until' = until /\ ret' = ret /\ errno' = errno
        /\ (pc' = "wait" \/ (pc' = pc /\ pc # "idle" /\ pc # "select"))
    BY <1>6 DEF Interrupted, time, result
  <2>2. QED
    BY <2>1 DEF WakesInTime, NotEarly, Ticks
<1>7. CASE Wait
  <2>1. now' = now /\ end' = end /\ pc' = "select" /\ until' = Ticks(now) + Ticks(Remaining(end))
        /\ ~ Expired(Remaining(end))
    BY <1>7 DEF Wait
  <2>2. until' = Ticks(end) /\ Ticks(now) <= Ticks(end)
    BY <1>1, <2>1, RemainingTime
  <2>3. QED
    BY <2>1, <2>2 DEF WakesInTime, NotEarly, Ticks
<1>8. ASSUME NEW r, NEW e, NEW bytes, Return(r, e, bytes),
             r = -1 /\ e = "ETIME" => Ticks(now) >= Ticks(end)
      PROVE  TInv'
  BY <1>8 DEF Return, time, WakesInTime, NotEarly, Ticks
<1>9. CASE WaitExpires
  <2>1. Ticks(now) >= Ticks(end)
    BY <1>1, <1>9, RemainingTime DEF WaitExpires
  <2>2. QED
    BY <1>8, <1>9, <2>1 DEF WaitExpires
<1>10. CASE SelectTimesOut
  <2>1. Ticks(now) >= Ticks(end)
    BY <1>1, <1>10 DEF SelectTimesOut, WakesInTime
  <2>2. QED
    BY <1>8, <1>10, <2>1 DEF SelectTimesOut
<1>11. ASSUME pc' \notin {"idle", "select"}, UNCHANGED time PROVE TInv'
  BY <1>11 DEF time, WakesInTime, NotEarly
<1>12. CASE SelectReady
  BY <1>8, <1>11, <1>12 DEF SelectReady
<1>13. CASE Read
  <2>1. PICK n \in 1 .. Len(pipe) : Taken(buf \o First(pipe, n))
    BY <1>13 DEF Read
  <2>2. \/ pc' \in {"read", "write"} /\ UNCHANGED time
        \/ \E r, bytes : \E e \in {"EINVAL", "none"} : Return(r, e, bytes)
    BY <2>1 DEF Taken
  <2>3. QED
    BY <1>8, <1>11, <2>2
<1>14. CASE ReadEnds
  BY <1>8, <1>14 DEF ReadEnds
<1>15. CASE ReadFails
  BY <1>8, <1>15 DEF ReadFails
<1>16. CASE Write
  BY <1>8, <1>11, <1>16 DEF Write
<1>17. CASE WriteFails
  BY <1>8, <1>17 DEF WriteFails
<1>18. CASE CallEnds
  BY <1>8, <1>18 DEF CallEnds
<1>19. QED
  BY <1>2, <1>3, <1>4, <1>5, <1>6, <1>7, <1>9, <1>10, <1>12, <1>13, <1>14, <1>15, <1>16, <1>17,
     <1>18 DEF Next, Step

(* However often a signal ends its select, a timed call sleeps until its    *)
(* deadline and no longer (waitfdtimed, restart.c:205-232).                 *)
THEOREM SleepsToDeadline == Spec => []WakesInTime
<1>1. TInv => WakesInTime
  BY DEF TInv
<1>2. QED
  BY TInvInitially, TInvKept, <1>1, PTL DEF Spec

(* ETIME is returned at the deadline or after it (restart.c:28-32,          *)
(* 225-228).                                                                *)
THEOREM NeverEarly == Spec => []NotEarly
<1>1. TInv => NotEarly
  BY DEF TInv
<1>2. QED
  BY TInvInitially, TInvKept, <1>1, PTL DEF Spec

(* Whatever its time is and however many signals come, a timed call gives   *)
(* up at its deadline.                                                      *)
THEOREM TimeIsKept == Spec => []OnTime
<1>1. WakesInTime /\ NotEarly => OnTime
  BY DEF OnTime
<1>2. QED
  BY <1>1, SleepsToDeadline, NeverEarly, PTL
-----------------------------------------------------------------------------
(* The types.  A call that reads has room for what it asks for: readline    *)
(* for one byte and the 0 behind it, the block functions for the rest of    *)
(* the block, the others for the whole buffer.                              *)
RoomToRead ==
    pc \in {"wait", "select", "read"} =>
        CASE fn = "readline" -> Len(buf) < size - 1
          [] fn \in Blocks -> Len(buf) < size
          [] OTHER -> buf = <<>>

RInv == TypeOK /\ RoomToRead

LEMMA Pieces ==
    ASSUME NEW q \in Bytes, NEW n \in 0 .. Len(q)
    PROVE  /\ First(q, n) \in Bytes /\ Len(First(q, n)) = n
           /\ Rest(q, n) \in Bytes
BY DEF First, Rest, Bytes

LEMMA Joined ==
    ASSUME NEW p \in Bytes, NEW q \in Bytes
    PROVE  p \o q \in Bytes /\ Len(p \o q) = Len(p) + Len(q) /\ Len(p) \in Nat
BY DEF Bytes

LEMMA RInvInitially == Init => RInv
<1> SUFFICES ASSUME Init PROVE RInv
  OBVIOUS
<1> USE DEF Init
<1>1. <<>> \in Bytes /\ Len(<<>>) = 0
  BY DEF Bytes
<1>2. TypeOK
  BY <1>1, StreamsAssumption, BoundsAssumption DEF TypeOK, timeval, Bytes
<1>3. RoomToRead
  BY DEF RoomToRead
<1>4. QED
  BY <1>2, <1>3 DEF RInv

LEMMA RInvKept == RInv /\ TInv /\ TInv' /\ [Next]_vars => RInv'
<1> SUFFICES ASSUME RInv, TInv, TInv', [Next]_vars PROVE RInv'
  OBVIOUS
<1> USE SizesAssumption, BoundsAssumption
<1> USE DEF RInv, TypeOK
<1>1. now' \in timeval /\ end' \in timeval
  BY DEF TInv
<1>10. <<>> \in Bytes /\ Len(<<>>) = 0 /\ Len(<<>>) <= size /\ size \in Nat
  <2>1. <<>> \in Bytes /\ Len(<<>>) = 0
    BY DEF Bytes
  <2>2. QED
    BY <2>1
<1>2. CASE UNCHANGED vars
  BY <1>1, <1>2 DEF vars, world, time, call, result, RoomToRead
<1>3. CASE Send
  <2>1. PICK n \in 1 .. Len(tosend) : pipe' = pipe \o First(tosend, n) /\ tosend' = Rest(tosend, n)
    BY <1>3 DEF Send
  <2>2. pipe' \in Bytes /\ tosend' \in Bytes
    BY <2>1, Pieces, Joined
  <2>3. QED
    BY <1>1, <1>3, <2>2 DEF Send, time, call, result, RoomToRead
<1>4. CASE Close
  BY <1>1, <1>4, <1>10 DEF Close, time, call, result, RoomToRead
<1>5. CASE Tick
  BY <1>1, <1>5 DEF Tick, world, call, result, RoomToRead
<1>6. CASE Call
  <2>1. size' \in Sizes /\ size' \in Nat \ {0} /\ buf' = <<>> /\ fn' = fn /\ Len(buf') = 0
    BY <1>6 DEF Call
  <2>2. calls' \in 0 .. MaxCalls
    BY <1>6 DEF Call
  <2>3. pc' \in {"idle", "wait", "call", "read"}
    BY <1>6 DEF Call
  <2>4. RoomToRead'
    BY <1>6, <2>1 DEF Call, RoomToRead, Full, Blocks, Timed
  <2>5. ret' \in Nat \cup {-1}
        /\ errno' \in {"none", "EINVAL", "ETIME", "ECONNRESET", "EPIPE", "failed"}
    BY <1>6 DEF Call
  <2>6. buf' \in Bytes
    BY <2>1 DEF Bytes
  <2>7. QED
    BY <1>1, <1>6, <2>1, <2>2, <2>3, <2>4, <2>5, <2>6 DEF Call, world
<1>7. CASE Interrupted
  BY <1>1, <1>7 DEF Interrupted, world, time, call, result, RoomToRead
<1>8. CASE Wait
  <2>1. until' = Ticks(end)
    BY <1>8, RemainingTime DEF Wait, timeval, Ticks
  <2>2. until' \in Nat
    BY <2>1 DEF timeval, Ticks
  <2>3. QED
    BY <1>1, <1>8, <2>2 DEF Wait, world, call, result, RoomToRead
<1>9. ASSUME NEW r \in Nat \cup {-1}, NEW bytes \in Bytes, Len(bytes) <= size,
             NEW e \in {"none", "EINVAL", "ETIME", "ECONNRESET", "EPIPE", "failed"},
             Return(r, e, bytes), UNCHANGED <<stream, other, signals>>,
             tosend' \in Bytes, pipe' \in Bytes, left' \in Bytes, out' \in Bytes
      PROVE  RInv'
  <2>1. got' \in Bytes /\ lost' \in Bytes
    BY <1>9, Joined DEF Return
  <2>2. pc' = "idle" /\ ret' = r /\ errno' = e /\ buf' = bytes /\ UNCHANGED <<time, call>>
    BY <1>9 DEF Return
  <2>3. QED
    BY <1>1, <1>9, <2>1, <2>2 DEF time, call, RoomToRead
<1>11. CASE WaitExpires \/ SelectTimesOut
  BY <1>9, <1>10, <1>11 DEF WaitExpires, SelectTimesOut, world
<1>12. CASE SelectReady
  <2>1. CASE fn = "waitfdtimed"
    BY <1>9, <1>10, <1>12, <2>1 DEF SelectReady, world
  <2>2. CASE fn # "waitfdtimed"
    BY <1>1, <1>12, <2>2 DEF SelectReady, world, time, call, result, RoomToRead
  <2>3. QED
    BY <2>1, <2>2
<1>13. CASE Read
  <2>1. PICK n \in 1 .. Len(pipe) :
          n <= Asked /\ pipe' = Rest(pipe, n) /\ Taken(buf \o First(pipe, n))
    BY <1>13 DEF Read
  <2> DEFINE bytes == buf \o First(pipe, n)
  <2>2. pipe' \in Bytes /\ bytes \in Bytes /\ Len(bytes) = Len(buf) + n /\ Len(buf) \in Nat
    <3>1. First(pipe, n) \in Bytes /\ Len(First(pipe, n)) = n /\ Rest(pipe, n) \in Bytes
      BY Pieces
    <3>2. QED
      BY <2>1, <3>1, Joined
  <2>3. Len(bytes) <= size
    BY <1>10, <1>13, <2>1, <2>2 DEF Read, Asked, RoomToRead
  <2>4. UNCHANGED <<stream, tosend, other, out, signals>>
    BY <1>13 DEF Read
  <2> HIDE DEF bytes
  <2>5. CASE \E r \in Nat : Return(r, "none", bytes) /\ UNCHANGED left
    BY <1>9, <2>2, <2>3, <2>4, <2>5
  <2>6. CASE Return(-1, "EINVAL", bytes) /\ UNCHANGED left
    BY <1>9, <2>2, <2>3, <2>4, <2>6
  <2>7. CASE /\ pc' = "read" /\ buf' = bytes /\ UNCHANGED <<time, call, result, left>>
             /\ \/ fn = "readline" /\ ~ Full(bytes, size)
                \/ fn \in Blocks /\ Len(bytes) < size
    <3>1. RoomToRead'
      BY <1>10, <2>2, <2>7 DEF RoomToRead, Full, Blocks, call
    <3>2. QED
      BY <1>1, <2>2, <2>3, <2>4, <2>7, <3>1 DEF time, call, result
  <2>8. CASE pc' = "write" /\ buf' = bytes /\ left' = bytes /\ UNCHANGED <<time, call, result>>
    BY <1>1, <2>2, <2>3, <2>4, <2>8 DEF time, call, result, RoomToRead
  <2>9. QED
    <3>1. Len(bytes) \in Nat
      BY <2>2
    <3>2. Taken(bytes)
      BY <2>1 DEF bytes
    <3>3. QED
      BY <2>5, <2>6, <2>7, <2>8, <3>1, <3>2 DEF Taken
<1>14. CASE ReadEnds
  BY <1>9, <1>10, <1>14 DEF ReadEnds, world
<1>15. CASE ReadFails
  BY <1>9, <1>15 DEF ReadFails, world
<1>16. CASE Write
  <2>1. PICK n \in 1 .. Len(left) :
          /\ out' = out \o First(left, n)
          /\ left' = Rest(left, n)
          /\ IF n = Len(left) THEN Return(size, "none", buf)
             ELSE UNCHANGED <<time, pc, call, buf, result>>
    BY <1>16 DEF Write
  <2>2. out' \in Bytes /\ left' \in Bytes
    BY <2>1, Pieces, Joined
  <2>3. pc = "write" /\ UNCHANGED <<world, signals>>
    BY <1>16 DEF Write
  <2>4. CASE n = Len(left)
    BY <1>9, <1>10, <2>1, <2>2, <2>3, <2>4 DEF world
  <2>5. CASE n # Len(left)
    BY <1>1, <2>1, <2>2, <2>3, <2>5 DEF world, time, call, result, RoomToRead
  <2>6. QED
    BY <2>4, <2>5
<1>17. CASE WriteFails
  BY <1>9, <1>10, <1>17 DEF WriteFails, world
<1>18. CASE CallEnds
  BY <1>9, <1>10, <1>18 DEF CallEnds, world
<1>19. QED
  BY <1>2, <1>3, <1>4, <1>5, <1>6, <1>7, <1>8, <1>11, <1>12, <1>13, <1>14, <1>15, <1>16, <1>17,
     <1>18 DEF Next, Step

(* For every stream, size and number of calls, a call never has more bytes  *)
(* than its buffer holds (restart.c:131-147, 154-172).                      *)
THEOREM TypeCorrect == Spec => []TypeOK
<1>1. RInv => TypeOK
  BY DEF RInv
<1>2. QED
  BY TInvInitially, TInvKept, RInvInitially, RInvKept, <1>1, PTL DEF Spec

-----------------------------------------------------------------------------
(* Sequences that are cut in two and put together again.                    *)

LEMMA Empty ==
    ASSUME NEW p \in Bytes
    PROVE  /\ <<>> \in Bytes /\ Len(<<>>) = 0 /\ p \o <<>> = p /\ <<>> \o p = p
           /\ Len(p) \in Nat /\ (p = <<>> <=> Len(p) = 0)
BY ConcatEmptySeq, EmptySeq DEF Bytes

LEMMA Regrouped ==
    ASSUME NEW p \in Bytes, NEW q \in Bytes, NEW r \in Bytes
    PROVE  (p \o q) \o r = p \o (q \o r)
<1>1. p \in Seq({"a", Newline}) /\ q \in Seq({"a", Newline}) /\ r \in Seq({"a", Newline})
  BY DEF Bytes
<1>2. QED
  BY ONLY <1>1, ConcatAssociative, SMTT(30)

(* The same under a name, to be cited where there are many sequences. *)
Grouped(p, q, r) == (p \o q) \o r = p \o (q \o r)

LEMMA Grouping ==
    ASSUME NEW p \in Bytes, NEW q \in Bytes, NEW r \in Bytes
    PROVE  Grouped(p, q, r)
BY Regrouped DEF Grouped

LEMMA CutAndJoined ==
    ASSUME NEW q \in Bytes, NEW n \in 0 .. Len(q)
    PROVE  First(q, n) \o Rest(q, n) = q
<1>1. SubSeq(q, 1, n) \o SubSeq(q, n + 1, Len(q)) = SubSeq(q, 1, Len(q))
  <2>1. 1 \in 1 .. Len(q) + 1 /\ n \in 1 - 1 .. Len(q) /\ Len(q) \in n .. Len(q)
    BY Empty
  <2>2. q \in Seq({"a", Newline})
    BY DEF Bytes
  <2>3. QED
    BY ONLY <2>1, <2>2, ConcatAdjacentSubSeq
<1>2. SubSeq(q, 1, Len(q)) = q
  BY SubSeqFull DEF Bytes
<1>3. QED
  BY <1>1, <1>2 DEF First, Rest

LEMMA CutBehind ==
    ASSUME NEW p \in Bytes, NEW q \in Bytes
    PROVE  /\ First(p \o q, Len(p)) = p
           /\ Rest(p \o q, Len(p)) = q
<1> DEFINE w == p \o q
<1>1. /\ w \in Bytes /\ Len(w) = Len(p) + Len(q) /\ Len(p) \in Nat /\ Len(q) \in Nat
      /\ \A k \in 1 .. Len(p) + Len(q) : w[k] = IF k <= Len(p) THEN p[k] ELSE q[k - Len(p)]
  BY ConcatProperties, Empty DEF Bytes
<1> HIDE DEF w
<1>2. First(w, Len(p)) \in Bytes /\ Rest(w, Len(p)) \in Bytes
  BY <1>1, Pieces
<1>3. First(w, Len(p)) = p
  <2>1. Len(First(w, Len(p))) = Len(p) /\ \A k \in 1 .. Len(p) : First(w, Len(p))[k] = w[k]
    BY <1>1 DEF First, Bytes
  <2>2. \A k \in 1 .. Len(p) : First(w, Len(p))[k] = p[k]
    BY <1>1, <2>1
  <2>3. QED
    BY <1>2, <2>1, <2>2, SeqEqual DEF Bytes
<1>4. Rest(w, Len(p)) = q
  <2>1. /\ Len(Rest(w, Len(p))) = Len(q)
        /\ \A k \in 1 .. Len(q) : Rest(w, Len(p))[k] = w[Len(p) + k]
    BY <1>1 DEF Rest, Bytes
  <2>2. ASSUME NEW k \in 1 .. Len(q) PROVE Rest(w, Len(p))[k] = q[k]
    <3>1. /\ Len(p) + k \in 1 .. Len(p) + Len(q) /\ ~ Len(p) + k <= Len(p)
          /\ Len(p) + k - Len(p) = k
      BY <1>1
    <3>2. w[Len(p) + k] = q[k]
      BY <1>1, <3>1
    <3>3. QED
      BY <2>1, <3>2
  <2>3. QED
    BY <1>2, <2>1, <2>2, SeqEqual DEF Bytes
<1>5. QED
  BY <1>3, <1>4 DEF w

LEMMA CutTwice ==
    ASSUME NEW q \in Bytes, NEW m \in 0 .. Len(q), NEW n \in 0 .. Len(q) - m
    PROVE  Rest(Rest(q, m), n) = Rest(q, m + n)
<1>1. /\ Rest(q, m) \in Bytes /\ Len(Rest(q, m)) = Len(q) - m /\ Len(q) \in Nat
      /\ \A k \in 1 .. Len(q) - m : Rest(q, m)[k] = q[m + k]
  BY Empty DEF Rest, Bytes
<1>2. /\ Rest(Rest(q, m), n) \in Bytes /\ Len(Rest(Rest(q, m), n)) = Len(q) - m - n
      /\ \A k \in 1 .. Len(q) - m - n : Rest(Rest(q, m), n)[k] = Rest(q, m)[n + k]
  BY <1>1 DEF Rest, Bytes
<1>3. /\ Rest(q, m + n) \in Bytes /\ Len(Rest(q, m + n)) = Len(q) - m - n
      /\ \A k \in 1 .. Len(q) - m - n : Rest(q, m + n)[k] = q[m + n + k]
  BY <1>1 DEF Rest, Bytes
<1>4. \A k \in 1 .. Len(q) - m - n : Rest(Rest(q, m), n)[k] = Rest(q, m + n)[k]
  <2> SUFFICES ASSUME NEW k \in 1 .. Len(q) - m - n
               PROVE  Rest(Rest(q, m), n)[k] = Rest(q, m + n)[k]
    OBVIOUS
  <2>1. Rest(Rest(q, m), n)[k] = Rest(q, m)[n + k] /\ Rest(q, m + n)[k] = q[m + n + k]
    BY <1>2, <1>3
  <2>2. n + k \in 1 .. Len(q) - m /\ m + (n + k) = m + n + k
    BY <1>1
  <2>3. Rest(q, m)[n + k] = q[m + (n + k)]
    BY <1>1, <2>2
  <2>4. QED
    BY ONLY <2>1, <2>2, <2>3
<1>5. QED
  BY <1>1, <1>2, <1>3, <1>4, SeqEqual DEF Bytes

(* What is behind the first c of s begins with p: p can be taken.           *)
Splits(s, c, p, q) == Rest(s, c) = p \o q

LEMMA Taking ==
    ASSUME NEW s \in Bytes, NEW c \in 0 .. Len(s), NEW p \in Bytes, NEW q \in Bytes,
           Splits(s, c, p, q)
    PROVE  /\ Len(p) \in 0 .. Len(Rest(s, c)) /\ Len(Rest(s, c)) = Len(s) - c
           /\ First(Rest(s, c), Len(p)) = p
           /\ Rest(s, c + Len(p)) = q
           /\ c + Len(p) \in 0 .. Len(s)
<1> USE DEF Splits
<1>1. Len(Rest(s, c)) = Len(s) - c /\ Len(s) \in Nat
  BY Empty DEF Rest, Bytes
<1>2. Len(p) \in Nat /\ Len(q) \in Nat /\ Len(Rest(s, c)) = Len(p) + Len(q)
  BY Joined, Empty
<1>3. Rest(Rest(s, c), Len(p)) = Rest(s, c + Len(p))
  <2>1. Len(p) \in 0 .. Len(s) - c
    BY <1>1, <1>2
  <2>2. QED
    BY <2>1, CutTwice
<1>4. QED
  BY <1>1, <1>2, <1>3, CutBehind

-----------------------------------------------------------------------------
(* readwriteblock.  Until a call has failed with bytes, what was written is *)
(* what was copied, and while a block is being written the part that is     *)
(* written and the part that is left make up the block.                     *)
CInv ==
    fn = "readwriteblock" /\ lost = <<>> =>
        /\ pc = "write" => buf # <<>> /\ out \o left = got \o buf
        /\ pc # "write" => out = got

LEMMA CInvKept == RInv /\ RInv' /\ CInv /\ [Next]_vars => CInv'
<1> SUFFICES ASSUME RInv, RInv', CInv, [Next]_vars, fn' = "readwriteblock", lost' = <<>>
             PROVE  /\ pc' = "write" => buf' # <<>> /\ out' \o left' = got' \o buf'
                    /\ pc' # "write" => out' = got'
  BY DEF CInv
<1> DEFINE Goal == /\ pc' = "write" => buf' # <<>> /\ out' \o left' = got' \o buf'
                   /\ pc' # "write" => out' = got'
<1>1. /\ buf \in Bytes /\ got \in Bytes /\ lost \in Bytes /\ out \in Bytes /\ left \in Bytes
      /\ pipe \in Bytes /\ size \in Nat /\ Len(buf) <= size
  BY SizesAssumption DEF RInv, TypeOK
<1>2. ASSUME NEW r, NEW e, NEW bytes \in Bytes, Return(r, e, bytes)
      PROVE  /\ lost = <<>> /\ pc' = "idle" /\ fn = "readwriteblock"
             /\ r = -1 => bytes = <<>> /\ got' = got
             /\ r # -1 => got' = got \o bytes
  <2>1. lost' = (IF r = -1 THEN lost \o bytes ELSE lost) /\ UNCHANGED <<time, call>>
    BY <1>2 DEF Return
  <2>2. lost = <<>> /\ (r = -1 => bytes = <<>>)
    <3>1. r = -1 => lost \o bytes = <<>>
      BY <2>1
    <3>2. r # -1 => lost = <<>>
      BY <2>1
    <3>3. Len(lost \o bytes) = Len(lost) + Len(bytes)
      BY <1>1, Joined
    <3>4. Len(lost) \in Nat /\ Len(bytes) \in Nat /\ Len(<<>>) = 0
      BY <1>1, Empty
    <3>5. r = -1 => Len(lost) = 0 /\ Len(bytes) = 0
      BY <3>1, <3>3, <3>4
    <3>6. QED
      BY <1>1, <3>2, <3>5, Empty
  <2>3. QED
    BY <1>2, <2>1, <2>2 DEF Return, call
<1>3. ASSUME pc # "write", out' = out, NEW r, NEW e, Return(r, e, <<>>) PROVE Goal
  <2>1. <<>> \in Bytes /\ got \o <<>> = got
    BY <1>1, Empty
  <2>2. lost = <<>> /\ pc' = "idle" /\ fn = "readwriteblock" /\ got' = got
    BY <1>2, <1>3, <2>1
  <2>3. QED
    BY <1>3, <2>2 DEF CInv
<1>4. ASSUME pc # "write", pc' # "write", UNCHANGED <<out, got, lost, fn>> PROVE Goal
  BY <1>4 DEF CInv
<1>5. ASSUME pc' = pc, UNCHANGED <<out, got, lost, fn, buf, left>> PROVE Goal
  BY <1>5 DEF CInv
<1>6. CASE Send \/ Close \/ Tick \/ UNCHANGED vars
  BY <1>5, <1>6 DEF Send, Close, Tick, vars, call, result
<1>7. CASE Call \/ Wait
  BY <1>4, <1>7 DEF Call, Wait, call, result
<1>8. CASE Interrupted
  BY <1>4, <1>5, <1>8 DEF Interrupted, call, result
<1>9. CASE WaitExpires \/ SelectTimesOut \/ CallEnds
  BY <1>3, <1>9 DEF WaitExpires, SelectTimesOut, CallEnds
<1>10. CASE SelectReady
  BY <1>3, <1>4, <1>10 DEF SelectReady, call, result
<1>11. CASE Read
  <2>1. PICK n \in 1 .. Len(pipe) :
          n <= Asked /\ pipe' = Rest(pipe, n) /\ Taken(buf \o First(pipe, n))
    BY <1>11 DEF Read
  <2> DEFINE bytes == buf \o First(pipe, n)
  <2>2. bytes \in Bytes /\ Len(bytes) = Len(buf) + n /\ Len(buf) \in Nat /\ bytes # <<>>
    <3>1. First(pipe, n) \in Bytes /\ Len(First(pipe, n)) = n
      BY <1>1, Pieces
    <3>2. bytes \in Bytes /\ Len(bytes) = Len(buf) + n /\ Len(buf) \in Nat
      BY <1>1, <3>1, Joined
    <3>3. QED
      BY <3>2, Empty
  <2>3. pc = "read" /\ out' = out
    BY <1>11 DEF Read
  <2> HIDE DEF bytes
  <2>4. Taken(bytes)
    BY <2>1 DEF bytes
  <2>5. CASE \E r \in Nat : Return(r, "none", bytes) /\ UNCHANGED left
    <3>1. fn = "readwriteblock"
      BY <1>2, <2>2, <2>5
    <3>2. Asked = size - Len(buf)
      BY <3>1 DEF Asked, Blocks
    <3>3. Len(bytes) <= size
      BY <1>1, <2>1, <2>2, <3>2
    <3>4. pc' # "idle"
      BY <1>1, <2>2, <2>4, <3>1, <3>3 DEF Taken, Blocks
    <3>5. QED
      BY <1>2, <2>2, <2>5, <3>4
  <2>6. CASE Return(-1, "EINVAL", bytes) /\ UNCHANGED left
    BY <1>2, <2>2, <2>6
  <2>7. CASE pc' = "read" /\ UNCHANGED <<time, call, result, left>>
    BY <1>4, <2>3, <2>7 DEF call, result
  <2>8. CASE pc' = "write" /\ buf' = bytes /\ left' = bytes /\ UNCHANGED <<time, call, result>>
    BY <2>2, <2>3, <2>8 DEF CInv, call, result
  <2>9. QED
    <3>1. Len(bytes) \in Nat
      BY <2>2
    <3>2. QED
      BY <2>4, <2>5, <2>6, <2>7, <2>8, <3>1 DEF Taken
<1>12. CASE ReadEnds \/ ReadFails
  <2>1. pc = "read" /\ out' = out
    BY <1>12 DEF ReadEnds, ReadFails
  <2>2. \E r, e : Return(r, e, <<>>) \/ (r = -1 /\ Return(r, e, buf))
    BY <1>12 DEF ReadEnds, ReadFails
  <2>3. ASSUME NEW r, NEW e, r = -1, Return(r, e, buf) PROVE Goal
    <3>1. buf = <<>>
      BY <1>1, <1>2, <2>3
    <3>2. Return(r, e, <<>>)
      BY <2>3, <3>1
    <3>3. QED
      BY <1>3, <2>1, <3>2
  <2>4. QED
    BY <1>3, <2>1, <2>2, <2>3
<1>13. CASE Write
  <2>1. PICK n \in 1 .. Len(left) :
          /\ out' = out \o First(left, n)
          /\ left' = Rest(left, n)
          /\ IF n = Len(left) THEN Return(size, "none", buf)
             ELSE UNCHANGED <<time, pc, call, buf, result>>
    BY <1>13 DEF Write
  <2>2. pc = "write"
    BY <1>13 DEF Write
  <2>3. Len(left) \in Nat /\ First(left, n) \in Bytes /\ Rest(left, n) \in Bytes
        /\ First(left, n) \o Rest(left, n) = left
    <3>1. Len(left) \in Nat /\ n \in 0 .. Len(left)
      BY <1>1, Empty
    <3>2. First(left, n) \in Bytes /\ Rest(left, n) \in Bytes
      BY <1>1, <3>1, Pieces
    <3>3. First(left, n) \o Rest(left, n) = left
      BY <1>1, <3>1, CutAndJoined
    <3>4. QED
      BY <3>1, <3>2, <3>3
  <2>4. (out \o First(left, n)) \o Rest(left, n) = out \o left
    <3>1. PICK a \in Bytes, b \in Bytes : a = First(left, n) /\ b = Rest(left, n)
      BY <2>3
    <3>2. (out \o a) \o b = out \o (a \o b)
      <4>1. out \in Bytes
        BY <1>1
      <4>2. QED
        BY ONLY <4>1, a \in Bytes, b \in Bytes, Regrouped
    <3>3. QED
      BY <2>3, <3>1, <3>2
  <2>5. CASE n = Len(left)
    <3>1. First(left, n) = left
      BY <1>1, <2>5, SubSeqFull DEF First, Bytes
    <3>2. Return(size, "none", buf) /\ size # -1
      BY <1>1, <2>1, <2>5
    <3>3. pc' = "idle" /\ got' = got \o buf /\ lost = <<>> /\ fn = "readwriteblock"
      BY <1>1, <1>2, <3>2
    <3>4. QED
      BY <2>1, <2>2, <3>1, <3>3 DEF CInv
  <2>6. CASE n # Len(left)
    <3>1. UNCHANGED <<time, pc, call, buf, result>>
      BY <2>1, <2>6
    <3>2. out' \o left' = out \o left
      BY <2>1, <2>4
    <3>3. QED
      BY <2>2, <3>1, <3>2 DEF CInv, call, result
  <2>7. QED
    BY <2>5, <2>6
<1>14. CASE WriteFails
  <2>1. lost = <<>> /\ fn = "readwriteblock" /\ buf = <<>>
    BY <1>1, <1>2, <1>14 DEF WriteFails
  <2>2. QED
    BY <1>14, <2>1 DEF WriteFails, CInv
<1>15. QED
  BY <1>6, <1>7, <1>8, <1>9, <1>10, <1>11, <1>12, <1>13, <1>14 DEF Next, Step

(* Until a call fails, the other descriptor has got exactly the blocks that *)
(* readwriteblock has returned, in whatever parts they were read and        *)
(* written (restart.c:196-203).                                             *)
THEOREM BlocksCopied == Spec => []Copied
<1>1. Init => CInv
  BY DEF Init, CInv
<1>2. RInv /\ CInv => Copied
  <2> SUFFICES ASSUME RInv, CInv, fn = "readwriteblock", lost = <<>>
               PROVE  /\ pc = "idle" => out = got
                      /\ out = First(got \o buf, Len(out))
    BY DEF Copied
  <2>1. buf \in Bytes /\ got \in Bytes /\ out \in Bytes /\ left \in Bytes
    BY DEF RInv, TypeOK
  <2>2. CASE pc = "write"
    BY <2>1, <2>2, CutBehind DEF CInv
  <2>3. CASE pc # "write"
    BY <2>1, <2>3, CutBehind DEF CInv
  <2>4. QED
    BY <2>2, <2>3
<1>3. QED
  BY TInvInitially, TInvKept, RInvInitially, RInvKept, CInvKept, <1>1, <1>2, PTL DEF Spec

-----------------------------------------------------------------------------
(* The refinement of ReadService.  A call that is on its way has taken its  *)
(* bytes from the stream, for the service they are still there: what        *)
(* remains of the stream are the bytes held, and then those that were not   *)
(* read yet.                                                                *)

Consumed == Len(got) + Len(lost)

Held == IF pc = "idle" THEN <<>> ELSE buf

(* A connection that broke has lost what was unread. *)
Unread ==
    \E unread \in Bytes : /\ Rest(stream, Consumed) = Held \o unread
                          /\ other # "broken" => unread = pipe \o tosend

(* Which function is where, and with what. *)
Control ==
    /\ pc # "idle" => size \in Sizes
    /\ pc \in {"wait", "select"} => fn \in Timed
    /\ pc = "call" => fn \in Simple
    /\ pc = "write" => fn = "readwriteblock" /\ Len(buf) = size
    /\ pc = "read" => fn \notin Simple \cup {"waitfdtimed"}
    /\ pc = "read" /\ fn = "readline" => Reads!NoNewline(buf)
    /\ pc \in {"wait", "select", "call"} => buf = <<>>

Ended ==
    /\ other = "closed" => tosend = <<>>
    /\ other = "broken" => pipe = <<>>

SInv ==
    /\ RInv
    /\ Consumed \in 0 .. Len(stream)
    /\ Unread
    /\ Control
    /\ Ended

Service == <<stream, fn, ret, got, lost>>

ServiceStep == (Reads!Succeeds \/ Reads!Ends \/ Reads!Fails) /\ UNCHANGED <<stream, fn>>

LEMMA SInvTypes ==
    ASSUME SInv
    PROVE  /\ stream \in Bytes /\ tosend \in Bytes /\ pipe \in Bytes
           /\ buf \in Bytes /\ Len(buf) <= size /\ Len(buf) \in Nat
           /\ got \in Bytes /\ lost \in Bytes /\ left \in Bytes
           /\ size \in Nat /\ (pc # "idle" => size \in Sizes)
           /\ Len(got) \in Nat /\ Len(lost) \in Nat
           /\ Consumed \in 0 .. Len(stream) /\ Rest(stream, Consumed) \in Bytes
BY Empty, Pieces, StreamsAssumption, SizesAssumption DEF SInv, RInv, TypeOK, Control, Bytes

LEMMA SInvInitially == Init => SInv
<1> SUFFICES ASSUME Init PROVE SInv
  OBVIOUS
<1>1. RInv
  BY RInvInitially
<1>2. stream \in Bytes
  BY StreamsAssumption DEF Init, Bytes
<1>3. got = <<>> /\ lost = <<>> /\ pc = "idle" /\ tosend = stream /\ pipe = <<>> /\ other = "open"
  BY DEF Init
<1>4. Consumed = 0 /\ Len(stream) \in Nat
  BY <1>2, <1>3, Empty DEF Consumed
<1>5. Rest(stream, 0) = stream
  BY <1>2, SubSeqFull DEF Rest, Bytes
<1>6. Unread
  <2>1. <<>> \o stream = stream
    BY <1>2, Empty
  <2>2. QED
    BY <1>2, <1>3, <1>4, <1>5, <2>1 DEF Unread, Held
<1>7. QED
  BY <1>1, <1>3, <1>4, <1>6 DEF SInv, Control, Ended

(* Bytes at the head of what remains can be handed over, or lost. *)
LEMMA Handed ==
    ASSUME SInv, NEW p \in Bytes, NEW u \in Bytes, Rest(stream, Consumed) = p \o u
    PROVE  Len(p) \in 0 .. Len(Reads!Remainder) /\ Reads!Piece(Len(p)) = p
<1>1. PICK c \in 0 .. Len(stream) : c = Consumed
  BY SInvTypes
<1>2. stream \in Bytes /\ Splits(stream, c, p, u)
  BY <1>1, SInvTypes DEF Splits
<1>3. Len(p) \in 0 .. Len(Rest(stream, c)) /\ First(Rest(stream, c), Len(p)) = p
  BY <1>2, Taking
<1>4. Reads!Remainder = Rest(stream, c)
  BY <1>1 DEF Reads!Remainder, Rest, Consumed
<1>5. Reads!Piece(Len(p)) = First(Rest(stream, c), Len(p))
  BY <1>4 DEF Reads!Piece, First
<1>6. QED
  BY <1>3, <1>4, <1>5

LEMMA HeldFirst ==
    ASSUME SInv, pc # "idle"
    PROVE  \E u \in Bytes : /\ Rest(stream, Consumed) = buf \o u
                            /\ other # "broken" => u = pipe \o tosend
BY DEF SInv, Unread, Held

(* The bytes of a call that returns them, or loses them, are gone from the  *)
(* stream.                                                                  *)
LEMMA ReturnKeeps ==
    ASSUME SInv, RInv', NEW r, NEW e, NEW bytes \in Bytes, Return(r, e, bytes),
           UNCHANGED <<stream, other>>, Ended',
           NEW u \in Bytes, Rest(stream, Consumed) = bytes \o u,
           other # "broken" => u = pipe' \o tosend'
    PROVE  SInv'
<1>1. /\ stream \in Bytes /\ got \in Bytes /\ lost \in Bytes /\ Consumed \in 0 .. Len(stream)
  BY SInvTypes
<1>2. Consumed' = Consumed + Len(bytes)
  <2>1. CASE r = -1
    <3>1. got' = got /\ lost' = lost \o bytes
      BY <2>1 DEF Return
    <3>2. Len(lost \o bytes) = Len(lost) + Len(bytes)
      BY <1>1, Joined
    <3>3. QED
      BY <1>1, <3>1, <3>2, Empty DEF Consumed
  <2>2. CASE r # -1
    <3>1. got' = got \o bytes /\ lost' = lost
      BY <2>2 DEF Return
    <3>2. Len(got \o bytes) = Len(got) + Len(bytes)
      BY <1>1, Joined
    <3>3. QED
      BY <1>1, <3>1, <3>2, Empty DEF Consumed
  <2>3. QED
    BY <2>1, <2>2
<1>3. Rest(stream, Consumed + Len(bytes)) = u /\ Consumed + Len(bytes) \in 0 .. Len(stream)
  <2>1. PICK c \in 0 .. Len(stream) : c = Consumed
    BY <1>1
  <2>2. Splits(stream, c, bytes, u)
    BY <2>1 DEF Splits
  <2>3. QED
    BY <1>1, <2>1, <2>2, Taking
<1>4. Held' = <<>> /\ pc' = "idle"
  BY DEF Return, Held
<1>5. Rest(stream', Consumed') = Held' \o u
  BY <1>2, <1>3, <1>4, Empty
<1>6. Unread'
  BY <1>5 DEF Unread
<1>7. Control'
  BY <1>4 DEF Control
<1>8. QED
  BY <1>2, <1>3, <1>6, <1>7 DEF SInv

LEMMA ReturnsHeld ==
    ASSUME SInv, RInv', pc # "idle", NEW r, NEW e, Return(r, e, buf), UNCHANGED world
    PROVE  SInv'
<1>1. PICK u \in Bytes : /\ Rest(stream, Consumed) = buf \o u
                         /\ other # "broken" => u = pipe \o tosend
  BY HeldFirst
<1>2. Ended'
  BY DEF SInv, Ended, world
<1>3. buf \in Bytes
  BY SInvTypes
<1>4. UNCHANGED <<stream, other, pipe, tosend>>
  BY DEF world
<1>5. QED
  BY <1>1, <1>2, <1>3, <1>4, ReturnKeeps

(* A step that returns nothing leaves what remains.                         *)
LEMMA QuietKeeps ==
    ASSUME SInv, RInv', UNCHANGED <<stream, got, lost>>, Control', Ended',
           NEW p \in Bytes, p = Held', p = Held,
           other' # "broken" => other # "broken" /\ pipe' \o tosend' = pipe \o tosend
    PROVE  SInv'
<1>1. PICK u \in Bytes : /\ Rest(stream, Consumed) = p \o u
                         /\ other # "broken" => u = pipe \o tosend
  BY DEF SInv, Unread
<1>2. Consumed' = Consumed
  BY DEF Consumed
<1>3. Rest(stream', Consumed') = Held' \o u
  BY <1>1, <1>2
<1>4. Unread'
  BY <1>1, <1>3 DEF Unread
<1>5. QED
  BY <1>2, <1>4 DEF SInv

-----------------------------------------------------------------------------
(* What the service sees of a return.                                       *)

LEMMA FailureServed ==
    ASSUME SInv, NEW e, NEW p \in Bytes, NEW u \in Bytes, Rest(stream, Consumed) = p \o u,
           Return(-1, e, p), UNCHANGED stream, size \in Sizes, Len(p) <= size,
           fn = "readline" => Len(p) < size /\ Reads!NoNewline(p),
           fn = "readblock" => Len(p) < size,
           fn \notin {"readline", "readblock", "readwriteblock"} => p = <<>>
    PROVE  ServiceStep
<1>1. Len(p) \in 0 .. Len(Reads!Remainder) /\ Reads!Piece(Len(p)) = p
  BY Handed
<1>2. ret' = -1 /\ got' = got /\ lost' = lost \o Reads!Piece(Len(p)) /\ UNCHANGED <<stream, fn>>
  BY <1>1 DEF Return, call
<1>3. Len(p) \in Nat /\ size \in Nat /\ (p = <<>> => Len(p) = 0)
  BY SInvTypes, Empty
<1>4. (CASE fn = "readline" -> Len(p) < size /\ Reads!NoNewline(Reads!Piece(Len(p)))
         [] fn = "readblock" -> Len(p) < size
         [] fn = "readwriteblock" -> TRUE
         [] OTHER -> Len(p) = 0)
  <2>1. CASE fn = "readline"
    BY <1>1, <2>1
  <2>2. CASE fn = "readblock"
    BY <2>2
  <2>3. CASE fn = "readwriteblock"
    BY <2>3
  <2>4. CASE fn \notin {"readline", "readblock", "readwriteblock"}
    BY <1>3, <2>4
  <2>5. QED
    BY <2>1, <2>2, <2>3, <2>4
<1>5. Len(p) \in 0 .. size /\ Len(p) <= Len(Reads!Remainder)
  BY <1>1, <1>3, Empty
<1>6. Reads!Fails
  BY <1>2, <1>4, <1>5 DEF Reads!Fails
<1>7. QED
  BY <1>2, <1>6 DEF ServiceStep

LEMMA SuccessServed ==
    ASSUME SInv, NEW p \in Bytes, NEW u \in Bytes, Rest(stream, Consumed) = p \o u,
           Return(Len(p), "none", p), UNCHANGED stream, size \in Sizes, Len(p) \in 1 .. size,
           Reads!Whole(p, size)
    PROVE  ServiceStep
<1>1. Len(p) \in 0 .. Len(Reads!Remainder) /\ Reads!Piece(Len(p)) = p
  BY Handed
<1>2. Len(p) \in Nat /\ size \in Nat
  BY SInvTypes, Empty
<1>3. ret' = Len(p) /\ got' = got \o Reads!Piece(Len(p)) /\ lost' = lost /\ UNCHANGED <<stream, fn>>
  BY <1>1, <1>2 DEF Return, call
<1>4. Len(p) <= Len(Reads!Remainder) /\ Reads!Whole(Reads!Piece(Len(p)), size)
  BY <1>1
<1>5. Reads!Succeeds
  BY <1>3, <1>4 DEF Reads!Succeeds
<1>6. QED
  BY <1>3, <1>5 DEF ServiceStep

LEMMA EndServed ==
    ASSUME SInv, Return(0, "none", <<>>), UNCHANGED stream,
           fn \notin Simple \cup {"waitfdtimed"} => Reads!Remainder = <<>>
    PROVE  ServiceStep
<1>1. ret' = 0 /\ got' = got \o <<>> /\ lost' = lost /\ UNCHANGED <<stream, fn>>
  BY DEF Return, call
<1>2. got' = got
  BY <1>1, SInvTypes, Empty
<1>3. Reads!Ends
  BY <1>1, <1>2 DEF Reads!Ends, Simple
<1>4. QED
  BY <1>1, <1>3 DEF ServiceStep

(* A call may fail before it has read anything.                             *)
LEMMA NothingTaken ==
    ASSUME SInv
    PROVE  /\ 0 <= Len(Reads!Remainder)
           /\ Reads!Piece(0) = <<>> /\ lost \o <<>> = lost
           /\ Reads!NoNewline(<<>>)
<1>1. Reads!Remainder \in Bytes
  BY SInvTypes DEF Reads!Remainder, Rest, Consumed
<1>2. Reads!Piece(0) = <<>>
  BY SubSeqEmpty DEF Reads!Piece
<1>3. lost \o <<>> = lost /\ 0 <= Len(Reads!Remainder)
  BY <1>1, SInvTypes, Empty
<1>4. Reads!NoNewline(<<>>)
  BY DEF Reads!NoNewline
<1>5. QED
  BY <1>2, <1>3, <1>4

(* A line that is read a byte at a time has no newline before its last byte. *)
LEMMA NoneSoFar ==
    ASSUME NEW h \in Bytes, NEW f \in Bytes, Len(f) = 1, Reads!NoNewline(h),
           NEW p, p = h \o f
    PROVE  /\ Reads!NoNewline(SubSeq(p, 1, Len(p) - 1))
           /\ p[Len(p)] # Newline => Reads!NoNewline(p)
<1>1. /\ Len(h) \in Nat /\ Len(p) = Len(h) + 1
      /\ \A k \in 1 .. Len(h) + 1 : p[k] = IF k <= Len(h) THEN h[k] ELSE f[k - Len(h)]
  <2>1. /\ Len(h \o f) = Len(h) + Len(f)
        /\ \A k \in 1 .. Len(h) + Len(f) :
              (h \o f)[k] = IF k <= Len(h) THEN h[k] ELSE f[k - Len(h)]
    BY ConcatProperties DEF Bytes
  <2>2. Len(h) \in Nat
    BY Empty
  <2>3. QED
    BY <2>1, <2>2
<1>2. \A k \in 1 .. Len(h) : p[k] # Newline
  BY <1>1 DEF Reads!NoNewline
<1>3. p[Len(p)] # Newline => Reads!NoNewline(p)
  BY <1>1, <1>2 DEF Reads!NoNewline
<1>4. /\ Len(SubSeq(p, 1, Len(h))) = Len(h)
      /\ \A k \in 1 .. Len(h) : SubSeq(p, 1, Len(h))[k] = p[k]
  BY <1>1
<1>5. QED
  BY <1>1, <1>2, <1>3, <1>4 DEF Reads!NoNewline

(* One read: the call goes on, or returns what it has.                       *)
LEMMA ReadServed ==
    ASSUME SInv, RInv', Read
    PROVE  SInv' /\ (ServiceStep \/ UNCHANGED Service)
<1> DEFINE Goal == SInv' /\ (ServiceStep \/ UNCHANGED Service)
<1>1. /\ stream \in Bytes /\ tosend \in Bytes /\ pipe \in Bytes /\ buf \in Bytes
      /\ Len(buf) \in Nat /\ size \in Nat
      /\ Sizes \subseteq Nat \ {0}
  BY SInvTypes, SizesAssumption
<1>2. Control /\ Ended /\ RInv /\ TypeOK
  BY DEF SInv, RInv
<1>3. PICK n \in 1 .. Len(pipe) :
        n <= Asked /\ pipe' = Rest(pipe, n) /\ Taken(buf \o First(pipe, n))
  BY DEF Read
<1>4. pc = "read" /\ size \in Sizes /\ UNCHANGED <<stream, tosend, other, out, signals>>
  BY <1>2 DEF Read, Control
<1>5. other # "broken" /\ Ended'
  <2>1. pipe # <<>>
    BY <1>3, Empty
  <2>2. QED
    BY <1>2, <1>4, <2>1 DEF Ended
<1>6. PICK f \in Bytes, r \in Bytes : f = First(pipe, n) /\ r = Rest(pipe, n) /\ Len(f) = n /\ f \o r = pipe
  <2>1. n \in 0 .. Len(pipe)
    BY <1>1, Empty
  <2>2. First(pipe, n) \in Bytes /\ Rest(pipe, n) \in Bytes /\ Len(First(pipe, n)) = n
    BY <1>1, <2>1, Pieces
  <2>3. First(pipe, n) \o Rest(pipe, n) = pipe
    BY <1>1, <2>1, CutAndJoined
  <2>4. QED
    BY <2>2, <2>3
<1>7. PICK p \in Bytes : p = buf \o f /\ Len(p) = Len(buf) + n /\ Len(p) \in Nat /\ Len(p) >= 1
  <2>1. buf \o f \in Bytes /\ Len(buf \o f) = Len(buf) + Len(f)
    BY <1>1, Joined
  <2>2. n \in Nat /\ n >= 1
    BY <1>1, Empty
  <2>3. Len(buf \o f) = Len(buf) + n /\ Len(buf \o f) \in Nat /\ Len(buf \o f) >= 1
    BY <1>1, <1>6, <2>1, <2>2
  <2>4. QED
    BY <2>1, <2>3
<1>8. PICK u \in Bytes : u = pipe' \o tosend' /\ u = r \o tosend
  BY <1>1, <1>3, <1>4, <1>6, Joined
<1>9. Rest(stream, Consumed) = p \o u
  <2>1. Rest(stream, Consumed) = buf \o (pipe \o tosend)
    BY <1>4, <1>5, HeldFirst
  <2>2. buf \o ((f \o r) \o tosend) = (buf \o f) \o (r \o tosend)
    <3>1. PICK h \in Bytes, t \in Bytes : h = buf /\ t = tosend
      BY <1>1
    <3>2. PICK v \in Bytes : v = r \o t
      BY Joined
    <3>3. Grouped(f, r, t) /\ Grouped(h, f, v)
      BY Grouping
    <3>4. h \o ((f \o r) \o t) = (h \o f) \o (r \o t)
      BY ONLY <3>2, <3>3 DEF Grouped
    <3>5. QED
      BY <3>1, <3>4
  <2>3. QED
    BY <1>6, <1>7, <1>8, <2>1, <2>2
<1>10. Taken(p)
  BY <1>3, <1>6, <1>7
<1>11. /\ fn = "readline" => n = 1 /\ Len(p) < size /\ Reads!NoNewline(buf)
       /\ fn \in Blocks => Len(p) <= size
       /\ fn \in {"r_read", "readtimed"} => Len(p) \in 1 .. size
  BY <1>1, <1>2, <1>3, <1>4, <1>7, Empty DEF RInv, RoomToRead, Control, Asked, Blocks
<1>12. fn \in {"readline", "r_read", "readtimed"} \cup Blocks
  BY <1>2, <1>4, FunctionsAssumption DEF Control, TypeOK, Timed
<1>13. fn = "readline" => /\ Reads!NoNewline(SubSeq(p, 1, Len(p) - 1))
                          /\ p[Len(p)] # Newline => Reads!NoNewline(p)
  BY <1>1, <1>6, <1>7, <1>11, NoneSoFar
<1>14. ASSUME NEW x, NEW e, Return(x, e, p) PROVE SInv'
  BY <1>4, <1>5, <1>8, <1>9, <1>14, ReturnKeeps
<1>15. ASSUME pc' \in {"read", "write"}, buf' = p, UNCHANGED <<call, result>>, Control'
       PROVE  Goal
  <2>1. Held' = p
    BY <1>15 DEF Held
  <2>2. Consumed' = Consumed /\ stream' = stream
    BY <1>4, <1>15 DEF Consumed, result
  <2>3. Rest(stream', Consumed') = Held' \o u
    BY <1>9, <2>1, <2>2
  <2>4. Unread'
    BY <1>8, <2>3 DEF Unread
  <2>5. SInv'
    BY <1>5, <1>15, <2>2, <2>4, SInvTypes DEF SInv
  <2>6. UNCHANGED Service
    BY <1>4, <1>15 DEF Service, call, result
  <2>7. QED
    BY <2>5, <2>6
<1>16. CASE fn = "readline" /\ p[Len(p)] # Newline
  <2>1. CASE Return(-1, "EINVAL", p)
    <3>1. ServiceStep
      <4>1. Len(p) < size /\ Len(p) <= size
        BY <1>1, <1>7, <1>11, <1>16
      <4>2. fn = "readline" /\ UNCHANGED stream /\ size \in Sizes
        BY <1>4, <1>16
      <4>4. Reads!NoNewline(p)
        BY <1>13, <1>16, Zenon
      <4>3. QED
        BY <1>9, <2>1, <4>1, <4>2, <4>4, FailureServed
    <3>2. QED
      BY <1>14, <2>1, <3>1
  <2>2. CASE pc' = "read" /\ buf' = p /\ UNCHANGED <<time, call, result, left>>
    <3>1. Reads!NoNewline(p) /\ buf' = p
      BY <1>13, <1>16, <2>2, Zenon
    <3>2. Reads!NoNewline(buf')
      BY <3>1
    <3>3. pc' = "read" /\ fn' = "readline" /\ size' \in Sizes
      BY <1>4, <1>16, <2>2 DEF call
    <3>4. Control'
      BY <3>2, <3>3 DEF Control, Simple
    <3>5. QED
      BY <1>15, <2>2, <3>4
  <2>3. QED
    BY <1>10, <1>16, <2>1, <2>2 DEF Taken
<1>17. CASE fn \in Blocks /\ Len(p) < size
  <2>1. pc' = "read" /\ buf' = p /\ UNCHANGED <<time, call, result, left>>
    BY <1>10, <1>17 DEF Taken, Blocks
  <2>2. Control'
    BY <1>4, <1>17, <2>1 DEF Control, call, Simple, Blocks
  <2>3. QED
    BY <1>15, <2>1, <2>2
<1>18. CASE fn = "readwriteblock" /\ Len(p) = size
  <2>1. pc' = "write" /\ buf' = p /\ UNCHANGED <<time, call, result>>
    BY <1>1, <1>10, <1>18 DEF Taken, Blocks
  <2>2. Control'
    BY <1>4, <1>18, <2>1 DEF Control, call
  <2>3. QED
    BY <1>15, <2>1, <2>2
<1>19. CASE \/ fn = "readline" /\ p[Len(p)] = Newline
            \/ fn = "readblock" /\ Len(p) = size
            \/ fn \in {"r_read", "readtimed"}
  <2>1. Return(Len(p), "none", p)
    BY <1>1, <1>10, <1>19 DEF Taken, Blocks
  <2>2. Len(p) \in 1 .. size
    BY <1>1, <1>7, <1>11, <1>19
  <2>3. CASE fn = "readline" /\ p[Len(p)] = Newline
    <3>1. Len(p) \in 1 .. size - 1
      BY <1>1, <1>7, <1>11, <2>3
    <3>2. Reads!Whole(p, size)
      <4>1. fn = "readline" /\ p[Len(p)] = Newline
        BY <2>3
      <4>2. Reads!NoNewline(SubSeq(p, 1, Len(p) - 1))
        BY <1>13, <4>1, Zenon
      <4>3. QED
        BY ONLY <3>1, <4>1, <4>2 DEF Reads!Whole
    <3>3. QED
      BY <1>4, <1>9, <1>14, <2>1, <2>2, <3>2, SuccessServed
  <2>4. CASE (fn = "readblock" /\ Len(p) = size) \/ fn \in {"r_read", "readtimed"}
    <3>1. Reads!Whole(p, size)
      BY <2>2, <2>4 DEF Reads!Whole
    <3>2. QED
      BY <1>4, <1>9, <1>14, <2>1, <2>2, <3>1, SuccessServed
  <2>5. QED
    BY <1>19, <2>3, <2>4
<1>20. QED
  <2>1. Len(p) \in Nat /\ size \in Nat
    BY <1>1, <1>7
  <2>2. fn \in Blocks => Len(p) < size \/ Len(p) = size
    BY <1>11, <2>1
  <2>3. QED
    BY <1>12, <1>16, <1>17, <1>18, <1>19, <2>2 DEF Blocks

(* Every step of a call takes a whole piece, or fails, or is not seen by     *)
(* the service.                                                              *)
LEMMA Served ==
    ASSUME SInv, RInv', [Next]_vars
    PROVE  SInv' /\ (ServiceStep \/ UNCHANGED Service)
<1> DEFINE Goal == SInv' /\ (ServiceStep \/ UNCHANGED Service)
<1>1. /\ stream \in Bytes /\ tosend \in Bytes /\ pipe \in Bytes /\ buf \in Bytes
      /\ Len(buf) <= size /\ Len(buf) \in Nat /\ size \in Nat /\ <<>> \in Bytes /\ Len(<<>>) = 0
      /\ Sizes \subseteq Nat \ {0} /\ (buf = <<>> <=> Len(buf) = 0)
  BY SInvTypes, Empty, SizesAssumption
<1>2. Control /\ Ended /\ RInv /\ TypeOK
  BY DEF SInv, RInv
<1>3. Held \in Bytes
  BY <1>1 DEF Held
<1>4. ASSUME UNCHANGED <<stream, fn, ret, got, lost>>, Held' = Held, Control', Ended',
             other' # "broken" => other # "broken" /\ pipe' \o tosend' = pipe \o tosend
      PROVE  Goal
  <2>1. SInv'
    BY <1>3, <1>4, QuietKeeps
  <2>2. UNCHANGED Service
    BY <1>4 DEF Service
  <2>3. QED
    BY <2>1, <2>2
<1>5. CASE UNCHANGED vars
  BY <1>2, <1>4, <1>5 DEF vars, world, call, result, Held, Control, Ended
<1>6. CASE Send
  <2>1. PICK n \in 1 .. Len(tosend) : pipe' = pipe \o First(tosend, n) /\ tosend' = Rest(tosend, n)
    BY <1>6 DEF Send
  <2>2. PICK a \in Bytes, b \in Bytes : a = First(tosend, n) /\ b = Rest(tosend, n) /\ a \o b = tosend
    <3>1. n \in 0 .. Len(tosend)
      BY <1>1, Empty
    <3>2. First(tosend, n) \in Bytes /\ Rest(tosend, n) \in Bytes
      BY <1>1, <3>1, Pieces
    <3>3. First(tosend, n) \o Rest(tosend, n) = tosend
      BY <1>1, <3>1, CutAndJoined
    <3>4. QED
      BY <3>2, <3>3
  <2>3. (pipe \o a) \o b = pipe \o (a \o b)
    <3>1. pipe \in Bytes
      BY <1>1
    <3>2. QED
      BY ONLY <3>1, a \in Bytes, b \in Bytes, Regrouped
  <2>4. pipe' \o tosend' = pipe \o tosend
    BY <2>1, <2>2, <2>3
  <2>5. other = "open" /\ UNCHANGED <<stream, other, pc, call, buf, result>>
    BY <1>6 DEF Send
  <2>6. Held' = Held /\ Control'
    BY <1>2, <2>5 DEF call, Held, Control
  <2>7. Ended'
    BY <2>5 DEF Ended
  <2>8. UNCHANGED <<stream, fn, ret, got, lost>>
    BY <2>5 DEF call, result
  <2>9. QED
    BY <1>4, <2>4, <2>5, <2>6, <2>7, <2>8
<1>7. CASE Close
  <2>1. UNCHANGED <<stream, tosend, pc, call, buf, result>>
    BY <1>7 DEF Close
  <2>2. Held' = Held /\ Control' /\ UNCHANGED <<stream, fn, ret, got, lost>>
    BY <1>2, <2>1 DEF call, result, Held, Control
  <2>3. Ended' /\ (other' # "broken" => other # "broken" /\ pipe' \o tosend' = pipe \o tosend)
    BY <1>7, <2>1 DEF Close, Ended
  <2>4. QED
    BY <1>4, <2>2, <2>3
<1>8. CASE Tick
  BY <1>2, <1>4, <1>8 DEF Tick, world, call, result, Held, Control, Ended
<1>9. CASE Interrupted
  <2>1. UNCHANGED <<world, call, buf, result>> /\ (pc' = pc \/ (pc = "select" /\ pc' = "wait"))
    BY <1>9 DEF Interrupted
  <2>2. Held' = Held /\ Control' /\ Ended'
    BY <1>2, <2>1 DEF world, call, Held, Control, Ended
  <2>3. QED
    BY <1>4, <2>1, <2>2 DEF world, call, result
<1>10. CASE Wait
  <2>1. UNCHANGED <<world, call, buf, result>> /\ pc = "wait" /\ pc' = "select"
    BY <1>10 DEF Wait
  <2>2. Held' = Held /\ Control' /\ Ended'
    BY <1>2, <2>1 DEF world, call, Held, Control, Ended
  <2>3. QED
    BY <1>4, <2>1, <2>2 DEF world, call, result
<1>11. CASE Call
  <2>1. /\ pc = "idle" /\ size' \in Sizes /\ buf' = <<>>
        /\ UNCHANGED <<world, fn, got, lost>>
    BY <1>11 DEF Call
  <2>2. \/ /\ fn = "readline" /\ Full(<<>>, size')
           /\ pc' = "idle" /\ ret' = -1
        \/ /\ ~ (fn = "readline" /\ Full(<<>>, size'))
           /\ pc' = (CASE fn \in Timed -> "wait" [] fn \in Simple -> "call" [] OTHER -> "read")
           /\ UNCHANGED ret
    BY <1>11 DEF Call
  <2>3. Held = <<>> /\ Held' = <<>>
    BY <2>1 DEF Held
  <2>4. Control'
    <3>1. pc' \in {"idle", "wait", "call", "read"}
      BY <2>2
    <3>2. pc' = "wait" => fn \in Timed
      BY <2>2
    <3>3. pc' = "call" => fn \in Simple
      BY <2>2
    <3>4. pc' = "read" => fn \notin Timed \cup Simple
      BY <2>2
    <3>5. Reads!NoNewline(<<>>)
      BY DEF Reads!NoNewline
    <3>6. fn' = fn /\ size' \in Sizes /\ buf' = <<>>
      BY <2>1
    <3>7. Reads!NoNewline(buf')
      BY <3>5, <3>6
    <3>8. QED
      BY <3>1, <3>2, <3>3, <3>4, <3>6, <3>7 DEF Control, Timed
  <2>5. Ended'
    BY <1>2, <2>1 DEF Ended, world
  <2>6. UNCHANGED <<stream, tosend, pipe, other>>
    BY <2>1 DEF world
  <2>7. SInv'
    BY <1>1, <2>1, <2>3, <2>4, <2>5, <2>6, QuietKeeps
  <2>8. CASE UNCHANGED ret
    BY <2>1, <2>6, <2>7, <2>8 DEF Service
  <2>9. CASE fn = "readline" /\ ret' = -1
    <3>1. 0 <= Len(Reads!Remainder) /\ lost' = lost \o Reads!Piece(0)
          /\ Reads!NoNewline(Reads!Piece(0))
      BY <2>1, NothingTaken
    <3>2. 0 \in 0 .. size' /\ 0 < size'
      BY <1>1, <2>1
    <3>3. (CASE fn = "readline" -> 0 < size' /\ Reads!NoNewline(Reads!Piece(0))
             [] fn = "readblock" -> 0 < size'
             [] fn = "readwriteblock" -> TRUE
             [] OTHER -> 0 = 0)
      BY <2>9, <3>1, <3>2
    <3>4. Reads!Fails
      BY <2>1, <2>9, <3>1, <3>2, <3>3 DEF Reads!Fails
    <3>5. QED
      BY <2>1, <2>6, <2>7, <3>4 DEF ServiceStep
  <2>10. QED
    BY <2>2, <2>8, <2>9
<1>12. ASSUME pc # "idle", NEW r, NEW e, Return(r, e, buf), UNCHANGED world,
              ServiceStep
       PROVE  Goal
  BY <1>12, ReturnsHeld
<1>13. ASSUME pc # "idle", NEW e, Return(-1, e, buf), UNCHANGED world,
              fn = "readline" => Len(buf) < size /\ Reads!NoNewline(buf),
              fn = "readblock" => Len(buf) < size,
              fn \notin {"readline", "readblock", "readwriteblock"} => buf = <<>>
       PROVE  Goal
  <2>1. PICK u \in Bytes : Rest(stream, Consumed) = buf \o u
    BY <1>13, HeldFirst
  <2>2. size \in Sizes /\ UNCHANGED stream
    BY <1>2, <1>13 DEF Control, world
  <2>3. ServiceStep
    BY <1>1, <1>13, <2>1, <2>2, FailureServed
  <2>4. QED
    BY <1>12, <1>13, <2>3
<1>14. ASSUME pc # "idle", Return(0, "none", <<>>), buf = <<>>, UNCHANGED world,
              fn \notin Simple \cup {"waitfdtimed"} => Reads!Remainder = <<>>
       PROVE  Goal
  <2>1. ServiceStep
    BY <1>14, EndServed DEF world
  <2>2. Return(0, "none", buf)
    BY <1>14
  <2>3. QED
    BY <1>12, <1>14, <2>1, <2>2
<1>15. CASE WaitExpires \/ SelectTimesOut
  <2>1. pc \in {"wait", "select"} /\ Return(-1, "ETIME", <<>>) /\ UNCHANGED world
    BY <1>15 DEF WaitExpires, SelectTimesOut
  <2>2. buf = <<>> /\ fn \in Timed
    BY <1>2, <2>1 DEF Control
  <2>3. Return(-1, "ETIME", buf)
    BY <2>1, <2>2
  <2>4. QED
    BY <1>13, <2>1, <2>2, <2>3 DEF Timed
<1>16. CASE SelectReady
  <2>1. pc = "select" /\ UNCHANGED world /\ buf = <<>> /\ fn \in Timed
    BY <1>2, <1>16 DEF SelectReady, Control
  <2>2. CASE fn = "waitfdtimed"
    BY <1>14, <1>16, <2>1, <2>2 DEF SelectReady
  <2>3. CASE fn # "waitfdtimed"
    <3>1. pc' = "read" /\ UNCHANGED <<call, buf, result>>
      BY <1>16, <2>3 DEF SelectReady
    <3>2. Held' = Held /\ Control' /\ Ended'
      BY <1>2, <2>1, <2>3, <3>1 DEF world, call, Held, Control, Ended, Timed, Simple
    <3>3. QED
      BY <1>4, <2>1, <3>1, <3>2 DEF world, call, result
  <2>4. QED
    BY <2>2, <2>3
<1>17. CASE CallEnds
  <2>1. pc = "call" /\ UNCHANGED world /\ buf = <<>> /\ fn \in Simple
    BY <1>2, <1>17 DEF CallEnds, Control
  <2>2. Return(0, "none", <<>>) \/ Return(-1, "failed", <<>>)
    BY <1>17 DEF CallEnds
  <2>3. CASE Return(0, "none", <<>>)
    BY <1>14, <2>1, <2>3
  <2>4. CASE Return(-1, "failed", <<>>)
    <3>1. Return(-1, "failed", buf)
      BY <2>1, <2>4
    <3>2. QED
      BY <1>13, <2>1, <3>1 DEF Simple
  <2>5. QED
    BY <2>2, <2>3, <2>4
<1>18. pc = "read" => /\ fn = "readline" => Len(buf) < size /\ Reads!NoNewline(buf)
                      /\ fn \in Blocks => Len(buf) < size
                      /\ fn \notin {"readline", "readblock", "readwriteblock"} => buf = <<>>
  BY <1>1, <1>2 DEF RInv, RoomToRead, Control, Blocks
<1>19. CASE ReadFails
  BY <1>13, <1>18, <1>19 DEF ReadFails, Blocks
<1>20. CASE ReadEnds
  <2>1. pc = "read" /\ pipe = <<>> /\ other = "closed" /\ UNCHANGED world
    BY <1>20 DEF ReadEnds
  <2>2. CASE buf = <<>>
    <3>1. PICK u \in Bytes : Rest(stream, Consumed) = buf \o u /\ u = pipe \o tosend
      BY <2>1, HeldFirst
    <3>2. pipe = <<>> /\ tosend = <<>>
      BY <1>2, <2>1 DEF Ended
    <3>3. <<>> \o <<>> = <<>>
      BY <1>1, Empty
    <3>4. Rest(stream, Consumed) = <<>>
      BY <2>2, <3>1, <3>2, <3>3
    <3>5. Reads!Remainder = <<>>
      BY <3>4 DEF Reads!Remainder, Rest, Consumed
    <3>6. QED
      BY <1>14, <1>20, <2>1, <2>2, <3>5 DEF ReadEnds
  <2>3. CASE buf # <<>>
    BY <1>13, <1>18, <1>20, <2>1, <2>3 DEF ReadEnds, Blocks
  <2>4. QED
    BY <2>2, <2>3
<1>21. CASE WriteFails
  <2>1. pc = "write" /\ Return(-1, "EPIPE", buf) /\ UNCHANGED world /\ fn = "readwriteblock"
    BY <1>2, <1>21 DEF WriteFails, Control
  <2>2. QED
    BY <1>13, <2>1
<1>22. CASE Write
  <2>1. pc = "write" /\ UNCHANGED world /\ fn = "readwriteblock" /\ Len(buf) = size /\ size \in Sizes
    BY <1>2, <1>22 DEF Write, Control
  <2>2. CASE Return(size, "none", buf)
    <3>1. PICK u \in Bytes : Rest(stream, Consumed) = buf \o u
      BY <2>1, HeldFirst
    <3>2. Len(buf) \in 1 .. size /\ Reads!Whole(buf, size)
      BY <1>1, <2>1 DEF Reads!Whole
    <3>3. ServiceStep
      BY <1>1, <2>1, <2>2, <3>1, <3>2, SuccessServed DEF world
    <3>4. QED
      BY <1>12, <2>1, <2>2, <3>3
  <2>3. CASE UNCHANGED <<pc, call, buf, result>>
    <3>1. Held' = Held /\ Control' /\ Ended'
      BY <1>2, <2>1, <2>3 DEF world, call, Held, Control, Ended
    <3>2. QED
      BY <1>4, <2>1, <2>3, <3>1 DEF world, call, result
  <2>4. QED
    BY <1>22, <2>2, <2>3 DEF Write
<1>23. CASE Read
  BY <1>23, ReadServed
<1>24. QED
  BY <1>5, <1>6, <1>7, <1>8, <1>9, <1>10, <1>11, <1>15, <1>16, <1>17, <1>19, <1>20, <1>21, <1>22,
     <1>23 DEF Next, Step

(* The reading functions of restart.c, in whatever parts the bytes come and  *)
(* however often a signal ends their read, take whole lines and blocks from  *)
(* the stream in its order, return 0 only at its end, and lose less than a   *)
(* piece when they fail (restart.c:63-67, 125-181, 196-203).                  *)
THEOREM ReadsImplemented == Spec => Implements
<1>1. Init => Reads!Init
  BY DEF Init, Reads!Init
<1>2. ServiceStep \/ UNCHANGED Service
        <=> [(Reads!Succeeds \/ Reads!Ends \/ Reads!Fails) /\ UNCHANGED <<stream, fn>>]_<<stream, fn, ret, got, lost>>
  BY DEF ServiceStep, Service
<1>3. SInv /\ RInv' /\ [Next]_vars
        => SInv' /\ [(Reads!Succeeds \/ Reads!Ends \/ Reads!Fails) /\ UNCHANGED <<stream, fn>>]_<<stream, fn, ret, got, lost>>
  BY <1>2, Served
<1>4. Spec => Reads!Spec
  BY TInvInitially, TInvKept, RInvInitially, RInvKept, SInvInitially, <1>1, <1>3, PTL DEF Spec, Reads!Spec
<1>5. QED
  BY <1>4 DEF Implements

-----------------------------------------------------------------------------
(* No call hangs, and none goes on for ever.                                *)

(* Step is possible. *)
StepCan ==
    \/ pc \in {"wait", "write", "call"}
    \/ pc = "select" /\ (Ready \/ Ticks(now) = until)
    \/ /\ pc = "read"
       /\ \/ pipe # <<>> /\ Asked > 0
          \/ pipe = <<>> /\ other = "closed"
          \/ other = "broken"

(* Time may pass. *)
TickCan == pc = "select" /\ Ticks(now) < until

WaitsForOther == pc = "read" /\ fn # "readtimed" /\ pipe = <<>> /\ other = "open"

(* Until it is over, a call goes on, or sleeps until its deadline, or reads *)
(* with no deadline from an other end that is still there.                  *)
NeverHangs == pc = "idle" \/ StepCan \/ TickCan \/ WaitsForOther

(* What is left, the most important first: what the other end may still do, *)
(* the calls, the bytes to be read and to be written, the time until the    *)
(* deadline, the signals, and the steps of a call.                          *)
WorldLeft == Len(tosend) + (IF other = "open" THEN 1 ELSE 0)
CallsLeft == MaxCalls - calls
InPipe == Len(pipe)
ToWrite == Len(left)
TimeLeft == IF Ticks(now) <= Ticks(end) THEN Ticks(end) - Ticks(now) + 1 ELSE 0
SignalsLeft == MaxSignals - signals
StepsLeft == IF pc = "wait" THEN 3 ELSE IF pc = "select" THEN 2 ELSE IF pc = "idle" THEN 0 ELSE 1

Left == <<WorldLeft, CallsLeft, InPipe, ToWrite, TimeLeft, SignalsLeft, StepsLeft>>

LeftIsNatural == \A n \in 1 .. 7 : Left[n] \in Nat

(* One of them gets less, and none that is more important gets more.        *)
GoesOn == \E n \in 1 .. 7 : Left'[n] < Left[n] /\ \A o \in 1 .. n - 1 : Left'[o] = Left[o]

(* A call has a size, and a timed one reads only what is there.             *)
CallInv ==
    /\ pc # "idle" => size > 0
    /\ fn = "readtimed" /\ pc = "read" => Ready

LEMMA CallInvKept == RInv /\ CallInv /\ [Next]_vars => CallInv'
<1> SUFFICES ASSUME RInv, CallInv, [Next]_vars PROVE CallInv'
  OBVIOUS
<1> USE DEF CallInv, Ready
<1>1. CASE UNCHANGED vars
  BY <1>1 DEF vars, world, call
<1>2. CASE Send
  <2>1. PICK n \in 1 .. Len(tosend) : pipe' = pipe \o First(tosend, n)
    BY <1>2 DEF Send
  <2>2. pipe # <<>> => pipe' # <<>>
    <3>1. pipe \in Bytes /\ First(tosend, n) \in Bytes
      BY Pieces DEF RInv, TypeOK
    <3>2. QED
      BY <2>1, <3>1, ConcatProperties, EmptySeq DEF Bytes
  <2>3. QED
    BY <1>2, <2>2 DEF Send, call
<1>3. CASE Close \/ Tick \/ Interrupted
  BY <1>3 DEF Close, Tick, Interrupted, world, call
<1>4. CASE Call
  <2>1. size' \in Nat \ {0} /\ fn' = fn
    BY <1>4, SizesAssumption DEF Call
  <2>2. fn = "readtimed" => pc' = "wait"
    BY <1>4 DEF Call, Timed, Simple
  <2>3. QED
    BY <2>1, <2>2
<1>5. CASE Wait \/ WaitExpires \/ SelectTimesOut \/ SelectReady \/ ReadEnds \/ ReadFails
             \/ WriteFails \/ CallEnds
  BY <1>5 DEF Wait, WaitExpires, SelectTimesOut, SelectReady, ReadEnds, ReadFails, WriteFails,
              CallEnds, Return, call, world
<1>6. CASE Read
  BY <1>6 DEF Read, Taken, Return, call, Blocks
<1>7. CASE Write
  BY <1>7 DEF Write, Return, call, world
<1>8. QED
  BY <1>1, <1>2, <1>3, <1>4, <1>5, <1>6, <1>7 DEF Next, Step

LEMMA CallsGoOn == TInv /\ RInv /\ CallInv => NeverHangs
<1> SUFFICES ASSUME TInv, RInv, CallInv, pc # "idle" PROVE NeverHangs
  BY DEF NeverHangs
<1>1. /\ pc \in {"wait", "select", "read", "write", "call"}
      /\ other \in {"open", "closed", "broken"} /\ fn \in Functions /\ size \in Nat /\ size > 0
      /\ buf \in Bytes /\ Len(buf) \in Nat
  BY SizesAssumption DEF RInv, TypeOK, CallInv, Bytes
<1>2. CASE pc = "select"
  <2>1. Ticks(now) \in Nat /\ until \in Nat /\ Ticks(now) <= until
    BY <1>2 DEF TInv, WakesInTime, timeval, Ticks, RInv, TypeOK
  <2>2. QED
    BY <1>2, <2>1 DEF NeverHangs, StepCan, TickCan
<1>3. CASE pc = "read"
  <2>1. Asked > 0
    BY <1>1, <1>3 DEF RInv, RoomToRead, Asked, Blocks
  <2>2. QED
    BY <1>1, <1>3, <2>1 DEF NeverHangs, StepCan, WaitsForOther, CallInv, Ready
<1>4. QED
  BY <1>1, <1>2, <1>3 DEF NeverHangs, StepCan

LEMMA LeftAreNumbers == TInv /\ RInv => LeftIsNatural
<1> SUFFICES ASSUME TInv, RInv PROVE LeftIsNatural
  OBVIOUS
<1>1. /\ Len(tosend) \in Nat /\ Len(pipe) \in Nat /\ Len(left) \in Nat
      /\ calls \in 0 .. MaxCalls /\ signals \in 0 .. MaxSignals
  BY DEF RInv, TypeOK, Bytes
<1>2. Ticks(now) \in Nat /\ Ticks(end) \in Nat
  BY DEF TInv, timeval, Ticks
<1>3. /\ WorldLeft \in Nat /\ CallsLeft \in Nat /\ InPipe \in Nat /\ ToWrite \in Nat
      /\ TimeLeft \in Nat /\ SignalsLeft \in Nat /\ StepsLeft \in Nat
  BY <1>1, <1>2, BoundsAssumption
     DEF WorldLeft, CallsLeft, InPipe, ToWrite, TimeLeft, SignalsLeft, StepsLeft
<1>4. QED
  BY <1>3 DEF LeftIsNatural, Left

(* The order, one rank after the other.                                     *)
LEMMA Order ==
    /\ WorldLeft' < WorldLeft => GoesOn
    /\ WorldLeft' = WorldLeft =>
         /\ CallsLeft' < CallsLeft => GoesOn
         /\ CallsLeft' = CallsLeft =>
              /\ InPipe' < InPipe => GoesOn
              /\ InPipe' = InPipe =>
                   /\ ToWrite' < ToWrite => GoesOn
                   /\ ToWrite' = ToWrite =>
                        /\ TimeLeft' < TimeLeft => GoesOn
                        /\ TimeLeft' = TimeLeft =>
                             /\ SignalsLeft' < SignalsLeft => GoesOn
                             /\ SignalsLeft' = SignalsLeft => (StepsLeft' < StepsLeft => GoesOn)
<1>1. /\ Left[1] = WorldLeft /\ Left[2] = CallsLeft /\ Left[3] = InPipe /\ Left[4] = ToWrite
      /\ Left[5] = TimeLeft /\ Left[6] = SignalsLeft /\ Left[7] = StepsLeft
  BY DEF Left
<1>2. /\ Left'[1] = WorldLeft' /\ Left'[2] = CallsLeft' /\ Left'[3] = InPipe'
      /\ Left'[4] = ToWrite' /\ Left'[5] = TimeLeft' /\ Left'[6] = SignalsLeft'
      /\ Left'[7] = StepsLeft'
  BY DEF Left
<1>3. ASSUME NEW n \in 1 .. 7, Left'[n] < Left[n], \A o \in 1 .. n - 1 : Left'[o] = Left[o]
      PROVE  GoesOn
  BY <1>3 DEF GoesOn
<1>4. /\ 1 .. 1 - 1 = {} /\ 1 .. 2 - 1 = {1} /\ 1 .. 3 - 1 = {1, 2} /\ 1 .. 4 - 1 = {1, 2, 3}
      /\ 1 .. 5 - 1 = {1, 2, 3, 4} /\ 1 .. 6 - 1 = {1, 2, 3, 4, 5}
      /\ 1 .. 7 - 1 = {1, 2, 3, 4, 5, 6}
  OBVIOUS
<1>5. 1 \in 1 .. 7 /\ 2 \in 1 .. 7 /\ 3 \in 1 .. 7 /\ 4 \in 1 .. 7 /\ 5 \in 1 .. 7 /\ 6 \in 1 .. 7
      /\ 7 \in 1 .. 7
  OBVIOUS
<1> HIDE DEF Left
<1>6. QED
  BY <1>1, <1>2, <1>3, <1>4, <1>5

(* A step that does not touch what is more important.                       *)
LEMMA Lowers ==
    ASSUME TInv, RInv, TInv', RInv', [Next]_vars, ~ UNCHANGED vars
    PROVE  GoesOn
<1>1. /\ Len(tosend) \in Nat /\ Len(pipe) \in Nat /\ Len(left) \in Nat
      /\ calls \in Nat /\ signals \in Nat /\ tosend \in Bytes /\ pipe \in Bytes /\ left \in Bytes
  BY BoundsAssumption DEF RInv, TypeOK, Bytes
<1>2. Ticks(now) \in Nat /\ Ticks(end) \in Nat
  BY DEF TInv, timeval, Ticks
<1>3. MaxCalls \in Nat /\ MaxSignals \in Nat
  BY BoundsAssumption
<1>4. ASSUME UNCHANGED <<tosend, other>> PROVE WorldLeft' = WorldLeft
  BY <1>4 DEF WorldLeft
<1>5. ASSUME UNCHANGED calls PROVE CallsLeft' = CallsLeft
  BY <1>5 DEF CallsLeft
<1>6. ASSUME UNCHANGED pipe PROVE InPipe' = InPipe
  BY <1>6 DEF InPipe
<1>7. ASSUME UNCHANGED <<now, end>> PROVE TimeLeft' = TimeLeft
  BY <1>7 DEF TimeLeft, Ticks
<1>8. ASSUME UNCHANGED signals PROVE SignalsLeft' = SignalsLeft
  BY <1>8 DEF SignalsLeft
<1>9. ASSUME UNCHANGED left PROVE ToWrite' = ToWrite
  BY <1>9 DEF ToWrite
<1>10. CASE Send
  <2>1. PICK n \in 1 .. Len(tosend) : tosend' = Rest(tosend, n)
    BY <1>10 DEF Send
  <2>2. Len(tosend') = Len(tosend) - n
    BY <1>1, <2>1 DEF Rest, Bytes
  <2>3. WorldLeft' < WorldLeft
    BY <1>1, <1>10, <2>2 DEF WorldLeft, Send
  <2>4. QED
    BY <2>3, Order
<1>11. CASE Close
  <2>1. WorldLeft' < WorldLeft
    BY <1>1, <1>11 DEF WorldLeft, Close
  <2>2. QED
    BY <2>1, Order
<1>12. CASE Call
  <2>1. UNCHANGED <<tosend, other>> /\ calls' = calls + 1
    BY <1>12 DEF Call, world
  <2>2. CallsLeft' < CallsLeft
    BY <1>1, <1>3, <2>1 DEF CallsLeft
  <2>3. QED
    BY <1>4, <2>1, <2>2, Order
<1>13. CASE Read
  <2>1. PICK n \in 1 .. Len(pipe) : pipe' = Rest(pipe, n) /\ Taken(buf \o First(pipe, n))
    BY <1>13 DEF Read
  <2>2. UNCHANGED <<tosend, other, calls>>
    BY <1>13, <2>1 DEF Read, Taken, Return, call
  <2>3. Len(pipe') = Len(pipe) - n
    BY <1>1, <2>1 DEF Rest, Bytes
  <2>4. InPipe' < InPipe
    BY <1>1, <2>3 DEF InPipe
  <2>5. QED
    BY <1>4, <1>5, <2>2, <2>4, Order
<1>14. CASE Write
  <2>1. PICK n \in 1 .. Len(left) : left' = Rest(left, n)
    BY <1>14 DEF Write
  <2>2. UNCHANGED <<tosend, other, calls, pipe>>
    BY <1>14 DEF Write, Return, world, call
  <2>3. Len(left') = Len(left) - n
    BY <1>1, <2>1 DEF Rest, Bytes
  <2>4. ToWrite' < ToWrite
    BY <1>1, <2>3 DEF ToWrite
  <2>5. QED
    BY <1>4, <1>5, <1>6, <2>2, <2>4, Order
<1>15. CASE WriteFails
  <2>1. /\ UNCHANGED <<tosend, other, calls, pipe, now, end, signals>>
        /\ left' = <<>> /\ pc = "write" /\ pc' = "idle"
    BY <1>15 DEF WriteFails, Return, world, call, time
  <2>2. ToWrite' < ToWrite \/ ToWrite' = ToWrite
    BY <1>1, <2>1 DEF ToWrite
  <2>3. StepsLeft' < StepsLeft
    BY <2>1 DEF StepsLeft
  <2>4. QED
    BY <1>4, <1>5, <1>6, <1>7, <1>8, <2>1, <2>2, <2>3, Order
<1>16. CASE Tick
  <2>1. /\ UNCHANGED <<tosend, other, calls, pipe, left, end>>
        /\ now' = Carried([sec |-> now.sec, usec |-> now.usec + 1])
        /\ \/ pc = "wait" /\ Ticks(now) <= Ticks(end)
           \/ pc = "select" /\ Ticks(now) < until
    BY <1>16 DEF Tick, world, call, TInv, timeval
  <2>2. Ticks(now) <= Ticks(end)
    BY <1>2, <2>1 DEF TInv, WakesInTime
  <2>3. Ticks(now)' = Ticks(now) + 1
    <3>1. now.usec + 1 \in 0 .. 2 * MILLION - 1 /\ now.sec \in Nat
      BY DEF TInv, timeval
    <3>2. Ticks(now)' = now.sec * MILLION + (now.usec + 1)
      BY <2>1, <3>1, CarriedTime DEF Ticks
    <3>3. QED
      BY <3>1, <3>2 DEF Ticks, TInv, timeval
  <2>4. Ticks(end)' = Ticks(end)
    BY <2>1 DEF Ticks
  <2>5. TimeLeft' < TimeLeft
    BY <1>2, <2>2, <2>3, <2>4 DEF TimeLeft
  <2>6. QED
    BY <1>4, <1>5, <1>6, <1>9, <2>1, <2>5, Order
<1>17. CASE Interrupted
  <2>1. UNCHANGED <<tosend, other, calls, pipe, left, now, end>> /\ signals' = signals + 1
    BY <1>17 DEF Interrupted, world, call, time
  <2>2. SignalsLeft' < SignalsLeft
    BY <1>1, <1>3, <2>1 DEF SignalsLeft
  <2>3. QED
    BY <1>4, <1>5, <1>6, <1>7, <1>9, <2>1, <2>2, Order
<1>18. CASE Wait \/ WaitExpires \/ SelectTimesOut \/ SelectReady \/ ReadEnds \/ ReadFails \/ CallEnds
  <2>1. UNCHANGED <<tosend, other, calls, pipe, left, now, end, signals>>
    BY <1>18 DEF Wait, WaitExpires, SelectTimesOut, SelectReady, ReadEnds, ReadFails, CallEnds,
                 Return, world, call, time
  <2>2. \/ pc = "wait" /\ pc' \in {"select", "idle"}
        \/ pc = "select" /\ pc' \in {"read", "idle"}
        \/ pc \in {"read", "call"} /\ pc' = "idle"
    BY <1>18 DEF Wait, WaitExpires, SelectTimesOut, SelectReady, ReadEnds, ReadFails, CallEnds,
                 Return
  <2>3. StepsLeft' < StepsLeft
    BY <2>2 DEF StepsLeft
  <2>4. QED
    BY <1>4, <1>5, <1>6, <1>7, <1>8, <1>9, <2>1, <2>3, Order
<1>19. QED
  BY <1>10, <1>11, <1>12, <1>13, <1>14, <1>15, <1>16, <1>17, <1>18 DEF Next, Step

(* A call never hangs but for an other end that is open and silent, and     *)
(* only one without a deadline does: a read after a select that has         *)
(* returned never blocks.  And between two calls, or two events of the      *)
(* other end, every step lowers one of finitely many natural numbers and    *)
(* raises none before it: a call is repeated for a signal, and with less    *)
(* time than before (restart.c:36-61, 63-114, 125-181, 196-234).            *)
THEOREM CallsRunOut == Spec => []NeverHangs /\ []LeftIsNatural /\ [][GoesOn]_vars
<1> DEFINE I == TInv /\ RInv /\ CallInv
<1>1. Init => I
  <2>1. Init => CallInv
    BY DEF Init, CallInv
  <2>2. QED
    BY <2>1, TInvInitially, RInvInitially
<1>2. I /\ [Next]_vars => I'
  BY TInvKept, RInvKept, CallInvKept
<1>3. I /\ I' /\ [Next]_vars => [GoesOn]_vars
  BY Lowers
<1>4. I => NeverHangs /\ LeftIsNatural
  BY CallsGoOn, LeftAreNumbers
<1>5. QED
  BY <1>1, <1>2, <1>3, <1>4, PTL DEF Spec
=============================================================================
