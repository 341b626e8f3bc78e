------------------------------ MODULE Restart ------------------------------
(***************************************************************************)
(* The restart library of assign5 (restart.c) and the readline of assign3  *)
(* and assign4: a process calls one of its functions again and again on a  *)
(* descriptor, while the other end sends bytes, closes or breaks the       *)
(* connection, signals arrive and time passes.  The time is counted in     *)
(* seconds and fractions of a second, as in a timeval.                     *)
(***************************************************************************)
EXTENDS Integers, Sequences

CONSTANTS
    Streams,           \* what the other end may send
    Functions,         \* the functions that are called
    Sizes,             \* size and nbytes
    Seconds,           \* the times given: [whole, frac]
    MILLION,           \* the fractions of a second
    MaxCalls,          \* bound on the number of calls
    MaxSignals         \* bound on the number of signals

Newline == "n"
Timed == {"waitfdtimed", "readtimed"}
Blocks == {"readblock", "readwriteblock"}

(* r_dup2, r_open2, r_open3, r_wait and r_waitpid are like r_close.         *)
Simple == {"r_close"}

ASSUME StreamsAssumption == Streams \subseteq Seq({"a", Newline})
ASSUME FunctionsAssumption ==
    Functions \subseteq {"r_read", "readline"} \cup Timed \cup Blocks \cup Simple
ASSUME SizesAssumption == Sizes \subseteq Nat \ {0}
ASSUME TimeAssumption ==
    /\ MILLION \in Nat \ {0}
    /\ Seconds \subseteq [whole : Nat, frac : 0 .. MILLION]
ASSUME BoundsAssumption == MaxCalls \in Nat /\ MaxSignals \in Nat

VARIABLES
    stream,            \* all that the other end sends
    tosend, pipe,      \* what it has still to send; what can be read
    other,             \* the other end: "open", "closed", "broken"
    now,               \* gettimeofday
    end,               \* the deadline of a timed call
    until,             \* when select gives up
    pc,                \* "idle", "wait", "select", "read", "write", "call"
    fn, size,          \* the call, its last argument
    buf,               \* the bytes that it has read
    ret, errno,        \* what it returned, and why it failed
    got, lost,         \* the bytes of the calls that succeeded, and of those that failed
    left, out,         \* readwriteblock: what is still to be written; what has been
    calls, signals

world == <<stream, tosend, pipe, other>>
time == <<now, end, until>>
call == <<fn, size, calls>>
result == <<ret, errno, got, lost>>
vars == <<world, time, pc, call, buf, result, left, out, signals>>

-----------------------------------------------------------------------------
(* timevals *)

Ticks(t) == t.sec * MILLION + t.usec

Carried(t) ==
    IF t.usec >= MILLION THEN [sec |-> t.sec + 1, usec |-> t.usec - MILLION] ELSE t

(* seconds in microseconds are rounded, up to a whole second. *)
add2currenttime(seconds) ==
    Carried([sec |-> now.sec + seconds.whole, usec |-> now.usec + seconds.frac])

(* Mutant: the borrow is forgotten. *)
Remaining_NoBorrow(deadline) ==
    Carried([sec |-> deadline.sec - now.sec, usec |-> deadline.usec - now.usec])

(* gettimeout: what is left of the time until the deadline. *)
Remaining(deadline) ==
    LET d == Carried([sec |-> deadline.sec - now.sec, usec |-> deadline.usec - now.usec])
    IN  IF d.usec < 0 THEN [sec |-> d.sec - 1, usec |-> d.usec + MILLION] ELSE d

Expired(timeout) == timeout.sec < 0 \/ timeout = [sec |-> 0, usec |-> 0]

Init ==
    /\ stream \in Streams
    /\ tosend = stream
    /\ pipe = <<>>
    /\ other = "open"
    /\ now \in [sec : {0}, usec : 0 .. MILLION - 1]
    /\ end = now
    /\ until = 0
    /\ pc = "idle"
    /\ fn \in Functions /\ size = 0 /\ calls = 0
    /\ buf = <<>>
    /\ ret = 0 /\ errno = "none"
    /\ got = <<>> /\ lost = <<>>
    /\ left = <<>> /\ out = <<>>
    /\ signals = 0

-----------------------------------------------------------------------------
(* The other end, and the time. *)

First(q, n) == SubSeq(q, 1, n)
Rest(q, n) == SubSeq(q, n + 1, Len(q))

Send ==
    /\ other = "open"
    /\ \E n \in 1 .. Len(tosend) :
        /\ pipe' = pipe \o First(tosend, n)
        /\ tosend' = Rest(tosend, n)
    /\ UNCHANGED <<stream, other, time, pc, call, buf, result, left, out, signals>>

(* A connection breaks with what has been sent and not been read. *)
Close ==
    /\ other = "open"
    /\ \/ other' = "closed" /\ tosend = <<>> /\ UNCHANGED pipe
       \/ other' = "broken" /\ pipe' = <<>>
    /\ UNCHANGED <<stream, tosend, time, pc, call, buf, result, left, out, signals>>

Ready == pipe # <<>> \/ other # "open"

(* Time passes in a timed call; select is over when its time is.            *)
Tick ==
    /\ \/ pc = "wait" /\ Ticks(now) <= Ticks(end)
       \/ pc = "select" /\ Ticks(now) < until
    /\ now' = Carried([now EXCEPT !.usec = @ + 1])
    /\ UNCHANGED <<world, end, until, pc, call, buf, result, left, out, signals>>

-----------------------------------------------------------------------------
(* A call returns.  What it had read is the caller's when it succeeds.      *)
Return(r, e, bytes) ==
    /\ pc' = "idle"
    /\ ret' = r
    /\ errno' = e
    /\ got' = IF r = -1 THEN got ELSE got \o bytes
    /\ lost' = IF r = -1 THEN lost \o bytes ELSE lost
    /\ buf' = bytes
    /\ UNCHANGED <<time, call>>

(* What a function asks for. *)
Asked == CASE fn = "readline" -> 1
           [] fn \in Blocks -> size - Len(buf)
           [] OTHER -> size

(* Mutant: a line may fill the whole buffer. *)
Full_Whole(bytes, n) == Len(bytes) >= n

(* readline has no byte to read into. *)
Full(bytes, n) == Len(bytes) >= n - 1

Call ==
    /\ pc = "idle"
    /\ calls < MaxCalls
    /\ calls' = calls + 1
    /\ size' \in Sizes
    /\ buf' = <<>>
    /\ IF fn \in Timed THEN \E s \in Seconds : end' = add2currenttime(s) ELSE end' = end
    /\ IF fn = "readline" /\ Full(<<>>, size')
       THEN pc' = "idle" /\ ret' = -1 /\ errno' = "EINVAL"
       ELSE /\ pc' = CASE fn \in Timed -> "wait" [] fn \in Simple -> "call" [] OTHER -> "read"
            /\ UNCHANGED <<ret, errno>>
    /\ UNCHANGED <<world, now, until, fn, got, lost, left, out, signals>>

(* waitfdtimed: gettimeout, and the call of select with what is left; no    *)
(* time passes between the two.                                             *)
Wait ==
    /\ pc = "wait"
    /\ ~ Expired(Remaining(end))
    /\ pc' = "select"
    /\ until' = Ticks(now) + Ticks(Remaining(end))
    /\ UNCHANGED <<world, now, end, call, buf, result, left, out, signals>>

WaitExpires ==
    /\ pc = "wait"
    /\ Expired(Remaining(end))
    /\ Return(-1, "ETIME", <<>>)
    /\ UNCHANGED <<world, left, out, signals>>

SelectTimesOut ==
    /\ pc = "select"
    /\ ~ Ready
    /\ Ticks(now) = until
    /\ Return(-1, "ETIME", <<>>)
    /\ UNCHANGED <<world, left, out, signals>>

SelectReady ==
    /\ pc = "select"
    /\ Ready
    /\ IF fn = "waitfdtimed"
       THEN Return(0, "none", <<>>)
       ELSE pc' = "read" /\ UNCHANGED <<time, call, buf, result>>
    /\ UNCHANGED <<world, left, out, signals>>

(* EINTR: select starts again with what is left of the time, every other    *)
(* call is repeated.                                                        *)
Interrupted ==
    /\ signals < MaxSignals
    /\ signals' = signals + 1
    /\ \/ pc = "select" /\ ~ Ready /\ pc' = "wait"
       \/ pc = "read" /\ ~ Ready /\ UNCHANGED pc
       \/ pc \in {"write", "call"} /\ UNCHANGED pc
    /\ UNCHANGED <<world, time, call, buf, result, left, out>>

(* What a function does with the bytes that it has. *)
Taken(bytes) ==
    CASE fn = "readline" /\ bytes[Len(bytes)] # Newline ->
           IF Full(bytes, size)
           THEN Return(-1, "EINVAL", bytes) /\ UNCHANGED left
           ELSE pc' = "read" /\ buf' = bytes /\ UNCHANGED <<time, call, result, left>>
      [] fn \in Blocks /\ Len(bytes) < size ->
           pc' = "read" /\ buf' = bytes /\ UNCHANGED <<time, call, result, left>>
      [] fn = "readwriteblock" /\ Len(bytes) = size ->
           pc' = "write" /\ buf' = bytes /\ left' = bytes /\ UNCHANGED <<time, call, result>>
      [] OTHER -> Return(Len(bytes), "none", bytes) /\ UNCHANGED left

(* read returns some of the bytes that there are. *)
Read ==
    /\ pc = "read"
    /\ \E n \in 1 .. Len(pipe) :
        /\ n <= Asked
        /\ pipe' = Rest(pipe, n)
        /\ Taken(buf \o First(pipe, n))
    /\ UNCHANGED <<stream, tosend, other, out, signals>>

(* Mutant: the end is looked for before the first byte only.               *)
ReadEnds_First ==
    /\ pc = "read"
    /\ pipe = <<>>
    /\ other = "closed"
    /\ buf = <<>>
    /\ Return(0, "none", <<>>)
    /\ UNCHANGED <<world, left, out, signals>>

(* read returns 0: the end of file, or a line or block that is not complete.*)
ReadEnds ==
    /\ pc = "read"
    /\ pipe = <<>>
    /\ other = "closed"
    /\ IF buf = <<>> THEN Return(0, "none", <<>>) ELSE Return(-1, "EINVAL", buf)
    /\ UNCHANGED <<world, left, out, signals>>

ReadFails ==
    /\ pc = "read"
    /\ other = "broken"
    /\ Return(-1, "ECONNRESET", buf)
    /\ UNCHANGED <<world, left, out, signals>>

(* Mutant: one write is taken for the whole block. *)
Write_Once ==
    /\ pc = "write"
    /\ \E n \in 1 .. Len(left) :
        /\ out' = out \o First(left, n)
        /\ left' = <<>>
        /\ Return(size, "none", buf)
    /\ UNCHANGED <<world, signals>>

(* r_write to another descriptor, which may be full or fail. *)
Write ==
    /\ pc = "write"
    /\ \E n \in 1 .. Len(left) :
        /\ out' = out \o First(left, n)
        /\ left' = Rest(left, n)
        /\ IF n = Len(left) THEN Return(size, "none", buf)
           ELSE UNCHANGED <<time, pc, call, buf, result>>
    /\ UNCHANGED <<world, signals>>

WriteFails ==
    /\ pc = "write"
    /\ Return(-1, "EPIPE", buf)
    /\ left' = <<>>
    /\ UNCHANGED <<world, out, signals>>

(* close, or a call like it, succeeds or fails. *)
CallEnds ==
    /\ pc = "call"
    /\ \E r \in {0, -1} : Return(r, IF r = 0 THEN "none" ELSE "failed", <<>>)
    /\ UNCHANGED <<world, left, out, signals>>

Step ==
    \/ Wait \/ WaitExpires \/ SelectTimesOut \/ SelectReady
    \/ Read \/ ReadEnds \/ ReadFails \/ Write \/ WriteFails \/ CallEnds

Next == Send \/ Close \/ Tick \/ Call \/ Interrupted \/ Step

(* The process is scheduled and time passes; the other end may be silent.   *)
Spec == Init /\ [][Next]_vars /\ WF_vars(Step) /\ WF_vars(Tick)

-----------------------------------------------------------------------------
timeval == [sec : Nat, usec : 0 .. MILLION - 1]

Bytes == Seq({"a", Newline})

TypeOK ==
    /\ stream \in Streams
    /\ tosend \in Bytes /\ pipe \in Bytes
    /\ other \in {"open", "closed", "broken"}
    /\ now \in timeval /\ end \in timeval /\ until \in Nat
    /\ pc \in {"idle", "wait", "select", "read", "write", "call"}
    /\ fn \in Functions /\ size \in Sizes \cup {0}
    /\ calls \in 0 .. MaxCalls /\ signals \in 0 .. MaxSignals
    /\ buf \in Bytes /\ Len(buf) <= size
    /\ ret \in Nat \cup {-1}
    /\ errno \in {"none", "EINVAL", "ETIME", "ECONNRESET", "EPIPE", "failed"}
    /\ got \in Bytes /\ lost \in Bytes
    /\ left \in Bytes /\ out \in Bytes

(* However many signals end it, a wait is over at the deadline of its call. *)
WakesInTime == pc = "select" => until = Ticks(end) /\ Ticks(now) <= Ticks(end)

(* A timed call does not give up before its time.                           *)
NotEarly == pc = "idle" /\ ret = -1 /\ errno = "ETIME" => Ticks(now) >= Ticks(end)

(* A timed call sleeps to its deadline: not longer, and not shorter.        *)
OnTime == WakesInTime /\ NotEarly

(* What readwriteblock has written is the blocks that it has said it has    *)
(* copied, in parts of whatever size, followed by a part of those it could  *)
(* not.                                                                     *)
Copied ==
    fn = "readwriteblock" =>
        /\ pc = "idle" /\ lost = <<>> => out = got
        /\ lost = <<>> => out = First(got \o buf, Len(out))

(* The calls take what ReadService says, whatever parts the bytes come in   *)
(* and whatever signals do.                                                 *)
Reads == INSTANCE ReadService
Implements == Reads!Spec

(* A timed call returns, although nothing comes and signals do.             *)
TimedReturns == (fn \in Timed /\ pc # "idle") ~> pc = "idle"

(* Every call returns when the other end has closed or failed.              *)
CallsReturn == (other # "open" /\ pc # "idle") ~> pc = "idle"

(* No call hangs that has a time to keep or nobody left to wait for.        *)
EveryCallReturns == TimedReturns /\ CallsReturn
=============================================================================
