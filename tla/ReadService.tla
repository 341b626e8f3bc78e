---------------------------- MODULE ReadService ----------------------------
(***************************************************************************)
(* What the reading functions of restart.c promise a process that calls    *)
(* one of them again and again, as if every call took its bytes at once:   *)
(* each call takes the next whole piece of the stream, or says that the    *)
(* stream is at its end, or fails and loses a part of a piece.             *)
(***************************************************************************)
EXTENDS Integers, Sequences

CONSTANTS Sizes, Newline

VARIABLES
    stream,            \* all that the other end sends
    fn,                \* the function that is called
    ret,               \* what the last call returned
    got, lost          \* the bytes of the calls that succeeded, and of those that failed

Remainder == SubSeq(stream, Len(got) + Len(lost) + 1, Len(stream))
Piece(n) == SubSeq(Remainder, 1, n)

NoNewline(piece) == \A i \in 1 .. Len(piece) : piece[i] # Newline

(* A line with its newline, in a buffer that has room for a zero after it;  *)
(* a full block; whatever there is.                                         *)
Whole(piece, size) ==
    CASE fn = "readline" ->
           /\ Len(piece) \in 1 .. size - 1
           /\ piece[Len(piece)] = Newline
           /\ NoNewline(SubSeq(piece, 1, Len(piece) - 1))
      [] fn \in {"readblock", "readwriteblock"} -> Len(piece) = size
      [] fn \in {"r_read", "readtimed"} -> Len(piece) \in 1 .. size
      [] OTHER -> FALSE

Succeeds ==
    \E size \in Sizes : \E n \in 1 .. size :
        /\ n <= Len(Remainder)
        /\ Whole(Piece(n), size)
        /\ got' = got \o Piece(n)
        /\ ret' = n
        /\ UNCHANGED lost

(* 0 is the end of the stream; of waitfdtimed and close it is success. *)
Ends ==
    /\ ret' = 0
    /\ fn \in {"readline", "readblock", "readwriteblock", "r_read", "readtimed"} =>
         Remainder = <<>>
    /\ UNCHANGED <<got, lost>>

(* A failure loses less than a piece, or the block that could not be        *)
(* written.                                                                 *)
Fails ==
    \E size \in Sizes : \E n \in 0 .. size :
        /\ n <= Len(Remainder)
        /\ CASE fn = "readline" -> n < size /\ NoNewline(Piece(n))
             [] fn = "readblock" -> n < size
             [] fn = "readwriteblock" -> TRUE
             [] OTHER -> n = 0
        /\ lost' = lost \o Piece(n)
        /\ ret' = -1
        /\ UNCHANGED got

Init == ret = 0 /\ got = <<>> /\ lost = <<>>

Spec == Init /\ [][(Succeeds \/ Ends \/ Fails) /\ UNCHANGED <<stream, fn>>]_<<stream, fn, ret, got, lost>>
=============================================================================
