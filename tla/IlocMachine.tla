---------------------------- MODULE IlocMachine ----------------------------
(***************************************************************************)
(* What an ILOC program of the tl13 compiler does when it runs: an         *)
(* instruction at a time, on registers that hold words.                    *)
(*                                                                         *)
(* The register that the compiler names in a cbr is one that no            *)
(* instruction assigns (Program_ast.java:354, :425): the condition is what *)
(* the instruction before has computed.                                    *)
(***************************************************************************)
EXTENDS Tl13Word, Sequences

CONSTANTS
    Inputs,            \* what may be typed: sequences of words
    MaxOut             \* the bound on what is printed

VARIABLES
    code,              \* the program
    st,                \* "idle", "running", "exited", "trapped"
    ik,                \* the instruction executed next
    val,               \* the value of each register that is assigned
    inp, out           \* what is still to be read, and what has been written

vars == <<code, st, ik, val, inp, out>>

Exit == -1

(* The register that an instruction assigns. *)
Defined(c) ==
    {c[n].t : n \in {n \in DOMAIN c : c[n].op \in {"loadI", "i2i", "bin"}}}
        \cup {c[n].s : n \in {n \in DOMAIN c : c[n].op = "readInt"}}

LabelAt(c, l) == CHOOSE n \in DOMAIN c : c[n].op = "label" /\ c[n].l = l

Init ==
    /\ code = <<>>
    /\ st = "idle"
    /\ ik = 1
    /\ val = <<>>
    /\ inp \in Inputs
    /\ out = <<>>

(* A program is given; the registers hold anything when it starts. *)
Start ==
    /\ st = "idle"
    /\ st' = "running"
    /\ val' \in [Defined(code') -> Word]
    /\ UNCHANGED <<ik, inp, out>>

At(op) == st = "running" /\ ik \in DOMAIN code /\ code[ik].op = op

Set(r, v) == val' = [val EXCEPT ![r] = v] /\ ik' = ik + 1

GoTo(l) ==
    IF l = Exit THEN st' = "exited" /\ UNCHANGED ik
                ELSE st' = st /\ ik' = LabelAt(code, l)

Label == At("label") /\ ik' = ik + 1 /\ UNCHANGED <<code, st, val, inp, out>>

LoadI == At("loadI") /\ Set(code[ik].t, code[ik].v) /\ UNCHANGED <<code, st, inp, out>>

Copy == At("i2i") /\ Set(code[ik].t, val[code[ik].s]) /\ UNCHANGED <<code, st, inp, out>>

Operate ==
    /\ At("bin")
    /\ \/ \E v \in Results(code[ik].f, val[code[ik].a], val[code[ik].b]) : Set(code[ik].t, v)
          /\ UNCHANGED st
       \/ /\ MayTrap(code[ik].f, val[code[ik].b])
          /\ st' = "trapped"
          /\ UNCHANGED <<ik, val>>
    /\ UNCHANGED <<code, inp, out>>

Read ==
    /\ At("readInt")
    /\ inp # <<>>
    /\ Set(code[ik].s, Head(inp))
    /\ inp' = Tail(inp)
    /\ UNCHANGED <<code, st, out>>

Write ==
    /\ At("writeInt")
    /\ Len(out) < MaxOut
    /\ out' = Append(out, val[code[ik].s])
    /\ ik' = ik + 1
    /\ UNCHANGED <<code, st, val, inp>>

Jump == At("jumpI") /\ GoTo(code[ik].l) /\ UNCHANGED <<code, val, inp, out>>

Branch ==
    /\ At("cbr")
    /\ GoTo(IF val[code[ik - 1].t] # 0 THEN code[ik].l ELSE code[ik].m)
    /\ UNCHANGED <<code, val, inp, out>>

End ==
    /\ st = "running"
    /\ ik = Len(code) + 1
    /\ st' = "exited"
    /\ UNCHANGED <<code, ik, val, inp, out>>

Next ==
    \/ Start \/ Label \/ LoadI \/ Copy \/ Operate \/ Read \/ Write \/ Jump \/ Branch \/ End

Spec == Init /\ [][Next]_vars
=============================================================================
