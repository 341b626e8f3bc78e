----------------------------- MODULE Tl13Word -----------------------------
(***************************************************************************)
(* Machine words, and the arithmetic of the MIPS instructions that the     *)
(* tl13 compiler emits.  A word is a signed integer; half of the words are *)
(* negative.                                                               *)
(***************************************************************************)
EXTENDS Integers

CONSTANT Half          \* half the number of words: 2^31 on the machine

ASSUME HalfAssumption == Half \in Nat \ {0, 1}

Word == -Half .. Half - 1

Wrap(x) == ((x + Half) % (2 * Half)) - Half

Unsigned(x) == x % (2 * Half)

Magnitude(x) == IF x < 0 THEN - x ELSE x

(* The remainder has the sign of the dividend. *)
Remainder(x, y) ==
    IF x < 0 THEN - (Magnitude(x) % Magnitude(y)) ELSE x % Magnitude(y)

Flag(b) == IF b THEN 1 ELSE 0

Alu(instruction, x, y) ==
    CASE instruction = "addu" -> Wrap(x + y)
      [] instruction = "subu" -> Wrap(x - y)
      [] instruction = "mul" -> Wrap(x * y)
      [] instruction = "divu" -> Wrap(Unsigned(x) \div Unsigned(y))
      [] instruction = "rem" -> Remainder(x, y)
      [] instruction = "seq" -> Flag(x = y)
      [] instruction = "sne" -> Flag(x # y)
      [] instruction = "slt" -> Flag(x < y)
      [] instruction = "sgt" -> Flag(x > y)
      [] instruction = "sle" -> Flag(x <= y)
      [] instruction = "sge" -> Flag(x >= y)

Traps(instruction, y) == instruction \in {"divu", "rem"} /\ y = 0

Operators ==
    {"add", "sub", "mult", "div", "mod",
     "cmp_EQ", "cmp_NE", "cmp_LT", "cmp_GT", "cmp_LE", "cmp_GE"}

(* What an operator of ILOC, or of the source language, may give: nothing   *)
(* says what div and mod are with a negative operand.                       *)
Results(operator, x, y) ==
    CASE operator = "add" -> {Wrap(x + y)}
      [] operator = "sub" -> {Wrap(x - y)}
      [] operator = "mult" -> {Wrap(x * y)}
      [] operator = "div" -> IF x >= 0 /\ y > 0 THEN {x \div y} ELSE Word
      [] operator = "mod" -> IF x >= 0 /\ y > 0 THEN {x % y} ELSE Word
      [] operator = "cmp_EQ" -> {Flag(x = y)}
      [] operator = "cmp_NE" -> {Flag(x # y)}
      [] operator = "cmp_LT" -> {Flag(x < y)}
      [] operator = "cmp_GT" -> {Flag(x > y)}
      [] operator = "cmp_LE" -> {Flag(x <= y)}
      [] operator = "cmp_GE" -> {Flag(x >= y)}

MayTrap(operator, y) == operator \in {"div", "mod"} /\ y = 0
=============================================================================
