-------------------------- MODULE Tl13MipsProofs --------------------------
(***************************************************************************)
(* mips() gives every register of an ILOC program a slot of its own, and   *)
(* the program that it emits does what the ILOC program does and stays     *)
(* inside its lines, labels and frame, for any programs that keep to       *)
(* ProgramsAssumption.                                                     *)
(***************************************************************************)
EXTENDS Tl13Mips, TLAPS

IsFirst(q, r, n) == n \in DOMAIN q /\ q[n] = r /\ \A o \in 1 .. n - 1 : q[o] # r

First(q, r) == CHOOSE n \in DOMAIN q : q[n] = r /\ \A o \in 1 .. n - 1 : q[o] # r

(* The first index of a register is one index.                             *)
LEMMA FirstIs ==
    ASSUME NEW q \in Seq(Int), NEW r, NEW n, IsFirst(q, r, n)
    PROVE  First(q, r) = n /\ n \in 1 .. Len(q)
<1> DEFINE P(i) == q[i] = r /\ \A o \in 1 .. i - 1 : q[o] # r
           c == CHOOSE i \in DOMAIN q : P(i)
<1>1. DOMAIN q = 1 .. Len(q) /\ Len(q) \in Nat
  OBVIOUS
<1>2. n \in DOMAIN q /\ P(n)
  BY DEF IsFirst
<1>3. c \in DOMAIN q /\ P(c)
  BY <1>2
<1>4. First(q, r) = c
  BY DEF First
<1>5. ASSUME NEW i \in 1 .. Len(q), NEW o \in 1 .. Len(q), P(i), P(o) PROVE i = o
  BY <1>1, <1>5
<1> HIDE DEF c
<1>6. c = n
  <2>1. c \in 1 .. Len(q) /\ n \in 1 .. Len(q)
    BY <1>1, <1>2, <1>3
  <2> QED BY ONLY <2>1, <1>2, <1>3, <1>5
<1> QED BY <1>1, <1>2, <1>4, <1>6

(* What Append leaves in place.                                            *)
LEMMA Appended ==
    ASSUME NEW T, NEW q \in Seq(T), NEW x
    PROVE  /\ Append(q, x) \in Seq(T \cup {x})
           /\ Len(q) \in Nat
           /\ Len(Append(q, x)) = Len(q) + 1
           /\ DOMAIN q = 1 .. Len(q)
           /\ DOMAIN Append(q, x) = 1 .. Len(q) + 1
           /\ \A n \in 1 .. Len(q) : Append(q, x)[n] = q[n]
           /\ Append(q, x)[Len(q) + 1] = x
<1>1. q \in Seq(T \cup {x})
  OBVIOUS
<1> QED BY <1>1

(* A register in the list keeps its first index when another is appended,  *)
(* and a new one gets the last.                                            *)
LEMMA FirstStays ==
    ASSUME NEW q \in Seq(Int), NEW x \in Int, NEW r, NEW n, IsFirst(q, r, n)
    PROVE  IsFirst(Append(q, x), r, n)
<1>1. n \in 1 .. Len(q) /\ q[n] = r /\ \A o \in 1 .. n - 1 : q[o] # r
  BY DEF IsFirst
<1>2. n \in 1 .. Len(q) + 1 /\ 1 .. n - 1 \subseteq 1 .. Len(q) /\ Len(q) \in Nat
  BY <1>1
<1> QED BY <1>1, <1>2, Appended DEF IsFirst

LEMMA FirstOfNew ==
    ASSUME NEW q \in Seq(Int), NEW x \in Int, \A n \in DOMAIN q : q[n] # x
    PROVE  IsFirst(Append(q, x), x, Len(q) + 1)
BY Appended DEF IsFirst

-----------------------------------------------------------------------------
(* offset is the slot after those of the registers in reg.                 *)
NextSlotIsFree == reg \in Seq(Int) /\ offset \in Int /\ offset + 4 * Len(reg) = 0

EveryFirst == \A n \in DOMAIN reg : \E o : IsFirst(reg, reg[n], o)

(* The registers that have a slot are those that need one so far.          *)
RegIsTaken == {reg[n] : n \in DOMAIN reg} = TakenBefore(code, k)

Emitted == MIPS \in Seq({MIPS[n] : n \in DOMAIN MIPS})

Progress == k \in Nat /\ (st \in {"idle", "translate"} => k = Len(MIPS) + 1)

Idle == st = "idle" => reg = <<>> /\ MIPS = <<>> /\ k = 1

(* The lines that have been emitted for an instruction.                    *)
LinesAt(n) ==
    LET i == code[n]
    IN  CASE i.op = "loadI" -> <<li("t0", i.v), sw("t0", SlotOf(i.t))>>
          [] i.op = "i2i" -> <<lw("t0", SlotOf(i.s)), move("t0", "t0"), sw("t0", SlotOf(i.t))>>
          [] i.op = "bin" -> <<lw("t0", SlotOf(i.a)), lw("t1", SlotOf(i.b)),
                               operate(InstructionFor[i.f]), sw("t0", SlotOf(i.t))>>
          [] i.op = "readInt" ->
               <<li("v0", 5), syscall, move("t0", "v0"), sw("t0", SlotOf(i.s))>>
          [] i.op = "writeInt" ->
               <<li("v0", 1), lw("t0", SlotOf(i.s)), move("a0", "t0"), syscall>>
          [] i.op = "label" -> <<place>>
          [] i.op = "jumpI" -> LeaveFor(i.l)
          [] i.op = "cbr" -> <<bne(i.l), sw("t0", SlotOf(i.s))>> \o LeaveFor(i.m)

EmittedLines == \A n \in DOMAIN MIPS \cap DOMAIN code : MIPS[n] = LinesAt(n)

IInv ==
    /\ code \in Programs
    /\ NextSlotIsFree
    /\ EveryFirst
    /\ RegIsTaken
    /\ Emitted
    /\ Progress
    /\ Idle
    /\ EmittedLines

LEMMA SlotIs ==
    ASSUME NEW r, NEW n, reg \in Seq(Int), IsFirst(reg, r, n)
    PROVE  SlotOf(r) = -4 * (n - 1)
<1>1. SlotOf(r) = -4 * (First(reg, r) - 1)
  BY Zenon DEF SlotOf, First
<1> QED BY <1>1, FirstIs

LEMMA InitIInv == Init => IInv
<1> SUFFICES ASSUME Init PROVE IInv
  OBVIOUS
<1> USE DEF Init, MipsInit
<1>1. DOMAIN reg = {} /\ DOMAIN MIPS = {} /\ Len(reg) = 0 /\ Len(MIPS) = 0
  OBVIOUS
<1>2. reg \in Seq(Int) /\ MIPS \in Seq({})
  OBVIOUS
<1>3. NextSlotIsFree
  BY <1>1, <1>2 DEF NextSlotIsFree
<1>6. Progress /\ Idle
  BY <1>1 DEF Progress, Idle
<1>4. EveryFirst /\ Emitted /\ EmittedLines
  BY <1>1, <1>2 DEF EveryFirst, Emitted, EmittedLines
<1>5. RegIsTaken
  BY <1>1 DEF RegIsTaken, TakenBefore
<1> QED BY <1>3, <1>4, <1>5, <1>6 DEF IInv

-----------------------------------------------------------------------------
(* A step that translates code[k]: lines are emitted, and the register     *)
(* that needs a slot has one now.                                          *)
Emits(lines) ==
    /\ st = "translate"
    /\ k \in DOMAIN code
    /\ Emit(lines)
    /\ \/ TakesSlot(code[k]) /\ Allocate(Taker(code[k]))
       \/ /\ TakesSlot(code[k]) => HasSlot(Taker(code[k]))
          /\ UNCHANGED <<reg, offset>>

LEMMA Instructions ==
    ASSUME IInv, k \in DOMAIN code
    PROVE  /\ code[k] \in Instruction
           /\ TakesSlot(code[k]) => Taker(code[k]) \in Int
           /\ code[k].op \in {"loadI", "bin"} => ~ HasSlot(code[k].t)
           /\ \A r \in SourcesOf(code[k]) : HasSlot(r)
<1>1. code[k] \in Instruction
  BY ProgramsAssumption DEF IInv
<1>2. TakesSlot(code[k]) => Taker(code[k]) \in Int
  BY <1>1 DEF Instruction, TakesSlot, Taker
<1>3. \A r : HasSlot(r) <=> r \in TakenBefore(code, k)
  BY DEF IInv, RegIsTaken, HasSlot
<1> QED BY <1>1, <1>2, <1>3, ProgramsAssumption DEF IInv

(* Slots stay where they are, and a new one is at offset.                  *)
LEMMA SlotsStay ==
    ASSUME IInv, NEW lines, Emits(lines)
    PROVE  /\ \A r : HasSlot(r) => SlotOf(r)' = SlotOf(r)
           /\ \A r : /\ TakesSlot(code[k])
                     /\ r = Taker(code[k])
                     /\ ~ HasSlot(r)
                     => SlotOf(r)' = offset
<1> DEFINE x == Taker(code[k])
<1>1. reg \in Seq(Int) /\ offset = -4 * Len(reg) /\ EveryFirst
  BY DEF IInv, NextSlotIsFree
<1>2. TakesSlot(code[k]) => x \in Int
  BY Instructions DEF Emits
<1>3. CASE TakesSlot(code[k]) /\ Allocate(x)
  <2>1. reg' = Append(reg, x) /\ reg' \in Seq(Int) /\ x \in Int
    BY <1>1, <1>2, <1>3 DEF Allocate
  <2>2. ASSUME NEW r, HasSlot(r) PROVE SlotOf(r)' = SlotOf(r)
    <3>1. PICK n : IsFirst(reg, r, n)
      BY <1>1, <2>2 DEF EveryFirst, HasSlot
    <3>2. IsFirst(reg', r, n)
      BY <1>1, <2>1, <3>1, FirstStays
    <3>3. SlotOf(r) = -4 * (n - 1)
      BY <1>1, <3>1, SlotIs
    <3>4. SlotOf(r)' = -4 * (First(reg', r) - 1)
      BY Zenon DEF SlotOf, First
    <3> QED BY <2>1, <3>2, <3>3, <3>4, FirstIs
  <2>3. ASSUME NEW r, r = x, ~ HasSlot(r) PROVE SlotOf(r)' = offset
    <3>1. IsFirst(reg', r, Len(reg) + 1)
      BY <1>1, <2>1, <2>3, FirstOfNew DEF HasSlot
    <3>2. SlotOf(r)' = -4 * (First(reg', r) - 1)
      BY Zenon DEF SlotOf, First
    <3>3. First(reg', r) = Len(reg) + 1
      BY <2>1, <3>1, FirstIs
    <3>4. Len(reg) \in Nat
      BY <1>1
    <3> QED BY <1>1, <3>2, <3>3, <3>4
  <2> QED BY <2>2, <2>3
<1>4. CASE (TakesSlot(code[k]) => HasSlot(x)) /\ UNCHANGED <<reg, offset>>
  BY <1>4 DEF SlotOf
<1> QED BY <1>3, <1>4 DEF Emits

(* MIPS grows by the lines.                                                *)
LEMMA LinesAppended ==
    ASSUME IInv, NEW lines, Emits(lines)
    PROVE  /\ Emitted'
           /\ DOMAIN MIPS = 1 .. k - 1 /\ DOMAIN MIPS' = 1 .. k
           /\ Len(MIPS') = k
           /\ \A n \in 1 .. k - 1 : MIPS'[n] = MIPS[n]
           /\ MIPS'[k] = lines
<1> DEFINE T == {MIPS[n] : n \in DOMAIN MIPS}
           U == {MIPS'[n] : n \in DOMAIN MIPS'}
<1>1. MIPS \in Seq(T) /\ MIPS' = Append(MIPS, lines) /\ k = Len(MIPS) + 1 /\ k \in Nat
  BY DEF IInv, Emitted, Progress, Emits, Emit
<1> HIDE DEF T
<1>2. /\ MIPS' \in Seq(T \cup {lines})
      /\ Len(MIPS) \in Nat
      /\ Len(MIPS') = Len(MIPS) + 1
      /\ DOMAIN MIPS = 1 .. Len(MIPS)
      /\ DOMAIN MIPS' = 1 .. Len(MIPS) + 1
      /\ \A n \in 1 .. Len(MIPS) : MIPS'[n] = MIPS[n]
      /\ MIPS'[Len(MIPS) + 1] = lines
  BY <1>1, Appended
<1>3. MIPS' \in Seq(U)
  <2>1. DOMAIN MIPS' = 1 .. Len(MIPS') /\ Len(MIPS') \in Nat
    BY <1>2
  <2>2. MIPS' = [n \in 1 .. Len(MIPS') |-> MIPS'[n]]
    BY <1>2, <2>1
  <2>3. \A n \in 1 .. Len(MIPS') : MIPS'[n] \in U
    BY <2>1
  <2> HIDE DEF U
  <2> QED BY <2>1, <2>2, <2>3
<1> QED BY <1>1, <1>2, <1>3 DEF Emitted

(* The invariant is kept by a step that emits the lines of its instruction. *)
LEMMA EmitsIInv ==
    ASSUME IInv, NEW lines, Emits(lines), \A n : n = k => LinesAt(n)' = lines
    PROVE  IInv'
<1>1. /\ code' = code /\ st' = st /\ st = "translate" /\ k' = k + 1 /\ k \in DOMAIN code
      /\ code \in Programs /\ reg \in Seq(Int) /\ offset \in Int /\ offset + 4 * Len(reg) = 0
      /\ k \in Nat /\ EveryFirst
  BY DEF IInv, NextSlotIsFree, Progress, Emits, Emit
<1>2. code \in Seq(Instruction) /\ DOMAIN code = 1 .. Len(code) /\ k \in 1 .. Len(code)
  BY <1>1, ProgramsAssumption
<1> DEFINE x == Taker(code[k])
<1>3. TakesSlot(code[k]) => x \in Int
  BY <1>1, Instructions
<1>4. /\ Emitted'
      /\ DOMAIN MIPS = 1 .. k - 1 /\ DOMAIN MIPS' = 1 .. k
      /\ Len(MIPS') = k
      /\ \A n \in 1 .. k - 1 : MIPS'[n] = MIPS[n]
      /\ MIPS'[k] = lines
  BY LinesAppended
<1>5. Progress' /\ Idle'
  BY <1>1, <1>4 DEF Progress, Idle
<1>6. NextSlotIsFree' /\ EveryFirst' /\ RegIsTaken'
  <2>1. TakenBefore(code, k + 1)
          = TakenBefore(code, k) \cup (IF TakesSlot(code[k]) THEN {x} ELSE {})
    <3>1. 1 .. (k + 1) - 1 = (1 .. k - 1) \cup {k}
      BY <1>2
    <3> QED BY <3>1 DEF TakenBefore
  <2>2. {reg[n] : n \in DOMAIN reg} = TakenBefore(code, k)
    BY DEF IInv, RegIsTaken
  <2>3. CASE TakesSlot(code[k]) /\ Allocate(x)
    <3>1. x \in Int /\ reg' = Append(reg, x) /\ offset' = offset - 4
      BY <1>3, <2>3 DEF Allocate
    <3>2. /\ Len(reg) \in Nat /\ Len(reg') = Len(reg) + 1
          /\ DOMAIN reg = 1 .. Len(reg) /\ DOMAIN reg' = 1 .. Len(reg) + 1
          /\ \A n \in 1 .. Len(reg) : reg'[n] = reg[n]
          /\ reg'[Len(reg) + 1] = x
          /\ reg' \in Seq(Int)
      BY <1>1, <3>1, Appended
    <3>3. NextSlotIsFree'
      BY <1>1, <3>1, <3>2 DEF NextSlotIsFree
    <3>4. {reg'[n] : n \in DOMAIN reg'} = {reg[n] : n \in DOMAIN reg} \cup {x}
      BY <3>2
    <3>5. RegIsTaken'
      BY <1>1, <2>1, <2>2, <2>3, <3>4 DEF RegIsTaken
    <3>6. ASSUME NEW n \in DOMAIN reg' PROVE \E o : IsFirst(reg', reg'[n], o)
      <4>1. CASE \E o \in DOMAIN reg : reg[o] = reg'[n]
        <5>1. PICK o : IsFirst(reg, reg'[n], o)
          BY <1>1, <4>1 DEF EveryFirst
        <5> QED BY <1>1, <3>1, <5>1, FirstStays
      <4>2. CASE ~ \E o \in DOMAIN reg : reg[o] = reg'[n]
        <5>1. reg'[n] = x
          BY <3>2, <3>6, <4>2
        <5> QED BY <1>1, <3>1, <4>2, <5>1, FirstOfNew
      <4> QED BY <4>1, <4>2
    <3> QED BY <3>3, <3>5, <3>6 DEF EveryFirst
  <2>4. CASE (TakesSlot(code[k]) => HasSlot(x)) /\ UNCHANGED <<reg, offset>>
    <3>1. NextSlotIsFree' /\ EveryFirst'
      BY <1>1, <2>4 DEF NextSlotIsFree, EveryFirst
    <3>2. TakenBefore(code, k + 1) = TakenBefore(code, k)
      BY <2>1, <2>2, <2>4 DEF HasSlot
    <3> QED BY <1>1, <2>2, <2>4, <3>1, <3>2 DEF RegIsTaken
  <2> QED BY <2>3, <2>4 DEF Emits
<1>7. EmittedLines'
  <2>1. SUFFICES ASSUME NEW n \in DOMAIN MIPS' \cap DOMAIN code' PROVE (MIPS[n] = LinesAt(n))'
    BY DEF EmittedLines
  <2>2. CASE n = k
    BY <1>4, <2>2
  <2>3. CASE n # k
    <3>1. n \in 1 .. k - 1 /\ n \in DOMAIN MIPS \cap DOMAIN code /\ MIPS'[n] = MIPS[n]
      BY <1>1, <1>2, <1>4, <2>1, <2>3
    <3>2. MIPS[n] = LinesAt(n)
      BY <3>1 DEF IInv, EmittedLines
    <3>3. TakesSlot(code[n]) => Taker(code[n]) \in TakenBefore(code, k)
      BY <3>1 DEF TakenBefore
    <3>4. \A r \in SourcesOf(code[n]) : r \in TakenBefore(code, k)
      <4>1. SourcesOf(code[n]) \subseteq TakenBefore(code, n)
        BY <1>1, <3>1, ProgramsAssumption
      <4>2. 1 .. n - 1 \subseteq 1 .. k - 1
        BY <1>1, <3>1
      <4> QED BY <4>1, <4>2 DEF TakenBefore
    <3>5. \A r \in TakenBefore(code, k) : SlotOf(r)' = SlotOf(r)
      BY SlotsStay DEF IInv, RegIsTaken, HasSlot
    <3>6. code[n] \in Instruction
      BY <1>2, <3>1
    <3> QED BY <1>1, <3>1, <3>2, <3>3, <3>4, <3>5, <3>6
            DEF LinesAt, TakesSlot, Taker, SourcesOf, Instruction
  <2> QED BY <2>2, <2>3
<1> QED BY <1>1, <1>4, <1>5, <1>6, <1>7 DEF IInv

-----------------------------------------------------------------------------
(* A source has a slot, which it keeps; a target has one after the step.   *)
LEMMA SlotsOfStep ==
    ASSUME IInv, NEW lines, Emits(lines)
    PROVE  /\ \A r \in SourcesOf(code[k]) : SourceSlot(r) = SlotOf(r)' /\ HasSlot(r)
           /\ \A r : TakesSlot(code[k]) /\ r = Taker(code[k]) => TargetSlot(r) = SlotOf(r)'
           /\ \A r : code[k].op \in {"loadI", "bin"} /\ r = code[k].t => offset = SlotOf(r)'
<1>1. \A r \in SourcesOf(code[k]) : SourceSlot(r) = SlotOf(r)' /\ HasSlot(r)
  BY Instructions, SlotsStay DEF SourceSlot, Emits
<1>2. \A r : TakesSlot(code[k]) /\ r = Taker(code[k]) => TargetSlot(r) = SlotOf(r)'
  BY SlotsStay DEF TargetSlot
<1>3. ASSUME NEW r, code[k].op \in {"loadI", "bin"}, r = code[k].t PROVE offset = SlotOf(r)'
  <2>1. TakesSlot(code[k]) /\ r = Taker(code[k]) /\ ~ HasSlot(r)
    BY <1>3, Instructions DEF TakesSlot, Taker, Emits
  <2> QED BY <2>1, SlotsStay
<1> QED BY <1>1, <1>2, <1>3

LEMMA OperationIInv ==
    ASSUME IInv, NEW F, EmitOperation(F)
    PROVE  IInv'
<1> DEFINE lines == <<lw("t0", SourceSlot(code[k].a)), lw("t1", SourceSlot(code[k].b)),
                      operate(InstructionFor[code[k].f]), sw("t0", offset)>>
<1>1. Emits(lines) /\ code[k].op = "bin"
  BY DEF EmitOperation, Translating, Emits, TakesSlot, Taker
<1>2. ASSUME NEW n, n = k PROVE LinesAt(n)' = lines
  <2>1. code' = code
    BY <1>1 DEF Emits, Emit
  <2>2. code[n].a \in SourcesOf(code[n]) /\ code[n].b \in SourcesOf(code[n])
    BY <1>1, <1>2 DEF SourcesOf
  <2>3. /\ SourceSlot(code[n].a) = SlotOf(code[n].a)'
        /\ SourceSlot(code[n].b) = SlotOf(code[n].b)'
        /\ offset = SlotOf(code[n].t)'
    BY <1>1, <1>2, <2>1, <2>2, SlotsOfStep
  <2> QED BY <1>1, <1>2, <2>1, <2>3 DEF LinesAt
<1> QED BY <1>1, <1>2, EmitsIInv

LEMMA EmitLoadIIInv == IInv /\ EmitLoadI => IInv'
<1> SUFFICES ASSUME IInv, EmitLoadI PROVE IInv'
  OBVIOUS
<1> DEFINE lines == <<li("t0", code[k].v), sw("t0", offset)>>
<1>1. Emits(lines) /\ code[k].op = "loadI"
  BY DEF EmitLoadI, Translating, Emits, TakesSlot, Taker, AllocateIfNew
<1>2. ASSUME NEW n, n = k PROVE LinesAt(n)' = lines
  <2>1. code' = code
    BY <1>1 DEF Emits, Emit
  <2>2. offset = SlotOf(code[n].t)'
    BY <1>1, <1>2, <2>1, SlotsOfStep DEF TakesSlot
  <2> QED BY <1>1, <1>2, <2>1, <2>2 DEF LinesAt
<1> QED BY <1>1, <1>2, EmitsIInv

LEMMA EmitWriteIntIInv == IInv /\ EmitWriteInt => IInv'
<1> SUFFICES ASSUME IInv, EmitWriteInt PROVE IInv'
  OBVIOUS
<1> DEFINE lines == <<li("v0", 1), lw("t0", TargetSlot(code[k].s)), move("a0", "t0"), syscall>>
<1>1. Emits(lines) /\ code[k].op = "writeInt"
  BY DEF EmitWriteInt, Translating, Emits, TakesSlot, Taker, AllocateIfNew
<1>2. ASSUME NEW n, n = k PROVE LinesAt(n)' = lines
  <2>1. code' = code
    BY <1>1 DEF Emits, Emit
  <2>2. TargetSlot(code[n].s) = SlotOf(code[n].s)'
    BY <1>1, <1>2, <2>1, SlotsOfStep DEF TakesSlot, Taker
  <2> QED BY <1>1, <1>2, <2>1, <2>2 DEF LinesAt
<1> QED BY <1>1, <1>2, EmitsIInv

LEMMA EmitReadIntIInv == IInv /\ EmitReadInt => IInv'
<1> SUFFICES ASSUME IInv, EmitReadInt PROVE IInv'
  OBVIOUS
<1> DEFINE lines == <<li("v0", 5), syscall, move("t0", "v0"), sw("t0", TargetSlot(code[k].s))>>
<1>1. Emits(lines) /\ code[k].op = "readInt"
  BY DEF EmitReadInt, Translating, Emits, TakesSlot, Taker, AllocateIfNew
<1>2. ASSUME NEW n, n = k PROVE LinesAt(n)' = lines
  <2>1. code' = code
    BY <1>1 DEF Emits, Emit
  <2>2. TargetSlot(code[n].s) = SlotOf(code[n].s)'
    BY <1>1, <1>2, <2>1, SlotsOfStep DEF TakesSlot, Taker
  <2> QED BY <1>1, <1>2, <2>1, <2>2 DEF LinesAt
<1> QED BY <1>1, <1>2, EmitsIInv

LEMMA EmitI2iIInv == IInv /\ EmitI2i => IInv'
<1> SUFFICES ASSUME IInv, EmitI2i PROVE IInv'
  OBVIOUS
<1> DEFINE lines == <<lw("t0", SourceSlot(code[k].s)), move("t0", "t0"), sw("t0", TargetSlot(code[k].t))>>
<1>1. Emits(lines) /\ code[k].op = "i2i"
  BY DEF EmitI2i, Translating, Emits, TakesSlot, Taker, AllocateIfNew
<1>2. ASSUME NEW n, n = k PROVE LinesAt(n)' = lines
  <2>1. code' = code
    BY <1>1 DEF Emits, Emit
  <2>2. SourceSlot(code[n].s) = SlotOf(code[n].s)' /\ TargetSlot(code[n].t) = SlotOf(code[n].t)'
    BY <1>1, <1>2, <2>1, SlotsOfStep DEF TakesSlot, Taker, SourcesOf
  <2> QED BY <1>1, <1>2, <2>1, <2>2 DEF LinesAt
<1> QED BY <1>1, <1>2, EmitsIInv

LEMMA EmitJumpIIInv == IInv /\ EmitJumpI => IInv'
<1> SUFFICES ASSUME IInv, EmitJumpI PROVE IInv'
  OBVIOUS
<1> DEFINE lines == LeaveFor(code[k].l)
<1>1. Emits(lines) /\ code[k].op = "jumpI"
  BY DEF EmitJumpI, Translating, Emits, TakesSlot, Taker, AllocateIfNew
<1>2. ASSUME NEW n, n = k PROVE LinesAt(n)' = lines
  <2>1. code' = code
    BY <1>1 DEF Emits, Emit
  <2> QED BY <1>1, <1>2, <2>1 DEF LinesAt, LeaveFor
<1> QED BY <1>1, <1>2, EmitsIInv

LEMMA EmitLabelIInv == IInv /\ EmitLabel => IInv'
<1> SUFFICES ASSUME IInv, EmitLabel PROVE IInv'
  OBVIOUS
<1> DEFINE lines == <<place>>
<1>1. Emits(lines) /\ code[k].op = "label"
  BY DEF EmitLabel, Translating, Emits, TakesSlot, Taker, AllocateIfNew
<1>2. ASSUME NEW n, n = k PROVE LinesAt(n)' = lines
  <2>1. code' = code
    BY <1>1 DEF Emits, Emit
  <2> QED BY <1>1, <1>2, <2>1 DEF LinesAt, LeaveFor
<1> QED BY <1>1, <1>2, EmitsIInv

LEMMA EmitCbrIInv == IInv /\ EmitCbr => IInv'
<1> SUFFICES ASSUME IInv, EmitCbr PROVE IInv'
  OBVIOUS
<1> DEFINE lines == <<bne(code[k].l), sw("t0", TargetSlot(code[k].s))>> \o LeaveFor(code[k].m)
<1>1. Emits(lines) /\ code[k].op = "cbr"
  BY DEF EmitCbr, Translating, Emits, TakesSlot, Taker, AllocateIfNew
<1>2. ASSUME NEW n, n = k PROVE LinesAt(n)' = lines
  <2>1. code' = code
    BY <1>1 DEF Emits, Emit
  <2>2. TargetSlot(code[n].s) = SlotOf(code[n].s)'
    BY <1>1, <1>2, <2>1, SlotsOfStep DEF TakesSlot, Taker
  <2> QED BY <1>1, <1>2, <2>1, <2>2 DEF LinesAt, LeaveFor
<1> QED BY <1>1, <1>2, EmitsIInv

LEMMA EmitEndIInv == IInv /\ EmitEnd => IInv'
<1> SUFFICES ASSUME IInv, EmitEnd PROVE IInv'
  OBVIOUS
<1>1. /\ UNCHANGED <<code, k, reg, offset>> /\ st' = "running" /\ k = Len(code) + 1
      /\ MIPS' = Append(MIPS, LeaveFor(Exit)) /\ k = Len(MIPS) + 1
  BY DEF EmitEnd, IInv, Progress
<1> DEFINE T == {MIPS[n] : n \in DOMAIN MIPS}
           U == {MIPS'[n] : n \in DOMAIN MIPS'}
<1>2. /\ MIPS' \in Seq(T \cup {LeaveFor(Exit)})
      /\ DOMAIN MIPS = 1 .. Len(MIPS)
      /\ Len(MIPS) \in Nat
      /\ \A n \in 1 .. Len(MIPS) : MIPS'[n] = MIPS[n]
  <2>1. MIPS \in Seq(T)
    BY DEF IInv, Emitted
  <2> HIDE DEF T
  <2> QED BY <1>1, <2>1, Appended
<1>3. Emitted'
  <2>1. DOMAIN MIPS' = 1 .. Len(MIPS') /\ Len(MIPS') \in Nat
    BY <1>2
  <2>2. MIPS' = [n \in 1 .. Len(MIPS') |-> MIPS'[n]]
    BY <1>2, <2>1
  <2>3. \A n \in 1 .. Len(MIPS') : MIPS'[n] \in U
    BY <2>1
  <2>4. MIPS' \in Seq(U)
    <3> HIDE DEF U
    <3> QED BY <2>1, <2>2, <2>3
  <2> QED BY <2>4 DEF Emitted
<1>4. EmittedLines'
  <2>1. code \in Seq(Instruction)
    BY ProgramsAssumption DEF IInv
  <2>2. \A n \in DOMAIN code : n \in DOMAIN MIPS /\ MIPS'[n] = MIPS[n]
    BY <1>1, <1>2, <2>1
  <2>3. \A n \in DOMAIN code : MIPS[n] = LinesAt(n)
    BY <2>2 DEF IInv, EmittedLines
  <2>4. ASSUME NEW n \in DOMAIN code PROVE (MIPS[n] = LinesAt(n))'
    <3>1. \A r : SlotOf(r)' = SlotOf(r)
      BY <1>1 DEF SlotOf
    <3> QED BY <1>1, <2>2, <2>3, <3>1 DEF LinesAt, LeaveFor
  <2> QED BY <1>1, <2>4 DEF EmittedLines
<1> QED BY <1>1, <1>3, <1>4
        DEF IInv, NextSlotIsFree, EveryFirst, RegIsTaken, Progress, Idle

LEMMA NextIInv == IInv /\ [Next]_vars => IInv'
<1> SUFFICES ASSUME IInv, [Next]_vars PROVE IInv'
  OBVIOUS
<1>1. CASE Given(code)
  BY <1>1 DEF Given, mipsVars, machineVars, IInv, NextSlotIsFree, EveryFirst, RegIsTaken,
              Emitted, Progress, Idle, EmittedLines, LinesAt, LeaveFor, SlotOf
<1>2. CASE Translate
  BY <1>2, EmitLoadIIInv, EmitWriteIntIInv, EmitReadIntIInv, EmitI2iIInv, EmitJumpIIInv,
     EmitLabelIInv, EmitCbrIInv, EmitEndIInv, OperationIInv
     DEF Translate, EmitArithmetic, EmitComparison
<1>3. ASSUME UNCHANGED <<code, k, reg, offset, MIPS>>,
             st' = st \/ st' \in {"exited", "trapped"}
      PROVE  IInv'
  <2>1. EmittedLines'
    <3>1. \A r : SlotOf(r)' = SlotOf(r)
      BY <1>3 DEF SlotOf
    <3>2. \A n : LinesAt(n)' = LinesAt(n)
      BY <1>3, <3>1 DEF LinesAt, LeaveFor
    <3> QED BY <1>3, <3>2 DEF IInv, EmittedLines
  <2> QED BY <1>3, <2>1 DEF IInv, NextSlotIsFree, EveryFirst, RegIsTaken, Emitted, Progress, Idle
<1>4. CASE Execute
  BY <1>3, <1>4 DEF Execute, LoadImmediate, LoadWord, StoreWord, AddZero, Operate, Branch, Jump,
              PassLabel, ReadInteger, PrintInteger, ExitProgram, program, mipsVars
<1>5. CASE UNCHANGED vars
  BY <1>3, <1>5 DEF vars
<1> QED BY <1>1, <1>2, <1>4, <1>5 DEF Next

LEMMA Invariance == Spec => []IInv
BY InitIInv, NextIInv, PTL DEF Spec

(* For every set of programs: what mips() has emitted names, in every load  *)
(* and store, the slot that the register still has (Program_ast.java:489-   *)
(* 1070, where reg.indexOf finds slots and offset takes the next).          *)
THEOREM SlotsAgree == Spec => []EmittedSlots
<1>1. IInv => EmittedSlots
  <2>1. SUFFICES ASSUME IInv, NEW n \in DOMAIN MIPS \cap DOMAIN code PROVE EmittedAt(n)
    BY DEF EmittedSlots
  <2>2. MIPS[n] = LinesAt(n)
    BY <2>1 DEF IInv, EmittedLines
  <2> QED BY <2>2 DEF EmittedAt, LinesAt, li, lw, sw, move, operate
<1> QED BY <1>1, Invariance, PTL

(* For every set of programs: a register that is read has got a slot, so    *)
(* that none is read at slot 0 for want of another (Program_ast.java:588).  *)
THEOREM NoneIsRead0 == Spec => []SourcesHaveSlots
<1>1. IInv => SourcesHaveSlots
  BY Instructions DEF SourcesHaveSlots
<1> QED BY <1>1, Invariance, PTL

(* For every set of programs: every register has one slot, and every load,  *)
(* store and copy that is emitted uses it.                                  *)
THEOREM SlotsAreRight == Spec => []SlotsRight
<1>1. SourcesHaveSlots /\ EmittedSlots => SlotsRight
  BY DEF SlotsRight
<1>2. QED
  BY <1>1, SlotsAgree, NoneIsRead0, PTL

-----------------------------------------------------------------------------
(* Words.                                                                  *)
LEMMA WrapIsWord == ASSUME NEW x \in Int PROVE Wrap(x) \in Word
<1>1. Half \in Nat /\ Half > 1
  BY HalfAssumption
<1> DEFINE y == x + Half
           n == 2 * Half
<1>2. y \in Int /\ n \in Nat /\ n > 0
  BY <1>1
<1> HIDE DEF y, n
<1>3. y % n \in 0 .. n - 1
  BY <1>2
<1> QED BY <1>1, <1>3 DEF Wrap, Word, y, n

LEMMA WrapKeeps == ASSUME NEW x \in Nat, x < Half PROVE Wrap(x) = x
<1>1. Half \in Nat /\ Half > 1
  BY HalfAssumption
<1>2. (x + Half) % (2 * Half) = x + Half
  BY <1>1
<1> QED BY <1>1, <1>2 DEF Wrap

LEMMA UnsignedKeeps == ASSUME NEW x \in Nat, x < Half PROVE Unsigned(x) = x
BY HalfAssumption DEF Unsigned

LEMMA RemainderIsWord ==
    ASSUME NEW x \in Word, NEW y \in Word, y # 0
    PROVE  /\ Remainder(x, y) \in Word
           /\ x >= 0 /\ y > 0 => Remainder(x, y) = x % y
<1> DEFINE a == Magnitude(x)
           b == Magnitude(y)
<1>1. Half \in Nat /\ Half > 1 /\ x \in Int /\ y \in Int
  BY HalfAssumption DEF Word
<1>2. a \in Nat /\ b \in Nat /\ b > 0 /\ b <= Half
  BY <1>1 DEF Word, Magnitude
<1>3. Remainder(x, y) = IF x < 0 THEN - (a % b) ELSE x % b
  BY DEF Remainder
<1>4. x >= 0 => a = x
  BY <1>1 DEF Magnitude
<1>5. y > 0 => b = y
  BY <1>1 DEF Magnitude
<1> HIDE DEF a, b
<1>6. a % b \in 0 .. b - 1
  BY <1>2
<1> QED BY <1>1, <1>2, <1>3, <1>4, <1>5, <1>6 DEF Word

LEMMA QuotientIsWord ==
    ASSUME NEW x \in Word, NEW y \in Word, x >= 0, y > 0
    PROVE  Wrap(Unsigned(x) \div Unsigned(y)) = x \div y
<1>1. Half \in Nat /\ x \in Nat /\ y \in Nat /\ x < Half /\ y < Half
  BY HalfAssumption DEF Word
<1>2. x \div y \in 0 .. x
  BY <1>1
<1> QED BY <1>1, <1>2, WrapKeeps, UnsignedKeeps

(* An instruction gives what its operator may give, and traps where it may. *)
LEMMA AluIsRight ==
    ASSUME NEW f \in Operators, NEW x \in Word, NEW y \in Word
    PROVE  /\ Traps(InstructionFor[f], y) => MayTrap(f, y)
           /\ ~ Traps(InstructionFor[f], y) =>
                /\ Alu(InstructionFor[f], x, y) \in Results(f, x, y)
                /\ Alu(InstructionFor[f], x, y) \in Word
<1>1. Half \in Nat /\ Half > 1 /\ x \in Int /\ y \in Int
  BY HalfAssumption DEF Word
<1>2. 0 \in Word /\ 1 \in Word
  BY <1>1 DEF Word
<1>3. Wrap(x + y) \in Word /\ Wrap(x - y) \in Word /\ Wrap(x * y) \in Word
  BY <1>1, WrapIsWord
<1>4. CASE f \in {"add", "sub", "mult"}
  BY <1>3, <1>4 DEF Traps, InstructionFor, Alu, Results
<1>5. CASE f = "div"
  <2>1. InstructionFor[f] = "divu"
    BY <1>5 DEF InstructionFor
  <2>2. ASSUME y # 0 PROVE Wrap(Unsigned(x) \div Unsigned(y)) \in Word
    <3>1. Unsigned(x) \in Int /\ Unsigned(y) \in Int /\ Unsigned(y) > 0
      <4> DEFINE n == 2 * Half
      <4>1. n \in Nat /\ n > 0 /\ y < n /\ -n < y
        BY <1>1 DEF Word
      <4>2. x % n \in 0 .. n - 1 /\ y % n \in 0 .. n - 1
        <5> HIDE DEF n
        <5> QED BY <1>1, <4>1
      <4>3. y % n # 0
        <5>1. y > 0 => y % n = y
          BY <1>1, <4>1
        <5>2. y < 0 => y % n = y + n
          BY <1>1, <4>1
        <5> QED BY <1>1, <2>2, <4>1, <5>1, <5>2
      <4> QED BY <4>2, <4>3 DEF Unsigned
    <3>2. Unsigned(x) \div Unsigned(y) \in Int
      BY <3>1
    <3> QED BY <3>2, WrapIsWord
  <2>3. Alu("divu", x, y) = Wrap(Unsigned(x) \div Unsigned(y))
    BY DEF Alu
  <2>4. Results(f, x, y) = IF x >= 0 /\ y > 0 THEN {x \div y} ELSE Word
    BY <1>5 DEF Results
  <2> QED BY <1>5, <2>1, <2>2, <2>3, <2>4, QuotientIsWord DEF Traps, MayTrap
<1>6. CASE f = "mod"
  <2>1. InstructionFor[f] = "rem"
    BY <1>6 DEF InstructionFor
  <2>2. Alu("rem", x, y) = Remainder(x, y)
    BY DEF Alu
  <2>3. Results(f, x, y) = IF x >= 0 /\ y > 0 THEN {x % y} ELSE Word
    BY <1>6 DEF Results
  <2> QED BY <1>6, <2>1, <2>2, <2>3, RemainderIsWord DEF Traps, MayTrap
<1>7. CASE f \in {"cmp_EQ", "cmp_NE", "cmp_LT", "cmp_GT", "cmp_LE", "cmp_GE"}
  BY <1>2, <1>7 DEF Traps, InstructionFor, Alu, Results, Flag
<1> QED BY <1>4, <1>5, <1>6, <1>7 DEF Operators

-----------------------------------------------------------------------------
(* The registers of a program that has been translated have different      *)
(* slots, at which there is memory.                                        *)
Slots == {-4 * n : n \in 0 .. Len(reg)}

Done == k = Len(code) + 1

LEMMA SlotsDiffer ==
    ASSUME IInv, NEW r \in TakenBefore(code, k)
    PROVE  /\ SlotOf(r) \in Slots
           /\ \A q \in TakenBefore(code, k) : SlotOf(q) = SlotOf(r) => q = r
<1>1. /\ reg \in Seq(Int) /\ EveryFirst
      /\ \A q \in TakenBefore(code, k) : \E n \in DOMAIN reg : reg[n] = q
  BY DEF IInv, NextSlotIsFree, RegIsTaken
<1>2. \A q \in TakenBefore(code, k) : \E n \in 1 .. Len(reg) : IsFirst(reg, q, n)
  <2>1. SUFFICES ASSUME NEW q \in TakenBefore(code, k)
                 PROVE  \E n \in 1 .. Len(reg) : IsFirst(reg, q, n)
    OBVIOUS
  <2>2. PICK o : IsFirst(reg, q, o)
    BY <1>1 DEF EveryFirst
  <2> QED BY <1>1, <2>2 DEF IsFirst
<1>3. PICK n \in 1 .. Len(reg) : IsFirst(reg, r, n)
  BY <1>2
<1>4. SlotOf(r) = -4 * (n - 1) /\ reg[n] = r
  BY <1>1, <1>3, SlotIs DEF IsFirst
<1>5. ASSUME NEW q \in TakenBefore(code, k), SlotOf(q) = SlotOf(r) PROVE q = r
  <2>1. PICK o \in 1 .. Len(reg) : IsFirst(reg, q, o)
    BY <1>2
  <2>2. SlotOf(q) = -4 * (o - 1) /\ reg[o] = q
    BY <1>1, <2>1, SlotIs DEF IsFirst
  <2>3. o = n
    BY <1>1, <1>4, <1>5, <2>2
  <2> QED BY <1>4, <2>2, <2>3
<1>6. n - 1 \in 0 .. Len(reg)
  BY <1>1, <1>3
<1> QED BY <1>4, <1>5, <1>6 DEF Slots

(* What is known of an instruction of a program that has been translated.  *)
LEMMA Operands ==
    ASSUME IInv, Done
    PROVE  /\ DOMAIN code = 1 .. Len(code) /\ Len(code) \in Nat
           /\ Assigned(code) \subseteq TakenBefore(code, k)
           /\ \A n \in DOMAIN code :
                /\ code[n] \in Instruction
                /\ SourcesOf(code[n]) \subseteq Assigned(code)
                /\ TakesSlot(code[n]) => Taker(code[n]) \in TakenBefore(code, k)
                /\ code[n].op \in {"loadI", "i2i", "bin"} => code[n].t \in Assigned(code)
                /\ code[n].op = "readInt" => code[n].s \in Assigned(code)
                /\ code[n].op = "cbr" =>
                     /\ n - 1 \in DOMAIN code
                     /\ code[n - 1].op \in {"loadI", "i2i", "bin"}
                     /\ code[n].s \notin Assigned(code)
                     /\ code[n].l # Exit
                /\ \A l \in TargetsOf(code[n]) \ {Exit} :
                     \E o \in DOMAIN code : code[o].op = "label" /\ code[o].l = l
<1>1. code \in Seq(Instruction) /\ DOMAIN code = 1 .. Len(code) /\ Len(code) \in Nat
  BY ProgramsAssumption DEF IInv
<1>2. \A n \in DOMAIN code : TakesSlot(code[n]) => Taker(code[n]) \in TakenBefore(code, k)
  BY <1>1 DEF TakenBefore, Done
<1>3. Assigned(code) \subseteq TakenBefore(code, k)
  BY <1>2 DEF Assigned, TakesSlot, Taker
<1>4. ASSUME NEW n \in DOMAIN code
      PROVE  /\ code[n] \in Instruction
             /\ SourcesOf(code[n]) \subseteq Assigned(code)
             /\ code[n].op = "cbr" =>
                  /\ n > 1 /\ code[n - 1].op \in {"loadI", "i2i", "bin"}
                  /\ code[n].s \notin Assigned(code)
                  /\ code[n].l # Exit
             /\ \A l \in TargetsOf(code[n]) \ {Exit} :
                  \E o \in DOMAIN code : code[o].op = "label" /\ code[o].l = l
  BY <1>1, ProgramsAssumption DEF IInv
<1>5. ASSUME NEW n \in DOMAIN code
      PROVE  /\ code[n].op \in {"loadI", "i2i", "bin"} => code[n].t \in Assigned(code)
             /\ code[n].op = "readInt" => code[n].s \in Assigned(code)
  BY DEF Assigned
<1>6. \A n \in DOMAIN code : n > 1 => n - 1 \in DOMAIN code
  BY <1>1
<1> QED BY <1>1, <1>2, <1>3, <1>4, <1>5, <1>6

-----------------------------------------------------------------------------
(* What the machine holds before it executes MIPS[pc][m].                  *)
Value(r) == mem[SlotOf(r)]

Condition == Value(code[pc - 1].t)

AtLine ==
    LET i == code[pc]
    IN  /\ pc \in DOMAIN code =>
             /\ i.op = "loadI" /\ m = 2 => cpu["t0"] = i.v
             /\ i.op = "i2i" /\ m > 1 => cpu["t0"] = Value(i.s)
             /\ i.op = "bin" => /\ m \in {2, 3} => cpu["t0"] = Value(i.a)
                                /\ m = 3 => cpu["t1"] = Value(i.b)
                                /\ m = 4 => cpu["t0"] \in Results(i.f, Value(i.a), Value(i.b))
             /\ i.op = "readInt" => /\ m = 2 => cpu["v0"] = 5
                                    /\ m > 2 => cpu["v0"] \in Word
                                    /\ m = 4 => cpu["t0"] = cpu["v0"]
             /\ i.op = "writeInt" => /\ m > 1 => cpu["v0"] = 1
                                     /\ m = 3 => cpu["t0"] = Value(i.s)
                                     /\ m = 4 => cpu["a0"] = Value(i.s)
             /\ i.op = "cbr" => /\ m < 3 => cpu["t0"] = Condition
                                /\ m > 1 => Condition = 0
                                /\ m = 4 => cpu["v0"] = 10
             /\ i.op = "jumpI" /\ m = 2 => cpu["v0"] = 10
        /\ pc = Len(code) + 1 /\ m = 2 => cpu["v0"] = 10

Cpu ==
    /\ cpu \in [{"t0", "t1", "v0", "a0"} -> Int]
    /\ \A r \in {"t0", "t1", "a0"} : cpu[r] \in Word

Whole ==
    /\ Done
    /\ DOMAIN MIPS = 1 .. Len(code) + 1
    /\ MIPS[Len(code) + 1] = LeaveFor(Exit)

Place == pc \in 1 .. Len(code) + 1 /\ m \in 1 .. Len(MIPS[pc])

MInv ==
    /\ inp \in Seq(Word)
    /\ Cpu
    /\ ~ running => pc = 1 /\ m = 1
    /\ running =>
         /\ Whole
         /\ Place
         /\ mem \in [Slots -> Word]
         /\ AtLine

(* The lines of an instruction.                                            *)
LEMMA LinesAre ==
    ASSUME IInv, Whole, NEW n \in 1 .. Len(code) + 1
    PROVE  /\ n \in DOMAIN code => MIPS[n] = LinesAt(n)
           /\ n \notin DOMAIN code => n = Len(code) + 1 /\ MIPS[n] = LeaveFor(Exit)
BY Operands DEF IInv, Whole, EmittedLines

LEMMA TwoAnd ==
    ASSUME NEW T, NEW x \in T, NEW y \in T, NEW q \in Seq(T)
    PROVE  /\ Len(q) \in Nat
           /\ Len(<<x, y>> \o q) = Len(q) + 2
           /\ (<<x, y>> \o q)[1] = x /\ (<<x, y>> \o q)[2] = y
           /\ \A n \in 1 .. Len(q) : (<<x, y>> \o q)[n + 2] = q[n]
<1>1. <<x, y>> \in Seq(T) /\ Len(<<x, y>>) = 2
  OBVIOUS
<1> QED BY <1>1

CbrAt(l, a, t) == <<bne(l), sw("t0", a)>> \o LeaveFor(t)

LEMMA CbrLines ==
    ASSUME NEW l, NEW a, NEW t, NEW q, q = CbrAt(l, a, t)
    PROVE  /\ q[1] = bne(l) /\ q[2] = sw("t0", a)
           /\ t = Exit => Len(q) = 4 /\ q[3] = li("v0", 10) /\ q[4] = syscall
           /\ t # Exit => Len(q) = 3 /\ q[3] = j(t)
<1> DEFINE T == {bne(l), sw("t0", a), li("v0", 10), syscall, j(t)}
           o == LeaveFor(t)
<1>1. bne(l) \in T /\ sw("t0", a) \in T /\ o \in Seq(T)
  <2>1. /\ bne(l) \in T /\ sw("t0", a) \in T /\ li("v0", 10) \in T /\ syscall \in T
        /\ j(t) \in T
    OBVIOUS
  <2> HIDE DEF T
  <2> QED BY <2>1 DEF LeaveFor
<1>2. /\ t = Exit => Len(o) = 2 /\ o[1] = li("v0", 10) /\ o[2] = syscall
      /\ t # Exit => Len(o) = 1 /\ o[1] = j(t)
  BY DEF LeaveFor
<1> HIDE DEF T, o
<1>3. /\ Len(q) = Len(o) + 2
      /\ q[1] = bne(l) /\ q[2] = sw("t0", a)
      /\ \A n \in 1 .. Len(o) : q[n + 2] = o[n]
  BY <1>1, TwoAnd DEF o, CbrAt
<1> QED BY <1>2, <1>3

LEMMA LinesBegin ==
    IInv /\ Whole => \A n \in 1 .. Len(code) + 1 : 1 \in 1 .. Len(MIPS[n])
<1> SUFFICES ASSUME IInv, Whole, NEW n \in 1 .. Len(code) + 1 PROVE 1 \in 1 .. Len(MIPS[n])
  OBVIOUS
<1>1. Len(LeaveFor(Exit)) = 2
  BY DEF LeaveFor
<1>2. CASE n \in DOMAIN code
  <2>1. MIPS[n] = LinesAt(n) /\ code[n] \in Instruction
    BY <1>2, LinesAre, Operands DEF Whole
  <2>2. CASE code[n].op = "cbr"
    <3>1. MIPS[n] = CbrAt(code[n].l, SlotOf(code[n].s), code[n].m)
      BY <2>1, <2>2 DEF LinesAt, CbrAt
    <3> QED BY <3>1, CbrLines
  <2>3. CASE code[n].op # "cbr"
    BY <2>1, <2>3 DEF LinesAt, LeaveFor, Instruction
  <2> QED BY <2>2, <2>3
<1>3. CASE n \notin DOMAIN code
  BY <1>1, <1>3, LinesAre
<1> QED BY <1>2, <1>3

LEMMA LinesBeginThen ==
    (IInv /\ Whole)' => (\A n \in 1 .. Len(code) + 1 : 1 \in 1 .. Len(MIPS[n]))'
BY LinesBegin, PTL

LEMMA WordIsInt == 0 \in Word /\ 1 \in Word /\ \A w \in Word : w \in Int
BY HalfAssumption DEF Word

(* A register of the machine is assigned.                                  *)
LEMMA Assigns ==
    ASSUME Cpu, NEW r \in {"t0", "t1", "v0", "a0"}, NEW v \in Int, r # "v0" => v \in Word,
           Assign(r, v)
    PROVE  /\ Cpu'
           /\ cpu'[r] = v
           /\ \A q \in {"t0", "t1", "v0", "a0"} : q # r => cpu'[q] = cpu[q]
BY DEF Cpu, Assign

LEMMA InitMInv == Init => MInv
<1> SUFFICES ASSUME Init PROVE MInv
  OBVIOUS
<1>1. 0 \in Word /\ 0 \in Int
  BY HalfAssumption DEF Word
<1>2. Cpu
  BY <1>1 DEF Init, MipsInit, Cpu
<1>3. inp \in Seq(Word) /\ ~ running /\ pc = 1 /\ m = 1
  BY ValuesAssumption DEF Init, MipsInit, running
<1> QED BY <1>2, <1>3 DEF MInv

(* The program is started.                                                 *)
LEMMA EndMInv ==
    ASSUME IInv, MInv, EmitEnd
    PROVE  MInv' /\ Done /\ running' /\ ~ running /\ IInv'
<1>1. /\ ~ running /\ running' /\ k = Len(code) + 1 /\ k = Len(MIPS) + 1
      /\ UNCHANGED <<code, k, reg, offset, pc, m, cpu, inp, out>>
      /\ MIPS' = Append(MIPS, LeaveFor(Exit))
  BY DEF EmitEnd, running, IInv, Progress
<1>2. IInv' /\ Done
  BY <1>1, EmitEndIInv DEF Done
<1>3. /\ DOMAIN code = 1 .. Len(code) /\ Len(code) \in Nat
      /\ \A n \in DOMAIN code : code[n].op = "cbr" => n - 1 \in DOMAIN code
  BY <1>2, Operands
<1>4. Whole'
  <2> DEFINE T == {MIPS[n] : n \in DOMAIN MIPS}
  <2>1. MIPS \in Seq(T)
    BY DEF IInv, Emitted
  <2> HIDE DEF T
  <2>2. DOMAIN MIPS' = 1 .. Len(MIPS) + 1 /\ MIPS'[Len(MIPS) + 1] = LeaveFor(Exit)
        /\ Len(MIPS) \in Nat
    BY <1>1, <2>1, Appended
  <2>3. Len(MIPS) = Len(code)
    BY <1>1, <1>3, <2>2
  <2> QED BY <1>1, <2>2, <2>3 DEF Whole, Done, LeaveFor
<1>5. pc = 1 /\ m = 1 /\ Cpu /\ inp \in Seq(Word)
  BY <1>1 DEF MInv
<1>6. Place'
  BY <1>1, <1>2, <1>3, <1>4, <1>5, LinesBeginThen DEF Place
<1>7. mem' \in [Slots -> Word]'
  BY <1>1, ValuesAssumption DEF EmitEnd, Slots
<1>8. AtLine'
  <2>1. pc \in DOMAIN code => code[pc].op # "cbr"
    BY <1>3, <1>5
  <2> QED BY <1>1, <1>5, <2>1 DEF AtLine
<1> QED BY <1>1, <1>2, <1>4, <1>5, <1>6, <1>7, <1>8 DEF MInv, Cpu

(* Nothing runs while a program is translated.                             *)
LEMMA TranslateMInv ==
    ASSUME IInv, MInv, Given(code) \/ Translate, ~ EmitEnd
    PROVE  MInv' /\ ~ running /\ ~ running' /\ UNCHANGED <<machineVars, code>>
<1>1. /\ ~ running /\ ~ running' /\ UNCHANGED <<machineVars, code>>
  BY DEF Given, Translate, EmitLoadI, EmitWriteInt, EmitReadInt, EmitArithmetic, EmitComparison,
         EmitOperation, EmitI2i, EmitJumpI, EmitLabel, EmitCbr, Translating, Emit, running
<1> QED BY <1>1 DEF MInv, machineVars, Cpu

-----------------------------------------------------------------------------
(* What an executed line leads to.                                         *)

(* The next instruction finds the condition that the last has computed.    *)
LEMMA Proceeds ==
    ASSUME IInv, MInv, running, IInv', UNCHANGED program, pc \in DOMAIN code,
           pc' = pc + 1, m' = 1,
           \A r : code[pc].op \in {"loadI", "i2i", "bin"} /\ r = code[pc].t
                    => cpu'["t0"] = Value(r)'
    PROVE  Place' /\ AtLine'
<1>1. /\ code' = code /\ reg' = reg /\ MIPS' = MIPS /\ k' = k /\ Whole /\ Done
      /\ pc \in 1 .. Len(code) + 1
  BY DEF program, mipsVars, MInv, Whole, Place
<1>2. /\ DOMAIN code = 1 .. Len(code) /\ Len(code) \in Nat
      /\ \A n \in DOMAIN code :
           code[n].op = "cbr" => code[n - 1].op \in {"loadI", "i2i", "bin"}
  BY <1>1, Operands
<1>3. pc' \in 1 .. Len(code) + 1 /\ pc' - 1 = pc
  BY <1>1, <1>2
<1>4. Whole'
  BY <1>1 DEF Whole, Done, LeaveFor
<1>5. Place'
  BY <1>1, <1>3, <1>4, LinesBeginThen DEF Place
<1>6. pc' \in DOMAIN code /\ code[pc'].op = "cbr" => cpu'["t0"] = Condition'
  <2>1. SUFFICES ASSUME pc' \in DOMAIN code, code[pc'].op = "cbr", NEW r, r = code[pc].t
                 PROVE  cpu'["t0"] = mem'[SlotOf(r)']
    BY <1>1, <1>3 DEF Condition, Value
  <2>2. code[pc].op \in {"loadI", "i2i", "bin"}
    BY <1>2, <1>3, <2>1
  <2> QED BY <2>1, <2>2 DEF Value
<1> QED BY <1>1, <1>5, <1>6 DEF AtLine

(* A jump goes to a label.                                                 *)
LEMMA Lands ==
    ASSUME IInv, MInv, running, IInv', UNCHANGED program, pc \in DOMAIN code,
           NEW l \in TargetsOf(code[pc]), l # Exit, GoTo(l)
    PROVE  Place' /\ AtLine' /\ m' = 1 /\ pc' \in DOMAIN code /\ code[pc'].op = "label"
<1>1. code' = code /\ reg' = reg /\ MIPS' = MIPS /\ k' = k /\ Whole /\ Done
  BY DEF program, mipsVars, MInv, Whole
<1>2. /\ DOMAIN code = 1 .. Len(code) /\ Len(code) \in Nat
      /\ \E o \in DOMAIN code : code[o].op = "label" /\ code[o].l = l
  BY <1>1, Operands
<1>3. pc' \in DOMAIN code /\ code[pc'].op = "label" /\ m' = 1
  BY <1>2 DEF GoTo
<1>4. Whole'
  BY <1>1 DEF Whole, Done, LeaveFor
<1>5. Place'
  BY <1>1, <1>2, <1>3, <1>4, LinesBeginThen DEF Place
<1>6. pc' # Len(code) + 1
  BY <1>2, <1>3
<1> QED BY <1>1, <1>3, <1>5, <1>6 DEF AtLine

(* A store changes the value of one register.                              *)
LEMMA Stores ==
    ASSUME IInv, MInv, running, UNCHANGED program, NEW r \in TakenBefore(code, k), NEW v \in Word,
           mem' = [mem EXCEPT ![SlotOf(r)] = v]
    PROVE  /\ mem' \in [Slots -> Word]'
           /\ \A q \in TakenBefore(code, k) : Value(q)' = IF q = r THEN v ELSE Value(q)
<1>1. mem \in [Slots -> Word] /\ SlotOf(r) \in Slots /\ reg' = reg /\ code' = code
  BY SlotsDiffer DEF MInv, program, mipsVars
<1>2. \A q : SlotOf(q)' = SlotOf(q)
  BY <1>1 DEF SlotOf
<1>3. ASSUME NEW q \in TakenBefore(code, k) PROVE Value(q)' = IF q = r THEN v ELSE Value(q)
  <2>1. SlotOf(q) \in Slots /\ (SlotOf(q) = SlotOf(r) => q = r)
    BY SlotsDiffer
  <2> QED BY <1>1, <1>2, <2>1 DEF Value
<1>4. Slots' = Slots
  BY <1>1 DEF Slots
<1> QED BY <1>1, <1>3, <1>4

-----------------------------------------------------------------------------
(* The ILOC machine of the refinement, while the program runs.             *)
Values == [r \in Assigned(code) |-> mem[SlotOf(r)]]

Input == IF ReadNotStored THEN <<cpu["v0"]>> \o inp ELSE inp

LEMMA IlocVars == running => Iloc!vars = <<code, st, pc, Values, Input, out>>
BY DEF Iloc!vars, Values, Input

LEMMA IlocVarsThen == running' => (Iloc!vars = <<code, st, pc, Values, Input, out>>)'
BY IlocVars, PTL

LEMMA ValuesStored ==
    ASSUME IInv, MInv, running, UNCHANGED program, NEW r \in TakenBefore(code, k), NEW v \in Word,
           mem' = [mem EXCEPT ![SlotOf(r)] = v]
    PROVE  /\ r \in Assigned(code) => Values' = [Values EXCEPT ![r] = v]
           /\ r \notin Assigned(code) => Values' = Values
<1>1. code' = code /\ Assigned(code) \subseteq TakenBefore(code, k)
  BY Operands DEF program, MInv, Whole
<1>2. \A q \in TakenBefore(code, k) : Value(q)' = IF q = r THEN v ELSE Value(q)
  BY Stores
<1>3. Values' = [q \in Assigned(code) |-> IF q = r THEN v ELSE Values[q]]
  BY <1>1, <1>2 DEF Values, Value
<1> HIDE DEF Values
<1>4. Values = [q \in Assigned(code) |-> Values[q]]
  BY DEF Values
<1> QED BY <1>3, <1>4

(* The action that executes a line.                                        *)
LEMMA Executes ==
    ASSUME Execute
    PROVE  /\ st = "running" /\ running
           /\ UNCHANGED program
           /\ code' = code /\ reg' = reg /\ k' = k /\ MIPS' = MIPS
           /\ line.i = "li" => LoadImmediate
           /\ line.i = "lw" => LoadWord
           /\ line.i = "sw" => StoreWord
           /\ line.i = "add" => AddZero
           /\ line.i = "operate" => Operate
           /\ line.i = "bne" => Branch
           /\ line.i = "j" => Jump
           /\ line.i = "label" => PassLabel
           /\ line.i = "syscall" => ReadInteger \/ PrintInteger \/ ExitProgram
<1>1. /\ st = "running"
      /\ UNCHANGED program
      /\ line.i = "li" => LoadImmediate
      /\ line.i = "lw" => LoadWord
      /\ line.i = "sw" => StoreWord
      /\ line.i = "add" => AddZero
      /\ line.i = "operate" => Operate
      /\ line.i = "bne" => Branch
      /\ line.i = "j" => Jump
      /\ line.i = "label" => PassLabel
      /\ line.i = "syscall" => ReadInteger \/ PrintInteger \/ ExitProgram
  BY DEF Execute, Executing, LoadImmediate, LoadWord, StoreWord, AddZero, Operate, Branch, Jump,
         PassLabel, ReadInteger, PrintInteger, ExitProgram
<1> QED BY <1>1 DEF running, program, mipsVars

(* The machine before a line of instruction pc.                            *)
LEMMA Before ==
    ASSUME IInv, MInv, Execute, pc \in DOMAIN code
    PROVE  /\ Whole /\ Done /\ AtLine /\ Cpu /\ inp \in Seq(Word)
           /\ mem \in [Slots -> Word]
           /\ code[pc] \in Instruction
           /\ MIPS[pc] = LinesAt(pc)
           /\ m \in 1 .. Len(MIPS[pc]) /\ pc \in Nat /\ pc # Len(code) + 1
<1>1. running
  BY Executes
<1>2. /\ Whole /\ Done /\ AtLine /\ Cpu /\ inp \in Seq(Word) /\ mem \in [Slots -> Word]
      /\ pc \in 1 .. Len(code) + 1 /\ m \in 1 .. Len(MIPS[pc])
  BY <1>1 DEF MInv, Whole, Place
<1> QED BY <1>2, Operands, LinesAre

(* The values of the registers that an instruction uses.                   *)
LEMMA ValuesAre ==
    ASSUME IInv, MInv, Execute, pc \in DOMAIN code
    PROVE  \A r \in Assigned(code) : Value(r) = Values[r] /\ Value(r) \in Word
<1>1. Whole /\ Done /\ mem \in [Slots -> Word]
  BY Before
<1>2. \A r \in Assigned(code) : SlotOf(r) \in Slots
  BY <1>1, Operands, SlotsDiffer
<1> QED BY <1>1, <1>2 DEF Values, Value

(* A line behind which another of the same instruction is executed, and    *)
(* which the ILOC machine does not see.                                    *)
LEMMA IsNotSeen ==
    ASSUME IInv, MInv, Execute, pc \in DOMAIN code, UNCHANGED <<st, out>>, pc' = pc,
           mem' \in [Slots -> Word]', Values' = Values,
           m' \in 1 .. Len(MIPS[pc]), Cpu', inp' \in Seq(Word), Input' = Input, AtLine'
    PROVE  MInv' /\ [Iloc!Next]_(Iloc!vars)
<1>1. running /\ running' /\ code' = code /\ reg' = reg /\ k' = k /\ MIPS' = MIPS /\ st' = st
  BY Executes DEF running
<1>2. Whole /\ pc \in 1 .. Len(code) + 1
  BY <1>1 DEF MInv, Place
<1>3. Whole' /\ Place'
  BY <1>1, <1>2 DEF Whole, Done, Place, LeaveFor
<1>4. (Iloc!vars)' = Iloc!vars
  BY <1>1, IlocVars, IlocVarsThen
<1> QED BY <1>1, <1>3, <1>4 DEF MInv

LEMMA GoesOn ==
    ASSUME IInv, MInv, Execute, pc \in DOMAIN code, UNCHANGED <<st, mem, out>>, pc' = pc,
           m' \in 1 .. Len(MIPS[pc]), Cpu', inp' \in Seq(Word), Input' = Input, AtLine'
    PROVE  MInv' /\ [Iloc!Next]_(Iloc!vars)
<1>1. code' = code /\ reg' = reg /\ mem \in [Slots -> Word]
  BY Executes, Before
<1>2. Values' = Values /\ mem' \in [Slots -> Word]'
  BY <1>1 DEF Values, SlotOf, Slots
<1> QED BY <1>2, IsNotSeen

(* What is input stays where nothing is read.                              *)
LEMMA InputStays ==
    ASSUME code' = code, inp' = inp, code[pc].op # "readInt", pc' = pc \/ m' = 1
    PROVE  Input' = Input
BY DEF Input, ReadNotStored

(* An instruction that is over.                                            *)
LEMMA Over ==
    ASSUME IInv, MInv, Execute, running', Cpu', inp' \in Seq(Word),
           mem' \in [Slots -> Word]', Place', AtLine'
    PROVE  MInv'
<1>1. running /\ code' = code /\ reg' = reg /\ k' = k /\ MIPS' = MIPS
  BY Executes DEF running
<1>2. Whole'
  BY <1>1 DEF MInv, Whole, Done, LeaveFor
<1> QED BY <1>1, <1>2 DEF MInv

LEMMA LoadIStep ==
    ASSUME IInv, MInv, IInv', Execute, pc \in DOMAIN code, code[pc].op = "loadI"
    PROVE  MInv' /\ [Iloc!Next]_(Iloc!vars)
<1> USE Before, Executes
<1> DEFINE v == code[pc].v
           t == code[pc].t
<1>1. MIPS[pc] = <<li("t0", v), sw("t0", SlotOf(t))>> /\ v \in Word
  BY DEF LinesAt, Instruction
<1>2. m \in {1, 2} /\ Len(MIPS[pc]) = 2
  BY <1>1
<1>3. CASE m = 1
  <2>1. Assign("t0", v) /\ m' = 2 /\ pc' = pc /\ UNCHANGED <<st, mem, inp, out>>
    BY <1>1, <1>2, <1>3 DEF LoadImmediate, Forward, line, li
  <2>2. Cpu' /\ cpu'["t0"] = v
    BY <1>1, <2>1, Assigns, WordIsInt
  <2>3. Input' = Input /\ inp' \in Seq(Word)
    BY <2>1, InputStays
  <2>4. AtLine'
    BY <2>1, <2>2 DEF AtLine
  <2> QED BY <1>2, <2>1, <2>2, <2>3, <2>4, GoesOn
<1>4. CASE m = 2
  <2>1. /\ mem' = [mem EXCEPT ![SlotOf(t)] = cpu["t0"]] /\ m' = 1 /\ pc' = pc + 1
        /\ UNCHANGED <<st, cpu, inp, out>>
    BY <1>1, <1>2, <1>4 DEF StoreWord, Forward, line, sw
  <2>2. cpu["t0"] = v
    BY <1>4 DEF AtLine
  <2>3. t \in TakenBefore(code, k) /\ t \in Assigned(code)
    BY Operands
  <2>4. /\ mem' \in [Slots -> Word]' /\ \A r : r = t => Value(r)' = v
        /\ Values' = [Values EXCEPT ![t] = v]
    BY <1>1, <2>1, <2>2, <2>3, Stores, ValuesStored
  <2>5. Place' /\ AtLine'
    BY <2>1, <2>2, <2>4, Proceeds
  <2>6. Cpu' /\ Input' = Input /\ inp' \in Seq(Word) /\ running'
    BY <2>1, InputStays DEF Cpu, running
  <2>7. Iloc!LoadI
    BY <2>1, <2>4, <2>6 DEF Iloc!LoadI, Iloc!At, Iloc!Set, Values, Input
  <2> QED BY <2>4, <2>5, <2>6, <2>7, Over DEF Iloc!Next
<1> QED BY <1>2, <1>3, <1>4

LEMMA CopyStep ==
    ASSUME IInv, MInv, IInv', Execute, pc \in DOMAIN code, code[pc].op = "i2i"
    PROVE  MInv' /\ [Iloc!Next]_(Iloc!vars)
<1> USE Before, Executes
<1> DEFINE s == code[pc].s
           t == code[pc].t
           v == Value(s)
<1>1. MIPS[pc] = <<lw("t0", SlotOf(s)), move("t0", "t0"), sw("t0", SlotOf(t))>>
  BY DEF LinesAt
<1>2. m \in {1, 2, 3} /\ Len(MIPS[pc]) = 3
  BY <1>1
<1>3. /\ s \in Assigned(code) /\ t \in Assigned(code) /\ t \in TakenBefore(code, k)
  BY Operands DEF SourcesOf
<1>4. v \in Word /\ v = Values[s]
  BY <1>3, ValuesAre
<1>5. CASE m \in {1, 2}
  <2>1. UNCHANGED <<st, mem, inp, out>> /\ m' = m + 1 /\ pc' = pc
    BY <1>1, <1>2, <1>5 DEF LoadWord, AddZero, Forward, line, lw, move
  <2>2. Assign("t0", v)
    <3>1. CASE m = 1
      BY <1>1, <3>1 DEF LoadWord, line, lw, Value
    <3>2. CASE m = 2
      BY <1>1, <3>2 DEF AddZero, line, move, AtLine
    <3> QED BY <1>5, <3>1, <3>2
  <2>3. Cpu' /\ cpu'["t0"] = v
    BY <1>4, <2>2, Assigns, WordIsInt
  <2>4. Input' = Input /\ inp' \in Seq(Word)
    BY <2>1, InputStays
  <2>5. AtLine'
    <3>1. \A r : r = s => Value(r)' = v
      BY <2>1 DEF Value, SlotOf
    <3> QED BY <2>1, <2>3, <3>1 DEF AtLine
  <2> QED BY <1>2, <1>5, <2>1, <2>3, <2>4, <2>5, GoesOn
<1>6. CASE m = 3
  <2>1. /\ mem' = [mem EXCEPT ![SlotOf(t)] = cpu["t0"]] /\ m' = 1 /\ pc' = pc + 1
        /\ UNCHANGED <<st, cpu, inp, out>>
    BY <1>1, <1>2, <1>6 DEF StoreWord, Forward, line, sw
  <2>2. cpu["t0"] = v
    BY <1>6 DEF AtLine
  <2>3. /\ mem' \in [Slots -> Word]' /\ \A r : r = t => Value(r)' = v
        /\ Values' = [Values EXCEPT ![t] = v]
    <3> HIDE DEF v
    <3>1. cpu["t0"] = v
      BY <2>2 DEF v
    <3> QED BY <1>3, <1>4, <2>1, <3>1, Stores, ValuesStored
  <2>4. Place' /\ AtLine'
    BY <2>1, <2>2, <2>3, Proceeds
  <2>5. Cpu' /\ Input' = Input /\ inp' \in Seq(Word) /\ running'
    BY <2>1, InputStays DEF Cpu, running
  <2>6. Iloc!Copy
    BY <1>4, <2>1, <2>3, <2>5 DEF Iloc!Copy, Iloc!At, Iloc!Set, Values, Input
  <2> QED BY <2>3, <2>4, <2>5, <2>6, Over DEF Iloc!Next
<1> QED BY <1>2, <1>5, <1>6

LEMMA OperateStep ==
    ASSUME IInv, MInv, IInv', Execute, pc \in DOMAIN code, code[pc].op = "bin"
    PROVE  MInv' /\ [Iloc!Next]_(Iloc!vars)
<1> USE Before, Executes
<1> DEFINE f == code[pc].f
           a == code[pc].a
           b == code[pc].b
           t == code[pc].t
           x == Value(a)
           y == Value(b)
<1>1. MIPS[pc] = <<lw("t0", SlotOf(a)), lw("t1", SlotOf(b)), operate(InstructionFor[f]),
                   sw("t0", SlotOf(t))>>
  BY DEF LinesAt
<1>2. m \in {1, 2, 3, 4} /\ Len(MIPS[pc]) = 4
  BY <1>1
<1>3. /\ a \in Assigned(code) /\ b \in Assigned(code) /\ t \in Assigned(code)
      /\ t \in TakenBefore(code, k) /\ f \in Operators
  BY Operands DEF SourcesOf, Instruction
<1>4. x \in Word /\ x = Values[a] /\ y \in Word /\ y = Values[b]
  BY <1>3, ValuesAre
<1>5. ASSUME mem' = mem
      PROVE  \A r, q : r = a /\ q = b => Value(r)' = x /\ Value(q)' = y
  BY <1>5 DEF Value, SlotOf
<1> HIDE DEF x, y
<1>6. CASE m = 1
  <2>1. UNCHANGED <<st, mem, inp, out>> /\ m' = 2 /\ pc' = pc /\ Assign("t0", x)
    BY <1>1, <1>2, <1>6 DEF LoadWord, Forward, line, lw, x, Value
  <2>2. Cpu' /\ cpu'["t0"] = x
    BY <1>4, <2>1, Assigns, WordIsInt
  <2>3. Input' = Input /\ inp' \in Seq(Word)
    BY <2>1, InputStays
  <2>4. AtLine'
    BY <1>5, <2>1, <2>2 DEF AtLine
  <2> QED BY <1>2, <2>1, <2>2, <2>3, <2>4, GoesOn
<1>7. CASE m = 2
  <2>1. UNCHANGED <<st, mem, inp, out>> /\ m' = 3 /\ pc' = pc /\ Assign("t1", y)
    BY <1>1, <1>2, <1>7 DEF LoadWord, Forward, line, lw, y, Value
  <2>2. cpu["t0"] = x
    BY <1>7 DEF AtLine, x
  <2>3. Cpu' /\ cpu'["t0"] = x /\ cpu'["t1"] = y
    BY <1>4, <2>1, <2>2, Assigns, WordIsInt
  <2>4. Input' = Input /\ inp' \in Seq(Word)
    BY <2>1, InputStays
  <2>5. AtLine'
    BY <1>5, <2>1, <2>3 DEF AtLine
  <2> QED BY <1>2, <2>1, <2>3, <2>4, <2>5, GoesOn
<1>8. CASE m = 3
  <2>1. cpu["t0"] = x /\ cpu["t1"] = y
    BY <1>8 DEF AtLine, x, y
  <2>2. Operate /\ line.f = InstructionFor[f]
    BY <1>1, <1>8 DEF line, operate
  <2>3. CASE Traps(InstructionFor[f], y)
    <3>1. st' = "trapped" /\ UNCHANGED <<cpu, pc, m, mem, inp, out>>
      BY <2>1, <2>2, <2>3 DEF Operate
    <3>2. MayTrap(f, y)
      BY <1>3, <1>4, <2>3, AluIsRight
    <3>3. Input' = Input /\ inp' \in Seq(Word) /\ running' /\ Values' = Values /\ Cpu'
      BY <3>1, InputStays DEF running, Values, SlotOf, Cpu
    <3>4. Iloc!Operate
      BY <1>4, <3>1, <3>2, <3>3 DEF Iloc!Operate, Iloc!At, Iloc!MayTrap, MayTrap, Values, Input
    <3>5. Place' /\ mem' \in [Slots -> Word]'
      BY <3>1 DEF MInv, Place, Slots
    <3>6. AtLine'
      BY <1>5, <1>8, <2>1, <3>1 DEF AtLine, x, y
    <3> QED BY <3>3, <3>4, <3>5, <3>6, Over DEF Iloc!Next
  <2>4. CASE ~ Traps(InstructionFor[f], y)
    <3> DEFINE v == Alu(InstructionFor[f], x, y)
    <3>1. UNCHANGED <<st, mem, inp, out>> /\ m' = 4 /\ pc' = pc /\ Assign("t0", v)
      BY <1>2, <1>8, <2>1, <2>2, <2>4 DEF Operate, Forward
    <3>2. v \in Results(f, x, y) /\ v \in Word
      BY <1>3, <1>4, <2>4, AluIsRight
    <3> HIDE DEF v
    <3>3. Cpu' /\ cpu'["t0"] = v
      BY <3>1, <3>2, Assigns, WordIsInt
    <3>4. Input' = Input /\ inp' \in Seq(Word)
      BY <3>1, InputStays
    <3>5. AtLine'
      <4>1. \A g, r, q : g = f /\ r = a /\ q = b => cpu'["t0"] \in Results(g, Value(r), Value(q))'
        BY <1>5, <3>1, <3>2, <3>3
      <4> QED BY <3>1, <4>1 DEF AtLine
    <3> QED BY <1>2, <3>1, <3>3, <3>4, <3>5, GoesOn
  <2> QED BY <2>3, <2>4
<1>9. CASE m = 4
  <2> DEFINE v == cpu["t0"]
  <2>1. /\ mem' = [mem EXCEPT ![SlotOf(t)] = v] /\ m' = 1 /\ pc' = pc + 1
        /\ UNCHANGED <<st, cpu, inp, out>>
    BY <1>1, <1>2, <1>9 DEF StoreWord, Forward, line, sw
  <2>2. v \in Results(f, x, y) /\ v \in Word
    BY <1>9 DEF AtLine, x, y, Cpu
  <2>3. /\ mem' \in [Slots -> Word]' /\ \A r : r = t => Value(r)' = v
        /\ Values' = [Values EXCEPT ![t] = v]
    BY <1>3, <2>1, <2>2, Stores, ValuesStored
  <2>4. Place' /\ AtLine'
    BY <2>1, <2>3, Proceeds
  <2>5. Cpu' /\ Input' = Input /\ inp' \in Seq(Word) /\ running'
    BY <2>1, InputStays DEF Cpu, running
  <2>6. Iloc!Operate
    <3> HIDE DEF v
    <3>1. v \in Iloc!Results(f, Values[a], Values[b])
      BY <1>4, <2>2 DEF Results, Iloc!Results, Iloc!Wrap, Wrap, Iloc!Flag, Flag, Iloc!Word, Word
    <3> QED BY <1>4, <2>1, <2>3, <2>5, <3>1
            DEF Iloc!Operate, Iloc!At, Iloc!Set, Values, Input
  <2> QED BY <2>3, <2>4, <2>5, <2>6, Over DEF Iloc!Next
<1> QED BY <1>2, <1>6, <1>7, <1>8, <1>9

LEMMA HeadAndTail ==
    ASSUME NEW T, NEW x \in T, NEW q \in Seq(T)
    PROVE  /\ Head(<<x>> \o q) = x /\ Tail(<<x>> \o q) = q /\ <<x>> \o q # <<>>
           /\ q # <<>> => Head(q) \in T /\ Tail(q) \in Seq(T) /\ <<Head(q)>> \o Tail(q) = q
OBVIOUS

LEMMA ReadStep ==
    ASSUME IInv, MInv, IInv', Execute, pc \in DOMAIN code, code[pc].op = "readInt"
    PROVE  MInv' /\ [Iloc!Next]_(Iloc!vars)
<1> USE Before, Executes
<1> DEFINE s == code[pc].s
<1>1. MIPS[pc] = <<li("v0", 5), syscall, move("t0", "v0"), sw("t0", SlotOf(s))>>
  BY DEF LinesAt
<1>2. m \in {1, 2, 3, 4} /\ Len(MIPS[pc]) = 4
  BY <1>1
<1>3. s \in Assigned(code) /\ s \in TakenBefore(code, k)
  BY Operands DEF TakesSlot, Taker
<1>4. CASE m = 1
  <2>1. UNCHANGED <<st, mem, inp, out>> /\ m' = 2 /\ pc' = pc /\ Assign("v0", 5)
    BY <1>1, <1>2, <1>4 DEF LoadImmediate, Forward, line, li
  <2>2. Cpu' /\ cpu'["v0"] = 5
    BY <2>1, Assigns
  <2>3. Input' = Input /\ inp' \in Seq(Word)
    BY <1>4, <2>1 DEF Input, ReadNotStored
  <2>4. AtLine'
    BY <2>1, <2>2 DEF AtLine
  <2> QED BY <1>2, <2>1, <2>2, <2>3, <2>4, GoesOn
<1>5. CASE m = 2
  <2>1. line.i = "syscall" /\ cpu["v0"] = 5
    BY <1>1, <1>5 DEF line, syscall, AtLine
  <2>2. ReadInteger
    BY <2>1 DEF PrintInteger, ExitProgram
  <2>3. /\ UNCHANGED <<st, mem, out>> /\ m' = 3 /\ pc' = pc
        /\ inp # <<>> /\ inp' = Tail(inp) /\ Assign("v0", Head(inp))
    BY <1>2, <1>5, <2>2 DEF ReadInteger, Forward
  <2>4. Head(inp) \in Word /\ inp' \in Seq(Word) /\ <<Head(inp)>> \o inp' = inp
    BY <2>3, HeadAndTail
  <2>5. Cpu' /\ cpu'["v0"] = Head(inp)
    BY <2>3, <2>4, Assigns, WordIsInt
  <2>6. Input' = Input
    <3>1. ~ ReadNotStored /\ ReadNotStored'
      BY <1>5, <2>3 DEF ReadNotStored, running
    <3>2. Input = inp /\ Input' = <<cpu'["v0"]>> \o inp'
      BY <3>1 DEF Input
    <3> QED BY <2>4, <2>5, <3>2
  <2>7. AtLine'
    BY <2>3, <2>4, <2>5 DEF AtLine
  <2> QED BY <1>2, <2>3, <2>4, <2>5, <2>6, <2>7, GoesOn
<1>6. CASE m = 3
  <2>1. UNCHANGED <<st, mem, inp, out>> /\ m' = 4 /\ pc' = pc /\ Assign("t0", cpu["v0"])
    BY <1>1, <1>2, <1>6 DEF AddZero, Forward, line, move
  <2>2. cpu["v0"] \in Word
    BY <1>6 DEF AtLine
  <2>3. Cpu' /\ cpu'["t0"] = cpu["v0"] /\ cpu'["v0"] = cpu["v0"]
    BY <2>1, <2>2, Assigns, WordIsInt
  <2>4. Input' = Input /\ inp' \in Seq(Word)
    BY <1>6, <2>1, <2>3 DEF Input, ReadNotStored, running
  <2>5. AtLine'
    BY <2>1, <2>2, <2>3 DEF AtLine
  <2> QED BY <1>2, <2>1, <2>3, <2>4, <2>5, GoesOn
<1>7. CASE m = 4
  <2> DEFINE v == cpu["t0"]
  <2>1. /\ mem' = [mem EXCEPT ![SlotOf(s)] = v] /\ m' = 1 /\ pc' = pc + 1
        /\ UNCHANGED <<st, cpu, inp, out>>
    BY <1>1, <1>2, <1>7 DEF StoreWord, Forward, line, sw
  <2>2. v = cpu["v0"] /\ v \in Word
    BY <1>7 DEF AtLine
  <2>3. /\ mem' \in [Slots -> Word]' /\ Values' = [Values EXCEPT ![s] = v]
    BY <1>3, <2>1, <2>2, Stores, ValuesStored
  <2>4. Place' /\ AtLine'
    BY <2>1, Proceeds
  <2>5. Cpu' /\ inp' \in Seq(Word) /\ running'
    BY <2>1 DEF Cpu, running
  <2>6. Input = <<v>> \o inp /\ Input' = inp
    BY <1>7, <2>1, <2>2 DEF Input, ReadNotStored
  <2>7. Input # <<>> /\ Head(Input) = v /\ Tail(Input) = Input'
    BY <2>2, <2>6, HeadAndTail
  <2>8. Iloc!Read
    BY <2>1, <2>3, <2>5, <2>7 DEF Iloc!Read, Iloc!At, Iloc!Set, Values, Input
  <2> QED BY <2>3, <2>4, <2>5, <2>8, Over DEF Iloc!Next
<1> QED BY <1>2, <1>4, <1>5, <1>6, <1>7

LEMMA WriteStep ==
    ASSUME IInv, MInv, IInv', Execute, pc \in DOMAIN code, code[pc].op = "writeInt"
    PROVE  MInv' /\ [Iloc!Next]_(Iloc!vars)
<1> USE Before, Executes
<1> DEFINE s == code[pc].s
           v == Value(s)
<1>1. MIPS[pc] = <<li("v0", 1), lw("t0", SlotOf(s)), move("a0", "t0"), syscall>>
  BY DEF LinesAt
<1>2. m \in {1, 2, 3, 4} /\ Len(MIPS[pc]) = 4
  BY <1>1
<1>3. s \in Assigned(code)
  BY Operands DEF SourcesOf
<1>4. v \in Word /\ v = Values[s]
  BY <1>3, ValuesAre
<1>5. ASSUME mem' = mem PROVE \A r : r = s => Value(r)' = v
  BY <1>5 DEF Value, SlotOf
<1> HIDE DEF v
<1>6. CASE m \in {1, 2, 3}
  <2>1. UNCHANGED <<st, mem, inp, out>> /\ m' = m + 1 /\ pc' = pc
    BY <1>1, <1>2, <1>6 DEF LoadImmediate, LoadWord, AddZero, Forward, line, li, lw, move
  <2>2. Cpu' /\ AtLine'
    <3>1. CASE m = 1
      <4>1. Assign("v0", 1)
        BY <1>1, <3>1 DEF LoadImmediate, line, li
      <4>2. Cpu' /\ cpu'["v0"] = 1
        BY <4>1, Assigns
      <4> QED BY <2>1, <3>1, <4>2 DEF AtLine
    <3>2. CASE m = 2
      <4>1. Assign("t0", v) /\ cpu["v0"] = 1
        BY <1>1, <3>2 DEF LoadWord, line, lw, v, Value, AtLine
      <4>2. Cpu' /\ cpu'["v0"] = 1 /\ cpu'["t0"] = v
        BY <1>4, <4>1, Assigns, WordIsInt
      <4> QED BY <1>5, <2>1, <3>2, <4>2 DEF AtLine
    <3>3. CASE m = 3
      <4>1. Assign("a0", v) /\ cpu["v0"] = 1
        BY <1>1, <3>3 DEF AddZero, line, move, v, AtLine
      <4>2. Cpu' /\ cpu'["v0"] = 1 /\ cpu'["a0"] = v
        BY <1>4, <4>1, Assigns, WordIsInt
      <4> QED BY <1>5, <2>1, <3>3, <4>2 DEF AtLine
    <3> QED BY <1>6, <3>1, <3>2, <3>3
  <2>3. Input' = Input /\ inp' \in Seq(Word)
    BY <2>1, InputStays
  <2> QED BY <1>2, <1>6, <2>1, <2>2, <2>3, GoesOn
<1>7. CASE m = 4
  <2>1. line.i = "syscall" /\ cpu["v0"] = 1 /\ cpu["a0"] = v
    BY <1>1, <1>7 DEF line, syscall, AtLine, v
  <2>2. PrintInteger
    BY <2>1 DEF ReadInteger, ExitProgram
  <2>3. /\ Len(out) < MaxOut /\ out' = Append(out, v) /\ m' = 1 /\ pc' = pc + 1
        /\ UNCHANGED <<st, cpu, mem, inp>>
    BY <1>2, <1>7, <2>1, <2>2 DEF PrintInteger, Forward
  <2>4. Place' /\ AtLine'
    BY <2>3, Proceeds
  <2>5. /\ Cpu' /\ Input' = Input /\ inp' \in Seq(Word) /\ running'
        /\ Values' = Values /\ mem' \in [Slots -> Word]'
    BY <2>3, InputStays DEF Cpu, running, Values, SlotOf, Slots
  <2>6. Iloc!Write
    BY <1>4, <2>3, <2>5 DEF Iloc!Write, Iloc!At, Values, Input
  <2> QED BY <2>4, <2>5, <2>6, Over DEF Iloc!Next
<1> QED BY <1>2, <1>6, <1>7

LEMMA LabelStep ==
    ASSUME IInv, MInv, IInv', Execute, pc \in DOMAIN code, code[pc].op = "label"
    PROVE  MInv' /\ [Iloc!Next]_(Iloc!vars)
<1> USE Before, Executes
<1>1. MIPS[pc] = <<place>> /\ m = 1
  <2>1. MIPS[pc] = <<place>>
    BY DEF LinesAt
  <2> QED BY <2>1
<1>2. m' = 1 /\ pc' = pc + 1 /\ UNCHANGED <<st, cpu, mem, inp, out>>
  BY <1>1 DEF PassLabel, Forward, line, place
<1>3. Place' /\ AtLine'
  BY <1>2, Proceeds
<1>4. /\ Cpu' /\ Input' = Input /\ inp' \in Seq(Word) /\ running'
      /\ Values' = Values /\ mem' \in [Slots -> Word]'
  BY <1>2, InputStays DEF Cpu, running, Values, SlotOf, Slots
<1>5. Iloc!Label
  BY <1>2, <1>4 DEF Iloc!Label, Iloc!At, Values, Input
<1> QED BY <1>3, <1>4, <1>5, Over DEF Iloc!Next

(* A jump line of an instruction is Iloc!GoTo.                              *)
LEMMA Leaves ==
    ASSUME IInv, MInv, IInv', Execute, pc \in DOMAIN code, code[pc].op # "readInt",
           NEW l \in TargetsOf(code[pc]), l # Exit, line.i \in {"j", "bne"}, GoTo(l),
           UNCHANGED <<st, cpu, mem, inp, out>>
    PROVE  /\ MInv' /\ running' /\ Input' = Input /\ Values' = Values
           /\ UNCHANGED code /\ Iloc!GoTo(l)
<1> USE Before, Executes
<1>1. Place' /\ AtLine' /\ m' = 1
  BY Lands
<1>2. /\ Cpu' /\ Input' = Input /\ inp' \in Seq(Word) /\ running'
      /\ Values' = Values /\ mem' \in [Slots -> Word]'
  BY <1>1, InputStays DEF Cpu, running, Values, SlotOf, Slots
<1>3. Iloc!GoTo(l)
  <2>1. pc' = Iloc!LabelAt(code, l)
    BY Zenon DEF GoTo, Iloc!LabelAt
  <2>2. (IF running THEN code ELSE <<>>) = code
    OBVIOUS
  <2> QED BY <1>2, <2>1, <2>2 DEF Iloc!GoTo, Iloc!Exit, Exit
<1> QED BY <1>1, <1>2, <1>3, Over

(* The instructions that end the program.                                  *)
LEMMA Leaving ==
    ASSUME IInv, MInv, Execute, pc \in DOMAIN code => code[pc].op # "readInt",
           ExitProgram
    PROVE  /\ MInv' /\ running' /\ st' = "exited" /\ Input' = Input /\ Values' = Values
           /\ UNCHANGED <<code, pc, out>>
<1>1. /\ code' = code /\ reg' = reg /\ k' = k /\ MIPS' = MIPS /\ running
      /\ st' = "exited" /\ UNCHANGED <<pc, m, cpu, mem, inp, out>>
  BY Executes DEF ExitProgram
<1>2. running'
  BY <1>1 DEF running
<1>3. Input' = Input /\ Values' = Values
  BY <1>1 DEF Input, ReadNotStored, Values, SlotOf
<1>4. MInv'
  <2>1. AtLine'
    BY <1>1 DEF MInv, AtLine, Condition, Value, SlotOf
  <2> QED BY <1>1, <1>2, <2>1 DEF MInv, Whole, Done, Place, Slots, Cpu, LeaveFor
<1> QED BY <1>1, <1>2, <1>3, <1>4

LEMMA JumpStep ==
    ASSUME IInv, MInv, IInv', Execute, pc \in DOMAIN code, code[pc].op = "jumpI"
    PROVE  MInv' /\ [Iloc!Next]_(Iloc!vars)
<1> USE Before, Executes
<1> DEFINE l == code[pc].l
<1>1. MIPS[pc] = LeaveFor(l) /\ l \in TargetsOf(code[pc])
  BY DEF LinesAt, TargetsOf
<1>2. CASE l # Exit
  <2>1. MIPS[pc] = <<j(l)>> /\ m = 1
    BY <1>1, <1>2 DEF LeaveFor
  <2>2. line.i = "j" /\ GoTo(l) /\ UNCHANGED <<st, cpu, mem, inp, out>>
    BY <2>1 DEF Jump, line, j
  <2>3. /\ MInv' /\ running' /\ Input' = Input /\ Values' = Values
        /\ UNCHANGED code /\ Iloc!GoTo(l)
    BY <1>1, <1>2, <2>2, Leaves
  <2>4. Iloc!Jump
    BY <1>2, <2>2, <2>3 DEF Iloc!Jump, Iloc!At, Iloc!GoTo, Iloc!Exit, Exit, Values, Input
  <2> QED BY <2>3, <2>4 DEF Iloc!Next
<1>3. CASE l = Exit
  <2>1. MIPS[pc] = <<li("v0", 10), syscall>> /\ m \in {1, 2} /\ Len(MIPS[pc]) = 2
    BY <1>1, <1>3 DEF LeaveFor
  <2>2. CASE m = 1
    <3>1. UNCHANGED <<st, mem, inp, out>> /\ m' = 2 /\ pc' = pc /\ Assign("v0", 10)
      BY <2>1, <2>2 DEF LoadImmediate, Forward, line, li
    <3>2. Cpu' /\ cpu'["v0"] = 10
      BY <3>1, Assigns
    <3>3. Input' = Input /\ inp' \in Seq(Word)
      BY <3>1, InputStays
    <3>4. AtLine'
      BY <3>1, <3>2 DEF AtLine
    <3> QED BY <2>1, <3>1, <3>2, <3>3, <3>4, GoesOn
  <2>3. CASE m = 2
    <3>1. ExitProgram
      BY <2>1, <2>3 DEF line, syscall, AtLine, ReadInteger, PrintInteger
    <3>2. /\ MInv' /\ running' /\ st' = "exited" /\ Input' = Input /\ Values' = Values
          /\ UNCHANGED <<code, pc, out>>
      BY <3>1, Leaving
    <3>3. Iloc!Jump
      BY <1>3, <3>2 DEF Iloc!Jump, Iloc!At, Iloc!GoTo, Iloc!Exit, Exit, Values, Input
    <3> QED BY <3>2, <3>3 DEF Iloc!Next
  <2> QED BY <2>1, <2>2, <2>3
<1> QED BY <1>2, <1>3

LEMMA EndStep ==
    ASSUME IInv, MInv, IInv', Execute, pc \notin DOMAIN code
    PROVE  MInv' /\ [Iloc!Next]_(Iloc!vars)
<1> USE Executes
<1>1. /\ pc = Len(code) + 1 /\ MIPS[pc] = <<li("v0", 10), syscall>>
      /\ pc \in 1 .. Len(code) + 1 /\ m \in {1, 2} /\ Len(MIPS[pc]) = 2
      /\ Whole /\ Done /\ AtLine /\ Cpu /\ inp \in Seq(Word) /\ mem \in [Slots -> Word]
  <2>1. /\ Whole /\ Done /\ AtLine /\ Cpu /\ inp \in Seq(Word) /\ mem \in [Slots -> Word]
        /\ pc \in 1 .. Len(code) + 1 /\ m \in 1 .. Len(MIPS[pc])
    BY DEF MInv, Place, Whole
  <2>2. pc = Len(code) + 1 /\ MIPS[pc] = <<li("v0", 10), syscall>>
    BY <2>1, LinesAre DEF LeaveFor
  <2> QED BY <2>1, <2>2
<1>2. CASE m = 1
  <2>1. UNCHANGED <<st, mem, inp, out>> /\ m' = 2 /\ pc' = pc /\ Assign("v0", 10)
    BY <1>1, <1>2 DEF LoadImmediate, Forward, line, li
  <2>2. Cpu' /\ cpu'["v0"] = 10
    BY <1>1, <2>1, Assigns
  <2>3. Input' = Input /\ Values' = Values /\ running'
    BY <2>1 DEF Input, ReadNotStored, Values, SlotOf, running
  <2>4. AtLine'
    BY <2>1, <2>2 DEF AtLine
  <2>5. MInv'
    <3>1. Whole' /\ mem' \in [Slots -> Word]'
      BY <1>1, <2>1 DEF Whole, Done, Slots, LeaveFor
    <3>2. Place'
      <4>1. code' = code /\ MIPS' = MIPS
        OBVIOUS
      <4>2. pc' \in 1 .. Len(code') + 1
        BY <1>1, <2>1, <4>1
      <4>3. Len(MIPS'[pc']) = 2
        BY <1>1, <2>1, <4>1
      <4>4. m' \in 1 .. Len(MIPS'[pc'])
        BY <2>1, <4>3
      <4> QED BY <4>2, <4>4 DEF Place
    <3> QED BY <1>1, <2>1, <2>2, <2>3, <2>4, <3>1, <3>2 DEF MInv
  <2>6. (Iloc!vars)' = Iloc!vars
    BY <2>1, <2>3, IlocVars, IlocVarsThen
  <2> QED BY <2>5, <2>6
<1>3. CASE m = 2
  <2>1. ExitProgram
    BY <1>1, <1>3 DEF line, syscall, AtLine, ReadInteger, PrintInteger
  <2>2. /\ MInv' /\ running' /\ st' = "exited" /\ Input' = Input /\ Values' = Values
        /\ UNCHANGED <<code, pc, out>>
    BY <2>1, Leaving
  <2>3. Iloc!End
    BY <1>1, <2>2 DEF Iloc!End, Values, Input
  <2> QED BY <2>2, <2>3 DEF Iloc!Next
<1> QED BY <1>1, <1>2, <1>3

LEMMA BranchStep ==
    ASSUME IInv, MInv, IInv', Execute, pc \in DOMAIN code, code[pc].op = "cbr"
    PROVE  MInv' /\ [Iloc!Next]_(Iloc!vars)
<1> USE Before, Executes
<1> DEFINE s == code[pc].s
           l == code[pc].l
           e == code[pc].m
           t == code[pc - 1].t
<1>1. MIPS[pc] = CbrAt(l, SlotOf(s), e) /\ m \in 1 .. Len(MIPS[pc])
  BY DEF LinesAt, CbrAt
<1>2. /\ MIPS[pc][1] = bne(l) /\ MIPS[pc][2] = sw("t0", SlotOf(s))
      /\ e = Exit => /\ Len(MIPS[pc]) = 4
                     /\ MIPS[pc][3] = li("v0", 10) /\ MIPS[pc][4] = syscall
      /\ e # Exit => Len(MIPS[pc]) = 3 /\ MIPS[pc][3] = j(e)
  BY ONLY <1>1, CbrLines
<1>3. /\ m \in {1, 2, 3, 4} /\ (m = 4 => e = Exit)
      /\ 1 < Len(MIPS[pc]) /\ 2 < Len(MIPS[pc])
      /\ 2 \in 1 .. Len(MIPS[pc]) /\ 3 \in 1 .. Len(MIPS[pc])
  <2>1. CASE e = Exit
    <3>1. Len(MIPS[pc]) = 4
      BY <1>2, <2>1
    <3>2. m \in 1 .. 4
      BY <1>1, <3>1
    <3>3. m \in {1, 2, 3, 4}
      BY ONLY <3>2
    <3> QED BY ONLY <2>1, <3>1, <3>3
  <2>2. CASE e # Exit
    <3>1. Len(MIPS[pc]) = 3
      BY <1>2, <2>2
    <3> QED BY ONLY <1>1, <3>1
  <2> QED BY <2>1, <2>2
<1>4. /\ s \in TakenBefore(code, k) /\ s \notin Assigned(code)
      /\ t \in Assigned(code) /\ t \in TakenBefore(code, k)
      /\ l # Exit /\ l \in TargetsOf(code[pc]) /\ e \in TargetsOf(code[pc])
  BY Operands DEF TakesSlot, Taker, TargetsOf
<1>5. Condition = Values[t] /\ Condition \in Word
  BY <1>4, ValuesAre DEF Condition
<1>6. CASE m = 1
  <2>1. Branch /\ line.i = "bne" /\ line.l = l /\ cpu["t0"] = Condition
    BY <1>2, <1>6 DEF line, bne, AtLine
  <2>2. CASE Condition # 0
    <3>1. GoTo(l) /\ UNCHANGED <<st, cpu, mem, inp, out>>
      BY <2>1, <2>2 DEF Branch
    <3>2. /\ MInv' /\ running' /\ Input' = Input /\ Values' = Values
          /\ UNCHANGED code /\ Iloc!GoTo(l)
      BY <1>4, <2>1, <3>1, Leaves
    <3>3. Iloc!Branch
      BY <1>5, <2>2, <3>1, <3>2 DEF Iloc!Branch, Iloc!At, Iloc!GoTo, Iloc!Exit, Values, Input
    <3> QED BY <3>2, <3>3 DEF Iloc!Next
  <2>3. CASE Condition = 0
    <3>1. UNCHANGED <<st, cpu, mem, inp, out>> /\ m' = 2 /\ pc' = pc
      BY <1>3, <1>6, <2>1, <2>3 DEF Branch, Forward
    <3>2. Cpu' /\ Input' = Input /\ inp' \in Seq(Word)
      BY <3>1, InputStays DEF Cpu
    <3>3. Condition' = Condition
      BY <3>1 DEF Condition, Value, SlotOf
    <3>4. AtLine'
      BY <2>1, <2>3, <3>1, <3>3 DEF AtLine
    <3> QED BY <1>3, <3>1, <3>2, <3>4, GoesOn
  <2> QED BY <2>2, <2>3
<1>7. CASE m = 2
  <2> DEFINE v == cpu["t0"]
  <2>1. /\ mem' = [mem EXCEPT ![SlotOf(s)] = v] /\ m' = 3 /\ pc' = pc
        /\ UNCHANGED <<st, cpu, inp, out>>
    BY <1>2, <1>3, <1>7 DEF StoreWord, Forward, line, sw
  <2>2. v \in Word /\ Condition = 0
    BY <1>7 DEF Cpu, AtLine
  <2>3. mem' \in [Slots -> Word]' /\ Values' = Values
    BY <1>4, <2>1, <2>2, Stores, ValuesStored
  <2>4. Condition' = 0
    <3>1. \A r : r = t => Value(r)' = Value(r)
      BY <1>4, <2>1, <2>2, Stores
    <3> QED BY <2>1, <2>2, <3>1 DEF Condition, Value
  <2>5. Cpu' /\ Input' = Input /\ inp' \in Seq(Word)
    BY <2>1, InputStays DEF Cpu
  <2>6. AtLine'
    BY <2>1, <2>4 DEF AtLine
  <2> QED BY <1>3, <2>1, <2>3, <2>5, <2>6, IsNotSeen
<1>8. CASE m = 3 /\ e # Exit
  <2>1. line.i = "j" /\ GoTo(e) /\ UNCHANGED <<st, cpu, mem, inp, out>> /\ Condition = 0
    BY <1>2, <1>8 DEF Jump, line, j, AtLine
  <2>2. /\ MInv' /\ running' /\ Input' = Input /\ Values' = Values
        /\ UNCHANGED code /\ Iloc!GoTo(e)
    BY <1>4, <1>8, <2>1, Leaves
  <2>3. Iloc!Branch
    BY <1>5, <2>1, <2>2 DEF Iloc!Branch, Iloc!At, Iloc!GoTo, Iloc!Exit, Values, Input
  <2> QED BY <2>2, <2>3 DEF Iloc!Next
<1>9. CASE m = 3 /\ e = Exit
  <2>1. UNCHANGED <<st, mem, inp, out>> /\ m' = 4 /\ pc' = pc /\ Assign("v0", 10) /\ Condition = 0
    BY <1>2, <1>9 DEF LoadImmediate, Forward, line, li, AtLine
  <2>2. Cpu' /\ cpu'["v0"] = 10
    BY <2>1, Assigns
  <2>3. Input' = Input /\ inp' \in Seq(Word)
    BY <2>1, InputStays
  <2>4. Condition' = 0
    BY <2>1 DEF Condition, Value, SlotOf
  <2>5. AtLine'
    BY <2>1, <2>2, <2>4 DEF AtLine
  <2> QED BY <1>2, <1>9, <2>1, <2>2, <2>3, <2>5, GoesOn
<1>10. CASE m = 4
  <2>1. ExitProgram /\ e = Exit /\ Condition = 0
    BY <1>2, <1>3, <1>10 DEF line, syscall, AtLine, ReadInteger, PrintInteger
  <2>2. /\ MInv' /\ running' /\ st' = "exited" /\ Input' = Input /\ Values' = Values
        /\ UNCHANGED <<code, pc, out>>
    BY <2>1, Leaving
  <2>3. Iloc!Branch
    BY <1>5, <2>1, <2>2 DEF Iloc!Branch, Iloc!At, Iloc!GoTo, Iloc!Exit, Exit, Values, Input
  <2> QED BY <2>2, <2>3 DEF Iloc!Next
<1> QED BY <1>3, <1>6, <1>7, <1>8, <1>9, <1>10

LEMMA ExecuteStep ==
    IInv /\ MInv /\ IInv' /\ Execute => MInv' /\ [Iloc!Next]_(Iloc!vars)
<1> SUFFICES ASSUME IInv, MInv, IInv', Execute PROVE MInv' /\ [Iloc!Next]_(Iloc!vars)
  OBVIOUS
<1>1. CASE pc \notin DOMAIN code
  BY <1>1, EndStep
<1>2. CASE pc \in DOMAIN code
  <2>1. code[pc].op \in {"loadI", "i2i", "bin", "readInt", "writeInt", "label", "jumpI", "cbr"}
    BY <1>2, Before DEF Instruction
  <2> QED BY <1>2, <2>1, LoadIStep, CopyStep, OperateStep, ReadStep, WriteStep, LabelStep,
             JumpStep, BranchStep
<1> QED BY <1>1, <1>2

(* The start of the program is that of the ILOC machine.                   *)
LEMMA StartStep ==
    IInv /\ MInv /\ EmitEnd => MInv' /\ [Iloc!Next]_(Iloc!vars)
<1> SUFFICES ASSUME IInv, MInv, EmitEnd PROVE MInv' /\ [Iloc!Next]_(Iloc!vars)
  OBVIOUS
<1>1. MInv' /\ Done /\ running' /\ ~ running /\ IInv'
  BY EndMInv
<1>2. /\ UNCHANGED <<code, reg, k, pc, m, inp, out>> /\ st' = "running" /\ m = 1
      /\ mem' \in [Slots -> Word]'
  BY <1>1 DEF EmitEnd, MInv
<1>3. \A r \in Assigned(code) : SlotOf(r) \in Slots
  BY <1>1, Operands, SlotsDiffer
<1>4. Values' \in [Assigned(code) -> Word]
  BY <1>2, <1>3 DEF Values, Slots, SlotOf
<1>5. Assigned(code) = Iloc!Defined(code) /\ Word = Iloc!Word
  BY DEF Assigned, Iloc!Defined, Word, Iloc!Word
<1>6. Iloc!Start
  BY <1>1, <1>2, <1>4, <1>5 DEF Iloc!Start, Values, ReadNotStored
<1> QED BY <1>1, <1>6 DEF Iloc!Next

LEMMA TranslateStep ==
    IInv /\ MInv /\ (Given(code) \/ Translate) => MInv' /\ [Iloc!Next]_(Iloc!vars)
<1> SUFFICES ASSUME IInv, MInv, Given(code) \/ Translate, ~ EmitEnd
             PROVE  MInv' /\ [Iloc!Next]_(Iloc!vars)
  BY StartStep
<1>1. MInv' /\ ~ running /\ ~ running' /\ UNCHANGED <<machineVars, code>>
  BY TranslateMInv
<1>2. (Iloc!vars)' = Iloc!vars
  BY <1>1 DEF Iloc!vars, ReadNotStored, machineVars
<1> QED BY <1>1, <1>2

LEMMA NextMInv ==
    IInv /\ MInv /\ IInv' /\ [Next]_vars => MInv' /\ [Iloc!Next]_(Iloc!vars)
<1> SUFFICES ASSUME IInv, MInv, IInv', [Next]_vars PROVE MInv' /\ [Iloc!Next]_(Iloc!vars)
  OBVIOUS
<1>1. CASE UNCHANGED vars
  <2>1. MInv'
    BY <1>1 DEF vars, MInv, Cpu, running, Whole, Done, Place, Slots, AtLine, Condition, Value,
                SlotOf, LeaveFor
  <2>2. (Iloc!vars)' = Iloc!vars
    BY <1>1 DEF vars, Iloc!vars, running, ReadNotStored, SlotOf
  <2> QED BY <2>1, <2>2
<1> QED BY <1>1, TranslateStep, ExecuteStep DEF Next

LEMMA IlocInit == Init => Iloc!Init
BY DEF Init, MipsInit, Iloc!Init, running, ReadNotStored

(* For every set of programs, every word size, everything that may be typed *)
(* and that memory may hold: the MIPS program does what the ILOC program    *)
(* does (mips(), Program_ast.java:474-1073): every load, store, operation,  *)
(* jump and system call that it executes is a step of the ILOC machine, or  *)
(* one that it does not see.                                                *)
THEOREM MipsImplementsIloc == Spec => ImplementsIloc
<1>1. IInv /\ MInv /\ IInv' /\ [Next]_vars => MInv' /\ [Iloc!Next]_(Iloc!vars)
  BY NextMInv
<1>2. Init => MInv /\ Iloc!Init
  BY InitMInv, IlocInit
<1>3. Spec => Iloc!Init /\ [][Iloc!Next]_(Iloc!vars)
  BY <1>1, <1>2, Invariance, PTL DEF Spec
<1> QED BY <1>3 DEF ImplementsIloc, Iloc!Spec

-----------------------------------------------------------------------------
(* A program that has been emitted never leaves itself, its frame or the   *)
(* system calls there are.                                                 *)

(* mips() knows what to do with its next instruction, or has done the last. *)
IsTranslated ==
    \/ k = Len(code) + 1
    \/ /\ k \in DOMAIN code
       /\ \/ code[k].op \in {"loadI", "i2i", "readInt", "writeInt", "label", "jumpI", "cbr"}
          \/ code[k].op = "bin" /\ code[k].f \in DOMAIN InstructionFor

(* The next line is there and can be executed: what it loads or stores is  *)
(* in the frame, where it goes there is a label, and the system call is    *)
(* one of the three.                                                       *)
IsExecuted ==
    /\ pc \in DOMAIN MIPS
    /\ m \in 1 .. Len(MIPS[pc])
    /\ line.i \in {"li", "lw", "sw", "add", "operate", "bne", "j", "label", "syscall"}
    /\ line.i \in {"lw", "sw"} => line.a \in DOMAIN mem
    /\ line.i \in {"bne", "j"} =>
         \E n \in DOMAIN code : code[n].op = "label" /\ code[n].l = line.l
    /\ line.i = "syscall" => cpu["v0"] \in {1, 5, 10}

StaysInside ==
    /\ st = "translate" => IsTranslated
    /\ st = "running" => IsExecuted

(* mips() does not go past the end.                                        *)
Within == k \in 1 .. Len(code) + 1

LEMMA NextWithin == IInv /\ Within /\ [Next]_vars => Within'
<1> SUFFICES ASSUME IInv, Within, [Next]_vars PROVE Within'
  OBVIOUS
<1>1. Len(code) \in Nat /\ DOMAIN code = 1 .. Len(code)
  <2>1. code \in Seq(Instruction)
    BY ProgramsAssumption DEF IInv
  <2> QED BY <2>1
<1>2. CASE UNCHANGED <<code, k>>
  BY <1>2 DEF Within
<1>3. CASE k \in DOMAIN code /\ k' = k + 1 /\ code' = code
  BY <1>1, <1>3 DEF Within
<1>4. CASE Execute
  BY <1>2, <1>4, Executes
<1>5. CASE Translate
  BY <1>2, <1>3, <1>5
     DEF Translate, EmitLoadI, EmitWriteInt, EmitReadInt, EmitArithmetic, EmitComparison,
         EmitOperation, EmitI2i, EmitJumpI, EmitLabel, EmitCbr, EmitEnd, Translating, Emit
<1> QED BY <1>2, <1>4, <1>5 DEF Next, Given, mipsVars, vars

LEMMA Translates == IInv /\ Within => (st = "translate" => IsTranslated)
<1> SUFFICES ASSUME IInv, Within, k # Len(code) + 1 PROVE IsTranslated
  BY DEF IsTranslated
<1>1. k \in DOMAIN code /\ code[k] \in Instruction
  <2>1. code \in Seq(Instruction)
    BY ProgramsAssumption DEF IInv
  <2> QED BY <2>1 DEF Within
<1>2. code[k].op = "bin" => code[k].f \in Operators
  BY <1>1 DEF Instruction
<1>3. Operators \subseteq DOMAIN InstructionFor
  BY DEF Operators, InstructionFor
<1> QED BY <1>1, <1>2, <1>3 DEF Instruction, IsTranslated

(* The lines of an instruction and what they may name.                     *)
LineIs(i) ==
    \/ i.i \in {"li", "add", "operate", "label"}
    \/ i.i \in {"lw", "sw"} /\ i.a \in DOMAIN mem
    \/ i.i \in {"bne", "j"} /\ \E n \in DOMAIN code : code[n].op = "label" /\ code[n].l = i.l
    \/ i.i = "syscall" /\ cpu["v0"] \in {1, 5, 10}

LEMMA ExecutesLine ==
    ASSUME IInv, MInv, st = "running"
    PROVE  LineIs(line)
<1>1. /\ Whole /\ Done /\ AtLine /\ mem \in [Slots -> Word]
      /\ pc \in 1 .. Len(code) + 1 /\ m \in 1 .. Len(MIPS[pc])
  BY DEF MInv, running, Whole, Place
<1>2. CASE pc \notin DOMAIN code
  <2>1. pc = Len(code) + 1 /\ MIPS[pc] = <<li("v0", 10), syscall>> /\ m \in {1, 2}
    <3>1. pc = Len(code) + 1 /\ MIPS[pc] = <<li("v0", 10), syscall>>
      BY <1>1, <1>2, LinesAre DEF LeaveFor
    <3> QED BY <1>1, <3>1
  <2>2. m = 2 => cpu["v0"] = 10
    BY <1>1, <2>1 DEF AtLine
  <2> QED BY <2>1, <2>2 DEF LineIs, line, li, syscall
<1>3. CASE pc \in DOMAIN code
  <2> DEFINE i == code[pc]
  <2>1. /\ i \in Instruction
        /\ MIPS[pc] = LinesAt(pc)
        /\ \A l \in TargetsOf(i) \ {Exit} :
             \E n \in DOMAIN code : code[n].op = "label" /\ code[n].l = l
    BY <1>1, <1>3, LinesAre, Operands
  <2>2. /\ TakesSlot(i) => SlotOf(Taker(i)) \in DOMAIN mem
        /\ \A r \in SourcesOf(i) : SlotOf(r) \in DOMAIN mem
    BY <1>1, <1>3, Operands, SlotsDiffer
  <2>3. CASE i.op = "loadI"
    <3>1. MIPS[pc] = <<li("t0", i.v), sw("t0", SlotOf(i.t))>>
      BY <2>1, <2>3 DEF LinesAt
    <3>2. SlotOf(i.t) \in DOMAIN mem
      BY <2>2, <2>3 DEF TakesSlot, Taker
    <3> QED BY <1>1, <3>1, <3>2 DEF LineIs, line, li, sw
  <2>4. CASE i.op = "i2i"
    <3>1. MIPS[pc] = <<lw("t0", SlotOf(i.s)), move("t0", "t0"), sw("t0", SlotOf(i.t))>>
      BY <2>1, <2>4 DEF LinesAt
    <3>2. SlotOf(i.s) \in DOMAIN mem /\ SlotOf(i.t) \in DOMAIN mem
      BY <2>2, <2>4 DEF TakesSlot, Taker, SourcesOf
    <3> QED BY <1>1, <3>1, <3>2 DEF LineIs, line, lw, move, sw
  <2>5. CASE i.op = "bin"
    <3>1. MIPS[pc] = <<lw("t0", SlotOf(i.a)), lw("t1", SlotOf(i.b)),
                       operate(InstructionFor[i.f]), sw("t0", SlotOf(i.t))>>
      BY <2>1, <2>5 DEF LinesAt
    <3>2. /\ SlotOf(i.a) \in DOMAIN mem /\ SlotOf(i.b) \in DOMAIN mem
          /\ SlotOf(i.t) \in DOMAIN mem
      BY <2>2, <2>5 DEF TakesSlot, Taker, SourcesOf
    <3> QED BY <1>1, <3>1, <3>2 DEF LineIs, line, lw, operate, sw
  <2>6. CASE i.op = "readInt"
    <3>1. MIPS[pc] = <<li("v0", 5), syscall, move("t0", "v0"), sw("t0", SlotOf(i.s))>>
      BY <2>1, <2>6 DEF LinesAt
    <3>2. SlotOf(i.s) \in DOMAIN mem
      BY <2>2, <2>6 DEF TakesSlot, Taker
    <3>3. m = 2 => cpu["v0"] = 5
      BY <1>1, <1>3, <2>6 DEF AtLine
    <3> QED BY <1>1, <3>1, <3>2, <3>3 DEF LineIs, line, li, syscall, move, sw
  <2>7. CASE i.op = "writeInt"
    <3>1. MIPS[pc] = <<li("v0", 1), lw("t0", SlotOf(i.s)), move("a0", "t0"), syscall>>
      BY <2>1, <2>7 DEF LinesAt
    <3>2. SlotOf(i.s) \in DOMAIN mem
      BY <2>2, <2>7 DEF SourcesOf
    <3>3. m > 1 => cpu["v0"] = 1
      BY <1>1, <1>3, <2>7 DEF AtLine
    <3> QED BY <1>1, <3>1, <3>2, <3>3 DEF LineIs, line, li, lw, syscall, move
  <2>8. CASE i.op = "label"
    <3>1. MIPS[pc] = <<place>>
      BY <2>1, <2>8 DEF LinesAt
    <3> QED BY <1>1, <3>1 DEF LineIs, line, place
  <2>9. CASE i.op = "jumpI"
    <3>1. MIPS[pc] = LeaveFor(i.l) /\ i.l \in TargetsOf(i)
      BY <2>1, <2>9 DEF LinesAt, TargetsOf
    <3>2. m = 2 => cpu["v0"] = 10
      BY <1>1, <1>3, <2>9 DEF AtLine
    <3>3. CASE i.l = Exit
      BY <1>1, <3>1, <3>2, <3>3 DEF LeaveFor, LineIs, line, li, syscall
    <3>4. CASE i.l # Exit
      BY <1>1, <2>1, <3>1, <3>4 DEF LeaveFor, LineIs, line, j
    <3> QED BY <3>3, <3>4
  <2>10. CASE i.op = "cbr"
    <3>1. MIPS[pc] = CbrAt(i.l, SlotOf(i.s), i.m)
      BY <2>1, <2>10 DEF LinesAt, CbrAt
    <3>2. /\ i.l \in TargetsOf(i) /\ i.m \in TargetsOf(i) /\ i.l # Exit
          /\ SlotOf(i.s) \in DOMAIN mem
      BY <1>1, <1>3, <2>2, <2>10, Operands DEF TargetsOf, TakesSlot, Taker
    <3>3. m = 4 => cpu["v0"] = 10
      BY <1>1, <1>3, <2>10 DEF AtLine
    <3>4. /\ MIPS[pc][1] = bne(i.l) /\ MIPS[pc][2] = sw("t0", SlotOf(i.s))
          /\ i.m = Exit => /\ Len(MIPS[pc]) = 4
                           /\ MIPS[pc][3] = li("v0", 10) /\ MIPS[pc][4] = syscall
          /\ i.m # Exit => Len(MIPS[pc]) = 3 /\ MIPS[pc][3] = j(i.m)
      BY ONLY <3>1, CbrLines
    <3>5. CASE m = 1
      BY <2>1, <3>2, <3>4, <3>5 DEF LineIs, line, bne
    <3>6. CASE m = 2
      BY <3>2, <3>4, <3>6 DEF LineIs, line, sw
    <3>7. CASE m > 2 /\ i.m = Exit
      <4>1. Len(MIPS[pc]) = 4
        BY <3>4, <3>7
      <4>2. m \in 1 .. 4
        BY <1>1, <4>1
      <4>3. m \in {3, 4}
        BY ONLY <3>7, <4>2
      <4> QED BY <3>3, <3>4, <3>7, <4>3 DEF LineIs, line, li, syscall
    <3>8. CASE m > 2 /\ i.m # Exit
      <4>1. Len(MIPS[pc]) = 3
        BY <3>4, <3>8
      <4>2. m \in 1 .. 3
        BY <1>1, <4>1
      <4>3. m = 3
        BY ONLY <3>8, <4>2
      <4> QED BY <2>1, <3>2, <3>4, <3>8, <4>3 DEF LineIs, line, j
    <3>9. m \in Nat /\ m > 0
      <4>1. Len(MIPS[pc]) \in Nat
        BY <3>4
      <4> QED BY <1>1, <4>1
    <3> QED BY <3>5, <3>6, <3>7, <3>8, <3>9
  <2> QED BY <2>1, <2>3, <2>4, <2>5, <2>6, <2>7, <2>8, <2>9, <2>10 DEF Instruction
<1> QED BY <1>2, <1>3

(* For every set of programs: mips() has a translation for every            *)
(* instruction that it comes to, and a program that it emits never runs off *)
(* its end, never jumps where there is no label, never loads or stores      *)
(* outside of the frame, and always has one of the three numbers in $v0     *)
(* when it calls the system (Program_ast.java:474-1073).  It stops only at  *)
(* its exit, at a division by zero, or waiting for input.                   *)
THEOREM ProgramsStayInside == Spec => []StaysInside
<1>1. Init => Within
  <2> SUFFICES ASSUME Init PROVE Within
    OBVIOUS
  <2>1. code \in Seq(Instruction) /\ k = 1
    BY ProgramsAssumption DEF Init, MipsInit
  <2> QED BY <2>1 DEF Within
<1>2. IInv /\ MInv /\ IInv' /\ [Next]_vars => MInv'
  BY NextMInv
<1>3. IInv /\ MInv /\ st = "running" => IsExecuted
  <2> SUFFICES ASSUME IInv, MInv, st = "running" PROVE IsExecuted
    OBVIOUS
  <2>1. pc \in DOMAIN MIPS /\ m \in 1 .. Len(MIPS[pc])
    BY DEF MInv, running, Whole, Place
  <2> QED BY <2>1, ExecutesLine DEF IsExecuted, LineIs
<1>4. IInv /\ Within /\ MInv => StaysInside
  BY <1>3, Translates DEF StaysInside
<1> QED BY <1>1, <1>2, <1>4, InitMInv, NextWithin, Invariance, PTL DEF Spec
=============================================================================
