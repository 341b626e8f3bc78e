----------------------------- MODULE Tl13Mips -----------------------------
(***************************************************************************)
(* mips() of tl13/src/Program_ast.java, which translates an ILOC program   *)
(* into MIPS instructions, and the machine that runs them.                 *)
(*                                                                         *)
(* An ILOC instruction is a record; a register of ILOC is a number, so is  *)
(* a label.  MIPS[n] holds the instructions that the loop of mips() emits  *)
(* for code[n]; the instructions that end the program follow.              *)
(***************************************************************************)
EXTENDS Tl13Word, Sequences

CONSTANTS
    Programs,          \* the ILOC programs given to mips()
    Inputs,            \* what may be typed: sequences of words
    Garbage,           \* what the memory may hold before the program starts
    MaxOut             \* the bound on what is printed

(* An instruction of ILOC; registers and labels are integers. *)
Instruction ==
    [op : {"loadI"}, v : Word, t : Int]
      \cup [op : {"i2i"}, s : Int, t : Int]
      \cup [op : {"bin"}, f : Operators, a : Int, b : Int, t : Int]
      \cup [op : {"readInt", "writeInt"}, s : Int]
      \cup [op : {"label", "jumpI"}, l : Int]
      \cup [op : {"cbr"}, s : Int, l : Int, m : Int]

(* The instructions that give a register a slot, and the register.          *)
TakesSlot(i) == i.op \notin {"label", "jumpI"}
Taker(i) == IF i.op \in {"loadI", "i2i", "bin"} THEN i.t ELSE i.s

SourcesOf(i) ==
    CASE i.op \in {"i2i", "writeInt"} -> {i.s}
      [] i.op = "bin" -> {i.a, i.b}
      [] OTHER -> {}

TakenBefore(c, n) == {Taker(c[o]) : o \in {o \in 1 .. n - 1 : TakesSlot(c[o])}}

(* The registers that are assigned.                                          *)
Assigned(c) ==
    {c[n].t : n \in {n \in DOMAIN c : c[n].op \in {"loadI", "i2i", "bin"}}}
        \cup {c[n].s : n \in {n \in DOMAIN c : c[n].op = "readInt"}}

Exit == -1

TargetsOf(i) ==
    CASE i.op = "jumpI" -> {i.l}
      [] i.op = "cbr" -> {i.l, i.m}
      [] OTHER -> {}

(* What program_iloc generates for a program that is well typed: a register  *)
(* that a loadI or an operation assigns is new, and a source is not; a cbr   *)
(* comes behind what computes its condition, and names a register of its     *)
(* own and a block to go to; where one can go, there is a label.             *)
ASSUME ProgramsAssumption ==
    \A c \in Programs :
        /\ c \in Seq(Instruction)
        /\ \A n \in DOMAIN c :
            /\ c[n].op \in {"loadI", "bin"} => c[n].t \notin TakenBefore(c, n)
            /\ SourcesOf(c[n]) \subseteq TakenBefore(c, n) \cap Assigned(c)
            /\ c[n].op = "cbr" =>
                 /\ n > 1 /\ c[n - 1].op \in {"loadI", "i2i", "bin"}
                 /\ c[n].s \notin Assigned(c)
                 /\ c[n].l # Exit
            /\ \A l \in TargetsOf(c[n]) \ {Exit} :
                 \E o \in DOMAIN c : c[o].op = "label" /\ c[o].l = l

ASSUME ValuesAssumption == Inputs \subseteq Seq(Word) /\ Garbage \subseteq Word

VARIABLES
    code,              \* block.instructions
    st,                \* "idle", "translate", "running", "exited", "trapped"
    k,                 \* the instruction that mips() translates next
    reg,               \* reg: the ILOC registers, in the order of their slots
    offset,            \* offset: the first free slot
    MIPS,              \* MIPS
    pc, m,             \* the instruction executed next is MIPS[pc][m]
    cpu,               \* the registers $t0, $t1, $v0, $a0
    mem,               \* the words at and below $fp
    inp, out           \* what is still to be read, and what has been written

mipsVars == <<k, reg, offset, MIPS>>
machineVars == <<pc, m, cpu, mem, inp, out>>
vars == <<code, st, k, reg, offset, MIPS, pc, m, cpu, mem, inp, out>>

MipsInit ==
    /\ st = "idle"
    /\ k = 1
    /\ reg = <<>>
    /\ offset = 0
    /\ MIPS = <<>>
    /\ pc = 1 /\ m = 1
    /\ cpu = [r \in {"t0", "t1", "v0", "a0"} |-> 0]
    /\ mem = <<>>
    /\ inp \in Inputs
    /\ out = <<>>

Init == code \in Programs /\ MipsInit

(* mips() is called when block.instructions is c. *)
Given(c) ==
    /\ st = "idle"
    /\ code' = c
    /\ st' = "translate"
    /\ UNCHANGED <<mipsVars, machineVars>>

-----------------------------------------------------------------------------
(* The translation. *)

li(r, v) == [i |-> "li", r |-> r, v |-> v]
lw(r, a) == [i |-> "lw", r |-> r, a |-> a]
sw(r, a) == [i |-> "sw", r |-> r, a |-> a]
move(r, s) == [i |-> "add", r |-> r, s |-> s]
operate(f) == [i |-> "operate", f |-> f]
bne(l) == [i |-> "bne", l |-> l]
j(l) == [i |-> "j", l |-> l]
syscall == [i |-> "syscall"]
place == [i |-> "label"]

HasSlot(r) == \E n \in DOMAIN reg : reg[n] = r

(* The first index of r in reg, times -4. *)
SlotOf(r) == -4 * ((CHOOSE n \in DOMAIN reg : reg[n] = r /\ \A o \in 1 .. n - 1 : reg[o] # r) - 1)

(* A source without a slot is taken from slot 0. *)
SourceSlot(r) == IF HasSlot(r) THEN SlotOf(r) ELSE 0

TargetSlot(r) == IF HasSlot(r) THEN SlotOf(r) ELSE offset

Allocate(r) == reg' = Append(reg, r) /\ offset' = offset - 4

AllocateIfNew(r) == IF HasSlot(r) THEN UNCHANGED <<reg, offset>> ELSE Allocate(r)

Translating(op) == st = "translate" /\ k \in DOMAIN code /\ code[k].op = op

Emit(lines) ==
    /\ MIPS' = Append(MIPS, lines)
    /\ k' = k + 1
    /\ UNCHANGED <<code, st, machineVars>>

EmitLoadI ==
    /\ Translating("loadI")
    /\ Emit(<<li("t0", code[k].v), sw("t0", offset)>>)
    /\ Allocate(code[k].t)

EmitWriteInt ==
    /\ Translating("writeInt")
    /\ Emit(<<li("v0", 1), lw("t0", TargetSlot(code[k].s)), move("a0", "t0"), syscall>>)
    /\ AllocateIfNew(code[k].s)

EmitReadInt ==
    /\ Translating("readInt")
    /\ Emit(<<li("v0", 5), syscall, move("t0", "v0"), sw("t0", TargetSlot(code[k].s))>>)
    /\ AllocateIfNew(code[k].s)

(* Mutant: <= is translated as <. *)
InstructionFor_Less ==
    [add |-> "addu", sub |-> "subu", mult |-> "mul", div |-> "divu", mod |-> "rem",
     cmp_EQ |-> "seq", cmp_NE |-> "sne", cmp_LT |-> "slt", cmp_GT |-> "sgt",
     cmp_LE |-> "slt", cmp_GE |-> "sge"]

InstructionFor ==
    [add |-> "addu", sub |-> "subu", mult |-> "mul", div |-> "divu", mod |-> "rem",
     cmp_EQ |-> "seq", cmp_NE |-> "sne", cmp_LT |-> "slt", cmp_GT |-> "sgt",
     cmp_LE |-> "sle", cmp_GE |-> "sge"]

EmitOperation(operators) ==
    /\ Translating("bin")
    /\ code[k].f \in operators
    /\ Emit(<<lw("t0", SourceSlot(code[k].a)), lw("t1", SourceSlot(code[k].b)),
              operate(InstructionFor[code[k].f]), sw("t0", offset)>>)
    /\ Allocate(code[k].t)

EmitArithmetic == EmitOperation({"add", "sub", "mult", "div", "mod"})

EmitComparison == EmitOperation({"cmp_EQ", "cmp_NE", "cmp_LT", "cmp_GT", "cmp_LE", "cmp_GE"})

EmitI2i ==
    /\ Translating("i2i")
    /\ Emit(<<lw("t0", SourceSlot(code[k].s)), move("t0", "t0"), sw("t0", TargetSlot(code[k].t))>>)
    /\ AllocateIfNew(code[k].t)

(* The lines that end the program, or jump to a label. *)
LeaveFor(l) == IF l = Exit THEN <<li("v0", 10), syscall>> ELSE <<j(l)>>

EmitJumpI ==
    /\ Translating("jumpI")
    /\ Emit(LeaveFor(code[k].l))
    /\ UNCHANGED <<reg, offset>>

EmitLabel ==
    /\ Translating("label")
    /\ Emit(<<place>>)
    /\ UNCHANGED <<reg, offset>>

(* Mutant: a slot is named but not taken. *)
EmitCbr_NoSlot ==
    /\ Translating("cbr")
    /\ Emit(<<bne(code[k].l), sw("t0", SourceSlot(code[k].s))>> \o LeaveFor(code[k].m))
    /\ reg' = Append(reg, code[k].s)
    /\ UNCHANGED offset

(* The slot is the first of the register's, which has just got one. *)
EmitCbr ==
    /\ Translating("cbr")
    /\ Emit(<<bne(code[k].l), sw("t0", TargetSlot(code[k].s))>> \o LeaveFor(code[k].m))
    /\ Allocate(code[k].s)

(* The program is printed, assembled and started. *)
EmitEnd ==
    /\ st = "translate"
    /\ k = Len(code) + 1
    /\ MIPS' = Append(MIPS, LeaveFor(Exit))
    /\ st' = "running"
    /\ \E g \in Garbage : mem' = [a \in {-4 * n : n \in 0 .. Len(reg)} |-> g]
    /\ UNCHANGED <<code, k, reg, offset, pc, m, cpu, inp, out>>

Translate ==
    \/ EmitLoadI \/ EmitWriteInt \/ EmitReadInt \/ EmitArithmetic \/ EmitComparison
    \/ EmitI2i \/ EmitJumpI \/ EmitLabel \/ EmitCbr \/ EmitEnd

-----------------------------------------------------------------------------
(* The machine. *)

line == MIPS[pc][m]

Executing(i) == st = "running" /\ line.i = i

Forward ==
    IF m < Len(MIPS[pc]) THEN m' = m + 1 /\ pc' = pc ELSE m' = 1 /\ pc' = pc + 1

Assign(r, v) == cpu' = [cpu EXCEPT ![r] = v]

program == <<code, mipsVars>>

LoadImmediate ==
    /\ Executing("li")
    /\ Assign(line.r, line.v)
    /\ Forward
    /\ UNCHANGED <<program, st, mem, inp, out>>

LoadWord ==
    /\ Executing("lw")
    /\ Assign(line.r, mem[line.a])
    /\ Forward
    /\ UNCHANGED <<program, st, mem, inp, out>>

StoreWord ==
    /\ Executing("sw")
    /\ mem' = [mem EXCEPT ![line.a] = cpu[line.r]]
    /\ Forward
    /\ UNCHANGED <<program, st, cpu, inp, out>>

AddZero ==
    /\ Executing("add")
    /\ Assign(line.r, cpu[line.s])
    /\ Forward
    /\ UNCHANGED <<program, st, mem, inp, out>>

Operate ==
    /\ Executing("operate")
    /\ IF Traps(line.f, cpu["t1"])
         THEN st' = "trapped" /\ UNCHANGED <<cpu, pc, m>>
         ELSE Assign("t0", Alu(line.f, cpu["t0"], cpu["t1"])) /\ Forward /\ UNCHANGED st
    /\ UNCHANGED <<program, mem, inp, out>>

GoTo(l) ==
    /\ pc' = CHOOSE n \in DOMAIN code : code[n].op = "label" /\ code[n].l = l
    /\ m' = 1

Branch ==
    /\ Executing("bne")
    /\ IF cpu["t0"] # 0 THEN GoTo(line.l) ELSE Forward
    /\ UNCHANGED <<program, st, cpu, mem, inp, out>>

Jump ==
    /\ Executing("j")
    /\ GoTo(line.l)
    /\ UNCHANGED <<program, st, cpu, mem, inp, out>>

PassLabel ==
    /\ Executing("label")
    /\ Forward
    /\ UNCHANGED <<program, st, cpu, mem, inp, out>>

ReadInteger ==
    /\ Executing("syscall")
    /\ cpu["v0"] = 5
    /\ inp # <<>>
    /\ Assign("v0", Head(inp))
    /\ inp' = Tail(inp)
    /\ Forward
    /\ UNCHANGED <<program, st, mem, out>>

PrintInteger ==
    /\ Executing("syscall")
    /\ cpu["v0"] = 1
    /\ Len(out) < MaxOut
    /\ out' = Append(out, cpu["a0"])
    /\ Forward
    /\ UNCHANGED <<program, st, cpu, mem, inp>>

ExitProgram ==
    /\ Executing("syscall")
    /\ cpu["v0"] = 10
    /\ st' = "exited"
    /\ UNCHANGED <<program, pc, m, cpu, mem, inp, out>>

Execute ==
    \/ LoadImmediate \/ LoadWord \/ StoreWord \/ AddZero \/ Operate \/ Branch \/ Jump
    \/ PassLabel \/ ReadInteger \/ PrintInteger \/ ExitProgram

Next == Given(code) \/ Translate \/ Execute

Spec == Init /\ [][Next]_vars /\ WF_vars(Translate) /\ WF_vars(Execute)

-----------------------------------------------------------------------------
(* Every register that an instruction reads has its own slot by then: slot 0 *)
(* is never taken for want of another.                                       *)
SourcesHaveSlots ==
    st = "translate" /\ k \in DOMAIN code => \A r \in SourcesOf(code[k]) : HasSlot(r)

(* The address in a load or a store that has been emitted is the slot of its *)
(* register for good: whatever is translated after it, no other register     *)
(* gets that slot and the register gets no other.  (A name that is declared  *)
(* twice has the slot of its first declaration; the other is not used.)      *)
EmittedAt(n) ==
    LET i == code[n]
        slot(p) == MIPS[n][p].a
    IN  /\ i.op = "loadI" /\ i.t \notin TakenBefore(code, n) => slot(2) = SlotOf(i.t)
        /\ i.op = "writeInt" => slot(2) = SlotOf(i.s)
        /\ i.op = "readInt" => slot(4) = SlotOf(i.s)
        /\ i.op = "i2i" => slot(1) = SlotOf(i.s) /\ slot(3) = SlotOf(i.t)
        /\ i.op = "bin" => /\ slot(1) = SlotOf(i.a)
                           /\ slot(2) = SlotOf(i.b)
                           /\ slot(4) = SlotOf(i.t)

EmittedSlots == \A n \in DOMAIN MIPS \cap DOMAIN code : EmittedAt(n)

(* Every register has one slot: what is read has been given it, and what has *)
(* been emitted uses it.                                                     *)
SlotsRight == SourcesHaveSlots /\ EmittedSlots

-----------------------------------------------------------------------------
(* The MIPS program does what the ILOC program does.  A register of ILOC is  *)
(* its slot; a value that has been read is still input for the ILOC program  *)
(* until it is stored.                                                       *)
running == st \notin {"idle", "translate"}

ReadNotStored ==
    running /\ pc \in DOMAIN code /\ code[pc].op = "readInt" /\ m \in {3, 4}

Iloc == INSTANCE IlocMachine WITH
    code <- IF running THEN code ELSE <<>>,
    st <- IF running THEN st ELSE "idle",
    ik <- pc,
    val <- IF running THEN [r \in Assigned(code) |-> mem[SlotOf(r)]] ELSE <<>>,
    inp <- IF ReadNotStored THEN <<cpu["v0"]>> \o inp ELSE inp

ImplementsIloc == Iloc!Spec
=============================================================================
