-------------------------- MODULE PsLibraryProofs --------------------------
(***************************************************************************)
(* Proofs about PsLibrary, for every MaxIndex, every set of quanta and     *)
(* every set of scheduling functions.                                      *)
(***************************************************************************)
EXTENDS PsLibrary, FiniteSetTheorems, TLAPS

USE AlgorithmsAssumption, MaxIndexAssumption, QuantaAssumption

States == {READY, RUNNING, WAITING, DONE}

(* What the counters say about the state of a process, phase by phase.     *)
CountersMatchState ==
    \A p \in Process :
      /\ state[p] \in {WAITING, DONE} => cpuLeft[p] = 0
      /\ state[p] = DONE => ioLeft[p] = 0
      /\ state[p] = READY => cpuLeft[p] > 0
      /\ state[p] = RUNNING /\ pc # "burst" => cpuLeft[p] > 0
      /\ state[p] = WAITING /\ pc \in {"dispatch", "append"} => ioLeft[p] > 0
      /\ state[p] = WAITING /\ pc = "io2" /\ p = 1 => ioLeft[p] > 0

(* At the end of the dispatch phase a process is ready only beside a       *)
(* running one.                                                            *)
CpuGiven ==
    pc = "append" => \A p \in Process : state[p] = READY => state[Other(p)] = RUNNING

IInv ==
    /\ TypeOK
    /\ MutualExclusion
    /\ CountersMatchState
    /\ CpuGiven
    /\ pc = "returned" => Finished
    /\ pc \in {"quantum1", "quantum2"} => alg = "rr"

LEMMA InitIInv == Init => IInv
BY DEF Init, IInv, TypeOK, MutualExclusion, CountersMatchState, CpuGiven, Process, Bursts,
       READY, RUNNING, WAITING, DONE

LEMMA NextIInv == IInv /\ [Next]_vars => IInv'
<1> SUFFICES ASSUME IInv, [Next]_vars PROVE IInv'
  OBVIOUS
<1> USE DEF IInv, TypeOK, MutualExclusion, CountersMatchState, CpuGiven, Process, Other,
        Bursts, READY, RUNNING, WAITING, DONE, Finished
<1>1. ASSUME NEW p \in Process, StartIO(p) PROVE IInv'
  BY <1>1 DEF StartIO, BurstOver, AfterBurst, params
<1>2. ASSUME NEW p \in Process, Exit(p) PROVE IInv'
  BY <1>2 DEF Exit, BurstOver, AfterBurst, params
<1>3. ASSUME NEW p \in Process, QuantumExpires(p) PROVE IInv'
  BY <1>3 DEF QuantumExpires, params
<1>4. ASSUME NEW p \in Process, IOComplete(p) PROVE IInv'
  BY <1>4 DEF IOComplete, Preempts, params
<1>5. ASSUME NEW p \in Process, Dispatch(p) PROVE IInv'
  BY <1>5 DEF Dispatch, Dispatchable, params
<1>6. CASE BurstGoesOn
  BY <1>6 DEF BurstGoesOn, BurstOver, AfterBurst, params
<1>7. CASE NoDispatch
  BY <1>7 DEF NoDispatch, Dispatchable, Preferred, params
<1>8. CASE AppendChars
  BY <1>8 DEF AppendChars, params
<1>9. CASE Return
  BY <1>9 DEF Return, params
<1>10. CASE UNCHANGED vars
  BY <1>10 DEF vars
<1>11. QED
  BY <1>1, <1>2, <1>3, <1>4, <1>5, <1>6, <1>7, <1>8, <1>9, <1>10 DEF Next

LEMMA Invariant == Spec => []IInv
BY InitIInv, NextIInv, PTL DEF Spec

(* The types of all variables of the scheduling functions are kept. *)
THEOREM TypeCorrect == Spec => []TypeOK
<1>1. IInv => TypeOK
  BY DEF IInv
<1>2. QED
  BY <1>1, Invariant, PTL

(* One processor: the two processes are never both in state RUNNING. *)
THEOREM MutualExclusionHolds == Spec => []MutualExclusion
<1>1. IInv => MutualExclusion
  BY DEF IInv
<1>2. QED
  BY <1>1, Invariant, PTL

-----------------------------------------------------------------------------
(* psjf runs the process with the shorter remaining burst. *)

LEMMA NextShortest ==
    IInv /\ ShortestRemainingRuns /\ [Next]_vars => ShortestRemainingRuns'
<1> SUFFICES ASSUME IInv, ShortestRemainingRuns, [Next]_vars, alg' = "psjf",
                    NEW r \in Process, state'[r] = RUNNING, state'[Other(r)] = READY
             PROVE  cpuLeft'[r] <= cpuLeft'[Other(r)]
  BY DEF ShortestRemainingRuns
<1> USE DEF IInv, TypeOK, MutualExclusion, CountersMatchState, ShortestRemainingRuns, Process,
        Other, Bursts, READY, RUNNING, WAITING, DONE
<1>1. ASSUME NEW p \in Process, StartIO(p) PROVE cpuLeft'[r] <= cpuLeft'[Other(r)]
  BY <1>1 DEF StartIO, params
<1>2. ASSUME NEW p \in Process, Exit(p) PROVE cpuLeft'[r] <= cpuLeft'[Other(r)]
  BY <1>2 DEF Exit, params
<1>3. ASSUME NEW p \in Process, QuantumExpires(p) PROVE cpuLeft'[r] <= cpuLeft'[Other(r)]
  BY <1>3 DEF QuantumExpires, params
<1>4. ASSUME NEW p \in Process, IOComplete(p) PROVE cpuLeft'[r] <= cpuLeft'[Other(r)]
  BY <1>4 DEF IOComplete, Preempts, params
<1>5. ASSUME NEW p \in Process, Dispatch(p) PROVE cpuLeft'[r] <= cpuLeft'[Other(r)]
  BY <1>5 DEF Dispatch, Dispatchable, Preferred, params
<1>6. CASE BurstGoesOn
  BY <1>6 DEF BurstGoesOn, params
<1>7. CASE NoDispatch
  BY <1>7 DEF NoDispatch, params
<1>8. CASE AppendChars
  BY <1>8 DEF AppendChars, params
<1>9. CASE Return
  BY <1>9 DEF Return, params
<1>10. CASE UNCHANGED vars
  BY <1>10 DEF vars
<1>11. QED
  BY <1>1, <1>2, <1>3, <1>4, <1>5, <1>6, <1>7, <1>8, <1>9, <1>10 DEF Next

(* psjf never lets the longer of two remaining bursts run. *)
THEOREM ShortestRemaining == Spec => []ShortestRemainingRuns
<1>1. Init => ShortestRemainingRuns
  BY DEF Init, ShortestRemainingRuns, READY, RUNNING
<1>2. QED
  BY <1>1, Invariant, NextShortest, PTL DEF Spec

-----------------------------------------------------------------------------
(* The buffers are large enough.                                           *)

(* All that is still to be done by p: CPU and I/O time. *)
ToCome(p) == CpuToCome(p) + ioLeft[p]

Asked(p) == x[p] + y[p] + z[p]

(* Every unit of time takes at least one unit off what is to come, and the *)
(* unit in which the first I/O begins takes off two: the other process     *)
(* computes (or does I/O) meanwhile.                                       *)
TimeBound ==
    \/ Finished /\ pc \in {"burst", "returned"}
    \/ /\ i + ToCome(1) + ToCome(2) <= Asked(1) + Asked(2)
       /\ \/ ioLeft[1] = y[1] /\ ioLeft[2] = y[2]
          \/ i + ToCome(1) + ToCome(2) < Asked(1) + Asked(2)

SpaceInv == EnoughSpace /\ TimeBound

LEMMA InitSpace == Init => SpaceInv
BY DEF Init, SpaceInv, EnoughSpace, TimeBound, ToCome, CpuToCome, Asked, MAX_SIZE, Process,
       Bursts, READY, WAITING

(* There is a free cell whenever a character is stored. *)
LEMMA RoomForOne ==
    ASSUME IInv, SpaceInv, NEW p \in Process,
           \/ pc = "append"
           \/ pc = "burst" /\ state[p] # DONE /\ ioLeft[p] = 0
    PROVE  i < MAX_SIZE
<1>1. \A q \in Process : /\ cpuLeft[q] \in Nat /\ ioLeft[q] \in Nat
                         /\ x[q] \in Bursts /\ y[q] \in Bursts /\ z[q] \in Bursts
                         /\ CpuToCome(q) >= cpuLeft[q] /\ CpuToCome(q) \in Nat
  BY DEF IInv, TypeOK, Process, Bursts, CpuToCome
<1>2. \/ i + ToCome(1) + ToCome(2) < Asked(1) + Asked(2)
      \/ ToCome(1) + ToCome(2) > 0 /\ i + ToCome(1) + ToCome(2) <= Asked(1) + Asked(2)
  BY <1>1 DEF IInv, SpaceInv, TimeBound, CountersMatchState, TypeOK, ToCome, Process, Finished,
              Bursts, READY, RUNNING, WAITING, DONE
<1>3. i < Asked(1) + Asked(2)
  BY <1>1, <1>2 DEF ToCome, Asked, Process, Bursts, IInv, TypeOK
<1>4. QED
  BY <1>1, <1>3 DEF Asked, MAX_SIZE, Process, Bursts, IInv, TypeOK

LEMMA NextTimeBound == IInv /\ TimeBound /\ [Next]_vars => TimeBound'
<1> SUFFICES ASSUME IInv, TimeBound, [Next]_vars PROVE TimeBound'
  OBVIOUS
<1> USE DEF IInv, TypeOK, MutualExclusion, CountersMatchState, CpuGiven, TimeBound, Finished,
        ToCome, CpuToCome, Asked, Process, Other, Bursts, READY, RUNNING, WAITING, DONE
<1>1. ASSUME NEW p \in Process, StartIO(p) PROVE TimeBound'
  BY <1>1 DEF StartIO, BurstOver, AfterBurst, params
<1>2. ASSUME NEW p \in Process, Exit(p) PROVE TimeBound'
  BY <1>2 DEF Exit, BurstOver, AfterBurst, params
<1>3. ASSUME NEW p \in Process, QuantumExpires(p) PROVE TimeBound'
  BY <1>3 DEF QuantumExpires, params
<1>4. ASSUME NEW p \in Process, IOComplete(p) PROVE TimeBound'
  BY <1>4 DEF IOComplete, Preempts, params
<1>5. ASSUME NEW p \in Process, Dispatch(p) PROVE TimeBound'
  BY <1>5 DEF Dispatch, Dispatchable, params
<1>6. CASE BurstGoesOn
  BY <1>6 DEF BurstGoesOn, AfterBurst, params
<1>7. CASE NoDispatch
  BY <1>7 DEF NoDispatch, params
<1>8. CASE AppendChars
  BY <1>8 DEF AppendChars, params
<1>9. CASE Return
  BY <1>9 DEF Return, params
<1>10. CASE UNCHANGED vars
  BY <1>10 DEF vars
<1>11. QED
  BY <1>1, <1>2, <1>3, <1>4, <1>5, <1>6, <1>7, <1>8, <1>9, <1>10 DEF Next

LEMMA StoreInside ==
    ASSUME NEW buf, NEW k \in DOMAIN buf, NEW c
    PROVE  DOMAIN Store(buf, k, c) = DOMAIN buf
BY DEF Store

LEMMA NextSpace == IInv /\ SpaceInv /\ [Next]_vars => SpaceInv'
<1> SUFFICES ASSUME IInv, SpaceInv, [Next]_vars PROVE SpaceInv'
  OBVIOUS
<1>1. TimeBound'
  BY NextTimeBound DEF SpaceInv
<1>2. CASE AppendChars
  <2>1. i < MAX_SIZE /\ i \in Nat /\ MAX_SIZE \in Nat
    BY <1>2, RoomForOne DEF AppendChars, Process, IInv, TypeOK, MAX_SIZE
  <2>2. \A r \in Process : i \in DOMAIN s[r]
    BY <2>1 DEF SpaceInv, EnoughSpace
  <2>3. \A r \in Process : s'[r] = s[r] \/ s'[r] = Store(s[r], i, stateChars[state[r]])
    BY <1>2 DEF AppendChars
  <2>4. \A r \in Process : DOMAIN s'[r] = 0 .. MAX_SIZE - 1
    BY <2>2, <2>3, StoreInside DEF SpaceInv, EnoughSpace
  <2>5. i' <= MAX_SIZE'
    BY <1>2, <2>1 DEF AppendChars, MAX_SIZE
  <2>6. QED
    BY <1>1, <2>4, <2>5 DEF SpaceInv, EnoughSpace, MAX_SIZE
<1>3. ASSUME NEW p \in Process, Exit(p) PROVE SpaceInv'
  <2>1. i < MAX_SIZE /\ i \in Nat /\ MAX_SIZE \in Nat
    BY <1>3, RoomForOne DEF Exit, BurstOver, RUNNING, DONE, IInv, TypeOK, MAX_SIZE
  <2>2. \A r \in Process : i \in DOMAIN s[r]
    BY <2>1 DEF SpaceInv, EnoughSpace
  <2>3. \A r \in Process : s'[r] = s[r] \/ s'[r] = Store(s[r], i, stateChars[DONE])
    BY <1>3 DEF Exit, IInv, TypeOK
  <2>4. \A r \in Process : DOMAIN s'[r] = 0 .. MAX_SIZE - 1
    BY <2>2, <2>3, StoreInside DEF SpaceInv, EnoughSpace
  <2>5. i' <= MAX_SIZE'
    BY <1>3, <2>1 DEF Exit, MAX_SIZE
  <2>6. QED
    BY <1>1, <2>4, <2>5 DEF SpaceInv, EnoughSpace, MAX_SIZE
<1>4. CASE UNCHANGED <<i, s>>
  BY <1>1, <1>4 DEF SpaceInv, EnoughSpace, MAX_SIZE
<1>5. AppendChars \/ (\E p \in Process : Exit(p)) \/ UNCHANGED <<i, s>>
  BY DEF Next, vars, StartIO, QuantumExpires, IOComplete, Dispatch, BurstGoesOn, NoDispatch,
         Return
<1>6. QED
  BY <1>2, <1>3, <1>4, <1>5

LEMMA SpaceInvariant == Spec => []SpaceInv
BY Invariant, InitSpace, NextSpace, PTL DEF Spec

(* No store goes past the end of s1 or s2: MAX_SIZE bytes are enough for    *)
(* all burst lengths up to MAX_INDEX, the terminators included, and the     *)
(* loop ends within MAX_SIZE iterations.                                    *)
THEOREM SpaceIsEnough == Spec => []EnoughSpace
<1>1. SpaceInv => EnoughSpace
  BY DEF SpaceInv
<1>2. QED
  BY <1>1, SpaceInvariant, PTL

-----------------------------------------------------------------------------
(* What has been recorded.                                                 *)

(* A step leaves the recorded prefix of both strings as it is, and only     *)
(* AppendChars makes it longer.                                             *)
LEMMA PrefixKept ==
    ASSUME IInv, SpaceInv, [Next]_vars, NEW r \in Process, NEW k \in 0 .. i - 1
    PROVE  s'[r][k] = s[r][k]
<1>1. k \in DOMAIN s[r] /\ k # i
  BY DEF IInv, TypeOK, SpaceInv, EnoughSpace, MAX_SIZE
<1>2. CASE AppendChars
  BY <1>1, <1>2 DEF AppendChars, Store
<1>3. ASSUME NEW p \in Process, Exit(p) PROVE s'[r][k] = s[r][k]
  <2>1. s'[r] = s[r] \/ s'[r] = Store(s[r], i, stateChars[DONE])
    BY <1>3 DEF Exit, IInv, TypeOK
  <2>2. QED
    BY <1>1, <2>1 DEF Store
<1>4. CASE UNCHANGED s
  BY <1>4
<1>5. QED
  BY <1>2, <1>3, <1>4 DEF Next, vars, StartIO, QuantumExpires, IOComplete, Dispatch, BurstGoesOn,
                          NoDispatch, Return

LEMMA TimeAdvances == [Next]_vars => AppendChars \/ (i' = i /\ x' = x /\ y' = y /\ z' = z)
BY DEF Next, vars, params, StartIO, Exit, QuantumExpires, IOComplete, Dispatch, BurstGoesOn,
       NoDispatch, Return

(* The characters AppendChars records. *)
LEMMA AppendedChar ==
    ASSUME IInv, AppendChars, NEW r \in Process
    PROVE  /\ state[r] # DONE => s'[r][i] = stateChars[state[r]]
           /\ state[r] = DONE => s'[r] = s[r]
BY DEF IInv, TypeOK, AppendChars, Store

(* Nothing but Exit makes a process done, and nothing makes it undone. *)
LEMMA DoneByExit ==
    ASSUME IInv, [Next]_vars, NEW p \in Process
    PROVE  /\ state[p] = DONE => state'[p] = DONE
           /\ state'[p] = DONE => state[p] = DONE \/ Exit(p)
<1> DEFINE Goal == /\ state[p] = DONE => state'[p] = DONE
                   /\ state'[p] = DONE => state[p] = DONE \/ Exit(p)
<1> USE DEF IInv, TypeOK, CountersMatchState, Process, Other, Bursts, READY, RUNNING, WAITING, DONE
<1>1. ASSUME NEW q \in Process, StartIO(q) PROVE Goal
  BY <1>1 DEF StartIO, BurstOver
<1>2. ASSUME NEW q \in Process, Exit(q) PROVE Goal
  <2>1. state' = [state EXCEPT ![q] = DONE]
    BY <1>2 DEF Exit
  <2>2. QED
    BY <1>2, <2>1
<1>3. ASSUME NEW q \in Process, QuantumExpires(q) PROVE Goal
  BY <1>3 DEF QuantumExpires
<1>4. ASSUME NEW q \in Process, IOComplete(q) PROVE Goal
  BY <1>4 DEF IOComplete, Preempts
<1>5. ASSUME NEW q \in Process, Dispatch(q) PROVE Goal
  BY <1>5 DEF Dispatch, Dispatchable
<1>6. CASE UNCHANGED state
  BY <1>6
<1>7. QED
  BY <1>1, <1>2, <1>3, <1>4, <1>5, <1>6
     DEF Next, vars, BurstGoesOn, NoDispatch, AppendChars, Return

(* Only StartIO begins to wait, and what waits goes on when its I/O is over. *)
LEMMA WaitsByStart ==
    ASSUME IInv, [Next]_vars, NEW p \in Process
    PROVE  /\ state'[p] = WAITING => state[p] = WAITING \/ StartIO(p)
           /\ state[p] = WAITING => state'[p] = WAITING \/ ioLeft[p] = 0
<1> DEFINE Goal == /\ state'[p] = WAITING => state[p] = WAITING \/ StartIO(p)
                   /\ state[p] = WAITING => state'[p] = WAITING \/ ioLeft[p] = 0
<1> USE DEF IInv, TypeOK, CountersMatchState, Process, Other, Bursts, READY, RUNNING, WAITING, DONE
<1>1. ASSUME NEW q \in Process, StartIO(q) PROVE Goal
  <2>1. state' = [state EXCEPT ![q] = WAITING] /\ state[q] = RUNNING
    BY <1>1 DEF StartIO, BurstOver
  <2>2. QED
    BY <1>1, <2>1
<1>2. ASSUME NEW q \in Process, Exit(q) PROVE Goal
  BY <1>2 DEF Exit, BurstOver
<1>3. ASSUME NEW q \in Process, QuantumExpires(q) PROVE Goal
  BY <1>3 DEF QuantumExpires
<1>4. ASSUME NEW q \in Process, IOComplete(q) PROVE Goal
  BY <1>4 DEF IOComplete, Preempts
<1>5. ASSUME NEW q \in Process, Dispatch(q) PROVE Goal
  BY <1>5 DEF Dispatch, Dispatchable
<1>6. CASE UNCHANGED state
  BY <1>6
<1>7. QED
  BY <1>1, <1>2, <1>3, <1>4, <1>5, <1>6
     DEF Next, vars, BurstGoesOn, NoDispatch, AppendChars, Return

(* A process that is done stays done, and what was recorded stays. *)
THEOREM DoneStaysDone == Spec => DoneIsFinal
<1>1. ASSUME IInv, SpaceInv, [Next]_vars
      PROVE  [\A p \in Process :
                state[p] = DONE => /\ state'[p] = DONE
                                   /\ \A k \in 0 .. i - 1 : s'[p][k] = s[p][k]]_vars
  BY <1>1, DoneByExit, PrefixKept
<1>2. QED
  BY <1>1, Invariant, SpaceInvariant, PTL DEF Spec, DoneIsFinal

(* From cell i on nothing has been recorded yet: fill and terminators only. *)
Blank ==
    \A p \in Process : \A k \in i .. MAX_SIZE - 1 : s[p][k] \notin {"r", "R", "w"}

TraceInv == IInv /\ SpaceInv /\ Blank

LEMMA NextBlank == TraceInv /\ [Next]_vars => Blank'
<1> SUFFICES ASSUME TraceInv, [Next]_vars,
                    NEW r \in Process, NEW k \in i' .. MAX_SIZE - 1
             PROVE  s'[r][k] \notin {"r", "R", "w"}
  BY DEF Blank, MAX_SIZE
<1>1. /\ k \in DOMAIN s[r]
      /\ i' \in {i, i + 1} /\ i \in Nat /\ k \in i .. MAX_SIZE - 1
      /\ s[r][k] \notin {"r", "R", "w"}
  <2>1. i' \in {i, i + 1} /\ i \in Nat /\ MAX_SIZE \in Int
    BY TimeAdvances DEF AppendChars, TraceInv, IInv, TypeOK, MAX_SIZE
  <2>2. k \in i .. MAX_SIZE - 1 /\ k \in 0 .. MAX_SIZE - 1
    BY <2>1
  <2>3. QED
    BY <2>1, <2>2 DEF TraceInv, SpaceInv, EnoughSpace, Blank
<1>2. CASE AppendChars
  <2>1. k # i /\ k \in i .. MAX_SIZE - 1
    BY <1>1, <1>2 DEF AppendChars
  <2>2. s'[r][k] = s[r][k]
    BY <1>1, <1>2, <2>1 DEF AppendChars, Store
  <2>3. QED
    BY <1>1, <2>2
<1>3. ASSUME NEW p \in Process, Exit(p) PROVE s'[r][k] \notin {"r", "R", "w"}
  <2>1. s'[r] = s[r] \/ s'[r] = Store(s[r], i, NUL)
    BY <1>3 DEF Exit, TraceInv, IInv, TypeOK, stateChars, DONE, READY, RUNNING, WAITING
  <2>2. s'[r][k] = s[r][k] \/ s'[r][k] = NUL
    BY <1>1, <2>1 DEF Store
  <2>3. QED
    BY <1>1, <2>2 DEF NUL
<1>4. CASE UNCHANGED s
  BY <1>1, <1>4
<1>5. QED
  BY <1>2, <1>3, <1>4 DEF Next, vars, StartIO, QuantumExpires, IOComplete, Dispatch, BurstGoesOn,
                          NoDispatch, Return

LEMMA TraceInvariant == Spec => []TraceInv
<1>1. Init => Blank
  BY DEF Init, Blank, MAX_SIZE
<1>2. IInv /\ SpaceInv /\ Blank /\ [Next]_vars => Blank'
  BY NextBlank DEF TraceInv
<1>3. IInv /\ SpaceInv /\ Blank <=> TraceInv
  BY DEF TraceInv
<1>4. QED
  BY <1>1, <1>2, <1>3, Invariant, SpaceInvariant, PTL DEF Spec

(* One unit of time writes exactly the character of the state each process  *)
(* is in at the end of the dispatch phase.                                  *)
LEMMA RecordedAtI ==
    ASSUME TraceInv, AppendChars, NEW r \in Process
    PROVE  /\ s'[r][i] = "R" <=> state[r] = RUNNING
           /\ s'[r][i] = "r" <=> state[r] = READY
           /\ s'[r][i] = "w" <=> state[r] = WAITING
<1>1. state[r] \in {READY, RUNNING, WAITING, DONE}
  BY DEF TraceInv, IInv, TypeOK
<1>2. CASE state[r] = DONE
  <2>1. i \in i .. MAX_SIZE - 1
    BY RoomForOne DEF AppendChars, TraceInv, IInv, TypeOK, MAX_SIZE
  <2>2. s'[r][i] \notin {"r", "R", "w"}
    BY <1>2, <2>1, AppendedChar DEF TraceInv, Blank
  <2>3. QED
    BY <1>2, <2>2 DEF READY, RUNNING, WAITING, DONE
<1>3. CASE state[r] # DONE
  <2>1. s'[r][i] = stateChars[state[r]]
    BY <1>3, AppendedChar DEF TraceInv
  <2>2. QED
    BY <1>1, <1>3, <2>1 DEF stateChars, READY, RUNNING, WAITING, DONE
<1>4. QED
  BY <1>2, <1>3

LEMMA NextWaits == TraceInv /\ WaitsOnlyForCpu /\ [Next]_vars => WaitsOnlyForCpu'
<1> SUFFICES ASSUME TraceInv, WaitsOnlyForCpu, [Next]_vars,
                    NEW p \in Process, NEW k \in 0 .. i' - 1, s'[p][k] = "r"
             PROVE  s'[Other(p)][k] = "R"
  BY DEF WaitsOnlyForCpu
<1>1. i \in Nat /\ Other(p) \in Process
  BY DEF TraceInv, IInv, TypeOK, Process, Other
<1>2. CASE k \in 0 .. i - 1
  <2>1. s'[p][k] = s[p][k] /\ s'[Other(p)][k] = s[Other(p)][k]
    BY <1>1, <1>2, PrefixKept DEF TraceInv
  <2>2. QED
    BY <1>2, <2>1 DEF WaitsOnlyForCpu
<1>3. CASE k \notin 0 .. i - 1
  <2>1. AppendChars /\ k = i
    BY <1>1, <1>3, TimeAdvances DEF AppendChars
  <2>2. state[p] = READY
    BY <2>1, RecordedAtI
  <2>3. state[Other(p)] = RUNNING
    BY <2>1, <2>2 DEF AppendChars, TraceInv, IInv, CpuGiven
  <2>4. QED
    BY <1>1, <2>1, <2>3, RecordedAtI
<1>4. QED
  BY <1>2, <1>3

(* A process is recorded as ready only in units of time in which the other  *)
(* one computes, whichever function schedules them.                         *)
THEOREM NeverIdle == Spec => []WaitsOnlyForCpu
<1>1. Init => WaitsOnlyForCpu
  BY DEF Init, WaitsOnlyForCpu
<1>2. QED
  BY <1>1, NextWaits, TraceInvariant, PTL DEF Spec

-----------------------------------------------------------------------------
(* Burst accounting.                                                       *)

LEMMA OccurrencesFinite ==
    ASSUME NEW buf, NEW n \in Nat, NEW c
    PROVE  IsFiniteSet(Occurrences(buf, n, c)) /\ Cardinality(Occurrences(buf, n, c)) \in Nat
<1>1. IsFiniteSet(0 .. n - 1)
  BY FS_Interval
<1>2. Occurrences(buf, n, c) \subseteq 0 .. n - 1
  BY DEF Occurrences
<1>3. QED
  BY <1>1, <1>2, FS_Subset, FS_CardinalityType

SamePrefix(old, new, n) == \A k \in 0 .. n - 1 : new[k] = old[k]

(* One more cell is one more occurrence, or none. *)
LEMMA OccurrencesGrow ==
    ASSUME NEW old, NEW new, NEW n \in Nat, NEW c,
           SamePrefix(old, new, n)
    PROVE  Cardinality(Occurrences(new, n + 1, c))
             = Cardinality(Occurrences(old, n, c)) + (IF new[n] = c THEN 1 ELSE 0)
<1>1. /\ IsFiniteSet(Occurrences(old, n, c))
      /\ Cardinality(Occurrences(old, n, c)) \in Nat
      /\ n \notin Occurrences(old, n, c)
  <2>1. n \notin Occurrences(old, n, c)
    BY DEF Occurrences
  <2>2. QED
    BY <2>1, OccurrencesFinite
<1>2. CASE new[n] = c
  <2>1. Occurrences(new, n + 1, c) = Occurrences(old, n, c) \cup {n}
    BY <1>2 DEF Occurrences, SamePrefix
  <2>2. QED
    BY <1>1, <1>2, <2>1, FS_AddElement
<1>3. CASE new[n] # c
  <2>1. Occurrences(new, n + 1, c) = Occurrences(old, n, c)
    BY <1>3 DEF Occurrences, SamePrefix
  <2>2. QED
    BY <1>1, <1>3, <2>1
<1>4. QED
  BY <1>2, <1>3

LEMMA OccurrencesKept ==
    ASSUME NEW old, NEW new, NEW n \in Nat, NEW c,
           SamePrefix(old, new, n)
    PROVE  Occurrences(new, n, c) = Occurrences(old, n, c)
BY DEF Occurrences, SamePrefix

(* The phases other than AppendChars leave what is to come as it is. *)
LEMMA ToComeKept ==
    ASSUME IInv, [Next]_vars, ~ AppendChars, NEW r \in Process
    PROVE  CpuToCome(r)' = CpuToCome(r) /\ ioLeft'[r] = ioLeft[r]
<1> USE DEF IInv, TypeOK, MutualExclusion, CountersMatchState, CpuToCome, Process, Other,
        Bursts, READY, RUNNING, WAITING, DONE
<1>1. ASSUME NEW p \in Process, StartIO(p) PROVE CpuToCome(r)' = CpuToCome(r) /\ ioLeft' = ioLeft
  BY <1>1 DEF StartIO, BurstOver, params
<1>2. ASSUME NEW p \in Process, Exit(p) PROVE CpuToCome(r)' = CpuToCome(r) /\ ioLeft' = ioLeft
  BY <1>2 DEF Exit, BurstOver, params
<1>3. ASSUME NEW p \in Process, QuantumExpires(p)
      PROVE  CpuToCome(r)' = CpuToCome(r) /\ ioLeft' = ioLeft
  BY <1>3 DEF QuantumExpires, params
<1>4. ASSUME NEW p \in Process, IOComplete(p)
      PROVE  CpuToCome(r)' = CpuToCome(r) /\ ioLeft' = ioLeft
  BY <1>4 DEF IOComplete, Preempts, params
<1>5. ASSUME NEW p \in Process, Dispatch(p) PROVE CpuToCome(r)' = CpuToCome(r) /\ ioLeft' = ioLeft
  BY <1>5 DEF Dispatch, Dispatchable, params
<1>6. CASE BurstGoesOn \/ NoDispatch \/ Return \/ UNCHANGED vars
  BY <1>6 DEF BurstGoesOn, NoDispatch, Return, vars, params
<1>7. QED
  BY <1>1, <1>2, <1>3, <1>4, <1>5, <1>6 DEF Next

(* A unit of time takes one from the counter of what it recorded. *)
LEMMA ToComeCounted ==
    ASSUME IInv, AppendChars, NEW r \in Process
    PROVE  /\ CpuToCome(r) \in Nat
           /\ ioLeft[r] \in Nat
           /\ CpuToCome(r)' = CpuToCome(r) - (IF state[r] = RUNNING THEN 1 ELSE 0)
           /\ ioLeft'[r] = ioLeft[r] - (IF state[r] = WAITING THEN 1 ELSE 0)
BY DEF AppendChars, params, CpuToCome, IInv, TypeOK, CountersMatchState, Process, Bursts,
       READY, RUNNING, WAITING, DONE

LEMMA NextAccounted == TraceInv /\ BurstsAccounted /\ [Next]_vars => BurstsAccounted'
<1> SUFFICES ASSUME TraceInv, BurstsAccounted, [Next]_vars, NEW p \in Process
             PROVE  /\ Cardinality(Occurrences(s'[p], i', "R")) + CpuToCome(p)' = x'[p] + z'[p]
                    /\ Cardinality(Occurrences(s'[p], i', "w")) + ioLeft'[p] = y'[p]
  BY DEF BurstsAccounted
<1> DEFINE Ran == Cardinality(Occurrences(s[p], i, "R"))
           Waited == Cardinality(Occurrences(s[p], i, "w"))
<1>1. /\ Ran + CpuToCome(p) = x[p] + z[p]
      /\ Waited + ioLeft[p] = y[p]
  BY DEF BurstsAccounted
<1>2. i \in Nat /\ Ran \in Nat /\ Waited \in Nat
  BY OccurrencesFinite DEF TraceInv, IInv, TypeOK
<1>3. SamePrefix(s[p], s'[p], i)
  BY PrefixKept DEF TraceInv, SamePrefix
<1>4. CASE AppendChars
  <2>1. i' = i + 1 /\ x' = x /\ y' = y /\ z' = z
    BY <1>4 DEF AppendChars, params
  <2>0. (s'[p][i] = "R" <=> state[p] = RUNNING) /\ (s'[p][i] = "w" <=> state[p] = WAITING)
    BY <1>4, RecordedAtI
  <2>2. Cardinality(Occurrences(s'[p], i + 1, "R")) = Ran + (IF state[p] = RUNNING THEN 1 ELSE 0)
    <3>1. Cardinality(Occurrences(s'[p], i + 1, "R"))
            = Cardinality(Occurrences(s[p], i, "R")) + (IF s'[p][i] = "R" THEN 1 ELSE 0)
      BY <1>2, <1>3, OccurrencesGrow
    <3>2. QED
      BY <3>1, <2>0
  <2>3. Cardinality(Occurrences(s'[p], i + 1, "w")) = Waited + (IF state[p] = WAITING THEN 1 ELSE 0)
    <3>1. Cardinality(Occurrences(s'[p], i + 1, "w"))
            = Cardinality(Occurrences(s[p], i, "w")) + (IF s'[p][i] = "w" THEN 1 ELSE 0)
      BY <1>2, <1>3, OccurrencesGrow
    <3>2. QED
      BY <3>1, <2>0
  <2>4. /\ CpuToCome(p) \in Nat
        /\ ioLeft[p] \in Nat
        /\ CpuToCome(p)' = CpuToCome(p) - (IF state[p] = RUNNING THEN 1 ELSE 0)
        /\ ioLeft'[p] = ioLeft[p] - (IF state[p] = WAITING THEN 1 ELSE 0)
    BY <1>4, ToComeCounted DEF TraceInv
  <2>5. Cardinality(Occurrences(s'[p], i', "R")) + CpuToCome(p)' = x'[p] + z'[p]
    BY <1>1, <1>2, <2>1, <2>2, <2>4
  <2>6. Cardinality(Occurrences(s'[p], i', "w")) + ioLeft'[p] = y'[p]
    BY <1>1, <1>2, <2>1, <2>3, <2>4
  <2>7. QED
    BY <2>5, <2>6
<1>5. CASE ~ AppendChars
  <2>1. i' = i /\ x' = x /\ y' = y /\ z' = z
    BY <1>5, TimeAdvances
  <2>2. CpuToCome(p)' = CpuToCome(p) /\ ioLeft'[p] = ioLeft[p]
    BY <1>5, ToComeKept DEF TraceInv
  <2>3. /\ Occurrences(s'[p], i, "R") = Occurrences(s[p], i, "R")
        /\ Occurrences(s'[p], i, "w") = Occurrences(s[p], i, "w")
    BY <1>2, <1>3, OccurrencesKept
  <2>4. QED
    BY <1>1, <2>1, <2>2, <2>3
<1>6. QED
  BY <1>4, <1>5

(* No unit of a burst is lost or counted twice: at every moment what has    *)
(* been recorded and what is to come make up the caller's burst lengths.    *)
THEOREM BurstAccounting == Spec => []BurstsAccounted
<1>1. ASSUME Init, NEW p \in Process
      PROVE  /\ Cardinality(Occurrences(s[p], i, "R")) + CpuToCome(p) = x[p] + z[p]
             /\ Cardinality(Occurrences(s[p], i, "w")) + ioLeft[p] = y[p]
  <2>1. Occurrences(s[p], i, "R") = {} /\ Occurrences(s[p], i, "w") = {}
    BY <1>1 DEF Init, Occurrences
  <2>2. Cardinality({}) = 0
    BY FS_EmptySet
  <2>3. Cardinality(Occurrences(s[p], i, "R")) = 0 /\ Cardinality(Occurrences(s[p], i, "w")) = 0
    BY <2>1, <2>2
  <2>4. CpuToCome(p) = x[p] + z[p] /\ ioLeft[p] = y[p] /\ y[p] \in Nat /\ x[p] + z[p] \in Nat
    BY <1>1 DEF Init, CpuToCome, Process, Bursts, READY, WAITING
  <2>5. QED
    BY <2>3, <2>4
<1>2. Init => BurstsAccounted
  BY <1>1 DEF BurstsAccounted
<1>3. QED
  BY <1>2, NextAccounted, TraceInvariant, PTL DEF Spec

-----------------------------------------------------------------------------
(* fcfs and sjf do not preempt.                                            *)

(* A process that computed in the last unit of time still does, or has       *)
(* begun an I/O burst that is not over, or is done.                          *)
KeepsCpu ==
    alg \in {"fcfs", "sjf"} =>
      \A p \in Process :
        i > 0 /\ s[p][i - 1] = "R" =>
          \/ state[p] \in {RUNNING, DONE}
          \/ state[p] = WAITING /\ ioLeft[p] > 0

LEMMA NextKeepsCpu == TraceInv /\ KeepsCpu /\ [Next]_vars => KeepsCpu'
<1> SUFFICES ASSUME TraceInv, KeepsCpu, [Next]_vars, alg' \in {"fcfs", "sjf"},
                    NEW r \in Process, i' > 0, s'[r][i' - 1] = "R"
             PROVE  \/ state'[r] \in {RUNNING, DONE}
                    \/ state'[r] = WAITING /\ ioLeft'[r] > 0
  BY DEF KeepsCpu
<1> DEFINE Goal == \/ state'[r] \in {RUNNING, DONE}
                   \/ state'[r] = WAITING /\ ioLeft'[r] > 0
<1>1. CASE AppendChars
  <2>1. i' - 1 = i /\ s'[r][i] = "R"
    BY <1>1 DEF AppendChars, TraceInv, IInv, TypeOK
  <2>2. state'[r] = RUNNING
    BY <1>1, <2>1, RecordedAtI DEF AppendChars
  <2>3. QED
    BY <2>2
<1>2. CASE ~ AppendChars
  <2>1. i' = i /\ i \in Nat /\ alg' = alg
    BY <1>2, TimeAdvances DEF TraceInv, IInv, TypeOK, Next, vars, params, StartIO, Exit,
       QuantumExpires, IOComplete, Dispatch, BurstGoesOn, NoDispatch, Return
  <2>2. s[r][i - 1] = "R"
    BY <2>1, PrefixKept DEF TraceInv
  <2>3. /\ alg \in {"fcfs", "sjf"}
        /\ \/ state[r] \in {RUNNING, DONE}
           \/ state[r] = WAITING /\ ioLeft[r] > 0
    BY <2>1, <2>2 DEF KeepsCpu
  <2> USE DEF TraceInv, IInv, TypeOK, CountersMatchState, Process, Other, READY, RUNNING,
              WAITING, DONE
  <2>4. ASSUME NEW p \in Process, StartIO(p) PROVE Goal
    BY <2>3, <2>4 DEF StartIO, BurstOver
  <2>5. ASSUME NEW p \in Process, Exit(p) PROVE Goal
    BY <2>3, <2>5 DEF Exit, BurstOver
  <2>6. ASSUME NEW p \in Process, QuantumExpires(p) PROVE Goal
    BY <2>3, <2>6 DEF QuantumExpires
  <2>7. ASSUME NEW p \in Process, IOComplete(p) PROVE Goal
    BY <2>3, <2>7 DEF IOComplete, Preempts
  <2>8. ASSUME NEW p \in Process, Dispatch(p) PROVE Goal
    BY <2>3, <2>8 DEF Dispatch
  <2>9. QED
    BY <1>2, <2>3, <2>4, <2>5, <2>6, <2>7, <2>8 DEF Next, vars, BurstGoesOn, NoDispatch, Return
<1>3. QED
  BY <1>1, <1>2

LEMMA NextNonPreemptive ==
    TraceInv /\ CpuGiven /\ KeepsCpu /\ NonPreemptive /\ [Next]_vars => NonPreemptive'
<1> SUFFICES ASSUME TraceInv, KeepsCpu, NonPreemptive, [Next]_vars, alg' \in {"fcfs", "sjf"},
                    NEW p \in Process, NEW k \in 1 .. i' - 1,
                    s'[p][k - 1] = "R", s'[p][k] = "r"
             PROVE  FALSE
  BY DEF NonPreemptive
<1>1. alg' = alg /\ i \in Nat
  BY DEF TraceInv, IInv, TypeOK, Next, vars, params, StartIO, Exit, QuantumExpires, IOComplete,
         Dispatch, BurstGoesOn, NoDispatch, AppendChars, Return
<1>2. CASE k \in 1 .. i - 1
  <2>1. k - 1 \in 0 .. i - 1 /\ k \in 0 .. i - 1
    BY <1>1, <1>2
  <2>2. s[p][k - 1] = "R" /\ s[p][k] = "r"
    BY <2>1, PrefixKept DEF TraceInv
  <2>3. QED
    BY <1>1, <1>2, <2>2 DEF NonPreemptive
<1>3. CASE k \notin 1 .. i - 1
  <2>1. AppendChars /\ k = i /\ i > 0 /\ i - 1 \in 0 .. i - 1
    BY <1>1, <1>3, TimeAdvances DEF AppendChars
  <2>2. s[p][i - 1] = "R"
    BY <2>1, PrefixKept DEF TraceInv
  <2>3. state[p] = READY
    BY <2>1, RecordedAtI
  <2>4. QED
    BY <1>1, <2>1, <2>2, <2>3 DEF KeepsCpu, READY, RUNNING, WAITING, DONE
<1>4. QED
  BY <1>2, <1>3

(* In fcfs and sjf a burst, once begun, is run to its end. *)
THEOREM NoPreemption == Spec => []NonPreemptive
<1>1. Init => KeepsCpu /\ NonPreemptive
  BY DEF Init, KeepsCpu, NonPreemptive
<1>2. TraceInv => CpuGiven
  BY DEF TraceInv, IInv
<1>3. QED
  BY <1>1, <1>2, NextKeepsCpu, NextNonPreemptive, TraceInvariant, PTL DEF Spec

-----------------------------------------------------------------------------
(* Refinement of CpuScheduler.                                             *)

Computing == {p \in Process : state[p] = RUNNING}

LEMMA TimeUnit ==
    ASSUME IInv, AppendChars, ~ Finished
    PROVE  Cpu!Tick(Computing)
<1> USE DEF IInv, TypeOK, MutualExclusion, CountersMatchState, CpuGiven, Computing, Process, Other,
        Bursts, READY, RUNNING, WAITING, DONE, firstLeft, lastLeft
<1>1. Cpu!Runnable = {p \in Process : state[p] \in {READY, RUNNING}}
  BY DEF AppendChars, Cpu!Runnable, Cpu!Process
<1>2. Cpu!InIO = {p \in Process : state[p] = WAITING}
  BY DEF AppendChars, Cpu!InIO, Cpu!Process
<1>3. Cpu!Runnable \cup Cpu!InIO # {}
  BY <1>1, <1>2 DEF Finished
<1>4. Computing = {} => Cpu!Runnable = {}
  BY <1>1 DEF AppendChars
<1>5. firstLeft' = [p \in Process |-> IF p \in Computing /\ firstLeft[p] > 0
                                        THEN firstLeft[p] - 1 ELSE firstLeft[p]]
  BY DEF AppendChars
<1>6. lastLeft' = [p \in Process |-> IF p \in Computing /\ firstLeft[p] = 0
                                       THEN lastLeft[p] - 1 ELSE lastLeft[p]]
  BY DEF AppendChars, params
<1>7. ioLeft' = [p \in Process |-> IF p \in Cpu!InIO THEN ioLeft[p] - 1 ELSE ioLeft[p]]
  BY <1>2 DEF AppendChars
<1>8. QED
  BY <1>1, <1>3, <1>4, <1>5, <1>6, <1>7 DEF Cpu!Tick, Cpu!Process

LEMMA BetweenUnits ==
    ASSUME IInv, [Next]_vars, ~ AppendChars \/ Finished
    PROVE  firstLeft' = firstLeft /\ ioLeft' = ioLeft /\ lastLeft' = lastLeft
<1> USE DEF IInv, TypeOK, MutualExclusion, CountersMatchState, Process, Other, Bursts,
        READY, RUNNING, WAITING, DONE, firstLeft, lastLeft
<1> DEFINE Same == firstLeft' = firstLeft /\ ioLeft' = ioLeft /\ lastLeft' = lastLeft
<1>1. ASSUME NEW p \in Process, StartIO(p) PROVE Same
  BY <1>1 DEF StartIO, BurstOver, params
<1>2. ASSUME NEW p \in Process, Exit(p) PROVE Same
  BY <1>2 DEF Exit, BurstOver, params
<1>3. ASSUME NEW p \in Process, QuantumExpires(p) PROVE Same
  BY <1>3 DEF QuantumExpires, params
<1>4. ASSUME NEW p \in Process, IOComplete(p) PROVE Same
  BY <1>4 DEF IOComplete, Preempts, params
<1>5. ASSUME NEW p \in Process, Dispatch(p) PROVE Same
  BY <1>5 DEF Dispatch, Dispatchable, params
<1>6. CASE BurstGoesOn \/ NoDispatch \/ Return \/ UNCHANGED vars
  BY <1>6 DEF BurstGoesOn, NoDispatch, Return, vars, params
<1>7. CASE AppendChars /\ Finished
  BY <1>7 DEF AppendChars, Finished, params
<1>8. QED
  BY <1>1, <1>2, <1>3, <1>4, <1>5, <1>6, <1>7 DEF Next

(* Every scheduling function is an implementation of the shared processor:  *)
(* its initial states are CpuScheduler's, AppendChars is one of its units   *)
(* of time and every other phase is invisible.                              *)
THEOREM ImplementsCpu == Spec => Cpu!Init /\ [][Cpu!Next]_(Cpu!vars)
<1>1. Init => Cpu!Init
  BY DEF Init, Cpu!Init, Cpu!Process, firstLeft, lastLeft, Process, Bursts, READY, WAITING
<1>2. IInv /\ [Next]_vars => [Cpu!Next]_(Cpu!vars)
  <2> SUFFICES ASSUME IInv, [Next]_vars PROVE [Cpu!Next]_(Cpu!vars)
    OBVIOUS
  <2>1. CASE AppendChars /\ ~ Finished
    <3>1. Cpu!Tick(Computing)
      BY <2>1, TimeUnit
    <3>2. Computing \in SUBSET Cpu!Process
      BY DEF Computing, Process, Cpu!Process
    <3>3. QED
      BY <3>1, <3>2 DEF Cpu!Next
  <2>2. CASE ~ AppendChars \/ Finished
    BY <2>2, BetweenUnits DEF Cpu!vars
  <2>3. QED
    BY <2>1, <2>2
<1>3. QED
  BY <1>1, <1>2, Invariant, PTL DEF Spec

-----------------------------------------------------------------------------
(* rr: nobody waits for more than a quantum.                               *)

(* p was not ready in one of the last d + 1 units of time. *)
Served(p, d) == d >= i \/ \E j \in i - 1 - d .. i - 1 : s[p][j] # "r"

(* Why a ready process is served in time: the other one's quantum has been   *)
(* running since p became ready, or p has only just become ready, or the     *)
(* other one cannot claim the processor.                                     *)
QuantumInv ==
    alg = "rr" =>
      /\ quantum \in Nat \ {0}
      /\ \A p \in Process :
           /\ state[p] = RUNNING =>
                /\ 0 <= qleft /\ qleft <= quantum
                /\ pc \in {"io1", "io2", "dispatch", "append"} => qleft > 0
                /\ pc = "quantum2" /\ p = 1 => qleft > 0
                /\ pc \in {"burst", "quantum1", "quantum2"} =>
                     \/ Served(p, 0)
                     \/ pc = "quantum2" /\ qleft > 0
           /\ state[p] = WAITING => Served(p, 0)
           /\ state[p] = READY =>
                \/ state[Other(p)] = RUNNING /\ Served(p, quantum - qleft)
                \/ state[Other(p)] # RUNNING /\ Served(p, 0)
                \/ state[Other(p)] = DONE
                \/ state[Other(p)] = WAITING /\ ioLeft[Other(p)] > 0

LEMMA ServedKept ==
    ASSUME TraceInv, [Next]_vars, ~ AppendChars, NEW p \in Process, NEW d \in Nat
    PROVE  Served(p, d)' <=> Served(p, d)
<1>1. i' = i /\ i \in Nat
  BY TimeAdvances DEF TraceInv, IInv, TypeOK
<1>2. \A j \in 0 .. i - 1 : s'[p][j] = s[p][j]
  BY PrefixKept DEF TraceInv
<1>3. d < i => \A j \in i - 1 - d .. i - 1 : j \in 0 .. i - 1
  BY <1>1
<1>4. QED
  BY <1>1, <1>2, <1>3 DEF Served

LEMMA ServedLonger ==
    ASSUME TraceInv, NEW p \in Process, NEW d \in Nat, NEW e \in Nat, d <= e, Served(p, d)
    PROVE  Served(p, e)
BY DEF Served, TraceInv, IInv, TypeOK

LEMMA ServedTick ==
    ASSUME TraceInv, AppendChars, NEW p \in Process, NEW d \in Nat
    PROVE  /\ state[p] # READY => Served(p, 0)'
           /\ Served(p, d) => Served(p, d + 1)'
<1>1. i' = i + 1 /\ i \in Nat
  BY DEF AppendChars, TraceInv, IInv, TypeOK
<1>2. ASSUME state[p] # READY PROVE Served(p, 0)'
  <2>1. s'[p][i] # "r"
    BY <1>2, RecordedAtI
  <2>2. QED
    BY <1>1, <2>1 DEF Served
<1>3. ASSUME Served(p, d) PROVE Served(p, d + 1)'
  <2>1. CASE d >= i
    BY <1>1, <2>1 DEF Served
  <2>2. CASE d < i
    <3>1. PICK j \in i - 1 - d .. i - 1 : s[p][j] # "r"
      BY <1>3, <2>2, <1>1 DEF Served
    <3>2. j \in 0 .. i - 1 /\ j \in i' - 1 - (d + 1) .. i' - 1
      BY <1>1, <2>2, <3>1
    <3>3. s'[p][j] # "r"
      BY <3>1, <3>2, PrefixKept DEF TraceInv, Next
    <3>4. QED
      BY <3>2, <3>3 DEF Served
  <2>3. QED
    BY <1>1, <2>1, <2>2
<1>4. QED
  BY <1>2, <1>3

LEMMA NextQuantum == TraceInv /\ QuantumInv /\ [Next]_vars => QuantumInv'
<1> SUFFICES ASSUME TraceInv, QuantumInv, [Next]_vars, alg' = "rr" PROVE QuantumInv'
  BY DEF QuantumInv
<1>1. alg = "rr" /\ quantum' = quantum
  BY DEF Next, vars, params, StartIO, Exit, QuantumExpires, IOComplete, Dispatch, BurstGoesOn,
         NoDispatch, AppendChars, Return
<1>2. \A p \in Process : Other(p) \in Process /\ Other(Other(p)) = p /\ Other(p) # p
  BY DEF Process, Other
<1>3. CASE AppendChars
  <2> USE <1>1 DEF TraceInv, IInv, TypeOK, CpuGiven, QuantumInv, Process, Other, READY, RUNNING,
                   WAITING, DONE
  <2>1. \A p \in Process : state[p] # READY => Served(p, 0)'
    BY <1>3, ServedTick
  <2>2. state' = state /\ pc' = "burst" /\ qleft' = qleft - 1 /\ qleft \in Int
    BY <1>3 DEF AppendChars
  <2>3. ASSUME NEW p \in Process, state[p] = READY
        PROVE  state[Other(p)] = RUNNING /\ Served(p, quantum - qleft)'
    <3>1. state[Other(p)] = RUNNING /\ qleft > 0 /\ qleft <= quantum
      BY <1>3, <2>3 DEF AppendChars
    <3>2. PICK d \in Nat : d = quantum - qleft /\ Served(p, d)
      BY <2>2, <2>3, <3>1
    <3>3. Served(p, d + 1)'
      BY <1>3, <3>2, ServedTick
    <3>4. d + 1 = (quantum - qleft)'
      BY <1>1, <2>2, <3>1, <3>2
    <3>5. QED
      BY <3>1, <3>3, <3>4
  <2>4. \A p \in Process : state[p] = RUNNING => qleft > 0 /\ qleft <= quantum
    BY <1>3 DEF AppendChars
  <2>5. QED
    BY <1>1, <2>1, <2>2, <2>3, <2>4
<1>4. CASE ~ AppendChars
  <2>1. \A p \in Process : \A d \in Nat : Served(p, d)' <=> Served(p, d)
    BY <1>4, ServedKept
  <2>2. \A p \in Process : \A d \in Nat : Served(p, 0) => Served(p, d)
    BY ServedLonger
  <2>3. \A p \in Process : Served(p, 0)' <=> Served(p, 0)
    BY <2>1
  <2>4. qleft \in Int /\ quantum \in Nat \ {0}
    BY <1>1 DEF QuantumInv, TraceInv, IInv, TypeOK
  <2> USE <1>1, <2>1, <2>2, <2>3, <2>4 DEF TraceInv, IInv, TypeOK, MutualExclusion, QuantumInv,
              Process, Other, READY, RUNNING, WAITING, DONE
  <2>5. ASSUME NEW p \in Process, StartIO(p) PROVE QuantumInv'
    BY <2>5 DEF StartIO, BurstOver, AfterBurst
  <2>6. ASSUME NEW p \in Process, Exit(p) PROVE QuantumInv'
    BY <2>6 DEF Exit, BurstOver, AfterBurst
  <2>7. ASSUME NEW p \in Process, QuantumExpires(p) PROVE QuantumInv'
    BY <2>7 DEF QuantumExpires
  <2>8. ASSUME NEW p \in Process, IOComplete(p) PROVE QuantumInv'
    BY <2>8 DEF IOComplete, Preempts
  <2>9. ASSUME NEW p \in Process, Dispatch(p) PROVE QuantumInv'
    BY <2>9 DEF Dispatch, Dispatchable
  <2>10. CASE BurstGoesOn
    BY <2>10 DEF BurstGoesOn, AfterBurst
  <2>11. CASE NoDispatch \/ Return \/ UNCHANGED vars
    BY <2>11 DEF NoDispatch, Return, vars
  <2>12. QED
    BY <1>4, <2>5, <2>6, <2>7, <2>8, <2>9, <2>10, <2>11 DEF Next
<1>5. QED
  BY <1>3, <1>4

LEMMA NextWaitsAtMost ==
    TraceInv /\ QuantumInv /\ WaitsAtMostQuantum /\ [Next]_vars => WaitsAtMostQuantum'
<1> SUFFICES ASSUME TraceInv, QuantumInv, WaitsAtMostQuantum, [Next]_vars, alg' = "rr",
                    NEW p \in Process, NEW k \in 0 .. i' - 1 - quantum'
             PROVE  \E j \in k .. k + quantum' : s'[p][j] # "r"
  BY DEF WaitsAtMostQuantum
<1>1. alg = "rr" /\ quantum' = quantum
  BY DEF Next, vars, params, StartIO, Exit, QuantumExpires, IOComplete, Dispatch, BurstGoesOn,
         NoDispatch, AppendChars, Return
<1>2. i \in Nat /\ quantum \in Nat \ {0}
  BY <1>1 DEF TraceInv, IInv, TypeOK, QuantumInv
<1>3. CASE k \in 0 .. i - 1 - quantum
  <2>1. PICK j \in k .. k + quantum : s[p][j] # "r"
    BY <1>1, <1>3 DEF WaitsAtMostQuantum
  <2>2. j \in 0 .. i - 1
    BY <1>2, <1>3, <2>1
  <2>3. QED
    BY <1>1, <2>1, <2>2, PrefixKept DEF TraceInv
<1>4. CASE k \notin 0 .. i - 1 - quantum
  <2>1. AppendChars /\ i' = i + 1
    BY <1>1, <1>2, <1>4, TimeAdvances DEF AppendChars
  <2>2. k = i - quantum /\ quantum <= i
    BY <1>1, <1>2, <1>4, <2>1
  <2>3. CASE state[p] # READY
    <3>1. s'[p][i] # "r"
      BY <2>1, <2>3, RecordedAtI
    <3>2. QED
      BY <1>1, <1>2, <2>2, <3>1
  <2>4. CASE state[p] = READY
    <3>1. PICK d \in Nat : d < quantum /\ Served(p, d)
      <4>1. state[Other(p)] = RUNNING /\ Other(p) \in Process
        BY <2>1, <2>4 DEF AppendChars, TraceInv, IInv, CpuGiven, Process, Other
      <4>2. qleft > 0 /\ qleft <= quantum /\ Served(p, quantum - qleft)
        BY <1>1, <2>1, <2>4, <4>1 DEF AppendChars, QuantumInv, READY, RUNNING, WAITING, DONE
      <4>3. qleft \in Int
        BY DEF TraceInv, IInv, TypeOK
      <4>4. QED
        BY <1>2, <4>2, <4>3
    <3>2. PICK j \in i - 1 - d .. i - 1 : s[p][j] # "r"
      BY <1>2, <2>2, <3>1 DEF Served
    <3>3. j \in 0 .. i - 1 /\ j \in k .. k + quantum
      BY <1>2, <2>2, <3>1, <3>2
    <3>4. s'[p][j] # "r"
      BY <3>2, <3>3, PrefixKept DEF TraceInv
    <3>5. QED
      BY <1>1, <3>3, <3>4
  <2>5. QED
    BY <2>3, <2>4
<1>5. QED
  BY <1>3, <1>4

(* rr keeps nobody ready for more than one quantum, whatever the burst      *)
(* lengths and the quantum are.                                             *)
THEOREM RoundRobinFair == Spec => []WaitsAtMostQuantum
<1>1. Init => QuantumInv /\ WaitsAtMostQuantum
  BY DEF Init, QuantumInv, WaitsAtMostQuantum, Served, Process, Other, READY, RUNNING, WAITING, DONE
<1>2. QED
  BY <1>1, NextQuantum, NextWaitsAtMost, TraceInvariant, PTL DEF Spec

-----------------------------------------------------------------------------
(* fcfs and sjf: the choice between two ready processes.                   *)

HasWaited(p) == \E j \in 0 .. i - 1 : s[p][j] = "w"

(* The I/O of p is whole as long as no unit of it has been recorded. *)
WaitedInv ==
    \A p \in Process : ioLeft[p] <= y[p] /\ (HasWaited(p) <=> ioLeft[p] # y[p])

LEMMA NextWaited == TraceInv /\ WaitedInv /\ [Next]_vars => WaitedInv'
<1> SUFFICES ASSUME TraceInv, WaitedInv, [Next]_vars, NEW p \in Process
             PROVE  ioLeft'[p] <= y'[p] /\ (HasWaited(p)' <=> ioLeft'[p] # y'[p])
  BY DEF WaitedInv
<1>1. i \in Nat /\ \A j \in 0 .. i - 1 : s'[p][j] = s[p][j]
  BY PrefixKept DEF TraceInv, IInv, TypeOK
<1>2. /\ ioLeft[p] <= y[p] /\ (HasWaited(p) <=> ioLeft[p] # y[p])
      /\ ioLeft[p] \in Nat /\ y[p] \in Nat
  BY DEF WaitedInv, TraceInv, IInv, TypeOK, Bursts
<1>3. CASE AppendChars
  <2>1. i' = i + 1 /\ y' = y
    BY <1>3 DEF AppendChars, params
  <2>2. s'[p][i] = "w" <=> state[p] = WAITING
    BY <1>3, RecordedAtI
  <2>3. HasWaited(p)' <=> HasWaited(p) \/ state[p] = WAITING
    BY <1>1, <2>1, <2>2 DEF HasWaited
  <2>4. ioLeft'[p] = ioLeft[p] - (IF state[p] = WAITING THEN 1 ELSE 0)
    BY <1>3, ToComeCounted DEF TraceInv
  <2>5. QED
    BY <1>2, <2>1, <2>3, <2>4
<1>4. CASE ~ AppendChars
  <2>1. i' = i /\ y' = y /\ ioLeft'[p] = ioLeft[p]
    BY <1>4, TimeAdvances, ToComeKept DEF TraceInv
  <2>2. HasWaited(p)' <=> HasWaited(p)
    BY <1>1, <2>1 DEF HasWaited
  <2>3. QED
    BY <1>2, <2>1, <2>2
<1>5. QED
  BY <1>3, <1>4

NextBurst(p) == IF ioLeft[p] = y[p] THEN x[p] ELSE z[p]

RanJustNow(p) == i > 0 /\ s[p][i - 1] = "R"

(* A ready process has its whole next burst to do, and a running one        *)
(* computed in the last unit of time or has been dispatched in this one.    *)
ChoiceInv ==
    alg \in {"fcfs", "sjf"} =>
      \A p \in Process :
        /\ state[p] = READY => cpuLeft[p] = NextBurst(p)
        /\ state[p] = RUNNING =>
             \/ RanJustNow(p)
             \/ /\ pc = "append"
                /\ cpuLeft[p] = NextBurst(p)
                /\ alg = "fcfs" /\ state[Other(p)] = READY => p = 1
                /\ alg = "sjf" /\ state[Other(p)] = READY => cpuLeft[p] <= cpuLeft[Other(p)]

LEMMA NextChoice == TraceInv /\ WaitedInv /\ ChoiceInv /\ [Next]_vars => ChoiceInv'
<1> SUFFICES ASSUME TraceInv, WaitedInv, ChoiceInv, [Next]_vars, alg' \in {"fcfs", "sjf"}
             PROVE  ChoiceInv'
  BY DEF ChoiceInv
<1>1. alg' = alg /\ x' = x /\ y' = y /\ z' = z
  BY DEF Next, vars, params, StartIO, Exit, QuantumExpires, IOComplete, Dispatch, BurstGoesOn,
         NoDispatch, AppendChars, Return
<1>2. \A p \in Process : /\ Other(p) \in Process /\ Other(p) # p
                         /\ ioLeft[p] \in Nat /\ y[p] \in Bursts /\ cpuLeft[p] \in Nat
  BY DEF Process, Other, TraceInv, IInv, TypeOK
<1>3. CASE AppendChars
  <2>1. i' = i + 1 /\ i \in Nat /\ state' = state
    BY <1>3 DEF AppendChars, TraceInv, IInv, TypeOK
  <2>2. \A p \in Process : state[p] = RUNNING => RanJustNow(p)'
    BY <1>3, <2>1, RecordedAtI DEF RanJustNow
  <2>3. ASSUME NEW p \in Process, state[p] = READY
        PROVE  cpuLeft'[p] = cpuLeft[p] /\ ioLeft'[p] = ioLeft[p] /\ cpuLeft[p] = NextBurst(p)
    BY <1>1, <1>3, <2>3 DEF AppendChars, ChoiceInv, READY, RUNNING, WAITING
  <2>4. QED
    BY <1>1, <2>1, <2>2, <2>3 DEF ChoiceInv, NextBurst
<1>4. CASE ~ AppendChars
  <2>1. \A p \in Process : ioLeft'[p] = ioLeft[p] /\ (RanJustNow(p)' <=> RanJustNow(p))
    <3>1. i' = i /\ i \in Nat
      BY <1>4, TimeAdvances DEF TraceInv, IInv, TypeOK
    <3>2. \A p \in Process : ioLeft'[p] = ioLeft[p]
      BY <1>4, ToComeKept DEF TraceInv
    <3>3. \A p \in Process : i > 0 => s'[p][i - 1] = s[p][i - 1]
      BY <3>1, PrefixKept DEF TraceInv
    <3>4. QED
      BY <3>1, <3>2, <3>3 DEF RanJustNow
  <2>2. \A p \in Process : NextBurst(p)' = NextBurst(p)
    BY <1>1, <2>1 DEF NextBurst
  <2>3. \A p \in Process : ioLeft[p] = 0 => NextBurst(p) = z[p]
    BY <1>2 DEF NextBurst, Bursts
  <2>4. \A p \in Process :
          /\ state[p] = READY => cpuLeft[p] = NextBurst(p)
          /\ state[p] = RUNNING /\ pc # "append" => RanJustNow(p)
    BY <1>1 DEF ChoiceInv
  <2> USE <1>1, <1>2, <2>1, <2>2, <2>3, <2>4
      DEF TraceInv, IInv, TypeOK, MutualExclusion, CountersMatchState, Process, Other,
          READY, RUNNING, WAITING, DONE
  <2>5. ASSUME NEW p \in Process, StartIO(p) PROVE ChoiceInv'
    BY <2>5 DEF StartIO, BurstOver, AfterBurst, ChoiceInv
  <2>6. ASSUME NEW p \in Process, Exit(p) PROVE ChoiceInv'
    BY <2>6 DEF Exit, BurstOver, AfterBurst, ChoiceInv
  <2>7. ASSUME NEW p \in Process, QuantumExpires(p) PROVE ChoiceInv'
    BY <2>7 DEF QuantumExpires
  <2>8. ASSUME NEW p \in Process, IOComplete(p) PROVE ChoiceInv'
    BY <2>8 DEF IOComplete, Preempts, ChoiceInv
  <2>9. ASSUME NEW p \in Process, Dispatch(p) PROVE ChoiceInv'
    BY <2>9 DEF Dispatch, Dispatchable, Preferred, ChoiceInv
  <2>10. CASE BurstGoesOn \/ NoDispatch \/ Return
    BY <2>10 DEF BurstGoesOn, AfterBurst, NoDispatch, Return, ChoiceInv
  <2>11. CASE UNCHANGED vars
    BY <2>11 DEF vars, ChoiceInv
  <2>12. QED
    BY <1>4, <2>5, <2>6, <2>7, <2>8, <2>9, <2>10, <2>11 DEF Next
<1>5. QED
  BY <1>3, <1>4

LEMMA ChoiceInvariant == Spec => [](WaitedInv /\ ChoiceInv)
<1>1. Init => WaitedInv /\ ChoiceInv
  BY DEF Init, WaitedInv, HasWaited, ChoiceInv, NextBurst, Process, Bursts, READY, RUNNING
<1>2. QED
  BY <1>1, NextWaited, NextChoice, TraceInvariant, PTL DEF Spec

(* The choices already recorded stay as they were. *)
LEMMA ChosenKept ==
    ASSUME TraceInv, [Next]_vars, NEW p \in Process, NEW k \in 0 .. i - 1
    PROVE  /\ ChosenAt(p, k)' <=> ChosenAt(p, k)
           /\ BurstAt(p, k)' = BurstAt(p, k)
<1>1. Other(p) \in Process /\ i \in Nat
  BY DEF Process, Other, TraceInv, IInv, TypeOK
<1>2. \A j \in 0 .. k : s'[p][j] = s[p][j] /\ s'[Other(p)][j] = s[Other(p)][j]
  BY <1>1, PrefixKept DEF TraceInv
<1>3. x' = x /\ z' = z
  BY TimeAdvances DEF AppendChars, params
<1>4. QED
  BY <1>1, <1>2, <1>3 DEF ChosenAt, BurstAt

(* A choice recorded in this unit of time was made in it. *)
LEMMA ChosenNow ==
    ASSUME TraceInv, WaitedInv, ChoiceInv, AppendChars, alg \in {"fcfs", "sjf"},
           NEW p \in Process, NEW k \in Nat, k = i, ChosenAt(p, k)'
    PROVE  /\ alg = "fcfs" => p = 1
           /\ alg = "sjf" => BurstAt(p, k)' <= BurstAt(Other(p), k)'
<1>1. Other(p) \in Process /\ i \in Nat /\ x' = x /\ z' = z
  BY DEF Process, Other, TraceInv, IInv, TypeOK, AppendChars, params
<1>2. \A q \in Process : \A j \in 0 .. i - 1 : s'[q][j] = s[q][j]
  BY PrefixKept DEF TraceInv, Next
<1>3. state[p] = RUNNING /\ state[Other(p)] = READY
  BY <1>1, RecordedAtI DEF ChosenAt
<1>4. ~ RanJustNow(p)
  BY <1>1, <1>2 DEF ChosenAt, RanJustNow
<1>5. /\ cpuLeft[p] = NextBurst(p)
      /\ cpuLeft[Other(p)] = NextBurst(Other(p))
      /\ alg = "fcfs" => p = 1
      /\ alg = "sjf" => cpuLeft[p] <= cpuLeft[Other(p)]
  BY <1>1, <1>3, <1>4 DEF ChoiceInv, READY, RUNNING
<1>6. \A q \in Process : BurstAt(q, k)' = NextBurst(q)
  BY <1>1, <1>2 DEF BurstAt, NextBurst, WaitedInv, HasWaited
<1>7. QED
  BY <1>1, <1>5, <1>6

(* sjf begins the shorter of two bursts that are ready together. *)
THEOREM ShorterJob == Spec => []ShorterJobChosen
<1>1. Init => ShorterJobChosen
  BY DEF Init, ShorterJobChosen
<1>2. TraceInv /\ WaitedInv /\ ChoiceInv /\ ShorterJobChosen /\ [Next]_vars => ShorterJobChosen'
  <2> SUFFICES ASSUME TraceInv, WaitedInv, ChoiceInv, ShorterJobChosen, [Next]_vars,
                      alg' = "sjf", NEW p \in Process, NEW k \in 0 .. i' - 1, ChosenAt(p, k)'
               PROVE  BurstAt(p, k)' <= BurstAt(Other(p), k)'
    BY DEF ShorterJobChosen
  <2>1. alg' = alg /\ i \in Nat /\ Other(p) \in Process
    BY DEF TraceInv, IInv, TypeOK, Next, vars, params, StartIO, Exit, QuantumExpires, IOComplete,
           Dispatch, BurstGoesOn, NoDispatch, AppendChars, Return, Process, Other
  <2>2. CASE k \in 0 .. i - 1
    BY <2>1, <2>2, ChosenKept DEF ShorterJobChosen
  <2>3. CASE k \notin 0 .. i - 1
    <3>1. AppendChars /\ k = i
      BY <2>1, <2>3, TimeAdvances DEF AppendChars
    <3>2. QED
      BY <2>1, <3>1, ChosenNow
  <2>4. QED
    BY <2>2, <2>3
<1>3. QED
  BY <1>1, <1>2, ChoiceInvariant, TraceInvariant, PTL DEF Spec

(* fcfs begins the burst that became ready first, and P1's of two that      *)
(* became ready together.                                                   *)
THEOREM FirstReady == Spec => []FirstReadyChosen
<1>1. Init => FirstReadyChosen
  BY DEF Init, FirstReadyChosen
<1>2. TraceInv /\ WaitedInv /\ ChoiceInv /\ WaitsOnlyForCpu /\ FirstReadyChosen /\ [Next]_vars
        => FirstReadyChosen'
  <2> SUFFICES ASSUME TraceInv, WaitedInv, ChoiceInv, WaitsOnlyForCpu, FirstReadyChosen,
                      [Next]_vars, alg' = "fcfs", NEW p \in Process, NEW k \in 0 .. i' - 1,
                      ChosenAt(p, k)'
               PROVE  p = 1 /\ (k > 0 => s'[Other(p)][k - 1] # "r")
    BY DEF FirstReadyChosen
  <2>1. alg' = alg /\ i \in Nat /\ Other(p) \in Process /\ Other(Other(p)) = p
    BY DEF TraceInv, IInv, TypeOK, Next, vars, params, StartIO, Exit, QuantumExpires, IOComplete,
           Dispatch, BurstGoesOn, NoDispatch, AppendChars, Return, Process, Other
  <2>2. p = 1
    <3>1. CASE k \in 0 .. i - 1
      BY <2>1, <3>1, ChosenKept DEF FirstReadyChosen
    <3>2. CASE k \notin 0 .. i - 1
      <4>1. AppendChars /\ k = i
        BY <2>1, <3>2, TimeAdvances DEF AppendChars
      <4>2. QED
        BY <2>1, <4>1, ChosenNow
    <3>3. QED
      BY <3>1, <3>2
  <2>3. ASSUME k > 0, s'[Other(p)][k - 1] = "r" PROVE FALSE
    <3>1. k - 1 \in 0 .. i - 1 /\ i' \in Int
      BY <2>1, <2>3, TimeAdvances DEF AppendChars
    <3>2. s[Other(p)][k - 1] = "r" /\ s'[p][k - 1] = s[p][k - 1]
      BY <2>1, <2>3, <3>1, PrefixKept DEF TraceInv
    <3>3. s[p][k - 1] = "R"
      BY <2>1, <3>1, <3>2 DEF WaitsOnlyForCpu
    <3>4. QED
      BY <2>3, <3>2, <3>3 DEF ChosenAt
  <2>4. QED
    BY <2>2, <2>3
<1>3. QED
  BY <1>1, <1>2, ChoiceInvariant, NeverIdle, TraceInvariant, PTL DEF Spec

-----------------------------------------------------------------------------
(* rr: a quantum is not cut short.                                         *)

(* The last d units of time were all computed by p. *)
RanFor(p, d) == d <= i /\ \A j \in i - d .. i - 1 : s[p][j] = "R"

(* What the running process has used of its quantum it has computed without *)
(* a break, and who is ready after computing has used all of it.            *)
WholeInv ==
    alg = "rr" =>
      \A p \in Process :
        /\ state[p] = RUNNING => RanFor(p, quantum - qleft)
        /\ state[p] = READY /\ RanJustNow(p) => RanFor(p, quantum)
        /\ state[p] = WAITING /\ RanJustNow(p) => ioLeft[p] > 0

LEMMA NextWhole == TraceInv /\ QuantumInv /\ WholeInv /\ [Next]_vars => WholeInv'
<1> SUFFICES ASSUME TraceInv, QuantumInv, WholeInv, [Next]_vars, alg' = "rr" PROVE WholeInv'
  BY DEF WholeInv
<1>1. alg = "rr" /\ quantum' = quantum
  BY DEF Next, vars, params, StartIO, Exit, QuantumExpires, IOComplete, Dispatch, BurstGoesOn,
         NoDispatch, AppendChars, Return
<1>2. qleft \in Int /\ quantum \in Nat \ {0} /\ i \in Nat
  BY <1>1 DEF QuantumInv, TraceInv, IInv, TypeOK
<1>3. CASE AppendChars
  <2>1. i' = i + 1 /\ state' = state /\ qleft' = qleft - 1
    BY <1>1, <1>3 DEF AppendChars
  <2>2. ASSUME NEW p \in Process, state[p] = RUNNING PROVE RanFor(p, quantum - qleft)'
    <3>1. RanFor(p, quantum - qleft) /\ s'[p][i] = "R"
      BY <1>1, <1>3, <2>2, RecordedAtI DEF WholeInv
    <3>2. 0 <= quantum - qleft
      BY <1>1, <1>2, <2>2 DEF QuantumInv
    <3>3. \A j \in 0 .. i - 1 : s'[p][j] = s[p][j]
      BY PrefixKept DEF TraceInv, Next
    <3>4. \A j \in i - (quantum - qleft) .. i : s'[p][j] = "R"
      BY <1>2, <3>1, <3>2, <3>3 DEF RanFor
    <3>5. QED
      BY <1>1, <1>2, <2>1, <3>1, <3>2, <3>4 DEF RanFor
  <2>3. ASSUME NEW p \in Process, state[p] # RUNNING PROVE ~ RanJustNow(p)'
    BY <1>2, <1>3, <2>1, <2>3, RecordedAtI DEF RanJustNow
  <2>4. QED
    BY <2>1, <2>2, <2>3 DEF WholeInv, READY, RUNNING, WAITING
<1>4. CASE ~ AppendChars
  <2>1. i' = i
    BY <1>4, TimeAdvances
  <2>2. \A p \in Process : RanJustNow(p)' <=> RanJustNow(p)
    <3>1. \A p \in Process : i > 0 => s'[p][i - 1] = s[p][i - 1]
      BY <1>2, PrefixKept DEF TraceInv
    <3>2. QED
      BY <2>1, <3>1 DEF RanJustNow
  <2>3. \A p \in Process : \A d \in Nat : RanFor(p, d) => /\ d <= i
                                                         /\ \A j \in i - d .. i - 1 : s'[p][j] = "R"
    BY <1>2, PrefixKept DEF TraceInv, RanFor
  <2>4. \A p \in Process : state[p] = RUNNING => quantum - qleft \in Nat
    BY <1>1, <1>2 DEF QuantumInv
  <2>5. DEFINE Whole(p, d) == d <= i /\ \A j \in i - d .. i - 1 : s'[p][j] = "R"
  <2>6. /\ \A p \in Process : state[p] = RUNNING => Whole(p, quantum - qleft)
        /\ \A p \in Process : state[p] = READY /\ RanJustNow(p) => Whole(p, quantum)
        /\ \A p \in Process : state[p] = WAITING /\ RanJustNow(p) => ioLeft[p] > 0
        /\ \A p \in Process : Whole(p, 0)
    BY <1>1, <1>2, <2>3, <2>4 DEF WholeInv
  <2>7. SUFFICES \A p \in Process :
                   /\ state'[p] = RUNNING => Whole(p, quantum - qleft')
                   /\ state'[p] = READY /\ RanJustNow(p) => Whole(p, quantum)
                   /\ state'[p] = WAITING /\ RanJustNow(p) => ioLeft'[p] > 0
    BY <1>1, <2>1, <2>2 DEF WholeInv, RanFor
  <2> HIDE DEF Whole
  <2> USE <1>1, <1>2, <2>6 DEF TraceInv, IInv, TypeOK, CountersMatchState, Process, Other,
          READY, RUNNING, WAITING, DONE
  <2> DEFINE Goal == \A p \in Process :
                       /\ state'[p] = RUNNING => Whole(p, quantum - qleft')
                       /\ state'[p] = READY /\ RanJustNow(p) => Whole(p, quantum)
                       /\ state'[p] = WAITING /\ RanJustNow(p) => ioLeft'[p] > 0
  <2>8. ASSUME NEW p \in Process, StartIO(p) PROVE Goal
    BY <2>8 DEF StartIO, BurstOver
  <2>9. ASSUME NEW p \in Process, Exit(p) PROVE Goal
    BY <2>9 DEF Exit, BurstOver
  <2>10. ASSUME NEW p \in Process, QuantumExpires(p) PROVE Goal
    BY <2>10 DEF QuantumExpires
  <2>11. ASSUME NEW p \in Process, IOComplete(p) PROVE Goal
    BY <2>11 DEF IOComplete, Preempts
  <2>12. ASSUME NEW p \in Process, Dispatch(p) PROVE Goal
    BY <2>12 DEF Dispatch, Dispatchable
  <2>13. CASE BurstGoesOn \/ NoDispatch \/ Return \/ UNCHANGED vars
    BY <2>13 DEF BurstGoesOn, NoDispatch, Return, vars
  <2>14. QED
    BY <1>4, <2>8, <2>9, <2>10, <2>11, <2>12, <2>13 DEF Next
<1>5. QED
  BY <1>3, <1>4

(* rr: whoever is made ready before its burst is over has had its quantum. *)
THEOREM QuantumNotCutShort == Spec => []QuantumIsWhole
<1>1. Init => WholeInv /\ QuantumIsWhole /\ QuantumInv
  BY DEF Init, WholeInv, RanJustNow, QuantumIsWhole, QuantumInv, Served, Process, Other, READY,
         RUNNING, WAITING, DONE
<1>2. TraceInv /\ WholeInv /\ QuantumIsWhole /\ [Next]_vars => QuantumIsWhole'
  <2> SUFFICES ASSUME TraceInv, WholeInv, QuantumIsWhole, [Next]_vars, alg' = "rr",
                      NEW p \in Process, NEW k \in 1 .. i' - 1,
                      s'[p][k - 1] = "R", s'[p][k] = "r"
               PROVE  quantum' <= k /\ \A j \in k - quantum' .. k - 1 : s'[p][j] = "R"
    BY DEF QuantumIsWhole
  <2>0. quantum' = quantum /\ alg' = alg
    BY DEF Next, vars, params, StartIO, Exit, QuantumExpires, IOComplete,
           Dispatch, BurstGoesOn, NoDispatch, AppendChars, Return
  <2>1. alg = "rr" /\ quantum' = quantum /\ i \in Nat /\ quantum \in Nat
    <3>1. quantum \in Quanta \cup {0} /\ i \in Nat
      BY DEF TraceInv, IInv, TypeOK
    <3>2. QED
      BY <2>0, <3>1
  <2>2. \A j \in 0 .. i - 1 : s'[p][j] = s[p][j]
    BY PrefixKept DEF TraceInv
  <2>3. CASE k \in 1 .. i - 1
    <3>1. s[p][k - 1] = "R" /\ s[p][k] = "r"
      BY <2>1, <2>2, <2>3
    <3>2. quantum <= k /\ \A j \in k - quantum .. k - 1 : s[p][j] = "R"
      BY <2>1, <2>3, <3>1 DEF QuantumIsWhole
    <3>3. QED
      BY <2>1, <2>2, <2>3, <3>2
  <2>4. CASE k \notin 1 .. i - 1
    <3>1. AppendChars /\ k = i /\ i > 0
      BY <2>1, <2>4, TimeAdvances DEF AppendChars
    <3>2. state[p] = READY /\ RanJustNow(p)
      BY <2>1, <2>2, <3>1, RecordedAtI DEF RanJustNow
    <3>3. RanFor(p, quantum)
      BY <2>1, <3>2 DEF WholeInv
    <3>4. QED
      BY <2>1, <2>2, <3>1, <3>3 DEF RanFor
  <2>5. QED
    BY <2>3, <2>4
<1>3. QED
  BY <1>1, <1>2, NextQuantum, NextWhole, TraceInvariant, PTL DEF Spec

-----------------------------------------------------------------------------
(* The processor is shared by one process at a time and never idle while    *)
(* one waits for it, in every algorithm and for all bursts.                 *)
THEOREM ProcessorIsShared == Spec => []SharesProcessor
<1>1. MutualExclusion /\ WaitsOnlyForCpu => SharesProcessor
  BY DEF SharesProcessor
<1>2. QED
  BY <1>1, MutualExclusionHolds, NeverIdle, PTL

(* fcfs, sjf, psjf and rr each keep to the policy they are named for, in the *)
(* choice between ready processes and in what they preempt, for all bursts   *)
(* and quanta (pslibrary.c).                                                *)
THEOREM PolicyIsFollowed == Spec => []FollowsPolicy
<1>1. /\ FirstReadyChosen /\ ShorterJobChosen /\ NonPreemptive
      /\ ShortestRemainingRuns /\ QuantumIsWhole /\ WaitsAtMostQuantum
      => FollowsPolicy
  BY DEF FollowsPolicy
<1>2. QED
  BY <1>1, FirstReady, ShorterJob, NoPreemption, ShortestRemaining, QuantumNotCutShort,
     RoundRobinFair, PTL

-----------------------------------------------------------------------------
(* The strings.                                                            *)

Letters == {"r", "R", "w"}

(* The processes that have a string of their own: in fcfs the terminator of *)
(* P2 goes into the buffer of P1.                                           *)
Telling == {p \in Process : alg = "fcfs" => p = 1}

(* The string of p ends before the cell e: letters up to it, the last one of *)
(* a unit of computing, and no letter from it on.                            *)
EndsAt(p, e) ==
    /\ e \in DOMAIN s[p] /\ s[p][e] = NUL /\ s[p][e - 1] = "R"
    /\ \A k \in 0 .. e - 1 : s[p][k] \in Letters
    /\ \A k \in e .. MAX_SIZE - 1 : s[p][k] \notin Letters

(* As long as a process is not done there is a letter of it for each unit of *)
(* time; then its string has its end.                                        *)
Recorded ==
    \A p \in Telling :
      /\ state[p] # DONE => \A k \in 0 .. i - 1 : s[p][k] \in Letters
      /\ state[p] = DONE => \E e \in 1 .. i : EndsAt(p, e)

(* A burst is over in the unit of time after its last one. *)
LastRan ==
    \A p \in Process : state[p] = RUNNING /\ cpuLeft[p] = 0 => i > 0 /\ s[p][i - 1] = "R"

NeverBoth == \A k \in 0 .. i - 1 : ~ (s[1][k] = "R" /\ s[2][k] = "R")

Waited(p) == y[p] - ioLeft[p]

(* The I/O of p, as far as it has come, is one block, which is the end of    *)
(* what has been recorded as long as p waits.                                *)
WaitsFrom(p, k) ==
    /\ Occurrences(s[p], i, "w") = k .. k + Waited(p) - 1
    /\ state[p] = WAITING => k + Waited(p) = i

OneBlock ==
    \A p \in Process :
      /\ ioLeft[p] \in 0 .. y[p]
      /\ state[p] # WAITING => ioLeft[p] \in {0, y[p]}
      /\ \E k \in 0 .. i : WaitsFrom(p, k)

LEMMA Called ==
    ASSUME [Next]_vars
    PROVE  alg' = alg /\ x' = x /\ y' = y /\ z' = z
BY DEF Next, vars, params, StartIO, Exit, QuantumExpires, IOComplete, Dispatch, BurstGoesOn,
       NoDispatch, AppendChars, Return

LEMMA NextLastRan == TraceInv /\ LastRan /\ [Next]_vars => LastRan'
<1> SUFFICES ASSUME TraceInv, LastRan, [Next]_vars, NEW p \in Process,
                    state'[p] = RUNNING, cpuLeft'[p] = 0
             PROVE  i' > 0 /\ s'[p][i' - 1] = "R"
  BY DEF LastRan
<1>1. pc' = "burst" /\ i \in Nat
  BY NextIInv DEF TraceInv, IInv, TypeOK, CountersMatchState
<1>2. CASE AppendChars
  <2>1. state[p] = RUNNING /\ i' = i + 1
    BY <1>2 DEF AppendChars
  <2>2. s'[p][i] = "R"
    BY <1>2, <2>1, RecordedAtI
  <2>3. QED
    BY <1>1, <2>1, <2>2
<1>3. CASE ~ AppendChars
  <2>1. UNCHANGED vars
    BY <1>1, <1>3 DEF Next, StartIO, Exit, QuantumExpires, IOComplete, Dispatch, BurstGoesOn,
                      NoDispatch, Return, AfterBurst
  <2>2. QED
    BY <2>1 DEF vars, LastRan
<1>4. QED
  BY <1>2, <1>3

LEMMA NextNeverBoth == TraceInv /\ NeverBoth /\ [Next]_vars => NeverBoth'
<1> SUFFICES ASSUME TraceInv, NeverBoth, [Next]_vars, NEW k \in 0 .. i' - 1,
                    s'[1][k] = "R", s'[2][k] = "R"
             PROVE  FALSE
  BY DEF NeverBoth
<1>1. i \in Nat /\ 1 \in Process /\ 2 \in Process
  BY DEF TraceInv, IInv, TypeOK, Process
<1>2. CASE k \in 0 .. i - 1
  <2>1. s'[1][k] = s[1][k] /\ s'[2][k] = s[2][k]
    BY <1>1, <1>2, PrefixKept DEF TraceInv
  <2>2. QED
    BY <1>2, <2>1 DEF NeverBoth
<1>3. CASE k \notin 0 .. i - 1
  <2>1. AppendChars /\ k = i
    BY <1>1, <1>3, TimeAdvances DEF AppendChars
  <2>2. state[1] = RUNNING /\ state[2] = RUNNING
    BY <1>1, <2>1, RecordedAtI
  <2>3. QED
    BY <2>2 DEF TraceInv, IInv, MutualExclusion
<1>4. QED
  BY <1>2, <1>3

(* A terminator stored at i is no letter and comes behind the end. *)
LEMMA EndKept ==
    ASSUME TraceInv, NEW p \in Process, NEW e \in 1 .. i, EndsAt(p, e),
           s'[p] = s[p] \/ s'[p] = Store(s[p], i, NUL)
    PROVE  EndsAt(p, e)'
<1>1. i \in Nat /\ e \in Nat /\ e <= i /\ e > 0 /\ MAX_SIZE \in Nat
  BY DEF TraceInv, IInv, TypeOK, MAX_SIZE
<1>2. CASE s'[p] = s[p]
  BY <1>2 DEF EndsAt, MAX_SIZE
<1>3. CASE s'[p] = Store(s[p], i, NUL)
  <2>1. /\ DOMAIN s'[p] = DOMAIN s[p] \cup {i}
        /\ \A k \in DOMAIN s[p] \cup {i} : s'[p][k] = IF k = i THEN NUL ELSE s[p][k]
    BY <1>3 DEF Store
  <2>2. DOMAIN s[p] = 0 .. MAX_SIZE - 1
    BY DEF TraceInv, SpaceInv, EnoughSpace
  <2>3. e \in DOMAIN s'[p] /\ s'[p][e] = NUL
    BY <2>1 DEF EndsAt
  <2>4. e - 1 \in DOMAIN s[p] /\ e - 1 # i
    BY <1>1, <2>2 DEF EndsAt
  <2>5. s'[p][e - 1] = "R"
    BY <2>1, <2>4 DEF EndsAt
  <2>6. \A k \in 0 .. e - 1 : s'[p][k] \in Letters
    <3>1. \A k \in 0 .. e - 1 : k \in DOMAIN s[p] /\ k # i
      BY <1>1, <2>2 DEF EndsAt
    <3>2. QED
      BY <2>1, <3>1 DEF EndsAt
  <2>7. \A k \in e .. MAX_SIZE - 1 : s'[p][k] \notin Letters
    <3>1. \A k \in e .. MAX_SIZE - 1 : k \in DOMAIN s[p]
      BY <1>1, <2>2
    <3>2. NUL \notin Letters
      BY DEF NUL, Letters
    <3>3. QED
      BY <2>1, <3>1, <3>2 DEF EndsAt
  <2>8. MAX_SIZE' = MAX_SIZE
    BY DEF MAX_SIZE
  <2>9. QED
    BY <2>3, <2>5, <2>6, <2>7, <2>8 DEF EndsAt
<1>4. QED
  BY <1>2, <1>3

LEMMA NextRecorded == TraceInv /\ LastRan /\ Recorded /\ [Next]_vars => Recorded'
<1> SUFFICES ASSUME TraceInv, LastRan, Recorded, [Next]_vars, NEW p \in Process, p \in Telling'
             PROVE  /\ state'[p] # DONE => \A k \in 0 .. i' - 1 : s'[p][k] \in Letters
                    /\ state'[p] = DONE => \E e \in 1 .. i' : EndsAt(p, e)'
  BY DEF Recorded, Telling
<1>1. p \in Telling /\ i \in Nat
  BY Called DEF Telling, TraceInv, IInv, TypeOK
<1>2. state[p] # DONE => \A k \in 0 .. i - 1 : s'[p][k] \in Letters
  <2>1. \A k \in 0 .. i - 1 : s'[p][k] = s[p][k]
    BY PrefixKept DEF TraceInv
  <2>2. QED
    BY <1>1, <2>1 DEF Recorded
<1>3. ASSUME state[p] = DONE, s'[p] = s[p] \/ s'[p] = Store(s[p], i, NUL)
      PROVE  \E e \in 1 .. i : EndsAt(p, e)'
  <2>1. PICK e \in 1 .. i : EndsAt(p, e)
    BY <1>1, <1>3 DEF Recorded
  <2>2. QED
    BY <1>3, <2>1, EndKept
<1>4. CASE AppendChars
  <2>1. state'[p] = state[p] /\ i' = i + 1
    BY <1>4 DEF AppendChars
  <2>2. CASE state[p] = DONE
    <3>1. s'[p] = s[p]
      BY <1>4, <2>2, AppendedChar DEF TraceInv
    <3>2. PICK e \in 1 .. i : EndsAt(p, e)'
      BY <1>3, <2>2, <3>1
    <3>3. QED
      BY <1>1, <2>1, <2>2, <3>2
  <2>3. CASE state[p] # DONE
    <3>1. s'[p][i] \in Letters
      <4>1. state[p] \in {READY, RUNNING, WAITING}
        BY <2>3 DEF TraceInv, IInv, TypeOK
      <4>2. QED
        BY <1>4, <4>1, RecordedAtI DEF Letters
    <3>2. \A k \in 0 .. i' - 1 : k \in 0 .. i - 1 \/ k = i
      BY <1>1, <2>1
    <3>3. QED
      BY <1>2, <2>1, <2>3, <3>1, <3>2
  <2>4. QED
    BY <2>2, <2>3
<1>5. ASSUME NEW q \in Process, Exit(q)
      PROVE  /\ state'[p] # DONE => \A k \in 0 .. i' - 1 : s'[p][k] \in Letters
             /\ state'[p] = DONE => \E e \in 1 .. i' : EndsAt(p, e)'
  <2>1. /\ i' = i /\ state[q] = RUNNING /\ cpuLeft[q] = 0 /\ ioLeft[q] = 0 /\ pc = "burst"
        /\ state' = [state EXCEPT ![q] = DONE]
        /\ s' = [s EXCEPT ![TerminatorOf(q)] = Store(@, i, NUL)]
    BY <1>5 DEF Exit, BurstOver, stateChars, READY, RUNNING, WAITING, DONE
  <2>2. s'[p] = s[p] \/ s'[p] = Store(s[p], i, NUL)
    BY <2>1 DEF TraceInv, IInv, TypeOK
  <2>3. CASE q # p
    <3>1. state'[p] = state[p]
      BY <2>1, <2>3 DEF TraceInv, IInv, TypeOK
    <3>2. QED
      BY <1>2, <1>3, <2>1, <2>2, <3>1
  <2>4. CASE q = p
    <3>1. TerminatorOf(p) = p
      BY <1>1 DEF TerminatorOf, Telling, Process
    <3>2. s'[p] = Store(s[p], i, NUL) /\ state'[p] = DONE
      BY <2>1, <2>4, <3>1 DEF TraceInv, IInv, TypeOK
    <3>3. i > 0 /\ s[p][i - 1] = "R"
      BY <2>1, <2>4 DEF LastRan
    <3>4. i < MAX_SIZE /\ MAX_SIZE \in Nat
      BY <2>1, <2>4, RoomForOne DEF TraceInv, MAX_SIZE, RUNNING, DONE
    <3>5. /\ DOMAIN s[p] = 0 .. MAX_SIZE - 1
          /\ DOMAIN s'[p] = DOMAIN s[p] \cup {i}
          /\ \A k \in DOMAIN s[p] \cup {i} : s'[p][k] = IF k = i THEN NUL ELSE s[p][k]
      BY <3>2 DEF Store, TraceInv, SpaceInv, EnoughSpace
    <3>6. \A k \in i .. MAX_SIZE - 1 : s'[p][k] \notin Letters
      <4>1. \A k \in i .. MAX_SIZE - 1 : k \in DOMAIN s[p] /\ s[p][k] \notin Letters
        BY <1>1, <3>4, <3>5 DEF TraceInv, Blank, Letters
      <4>2. NUL \notin Letters
        BY DEF NUL, Letters
      <4>3. QED
        BY <3>5, <4>1, <4>2
    <3>7. s'[p][i - 1] = "R"
      <4>1. i - 1 \in DOMAIN s[p] /\ i - 1 # i
        BY <1>1, <3>3, <3>4, <3>5
      <4>2. QED
        BY <3>3, <3>5, <4>1
    <3>8. \A k \in 0 .. i - 1 : s'[p][k] \in Letters
      BY <1>2, <2>1, <2>4 DEF RUNNING, DONE
    <3>9. i \in DOMAIN s'[p] /\ s'[p][i] = NUL
      BY <3>5
    <3>10. PICK e \in 1 .. i : e = i
      BY <1>1, <3>3
    <3>11. EndsAt(p, e)'
      BY <3>6, <3>7, <3>8, <3>9, <3>10 DEF EndsAt, MAX_SIZE
    <3>12. QED
      BY <2>1, <3>2, <3>11
  <2>5. QED
    BY <2>3, <2>4
<1>6. CASE ~ AppendChars /\ ~ \E q \in Process : Exit(q)
  <2>1. s' = s /\ i' = i
    BY <1>6 DEF Next, vars, StartIO, QuantumExpires, IOComplete, Dispatch, BurstGoesOn,
                NoDispatch, Return
  <2>2. state'[p] = DONE <=> state[p] = DONE
    BY <1>6, DoneByExit DEF TraceInv
  <2>3. QED
    BY <1>2, <1>3, <2>1, <2>2
<1>7. QED
  BY <1>4, <1>5, <1>6

(* One more letter w at the end of the block, or none. *)
LEMMA WaitingGrows ==
    ASSUME NEW old, NEW new, NEW n \in Nat, SamePrefix(old, new, n)
    PROVE  Occurrences(new, n + 1, "w")
             = Occurrences(old, n, "w") \cup (IF new[n] = "w" THEN {n} ELSE {})
BY DEF Occurrences, SamePrefix

LEMMA NextBlock == TraceInv /\ OneBlock /\ [Next]_vars => OneBlock'
<1> SUFFICES ASSUME TraceInv, OneBlock, [Next]_vars, NEW p \in Process
             PROVE  /\ ioLeft'[p] \in 0 .. y'[p]
                    /\ state'[p] # WAITING => ioLeft'[p] \in {0, y'[p]}
                    /\ \E k \in 0 .. i' : WaitsFrom(p, k)'
  BY DEF OneBlock
<1>1. PICK k \in 0 .. i : WaitsFrom(p, k)
  BY DEF OneBlock
<1>2. /\ i \in Nat /\ y' = y /\ y[p] \in Nat /\ ioLeft[p] \in 0 .. y[p]
      /\ state[p] # WAITING => ioLeft[p] \in {0, y[p]}
  BY Called DEF OneBlock, TraceInv, IInv, TypeOK, Bursts
<1>3. SamePrefix(s[p], s'[p], i)
  BY PrefixKept DEF TraceInv, SamePrefix
<1>4. CASE AppendChars
  <2>1. state'[p] = state[p] /\ i' = i + 1
    BY <1>4 DEF AppendChars
  <2>2. Occurrences(s'[p], i', "w")
          = Occurrences(s[p], i, "w") \cup (IF state[p] = WAITING THEN {i} ELSE {})
    <3>1. Occurrences(s'[p], i + 1, "w")
            = Occurrences(s[p], i, "w") \cup (IF s'[p][i] = "w" THEN {i} ELSE {})
      BY <1>2, <1>3, WaitingGrows
    <3>2. s'[p][i] = "w" <=> state[p] = WAITING
      BY <1>4, RecordedAtI
    <3>3. QED
      BY <2>1, <3>1, <3>2
  <2>3. CASE state[p] = WAITING
    <3>1. ioLeft[p] > 0 /\ ioLeft'[p] = ioLeft[p] - 1
      BY <1>4, <2>3 DEF AppendChars, TraceInv, IInv, TypeOK, CountersMatchState
    <3>2. ioLeft'[p] \in 0 .. y[p] /\ Waited(p)' = Waited(p) + 1 /\ Waited(p) \in Nat
      BY <1>2, <3>1 DEF Waited
    <3>3. k + Waited(p) = i /\ Occurrences(s[p], i, "w") = k .. i - 1
      <4>1. k + Waited(p) = i /\ Occurrences(s[p], i, "w") = k .. k + Waited(p) - 1
        BY <1>1, <2>3 DEF WaitsFrom
      <4>2. k + Waited(p) - 1 = i - 1
        BY <3>2, <4>1
      <4>3. QED
        BY ONLY <4>1, <4>2
    <3>4. Occurrences(s'[p], i', "w") = k .. i
      <4>1. k .. i = (k .. i - 1) \cup {i}
        BY <1>2
      <4>2. QED
        BY <2>2, <2>3, <3>3, <4>1
    <3>5. k + Waited(p)' = i' /\ k + Waited(p)' - 1 = i
      BY <1>2, <2>1, <3>2, <3>3
    <3>6. WaitsFrom(p, k)'
      BY <3>4, <3>5 DEF WaitsFrom
    <3>7. QED
      BY <1>2, <2>1, <2>3, <3>2, <3>6
  <2>4. CASE state[p] # WAITING
    <3>1. ioLeft'[p] = ioLeft[p]
      BY <1>4, <2>4 DEF AppendChars, TraceInv, IInv, TypeOK
    <3>2. Waited(p)' = Waited(p)
      BY <1>2, <3>1 DEF Waited
    <3>3. WaitsFrom(p, k)'
      BY <1>1, <2>1, <2>2, <2>4, <3>2 DEF WaitsFrom
    <3>4. QED
      BY <1>2, <2>1, <2>4, <3>1, <3>3
  <2>5. QED
    BY <2>3, <2>4
<1>5. CASE ~ AppendChars
  <2>1. i' = i /\ ioLeft'[p] = ioLeft[p]
    BY <1>5, TimeAdvances, ToComeKept DEF TraceInv
  <2>2. Waited(p)' = Waited(p) /\ Occurrences(s'[p], i', "w") = Occurrences(s[p], i, "w")
    BY <1>2, <1>3, <2>1, OccurrencesKept DEF Waited
  <2>3. CASE state'[p] = WAITING /\ state[p] # WAITING
    <3>1. ioLeft[p] # 0
      BY <1>5, <2>3, WaitsByStart DEF TraceInv, StartIO
    <3>2. ioLeft[p] = y[p] /\ Waited(p) = 0
      BY <1>2, <2>3, <3>1 DEF Waited
    <3>3. Occurrences(s[p], i, "w") = i .. i + 0 - 1
      BY <1>1, <1>2, <3>2 DEF WaitsFrom
    <3>4. PICK n \in 0 .. i : n = i
      BY <1>2
    <3>5. WaitsFrom(p, n)'
      BY <1>2, <2>1, <2>2, <3>2, <3>3, <3>4 DEF WaitsFrom
    <3>6. QED
      BY <1>2, <2>1, <2>3, <3>5
  <2>4. CASE state'[p] = WAITING <=> state[p] = WAITING
    <3>1. WaitsFrom(p, k)'
      BY <1>1, <2>1, <2>2, <2>4 DEF WaitsFrom
    <3>2. QED
      BY <1>2, <2>1, <2>4, <3>1
  <2>5. CASE state'[p] # WAITING /\ state[p] = WAITING
    <3>1. ioLeft[p] = 0
      BY <1>5, <2>5, WaitsByStart DEF TraceInv
    <3>2. WaitsFrom(p, k)'
      BY <1>1, <2>1, <2>2, <2>5 DEF WaitsFrom
    <3>3. QED
      BY <1>2, <2>1, <2>5, <3>1, <3>2
  <2>6. QED
    BY <2>3, <2>4, <2>5
<1>6. QED
  BY <1>4, <1>5

(* A string of the three letters is as long as they are many. *)
LEMMA ThreeLetters ==
    ASSUME NEW buf, NEW n \in Nat, \A k \in 0 .. n - 1 : buf[k] \in Letters
    PROVE  n = Cardinality(Occurrences(buf, n, "R")) + Cardinality(Occurrences(buf, n, "w"))
                 + Cardinality(Occurrences(buf, n, "r"))
<1> DEFINE O(c) == Occurrences(buf, n, c)
<1>1. /\ IsFiniteSet(O("R")) /\ IsFiniteSet(O("w")) /\ IsFiniteSet(O("r"))
      /\ Cardinality(O("R")) \in Nat /\ Cardinality(O("w")) \in Nat /\ Cardinality(O("r")) \in Nat
  BY OccurrencesFinite
<1>2. O("R") \cap O("w") = {} /\ (O("R") \cup O("w")) \cap O("r") = {}
  BY DEF Occurrences
<1>3. (O("R") \cup O("w")) \cup O("r") = 0 .. n - 1
  BY DEF Occurrences, Letters
<1>4. Cardinality({}) = 0
  BY FS_EmptySet
<1>5. Cardinality(0 .. n - 1) = n
  <2>1. Cardinality(0 .. n - 1) = IF 0 > n - 1 THEN 0 ELSE (n - 1) - 0 + 1
    BY FS_Interval
  <2>2. QED
    BY <2>1
<1> HIDE DEF O
<1>6. /\ IsFiniteSet(O("R") \cup O("w"))
      /\ Cardinality(O("R") \cup O("w")) = Cardinality(O("R")) + Cardinality(O("w"))
  <2>1. /\ IsFiniteSet(O("R") \cup O("w"))
        /\ Cardinality(O("R") \cup O("w"))
             = Cardinality(O("R")) + Cardinality(O("w")) - Cardinality(O("R") \cap O("w"))
    BY <1>1, FS_Union
  <2>2. Cardinality(O("R") \cap O("w")) = 0
    BY ONLY <1>2, <1>4
  <2>3. QED
    BY ONLY <1>1, <2>1, <2>2
<1>7. Cardinality((O("R") \cup O("w")) \cup O("r"))
        = Cardinality(O("R") \cup O("w")) + Cardinality(O("r"))
  <2>1. Cardinality((O("R") \cup O("w")) \cup O("r"))
          = Cardinality(O("R") \cup O("w")) + Cardinality(O("r"))
              - Cardinality((O("R") \cup O("w")) \cap O("r"))
    BY <1>1, <1>6, FS_Union
  <2>2. Cardinality((O("R") \cup O("w")) \cap O("r")) = 0
    BY ONLY <1>2, <1>4
  <2>3. QED
    BY ONLY <1>1, <1>6, <2>1, <2>2
<1>8. n = Cardinality(O("R")) + Cardinality(O("w")) + Cardinality(O("r"))
  BY <1>1, <1>3, <1>5, <1>6, <1>7
<1>9. QED
  BY <1>8 DEF O

(* The length of the string of a process that is done. *)
LEMMA LengthOfString ==
    ASSUME TraceInv, Recorded, NEW p \in Telling, state[p] = DONE
    PROVE  /\ StrLen(s[p]) \in 1 .. i
           /\ EndsAt(p, StrLen(s[p]))
           /\ \A c \in Letters : Occurrences(s[p], StrLen(s[p]), c) = Occurrences(s[p], i, c)
<1>1. PICK e \in 1 .. i : EndsAt(p, e)
  BY DEF Recorded
<1>2. /\ p \in Process /\ DOMAIN s[p] = 0 .. MAX_SIZE - 1 /\ MAX_SIZE \in Nat
      /\ i \in Nat /\ i <= MAX_SIZE
  BY DEF TraceInv, IInv, TypeOK, SpaceInv, EnoughSpace, Telling, MAX_SIZE
<1>3. NUL \notin Letters
  BY DEF NUL, Letters
<1> DEFINE P(n) == s[p][n] = NUL /\ \A k \in 0 .. n - 1 : s[p][k] # NUL
<1>4. e \in DOMAIN s[p] /\ P(e)
  BY <1>1, <1>3 DEF EndsAt
<1>5. ASSUME NEW n \in DOMAIN s[p], P(n) PROVE n = e
  <2>1. n \in Nat /\ e \in Nat
    BY <1>2
  <2>2. ~ n < e
    <3>1. n < e => n \in 0 .. e - 1
      BY <2>1
    <3>2. QED
      BY <1>1, <1>3, <1>5, <3>1 DEF EndsAt
  <2>3. ~ e < n
    <3>1. e < n => e \in 0 .. n - 1
      BY <2>1
    <3>2. QED
      BY <1>4, <1>5, <3>1
  <2>4. QED
    BY <2>1, <2>2, <2>3
<1>6. StrLen(s[p]) = CHOOSE n \in DOMAIN s[p] : P(n)
  BY DEF StrLen
<1> HIDE DEF P
<1>7. StrLen(s[p]) = e
  BY <1>4, <1>5, <1>6
<1>8. ASSUME NEW c \in Letters PROVE Occurrences(s[p], e, c) = Occurrences(s[p], i, c)
  <2>1. \A k \in e .. i - 1 : s[p][k] # c
    <3>1. \A k \in e .. i - 1 : k \in e .. MAX_SIZE - 1
      BY <1>2
    <3>2. QED
      BY <1>1, <1>8, <3>1 DEF EndsAt
  <2>2. \A k : k \in 0 .. i - 1 <=> k \in 0 .. e - 1 \/ k \in e .. i - 1
    BY <1>2
  <2>3. QED
    BY <2>1, <2>2 DEF Occurrences
<1>9. QED
  BY <1>1, <1>7, <1>8

LEMMA WellFormedAtEnd ==
    ASSUME TraceInv, BurstsAccounted, Recorded, OneBlock, NEW p \in Telling, state[p] = DONE
    PROVE  WellFormed(p)
<1> DEFINE n == StrLen(s[p])
<1>1. /\ p \in Process /\ i \in Nat /\ cpuLeft[p] = 0 /\ ioLeft[p] = 0
      /\ x[p] \in Nat /\ y[p] \in Nat /\ y[p] > 0 /\ z[p] \in Nat
  BY DEF Telling, TraceInv, IInv, TypeOK, CountersMatchState, Bursts, READY, RUNNING, WAITING, DONE
<1>2. /\ n \in 1 .. i /\ EndsAt(p, n)
      /\ \A c \in Letters : Occurrences(s[p], n, c) = Occurrences(s[p], i, c)
  BY LengthOfString
<1>3. "R" \in Letters /\ "w" \in Letters
  BY DEF Letters
<1> HIDE DEF n
<1>4. n \in Nat /\ n > 0
  BY <1>1, <1>2
<1>5. /\ Cardinality(Occurrences(s[p], n, "R")) = x[p] + z[p]
      /\ Cardinality(Occurrences(s[p], n, "w")) = y[p]
  <2>1. CpuToCome(p) = 0
    BY <1>1 DEF CpuToCome, WAITING, DONE
  <2>2. /\ Cardinality(Occurrences(s[p], i, "R")) + 0 = x[p] + z[p]
        /\ Cardinality(Occurrences(s[p], i, "w")) + 0 = y[p]
    BY <1>1, <2>1 DEF BurstsAccounted
  <2>3. Cardinality(Occurrences(s[p], i, "R")) \in Nat /\ Cardinality(Occurrences(s[p], i, "w")) \in Nat
    BY <1>1, OccurrencesFinite
  <2>4. QED
    BY <1>2, <1>3, <2>2, <2>3
<1>6. n = x[p] + y[p] + z[p] + Cardinality(Occurrences(s[p], n, "r"))
  <2>1. n = Cardinality(Occurrences(s[p], n, "R")) + Cardinality(Occurrences(s[p], n, "w"))
              + Cardinality(Occurrences(s[p], n, "r"))
    BY <1>2, <1>4, ThreeLetters DEF EndsAt
  <2>2. Cardinality(Occurrences(s[p], n, "r")) \in Nat
    BY <1>4, OccurrencesFinite
  <2>3. QED
    BY <1>1, <1>5, <2>1, <2>2
<1>7. \E k \in 0 .. n - 1 : Occurrences(s[p], n, "w") = k .. k + y[p] - 1
  <2>1. PICK k \in 0 .. i : WaitsFrom(p, k)
    BY <1>1 DEF OneBlock
  <2>2. Waited(p) = y[p]
    BY <1>1 DEF Waited
  <2>3. Occurrences(s[p], n, "w") = k .. k + y[p] - 1
    BY <1>2, <1>3, <2>1, <2>2 DEF WaitsFrom
  <2>4. k \in k .. k + y[p] - 1
    BY <1>1
  <2>5. k \in 0 .. n - 1
    BY <2>3, <2>4 DEF Occurrences
  <2>6. QED
    BY <2>3, <2>5
<1>8. Terminated(s[p]) /\ s[p][n - 1] = "R"
  BY <1>2 DEF EndsAt, Terminated
<1>9. \A k \in 0 .. n - 1 : s[p][k] \in {"r", "R", "w"}
  BY <1>2 DEF EndsAt, Letters
<1>10. QED
  BY <1>4, <1>6, <1>7, <1>8, <1>9 DEF WellFormed, n

LEMMA DisplayedAtEnd ==
    ASSUME TraceInv, BurstsAccounted, Recorded, WaitsOnlyForCpu, NeverBoth, Finished, alg # "fcfs"
    PROVE  LET d == Display(s[1], s[2]) IN
           /\ d.nR = x[1] + x[2] + z[1] + z[2]
           /\ d.nR <= d.sl
           /\ d.nr[1] + d.nr[2] <= d.nR
<1> DEFINE n(p) == StrLen(s[p])
           O(p, c) == Occurrences(s[p], n(p), c)
           count(p, c) == Cardinality(O(p, c))
           sl == IF n(1) > n(2) THEN n(1) ELSE n(2)
<1>1. /\ 1 \in Telling /\ 2 \in Telling /\ state[1] = DONE /\ state[2] = DONE
      /\ 1 \in Process /\ 2 \in Process /\ i \in Nat
      /\ Other(1) = 2 /\ Other(2) = 1
  BY DEF Telling, Process, Finished, TraceInv, IInv, TypeOK, Other
<1>2. ASSUME NEW p \in Telling, state[p] = DONE
      PROVE  n(p) \in Nat /\ n(p) <= i /\ \A c \in Letters : O(p, c) = Occurrences(s[p], i, c)
  BY <1>1, <1>2, LengthOfString
<1>3. ASSUME NEW p \in Telling, state[p] = DONE
      PROVE  count(p, "R") = x[p] + z[p]
  <2>1. p \in Process /\ cpuLeft[p] = 0 /\ ioLeft[p] = 0 /\ x[p] + z[p] \in Nat
    BY <1>3 DEF Telling, TraceInv, IInv, TypeOK, CountersMatchState, Bursts, READY, RUNNING,
                WAITING, DONE
  <2>2. CpuToCome(p) = 0
    BY <1>3, <2>1 DEF CpuToCome, WAITING, DONE
  <2>3. Cardinality(Occurrences(s[p], i, "R")) + 0 = x[p] + z[p]
    BY <2>1, <2>2 DEF BurstsAccounted
  <2>4. Cardinality(Occurrences(s[p], i, "R")) \in Nat
    BY <1>1, OccurrencesFinite
  <2>5. O(p, "R") = Occurrences(s[p], i, "R")
    BY <1>2, <1>3 DEF Letters
  <2>6. QED
    BY <2>3, <2>4, <2>5
<1>4. ASSUME NEW p \in Telling, state[p] = DONE, NEW c
      PROVE  IsFiniteSet(O(p, c)) /\ count(p, c) \in Nat
  BY <1>2, <1>4, OccurrencesFinite
<1>5. Display(s[1], s[2]) = [nr |-> <<count(1, "r"), count(2, "r")>>,
                             nR |-> count(1, "R") + count(2, "R"), sl |-> sl]
  BY DEF Display
<1>6. O(1, "r") \subseteq O(2, "R") /\ O(2, "r") \subseteq O(1, "R")
  <2>1. ASSUME NEW p \in {1, 2} PROVE O(p, "r") \subseteq O(Other(p), "R")
    <3>1. p \in Process /\ p \in Telling /\ Other(p) \in Telling
          /\ state[p] = DONE /\ state[Other(p)] = DONE
      BY <1>1
    <3>2. /\ O(p, "r") = Occurrences(s[p], i, "r")
          /\ O(Other(p), "R") = Occurrences(s[Other(p)], i, "R")
      BY <1>2, <3>1 DEF Letters
    <3>3. Occurrences(s[p], i, "r") \subseteq Occurrences(s[Other(p)], i, "R")
      BY <3>1 DEF Occurrences, WaitsOnlyForCpu
    <3>4. QED
      BY <3>2, <3>3
  <2>2. QED
    BY <1>1, <2>1
<1>7. O(1, "R") \cap O(2, "R") = {}
  <2>1. O(1, "R") = Occurrences(s[1], i, "R") /\ O(2, "R") = Occurrences(s[2], i, "R")
    BY <1>1, <1>2 DEF Letters
  <2>2. Occurrences(s[1], i, "R") \cap Occurrences(s[2], i, "R") = {}
    BY DEF Occurrences, NeverBoth
  <2>3. QED
    BY <2>1, <2>2
<1>8. sl \in Nat /\ n(1) \in Nat /\ n(2) \in Nat /\ n(1) <= sl /\ n(2) <= sl
  BY <1>1, <1>2
<1>9. O(1, "R") \cup O(2, "R") \subseteq 0 .. sl - 1
  <2>1. O(1, "R") \subseteq 0 .. n(1) - 1 /\ O(2, "R") \subseteq 0 .. n(2) - 1
    BY DEF Occurrences
  <2> HIDE DEF n, O, sl
  <2>2. 0 .. n(1) - 1 \subseteq 0 .. sl - 1 /\ 0 .. n(2) - 1 \subseteq 0 .. sl - 1
    BY <1>8
  <2>3. QED
    BY <2>1, <2>2
<1> HIDE DEF n, O, sl
<1>10. count(1, "R") + count(2, "R") <= sl
  <2>1. /\ IsFiniteSet(O(1, "R")) /\ IsFiniteSet(O(2, "R"))
        /\ count(1, "R") \in Nat /\ count(2, "R") \in Nat
    BY <1>1, <1>4
  <2>2. Cardinality(O(1, "R") \cup O(2, "R")) = count(1, "R") + count(2, "R")
    <3>1. Cardinality(O(1, "R") \cup O(2, "R"))
            = Cardinality(O(1, "R")) + Cardinality(O(2, "R")) - Cardinality(O(1, "R") \cap O(2, "R"))
      BY <2>1, FS_Union
    <3>2. Cardinality({}) = 0
      BY FS_EmptySet
    <3>3. Cardinality(O(1, "R") \cap O(2, "R")) = 0
      BY ONLY <1>7, <3>2
    <3>4. QED
      BY ONLY <2>1, <3>1, <3>3
  <2>3. IsFiniteSet(0 .. sl - 1) /\ Cardinality(0 .. sl - 1) = sl
    <3>1. /\ IsFiniteSet(0 .. sl - 1)
          /\ Cardinality(0 .. sl - 1) = IF 0 > sl - 1 THEN 0 ELSE (sl - 1) - 0 + 1
      <4>1. 0 \in Int /\ sl - 1 \in Int
        BY <1>8
      <4>2. QED
        BY ONLY <4>1, FS_Interval
    <3>2. QED
      BY <1>8, <3>1
  <2>4. Cardinality(O(1, "R") \cup O(2, "R")) <= sl
    <3>1. Cardinality(O(1, "R") \cup O(2, "R")) <= Cardinality(0 .. sl - 1)
      <4>1. O(1, "R") \cup O(2, "R") \in SUBSET (0 .. sl - 1)
        BY <1>9
      <4>2. QED
        BY ONLY <2>3, <4>1, FS_Subset
    <3>2. QED
      BY ONLY <2>3, <3>1
  <2>5. QED
    BY <2>2, <2>4
<1>11. count(1, "r") + count(2, "r") <= count(1, "R") + count(2, "R")
  <2>1. /\ IsFiniteSet(O(1, "R")) /\ IsFiniteSet(O(2, "R"))
        /\ count(1, "R") \in Nat /\ count(2, "R") \in Nat
        /\ count(1, "r") \in Nat /\ count(2, "r") \in Nat
    BY <1>1, <1>4
  <2>2. count(1, "r") <= count(2, "R") /\ count(2, "r") <= count(1, "R")
    BY <1>6, <2>1, FS_Subset
  <2>3. QED
    BY <2>1, <2>2
<1>12. count(1, "R") + count(2, "R") = x[1] + x[2] + z[1] + z[2]
  <2>1. count(1, "R") = x[1] + z[1] /\ count(2, "R") = x[2] + z[2]
    BY <1>1, <1>3
  <2>2. x[1] \in Nat /\ x[2] \in Nat /\ z[1] \in Nat /\ z[2] \in Nat
    BY <1>1 DEF TraceInv, IInv, TypeOK, Bursts
  <2>3. QED
    BY <2>1, <2>2
<1> HIDE DEF count
<1>13. QED
  BY <1>5, <1>10, <1>11, <1>12

(* The strings that a function leaves, and what display prints of them, are *)
(* the schedule: in sjf, psjf and rr each string has the three letters of    *)
(* its process alone, is terminated behind its last unit of computing, holds *)
(* its I/O as one block and is as long as the process took; the running      *)
(* characters are the CPU demand, and never more than the processor's time.  *)
(* In fcfs the same holds of P1's string (pslibrary.c:25-346).               *)
THEOREM StringsAreTheSchedule == Spec => []StringsTellSchedule
<1> DEFINE TellInv == Recorded /\ LastRan /\ NeverBoth /\ OneBlock
<1>1. ASSUME Init PROVE TellInv
  <2>1. /\ i = 0 /\ ioLeft = y /\ x \in [Process -> Bursts] /\ y \in [Process -> Bursts]
        /\ cpuLeft = x /\ \A p \in Process : state[p] = READY
    BY <1>1 DEF Init
  <2>2. Recorded /\ LastRan /\ NeverBoth
    BY <2>1 DEF Recorded, LastRan, NeverBoth, Telling, READY, RUNNING, DONE
  <2>3. ASSUME NEW p \in Process
        PROVE  /\ ioLeft[p] \in 0 .. y[p]
               /\ state[p] # WAITING => ioLeft[p] \in {0, y[p]}
               /\ \E k \in 0 .. i : WaitsFrom(p, k)
    <3>1. y[p] \in Nat /\ ioLeft[p] = y[p]
      BY <2>1 DEF Bursts
    <3>2. Waited(p) = 0 /\ state[p] # WAITING
      BY <2>1, <3>1 DEF Waited, READY, WAITING
    <3>3. Occurrences(s[p], 0, "w") = 0 .. 0 + 0 - 1
      BY DEF Occurrences
    <3>4. WaitsFrom(p, 0)
      BY <2>1, <3>2, <3>3 DEF WaitsFrom
    <3>5. 0 \in 0 .. i
      BY <2>1
    <3>6. QED
      BY <3>1, <3>4, <3>5
  <2>4. QED
    BY <2>2, <2>3 DEF OneBlock
<1>2. TraceInv /\ TellInv /\ [Next]_vars => TellInv'
  BY NextRecorded, NextLastRan, NextNeverBoth, NextBlock
<1>3. TraceInv /\ TellInv /\ BurstsAccounted /\ WaitsOnlyForCpu => StringsTellSchedule
  <2> SUFFICES ASSUME TraceInv, TellInv, BurstsAccounted, WaitsOnlyForCpu, pc = "returned"
               PROVE  /\ \A p \in Process : (alg = "fcfs" => p = 1) => WellFormed(p)
                      /\ alg # "fcfs" => DisplayConsistent
    BY DEF StringsTellSchedule, StringsWellFormed, DisplayConsistent
  <2>1. Finished
    BY DEF TraceInv, IInv
  <2>2. ASSUME NEW p \in Process, alg = "fcfs" => p = 1 PROVE WellFormed(p)
    <3>1. p \in Telling /\ state[p] = DONE
      BY <2>1, <2>2 DEF Telling, Finished
    <3>2. QED
      BY <3>1, WellFormedAtEnd
  <2>3. ASSUME alg # "fcfs" PROVE DisplayConsistent
    BY <2>1, <2>3, DisplayedAtEnd DEF DisplayConsistent
  <2>4. QED
    BY <2>2, <2>3
<1>4. QED
  BY <1>1, <1>2, <1>3, TraceInvariant, BurstAccounting, NeverIdle, PTL DEF Spec
=============================================================================
