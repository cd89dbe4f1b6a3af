------------------------- MODULE BroadcastDueProofs -------------------------
(***************************************************************************)
(* Theorems about BroadcastDue, for any number of entries, processes and   *)
(* faults, any schedule and any command line.                              *)
(***************************************************************************)
EXTENDS BroadcastDue, TLAPS

----------------------------------------------------------------------------
(* The operators on the state file.                                        *)

LEMMA BlankType == Blank \in States
BY DEF Blank, States, Entry, Stamp

LEMMA MarkedType ==
    ASSUME NEW st \in States, NEW o \in Orders, NEW t \in Nat
    PROVE  /\ MarkedBroadcast(st, o, t) \in States
           /\ MarkedFailed(st, o) \in States
           /\ WithReady(st, o, t) \in States
BY DEF MarkedBroadcast, MarkedFailed, WithReady, States, Entry, Stamp

\* Draws and catch-up times are times.
LEMMA DrawsType ==
    ASSUME NEW st \in States, NEW pl \in [Orders -> Nat], NEW o \in Orders, NEW j \in Nat
    PROVE  Draws(st, pl, o, j) \subseteq Nat
<1>1. CASE st[o].ready # None
  BY <1>1 DEF Draws, States, Entry, Stamp
<1>2. CASE st[o].ready = None
  BY <1>2 DEF Draws
<1> QED BY <1>1, <1>2

LEMMA FloorsType ==
    ASSUME NEW st \in States, NEW pl \in [Orders -> Nat], NEW o \in Orders
    PROVE  CatchUpFloors(st, pl, o) \subseteq Int
<1> SUFFICES ASSUME o # 1, NEW q \in 1 .. (o - 1), st[q].at # None
             PROVE  st[q].at + (pl[o] - pl[o - 1]) \in Int
  BY DEF CatchUpFloors
<1>1. q \in Orders /\ o - 1 \in Orders
  BY SizeAssumption DEF Orders
<1>2. st[q].at \in Nat
  BY <1>1 DEF States, Entry, Stamp
<1> QED BY <1>1, <1>2

\* The time settled for an order is its draw or a later catch-up time.
LEMMA ReadyTimesType ==
    ASSUME NEW st \in States, NEW pl \in [Orders -> Nat], NEW o \in Orders,
           NEW j \in Nat, NEW r \in ReadyTimes(st, pl, o, j)
    PROVE  /\ r \in Nat
           /\ \E d \in Draws(st, pl, o, j) :
                /\ r >= d
                /\ r = d \/ r \in CatchUpFloors(st, pl, o)
           /\ \A f \in CatchUpFloors(st, pl, o) : r >= f
<1>1. PICK d \in Draws(st, pl, o, j) : r \in Latest({d} \cup CatchUpFloors(st, pl, o))
  BY DEF ReadyTimes
<1>2. /\ r \in {d} \cup CatchUpFloors(st, pl, o)
      /\ \A u \in {d} \cup CatchUpFloors(st, pl, o) : u <= r
  BY <1>1 DEF Latest
<1>3. d \in Nat /\ r \in Int
  BY <1>2, DrawsType, FloorsType
<1> QED BY <1>2, <1>3, FloorsType

----------------------------------------------------------------------------
(* The steps of save_atomic.                                               *)

\* What a text leaves in a file is a state again, and says "broadcast" of no
\* order of which neither the text nor the file said it before.
LEMMA OverwrittenType ==
    ASSUME NEW old \in States, NEW new \in States, NEW shape,
           NEW r \in Overwritten(old, shape, new)
    PROVE  /\ r.holds \in States /\ r.form \in {"whole", "torn"}
           /\ \A nd : Honest(old, nd) /\ Honest(new, nd) => Honest(r.holds, nd)
<1>1. CASE r.holds = new /\ r.form \in {"whole", "torn"}
  BY <1>1
<1>2. CASE ~(r.holds = new /\ r.form \in {"whole", "torn"})
  <2>1. PICK k \in 2 .. N : r = [holds |-> Spliced(old, new, k), form |-> "whole"]
    BY <1>2 DEF Overwritten
  <2>2. Spliced(old, new, k) \in States
    BY DEF Spliced, States
  <2>3. \A nd : Honest(old, nd) /\ Honest(new, nd) => Honest(Spliced(old, new, k), nd)
    BY DEF Spliced, Honest
  <2> QED BY <2>1, <2>2, <2>3
<1> QED BY <1>1, <1>2

LEMMA OpenType ==
    ASSUME DiskTypeOK, NEW w \in Writers, Open(w)
    PROVE  DiskTypeOK'
BY BlankType DEF DiskTypeOK, Open, Forms

LEMMA WriteType ==
    ASSUME DiskTypeOK, NEW w \in Writers, NEW text \in States, Write(w, text),
           opened[w] = "tmp" => tmpFile # None
    PROVE  DiskTypeOK'
<1> USE DEF DiskTypeOK, Forms
<1>1. UNCHANGED <<notBefore, signed>> /\ opened' = [opened EXCEPT ![w] = "closed"]
  BY DEF Write
<1>2. CASE opened[w] = "tmp"
  <2>1. PICK r \in Overwritten(tmpFile, form.tmp, text) :
          tmpFile' = r.holds /\ form' = [form EXCEPT !.tmp = r.form]
    BY <1>2 DEF Write
  <2>2. tmpFile \in States /\ UNCHANGED stateFile
    BY <1>2 DEF Write
  <2>3. r.holds \in States /\ r.form \in {"whole", "torn"}
    BY <2>2, OverwrittenType
  <2> QED BY <1>1, <2>1, <2>2, <2>3
<1>3. CASE opened[w] = "state"
  <2>1. PICK r \in Overwritten(stateFile, form.state, text) :
          stateFile' = r.holds /\ form' = [form EXCEPT !.state = r.form]
    BY <1>3 DEF Write
  <2>2. stateFile \in States /\ UNCHANGED tmpFile
    BY <1>3 DEF Write
  <2>3. r.holds \in States /\ r.form \in {"whole", "torn"}
    BY <2>2, OverwrittenType
  <2> QED BY <1>1, <2>1, <2>2, <2>3
<1>4. CASE opened[w] \notin {"tmp", "state"}
  BY <1>1, <1>4 DEF Write
<1> QED BY <1>2, <1>3, <1>4

LEMMA ReplaceType ==
    ASSUME DiskTypeOK, Replace
    PROVE  DiskTypeOK'
BY DEF DiskTypeOK, Replace, Forms

LEMMA AbandonType ==
    ASSUME DiskTypeOK, NEW w \in Writers, Abandon(w)
    PROVE  DiskTypeOK'
BY DEF DiskTypeOK, Abandon

----------------------------------------------------------------------------
(* Type correctness.                                                       *)

\* Leaving a pass, and moving on to the next entry, keep the locals typed.
LEMMA ExitType ==
    ASSUME PassTypeOK, Located, NEW p \in Proc, Exit(p)
    PROVE  PassTypeOK' /\ Located'
<1>1. AnyOption \in Options
  BY EnvironmentAssumption DEF AnyOption
<1>2. [o \in Orders |-> 0] \in [Orders -> Nat]
  OBVIOUS
<1>3. 0 \in Time /\ 0 \in Nat /\ 1 \in 1 .. (N + 1) /\ None \in Stamp
  BY SizeAssumption DEF Time, Stamp
<1>4. PassTypeOK'
  BY <1>1, <1>2, <1>3, BlankType DEF PassTypeOK, Exit
<1>5. Located'
  BY <1>4 DEF Located, AtWork, Exit, PassTypeOK
<1> QED BY <1>4, <1>5

LEMMA NextEntryType ==
    ASSUME PassTypeOK, Located, NEW p \in Proc, cur[p] \in Orders, NextEntry(p),
           dirOk' \in [Proc -> BOOLEAN]
    PROVE  PassTypeOK' /\ Located'
<1>1. cur[p] + 1 \in 1 .. (N + 1)
  BY SizeAssumption DEF Orders
<1>2. PassTypeOK'
  BY <1>1 DEF PassTypeOK, NextEntry, Goto, Stamp
<1>3. Located'
  BY DEF Located, AtWork, NextEntry, Goto, PassTypeOK
<1> QED BY <1>2, <1>3

LEMMA NextAttemptedType ==
    ASSUME PassTypeOK, Located, NEW p \in Proc, cur[p] \in Orders, NextAttempted(p)
    PROVE  PassTypeOK' /\ Located'
<1>1. cur[p] + 1 \in 1 .. (N + 1) /\ sent[p] + 1 \in Nat
  BY SizeAssumption DEF Orders, PassTypeOK
<1>2. PassTypeOK'
  BY <1>1 DEF PassTypeOK, NextAttempted, Goto, Stamp
<1>3. Located'
  BY DEF Located, AtWork, NextAttempted, Goto, PassTypeOK
<1> QED BY <1>2, <1>3

\* Moving on inside an entry.
LEMMA GotoType ==
    ASSUME PassTypeOK, Located, NEW p \in Proc, AtWork(p), UNCHANGED locals,
           NEW label \in {"gate", "lookup", "test", "send", "mark", "saveResult",
                          "writeReady", "writeResult", "swapReady", "swapResult"},
           Goto(p, label)
    PROVE  PassTypeOK' /\ Located'
BY DEF PassTypeOK, Located, AtWork, Goto, locals, Saving, SavingReady, SavingResult

LEMMA MarkFailedType ==
    ASSUME PassTypeOK, Located, NEW p \in Proc, AtWork(p), MarkFailed(p)
    PROVE  PassTypeOK' /\ Located'
<1>1. MarkedFailed(mem[p], cur[p]) \in States
  BY MarkedType, 0 \in Nat DEF PassTypeOK, Located
<1>2. PassTypeOK'
  BY <1>1 DEF PassTypeOK, MarkFailed, Goto, Saving, SavingResult
<1>3. Located'
  BY DEF Located, AtWork, MarkFailed, Goto, PassTypeOK
<1> QED BY <1>2, <1>3

LEMMA AtEntryType ==
    ASSUME TypeOK, NEW p \in Proc, AtEntry(p)
    PROVE  cur[p] \in Orders
BY SizeAssumption DEF TypeOK, PassTypeOK, AtEntry, Orders

LEMMA AtWorkType ==
    ASSUME TypeOK, NEW p \in Proc, AtWork(p)
    PROVE  cur[p] \in Orders /\ ready[p] \in Nat
BY DEF TypeOK, Located

LEMMA FaultType ==
    ASSUME TypeOK, NEW kind, Fault(kind)
    PROVE  faults' \in 0 .. MaxFaults
BY SizeAssumption DEF TypeOK, WorldTypeOK, Fault

LEMMA AcceptType ==
    ASSUME TypeOK, NEW o \in Orders, Accept(o)
    PROVE  /\ node' \in [Orders -> {"unknown", "mempool", "mined"}]
           /\ sentAt' \in [Orders -> Stamp]
           /\ clock' = clock
BY DEF TypeOK, WorldTypeOK, Accept, Time, Stamp

LEMMA InitType == Init => TypeOK
<1> SUFFICES ASSUME Init PROVE TypeOK
  OBVIOUS
<1>1. DiskTypeOK
  BY EnvironmentAssumption, BlankType DEF Init, DiskTypeOK, Forms
<1>2. WorldTypeOK
  BY SizeAssumption DEF Init, WorldTypeOK, Time, Stamp
<1>3. AnyOption \in Options
  BY EnvironmentAssumption DEF AnyOption
<1>4. PassTypeOK
  BY <1>3, SizeAssumption, BlankType DEF Init, PassTypeOK, Time, Stamp
<1>5. Located
  BY DEF Init, Located, AtWork
<1>6. Handles
  BY DEF Init, Handles, Writers
<1> QED BY <1>1, <1>2, <1>4, <1>5, <1>6 DEF TypeOK

\* What a step keeps of TypeOK by itself; the handles follow from it.
Typed == DiskTypeOK /\ WorldTypeOK /\ PassTypeOK /\ Located

LEMMA StepTyped == TypeOK /\ [Next]_vars => Typed'
<1> SUFFICES ASSUME TypeOK, [Next]_vars PROVE Typed'
  OBVIOUS
<1> USE DEF TypeOK, Typed
<1>1. ASSUME NEW p \in Proc, PassStep(p) PROVE Typed'
  <2>1. CASE Start(p)
    <3>1. DiskTypeOK' /\ WorldTypeOK'
      BY <2>1 DEF Start, disk, files, world, DiskTypeOK, WorldTypeOK
    <3>2. PassTypeOK'
      BY <2>1 DEF Start, Goto, DiskTypeOK, PassTypeOK
    <3>3. Located'
      BY <2>1 DEF Start, Goto, Located, AtWork, PassTypeOK
    <3> QED BY <3>1, <3>2, <3>3
  <2>2. CASE Load(p)
    <3>1. DiskTypeOK' /\ WorldTypeOK'
      BY <2>2 DEF Load, disk, files, world, DiskTypeOK, WorldTypeOK
    <3>2. opt[p].dry_run \in BOOLEAN
      BY EnvironmentAssumption DEF PassTypeOK, OptionSet
    <3>3. PassTypeOK'
      BY <2>2, <3>2 DEF Load, Goto, DiskTypeOK, WorldTypeOK, PassTypeOK
    <3>4. Located'
      BY <2>2 DEF Load, Goto, Located, AtWork, PassTypeOK
    <3> QED BY <3>1, <3>3, <3>4
  <2>24. CASE LoadDies(p)
    BY <2>24, ExitType DEF LoadDies, disk, files, world, DiskTypeOK, WorldTypeOK
  <2>3. CASE Return(p)
    BY <2>3, ExitType DEF Return, disk, files, world, DiskTypeOK, WorldTypeOK
  <2>4. CASE PassOver(p)
    BY <2>4, NextEntryType, AtEntryType
    DEF PassOver, disk, files, world, DiskTypeOK, WorldTypeOK, PassTypeOK
  <2>5. CASE NothingSigned(p)
    BY <2>5, ExitType DEF NothingSigned, disk, files, world, DiskTypeOK, WorldTypeOK
  <2>6. CASE NotSigned(p)
    BY <2>6, NextEntryType, AtEntryType
    DEF NotSigned, disk, files, world, DiskTypeOK, WorldTypeOK, PassTypeOK
  <2>7. CASE Resolve(p)
    <3>1. DiskTypeOK' /\ WorldTypeOK'
      BY <2>7 DEF Resolve, disk, files, world, DiskTypeOK, WorldTypeOK
    <3>2. cur[p] \in Orders
      BY <2>7, AtEntryType DEF Resolve
    <3>3. mem[p] \in States /\ plan[p] \in [Orders -> Nat] /\ opt[p].jitter \in Nat
      BY EnvironmentAssumption DEF PassTypeOK, OptionSet
    <3>4. PICK r \in ReadyTimes(mem[p], plan[p], cur[p], opt[p].jitter) :
            /\ ready' = [ready EXCEPT ![p] = r]
            /\ \/ /\ mem' = [mem EXCEPT ![p] = WithReady(mem[p], cur[p], r)]
                  /\ pc' = [pc EXCEPT ![p] = "saveReady"]
               \/ /\ mem' = mem
                  /\ pc' = [pc EXCEPT ![p] = "gate"]
      BY <2>7 DEF Resolve, Goto
    <3>5. r \in Nat
      BY <3>2, <3>3, ReadyTimesType
    <3>6. WithReady(mem[p], cur[p], r) \in States
      BY <3>2, <3>3, <3>5, MarkedType
    <3>7. /\ dirOk' = [dirOk EXCEPT ![p] = TRUE]
          /\ UNCHANGED <<opt, plan, now, cur, sent>>
      BY <2>7 DEF Resolve
    <3>8. PassTypeOK'
      <4>1. ready' \in [Proc -> Stamp]
        BY <3>4, <3>5 DEF PassTypeOK, Stamp
      <4>2. mem' \in [Proc -> States]
        BY <3>4, <3>6 DEF PassTypeOK
      <4> QED BY <3>4, <3>7, <4>1, <4>2 DEF PassTypeOK, Saving, SavingReady
    <3>9. Located'
      BY <3>2, <3>4, <3>5, <3>7 DEF Located, AtWork, PassTypeOK
    <3> QED BY <3>1, <3>8, <3>9
  <2>8. CASE WriteTmp(p)
    <3>1. p \in Writers /\ mem[p] \in States
      BY DEF Writers, PassTypeOK
    <3>2. opened[p] = "tmp" => tmpFile # None
      BY <3>1 DEF Handles
    <3>3. DiskTypeOK' /\ WorldTypeOK'
      BY <2>8, <3>1, <3>2, WriteType DEF WriteTmp, world, WorldTypeOK
    <3>4. PassTypeOK' /\ Located'
      BY <2>8, GotoType DEF WriteTmp, AtWork
    <3> QED BY <3>3, <3>4
  <2>25. CASE OpenTmp(p)
    <3>1. DiskTypeOK' /\ WorldTypeOK'
      BY <2>25, OpenType DEF OpenTmp, world, WorldTypeOK, Writers
    <3>2. PassTypeOK' /\ Located'
      BY <2>25, GotoType DEF OpenTmp, AtWork
    <3> QED BY <3>1, <3>2
  <2>9. CASE SwapReady(p)
    <3>1. DiskTypeOK' /\ WorldTypeOK'
      BY <2>9, ReplaceType DEF SwapReady, world, WorldTypeOK
    <3>2. PassTypeOK' /\ Located'
      BY <2>9, GotoType DEF SwapReady, AtWork
    <3> QED BY <3>1, <3>2
  <2>10. CASE SwapResult(p)
    <3>1. DiskTypeOK' /\ WorldTypeOK'
      BY <2>10, ReplaceType DEF SwapResult, world, WorldTypeOK
    <3>2. PassTypeOK' /\ Located'
      BY <2>10, NextAttemptedType, AtWorkType DEF SwapResult, AtWork
    <3> QED BY <3>1, <3>2
  <2>11. CASE SwapDies(p)
    BY <2>11, ExitType DEF SwapDies, disk, files, world, DiskTypeOK, WorldTypeOK
  <2>12. CASE Hold(p)
    <3>1. DiskTypeOK' /\ WorldTypeOK'
      BY <2>12 DEF Hold, disk, files, world, DiskTypeOK, WorldTypeOK
    <3>2. cur[p] \in Orders
      BY <2>12, AtWorkType DEF Hold, AtWork
    <3>3. PassTypeOK' /\ Located'
      BY <2>12, <3>2, NextEntryType DEF Hold, PassTypeOK
    <3> QED BY <3>1, <3>3
  <2>13. CASE Finalize(p)
    BY <2>13, GotoType
    DEF Finalize, AtWork, disk, files, world, DiskTypeOK, WorldTypeOK
  <2>14. CASE FinalizeFails(p)
    BY <2>14, MarkFailedType
    DEF FinalizeFails, MarkFailed, AtWork, disk, files, world, DiskTypeOK, WorldTypeOK
  <2>15. CASE ParseDies(p)
    BY <2>15, ExitType DEF ParseDies, disk, files, world, DiskTypeOK, WorldTypeOK
  <2>16. CASE LookupFinds(p)
    BY <2>16, GotoType
    DEF LookupFinds, AtWork, disk, files, world, DiskTypeOK, WorldTypeOK
  <2>17. CASE LookupMisses(p)
    <3>1. DiskTypeOK' /\ WorldTypeOK'
      BY <2>17, FaultType DEF LookupMisses, disk, files, DiskTypeOK, WorldTypeOK
    <3>2. AtWork(p) /\ cur[p] \in Orders
      BY <2>17, AtWorkType DEF LookupMisses, AtWork
    <3>3. PassTypeOK' /\ Located'
      BY <2>17, <3>2, GotoType, NextAttemptedType DEF LookupMisses
    <3> QED BY <3>1, <3>3
  <2>18. CASE TestPasses(p)
    <3>1. DiskTypeOK' /\ WorldTypeOK'
      BY <2>18, FaultType DEF TestPasses, disk, files, DiskTypeOK, WorldTypeOK
    <3>2. PassTypeOK' /\ Located'
      BY <2>18, GotoType DEF TestPasses, AtWork
    <3> QED BY <3>1, <3>2
  <2>19. CASE TestRejects(p)
    <3>1. DiskTypeOK' /\ WorldTypeOK'
      BY <2>19, FaultType DEF TestRejects, MarkFailed, disk, files, DiskTypeOK, WorldTypeOK
    <3>2. PassTypeOK' /\ Located'
      BY <2>19, MarkFailedType DEF TestRejects, AtWork
    <3> QED BY <3>1, <3>2
  <2>20. CASE SendReturns(p)
    <3>1. AtWork(p) /\ cur[p] \in Orders
      BY <2>20, AtWorkType DEF SendReturns, AtWork
    <3>2. DiskTypeOK' /\ WorldTypeOK'
      BY <2>20, <3>1, AcceptType DEF SendReturns, disk, files, DiskTypeOK, WorldTypeOK
    <3>3. PassTypeOK' /\ Located'
      BY <2>20, <3>1, GotoType DEF SendReturns
    <3> QED BY <3>2, <3>3
  <2>21. CASE SendFails(p)
    <3>1. DiskTypeOK' /\ WorldTypeOK'
      BY <2>21, FaultType DEF SendFails, MarkFailed, disk, files, DiskTypeOK, WorldTypeOK
    <3>2. PassTypeOK' /\ Located'
      BY <2>21, MarkFailedType DEF SendFails, AtWork
    <3> QED BY <3>1, <3>2
  <2>22. CASE SendDies(p)
    <3>1. AtWork(p) /\ cur[p] \in Orders
      BY <2>22, AtWorkType DEF SendDies, AtWork
    <3>2. DiskTypeOK' /\ WorldTypeOK'
      BY <2>22, <3>1, AcceptType, FaultType DEF SendDies, disk, files, DiskTypeOK, WorldTypeOK
    <3> QED BY <2>22, <3>2, ExitType DEF SendDies
  <2>23. CASE MarkBroadcast(p)
    <3>1. DiskTypeOK' /\ WorldTypeOK'
      BY <2>23 DEF MarkBroadcast, disk, files, world, DiskTypeOK, WorldTypeOK
    <3>2. cur[p] \in Orders
      BY <2>23, AtWorkType DEF MarkBroadcast, AtWork
    <3>3. MarkedBroadcast(mem[p], cur[p], clock) \in States
      BY <3>2, MarkedType, SizeAssumption DEF PassTypeOK, WorldTypeOK, Time
    <3>4. PassTypeOK'
      BY <2>23, <3>3 DEF MarkBroadcast, Goto, PassTypeOK, Saving, SavingResult
    <3>5. Located'
      BY <2>23, <3>2 DEF MarkBroadcast, Goto, Located, AtWork, PassTypeOK
    <3> QED BY <3>1, <3>4, <3>5
  <2> QED
    BY <1>1, <2>1, <2>2, <2>3, <2>4, <2>5, <2>6, <2>7, <2>8, <2>9, <2>10, <2>11, <2>12,
       <2>13, <2>14, <2>15, <2>16, <2>17, <2>18, <2>19, <2>20, <2>21, <2>22, <2>23,
       <2>24, <2>25
    DEF PassStep
<1>2. ASSUME NEW p \in Proc, Crash(p) PROVE Typed'
  <2>1. DiskTypeOK' /\ WorldTypeOK'
    BY <1>2, FaultType, AbandonType DEF Crash, WorldTypeOK, Writers
  <2> QED BY <1>2, <2>1, ExitType DEF Crash
<1>3. CASE Environment
  <2> USE DEF DiskTypeOK, WorldTypeOK, PassTypeOK, Located, AtWork, disk, files, locals
  <2>1. CASE Tick
    BY <2>1, SizeAssumption DEF Tick, Time
  <2>2. ASSUME NEW o \in Orders, Sign(o) PROVE Typed'
    BY <2>2, EnvironmentAssumption DEF Sign, world
  <2>3. ASSUME NEW o \in Orders, ManualSend(o) PROVE Typed'
    BY <2>3 DEF ManualSend
  <2>4. ASSUME NEW o \in Orders, Mine(o) PROVE Typed'
    BY <2>4 DEF Mine
  <2> QED BY <1>3, <2>1, <2>2, <2>3, <2>4 DEF Environment
<1>4. CASE UNCHANGED vars
  BY <1>4
  DEF vars, disk, files, world, locals, DiskTypeOK, WorldTypeOK, PassTypeOK, Located, AtWork
<1> QED BY <1>1, <1>2, <1>3, <1>4 DEF Next

\* A step of a pass, or the death of one, that leaves the files alone and does not
\* touch a pass that writes keeps the handles as they are.
LEMMA KeepsHandles ==
    ASSUME TypeOK, NEW p \in Proc, NEW label,
           pc[p] \notin {"writeReady", "writeResult"},
           label \notin {"writeReady", "writeResult"},
           Goto(p, label), UNCHANGED <<tmpFile, opened>>
    PROVE  Handles'
BY DEF TypeOK, PassTypeOK, Handles, Goto

LEMMA StepHandles == TypeOK /\ [Next]_vars => Handles'
<1> SUFFICES ASSUME TypeOK, [Next]_vars PROVE Handles'
  OBVIOUS
<1>1. ASSUME NEW p \in Proc, PassStep(p) PROVE Handles'
  <2> USE DEF TypeOK, PassTypeOK, DiskTypeOK, Handles, Goto
  <2>1. CASE OpenTmp(p)
    <3>1. p \in Writers /\ Blank # None
      BY FileAssumption, BlankType DEF Writers
    <3>2. /\ pc' = [pc EXCEPT ![p] = "writeReady"] \/ pc' = [pc EXCEPT ![p] = "writeResult"]
          /\ opened' = [opened EXCEPT ![p] = "tmp"] /\ tmpFile' = Blank
      BY <2>1 DEF OpenTmp, Open
    <3> QED BY <3>1, <3>2
  <2>2. CASE WriteTmp(p)
    <3>1. p \in Writers /\ mem[p] \in States
      BY DEF Writers
    <3>2. DiskTypeOK'
      BY StepTyped DEF Next, Typed
    <3>3. /\ pc' = [pc EXCEPT ![p] = "swapReady"] \/ pc' = [pc EXCEPT ![p] = "swapResult"]
          /\ opened' = [opened EXCEPT ![p] = "closed"]
      BY <2>2 DEF WriteTmp, Write
    <3>4. tmpFile # None => tmpFile' # None
      <4>1. CASE opened[p] = "tmp"
        <5>1. PICK r \in Overwritten(tmpFile, form.tmp, mem[p]) : tmpFile' = r.holds
          BY <2>2, <4>1 DEF WriteTmp, Write
        <5>2. tmpFile \in States
          BY <3>1, <4>1
        <5> QED BY <3>1, <5>1, <5>2, OverwrittenType, FileAssumption
      <4>2. CASE opened[p] # "tmp"
        BY <2>2, <4>2 DEF WriteTmp, Write
      <4> QED BY <4>1, <4>2
    <3> QED BY <3>1, <3>3, <3>4
  <2>3. CASE SwapReady(p) \/ SwapResult(p)
    <3>1. p \in Writers
      BY DEF Writers
    <3>2. /\ pc[p] \in {"swapReady", "swapResult"}
          /\ pc' = [pc EXCEPT ![p] = "gate"] \/ pc' = [pc EXCEPT ![p] = "scan"]
          /\ Replace
      BY <2>3 DEF SwapReady, SwapResult, NextAttempted
    <3>3. \A w \in Writers : /\ opened'[w] # "tmp"
                             /\ (opened'[w] = "closed") <=> (opened[w] = "closed")
      BY <3>2 DEF Replace
    <3> QED BY <3>1, <3>2, <3>3 DEF Writers
  <2>4. CASE ~OpenTmp(p) /\ ~WriteTmp(p) /\ ~SwapReady(p) /\ ~SwapResult(p)
    <3>1. UNCHANGED <<tmpFile, opened>> /\ pc[p] \notin {"writeReady", "writeResult"}
      BY <1>1, <2>4
      DEF PassStep, Start, Load, LoadDies, Return, PassOver, NothingSigned, NotSigned,
          Resolve, SwapDies, Hold, Finalize, FinalizeFails, ParseDies, LookupFinds,
          LookupMisses, TestPasses, TestRejects, SendReturns, SendFails, SendDies,
          MarkBroadcast, MarkFailed, AtEntry, disk, files
    <3>2. \E label : label \notin {"writeReady", "writeResult"} /\ Goto(p, label)
      BY <1>1, <2>4
      DEF PassStep, Start, Load, LoadDies, Return, PassOver, NothingSigned, NotSigned,
          Resolve, SwapDies, Hold, Finalize, FinalizeFails, ParseDies, LookupFinds,
          LookupMisses, TestPasses, TestRejects, SendReturns, SendFails, SendDies,
          MarkBroadcast, MarkFailed, Exit, NextEntry, NextAttempted
    <3> QED BY <3>1, <3>2, KeepsHandles
  <2> QED BY <2>1, <2>2, <2>3, <2>4
<1>2. ASSUME NEW p \in Proc, Crash(p) PROVE Handles'
  <2>1. pc' = [pc EXCEPT ![p] = "idle"] /\ opened' = [opened EXCEPT ![p] = "closed"]
        /\ tmpFile' = tmpFile
    BY <1>2 DEF Crash, Exit, Abandon
  <2> QED BY <2>1 DEF TypeOK, PassTypeOK, DiskTypeOK, Handles, Writers
<1>3. CASE Environment \/ UNCHANGED vars
  BY <1>3 DEF Environment, Tick, Sign, ManualSend, Mine, vars, disk, files, TypeOK, Handles
<1> QED BY <1>1, <1>2, <1>3 DEF Next

LEMMA StepType == TypeOK /\ [Next]_vars => TypeOK'
BY StepTyped, StepHandles DEF TypeOK, Typed

\* Every variable keeps its type, and a pass at work always stands at an entry
\* of the schedule with a settled ready_at.
THEOREM TypeCorrect == Spec => []TypeOK
BY InitType, StepType, PTL DEF Spec

----------------------------------------------------------------------------
(* What broadcast-state.yaml calls broadcast, Core has.                    *)

LEMMA HonestBlank == ASSUME NEW nd PROVE Honest(Blank, nd)
BY DEF Honest, Blank

\* Only a broadcast mark needs Core to have the transaction.
LEMMA HonestUpdates ==
    ASSUME NEW st \in States, NEW o \in Orders, NEW t, NEW nd, Honest(st, nd)
    PROVE  /\ Honest(MarkedFailed(st, o), nd)
           /\ Honest(WithReady(st, o, t), nd)
           /\ nd[o] # "unknown" => Honest(MarkedBroadcast(st, o, t), nd)
BY DEF Honest, States, Entry, MarkedFailed, WithReady, MarkedBroadcast

\* Only a submission changes what Core has, and only by taking one transaction.
LEMMA NodeFrame ==
    ASSUME NEW p \in Proc, PassStep(p) \/ Crash(p)
    PROVE  \/ UNCHANGED <<node, sentAt>>
           \/ pc[p] = "send" /\ Accept(cur[p])
BY DEF PassStep, Start, Load, LoadDies, Return, PassOver, NothingSigned, NotSigned, Resolve,
       OpenTmp, WriteTmp, SwapReady, SwapResult, SwapDies, Hold, Finalize, FinalizeFails,
       ParseDies, LookupFinds, LookupMisses, TestPasses, TestRejects, SendReturns, SendFails,
       SendDies, MarkBroadcast, Crash, world

\* Core never forgets a transaction it has taken.
LEMMA NodeGrows ==
    ASSUME TypeOK, [Next]_vars, NEW o \in Orders, node[o] # "unknown"
    PROVE  node'[o] # "unknown"
<1>1. ASSUME NEW p \in Proc, PassStep(p) \/ Crash(p) PROVE node'[o] # "unknown"
  <2>1. CASE UNCHANGED node
    BY <2>1
  <2>2. CASE Accept(cur[p])
    BY <2>2 DEF Accept, TypeOK, WorldTypeOK
  <2> QED BY <1>1, <2>1, <2>2, NodeFrame
<1>2. CASE Environment
  BY <1>2 DEF Environment, Tick, Sign, ManualSend, Mine, world, TypeOK, WorldTypeOK
<1>3. CASE UNCHANGED vars
  BY <1>3 DEF vars, world
<1> QED BY <1>1, <1>2, <1>3 DEF Next

\* A step of one process leaves the others where they are.
LEMMA OtherFrame ==
    ASSUME TypeOK, NEW p \in Proc, PassStep(p) \/ Crash(p), NEW q \in Proc, q # p
    PROVE  /\ pc'[q] = pc[q] /\ mem'[q] = mem[q] /\ cur'[q] = cur[q]
           /\ now'[q] = now[q] /\ plan'[q] = plan[q] /\ ready'[q] = ready[q]
BY DEF TypeOK, PassTypeOK, PassStep, Start, Load, LoadDies, Return, PassOver, NothingSigned,
       NotSigned, Resolve, OpenTmp, WriteTmp, SwapReady, SwapResult, SwapDies, Hold, Finalize,
       FinalizeFails, ParseDies, LookupFinds, LookupMisses, TestPasses, TestRejects,
       SendReturns, SendFails, SendDies, MarkBroadcast, Crash, locals, Exit, Goto, NextEntry,
       NextAttempted, MarkFailed

\* What a step may do to the files, and to the copy of its own process.
LEMMA FileFrame ==
    ASSUME NEW p \in Proc, PassStep(p) \/ Crash(p)
    PROVE  /\ notBefore' = notBefore /\ clock' = clock
           /\ UNCHANGED files \/ Open(p) \/ Write(p, mem[p]) \/ Replace \/ Abandon(p)
BY DEF PassStep, Start, Load, LoadDies, Return, PassOver, NothingSigned, NotSigned, Resolve,
       OpenTmp, WriteTmp, SwapReady, SwapResult, SwapDies, Hold, Finalize, FinalizeFails,
       ParseDies, LookupFinds, LookupMisses, TestPasses, TestRejects, SendReturns, SendFails,
       SendDies, MarkBroadcast, Crash, disk, world, Open, Write, Replace, Abandon, MarkFailed,
       Accept

LEMMA MemFrame ==
    ASSUME TypeOK, NEW p \in Proc, PassStep(p) \/ Crash(p)
    PROVE  \/ mem'[p] \in {mem[p], Blank, stateFile}
           \/ cur[p] \in Orders /\ mem'[p] = MarkedFailed(mem[p], cur[p])
           \/ cur[p] \in Orders /\ \E r : mem'[p] = WithReady(mem[p], cur[p], r)
           \/ /\ pc[p] = "mark" /\ cur[p] \in Orders
              /\ mem'[p] = MarkedBroadcast(mem[p], cur[p], clock)
<1> USE DEF TypeOK, PassTypeOK, locals
<1>1. CASE \/ Start(p) \/ Load(p) \/ LoadDies(p) \/ Return(p) \/ PassOver(p) \/ NothingSigned(p)
           \/ NotSigned(p) \/ OpenTmp(p) \/ WriteTmp(p) \/ SwapReady(p) \/ SwapResult(p) \/ SwapDies(p)
           \/ Hold(p) \/ Finalize(p) \/ ParseDies(p) \/ LookupFinds(p) \/ LookupMisses(p)
           \/ TestPasses(p) \/ SendReturns(p) \/ SendDies(p) \/ Crash(p)
  BY <1>1
  DEF Start, Load, LoadDies, Return, PassOver, NothingSigned, NotSigned, OpenTmp, WriteTmp,
      SwapReady, SwapResult, SwapDies, Hold, Finalize, ParseDies, LookupFinds, LookupMisses,
      TestPasses, SendReturns, SendDies, Crash, Exit, NextEntry, NextAttempted
<1>2. CASE FinalizeFails(p) \/ TestRejects(p) \/ SendFails(p)
  <2>1. cur[p] \in Orders
    BY <1>2, AtWorkType DEF FinalizeFails, TestRejects, SendFails, AtWork
  <2> QED BY <1>2, <2>1 DEF FinalizeFails, TestRejects, SendFails, MarkFailed
<1>3. CASE Resolve(p)
  BY <1>3, AtEntryType DEF Resolve
<1>4. CASE MarkBroadcast(p)
  <2>1. cur[p] \in Orders
    BY <1>4, AtWorkType DEF MarkBroadcast, AtWork
  <2> QED BY <1>4, <2>1 DEF MarkBroadcast
<1> QED BY <1>1, <1>2, <1>3, <1>4 DEF PassStep

\* A pass goes to record a broadcast only when Core has the transaction.
LEMMA MarkFrame ==
    ASSUME TypeOK, NEW p \in Proc, PassStep(p) \/ Crash(p), pc'[p] = "mark"
    PROVE  cur'[p] = cur[p] /\ node'[cur[p]] # "unknown"
<1>1. CASE LookupFinds(p)
  BY <1>1 DEF LookupFinds, NodeFinds, world, locals
<1>2. CASE SendReturns(p)
  <2>1. cur[p] \in Orders
    BY <1>2, AtWorkType DEF SendReturns, AtWork
  <2> QED BY <1>2, <2>1 DEF SendReturns, Accept, TypeOK, WorldTypeOK, locals
<1>3. CASE ~LookupFinds(p) /\ ~SendReturns(p)
  <2>1. pc'[p] # "mark"
    BY <1>3
    DEF PassStep, Start, Load, LoadDies, Return, PassOver, NothingSigned, NotSigned, Resolve,
        OpenTmp, WriteTmp, SwapReady, SwapResult, SwapDies, Hold, Finalize, FinalizeFails,
        ParseDies, LookupMisses, TestPasses, TestRejects, SendFails, SendDies, MarkBroadcast,
        Crash, Exit, Goto, NextEntry, NextAttempted, MarkFailed, AtEntry, TypeOK, PassTypeOK
  <2> QED BY <2>1
<1> QED BY <1>1, <1>2, <1>3

\* A save leaves no untrue record in the files, unless it has one to write.
LEMMA HonestFiles ==
    ASSUME TypeOK, NEW nd, NEW w \in Writers, NEW text \in States, Honest(text, nd),
           Honest(stateFile, nd), tmpFile # None => Honest(tmpFile, nd),
           UNCHANGED files \/ Open(w) \/ Write(w, text) \/ Replace \/ Abandon(w)
    PROVE  Honest(stateFile', nd) /\ (tmpFile' # None => Honest(tmpFile', nd))
<1>1. CASE UNCHANGED files \/ Replace \/ Abandon(w)
  BY <1>1 DEF files, Replace, Abandon
<1>2. CASE Open(w)
  BY <1>2, HonestBlank DEF Open
<1>3. CASE Write(w, text)
  <2>1. CASE opened[w] = "tmp"
    <3>1. PICK r \in Overwritten(tmpFile, form.tmp, text) : tmpFile' = r.holds
      BY <1>3, <2>1 DEF Write
    <3>2. tmpFile \in States /\ tmpFile # None /\ UNCHANGED stateFile
      BY <1>3, <2>1 DEF Write, TypeOK, DiskTypeOK, Handles
    <3> QED BY <3>1, <3>2, OverwrittenType
  <2>2. CASE opened[w] = "state"
    <3>1. PICK r \in Overwritten(stateFile, form.state, text) : stateFile' = r.holds
      BY <1>3, <2>2 DEF Write
    <3>2. stateFile \in States /\ UNCHANGED tmpFile
      BY <1>3, <2>2 DEF Write, TypeOK, DiskTypeOK
    <3> QED BY <3>1, <3>2, OverwrittenType
  <2>3. CASE opened[w] \notin {"tmp", "state"}
    BY <1>3, <2>3 DEF Write
  <2> QED BY <2>1, <2>2, <2>3
<1> QED BY <1>1, <1>2, <1>3

LEMMA StepAccounted == TypeOK /\ Accounted /\ [Next]_vars => Accounted'
<1> SUFFICES ASSUME TypeOK, Accounted, [Next]_vars PROVE Accounted'
  OBVIOUS
<1>1. ASSUME NEW st, Honest(st, node) PROVE Honest(st, node')
  BY <1>1, NodeGrows DEF Honest
<1>2. ASSUME NEW p \in Proc, PassStep(p) \/ Crash(p) PROVE Accounted'
  <2>1. /\ p \in Writers /\ mem[p] \in States /\ Honest(mem[p], node')
        /\ Honest(stateFile, node') /\ (tmpFile # None => Honest(tmpFile, node'))
    BY <1>1 DEF Accounted, Writers, TypeOK, PassTypeOK
  <2>2. Honest(stateFile', node') /\ (tmpFile' # None => Honest(tmpFile', node'))
    BY <1>2, <2>1, FileFrame, HonestFiles
  <2>3. ASSUME NEW q \in Proc PROVE Honest(mem'[q], node')
    <3>1. CASE q # p
      BY <1>1, <1>2, <3>1, OtherFrame DEF Accounted
    <3>2. CASE q = p
      <4>1. Honest(mem[p], node) /\ Honest(stateFile, node) /\ mem[p] \in States
        BY DEF Accounted, TypeOK, PassTypeOK
      <4>2. Honest(mem'[p], node)
        BY <1>2, <4>1, MemFrame, HonestBlank, HonestUpdates DEF Accounted
      <4> QED BY <1>1, <3>2, <4>2
    <3> QED BY <3>1, <3>2
  <2>4. ASSUME NEW q \in Proc, pc'[q] = "mark" PROVE node'[cur'[q]] # "unknown"
    <3>1. CASE q # p
      <4>1. pc[q] = "mark" /\ cur'[q] = cur[q]
        BY <1>2, <2>4, <3>1, OtherFrame
      <4>2. cur[q] \in Orders
        BY <4>1, AtWorkType DEF AtWork
      <4> QED BY <4>1, <4>2, NodeGrows DEF Accounted
    <3>2. CASE q = p
      BY <1>2, <2>4, <3>2, MarkFrame
    <3> QED BY <3>1, <3>2
  <2> QED BY <2>2, <2>3, <2>4 DEF Accounted
<1>3. CASE Environment \/ UNCHANGED vars
  <2>1. UNCHANGED <<stateFile, tmpFile, pc, mem, cur>>
    BY <1>3
    DEF Environment, Tick, Sign, ManualSend, Mine, vars, disk, files, locals
  <2>2. ASSUME NEW p \in Proc, pc[p] = "mark" PROVE node'[cur[p]] # "unknown"
    BY <2>2, NodeGrows, AtWorkType DEF Accounted, AtWork
  <2> QED BY <1>1, <2>1, <2>2 DEF Accounted
<1> QED BY <1>2, <1>3 DEF Next

\* broadcast-state.yaml never calls an order "broadcast" that Core has not
\* taken: not after a crash between any two steps, not when passes overlap and
\* overwrite one another's files, not when RPC calls fail.
THEOREM RecordsAreTrue == Spec => []RecordedWasAccepted
<1>1. Init => Accounted
  BY HonestBlank DEF Init, Accounted
<1>2. Accounted => RecordedWasAccepted
  BY DEF Accounted, Honest, RecordedWasAccepted
<1> QED BY <1>1, <1>2, TypeCorrect, StepAccounted, PTL DEF Spec

----------------------------------------------------------------------------
(* Nothing is sent too early.                                              *)

\* A pass works at a time that has passed, and stands only at entries that its
\* own copy of the schedule calls due: Timely, whatever schedule.yaml says by now.
Punctual ==
    \A p \in Proc :
        /\ now[p] <= clock
        /\ AtWork(p) => plan[p][cur[p]] <= now[p]
        /\ pc[p] \in {"lookup", "test", "send", "mark"} => ready[p] <= now[p]

LEMMA TimelyIsPunctual ==
    Timely <=> Punctual /\ \A p \in Proc : pc[p] # "idle" => plan[p] = notBefore
BY DEF Timely, Punctual

\* What a process may find of it for itself after its own step.
LEMMA OwnPunctual ==
    ASSUME TypeOK, Punctual, NEW p \in Proc, PassStep(p) \/ Crash(p)
    PROVE  /\ now'[p] <= clock
           /\ AtWork(p)' => plan'[p][cur'[p]] <= now'[p]
           /\ pc'[p] \in {"lookup", "test", "send", "mark"} => ready'[p] <= now'[p]
<1> USE DEF TypeOK, PassTypeOK, Punctual, AtWork, locals
<1>1. CASE \/ LoadDies(p) \/ Return(p) \/ NothingSigned(p) \/ SwapDies(p) \/ ParseDies(p)
           \/ SendDies(p) \/ Crash(p)
  BY <1>1, SizeAssumption
  DEF LoadDies, Return, NothingSigned, SwapDies, ParseDies, SendDies, Crash, Exit,
      WorldTypeOK, Time
<1>2. CASE Start(p)
  BY <1>2 DEF Start, Goto, DiskTypeOK
<1>3. CASE Load(p)
  BY <1>3 DEF Load, Goto, WorldTypeOK, Time
<1>4. CASE PassOver(p) \/ NotSigned(p) \/ Hold(p) \/ SwapResult(p)
  BY <1>4
  DEF PassOver, NotSigned, Hold, SwapResult, NextEntry, NextAttempted, Goto, AtEntry
<1>5. CASE LookupMisses(p)
  BY <1>5 DEF LookupMisses, NextAttempted, Goto
<1>6. CASE Resolve(p)
  <2>1. now[p] \in Int /\ plan[p][cur[p]] \in Int
    BY <1>6, AtEntryType, SizeAssumption DEF Resolve, Time
  <2>2. /\ pc'[p] \in {"saveReady", "gate"}
        /\ UNCHANGED <<now, plan, cur>>
    BY <1>6 DEF Resolve, Goto
  <2>3. plan[p][cur[p]] <= now[p] /\ pc[p] = "scan"
    BY <1>6, <2>1 DEF Resolve, PassedOver, AtEntry
  <2> QED BY <2>2, <2>3
<1>7. CASE Finalize(p)
  <2>1. now[p] \in Int /\ ready[p] \in Int
    BY <1>7, AtWorkType, SizeAssumption DEF Finalize, Time
  <2> QED BY <1>7, <2>1 DEF Finalize, Held, Goto
<1>8. CASE \/ OpenTmp(p) \/ WriteTmp(p) \/ SwapReady(p) \/ LookupFinds(p) \/ TestPasses(p)
           \/ SendReturns(p)
  BY <1>8 DEF OpenTmp, WriteTmp, SwapReady, LookupFinds, TestPasses, SendReturns, Goto
<1>9. CASE FinalizeFails(p) \/ TestRejects(p) \/ SendFails(p) \/ MarkBroadcast(p)
  BY <1>9 DEF FinalizeFails, TestRejects, SendFails, MarkBroadcast, MarkFailed, Goto
<1> QED BY <1>1, <1>2, <1>3, <1>4, <1>5, <1>6, <1>7, <1>8, <1>9 DEF PassStep

\* The plan of a pass is the schedule it read when it started.
LEMMA PlanFrame ==
    ASSUME TypeOK, NEW p \in Proc, PassStep(p) \/ Crash(p), pc'[p] # "idle"
    PROVE  \/ pc[p] # "idle" /\ plan'[p] = plan[p]
           \/ plan'[p] = notBefore
BY DEF TypeOK, PassTypeOK, PassStep, Start, Load, LoadDies, Return, PassOver, NothingSigned,
       NotSigned, Resolve, OpenTmp, WriteTmp, SwapReady, SwapResult, SwapDies, Hold, Finalize,
       FinalizeFails, ParseDies, LookupFinds, LookupMisses, TestPasses, TestRejects,
       SendReturns, SendFails, SendDies, MarkBroadcast, Crash, locals, Exit, Goto, NextEntry,
       NextAttempted, MarkFailed, AtEntry

\* The world around the passes moves the clock, and nothing that they go by.
LEMMA WorldFrame ==
    ASSUME Environment \/ UNCHANGED vars
    PROVE  /\ UNCHANGED <<notBefore, files, pc, locals, sentAt, faults>>
           /\ clock' = clock \/ clock' = clock + 1
BY DEF Environment, Tick, Sign, ManualSend, Mine, vars, disk, files, world

LEMMA StepPunctual == TypeOK /\ Punctual /\ [Next]_vars => Punctual'
<1> SUFFICES ASSUME TypeOK, Punctual, [Next]_vars PROVE Punctual'
  OBVIOUS
<1>1. ASSUME NEW p \in Proc, PassStep(p) \/ Crash(p) PROVE Punctual'
  <2> SUFFICES ASSUME NEW q \in Proc
               PROVE  /\ now'[q] <= clock'
                      /\ AtWork(q)' => plan'[q][cur'[q]] <= now'[q]
                      /\ pc'[q] \in {"lookup", "test", "send", "mark"} =>
                            ready'[q] <= now'[q]
    BY DEF Punctual
  <2>1. CASE q = p
    BY <1>1, <2>1, OwnPunctual, FileFrame
  <2>2. CASE q # p
    BY <1>1, <2>2, OtherFrame, FileFrame DEF Punctual, AtWork
  <2> QED BY <2>1, <2>2
<1>2. CASE Environment \/ UNCHANGED vars
  <2>1. UNCHANGED <<pc, locals>> /\ (clock' = clock \/ clock' = clock + 1)
    BY <1>2, WorldFrame
  <2>2. \A p \in Proc : now[p] \in Int /\ clock \in Int
    BY SizeAssumption DEF TypeOK, PassTypeOK, WorldTypeOK, Time
  <2> QED BY <2>1, <2>2 DEF Punctual, AtWork, locals
<1> QED BY <1>1, <1>2 DEF Next

LEMMA StepTimely == TypeOK /\ Timely /\ [Next]_vars => Timely'
<1> SUFFICES ASSUME TypeOK, Timely, [Next]_vars PROVE Timely'
  OBVIOUS
<1>1. Punctual'
  BY TimelyIsPunctual, StepPunctual
<1>2. ASSUME NEW q \in Proc, pc'[q] # "idle" PROVE plan'[q] = notBefore'
  <2>1. ASSUME NEW p \in Proc, PassStep(p) \/ Crash(p) PROVE plan'[q] = notBefore'
    BY <1>2, <2>1, PlanFrame, OtherFrame, FileFrame DEF Timely
  <2>2. CASE Environment \/ UNCHANGED vars
    BY <1>2, <2>2, WorldFrame DEF Timely, locals
  <2> QED BY <2>1, <2>2 DEF Next
<1> QED BY <1>1, <1>2 DEF Timely, Punctual

LEMMA InitTimely == Init => Timely
<1> SUFFICES ASSUME Init PROVE Timely
  OBVIOUS
<1>1. ASSUME NEW p \in Proc PROVE pc[p] = "idle" /\ now[p] <= clock
  BY DEF Init
<1>2. ASSUME NEW p \in Proc PROVE ~AtWork(p)
  BY <1>1 DEF AtWork
<1>3. ASSUME NEW p \in Proc PROVE pc[p] \notin {"lookup", "test", "send", "mark"}
  BY <1>1
<1> QED BY <1>1, <1>2, <1>3 DEF Timely

\* What Core takes from a pass, the pass has at hand, due by its own plan.
LEMMA SenderIsDue ==
    ASSUME TypeOK, Punctual, [Next]_vars, NEW o \in Orders, Sends(o)
    PROVE  \E p \in Proc : /\ pc[p] = "send" /\ cur[p] = o
                           /\ node[o] = "unknown" /\ Accept(o)
                           /\ plan[p][o] <= clock /\ ready[p] <= clock
<1>1. PICK p \in Proc : PassStep(p) \/ Crash(p)
  BY WorldFrame DEF Sends, Next
<1>2. pc[p] = "send" /\ Accept(cur[p])
  BY <1>1, NodeFrame DEF Sends
<1>3. cur[p] = o /\ node[o] = "unknown"
  BY <1>2 DEF Accept, Sends, TypeOK, WorldTypeOK
<1>4. plan[p][o] <= now[p] /\ ready[p] <= now[p] /\ now[p] <= clock
  BY <1>2, <1>3 DEF Punctual, AtWork
<1>5. plan[p][o] \in Int /\ ready[p] \in Int /\ now[p] \in Int /\ clock \in Int
  <2>1. ready[p] \in Nat
    BY <1>2, AtWorkType DEF AtWork
  <2> QED BY <2>1, SizeAssumption DEF TypeOK, PassTypeOK, WorldTypeOK, Time
<1>6. plan[p][o] <= clock /\ ready[p] <= clock
  BY <1>4, <1>5
<1> QED BY <1>2, <1>3, <1>6

LEMMA SendsWhenDue ==
    ASSUME TypeOK, Timely, [Next]_vars, NEW o \in Orders, Sends(o)
    PROVE  clock >= notBefore[o]
<1>1. PICK p \in Proc : pc[p] = "send" /\ cur[p] = o /\ plan[p][o] <= clock
  BY SenderIsDue, TimelyIsPunctual
<1>2. plan[p] = notBefore
  BY <1>1 DEF Timely
<1>3. notBefore[o] \in Int /\ clock \in Int
  BY SizeAssumption DEF TypeOK, DiskTypeOK, WorldTypeOK, Time
<1> QED BY <1>1, <1>2, <1>3

\* Only a pass that is due sends, so the clock has passed broadcast_not_before:
\* for every number of overlapping passes and every fault.
THEOREM NeverBeforeSchedule == Spec => NotBeforeKept
<1>1. TypeOK /\ Timely /\ [Next]_vars =>
        [\A o \in Orders : Sends(o) => clock >= notBefore[o]]_vars
  BY SendsWhenDue
<1> QED BY <1>1, InitTimely, StepTimely, TypeCorrect, PTL DEF Spec, NotBeforeKept

=============================================================================
