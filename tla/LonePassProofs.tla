--------------------------- MODULE LonePassProofs ---------------------------
(***************************************************************************)
(* Theorems about BroadcastDue when passes do not overlap: there is one    *)
(* process (--follow, or cron passes that end before the next one starts), *)
(* which may die anywhere and be started again.                            *)
(***************************************************************************)
EXTENDS BroadcastDueProofs

----------------------------------------------------------------------------
(* The copy of a lone pass is current.                                     *)

LEMMA UpdatesOneEntry ==
    ASSUME NEW st \in States, NEW o \in Orders, NEW t, NEW q \in Orders \ {o}
    PROVE  /\ MarkedBroadcast(st, o, t)[q] = st[q]
           /\ MarkedFailed(st, o)[q] = st[q]
           /\ WithReady(st, o, t)[q] = st[q]
BY DEF MarkedBroadcast, MarkedFailed, WithReady, States

LEMMA UpdatesOfEntry ==
    ASSUME NEW st \in States, NEW o \in Orders, NEW t
    PROVE  /\ MarkedBroadcast(st, o, t)[o].ready = st[o].ready
           /\ MarkedFailed(st, o)[o].ready = st[o].ready
           /\ WithReady(st, o, t)[o].ready = t
           /\ WithReady(st, o, t)[o].status = st[o].status
BY DEF MarkedBroadcast, MarkedFailed, WithReady, States

LEMMA OwnCurrent ==
    ASSUME OneProcess, TypeOK, Current, NEW p \in Proc, PassStep(p) \/ Crash(p)
    PROVE  Current'
<1> USE DEF AtWork, Saving, SavingReady, SavingResult, locals
<1>0. ASSUME NEW q \in Proc PROVE q = p
  BY DEF OneProcess
<1>1. CASE \/ LoadDies(p) \/ Return(p) \/ NothingSigned(p) \/ SwapDies(p) \/ ParseDies(p)
           \/ SendDies(p) \/ Crash(p) \/ Start(p)
  <2>1. pc'[p] \in {"idle", "load"}
    BY <1>1
    DEF LoadDies, Return, NothingSigned, SwapDies, ParseDies, SendDies, Crash, Start, Exit,
        Goto, TypeOK, PassTypeOK
  <2> QED BY <1>0, <2>1 DEF Current
<1>2. CASE Load(p)
  BY <1>0, <1>2 DEF Load, Goto, Current, TypeOK, PassTypeOK, disk, files
<1>3. CASE PassOver(p) \/ NotSigned(p) \/ Hold(p)
  <2>1. /\ pc[p] \in {"scan", "gate"} /\ pc'[p] = "scan"
        /\ UNCHANGED <<mem, stateFile>>
    BY <1>3
    DEF PassOver, NotSigned, Hold, AtEntry, NextEntry, Goto, disk, files, TypeOK, PassTypeOK
  <2> QED BY <1>0, <2>1 DEF Current
<1>4. CASE Resolve(p)
  <2>1. cur[p] \in Orders /\ mem[p] \in States
    BY <1>4, AtEntryType DEF Resolve, TypeOK, PassTypeOK
  <2>2. mem[p] = stateFile /\ mem[p][cur[p]].status # "broadcast"
    BY <1>4 DEF Resolve, AtEntry, PassedOver, Current
  <2>3. UNCHANGED <<stateFile, cur>>
    BY <1>4 DEF Resolve, disk, files
  <2>4. \/ pc'[p] = "gate" /\ mem' = mem
        \/ pc'[p] = "saveReady" /\ \E r : mem'[p] = WithReady(mem[p], cur[p], r)
    BY <1>4 DEF Resolve, Goto, TypeOK, PassTypeOK
  <2> QED BY <1>0, <2>1, <2>2, <2>3, <2>4, UpdatesOneEntry, UpdatesOfEntry DEF Current
<1>5. CASE OpenTmp(p) \/ WriteTmp(p)
  <2>1. UNCHANGED <<mem, cur, stateFile>>
    BY <1>5 DEF OpenTmp, WriteTmp, Open, Write, Current
  <2>2. CASE OpenTmp(p)
    <3>1. p \in Writers
      BY DEF Writers
    <3>2. /\ \/ pc[p] = "saveReady" /\ pc'[p] = "writeReady"
             \/ pc[p] = "saveResult" /\ pc'[p] = "writeResult"
          /\ opened'[p] = "tmp" /\ form'.tmp = "empty"
      BY <2>2, <3>1 DEF OpenTmp, Open, Goto, TypeOK, PassTypeOK, DiskTypeOK
    <3> QED BY <1>0, <2>1, <3>2 DEF Current
  <2>3. CASE WriteTmp(p)
    <3>1. opened[p] = "tmp" /\ form.tmp = "empty"
      BY <2>3 DEF WriteTmp, Current
    <3>2. tmpFile' = mem[p]
      BY <2>3, <3>1 DEF WriteTmp, Write, Overwritten
    <3>3. \/ pc[p] = "writeReady" /\ pc'[p] = "swapReady"
          \/ pc[p] = "writeResult" /\ pc'[p] = "swapResult"
      BY <2>3 DEF WriteTmp, Goto, TypeOK, PassTypeOK
    <3> QED BY <1>0, <2>1, <3>2, <3>3 DEF Current
  <2> QED BY <1>5, <2>2, <2>3
<1>6. CASE SwapReady(p) \/ SwapResult(p)
  <2>1. stateFile' = mem[p] /\ mem' = mem
    BY <1>6 DEF SwapReady, SwapResult, Replace, NextAttempted, Current
  <2>2. \/ /\ pc[p] = "swapReady" /\ pc'[p] = "gate" /\ cur' = cur
        \/ pc'[p] = "scan"
    BY <1>6 DEF SwapReady, SwapResult, NextAttempted, Goto, TypeOK, PassTypeOK
  <2> QED BY <1>0, <2>1, <2>2 DEF Current
<1>7. CASE \/ Finalize(p) \/ LookupFinds(p) \/ LookupMisses(p) \/ TestPasses(p)
           \/ SendReturns(p)
  <2>1. /\ pc[p] \in {"gate", "lookup", "test", "send"}
        /\ \/ pc'[p] \in {"lookup", "test", "send", "mark"} /\ cur' = cur
           \/ pc'[p] = "scan"
        /\ UNCHANGED <<mem, stateFile>>
    BY <1>7 DEF Finalize, LookupFinds, LookupMisses, TestPasses, SendReturns,
                NextAttempted, Goto, disk, files, TypeOK, PassTypeOK
  <2> QED BY <1>0, <2>1 DEF Current
<1>8. CASE FinalizeFails(p) \/ TestRejects(p) \/ SendFails(p) \/ MarkBroadcast(p)
  <2>1. /\ pc[p] \in {"gate", "test", "send", "mark"} /\ pc'[p] = "saveResult"
        /\ UNCHANGED <<stateFile, cur>>
        /\ \/ mem'[p] = MarkedFailed(mem[p], cur[p])
           \/ mem'[p] = MarkedBroadcast(mem[p], cur[p], clock)
    BY <1>8 DEF FinalizeFails, TestRejects, SendFails, MarkBroadcast, MarkFailed,
                Goto, disk, files, TypeOK, PassTypeOK
  <2>2. cur[p] \in Orders /\ mem[p] \in States
    BY <2>1, AtWorkType DEF TypeOK, PassTypeOK
  <2>3. stateFile[cur[p]].status # "broadcast" /\ mem[p] = stateFile
    BY <2>1 DEF Current
  <2>4. \A o \in Orders \ {cur[p]} : mem'[p][o] = stateFile[o]
    BY <2>1, <2>2, <2>3, UpdatesOneEntry
  <2> QED BY <1>0, <2>1, <2>3, <2>4 DEF Current
<1> QED BY <1>1, <1>2, <1>3, <1>4, <1>5, <1>6, <1>7, <1>8 DEF PassStep

LEMMA StepCurrent == OneProcess /\ TypeOK /\ Current /\ [Next]_vars => Current'
<1> SUFFICES ASSUME OneProcess, TypeOK, Current, [Next]_vars PROVE Current'
  OBVIOUS
<1>1. CASE Environment \/ UNCHANGED vars
  <2>1. UNCHANGED <<files, pc, locals>>
    BY <1>1, WorldFrame
  <2> QED BY <2>1 DEF Current, AtWork, files, locals
<1> QED BY <1>1, OwnCurrent DEF Next

\* A save replaces the entry the pass is at, which is not on record as
\* broadcast, and no other.
LEMMA SaveTouchesCurrent ==
    ASSUME OneProcess, TypeOK, Current, [Next]_vars, NEW o \in Orders,
           stateFile'[o] # stateFile[o]
    PROVE  \E p \in Proc : /\ o = cur[p]
                           /\ SwapReady(p) \/ SwapResult(p)
                           /\ stateFile[o].status # "broadcast"
                           /\ stateFile' = mem[p]
<1>1. PICK p \in Proc : SwapReady(p) \/ SwapResult(p)
  <2>1. ASSUME NEW p \in Proc, WriteTmp(p) PROVE stateFile' = stateFile
    BY <2>1 DEF WriteTmp, Write, Current
  <2>2. ASSUME NEW p \in Proc, PassStep(p) \/ Crash(p),
               ~WriteTmp(p), ~SwapReady(p), ~SwapResult(p)
        PROVE  stateFile' = stateFile
    BY <2>2 DEF PassStep, Start, Load, LoadDies, Return, PassOver, NothingSigned, NotSigned,
       Resolve, OpenTmp, Open, Abandon, SwapDies, Hold, Finalize, FinalizeFails, ParseDies,
       LookupFinds, LookupMisses, TestPasses, TestRejects, SendReturns, SendFails, SendDies,
       MarkBroadcast, Crash, MarkFailed, disk, files
  <2>3. ASSUME Environment \/ UNCHANGED vars PROVE stateFile' = stateFile
    BY <2>3, WorldFrame DEF files
  <2>4. stateFile' # stateFile
    OBVIOUS
  <2>5. PICK p \in Proc : PassStep(p) \/ Crash(p)
    BY <2>3, <2>4 DEF Next
  <2> QED BY <2>1, <2>2, <2>4, <2>5
<1>2. stateFile' = mem[p]
  BY <1>1 DEF SwapReady, SwapResult, Replace, Current
<1>3. o = cur[p]
  BY <1>1, <1>2 DEF SwapReady, SwapResult, Current, Saving, SavingReady, SavingResult
<1> QED BY <1>1, <1>2, <1>3 DEF SwapReady, SwapResult, Current, AtWork

LEMMA InitCurrent == Init => Current
<1> SUFFICES ASSUME Init, NEW p \in Proc PROVE pc[p] = "idle"
  BY DEF Current, AtWork, Saving, SavingReady, SavingResult
<1> QED BY DEF Init

\* A lone pass never takes an order's broadcast record back, nor changes it,
\* however often passes die between a submission and its record.
THEOREM RecordsStay == ASSUME OneProcess PROVE Spec => RecordsAreFinal
<1>1. TypeOK /\ Current /\ [Next]_vars =>
        [\A o \in Orders : stateFile[o].status = "broadcast"
                              => stateFile'[o] = stateFile[o]]_vars
  BY SaveTouchesCurrent
<1> QED BY <1>1, InitCurrent, StepCurrent, TypeCorrect, PTL DEF Spec, RecordsAreFinal

----------------------------------------------------------------------------
(* The state file can always be read.                                      *)

\* A lone pass writes into the file that it has just emptied.
Sound == form.state # "torn" /\ form.tmp # "torn"

\* A pass writes the file in WriteTmp alone.
LEMMA SaveSteps ==
    ASSUME NEW p \in Proc, PassStep(p) \/ Crash(p)
    PROVE  \/ UNCHANGED files \/ Open(p) \/ Replace \/ Abandon(p)
           \/ WriteTmp(p) /\ Write(p, mem[p])
BY DEF PassStep, Start, Load, LoadDies, Return, PassOver, NothingSigned, NotSigned, Resolve,
       OpenTmp, WriteTmp, SwapReady, SwapResult, SwapDies, Hold, Finalize, FinalizeFails,
       ParseDies, LookupFinds, LookupMisses, TestPasses, TestRejects, SendReturns, SendFails,
       SendDies, MarkBroadcast, Crash, disk, MarkFailed

LEMMA StepSound == TypeOK /\ Current /\ Sound /\ [Next]_vars => Sound'
<1> SUFFICES ASSUME TypeOK, Current, Sound, [Next]_vars PROVE Sound'
  OBVIOUS
<1>1. ASSUME NEW p \in Proc, PassStep(p) \/ Crash(p) PROVE Sound'
  <2>1. CASE Write(p, mem[p]) /\ WriteTmp(p)
    <3>1. opened[p] = "tmp" /\ form.tmp = "empty"
      BY <2>1 DEF WriteTmp, Current
    <3>2. form' = [form EXCEPT !.tmp = "whole"]
      BY <2>1, <3>1 DEF Write, Overwritten
    <3> QED BY <3>2 DEF Sound, TypeOK, DiskTypeOK
  <2>2. CASE UNCHANGED files \/ Open(p) \/ Replace \/ Abandon(p)
    BY <2>2 DEF files, Open, Replace, Abandon, Sound, TypeOK, DiskTypeOK
  <2> QED BY <1>1, <2>1, <2>2, SaveSteps
<1>2. CASE Environment \/ UNCHANGED vars
  BY <1>2, WorldFrame DEF files, Sound
<1> QED BY <1>1, <1>2 DEF Next

\* Passes that do not overlap never leave a state file that cannot be read,
\* wherever they are killed: the atomic write that the docstring promises.
THEOREM StateStaysReadable == ASSUME OneProcess PROVE Spec => []StateReadable
<1>1. Init => Sound
  BY DEF Init, Sound
<1>2. Sound => StateReadable
  BY DEF Sound, StateReadable, Readable
<1> QED BY <1>1, <1>2, StepSound, InitCurrent, StepCurrent, TypeCorrect, PTL DEF Spec

----------------------------------------------------------------------------
(* The send time is drawn once and kept.                                   *)

\* A settled time is not earlier than a persisted one, and if it is another
\* one, it is a catch-up time.
LEMMA ResolvedTime ==
    ASSUME TypeOK, NEW p \in Proc, cur[p] \in Orders,
           NEW r \in ReadyTimes(mem[p], plan[p], cur[p], opt[p].jitter)
    PROVE  /\ r \in Nat
           /\ mem[p][cur[p]].ready # None =>
                /\ r >= mem[p][cur[p]].ready
                /\ r # mem[p][cur[p]].ready =>
                    r > mem[p][cur[p]].ready
                    /\ r \in CatchUpFloors(mem[p], plan[p], cur[p])
<1>1. /\ mem[p] \in States /\ plan[p] \in [Orders -> Nat] /\ opt[p].jitter \in Nat
  BY EnvironmentAssumption DEF TypeOK, PassTypeOK, OptionSet
<1>2. mem[p][cur[p]].ready # None => mem[p][cur[p]].ready \in Nat
  BY <1>1 DEF States, Entry, Stamp
<1>3. mem[p][cur[p]].ready # None =>
        Draws(mem[p], plan[p], cur[p], opt[p].jitter) = {mem[p][cur[p]].ready}
  BY DEF Draws
<1> QED BY <1>1, <1>2, <1>3, ReadyTimesType

LEMMA OwnDrawn ==
    ASSUME OneProcess, TypeOK, Timely, Current, Drawn,
           NEW p \in Proc, PassStep(p) \/ Crash(p)
    PROVE  Drawn'
<1> USE DEF AtWork, Saving, SavingReady, SavingResult, locals
<1>0. ASSUME NEW q \in Proc PROVE q = p
  BY DEF OneProcess
<1>1. CASE pc'[p] \in {"idle", "load", "scan"}
  BY <1>0, <1>1 DEF Drawn
<1>2. CASE Resolve(p)
  <2>1. cur[p] \in Orders /\ mem[p] \in States
    BY <1>2, AtEntryType DEF Resolve, TypeOK, PassTypeOK
  <2>2. mem[p] = stateFile /\ plan[p] = notBefore
    BY <1>2 DEF Resolve, AtEntry, Current, Timely
  <2>3. UNCHANGED <<stateFile, notBefore, cur>>
    BY <1>2 DEF Resolve, disk, files
  <2>4. PICK r \in ReadyTimes(mem[p], plan[p], cur[p], opt[p].jitter) :
          /\ ready'[p] = r
          /\ \/ pc'[p] = "gate" /\ mem' = mem
             \/ /\ pc'[p] = "saveReady" /\ mem'[p] = WithReady(mem[p], cur[p], r)
                /\ mem[p][cur[p]].ready # r
    BY <1>2 DEF Resolve, Goto, TypeOK, PassTypeOK
  <2>5. CASE pc'[p] = "gate" /\ mem' = mem
    BY <1>0, <2>1, <2>3, <2>4, <2>5, ResolvedTime DEF Drawn
  <2>6. CASE /\ pc'[p] = "saveReady" /\ mem'[p] = WithReady(mem[p], cur[p], r)
             /\ mem[p][cur[p]].ready # r
    <3>1. mem'[p][cur[p]].ready = r /\ r \in Nat
      BY <2>1, <2>4, <2>6, UpdatesOfEntry, ResolvedTime
    <3>2. stateFile[cur[p]].ready # None =>
            r > stateFile[cur[p]].ready /\ r \in CatchUpFloors(stateFile, notBefore, cur[p])
      BY <2>1, <2>2, <2>4, <2>6, ResolvedTime
    <3>3. CatchUpFloors(stateFile, notBefore, cur[p])' = CatchUpFloors(stateFile, notBefore, cur[p])
      BY <2>3 DEF CatchUpFloors
    <3> QED BY <1>0, <2>3, <2>4, <2>6, <3>1, <3>2, <3>3 DEF Drawn
  <2> QED BY <2>4, <2>5, <2>6
<1>3. CASE OpenTmp(p) \/ WriteTmp(p)
  <2>1. UNCHANGED <<mem, stateFile, notBefore, cur, ready>>
    BY <1>3 DEF OpenTmp, WriteTmp, Open, Write, Current
  <2>2. CatchUpFloors(stateFile, notBefore, cur[p])' = CatchUpFloors(stateFile, notBefore, cur[p])
    BY <2>1 DEF CatchUpFloors
  <2>3. \/ pc[p] \in SavingReady /\ pc'[p] \in SavingReady
        \/ pc[p] \in SavingResult /\ pc'[p] \in SavingResult
    BY <1>3 DEF OpenTmp, WriteTmp, Goto, TypeOK, PassTypeOK
  <2> QED BY <1>0, <2>1, <2>2, <2>3 DEF Drawn
<1>4. CASE \/ SwapReady(p) \/ Finalize(p) \/ LookupFinds(p) \/ TestPasses(p)
           \/ SendReturns(p) \/ (LookupMisses(p) /\ ~opt[p].dry_run)
  <2>1. /\ pc[p] \in {"swapReady", "gate", "lookup", "test", "send"}
        /\ pc'[p] \in {"gate", "lookup", "test", "send", "mark"}
        /\ UNCHANGED <<mem, cur, ready>>
    BY <1>4 DEF SwapReady, Finalize, LookupFinds, TestPasses, SendReturns, LookupMisses,
                Goto, TypeOK, PassTypeOK
  <2> QED BY <1>0, <2>1 DEF Drawn
<1>5. CASE FinalizeFails(p) \/ TestRejects(p) \/ SendFails(p) \/ MarkBroadcast(p)
  <2>1. /\ pc[p] \in {"gate", "test", "send", "mark"} /\ pc'[p] = "saveResult"
        /\ UNCHANGED <<stateFile, cur, ready>>
        /\ \/ mem'[p] = MarkedFailed(mem[p], cur[p])
           \/ mem'[p] = MarkedBroadcast(mem[p], cur[p], clock)
    BY <1>5 DEF FinalizeFails, TestRejects, SendFails, MarkBroadcast, MarkFailed,
                Goto, disk, files, TypeOK, PassTypeOK
  <2>2. cur[p] \in Orders /\ mem[p] \in States /\ mem[p] = stateFile
    BY <2>1, AtWorkType DEF TypeOK, PassTypeOK, Current
  <2>3. mem'[p][cur[p]].ready = mem[p][cur[p]].ready
    BY <2>1, <2>2, UpdatesOfEntry
  <2> QED BY <1>0, <2>1, <2>2, <2>3 DEF Drawn
<1>6. CASE \/ LoadDies(p) \/ Return(p) \/ NothingSigned(p) \/ SwapDies(p) \/ ParseDies(p)
           \/ SendDies(p) \/ Crash(p) \/ Start(p) \/ Load(p) \/ PassOver(p)
           \/ NotSigned(p) \/ Hold(p) \/ SwapResult(p) \/ (LookupMisses(p) /\ opt[p].dry_run)
  <2>1. pc'[p] \in {"idle", "load", "scan"}
    BY <1>6
    DEF LoadDies, Return, NothingSigned, SwapDies, ParseDies, SendDies, Crash, Start, Load,
        PassOver, NotSigned, Hold, SwapResult, LookupMisses, NextEntry, NextAttempted, Exit,
        Goto, TypeOK, PassTypeOK
  <2> QED BY <1>1, <2>1
<1> QED BY <1>2, <1>3, <1>4, <1>5, <1>6 DEF PassStep

LEMMA StepDrawn ==
    OneProcess /\ TypeOK /\ Timely /\ Current /\ Drawn /\ [Next]_vars => Drawn'
<1> SUFFICES ASSUME OneProcess, TypeOK, Timely, Current, Drawn, [Next]_vars PROVE Drawn'
  OBVIOUS
<1>1. CASE Environment \/ UNCHANGED vars
  <2>1. UNCHANGED <<stateFile, notBefore, pc, locals>>
    BY <1>1, WorldFrame DEF files
  <2>2. ASSUME NEW p \in Proc
        PROVE  CatchUpFloors(stateFile, notBefore, cur[p])' = CatchUpFloors(stateFile, notBefore, cur[p])
    BY <2>1 DEF CatchUpFloors, locals
  <2> QED BY <2>1, <2>2 DEF Drawn, AtWork, locals
<1> QED BY <1>1, OwnDrawn DEF Next

LEMMA InitDrawn == Init => Drawn
<1> SUFFICES ASSUME Init, NEW p \in Proc PROVE pc[p] = "idle"
  BY DEF Drawn, AtWork, SavingReady, SavingResult
<1> QED BY DEF Init

\* The random send time of an order is drawn once: a later pass, or one that
\* starts after a crash, only ever moves it back behind a late broadcast.
THEOREM ReadyIsDrawnOnce == ASSUME OneProcess PROVE Spec => ReadyDrawnOnce
<1>1. TypeOK /\ Current /\ Drawn /\ [Next]_vars =>
        [\A o \in Orders : stateFile[o].ready # None =>
            \/ stateFile'[o].ready = stateFile[o].ready
            \/ /\ stateFile'[o].ready # None
               /\ stateFile'[o].ready > stateFile[o].ready
               /\ stateFile'[o].ready \in CatchUpFloors(stateFile, notBefore, o)]_vars
  <2> SUFFICES ASSUME TypeOK, Current, Drawn, [Next]_vars,
                      NEW o \in Orders, stateFile[o].ready # None,
                      stateFile'[o].ready # stateFile[o].ready
               PROVE  /\ stateFile'[o].ready # None
                      /\ stateFile'[o].ready > stateFile[o].ready
                      /\ stateFile'[o].ready \in CatchUpFloors(stateFile, notBefore, o)
    OBVIOUS
  <2>1. PICK p \in Proc :
          /\ o = cur[p]
          /\ SwapReady(p) \/ SwapResult(p)
          /\ stateFile' = mem[p]
    BY SaveTouchesCurrent
  <2>2. pc[p] \in {"swapReady", "swapResult"}
    BY <2>1 DEF SwapReady, SwapResult
  <2>3. stateFile'[o].ready = mem[p][cur[p]].ready
    BY <2>1
  <2>4. pc[p] = "swapReady"
    BY <2>1, <2>2, <2>3 DEF Drawn, SavingResult
  <2>5. /\ mem[p][cur[p]].ready = ready[p]
        /\ ready[p] > stateFile[o].ready
        /\ ready[p] \in CatchUpFloors(stateFile, notBefore, o)
    BY <2>1, <2>4 DEF Drawn, SavingReady
  <2>6. ready[p] # None
    BY <2>4, AtWorkType, NoneAssumption DEF AtWork
  <2> QED BY <2>3, <2>5, <2>6
<1> QED BY <1>1, InitCurrent, StepCurrent, InitDrawn, StepDrawn, InitTimely, StepTimely,
           TypeCorrect, PTL DEF Spec, ReadyDrawnOnce

\* A lone pass sends nothing before the send time on disk.
THEOREM NeverBeforeReadyAt == ASSUME OneProcess PROVE Spec => ReadyAtKept
<1>1. TypeOK /\ Timely /\ Current /\ Drawn /\ [Next]_vars =>
        [\A o \in Orders : Sends(o) /\ stateFile[o].ready # None
                                => clock >= stateFile[o].ready]_vars
  <2> SUFFICES ASSUME TypeOK, Timely, Current, Drawn, [Next]_vars,
                      NEW o \in Orders, Sends(o), stateFile[o].ready # None
               PROVE  clock >= stateFile[o].ready
    OBVIOUS
  <2>1. PICK p \in Proc : pc[p] = "send" /\ cur[p] = o /\ ready[p] <= clock
    BY SenderIsDue, TimelyIsPunctual
  <2>2. stateFile[o].ready <= ready[p]
    BY <2>1 DEF Current, Drawn, AtWork
  <2>3. stateFile[o].ready \in Int
    <3>1. stateFile[o] \in Entry
      BY DEF TypeOK, DiskTypeOK, States
    <3> QED BY <3>1 DEF Entry, Stamp
  <2>4. ready[p] \in Int /\ clock \in Int
    BY <2>1, AtWorkType, SizeAssumption DEF AtWork, TypeOK, WorldTypeOK, Time
  <2> QED BY <2>1, <2>2, <2>3, <2>4
<1> QED BY <1>1, InitCurrent, StepCurrent, InitDrawn, StepDrawn, InitTimely, StepTimely,
           TypeCorrect, PTL DEF Spec, ReadyAtKept

----------------------------------------------------------------------------
(* A lone stream of passes implements DrainLedger: every step of a pass,   *)
(* of the operator or of Bitcoin Core is a step of the ledger or none.     *)

Submitted == {o \in Orders : node[o] # "unknown"}

Booked == {o \in Orders : stateFile[o].status = "broadcast"}

LEMMA LedgerInit == Init => Ledger!Init
BY EnvironmentAssumption DEF Init, Blank, Ledger!Init

\* Where the ledger cannot see a step.
LEMMA Unseen ==
    ASSUME UNCHANGED <<clock, notBefore>>, Submitted' = Submitted, Booked' = Booked
    PROVE  UNCHANGED Ledger!ledger
BY DEF Submitted, Booked, Ledger!ledger

\* A transaction that Core takes is one Submit.
LEMMA TakingSubmits ==
    ASSUME TypeOK, NEW o \in Orders, node[o] = "unknown",
           node' = [node EXCEPT ![o] = "mempool"],
           clock >= notBefore[o] \/ o \in Manual,
           UNCHANGED <<clock, notBefore, stateFile>>
    PROVE  Ledger!Submit(o)
<1>1. o \notin Submitted /\ Submitted' = Submitted \cup {o}
  BY DEF Submitted, TypeOK, WorldTypeOK
<1>2. notBefore[o] <= clock \/ o \in Manual
  BY SizeAssumption DEF TypeOK, DiskTypeOK, WorldTypeOK, Time
<1> QED BY <1>1, <1>2 DEF Ledger!Submit, Submitted

\* A save books the order the pass is at, or nothing.
LEMMA SavingBooks ==
    ASSUME OneProcess, TypeOK, Accounted, Current, [Next]_vars,
           stateFile' # stateFile
    PROVE  Ledger!Next \/ UNCHANGED Ledger!ledger
<1>1. PICK o \in Orders : stateFile'[o] # stateFile[o]
  <2>1. stateFile \in States /\ stateFile' \in States
    BY StepType DEF TypeOK, DiskTypeOK
  <2> QED BY <2>1 DEF States
<1>2. PICK p \in Proc :
        /\ o = cur[p]
        /\ SwapReady(p) \/ SwapResult(p)
        /\ stateFile[o].status # "broadcast"
        /\ stateFile' = mem[p]
  BY <1>1, SaveTouchesCurrent
<1>3. \A q \in Orders \ {o} : stateFile'[q] = stateFile[q]
  BY <1>2 DEF Current, Saving, SavingReady, SavingResult, SwapReady, SwapResult
<1>4. UNCHANGED <<clock, notBefore, node>>
  BY <1>2 DEF SwapReady, SwapResult, Replace, world
<1>5. CASE stateFile'[o].status = "broadcast"
  <2>1. node[o] # "unknown"
    BY <1>2, <1>5 DEF Accounted, Honest
  <2>2. o \in Submitted \ Booked /\ Booked' = Booked \cup {o}
    BY <1>2, <1>3, <1>5, <2>1 DEF Submitted, Booked
  <2> QED BY <1>4, <2>2 DEF Ledger!Next, Ledger!Book, Submitted, Booked
<1>6. CASE stateFile'[o].status # "broadcast"
  <2>1. Booked' = Booked
    BY <1>2, <1>3, <1>6 DEF Booked
  <2> QED BY <1>4, <2>1, Unseen DEF Submitted
<1> QED BY <1>5, <1>6

LEMMA LedgerStep ==
    OneProcess /\ TypeOK /\ Accounted /\ Timely /\ Current /\ [Next]_vars
        => [Ledger!Next]_(Ledger!ledger)
<1> SUFFICES ASSUME OneProcess, TypeOK, Accounted, Timely, Current, [Next]_vars,
                    stateFile' = stateFile
             PROVE  Ledger!Next \/ UNCHANGED Ledger!ledger
  BY SavingBooks
<1>1. Booked' = Booked
  BY DEF Booked
<1>2. CASE Tick
  BY <1>2 DEF Tick, disk, files, Ledger!Next, Ledger!Advance
<1>3. CASE \E o \in Orders : ManualSend(o)
  <2>1. PICK o \in Orders : ManualSend(o)
    BY <1>3
  <2>2. Ledger!Submit(o)
    BY <2>1, TakingSubmits DEF ManualSend, TestAllows, disk, files
  <2> QED BY <2>2 DEF Ledger!Next
<1>4. CASE \/ \E o \in Orders : Sign(o) \/ Mine(o)
           \/ UNCHANGED vars
  <2>1. UNCHANGED <<clock, notBefore>> /\ Submitted' = Submitted
    BY <1>4 DEF Sign, Mine, vars, disk, files, world, Submitted, TypeOK, WorldTypeOK
  <2> QED BY <1>1, <2>1, Unseen
<1>5. CASE \E p \in Proc : PassStep(p) \/ Crash(p)
  <2>1. PICK p \in Proc : PassStep(p) \/ Crash(p)
    BY <1>5
  <2>2. UNCHANGED <<clock, notBefore>>
    BY <2>1, FileFrame
  <2>3. CASE UNCHANGED node
    BY <1>1, <2>2, <2>3, Unseen DEF Submitted
  <2>4. CASE pc[p] = "send" /\ Accept(cur[p]) /\ node' # node
    <3>1. PICK o \in Orders : o = cur[p]
      BY <2>4, AtWorkType DEF AtWork
    <3>2. node[o] = "unknown" /\ node' = [node EXCEPT ![o] = "mempool"]
      BY <2>4, <3>1 DEF Accept
    <3>3. notBefore[o] <= now[p] /\ now[p] <= clock
      BY <2>4, <3>1 DEF Timely, AtWork
    <3>4. notBefore[o] \in Int /\ now[p] \in Int /\ clock \in Int
      BY SizeAssumption DEF TypeOK, DiskTypeOK, PassTypeOK, WorldTypeOK, Time
    <3>5. clock >= notBefore[o]
      BY <3>3, <3>4
    <3>6. Ledger!Submit(o)
      BY <2>2, <3>2, <3>5, TakingSubmits
    <3> QED BY <3>6 DEF Ledger!Next
  <2> QED BY <2>1, <2>3, <2>4, NodeFrame
<1> QED BY <1>2, <1>3, <1>4, <1>5 DEF Next, Environment

\* Passes that do not overlap keep the ledger: whatever is sent is due, and is
\* booked once and for good, whenever a pass dies and however RPC calls fail.
THEOREM LedgerIsKept == ASSUME OneProcess PROVE Spec => LedgerKept
<1>1. Init => Accounted
  BY HonestBlank DEF Init, Accounted
<1> QED BY <1>1, LedgerInit, LedgerStep, TypeCorrect, StepAccounted, InitTimely, StepTimely,
           InitCurrent, StepCurrent, PTL DEF Spec, LedgerKept, Ledger!Spec

=============================================================================
