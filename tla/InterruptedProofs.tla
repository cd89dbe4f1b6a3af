------------------------- MODULE InterruptedProofs -------------------------
(***************************************************************************)
(* Theorems about what a pass leaves behind that dies between a submission *)
(* and its record, when passes do not overlap: the next one recognises the *)
(* order, keeps the distance to it, and remind names nothing else.         *)
(***************************************************************************)
EXTENDS Remind, LonePassProofs, WellFoundedInduction

----------------------------------------------------------------------------
(* What has been sent is recognised.                                       *)

\* An order that a pass handed to Core is signed and known there, so no later
\* step on it reaches a rejection.
Recognised ==
    /\ \A q \in Orders : sentAt[q] # None => node[q] # "unknown" /\ signed[q] = "good"
    /\ \A p \in Proc :
        /\ pc[p] \in {"lookup", "test", "send", "mark"} => signed[cur[p]] = "good"
        /\ pc[p] \in {"test", "send"} => sentAt[cur[p]] = None
        /\ pc[p] \in SavingReady
                => mem[p][cur[p]].status = stateFile[cur[p]].status
        /\ pc[p] \in SavingResult /\ mem[p][cur[p]].status # "broadcast"
                => sentAt[cur[p]] = None

\* A pass neither signs nor takes a signature back.
LEMMA SignedFrame ==
    ASSUME NEW p \in Proc, PassStep(p) \/ Crash(p)
    PROVE  signed' = signed
BY DEF PassStep, Start, Load, LoadDies, Return, PassOver, NothingSigned, NotSigned, Resolve,
       OpenTmp, WriteTmp, SwapReady, SwapResult, SwapDies, Hold, Finalize, FinalizeFails,
       ParseDies, LookupFinds, LookupMisses, TestPasses, TestRejects, SendReturns, SendFails,
       SendDies, MarkBroadcast, Crash, disk, Open, Write, Abandon, Replace, MarkFailed

LEMMA StepSentKnown ==
    ASSUME TypeOK, Recognised, [Next]_vars, NEW q \in Orders, sentAt'[q] # None
    PROVE  node'[q] # "unknown" /\ signed'[q] = "good"
<1>1. CASE \E p \in Proc : PassStep(p) \/ Crash(p)
  <2>1. PICK p \in Proc : PassStep(p) \/ Crash(p)
    BY <1>1
  <2>2. signed' = signed
    BY <2>1, SignedFrame
  <2>3. CASE sentAt'[q] = sentAt[q]
    BY <2>2, <2>3, NodeGrows DEF Recognised
  <2>4. CASE sentAt'[q] # sentAt[q]
    <3>1. pc[p] = "send" /\ Accept(cur[p])
      BY <2>1, <2>4, NodeFrame
    <3>2. cur[p] = q /\ node'[q] = "mempool"
      BY <2>4, <3>1 DEF Accept, TypeOK, WorldTypeOK
    <3> QED BY <2>2, <3>1, <3>2 DEF Recognised
  <2> QED BY <2>3, <2>4
<1>2. CASE Environment \/ UNCHANGED vars
  <2>1. sentAt' = sentAt
    BY <1>2, WorldFrame DEF files
  <2>2. signed'[q] = signed[q] \/ signed[q] = "missing"
    BY <1>2 DEF Environment, Tick, Sign, ManualSend, Mine, vars, disk, files, TypeOK, DiskTypeOK
  <2> QED BY <2>1, <2>2, NodeGrows DEF Recognised
<1> QED BY <1>1, <1>2 DEF Next

LEMMA OwnRecognised ==
    ASSUME OneProcess, TypeOK, Current, Recognised, TxIndex, "lookup" \notin FaultKinds,
           NEW p \in Proc, PassStep(p) \/ Crash(p)
    PROVE  Recognised'
<1> USE DEF locals, SavingReady, SavingResult
<1>0. ASSUME NEW q \in Proc PROVE q = p
  BY DEF OneProcess
<1>1. [Next]_vars /\ signed' = signed
  BY SignedFrame DEF Next
<1>2. \A q \in Orders : sentAt'[q] # None => node'[q] # "unknown" /\ signed'[q] = "good"
  BY <1>1, StepSentKnown
<1>3. CASE pc'[p] \in {"idle", "load", "scan", "gate"}
  BY <1>0, <1>2, <1>3 DEF Recognised
<1>4. CASE Resolve(p)
  <2>1. cur[p] \in Orders /\ mem[p] \in States /\ mem[p] = stateFile
    BY <1>4, AtEntryType DEF Resolve, TypeOK, PassTypeOK, Current, AtEntry
  <2>2. /\ UNCHANGED <<stateFile, cur>>
        /\ \/ pc'[p] = "gate"
           \/ pc'[p] = "saveReady" /\ \E r : mem'[p] = WithReady(mem[p], cur[p], r)
    BY <1>4 DEF Resolve, Goto, disk, files, TypeOK, PassTypeOK
  <2> QED BY <1>0, <1>2, <1>3, <2>1, <2>2, UpdatesOfEntry DEF Recognised
<1>5. CASE OpenTmp(p) \/ WriteTmp(p)
  <2>1. /\ UNCHANGED <<stateFile, mem, cur, sentAt>>
        /\ \/ pc[p] \in SavingReady /\ pc'[p] \in SavingReady
           \/ pc[p] \in SavingResult /\ pc'[p] \in SavingResult
    BY <1>5 DEF OpenTmp, WriteTmp, Open, Write, Current, Goto, world, TypeOK, PassTypeOK
  <2> QED BY <1>0, <1>2, <2>1 DEF Recognised
<1>6. CASE Finalize(p) \/ LookupFinds(p) \/ TestPasses(p)
  <2>1. /\ UNCHANGED <<cur, sentAt>>
        /\ \/ pc[p] = "gate" /\ pc'[p] = "lookup" /\ signed[cur[p]] = "good"
           \/ pc[p] = "lookup" /\ pc'[p] = "mark"
           \/ pc[p] = "test" /\ pc'[p] = "send"
    BY <1>6 DEF Finalize, LookupFinds, TestPasses, Goto, world, TypeOK, PassTypeOK
  <2> QED BY <1>0, <1>1, <1>2, <2>1 DEF Recognised
<1>7. CASE LookupMisses(p) /\ ~opt[p].dry_run
  <2>1. /\ UNCHANGED <<cur, sentAt>> /\ pc[p] = "lookup" /\ pc'[p] = "test"
        /\ ~NodeFinds(cur[p])
    BY <1>7 DEF LookupMisses, Goto, Fault, TypeOK, PassTypeOK
  <2>2. cur[p] \in Orders
    BY <2>1, AtWorkType DEF AtWork
  <2>3. node[cur[p]] = "unknown"
    BY <2>1, <2>2 DEF NodeFinds, TypeOK, WorldTypeOK
  <2> QED BY <1>0, <1>1, <1>2, <2>1, <2>2, <2>3 DEF Recognised
<1>8. CASE SendReturns(p)
  <2>1. pc[p] = "send" /\ pc'[p] = "mark" /\ UNCHANGED cur
    BY <1>8 DEF SendReturns, Goto, TypeOK, PassTypeOK
  <2> QED BY <1>0, <1>1, <1>2, <2>1 DEF Recognised
<1>9. CASE FinalizeFails(p) \/ TestRejects(p) \/ SendFails(p)
  <2>1. /\ UNCHANGED <<cur, sentAt>> /\ pc'[p] = "saveResult"
        /\ \/ pc[p] = "gate" /\ signed[cur[p]] = "bad"
           \/ pc[p] \in {"test", "send"}
    BY <1>9 DEF FinalizeFails, TestRejects, SendFails, MarkFailed, Goto, world, TypeOK, PassTypeOK
  <2>2. cur[p] \in Orders
    BY <2>1, AtWorkType DEF AtWork
  <2>3. sentAt[cur[p]] = None
    BY <2>1, <2>2 DEF Recognised
  <2> QED BY <1>0, <1>2, <2>1, <2>3 DEF Recognised
<1>10. CASE MarkBroadcast(p)
  <2>1. /\ UNCHANGED cur /\ pc[p] = "mark" /\ pc'[p] = "saveResult"
        /\ mem'[p] = MarkedBroadcast(mem[p], cur[p], clock)
    BY <1>10 DEF MarkBroadcast, Goto, TypeOK, PassTypeOK
  <2>2. cur[p] \in Orders /\ mem[p] \in States
    BY <2>1, AtWorkType DEF AtWork, TypeOK, PassTypeOK
  <2>3. mem'[p][cur[p]].status = "broadcast"
    BY <2>1, <2>2 DEF MarkedBroadcast, States
  <2> QED BY <1>0, <1>2, <2>1, <2>3 DEF Recognised
<1>11. CASE \/ LoadDies(p) \/ Return(p) \/ NothingSigned(p) \/ SwapDies(p) \/ ParseDies(p)
            \/ SendDies(p) \/ Crash(p) \/ Start(p) \/ Load(p) \/ PassOver(p)
            \/ NotSigned(p) \/ Hold(p) \/ SwapReady(p) \/ SwapResult(p)
            \/ (LookupMisses(p) /\ opt[p].dry_run)
  <2>1. pc'[p] \in {"idle", "load", "scan", "gate"}
    BY <1>11
    DEF Return, NothingSigned, SwapDies, ParseDies, SendDies, Crash, Start, Load, LoadDies,
        PassOver, NotSigned, Hold, SwapReady, SwapResult, LookupMisses, NextEntry,
        NextAttempted, Exit, Goto, TypeOK, PassTypeOK
  <2> QED BY <1>3, <2>1
<1> QED BY <1>4, <1>5, <1>6, <1>7, <1>8, <1>9, <1>10, <1>11 DEF PassStep

LEMMA StepRecognised ==
    ASSUME OneProcess, TxIndex, "lookup" \notin FaultKinds
    PROVE  TypeOK /\ Current /\ Recognised /\ [Next]_vars => Recognised'
<1> SUFFICES ASSUME TypeOK, Current, Recognised, [Next]_vars PROVE Recognised'
  OBVIOUS
<1>1. CASE Environment \/ UNCHANGED vars
  <2>1. UNCHANGED <<stateFile, pc, locals, sentAt>>
    BY <1>1, WorldFrame DEF files
  <2>2. \A q \in Orders : signed[q] = "good" => signed'[q] = "good"
    BY <1>1 DEF Environment, Tick, Sign, ManualSend, Mine, vars, disk, files, TypeOK, DiskTypeOK
  <2>3. \A q \in Orders : sentAt'[q] # None => node'[q] # "unknown" /\ signed'[q] = "good"
    BY StepSentKnown
  <2>4. \A p \in Proc : pc[p] \in {"lookup", "test", "send", "mark"} => cur[p] \in Orders
    BY AtWorkType DEF AtWork
  <2> QED BY <2>1, <2>2, <2>3, <2>4 DEF Recognised, locals
<1> QED BY <1>1, OwnRecognised DEF Next

LEMMA InitRecognised == Init => Recognised
BY DEF Init, Recognised, SavingReady, SavingResult

\* With -txindex and a lookup that answers, an order that an interrupted pass
\* has sent is never written down as failed by the ones after it.
THEOREM SentNotFailed ==
    ASSUME OneProcess, TxIndex, "lookup" \notin FaultKinds
    PROVE  Spec => AcceptedNotFailed
<1>1. TypeOK /\ Current /\ Recognised /\ [Next]_vars =>
        [\A o \in Orders : sentAt[o] # None /\ stateFile[o].status # "failed"
            => stateFile'[o].status # "failed"]_vars
  <2> SUFFICES ASSUME TypeOK, Current, Recognised, [Next]_vars, NEW o \in Orders,
                      sentAt[o] # None, stateFile[o].status # "failed",
                      stateFile'[o].status = "failed"
               PROVE  FALSE
    OBVIOUS
  <2>1. PICK p \in Proc : /\ o = cur[p]
                          /\ SwapReady(p) \/ SwapResult(p)
                          /\ stateFile' = mem[p]
    BY SaveTouchesCurrent
  <2> QED BY <2>1 DEF SwapReady, SwapResult, Recognised, SavingReady, SavingResult
<1> QED BY <1>1, StepRecognised, InitRecognised, InitCurrent, StepCurrent, TypeCorrect,
           PTL DEF Spec, AcceptedNotFailed

----------------------------------------------------------------------------
(* The distance to what has been sent is kept.                             *)

\* The command lines for which it is: none that sends passes over failures, and
\* jitter is given on all of them when it is left out on one that sends.
SteadyOptions ==
    /\ \A c \in Options : c.dry_run \/ ~c.skip_failed
    /\ (\E c \in Options : ~c.dry_run /\ c.jitter = 0) => \A c \in Options : c.jitter = 0

\* The file shows a broadcast, of q or ahead of it, no earlier than q was sent:
\* the catch-up times of later orders keep their distance to q as well.
Covered(q) ==
    \E c \in 1 .. q : /\ stateFile[c].status = "broadcast"
                      /\ stateFile[c].at # None
                      /\ stateFile[c].at >= sentAt[q]

\* Whatever time the next pass settles for q, it is not later than the time q
\* was sent at: the pass will not be held back on its way to record it.
Fixed(q) ==
    /\ \A f \in CatchUpFloors(stateFile, notBefore, q) : f <= sentAt[q]
    /\ stateFile[q].ready # None => stateFile[q].ready <= sentAt[q]
    /\ stateFile[q].ready = None => \A c \in Options : c.jitter = 0

SentKept ==
    \A q \in Orders : sentAt[q] # None =>
        /\ sentAt[q] <= clock /\ notBefore[q] <= sentAt[q]
        /\ stateFile[q].status = "broadcast"
                => stateFile[q].at # None /\ stateFile[q].at >= sentAt[q]
        /\ Covered(q) \/ Fixed(q)

\* This pass may hand something to Core.
QuietHolds(p) == opt[p].respect_quiet /\ now[p] \in Quiet

MaySend(p) == ~opt[p].dry_run /\ ~QuietHolds(p)

\* The entry of this order lies before the pass, which has not sent it itself.
Coming(p, q) ==
    q > cur[p] \/ (q = cur[p] /\ pc[p] \notin {"mark"} \cup SavingResult)

\* What is sent and ahead of a pass was sent before it began; what is sent and
\* behind it is covered.
Reached(p) ==
    /\ pc[p] \in {"idle", "load"} => cur[p] = 1
    /\ pc[p] \notin {"idle", "load"} =>
        /\ \A q \in Orders : sentAt[q] # None /\ Coming(p, q) => sentAt[q] <= now[p]
        /\ MaySend(p) =>
            \A q \in Orders : sentAt[q] # None /\ q < cur[p] => Covered(q)

\* The time settled for the current entry respects the catch-up times, is on
\* file if there is jitter, and does not hold back an order to be recorded.
ReadySettled(p) ==
    AtWork(p) =>
        /\ \A f \in CatchUpFloors(stateFile, notBefore, cur[p]) : f <= ready[p]
        /\ pc[p] \notin SavingReady /\ stateFile[cur[p]].ready = None
                => opt[p].jitter = 0
        /\ pc[p] \notin {"mark"} \cup SavingResult /\ sentAt[cur[p]] # None
                => Covered(cur[p]) \/ ready[p] <= sentAt[cur[p]]

\* Only what may be sent is; a broadcast mark is later than everything sent.
MarkedLate(p) ==
    /\ pc[p] \in {"lookup", "test", "send"} => ~QuietHolds(p)
    /\ pc[p] \in {"test", "send"} => ~opt[p].dry_run
    /\ pc[p] \in SavingResult /\ mem[p][cur[p]].status = "broadcast" =>
        /\ mem[p][cur[p]].at # None
        /\ \A q \in Orders : sentAt[q] # None => mem[p][cur[p]].at >= sentAt[q]

PassKept == \A p \in Proc : Reached(p) /\ ReadySettled(p) /\ MarkedLate(p)

\* What the invariants so far say together.
LoneInv == TypeOK /\ Timely /\ Current /\ Drawn /\ Recognised

\* Catch-up times look at no later entry, and at nothing but broadcasts.
LEMMA FloorsDependOn ==
    ASSUME NEW st1 \in States, NEW st2 \in States, NEW pl, NEW o \in Orders,
           \A c \in Orders : c < o =>
                \/ st2[c] = st1[c]
                \/ st1[c].status # "broadcast" /\ st2[c].status # "broadcast"
    PROVE  CatchUpFloors(st2, pl, o) = CatchUpFloors(st1, pl, o)
<1>1. \A c \in 1 .. (o - 1) : c \in Orders /\ c < o
  BY SizeAssumption DEF Orders
<1>2. {c \in 1 .. (o - 1) : st2[c].status = "broadcast" /\ st2[c].at # None}
        = {c \in 1 .. (o - 1) : st1[c].status = "broadcast" /\ st1[c].at # None}
  BY <1>1
<1>3. \A c \in 1 .. (o - 1) : st1[c].status = "broadcast" /\ st2[c].status = "broadcast"
        => st2[c] = st1[c]
  BY <1>1
<1> QED BY <1>2, <1>3 DEF CatchUpFloors

LEMMA SentStays ==
    ASSUME TypeOK, Recognised, [Next]_vars, NEW q \in Orders, sentAt[q] # None
    PROVE  sentAt'[q] = sentAt[q]
<1>1. ASSUME NEW p \in Proc, PassStep(p) \/ Crash(p) PROVE sentAt'[q] = sentAt[q]
  <2>1. CASE UNCHANGED sentAt
    BY <2>1
  <2>2. CASE Accept(cur[p])
    BY <2>2 DEF Accept, Recognised, TypeOK, WorldTypeOK
  <2> QED BY <1>1, <2>1, <2>2, NodeFrame
<1> QED BY <1>1, WorldFrame DEF Next

LEMMA SaveFrame ==
    ASSUME Current, NEW p \in Proc, PassStep(p) \/ Crash(p)
    PROVE  stateFile' = stateFile \/ SwapReady(p) \/ SwapResult(p)
BY DEF PassStep, Start, Load, LoadDies, Return, PassOver, NothingSigned, NotSigned, Resolve,
       OpenTmp, WriteTmp, SwapDies, Hold, Finalize, FinalizeFails, ParseDies, LookupFinds,
       LookupMisses, TestPasses, TestRejects, SendReturns, SendFails, SendDies, MarkBroadcast,
       Crash, disk, files, MarkFailed, Open, Write, Abandon, Current

LEMMA SentTypes ==
    ASSUME TypeOK, NEW q \in Orders
    PROVE  /\ sentAt[q] # None => sentAt[q] \in Int
           /\ stateFile[q].at # None => stateFile[q].at \in Int
           /\ stateFile[q].ready # None => stateFile[q].ready \in Int
           /\ notBefore[q] \in Int /\ clock \in Int
<1>1. stateFile[q] \in Entry
  BY DEF TypeOK, DiskTypeOK, States
<1> QED BY <1>1, SizeAssumption DEF Entry, Stamp, TypeOK, DiskTypeOK, WorldTypeOK, Time

LEMMA CoveredStays ==
    ASSUME OneProcess, TypeOK, Current, Recognised, [Next]_vars,
           NEW q \in Orders, sentAt[q] # None, Covered(q)
    PROVE  Covered(q)'
<1>1. PICK c \in 1 .. q : /\ stateFile[c].status = "broadcast"
                         /\ stateFile[c].at # None
                         /\ stateFile[c].at >= sentAt[q]
  BY DEF Covered
<1>2. c \in Orders
  BY SizeAssumption DEF Orders
<1>3. stateFile'[c] = stateFile[c]
  BY <1>1, <1>2, SaveTouchesCurrent
<1>4. sentAt'[q] = sentAt[q]
  BY SentStays
<1> QED BY <1>1, <1>3, <1>4 DEF Covered

\* Nothing but a save or a submission touches what is kept of sent orders.
LEMMA FixedStays ==
    ASSUME UNCHANGED <<stateFile, notBefore>>, NEW q \in Orders, sentAt'[q] = sentAt[q]
    PROVE  Fixed(q)' <=> Fixed(q)
BY DEF Fixed, CatchUpFloors

LEMMA SaveKeepsSent ==
    ASSUME OneProcess, LoneInv, SentKept, PassKept, NEW p \in Proc,
           SwapReady(p) \/ SwapResult(p)
    PROVE  SentKept'
<1> SUFFICES ASSUME NEW q \in Orders, sentAt'[q] # None
             PROVE  /\ sentAt'[q] <= clock' /\ notBefore'[q] <= sentAt'[q]
                    /\ stateFile'[q].status = "broadcast"
                        => stateFile'[q].at # None /\ stateFile'[q].at >= sentAt'[q]
                    /\ Covered(q)' \/ Fixed(q)'
  BY DEF SentKept
<1> DEFINE o == cur[p]
<1> USE DEF LoneInv, SavingReady, SavingResult
<1>0. [Next]_vars
  BY DEF Next, PassStep
<1>1. /\ UNCHANGED <<clock, notBefore, sentAt>>
      /\ stateFile' = mem[p]
  BY DEF SwapReady, SwapResult, Replace, world, Current
<1>2. /\ o \in Orders /\ stateFile[o].status # "broadcast"
      /\ \A c \in Orders \ {o} : stateFile'[c] = stateFile[c]
  BY <1>1, AtWorkType DEF SwapReady, SwapResult, AtWork, Saving, Current
<1>3. stateFile \in States /\ stateFile' \in States
  BY <1>1 DEF TypeOK, DiskTypeOK, PassTypeOK
<1>4. sentAt[q] <= clock /\ notBefore[q] <= sentAt[q] /\ (Covered(q) \/ Fixed(q))
  BY <1>1 DEF SentKept
<1>5. CASE Covered(q)
  <2>1. Covered(q)'
    BY <1>0, <1>1, <1>5, CoveredStays
  <2>2. q # o /\ stateFile'[q].status = "broadcast"
                    => stateFile'[q].at # None /\ stateFile'[q].at >= sentAt'[q]
    BY <1>1, <1>2 DEF SentKept
  <2>3. stateFile'[o].status = "broadcast" /\ q = o
            => stateFile'[q].at # None /\ stateFile'[q].at >= sentAt'[q]
    BY <1>1, <1>2 DEF SwapReady, SwapResult, Current, Recognised, PassKept, MarkedLate
  <2> QED BY <1>1, <1>4, <2>1, <2>2, <2>3
<1>6. CASE Fixed(q) /\ stateFile'[o].status = "broadcast"
  <2>1. pc[p] = "swapResult" /\ mem[p][o].status = "broadcast"
    BY <1>1, <1>2, <1>6 DEF SwapReady, SwapResult, Current
  <2>2. stateFile'[o].at # None /\ stateFile'[o].at >= sentAt[q]
    BY <1>1, <2>1 DEF PassKept, MarkedLate
  <2>3. CASE o <= q
    <3>1. o \in 1 .. q
      BY <1>2, <2>3, SizeAssumption DEF Orders
    <3>2. Covered(q)'
      BY <1>1, <1>6, <2>2, <3>1 DEF Covered
    <3> QED BY <1>1, <1>2, <1>4, <2>2, <3>2 DEF SentKept
  <2>4. CASE ~(o <= q)
    <3>1. \A c \in Orders : c <= q => stateFile'[c] = stateFile[c]
      BY <1>2, <2>4
    <3>2. stateFile'[q] = stateFile[q]
      BY <3>1, SizeAssumption DEF Orders
    <3>3. CatchUpFloors(stateFile', notBefore, q) = CatchUpFloors(stateFile, notBefore, q)
      BY <1>3, <3>1, FloorsDependOn DEF Orders
    <3>4. CatchUpFloors(stateFile, notBefore, q)' = CatchUpFloors(stateFile', notBefore, q)
      BY <1>1 DEF CatchUpFloors
    <3> QED BY <1>1, <1>4, <1>6, <3>2, <3>3, <3>4 DEF Fixed, SentKept
  <2> QED BY <2>3, <2>4
<1>7. CASE Fixed(q) /\ stateFile'[o].status # "broadcast"
  <2>1. CatchUpFloors(stateFile', notBefore, q) = CatchUpFloors(stateFile, notBefore, q)
    BY <1>2, <1>3, <1>7, FloorsDependOn
  <2>2. CatchUpFloors(stateFile, notBefore, q)' = CatchUpFloors(stateFile', notBefore, q)
    BY <1>1 DEF CatchUpFloors
  <2>3. CASE q # o
    BY <1>1, <1>2, <1>4, <1>7, <2>1, <2>2, <2>3 DEF Fixed, SentKept
  <2>4. CASE q = o
    <3>1. pc[p] = "swapReady"
      BY <1>1, <1>7, <2>4 DEF SwapReady, SwapResult, Recognised
    <3>2. stateFile'[o].ready = ready[p] /\ ready[p] # None
      BY <1>1, <3>1, AtWorkType, NoneAssumption DEF Drawn, AtWork
    <3>3. CASE Covered(q)
      BY <1>0, <1>1, <1>4, <1>7, <2>4, <3>3, CoveredStays
    <3>4. CASE ~Covered(q)
      <4>1. ready[p] <= sentAt[q]
        BY <1>1, <2>4, <3>1, <3>4 DEF PassKept, ReadySettled, AtWork
      <4> QED BY <1>1, <1>4, <1>7, <2>1, <2>2, <2>4, <3>2, <4>1 DEF Fixed
    <3> QED BY <3>3, <3>4
  <2> QED BY <2>3, <2>4
<1> QED BY <1>4, <1>5, <1>6, <1>7

\* Core takes the current order: the time settled for it has passed, and the
\* next pass settles no later one.
LEMMA SendingKeepsSent ==
    ASSUME OneProcess, SteadyOptions, LoneInv, SentKept, PassKept, NEW p \in Proc,
           PassStep(p) \/ Crash(p), pc[p] = "send", Accept(cur[p])
    PROVE  SentKept'
<1> USE DEF LoneInv, SavingReady, SavingResult
<1>0. [Next]_vars
  BY DEF Next
<1>1. PICK o \in Orders : o = cur[p]
  BY AtWorkType DEF AtWork
<1>2. UNCHANGED <<clock, notBefore, stateFile>>
  BY FileFrame, SaveFrame DEF SwapReady, SwapResult
<1>3. ready[p] \in Nat /\ stateFile[o].status # "broadcast" /\ mem[p] = stateFile
  BY <1>1, AtWorkType DEF AtWork, Current
<1>4. \A q \in Orders \ {o} : sentAt'[q] = sentAt[q]
  BY <1>1 DEF Accept, TypeOK, WorldTypeOK
<1>5. sentAt'[o] = sentAt[o] \/ sentAt'[o] = clock
  BY <1>1 DEF Accept, TypeOK, WorldTypeOK
<1>6. ASSUME NEW q \in Orders, sentAt'[q] = sentAt[q], sentAt[q] # None
      PROVE  /\ sentAt'[q] <= clock' /\ notBefore'[q] <= sentAt'[q]
             /\ stateFile'[q].status = "broadcast"
                 => stateFile'[q].at # None /\ stateFile'[q].at >= sentAt'[q]
             /\ Covered(q)' \/ Fixed(q)'
  BY <1>0, <1>2, <1>6, CoveredStays, FixedStays DEF SentKept
<1>7. CASE sentAt'[o] = clock /\ sentAt'[o] # sentAt[o]
  <2>1. ready[p] <= clock /\ notBefore[o] <= clock
    <3>1. ready[p] <= now[p] /\ notBefore[o] <= now[p] /\ now[p] <= clock
      BY <1>1 DEF Timely, AtWork
    <3>2. now[p] \in Int /\ clock \in Int /\ notBefore[o] \in Int
      BY <1>3, SizeAssumption DEF TypeOK, PassTypeOK, DiskTypeOK, WorldTypeOK, Time
    <3> QED BY <1>3, <3>1, <3>2
  <2>2. /\ \A f \in CatchUpFloors(stateFile, notBefore, o) : f <= ready[p]
        /\ stateFile[o].ready = None => opt[p].jitter = 0
        /\ ~opt[p].dry_run
    BY <1>1 DEF PassKept, ReadySettled, MarkedLate, AtWork
  <2>3. stateFile[o].ready # None => stateFile[o].ready <= ready[p]
    BY <1>3, <1>1 DEF Drawn, AtWork
  <2>4. stateFile[o].ready = None => \A c \in Options : c.jitter = 0
    BY <2>2 DEF SteadyOptions, TypeOK, PassTypeOK
  <2>5. stateFile \in States /\ notBefore \in [Orders -> Nat] /\ clock \in Int
    BY SizeAssumption DEF TypeOK, DiskTypeOK, WorldTypeOK, Time
  <2>6. \A f \in CatchUpFloors(stateFile, notBefore, o) : f <= clock
    BY <1>3, <2>1, <2>2, <2>5, FloorsType
  <2>7. stateFile[o].ready # None => stateFile[o].ready <= clock
    BY <1>3, <2>1, <2>3, <2>5, SentTypes
  <2>8. Fixed(o)'
    BY <1>2, <1>7, <2>4, <2>6, <2>7 DEF Fixed, CatchUpFloors
  <2>9. ASSUME NEW q \in Orders, sentAt'[q] # None
        PROVE  /\ sentAt'[q] <= clock' /\ notBefore'[q] <= sentAt'[q]
               /\ stateFile'[q].status = "broadcast"
                    => stateFile'[q].at # None /\ stateFile'[q].at >= sentAt'[q]
               /\ Covered(q)' \/ Fixed(q)'
    <3>1. CASE q = o
      BY <1>2, <1>3, <1>7, <2>1, <2>5, <2>8, <3>1
    <3>2. CASE q # o
      BY <1>4, <1>6, <2>9, <3>2
    <3> QED BY <3>1, <3>2
  <2> QED BY <2>9 DEF SentKept
<1> QED BY <1>4, <1>5, <1>6, <1>7 DEF SentKept

LEMMA StepSentKept ==
    ASSUME OneProcess, SteadyOptions, LoneInv, SentKept, PassKept, [Next]_vars
    PROVE  SentKept'
<1> USE DEF LoneInv, SavingReady, SavingResult
<1>1. ASSUME UNCHANGED <<stateFile, notBefore, sentAt>>, clock' = clock \/ clock' = clock + 1
      PROVE  SentKept'
  <2> SUFFICES ASSUME NEW q \in Orders, sentAt'[q] # None
               PROVE  /\ sentAt'[q] <= clock' /\ notBefore'[q] <= sentAt'[q]
                      /\ stateFile'[q].status = "broadcast"
                            => stateFile'[q].at # None /\ stateFile'[q].at >= sentAt'[q]
                      /\ Covered(q)' \/ Fixed(q)'
    BY DEF SentKept
  <2>1. sentAt[q] <= clock' /\ notBefore[q] <= sentAt[q]
    BY <1>1, SentTypes DEF SentKept
  <2>2. Covered(q)' \/ Fixed(q)'
    BY <1>1, CoveredStays, FixedStays DEF SentKept
  <2> QED BY <1>1, <2>1, <2>2 DEF SentKept
<1>2. CASE Environment \/ UNCHANGED vars
  BY <1>1, <1>2, WorldFrame DEF files
<1>3. ASSUME NEW p \in Proc, PassStep(p) \/ Crash(p) PROVE SentKept'
  <2>1. CASE SwapReady(p) \/ SwapResult(p)
    BY <2>1, SaveKeepsSent
  <2>2. CASE pc[p] = "send" /\ Accept(cur[p])
    BY <1>3, <2>2, SendingKeepsSent
  <2>3. CASE UNCHANGED sentAt /\ UNCHANGED stateFile
    BY <1>1, <1>3, <2>3, FileFrame
  <2> QED BY <1>3, <2>1, <2>2, <2>3, NodeFrame, SaveFrame
<1> QED BY <1>2, <1>3 DEF Next

----------------------------------------------------------------------------
(* The pass's own part of it.                                              *)

\* What is covered stays so, and a step sends nothing but the current order.
LEMMA BehindStays ==
    ASSUME OneProcess, LoneInv, NEW p \in Proc, PassStep(p) \/ Crash(p),
           NEW q \in Orders, sentAt'[q] # None, q # cur[p]
    PROVE  sentAt[q] = sentAt'[q] /\ (Covered(q) => Covered(q)')
<1> USE DEF LoneInv, SavingReady, SavingResult
<1>1. sentAt'[q] = sentAt[q]
  <2>1. CASE UNCHANGED sentAt
    BY <2>1
  <2>2. CASE pc[p] = "send" /\ Accept(cur[p])
    BY <2>2 DEF Accept, TypeOK, WorldTypeOK
  <2> QED BY <2>1, <2>2, NodeFrame
<1>2. [Next]_vars
  BY DEF Next
<1> QED BY <1>1, <1>2, CoveredStays

\* The loop moves on from an order that is not sent, covered, or, for a pass
\* that sends nothing, whatever it is.
LEMMA MovesOn ==
    ASSUME OneProcess, LoneInv, NEW p \in Proc, PassStep(p) \/ Crash(p), Reached(p),
           pc[p] \notin {"idle", "load"}, pc'[p] = "scan",
           NEW o \in Orders, o = cur[p], cur'[p] = o + 1,
           UNCHANGED <<opt, now, sentAt>>,
           MaySend(p) /\ sentAt[o] # None => Covered(o) \/ Covered(o)'
    PROVE  Reached(p)'
<1> USE DEF LoneInv, SavingReady, SavingResult
<1>1. ASSUME NEW q \in Orders, sentAt'[q] # None, Coming(p, q)'
      PROVE  sentAt'[q] <= now'[p]
  <2>1. q > o
    BY <1>1, SizeAssumption DEF Coming, Orders
  <2> QED BY <1>1, <2>1 DEF Reached, Coming
<1>2. ASSUME MaySend(p)', NEW q \in Orders, sentAt'[q] # None, q < cur'[p]
      PROVE  Covered(q)'
  <2>1. q < o \/ q = o
    BY <1>2, SizeAssumption DEF Orders
  <2>2. MaySend(p) /\ sentAt[q] # None
    BY <1>2 DEF MaySend, QuietHolds
  <2>3. Covered(q) \/ Covered(q)'
    BY <2>1, <2>2 DEF Reached
  <2>4. [Next]_vars
    BY DEF Next
  <2> QED BY <2>2, <2>3, <2>4, CoveredStays
<1> QED BY <1>1, <1>2 DEF Reached

\* The pass stays at its entry.
LEMMA StaysAt ==
    ASSUME OneProcess, LoneInv, NEW p \in Proc, PassStep(p) \/ Crash(p), Reached(p),
           pc[p] \notin {"idle", "load"}, pc'[p] \notin {"idle", "load"},
           cur[p] \in Orders, UNCHANGED <<cur, opt, now>>,
           pc[p] \in {"mark"} \cup SavingResult
                => pc'[p] \in {"mark"} \cup SavingResult,
           sentAt' = sentAt \/ pc'[p] = "mark"
    PROVE  Reached(p)'
<1> USE DEF LoneInv, SavingReady, SavingResult
<1>1. ASSUME NEW q \in Orders, sentAt'[q] # None, Coming(p, q)'
      PROVE  sentAt'[q] <= now'[p]
  <2>1. Coming(p, q) /\ (sentAt' # sentAt => q # cur[p])
    BY <1>1, SizeAssumption DEF Coming, Orders
  <2>2. sentAt'[q] = sentAt[q]
    BY <1>1, <2>1, BehindStays
  <2> QED BY <1>1, <2>1, <2>2 DEF Reached
<1>2. ASSUME MaySend(p)', NEW q \in Orders, sentAt'[q] # None, q < cur'[p]
      PROVE  Covered(q)'
  <2>1. q # cur[p] /\ q < cur[p]
    BY <1>2, SizeAssumption DEF Orders
  <2>2. sentAt[q] # None /\ (Covered(q) => Covered(q)')
    BY <1>2, <2>1, BehindStays
  <2>3. MaySend(p)
    BY <1>2 DEF MaySend, QuietHolds
  <2> QED BY <2>1, <2>2, <2>3 DEF Reached
<1> QED BY <1>1, <1>2 DEF Reached

LEMMA OwnReached ==
    ASSUME OneProcess, SteadyOptions, LoneInv, SentKept, PassKept,
           NEW p \in Proc, PassStep(p) \/ Crash(p)
    PROVE  Reached(p)'
<1> USE DEF LoneInv, locals, SavingReady, SavingResult
<1>0. Reached(p) /\ ReadySettled(p) /\ MarkedLate(p)
  BY DEF PassKept
<1>1. CASE \/ LoadDies(p) \/ Return(p) \/ NothingSigned(p) \/ SwapDies(p) \/ ParseDies(p)
           \/ SendDies(p) \/ Crash(p) \/ Start(p)
  <2>1. cur'[p] = 1 /\ pc'[p] \in {"idle", "load"}
    BY <1>0, <1>1
    DEF LoadDies, Return, NothingSigned, SwapDies, ParseDies, SendDies, Crash, Start, Exit,
        Goto, TypeOK, PassTypeOK, Reached
  <2> QED BY <2>1 DEF Reached
<1>2. CASE Load(p)
  <2>1. /\ cur'[p] = 1 /\ pc'[p] = "scan" /\ now'[p] = clock
        /\ sentAt' = sentAt
    BY <1>0, <1>2 DEF Load, Goto, world, TypeOK, PassTypeOK, Reached
  <2>2. \A q \in Orders : sentAt[q] # None => sentAt[q] <= clock
    BY DEF SentKept
  <2>3. \A q \in Orders : ~(q < 1)
    BY SizeAssumption DEF Orders
  <2> QED BY <2>1, <2>2, <2>3 DEF Reached
<1>3. CASE \/ PassOver(p) \/ NotSigned(p) \/ Hold(p) \/ SwapResult(p)
           \/ (LookupMisses(p) /\ opt[p].dry_run)
  <2>1. PICK o \in Orders : o = cur[p]
    BY <1>3, AtEntryType, AtWorkType
    DEF PassOver, NotSigned, Hold, SwapResult, LookupMisses, AtWork
  <2>2. /\ pc[p] \in {"scan", "gate", "lookup", "swapResult"} /\ pc'[p] = "scan"
        /\ cur'[p] = o + 1
        /\ UNCHANGED <<opt, now, sentAt>>
    BY <1>3, <2>1 DEF PassOver, NotSigned, Hold, SwapResult, LookupMisses, AtEntry, NextEntry,
                      NextAttempted, Goto, world, TypeOK, PassTypeOK
  <2>3. pc[p] \in {"scan", "gate"} /\ sentAt[o] # None => sentAt[o] <= now[p]
    BY <1>0, <2>1 DEF Reached, Coming
  <2>4. /\ sentAt[o] # None => sentAt[o] \in Int
        /\ notBefore[o] \in Int /\ now[p] \in Int
    BY <2>1, SentTypes, SizeAssumption DEF TypeOK, PassTypeOK, Time
  <2>5. ASSUME MaySend(p), sentAt[o] # None PROVE Covered(o) \/ Covered(o)'
    <3>1. CASE PassOver(p)
      <4>1. pc[p] = "scan" /\ mem[p] = stateFile /\ plan[p] = notBefore
        BY <3>1 DEF PassOver, AtEntry, Current, Timely
      <4>2. ~opt[p].skip_failed
        BY <2>5 DEF MaySend, SteadyOptions, TypeOK, PassTypeOK
      <4>3. notBefore[o] <= sentAt[o] /\ sentAt[o] <= now[p]
        BY <2>3, <2>5, <4>1 DEF SentKept
      <4>4. stateFile[o].status = "broadcast"
        BY <2>1, <2>4, <2>5, <3>1, <4>1, <4>2, <4>3 DEF PassOver, PassedOver
      <4>5. o \in 1 .. o
        BY SizeAssumption DEF Orders
      <4> QED BY <2>5, <4>4, <4>5 DEF SentKept, Covered
    <3>2. CASE NotSigned(p)
      BY <2>1, <2>5, <3>2 DEF NotSigned, Recognised
    <3>3. CASE Hold(p)
      <4>1. pc[p] = "gate" /\ now[p] < ready[p]
        BY <2>5, <3>3 DEF Hold, Held, MaySend, QuietHolds
      <4>2. ready[p] \in Int
        BY <4>1, AtWorkType DEF AtWork
      <4>3. ~Covered(o) => ready[p] <= sentAt[o]
        BY <1>0, <2>1, <2>5, <4>1 DEF ReadySettled, AtWork
      <4> QED BY <2>3, <2>4, <2>5, <4>1, <4>2, <4>3
    <3>4. CASE SwapResult(p)
      <4>1. pc[p] = "swapResult" /\ stateFile' = mem[p] /\ sentAt' = sentAt
        BY <3>4 DEF SwapResult, Replace, world, Current
      <4>2. /\ stateFile'[o].status = "broadcast" /\ stateFile'[o].at # None
            /\ stateFile'[o].at >= sentAt[o]
        BY <1>0, <2>1, <2>5, <4>1 DEF Recognised, MarkedLate
      <4>3. o \in 1 .. o
        BY SizeAssumption DEF Orders
      <4> QED BY <4>1, <4>2, <4>3 DEF Covered
    <3> QED BY <1>3, <2>5, <3>1, <3>2, <3>3, <3>4 DEF MaySend
  <2> QED BY <1>0, <2>1, <2>2, <2>5, MovesOn
<1>4. CASE \/ Resolve(p) \/ OpenTmp(p) \/ WriteTmp(p) \/ SwapReady(p) \/ Finalize(p) \/ LookupFinds(p)
           \/ (LookupMisses(p) /\ ~opt[p].dry_run) \/ TestPasses(p) \/ SendReturns(p)
           \/ FinalizeFails(p) \/ TestRejects(p) \/ SendFails(p) \/ MarkBroadcast(p)
  <2>1. /\ pc[p] \notin {"idle", "load"} /\ pc'[p] \notin {"idle", "load"}
        /\ UNCHANGED <<cur, opt, now>>
        /\ pc[p] \in {"mark"} \cup SavingResult
                => pc'[p] \in {"mark"} \cup SavingResult
        /\ sentAt' = sentAt \/ pc'[p] = "mark"
    BY <1>4
    DEF Resolve, OpenTmp, WriteTmp, SwapReady, Finalize, LookupFinds, LookupMisses,
        TestPasses, SendReturns, FinalizeFails, TestRejects, SendFails, MarkBroadcast,
        MarkFailed, AtEntry, Goto, world, TypeOK, PassTypeOK
  <2>2. cur[p] \in Orders
    BY <1>4, <2>1, AtEntryType, AtWorkType
    DEF Resolve, OpenTmp, WriteTmp, SwapReady, Finalize, LookupFinds, LookupMisses, TestPasses,
        SendReturns, FinalizeFails, TestRejects, SendFails, MarkBroadcast, AtWork
  <2> QED BY <1>0, <2>1, <2>2, StaysAt
<1> QED BY <1>1, <1>2, <1>3, <1>4 DEF PassStep

LEMMA OwnSettled ==
    ASSUME OneProcess, LoneInv, SentKept, PassKept, NEW p \in Proc, PassStep(p) \/ Crash(p)
    PROVE  ReadySettled(p)'
<1> USE DEF LoneInv, locals, SavingReady, SavingResult
<1>0. [Next]_vars /\ notBefore' = notBefore
  BY FileFrame DEF Next
<1>1. CASE pc'[p] \in {"idle", "load", "scan"}
  BY <1>1 DEF ReadySettled, AtWork
<1>2. CASE Resolve(p)
  <2>1. PICK o \in Orders : o = cur[p]
    BY <1>2, AtEntryType DEF Resolve
  <2>2. /\ mem[p] = stateFile /\ plan[p] = notBefore
        /\ UNCHANGED <<stateFile, cur, opt, sentAt>>
        /\ pc'[p] \in {"gate", "saveReady"}
    BY <1>2 DEF Resolve, AtEntry, Current, Timely, Goto, disk, files, world, TypeOK, PassTypeOK
  <2>3. PICK r \in ReadyTimes(stateFile, notBefore, o, opt[p].jitter) :
          /\ ready'[p] = r
          /\ pc'[p] = "gate" => stateFile[o].ready = r \/ ~(opt[p].jitter > 0)
    BY <1>2, <2>1, <2>2 DEF Resolve, Goto, TypeOK, PassTypeOK
  <2>4. stateFile \in States /\ notBefore \in [Orders -> Nat] /\ opt[p].jitter \in Nat
        /\ opt[p] \in Options
    BY EnvironmentAssumption DEF TypeOK, DiskTypeOK, PassTypeOK, OptionSet
  <2>5. /\ r \in Nat
        /\ \E d \in Draws(stateFile, notBefore, o, opt[p].jitter) :
              r = d \/ r \in CatchUpFloors(stateFile, notBefore, o)
        /\ \A f \in CatchUpFloors(stateFile, notBefore, o) : f <= r
    <3>1. r \in Nat /\ \A f \in CatchUpFloors(stateFile, notBefore, o) : r >= f
      BY <2>4, ReadyTimesType
    <3>2. CatchUpFloors(stateFile, notBefore, o) \subseteq Int
      BY <2>4, FloorsType
    <3> QED BY <2>4, <3>1, <3>2, ReadyTimesType
  <2>6. pc'[p] = "gate" /\ stateFile[o].ready = None => opt[p].jitter = 0
    BY <2>3, <2>4, <2>5, NoneAssumption
  <2>7. sentAt[o] # None /\ ~Covered(o) => r <= sentAt[o]
    <3> SUFFICES ASSUME sentAt[o] # None, ~Covered(o) PROVE r <= sentAt[o]
      OBVIOUS
    <3>1. Fixed(o) /\ notBefore[o] <= sentAt[o]
      BY DEF SentKept
    <3>2. PICK d \in Draws(stateFile, notBefore, o, opt[p].jitter) :
            r = d \/ r \in CatchUpFloors(stateFile, notBefore, o)
      BY <2>5
    <3>3. d <= sentAt[o]
      <4>1. CASE stateFile[o].ready # None
        BY <3>1, <4>1 DEF Draws, Fixed
      <4>2. CASE stateFile[o].ready = None
        <5>1. opt[p].jitter = 0
          BY <2>4, <3>1, <4>2 DEF Fixed
        <5> QED BY <2>4, <3>1, <4>2, <5>1, SentTypes DEF Draws
      <4> QED BY <4>1, <4>2
    <3> QED BY <3>1, <3>2, <3>3 DEF Fixed
  <2>8. CatchUpFloors(stateFile, notBefore, o)' = CatchUpFloors(stateFile, notBefore, o)
    BY <1>0, <2>2 DEF CatchUpFloors
  <2>9. Covered(o)' <=> Covered(o)
    BY <2>2 DEF Covered
  <2>10. cur'[p] = o /\ opt'[p] = opt[p] /\ sentAt'[o] = sentAt[o] /\ stateFile' = stateFile
    BY <2>1, <2>2
  <2> QED BY <2>2, <2>3, <2>5, <2>6, <2>7, <2>8, <2>9, <2>10 DEF ReadySettled
<1>3. CASE SwapReady(p)
  <2>1. PICK o \in Orders : o = cur[p]
    BY <1>3, AtWorkType DEF SwapReady, AtWork
  <2>2. /\ pc[p] = "swapReady" /\ pc'[p] = "gate" /\ stateFile' = mem[p]
        /\ UNCHANGED <<cur, ready, sentAt>>
    BY <1>3 DEF SwapReady, Goto, Replace, world, Current, TypeOK, PassTypeOK
  <2>3. stateFile'[o].ready # None
    BY <2>1, <2>2, AtWorkType, NoneAssumption DEF Drawn, AtWork
  <2>4. \A c \in Orders : c < o => stateFile'[c] = stateFile[c]
    BY <2>1, <2>2, SizeAssumption DEF Current, Saving, Orders
  <2>5. stateFile \in States /\ stateFile' \in States
    BY <2>2 DEF TypeOK, DiskTypeOK, PassTypeOK
  <2>6. CatchUpFloors(stateFile', notBefore, o) = CatchUpFloors(stateFile, notBefore, o)
    BY <2>4, <2>5, FloorsDependOn
  <2>7. CatchUpFloors(stateFile, notBefore, o)' = CatchUpFloors(stateFile', notBefore, o)
    BY <1>0 DEF CatchUpFloors
  <2>8. sentAt[o] # None => (Covered(o) => Covered(o)')
    BY <1>0, CoveredStays
  <2>9. /\ \A f \in CatchUpFloors(stateFile, notBefore, o) : f <= ready[p]
        /\ sentAt[o] # None /\ ~Covered(o) => ready[p] <= sentAt[o]
    BY <2>1, <2>2 DEF PassKept, ReadySettled, AtWork
  <2>10. cur'[p] = o /\ ready'[p] = ready[p] /\ sentAt'[o] = sentAt[o]
    BY <2>1, <2>2
  <2> QED BY <2>2, <2>3, <2>6, <2>7, <2>8, <2>9, <2>10 DEF ReadySettled
<1>4. CASE \/ OpenTmp(p) \/ WriteTmp(p) \/ Finalize(p) \/ LookupFinds(p)
           \/ (LookupMisses(p) /\ ~opt[p].dry_run) \/ TestPasses(p) \/ SendReturns(p)
           \/ FinalizeFails(p) \/ TestRejects(p) \/ SendFails(p) \/ MarkBroadcast(p)
  <2>1. /\ AtWork(p)
        /\ UNCHANGED <<stateFile, cur, opt, ready>>
        /\ pc'[p] \notin SavingReady => pc[p] \notin SavingReady
        /\ pc'[p] \notin {"mark"} \cup SavingResult =>
              sentAt' = sentAt /\ pc[p] \notin {"mark"} \cup SavingResult
    BY <1>4
    DEF OpenTmp, WriteTmp, Open, Write, Current, Finalize, LookupFinds, LookupMisses,
        TestPasses, SendReturns, FinalizeFails, TestRejects, SendFails, MarkBroadcast,
        MarkFailed, AtWork, Goto, disk, files, world, TypeOK, PassTypeOK
  <2>2. PICK o \in Orders : o = cur[p]
    BY <2>1, AtWorkType
  <2>3. CatchUpFloors(stateFile, notBefore, o)' = CatchUpFloors(stateFile, notBefore, o)
    BY <1>0, <2>1 DEF CatchUpFloors
  <2>4. sentAt' = sentAt => (Covered(o)' <=> Covered(o))
    BY <2>1 DEF Covered
  <2>5. cur'[p] = o /\ opt'[p] = opt[p] /\ ready'[p] = ready[p]
    BY <2>1, <2>2
  <2>6. /\ \A f \in CatchUpFloors(stateFile, notBefore, o) : f <= ready[p]
        /\ pc[p] \notin SavingReady /\ stateFile[o].ready = None
                => opt[p].jitter = 0
        /\ pc[p] \notin {"mark"} \cup SavingResult /\ sentAt[o] # None
                => Covered(o) \/ ready[p] <= sentAt[o]
    BY <2>1, <2>2 DEF PassKept, ReadySettled
  <2>7. \A f \in CatchUpFloors(stateFile, notBefore, o)' : f <= ready'[p]
    BY <2>3, <2>5, <2>6
  <2>8. pc'[p] \notin SavingReady /\ stateFile'[o].ready = None
            => opt'[p].jitter = 0
    BY <2>1, <2>5, <2>6
  <2>9. pc'[p] \notin {"mark"} \cup SavingResult /\ sentAt'[o] # None
            => Covered(o)' \/ ready'[p] <= sentAt'[o]
    BY <2>1, <2>4, <2>5, <2>6
  <2> QED BY <2>5, <2>7, <2>8, <2>9 DEF ReadySettled
<1>5. CASE \/ LoadDies(p) \/ Return(p) \/ NothingSigned(p) \/ SwapDies(p) \/ ParseDies(p)
           \/ SendDies(p) \/ Crash(p) \/ Start(p) \/ Load(p) \/ PassOver(p)
           \/ NotSigned(p) \/ Hold(p) \/ SwapResult(p)
           \/ (LookupMisses(p) /\ opt[p].dry_run)
  <2>1. pc'[p] \in {"idle", "load", "scan"}
    BY <1>5
    DEF Return, NothingSigned, SwapDies, ParseDies, SendDies, Crash, Start, Load, LoadDies,
        PassOver, NotSigned, Hold, SwapResult, LookupMisses, NextEntry, NextAttempted, Exit,
        Goto, TypeOK, PassTypeOK
  <2> QED BY <1>1, <2>1
<1> QED BY <1>2, <1>3, <1>4, <1>5 DEF PassStep

LEMMA OwnMarked ==
    ASSUME LoneInv, SentKept, PassKept, NEW p \in Proc, PassStep(p) \/ Crash(p)
    PROVE  MarkedLate(p)'
<1> USE DEF LoneInv, locals, SavingReady, SavingResult
<1>0. MarkedLate(p)
  BY DEF PassKept
<1>1. CASE pc'[p] \notin {"lookup", "test", "send"} \cup SavingResult
  BY <1>1 DEF MarkedLate
<1>2. CASE Finalize(p)
  <2>1. pc[p] = "gate" /\ pc'[p] = "lookup" /\ ~Held(p) /\ UNCHANGED <<opt, now>>
    BY <1>2 DEF Finalize, Goto, TypeOK, PassTypeOK
  <2> QED BY <2>1 DEF MarkedLate, Held, QuietHolds
<1>3. CASE (LookupMisses(p) /\ ~opt[p].dry_run) \/ TestPasses(p)
  <2>1. /\ UNCHANGED <<opt, now>>
        /\ \/ pc[p] = "lookup" /\ pc'[p] = "test" /\ ~opt[p].dry_run
           \/ pc[p] = "test" /\ pc'[p] = "send"
    BY <1>3 DEF LookupMisses, TestPasses, Goto, TypeOK, PassTypeOK
  <2> QED BY <1>0, <2>1 DEF MarkedLate, QuietHolds
<1>4. CASE FinalizeFails(p) \/ TestRejects(p) \/ SendFails(p)
  <2>1. pc[p] \in {"gate", "test", "send"} /\ pc'[p] = "saveResult" /\ cur' = cur
        /\ mem'[p] = MarkedFailed(mem[p], cur[p])
    BY <1>4 DEF FinalizeFails, TestRejects, SendFails, MarkFailed, Goto, TypeOK, PassTypeOK
  <2>2. cur[p] \in Orders /\ mem[p] \in States
    BY <2>1, AtWorkType DEF AtWork, TypeOK, PassTypeOK
  <2>3. mem'[p][cur'[p]].status = "failed"
    BY <2>1, <2>2 DEF MarkedFailed, States
  <2> QED BY <2>1, <2>3 DEF MarkedLate
<1>5. CASE MarkBroadcast(p)
  <2>1. pc[p] = "mark" /\ pc'[p] = "saveResult" /\ UNCHANGED <<cur, sentAt>>
        /\ mem'[p] = MarkedBroadcast(mem[p], cur[p], clock)
    BY <1>5 DEF MarkBroadcast, Goto, world, TypeOK, PassTypeOK
  <2>2. cur[p] \in Orders /\ mem[p] \in States
    BY <2>1, AtWorkType DEF AtWork, TypeOK, PassTypeOK
  <2>3. mem'[p][cur'[p]].at = clock
    BY <2>1, <2>2 DEF MarkedBroadcast, States
  <2>4. \A q \in Orders : sentAt[q] # None => clock >= sentAt[q]
    BY SentTypes DEF SentKept
  <2>5. clock # None
    BY NoneAssumption, SizeAssumption DEF TypeOK, WorldTypeOK, Time
  <2> QED BY <2>1, <2>3, <2>4, <2>5 DEF MarkedLate
<1>6. CASE OpenTmp(p) \/ WriteTmp(p)
  <2>1. /\ UNCHANGED <<opt, now, mem, cur, sentAt>>
        /\ \/ pc[p] \in SavingReady /\ pc'[p] \in SavingReady
           \/ pc[p] \in SavingResult /\ pc'[p] \in SavingResult
    BY <1>6 DEF OpenTmp, WriteTmp, Open, Write, Current, Goto, world, TypeOK, PassTypeOK
  <2> QED BY <1>0, <2>1 DEF MarkedLate
<1>7. CASE \/ LoadDies(p) \/ Return(p) \/ NothingSigned(p) \/ SwapDies(p) \/ ParseDies(p)
           \/ SendDies(p) \/ Crash(p) \/ Start(p) \/ Load(p) \/ PassOver(p)
           \/ NotSigned(p) \/ Hold(p) \/ SwapReady(p) \/ SwapResult(p) \/ Resolve(p)
           \/ LookupFinds(p) \/ SendReturns(p) \/ (LookupMisses(p) /\ opt[p].dry_run)
  <2>1. pc'[p] \in {"idle", "load", "scan", "gate", "saveReady", "mark"}
    BY <1>7
    DEF Return, NothingSigned, SwapDies, ParseDies, SendDies, Crash, Start, Load, LoadDies,
        PassOver, NotSigned, Hold, SwapReady, SwapResult, Resolve, LookupFinds, SendReturns,
        LookupMisses, NextEntry, NextAttempted, Exit, Goto, TypeOK, PassTypeOK
  <2> QED BY <1>1, <2>1
<1> QED BY <1>2, <1>3, <1>4, <1>5, <1>6, <1>7 DEF PassStep

LEMMA StepPassKept ==
    ASSUME OneProcess, SteadyOptions
    PROVE  LoneInv /\ SentKept /\ PassKept /\ [Next]_vars => PassKept'
<1> SUFFICES ASSUME LoneInv, SentKept, PassKept, [Next]_vars PROVE PassKept'
  OBVIOUS
<1>1. CASE Environment \/ UNCHANGED vars
  <2>1. UNCHANGED <<notBefore, stateFile, pc, locals, sentAt>>
    BY <1>1, WorldFrame DEF files
  <2>2. ASSUME NEW q \in Orders PROVE Covered(q)' <=> Covered(q)
    BY <2>1 DEF Covered
  <2>3. ASSUME NEW p \in Proc PROVE Reached(p)'
    BY <2>1, <2>2 DEF PassKept, Reached, Coming, MaySend, QuietHolds, locals
  <2>4. ASSUME NEW p \in Proc PROVE ReadySettled(p)'
    BY <2>1 DEF PassKept, ReadySettled, AtWork, CatchUpFloors, Covered, locals
  <2>5. ASSUME NEW p \in Proc PROVE MarkedLate(p)'
    BY <2>1 DEF PassKept, MarkedLate, QuietHolds, locals
  <2> QED BY <2>3, <2>4, <2>5 DEF PassKept
<1>2. ASSUME NEW p \in Proc, PassStep(p) \/ Crash(p) PROVE PassKept'
  <2>1. Reached(p)' /\ ReadySettled(p)' /\ MarkedLate(p)'
    BY <1>2, OwnReached, OwnSettled, OwnMarked
  <2>2. ASSUME NEW q \in Proc PROVE q = p
    BY DEF OneProcess
  <2> QED BY <2>1, <2>2 DEF PassKept
<1> QED BY <1>1, <1>2 DEF Next

LEMMA InitSpacing == Init => SentKept /\ PassKept
<1> SUFFICES ASSUME Init PROVE SentKept /\ PassKept
  OBVIOUS
<1>1. SentKept
  BY DEF Init, SentKept
<1>2. ASSUME NEW p \in Proc PROVE pc[p] = "idle" /\ cur[p] = 1
  BY DEF Init
<1>3. ASSUME NEW p \in Proc PROVE Reached(p) /\ ReadySettled(p) /\ MarkedLate(p)
  BY <1>2 DEF Reached, ReadySettled, MarkedLate, AtWork, SavingResult
<1> QED BY <1>1, <1>3 DEF PassKept

\* What is covered moves the catch-up time of a later order, and the pass that
\* sends that order has waited for it.
LEMMA SpacedSend ==
    ASSUME LoneInv, SentKept, PassKept, [Next]_vars, NEW o \in Orders, Sends(o),
           NEW q \in 1 .. (o - 1), sentAt[q] # None
    PROVE  clock - sentAt[q] >= notBefore[o] - notBefore[o - 1]
<1> USE DEF LoneInv, SavingReady, SavingResult
<1>1. PICK p \in Proc : pc[p] = "send" /\ cur[p] = o /\ ready[p] <= clock
  BY SenderIsDue, TimelyIsPunctual
<1>2. q \in Orders /\ q < o /\ o # 1 /\ o - 1 \in Orders
  BY SizeAssumption DEF Orders
<1>3. Covered(q)
  BY <1>1, <1>2 DEF PassKept, MarkedLate, MaySend, Reached
<1>4. PICK c \in 1 .. q : /\ stateFile[c].status = "broadcast"
                         /\ stateFile[c].at # None
                         /\ stateFile[c].at >= sentAt[q]
  BY <1>3 DEF Covered
<1>5. c \in Orders /\ c \in 1 .. (o - 1)
  BY <1>2, SizeAssumption DEF Orders
<1>6. stateFile[c].at + (notBefore[o] - notBefore[o - 1])
        \in CatchUpFloors(stateFile, notBefore, o)
  BY <1>2, <1>4, <1>5 DEF CatchUpFloors
<1>7. stateFile[c].at + (notBefore[o] - notBefore[o - 1]) <= ready[p]
  BY <1>1, <1>6 DEF PassKept, ReadySettled, AtWork
<1>8. /\ stateFile[c].at \in Int /\ sentAt[q] \in Int /\ clock \in Int
      /\ notBefore[o] \in Int /\ notBefore[o - 1] \in Int
  BY <1>2, <1>4, <1>5, SentTypes
<1>9. ready[p] \in Int
  BY <1>1, AtWorkType DEF AtWork
<1> QED BY <1>1, <1>4, <1>7, <1>8, <1>9

\* Passes that do not overlap keep the spacing of the schedule to what really
\* was sent, however often they are cut short: provided that Core can be asked
\* about all of it, that no pass that sends passes over failures, and that
\* jitter is given always or never.
THEOREM SpacingIsKept ==
    ASSUME OneProcess, SteadyOptions, TxIndex, "lookup" \notin FaultKinds
    PROVE  Spec => SpacingKept
<1>1. LoneInv /\ SentKept /\ PassKept /\ [Next]_vars =>
        [\A o \in Orders : Sends(o) =>
            \A q \in 1 .. (o - 1) : sentAt[q] # None =>
                clock - sentAt[q] >= notBefore[o] - notBefore[o - 1]]_vars
  BY SpacedSend
<1>2. LoneInv <=> TypeOK /\ Timely /\ Current /\ Drawn /\ Recognised
  BY DEF LoneInv
<1> QED BY <1>1, <1>2, TypeCorrect, InitTimely, StepTimely, InitCurrent, StepCurrent,
           InitDrawn, StepDrawn, InitRecognised, StepRecognised, InitSpacing, StepSentKept,
           StepPassKept, PTL DEF Spec, SpacingKept

----------------------------------------------------------------------------
(* remind names what is about to be sent.                                  *)

\* Min is the least member of a set of orders that is not empty.
LEMMA LeastOrder ==
    ASSUME NEW S \in SUBSET Orders, S # {}
    PROVE  Min(S) \in S /\ \A o \in S : Min(S) <= o
<1>1. S \subseteq Nat
  BY DEF Orders
<1>2. \E m \in S : \A o \in S : m <= o
  <2> DEFINE Less == {ss \in Nat \X Nat : ss[1] < ss[2]}
  <2>1. IsWellFoundedOn(Less, Nat)
    BY NatLessThanWellFounded DEF OpToRel
  <2> HIDE DEF Less
  <2>2. PICK m \in S : \A o \in S : <<o, m>> \notin Less
    BY <1>1, <2>1, WFMin
  <2>3. ASSUME NEW o \in S PROVE m <= o
    <3>1. o \in Nat /\ m \in Nat /\ <<o, m>> \in Nat \X Nat
      BY <1>1
    <3>2. ~(o < m)
      BY <2>2, <3>1 DEF Less
    <3> QED BY <3>1, <3>2
  <2> QED BY <2>3
<1> QED BY <1>1, <1>2 DEF Min

\* Between lone passes and an operator who follows remind there are no
\* surprises, for any schedule and any clock.
THEOREM ReminderIsAhead == ASSUME OneProcess PROVE Spec => ReminderNamesIt
<1>1. TypeOK /\ Timely /\ Current /\ Sound /\ [Next]_vars =>
        [\A o \in Orders : Sends(o) =>
            Reminder.says \notin {"unreadable", "next", "all broadcast"} /\ Reminder.order <= o]_vars
  <2> SUFFICES ASSUME TypeOK, Timely, Current, Sound, [Next]_vars, NEW o \in Orders, Sends(o)
               PROVE  Reminder.says \notin {"unreadable", "next", "all broadcast"} /\ Reminder.order <= o
    OBVIOUS
  <2>1. PICK p \in Proc : pc[p] = "send" /\ cur[p] = o
    BY SenderIsDue, TimelyIsPunctual
  <2>2. stateFile[o].status # "broadcast"
    BY <2>1 DEF Current, AtWork
  <2>3. o \in RemindsOf
    BY <2>2, SendsWhenDue DEF RemindsOf, Unsent
  <2>4. Min(RemindsOf) <= o
    BY <2>3, LeastOrder DEF RemindsOf, Unsent
  <2>5. Reminder.order = Min(RemindsOf)
        /\ Reminder.says \in {"waiting for signature", "due, quiet hours", "ready to broadcast"}
    BY <2>3 DEF Reminder, Sound, Readable
  <2> QED BY <2>4, <2>5
<1>2. Init => Sound
  BY DEF Init, Sound
<1> QED BY <1>1, <1>2, TypeCorrect, InitTimely, StepTimely, InitCurrent, StepCurrent,
           StepSound, PTL DEF Spec, ReminderNamesIt

=============================================================================
