-------------------------- MODULE RescheduleProofs --------------------------
(***************************************************************************)
(* Theorems about Reschedule: whether or not the passes are paused, what   *)
(* reschedule saves never invents a broadcast; and with the passes paused  *)
(* it loses nothing that they have recorded, and nothing is sent early.    *)
(***************************************************************************)
EXTENDS Reschedule, LonePassProofs

LEMMA ClearedType ==
    ASSUME NEW st \in States, NEW S
    PROVE  DrawsCleared(st, S) \in States
BY DEF DrawsCleared, States, Entry, Stamp

LEMMA RetimedType ==
    ASSUME notBefore \in [Orders -> Nat], NEW t \in Nat, NEW S, S \subseteq Orders,
           NEW shuffle, NEW times \in NewTimes(S, t, shuffle)
    PROVE  Retimed(times) \in [Orders -> Nat]
BY RescheduleAssumption DEF NewTimes, Retimed

\* Passes and the world around them move as in BroadcastDue.
LEMMA OthersMove ==
    ASSUME (Environment \/ Passes) /\ UNCHANGED rvars
    PROVE  Next
BY DEF Passes, Next

\* What reschedule changes of the variables of BroadcastDue.
LEMMA RescheduleFrame ==
    ASSUME Rescheduling
    PROVE  /\ UNCHANGED <<signed, clock, node, sentAt, pc, locals>>
           /\ \/ UNCHANGED files
              \/ Open("reschedule")
              \/ Write("reschedule", rmem)
              \/ Replace
              \/ Abandon("reschedule")
           /\ \/ UNCHANGED faults
              \/ Fault("reschedule")
           /\ \/ UNCHANGED notBefore
              \/ Retime /\ UNCHANGED files
<1>1. CASE ReadFiles \/ OnlyShow \/ SaveDies
  BY <1>1 DEF ReadFiles, OnlyShow, SaveDies, vars, disk, world
<1>2. CASE Retime
  BY <1>2 DEF Retime, world
<1>3. CASE SaveOpen
  BY <1>3 DEF SaveOpen, Open, world
<1>4. CASE SaveTmp
  BY <1>4 DEF SaveTmp, Write, world
<1>5. CASE SaveSwap
  BY <1>5 DEF SaveSwap, Replace, world
<1>6. CASE Killed
  BY <1>6 DEF Killed, Abandon
<1> QED BY <1>1, <1>2, <1>3, <1>4, <1>5, <1>6 DEF Rescheduling

LEMMA CopyFrame ==
    ASSUME Rescheduling
    PROVE  \/ rmem' \in {rmem, Blank, stateFile}
           \/ rmem' = DrawsCleared(rmem, Pending)
BY DEF Rescheduling, ReadFiles, OnlyShow, Retime, SaveOpen, SaveTmp, SaveSwap, SaveDies,
       Killed, Finish

LEMMA IsWriter == "reschedule" \in Writers /\ \A p \in Proc : p \in Writers /\ p # "reschedule"
BY WriterAssumption DEF Writers

\* The files and their handles after a step of reschedule on them.
LEMMA FilesTyped ==
    ASSUME TypeOK, rmem \in States, UNCHANGED <<notBefore, signed, pc>>,
           \/ UNCHANGED files
           \/ Open("reschedule")
           \/ Write("reschedule", rmem)
           \/ Replace
           \/ Abandon("reschedule")
    PROVE  DiskTypeOK' /\ Handles'
<1>1. opened \in [Writers -> {"closed", "tmp", "state", "gone"}] /\ tmpFile \in States \cup {None}
  BY DEF TypeOK, DiskTypeOK
<1>2. CASE UNCHANGED files
  BY <1>2 DEF files, TypeOK, DiskTypeOK, Handles
<1>3. CASE Open("reschedule")
  <2>1. tmpFile' # None
    BY <1>3, BlankType, FileAssumption DEF Open
  <2>2. \A p \in Proc : opened'[p] = opened[p]
    BY <1>1, <1>3, IsWriter DEF Open
  <2> QED BY <1>3, <2>1, <2>2, IsWriter, OpenType DEF TypeOK, Handles
<1>4. CASE Write("reschedule", rmem)
  <2>1. DiskTypeOK'
    BY <1>4, IsWriter, WriteType DEF TypeOK, Handles
  <2>2. \A w \in Writers : opened'[w] = IF w = "reschedule" THEN "closed" ELSE opened[w]
    BY <1>1, <1>4, IsWriter DEF Write
  <2>3. tmpFile' = tmpFile \/ tmpFile' \in States
    BY <1>1, <1>4, IsWriter, FileAssumption, OverwrittenType DEF Write, TypeOK, Handles
  <2> QED BY <2>1, <2>2, <2>3, IsWriter, FileAssumption DEF TypeOK, Handles
<1>5. CASE Replace
  <2>1. \A w \in Writers : opened'[w] # "tmp" /\ (opened'[w] = "closed" <=> opened[w] = "closed")
    BY <1>1, <1>5 DEF Replace
  <2> QED BY <1>5, <2>1, IsWriter, ReplaceType DEF TypeOK, Handles
<1>6. CASE Abandon("reschedule")
  <2>1. \A w \in Writers : opened'[w] = IF w = "reschedule" THEN "closed" ELSE opened[w]
    BY <1>1, <1>6, IsWriter DEF Abandon
  <2>2. tmpFile' = tmpFile
    BY <1>6 DEF Abandon
  <2> QED BY <1>6, <2>1, <2>2, IsWriter, AbandonType DEF TypeOK, Handles
<1> QED BY <1>2, <1>3, <1>4, <1>5, <1>6

\* Passes leave the handle of reschedule open, or closed, as it is.
LEMMA HandleIsKept ==
    ASSUME TypeOK, [Next]_vars
    PROVE  opened'["reschedule"] = "closed" <=> opened["reschedule"] = "closed"
<1>1. opened \in [Writers -> {"closed", "tmp", "state", "gone"}]
  BY DEF TypeOK, DiskTypeOK
<1>2. CASE Environment \/ UNCHANGED vars
  BY <1>2, WorldFrame DEF files
<1>3. ASSUME NEW p \in Proc, PassStep(p) \/ Crash(p)
      PROVE  opened'["reschedule"] = "closed" <=> opened["reschedule"] = "closed"
  <2>1. UNCHANGED files \/ Open(p) \/ Write(p, mem[p]) \/ Replace \/ Abandon(p)
    BY <1>3, FileFrame
  <2>2. CASE UNCHANGED files
    BY <2>2 DEF files
  <2>3. CASE Open(p) \/ Write(p, mem[p]) \/ Abandon(p)
    BY <1>1, <2>3, IsWriter DEF Open, Write, Abandon
  <2>4. CASE Replace
    BY <1>1, <2>4, IsWriter DEF Replace
  <2> QED BY <2>1, <2>2, <2>3, <2>4
<1> QED BY <1>2, <1>3 DEF Next

LEMMA RescheduleInitType == RescheduleInit => RescheduleTypeOK
<1> SUFFICES ASSUME RescheduleInit PROVE RescheduleTypeOK
  OBVIOUS
<1>1. opened["reschedule"] = "closed" /\ rstep = "idle"
  BY IsWriter DEF RescheduleInit, Init
<1>2. TypeOK /\ rmem \in States /\ rescheduledAt \in Stamp
  BY InitType, BlankType DEF RescheduleInit, Stamp
<1>3. paused \in BOOLEAN /\ halfDone \in BOOLEAN
  BY RescheduleAssumption DEF RescheduleInit
<1>4. runs \in 0 .. MaxRuns
  BY RescheduleAssumption DEF RescheduleInit
<1> QED BY <1>1, <1>2, <1>3, <1>4 DEF RescheduleTypeOK

LEMMA RescheduleStepType ==
    RescheduleTypeOK /\ [RescheduleNext]_allVars => RescheduleTypeOK'
<1> SUFFICES ASSUME RescheduleTypeOK, [RescheduleNext]_allVars PROVE RescheduleTypeOK'
  OBVIOUS
<1>1. CASE UNCHANGED allVars
  <2>1. TypeOK'
    BY <1>1, StepType DEF allVars, RescheduleTypeOK
  <2>2. opened' = opened
    BY <1>1 DEF allVars, vars, disk, files
  <2> QED BY <1>1, <2>1, <2>2 DEF allVars, rvars, RescheduleTypeOK
<1>2. CASE (Environment \/ Passes) /\ UNCHANGED rvars
  <2>1. TypeOK'
    BY <1>2, OthersMove, StepType DEF RescheduleTypeOK
  <2>2. opened'["reschedule"] = "closed" <=> opened["reschedule"] = "closed"
    BY <1>2, OthersMove, HandleIsKept DEF RescheduleTypeOK
  <2> QED BY <1>2, <2>1, <2>2 DEF rvars, RescheduleTypeOK
<1>3. CASE Rescheduling
  <2>1. notBefore' \in [Orders -> Nat]
    <3>1. CASE UNCHANGED notBefore
      BY <3>1 DEF RescheduleTypeOK, TypeOK, DiskTypeOK
    <3>2. CASE Retime
      <4>1. clock \in Nat /\ notBefore \in [Orders -> Nat]
        BY SizeAssumption DEF RescheduleTypeOK, TypeOK, DiskTypeOK, WorldTypeOK, Time
      <4>2. PICK shuffle \in BOOLEAN :
                \E times \in NewTimes(Pending, clock, shuffle) : notBefore' = Retimed(times)
        BY <3>2 DEF Retime
      <4>3. PICK times \in NewTimes(Pending, clock, shuffle) : notBefore' = Retimed(times)
        BY <4>2
      <4>4. Pending \subseteq Orders
        BY DEF Pending
      <4> QED BY <4>1, <4>3, <4>4, RetimedType
    <3> QED BY <1>3, <3>1, <3>2, RescheduleFrame
  <2>2. DiskTypeOK' /\ Handles'
    <3>1. CASE UNCHANGED files
      BY <1>3, <2>1, <3>1, RescheduleFrame
      DEF RescheduleTypeOK, TypeOK, DiskTypeOK, Handles, files
    <3>2. CASE ~ UNCHANGED files
      BY <1>3, <3>2, RescheduleFrame, FilesTyped DEF RescheduleTypeOK
    <3> QED BY <3>1, <3>2
  <2>3. WorldTypeOK'
    <3>1. faults' \in 0 .. MaxFaults
      BY <1>3, RescheduleFrame, FaultType DEF RescheduleTypeOK, TypeOK, WorldTypeOK
    <3> QED BY <1>3, <3>1, RescheduleFrame DEF RescheduleTypeOK, TypeOK, WorldTypeOK
  <2>4. PassTypeOK' /\ Located'
    BY <1>3, RescheduleFrame
    DEF RescheduleTypeOK, TypeOK, PassTypeOK, Located, AtWork, locals
  <2>5. rmem' \in States
    BY <1>3, CopyFrame, ClearedType, BlankType DEF RescheduleTypeOK, TypeOK, DiskTypeOK
  <2>6. /\ paused' \in BOOLEAN /\ rstep' \in {"idle", "loaded", "save", "write", "swap"}
        /\ runs' \in 0 .. MaxRuns /\ rescheduledAt' \in Stamp
    BY <1>3, RescheduleAssumption, SizeAssumption
    DEF Rescheduling, ReadFiles, OnlyShow, Retime, SaveOpen, SaveTmp, SaveSwap, SaveDies,
        Killed, Finish, RescheduleTypeOK, TypeOK, WorldTypeOK, Time, Stamp
  <2>8. halfDone' \in BOOLEAN
    <3>1. halfDone' \in {TRUE, FALSE, halfDone} \/ halfDone' = (halfDone \/ rstep # "loaded")
      BY <1>3
      DEF Rescheduling, ReadFiles, OnlyShow, Retime, SaveOpen, SaveTmp, SaveSwap, SaveDies,
          Killed
    <3>2. halfDone \in BOOLEAN /\ (halfDone \/ rstep # "loaded") \in BOOLEAN
      BY DEF RescheduleTypeOK
    <3> QED BY <3>1, <3>2
  <2>7. opened'["reschedule"] = "closed" <=> rstep' # "write"
    <3>1. opened \in [Writers -> {"closed", "tmp", "state", "gone"}]
      BY DEF RescheduleTypeOK, TypeOK, DiskTypeOK
    <3>2. CASE ReadFiles \/ OnlyShow \/ Retime \/ SaveDies
      BY <3>2
      DEF ReadFiles, OnlyShow, Retime, SaveDies, Finish, RescheduleTypeOK, vars, disk, files
    <3>3. CASE SaveOpen
      BY <3>1, <3>3, IsWriter DEF SaveOpen, Open
    <3>4. CASE SaveTmp
      BY <3>1, <3>4, IsWriter DEF SaveTmp, Write
    <3>5. CASE SaveSwap
      BY <3>1, <3>5, IsWriter DEF SaveSwap, Replace, Finish, RescheduleTypeOK
    <3>6. CASE Killed
      BY <3>1, <3>6, IsWriter DEF Killed, Abandon, Finish
    <3> QED BY <1>3, <3>2, <3>3, <3>4, <3>5, <3>6 DEF Rescheduling
  <2> QED BY <2>2, <2>3, <2>4, <2>5, <2>6, <2>7, <2>8 DEF RescheduleTypeOK, TypeOK
<1> QED BY <1>1, <1>2, <1>3 DEF RescheduleNext

\* Every variable of reschedule and of the passes beside it keeps its type.
THEOREM RescheduleTypeCorrect == RescheduleSpec => []RescheduleTypeOK
BY RescheduleInitType, RescheduleStepType, PTL DEF RescheduleSpec

----------------------------------------------------------------------------
(* A copy that reschedule saves is stale at worst, never untrue.           *)

CopyAccounted == Accounted /\ Honest(rmem, node)

LEMMA HonestCleared ==
    ASSUME NEW st \in States, NEW S, NEW nd, Honest(st, nd)
    PROVE  Honest(DrawsCleared(st, S), nd)
BY DEF Honest, DrawsCleared

LEMMA StepCopyAccounted ==
    RescheduleTypeOK /\ CopyAccounted /\ [RescheduleNext]_allVars => CopyAccounted'
<1> SUFFICES ASSUME RescheduleTypeOK, CopyAccounted, [RescheduleNext]_allVars
             PROVE  CopyAccounted'
  OBVIOUS
<1>1. CASE ((Environment \/ Passes) /\ UNCHANGED rvars) \/ UNCHANGED allVars
  <2>1. [Next]_vars /\ rmem' = rmem
    BY <1>1, OthersMove DEF allVars, rvars
  <2>2. Accounted'
    BY <2>1, StepAccounted DEF RescheduleTypeOK, CopyAccounted
  <2>3. Honest(rmem, node')
    BY <2>1, NodeGrows DEF Honest, CopyAccounted, RescheduleTypeOK
  <2> QED BY <2>1, <2>2, <2>3 DEF CopyAccounted
<1>2. CASE Rescheduling
  <2>1. Honest(rmem', node)
    BY <1>2, CopyFrame, HonestCleared, HonestBlank
    DEF CopyAccounted, Accounted, RescheduleTypeOK
  <2>2. Honest(stateFile', node) /\ (tmpFile' # None => Honest(tmpFile', node))
    BY <1>2, RescheduleFrame, HonestFiles, IsWriter DEF CopyAccounted, Accounted, RescheduleTypeOK
  <2>3. UNCHANGED <<node, pc, mem, cur>>
    BY <1>2, RescheduleFrame DEF locals
  <2> QED BY <2>1, <2>2, <2>3 DEF CopyAccounted, Accounted
<1> QED BY <1>1, <1>2 DEF RescheduleNext

\* Also beside reschedule, which may bring an old copy of the file back at any
\* moment, broadcast-state.yaml names no order that Core has not taken.
THEOREM RescheduledRecordsAreTrue == RescheduleSpec => []RecordedWasAccepted
<1>1. RescheduleInit => CopyAccounted
  BY HonestBlank DEF RescheduleInit, Init, CopyAccounted, Accounted
<1>2. CopyAccounted => RecordedWasAccepted
  BY DEF CopyAccounted, Accounted, Honest, RecordedWasAccepted
<1> QED BY <1>1, <1>2, RescheduleTypeCorrect, StepCopyAccounted, PTL DEF RescheduleSpec

----------------------------------------------------------------------------
(* With the passes paused: reschedule has the files to itself.             *)

\* st2 says of each order what st1 says, but for send times, and of what is
\* broadcast everything.
SameRecords(st1, st2) ==
    \A o \in Orders : /\ st2[o].status = st1[o].status
                      /\ st2[o].at = st1[o].at
                      /\ st1[o].status = "broadcast" => st2[o] = st1[o]

Undisturbed ==
    paused =>
        /\ rstep # "idle" => \A p \in Proc : pc[p] = "idle"
        /\ rstep = "loaded" => rmem = stateFile
        /\ rstep \in {"save", "write", "swap"} => SameRecords(stateFile, rmem)
        /\ rstep = "write" => opened["reschedule"] = "tmp" /\ form.tmp = "empty"
        /\ rstep = "swap" => tmpFile = rmem

\* Nothing but a tick, a signature or a block happens beside reschedule then.
LEMMA AloneOnDisk ==
    ASSUME Undisturbed, [RescheduleNext]_allVars, paused, rstep # "idle", ~Rescheduling
    PROVE  UNCHANGED <<notBefore, files, pc, mem, faults, rvars>>
<1>1. \/ Environment /\ UNCHANGED rvars
      \/ UNCHANGED allVars
  BY DEF RescheduleNext, Passes
<1> QED BY <1>1, WorldFrame DEF allVars, locals

LEMMA ClearedRecords ==
    ASSUME rmem \in States
    PROVE  SameRecords(rmem, DrawsCleared(rmem, Pending))
BY DEF SameRecords, DrawsCleared, Pending, States

LEMMA StepUndisturbed ==
    RescheduleTypeOK /\ Undisturbed /\ [RescheduleNext]_allVars => Undisturbed'
<1> SUFFICES ASSUME RescheduleTypeOK, Undisturbed, [RescheduleNext]_allVars, paused
             PROVE  Undisturbed'
  BY DEF Undisturbed, RescheduleNext, Rescheduling, ReadFiles, OnlyShow, Retime, SaveOpen,
         SaveTmp, SaveSwap, SaveDies, Killed, rvars, allVars
<1>1. CASE rstep = "idle" /\ ~Rescheduling
  <2>1. UNCHANGED rvars
    BY <1>1 DEF RescheduleNext, allVars
  <2> QED BY <1>1, <2>1 DEF Undisturbed, rvars
<1>2. CASE rstep # "idle" /\ ~Rescheduling
  BY <1>2, AloneOnDisk DEF Undisturbed, rvars, SameRecords, files
<1>3. CASE ReadFiles
  BY <1>3 DEF ReadFiles, Undisturbed, vars, disk, files
<1>4. CASE OnlyShow \/ SaveSwap \/ SaveDies \/ Killed
  <2>1. rstep' = "idle"
    BY <1>4 DEF OnlyShow, SaveSwap, SaveDies, Killed, Finish
  <2> QED BY <2>1 DEF Undisturbed
<1>5. CASE Retime
  <2>1. SameRecords(stateFile, DrawsCleared(rmem, Pending))
    BY <1>5, ClearedRecords DEF Retime, Undisturbed, RescheduleTypeOK
  <2>2. rstep' = "idle" \/ (rstep' = "save" /\ rmem' = DrawsCleared(rmem, Pending))
    BY <1>5 DEF Retime, Finish
  <2> QED BY <1>5, <2>1, <2>2 DEF Retime, Undisturbed, SameRecords, files
<1>6. CASE SaveOpen
  <2>1. opened'["reschedule"] = "tmp" /\ form'.tmp = "empty"
    BY <1>6, IsWriter DEF SaveOpen, Open, RescheduleTypeOK, TypeOK, DiskTypeOK
  <2> QED BY <1>6, <2>1 DEF SaveOpen, Open, Undisturbed, SameRecords
<1>7. CASE SaveTmp
  <2>1. stateFile' = stateFile /\ tmpFile' = rmem
    BY <1>7 DEF SaveTmp, Write, Overwritten, Undisturbed
  <2> QED BY <1>7, <2>1 DEF SaveTmp, Undisturbed, SameRecords
<1> QED BY <1>1, <1>2, <1>3, <1>4, <1>5, <1>6, <1>7 DEF Rescheduling

LEMMA InitUndisturbed == RescheduleInit => Undisturbed
BY DEF RescheduleInit, Undisturbed

\* Paused, reschedule leaves what the passes have recorded as it was, but for
\* send times.
THEOREM StatusIsKept == RescheduleSpec => PausedKeepsStatus
<1>1. RescheduleTypeOK /\ Undisturbed /\ [RescheduleNext]_allVars =>
        [paused /\ rstep # "idle" => \A o \in Orders :
            /\ stateFile'[o].status = stateFile[o].status
            /\ stateFile'[o].at = stateFile[o].at]_allVars
  <2> SUFFICES ASSUME Undisturbed, [RescheduleNext]_allVars, paused, rstep # "idle",
                      NEW o \in Orders
               PROVE  /\ stateFile'[o].status = stateFile[o].status
                      /\ stateFile'[o].at = stateFile[o].at
    OBVIOUS
  <2>1. CASE SaveSwap
    BY <2>1 DEF SaveSwap, Replace, Undisturbed, SameRecords
  <2>2. CASE ~SaveSwap
    <3>1. stateFile' = stateFile
      BY <2>2, AloneOnDisk
      DEF Rescheduling, ReadFiles, OnlyShow, Retime, SaveOpen, Open, SaveTmp, Write, SaveDies,
          Killed, Abandon, Undisturbed, vars, disk, files
    <3> QED BY <3>1
  <2> QED BY <2>1, <2>2
<1> QED BY <1>1, InitUndisturbed, StepUndisturbed, RescheduleTypeCorrect,
           PTL DEF RescheduleSpec, PausedKeepsStatus

----------------------------------------------------------------------------
(* With the passes paused: nothing is sent by a time that was replaced.    *)

LEMMA StepPausedTimely ==
    RescheduleTypeOK /\ Undisturbed /\ (paused => Timely) /\ [RescheduleNext]_allVars
        => (paused => Timely)'
<1> SUFFICES ASSUME RescheduleTypeOK, Undisturbed, paused, Timely, [RescheduleNext]_allVars
             PROVE  Timely'
  BY DEF RescheduleNext, Rescheduling, ReadFiles, OnlyShow, Retime, SaveOpen, SaveTmp, SaveSwap,
         SaveDies, Killed, rvars, allVars
<1>1. CASE Rescheduling
  <2>1. UNCHANGED <<clock, pc, locals>>
    BY <1>1, RescheduleFrame
  <2>2. \A p \in Proc : pc[p] = "idle"
    BY <1>1
    DEF Rescheduling, ReadFiles, OnlyShow, Retime, SaveOpen, SaveTmp, SaveSwap, SaveDies,
        Killed, Undisturbed
  <2> QED BY <2>1, <2>2 DEF Timely, AtWork, locals
<1>2. CASE ~Rescheduling
  <2>1. [Next]_vars
    BY <1>2, OthersMove DEF RescheduleNext, allVars
  <2> QED BY <2>1, StepTimely DEF RescheduleTypeOK
<1> QED BY <1>1, <1>2

\* Paused, a pass that sends goes by the schedule on disk, whenever that was
\* rescheduled.
THEOREM PausedNeverEarly == RescheduleSpec => PausedKeepsSchedule
<1>1. RescheduleInit => (paused => Timely)
  BY InitTimely DEF RescheduleInit
<1>2. RescheduleTypeOK /\ (paused => Timely) /\ [RescheduleNext]_allVars =>
        [\A o \in Orders : paused /\ Sends(o) => clock >= notBefore[o]]_allVars
  <2> SUFFICES ASSUME RescheduleTypeOK, paused, Timely, [RescheduleNext]_allVars,
                      NEW o \in Orders, Sends(o)
               PROVE  clock >= notBefore[o]
    OBVIOUS
  <2>1. [Next]_vars
    BY RescheduleFrame, OthersMove DEF Sends, RescheduleNext, allVars
  <2> QED BY <2>1, SendsWhenDue DEF RescheduleTypeOK
<1> QED BY <1>1, <1>2, InitUndisturbed, StepUndisturbed, StepPausedTimely,
           RescheduleTypeCorrect, PTL DEF RescheduleSpec, PausedKeepsSchedule

----------------------------------------------------------------------------
(* With a lone pass paused: records outlast every reschedule.              *)

LEMMA StepPausedCurrent ==
    ASSUME OneProcess, RescheduleTypeOK, Undisturbed, paused, Current, [RescheduleNext]_allVars
    PROVE  Current'
<1>1. CASE Rescheduling
  <2>1. UNCHANGED <<pc, locals>>
    BY <1>1, RescheduleFrame
  <2>2. \A p \in Proc : pc[p] = "idle"
    BY <1>1
    DEF Rescheduling, ReadFiles, OnlyShow, Retime, SaveOpen, SaveTmp, SaveSwap, SaveDies,
        Killed, Undisturbed
  <2> QED BY <2>1, <2>2 DEF Current, AtWork, Saving, SavingReady, SavingResult, locals
<1>2. CASE ~Rescheduling
  <2>1. [Next]_vars
    BY <1>2, OthersMove DEF RescheduleNext, allVars
  <2> QED BY <2>1, StepCurrent DEF RescheduleTypeOK
<1> QED BY <1>1, <1>2

\* Only orders that the copy takes for pending are given another time.
LEMMA RetimesPending ==
    ASSUME Rescheduling, NEW o \in Orders, notBefore \in [Orders -> Nat],
           notBefore'[o] # notBefore[o]
    PROVE  rstep = "loaded" /\ rmem[o].status # "broadcast"
<1>1. Retime
  BY RescheduleFrame
<1>2. PICK shuffle \in BOOLEAN :
        \E times \in NewTimes(Pending, clock, shuffle) : notBefore' = Retimed(times)
  BY <1>1 DEF Retime
<1>3. PICK times \in NewTimes(Pending, clock, shuffle) : notBefore' = Retimed(times)
  BY <1>2
<1>4. o \in DOMAIN times /\ DOMAIN times = Pending
  BY <1>3 DEF Retimed, NewTimes
<1> QED BY <1>1, <1>4 DEF Retime, Pending

\* With a lone pass that is paused for it, no reschedule takes a record of a
\* broadcast back or changes the time of an order that has one.
THEOREM PausedRecordsStay == ASSUME OneProcess PROVE RescheduleSpec => PausedKeepsRecords
<1>1. RescheduleTypeOK /\ Undisturbed /\ (paused => Current) /\ [RescheduleNext]_allVars
        => (paused => Current)'
  BY StepPausedCurrent
  DEF RescheduleNext, Rescheduling, ReadFiles, OnlyShow, Retime, SaveOpen, SaveTmp, SaveSwap,
      SaveDies, Killed, rvars, allVars
<1>2. RescheduleInit => (paused => Current)
  BY InitCurrent DEF RescheduleInit
<1>3. RescheduleTypeOK /\ Undisturbed /\ (paused => Current) /\ [RescheduleNext]_allVars =>
        [\A o \in Orders : paused /\ stateFile[o].status = "broadcast"
            => stateFile'[o] = stateFile[o] /\ notBefore'[o] = notBefore[o]]_allVars
  <2> SUFFICES ASSUME RescheduleTypeOK, Undisturbed, paused, Current,
                      [RescheduleNext]_allVars,
                      NEW o \in Orders, stateFile[o].status = "broadcast"
               PROVE  stateFile'[o] = stateFile[o] /\ notBefore'[o] = notBefore[o]
    OBVIOUS
  <2>1. CASE Rescheduling
    <3>1. stateFile'[o] = stateFile[o]
      BY <2>1
      DEF Rescheduling, ReadFiles, OnlyShow, Retime, SaveOpen, SaveTmp, SaveSwap, SaveDies,
          Killed, Undisturbed, SameRecords, Replace, Open, Write, Abandon, vars, disk, files
    <3>2. notBefore'[o] = notBefore[o]
      BY <2>1, RetimesPending DEF Undisturbed, RescheduleTypeOK, TypeOK, DiskTypeOK
    <3> QED BY <3>1, <3>2
  <2>2. CASE ~Rescheduling
    <3>1. [Next]_vars
      BY <2>2, OthersMove DEF RescheduleNext, allVars
    <3>2. notBefore' = notBefore
      BY <3>1, FileFrame, WorldFrame DEF Next
    <3> QED BY <3>1, <3>2, SaveTouchesCurrent DEF RescheduleTypeOK
  <2> QED BY <2>1, <2>2
<1> QED BY <1>1, <1>2, <1>3, InitUndisturbed, StepUndisturbed, RescheduleTypeCorrect,
           PTL DEF RescheduleSpec, PausedKeepsRecords

----------------------------------------------------------------------------
(* With a lone pass paused: no old send time is left to a waiting order.   *)

\* Every send time that still counts is one that the present schedule can give.
DrawsFit ==
    \A o \in Orders : stateFile[o].status # "broadcast" /\ stateFile[o].ready # None
        => stateFile[o].ready \in Drawable(o)

\* Between its two files, the copy of reschedule holds no such time, and a pass
\* is about to save one that fits.
DrawsKeepFit ==
    paused =>
        /\ rstep \in {"idle", "loaded"} /\ ~halfDone => DrawsFit
        /\ rstep \in {"save", "write", "swap"} =>
            \A o \in Orders : rmem[o].status # "broadcast" => rmem[o].ready = None
        /\ ~halfDone =>
            \A p \in Proc : pc[p] \in SavingReady => ready[p] \in Drawable(cur[p])

\* What makes a lone pass keep to the schedule (BroadcastDue).
LonePass == Timely /\ Current /\ Drawn

LEMMA StepPausedLone ==
    ASSUME OneProcess, RescheduleTypeOK, Undisturbed, paused, LonePass, [RescheduleNext]_allVars
    PROVE  LonePass'
<1>1. CASE Rescheduling
  <2>1. UNCHANGED <<clock, pc, locals>>
    BY <1>1, RescheduleFrame
  <2>2. \A p \in Proc : pc[p] = "idle"
    BY <1>1 DEF Rescheduling, ReadFiles, OnlyShow, Retime, SaveOpen, SaveTmp, SaveSwap, SaveDies,
                Killed, Undisturbed
  <2>3. Timely'
    BY <2>1, <2>2 DEF LonePass, Timely, AtWork, locals
  <2>4. Current' /\ Drawn'
    BY <2>1, <2>2 DEF Current, Drawn, AtWork, Saving, SavingReady, SavingResult, locals
  <2> QED BY <2>3, <2>4 DEF LonePass
<1>2. CASE ~Rescheduling
  <2>1. [Next]_vars
    BY <1>2, OthersMove DEF RescheduleNext, allVars
  <2> QED BY <2>1, StepTimely, StepCurrent, StepDrawn DEF RescheduleTypeOK, LonePass
<1> QED BY <1>1, <1>2

\* A record stays, so the times it allows stay allowed.
LEMMA DrawableGrows ==
    ASSUME NEW o \in Orders, notBefore' = notBefore,
           \A q \in Orders : stateFile[q].status = "broadcast" => stateFile'[q] = stateFile[q]
    PROVE  Drawable(o) \subseteq Drawable(o)'
<1>1. \A q \in 1 .. (o - 1) : q \in Orders
  BY SizeAssumption DEF Orders
<1>2. CatchUpFloors(stateFile, notBefore, o) \subseteq CatchUpFloors(stateFile, notBefore, o)'
  <2>1. ASSUME NEW q \in 1 .. (o - 1), stateFile[q].status = "broadcast", stateFile[q].at # None
        PROVE  stateFile'[q].status = "broadcast" /\ stateFile'[q].at = stateFile[q].at
    BY <1>1, <2>1
  <2> QED BY <2>1 DEF CatchUpFloors
<1> QED BY <1>2 DEF Drawable

\* A pass whose copy is the file saves only a time that it can draw now.
LEMMA DrawnFits ==
    ASSUME TypeOK, LonePass, NEW p \in Proc, Resolve(p), pc'[p] \in SavingReady
    PROVE  ready'[p] \in Drawable(cur[p])
<1>1. /\ cur[p] \in Orders /\ mem[p] = stateFile /\ plan[p] = notBefore
      /\ opt[p] \in Options /\ pc[p] = "scan"
  BY AtEntryType DEF Resolve, AtEntry, LonePass, Timely, Current, TypeOK, PassTypeOK
<1>2. PICK r \in ReadyTimes(stateFile, notBefore, cur[p], opt[p].jitter) :
        /\ ready' = [ready EXCEPT ![p] = r]
        /\ stateFile[cur[p]].ready # r
  <2>1. PICK r \in ReadyTimes(mem[p], plan[p], cur[p], opt[p].jitter) :
          /\ ready' = [ready EXCEPT ![p] = r]
          /\ mem[p][cur[p]].ready # r \/ pc' = [pc EXCEPT ![p] = "gate"]
    BY DEF Resolve, Goto
  <2>2. mem[p][cur[p]].ready # r
    BY <2>1 DEF TypeOK, PassTypeOK, SavingReady
  <2> QED BY <1>1, <2>1, <2>2
<1>3. PICK d \in Draws(stateFile, notBefore, cur[p], opt[p].jitter) :
        r = d \/ r \in CatchUpFloors(stateFile, notBefore, cur[p])
  <2>1. PICK d \in Draws(stateFile, notBefore, cur[p], opt[p].jitter) :
          r \in Latest({d} \cup CatchUpFloors(stateFile, notBefore, cur[p]))
    BY <1>2 DEF ReadyTimes
  <2> QED BY <2>1 DEF Latest
<1>4. ready'[p] = r /\ r # stateFile[cur[p]].ready
  BY <1>2 DEF TypeOK, PassTypeOK
<1>5. CASE r \in CatchUpFloors(stateFile, notBefore, cur[p])
  BY <1>4, <1>5 DEF Drawable
<1>6. CASE r = d
  <2>1. r \in notBefore[cur[p]] .. (notBefore[cur[p]] + opt[p].jitter)
    BY <1>3, <1>4, <1>6 DEF Draws
  <2> QED BY <1>1, <1>4, <2>1 DEF Drawable
<1> QED BY <1>3, <1>5, <1>6

\* Which steps of a pass lead into, or on in, the save of a send time.
LEMMA ReadySaves ==
    ASSUME TypeOK, NEW p \in Proc, PassStep(p) \/ Crash(p), pc'[p] \in SavingReady
    PROVE  \/ Resolve(p) /\ cur'[p] = cur[p]
           \/ pc[p] \in SavingReady /\ UNCHANGED <<ready, cur>>
<1> USE DEF TypeOK, PassTypeOK, SavingReady, locals
<1>1. CASE Resolve(p)
  BY <1>1 DEF Resolve
<1>2. CASE OpenTmp(p) \/ WriteTmp(p)
  BY <1>2 DEF OpenTmp, WriteTmp, Goto
<1>3. CASE ~Resolve(p) /\ ~OpenTmp(p) /\ ~WriteTmp(p)
  <2>1. \E label \in {"idle", "load", "scan", "gate", "lookup", "test", "send", "mark",
                      "saveResult"} : pc' = [pc EXCEPT ![p] = label]
    BY <1>3 DEF PassStep, Start, Load, LoadDies, Return, PassOver, NothingSigned, NotSigned,
                SwapReady, SwapResult, SwapDies, Hold, Finalize, FinalizeFails, ParseDies,
                LookupFinds, LookupMisses, TestPasses, TestRejects, SendReturns, SendFails,
                SendDies, MarkBroadcast, Crash, MarkFailed, Exit, Goto, NextEntry, NextAttempted
  <2> QED BY <2>1
<1> QED BY <1>1, <1>2, <1>3

\* A pass that runs between two reschedules.
LEMMA PassKeepsFit ==
    ASSUME OneProcess, TypeOK, LonePass, LonePass', DrawsFit,
           NEW p \in Proc, PassStep(p) \/ Crash(p),
           pc[p] \in SavingReady => ready[p] \in Drawable(cur[p])
    PROVE  /\ DrawsFit'
           /\ pc'[p] \in SavingReady =>
                \E o \in Orders : o = cur'[p] /\ ready'[p] \in Drawable(o)'
<1>1. notBefore' = notBefore /\ [Next]_vars
  BY FileFrame DEF Next
<1>2. \A q \in Orders : stateFile[q].status = "broadcast" => stateFile'[q] = stateFile[q]
  BY <1>1, SaveTouchesCurrent DEF LonePass
<1>3. \A o \in Orders : Drawable(o) \subseteq Drawable(o)'
  BY <1>1, <1>2, DrawableGrows
<1>4. ASSUME NEW o \in Orders, stateFile'[o].status # "broadcast", stateFile'[o].ready # None
      PROVE  stateFile'[o].ready \in Drawable(o)'
  <2>1. CASE stateFile'[o] = stateFile[o]
    BY <1>3, <1>4, <2>1 DEF DrawsFit
  <2>2. CASE stateFile'[o] # stateFile[o]
    <3>1. PICK q \in Proc : /\ o = cur[q]
                            /\ SwapReady(q) \/ SwapResult(q)
                            /\ stateFile[o].status # "broadcast"
                            /\ stateFile' = mem[q]
      BY <1>1, <2>2, SaveTouchesCurrent DEF LonePass
    <3>2. q = p
      BY DEF OneProcess
    <3>3. CASE SwapReady(q)
      <4>1. pc[p] \in SavingReady /\ o = cur[p]
        BY <3>1, <3>2, <3>3 DEF SwapReady, SavingReady
      <4>2. mem[p][o].ready = ready[p] /\ ready[p] \in Drawable(o)
        BY <4>1 DEF LonePass, Drawn
      <4> QED BY <1>3, <3>1, <3>2, <4>2
    <3>4. CASE SwapResult(q)
      <4>1. pc[p] \in SavingResult /\ o = cur[p]
        BY <3>1, <3>2, <3>4 DEF SwapResult, SavingResult
      <4>2. mem[p][o].ready = stateFile[o].ready
        BY <4>1 DEF LonePass, Drawn
      <4>3. stateFile'[o].ready = stateFile[o].ready
        BY <3>1, <3>2, <4>2
      <4> QED BY <1>3, <1>4, <3>1, <4>3 DEF DrawsFit
    <3> QED BY <3>1, <3>3, <3>4
  <2> QED BY <2>1, <2>2
<1>5. ASSUME pc'[p] \in SavingReady
      PROVE  \E o \in Orders : o = cur'[p] /\ ready'[p] \in Drawable(o)'
  <2>1. cur[p] \in Orders /\ cur'[p] = cur[p] /\ ready'[p] \in Drawable(cur[p])
    <3>1. CASE Resolve(p) /\ cur'[p] = cur[p]
      BY <1>5, <3>1, DrawnFits, AtEntryType DEF Resolve
    <3>2. CASE pc[p] \in SavingReady /\ UNCHANGED <<ready, cur>>
      BY <1>5, <3>2, AtWorkType DEF AtWork, SavingReady
    <3> QED BY <1>5, <3>1, <3>2, ReadySaves
  <2>2. PICK o \in Orders : o = cur[p]
    BY <2>1
  <2> QED BY <1>3, <2>1, <2>2
<1> QED BY <1>4, <1>5 DEF DrawsFit

LEMMA StepDrawsKeepFit ==
    ASSUME OneProcess, RescheduleTypeOK, Undisturbed, paused, LonePass, LonePass', DrawsKeepFit,
           [RescheduleNext]_allVars
    PROVE  DrawsKeepFit'
<1>1. CASE Rescheduling
  <2>1. UNCHANGED <<pc, mem, ready, cur>>
    BY <1>1, RescheduleFrame DEF locals
  <2>2. \A p \in Proc : pc[p] = "idle"
    BY <1>1 DEF Rescheduling, ReadFiles, OnlyShow, Retime, SaveOpen, SaveTmp, SaveSwap, SaveDies,
                Killed, Undisturbed
  <2>3. \A p \in Proc : pc'[p] \notin SavingReady
    BY <2>1, <2>2 DEF SavingReady
  <2>4. CASE ReadFiles \/ OnlyShow
    <3>1. UNCHANGED <<notBefore, stateFile, halfDone>> /\ rstep \in {"idle", "loaded"}
          /\ rstep' \in {"idle", "loaded"}
      BY <2>4 DEF ReadFiles, OnlyShow, Finish, vars, disk, files
    <3> QED BY <2>3, <3>1 DEF DrawsKeepFit, DrawsFit, Drawable
  <2>5. CASE Retime
    <3>1. rmem = stateFile /\ stateFile' = stateFile
      BY <2>5 DEF Retime, Undisturbed, files
    <3>2. CASE \E o \in Pending : rmem[o].ready # None
      <4>1. rmem' = DrawsCleared(rmem, Pending) /\ rstep' = "save"
        BY <2>5, <3>2 DEF Retime
      <4>2. \A o \in Orders : rmem'[o].status # "broadcast" => rmem'[o].ready = None
        BY <4>1 DEF DrawsCleared, Pending
      <4> QED BY <2>3, <4>1, <4>2 DEF DrawsKeepFit
    <3>3. CASE ~ \E o \in Pending : rmem[o].ready # None
      <4>1. rstep' = "idle"
        BY <2>5, <3>3 DEF Retime, Finish
      <4>2. DrawsFit'
        BY <3>1, <3>3 DEF DrawsFit, Pending
      <4> QED BY <2>3, <4>1, <4>2 DEF DrawsKeepFit
    <3> QED BY <3>2, <3>3
  <2>6. CASE SaveOpen \/ SaveTmp
    BY <2>3, <2>6 DEF SaveOpen, SaveTmp, DrawsKeepFit
  <2>7. CASE SaveSwap
    <3>1. rstep' = "idle" /\ stateFile' = rmem
      BY <2>7 DEF SaveSwap, Replace, Finish, Undisturbed
    <3>2. \A o \in Orders : rmem[o].status # "broadcast" => rmem[o].ready = None
      BY <2>7 DEF SaveSwap, DrawsKeepFit
    <3>3. DrawsFit'
      BY <3>1, <3>2 DEF DrawsFit
    <3> QED BY <2>3, <3>1, <3>3 DEF DrawsKeepFit
  <2>8. CASE SaveDies
    BY <2>3, <2>8 DEF SaveDies, Finish, DrawsKeepFit
  <2>9. CASE Killed
    <3>1. UNCHANGED <<notBefore, stateFile>> /\ rstep' = "idle"
      BY <2>9 DEF Killed, Abandon, Finish
    <3>2. ~halfDone' => ~halfDone /\ rstep = "loaded"
      BY <2>9 DEF Killed
    <3> QED BY <2>3, <3>1, <3>2 DEF DrawsKeepFit, DrawsFit, Drawable
  <2> QED BY <1>1, <2>4, <2>5, <2>6, <2>7, <2>8, <2>9 DEF Rescheduling
<1>2. CASE ~Rescheduling /\ Passes
  <2>1. PICK p \in Proc : PassStep(p) \/ Crash(p)
    BY <1>2 DEF Passes
  <2>2. rstep = "idle" /\ UNCHANGED rvars
    BY <1>2 DEF Passes, RescheduleNext, allVars
  <2>3. CASE halfDone
    BY <2>2, <2>3 DEF DrawsKeepFit, rvars
  <2>4. CASE ~halfDone
    <3>1. DrawsFit /\ (pc[p] \in SavingReady => ready[p] \in Drawable(cur[p]))
      BY <2>2, <2>4 DEF DrawsKeepFit
    <3>2. /\ DrawsFit'
          /\ pc'[p] \in SavingReady =>
               \E o \in Orders : o = cur'[p] /\ ready'[p] \in Drawable(o)'
      BY <2>1, <3>1, PassKeepsFit DEF RescheduleTypeOK
    <3>3. \A q \in Proc : q = p
      BY DEF OneProcess
    <3> QED BY <2>2, <3>2, <3>3 DEF DrawsKeepFit, rvars
  <2> QED BY <2>3, <2>4
<1>3. CASE ~Rescheduling /\ ~Passes
  <2>1. UNCHANGED <<notBefore, files, pc, ready, cur, rvars>>
    BY <1>3, WorldFrame DEF RescheduleNext, allVars, locals
  <2> QED BY <2>1 DEF DrawsKeepFit, DrawsFit, Drawable, CatchUpFloors, rvars, files
<1> QED BY <1>1, <1>2, <1>3

\* With a lone pass that is paused for it, a reschedule leaves no waiting order a
\* send time of the old schedule, too early or too late for the new one, however
\* often it is run, whatever passes draw in between, and wherever they are killed.
THEOREM NoOldDraws == ASSUME OneProcess PROVE RescheduleSpec => []DrawsFollowSchedule
<1>1. RescheduleInit => DrawsKeepFit /\ LonePass
  <2> SUFFICES ASSUME RescheduleInit PROVE DrawsKeepFit /\ LonePass
    OBVIOUS
  <2>1. LonePass
    BY InitTimely, InitCurrent, InitDrawn DEF RescheduleInit, LonePass
  <2>2. DrawsFit /\ rstep = "idle" /\ \A p \in Proc : pc[p] = "idle"
    BY DEF RescheduleInit, Init, DrawsFit, Blank
  <2> QED BY <2>1, <2>2 DEF DrawsKeepFit, SavingReady
<1>2. RescheduleTypeOK /\ Undisturbed /\ (paused => LonePass) /\ DrawsKeepFit
        /\ [RescheduleNext]_allVars => (paused => LonePass)' /\ DrawsKeepFit'
  <2> SUFFICES ASSUME RescheduleTypeOK, Undisturbed, paused => LonePass, DrawsKeepFit,
                      [RescheduleNext]_allVars
               PROVE  (paused' => LonePass') /\ DrawsKeepFit'
    OBVIOUS
  <2>1. paused' = paused
    BY DEF RescheduleNext, Rescheduling, ReadFiles, OnlyShow, Retime, SaveOpen, SaveTmp,
           SaveSwap, SaveDies, Killed, rvars, allVars
  <2>2. CASE paused
    BY <2>1, <2>2, StepPausedLone, StepDrawsKeepFit
  <2>3. CASE ~paused
    BY <2>1, <2>3 DEF DrawsKeepFit
  <2> QED BY <2>2, <2>3
<1>3. DrawsKeepFit => DrawsFollowSchedule
  BY DEF DrawsKeepFit, DrawsFit, DrawsFollowSchedule
<1> QED BY <1>1, <1>2, <1>3, InitUndisturbed, StepUndisturbed, RescheduleTypeCorrect,
           PTL DEF RescheduleSpec

=============================================================================
