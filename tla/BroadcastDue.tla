---------------------------- MODULE BroadcastDue ----------------------------
(***************************************************************************)
(* `coldcard-panic-drain broadcast-due`: one pass over schedule.yaml that  *)
(* hands signed transactions to Bitcoin Core and keeps                     *)
(* broadcast-state.yaml, the only memory a pass leaves to the next one.    *)
(*                                                                         *)
(* A pass (broadcast/runner.py, run_broadcast_due) reads both files once   *)
(* and then works from those copies.  Opening a file, writing it, every    *)
(* RPC and every look at the clock is an action of its own, so that the    *)
(* clock, the operator, Bitcoin Core and other passes may move in between, *)
(* and the process may die there.                                          *)
(***************************************************************************)
EXTENDS Integers

CONSTANTS
    Proc,       \* processes that may run broadcast-due passes
    N,          \* entries of schedule.yaml; their orders are 1..N
    Schedules,  \* the contents schedule.yaml may start with
    Options,    \* the command lines a pass may be started with
    Quiet,      \* the times inside the quiet hours of schedule.yaml
    TxIndex,    \* whether Core runs with -txindex
    Refused,    \* orders whose transaction Core never accepts
    SignedKinds,\* what the operator may put into psbts_signed/
    Manual,     \* orders the operator may broadcast without this tool
    FaultKinds, \* which faults may happen ...
    MaxFaults,  \* ... and how many of them (bound)
    MaxTime,    \* the last tick of the clock (bound)
    None        \* a timestamp that is not set

Orders == 1 .. N

Time == 0 .. MaxTime

\* The programs that save broadcast-state.yaml.
Writers == Proc \cup {"reschedule"}

\* The command line of one invocation.  jitter is --broadcast-jitter-minutes.
OptionSet ==
    [max_count: Nat, dry_run: BOOLEAN, skip_failed: BOOLEAN,
     jitter: Nat, respect_quiet: BOOLEAN]

ASSUME NoneAssumption == None \notin Int

ASSUME SizeAssumption ==
    /\ N \in Nat
    /\ MaxTime \in Nat
    /\ MaxFaults \in Nat

\* `coldcard-panic-drain reschedule` is no pass, and saves the same file.
ASSUME WriterAssumption == "reschedule" \notin Proc

ASSUME EnvironmentAssumption ==
    /\ Schedules \subseteq [Orders -> Nat]
    /\ Options \subseteq OptionSet
    /\ Options # {}
    /\ TxIndex \in BOOLEAN
    /\ SignedKinds \subseteq {"good", "bad"}

VARIABLES
    clock,      \* the wall clock
    notBefore,  \* schedule.yaml: broadcast_not_before of every order
    stateFile,  \* broadcast-state.yaml
    tmpFile,    \* broadcast-state.yaml.tmp, or None when there is none
    form,       \* of these two files: nothing written yet, readable, or torn
    opened,     \* which file the handle leads to that a writer has open
    signed,     \* psbts_signed/: "missing", "good", or "bad" (not finalizable)
    node,       \* where Core has each transaction: "unknown", "mempool", "mined"
    sentAt,     \* history: when Core took the transaction from a pass
    faults      \* faults spent so far

VARIABLES       \* of every process: where its pass stands and its locals
    pc,
    opt,        \* its command line
    plan,       \* schedule_entries: the schedule as the pass read it
    now,        \* the time the pass took for its decisions
    mem,        \* state: its copy of broadcast-state.yaml
    cur,        \* the order the loop has reached
    sent,       \* the attempts counted against max_count
    dirOk,      \* signed_dir_checked
    ready       \* ready_at of the current entry

files == <<stateFile, tmpFile, form, opened>>
disk == <<notBefore, files, signed>>
world == <<clock, node, sentAt, faults>>
locals == <<opt, plan, now, mem, cur, sent, dirOk, ready>>
vars == <<disk, world, pc, locals>>

----------------------------------------------------------------------------
(* broadcast-state.yaml: an order without an entry counts as pending. *)

Stamp == Nat \cup {None}

Entry == [status: {"pending", "failed", "broadcast"}, at: Stamp, ready: Stamp]

States == [Orders -> Entry]

\* That there is no file is not a state a file can be in.
ASSUME FileAssumption == None \notin States

Blank == [o \in Orders |-> [status |-> "pending", at |-> None, ready |-> None]]

\* Variant: a mark that writes a fresh entry, without ready_at.
MarkedBroadcastAfresh(st, o, t) ==
    [st EXCEPT ![o] = [status |-> "broadcast", at |-> t]]

\* mark_broadcast, mark_failed and set_ready_at on the copy st; the first two
\* keep the ready_at of the order, the last one keeps its status.
MarkedBroadcast(st, o, t) ==
    [st EXCEPT ![o] = [status |-> "broadcast", at |-> t, ready |-> st[o].ready]]

MarkedFailed(st, o) ==
    [st EXCEPT ![o] = [status |-> "failed", at |-> None, ready |-> st[o].ready]]

WithReady(st, o, r) ==
    [st EXCEPT ![o] = [status |-> st[o].status, at |-> st[o].at, ready |-> r]]

\* Variant: the runner before catch-up was added.
CatchUpFloorsIgnored(st, pl, o) == {}

\* _scheduled_gap_after_previous and _last_prior_broadcast_at: the times an
\* order may not be sent before when orders ahead of it were broadcast late.
CatchUpFloors(st, pl, o) ==
    IF o = 1 THEN {}
    ELSE {st[q].at + (pl[o] - pl[o - 1]) :
            q \in {q \in 1 .. (o - 1) : st[q].status = "broadcast" /\ st[q].at # None}}

\* Variant: a new draw on every pass.
DrawsAgain(st, pl, o, jitter) == pl[o] .. (pl[o] + jitter)

\* The first half of _resolve_ready_at: a persisted draw is kept, a missing
\* one is drawn from the jitter window (empty but for not_before without jitter).
Draws(st, pl, o, jitter) ==
    IF st[o].ready # None THEN {st[o].ready} ELSE pl[o] .. (pl[o] + jitter)

\* The greatest elements of a set of times: at most one.
Latest(S) == {t \in S : \A u \in S : u <= t}

\* _resolve_ready_at: the draw, or the catch-up floor when that is later.
ReadyTimes(st, pl, o, jitter) ==
    UNION {Latest({d} \cup CatchUpFloors(st, pl, o)) : d \in Draws(st, pl, o, jitter)}

----------------------------------------------------------------------------
(* Initially nothing is signed and no pass has run.                        *)

AnyOption == CHOOSE o \in Options : TRUE

Init ==
    /\ clock = 0
    /\ notBefore \in Schedules
    /\ stateFile = Blank
    /\ tmpFile = None
    /\ form = [state |-> "empty", tmp |-> "empty"]
    /\ opened = [w \in Writers |-> "closed"]
    /\ signed = [o \in Orders |-> "missing"]
    /\ node = [o \in Orders |-> "unknown"]
    /\ sentAt = [o \in Orders |-> None]
    /\ faults = 0
    /\ pc = [p \in Proc |-> "idle"]
    /\ opt = [p \in Proc |-> AnyOption]
    /\ plan = [p \in Proc |-> [o \in Orders |-> 0]]
    /\ now = [p \in Proc |-> 0]
    /\ mem = [p \in Proc |-> Blank]
    /\ cur = [p \in Proc |-> 1]
    /\ sent = [p \in Proc |-> 0]
    /\ dirOk = [p \in Proc |-> FALSE]
    /\ ready = [p \in Proc |-> None]

----------------------------------------------------------------------------
(* Steps that several actions share.                                       *)

\* A fault of this kind happens here.
Fault(kind) ==
    /\ kind \in FaultKinds
    /\ faults < MaxFaults
    /\ faults' = faults + 1

\* The process is gone, by return, exception or death; its memory with it.
Exit(p) ==
    /\ pc' = [pc EXCEPT ![p] = "idle"]
    /\ opt' = [opt EXCEPT ![p] = AnyOption]
    /\ plan' = [plan EXCEPT ![p] = [o \in Orders |-> 0]]
    /\ now' = [now EXCEPT ![p] = 0]
    /\ mem' = [mem EXCEPT ![p] = Blank]
    /\ cur' = [cur EXCEPT ![p] = 1]
    /\ sent' = [sent EXCEPT ![p] = 0]
    /\ dirOk' = [dirOk EXCEPT ![p] = FALSE]
    /\ ready' = [ready EXCEPT ![p] = None]

Goto(p, label) == pc' = [pc EXCEPT ![p] = label]

\* `continue` without an attempt ...
NextEntry(p) ==
    /\ Goto(p, "scan")
    /\ cur' = [cur EXCEPT ![p] = cur[p] + 1]
    /\ ready' = [ready EXCEPT ![p] = None]
    /\ UNCHANGED <<opt, plan, now, mem, sent>>

\* ... and with one.
NextAttempted(p) ==
    /\ Goto(p, "scan")
    /\ cur' = [cur EXCEPT ![p] = cur[p] + 1]
    /\ ready' = [ready EXCEPT ![p] = None]
    /\ sent' = [sent EXCEPT ![p] = sent[p] + 1]
    /\ UNCHANGED <<opt, plan, now, mem, dirOk>>

\* Where the loop stands: before entry cur[p], with attempts left.
AtEntry(p) ==
    /\ pc[p] = "scan"
    /\ cur[p] <= N
    /\ sent[p] < opt[p].max_count

\* Variants: what is recorded is sent again; a failure is never retried; a send
\* time on disk is taken for the claim of another pass.
PassedOverRecordsIgnored(p) == now[p] < plan[p][cur[p]]

PassedOverFailures(p) ==
    \/ mem[p][cur[p]].status \in {"broadcast", "failed"}
    \/ now[p] < plan[p][cur[p]]

PassedOverClaimed(p) ==
    \/ mem[p][cur[p]].status = "broadcast" \/ mem[p][cur[p]].ready # None
    \/ now[p] < plan[p][cur[p]]

\* What the pass's own copies say of the current entry.
PassedOver(p) ==
    \/ mem[p][cur[p]].status = "broadcast"
    \/ opt[p].skip_failed /\ mem[p][cur[p]].status = "failed"
    \/ now[p] < plan[p][cur[p]]

\* ensure_signed_psbt_dir_ready
SignedDirReady == \E o \in Orders : signed[o] # "missing"

\* Variants: any answer of Core counts as found; only the mempool is asked.
NodeFindsAnything(o) == TRUE

NodeFindsPending(o) == node[o] = "mempool"

\* What Core can be asked about: without -txindex it finds a transaction only
\* as long as it is in the mempool.
NodeFinds(o) == node[o] = "mempool" \/ (node[o] = "mined" /\ TxIndex)

----------------------------------------------------------------------------
(* save_atomic, in three steps: every writer opens the same .tmp file,     *)
(* writes it in one piece, and renames it to broadcast-state.yaml.         *)

Readable == form.state # "torn"

\* Variant: what a killed pass left in the file is not emptied.
OpenKeeps(w) ==
    /\ tmpFile' = IF tmpFile = None THEN Blank ELSE tmpFile
    /\ form' = IF tmpFile = None THEN [form EXCEPT !.tmp = "empty"] ELSE form
    /\ opened' = [opened EXCEPT ![w] = "tmp"]
    /\ UNCHANGED <<notBefore, stateFile, signed>>

\* tmp.write_text opens the file, which empties it: whoever has it open already
\* goes on writing to the same one.
Open(w) ==
    /\ tmpFile' = Blank
    /\ form' = [form EXCEPT !.tmp = "empty"]
    /\ opened' = [opened EXCEPT ![w] = "tmp"]
    /\ UNCHANGED <<notBefore, stateFile, signed>>

\* What is left when a text is written over a longer one, whose entries from k
\* on stay behind it (and win, being read last).
Spliced(old, new, k) ==
    [o \in Orders |-> IF o >= k /\ old[o] # Blank[o] THEN old[o] ELSE new[o]]

\* Texts of one length: the same fields are set (an error message has any length).
SameLength(a, b) ==
    \A o \in Orders :
        /\ a[o].status = b[o].status /\ a[o].status # "failed"
        /\ a[o].ready = None <=> b[o].ready = None

\* What a file may hold after `new` has been written at its beginning, over what
\* another process wrote there since both opened it: the new text, alone or with
\* the rest of a longer old one behind it, which starts with an entry or makes
\* the whole a text that nothing can parse.
Overwritten(old, shape, new) ==
    {[holds |-> new, form |-> "whole"]} \cup
        CASE shape = "torn" -> {[holds |-> new, form |-> "torn"]}
          [] shape = "whole" /\ ~SameLength(old, new) ->
                {[holds |-> new, form |-> "torn"]} \cup
                {[holds |-> Spliced(old, new, k), form |-> "whole"] : k \in 2 .. N}
          [] OTHER -> {}

\* The text is written and the file closed.  By then another writer's rename may
\* have made it broadcast-state.yaml itself, or a further one have removed it.
Write(w, text) ==
    /\ \/ /\ opened[w] = "tmp"
          /\ \E r \in Overwritten(tmpFile, form.tmp, text) :
                tmpFile' = r.holds /\ form' = [form EXCEPT !.tmp = r.form]
          /\ UNCHANGED stateFile
       \/ /\ opened[w] = "state"
          /\ \E r \in Overwritten(stateFile, form.state, text) :
                stateFile' = r.holds /\ form' = [form EXCEPT !.state = r.form]
          /\ UNCHANGED tmpFile
       \/ opened[w] = "gone" /\ UNCHANGED <<stateFile, tmpFile, form>>
    /\ opened' = [opened EXCEPT ![w] = "closed"]
    /\ UNCHANGED <<notBefore, signed>>

\* os.replace, of whatever is in the .tmp file by now.
Replace ==
    /\ tmpFile # None
    /\ stateFile' = tmpFile
    /\ tmpFile' = None
    /\ form' = [state |-> form.tmp, tmp |-> "empty"]
    /\ opened' = [w \in Writers |->
                    CASE opened[w] = "tmp" -> "state"
                      [] opened[w] = "state" -> "gone"
                      [] OTHER -> opened[w]]
    /\ UNCHANGED <<notBefore, signed>>

\* A writer dies with the file open: what it had to write is lost.
Abandon(w) ==
    /\ opened' = [opened EXCEPT ![w] = "closed"]
    /\ UNCHANGED <<notBefore, stateFile, tmpFile, form, signed>>

----------------------------------------------------------------------------
(* A pass.                                                                 *)

\* Command line parsed, schedule.yaml read.
Start(p) ==
    /\ pc[p] = "idle"
    /\ \E c \in Options : opt' = [opt EXCEPT ![p] = c]
    /\ plan' = [plan EXCEPT ![p] = notBefore]
    /\ Goto(p, "load")
    /\ UNCHANGED <<disk, world, now, mem, cur, sent, dirOk, ready>>

\* Variant: a clock that is read in another time zone than the schedule.
LoadAhead(p) ==
    /\ pc[p] = "load"
    /\ Readable
    /\ now' = [now EXCEPT ![p] = clock + 1]
    /\ mem' = [mem EXCEPT ![p] = stateFile]
    /\ dirOk' = [dirOk EXCEPT ![p] = opt[p].dry_run]
    /\ Goto(p, "scan")
    /\ UNCHANGED <<disk, world, opt, plan, cur, sent, ready>>

\* Clock and broadcast-state.yaml read; signed_dir_checked = dry_run.
Load(p) ==
    /\ pc[p] = "load"
    /\ Readable
    /\ now' = [now EXCEPT ![p] = clock]
    /\ mem' = [mem EXCEPT ![p] = stateFile]
    /\ dirOk' = [dirOk EXCEPT ![p] = opt[p].dry_run]
    /\ Goto(p, "scan")
    /\ UNCHANGED <<disk, world, opt, plan, cur, sent, ready>>

\* The YAML parser's own exception, which nothing catches.
LoadDies(p) ==
    /\ pc[p] = "load"
    /\ ~Readable
    /\ Exit(p)
    /\ UNCHANGED <<disk, world>>

\* Every entry has been seen or max_count is spent.
Return(p) ==
    /\ pc[p] = "scan"
    /\ cur[p] > N \/ sent[p] >= opt[p].max_count
    /\ Exit(p)
    /\ UNCHANGED <<disk, world>>

\* Already broadcast, a failure not to be retried, or not yet due.
PassOver(p) ==
    /\ AtEntry(p)
    /\ PassedOver(p)
    /\ NextEntry(p)
    /\ UNCHANGED <<disk, world, dirOk>>

\* The first due entry finds psbts_signed/ missing or empty: ValueError.
NothingSigned(p) ==
    /\ AtEntry(p)
    /\ ~PassedOver(p)
    /\ ~dirOk[p] /\ ~SignedDirReady
    /\ Exit(p)
    /\ UNCHANGED <<disk, world>>

\* This entry's signed PSBT is not there.
NotSigned(p) ==
    /\ AtEntry(p)
    /\ ~PassedOver(p)
    /\ dirOk[p] \/ SignedDirReady
    /\ signed[cur[p]] = "missing"
    /\ NextEntry(p)
    /\ dirOk' = [dirOk EXCEPT ![p] = TRUE]
    /\ UNCHANGED <<disk, world>>

\* ready_at is settled; it is saved when it is new and says more than not_before.
Resolve(p) ==
    LET o == cur[p] IN
    /\ AtEntry(p)
    /\ ~PassedOver(p)
    /\ dirOk[p] \/ SignedDirReady
    /\ signed[o] # "missing"
    /\ dirOk' = [dirOk EXCEPT ![p] = TRUE]
    /\ \E r \in ReadyTimes(mem[p], plan[p], o, opt[p].jitter) :
        /\ ready' = [ready EXCEPT ![p] = r]
        /\ IF mem[p][o].ready # r /\ (opt[p].jitter > 0 \/ r > plan[p][o])
           THEN /\ mem' = [mem EXCEPT ![p] = WithReady(mem[p], o, r)]
                /\ Goto(p, "saveReady")
           ELSE /\ Goto(p, "gate")
                /\ UNCHANGED mem
    /\ UNCHANGED <<disk, world, opt, plan, now, cur, sent>>

OpenTmp(p) ==
    /\ \/ pc[p] = "saveReady" /\ Goto(p, "writeReady")
       \/ pc[p] = "saveResult" /\ Goto(p, "writeResult")
    /\ Open(p)
    /\ UNCHANGED <<world, locals>>

WriteTmp(p) ==
    /\ \/ pc[p] = "writeReady" /\ Goto(p, "swapReady")
       \/ pc[p] = "writeResult" /\ Goto(p, "swapResult")
    /\ Write(p, mem[p])
    /\ UNCHANGED <<world, locals>>

SwapReady(p) ==
    /\ pc[p] = "swapReady"
    /\ Replace
    /\ Goto(p, "gate")
    /\ UNCHANGED <<world, locals>>

SwapResult(p) ==
    /\ pc[p] = "swapResult"
    /\ Replace
    /\ NextAttempted(p)
    /\ UNCHANGED world

\* Another process has replaced the file from under this one: FileNotFoundError.
SwapDies(p) ==
    /\ pc[p] \in {"swapReady", "swapResult"}
    /\ tmpFile = None
    /\ Exit(p)
    /\ UNCHANGED <<disk, world>>

\* Variant: the persisted send time is not looked at.
HeldByQuietHours(p) == opt[p].respect_quiet /\ now[p] \in Quiet

\* What holds the current entry back: its ready_at, or the quiet hours.
Held(p) ==
    \/ now[p] < ready[p]
    \/ opt[p].respect_quiet /\ now[p] \in Quiet

Hold(p) ==
    /\ pc[p] = "gate"
    /\ Held(p)
    /\ NextEntry(p)
    /\ UNCHANGED <<disk, world, dirOk>>

\* _signed_tx_hex
Finalize(p) ==
    /\ pc[p] = "gate"
    /\ ~Held(p)
    /\ signed[cur[p]] = "good"
    /\ Goto(p, "lookup")
    /\ UNCHANGED <<disk, world, locals>>

MarkFailed(p) ==
    /\ mem' = [mem EXCEPT ![p] = MarkedFailed(mem[p], cur[p])]
    /\ Goto(p, "saveResult")
    /\ UNCHANGED <<disk, opt, plan, now, cur, sent, dirOk, ready>>

\* The signatures do not complete the transaction: ValueError.
FinalizeFails(p) ==
    /\ pc[p] = "gate"
    /\ ~Held(p)
    /\ signed[cur[p]] = "bad"
    /\ MarkFailed(p)
    /\ UNCHANGED world

\* The file is no PSBT at all: the parser's own exception, which nothing catches.
ParseDies(p) ==
    /\ pc[p] = "gate"
    /\ ~Held(p)
    /\ signed[cur[p]] = "bad"
    /\ Exit(p)
    /\ UNCHANGED <<disk, world>>

\* get_raw_transaction
LookupFinds(p) ==
    /\ pc[p] = "lookup"
    /\ NodeFinds(cur[p])
    /\ Goto(p, "mark")
    /\ UNCHANGED <<disk, world, locals>>

\* It reports "not found" and every RPC error alike, as None; a dry run
\* goes no further.
LookupMisses(p) ==
    /\ pc[p] = "lookup"
    /\ \/ ~NodeFinds(cur[p]) /\ UNCHANGED faults
       \/ NodeFinds(cur[p]) /\ Fault("lookup")
    /\ IF opt[p].dry_run
       THEN NextAttempted(p)
       ELSE Goto(p, "test") /\ UNCHANGED locals
    /\ UNCHANGED <<disk, clock, node, sentAt>>

\* What testmempoolaccept and sendrawtransaction make of the transaction.
TestAllows(o) == node[o] = "unknown" /\ o \notin Refused

SendAllows(o) == node[o] = "mempool" \/ TestAllows(o)

\* test_mempool_accept: allowed, or an RPC error, which becomes [].
TestPasses(p) ==
    /\ pc[p] = "test"
    /\ \/ TestAllows(cur[p]) /\ UNCHANGED faults
       \/ ~TestAllows(cur[p]) /\ Fault("test")
    /\ Goto(p, "send")
    /\ UNCHANGED <<disk, clock, node, sentAt, locals>>

\* Not allowed: for good, because Core has it already, or for now (a fault:
\* fees, limits of the mempool, a lock time not reached).
TestRejects(p) ==
    /\ pc[p] = "test"
    /\ \/ ~TestAllows(cur[p]) /\ UNCHANGED faults
       \/ TestAllows(cur[p]) /\ Fault("reject")
    /\ MarkFailed(p)
    /\ UNCHANGED <<clock, node, sentAt>>

\* Core takes the transaction.
Accept(o) ==
    /\ SendAllows(o)
    /\ IF node[o] = "unknown"
       THEN /\ node' = [node EXCEPT ![o] = "mempool"]
            /\ sentAt' = [sentAt EXCEPT ![o] = clock]
       ELSE UNCHANGED <<node, sentAt>>
    /\ UNCHANGED clock

\* send_raw_transaction: the txid comes back ...
SendReturns(p) ==
    /\ pc[p] = "send"
    /\ Accept(cur[p])
    /\ Goto(p, "mark")
    /\ UNCHANGED <<disk, faults, locals>>

\* ... or an error: CoreRpcError ...
SendFails(p) ==
    /\ pc[p] = "send"
    /\ \/ ~SendAllows(cur[p]) /\ UNCHANGED faults
       \/ SendAllows(cur[p]) /\ Fault("send")
    /\ MarkFailed(p)
    /\ UNCHANGED <<clock, node, sentAt>>

\* ... or nothing: the reply is lost or late, an exception that nothing catches.
SendDies(p) ==
    /\ pc[p] = "send"
    /\ Fault("reply")
    /\ Accept(cur[p])
    /\ Exit(p)
    /\ UNCHANGED disk

\* mark_broadcast, with the time it is called at.
MarkBroadcast(p) ==
    /\ pc[p] = "mark"
    /\ mem' = [mem EXCEPT ![p] = MarkedBroadcast(mem[p], cur[p], clock)]
    /\ Goto(p, "saveResult")
    /\ UNCHANGED <<disk, world, opt, plan, now, cur, sent, dirOk, ready>>

\* The process is killed: at any point of the pass.
Crash(p) ==
    /\ pc[p] # "idle"
    /\ Fault("crash")
    /\ Exit(p)
    /\ Abandon(p)
    /\ UNCHANGED <<clock, node, sentAt>>

PassStep(p) ==
    \/ Start(p) \/ Load(p) \/ LoadDies(p) \/ Return(p) \/ PassOver(p)
    \/ NothingSigned(p) \/ NotSigned(p) \/ Resolve(p)
    \/ OpenTmp(p) \/ WriteTmp(p) \/ SwapReady(p) \/ SwapResult(p) \/ SwapDies(p)
    \/ Hold(p) \/ Finalize(p) \/ FinalizeFails(p) \/ ParseDies(p)
    \/ LookupFinds(p) \/ LookupMisses(p) \/ TestPasses(p) \/ TestRejects(p)
    \/ SendReturns(p) \/ SendFails(p) \/ SendDies(p) \/ MarkBroadcast(p)

----------------------------------------------------------------------------
(* The world around the passes.                                            *)

Tick ==
    /\ clock < MaxTime
    /\ clock' = clock + 1
    /\ UNCHANGED <<disk, node, sentAt, faults, pc, locals>>

\* The operator copies a PSBT from the Coldcard into psbts_signed/.
Sign(o) ==
    /\ signed[o] = "missing"
    /\ \E kind \in SignedKinds : signed' = [signed EXCEPT ![o] = kind]
    /\ UNCHANGED <<notBefore, files, world, pc, locals>>

\* The operator broadcasts it by hand.
ManualSend(o) ==
    /\ o \in Manual
    /\ signed[o] = "good" /\ TestAllows(o)
    /\ node' = [node EXCEPT ![o] = "mempool"]
    /\ UNCHANGED <<disk, clock, sentAt, faults, pc, locals>>

\* A block confirms it.
Mine(o) ==
    /\ node[o] = "mempool"
    /\ node' = [node EXCEPT ![o] = "mined"]
    /\ UNCHANGED <<disk, clock, sentAt, faults, pc, locals>>

Environment == Tick \/ \E o \in Orders : Sign(o) \/ ManualSend(o) \/ Mine(o)

Next == Environment \/ \E p \in Proc : PassStep(p) \/ Crash(p)

Spec == Init /\ [][Next]_vars

----------------------------------------------------------------------------
(* What should hold.                                                       *)

\* The labels inside the two saves.
SavingReady == {"saveReady", "writeReady", "swapReady"}

SavingResult == {"saveResult", "writeResult", "swapResult"}

Saving == SavingReady \cup SavingResult

Forms == {"empty", "whole", "torn"}

DiskTypeOK ==
    /\ notBefore \in [Orders -> Nat]
    /\ stateFile \in States
    /\ tmpFile \in States \cup {None}
    /\ form \in [state: Forms, tmp: Forms]
    /\ opened \in [Writers -> {"closed", "tmp", "state", "gone"}]
    /\ signed \in [Orders -> {"missing", "good", "bad"}]

WorldTypeOK ==
    /\ clock \in Time
    /\ node \in [Orders -> {"unknown", "mempool", "mined"}]
    /\ sentAt \in [Orders -> Stamp]
    /\ faults \in 0 .. MaxFaults

PassTypeOK ==
    /\ pc \in [Proc -> {"idle", "load", "scan", "gate", "lookup", "test", "send", "mark"}
                        \cup Saving]
    /\ opt \in [Proc -> Options]
    /\ plan \in [Proc -> [Orders -> Nat]]
    /\ now \in [Proc -> Time]
    /\ mem \in [Proc -> States]
    /\ cur \in [Proc -> 1 .. (N + 1)]
    /\ sent \in [Proc -> Nat]
    /\ dirOk \in [Proc -> BOOLEAN]
    /\ ready \in [Proc -> Stamp]

\* A handle to the .tmp file leads to a file that is there, and a pass that
\* writes has a handle.
Handles ==
    /\ \A w \in Writers : opened[w] = "tmp" => tmpFile # None
    /\ \A p \in Proc :
        (opened[p] = "closed") <=> pc[p] \notin {"writeReady", "writeResult"}

\* Past the choice of an entry, a pass stands at an entry that exists and has
\* its ready_at.
AtWork(p) == pc[p] \notin {"idle", "load", "scan"}

Located == \A p \in Proc : AtWork(p) => cur[p] \in Orders /\ ready[p] \in Nat

\* Every variable has its type; the entries in the files and in the copies a
\* pass makes of them are always complete, a pass at work is at work on an
\* entry, and one that writes has the file open.
TypeOK == DiskTypeOK /\ WorldTypeOK /\ PassTypeOK /\ Located /\ Handles

\* Whatever dies where, and however many passes overlap, broadcast-state.yaml
\* calls an order "broadcast" only if Core really has its transaction: the
\* coins of that order are never forgotten because of a record that is not true.
RecordedWasAccepted ==
    \A o \in Orders : stateFile[o].status = "broadcast" => node[o] # "unknown"

\* The part of it that is inductive: it also holds of what may be written next,
\* and a pass about to record a broadcast has seen Core take it.
Honest(st, nd) == \A o \in Orders : st[o].status = "broadcast" => nd[o] # "unknown"

Accounted ==
    /\ Honest(stateFile, node)
    /\ tmpFile # None => Honest(tmpFile, node)
    /\ \A p \in Proc : Honest(mem[p], node)
    /\ \A p \in Proc : pc[p] = "mark" => node[cur[p]] # "unknown"

\* A pass hands this order's transaction to Core for the first time.
Sends(o) == sentAt'[o] # sentAt[o]

\* Why nothing is sent too early: a pass works with the schedule on disk and a
\* time that has passed, and stands only at entries due by then.
Timely ==
    \A p \in Proc :
        /\ now[p] <= clock
        /\ pc[p] # "idle" => plan[p] = notBefore
        /\ AtWork(p) => plan[p][cur[p]] <= now[p]
        /\ pc[p] \in {"lookup", "test", "send", "mark"} => ready[p] <= now[p]

\* Nothing is sent before its broadcast_not_before, whatever the pass had read.
NotBeforeKept ==
    [][\A o \in Orders : Sends(o) => clock >= notBefore[o]]_vars

\* Nothing is sent before the send time that broadcast-state.yaml shows for it.
ReadyAtKept ==
    [][\A o \in Orders :
        Sends(o) /\ stateFile[o].ready # None => clock >= stateFile[o].ready]_vars

\* There is only one process: passes do not overlap.
OneProcess == \A p, q \in Proc : p = q

\* Why a lone pass may save its whole copy: outside a save its copy is the
\* file, and during one the copy differs from it at the current entry alone,
\* which is not recorded as broadcast.  Nobody else writes the .tmp file.
Current ==
    \A p \in Proc :
        /\ pc[p] \in {"scan", "gate", "lookup", "test", "send", "mark"}
                => mem[p] = stateFile
        /\ pc[p] \in Saving
                => \A o \in Orders \ {cur[p]} : mem[p][o] = stateFile[o]
        /\ AtWork(p) => stateFile[cur[p]].status # "broadcast"
        /\ pc[p] \in SavingReady => mem[p][cur[p]].status # "broadcast"
        /\ pc[p] \in {"writeReady", "writeResult"} =>
            opened[p] = "tmp" /\ form.tmp = "empty"
        /\ pc[p] \in {"swapReady", "swapResult"} => tmpFile = mem[p]

\* Why a lone pass keeps the drawn send time: the one it is about to save is
\* the one it goes by, and replaces none but for a later catch-up time.
Drawn ==
    \A p \in Proc :
        /\ pc[p] \in SavingReady =>
            /\ mem[p][cur[p]].ready = ready[p]
            /\ stateFile[cur[p]].ready # None =>
                /\ ready[p] > stateFile[cur[p]].ready
                /\ ready[p] \in CatchUpFloors(stateFile, notBefore, cur[p])
        /\ pc[p] \in SavingResult =>
            mem[p][cur[p]].ready = stateFile[cur[p]].ready
        /\ AtWork(p) /\ mem[p][cur[p]].ready # None => mem[p][cur[p]].ready <= ready[p]

\* A backlog is worked off with the schedule's own spacing: when an order
\* follows one that was sent earlier, at least the gap that schedule.yaml
\* keeps before it has passed since that one really was sent, even when the
\* pass that sent it died before it could write that down.
SpacingKept ==
    [][\A o \in Orders : Sends(o) =>
        \A q \in 1 .. (o - 1) : sentAt[q] # None =>
            clock - sentAt[q] >= notBefore[o] - notBefore[o - 1]]_vars

\* An order recorded as broadcast stays so, with its time, through every
\* later save of the whole file.
RecordsAreFinal ==
    [][\A o \in Orders : stateFile[o].status = "broadcast" => stateFile'[o] = stateFile[o]]_vars

\* The send time of an order is drawn once: after that it can only be moved
\* back, to the catch-up time behind an order broadcast late.
ReadyDrawnOnce ==
    [][\A o \in Orders : stateFile[o].ready # None =>
        \/ stateFile'[o].ready = stateFile[o].ready
        \/ /\ stateFile'[o].ready # None
           /\ stateFile'[o].ready > stateFile[o].ready
           /\ stateFile'[o].ready \in CatchUpFloors(stateFile, notBefore, o)]_vars

\* Once a pass has handed an order to Core, no pass writes it down as failed:
\* what an interrupted pass has sent is recognised.  (What the operator sends by
\* hand between the lookup and the send of a pass is not, until the next pass.)
AcceptedNotFailed ==
    [][\A o \in Orders :
        sentAt[o] # None /\ stateFile[o].status # "failed"
            => stateFile'[o].status # "failed"]_vars

\* A lone stream of passes, crashes and lost replies included, keeps the ledger
\* of DrainLedger: each order goes to Core at most once and when it is due, and
\* each save writes down at most one order, one that Core has, for good.
Ledger == INSTANCE DrainLedger WITH
    Orders <- Orders, ByHand <- Manual, time <- clock, due <- notBefore,
    submitted <- {o \in Orders : node[o] # "unknown"},
    booked <- {o \in Orders : stateFile[o].status = "broadcast"}

LedgerKept == Ledger!Spec

\* The passes are started again and again (cron, --follow) and run; the clock runs.
Fairness == WF_vars(Tick) /\ \A p \in Proc : WF_vars(PassStep(p))

FairSpec == Spec /\ Fairness

\* The clock of the model stops before the send time of this order.
BeyondHorizon(o) == stateFile[o].ready # None /\ stateFile[o].ready > MaxTime

\* Two writers of one .tmp file have left a state file that no pass can read:
\* every later one dies, until somebody removes the file.
LeftTorn == <>[]~Readable

\* Passes never stop getting in each other's way, which no fairness excludes.
Entangled == []<>(\E p, q \in Proc : p # q /\ pc[p] # "idle" /\ pc[q] # "idle")

\* Once passes have stopped to overlap, and unless they have left the state file
\* torn, whatever was sent is on record in the end and stays there: a record that
\* a crash prevented, that an overlapping pass overwrote, or that went down with a
\* file published before it was written, is made good by a later pass (once the
\* order's send time has come).
AcceptedSettles ==
    \/ LeftTorn \/ Entangled
    \/ <>[](\A o \in Orders : sentAt[o] # None =>
                stateFile[o].status = "broadcast" \/ BeyondHorizon(o))

\* Every signed order that Core is willing to take is sent and recorded in the
\* end, whatever overlaps have done to the records until they stopped, unless
\* they have left the state file torn or the order's send time lies past the
\* last tick of the model.
Drained ==
    \/ LeftTorn \/ Entangled
    \/ \A o \in Orders :
        (signed[o] = "good" /\ o \notin Refused) ~>
            \/ stateFile[o].status = "broadcast"
            \/ BeyondHorizon(o)

\* Docstring of broadcast/state.py: the state file is written atomically.  What
\* is under its name can always be read, wherever a pass was killed.  (Passes
\* that overlap do break it.)
StateReadable == Readable

=============================================================================
