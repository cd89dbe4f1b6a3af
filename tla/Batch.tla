------------------------------- MODULE Batch --------------------------------
(***************************************************************************)
(* `plan` and `generate` on one output directory (cli.py), and the         *)
(* operator between them: from copies of two wallet files to a session,    *)
(* PSBTs, their manifest and a schedule.  plan may be run again when part  *)
(* of the batch is out; wallets, files and directory change meanwhile.     *)
(*                                                                         *)
(* The operator runs one command at a time.  A command reads the wallet    *)
(* files once; every prompt and every file it writes is an action.         *)
(***************************************************************************)
EXTENDS Integers, FiniteSets, Sequences

CONSTANTS
    Value,      \* of every coin of Wallet A, the greatest first
    Late,       \* the coins that may not be there from the beginning
    Unlabeled,  \* the coins that plan has to ask a label for
    Label,      \* the label that every coin has or is given
    MaxIndex,   \* the last receive index of Wallet B (bound)
    Fees,       \* the fees that may be drawn
    Disciplines,\* whether the operator keeps to docs/FEE-SPIKE-RECOVERY.md
    Mishaps,    \* what may happen besides ...
    MaxMishaps, \* ... and how often (bound)
    MaxPlans,   \* how often plan is run to its end (bound)
    None        \* a file that does not exist

Coins == 1 .. Len(Value)

Indices == 0 .. MaxIndex

ASSUME BatchAssumption ==
    /\ Value \in Seq(Nat)
    /\ Late \subseteq Coins
    /\ Unlabeled \subseteq Coins
    /\ Label \in [Coins -> STRING]
    /\ MaxMishaps \in Nat
    /\ MaxIndex \in Nat /\ MaxIndex >= 2 * Len(Value) + MaxMishaps
    /\ Fees \subseteq Nat
    /\ Disciplines \subseteq BOOLEAN
    /\ MaxPlans \in Nat

VARIABLES
    unspent,    \* the coins of Wallet A that the chain has not seen spent
    paidTo,     \* the receive indices of Wallet B that were ever paid to
    yetToCome,  \* the coins that nobody has paid to Wallet A so far
    known,      \* the transactions of this tool that Core has
    fileA,      \* the copy of Wallet A's file: whose it is, what it says
    fileB,      \* the copy of Wallet B's file
    mishaps     \* mishaps spent so far

VARIABLES       \* the output directory
    session,    \* labels-session.json
    psbts,      \* psbts/*.psbt
    manifest,   \* psbts/manifest.json
    schedule,   \* schedule.yaml
    skipped,    \* SKIPPED-UTXOS.txt
    signed,     \* psbts_signed/
    booked      \* the orders that broadcast-state.yaml calls broadcast

VARIABLES       \* the command that runs, and the operator
    step,       \* where it stands
    snap,       \* the wallet files as it read them
    included,   \* plan: the coins in the batch
    asked,      \* plan: the coins to ask a label for; generate: those to write
    mapping,    \* plan: the assignments as they are
    shown,      \* plan: the assignments as last printed
    accepted,   \* history: every mapping that the operator said PROCEED to
    plans,      \* how many plans were saved
    careful,    \* the operator's discipline, for the whole behaviour
    paused      \* a careful operator's broadcaster is paused

chain == <<unspent, paidTo, yetToCome, known>>
world == <<chain, mishaps>>
files == <<fileA, fileB>>
directory == <<session, psbts, manifest, schedule, skipped, signed, booked>>
command == <<step, snap, included, asked, mapping, shown>>
operator == <<accepted, plans, careful, paused>>
vars == <<world, files, directory, command, operator>>

----------------------------------------------------------------------------
(* Wallet files and mappings.                                              *)

\* load_wallet: the keystore it belongs to, unspent coins, frozen ones, and the
\* receive indices with any history.
CopyOfA(frozen) == [wallet |-> "A", unspent |-> unspent, frozen |-> frozen]

CopyOfB == [wallet |-> "B", used |-> paidTo]

Foreign == [wallet |-> "other", unspent |-> {}, frozen |-> {}, used |-> {}]

FilesOfA == [wallet: {"A"}, unspent: SUBSET Coins, frozen: SUBSET Coins] \cup {Foreign}

FilesOfB == [wallet: {"B"}, used: SUBSET Indices] \cup {Foreign}

\* That nothing has been read is nothing that can be read.
ASSUME FileAssumption == None \notin [a: FilesOfA, b: FilesOfB]

\* Variant: indices with a history are not passed over.
IndexOfAny(c, S, used) == Cardinality({d \in S : d < c})

\* build_assignments: coins by falling value on the free indices in turn.
IndexOf(c, S, used) ==
    CHOOSE i \in Indices \ used :
        Cardinality({j \in Indices \ used : j < i}) = Cardinality({d \in S : d < c})

\* Its file name: its place in the batch, its label, and how many before it carry
\* the same.
NameOf(c, S) ==
    LET before == {d \in S : d < c} IN
    <<Cardinality(before) + 1, Label[c], Cardinality({d \in before : Label[d] = Label[c]})>>

\* Variant: an assignment without its fee.
AssignedUnpriced(c, S, b, fee) ==
    [name |-> NameOf(c, S), coin |-> c, wallet |-> b.wallet,
     index |-> IndexOf(c, S, b.used), plan |-> plans]

\* A transaction: the coin, where it goes, and what plan has drawn for it.
Assigned(c, S, b, fee) ==
    [name |-> NameOf(c, S), coin |-> c, wallet |-> b.wallet,
     index |-> IndexOf(c, S, b.used), fee |-> fee, plan |-> plans]

Assignment ==
    [name: Nat \X STRING \X Nat, coin: Coins, wallet: {"A", "B", "other"}, index: Indices,
     fee: Fees, plan: Nat]

Assignments(S, b, fees) == {Assigned(c, S, b, fees[c]) : c \in S}

\* With a fee drawn for every coin.
Drawn(S, b) == {Assignments(S, b, fees) : fees \in [S -> Fees]}

CoinsOf(S) == {a.coin : a \in S}

\* What compare_assignment_mapping compares.
Destinations(S) == {<<a.coin, a.index, a.wallet>> : a \in S}

First(S) == CHOOSE c \in S : \A d \in S : c <= d

\* A file is written over one of its name.
Written(dir, file) == {f \in dir : f.name # file.name} \cup {file}

----------------------------------------------------------------------------
NoCommand ==
    /\ step' = "idle"
    /\ snap' = None
    /\ included' = {}
    /\ asked' = {}
    /\ mapping' = {}
    /\ shown' = {}

Init ==
    /\ yetToCome \in {{}, Late}
    /\ unspent = Coins \ yetToCome
    /\ paidTo = {}
    /\ known = {}
    /\ fileA = CopyOfA({})
    /\ fileB = CopyOfB
    /\ mishaps = 0
    /\ session = None
    /\ psbts = {}
    /\ manifest = None
    /\ schedule = <<>>
    /\ skipped = None
    /\ signed = {}
    /\ booked = {}
    /\ step = "idle"
    /\ snap = None
    /\ included = {}
    /\ asked = {}
    /\ mapping = {}
    /\ shown = {}
    /\ accepted = {}
    /\ plans = 0
    /\ careful \in Disciplines
    /\ paused = careful

----------------------------------------------------------------------------
(* plan                                                                    *)

PlanStart ==
    /\ step = "idle"
    /\ plans < MaxPlans
    /\ careful => paused /\ fileA.unspent = unspent /\ fileB.used = paidTo
    /\ snap' = [a |-> fileA, b |-> fileB]
    /\ step' = "ownership"
    /\ UNCHANGED <<world, files, directory, operator, included, asked, mapping, shown>>

\* Variant: the answer is not looked at.
ConfirmAnything ==
    /\ step = "ownership"
    /\ included' = snap.a.unspent \ snap.a.frozen
    /\ asked' = included' \cap Unlabeled
    /\ step' = "labels"
    /\ UNCHANGED <<world, files, directory, operator, snap, mapping, shown>>

\* confirm_dest_wallet_ownership: the operator finds the address on the device.
\* Then apply_frozen_exclusions.
ConfirmOwnership ==
    /\ step = "ownership"
    /\ snap.b.wallet = "B"
    /\ included' = snap.a.unspent \ snap.a.frozen
    /\ asked' = included' \cap Unlabeled
    /\ step' = "labels"
    /\ UNCHANGED <<world, files, directory, operator, snap, mapping, shown>>

\* prompt_for_labels: a label, or "skip".
AnswerLabel ==
    /\ step = "labels"
    /\ asked # {}
    /\ asked' = asked \ {First(asked)}
    /\ included' \in {included, included \ {First(asked)}}
    /\ UNCHANGED <<world, files, directory, operator, step, snap, mapping, shown>>

\* The first mapping and its table; nothing to do without coins.
BuildMapping ==
    /\ step = "labels"
    /\ asked = {}
    /\ IF included = {} THEN NoCommand
       ELSE /\ mapping' \in Drawn(included, snap.b)
            /\ shown' = mapping'
            /\ step' = "review"
            /\ UNCHANGED <<snap, included, asked>>
    /\ UNCHANGED <<world, files, directory, operator>>

\* OPTIONS
OpenOptions ==
    /\ step = "review"
    /\ step' = "options"
    /\ UNCHANGED <<world, files, directory, operator, snap, included, asked, mapping, shown>>

\* Other fees: rebuild_assignments draws them anew.
ChangeFees ==
    /\ step = "options"
    /\ mapping' \in Drawn(included, snap.b)
    /\ UNCHANGED <<world, files, directory, operator, step, snap, included, asked, shown>>

\* Variant: back to the prompt without another look at the table.
CloseOptionsSilently ==
    /\ step = "options"
    /\ step' = "review"
    /\ UNCHANGED <<world, files, directory, operator, snap, included, asked, mapping, shown>>

\* The loop of run_mapping_review prints the table again.
CloseOptions ==
    /\ step = "options"
    /\ shown' = mapping
    /\ step' = "review"
    /\ UNCHANGED <<world, files, directory, operator, snap, included, asked, mapping>>

\* PROCEED: the session with the identity of both wallets, the coins of the copy,
\* which of them are in the batch, and the mapping.
Proceed ==
    /\ step = "review"
    /\ session' = [source |-> snap.a.wallet, dest |-> snap.b.wallet,
                   utxos |-> snap.a.unspent, included |-> included, assignments |-> mapping]
    /\ accepted' = accepted \cup {shown}
    /\ plans' = plans + 1
    /\ NoCommand
    /\ UNCHANGED <<world, files, psbts, manifest, schedule, skipped, signed, booked, careful, paused>>

\* exit, q or end of input at a prompt; or the files on the table are the wrong
\* ones.
Abort ==
    /\ step \in {"ownership", "labels", "review", "options", "ack"}
    /\ NoCommand
    /\ UNCHANGED <<world, files, directory, operator>>

----------------------------------------------------------------------------
(* generate                                                                *)

\* Variant: a spent coin is not missed.
SourceSpent(a) == TRUE

\* verify_dest_wallet and verify_source_wallet
WalletsMatch(a, b) == session.source = a.wallet /\ session.dest = b.wallet

\* validate_source_utxos: every coin of the batch is still unspent.
SourceUnspent(a) == session.included \subseteq a.unspent

\* Session and wallet files read and compared; otherwise generate refuses.
GenerateStart ==
    /\ step = "idle"
    /\ session # None
    /\ careful => paused
    /\ WalletsMatch(fileA, fileB)
    /\ SourceUnspent(fileA)
    /\ snap' = [a |-> fileA, b |-> fileB]
    /\ step' = "ack"
    /\ UNCHANGED <<world, files, directory, operator, included, asked, mapping, shown>>

\* The mapping built again on Wallet B as it is now: compare_assignment_mapping.
SameMapping(b) ==
    \A other \in Drawn(session.included, b) :
        Destinations(other) = Destinations(session.assignments)

\* I UNDERSTAND, where coins are left out; then the mapping is compared.
Acknowledge ==
    /\ step = "ack"
    /\ IF SameMapping(snap.b)
       THEN /\ asked' = CoinsOf(session.assignments)
            /\ step' = "bundle"
            /\ UNCHANGED <<snap, included, mapping, shown>>
       ELSE NoCommand
    /\ UNCHANGED <<world, files, directory, operator>>

\* The assignment that write_psbt_bundle has reached.
Reached == {a \in session.assignments : asked # {} /\ a.coin = First(asked)}

WritePsbt ==
    /\ step = "bundle"
    /\ \E a \in Reached : a.fee < Value[a.coin] /\ psbts' = Written(psbts, a)
    /\ asked' = asked \ {First(asked)}
    /\ UNCHANGED <<world, files, session, manifest, schedule, skipped, signed, booked, operator,
                   step, snap, included, mapping, shown>>

\* build_psbt: the fee takes all of the coin.  PSBTs before it are written.
BundleFails ==
    /\ step = "bundle"
    /\ \E a \in Reached : a.fee >= Value[a.coin]
    /\ NoCommand
    /\ UNCHANGED <<world, files, directory, operator>>

WriteManifest ==
    /\ step = "bundle"
    /\ asked = {}
    /\ manifest' = session.assignments
    /\ step' = "schedule"
    /\ UNCHANGED <<world, files, session, psbts, schedule, skipped, signed, booked, operator,
                   snap, included, asked, mapping, shown>>

\* write_schedule: greater coins first, equal ones shuffled.
Orderings(S) ==
    {o \in [1 .. Cardinality(S) -> S] :
        \A i, j \in 1 .. Cardinality(S) :
            i < j => o[i] # o[j] /\ Value[o[i].coin] >= Value[o[j].coin]}

WriteSchedule ==
    /\ step = "schedule"
    /\ schedule' \in Orderings(session.assignments)
    /\ step' = "skipped"
    /\ UNCHANGED <<world, files, session, psbts, manifest, skipped, signed, booked, operator,
                   snap, included, asked, mapping, shown>>

\* Variant: of the coins of the copy just read, not of those of the session.
WriteFrozen ==
    /\ step = "skipped"
    /\ skipped' = snap.a.frozen
    /\ NoCommand
    /\ UNCHANGED <<world, files, session, psbts, manifest, schedule, signed, booked, operator>>

\* write_skipped_utxos; then the session once more, as it was.
WriteSkipped ==
    /\ step = "skipped"
    /\ skipped' = session.utxos \ session.included
    /\ NoCommand
    /\ UNCHANGED <<world, files, session, psbts, manifest, schedule, signed, booked, operator>>

----------------------------------------------------------------------------
(* The operator, the wallets, the broadcaster.                             *)

Mishap(kind) ==
    /\ kind \in Mishaps
    /\ mishaps < MaxMishaps
    /\ mishaps' = mishaps + 1

\* A command is killed.
Crash ==
    /\ step # "idle"
    /\ Mishap("crash")
    /\ NoCommand
    /\ UNCHANGED <<chain, files, directory, operator>>

\* A coin is spent by hand, or frozen and the file copied.
SpendElsewhere(c) ==
    /\ c \in unspent
    /\ Mishap("spend")
    /\ unspent' = unspent \ {c}
    /\ UNCHANGED <<paidTo, yetToCome, known, files, directory, command, operator>>

\* Somebody pays to Wallet A.
Arrive(c) ==
    /\ c \in yetToCome
    /\ Mishap("arrive")
    /\ unspent' = unspent \cup {c}
    /\ yetToCome' = yetToCome \ {c}
    /\ UNCHANGED <<paidTo, known, files, directory, command, operator>>

Freeze(c) ==
    /\ Mishap("freeze")
    /\ fileA' = CopyOfA({c})
    /\ UNCHANGED <<chain, fileB, directory, command, operator>>

\* Wallet B is paid by somebody else.
ReceiveElsewhere(i) ==
    /\ ~careful
    /\ Mishap("receive")
    /\ paidTo' = paidTo \cup {i}
    /\ UNCHANGED <<unspent, yetToCome, known, files, directory, command, operator>>

\* Another wallet's file lies where one of the two was.
Misplace ==
    /\ Mishap("misplace")
    /\ \/ fileA' = Foreign /\ UNCHANGED fileB
       \/ fileB' = Foreign /\ UNCHANGED fileA
    /\ UNCHANGED <<chain, directory, command, operator>>

\* The wallet files are copied again; a careful operator pauses the broadcaster
\* and copies both.
Recopy ==
    /\ step = "idle"
    /\ \/ fileA' = CopyOfA({}) /\ fileB' = CopyOfB /\ paused' = careful
       \/ ~careful /\ fileA' = CopyOfA({}) /\ UNCHANGED <<fileB, paused>>
       \/ ~careful /\ fileB' = CopyOfB /\ UNCHANGED <<fileA, paused>>
    /\ UNCHANGED <<world, directory, command, accepted, plans, careful>>

\* A PSBT goes through the Coldcard into psbts_signed/.
Sign(f) ==
    /\ careful => ~paused
    /\ signed' = Written(signed, f)
    /\ UNCHANGED <<world, files, session, psbts, manifest, schedule, skipped, booked, command, operator>>

\* generate has finished on the session as it is.
Finished ==
    /\ step = "idle"
    /\ session # None /\ manifest = session.assignments
    /\ {schedule[o] : o \in DOMAIN schedule} = manifest

\* Variant: the state file of the batch before stays.
ResumeWithOldState ==
    /\ careful /\ paused
    /\ Finished
    /\ signed' = {}
    /\ paused' = FALSE
    /\ UNCHANGED <<world, files, session, psbts, manifest, schedule, skipped, booked, command,
                   accepted, plans, careful>>

\* Stale signed files and the old state archived, the broadcaster resumed.
CleanUpAndResume ==
    /\ careful /\ paused
    /\ Finished
    /\ signed' = {}
    /\ booked' = {}
    /\ paused' = FALSE
    /\ UNCHANGED <<world, files, session, psbts, manifest, schedule, skipped, command,
                   accepted, plans, careful>>

\* What Core can tell two signed files apart by.
Transaction(f) == [coin |-> f.coin, wallet |-> f.wallet, index |-> f.index,
                   fee |-> f.fee, plan |-> f.plan]

\* A pass of broadcast-due takes the signed file that the schedule names, sends
\* it or finds it sent, and records the order.
Broadcast(o, f) ==
    /\ ~paused
    /\ o \notin booked
    /\ f.name = schedule[o].name
    /\ \/ /\ f.coin \in unspent
          /\ unspent' = unspent \ {f.coin}
          /\ paidTo' = IF f.wallet = "B" THEN paidTo \cup {f.index} ELSE paidTo
          /\ known' = known \cup {Transaction(f)}
       \/ /\ Transaction(f) \in known
          /\ UNCHANGED <<unspent, paidTo, known>>
    /\ booked' = booked \cup {o}
    /\ UNCHANGED <<yetToCome, mishaps, files, session, psbts, manifest, schedule, skipped, signed,
                   command, operator>>

Plan ==
    \/ PlanStart \/ ConfirmOwnership \/ AnswerLabel \/ BuildMapping
    \/ OpenOptions \/ ChangeFees \/ CloseOptions \/ Proceed

Generate ==
    \/ GenerateStart \/ Acknowledge
    \/ WritePsbt \/ BundleFails \/ WriteManifest \/ WriteSchedule \/ WriteSkipped

Around ==
    \/ Crash \/ Misplace \/ Recopy \/ CleanUpAndResume
    \/ \E c \in Coins : SpendElsewhere(c) \/ Arrive(c) \/ Freeze(c)
    \/ \E i \in Indices : ReceiveElsewhere(i)
    \/ \E f \in psbts : Sign(f)
    \/ \E o \in DOMAIN schedule : \E f \in signed : Broadcast(o, f)

Next == Plan \/ Generate \/ Abort \/ Around

Spec == Init /\ [][Next]_vars

----------------------------------------------------------------------------
(* What should hold.                                                       *)

\* Every variable has its type; a command at work has read both wallet files.
TypeOK ==
    /\ unspent \subseteq Coins /\ yetToCome \subseteq Coins
    /\ paidTo \subseteq Indices
    /\ fileA \in FilesOfA /\ fileB \in FilesOfB
    /\ {mapping, psbts, signed} \subseteq SUBSET Assignment
    /\ manifest # None => manifest \subseteq Assignment
    /\ step \in {"idle", "ownership", "labels", "review", "options",
                 "ack", "bundle", "schedule", "skipped"}
    /\ mishaps \in 0 .. MaxMishaps
    /\ plans \in 0 .. MaxPlans
    /\ booked \subseteq 1 .. Len(Value)
    /\ step # "idle" <=> snap # None
    /\ snap \in [a: FilesOfA, b: FilesOfB] \cup {None}
    /\ {careful, paused} \subseteq BOOLEAN

\* Whatever files lie where, every PSBT pays to the wallet whose ownership the
\* operator confirmed on the device.
PaysConfirmedWallet == \A f \in psbts : f.wallet = "B"

\* No bundle is completed that the operator has not seen and accepted as it is,
\* with these coins, addresses and fees.
BundleWasAccepted == manifest # None => manifest \in accepted

\* Every coin that plan saw in the copy of Wallet A is in the schedule or named in
\* SKIPPED-UTXOS.txt when generate writes that file, whatever was skipped or
\* frozen and however many plans and aborted bundles came before.
NothingLeftUnsaid ==
    [][skipped' # skipped =>
        session.utxos = CoinsOf({schedule[o] : o \in DOMAIN schedule}) \cup skipped']_vars

\* When a bundle is completed, all of its coins were unspent and all of its
\* addresses unused in the files that generate had read.
FreshWhenWritten ==
    [][manifest' # manifest =>
        \A a \in manifest' : a.coin \in snap.a.unspent /\ a.index \notin snap.b.used]_vars

\* A careful operator's coins each go to an address of Wallet B that was never
\* paid to before, over all batches.
AddressesUsedOnce ==
    [][careful => \A f \in signed :
        f.coin \in unspent /\ f.coin \notin unspent' /\ Transaction(f) \in known' \ known
            => f.index \notin paidTo]_vars

\* A careful operator's state file calls nothing broadcast but orders of the
\* schedule whose coins have gone, over all batches.
BookedIsSpent ==
    careful /\ ~paused =>
        \A o \in booked : o \in DOMAIN schedule /\ schedule[o].coin \notin unspent

\* verify-manifest: for every entry there is a signed file of its name that
\* pays to its address.
VerifyPasses ==
    \A m \in manifest : \E f \in signed :
        f.name = m.name /\ f.wallet = m.wallet /\ f.index = m.index

\* "All signed PSBTs match the generated manifest": each spends the coin that
\* the manifest has it for.
VerifiedSpendsItsCoin ==
    manifest # None /\ VerifyPasses =>
        \A m \in manifest : \E f \in signed : f.name = m.name /\ f.coin = m.coin

=============================================================================
